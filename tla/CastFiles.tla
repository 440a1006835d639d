------------------------------ MODULE CastFiles ------------------------------
(***************************************************************************)
(* The files of the cast and the four scripts that write them, one at a    *)
(* time: build_idle_sheets and build_hero_sheets lay poses on sheets,      *)
(* slice_cast cuts every sheet of sheets.json into the pictures of the     *)
(* catalog and their manifest, and paint_cast paints stand-ins for them.   *)
(* Nothing is written in a transaction, and a script may be cut off        *)
(* anywhere.  Slicer and Poses have what is in the pictures; here one is   *)
(* its frames, how high its figure and its cell are, and where it is from. *)
(***************************************************************************)
EXTENDS Integers, Sequences, FiniteSets, FiniteSetsExt, SequencesExt

CONSTANTS
    Sheets,       \* sheets.json: a sequence of [file, ids, mode]
    StandIns,     \* what paint_cast builds: a sequence of rows
    Bodies,       \* BODIES, in their order
    Actions,      \* ACTIONS, in their order
    Idle(_),      \* the id of a body's idle picture
    HeroFile(_, _), \* the sheet of a body's action
    Cycles,       \* the jobs of build_idle_sheets: a sequence of [file, fig]
    Heights,      \* how high a figure may be drawn
    NoFile, Torn, \* a file that is not there, or cannot be used
    MaxMishaps    \* bound: how often a script is cut off or a sheet changed by hand

Files == {Sheets[i].file : i \in DOMAIN Sheets}
Built == {HeroFile(b, a) : b \in ToSet(Bodies), a \in ToSet(Actions)} \cup {Cycles[i].file : i \in DOMAIN Cycles}
Ids   == (UNION {ToSet(Sheets[i].ids) : i \in DOMAIN Sheets})
           \cup {StandIns[i].id : i \in DOMAIN StandIns}

ASSUME CastAssumption ==
    /\ Heights \subseteq Nat \ {0} /\ MaxMishaps \in Nat
    /\ NoFile # Torn /\ NoFile \notin Heights /\ Torn \notin Heights
    /\ Built \subseteq Files
    /\ \A i \in DOMAIN Bodies : Idle(Bodies[i]) \in Ids

(* sheets.json and build(): no id is given twice, and every sheet has one. *)
ASSUME IdsAssumption ==
    /\ Sheets \in Seq(ToSet(Sheets)) /\ Sheets # <<>>
    /\ \A i \in DOMAIN Sheets : Sheets[i].ids \in Seq(Ids) /\ Sheets[i].ids # <<>>
    /\ \A i, j \in DOMAIN Sheets :
          \A k \in DOMAIN Sheets[i].ids, l \in DOMAIN Sheets[j].ids :
              Sheets[i].ids[k] = Sheets[j].ids[l] => i = j /\ k = l
    /\ StandIns \in Seq(ToSet(StandIns)) /\ StandIns # <<>>
    /\ \A i, j \in DOMAIN StandIns : StandIns[i].id = StandIns[j].id => i = j

(* The bodies: the idle picture is cut from a sheet that no script builds, *)
(* every action has a sheet of its own, and that sheet has one strip.      *)
ASSUME HeroAssumption ==
    /\ Bodies \in Seq(ToSet(Bodies)) /\ Actions \in Seq(ToSet(Actions)) /\ Actions # <<>>
    /\ Cycles \in Seq(ToSet(Cycles))
    /\ \A b \in ToSet(Bodies) :
          \E i \in DOMAIN Sheets : Idle(b) \in ToSet(Sheets[i].ids) /\ Sheets[i].file \notin Built
    /\ \A b \in ToSet(Bodies), a \in ToSet(Actions) :
          \E i \in DOMAIN Sheets : Sheets[i].file = HeroFile(b, a) /\ Len(Sheets[i].ids) = 1
    /\ \A b, c \in ToSet(Bodies), a, d \in ToSet(Actions) :
          HeroFile(b, a) = HeroFile(c, d) => b = c /\ a = d

VARIABLES
    sheets,   \* web/public/rendered: the figure's height, or NoFile, or Torn
    cast,     \* web/public/cast: a picture, or NoFile, or Torn
    manifest, \* the pictures it lists, {} if it is not there or cut off
    script,   \* the script that runs, and "" between them
    at,       \* how far it is: files read, or files written
    batch,    \* what it has cut or painted
    missing,  \* the sheets slice_all did not find
    height,   \* the height build_hero_sheets takes from the idle picture
    log,      \* the last scripts that ran to their end (ghost)
    mishaps   \* scripts cut off and sheets changed by hand so far (ghost)

fileVars == <<sheets, cast, manifest, script, at, batch, missing, height, log, mishaps>>

Emitting == script \in {"slice: emit", "paint: emit"}

FilesInit ==
    /\ \E h \in Heights : sheets = [f \in Files |-> IF f \in Built THEN NoFile ELSE h]
    /\ cast = [i \in Ids |-> NoFile]
    /\ manifest = {}
    /\ script = "" /\ at = 0 /\ batch = <<>> /\ missing = {} /\ height = 0
    /\ log = <<>> /\ mishaps = 0

Enter(s) == script' = s /\ at' = 0 /\ batch' = <<>> /\ missing' = {} /\ height' = 0

(* Back at the shell; after a script that ended well the last three are    *)
(* remembered.                                                             *)
Exit == Enter("")
Leave(s) == Exit /\ log' = SubSeq(log, Max({1, Len(log) - 1}), Len(log)) \o <<s>>

-----------------------------------------------------------------------------
(* slice_cast.                                                             *)

(* The rows of a sheet.  One piece of a still keeps a pixel around it.     *)
RowsOf(sheet, fig) ==
    [i \in DOMAIN sheet.ids |->
        [id |-> sheet.ids[i], source |-> "sheet", fig |-> fig,
         cell |-> IF sheet.mode = "still" THEN fig + 2 ELSE fig,
         frames |-> IF sheet.mode = "strip" THEN 4 ELSE 1]]

StartSlice == script = "" /\ Enter("slice") /\ UNCHANGED <<sheets, cast, manifest, log, mishaps>>

(* One sheet: a missing one is noted, the others are cut, and one that     *)
(* cannot be read or cut ends the script with an error.                    *)
ReadSheet ==
    /\ script = "slice" /\ at < Len(Sheets)
    /\ LET sheet == Sheets[at + 1]
           found == sheets[sheet.file]
       IN  IF found = Torn THEN Exit
           ELSE /\ at' = at + 1
                /\ missing' = IF found = NoFile THEN missing \cup {sheet.file} ELSE missing
                /\ batch' = IF found = NoFile THEN batch ELSE batch \o RowsOf(sheet, found)
                /\ UNCHANGED <<script, height>>
    /\ UNCHANGED <<sheets, cast, manifest, log, mishaps>>

\* (Fault) What is missing is left out of the cast.
EndSlicesAnyway ==
    /\ script = "slice" /\ at = Len(Sheets)
    /\ script' = "slice: emit" /\ at' = 0 /\ UNCHANGED <<batch, missing, height>>
    /\ UNCHANGED <<sheets, cast, manifest, log, mishaps>>

(* Nothing is written unless every sheet was there.                        *)
EndSlices ==
    /\ script = "slice" /\ at = Len(Sheets)
    /\ IF missing # {} THEN Exit
       ELSE script' = "slice: emit" /\ at' = 0 /\ UNCHANGED <<batch, missing, height>>
    /\ UNCHANGED <<sheets, cast, manifest, log, mishaps>>

(* paint_cast has its rows in hand at once.                                *)
StartPaint ==
    /\ script = ""
    /\ script' = "paint: emit" /\ batch' = StandIns
    /\ UNCHANGED <<sheets, cast, manifest, at, missing, height, log, mishaps>>

-----------------------------------------------------------------------------
(* emit: the pictures one by one, then the manifest.                       *)

\* (Fault) A picture that is there already is not written again.
SaveNewPicture ==
    /\ Emitting /\ at < Len(batch)
    /\ cast' = [cast EXCEPT ![batch[at + 1].id] = IF @ = NoFile THEN batch[at + 1] ELSE @]
    /\ at' = at + 1
    /\ UNCHANGED <<sheets, manifest, script, batch, missing, height, log, mishaps>>

SavePicture ==
    /\ Emitting /\ at < Len(batch)
    /\ cast' = [cast EXCEPT ![batch[at + 1].id] = batch[at + 1]]
    /\ at' = at + 1
    /\ UNCHANGED <<sheets, manifest, script, batch, missing, height, log, mishaps>>

WriteManifest ==
    /\ Emitting /\ at = Len(batch)
    /\ manifest' = ToSet(batch)
    /\ Leave(IF script = "slice: emit" THEN "slice" ELSE "paint")
    /\ UNCHANGED <<sheets, cast, mishaps>>

-----------------------------------------------------------------------------
(* build_hero_sheets: body by body, action by action, each sheet saved     *)
(* before the next is laid out.                                            *)

HeroJob(k) == <<Bodies[1 + (k \div Len(Actions))], Actions[1 + (k % Len(Actions))]>>

StartHero == script = "" /\ Enter("hero") /\ UNCHANGED <<sheets, cast, manifest, log, mishaps>>

\* (Fault) The height is that of the whole picture, its margin with it.
ReadIdleCell ==
    /\ script = "hero" /\ height = 0 /\ at < Len(Bodies) * Len(Actions)
    /\ LET found == cast[Idle(HeroJob(at)[1])]
       IN  IF found \in {NoFile, Torn} THEN Exit
           ELSE height' = found.cell /\ UNCHANGED <<script, at, batch, missing>>
    /\ UNCHANGED <<sheets, cast, manifest, log, mishaps>>

(* The idle picture of the body gives the height: its opaque box.          *)
ReadIdle ==
    /\ script = "hero" /\ height = 0 /\ at < Len(Bodies) * Len(Actions)
    /\ LET found == cast[Idle(HeroJob(at)[1])]
       IN  IF found \in {NoFile, Torn} THEN Exit
           ELSE height' = found.fig /\ UNCHANGED <<script, at, batch, missing>>
    /\ UNCHANGED <<sheets, cast, manifest, log, mishaps>>

SaveHero ==
    /\ script = "hero" /\ height # 0
    /\ sheets' = [sheets EXCEPT ![HeroFile(HeroJob(at)[1], HeroJob(at)[2])] = height]
    /\ at' = at + 1
    /\ height' = IF (at + 1) % Len(Actions) = 0 THEN 0 ELSE height
    /\ UNCHANGED <<cast, manifest, script, batch, missing, log, mishaps>>

EndHero ==
    /\ script = "hero" /\ at = Len(Bodies) * Len(Actions)
    /\ Leave("hero")
    /\ UNCHANGED <<sheets, cast, manifest, mishaps>>

-----------------------------------------------------------------------------
(* build_idle_sheets: every cycle is laid out before the first is saved.   *)

StartCycles == script = "" /\ Enter("cycles") /\ UNCHANGED <<sheets, cast, manifest, log, mishaps>>

SaveCycle ==
    /\ script = "cycles" /\ at < Len(Cycles)
    /\ sheets' = [sheets EXCEPT ![Cycles[at + 1].file] = Cycles[at + 1].fig]
    /\ at' = at + 1
    /\ UNCHANGED <<cast, manifest, script, batch, missing, height, log, mishaps>>

EndCycles ==
    /\ script = "cycles" /\ at = Len(Cycles)
    /\ Leave("cycles")
    /\ UNCHANGED <<sheets, cast, manifest, mishaps>>

-----------------------------------------------------------------------------
(* What happens to the files from outside.                                 *)

(* A script is cut off or fails, between two files or in the middle of     *)
(* the one it writes.                                                      *)
Stop ==
    /\ script # "" /\ mishaps < MaxMishaps
    /\ \/ UNCHANGED <<sheets, cast, manifest>>
       \/ /\ Emitting /\ at < Len(batch)
          /\ cast' = [cast EXCEPT ![batch[at + 1].id] = Torn]
          /\ UNCHANGED <<sheets, manifest>>
       \/ /\ Emitting /\ at = Len(batch)
          /\ manifest' = {}
          /\ UNCHANGED <<sheets, cast>>
       \/ /\ script = "hero" /\ height # 0
          /\ sheets' = [sheets EXCEPT ![HeroFile(HeroJob(at)[1], HeroJob(at)[2])] = Torn]
          /\ UNCHANGED <<cast, manifest>>
       \/ /\ script = "cycles" /\ at < Len(Cycles)
          /\ sheets' = [sheets EXCEPT ![Cycles[at + 1].file] = Torn]
          /\ UNCHANGED <<cast, manifest>>
    /\ Exit
    /\ log' = <<>>
    /\ mishaps' = mishaps + 1

(* Somebody draws a sheet anew, loses it, or leaves one that cannot be cut. *)
Change ==
    /\ script = "" /\ mishaps < MaxMishaps
    /\ \E f \in Files \ Built, c \in Heights \cup {NoFile, Torn} :
           sheets' = [sheets EXCEPT ![f] = c]
    /\ mishaps' = mishaps + 1
    /\ log' = <<>>
    /\ UNCHANGED <<cast, manifest, script, at, batch, missing, height>>

FilesNext == StartSlice \/ ReadSheet \/ EndSlices \/ StartPaint \/ SavePicture \/ WriteManifest
        \/ StartHero \/ ReadIdle \/ SaveHero \/ EndHero \/ StartCycles \/ SaveCycle \/ EndCycles
        \/ Stop \/ Change

FilesSpec == FilesInit /\ [][FilesNext]_fileVars

-----------------------------------------------------------------------------
(* Properties.                                                             *)

(* "The game can address them": once a slice or a paint has run to its     *)
(* end, and until a script is cut off, every picture the manifest lists is *)
(* on disk as the manifest describes it, whatever the scripts have written *)
(* over one another, and a run repairs what a cut off one has torn.        *)
ManifestDescribes ==
    script = "" /\ {"slice", "paint"} \cap ToSet(log) # {} =>
        /\ manifest # {}
        /\ \A row \in manifest : cast[row.id] = row

(* A cast is never half sliced: what the manifest lists is every id of     *)
(* sheets.json, cut, or the stand-ins and nothing else, also after a slice *)
(* that a sheet which is missing or cannot be cut has ended.               *)
NeverMixed ==
    manifest # {} =>
        \/ manifest = ToSet(StandIns)
        \/ /\ \A row \in manifest : row.source = "sheet"
           /\ {row.id : row \in manifest} = UNION {ToSet(Sheets[i].ids) : i \in DOMAIN Sheets}

(* "The idle PNG is only the height reference": after slice, hero, slice,  *)
(* with no sheet changed between, every strip of a body stands as high as  *)
(* its idle picture.  Before the second slice it need not: the heroes may  *)
(* have been built on a stand-in.                                          *)
StripsFitIdle ==
    script = "" /\ log = <<"slice", "hero", "slice">> =>
        \A b \in ToSet(Bodies), a \in ToSet(Actions) :
            \E idle, strip \in manifest :
                /\ idle.id = Idle(b) /\ strip.fig = idle.fig
                /\ \E i \in DOMAIN Sheets : /\ Sheets[i].file = HeroFile(b, a)
                                            /\ Sheets[i].ids = <<strip.id>>
=============================================================================
