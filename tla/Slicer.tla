------------------------------- MODULE Slicer -------------------------------
(***************************************************************************)
(* slice_sheet of slice_cast.py: one rendered sheet becomes the pictures   *)
(* of the catalog.  The background is knocked out (Cutout), the opaque     *)
(* pieces are gathered by a queue of their own, every piece goes with the  *)
(* nearest of the n largest drawings, and a strip is packed into equal     *)
(* cells.  MinArea and MinPart are the 24 and the 8 pixels of the code.    *)
(***************************************************************************)
EXTENDS Cutout, SequencesExt

CONSTANTS
    Inputs,   \* the sheets to slice: [im, sheet, frames]
    MinArea,  \* pieces of a still below it are specks
    MinPart   \* pieces of a row below it are specks

ASSUME SlicerAssumption ==
    /\ MinArea \in Nat \ {0} /\ MinPart \in Nat \ {0}
    /\ \A i \in Inputs : IsPicture(i.im)

(* A row of sheets.json has drawings, and its indices are among them.      *)
ASSUME RowAssumption ==
    \A i \in Inputs :
        /\ i.sheet.mode = "strip" => i.sheet.indices = <<>>
        /\ i.sheet.mode = "variants" => /\ i.sheet.drawings \in Nat \ {0}
                                       /\ i.sheet.indices \in Seq(0 .. i.sheet.drawings - 1)

VARIABLES
    input,    \* the sheet being sliced
    seen,     \* pixels the queue of the pieces has met
    piece,    \* the piece being gathered, in the order it was met
    head,     \* how many of them have been looked around
    parts,    \* the pieces found, in the order of the scan
    framed,   \* the pictures of a row of drawings
    rows      \* the rows of the manifest

gatherVars == <<seen, piece, head, parts>>
vars == <<cutVars, gatherVars, input, framed, rows>>

sheet == input.sheet

Row(id, im, frames, cellW, cellH) ==
    [id |-> id, im |-> im, frames |-> frames, cellW |-> cellW, cellH |-> cellH]
Single(id, im) == Row(id, im, 1, im.w, im.h)

(* A set in the order of "before", each element at its rank: SetToSortSeq  *)
(* without the search through all sequences.                               *)
Sorted(S, before(_, _)) ==
    [k \in 1 .. Cardinality(S) |-> CHOOSE e \in S : Cardinality({d \in S : before(d, e)}) = k - 1]

Answer(rs) == stage' = "done" /\ rows' = rs
Fail == stage' = "failed" /\ UNCHANGED rows

-----------------------------------------------------------------------------
(* The background.                                                         *)

Init ==
    /\ input \in Inputs
    /\ work = input.im
    /\ keys = {} /\ queue = <<>> /\ clear = {} /\ stage = "load"
    /\ seen = {} /\ piece = <<>> /\ head = 0 /\ parts = <<>> /\ framed = <<>> /\ rows = <<>>

Load ==
    /\ stage = "load"
    /\ \/ sheet.key = "checker" /\ KnockOut(input.im, {})
       \/ sheet.key = "corner" /\ KnockOut(input.im, {input.im.rgb[<<0, 0>>]})
       \/ sheet.key = "none" /\ stage' = "cut" /\ UNCHANGED <<work, keys, queue, clear>>
    /\ UNCHANGED <<gatherVars, input, framed, rows>>

BadKey ==
    /\ stage = "load" /\ sheet.key \notin {"checker", "corner", "none"}
    /\ Fail
    /\ UNCHANGED <<work, keys, queue, clear, gatherVars, input, framed>>

CutOut == Cut /\ UNCHANGED <<gatherVars, input, framed, rows>>

(* A plate, and a still that has its own alpha, are taken as they are.     *)
PickLargest == sheet.mode = "still" /\ sheet.pick = "largest"
AsItIs == sheet.mode = "plate" \/ (sheet.mode = "still" /\ ~PickLargest /\ sheet.key = "none")

Plate ==
    /\ stage = "cut" /\ AsItIs
    /\ Answer(<<Single(sheet.ids[1], work)>>)
    /\ UNCHANGED <<work, keys, queue, clear, gatherVars, input, framed>>

-----------------------------------------------------------------------------
(* The pieces.                                                             *)

InRow == sheet.mode \in {"strip", "variants"}

BadMode ==
    /\ stage = "cut" /\ sheet.mode \notin {"plate", "strip", "variants", "still"}
    /\ Fail
    /\ UNCHANGED <<work, keys, queue, clear, gatherVars, input, framed>>

(* Thin cyan and red dashes that link a panel to the figure.               *)
Dashes(im) ==
    {p \in im.on : /\ Cyan(im.rgb[p]) \/ Hot(im.rgb[p])
                   /\ Cardinality({n \in Around(p) : n \notin im.on}) >= 3}

StartGather ==
    /\ stage = "cut" /\ ~AsItIs /\ (InRow \/ sheet.mode = "still")
    /\ work' = IF PickLargest THEN Without(work, Dashes(work)) ELSE work
    /\ stage' = "gather"
    /\ UNCHANGED <<keys, queue, clear, gatherVars, input, framed, rows>>

Unmet == work.on \ seen
Before(p, q) == Index(work, p) < Index(work, q)

(* The scan meets the first opaque pixel of a new piece.                   *)
OpenPiece ==
    /\ stage = "gather" /\ piece = <<>> /\ Unmet # {}
    /\ LET start == CHOOSE p \in Unmet : \A q \in Unmet \ {p} : Before(p, q)
       IN  piece' = <<start>> /\ seen' = seen \cup {start}
    /\ UNCHANGED <<cutVars, head, parts, input, framed, rows>>

\* (Fault) Only the four neighbours beside a pixel are looked at.
GrowBeside ==
    /\ stage = "gather" /\ head < Len(piece)
    /\ LET new == Beside(piece[head + 1]) \cap Unmet
       IN  piece' = piece \o Sorted(new, Before) /\ seen' = seen \cup new
    /\ head' = head + 1
    /\ UNCHANGED <<cutVars, parts, input, framed, rows>>

(* The next pixel of the piece: the opaque ones around it that are not met *)
(* yet join the piece, and are met from now on.                            *)
Grow ==
    /\ stage = "gather" /\ head < Len(piece)
    /\ LET new == Around(piece[head + 1]) \cap Unmet
       IN  piece' = piece \o Sorted(new, Before) /\ seen' = seen \cup new
    /\ head' = head + 1
    /\ UNCHANGED <<cutVars, parts, input, framed, rows>>

Least == IF InRow THEN MinPart ELSE MinArea
Part(s) == [box |-> BoxOf(ToSet(s)), area |-> Len(s), px |-> ToSet(s)]

ClosePiece ==
    /\ stage = "gather" /\ piece # <<>> /\ head = Len(piece)
    /\ parts' = IF Len(piece) >= Least THEN Append(parts, Part(piece)) ELSE parts
    /\ piece' = <<>> /\ head' = 0
    /\ UNCHANGED <<cutVars, seen, input, framed, rows>>

(* The scan is over: largest first, and the sort is stable.                *)
Rank ==
    /\ stage = "gather" /\ piece = <<>> /\ Unmet = {}
    /\ LET first(i, j) == parts[i].area > parts[j].area \/ (parts[i].area = parts[j].area /\ i < j)
           order == Sorted(DOMAIN parts, first)
       IN  parts' = [k \in DOMAIN parts |-> parts[order[k]]]
    /\ stage' = "ranked"
    /\ UNCHANGED <<work, keys, queue, clear, seen, piece, head, input, framed, rows>>

-----------------------------------------------------------------------------
(* A row of drawings.                                                      *)

(* Twice the middle of a piece, to stay in the integers.                   *)
Centre(part) == 2 * part.box.x + part.box.w

(* The n largest pieces, from left to right.                               *)
Seeds(n) ==
    LET left(i, j) == \/ Centre(parts[i]) < Centre(parts[j])
                      \/ Centre(parts[i]) = Centre(parts[j]) /\ i < j
        order == Sorted(1 .. n, left)
    IN  [k \in 1 .. n |-> parts[order[k]]]

Nearest(part, seeds) ==
    LET off(i) == Gap(Centre(part), Centre(seeds[i]))
    IN  Min({i \in DOMAIN seeds : \A j \in DOMAIN seeds : off(i) <= off(j)})

(* A caption: short, wide and under the main figure.                       *)
IsLabel(part, main) ==
    /\ 10 * part.box.h < 4 * main.box.h
    /\ 10 * part.box.w > 14 * part.box.h
    /\ 100 * (part.box.y - main.box.y) > 55 * main.box.h

Group(i, seeds) ==
    LET all  == {part \in ToSet(parts) : Nearest(part, seeds) = i}
        main == parts[Min({k \in DOMAIN parts : parts[k] \in all})]
    IN  IF sheet.drop = "labels" /\ Cardinality(all) >= 2
        THEN {part \in all : part = main \/ ~IsLabel(part, main)}
        ELSE all

\* (Fault) The box of the group is copied, with what else reaches into it.
FrameOfBox(group) == CropBox(work, BoxOf(UNION {part.px : part \in group}), 0)

Frame(group) == FromPixels(work, UNION {part.px : part \in group})

PackStrip(align) ==
    LET cellW == Max({framed[i].w : i \in DOMAIN framed})
        cellH == Max({framed[i].h : i \in DOMAIN framed})
        put(out, i) ==
            Blit(out, framed[i], (i - 1) * cellW + (cellW - framed[i].w) \div 2,
                 IF align = "bottom" THEN cellH - framed[i].h ELSE (cellH - framed[i].h) \div 2)
        packed == FoldLeftDomain(put, Blank(cellW * Len(framed), cellH), framed)
    IN  Row(sheet.ids[1], packed, Len(framed), cellW, cellH)

Drawings == IF sheet.mode = "strip" THEN 4 ELSE sheet.drawings

(* The frames of the row: too few pieces, or a drawing that is left        *)
(* without any (two seeds with one centre), is an error.                   *)
RowFrames ==
    /\ stage = "ranked" /\ InRow
    /\ IF Len(parts) < Drawings THEN Fail /\ UNCHANGED framed
       ELSE LET seeds == Seeds(Drawings)
                groups == [i \in 1 .. Drawings |-> Group(i, seeds)]
            IN  IF \E i \in 1 .. Drawings : groups[i] = {} THEN Fail /\ UNCHANGED framed
                ELSE /\ framed' = [i \in 1 .. Drawings |-> Frame(groups[i])]
                     /\ stage' = "framed" /\ UNCHANGED rows
    /\ UNCHANGED <<work, keys, queue, clear, gatherVars, input>>

Strip ==
    /\ stage = "framed" /\ sheet.mode = "strip"
    /\ Answer(<<PackStrip(sheet.align)>>)
    /\ UNCHANGED <<work, keys, queue, clear, gatherVars, input, framed>>

(* Some drawings of the sheet may be left out; each of the others has an id. *)
Variants ==
    /\ stage = "framed" /\ sheet.mode = "variants"
    /\ LET kept == IF sheet.indices = <<>> THEN framed
                   ELSE [k \in DOMAIN sheet.indices |-> framed[sheet.indices[k] + 1]]
       IN  IF Len(kept) # Len(sheet.ids) THEN Fail
           ELSE Answer([k \in DOMAIN kept |-> Single(sheet.ids[k], kept[k])])
    /\ UNCHANGED <<work, keys, queue, clear, gatherVars, input, framed>>

-----------------------------------------------------------------------------
(* A still.                                                                *)

(* _keep_largest: only the biggest piece stays, unless all are specks.     *)
KeepLargest == IF parts = <<>> THEN work ELSE Without(work, work.on \ parts[1].px)

Largest ==
    /\ stage = "ranked" /\ PickLargest
    /\ work' = KeepLargest
    /\ IF work'.on = {} THEN Fail
       ELSE Answer(<<Single(sheet.ids[1], CropBox(work', OpaqueBox(work'), 1))>>)
    /\ UNCHANGED <<keys, queue, clear, gatherVars, input, framed>>

(* One piece keeps a margin; several are cut to the box of them all.       *)
StillCrop ==
    IF Len(parts) = 1 THEN CropBox(work, parts[1].box, 1)
    ELSE CropBox(work, BoxOf(UNION {part.px : part \in ToSet(parts)}), 0)

Still ==
    /\ stage = "ranked" /\ sheet.mode = "still" /\ ~PickLargest
    /\ IF parts = <<>> THEN Fail ELSE Answer(<<Single(sheet.ids[1], StillCrop)>>)
    /\ UNCHANGED <<work, keys, queue, clear, gatherVars, input, framed>>

-----------------------------------------------------------------------------
Next == Load \/ BadKey \/ CutOut \/ Plate \/ BadMode \/ StartGather \/ OpenPiece \/ Grow \/ ClosePiece
        \/ Rank \/ RowFrames \/ Strip \/ Variants \/ Largest \/ Still

(* A script that has started a loop goes on with it.                       *)
Spec == Init /\ [][Next]_vars /\ WF_vars(CutOut)

-----------------------------------------------------------------------------
(* Properties.                                                             *)

Done == stage = "done"

(* When the cut is made, the flood has been everywhere the background      *)
(* reaches from the border and nowhere else, in whatever order its queue   *)
(* came to the pixels, and none of it is left (knock_out's q and clear).   *)
BackgroundGone ==
    stage = "cut" /\ sheet.key # "none" =>
        clear = Background(input.im, keys) /\ clear \cap work.on = {}

(* "Interior whites stay": beyond the flood, a pixel goes only if it has   *)
(* the background's colour and something transparent within two pixels; a  *)
(* drawing of other colours keeps every pixel.                             *)
InteriorStays ==
    stage = "cut" /\ sheet.key # "none" =>
        \A p \in input.im.on \ (work.on \cup clear) :
            /\ FringeColour(input.im.rgb[p], keys)
            /\ \E r \in (p[1] - 2 .. p[1] + 2) \X (p[2] - 2 .. p[2] + 2) :
                   r \notin input.im.on \ clear

(* The queue of the pieces finds every piece once, whole and with its true *)
(* area, and drops the specks: what it marks as met is counted once.       *)
PiecesExact ==
    stage = "ranked" =>
        \A p \in work.on :
            LET whole == Linked(work.on, {p}, Around)
                holds == {i \in DOMAIN parts : p \in parts[i].px}
            IN  IF Cardinality(whole) < Least THEN holds = {}
                ELSE \E i \in DOMAIN parts : /\ holds = {i}
                                             /\ parts[i].px = whole
                                             /\ parts[i].area = Cardinality(whole)

(* The frames as the game cuts them out of the rows.                       *)
Cell(row, i) == Crop(row.im, (i - 1) * row.cellW, 0, row.cellW, row.cellH)
Cells ==
    IF sheet.mode = "strip" THEN [i \in 1 .. rows[1].frames |-> Cell(rows[1], i)]
    ELSE [k \in DOMAIN rows |-> rows[k].im]

(* A picture holds the pixels S of the sheet, at some place, all of them.  *)
Holds(im, S) ==
    \E dx \in -work.w .. im.w, dy \in -work.h .. im.h :
        \A p \in S : LET q == <<p[1] + dx, p[2] + dy>>
                     IN  q \in im.on /\ im.rgb[q] = work.rgb[p]

(* As much before as after it, or one less where they cannot be the same.  *)
Centred(first, length, room) == room - (2 * first + length) \in 0 .. 1

(* A row: each frame holds its own drawing, whole, centred in its cell and *)
(* on the floor or in the middle of it; without captions or dropped        *)
(* drawings, every piece is whole in one frame and nothing else is shown.  *)
RowIsWhole ==
    LET seeds == Seeds(Drawings)
        drawing(k) == seeds[IF sheet.indices = <<>> THEN k ELSE sheet.indices[k] + 1]
    IN  /\ \A k \in DOMAIN Cells : Holds(Cells[k], drawing(k).px)
        /\ sheet.drop # "labels" /\ sheet.indices = <<>> =>
              /\ \A i \in DOMAIN parts : \E k \in DOMAIN Cells : Holds(Cells[k], parts[i].px)
              /\ Cardinality(UNION {{k} \X Cells[k].on : k \in DOMAIN Cells})
                    = Cardinality(UNION {part.px : part \in ToSet(parts)})
        /\ sheet.mode = "strip" =>
              \A k \in DOMAIN Cells :
                  LET box == OpaqueBox(Cells[k])
                  IN  /\ Centred(box.x, box.w, Cells[k].w)
                      /\ IF sheet.align = "bottom" THEN box.y + box.h = Cells[k].h
                         ELSE Centred(box.y, box.h, Cells[k].h)

(* A still: with "largest" the biggest piece alone and a margin of one at  *)
(* most, otherwise every piece that is not a speck.                        *)
StillIsWhole ==
    LET shown == rows[1].im
    IN  IF PickLargest
        THEN /\ \A i \in DOMAIN parts : parts[i].area <= Cardinality(shown.on)
             /\ Linked(shown.on, {CHOOSE p \in shown.on : TRUE}, Around) = shown.on
             /\ LET box == OpaqueBox(shown)
                IN  box.x <= 1 /\ box.y <= 1 /\ shown.w <= box.x + box.w + 1
        ELSE Holds(shown, UNION {part.px : part \in ToSet(parts)})

(* "Pieces stay whole and follow the drawing whose centre is closest":     *)
(* whatever the mode, no cut goes through a drawing, none is lost to its   *)
(* neighbour's frame, and no frame shows what belongs to another.          *)
PiecesStayWhole ==
    /\ Done /\ InRow => RowIsWhole
    /\ Done /\ sheet.mode = "still" /\ ~AsItIs /\ parts # <<>> => StillIsWhole

(* The flood ends, though a pixel is put on its queue once for each of its *)
(* neighbours: only what is marked for the first time adds to the queue.   *)
KnockOutEnds == stage = "flood" ~> stage = "cut"
=============================================================================
