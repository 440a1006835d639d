----------------------------- MODULE MCCastFiles -----------------------------
(***************************************************************************)
(* Two heroes with two actions each, one foe with a cycle, and one sheet *)
(* of two effects; a figure is five or six pixels high, a stand-in three.  *)
(***************************************************************************)
EXTENDS CastFiles

Hero(b, a) == <<"hero", b, a>>
Foe == <<"foe", "slime">>
Fire == <<"fx", "fire">>
Ice == <<"fx", "ice">>

MCIdle(b) == Hero(b, "idle")
MCHeroFile(b, a) == <<"sheet", b, a>>

SheetOf(file, ids, mode) == [file |-> file, ids |-> ids, mode |-> mode]
MCSheets ==
    <<SheetOf(<<"drawn", "m">>, <<Hero("m", "idle")>>, "still"),
      SheetOf(<<"drawn", "f">>, <<Hero("f", "idle")>>, "still"),
      SheetOf(MCHeroFile("m", "walk"), <<Hero("m", "walk")>>, "strip"),
      SheetOf(MCHeroFile("f", "walk"), <<Hero("f", "walk")>>, "strip"),
      SheetOf(MCHeroFile("m", "run"), <<Hero("m", "run")>>, "strip"),
      SheetOf(MCHeroFile("f", "run"), <<Hero("f", "run")>>, "strip"),
      SheetOf(<<"cycle", "slime">>, <<Foe>>, "strip"),
      SheetOf(<<"drawn", "fx">>, <<Fire, Ice>>, "variants")>>

Painted(id, frames) == [id |-> id, source |-> "stand-in", fig |-> 3, cell |-> 3, frames |-> frames]
MCStandIns ==
    <<Painted(Hero("m", "idle"), 1), Painted(Hero("m", "walk"), 4), Painted(Hero("f", "idle"), 1),
      Painted(Hero("f", "walk"), 4), Painted(Foe, 1), Painted(Ice, 1)>>
MCBodies == <<"m", "f">>
MCActions == <<"walk", "run">>

\* Every sheet is drawn small at first; Change draws one anew.
MCInit == FilesInit /\ \A f \in Files : sheets[f] # 6
MCSpec == MCInit /\ [][FilesNext]_fileVars
MCCycles == <<[file |-> <<"cycle", "slime">>, fig |-> 4]>>
=============================================================================
