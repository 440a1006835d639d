----------------------------- MODULE PoseSheets -----------------------------
(***************************************************************************)
(* The builders of Poses and slice_sheet together: a sheet that is laid    *)
(* out from frames goes to slice_cast as a PNG with its own alpha, to be   *)
(* cut as a strip with no captions (the idle and the hero sheets of        *)
(* sheets.json), and what is cut are the frames it was laid out from.      *)
(***************************************************************************)
EXTENDS Slicer, Poses

(* "frames" of an input is empty, or the four frames of a built sheet.     *)
ASSUME LaidOutAssumption ==
    \A i \in Inputs :
        i.frames # <<>> =>
            /\ i.frames \in Seq(ToSet(i.frames)) /\ Len(i.frames) = 4
            /\ \A k \in 1 .. 4 : IsPicture(i.frames[k])
            /\ i.im = Sheet(i.frames)
            /\ i.sheet.key = "none" /\ i.sheet.mode = "strip" /\ i.sheet.drop # "labels"

(* Each frame is one piece, and no speck.                                  *)
Legible(frames) ==
    \A i \in DOMAIN frames :
        /\ Linked(frames[i].on, {CHOOSE p \in frames[i].on : TRUE}, Around) = frames[i].on
        /\ Cardinality(frames[i].on) >= MinPart

(* What the builders lay out is what slice_cast cuts: a sheet of frames in *)
(* one piece comes back as those frames, in order, however wide they are.  *)
RoundTrip ==
    stage \in {"done", "failed"} /\ input.frames # <<>> /\ Legible(input.frames) =>
        /\ Done /\ Len(Cells) = Len(input.frames)
        /\ \A i \in DOMAIN Cells :
              Shown(FromPixels(Cells[i], Cells[i].on))
                = Shown(FromPixels(input.frames[i], input.frames[i].on))
=============================================================================
