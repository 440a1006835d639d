------------------------------- MODULE Cutout -------------------------------
(***************************************************************************)
(* knock_out of slice_cast.py: clear the background of a picture that has  *)
(* no alpha channel.  A queue floods the background from the border, pixel *)
(* by pixel, and then two passes take the halo that JPEG leaves around the *)
(* drawing.  "clear" is the byte array of the same name, "queue" the deque *)
(* q, and "stage" says which loop runs.                                    *)
(***************************************************************************)
EXTENDS Raster, Sequences

VARIABLES
    work,    \* the picture the function changes in place
    keys,    \* the colours of the background, {} with checker=True
    queue,   \* pixels that may still have to be cleared
    clear,   \* pixels that the flood has marked
    stage    \* "flood", "fringe 1", "fringe 2", "cut"

cutVars == <<work, keys, queue, clear, stage>>

(* matches: still opaque, and the light ramp or near the flat colour.      *)
Matches(p) == p \in work.on /\ FloodColour(work.rgb[p], keys)

(* The border as it is put on the queue: top and bottom of every column,   *)
(* then both ends of every row.                                            *)
Border(im) ==
    [i \in 1 .. 2 * im.w |-> IF i % 2 = 1 THEN <<(i - 1) \div 2, 0>>
                                          ELSE <<(i - 2) \div 2, im.h - 1>>]
    \o [i \in 1 .. 2 * im.h |-> IF i % 2 = 1 THEN <<0, (i - 1) \div 2>>
                                             ELSE <<im.w - 1, (i - 2) \div 2>>]

\* (Fault) The flood never goes up.
OnwardsNotUp(p) ==
    (IF p[1] > 0 THEN <<<<p[1] - 1, p[2]>>>> ELSE <<>>)
    \o (IF p[1] + 1 < work.w THEN <<<<p[1] + 1, p[2]>>>> ELSE <<>>)
    \o (IF p[2] + 1 < work.h THEN <<<<p[1], p[2] + 1>>>> ELSE <<>>)

(* The neighbours a marked pixel puts on the queue, those in the picture.  *)
Onwards(p) ==
    (IF p[1] > 0 THEN <<<<p[1] - 1, p[2]>>>> ELSE <<>>)
    \o (IF p[1] + 1 < work.w THEN <<<<p[1] + 1, p[2]>>>> ELSE <<>>)
    \o (IF p[2] > 0 THEN <<<<p[1], p[2] - 1>>>> ELSE <<>>)
    \o (IF p[2] + 1 < work.h THEN <<<<p[1], p[2] + 1>>>> ELSE <<>>)

(* knock_out(im, K) starts on the picture im.                              *)
KnockOut(im, K) ==
    /\ work' = im
    /\ keys' = K
    /\ queue' = Border(im)
    /\ clear' = {}
    /\ stage' = "flood"

-----------------------------------------------------------------------------
\* (Fault) The pixel is looked at but not taken off the queue.
PassPeeking ==
    /\ stage = "flood" /\ queue # <<>>
    /\ Head(queue) \in clear \/ ~Matches(Head(queue))
    /\ UNCHANGED cutVars

(* The next pixel is marked already, or is not background.                 *)
Pass ==
    /\ stage = "flood" /\ queue # <<>>
    /\ Head(queue) \in clear \/ ~Matches(Head(queue))
    /\ queue' = Tail(queue)
    /\ UNCHANGED <<work, keys, clear, stage>>

(* The next pixel is background: it is marked and its neighbours follow.   *)
Mark ==
    /\ stage = "flood" /\ queue # <<>>
    /\ Head(queue) \notin clear /\ Matches(Head(queue))
    /\ clear' = clear \cup {Head(queue)}
    /\ queue' = Tail(queue) \o Onwards(Head(queue))
    /\ UNCHANGED <<work, keys, stage>>

(* The flood is over: what it marked becomes transparent.                  *)
Flooded ==
    /\ stage = "flood" /\ queue = <<>>
    /\ work' = Without(work, clear)
    /\ stage' = "fringe 1"
    /\ UNCHANGED <<keys, queue, clear>>

(* A pass over the halo: all of it is found before any of it is killed.    *)
Fringe ==
    /\ stage \in {"fringe 1", "fringe 2"}
    /\ work' = Without(work, Halo(work, keys))
    /\ stage' = IF stage = "fringe 1" THEN "fringe 2" ELSE "cut"
    /\ UNCHANGED <<keys, queue, clear>>

Cut == Pass \/ Mark \/ Flooded \/ Fringe
=============================================================================
