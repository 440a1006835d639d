------------------------------- MODULE Raster -------------------------------
(***************************************************************************)
(* The pictures of src/web/scripts: class Raster of slice_cast.py, its     *)
(* colour tests and the boxes that are cut out of it.  A picture is a      *)
(* record of its width, its height, the colour of every pixel and the set  *)
(* of pixels whose alpha is not 0 ("on"); a pixel is a pair <<x, y>> that  *)
(* counts from the top left corner, and a colour a triple of channels.     *)
(***************************************************************************)
EXTENDS Integers, FiniteSets, FiniteSetsExt

KEY_TOL        == 48
FRINGE_TOL     == 36
CHECKER_CHROMA == 18
CHECKER_MIN    == 185

Colour == (0 .. 255) \X (0 .. 255) \X (0 .. 255)

Pixels(w, h) == (0 .. w - 1) \X (0 .. h - 1)
Area(im) == Pixels(im.w, im.h)

(* A well-formed picture: it has pixels, and nothing outside is opaque.    *)
IsPicture(im) ==
    /\ im.w \in Nat \ {0} /\ im.h \in Nat \ {0}
    /\ im = [w |-> im.w, h |-> im.h, rgb |-> im.rgb, on |-> im.on]
    /\ im.on \subseteq Area(im)

(* The place of a pixel in the loops "for y: for x:".                      *)
Index(im, p) == p[2] * im.w + p[1]

(* The four pixels beside one, and the eight around it, in or out of the   *)
(* picture.                                                                *)
Beside(p) == {<<p[1] - 1, p[2]>>, <<p[1] + 1, p[2]>>, <<p[1], p[2] - 1>>, <<p[1], p[2] + 1>>}
Around(p) == Beside(p) \cup {<<p[1] - 1, p[2] - 1>>, <<p[1] + 1, p[2] - 1>>,
                             <<p[1] - 1, p[2] + 1>>, <<p[1] + 1, p[2] + 1>>}

-----------------------------------------------------------------------------
(* Colours.                                                                *)

Channels(c) == {c[1], c[2], c[3]}

IsLightChecker(c) ==
    /\ Max(Channels(c)) - Min(Channels(c)) <= CHECKER_CHROMA
    /\ Min(Channels(c)) >= CHECKER_MIN

Gap(a, b) == IF a >= b THEN a - b ELSE b - a
Dist(a, b) == Gap(a[1], b[1]) + Gap(a[2], b[2]) + Gap(a[3], b[3])
Near(c, keys, tol) == \E k \in keys : Dist(c, k) <= tol

(* The cyan and the hot red of the panels around the boss.                 *)
Cyan(c) == c[2] > 140 /\ c[3] > 140 /\ c[1] < 90 /\ c[2] > c[1] + 50
Hot(c)  == c[1] > 170 /\ c[2] < 100 /\ c[3] < 150 /\ c[1] > c[2] + 70

-----------------------------------------------------------------------------
(* Whole pictures.                                                         *)

Blank(w, h) == [w |-> w, h |-> h, rgb |-> [p \in Pixels(w, h) |-> <<0, 0, 0>>], on |-> {}]

(* blit copies what is not transparent; Raster.set ignores what falls      *)
(* outside.                                                                *)
Blit(dst, src, ox, oy) ==
    LET from(p) == <<p[1] - ox, p[2] - oy>>
        hit == {p \in Area(dst) : from(p) \in src.on}
    IN  [dst EXCEPT !.rgb = [p \in Area(dst) |-> IF p \in hit THEN src.rgb[from(p)] ELSE dst.rgb[p]],
                    !.on = dst.on \cup hit]

Crop(im, x0, y0, w, h) ==
    [w |-> w, h |-> h,
     rgb |-> [p \in Pixels(w, h) |-> im.rgb[<<p[1] + x0, p[2] + y0>>]],
     on |-> {p \in Pixels(w, h) : <<p[1] + x0, p[2] + y0>> \in im.on}]

(* The box <<x, y, w, h>> of a set of pixels that is not empty.            *)
BoxOf(S) ==
    LET xs == {p[1] : p \in S}
        ys == {p[2] : p \in S}
    IN  [x |-> Min(xs), y |-> Min(ys), w |-> Max(xs) - Min(xs) + 1, h |-> Max(ys) - Min(ys) + 1]

OpaqueBox(im) == BoxOf(im.on)

CropBox(im, box, pad) ==
    LET x0 == Max({0, box.x - pad})
        y0 == Max({0, box.y - pad})
    IN  Crop(im, x0, y0, Min({im.w, box.x + box.w + pad}) - x0, Min({im.h, box.y + box.h + pad}) - y0)

(* The picture of some pixels of another, cut to their box.                *)
FromPixels(im, S) ==
    LET box == BoxOf(S)
    IN  [Crop(im, box.x, box.y, box.w, box.h) EXCEPT !.on = {<<p[1] - box.x, p[2] - box.y>> : p \in S}]

(* What a picture shows: the colour of every pixel that is not             *)
(* transparent.                                                            *)
Shown(im) == [p \in im.on |-> im.rgb[p]]

-----------------------------------------------------------------------------
(* The background of a picture, for the colours K of its corner, or for    *)
(* the checkerboard when K is empty.                                       *)

FloodColour(c, K)  == IF K = {} THEN IsLightChecker(c) ELSE Near(c, K, KEY_TOL)
FringeColour(c, K) == IF K = {} THEN IsLightChecker(c) ELSE Near(c, K, FRINGE_TOL)

OnBorder(im, p) == p[1] \in {0, im.w - 1} \/ p[2] \in {0, im.h - 1}

\* (Fault) The colour alone decides.
HaloAnywhere(im, K) == {p \in im.on : FringeColour(im.rgb[p], K)}

(* The halo: a background colour, and three of the eight around it         *)
(* transparent or outside.                                                 *)
Halo(im, K) ==
    {p \in im.on : /\ FringeColour(im.rgb[p], K)
                   /\ Cardinality({n \in Around(p) : n \notin im.on}) >= 3}

Without(im, S) == [im EXCEPT !.on = @ \ S]

(* The pixels of S that a path inside S links to those of "from", where    *)
(* next(p) are the neighbours of p: the reference for every queue.         *)
Linked(S, from, next(_)) ==
    LET wave[n \in 0 .. Cardinality(S)] ==
            IF n = 0 THEN from \cap S
            ELSE LET last == wave[n - 1]
                 IN  last \cup UNION {next(p) \cap S : p \in last}
    IN  wave[Cardinality(S)]

(* What the flood is meant to clear: background that reaches the border.   *)
Background(im, K) ==
    LET S == {p \in im.on : FloodColour(im.rgb[p], K)}
    IN  Linked(S, {p \in S : OnBorder(im, p)}, Beside)

(* knock_out as a whole, for the scripts that only call it.                *)
KnockedOut(im, K) ==
    LET flooded == Without(im, Background(im, K))
        once    == Without(flooded, Halo(flooded, K))
    IN  Without(once, Halo(once, K))
=============================================================================
