-------------------------------- MODULE Poses --------------------------------
(***************************************************************************)
(* How build_idle_sheets.py and build_hero_sheets.py turn poses into the   *)
(* sheets that slice_cast cuts again: a pose loses its background, every   *)
(* frame gets the height of the neutral one, and the frames are laid side  *)
(* by side on a transparent sheet.  A pose is a picture with the flag      *)
(* "jpeg"; Pad, Space and MinOpaque are the 32, the 64 and the 400 pixels  *)
(* of the code.                                                            *)
(***************************************************************************)
EXTENDS Raster, SequencesExt

CONSTANTS Pad, Space, MinOpaque

ASSUME PosesAssumption == Pad \in Nat /\ Space \in Nat \ {0} /\ MinOpaque \in Nat \ {0}

(* Python's round(a / b): to the nearest, a half to the even one.          *)
Round(a, b) ==
    LET low == a \div b
        rest == 2 * (a % b)
    IN  IF rest > b \/ (rest = b /\ low % 2 = 1) THEN low + 1 ELSE low

(* Pillow's NEAREST: a pixel takes the colour under its centre.            *)
Resize(im, w, h) ==
    LET under(p) == <<((2 * p[1] + 1) * im.w) \div (2 * w), ((2 * p[2] + 1) * im.h) \div (2 * h)>>
    IN  [w |-> w, h |-> h, rgb |-> [p \in Pixels(w, h) |-> im.rgb[under(p)]],
         on |-> {p \in Pixels(w, h) : under(p) \in im.on}]

Fit(im, height) ==
    IF im.h = height THEN im ELSE Resize(im, Max({1, Round(im.w * height, im.h)}), height)

(* A factor is a pair <<numerator, denominator>>.                          *)
Scale(im, f) ==
    Resize(im, Max({1, Round(im.w * f[1], f[2])}), Max({1, Round(im.h * f[1], f[2])}))

(* A JPEG loses the background, and then every light pixel that is left: a *)
(* hole the checker filled in does not touch the edge.                     *)
Cleared(pose) ==
    IF pose.jpeg
    THEN LET cut == KnockedOut(pose.im, {})
         IN  Without(cut, {p \in cut.on : IsLightChecker(cut.rgb[p])})
    ELSE pose.im

(* _sprite raises for a pose that has collapsed.                           *)
IsSprite(pose) == Cardinality(Cleared(pose).on) >= MinOpaque
Sprite(pose) == LET im == Cleared(pose) IN CropBox(im, OpaqueBox(im), 0)

\* (Fault) The frames touch.
SheetTight(frames) ==
    LET rowH == Max({frames[i].h : i \in DOMAIN frames})
        widths == [i \in DOMAIN frames |-> frames[i].w]
        x(i) == Pad + SumFunctionOnSet(widths, 1 .. i - 1)
        width == 2 * Pad + SumFunction(widths)
    IN  FoldLeftDomain(LAMBDA canvas, i : Blit(canvas, frames[i], x(i), Pad + rowH - frames[i].h),
                       Blank(width, 2 * Pad + rowH), frames)

(* The frames side by side, on one floor, in transparent gaps.             *)
Sheet(frames) ==
    LET rowH == Max({frames[i].h : i \in DOMAIN frames})
        widths == [i \in DOMAIN frames |-> frames[i].w]
        x(i) == Pad + SumFunctionOnSet(widths, 1 .. i - 1) + (i - 1) * Space
        width == 2 * Pad + SumFunction(widths) + (Len(frames) - 1) * Space
    IN  FoldLeftDomain(LAMBDA canvas, i : Blit(canvas, frames[i], x(i), Pad + rowH - frames[i].h),
                       Blank(width, 2 * Pad + rowH), frames)

(* One cycle: each entry is a sequence of one pose, or empty for the       *)
(* neutral one, here or scaled by its factor.                              *)
Cycle(neutral, poses, factors) ==
    LET base == Sprite(neutral)
    IN  [i \in DOMAIN poses |->
            IF poses[i] # <<>> THEN Fit(Sprite(poses[i][1]), base.h)
            ELSE IF factors = <<>> THEN base ELSE Scale(base, factors[i])]
=============================================================================
