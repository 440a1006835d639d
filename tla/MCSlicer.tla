------------------------------ MODULE MCSlicer ------------------------------
(***************************************************************************)
(* Small sheets for PoseSheets: every drawing on a board of five by five,  *)
(* rows of four drawings, captions, panels and sheets laid out by Poses.   *)
(***************************************************************************)
EXTENDS PoseSheets

Ink(i) == <<200, 10 * i, 140>>
White  == <<255, 255, 250>>
Grey   == <<192, 192, 200>>
Dark   == <<20, 20, 30>>
Dusk   == <<40, 30, 40>>     \* near Dark for the flood, not for the fringe
Dim    == <<30, 30, 40>>     \* near Dark for both
Teal   == <<20, 220, 230>>
Red    == <<230, 60, 70>>

(* A picture of w by h: the colour of each pixel, and the opaque ones.     *)
Picture(w, h, colour(_), on) ==
    [w |-> w, h |-> h, rgb |-> [p \in Pixels(w, h) |-> colour(p)], on |-> on \cap Pixels(w, h)]

Sheet0 == [key |-> "checker", mode |-> "still", pick |-> "all", align |-> "bottom", drop |-> "none",
           drawings |-> 1, indices |-> <<>>, ids |-> <<"a">>]
In(im, s) == [im |-> im, sheet |-> s, frames |-> <<>>]

-----------------------------------------------------------------------------
(* Stills: every inside of three by three on a light board, and every      *)
(* inside of two by two on a dark one that is cut by its corner.           *)
Board(p) == IF (p[1] + p[2]) % 2 = 0 THEN White ELSE Grey
Inside(n) == (1 .. n) \X (1 .. n)

OnBoard ==
    {In(Picture(5, 5, LAMBDA p : IF p \in S THEN Ink(1) ELSE Board(p), Pixels(5, 5)), Sheet0) :
        S \in SUBSET Inside(3)}

OnDark ==
    {In(Picture(4, 4, LAMBDA p : IF p \in DOMAIN f THEN f[p] ELSE Dark, Pixels(4, 4)),
        [Sheet0 EXCEPT !.key = "corner"]) : f \in [Inside(2) -> {Ink(1), Dim, Dusk}]}

(* A thick ring around a light pixel, and dithered drawings, whose light   *)
(* pixels touch only at corners.                                           *)
Dithered ==
    {In(Picture(7, 7, LAMBDA p : IF p \in Inside(5) \ {<<3, 3>>} THEN Ink(2) ELSE Board(p), Pixels(7, 7)),
        Sheet0)} \cup
    {In(Picture(7, 7, LAMBDA p : IF p \in Inside(5) /\ (p[1] + p[2]) % 2 = k THEN Ink(2) ELSE Board(p),
                Pixels(7, 7)), Sheet0) : k \in 0 .. 1}

(* A cup of ink around light rows that a transparent row opens, where a    *)
(* third pass of the halo, or killing while looking, would eat a row more. *)
Cup == Picture(9, 6, LAMBDA p : IF p \in (1 .. 7) \X (1 .. 3) THEN White ELSE Ink(3),
               Pixels(9, 6) \ ((0 .. 8) \X {0}))
Cups == {In(Cup, Sheet0)}

-----------------------------------------------------------------------------
(* Rows: four places of four columns, each with one of some shapes.        *)
Block == {0, 1} \X {2, 3}
Shapes == {Block, {1} \X (0 .. 3), Block \cup {<<1, 0>>, <<2, 0>>}, (0 .. 3) \X {3}, {0, 1, 2} \X {1, 2}}

Place(S, x) == {<<p[1] + x, p[2]>> : p \in S}
RowOf(f) == UNION {Place(f[i], 5 * (i - 1)) : i \in DOMAIN f}
RowPicture(w, h, S) == Picture(w, h, LAMBDA p : Ink(1 + p[1] \div 5), S)

StripOf(align) == [Sheet0 EXCEPT !.key = "none", !.mode = "strip", !.align = align]
Strips ==
    {In(RowPicture(20, 4, RowOf(f)), StripOf("bottom")) : f \in [1 .. 4 -> Shapes \ {{0, 1, 2} \X {1, 2}}]}
    \cup {In(RowPicture(20, 4, RowOf([i \in 1 .. 4 |-> IF i = 2 THEN S ELSE T])), StripOf("center")) :
             S \in Shapes \cup {{}}, T \in Shapes}

(* A drawing that reaches under the next one.                              *)
Reach == ({0} \X (0 .. 3)) \cup ((0 .. 5) \X {3})
Reaching == {In(RowPicture(20, 4, RowOf(<<Reach, {0, 1} \X {0, 1}, Block, Block>>)), StripOf(a)) :
                a \in {"bottom", "center"}}

(* Drawings with captions under them, and two drawings one above the other *)
(* that have one centre.                                                   *)
Figure == {0, 1} \X (0 .. 3)
Caption == {0, 1, 2} \X {5}
Foot == {0} \X {4, 5}
Named == {Figure, Figure \cup Caption, Figure \cup Foot, Figure \cup Place(Caption, 1)}
VariantsOf(n) == [Sheet0 EXCEPT !.key = "none", !.mode = "variants", !.drawings = n, !.drop = "labels",
                              !.ids = SubSeq(<<"a", "b", "c">>, 1, n)]
Captioned ==
    {In(RowPicture(15, 7, RowOf(f)), VariantsOf(3)) : f \in [1 .. 3 -> Named]}
    \cup {In(RowPicture(15, 7, RowOf(<<Figure, S, Figure>>)),
             [VariantsOf(3) EXCEPT !.indices = <<0, 2>>, !.ids = ids]) : S \in Named, ids \in {<<"a", "c">>, <<"a">>}}
    \cup {In(RowPicture(15, 7, Figure \cup {<<p[1], p[2] + 5>> : p \in Block}), VariantsOf(2))}

(* A figure, a panel, and a dash that links them; all of it, or specks.    *)
Boss == (1 .. 3) \X (1 .. 4)
Panel == {5, 6} \X {0, 1}
Link == {4} \X {1}
Bosses ==
    {In(Picture(8, 6, LAMBDA p : IF p \in Link THEN c ELSE Ink(3), S),
        [Sheet0 EXCEPT !.key = "none", !.pick = "largest"]) :
            c \in {Teal, Red, Ink(3)},
            S \in {Boss, Boss \cup Panel, Boss \cup Panel \cup Link, Panel \cup Link, Link, {<<0, 0>>, <<7, 5>>}, {}}}

(* Plates, stills with their own alpha, and what is refused.               *)
Others ==
    {In(Picture(3, 3, Board, Pixels(3, 3)), s) :
        s \in {[Sheet0 EXCEPT !.mode = "plate", !.key = "none"], [Sheet0 EXCEPT !.key = "none"], Sheet0,
               [Sheet0 EXCEPT !.key = "alpha"], [Sheet0 EXCEPT !.mode = "sheet"]}}

-----------------------------------------------------------------------------
(* Sheets laid out from poses: a neutral PNG and JPEGs on the board.       *)
Png(w, h, S) == [jpeg |-> FALSE, im |-> Picture(w, h, LAMBDA p : Ink(p[2]), S)]
Jpeg(w, h, S) ==
    [jpeg |-> TRUE, im |-> Picture(w, h, LAMBDA p : IF p \in S THEN Ink(p[1]) ELSE Board(p), Pixels(w, h))]

Neutrals == {Png(3, 3, Pixels(3, 3) \ {<<0, 0>>}), Png(4, 3, {1, 2} \X {0, 1, 2})}
Painted ==
    {Jpeg(5, 5, Inside(3)), Jpeg(5, 5, Inside(3) \ {<<2, 2>>}), Jpeg(7, 4, (1 .. 5) \X {1, 2}),
     Jpeg(4, 6, {1, 2} \X (1 .. 4))}

Cycles ==
    {Cycle(n, <<<<a>>, <<>>, <<b>>, <<c>>>>, <<>>) : n \in Neutrals, a \in Painted, b \in Painted, c \in Painted}
    \cup {Cycle(n, <<<<>>, <<>>, <<>>, <<>>>>, <<<<23, 25>>, <<1, 1>>, <<4, 3>>, <<1, 1>>>>) : n \in Neutrals}
Built == {[im |-> Sheet(c), sheet |-> StripOf("bottom"), frames |-> c] : c \in Cycles}

MCInputs == OnBoard \cup OnDark \cup Dithered \cup Cups \cup Strips \cup Reaching \cup Captioned
            \cup Bosses \cup Others \cup Built
=============================================================================
