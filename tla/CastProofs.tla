----------------------------- MODULE CastProofs -----------------------------
(***************************************************************************)
(* Theorems about the scripts of the cast, for sheets of any size, any     *)
(* colours and any drawing, any sheets.json with distinct ids, any         *)
(* stand-ins and any number of mishaps.                                    *)
(*                                                                         *)
(* The flood of knock_out: what its queue marks is closed (no background   *)
(* that touches the border or a marked pixel is left) and least (it is     *)
(* inside every closed set), so it is what hangs together with the border; *)
(* the two passes over the halo stay within two pixels of it.              *)
(*                                                                         *)
(* The pieces: what a scan gathers is inside the piece of its first pixel  *)
(* and closed, so it is that piece, and the list orders them by size.      *)
(*                                                                         *)
(* What is shown: the pieces follow the nearest of the n largest, so each  *)
(* goes with one drawing; a frame is cut to the box of its pieces, the     *)
(* cells of a strip are as wide as its widest frame, so pasting a frame    *)
(* leaves the others alone, and each cell shows its own frame.             *)
(*                                                                         *)
(* What is laid out comes back: the frames of a sheet lie in columns with  *)
(* a gap between them, so a frame in one piece is a piece of the sheet and *)
(* the four seeds are the four frames, left to right; a cell shows the     *)
(* pixels of its frame, moved twice, and so the frame.                     *)
(*                                                                         *)
(* The files: no id comes twice in the rows that emit writes, so a picture *)
(* that is saved is not written again by the same run, and when the        *)
(* manifest is written every one of its rows is on disk.  The heights: a   *)
(* slice cuts the idle pictures from sheets no script builds, the heroes   *)
(* are laid out in their height, and the next slice cuts both.             *)
(***************************************************************************)
EXTENDS PoseSheets, CastFiles, LedgerLemmas

(* What is on a queue.                                                     *)
Queued(q) == {q[i] : i \in 1 .. Len(q)}

(* A pixel of the sheet that the flood may clear, and one it may start at. *)
Light(p) == p \in input.im.on /\ FloodColour(input.im.rgb[p], keys)
Reached(p, S) == OnBorder(input.im, p) \/ Beside(p) \cap S # {}

Closed(S) == \A p \in Area(input.im) : Light(p) /\ Reached(p, S) => p \in S

(* What is marked so far has to be marked.                                 *)
Inmost == \A S \in SUBSET Area(input.im) : Closed(S) => clear \subseteq S

Fringing == {"fringe 1", "fringe 2", "cut"}

(* While the queue runs: what is due is on it, and what is on it is due.   *)
FloodInv ==
    /\ work = input.im
    /\ queue \in Seq(Area(input.im))
    /\ clear \subseteq {p \in Area(input.im) : Light(p)}
    /\ \A p \in Area(input.im) \ clear : Light(p) /\ Reached(p, clear) => p \in Queued(queue)
    /\ \A p \in Queued(queue) : Reached(p, clear)
    /\ Inmost

(* A pixel gone in a pass over the halo, n pixels from something clear.    *)
Kept == input.im.on \ clear
Window(p, n) == (p[1] - n .. p[1] + n) \X (p[2] - n .. p[2] + n)
Frayed(n) ==
    \A p \in Kept \ work.on :
        /\ FringeColour(input.im.rgb[p], keys)
        /\ \E r \in Window(p, n) : r \notin Kept

FringeInv ==
    /\ work = [input.im EXCEPT !.on = work.on]
    /\ work.on \subseteq Kept
    /\ clear \subseteq {p \in Area(input.im) : Light(p)}
    /\ Closed(clear) /\ Inmost
    /\ stage = "fringe 1" => work.on = Kept
    /\ stage = "fringe 2" => Frayed(1)
    /\ stage = "cut" => Frayed(2)

Inv ==
    /\ input \in Inputs
    /\ stage = "flood" => FloodInv /\ sheet.key # "none"
    /\ stage \in Fringing /\ sheet.key # "none" => FringeInv
    /\ stage \in {"fringe 1", "fringe 2"} => sheet.key # "none"

-----------------------------------------------------------------------------
(* Queues.                                                                 *)

LEMMA QueuedHead ==
    ASSUME NEW S, NEW q \in Seq(S), q # <<>>
    PROVE  /\ Head(q) \in S /\ Tail(q) \in Seq(S)
           /\ Queued(q) = {Head(q)} \cup Queued(Tail(q))
<1>1. Len(q) \in Nat \ {0} /\ Head(q) = q[1] /\ Head(q) \in S /\ Tail(q) \in Seq(S)
  OBVIOUS
<1>2. Len(Tail(q)) = Len(q) - 1 /\ \A i \in 1 .. Len(q) - 1 : Tail(q)[i] = q[i + 1]
  BY <1>1
<1>3. \A i \in 1 .. Len(q) : q[i] \in {Head(q)} \cup Queued(Tail(q))
  <2>1. SUFFICES ASSUME NEW i \in 1 .. Len(q), i # 1
                 PROVE  q[i] \in Queued(Tail(q))
    BY <1>1
  <2>2. i - 1 \in 1 .. Len(Tail(q)) /\ Tail(q)[i - 1] = q[i]
    BY <1>1, <1>2, <2>1
  <2>3. QED BY <2>2 DEF Queued
<1>4. \A i \in 1 .. Len(Tail(q)) : i + 1 \in 1 .. Len(q) /\ Tail(q)[i] = q[i + 1]
  BY <1>1, <1>2
<1>5. 1 \in 1 .. Len(q)
  BY <1>1
<1>6. QED BY <1>1, <1>3, <1>4, <1>5 DEF Queued

LEMMA QueuedAppend ==
    ASSUME NEW S, NEW a \in Seq(S), NEW b \in Seq(S)
    PROVE  a \o b \in Seq(S) /\ Queued(a \o b) = Queued(a) \cup Queued(b)
<1>1. /\ Len(a) \in Nat /\ Len(b) \in Nat /\ Len(a \o b) = Len(a) + Len(b)
      /\ \A i \in 1 .. Len(a) + Len(b) : (a \o b)[i] = IF i <= Len(a) THEN a[i] ELSE b[i - Len(a)]
  OBVIOUS
<1>2. \A i \in 1 .. Len(a) : i \in 1 .. Len(a \o b) /\ (a \o b)[i] = a[i]
  BY <1>1
<1>3. \A i \in 1 .. Len(b) : i + Len(a) \in 1 .. Len(a \o b) /\ (a \o b)[i + Len(a)] = b[i]
  BY <1>1
<1>4. \A i \in 1 .. Len(a \o b) : (a \o b)[i] \in Queued(a) \cup Queued(b)
  <2>1. SUFFICES ASSUME NEW i \in 1 .. Len(a \o b) PROVE (a \o b)[i] \in Queued(a) \cup Queued(b)
    OBVIOUS
  <2>2. CASE i <= Len(a) BY <1>1, <2>2 DEF Queued
  <2>3. CASE i > Len(a)
    <3>1. i - Len(a) \in 1 .. Len(b) /\ (a \o b)[i] = b[i - Len(a)]
      BY <1>1, <2>3
    <3>2. QED BY <3>1 DEF Queued
  <2>4. QED BY <1>1, <2>2, <2>3
<1>5. Queued(a) \subseteq Queued(a \o b)
  BY <1>2 DEF Queued
<1>6. Queued(b) \subseteq Queued(a \o b)
  BY <1>3 DEF Queued
<1>7. Queued(a \o b) \subseteq Queued(a) \cup Queued(b)
  BY <1>4 DEF Queued
<1>8. a \o b \in Seq(S)
  OBVIOUS
<1>9. QED BY <1>5, <1>6, <1>7, <1>8

LEMMA Joined ==
    ASSUME NEW A, NEW B, NEW a \in Seq(A), NEW b \in Seq(B)
    PROVE  /\ a \o b \in Seq(A \cup B) /\ Len(a \o b) = Len(a) + Len(b)
           /\ \A i \in 1 .. Len(a) : (a \o b)[i] = a[i]
           /\ \A i \in 1 .. Len(b) : (a \o b)[Len(a) + i] = b[i]
<1>1. a \in Seq(A \cup B) /\ b \in Seq(A \cup B)
  OBVIOUS
<1>2. a \o b \in Seq(A \cup B) /\ Len(a \o b) = Len(a) + Len(b)
  BY <1>1
<1>3. \A i \in 1 .. Len(a) + Len(b) : (a \o b)[i] = IF i <= Len(a) THEN a[i] ELSE b[i - Len(a)]
  BY <1>1
<1>4. Len(a) \in Nat /\ Len(b) \in Nat
  OBVIOUS
<1>5. \A i \in 1 .. Len(a) : (a \o b)[i] = a[i]
  BY <1>3, <1>4
<1>6. \A i \in 1 .. Len(b) : (a \o b)[Len(a) + i] = b[i]
  BY <1>3, <1>4
<1>7. QED BY <1>2, <1>5, <1>6

LEMMA ItsOwnSet ==
    ASSUME NEW S, NEW s \in Seq(S)
    PROVE  /\ s \in Seq(ToSet(s)) /\ Len(s) \in Nat
           /\ DOMAIN s = 1 .. Len(s) /\ \A i \in 1 .. Len(s) : s[i] \in ToSet(s)
<1>1. Len(s) \in Nat /\ DOMAIN s = 1 .. Len(s)
  OBVIOUS
<1>2. \A i \in 1 .. Len(s) : s[i] \in ToSet(s)
  BY <1>1 DEF ToSet
<1>3. s \in Seq(ToSet(s))
  BY <1>1, <1>2
<1>4. QED BY <1>1, <1>2, <1>3

(* Both rows, or both columns, of the border: n pairs of pixels.           *)
Pairs(n, f, g) == [i \in 1 .. 2 * n |-> IF i % 2 = 1 THEN f[(i - 1) \div 2] ELSE g[(i - 2) \div 2]]

LEMMA PairPlaces ==
    ASSUME NEW n \in Nat
    PROVE  /\ \A i \in 1 .. 2 * n : i % 2 = 1 => (i - 1) \div 2 \in 0 .. n - 1
           /\ \A i \in 1 .. 2 * n : i % 2 # 1 => (i - 2) \div 2 \in 0 .. n - 1
           /\ \A k \in 0 .. n - 1 : /\ 2 * k + 1 \in 1 .. 2 * n /\ (2 * k + 1) % 2 = 1
                                    /\ ((2 * k + 1) - 1) \div 2 = k
                                    /\ 2 * k + 2 \in 1 .. 2 * n /\ (2 * k + 2) % 2 # 1
                                    /\ ((2 * k + 2) - 2) \div 2 = k
<1>1. \A i \in 1 .. 2 * n : i % 2 = 1 => (i - 1) \div 2 \in 0 .. n - 1
  OBVIOUS
<1>2. \A i \in 1 .. 2 * n : i % 2 # 1 => (i - 2) \div 2 \in 0 .. n - 1
  OBVIOUS
<1>3. \A k \in 0 .. n - 1 : /\ 2 * k + 1 \in 1 .. 2 * n /\ (2 * k + 1) % 2 = 1
                            /\ ((2 * k + 1) - 1) \div 2 = k
                            /\ 2 * k + 2 \in 1 .. 2 * n /\ (2 * k + 2) % 2 # 1
                            /\ ((2 * k + 2) - 2) \div 2 = k
  OBVIOUS
<1>4. QED BY <1>1, <1>2, <1>3

LEMMA QueuedPairs ==
    ASSUME NEW S, NEW n \in Nat, NEW f, NEW g, \A k \in 0 .. n - 1 : f[k] \in S /\ g[k] \in S
    PROVE  /\ Pairs(n, f, g) \in Seq(S)
           /\ Queued(Pairs(n, f, g)) \subseteq S
           /\ \A k \in 0 .. n - 1 : f[k] \in Queued(Pairs(n, f, g)) /\ g[k] \in Queued(Pairs(n, f, g))
<1> DEFINE q == Pairs(n, f, g)
<1>1. \A i \in 1 .. 2 * n : q[i] = IF i % 2 = 1 THEN f[(i - 1) \div 2] ELSE g[(i - 2) \div 2]
  BY DEF Pairs
<1>2. \A i \in 1 .. 2 * n : q[i] \in S
  <2>1. TAKE i \in 1 .. 2 * n
  <2>2. CASE i % 2 = 1
    BY <1>1, <2>2, PairPlaces
  <2>3. CASE i % 2 # 1
    BY <1>1, <2>3, PairPlaces
  <2>4. QED BY <2>2, <2>3
<1>3. q = [i \in 1 .. 2 * n |-> q[i]]
  BY DEF Pairs
<1> HIDE DEF q
<1>4. 2 * n \in Nat
  OBVIOUS
<1>5. q \in Seq(S) /\ Len(q) = 2 * n
  <2>1. q \in [1 .. 2 * n -> S]
    BY <1>2, <1>3
  <2>2. QED BY <1>4, <2>1
<1>6. \A k \in 0 .. n - 1 : q[2 * k + 1] = f[k] /\ q[2 * k + 2] = g[k]
  BY <1>1, PairPlaces
<1>7. \A k \in 0 .. n - 1 : 2 * k + 1 \in 1 .. Len(q) /\ 2 * k + 2 \in 1 .. Len(q)
  BY <1>5, PairPlaces
<1>8. \A k \in 0 .. n - 1 : f[k] \in Queued(q) /\ g[k] \in Queued(q)
  BY <1>6, <1>7 DEF Queued
<1>9. Queued(q) \subseteq S
  BY <1>2, <1>5 DEF Queued
<1>10. QED BY <1>5, <1>8, <1>9 DEF q

LEMMA QueuedBorder ==
    ASSUME NEW im, IsPicture(im)
    PROVE  /\ Border(im) \in Seq(Area(im))
           /\ Queued(Border(im)) = {p \in Area(im) : OnBorder(im, p)}
<1> DEFINE top    == [k \in 0 .. im.w - 1 |-> <<k, 0>>]
           bottom == [k \in 0 .. im.w - 1 |-> <<k, im.h - 1>>]
           left   == [k \in 0 .. im.h - 1 |-> <<0, k>>]
           right  == [k \in 0 .. im.h - 1 |-> <<im.w - 1, k>>]
           across == Pairs(im.w, top, bottom)
           down   == Pairs(im.h, left, right)
           edge   == {p \in Area(im) : OnBorder(im, p)}
<1>1. im.w \in Nat \ {0} /\ im.h \in Nat \ {0}
  BY DEF IsPicture
<1>2. /\ \A k \in 0 .. im.w - 1 : <<k, 0>> \in edge /\ <<k, im.h - 1>> \in edge
      /\ \A k \in 0 .. im.h - 1 : <<0, k>> \in edge /\ <<im.w - 1, k>> \in edge
  BY <1>1 DEF Area, Pixels, OnBorder
<1>3. \A k \in 0 .. im.w - 1 : top[k] = <<k, 0>> /\ bottom[k] = <<k, im.h - 1>>
  OBVIOUS
<1>4. \A k \in 0 .. im.h - 1 : left[k] = <<0, k>> /\ right[k] = <<im.w - 1, k>>
  OBVIOUS
<1>5. across = [i \in 1 .. 2 * im.w |-> IF i % 2 = 1 THEN <<(i - 1) \div 2, 0>>
                                                    ELSE <<(i - 2) \div 2, im.h - 1>>]
  BY <1>1, PairPlaces DEF Pairs
<1>6. down = [i \in 1 .. 2 * im.h |-> IF i % 2 = 1 THEN <<0, (i - 1) \div 2>>
                                                  ELSE <<im.w - 1, (i - 2) \div 2>>]
  BY <1>1, PairPlaces DEF Pairs
<1>7. Border(im) = across \o down
  BY <1>5, <1>6 DEF Border
<1> HIDE DEF top, bottom, left, right
<1>8. \A k \in 0 .. im.w - 1 : top[k] \in edge /\ bottom[k] \in edge
  BY <1>2, <1>3
<1>9. \A k \in 0 .. im.h - 1 : left[k] \in edge /\ right[k] \in edge
  BY <1>2, <1>4
<1> HIDE DEF edge
<1>10. /\ across \in Seq(edge) /\ Queued(across) \subseteq edge
       /\ \A k \in 0 .. im.w - 1 : top[k] \in Queued(across) /\ bottom[k] \in Queued(across)
  BY <1>1, <1>8, QueuedPairs
<1>11. /\ down \in Seq(edge) /\ Queued(down) \subseteq edge
       /\ \A k \in 0 .. im.h - 1 : left[k] \in Queued(down) /\ right[k] \in Queued(down)
  BY <1>1, <1>9, QueuedPairs
<1> HIDE DEF across, down
<1>12. /\ across \o down \in Seq(edge)
       /\ Queued(across \o down) = Queued(across) \cup Queued(down)
  BY <1>10, <1>11, QueuedAppend
<1>13. ASSUME NEW p \in edge
       PROVE  p \in Queued(across) \cup Queued(down)
  <2>1. /\ p = <<p[1], p[2]>> /\ p[1] \in 0 .. im.w - 1 /\ p[2] \in 0 .. im.h - 1
        /\ p[1] \in {0, im.w - 1} \/ p[2] \in {0, im.h - 1}
    BY <1>13 DEF edge, Area, Pixels, OnBorder
  <2>2. CASE p[1] = 0
    <3>1. p = left[p[2]] BY <1>4, <2>1, <2>2
    <3>2. QED BY <2>1, <3>1, <1>11
  <2>3. CASE p[1] = im.w - 1
    <3>1. p = right[p[2]] BY <1>4, <2>1, <2>3
    <3>2. QED BY <2>1, <3>1, <1>11
  <2>4. CASE p[2] = 0
    <3>1. p = top[p[1]] BY <1>3, <2>1, <2>4
    <3>2. QED BY <2>1, <3>1, <1>10
  <2>5. CASE p[2] = im.h - 1
    <3>1. p = bottom[p[1]] BY <1>3, <2>1, <2>5
    <3>2. QED BY <2>1, <3>1, <1>10
  <2>6. QED BY <2>1, <2>2, <2>3, <2>4, <2>5
<1>14. Queued(Border(im)) = edge
  BY <1>7, <1>10, <1>11, <1>12, <1>13
<1>15. Border(im) \in Seq(Area(im))
  <2>1. edge \subseteq Area(im)
    BY DEF edge
  <2>2. Border(im) \in Seq(edge)
    BY <1>7, <1>12
  <2>3. QED BY <2>1, <2>2
<1>16. QED BY <1>14, <1>15 DEF edge

(* The neighbours that follow a marked pixel are those in the picture.     *)
LEMMA QueuedOnwards ==
    ASSUME IsPicture(work), NEW p \in Area(work)
    PROVE  /\ Onwards(p) \in Seq(Area(work))
           /\ Queued(Onwards(p)) = Beside(p) \cap Area(work)
<1> DEFINE west  == <<p[1] - 1, p[2]>>
           east  == <<p[1] + 1, p[2]>>
           north == <<p[1], p[2] - 1>>
           south == <<p[1], p[2] + 1>>
           a == IF p[1] > 0 THEN <<west>> ELSE <<>>
           b == IF p[1] + 1 < work.w THEN <<east>> ELSE <<>>
           c == IF p[2] > 0 THEN <<north>> ELSE <<>>
           d == IF p[2] + 1 < work.h THEN <<south>> ELSE <<>>
<1>1. p[1] \in 0 .. work.w - 1 /\ p[2] \in 0 .. work.h - 1 /\ work.w \in Nat /\ work.h \in Nat
  BY DEF IsPicture, Area, Pixels
<1>2. /\ p[1] > 0 <=> west \in Area(work)
      /\ p[1] + 1 < work.w <=> east \in Area(work)
      /\ p[2] > 0 <=> north \in Area(work)
      /\ p[2] + 1 < work.h <=> south \in Area(work)
  BY <1>1 DEF Area, Pixels
<1>3. Beside(p) = {west, east, north, south}
  BY DEF Beside
<1>4. Onwards(p) = a \o b \o c \o d
  BY DEF Onwards
<1> HIDE DEF west, east, north, south
<1>5. \A q : Queued(<<q>>) = {q}
  BY DEF Queued
<1>6. Queued(<<>>) = {}
  BY DEF Queued
<1>7. a \in Seq(Area(work)) /\ Queued(a) = {west} \cap Area(work)
  BY <1>2, <1>5, <1>6
<1>8. b \in Seq(Area(work)) /\ Queued(b) = {east} \cap Area(work)
  BY <1>2, <1>5, <1>6
<1>9. c \in Seq(Area(work)) /\ Queued(c) = {north} \cap Area(work)
  BY <1>2, <1>5, <1>6
<1>10. d \in Seq(Area(work)) /\ Queued(d) = {south} \cap Area(work)
  BY <1>2, <1>5, <1>6
<1> HIDE DEF a, b, c, d
<1> DEFINE ab == a \o b
           abc == ab \o c
<1>11. ab \in Seq(Area(work)) /\ Queued(ab) = Queued(a) \cup Queued(b)
  BY <1>7, <1>8, QueuedAppend
<1> HIDE DEF ab
<1>12. abc \in Seq(Area(work)) /\ Queued(abc) = Queued(ab) \cup Queued(c)
  BY <1>9, <1>11, QueuedAppend
<1> HIDE DEF abc
<1>13. abc \o d \in Seq(Area(work)) /\ Queued(abc \o d) = Queued(abc) \cup Queued(d)
  BY <1>10, <1>12, QueuedAppend
<1>14. Onwards(p) = abc \o d
  BY <1>4 DEF ab, abc
<1>15. QED BY <1>3, <1>7, <1>8, <1>9, <1>10, <1>11, <1>12, <1>13, <1>14

-----------------------------------------------------------------------------
(* What Linked computes: a wave that spreads over a finite set stops when  *)
(* it is closed, after one step for each element at most.                  *)

(* Induction over a set of numbers: a set with 0 and with the successor of *)
(* each of its numbers has every number.                                   *)
Lower == {nn \in Nat \X Nat : nn[1] < nn[2]}

LEMMA Counting ==
    ASSUME NEW S, 0 \in S, \A n \in Nat : n \in S => n + 1 \in S
    PROVE  \A n \in Nat : n \in S
<1>1. SUFFICES ASSUME Nat \ S # {} PROVE FALSE
  OBVIOUS
<1>2. IsWellFoundedOn(Lower, Nat)
  <2>1. OpToRel(<, Nat) = Lower
    BY DEF OpToRel, Lower
  <2>2. QED BY <2>1, NatLessThanWellFounded
<1>3. PICK n \in Nat \ S : \A m \in Nat \ S : <<m, n>> \notin Lower
  BY <1>1, <1>2, WFMin
<1>4. n - 1 \in Nat
  BY <1>3
<1>5. n - 1 \in S
  <2>1. <<n - 1, n>> \in Lower
    BY <1>3, <1>4 DEF Lower
  <2>2. QED BY <1>3, <1>4, <2>1
<1>6. QED BY <1>3, <1>4, <1>5

(* Arithmetic.                                                             *)
LEMMA Dividing ==
    ASSUME NEW k \in Nat, NEW n \in Nat, n # 0
    PROVE  k \div n \in Nat /\ k % n \in 0 .. n - 1 /\ k = (k \div n) * n + (k % n)
  OBVIOUS

LEMMA Multiples == \A n, a, b \in Nat : a < b => (a * n) + n <= b * n
<1>1. TAKE n, a, b \in Nat
<1>2. HAVE a < b
<1>3. PICK d \in Nat : b = a + 1 + d
  <2>1. b - (a + 1) \in Nat /\ b = a + 1 + (b - (a + 1))
    BY <1>2
  <2>2. QED BY <2>1
<1>4. b * n = (a * n) + n + (d * n) /\ d * n \in Nat /\ a * n \in Nat
  BY <1>3
<1>5. QED BY <1>4

(* N is closed on T, and w spreads over S by N.                            *)
Grown(N, T) == T \cup UNION {N[p] : p \in T}
Keeps(N, T) == \A p \in T : N[p] \subseteq T
Spreads(w, N, S) ==
    \A n \in 1 .. Cardinality(S) :
        w[n - 1] \subseteq S => w[n] = Grown(N, w[n - 1])

Wave(w, A, N, S, c) ==
    /\ w \in [0 .. c -> SUBSET S]
    /\ w[0] = A
    /\ \A n \in 1 .. c : w[n] = Grown(N, w[n - 1])

LEMMA SpreadExists ==
    ASSUME NEW S, NEW A \in SUBSET S, NEW N, \A p \in S : N[p] \subseteq S, NEW c \in Nat
    PROVE  \E w : Wave(w, A, N, S, c)
<1> DEFINE Has == {m \in Nat : \E w : Wave(w, A, N, S, m)}
<1>1. 0 \in Has
  <2> DEFINE v == [n \in 0 .. 0 |-> A]
  <2>1. v \in [0 .. 0 -> SUBSET S] /\ v[0] = A
    OBVIOUS
  <2>2. 1 .. 0 = {}
    OBVIOUS
  <2> HIDE DEF v
  <2>3. QED BY <2>1, <2>2 DEF Wave
<1>2. ASSUME NEW m \in Nat, m \in Has PROVE m + 1 \in Has
  <2>1. PICK w : Wave(w, A, N, S, m)
    BY <1>2
  <2> DEFINE next == Grown(N, w[m])
             v == [n \in 0 .. m + 1 |-> IF n <= m THEN w[n] ELSE next]
  <2>2. w[m] \subseteq S /\ next \subseteq S
    <3>1. w[m] \subseteq S
      BY <2>1 DEF Wave
    <3>2. QED BY <3>1 DEF Grown
  <2>3. v \in [0 .. m + 1 -> SUBSET S] /\ v[0] = A
    <3> HIDE DEF next
    <3>1. QED BY <2>1, <2>2 DEF Wave
  <2>4. ASSUME NEW n \in 1 .. m + 1
        PROVE  v[n] = Grown(N, v[n - 1])
    <3>1. CASE n <= m
      <4>1. w[n] = Grown(N, w[n - 1])
        BY <2>1, <3>1 DEF Wave
      <4>2. v[n] = w[n] /\ v[n - 1] = w[n - 1]
        BY <3>1
      <4> HIDE DEF v
      <4>3. QED BY <4>1, <4>2
    <3>2. CASE n = m + 1
      <4>1. v[n - 1] = w[m] /\ v[n] = next
        BY <3>2
      <4> HIDE DEF v
      <4>2. QED BY <4>1
    <3>3. QED BY <3>1, <3>2
  <2> HIDE DEF v, next
  <2>5. QED BY <2>3, <2>4 DEF Wave
<1> HIDE DEF Has
<1>3. c \in Has
  BY <1>1, <1>2, Counting
<1>4. QED BY <1>3 DEF Has

LEMMA SpreadIsLeast ==
    ASSUME NEW S, IsFiniteSet(S), NEW N, \A p \in S : N[p] \subseteq S,
           NEW w, w[0] \subseteq S, Spreads(w, N, S)
    PROVE  /\ \A n \in 0 .. Cardinality(S) : w[n] \subseteq S
           /\ w[0] \subseteq w[Cardinality(S)]
           /\ Keeps(N, w[Cardinality(S)])
           /\ \A T : w[0] \subseteq T /\ Keeps(N, T) => w[Cardinality(S)] \subseteq T
<1> DEFINE c == Cardinality(S)
<1>1. c \in Nat
  BY FS_CardinalityType
<1>2. \A n \in 0 .. c : w[n] \subseteq S /\ w[0] \subseteq w[n]
  <2> DEFINE P == {n \in Nat : n <= c => w[n] \subseteq S /\ w[0] \subseteq w[n]}
  <2>1. 0 \in P
    OBVIOUS
  <2>2. ASSUME NEW n \in Nat, n \in P PROVE n + 1 \in P
    <3>1. CASE n + 1 <= c
      <4>1. w[n] \subseteq S /\ w[0] \subseteq w[n]
        BY <1>1, <2>2, <3>1
      <4>2. n + 1 \in 1 .. c /\ (n + 1) - 1 = n
        BY <1>1, <3>1
      <4>3. w[n + 1] = Grown(N, w[n])
        BY <4>1, <4>2 DEF Spreads
      <4>4. w[n + 1] \subseteq S /\ w[0] \subseteq w[n + 1]
        BY <4>1, <4>3 DEF Grown
      <4>5. QED BY <4>4
    <3>2. QED BY <3>1
  <2> HIDE DEF P
  <2>3. \A n \in Nat : n \in P
    BY <2>1, <2>2, Counting
  <2>4. QED BY <1>1, <2>3 DEF P
<1>3. ASSUME NEW n \in Nat, n + 1 <= c
      PROVE  w[n + 1] = Grown(N, w[n])
  <2>1. n + 1 \in 1 .. c /\ (n + 1) - 1 = n /\ w[n] \subseteq S
    BY <1>1, <1>2, <1>3
  <2>2. QED BY <2>1 DEF Spreads
<1>4. Keeps(N, w[c])
  <2> DEFINE P == {n \in Nat : n <= c => (Keeps(N, w[n]) \/ Cardinality(w[n]) >= n)}
  <2>1. 0 \in P
    <3>1. Cardinality(w[0]) \in Nat
      BY <1>2, FS_Subset, FS_CardinalityType
    <3>2. QED BY <3>1
  <2>2. ASSUME NEW n \in Nat, n \in P PROVE n + 1 \in P
    <3>1. SUFFICES ASSUME n + 1 <= c
                   PROVE  Keeps(N, w[n + 1]) \/ Cardinality(w[n + 1]) >= n + 1
      OBVIOUS
    <3>2. w[n + 1] = Grown(N, w[n])
      BY <1>3, <3>1
    <3>3. CASE Keeps(N, w[n])
      <4>1. w[n + 1] = w[n]
        BY <3>2, <3>3 DEF Keeps, Grown
      <4>2. QED BY <3>3, <4>1
    <3>4. CASE ~Keeps(N, w[n])
      <4>1. Cardinality(w[n]) >= n
        BY <1>1, <2>2, <3>1, <3>4
      <4>2. w[n + 1] # w[n] /\ w[n] \subseteq w[n + 1]
        BY <3>2, <3>4 DEF Keeps, Grown
      <4>3. w[n + 1] \subseteq S
        BY <1>1, <1>2, <3>1
      <4>4. IsFiniteSet(w[n + 1])
        BY <4>3, FS_Subset
      <4>5. /\ Cardinality(w[n]) <= Cardinality(w[n + 1])
            /\ Cardinality(w[n]) # Cardinality(w[n + 1])
            /\ IsFiniteSet(w[n])
        BY <4>2, <4>4, FS_Subset
      <4>6. Cardinality(w[n]) \in Nat /\ Cardinality(w[n + 1]) \in Nat
        BY <4>4, <4>5, FS_CardinalityType
      <4>7. QED BY <4>1, <4>5, <4>6
    <3>5. QED BY <3>3, <3>4
  <2> HIDE DEF P
  <2>3. \A n \in Nat : n \in P
    BY <2>1, <2>2, Counting
  <2>4. Keeps(N, w[c]) \/ Cardinality(w[c]) >= c
    BY <1>1, <2>3 DEF P
  <2>5. CASE Cardinality(w[c]) >= c
    <3>1. w[c] \subseteq S
      BY <1>1, <1>2
    <3>2. IsFiniteSet(w[c]) /\ Cardinality(w[c]) <= c /\ (c = Cardinality(w[c]) => w[c] = S)
      BY <3>1, FS_Subset
    <3>3. Cardinality(w[c]) \in Nat
      BY <3>2, FS_CardinalityType
    <3>4. c = Cardinality(w[c])
      BY <1>1, <2>5, <3>2, <3>3
    <3> HIDE DEF c
    <3>5. w[c] = S
      BY <3>2, <3>4
    <3>6. QED BY <3>5 DEF Keeps
  <2>6. QED BY <2>4, <2>5
<1>5. ASSUME NEW T, w[0] \subseteq T, Keeps(N, T)
      PROVE  w[c] \subseteq T
  <2> DEFINE P == {n \in Nat : n <= c => w[n] \subseteq T}
  <2>1. 0 \in P
    BY <1>5
  <2>2. ASSUME NEW n \in Nat, n \in P PROVE n + 1 \in P
    <3>1. SUFFICES ASSUME n + 1 <= c PROVE w[n + 1] \subseteq T
      OBVIOUS
    <3>2. w[n] \subseteq T
      BY <1>1, <2>2, <3>1
    <3>3. w[n + 1] = Grown(N, w[n])
      BY <1>3, <3>1
    <3>4. QED BY <1>5, <3>2, <3>3 DEF Keeps, Grown
  <2> HIDE DEF P
  <2>3. \A n \in Nat : n \in P
    BY <2>1, <2>2, Counting
  <2>4. QED BY <1>1, <2>3 DEF P
<1>6. QED BY <1>1, <1>2, <1>4, <1>5

(* What Linked computes.                                                   *)
LinksBeside(S, F, L) ==
    /\ L \subseteq S /\ F \cap S \subseteq L
    /\ \A p \in L : Beside(p) \cap S \subseteq L
    /\ \A T : F \cap S \subseteq T /\ (\A p \in T : Beside(p) \cap S \subseteq T) => L \subseteq T

LEMMA LinkedBeside ==
    ASSUME NEW S, IsFiniteSet(S), NEW F
    PROVE  LinksBeside(S, F, Linked(S, F, Beside))
<1> DEFINE c == Cardinality(S)
           N == [p \in S |-> Beside(p) \cap S]
           A == F \cap S
           Is(w) == w = [n \in 0 .. c |->
                IF n = 0 THEN F \cap S
                ELSE LET last == w[n - 1] IN last \cup UNION {Beside(p) \cap S : p \in last}]
           W == CHOOSE w : Is(w)
<1>1. c \in Nat
  BY FS_CardinalityType
<1>2. \A T : T \subseteq S => UNION {Beside(p) \cap S : p \in T} = UNION {N[p] : p \in T}
  OBVIOUS
<1>3. \A p \in S : N[p] = Beside(p) \cap S
  OBVIOUS
<1>4. Linked(S, F, Beside) = W[c]
  BY DEF Linked
<1> HIDE DEF N, W, A
<1> HIDE DEF c
<1>5. A \in SUBSET S /\ \A p \in S : N[p] \subseteq S
  BY <1>3 DEF A
<1>6. PICK v : Wave(v, A, N, S, c)
  BY <1>1, <1>5, SpreadExists
<1>7. \A n \in 1 .. c : v[n] = v[n - 1] \cup UNION {Beside(p) \cap S : p \in v[n - 1]}
  <2>1. \A n \in 1 .. c : n - 1 \in 0 .. c
    BY <1>1
  <2>2. QED BY <1>2, <1>6, <2>1 DEF Grown, Wave
<1>8. Is(v)
  <2>1. \A n \in 0 .. c : v[n] = IF n = 0 THEN F \cap S
             ELSE LET last == v[n - 1] IN last \cup UNION {Beside(p) \cap S : p \in last}
    <3>1. \A n \in 0 .. c : n = 0 \/ n \in 1 .. c
      BY <1>1
    <3>2. QED BY <1>6, <1>7, <3>1 DEF Wave, A
  <2>2. QED BY <1>6, <2>1 DEF Wave
<1>9. Is(W)
  BY <1>8 DEF W
<1>10. W[0] = A /\ \A n \in 1 .. c : W[n] = W[n - 1] \cup UNION {Beside(p) \cap S : p \in W[n - 1]}
  <2>1. \A n \in 0 .. c : W[n] = IF n = 0 THEN F \cap S
             ELSE LET last == W[n - 1] IN last \cup UNION {Beside(p) \cap S : p \in last}
    BY <1>9
  <2> HIDE DEF Is
  <2>2. 0 \in 0 .. c /\ \A n \in 1 .. c : n \in 0 .. c /\ n # 0
    BY <1>1
  <2>3. QED BY <2>1, <2>2 DEF A
<1>11. Spreads(W, N, S)
  BY <1>2, <1>10 DEF Spreads, Grown, c
<1>12. W[0] \subseteq S
  BY <1>10 DEF A
<1>13. W[c] \subseteq S
  BY <1>1, <1>3, <1>11, <1>12, SpreadIsLeast DEF c
<1>14. W[0] \subseteq W[c] /\ Keeps(N, W[c])
  BY <1>3, <1>11, <1>12, SpreadIsLeast DEF c
<1>15. \A p \in W[c] : Beside(p) \cap S \subseteq W[c]
  BY <1>3, <1>13, <1>14 DEF Keeps
<1>16. ASSUME NEW T, F \cap S \subseteq T, \A p \in T : Beside(p) \cap S \subseteq T
       PROVE  W[c] \subseteq T
  <2>1. Keeps(N, T \cap S) /\ W[0] \subseteq T \cap S
    BY <1>3, <1>10, <1>16 DEF Keeps, A
  <2>2. W[c] \subseteq T \cap S
    BY <1>3, <1>11, <1>12, <2>1, SpreadIsLeast DEF c
  <2>3. QED BY <2>2
<1>17. QED BY <1>4, <1>10, <1>13, <1>14, <1>15, <1>16 DEF LinksBeside, A

(* The same with the eight pixels around one.                               *)
LinksAround(S, F, L) ==
    /\ L \subseteq S /\ F \cap S \subseteq L
    /\ \A p \in L : Around(p) \cap S \subseteq L
    /\ \A T : F \cap S \subseteq T /\ (\A p \in T : Around(p) \cap S \subseteq T) => L \subseteq T

LEMMA LinkedAround ==
    ASSUME NEW S, IsFiniteSet(S), NEW F
    PROVE  LinksAround(S, F, Linked(S, F, Around))
<1> DEFINE c == Cardinality(S)
           N == [p \in S |-> Around(p) \cap S]
           A == F \cap S
           Is(w) == w = [n \in 0 .. c |->
                IF n = 0 THEN F \cap S
                ELSE LET last == w[n - 1] IN last \cup UNION {Around(p) \cap S : p \in last}]
           W == CHOOSE w : Is(w)
<1>1. c \in Nat
  BY FS_CardinalityType
<1>2. \A T : T \subseteq S => UNION {Around(p) \cap S : p \in T} = UNION {N[p] : p \in T}
  OBVIOUS
<1>3. \A p \in S : N[p] = Around(p) \cap S
  OBVIOUS
<1>4. Linked(S, F, Around) = W[c]
  BY DEF Linked
<1> HIDE DEF N, W, A
<1> HIDE DEF c
<1>5. A \in SUBSET S /\ \A p \in S : N[p] \subseteq S
  BY <1>3 DEF A
<1>6. PICK v : Wave(v, A, N, S, c)
  BY <1>1, <1>5, SpreadExists
<1>7. \A n \in 1 .. c : v[n] = v[n - 1] \cup UNION {Around(p) \cap S : p \in v[n - 1]}
  <2>1. \A n \in 1 .. c : n - 1 \in 0 .. c
    BY <1>1
  <2>2. QED BY <1>2, <1>6, <2>1 DEF Grown, Wave
<1>8. Is(v)
  <2>1. \A n \in 0 .. c : v[n] = IF n = 0 THEN F \cap S
             ELSE LET last == v[n - 1] IN last \cup UNION {Around(p) \cap S : p \in last}
    <3>1. \A n \in 0 .. c : n = 0 \/ n \in 1 .. c
      BY <1>1
    <3>2. QED BY <1>6, <1>7, <3>1 DEF Wave, A
  <2>2. QED BY <1>6, <2>1 DEF Wave
<1>9. Is(W)
  BY <1>8 DEF W
<1>10. W[0] = A /\ \A n \in 1 .. c : W[n] = W[n - 1] \cup UNION {Around(p) \cap S : p \in W[n - 1]}
  <2>1. \A n \in 0 .. c : W[n] = IF n = 0 THEN F \cap S
             ELSE LET last == W[n - 1] IN last \cup UNION {Around(p) \cap S : p \in last}
    BY <1>9
  <2> HIDE DEF Is
  <2>2. 0 \in 0 .. c /\ \A n \in 1 .. c : n \in 0 .. c /\ n # 0
    BY <1>1
  <2>3. QED BY <2>1, <2>2 DEF A
<1>11. Spreads(W, N, S)
  BY <1>2, <1>10 DEF Spreads, Grown, c
<1>12. W[0] \subseteq S
  BY <1>10 DEF A
<1>13. W[c] \subseteq S
  BY <1>1, <1>3, <1>11, <1>12, SpreadIsLeast DEF c
<1>14. W[0] \subseteq W[c] /\ Keeps(N, W[c])
  BY <1>3, <1>11, <1>12, SpreadIsLeast DEF c
<1>15. \A p \in W[c] : Around(p) \cap S \subseteq W[c]
  BY <1>3, <1>13, <1>14 DEF Keeps
<1>16. ASSUME NEW T, F \cap S \subseteq T, \A p \in T : Around(p) \cap S \subseteq T
       PROVE  W[c] \subseteq T
  <2>1. Keeps(N, T \cap S) /\ W[0] \subseteq T \cap S
    BY <1>3, <1>10, <1>16 DEF Keeps, A
  <2>2. W[c] \subseteq T \cap S
    BY <1>3, <1>11, <1>12, <2>1, SpreadIsLeast DEF c
  <2>3. QED BY <2>2
<1>17. QED BY <1>4, <1>10, <1>13, <1>14, <1>15, <1>16 DEF LinksAround, A

-----------------------------------------------------------------------------
(* The flood.                                                              *)

LEMMA LightIsMatch ==
    ASSUME work = input.im, NEW p
    PROVE  Light(p) <=> Matches(p)
  BY DEF Light, Matches

LEMMA BesideIsMutual ==
    ASSUME NEW im, NEW p \in Area(im), NEW q \in Area(im)
    PROVE  q \in Beside(p) <=> p \in Beside(q)
<1>1. /\ p = <<p[1], p[2]>> /\ p[1] \in Int /\ p[2] \in Int
      /\ q = <<q[1], q[2]>> /\ q[1] \in Int /\ q[2] \in Int
  BY DEF Area, Pixels
<1>2. \A a, b \in Int \X Int :
          b \in Beside(a) <=> \/ b[1] = a[1] - 1 /\ b[2] = a[2]
                              \/ b[1] = a[1] + 1 /\ b[2] = a[2]
                              \/ b[1] = a[1] /\ b[2] = a[2] - 1
                              \/ b[1] = a[1] /\ b[2] = a[2] + 1
  BY DEF Beside
<1>3. p \in Int \X Int /\ q \in Int \X Int
  BY <1>1
<1>4. QED BY <1>1, <1>2, <1>3

LEMMA LoadFloods ==
    ASSUME input \in Inputs, stage' = "flood", input' = input, NEW K, KnockOut(input.im, K)
    PROVE  FloodInv'
<1>1. IsPicture(input.im)
  BY SlicerAssumption
<1>2. /\ work' = input.im /\ queue' = Border(input.im) /\ clear' = {}
  BY DEF KnockOut
<1>3. /\ queue' \in Seq(Area(input.im))
      /\ Queued(queue') = {p \in Area(input.im) : OnBorder(input.im, p)}
  BY <1>1, <1>2, QueuedBorder
<1>4. \A p : Reached(p, clear)' <=> OnBorder(input.im, p)
  BY <1>2 DEF Reached
<1>5. \A p \in (Area(input.im) \ clear)' : Reached(p, clear)' => p \in Queued(queue')
  BY <1>3, <1>4
<1>6. \A p \in Queued(queue') : Reached(p, clear)'
  BY <1>3, <1>4
<1>7. Inmost'
  BY <1>2 DEF Inmost
<1>8. QED BY <1>2, <1>3, <1>5, <1>6, <1>7 DEF FloodInv

LEMMA PassFloods ==
    ASSUME input \in Inputs, input' = input, FloodInv, Pass
    PROVE  FloodInv'
<1> DEFINE h == Head(queue)
<1>1. /\ queue # <<>> /\ queue' = Tail(queue) /\ UNCHANGED <<work, keys, clear, input>>
      /\ h \in clear \/ ~Matches(h)
  BY DEF Pass
<1>2. /\ Tail(queue) \in Seq(Area(input.im))
      /\ Queued(queue) = {h} \cup Queued(Tail(queue))
  BY <1>1, QueuedHead DEF FloodInv
<1>3. ASSUME NEW p \in Area(input.im) \ clear, Light(p), Reached(p, clear)
      PROVE  p \in Queued(Tail(queue))
  <2>1. p \in Queued(queue)
    BY <1>3 DEF FloodInv
  <2>2. p # h
    BY <1>1, <1>3, LightIsMatch DEF FloodInv
  <2>3. QED BY <1>2, <2>1, <2>2
<1>4. \A p \in Queued(Tail(queue)) : Reached(p, clear)
  BY <1>2 DEF FloodInv
<1>5. \A p : (Light(p) <=> Light(p)') /\ (Reached(p, clear) <=> Reached(p, clear)')
  BY <1>1 DEF Light, Reached
<1>6. Inmost'
  BY <1>1 DEF FloodInv, Inmost, Closed, Light, Reached
<1>7. \A p \in (Area(input.im) \ clear)' : Light(p)' /\ Reached(p, clear)' => p \in Queued(queue')
  BY <1>1, <1>3, <1>5
<1>8. \A p \in Queued(queue') : Reached(p, clear)'
  BY <1>1, <1>4, <1>5
<1>9. (clear \subseteq {p \in Area(input.im) : Light(p)})'
  BY <1>1, <1>5 DEF FloodInv
<1>10. work' = input'.im /\ queue' \in Seq(Area(input'.im))
  BY <1>1, <1>2 DEF FloodInv
<1>11. QED BY <1>6, <1>7, <1>8, <1>9, <1>10 DEF FloodInv

LEMMA MarkFloods ==
    ASSUME input \in Inputs, input' = input, FloodInv, Mark
    PROVE  FloodInv'
<1> DEFINE h == Head(queue)
           A == Area(input.im)
<1>1. /\ queue # <<>> /\ h \notin clear /\ Matches(h)
      /\ clear' = clear \cup {h} /\ queue' = Tail(queue) \o Onwards(h)
      /\ UNCHANGED <<work, keys, input>>
  BY DEF Mark
<1>2. IsPicture(input.im) /\ work = input.im
  BY SlicerAssumption DEF FloodInv
<1>3. /\ h \in A /\ Tail(queue) \in Seq(A)
      /\ Queued(queue) = {h} \cup Queued(Tail(queue))
  BY <1>1, QueuedHead DEF FloodInv
<1>4. Onwards(h) \in Seq(A) /\ Queued(Onwards(h)) = Beside(h) \cap A
  BY <1>2, <1>3, QueuedOnwards
<1>5. queue' \in Seq(A) /\ Queued(queue') = Queued(Tail(queue)) \cup (Beside(h) \cap A)
  <2> DEFINE rest == Tail(queue)
             more == Onwards(h)
  <2>1. rest \in Seq(A) /\ more \in Seq(A) /\ queue' = rest \o more
    BY <1>1, <1>3, <1>4
  <2>2. Queued(more) = Beside(h) \cap A
    BY <1>4
  <2> HIDE DEF rest, more, A
  <2>3. rest \o more \in Seq(A) /\ Queued(rest \o more) = Queued(rest) \cup Queued(more)
    BY <2>1, QueuedAppend
  <2>4. queue' \in Seq(A) /\ Queued(queue') = Queued(rest) \cup (Beside(h) \cap A)
    BY <2>1, <2>2, <2>3
  <2>5. QED BY <2>4 DEF rest
<1>6. Light(h)
  BY <1>1, <1>2, LightIsMatch
<1>7. /\ \A p : Light(p) <=> Light(p)'
      /\ \A p : Reached(p, clear)' <=> Reached(p, clear) \/ h \in Beside(p)
  BY <1>1 DEF Light, Reached
<1>8. ASSUME NEW p \in A \ clear', Light(p), Reached(p, clear)'
      PROVE  p \in Queued(queue')
  <2>1. CASE Reached(p, clear)
    <3>1. p \in Queued(queue) /\ p # h
      BY <1>1, <1>8, <2>1 DEF FloodInv
    <3>2. QED BY <1>3, <1>5, <3>1
  <2>2. CASE h \in Beside(p)
    <3>1. p \in Beside(h)
      BY <1>3, <1>8, <2>2, BesideIsMutual
    <3>2. QED BY <1>5, <1>8, <3>1
  <2>3. QED BY <1>7, <1>8, <2>1, <2>2
<1>9. ASSUME NEW p \in Queued(queue')
      PROVE  Reached(p, clear)'
  <2>1. CASE p \in Queued(Tail(queue))
    BY <1>3, <1>7, <2>1 DEF FloodInv
  <2>2. CASE p \in Beside(h) \cap A
    <3>1. h \in Beside(p)
      BY <1>3, <2>2, BesideIsMutual
    <3>2. QED BY <1>7, <3>1
  <2>3. QED BY <1>5, <1>9, <2>1, <2>2
<1>10. ASSUME NEW S \in SUBSET A, Closed(S)
       PROVE  clear' \subseteq S
  <2>1. clear \subseteq S
    BY <1>10 DEF FloodInv, Inmost
  <2>2. Reached(h, clear)
    BY <1>3 DEF FloodInv
  <2>3. Reached(h, S)
    BY <2>1, <2>2 DEF Reached
  <2>4. h \in S
    BY <1>3, <1>6, <1>10, <2>3 DEF Closed
  <2>5. QED BY <1>1, <2>1, <2>4
<1>11. \A S : Closed(S) <=> Closed(S)'
  BY <1>1 DEF Closed, Light, Reached
<1>12. Inmost'
  BY <1>1, <1>10, <1>11 DEF Inmost
<1>13. (clear \subseteq {p \in Area(input.im) : Light(p)})'
  BY <1>1, <1>3, <1>6, <1>7 DEF FloodInv
<1>14. work' = input'.im /\ queue' \in Seq(Area(input'.im))
  BY <1>1, <1>2, <1>5
<1>15. \A p \in (Area(input.im) \ clear)' : Light(p)' /\ Reached(p, clear)' => p \in Queued(queue')
  BY <1>1, <1>7, <1>8
<1>16. QED BY <1>9, <1>12, <1>13, <1>14, <1>15 DEF FloodInv

(* The queue is empty: nothing is due, and what is marked goes.            *)
LEMMA FloodedIsClosed ==
    ASSUME input \in Inputs, input' = input, FloodInv, Flooded
    PROVE  FringeInv'
<1>1. /\ queue = <<>> /\ work' = Without(work, clear) /\ stage' = "fringe 1"
      /\ UNCHANGED <<keys, clear, input>>
  BY DEF Flooded
<1>2. IsPicture(input.im) /\ work = input.im
  BY SlicerAssumption DEF FloodInv
<1>3. Queued(queue) = {}
  <2>1. Queued(<<>>) = {}
    BY DEF Queued
  <2>2. QED BY <1>1, <2>1
<1>4. Closed(clear)
  BY <1>3 DEF FloodInv, Closed
<1>5. Closed(clear)' /\ Inmost'
  BY <1>1, <1>4 DEF FloodInv, Closed, Inmost, Light, Reached
<1>6. work' = [input.im EXCEPT !.on = input.im.on \ clear]
  BY <1>1, <1>2 DEF Without
<1>7. work'.on = input.im.on \ clear
  BY <1>2, <1>6 DEF IsPicture
<1>8. work'.on = Kept' /\ work' = [input.im EXCEPT !.on = work'.on]
  BY <1>1, <1>6, <1>7 DEF Kept
<1>9. (clear \subseteq {p \in Area(input.im) : Light(p)})'
  BY <1>1 DEF FloodInv, Light
<1>10. QED BY <1>1, <1>5, <1>8, <1>9 DEF FringeInv

-----------------------------------------------------------------------------
(* The halo.                                                               *)

(* A pixel of the halo has something transparent beside or across from it. *)
LEMMA HaloIsFrayed ==
    ASSUME NEW im, IsPicture(im), NEW K, NEW p \in Halo(im, K)
    PROVE  /\ p \in Area(im) /\ p \in im.on /\ FringeColour(im.rgb[p], K)
           /\ \E r \in Window(p, 1) : r \notin im.on
<1> DEFINE N == {n \in Around(p) : n \notin im.on}
<1>1. p \in im.on /\ FringeColour(im.rgb[p], K) /\ Cardinality(N) >= 3
  BY DEF Halo
<1>2. p \in Area(im)
  BY <1>1 DEF IsPicture
<1>3. N # {}
  <2>1. Cardinality({}) = 0
    BY FS_EmptySet
  <2>2. QED BY <1>1, <2>1
<1>4. PICK r \in Around(p) : r \notin im.on
  BY <1>3
<1>5. p[1] \in Int /\ p[2] \in Int
  BY <1>2 DEF Area, Pixels
<1>6. r \in Window(p, 1)
  BY <1>4, <1>5 DEF Around, Beside, Window
<1>7. QED BY <1>1, <1>2, <1>4, <1>6

LEMMA FringeFrays ==
    ASSUME input \in Inputs, input' = input, FringeInv, Fringe
    PROVE  FringeInv'
<1> DEFINE H == Halo(work, keys)
<1>1. /\ stage \in {"fringe 1", "fringe 2"} /\ work' = Without(work, H)
      /\ stage' = IF stage = "fringe 1" THEN "fringe 2" ELSE "cut"
      /\ UNCHANGED <<keys, clear, input>>
  BY DEF Fringe
<1>2. /\ IsPicture(input.im) /\ work = [input.im EXCEPT !.on = work.on] /\ work.on \subseteq Kept
      /\ Closed(clear) /\ Inmost
  BY SlicerAssumption DEF FringeInv
<1>3. /\ work.w = input.im.w /\ work.h = input.im.h /\ work.rgb = input.im.rgb
      /\ work = [w |-> work.w, h |-> work.h, rgb |-> work.rgb, on |-> work.on]
  BY <1>2 DEF IsPicture
<1>4. IsPicture(work) /\ Area(work) = Area(input.im)
  <2>1. Area(work) = Area(input.im)
    BY <1>3 DEF Area
  <2>2. work.on \subseteq Area(work)
    BY <1>2, <2>1 DEF Kept, IsPicture
  <2>3. QED BY <1>2, <1>3, <2>1, <2>2 DEF IsPicture
<1>5. work' = [work EXCEPT !.on = work.on \ H] /\ work'.on = work.on \ H
  BY <1>1, <1>3 DEF Without
<1>6. work' = [input.im EXCEPT !.on = work'.on]
  BY <1>2, <1>5
<1>7. work'.on \subseteq Kept' /\ Kept' = Kept
  BY <1>1, <1>2, <1>5 DEF Kept
<1>8. Closed(clear)' /\ Inmost' /\ (clear \subseteq {p \in Area(input.im) : Light(p)})'
  <2>1. Closed(clear)' /\ Inmost'
    BY <1>1, <1>2 DEF Closed, Inmost, Light, Reached
  <2>2. (clear \subseteq {p \in Area(input.im) : Light(p)})'
    BY <1>1 DEF FringeInv, Light
  <2>3. QED BY <2>1, <2>2
<1>9. ASSUME NEW p \in H
      PROVE  /\ FringeColour(input.im.rgb[p], keys)
             /\ p[1] \in Int /\ p[2] \in Int
             /\ \E r \in Window(p, 1) : r \notin work.on
  <2>1. /\ p \in Area(work) /\ FringeColour(work.rgb[p], keys)
        /\ \E r \in Window(p, 1) : r \notin work.on
    BY <1>4, HaloIsFrayed
  <2>2. p[1] \in Int /\ p[2] \in Int
    BY <2>1 DEF Area, Pixels
  <2>3. QED BY <1>3, <2>1, <2>2
<1>10. CASE stage = "fringe 1"
  <2>1. work.on = Kept /\ stage' = "fringe 2"
    BY <1>1, <1>10 DEF FringeInv
  <2>2. Frayed(1)'
    <3>1. Kept' \ work'.on \subseteq H
      BY <1>5, <1>7, <2>1
    <3>2. QED BY <1>1, <1>7, <1>9, <2>1, <3>1 DEF Frayed
  <2>3. QED BY <1>6, <1>7, <1>8, <2>1, <2>2 DEF FringeInv
<1>11. CASE stage = "fringe 2"
  <2>1. Frayed(1) /\ stage' = "cut"
    BY <1>1, <1>11 DEF FringeInv
  <2>2. \A p \in Kept : p[1] \in Int /\ p[2] \in Int
    BY <1>2 DEF Kept, IsPicture, Area, Pixels
  <2>3. ASSUME NEW p \in Kept \ work'.on
        PROVE  FringeColour(input.im.rgb[p], keys) /\ \E r \in Window(p, 2) : r \notin Kept
    <3>1. CASE p \notin work.on
      <4>1. PICK r \in Window(p, 1) : r \notin Kept
        BY <2>1, <2>3, <3>1 DEF Frayed
      <4>2. r \in Window(p, 2)
        BY <2>2, <2>3, <4>1 DEF Window
      <4>3. QED BY <2>1, <2>3, <3>1, <4>1, <4>2 DEF Frayed
    <3>2. CASE p \in H
      <4>1. PICK n \in Window(p, 1) : n \notin work.on
        BY <1>9, <3>2
      <4>2. CASE n \notin Kept
        <5>1. n \in Window(p, 2)
          BY <2>2, <2>3, <4>1 DEF Window
        <5>2. QED BY <1>9, <3>2, <4>2, <5>1
      <4>3. CASE n \in Kept
        <5>1. PICK r \in Window(n, 1) : r \notin Kept
          BY <2>1, <4>1, <4>3 DEF Frayed
        <5>2. r \in Window(p, 2)
          BY <2>2, <2>3, <4>1, <4>3, <5>1 DEF Window
        <5>3. QED BY <1>9, <3>2, <5>1, <5>2
      <4>4. QED BY <4>2, <4>3
    <3>3. QED BY <1>5, <2>3, <3>1, <3>2
  <2>4. Frayed(2)'
    BY <1>1, <1>7, <2>3 DEF Frayed
  <2>5. QED BY <1>6, <1>7, <1>8, <2>1, <2>4 DEF FringeInv
<1>12. QED BY <1>1, <1>10, <1>11

-----------------------------------------------------------------------------
(* Every step.                                                             *)

LEMMA InitInv == Init => Inv
  BY DEF Init, Inv, Fringing

LEMMA StillInv ==
    ASSUME Inv, UNCHANGED <<input, work, keys, queue, clear, stage>>
    PROVE  Inv'
  BY DEF Inv, FloodInv, FringeInv, Fringing, Closed, Inmost, Light, Reached, Kept, Frayed, sheet

LEMMA NextInv ==
    ASSUME Inv, [Next]_vars
    PROVE  Inv'
<1> USE DEF sheet
<1>1. CASE Load
  <2>1. input' = input /\ input \in Inputs
    BY <1>1 DEF Load, Inv
  <2>2. CASE sheet.key = "checker" /\ KnockOut(input.im, {})
    <3>1. stage' = "flood"
      BY <2>2 DEF KnockOut
    <3>2. FloodInv'
      BY <2>1, <2>2, <3>1, LoadFloods
    <3>3. QED BY <2>1, <2>2, <3>1, <3>2 DEF Inv, Fringing
  <2>3. CASE sheet.key = "corner" /\ KnockOut(input.im, {input.im.rgb[<<0, 0>>]})
    <3>1. stage' = "flood"
      BY <2>3 DEF KnockOut
    <3>2. FloodInv'
      BY <2>1, <2>3, <3>1, LoadFloods
    <3>3. QED BY <2>1, <2>3, <3>1, <3>2 DEF Inv, Fringing
  <2>4. CASE sheet.key = "none" /\ stage' = "cut"
    BY <2>1, <2>4 DEF Inv, Fringing
  <2>5. QED BY <1>1, <2>2, <2>3, <2>4 DEF Load
<1>2. CASE CutOut
  <2>1. input' = input /\ input \in Inputs
    BY <1>2 DEF CutOut, Inv
  <2>2. CASE Pass
    <3>1. FloodInv' /\ stage = "flood" /\ stage' = stage
      BY <2>1, <2>2, PassFloods DEF Pass, Inv
    <3>2. QED BY <2>1, <3>1 DEF Inv, Fringing
  <2>3. CASE Mark
    <3>1. FloodInv' /\ stage = "flood" /\ stage' = stage
      BY <2>1, <2>3, MarkFloods DEF Mark, Inv
    <3>2. QED BY <2>1, <3>1 DEF Inv, Fringing
  <2>4. CASE Flooded
    <3>1. FringeInv' /\ stage = "flood" /\ stage' = "fringe 1"
      BY <2>1, <2>4, FloodedIsClosed DEF Flooded, Inv
    <3>2. QED BY <2>1, <3>1 DEF Inv, Fringing
  <2>5. CASE Fringe
    <3>1. stage \in {"fringe 1", "fringe 2"} /\ stage' \in {"fringe 2", "cut"}
      BY <2>5 DEF Fringe
    <3>2. FringeInv /\ sheet.key # "none"
      BY <3>1 DEF Inv, Fringing
    <3>3. FringeInv'
      BY <2>1, <2>5, <3>2, FringeFrays
    <3>4. QED BY <2>1, <3>1, <3>2, <3>3 DEF Inv, Fringing
  <2>6. QED BY <1>2, <2>2, <2>3, <2>4, <2>5 DEF CutOut, Cut
<1>3. CASE UNCHANGED input /\ stage' \in {"failed", "done", "gather", "ranked", "framed"}
  BY <1>3 DEF Inv, Fringing
<1>4. CASE BadKey \/ BadMode
  BY <1>3, <1>4 DEF BadKey, BadMode, Fail
<1>5. CASE Plate \/ Strip \/ Variants \/ Largest \/ Still
  BY <1>3, <1>5 DEF Plate, Strip, Variants, Largest, Still, Answer, Fail
<1>6. CASE StartGather \/ Rank
  BY <1>3, <1>6 DEF StartGather, Rank
<1>7. CASE RowFrames
  BY <1>3, <1>7 DEF RowFrames, Fail
<1>8. CASE OpenPiece \/ Grow \/ ClosePiece
  BY <1>8, StillInv DEF OpenPiece, Grow, ClosePiece, cutVars
<1>9. CASE UNCHANGED vars
  BY <1>9, StillInv DEF vars, cutVars
<1>10. QED BY <1>1, <1>2, <1>4, <1>5, <1>6, <1>7, <1>8, <1>9 DEF Next

LEMMA AlwaysInv == Spec => []Inv
  BY InitInv, NextInv, PTL DEF Spec

-----------------------------------------------------------------------------
(* Theorems.                                                               *)

(* A sheet is finite.                                                      *)
LEMMA AreaIsFinite ==
    ASSUME NEW im, IsPicture(im)
    PROVE  IsFiniteSet(Area(im))
<1>1. im.w \in Nat /\ im.h \in Nat
  BY DEF IsPicture
<1>2. IsFiniteSet(0 .. im.w - 1) /\ IsFiniteSet(0 .. im.h - 1)
  <2>1. 0 \in Int /\ im.w - 1 \in Int /\ im.h - 1 \in Int
    BY <1>1
  <2>2. QED BY ONLY <2>1, FS_Interval
<1>3. QED BY <1>2, FS_Product DEF Area, Pixels

(* A closed and least set of marks is the background.                      *)
LEMMA ClosedIsBackground ==
    ASSUME IsPicture(input.im), clear \subseteq {p \in Area(input.im) : Light(p)},
           Closed(clear), Inmost
    PROVE  clear = Background(input.im, keys)
<1> DEFINE S == {p \in input.im.on : FloodColour(input.im.rgb[p], keys)}
           F == {p \in S : OnBorder(input.im, p)}
           L == Background(input.im, keys)
<1>1. L = Linked(S, F, Beside)
  BY DEF Background
<1>2. input.im.on \subseteq Area(input.im)
  BY DEF IsPicture
<1>3. S \subseteq Area(input.im)
  BY <1>2
<1>4. F \subseteq S /\ \A p \in F : OnBorder(input.im, p)
  OBVIOUS
<1>5. \A p \in S : Light(p) /\ (OnBorder(input.im, p) => p \in F)
  BY DEF Light
<1>6. \A p : Light(p) => p \in S
  BY DEF Light
<1> HIDE DEF S, F, L
<1>7. IsFiniteSet(S)
  BY <1>3, AreaIsFinite, FS_Subset
<1>8. LinksBeside(S, F, L)
  BY <1>1, <1>7, LinkedBeside
<1>9. clear \subseteq L
  <2>1. L \in SUBSET Area(input.im)
    BY <1>3, <1>8 DEF LinksBeside
  <2>2. ASSUME NEW p \in Area(input.im), Light(p), Reached(p, L)
        PROVE  p \in L
    <3>1. p \in S
      BY <1>6, <2>2
    <3>2. CASE OnBorder(input.im, p)
      BY <1>4, <1>5, <1>8, <3>1, <3>2 DEF LinksBeside
    <3>3. CASE Beside(p) \cap L # {}
      <4>1. PICK q \in L : q \in Beside(p)
        BY <3>3
      <4>2. p \in Beside(q)
        BY <2>1, <2>2, <4>1, BesideIsMutual
      <4>3. QED BY <1>8, <3>1, <4>1, <4>2 DEF LinksBeside
    <3>4. QED BY <2>2, <3>2, <3>3 DEF Reached
  <2>3. Closed(L)
    BY <2>2 DEF Closed
  <2>4. QED BY <2>1, <2>3 DEF Inmost
<1>10. L \subseteq clear
  <2>1. F \cap S \subseteq clear
    BY <1>3, <1>4, <1>5 DEF Closed, Reached
  <2>2. ASSUME NEW p \in clear, NEW q \in Beside(p) \cap S
        PROVE  q \in clear
    <3>1. p \in Area(input.im) /\ q \in Area(input.im) /\ Light(q)
      BY <1>3, <1>5, <2>2
    <3>2. p \in Beside(q)
      BY <2>2, <3>1, BesideIsMutual
    <3>3. Reached(q, clear)
      BY <2>2, <3>2 DEF Reached
    <3>4. QED BY <3>1, <3>3 DEF Closed
  <2>3. QED BY <1>8, <2>1, <2>2 DEF LinksBeside
<1>11. QED BY <1>9, <1>10 DEF L

(* When the cut is made, knock_out's queue has cleared the background that *)
(* reaches the border and nothing else, and none of it is left, however    *)
(* large the sheet and in whatever order the queue came to the pixels.     *)
THEOREM BackgroundIsGone == Spec => []BackgroundGone
<1>1. Inv => BackgroundGone
  <2>1. SUFFICES ASSUME Inv, stage = "cut", sheet.key # "none"
                 PROVE  clear = Background(input.im, keys) /\ clear \cap work.on = {}
    BY DEF BackgroundGone
  <2>2. FringeInv /\ IsPicture(input.im)
    BY <2>1, SlicerAssumption DEF Inv, Fringing
  <2>3. clear = Background(input.im, keys)
    BY <2>2, ClosedIsBackground DEF FringeInv
  <2>4. clear \cap work.on = {}
    BY <2>2 DEF FringeInv, Kept
  <2>5. QED BY <2>3, <2>4
<1>2. QED BY <1>1, AlwaysInv, PTL

(* "Interior whites stay", whatever is drawn: beyond the flood a pixel     *)
(* goes only if it has the background's colour and something transparent   *)
(* within two pixels (the two passes of knock_out).                        *)
THEOREM InteriorKept == Spec => []InteriorStays
<1>1. Inv => InteriorStays
  <2>1. SUFFICES ASSUME Inv, stage = "cut", sheet.key # "none",
                        NEW p \in input.im.on \ (work.on \cup clear)
                 PROVE  /\ FringeColour(input.im.rgb[p], keys)
                        /\ \E r \in (p[1] - 2 .. p[1] + 2) \X (p[2] - 2 .. p[2] + 2) :
                               r \notin input.im.on \ clear
    BY DEF InteriorStays
  <2>2. Frayed(2) /\ p \in Kept \ work.on
    BY <2>1 DEF Inv, Fringing, FringeInv, Kept
  <2>3. QED BY <2>2 DEF Frayed, Window, Kept
<1>2. QED BY <1>1, AlwaysInv, PTL

(* How far the queue and the two passes have come with knock_out.          *)
PeelInv ==
    /\ stage = "fringe 1" => work = Without(input.im, clear)
    /\ stage = "fringe 2" =>
          LET flooded == Without(input.im, clear) IN work = Without(flooded, Halo(flooded, keys))
    /\ stage = "cut" /\ sheet.key # "none" => work = KnockedOut(input.im, keys)

LEMMA FringePeels ==
    ASSUME Inv, PeelInv, Fringe, UNCHANGED input
    PROVE  PeelInv'
<1>1. /\ stage \in {"fringe 1", "fringe 2"} /\ work' = Without(work, Halo(work, keys))
      /\ stage' = IF stage = "fringe 1" THEN "fringe 2" ELSE "cut"
      /\ UNCHANGED <<keys, clear>>
  BY DEF Fringe
<1>2. CASE stage = "fringe 1"
  BY <1>1, <1>2 DEF PeelInv
<1>3. CASE stage = "fringe 2"
  <2>1. FringeInv /\ IsPicture(input.im)
    BY <1>3, SlicerAssumption DEF Inv, Fringing
  <2>2. clear = Background(input.im, keys)
    BY <2>1, ClosedIsBackground DEF FringeInv
  <2>3. work' = KnockedOut(input.im, keys)
    BY <1>1, <1>3, <2>2 DEF PeelInv, KnockedOut
  <2>4. QED BY <1>1, <1>3, <2>3 DEF PeelInv
<1>4. QED BY <1>1, <1>2, <1>3

LEMMA PeelNext ==
    ASSUME Inv, PeelInv, [Next]_vars
    PROVE  PeelInv'
<1>1. CASE Load
  <2>1. stage' = "flood" \/ (stage' = "cut" /\ sheet'.key = "none")
    BY <1>1 DEF Load, KnockOut, sheet
  <2>2. QED BY <2>1 DEF PeelInv
<1>2. CASE CutOut
  <2>1. UNCHANGED input
    BY <1>2 DEF CutOut
  <2>2. CASE Pass \/ Mark
    <3>1. stage' = "flood"
      BY <2>2 DEF Pass, Mark
    <3>2. QED BY <3>1 DEF PeelInv
  <2>3. CASE Flooded
    <3>1. /\ stage = "flood" /\ stage' = "fringe 1" /\ work' = Without(work, clear)
          /\ clear' = clear /\ work = input.im
      BY <2>3 DEF Flooded, Inv, FloodInv
    <3>2. QED BY <2>1, <3>1 DEF PeelInv
  <2>4. CASE Fringe
    BY <2>1, <2>4, FringePeels
  <2>5. QED BY <1>2, <2>2, <2>3, <2>4 DEF CutOut, Cut
<1>3. CASE stage' \in {"failed", "done", "gather", "ranked", "framed"}
  BY <1>3 DEF PeelInv
<1>4. CASE BadKey \/ BadMode \/ Plate \/ Strip \/ Variants \/ Largest \/ Still
  BY <1>3, <1>4 DEF BadKey, BadMode, Plate, Strip, Variants, Largest, Still, Answer, Fail
<1>5. CASE StartGather \/ OpenPiece \/ Grow \/ ClosePiece \/ Rank \/ RowFrames
  BY <1>3, <1>5 DEF StartGather, OpenPiece, Grow, ClosePiece, Rank, RowFrames, Fail, cutVars
<1>6. CASE UNCHANGED vars
  BY <1>6 DEF vars, cutVars, PeelInv, sheet
<1>7. QED BY <1>1, <1>2, <1>4, <1>5, <1>6 DEF Next

(* knock_out, whatever order its queue comes to the pixels in, computes    *)
(* the one picture that the scripts which only call it rely on (Cleared of *)
(* Poses): the background of the border gone, and the halo of what is left *)
(* peeled twice.                                                           *)
THEOREM KnockOutIsExact ==
    Spec => [](stage = "cut" /\ sheet.key # "none" => work = KnockedOut(input.im, keys))
<1>1. Init => PeelInv
  BY DEF Init, PeelInv
<1>2. Inv /\ PeelInv /\ [Next]_vars => PeelInv'
  BY PeelNext
<1>3. PeelInv => (stage = "cut" /\ sheet.key # "none" => work = KnockedOut(input.im, keys))
  BY DEF PeelInv
<1>4. QED BY <1>1, <1>2, <1>3, AlwaysInv, PTL DEF Spec

-----------------------------------------------------------------------------
(* Pieces.                                                                 *)

LEMMA AroundIsMutual ==
    ASSUME NEW im, NEW p \in Area(im), NEW q \in Area(im)
    PROVE  q \in Around(p) <=> p \in Around(q)
<1>1. /\ p = <<p[1], p[2]>> /\ p[1] \in Int /\ p[2] \in Int
      /\ q = <<q[1], q[2]>> /\ q[1] \in Int /\ q[2] \in Int
  BY DEF Area, Pixels
<1>2. \A a, b \in Int \X Int :
          b \in Around(a) <=> /\ b # a
                              /\ b[1] \in a[1] - 1 .. a[1] + 1
                              /\ b[2] \in a[2] - 1 .. a[2] + 1
  <2>1. TAKE a, b \in Int \X Int
  <2>2. a = <<a[1], a[2]>> /\ b = <<b[1], b[2]>> /\ a[1] \in Int /\ a[2] \in Int /\ b[1] \in Int /\ b[2] \in Int
    OBVIOUS
  <2>3. QED BY <2>2 DEF Around, Beside
<1>3. p \in Int \X Int /\ q \in Int \X Int
  BY <1>1
<1>4. QED BY <1>1, <1>2, <1>3

(* The piece of a pixel p of the opaque pixels S.                          *)
Whole(S, p) == Linked(S, {p}, Around)

LEMMA WholeIsLeast ==
    ASSUME NEW S, IsFiniteSet(S), NEW p \in S
    PROVE  /\ p \in Whole(S, p) /\ Whole(S, p) \subseteq S
           /\ \A q \in Whole(S, p) : Around(q) \cap S \subseteq Whole(S, p)
           /\ \A T : p \in T /\ (\A q \in T : Around(q) \cap S \subseteq T) => Whole(S, p) \subseteq T
<1>1. LinksAround(S, {p}, Whole(S, p))
  BY LinkedAround DEF Whole
<1>2. {p} \cap S = {p}
  OBVIOUS
<1>3. QED BY <1>1, <1>2 DEF LinksAround

(* The pixels of a piece have one piece.                                   *)
LEMMA WholeIsOne ==
    ASSUME NEW im, NEW S, S \subseteq Area(im), IsFiniteSet(S), NEW p \in S, NEW q \in Whole(S, p)
    PROVE  Whole(S, q) = Whole(S, p)
<1>1. q \in S
  BY WholeIsLeast
<1>2. Whole(S, q) \subseteq Whole(S, p)
  BY <1>1, WholeIsLeast
<1>3. p \in Whole(S, q)
  <2>1. SUFFICES ASSUME p \notin Whole(S, q) PROVE FALSE
    OBVIOUS
  <2> DEFINE T == S \ Whole(S, q)
  <2>2. ASSUME NEW a \in T, NEW b \in Around(a) \cap S
        PROVE  b \in T
    <3>1. a \in Around(b)
      BY <2>2, AroundIsMutual
    <3>2. QED BY <1>1, <2>2, <3>1, WholeIsLeast
  <2>3. p \in T
    BY <2>1
  <2> HIDE DEF T
  <2>4. Whole(S, p) \subseteq T
    BY <2>2, <2>3, WholeIsLeast
  <2>5. q \in Whole(S, q)
    BY <1>1, WholeIsLeast
  <2>6. QED BY <2>4, <2>5 DEF T
<1>4. Whole(S, p) \subseteq Whole(S, q)
  BY <1>1, <1>3, WholeIsLeast
<1>5. QED BY <1>2, <1>4

-----------------------------------------------------------------------------
(* Lists: a sequence with every element of a set once.                     *)

Lists(s, S) ==
    /\ s \in Seq(S) /\ Queued(s) = S
    /\ \A i, j \in 1 .. Len(s) : s[i] = s[j] => i = j

LEMMA ListIsAsLong ==
    ASSUME NEW s, NEW S, Lists(s, S)
    PROVE  IsFiniteSet(S) /\ Cardinality(S) = Len(s)
<1>1. Len(s) \in Nat /\ s \in [1 .. Len(s) -> S]
  BY DEF Lists
<1>2. \A e \in S : \E i \in 1 .. Len(s) : s[i] = e
  BY DEF Lists, Queued
<1>3. s \in Bijection(1 .. Len(s), S)
  BY <1>1, <1>2 DEF Lists, Bijection, Injection, Surjection, IsInjective
<1>4. ExistsBijection(1 .. Len(s), S)
  BY <1>3 DEF ExistsBijection
<1>5. Cardinality(S) = Len(s)
  BY <1>1, <1>4, FS_CountingElements
<1>6. IsFiniteSet(S)
  BY <1>1, <1>4, FS_NatBijection
<1>7. QED BY <1>5, <1>6

(* D[e] is what comes before e in a strict order of all of T.              *)
Ordered(T, D) ==
    /\ \A e \in T : D[e] \subseteq T /\ e \notin D[e]
    /\ \A d, e \in T : d \in D[e] => D[d] \subseteq D[e]
    /\ \A d, e \in T : d = e \/ d \in D[e] \/ e \in D[d]

LEMMA EveryRank ==
    ASSUME NEW T, IsFiniteSet(T), NEW D, Ordered(T, D)
    PROVE  /\ \A d, e \in T : Cardinality(D[d]) = Cardinality(D[e]) => d = e
           /\ \A e \in T : Cardinality(D[e]) \in 0 .. Cardinality(T) - 1
           /\ \A k \in 1 .. Cardinality(T) : \E e \in T : Cardinality(D[e]) = k - 1
<1> DEFINE c == Cardinality(T)
           r == [e \in T |-> Cardinality(D[e])]
<1>1. c \in Nat
  BY FS_CardinalityType
<1>2. \A e \in T : IsFiniteSet(D[e]) /\ Cardinality(D[e]) \in Nat
  BY FS_Subset, FS_CardinalityType DEF Ordered
<1>3. ASSUME NEW e \in T
      PROVE  Cardinality(D[e]) \in 0 .. c - 1
  <2>1. D[e] \in SUBSET T /\ D[e] # T
    BY DEF Ordered
  <2>2. Cardinality(D[e]) <= c /\ Cardinality(D[e]) # c
    BY <2>1, FS_Subset
  <2>3. QED BY <1>1, <1>2, <2>2
<1>4. ASSUME NEW d \in T, NEW e \in T, d \in D[e]
      PROVE  Cardinality(D[d]) # Cardinality(D[e])
  <2>1. D[d] \in SUBSET D[e] /\ D[d] # D[e]
    BY <1>4 DEF Ordered
  <2>2. QED BY <1>2, <2>1, FS_Subset
<1>5. \A d, e \in T : Cardinality(D[d]) = Cardinality(D[e]) => d = e
  BY <1>4 DEF Ordered
<1>6. r \in Injection(T, 0 .. c - 1)
  BY <1>3, <1>5 DEF Injection, IsInjective
<1>7. IsFiniteSet(0 .. c - 1) /\ Cardinality(0 .. c - 1) = c
  <2>1. 0 \in Int /\ c - 1 \in Int
    BY <1>1
  <2> HIDE DEF c
  <2>2. IsFiniteSet(0 .. c - 1) /\ Cardinality(0 .. c - 1) = IF 0 > c - 1 THEN 0 ELSE (c - 1) - 0 + 1
    BY ONLY <2>1, FS_Interval
  <2>3. QED BY <1>1, <2>2
<1>8. r \in Surjection(T, 0 .. c - 1)
  BY <1>6, <1>7, FS_Injection
<1>9. \A n \in 0 .. c - 1 : \E e \in T : Cardinality(D[e]) = n
  BY <1>8 DEF Surjection
<1>10. \A k \in 1 .. c : k - 1 \in 0 .. c - 1
  BY <1>1
<1>11. QED BY <1>3, <1>5, <1>9, <1>10

LEMMA RankedLists ==
    ASSUME NEW T, IsFiniteSet(T), NEW D, Ordered(T, D), NEW s \in [1 .. Cardinality(T) -> T],
           \A k \in 1 .. Cardinality(T) : Cardinality(D[s[k]]) = k - 1
    PROVE  Lists(s, T)
<1>1. Cardinality(T) \in Nat
  BY FS_CardinalityType
<1>2. s \in Seq(T) /\ Len(s) = Cardinality(T)
  BY <1>1
<1>3. Queued(s) \subseteq T
  BY <1>2 DEF Queued
<1>4. ASSUME NEW e \in T PROVE e \in Queued(s)
  <2> DEFINE k == Cardinality(D[e]) + 1
  <2>1. k \in 1 .. Cardinality(T) /\ Cardinality(D[e]) = k - 1
    BY <1>1, EveryRank
  <2>2. s[k] \in T /\ Cardinality(D[s[k]]) = Cardinality(D[e])
    BY <2>1
  <2>3. s[k] = e
    BY <2>2, EveryRank
  <2>4. QED BY <1>2, <2>1, <2>3 DEF Queued
<1>5. \A i, j \in 1 .. Len(s) : s[i] = s[j] => i = j
  <2>1. SUFFICES ASSUME NEW i \in 1 .. Len(s), NEW j \in 1 .. Len(s), s[i] = s[j] PROVE i = j
    OBVIOUS
  <2>2. i - 1 = j - 1
    BY <1>2, <2>1
  <2>3. QED BY <2>2
<1>6. QED BY <1>2, <1>3, <1>4, <1>5 DEF Lists

(* ... in that order.                                                      *)
LEMMA RankedInOrder ==
    ASSUME NEW T, IsFiniteSet(T), NEW D, Ordered(T, D), NEW s, NEW n \in Nat,
           \A k \in 1 .. n : s[k] \in T /\ Cardinality(D[s[k]]) = k - 1,
           NEW i \in 1 .. n, NEW j \in 1 .. n, i < j
    PROVE  s[i] \in D[s[j]]
<1>1. s[i] \in T /\ s[j] \in T /\ Cardinality(D[s[i]]) = i - 1 /\ Cardinality(D[s[j]]) = j - 1
  OBVIOUS
<1>2. s[i] # s[j]
  BY <1>1
<1>3. ASSUME s[j] \in D[s[i]] PROVE FALSE
  <2>1. D[s[j]] \subseteq D[s[i]] /\ D[s[i]] \subseteq T
    BY <1>1, <1>3 DEF Ordered
  <2>2. IsFiniteSet(D[s[i]])
    BY <2>1, FS_Subset
  <2>3. Cardinality(D[s[j]]) <= Cardinality(D[s[i]])
    BY <2>1, <2>2, FS_Subset
  <2>4. QED BY <1>1, <2>3
<1>4. QED BY <1>1, <1>2, <1>3 DEF Ordered

-----------------------------------------------------------------------------
(* The order of the scan.                                                  *)

LEMMA IndexTells ==
    ASSUME NEW im, IsPicture(im), NEW p \in Area(im), NEW q \in Area(im)
    PROVE  Index(im, p) \in Int /\ (Index(im, p) = Index(im, q) => p = q)
<1>1. /\ p = <<p[1], p[2]>> /\ q = <<q[1], q[2]>> /\ im.w \in Nat
      /\ p[1] \in 0 .. im.w - 1 /\ q[1] \in 0 .. im.w - 1 /\ p[2] \in Nat /\ q[2] \in Nat
  BY DEF IsPicture, Area, Pixels
<1>2. \A w, a, b \in Nat : a < b => (a * w) + w <= b * w
  <2>1. TAKE w, a, b \in Nat
  <2>2. HAVE a < b
  <2>3. PICK d \in Nat : b = a + 1 + d
    <3>1. b - (a + 1) \in Nat /\ b = a + 1 + (b - (a + 1))
      BY <2>2
    <3>2. QED BY <3>1
  <2>4. b * w = (a * w) + w + (d * w) /\ d * w \in Nat /\ a * w \in Nat
    BY <2>3
  <2>5. QED BY <2>4
<1>3. \A w, a \in Nat : a * w \in Nat
  OBVIOUS
<1> DEFINE x == p[1]
           y == p[2]
           u == q[1]
           v == q[2]
           w == im.w
<1>4. x \in 0 .. w - 1 /\ u \in 0 .. w - 1 /\ y \in Nat /\ v \in Nat /\ w \in Nat
  BY <1>1
<1>5. Index(im, p) = y * w + x /\ Index(im, q) = v * w + u
  BY DEF Index
<1> HIDE DEF x, y, u, v, w
<1>6. y * w \in Nat /\ v * w \in Nat
  BY <1>3, <1>4
<1>7. (y < v => (y * w) + w <= v * w) /\ (v < y => (v * w) + w <= y * w)
  BY <1>2, <1>4
<1>8. y * w + x = v * w + u => y = v /\ x = u
  <2>1. SUFFICES ASSUME y * w + x = v * w + u PROVE y = v /\ x = u
    OBVIOUS
  <2>2. y = v
    BY <1>4, <1>6, <1>7, <2>1
  <2>3. QED BY <1>4, <1>6, <2>1, <2>2
<1>9. y * w + x \in Int
  BY <1>4, <1>6
<1>10. QED BY <1>1, <1>5, <1>8, <1>9 DEF x, y, u, v

(* The pixels that come before one in the scan.                            *)
LEMMA BeforeOrders ==
    ASSUME IsPicture(work), NEW T, T \subseteq Area(work)
    PROVE  Ordered(T, [e \in T |-> {d \in T : Before(d, e)}])
<1> DEFINE D == [e \in T |-> {d \in T : Before(d, e)}]
<1>1. \A e \in T : D[e] = {d \in T : Index(work, d) < Index(work, e)}
  BY DEF Before
<1>2. /\ \A e \in T : Index(work, e) \in Int
      /\ \A d, e \in T : Index(work, d) = Index(work, e) => d = e
  BY IndexTells
<1> HIDE DEF D
<1>3. Ordered(T, D)
  BY <1>1, <1>2 DEF Ordered
<1>4. QED BY <1>3 DEF D

LEMMA SortedLists ==
    ASSUME IsPicture(work), NEW T, T \subseteq Area(work), IsFiniteSet(T)
    PROVE  Lists(Sorted(T, Before), T)
<1> DEFINE D == [e \in T |-> {d \in T : Before(d, e)}]
           s == Sorted(T, Before)
<1>1. \A e \in T : D[e] = {d \in T : Before(d, e)}
  OBVIOUS
<1>2. Ordered(T, D)
  BY BeforeOrders
<1>3. s = [k \in 1 .. Cardinality(T) |-> CHOOSE e \in T : Cardinality({d \in T : Before(d, e)}) = k - 1]
  BY DEF Sorted
<1> HIDE DEF D, s
<1>4. \A k \in 1 .. Cardinality(T) : \E e \in T : Cardinality(D[e]) = k - 1
  BY <1>2, EveryRank
<1>5. \A k \in 1 .. Cardinality(T) : s[k] \in T /\ Cardinality({d \in T : Before(d, s[k])}) = k - 1
  <2>1. TAKE k \in 1 .. Cardinality(T)
  <2>2. s[k] = CHOOSE e \in T : Cardinality({d \in T : Before(d, e)}) = k - 1
    BY <1>3
  <2>3. PICK e \in T : Cardinality({d \in T : Before(d, e)}) = k - 1
    BY <1>1, <1>4
  <2>4. QED BY <2>2, <2>3
<1>6. s \in [1 .. Cardinality(T) -> T]
  BY <1>3, <1>5
<1>7. \A k \in 1 .. Cardinality(T) : Cardinality(D[s[k]]) = k - 1
  BY <1>1, <1>5
<1>8. Lists(s, T)
  BY <1>2, <1>6, <1>7, RankedLists
<1>9. QED BY <1>8 DEF s

LEMMA FirstOfScan ==
    ASSUME IsPicture(work), NEW T, T \subseteq Area(work), IsFiniteSet(T), T # {}
    PROVE  \E p \in T : \A q \in T \ {p} : Before(p, q)
<1> DEFINE D == [e \in T |-> {d \in T : Before(d, e)}]
<1>1. \A e \in T : D[e] = {d \in T : Before(d, e)}
  OBVIOUS
<1>2. Ordered(T, D)
  BY BeforeOrders
<1> HIDE DEF D
<1>3. Cardinality(T) \in Nat \ {0}
  BY FS_CardinalityType, FS_EmptySet
<1>4. PICK p \in T : Cardinality(D[p]) = 1 - 1
  <2>1. 1 \in 1 .. Cardinality(T)
    BY <1>3
  <2>2. QED BY <1>2, <2>1, EveryRank
<1>5. D[p] = {}
  <2>1. IsFiniteSet(D[p])
    BY <1>2, FS_Subset DEF Ordered
  <2>2. QED BY <1>4, <2>1, FS_EmptySet
<1>6. \A q \in T \ {p} : p \in D[q]
  BY <1>2, <1>5 DEF Ordered
<1>7. QED BY <1>1, <1>6

-----------------------------------------------------------------------------
(* What has been found.                                                    *)

(* Of the opaque pixels S those of M have been met, and ps are the pieces  *)
(* of "least" pixels or more among them: each once, whole, with its area.  *)
Found(S, M, ps, least) ==
    /\ ps \in Seq(ToSet(ps))
    /\ \A i \in 1 .. Len(ps) : /\ ps[i].px \subseteq M /\ ps[i].px # {}
                               /\ \A p \in ps[i].px : Whole(S, p) = ps[i].px
                               /\ ps[i].area = Cardinality(ps[i].px)
                               /\ ps[i].area >= least
    /\ \A i, j \in 1 .. Len(ps) : ps[i].px = ps[j].px => i = j
    /\ \A p \in M : \/ Cardinality(Whole(S, p)) < least
                    \/ \E i \in 1 .. Len(ps) : p \in ps[i].px

LEMMA FoundNothing ==
    ASSUME NEW S, NEW least
    PROVE  Found(S, {}, <<>>, least)
<1>1. <<>> \in Seq(ToSet(<<>>)) /\ 1 .. Len(<<>>) = {}
  OBVIOUS
<1>2. QED BY <1>1 DEF Found

LEMMA AreaIsNumber ==
    ASSUME NEW S, IsFiniteSet(S), NEW M, M \subseteq S, NEW ps, NEW least, Found(S, M, ps, least)
    PROVE  Len(ps) \in Nat /\ \A i \in 1 .. Len(ps) : ps[i].area \in Nat
<1>1. Len(ps) \in Nat
  BY DEF Found
<1>2. ASSUME NEW i \in 1 .. Len(ps) PROVE ps[i].area \in Nat
  <2>1. ps[i].px \in SUBSET S /\ ps[i].area = Cardinality(ps[i].px)
    BY DEF Found
  <2>2. QED BY <2>1, FS_Subset, FS_CardinalityType
<1>3. QED BY <1>1, <1>2

(* The pixels M of a piece W that has been gathered whole.                 *)
LEMMA FoundSkips ==
    ASSUME NEW S, NEW M, NEW W, NEW ps, NEW least, Found(S, M, ps, least),
           \A p \in W : Whole(S, p) = W, Cardinality(W) < least
    PROVE  Found(S, M \cup W, ps, least)
  BY DEF Found

LEMMA FoundAdds ==
    ASSUME NEW S, NEW M, NEW W, NEW ps, NEW least, Found(S, M, ps, least),
           W # {}, M \cap W = {}, \A p \in W : Whole(S, p) = W,
           NEW part, part.px = W, part.area = Cardinality(W), part.area >= least
    PROVE  Found(S, M \cup W, Append(ps, part), least)
<1> DEFINE new == Append(ps, part)
<1>1. ps \in Seq(ToSet(ps)) /\ Len(ps) \in Nat
  BY DEF Found
<1>2. /\ new \in Seq(ToSet(ps) \cup {part}) /\ Len(new) = Len(ps) + 1
      /\ \A i \in 1 .. Len(ps) : new[i] = ps[i]
      /\ new[Len(ps) + 1] = part
  BY <1>1
<1> HIDE DEF new
<1>3. new \in Seq(ToSet(new))
  BY <1>2, ItsOwnSet
<1>4. \A i \in 1 .. Len(new) : i \in 1 .. Len(ps) \/ i = Len(ps) + 1
  BY <1>1, <1>2
<1>5. \A i \in 1 .. Len(ps) : i \in 1 .. Len(new) /\ new[i].px = ps[i].px /\ new[i].px # W
  <2>1. \A i \in 1 .. Len(ps) : ps[i].px \subseteq M /\ ps[i].px # {}
    BY DEF Found
  <2>2. QED BY <1>1, <1>2, <2>1
<1>6. Len(ps) + 1 \in 1 .. Len(new)
  BY <1>1, <1>2
<1>7. \A i \in 1 .. Len(new) : /\ new[i].px \subseteq M \cup W /\ new[i].px # {}
                               /\ \A p \in new[i].px : Whole(S, p) = new[i].px
                               /\ new[i].area = Cardinality(new[i].px)
                               /\ new[i].area >= least
  BY <1>2, <1>4 DEF Found
<1>8. \A i, j \in 1 .. Len(new) : new[i].px = new[j].px => i = j
  BY <1>2, <1>4, <1>5 DEF Found
<1>9. ASSUME NEW p \in M \cup W
      PROVE  \/ Cardinality(Whole(S, p)) < least
             \/ \E i \in 1 .. Len(new) : p \in new[i].px
  <2>1. CASE p \in W
    BY <1>2, <1>6, <2>1
  <2>2. CASE p \in M
    BY <1>5, <2>2 DEF Found
  <2>3. QED BY <1>9, <2>1, <2>2
<1>10. Found(S, M \cup W, new, least)
  BY <1>3, <1>7, <1>8, <1>9 DEF Found
<1>11. QED BY <1>10 DEF new

LEMMA FoundInOrder ==
    ASSUME NEW S, NEW M, NEW ps, NEW least, Found(S, M, ps, least),
           NEW order, Lists(order, 1 .. Len(ps)), NEW qs,
           qs = [k \in DOMAIN ps |-> qs[k]], \A k \in 1 .. Len(ps) : qs[k] = ps[order[k]]
    PROVE  Found(S, M, qs, least)
<1>1. Len(ps) \in Nat /\ DOMAIN ps = 1 .. Len(ps)
  BY DEF Found
<1>2. Len(order) = Len(ps)
  <2>1. Cardinality(1 .. Len(ps)) = Len(ps)
    <3>1. 1 \in Int /\ Len(ps) \in Int
      BY <1>1
    <3>2. Cardinality(1 .. Len(ps)) = IF 1 > Len(ps) THEN 0 ELSE Len(ps) - 1 + 1
      BY ONLY <3>1, FS_Interval
    <3>3. QED BY <1>1, <3>2
  <2>2. QED BY <2>1, ListIsAsLong
<1>3. /\ \A k \in 1 .. Len(ps) : order[k] \in 1 .. Len(ps)
      /\ \A k, l \in 1 .. Len(ps) : order[k] = order[l] => k = l
      /\ \A i \in 1 .. Len(ps) : \E k \in 1 .. Len(ps) : order[k] = i
  BY <1>2 DEF Lists, Queued
<1>4. \A k \in 1 .. Len(ps) : qs[k] \in ToSet(ps)
  BY <1>1, <1>3 DEF ToSet
<1>5. qs \in Seq(ToSet(ps)) /\ Len(qs) = Len(ps)
  <2>1. qs \in [1 .. Len(ps) -> ToSet(ps)]
    BY <1>1, <1>4
  <2>2. QED BY <1>1, <2>1
<1>6. qs \in Seq(ToSet(qs))
  BY <1>5, ItsOwnSet
<1>7. \A k \in 1 .. Len(ps) : qs[k] = ps[order[k]] /\ order[k] \in 1 .. Len(ps)
  BY <1>3
<1>8. \A i \in 1 .. Len(qs) : /\ qs[i].px \subseteq M /\ qs[i].px # {}
                              /\ \A p \in qs[i].px : Whole(S, p) = qs[i].px
                              /\ qs[i].area = Cardinality(qs[i].px)
                              /\ qs[i].area >= least
  <2>1. TAKE i \in 1 .. Len(qs)
  <2>2. order[i] \in 1 .. Len(ps) /\ qs[i] = ps[order[i]]
    BY <1>5, <1>7
  <2>3. QED BY <2>2 DEF Found
<1>9. \A i, j \in 1 .. Len(qs) : qs[i].px = qs[j].px => i = j
  <2>1. \A i, j \in 1 .. Len(ps) : ps[i].px = ps[j].px => i = j
    BY DEF Found
  <2>2. TAKE i, j \in 1 .. Len(qs)
  <2>3. HAVE qs[i].px = qs[j].px
  <2>4. /\ i \in 1 .. Len(ps) /\ qs[i] = ps[order[i]] /\ order[i] \in 1 .. Len(ps)
        /\ j \in 1 .. Len(ps) /\ qs[j] = ps[order[j]] /\ order[j] \in 1 .. Len(ps)
    BY <1>5, <1>7
  <2>5. order[i] = order[j]
    BY <2>1, <2>3, <2>4
  <2>6. QED BY <1>3, <2>4, <2>5
<1>10. ASSUME NEW p \in M
       PROVE  \/ Cardinality(Whole(S, p)) < least
              \/ \E i \in 1 .. Len(qs) : p \in qs[i].px
  <2>1. ASSUME NEW i \in 1 .. Len(ps), p \in ps[i].px
        PROVE  \E k \in 1 .. Len(qs) : p \in qs[k].px
    <3>1. PICK k \in 1 .. Len(ps) : order[k] = i
      BY <1>3
    <3>2. QED BY <1>5, <1>7, <2>1, <3>1
  <2>2. QED BY <2>1 DEF Found
<1>11. QED BY <1>6, <1>8, <1>9, <1>10 DEF Found

(* Everything has been met.                                                *)
LEMMA FoundAll ==
    ASSUME NEW S, NEW ps, NEW least \in Nat, Found(S, S, ps, least), IsFiniteSet(S), NEW p \in S
    PROVE  LET holds == {i \in DOMAIN ps : p \in ps[i].px}
           IN  IF Cardinality(Whole(S, p)) < least THEN holds = {}
               ELSE \E i \in DOMAIN ps : /\ holds = {i}
                                         /\ ps[i].px = Whole(S, p)
                                         /\ ps[i].area = Cardinality(Whole(S, p))
<1>1. DOMAIN ps = 1 .. Len(ps)
  BY DEF Found
<1>2. Cardinality(Whole(S, p)) \in Nat
  BY WholeIsLeast, FS_Subset, FS_CardinalityType
<1>3. \A i \in DOMAIN ps : p \in ps[i].px => /\ ps[i].px = Whole(S, p)
                                             /\ ps[i].area = Cardinality(Whole(S, p))
                                             /\ ps[i].area >= least
  BY <1>1 DEF Found
<1>4. \A i, j \in DOMAIN ps : p \in ps[i].px /\ p \in ps[j].px => i = j
  BY <1>1, <1>3 DEF Found
<1>5. CASE Cardinality(Whole(S, p)) < least
  BY <1>2, <1>3, <1>5
<1>6. CASE ~(Cardinality(Whole(S, p)) < least)
  <2>1. PICK i \in DOMAIN ps : p \in ps[i].px
    BY <1>1, <1>6 DEF Found
  <2>2. {j \in DOMAIN ps : p \in ps[j].px} = {i}
    BY <1>4, <2>1
  <2>3. QED BY <1>3, <1>6, <2>1, <2>2
<1>7. QED BY <1>5, <1>6

-----------------------------------------------------------------------------
(* Every step of the queue of the pieces.                                  *)

(* Of the pixels S those of "met" have been met, pc is the piece that is   *)
(* being gathered and hd of it have been looked around: what they touch is *)
(* on it, what was met before it is closed, and it is part of one piece.   *)
Gathering(S, met, pc, hd) ==
    /\ met \subseteq S /\ Queued(pc) \subseteq met
    /\ Lists(pc, Queued(pc)) /\ hd \in 0 .. Len(pc)
    /\ \A i \in 1 .. hd : Around(pc[i]) \cap S \subseteq Queued(pc)
    /\ \A p \in met \ Queued(pc) : Around(p) \cap S \subseteq met \ Queued(pc)
    /\ pc # <<>> => Queued(pc) \subseteq Whole(S, pc[1])

Untouched == seen = {} /\ piece = <<>> /\ head = 0 /\ parts = <<>>

PieceInv ==
    /\ input \in Inputs /\ IsPicture(work)
    /\ stage \in {"load", "flood"} \cup Fringing => Untouched
    /\ stage = "gather" => /\ Gathering(work.on, seen, piece, head)
                           /\ Found(work.on, seen \ Queued(piece), parts, Least)
    /\ stage = "ranked" => Found(work.on, work.on, parts, Least)

LEMMA LeastIsNumber == input \in Inputs => Least \in Nat \ {0}
  BY SlicerAssumption DEF Least

LEMMA QueuedNothing == Queued(<<>>) = {} /\ \A p : Queued(<<p>>) = {p}
  BY DEF Queued

LEMMA WithoutPicture ==
    ASSUME NEW im, IsPicture(im), NEW X
    PROVE  IsPicture(Without(im, X)) /\ Without(im, X).on = im.on \ X
<1>1. im = [w |-> im.w, h |-> im.h, rgb |-> im.rgb, on |-> im.on]
  BY DEF IsPicture
<1>2. Without(im, X) = [w |-> im.w, h |-> im.h, rgb |-> im.rgb, on |-> im.on \ X]
  BY <1>1 DEF Without
<1> DEFINE new == Without(im, X)
<1>3. /\ new.w = im.w /\ new.h = im.h /\ new.rgb = im.rgb /\ new.on = im.on \ X
      /\ new = [w |-> new.w, h |-> new.h, rgb |-> new.rgb, on |-> new.on]
  BY <1>2
<1> HIDE DEF new
<1>4. IsPicture(new)
  BY <1>3 DEF IsPicture, Area
<1>5. QED BY <1>3, <1>4 DEF new

LEMMA OnIsFinite ==
    ASSUME NEW im, IsPicture(im)
    PROVE  im.on \subseteq Area(im) /\ IsFiniteSet(im.on)
<1>1. im.on \in SUBSET Area(im)
  BY DEF IsPicture
<1>2. QED BY <1>1, AreaIsFinite, FS_Subset

LEMMA OpenGathers ==
    ASSUME PieceInv, OpenPiece
    PROVE  PieceInv'
<1> DEFINE on == work.on
           start == CHOOSE p \in Unmet : \A q \in Unmet \ {p} : Before(p, q)
<1>1. /\ stage = "gather" /\ piece = <<>> /\ Unmet # {}
      /\ piece' = <<start>> /\ seen' = seen \cup {start}
      /\ UNCHANGED <<work, stage, head, parts, input>>
  BY DEF OpenPiece, cutVars
<1>2. IsPicture(work) /\ on \subseteq Area(work) /\ IsFiniteSet(on)
  BY OnIsFinite DEF PieceInv
<1>3. start \in on \ seen
  <2>1. Unmet \in SUBSET on
    BY DEF Unmet
  <2>2. IsFiniteSet(Unmet)
    BY <1>2, <2>1, FS_Subset
  <2>3. \E p \in Unmet : \A q \in Unmet \ {p} : Before(p, q)
    BY <1>1, <1>2, <2>1, <2>2, FirstOfScan
  <2>4. start \in Unmet
    BY <2>3
  <2>5. QED BY <2>4 DEF Unmet
<1> HIDE DEF start
<1>4. /\ Gathering(on, seen, piece, head) /\ Found(on, seen, parts, Least)
      /\ seen \ Queued(piece) = seen
  BY <1>1, QueuedNothing DEF PieceInv
<1>5. head = 0
  BY <1>1, <1>4 DEF Gathering
<1>6. Lists(<<start>>, {start})
  BY QueuedNothing DEF Lists
<1>7. seen' \ Queued(piece') = seen /\ Queued(piece') = {start}
  BY <1>1, <1>3, QueuedNothing
<1>8. start \in Whole(on, start)
  BY <1>2, <1>3, WholeIsLeast
<1>9. /\ seen' \subseteq on /\ Lists(piece', Queued(piece')) /\ Len(piece') = 1 /\ piece'[1] = start
      /\ \A p \in seen : Around(p) \cap on \subseteq seen
  BY <1>1, <1>3, <1>4, <1>6, <1>7 DEF Gathering
<1>10. head' \in 0 .. Len(piece') /\ 1 .. head' = {}
  BY <1>1, <1>5, <1>9
<1>11. Gathering(on, seen', piece', head')
  BY <1>1, <1>7, <1>8, <1>9, <1>10 DEF Gathering
<1>12. Least' = Least
  BY <1>1 DEF Least, InRow, sheet
<1>13. Found(on, seen' \ Queued(piece'), parts', Least')
  BY <1>1, <1>4, <1>7, <1>12
<1>14. QED BY <1>1, <1>2, <1>11, <1>13 DEF PieceInv, Fringing

LEMMA GrowGathers ==
    ASSUME PieceInv, Grow
    PROVE  PieceInv'
<1> DEFINE on == work.on
           k == head + 1
           new == Around(piece[k]) \cap Unmet
           s == Sorted(new, Before)
           pc == piece \o s
<1>1. /\ stage = "gather" /\ head < Len(piece)
      /\ piece' = pc /\ seen' = seen \cup new /\ head' = k
      /\ UNCHANGED <<work, stage, parts, input>>
  BY DEF Grow, cutVars
<1>2. IsPicture(work) /\ on \subseteq Area(work) /\ IsFiniteSet(on)
  BY OnIsFinite DEF PieceInv
<1>3. Gathering(on, seen, piece, head) /\ Found(on, seen \ Queued(piece), parts, Least)
  BY <1>1 DEF PieceInv
<1>4. /\ piece \in Seq(Queued(piece)) /\ Len(piece) \in Nat /\ head \in Nat /\ k \in 1 .. Len(piece)
      /\ Queued(piece) \subseteq on
      /\ piece[k] \in Queued(piece) /\ piece[1] \in Queued(piece) /\ piece # <<>>
  <2>1. piece \in Seq(Queued(piece)) /\ head \in 0 .. Len(piece) /\ Queued(piece) \subseteq on
    BY <1>3 DEF Gathering, Lists
  <2>2. Len(piece) \in Nat /\ k \in 1 .. Len(piece) /\ 1 \in 1 .. Len(piece)
    BY <1>1, <2>1
  <2>3. QED BY <2>1, <2>2 DEF Queued
<1>5. new \subseteq on \ seen /\ new = (Around(piece[k]) \cap on) \ seen
  BY DEF Unmet
<1> HIDE DEF new
<1>6. Lists(s, new)
  <2>1. new \in SUBSET on
    BY <1>5
  <2>2. new \subseteq Area(work) /\ IsFiniteSet(new)
    BY <1>2, <2>1, FS_Subset
  <2>3. QED BY <1>2, <2>2, SortedLists
<1> HIDE DEF s
<1>7. s \in Seq(new) /\ Queued(s) = new /\ Len(s) \in Nat
  BY <1>6 DEF Lists
<1>8. /\ pc \in Seq(Queued(piece) \cup new) /\ Queued(pc) = Queued(piece) \cup new
      /\ Len(pc) = Len(piece) + Len(s)
      /\ \A i \in 1 .. Len(piece) : pc[i] = piece[i]
      /\ \A i \in 1 .. Len(s) : pc[Len(piece) + i] = s[i]
  <2>1. piece \in Seq(Queued(piece) \cup new) /\ s \in Seq(Queued(piece) \cup new)
    BY <1>4, <1>7
  <2>2. Queued(pc) = Queued(piece) \cup Queued(s)
    BY <2>1, QueuedAppend
  <2>3. QED BY <1>4, <1>7, <2>2, Joined
<1> HIDE DEF pc
<1>9. Lists(pc, Queued(pc))
  <2>1. \A i \in 1 .. Len(piece) : pc[i] \in seen
    BY <1>3, <1>8 DEF Gathering, Queued
  <2>2. \A i \in 1 .. Len(s) : pc[Len(piece) + i] \notin seen
    BY <1>5, <1>7, <1>8 DEF Queued
  <2>3. ASSUME NEW i \in 1 .. Len(pc), NEW j \in 1 .. Len(pc), pc[i] = pc[j]
        PROVE  i = j
    <3>1. CASE i \in 1 .. Len(piece) /\ j \in 1 .. Len(piece)
      <4>1. piece[i] = piece[j]
        BY <1>8, <2>3, <3>1
      <4>2. QED BY <1>3, <3>1, <4>1 DEF Gathering, Lists
    <3>2. CASE i \notin 1 .. Len(piece) /\ j \notin 1 .. Len(piece)
      <4>1. i - Len(piece) \in 1 .. Len(s) /\ j - Len(piece) \in 1 .. Len(s)
        BY <1>4, <1>7, <1>8, <3>2
      <4>2. Len(piece) + (i - Len(piece)) = i /\ Len(piece) + (j - Len(piece)) = j
        BY <1>4, <1>8
      <4>3. s[i - Len(piece)] = s[j - Len(piece)]
        BY <1>8, <2>3, <4>1, <4>2
      <4>4. i - Len(piece) = j - Len(piece)
        BY <1>6, <4>1, <4>3 DEF Lists
      <4>5. QED BY <4>2, <4>4
    <3>3. ASSUME NEW m \in 1 .. Len(pc), m \notin 1 .. Len(piece)
          PROVE  pc[m] \notin seen
      <4>1. m - Len(piece) \in 1 .. Len(s) /\ Len(piece) + (m - Len(piece)) = m
        BY <1>4, <1>7, <1>8, <3>3
      <4>2. pc[Len(piece) + (m - Len(piece))] \notin seen
        BY <2>2, <4>1
      <4>3. QED BY <4>1, <4>2
    <3>4. QED BY <2>1, <2>3, <3>1, <3>2, <3>3
  <2>4. QED BY <1>8, <2>3 DEF Lists
<1>10. seen' \ Queued(pc) = seen \ Queued(piece)
  BY <1>1, <1>5, <1>8
<1>11. Around(piece[k]) \cap on \subseteq Queued(pc)
  <2>1. SUFFICES ASSUME NEW q \in Around(piece[k]) \cap on, q \in seen \ Queued(piece) PROVE FALSE
    BY <1>5, <1>8
  <2>2. piece[k] \in Around(q)
    BY <1>2, <1>4, AroundIsMutual
  <2>3. piece[k] \in seen \ Queued(piece)
    BY <1>3, <1>4, <2>1, <2>2 DEF Gathering
  <2>4. QED BY <1>4, <2>3
<1>12. \A i \in 1 .. k : Around(pc[i]) \cap on \subseteq Queued(pc)
  <2>1. TAKE i \in 1 .. k
  <2>2. pc[i] = piece[i] /\ (i = k \/ i \in 1 .. head)
    BY <1>4, <1>8
  <2>3. QED BY <1>3, <1>8, <1>11, <2>2 DEF Gathering
<1>13. Queued(pc) \subseteq Whole(on, pc[1])
  <2>1. pc[1] = piece[1] /\ Queued(piece) \subseteq Whole(on, piece[1]) /\ piece[1] \in on
    BY <1>3, <1>4, <1>8 DEF Gathering
  <2>2. Around(piece[k]) \cap on \subseteq Whole(on, piece[1])
    BY <1>2, <1>4, <2>1, WholeIsLeast
  <2>3. QED BY <1>5, <1>8, <2>1, <2>2
<1>14. /\ seen' \subseteq on /\ Queued(pc) \subseteq seen' /\ k \in 0 .. Len(pc)
       /\ \A p \in seen \ Queued(piece) : Around(p) \cap on \subseteq seen \ Queued(piece)
  BY <1>1, <1>3, <1>4, <1>5, <1>7, <1>8 DEF Gathering
<1>15. Gathering(on, seen', pc, k)
  BY <1>9, <1>10, <1>12, <1>13, <1>14 DEF Gathering
<1>16. Least' = Least
  BY <1>1 DEF Least, InRow, sheet
<1>17. Found(on, seen' \ Queued(pc), parts, Least)
  BY <1>3, <1>10
<1>18. work' = work /\ stage' = "gather" /\ parts' = parts /\ input' = input /\ piece' = pc /\ head' = k
  BY <1>1
<1>19. QED BY <1>2, <1>15, <1>16, <1>17, <1>18 DEF PieceInv, Fringing

LEMMA CloseFinds ==
    ASSUME PieceInv, ClosePiece
    PROVE  PieceInv'
<1> DEFINE on == work.on
           W == Queued(piece)
           M == seen \ W
<1>1. /\ stage = "gather" /\ piece # <<>> /\ head = Len(piece)
      /\ parts' = IF Len(piece) >= Least THEN Append(parts, Part(piece)) ELSE parts
      /\ piece' = <<>> /\ head' = 0
      /\ UNCHANGED <<work, stage, seen, input>>
  BY DEF ClosePiece, cutVars
<1>2. IsPicture(work) /\ on \subseteq Area(work) /\ IsFiniteSet(on)
  BY OnIsFinite DEF PieceInv
<1>3. Gathering(on, seen, piece, head) /\ Found(on, M, parts, Least)
  BY <1>1 DEF PieceInv
<1>4. /\ Lists(piece, W) /\ W \subseteq seen /\ seen \subseteq on /\ Len(piece) \in Nat \ {0}
      /\ piece[1] \in W
  <2>1. Lists(piece, W) /\ W \subseteq seen /\ seen \subseteq on
    BY <1>3 DEF Gathering
  <2>2. Len(piece) \in Nat \ {0}
    BY <1>1, <2>1 DEF Lists
  <2>3. 1 \in 1 .. Len(piece)
    BY <2>2
  <2>4. QED BY <2>1, <2>2, <2>3 DEF Queued
<1>5. Cardinality(W) = Len(piece)
  BY <1>4, ListIsAsLong
<1>6. \A p \in W : Around(p) \cap on \subseteq W
  BY <1>1, <1>3 DEF Gathering, Queued
<1>7. Whole(on, piece[1]) = W
  <2>1. piece[1] \in on /\ W \subseteq Whole(on, piece[1])
    BY <1>1, <1>3, <1>4 DEF Gathering
  <2>2. Whole(on, piece[1]) \subseteq W
    <3> HIDE DEF W
    <3>1. QED BY <1>2, <1>4, <1>6, <2>1, WholeIsLeast
  <2>3. QED BY <2>1, <2>2
<1>8. \A p \in W : Whole(on, p) = W
  <2>1. TAKE p \in W
  <2>2. piece[1] \in on /\ p \in Whole(on, piece[1])
    BY <1>4, <1>7
  <2>3. Whole(on, p) = Whole(on, piece[1])
    BY <1>2, <2>2, WholeIsOne
  <2>4. QED BY <1>7, <2>3
<1>9. M \cup W = seen /\ M \cap W = {} /\ W # {}
  BY <1>4
<1>10. Least \in Nat \ {0} /\ Least' = Least
  BY <1>1, LeastIsNumber DEF PieceInv, Least, InRow, sheet
<1> HIDE DEF W, M
<1>11. Found(on, seen, parts', Least)
  <2>1. CASE Len(piece) >= Least
    <3>1. Part(piece).px = W /\ Part(piece).area = Len(piece)
      BY <1>4 DEF Part, ToSet, Queued, W, Lists
    <3>2. parts' = Append(parts, Part(piece))
      BY <1>1, <2>1
    <3>3. Found(on, M \cup W, Append(parts, Part(piece)), Least)
      BY <1>3, <1>5, <1>8, <1>9, <2>1, <3>1, FoundAdds
    <3>4. QED BY <1>9, <3>2, <3>3
  <2>2. CASE ~(Len(piece) >= Least)
    <3>1. Cardinality(W) < Least /\ parts' = parts
      BY <1>1, <1>4, <1>5, <1>10, <2>2
    <3>2. Found(on, M \cup W, parts, Least)
      BY <1>3, <1>8, <3>1, FoundSkips
    <3>3. QED BY <1>9, <3>1, <3>2
  <2>3. QED BY <2>1, <2>2
<1>12. seen \ Queued(piece') = seen /\ Queued(piece') = {}
  BY <1>1, QueuedNothing
<1>13. Gathering(on, seen, piece', head')
  <2>1. Lists(<<>>, {}) /\ Len(<<>>) = 0
    BY QueuedNothing DEF Lists
  <2>2. head' \in 0 .. Len(piece') /\ 1 .. head' = {}
    BY <1>1, <2>1
  <2>3. \A p \in seen : Around(p) \cap on \subseteq seen
    BY <1>3, <1>4, <1>6, <1>9 DEF Gathering, M, W
  <2>4. QED BY <1>1, <1>4, <1>12, <2>1, <2>2, <2>3 DEF Gathering
<1>14. work' = work /\ stage' = "gather" /\ seen' = seen /\ input' = input
  BY <1>1
<1>15. QED BY <1>2, <1>10, <1>11, <1>12, <1>13, <1>14 DEF PieceInv, Fringing

LEMMA RankOrders ==
    ASSUME PieceInv, Rank
    PROVE  PieceInv'
<1> DEFINE on == work.on
           first(i, j) == \/ parts[i].area > parts[j].area
                          \/ (parts[i].area = parts[j].area /\ i < j)
           order == Sorted(DOMAIN parts, first)
<1>1. /\ stage = "gather" /\ piece = <<>> /\ Unmet = {} /\ stage' = "ranked"
      /\ parts' = [k \in DOMAIN parts |-> parts[order[k]]]
      /\ UNCHANGED <<work, input>>
  BY DEF Rank
<1>2. IsPicture(work) /\ on \subseteq Area(work) /\ IsFiniteSet(on)
  BY OnIsFinite DEF PieceInv
<1>3. Gathering(on, seen, piece, head) /\ Found(on, seen \ Queued(piece), parts, Least)
  BY <1>1 DEF PieceInv
<1>4. seen \ Queued(piece) = on
  <2>1. seen \subseteq on
    BY <1>3 DEF Gathering
  <2>2. QED BY <1>1, <2>1, QueuedNothing DEF Unmet
<1>5. Found(on, on, parts, Least)
  BY <1>3, <1>4
<1>6. DOMAIN parts = 1 .. Len(parts) /\ Len(parts) \in Nat
  BY <1>5 DEF Found
<1>7. \A i \in 1 .. Len(parts) : parts[i].area \in Nat
  BY <1>2, <1>5, AreaIsNumber
<1>8. Lists(order, 1 .. Len(parts))
  <2> DEFINE T == 1 .. Len(parts)
             D == [e \in T |-> {d \in T : first(d, e)}]
  <2>1. IsFiniteSet(T)
    <3>1. 1 \in Int /\ Len(parts) \in Int
      BY <1>6
    <3>2. QED BY ONLY <3>1, FS_Interval
  <2>2. \A e \in T : D[e] = {d \in T : first(d, e)}
    OBVIOUS
  <2>3. order = [k \in 1 .. Cardinality(T) |->
                    CHOOSE e \in T : Cardinality({d \in T : first(d, e)}) = k - 1]
    BY <1>6 DEF Sorted
  <2> HIDE DEF D, order
  <2>4. Ordered(T, D)
    <3>1. /\ \A i, j, k \in T : first(i, j) /\ first(j, k) => first(i, k)
          /\ \A i \in T : ~first(i, i)
          /\ \A i, j \in T : i = j \/ first(i, j) \/ first(j, i)
      BY <1>6, <1>7
    <3> HIDE DEF first, T
    <3>2. QED BY <2>2, <3>1 DEF Ordered
  <2> HIDE DEF T, first
  <2>5. \A k \in 1 .. Cardinality(T) : \E e \in T : Cardinality(D[e]) = k - 1
    BY <2>1, <2>4, EveryRank
  <2>6. \A k \in 1 .. Cardinality(T) :
            order[k] \in T /\ Cardinality({d \in T : first(d, order[k])}) = k - 1
    <3>1. TAKE k \in 1 .. Cardinality(T)
    <3>2. order[k] = CHOOSE e \in T : Cardinality({d \in T : first(d, e)}) = k - 1
      BY <2>3
    <3>3. PICK e \in T : Cardinality({d \in T : first(d, e)}) = k - 1
      BY <2>2, <2>5
    <3>4. QED BY <3>2, <3>3
  <2>7. order \in [1 .. Cardinality(T) -> T]
    BY <2>3, <2>6
  <2>8. \A k \in 1 .. Cardinality(T) : Cardinality(D[order[k]]) = k - 1
    BY <2>2, <2>6
  <2>9. Lists(order, T)
    BY <2>1, <2>4, <2>7, <2>8, RankedLists
  <2>10. QED BY <2>9 DEF T
<1> HIDE DEF order
<1>9. Found(on, on, parts', Least)
  <2>1. parts' = [k \in DOMAIN parts |-> parts'[k]] /\ \A k \in 1 .. Len(parts) : parts'[k] = parts[order[k]]
    BY <1>1, <1>6
  <2>2. QED BY <1>5, <1>8, <2>1, FoundInOrder
<1>10. Least' = Least
  BY <1>1 DEF Least, InRow, sheet
<1>11. QED BY <1>1, <1>2, <1>9, <1>10 DEF PieceInv, Fringing

LEMMA PieceInit == Init => PieceInv
  BY SlicerAssumption DEF Init, PieceInv, Untouched, Fringing

(* A step that neither gathers nor ranks.                                  *)
LEMMA ElsewherePieces ==
    ASSUME PieceInv, UNCHANGED input,
           work' = work \/ work' = input.im \/ (\E X : work' = Without(work, X)),
           \/ stage' \in {"framed", "done", "failed"}
           \/ /\ stage \in {"load", "flood"} \cup Fringing
              /\ stage' \in {"load", "flood"} \cup Fringing
              /\ UNCHANGED gatherVars
    PROVE  PieceInv'
<1>1. IsPicture(work')
  BY WithoutPicture, SlicerAssumption DEF PieceInv
<1>2. stage' \in {"load", "flood"} \cup Fringing => Untouched'
  BY DEF PieceInv, Untouched, gatherVars, Fringing
<1>3. stage' # "gather" /\ stage' # "ranked"
  BY DEF Fringing
<1>4. QED BY <1>1, <1>2, <1>3 DEF PieceInv, Fringing

LEMMA PieceNext ==
    ASSUME PieceInv, [Next]_vars
    PROVE  PieceInv'
<1>1. CASE Load
  <2>1. UNCHANGED <<input, gatherVars>> /\ stage = "load"
    BY <1>1 DEF Load
  <2>2. work' = work \/ work' = input.im
    BY <1>1 DEF Load, KnockOut
  <2>3. stage' \in {"flood", "cut"}
    BY <1>1 DEF Load, KnockOut
  <2>4. QED BY <2>1, <2>2, <2>3, ElsewherePieces DEF Fringing
<1>2. CASE CutOut
  <2>1. UNCHANGED <<input, gatherVars>> /\ stage \in {"flood"} \cup Fringing
    BY <1>2 DEF CutOut, Cut, Pass, Mark, Flooded, Fringe, Fringing
  <2>2. work' = work \/ (\E X : work' = Without(work, X))
    BY <1>2 DEF CutOut, Cut, Pass, Mark, Flooded, Fringe
  <2>3. stage' \in {"flood"} \cup Fringing
    BY <1>2 DEF CutOut, Cut, Pass, Mark, Flooded, Fringe, Fringing
  <2>4. QED BY <2>1, <2>2, <2>3, ElsewherePieces
<1>3. CASE BadKey \/ BadMode \/ Plate \/ Strip \/ Variants \/ Still \/ RowFrames
  <2>1. UNCHANGED <<input, work>>
    BY <1>3 DEF BadKey, BadMode, Plate, Strip, Variants, Still, RowFrames
  <2>2. stage' \in {"framed", "done", "failed"}
    BY <1>3 DEF BadKey, BadMode, Plate, Strip, Variants, Still, RowFrames, Answer, Fail
  <2>3. QED BY <2>1, <2>2, ElsewherePieces
<1>4. CASE Largest
  <2>1. UNCHANGED input /\ stage' \in {"framed", "done", "failed"}
    BY <1>4 DEF Largest, Answer, Fail
  <2>2. work' = work \/ (\E X : work' = Without(work, X))
    BY <1>4 DEF Largest, KeepLargest
  <2>3. QED BY <2>1, <2>2, ElsewherePieces
<1>5. CASE StartGather
  <2>1. /\ stage = "cut" /\ stage' = "gather" /\ UNCHANGED <<gatherVars, input>>
        /\ work' = work \/ (\E X : work' = Without(work, X))
    BY <1>5 DEF StartGather
  <2>2. IsPicture(work') /\ Untouched
    BY <2>1, WithoutPicture DEF PieceInv, Fringing
  <2>3. seen' = {} /\ piece' = <<>> /\ head' = 0 /\ parts' = <<>>
    BY <2>1, <2>2 DEF Untouched, gatherVars
  <2>4. Lists(<<>>, {}) /\ Len(<<>>) = 0 /\ Queued(<<>>) = {}
    BY QueuedNothing DEF Lists
  <2>5. head' \in 0 .. Len(piece') /\ 1 .. head' = {}
    BY <2>3, <2>4
  <2>6. Gathering(work'.on, seen', piece', head')
    BY <2>3, <2>4, <2>5 DEF Gathering
  <2>7. seen' \ Queued(piece') = {}
    BY <2>3
  <2>8. Found(work'.on, seen' \ Queued(piece'), parts', Least')
    BY <2>3, <2>7, FoundNothing
  <2>9. input' \in Inputs
    BY <2>1 DEF PieceInv
  <2>10. QED BY <2>1, <2>2, <2>6, <2>8, <2>9 DEF PieceInv, Fringing
<1>6. CASE UNCHANGED vars
  BY <1>6 DEF vars, cutVars, gatherVars, PieceInv, Untouched, Gathering, Found, Least, InRow, sheet
<1>7. QED
  BY <1>1, <1>2, <1>3, <1>4, <1>5, <1>6, OpenGathers, GrowGathers, CloseFinds, RankOrders DEF Next

LEMMA AlwaysPieces == Spec => []PieceInv
  BY PieceInit, PieceNext, PTL DEF Spec

(* When the pieces are ranked, every piece of the picture that is large    *)
(* enough is listed once, whole and with its true area, and the specks are *)
(* not: the queue of slice_cast counts what it marks once, on a sheet of   *)
(* any size with any drawing on it.                                        *)
THEOREM PiecesFound == Spec => []PiecesExact
<1>1. PieceInv => PiecesExact
  <2>1. SUFFICES ASSUME PieceInv, stage = "ranked", NEW p \in work.on
        PROVE  LET whole == Linked(work.on, {p}, Around)
                   holds == {i \in DOMAIN parts : p \in parts[i].px}
               IN  IF Cardinality(whole) < Least THEN holds = {}
                   ELSE \E i \in DOMAIN parts : /\ holds = {i}
                                                /\ parts[i].px = whole
                                                /\ parts[i].area = Cardinality(whole)
    BY DEF PiecesExact
  <2>2. Found(work.on, work.on, parts, Least) /\ IsFiniteSet(work.on) /\ Least \in Nat
    BY <2>1, OnIsFinite, LeastIsNumber DEF PieceInv
  <2>3. QED BY <2>1, <2>2, FoundAll DEF Whole
<1>2. QED BY <1>1, AlwaysPieces, PTL

-----------------------------------------------------------------------------
(***************************************************************************)
(* What is shown: the pieces of a row, frame by frame, and of a still.     *)
(***************************************************************************)

(* The list of the pieces when the scan is over.                           *)
Boxed == \A i \in DOMAIN parts : parts[i].box = BoxOf(parts[i].px)
BySize == \A i, j \in DOMAIN parts : i < j => parts[i].area >= parts[j].area

Groups(i) == Group(i, Seeds(Drawings))
Pix(i) == UNION {part.px : part \in Groups(i)}

(* The drawings of a row, each with the pieces that go with it.            *)
LaidAs(fr) ==
    /\ Drawings \in Nat \ {0}
    /\ fr = [i \in 1 .. Drawings |-> Frame(Groups(i))]
    /\ \A i \in 1 .. Drawings : Seeds(Drawings)[i] \in Groups(i) /\ Groups(i) \subseteq ToSet(parts)
    /\ sheet.drop # "labels" =>
          \A part \in ToSet(parts) :
              \E i \in 1 .. Drawings : part \in Groups(i) /\ \A j \in 1 .. Drawings : part \in Groups(j) => i = j

Laid == LaidAs(framed)

Chosen ==
    IF sheet.indices = <<>> THEN framed ELSE [k \in DOMAIN sheet.indices |-> framed[sheet.indices[k] + 1]]

RowsLaid ==
    IF sheet.mode = "strip" THEN <<PackStrip(sheet.align)>>
    ELSE [k \in DOMAIN Chosen |-> Single(sheet.ids[k], Chosen[k])]

(* One piece alone, and the border of a pixel at most.                     *)
Alone ==
    /\ rows[1].im = CropBox(work, OpaqueBox(work), 1)
    /\ work.on # {}
    /\ \A p \in work.on : Whole(work.on, p) = work.on
    /\ \A i \in DOMAIN parts : parts[i].area <= Cardinality(work.on)

All == Found(work.on, work.on, parts, Least)

(* What each stage leaves to the next: where the pieces are and which is   *)
(* the largest, the frames of a row, and the rows that show them.          *)
WholeInv ==
    /\ stage \in {"gather", "ranked"} => Boxed
    /\ stage = "ranked" => BySize
    /\ stage = "framed" => InRow /\ All /\ Laid
    /\ stage = "done" /\ InRow => All /\ Laid /\ rows = RowsLaid
    /\ stage = "done" /\ sheet.mode = "still" /\ ~AsItIs /\ parts # <<>> =>
          IF PickLargest THEN Alone ELSE All /\ Boxed /\ rows[1].im = StillCrop

-----------------------------------------------------------------------------
(* Extremes.                                                               *)

LEMMA LeastOf ==
    ASSUME NEW S, S \subseteq Nat, S # {}
    PROVE  Min(S) \in S /\ \A n \in S : Min(S) <= n
<1>1. IsWellFoundedOn(Lower, Nat)
  <2>1. OpToRel(<, Nat) = Lower
    BY DEF OpToRel, Lower
  <2>2. QED BY <2>1, NatLessThanWellFounded
<1>2. PICK m \in S : \A n \in S : <<n, m>> \notin Lower
  BY <1>1, WFMin
<1>3. \A n \in S : m <= n
  <2>1. TAKE n \in S
  <2>2. m \in Nat /\ n \in Nat /\ <<n, m>> \notin Lower
    BY <1>2
  <2>3. QED BY <2>2 DEF Lower
<1>4. QED BY <1>3 DEF Min

LEMMA GreatestOf ==
    ASSUME NEW b \in Nat, NEW S, S \subseteq 0 .. b, S # {}
    PROVE  Max(S) \in S /\ \A n \in S : n <= Max(S)
<1> DEFINE T == {b - n : n \in S}
<1>1. T \subseteq Nat /\ T # {}
  <2>1. \A n \in S : b - n \in Nat
    OBVIOUS
  <2>2. PICK n \in S : TRUE
    OBVIOUS
  <2>3. b - n \in T
    OBVIOUS
  <2>4. QED BY <2>1, <2>3
<1> HIDE DEF T
<1>2. Min(T) \in T /\ \A d \in T : Min(T) <= d
  BY <1>1, LeastOf
<1>3. PICK m \in S : Min(T) = b - m
  BY <1>2 DEF T
<1>4. \A n \in S : m >= n
  <2>1. TAKE n \in S
  <2>2. b - n \in T
    BY DEF T
  <2>3. b - m <= b - n /\ m \in Nat /\ n \in Nat
    BY <1>2, <1>3, <2>2
  <2>4. QED BY <2>3
<1>5. \E x \in S : \A y \in S : x >= y
  BY <1>4
<1>6. /\ Max(S) \in S
      /\ \A y \in S : Max(S) >= y
  BY <1>5 DEF Max
<1>7. QED BY <1>6

LEMMA OfTwo ==
    ASSUME NEW a \in Int, NEW b \in Int
    PROVE  /\ Max({a, b}) = IF a >= b THEN a ELSE b
           /\ Min({a, b}) = IF a <= b THEN a ELSE b
<1>1. \E x \in {a, b} : \A y \in {a, b} : x >= y
  OBVIOUS
<1>2. \E x \in {a, b} : \A y \in {a, b} : x =< y
  OBVIOUS
<1>3. Max({a, b}) \in {a, b} /\ \A y \in {a, b} : Max({a, b}) >= y
  BY <1>1 DEF Max
<1>4. Min({a, b}) \in {a, b} /\ \A y \in {a, b} : Min({a, b}) =< y
  BY <1>2 DEF Min
<1>5. QED BY <1>3, <1>4

-----------------------------------------------------------------------------
(* Boxes.                                                                  *)

(* b is the smallest box around the pixels S.                              *)
Bounds(S, b) ==
    /\ b.x \in Nat /\ b.y \in Nat /\ b.w \in Nat \ {0} /\ b.h \in Nat \ {0}
    /\ \A p \in S : /\ b.x <= p[1] /\ p[1] <= b.x + b.w - 1
                    /\ b.y <= p[2] /\ p[2] <= b.y + b.h - 1
    /\ (\E p \in S : p[1] = b.x) /\ (\E p \in S : p[1] = b.x + b.w - 1)
    /\ (\E p \in S : p[2] = b.y) /\ (\E p \in S : p[2] = b.y + b.h - 1)

LEMMA AreaPairs ==
    ASSUME NEW im, im.w \in Nat, im.h \in Nat, NEW p \in Area(im)
    PROVE  /\ p = <<p[1], p[2]>> /\ p[1] \in Nat /\ p[2] \in Nat
           /\ p[1] <= im.w - 1 /\ p[2] <= im.h - 1
<1>1. p \in (0 .. im.w - 1) \X (0 .. im.h - 1)
  BY DEF Area, Pixels
<1>2. QED BY <1>1

LEMMA BoxBounds ==
    ASSUME NEW im, im.w \in Nat \ {0}, im.h \in Nat \ {0}, NEW S, S \subseteq Area(im), S # {}
    PROVE  Bounds(S, BoxOf(S))
<1> DEFINE xs == {p[1] : p \in S}
           ys == {p[2] : p \in S}
<1>1. \A p \in S : p[1] \in Nat /\ p[2] \in Nat /\ p[1] <= im.w - 1 /\ p[2] <= im.h - 1
  BY AreaPairs
<1>2. /\ xs \subseteq 0 .. im.w - 1 /\ xs # {} /\ xs \subseteq Nat /\ im.w - 1 \in Nat
      /\ ys \subseteq 0 .. im.h - 1 /\ ys # {} /\ ys \subseteq Nat /\ im.h - 1 \in Nat
  BY <1>1
<1>3. BoxOf(S) = [x |-> Min(xs), y |-> Min(ys), w |-> Max(xs) - Min(xs) + 1, h |-> Max(ys) - Min(ys) + 1]
  BY DEF BoxOf
<1>4. /\ \A p \in S : p[1] \in xs /\ p[2] \in ys
      /\ \A n \in xs : \E p \in S : p[1] = n
      /\ \A n \in ys : \E p \in S : p[2] = n
  OBVIOUS
<1> HIDE DEF xs, ys
<1>5. Min(xs) \in xs /\ \A n \in xs : Min(xs) <= n
  BY <1>2, LeastOf
<1>6. Min(ys) \in ys /\ \A n \in ys : Min(ys) <= n
  BY <1>2, LeastOf
<1>7. Max(xs) \in xs /\ \A n \in xs : n <= Max(xs)
  BY <1>2, GreatestOf
<1>8. Max(ys) \in ys /\ \A n \in ys : n <= Max(ys)
  BY <1>2, GreatestOf
<1> DEFINE b == BoxOf(S)
<1>9. b.x = Min(xs) /\ b.y = Min(ys) /\ b.w = Max(xs) - Min(xs) + 1 /\ b.h = Max(ys) - Min(ys) + 1
  BY <1>3
<1> HIDE DEF b
<1>10. /\ Min(xs) \in Nat /\ Max(xs) \in Nat /\ Min(xs) <= Max(xs)
       /\ Min(ys) \in Nat /\ Max(ys) \in Nat /\ Min(ys) <= Max(ys)
  BY <1>2, <1>5, <1>6, <1>7, <1>8
<1>11. /\ b.x \in Nat /\ b.y \in Nat /\ b.w \in Nat \ {0} /\ b.h \in Nat \ {0}
       /\ b.x + b.w - 1 = Max(xs) /\ b.y + b.h - 1 = Max(ys)
  BY <1>9, <1>10
<1>12. Bounds(S, b)
  BY <1>4, <1>5, <1>6, <1>7, <1>8, <1>9, <1>10, <1>11 DEF Bounds
<1>13. QED BY <1>12 DEF b

(* The box of pixels that were moved.                                      *)
Moved(S, dx, dy) == {<<p[1] + dx, p[2] + dy>> : p \in S}

LEMMA BoxMoves ==
    ASSUME NEW S, \A p \in S : p[1] \in Int /\ p[2] \in Int, NEW a, Bounds(S, a),
           NEW dx \in Int, NEW dy \in Int, NEW b, Bounds(Moved(S, dx, dy), b)
    PROVE  b.x = a.x + dx /\ b.y = a.y + dy /\ b.w = a.w /\ b.h = a.h
<1> DEFINE T == Moved(S, dx, dy)
<1>1. \A p \in S : \E q \in T : q[1] = p[1] + dx /\ q[2] = p[2] + dy
  <2>1. TAKE p \in S
  <2>2. <<p[1] + dx, p[2] + dy>> \in T
    BY DEF Moved
  <2>3. QED BY <2>2
<1>2. \A q \in T : \E p \in S : q[1] = p[1] + dx /\ q[2] = p[2] + dy
  BY DEF Moved
<1>3. Bounds(T, b)
  OBVIOUS
<1> HIDE DEF T
<1>4. /\ a.x \in Nat /\ a.y \in Nat /\ a.w \in Nat /\ a.h \in Nat
      /\ b.x \in Nat /\ b.y \in Nat /\ b.w \in Nat /\ b.h \in Nat
  BY <1>3 DEF Bounds
<1>5. b.x = a.x + dx
  <2>1. b.x <= a.x + dx
    BY <1>1, <1>3 DEF Bounds
  <2>2. a.x + dx <= b.x
    BY <1>2, <1>3 DEF Bounds
  <2>3. QED BY <1>4, <2>1, <2>2
<1>6. b.y = a.y + dy
  <2>1. b.y <= a.y + dy
    BY <1>1, <1>3 DEF Bounds
  <2>2. a.y + dy <= b.y
    BY <1>2, <1>3 DEF Bounds
  <2>3. QED BY <1>4, <2>1, <2>2
<1>7. b.x + b.w - 1 = a.x + a.w - 1 + dx
  <2>1. PICK p \in S : p[1] = a.x + a.w - 1
    BY DEF Bounds
  <2>2. a.x + a.w - 1 + dx <= b.x + b.w - 1
    BY <1>1, <1>3, <2>1 DEF Bounds
  <2>3. PICK q \in T : q[1] = b.x + b.w - 1
    BY <1>3 DEF Bounds
  <2>4. b.x + b.w - 1 <= a.x + a.w - 1 + dx
    <3>1. PICK r \in S : q[1] = r[1] + dx
      BY <1>2
    <3>2. r[1] <= a.x + a.w - 1 /\ r[1] \in Int
      BY DEF Bounds
    <3>3. QED BY <1>4, <2>3, <3>1, <3>2
  <2>5. QED BY <1>4, <2>2, <2>4
<1>8. b.y + b.h - 1 = a.y + a.h - 1 + dy
  <2>1. PICK p \in S : p[2] = a.y + a.h - 1
    BY DEF Bounds
  <2>2. a.y + a.h - 1 + dy <= b.y + b.h - 1
    BY <1>1, <1>3, <2>1 DEF Bounds
  <2>3. PICK q \in T : q[2] = b.y + b.h - 1
    BY <1>3 DEF Bounds
  <2>4. b.y + b.h - 1 <= a.y + a.h - 1 + dy
    <3>1. PICK r \in S : q[2] = r[2] + dy
      BY <1>2
    <3>2. r[2] <= a.y + a.h - 1 /\ r[2] \in Int
      BY DEF Bounds
    <3>3. QED BY <1>4, <2>3, <3>1, <3>2
  <2>5. QED BY <1>4, <2>2, <2>4
<1>9. QED BY <1>4, <1>5, <1>6, <1>7, <1>8

-----------------------------------------------------------------------------
(* Cutting pictures.                                                       *)

(* im shows the pixels S of src, moved, and nothing else.                  *)
Shows(im, src, S, dx, dy) ==
    /\ im.on = Moved(S, dx, dy)
    /\ \A p \in S : im.rgb[<<p[1] + dx, p[2] + dy>>] = src.rgb[p]

(* The picture "cut", whose corner is at x0, y0 of im, has the pixel p.     *)
Gets(cut, im, x0, y0, p) ==
    /\ cut.rgb[<<p[1] - x0, p[2] - y0>>] = im.rgb[p]
    /\ p \in im.on => <<p[1] - x0, p[2] - y0>> \in cut.on

LEMMA CropGets ==
    ASSUME NEW im, NEW x0 \in Int, NEW y0 \in Int, NEW w \in Int, NEW h \in Int, NEW p,
           p = <<p[1], p[2]>>, p[1] \in Int, p[2] \in Int,
           x0 <= p[1], p[1] < x0 + w, y0 <= p[2], p[2] < y0 + h
    PROVE  Gets(Crop(im, x0, y0, w, h), im, x0, y0, p)
<1> DEFINE q == <<p[1] - x0, p[2] - y0>>
<1>1. q \in Pixels(w, h) /\ q[1] = p[1] - x0 /\ q[2] = p[2] - y0
  BY DEF Pixels
<1>2. <<q[1] + x0, q[2] + y0>> = p
  <2>1. q[1] + x0 = p[1] /\ q[2] + y0 = p[2]
    BY <1>1
  <2>2. QED BY <2>1
<1> HIDE DEF q
<1>3. Crop(im, x0, y0, w, h).rgb[q] = im.rgb[<<q[1] + x0, q[2] + y0>>]
  BY <1>1 DEF Crop
<1>4. q \in Crop(im, x0, y0, w, h).on <=> <<q[1] + x0, q[2] + y0>> \in im.on
  BY <1>1 DEF Crop
<1>5. QED BY <1>1, <1>2, <1>3, <1>4 DEF q, Gets

(* A pixel of a picture of w by h whose corner is at x0, y0 of im.         *)
ComesFrom(im, x0, y0, w, h, q) ==
    /\ q = <<q[1], q[2]>> /\ q[1] \in 0 .. w - 1 /\ q[2] \in 0 .. h - 1
    /\ <<q[1] + x0, q[2] + y0>> \in im.on

LEMMA CropFrom ==
    ASSUME NEW im, NEW x0 \in Int, NEW y0 \in Int, NEW w \in Int, NEW h \in Int,
           NEW q \in Crop(im, x0, y0, w, h).on
    PROVE  ComesFrom(im, x0, y0, w, h, q)
<1>1. q \in {p \in Pixels(w, h) : <<p[1] + x0, p[2] + y0>> \in im.on}
  BY DEF Crop
<1>2. q \in (0 .. w - 1) \X (0 .. h - 1)
  BY <1>1 DEF Pixels
<1>3. QED BY <1>1, <1>2 DEF ComesFrom

(* A window around the box b: all of it, and "pad" pixels at most beside   *)
(* it.                                                                     *)
Frames(x0, y0, w, h, b, pad) ==
    /\ x0 \in 0 .. b.x /\ b.x - pad <= x0 /\ b.x + b.w <= x0 + w /\ x0 + w <= b.x + b.w + pad
    /\ y0 \in 0 .. b.y /\ b.y - pad <= y0 /\ b.y + b.h <= y0 + h /\ y0 + h <= b.y + b.h + pad
    /\ w \in Nat /\ h \in Nat

LEMMA CropBoxFrames ==
    ASSUME NEW im, IsPicture(im), NEW S, S \subseteq Area(im), NEW b, Bounds(S, b), NEW pad \in Nat
    PROVE  \E x0, y0, w, h \in Int : /\ CropBox(im, b, pad) = Crop(im, x0, y0, w, h)
                                     /\ Frames(x0, y0, w, h, b, pad)
<1> DEFINE x0 == Max({0, b.x - pad})
           y0 == Max({0, b.y - pad})
           w == Min({im.w, b.x + b.w + pad}) - x0
           h == Min({im.h, b.y + b.h + pad}) - y0
<1>1. CropBox(im, b, pad) = Crop(im, x0, y0, w, h)
  BY DEF CropBox
<1>2. im.w \in Nat /\ im.h \in Nat /\ b.x \in Nat /\ b.y \in Nat /\ b.w \in Nat \ {0} /\ b.h \in Nat \ {0}
  BY DEF IsPicture, Bounds
<1>3. b.x + b.w <= im.w
  <2>1. PICK p \in S : p[1] = b.x + b.w - 1
    BY DEF Bounds
  <2>2. p[1] <= im.w - 1
    BY <1>2, AreaPairs
  <2>3. QED BY <1>2, <2>1, <2>2
<1>4. b.y + b.h <= im.h
  <2>1. PICK p \in S : p[2] = b.y + b.h - 1
    BY DEF Bounds
  <2>2. p[2] <= im.h - 1
    BY <1>2, AreaPairs
  <2>3. QED BY <1>2, <2>1, <2>2
<1>5. x0 = (IF 0 >= b.x - pad THEN 0 ELSE b.x - pad) /\ y0 = (IF 0 >= b.y - pad THEN 0 ELSE b.y - pad)
  BY <1>2, OfTwo
<1>6. /\ Min({im.w, b.x + b.w + pad}) = (IF im.w <= b.x + b.w + pad THEN im.w ELSE b.x + b.w + pad)
      /\ Min({im.h, b.y + b.h + pad}) = (IF im.h <= b.y + b.h + pad THEN im.h ELSE b.y + b.h + pad)
  <2>1. b.x + b.w + pad \in Int /\ b.y + b.h + pad \in Int /\ im.w \in Int /\ im.h \in Int
    BY <1>2
  <2>2. \A m, n \in Int : Min({m, n}) = IF m <= n THEN m ELSE n
    BY OfTwo
  <2>3. QED BY <2>1, <2>2
<1>7. /\ w = (IF im.w <= b.x + b.w + pad THEN im.w ELSE b.x + b.w + pad) - x0
      /\ h = (IF im.h <= b.y + b.h + pad THEN im.h ELSE b.y + b.h + pad) - y0
  BY <1>6
<1> HIDE DEF x0, y0, w, h
<1>8. x0 \in Int /\ y0 \in Int /\ w \in Int /\ h \in Int
  BY <1>2, <1>5, <1>7
<1>9. Frames(x0, y0, w, h, b, pad)
  BY <1>2, <1>3, <1>4, <1>5, <1>7 DEF Frames
<1>10. QED BY <1>1, <1>8, <1>9

(* A cut along a box of pixels keeps them all.                             *)
LEMMA CutHolds ==
    ASSUME IsPicture(work), NEW S, S \subseteq work.on, S # {}, NEW pad \in Nat
    PROVE  Holds(CropBox(work, BoxOf(S), pad), S)
<1> DEFINE b == BoxOf(S)
           im == CropBox(work, b, pad)
<1>1. S \subseteq Area(work) /\ work.w \in Nat \ {0} /\ work.h \in Nat \ {0}
  BY DEF IsPicture
<1>2. Bounds(S, b)
  BY <1>1, BoxBounds
<1> HIDE DEF b
<1>3. PICK x0, y0, w, h \in Int : im = Crop(work, x0, y0, w, h) /\ Frames(x0, y0, w, h, b, pad)
  BY <1>1, <1>2, CropBoxFrames
<1>4. im.w = w /\ im.h = h
  BY <1>3 DEF Crop
<1> HIDE DEF im
<1>5. \A p \in S : p = <<p[1], p[2]>> /\ p[1] \in Int /\ p[2] \in Int /\ p[1] <= work.w - 1 /\ p[2] <= work.h - 1
  BY <1>1, AreaPairs
<1>6. b.x \in Nat /\ b.y \in Nat /\ b.w \in Nat \ {0} /\ b.h \in Nat \ {0}
  BY <1>2 DEF Bounds
<1>7. x0 \in 0 .. work.w /\ y0 \in 0 .. work.h
  <2>1. PICK p \in S : p[1] = b.x
    BY <1>2 DEF Bounds
  <2>2. PICK q \in S : q[2] = b.y
    BY <1>2 DEF Bounds
  <2>3. QED BY <1>1, <1>3, <1>5, <1>6, <2>1, <2>2 DEF Frames
<1>8. ASSUME NEW p \in S
      PROVE  <<p[1] - x0, p[2] - y0>> \in im.on /\ im.rgb[<<p[1] - x0, p[2] - y0>>] = work.rgb[p]
  <2>1. x0 <= p[1] /\ p[1] < x0 + w /\ y0 <= p[2] /\ p[2] < y0 + h
    <3>1. b.x <= p[1] /\ p[1] <= b.x + b.w - 1 /\ b.y <= p[2] /\ p[2] <= b.y + b.h - 1
      BY <1>2 DEF Bounds
    <3>2. x0 <= b.x /\ b.x + b.w <= x0 + w /\ y0 <= b.y /\ b.y + b.h <= y0 + h
      BY <1>3 DEF Frames
    <3>3. QED BY <1>5, <1>6, <3>1, <3>2
  <2>2. p \in work.on
    OBVIOUS
  <2>3. p = <<p[1], p[2]>> /\ p[1] \in Int /\ p[2] \in Int
    BY <1>5
  <2>4. Gets(Crop(work, x0, y0, w, h), work, x0, y0, p)
    BY <2>1, <2>3, CropGets
  <2>5. QED BY <1>3, <2>2, <2>4 DEF Gets
<1>9. -x0 \in -work.w .. im.w /\ -y0 \in -work.h .. im.h
  BY <1>1, <1>3, <1>4, <1>7 DEF Frames
<1>10. \A p \in S : <<p[1] + (-x0), p[2] + (-y0)>> = <<p[1] - x0, p[2] - y0>>
  BY <1>5
<1>11. Holds(im, S)
  BY <1>8, <1>9, <1>10 DEF Holds
<1>12. QED BY <1>11 DEF im, b

-----------------------------------------------------------------------------
(* Pixels that are moved.                                                  *)

LEMMA SumTells == \A a, b, d \in Int : a + d = b + d => a = b
  OBVIOUS

LEMMA MovedSize ==
    ASSUME NEW S, IsFiniteSet(S), \A p \in S : p = <<p[1], p[2]>> /\ p[1] \in Int /\ p[2] \in Int,
           NEW dx \in Int, NEW dy \in Int
    PROVE  IsFiniteSet(Moved(S, dx, dy)) /\ Cardinality(Moved(S, dx, dy)) = Cardinality(S)
<1> DEFINE T == Moved(S, dx, dy)
           f == [p \in S |-> <<p[1] + dx, p[2] + dy>>]
<1>1. T = {f[p] : p \in S}
  BY DEF Moved
<1>2. \A p, q \in S : f[p] = f[q] => p = q
  <2>1. TAKE p, q \in S
  <2>2. HAVE f[p] = f[q]
  <2>3. f[p] = <<p[1] + dx, p[2] + dy>> /\ f[q] = <<q[1] + dx, q[2] + dy>>
    OBVIOUS
  <2>4. p[1] + dx = q[1] + dx /\ p[2] + dy = q[2] + dy
    BY <2>2, <2>3
  <2>5. p[1] = q[1] /\ p[2] = q[2]
    <3>1. p[1] \in Int /\ p[2] \in Int /\ q[1] \in Int /\ q[2] \in Int
      OBVIOUS
    <3>2. \A a, b, d \in Int : a + d = b + d => a = b
      BY SumTells
    <3>3. p[1] + dx = q[1] + dx => p[1] = q[1]
      BY <3>1, <3>2
    <3>4. p[2] + dy = q[2] + dy => p[2] = q[2]
      BY <3>1, <3>2
    <3>5. QED BY <2>4, <3>3, <3>4
  <2>6. p = <<p[1], p[2]>> /\ q = <<q[1], q[2]>>
    OBVIOUS
  <2>7. QED BY <2>5, <2>6
<1>3. f \in [S -> T]
  BY <1>1
<1> HIDE DEF T
<1>4. f \in Bijection(S, T)
  <2>1. \A t \in T : \E p \in S : f[p] = t
    BY <1>1
  <2> HIDE DEF f
  <2>2. QED BY <1>2, <1>3, <2>1 DEF Bijection, Injection, Surjection, IsInjective
<1>5. ExistsBijection(S, T)
  BY <1>4 DEF ExistsBijection
<1>6. IsFiniteSet(T) /\ Cardinality(T) = Cardinality(S)
  BY <1>5, FS_Bijection
<1>7. QED BY <1>6 DEF T

LEMMA AroundMoves ==
    ASSUME NEW p, p = <<p[1], p[2]>>, p[1] \in Int, p[2] \in Int,
           NEW q, q = <<q[1], q[2]>>, q[1] \in Int, q[2] \in Int,
           NEW dx \in Int, NEW dy \in Int, q \in Around(p)
    PROVE  <<q[1] + dx, q[2] + dy>> \in Around(<<p[1] + dx, p[2] + dy>>)
<1>1. \A a, b \in Int \X Int :
          b \in Around(a) <=> /\ b # a
                              /\ b[1] \in a[1] - 1 .. a[1] + 1
                              /\ b[2] \in a[2] - 1 .. a[2] + 1
  <2>1. TAKE a, b \in Int \X Int
  <2>2. a = <<a[1], a[2]>> /\ b = <<b[1], b[2]>> /\ a[1] \in Int /\ a[2] \in Int /\ b[1] \in Int /\ b[2] \in Int
    OBVIOUS
  <2>3. QED BY <2>2 DEF Around, Beside
<1> DEFINE s == <<p[1] + dx, p[2] + dy>>
           t == <<q[1] + dx, q[2] + dy>>
<1>2. /\ s \in Int \X Int /\ s[1] = p[1] + dx /\ s[2] = p[2] + dy
      /\ t \in Int \X Int /\ t[1] = q[1] + dx /\ t[2] = q[2] + dy
  OBVIOUS
<1>3. p \in Int \X Int /\ q \in Int \X Int
  OBVIOUS
<1>4. q # p /\ q[1] \in p[1] - 1 .. p[1] + 1 /\ q[2] \in p[2] - 1 .. p[2] + 1
  BY <1>1, <1>3
<1> HIDE DEF s, t
<1>5. t # s
  <2>1. p[1] # q[1] \/ p[2] # q[2]
    BY <1>4
  <2>2. t[1] # s[1] \/ t[2] # s[2]
    BY <1>2, <2>1
  <2>3. QED BY <2>2
<1>6. t[1] \in s[1] - 1 .. s[1] + 1 /\ t[2] \in s[2] - 1 .. s[2] + 1
  BY <1>2, <1>4
<1>7. t \in Around(s)
  BY <1>1, <1>2, <1>5, <1>6
<1>8. QED BY <1>7 DEF s, t

(* A piece is a piece wherever it is moved.                                *)
LEMMA MovedIsOne ==
    ASSUME NEW S, IsFiniteSet(S), \A p \in S : p = <<p[1], p[2]>> /\ p[1] \in Int /\ p[2] \in Int,
           \A p \in S : Whole(S, p) = S,
           NEW dx \in Int, NEW dy \in Int, NEW c \in Moved(S, dx, dy)
    PROVE  Whole(Moved(S, dx, dy), c) = Moved(S, dx, dy)
<1> DEFINE T == Moved(S, dx, dy)
           W == Whole(T, c)
           to(p) == <<p[1] + dx, p[2] + dy>>
           M == {p \in S : to(p) \in W}
<1>1. IsFiniteSet(T) /\ \A p \in S : to(p) \in T
  BY MovedSize DEF Moved
<1>2. \A t \in T : \E p \in S : t = to(p)
  BY DEF Moved
<1>3. c \in T
  OBVIOUS
<1> HIDE DEF T
<1>4. /\ c \in W /\ W \subseteq T
      /\ \A q \in W : Around(q) \cap T \subseteq W
  BY <1>1, <1>3, WholeIsLeast
<1> HIDE DEF W
<1>5. PICK p \in S : c = to(p)
  BY <1>2, <1>3
<1>6. p \in M
  BY <1>4, <1>5
<1>7. ASSUME NEW q \in M PROVE Around(q) \cap S \subseteq M
  <2>1. SUFFICES ASSUME NEW r \in Around(q) \cap S PROVE to(r) \in W
    OBVIOUS
  <2>2. to(r) \in Around(to(q))
    BY AroundMoves
  <2>3. to(q) \in W /\ to(r) \in T
    BY <1>1
  <2> HIDE DEF to
  <2>4. QED BY <1>4, <2>2, <2>3
<1> HIDE DEF M
<1>8. Whole(S, p) \subseteq M
  BY <1>6, <1>7, WholeIsLeast
<1>9. S \subseteq M
  BY <1>8
<1>10. T \subseteq W
  BY <1>2, <1>9 DEF M
<1>11. W = T
  BY <1>4, <1>10
<1>12. QED BY <1>11 DEF W, T

-----------------------------------------------------------------------------
(* A still.                                                                *)

LEMMA AloneIsWhole ==
    ASSUME IsPicture(work), PickLargest, Alone
    PROVE  StillIsWhole
<1> DEFINE S == work.on
           b == BoxOf(S)
           im == rows[1].im
           o == OpaqueBox(im)
<1>1. /\ S \subseteq Area(work) /\ S # {} /\ IsFiniteSet(S)
      /\ work.w \in Nat \ {0} /\ work.h \in Nat \ {0}
  BY OnIsFinite DEF IsPicture, Alone
<1>2. Bounds(S, b)
  BY <1>1, BoxBounds
<1> HIDE DEF b
<1>3. im = CropBox(work, b, 1)
  BY DEF Alone, OpaqueBox, b
<1>4. PICK x0, y0, w, h \in Int : im = Crop(work, x0, y0, w, h) /\ Frames(x0, y0, w, h, b, 1)
  BY <1>1, <1>2, <1>3, CropBoxFrames
<1>5. im.w = w /\ im.h = h
  BY <1>4 DEF Crop
<1> HIDE DEF im
<1>6. \A p \in S : p = <<p[1], p[2]>> /\ p[1] \in Int /\ p[2] \in Int
  BY <1>1, AreaPairs
<1>7. b.x \in Nat /\ b.y \in Nat /\ b.w \in Nat \ {0} /\ b.h \in Nat \ {0}
  BY <1>2 DEF Bounds
<1>8. im.on = Moved(S, -x0, -y0)
  <2>1. ASSUME NEW p \in S PROVE <<p[1] + (-x0), p[2] + (-y0)>> \in im.on
    <3>1. x0 <= p[1] /\ p[1] < x0 + w /\ y0 <= p[2] /\ p[2] < y0 + h
      <4>1. b.x <= p[1] /\ p[1] <= b.x + b.w - 1 /\ b.y <= p[2] /\ p[2] <= b.y + b.h - 1
        BY <1>2 DEF Bounds
      <4>2. x0 <= b.x /\ b.x + b.w <= x0 + w /\ y0 <= b.y /\ b.y + b.h <= y0 + h
        BY <1>4 DEF Frames
      <4>3. QED BY <1>6, <1>7, <4>1, <4>2
    <3>2. p = <<p[1], p[2]>> /\ p[1] \in Int /\ p[2] \in Int
      BY <1>6
    <3>3. Gets(Crop(work, x0, y0, w, h), work, x0, y0, p)
      BY <3>1, <3>2, CropGets
    <3>4. <<p[1] - x0, p[2] - y0>> \in im.on
      BY <1>4, <3>3 DEF Gets
    <3>5. QED BY <3>2, <3>4
  <2>2. ASSUME NEW q \in im.on PROVE q \in Moved(S, -x0, -y0)
    <3>1. q = <<q[1], q[2]>> /\ q[1] \in Int /\ q[2] \in Int /\ <<q[1] + x0, q[2] + y0>> \in S
      <4>1. q \in Crop(work, x0, y0, w, h).on
        BY <1>4
      <4>2. ComesFrom(work, x0, y0, w, h, q)
        BY <4>1, CropFrom
      <4>3. QED BY <4>2 DEF ComesFrom
    <3> DEFINE p == <<q[1] + x0, q[2] + y0>>
    <3>2. <<p[1] + (-x0), p[2] + (-y0)>> = q
      <4>1. p[1] + (-x0) = q[1] /\ p[2] + (-y0) = q[2]
        BY <3>1
      <4>2. QED BY <3>1, <4>1
    <3>3. p \in S
      BY <3>1
    <3> HIDE DEF p
    <3>4. QED BY <3>2, <3>3 DEF Moved
  <2>3. QED BY <2>1, <2>2 DEF Moved
<1>9. Cardinality(im.on) = Cardinality(S)
  <2>1. -x0 \in Int /\ -y0 \in Int
    OBVIOUS
  <2>2. Cardinality(Moved(S, -x0, -y0)) = Cardinality(S)
    BY <1>1, <1>6, <2>1, MovedSize
  <2>3. QED BY <1>8, <2>2
<1>10. im.on # {}
  BY <1>1, <1>8 DEF Moved
<1>11. \A c \in im.on : Whole(im.on, c) = im.on
  <2>1. \A p \in S : Whole(S, p) = S
    BY DEF Alone
  <2>2. QED BY <1>1, <1>6, <1>8, <2>1, MovedIsOne
<1>12. w \in Nat /\ h \in Nat /\ w # 0 /\ h # 0
  BY <1>4, <1>7 DEF Frames
<1>13. im.on \subseteq Area(im)
  <2>1. ASSUME NEW q \in im.on
        PROVE  q = <<q[1], q[2]>> /\ q[1] \in 0 .. w - 1 /\ q[2] \in 0 .. h - 1
    <3>1. q \in Crop(work, x0, y0, w, h).on
      BY <1>4
    <3>2. ComesFrom(work, x0, y0, w, h, q)
      BY <3>1, CropFrom
    <3>3. QED BY <3>2 DEF ComesFrom
  <2>2. QED BY <1>5, <2>1 DEF Area, Pixels
<1>14. Bounds(im.on, o)
  BY <1>5, <1>10, <1>12, <1>13, BoxBounds DEF OpaqueBox
<1> HIDE DEF o
<1>15. o.x = b.x + (-x0) /\ o.y = b.y + (-y0) /\ o.w = b.w /\ o.h = b.h
  BY <1>2, <1>6, <1>8, <1>14, BoxMoves
<1>16. o.x <= 1 /\ o.y <= 1 /\ im.w <= o.x + o.w + 1
  BY <1>4, <1>5, <1>7, <1>15 DEF Frames
<1>17. \A i \in DOMAIN parts : parts[i].area <= Cardinality(im.on)
  BY <1>9 DEF Alone
<1>18. Linked(im.on, {CHOOSE p \in im.on : TRUE}, Around) = im.on
  <2>1. (CHOOSE p \in im.on : TRUE) \in im.on
    BY <1>10
  <2>2. QED BY <1>11, <2>1 DEF Whole
<1>19. QED BY <1>16, <1>17, <1>18 DEF StillIsWhole, im, o

LEMMA PiecesOn ==
    ASSUME All, NEW part \in ToSet(parts)
    PROVE  part.px \subseteq work.on /\ part.px # {}
<1>1. PICK i \in DOMAIN parts : part = parts[i]
  BY DEF ToSet
<1>2. i \in 1 .. Len(parts)
  BY DEF All, Found
<1>3. QED BY <1>1, <1>2 DEF All, Found

LEMMA StillShows ==
    ASSUME IsPicture(work), ~PickLargest, All, Boxed, parts # <<>>, rows[1].im = StillCrop
    PROVE  StillIsWhole
<1> DEFINE S == UNION {part.px : part \in ToSet(parts)}
<1>1. DOMAIN parts = 1 .. Len(parts) /\ Len(parts) \in Nat /\ parts \in Seq(ToSet(parts))
  BY DEF All, Found
<1>2. 1 \in DOMAIN parts
  BY <1>1
<1>3. parts[1] \in ToSet(parts)
  BY <1>2 DEF ToSet
<1>4. S \subseteq work.on /\ S # {}
  BY <1>3, PiecesOn
<1>5. CASE Len(parts) = 1
  <2>1. S = parts[1].px
    <3>1. ToSet(parts) = {parts[1]}
      BY <1>1, <1>5 DEF ToSet
    <3>2. QED BY <3>1
  <2> HIDE DEF S
  <2>2. StillCrop = CropBox(work, BoxOf(S), 1)
    BY <1>2, <1>5, <2>1 DEF StillCrop, Boxed
  <2>3. Holds(StillCrop, S)
    BY <1>4, <2>2, CutHolds
  <2>4. QED BY <2>3 DEF StillIsWhole, S
<1>6. CASE Len(parts) # 1
  <2>1. StillCrop = CropBox(work, BoxOf(S), 0)
    BY <1>6 DEF StillCrop
  <2> HIDE DEF S
  <2>2. Holds(StillCrop, S)
    BY <1>4, <2>1, CutHolds
  <2>3. QED BY <2>2 DEF StillIsWhole, S
<1>7. QED BY <1>5, <1>6

-----------------------------------------------------------------------------
(* A frame.                                                                *)

(* f is the picture of the pixels S of im, cut to their box b.             *)
IsFrame(f, im, S, b) ==
    /\ Bounds(S, b) /\ b.x + b.w <= im.w /\ b.y + b.h <= im.h
    /\ f.w = b.w /\ f.h = b.h
    /\ Shows(f, im, S, -b.x, -b.y)
    /\ f.on \subseteq Pixels(b.w, b.h)

LEMMA FrameIs ==
    ASSUME NEW im, IsPicture(im), NEW S, S \subseteq im.on, S # {}
    PROVE  IsFrame(FromPixels(im, S), im, S, BoxOf(S))
<1> DEFINE b == BoxOf(S)
           f == FromPixels(im, S)
           c == Crop(im, b.x, b.y, b.w, b.h)
<1>1. S \subseteq Area(im) /\ im.w \in Nat \ {0} /\ im.h \in Nat \ {0}
  BY DEF IsPicture
<1>2. Bounds(S, b)
  BY <1>1, BoxBounds
<1>3. f = [c EXCEPT !.on = {<<p[1] - b.x, p[2] - b.y>> : p \in S}]
  BY DEF FromPixels
<1> HIDE DEF b
<1>4. c = [w |-> b.w, h |-> b.h, rgb |-> c.rgb, on |-> c.on]
  BY DEF Crop
<1> HIDE DEF c
<1>5. f.w = b.w /\ f.h = b.h /\ f.rgb = c.rgb /\ f.on = {<<p[1] - b.x, p[2] - b.y>> : p \in S}
  BY <1>3, <1>4
<1> HIDE DEF f
<1>6. \A p \in S : p = <<p[1], p[2]>> /\ p[1] \in Int /\ p[2] \in Int /\ p[1] <= im.w - 1 /\ p[2] <= im.h - 1
  BY <1>1, AreaPairs
<1>7. b.x \in Nat /\ b.y \in Nat /\ b.w \in Nat \ {0} /\ b.h \in Nat \ {0}
  BY <1>2 DEF Bounds
<1>8. ASSUME NEW p \in S
      PROVE  /\ <<p[1] + (-b.x), p[2] + (-b.y)>> = <<p[1] - b.x, p[2] - b.y>>
             /\ p[1] - b.x \in 0 .. b.w - 1 /\ p[2] - b.y \in 0 .. b.h - 1
             /\ f.rgb[<<p[1] - b.x, p[2] - b.y>>] = im.rgb[p]
  <2>1. p = <<p[1], p[2]>> /\ p[1] \in Int /\ p[2] \in Int
    BY <1>6
  <2>2. b.x <= p[1] /\ p[1] <= b.x + b.w - 1 /\ b.y <= p[2] /\ p[2] <= b.y + b.h - 1
    BY <1>2 DEF Bounds
  <2>3. b.x <= p[1] /\ p[1] < b.x + b.w /\ b.y <= p[2] /\ p[2] < b.y + b.h
    BY <1>7, <2>1, <2>2
  <2>4. b.x \in Int /\ b.y \in Int /\ b.w \in Int /\ b.h \in Int
    BY <1>7
  <2>5. Gets(c, im, b.x, b.y, p)
    BY <2>1, <2>3, <2>4, CropGets DEF c
  <2>6. p[1] - b.x \in 0 .. b.w - 1 /\ p[2] - b.y \in 0 .. b.h - 1
    BY <1>7, <2>1, <2>2
  <2>7. p[1] + (-b.x) = p[1] - b.x /\ p[2] + (-b.y) = p[2] - b.y
    BY <1>7, <2>1
  <2>8. QED BY <1>5, <2>5, <2>6, <2>7 DEF Gets
<1>9. Shows(f, im, S, -b.x, -b.y)
  <2>1. f.on = Moved(S, -b.x, -b.y)
    BY <1>5, <1>8 DEF Moved
  <2>2. QED BY <1>8, <2>1 DEF Shows
<1>10. f.on \subseteq Pixels(b.w, b.h)
  BY <1>5, <1>8 DEF Pixels
<1>11. b.x + b.w <= im.w /\ b.y + b.h <= im.h
  <2>1. PICK p \in S : p[1] = b.x + b.w - 1
    BY <1>2 DEF Bounds
  <2>2. PICK q \in S : q[2] = b.y + b.h - 1
    BY <1>2 DEF Bounds
  <2>3. QED BY <1>1, <1>6, <1>7, <2>1, <2>2
<1>12. IsFrame(f, im, S, b)
  BY <1>2, <1>5, <1>9, <1>10, <1>11 DEF IsFrame
<1>13. QED BY <1>12 DEF f, b

-----------------------------------------------------------------------------
(* Frames pasted on a canvas.                                              *)

(* The pixels of the frame i of fs when its corner is at X[i], Y[i], the   *)
(* colour a pixel has of the frame it is in, and a canvas of W by H with   *)
(* the frames s on it.                                                     *)
Stamp(fs, X, Y, i) == Moved(fs[i].on, X[i], Y[i])
Within(fs, X, Y, p) == CHOOSE i \in 1 .. Len(fs) : p \in Stamp(fs, X, Y, i)
InkOf(fs, X, Y, i, p) == fs[i].rgb[<<p[1] - X[i], p[2] - Y[i]>>]

Canvas(fs, X, Y, W, H, s) ==
    [w |-> W, h |-> H,
     rgb |-> [p \in Pixels(W, H) |->
                 IF \E i \in s : p \in Stamp(fs, X, Y, i) THEN InkOf(fs, X, Y, Within(fs, X, Y, p), p)
                 ELSE <<0, 0, 0>>],
     on |-> UNION {Stamp(fs, X, Y, i) : i \in s}]

(* Frames that fit on the canvas, apart from one another.                  *)
OnCanvas(fs, X, Y, W, H) ==
    /\ Len(fs) \in Nat
    /\ \A i \in 1 .. Len(fs) :
          /\ X[i] \in Int /\ Y[i] \in Int
          /\ \A q \in fs[i].on : q = <<q[1], q[2]>> /\ q[1] \in Int /\ q[2] \in Int
          /\ Stamp(fs, X, Y, i) \subseteq Pixels(W, H)
    /\ \A i, j \in 1 .. Len(fs) : \A p \in Stamp(fs, X, Y, i) : p \in Stamp(fs, X, Y, j) => i = j

LEMMA CanvasInk ==
    ASSUME NEW fs, NEW X, NEW Y, NEW W, NEW H, OnCanvas(fs, X, Y, W, H),
           NEW s \in SUBSET (1 .. Len(fs)), NEW m \in s, NEW q \in fs[m].on
    PROVE  /\ <<q[1] + X[m], q[2] + Y[m]>> \in Canvas(fs, X, Y, W, H, s).on
           /\ Canvas(fs, X, Y, W, H, s).rgb[<<q[1] + X[m], q[2] + Y[m]>>] = fs[m].rgb[q]
<1> DEFINE p == <<q[1] + X[m], q[2] + Y[m]>>
           c == Canvas(fs, X, Y, W, H, s)
<1>1. m \in 1 .. Len(fs)
  OBVIOUS
<1>2. X[m] \in Int /\ Y[m] \in Int /\ q = <<q[1], q[2]>> /\ q[1] \in Int /\ q[2] \in Int
  BY <1>1 DEF OnCanvas
<1>3. p \in Stamp(fs, X, Y, m)
  BY DEF Stamp, Moved
<1>4. p \in Pixels(W, H)
  BY <1>1, <1>3 DEF OnCanvas
<1>5. <<p[1] - X[m], p[2] - Y[m]>> = q
  <2>1. p[1] - X[m] = q[1] /\ p[2] - Y[m] = q[2]
    BY <1>2
  <2>2. QED BY <1>2, <2>1
<1> HIDE DEF p
<1>6. Within(fs, X, Y, p) = m
  <2>1. \A i \in 1 .. Len(fs) : p \in Stamp(fs, X, Y, i) => i = m
    BY <1>1, <1>3 DEF OnCanvas
  <2>2. QED BY <1>1, <1>3, <2>1 DEF Within
<1>7. c.rgb[p] = InkOf(fs, X, Y, m, p)
  BY <1>3, <1>4, <1>6 DEF Canvas
<1>8. p \in c.on
  BY <1>3 DEF Canvas
<1>9. QED BY <1>5, <1>7, <1>8 DEF InkOf, p

(* Pasting one more frame.                                                 *)
LEMMA BlitOne ==
    ASSUME NEW fs, NEW X, NEW Y, NEW W, NEW H, OnCanvas(fs, X, Y, W, H),
           NEW s \in SUBSET (1 .. Len(fs)), NEW m \in s
    PROVE  Canvas(fs, X, Y, W, H, s) = Blit(Canvas(fs, X, Y, W, H, s \ {m}), fs[m], X[m], Y[m])
<1> DEFINE spot(i) == Stamp(fs, X, Y, i)
           old == Canvas(fs, X, Y, W, H, s \ {m})
           hit == {p \in Area(old) : <<p[1] - X[m], p[2] - Y[m]>> \in fs[m].on}
<1>1. old.w = W /\ old.h = H /\ Area(old) = Pixels(W, H)
  BY DEF Canvas, Area
<1>2. m \in 1 .. Len(fs)
  OBVIOUS
<1>3. X[m] \in Int /\ Y[m] \in Int
  BY <1>2 DEF OnCanvas
<1>4. hit = spot(m)
  <2>1. ASSUME NEW p \in hit PROVE p \in spot(m)
    <3>1. p = <<p[1], p[2]>> /\ p[1] \in Int /\ p[2] \in Int
      <4>1. p \in Area(old)
        OBVIOUS
      <4>2. p \in Pixels(W, H)
        BY <1>1, <4>1
      <4>3. QED BY <4>2 DEF Pixels
    <3> DEFINE q == <<p[1] - X[m], p[2] - Y[m]>>
    <3>2. q \in fs[m].on
      OBVIOUS
    <3>3. <<q[1] + X[m], q[2] + Y[m]>> = p
      <4>1. q[1] + X[m] = p[1] /\ q[2] + Y[m] = p[2]
        BY <1>3, <3>1
      <4>2. QED BY <3>1, <4>1
    <3> HIDE DEF q
    <3>4. QED BY <3>2, <3>3 DEF Stamp, Moved
  <2>2. ASSUME NEW p \in spot(m) PROVE p \in hit
    <3>1. PICK q \in fs[m].on : p = <<q[1] + X[m], q[2] + Y[m]>>
      BY <2>2 DEF Stamp, Moved
    <3>2. q = <<q[1], q[2]>> /\ q[1] \in Int /\ q[2] \in Int
      BY <1>2 DEF OnCanvas
    <3>3. p[1] - X[m] = q[1] /\ p[2] - Y[m] = q[2]
      BY <1>3, <3>1, <3>2
    <3>4. p \in Area(old)
      BY <1>1, <1>2, <2>2 DEF OnCanvas
    <3>5. QED BY <3>2, <3>3, <3>4
  <2>3. QED BY <2>1, <2>2
<1> DEFINE new == Blit(old, fs[m], X[m], Y[m])
<1>5. /\ new = [old EXCEPT !.rgb = [p \in Area(old) |-> IF p \in hit THEN InkOf(fs, X, Y, m, p) ELSE old.rgb[p]],
                           !.on = old.on \cup hit]
  BY DEF Blit, InkOf
<1>6. old = [w |-> W, h |-> H, rgb |-> old.rgb, on |-> UNION {spot(i) : i \in s \ {m}}]
  BY DEF Canvas
<1>7. \A p \in Pixels(W, H) :
          old.rgb[p] = IF \E i \in s \ {m} : p \in spot(i) THEN InkOf(fs, X, Y, Within(fs, X, Y, p), p) ELSE <<0, 0, 0>>
  BY DEF Canvas
<1> DEFINE ink == [p \in Area(old) |-> IF p \in hit THEN InkOf(fs, X, Y, m, p) ELSE old.rgb[p]]
           rest == UNION {spot(i) : i \in s \ {m}}
           all == UNION {spot(i) : i \in s}
<1> HIDE DEF old, hit
<1>8. new = [w |-> W, h |-> H, rgb |-> ink, on |-> rest \cup hit]
  <2> DEFINE was == old.rgb
  <2>1. new = [old EXCEPT !.rgb = ink, !.on = old.on \cup hit]
    BY <1>5
  <2>2. old = [w |-> W, h |-> H, rgb |-> was, on |-> rest] /\ old.on = rest
    BY <1>6
  <2> HIDE DEF new, ink, rest, was
  <2>3. QED BY <2>1, <2>2
<1> HIDE DEF new
<1>9. rest \cup hit = all
  <2>1. ASSUME NEW p \in all PROVE p \in rest \/ p \in spot(m)
    OBVIOUS
  <2>2. rest \subseteq all /\ spot(m) \subseteq all
    OBVIOUS
  <2> HIDE DEF rest, all
  <2>3. QED BY <1>4, <2>1, <2>2
<1>10. ASSUME NEW p \in Pixels(W, H)
       PROVE  (IF p \in hit THEN InkOf(fs, X, Y, m, p) ELSE old.rgb[p])
                 = IF \E i \in s : p \in spot(i) THEN InkOf(fs, X, Y, Within(fs, X, Y, p), p) ELSE <<0, 0, 0>>
  <2>1. CASE p \in hit
    <3>1. \A i \in 1 .. Len(fs) : p \in spot(i) => i = m
      BY <1>2, <1>4, <2>1 DEF OnCanvas
    <3>2. Within(fs, X, Y, p) = m
      BY <1>2, <1>4, <2>1, <3>1 DEF Within
    <3>3. QED BY <1>4, <2>1, <3>2
  <2>2. CASE p \notin hit
    <3>1. (\E i \in s \ {m} : p \in spot(i)) <=> (\E i \in s : p \in spot(i))
      BY <1>4, <2>2
    <3>2. QED BY <1>7, <2>2, <3>1
  <2>3. QED BY <2>1, <2>2
<1>11. ink = [p \in Pixels(W, H) |->
                 IF \E i \in s : p \in spot(i) THEN InkOf(fs, X, Y, Within(fs, X, Y, p), p) ELSE <<0, 0, 0>>]
  <2>1. ink = [p \in Pixels(W, H) |-> IF p \in hit THEN InkOf(fs, X, Y, m, p) ELSE old.rgb[p]]
    BY <1>1
  <2> HIDE DEF ink
  <2>2. QED BY <1>10, <2>1
<1> HIDE DEF ink, rest
<1>12. new = Canvas(fs, X, Y, W, H, s)
  BY <1>8, <1>9, <1>11 DEF Canvas
<1>13. QED BY <1>12 DEF new, old

(* The fold over the frames takes the last one last.                       *)
LastIsLast(fs, X, Y, W, H, s) ==
    /\ s # {} => Max(s) \in 1 .. Len(fs)
    /\ Canvas(fs, X, Y, W, H, s)
         = IF s = {} THEN Blank(W, H)
           ELSE Blit(Canvas(fs, X, Y, W, H, s \ {Max(s)}), fs[Max(s)], X[Max(s)], Y[Max(s)])

LEMMA CanvasGrows ==
    ASSUME NEW fs, NEW X, NEW Y, NEW W, NEW H, OnCanvas(fs, X, Y, W, H), NEW s \in SUBSET (1 .. Len(fs))
    PROVE  LastIsLast(fs, X, Y, W, H, s)
<1>1. CASE s = {}
  <2>1. UNION {Stamp(fs, X, Y, i) : i \in {}} = {}
    OBVIOUS
  <2>2. QED BY <1>1, <2>1 DEF Canvas, Blank, LastIsLast
<1>2. CASE s # {}
  <2>1. s \subseteq 0 .. Len(fs) /\ Len(fs) \in Nat
    BY DEF OnCanvas
  <2>2. Max(s) \in s
    BY <1>2, <2>1, GreatestOf
  <2> DEFINE m == Max(s)
  <2>3. m \in s
    BY <2>2
  <2> HIDE DEF m
  <2>4. Canvas(fs, X, Y, W, H, s) = Blit(Canvas(fs, X, Y, W, H, s \ {m}), fs[m], X[m], Y[m])
    BY ONLY <2>3, s \in SUBSET (1 .. Len(fs)), OnCanvas(fs, X, Y, W, H), BlitOne
  <2>5. QED BY <1>2, <2>2, <2>4 DEF m, LastIsLast
<1>3. QED BY <1>1, <1>2

(* So it pastes them all, one after the other.                             *)
LEMMA FoldIsCanvas ==
    ASSUME NEW fs, NEW X, NEW Y, NEW W, NEW H, OnCanvas(fs, X, Y, W, H), NEW g,
           \A s \in SUBSET (1 .. Len(fs)) :
               g[s] = IF s = {} THEN Blank(W, H) ELSE Blit(g[s \ {Max(s)}], fs[Max(s)], X[Max(s)], Y[Max(s)])
    PROVE  g[1 .. Len(fs)] = Canvas(fs, X, Y, W, H, 1 .. Len(fs))
<1> DEFINE n == Len(fs)
           pasted(s) == Canvas(fs, X, Y, W, H, s)
           put(c, i) == Blit(c, fs[i], X[i], Y[i])
           Same == {k \in Nat : k <= n => g[1 .. k] = pasted(1 .. k)}
<1>1. n \in Nat
  BY DEF OnCanvas
<1>2. \A s \in SUBSET (1 .. n) : g[s] = IF s = {} THEN Blank(W, H) ELSE put(g[s \ {Max(s)}], Max(s))
  OBVIOUS
<1>3. \A s \in SUBSET (1 .. n) : pasted(s) = IF s = {} THEN Blank(W, H) ELSE put(pasted(s \ {Max(s)}), Max(s))
  BY CanvasGrows DEF LastIsLast
<1> HIDE DEF n, pasted, put
<1>4. 0 \in Same
  <2>1. 1 .. 0 = {} /\ {} \in SUBSET (1 .. n)
    OBVIOUS
  <2>2. g[{}] = pasted({})
    BY <1>2, <1>3, <2>1
  <2>3. QED BY <2>1, <2>2
<1>5. ASSUME NEW k \in Nat, k \in Same PROVE k + 1 \in Same
  <2>1. SUFFICES ASSUME k + 1 <= n PROVE g[1 .. k + 1] = pasted(1 .. k + 1)
    OBVIOUS
  <2> DEFINE s == 1 .. k + 1
  <2>2. s \in SUBSET (1 .. n) /\ k + 1 \in s /\ k <= n
    BY <1>1, <2>1
  <2>3. s \subseteq 0 .. n /\ \A i \in s : i <= k + 1
    BY <1>1, <2>1
  <2>4. s \ {k + 1} = 1 .. k
    OBVIOUS
  <2> HIDE DEF s
  <2>5. Max(s) = k + 1
    <3>1. Max(s) \in s /\ \A i \in s : i <= Max(s)
      BY <1>1, <2>2, <2>3, GreatestOf
    <3>2. Max(s) \in 0 .. n
      BY <2>3, <3>1
    <3>3. k + 1 <= Max(s) /\ Max(s) <= k + 1
      BY <2>2, <2>3, <3>1
    <3>4. Max(s) \in Int
      BY <3>2
    <3>5. QED BY <3>3, <3>4
  <2>6. g[s] = put(g[1 .. k], k + 1) /\ pasted(s) = put(pasted(1 .. k), k + 1)
    BY <1>2, <1>3, <2>2, <2>4, <2>5
  <2>7. g[1 .. k] = pasted(1 .. k)
    BY <1>5, <2>2
  <2>8. QED BY <2>6, <2>7 DEF s
<1> HIDE DEF Same
<1>6. n \in Same
  BY <1>1, <1>4, <1>5, Counting
<1>7. QED BY <1>1, <1>6 DEF Same, n, pasted

-----------------------------------------------------------------------------
(* A strip.                                                                *)

CellW == Max({framed[i].w : i \in DOMAIN framed})
CellH == Max({framed[i].h : i \in DOMAIN framed})

(* Where a frame is in its cell, and its cell in the strip.                *)
Aside(i) == (CellW - framed[i].w) \div 2
Top(i) == IF sheet.align = "bottom" THEN CellH - framed[i].h ELSE (CellH - framed[i].h) \div 2
Left(i) == (i - 1) * CellW + Aside(i)

(* The pixels of the strip that a frame fills, and the strip with them all. *)
Spot(i) == Moved(framed[i].on, Left(i), Top(i))
Lefts == [i \in 1 .. Len(framed) |-> Left(i)]
Heads == [i \in 1 .. Len(framed) |-> Top(i)]
Pasted == Canvas(framed, Lefts, Heads, CellW * Len(framed), CellH, 1 .. Len(framed))

(* Frames that can be packed.                                              *)
Packable ==
    /\ framed \in Seq(ToSet(framed)) /\ Len(framed) # 0
    /\ \A i \in 1 .. Len(framed) : /\ framed[i].w \in Nat \ {0} /\ framed[i].h \in Nat \ {0}
                                   /\ framed[i].on \subseteq Pixels(framed[i].w, framed[i].h)

(* The largest of some numbers.                                            *)
Tops(m, n, f) == m \in Nat /\ \A i \in 1 .. n : f[i] <= m

LEMMA LargestOf ==
    ASSUME NEW n \in Nat \ {0}, NEW f, \A i \in 1 .. n : f[i] \in Nat
    PROVE  Tops(Max({f[i] : i \in 1 .. n}), n, f)
<1> DEFINE Up == {k \in Nat : \E b \in Nat : \A i \in 1 .. k : i <= n => f[i] <= b}
<1>1. 0 \in Up
  <2>1. 0 \in Nat /\ \A i \in 1 .. 0 : i <= n => f[i] <= 0
    OBVIOUS
  <2>2. QED BY <2>1
<1>2. ASSUME NEW k \in Nat, k \in Up PROVE k + 1 \in Up
  <2>1. PICK b \in Nat : \A i \in 1 .. k : i <= n => f[i] <= b
    BY <1>2
  <2>2. CASE k + 1 \in 1 .. n
    <3>1. f[k + 1] \in Nat
      BY <2>2
    <3>2. \A i \in 1 .. k + 1 : i \in 1 .. k \/ i = k + 1
      OBVIOUS
    <3> DEFINE c == b + f[k + 1]
    <3>3. c \in Nat /\ \A i \in 1 .. k + 1 : i <= n => f[i] <= c
      BY <2>1, <3>1, <3>2
    <3> HIDE DEF c
    <3>4. QED BY <3>3
  <2>3. CASE k + 1 \notin 1 .. n
    <3>1. \A i \in 1 .. k + 1 : i <= n => i \in 1 .. k
      BY <2>3
    <3>2. \A i \in 1 .. k + 1 : i <= n => f[i] <= b
      BY <2>1, <3>1
    <3>3. k + 1 \in Nat
      OBVIOUS
    <3>4. QED BY <3>2, <3>3
  <2>4. QED BY <2>2, <2>3
<1>3. n \in Up
  <2> HIDE DEF Up
  <2>1. QED BY <1>1, <1>2, Counting
<1>4. PICK b \in Nat : \A i \in 1 .. n : f[i] <= b
  BY <1>3
<1> DEFINE S == {f[i] : i \in 1 .. n}
<1>5. S \subseteq 0 .. b
  BY <1>4
<1>6. f[1] \in S
  OBVIOUS
<1>7. \A i \in 1 .. n : f[i] \in S
  OBVIOUS
<1> HIDE DEF S
<1>8. Max(S) \in S /\ \A k \in S : k <= Max(S)
  BY <1>5, <1>6, GreatestOf
<1>9. Max(S) \in Nat
  <2>1. Max(S) \in 0 .. b
    BY <1>5, <1>8
  <2>2. QED BY <2>1
<1>10. Tops(Max(S), n, f)
  BY <1>7, <1>8, <1>9 DEF Tops
<1>11. QED BY <1>10 DEF S

LEMMA CellIs ==
    ASSUME Packable
    PROVE  /\ CellW \in Nat \ {0} /\ CellH \in Nat \ {0}
           /\ DOMAIN framed = 1 .. Len(framed) /\ Len(framed) \in Nat \ {0}
           /\ \A i \in 1 .. Len(framed) : framed[i].w <= CellW /\ framed[i].h <= CellH
<1>1. DOMAIN framed = 1 .. Len(framed) /\ Len(framed) \in Nat \ {0}
  BY DEF Packable
<1> DEFINE n == Len(framed)
           wide == [i \in 1 .. n |-> framed[i].w]
           high == [i \in 1 .. n |-> framed[i].h]
<1>2. \A i \in 1 .. n : wide[i] = framed[i].w /\ high[i] = framed[i].h /\ wide[i] \in Nat \ {0} /\ high[i] \in Nat \ {0}
  BY DEF Packable
<1>3. CellW = Max({wide[i] : i \in 1 .. n}) /\ CellH = Max({high[i] : i \in 1 .. n})
  <2>1. {wide[i] : i \in 1 .. n} = {framed[i].w : i \in 1 .. n}
    OBVIOUS
  <2>2. {high[i] : i \in 1 .. n} = {framed[i].h : i \in 1 .. n}
    OBVIOUS
  <2>3. QED BY <1>1, <2>1, <2>2 DEF CellW, CellH
<1>4. n \in Nat \ {0} /\ 1 \in 1 .. n
  BY <1>1
<1> HIDE DEF n, wide, high
<1>5. CellW \in Nat /\ \A i \in 1 .. n : wide[i] <= CellW
  <2>1. \A i \in 1 .. n : wide[i] \in Nat
    BY <1>2
  <2>2. Tops(CellW, n, wide)
    BY <1>3, <1>4, <2>1, LargestOf
  <2>3. QED BY <2>2 DEF Tops
<1>6. CellH \in Nat /\ \A i \in 1 .. n : high[i] <= CellH
  <2>1. \A i \in 1 .. n : high[i] \in Nat
    BY <1>2
  <2>2. Tops(CellH, n, high)
    BY <1>3, <1>4, <2>1, LargestOf
  <2>3. QED BY <2>2 DEF Tops
<1>7. CellW # 0 /\ CellH # 0
  BY <1>2, <1>4, <1>5, <1>6
<1>8. QED BY <1>1, <1>2, <1>5, <1>6, <1>7 DEF n

(* A pixel of a frame, in its cell.                                        *)
LEMMA InCell ==
    ASSUME Packable, NEW i \in 1 .. Len(framed), NEW q \in framed[i].on
    PROVE  /\ q = <<q[1], q[2]>> /\ q[1] \in Nat /\ q[2] \in Nat
           /\ Aside(i) \in Nat /\ Top(i) \in Nat
           /\ q[1] + Aside(i) \in 0 .. CellW - 1 /\ q[2] + Top(i) \in 0 .. CellH - 1
<1>1. /\ framed[i].w \in Nat \ {0} /\ framed[i].h \in Nat \ {0} /\ framed[i].w <= CellW /\ framed[i].h <= CellH
      /\ CellW \in Nat /\ CellH \in Nat
  BY CellIs DEF Packable
<1>2. q = <<q[1], q[2]>> /\ q[1] \in 0 .. framed[i].w - 1 /\ q[2] \in 0 .. framed[i].h - 1
  <2>1. q \in Pixels(framed[i].w, framed[i].h)
    BY DEF Packable
  <2>2. QED BY <2>1 DEF Pixels
<1>3. \A w, c \in Nat : w <= c => (c - w) \div 2 \in Nat /\ (c - w) \div 2 <= c - w
  OBVIOUS
<1>4. Aside(i) \in Nat /\ Aside(i) <= CellW - framed[i].w
  BY <1>1, <1>3 DEF Aside
<1>5. Top(i) \in Nat /\ Top(i) <= CellH - framed[i].h
  <2> DEFINE t == (CellH - framed[i].h) \div 2
  <2>1. t \in Nat /\ t <= CellH - framed[i].h
    BY <1>1, <1>3
  <2>2. Top(i) = CellH - framed[i].h \/ Top(i) = t
    BY DEF Top
  <2> HIDE DEF t
  <2>3. QED BY <1>1, <2>1, <2>2
<1>6. q[1] + Aside(i) \in 0 .. CellW - 1
  BY <1>1, <1>2, <1>4
<1>7. q[2] + Top(i) \in 0 .. CellH - 1
  <2>1. \A a, h, t, c \in Nat : a <= h - 1 /\ t <= c - h => a + t \in 0 .. c - 1
    OBVIOUS
  <2>2. q[2] \in Nat /\ q[2] <= framed[i].h - 1 /\ framed[i].h \in Nat /\ CellH \in Nat
    BY <1>1, <1>2
  <2>3. QED BY <1>5, <2>1, <2>2
<1>8. QED BY <1>2, <1>4, <1>5, <1>6, <1>7

(* The cells are beside one another.                                       *)
LEMMA OneSlot ==
    ASSUME NEW c \in Nat \ {0}, NEW i \in Nat \ {0}, NEW j \in Nat \ {0},
           NEW a \in 0 .. c - 1, NEW b \in 0 .. c - 1, (i - 1) * c + a = (j - 1) * c + b
    PROVE  i = j /\ a = b
<1> DEFINE k == i - 1
           l == j - 1
<1>1. k \in Nat /\ l \in Nat
  OBVIOUS
<1>2. k * c + a = l * c + b
  OBVIOUS
<1>3. i = k + 1 /\ j = l + 1
  OBVIOUS
<1> HIDE DEF k, l
<1>4. k * c \in Nat /\ l * c \in Nat
  BY <1>1
<1>5. (k < l => (k * c) + c <= l * c) /\ (l < k => (l * c) + c <= k * c)
  BY <1>1, Multiples
<1>6. k = l
  BY <1>1, <1>2, <1>4, <1>5
<1>7. a = b
  BY <1>1, <1>2, <1>4, <1>6
<1>8. QED BY <1>3, <1>6, <1>7

LEMMA SpotIs ==
    ASSUME Packable, NEW i \in 1 .. Len(framed), NEW p \in Spot(i)
    PROVE  /\ p = <<p[1], p[2]>> /\ p[1] \in Nat /\ p[2] \in 0 .. CellH - 1
           /\ Left(i) \in Nat /\ Top(i) \in Nat
           /\ <<p[1] - Left(i), p[2] - Top(i)>> \in framed[i].on
           /\ \E a \in 0 .. CellW - 1 : p[1] = (i - 1) * CellW + a
<1>1. PICK q \in framed[i].on : p = <<q[1] + Left(i), q[2] + Top(i)>>
  BY DEF Spot, Moved
<1>2. /\ q = <<q[1], q[2]>> /\ q[1] \in Nat /\ q[2] \in Nat /\ Aside(i) \in Nat /\ Top(i) \in Nat
      /\ q[1] + Aside(i) \in 0 .. CellW - 1 /\ q[2] + Top(i) \in 0 .. CellH - 1
  BY InCell
<1>3. CellW \in Nat /\ i - 1 \in Nat
  BY CellIs
<1> DEFINE m == (i - 1) * CellW
<1>4. m \in Nat
  BY <1>3
<1>5. Left(i) = m + Aside(i)
  BY DEF Left
<1> HIDE DEF m
<1>6. p[1] = q[1] + Left(i) /\ p[2] = q[2] + Top(i)
  BY <1>1
<1>7. Left(i) \in Nat /\ p[1] \in Nat /\ p[2] \in 0 .. CellH - 1
  BY <1>2, <1>4, <1>5, <1>6
<1>8. p[1] - Left(i) = q[1] /\ p[2] - Top(i) = q[2]
  BY <1>2, <1>6, <1>7
<1>9. p[1] = m + (q[1] + Aside(i))
  BY <1>2, <1>4, <1>5, <1>6
<1>10. <<p[1] - Left(i), p[2] - Top(i)>> \in framed[i].on
  BY <1>2, <1>8
<1>11. \E a \in 0 .. CellW - 1 : p[1] = m + a
  BY <1>2, <1>9
<1>12. p = <<p[1], p[2]>>
  BY <1>1
<1>13. QED BY <1>2, <1>7, <1>10, <1>11, <1>12 DEF m

LEMMA SpotsApart ==
    ASSUME Packable, NEW i \in 1 .. Len(framed), NEW j \in 1 .. Len(framed), NEW p \in Spot(i), p \in Spot(j)
    PROVE  i = j
<1>1. PICK a \in 0 .. CellW - 1 : p[1] = (i - 1) * CellW + a
  BY SpotIs
<1>2. PICK b \in 0 .. CellW - 1 : p[1] = (j - 1) * CellW + b
  BY SpotIs
<1>3. CellW \in Nat \ {0} /\ i \in Nat \ {0} /\ j \in Nat \ {0}
  BY CellIs
<1>4. (i - 1) * CellW + a = (j - 1) * CellW + b
  BY <1>1, <1>2
<1>5. QED BY <1>3, <1>4, OneSlot

LEMMA SpotOnStrip ==
    ASSUME Packable, NEW i \in 1 .. Len(framed), NEW p \in Spot(i)
    PROVE  p \in Pixels(CellW * Len(framed), CellH)
<1>1. PICK a \in 0 .. CellW - 1 : p[1] = (i - 1) * CellW + a
  BY SpotIs
<1>2. p = <<p[1], p[2]>> /\ p[1] \in Nat /\ p[2] \in 0 .. CellH - 1
  BY SpotIs
<1>3. CellW \in Nat \ {0} /\ Len(framed) \in Nat /\ i - 1 \in Nat /\ i - 1 < Len(framed)
  BY CellIs
<1>4. ((i - 1) * CellW) + CellW <= Len(framed) * CellW
  BY <1>3, Multiples
<1>5. Len(framed) * CellW = CellW * Len(framed) /\ (i - 1) * CellW \in Nat /\ CellW * Len(framed) \in Nat
  BY <1>3
<1> DEFINE m == (i - 1) * CellW
           W == CellW * Len(framed)
<1>6. p[1] = m + a /\ m + CellW <= W /\ m \in Nat /\ W \in Nat
  BY <1>1, <1>4, <1>5
<1> HIDE DEF m, W
<1>7. p[1] \in 0 .. W - 1
  BY <1>2, <1>3, <1>6
<1>8. QED BY <1>2, <1>7 DEF Pixels, W

LEMMA StripIsCanvas ==
    ASSUME Packable
    PROVE  OnCanvas(framed, Lefts, Heads, CellW * Len(framed), CellH)
<1> DEFINE n == Len(framed)
<1>1. n \in Nat
  BY CellIs
<1>2. \A i \in 1 .. n : Lefts[i] = Left(i) /\ Heads[i] = Top(i) /\ Stamp(framed, Lefts, Heads, i) = Spot(i)
  BY DEF Lefts, Heads, Stamp, Spot
<1>3. ASSUME NEW i \in 1 .. n PROVE Left(i) \in Int /\ Top(i) \in Int
  <2>1. \A w, c \in Int : (c - w) \div 2 \in Int
    OBVIOUS
  <2>2. CellW \in Int /\ CellH \in Int /\ framed[i].w \in Int /\ framed[i].h \in Int
    BY CellIs DEF Packable
  <2>3. (CellW - framed[i].w) \div 2 \in Int /\ (CellH - framed[i].h) \div 2 \in Int /\ CellH - framed[i].h \in Int
    BY <2>1, <2>2
  <2>4. (i - 1) * CellW \in Int
    BY <2>2
  <2>5. QED BY <2>3, <2>4 DEF Left, Aside, Top
<1>4. \A i \in 1 .. n : Spot(i) \subseteq Pixels(CellW * n, CellH)
  BY SpotOnStrip
<1>5. \A i, j \in 1 .. n : \A p \in Spot(i) : p \in Spot(j) => i = j
  BY SpotsApart
<1>6. \A i \in 1 .. n : \A q \in framed[i].on : q = <<q[1], q[2]>> /\ q[1] \in Int /\ q[2] \in Int
  BY InCell
<1>7. QED BY <1>1, <1>2, <1>3, <1>4, <1>5, <1>6 DEF OnCanvas

(* The fold of PackStrip pastes them all.                                  *)
LEMMA StripIsPasted ==
    ASSUME Packable
    PROVE  PackStrip(sheet.align) = Row(sheet.ids[1], Pasted, Len(framed), CellW, CellH)
<1> DEFINE n == Len(framed)
           W == CellW * Len(framed)
           idx == [i \in DOMAIN framed |-> i]
           base == Blank(CellW * Len(framed), CellH)
           put(out, i) == Blit(out, framed[i], (i - 1) * CellW + (CellW - framed[i].w) \div 2,
                               IF sheet.align = "bottom" THEN CellH - framed[i].h ELSE (CellH - framed[i].h) \div 2)
           Q(h) == h = [s \in SUBSET (DOMAIN idx) |->
                           IF s = {} THEN base ELSE put(h[s \ {Max(s)}], idx[Max(s)])]
           iter == CHOOSE h : Q(h)
           pasted(s) == Canvas(framed, Lefts, Heads, W, CellH, s)
<1>1. PackStrip(sheet.align) = Row(sheet.ids[1], iter[DOMAIN idx], Len(framed), CellW, CellH)
  BY DEF PackStrip, FoldLeftDomain, FoldLeft, MapThenFoldSet, CellW, CellH
<1>2. DOMAIN framed = 1 .. n
  BY CellIs
<1>3. DOMAIN idx = 1 .. n /\ \A i \in 1 .. n : idx[i] = i
  BY <1>2
<1>4. \A out : \A i \in 1 .. n : put(out, i) = Blit(out, framed[i], Lefts[i], Heads[i])
  BY DEF Left, Top, Aside, Lefts, Heads
<1>5. \A s \in SUBSET (1 .. n) :
          /\ s # {} => Max(s) \in 1 .. n
          /\ pasted(s) = IF s = {} THEN base
                         ELSE Blit(pasted(s \ {Max(s)}), framed[Max(s)], Lefts[Max(s)], Heads[Max(s)])
  <2>1. TAKE s \in SUBSET (1 .. n)
  <2>2. LastIsLast(framed, Lefts, Heads, W, CellH, s)
    BY StripIsCanvas, CanvasGrows
  <2>3. QED BY <2>2 DEF LastIsLast
<1> HIDE DEF idx, put, pasted
<1>6. \A h : \A s \in SUBSET (1 .. n) : s # {} =>
          put(h[s \ {Max(s)}], idx[Max(s)]) = Blit(h[s \ {Max(s)}], framed[Max(s)], Lefts[Max(s)], Heads[Max(s)])
  BY <1>3, <1>4, <1>5
<1>7. Q(iter)
  <2> DEFINE g == [s \in SUBSET (DOMAIN idx) |-> pasted(s)]
  <2>1. \A s \in SUBSET (1 .. n) :
            /\ g[s] = pasted(s)
            /\ s # {} => g[s \ {Max(s)}] = pasted(s \ {Max(s)})
    BY <1>3
  <2>2. g = [s \in SUBSET (DOMAIN idx) |-> g[s]]
    OBVIOUS
  <2> HIDE DEF g, base
  <2>3. ASSUME NEW s \in SUBSET (DOMAIN idx)
        PROVE  g[s] = IF s = {} THEN base ELSE put(g[s \ {Max(s)}], idx[Max(s)])
    <3>1. s \in SUBSET (1 .. n)
      BY <1>3
    <3>2. CASE s = {}
      BY <1>5, <2>1, <3>1, <3>2
    <3>3. CASE s # {}
      <4>1. g[s] = Blit(g[s \ {Max(s)}], framed[Max(s)], Lefts[Max(s)], Heads[Max(s)])
        BY <1>5, <2>1, <3>1, <3>3
      <4>2. QED BY <1>6, <3>1, <3>3, <4>1
    <3>4. QED BY <3>2, <3>3
  <2>4. Q(g)
    BY <2>2, <2>3
  <2> HIDE DEF Q
  <2>5. QED BY <2>4
<1> HIDE DEF iter
<1>8. \A s \in SUBSET (1 .. n) : iter[s] = IF s = {} THEN base ELSE put(iter[s \ {Max(s)}], idx[Max(s)])
  BY <1>3, <1>7
<1>9. \A s \in SUBSET (1 .. n) :
          iter[s] = IF s = {} THEN Blank(W, CellH)
                    ELSE Blit(iter[s \ {Max(s)}], framed[Max(s)], Lefts[Max(s)], Heads[Max(s)])
  BY <1>6, <1>8
<1>10. iter[1 .. n] = Pasted
  BY <1>9, StripIsCanvas, FoldIsCanvas DEF Pasted
<1>11. QED BY <1>1, <1>3, <1>10

LEMMA OneSum ==
    ASSUME NEW u \in Int, NEW v \in Int, NEW d \in Int, NEW e \in Int, u + d = v + (d + e)
    PROVE  u = v + e
  OBVIOUS

(* What the game cuts out of the strip at i is the frame i.                *)
LEMMA CellShows ==
    ASSUME Packable, NEW i \in 1 .. Len(framed), NEW row, row.cellW = CellW, row.cellH = CellH,
           row.im = Pasted
    PROVE  /\ Cell(row, i).w = CellW /\ Cell(row, i).h = CellH
           /\ Shows(Cell(row, i), framed[i], framed[i].on, Aside(i), Top(i))
           /\ Cell(row, i).on \subseteq Pixels(CellW, CellH)
<1> DEFINE n == Len(framed)
           x0 == (i - 1) * CellW
           im == Pasted
           c == Cell(row, i)
<1>1. c = Crop(im, x0, 0, CellW, CellH)
  BY DEF Cell
<1>2. CellW \in Nat \ {0} /\ CellH \in Nat \ {0} /\ DOMAIN framed = 1 .. n /\ n \in Nat
  BY CellIs
<1>3. x0 \in Nat
  BY <1>2
<1>4. c.w = CellW /\ c.h = CellH
  BY <1>1 DEF Crop
<1>5. im.on = UNION {Spot(j) : j \in 1 .. n}
  <2>1. \A j \in 1 .. n : Stamp(framed, Lefts, Heads, j) = Spot(j)
    BY DEF Stamp, Lefts, Heads, Spot
  <2>2. im.on = UNION {Stamp(framed, Lefts, Heads, j) : j \in 1 .. n}
    BY DEF Pasted, Canvas
  <2>3. {Stamp(framed, Lefts, Heads, j) : j \in 1 .. n} = {Spot(j) : j \in 1 .. n}
    BY <2>1
  <2>4. QED BY <2>2, <2>3
<1>6. \A q \in framed[i].on : im.rgb[<<q[1] + Left(i), q[2] + Top(i)>>] = framed[i].rgb[q]
  <2>1. Lefts[i] = Left(i) /\ Heads[i] = Top(i) /\ 1 .. n \in SUBSET (1 .. n)
    BY DEF Lefts, Heads
  <2>2. QED BY <2>1, StripIsCanvas, CanvasInk DEF Pasted
<1>7. Left(i) = x0 + Aside(i)
  BY DEF Left
<1> HIDE DEF c, im, x0
<1>8. ASSUME NEW q \in framed[i].on
      PROVE  /\ <<q[1] + Aside(i), q[2] + Top(i)>> \in c.on
             /\ c.rgb[<<q[1] + Aside(i), q[2] + Top(i)>>] = framed[i].rgb[q]
  <2>1. /\ q = <<q[1], q[2]>> /\ q[1] \in Nat /\ q[2] \in Nat /\ Aside(i) \in Nat /\ Top(i) \in Nat
        /\ q[1] + Aside(i) \in 0 .. CellW - 1 /\ q[2] + Top(i) \in 0 .. CellH - 1
    BY InCell
  <2> DEFINE p == <<q[1] + Left(i), q[2] + Top(i)>>
  <2>2. p \in Spot(i)
    BY DEF Spot, Moved
  <2>3. p = <<p[1], p[2]>> /\ p[1] = q[1] + Left(i) /\ p[2] = q[2] + Top(i)
    OBVIOUS
  <2>4. im.rgb[p] = framed[i].rgb[q]
    BY <1>6
  <2> HIDE DEF p
  <2>5. p[1] \in Int /\ p[2] \in Int /\ x0 <= p[1] /\ p[1] < x0 + CellW /\ 0 <= p[2] /\ p[2] < 0 + CellH
    BY <1>2, <1>3, <1>7, <2>1, <2>3
  <2>6. x0 \in Int /\ 0 \in Int /\ CellW \in Int /\ CellH \in Int
    BY <1>2, <1>3
  <2>7. Gets(c, im, x0, 0, p)
    BY <1>1, <2>3, <2>5, <2>6, CropGets
  <2>8. p \in im.on
    BY <1>5, <2>2
  <2>9. p[1] - x0 = q[1] + Aside(i) /\ p[2] - 0 = q[2] + Top(i)
    BY <1>3, <1>7, <2>1, <2>3
  <2>10. QED BY <2>4, <2>7, <2>8, <2>9 DEF Gets
<1>9. ASSUME NEW r \in c.on
      PROVE  r \in Moved(framed[i].on, Aside(i), Top(i)) /\ r \in Pixels(CellW, CellH)
  <2>1. x0 \in Int /\ 0 \in Int /\ CellW \in Int /\ CellH \in Int /\ r \in Crop(im, x0, 0, CellW, CellH).on
    BY <1>1, <1>2, <1>3
  <2>2. ComesFrom(im, x0, 0, CellW, CellH, r)
    BY <2>1, CropFrom
  <2>3. r = <<r[1], r[2]>> /\ r[1] \in 0 .. CellW - 1 /\ r[2] \in 0 .. CellH - 1 /\ <<r[1] + x0, r[2] + 0>> \in im.on
    BY <2>2 DEF ComesFrom
  <2> DEFINE p == <<r[1] + x0, r[2] + 0>>
  <2>4. p[1] = r[1] + x0 /\ p[2] = r[2] + 0
    OBVIOUS
  <2>5. PICK j \in 1 .. n : p \in Spot(j)
    BY <1>5, <2>3
  <2> HIDE DEF p
  <2>6. PICK a \in 0 .. CellW - 1 : p[1] = (j - 1) * CellW + a
    BY <2>5, SpotIs
  <2>7. j = i
    <3>1. (i - 1) * CellW + r[1] = (j - 1) * CellW + a
      <4>1. p[1] = x0 + r[1]
        BY <1>3, <2>3, <2>4
      <4>2. QED BY <2>6, <4>1 DEF x0
    <3>2. j \in Nat \ {0} /\ i \in Nat \ {0} /\ r[1] \in 0 .. CellW - 1
      BY <1>2, <2>3
    <3>3. r[1] \in 0 .. CellW - 1 /\ a \in 0 .. CellW - 1 /\ CellW \in Nat \ {0}
      BY <1>2, <3>2
    <3> DEFINE b == r[1]
    <3>4. (i - 1) * CellW + b = (j - 1) * CellW + a /\ b \in 0 .. CellW - 1
      BY <3>1, <3>3
    <3> HIDE DEF b
    <3>5. i = j
      BY <3>2, <3>3, <3>4, OneSlot
    <3>6. QED BY <3>5
  <2>8. PICK q \in framed[i].on : p = <<q[1] + Left(i), q[2] + Top(i)>>
    BY <2>5, <2>7 DEF Spot, Moved
  <2>9. q[1] \in Nat /\ q[2] \in Nat /\ Aside(i) \in Nat /\ Top(i) \in Nat
    BY InCell
  <2>10. r[1] + x0 = q[1] + (x0 + Aside(i)) /\ r[2] + 0 = q[2] + Top(i)
    BY <1>7, <2>4, <2>8
  <2>11. r[1] = q[1] + Aside(i) /\ r[2] = q[2] + Top(i)
    <3>2. /\ r[1] \in Int /\ r[2] \in Int /\ x0 \in Int /\ q[1] \in Int /\ q[2] \in Int
          /\ Aside(i) \in Int /\ Top(i) \in Int
      BY <1>3, <2>3, <2>9
    <3>3. r[1] = q[1] + Aside(i)
      <4> DEFINE u == r[1]
                 v == q[1]
                 e == Aside(i)
      <4>1. u + x0 = v + (x0 + e)
        BY <2>10
      <4>2. u \in Int /\ v \in Int /\ e \in Int /\ x0 \in Int
        BY <3>2
      <4>3. u = v + e
        <5> HIDE DEF u, v, e
        <5>1. QED BY ONLY <4>1, <4>2
      <4>4. QED BY <4>3
    <3>4. r[2] = q[2] + Top(i)
      BY <2>10, <3>2
    <3>5. QED BY <3>3, <3>4
  <2>12. r \in Pixels(CellW, CellH)
    BY <2>3 DEF Pixels
  <2>13. QED BY <2>3, <2>11, <2>12 DEF Moved
<1>10. c.on = Moved(framed[i].on, Aside(i), Top(i))
  BY <1>8, <1>9 DEF Moved
<1>11. Shows(c, framed[i], framed[i].on, Aside(i), Top(i))
  BY <1>8, <1>10 DEF Shows
<1>12. c.on \subseteq Pixels(CellW, CellH)
  BY <1>9
<1>13. QED BY <1>4, <1>11, <1>12 DEF c

-----------------------------------------------------------------------------
(* The drawings of a row.                                                  *)

LEMMA CentresAre ==
    ASSUME IsPicture(work), All, Boxed, NEW part \in ToSet(parts)
    PROVE  Centre(part) \in Nat
<1>1. PICK i \in DOMAIN parts : part = parts[i]
  BY DEF ToSet
<1>2. part.box = BoxOf(part.px)
  BY <1>1 DEF Boxed
<1>3. part.px \subseteq Area(work) /\ part.px # {} /\ work.w \in Nat \ {0} /\ work.h \in Nat \ {0}
  BY PiecesOn DEF IsPicture
<1>4. Bounds(part.px, part.box)
  BY <1>2, <1>3, BoxBounds
<1>5. QED BY <1>4 DEF Bounds, Centre

LEMMA SeedsAre ==
    ASSUME IsPicture(work), All, Boxed, NEW n \in Nat \ {0}, n <= Len(parts)
    PROVE  \E order : /\ Lists(order, 1 .. n) /\ Seeds(n) = [k \in 1 .. n |-> parts[order[k]]]
                      /\ \A k, l \in 1 .. n : k < l => Centre(parts[order[k]]) <= Centre(parts[order[l]])
<1> DEFINE left(i, j) == \/ Centre(parts[i]) < Centre(parts[j])
                         \/ Centre(parts[i]) = Centre(parts[j]) /\ i < j
           order == Sorted(1 .. n, left)
           T == 1 .. n
           D == [e \in T |-> {d \in T : left(d, e)}]
<1>1. Seeds(n) = [k \in 1 .. n |-> parts[order[k]]]
  BY DEF Seeds
<1>2. \A i \in T : Centre(parts[i]) \in Nat /\ i \in Nat
  <2>1. DOMAIN parts = 1 .. Len(parts) /\ Len(parts) \in Nat
    BY DEF All, Found
  <2>2. \A i \in T : parts[i] \in ToSet(parts) /\ i \in Nat
    BY <2>1 DEF ToSet
  <2>3. QED BY <2>2, CentresAre
<1>3. IsFiniteSet(T)
  <2>1. 1 \in Int /\ n \in Int
    OBVIOUS
  <2>2. QED BY ONLY <2>1, FS_Interval
<1>4. \A e \in T : D[e] = {d \in T : left(d, e)}
  OBVIOUS
<1>5. order = [k \in 1 .. Cardinality(T) |-> CHOOSE e \in T : Cardinality({d \in T : left(d, e)}) = k - 1]
  BY DEF Sorted
<1> HIDE DEF D, order, T
<1>6. Ordered(T, D)
  <2>1. /\ \A i, j, k \in T : left(i, j) /\ left(j, k) => left(i, k)
        /\ \A i \in T : ~left(i, i)
        /\ \A i, j \in T : i = j \/ left(i, j) \/ left(j, i)
    BY <1>2
  <2> HIDE DEF left
  <2>2. QED BY <1>4, <2>1 DEF Ordered
<1> HIDE DEF left
<1>7. \A k \in 1 .. Cardinality(T) : \E e \in T : Cardinality(D[e]) = k - 1
  BY <1>3, <1>6, EveryRank
<1>8. \A k \in 1 .. Cardinality(T) : order[k] \in T /\ Cardinality({d \in T : left(d, order[k])}) = k - 1
  <2>1. TAKE k \in 1 .. Cardinality(T)
  <2>2. order[k] = CHOOSE e \in T : Cardinality({d \in T : left(d, e)}) = k - 1
    BY <1>5
  <2>3. PICK e \in T : Cardinality({d \in T : left(d, e)}) = k - 1
    BY <1>4, <1>7
  <2>4. QED BY <2>2, <2>3
<1>9. order \in [1 .. Cardinality(T) -> T]
  BY <1>5, <1>8
<1>10. \A k \in 1 .. Cardinality(T) : Cardinality(D[order[k]]) = k - 1
  BY <1>4, <1>8
<1>11. Lists(order, T)
  BY <1>3, <1>6, <1>9, <1>10, RankedLists
<1>12. Cardinality(T) = n
  <2>1. 1 \in Int /\ n \in Int
    OBVIOUS
  <2>2. Cardinality(1 .. n) = IF 1 > n THEN 0 ELSE n - 1 + 1
    BY ONLY <2>1, FS_Interval
  <2>3. QED BY <2>2 DEF T
<1>13. ASSUME NEW k \in 1 .. n, NEW l \in 1 .. n, k < l
       PROVE  Centre(parts[order[k]]) <= Centre(parts[order[l]])
  <2>1. \A m \in 1 .. n : order[m] \in T /\ Cardinality(D[order[m]]) = m - 1
    BY <1>8, <1>10, <1>12
  <2>2. order[k] \in D[order[l]]
    BY <1>3, <1>6, <1>13, <2>1, RankedInOrder
  <2>3. left(order[k], order[l])
    BY <1>4, <2>1, <2>2
  <2>4. Centre(parts[order[k]]) \in Nat /\ Centre(parts[order[l]]) \in Nat
    BY <1>2, <2>1
  <2>5. QED BY <2>3, <2>4 DEF left
<1>14. QED BY <1>1, <1>11, <1>13 DEF T

(* The seeds are the first n pieces, each once.                            *)
SeedsOf(n, order) ==
    /\ DOMAIN Seeds(n) = 1 .. n
    /\ \A k \in 1 .. n : /\ order[k] \in 1 .. n /\ Seeds(n)[k] = parts[order[k]]
                         /\ Seeds(n)[k] \in ToSet(parts) /\ Centre(Seeds(n)[k]) \in Nat
    /\ \A i \in 1 .. n : \E k \in 1 .. n : order[k] = i
    /\ \A k, l \in 1 .. n : k < l => /\ order[k] # order[l]
                                     /\ Centre(Seeds(n)[k]) <= Centre(Seeds(n)[l])

LEMMA SeedsList ==
    ASSUME IsPicture(work), All, Boxed, NEW n \in Nat \ {0}, n <= Len(parts)
    PROVE  \E order : SeedsOf(n, order)
<1>1. PICK order : /\ Lists(order, 1 .. n) /\ Seeds(n) = [k \in 1 .. n |-> parts[order[k]]]
                   /\ \A k, l \in 1 .. n : k < l => Centre(parts[order[k]]) <= Centre(parts[order[l]])
  BY SeedsAre
<1>2. Len(order) = n
  <2>1. Cardinality(1 .. n) = Len(order)
    BY <1>1, ListIsAsLong
  <2>2. 1 \in Int /\ n \in Int
    OBVIOUS
  <2>3. Cardinality(1 .. n) = IF 1 > n THEN 0 ELSE n - 1 + 1
    BY ONLY <2>2, FS_Interval
  <2>4. QED BY <2>1, <2>3
<1>3. \A k \in 1 .. n : order[k] \in 1 .. n
  BY <1>1, <1>2 DEF Lists
<1>4. \A i \in 1 .. n : \E k \in 1 .. n : order[k] = i
  BY <1>1, <1>2 DEF Lists, Queued
<1>5. DOMAIN parts = 1 .. Len(parts) /\ Len(parts) \in Nat
  BY DEF All, Found
<1>6. \A k \in 1 .. n : Seeds(n)[k] = parts[order[k]] /\ Seeds(n)[k] \in ToSet(parts)
  BY <1>1, <1>3, <1>5 DEF ToSet
<1>7. \A k \in 1 .. n : Centre(Seeds(n)[k]) \in Nat
  BY <1>6, CentresAre
<1>8. DOMAIN Seeds(n) = 1 .. n
  BY <1>1
<1>9. ASSUME NEW k \in 1 .. n, NEW l \in 1 .. n, k < l
      PROVE  order[k] # order[l] /\ Centre(Seeds(n)[k]) <= Centre(Seeds(n)[l])
  <2>1. order[k] # order[l]
    BY <1>1, <1>2, <1>9 DEF Lists
  <2>2. QED BY <1>1, <1>6, <1>9, <2>1
<1>10. QED BY <1>3, <1>4, <1>6, <1>7, <1>8, <1>9 DEF SeedsOf

(* The nearest seed, the first of those that are as near.                  *)
Goes(part, n, i) ==
    /\ i \in 1 .. n
    /\ \A j \in 1 .. n : LET off(k) == Gap(Centre(part), Centre(Seeds(n)[k]))
                         IN  off(i) <= off(j) /\ (off(j) = off(i) => i <= j)

LEMMA NearestGoes ==
    ASSUME IsPicture(work), All, Boxed, NEW n \in Nat \ {0}, n <= Len(parts), NEW part \in ToSet(parts)
    PROVE  Goes(part, n, Nearest(part, Seeds(n)))
<1> DEFINE off(k) == Gap(Centre(part), Centre(Seeds(n)[k]))
           best == {i \in DOMAIN Seeds(n) : \A j \in DOMAIN Seeds(n) : off(i) <= off(j)}
           offs == {off(k) : k \in 1 .. n}
<1>1. PICK order : SeedsOf(n, order)
  BY SeedsList
<1>2. DOMAIN Seeds(n) = 1 .. n /\ \A k \in 1 .. n : Centre(Seeds(n)[k]) \in Nat
  BY <1>1 DEF SeedsOf
<1>3. Centre(part) \in Nat
  BY CentresAre
<1>4. \A k \in 1 .. n : off(k) \in Nat
  BY <1>2, <1>3 DEF Gap
<1>5. Nearest(part, Seeds(n)) = Min(best)
  BY DEF Nearest
<1> HIDE DEF off
<1>6. offs \subseteq Nat /\ off(1) \in offs
  BY <1>4
<1>7. \A k \in 1 .. n : off(k) \in offs
  OBVIOUS
<1>8. \A o \in offs : \E k \in 1 .. n : o = off(k)
  OBVIOUS
<1> HIDE DEF offs
<1>9. Min(offs) \in offs /\ \A o \in offs : Min(offs) <= o
  BY <1>6, LeastOf
<1>10. PICK m \in 1 .. n : Min(offs) = off(m)
  BY <1>8, <1>9
<1>11. m \in best
  BY <1>2, <1>7, <1>9, <1>10
<1>12. best \subseteq Nat /\ best # {}
  <2>1. \A i \in best : i \in 1 .. n
    BY <1>2
  <2> HIDE DEF best
  <2>2. QED BY <1>11, <2>1
<1>13. Min(best) \in best /\ \A i \in best : Min(best) <= i
  BY <1>12, LeastOf
<1>14. Min(best) \in 1 .. n /\ \A j \in 1 .. n : off(Min(best)) <= off(j)
  BY <1>2, <1>13
<1>15. ASSUME NEW j \in 1 .. n, off(j) = off(Min(best)) PROVE Min(best) <= j
  <2>1. j \in best
    BY <1>2, <1>14, <1>15
  <2>2. QED BY <1>13, <2>1
<1> HIDE DEF best
<1>16. QED BY <1>5, <1>14, <1>15 DEF Goes, off

(* The pieces that follow a seed, the nearest to them.                     *)
Following(i, n) == {part \in ToSet(parts) : Nearest(part, Seeds(n)) = i}

LEMMA SeedGoesFirst ==
    ASSUME IsPicture(work), All, Boxed, NEW n \in Nat \ {0}, n <= Len(parts),
           \A i \in 1 .. n : Following(i, n) # {}, NEW k \in 1 .. n
    PROVE  Nearest(Seeds(n)[k], Seeds(n)) = k
<1> DEFINE i == Nearest(Seeds(n)[k], Seeds(n))
<1>1. PICK order : SeedsOf(n, order)
  BY SeedsList
<1>2. \A j \in 1 .. n : Seeds(n)[j] \in ToSet(parts) /\ Centre(Seeds(n)[j]) \in Nat
  BY <1>1 DEF SeedsOf
<1>3. Goes(Seeds(n)[k], n, i)
  BY <1>2, NearestGoes
<1> HIDE DEF i
<1>4. i \in 1 .. n /\ Centre(Seeds(n)[i]) = Centre(Seeds(n)[k]) /\ i <= k
  <2> DEFINE c(j) == Centre(Seeds(n)[j])
  <2>1. i \in 1 .. n /\ Gap(c(k), c(i)) <= Gap(c(k), c(k)) /\ (Gap(c(k), c(k)) = Gap(c(k), c(i)) => i <= k)
    BY <1>3 DEF Goes
  <2>2. c(i) \in Nat /\ c(k) \in Nat
    BY <1>2, <2>1
  <2> HIDE DEF c
  <2>3. c(i) = c(k)
    BY <2>1, <2>2 DEF Gap
  <2>4. QED BY <2>1, <2>3 DEF c
<1>5. SUFFICES ASSUME i # k PROVE FALSE
  BY DEF i
<1>6. PICK part \in Following(k, n) : TRUE
  OBVIOUS
<1>7. part \in ToSet(parts) /\ Nearest(part, Seeds(n)) = k
  BY <1>6 DEF Following
<1>8. Goes(part, n, k)
  BY <1>7, NearestGoes
<1>9. k <= i
  BY <1>4, <1>8 DEF Goes
<1>10. QED BY <1>4, <1>5, <1>9

LEMMA GroupsAre ==
    ASSUME IsPicture(work), All, Boxed, NEW n \in Nat \ {0}, n <= Len(parts), NEW i \in 1 .. n,
           \A j \in 1 .. n : Following(j, n) # {}
    PROVE  /\ Seeds(n)[i] \in Group(i, Seeds(n))
           /\ Group(i, Seeds(n)) \subseteq Following(i, n)
           /\ sheet.drop # "labels" => Group(i, Seeds(n)) = Following(i, n)
<1> DEFINE all == Following(i, n)
           ks == {k \in DOMAIN parts : parts[k] \in all}
           main == parts[Min(ks)]
<1>1. PICK order : SeedsOf(n, order)
  BY SeedsList
<1>2. Seeds(n)[i] \in all
  BY <1>1, SeedGoesFirst DEF SeedsOf, Following
<1>3. Group(i, Seeds(n)) = IF sheet.drop = "labels" /\ Cardinality(all) >= 2
                           THEN {part \in all : part = main \/ ~IsLabel(part, main)}
                           ELSE all
  BY DEF Group, Following
<1>4. DOMAIN parts = 1 .. Len(parts) /\ Len(parts) \in Nat
  BY DEF All, Found
<1>5. order[i] \in 1 .. n /\ Seeds(n)[i] = parts[order[i]]
  BY <1>1 DEF SeedsOf
<1>6. order[i] \in ks
  BY <1>2, <1>4, <1>5
<1>7. \A k \in ks : k \in Nat
  BY <1>4
<1>8. \A k \in ks : k \in DOMAIN parts /\ parts[k] \in all
  OBVIOUS
<1>9. Min(ks) \in ks /\ \A k \in ks : Min(ks) <= k
  <2> HIDE DEF ks
  <2>1. ks \subseteq Nat /\ ks # {}
    BY <1>6, <1>7
  <2>2. QED BY <2>1, LeastOf
<1> DEFINE m == Min(ks)
<1>10. m \in 1 .. n
  <2> HIDE DEF ks
  <2>1. m \in 1 .. Len(parts)
    BY <1>4, <1>8, <1>9
  <2>2. m <= order[i]
    BY <1>6, <1>9
  <2> HIDE DEF m
  <2>3. QED BY <1>4, <1>5, <2>1, <2>2
<1>11. PICK j \in 1 .. n : order[j] = m
  BY <1>1, <1>10 DEF SeedsOf
<1>12. Seeds(n)[j] = main /\ main \in all
  BY <1>1, <1>8, <1>9, <1>11 DEF SeedsOf
<1>13. Nearest(Seeds(n)[j], Seeds(n)) = i /\ Nearest(Seeds(n)[j], Seeds(n)) = j
  BY <1>12, SeedGoesFirst DEF Following
<1>14. Seeds(n)[i] = main
  BY <1>12, <1>13
<1> HIDE DEF main, all
<1>15. QED BY <1>2, <1>3, <1>14 DEF all

(* The frames that RowFrames cuts.                                         *)
LEMMA FramesLaid ==
    ASSUME IsPicture(work), input \in Inputs, All, Boxed, InRow, Drawings <= Len(parts),
           NEW fr, fr = [i \in 1 .. Drawings |-> Frame(Groups(i))],
           \A i \in 1 .. Drawings : Groups(i) # {}
    PROVE  LaidAs(fr)
<1> DEFINE n == Drawings
<1>1. n \in Nat \ {0}
  BY RowAssumption DEF Drawings, InRow, sheet
<1>2. n <= Len(parts) /\ fr = [i \in 1 .. n |-> Frame(Groups(i))]
  OBVIOUS
<1>3. \A i : Groups(i) = Group(i, Seeds(n))
  BY DEF Groups
<1>4. \A i \in 1 .. n : Group(i, Seeds(n)) # {}
  BY <1>3
<1> HIDE DEF n
<1>5. \A i \in 1 .. n : Following(i, n) # {}
  <2>1. TAKE i \in 1 .. n
  <2>2. Group(i, Seeds(n)) # {}
    BY <1>4
  <2>3. Group(i, Seeds(n)) \subseteq Following(i, n)
    BY DEF Group, Following
  <2>4. QED BY <2>2, <2>3
<1>6. \A i \in 1 .. n : /\ Seeds(n)[i] \in Groups(i)
                        /\ Groups(i) \subseteq Following(i, n)
                        /\ sheet.drop # "labels" => Groups(i) = Following(i, n)
  BY <1>1, <1>2, <1>3, <1>5, GroupsAre
<1>7. \A i \in 1 .. n : Groups(i) \subseteq ToSet(parts)
  BY <1>6 DEF Following
<1>8. ASSUME sheet.drop # "labels", NEW part \in ToSet(parts)
      PROVE  \E i \in 1 .. n : part \in Groups(i) /\ \A j \in 1 .. n : part \in Groups(j) => i = j
  <2> DEFINE i == Nearest(part, Seeds(n))
  <2>1. i \in 1 .. n
    BY <1>1, <1>2, NearestGoes DEF Goes
  <2>2. \A j \in 1 .. n : part \in Groups(j) <=> i = j
    BY <1>6, <1>8 DEF Following
  <2> HIDE DEF i
  <2>3. QED BY <2>1, <2>2
<1>9. QED BY <1>1, <1>2, <1>6, <1>7, <1>8 DEF LaidAs, n

(* Of the frames of a row: their pixels, each in one of them.              *)
LEMMA PixelsOf ==
    ASSUME IsPicture(work), All, Laid, NEW i \in 1 .. Drawings
    PROVE  /\ Pix(i) \subseteq work.on /\ Pix(i) # {}
           /\ framed[i] = FromPixels(work, Pix(i))
           /\ Seeds(Drawings)[i].px \subseteq Pix(i)
<1>1. Groups(i) \subseteq ToSet(parts) /\ Seeds(Drawings)[i] \in Groups(i)
  BY DEF Laid, LaidAs
<1>2. Pix(i) \subseteq work.on
  BY <1>1, PiecesOn DEF Pix
<1>3. Seeds(Drawings)[i].px # {} /\ Seeds(Drawings)[i].px \subseteq Pix(i)
  BY <1>1, PiecesOn DEF Pix
<1>4. framed[i] = Frame(Groups(i))
  BY DEF Laid, LaidAs
<1>5. framed[i] = FromPixels(work, Pix(i))
  BY <1>4 DEF Frame, Pix
<1>6. QED BY <1>2, <1>3, <1>5

LEMMA PiecesApart ==
    ASSUME All, NEW a \in ToSet(parts), NEW b \in ToSet(parts), NEW p \in a.px, p \in b.px
    PROVE  a = b
<1>1. PICK i \in DOMAIN parts : a = parts[i]
  BY DEF ToSet
<1>2. PICK j \in DOMAIN parts : b = parts[j]
  BY DEF ToSet
<1>3. DOMAIN parts = 1 .. Len(parts)
  BY DEF All, Found
<1>4. parts[i].px = parts[j].px
  BY <1>1, <1>2, <1>3 DEF All, Found
<1>5. i = j
  BY <1>3, <1>4 DEF All, Found
<1>6. QED BY <1>1, <1>2, <1>5

(* Without captions, each pixel of the pieces is in one frame.             *)
LEMMA PixelsApart ==
    ASSUME All, Laid, sheet.drop # "labels"
    PROVE  /\ \A p \in UNION {part.px : part \in ToSet(parts)} : \E i \in 1 .. Drawings : p \in Pix(i)
           /\ \A i, j \in 1 .. Drawings : \A p : p \in Pix(i) /\ p \in Pix(j) => i = j
<1>1. ASSUME NEW p \in UNION {part.px : part \in ToSet(parts)}
      PROVE  \E i \in 1 .. Drawings : p \in Pix(i)
  <2>1. PICK part \in ToSet(parts) : p \in part.px
    OBVIOUS
  <2>2. PICK i \in 1 .. Drawings : part \in Groups(i)
    BY DEF Laid, LaidAs
  <2>3. QED BY <2>1, <2>2 DEF Pix
<1>2. ASSUME NEW i \in 1 .. Drawings, NEW j \in 1 .. Drawings, NEW p, p \in Pix(i), p \in Pix(j)
      PROVE  i = j
  <2>1. PICK a \in Groups(i) : p \in a.px
    BY <1>2 DEF Pix
  <2>2. PICK b \in Groups(j) : p \in b.px
    BY <1>2 DEF Pix
  <2>3. a \in ToSet(parts) /\ b \in ToSet(parts)
    BY DEF Laid, LaidAs
  <2>4. a = b
    BY <2>1, <2>2, <2>3, PiecesApart
  <2>5. PICK k \in 1 .. Drawings : \A l \in 1 .. Drawings : a \in Groups(l) => k = l
    BY <2>3 DEF Laid, LaidAs
  <2>6. k = i /\ k = j
    BY <2>4, <2>5
  <2>7. QED BY <2>6
<1>3. QED BY <1>1, <1>2

-----------------------------------------------------------------------------
(* The pictures of a row.                                                  *)

Placed(im, S) ==
    \E dx \in -work.w .. im.w, dy \in -work.h .. im.h : Shows(im, work, S, dx, dy)

LEMMA PlacedHolds ==
    ASSUME NEW im, NEW S, Placed(im, S), NEW R, R \subseteq S
    PROVE  Holds(im, R)
<1>1. PICK dx \in -work.w .. im.w, dy \in -work.h .. im.h : Shows(im, work, S, dx, dy)
  BY DEF Placed
<1>2. \A p \in R : /\ <<p[1] + dx, p[2] + dy>> \in im.on
                   /\ im.rgb[<<p[1] + dx, p[2] + dy>>] = work.rgb[p]
  BY <1>1 DEF Shows, Moved
<1>3. QED BY <1>2 DEF Holds

LEMMA PixAreInts ==
    ASSUME IsPicture(work), NEW S, S \subseteq work.on
    PROVE  \A p \in S : p = <<p[1], p[2]>> /\ p[1] \in Int /\ p[2] \in Int
<1>1. S \subseteq Area(work) /\ work.w \in Nat /\ work.h \in Nat
  BY DEF IsPicture
<1>2. QED BY <1>1, AreaPairs

LEMMA ShowsOnwards ==
    ASSUME NEW c, NEW f, NEW im, NEW S, \A p \in S : p[1] \in Int /\ p[2] \in Int,
           NEW x \in Int, NEW y \in Int, Shows(f, im, S, x, y),
           NEW a \in Int, NEW t \in Int, Shows(c, f, f.on, a, t)
    PROVE  Shows(c, im, S, x + a, y + t)
<1>1. ASSUME NEW p \in S
      PROVE  /\ <<p[1] + (x + a), p[2] + (y + t)>> \in c.on
             /\ c.rgb[<<p[1] + (x + a), p[2] + (y + t)>>] = im.rgb[p]
  <2> DEFINE q == <<p[1] + x, p[2] + y>>
  <2>1. q \in f.on /\ f.rgb[q] = im.rgb[p]
    BY DEF Shows, Moved
  <2>2. q[1] + a = p[1] + (x + a) /\ q[2] + t = p[2] + (y + t)
    OBVIOUS
  <2> HIDE DEF q
  <2>3. <<q[1] + a, q[2] + t>> \in c.on /\ c.rgb[<<q[1] + a, q[2] + t>>] = f.rgb[q]
    BY <2>1 DEF Shows, Moved
  <2>4. QED BY <2>1, <2>2, <2>3
<1>2. ASSUME NEW r \in c.on PROVE \E p \in S : r = <<p[1] + (x + a), p[2] + (y + t)>>
  <2>1. PICK q \in f.on : r = <<q[1] + a, q[2] + t>>
    BY DEF Shows, Moved
  <2>2. PICK p \in S : q = <<p[1] + x, p[2] + y>>
    BY DEF Shows, Moved
  <2>3. q[1] + a = p[1] + (x + a) /\ q[2] + t = p[2] + (y + t)
    BY <2>2
  <2>4. QED BY <2>1, <2>3
<1>3. c.on = Moved(S, x + a, y + t)
  BY <1>1, <1>2 DEF Moved
<1>4. QED BY <1>1, <1>3 DEF Shows

LEMMA FramesAre ==
    ASSUME IsPicture(work), All, Laid
    PROVE  /\ DOMAIN framed = 1 .. Drawings /\ Len(framed) = Drawings /\ Packable
           /\ \A i \in 1 .. Drawings : IsFrame(framed[i], work, Pix(i), BoxOf(Pix(i)))
<1>1. Drawings \in Nat \ {0} /\ framed = [i \in 1 .. Drawings |-> Frame(Groups(i))]
  BY DEF Laid, LaidAs
<1>2. DOMAIN framed = 1 .. Drawings /\ Len(framed) = Drawings
  BY <1>1
<1>3. \A i \in 1 .. Drawings : IsFrame(framed[i], work, Pix(i), BoxOf(Pix(i)))
  BY PixelsOf, FrameIs
<1>4. framed \in Seq(ToSet(framed))
  <2>1. framed \in [1 .. Drawings -> ToSet(framed)]
    BY <1>1, <1>2 DEF ToSet
  <2>2. QED BY <1>1, <2>1
<1>5. \A i \in 1 .. Len(framed) : /\ framed[i].w \in Nat \ {0} /\ framed[i].h \in Nat \ {0}
                                  /\ framed[i].on \subseteq Pixels(framed[i].w, framed[i].h)
  BY <1>2, <1>3 DEF IsFrame, Bounds
<1>6. Len(framed) # 0
  BY <1>1, <1>2
<1>7. QED BY <1>2, <1>3, <1>4, <1>5, <1>6 DEF Packable

(* The cells of a strip.                                                   *)
LEMMA StripPlaced ==
    ASSUME IsPicture(work), All, Laid, sheet.mode = "strip", rows = RowsLaid
    PROVE  /\ DOMAIN Cells = 1 .. Drawings
           /\ \A k \in 1 .. Drawings :
                 LET b == BoxOf(Pix(k))
                 IN  /\ Cells[k].w = CellW /\ Cells[k].h = CellH
                     /\ Cells[k].on \subseteq Pixels(CellW, CellH)
                     /\ Shows(Cells[k], work, Pix(k), -b.x + Aside(k), -b.y + Top(k))
<1>1. Packable /\ Len(framed) = Drawings /\ DOMAIN framed = 1 .. Drawings
  BY FramesAre
<1> DEFINE row == Row(sheet.ids[1], Pasted, Len(framed), CellW, CellH)
<1>2. rows = <<row>>
  BY <1>1, StripIsPasted DEF RowsLaid
<1>3. row.cellW = CellW /\ row.cellH = CellH /\ row.im = Pasted /\ row.frames = Drawings
  BY <1>1 DEF Row
<1> HIDE DEF row
<1>4. Cells = [k \in 1 .. Drawings |-> Cell(row, k)]
  BY <1>2, <1>3 DEF Cells
<1>5. ASSUME NEW k \in 1 .. Drawings, NEW b, b = BoxOf(Pix(k))
      PROVE  /\ Cells[k].w = CellW /\ Cells[k].h = CellH
             /\ Cells[k].on \subseteq Pixels(CellW, CellH)
             /\ Shows(Cells[k], work, Pix(k), -b.x + Aside(k), -b.y + Top(k))
  <2>1. k \in 1 .. Len(framed) /\ Cells[k] = Cell(row, k)
    BY <1>1, <1>4
  <2>2. /\ Cells[k].w = CellW /\ Cells[k].h = CellH
        /\ Shows(Cells[k], framed[k], framed[k].on, Aside(k), Top(k))
        /\ Cells[k].on \subseteq Pixels(CellW, CellH)
    BY <1>1, <1>3, <2>1, CellShows
  <2>3. IsFrame(framed[k], work, Pix(k), b)
    BY <1>5, FramesAre
  <2>4. Shows(framed[k], work, Pix(k), -b.x, -b.y) /\ -b.x \in Int /\ -b.y \in Int
    BY <2>3 DEF IsFrame, Bounds
  <2>5. framed[k].on # {}
    <3>1. Pix(k) # {}
      BY PixelsOf
    <3>2. QED BY <2>4, <3>1 DEF Shows, Moved
  <2>6. Aside(k) \in Int /\ Top(k) \in Int
    BY <1>1, <2>1, <2>5, InCell
  <2>7. \A p \in Pix(k) : p[1] \in Int /\ p[2] \in Int
    <3>1. Pix(k) \subseteq work.on
      BY PixelsOf
    <3>2. QED BY <3>1, PixAreInts
  <2>8. Shows(Cells[k], work, Pix(k), -b.x + Aside(k), -b.y + Top(k))
    BY <2>2, <2>4, <2>6, <2>7, ShowsOnwards
  <2>9. QED BY <2>2, <2>8
<1>6. DOMAIN Cells = 1 .. Drawings
  BY <1>4
<1>7. QED BY <1>5, <1>6

(* The drawing a cell is for.                                              *)
Drawn(k) == IF sheet.indices = <<>> THEN k ELSE sheet.indices[k] + 1

RowDone == IsPicture(work) /\ input \in Inputs /\ InRow /\ All /\ Laid /\ rows = RowsLaid

LEMMA FramePlaced ==
    ASSUME IsPicture(work), All, Laid, NEW i \in 1 .. Drawings
    PROVE  Placed(framed[i], Pix(i))
<1> DEFINE b == BoxOf(Pix(i))
<1>1. IsFrame(framed[i], work, Pix(i), b)
  BY FramesAre
<1> HIDE DEF b
<1>2. /\ b.x \in Nat /\ b.y \in Nat /\ b.w \in Nat \ {0} /\ b.h \in Nat \ {0}
      /\ b.x + b.w <= work.w /\ b.y + b.h <= work.h
      /\ framed[i].w = b.w /\ framed[i].h = b.h
      /\ Shows(framed[i], work, Pix(i), -b.x, -b.y)
  BY <1>1 DEF IsFrame, Bounds
<1>3. work.w \in Nat /\ work.h \in Nat
  BY DEF IsPicture
<1>4. -b.x \in -work.w .. framed[i].w /\ -b.y \in -work.h .. framed[i].h
  BY <1>2, <1>3
<1>5. QED BY <1>2, <1>4 DEF Placed

LEMMA StripCellPlaced ==
    ASSUME RowDone, sheet.mode = "strip", NEW k \in 1 .. Drawings
    PROVE  Placed(Cells[k], Pix(k))
<1> DEFINE b == BoxOf(Pix(k))
<1>1. /\ Cells[k].w = CellW /\ Cells[k].h = CellH
      /\ Shows(Cells[k], work, Pix(k), -b.x + Aside(k), -b.y + Top(k))
  BY StripPlaced DEF RowDone
<1>2. IsFrame(framed[k], work, Pix(k), b)
  BY FramesAre DEF RowDone
<1> HIDE DEF b
<1>3. /\ b.x \in Nat /\ b.y \in Nat /\ b.w \in Nat \ {0} /\ b.h \in Nat \ {0}
      /\ b.x + b.w <= work.w /\ b.y + b.h <= work.h
  BY <1>2 DEF IsFrame, Bounds
<1>4. work.w \in Nat /\ work.h \in Nat
  BY DEF IsPicture, RowDone
<1>5. Packable /\ Len(framed) = Drawings
  BY FramesAre DEF RowDone
<1>6. CellW \in Nat /\ CellH \in Nat
  BY <1>5, CellIs
<1>7. Aside(k) \in 0 .. CellW /\ Top(k) \in 0 .. CellH
  <2>1. framed[k].on # {}
    <3>1. Pix(k) # {}
      BY PixelsOf DEF RowDone
    <3>2. QED BY <1>2, <3>1 DEF IsFrame, Shows, Moved
  <2>2. PICK q \in framed[k].on : TRUE
    BY <2>1
  <2>3. /\ q[1] \in Nat /\ q[2] \in Nat /\ Aside(k) \in Nat /\ Top(k) \in Nat
        /\ q[1] + Aside(k) \in 0 .. CellW - 1 /\ q[2] + Top(k) \in 0 .. CellH - 1
    BY <1>5, InCell
  <2>4. QED BY <1>6, <2>3
<1>8. -b.x + Aside(k) \in -work.w .. Cells[k].w /\ -b.y + Top(k) \in -work.h .. Cells[k].h
  BY <1>1, <1>3, <1>4, <1>6, <1>7
<1>9. QED BY <1>1, <1>8 DEF Placed

LEMMA IndicesAre ==
    ASSUME RowDone
    PROVE  /\ sheet.mode = "strip" => sheet.indices = <<>>
           /\ sheet.mode = "variants" => sheet.indices \in Seq(0 .. Drawings - 1)
  BY RowAssumption DEF RowDone, sheet, Drawings

(* Every cell shows the pixels of its drawing and of what goes with it.    *)
LEMMA CellsPlaced ==
    ASSUME RowDone
    PROVE  /\ \A k \in DOMAIN Cells : Drawn(k) \in 1 .. Drawings /\ Placed(Cells[k], Pix(Drawn(k)))
           /\ sheet.indices = <<>> => DOMAIN Cells = 1 .. Drawings
<1>1. CASE sheet.mode = "strip"
  <2>1. sheet.indices = <<>> /\ DOMAIN Cells = 1 .. Drawings
    BY <1>1, IndicesAre, StripPlaced DEF RowDone
  <2>2. \A k \in DOMAIN Cells : Drawn(k) = k
    BY <2>1 DEF Drawn
  <2>3. QED BY <1>1, <2>1, <2>2, StripCellPlaced
<1>2. CASE sheet.mode = "variants"
  <2>1. rows = [k \in DOMAIN Chosen |-> Single(sheet.ids[k], Chosen[k])]
    BY <1>2 DEF RowDone, RowsLaid
  <2>2. Cells = [k \in DOMAIN Chosen |-> Chosen[k]]
    <3>1. Cells = [k \in DOMAIN rows |-> rows[k].im]
      BY <1>2 DEF Cells
    <3>2. DOMAIN rows = DOMAIN Chosen /\ \A k \in DOMAIN Chosen : rows[k].im = Chosen[k]
      BY <2>1 DEF Single, Row
    <3>3. QED BY <3>1, <3>2
  <2>3. DOMAIN framed = 1 .. Drawings
    BY FramesAre DEF RowDone
  <2>4. CASE sheet.indices = <<>>
    <3>1. DOMAIN Cells = 1 .. Drawings /\ \A k \in 1 .. Drawings : Cells[k] = framed[k] /\ Drawn(k) = k
      BY <2>2, <2>3, <2>4 DEF Chosen, Drawn
    <3>2. QED BY <3>1, FramePlaced DEF RowDone
  <2>5. CASE sheet.indices # <<>>
    <3>1. DOMAIN Cells = DOMAIN sheet.indices /\ \A k \in DOMAIN sheet.indices : Cells[k] = framed[Drawn(k)]
      BY <2>2, <2>5 DEF Chosen, Drawn
    <3>2. \A k \in DOMAIN sheet.indices : Drawn(k) \in 1 .. Drawings
      <4>1. TAKE k \in DOMAIN sheet.indices
      <4>2. sheet.indices[k] \in 0 .. Drawings - 1 /\ Drawings \in Nat
        BY <1>2, IndicesAre DEF RowDone, Laid, LaidAs
      <4>3. QED BY <2>5, <4>2 DEF Drawn
    <3>3. QED BY <2>5, <3>1, <3>2, FramePlaced DEF RowDone
  <2>6. QED BY <2>4, <2>5
<1>3. QED BY <1>1, <1>2 DEF RowDone, InRow

(* Where a drawing stands in its cell.                                     *)
LEMMA CellStands ==
    ASSUME RowDone, sheet.mode = "strip", NEW k \in 1 .. Drawings
    PROVE  LET box == OpaqueBox(Cells[k])
           IN  /\ Centred(box.x, box.w, Cells[k].w)
               /\ IF sheet.align = "bottom" THEN box.y + box.h = Cells[k].h
                  ELSE Centred(box.y, box.h, Cells[k].h)
<1> DEFINE b == BoxOf(Pix(k))
           o == OpaqueBox(Cells[k])
<1>1. /\ Cells[k].w = CellW /\ Cells[k].h = CellH
      /\ Cells[k].on \subseteq Pixels(CellW, CellH)
      /\ Shows(Cells[k], work, Pix(k), -b.x + Aside(k), -b.y + Top(k))
  BY StripPlaced DEF RowDone
<1>2. IsFrame(framed[k], work, Pix(k), b)
  BY FramesAre DEF RowDone
<1>3. Packable /\ Len(framed) = Drawings
  BY FramesAre DEF RowDone
<1>4. CellW \in Nat \ {0} /\ CellH \in Nat \ {0} /\ framed[k].w <= CellW /\ framed[k].h <= CellH
  BY <1>3, CellIs
<1>5. Pix(k) # {} /\ Pix(k) \subseteq work.on
  BY PixelsOf DEF RowDone
<1>6. \A p \in Pix(k) : p[1] \in Int /\ p[2] \in Int
  BY <1>5, PixAreInts DEF RowDone
<1> HIDE DEF b
<1>7. Cells[k].on # {}
  BY <1>1, <1>5 DEF Shows, Moved
<1>8. Bounds(Cells[k].on, o)
  <2>1. Cells[k].on \subseteq Area(Cells[k])
    BY <1>1 DEF Area
  <2>2. QED BY <1>1, <1>4, <1>7, <2>1, BoxBounds DEF OpaqueBox
<1> HIDE DEF o
<1>9. /\ b.x \in Nat /\ b.w \in Nat \ {0} /\ framed[k].w = b.w
      /\ b.y \in Nat /\ b.h \in Nat \ {0} /\ framed[k].h = b.h
      /\ Bounds(Pix(k), b)
  BY <1>2 DEF IsFrame, Bounds
<1>10. Aside(k) \in Int /\ Top(k) \in Int
  <2>1. framed[k].on # {}
    BY <1>2, <1>5 DEF IsFrame, Shows, Moved
  <2>2. QED BY <1>3, <2>1, InCell
<1>11. /\ o.x = b.x + (-b.x + Aside(k)) /\ o.w = b.w
       /\ o.y = b.y + (-b.y + Top(k)) /\ o.h = b.h
  <2>1. -b.x + Aside(k) \in Int /\ -b.y + Top(k) \in Int
    BY <1>9, <1>10
  <2>2. Bounds(Moved(Pix(k), -b.x + Aside(k), -b.y + Top(k)), o)
    BY <1>1, <1>8 DEF Shows
  <2>3. QED BY <1>6, <1>9, <2>1, <2>2, BoxMoves
<1>12. o.x = Aside(k) /\ o.w = framed[k].w /\ o.y = Top(k) /\ o.h = framed[k].h
  BY <1>9, <1>10, <1>11
<1>13. framed[k].w \in Nat /\ framed[k].h \in Nat /\ CellH - framed[k].h \in Nat
  BY <1>4, <1>9
<1>14. \A length, room \in Nat : length <= room => Centred((room - length) \div 2, length, room)
  BY DEF Centred
<1>15. Centred(o.x, o.w, Cells[k].w)
  BY <1>1, <1>4, <1>12, <1>13, <1>14 DEF Aside
<1>16. CASE sheet.align = "bottom"
  <2>1. o.y = CellH - framed[k].h
    BY <1>12, <1>16 DEF Top
  <2>2. o.y + o.h = Cells[k].h
    BY <1>1, <1>4, <1>12, <1>13, <2>1
  <2>3. QED BY <1>15, <1>16, <2>2 DEF o
<1>17. CASE sheet.align # "bottom"
  <2>1. o.y = (CellH - framed[k].h) \div 2
    BY <1>12, <1>17 DEF Top
  <2>2. Centred(o.y, o.h, Cells[k].h)
    BY <1>1, <1>4, <1>12, <1>13, <1>14, <2>1
  <2>3. QED BY <1>15, <1>17, <2>2 DEF o
<1>18. QED BY <1>16, <1>17

(* Without captions, the cells show every pixel of the pieces once.        *)
LEMMA AsManyShown ==
    ASSUME RowDone, sheet.drop # "labels", sheet.indices = <<>>
    PROVE  Cardinality(UNION {{k} \X Cells[k].on : k \in DOMAIN Cells})
              = Cardinality(UNION {part.px : part \in ToSet(parts)})
<1> DEFINE n == Drawings
           S == UNION {part.px : part \in ToSet(parts)}
           T == UNION {{k} \X Cells[k].on : k \in DOMAIN Cells}
           d == [k \in 1 .. n |-> CHOOSE e \in Int \X Int : Shows(Cells[k], work, Pix(k), e[1], e[2])]
           home == [p \in S |-> CHOOSE k \in 1 .. n : p \in Pix(k)]
           f == [p \in S |-> <<home[p], <<p[1] + d[home[p]][1], p[2] + d[home[p]][2]>>>>]
<1>1. DOMAIN Cells = 1 .. n /\ \A k \in 1 .. n : Placed(Cells[k], Pix(k))
  BY CellsPlaced DEF Drawn
<1>2. \A k \in 1 .. n : d[k] \in Int \X Int /\ Shows(Cells[k], work, Pix(k), d[k][1], d[k][2])
  <2>1. TAKE k \in 1 .. n
  <2>2. PICK x \in -work.w .. Cells[k].w, y \in -work.h .. Cells[k].h : Shows(Cells[k], work, Pix(k), x, y)
    BY <1>1 DEF Placed
  <2>3. <<x, y>> \in Int \X Int /\ Shows(Cells[k], work, Pix(k), <<x, y>>[1], <<x, y>>[2])
    BY <2>2
  <2>4. \E e \in Int \X Int : Shows(Cells[k], work, Pix(k), e[1], e[2])
    BY <2>3
  <2>5. QED BY <2>4
<1>3. S \subseteq work.on
  BY PiecesOn DEF RowDone
<1>4. \A p \in S : p = <<p[1], p[2]>> /\ p[1] \in Int /\ p[2] \in Int
  BY <1>3, PixAreInts DEF RowDone
<1>5. IsFiniteSet(S)
  BY <1>3, OnIsFinite, FS_Subset DEF RowDone
<1>6. \A k \in 1 .. n : Pix(k) \subseteq S
  <2>1. \A k \in 1 .. n : Groups(k) \subseteq ToSet(parts)
    BY DEF RowDone, Laid, LaidAs
  <2>2. QED BY <2>1 DEF Pix
<1>7. /\ \A p \in S : \E k \in 1 .. n : p \in Pix(k)
      /\ \A i, j \in 1 .. n : \A p : p \in Pix(i) /\ p \in Pix(j) => i = j
  BY PixelsApart DEF RowDone
<1>8. \A t : t \in T <=> \E k \in 1 .. n : \E q \in Cells[k].on : t = <<k, q>>
  <2>1. ASSUME NEW t, t \in T PROVE \E k \in 1 .. n : \E q \in Cells[k].on : t = <<k, q>>
    BY <1>1, <2>1
  <2>2. ASSUME NEW k \in 1 .. n, NEW q \in Cells[k].on PROVE <<k, q>> \in T
    BY <1>1
  <2>3. QED BY <2>1, <2>2
<1> HIDE DEF n, S, T, d
<1>9. \A p \in S : home[p] \in 1 .. n /\ p \in Pix(home[p])
  BY <1>7
<1> HIDE DEF home
<1>10. \A p \in S : f[p] = <<home[p], <<p[1] + d[home[p]][1], p[2] + d[home[p]][2]>>>>
  OBVIOUS
<1>11. \A p \in S : f[p] \in T
  <2>1. TAKE p \in S
  <2>2. <<p[1] + d[home[p]][1], p[2] + d[home[p]][2]>> \in Cells[home[p]].on
    BY <1>2, <1>9 DEF Shows, Moved
  <2>3. QED BY <1>8, <1>9, <1>10, <2>2
<1>12. f \in [S -> T]
  BY <1>11
<1> HIDE DEF f
<1>13. \A p, q \in S : f[p] = f[q] => p = q
  <2>1. SUFFICES ASSUME NEW p \in S, NEW q \in S, f[p] = f[q] PROVE p = q
    OBVIOUS
  <2> DEFINE k == home[p]
             x == d[k][1]
             y == d[k][2]
  <2>2. <<home[p], <<p[1] + d[home[p]][1], p[2] + d[home[p]][2]>>>>
          = <<home[q], <<q[1] + d[home[q]][1], q[2] + d[home[q]][2]>>>>
    BY <1>10, <2>1
  <2>3. home[q] = k
    BY <2>2
  <2>4. p[1] + x = q[1] + x /\ p[2] + y = q[2] + y
    BY <2>2, <2>3
  <2>5. x \in Int /\ y \in Int
    BY <1>2, <1>9
  <2> HIDE DEF x, y
  <2>6. p[1] \in Int /\ p[2] \in Int /\ q[1] \in Int /\ q[2] \in Int
    BY <1>4
  <2>7. p[1] = q[1] /\ p[2] = q[2]
    BY <2>4, <2>5, <2>6, SumTells
  <2>8. p = <<p[1], p[2]>> /\ q = <<q[1], q[2]>>
    BY <1>4
  <2>9. QED BY <2>7, <2>8
<1>14. \A t \in T : \E p \in S : f[p] = t
  <2>1. TAKE t \in T
  <2>2. PICK k \in 1 .. n : \E q \in Cells[k].on : t = <<k, q>>
    BY <1>8
  <2>3. PICK q \in Cells[k].on : t = <<k, q>>
    BY <2>2
  <2>4. PICK p \in Pix(k) : q = <<p[1] + d[k][1], p[2] + d[k][2]>>
    BY <1>2 DEF Shows, Moved
  <2>5. p \in S /\ home[p] = k
    BY <1>6, <1>7, <1>9
  <2>6. f[p] = t
    BY <1>10, <2>3, <2>4, <2>5
  <2>7. QED BY <2>5, <2>6
<1>15. f \in Bijection(S, T)
  BY <1>12, <1>13, <1>14 DEF Bijection, Injection, Surjection, IsInjective
<1>16. ExistsBijection(S, T)
  BY <1>15 DEF ExistsBijection
<1>17. Cardinality(T) = Cardinality(S)
  BY <1>5, <1>16, FS_Bijection
<1>18. QED BY <1>17 DEF S, T

LEMMA RowShows ==
    ASSUME RowDone
    PROVE  RowIsWhole
<1>1. ASSUME NEW k \in DOMAIN Cells
      PROVE  Holds(Cells[k], Seeds(Drawings)[Drawn(k)].px)
  <2>1. Drawn(k) \in 1 .. Drawings /\ Placed(Cells[k], Pix(Drawn(k)))
    BY CellsPlaced
  <2>2. Seeds(Drawings)[Drawn(k)].px \subseteq Pix(Drawn(k))
    BY <2>1, PixelsOf DEF RowDone
  <2>3. QED BY <2>1, <2>2, PlacedHolds
<1>2. ASSUME sheet.drop # "labels", sheet.indices = <<>>, NEW i \in DOMAIN parts
      PROVE  \E k \in DOMAIN Cells : Holds(Cells[k], parts[i].px)
  <2>1. parts[i] \in ToSet(parts)
    BY DEF ToSet
  <2>2. PICK k \in 1 .. Drawings : parts[i] \in Groups(k)
    BY <1>2, <2>1 DEF RowDone, Laid, LaidAs
  <2>3. parts[i].px \subseteq Pix(k)
    BY <2>2 DEF Pix
  <2>4. k \in DOMAIN Cells /\ Drawn(k) = k
    BY <1>2, CellsPlaced DEF Drawn
  <2>5. Placed(Cells[k], Pix(k))
    BY <2>4, CellsPlaced
  <2>6. QED BY <2>3, <2>4, <2>5, PlacedHolds
<1>3. ASSUME sheet.mode = "strip", NEW k \in DOMAIN Cells
      PROVE  LET box == OpaqueBox(Cells[k])
             IN  /\ Centred(box.x, box.w, Cells[k].w)
                 /\ IF sheet.align = "bottom" THEN box.y + box.h = Cells[k].h
                    ELSE Centred(box.y, box.h, Cells[k].h)
  <2>1. k \in 1 .. Drawings
    BY <1>3, StripPlaced DEF RowDone
  <2>2. QED BY <1>3, <2>1, CellStands
<1>4. QED BY <1>1, <1>2, <1>3, AsManyShown DEF RowIsWhole, Drawn

-----------------------------------------------------------------------------
(* Every step.                                                             *)

LEMMA SameGroups ==
    ASSUME UNCHANGED <<parts, input>>
    PROVE  \A i : Groups(i)' = Groups(i)
  BY DEF Groups, Group, Seeds, Sorted, Nearest, Centre, Drawings, sheet

LEMMA SameLaid ==
    ASSUME UNCHANGED <<parts, input, work>>, LaidAs(framed')
    PROVE  Laid'
<1>1. Drawings' = Drawings /\ sheet' = sheet
  BY DEF Drawings, sheet
<1>2. Seeds(Drawings)' = Seeds(Drawings)
  BY DEF Seeds, Sorted, Centre, Drawings, sheet
<1>3. \A i : Frame(Groups(i))' = Frame(Groups(i))
  BY SameGroups DEF Frame
<1>4. QED BY <1>1, <1>2, <1>3, SameGroups DEF Laid, LaidAs

LEMMA SameRows ==
    ASSUME UNCHANGED <<framed, input>>
    PROVE  RowsLaid' = RowsLaid
<1>1. sheet' = sheet
  BY DEF sheet
<1>2. Chosen' = Chosen
  BY <1>1 DEF Chosen
<1>3. PackStrip(sheet.align)' = PackStrip(sheet.align)
  BY <1>1 DEF PackStrip, FoldLeftDomain, FoldLeft, MapThenFoldSet
<1>4. QED BY <1>1, <1>2, <1>3 DEF RowsLaid

LEMMA SameSheet ==
    ASSUME UNCHANGED input
    PROVE  UNCHANGED <<sheet, InRow, AsItIs, PickLargest, Least, Drawings>>
  BY DEF sheet, InRow, AsItIs, PickLargest, Least, Drawings

(* The rank of every piece.                                                *)
LEMMA RankSorts ==
    ASSUME PieceInv, Boxed, Rank
    PROVE  Boxed' /\ BySize'
<1> DEFINE first(i, j) == \/ parts[i].area > parts[j].area
                          \/ (parts[i].area = parts[j].area /\ i < j)
           order == Sorted(DOMAIN parts, first)
           n == Len(parts)
           T == 1 .. n
           D == [e \in T |-> {d \in T : first(d, e)}]
<1>1. /\ stage = "gather" /\ piece = <<>> /\ Unmet = {}
      /\ parts' = [k \in DOMAIN parts |-> parts[order[k]]]
  BY DEF Rank
<1>2. IsFiniteSet(work.on) /\ Found(work.on, seen \ Queued(piece), parts, Least) /\ seen \subseteq work.on
  BY <1>1, OnIsFinite DEF PieceInv, Gathering
<1>3. DOMAIN parts = T /\ n \in Nat
  BY <1>2 DEF Found
<1>4. \A i \in T : parts[i].area \in Nat /\ i \in Nat
  <2>1. seen \ Queued(piece) \subseteq work.on
    BY <1>2
  <2>2. QED BY <1>2, <1>3, <2>1, AreaIsNumber
<1>5. IsFiniteSet(T) /\ Cardinality(T) = n
  <2>1. 1 \in Int /\ n \in Int
    BY <1>3
  <2> HIDE DEF n
  <2>2. IsFiniteSet(1 .. n) /\ Cardinality(1 .. n) = IF 1 > n THEN 0 ELSE n - 1 + 1
    BY ONLY <2>1, FS_Interval
  <2>3. QED BY <1>3, <2>2
<1>6. \A e \in T : D[e] = {d \in T : first(d, e)}
  OBVIOUS
<1>7. order = [k \in 1 .. Cardinality(T) |-> CHOOSE e \in T : Cardinality({d \in T : first(d, e)}) = k - 1]
  BY <1>3 DEF Sorted
<1> HIDE DEF D, order
<1>8. Ordered(T, D)
  <2>1. /\ \A i, j, k \in T : first(i, j) /\ first(j, k) => first(i, k)
        /\ \A i \in T : ~first(i, i)
        /\ \A i, j \in T : i = j \/ first(i, j) \/ first(j, i)
    BY <1>4
  <2> HIDE DEF first, T
  <2>2. QED BY <1>6, <2>1 DEF Ordered
<1> HIDE DEF T, first
<1>9. \A k \in 1 .. n : order[k] \in T /\ Cardinality(D[order[k]]) = k - 1
  <2>1. TAKE k \in 1 .. n
  <2>2. order[k] = CHOOSE e \in T : Cardinality({d \in T : first(d, e)}) = k - 1
    BY <1>5, <1>7
  <2>3. PICK e \in T : Cardinality(D[e]) = k - 1
    BY <1>5, <1>8, EveryRank
  <2>4. order[k] \in T /\ Cardinality({d \in T : first(d, order[k])}) = k - 1
    BY <1>6, <2>2, <2>3
  <2>5. QED BY <1>6, <2>4
<1>10. T = 1 .. n /\ DOMAIN parts' = T /\ \A k \in T : parts'[k] = parts[order[k]]
  BY <1>1, <1>3 DEF T
<1>11. Boxed'
  BY <1>3, <1>9, <1>10 DEF Boxed
<1>12. ASSUME NEW i \in T, NEW j \in T, i < j
       PROVE  parts'[i].area >= parts'[j].area
  <2>1. order[i] \in D[order[j]]
    <3>1. i \in 1 .. n /\ j \in 1 .. n
      BY <1>10
    <3>2. QED BY <1>3, <1>5, <1>8, <1>9, <1>12, <3>1, RankedInOrder
  <2>2. order[i] \in T /\ order[j] \in T
    BY <1>9, <1>10
  <2>3. first(order[i], order[j])
    BY <1>6, <2>1, <2>2
  <2>4. parts[order[i]].area >= parts[order[j]].area
    BY <1>4, <2>2, <2>3 DEF first
  <2>5. QED BY <1>10, <2>4
<1>13. BySize'
  BY <1>10, <1>12 DEF BySize
<1>14. QED BY <1>11, <1>13

(* The largest piece, alone.                                               *)
LEMMA PieceAlone ==
    ASSUME NEW S, IsFiniteSet(S), NEW px, px \subseteq S, \A p \in px : Whole(S, p) = px
    PROVE  \A p \in px : Whole(px, p) = px
<1>1. IsFiniteSet(px)
  BY FS_Subset
<1> TAKE p \in px
<1> DEFINE T == Whole(px, p)
<1>2. p \in T /\ T \subseteq px /\ \A q \in T : Around(q) \cap px \subseteq T
  BY <1>1, WholeIsLeast
<1> HIDE DEF T
<1>3. \A q \in T : Around(q) \cap S \subseteq T
  <2>1. TAKE q \in T
  <2>2. q \in px /\ q \in S
    BY <1>2
  <2>3. q \in Whole(S, q) /\ \A a \in Whole(S, q) : Around(a) \cap S \subseteq Whole(S, q)
    BY <2>2, WholeIsLeast
  <2>4. Around(q) \cap S \subseteq px
    BY <2>2, <2>3
  <2>5. Around(q) \cap px \subseteq T
    BY <1>2
  <2>6. QED BY <2>4, <2>5
<1>4. p \in S
  OBVIOUS
<1>5. Whole(S, p) \subseteq T
  BY <1>2, <1>3, <1>4, WholeIsLeast
<1>6. Whole(S, p) = px
  OBVIOUS
<1>7. QED BY <1>2, <1>5, <1>6 DEF T

LEMMA LargestAlone ==
    ASSUME IsPicture(work), All, BySize, parts # <<>>, UNCHANGED parts, work' = KeepLargest,
           work'.on # {}, rows' = <<Single(sheet.ids[1], CropBox(work', OpaqueBox(work'), 1))>>
    PROVE  Alone'
<1> DEFINE px == parts[1].px
<1>1. DOMAIN parts = 1 .. Len(parts) /\ Len(parts) \in Nat /\ parts \in Seq(ToSet(parts))
  BY DEF All, Found
<1>2. 1 \in 1 .. Len(parts)
  BY <1>1
<1>3. px \subseteq work.on /\ (\A p \in px : Whole(work.on, p) = px) /\ parts[1].area = Cardinality(px)
  BY <1>2 DEF All, Found
<1>4. \A i \in 1 .. Len(parts) : parts[i].area \in Nat
  <2>1. IsFiniteSet(work.on)
    BY OnIsFinite
  <2>2. QED BY <2>1, AreaIsNumber DEF All
<1> HIDE DEF px
<1>5. work'.on = px
  <2>1. work'.on = work.on \ (work.on \ px)
    BY WithoutPicture DEF KeepLargest, px
  <2>2. QED BY <1>3, <2>1
<1>6. \A p \in px : Whole(px, p) = px
  BY <1>3, OnIsFinite, PieceAlone
<1>7. \A i \in 1 .. Len(parts) : parts[i].area <= Cardinality(px)
  <2>1. TAKE i \in 1 .. Len(parts)
  <2>2. i = 1 \/ 1 < i
    BY <1>1
  <2>3. 1 < i => parts[1].area >= parts[i].area
    BY <1>1, <1>2 DEF BySize
  <2>4. QED BY <1>2, <1>3, <1>4, <2>2, <2>3
<1>8. rows'[1].im = CropBox(work', OpaqueBox(work'), 1)
  BY DEF Single, Row
<1>9. QED BY <1>1, <1>5, <1>6, <1>7, <1>8 DEF Alone

LEMMA WholeInit == Init => WholeInv
  BY DEF Init, WholeInv

LEMMA ElsewhereWhole ==
    ASSUME stage' \in {"load", "flood", "failed"} \cup Fringing
    PROVE  WholeInv'
  BY DEF WholeInv, Fringing

LEMMA GatherWhole ==
    ASSUME PieceInv, WholeInv, StartGather \/ OpenPiece \/ Grow \/ ClosePiece
    PROVE  WholeInv'
<1>1. SUFFICES Boxed'
  <2>1. stage' = "gather"
    BY DEF StartGather, OpenPiece, Grow, ClosePiece, cutVars
  <2>2. QED BY <2>1 DEF WholeInv
<1>2. CASE StartGather
  <2>1. parts' = <<>>
    BY <1>2 DEF StartGather, gatherVars, PieceInv, Untouched, Fringing
  <2>2. QED BY <2>1 DEF Boxed
<1>3. CASE OpenPiece \/ Grow
  <2>1. parts' = parts /\ Boxed
    BY <1>3 DEF OpenPiece, Grow, WholeInv
  <2>2. QED BY <2>1 DEF Boxed
<1>4. CASE ClosePiece
  <2>1. /\ parts' = IF Len(piece) >= Least THEN Append(parts, Part(piece)) ELSE parts
        /\ Boxed /\ parts \in Seq(ToSet(parts))
    BY <1>4 DEF ClosePiece, WholeInv, PieceInv, Found
  <2>2. CASE parts' = parts
    BY <2>1, <2>2 DEF Boxed
  <2>3. CASE parts' = Append(parts, Part(piece))
    <3>1. Part(piece).box = BoxOf(Part(piece).px)
      BY DEF Part
    <3>2. \A i \in DOMAIN parts' : parts'[i] = Part(piece) \/ (i \in DOMAIN parts /\ parts'[i] = parts[i])
      BY <2>1, <2>3
    <3>3. QED BY <2>1, <3>1, <3>2 DEF Boxed
  <2>4. QED BY <2>1, <2>2, <2>3
<1>5. QED BY <1>2, <1>3, <1>4

LEMMA RowWhole ==
    ASSUME PieceInv, WholeInv, RowFrames
    PROVE  WholeInv'
<1>1. stage = "ranked" /\ InRow /\ All /\ Boxed /\ IsPicture(work) /\ input \in Inputs
  BY DEF RowFrames, WholeInv, PieceInv, All
<1>2. UNCHANGED <<parts, input, work>>
  BY DEF RowFrames, gatherVars
<1>3. CASE stage' = "failed"
  BY <1>3, ElsewhereWhole
<1>4. CASE stage' # "failed"
  <2>1. /\ ~(Len(parts) < Drawings) /\ stage' = "framed"
        /\ ~(\E i \in 1 .. Drawings : Groups(i) = {})
        /\ framed' = [i \in 1 .. Drawings |-> Frame(Groups(i))]
    BY <1>4 DEF RowFrames, Fail, Groups
  <2>2. Drawings \in Nat /\ Len(parts) \in Nat
    BY <1>1, RowAssumption DEF Drawings, InRow, sheet, All, Found
  <2>3. LaidAs(framed')
    BY <1>1, <2>1, <2>2, FramesLaid
  <2>4. Laid'
    BY <1>2, <2>3, SameLaid
  <2>5. InRow' /\ All'
    BY <1>1, <1>2, SameSheet DEF All, Found
  <2>6. QED BY <2>1, <2>4, <2>5 DEF WholeInv
<1>5. QED BY <1>3, <1>4

LEMMA AnswerWhole ==
    ASSUME PieceInv, WholeInv, Strip \/ Variants
    PROVE  WholeInv'
<1>1. stage = "framed" /\ InRow /\ All /\ Laid
  BY DEF Strip, Variants, WholeInv
<1>2. UNCHANGED <<parts, input, work, framed>>
  BY DEF Strip, Variants, gatherVars
<1>3. CASE stage' = "failed"
  BY <1>3, ElsewhereWhole
<1>4. CASE stage' # "failed"
  <2>1. stage' = "done" /\ rows' = RowsLaid
    BY <1>4 DEF Strip, Variants, Answer, Fail, RowsLaid, Chosen
  <2>2. Laid'
    <3>1. LaidAs(framed')
      BY <1>1, <1>2 DEF Laid
    <3>2. QED BY <1>2, <3>1, SameLaid
  <2>3. InRow' /\ All'
    BY <1>1, <1>2, SameSheet DEF All, Found
  <2>4. rows' = RowsLaid'
    BY <1>2, <2>1, SameRows
  <2>5. ~(sheet'.mode = "still")
    BY <2>3 DEF InRow, sheet
  <2>6. QED BY <2>1, <2>2, <2>3, <2>4, <2>5 DEF WholeInv
<1>5. QED BY <1>3, <1>4

LEMMA StillWhole ==
    ASSUME PieceInv, WholeInv, Largest \/ Still
    PROVE  WholeInv'
<1>1. stage = "ranked" /\ All /\ Boxed /\ BySize /\ IsPicture(work) /\ input \in Inputs
  BY DEF Largest, Still, WholeInv, PieceInv, All
<1>2. UNCHANGED <<parts, input>> /\ sheet.mode = "still" /\ ~InRow'
  BY DEF Largest, Still, gatherVars, PickLargest, InRow, sheet
<1>3. CASE stage' = "failed"
  BY <1>3, ElsewhereWhole
<1>4. CASE Largest /\ stage' # "failed"
  <2>1. /\ stage' = "done" /\ PickLargest' /\ work' = KeepLargest /\ work'.on # {}
        /\ rows' = <<Single(sheet.ids[1], CropBox(work', OpaqueBox(work'), 1))>>
    BY <1>2, <1>4, SameSheet DEF Largest, Answer, Fail
  <2>2. parts # <<>> => Alone'
    BY <1>1, <1>2, <2>1, LargestAlone
  <2>3. QED BY <1>2, <2>1, <2>2 DEF WholeInv
<1>5. CASE Still /\ stage' # "failed"
  <2>1. /\ stage' = "done" /\ ~PickLargest' /\ UNCHANGED work
        /\ rows' = <<Single(sheet.ids[1], StillCrop)>>
    BY <1>2, <1>5, SameSheet DEF Still, Answer, Fail
  <2>2. rows'[1].im = StillCrop
    BY <2>1 DEF Single, Row
  <2>3. StillCrop' = StillCrop
    BY <1>2, <2>1 DEF StillCrop
  <2>4. All' /\ Boxed'
    BY <1>1, <1>2, <2>1, SameSheet DEF All, Found, Boxed
  <2>5. QED BY <1>2, <2>1, <2>2, <2>3, <2>4 DEF WholeInv
<1>6. QED BY <1>3, <1>4, <1>5

LEMMA SameWhole ==
    ASSUME WholeInv, UNCHANGED vars
    PROVE  WholeInv'
<1>1. UNCHANGED <<stage, parts, input, work, framed, rows>>
  BY DEF vars, cutVars, gatherVars
<1>2. UNCHANGED <<sheet, InRow, AsItIs, PickLargest, Least, Drawings>>
  BY <1>1, SameSheet
<1>3. (Boxed => Boxed') /\ (BySize => BySize') /\ (All => All')
  BY <1>1, <1>2 DEF Boxed, BySize, All, Found
<1>4. Laid => Laid'
  <2>1. Laid => LaidAs(framed')
    BY <1>1 DEF Laid
  <2>2. QED BY <1>1, <2>1, SameLaid
<1>5. (Alone => Alone') /\ StillCrop' = StillCrop /\ RowsLaid' = RowsLaid
  BY <1>1, SameRows DEF Alone, StillCrop
<1>6. QED BY <1>1, <1>2, <1>3, <1>4, <1>5 DEF WholeInv

LEMMA WholeNext ==
    ASSUME PieceInv, WholeInv, [Next]_vars
    PROVE  WholeInv'
<1>1. CASE Load
  <2>1. stage' \in {"flood", "cut"}
    BY <1>1 DEF Load, KnockOut
  <2>2. QED BY <2>1, ElsewhereWhole DEF Fringing
<1>2. CASE CutOut
  <2>1. stage' \in {"flood"} \cup Fringing
    BY <1>2 DEF CutOut, Cut, Pass, Mark, Flooded, Fringe, Fringing
  <2>2. QED BY <2>1, ElsewhereWhole
<1>3. CASE BadKey \/ BadMode
  BY <1>3, ElsewhereWhole DEF BadKey, BadMode, Fail
<1>4. CASE Plate
  <2>1. stage' = "done" /\ AsItIs /\ UNCHANGED input
    BY <1>4 DEF Plate, Answer
  <2>2. AsItIs' /\ ~InRow'
    BY <2>1 DEF AsItIs, PickLargest, InRow, sheet
  <2>3. QED BY <2>1, <2>2 DEF WholeInv
<1>5. CASE Rank
  <2>1. Boxed /\ stage' = "ranked"
    BY <1>5 DEF Rank, WholeInv
  <2>2. Boxed' /\ BySize'
    BY <1>5, <2>1, RankSorts
  <2>3. QED BY <2>1, <2>2 DEF WholeInv
<1>6. QED
  BY <1>1, <1>2, <1>3, <1>4, <1>5, GatherWhole, RowWhole, AnswerWhole, StillWhole, SameWhole DEF Next

LEMMA AlwaysWhole == Spec => []WholeInv
<1>1. PieceInv /\ WholeInv /\ [Next]_vars => WholeInv'
  BY WholeNext
<1>2. QED BY <1>1, WholeInit, AlwaysPieces, PTL DEF Spec

(* A cut never goes through a drawing: every piece of a row is whole in    *)
(* the one frame it goes with, on the floor or in the middle of its cell,  *)
(* nothing else is shown, and a still keeps what it is told to keep, with  *)
(* the frames and the strips that slice_cast packs, on a sheet of any size *)
(* with any pieces on it.                                                  *)
THEOREM PiecesKeptWhole == Spec => []PiecesStayWhole
<1>1. ASSUME PieceInv, WholeInv PROVE PiecesStayWhole
  <2>1. IsPicture(work) /\ input \in Inputs
    BY <1>1 DEF PieceInv
  <2>2. ASSUME Done, InRow PROVE RowIsWhole
    <3>1. RowDone
      BY <1>1, <2>1, <2>2 DEF WholeInv, Done, RowDone
    <3>2. QED BY <3>1, RowShows
  <2>3. ASSUME Done, sheet.mode = "still", ~AsItIs, parts # <<>> PROVE StillIsWhole
    <3>1. IF PickLargest THEN Alone ELSE All /\ Boxed /\ rows[1].im = StillCrop
      BY <1>1, <2>3 DEF WholeInv, Done
    <3>2. QED BY <2>1, <2>3, <3>1, AloneIsWhole, StillShows
  <2>4. QED BY <2>2, <2>3 DEF PiecesStayWhole
<1>2. PieceInv /\ WholeInv => PiecesStayWhole
  BY <1>1
<1>3. QED BY <1>2, AlwaysPieces, AlwaysWhole, PTL

-----------------------------------------------------------------------------
(* What a row is refused for.                                              *)

(* No two of the seeds have one centre.                                    *)
SeedsApart(n) ==
    \A i, j \in 1 .. n : i # j => Centre(Seeds(n)[i]) # Centre(Seeds(n)[j])

(* Without a tie every seed is nearest to itself; with one, the seed on    *)
(* the left has them all.                                                  *)
LEMMA TieLeavesNothing ==
    ASSUME IsPicture(work), All, Boxed, NEW n \in Nat \ {0}, n <= Len(parts)
    PROVE  (\A i \in 1 .. n : Following(i, n) # {}) <=> SeedsApart(n)
<1> DEFINE c(i) == Centre(Seeds(n)[i])
<1>1. PICK order : SeedsOf(n, order)
  BY SeedsList
<1>2. \A i \in 1 .. n : Seeds(n)[i] \in ToSet(parts) /\ c(i) \in Nat
  BY <1>1 DEF SeedsOf
<1>3. ASSUME \A i \in 1 .. n : Following(i, n) # {}, NEW i \in 1 .. n, NEW j \in 1 .. n, i < j
      PROVE  c(i) # c(j)
  <2>1. Nearest(Seeds(n)[j], Seeds(n)) = j
    BY <1>3, SeedGoesFirst
  <2>2. Goes(Seeds(n)[j], n, j)
    BY <1>2, <2>1, NearestGoes
  <2>3. Gap(c(j), c(i)) = Gap(c(j), c(j)) => j <= i
    BY <2>2 DEF Goes
  <2> HIDE DEF c
  <2>4. QED BY <1>3, <2>3
<1>4. ASSUME SeedsApart(n), NEW k \in 1 .. n PROVE Following(k, n) # {}
  <2> DEFINE m == Nearest(Seeds(n)[k], Seeds(n))
  <2>1. Goes(Seeds(n)[k], n, m)
    BY <1>2, NearestGoes
  <2> HIDE DEF m
  <2>2. m \in 1 .. n /\ Gap(c(k), c(m)) <= Gap(c(k), c(k))
    BY <2>1 DEF Goes
  <2>3. c(m) \in Nat /\ c(k) \in Nat /\ (m # k => c(m) # c(k))
    BY <1>2, <1>4, <2>2 DEF SeedsApart
  <2> HIDE DEF c
  <2>4. m = k
    BY <2>2, <2>3 DEF Gap
  <2>5. QED BY <1>2, <2>4 DEF Following, m
<1>5. ASSUME \A i \in 1 .. n : Following(i, n) # {} PROVE SeedsApart(n)
  <2>1. \A i, j \in 1 .. n : i < j => c(i) # c(j)
    BY <1>3, <1>5
  <2> HIDE DEF c
  <2>2. \A i, j \in 1 .. n : i # j => c(i) # c(j)
    BY <2>1
  <2>3. QED BY <2>2 DEF SeedsApart, c
<1>6. QED BY <1>4, <1>5

(* A drawing is left without pieces only if it follows another's seed.     *)
LEMMA NothingLeft ==
    ASSUME IsPicture(work), All, Boxed, Drawings \in Nat \ {0}, Drawings <= Len(parts)
    PROVE  (\E i \in 1 .. Drawings : Groups(i) = {}) <=> ~SeedsApart(Drawings)
<1> DEFINE n == Drawings
<1>1. \A i : Groups(i) \subseteq Following(i, n)
  BY DEF Groups, Group, Following
<1>2. (\A i \in 1 .. n : Following(i, n) # {}) => \A i \in 1 .. n : Groups(i) # {}
  BY GroupsAre DEF Groups
<1>3. (\A i \in 1 .. n : Following(i, n) # {}) <=> SeedsApart(n)
  BY TieLeavesNothing
<1> HIDE DEF n
<1>4. (\E i \in 1 .. n : Groups(i) = {}) <=> ~SeedsApart(n)
  BY <1>1, <1>2, <1>3
<1>5. QED BY <1>4 DEF n

(* The two errors of _row_frames, and the one of the variants.             *)
Enough == Drawings <= Len(parts) /\ SeedsApart(Drawings)
NamesFit ==
    sheet.mode = "variants" =>
        Len(sheet.ids) = IF sheet.indices = <<>> THEN Drawings ELSE Len(sheet.indices)

RefusedForCause ==
    InRow /\ sheet.key \in {"checker", "corner", "none"} =>
        /\ stage = "done" => Enough /\ NamesFit
        /\ stage = "failed" => ~(Enough /\ NamesFit)

RefusalInv == RefusedForCause /\ (stage = "framed" => Enough)

LEMMA SameCause ==
    ASSUME UNCHANGED <<parts, input>>
    PROVE  Enough' = Enough /\ NamesFit' = NamesFit /\ InRow' = InRow /\ sheet' = sheet
<1>1. UNCHANGED <<sheet, InRow, Drawings>>
  BY SameSheet
<1>2. SeedsApart(Drawings)' = SeedsApart(Drawings)
  BY <1>1 DEF SeedsApart, Seeds, Sorted, Centre, Drawings, sheet
<1>3. QED BY <1>1, <1>2 DEF Enough, NamesFit

LEMMA RowRefuses ==
    ASSUME PieceInv, WholeInv, RowFrames
    PROVE  RefusalInv'
<1>1. stage = "ranked" /\ InRow /\ All /\ Boxed /\ IsPicture(work) /\ input \in Inputs
  BY DEF RowFrames, WholeInv, PieceInv, All
<1>2. UNCHANGED <<parts, input>>
  BY DEF RowFrames, gatherVars
<1>3. Drawings \in Nat \ {0} /\ Len(parts) \in Nat
  BY <1>1, RowAssumption DEF Drawings, InRow, sheet, All, Found
<1>4. CASE Len(parts) < Drawings
  <2>1. ~Enough /\ stage' = "failed"
    BY <1>3, <1>4 DEF RowFrames, Fail, Enough
  <2>2. QED BY <1>2, <2>1, SameCause DEF RefusalInv, RefusedForCause
<1>5. CASE ~(Len(parts) < Drawings)
  <2>1. Drawings <= Len(parts)
    BY <1>3, <1>5
  <2>2. (\E i \in 1 .. Drawings : Groups(i) = {}) <=> ~SeedsApart(Drawings)
    BY <1>1, <1>3, <2>1, NothingLeft
  <2>3. stage' = IF \E i \in 1 .. Drawings : Groups(i) = {} THEN "failed" ELSE "framed"
    BY <1>5 DEF RowFrames, Fail, Groups
  <2>4. stage' = IF Enough THEN "framed" ELSE "failed"
    BY <2>1, <2>2, <2>3 DEF Enough
  <2>5. QED BY <1>2, <2>4, SameCause DEF RefusalInv, RefusedForCause
<1>6. QED BY <1>4, <1>5

LEMMA AnswerRefuses ==
    ASSUME PieceInv, WholeInv, RefusalInv, Strip \/ Variants
    PROVE  RefusalInv'
<1>1. stage = "framed" /\ Enough /\ Laid /\ input \in Inputs
  BY DEF Strip, Variants, WholeInv, RefusalInv, PieceInv
<1>2. UNCHANGED <<parts, input>>
  BY DEF Strip, Variants, gatherVars
<1>3. Len(framed) = Drawings
  BY <1>1 DEF Laid, LaidAs
<1>4. CASE Strip
  <2>1. NamesFit /\ stage' = "done"
    BY <1>4 DEF Strip, NamesFit, Answer
  <2>2. QED BY <1>1, <1>2, <2>1, SameCause DEF RefusalInv, RefusedForCause
<1>5. CASE Variants
  <2>1. sheet.mode = "variants" /\ stage' = IF Len(Chosen) # Len(sheet.ids) THEN "failed" ELSE "done"
    BY <1>5 DEF Variants, Chosen, Answer, Fail
  <2>2. Len(Chosen) = IF sheet.indices = <<>> THEN Drawings ELSE Len(sheet.indices)
    <3>1. sheet.indices \in Seq(0 .. sheet.drawings - 1)
      BY <1>1, <2>1, RowAssumption DEF sheet
    <3>2. sheet.indices # <<>> => Len(Chosen) = Len(sheet.indices)
      BY <3>1 DEF Chosen
    <3>3. QED BY <1>3, <3>2 DEF Chosen
  <2>3. stage' = IF NamesFit THEN "done" ELSE "failed"
    BY <2>1, <2>2 DEF NamesFit
  <2>4. QED BY <1>1, <1>2, <2>3, SameCause DEF RefusalInv, RefusedForCause
<1>6. QED BY <1>4, <1>5

LEMMA RefusalNext ==
    ASSUME PieceInv, WholeInv, RefusalInv, [Next]_vars
    PROVE  RefusalInv'
<1>1. CASE stage' \notin {"framed", "done", "failed"}
  BY <1>1 DEF RefusalInv, RefusedForCause
<1>2. CASE Load \/ StartGather \/ OpenPiece \/ Grow \/ ClosePiece \/ Rank
  <2>1. stage' \notin {"framed", "done", "failed"}
    BY <1>2 DEF Load, KnockOut, StartGather, OpenPiece, Grow, ClosePiece, Rank, cutVars
  <2>2. QED BY <1>1, <2>1
<1>3. CASE CutOut
  <2>1. stage' \notin {"framed", "done", "failed"}
    BY <1>3 DEF CutOut, Cut, Pass, Mark, Flooded, Fringe
  <2>2. QED BY <1>1, <2>1
<1>4. CASE BadKey
  <2>1. sheet'.key \notin {"checker", "corner", "none"} /\ stage' = "failed"
    BY <1>4 DEF BadKey, Fail, sheet
  <2>2. QED BY <2>1 DEF RefusalInv, RefusedForCause
<1>5. CASE Plate \/ BadMode \/ Largest \/ Still
  <2>1. ~InRow /\ UNCHANGED input /\ stage' \in {"done", "failed"}
    BY <1>5 DEF Plate, BadMode, Largest, Still, AsItIs, PickLargest, InRow, Answer, Fail
  <2>2. ~InRow'
    BY <2>1, SameSheet
  <2>3. QED BY <2>1, <2>2 DEF RefusalInv, RefusedForCause
<1>6. CASE RowFrames
  BY <1>6, RowRefuses
<1>7. CASE Strip \/ Variants
  BY <1>7, AnswerRefuses
<1>8. CASE UNCHANGED vars
  <2>1. UNCHANGED <<stage, parts, input>>
    BY <1>8 DEF vars, cutVars, gatherVars
  <2>2. QED BY <2>1, SameCause DEF RefusalInv, RefusedForCause
<1>9. QED BY <1>2, <1>3, <1>4, <1>5, <1>6, <1>7, <1>8 DEF Next

(* A row with a known key is refused exactly when the sheet has too few    *)
(* pieces, when two of its seeds have one centre, or when the ids are not  *)
(* as many as the drawings: no caption that is dropped and no piece that   *)
(* follows another seed ever empties a drawing of _row_frames otherwise.   *)
THEOREM RowsRefusedForCause == Spec => []RefusedForCause
<1>1. Init => RefusalInv
  BY DEF Init, RefusalInv, RefusedForCause
<1>2. PieceInv /\ WholeInv /\ RefusalInv /\ [Next]_vars => RefusalInv'
  BY RefusalNext
<1>3. RefusalInv => RefusedForCause
  BY DEF RefusalInv
<1>4. QED BY <1>1, <1>2, <1>3, AlwaysPieces, AlwaysWhole, PTL DEF Spec

-----------------------------------------------------------------------------
(***************************************************************************)
(* What the builders lay out comes back.                                   *)
(***************************************************************************)

(* Frames that can be laid out: where each is on the sheet.                *)
LaidOut(fs) ==
    /\ DOMAIN fs = 1 .. Len(fs) /\ Len(fs) \in Nat \ {0}
    /\ \A i \in 1 .. Len(fs) : IsPicture(fs[i])

Widths(fs) == [i \in DOMAIN fs |-> fs[i].w]
At(fs, i) == Pad + SumFunctionOnSet(Widths(fs), 1 .. i - 1) + (i - 1) * Space
RowH(fs) == Max({fs[i].h : i \in DOMAIN fs})
Floor(fs, i) == Pad + RowH(fs) - fs[i].h
SheetW(fs) == 2 * Pad + SumFunction(Widths(fs)) + (Len(fs) - 1) * Space
SheetH(fs) == 2 * Pad + RowH(fs)

(* The first columns of the frames: Space more than the last of the one    *)
(* before, up to the border of Pad.                                        *)
Columns(fs, col) ==
    /\ \A i \in 1 .. Len(fs) + 1 : col[i] \in Nat
    /\ col[1] = Pad /\ col[Len(fs) + 1] + Pad = SheetW(fs) + Space
    /\ \A i \in 1 .. Len(fs) : col[i + 1] = col[i] + fs[i].w + Space

LEMMA OneMore ==
    ASSUME NEW k \in Nat \ {0}, NEW f, \A i \in 1 .. k : f[i] \in Nat
    PROVE  /\ SumFunctionOnSet(f, 1 .. k) = SumFunctionOnSet(f, 1 .. k - 1) + f[k]
           /\ SumFunctionOnSet(f, 1 .. k - 1) \in Nat
<1> DEFINE S == 1 .. k - 1
           T == 1 .. k
           e == [i \in S |-> f[i]]
           g == [i \in T |-> f[i]]
<1>1. IsFiniteSet(S) /\ IsFiniteSet(T)
  <2>1. 1 \in Int /\ k \in Int /\ k - 1 \in Int
    OBVIOUS
  <2> DEFINE l == k - 1
  <2>2. l \in Int
    BY <2>1
  <2> HIDE DEF l
  <2>3. IsFiniteSet(1 .. l)
    BY ONLY <2>1, <2>2, FS_Interval
  <2>4. IsFiniteSet(1 .. k)
    BY ONLY <2>1, FS_Interval
  <2>5. QED BY <2>3, <2>4 DEF l
<1>2. S \cup {k} = T /\ k \notin S /\ k \in T
  OBVIOUS
<1>3. \A i \in T : f[i] \in Nat /\ f[i] \in Int
  OBVIOUS
<1> HIDE DEF S, T
<1>4. SumFunctionOnSet(f, S) = SumFunction(e) /\ SumFunctionOnSet(f, T) = SumFunction(g)
  <2>1. \A i \in S : f[i] \in Int
    BY <1>2, <1>3
  <2>2. \A i \in T : f[i] \in Int
    BY <1>3
  <2>3. QED BY <1>1, <2>1, <2>2, SumOnSet
<1>5. e \in [S -> Nat] /\ e \in [S -> Int] /\ g \in [T -> Int] /\ (\A i \in S : e[i] = g[i]) /\ g[k] = f[k]
  BY <1>2, <1>3
<1> HIDE DEF e, g
<1>6. SumFunction(g) = SumFunction(e) + g[k]
  BY <1>1, <1>2, <1>5, SumAdd
<1>7. SumFunction(e) \in Nat
  BY <1>1, <1>5, SumNat
<1>8. QED BY <1>4, <1>5, <1>6, <1>7 DEF S, T

LEMMA ColumnsAre ==
    ASSUME NEW fs, LaidOut(fs)
    PROVE  Columns(fs, [i \in 1 .. Len(fs) + 1 |-> At(fs, i)])
<1> DEFINE n == Len(fs)
           W == Widths(fs)
           sum(i) == SumFunctionOnSet(W, 1 .. i - 1)
           col == [i \in 1 .. n + 1 |-> At(fs, i)]
<1>1. n \in Nat \ {0} /\ DOMAIN fs = 1 .. n /\ DOMAIN W = 1 .. n /\ \A i \in 1 .. n : W[i] = fs[i].w /\ W[i] \in Nat
  BY DEF LaidOut, IsPicture, Widths
<1>2. Pad \in Nat /\ Space \in Nat
  BY PosesAssumption
<1>3. \A i \in 1 .. n + 1 : col[i] = Pad + sum(i) + (i - 1) * Space
  BY DEF At
<1>4. ASSUME NEW i \in 1 .. n
      PROVE  sum(i) \in Nat /\ sum(i + 1) = sum(i) + fs[i].w
  <2>1. i \in Nat \ {0} /\ (\A j \in 1 .. i : W[j] \in Nat) /\ i + 1 - 1 = i /\ W[i] = fs[i].w
    BY <1>1
  <2> HIDE DEF W
  <2>2. /\ SumFunctionOnSet(W, 1 .. i) = SumFunctionOnSet(W, 1 .. i - 1) + W[i]
        /\ SumFunctionOnSet(W, 1 .. i - 1) \in Nat
    BY <2>1, OneMore
  <2>3. QED BY <2>1, <2>2
<1>5. sum(n + 1) \in Nat /\ sum(n + 1) = SumFunction(W)
  <2>1. n \in 1 .. n /\ n + 1 - 1 = n
    BY <1>1
  <2>2. sum(n) \in Nat /\ sum(n + 1) = sum(n) + fs[n].w /\ fs[n].w \in Nat
    BY <1>1, <1>4, <2>1
  <2>3. sum(n + 1) = SumFunctionOnSet(W, 1 .. n)
    BY <2>1
  <2>4. SumFunction(W) = SumFunctionOnSet(W, 1 .. n)
    BY <1>1 DEF SumFunction
  <2> HIDE DEF sum, W, n
  <2>5. QED BY <2>2, <2>3, <2>4
<1>6. sum(1) = 0
  <2>1. 1 .. 1 - 1 = {}
    OBVIOUS
  <2>2. SumFunctionOnSet(W, {}) = SumFunction([x \in {} |-> W[x]])
    BY FS_EmptySet, SumOnSet
  <2>3. SumFunction([x \in {} |-> W[x]]) = 0
    BY SumEmpty
  <2>4. QED BY <2>1, <2>2, <2>3
<1> HIDE DEF sum
<1>7. \A i \in 1 .. n + 1 : col[i] \in Nat
  <2>1. TAKE i \in 1 .. n + 1
  <2>2. sum(i) \in Nat
    BY <1>1, <1>4, <1>5
  <2>3. (i - 1) * Space \in Nat
    BY <1>1, <1>2
  <2>4. QED BY <1>2, <1>3, <2>2, <2>3
<1>8. col[1] = Pad
  BY <1>1, <1>2, <1>3, <1>6
<1>9. col[n + 1] + Pad = SheetW(fs) + Space
  <2>1. n + 1 \in 1 .. n + 1 /\ n + 1 - 1 = n
    BY <1>1
  <2>2. col[n + 1] = Pad + sum(n + 1) + n * Space
    BY <1>3, <2>1
  <2>3. SheetW(fs) = 2 * Pad + sum(n + 1) + (n - 1) * Space
    BY <1>5 DEF SheetW
  <2> DEFINE a == (n - 1) * Space
  <2>4. n * Space = a + Space /\ a \in Int
    BY <1>1, <1>2
  <2> HIDE DEF a, col, n
  <2>5. QED BY <1>2, <1>5, <2>2, <2>3, <2>4 DEF a
<1>10. ASSUME NEW i \in 1 .. n PROVE col[i + 1] = col[i] + fs[i].w + Space
  <2>1. i \in 1 .. n + 1 /\ i + 1 \in 1 .. n + 1 /\ i + 1 - 1 = i
    BY <1>1
  <2>2. col[i] = Pad + sum(i) + (i - 1) * Space
    BY <1>3, <2>1
  <2>3. col[i + 1] = Pad + (sum(i) + fs[i].w) + i * Space
    BY <1>3, <1>4, <2>1
  <2> DEFINE a == (i - 1) * Space
  <2>4. i * Space = a + Space /\ a \in Int
    BY <1>2, <2>1
  <2>5. sum(i) \in Nat /\ fs[i].w \in Nat
    BY <1>1, <1>4
  <2> HIDE DEF a, col, n
  <2>6. QED BY <1>2, <2>2, <2>3, <2>4, <2>5 DEF a
<1> HIDE DEF col
<1>11. Columns(fs, col)
  BY <1>7, <1>8, <1>9, <1>10 DEF Columns
<1>12. QED BY <1>11 DEF col
(* So the frames stand beside one another, all of them inside the sheet.   *)
LEMMA ColumnsRise ==
    ASSUME NEW fs, LaidOut(fs), NEW col, Columns(fs, col), NEW i \in 1 .. Len(fs), NEW j \in 1 .. Len(fs) + 1, i < j
    PROVE  col[i] + fs[i].w + Space <= col[j]
<1> DEFINE n == Len(fs)
           end == col[i] + fs[i].w + Space
           Far == {d \in Nat : i + 1 + d <= n + 1 => end <= col[i + 1 + d]}
<1>1. n \in Nat /\ i \in Nat /\ j \in Nat /\ Space \in Nat
  BY PosesAssumption DEF LaidOut
<1>2. \A k \in 1 .. n : col[k + 1] = col[k] + fs[k].w + Space /\ col[k] \in Nat /\ col[k + 1] \in Nat /\ fs[k].w \in Nat
  <2>1. TAKE k \in 1 .. n
  <2>2. k \in 1 .. n + 1 /\ k + 1 \in 1 .. n + 1
    BY <1>1
  <2>3. QED BY <2>2 DEF Columns, LaidOut, IsPicture
<1>3. end = col[i + 1] /\ end \in Nat
  BY <1>1, <1>2
<1> HIDE DEF n, end
<1>4. 0 \in Far
  <2>1. i + 1 + 0 = i + 1
    BY <1>1
  <2>2. QED BY <1>3, <2>1
<1>5. ASSUME NEW d \in Nat, d \in Far PROVE d + 1 \in Far
  <2>1. SUFFICES ASSUME i + 1 + (d + 1) <= n + 1 PROVE end <= col[i + 1 + (d + 1)]
    OBVIOUS
  <2> DEFINE k == i + 1 + d
  <2>2. k \in 1 .. n /\ i + 1 + (d + 1) = k + 1
    BY <1>1, <2>1
  <2>3. end <= col[k]
    BY <1>1, <1>5, <2>2
  <2> HIDE DEF k
  <2>4. col[k + 1] = col[k] + fs[k].w + Space /\ col[k] \in Nat /\ fs[k].w \in Nat
    BY <1>2, <2>2
  <2>5. end <= col[k + 1]
    BY <1>1, <1>3, <2>3, <2>4
  <2>6. QED BY <2>2, <2>5
<1> HIDE DEF Far
<1>6. \A d \in Nat : d \in Far
  BY <1>4, <1>5, Counting
<1>7. j - i - 1 \in Nat /\ i + 1 + (j - i - 1) = j /\ j <= n + 1
  BY <1>1 DEF n
<1>8. QED BY <1>6, <1>7 DEF Far, end

(* The pixels of the sheet that a frame has.                               *)
Lies(fs, i) == Moved(fs[i].on, At(fs, i), Floor(fs, i))

(* A frame is between its columns and on the sheet.                        *)
LiesIn(fs, i) ==
    /\ At(fs, i) \in Nat /\ Floor(fs, i) \in Nat /\ SheetW(fs) \in Nat \ {0} /\ SheetH(fs) \in Nat \ {0}
    /\ \A q \in fs[i].on : q = <<q[1], q[2]>> /\ q[1] \in Int /\ q[2] \in Int
    /\ \A p \in Lies(fs, i) : /\ p = <<p[1], p[2]>> /\ p[1] \in Nat /\ p[2] \in Nat
                              /\ At(fs, i) <= p[1] /\ p[1] < At(fs, i) + fs[i].w
                              /\ p[1] < SheetW(fs) /\ p[2] < SheetH(fs)

LEMMA FrameLies ==
    ASSUME NEW fs, LaidOut(fs), NEW i \in 1 .. Len(fs)
    PROVE  LiesIn(fs, i)
<1> DEFINE n == Len(fs)
           col == [k \in 1 .. n + 1 |-> At(fs, k)]
           high == [k \in 1 .. n |-> fs[k].h]
<1>1. n \in Nat \ {0} /\ DOMAIN fs = 1 .. n /\ i \in Nat /\ i \in 1 .. n + 1 /\ n + 1 \in 1 .. n + 1 /\ i < n + 1
  BY DEF LaidOut
<1>2. Columns(fs, col) /\ \A k \in 1 .. n + 1 : col[k] = At(fs, k)
  BY ColumnsAre
<1>3. Pad \in Nat /\ Space \in Nat
  BY PosesAssumption
<1>4. /\ fs[i].w \in Nat \ {0} /\ fs[i].h \in Nat \ {0} /\ fs[i].on \subseteq Area(fs[i])
  BY DEF LaidOut, IsPicture
<1> HIDE DEF col
<1>5. col[i] + fs[i].w + Space <= col[n + 1]
  BY <1>1, <1>2, ColumnsRise
<1>6. col[i] \in Nat /\ col[n + 1] \in Nat /\ col[n + 1] + Pad = SheetW(fs) + Space
  BY <1>1, <1>2 DEF Columns
<1>7. SheetW(fs) = col[n + 1] + Pad - Space
  <2>1. SumFunction(Widths(fs)) \in Int
    <3>1. Widths(fs) \in [1 .. n -> Int]
      BY <1>1 DEF Widths, LaidOut, IsPicture
    <3>2. 1 \in Int /\ n \in Int
      BY <1>1
    <3> HIDE DEF n
    <3>3. IsFiniteSet(1 .. n)
      BY ONLY <3>2, FS_Interval
    <3>4. QED BY <3>1, <3>3, SumInt
  <2>2. (n - 1) * Space \in Int
    BY <1>1, <1>3
  <2>3. SheetW(fs) \in Int
    BY <1>3, <2>1, <2>2 DEF SheetW
  <2> HIDE DEF n
  <2>4. QED BY <1>3, <1>6, <2>3
<1>8. At(fs, i) \in Nat /\ SheetW(fs) \in Nat \ {0} /\ At(fs, i) + fs[i].w <= SheetW(fs)
  <2>1. At(fs, i) = col[i]
    BY <1>1, <1>2
  <2>2. \A a, e, w, p, s, t \in Int :
            /\ a >= 0 /\ w > 0 /\ p >= 0 /\ a + w + s <= e /\ t = e + p - s
            => t >= 0 /\ t # 0 /\ a + w <= t
    OBVIOUS
  <2> DEFINE e == col[n + 1]
             t == SheetW(fs)
             w == fs[i].w
  <2>3. /\ col[i] \in Int /\ e \in Int /\ w \in Int /\ Pad \in Int /\ Space \in Int
        /\ col[i] >= 0 /\ w > 0 /\ Pad >= 0 /\ col[i] + w + Space <= e /\ t = e + Pad - Space
    BY <1>3, <1>4, <1>5, <1>6, <1>7
  <2>4. t \in Int
    BY <2>3
  <2> HIDE DEF n, e, t, w
  <2>5. t >= 0 /\ t # 0 /\ col[i] + w <= t
    BY <2>2, <2>3, <2>4
  <2>6. t \in Nat \ {0} /\ col[i] \in Nat
    BY <1>6, <2>4, <2>5
  <2>7. QED BY <2>1, <2>5, <2>6 DEF t, w
<1>9. RowH(fs) \in Nat /\ fs[i].h <= RowH(fs)
  <2>1. \A k \in 1 .. n : high[k] \in Nat
    BY DEF LaidOut, IsPicture
  <2>2. {high[k] : k \in 1 .. n} = {fs[k].h : k \in DOMAIN fs}
    BY <1>1
  <2>3. high[i] = fs[i].h /\ n \in Nat \ {0}
    BY <1>1
  <2> HIDE DEF high
  <2>4. Tops(RowH(fs), n, high)
    BY <2>1, <2>2, <2>3, LargestOf DEF RowH
  <2>5. QED BY <2>3, <2>4 DEF Tops
<1>10. Floor(fs, i) \in Nat /\ SheetH(fs) \in Nat \ {0} /\ Floor(fs, i) + fs[i].h <= SheetH(fs)
  BY <1>3, <1>4, <1>9 DEF Floor, SheetH
<1>11. \A q \in fs[i].on : /\ q = <<q[1], q[2]>> /\ q[1] \in Nat /\ q[2] \in Nat
                           /\ q[1] <= fs[i].w - 1 /\ q[2] <= fs[i].h - 1
  <2>1. TAKE q \in fs[i].on
  <2>2. q \in Area(fs[i]) /\ fs[i].w \in Nat /\ fs[i].h \in Nat
    BY <1>4
  <2>3. QED BY <2>2, AreaPairs
<1> DEFINE x == At(fs, i)
           y == Floor(fs, i)
<1> HIDE DEF x, y
<1>12. ASSUME NEW p \in Lies(fs, i)
       PROVE  /\ p = <<p[1], p[2]>> /\ p[1] \in Nat /\ p[2] \in Nat
              /\ x <= p[1] /\ p[1] < x + fs[i].w
              /\ p[1] < SheetW(fs) /\ p[2] < SheetH(fs)
  <2>1. PICK q \in fs[i].on : p = <<q[1] + x, q[2] + y>>
    BY DEF Lies, Moved, x, y
  <2>2. p[1] = q[1] + x /\ p[2] = q[2] + y /\ p = <<p[1], p[2]>>
    BY <2>1
  <2>3. q[1] \in Nat /\ q[2] \in Nat /\ q[1] <= fs[i].w - 1 /\ q[2] <= fs[i].h - 1
    BY <1>11
  <2>4. x \in Nat /\ y \in Nat /\ x + fs[i].w <= SheetW(fs) /\ y + fs[i].h <= SheetH(fs)
    BY <1>8, <1>10 DEF x, y
  <2>5. \A a, b, u, e \in Int :
            a >= 0 /\ b >= 0 /\ a <= u - 1 /\ b + u <= e => a + b >= 0 /\ b <= a + b /\ a + b < b + u /\ a + b < e
    OBVIOUS
  <2>6. fs[i].w \in Nat /\ fs[i].h \in Nat /\ SheetW(fs) \in Nat /\ SheetH(fs) \in Nat
    BY <1>4, <1>8, <1>10
  <2>7. q[1] + x >= 0 /\ x <= q[1] + x /\ q[1] + x < x + fs[i].w /\ q[1] + x < SheetW(fs)
    BY <2>3, <2>4, <2>5, <2>6
  <2>8. q[2] + y >= 0 /\ q[2] + y < SheetH(fs)
    BY <2>3, <2>4, <2>5, <2>6
  <2>9. q[1] + x \in Nat /\ q[2] + y \in Nat
    BY <2>3, <2>4
  <2>10. QED BY <2>2, <2>7, <2>8, <2>9
<1>13. QED BY <1>8, <1>10, <1>11, <1>12 DEF LiesIn, x, y

(* The frames do not meet.                                                 *)
LEMMA LiesApart ==
    ASSUME NEW fs, LaidOut(fs), NEW i \in 1 .. Len(fs), NEW j \in 1 .. Len(fs), i < j,
           NEW p \in Lies(fs, i), NEW q \in Lies(fs, j)
    PROVE  p[1] + 1 < q[1]
<1> DEFINE col == [k \in 1 .. Len(fs) + 1 |-> At(fs, k)]
<1>1. Len(fs) \in Nat /\ i \in 1 .. Len(fs) + 1 /\ j \in 1 .. Len(fs) + 1
  BY DEF LaidOut
<1>2. Columns(fs, col) /\ col[i] = At(fs, i) /\ col[j] = At(fs, j)
  BY <1>1, ColumnsAre
<1> HIDE DEF col
<1>3. At(fs, i) + fs[i].w + Space <= At(fs, j)
  <2>1. col[i] + fs[i].w + Space <= col[j]
    BY <1>1, <1>2, ColumnsRise
  <2>2. QED BY <1>2, <2>1
<1>4. /\ At(fs, i) \in Nat /\ At(fs, j) \in Nat /\ p[1] \in Nat /\ q[1] \in Nat
      /\ p[1] < At(fs, i) + fs[i].w /\ At(fs, j) <= q[1]
  BY FrameLies DEF LiesIn
<1>5. fs[i].w \in Nat /\ Space \in Nat \ {0}
  BY PosesAssumption DEF LaidOut, IsPicture
<1> DEFINE a == At(fs, i)
           b == At(fs, j)
           w == fs[i].w
           u == p[1]
           v == q[1]
<1>6. /\ a \in Nat /\ b \in Nat /\ w \in Nat /\ Space \in Nat \ {0} /\ u \in Nat /\ v \in Nat
      /\ a + w + Space <= b /\ u < a + w /\ b <= v
  BY <1>3, <1>4, <1>5
<1> HIDE DEF a, b, w, u, v
<1>7. u + 1 < v
  BY <1>6
<1>8. QED BY <1>7 DEF u, v

Ats(fs) == [i \in 1 .. Len(fs) |-> At(fs, i)]
Floors(fs) == [i \in 1 .. Len(fs) |-> Floor(fs, i)]

LEMMA SheetFits ==
    ASSUME NEW fs, LaidOut(fs)
    PROVE  OnCanvas(fs, Ats(fs), Floors(fs), SheetW(fs), SheetH(fs))
<1> DEFINE n == Len(fs)
<1>1. n \in Nat
  BY DEF LaidOut
<1>2. \A i \in 1 .. n : /\ Ats(fs)[i] = At(fs, i) /\ Floors(fs)[i] = Floor(fs, i)
                        /\ Stamp(fs, Ats(fs), Floors(fs), i) = Lies(fs, i)
  BY DEF Ats, Floors, Stamp, Lies
<1>3. \A i \in 1 .. n : /\ At(fs, i) \in Int /\ Floor(fs, i) \in Int
                        /\ \A q \in fs[i].on : q = <<q[1], q[2]>> /\ q[1] \in Int /\ q[2] \in Int
  BY FrameLies DEF LiesIn
<1>4. \A i \in 1 .. n : Lies(fs, i) \subseteq Pixels(SheetW(fs), SheetH(fs))
  <2>1. TAKE i \in 1 .. n
  <2>2. LiesIn(fs, i)
    BY FrameLies
  <2>3. ASSUME NEW p \in Lies(fs, i) PROVE p \in Pixels(SheetW(fs), SheetH(fs))
    <3>1. /\ p = <<p[1], p[2]>> /\ p[1] \in Nat /\ p[2] \in Nat /\ p[1] < SheetW(fs) /\ p[2] < SheetH(fs)
          /\ SheetW(fs) \in Nat /\ SheetH(fs) \in Nat
      BY <2>2 DEF LiesIn
    <3>2. p[1] \in 0 .. SheetW(fs) - 1 /\ p[2] \in 0 .. SheetH(fs) - 1
      BY <3>1
    <3>3. QED BY <3>1, <3>2 DEF Pixels
  <2>4. QED BY <2>3
<1>5. \A i, j \in 1 .. n : \A p \in Lies(fs, i) : p \in Lies(fs, j) => i = j
  <2>1. SUFFICES ASSUME NEW i \in 1 .. n, NEW j \in 1 .. n, NEW p \in Lies(fs, i), p \in Lies(fs, j), i # j
                 PROVE  FALSE
    OBVIOUS
  <2>2. p[1] \in Nat
    BY FrameLies DEF LiesIn
  <2>3. i < j \/ j < i
    BY <2>1
  <2>4. p[1] + 1 < p[1]
    BY <2>1, <2>3, LiesApart
  <2>5. QED BY <2>2, <2>4
<1>6. QED BY <1>1, <1>2, <1>3, <1>4, <1>5 DEF OnCanvas

(* The fold of the builders lays them all out.                             *)
LEMMA SheetIsCanvas ==
    ASSUME NEW fs, LaidOut(fs)
    PROVE  Sheet(fs) = Canvas(fs, Ats(fs), Floors(fs), SheetW(fs), SheetH(fs), 1 .. Len(fs))
<1> DEFINE n == Len(fs)
           X == Ats(fs)
           Y == Floors(fs)
           W == SheetW(fs)
           H == SheetH(fs)
           rowH == Max({fs[i].h : i \in DOMAIN fs})
           widths == [i \in DOMAIN fs |-> fs[i].w]
           x(i) == Pad + SumFunctionOnSet(widths, 1 .. i - 1) + (i - 1) * Space
           width == 2 * Pad + SumFunction(widths) + (Len(fs) - 1) * Space
           base == Blank(width, 2 * Pad + rowH)
           put(canvas, i) == Blit(canvas, fs[i], x(i), Pad + rowH - fs[i].h)
           idx == [i \in DOMAIN fs |-> i]
           Q(h) == h = [s \in SUBSET (DOMAIN idx) |->
                           IF s = {} THEN base ELSE put(h[s \ {Max(s)}], idx[Max(s)])]
           iter == CHOOSE h : Q(h)
           pasted(s) == Canvas(fs, X, Y, W, H, s)
<1>1. Sheet(fs) = iter[DOMAIN idx]
  BY DEF Sheet, FoldLeftDomain, FoldLeft, MapThenFoldSet
<1>2. DOMAIN fs = 1 .. n
  BY DEF LaidOut
<1>3. DOMAIN idx = 1 .. n /\ \A i \in 1 .. n : idx[i] = i
  BY <1>2
<1>4. \A out : \A i \in 1 .. n : put(out, i) = Blit(out, fs[i], X[i], Y[i])
  <2>1. \A i \in 1 .. n : X[i] = x(i) /\ Y[i] = Pad + rowH - fs[i].h
    BY DEF Ats, Floors, At, Floor, RowH, Widths
  <2>2. QED BY <2>1
<1>5. base = Blank(W, H)
  BY DEF SheetW, SheetH, RowH, Widths
<1> HIDE DEF base, put, idx, W, H, X, Y
<1>6. OnCanvas(fs, X, Y, W, H)
  BY SheetFits DEF W, H, X, Y
<1>7. ASSUME NEW s \in SUBSET (1 .. n)
      PROVE  /\ s # {} => Max(s) \in 1 .. n
             /\ pasted(s) = IF s = {} THEN Blank(W, H)
                            ELSE Blit(pasted(s \ {Max(s)}), fs[Max(s)], X[Max(s)], Y[Max(s)])
  <2>1. LastIsLast(fs, X, Y, W, H, s)
    BY <1>6, CanvasGrows
  <2>2. QED BY <2>1 DEF LastIsLast
<1> HIDE DEF pasted
<1>8. \A h : \A s \in SUBSET (1 .. n) : s # {} =>
          put(h[s \ {Max(s)}], idx[Max(s)]) = Blit(h[s \ {Max(s)}], fs[Max(s)], X[Max(s)], Y[Max(s)])
  BY <1>3, <1>4, <1>7
<1>9. Q(iter)
  <2> DEFINE g == [s \in SUBSET (DOMAIN idx) |-> pasted(s)]
  <2>1. \A s \in SUBSET (1 .. n) :
            /\ g[s] = pasted(s)
            /\ s # {} => g[s \ {Max(s)}] = pasted(s \ {Max(s)})
    BY <1>3
  <2>2. g = [s \in SUBSET (DOMAIN idx) |-> g[s]]
    OBVIOUS
  <2> HIDE DEF g
  <2>3. ASSUME NEW s \in SUBSET (DOMAIN idx)
        PROVE  g[s] = IF s = {} THEN base ELSE put(g[s \ {Max(s)}], idx[Max(s)])
    <3>1. s \in SUBSET (1 .. n)
      BY <1>3
    <3>2. CASE s = {}
      BY <1>5, <1>7, <2>1, <3>1, <3>2
    <3>3. CASE s # {}
      <4>1. g[s] = Blit(g[s \ {Max(s)}], fs[Max(s)], X[Max(s)], Y[Max(s)])
        BY <1>7, <2>1, <3>1, <3>3
      <4>2. QED BY <1>8, <3>1, <3>3, <4>1
    <3>4. QED BY <3>2, <3>3
  <2>4. Q(g)
    BY <2>2, <2>3
  <2> HIDE DEF Q
  <2>5. QED BY <2>4
<1> HIDE DEF iter
<1>10. \A s \in SUBSET (1 .. n) : iter[s] = IF s = {} THEN base ELSE put(iter[s \ {Max(s)}], idx[Max(s)])
  BY <1>3, <1>9
<1>11. \A s \in SUBSET (1 .. n) :
          iter[s] = IF s = {} THEN Blank(W, H)
                    ELSE Blit(iter[s \ {Max(s)}], fs[Max(s)], X[Max(s)], Y[Max(s)])
  BY <1>5, <1>8, <1>10
<1>12. iter[1 .. n] = Canvas(fs, X, Y, W, H, 1 .. n)
  BY <1>6, <1>11, FoldIsCanvas
<1>13. QED BY <1>1, <1>3, <1>12 DEF X, Y, W, H

(* What the sheet is: its frames where they lie, and nothing else.         *)
SheetShows(fs, im) ==
    /\ IsPicture(im)
    /\ im.on = UNION {Lies(fs, i) : i \in 1 .. Len(fs)}
    /\ \A i \in 1 .. Len(fs) : \A q \in fs[i].on :
          im.rgb[<<q[1] + At(fs, i), q[2] + Floor(fs, i)>>] = fs[i].rgb[q]

LEMMA SheetIs ==
    ASSUME NEW fs, LaidOut(fs)
    PROVE  SheetShows(fs, Sheet(fs))
<1> DEFINE n == Len(fs)
           X == Ats(fs)
           Y == Floors(fs)
           im == Canvas(fs, X, Y, SheetW(fs), SheetH(fs), 1 .. n)
<1>1. \A i \in 1 .. n : /\ X[i] = At(fs, i) /\ Y[i] = Floor(fs, i)
                        /\ Stamp(fs, X, Y, i) = Lies(fs, i)
  BY DEF Ats, Floors, Stamp, Lies
<1>2. OnCanvas(fs, X, Y, SheetW(fs), SheetH(fs))
  BY SheetFits
<1>3. n \in Nat \ {0} /\ 1 \in 1 .. n
  BY DEF LaidOut
<1>4. im = [w |-> SheetW(fs), h |-> SheetH(fs), rgb |-> im.rgb, on |-> UNION {Stamp(fs, X, Y, i) : i \in 1 .. n}]
  BY DEF Canvas
<1>5. UNION {Stamp(fs, X, Y, i) : i \in 1 .. n} = UNION {Lies(fs, i) : i \in 1 .. n}
  <2>1. {Stamp(fs, X, Y, i) : i \in 1 .. n} = {Lies(fs, i) : i \in 1 .. n}
    BY <1>1
  <2>2. QED BY <2>1
<1>6. \A i \in 1 .. n : \A q \in fs[i].on : im.rgb[<<q[1] + At(fs, i), q[2] + Floor(fs, i)>>] = fs[i].rgb[q]
  <2>1. TAKE i \in 1 .. n
  <2>2. TAKE q \in fs[i].on
  <2>3. 1 .. n \in SUBSET (1 .. n)
    OBVIOUS
  <2>4. im.rgb[<<q[1] + X[i], q[2] + Y[i]>>] = fs[i].rgb[q]
    <3> HIDE DEF X, Y
    <3>1. QED BY <1>2, <2>3, CanvasInk DEF X, Y
  <2>5. QED BY <1>1, <2>4
<1>7. \A i \in 1 .. n : Lies(fs, i) \subseteq Pixels(SheetW(fs), SheetH(fs))
  BY <1>1, <1>2 DEF OnCanvas
<1>8. SheetW(fs) \in Nat \ {0} /\ SheetH(fs) \in Nat \ {0}
  BY <1>3, FrameLies DEF LiesIn
<1> HIDE DEF im
<1>9. im.w = SheetW(fs) /\ im.h = SheetH(fs) /\ im.on = UNION {Lies(fs, i) : i \in 1 .. n}
  BY <1>4, <1>5
<1>10. im.on \subseteq Area(im)
  <2>1. Area(im) = Pixels(SheetW(fs), SheetH(fs))
    BY <1>9 DEF Area
  <2>2. QED BY <1>7, <1>9, <2>1
<1>11. IsPicture(im)
  <2>1. im = [w |-> im.w, h |-> im.h, rgb |-> im.rgb, on |-> im.on]
    BY <1>4, <1>5, <1>9
  <2>2. QED BY <1>8, <1>9, <1>10, <2>1 DEF IsPicture
<1>12. Sheet(fs) = im
  BY SheetIsCanvas DEF im
<1>13. SheetShows(fs, im)
  BY <1>6, <1>9, <1>11 DEF SheetShows
<1>14. QED BY <1>12, <1>13

-----------------------------------------------------------------------------
(* The pieces of a sheet that was laid out.                                *)

(* Every frame is one piece and no speck.                                  *)
OnePiece(f) == f.on # {} /\ IsFiniteSet(f.on) /\ Cardinality(f.on) >= MinPart /\ \A p \in f.on : Whole(f.on, p) = f.on

LEMMA LegibleIs ==
    ASSUME NEW fs, LaidOut(fs), Legible(fs), NEW i \in 1 .. Len(fs)
    PROVE  OnePiece(fs[i])
<1> DEFINE S == fs[i].on
           c == CHOOSE p \in S : TRUE
<1>1. /\ Linked(S, {c}, Around) = S
      /\ Cardinality(S) >= MinPart
  BY DEF Legible, LaidOut
<1>2. IsPicture(fs[i])
  BY DEF LaidOut
<1>3. IsFiniteSet(S) /\ S \subseteq Area(fs[i])
  BY <1>2, OnIsFinite DEF IsPicture
<1>4. S # {}
  <2>1. SUFFICES ASSUME S = {} PROVE FALSE
    OBVIOUS
  <2>2. Cardinality({}) = 0
    BY FS_EmptySet
  <2>3. QED BY <1>1, <2>1, <2>2, SlicerAssumption
<1>5. c \in S
  BY <1>4
<1> HIDE DEF c, S
<1>6. Whole(S, c) = S
  BY <1>1 DEF Whole
<1>7. \A p \in S : Whole(S, p) = S
  <2>1. TAKE p \in S
  <2>2. p \in Whole(S, c)
    BY <1>6
  <2>3. Whole(S, p) = Whole(S, c)
    BY <1>3, <1>5, <2>2, WholeIsOne
  <2>4. QED BY <1>6, <2>3
<1>8. QED BY <1>1, <1>3, <1>4, <1>7 DEF OnePiece, S

LEMMA LiesIsPiece ==
    ASSUME NEW fs, LaidOut(fs), Legible(fs), NEW i \in 1 .. Len(fs)
    PROVE  OnePiece([on |-> Lies(fs, i)])
<1> DEFINE S == fs[i].on
           x == At(fs, i)
           y == Floor(fs, i)
           T == Lies(fs, i)
<1>1. S # {} /\ IsFiniteSet(S) /\ Cardinality(S) >= MinPart /\ \A p \in S : Whole(S, p) = S
  BY LegibleIs DEF OnePiece
<1>2. x \in Int /\ y \in Int /\ \A q \in S : q = <<q[1], q[2]>> /\ q[1] \in Int /\ q[2] \in Int
  BY FrameLies DEF LiesIn
<1>3. T = Moved(S, x, y)
  BY DEF Lies
<1> HIDE DEF S, x, y, T
<1>4. IsFiniteSet(T) /\ Cardinality(T) = Cardinality(S)
  BY <1>1, <1>2, <1>3, MovedSize
<1>5. T # {}
  BY <1>1, <1>3 DEF Moved
<1>6. \A c \in T : Whole(T, c) = T
  BY <1>1, <1>2, <1>3, MovedIsOne
<1>7. QED BY <1>1, <1>4, <1>5, <1>6 DEF OnePiece, T

(* On the sheet it is the same piece.                                      *)
LEMMA PieceOfSheet ==
    ASSUME NEW fs, LaidOut(fs), Legible(fs), NEW im, SheetShows(fs, im),
           NEW i \in 1 .. Len(fs), NEW p \in Lies(fs, i)
    PROVE  Whole(im.on, p) = Lies(fs, i)
<1> DEFINE T == Lies(fs, i)
           M == im.on
           W == Whole(M, p)
<1>1. IsFiniteSet(T) /\ \A c \in T : Whole(T, c) = T
  BY LiesIsPiece DEF OnePiece
<1>2. IsFiniteSet(M) /\ T \subseteq M /\ \A q \in M : \E j \in 1 .. Len(fs) : q \in Lies(fs, j)
  BY OnIsFinite DEF SheetShows
<1>3. \A j \in 1 .. Len(fs) : \A q \in Lies(fs, j) : q = <<q[1], q[2]>> /\ q[1] \in Nat /\ q[2] \in Nat
  BY FrameLies DEF LiesIn
<1>4. ASSUME NEW q \in T, NEW r \in Around(q) \cap M PROVE r \in T
  <2>1. PICK j \in 1 .. Len(fs) : r \in Lies(fs, j)
    BY <1>2
  <2>2. q = <<q[1], q[2]>> /\ q[1] \in Nat /\ q[2] \in Nat /\ r = <<r[1], r[2]>> /\ r[1] \in Nat /\ r[2] \in Nat
    BY <1>3, <2>1
  <2>3. r[1] <= q[1] + 1 /\ q[1] <= r[1] + 1
    <3>1. r \in Around(q)
      OBVIOUS
    <3>2. r[1] = q[1] - 1 \/ r[1] = q[1] \/ r[1] = q[1] + 1
      BY <2>2, <3>1 DEF Around, Beside
    <3>3. QED BY <2>2, <3>2
  <2>4. ~(i < j)
    <3>1. i < j => q[1] + 1 < r[1]
      BY <2>1, LiesApart
    <3>2. QED BY <2>2, <2>3, <3>1
  <2>5. ~(j < i)
    <3>1. j < i => r[1] + 1 < q[1]
      BY <2>1, LiesApart
    <3>2. QED BY <2>2, <2>3, <3>1
  <2>6. i = j
    BY <2>4, <2>5 DEF LaidOut
  <2>7. QED BY <2>1, <2>6
<1>5. p \in M /\ p \in T
  BY <1>2
<1> HIDE DEF T, M
<1>6. /\ p \in W /\ W \subseteq M
      /\ \A q \in W : Around(q) \cap M \subseteq W
      /\ \A R : p \in R /\ (\A q \in R : Around(q) \cap M \subseteq R) => W \subseteq R
  BY <1>2, <1>5, WholeIsLeast
<1>7. W \subseteq T
  <2>1. \A q \in T : Around(q) \cap M \subseteq T
    BY <1>4
  <2>2. QED BY <1>5, <1>6, <2>1
<1>8. T \subseteq W
  <2>1. /\ \A R : p \in R /\ (\A q \in R : Around(q) \cap T \subseteq R) => Whole(T, p) \subseteq R
    BY <1>1, <1>5, WholeIsLeast
  <2>2. \A q \in W : Around(q) \cap T \subseteq W
    BY <1>2, <1>6
  <2>3. Whole(T, p) \subseteq W
    BY <1>6, <2>1, <2>2
  <2>4. QED BY <1>1, <1>5, <2>3
<1>9. QED BY <1>7, <1>8 DEF T, M

(* The scan of such a sheet is over.                                       *)
Scanned(fs) ==
    /\ LaidOut(fs) /\ Len(fs) = 4 /\ Legible(fs) /\ SheetShows(fs, work)
    /\ sheet.mode = "strip" /\ sheet.drop # "labels"
    /\ All /\ Boxed

(* Each piece is a frame, and each frame a piece.                          *)
Owned(fs, own) ==
    /\ Len(parts) = 4 /\ DOMAIN parts = 1 .. 4
    /\ \A k \in 1 .. 4 : own[k] \in 1 .. 4 /\ parts[k].px = Lies(fs, own[k])
    /\ \A k, l \in 1 .. 4 : own[k] = own[l] => k = l

LEMMA FourPieces ==
    ASSUME NEW fs, Scanned(fs)
    PROVE  \E own : Owned(fs, own)
<1> DEFINE n == Len(parts)
           mine(k) == CHOOSE i \in 1 .. 4 : parts[k].px = Lies(fs, i)
           own == [k \in 1 .. n |-> mine(k)]
<1>1. /\ LaidOut(fs) /\ Len(fs) = 4 /\ Legible(fs) /\ SheetShows(fs, work)
      /\ Found(work.on, work.on, parts, MinPart)
  BY DEF Scanned, All, Least, InRow
<1>2. n \in Nat /\ DOMAIN parts = 1 .. n
  BY <1>1 DEF Found
<1>3. \A i \in 1 .. 4 : \A p \in Lies(fs, i) : Whole(work.on, p) = Lies(fs, i) /\ p \in work.on
  <2>1. \A i \in 1 .. 4 : \A p \in Lies(fs, i) : p \in work.on
    BY <1>1 DEF SheetShows
  <2>2. QED BY <1>1, <2>1, PieceOfSheet
<1>4. ASSUME NEW k \in 1 .. n PROVE \E i \in 1 .. 4 : parts[k].px = Lies(fs, i)
  <2>1. /\ parts[k].px \subseteq work.on /\ parts[k].px # {}
        /\ \A p \in parts[k].px : Whole(work.on, p) = parts[k].px
    BY <1>1 DEF Found
  <2>2. PICK p \in parts[k].px : p \in work.on
    BY <2>1
  <2>3. PICK i \in 1 .. 4 : p \in Lies(fs, i)
    BY <1>1, <2>2 DEF SheetShows
  <2>4. QED BY <1>3, <2>1, <2>2, <2>3
<1>5. \A k \in 1 .. n : own[k] \in 1 .. 4 /\ parts[k].px = Lies(fs, own[k])
  BY <1>4
<1>6. own \in [1 .. n -> 1 .. 4]
  BY <1>5
<1> HIDE DEF own
<1>7. \A k, l \in 1 .. n : own[k] = own[l] => k = l
  BY <1>1, <1>5 DEF Found
<1>8. ASSUME NEW i \in 1 .. 4 PROVE \E k \in 1 .. n : own[k] = i
  <2>1. Lies(fs, i) # {} /\ Cardinality(Lies(fs, i)) >= MinPart /\ IsFiniteSet(Lies(fs, i))
    BY <1>1, LiesIsPiece DEF OnePiece
  <2>2. PICK p \in Lies(fs, i) : p \in work.on
    BY <1>3, <2>1
  <2>3. ~(Cardinality(Whole(work.on, p)) < MinPart)
    <3>1. Cardinality(Lies(fs, i)) \in Nat
      BY <2>1, FS_CardinalityType
    <3>2. QED BY <1>3, <2>1, <2>2, <3>1, SlicerAssumption
  <2>4. PICK k \in 1 .. n : p \in parts[k].px
    BY <1>1, <2>2, <2>3 DEF Found
  <2>5. parts[k].px = Lies(fs, i)
    BY <1>1, <1>3, <2>2, <2>4 DEF Found
  <2>6. Lies(fs, own[k]) = Lies(fs, i) /\ own[k] \in 1 .. 4
    BY <1>5, <2>5
  <2>7. own[k] = i
    <3>1. p \in Lies(fs, own[k]) /\ p[1] \in Nat
      BY <1>1, <2>2, <2>6, FrameLies DEF LiesIn
    <3>2. own[k] < i => p[1] + 1 < p[1]
      BY <1>1, <2>6, <3>1, LiesApart
    <3>3. i < own[k] => p[1] + 1 < p[1]
      BY <1>1, <2>6, <3>1, LiesApart
    <3>4. ~(own[k] < i) /\ ~(i < own[k])
      BY <3>1, <3>2, <3>3
    <3>5. QED BY <2>6, <3>4
  <2>8. QED BY <2>7
<1>9. n = 4
  <2>1. Len(own) = n /\ own \in Seq(1 .. 4)
    BY <1>2, <1>6
  <2>2. Queued(own) = 1 .. 4
    BY <1>5, <1>8, <2>1 DEF Queued
  <2>3. Lists(own, 1 .. 4)
    BY <1>7, <2>1, <2>2 DEF Lists
  <2>4. Cardinality(1 .. 4) = n
    BY <2>1, <2>3, ListIsAsLong
  <2>5. 1 \in Int /\ 4 \in Int
    OBVIOUS
  <2>6. Cardinality(1 .. 4) = IF 1 > 4 THEN 0 ELSE 4 - 1 + 1
    BY ONLY <2>5, FS_Interval
  <2>7. QED BY <2>4, <2>6
<1>10. Owned(fs, own)
  BY <1>2, <1>5, <1>7, <1>9 DEF Owned
<1>11. QED BY <1>10

(* The centres of the pieces are in the order of the frames.               *)
LEMMA CentresRise ==
    ASSUME NEW fs, Scanned(fs), NEW i \in 1 .. 4, NEW j \in 1 .. 4, i < j,
           NEW a \in ToSet(parts), a.px = Lies(fs, i), NEW b \in ToSet(parts), b.px = Lies(fs, j)
    PROVE  Centre(a) < Centre(b)
<1>1. LaidOut(fs) /\ Len(fs) = 4 /\ Boxed /\ IsPicture(work) /\ All
  BY DEF Scanned, SheetShows
<1>2. ASSUME NEW c \in ToSet(parts) PROVE Bounds(c.px, c.box)
  <2>1. PICK k \in DOMAIN parts : c = parts[k]
    BY DEF ToSet
  <2>2. c.box = BoxOf(c.px)
    BY <1>1, <2>1 DEF Boxed
  <2>3. c.px \subseteq Area(work) /\ c.px # {} /\ work.w \in Nat \ {0} /\ work.h \in Nat \ {0}
    BY <1>1, PiecesOn DEF IsPicture
  <2>4. QED BY <2>2, <2>3, BoxBounds
<1>3. PICK p \in a.px : p[1] = a.box.x + a.box.w - 1
  BY <1>2 DEF Bounds
<1>4. PICK q \in b.px : q[1] = b.box.x
  BY <1>2 DEF Bounds
<1>5. p[1] + 1 < q[1]
  BY <1>1, <1>3, <1>4, LiesApart
<1>6. a.box.x \in Nat /\ a.box.w \in Nat \ {0} /\ b.box.x \in Nat /\ b.box.w \in Nat \ {0}
  BY <1>2 DEF Bounds
<1> DEFINE ax == a.box.x
           aw == a.box.w
           bx == b.box.x
           bw == b.box.w
<1>7. ax \in Nat /\ aw \in Nat \ {0} /\ bx \in Nat /\ bw \in Nat \ {0} /\ ax + aw - 1 + 1 < bx
  BY <1>3, <1>4, <1>5, <1>6
<1>8. Centre(a) = 2 * ax + aw /\ Centre(b) = 2 * bx + bw
  BY DEF Centre
<1> HIDE DEF ax, aw, bx, bw
<1>9. 2 * ax + aw < 2 * bx + bw
  BY <1>7
<1>10. QED BY <1>8, <1>9

(* Four numbers of 1 .. 4 that rise are 1, 2, 3 and 4.                     *)
LEMMA FourInOrder ==
    ASSUME NEW o, \A k \in 1 .. 4 : o[k] \in 1 .. 4, \A k, l \in 1 .. 4 : k < l => o[k] < o[l]
    PROVE  \A k \in 1 .. 4 : o[k] = k
<1>1. o[1] \in 1 .. 4 /\ o[2] \in 1 .. 4 /\ o[3] \in 1 .. 4 /\ o[4] \in 1 .. 4
  OBVIOUS
<1>2. o[1] < o[2] /\ o[2] < o[3] /\ o[3] < o[4]
  OBVIOUS
<1>3. o[1] = 1 /\ o[2] = 2 /\ o[3] = 3 /\ o[4] = 4
  BY <1>1, <1>2
<1>4. \A k \in 1 .. 4 : k = 1 \/ k = 2 \/ k = 3 \/ k = 4
  OBVIOUS
<1>5. QED BY <1>3, <1>4

(* So the seeds are the frames, in their order, and no other piece is left. *)
Seeded(fs) ==
    /\ DOMAIN Seeds(4) = 1 .. 4
    /\ \A k \in 1 .. 4 : Seeds(4)[k] \in ToSet(parts) /\ Seeds(4)[k].px = Lies(fs, k)
    /\ \A part \in ToSet(parts) : \E k \in 1 .. 4 : part = Seeds(4)[k]

LEMMA SeedsInOrder ==
    ASSUME NEW fs, Scanned(fs)
    PROVE  Seeded(fs)
<1>1. LaidOut(fs) /\ Len(fs) = 4 /\ Boxed /\ IsPicture(work) /\ All
  BY DEF Scanned, SheetShows
<1>2. PICK own : Owned(fs, own)
  BY FourPieces
<1>3. Len(parts) = 4 /\ DOMAIN parts = 1 .. 4
  BY <1>2 DEF Owned
<1>4. PICK order : SeedsOf(4, order)
  BY <1>1, <1>3, SeedsList
<1> DEFINE o == [k \in 1 .. 4 |-> own[order[k]]]
           seed(k) == Seeds(4)[k]
<1>5. \A k \in 1 .. 4 : /\ o[k] \in 1 .. 4 /\ order[k] \in 1 .. 4 /\ seed(k) = parts[order[k]]
                        /\ seed(k) \in ToSet(parts) /\ Centre(seed(k)) \in Nat /\ seed(k).px = Lies(fs, o[k])
  BY <1>2, <1>4 DEF SeedsOf, Owned
<1>6. ASSUME NEW k \in 1 .. 4, NEW l \in 1 .. 4, k < l PROVE o[k] < o[l]
  <2>1. order[k] # order[l] /\ Centre(seed(k)) <= Centre(seed(l))
    BY <1>4, <1>6 DEF SeedsOf
  <2>2. o[k] # o[l]
    BY <1>2, <1>5, <2>1 DEF Owned
  <2> HIDE DEF o, seed
  <2>3. o[l] < o[k] => Centre(seed(l)) < Centre(seed(k))
    BY <1>5, CentresRise
  <2>4. o[k] \in Int /\ o[l] \in Int /\ Centre(seed(k)) \in Int /\ Centre(seed(l)) \in Int
    BY <1>5
  <2>5. QED BY <2>1, <2>2, <2>3, <2>4
<1>7. \A k \in 1 .. 4 : o[k] = k
  <2> HIDE DEF o
  <2>1. \A k \in 1 .. 4 : o[k] \in 1 .. 4
    BY <1>5
  <2>2. QED BY <1>6, <2>1, FourInOrder
<1>8. \A k \in 1 .. 4 : Seeds(4)[k] \in ToSet(parts) /\ Seeds(4)[k].px = Lies(fs, k)
  BY <1>5, <1>7
<1>9. \A part \in ToSet(parts) : \E k \in 1 .. 4 : part = Seeds(4)[k]
  <2>1. TAKE part \in ToSet(parts)
  <2>2. PICK i \in 1 .. 4 : part = parts[i]
    BY <1>3 DEF ToSet
  <2>3. PICK k \in 1 .. 4 : order[k] = i
    BY <1>4 DEF SeedsOf
  <2>4. QED BY <1>5, <2>2, <2>3
<1>10. DOMAIN Seeds(4) = 1 .. 4
  BY <1>4 DEF SeedsOf
<1>11. QED BY <1>8, <1>9, <1>10 DEF Seeded

(* Each of them is nearest to itself, and is its drawing.                  *)
LEMMA DrawingsAre ==
    ASSUME NEW fs, Scanned(fs), NEW k \in 1 .. 4
    PROVE  Groups(k) = {Seeds(4)[k]} /\ Pix(k) = Lies(fs, k)
<1> DEFINE seed(i) == Seeds(4)[i]
<1>1. LaidOut(fs) /\ Len(fs) = 4 /\ Boxed /\ IsPicture(work) /\ All /\ sheet.drop # "labels" /\ Drawings = 4
  BY DEF Scanned, SheetShows, Drawings
<1>2. /\ \A i \in 1 .. 4 : seed(i) \in ToSet(parts) /\ seed(i).px = Lies(fs, i)
      /\ \A part \in ToSet(parts) : \E i \in 1 .. 4 : part = seed(i)
  BY SeedsInOrder DEF Seeded
<1>3. 4 <= Len(parts) /\ 4 \in Nat \ {0}
  <2>1. PICK own : Owned(fs, own)
    BY FourPieces
  <2>2. QED BY <2>1 DEF Owned
<1>4. \A i, j \in 1 .. 4 : i < j => Centre(seed(i)) < Centre(seed(j))
  <2> HIDE DEF seed
  <2>1. QED BY <1>2, CentresRise
<1>5. \A i \in 1 .. 4 : Centre(seed(i)) \in Nat
  BY <1>1, <1>2, CentresAre
<1>6. ASSUME NEW i \in 1 .. 4 PROVE Nearest(seed(i), Seeds(4)) = i
  <2> DEFINE m == Nearest(seed(i), Seeds(4))
             c(j) == Centre(seed(j))
  <2>1. Goes(seed(i), 4, m)
    BY <1>1, <1>2, <1>3, NearestGoes
  <2> HIDE DEF m
  <2>2. m \in 1 .. 4 /\ Gap(c(i), c(m)) <= Gap(c(i), c(i))
    BY <2>1 DEF Goes
  <2>3. c(m) \in Nat /\ c(i) \in Nat /\ (m < i => c(m) < c(i)) /\ (i < m => c(i) < c(m))
    BY <1>4, <1>5, <2>2
  <2> HIDE DEF c
  <2>4. c(m) = c(i)
    BY <2>2, <2>3 DEF Gap
  <2>5. ~(m < i) /\ ~(i < m)
    BY <2>3, <2>4
  <2>6. m = i
    BY <2>2, <2>5
  <2>7. QED BY <2>6 DEF m
<1>7. {part \in ToSet(parts) : Nearest(part, Seeds(4)) = k} = {seed(k)}
  <2>1. \A part \in ToSet(parts) : Nearest(part, Seeds(4)) = k => part = seed(k)
    <3>1. TAKE part \in ToSet(parts)
    <3>2. PICK i \in 1 .. 4 : part = seed(i)
      BY <1>2
    <3>3. Nearest(part, Seeds(4)) = i
      BY <1>6, <3>2
    <3>4. QED BY <3>2, <3>3
  <2>2. QED BY <1>2, <1>6, <2>1
<1>8. Groups(k) = {seed(k)}
  BY <1>1, <1>7 DEF Groups, Group
<1>9. Pix(k) = Lies(fs, k)
  <2>1. Pix(k) = seed(k).px
    <3> HIDE DEF seed
    <3>1. QED BY <1>8 DEF Pix
  <2>2. QED BY <1>2, <2>1
<1>10. QED BY <1>8, <1>9

-----------------------------------------------------------------------------
(* The cells of a sheet that was laid out.                                 *)

(* A picture that shows pixels of another, moved, shows the same drawing.  *)
LEMMA SamePicture ==
    ASSUME NEW im, IsPicture(im), NEW S, S \subseteq im.on, S # {}, NEW c, IsPicture(c),
           NEW dx \in Int, NEW dy \in Int, Shows(c, im, S, dx, dy)
    PROVE  Shown(FromPixels(c, c.on)) = Shown(FromPixels(im, S))
<1> DEFINE b == BoxOf(S)
           e == BoxOf(c.on)
           f == FromPixels(im, S)
           g == FromPixels(c, c.on)
<1>1. c.on = Moved(S, dx, dy) /\ c.on # {}
  BY DEF Shows, Moved
<1>2. IsFrame(f, im, S, b)
  BY FrameIs
<1>3. IsFrame(g, c, c.on, e)
  BY <1>1, FrameIs
<1>4. \A p \in S : p[1] \in Int /\ p[2] \in Int
  <2>1. S \subseteq Area(im) /\ im.w \in Nat /\ im.h \in Nat
    BY DEF IsPicture
  <2>2. QED BY <2>1, AreaPairs
<1> HIDE DEF b, e, f, g
<1>5. Bounds(S, b) /\ Bounds(Moved(S, dx, dy), e)
  BY <1>1, <1>2, <1>3 DEF IsFrame
<1>6. e.x = b.x + dx /\ e.y = b.y + dy
  BY <1>4, <1>5, BoxMoves
<1>7. b.x \in Int /\ b.y \in Int /\ e.x \in Int /\ e.y \in Int
  BY <1>5 DEF Bounds
<1>8. Shows(g, c, c.on, -e.x, -e.y) /\ -e.x \in Int /\ -e.y \in Int
  BY <1>3, <1>7 DEF IsFrame
<1>9. Shows(g, im, S, dx + (-e.x), dy + (-e.y))
  BY <1>4, <1>8, ShowsOnwards
<1>10. dx + (-e.x) = -b.x /\ dy + (-e.y) = -b.y
  BY <1>6, <1>7
<1>11. Shows(g, im, S, -b.x, -b.y) /\ Shows(f, im, S, -b.x, -b.y)
  BY <1>2, <1>9, <1>10 DEF IsFrame
<1>12. f.on = g.on
  BY <1>11 DEF Shows
<1>13. ASSUME NEW q \in f.on PROVE f.rgb[q] = g.rgb[q]
  <2>1. PICK p \in S : q = <<p[1] + (-b.x), p[2] + (-b.y)>>
    BY <1>11 DEF Shows, Moved
  <2>2. QED BY <1>11, <2>1 DEF Shows
<1>14. Shown(g) = Shown(f)
  BY <1>12, <1>13 DEF Shown
<1>15. QED BY <1>14 DEF f, g

(* What shows the frame where it lies on the sheet shows the frame.        *)
LEMMA ShowsFrame ==
    ASSUME NEW f, NEW im, NEW x \in Int, NEW y \in Int,
           \A q \in f.on : q[1] \in Int /\ q[2] \in Int,
           \A q \in f.on : im.rgb[<<q[1] + x, q[2] + y>>] = f.rgb[q],
           NEW c, NEW a \in Int, NEW t \in Int, Shows(c, im, Moved(f.on, x, y), a, t)
    PROVE  Shows(c, f, f.on, x + a, y + t)
<1> DEFINE g == [on |-> Moved(f.on, x, y), rgb |-> im.rgb]
<1>1. Shows(g, f, f.on, x, y)
  BY DEF Shows
<1>2. Shows(c, g, g.on, a, t)
  BY DEF Shows
<1> HIDE DEF g
<1>3. QED BY <1>1, <1>2, ShowsOnwards

(* A sheet whose drawings are its frames is cut into those frames.         *)
LEMMA CutAreFrames ==
    ASSUME NEW fs, LaidOut(fs), Len(fs) = 4, SheetShows(fs, work), Legible(fs),
           sheet.mode = "strip", All, Laid, rows = RowsLaid,
           \A k \in 1 .. 4 : Pix(k) = Lies(fs, k)
    PROVE  /\ DOMAIN Cells = 1 .. 4 /\ Len(Cells) = 4
           /\ \A k \in 1 .. 4 : Shown(FromPixels(Cells[k], Cells[k].on)) = Shown(FromPixels(fs[k], fs[k].on))
<1>1. Drawings = 4 /\ IsPicture(work)
  BY DEF Drawings, SheetShows
<1>2. DOMAIN Cells = 1 .. 4
  BY <1>1, StripPlaced
<1>3. \E row : Cells = [i \in 1 .. rows[1].frames |-> Cell(row, i)]
  BY DEF Cells
<1>4. PICK row : Cells = [i \in 1 .. 4 |-> Cell(row, i)]
  BY <1>2, <1>3
<1>5. Len(Cells) = 4
  BY <1>4
<1>6. Packable
  BY <1>1, FramesAre
<1>7. CellW \in Nat \ {0} /\ CellH \in Nat \ {0}
  BY <1>6, CellIs
<1>8. ASSUME NEW k \in 1 .. 4
      PROVE  Shown(FromPixels(Cells[k], Cells[k].on)) = Shown(FromPixels(fs[k], fs[k].on))
  <2> DEFINE b == BoxOf(Pix(k))
             a == -b.x + Aside(k)
             t == -b.y + Top(k)
             c == Cells[k]
             x == At(fs, k)
             y == Floor(fs, k)
             f == fs[k]
  <2>1. /\ c.w = CellW /\ c.h = CellH /\ c.on \subseteq Pixels(CellW, CellH)
        /\ Shows(c, work, Pix(k), a, t)
    BY <1>1, StripPlaced
  <2>2. c = [w |-> c.w, h |-> c.h, rgb |-> c.rgb, on |-> c.on]
    BY <1>4 DEF Cell, Crop
  <2>3. IsPicture(c)
    BY <1>7, <2>1, <2>2 DEF IsPicture, Area
  <2>4. IsPicture(f) /\ f.on # {}
    BY LegibleIs DEF LaidOut, OnePiece
  <2>5. x \in Int /\ y \in Int /\ \A q \in f.on : q[1] \in Int /\ q[2] \in Int
    <3>1. LiesIn(fs, k)
      BY FrameLies
    <3>2. x \in Nat /\ y \in Nat
      BY <3>1 DEF LiesIn
    <3> HIDE DEF x, y
    <3>3. QED BY <3>1, <3>2 DEF LiesIn
  <2>6. \A q \in f.on : work.rgb[<<q[1] + x, q[2] + y>>] = f.rgb[q]
    BY DEF SheetShows
  <2>7. a \in Int /\ t \in Int
    <3>1. IsFrame(framed[k], work, Pix(k), b)
      BY <1>1, FramesAre
    <3>2. b.x \in Int /\ b.y \in Int
      BY <3>1 DEF IsFrame, Bounds
    <3>3. framed[k].on # {}
      <4>1. Pix(k) # {}
        BY <1>1, PixelsOf
      <4>2. QED BY <3>1, <4>1 DEF IsFrame, Shows, Moved
    <3>4. Aside(k) \in Int /\ Top(k) \in Int
      <4>1. k \in 1 .. Len(framed)
        BY <1>1, FramesAre
      <4>2. QED BY <1>6, <3>3, <4>1, InCell
    <3> HIDE DEF b
    <3>5. QED BY <3>2, <3>4
  <2>8. Shows(c, work, Moved(f.on, x, y), a, t)
    BY <2>1 DEF Lies
  <2> HIDE DEF a, t, c, x, y, f
  <2>9. Shows(c, f, f.on, x + a, y + t)
    BY <2>5, <2>6, <2>7, <2>8, ShowsFrame
  <2>10. x + a \in Int /\ y + t \in Int
    BY <2>5, <2>7
  <2>11. Shown(FromPixels(c, c.on)) = Shown(FromPixels(f, f.on))
    BY <2>3, <2>4, <2>9, <2>10, SamePicture
  <2>12. QED BY <2>11 DEF c, f
<1>9. QED BY <1>2, <1>5, <1>8

-----------------------------------------------------------------------------
(* A run over a sheet that was laid out.                                   *)

(* A run over a sheet of frames that come back: nothing of the sheet is    *)
(* cleared, nothing fails, and its drawings are the frames.                *)
OfFrames == input.frames # <<>> /\ Legible(input.frames)

BackInv ==
    OfFrames =>
        /\ stage \in {"load", "cut", "gather", "ranked", "framed", "done"}
        /\ work = input.im
        /\ stage \in {"framed", "done"} => \A k \in 1 .. 4 : Pix(k) = Lies(input.frames, k)

LEMMA FramesGiven ==
    ASSUME input \in Inputs, OfFrames
    PROVE  /\ LaidOut(input.frames) /\ Len(input.frames) = 4 /\ Legible(input.frames)
           /\ SheetShows(input.frames, input.im)
           /\ sheet.key = "none" /\ sheet.mode = "strip" /\ sheet.drop # "labels"
           /\ InRow /\ ~AsItIs /\ ~PickLargest /\ Drawings = 4
<1> DEFINE fs == input.frames
<1>1. /\ fs \in Seq(ToSet(fs)) /\ Len(fs) = 4 /\ \A k \in 1 .. 4 : IsPicture(fs[k])
      /\ input.im = Sheet(fs)
      /\ sheet.key = "none" /\ sheet.mode = "strip" /\ sheet.drop # "labels"
  BY LaidOutAssumption DEF OfFrames, sheet
<1>2. LaidOut(fs)
  BY <1>1 DEF LaidOut
<1>3. SheetShows(fs, input.im)
  BY <1>1, <1>2, SheetIs
<1>4. InRow /\ ~AsItIs /\ ~PickLargest /\ Drawings = 4
  BY <1>1 DEF InRow, AsItIs, PickLargest, Drawings
<1>5. QED BY <1>1, <1>2, <1>3, <1>4 DEF OfFrames

LEMMA BackInit == Init => BackInv
  BY DEF Init, BackInv

(* The scan leaves the sheet as it is.                                     *)
LEMMA ScanBack ==
    ASSUME input \in Inputs, OfFrames, BackInv, Load \/ StartGather \/ OpenPiece \/ Grow \/ ClosePiece \/ Rank
    PROVE  stage' \in {"cut", "gather", "ranked"} /\ work' = input.im
<1>1. sheet.key = "none" /\ ~PickLargest
  BY FramesGiven
<1>2. work = input.im
  BY DEF BackInv
<1>3. CASE Load
  BY <1>1, <1>2, <1>3 DEF Load
<1>4. CASE StartGather
  BY <1>1, <1>2, <1>4 DEF StartGather
<1>5. CASE OpenPiece \/ Grow \/ ClosePiece
  BY <1>2, <1>5 DEF OpenPiece, Grow, ClosePiece, cutVars
<1>6. CASE Rank
  BY <1>2, <1>6 DEF Rank
<1>7. QED BY <1>3, <1>4, <1>5, <1>6

(* The steps of other sheets are not taken.                                *)
LEMMA OthersBack ==
    ASSUME input \in Inputs, OfFrames, BackInv
    PROVE  ~BadKey /\ ~CutOut /\ ~Plate /\ ~BadMode /\ ~Variants /\ ~Largest /\ ~Still
<1>1. sheet.key = "none" /\ sheet.mode = "strip" /\ ~AsItIs /\ ~PickLargest
  BY FramesGiven
<1>2. stage \in {"load", "cut", "gather", "ranked", "framed", "done"}
  BY DEF BackInv
<1>3. ~CutOut
  BY <1>2 DEF CutOut, Cut, Pass, Mark, Flooded, Fringe
<1>4. ~BadKey /\ ~Plate /\ ~BadMode /\ ~Variants /\ ~Largest /\ ~Still
  BY <1>1 DEF BadKey, Plate, BadMode, Variants, Largest, Still
<1>5. QED BY <1>3, <1>4

(* The drawings of the ranked pieces are the frames.                       *)
LEMMA RowBack ==
    ASSUME PieceInv, WholeInv, OfFrames, BackInv, RowFrames
    PROVE  stage' = "framed" /\ work' = input.im /\ \A k \in 1 .. 4 : Pix(k) = Lies(input.frames, k)
<1> DEFINE fs == input.frames
<1>1. stage = "ranked" /\ input \in Inputs /\ work = input.im /\ All /\ Boxed
  BY DEF RowFrames, PieceInv, WholeInv, BackInv, All
<1>2. /\ LaidOut(fs) /\ Len(fs) = 4 /\ Legible(fs) /\ SheetShows(fs, work)
      /\ sheet.mode = "strip" /\ sheet.drop # "labels" /\ Drawings = 4
  BY <1>1, FramesGiven
<1>3. Scanned(fs)
  BY <1>1, <1>2 DEF Scanned
<1>4. \A k \in 1 .. 4 : Groups(k) = {Seeds(4)[k]} /\ Pix(k) = Lies(fs, k)
  BY <1>3, DrawingsAre
<1>5. ~(Len(parts) < Drawings)
  <2>1. PICK own : Owned(fs, own)
    BY <1>3, FourPieces
  <2>2. QED BY <1>2, <2>1 DEF Owned
<1>6. ~(\E i \in 1 .. Drawings : Groups(i) = {})
  BY <1>2, <1>4
<1>7. stage' = "framed" /\ work' = work
  BY <1>5, <1>6 DEF RowFrames, Groups
<1>8. QED BY <1>1, <1>4, <1>7

LEMMA BackNext ==
    ASSUME PieceInv, WholeInv, BackInv, [Next]_vars
    PROVE  BackInv'
<1>1. input' = input /\ input \in Inputs
  BY DEF PieceInv, Next, vars, Load, BadKey, CutOut, Plate, BadMode, StartGather, OpenPiece, Grow, ClosePiece,
         Rank, RowFrames, Strip, Variants, Largest, Still
<1>2. OfFrames' => OfFrames
  BY <1>1 DEF OfFrames
<1>3. SUFFICES ASSUME OfFrames
      PROVE  /\ stage' \in {"load", "cut", "gather", "ranked", "framed", "done"}
             /\ work' = input.im
             /\ stage' \in {"framed", "done"} => \A k \in 1 .. 4 : Pix(k)' = Lies(input.frames, k)
  <2>1. \A k : Lies(input.frames, k)' = Lies(input.frames, k)
    BY <1>1
  <2>2. QED BY <1>1, <1>2, <2>1 DEF BackInv
<1>4. UNCHANGED parts => \A k : Pix(k)' = Pix(k)
  BY <1>1, SameGroups DEF Pix
<1>5. CASE Load \/ StartGather \/ OpenPiece \/ Grow \/ ClosePiece \/ Rank
  BY <1>1, <1>3, <1>5, ScanBack
<1>6. CASE RowFrames
  <2>1. UNCHANGED parts
    BY <1>6 DEF RowFrames, gatherVars
  <2>2. QED BY <1>3, <1>4, <1>6, <2>1, RowBack
<1>7. CASE Strip
  <2>1. UNCHANGED <<parts, work>> /\ stage = "framed" /\ stage' = "done"
    BY <1>7 DEF Strip, Answer, gatherVars
  <2>2. QED BY <1>3, <1>4, <2>1 DEF BackInv
<1>8. CASE UNCHANGED vars
  <2>1. UNCHANGED <<parts, work, stage>>
    BY <1>8 DEF vars, cutVars, gatherVars
  <2>2. QED BY <1>3, <1>4, <2>1 DEF BackInv
<1>9. QED BY <1>1, <1>3, <1>5, <1>6, <1>7, <1>8, OthersBack DEF Next

LEMMA AlwaysBack == Spec => []BackInv
<1>1. PieceInv /\ WholeInv /\ BackInv /\ [Next]_vars => BackInv'
  BY BackNext
<1>2. QED BY <1>1, BackInit, AlwaysPieces, AlwaysWhole, PTL DEF Spec

(* What build_idle_sheets and build_hero_sheets lay out is what            *)
(* slice_sheet cuts: a sheet of four frames that are each in one piece,    *)
(* and no speck, is never refused and comes back as those frames, in their *)
(* order and pixel by pixel, whatever their sizes and their drawings.      *)
THEOREM SheetsComeBack == Spec => []RoundTrip
<1>1. ASSUME PieceInv, WholeInv, BackInv PROVE RoundTrip
  <2> DEFINE fs == input.frames
  <2>1. SUFFICES ASSUME stage \in {"done", "failed"}, OfFrames
        PROVE  /\ Done /\ Len(Cells) = Len(fs)
               /\ \A i \in DOMAIN Cells : Shown(FromPixels(Cells[i], Cells[i].on)) = Shown(FromPixels(fs[i], fs[i].on))
    BY DEF RoundTrip, OfFrames
  <2>2. input \in Inputs
    BY <1>1 DEF PieceInv
  <2>3. Done /\ work = input.im /\ \A k \in 1 .. 4 : Pix(k) = Lies(fs, k)
    BY <1>1, <2>1 DEF BackInv, Done
  <2>4. /\ LaidOut(fs) /\ Len(fs) = 4 /\ Legible(fs) /\ SheetShows(fs, work)
        /\ sheet.mode = "strip" /\ InRow
    BY <2>1, <2>2, <2>3, FramesGiven
  <2>5. All /\ Laid /\ rows = RowsLaid
    BY <1>1, <2>3, <2>4 DEF WholeInv, Done
  <2> HIDE DEF fs
  <2>6. /\ DOMAIN Cells = 1 .. 4 /\ Len(Cells) = 4
        /\ \A k \in 1 .. 4 : Shown(FromPixels(Cells[k], Cells[k].on)) = Shown(FromPixels(fs[k], fs[k].on))
    BY <2>3, <2>4, <2>5, CutAreFrames
  <2>7. QED BY <2>3, <2>4, <2>6
<1>2. QED BY <1>1, AlwaysPieces, AlwaysWhole, AlwaysBack, PTL

-----------------------------------------------------------------------------
(* The frames of a cycle.                                                  *)

LEMMA RoundIs ==
    ASSUME NEW a \in Nat, NEW b \in Nat \ {0}
    PROVE  Round(a, b) \in Nat
<1>1. a \div b \in Nat
  BY Dividing
<1> DEFINE low == a \div b
<1>2. low \in Nat /\ low + 1 \in Nat
  BY <1>1
<1>3. Round(a, b) = low \/ Round(a, b) = low + 1
  BY DEF Round
<1> HIDE DEF low
<1>4. QED BY <1>2, <1>3

LEMMA OneAtLeast ==
    ASSUME NEW n \in Nat
    PROVE  Max({1, n}) \in Nat \ {0}
<1>1. Max({1, n}) = IF 1 >= n THEN 1 ELSE n
  BY OfTwo
<1>2. QED BY <1>1

LEMMA ResizeIs ==
    ASSUME NEW im, NEW w \in Nat \ {0}, NEW h \in Nat \ {0}
    PROVE  IsPicture(Resize(im, w, h)) /\ Resize(im, w, h).h = h
<1> DEFINE new == Resize(im, w, h)
<1>1. \E S : new = [w |-> w, h |-> h, rgb |-> new.rgb, on |-> S] /\ S \subseteq Pixels(w, h)
  <2> DEFINE under(p) == <<((2 * p[1] + 1) * im.w) \div (2 * w), ((2 * p[2] + 1) * im.h) \div (2 * h)>>
             S == {p \in Pixels(w, h) : under(p) \in im.on}
             ink == [p \in Pixels(w, h) |-> im.rgb[under(p)]]
  <2>1. new = [w |-> w, h |-> h, rgb |-> ink, on |-> S]
    BY DEF Resize
  <2>2. S \subseteq Pixels(w, h)
    OBVIOUS
  <2> HIDE DEF new, S, ink
  <2>3. new.rgb = ink
    BY <2>1
  <2>4. QED BY <2>1, <2>2, <2>3
<1> HIDE DEF new
<1>2. /\ new.w = w /\ new.h = h /\ new.on \subseteq Pixels(w, h)
      /\ new = [w |-> new.w, h |-> new.h, rgb |-> new.rgb, on |-> new.on]
  BY <1>1
<1>3. IsPicture(new) /\ new.h = h
  BY <1>2 DEF IsPicture, Area
<1>4. QED BY <1>3 DEF new

LEMMA FitIs ==
    ASSUME NEW im, IsPicture(im), NEW tall \in Nat \ {0}
    PROVE  IsPicture(Fit(im, tall)) /\ Fit(im, tall).h = tall
<1>1. im.w \in Nat /\ im.h \in Nat \ {0}
  BY DEF IsPicture
<1>2. im.w * tall \in Nat
  BY <1>1
<1>3. Max({1, Round(im.w * tall, im.h)}) \in Nat \ {0}
  BY <1>1, <1>2, RoundIs, OneAtLeast
<1>4. QED BY <1>3, ResizeIs DEF Fit

LEMMA ScaleIs ==
    ASSUME NEW im, IsPicture(im), NEW f, f[1] \in Nat, f[2] \in Nat \ {0}
    PROVE  IsPicture(Scale(im, f))
<1>1. im.w \in Nat /\ im.h \in Nat
  BY DEF IsPicture
<1>2. im.w * f[1] \in Nat /\ im.h * f[1] \in Nat
  BY <1>1
<1>3. Max({1, Round(im.w * f[1], f[2])}) \in Nat \ {0} /\ Max({1, Round(im.h * f[1], f[2])}) \in Nat \ {0}
  BY <1>2, RoundIs, OneAtLeast
<1>4. QED BY <1>3, ResizeIs DEF Scale

(* A pose that has not collapsed: a picture is left, cut to its box.       *)
IsPose(pose) == IsPicture(pose.im) /\ IsSprite(pose)

LEMMA SpriteIs ==
    ASSUME NEW pose, IsPose(pose)
    PROVE  IsPicture(Sprite(pose))
<1> DEFINE im == Cleared(pose)
           b == OpaqueBox(im)
           f == Sprite(pose)
<1>1. IsPicture(im)
  <2>1. IsPicture(pose.im)
    BY DEF IsPose
  <2>2. IsPicture(KnockedOut(pose.im, {}))
    BY <2>1, WithoutPicture DEF KnockedOut
  <2>3. QED BY <2>1, <2>2, WithoutPicture DEF Cleared
<1>2. im.on # {}
  <2>1. Cardinality(im.on) >= MinOpaque /\ MinOpaque \in Nat \ {0}
    BY PosesAssumption DEF IsPose, IsSprite
  <2>2. Cardinality({}) = 0
    BY FS_EmptySet
  <2>3. QED BY <2>1, <2>2
<1>3. f = CropBox(im, b, 0)
  BY DEF Sprite
<1> HIDE DEF im, f
<1>4. im.on \subseteq Area(im) /\ im.w \in Nat \ {0} /\ im.h \in Nat \ {0}
  BY <1>1 DEF IsPicture
<1>5. Bounds(im.on, b)
  BY <1>2, <1>4, BoxBounds DEF OpaqueBox
<1> HIDE DEF b
<1>6. PICK x0, y0, w, h \in Int : f = Crop(im, x0, y0, w, h) /\ Frames(x0, y0, w, h, b, 0)
  BY <1>1, <1>3, <1>4, <1>5, CropBoxFrames
<1>7. w \in Nat \ {0} /\ h \in Nat \ {0}
  BY <1>5, <1>6 DEF Frames, Bounds
<1>8. f = [w |-> w, h |-> h, rgb |-> f.rgb, on |-> f.on] /\ f.on \subseteq Pixels(w, h)
  BY <1>6 DEF Crop
<1>9. f.w = w /\ f.h = h
  BY <1>8
<1>10. IsPicture(f)
  BY <1>7, <1>8, <1>9 DEF IsPicture, Area
<1>11. QED BY <1>10 DEF f

(* A cycle of poses that have not collapsed, with or without factors.      *)
Paintable(neutral, poses, factors) ==
    /\ IsPose(neutral)
    /\ DOMAIN poses = 1 .. Len(poses) /\ Len(poses) \in Nat \ {0}
    /\ \A i \in 1 .. Len(poses) :
          IF poses[i] # <<>> THEN IsPose(poses[i][1])
          ELSE factors # <<>> => factors[i][1] \in Nat /\ factors[i][2] \in Nat \ {0}

(* What _cycle hands to _sheet can be laid out, as SheetsComeBack assumes  *)
(* of a sheet, and without factors every frame has the neutral one's       *)
(* height: _fit gives a painted pose that height and one column at least.  *)
THEOREM CycleIsLaidOut ==
    ASSUME NEW neutral, NEW poses, NEW factors, Paintable(neutral, poses, factors)
    PROVE  /\ LaidOut(Cycle(neutral, poses, factors))
           /\ Len(Cycle(neutral, poses, factors)) = Len(poses)
           /\ factors = <<>> =>
                 \A i \in 1 .. Len(poses) : Cycle(neutral, poses, factors)[i].h = Sprite(neutral).h
<1> DEFINE n == Len(poses)
           fs == Cycle(neutral, poses, factors)
           base == Sprite(neutral)
<1>1. n \in Nat \ {0} /\ DOMAIN poses = 1 .. n
  BY DEF Paintable
<1>2. fs = [i \in 1 .. n |-> IF poses[i] # <<>> THEN Fit(Sprite(poses[i][1]), base.h)
                             ELSE IF factors = <<>> THEN base ELSE Scale(base, factors[i])]
  BY <1>1 DEF Cycle
<1>3. IsPicture(base) /\ base.h \in Nat \ {0}
  <2>1. IsPicture(base)
    BY SpriteIs DEF Paintable
  <2>2. QED BY <2>1 DEF IsPicture
<1>4. DOMAIN fs = 1 .. n /\ Len(fs) = n
  BY <1>1, <1>2
<1>5. ASSUME NEW i \in 1 .. n
      PROVE  IsPicture(fs[i]) /\ (factors = <<>> => fs[i].h = base.h)
  <2>1. fs[i] = IF poses[i] # <<>> THEN Fit(Sprite(poses[i][1]), base.h)
                ELSE IF factors = <<>> THEN base ELSE Scale(base, factors[i])
    BY <1>2
  <2> HIDE DEF fs, base
  <2>2. CASE poses[i] # <<>>
    <3>1. IsPicture(Sprite(poses[i][1]))
      BY <2>2, SpriteIs DEF Paintable
    <3>2. QED BY <1>3, <2>1, <2>2, <3>1, FitIs
  <2>3. CASE poses[i] = <<>> /\ factors = <<>>
    BY <1>3, <2>1, <2>3
  <2>4. CASE poses[i] = <<>> /\ factors # <<>>
    <3>1. factors[i][1] \in Nat /\ factors[i][2] \in Nat \ {0}
      BY <2>4 DEF Paintable
    <3>2. QED BY <1>3, <2>1, <2>4, <3>1, ScaleIs
  <2>5. QED BY <2>2, <2>3, <2>4
<1> HIDE DEF fs, base
<1>6. LaidOut(fs)
  BY <1>1, <1>4, <1>5 DEF LaidOut
<1>7. QED BY <1>1, <1>4, <1>5, <1>6 DEF fs, base

-----------------------------------------------------------------------------
(***************************************************************************)
(* The files of the cast.                                                  *)
(***************************************************************************)

(* Rows that can be written: a sequence of pictures with distinct ids.     *)
Proper(rs) ==
    /\ rs \in Seq(ToSet(rs))
    /\ \A i \in 1 .. Len(rs) : rs[i].id \in Ids
    /\ \A i, j \in 1 .. Len(rs) : rs[i].id = rs[j].id => i = j

(* The rows of the first n sheets, each id of them cut.                    *)
Complete(rs, n) ==
    /\ Proper(rs)
    /\ \A i \in 1 .. Len(rs) :
          /\ rs[i].source = "sheet"
          /\ \E k \in 1 .. n : \E l \in 1 .. Len(Sheets[k].ids) : rs[i].id = Sheets[k].ids[l]
    /\ \A k \in 1 .. n : \A l \in 1 .. Len(Sheets[k].ids) :
          \E i \in 1 .. Len(rs) : rs[i].id = Sheets[k].ids[l]

(* The pictures that emit has saved so far are on disk.                    *)
Written == at \in 0 .. Len(batch) /\ \A i \in 1 .. at : cast[batch[i].id] = batch[i]

Described ==
    {"slice", "paint"} \cap ToSet(log) # {} =>
        manifest # {} /\ \A row \in manifest : cast[row.id] = row

Scripts == {"slice", "paint", "hero", "cycles"}

FilesInv ==
    /\ log \in Seq(Scripts)
    /\ cast = [i \in Ids |-> cast[i]]
    /\ script = "slice" => at \in 0 .. Len(Sheets) /\ (missing = {} => Complete(batch, at))
    /\ script = "slice: emit" => Complete(batch, Len(Sheets))
    /\ script = "paint: emit" => batch = StandIns
    /\ script = "" => batch = <<>> /\ at = 0
    /\ Emitting => Written
    /\ ~Emitting => Described
    /\ NeverMixed

-----------------------------------------------------------------------------
(* Sequences.                                                              *)

LEMMA SheetsAre ==
    /\ Len(Sheets) \in Nat \ {0} /\ DOMAIN Sheets = 1 .. Len(Sheets)
    /\ \A i \in 1 .. Len(Sheets) : /\ Len(Sheets[i].ids) \in Nat \ {0}
                                   /\ DOMAIN Sheets[i].ids = 1 .. Len(Sheets[i].ids)
<1>1. Sheets \in Seq(ToSet(Sheets)) /\ Sheets # <<>>
  BY IdsAssumption
<1>2. Len(Sheets) \in Nat \ {0} /\ DOMAIN Sheets = 1 .. Len(Sheets)
  BY <1>1
<1>3. ASSUME NEW i \in 1 .. Len(Sheets)
      PROVE  Len(Sheets[i].ids) \in Nat \ {0} /\ DOMAIN Sheets[i].ids = 1 .. Len(Sheets[i].ids)
  <2>1. Sheets[i].ids \in Seq(Ids) /\ Sheets[i].ids # <<>>
    BY <1>2, <1>3, IdsAssumption
  <2>2. QED BY <2>1
<1>4. QED BY <1>2, <1>3

(* What a run leaves in the log: its own name and some of what was there.  *)
LEMMA Remembered ==
    ASSUME NEW S, log \in Seq(S), NEW s \in S,
           log' = SubSeq(log, Max({1, Len(log) - 1}), Len(log)) \o <<s>>
    PROVE  log' \in Seq(S) /\ ToSet(log') \subseteq ToSet(log) \cup {s}
<1> DEFINE m == Max({1, Len(log) - 1})
           last == SubSeq(log, m, Len(log))
<1>1. Len(log) \in Nat /\ DOMAIN log = 1 .. Len(log)
  OBVIOUS
<1>2. m \in Int /\ m >= 1
  <2>1. CASE Len(log) - 1 <= 1
    <3>1. m = 1 BY <1>1, <2>1 DEF Max
    <3>2. QED BY <3>1
  <2>2. CASE Len(log) - 1 > 1
    <3>1. m = Len(log) - 1 BY <1>1, <2>2 DEF Max
    <3>2. QED BY <1>1, <2>2, <3>1
  <2>3. QED BY <1>1, <2>1, <2>2
<1> HIDE DEF m
<1>3. last = [i \in 1 .. 1 + Len(log) - m |-> log[i + m - 1]]
  BY <1>1, <1>2
<1> HIDE DEF last
<1>4. \A i \in 1 .. 1 + Len(log) - m : i + m - 1 \in 1 .. Len(log)
  BY <1>1, <1>2
<1>5. ToSet(last) \subseteq ToSet(log)
  BY <1>1, <1>3, <1>4 DEF ToSet
<1>6. last \in Seq(S)
  BY <1>1, <1>2, <1>3, <1>4
<1>7. log' = last \o <<s>>
  BY DEF last, m
<1> DEFINE new == last \o <<s>>
<1>8. /\ new \in Seq(S) /\ Len(new) = Len(last) + 1
      /\ \A i \in 1 .. Len(last) : new[i] = last[i]
      /\ new[Len(last) + 1] = s
  <2>1. <<s>> \in Seq(S) /\ Len(<<s>>) = 1 /\ <<s>>[1] = s /\ S \cup S = S
    OBVIOUS
  <2>2. 1 \in 1 .. Len(<<s>>)
    BY <2>1
  <2>3. QED BY <1>6, <2>1, <2>2, Joined
<1> HIDE DEF new
<1>9. /\ Len(last) \in Nat /\ DOMAIN last = 1 .. Len(last)
      /\ DOMAIN new = 1 .. Len(new)
  BY <1>6, <1>8
<1>10. \A i \in 1 .. Len(new) : new[i] \in ToSet(last) \cup {s}
  <2>1. TAKE i \in 1 .. Len(new)
  <2>2. CASE i \in 1 .. Len(last)
    BY <1>8, <1>9, <2>2 DEF ToSet
  <2>3. CASE i = Len(last) + 1
    BY <1>8, <2>3
  <2>4. QED BY <1>8, <1>9, <2>2, <2>3
<1>11. ToSet(new) \subseteq ToSet(last) \cup {s}
  BY <1>9, <1>10 DEF ToSet
<1>12. log' = new
  BY <1>7 DEF new
<1>13. QED BY <1>5, <1>8, <1>11, <1>12

-----------------------------------------------------------------------------
(* The rows.                                                               *)

(* The rows c are cut from the sheet with these ids, as high as fig.        *)
CutAs(c, ids, fig) ==
    /\ c \in Seq(ToSet(c)) /\ Len(c) = Len(ids)
    /\ \A i \in 1 .. Len(c) : c[i].id = ids[i] /\ c[i].source = "sheet" /\ c[i].fig = fig

LEMMA CutIsProper ==
    ASSUME NEW n \in 1 .. Len(Sheets), NEW fig
    PROVE  CutAs(RowsOf(Sheets[n], fig), Sheets[n].ids, fig)
<1> DEFINE c == RowsOf(Sheets[n], fig)
           row(i) == [id |-> Sheets[n].ids[i], source |-> "sheet", fig |-> fig,
                      cell |-> IF Sheets[n].mode = "still" THEN fig + 2 ELSE fig,
                      frames |-> IF Sheets[n].mode = "strip" THEN 4 ELSE 1]
           m == Len(Sheets[n].ids)
<1>1. m \in Nat /\ DOMAIN Sheets[n].ids = 1 .. m
  BY SheetsAre
<1>2. c = [i \in 1 .. m |-> row(i)]
  BY <1>1 DEF RowsOf
<1>3. \A i \in 1 .. m : row(i).id = Sheets[n].ids[i] /\ row(i).source = "sheet" /\ row(i).fig = fig
  OBVIOUS
<1> HIDE DEF c, row, m
<1>4. c \in Seq({row(i) : i \in 1 .. m}) /\ Len(c) = m /\ \A i \in 1 .. m : c[i] = row(i)
  BY <1>1, <1>2
<1>5. c \in Seq(ToSet(c))
  BY <1>4, ItsOwnSet
<1>6. \A i \in 1 .. Len(c) : c[i].id = Sheets[n].ids[i] /\ c[i].source = "sheet" /\ c[i].fig = fig
  BY <1>3, <1>4
<1>7. QED BY <1>4, <1>5, <1>6 DEF CutAs, c, m

LEMMA CutAdds ==
    ASSUME NEW n \in Nat, n + 1 \in 1 .. Len(Sheets), NEW fig, NEW rs, Complete(rs, n)
    PROVE  Complete(rs \o RowsOf(Sheets[n + 1], fig), n + 1)
<1> DEFINE c == RowsOf(Sheets[n + 1], fig)
           new == rs \o c
           ids(k) == Sheets[k].ids
<1>1. /\ c \in Seq(ToSet(c)) /\ Len(c) = Len(ids(n + 1))
      /\ \A i \in 1 .. Len(c) : c[i].id = ids(n + 1)[i] /\ c[i].source = "sheet"
  <2>1. CutAs(c, Sheets[n + 1].ids, fig)
    BY CutIsProper
  <2> HIDE DEF c
  <2>2. QED BY <2>1 DEF CutAs
<1>2. rs \in Seq(ToSet(rs))
  BY DEF Complete, Proper
<1>3. Len(rs) \in Nat /\ Len(c) \in Nat
  BY <1>1, <1>2
<1> HIDE DEF c
<1>4. /\ new \in Seq(ToSet(rs) \cup ToSet(c)) /\ Len(new) = Len(rs) + Len(c)
      /\ \A i \in 1 .. Len(rs) : new[i] = rs[i]
      /\ \A i \in 1 .. Len(c) : new[Len(rs) + i] = c[i]
  <2> DEFINE A == ToSet(rs)
             B == ToSet(c)
  <2>1. rs \in Seq(A) /\ c \in Seq(B)
    BY <1>1, <1>2
  <2> HIDE DEF A, B
  <2>2. /\ rs \o c \in Seq(A \cup B) /\ Len(rs \o c) = Len(rs) + Len(c)
        /\ \A i \in 1 .. Len(rs) : (rs \o c)[i] = rs[i]
        /\ \A i \in 1 .. Len(c) : (rs \o c)[Len(rs) + i] = c[i]
    BY <2>1, Joined
  <2>3. QED BY <2>2 DEF A, B
<1> HIDE DEF new
<1>5. new \in Seq(ToSet(new))
  BY <1>4, ItsOwnSet
<1>6. \A i \in 1 .. Len(new) : i \in 1 .. Len(rs) \/ (i - Len(rs) \in 1 .. Len(c) /\ i = Len(rs) + (i - Len(rs)))
  BY <1>3, <1>4
<1>7. \A i \in 1 .. Len(new) : i \notin 1 .. Len(rs) =>
          new[i].id = ids(n + 1)[i - Len(rs)] /\ new[i].source = "sheet" /\ i - Len(rs) \in 1 .. Len(ids(n + 1))
  BY <1>1, <1>4, <1>6
<1>8. \A i \in 1 .. Len(rs) : /\ new[i].id = rs[i].id /\ new[i].source = "sheet"
                              /\ \E k \in 1 .. n : \E l \in 1 .. Len(ids(k)) : new[i].id = ids(k)[l]
  BY <1>4 DEF Complete
<1>9. \A k \in 1 .. n + 1 : k \in 1 .. Len(Sheets) /\ k \in DOMAIN Sheets
  BY SheetsAre
<1>10. \A k, j \in 1 .. n + 1 : \A l \in 1 .. Len(ids(k)), m \in 1 .. Len(ids(j)) :
           ids(k)[l] = ids(j)[m] => k = j /\ l = m
  <2>1. TAKE k, j \in 1 .. n + 1
  <2>2. TAKE l \in 1 .. Len(ids(k)), m \in 1 .. Len(ids(j))
  <2>3. /\ k \in DOMAIN Sheets /\ j \in DOMAIN Sheets
        /\ l \in DOMAIN Sheets[k].ids /\ m \in DOMAIN Sheets[j].ids
    BY <1>9, <2>1, <2>2, SheetsAre
  <2>4. Sheets[k].ids[l] = Sheets[j].ids[m] => k = j /\ l = m
    BY <2>3, IdsAssumption
  <2>5. QED BY <2>4
<1>11. \A k \in 1 .. n + 1 : \A l \in 1 .. Len(ids(k)) : ids(k)[l] \in Ids
  <2>1. TAKE k \in 1 .. n + 1
  <2>2. ids(k) \in Seq(Ids)
    BY <1>9, IdsAssumption
  <2>3. QED BY <2>2
<1> HIDE DEF ids
<1>12. n + 1 \in 1 .. n + 1 /\ \A k \in 1 .. n : k \in 1 .. n + 1 /\ k # n + 1
  OBVIOUS
<1>13. \A i \in 1 .. Len(new) : new[i].id \in Ids
  <2>1. TAKE i \in 1 .. Len(new)
  <2>2. CASE i \in 1 .. Len(rs)
    BY <1>8, <2>2 DEF Complete, Proper
  <2>3. CASE i \notin 1 .. Len(rs)
    BY <1>7, <1>11, <1>12, <2>3
  <2>4. QED BY <2>2, <2>3
<1>14. ASSUME NEW i \in 1 .. Len(new), NEW j \in 1 .. Len(new), new[i].id = new[j].id
       PROVE  i = j
  <2>1. CASE i \in 1 .. Len(rs) /\ j \in 1 .. Len(rs)
    BY <1>8, <1>14, <2>1 DEF Complete, Proper
  <2>2. CASE i \in 1 .. Len(rs) /\ j \notin 1 .. Len(rs)
    BY <1>7, <1>8, <1>10, <1>12, <1>14, <2>2
  <2>3. CASE i \notin 1 .. Len(rs) /\ j \in 1 .. Len(rs)
    BY <1>7, <1>8, <1>10, <1>12, <1>14, <2>3
  <2>4. CASE i \notin 1 .. Len(rs) /\ j \notin 1 .. Len(rs)
    <3> DEFINE a == i - Len(rs)
               b == j - Len(rs)
    <3>1. /\ a \in 1 .. Len(ids(n + 1)) /\ b \in 1 .. Len(ids(n + 1))
          /\ ids(n + 1)[a] = ids(n + 1)[b]
      BY <1>7, <1>14, <2>4
    <3> HIDE DEF a, b
    <3>2. a = b
      BY <1>10, <1>12, <3>1
    <3>3. QED BY <1>3, <3>2 DEF a, b
  <2>5. QED BY <2>1, <2>2, <2>3, <2>4
<1>15. Proper(new)
  BY <1>5, <1>13, <1>14 DEF Proper
<1>16. ASSUME NEW i \in 1 .. Len(new)
       PROVE  /\ new[i].source = "sheet"
              /\ \E k \in 1 .. n + 1 : \E l \in 1 .. Len(ids(k)) : new[i].id = ids(k)[l]
  <2>1. CASE i \in 1 .. Len(rs)
    BY <1>8, <1>12, <2>1
  <2>2. CASE i \notin 1 .. Len(rs)
    BY <1>7, <1>12, <2>2
  <2>3. QED BY <2>1, <2>2
<1>17. ASSUME NEW k \in 1 .. n + 1, NEW l \in 1 .. Len(ids(k))
       PROVE  \E i \in 1 .. Len(new) : new[i].id = ids(k)[l]
  <2>1. CASE k = n + 1
    <3>1. l \in 1 .. Len(c) /\ Len(rs) + l \in 1 .. Len(new)
      BY <1>1, <1>3, <1>4, <1>17, <2>1 DEF ids
    <3>2. new[Len(rs) + l].id = ids(k)[l]
      BY <1>1, <1>4, <2>1, <3>1 DEF ids
    <3>3. QED BY <3>1, <3>2
  <2>2. CASE k \in 1 .. n
    <3>1. PICK i \in 1 .. Len(rs) : rs[i].id = ids(k)[l]
      BY <1>17, <2>2 DEF Complete, ids
    <3>2. i \in 1 .. Len(new)
      BY <1>3, <1>4
    <3>3. QED BY <1>8, <3>1, <3>2
  <2>3. QED BY <2>1, <2>2
<1>18. Complete(new, n + 1)
  BY <1>15, <1>16, <1>17 DEF Complete, ids
<1>19. QED BY <1>18 DEF new, c

LEMMA CompleteStart == Complete(<<>>, 0)
  BY DEF Complete, Proper, ToSet

LEMMA StandInsProper == Proper(StandIns) /\ StandIns # <<>>
<1>1. StandIns \in Seq(ToSet(StandIns)) /\ StandIns # <<>>
  BY IdsAssumption
<1>2. DOMAIN StandIns = 1 .. Len(StandIns)
  BY <1>1
<1>3. \A i \in 1 .. Len(StandIns) : StandIns[i].id \in Ids
  <2>1. TAKE i \in 1 .. Len(StandIns)
  <2> DEFINE cut == UNION {ToSet(Sheets[k].ids) : k \in DOMAIN Sheets}
             painted == {StandIns[k].id : k \in DOMAIN StandIns}
  <2>2. StandIns[i].id \in painted
    BY <1>2
  <2>3. Ids = cut \cup painted
    BY DEF Ids
  <2> HIDE DEF cut, painted
  <2>4. QED BY <2>2, <2>3
<1>4. QED BY <1>1, <1>2, <1>3, IdsAssumption DEF Proper

-----------------------------------------------------------------------------
(* Every step.                                                             *)

LEMMA Forgotten == <<>> \in Seq(Scripts) /\ ToSet(<<>>) = {}
  BY DEF ToSet

LEMMA FilesInitInv == FilesInit => FilesInv
<1>1. SUFFICES ASSUME FilesInit PROVE FilesInv
  OBVIOUS
<1>2. /\ cast = [i \in Ids |-> NoFile] /\ manifest = {} /\ script = "" /\ at = 0
      /\ batch = <<>> /\ log = <<>>
  BY <1>1 DEF FilesInit
<1>3. log \in Seq(Scripts) /\ Described
  BY <1>2, Forgotten DEF Described
<1>4. cast = [i \in Ids |-> cast[i]]
  BY <1>2
<1>5. ~Emitting /\ NeverMixed
  BY <1>2 DEF Emitting, NeverMixed
<1>6. QED BY <1>2, <1>3, <1>4, <1>5 DEF FilesInv

LEMMA NothingWritten ==
    ASSUME at' = 0, Len(batch') \in Nat
    PROVE  Written'
<1>1. at' \in 0 .. Len(batch') /\ 1 .. at' = {}
  OBVIOUS
<1>2. QED BY <1>1 DEF Written

(* A step that leaves what is on disk and in the log, or forgets the log,  *)
(* and does not start a loop that saves.                                   *)
LEMMA QuietInv ==
    ASSUME FilesInv, UNCHANGED manifest,
           cast' = [i \in Ids |-> cast'[i]],
           ~Emitting', script' # "slice",
           script' = "" => batch' = <<>> /\ at' = 0,
           \/ UNCHANGED <<cast, log>> /\ ~Emitting
           \/ log' = <<>>
    PROVE  FilesInv'
<1>1. log' \in Seq(Scripts)
  BY Forgotten DEF FilesInv
<1>2. NeverMixed'
  BY DEF FilesInv, NeverMixed
<1>3. Described'
  <2>1. CASE UNCHANGED <<cast, log>> /\ ~Emitting
    BY <2>1 DEF FilesInv, Described
  <2>2. CASE log' = <<>>
    BY <2>2, Forgotten DEF Described
  <2>3. QED BY <2>1, <2>2
<1>4. script' # "slice: emit" /\ script' # "paint: emit"
  BY DEF Emitting
<1>5. QED BY <1>1, <1>2, <1>3, <1>4 DEF FilesInv

LEMMA StartSliceInv ==
    ASSUME FilesInv, StartSlice
    PROVE  FilesInv'
<1>1. /\ script' = "slice" /\ at' = 0 /\ batch' = <<>> /\ missing' = {}
      /\ UNCHANGED <<cast, manifest, log>> /\ script = ""
  BY DEF StartSlice, Enter
<1>2. ~Emitting /\ ~Emitting'
  BY <1>1 DEF Emitting
<1>3. Described' /\ NeverMixed'
  BY <1>1, <1>2 DEF FilesInv, Described, NeverMixed
<1>4. Complete(batch, at)'
  BY <1>1, CompleteStart
<1>5. at' \in 0 .. Len(Sheets)
  <2>1. Len(Sheets) \in Nat
    BY SheetsAre
  <2>2. 0 \in 0 .. Len(Sheets)
    BY <2>1
  <2>3. at' = 0
    BY <1>1
  <2>4. QED BY <2>2, <2>3
<1>6. QED BY <1>1, <1>2, <1>3, <1>4, <1>5 DEF FilesInv

LEMMA ReadSheetInv ==
    ASSUME FilesInv, ReadSheet
    PROVE  FilesInv'
<1> DEFINE entry == Sheets[at + 1]
           found == sheets[entry.file]
<1>1. script = "slice" /\ at < Len(Sheets) /\ UNCHANGED <<cast, manifest, log>>
  BY DEF ReadSheet
<1>2. ~Emitting
  BY <1>1 DEF Emitting
<1>3. CASE found = Torn
  <2>1. script' = "" /\ batch' = <<>> /\ at' = 0
    BY <1>3 DEF ReadSheet, Exit, Enter
  <2>2. ~Emitting'
    BY <2>1 DEF Emitting
  <2>3. QED BY <1>1, <1>2, <2>1, <2>2, QuietInv DEF FilesInv
<1>4. CASE found # Torn
  <2>1. /\ at' = at + 1 /\ script' = script
        /\ missing' = IF found = NoFile THEN missing \cup {entry.file} ELSE missing
        /\ batch' = IF found = NoFile THEN batch ELSE batch \o RowsOf(entry, found)
    BY <1>4 DEF ReadSheet
  <2>2. at \in Nat /\ at + 1 \in 1 .. Len(Sheets)
    BY <1>1, SheetsAre DEF FilesInv
  <2>3. ASSUME missing' = {} PROVE Complete(batch', at')
    <3>1. missing = {} /\ batch' = batch \o RowsOf(entry, found)
      BY <2>1, <2>3
    <3>2. Complete(batch, at)
      BY <1>1, <3>1 DEF FilesInv
    <3>3. QED BY <2>1, <2>2, <3>1, <3>2, CutAdds
  <2>4. script' = "slice" /\ ~Emitting'
    BY <1>1, <2>1 DEF Emitting
  <2>5. at' \in 0 .. Len(Sheets)
    BY <2>1, <2>2
  <2>6. Described' /\ NeverMixed'
    BY <1>1, <1>2 DEF FilesInv, Described, NeverMixed
  <2>7. QED BY <1>1, <2>3, <2>4, <2>5, <2>6 DEF FilesInv
<1>5. QED BY <1>3, <1>4

LEMMA EndSlicesInv ==
    ASSUME FilesInv, EndSlices
    PROVE  FilesInv'
<1>1. script = "slice" /\ at = Len(Sheets) /\ UNCHANGED <<cast, manifest, log>>
  BY DEF EndSlices
<1>2. ~Emitting
  BY <1>1 DEF Emitting
<1>3. CASE missing # {}
  <2>1. script' = "" /\ batch' = <<>> /\ at' = 0
    BY <1>3 DEF EndSlices, Exit, Enter
  <2>2. ~Emitting'
    BY <2>1 DEF Emitting
  <2>3. QED BY <1>1, <1>2, <2>1, <2>2, QuietInv DEF FilesInv
<1>4. CASE missing = {}
  <2>1. script' = "slice: emit" /\ at' = 0 /\ batch' = batch
    BY <1>4 DEF EndSlices
  <2>2. Complete(batch, Len(Sheets))
    BY <1>1, <1>4 DEF FilesInv
  <2>3. Len(batch) \in Nat
    BY <2>2 DEF Complete, Proper
  <2>4. Written'
    BY <2>1, <2>3, NothingWritten
  <2>5. Emitting'
    BY <2>1 DEF Emitting
  <2>6. NeverMixed'
    BY <1>1 DEF FilesInv, NeverMixed
  <2>7. QED BY <1>1, <2>1, <2>2, <2>4, <2>5, <2>6 DEF FilesInv
<1>5. QED BY <1>3, <1>4

LEMMA StartPaintInv ==
    ASSUME FilesInv, StartPaint
    PROVE  FilesInv'
<1>1. script = "" /\ script' = "paint: emit" /\ batch' = StandIns /\ UNCHANGED <<cast, manifest, at, log>>
  BY DEF StartPaint
<1>2. at = 0
  BY <1>1 DEF FilesInv
<1>3. Len(StandIns) \in Nat
  BY StandInsProper DEF Proper
<1>4. Written'
  BY <1>1, <1>2, <1>3, NothingWritten
<1>5. Emitting' /\ NeverMixed'
  BY <1>1 DEF Emitting, FilesInv, NeverMixed
<1>6. QED BY <1>1, <1>4, <1>5 DEF FilesInv

(* The rows that are being saved can be: no id comes twice.                *)
LEMMA RowsProper ==
    ASSUME FilesInv, Emitting
    PROVE  Proper(batch) /\ batch # <<>>
<1>1. CASE script = "slice: emit"
  <2>1. Complete(batch, Len(Sheets))
    BY <1>1 DEF FilesInv
  <2>2. 1 \in 1 .. Len(Sheets) /\ 1 \in 1 .. Len(Sheets[1].ids)
    BY SheetsAre
  <2>3. \E i \in 1 .. Len(batch) : batch[i].id = Sheets[1].ids[1]
    BY <2>1, <2>2 DEF Complete
  <2>4. batch # <<>>
    BY <2>3
  <2>5. QED BY <2>1, <2>4 DEF Complete
<1>2. CASE script = "paint: emit"
  BY <1>2, StandInsProper DEF FilesInv
<1>3. QED BY <1>1, <1>2 DEF Emitting

LEMMA SavePictureInv ==
    ASSUME FilesInv, SavePicture
    PROVE  FilesInv'
<1>1. /\ Emitting /\ at < Len(batch) /\ at' = at + 1
      /\ cast' = [cast EXCEPT ![batch[at + 1].id] = batch[at + 1]]
      /\ UNCHANGED <<manifest, script, batch, missing, log>>
  BY DEF SavePicture
<1>2. Emitting'
  BY <1>1 DEF Emitting
<1>3. Proper(batch) /\ Written
  BY <1>1, RowsProper DEF FilesInv
<1>4. Len(batch) \in Nat /\ at \in Nat /\ at + 1 \in 1 .. Len(batch)
  BY <1>1, <1>3 DEF Proper, Written
<1>5. batch[at + 1].id \in Ids
  BY <1>3, <1>4 DEF Proper
<1>6. \A x \in Ids : cast'[x] = IF x = batch[at + 1].id THEN batch[at + 1] ELSE cast[x]
  BY <1>1 DEF FilesInv
<1>7. \A i \in 1 .. at : /\ i \in 1 .. Len(batch) /\ batch[i].id \in Ids
                         /\ batch[i].id # batch[at + 1].id /\ cast[batch[i].id] = batch[i]
  BY <1>3, <1>4 DEF Proper, Written
<1>8. ASSUME NEW i \in 1 .. at' PROVE cast'[batch[i].id] = batch[i]
  <2>1. CASE i \in 1 .. at
    BY <1>6, <1>7, <2>1
  <2>2. CASE i = at + 1
    BY <1>5, <1>6, <2>2
  <2>3. QED BY <1>1, <1>4, <2>1, <2>2
<1>9. Written'
  BY <1>1, <1>4, <1>8 DEF Written
<1>10. cast' = [i \in Ids |-> cast'[i]]
  BY <1>1 DEF FilesInv
<1>11. NeverMixed'
  BY <1>1 DEF FilesInv, NeverMixed
<1>12. QED BY <1>1, <1>2, <1>9, <1>10, <1>11 DEF FilesInv, Emitting

(* Back at the shell with one more name in the log.                        *)
LEMMA LeaveInv ==
    ASSUME log \in Seq(Scripts), NEW s \in Scripts, Leave(s)
    PROVE  /\ script' = "" /\ batch' = <<>> /\ at' = 0 /\ ~Emitting'
           /\ log' \in Seq(Scripts) /\ ToSet(log') \subseteq ToSet(log) \cup {s}
  BY Remembered DEF Leave, Exit, Enter, Emitting

LEMMA WriteManifestInv ==
    ASSUME FilesInv, WriteManifest
    PROVE  FilesInv'
<1> DEFINE s == IF script = "slice: emit" THEN "slice" ELSE "paint"
<1>1. Emitting /\ at = Len(batch) /\ manifest' = ToSet(batch) /\ Leave(s) /\ UNCHANGED cast
  BY DEF WriteManifest
<1>2. /\ script' = "" /\ batch' = <<>> /\ at' = 0 /\ ~Emitting'
      /\ log' \in Seq(Scripts)
  <2>1. log \in Seq(Scripts) /\ s \in Scripts
    BY DEF FilesInv, Scripts
  <2> HIDE DEF s
  <2>2. QED BY <1>1, <2>1, LeaveInv
<1>3. Proper(batch) /\ batch # <<>> /\ Written
  BY <1>1, RowsProper DEF FilesInv
<1>4. DOMAIN batch = 1 .. Len(batch) /\ Len(batch) \in Nat \ {0}
  BY <1>3 DEF Proper
<1>5. ToSet(batch) # {} /\ \A i \in 1 .. Len(batch) : batch[i] \in ToSet(batch)
  <2>1. \A i \in 1 .. Len(batch) : batch[i] \in ToSet(batch)
    BY <1>4 DEF ToSet
  <2>2. 1 \in 1 .. Len(batch)
    BY <1>4
  <2>3. QED BY <2>1, <2>2
<1>6. \A row \in ToSet(batch) : cast[row.id] = row
  BY <1>1, <1>3, <1>4 DEF Written, ToSet
<1>7. Described'
  BY <1>1, <1>5, <1>6 DEF Described
<1>8. NeverMixed'
  <2>1. CASE script = "paint: emit"
    BY <1>1, <2>1 DEF FilesInv, NeverMixed
  <2>2. CASE script = "slice: emit"
    <3>1. Complete(batch, Len(Sheets))
      BY <2>2 DEF FilesInv
    <3>2. \A row \in ToSet(batch) : row.source = "sheet"
      BY <1>4, <3>1 DEF Complete, ToSet
    <3> DEFINE ids == UNION {ToSet(Sheets[i].ids) : i \in DOMAIN Sheets}
    <3>3. \A k \in 1 .. Len(Sheets) : \A l \in 1 .. Len(Sheets[k].ids) : Sheets[k].ids[l] \in ids
      BY SheetsAre DEF ToSet
    <3>4. \A x \in ids : \E k \in 1 .. Len(Sheets) : \E l \in 1 .. Len(Sheets[k].ids) : x = Sheets[k].ids[l]
      BY SheetsAre DEF ToSet
    <3> HIDE DEF ids
    <3>5. \A row \in ToSet(batch) : row.id \in ids
      <4>1. \A i \in 1 .. Len(batch) : batch[i].id \in ids
        BY <3>1, <3>3 DEF Complete
      <4>2. QED BY <1>4, <4>1 DEF ToSet
    <3>6. ASSUME NEW x \in ids PROVE \E row \in ToSet(batch) : row.id = x
      <4>1. PICK k \in 1 .. Len(Sheets) : \E l \in 1 .. Len(Sheets[k].ids) : x = Sheets[k].ids[l]
        BY <3>4, <3>6
      <4>2. PICK i \in 1 .. Len(batch) : batch[i].id = x
        BY <3>1, <4>1 DEF Complete
      <4>3. QED BY <1>5, <4>2
    <3>7. {row.id : row \in ToSet(batch)} = ids
      BY <3>5, <3>6
    <3>8. QED BY <1>1, <3>2, <3>7 DEF NeverMixed, ids
  <2>3. QED BY <1>1, <2>1, <2>2 DEF Emitting
<1>9. QED BY <1>1, <1>2, <1>7, <1>8 DEF FilesInv

(* The end of a builder: it has written no picture.                        *)
LEMMA BuilderEndInv ==
    ASSUME FilesInv, ~Emitting, NEW s \in {"hero", "cycles"}, Leave(s), UNCHANGED <<cast, manifest>>
    PROVE  FilesInv'
<1>1. /\ script' = "" /\ batch' = <<>> /\ at' = 0 /\ ~Emitting'
      /\ log' \in Seq(Scripts) /\ ToSet(log') \subseteq ToSet(log) \cup {s}
  BY LeaveInv DEF FilesInv, Scripts
<1>2. Described'
  BY <1>1 DEF Described, FilesInv
<1>3. NeverMixed'
  BY DEF FilesInv, NeverMixed
<1>4. QED BY <1>1, <1>2, <1>3 DEF FilesInv

LEMMA BuilderInv ==
    ASSUME FilesInv, StartHero \/ ReadIdle \/ SaveHero \/ StartCycles \/ SaveCycle
    PROVE  FilesInv'
<1>1. /\ UNCHANGED <<cast, manifest, log>> /\ ~Emitting /\ ~Emitting' /\ script' # "slice"
      /\ script' = "" => batch' = <<>> /\ at' = 0
  BY DEF StartHero, ReadIdle, SaveHero, StartCycles, SaveCycle, Enter, Exit, Emitting
<1>2. cast' = [i \in Ids |-> cast'[i]]
  BY <1>1 DEF FilesInv
<1>3. QED BY <1>1, <1>2, QuietInv

(* A script cut off in the middle of a picture leaves it torn, and the log *)
(* forgets what ran before.                                                *)
LEMMA StopInv ==
    ASSUME FilesInv, Stop
    PROVE  FilesInv'
<1>1. script' = "" /\ batch' = <<>> /\ at' = 0 /\ log' = <<>>
  BY DEF Stop, Exit, Enter
<1>2. ~Emitting' /\ script' # "slice"
  BY <1>1 DEF Emitting
<1>3. cast' = [i \in Ids |-> cast'[i]]
  <2>1. cast' = cast \/ cast' = [cast EXCEPT ![batch[at + 1].id] = Torn]
    BY DEF Stop
  <2>2. QED BY <2>1 DEF FilesInv
<1>4. CASE UNCHANGED manifest
  BY <1>1, <1>2, <1>3, <1>4, QuietInv
<1>5. CASE manifest' = {}
  <2>1. Described' /\ NeverMixed'
    BY <1>1, <1>5, Forgotten DEF Described, NeverMixed
  <2>2. log' \in Seq(Scripts)
    BY <1>1, Forgotten
  <2>3. QED BY <1>1, <1>2, <1>3, <2>1, <2>2 DEF FilesInv
<1>6. QED BY <1>4, <1>5 DEF Stop

LEMMA FilesNextInv ==
    ASSUME FilesInv, [FilesNext]_fileVars
    PROVE  FilesInv'
<1>1. CASE EndHero \/ EndCycles
  <2>1. ~Emitting
    BY <1>1 DEF EndHero, EndCycles, Emitting
  <2>2. QED BY <1>1, <2>1, BuilderEndInv DEF EndHero, EndCycles
<1>2. CASE Change
  <2>1. ~Emitting /\ ~Emitting' /\ script' # "slice" /\ log' = <<>> /\ batch' = <<>> /\ at' = 0
    BY <1>2 DEF Change, Emitting, FilesInv
  <2>2. cast' = [i \in Ids |-> cast'[i]] /\ UNCHANGED manifest
    BY <1>2 DEF Change, FilesInv
  <2>3. QED BY <2>1, <2>2, QuietInv
<1>3. CASE UNCHANGED fileVars
  BY <1>3 DEF fileVars, FilesInv, Emitting, Written, Described, NeverMixed
<1>4. QED
  BY <1>1, <1>2, <1>3, StartSliceInv, ReadSheetInv, EndSlicesInv, StartPaintInv, SavePictureInv,
     WriteManifestInv, BuilderInv, StopInv DEF FilesNext

LEMMA FilesAlways == FilesSpec => []FilesInv
  BY FilesInitInv, FilesNextInv, PTL DEF FilesSpec

-----------------------------------------------------------------------------
(* Theorems.                                                               *)

(* Once emit has come to its end, and until a script is cut off, what the  *)
(* manifest lists is on disk as it lists it, whatever the scripts have     *)
(* written over one another.                                               *)
THEOREM ManifestTrue == FilesSpec => []ManifestDescribes
<1>1. FilesInv => ManifestDescribes
  BY DEF FilesInv, Emitting, Described, ManifestDescribes
<1>2. QED BY <1>1, FilesAlways, PTL

(* slice_all raises before emit runs: no manifest lists a part of the      *)
(* sheets, or sheets and stand-ins.                                        *)
THEOREM CastWhole == FilesSpec => []NeverMixed
<1>1. FilesInv => NeverMixed
  BY DEF FilesInv
<1>2. QED BY <1>1, FilesAlways, PTL

-----------------------------------------------------------------------------
(* The heights.                                                            *)

Jobs == Len(Bodies) * Len(Actions)

LEMMA Quotient ==
    ASSUME NEW i \in Nat, NEW n \in Nat, NEW j \in Nat, j < n
    PROVE  (i * n + j) \div n = i /\ (i * n + j) % n = j
<1> DEFINE k == i * n + j
           q == k \div n
           r == k % n
<1>1. k \in Nat /\ i * n \in Nat /\ n # 0
  OBVIOUS
<1>2. q \in Nat /\ r \in 0 .. n - 1 /\ k = (q * n) + r
  <2> HIDE DEF k
  <2>1. QED BY <1>1, Dividing
<1>3. k = (i * n) + j
  OBVIOUS
<1> HIDE DEF k, q, r
<1>4. q * n \in Nat
  BY <1>2
<1>5. (i < q => (i * n) + n <= q * n) /\ (q < i => (q * n) + n <= i * n)
  BY <1>2, Multiples
<1>6. q = i
  BY <1>1, <1>2, <1>3, <1>4, <1>5
<1>7. r = j
  BY <1>1, <1>2, <1>3, <1>6
<1>8. QED BY <1>6, <1>7 DEF q, r, k

(* The jobs of build_hero_sheets: body by body, and each action once.      *)
LEMMA HeroJobs ==
    /\ Jobs \in Nat /\ Len(Actions) \in Nat \ {0}
    /\ \A k \in 0 .. Jobs - 1 : /\ HeroJob(k)[1] \in ToSet(Bodies) /\ HeroJob(k)[2] \in ToSet(Actions)
                                /\ HeroJob(k) = <<HeroJob(k)[1], HeroJob(k)[2]>>
                                /\ (k + 1) % Len(Actions) # 0 =>
                                      k + 1 < Jobs /\ HeroJob(k + 1)[1] = HeroJob(k)[1]
    /\ \A b \in ToSet(Bodies), a \in ToSet(Actions) : \E k \in 0 .. Jobs - 1 : HeroJob(k) = <<b, a>>
<1> DEFINE m == Len(Bodies)
           n == Len(Actions)
<1>1. /\ m \in Nat /\ DOMAIN Bodies = 1 .. m
      /\ n \in Nat \ {0} /\ DOMAIN Actions = 1 .. n
  BY HeroAssumption
<1>2. Jobs = m * n
  BY DEF Jobs
<1> HIDE DEF m, n
<1>3. Jobs \in Nat
  BY <1>1, <1>2
<1>4. /\ \A x \in 1 .. m : Bodies[x] \in ToSet(Bodies)
      /\ \A y \in 1 .. n : Actions[y] \in ToSet(Actions)
  BY <1>1 DEF ToSet
<1>5. \A k : HeroJob(k) = <<Bodies[1 + (k \div n)], Actions[1 + (k % n)]>>
  BY DEF HeroJob, n
<1>6. ASSUME NEW k \in 0 .. Jobs - 1
      PROVE  /\ HeroJob(k)[1] \in ToSet(Bodies) /\ HeroJob(k)[2] \in ToSet(Actions)
             /\ HeroJob(k) = <<HeroJob(k)[1], HeroJob(k)[2]>>
             /\ (k + 1) % n # 0 => k + 1 < Jobs /\ HeroJob(k + 1)[1] = HeroJob(k)[1]
  <2> DEFINE q == k \div n
             r == k % n
  <2>1. k \in Nat /\ k < m * n
    BY <1>2, <1>3
  <2>2. q \in Nat /\ r \in 0 .. n - 1 /\ k = (q * n) + r
    BY <1>1, <2>1, Dividing
  <2>3. HeroJob(k) = <<Bodies[1 + q], Actions[1 + r]>>
    BY <1>5
  <2> HIDE DEF q, r
  <2>4. q * n \in Nat /\ m * n \in Nat
    BY <1>1, <2>2
  <2>5. q < m
    <3>1. m < q => (m * n) + n <= q * n
      BY <1>1, <2>2, Multiples
    <3>2. CASE q = m
      BY <1>1, <2>1, <2>2, <2>4, <3>2
    <3>3. QED BY <1>1, <2>1, <2>2, <2>4, <3>1, <3>2
  <2>6. 1 + q \in 1 .. m /\ 1 + r \in 1 .. n
    BY <1>1, <2>2, <2>5
  <2>7. ASSUME (k + 1) % n # 0
        PROVE  k + 1 < Jobs /\ HeroJob(k + 1)[1] = HeroJob(k)[1]
    <3>1. r + 1 < n
      <4>1. SUFFICES ASSUME r + 1 = n PROVE FALSE
        BY <1>1, <2>2
      <4>2. (q + 1) * n = (q * n) + n
        BY <1>1, <2>2
      <4>3. k + 1 = (q + 1) * n + 0
        BY <1>1, <2>2, <2>4, <4>1, <4>2
      <4>4. q + 1 \in Nat /\ 0 < n
        BY <1>1, <2>2
      <4>5. ((q + 1) * n + 0) % n = 0
        BY <1>1, <4>4, Quotient
      <4>6. QED BY <2>7, <4>3, <4>5
    <3>2. k + 1 = (q * n) + (r + 1)
      BY <2>1, <2>2, <2>4
    <3>3. ((q * n) + (r + 1)) \div n = q
      BY <1>1, <2>2, <3>1, Quotient
    <3>4. HeroJob(k + 1)[1] = Bodies[1 + q]
      BY <1>5, <3>2, <3>3
    <3>5. (q * n) + n <= m * n
      BY <1>1, <2>2, <2>5, Multiples
    <3>6. k + 1 < Jobs
      BY <1>1, <1>2, <2>2, <2>4, <3>1, <3>2, <3>5
    <3>7. QED BY <2>3, <3>4, <3>6
  <2>8. QED BY <1>4, <2>3, <2>6, <2>7
<1>7. ASSUME NEW b \in ToSet(Bodies), NEW a \in ToSet(Actions)
      PROVE  \E k \in 0 .. Jobs - 1 : HeroJob(k) = <<b, a>>
  <2>1. PICK x \in 1 .. m : Bodies[x] = b
    BY <1>1 DEF ToSet
  <2>2. PICK y \in 1 .. n : Actions[y] = a
    BY <1>1 DEF ToSet
  <2> DEFINE q == x - 1
             r == y - 1
             k == (q * n) + r
  <2>3. q \in Nat /\ r \in Nat /\ r < n /\ q < m /\ 1 + q = x /\ 1 + r = y
    BY <1>1
  <2> HIDE DEF q, r
  <2>4. k \div n = q /\ k % n = r
    BY <1>1, <2>3, Quotient
  <2>5. q * n \in Nat /\ (q * n) + n <= m * n
    BY <1>1, <2>3, Multiples
  <2>6. k \in 0 .. Jobs - 1
    BY <1>1, <1>2, <1>3, <2>3, <2>5
  <2>7. HeroJob(k) = <<b, a>>
    BY <1>5, <2>1, <2>2, <2>3, <2>4
  <2>8. QED BY <2>6, <2>7
<1>8. QED BY <1>1, <1>3, <1>6, <1>7 DEF n

(* The drawn sheet that the idle picture of a body is cut from.            *)
IdleSheet(b) == CHOOSE i \in DOMAIN Sheets : Idle(b) \in ToSet(Sheets[i].ids) /\ Sheets[i].file \notin Built
IdleFile(b) == Sheets[IdleSheet(b)].file

(* The log l ends with a slice, or with a slice and the heroes.            *)
Fresh(l) == Len(l) >= 1 /\ l[Len(l)] = "slice"
Rebuilt(l) == Len(l) >= 2 /\ l[Len(l)] = "hero" /\ l[Len(l) - 1] = "slice"

(* The rows rs have the pictures of the first n sheets, as high as they    *)
(* are drawn on the sheets sh; the idle pictures of c are cut from sh; and *)
(* the first n jobs of the heroes have laid out sheets of that height.     *)
CutFrom(rs, n, sh) ==
    \A k \in 1 .. n : \A l \in 1 .. Len(Sheets[k].ids) :
        \E i \in 1 .. Len(rs) : rs[i].id = Sheets[k].ids[l] /\ rs[i].fig = sh[Sheets[k].file]
IdleFits(c, sh) == \A b \in ToSet(Bodies) : c[Idle(b)].fig = sh[IdleFile(b)]
JobsFit(sh, n) ==
    \A k \in 0 .. n - 1 : sh[HeroFile(HeroJob(k)[1], HeroJob(k)[2])] = sh[IdleFile(HeroJob(k)[1])]
StripsFit(mf) ==
    \A b \in ToSet(Bodies), a \in ToSet(Actions) :
        \E idle, strip \in mf :
            /\ idle.id = Idle(b) /\ strip.fig = idle.fig
            /\ \E i \in DOMAIN Sheets : /\ Sheets[i].file = HeroFile(b, a)
                                        /\ Sheets[i].ids = <<strip.id>>

OnFiles(sh) == sh = [f \in Files |-> sh[f]]

FitInv ==
    /\ OnFiles(sheets)
    /\ script = "hero" => at \in 0 .. Jobs /\ (height # 0 => at < Jobs)
    /\ script = "cycles" => at \in Nat
    /\ script = "slice" /\ missing = {} => CutFrom(batch, at, sheets)
    /\ script = "slice: emit" => CutFrom(batch, Len(Sheets), sheets)
    /\ Fresh(log) \/ Rebuilt(log) =>
          /\ ~Emitting => IdleFits(cast, sheets)
          /\ script = "hero" /\ height # 0 => height = sheets[IdleFile(HeroJob(at)[1])]
    /\ Fresh(log) /\ script = "hero" => JobsFit(sheets, at)
    /\ Rebuilt(log) /\ script # "cycles" => JobsFit(sheets, Jobs)
    /\ log = <<"slice", "hero", "slice">> => StripsFit(manifest)

LEMMA IdleIsDrawn ==
    ASSUME NEW b \in ToSet(Bodies)
    PROVE  /\ IdleSheet(b) \in 1 .. Len(Sheets) /\ IdleFile(b) \notin Built
           /\ \E l \in 1 .. Len(Sheets[IdleSheet(b)].ids) : Sheets[IdleSheet(b)].ids[l] = Idle(b)
<1>1. \E i \in DOMAIN Sheets : Idle(b) \in ToSet(Sheets[i].ids) /\ Sheets[i].file \notin Built
  BY HeroAssumption
<1>2. /\ IdleSheet(b) \in DOMAIN Sheets /\ Idle(b) \in ToSet(Sheets[IdleSheet(b)].ids)
      /\ IdleFile(b) \notin Built
  BY <1>1 DEF IdleSheet, IdleFile
<1>3. IdleSheet(b) \in 1 .. Len(Sheets) /\ DOMAIN Sheets[IdleSheet(b)].ids = 1 .. Len(Sheets[IdleSheet(b)].ids)
  BY <1>2, SheetsAre
<1>4. QED BY <1>2, <1>3 DEF ToSet

LEMMA HeroIsBuilt ==
    ASSUME NEW b \in ToSet(Bodies), NEW a \in ToSet(Actions)
    PROVE  HeroFile(b, a) \in Built /\ HeroFile(b, a) \in Files
  BY CastAssumption DEF Built

LEMMA NothingLogged == ~Fresh(<<>>) /\ ~Rebuilt(<<>>) /\ <<>> # <<"slice", "hero", "slice">>
  BY DEF Fresh, Rebuilt

LEMMA LongerThanTwo ==
    \A n \in Nat : \A k, l : k = (IF n <= 2 THEN n ELSE 2) /\ l = k + 1 /\ l = 3 => n >= 2
  OBVIOUS

(* What the log says after a script s has come to its end.                 *)
LEMMA Logged ==
    ASSUME log \in Seq(Scripts), NEW s \in Scripts,
           log' = SubSeq(log, Max({1, Len(log) - 1}), Len(log)) \o <<s>>
    PROVE  /\ Fresh(log') <=> s = "slice"
           /\ Rebuilt(log') <=> s = "hero" /\ Fresh(log)
           /\ log' = <<"slice", "hero", "slice">> => s = "slice" /\ Rebuilt(log)
<1> DEFINE n == Len(log)
           m == Max({1, n - 1})
           last == SubSeq(log, m, n)
<1>1. n \in Nat
  OBVIOUS
<1>2. m = IF n <= 2 THEN 1 ELSE n - 1
  <2>1. CASE n <= 2
    <3>1. n - 1 <= 1
      BY <1>1, <2>1
    <3>2. QED BY <1>1, <2>1, <3>1 DEF Max
  <2>2. CASE n > 2
    BY <1>1, <2>2 DEF Max
  <2>3. QED BY <1>1, <2>1, <2>2
<1> HIDE DEF m
<1>3. m \in Int /\ m >= 1 /\ last = [i \in 1 .. 1 + n - m |-> log[i + m - 1]]
  <2>1. m \in Int /\ m >= 1
    BY <1>1, <1>2
  <2>2. QED BY <1>1, <2>1
<1>4. log' = last \o <<s>>
  BY DEF last, m
<1>5. \A i \in 1 .. 1 + n - m : log[i + m - 1] \in Scripts
  <2>1. TAKE i \in 1 .. 1 + n - m
  <2>2. i + m - 1 \in 1 .. Len(log)
    BY <1>1, <1>3
  <2>3. QED BY <2>2
<1> HIDE DEF last, n
<1>6. 1 + n - m \in Nat /\ 1 + n - m = IF n <= 2 THEN n ELSE 2
  BY <1>1, <1>2
<1>7. last \in Seq(Scripts) /\ Len(last) = 1 + n - m
  <2> DEFINE d == 1 + n - m
             e(i) == log[i + m - 1]
  <2>1. d \in Nat /\ last = [i \in 1 .. d |-> e(i)] /\ \A i \in 1 .. d : e(i) \in Scripts
    BY <1>3, <1>5, <1>6
  <2> HIDE DEF d, e
  <2>2. last \in Seq(Scripts) /\ Len(last) = d
    BY <2>1
  <2>3. QED BY <2>2 DEF d
<1>8. \A i \in 1 .. Len(last) : last[i] = log[i + m - 1]
  BY <1>3, <1>7
<1> DEFINE new == last \o <<s>>
<1>9. /\ new \in Seq(Scripts) /\ Len(new) = Len(last) + 1
      /\ \A i \in 1 .. Len(last) : new[i] = last[i]
      /\ new[Len(last) + 1] = s
  <2>1. <<s>> \in Seq(Scripts) /\ Len(<<s>>) = 1 /\ <<s>>[1] = s /\ Scripts \cup Scripts = Scripts
    OBVIOUS
  <2>2. 1 \in 1 .. Len(<<s>>)
    BY <2>1
  <2>3. QED BY <1>7, <2>1, <2>2, Joined
<1> HIDE DEF new
<1>10. Len(last) = (IF n <= 2 THEN n ELSE 2) /\ Len(new) = Len(last) + 1
  BY <1>6, <1>7, <1>9
<1>11. new[Len(new)] = s /\ Len(new) >= 1
  BY <1>1, <1>9, <1>10
<1>12. ASSUME n >= 1 PROVE Len(new) >= 2 /\ new[Len(new) - 1] = log[n]
  <2>1. Len(last) \in 1 .. Len(last) /\ Len(last) + m - 1 = n
    BY <1>1, <1>2, <1>10, <1>12
  <2>2. last[Len(last)] = log[n]
    BY <1>8, <2>1
  <2>3. Len(new) - 1 = Len(last) /\ Len(new) >= 2
    BY <1>1, <1>10, <1>12
  <2>4. QED BY <1>9, <2>1, <2>2, <2>3
<1>13. ASSUME n >= 2 PROVE new[1] = log[n - 1] /\ new[2] = log[n]
  <2>1. Len(last) = 2 /\ 1 + m - 1 = n - 1 /\ 2 + m - 1 = n
    BY <1>1, <1>2, <1>10, <1>13
  <2>2. 1 \in 1 .. Len(last) /\ 2 \in 1 .. Len(last)
    BY <2>1
  <2>3. last[1] = log[n - 1] /\ last[2] = log[n]
    BY <1>8, <2>1, <2>2
  <2>4. QED BY <1>9, <2>2, <2>3
<1>14. Fresh(new) <=> s = "slice"
  BY <1>11 DEF Fresh
<1>15. Rebuilt(new) <=> s = "hero" /\ Fresh(log)
  <2>1. CASE n >= 1
    <3>1. Fresh(log) <=> log[n] = "slice"
      BY <2>1 DEF Fresh, n
    <3>2. Rebuilt(new) <=> s = "hero" /\ log[n] = "slice"
      BY <1>11, <1>12, <2>1 DEF Rebuilt
    <3>3. QED BY <3>1, <3>2
  <2>2. CASE n = 0
    <3>1. Len(new) = 1
      BY <1>10, <2>2
    <3>2. ~Rebuilt(new) /\ ~Fresh(log)
      BY <2>2, <3>1 DEF Rebuilt, Fresh, n
    <3>3. QED BY <3>2
  <2>3. QED BY <1>1, <2>1, <2>2
<1>16. ASSUME new = <<"slice", "hero", "slice">>
       PROVE  s = "slice" /\ Rebuilt(log)
  <2>1. Len(new) = 3 /\ new[1] = "slice" /\ new[2] = "hero" /\ new[3] = "slice"
    BY <1>16
  <2>2. n >= 2
    BY <2>1, LongerThanTwo, <1>1, <1>10
  <2>3. s = "slice" /\ log[n - 1] = "slice" /\ log[n] = "hero"
    BY <1>11, <1>13, <2>1, <2>2
  <2>4. QED BY <2>2, <2>3 DEF Rebuilt, n
<1>17. log' = new
  BY <1>4 DEF new
<1>18. QED BY <1>14, <1>15, <1>16, <1>17

(* A script begins, or slice_all begins to write.                          *)
LEMMA StartsFit ==
    ASSUME FitInv, StartSlice \/ EndSlices \/ StartPaint \/ StartHero \/ StartCycles
    PROVE  FitInv'
<1>1. UNCHANGED <<sheets, cast, manifest, log>> /\ ~Emitting /\ script \notin {"hero", "cycles"}
  BY DEF StartSlice, EndSlices, StartPaint, StartHero, StartCycles, Emitting
<1>2. script' = "hero" => at' = 0 /\ height' = 0
  BY DEF StartSlice, EndSlices, StartPaint, StartHero, StartCycles, Enter, Exit
<1>3. script' \in {"slice", "cycles"} => at' = 0
  BY DEF StartSlice, EndSlices, StartPaint, StartHero, StartCycles, Enter, Exit
<1>4. script' = "slice: emit" => script = "slice" /\ at = Len(Sheets) /\ missing = {} /\ batch' = batch
  BY DEF StartSlice, EndSlices, StartPaint, StartHero, StartCycles, Enter, Exit
<1>5. Jobs \in Nat
  BY HeroJobs
<1>6. \A rs, sh : CutFrom(rs, 0, sh) /\ JobsFit(sh, 0)
  BY DEF CutFrom, JobsFit
<1>7. script' = "slice: emit" => CutFrom(batch', Len(Sheets), sheets')
  BY <1>1, <1>4 DEF FitInv
<1>8. Fresh(log) \/ Rebuilt(log) => IdleFits(cast, sheets)
  BY <1>1 DEF FitInv
<1>9. Rebuilt(log) => JobsFit(sheets, Jobs)
  BY <1>1 DEF FitInv
<1>10. /\ OnFiles(sheets)
       /\ log = <<"slice", "hero", "slice">> => StripsFit(manifest)
  BY DEF FitInv
<1>11. /\ script' = "hero" => at' \in 0 .. Jobs /\ height' = 0 /\ JobsFit(sheets', at')
       /\ script' = "cycles" => at' \in Nat
       /\ script' = "slice" => CutFrom(batch', at', sheets')
  BY <1>2, <1>3, <1>5, <1>6
<1>12. /\ Fresh(log') \/ Rebuilt(log') => IdleFits(cast', sheets')
       /\ Rebuilt(log') => JobsFit(sheets', Jobs)
       /\ OnFiles(sheets')
       /\ log' = <<"slice", "hero", "slice">> => StripsFit(manifest')
  BY <1>1, <1>8, <1>9, <1>10
<1>13. QED BY <1>7, <1>11, <1>12 DEF FitInv

(* A sheet is cut as it is drawn.                                          *)
LEMMA CutIsFrom ==
    ASSUME NEW n \in Nat, n + 1 \in 1 .. Len(Sheets), NEW rs, rs \in Seq(ToSet(rs)), NEW sh, CutFrom(rs, n, sh),
           NEW fig, fig = sh[Sheets[n + 1].file]
    PROVE  CutFrom(rs \o RowsOf(Sheets[n + 1], fig), n + 1, sh)
<1> DEFINE c == RowsOf(Sheets[n + 1], fig)
           new == rs \o c
<1>1. /\ c \in Seq(ToSet(c)) /\ Len(c) = Len(Sheets[n + 1].ids)
      /\ \A i \in 1 .. Len(c) : c[i].id = Sheets[n + 1].ids[i] /\ c[i].fig = fig
  <2>1. CutAs(c, Sheets[n + 1].ids, fig)
    BY CutIsProper
  <2> HIDE DEF c
  <2>2. QED BY <2>1 DEF CutAs
<1> HIDE DEF c
<1>2. /\ Len(new) = Len(rs) + Len(c) /\ Len(rs) \in Nat /\ Len(c) \in Nat
      /\ \A i \in 1 .. Len(rs) : new[i] = rs[i]
      /\ \A i \in 1 .. Len(c) : new[Len(rs) + i] = c[i]
  <2> DEFINE A == ToSet(rs)
             B == ToSet(c)
  <2>1. rs \in Seq(A) /\ c \in Seq(B)
    BY <1>1
  <2> HIDE DEF A, B
  <2>2. Len(rs) \in Nat /\ Len(c) \in Nat
    BY <2>1
  <2>3. QED BY <2>1, <2>2, Joined
<1> HIDE DEF new
<1>3. ASSUME NEW k \in 1 .. n + 1, NEW l \in 1 .. Len(Sheets[k].ids)
      PROVE  \E i \in 1 .. Len(new) : new[i].id = Sheets[k].ids[l] /\ new[i].fig = sh[Sheets[k].file]
  <2>1. CASE k = n + 1
    <3>1. l \in 1 .. Len(c)
      BY <1>1, <2>1
    <3>2. Len(rs) + l \in 1 .. Len(new)
      BY <1>2, <3>1
    <3>3. new[Len(rs) + l].id = Sheets[k].ids[l] /\ new[Len(rs) + l].fig = sh[Sheets[k].file]
      BY <1>1, <1>2, <2>1, <3>1
    <3>4. QED BY <3>2, <3>3
  <2>2. CASE k \in 1 .. n
    <3>1. PICK i \in 1 .. Len(rs) : rs[i].id = Sheets[k].ids[l] /\ rs[i].fig = sh[Sheets[k].file]
      BY <2>2 DEF CutFrom
    <3>2. i \in 1 .. Len(new)
      BY <1>2
    <3>3. QED BY <1>2, <3>1, <3>2
  <2>3. QED BY <2>1, <2>2
<1>4. CutFrom(new, n + 1, sh)
  BY <1>3 DEF CutFrom
<1>5. QED BY <1>4 DEF new, c

LEMMA ReadSheetFits ==
    ASSUME FilesInv, FitInv, ReadSheet
    PROVE  FitInv'
<1> DEFINE entry == Sheets[at + 1]
           found == sheets[entry.file]
<1>1. script = "slice" /\ at < Len(Sheets) /\ UNCHANGED <<sheets, cast, manifest, log>>
  BY DEF ReadSheet
<1>2. ~Emitting
  BY <1>1 DEF Emitting
<1>3. /\ script' \in {"", "slice"}
      /\ script' = "slice" /\ missing' = {} => CutFrom(batch', at', sheets)
  <2>1. CASE found = Torn
    <3>1. script' = ""
      BY <2>1 DEF ReadSheet, Exit, Enter
    <3>2. QED BY <3>1
  <2>2. CASE found # Torn
    <3>1. /\ at' = at + 1 /\ script' = script
          /\ missing' = IF found = NoFile THEN missing \cup {entry.file} ELSE missing
          /\ batch' = IF found = NoFile THEN batch ELSE batch \o RowsOf(entry, found)
      BY <2>2 DEF ReadSheet
    <3>2. at \in Nat /\ at + 1 \in 1 .. Len(Sheets)
      BY <1>1, SheetsAre DEF FilesInv
    <3>3. ASSUME missing' = {} PROVE CutFrom(batch', at', sheets)
      <4>1. missing = {} /\ batch' = batch \o RowsOf(entry, found)
        BY <3>1, <3>3
      <4>2. CutFrom(batch, at, sheets) /\ batch \in Seq(ToSet(batch))
        BY <1>1, <4>1 DEF FilesInv, FitInv, Complete, Proper
      <4>3. QED BY <3>1, <3>2, <4>1, <4>2, CutIsFrom
    <3>4. QED BY <1>1, <3>1, <3>3
  <2>3. QED BY <2>1, <2>2
<1>4. QED BY <1>1, <1>2, <1>3 DEF FitInv

LEMMA SavePictureFits ==
    ASSUME FitInv, SavePicture
    PROVE  FitInv'
<1>1. Emitting /\ Emitting' /\ UNCHANGED <<sheets, manifest, script, batch, log>>
  BY DEF SavePicture, Emitting
<1>2. script \notin {"hero", "slice", "cycles"}
  BY <1>1 DEF Emitting
<1>3. QED BY <1>1, <1>2 DEF FitInv

(* The idle picture of a body is cut from a drawn sheet.                   *)
LEMMA IdleIsCut ==
    ASSUME NEW rs, NEW sh, CutFrom(rs, Len(Sheets), sh), NEW b \in ToSet(Bodies)
    PROVE  \E x \in 1 .. Len(rs) : rs[x].id = Idle(b) /\ rs[x].fig = sh[IdleFile(b)]
<1>1. PICK l \in 1 .. Len(Sheets[IdleSheet(b)].ids) : Sheets[IdleSheet(b)].ids[l] = Idle(b)
  BY IdleIsDrawn
<1>2. IdleSheet(b) \in 1 .. Len(Sheets) /\ IdleFile(b) = Sheets[IdleSheet(b)].file
  BY IdleIsDrawn DEF IdleFile
<1>3. QED BY <1>1, <1>2 DEF CutFrom

(* What is cut from sheets whose heroes fit goes with the idle pictures.   *)
LEMMA CutStripsFit ==
    ASSUME NEW rs, rs \in Seq(ToSet(rs)), NEW sh, CutFrom(rs, Len(Sheets), sh), JobsFit(sh, Jobs)
    PROVE  StripsFit(ToSet(rs))
<1>1. \A i \in 1 .. Len(rs) : rs[i] \in ToSet(rs)
  BY ItsOwnSet
<1>2. ASSUME NEW b \in ToSet(Bodies), NEW a \in ToSet(Actions)
      PROVE  \E idle, strip \in ToSet(rs) :
                 /\ idle.id = Idle(b) /\ strip.fig = idle.fig
                 /\ \E i \in DOMAIN Sheets : Sheets[i].file = HeroFile(b, a) /\ Sheets[i].ids = <<strip.id>>
  <2>1. PICK x \in 1 .. Len(rs) : rs[x].id = Idle(b) /\ rs[x].fig = sh[IdleFile(b)]
    BY IdleIsCut
  <2>2. PICK i \in DOMAIN Sheets : Sheets[i].file = HeroFile(b, a) /\ Len(Sheets[i].ids) = 1
    BY HeroAssumption
  <2>3. i \in 1 .. Len(Sheets) /\ 1 \in 1 .. Len(Sheets[i].ids) /\ Sheets[i].ids \in Seq(Ids)
    BY <2>2, SheetsAre, IdsAssumption
  <2>4. PICK y \in 1 .. Len(rs) : rs[y].id = Sheets[i].ids[1] /\ rs[y].fig = sh[HeroFile(b, a)]
    BY <2>2, <2>3 DEF CutFrom
  <2>5. Sheets[i].ids = <<rs[y].id>>
    <3> DEFINE ids == Sheets[i].ids
    <3>1. ids \in Seq(Ids) /\ Len(ids) = 1 /\ ids[1] = rs[y].id
      BY <2>2, <2>3, <2>4
    <3> HIDE DEF ids
    <3>2. ids = <<rs[y].id>>
      BY <3>1
    <3>3. QED BY <3>2 DEF ids
  <2>6. PICK k \in 0 .. Jobs - 1 : HeroJob(k) = <<b, a>>
    BY HeroJobs
  <2>7. sh[HeroFile(b, a)] = sh[IdleFile(b)]
    <3>1. HeroJob(k)[1] = b /\ HeroJob(k)[2] = a
      BY <2>6
    <3>2. sh[HeroFile(HeroJob(k)[1], HeroJob(k)[2])] = sh[IdleFile(HeroJob(k)[1])]
      BY DEF JobsFit
    <3>3. QED BY <3>1, <3>2
  <2>8. QED BY <1>1, <2>1, <2>2, <2>4, <2>5, <2>7
<1>3. QED BY <1>2 DEF StripsFit

LEMMA WriteManifestFits ==
    ASSUME FilesInv, FitInv, WriteManifest
    PROVE  FitInv'
<1> DEFINE s == IF script = "slice: emit" THEN "slice" ELSE "paint"
<1>1. /\ Emitting /\ at = Len(batch) /\ manifest' = ToSet(batch)
      /\ UNCHANGED <<sheets, cast>> /\ script' = ""
      /\ log' = SubSeq(log, Max({1, Len(log) - 1}), Len(log)) \o <<s>>
  BY DEF WriteManifest, Leave, Exit, Enter
<1>2. log \in Seq(Scripts) /\ s \in Scripts /\ OnFiles(sheets)
  BY DEF FilesInv, FitInv, Scripts
<1>3. /\ Fresh(log') <=> s = "slice"
      /\ Rebuilt(log') <=> s = "hero" /\ Fresh(log)
      /\ log' = <<"slice", "hero", "slice">> => s = "slice" /\ Rebuilt(log)
  <2> HIDE DEF s
  <2>1. QED BY <1>1, <1>2, Logged
<1>4. CASE script = "paint: emit"
  <2>1. ~Fresh(log') /\ ~Rebuilt(log') /\ log' # <<"slice", "hero", "slice">>
    BY <1>3, <1>4
  <2>2. QED BY <1>1, <1>2, <2>1 DEF FitInv
<1>5. CASE script = "slice: emit"
  <2>1. CutFrom(batch, Len(Sheets), sheets) /\ Complete(batch, Len(Sheets)) /\ Written
    BY <1>1, <1>5 DEF FilesInv, FitInv
  <2>2. \A i \in 1 .. Len(batch) : cast[batch[i].id] = batch[i]
    BY <1>1, <2>1 DEF Written
  <2>3. IdleFits(cast, sheets)
    <3>1. ASSUME NEW b \in ToSet(Bodies) PROVE cast[Idle(b)].fig = sheets[IdleFile(b)]
      <4>1. PICK x \in 1 .. Len(batch) : batch[x].id = Idle(b) /\ batch[x].fig = sheets[IdleFile(b)]
        BY <2>1, IdleIsCut
      <4>2. QED BY <2>2, <4>1
    <3>2. QED BY <3>1 DEF IdleFits
  <2>4. log' = <<"slice", "hero", "slice">> => StripsFit(manifest')
    <3>1. SUFFICES ASSUME Rebuilt(log) PROVE StripsFit(ToSet(batch))
      BY <1>1, <1>3
    <3>2. JobsFit(sheets, Jobs) /\ batch \in Seq(ToSet(batch))
      BY <1>5, <2>1, <3>1 DEF FitInv, Complete, Proper
    <3>3. QED BY <2>1, <3>2, CutStripsFit
  <2>5. ~Rebuilt(log')
    BY <1>3, <1>5
  <2>6. QED BY <1>1, <1>2, <2>3, <2>4, <2>5 DEF FitInv
<1>6. QED BY <1>1, <1>4, <1>5 DEF Emitting

(* The idle picture gives the height of the drawn sheet it is cut from.    *)
LEMMA ReadIdleFits ==
    ASSUME FitInv, ReadIdle
    PROVE  FitInv'
<1> DEFINE b == HeroJob(at)[1]
<1>1. /\ script = "hero" /\ at < Jobs /\ UNCHANGED <<sheets, cast, manifest, log>>
      /\ \/ script' = ""
         \/ script' = script /\ at' = at /\ height' = cast[Idle(b)].fig
  BY DEF ReadIdle, Exit, Enter, Jobs
<1>2. ~Emitting
  BY <1>1 DEF Emitting
<1>3. at \in 0 .. Jobs - 1 /\ Jobs \in Nat
  <2>1. at \in 0 .. Jobs
    BY <1>1 DEF FitInv
  <2>2. Jobs \in Nat /\ at < Jobs
    BY <1>1, HeroJobs
  <2>3. QED BY <2>1, <2>2
<1>4. b \in ToSet(Bodies)
  BY <1>3, HeroJobs
<1>5. Fresh(log) \/ Rebuilt(log) => cast[Idle(b)].fig = sheets[IdleFile(b)]
  BY <1>2, <1>4 DEF FitInv, IdleFits
<1>6. QED BY <1>1, <1>2, <1>3, <1>5 DEF FitInv

(* A script saves a sheet that is built: the drawn ones stay.              *)
LEMMA DrawnStay ==
    ASSUME NEW sh, NEW g \in Built, NEW h, NEW to,
           \A f \in Files : to[f] = IF f = g THEN h ELSE sh[f]
    PROVE  \A b \in ToSet(Bodies) : to[IdleFile(b)] = sh[IdleFile(b)]
<1>1. g \in Files
  BY CastAssumption
<1>2. \A b \in ToSet(Bodies) : IdleFile(b) \in Files /\ IdleFile(b) # g
  <2>1. TAKE b \in ToSet(Bodies)
  <2>2. IdleSheet(b) \in DOMAIN Sheets /\ IdleFile(b) \notin Built
    BY IdleIsDrawn, SheetsAre
  <2>3. QED BY <2>2 DEF IdleFile, Files
<1>3. QED BY <1>1, <1>2

LEMMA SaveHeroFits ==
    ASSUME FilesInv, FitInv, SaveHero
    PROVE  FitInv'
<1> DEFINE b == HeroJob(at)[1]
           g == HeroFile(HeroJob(at)[1], HeroJob(at)[2])
<1>1. /\ script = "hero" /\ script' = "hero" /\ height # 0 /\ at' = at + 1
      /\ sheets' = [sheets EXCEPT ![g] = height]
      /\ height' = IF (at + 1) % Len(Actions) = 0 THEN 0 ELSE height
      /\ UNCHANGED <<cast, manifest, log>>
  BY DEF SaveHero
<1>2. at \in 0 .. Jobs - 1 /\ Jobs \in Nat /\ ~Emitting
  BY <1>1, HeroJobs DEF FitInv, Emitting
<1>3. b \in ToSet(Bodies) /\ g \in Built
  BY <1>2, HeroJobs, HeroIsBuilt
<1>4. /\ OnFiles(sheets') /\ sheets'[g] = height
      /\ \A f \in Files : f # g => sheets'[f] = sheets[f]
      /\ \A c \in ToSet(Bodies) : sheets'[IdleFile(c)] = sheets[IdleFile(c)]
  <2>1. OnFiles(sheets) /\ g \in Built /\ sheets' = [sheets EXCEPT ![g] = height]
    BY <1>1, <1>3 DEF FitInv
  <2> HIDE DEF b, g
  <2>2. OnFiles(sheets') /\ \A f \in Files : sheets'[f] = IF f = g THEN height ELSE sheets[f]
    BY <2>1 DEF OnFiles
  <2>3. g \in Built /\ g \in Files
    BY <2>1, CastAssumption
  <2>4. \A c \in ToSet(Bodies) : sheets'[IdleFile(c)] = sheets[IdleFile(c)]
    BY <2>2, <2>3, DrawnStay
  <2>5. QED BY <2>2, <2>3, <2>4
<1>5. height' # 0 => height' = height /\ at + 1 < Jobs /\ HeroJob(at + 1)[1] = b
  BY <1>1, <1>2, HeroJobs
<1>6. Fresh(log) \/ Rebuilt(log) => height = sheets[IdleFile(b)] /\ IdleFits(cast, sheets)
  BY <1>1, <1>2 DEF FitInv
<1>7. IdleFits(cast, sheets) => IdleFits(cast', sheets')
  BY <1>1, <1>4 DEF IdleFits
<1>8. ASSUME Fresh(log) \/ Rebuilt(log), NEW k \in 0 .. Jobs - 1,
             \/ k = at
             \/ sheets[HeroFile(HeroJob(k)[1], HeroJob(k)[2])] = sheets[IdleFile(HeroJob(k)[1])]
      PROVE  sheets'[HeroFile(HeroJob(k)[1], HeroJob(k)[2])] = sheets'[IdleFile(HeroJob(k)[1])]
  <2>1. /\ HeroJob(k)[1] \in ToSet(Bodies) /\ HeroJob(k)[2] \in ToSet(Actions)
        /\ HeroJob(at)[2] \in ToSet(Actions)
        /\ HeroFile(HeroJob(k)[1], HeroJob(k)[2]) \in Files
    BY <1>2, HeroJobs, HeroIsBuilt
  <2>2. CASE HeroFile(HeroJob(k)[1], HeroJob(k)[2]) = g
    <3>1. HeroJob(k)[1] = b
      BY <1>3, <2>1, <2>2, HeroAssumption
    <3>2. QED BY <1>3, <1>4, <1>6, <1>8, <2>2, <3>1
  <2>3. CASE HeroFile(HeroJob(k)[1], HeroJob(k)[2]) # g
    BY <1>4, <1>8, <2>1, <2>3
  <2>4. QED BY <2>2, <2>3
<1>9. Fresh(log) => JobsFit(sheets', at + 1)
  <2>1. SUFFICES ASSUME Fresh(log) PROVE JobsFit(sheets', at + 1)
    OBVIOUS
  <2>2. JobsFit(sheets, at)
    BY <1>1, <2>1 DEF FitInv
  <2>3. \A k \in 0 .. at : k \in 0 .. Jobs - 1 /\ (k = at \/ k \in 0 .. at - 1)
    BY <1>2
  <2>4. (at + 1) - 1 = at
    BY <1>2
  <2>5. QED BY <1>8, <2>1, <2>2, <2>3, <2>4 DEF JobsFit
<1>10. Rebuilt(log) => JobsFit(sheets', Jobs)
  <2>1. SUFFICES ASSUME Rebuilt(log) PROVE JobsFit(sheets', Jobs)
    OBVIOUS
  <2>2. JobsFit(sheets, Jobs)
    BY <1>1, <2>1 DEF FitInv
  <2>3. QED BY <1>8, <2>1, <2>2 DEF JobsFit
<1>11. at + 1 \in 0 .. Jobs
  BY <1>2
<1>12. height' # 0 /\ (Fresh(log) \/ Rebuilt(log)) => height' = sheets'[IdleFile(HeroJob(at + 1)[1])]
  BY <1>3, <1>4, <1>5, <1>6
<1>13. log = <<"slice", "hero", "slice">> => StripsFit(manifest)
  BY DEF FitInv
<1> HIDE DEF b, g
<1>14. QED BY <1>1, <1>4, <1>5, <1>6, <1>7, <1>9, <1>10, <1>11, <1>12, <1>13 DEF FitInv

LEMMA EndHeroFits ==
    ASSUME FilesInv, FitInv, EndHero
    PROVE  FitInv'
<1>1. /\ script = "hero" /\ script' = "" /\ at = Jobs /\ UNCHANGED <<sheets, cast, manifest>>
      /\ log' = SubSeq(log, Max({1, Len(log) - 1}), Len(log)) \o <<"hero">>
  BY DEF EndHero, Leave, Exit, Enter, Jobs
<1>2. log \in Seq(Scripts) /\ "hero" \in Scripts /\ ~Emitting
  BY <1>1 DEF FilesInv, Scripts, Emitting
<1>3. ~Fresh(log') /\ (Rebuilt(log') <=> Fresh(log)) /\ log' # <<"slice", "hero", "slice">>
  BY <1>1, <1>2, Logged
<1>4. Fresh(log) => IdleFits(cast, sheets) /\ JobsFit(sheets, Jobs)
  BY <1>1, <1>2 DEF FitInv
<1>5. QED BY <1>1, <1>3, <1>4 DEF FitInv

LEMMA CyclesFit ==
    ASSUME FilesInv, FitInv, SaveCycle \/ EndCycles
    PROVE  FitInv'
<1>1. CASE SaveCycle
  <2> DEFINE g == Cycles[at + 1].file
             h == Cycles[at + 1].fig
  <2>1. /\ script = "cycles" /\ script' = "cycles" /\ sheets' = [sheets EXCEPT ![g] = h]
        /\ UNCHANGED <<cast, manifest, log>> /\ ~Emitting
    BY <1>1 DEF SaveCycle, Emitting
  <2>2. at \in Nat /\ at' = at + 1 /\ at + 1 \in DOMAIN Cycles
    BY <1>1, HeroAssumption DEF SaveCycle, FitInv
  <2>3. g \in Built
    BY <2>2 DEF Built
  <2> HIDE DEF g, h
  <2>4. OnFiles(sheets)
    BY DEF FitInv
  <2>5. OnFiles(sheets') /\ \A f \in Files : sheets'[f] = IF f = g THEN h ELSE sheets[f]
    BY <2>1, <2>4 DEF OnFiles
  <2>6. \A c \in ToSet(Bodies) : sheets'[IdleFile(c)] = sheets[IdleFile(c)]
    BY <2>3, <2>5, DrawnStay
  <2>7. Fresh(log) \/ Rebuilt(log) => IdleFits(cast, sheets)
    BY <2>1 DEF FitInv
  <2>8. IdleFits(cast, sheets) => IdleFits(cast', sheets')
    BY <2>1, <2>6 DEF IdleFits
  <2>9. QED BY <2>1, <2>5, <2>7, <2>8, <2>2 DEF FitInv
<1>2. CASE EndCycles
  <2>1. /\ script' = "" /\ UNCHANGED <<sheets, cast, manifest>>
        /\ log' = SubSeq(log, Max({1, Len(log) - 1}), Len(log)) \o <<"cycles">>
    BY <1>2 DEF EndCycles, Leave, Exit, Enter
  <2>2. log \in Seq(Scripts) /\ "cycles" \in Scripts
    BY DEF FilesInv, Scripts
  <2>3. ~Fresh(log') /\ ~Rebuilt(log') /\ log' # <<"slice", "hero", "slice">>
    BY <2>1, <2>2, Logged
  <2>4. QED BY <2>1, <2>3 DEF FitInv
<1>3. QED BY <1>1, <1>2

(* Whatever befalls the files, the log forgets what ran before.            *)
LEMMA MishapsFit ==
    ASSUME FitInv, Stop \/ Change
    PROVE  FitInv'
<1>1. script' = "" /\ log' = <<>>
  BY DEF Stop, Change, Exit, Enter
<1>2. \/ sheets' = sheets
      \/ \E f, h : sheets' = [sheets EXCEPT ![f] = h]
  BY DEF Stop, Change
<1>3. OnFiles(sheets')
  BY <1>2 DEF FitInv, OnFiles
<1>4. QED BY <1>1, <1>3, NothingLogged DEF FitInv

LEMMA FitInit == FilesInit => FitInv
<1>1. SUFFICES ASSUME FilesInit PROVE FitInv
  OBVIOUS
<1>2. script = "" /\ log = <<>> /\ OnFiles(sheets)
  BY <1>1 DEF FilesInit, OnFiles
<1>3. QED BY <1>2, NothingLogged DEF FitInv

LEMMA FitNext ==
    ASSUME FilesInv, FitInv, [FilesNext]_fileVars
    PROVE  FitInv'
<1>1. CASE UNCHANGED fileVars
  BY <1>1 DEF fileVars, FitInv, Emitting
<1>2. QED
  BY <1>1, StartsFit, ReadSheetFits, SavePictureFits, WriteManifestFits, ReadIdleFits, SaveHeroFits,
     EndHeroFits, CyclesFit, MishapsFit DEF FilesNext

LEMMA AlwaysFits == FilesSpec => []FitInv
  BY FilesAlways, FitInit, FitNext, PTL DEF FilesSpec

(* After slice, hero, slice every strip of a body is as high as its idle   *)
(* picture, whatever ran before: the first slice cuts the idle pictures    *)
(* from sheets that no script builds, the heroes are laid out in their     *)
(* height, and the second slice cuts both as they then are.                *)
THEOREM StripsFitTheIdle == FilesSpec => []StripsFitIdle
<1>1. FitInv => StripsFitIdle
  BY DEF FitInv, StripsFit, StripsFitIdle
<1>2. QED BY <1>1, AlwaysFits, PTL
=============================================================================
