---------------------------- MODULE MCOnboarding ----------------------------
(* Two tabs of Ana that ask for different names, two of Bia that cross them, *)
(* and a name that fails the form.                                           *)
EXTENDS Onboarding

CONSTANTS ana, bia, DEV, OPS, ana1, ana2, bia1, bia2, bad

MCUser == {ana, bia}
MCName == {DEV, OPS}
MCRequest == {ana1, ana2, bia1, bia2, bad}
MCUserOf(r) == IF r \in {ana1, ana2} THEN ana ELSE bia
MCNameOf(r) == CASE r \in {ana1, bia1} -> DEV
                 [] r \in {ana2, bia2} -> OPS
                 [] r = bad -> "x!"
MCValid(r) == r # bad
=============================================================================
