------------------------------ MODULE MCAvatar ------------------------------
(* Two parts.  The hair has a style for both bodies, a style and a priced     *)
(* style of one body, and a priced style for both; the top has two free       *)
(* options and one that only gear shows.  The bodies differ in their default  *)
(* hair.                                                                      *)
EXTENDS Avatar

CONSTANTS hair, top, masculino, feminino,
          curto, rabo, trancas, moicano, camiseta, regata, moletom

MCPartOf(o) == IF o \in {camiseta, regata, moletom} THEN top ELSE hair
MCBodies(o) == IF o \in {rabo, trancas} THEN {feminino} ELSE {masculino, feminino}
MCPrice(o) == CASE o = trancas -> 2 [] o = moicano -> 1 [] OTHER -> 0
MCDefault(b, p) == CASE p = top -> camiseta
                     [] p = hair /\ b = feminino -> rabo
                     [] OTHER -> curto
=============================================================================
