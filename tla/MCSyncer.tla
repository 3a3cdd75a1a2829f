------------------------------ MODULE MCSyncer ------------------------------
(* Instances of Syncer for TLC. *)
EXTENDS Syncer

CONSTANTS r1, r2, a, b, c

Repos     == {r1, r2}
TwoNames  == {a, b}
Three     == {a, b, c}

(* Both repositories are there, or one of them; which name is whose does not   *)
(* matter.                                                                     *)
Both == {[i \in Repos |-> IF i = r1 THEN a ELSE b],
         [i \in Repos |-> IF i = r1 THEN a ELSE Nothing]}

=============================================================================
