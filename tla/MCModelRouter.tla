---------------------------- MODULE MCModelRouter ----------------------------
(* Small instances of ModelRouter.                                         *)
EXTENDS ModelRouter

CONSTANTS A, B, r1, r2, r3, l1

\* Two requests for A and one for B; the load call is for B.
TargetAAB == [t \in Threads |-> IF t \in {r1, r3} THEN A ELSE B]
=============================================================================
