---------------------------- MODULE MCDeferQueue ----------------------------
(* Model checking of DeferQueue: the job ids are interchangeable. *)
EXTENDS DeferQueue

Symmetry == Permutations(Jobs)
=============================================================================
