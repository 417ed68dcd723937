----------------------------- MODULE MCScheduler -----------------------------
(* Small instances of Scheduler for TLC. *)
EXTENDS Scheduler, TLC

CONSTANTS r1, r2, r3, m1, m2, m3, x1, x2, x3

OneRequest == {r1}
TwoRequests == {r1, r2}
ThreeRequests == {r1, r2, r3}
OneModel == {m1}
TwoModels == {m1, m2}
ThreeModels == {m1, m2, m3}
LastTwo == {m2, m3}
LastOne == {m3}
TwoRunners == {x1, x2}
ThreeRunners == {x1, x2, x3}
BothExclusive == {{m1, m2}}
KeepAny == {None, m1}

\* Requests and runners are interchangeable; models are not, where a constant
\* names one of them.
Symmetry == Permutations(Requests) \cup Permutations(Runners)
=============================================================================
