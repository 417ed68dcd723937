---------------------------- MODULE MCTaskQueue ----------------------------
(* Small instances of TaskQueue.                                           *)
EXTENDS TaskQueue, TLC

CONSTANTS g1, g2, g3, o1, m1

\* Every completion takes any slot; the slot operation asks for slot 0.
PinNone == [c \in Gens \cup SlotOps |-> IF c \in SlotOps THEN 0 ELSE AnySlot]

\* Completions that take any slot are interchangeable.
Symmetry == Permutations(Gens \ Realtime)
=============================================================================
