---------------------------- MODULE MCWorkStore ----------------------------
(* Instances of WorkStore for TLC.                                         *)
EXTENDS WorkStore, TLC

(* Two items that share a one-unit resource "r", a third unconstrained.    *)
Limited == <<[key |-> "r", units |-> 1, op |-> "<=", target |-> 1]>>
NoConstraints == [i \in Items |-> <<>>]
SharedResource == [i \in Items |-> IF i <= 2 THEN Limited ELSE <<>>]

(* One item on its own; or item 2 held back until item 1 completes.        *)
SingleItem == {[items |-> {1}, ready |-> {1}]}
HeldItem == {[items |-> {1, 2}, ready |-> {1}], [items |-> {3}, ready |-> {3}]}

IdSymmetry == Permutations(Sessions) \cup Permutations(Attempts)
============================================================================
