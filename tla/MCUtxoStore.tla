---------------------------- MODULE MCUtxoStore ----------------------------
(***************************************************************************)
(* Small instances of UtxoStore.                                           *)
(***************************************************************************)
EXTENDS UtxoStore, TLC

\* Every position of every record is a spendable output.
AllSpendable == [r \in Recs |-> Offsets]

\* The last page holds only outputs that can never be spent.
DataPage == [r \in Recs |-> IF r = NPages THEN {} ELSE Offsets]

Height1 == [b \in Blocks |-> 1]

\* Spenders and callers are interchangeable; not used with liveness.
Symmetry == Permutations(Spenders) \cup Permutations(Callers)

=============================================================================
