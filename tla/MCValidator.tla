----------------------------- MODULE MCValidator -----------------------------
(* Root is mined and has two outputs.  Tx spends both, Child spends Tx, Rival  *)
(* competes with Tx for the second of Root's outputs.                          *)
EXTENDS ValidatorCommit

CONSTANTS Root, Tx, Child, Rival, r1, r2, t1, a1, a2, a3, a4

MCTxs == {Root, Tx, Child, Rival}
MCOutpoints == {r1, r2, t1}
MCCreator == [o \in MCOutpoints |-> IF o = t1 THEN Tx ELSE Root]
MCIns == [t \in MCTxs |-> CASE t = Root -> {} [] t = Tx -> {r1, r2}
                            [] t = Child -> {t1} [] t = Rival -> {r2}]
\* a1 and a2 submit Tx, a3 Child, a4 Rival.
MCTxOf == [a \in Attempts |-> CASE a \in {a1, a2} -> Tx [] a = a3 -> Child [] OTHER -> Rival]
=============================================================================
