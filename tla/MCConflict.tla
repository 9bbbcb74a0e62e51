------------------------------ MODULE MCConflict ------------------------------
(* Two losers' worth of history: Parent has two outputs; Loser spends both,   *)
(* Child spends the two of Loser; Winner, in the block, spends the first of   *)
(* Parent's outputs and Heir spends Winner.                                   *)
EXTENDS ConflictProcessing

CONSTANTS Parent, Loser, Child, Winner, Heir, Rival, Thief, p1, p2, l1, l2, w1

MCTxs == {Parent, Loser, Child, Winner, Heir, Rival, Thief}
MCOutpoints == {p1, p2, l1, l2, w1}
MCCreator == [o \in MCOutpoints |->
                CASE o \in {p1, p2} -> Parent [] o \in {l1, l2} -> Loser [] OTHER -> Winner]
MCInputs == [t \in MCTxs |-> CASE t = Parent -> << >>
                               [] t = Loser -> <<p1, p2>>
                               [] t = Child -> <<l1, l2>>
                               [] t = Winner -> <<p1>>
                               [] t = Heir -> <<w1>>
                               [] t = Rival -> <<p2>>
                               [] t = Thief -> <<p1>>]
MCCreatedAt == [t \in MCTxs |-> CASE t = Parent -> 0 [] t = Loser -> 1 [] t = Winner -> 2
                                  [] t = Child -> 3 [] t = Heir -> 4 [] t = Rival -> 5 [] OTHER -> 6]
MCConfirmed == {{}, {Parent, Loser}}
=============================================================================
