---------------------- MODULE ConflictProcessing_proofs ----------------------
(***************************************************************************)
(* Proofs about ConflictProcessing, for any transactions, any block and    *)
(* any number of faults and chain moves.                                   *)
(*                                                                         *)
(* ConfirmedSpendStands: no operation ever reaches a confirmed             *)
(* transaction.  The roots are checked (Refused); below them, whoever      *)
(* spends an output of an unconfirmed transaction is unconfirmed, because  *)
(* a chain has the parents of what it has.                                 *)
(*                                                                         *)
(* BelievedOwns: a spend is reverted only for a transaction whose flag was *)
(* written, or lost on the way, and a flag is cleared only for one that    *)
(* has just been given its inputs.                                         *)
(*                                                                         *)
(* LastOperationStands: an intent is in the log as long as the winners are *)
(* between two states; while the reverse goes over the winners, those      *)
(* it has done are flagged and spend nothing, so no cascade of a later one *)
(* reaches them.                                                           *)
(***************************************************************************)
EXTENDS ConflictProcessing, TLAPS

\* Whoever spends an output has it as an input.
SpendsTheirs == \A o \in Outpoints : spender[o] # NoTx => o \in Ins(spender[o])

\* No operation has a confirmed transaction in hand.
Spared ==
  /\ confirmed \subseteq stored
  /\ (level \cup fresh \cup seen \cup promote) \cap confirmed = {}
  /\ \A s \in owed \cup spent : s[2] \notin confirmed

\* What the steps have to do with the kind of operation.
Course ==
  /\ pc \in {"clear", "unlock"} => kind = "forward"
  /\ pc \in {"unmark", "unmarkWrite"} => kind = "reverse"
  /\ pc \in {"read", "spend", "unmark", "unmarkWrite", "clear", "unlock"} => owed = {}
  /\ pc \in {"read", "mark", "markWrite", "spend", "unmark", "unmarkWrite"} => ~err
  /\ pc = "unspend" => level = {}
  /\ pc = "clear" => promote = {}
  /\ pc = "respend" => undone

\* A spend is owed by a flagged transaction, or by one that is being flagged, or
\* whose flag was lost.
OwedFlagged ==
  pc \in {"mark", "markWrite", "unspend"} =>
    \A s \in owed : s[2] \in conflicting \cup missed \/ (pc # "unspend" /\ s[2] \in level)

\* A winner that step 3 has done has its inputs.
WinnersOwn == kind = "forward" /\ pc \in {"spend", "clear"} => \A w \in Winners \ promote : Owns(w)

\* Whoever is being unflagged has its inputs, or is below one that has.
UnmarkedOwn == pc \in {"unmark", "unmarkWrite"} => \A t \in level : Owns(t) \/ t \in revived

Resting == {"idle", "moved", "down", "replay"}
Working == pc \notin Resting

\* The intent of an operation is in the log until it has succeeded.
Logged == Working => kind \in wal

\* While the reverse goes on, the winners it has done are flagged, if their flags
\* were not lost, and spend nothing, or are about to.
Reversing == kind = "reverse" /\ Working
ReverseDone ==
  Reversing =>
    /\ promote \cap Winners = {}
    /\ \A w \in Winners \ todo :
         /\ w \in conflicting \cup missed \/ (pc \in {"mark", "markWrite"} /\ w \in level)
         /\ \A o \in Outpoints : spender[o] = w => <<o, w>> \in owed \/ err
         /\ pc \in {"unmark", "unmarkWrite"} => w \notin level
         /\ pc = "unmarkWrite" => w \notin fresh

\* Without a pending intent the winners are where the last operation put them.
Settled ==
  /\ wal = {} /\ side = "forward" => Winners \cap conflicting \subseteq missed
  /\ wal = {} /\ side = "reverse" => Winners \subseteq conflicting \cup missed
  /\ pc = "unlock" => Winners \cap conflicting \subseteq missed

Believed == OwedFlagged /\ WinnersOwn /\ UnmarkedOwn /\ BelievedOwns
Decided == ReverseDone /\ Settled

IInv ==
  /\ TypeOK /\ Winners \subseteq stored
  /\ SpendsTheirs /\ Spared /\ ConfirmedSpendStands /\ Course /\ Logged
  /\ ~undone => Believed
  /\ ~undone /\ confirmed = {} => Decided

-----------------------------------------------------------------------------
(***************************************************************************)
(* Types.                                                                  *)
(***************************************************************************)

\* Inputs are outputs of some transaction.
LEMMA InsType == \A t \in Txs : Ins(t) \subseteq Outpoints
<1> SUFFICES ASSUME NEW t \in Txs PROVE Ins(t) \subseteq Outpoints
  OBVIOUS
<1>1. Inputs[t] \in Seq(Outpoints)
  BY ConflictConstants
<1>2. \A i \in DOMAIN Inputs[t] : Inputs[t][i] \in Outpoints
  BY <1>1
<1> QED BY <1>2 DEF Ins, Range

\* What the readings of the store return.
LEMMA ReadTypes ==
  ASSUME TypeOK
  PROVE  /\ Losers \subseteq Txs /\ Winners \subseteq Txs
         /\ \A O \in SUBSET Outpoints : SpendersOf(O) \subseteq Txs
         /\ \A T \in SUBSET Txs : SpendsOf(T) \subseteq Outpoints \X Txs
         /\ \A T, lossy : Link(T, lossy) => children' \in [Txs -> SUBSET Txs]
         /\ \A d : Counters(d) \subseteq conflicting \ Winners
         /\ \A t \in Txs : Outs(t) \subseteq Outpoints
<1>1. Winners \subseteq Txs
  BY ConflictConstants
<1>2. Losers \subseteq Txs
  BY <1>1 DEF Losers, CounterConflicting, Cone
<1>3. \A O \in SUBSET Outpoints : SpendersOf(O) \subseteq Txs
  BY DEF SpendersOf, TypeOK
<1>4. \A T \in SUBSET Txs : SpendsOf(T) \subseteq Outpoints \X Txs
  BY DEF SpendsOf
<1>5. \A T, lossy : Link(T, lossy) => children' \in [Txs -> SUBSET Txs]
  BY DEF Link, Linked, TypeOK
<1>6. \A d : Counters(d) \subseteq conflicting \ Winners
  BY DEF Counters
<1>7. \A t \in Txs : Outs(t) \subseteq Outpoints
  BY DEF Outs
<1> QED BY <1>1, <1>2, <1>3, <1>4, <1>5, <1>6, <1>7

\* A transaction that takes outputs leaves the shape of the store.
LEMMA SpendType ==
  ASSUME TypeOK, NEW t \in Txs, NEW O \in SUBSET Outpoints, SpendBy(t, O)
  PROVE  spender' \in [Outpoints -> Txs \cup {NoTx}]
BY DEF SpendBy, TypeOK

\* Every step keeps the types.
LEMMA TypeStep == TypeOK /\ [Next]_vars => TypeOK'
<1> SUFFICES ASSUME TypeOK, [Next]_vars PROVE TypeOK'
  OBVIOUS
<1>a. Kinds = {"forward", "reverse"} /\ MaxFaults \in Nat /\ MaxMoves \in Nat /\ Winners \subseteq Txs
  BY ConflictConstants DEF Kinds
<1>f. ASSUME Fault PROVE faults' \in 0..MaxFaults
  BY <1>a, <1>f DEF Fault, TypeOK
<1>h. Home \in Steps
  BY DEF Home, Steps
<1>1. CASE ChainMoves
  BY <1>1, <1>a DEF ChainMoves, store, oper, work, history, TypeOK
<1>2. ASSUME NEW t \in Txs, Arrive(t) PROVE TypeOK'
  BY <1>2 DEF Arrive, chain, oper, work, history, TypeOK
<1>3. ASSUME NEW k \in Kinds, NEW known \in BOOLEAN, NEW intent \in Kinds \cup {NoIntent},
             Begin(k, known, intent), pending' \subseteq Kinds
      PROVE  TypeOK'
  BY <1>3 DEF Begin, Quiet, store, chain, history, Steps, TypeOK
<1>4. CASE MoveForward \/ MoveBack
  BY <1>3, <1>4 DEF MoveForward, MoveBack, Kinds, TypeOK
<1>5. ASSUME NEW k \in Kinds, Replay(k) PROVE TypeOK'
  BY <1>3, <1>5 DEF Replay, Kinds, TypeOK
<1>6. ASSUME Succeed PROVE TypeOK'
  <2>1. wal' \subseteq Kinds /\ faults' \in 0..MaxFaults /\ side' \in Kinds /\ pc' \in Steps
    BY <1>6, <1>f DEF Succeed, Steps, TypeOK
  <2> QED BY <1>6, <2>1 DEF Succeed, store, chain, oper, work, TypeOK
<1>7. CASE Refuse \/ ReverseEnds \/ Unlock
  BY <1>6, <1>7 DEF Refuse, ReverseEnds, Unlock
<1>8. CASE ReadForward
  BY <1>8, ReadTypes DEF ReadForward, Quiet, store, chain, oper, history, Steps, TypeOK
<1>9. CASE ReadFails \/ UnlockFails
  <2>1. faults' \in 0..MaxFaults
    BY <1>9, <1>f DEF ReadFails, UnlockFails, TypeOK
  <2> QED BY <1>9, <1>h, <2>1 DEF ReadFails, UnlockFails, GiveUp, store, chain, oper, work, history, TypeOK
<1>10. ASSUME NEW d \in Winners, ReadReverse(d) PROVE TypeOK'
  <2>1. SpendsOf({d}) \subseteq Outpoints \X Txs /\ Counters(d) \subseteq Txs /\ d \in Txs
    BY <1>a, ReadTypes DEF TypeOK
  <2>2. /\ pc' \in Steps /\ level' \subseteq Txs /\ seen' \subseteq Txs
        /\ owed' \subseteq Outpoints \X Txs /\ promote' \subseteq Txs /\ todo' \subseteq Winners
    BY <1>10, <2>1 DEF ReadReverse, TypeOK, Steps
  <2> QED BY <1>10, <2>2 DEF ReadReverse, Quiet, store, chain, oper, history, TypeOK
<1>11. CASE ReadLevel
  <2>1. children' \in [Txs -> SUBSET Txs] /\ faults' \in 0..MaxFaults
    BY <1>11, <1>f, ReadTypes DEF ReadLevel, TypeOK
  <2>2. fresh' \subseteq Txs /\ pc' \in Steps
    <3>1. UNION {Outs(t) : t \in level} \subseteq Outpoints
      BY DEF Outs
    <3> QED BY <1>11, <3>1, ReadTypes DEF ReadLevel, Steps, TypeOK
  <2> QED BY <1>11, <2>1, <2>2 DEF ReadLevel, chain, oper, history, TypeOK
<1>12. CASE WriteLevel
  <2>1. /\ conflicting' \subseteq Txs /\ owed' \subseteq Outpoints \X Txs /\ pc' \in Steps
        /\ level' \subseteq Txs /\ seen' \subseteq Txs /\ revived' \subseteq Txs
    BY <1>12, ReadTypes DEF WriteLevel, Flag, Steps, TypeOK
  <2>2. missed' \subseteq Txs /\ faults' \in 0..MaxFaults
    BY <1>12, <1>f DEF WriteLevel, Miss, TypeOK
  <2> QED BY <1>12, <2>1, <2>2 DEF WriteLevel, chain, oper, TypeOK
<1>13. CASE LevelFails
  <2>1. conflicting' \subseteq Txs /\ faults' \in 0..MaxFaults /\ children' \in [Txs -> SUBSET Txs]
    BY <1>13, <1>f, ReadTypes DEF LevelFails, Flag, TypeOK
  <2> QED BY <1>13, <1>h, <2>1 DEF LevelFails, GiveUp, chain, oper, work, history, TypeOK
<1>14. CASE Marked \/ Unmarked \/ Promoted \/ Replayed
  BY <1>14 DEF Marked, Unmarked, Promoted, Replayed, Quiet, store, chain, oper, work, history, Steps, TypeOK
<1>15. ASSUME NEW s \in owed, UnspendOne(s) PROVE TypeOK'
  <2>1. spender' \in [Outpoints -> Txs \cup {NoTx}] /\ err' \in BOOLEAN /\ faults' \in 0..MaxFaults
        /\ owed' \subseteq Outpoints \X Txs
    BY <1>15, <1>f DEF UnspendOne, TypeOK
  <2> QED BY <1>15, <2>1 DEF UnspendOne, chain, oper, history, TypeOK
<1>16. CASE Unspent
  <2>1. pc' \in Steps /\ promote' \subseteq Txs /\ UNCHANGED <<wal, chain, oper>>
    BY <1>16, <1>a, <1>h DEF Unspent, Fail, GiveUp, Steps, TypeOK
  <2> QED BY <1>16, <2>1 DEF Unspent, Quiet, store, chain, oper, history, TypeOK
<1>17. ASSUME NEW t \in Txs, SpendTx(t) PROVE TypeOK'
  <2>1. Ins(t) \subseteq Outpoints /\ SpendsOf({t}) \subseteq Outpoints \X Txs
    BY InsType, ReadTypes
  <2>2. spender' \in [Outpoints -> Txs \cup {NoTx}]
    BY <1>17, <2>1, SpendType DEF SpendTx
  <2>3. /\ pc' \in Steps /\ level' \subseteq Txs /\ seen' \subseteq Txs /\ promote' \subseteq Txs
        /\ spent' \subseteq Outpoints \X Txs /\ revived' \subseteq Txs
    BY <1>17, <2>1 DEF SpendTx, Steps, TypeOK
  <2> QED BY <1>17, <2>2, <2>3 DEF SpendTx, chain, oper, TypeOK
<1>18. ASSUME NEW t \in Txs, SpendFails(t) PROVE TypeOK'
  <2>1. Free(t) \subseteq Outpoints
    BY InsType DEF Free
  <2>2. spender' \in [Outpoints -> Txs \cup {NoTx}] /\ spent' \subseteq Outpoints \X Txs
    <3>1. PICK O \in SUBSET Free(t) : SpendBy(t, O) /\ spent' = spent \cup {<<o, t>> : o \in O}
      BY <1>18 DEF SpendFails
    <3>2. {<<o, t>> : o \in O} \subseteq Outpoints \X Txs
      BY <2>1
    <3> QED BY <2>1, <3>1, <3>2, SpendType DEF TypeOK
  <2>3. pc' \in Steps /\ UNCHANGED <<wal, chain, oper>> /\ faults' \in 0..MaxFaults
    BY <1>18, <1>f, <1>h DEF SpendFails, Fail, GiveUp, Steps, TypeOK
  <2> QED BY <1>18, <2>2, <2>3 DEF SpendFails, chain, oper, history, TypeOK
<1>19. CASE ClearWinners
  <2>1. /\ conflicting' \subseteq Txs /\ missed' \subseteq Txs /\ children' \in [Txs -> SUBSET Txs]
        /\ faults' \in 0..MaxFaults
    BY <1>19, <1>a, <1>f, ReadTypes DEF ClearWinners, Miss, TypeOK
  <2> QED BY <1>19, <2>1 DEF ClearWinners, chain, oper, work, Steps, TypeOK
<1>20. CASE ClearFails
  <2>1. /\ conflicting' \subseteq Txs /\ children' \in [Txs -> SUBSET Txs] /\ faults' \in 0..MaxFaults
        /\ pc' \in Steps /\ UNCHANGED <<wal, chain, oper>>
    BY <1>20, <1>a, <1>f, <1>h, ReadTypes DEF ClearFails, Fail, GiveUp, Steps, TypeOK
  <2> QED BY <1>20, <2>1 DEF ClearFails, chain, oper, work, history, TypeOK
<1>21. CASE UndoSpends
  <2>1. spender' \in [Outpoints -> Txs \cup {NoTx}] /\ faults' \in 0..MaxFaults
    BY <1>21, <1>f DEF UndoSpends, Reverted, TypeOK
  <2> QED BY <1>21, <2>1 DEF UndoSpends, chain, oper, Steps, TypeOK
<1>22. ASSUME NEW t \in Txs, Respend(t) PROVE TypeOK'
  <2>1. Free(t) \subseteq Outpoints
    BY InsType DEF Free
  <2>2. spender' \in [Outpoints -> Txs \cup {NoTx}]
    BY <1>22, <2>1, SpendType DEF Respend
  <2>3. faults' \in 0..MaxFaults
    BY <1>22, <1>f DEF Respend, TypeOK
  <2> QED BY <1>22, <2>2, <2>3 DEF Respend, chain, oper, history, TypeOK
<1>23. CASE UndoFlags
  <2>1. conflicting' \subseteq Txs /\ children' \in [Txs -> SUBSET Txs] /\ faults' \in 0..MaxFaults
    BY <1>23, <1>f, ReadTypes DEF UndoFlags, TypeOK
  <2> QED BY <1>23, <1>h, <2>1 DEF UndoFlags, GiveUp, chain, oper, work, history, TypeOK
<1>24. CASE Crash
  BY <1>24, <1>f DEF Crash, store, chain, oper, work, history, Steps, TypeOK
<1>25. CASE Restart
  <2>1. pending' \subseteq Kinds /\ faults' \in 0..MaxFaults
    BY <1>25, <1>f DEF Restart, TypeOK
  <2> QED BY <1>25, <2>1 DEF Restart, store, work, history, Steps, TypeOK
<1>27. CASE Advance
  BY <1>27, <1>f DEF Advance, store, oper, work, history, Steps, TypeOK
<1>26. CASE UNCHANGED vars
  BY <1>26 DEF vars, store, chain, oper, work, history, TypeOK
<1> QED
  BY <1>1, <1>2, <1>4, <1>5, <1>7, <1>8, <1>9, <1>10, <1>11, <1>12, <1>13, <1>14, <1>15, <1>16, <1>17,
     <1>18, <1>19, <1>20, <1>21, <1>22, <1>23, <1>24, <1>25, <1>26, <1>27
  DEF Next, Proceed

\* Before the block comes every variable has its type.
LEMMA InitType == Init => TypeOK
<1> SUFFICES ASSUME Init PROVE TypeOK
  OBVIOUS
<1>1. spender \in [Outpoints -> Txs \cup {NoTx}]
  BY ConflictConstants DEF Init
<1>2. children \in [Txs -> SUBSET Txs] /\ conflicting \subseteq Txs /\ stored \subseteq Txs
  BY ConflictConstants DEF Init
<1>3. /\ wal = {} /\ onChain = FALSE /\ applied = FALSE /\ saved = FALSE /\ moves = 0
      /\ confirmed \in Confirmed /\ missed = {} /\ side = "reverse"
      /\ pc = "idle" /\ kind = "forward" /\ seeded = FALSE /\ replaying = NoIntent /\ pending = {}
      /\ todo = {} /\ level = {} /\ fresh = {} /\ seen = {} /\ owed = {}
      /\ promote = {} /\ spent = {} /\ err = FALSE /\ faults = 0 /\ undone = FALSE /\ revived = {}
  BY DEF Init
<1>4. 0 \in 0..MaxMoves /\ 0 \in 0..MaxFaults /\ "idle" \in Steps /\ Kinds = {"forward", "reverse"}
  BY ConflictConstants DEF Kinds, Steps
<1> QED BY <1>1, <1>2, <1>3, <1>4 DEF TypeOK

\* Every variable keeps its type, for any block and any number of faults.
THEOREM TypeCorrect == Spec => []TypeOK
BY InitType, TypeStep, PTL DEF Spec

-----------------------------------------------------------------------------
(***************************************************************************)
(* What a step does to the spends and to the flags.                        *)
(***************************************************************************)

\* The step takes no output from anybody but those it may.
Reverts(S) ==
  \A o \in Outpoints : spender'[o] = IF \E s \in S : s[1] = o /\ s[2] = spender[o] THEN NoTx ELSE spender[o]
Gives(t, O) ==
  /\ O \subseteq Ins(t) /\ O \subseteq Outpoints
  /\ \A o \in O : spender[o] \in {NoTx, t}
  /\ \A o \in Outpoints : spender'[o] = IF o \in O THEN t ELSE spender[o]

\* Spends are made by a transaction that arrives and by those an operation
\* promotes or restores, on free outputs; they are reverted in steps 2 and 3.
LEMMA SpenderSteps ==
  ASSUME TypeOK, [Next]_vars
  PROVE  \/ UNCHANGED spender
         \/ \E t \in Txs : Arrive(t) /\ Gives(t, Ins(t))
         \/ pc = "unspend" /\ \E s \in owed : Reverts({s})
         \/ pc = "spend" /\ \E t \in promote : \E O \in SUBSET Outpoints : Gives(t, O)
         \/ pc = "undo" /\ undone' /\ \E S \in SUBSET spent : Reverts(S)
         \/ pc = "respend" /\ \E t \in level : \E O \in SUBSET Outpoints : Gives(t, O)
<1>a. spender \in [Outpoints -> Txs \cup {NoTx}] /\ owed \subseteq Outpoints \X Txs
  BY DEF TypeOK
<1>b. ASSUME NEW t \in Txs, NEW O \in SUBSET Free(t), SpendBy(t, O) PROVE Gives(t, O) /\ O \subseteq Outpoints
  BY <1>b, InsType DEF Free, SpendBy, Gives
<1>1. ASSUME NEW t \in Txs, Arrive(t) PROVE Gives(t, Ins(t))
  BY <1>1, InsType DEF Arrive, Gives
<1>2. ASSUME NEW s \in owed, UnspendOne(s) PROVE pc = "unspend" /\ (UNCHANGED spender \/ Reverts({s}))
  <2>1. s[1] \in Outpoints
    BY <1>a
  <2> QED BY <1>2, <1>a, <2>1 DEF UnspendOne, Reverts
<1>3. ASSUME NEW t \in Txs, SpendTx(t)
      PROVE  pc = "spend" /\ t \in promote /\ Gives(t, Ins(t)) /\ Ins(t) \subseteq Outpoints
  BY <1>3, <1>b DEF SpendTx, Free
<1>4. ASSUME NEW t \in Txs, SpendFails(t)
      PROVE  pc = "spend" /\ t \in promote /\ \E O \in SUBSET Outpoints : Gives(t, O)
  <2>1. PICK O \in SUBSET Free(t) : SpendBy(t, O)
    BY <1>4 DEF SpendFails
  <2> QED BY <1>4, <1>b, <2>1 DEF SpendFails
<1>5. ASSUME NEW t \in Txs, Respend(t)
      PROVE  pc = "respend" /\ t \in level /\ \E O \in SUBSET Outpoints : Gives(t, O)
  <2>1. PICK O \in SUBSET Free(t) : SpendBy(t, O)
    BY <1>5 DEF Respend
  <2> QED BY <1>5, <1>b, <2>1 DEF Respend
<1>6. ASSUME UndoSpends PROVE pc = "undo" /\ undone' /\ \E S \in SUBSET spent : Reverts(S)
  BY <1>6 DEF UndoSpends, Reverted, Reverts
<1>7. ASSUME \/ ChainMoves \/ MoveForward \/ MoveBack \/ LevelFails \/ ClearFails \/ UnlockFails
             \/ Crash \/ Restart \/ UNCHANGED vars \/ \E k \in Kinds : Replay(k)
      PROVE  UNCHANGED spender
  BY <1>7 DEF ChainMoves, MoveForward, MoveBack, Begin, LevelFails, ClearFails, UnlockFails, Crash,
       Restart, Replay, vars, store
<1>8. ASSUME \/ ReadForward \/ Refuse \/ ReverseEnds \/ ReadLevel \/ WriteLevel \/ Marked \/ Unmarked
             \/ Unspent \/ Promoted \/ ClearWinners \/ Unlock \/ UndoFlags \/ ReadFails \/ Replayed
             \/ Advance \/ \E d \in Winners : ReadReverse(d)
      PROVE  UNCHANGED spender
  BY <1>8 DEF Advance, ReadForward, Refuse, ReverseEnds, ReadLevel, WriteLevel, Marked, Unmarked, Unspent,
       Promoted, ClearWinners, Unlock, UndoFlags, ReadFails, Replayed, ReadReverse, Succeed, store
<1> QED
  BY <1>1, <1>2, <1>3, <1>4, <1>5, <1>6, <1>7, <1>8 DEF Next, Proceed

\* Flags are set on the level at hand; cleared on it, on winners in step 4, and
\* by the compensation.  A flag that was lost is so until it is written.
LEMMA FlagSteps ==
  ASSUME TypeOK, [Next]_vars
  PROVE  \/ UNCHANGED <<conflicting, missed>>
         \/ pc = "markWrite" /\ \E T \in SUBSET level : conflicting' = conflicting \cup T /\ missed \ T \subseteq missed'
         \/ pc = "unmarkWrite" /\ \E T \in SUBSET level : conflicting' = conflicting \ T /\ missed \ T \subseteq missed'
         \/ pc = "clear" /\ \E T \in SUBSET Winners : conflicting' = conflicting \ T /\ missed \ T \subseteq missed'
         \/ pc = "respend" /\ UNCHANGED missed /\ \E T \in SUBSET seen : conflicting' = conflicting \ T
<1>1. ASSUME WriteLevel
      PROVE  \/ pc = "markWrite" /\ \E T \in SUBSET level : conflicting' = conflicting \cup T /\ missed \ T \subseteq missed'
             \/ pc = "unmarkWrite" /\ \E T \in SUBSET level : conflicting' = conflicting \ T /\ missed \ T \subseteq missed'
  <2>1. PICK T \in SUBSET level : Flag(T) /\ Miss(level, T)
    BY <1>1 DEF WriteLevel
  <2>2. missed \ T \subseteq missed'
    BY <2>1 DEF Miss
  <2> QED BY <1>1, <2>1, <2>2 DEF WriteLevel, Writing, Flag
<1>6. ASSUME LevelFails
      PROVE  \/ UNCHANGED <<conflicting, missed>>
             \/ pc = "markWrite" /\ \E T \in SUBSET level : conflicting' = conflicting \cup T /\ missed \ T \subseteq missed'
             \/ pc = "unmarkWrite" /\ \E T \in SUBSET level : conflicting' = conflicting \ T /\ missed \ T \subseteq missed'
  <2>1. UNCHANGED missed
    BY <1>6 DEF LevelFails, history
  <2>2. CASE Writing
    <3>1. PICK T \in SUBSET level : Flag(T)
      BY <1>6, <2>2 DEF LevelFails
    <3> QED BY <2>1, <2>2, <3>1 DEF Writing, Flag
  <2>3. CASE ~Writing
    BY <1>6, <2>1, <2>3 DEF LevelFails
  <2> QED BY <2>2, <2>3
<1>2. ASSUME ClearWinners \/ ClearFails
      PROVE  pc = "clear" /\ \E T \in SUBSET Winners : conflicting' = conflicting \ T /\ missed \ T \subseteq missed'
  <2>1. CASE ClearWinners
    BY <2>1 DEF ClearWinners, Miss
  <2>2. CASE ClearFails
    BY <2>2 DEF ClearFails, history
  <2> QED BY <1>2, <2>1, <2>2
<1>3. ASSUME UndoFlags
      PROVE  pc = "respend" /\ UNCHANGED missed /\ \E T \in SUBSET seen : conflicting' = conflicting \ T
  BY <1>3 DEF UndoFlags, history
<1>4. ASSUME \/ ChainMoves \/ MoveForward \/ MoveBack \/ UnlockFails \/ UndoSpends
             \/ Crash \/ Restart \/ UNCHANGED vars \/ \E k \in Kinds : Replay(k)
             \/ \E s \in owed : UnspendOne(s)
             \/ \E t \in Txs : Arrive(t) \/ SpendTx(t) \/ SpendFails(t) \/ Respend(t)
      PROVE  UNCHANGED <<conflicting, missed>>
  BY <1>4 DEF ChainMoves, MoveForward, MoveBack, Begin, UnlockFails, UndoSpends, Crash, Restart, Replay,
       UnspendOne, Arrive, SpendTx, SpendFails, Respend, Quiet, history, vars, store
<1>5. ASSUME \/ ReadForward \/ Refuse \/ ReverseEnds \/ ReadLevel \/ Marked \/ Unmarked
             \/ Unspent \/ Promoted \/ Unlock \/ ReadFails \/ Replayed \/ Advance
             \/ \E d \in Winners : ReadReverse(d)
      PROVE  UNCHANGED <<conflicting, missed>>
  BY <1>5 DEF ReadForward, Refuse, ReverseEnds, ReadLevel, Marked, Unmarked, Unspent,
       Promoted, Unlock, ReadFails, Replayed, Advance, ReadReverse, Succeed, Quiet, history, store
<1> QED
  BY <1>1, <1>2, <1>3, <1>4, <1>5, <1>6 DEF Next, Proceed

\* The store only grows, and the ancestry of the block is what it is.
LEMMA StoreGrows ==
  ASSUME [Next]_vars
  PROVE  UNCHANGED confirmed /\ (undone => undone') /\ stored \subseteq stored'
<1>1. ASSUME \/ ChainMoves \/ MoveForward \/ MoveBack \/ UnlockFails \/ UndoSpends
             \/ Crash \/ Restart \/ UNCHANGED vars \/ \E k \in Kinds : Replay(k)
      PROVE  UNCHANGED confirmed /\ (undone => undone') /\ stored \subseteq stored'
  BY <1>1 DEF ChainMoves, MoveForward, MoveBack, Begin, UnlockFails, UndoSpends, Crash, Restart, Replay,
       GiveUp, Quiet, vars, store, chain, history
<1>4. ASSUME \/ \E s \in owed : UnspendOne(s)
             \/ \E t \in Txs : Arrive(t) \/ SpendTx(t) \/ SpendFails(t) \/ Respend(t)
      PROVE  UNCHANGED confirmed /\ (undone => undone') /\ stored \subseteq stored'
  <2>1. ASSUME NEW s \in owed, UnspendOne(s)
        PROVE  UNCHANGED confirmed /\ UNCHANGED undone /\ UNCHANGED stored
    BY <2>1 DEF UnspendOne, chain, history
  <2>2. ASSUME NEW t \in Txs, Arrive(t) PROVE UNCHANGED confirmed /\ UNCHANGED undone /\ stored \subseteq stored'
    BY <2>2 DEF Arrive, chain, history
  <2>3. ASSUME NEW t \in Txs, SpendTx(t) \/ Respend(t)
        PROVE  UNCHANGED confirmed /\ UNCHANGED undone /\ UNCHANGED stored
    BY <2>3 DEF SpendTx, Respend, chain, history
  <2>4. ASSUME NEW t \in Txs, SpendFails(t)
        PROVE  UNCHANGED confirmed /\ UNCHANGED undone /\ UNCHANGED stored
    BY <2>4 DEF SpendFails, Fail, GiveUp, chain, history
  <2> QED BY <1>4, <2>1, <2>2, <2>3, <2>4
<1>2. ASSUME \/ Refuse \/ ReverseEnds \/ Unlock \/ Unspent \/ ReadFails \/ Advance
      PROVE  UNCHANGED confirmed /\ (undone => undone') /\ stored \subseteq stored'
  BY <1>2 DEF Advance, Refuse, ReverseEnds, Unspent, Unlock, ReadFails, Succeed, Fail, GiveUp, Quiet, store,
       chain, history
<1>5. ASSUME \/ ReadForward \/ ReadLevel \/ Marked \/ Unmarked \/ Promoted \/ Replayed
             \/ \E d \in Winners : ReadReverse(d)
      PROVE  UNCHANGED confirmed /\ (undone => undone') /\ stored \subseteq stored'
  <2>1. ASSUME NEW d \in Winners, ReadReverse(d)
        PROVE  UNCHANGED confirmed /\ UNCHANGED undone /\ UNCHANGED stored
    BY <2>1 DEF ReadReverse, Quiet, store, chain, history
  <2>2. ASSUME ReadForward \/ ReadLevel \/ Marked \/ Unmarked \/ Promoted \/ Replayed
        PROVE  UNCHANGED confirmed /\ UNCHANGED undone /\ UNCHANGED stored
    BY <2>2 DEF ReadForward, ReadLevel, Marked, Unmarked, Promoted, Replayed, Quiet, store, chain, history
  <2> QED BY <1>5, <2>1, <2>2
<1>3. ASSUME WriteLevel \/ LevelFails \/ ClearWinners \/ ClearFails \/ UndoFlags
      PROVE  UNCHANGED confirmed /\ (undone => undone') /\ stored \subseteq stored'
  <2>1. CASE WriteLevel
    BY <2>1 DEF WriteLevel, chain
  <2>2. CASE LevelFails
    BY <2>2 DEF LevelFails, GiveUp, chain, history
  <2>3. CASE ClearWinners
    BY <2>3 DEF ClearWinners, chain
  <2>4. CASE ClearFails
    BY <2>4 DEF ClearFails, Fail, GiveUp, chain, history
  <2>5. CASE UndoFlags
    BY <2>5 DEF UndoFlags, GiveUp, chain, history
  <2> QED BY <1>3, <2>1, <2>2, <2>3, <2>4, <2>5
<1> QED
  BY <1>1, <1>2, <1>3, <1>4, <1>5 DEF Next, Proceed


-----------------------------------------------------------------------------
(***************************************************************************)
(* Confirmed transactions are spared.                                      *)
(***************************************************************************)

\* A chain has the parents of what it has, and the block's transactions are
\* not on its own ancestry.
LEMMA Ancestry ==
  ASSUME TypeOK
  PROVE  /\ confirmed \subseteq Txs /\ Winners \cap confirmed = {} /\ Winners \subseteq Txs
         /\ \A t \in confirmed : \A o \in Ins(t) : Creator[o] \in confirmed
<1>1. confirmed \in Confirmed /\ Confirmed \subseteq SUBSET (Held \ Winners)
  BY ConflictConstants DEF TypeOK
<1>2. \A C \in Confirmed : \A t \in C : \A o \in Ins(t) : Creator[o] \in C
  BY ConflictConstants
<1> QED BY <1>1, <1>2, ConflictConstants

\* Whoever spends an output has it as an input, whatever the step.
LEMMA TheirsStep ==
  ASSUME TypeOK, [Next]_vars, SpendsTheirs
  PROVE  SpendsTheirs'
<1>1. ASSUME NEW S, Reverts(S) PROVE SpendsTheirs'
  BY <1>1 DEF Reverts, SpendsTheirs
<1>2. ASSUME NEW t, NEW O, Gives(t, O) PROVE SpendsTheirs'
  BY <1>2 DEF Gives, SpendsTheirs
<1>3. ASSUME UNCHANGED spender PROVE SpendsTheirs'
  BY <1>3 DEF SpendsTheirs
<1> QED BY <1>1, <1>2, <1>3, SpenderSteps

\* Below a transaction that is not confirmed nothing is.
LEMMA BelowUnconfirmed ==
  ASSUME TypeOK, SpendsTheirs, level \cap confirmed = {}
  PROVE  SpendersOf(UNION {Outs(t) : t \in level}) \cap confirmed = {}
<1> SUFFICES ASSUME NEW v \in SpendersOf(UNION {Outs(t) : t \in level}), v \in confirmed PROVE FALSE
  OBVIOUS
<1>1. PICK o \in UNION {Outs(t) : t \in level} : spender[o] = v /\ v # NoTx
  BY DEF SpendersOf
<1>2. o \in Outpoints /\ Creator[o] \in level
  BY <1>1 DEF Outs
<1>3. o \in Ins(v)
  BY <1>1, <1>2 DEF SpendsTheirs
<1> QED BY <1>2, <1>3, Ancestry

\* A step leaves the spends and the flags of confirmed transactions.
LEMMA StandsStep ==
  ASSUME TypeOK, [Next]_vars, Spared, ConfirmedSpendStands
  PROVE  ConfirmedSpendStands'
<1>a. UNCHANGED confirmed /\ confirmed \subseteq Txs /\ Winners \cap confirmed = {}
  BY Ancestry, StoreGrows
<1>b. NoTx \notin Txs
  BY ConflictConstants
<1>c. \A t \in Txs : Ins(t) \subseteq Outpoints
  BY InsType
<1>d. /\ level \cap confirmed = {} /\ seen \cap confirmed = {} /\ promote \cap confirmed = {}
      /\ confirmed \subseteq stored
      /\ \A s \in owed : s[2] \notin confirmed
      /\ \A s \in spent : s[2] \notin confirmed
  BY DEF Spared
<1>1. \A t \in confirmed : \A o \in Ins(t) : spender'[o] = t
  <2> SUFFICES ASSUME NEW c \in confirmed, NEW o \in Ins(c) PROVE spender'[o] = c
    OBVIOUS
  <2>1. spender[o] = c /\ c # NoTx /\ o \in Outpoints
    BY <1>a, <1>b, <1>c DEF ConfirmedSpendStands, Owns
  <2>2. ASSUME NEW S, Reverts(S), \A s \in S : s[2] # c PROVE spender'[o] = c
    BY <2>1, <2>2 DEF Reverts
  <2>3. ASSUME NEW t, NEW O, Gives(t, O), t # c PROVE spender'[o] = c
    BY <2>1, <2>3 DEF Gives
  <2>4. ASSUME NEW t, Arrive(t) PROVE t # c
    BY <2>4, <1>d DEF Arrive
  <2> QED BY <1>d, <2>1, <2>2, <2>3, <2>4, SpenderSteps
<1>2. \A t \in confirmed : t \notin conflicting'
  BY <1>a, <1>d, FlagSteps DEF ConfirmedSpendStands
<1> QED BY <1>a, <1>1, <1>2 DEF ConfirmedSpendStands, Owns


\* What an operation reads next is not confirmed either.
LEMMA SparedStep ==
  ASSUME TypeOK, [Next]_vars, Spared, SpendsTheirs, ConfirmedSpendStands
  PROVE  Spared'
<1>a. /\ UNCHANGED confirmed /\ Winners \cap confirmed = {} /\ conflicting \cap confirmed = {}
      /\ stored \subseteq stored'
  BY Ancestry, StoreGrows DEF ConfirmedSpendStands
<1>b. /\ confirmed \subseteq stored
      /\ level \cap confirmed = {} /\ fresh \cap confirmed = {}
      /\ seen \cap confirmed = {} /\ promote \cap confirmed = {}
      /\ \A s \in owed : s[2] \notin confirmed
      /\ \A s \in spent : s[2] \notin confirmed
  BY DEF Spared
<1>s. ASSUME NEW T, T \cap confirmed = {} PROVE \A s \in SpendsOf(T) : s[2] \notin confirmed
  BY <1>s DEF SpendsOf
<1> SUFFICES
      /\ level' \cap confirmed = {} /\ fresh' \cap confirmed = {}
      /\ seen' \cap confirmed = {} /\ promote' \cap confirmed = {}
      /\ \A s \in owed' : s[2] \notin confirmed
      /\ \A s \in spent' : s[2] \notin confirmed
  BY <1>a, <1>b DEF Spared
<1> DEFINE Goal ==
      /\ level' \cap confirmed = {} /\ fresh' \cap confirmed = {}
      /\ seen' \cap confirmed = {} /\ promote' \cap confirmed = {}
      /\ \A s \in owed' : s[2] \notin confirmed
      /\ \A s \in spent' : s[2] \notin confirmed
<1>1. ASSUME UNCHANGED work PROVE Goal
  BY <1>1, <1>b DEF work
<1>2. ASSUME NEW k, NEW known, NEW intent, Begin(k, known, intent) PROVE Goal
  BY <1>2 DEF Begin
<1>3. CASE ReadForward
  <2>1. Losers \cap confirmed = {}
    BY <1>3, <1>a DEF ReadForward, Refused
  <2> QED BY <1>3, <2>1, <1>b DEF ReadForward
<1>4. ASSUME NEW d \in Winners, ReadReverse(d) PROVE Goal
  <2>1. Counters(d) \cap confirmed = {} /\ {d} \cap confirmed = {}
    BY <1>a, ReadTypes
  <2>2. \A s \in SpendsOf({d}) : s[2] \notin confirmed
    BY <2>1, <1>s
  <2> QED BY <1>4, <2>1, <2>2, <1>b DEF ReadReverse
<1>5. CASE ReadLevel
  BY <1>5, <1>b, BelowUnconfirmed DEF ReadLevel
<1>6. CASE WriteLevel
  <2>1. \A s \in SpendsOf(level) : s[2] \notin confirmed
    BY <1>b, <1>s
  <2> QED BY <1>6, <2>1, <1>b DEF WriteLevel
<1>7. ASSUME NEW s \in owed, UnspendOne(s) PROVE Goal
  BY <1>7, <1>b DEF UnspendOne
<1>8. CASE Unspent
  BY <1>8, <1>a, <1>b DEF Unspent
<1>9. ASSUME NEW t \in Txs, SpendTx(t) PROVE Goal
  <2>1. {t} \cap confirmed = {}
    BY <1>9, <1>b DEF SpendTx
  <2>2. \A s \in SpendsOf({t}) : s[2] \notin confirmed
    BY <2>1, <1>s
  <2> QED BY <1>9, <2>1, <2>2, <1>b DEF SpendTx
<1>10. ASSUME NEW t \in Txs, SpendFails(t) PROVE Goal
  <2>1. PICK O : spent' = spent \cup {<<o, t>> : o \in O}
    BY <1>10 DEF SpendFails
  <2>2. t \in promote /\ UNCHANGED <<level, fresh, seen, promote, owed>>
    BY <1>10 DEF SpendFails
  <2>3. \A s \in spent' : s[2] \notin confirmed
    BY <2>1, <2>2, <1>b
  <2> QED BY <2>2, <2>3, <1>b
<1>11. CASE UndoSpends
  BY <1>11, <1>b DEF UndoSpends
<1>12. ASSUME NEW t \in Txs, Respend(t) PROVE Goal
  BY <1>12, <1>b DEF Respend
<1>13. ASSUME \/ ChainMoves \/ LevelFails \/ ClearFails \/ UnlockFails \/ Crash \/ Restart
              \/ UNCHANGED vars \/ \E t \in Txs : Arrive(t)
       PROVE  UNCHANGED work
  BY <1>13 DEF ChainMoves, LevelFails, ClearFails, UnlockFails, Crash, Restart, Arrive, vars
<1>14. ASSUME \/ Refuse \/ ReverseEnds \/ Marked \/ Unmarked \/ Promoted \/ ClearWinners \/ Unlock
              \/ UndoFlags \/ ReadFails \/ Replayed \/ Advance
       PROVE  UNCHANGED work
  BY <1>14 DEF Advance, Refuse, ReverseEnds, Marked, Unmarked, Promoted, ClearWinners, Unlock, UndoFlags,
       ReadFails, Replayed, Succeed
<1>15. ASSUME MoveForward \/ MoveBack \/ \E k \in Kinds : Replay(k) PROVE Goal
  BY <1>2, <1>15 DEF MoveForward, MoveBack, Replay
<1> QED
  BY <1>1, <1>3, <1>4, <1>5, <1>6, <1>7, <1>8, <1>9, <1>10, <1>11, <1>12, <1>13, <1>14, <1>15
  DEF Next, Proceed

\* The part of the invariant that spares confirmed transactions.
SpareInv == TypeOK /\ Winners \subseteq stored /\ SpendsTheirs /\ Spared /\ ConfirmedSpendStands

\* Before the block comes, whoever is believed owns what it spends.
LEMMA InitOwns ==
  ASSUME Init
  PROVE  \A t \in Held \ Winners : Owns(t)
<1> SUFFICES ASSUME NEW t \in Held \ Winners, NEW o \in Ins(t) PROVE spender[o] = t
  BY DEF Owns
<1>1. o \in Outpoints
  BY InsType, ConflictConstants
<1>2. \A u \in Held \ Winners : o \in Ins(u) => u = t
  BY ConflictConstants
<1>3. spender[o] = CHOOSE u \in Held \ Winners : o \in Ins(u)
  BY <1>1 DEF Init
<1> QED BY <1>2, <1>3

\* Before the block comes no operation has anything in hand.
LEMMA InitSpare == Init => SpareInv
<1> SUFFICES ASSUME Init PROVE SpareInv
  OBVIOUS
<1>1. TypeOK
  BY InitType
<1>2. Winners \subseteq stored /\ confirmed \subseteq Held \ Winners /\ stored = Held /\ conflicting = Winners
  BY ConflictConstants DEF Init
<1>3. SpendsTheirs
  BY DEF Init, SpendsTheirs
<1>4. Spared
  BY <1>2 DEF Init, Spared
<1>5. ConfirmedSpendStands
  BY <1>2, InitOwns DEF ConfirmedSpendStands
<1> QED BY <1>1, <1>2, <1>3, <1>4, <1>5 DEF SpareInv

\* Every step spares what is confirmed.
LEMMA SpareStep == SpareInv /\ [Next]_vars => SpareInv'
<1> SUFFICES ASSUME SpareInv, [Next]_vars PROVE SpareInv'
  OBVIOUS
<1> USE DEF SpareInv
<1>1. (Winners \subseteq stored)'
  BY StoreGrows
<1> QED BY <1>1, TypeStep, TheirsStep, SparedStep, StandsStep

\* A transaction mined on the ancestry of the block keeps every output it
\* spends and is never flagged, through any number of operations, faults and
\* replays: filterAncestryConfirmedLosers looks at all the cascade can reach.
THEOREM ConfirmedStands == Spec => []ConfirmedSpendStands
<1>1. SpareInv => ConfirmedSpendStands
  BY DEF SpareInv
<1> QED BY <1>1, InitSpare, SpareStep, PTL DEF Spec


-----------------------------------------------------------------------------
(***************************************************************************)
(* The course of an operation.                                             *)
(***************************************************************************)

\* The variables of an operation fit the step it is at, and its intent is in
\* the log.
CourseInv == Course /\ Logged

\* A transaction arrives, the chain moves, or nothing happens: the operation
\* in progress is where it was.
LEMMA OthersSteps ==
  ASSUME ChainMoves \/ UNCHANGED vars \/ \E t \in Txs : Arrive(t)
  PROVE  /\ UNCHANGED <<conflicting, children, wal, pc, oper, work, history>>
         /\ UNCHANGED <<kind, seeded, replaying, pending>>
         /\ UNCHANGED <<todo, level, fresh, seen, owed, promote, spent, err, undone, revived, missed, side>>
<1>1. CASE ChainMoves
  BY <1>1 DEF ChainMoves, store, oper, work, history
<1>2. CASE UNCHANGED vars
  BY <1>2 DEF vars, store, chain, oper, work, history
<1>3. ASSUME NEW t \in Txs, Arrive(t)
      PROVE  UNCHANGED <<conflicting, children, wal, pc, oper, work, history>>
  BY <1>3 DEF Arrive, chain
<1> QED BY <1>1, <1>2, <1>3 DEF oper, work, history

\* When an operation ends or the process dies no step is at hand.
LEMMA EndSteps ==
  ASSUME \/ Refuse \/ ReverseEnds \/ Unlock \/ ReadFails \/ LevelFails \/ UnlockFails \/ UndoFlags
         \/ Replayed \/ Advance \/ Crash \/ Restart
  PROVE  pc' \in Resting
BY DEF Resting, Advance, Refuse, ReverseEnds, Unlock, ReadFails, LevelFails, UnlockFails, UndoFlags, Replayed, Crash, Restart,
     Succeed, GiveUp, Home

\* Every step leads where the course says.
LEMMA CourseStep ==
  ASSUME TypeOK, [Next]_vars, CourseInv
  PROVE  CourseInv'
<1> USE DEF CourseInv
<1>a. kind \in {"forward", "reverse"}
  BY DEF TypeOK, Kinds
<1>1. CASE ChainMoves \/ UNCHANGED vars \/ \E t \in Txs : Arrive(t)
  BY <1>1, OthersSteps DEF Course, Logged, Working, Resting
<1>2. ASSUME pc' \in Resting PROVE CourseInv'
  BY <1>2 DEF Course, Logged, Working, Resting
<1>3. ASSUME NEW k, NEW known, NEW intent, Begin(k, known, intent) PROVE CourseInv'
  BY <1>3 DEF Begin, Course, Logged
<1>4. CASE ReadForward
  BY <1>4 DEF ReadForward, oper, Course, Logged, Working, Resting
<1>5. ASSUME NEW d \in Winners, ReadReverse(d) PROVE CourseInv'
  BY <1>5 DEF ReadReverse, oper, Course, Logged, Working, Resting
<1>6. CASE ReadLevel
  BY <1>6 DEF ReadLevel, Flagging, oper, Course, Logged, Working, Resting
<1>7. CASE WriteLevel
  BY <1>7 DEF WriteLevel, Writing, oper, Course, Logged, Working, Resting
<1>8. CASE Marked \/ Unmarked \/ Promoted
  BY <1>8, <1>a DEF Marked, Unmarked, Promoted, oper, work, Course, Logged, Working, Resting
<1>9. ASSUME NEW s \in owed, UnspendOne(s) PROVE CourseInv'
  BY <1>9 DEF UnspendOne, oper, Course, Logged, Working, Resting
<1>10. ASSUME Fail, pc \notin Resting PROVE CourseInv'
  BY <1>10, <1>2 DEF Fail, GiveUp, Home, oper, Course, Logged, Working, Resting
<1>11. CASE Unspent
  <2>1. CASE err
    BY <1>10, <1>11, <2>1 DEF Unspent, Resting
  <2>2. CASE ~err
    BY <1>11, <2>2 DEF Unspent, oper, Course, Logged, Working, Resting
  <2> QED BY <2>1, <2>2
<1>12. ASSUME NEW t \in Txs, SpendTx(t) PROVE CourseInv'
  BY <1>12, <1>a DEF SpendTx, oper, Course, Logged, Working, Resting
<1>13. ASSUME ClearFails \/ \E t \in Txs : SpendFails(t) PROVE CourseInv'
  BY <1>13, <1>10 DEF SpendFails, ClearFails, Resting
<1>14. CASE ClearWinners
  BY <1>14 DEF ClearWinners, oper, work, Course, Logged, Working, Resting
<1>15. CASE UndoSpends
  BY <1>15 DEF UndoSpends, oper, Course, Logged, Working, Resting
<1>16. ASSUME NEW t \in Txs, Respend(t) PROVE CourseInv'
  BY <1>16 DEF Respend, oper, history, Course, Logged, Working, Resting
<1>17. ASSUME MoveForward \/ MoveBack \/ \E k \in Kinds : Replay(k) PROVE CourseInv'
  BY <1>3, <1>17 DEF MoveForward, MoveBack, Replay
<1> QED
  BY <1>1, <1>2, <1>4, <1>5, <1>6, <1>7, <1>8, <1>9, <1>11, <1>12, <1>13, <1>14, <1>15, <1>16, <1>17, EndSteps
  DEF Next, Proceed

-----------------------------------------------------------------------------
(***************************************************************************)
(* Whoever is believed owns what it spends.                                *)
(***************************************************************************)

\* Taking free outputs takes nothing from anybody.
LEMMA GivesKeeps ==
  ASSUME NEW t, NEW O, Gives(t, O), NEW u \in Txs, Owns(u)
  PROVE  Owns(u)'
BY InsType, ConflictConstants DEF Gives, Owns

\* Reverting spends takes outputs from those named only.
LEMMA RevertsKeeps ==
  ASSUME NEW S, Reverts(S), NEW u \in Txs, \A s \in S : s[2] # u, Owns(u)
  PROVE  Owns(u)'
BY InsType, ConflictConstants DEF Reverts, Owns

\* Until a compensation begins only a transaction that is flagged, or whose flag
\* was lost, loses an output.
LEMMA OwnersKeep ==
  ASSUME TypeOK, [Next]_vars, Course, ~undone', ~undone, OwedFlagged, NEW u \in Txs, Owns(u),
         u \notin conflicting \cup missed \/ pc # "unspend"
  PROVE  Owns(u)'
<1>1. ASSUME NEW s \in owed, Reverts({s}), pc = "unspend" PROVE Owns(u)'
  <2>1. s[2] \in conflicting \cup missed
    BY <1>1 DEF OwedFlagged
  <2> QED BY <1>1, <2>1, RevertsKeeps
<1>2. ASSUME NEW t, NEW O, Gives(t, O) PROVE Owns(u)'
  BY <1>2, GivesKeeps
<1>3. ASSUME UNCHANGED spender PROVE Owns(u)'
  BY <1>3 DEF Owns
<1> QED BY <1>1, <1>2, <1>3, SpenderSteps DEF Course


\* A spend is owed by one that is flagged first.
LEMMA OwedStep ==
  ASSUME TypeOK, [Next]_vars, Course, OwedFlagged
  PROVE  OwedFlagged'
<1>1. CASE ChainMoves \/ UNCHANGED vars \/ \E t \in Txs : Arrive(t)
  BY <1>1, OthersSteps DEF OwedFlagged
<1>2. ASSUME pc' \notin {"mark", "markWrite", "unspend"} PROVE OwedFlagged'
  BY <1>2 DEF OwedFlagged
<1>3. CASE ReadForward
  BY <1>3 DEF ReadForward, Course, OwedFlagged
<1>4. ASSUME NEW d \in Winners, ReadReverse(d) PROVE OwedFlagged'
  <2>1. \A s \in SpendsOf({d}) : s[2] = d
    BY DEF SpendsOf
  <2> QED BY <1>4, <2>1, <1>2 DEF ReadReverse, OwedFlagged
<1>5. CASE ReadLevel
  BY <1>5 DEF ReadLevel, Flagging, history, OwedFlagged
<1>6. CASE WriteLevel
  <2>1. \A s \in SpendsOf(level) : s[2] \in level
    BY DEF SpendsOf
  <2>2. CASE pc = "markWrite"
    <3>1. \A s \in owed' : s[2] \in conflicting' \cup missed'
      BY <1>6, <2>1, <2>2 DEF WriteLevel, Flag, Miss, OwedFlagged
    <3> QED BY <3>1 DEF OwedFlagged
  <2> QED BY <1>6, <1>2, <2>2 DEF WriteLevel, Writing
<1>7. CASE Marked
  BY <1>7 DEF Marked, Quiet, store, work, history, OwedFlagged
<1>8. ASSUME NEW s \in owed, UnspendOne(s) PROVE OwedFlagged'
  BY <1>8 DEF UnspendOne, history, OwedFlagged
<1>9. ASSUME \/ Unmarked \/ Unspent \/ Promoted \/ ClearWinners \/ UndoSpends \/ ClearFails
             \/ MoveForward \/ MoveBack \/ \E k \in Kinds : Replay(k)
             \/ \E t \in Txs : SpendTx(t) \/ SpendFails(t) \/ Respend(t)
      PROVE  pc' \notin {"mark", "markWrite", "unspend"}
  BY <1>9 DEF Unmarked, Unspent, Promoted, ClearWinners, UndoSpends, ClearFails, MoveForward, MoveBack, Replay,
       SpendTx, SpendFails, Respend, Begin, Fail, GiveUp, Home
<1> QED
  BY <1>1, <1>2, <1>3, <1>4, <1>5, <1>6, <1>7, <1>8, <1>9, EndSteps DEF Next, Proceed, Resting

\* Which step is next at and after step 3.
LEMMA SpendingFrom ==
  ASSUME TypeOK, [Next]_vars, pc' \in {"spend", "clear", "unmark", "unmarkWrite"}
  PROVE  \/ ChainMoves \/ UNCHANGED vars \/ \E t \in Txs : Arrive(t)
         \/ Unspent \/ Unmarked \/ Promoted \/ \E t \in Txs : SpendTx(t)
         \/ ReadLevel /\ pc' = "unmarkWrite" /\ pc = "unmark"
         \/ WriteLevel /\ pc' = "unmark" /\ pc = "unmarkWrite"
<1>1. ASSUME \/ ReadForward \/ Marked \/ ClearWinners \/ UndoSpends \/ ClearFails
             \/ MoveForward \/ MoveBack \/ \E k \in Kinds : Replay(k)
             \/ \E t \in Txs : SpendFails(t) \/ Respend(t)
             \/ \E d \in Winners : ReadReverse(d)
             \/ \E s \in owed : UnspendOne(s)
      PROVE  FALSE
  BY <1>1 DEF ReadForward, Marked, ClearWinners, UndoSpends, ClearFails, MoveForward, MoveBack, Replay,
       SpendFails, Respend, ReadReverse, UnspendOne, Begin, Fail, GiveUp, Home
<1>2. ASSUME ReadLevel PROVE pc' = "unmarkWrite" /\ pc = "unmark"
  BY <1>2 DEF ReadLevel, Flagging
<1>3. ASSUME WriteLevel PROVE pc' = "unmark" /\ pc = "unmarkWrite"
  BY <1>3 DEF WriteLevel, Writing
<1> QED BY <1>1, <1>2, <1>3, EndSteps DEF Next, Proceed, Resting

\* A winner that step 3 has done keeps its inputs until its flag is cleared.
LEMMA WinnersStep ==
  ASSUME TypeOK, [Next]_vars, Course, ~undone, ~undone', OwedFlagged, WinnersOwn
  PROVE  WinnersOwn'
<1> SUFFICES ASSUME kind' = "forward", pc' \in {"spend", "clear"}, NEW w \in Winners, w \notin promote'
             PROVE  Owns(w)'
  BY DEF WinnersOwn
<1>a. w \in Txs
  BY Ancestry
<1>1. CASE ChainMoves \/ UNCHANGED vars \/ \E t \in Txs : Arrive(t)
  <2>1. UNCHANGED <<pc, kind, promote>>
    BY <1>1, OthersSteps
  <2> QED BY <1>a, <2>1, OwnersKeep DEF WinnersOwn
<1>2. CASE Unspent
  BY <1>2 DEF Unspent, Fail, GiveUp, Home, oper
<1>3. CASE Unmarked
  BY <1>3 DEF Unmarked, oper, Course
<1>4. CASE Promoted
  BY <1>4, <1>a, OwnersKeep DEF Promoted, oper, work, WinnersOwn
<1>5. ASSUME NEW t \in Txs, SpendTx(t) PROVE Owns(w)'
  <2>1. CASE w = t
    BY <1>5, <2>1, InsType DEF SpendTx, SpendBy, Owns
  <2>2. CASE w # t
    <3>1. Owns(w) /\ pc = "spend"
      BY <1>5, <2>2 DEF SpendTx, oper, WinnersOwn
    <3> QED BY <3>1, <1>a, OwnersKeep
  <2> QED BY <2>1, <2>2
<1> QED BY <1>1, <1>2, <1>3, <1>4, <1>5, SpendingFrom

\* Whoever is about to lose the flag has its inputs.
LEMMA UnmarkedStep ==
  ASSUME TypeOK, [Next]_vars, Course, ~undone, ~undone', OwedFlagged, UnmarkedOwn
  PROVE  UnmarkedOwn'
<1> SUFFICES ASSUME pc' \in {"unmark", "unmarkWrite"}, NEW t \in level' PROVE Owns(t)' \/ t \in revived'
  BY DEF UnmarkedOwn
<1>k. ASSUME pc \in {"unmark", "unmarkWrite"}, t \in level, UNCHANGED revived PROVE Owns(t)' \/ t \in revived'
  BY <1>k, OwnersKeep DEF UnmarkedOwn, TypeOK
<1>1. CASE ChainMoves \/ UNCHANGED vars \/ \E v \in Txs : Arrive(v)
  <2>1. UNCHANGED <<pc, level, revived>>
    BY <1>1, OthersSteps
  <2> QED BY <2>1, <1>k
<1>2. CASE Unspent \/ Unmarked \/ Promoted
  BY <1>2 DEF Unspent, Unmarked, Promoted, Fail, GiveUp, Home
<1>3. ASSUME NEW v \in Txs, SpendTx(v) PROVE Owns(t)'
  <2>1. t = v
    BY <1>3 DEF SpendTx
  <2> QED BY <1>3, <2>1, InsType DEF SpendTx, SpendBy, Owns
<1>4. CASE ReadLevel /\ pc' = "unmarkWrite" /\ pc = "unmark"
  BY <1>4, <1>k DEF ReadLevel, Quiet, history
<1>5. CASE WriteLevel /\ pc' = "unmark" /\ pc = "unmarkWrite"
  BY <1>5 DEF WriteLevel
<1> QED BY <1>1, <1>2, <1>3, <1>4, <1>5, SpendingFrom

\* A transaction that is brought back is counted as revived no longer once it
\* has its inputs.
LEMMA RevivedSteps ==
  ASSUME TypeOK, [Next]_vars
  PROVE  \/ revived \subseteq revived'
         \/ \E t \in Txs : Owns(t)' /\ revived' = revived \ {t}
<1>1. ASSUME NEW t \in Txs, SpendTx(t) PROVE Owns(t)' /\ revived' = revived \ {t}
  BY <1>1, InsType DEF SpendTx, SpendBy, Owns
<1>2. ASSUME ChainMoves \/ UNCHANGED vars \/ \E t \in Txs : Arrive(t) PROVE UNCHANGED revived
  BY <1>2, OthersSteps
<1>3. ASSUME \/ MoveForward \/ MoveBack \/ UnlockFails \/ Crash \/ Restart \/ LevelFails \/ ClearFails
             \/ \E k \in Kinds : Replay(k)
      PROVE  UNCHANGED revived
  BY <1>3 DEF MoveForward, MoveBack, UnlockFails, Crash, Restart, LevelFails, ClearFails, Replay, Begin, Quiet,
       history
<1>4. ASSUME \/ ReadForward \/ Refuse \/ ReverseEnds \/ ReadLevel \/ Marked \/ Unmarked
             \/ Unspent \/ Promoted \/ Unlock \/ ReadFails \/ Replayed \/ ClearWinners \/ UndoSpends \/ UndoFlags
             \/ Advance
      PROVE  UNCHANGED revived
  BY <1>4 DEF Advance, ReadForward, Refuse, ReverseEnds, ReadLevel, Marked, Unmarked, Unspent, Promoted, Unlock,
       ReadFails, Replayed, ClearWinners, UndoSpends, UndoFlags, Succeed, Quiet, history
<1>5. ASSUME \/ \E d \in Winners : ReadReverse(d)
             \/ \E s \in owed : UnspendOne(s)
             \/ \E t \in Txs : SpendFails(t) \/ Respend(t)
      PROVE  UNCHANGED revived
  BY <1>5 DEF ReadReverse, UnspendOne, SpendFails, Respend, Quiet, history
<1>6. ASSUME WriteLevel PROVE revived \subseteq revived'
  BY <1>6 DEF WriteLevel
<1> QED BY <1>1, <1>2, <1>3, <1>4, <1>5, <1>6 DEF Next, Proceed

\* A record comes with its spends.
LEMMA StoredSteps ==
  ASSUME TypeOK, [Next]_vars
  PROVE  UNCHANGED stored \/ \E t \in Txs : Owns(t)' /\ stored' = stored \cup {t}
<1>1. ASSUME NEW t \in Txs, Arrive(t) PROVE Owns(t)' /\ stored' = stored \cup {t}
  BY <1>1, InsType DEF Arrive, Owns
<1>2. ASSUME ChainMoves \/ UNCHANGED vars PROVE UNCHANGED stored
  BY <1>2 DEF ChainMoves, vars, store
<1>3. ASSUME \/ MoveForward \/ MoveBack \/ UnlockFails \/ Crash \/ Restart \/ LevelFails \/ ClearFails
             \/ \E k \in Kinds : Replay(k)
      PROVE  UNCHANGED stored
  BY <1>3 DEF MoveForward, MoveBack, UnlockFails, Crash, Restart, LevelFails, ClearFails, Replay, Begin, store
<1>4. ASSUME \/ ReadForward \/ Refuse \/ ReverseEnds \/ ReadLevel \/ Marked \/ Unmarked \/ WriteLevel
             \/ Unspent \/ Promoted \/ Unlock \/ ReadFails \/ Replayed \/ ClearWinners \/ UndoSpends \/ UndoFlags
             \/ Advance
      PROVE  UNCHANGED stored
  BY <1>4 DEF Advance, ReadForward, Refuse, ReverseEnds, ReadLevel, Marked, Unmarked, WriteLevel, Unspent, Promoted,
       Unlock, ReadFails, Replayed, ClearWinners, UndoSpends, UndoFlags, Succeed, store
<1>5. ASSUME \/ \E d \in Winners : ReadReverse(d)
             \/ \E s \in owed : UnspendOne(s)
             \/ \E t \in Txs : SpendTx(t) \/ SpendFails(t) \/ Respend(t)
      PROVE  UNCHANGED stored
  BY <1>5 DEF ReadReverse, UnspendOne, SpendTx, SpendFails, Respend, store
<1> QED BY <1>1, <1>2, <1>3, <1>4, <1>5 DEF Next, Proceed

\* Who loses the flag, or gets written the one that was lost, owns its inputs, or
\* is below one that was brought back.
LEMMA BelievedStep ==
  ASSUME TypeOK, [Next]_vars, Course, ~undone, ~undone', Believed
  PROVE  BelievedOwns'
<1> USE DEF Believed
<1> SUFFICES ASSUME NEW u \in stored', u \notin conflicting', u \notin revived', u \notin missed' PROVE Owns(u)'
  BY DEF BelievedOwns
<1>a. u \in Txs
  BY TypeStep DEF TypeOK
<1>1. CASE u \notin stored \/ u \in revived
  BY <1>1, RevivedSteps, StoredSteps
<1>2. CASE u \in stored /\ u \notin revived /\ u \notin conflicting \cup missed
  BY <1>2, <1>a, OwnersKeep DEF BelievedOwns
<1>3. CASE u \in conflicting \cup missed /\ u \notin revived
  <2>1. \/ pc = "unmarkWrite" /\ u \in level
        \/ pc = "clear" /\ u \in Winners
        \/ pc = "respend"
    BY <1>3, FlagSteps
  <2>2. CASE pc = "unmarkWrite" /\ u \in level
    BY <2>2, <1>a, <1>3, OwnersKeep DEF UnmarkedOwn
  <2>3. CASE pc = "clear" /\ u \in Winners
    <3>1. Owns(u)
      BY <2>3 DEF WinnersOwn, Course
    <3> QED BY <2>3, <3>1, <1>a, OwnersKeep
  <2> QED BY <2>1, <2>2, <2>3 DEF Course
<1> QED BY <1>1, <1>2, <1>3

-----------------------------------------------------------------------------
(***************************************************************************)
(* The winners are where the last operation put them.                      *)
(***************************************************************************)

\* Which step is next in a reverse operation.
LEMMA ReversingFrom ==
  ASSUME TypeOK, [Next]_vars, Course, ~undone, ~undone', Reversing'
  PROVE  \/ ChainMoves \/ UNCHANGED vars \/ \E t \in Txs : Arrive(t)
         \/ todo' = Winners /\ promote' = {}
         \/ /\ Reversing
            /\ \/ ReadLevel \/ WriteLevel \/ Marked \/ Unmarked \/ Unspent \/ Promoted
               \/ \E d \in Winners : ReadReverse(d)
               \/ \E s \in owed : UnspendOne(s)
               \/ \E t \in Txs : SpendTx(t)
<1>1. ASSUME MoveForward \/ MoveBack \/ \E k \in Kinds : Replay(k) PROVE todo' = Winners /\ promote' = {}
  BY <1>1 DEF MoveForward, MoveBack, Replay, Begin, Reversing
<1>2. ASSUME ReadForward \/ ClearWinners PROVE FALSE
  BY <1>2 DEF ReadForward, ClearWinners, oper, Reversing, Course
<1>3. ASSUME ClearFails \/ \E t \in Txs : SpendFails(t) PROVE FALSE
  BY <1>3 DEF ClearFails, SpendFails, Fail, GiveUp, Home, oper, Reversing, Working, Resting
<1>4. ASSUME UndoSpends \/ \E t \in Txs : Respend(t) PROVE FALSE
  BY <1>4 DEF UndoSpends, Respend, Course
<1>5. ASSUME pc' \in Resting PROVE FALSE
  BY <1>5 DEF Reversing, Working, Resting
<1>6. ASSUME \/ ReadLevel \/ WriteLevel \/ Marked \/ Unmarked \/ Promoted
             \/ \E d \in Winners : ReadReverse(d)
             \/ \E s \in owed : UnspendOne(s)
             \/ \E t \in Txs : SpendTx(t)
      PROVE  Reversing
  BY <1>6 DEF ReadLevel, Flagging, WriteLevel, Writing, Marked, Unmarked, Promoted, ReadReverse, UnspendOne,
       SpendTx, oper, Reversing, Working, Resting
<1>7. ASSUME Unspent PROVE Reversing
  BY <1>7 DEF Unspent, Fail, GiveUp, oper, Reversing, Working, Resting
<1> QED BY <1>1, <1>2, <1>3, <1>4, <1>5, <1>6, <1>7, EndSteps DEF Next, Proceed

\* What ReverseDone says of one winner.
Done(w) ==
  /\ w \in conflicting \cup missed \/ (pc \in {"mark", "markWrite"} /\ w \in level)
  /\ \A o \in Outpoints : spender[o] = w => <<o, w>> \in owed \/ err
  /\ pc \in {"unmark", "unmarkWrite"} => w \notin level
  /\ pc = "unmarkWrite" => w \notin fresh

\* A winner that has been demoted stays so while the reverse goes on.
LEMMA ReverseStep ==
  ASSUME TypeOK, [Next]_vars, Course, SpendsTheirs, Winners \subseteq stored, ~undone, ~undone', ReverseDone
  PROVE  ReverseDone'
<1> SUFFICES ASSUME Reversing' PROVE promote' \cap Winners = {} /\ \A w \in Winners \ todo' : Done(w)'
  BY DEF ReverseDone, Done
<1>a. Reversing => promote \cap Winners = {} /\ \A w \in Winners \ todo : Done(w)
  BY DEF ReverseDone, Done
<1>b. Winners \subseteq Txs /\ NoTx \notin Txs
  BY Ancestry, ConflictConstants
<1>1. CASE ChainMoves \/ UNCHANGED vars
  <2>1. UNCHANGED <<pc, kind, conflicting, missed, level, fresh, todo, owed, err, promote>>
    BY <1>1, OthersSteps
  <2>2. UNCHANGED spender
    BY <1>1 DEF ChainMoves, vars, store
  <2>3. Reversing
    BY <2>1 DEF Reversing, Working, Resting
  <2> QED BY <1>a, <2>1, <2>2, <2>3 DEF Done
<1>2. ASSUME NEW t \in Txs, Arrive(t)
      PROVE  promote' \cap Winners = {} /\ \A w \in Winners \ todo' : Done(w)'
  <2>1. UNCHANGED <<pc, kind, conflicting, missed, level, fresh, todo, owed, err, promote>>
    BY <1>2, OthersSteps
  <2>2. t \notin Winners /\ \A o \in Outpoints : spender'[o] \in {t, spender[o]}
    BY <1>2 DEF Arrive
  <2>3. Reversing
    BY <2>1 DEF Reversing, Working, Resting
  <2> QED BY <1>a, <2>1, <2>2, <2>3 DEF Done
<1>3. CASE todo' = Winners /\ promote' = {}
  BY <1>3
<1>4. ASSUME Reversing, NEW d \in Winners, ReadReverse(d)
      PROVE  promote' \cap Winners = {} /\ \A w \in Winners \ todo' : Done(w)'
  <2>1. owed = {} /\ ~err /\ pc = "read" /\ UNCHANGED <<spender, conflicting, missed, err>> /\ todo' = todo \ {d}
    BY <1>4 DEF ReadReverse, Quiet, history, Course, store
  <2>2. promote' \cap Winners = {}
    BY <1>4, <1>a, ReadTypes DEF ReadReverse
  <2>3. ASSUME NEW w \in Winners \ todo, w # d PROVE Done(w)'
    <3>1. w \in conflicting \cup missed /\ \A o \in Outpoints : spender[o] # w
      BY <1>4, <1>a, <2>1, <2>3 DEF Done
    <3>2. pc' \in {"read", "mark"}
      BY <1>4 DEF ReadReverse
    <3> QED BY <2>1, <3>1, <3>2 DEF Done
  <2>4. Done(d)'
    <3>1. \A o \in Outpoints : spender[o] = d => o \in Ins(d)
      BY <1>b DEF SpendsTheirs
    <3>2. CASE d \in conflicting /\ FullyReversed(d)
      <4>1. \A o \in Outpoints : spender[o] # d
        BY <3>1, <3>2 DEF FullyReversed
      <4>2. pc' = "read"
        BY <1>4, <3>2 DEF ReadReverse
      <4> QED BY <2>1, <3>2, <4>1, <4>2 DEF Done
    <3>3. CASE ~(d \in conflicting /\ FullyReversed(d))
      <4>1. pc' = "mark" /\ level' = {d} /\ owed' = SpendsOf({d})
        BY <1>4, <3>3 DEF ReadReverse
      <4>2. \A o \in Outpoints : spender[o] = d => <<o, d>> \in SpendsOf({d})
        BY <3>1 DEF SpendsOf
      <4> QED BY <2>1, <4>1, <4>2 DEF Done
    <3> QED BY <3>2, <3>3
  <2> QED BY <2>1, <2>2, <2>3, <2>4
<1>5. ASSUME Reversing, ReadLevel
      PROVE  promote' \cap Winners = {} /\ \A w \in Winners \ todo' : Done(w)'
  <2>1. UNCHANGED <<spender, conflicting, missed, level, todo, owed, err, promote>>
    BY <1>5 DEF ReadLevel, history
  <2>2. pc \in {"mark", "unmark"} /\ pc' = IF pc = "mark" THEN "markWrite" ELSE "unmarkWrite"
    BY <1>5 DEF ReadLevel, Flagging
  <2>3. ASSUME NEW w \in Winners \ todo, pc = "unmark" PROVE w \notin fresh'
    <3>1. \A o \in Outpoints : spender[o] # w
      BY <1>5, <1>a, <2>3 DEF Done, Course
    <3>2. UNION {Outs(t) : t \in level} \subseteq Outpoints
      BY DEF Outs
    <3> QED BY <1>5, <3>1, <3>2 DEF ReadLevel, SpendersOf
  <2>4. ASSUME NEW w \in Winners \ todo PROVE Done(w)'
    BY <1>5, <1>a, <2>1, <2>2, <2>3 DEF Done
  <2> QED BY <1>5, <1>a, <2>1, <2>4
<1>6. ASSUME Reversing, WriteLevel
      PROVE  promote' \cap Winners = {} /\ \A w \in Winners \ todo' : Done(w)'
  <2>1. UNCHANGED <<spender, todo, owed, err, promote>> /\ level' = fresh \ seen
    BY <1>6 DEF WriteLevel, Reversing
  <2>2. CASE pc = "markWrite"
    <3>1. pc' = "mark" /\ conflicting \cup missed \cup level \subseteq conflicting' \cup missed'
      BY <1>6, <2>2 DEF WriteLevel, Flag, Miss
    <3> QED BY <1>6, <1>a, <2>1, <2>2, <3>1 DEF Done
  <2>3. CASE pc = "unmarkWrite"
    <3>1. pc' = "unmark" /\ (conflicting \cup missed) \ level \subseteq conflicting' \cup missed'
      BY <1>6, <2>3 DEF WriteLevel, Flag, Miss
    <3> QED BY <1>6, <1>a, <2>1, <2>3, <3>1 DEF Done
  <2> QED BY <1>6, <2>2, <2>3 DEF WriteLevel, Writing
<1>7. ASSUME Reversing, Marked \/ Unmarked \/ Promoted
      PROVE  promote' \cap Winners = {} /\ \A w \in Winners \ todo' : Done(w)'
  <2>1. UNCHANGED <<spender, conflicting, missed, level, fresh, todo, owed, err, promote>>
    BY <1>7 DEF Marked, Unmarked, Promoted, Quiet, history, store, work
  <2>2. pc' \in {"unspend", "spend", "read", "clear"} /\ (pc = "mark" => level = {}) /\ pc \in {"mark", "unmark", "spend"}
    BY <1>7 DEF Marked, Unmarked, Promoted
  <2> QED BY <1>7, <1>a, <2>1, <2>2 DEF Done
<1>8. ASSUME Reversing, NEW s \in owed, UnspendOne(s)
      PROVE  promote' \cap Winners = {} /\ \A w \in Winners \ todo' : Done(w)'
  <2>1. UNCHANGED <<pc, conflicting, missed, todo, promote>> /\ pc = "unspend" /\ owed' = owed \ {s}
    BY <1>8 DEF UnspendOne, history
  <2>2. s \in Outpoints \X Txs /\ s = <<s[1], s[2]>> /\ spender \in [Outpoints -> Txs \cup {NoTx}]
    BY DEF TypeOK
  <2>3. ASSUME NEW w \in Winners \ todo, NEW o \in Outpoints, spender'[o] = w PROVE <<o, w>> \in owed' \/ err'
    <3>1. CASE err' = TRUE
      BY <3>1
    <3>2. CASE /\ spender' = IF spender[s[1]] = s[2] THEN [spender EXCEPT ![s[1]] = NoTx] ELSE spender
               /\ UNCHANGED err
      <4>1. spender[o] = w /\ s # <<o, w>>
        BY <1>b, <2>2, <2>3, <3>2
      <4>2. <<o, w>> \in owed \/ err
        BY <1>8, <1>a, <4>1 DEF Done
      <4> QED BY <2>1, <3>2, <4>1, <4>2
    <3> QED BY <1>8, <3>1, <3>2 DEF UnspendOne
  <2>4. ASSUME NEW w \in Winners \ todo PROVE Done(w)'
    BY <1>8, <1>a, <2>1, <2>3 DEF Done
  <2> QED BY <1>8, <1>a, <2>1, <2>4
<1>9. ASSUME Reversing, Unspent
      PROVE  promote' \cap Winners = {} /\ \A w \in Winners \ todo' : Done(w)'
  <2>1. UNCHANGED <<spender, conflicting, missed, todo, owed, err>> /\ pc = "unspend"
    BY <1>9 DEF Unspent, Quiet, history, store
  <2>2. UNCHANGED promote /\ pc' \notin {"mark", "markWrite", "unmark", "unmarkWrite"}
    BY <1>9 DEF Unspent, Fail, GiveUp, Home, Reversing
  <2> QED BY <1>9, <1>a, <2>1, <2>2 DEF Done
<1>10. ASSUME Reversing, NEW t \in Txs, SpendTx(t)
       PROVE  promote' \cap Winners = {} /\ \A w \in Winners \ todo' : Done(w)'
  <2>1. UNCHANGED <<conflicting, missed, todo, owed, err>> /\ pc = "spend" /\ pc' = "unmark" /\ level' = {t}
        /\ promote' \subseteq promote
    BY <1>10 DEF SpendTx, Reversing
  <2>2. t \notin Winners /\ \A o \in Outpoints : spender'[o] \in {t, spender[o]}
    BY <1>10, <1>a DEF SpendTx, SpendBy
  <2> QED BY <1>10, <1>a, <2>1, <2>2 DEF Done
<1> QED BY <1>1, <1>2, <1>3, <1>4, <1>5, <1>6, <1>7, <1>8, <1>9, <1>10, ReversingFrom

\* Flags change only while an intent is pending, and an operation removes its
\* intent when the winners are where it puts them.
LEMMA SettledStep ==
  ASSUME TypeOK, [Next]_vars, Course, Logged, confirmed = {}, ReverseDone, Settled
  PROVE  Settled'
<1>a. kind \in {"forward", "reverse"} /\ side \in {"forward", "reverse"}
  BY DEF TypeOK, Kinds
<1>1. ASSUME UNCHANGED <<conflicting, missed, wal, side>>, pc' # "unlock" \/ UNCHANGED pc PROVE Settled'
  BY <1>1 DEF Settled
<1>2. CASE ChainMoves \/ UNCHANGED vars \/ \E t \in Txs : Arrive(t)
  BY <1>1, <1>2, OthersSteps
<1>3. CASE MoveForward \/ MoveBack \/ \E k \in Kinds : Replay(k)
  <2>1. wal' # {} /\ pc' = "read"
    BY <1>3 DEF MoveForward, MoveBack, Replay, Begin
  <2> QED BY <2>1 DEF Settled
<1>4. CASE Refuse
  BY <1>4 DEF Refuse, Refused
<1>5. CASE ReverseEnds
  <2>1. Winners \subseteq conflicting \cup missed
    BY <1>5 DEF ReverseEnds, ReverseDone, Reversing, Working, Resting
  <2>2. side' = "reverse" /\ UNCHANGED <<conflicting, missed>> /\ pc' # "unlock"
    BY <1>5 DEF ReverseEnds, Succeed, store
  <2> QED BY <2>1, <2>2 DEF Settled
<1>6. CASE Unlock
  <2>1. Winners \cap conflicting \subseteq missed /\ kind = "forward"
    BY <1>6 DEF Unlock, Settled, Course
  <2>2. side' = "forward" /\ UNCHANGED <<conflicting, missed>> /\ pc' # "unlock"
    BY <1>6, <2>1 DEF Unlock, Succeed, store
  <2> QED BY <2>1, <2>2 DEF Settled
<1>7. CASE WriteLevel \/ LevelFails \/ ClearFails \/ UndoFlags
  <2>1. UNCHANGED wal /\ pc' # "unlock" /\ Working
    BY <1>7 DEF WriteLevel, LevelFails, ClearFails, UndoFlags, Flagging, Writing, Fail, GiveUp, Home, Working, Resting
  <2> QED BY <2>1 DEF Settled, Logged
<1>8. CASE ClearWinners
  <2>1. UNCHANGED wal /\ Working /\ Winners \cap conflicting' \subseteq missed'
    BY <1>8 DEF ClearWinners, Miss, Working, Resting
  <2> QED BY <2>1 DEF Settled, Logged
<1>9. ASSUME ReadForward \/ ReadLevel \/ Marked \/ Unmarked \/ Promoted \/ Replayed \/ UndoSpends \/ Advance
      PROVE  UNCHANGED <<conflicting, missed, wal, side>> /\ pc' # "unlock"
  BY <1>9 DEF ReadForward, ReadLevel, Marked, Unmarked, Promoted, Replayed, UndoSpends, Advance, Quiet, store, history
<1>10. ASSUME Unspent \/ ReadFails \/ UnlockFails \/ Crash \/ Restart
       PROVE  UNCHANGED <<conflicting, missed, wal, side>> /\ pc' # "unlock"
  BY <1>10 DEF Unspent, ReadFails, UnlockFails, Crash, Restart, Fail, GiveUp, Home, Quiet, store, history
<1>11. ASSUME \/ \E d \in Winners : ReadReverse(d)
              \/ \E s \in owed : UnspendOne(s)
              \/ \E t \in Txs : SpendTx(t) \/ SpendFails(t) \/ Respend(t)
       PROVE  UNCHANGED <<conflicting, missed, wal, side>> /\ pc' # "unlock"
  BY <1>11 DEF ReadReverse, UnspendOne, SpendTx, SpendFails, Respend, Fail, GiveUp, Home, Quiet, store, history
<1> QED
  BY <1>1, <1>2, <1>3, <1>4, <1>5, <1>6, <1>7, <1>8, <1>9, <1>10, <1>11 DEF Next, Proceed

-----------------------------------------------------------------------------
\* The inductive invariant holds before the block comes.
LEMMA InitInv == Init => IInv
<1> SUFFICES ASSUME Init PROVE IInv
  OBVIOUS
<1>1. SpareInv
  BY InitSpare
<1>2. Course /\ Logged
  BY DEF Init, Course, Logged, Working, Resting
<1>3. Believed
  BY InitOwns DEF Init, Believed, OwedFlagged, WinnersOwn, UnmarkedOwn, BelievedOwns
<1>4. Decided
  BY DEF Init, Decided, ReverseDone, Reversing, Settled, Working, Resting
<1> QED BY <1>1, <1>2, <1>3, <1>4 DEF IInv, SpareInv

\* Every step keeps it.
LEMMA InvStep == IInv /\ [Next]_vars => IInv'
<1> SUFFICES ASSUME IInv, [Next]_vars PROVE IInv'
  OBVIOUS
<1> USE DEF IInv
<1>1. SpareInv'
  BY SpareStep DEF SpareInv
<1>2. Course' /\ Logged'
  BY CourseStep DEF CourseInv
<1>3. UNCHANGED confirmed /\ (undone => undone')
  BY StoreGrows
<1>4. ASSUME ~undone' PROVE Believed'
  BY <1>3, <1>4, OwedStep, WinnersStep, UnmarkedStep, BelievedStep DEF Believed
<1>5. ASSUME ~undone', confirmed' = {} PROVE Decided'
  BY <1>3, <1>5, ReverseStep, SettledStep DEF Decided
<1> QED BY <1>1, <1>2, <1>4, <1>5 DEF SpareInv

\* Until a compensation begins whoever is not flagged owns all it spends, but
\* for what was unflagged with its parent and those whose flag write was lost
\* without an error: after any crash, reported failure and replay a transaction
\* that is believed is never without an input.
THEOREM BelievedOwn == Spec => []BelievedOwns
<1>1. IInv => BelievedOwns
  BY DEF IInv, Believed, BelievedOwns
<1> QED BY <1>1, InitInv, InvStep, PTL DEF Spec

\* With no operation running and nothing in the log, every winner whose flag was
\* not lost is on the side the last completed operation put it on, whatever
\* faults, restarts and replays came before.
THEOREM LastOperationDecides == Spec => []LastOperationStands
<1>1. ASSUME IInv PROVE LastOperationStands
  <2> SUFFICES ASSUME AtRest, ~undone, confirmed = {}, NEW w \in Winners \ missed
               PROVE  (w \in conflicting) = (side = "reverse")
    BY DEF LastOperationStands
  <2>1. Settled /\ wal = {} /\ side \in {"forward", "reverse"}
    BY <1>1 DEF IInv, Decided, AtRest, TypeOK, Kinds
  <2>2. CASE side = "forward"
    BY <2>1, <2>2 DEF Settled
  <2>3. CASE side = "reverse"
    BY <2>1, <2>3 DEF Settled
  <2> QED BY <2>1, <2>2, <2>3
<1>2. IInv => LastOperationStands
  BY <1>1
<1> QED BY <1>2, InitInv, InvStep, PTL DEF Spec

=============================================================================
