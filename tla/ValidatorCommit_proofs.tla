----------------------- MODULE ValidatorCommit_proofs -----------------------
(***************************************************************************)
(* The safety properties of ValidatorCommit for any transactions, any      *)
(* submissions of them, in a block or not, and any number of faults,       *)
(* abandoned writes and resets.                                            *)
(*                                                                         *)
(* RecordOwnsInputs: what a submission has spent it holds until it gives   *)
(* it back itself (Holds): while it spends, when it is about to create,    *)
(* while its creation is under way without it, and once the record is      *)
(* there.  It gives back only when the record is gone, and nobody else     *)
(* works on a transaction that is not contended (Alone, Untouched).        *)
(*                                                                         *)
(* TemplateHasParents: a child passes a parent that is unlocked, and a     *)
(* record is unlocked only after it was handed off (UnlockedIsGiven,       *)
(* LiftingGiven); the queue keeps that order (QueuedAfterParents).         *)
(*                                                                         *)
(* NoDanglingSpend: as long as nothing fails, an output names a            *)
(* transaction that is stored, or that a submission under way, or an       *)
(* excused one, answers for (Owed).                                        *)
(***************************************************************************)
EXTENDS ValidatorCommit, SequenceTheorems, TLAPS

Active(a) == at[a] \notin {"new", "done"}

\* Whoever has created a record and not finished with it.
Creating == {"hand", "unlock", "delete"}

\* One submission at a time creates a record, and the record is then there.
OneCreator ==
  \A a \in Attempts : at[a] \in Creating =>
    /\ TxOf[a] \in stored
    /\ \A b \in Attempts : at[b] \in Creating /\ TxOf[b] = TxOf[a] => a = b

\* A write that was given up belongs to a submission that is over, or about to be.
LateIsDone ==
  \A t \in lateCreate \cup lateSend : \E a \in Attempts : TxOf[a] = t /\ at[a] \in {"done", "unspend"}

\* A transaction that is not contended has one party working on it.
Alone ==
  \A a \in Attempts : Active(a) /\ TxOf[a] \notin contended =>
    /\ TxOf[a] \notin lateSend
    /\ TxOf[a] \in lateCreate => at[a] = "unspend" /\ TxOf[a] \in indoubt
    /\ \A b \in Attempts : Active(b) /\ TxOf[b] = TxOf[a] => a = b

\* All that block assembly knows of.
Known == template \cup Range(queue) \cup lateSend \cup loaded \cup lifting

\* Nobody has touched the outputs of a record before it is unlocked, or saw it.
Untouched ==
  \A a \in Attempts : at[a] \in {"hand", "delete"} /\ TxOf[a] \notin contended =>
    /\ TxOf[a] \in locked
    /\ \A o \in Outs(TxOf[a]) : spender[o] = NoTx
    /\ TxOf[a] \notin Known

\* What block assembly holds, or will, is stored.
AssemblyStored == Known \ contended \subseteq stored

\* Their spends were given back though the record is there, or may yet be.
GivenAway == disowned \cup indoubt

\* t holds its input o, whose creator is stored; and unlocked, unless t is a block's.
HoldsInput(t, o) ==
  Creator[o] \notin contended =>
    /\ t \notin GivenAway => spender[o] = t /\ Creator[o] \in stored
    /\ t \notin FromBlock => Creator[o] \in stored \ locked
Holds(t) == \A o \in Ins[t] : HoldsInput(t, o)

SpentSoFar ==
  \A a \in Attempts : at[a] = "spend" /\ TxOf[a] \notin contended /\ seen[a] = {} =>
    TxOf[a] \in stored \/ \A o \in Ins[TxOf[a]] \ todo[a] : HoldsInput(TxOf[a], o)
AboutToCreate ==
  \A a \in Attempts : at[a] = "create" /\ TxOf[a] \notin contended =>
    TxOf[a] \in stored \/ Holds(TxOf[a])
LateToCreate == \A t \in lateCreate \ contended : t \in stored \/ Holds(t)
StoredHolds == \A t \in stored \ (Mined \cup contended) : Holds(t)

GivesBack ==
  \A a \in Attempts : at[a] = "unspend" /\ TxOf[a] \notin contended \cup GivenAway =>
    TxOf[a] \notin stored

MinedStored == Mined \subseteq stored \ locked
KnownUnmined == (Known \cup unread) \cap Mined = {}

\* The template has p, or is going to; before n, when it is in the queue.
Given(p, n) ==
  \/ p \in unheld \cup (IF reset = "read" THEN loaded \cup (unread \cap stored) ELSE template)
  \/ \E i \in 1..n : queue[i] = p

UnlockedIsGiven ==
  /\ \A p \in stored \ (locked \cup Mined \cup contended) : Given(p, Len(queue))
  /\ \A a \in Attempts : at[a] = "unlock" /\ TxOf[a] \notin contended => Given(TxOf[a], Len(queue))

LiftingGiven ==
  /\ reset = "read" => lifting \subseteq loaded
  /\ reset = "lift" => lifting \subseteq template \cup unheld

QueuedAfterParents ==
  \A i \in 1..Len(queue) : queue[i] \notin FromBlock \cup contended =>
    \A p \in Parents(queue[i]) \ (Mined \cup contended) : Given(p, i - 1)

\* Without faults and excuses: a spend without a record has a submission to give it back.
Regular == faults = 0 /\ \A a \in Attempts : ~Excused(a)
Owes(a, o) ==
  \/ at[a] \in {"spend", "probe", "create", "verify", "again"} /\ o \in got[a]
  \/ at[a] = "unspend" /\ o \in todo[a]
SpendsTheirs == \A o \in Outpoints : spender[o] # NoTx => o \in Ins[spender[o]]
TheirsToSpend ==
  /\ \A a \in Attempts :
       (todo[a] \cup got[a] \cup gone[a]) \subseteq Ins[TxOf[a]] /\ (gone[a] # {} => "missing" \in seen[a])
  /\ \A x \in lateSpend : x[2] \in Ins[TxOf[x[1]]]
\* While nothing but a missing parent is in its way, a submission has every input
\* on one of its lists.
Complete(a) ==
  at[a] = "spend" /\ seen[a] \subseteq {"missing"} /\ (seen[a] = {} \/ todo[a] \cup gone[a] # {}) =>
    got[a] \cup todo[a] \cup gone[a] = Ins[TxOf[a]]
Owed ==
  Regular =>
    /\ lateSpend = {} /\ lateCreate = {} /\ lateSend = {}
    /\ \A o \in Outpoints : spender[o] \notin stored \cup {NoTx} =>
         \E a \in Attempts : TxOf[a] = spender[o] /\ Owes(a, o)
    /\ \A a \in Attempts :
         /\ Complete(a)
         /\ at[a] \in Creating \cup {"create", "verify", "again"} => got[a] = Ins[TxOf[a]]

IInv ==
  /\ TypeOK /\ OneCreator /\ LateIsDone /\ Alone /\ Untouched /\ AssemblyStored
  /\ SpentSoFar /\ AboutToCreate /\ LateToCreate /\ StoredHolds /\ GivesBack /\ MinedStored
  /\ KnownUnmined /\ UnlockedIsGiven /\ LiftingGiven /\ QueuedAfterParents /\ TemplateHasParents
  /\ SpendsTheirs /\ TheirsToSpend /\ Owed

-----------------------------------------------------------------------------
(***************************************************************************)
(* The queue.                                                              *)
(***************************************************************************)

\* What a queue holds.
LEMMA RangeOf ==
  ASSUME NEW q \in Seq(Txs)
  PROVE  Range(q) = {q[i] : i \in 1..Len(q)}
BY DEF Range

\* What a queue holds after an entry was added, or taken.
LEMMA QueueOps ==
  ASSUME NEW q \in Seq(Txs), NEW t \in Txs
  PROVE  /\ Append(q, t) \in Seq(Txs) /\ Len(Append(q, t)) = Len(q) + 1
         /\ \A i \in 1..Len(q) : Append(q, t)[i] = q[i]
         /\ Append(q, t)[Len(q) + 1] = t
         /\ Range(Append(q, t)) = Range(q) \cup {t}
         /\ q # << >> =>
              /\ Tail(q) \in Seq(Txs) /\ Len(Tail(q)) = Len(q) - 1 /\ Len(q) >= 1
              /\ \A i \in 1..Len(Tail(q)) : Tail(q)[i] = q[i + 1]
              /\ Head(q) = q[1] /\ Head(q) \in Txs
              /\ Range(q) = Range(Tail(q)) \cup {Head(q)}
         /\ Range(q) \subseteq Txs /\ Range(q) = {q[i] : i \in 1..Len(q)}
<1>1. /\ Append(q, t) \in Seq(Txs) /\ Len(Append(q, t)) = Len(q) + 1
      /\ \A i \in 1..Len(q) : Append(q, t)[i] = q[i]
      /\ Append(q, t)[Len(q) + 1] = t
  OBVIOUS
<1>2. Len(q) \in Nat /\ \A i \in 1..Len(q) : q[i] \in Txs
  OBVIOUS
<1>3. Range(q) = {q[i] : i \in 1..Len(q)} /\ Range(q) \subseteq Txs
  BY <1>2, RangeOf
<1>4. Range(Append(q, t)) = {Append(q, t)[i] : i \in 1..(Len(q) + 1)}
  BY <1>1, RangeOf
<1>5. Range(Append(q, t)) = Range(q) \cup {t}
  BY <1>1, <1>2, <1>3, <1>4
<1>6. ASSUME q # << >>
      PROVE  /\ Tail(q) \in Seq(Txs) /\ Len(Tail(q)) = Len(q) - 1 /\ Len(q) >= 1
             /\ \A i \in 1..Len(Tail(q)) : Tail(q)[i] = q[i + 1]
             /\ Head(q) = q[1] /\ Head(q) \in Txs
             /\ Range(q) = Range(Tail(q)) \cup {Head(q)}
  <2>1. /\ Tail(q) \in Seq(Txs) /\ Len(Tail(q)) = Len(q) - 1 /\ Len(q) >= 1
        /\ \A i \in 1..Len(Tail(q)) : Tail(q)[i] = q[i + 1]
        /\ Head(q) = q[1] /\ Head(q) \in Txs
    BY <1>6
  <2>2. Range(Tail(q)) = {Tail(q)[i] : i \in 1..Len(Tail(q))}
    BY <2>1, RangeOf
  <2>3. Range(Tail(q)) = {q[i + 1] : i \in 1..(Len(q) - 1)}
    BY <2>1, <2>2
  <2>4. \A i \in 1..Len(q) : i = 1 \/ (i - 1 \in 1..(Len(q) - 1) /\ (i - 1) + 1 = i)
    BY <1>2
  <2>5. Range(q) \subseteq Range(Tail(q)) \cup {Head(q)}
    BY <1>3, <2>1, <2>3, <2>4
  <2>6. Range(Tail(q)) \cup {Head(q)} \subseteq Range(q)
    BY <1>2, <1>3, <2>1, <2>3
  <2> QED BY <2>1, <2>5, <2>6
<1> QED BY <1>1, <1>3, <1>5, <1>6

-----------------------------------------------------------------------------
(***************************************************************************)
(* Types.                                                                  *)
(***************************************************************************)

\* A submission goes to another place, or ends, and all places stay known.
LEMMA GoType ==
  ASSUME TypeOK, NEW a \in Attempts
  PROVE  /\ \A step \in Places : Go(a, step) =>
              /\ at' \in [Attempts -> Places] /\ answer' = answer
         /\ \A told \in {"accepted", "refused", "error", "shed"} : End(a, told) =>
              /\ at' \in [Attempts -> Places]
              /\ answer' \in [Attempts -> {"none", "accepted", "refused", "error", "shed"}]
BY DEF Go, End, TypeOK, Places

\* Put and the deletion keep the shape of the store.
LEMMA PutType ==
  ASSUME TypeOK, NEW t \in Txs, Put(t)
  PROVE  /\ stored' \subseteq Txs /\ locked' \subseteq stored' /\ spender' \in [Outpoints -> Txs \cup {NoTx}]
         /\ clock' \in Nat /\ created' \in [Txs -> Nat]
BY DEF Put, TypeOK

\* So does a spend.
LEMMA TakeType ==
  ASSUME TypeOK, NEW a \in Attempts, NEW o \in Outpoints, Take(a, o)
  PROVE  spender' \in [Outpoints -> Txs \cup {NoTx}]
BY CommitConstants DEF Take, TypeOK

\* A refusal has one of three reasons, or there is none.
LEMMA RefusalType ==
  ASSUME NEW a \in Attempts, NEW o \in Outpoints
  PROVE  /\ Refusal(a, o) \in {{}, {"missing"}, {"lock"}, {"spent"}}
         /\ Refusal(a, o) = {} <=> /\ Creator[o] \in stored
                                   /\ Creator[o] \notin locked \/ a \in InBlock
                                   /\ spender[o] \in {NoTx, TxOf[a]}
BY DEF Refusal

\* Only transactions are busy.
LEMMA BusyType == BusyTxs \subseteq Txs
BY CommitConstants DEF BusyTxs

\* Every step keeps the types.
LEMMA TypeStep == TypeOK /\ [Next]_vars => TypeOK'
<1> SUFFICES ASSUME TypeOK, [Next]_vars PROVE TypeOK'
  OBVIOUS
<1>a. \A a \in Attempts : TxOf[a] \in Txs /\ Ins[TxOf[a]] \subseteq Outpoints
  BY CommitConstants
<1>1. ASSUME NEW a \in Attempts, Begin(a) PROVE TypeOK'
  <2>1. at' \in [Attempts -> Places] /\ todo' \in [Attempts -> SUBSET Outpoints]
        /\ answer' \in [Attempts -> {"none", "accepted", "refused", "error", "shed"}]
    BY <1>1, <1>a, GoType DEF Begin, TypeOK, Places
  <2>2. contended' \subseteq Txs
    BY <1>1, <1>a DEF Begin, TypeOK
  <2> QED BY <1>1, <2>1, <2>2 DEF Begin, store, times, late, assembly, TypeOK
<1>2. ASSUME NEW a \in Attempts, NEW o \in Outpoints, SpendOne(a, o) \/ SpendOneFails(a, o)
      PROVE  TypeOK'
  <2>1. spender' \in [Outpoints -> Txs \cup {NoTx}]
    BY <1>2, TakeType DEF SpendOne, SpendOneFails, TypeOK
  <2>2. /\ todo' \in [Attempts -> SUBSET Outpoints] /\ got' \in [Attempts -> SUBSET Outpoints]
        /\ gone' \in [Attempts -> SUBSET Outpoints]
        /\ seen' \in [Attempts -> SUBSET {"missing", "lock", "spent", "error"}]
    <3>1. CASE SpendOne(a, o)
      <4>0. seen[a] \in SUBSET {"missing", "lock", "spent", "error"}
        BY DEF TypeOK
      <4>1. seen[a] \cup Refusal(a, o) \in SUBSET {"missing", "lock", "spent", "error"}
        BY <4>0, RefusalType
      <4> QED BY <3>1, <4>1 DEF SpendOne, TypeOK
    <3>2. CASE SpendOneFails(a, o)
      BY <3>2 DEF SpendOneFails, TypeOK
    <3> QED BY <1>2, <3>1, <3>2
  <2>3. contended' \subseteq Txs /\ faults' \in 0..MaxFaults
    BY <1>2, BusyType, CommitConstants DEF SpendOne, SpendOneFails, Meddles, Fault, TypeOK
  <2> QED BY <1>2, <2>1, <2>2, <2>3 DEF SpendOne, SpendOneFails, times, late, assembly, TypeOK
<1>3. ASSUME NEW a \in Attempts, SpendAborts(a) PROVE TypeOK'
  <2>1. /\ todo' \in [Attempts -> SUBSET Outpoints] /\ lateSpend' \subseteq Attempts \X Outpoints
        /\ seen' \in [Attempts -> SUBSET {"missing", "lock", "spent", "error"}]
        /\ faults' \in 0..MaxFaults
    BY <1>3, CommitConstants DEF SpendAborts, Fault, TypeOK
  <2> QED BY <1>3, <2>1 DEF SpendAborts, store, times, assembly, history, TypeOK
<1>4. ASSUME NEW a \in Attempts, NEW o \in Outpoints, LateSpend(a, o) PROVE TypeOK'
  <2>1. spender' \in [Outpoints -> Txs \cup {NoTx}] /\ contended' \subseteq Txs
    BY <1>4, TakeType, BusyType DEF LateSpend, Meddles, TypeOK
  <2> QED BY <1>4, <2>1 DEF LateSpend, times, assembly, calls, TypeOK
<1>5. ASSUME NEW a \in Attempts, SpendEnds(a) \/ Unspent(a) PROVE TypeOK'
  <2>1. /\ at' \in [Attempts -> Places]
        /\ answer' \in [Attempts -> {"none", "accepted", "refused", "error", "shed"}]
    BY <1>5, GoType DEF SpendEnds, Unspent, TypeOK, Places
  <2> QED BY <1>5, <2>1 DEF SpendEnds, Unspent, store, times, late, assembly, history, TypeOK
<1>6. ASSUME NEW a \in Attempts, Probe(a) \/ Verify(a) PROVE TypeOK'
  <2>1. /\ at' \in [Attempts -> Places] /\ todo' \in [Attempts -> SUBSET Outpoints]
        /\ answer' \in [Attempts -> {"none", "accepted", "refused", "error", "shed"}]
    BY <1>6, GoType DEF Probe, Verify, TypeOK, Places
  <2>2. faults' \in 0..MaxFaults
    BY <1>6, CommitConstants DEF Probe, Verify, Fault, TypeOK
  <2> QED BY <1>6, <2>1, <2>2 DEF Probe, Verify, store, times, late, assembly, history, TypeOK
<1>7. ASSUME NEW a \in Attempts, NEW o \in Outpoints, UnspendOne(a, o) PROVE TypeOK'
  <2>1. todo' \in [Attempts -> SUBSET Outpoints] /\ spender' \in [Outpoints -> Txs \cup {NoTx}]
    BY <1>7 DEF UnspendOne, TypeOK
  <2>2. faults' \in 0..MaxFaults
    BY <1>7, CommitConstants DEF UnspendOne, Fault, TypeOK
  <2> QED BY <1>7, <2>1, <2>2 DEF UnspendOne, times, late, assembly, history, TypeOK
<1>8. ASSUME NEW a \in Attempts, Create(a) PROVE TypeOK'
  <2>1. /\ at' \in [Attempts -> Places]
        /\ answer' \in [Attempts -> {"none", "accepted", "refused", "error", "shed"}]
    BY <1>8, GoType DEF Create, TypeOK, Places
  <2>2. /\ stored' \subseteq Txs /\ locked' \subseteq stored' /\ spender' \in [Outpoints -> Txs \cup {NoTx}]
        /\ clock' \in Nat /\ created' \in [Txs -> Nat]
    BY <1>8, <1>a, PutType DEF Create, store, times, TypeOK
  <2> QED BY <1>8, <2>1, <2>2 DEF Create, late, assembly, history, TypeOK
<1>9. ASSUME NEW a \in Attempts, CreateUnknown(a) \/ CreateFails(a) \/ HandOffFails(a) \/ Die(a)
      PROVE  TypeOK'
  <2>1. /\ at' \in [Attempts -> Places] /\ todo' \in [Attempts -> SUBSET Outpoints]
        /\ answer' \in [Attempts -> {"none", "accepted", "refused", "error", "shed"}]
    BY <1>9, GoType DEF CreateUnknown, CreateFails, HandOffFails, Die, TypeOK, Places
  <2>2. /\ lateCreate' \subseteq Txs /\ lateSend' \subseteq Txs /\ lateSpend' = lateSpend
        /\ disowned' \subseteq Txs /\ indoubt' \subseteq Txs /\ UNCHANGED <<contended, unheld>>
    BY <1>9, <1>a DEF CreateUnknown, CreateFails, HandOffFails, Die, late, history, TypeOK
  <2>3. faults' \in 0..MaxFaults
    BY <1>9, CommitConstants DEF CreateUnknown, CreateFails, HandOffFails, Die, Fault, TypeOK
  <2>4. UNCHANGED <<store, assembly, got, gone, seen>>
    BY <1>9 DEF CreateUnknown, CreateFails, HandOffFails, Die
  <2> QED BY <2>1, <2>2, <2>3, <2>4 DEF store, times, assembly, TypeOK
<1>10. ASSUME NEW t \in Txs, LateCreate(t) PROVE TypeOK'
  <2>1. /\ stored' \subseteq Txs /\ locked' \subseteq stored' /\ spender' \in [Outpoints -> Txs \cup {NoTx}]
        /\ clock' \in Nat /\ created' \in [Txs -> Nat]
    BY <1>10, PutType DEF LateCreate, store, times, TypeOK
  <2> QED BY <1>10, <2>1 DEF LateCreate, assembly, calls, history, TypeOK
<1>11. ASSUME NEW a \in Attempts, HandOff(a) \/ HandOffShed(a) PROVE TypeOK'
  <2>1. at' \in [Attempts -> Places] /\ answer' = answer
    BY <1>11, GoType DEF HandOff, HandOffShed, TypeOK, Places
  <2>2. /\ Append(queue, TxOf[a]) \in Seq(Txs)
        /\ Len(Append(queue, TxOf[a])) = Len(queue) + 1 /\ Len(queue) \in Nat
    <3>1. queue \in Seq(Txs) /\ TxOf[a] \in Txs
      BY <1>a DEF TypeOK
    <3> QED BY <3>1
  <2>3. queue' \in Seq(Txs) /\ Len(queue') <= QueueLimit
    <3>1. \/ queue' = queue
          \/ queue' = Append(queue, TxOf[a]) /\ Len(queue) < QueueLimit
      BY <1>11 DEF HandOff, HandOffShed, Room, assembly
    <3>2. QueueLimit \in Nat /\ queue \in Seq(Txs) /\ Len(queue) <= QueueLimit
      BY CommitConstants DEF TypeOK
    <3> QED BY <2>2, <3>1, <3>2
  <2>4. unheld' \subseteq Txs
    BY <1>11, <1>a DEF HandOff, HandOffShed, history, TypeOK
  <2> QED BY <1>11, <2>1, <2>3, <2>4 DEF HandOff, HandOffShed, store, times, late, assembly, history, TypeOK
<1>12. ASSUME NEW t \in Txs, LateSend(t) PROVE TypeOK'
  <2>1. queue' \in Seq(Txs) /\ Len(queue') <= QueueLimit
    BY <1>12, QueueOps, CommitConstants DEF LateSend, Room, TypeOK
  <2> QED BY <1>12, <2>1 DEF LateSend, store, times, calls, history, TypeOK
<1>13. ASSUME NEW a \in Attempts, Unlock(a) \/ Delete(a) PROVE TypeOK'
  <2>1. /\ at' \in [Attempts -> Places]
        /\ answer' \in [Attempts -> {"none", "accepted", "refused", "error", "shed"}]
    BY <1>13, GoType DEF Unlock, Delete, TypeOK, Places
  <2>2. stored' \subseteq Txs /\ locked' \subseteq stored' /\ spender' \in [Outpoints -> Txs \cup {NoTx}]
    BY <1>13 DEF Unlock, Delete, store, TypeOK
  <2>4. UNCHANGED times
    BY <1>13 DEF Unlock, Delete, store
  <2>3. faults' \in 0..MaxFaults
    BY <1>13, CommitConstants DEF Unlock, Delete, Fault, TypeOK
  <2> QED BY <1>13, <2>1, <2>2, <2>3, <2>4 DEF Unlock, Delete, times, late, assembly, history, TypeOK
<1>14. CASE Dequeue \/ Drain
  <2>1. /\ queue' \in Seq(Txs) /\ Len(queue') <= QueueLimit /\ template' \subseteq Txs
        /\ unheld' \subseteq Txs
    <3>1. queue \in Seq(Txs) /\ Len(queue) \in Nat /\ Len(queue) <= QueueLimit
      BY DEF TypeOK
    <3>2. CASE Dequeue
      <4>1. /\ Tail(queue) \in Seq(Txs) /\ Len(Tail(queue)) = Len(queue) - 1
            /\ Head(queue) \in Txs
        BY <3>1, <3>2 DEF Dequeue
      <4> QED BY <3>1, <3>2, <4>1, CommitConstants DEF Dequeue, history, TypeOK
    <3>3. CASE Drain
      <4>1. Range(queue) \subseteq Txs
        BY <3>1, RangeOf
      <4> QED BY <3>3, <4>1, CommitConstants DEF Drain, TypeOK
    <3> QED BY <1>14, <3>2, <3>3
  <2> QED BY <1>14, <2>1 DEF Dequeue, Drain, store, times, late, calls, history, TypeOK
<1>15. CASE ResetStarts
  BY <1>15, CommitConstants DEF ResetStarts, store, times, late, calls, history, TypeOK
<1>16. ASSUME NEW t \in Txs, ReadRecord(t) PROVE TypeOK'
  BY <1>16 DEF ReadRecord, store, times, late, calls, TypeOK
<1>17. CASE LoadTemplate
  <2>1. template' \subseteq loaded /\ unheld' \subseteq unheld \cup loaded
    BY <1>17 DEF LoadTemplate
  <2>2. faults' \in 0..MaxFaults
    BY <1>17, CommitConstants DEF LoadTemplate, Fault, TypeOK
  <2> QED BY <1>17, <2>1, <2>2 DEF LoadTemplate, store, times, late, calls, TypeOK
<1>18. CASE Lift
  BY <1>18, CommitConstants DEF Lift, Fault, times, late, calls, history, TypeOK
<1>19. CASE UNCHANGED vars
  BY <1>19 DEF vars, store, times, late, assembly, calls, history, TypeOK
<1>20. ASSUME NEW a \in Attempts, Forgive(a) PROVE TypeOK'
  <2>0. /\ got \in [Attempts -> SUBSET Outpoints] /\ gone \in [Attempts -> SUBSET Outpoints]
        /\ seen \in [Attempts -> SUBSET {"missing", "lock", "spent", "error"}]
    BY DEF TypeOK
  <2>a. got[a] \cup gone[a] \in SUBSET Outpoints
        /\ seen[a] \ {"missing"} \in SUBSET {"missing", "lock", "spent", "error"}
    BY <2>0
  <2>1. /\ got' \in [Attempts -> SUBSET Outpoints] /\ gone' \in [Attempts -> SUBSET Outpoints]
        /\ seen' \in [Attempts -> SUBSET {"missing", "lock", "spent", "error"}]
    BY <1>20, <2>0, <2>a DEF Forgive
  <2>2. faults' \in 0..MaxFaults
    BY <1>20, CommitConstants DEF Forgive, Fault, TypeOK
  <2> QED BY <1>20, <2>1, <2>2 DEF Forgive, store, times, late, assembly, history, TypeOK
<1> QED
  BY <1>20, <1>1, <1>2, <1>3, <1>4, <1>5, <1>6, <1>7, <1>8, <1>9, <1>10, <1>11, <1>12, <1>13, <1>14,
     <1>15, <1>16, <1>17, <1>18, <1>19
  DEF Next, Step, Assemble

\* Every variable keeps its type and only records are locked, for any number of
\* submissions, transactions, faults and resets.
THEOREM TypeCorrect == Spec => []TypeOK
<1>1. Init => TypeOK
  BY CommitConstants DEF Init, TypeOK, Places
<1> QED BY <1>1, TypeStep, PTL DEF Spec

-----------------------------------------------------------------------------
(***************************************************************************)
(* Who works on a transaction.                                             *)
(***************************************************************************)

Control == OneCreator /\ LateIsDone /\ Alone

\* History only grows.
LEMMA HistoryGrows ==
  ASSUME [Next]_vars
  PROVE  /\ contended \subseteq contended' /\ unheld \subseteq unheld'
         /\ disowned \subseteq disowned' /\ indoubt \subseteq indoubt'
<1> DEFINE Grow == /\ contended \subseteq contended' /\ unheld \subseteq unheld'
                   /\ disowned \subseteq disowned' /\ indoubt \subseteq indoubt'
<1>1. ASSUME NEW a \in Attempts,
             \/ Forgive(a) \/ SpendEnds(a) \/ Probe(a) \/ Unspent(a) \/ Verify(a) \/ SpendAborts(a)
             \/ CreateUnknown(a) \/ Die(a) \/ Create(a) \/ Unlock(a) \/ Delete(a) \/ HandOff(a)
             \/ HandOffFails(a)
      PROVE  UNCHANGED history
  BY <1>1 DEF Forgive, SpendEnds, Probe, Unspent, Verify, SpendAborts, CreateUnknown, Die, Create,
       Unlock, Delete, HandOff, HandOffFails
<1>2. ASSUME NEW a \in Attempts, Begin(a) \/ HandOffShed(a) \/ CreateFails(a) PROVE Grow
  BY <1>2 DEF Begin, HandOffShed, CreateFails
<1>3. ASSUME NEW a \in Attempts, NEW o \in Outpoints,
             SpendOne(a, o) \/ SpendOneFails(a, o) \/ LateSpend(a, o) \/ UnspendOne(a, o)
      PROVE  Grow
  BY <1>3 DEF SpendOne, SpendOneFails, LateSpend, UnspendOne, history
<1>4. ASSUME \/ Dequeue \/ LoadTemplate \/ Lift \/ Drain \/ ResetStarts \/ UNCHANGED vars
             \/ \E t \in Txs : ReadRecord(t) \/ LateCreate(t) \/ LateSend(t)
      PROVE  Grow
  BY <1>4 DEF Dequeue, LoadTemplate, Lift, Drain, ResetStarts, ReadRecord, LateCreate, LateSend, vars,
       history
<1> QED BY <1>1, <1>2, <1>3, <1>4 DEF Next, Step, Assemble, history

\* A submission that begins on a transaction nobody works on.
LEMMA NobodyBusy ==
  ASSUME TypeOK, LateIsDone, NEW a \in Attempts, Begin(a), TxOf[a] \notin contended'
  PROVE  /\ TxOf[a] \notin lateCreate \cup lateSend
         /\ \A b \in Attempts : TxOf[b] = TxOf[a] => ~Active(b)
<1>1. TxOf[a] \notin BusyTxs
  BY DEF Begin
<1>2. \A b \in Attempts : TxOf[b] = TxOf[a] => ~Busy(b)
  BY <1>1 DEF BusyTxs
<1> QED BY <1>2 DEF Busy, Active, LateIsDone

\* Steps that move no submission, store no record and give up no write.
LEMMA ControlFrame ==
  ASSUME Control, UNCHANGED <<stored, at>>, contended \subseteq contended', indoubt \subseteq indoubt',
         lateCreate' \subseteq lateCreate, lateSend' \subseteq lateSend
  PROVE  Control'
BY DEF Control, OneCreator, LateIsDone, Alone, Active

\* One submission at a time creates a record; submissions are alone on a
\* transaction that is not contended.
LEMMA ControlStep ==
  ASSUME TypeOK, Control, [Next]_vars
  PROVE  Control'
<1> USE DEF Control, Creating
<1>a. \A a \in Attempts : TxOf[a] \in Txs
  BY CommitConstants
<1>b. ASSUME NEW a \in Attempts, NEW step, Go(a, step) \/ at' = [at EXCEPT ![a] = step]
      PROVE  at'[a] = step /\ \A b \in Attempts \ {a} : at'[b] = at[b]
  BY <1>b DEF Go, TypeOK
<1>c. ASSUME NEW a \in Attempts, NEW told, End(a, told)
      PROVE  at'[a] = "done" /\ \A b \in Attempts \ {a} : at'[b] = at[b]
  BY <1>c DEF End, TypeOK
<1>1. CASE \/ UNCHANGED vars
           \/ \E a \in Attempts, o \in Outpoints : SpendOne(a, o) \/ SpendOneFails(a, o)
                                                  \/ LateSpend(a, o) \/ UnspendOne(a, o)
           \/ \E a \in Attempts : SpendAborts(a) \/ Forgive(a)
           \/ \E t \in Txs : ReadRecord(t) \/ LateSend(t)
           \/ Dequeue \/ ResetStarts \/ LoadTemplate \/ Lift \/ Drain
  <2>1. UNCHANGED <<stored, at>> /\ lateCreate' \subseteq lateCreate /\ lateSend' \subseteq lateSend
    BY <1>1 DEF SpendOne, SpendOneFails, LateSpend, UnspendOne, SpendAborts, Forgive, ReadRecord, LateSend,
                Dequeue, ResetStarts, LoadTemplate, Lift, Drain, vars, store, late, calls
  <2> QED BY <2>1, HistoryGrows, ControlFrame
<1>2. ASSUME NEW a \in Attempts, Begin(a) PROVE Control'
  <2>1. at[a] = "new" /\ at'[a] \in {"spend", "done"} /\ \A b \in Attempts \ {a} : at'[b] = at[b]
    BY <1>2, <1>b, <1>c DEF Begin
  <2>2. UNCHANGED <<stored, lateCreate, lateSend>>
    BY <1>2 DEF Begin, store, late
  <2>3. OneCreator' /\ LateIsDone'
    BY <2>1, <2>2 DEF OneCreator, LateIsDone
  <2>4. Alone'
    BY <1>2, <2>1, <2>2, NobodyBusy, HistoryGrows DEF Alone, Active
  <2> QED BY <2>3, <2>4
\* Places between which a submission stays active and creates nothing.
<1>3. ASSUME NEW a \in Attempts,
             \/ SpendEnds(a) \/ Probe(a) \/ Unspent(a)
             \/ HandOff(a) \/ HandOffShed(a) \/ Unlock(a) \/ Verify(a) \/ Die(a)
      PROVE  Control'
  <2>1. /\ at[a] \notin {"new", "done"} /\ \A b \in Attempts \ {a} : at'[b] = at[b]
        /\ at'[a] \in Creating => at[a] \in Creating
        /\ at'[a] # "new" /\ (at[a] = "unspend" => at'[a] = "done")
    BY <1>3, <1>b, <1>c DEF SpendEnds, Probe, Unspent, HandOff, HandOffShed, Unlock, Verify, Die
  <2>2. UNCHANGED <<stored, lateCreate, lateSend>>
    BY <1>3 DEF SpendEnds, Probe, Unspent, HandOff, HandOffShed, Unlock, Verify, Die, store, late
  <2> QED BY <2>1, <2>2, HistoryGrows DEF OneCreator, LateIsDone, Alone, Active
<1>4. ASSUME NEW a \in Attempts, CreateUnknown(a) \/ HandOffFails(a) PROVE Control'
  <2>1. /\ at[a] \notin {"new", "done"} /\ at'[a] = "done"
        /\ \A b \in Attempts \ {a} : at'[b] = at[b]
    BY <1>4, <1>c DEF CreateUnknown, HandOffFails
  <2>2. /\ stored' = stored /\ lateCreate' \subseteq lateCreate \cup {TxOf[a]}
        /\ lateSend' \subseteq lateSend \cup {TxOf[a]}
    BY <1>4 DEF CreateUnknown, HandOffFails, store
  <2>3. OneCreator'
    BY <2>1, <2>2 DEF OneCreator
  <2>4. LateIsDone'
    BY <2>1, <2>2 DEF LateIsDone
  <2>5. Alone'
    BY <2>1, <2>2, HistoryGrows DEF Alone, Active
  <2> QED BY <2>3, <2>4, <2>5
<1>8. ASSUME NEW a \in Attempts, CreateFails(a) PROVE Control'
  <2>1. /\ at[a] = "create" /\ at'[a] = "unspend"
        /\ \A b \in Attempts \ {a} : at'[b] = at[b]
        /\ UNCHANGED <<stored, lateSend, contended>>
        /\ \/ UNCHANGED <<lateCreate, indoubt>>
           \/ lateCreate' = lateCreate \cup {TxOf[a]} /\ indoubt' = indoubt \cup {TxOf[a]}
    BY <1>8, <1>b DEF CreateFails, store
  <2>2. OneCreator' /\ LateIsDone'
    BY <2>1 DEF OneCreator, LateIsDone
  <2>3. Alone'
    BY <2>1 DEF Alone, Active
  <2> QED BY <2>2, <2>3
<1>5. ASSUME NEW a \in Attempts, Create(a) PROVE Control'
  <2>1. /\ at[a] = "create" /\ \A b \in Attempts \ {a} : at'[b] = at[b]
        /\ UNCHANGED <<lateCreate, lateSend, contended, indoubt>>
        /\ \/ at'[a] = "done" /\ stored' = stored
           \/ at'[a] = "hand" /\ TxOf[a] \notin stored /\ stored' = stored \cup {TxOf[a]}
    BY <1>5, <1>b, <1>c DEF Create, Put, late, store, history
  <2> QED BY <2>1 DEF OneCreator, LateIsDone, Alone, Active
<1>6. ASSUME NEW a \in Attempts, Delete(a) PROVE Control'
  <2>1. /\ at[a] = "delete" /\ at'[a] = "verify" /\ \A b \in Attempts \ {a} : at'[b] = at[b]
        /\ UNCHANGED <<lateCreate, lateSend, contended, indoubt>>
        /\ stored' \in {stored, stored \ {TxOf[a]}}
    BY <1>6, <1>b DEF Delete, late, store, history
  <2> QED BY <2>1 DEF OneCreator, LateIsDone, Alone, Active
<1>7. ASSUME NEW t \in Txs, LateCreate(t) PROVE Control'
  <2>1. UNCHANGED <<at, lateSend, contended, indoubt>> /\ lateCreate' \subseteq lateCreate /\ stored \subseteq stored'
    BY <1>7 DEF LateCreate, Put, calls, store, history
  <2> QED BY <2>1 DEF OneCreator, LateIsDone, Alone, Active
<1> QED
  BY <1>1, <1>2, <1>3, <1>4, <1>5, <1>6, <1>7, <1>8 DEF Next, Step, Assemble

-----------------------------------------------------------------------------
(***************************************************************************)
(* What a step does to the store, and what block assembly learns in it.    *)
(***************************************************************************)

Spends(a, o) ==
  /\ SpendOne(a, o) \/ SpendOneFails(a, o) \/ LateSpend(a, o)
  /\ (at[a] = "spend" /\ o \in todo[a]) \/ <<a, o>> \in lateSpend
  /\ Take(a, o) /\ UNCHANGED <<stored, locked>>
  /\ Meddles(o) \subseteq contended'
Unspends(a, o) ==
  /\ at[a] = "unspend" /\ o \in todo[a]
  /\ spender[o] = TxOf[a] /\ spender' = [spender EXCEPT ![o] = NoTx]
  /\ UNCHANGED <<stored, locked>>
Creates(t) ==
  /\ Put(t) /\ t \in Txs \ (stored \cup Mined)
  /\ t \in lateCreate \/ \E a \in Attempts : TxOf[a] = t /\ at[a] = "create" /\ at'[a] = "hand"
Deletes(a) ==
  /\ at[a] = "delete" /\ at'[a] = "verify"
  /\ stored' = stored \ {TxOf[a]} /\ locked' = locked \ {TxOf[a]}
  /\ spender' = [o \in Outpoints |-> IF o \in Outs(TxOf[a]) THEN NoTx ELSE spender[o]]
Unlocks(a) ==
  /\ at[a] = "unlock" /\ at'[a] = "done"
  /\ locked' = locked \ {TxOf[a]} /\ UNCHANGED <<stored, spender>>
Lifts(T) == reset = "lift" /\ T \subseteq lifting /\ locked' = locked \ T /\ UNCHANGED <<stored, spender>>

\* The store changes in six ways.
LEMMA StoreSteps ==
  ASSUME TypeOK, Control, [Next]_vars
  PROVE  \/ UNCHANGED store
         \/ \E a \in Attempts, o \in Outpoints : Spends(a, o) \/ Unspends(a, o)
         \/ \E t \in Txs : Creates(t)
         \/ \E a \in Attempts : Deletes(a) \/ Unlocks(a)
         \/ \E T \in SUBSET Txs : Lifts(T)
<1>a. \A a \in Attempts : TxOf[a] \in Txs \ Mined
  BY CommitConstants
<1>1. CASE \E a \in Attempts :
             \/ Begin(a) \/ Forgive(a) \/ SpendEnds(a) \/ Probe(a) \/ Unspent(a) \/ HandOff(a) \/ HandOffShed(a)
             \/ Verify(a) \/ SpendAborts(a) \/ CreateUnknown(a) \/ CreateFails(a)
             \/ HandOffFails(a) \/ Die(a)
  BY <1>1 DEF Begin, Forgive, SpendEnds, Probe, Unspent, HandOff, HandOffShed, Verify, SpendAborts,
              CreateUnknown, CreateFails, HandOffFails, Die
<1>2. CASE \/ Dequeue \/ LoadTemplate \/ Drain \/ ResetStarts \/ UNCHANGED vars
           \/ \E t \in Txs : ReadRecord(t) \/ LateSend(t)
  BY <1>2 DEF Dequeue, LoadTemplate, Drain, ResetStarts, ReadRecord, LateSend, vars
<1>3. ASSUME NEW a \in Attempts, NEW o \in Outpoints,
             SpendOne(a, o) \/ SpendOneFails(a, o) \/ LateSpend(a, o)
      PROVE  UNCHANGED store \/ Spends(a, o)
  BY <1>3 DEF SpendOne, SpendOneFails, LateSpend, Spends, store
<1>4. ASSUME NEW a \in Attempts, NEW o \in Outpoints, UnspendOne(a, o)
      PROVE  UNCHANGED store \/ Unspends(a, o)
  BY <1>4 DEF UnspendOne, Unspends, store
<1>5. ASSUME NEW a \in Attempts, Create(a) PROVE UNCHANGED store \/ Creates(TxOf[a])
  BY <1>5, <1>a DEF Create, Go, Creates, TypeOK
<1>6. ASSUME NEW t \in Txs, LateCreate(t) PROVE UNCHANGED store \/ Creates(t)
  BY <1>6, <1>a DEF LateCreate, Creates, Control, LateIsDone
<1>7. ASSUME NEW a \in Attempts, Unlock(a) \/ Delete(a) PROVE UNCHANGED store \/ Deletes(a) \/ Unlocks(a)
  BY <1>7 DEF Unlock, Delete, Go, End, Unlocks, Deletes, store, TypeOK
<1>8. ASSUME Lift PROVE \E T \in SUBSET Txs : Lifts(T)
  BY <1>8 DEF Lift, Lifts, TypeOK
<1> QED
  BY <1>1, <1>2, <1>3, <1>4, <1>5, <1>6, <1>7, <1>8, <1>a DEF Next, Step, Assemble

\* Block assembly learns of a transaction when it is handed off, or read by the loader.
LEMMA Learns ==
  ASSUME TypeOK, Control, [Next]_vars, NEW t \in Known' \ Known
  PROVE  /\ t \in stored /\ stored' = stored
         /\ \/ \E a \in Attempts : TxOf[a] = t /\ at[a] = "hand" /\ at'[a] \notin {"hand", "delete"}
            \/ t \in unread /\ (t \in BusyTxs => t \in contended')
<1>a. \A a \in Attempts : TxOf[a] \in Txs
  BY CommitConstants
<1>b. queue \in Seq(Txs) /\ locked \subseteq stored
  BY DEF TypeOK
<1>1. ASSUME NEW a \in Attempts, HandOff(a) PROVE Known' \subseteq Known \cup {TxOf[a]}
  <2>1. Range(queue') = Range(queue) \cup {TxOf[a]}
    BY <1>1, <1>a, <1>b, QueueOps DEF HandOff
  <2> QED BY <1>1, <2>1 DEF HandOff, Known, late
<1>2. ASSUME NEW a \in Attempts, HandOffFails(a) PROVE Known' \subseteq Known \cup {TxOf[a]}
  BY <1>2 DEF HandOffFails, Known, assembly
<1>3. ASSUME NEW a \in Attempts, HandOff(a) \/ HandOffFails(a)
      PROVE  at[a] = "hand" /\ at'[a] \notin {"hand", "delete"} /\ stored' = stored
  BY <1>3 DEF HandOff, HandOffFails, Go, End, store, TypeOK
<1>4. ASSUME NEW q \in Txs, ReadRecord(q)
      PROVE  /\ Known' \subseteq Known \cup ({q} \cap stored) /\ stored' = stored
             /\ q \in unread /\ (q \in stored \cap BusyTxs => q \in contended')
  BY <1>4, <1>b DEF ReadRecord, Known, store, late
<1>5. ASSUME NEW q \in Txs, LateSend(q) PROVE Known' \subseteq Known
  <2>1. Range(Append(queue, q)) = Range(queue) \cup {q}
    BY <1>b, QueueOps
  <2> QED BY <1>5, <2>1 DEF LateSend, Known
<1>6. ASSUME Dequeue PROVE Known' \subseteq Known
  <2>1. Range(queue) = Range(queue') \cup {Head(queue)}
    <3>1. queue # << >> /\ queue' = Tail(queue)
      BY <1>6 DEF Dequeue
    <3>2. \A q \in Seq(Txs), u \in Txs : q # << >> => Range(q) = Range(Tail(q)) \cup {Head(q)}
      BY QueueOps
    <3>3. Txs # {}
      BY <1>b, <3>1
    <3> QED BY <1>b, <3>1, <3>2, <3>3
  <2> QED BY <1>6, <2>1 DEF Dequeue, Known, late
<1>7. ASSUME Drain \/ LoadTemplate \/ ResetStarts PROVE Known' \subseteq Known
  <2>1. Range(<< >>) = {}
    BY DEF Range
  <2>2. LoadTemplate => template' \subseteq loaded
    BY DEF LoadTemplate
  <2> QED BY <1>7, <2>1, <2>2 DEF Drain, LoadTemplate, ResetStarts, Known, late
<1>8. CASE \E a \in Attempts :
             \/ Begin(a) \/ Forgive(a) \/ SpendEnds(a) \/ Probe(a) \/ Unspent(a) \/ HandOffShed(a)
             \/ Verify(a) \/ SpendAborts(a) \/ CreateUnknown(a) \/ CreateFails(a) \/ Die(a)
             \/ Create(a) \/ Unlock(a) \/ Delete(a)
             \/ \E o \in Outpoints : SpendOne(a, o) \/ SpendOneFails(a, o) \/ LateSpend(a, o)
                                       \/ UnspendOne(a, o)
  <2>1. UNCHANGED <<assembly, lateSend>>
    <3>1. ASSUME NEW a \in Attempts,
                 \/ Begin(a) \/ Forgive(a) \/ SpendEnds(a) \/ Probe(a) \/ Unspent(a) \/ HandOffShed(a)
                 \/ Verify(a) \/ SpendAborts(a) \/ CreateUnknown(a) \/ CreateFails(a) \/ Die(a)
                 \/ Create(a) \/ Unlock(a) \/ Delete(a)
          PROVE  UNCHANGED <<assembly, lateSend>>
      BY <3>1 DEF Begin, Forgive, SpendEnds, Probe, Unspent, HandOffShed, Verify, SpendAborts, CreateUnknown,
                  CreateFails, Die, Create, Unlock, Delete, late
    <3>2. ASSUME NEW a \in Attempts, NEW o \in Outpoints,
                 SpendOne(a, o) \/ SpendOneFails(a, o) \/ LateSpend(a, o) \/ UnspendOne(a, o)
          PROVE  UNCHANGED <<assembly, lateSend>>
      BY <3>2 DEF SpendOne, SpendOneFails, LateSpend, UnspendOne, late
    <3> QED BY <1>8, <3>1, <3>2
  <2> QED BY <2>1 DEF Known, assembly
<1>9. CASE \/ UNCHANGED vars \/ Lift \/ \E q \in Txs : LateCreate(q)
  BY <1>9 DEF vars, Lift, LateCreate, Known, assembly, late
<1>10. \A a \in Attempts : at[a] = "hand" => TxOf[a] \in stored
  BY DEF Control, OneCreator, Creating
<1> QED
  BY <1>1, <1>2, <1>3, <1>4, <1>5, <1>6, <1>7, <1>8, <1>9, <1>10 DEF Next, Step, Assemble

\* A submission moves in a step of its own.
LEMMA Mover ==
  ASSUME TypeOK, [Next]_vars, NEW b \in Attempts, at'[b] # at[b]
  PROVE  \/ Begin(b) \/ SpendEnds(b) \/ Probe(b) \/ Unspent(b) \/ HandOffShed(b)
         \/ Verify(b) \/ CreateUnknown(b) \/ CreateFails(b) \/ Die(b)
         \/ Create(b) \/ Unlock(b) \/ Delete(b) \/ HandOff(b) \/ HandOffFails(b)
<1>1. ASSUME NEW a \in Attempts, NEW step, at' = [at EXCEPT ![a] = step] PROVE a = b
  BY <1>1 DEF TypeOK
<1>2. ASSUME NEW a \in Attempts,
             \/ Begin(a) \/ SpendEnds(a) \/ Probe(a) \/ Unspent(a) \/ HandOffShed(a)
             \/ Verify(a) \/ CreateUnknown(a) \/ CreateFails(a) \/ Die(a)
             \/ Create(a) \/ Unlock(a) \/ Delete(a) \/ HandOff(a) \/ HandOffFails(a)
      PROVE  a = b
  BY <1>1, <1>2 DEF Begin, SpendEnds, Probe, Unspent, HandOffShed, Verify, CreateUnknown, CreateFails,
       Die, Create, Unlock, Delete, HandOff, HandOffFails, Go, End
<1>3. ASSUME \/ \E a \in Attempts : SpendAborts(a) \/ Forgive(a)
             \/ \E a \in Attempts, o \in Outpoints : SpendOne(a, o) \/ SpendOneFails(a, o)
                                                    \/ LateSpend(a, o) \/ UnspendOne(a, o)
      PROVE  FALSE
  BY <1>3 DEF SpendAborts, Forgive, SpendOne, SpendOneFails, LateSpend, UnspendOne, calls
<1>4. ASSUME \/ Dequeue \/ LoadTemplate \/ Lift \/ Drain \/ ResetStarts \/ UNCHANGED vars
             \/ \E t \in Txs : ReadRecord(t) \/ LateCreate(t) \/ LateSend(t)
      PROVE  FALSE
  BY <1>4 DEF Dequeue, LoadTemplate, Lift, Drain, ResetStarts, ReadRecord, LateCreate, LateSend, vars, calls
<1> QED
  BY <1>2, <1>3, <1>4 DEF Next, Step, Assemble

\* How a submission gets where it is.
LEMMA Arrives ==
  ASSUME TypeOK, [Next]_vars, NEW b \in Attempts, at'[b] # at[b]
  PROVE  /\ at'[b] = "spend" => Begin(b)
         /\ at'[b] = "create" => SpendEnds(b)
         /\ at'[b] = "hand" => Create(b)
         /\ at'[b] = "unlock" => HandOff(b) \/ HandOffShed(b)
         /\ at'[b] = "delete" => HandOffShed(b)
         /\ at'[b] \in {"verify", "again"} => Delete(b) \/ Verify(b)
         /\ at'[b] = "probe" => SpendEnds(b)
         /\ at'[b] = "unspend" => Probe(b) \/ CreateFails(b) \/ Verify(b)
BY Mover DEF Begin, SpendEnds, Probe, Unspent, HandOffShed, Verify, CreateUnknown, CreateFails,
     Die, Create, Unlock, Delete, HandOff, HandOffFails, Go, End, TypeOK

\* A record that is being handed off is not touched.
LEMMA UntouchedStep ==
  ASSUME TypeOK, Control, Untouched, AssemblyStored, [Next]_vars
  PROVE  Untouched'
<1> SUFFICES ASSUME NEW b \in Attempts, at'[b] \in {"hand", "delete"}, TxOf[b] \notin contended'
             PROVE  /\ TxOf[b] \in locked'
                    /\ \A o \in Outs(TxOf[b]) : spender'[o] = NoTx
                    /\ TxOf[b] \notin Known'
  BY DEF Untouched, Outs
<1> DEFINE t == TxOf[b]
<1>a. t \in Txs \ Mined /\ t \notin contended
  BY HistoryGrows, CommitConstants
<1>1. CASE at[b] \in {"hand", "delete"}
  <2>1. /\ t \in locked /\ \A o \in Outs(t) : spender[o] = NoTx
        /\ t \notin Known /\ t \in stored
        /\ \A a \in Attempts : at[a] \in Creating /\ TxOf[a] = t => a = b
    BY <1>1, <1>a DEF Untouched, Control, OneCreator, Creating
  <2>2. t \in BusyTxs
    BY <1>1 DEF BusyTxs, Busy
  <2>3. t \notin Known'
    <3> SUFFICES ASSUME t \in Known' PROVE FALSE
      OBVIOUS
    <3>1. \E a \in Attempts : TxOf[a] = t /\ at[a] = "hand" /\ at'[a] \notin {"hand", "delete"}
      BY <2>1, <2>2, Learns
    <3> QED BY <2>1, <3>1 DEF Creating
  <2>4. t \in locked' /\ \A o \in Outs(t) : spender'[o] = NoTx
    <3>1. CASE UNCHANGED store
      BY <2>1, <3>1 DEF store
    <3>2. ASSUME NEW a \in Attempts, NEW o \in Outpoints, Spends(a, o)
          PROVE  t \in locked' /\ \A x \in Outs(t) : spender'[x] = NoTx
      <4>1. Creator[o] # t
        BY <2>2, <3>2 DEF Spends, Meddles
      <4> QED BY <2>1, <3>2, <4>1 DEF Spends, Take, Outs, TypeOK
    <3>3. ASSUME NEW a \in Attempts, NEW o \in Outpoints, Unspends(a, o)
          PROVE  t \in locked' /\ \A x \in Outs(t) : spender'[x] = NoTx
      BY <2>1, <3>3 DEF Unspends, Outs, TypeOK
    <3>4. ASSUME NEW q \in Txs, Creates(q)
          PROVE  t \in locked' /\ \A x \in Outs(t) : spender'[x] = NoTx
      BY <2>1, <3>4 DEF Creates, Put, Outs
    <3>5. ASSUME NEW a \in Attempts, Deletes(a) \/ Unlocks(a)
          PROVE  t \in locked' /\ \A x \in Outs(t) : spender'[x] = NoTx
      <4>1. TxOf[a] # t
        BY <2>1, <3>5 DEF Deletes, Unlocks, Creating
      <4> QED BY <2>1, <3>5, <4>1 DEF Deletes, Unlocks, Outs
    <3>6. ASSUME NEW T \in SUBSET Txs, Lifts(T)
          PROVE  t \in locked' /\ \A x \in Outs(t) : spender'[x] = NoTx
      BY <2>1, <3>6 DEF Lifts, Known
    <3> QED BY <3>1, <3>2, <3>3, <3>4, <3>5, <3>6, StoreSteps
  <2> QED BY <2>3, <2>4
<1>2. CASE at[b] \notin {"hand", "delete"}
  <2>1. Create(b) /\ at'[b] = "hand"
    BY <1>2, Arrives DEF HandOffShed
  <2>2. t \notin stored /\ Put(t) /\ UNCHANGED <<assembly, lateSend>>
    BY <2>1 DEF Create, End, late, TypeOK
  <2>3. t \notin Known'
    BY <1>a, <2>2 DEF AssemblyStored, Known, assembly
  <2> QED BY <2>2, <2>3 DEF Put, Outs
<1> QED BY <1>1, <1>2

\* What block assembly knows of is stored.
LEMMA AssemblyStep ==
  ASSUME TypeOK, Control, Untouched, AssemblyStored, [Next]_vars
  PROVE  AssemblyStored'
<1> SUFFICES ASSUME NEW t \in Known', t \notin contended' PROVE t \in stored'
  BY DEF AssemblyStored
<1>1. t \notin contended
  BY HistoryGrows
<1>2. CASE t \notin Known
  BY <1>2, Learns
<1>3. CASE t \in Known
  <2>1. t \in stored
    BY <1>1, <1>3 DEF AssemblyStored
  <2>2. \A a \in Attempts : Deletes(a) => TxOf[a] # t
    BY <1>1, <1>3 DEF Untouched, Deletes
  <2> QED BY <2>1, <2>2, StoreSteps DEF Spends, Unspends, Creates, Put, Deletes, Unlocks, Lifts, store
<1> QED BY <1>2, <1>3

\* Mined transactions stay stored and unlocked.
LEMMA MinedStep ==
  ASSUME TypeOK, Control, MinedStored, [Next]_vars
  PROVE  MinedStored'
<1>1. \A a \in Attempts : TxOf[a] \notin Mined
  BY CommitConstants
<1> QED BY <1>1, StoreSteps DEF MinedStored, Spends, Unspends, Creates, Put, Deletes, Unlocks, Lifts, store

-----------------------------------------------------------------------------
(***************************************************************************)
(* Who holds the outputs.                                                  *)
(***************************************************************************)

\* A transaction that holds an input goes on holding it, unless somebody gives
\* its spends back.
LEMMA HoldsStays ==
  ASSUME TypeOK, Control, Untouched, [Next]_vars,
         NEW t \in Txs, NEW o \in Outpoints, HoldsInput(t, o),
         \A a \in Attempts : Unspends(a, o) /\ TxOf[a] = t => t \in GivenAway'
  PROVE  HoldsInput(t, o)'
<1> SUFFICES ASSUME Creator[o] \notin contended'
             PROVE  /\ t \notin GivenAway' => spender'[o] = t /\ Creator[o] \in stored'
                    /\ t \notin FromBlock => Creator[o] \in stored' \ locked'
  BY DEF HoldsInput, FromBlock
<1>a. Creator[o] \notin contended /\ GivenAway \subseteq GivenAway' /\ t # NoTx
  BY HistoryGrows, CommitConstants DEF GivenAway
<1>b. /\ t \notin GivenAway => spender[o] = t /\ Creator[o] \in stored
      /\ t \notin FromBlock => Creator[o] \in stored \ locked
  BY <1>a DEF HoldsInput
<1>c. ASSUME NEW a \in Attempts, Deletes(a), TxOf[a] = Creator[o]
      PROVE  t \in GivenAway /\ t \in FromBlock
  <2>1. TxOf[a] \in locked /\ spender[o] = NoTx
    BY <1>a, <1>c DEF Untouched, Deletes, Outs
  <2> QED BY <1>a, <1>b, <1>c, <2>1
<1>1. ASSUME t \notin GivenAway' PROVE spender'[o] = t /\ Creator[o] \in stored'
  <2>1. spender[o] = t /\ Creator[o] \in stored /\ spender \in [Outpoints -> Txs \cup {NoTx}]
    BY <1>1, <1>a, <1>b DEF TypeOK
  <2>2. CASE UNCHANGED store
    BY <2>1, <2>2 DEF store
  <2>3. ASSUME NEW a \in Attempts, NEW x \in Outpoints, Spends(a, x)
        PROVE  spender'[o] = t /\ Creator[o] \in stored'
    <3>1. CASE x = o
      BY <1>a, <2>1, <2>3, <3>1, RefusalType DEF Spends, Take
    <3>2. CASE x # o
      BY <2>1, <2>3, <3>2 DEF Spends, Take
    <3> QED BY <3>1, <3>2
  <2>4. ASSUME NEW a \in Attempts, NEW x \in Outpoints, Unspends(a, x)
        PROVE  spender'[o] = t /\ Creator[o] \in stored'
    <3>1. x # o
      BY <1>1, <2>1, <2>4 DEF Unspends
    <3> QED BY <2>1, <2>4, <3>1 DEF Unspends
  <2>5. ASSUME NEW q \in Txs, Creates(q) PROVE spender'[o] = t /\ Creator[o] \in stored'
    BY <2>1, <2>5 DEF Creates, Put, Outs
  <2>6. ASSUME NEW a \in Attempts, Deletes(a) \/ Unlocks(a)
        PROVE  spender'[o] = t /\ Creator[o] \in stored'
    BY <1>1, <1>a, <1>c, <2>1, <2>6 DEF Deletes, Unlocks, Outs
  <2>7. ASSUME NEW T \in SUBSET Txs, Lifts(T) PROVE spender'[o] = t /\ Creator[o] \in stored'
    BY <2>1, <2>7 DEF Lifts
  <2> QED BY <2>2, <2>3, <2>4, <2>5, <2>6, <2>7, StoreSteps
<1>2. ASSUME t \notin FromBlock PROVE Creator[o] \in stored' \ locked'
  <2>1. Creator[o] \in stored \ locked /\ \A a \in Attempts : Deletes(a) => TxOf[a] # Creator[o]
    BY <1>2, <1>b, <1>c
  <2> QED BY <2>1, StoreSteps DEF Spends, Unspends, Creates, Put, Deletes, Unlocks, Lifts, store
<1> QED BY <1>1, <1>2

\* A spend that is reported as made was made.
LEMMA SpendProgress ==
  ASSUME TypeOK, [Next]_vars, NEW b \in Attempts, at[b] = "spend", at'[b] = "spend", seen'[b] = {},
         TxOf[b] \notin stored
  PROVE  /\ seen[b] = {}
         /\ \A o \in todo[b] \ todo'[b] : SpendOne(b, o) /\ Refusal(b, o) = {}
<1>a. seen \in [Attempts -> SUBSET {"missing", "lock", "spent", "error"}]
      /\ todo \in [Attempts -> SUBSET Outpoints]
  BY DEF TypeOK
<1>0. ASSUME NEW a \in Attempts, NEW o \in Outpoints, SpendOneFails(a, o)
      PROVE  a # b /\ seen'[b] = seen[b] /\ todo'[b] = todo[b]
  BY <1>0, <1>a DEF SpendOneFails
<1>1. ASSUME NEW a \in Attempts, NEW o \in Outpoints, SpendOne(a, o)
      PROVE  /\ seen[b] = {}
             /\ \A x \in todo[b] \ todo'[b] : x = o /\ a = b /\ Refusal(b, x) = {}
  <2>1. CASE a = b
    <3>1. seen'[b] = seen[b] \cup Refusal(b, o) /\ todo'[b] = todo[b] \ {o}
      BY <1>1, <1>a, <2>1 DEF SpendOne
    <3> QED BY <2>1, <3>1
  <2>2. CASE a # b
    BY <1>1, <1>a, <2>2 DEF SpendOne
  <2> QED BY <2>1, <2>2
<1>2. CASE \E a \in Attempts, o \in Outpoints : LateSpend(a, o) \/ UnspendOne(a, o)
  BY <1>2 DEF LateSpend, UnspendOne, calls, TypeOK
<1>3. ASSUME NEW a \in Attempts, SpendAborts(a)
      PROVE  a # b /\ seen'[b] = seen[b] /\ todo'[b] = todo[b]
  BY <1>3, <1>a DEF SpendAborts
<1>4. ASSUME NEW a \in Attempts,
             \/ Begin(a) \/ SpendEnds(a) \/ Probe(a) \/ Unspent(a) \/ HandOffShed(a)
             \/ Verify(a) \/ CreateUnknown(a) \/ CreateFails(a) \/ Die(a)
             \/ Create(a) \/ Unlock(a) \/ Delete(a) \/ HandOff(a) \/ HandOffFails(a)
      PROVE  seen' = seen /\ todo'[b] = todo[b]
  <2>1. a # b
    BY <1>4 DEF Begin, SpendEnds, Probe, Unspent, HandOffShed, Verify, CreateUnknown, CreateFails,
       Die, Create, Unlock, Delete, HandOff, HandOffFails, Go, End, TypeOK
  <2> QED BY <1>4, <2>1 DEF Begin, SpendEnds, Probe, Unspent, HandOffShed, Verify, CreateUnknown,
       CreateFails, Die, Create, Unlock, Delete, HandOff, HandOffFails, TypeOK
<1>5. ASSUME \/ Dequeue \/ LoadTemplate \/ Lift \/ Drain \/ ResetStarts \/ UNCHANGED vars
             \/ \E t \in Txs : ReadRecord(t) \/ LateCreate(t) \/ LateSend(t)
      PROVE  seen' = seen /\ todo' = todo
  BY <1>5 DEF Dequeue, LoadTemplate, Lift, Drain, ResetStarts, ReadRecord, LateCreate, LateSend, vars, calls
<1>6. ASSUME NEW a \in Attempts, Forgive(a) PROVE seen'[b] = seen[b] /\ todo' = todo
  BY <1>6, <1>a DEF Forgive
<1> QED
  BY <1>6, <1>0, <1>1, <1>2, <1>3, <1>4, <1>5 DEF Next, Step, Assemble

\* A creation that is given up.
LEMMA GivenUp ==
  ASSUME [Next]_vars, NEW t \in lateCreate' \ lateCreate
  PROVE  \E a \in Attempts : (CreateUnknown(a) \/ CreateFails(a)) /\ TxOf[a] = t
<1>1. ASSUME NEW a \in Attempts, CreateUnknown(a) \/ CreateFails(a) PROVE TxOf[a] = t
  BY <1>1 DEF CreateUnknown, CreateFails
<1>2. ASSUME NEW a \in Attempts,
             \/ Begin(a) \/ Forgive(a) \/ SpendEnds(a) \/ Probe(a) \/ Unspent(a) \/ HandOffShed(a)
             \/ Verify(a) \/ Die(a) \/ SpendAborts(a)
             \/ Create(a) \/ Unlock(a) \/ Delete(a) \/ HandOff(a) \/ HandOffFails(a)
             \/ \E o \in Outpoints : SpendOne(a, o) \/ SpendOneFails(a, o) \/ LateSpend(a, o)
                                       \/ UnspendOne(a, o)
      PROVE  FALSE
  BY <1>2 DEF Begin, Forgive, SpendEnds, Probe, Unspent, HandOffShed, Verify, Die, SpendAborts,
       Create, Unlock, Delete, HandOff, HandOffFails, SpendOne, SpendOneFails, LateSpend, UnspendOne, late
<1>3. ASSUME \/ Dequeue \/ LoadTemplate \/ Lift \/ Drain \/ ResetStarts \/ UNCHANGED vars
             \/ \E q \in Txs : ReadRecord(q) \/ LateCreate(q) \/ LateSend(q)
      PROVE  FALSE
  BY <1>3 DEF Dequeue, LoadTemplate, Lift, Drain, ResetStarts, ReadRecord, LateCreate, LateSend, vars, late
<1> QED
  BY <1>1, <1>2, <1>3 DEF Next, Step, Assemble

Holding == SpentSoFar /\ AboutToCreate /\ LateToCreate /\ StoredHolds /\ GivesBack

\* An uncontended transaction that is stored, or may still be, holds its inputs.
LEMMA HoldingStep ==
  ASSUME TypeOK, Control, Untouched, Holding, [Next]_vars
  PROVE  Holding'
<1> USE DEF Holding
<1>a. /\ \A a \in Attempts : TxOf[a] \in Txs \ Mined
      /\ \A t \in Txs : Ins[t] \subseteq Outpoints
      /\ contended \subseteq contended' /\ GivenAway \subseteq GivenAway'
      /\ stored \subseteq Txs /\ lateCreate \subseteq Txs
  BY HistoryGrows, CommitConstants DEF TypeOK, GivenAway
\* One that an active submission works on, alone.
<1>b. ASSUME NEW b \in Attempts, Active(b), TxOf[b] \notin contended'
      PROVE  \A a \in Attempts : Active(a) /\ TxOf[a] = TxOf[b] => a = b
  BY <1>a, <1>b DEF Control, Alone
<1>c. ASSUME NEW t \in stored, t \notin stored' PROVE \E a \in Attempts : at[a] = "delete" /\ TxOf[a] = t
  BY <1>c, StoreSteps DEF Spends, Unspends, Creates, Put, Deletes, Unlocks, Lifts, store
<1>d. ASSUME NEW t \in stored', t \notin stored PROVE Creates(t)
  BY <1>d, StoreSteps DEF Spends, Unspends, Creates, Put, Deletes, Unlocks, Lifts, store
<1>1. SpentSoFar'
  <2> SUFFICES ASSUME NEW b \in Attempts, at'[b] = "spend", TxOf[b] \notin contended', seen'[b] = {},
                      TxOf[b] \notin stored', NEW o \in Ins[TxOf[b]] \ todo'[b]
               PROVE  HoldsInput(TxOf[b], o)'
    BY DEF SpentSoFar
  <2>1. at[b] = "spend"
    <3> SUFFICES ASSUME at[b] # "spend" PROVE FALSE
      OBVIOUS
    <3>1. Begin(b)
      BY Arrives
    <3>2. todo'[b] = Ins[TxOf[b]]
      BY <3>1 DEF Begin, End, TypeOK
    <3> QED BY <3>2
  <2>2. o \in Outpoints /\ TxOf[b] \in Txs
    BY <1>a
  <2>5. TxOf[b] \notin stored
    BY <1>b, <1>c, <2>1 DEF Active
  <2>3. CASE o \notin todo[b]
    <3>1. HoldsInput(TxOf[b], o)
      BY <1>a, <2>1, <2>3, <2>5, SpendProgress DEF SpentSoFar
    <3>2. \A a \in Attempts : Unspends(a, o) => TxOf[a] # TxOf[b]
      BY <1>b, <2>1 DEF Unspends, Active
    <3> QED BY <2>2, <3>1, <3>2, HoldsStays
  <2>4. CASE o \in todo[b]
    <3>1. SpendOne(b, o) /\ Refusal(b, o) = {}
      BY <2>1, <2>4, <2>5, SpendProgress
    <3>2. /\ spender'[o] = TxOf[b] /\ UNCHANGED <<stored, locked>>
          /\ Creator[o] \in stored
          /\ Creator[o] \notin locked \/ b \in InBlock
      BY <2>2, <3>1, RefusalType DEF SpendOne, Take, TypeOK
    <3> QED BY <3>2 DEF HoldsInput, FromBlock
  <2> QED BY <2>3, <2>4
<1>2. AboutToCreate'
  <2> SUFFICES ASSUME NEW b \in Attempts, at'[b] = "create", TxOf[b] \notin contended',
                      TxOf[b] \notin stored'
               PROVE  Holds(TxOf[b])'
    BY DEF AboutToCreate
  <2>1. CASE at[b] = "create"
    <3>1. TxOf[b] \notin stored
      BY <1>b, <1>c, <2>1 DEF Active
    <3>2. Holds(TxOf[b])
      BY <1>a, <2>1, <3>1 DEF AboutToCreate
    <3>3. \A a \in Attempts, o \in Outpoints : Unspends(a, o) => TxOf[a] # TxOf[b]
      BY <1>b, <2>1 DEF Unspends, Active
    <3> QED BY <1>a, <3>2, <3>3, HoldsStays DEF Holds
  <2>2. CASE at[b] # "create"
    <3>1. SpendEnds(b)
      BY <2>2, Arrives
    <3>2. at[b] = "spend" /\ todo[b] = {} /\ seen[b] = {} /\ UNCHANGED <<store, history>>
      BY <3>1 DEF SpendEnds, Go, End, TypeOK
    <3>3. Holds(TxOf[b])
      BY <1>a, <3>2 DEF SpentSoFar, Holds, store
    <3> QED BY <3>2, <3>3 DEF Holds, HoldsInput, GivenAway, store, history
  <2> QED BY <2>1, <2>2
<1>3. LateToCreate'
  <2> SUFFICES ASSUME NEW t \in lateCreate', t \notin contended', t \notin stored'
               PROVE  Holds(t)'
    BY DEF LateToCreate
  <2>1. CASE t \in lateCreate
    <3>1. \A a \in Attempts : Active(a) /\ TxOf[a] = t => at[a] = "unspend" /\ t \in indoubt
      BY <1>a, <2>1 DEF Control, Alone
    <3>2. t \notin stored
      BY <1>c, <3>1 DEF Active
    <3>3. Holds(t)
      BY <1>a, <2>1, <3>2 DEF LateToCreate
    <3>4. \A a \in Attempts, o \in Outpoints : Unspends(a, o) /\ TxOf[a] = t => t \in GivenAway'
      BY <1>a, <3>1 DEF Unspends, Active, GivenAway
    <3> QED BY <1>a, <2>1, <3>3, <3>4, HoldsStays DEF Holds
  <2>2. CASE t \notin lateCreate
    <3>1. PICK a \in Attempts : (CreateUnknown(a) \/ CreateFails(a)) /\ TxOf[a] = t
      BY <2>2, GivenUp
    <3>2. Holds(t) /\ UNCHANGED <<store, contended>>
      BY <1>a, <3>1 DEF CreateUnknown, CreateFails, AboutToCreate, store, history
    <3> QED BY <1>a, <3>2 DEF Holds, HoldsInput, store
  <2> QED BY <2>1, <2>2
<1>4. StoredHolds'
  <2> SUFFICES ASSUME NEW t \in stored', t \notin Mined, t \notin contended'
               PROVE  Holds(t)'
    BY DEF StoredHolds
  <2>1. CASE t \in stored
    <3>1. Holds(t)
      BY <1>a, <2>1 DEF StoredHolds
    <3>2. \A a \in Attempts, o \in Outpoints : Unspends(a, o) /\ TxOf[a] = t => t \in GivenAway'
      BY <1>a, <2>1 DEF Unspends, GivesBack
    <3> QED BY <1>a, <2>1, <3>1, <3>2, HoldsStays DEF Holds
  <2>2. CASE t \notin stored
    <3>1. Creates(t)
      BY <1>d, <2>2
    <3>2. Holds(t)
      BY <1>a, <3>1 DEF Creates, AboutToCreate, LateToCreate
    <3>3. \A a \in Attempts, o \in Outpoints : ~Unspends(a, o)
      BY <2>2 DEF Unspends
    <3> QED BY <1>a, <3>1, <3>2, <3>3, HoldsStays DEF Holds, Creates
  <2> QED BY <2>1, <2>2
<1>5. GivesBack'
  <2> SUFFICES ASSUME NEW b \in Attempts, at'[b] = "unspend", TxOf[b] \notin contended' \cup GivenAway'
               PROVE  TxOf[b] \notin stored'
    BY DEF GivesBack
  <2>1. CASE at[b] = "unspend"
    <3>1. TxOf[b] \notin stored
      BY <1>a, <2>1 DEF GivesBack
    <3>2. ~Creates(TxOf[b])
      BY <1>a, <1>b, <2>1 DEF Creates, Control, Alone, Active, GivenAway
    <3> QED BY <1>d, <3>1, <3>2
  <2>2. CASE at[b] # "unspend"
    <3>1. Probe(b) \/ CreateFails(b) \/ Verify(b)
      BY <2>2, Arrives
    <3>2. stored' = stored
      BY <3>1 DEF Probe, CreateFails, Verify, store
    <3>3. TxOf[b] \notin stored
      BY <3>1 DEF Probe, CreateFails, Verify, End, GivenAway, TypeOK
    <3> QED BY <3>2, <3>3
  <2> QED BY <2>1, <2>2
<1> QED BY <1>1, <1>2, <1>3, <1>4, <1>5

-----------------------------------------------------------------------------
(***************************************************************************)
(* The order of the template.                                              *)
(***************************************************************************)

\* Nothing is taken from the queue.
QueueGrows ==
  /\ Len(queue') >= Len(queue)
  /\ \A i \in 1..Len(queue) : queue'[i] = queue[i]

\* What a step does to the queue and the template.
LEMMA AssemblySteps ==
  ASSUME TypeOK, [Next]_vars
  PROVE  \/ Dequeue \/ Drain
         \/ /\ UNCHANGED queue
            /\ \/ ResetStarts \/ LoadTemplate \/ Lift \/ \E t \in Txs : ReadRecord(t)
               \/ UNCHANGED <<template, reset, unread, loaded, lifting>>
         \/ /\ UNCHANGED <<template, reset, unread, loaded, lifting>>
            /\ \E t \in Txs :
                 /\ queue' = Append(queue, t)
                 /\ t \in lateSend \/ \E a \in Attempts : TxOf[a] = t /\ at[a] = "hand"
<1>1. ASSUME NEW a \in Attempts,
             \/ Begin(a) \/ Forgive(a) \/ SpendEnds(a) \/ Probe(a) \/ Unspent(a) \/ HandOffShed(a)
             \/ Verify(a) \/ SpendAborts(a) \/ CreateUnknown(a) \/ CreateFails(a) \/ Die(a)
             \/ Create(a) \/ Unlock(a) \/ Delete(a) \/ HandOffFails(a)
      PROVE  UNCHANGED assembly
  BY <1>1 DEF Begin, Forgive, SpendEnds, Probe, Unspent, HandOffShed, Verify, SpendAborts, CreateUnknown,
              CreateFails, Die, Create, Unlock, Delete, HandOffFails
<1>2. ASSUME NEW a \in Attempts, NEW o \in Outpoints,
             SpendOne(a, o) \/ SpendOneFails(a, o) \/ LateSpend(a, o) \/ UnspendOne(a, o)
      PROVE  UNCHANGED assembly
  BY <1>2 DEF SpendOne, SpendOneFails, LateSpend, UnspendOne
<1>3. ASSUME UNCHANGED vars \/ \E t \in Txs : LateCreate(t) PROVE UNCHANGED assembly
  BY <1>3 DEF vars, LateCreate
<1>4. ASSUME UNCHANGED assembly PROVE UNCHANGED <<queue, template, reset, unread, loaded, lifting>>
  BY <1>4 DEF assembly
<1>5. ASSUME NEW a \in Attempts, HandOff(a)
      PROVE  /\ UNCHANGED <<template, reset, unread, loaded, lifting>>
             /\ queue' = Append(queue, TxOf[a]) /\ TxOf[a] \in Txs /\ at[a] = "hand"
  BY <1>5, CommitConstants DEF HandOff
<1>6. ASSUME NEW t \in Txs, LateSend(t)
      PROVE  /\ UNCHANGED <<template, reset, unread, loaded, lifting>> /\ t \in lateSend
             /\ queue' = Append(queue, t) \/ UNCHANGED queue
  BY <1>6 DEF LateSend
<1>7. ASSUME ResetStarts \/ LoadTemplate \/ Lift \/ \E t \in Txs : ReadRecord(t)
      PROVE  UNCHANGED queue
  BY <1>7 DEF ResetStarts, LoadTemplate, Lift, ReadRecord
<1> QED BY <1>1, <1>2, <1>3, <1>4, <1>5, <1>6, <1>7 DEF Next, Step, Assemble

\* Block assembly never learns of a mined transaction.
LEMMA UnminedStep ==
  ASSUME TypeOK, Control, KnownUnmined, [Next]_vars
  PROVE  KnownUnmined'
<1>1. \A a \in Attempts : TxOf[a] \notin Mined
  BY CommitConstants
<1>2. Known' \cap Mined = {}
  BY <1>1, Learns DEF KnownUnmined
<1>3. unread' \cap Mined = {}
  <2>1. unread' \subseteq unread \/ unread' = Txs \ Mined
    BY AssemblySteps DEF Dequeue, Drain, ResetStarts, LoadTemplate, Lift, ReadRecord
  <2> QED BY <2>1 DEF KnownUnmined
<1> QED BY <1>2, <1>3 DEF KnownUnmined

\* A stored transaction that the template has, or is going to have, keeps its
\* place as long as it is stored.
LEMMA GivenStays ==
  ASSUME TypeOK, [Next]_vars, NEW p \in Txs \ Mined, p \in stored, p \in stored',
         NEW n \in 0..Len(queue), Given(p, n)
  PROVE  \/ Dequeue /\ Given(p, n - 1)'
         \/ Drain /\ Given(p, 0)'
         \/ QueueGrows /\ Given(p, n)'
<1>a. queue \in Seq(Txs) /\ Len(queue) \in Nat
  BY DEF TypeOK
<1>b. unheld \subseteq unheld'
  BY HistoryGrows
<1>1. CASE Dequeue
  <2>1. /\ reset = "none" /\ reset' = "none" /\ template' = template \cup {Head(queue)}
        /\ queue # << >> /\ queue' = Tail(queue)
    BY <1>1 DEF Dequeue
  <2>2. /\ Len(queue) >= 1 /\ Len(queue') = Len(queue) - 1 /\ Head(queue) = queue[1]
        /\ \A i \in 1..Len(queue') : queue'[i] = queue[i + 1]
    BY <1>a, <2>1
  <2>3. Given(p, n - 1)'
    <3>1. CASE p \in unheld \cup template
      BY <1>b, <2>1, <3>1 DEF Given
    <3>2. ASSUME NEW i \in 1..n, queue[i] = p PROVE Given(p, n - 1)'
      <4>1. CASE i = 1
        BY <2>1, <2>2, <3>2, <4>1 DEF Given
      <4>2. CASE i # 1
        <5>1. i - 1 \in 1..(n - 1) /\ i - 1 \in 1..Len(queue') /\ (i - 1) + 1 = i
          BY <1>a, <2>2, <4>2
        <5>2. queue'[i - 1] = p
          BY <2>2, <3>2, <5>1
        <5> QED BY <5>1, <5>2 DEF Given
      <4> QED BY <4>1, <4>2
    <3> QED BY <2>1, <3>1, <3>2 DEF Given
  <2> QED BY <1>1, <2>3
<1>2. CASE Drain
  <2>1. Range(queue) = {queue[i] : i \in 1..Len(queue)}
    BY <1>a, RangeOf
  <2>2. p \in unheld \cup template \cup Range(queue)
    BY <1>a, <1>2, <2>1 DEF Given, Drain
  <2>3. p \in unheld' \cup template' /\ reset' # "read"
    BY <1>2, <2>2 DEF Drain
  <2> QED BY <1>2, <2>3 DEF Given
<1>3. CASE UNCHANGED queue /\ (ResetStarts \/ LoadTemplate \/ Lift \/ \E t \in Txs : ReadRecord(t))
  <2>1. QueueGrows
    BY <1>3, <1>a DEF QueueGrows
  <2>2. CASE \E i \in 1..n : queue[i] = p
    BY <1>3, <2>1, <2>2 DEF Given
  <2>3. CASE p \in unheld
    BY <1>b, <2>1, <2>3 DEF Given
  <2>4. CASE ResetStarts
    BY <2>1, <2>4 DEF ResetStarts, Given
  <2>5. CASE p \in (IF reset = "read" THEN loaded \cup (unread \cap stored) ELSE template)
             /\ (LoadTemplate \/ Lift)
    BY <2>1, <2>5 DEF LoadTemplate, Lift, Given
  <2>6. ASSUME NEW t \in Txs, ReadRecord(t),
               p \in (IF reset = "read" THEN loaded \cup (unread \cap stored) ELSE template)
        PROVE  Given(p, n)'
    BY <2>6 DEF ReadRecord, Given, store
  <2> QED BY <1>3, <2>1, <2>2, <2>3, <2>4, <2>5, <2>6 DEF Given
<1>4. ASSUME UNCHANGED <<template, reset, unread, loaded, lifting>>, QueueGrows
      PROVE  Given(p, n)'
  <2>1. CASE \E i \in 1..n : queue[i] = p
    <3>1. PICK i \in 1..n : queue[i] = p
      BY <2>1
    <3>2. i \in 1..Len(queue)
      BY <1>a
    <3>3. queue'[i] = p
      BY <1>4, <3>1, <3>2 DEF QueueGrows
    <3> QED BY <3>3 DEF Given
  <2>2. CASE p \in unheld \cup (IF reset = "read" THEN loaded \cup (unread \cap stored) ELSE template)
    BY <1>4, <1>b, <2>2 DEF Given
  <2> QED BY <2>1, <2>2 DEF Given
<1>5. ASSUME NEW t \in Txs, queue' = Append(queue, t) \/ UNCHANGED queue PROVE QueueGrows
  <2>1. Len(Append(queue, t)) = Len(queue) + 1 /\ \A i \in 1..Len(queue) : Append(queue, t)[i] = queue[i]
    BY <1>a
  <2> QED BY <1>5, <1>a, <2>1 DEF QueueGrows
<1> QED BY <1>1, <1>2, <1>3, <1>4, <1>5, AssemblySteps

Ordered == UnlockedIsGiven /\ LiftingGiven /\ QueuedAfterParents /\ TemplateHasParents

\* A transaction that is unlocked, and its children with it, are in order.
LEMMA OrderedStep ==
  ASSUME TypeOK, Control, Untouched, AssemblyStored, KnownUnmined, StoredHolds, Ordered, [Next]_vars
  PROVE  Ordered'
<1> USE DEF Ordered
<1>a. /\ \A a \in Attempts : TxOf[a] \in Txs \ Mined
      /\ contended \subseteq contended' /\ unheld \subseteq unheld'
      /\ stored \subseteq Txs /\ locked \subseteq stored
      /\ \A t \in Txs : Ins[t] \subseteq Outpoints /\ Parents(t) \subseteq Txs
  BY HistoryGrows, CommitConstants DEF TypeOK, Parents
<1>q. queue \in Seq(Txs) /\ Len(queue) \in Nat /\ queue' \in Seq(Txs) /\ Len(queue') \in Nat
  BY TypeStep DEF TypeOK
<1>d. ASSUME Dequeue
      PROVE  /\ Len(queue') = Len(queue) - 1 /\ Len(queue) >= 1 /\ Head(queue) = queue[1]
             /\ \A i \in 1..Len(queue') : queue'[i] = queue[i + 1]
  BY <1>q, <1>d DEF Dequeue
\* An unlocked record is not deleted.
<1>b. ASSUME NEW p \in stored \ locked, p \notin contended PROVE p \in stored'
  BY <1>b, StoreSteps DEF Spends, Unspends, Creates, Put, Deletes, Unlocks, Lifts, store, Untouched
<1>c. ASSUME NEW p \in stored, p \in stored', p \notin Mined, Given(p, Len(queue))
      PROVE  Given(p, Len(queue))'
  <2>0. PICK n \in 0..Len(queue) : n = Len(queue)
    BY <1>q
  <2>1. p \in Txs \ Mined /\ Given(p, n)
    BY <1>a, <1>c, <2>0 DEF Given
  <2>2. CASE Dequeue /\ Given(p, n - 1)'
    BY <1>d, <2>0, <2>2 DEF Given
  <2>3. CASE Drain /\ Given(p, 0)'
    BY <2>3 DEF Drain, Given
  <2>4. CASE QueueGrows /\ Given(p, n)'
    BY <1>q, <2>0, <2>4 DEF QueueGrows, Given
  <2> QED BY <1>c, <2>1, <2>2, <2>3, <2>4, GivenStays
<1>1. ASSUME NEW p \in stored', p \notin locked' \cup Mined \cup contended'
      PROVE  Given(p, Len(queue))'
  <2>1. p \in stored
    BY <1>1, StoreSteps DEF Spends, Unspends, Creates, Put, Deletes, Unlocks, Lifts, store
  <2>2. CASE p \notin locked
    BY <1>1, <1>a, <1>c, <2>1, <2>2 DEF UnlockedIsGiven
  <2>3. CASE p \in locked
    <3>1. \/ \E a \in Attempts : at[a] = "unlock" /\ TxOf[a] = p
          \/ reset = "lift" /\ p \in lifting
      BY <1>1, <2>3, StoreSteps DEF Spends, Unspends, Creates, Put, Deletes, Unlocks, Lifts, store
    <3>2. Given(p, Len(queue))
      BY <1>1, <1>a, <3>1 DEF UnlockedIsGiven, LiftingGiven, Given
    <3> QED BY <1>1, <1>c, <2>1, <3>2
  <2> QED BY <2>2, <2>3
<1>2. ASSUME NEW b \in Attempts, at'[b] = "unlock", TxOf[b] \notin contended'
      PROVE  Given(TxOf[b], Len(queue))'
  <2>1. CASE at[b] = "unlock"
    <3>1. /\ TxOf[b] \in stored
          /\ \A a \in Attempts : at[a] = "delete" => TxOf[a] # TxOf[b]
      BY <2>1 DEF Control, OneCreator, Creating
    <3>2. TxOf[b] \in stored'
      BY <3>1, StoreSteps DEF Spends, Unspends, Creates, Put, Deletes, Unlocks, Lifts, store
    <3> QED BY <1>2, <1>a, <1>c, <2>1, <3>1, <3>2 DEF UnlockedIsGiven
  <2>2. CASE at[b] # "unlock"
    <3>1. CASE HandOff(b)
      <4>1. queue' = Append(queue, TxOf[b]) /\ TxOf[b] \in Txs
        BY <1>a, <3>1 DEF HandOff
      <4>2. Len(queue') = Len(queue) + 1 /\ queue'[Len(queue) + 1] = TxOf[b]
        BY <1>q, <4>1
      <4>3. Len(queue) + 1 \in 1..Len(queue')
        BY <1>q, <4>2
      <4> QED BY <4>2, <4>3 DEF Given
    <3>2. CASE HandOffShed(b)
      <4>1. TxOf[b] \in unheld'
        BY <1>2, <3>2 DEF HandOffShed, Go, TypeOK
      <4> QED BY <4>1 DEF Given
    <3> QED BY <1>2, <2>2, <3>1, <3>2, Arrives
  <2> QED BY <2>1, <2>2
<1>3. UnlockedIsGiven'
  BY <1>1, <1>2 DEF UnlockedIsGiven
<1>4. LiftingGiven'
  <2>1. CASE Dequeue \/ Drain
    BY <2>1, <1>a DEF Dequeue, Drain, LiftingGiven
  <2>2. CASE ResetStarts \/ LoadTemplate \/ Lift
    BY <2>2 DEF ResetStarts, LoadTemplate, Lift, LiftingGiven
  <2>3. ASSUME NEW t \in Txs, ReadRecord(t) PROVE LiftingGiven'
    BY <2>3, <1>a DEF ReadRecord, LiftingGiven
  <2>4. CASE UNCHANGED <<template, reset, unread, loaded, lifting>>
    BY <2>4, <1>a DEF LiftingGiven
  <2> QED BY <2>1, <2>2, <2>3, <2>4, AssemblySteps
\* The parents of what is stored and not contended were unlocked before it.
<1>5. ASSUME NEW t \in stored \ (Mined \cup FromBlock), t \notin contended',
             NEW p \in Parents(t), p \notin Mined \cup contended'
      PROVE  p \in stored \ locked /\ p \in stored' /\ p \in Txs \ Mined /\ Given(p, Len(queue))
  <2>1. PICK o \in Ins[t] : Creator[o] = p
    BY DEF Parents
  <2>2. t \notin contended /\ p \notin contended
    BY <1>5, <1>a
  <2>3. HoldsInput(t, o)
    BY <1>5, <2>2 DEF StoredHolds, Holds
  <2>4. p \in stored \ locked
    BY <1>5, <2>1, <2>2, <2>3 DEF HoldsInput
  <2> QED BY <1>5, <1>a, <1>b, <2>2, <2>4 DEF UnlockedIsGiven
<1>6. ASSUME NEW t \in Known, t \notin contended' PROVE t \in stored \ Mined
  BY <1>6, <1>a DEF AssemblyStored, KnownUnmined
<1>7. QueuedAfterParents'
  <2> SUFFICES ASSUME NEW i \in 1..Len(queue'), queue'[i] \notin FromBlock \cup contended',
                      NEW p \in Parents(queue'[i]), p \notin Mined \cup contended'
               PROVE  Given(p, i - 1)'
    BY DEF QueuedAfterParents, FromBlock, Parents
  <2>a. \A j \in 1..Len(queue) : queue[j] \in Known
    BY <1>q, RangeOf DEF Known
  <2>b. ASSUME NEW j \in 1..Len(queue), queue[j] = queue'[i] PROVE Given(p, j - 1) /\ p \in stored /\ p \in stored'
    <3>1. queue[j] \in stored \ (Mined \cup FromBlock)
      BY <1>6, <2>a, <2>b
    <3>2. p \in stored /\ p \in stored' /\ p \notin Mined
      BY <1>5, <2>b, <3>1
    <3>3. p \notin contended /\ queue[j] \notin contended
      BY <1>a, <2>b
    <3> QED BY <2>b, <3>2, <3>3 DEF QueuedAfterParents
  <2>1. CASE Dequeue
    <3>1. i + 1 \in 1..Len(queue) /\ queue[i + 1] = queue'[i]
      BY <1>q, <1>d, <2>1
    <3>2. Given(p, i) /\ p \in stored /\ p \in stored'
      BY <2>b, <3>1
    <3>3. i \in 0..Len(queue) /\ i \in Nat /\ p \in Txs \ Mined
      BY <1>a, <1>q, <3>1, <3>2
    <3>4. \/ Dequeue /\ Given(p, i - 1)'
          \/ Drain /\ Given(p, 0)'
          \/ QueueGrows /\ Given(p, i)'
      BY <3>2, <3>3, GivenStays
    <3>5. ~Drain /\ ~QueueGrows
      BY <1>q, <1>d, <2>1 DEF Dequeue, Drain, QueueGrows
    <3> QED BY <3>4, <3>5
  <2>2. CASE Drain
    BY <2>2 DEF Drain
  <2>3. CASE ~Dequeue /\ ~Drain
    <3>1. CASE i \in 1..Len(queue) /\ queue'[i] = queue[i]
      <4>1. Given(p, i - 1) /\ p \in stored /\ p \in stored'
        BY <2>b, <3>1
      <4>2. i - 1 \in 0..Len(queue) /\ p \in Txs \ Mined
        BY <1>a, <1>q, <3>1, <4>1
      <4> QED BY <2>3, <4>1, <4>2, GivenStays
    <3>2. ASSUME NEW t \in Txs, queue' = Append(queue, t), i = Len(queue) + 1,
                 t \in lateSend \/ \E a \in Attempts : TxOf[a] = t /\ at[a] = "hand"
          PROVE  Given(p, i - 1)'
      <4>1. queue'[i] = t
        BY <1>q, <3>2
      <4>2. t \in stored \ (Mined \cup FromBlock) /\ t \notin contended'
        BY <1>6, <1>a, <3>2, <4>1 DEF Known, Control, OneCreator, Creating
      <4>3. p \in stored /\ p \in stored' /\ p \in Txs \ Mined /\ Given(p, Len(queue))
        BY <1>5, <4>1, <4>2
      <4>4. i - 1 = Len(queue) /\ i - 1 \in 0..Len(queue) /\ Given(p, i - 1)
        BY <1>q, <3>2, <4>3 DEF Given
      <4> QED BY <2>3, <4>3, <4>4, GivenStays
    <3>3. ASSUME NEW t \in Txs, queue' = Append(queue, t)
          PROVE  i = Len(queue) + 1 \/ (i \in 1..Len(queue) /\ queue'[i] = queue[i])
      BY <1>q, <3>3
    <3>4. ASSUME queue' = queue PROVE i \in 1..Len(queue) /\ queue'[i] = queue[i]
      BY <3>4
    <3> QED BY <2>3, <3>1, <3>2, <3>3, <3>4, AssemblySteps
  <2> QED BY <2>1, <2>2, <2>3
<1>8. TemplateHasParents'
  <2> SUFFICES ASSUME NEW t \in template', t \notin FromBlock \cup contended',
                      NEW p \in Parents(t), p \notin Mined \cup contended'
               PROVE  p \in template' \cup unheld'
    BY DEF TemplateHasParents, FromBlock, Parents
  <2>1. CASE t \in template /\ template \subseteq template'
    BY <2>1, <1>a DEF TemplateHasParents
  <2>2. CASE Dequeue /\ t = Head(queue)
    <3>1. 1 \in 1..Len(queue) /\ queue[1] = t /\ reset = "none"
      BY <1>q, <1>d, <2>2 DEF Dequeue
    <3>2. Given(p, 0)
      BY <1>a, <3>1 DEF QueuedAfterParents
    <3> QED BY <1>a, <2>2, <3>1, <3>2 DEF Given, Dequeue
  <2>3. CASE LoadTemplate
    <3>1. PICK failing \in SUBSET Txs, rejected \in SUBSET loaded, skipped \in SUBSET loaded :
            /\ Sifted(rejected, skipped, failing)
            /\ template' = loaded \ (rejected \cup skipped)
            /\ unheld' = unheld \cup rejected \cup skipped
      BY <2>3 DEF LoadTemplate
    <3>2. ~Unfit(t, rejected, failing) /\ ~OutOfOrder(t)
      BY <3>1 DEF Sifted
    <3>3. p \in Found /\ p \notin rejected
      BY <3>2 DEF Unfit, OutOfOrder
    <3> QED BY <3>1, <3>3 DEF Found
  <2>4. \/ t \in template /\ template \subseteq template'
        \/ Dequeue /\ t = Head(queue)
        \/ LoadTemplate
    BY AssemblySteps DEF Dequeue, Drain, ResetStarts, Lift, ReadRecord
  <2> QED BY <2>1, <2>2, <2>3, <2>4
<1> QED BY <1>3, <1>4, <1>7, <1>8

-----------------------------------------------------------------------------
(***************************************************************************)
(* Spends without a record.                                                *)
(***************************************************************************)

\* What a step does to the books of a submission.
LEMMA BookSteps ==
  ASSUME TypeOK, [Next]_vars, NEW a \in Attempts
  PROVE  \/ UNCHANGED <<todo[a], got[a], gone[a], seen[a]>>
         \/ \E o \in Outpoints : SpendOne(a, o) \/ SpendOneFails(a, o) \/ UnspendOne(a, o)
         \/ SpendAborts(a) \/ Forgive(a)
         \/ Begin(a) /\ at'[a] = "spend" /\ todo'[a] = Ins[TxOf[a]] /\ UNCHANGED <<got[a], gone[a], seen[a]>>
         \/ /\ at[a] \notin {"spend", "unspend"} /\ at'[a] = "unspend" /\ todo'[a] = got[a]
            /\ UNCHANGED <<got[a], gone[a], seen[a]>>
<1>a. /\ at \in [Attempts -> Places] /\ todo \in [Attempts -> SUBSET Outpoints]
      /\ got \in [Attempts -> SUBSET Outpoints] /\ gone \in [Attempts -> SUBSET Outpoints]
      /\ seen \in [Attempts -> SUBSET {"missing", "lock", "spent", "error"}]
  BY DEF TypeOK
<1>1. ASSUME NEW b \in Attempts \ {a}, NEW o \in Outpoints,
             SpendOne(b, o) \/ SpendOneFails(b, o) \/ UnspendOne(b, o)
      PROVE  UNCHANGED <<todo[a], got[a], gone[a], seen[a]>>
  BY <1>1, <1>a DEF SpendOne, SpendOneFails, UnspendOne
<1>2. ASSUME NEW b \in Attempts \ {a}, SpendAborts(b) \/ Forgive(b)
      PROVE  UNCHANGED <<todo[a], got[a], gone[a], seen[a]>>
  BY <1>2, <1>a DEF SpendAborts, Forgive
<1>3. ASSUME NEW b \in Attempts, NEW o \in Outpoints, LateSpend(b, o)
      PROVE  UNCHANGED <<todo[a], got[a], gone[a], seen[a]>>
  BY <1>3 DEF LateSpend, calls
<1>4. ASSUME NEW b \in Attempts, Begin(b)
      PROVE  \/ UNCHANGED <<todo[a], got[a], gone[a], seen[a]>>
             \/ /\ Begin(a) /\ at'[a] = "spend" /\ todo'[a] = Ins[TxOf[a]]
                /\ UNCHANGED <<got[a], gone[a], seen[a]>>
  BY <1>4, <1>a DEF Begin, Go
<1>5. ASSUME NEW b \in Attempts, Probe(b) \/ Verify(b) \/ CreateFails(b)
      PROVE  \/ UNCHANGED <<todo[a], got[a], gone[a], seen[a]>>
             \/ /\ at[a] \notin {"spend", "unspend"} /\ at'[a] = "unspend" /\ todo'[a] = got[a]
                /\ UNCHANGED <<got[a], gone[a], seen[a]>>
  <2>1. UNCHANGED <<got[a], gone[a], seen[a]>>
    BY <1>5 DEF Probe, Verify, CreateFails
  <2>2. CASE UNCHANGED todo
    BY <2>1, <2>2
  <2>3. CASE todo' = [todo EXCEPT ![b] = got[b]] /\ Go(b, "unspend") /\ at[b] \notin {"spend", "unspend"}
    BY <1>a, <2>1, <2>3 DEF Go
  <2> QED BY <1>5, <2>2, <2>3 DEF Probe, Verify, CreateFails
<1>6. ASSUME NEW b \in Attempts,
             \/ SpendEnds(b) \/ Unspent(b) \/ HandOffShed(b) \/ CreateUnknown(b) \/ Die(b)
             \/ Create(b) \/ Unlock(b) \/ Delete(b) \/ HandOff(b) \/ HandOffFails(b)
      PROVE  UNCHANGED <<todo[a], got[a], gone[a], seen[a]>>
  BY <1>6 DEF SpendEnds, Unspent, HandOffShed, CreateUnknown, Die, Create, Unlock, Delete, HandOff,
       HandOffFails
<1>7. ASSUME \/ Dequeue \/ LoadTemplate \/ Lift \/ Drain \/ ResetStarts \/ UNCHANGED vars
             \/ \E t \in Txs : ReadRecord(t) \/ LateCreate(t) \/ LateSend(t)
      PROVE  UNCHANGED <<todo[a], got[a], gone[a], seen[a]>>
  BY <1>7 DEF Dequeue, LoadTemplate, Lift, Drain, ResetStarts, ReadRecord, LateCreate, LateSend, vars, calls
<1> QED BY <1>1, <1>2, <1>3, <1>4, <1>5, <1>6, <1>7 DEF Next, Step, Assemble

\* How the books of a submission grow.
LEMMA BooksGrow ==
  ASSUME TypeOK, [Next]_vars, NEW a \in Attempts
  PROVE  /\ seen[a] \ {"missing"} \subseteq seen'[a] /\ got[a] \subseteq got'[a]
         /\ at[a] # "spend" => got'[a] = got[a] /\ seen'[a] = seen[a]
         /\ at[a] = "unspend" => todo'[a] = todo[a] \/ \E o \in Outpoints : UnspendOne(a, o)
<1>a. /\ todo \in [Attempts -> SUBSET Outpoints]
      /\ got \in [Attempts -> SUBSET Outpoints]
      /\ seen \in [Attempts -> SUBSET {"missing", "lock", "spent", "error"}]
  BY DEF TypeOK
<1>1. ASSUME NEW o \in Outpoints, SpendOne(a, o)
      PROVE  at[a] = "spend" /\ seen[a] \subseteq seen'[a] /\ got[a] \subseteq got'[a]
  BY <1>1, <1>a DEF SpendOne
<1>4. ASSUME Forgive(a)
      PROVE  at[a] = "spend" /\ seen[a] \ {"missing"} \subseteq seen'[a] /\ got[a] \subseteq got'[a]
  BY <1>4, <1>a DEF Forgive
<1>2. ASSUME SpendAborts(a) \/ \E o \in Outpoints : SpendOneFails(a, o)
      PROVE  at[a] = "spend" /\ seen[a] \subseteq seen'[a] /\ got[a] \subseteq got'[a]
  BY <1>2, <1>a DEF SpendAborts, SpendOneFails
<1>3. ASSUME NEW o \in Outpoints, UnspendOne(a, o)
      PROVE  seen'[a] = seen[a] /\ got'[a] = got[a]
  BY <1>3 DEF UnspendOne
<1> QED BY <1>1, <1>2, <1>3, <1>4, BookSteps DEF Begin

\* Without a fault now, there was none before and this step is none.
LEMMA FaultFree ==
  ASSUME TypeOK, [Next]_vars, faults' = 0
  PROVE  faults = 0 /\ ~Fault
<1>1. faults' = faults \/ Fault
  <2>1. ASSUME NEW a \in Attempts,
               \/ Begin(a) \/ Forgive(a) \/ SpendEnds(a) \/ Probe(a) \/ Unspent(a) \/ HandOffShed(a)
               \/ Verify(a) \/ SpendAborts(a) \/ CreateUnknown(a) \/ CreateFails(a) \/ Die(a)
               \/ Create(a) \/ Unlock(a) \/ Delete(a) \/ HandOff(a) \/ HandOffFails(a)
        PROVE  faults' = faults \/ Fault
    BY <2>1 DEF Begin, Forgive, SpendEnds, Probe, Unspent, HandOffShed, Verify, SpendAborts, CreateUnknown,
                CreateFails, Die, Create, Unlock, Delete, HandOff, HandOffFails
  <2>2. ASSUME NEW a \in Attempts, NEW o \in Outpoints,
               SpendOne(a, o) \/ SpendOneFails(a, o) \/ LateSpend(a, o) \/ UnspendOne(a, o)
        PROVE  faults' = faults \/ Fault
    BY <2>2 DEF SpendOne, SpendOneFails, LateSpend, UnspendOne
  <2>3. ASSUME \/ Dequeue \/ LoadTemplate \/ Lift \/ Drain \/ ResetStarts \/ UNCHANGED vars
               \/ \E t \in Txs : ReadRecord(t) \/ LateCreate(t) \/ LateSend(t)
        PROVE  faults' = faults \/ Fault
    BY <2>3 DEF Dequeue, LoadTemplate, Lift, Drain, ResetStarts, ReadRecord, LateCreate, LateSend, vars
  <2> QED BY <2>1, <2>2, <2>3 DEF Next, Step, Assemble
<1>2. faults \in Nat
  BY DEF TypeOK
<1> QED BY <1>1, <1>2 DEF Fault

\* Nor was there an excuse.
LEMMA RegularBack ==
  ASSUME TypeOK, [Next]_vars, Regular'
  PROVE  Regular /\ ~Fault
<1>1. faults = 0 /\ ~Fault
  BY FaultFree DEF Regular
<1>2. \A a \in Attempts : seen[a] \ {"missing"} \subseteq seen'[a]
  BY BooksGrow
<1>3. \A a \in Attempts : ~Excused(a)
  BY <1>2 DEF Regular, Excused
<1> QED BY <1>1, <1>3 DEF Regular

\* Submissions spend, and are written down for, inputs of their own transaction.
LEMMA TheirsStep ==
  ASSUME TypeOK, Control, SpendsTheirs, TheirsToSpend, [Next]_vars
  PROVE  SpendsTheirs' /\ TheirsToSpend'
<1>a. /\ todo \in [Attempts -> SUBSET Outpoints] /\ got \in [Attempts -> SUBSET Outpoints]
      /\ gone \in [Attempts -> SUBSET Outpoints]
      /\ seen \in [Attempts -> SUBSET {"missing", "lock", "spent", "error"}]
      /\ spender \in [Outpoints -> Txs \cup {NoTx}] /\ lateSpend \subseteq Attempts \X Outpoints
      /\ \A a \in Attempts : TxOf[a] \in Txs
  BY CommitConstants DEF TypeOK
<1>1. ASSUME NEW a \in Attempts
      PROVE  /\ todo'[a] \cup got'[a] \cup gone'[a] \subseteq Ins[TxOf[a]]
             /\ gone'[a] # {} => "missing" \in seen'[a]
  <2> DEFINE Goal == /\ todo'[a] \cup got'[a] \cup gone'[a] \subseteq Ins[TxOf[a]]
                     /\ gone'[a] # {} => "missing" \in seen'[a]
  <2>1. todo[a] \cup got[a] \cup gone[a] \subseteq Ins[TxOf[a]] /\ (gone[a] # {} => "missing" \in seen[a])
    BY DEF TheirsToSpend
  <2>2. ASSUME NEW o \in Outpoints, SpendOne(a, o) PROVE Goal
    <3>1. /\ todo'[a] = todo[a] \ {o} /\ seen'[a] = seen[a] \cup Refusal(a, o) /\ o \in todo[a]
          /\ got'[a] \subseteq got[a] \cup {o}
          /\ gone'[a] = gone[a] \/ (gone'[a] = gone[a] \cup {o} /\ Refusal(a, o) = {"missing"})
      BY <1>a, <2>2 DEF SpendOne
    <3> QED BY <2>1, <3>1
  <2>3. ASSUME NEW o \in Outpoints, SpendOneFails(a, o) \/ UnspendOne(a, o) PROVE Goal
    BY <1>a, <2>1, <2>3 DEF SpendOneFails, UnspendOne
  <2>4. ASSUME SpendAborts(a) PROVE Goal
    BY <1>a, <2>1, <2>4 DEF SpendAborts
  <2>5. ASSUME Forgive(a) PROVE Goal
    BY <1>a, <2>1, <2>5 DEF Forgive
  <2> QED BY <2>1, <2>2, <2>3, <2>4, <2>5, BookSteps
<1>2. ASSUME NEW x \in lateSpend' PROVE x[2] \in Ins[TxOf[x[1]]]
  <2>1. CASE x \in lateSpend
    BY <2>1 DEF TheirsToSpend
  <2>2. CASE x \notin lateSpend
    <3>1. PICK a \in Attempts : SpendAborts(a)
      <4>1. ASSUME NEW a \in Attempts,
                   \/ Begin(a) \/ Forgive(a) \/ SpendEnds(a) \/ Probe(a) \/ Unspent(a) \/ HandOffShed(a)
                   \/ Verify(a) \/ CreateUnknown(a) \/ CreateFails(a) \/ Die(a)
                   \/ Create(a) \/ Unlock(a) \/ Delete(a) \/ HandOff(a) \/ HandOffFails(a)
            PROVE  lateSpend' = lateSpend
        BY <4>1 DEF Begin, Forgive, SpendEnds, Probe, Unspent, HandOffShed, Verify, CreateUnknown,
                    CreateFails, Die, Create, Unlock, Delete, HandOff, HandOffFails, late
      <4>2. ASSUME NEW a \in Attempts, NEW o \in Outpoints,
                   SpendOne(a, o) \/ SpendOneFails(a, o) \/ LateSpend(a, o) \/ UnspendOne(a, o)
            PROVE  lateSpend' \subseteq lateSpend
        BY <4>2 DEF SpendOne, SpendOneFails, LateSpend, UnspendOne, late
      <4>3. ASSUME \/ Dequeue \/ LoadTemplate \/ Lift \/ Drain \/ ResetStarts \/ UNCHANGED vars
                   \/ \E t \in Txs : ReadRecord(t) \/ LateCreate(t) \/ LateSend(t)
            PROVE  lateSpend' = lateSpend
        BY <4>3 DEF Dequeue, LoadTemplate, Lift, Drain, ResetStarts, ReadRecord, LateCreate, LateSend,
                    vars, late
      <4> QED BY <1>2, <2>2, <4>1, <4>2, <4>3 DEF Next, Step, Assemble
    <3>2. x \in {a} \X todo[a]
      BY <1>2, <2>2, <3>1 DEF SpendAborts
    <3> QED BY <3>2 DEF TheirsToSpend
  <2> QED BY <2>1, <2>2
<1>3. ASSUME NEW o \in Outpoints, spender'[o] # NoTx PROVE o \in Ins[spender'[o]]
  <2>1. CASE spender'[o] = spender[o]
    BY <1>3, <2>1 DEF SpendsTheirs
  <2>2. ASSUME NEW a \in Attempts, NEW x \in Outpoints, Spends(a, x), spender'[o] # spender[o]
        PROVE  o \in Ins[spender'[o]]
    <3>1. x = o /\ spender'[o] = TxOf[a]
      BY <1>a, <2>2 DEF Spends, Take
    <3>2. o \in Ins[TxOf[a]]
      BY <2>2, <3>1 DEF Spends, TheirsToSpend
    <3> QED BY <3>1, <3>2
  <2>3. ASSUME NEW a \in Attempts, NEW x \in Outpoints, Unspends(a, x)
        PROVE  spender'[o] \in {NoTx, spender[o]}
    BY <1>a, <2>3 DEF Unspends
  <2>4. ASSUME \/ \E t \in Txs : Creates(t)
               \/ \E a \in Attempts : Deletes(a) \/ Unlocks(a)
               \/ \E T \in SUBSET Txs : Lifts(T)
               \/ UNCHANGED store
        PROVE  spender'[o] \in {NoTx, spender[o]}
    BY <1>a, <2>4 DEF Creates, Put, Deletes, Unlocks, Lifts, store
  <2> QED BY <1>3, <2>1, <2>2, <2>3, <2>4, StoreSteps
<1> QED BY <1>1, <1>2, <1>3 DEF SpendsTheirs, TheirsToSpend

\* Whoever owes an output goes on owing it, while its transaction has no record.
LEMMA OwesStays ==
  ASSUME TypeOK, [Next]_vars, Regular', NEW a \in Attempts, NEW o \in Outpoints,
         Owes(a, o), TxOf[a] \notin stored, TxOf[a] \notin stored',
         spender[o] = TxOf[a], spender'[o] = TxOf[a]
  PROVE  Owes(a, o)'
<1>a. /\ ~Fault /\ Regular
  BY RegularBack
<1>b. /\ at \in [Attempts -> Places] /\ todo \in [Attempts -> SUBSET Outpoints]
      /\ got \in [Attempts -> SUBSET Outpoints]
      /\ spender \in [Outpoints -> Txs \cup {NoTx}] /\ TxOf[a] # NoTx
  BY CommitConstants DEF TypeOK
<1>1. got[a] \subseteq got'[a]
  BY BooksGrow
<1>2. CASE at'[a] = at[a]
  <2>1. CASE at[a] # "unspend"
    BY <1>1, <1>2, <2>1 DEF Owes
  <2>2. CASE at[a] = "unspend" /\ todo'[a] = todo[a]
    BY <1>2, <2>2 DEF Owes
  <2>3. ASSUME NEW x \in Outpoints, at[a] = "unspend", UnspendOne(a, x) PROVE Owes(a, o)'
    <3>1. x # o
      BY <1>a, <1>b, <2>3 DEF UnspendOne
    <3>2. o \in todo'[a]
      BY <1>b, <2>3, <3>1 DEF UnspendOne, Owes
    <3> QED BY <1>2, <2>3, <3>2 DEF Owes
  <2> QED BY <2>1, <2>2, <2>3, BooksGrow
<1>3. CASE at'[a] # at[a]
  <2>1. \/ SpendEnds(a) \/ Probe(a) \/ Unspent(a) \/ HandOffShed(a)
        \/ Verify(a) \/ CreateUnknown(a) \/ CreateFails(a) \/ Die(a) \/ Begin(a)
        \/ Create(a) \/ Unlock(a) \/ Delete(a) \/ HandOff(a) \/ HandOffFails(a)
    BY <1>3, Mover
  <2>2. CASE SpendEnds(a)
    <3>1. ~KeepsSpends(a)
      BY <1>a, <2>2 DEF SpendEnds, KeepsSpends, Owes, Regular, Excused
    <3> QED BY <1>1, <1>b, <2>2, <3>1 DEF SpendEnds, Go, Owes
  <2>3. CASE Probe(a) \/ Verify(a)
    BY <1>a, <1>b, <2>3 DEF Probe, Verify, Go, Owes
  <2>4. CASE Unspent(a)
    BY <2>4 DEF Unspent, Owes
  <2>5. CASE Create(a)
    BY <2>5 DEF Create, Put
  <2> QED BY <1>a, <2>1, <2>2, <2>3, <2>4, <2>5
          DEF CreateUnknown, CreateFails, Die, HandOffFails, Begin, Unlock, Delete, HandOff, HandOffShed, Owes
<1> QED BY <1>2, <1>3

\* In regular runs a spend without a record has a submission to give it back.
LEMMA OwedStep ==
  ASSUME TypeOK, Control, SpendsTheirs, TheirsToSpend, Owed, [Next]_vars
  PROVE  Owed'
<1> SUFFICES ASSUME Regular'
             PROVE  /\ lateSpend' = {} /\ lateCreate' = {} /\ lateSend' = {}
                    /\ \A o \in Outpoints : spender'[o] \notin stored' \cup {NoTx} =>
                         \E a \in Attempts : TxOf[a] = spender'[o] /\ Owes(a, o)'
                    /\ \A a \in Attempts :
                         /\ Complete(a)'
                         /\ at'[a] \in Creating \cup {"create", "verify", "again"} => got'[a] = Ins[TxOf[a]]
  BY DEF Owed, Creating
<1>r. Regular /\ ~Fault
  BY RegularBack
<1>o. /\ lateSpend = {} /\ lateCreate = {} /\ lateSend = {}
      /\ \A o \in Outpoints : spender[o] \notin stored \cup {NoTx} =>
           \E a \in Attempts : TxOf[a] = spender[o] /\ Owes(a, o)
      /\ \A a \in Attempts :
           /\ Complete(a)
           /\ at[a] \in Creating \cup {"create", "verify", "again"} => got[a] = Ins[TxOf[a]]
  BY <1>r DEF Owed
<1>t. /\ at \in [Attempts -> Places] /\ todo \in [Attempts -> SUBSET Outpoints]
      /\ got \in [Attempts -> SUBSET Outpoints] /\ gone \in [Attempts -> SUBSET Outpoints]
      /\ seen \in [Attempts -> SUBSET {"missing", "lock", "spent", "error"}]
      /\ spender \in [Outpoints -> Txs \cup {NoTx}] /\ stored \subseteq Txs
      /\ \A a \in Attempts : TxOf[a] \in Txs
      /\ NoTx \notin Txs
  BY CommitConstants DEF TypeOK
<1>1. lateSpend' = {} /\ lateCreate' = {} /\ lateSend' = {}
  <2>1. ASSUME NEW a \in Attempts,
               \/ Begin(a) \/ Forgive(a) \/ SpendEnds(a) \/ Probe(a) \/ Unspent(a) \/ HandOffShed(a)
               \/ Verify(a) \/ Create(a) \/ Unlock(a) \/ Delete(a) \/ HandOff(a)
        PROVE  UNCHANGED <<lateSpend, lateCreate, lateSend>>
    BY <2>1 DEF Begin, Forgive, SpendEnds, Probe, Unspent, HandOffShed, Verify, Create, Unlock, Delete, HandOff, late
  <2>2. ASSUME NEW a \in Attempts, NEW o \in Outpoints, SpendOne(a, o) \/ UnspendOne(a, o)
        PROVE  UNCHANGED <<lateSpend, lateCreate, lateSend>>
    BY <2>2 DEF SpendOne, UnspendOne, late
  <2>3. ASSUME \/ Dequeue \/ LoadTemplate \/ Lift \/ Drain \/ ResetStarts \/ UNCHANGED vars
               \/ \E t \in Txs : ReadRecord(t)
        PROVE  UNCHANGED <<lateSpend, lateCreate, lateSend>>
    BY <2>3 DEF Dequeue, LoadTemplate, Lift, Drain, ResetStarts, ReadRecord, vars, late
  <2>4. ASSUME \/ \E a \in Attempts :
                    SpendAborts(a) \/ CreateUnknown(a) \/ CreateFails(a) \/ Die(a) \/ HandOffFails(a)
               \/ \E a \in Attempts, o \in Outpoints : SpendOneFails(a, o) \/ LateSpend(a, o)
               \/ \E t \in Txs : LateCreate(t) \/ LateSend(t)
        PROVE  FALSE
    BY <1>r, <1>o, <2>4 DEF SpendAborts, CreateUnknown, CreateFails, Die, HandOffFails, SpendOneFails,
       LateSpend, LateCreate, LateSend
  <2> QED BY <1>o, <2>1, <2>2, <2>3, <2>4 DEF Next, Step, Assemble
<1>2. ASSUME NEW o \in Outpoints, spender'[o] \notin stored' \cup {NoTx}
      PROVE  \E a \in Attempts : TxOf[a] = spender'[o] /\ Owes(a, o)'
  <2>a. ASSUME spender'[o] = spender[o], spender[o] \notin stored
        PROVE  \E a \in Attempts : TxOf[a] = spender'[o] /\ Owes(a, o)'
    BY <1>2, <1>o, <2>a, OwesStays
  <2>1. CASE spender'[o] = spender[o] /\ spender[o] \in stored
    <3>0. spender[o] \in stored \ stored'
      BY <1>2, <2>1
    <3>1. PICK b \in Attempts : Deletes(b) /\ TxOf[b] = spender[o]
      <4>1. PICK b \in Attempts : Deletes(b)
        BY <3>0, StoreSteps DEF Spends, Unspends, Creates, Put, Unlocks, Lifts, store
      <4> QED BY <3>0, <4>1 DEF Deletes
    <3>2. got[b] = Ins[TxOf[b]] /\ o \in Ins[TxOf[b]]
      BY <1>o, <1>2, <2>1, <3>1 DEF Deletes, Creating, SpendsTheirs
    <3>3. got[b] \subseteq got'[b] /\ at'[b] = "verify"
      BY <3>1, BooksGrow DEF Deletes
    <3> QED BY <2>1, <3>1, <3>2, <3>3 DEF Owes
  <2>2. CASE spender'[o] # spender[o]
    <3>1. PICK b \in Attempts, x \in Outpoints : Spends(b, x)
      BY <1>2, <1>t, <2>2, StoreSteps DEF Unspends, Creates, Put, Deletes, Unlocks, Lifts, store
    <3>2. x = o /\ Refusal(b, o) = {} /\ spender'[o] = TxOf[b]
      BY <1>t, <2>2, <3>1 DEF Spends, Take
    <3>3. SpendOne(b, o) /\ at[b] = "spend"
      BY <1>r, <1>o, <3>1, <3>2 DEF Spends, SpendOne, SpendOneFails, LateSpend
    <3>4. o \in got'[b] /\ at'[b] = "spend"
      BY <1>t, <3>2, <3>3 DEF SpendOne
    <3> QED BY <3>2, <3>4 DEF Owes
  <2> QED BY <1>2, <2>a, <2>1, <2>2
<1>3. ASSUME NEW a \in Attempts PROVE Complete(a)'
  <2> SUFFICES ASSUME at'[a] = "spend", seen'[a] \subseteq {"missing"},
                      seen'[a] = {} \/ todo'[a] \cup gone'[a] # {}
               PROVE  got'[a] \cup todo'[a] \cup gone'[a] = Ins[TxOf[a]]
    BY DEF Complete
  <2>t. got[a] \cup todo[a] \cup gone[a] \subseteq Ins[TxOf[a]] /\ (gone[a] # {} => "missing" \in seen[a])
    BY DEF TheirsToSpend
  <2>1. CASE at[a] # "spend"
    <3>1. Begin(a)
      BY <2>1, Arrives
    <3>2. todo'[a] = Ins[TxOf[a]] /\ got' = got /\ gone' = gone
      BY <1>t, <3>1 DEF Begin, End
    <3> QED BY <3>2, <2>t
  <2>2. CASE at[a] = "spend"
    <3>0. ASSUME seen[a] \subseteq {"missing"}, seen[a] = {} \/ todo[a] \cup gone[a] # {}
          PROVE  got[a] \cup todo[a] \cup gone[a] = Ins[TxOf[a]]
      BY <1>o, <2>2, <3>0 DEF Complete
    <3>1. ASSUME NEW o \in Outpoints, SpendOne(a, o)
          PROVE  got'[a] \cup todo'[a] \cup gone'[a] = Ins[TxOf[a]]
      <4>1. o \in todo[a] /\ seen'[a] = seen[a] \cup Refusal(a, o) /\ todo'[a] = todo[a] \ {o}
        BY <1>t, <3>1 DEF SpendOne
      <4>2. Refusal(a, o) \in {{}, {"missing"}}
        BY <4>1, RefusalType
      <4>3. \/ got'[a] = got[a] \cup {o} /\ gone'[a] = gone[a]
            \/ got'[a] = got[a] /\ gone'[a] = gone[a] \cup {o}
        BY <1>t, <3>1, <4>2 DEF SpendOne
      <4>4. got[a] \cup todo[a] \cup gone[a] = Ins[TxOf[a]]
        BY <3>0, <4>1
      <4> QED BY <4>1, <4>3, <4>4
    <3>2. ASSUME Forgive(a) PROVE got'[a] \cup todo'[a] \cup gone'[a] = Ins[TxOf[a]]
      <4>1. /\ todo[a] = {} /\ todo'[a] = {} /\ gone'[a] = {} /\ gone[a] # {}
            /\ \/ got'[a] = got[a] \cup gone[a] /\ seen'[a] = seen[a] \ {"missing"}
               \/ seen'[a] = seen[a]
        BY <1>t, <3>2 DEF Forgive
      <4>2. got'[a] = got[a] \cup gone[a] /\ seen[a] \subseteq {"missing"}
        BY <2>t, <4>1
      <4> QED BY <3>0, <4>1, <4>2
    <3>3. CASE UNCHANGED <<todo[a], got[a], gone[a], seen[a]>>
      BY <3>0, <3>3
    <3> QED BY <1>r, <2>2, <3>1, <3>2, <3>3, BookSteps DEF SpendOneFails, SpendAborts, UnspendOne, Begin
  <2> QED BY <2>1, <2>2
<1>4. ASSUME NEW a \in Attempts, at'[a] = "create"
      PROVE  got'[a] = Ins[TxOf[a]]
  <2>1. CASE at[a] = "create"
    BY <1>o, <2>1, BooksGrow
  <2>2. CASE at[a] # "create"
    <3>1. SpendEnds(a)
      BY <1>4, <2>2, Arrives
    <3>2. at[a] = "spend" /\ todo[a] = {} /\ gone[a] = {} /\ seen[a] = {} /\ UNCHANGED got
      BY <1>4, <1>t, <3>1 DEF SpendEnds, Go, End
    <3> QED BY <1>o, <3>2 DEF Complete
  <2> QED BY <2>1, <2>2
<1>5. ASSUME NEW a \in Attempts, at'[a] \in Creating \cup {"verify", "again"}
      PROVE  got'[a] = Ins[TxOf[a]]
  <2>1. CASE at[a] \in Creating \cup {"verify", "again"}
    BY <1>o, <2>1, BooksGrow DEF Creating
  <2>2. CASE at[a] \notin Creating \cup {"verify", "again"}
    <3>1. Create(a) /\ at'[a] = "hand"
      BY <1>5, <2>2, Arrives DEF Creating, HandOff, HandOffShed, Delete, Verify
    <3>2. at[a] = "create" /\ TxOf[a] \notin stored /\ got' = got
      BY <1>t, <3>1 DEF Create, End
    <3> QED BY <1>o, <3>2
  <2> QED BY <2>1, <2>2
<1> QED BY <1>1, <1>2, <1>3, <1>4, <1>5

-----------------------------------------------------------------------------
(***************************************************************************)
(* The theorems.                                                           *)
(***************************************************************************)

\* The inductive invariant holds always.
LEMMA Inductive == Spec => []IInv
<1>1. Init => IInv
  <2> SUFFICES ASSUME Init PROVE IInv
    OBVIOUS
  <2>1. TypeOK
    BY CommitConstants DEF Init, TypeOK, Places
  <2>2. \A a \in Attempts : at[a] = "new" /\ todo[a] = {} /\ got[a] = {} /\ gone[a] = {}
    BY DEF Init
  <2>3. queue = << >> /\ Len(queue) = 0 /\ Range(queue) = {}
    BY DEF Init, Range
  <2>4. /\ stored = Mined /\ locked = {} /\ \A o \in Outpoints : spender[o] = NoTx
        /\ lateSpend = {} /\ lateCreate = {} /\ lateSend = {}
        /\ template = {} /\ reset = "none" /\ unread = {} /\ loaded = {} /\ lifting = {}
    BY DEF Init
  <2>5. OneCreator /\ LateIsDone /\ Alone /\ Untouched /\ AssemblyStored /\ MinedStored /\ KnownUnmined
    BY <2>2, <2>3, <2>4 DEF OneCreator, LateIsDone, Alone, Active, Creating, Untouched, AssemblyStored,
       MinedStored, KnownUnmined, Known
  <2>6. SpentSoFar /\ AboutToCreate /\ LateToCreate /\ StoredHolds /\ GivesBack
    BY <2>2, <2>4 DEF SpentSoFar, AboutToCreate, LateToCreate, StoredHolds, GivesBack
  <2>7. UnlockedIsGiven /\ LiftingGiven /\ QueuedAfterParents /\ TemplateHasParents
    BY <2>2, <2>3, <2>4 DEF UnlockedIsGiven, LiftingGiven, QueuedAfterParents, TemplateHasParents
  <2>8. SpendsTheirs /\ TheirsToSpend /\ Owed
    BY <2>2, <2>4 DEF SpendsTheirs, TheirsToSpend, Owed, Complete, Creating
  <2> QED BY <2>1, <2>5, <2>6, <2>7, <2>8 DEF IInv
<1>2. IInv /\ [Next]_vars => IInv'
  <2> SUFFICES ASSUME IInv, [Next]_vars PROVE IInv'
    OBVIOUS
  <2>1. TypeOK /\ Control /\ Untouched /\ AssemblyStored /\ Holding /\ Ordered /\ KnownUnmined
        /\ MinedStored /\ SpendsTheirs /\ TheirsToSpend /\ Owed /\ StoredHolds
    BY DEF IInv, Control, Holding, Ordered
  <2>2. TypeOK' /\ Control'
    BY <2>1, TypeStep, ControlStep
  <2>3. Untouched' /\ AssemblyStored' /\ MinedStored' /\ KnownUnmined'
    BY <2>1, UntouchedStep, AssemblyStep, MinedStep, UnminedStep
  <2>4. Holding' /\ Ordered'
    BY <2>1, HoldingStep, OrderedStep
  <2>5. SpendsTheirs' /\ TheirsToSpend' /\ Owed'
    BY <2>1, TheirsStep, OwedStep
  <2> QED BY <2>2, <2>3, <2>4, <2>5 DEF IInv, Control, Holding, Ordered
<1> QED BY <1>1, <1>2, PTL DEF Spec

\* Whatever fails, is given up or arrives late, a record that one party at a
\* time works on owns every output it spends (rollbackPartialSpends,
\* decideRollback, unwindShed), for any transactions and any number of
\* submissions, faults and resets.  Excepted are those whose Create was reported
\* to have failed while the record was there, or came after all.
THEOREM RecordsOwn == Spec => []RecordOwnsInputs
<1>1. IInv => RecordOwnsInputs
  <2> SUFFICES ASSUME IInv
               PROVE  \A t \in stored \ Mined :
                        Family(t) \cap (contended \cup disowned \cup indoubt) = {} =>
                          \A o \in Ins[t] : spender[o] = t
    BY DEF RecordOwnsInputs, OwnsInputs
  <2> TAKE t \in stored \ Mined
  <2> HAVE Family(t) \cap (contended \cup disowned \cup indoubt) = {}
  <2> TAKE o \in Ins[t]
  <2>1. t \notin contended \cup GivenAway /\ Creator[o] \notin contended
    BY DEF Parents, Family, GivenAway
  <2>2. HoldsInput(t, o)
    BY <2>1 DEF IInv, StoredHolds, Holds
  <2> QED BY <2>1, <2>2 DEF HoldsInput
<1> QED BY <1>1, Inductive, PTL

\* What block assembly holds has a record, however late the hand-off came.
THEOREM AssemblySafe == Spec => []AssemblyHasRecords
<1>1. IInv => AssemblyHasRecords
  BY DEF IInv, AssemblyStored, Known, AssemblyHasRecords
<1> QED BY <1>1, Inductive, PTL

\* A transaction gets into the template after its parents, through the queue or
\* through a reset (SubtreeProcessor, loadUnminedTransactions).
THEOREM TemplateOrdered == Spec => []TemplateHasParents
<1>1. IInv => TemplateHasParents
  BY DEF IInv
<1> QED BY <1>1, Inductive, PTL

\* Without a fault nobody is left as the spender of an output and without a
\* record, once every submission has been answered.
THEOREM NoDangling == Spec => []NoDanglingSpend
<1>1. IInv => NoDanglingSpend
  <2> SUFFICES ASSUME IInv, faults = 0, \A a \in Attempts : at[a] \in {"new", "done"} /\ ~Excused(a),
                      NEW o \in Outpoints, spender[o] \notin stored \cup {NoTx}
               PROVE  FALSE
    BY DEF NoDanglingSpend
  <2>1. Regular
    BY DEF Regular
  <2>2. \E a \in Attempts : Owes(a, o)
    BY <2>1 DEF IInv, Owed
  <2> QED BY <2>2 DEF Owes
<1> QED BY <1>1, Inductive, PTL

=============================================================================
