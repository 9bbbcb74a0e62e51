--------------------------- MODULE ValidatorCommit ---------------------------
(***************************************************************************)
(* How a transaction is admitted: the validator spends its inputs, creates *)
(* its record locked, hands it to block assembly and unlocks it            *)
(* (Validator.go, spend_and_create.go, aerospike/spend.go), beside the     *)
(* queue and the template of block assembly and the reset that reloads the *)
(* template from the store (SubtreeProcessor.go, BlockAssembler.go).       *)
(*                                                                         *)
(* Every step is a call of its own.  Any of them may fail or be given up   *)
(* while the write is still on its way; block assembly may refuse the      *)
(* hand-off because its queue is full, and the validator then unwinds.     *)
(* Nothing serialises two submissions of the same transaction.             *)
(*                                                                         *)
(* Left out: conflicting transactions of a block, which are stored without *)
(* being handed off (see ConflictProcessing); pages (see UtxoStore).       *)
(***************************************************************************)
EXTENDS Integers, FiniteSets, SequencesExt

CONSTANTS Txs,        \* transactions
          Mined,      \* those that are in a block
          Outpoints,  \* transaction outputs
          Creator,    \* Creator[o]: the transaction that o is an output of
          Ins,        \* Ins[t]: the outputs t spends
          Attempts,   \* submissions
          TxOf,       \* TxOf[a]: what a submits; two may submit the same
          InBlock,    \* submissions made while a block is validated
          NoTx,
          QueueLimit, \* bound: capacity of block assembly's queue
          MaxFaults,  \* bound: failing calls and validators that die
          MaxResets   \* bound: resets of block assembly

ASSUME CommitConstants ==
  /\ Mined \subseteq Txs /\ NoTx \notin Txs
  /\ Creator \in [Outpoints -> Txs] /\ Ins \in [Txs -> SUBSET Outpoints]
  /\ TxOf \in [Attempts -> Txs \ Mined] /\ InBlock \subseteq Attempts
  /\ QueueLimit \in Nat \ {0} /\ MaxFaults \in Nat /\ MaxResets \in Nat

VARIABLES
  \* the UTXO store
  stored,      \* transactions with a record
  locked,      \* records that carry the locked flag
  spender,     \* spending data of every output
  clock,       \* what time it is, by the records written
  created,     \* createdAt of every record
  \* writes whose caller has stopped waiting
  lateSpend,   \* <<submission, output>>
  lateCreate,  \* transactions
  lateSend,    \* transactions
  \* block assembly
  queue,       \* handed off and not yet in the template
  template,    \* transactions in the subtrees of the next block
  reset,       \* where the reset in progress is
  unread,      \* records the loader has still to read
  loaded,      \* unmined transactions it found
  lifting,     \* those it found locked
  stamp,       \* createdAt of those it found
  resets,
  \* the submissions
  at,          \* where each is
  todo,        \* outputs still to spend, or to give back
  got,         \* outputs whose spend was reported as made
  gone,        \* outputs whose creator was not found
  seen,        \* how the spends failed
  answer,      \* what the submitter was told
  \* history
  faults,
  contended,   \* transactions that two parties worked on at once
  disowned,    \* those with a record whose spends a failed repeat gave back
  indoubt,     \* those whose creation was reported failed and may yet happen
  unheld       \* unlocked, or about to be, though the template does not get them

times == <<clock, created>>
store == <<stored, locked, spender, times>>
late == <<lateSpend, lateCreate, lateSend>>
assembly == <<queue, template, reset, unread, loaded, lifting, stamp, resets>>
calls == <<at, todo, got, gone, seen, answer>>
history == <<contended, disowned, indoubt, unheld>>
vars == <<store, late, assembly, calls, faults, history>>

-----------------------------------------------------------------------------
Parents(t) == {Creator[o] : o \in Ins[t]}
Outs(t) == {o \in Outpoints : Creator[o] = t}

Init ==
  /\ stored = Mined /\ locked = {}
  /\ spender = [o \in Outpoints |-> NoTx]
  /\ clock = 0 /\ created = [t \in Txs |-> 0]
  /\ lateSpend = {} /\ lateCreate = {} /\ lateSend = {}
  /\ queue = << >> /\ template = {}
  /\ reset = "none" /\ unread = {} /\ loaded = {} /\ lifting = {} /\ resets = 0
  /\ stamp = created
  /\ at = [a \in Attempts |-> "new"]
  /\ todo = [a \in Attempts |-> {}] /\ got = todo /\ gone = todo /\ seen = todo
  /\ answer = [a \in Attempts |-> "none"]
  /\ faults = 0 /\ contended = {} /\ disowned = {} /\ indoubt = {} /\ unheld = {}

Fault == faults < MaxFaults /\ faults' = faults + 1

Go(a, step) == at' = [at EXCEPT ![a] = step] /\ UNCHANGED answer
End(a, told) == at' = [at EXCEPT ![a] = "done"] /\ answer' = [answer EXCEPT ![a] = told]

\* A submission that is under way, or whose abandoned writes are.
Busy(a) ==
  \/ at[a] \notin {"new", "done"}
  \/ \E o \in Outpoints : <<a, o>> \in lateSpend
  \/ at[a] = "done" /\ TxOf[a] \in lateCreate \cup lateSend
BusyTxs == {TxOf[a] : a \in {b \in Attempts : Busy(b)}}

-----------------------------------------------------------------------------
(***************************************************************************)
(* Spend: all inputs in one group of concurrent writes.                    *)
(***************************************************************************)

\* The parents are read first; without one the transaction is refused.
Begin(a) ==
  /\ at[a] = "new"
  /\ IF Parents(TxOf[a]) \subseteq stored
       THEN Go(a, "spend") /\ todo' = [todo EXCEPT ![a] = Ins[TxOf[a]]]
       ELSE End(a, "refused") /\ UNCHANGED todo
  /\ contended' = contended \cup ({TxOf[a]} \cap BusyTxs)
  /\ UNCHANGED <<store, late, assembly, got, gone, seen, faults, disowned, indoubt, unheld>>

\* What spendMulti answers: record checks come before the output's own.
Refusal(a, o) ==
  CASE Creator[o] \notin stored -> {"missing"}
    [] Creator[o] \in locked /\ a \notin InBlock -> {"lock"}
    [] spender[o] \notin {NoTx, TxOf[a]} -> {"spent"}
    [] OTHER -> {}

Take(a, o) ==
  IF Refusal(a, o) = {} THEN spender' = [spender EXCEPT ![o] = TxOf[a]] ELSE UNCHANGED spender

\* A block's transaction may spend an output of one that is still locked.
Meddles(o) == {Creator[o]} \cap BusyTxs

SpendOne(a, o) ==
  /\ at[a] = "spend" /\ o \in todo[a]
  /\ Take(a, o)
  /\ todo' = [todo EXCEPT ![a] = @ \ {o}]
  /\ seen' = [seen EXCEPT ![a] = @ \cup Refusal(a, o)]
  /\ got' = IF Refusal(a, o) = {} THEN [got EXCEPT ![a] = @ \cup {o}] ELSE got
  /\ gone' = IF Refusal(a, o) = {"missing"} THEN [gone EXCEPT ![a] = @ \cup {o}] ELSE gone
  /\ contended' = contended \cup Meddles(o)
  /\ UNCHANGED <<stored, locked, times, late, assembly, at, answer, faults, disowned, indoubt,
                 unheld>>

\* The write fails, or its answer is lost.
SpendOneFails(a, o) ==
  /\ at[a] = "spend" /\ o \in todo[a] /\ Fault
  /\ Take(a, o) \/ UNCHANGED spender
  /\ todo' = [todo EXCEPT ![a] = @ \ {o}]
  /\ seen' = [seen EXCEPT ![a] = @ \cup {"error"}]
  /\ contended' = contended \cup Meddles(o)
  /\ UNCHANGED <<stored, locked, times, late, assembly, at, got, gone, answer, disowned, indoubt,
                 unheld>>

\* The wait for the group runs out; the writes go on.
SpendAborts(a) ==
  /\ at[a] = "spend" /\ todo[a] # {} /\ Fault
  /\ lateSpend' = lateSpend \cup ({a} \X todo[a])
  /\ todo' = [todo EXCEPT ![a] = {}]
  /\ seen' = [seen EXCEPT ![a] = @ \cup {"error"}]
  /\ UNCHANGED <<store, lateCreate, lateSend, assembly, at, got, gone, answer, history>>

LateSpend(a, o) ==
  /\ <<a, o>> \in lateSpend
  /\ lateSpend' = lateSpend \ {<<a, o>>}
  /\ Take(a, o)
  /\ contended' = contended \cup Meddles(o)
  /\ UNCHANGED <<stored, locked, times, lateCreate, lateSend, assembly, calls, faults, disowned,
                 indoubt, unheld>>

\* resolveSpendCompletions: a missing parent is forgiven when the transaction
\* has a record already, and its output counts as spent.
Forgive(a) ==
  /\ at[a] = "spend" /\ todo[a] = {} /\ gone[a] # {}
  /\ gone' = [gone EXCEPT ![a] = {}]
  /\ \/ /\ IF TxOf[a] \in stored
             THEN /\ got' = [got EXCEPT ![a] = @ \cup gone[a]]
                  /\ seen' = [seen EXCEPT ![a] = @ \ {"missing"}]
             ELSE UNCHANGED <<got, seen>>
        /\ UNCHANGED faults
     \/ Fault /\ UNCHANGED <<got, seen>>
  /\ UNCHANGED <<store, late, assembly, at, todo, answer, history>>

\* Faulty variant: the spends stay unless a lock was met.
KeepsSpendsUnlessLocked(a) == got[a] = {} \/ "lock" \notin seen[a]

\* rollbackPartialSpends: nothing to give back, or a lock was met and nothing
\* rules the transaction out.
KeepsSpends(a) == got[a] = {} \/ ("lock" \in seen[a] /\ "spent" \notin seen[a])

SpendEnds(a) ==
  /\ at[a] = "spend" /\ todo[a] = {} /\ gone[a] = {}
  /\ CASE seen[a] = {} -> Go(a, "create")
       [] seen[a] # {} /\ KeepsSpends(a) -> End(a, "refused")
       [] OTHER -> Go(a, "probe")
  /\ UNCHANGED <<store, late, assembly, todo, got, gone, seen, faults, history>>

-----------------------------------------------------------------------------
(***************************************************************************)
(* Giving spends back.                                                     *)
(***************************************************************************)

\* decideRollback: only a record that is known to be absent lets the spends go.
Probe(a) ==
  /\ at[a] = "probe"
  /\ \/ /\ IF TxOf[a] \in stored THEN End(a, "refused") /\ UNCHANGED todo
           ELSE Go(a, "unspend") /\ todo' = [todo EXCEPT ![a] = got[a]]
        /\ UNCHANGED faults
     \/ Fault /\ End(a, "refused") /\ UNCHANGED todo
  /\ UNCHANGED <<store, late, assembly, got, gone, seen, history>>

\* Unspend, one output after the other; only the owner's spend is removed.
UnspendOne(a, o) ==
  /\ at[a] = "unspend" /\ o \in todo[a]
  /\ todo' = [todo EXCEPT ![a] = @ \ {o}]
  /\ \/ /\ spender' = IF spender[o] = TxOf[a] THEN [spender EXCEPT ![o] = NoTx] ELSE spender
        /\ UNCHANGED faults
     \/ Fault /\ UNCHANGED spender
  /\ UNCHANGED <<stored, locked, times, late, assembly, at, got, gone, seen, answer, history>>

Unspent(a) ==
  /\ at[a] = "unspend" /\ todo[a] = {}
  /\ End(a, "refused")
  /\ UNCHANGED <<store, late, assembly, todo, got, gone, seen, faults, history>>

-----------------------------------------------------------------------------
(***************************************************************************)
(* Create.                                                                 *)
(***************************************************************************)

\* Faulty variant: the record is not created locked.
PutUnlocked(t) ==
  /\ stored' = stored \cup {t} /\ UNCHANGED locked
  /\ clock' = clock + 1 /\ created' = [created EXCEPT ![t] = clock']
  /\ spender' = [o \in Outpoints |-> IF o \in Outs(t) THEN NoTx ELSE spender[o]]

\* A new record's outputs are free.
Put(t) ==
  /\ stored' = stored \cup {t} /\ locked' = locked \cup {t}
  /\ clock' = clock + 1 /\ created' = [created EXCEPT ![t] = clock']
  /\ spender' = [o \in Outpoints |-> IF o \in Outs(t) THEN NoTx ELSE spender[o]]

\* A record that is there already makes the submission a repeat: success, and
\* the spends stay.
Create(a) ==
  /\ at[a] = "create"
  /\ IF TxOf[a] \in stored THEN End(a, "accepted") /\ UNCHANGED store
     ELSE Put(TxOf[a]) /\ Go(a, "hand")
  /\ UNCHANGED <<late, assembly, todo, got, gone, seen, faults, history>>

\* Faulty variant: an unknown outcome is treated as a failure.
CreateUnknownUndone(a) ==
  /\ at[a] = "create" /\ Fault
  /\ lateCreate' = lateCreate \cup {TxOf[a]}
  /\ Go(a, "unspend") /\ todo' = [todo EXCEPT ![a] = got[a]]
  /\ UNCHANGED <<store, lateSpend, lateSend, assembly, got, gone, seen, history>>

\* The batch is not waited for any longer, its write may still happen: the
\* spends stay.
CreateUnknown(a) ==
  /\ at[a] = "create" /\ Fault
  /\ lateCreate' = lateCreate \cup {TxOf[a]}
  /\ End(a, "error")
  /\ UNCHANGED <<store, lateSpend, lateSend, assembly, todo, got, gone, seen, history>>

LateCreate(t) ==
  /\ t \in lateCreate
  /\ lateCreate' = lateCreate \ {t}
  /\ IF t \in stored THEN UNCHANGED store ELSE Put(t)
  /\ UNCHANGED <<lateSpend, lateSend, assembly, calls, faults, history>>

\* Any other error gives the spends back: nobody asks whether the record was
\* there already, nor whether the write that failed may still be applied.
CreateFails(a) ==
  /\ at[a] = "create" /\ Fault
  /\ Go(a, "unspend") /\ todo' = [todo EXCEPT ![a] = got[a]]
  /\ disowned' = disowned \cup ({TxOf[a]} \cap stored)
  /\ \/ UNCHANGED <<lateCreate, indoubt>>
     \/ /\ lateCreate' = lateCreate \cup {TxOf[a]}
        /\ indoubt' = indoubt \cup {TxOf[a]}
  /\ UNCHANGED <<store, lateSpend, lateSend, assembly, got, gone, seen, contended, unheld>>

-----------------------------------------------------------------------------
(***************************************************************************)
(* Hand-off and unlock.                                                    *)
(***************************************************************************)

Room == Len(queue) < QueueLimit

HandOff(a) ==
  /\ at[a] = "hand" /\ Room
  /\ queue' = Append(queue, TxOf[a])
  /\ Go(a, "unlock")
  /\ UNCHANGED <<store, late, template, reset, unread, loaded, lifting, stamp, resets, todo,
                 got, gone, seen, faults, history>>

\* The queue is full: a block's transaction is accepted all the same, any
\* other is unwound.
HandOffShed(a) ==
  /\ at[a] = "hand" /\ ~Room
  /\ Go(a, IF a \in InBlock THEN "unlock" ELSE "delete")
  /\ unheld' = IF a \in InBlock THEN unheld \cup {TxOf[a]} ELSE unheld
  /\ UNCHANGED <<store, late, assembly, todo, got, gone, seen, faults, contended, disowned,
                 indoubt>>

\* Faulty variant: a hand-off that ran out of time is unwound like one that was
\* refused.
HandOffFailsUnwound(a) ==
  /\ at[a] = "hand" /\ Fault
  /\ Go(a, "delete")
  /\ lateSend' = lateSend \cup {TxOf[a]}
  /\ UNCHANGED <<store, lateSpend, lateCreate, assembly, todo, got, gone, seen, history>>

\* Any other failure, the deadline included, leaves the record locked; block
\* assembly may have the transaction, or get it yet.
HandOffFails(a) ==
  /\ at[a] = "hand" /\ Fault
  /\ End(a, "error")
  /\ lateSend' \in {lateSend, lateSend \cup {TxOf[a]}}
  /\ UNCHANGED <<store, lateSpend, lateCreate, assembly, todo, got, gone, seen, history>>

\* Faulty variant: the capacity is checked before the wait only.
LateSendUnchecked(t) ==
  /\ t \in lateSend
  /\ lateSend' = lateSend \ {t}
  /\ queue' = Append(queue, t)
  /\ UNCHANGED <<store, lateSpend, lateCreate, template, reset, unread, loaded, lifting,
                 stamp, resets, calls, faults, history>>

LateSend(t) ==
  /\ t \in lateSend
  /\ lateSend' = lateSend \ {t}
  /\ queue' = IF Room THEN Append(queue, t) ELSE queue
  /\ UNCHANGED <<store, lateSpend, lateCreate, template, reset, unread, loaded, lifting,
                 stamp, resets, calls, faults, history>>

\* twoPhaseCommitTransaction; an unlock that fails is still an acceptance.
Unlock(a) ==
  /\ at[a] = "unlock"
  /\ \/ locked' = locked \ {TxOf[a]} /\ UNCHANGED faults
     \/ Fault /\ UNCHANGED locked
  /\ End(a, "accepted")
  /\ UNCHANGED <<stored, spender, times, late, assembly, todo, got, gone, seen, history>>

-----------------------------------------------------------------------------
(***************************************************************************)
(* unwindShed: delete the record, make sure twice that it is gone, give    *)
(* the spends back.                                                        *)
(***************************************************************************)

Delete(a) ==
  /\ at[a] = "delete"
  /\ \/ /\ stored' = stored \ {TxOf[a]} /\ locked' = locked \ {TxOf[a]} /\ UNCHANGED times
        /\ spender' = [o \in Outpoints |-> IF o \in Outs(TxOf[a]) THEN NoTx ELSE spender[o]]
        /\ UNCHANGED faults
     \/ Fault /\ UNCHANGED store
  /\ Go(a, "verify")
  /\ UNCHANGED <<late, assembly, todo, got, gone, seen, history>>

\* verifyRecordDeleted: a record that is there, or cannot be read, ends the
\* unwind with the spends in place.
Verify(a) ==
  /\ at[a] \in {"verify", "again"}
  /\ \/ /\ CASE TxOf[a] \in stored -> End(a, "shed") /\ UNCHANGED todo
             [] TxOf[a] \notin stored /\ at[a] = "verify" -> Go(a, "again") /\ UNCHANGED todo
             [] OTHER -> Go(a, "unspend") /\ todo' = [todo EXCEPT ![a] = got[a]]
        /\ UNCHANGED faults
     \/ Fault /\ End(a, "shed") /\ UNCHANGED todo
  /\ UNCHANGED <<store, late, assembly, got, gone, seen, history>>

\* The validator dies.
Die(a) ==
  /\ at[a] \notin {"new", "done"} /\ Fault
  /\ End(a, "error")
  /\ UNCHANGED <<store, late, assembly, todo, got, gone, seen, history>>

-----------------------------------------------------------------------------
(***************************************************************************)
(* Block assembly.  One goroutine takes from the queue and resets.         *)
(***************************************************************************)

Dequeue ==
  /\ reset = "none" /\ queue # << >>
  /\ template' = template \cup {Head(queue)} /\ queue' = Tail(queue)
  /\ UNCHANGED <<store, late, reset, unread, loaded, lifting, stamp, resets, calls, faults,
                 history>>

ResetStarts ==
  /\ reset = "none" /\ resets < MaxResets
  /\ resets' = resets + 1
  /\ reset' = "read" /\ template' = {} /\ unread' = Txs \ Mined
  /\ loaded' = {} /\ lifting' = {}
  /\ UNCHANGED <<store, late, queue, stamp, calls, faults, history>>

\* loadUnminedTransactions goes over the records while they change.
ReadRecord(t) ==
  /\ reset = "read" /\ t \in unread
  /\ unread' = unread \ {t}
  /\ loaded' = loaded \cup ({t} \cap stored)
  /\ lifting' = lifting \cup ({t} \cap locked)
  /\ stamp' = [stamp EXCEPT ![t] = created[t]]
  /\ contended' = contended \cup ({t} \cap stored \cap BusyTxs)
  /\ UNCHANGED <<store, late, queue, template, reset, resets, calls, faults, disowned, indoubt,
                 unheld>>

\* validateParentChain goes over what was found in the order of createdAt and
\* reads the parents.  One that is not in a block must have been found too.
Found == loaded \cap stored
Later(p, t) == p \in Found /\ stamp[p] > stamp[t]

\* Faulty variant: only parents in blocks count.
UnfitUnlessMined(t, rejected, failing) == Parents(t) \ Mined # {}

\* A parent cannot be read, is not there, or was rejected before.
Unfit(t, rejected, failing) ==
  \E p \in Parents(t) :
    \/ p \in failing
    \/ p \notin Mined /\ (p \notin Found \/ (p \in rejected /\ ~Later(p, t)))

\* One that sorts before a parent of its own is skipped, and unlike one that is
\* rejected does not take its descendants with it.
OutOfOrder(t) == \E p \in Parents(t) \ Mined : Later(p, t)

\* The parents are looked at one by one, up to the first that is unfit: a
\* transaction with one of either kind may be rejected or skipped.
Sifted(rejected, skipped, failing) ==
  /\ \A t \in rejected : Unfit(t, rejected, failing)
  /\ \A t \in skipped : OutOfOrder(t)
  /\ \A t \in loaded \ (rejected \cup skipped) :
       ~Unfit(t, rejected, failing) /\ ~OutOfOrder(t)

LoadTemplate ==
  /\ reset = "read" /\ unread = {}
  /\ \E failing \in SUBSET Txs, rejected \in SUBSET loaded : \E skipped \in SUBSET (loaded \ rejected) :
       /\ IF failing = {} THEN UNCHANGED faults ELSE Fault
       /\ Sifted(rejected, skipped, failing)
       /\ template' = loaded \ (rejected \cup skipped)
       /\ unheld' = unheld \cup rejected \cup skipped
  /\ reset' = "lift"
  /\ UNCHANGED <<store, late, queue, unread, loaded, lifting, stamp, resets, calls, contended,
                 disowned, indoubt>>

\* SetLocked(false) for everything that was found locked, in the template or
\* not.  A record that is gone by now, or any error, fails the reset.
Lift ==
  /\ reset = "lift"
  /\ \/ /\ locked' = locked \ lifting
        /\ reset' = IF lifting \subseteq stored THEN "drain" ELSE "none"
        /\ UNCHANGED faults
     \/ /\ Fault /\ reset' = "none"
        /\ \E T \in SUBSET lifting : locked' = locked \ T
  /\ UNCHANGED <<stored, spender, times, late, queue, template, unread, loaded, lifting, stamp,
                 resets, calls, history>>

\* What was queued before the reset or during it is dropped.
Drain ==
  /\ reset = "drain"
  /\ queue' = << >> /\ reset' = "none"
  /\ unheld' = unheld \cup (Range(queue) \ template)
  /\ UNCHANGED <<store, late, template, unread, loaded, lifting, stamp, resets, calls, faults,
                 contended, disowned, indoubt>>

-----------------------------------------------------------------------------
Step(a) ==
  \/ Begin(a) \/ Forgive(a) \/ SpendEnds(a) \/ Probe(a) \/ Unspent(a) \/ Create(a)
  \/ HandOff(a) \/ HandOffShed(a) \/ Unlock(a) \/ Delete(a) \/ Verify(a)
  \/ \E o \in Outpoints : SpendOne(a, o) \/ UnspendOne(a, o)

Assemble == Dequeue \/ LoadTemplate \/ Lift \/ Drain \/ \E t \in Txs : ReadRecord(t)

Next ==
  \/ \E a \in Attempts :
       \/ Step(a)
       \/ SpendAborts(a) \/ CreateUnknown(a) \/ CreateFails(a) \/ HandOffFails(a) \/ Die(a)
       \/ \E o \in Outpoints : SpendOneFails(a, o) \/ LateSpend(a, o)
  \/ \E t \in Txs : LateCreate(t) \/ LateSend(t)
  \/ ResetStarts
  \/ Assemble

Spec == Init /\ [][Next]_vars

\* Block assembly's goroutine carries a reset through.  Nothing is assumed of
\* submissions, of late writes or of when a reset is asked for.
FairSpec == Spec /\ WF_vars(Assemble)
-----------------------------------------------------------------------------
(***************************************************************************)
(* Properties.                                                             *)
(***************************************************************************)

Places == {"new", "spend", "probe", "unspend", "create", "hand", "unlock", "delete", "verify",
           "again", "done"}

\* Every variable has its type, and only a record can be locked.
TypeOK ==
  /\ stored \subseteq Txs /\ locked \subseteq stored
  /\ spender \in [Outpoints -> Txs \cup {NoTx}]
  /\ clock \in Nat /\ created \in [Txs -> Nat] /\ stamp \in [Txs -> Nat]
  /\ lateSpend \subseteq Attempts \X Outpoints
  /\ lateCreate \subseteq Txs /\ lateSend \subseteq Txs
  /\ queue \in Seq(Txs) /\ Len(queue) <= QueueLimit
  /\ template \subseteq Txs /\ unread \subseteq Txs
  /\ loaded \subseteq Txs /\ lifting \subseteq Txs
  /\ reset \in {"none", "read", "lift", "drain"} /\ resets \in 0..MaxResets
  /\ at \in [Attempts -> Places]
  /\ todo \in [Attempts -> SUBSET Outpoints] /\ got \in [Attempts -> SUBSET Outpoints]
  /\ gone \in [Attempts -> SUBSET Outpoints]
  /\ seen \in [Attempts -> SUBSET {"missing", "lock", "spent", "error"}]
  /\ answer \in [Attempts -> {"none", "accepted", "refused", "error", "shed"}]
  /\ faults \in 0..MaxFaults
  /\ contended \subseteq Txs /\ disowned \subseteq Txs /\ indoubt \subseteq Txs
  /\ unheld \subseteq Txs

OwnsInputs(t) == \A o \in Ins[t] : spender[o] = t
Family(t) == {t} \cup Parents(t)

\* Whatever fails, is given up or arrives late, a record owns every output it
\* spends: nothing gives back a spend whose transaction is stored or may still
\* be (IsCreateOutcomeUnknown, decideRollback, verifyRecordDeleted).  The code
\* answers for transactions that no second party works on meanwhile, and that no
\* Create was reported to have failed for although the record is there or comes
\* (RecordKeepsInputs, RollbackIsDefinite).
RecordOwnsInputs ==
  \A t \in stored \ Mined :
    Family(t) \cap (contended \cup disowned \cup indoubt) = {} => OwnsInputs(t)

\* A transaction is either accepted or leaves no trace: without a fault, when
\* everybody has been answered, no output names a spender that has no record.
\* The exception is a submission that meets a locked parent, which keeps its
\* spends on purpose.
Excused(a) == "lock" \in seen[a]
NoDanglingSpend ==
  (faults = 0 /\ \A a \in Attempts : at[a] \in {"new", "done"} /\ ~Excused(a)) =>
    \A o \in Outpoints : spender[o] \in stored \cup {NoTx}

\* What block assembly holds is recorded in the UTXO store, also when a hand-off
\* was given up and arrives later.
AssemblyHasRecords == (template \cup Range(queue)) \ contended \subseteq stored

FromBlock == {TxOf[a] : a \in InBlock}

\* A transaction gets into the template after its parents: a child is accepted
\* only when its parent is unlocked, which is after the parent was handed off.
\* Parents that were unlocked and not held are the exceptions the code makes,
\* and parents that two parties worked on at once.
TemplateHasParents ==
  \A t \in template \ (FromBlock \cup contended) :
    Parents(t) \subseteq template \cup Mined \cup unheld \cup contended

Quiescent ==
  /\ \A a \in Attempts : at[a] \in {"new", "done"}
  /\ lateSpend = {} /\ lateCreate = {} /\ lateSend = {}
Whole ==
  UNION {S \in SUBSET (stored \ Mined) :
           \A t \in S : \A p \in Parents(t) \ Mined : p \in S /\ created[p] < created[t]}

\* Liveness: a reset that nobody disturbs and no fault ends brings every stored
\* transaction whose ancestors are stored, and were before it, back into the
\* template and takes every lock away, whatever submission was interrupted before.
ReloadHeals ==
  (reset = "read" /\ unread = Txs \ Mined /\ Quiescent /\ faults = MaxFaults) ~>
    (reset = "none" /\ (Quiescent => locked = {} /\ Whole \subseteq template)) \/ ~Quiescent

-----------------------------------------------------------------------------
(***************************************************************************)
(* What documents and comments say and the code does not do.               *)
(***************************************************************************)

\* "Parent transactions are either mined, in block template, or in previous
\* block. No other option is possible." (docs/topics/features/two_phase_commit.md)
TemplateIsClosed == \A t \in template : Parents(t) \subseteq template \cup Mined

\* "No descendant can have spent T's outputs, because no block-context
\* validation reaches here" (unwindShed): whoever is about to be deleted has no
\* stored child.
ShedHasNoDescendant ==
  \A a \in Attempts : at[a] = "delete" /\ TxOf[a] \in stored =>
    \A o \in Outs(TxOf[a]) : spender[o] \notin stored

\* "Unspending then would leave a record whose inputs are unspent, which a
\* repeat never heals" (SequentialSpendAndCreate): a transaction that one
\* submission after the other works on never loses its inputs.
RecordKeepsInputs ==
  \A t \in stored \ Mined : Family(t) \cap (contended \cup indoubt) = {} => OwnsInputs(t)

\* "roll the spends back (with retries) when the create definitely failed"
\* (SequentialSpendAndCreate): the record of a transaction that is submitted once
\* owns its inputs, also when it was written by a call that was reported to have
\* failed.
RollbackIsDefinite ==
  \A t \in stored \ Mined : Family(t) \cap (contended \cup disowned) = {} => OwnsInputs(t)

\* "The sort order (createdAt) processes parents before children"
\* (validateParentChain).
ReloadInOrder == reset = "read" /\ unread = {} => \A t \in loaded : ~OutOfOrder(t)
=============================================================================
