------------------------------ MODULE UtxoCreate ------------------------------
(***************************************************************************)
(* Two-phase creation of one paginated transaction in the Aerospike UTXO   *)
(* store (create.go, storeExternallyWithLock).                             *)
(*                                                                         *)
(* A creator takes a lock record that expires by itself, stores the        *)
(* transaction's blob, writes every record CREATE_ONLY with the creating   *)
(* bin set, and then removes that bin, pages first and master last.  The   *)
(* lock only avoids duplicate work: a creator that stalls past the TTL     *)
(* goes on beside the next one.  Any write may fail, and a write that is   *)
(* reported as failed may have been applied.  A process may crash between  *)
(* any two writes; what it wrote stays for the next attempt.               *)
(*                                                                         *)
(* The lock token is the creator's name: a creator makes one attempt at a  *)
(* time and starts one only when no lock record exists, so a lock that     *)
(* carries its name is the one of its current attempt.                     *)
(***************************************************************************)
EXTENDS Integers, FiniteSets

CONSTANTS Creators,    \* concurrent Create calls for the same transaction
          NoLock,      \* there is no lock record
          NPages,      \* records beside the master
          MaxFaults    \* bound: failed writes and crashes

ASSUME CreateConstants ==
  /\ NoLock \notin Creators
  /\ NPages \in Nat
  /\ MaxFaults \in Nat

Pages == 1..NPages
Recs == 0..NPages

VARIABLES lock,      \* the creator whose token the lock record holds
          live,      \* history: creators whose lock has not expired
          blob,      \* whether the transaction is in the blob store
          exists,    \* records that exist
          creating,  \* records that carry the creating bin
          at,        \* where each creator is in its attempt
          wins,      \* history: Create calls that returned no error
          faults,
          minedEarly \* history: setMined met a master that was still creating

vars == <<lock, live, blob, exists, creating, at, wins, faults, minedEarly>>

\* todo: records whose write in the current batch has not been answered;
\* failed: some answer in the current batch was an error; made: this attempt
\* wrote the master record.
Attempt ==
  [pc : {"idle", "blob", "write", "clear", "clearMaster", "release"},
   todo : SUBSET Recs, failed : BOOLEAN, made : BOOLEAN]

Stage(pc, todo, made) == [pc |-> pc, todo |-> todo, failed |-> FALSE, made |-> made]
Idle == Stage("idle", {}, FALSE)

Init ==
  /\ lock = NoLock /\ live = {}
  /\ blob = "none"
  /\ exists = {} /\ creating = {}
  /\ at = [c \in Creators |-> Idle]
  /\ wins = 0
  /\ faults = 0
  /\ minedEarly = FALSE

Goes(c, stage) == at' = [at EXCEPT ![c] = stage]
Fault == faults < MaxFaults /\ faults' = faults + 1

\* Answer to one write of the current batch.
Answered(c, r, bad) == [at[c] EXCEPT !.todo = @ \ {r}, !.failed = @ \/ bad]

-----------------------------------------------------------------------------
\* acquireLock, CREATE_ONLY.  A creator that meets a lock returns ErrTxExists
\* and has changed nothing.
AcquireLock(c) ==
  /\ at[c].pc = "idle" /\ lock = NoLock
  /\ lock' = c
  /\ live' = live \cup {c}
  /\ Goes(c, Stage("blob", {}, FALSE))
  /\ UNCHANGED <<blob, exists, creating, wins, faults, minedEarly>>

\* The lock was written, the call reported an error: nobody will release it.
AcquireLockInDoubt(c) ==
  /\ at[c].pc = "idle" /\ lock = NoLock
  /\ Fault
  /\ lock' = c
  /\ UNCHANGED <<live, blob, exists, creating, at, wins, minedEarly>>

StoreBlob(c) ==
  /\ at[c].pc = "blob"
  /\ blob' = "stored"
  /\ Goes(c, Stage("write", Recs, FALSE))
  /\ UNCHANGED <<lock, live, exists, creating, wins, faults, minedEarly>>

StoreBlobFails(c) ==
  /\ at[c].pc = "blob" /\ Fault
  /\ blob' \in {blob, "stored"}
  /\ Goes(c, Stage("release", {}, FALSE))
  /\ UNCHANGED <<lock, live, exists, creating, wins, minedEarly>>

\* Faulty variant: the creating bin and the record are two writes.
PutInTwoSteps(r) ==
  /\ creating' = creating \cup {r}
  /\ exists' \in {exists, exists \cup {r}}

\* One CREATE_ONLY write of the batch: a record that exists is left alone.
Put(r) ==
  /\ exists' = exists \cup {r}
  /\ creating' = IF r \in exists THEN creating ELSE creating \cup {r}

\* Faulty variant: any record written counts as having created the transaction.
WriteRecordClaimsAny(c, r) ==
  /\ at[c].pc = "write" /\ r \in at[c].todo
  /\ Put(r)
  /\ Goes(c, [Answered(c, r, FALSE) EXCEPT !.made = @ \/ r \notin exists])
  /\ UNCHANGED <<lock, live, blob, wins, faults, minedEarly>>

WriteRecord(c, r) ==
  /\ at[c].pc = "write" /\ r \in at[c].todo
  /\ Put(r)
  /\ Goes(c, [Answered(c, r, FALSE) EXCEPT !.made = @ \/ (r = 0 /\ r \notin exists)])
  /\ UNCHANGED <<lock, live, blob, wins, faults, minedEarly>>

WriteRecordFails(c, r) ==
  /\ at[c].pc = "write" /\ r \in at[c].todo
  /\ Fault
  /\ Put(r) \/ UNCHANGED <<exists, creating>>
  /\ Goes(c, Answered(c, r, TRUE))
  /\ UNCHANGED <<lock, live, blob, wins, minedEarly>>

\* Faulty variant: a partial batch goes on to phase 2.
ClassifyIgnoringFailures(c) ==
  /\ at[c].pc = "write" /\ at[c].todo = {}
  /\ Goes(c, Stage("clear", Pages, at[c].made))
  /\ UNCHANGED <<lock, live, blob, exists, creating, wins, faults, minedEarly>>

\* Faulty variant: an attempt that did not write the master skips phase 2.
ClassifyWithoutRecovery(c) ==
  /\ at[c].pc = "write" /\ at[c].todo = {}
  /\ Goes(c, IF at[c].failed \/ ~at[c].made THEN Stage("release", {}, FALSE)
             ELSE Stage("clear", Pages, TRUE))
  /\ UNCHANGED <<lock, live, blob, exists, creating, wins, faults, minedEarly>>

\* classifyCreateBatchResults: any failure ends the attempt with an error and
\* leaves the partial records for the next one.
Classify(c) ==
  /\ at[c].pc = "write" /\ at[c].todo = {}
  /\ Goes(c, IF at[c].failed THEN Stage("release", {}, FALSE)
             ELSE Stage("clear", Pages, at[c].made))
  /\ UNCHANGED <<lock, live, blob, exists, creating, wins, faults, minedEarly>>

\* clearCreatingFlag on one page; a page without the bin is filtered out.
ClearPage(c, p) ==
  /\ at[c].pc = "clear" /\ p \in at[c].todo
  /\ creating' = creating \ {p}
  /\ Goes(c, Answered(c, p, FALSE))
  /\ UNCHANGED <<lock, live, blob, exists, wins, faults, minedEarly>>

ClearPageFails(c, p) ==
  /\ at[c].pc = "clear" /\ p \in at[c].todo
  /\ Fault
  /\ creating' \in {creating, creating \ {p}}
  /\ Goes(c, Answered(c, p, TRUE))
  /\ UNCHANGED <<lock, live, blob, exists, wins, minedEarly>>

\* The result is the caller's as soon as phase 2 ends, well or badly: success
\* when this attempt wrote the master, ErrTxExists otherwise.
Completes(c) ==
  /\ wins' = wins + (IF at[c].made THEN 1 ELSE 0)
  /\ Goes(c, Stage("release", {}, FALSE))

\* Faulty variant: the master is cleared whatever became of the pages.
PagesClearedOrNot(c) ==
  /\ at[c].pc = "clear" /\ at[c].todo = {}
  /\ Goes(c, Stage("clearMaster", {}, at[c].made))
  /\ UNCHANGED <<lock, live, blob, exists, creating, wins, faults, minedEarly>>

\* The master is only tried when every page was cleared.
PagesCleared(c) ==
  /\ at[c].pc = "clear" /\ at[c].todo = {}
  /\ IF at[c].failed THEN Completes(c)
     ELSE Goes(c, Stage("clearMaster", {}, at[c].made)) /\ UNCHANGED wins
  /\ UNCHANGED <<lock, live, blob, exists, creating, faults, minedEarly>>

ClearMaster(c) ==
  /\ at[c].pc = "clearMaster"
  /\ creating' = creating \ {0}
  /\ Completes(c)
  /\ UNCHANGED <<lock, live, blob, exists, faults, minedEarly>>

ClearMasterFails(c) ==
  /\ at[c].pc = "clearMaster" /\ Fault
  /\ creating' \in {creating, creating \ {0}}
  /\ Completes(c)
  /\ UNCHANGED <<lock, live, blob, exists, minedEarly>>

\* Faulty variant: the lock is deleted by key alone.
ReleaseLockByKey(c) ==
  /\ at[c].pc = "release"
  /\ lock' = NoLock
  /\ live' = live \ {c}
  /\ Goes(c, Idle)
  /\ UNCHANGED <<blob, exists, creating, wins, faults, minedEarly>>

\* releaseLock deletes the lock record only if it still holds our token.
ReleaseLock(c) ==
  /\ at[c].pc = "release"
  /\ lock' = IF lock = c THEN NoLock ELSE lock
  /\ live' = live \ {c}
  /\ Goes(c, Idle)
  /\ UNCHANGED <<blob, exists, creating, wins, faults, minedEarly>>

ReleaseLockFails(c) ==
  /\ at[c].pc = "release" /\ Fault
  /\ live' = live \ {c}
  /\ Goes(c, Idle)
  /\ UNCHANGED <<lock, blob, exists, creating, wins, minedEarly>>

Crash(c) ==
  /\ at[c].pc # "idle" /\ Fault
  /\ live' = live \ {c}
  /\ Goes(c, Idle)
  /\ UNCHANGED <<lock, blob, exists, creating, wins, minedEarly>>

\* The TTL of the lock record runs out, whatever its holder is doing.
ExpireLock ==
  /\ lock # NoLock
  /\ lock' = NoLock
  /\ live' = live \ {lock}
  /\ UNCHANGED <<blob, exists, creating, at, wins, faults, minedEarly>>

\* setMined runs on the master record alone and removes its creating bin.
SetMined ==
  /\ 0 \in exists
  /\ creating' = creating \ {0}
  /\ minedEarly' = (minedEarly \/ 0 \in creating)
  /\ UNCHANGED <<lock, live, blob, exists, at, wins, faults>>

-----------------------------------------------------------------------------
\* What an attempt does when nothing goes wrong.
Proceed(c) ==
  \/ StoreBlob(c) \/ Classify(c) \/ PagesCleared(c) \/ ClearMaster(c) \/ ReleaseLock(c)
  \/ \E r \in Recs : WriteRecord(c, r)
  \/ \E p \in Pages : ClearPage(c, p)

GoesWrong(c) ==
  \/ AcquireLockInDoubt(c) \/ StoreBlobFails(c) \/ ClearMasterFails(c)
  \/ ReleaseLockFails(c) \/ Crash(c)
  \/ \E r \in Recs : WriteRecordFails(c, r)
  \/ \E p \in Pages : ClearPageFails(c, p)

Next ==
  \/ \E c \in Creators : AcquireLock(c) \/ Proceed(c) \/ GoesWrong(c)
  \/ ExpireLock
  \/ SetMined

Spec == Init /\ [][Next]_vars

\* A transaction that is met again and is missing or still creating is
\* processed again (subtree validation), so a new attempt follows.
Reencounter == (0 \notin exists \/ 0 \in creating) /\ \E c \in Creators : AcquireLock(c)

FairSpec ==
  /\ Spec
  /\ \A c \in Creators : WF_vars(Proceed(c))
  /\ WF_vars(ExpireLock)
  /\ WF_vars(Reencounter)

-----------------------------------------------------------------------------
\* The creating bin is only ever on a record that exists (it is written with
\* the record, never after it), and every attempt has the shape it is given.
TypeOK ==
  /\ lock \in Creators \cup {NoLock}
  /\ live \subseteq Creators
  /\ blob \in {"none", "stored"}
  /\ exists \subseteq Recs
  /\ creating \subseteq exists
  /\ at \in [Creators -> Attempt]
  /\ wins \in Nat
  /\ faults \in Nat
  /\ minedEarly \in BOOLEAN

\* At most one Create ever reports success, although locks expire under slow
\* creators, answers are lost and partial creations are finished by others:
\* the caller that is told so owns the mined state that was stored
\* (classifyCreateBatchResults).
OneWinner == wins <= 1

\* spendMulti refuses a record whose creating bin is set.
Spendable(r) == r \in exists /\ r \notin creating

\* No output of the transaction can be spent before every record and the blob
\* are there: "The creating bin in each record prevents UTXO spending until
\* all records exist" (unless setMined removed the bin of an unfinished master).
SpendableMeansComplete ==
  ~minedEarly /\ (\E r \in Recs : Spendable(r)) => exists = Recs /\ blob = "stored"

\* "Master's creating flag absence = atomic completion indicator": a reader of
\* the master alone may conclude that every page can be spent.
MasterIndicatesCompletion ==
  Spendable(0) => \A p \in Pages : Spendable(p)

\* Phase 2 keeps the master the last record to be cleared, whichever creator
\* clears it and whatever failed before (clearCreatingFlag).
MasterClearedLast == ~minedEarly => MasterIndicatesCompletion

\* While their locks have not expired, two creators never work side by side:
\* in particular a late release does not free the lock of the next creator.
LockExcludes ==
  \A c, d \in live : at[c].pc # "idle" /\ at[d].pc # "idle" => c = d

\* Once writes stop failing, creation completes: every output becomes and
\* remains spendable, whoever finishes it, unless the transaction was mined
\* while its creation was unfinished.
CreationCompletes == <>[](minedEarly \/ \A r \in Recs : Spendable(r))

=============================================================================
