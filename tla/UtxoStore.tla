------------------------------ MODULE UtxoStore ------------------------------
(***************************************************************************)
(* The life of one paginated transaction in the Aerospike UTXO store.      *)
(*                                                                         *)
(* Every call starts with one server-side function on one record           *)
(* (module UtxoRecord).  The response may carry a signal, and the Go code  *)
(* that made the call then follows up on the other records of the same     *)
(* transaction: it moves the master's counter of fully spent pages, copies *)
(* or clears the delete-at-height (DAH) on the pages, clears page locks.   *)
(* The follow-ups are separate writes; between two of them every other     *)
(* caller, the pruner and the chain move on.  A follow-up that fails is    *)
(* logged and not repeated.                                                *)
(*                                                                         *)
(* The pruner selects any record, master or page, by its own DAH alone,    *)
(* and deletes what it selected later and unconditionally.                 *)
(***************************************************************************)
EXTENDS UtxoRecord

CONSTANTS NPages,              \* totalExtraRecs of the master
          Outs,                \* Outs[r]: the spendable positions of record r
          Callers,             \* concurrent users of the store
          Pruner,              \* the pruner, which follows up like a caller
          BlockHeight,         \* height of each block ID
          Retention,           \* GetUtxoStoreBlockHeightRetention
          UnminedTxRetention,
          SpendableAfter,      \* ReAssignedUtxoSpendableAfterBlocks
          CoinbaseHeight,      \* spendingHeight of a coinbase, 0 otherwise
          CreatedConflicting,  \* values of the flags at creation
          CreatedLocked,
          MaxHeight,           \* bound: the chain stops growing here
          OpsUntil,            \* bound: no new calls from this height on
          MaxReassign,         \* bound: reassignments of outputs of one record
          Ops                  \* the calls this environment makes

Pages == 1..NPages
Recs == 0..NPages
Workers == Callers \cup {Pruner}

AllOps == {"spend", "force", "unspend", "mine", "unmine", "chain", "conflict",
           "lock", "freeze", "preserve", "child", "prune", "fail"}

ASSUME StoreConstants ==
  /\ NPages \in Nat
  /\ Outs \in [Recs -> SUBSET Offsets]
  /\ Pruner \notin Callers
  /\ BlockHeight \in [Blocks -> Nat]
  /\ Retention \in Nat
  /\ UnminedTxRetention \in Nat
  /\ SpendableAfter \in Nat
  /\ CoinbaseHeight \in Nat
  /\ CreatedConflicting \subseteq BOOLEAN
  /\ CreatedLocked \subseteq BOOLEAN
  /\ MaxHeight \in Nat /\ OpsUntil \in Nat /\ MaxReassign \in Nat
  /\ Ops \subseteq AllOps

VARIABLES present,  \* indices of the records that exist
          recs,     \* their contents
          height,   \* the store's cached block height
          todo,     \* follow-up writes each worker still has to make
          scanned,  \* pages the pruner has read and not judged yet
          doomed,   \* records the pruner is about to delete
          acked     \* history: spends answered without error and not undone

vars == <<present, recs, height, todo, scanned, doomed, acked>>

Master == recs[0]

-----------------------------------------------------------------------------
(***************************************************************************)
(* Follow-ups.                                                             *)
(***************************************************************************)

Kinds == {"increment", "verify", "clearMaster", "pageDAH", "pageLock", "unminedClear"}

\* n is the increment, the DAH to write (Nil clears it), or the lock to set.
Task ==
  {t \in [kind : Kinds, n : Int, height : Nat, pages : SUBSET Pages] :
     t.kind = "pageDAH" => t.n \in OptHeight}

Increment(n, h) == [kind |-> "increment", n |-> n, height |-> h, pages |-> {}]
Verify(h) == [kind |-> "verify", n |-> 0, height |-> h, pages |-> Pages]
ClearMaster == [kind |-> "clearMaster", n |-> 0, height |-> 0, pages |-> {}]
PageDAH(dah, P) == [kind |-> "pageDAH", n |-> dah, height |-> 0, pages |-> P]
PageLock(v) == [kind |-> "pageLock", n |-> IF v THEN 1 ELSE 0, height |-> 0, pages |-> Pages]
UnminedClear(P) == [kind |-> "unminedClear", n |-> 0, height |-> 0, pages |-> P]

\* A per-page follow-up is one batch; page by page it is over when every page
\* has been written.
Without(t, p) == [t EXCEPT !.pages = @ \ {p}]
Remaining(t, p) == IF t.pages = {p} THEN {} ELSE {Without(t, p)}

\* The pages follow a master whose DAH was set, raised or cleared.
CopyDAH(h, signal) ==
  CASE signal = "DAHSET"   -> {PageDAH(h + Retention, Pages)}
    [] signal = "DAHUNSET" -> {PageDAH(Nil, Pages)}
    [] OTHER               -> {}

\* Faulty variant: a page's ALLSPENT signal is dropped.
SpendFollowUpsDAHOnly(h, signal) == CopyDAH(h, signal)

SpendFollowUps(h, signal) ==
  IF signal = "ALLSPENT" THEN {Increment(1, h)} ELSE CopyDAH(h, signal)

\* unspendLua looks for one signal only.
UnspendFollowUps(h, signal) ==
  IF signal = "NOTALLSPENT" THEN {Increment(-1, h)} ELSE {}

\* Faulty variant: a mine leaves the pages locked.
MinedFollowUpsDAHOnly(h, signal) == CopyDAH(h, signal)

\* setMined clears the lock of the master alone, so the pages' locks are
\* cleared with a batch of their own, which touches other bins than the DAH's.
MinedFollowUps(h, signal) ==
  CopyDAH(h, signal) \cup (IF NPages > 0 THEN {PageLock(FALSE)} ELSE {})

\* incrementSpentExtraRecs set a DAH: the pages are read before they follow.
IncrementFollowUps(h, signal) ==
  IF signal = "DAHSET" /\ Pages # {} THEN {Verify(h)} ELSE CopyDAH(h, signal)

\* The DAH decided on the whole record is compared before and after.
ChangeFollowUps(before, after) ==
  CASE ~External(before) -> {}
    [] before.deleteAtHeight = after.deleteAtHeight -> {}
    [] OTHER -> {PageDAH(after.deleteAtHeight, Pages)}

-----------------------------------------------------------------------------
(***************************************************************************)
(* Creation leaves every record with its common bins; the mined state and  *)
(* the page count are on the master only.                                  *)
(***************************************************************************)

\* A mined transaction without a spendable output expires from the start.
NothingToSpend(blocks) == blocks # {} /\ \A r \in Recs : Outs[r] = {}

NewRecord(r, blocks, conflicting, locked) ==
  [utxos           |-> [o \in Offsets |-> IF o \in Outs[r] THEN Unspent ELSE NoOutput],
   spentUtxos      |-> 0,
   recordUtxos     |-> Cardinality(Outs[r]),
   spendableIn     |-> [o \in Offsets |-> 0],
   deletedChildren |-> {},
   spendingHeight  |-> CoinbaseHeight,
   creating        |-> FALSE,
   conflicting     |-> conflicting,
   locked          |-> locked,
   deleteAtHeight  |-> IF r = 0 /\ Retention > 0 /\ (conflicting \/ NothingToSpend(blocks))
                         THEN 1 + Retention ELSE Nil,
   preserveUntil   |-> Nil,
   lastSpentState  |-> FALSE,
   totalExtraRecs  |-> IF r = 0 THEN NPages ELSE Nil,
   spentExtraRecs  |-> 0,
   blockIDs        |-> IF r = 0 THEN blocks ELSE {},
   unminedSince    |-> IF r = 0 /\ blocks = {} THEN 1 ELSE Nil]

\* All records exist: Create has succeeded, at height 1, for a transaction that
\* is unmined or was met in a block.
Init ==
  /\ present = Recs
  /\ \E c \in CreatedConflicting, l \in CreatedLocked,
        B \in {{}} \cup {{b} : b \in Blocks} :
       recs = [r \in Recs |-> NewRecord(r, B, c, l)]
  /\ height = 0
  /\ todo = [w \in Workers |-> {}]
  /\ scanned = {}
  /\ doomed = {}
  /\ acked = {}

Idle(c) == todo[c] = {}
Calls(c, op) == op \in Ops /\ Idle(c) /\ height < OpsUntil
Write(r, rec) == recs' = [recs EXCEPT ![r] = rec]
Later(c, tasks) == todo' = [todo EXCEPT ![c] = @ \cup tasks]

-----------------------------------------------------------------------------
(***************************************************************************)
(* Calls.                                                                  *)
(***************************************************************************)

\* Spend: one batched spendMulti call on record r, on behalf of the spenders
\* that spends names.  "force" callers may ignore the conflicting and locked
\* flags (block validation and conflict processing do).
Spend(c, r, spends, ignoreConflicting, ignoreLocked) ==
  LET h == height + 1
      after == spendMulti(recs[r], spends, h, Retention)
  IN  /\ Calls(c, "spend") /\ r \in present
      /\ (ignoreConflicting \/ ignoreLocked) => "force" \in Ops
      /\ ~RejectsSpends(recs[r], ignoreConflicting, ignoreLocked, h)
      /\ Write(r, after)
      /\ Later(c, SpendFollowUps(h, Signal(recs[r], after)))
      /\ acked' = acked \cup {<<r, o, spends[o]>> :
                    o \in {x \in DOMAIN spends : Acknowledges(recs[r], x, spends[x], h)}}
      /\ UNCHANGED <<present, height, scanned, doomed>>

\* Unspend: a rollback of a failed spend, or conflict processing.  A position
\* that holds no output is refused before anything is written.
Unspend(c, r, o, s) ==
  LET after == unspend(recs[r], o, s, height, Retention)
  IN  /\ Calls(c, "unspend") /\ r \in present /\ recs[r].utxos[o] # NoOutput
      /\ Write(r, after)
      /\ Later(c, UnspendFollowUps(height, Signal(recs[r], after)))
      /\ acked' = acked \ {<<r, o, s>>}
      /\ UNCHANGED <<present, height, scanned, doomed>>

\* SetMinedMulti for a block the transaction is in.
SetMined(c, b, onLongestChain) ==
  LET after == setMined(Master, b, BlockHeight[b], height + 1, Retention,
                        onLongestChain, FALSE)
  IN  /\ Calls(c, "mine") /\ 0 \in present
      /\ Write(0, after)
      /\ Later(c, MinedFollowUps(BlockHeight[b], Signal(Master, after)))
      /\ UNCHANGED <<present, height, scanned, doomed, acked>>

\* Faulty variant: the subtraction wraps.
BackdatedUnminedSinceWrapping == height - UnminedTxRetention

BackdatedUnminedSince ==
  IF height <= UnminedTxRetention THEN 1 ELSE height - UnminedTxRetention

\* SetMinedMulti with UnsetMined: the block was invalidated.
UnsetMined(c, b) ==
  LET after == setMined(Master, b, BlockHeight[b], BackdatedUnminedSince, Retention,
                        FALSE, TRUE)
  IN  /\ Calls(c, "unmine") /\ 0 \in present
      /\ Write(0, after)
      /\ Later(c, CopyDAH(BlockHeight[b], Signal(Master, after)))
      /\ UNCHANGED <<present, height, scanned, doomed, acked>>

\* MarkTransactionsOnLongestChain(true): the DAH counts from the higher of the
\* next height and the highest block the transaction is in.
MarkOnLongestChain(c) ==
  LET heights == {height + 1} \cup {BlockHeight[b] : b \in Master.blockIDs}
  IN  /\ Calls(c, "chain") /\ 0 \in present
      /\ \E h \in heights :
           LET after == setDeleteAtHeight([Master EXCEPT !.unminedSince = Nil], h, Retention)
           IN  /\ \A k \in heights : k <= h
               /\ Write(0, after)
               /\ Later(c, ChangeFollowUps(Master, after))
      /\ UNCHANGED <<present, height, scanned, doomed, acked>>

\* MarkTransactionsOnLongestChain(false) keeps the DAH.
MarkNotOnLongestChain(c) ==
  /\ Calls(c, "chain") /\ 0 \in present
  /\ Write(0, [Master EXCEPT !.unminedSince = IF @ = Nil THEN BackdatedUnminedSince ELSE @])
  /\ UNCHANGED <<present, height, todo, scanned, doomed, acked>>

\* SetConflicting writes the master and drops the signal.
SetConflicting(c, v) ==
  /\ Calls(c, "conflict") /\ 0 \in present
  /\ Write(0, setConflicting(Master, v, height, Retention))
  /\ UNCHANGED <<present, height, todo, scanned, doomed, acked>>

SetLocked(c, v) ==
  /\ Calls(c, "lock") /\ 0 \in present
  /\ Write(0, setLocked(Master, v))
  /\ Later(c, IF NPages > 0 THEN {PageLock(v)} ELSE {})
  /\ UNCHANGED <<present, height, scanned, doomed, acked>>

FreezeUTXO(c, r, o) ==
  /\ Calls(c, "freeze") /\ r \in present /\ CanFreeze(recs[r], o)
  /\ Write(r, freeze(recs[r], o))
  /\ UNCHANGED <<present, height, todo, scanned, doomed, acked>>

UnFreezeUTXO(c, r, o) ==
  /\ Calls(c, "freeze") /\ r \in present /\ CanUnfreeze(recs[r], o)
  /\ Write(r, unfreeze(recs[r], o))
  /\ UNCHANGED <<present, height, todo, scanned, doomed, acked>>

ReAssignUTXO(c, r, o) ==
  /\ Calls(c, "freeze") /\ r \in present /\ CanUnfreeze(recs[r], o)
  /\ recs[r].recordUtxos < Cardinality(Outs[r]) + MaxReassign
  /\ Write(r, reassign(recs[r], o, height, SpendableAfter))
  /\ UNCHANGED <<present, height, todo, scanned, doomed, acked>>

\* PreserveTransactions skips a record that is neither stamped nor preserved,
\* and clears the DAH of the pages whatever the master's was.
PreserveTransaction(c, until) ==
  /\ Calls(c, "preserve") /\ 0 \in present
  /\ Master.deleteAtHeight # Nil \/ Master.preserveUntil # Nil
  /\ Write(0, preserveUntil(Master, until))
  /\ Later(c, IF NPages > 0 THEN {PageDAH(Nil, Pages)} ELSE {})
  /\ UNCHANGED <<present, height, scanned, doomed, acked>>

ProcessExpiredPreservation(c) ==
  LET after == setDeleteAtHeight([Master EXCEPT !.preserveUntil = Nil], height, Retention)
  IN  /\ Calls(c, "preserve") /\ 0 \in present
      /\ Master.preserveUntil \in 1..height
      /\ Write(0, after)
      /\ Later(c, ChangeFollowUps(Master, after))
      /\ UNCHANGED <<present, height, scanned, doomed, acked>>

\* The pruner deleted the transaction that spent an output of record r and
\* leaves its mark there.
AddDeletedChildren(c, r, s) ==
  /\ Calls(c, "child") /\ r \in present
  /\ s \in {recs[r].utxos[o] : o \in Offsets}
  /\ Write(r, addDeletedChildren(recs[r], {s}))
  /\ UNCHANGED <<present, height, todo, scanned, doomed, acked>>

Call(c) ==
  \/ \E r \in Recs, D \in SUBSET Offsets \ {{}}, ic, il \in BOOLEAN :
       \E spends \in [D -> Spenders] : Spend(c, r, spends, ic, il)
  \/ \E r \in Recs, o \in Offsets, s \in Spenders : Unspend(c, r, o, s)
  \/ \E b \in Blocks, l \in BOOLEAN : SetMined(c, b, l)
  \/ \E b \in Blocks : UnsetMined(c, b)
  \/ MarkOnLongestChain(c)
  \/ MarkNotOnLongestChain(c)
  \/ \E v \in BOOLEAN : SetConflicting(c, v)
  \/ \E v \in BOOLEAN : SetLocked(c, v)
  \/ \E r \in Recs, o \in Offsets :
       FreezeUTXO(c, r, o) \/ UnFreezeUTXO(c, r, o) \/ ReAssignUTXO(c, r, o)
  \/ \E until \in 1..MaxHeight : PreserveTransaction(c, until)
  \/ ProcessExpiredPreservation(c)
  \/ \E r \in Recs, s \in Spenders : AddDeletedChildren(c, r, s)

-----------------------------------------------------------------------------
(***************************************************************************)
(* Follow-up steps.  A write to a record that is gone changes nothing.     *)
(***************************************************************************)

\* Worker w is done with task t and goes on with next.
Replace(w, t, next) == todo' = [todo EXCEPT ![w] = (@ \ {t}) \cup next]

Unchanging == UNCHANGED <<present, height, scanned, doomed, acked>>

\* sendIncrementBatch, then handleExtraRecords on the signal it brings back.
DoIncrement(w, t) ==
  LET after == incrementSpentExtraRecs(Master, t.n, t.height, Retention)
  IN  /\ t.kind = "increment"
      /\ IF 0 \in present
           THEN /\ Write(0, after)
                /\ Replace(w, t, IncrementFollowUps(t.height, Signal(Master, after)))
           ELSE Replace(w, t, {}) /\ UNCHANGED recs
      /\ Unchanging

\* verifyAllChildrenSpent reads one page.  A page that is gone ends the
\* follow-up with an error; one that is not all spent means the counter drifted.
DoVerify(w, t, p) ==
  /\ t.kind = "verify" /\ p \in t.pages
  /\ Replace(w, t, IF p \notin present THEN {}
                   ELSE IF ~AllSpentHere(recs[p]) THEN {ClearMaster}
                   ELSE IF t.pages = {p} THEN {PageDAH(t.height + Retention, Pages)}
                   ELSE {Without(t, p)})
  /\ UNCHANGED recs
  /\ Unchanging

\* handleDAHSetSignal takes back the DAH the drifted counter gave the master.
DoClearMaster(w, t) ==
  /\ t.kind = "clearMaster"
  /\ recs' = IF 0 \in present THEN [recs EXCEPT ![0].deleteAtHeight = Nil] ELSE recs
  /\ Replace(w, t, {})
  /\ Unchanging

\* sendSetDAHBatch on one page, UPDATE_ONLY.
DoPageDAH(w, t, p) ==
  /\ t.kind = "pageDAH" /\ p \in t.pages
  /\ recs' = IF p \in present THEN [recs EXCEPT ![p].deleteAtHeight = t.n] ELSE recs
  /\ Replace(w, t, Remaining(t, p))
  /\ Unchanging

DoPageLock(w, t, p) ==
  /\ t.kind = "pageLock" /\ p \in t.pages
  /\ recs' = IF p \in present THEN [recs EXCEPT ![p] = setLocked(@, t.n = 1)] ELSE recs
  /\ Replace(w, t, Remaining(t, p))
  /\ Unchanging

Protected(rec) == rec.unminedSince # Nil /\ ~rec.conflicting

\* clearUnminedDAH: the master write is conditional, the pages follow it.
DoUnminedClear(w, t) ==
  /\ t.kind = "unminedClear"
  /\ IF 0 \in present /\ Protected(Master) /\ Master.preserveUntil = Nil
       THEN /\ Write(0, [Master EXCEPT !.deleteAtHeight = Nil])
            /\ Replace(w, t, IF t.pages = {} THEN {} ELSE {PageDAH(Nil, t.pages)})
       ELSE Replace(w, t, {}) /\ UNCHANGED recs
  /\ Unchanging

FollowUp(w) ==
  \E t \in todo[w] :
    \/ DoIncrement(w, t)
    \/ DoClearMaster(w, t)
    \/ DoUnminedClear(w, t)
    \/ \E p \in Pages : DoVerify(w, t, p) \/ DoPageDAH(w, t, p) \/ DoPageLock(w, t, p)

\* A follow-up is lost: a write error that is only logged, a cancelled
\* context, a crash of the process.
Abandon(w) ==
  /\ "fail" \in Ops /\ todo[w] # {}
  /\ \E t \in todo[w] : Replace(w, t, {})
  /\ UNCHANGED <<present, recs, height, scanned, doomed, acked>>

-----------------------------------------------------------------------------
(***************************************************************************)
(* The pruner.                                                             *)
(***************************************************************************)

Due(rec) == rec.deleteAtHeight # Nil /\ rec.deleteAtHeight <= height

\* The DAH query returns the master: it is protected while unmined, otherwise
\* it goes with all its pages.
PruneMaster ==
  /\ "prune" \in Ops /\ 0 \in present /\ Due(Master) /\ Idle(Pruner)
  /\ IF Protected(Master)
       THEN Later(Pruner, {UnminedClear(Pages)}) /\ UNCHANGED doomed
       ELSE doomed' = doomed \cup Recs /\ UNCHANGED todo
  /\ UNCHANGED <<present, recs, height, scanned, acked>>

\* The DAH query returns a page.
PrunePage(p) ==
  /\ "prune" \in Ops /\ p \in present \ scanned /\ Due(recs[p])
  /\ scanned' = scanned \cup {p}
  /\ UNCHANGED <<present, recs, height, todo, doomed, acked>>

\* The page is judged by its master, read afterwards; an orphan page goes.
JudgePage(p) ==
  /\ p \in scanned /\ Idle(Pruner)
  /\ scanned' = scanned \ {p}
  /\ IF 0 \in present /\ Protected(Master)
       THEN Later(Pruner, {UnminedClear({p})}) /\ UNCHANGED doomed
       ELSE doomed' = doomed \cup {p} /\ UNCHANGED todo
  /\ UNCHANGED <<present, recs, height, acked>>

\* executeBatchDeletions: unconditional, whatever happened since the read.
DeleteRecord(r) ==
  /\ r \in doomed
  /\ doomed' = doomed \ {r}
  /\ present' = present \ {r}
  /\ UNCHANGED <<recs, height, todo, scanned, acked>>

Prune ==
  \/ PruneMaster
  \/ \E p \in Pages : PrunePage(p) \/ JudgePage(p)
  \/ \E r \in Recs : DeleteRecord(r)

Tick ==
  /\ height < MaxHeight
  /\ height' = height + 1
  /\ UNCHANGED <<present, recs, todo, scanned, doomed, acked>>

Next ==
  \/ \E c \in Callers : Call(c)
  \/ \E w \in Workers : FollowUp(w) \/ Abandon(w)
  \/ Prune
  \/ Tick

Spec == Init /\ [][Next]_vars

\* A caller waits for its follow-ups, the pruner runs on every new block and
\* works through the whole batch it selected, and blocks keep coming.
FairSpec ==
  /\ Spec
  /\ \A w \in Workers : WF_vars(FollowUp(w))
  /\ WF_vars(PruneMaster)
  /\ \A p \in Pages : WF_vars(PrunePage(p)) /\ WF_vars(JudgePage(p))
  /\ \A r \in Recs : WF_vars(DeleteRecord(r))
  /\ WF_vars(Tick)

-----------------------------------------------------------------------------
(***************************************************************************)
(* Properties.                                                             *)
(***************************************************************************)

\* Every bin and every pending follow-up has the shape the code gives it.
TypeOK ==
  /\ present \subseteq Recs
  /\ recs \in [Recs -> Record]
  /\ height \in Nat
  /\ todo \in [Workers -> SUBSET Task]
  /\ scanned \subseteq Pages
  /\ doomed \subseteq Recs
  /\ acked \subseteq Recs \X Offsets \X Spenders

\* spendMulti counts a slot once, however often it is re-spent, and unspend
\* uncounts it only for its owner: on every record the spentUtxos bin is exactly
\* the number of outputs that hold a spender, through freezing and reassignment.
SpentCountExact ==
  \A r \in Recs : recs[r].spentUtxos = Cardinality(SpentSet(recs[r]))

\* No double spend: a spend that was answered without error still owns its
\* output until its own unspend, whatever other spenders, rollbacks, freezes
\* and reassignments did meanwhile (teranode.lua spendMulti and unspend).
AckedSpendStands ==
  \A a \in acked : recs[a[1]].utxos[a[2]] = a[3]

\* "DAH set means safe to delete", for the record the pruner deletes first: a
\* master that carries a DAH and is not conflicting is mined and every output
\* stored on it is spent, under every interleaving of calls and follow-ups.
MasterStampMeansSpent ==
  Master.deleteAtHeight # Nil /\ ~Master.conflicting =>
    /\ Outs[0] \subseteq SpentSet(Master)
    /\ Master.blockIDs # {}

\* Preservation outranks every other reason to delete: while a master is
\* preserved no spend, mine, conflict, chain or counter update stamps it.
PreservedHasNoStamp ==
  Master.preserveUntil # Nil => Master.deleteAtHeight = Nil

\* lastSpentState, which decides whether a page reports a transition to its
\* master, never disagrees with the page's own counters, so that no
\* transition is reported twice or missed by setDeleteAtHeight.
LatchMatchesPage ==
  \A p \in Pages :
    Retention > 0 /\ Outs[p] # {} /\ ~recs[p].conflicting =>
      recs[p].lastSpentState = AllSpentHere(recs[p])

\* The pruner never deletes a record that still has a spendable output: records
\* keep their last contents here after they are deleted.
NoLiveOutputPruned ==
  \A r \in Recs \ present : Outs[r] \subseteq SpentSet(recs[r])

Reassigned(r) == \E o \in Offsets : recs[r].spendableIn[o] > 0

\* reassign: "Ensure record is not DAH'd when all UTXOs are spent".  Once any
\* output of the transaction was reassigned, none of its records is deleted.
ReassignedIsKept ==
  (\E r \in Recs : Reassigned(r)) => present = Recs

AllIdle == \A w \in Workers : Idle(w)

\* One caller at a time: when its follow-ups are done, the pages are locked
\* exactly when the master is (SetLocked, and SetMinedMulti's page unlock).
PageLocksFollowMaster ==
  AllIdle => \A p \in Pages \cap present : recs[p].locked = Master.locked

FullySpent ==
  /\ \A r \in Recs : Outs[r] \subseteq SpentSet(recs[r])
  /\ Master.blockIDs # {} /\ Master.unminedSince = Nil

\* The chain of signals from the pages to the master and of DAH writes back to
\* the pages is complete: a transaction that is mined on the longest chain and
\* has every spendable output spent is deleted in the end, pages included
\* (handleExtraRecords, SetDAHForChildRecords and the pruner).
FullySpentIsPruned == FullySpent ~> (present = {})

\* A page's DAH does not outlive its reason: with no follow-up pending, a page
\* that carries one has no unspent output ("DAH set means safe to delete",
\* aerospike.go; "the pages keep a stale DAH under a master that has none").
SettledPageStampMeansSpent ==
  AllIdle => \A p \in Pages \cap present :
               recs[p].deleteAtHeight # Nil => Outs[p] \subseteq SpentSet(recs[p])

\* incrementSpentExtraRecs: "Go verifies children before acting on DAH signals,
\* so a drifted counter is harmless".  A DAH is written to a page only while
\* that page is all spent.
StampsOnlySpentPages ==
  [][\A p \in Pages :
       recs'[p].deleteAtHeight # recs[p].deleteAtHeight /\ recs'[p].deleteAtHeight # Nil
         => Outs[p] \subseteq SpentSet(recs[p])]_vars

\* SetConflicting: "the flag should always be stored and read on the main
\* record".  A spend that does not ignore the flag takes no output of a
\* transaction whose main record is conflicting.
ConflictingRefusesSpends ==
  [][\A r \in Recs :
       recs'[r].spentUtxos > recs[r].spentUtxos => ~Master.conflicting]_vars

-----------------------------------------------------------------------------
(***************************************************************************)
(* Refinement.                                                             *)
(***************************************************************************)

Ledger ==
  INSTANCE UtxoLedger WITH
    Outputs <- Recs \X Offsets,
    Free <- Unspent,
    slot <- [x \in Recs \X Offsets |-> recs[x[1]].utxos[x[2]]],
    claims <- {<<<<a[1], a[2]>>, a[3]>> : a \in acked}

\* Whatever the records, counters and follow-ups do, the outputs behave as the
\* ledger promises: every call, follow-up and deletion claims free outputs,
\* releases an owner's output, freezes or thaws one, or leaves them all alone.
ImplementsLedger == Ledger!Spec

=============================================================================
