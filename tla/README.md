# Teranode: a TLA+ verification project

Teranode is a Bitcoin SV node split into services that share a UTXO store and a
blockchain store. This directory holds TLA+ models of the paths on which a
transaction lives or dies: how its outputs are stored, spent, paginated and
deleted; how it is created; how it is admitted and handed to block assembly; how
a double spend is resolved when the chain moves; and how a block's transactions
come to be recorded as mined while block assembly follows the chain. TLC checks
each on small instances, and TLAPS proves every safety invariant the runs check for
every instance.

Paths below are relative to the repository root.

## 1. Inventory of the system

| component | state it keeps | operations | what is hard | what makes it correct |
|---|---|---|---|---|
| **UTXO record functions** `stores/utxo/aerospike/teranode.lua` | one record: outputs with their spending data, counters, flags, delete-at-height (DAH), mined state | spend, unspend, setMined, freeze, unfreeze, reassign, setConflicting, setLocked, preserveUntil, addDeletedChildren, incrementSpentExtraRecs; all but the alert functions, preserveUntil, setLocked and addDeletedChildren end in setDeleteAtHeight | long sequences of legal calls; idempotence of retries | no double spend, exact counters, DAH only when deletable |
| **UTXO store client** `spend.go`, `un_spend.go`, `set_mined*.go`, `longest_chain.go`, `conflicting.go`, `locked.go`, `alert_system.go`, `aerospike.go` (same directory) | none of its own beside the cached block height; follow-up writes in flight | calls on one record, then, on the signal of the response, writes on the transaction's other records | the follow-ups are separate writes, may interleave with everything and may be lost | pages and master agree once follow-ups are done; nothing is lost for good |
| **UTXO creation** `create.go` | lock record, blob, records with a `creating` bin | storeExternallyWithLock | lock expiry, lost answers, crashes, recovery by others | all or nothing visible, one winner, completion |
| **UTXO pruner** `aerospike/pruner/pruner_service.go` | keys read from the DAH index | select, judge, clear, delete | deletes from a stale read | never deletes a live output |
| **Conflict processing** `stores/utxo/process_conflicting.go`, `conflict_ancestry.go`, `aerospike/conflict_wal.go` | an intent log | mark, unspend, spend, clear, unlock; their inverse; compensation; replay or healing at startup | crash or failure between steps, writes lost without notice, transactions arriving meanwhile, the chain moving while the process is down | confirmed spends stand; what is not flagged owns its inputs; the last completed operation decides |
| **Validator, spend-and-create** `services/validator`, `stores/utxo/spend_and_create.go` | none | spend parents, create locked, hand to block assembly, unlock; unwind on failure | each call has its own timeout and may still take effect after it; load shedding; concurrent repeats | no half-accepted transaction, no record without its inputs |
| **Block assembly, subtree processor** `services/blockassembly` | current subtrees, queue, best block | add, remove, moveForward, catch-up, reorg, reset, restart | queue and reset run beside the validators; moves run beside the worker that sets blocks mined | no lost or repeated transaction in the template |
| **Blockchain service, store, FSM** `services/blockchain`, `stores/blockchain` | headers, chain work, `invalid`, `subtrees_set`, `mined_set`, node state | add, invalidate, revalidate, state events | notifications, flags written by several services | best chain by work; flags that mean what they say |
| **Block and subtree validation** `services/blockvalidation`, `services/subtreevalidation` | set-mined queue, retries, back-offs, catch-up lock, caches | validate, set mined, catch up | the verdict of a block changes while its transactions are tagged; dropped retries | every block is settled, and its records say so |
| **Pruner service, persisters** `services/pruner`, `blockpersister`, `utxopersister` | progress markers, files | preserve parents, prune, persist, consolidate | coordination of progress | nothing needed is deleted |
| **P2P, legacy, propagation, asset, RPC, alert, caches, blob store** | peers, bans, caches | message handling | mostly I/O | out of scope for now |

How they interact: the validator and block validation call Spend, Create and
Unspend; block validation's set-mined worker calls SetMinedMulti and then sets
the block's mined_set, for which block assembly waits; block assembly calls
MarkTransactionsOnLongestChain after a reorganisation; conflict processing calls
SetConflicting, Unspend, Spend and SetLocked; the alert service calls freeze,
unfreeze and reassign; the pruner service calls PreserveTransactions,
ProcessExpiredPreservations and the pruner on every new block. All of these run
concurrently in several processes against the same records, and Aerospike
guarantees atomicity of one operation on one record, no more. `PROJECT.json`
lists every component with its status, and the hazards with the line where each
bites.

## 2. Modules

| module | models |
|---|---|
| `UtxoRecord` | one record and every mutating function of `teranode.lua`, each an operator from record to record |
| `UtxoStore` | one paginated transaction: concurrent callers, their follow-up writes, lost follow-ups, the pruner, block arrival |
| `UtxoLedger` | the abstract specification: outputs that are free, frozen or owned by one spender |
| `UtxoCreate` | the two-phase creation of one paginated transaction by concurrent creators with faults |
| `ConflictProcessing` | conflict resolution for a block that joins and leaves the chain, with its intent log |
| `ValidatorCommit` | admission of transactions, beside block assembly's queue, template and reset |
| `MinedStatus` | the blockchain store's flags, the worker that sets blocks mined and block assembly's moves |
| `UtxoStore_proofs`, `UtxoPrune_proofs`, `UtxoLedger_proofs`, `UtxoCreate_proofs`, `ConflictProcessing_proofs`, `ValidatorCommit_proofs`, `MinedStatus_proofs` | theorems and their proofs (section 5) |
| `MCUtxoStore`, `MCUtxoCreate`, `MCConflict`, `MCValidator`, `MCMined` | small instances for TLC |

`UtxoStore` is built on `UtxoRecord` and implements `UtxoLedger`. The other modules
take the store at the level of the ledger: an output has a spender or none, and
one call on one record is atomic.

### UtxoRecord, UtxoStore and UtxoLedger

A transaction with more outputs than fit in one record is *paginated*: record 0,
the master, holds the mined state (`blockIDs`, `unminedSince`) and
`totalExtraRecs`; the other records, the pages, hold outputs only. `recs[r]` is a
record with its bins under their names in the source; an absent bin is `Nil`.
`deleteAtHeight` (DAH) is the bin the pruner selects by.

An action is one call: it applies the server-side function to one record and
adds to `todo[c]` the follow-ups that the Go code performs on the signal:

* a page that becomes all spent (`ALLSPENT`) increments the master's
  `spentExtraRecs`; one that stops being so (`NOTALLSPENT`) decrements it;
* a master whose DAH was set or cleared (`DAHSET`, `DAHUNSET`) copies that to its
  pages; when the DAH came from the counter, the pages are first read one by one
  (`verifyAllChildrenSpent`) and a drifted counter takes the master's DAH back;
* mining and locking write the pages' locks.

Each follow-up step is a separate action. A worker starts no new call before its
follow-ups are done, because the code waits for them; `Callers` is the number of
concurrent calls. `Abandon` drops a follow-up at any point: the code logs the
error and goes on, or the process died. The pruner reads a record by its DAH,
protects unmined masters, judges a page by its master read later, and deletes
what it decided on later still, unconditionally. Deleted records keep their last
contents in `recs` so that properties can speak of them. `acked` is a history
variable: the spends that were answered without error and not undone by their
owner.

The refinement maps every output to `free`, `frozen` or its spender by the slot
that holds it, across all pages; counters, latches, follow-ups, flags and pruner
steps are stutters of `UtxoLedger`. Deleting a record is a stutter too: the ledger
remembers what was spent.

Abstractions: hashes, block order within `blockIDs`, subtree indices and the
reassignment log are left out, since no function branches on them except on a
mismatch that changes nothing. The batchers, retries of idempotent writes and the
expression-based variants of spend and setMined (off by default,
`settings/settings.go`) are left out.

### UtxoCreate

`at[c]` is where creator `c` is in `storeExternallyWithLock`. Every write may
fail, applied or not; a creator may crash anywhere; the lock record may expire at
any time, also under a creator that is still working. `live` is the history of
creators whose lock has not expired. The server-side `setMined` may run on the
master at any time, and a transaction that is met missing or still creating is
processed again (`Reencounter`).

### ConflictProcessing

A block carries `Winners`, which spend outputs that stored transactions (`Held`)
already spend. `MoveForward` and `MoveBack` begin an operation: log the intent,
read the losers, flag them and their descendants level by level (each level is a
read followed by a write, and transactions arrive in between), unspend, spend,
clear the winners' flags, unlock, remove the intent. The inverse promotes the
oldest counter of each demoted transaction. A call that fails starts the
compensation; a crash leaves the intent, and `Restart` replays it, or heals it
when the chain has moved meanwhile. The guard of `conflict_ancestry.go` refuses a
block that would take an output from a transaction mined on its own ancestry
(`confirmed`). Of a SetConflicting batch the code looks at the error of the whole
only, so a flag or a link to a parent that fails on one record is lost and the
operation goes on (`WriteLevel`, `ReadLevel`, `ClearWinners`, `UndoFlags` with a
fault); an error of the whole batch ends it (`LevelFails`, `ClearFails`).

`applied` is block assembly's position in memory and `saved` the one it persists.
`Advance` moves both after the operation is complete, or one, or none when a later
step of the move or the write of the position fails (SetState's error is only
logged); `Restart` takes `applied` from `saved`, and a replay moves neither. So a move
may be made again on a store that has made it (finding 5), and after a replayed
forward operation a block that leaves the chain before block assembly has moved to it
is never reversed. `undone` records that a compensation ran, `revived` the
transactions that were unflagged because their parent was, whatever they own at that
moment (finding 18), `missed` those whose last flag was lost, `side` the kind of the
last operation that was completed.

### ValidatorCommit

`at[a]` is where submission `a` is between reading its parents and its answer.
Spends are made one by one, each may fail or be given up and land later
(`lateSpend`, `lateCreate`, `lateSend`); a partial spend is rolled back after a
probe for the spender's record; creation may end unknown; the hand-off may be
shed because the queue is full, and the record is then deleted and its inputs are
given back, unless the submission comes out of a block. Block assembly dequeues
into the template and may reset: it reads the records one by one, loads those
whose parents are known, unlocks, and drains what was queued meanwhile.

A missing parent is forgiven when the transaction has a record (`Forgive`), and its
output counts as spent from then on. A Create that fails for another reason than that
the caller gave up waiting gives the spends back; whether its write is still applied
is open (`CreateFails`, `lateCreate`).

The reload goes over what it read in the order of `created` (`stamp`, as read):
transactions with a parent that cannot be read, is not there or was rejected are
rejected, those that sort before a parent are skipped (`Sifted`), with the default
settings. One clock is assumed for all validators, and two records never share a
time: the code puts the parent first on a tie.

`contended`, `disowned`, `indoubt` and `unheld` are history, the transactions for which
the code's own reasoning did not hold: two parties worked on one at once; a failed
repeat gave the spends of a stored record back; a Create was reported failed and its
write may come; it was or will be unlocked though the template does not get it (a
block's transaction that was shed, one the reload left out, one the drain dropped).

### MinedStatus

The rows of the blockchain store are `id`, `invalid`, `subtreesSet`, `minedSet`; `Best`
is its order (work, peer, row). A block is accepted once its parent is valid and
settled, stored, gets `subtrees_set`, and may be invalidated with its descendants
or reconsidered at any time. The worker takes a hash from the queue, reads the
block's verdict (`unset`), asks whether the block is on the longest chain, tags
its records one after the other in any order, and sets `mined_set`, retries,
drops or rejects the block. The feeder queues whatever has `subtrees_set` and not
`mined_set`, which is also how a reconsidered block gets back to the worker. Block
assembly handles one notification at a time: nothing, one block forward, a catch-up, a
reorganisation, a reset, and after a restart a load, with the waits the code has before
them. `news` says whether a notification waits. It may be dropped on its way
(`LoseNews`), and what it starts may fail: reading the best block or the blocks on the
way to it, or the move (`NewsFails`); the catch-up, by its time limit or a call
(`CatchUpFails`); the start of a reset (`ResetFails`). A failed reorganisation goes on
as a reset (`ReorgFails`). In the other cases the template is as before and `news` is
"lost" unless another notification waits. `tags[t]` are the block ids in a record,
`unmined` the records with `unmined_since`. `raced` (the flags of a block were
rewritten while the worker had it) and `early` are history variables: `early` says
that the template came from blocks whose verdict was not known yet, by a load over a
chain that is not settled or was raced, or by a reorganisation that left a block
behind which repeats a transaction and was not invalid when the flags were read, or
that it is what such a reorganisation made and the reset that is to follow has not
loaded yet; see findings 3 and 15.

## 3. Runs

Every bound is a constant of a module: `MaxHeight` (chain length), `OpsUntil` (no
new calls from this height), `MaxReassign`, `MaxFaults`, `MaxMoves`, `MaxResets`,
`MaxAttempts`, `MaxOps`. `Ops` and `FaultKinds` select what the environment does, so that
each run concentrates on one question. Deadlock is not checked because the
systems may legitimately come to rest: no calls pending, bounds used up.

| run | instance | shows |
|---|---|---|
| `StoreCalls` | 1 caller, which ends its follow-ups before its next call (they interleave with block arrival only; the theorems are for any number of callers), 2 spenders, 1 page, coinbase; all calls but unmining, no losses, no pruner | `TypeOK`, `SpentCountExact`, `AckedSpendStands`, `MasterStampMeansSpent`, `LatchMatchesPage`, `PreservedHasNoStamp`, `PageLocksFollowMaster`, `ImplementsLedger` |
| `StorePrune` | 2 callers, 2 pages, lost follow-ups, freeze and reassign, pruner; no rollbacks | `NoLiveOutputPruned`, `ReassignedIsKept` |
| `StoreLive` | 2 callers, 2 pages, fair | `FullySpentIsPruned` |
| `Create` | 3 creators, 1 page, 2 faults, mining, fair | `TypeOK`, `OneWinner`, `LockExcludes`, `SpendableMeansComplete`, `MasterClearedLast`, `CreationCompletes` |
| `Conflict` | a winner; a loser with two inputs; a child of it with two inputs, a rival, a thief and an heir of the winner that arrive meanwhile; nothing or the loser confirmed; 2 moves of the chain, 2 faults, fair | `TypeOK`, `ConfirmedSpendStands`, `BelievedOwns`, `LastOperationStands`, `IntentsResolved` |
| `CommitRace` | 4 submissions: one transaction twice, a rival, a child out of a block; queue of one, 2 faults | `RecordOwnsInputs`, `NoDanglingSpend`, `AssemblyHasRecords` |
| `CommitReload` | 3 submissions, 1 reset, 1 fault, fair | `TypeOK`, `TemplateHasParents`, `ReloadHeals` |
| `Mined` | two branches of 1 and 2 blocks, the last repeating a transaction; 1 fault of any kind, 1 block invalidated or reconsidered | `TypeOK`, `SettledTagsMatch`, `TemplateIsUnmined` |
| `MinedLive` | the same tree without the repeat, 2 faults, fair | `EveryBlockSettles`, `AssemblyFollows` |
| `StoreStaleStamp` | violation | finding 1 |
| `CommitResubmit` | violation | finding 2 |
| `MinedLostUpdate` | violation | finding 3 |

Why the bounds are enough to be interesting: two pages are needed for the counter
to be partly filled and for a page batch to be half done; two callers for a
follow-up to be overtaken; two spenders for a foreign spend; three creators for
one to finish what a second left while the first, whose lock expired, goes on;
two faults for a failed write followed by a failed recovery or a crash; two moves
for a block that joins and leaves the chain; a queue of one so that it is full;
two branches of different length so that a reorganisation, a catch-up over two
blocks and a reset (from depth 2) all happen; two faults and two attempts for a
block to be dropped from the worker's queue. The theorems below remove these
bounds for the properties they state.

`NoLiveOutputPruned` is checked and proved without `unspend` and `conflict` in `Ops`:
with rollbacks the pages can keep a stale DAH (finding 1), and the pruner deletes
conflicting transactions on purpose. The other calls the run lacks are left out for
its size; the theorem covers them. `PageLocksFollowMaster` is for one caller, as two
overlapping lock calls may finish on the pages in either order, and without unmining,
which unlocks the master and not the pages (`set_mined.go:370`).

Fairness. `StoreLive`: a caller waits for its follow-ups, the pruner runs on every
new block and works through the batch it selected, and blocks keep coming; no
follow-up is lost in this run, since a lost increment is never repeated by the
code. No fairness is assumed of calls. `Create`: a creator that is running goes
on, a lock record expires by its TTL, and a transaction that is missing or still
creating is processed again when it is met
(`services/subtreevalidation/processTxMetaUsingStore.go`), which is the code's own
recovery path. `Conflict`: a running operation goes on and a dead process is started
again. `CommitReload`: the subtree processor's loop goes on. `MinedLive`: the worker,
the back-off timers, the feeder (a ticker of one minute), the sweep for
`subtrees_set` of blocks that are not invalid (`GetBlocksSubtreesNotSet.go:88`) and block
assembly's loop go on; nothing is assumed of arriving blocks, operators, notifications
or faults. Faults are finite everywhere.

Mutants. Every property of a passing run has a faulty variant of a modelled
definition, kept beside it under a name of its own, that breaks it.

## 4. Findings

With a run of their own:

1. **Stale DAH on pages after an unspend on the master** (`StoreStaleStamp`).
   `unspendLua` reacts to `NOTALLSPENT` only; when the output is on the master and
   the DAH was set, `DAHUNSET` is dropped and the pages keep theirs, which the
   pruner selects by.
2. **A failed repeat gives away the inputs of a stored record** (`CommitResubmit`).
   A repeat of a stored transaction passes its spends as the same spender; when
   its Create then fails definitely, the inputs are unspent although the first
   submission's record owns them.
3. **An invalidation is lost under the worker's hands** (`MinedLostUpdate`). The
   worker reads a block's verdict once and sets `mined_set` unconditionally at the
   end; an InvalidateBlock in between has its cleared `mined_set` overwritten, the
   block is never visited again and its id stays in the records.

Stated as properties beside the others, with the sentence of the code or the docs
they come from, and refuted by TLC when added to the run in brackets:

4. `FlaggedIsLinked` [`Conflict`]: SetConflicting and updateParentConflictingChildren look
   at the error of the batch as a whole and not at single records, unlike
   `set_mined.go:639`, `spend.go:175`, `locked.go:304` and `create.go:601`. A transaction is
   flagged without its parent naming it, so that the reverse does not find it; or its
   flag is lost, and its inputs are taken all the same (`conflicting.go:144` and 179,
   against line 81).
5. `MoveIsPrepared` [`Conflict`]: the conflicts of a block are resolved before block
   assembly persists that it has moved to it (`BlockAssembler.go:1349`, 1360, 1876).
   After a crash in between, a replay, or a failure of a later step of the move, the
   winners, which are read from the subtree file, are no longer flagged, and
   ProcessConflicting refuses them every time (`process_conflicting.go:290`, against line
   286 and `BlockAssembler.go:1524`: "a clean restart heals the UTXO store with no
   operator action").
6. `RollbackIsDefinite` [`CommitResubmit` with one submission]: only a wait that the
   caller gives up is marked as an unknown outcome (`create.go:278`); an error of the
   batch or of a record, a timeout included (`create.go:572`, 628), is a plain storage
   error, and the inputs are given back although the write may have been applied
   (`util/uaerospike/overload_retry.go:47`; `spend_and_create.go:164`, against line 106:
   "when the create definitely failed").
7. `AssemblyKeepsUp` [`MinedLive`]: block assembly learns of a new tip from a
   notification, which may be dropped (`services/blockchain/Client.go:252`), and every
   failure of what it starts uses it up (`BlockAssembler.go:1262`, 1298, 1309, 1335, 1343).
   It stays behind until the next block, a restart or a generate call, as
   `services/blockassembly/Server.go:2998` says ("nothing in this loop converges on its
   own"), against `docs/topics/services/blockAssembly.md:391`: "keeps the node
   synchronized with the network". `AssemblyFollows` excludes this by name: `news = "lost"`.
8. `RollbackRestores` [`Conflict`]: the compensation clears the conflicting flag of
   the winner too, so that the next attempt refuses it
   (`process_conflicting.go:1003`, against the comment at line 164).
9. `ReplayConverges` [`Conflict`]: replaying a completed operation flags what has
   spent the winner since and does not clear it (`BlockAssembler.go:1733`, against
   line 1522).
10. `InverseRestores` [`Conflict`]: the inverse looks at the inputs of the demoted
    transaction only and does not bring back all descendants of a loser
    (`process_conflicting.go:693`, against line 468).
11. `TemplateIsClosed` [`CommitReload`]: what is created after the loader has passed
    and queued before the drain is in neither, is unlocked, and its child enters
    the template without it (`SubtreeProcessor.go:1987`, against
    `docs/topics/features/two_phase_commit.md:56`).
12. `ShedHasNoDescendant` [`CommitRace`]: a submission out of a block ignores locks
    and can spend a parent that is then shed and deleted (`Validator.go:2703`,
    against line 2638).
13. `ConflictingRefusesSpends` [`StoreCalls`] and `StampsOnlySpentPages` [`StorePrune`
    with `unspend`]: the conflicting flag is written to the main record and read
    from the page (`teranode.lua:305`); a counter that a lost decrement left too
    high lets setMined or a spend stamp pages nobody has verified
    (`teranode.lua:1265`).
14. `ReloadInOrder` [`CommitReload` with `InBlock = {a3}`]: a parent that was shed and
    created again under a child out of a block has the later `createdAt`; the reload
    skips the child, and not what spends the child (`BlockAssembler.go:3020`, against
    line 2779).

Seen in traces while the properties of `MinedStatus` were found, and excluded from
them by name or by bound:

15. `WaitForPendingBlocks` asks for blocks with `subtrees_set` and without `mined_set`
    (`GetBlocksMinedNotSet.go:86`), so a reset or start can load the template while a
    block of its own chain is stored and not tagged; its transactions then stay in
    the template although the block is settled later (`BlockAssembler.go:707` says
    the wait "Ensures all blocks have mined_set=true"). A block whose flags were
    rewritten under the worker (finding 3) has the same effect. And `handleReorg` reads
    the flags of the blocks it leaves behind before `reorgBlocks` waits for pending
    blocks: one that repeats a transaction of a common ancestor and is rejected in
    between is taken for valid, its transactions are put back, and the repeated one
    is in the template although the chain has it. `TemplateIsUnmined` excludes the
    three by `early`.
16. A reset that loads while a block above is tagged, and is then rejected because it
    repeats a transaction, leaves that transaction out of the template until the
    next reset.
17. A reconsidered child and an invalidation of its parent can pass each other and
    leave a valid row over an invalid one, because RevalidateBlock touches a single
    row. `MaxOps` = 1 leaves it out.

Met while the invariants were made inductive; each is a trace TLC confirmed on an
instance of the model, and is excluded from the property by a history variable:

18. A crash between the unspends of a loser's child that has two inputs leaves it
    flagged with one input given back. When the chain moves back before the restart,
    the intent is worked off as a reverse, which gives the loser its inputs and unflags
    its descendants without looking at what they own: the child is believed and lacks
    an input (`BelievedOwns`, by `revived`).
19. A reset that reads a record between its creation and its hand-off unlocks it, and a
    child can spend it; the hand-off is then shed and the record deleted under the
    child. When a second reset reads the parent before and the child after that, and
    its unlock fails, the queued child enters the template without a parent
    (`CommitReload` with two resets and the rival; `TemplateHasParents`, by `contended`).

Also reproducible by other instances of the models: a page without any spendable
output is never reported all spent, so its transaction is never deleted (`StoreLive`
with `Outs <- DataPage`); setMined removes the `creating` bin of the master only,
which makes an incomplete transaction look complete to readers of the master.

## 5. Proofs

`UtxoStore_proofs` proves, for any number of pages, outputs, spenders, blocks,
callers, any retention and any set of calls (follow-ups lost or not, pruner
included), `TypeCorrect`, `CountExact`, `AckedSafe`, `MasterStampSafe`,
`PreservedSafe` and `LatchSafe`: the invariants of the same subjects in the runs.
Assumptions: `OffsetsFinite` (a record has finitely many positions),
`SlotsDistinct` (the markers of a slot differ from each other and from spenders),
`StoreConstants` (the constants have their types).

None of these invariants is inductive alone. `MasterStampMeansSpent` needs that
`spentUtxos` is the exact count and that `recordUtxos` is never less than the
number of spendable outputs (reassignment raises it); the exact count needs that
a slot holds `NoOutput` exactly where there is no output; `PreservedHasNoStamp`
needs that pages are never preserved and that retention 0 means no DAH. The
inductive invariant is therefore

    Inv == TypeOK /\ AllGood /\ AckedSpendStands

where `AllGood` says of each record `Base` (types, slots, counters), and
`GoodMaster` or `GoodPage`. The argument is by function: one lemma per server-side
function shows that it maps a good record to a good one and keeps what other
conjuncts need, and one step per action applies it. All theorems follow from
`Invariance`.

`UtxoLedger_proofs` proves `Refines`: the store implements the ledger. Initial
states map to initial states, and with `Inv` every call is a step of the ledger on
the output it names or a stutter, every follow-up, pruner step and block arrival a
stutter.

`UtxoPrune_proofs` proves what the pruner deletes and what the pages' locks follow.
`NoLivePruned` and `ReassignedKept` assume `Settled`: the environment makes no unspend
and sets no conflicting flag, because with either the properties are false. Everything
else may happen: lost, late and reordered follow-ups, mining and unmining, freezing,
locking, preserving, any number of callers and pages. The argument is one of counting.
A page latches all spent once, and then for good; the caller that saw it latch moves
the master's counter once, late or never (`Reports`). So the counter and the reports
under way never exceed the latched pages (`Counted`), and a master that counts all its
pages has every page all spent. Every DAH, every follow-up that writes one, every key
the pruner holds and every deletion comes from such a master (`Expiring => AllOver`),
and being all spent is stable. A reassigned output raises `recordUtxos` for good and so
keeps its page from ever latching (`AllPlain`). `PageLocksSafe` assumes
`OneCarefulCaller`: at most one caller, no lost follow-up, no unmining; its invariant
says that a page whose lock differs from the master's has the write still to come.

`UtxoCreate_proofs` proves `TypeCorrect`, `LockSafe`, `WinnerUnique`,
`CompletionSafe` and `MasterLast`, for any number of creators, pages and faults, from
`CreateConstants`. `OneWinner` follows from: the master is written by at most one
CREATE_ONLY write, so at most one attempt has `made`, and a win consumes it.
`CompletionSafe` and `MasterLast` follow from: an attempt that reached phase 2 saw
every record answered, so all exist; and one that reached the master saw every page
cleared.

`ConflictProcessing_proofs` proves `TypeCorrect`, `ConfirmedStands`, `BelievedOwn` and
`LastOperationDecides`, for any graph of transactions, any winners, faults and moves,
from `ConflictConstants`. Two of its conjuncts say what the store is before the block
comes, and the code justifies them by what it does for every earlier transaction and
block: what is held and not flagged has no double spend, and a chain has the parents of
the transactions it has. `ConfirmedStands` needs that no operation has a confirmed
transaction in hand (`Spared`): the roots are checked, and below them whoever spends an
output of an unconfirmed transaction is unconfirmed. `BelievedOwn` needs that a spend is
reverted only for a transaction that is flagged or being flagged, and that a flag is
cleared only for one that was just given its inputs; one whose flag was lost is in
`missed` until its flag is written again. `LastOperationDecides` needs that an
intent is in the log as long as the winners are between two states, and that the
winners a reverse has done are flagged and spend nothing, so that no cascade of a later
winner reaches them.

`ValidatorCommit_proofs` proves `TypeCorrect`, `RecordsOwn`, `AssemblySafe`,
`TemplateOrdered` and `NoDangling`, for any transactions, submissions, faults, abandoned
writes and resets, from `CommitConstants`. The inductive invariant says who works on a
transaction (`OneCreator`, `Alone`, `Untouched`, `LateIsDone`); that an output, once
spent by a submission, stays its own in every place it can be in until it gives it back
(`SpentSoFar`, `AboutToCreate`, `LateToCreate`, `StoredHolds`, `GivesBack`); that what
is unlocked, or on the list of a reset to be unlocked, was given to block assembly
(`UnlockedIsGiven`, `LiftingGiven`) and queued behind its parents
(`QueuedAfterParents`); that a write which was reported failed and is still to come is
of a transaction in `indoubt`; and that, while nothing has failed, every spender without a
record has somebody who answers for it (`Owed`).

`MinedStatus_proofs` proves `TypeCorrect`, `TagsFollowTheVerdict` (`SettledTagsMatch`) and
`TemplateUnmined`, for every finite tree of blocks, any transactions and any number of
faults, retries, restarts and operators, from `MinedConstants` (a chain is a path to the
genesis block). For the tags the inductive invariant adds that the block in hand is
stored and owes its `mined_set` (`InHand`), that the verdict read at the start is still
the store's unless `raced` (`VerdictHolds`), and that every record the worker is done
with carries that verdict unless a call failed (`DoneTagged`); block assembly is a
frame, as it writes `unmined_since` and never a block id. The types need a best block:
the genesis block is never invalid and no two rows have one number, so the order of the
rows has a first one. For the template, `TemplateFits` says at each place of block
assembly which transactions the template may still have, so that whatever fails leaves
a template that fits the old tip; a load is right because a settled chain has its tags.

Every safety invariant of the passing runs, and the refinement, is stated by a theorem.
Only model-checked are the liveness properties `FullySpentIsPruned`,
`CreationCompletes`, `IntentsResolved`, `ReloadHeals`, `EveryBlockSettles` and
`AssemblyFollows`, because fairness and ENABLED are beyond the prover, and the properties
that TLC refutes.

## 6. Not modelled

* Content: scripts, policy and consensus rules, difficulty, Merkle roots, the layout
  of subtrees. They decide whether a transaction or block is accepted, and enter
  the models as a choice or not at all.
* The restore of a master whose page follow-ups failed twice
  (`applyLongestChainChildDAH`, `processBatchExpiredPreservations`): in the model
  such a follow-up is lost, as after a crash.
* Deletion of external blobs; the pruner's defensive mode (off by default);
  whole-batch transport errors beyond the faults on single records; single-record
  creation (`sendStoreBatch`), which is one atomic write.
* A delete-at-height copy that lands on the pages after `PreserveTransactions`
  cleared them; a reorganisation between the pruner's read and its deletion; the
  DAH that `setLocked(true)` takes away and unlocking does not restore.
* The SQL UTXO store, `SpendAndCreateMulti`, the conflicting fallback of block
  transactions, Kafka, quick validation and catch-up, failures in the middle of a reset
  of block assembly, the reconciliation that a generate call asks for
  (`services/blockassembly/Server.go:3024`), coinbases.
* The services that mostly move bytes (P2P, legacy, propagation, asset, RPC,
  persisters, blob store): their state is peers, files and connections, and most of
  the repository's lines are in them, in generated code, and in the content rules
  above; this is why the map covers a small share of all lines.
* Everything listed `not_modelled` in `PROJECT.json`, with its reason.

## 7. Plan

1. *done* `UtxoRecord`, `UtxoStore`, `UtxoCreate` with their runs and proofs.
2. *done* `ConflictProcessing`, `ValidatorCommit`, `MinedStatus` with their runs.
3. *done* `UtxoLedger` and the refinement, by TLC and as a theorem.
4. *done* Proofs of every safety invariant the runs check.
5. The master restore and the preservation races in `UtxoStore`; the loads of
   `MinedStatus` record by record, as in `ValidatorCommit`.
6. Proofs: what the pruner may delete when spends are taken back, with the stale stamps
   of finding 1 named instead of excluded; that compensations restore what they can;
   action properties of the store's records.
7. The node's state machine, then the pruner service's coordination with block
   assembly and the block persister.
