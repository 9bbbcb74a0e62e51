----------------------------- MODULE MinedStatus -----------------------------
(***************************************************************************)
(* How the transactions of a block come to be recorded as mined.  The      *)
(* blockchain store keeps the tree of blocks with two flags, invalid and   *)
(* mined_set (stores/blockchain/sql).  One worker of block validation      *)
(* visits every block whose mined_set is false, puts the block's id into   *)
(* the records of its transactions, or takes it out when the block is      *)
(* invalid, and then sets mined_set (BlockValidation.go,                   *)
(* update-tx-mined.go).  Block assembly follows the best block with its    *)
(* template and moves the unmined_since marks of the transactions that     *)
(* change sides (BlockAssembler.go, SubtreeProcessor.go).                  *)
(*                                                                         *)
(* The three work on the same records without a common lock, and between   *)
(* any two of their calls blocks arrive, are invalidated and are           *)
(* reconsidered.                                                           *)
(*                                                                         *)
(* Left out: the content checks that precede AddBlock, so a block that     *)
(* repeats a transaction of its own chain can be stored, as optimistic     *)
(* mining does, and setTxMined is what rejects it; the node's own blocks   *)
(* and quick validation, which are stored with the flags already set;      *)
(* failures in the middle of a reset; coinbases; conflicting transactions  *)
(* (see ConflictProcessing); transactions that arrive meanwhile (see       *)
(* ValidatorCommit): every transaction is in the template at first; the    *)
(* reconciliation that generating a block asks for.                        *)
(***************************************************************************)
EXTENDS Integers, FiniteSets

CONSTANTS Blocks,      \* the blocks that may arrive, and Genesis
          Genesis,
          Parent,      \* Parent[b]: the block b builds on
          Chain,       \* Chain[b]: b and its ancestors
          Peer,        \* Peer[b]: rank of the peer that sent b
          Txs,
          TxsOf,       \* TxsOf[b]: the transactions of b
          ResetDepth,  \* a reorganisation this deep resets block assembly
          MaxAttempts, \* setMinedMaxRetries
          FaultKinds,  \* the faults that may happen
          MaxFaults,   \* bound: faults
          MaxOps       \* bound: blocks invalidated or reconsidered

ASSUME MinedConstants ==
  /\ IsFiniteSet(Blocks) /\ Genesis \in Blocks
  /\ Parent \in [Blocks \ {Genesis} -> Blocks]
  /\ Chain \in [Blocks -> SUBSET Blocks]
  /\ Chain[Genesis] = {Genesis}
  /\ \A b \in Blocks \ {Genesis} : Chain[b] = {b} \cup Chain[Parent[b]]
  /\ \A b \in Blocks : \A c \in Chain[b] : Chain[c] \subseteq Chain[b]   \* a chain is a path
  /\ \A b \in Blocks : \A c, d \in Chain[b] : c \in Chain[d] \/ d \in Chain[c]
  /\ Peer \in [Blocks -> Nat]
  /\ TxsOf \in [Blocks -> SUBSET Txs] /\ TxsOf[Genesis] = {}
  /\ ResetDepth \in Nat \ {0} /\ MaxAttempts \in Nat \ {0}
  /\ FaultKinds \subseteq {"store", "validationRestart", "assemblyRestart", "timeout", "notification"}
  /\ MaxFaults \in Nat /\ MaxOps \in Nat

VARIABLES
  \* the blockchain store
  id,        \* row of each block, 0 when it is not stored
  invalid,   \* blocks flagged invalid
  subtreesSet, \* blocks flagged subtrees_set
  minedSet,  \* blocks flagged mined_set
  \* the records of the transactions
  tags,      \* block ids of each transaction
  unmined,   \* transactions with unmined_since
  \* block validation
  accepted,  \* blocks being validated, whose parent was found valid and mined
  queue,     \* setMinedChan and its overflow set
  retrying,  \* blocks waiting out their back-off (setMinedRetryPending)
  attempts,  \* setMinedRetries
  worker,    \* the block in hand
  \* block assembly
  tip,       \* its best block, in memory and persisted
  template,
  ba,        \* the move in progress
  news,      \* a block notification "waits", or there is "none", the last one
             \* handled, or "lost" with nothing that makes up for it
  \* bounds and history
  faults, ops,
  raced,     \* blocks whose flags were written while the worker had them
  early      \* the template came from blocks whose verdict was not known yet,
             \* or a reset is to put it right

chainVars == <<id, invalid, subtreesSet, minedSet>>
recordVars == <<tags, unmined>>
workerVars == <<accepted, queue, retrying, attempts, worker>>
baVars == <<tip, template, ba, news>>
history == <<faults, ops, raced, early>>
vars == <<chainVars, recordVars, workerVars, baVars, history>>

Idle == [on |-> Genesis, at |-> "idle", unset |-> FALSE, longest |-> FALSE,
         todo |-> {}, failed |-> FALSE, repeated |-> FALSE]

AtRest == [at |-> "rest", to |-> Genesis, bad |-> {}]

Init ==
  /\ id = [b \in Blocks |-> IF b = Genesis THEN 1 ELSE 0]
  /\ invalid = {} /\ subtreesSet = {Genesis} /\ minedSet = {Genesis}
  /\ tags = [t \in Txs |-> {}] /\ unmined = Txs
  /\ accepted = {} /\ queue = {} /\ retrying = {}
  /\ attempts = [b \in Blocks |-> 0] /\ worker = Idle
  /\ tip = Genesis /\ template = Txs /\ ba = AtRest /\ news = "none"
  /\ faults = 0 /\ ops = 0 /\ raced = {} /\ early = FALSE

-----------------------------------------------------------------------------
(* The blockchain store *)

Stored == {b \in Blocks : id[b] > 0}
Work(b) == Cardinality(Chain[b])
TxsOn(b) == UNION {TxsOf[c] : c \in Chain[b]}

\* ORDER BY chain_work DESC, peer_id ASC, id ASC
Before(b, c) ==
  \/ Work(b) > Work(c)
  \/ Work(b) = Work(c) /\ Peer[b] < Peer[c]
  \/ Work(b) = Work(c) /\ Peer[b] = Peer[c] /\ id[b] < id[c]

Best == CHOOSE b \in Stored \ invalid : \A c \in Stored \ invalid : b # c => Before(b, c)

Pending == subtreesSet \ minedSet
Descendants(b) == {c \in Stored : b \in Chain[c]}

Fault(kind) == kind \in FaultKinds /\ faults < MaxFaults /\ faults' = faults + 1

\* ValidateBlock goes on once the parent is found valid and settled.
ParentSettled(b) ==
  /\ b \notin accepted /\ (b \in Stored => b \in invalid /\ ops < MaxOps)
  /\ Parent[b] \in minedSet \ invalid
  /\ accepted' = accepted \cup {b}
  /\ UNCHANGED <<chainVars, recordVars, queue, retrying, attempts, worker, baVars, history>>

\* The row is invalid if the parent has become so.
AddBlock(b) ==
  /\ b \in accepted \ Stored
  /\ id' = [id EXCEPT ![b] = Cardinality(Stored) + 1]
  /\ invalid' = IF Parent[b] \in invalid THEN invalid \cup {b} ELSE invalid
  /\ accepted' = accepted \ {b} /\ news' = "waits"
  /\ UNCHANGED <<subtreesSet, minedSet, recordVars, queue, retrying, attempts, worker,
                 tip, template, ba, history>>

\* updateSubtreesDAH, or the periodic sweep for the block
SetBlockSubtreesSet(b) ==
  /\ b \in Stored \ subtreesSet
  /\ subtreesSet' = subtreesSet \cup {b} /\ queue' = queue \cup {b}
  /\ UNCHANGED <<id, invalid, minedSet, recordVars, accepted, retrying, attempts, worker,
                 baVars, history>>

InvalidateRows(b) ==
  /\ invalid' = invalid \cup Descendants(b)
  /\ minedSet' = minedSet \ Descendants(b)
  /\ queue' = queue \cup {b} /\ news' = "waits"
  /\ UNCHANGED <<id, subtreesSet>>

\* The operator, the alert service, or a validation that ends after the block was stored.
Invalidate(b) ==
  /\ ops < MaxOps /\ b \in Stored \ {Genesis}
  /\ InvalidateRows(b)
  /\ ops' = ops + 1
  /\ raced' = IF worker.at # "idle" /\ worker.on \in Descendants(b)
              THEN raced \cup {worker.on} ELSE raced
  /\ UNCHANGED <<recordVars, accepted, retrying, attempts, worker, tip, template, ba, faults, early>>

\* reconsiderblock, once the block has passed validation again.  The worker is
\* not told: the feeder finds the block.
Revalidate(b) ==
  /\ ops < MaxOps /\ b \in accepted \cap Stored
  /\ accepted' = accepted \ {b}
  /\ invalid' = invalid \ {b} /\ minedSet' = minedSet \ {b}
  /\ news' = "waits"
  /\ ops' = ops + 1
  /\ raced' = IF worker.at # "idle" /\ worker.on = b THEN raced \cup {b} ELSE raced
  /\ UNCHANGED <<id, subtreesSet, recordVars, queue, retrying, attempts, worker, tip, template, ba,
                 faults, early>>

-----------------------------------------------------------------------------
(* The worker that sets blocks mined *)

Feed ==
  /\ ~(Pending \subseteq queue)
  /\ queue' = queue \cup Pending
  /\ UNCHANGED <<chainVars, recordVars, accepted, retrying, attempts, worker, baVars, history>>

Skip(b) ==
  /\ worker.at = "idle" /\ b \in queue
  /\ b \in minedSet \cup retrying
  /\ queue' = queue \ {b}
  /\ attempts' = IF b \in minedSet THEN [attempts EXCEPT ![b] = 0] ELSE attempts
  /\ UNCHANGED <<chainVars, recordVars, accepted, retrying, worker, baVars, history>>

\* The validity that decides between setting and unsetting is read here, once.
Take(b) ==
  /\ worker.at = "idle" /\ b \in queue \ (minedSet \cup retrying)
  /\ queue' = queue \ {b}
  /\ worker' = [Idle EXCEPT !.on = b, !.at = "taken", !.unset = b \in invalid, !.todo = TxsOf[b]]
  /\ raced' = raced \ {b}
  /\ UNCHANGED <<chainVars, recordVars, accepted, retrying, attempts, baVars, faults, ops, early>>

Locate ==
  /\ worker.at = "taken"
  /\ worker' = [worker EXCEPT !.at = "tagging", !.longest = worker.on \in Chain[Best]]
  /\ UNCHANGED <<chainVars, recordVars, accepted, queue, retrying, attempts, baVars, history>>

\* setMined on one record
Tag(t, b, unset, longest) ==
  LET now == IF unset THEN tags[t] \ {b} ELSE tags[t] \cup {b}
  IN  /\ tags' = [tags EXCEPT ![t] = now]
      /\ unmined' = CASE now = {} -> unmined \cup {t}
                      [] now # {} /\ longest -> unmined \ {t}
                      [] OTHER -> unmined

TagOne(t) ==
  /\ worker.at = "tagging" /\ t \in worker.todo
  /\ Tag(t, worker.on, worker.unset, worker.longest)
  /\ worker' = [worker EXCEPT
                  !.todo = @ \ {t},
                  !.repeated = @ \/ (~worker.unset /\ (tags[t] \cap Chain[worker.on]) \ {worker.on} # {})]
  /\ UNCHANGED <<chainVars, accepted, queue, retrying, attempts, baVars, history>>

\* A failed batch is counted, and the others still run.
TagFails(t) ==
  /\ worker.at = "tagging" /\ t \in worker.todo
  /\ Fault("store")
  /\ worker' = [worker EXCEPT !.todo = @ \ {t}, !.failed = TRUE]
  /\ UNCHANGED <<chainVars, recordVars, accepted, queue, retrying, attempts, baVars, ops, raced, early>>

\* Any other call of setTxMinedStatus fails, the last one included.
CallFails ==
  /\ worker.at # "idle" /\ ~worker.failed
  /\ Fault("store")
  /\ worker' = [worker EXCEPT !.at = "tagging", !.todo = {}, !.failed = TRUE]
  /\ UNCHANGED <<chainVars, recordVars, accepted, queue, retrying, attempts, baVars, ops, raced, early>>

Finished == worker.at = "tagging" /\ worker.todo = {}

\* Mutant of Retry: the attempts are counted down.
RetryCountingDown ==
  /\ Finished /\ worker.failed
  /\ worker' = Idle
  /\ attempts' = [attempts EXCEPT ![worker.on] = @ - 1] /\ retrying' = retrying \cup {worker.on}
  /\ UNCHANGED <<chainVars, recordVars, accepted, queue, baVars, history>>

Retry ==
  /\ Finished /\ worker.failed
  /\ worker' = Idle
  /\ LET n == attempts[worker.on] + 1
     IN  IF n >= MaxAttempts
         THEN attempts' = [attempts EXCEPT ![worker.on] = 0] /\ UNCHANGED retrying
         ELSE attempts' = [attempts EXCEPT ![worker.on] = n] /\ retrying' = retrying \cup {worker.on}
  /\ UNCHANGED <<chainVars, recordVars, accepted, queue, baVars, history>>

\* Mutant of RetryFires: the hash comes back and stays marked as waiting.
RetryFiresStillPending(b) ==
  /\ b \in retrying
  /\ queue' = queue \cup {b}
  /\ UNCHANGED <<chainVars, recordVars, accepted, retrying, attempts, worker, baVars, history>>

RetryFires(b) ==
  /\ b \in retrying
  /\ retrying' = retrying \ {b} /\ queue' = queue \cup {b}
  /\ UNCHANGED <<chainVars, recordVars, accepted, attempts, worker, baVars, history>>

\* The block repeats a transaction of its own chain.
Reject ==
  /\ Finished /\ ~worker.failed /\ worker.repeated
  /\ InvalidateRows(worker.on)
  /\ attempts' = [attempts EXCEPT ![worker.on] = 0]
  /\ worker' = Idle
  /\ UNCHANGED <<recordVars, accepted, retrying, tip, template, ba, history>>

\* Mutant of SetBlockMinedSet: a failed batch is logged and forgotten.
SetBlockMinedSetAnyway ==
  /\ Finished /\ ~worker.repeated
  /\ minedSet' = minedSet \cup {worker.on}
  /\ attempts' = [attempts EXCEPT ![worker.on] = 0]
  /\ worker' = Idle
  /\ UNCHANGED <<id, invalid, subtreesSet, recordVars, accepted, queue, retrying, baVars, history>>

SetBlockMinedSet ==
  /\ Finished /\ ~worker.failed /\ ~worker.repeated
  /\ minedSet' = minedSet \cup {worker.on}
  /\ attempts' = [attempts EXCEPT ![worker.on] = 0]
  /\ worker' = Idle
  /\ UNCHANGED <<id, invalid, subtreesSet, recordVars, accepted, queue, retrying, baVars, history>>

\* Block validation is restarted: what it holds in memory is gone.
WorkerRestarts ==
  /\ Fault("validationRestart")
  /\ accepted' = {} /\ queue' = {} /\ retrying' = {} /\ attempts' = [b \in Blocks |-> 0] /\ worker' = Idle
  /\ UNCHANGED <<chainVars, recordVars, baVars, ops, raced, early>>

-----------------------------------------------------------------------------
(* Block assembly *)

Extends(b, c) == b # Genesis /\ Parent[b] = c
Back(to) == Chain[tip] \ Chain[to]
Forward(to) == Chain[to] \ Chain[tip]
BlockTxs(bs) == UNION {TxsOf[b] : b \in bs}

\* Mutant of Same: chains are compared by their height.
SameHeight ==
  /\ ba.at = "rest" /\ news = "waits" /\ Work(Best) = Work(tip)
  /\ news' = "none"
  /\ UNCHANGED <<chainVars, recordVars, workerVars, tip, template, ba, history>>

\* processNewBlockAnnouncement
Same ==
  /\ ba.at = "rest" /\ news = "waits" /\ Best = tip
  /\ news' = "none"
  /\ UNCHANGED <<chainVars, recordVars, workerVars, tip, template, ba, history>>

MoveForward ==
  /\ ba.at = "rest" /\ news = "waits" /\ Extends(Best, tip)
  /\ news' = "none"
  /\ tip' = Best /\ template' = template \ TxsOf[Best]
  /\ UNCHANGED <<chainVars, recordVars, workerVars, ba, history>>

\* The client drops a notification that its subscriber does not take in time.
LoseNews ==
  /\ news = "waits" /\ Fault("notification")
  /\ news' = "lost"
  /\ UNCHANGED <<chainVars, recordVars, workerVars, tip, template, ba, ops, raced, early>>

\* The best block, the blocks on the way to it or the move itself fails: all is
\* as before, and the notification is spent.
NewsFails ==
  /\ ba.at = "rest" /\ news = "waits" /\ Fault("store")
  /\ news' = "lost"
  /\ UNCHANGED <<chainVars, recordVars, workerVars, tip, template, ba, ops, raced, early>>

\* Whatever began with a notification fails; a later one may be waiting.
GiveUp ==
  /\ ba' = AtRest
  /\ news' = IF news = "waits" THEN news ELSE "lost"

Depth(to) == LET deeper == {Cardinality(Back(to)), Cardinality(Forward(to))}
             IN  CHOOSE n \in deeper : \A m \in deeper : m <= n

Observe ==
  /\ ba.at = "rest" /\ news = "waits" /\ Best # tip /\ ~Extends(Best, tip)
  /\ news' = "none"
  /\ ba' = [at |-> CASE Back(Best) = {} -> "catchUp"
                     [] Back(Best) # {} /\ Depth(Best) >= ResetDepth -> "reset"
                     [] OTHER -> "reorg",
            to |-> Best, bad |-> invalid]
  /\ UNCHANGED <<chainVars, recordVars, workerVars, tip, template, history>>

\* WaitForPendingBlocks, which then lets go
After == [reorg |-> "reorging", reset |-> "resetting", start |-> "starting"]

PendingDone ==
  /\ ba.at \in DOMAIN After /\ Pending = {}
  /\ ba' = [ba EXCEPT !.at = After[@]]
  /\ UNCHANGED <<chainVars, recordVars, workerVars, tip, template, news, history>>

\* handleCatchUp waits for the last block only and marks nothing.
CatchUp ==
  /\ ba.at = "catchUp" /\ ba.to \in minedSet
  /\ tip' = ba.to /\ template' = template \ BlockTxs(Forward(ba.to))
  /\ ba' = AtRest
  /\ UNCHANGED <<chainVars, recordVars, workerVars, news, history>>

\* The wait ends after 300 seconds, or a block cannot be moved: the template is
\* rolled back and the announcement is spent.
CatchUpFails ==
  /\ ba.at = "catchUp"
  /\ \/ ba.to \notin minedSet /\ Fault("timeout")
     \/ Fault("store")
  /\ GiveUp
  /\ UNCHANGED <<chainVars, recordVars, workerVars, tip, template, ops, raced, early>>

\* A lone invalid block moved back: only what is in no other block of the chain is marked.
MarkFalse(ts) ==
  IF \E b \in invalid : Back(ba.to) = {b} /\ Forward(ba.to) = {}
  THEN {t \in ts : \/ tags[t] = Back(ba.to)
                  \/ tags[t] \cap (Chain[ba.to] \cup Chain[Best]) = {}}
  ELSE ts

\* The block has a transaction that its chain has below it.
Repeats(b) == b # Genesis /\ TxsOf[b] \cap TxsOn(Parent[b]) # {}

\* reorgBlocks: the template takes the transactions of the blocks left behind.
ReorgBlocks ==
  /\ ba.at = "reorging"
  /\ LET back == BlockTxs(Back(ba.to))
         forward == BlockTxs(Forward(ba.to))
         next == (template \cup back) \ forward
     IN  /\ template' = next
         /\ unmined' = (unmined \ (forward \ back)) \cup MarkFalse(next)
  /\ ba' = [ba EXCEPT !.at = "moved"]
  /\ early' = (early \/ \E b \in Back(ba.to) \ ba.bad : Repeats(b))
  /\ UNCHANGED <<chainVars, tags, workerVars, tip, news, faults, ops, raced>>

ReorgFails ==
  /\ ba.at = "reorging" /\ Fault("store")
  /\ ba' = [at |-> "reset", to |-> Best, bad |-> invalid]
  /\ UNCHANGED <<chainVars, recordVars, workerVars, tip, template, news, ops, raced, early>>

\* A reorganisation that left an invalid block behind is followed by a reset.
Moved ==
  /\ ba.at = "moved"
  /\ IF Back(ba.to) \cap ba.bad # {}
     THEN ba' = [at |-> "reset", to |-> Best, bad |-> invalid] /\ UNCHANGED tip /\ early' = TRUE
     ELSE ba' = AtRest /\ tip' = ba.to /\ UNCHANGED early
  /\ UNCHANGED <<chainVars, recordVars, workerVars, template, news, faults, ops, raced>>

\* The reset cannot read the best block or the blocks on the way to it.
ResetFails ==
  /\ ba.at = "reset" /\ Fault("store")
  /\ GiveUp
  /\ UNCHANGED <<chainVars, recordVars, workerVars, tip, template, ops, raced, early>>

\* reset waits for the invalid blocks it leaves behind, or gives up after a while; then the
\* blocks left behind that were valid, and the whole template, are unmined.
ResetMarks ==
  /\ ba.at = "resetting"
  /\ \/ Back(ba.to) \cap ba.bad \subseteq minedSet /\ UNCHANGED faults
     \/ ~(Back(ba.to) \cap ba.bad \subseteq minedSet) /\ Fault("timeout")
  /\ unmined' = unmined \cup template
                  \cup (BlockTxs(Back(ba.to) \ ba.bad) \ BlockTxs(Forward(ba.to) \ ba.bad))
  /\ ba' = [ba EXCEPT !.at = "load"]
  /\ UNCHANGED <<chainVars, tags, workerVars, tip, template, news, ops, raced, early>>

\* Mutant of Load: everything with unmined_since is taken.
LoadUnfiltered(to) ==
  /\ template' = unmined /\ UNCHANGED unmined
  /\ early' = ~(Chain[to] \subseteq minedSet \ (invalid \cup raced))

\* loadUnminedTransactions
Load(to) ==
  LET mined == {t \in unmined : tags[t] \cap Chain[to] # {}}
  IN  /\ template' = unmined \ mined
      /\ unmined' = unmined \ mined
      /\ early' = ~(Chain[to] \subseteq minedSet \ (invalid \cup raced))

ResetLoads ==
  /\ ba.at = "load"
  /\ Load(ba.to) /\ ba' = [ba EXCEPT !.at = "moved", !.bad = {}]
  /\ UNCHANGED <<chainVars, tags, workerVars, tip, news, faults, ops, raced>>

AssemblyStops ==
  /\ Fault("assemblyRestart")
  /\ ba' = [AtRest EXCEPT !.at = "start"] /\ template' = {} /\ news' = "none"
  /\ UNCHANGED <<chainVars, recordVars, workerVars, tip, ops, raced, early>>

AssemblyStarts ==
  /\ ba.at = "starting"
  /\ Load(tip) /\ ba' = AtRest /\ news' = "waits"
  /\ UNCHANGED <<chainVars, tags, workerVars, tip, faults, ops, raced>>

-----------------------------------------------------------------------------
SetMined ==
  \/ Locate \/ Retry \/ Reject \/ SetBlockMinedSet
  \/ \E b \in Blocks : Skip(b) \/ Take(b)
  \/ \E t \in Txs : TagOne(t)

Assemble ==
  \/ Same \/ MoveForward \/ Observe \/ PendingDone \/ CatchUp \/ ReorgBlocks \/ Moved
  \/ ResetMarks \/ ResetLoads \/ AssemblyStarts

AssemblyFails ==
  LoseNews \/ NewsFails \/ CatchUpFails \/ ReorgFails \/ ResetFails \/ AssemblyStops

Next ==
  \/ \E b \in Blocks \ {Genesis} :
       \/ ParentSettled(b) \/ AddBlock(b) \/ SetBlockSubtreesSet(b)
       \/ Invalidate(b) \/ Revalidate(b) \/ RetryFires(b)
  \/ Feed \/ SetMined \/ Assemble
  \/ \E t \in Txs : TagFails(t)
  \/ CallFails \/ WorkerRestarts \/ AssemblyFails

Spec == Init /\ [][Next]_vars

\* The sweep for subtrees_set passes over invalid blocks.
LiveSpec ==
  /\ Spec /\ WF_vars(Feed) /\ WF_vars(SetMined) /\ WF_vars(Assemble)
  /\ \A b \in Blocks :
       WF_vars(b \notin invalid /\ SetBlockSubtreesSet(b)) /\ WF_vars(RetryFires(b))

-----------------------------------------------------------------------------
(* Properties *)

\* The types of the state; a block's row number, its retry count and the bounds are naturals.
TypeOK ==
  /\ id \in [Blocks -> Nat] /\ invalid \subseteq Blocks
  /\ subtreesSet \subseteq Blocks /\ minedSet \subseteq Blocks /\ accepted \subseteq Blocks
  /\ tags \in [Txs -> SUBSET Blocks] /\ unmined \subseteq Txs
  /\ queue \subseteq Blocks /\ retrying \subseteq Blocks /\ attempts \in [Blocks -> Nat]
  /\ worker \in [on : Blocks, at : {"idle", "taken", "tagging"}, unset : BOOLEAN,
                 longest : BOOLEAN, todo : SUBSET Txs, failed : BOOLEAN, repeated : BOOLEAN]
  /\ tip \in Blocks /\ template \subseteq Txs /\ news \in {"none", "waits", "lost"}
  /\ ba \in [at : {"rest", "catchUp", "reorg", "reorging", "moved", "reset", "resetting",
                    "load", "start", "starting"}, to : Blocks, bad : SUBSET Blocks]
  /\ faults \in Nat /\ ops \in Nat /\ raced \subseteq Blocks /\ early \in BOOLEAN

\* A block with mined_set has its id in the record of each of its transactions when it is
\* valid, and in none when it is invalid, whatever calls of setTxMinedStatus failed, were
\* repeated or were cut off by a restart on the way; except where the flags of the block were
\* rewritten under the worker's hands (SettledMeansTagged).
SettledTagsMatch ==
  \A b \in minedSet \ raced : \A t \in TxsOf[b] : b \in tags[t] <=> b \notin invalid

\* The same without the exception: InvalidateBlock and RevalidateBlock clear mined_set so that
\* the worker visits the block again and its records follow the new verdict.
SettledMeansTagged ==
  \A b \in minedSet : \A t \in TxsOf[b] : b \in tags[t] <=> b \notin invalid

\* When block assembly is at rest no transaction of the chain it builds on is in its template,
\* by whichever way (move, catch-up, reorganisation, reset, restart) it came there and
\* whatever the worker is doing; except after a load over a chain that was not settled, which
\* WaitForPendingBlocks lets through while a block of it has no subtrees_set, and after a
\* reorganisation that leaves behind a block that repeats a transaction of its chain and was
\* not invalid yet when the reorganisation read its flags.
TemplateIsUnmined ==
  ba.at = "rest" /\ ~early => template \cap TxsOn(tip) = {}

\* Once no block arrives any more, every stored block gets mined_set for good, although visits
\* fail, retries run out and hashes are dropped from the queue: the feeder brings them back.
EveryBlockSettles == <>[](Stored \subseteq minedSet)

\* From then on block assembly, too, ends up on the best block and stays there, by whichever
\* way, whatever failed and was made up for; unless the last notification there was is lost, or
\* what it started failed: nothing repeats it.
AssemblyFollows == <>[](tip = Best \/ news = "lost")

\* "The `BlockAssembler` keeps the node synchronized with the network by identifying and
\* switching to the strongest chain" (docs/topics/services/blockAssembly.md).
AssemblyKeepsUp == <>[](tip = Best)

=============================================================================
