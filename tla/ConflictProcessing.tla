-------------------------- MODULE ConflictProcessing --------------------------
(***************************************************************************)
(* Double-spend resolution when a block joins or leaves the longest chain  *)
(* (process_conflicting.go) and its write-ahead log.                       *)
(*                                                                         *)
(* The block carries transactions (Winners) that conflict with             *)
(* transactions the store already holds.  ProcessConflicting gives them    *)
(* the disputed outputs in five steps; ReverseProcessConflicting gives     *)
(* them back.  Each step is many writes to many records: other             *)
(* transactions arrive, a call fails or the process dies between any two.  *)
(* The intent of an operation is logged before its first write and removed *)
(* after its last; a restart replays the intents it finds.                 *)
(*                                                                         *)
(* The lock that step 2 asks for is not taken (the Aerospike store drops   *)
(* flagAsLocked), so step 5 only has to succeed.                           *)
(***************************************************************************)
EXTENDS Integers, FiniteSets, SequencesExt

CONSTANTS Txs,          \* transactions
          Outpoints,    \* transaction outputs
          Creator,      \* Creator[o]: the transaction that o is an output of
          Inputs,       \* Inputs[t]: the sequence of outputs t spends
          CreatedAt,    \* order in which the store first saw them
          Winners,      \* the conflicting nodes of the block
          Held,         \* transactions in the store from the start
          Confirmed,    \* possible sets of transactions mined on the block's ancestry
          NoTx, NoIntent,
          MaxFaults,    \* bound: failing calls and crashes
          MaxMoves      \* bound: the block joins or leaves the chain

Kinds == {"forward", "reverse"}
Ins(t) == Range(Inputs[t])
Outs(t) == {o \in Outpoints : Creator[o] = t}

ASSUME ConflictConstants ==
  /\ IsFiniteSet(Txs)
  /\ NoTx \notin Txs
  /\ NoIntent \notin Kinds
  /\ Creator \in [Outpoints -> Txs]
  /\ Inputs \in [Txs -> Seq(Outpoints)]
  /\ CreatedAt \in [Txs -> Nat]
  /\ \A t, u \in Txs : CreatedAt[t] = CreatedAt[u] => t = u   \* ties go by hash
  /\ Winners \subseteq Held /\ Held \subseteq Txs
  \* what the store believes before the block comes is free of double spends
  /\ \A t, u \in Held \ Winners : t # u => Ins(t) \cap Ins(u) = {}
  \* and a chain has the parents of what it has
  /\ Confirmed \subseteq SUBSET (Held \ Winners)
  /\ \A C \in Confirmed : \A t \in C : \A o \in Ins(t) : Creator[o] \in C
  /\ MaxFaults \in Nat /\ MaxMoves \in Nat

VARIABLES
  \* the store
  stored,       \* transactions with a record
  spender,      \* spending data of every output
  conflicting,  \* records that carry the conflicting flag
  children,     \* conflictingChildren of every record
  wal,          \* pending intents, by kind: an intent's ID is deterministic
  \* the chain
  onChain,      \* the block is on the longest chain
  confirmed,    \* transactions that are mined on the block's ancestry
  applied,      \* block assembly has moved to the block
  saved,        \* its position as persisted
  moves,
  \* the operation in progress
  pc, kind, seeded, replaying,
  todo,         \* reverse: winners still to demote
  level,        \* transactions of the breadth-first level being flagged
  fresh,        \* their children, read before the flags are written
  seen,         \* every transaction the cascade reached
  owed,         \* spends still to revert, <<output, spender>>
  promote,      \* transactions still to spend
  spent,        \* spends step 3 made
  err,          \* a call of the current step failed
  pending,      \* intents the replay has still to look at
  \* history
  faults,
  undone,       \* a compensation has begun
  revived,      \* unflagged because their parent was, whatever they own
  missed,       \* the last write of their flag was lost and nobody was told
  side          \* the kind of the last operation that was completed

store == <<stored, spender, conflicting, children>>
chain == <<onChain, confirmed, applied, saved, moves>>
work == <<todo, level, fresh, seen, owed, promote, spent, err>>
oper == <<kind, seeded, replaying, pending>>
history == <<undone, revived, missed, side>>
vars == <<store, wal, chain, pc, oper, work, faults, history>>

-----------------------------------------------------------------------------
(***************************************************************************)
(* Reading the store.                                                      *)
(***************************************************************************)

\* Faulty variant: output and spender swapped.
SpendsOfSwapped(T) == {s \in T \X Outpoints : s[2] \in Ins(s[1])}

SpendsOf(T) == {s \in Outpoints \X T : s[1] \in Ins(s[2])}
SpendersOf(O) == {spender[o] : o \in O} \ {NoTx}

\* GetConflictingChildren: everything reachable over spenders and conflicting
\* children, the roots included.
Closed(S) == \A t \in S : (children[t] \cup SpendersOf(Outs(t))) \cap Txs \subseteq S
Cone(roots) == {t \in Txs : \A S \in SUBSET Txs : roots \subseteq S /\ Closed(S) => t \in S}

\* GetCounterConflictingTxHashes: the transaction itself, the recorded spenders
\* of its inputs and everything below them.
CounterConflicting(w) == {w} \cup Cone(SpendersOf(Ins(w)))

\* isReverseFullyApplied
FullyReversed(d) ==
  \A o \in Ins(d) : spender[o] \notin {NoTx, d} /\ spender[o] \notin conflicting

\* selectCountersForDemotedTx: per input, the oldest demoted spender of it that
\* no earlier input has chosen.
Oldest(S) == {t \in S : \A u \in S : CreatedAt[t] <= CreatedAt[u]}
Demoted(o) == {c \in (children[Creator[o]] \cap conflicting) \ Winners : o \in Ins(c)}
Chosen(d) == FoldLeft(LAMBDA chosen, o : chosen \cup Oldest(Demoted(o) \ chosen), {}, Inputs[d])
Counters(d) == {c \in conflicting \ Winners : c \in Chosen(d)}

-----------------------------------------------------------------------------
Init ==
  /\ stored = Held
  /\ spender = [o \in Outpoints |->
                  IF \E t \in Held \ Winners : o \in Ins(t)
                    THEN CHOOSE t \in Held \ Winners : o \in Ins(t) ELSE NoTx]
  /\ conflicting = Winners
  /\ children = [t \in Txs |-> {w \in Winners : \E o \in Ins(w) : Creator[o] = t}]
  /\ wal = {}
  /\ onChain = FALSE /\ applied = FALSE /\ saved = FALSE /\ moves = 0
  /\ confirmed \in Confirmed
  /\ pc = "idle" /\ kind = "forward" /\ seeded = FALSE /\ replaying = NoIntent
  /\ pending = {}
  /\ todo = {} /\ level = {} /\ fresh = {} /\ seen = {} /\ owed = {}
  /\ promote = {} /\ spent = {} /\ err = FALSE
  /\ faults = 0 /\ undone = FALSE /\ revived = {} /\ missed = {} /\ side = "reverse"

Fault == faults < MaxFaults /\ faults' = faults + 1
Quiet == UNCHANGED <<faults, history>>

\* The blockchain service moves the block; block assembly follows later.
ChainMoves ==
  /\ moves < MaxMoves
  /\ moves' = moves + 1
  /\ onChain' = ~onChain
  /\ UNCHANGED <<store, wal, confirmed, applied, saved, pc, oper, work, faults, history>>

\* The validator accepts a transaction: every parent is there and not
\* conflicting, every input is free.
Arrive(t) ==
  /\ t \notin stored
  /\ \A o \in Ins(t) :
       spender[o] = NoTx /\ Creator[o] \in stored /\ Creator[o] \notin conflicting
  /\ stored' = stored \cup {t}
  /\ spender' = [o \in Outpoints |-> IF o \in Ins(t) THEN t ELSE spender[o]]
  /\ UNCHANGED <<conflicting, children, wal, chain, pc, oper, work, faults, history>>

-----------------------------------------------------------------------------
(***************************************************************************)
(* Starting and ending an operation.                                       *)
(***************************************************************************)

\* BeginConflictIntent is the first write.
Begin(k, known, intent) ==
  /\ wal' = wal \cup {k}
  /\ pc' = "read" /\ kind' = k /\ seeded' = known /\ replaying' = intent
  /\ todo' = IF k = "reverse" THEN Winners ELSE {}
  /\ level' = {} /\ fresh' = {} /\ seen' = {} /\ owed' = {}
  /\ promote' = {} /\ spent' = {} /\ err' = FALSE
  /\ UNCHANGED <<store, chain>> /\ Quiet

\* moveForwardBlock, or reset, processes the block's conflicting nodes.
MoveForward ==
  /\ pc = "idle" /\ onChain /\ ~applied
  /\ Begin("forward", FALSE, NoIntent)
  /\ UNCHANGED pending

\* reorgBlocks moves the block back.
MoveBack ==
  /\ pc = "idle" /\ ~onChain /\ applied
  /\ Begin("reverse", FALSE, NoIntent)
  /\ UNCHANGED pending

Home == IF replaying = NoIntent THEN "idle" ELSE "replay"

\* The operation returns no error: CompleteConflictIntent, best effort, and for
\* a replayed intent the replay's own removal of the intent it found.
Succeed ==
  /\ pc' = IF replaying = NoIntent THEN "moved" ELSE "replay"
  /\ side' = kind
  /\ \/ wal' = wal \ {kind, replaying} /\ UNCHANGED faults
     \/ Fault /\ wal' \in {wal, wal \ {kind}, wal \ {replaying}}
  /\ UNCHANGED <<store, chain, oper, work, undone, revived, missed>>

\* processNewBlockAnnouncement moves block assembly once the block is processed
\* to the end, and persists where it is (SetState); a replay does neither.
Advance ==
  /\ pc = "moved" /\ pc' = "idle"
  /\ \/ applied' = (kind = "forward") /\ saved' = (kind = "forward") /\ UNCHANGED faults
     \/ Fault /\ applied' = (kind = "forward") /\ UNCHANGED saved
     \/ Fault /\ UNCHANGED <<applied, saved>>
  /\ UNCHANGED <<store, wal, onChain, confirmed, moves, oper, work, history>>

\* Faulty variant: the intent is removed whatever the outcome.
GiveUpForgetting == pc' = Home /\ wal' = wal \ {kind} /\ UNCHANGED <<chain, oper>>

\* The operation returns an error: the intent stays.
GiveUp == pc' = Home /\ UNCHANGED <<wal, chain, oper>>

-----------------------------------------------------------------------------
(***************************************************************************)
(* Step 0 and the choice of what to demote.                                *)
(***************************************************************************)

Losers == UNION {CounterConflicting(w) : w \in Winners}

\* A winner must be conflicting unless it was processed before.
Unprepared == ~seeded /\ ~(Winners \subseteq conflicting)

\* Faulty variant: only losers that carry the flag already are looked at.
RefusedFlagged == (Losers \ Winners) \cap confirmed \cap conflicting # {}

\* filterAncestryConfirmedLosers: one confirmed loser abandons the operation.
Refused == (Losers \ Winners) \cap confirmed # {}

\* Faulty variant: the spends are reverted before the flags are written.
ReadForwardUnspendingFirst ==
  /\ pc = "read" /\ kind = "forward"
  /\ ~Unprepared /\ ~Refused
  /\ pc' = "unspend" /\ owed' = SpendsOf(Losers) /\ seen' = Losers
  /\ UNCHANGED <<store, wal, chain, oper, todo, level, fresh, promote, spent, err>> /\ Quiet

ReadForward ==
  /\ pc = "read" /\ kind = "forward"
  /\ ~Unprepared /\ ~Refused
  /\ pc' = "mark" /\ level' = Losers /\ seen' = Losers
  /\ UNCHANGED <<store, wal, chain, oper, todo, fresh, owed, promote, spent, err>> /\ Quiet

\* Reported as success, with nothing written.
Refuse ==
  /\ pc = "read" /\ kind = "forward"
  /\ ~Unprepared /\ Refused
  /\ Succeed

ReadFails ==
  /\ pc = "read"
  /\ \/ kind = "forward" /\ Unprepared /\ UNCHANGED faults
     \/ Fault
  /\ GiveUp
  /\ UNCHANGED <<store, work, history>>

\* The next winner to demote; one whose reverse is complete is skipped.
ReadReverse(d) ==
  /\ pc = "read" /\ kind = "reverse" /\ d \in todo
  /\ todo' = todo \ {d}
  /\ IF d \in conflicting /\ FullyReversed(d)
       THEN UNCHANGED <<pc, level, seen, owed, promote>>
       ELSE /\ pc' = "mark" /\ level' = {d} /\ seen' = {d}
            /\ owed' = SpendsOf({d}) /\ promote' = Counters(d)
  /\ UNCHANGED <<store, wal, chain, oper, fresh, spent, err>> /\ Quiet

ReverseEnds ==
  /\ pc = "read" /\ kind = "reverse" /\ todo = {}
  /\ Succeed

-----------------------------------------------------------------------------
(***************************************************************************)
(* SetConflicting, level by level: MarkConflictingRecursively and          *)
(* UnmarkConflictingRecursively.  The children are read before the flags   *)
(* are written.                                                            *)
(***************************************************************************)

\* updateParentConflictingChildren, also when the flag is being cleared.  Of a
\* batch only the error of the whole is looked at: an append that fails on one
\* record is lost and the call succeeds.
Links(T) == {l \in Txs \X T : \E o \in Ins(l[2]) : Creator[o] = l[1]}
Linked(L) == [p \in Txs |-> children[p] \cup {t \in Txs : <<p, t>> \in L}]
Link(T, lossy) == \E L \in SUBSET Links(T) : (L = Links(T) \/ lossy) /\ children' = Linked(L)

Flagging == pc \in {"mark", "unmark"}
Writing == pc \in {"markWrite", "unmarkWrite"}

ReadLevel ==
  /\ Flagging /\ level # {}
  /\ \/ Link(level, FALSE) /\ UNCHANGED faults
     \/ Fault /\ Link(level, TRUE)
  /\ fresh' = SpendersOf(UNION {Outs(t) : t \in level})
  /\ pc' = IF pc = "mark" THEN "markWrite" ELSE "unmarkWrite"
  /\ UNCHANGED <<stored, spender, conflicting, wal, chain, oper, todo, level, seen, owed,
                 promote, spent, err, history>>

Flag(T) == conflicting' = IF pc = "markWrite" THEN conflicting \cup T ELSE conflicting \ T

\* The flags of T were to be written and those of W were.
Miss(T, W) == missed' = (missed \cup T) \ W

\* The same of the flags: what fails on one record is not seen, and the
\* operation goes on as if it were written.
WriteLevel ==
  /\ Writing
  /\ \E T \in SUBSET level :
       /\ IF T = level THEN UNCHANGED faults ELSE Fault
       /\ Flag(T) /\ Miss(level, T)
  /\ owed' = IF pc = "markWrite" /\ kind = "forward" THEN owed \cup SpendsOf(level) ELSE owed
  /\ level' = fresh \ seen /\ seen' = seen \cup fresh
  /\ pc' = IF pc = "markWrite" THEN "mark" ELSE "unmark"
  /\ revived' = IF pc = "markWrite" THEN revived ELSE revived \cup (fresh \ seen)
  /\ UNCHANGED <<stored, spender, children, wal, chain, oper, todo, fresh, promote, spent,
                 err, undone, side>>

\* An error of the whole batch ends the operation; what it wrote stays.
LevelFails ==
  /\ Flagging \/ Writing
  /\ level # {} /\ Fault
  /\ IF Writing THEN (\E T \in SUBSET level : Flag(T)) /\ UNCHANGED children
     ELSE Link(level, TRUE) /\ UNCHANGED conflicting
  /\ GiveUp
  /\ UNCHANGED <<stored, spender, work, history>>

Marked ==
  /\ pc = "mark" /\ level = {}
  /\ pc' = "unspend"
  /\ UNCHANGED <<store, wal, chain, oper, work>> /\ Quiet

Unmarked ==
  /\ pc = "unmark" /\ level = {}
  /\ pc' = "spend"
  /\ UNCHANGED <<store, wal, chain, oper, work>> /\ Quiet

-----------------------------------------------------------------------------
(***************************************************************************)
(* Step 2: Unspend, one output after the other; only the owner's spend is  *)
(* removed, and a failure does not stop the loop.                          *)
(***************************************************************************)

UnspendOne(s) ==
  /\ pc = "unspend" /\ s \in owed
  /\ owed' = owed \ {s}
  /\ \/ /\ spender' = IF spender[s[1]] = s[2] THEN [spender EXCEPT ![s[1]] = NoTx] ELSE spender
        /\ UNCHANGED <<err, faults>>
     \/ Fault /\ err' = TRUE /\ UNCHANGED spender
  /\ UNCHANGED <<stored, conflicting, children, wal, chain, pc, oper, todo, level, fresh,
                 seen, promote, spent, history>>

\* From step 2 on an error is followed by the compensation, in a forward
\* operation.
Fail ==
  IF kind = "forward" THEN pc' = "undo" /\ UNCHANGED <<wal, chain, oper>> ELSE GiveUp

Unspent ==
  /\ pc = "unspend" /\ owed = {}
  /\ IF err THEN Fail /\ UNCHANGED promote
     ELSE /\ pc' = "spend"
          /\ promote' = IF kind = "forward" THEN Winners ELSE promote
          /\ UNCHANGED <<wal, chain, oper>>
  /\ UNCHANGED <<store, todo, level, fresh, seen, owed, spent, err>> /\ Quiet

-----------------------------------------------------------------------------
(***************************************************************************)
(* Step 3: SpendAndCreate with SpendOnly, ignoring the flags.  The spends  *)
(* of an existing transaction that fails in part are kept.                 *)
(***************************************************************************)

Free(t) == {o \in Ins(t) : spender[o] \in {NoTx, t}}
SpendBy(t, O) == spender' = [o \in Outpoints |-> IF o \in O THEN t ELSE spender[o]]

SpendTx(t) ==
  /\ pc = "spend" /\ t \in promote
  /\ Free(t) = Ins(t)
  /\ SpendBy(t, Ins(t))
  /\ promote' = promote \ {t}
  /\ spent' = spent \cup SpendsOf({t})
  /\ IF kind = "forward" THEN UNCHANGED <<pc, level, seen>>
     ELSE pc' = "unmark" /\ level' = {t} /\ seen' = {t}
  /\ revived' = revived \ {t}
  /\ UNCHANGED <<stored, conflicting, children, wal, chain, oper, todo, fresh, owed, err, faults,
                 undone, missed, side>>

SpendFails(t) ==
  /\ pc = "spend" /\ t \in promote
  /\ \/ Free(t) # Ins(t) /\ UNCHANGED faults /\ SpendBy(t, Free(t))
                         /\ spent' = spent \cup {<<o, t>> : o \in Free(t)}
     \/ Fault /\ \E O \in SUBSET Free(t) : SpendBy(t, O) /\ spent' = spent \cup {<<o, t>> : o \in O}
  /\ Fail
  /\ UNCHANGED <<stored, conflicting, children, todo, level, fresh, seen, owed, promote, err,
                 history>>

Promoted ==
  /\ pc = "spend" /\ promote = {}
  /\ pc' = IF kind = "forward" THEN "clear" ELSE "read"
  /\ UNCHANGED <<store, wal, chain, oper, work>> /\ Quiet

-----------------------------------------------------------------------------
(***************************************************************************)
(* Steps 4 and 5.                                                          *)
(***************************************************************************)

\* SetConflicting(winners, false), with the same losses.
ClearWinners ==
  /\ pc = "clear"
  /\ \/ Link(Winners, FALSE) /\ conflicting' = conflicting \ Winners
        /\ Miss(Winners, Winners) /\ UNCHANGED faults
     \/ /\ Fault /\ Link(Winners, TRUE)
        /\ \E T \in SUBSET Winners : conflicting' = conflicting \ T /\ Miss(Winners, T)
  /\ pc' = "unlock"
  /\ UNCHANGED <<stored, spender, wal, chain, oper, work, undone, revived, side>>

ClearFails ==
  /\ pc = "clear" /\ Fault
  /\ \E T \in SUBSET Winners : conflicting' = conflicting \ T
  /\ Link(Winners, TRUE)
  /\ Fail
  /\ UNCHANGED <<stored, spender, work, history>>

\* setLockedWithRetry; when it fails for good nothing is rolled back.
Unlock == pc = "unlock" /\ Succeed

UnlockFails ==
  /\ pc = "unlock" /\ Fault
  /\ GiveUp
  /\ UNCHANGED <<store, work, history>>

-----------------------------------------------------------------------------
(***************************************************************************)
(* rollbackProcessConflicting: best effort, every sub-step runs whatever   *)
(* became of the one before.  (Re-marking the winners is for an error      *)
(* after step 4, and step 5 is never rolled back.)                         *)
(***************************************************************************)

Reverted(S) ==
  [o \in Outpoints |-> IF \E s \in S : s[1] = o /\ s[2] = spender[o] THEN NoTx ELSE spender[o]]

UndoSpends ==
  /\ pc = "undo"
  /\ \/ spender' = Reverted(spent) /\ UNCHANGED faults
     \/ Fault /\ \E S \in SUBSET spent : spender' = Reverted(S)
  /\ pc' = "respend" /\ level' = seen
  /\ undone' = TRUE /\ UNCHANGED <<revived, missed, side>>
  /\ UNCHANGED <<stored, conflicting, children, wal, chain, oper, todo, fresh, seen, owed,
                 promote, spent, err>>

\* In the order of the cascade, whose first level is a map's keys.
Respend(t) ==
  /\ pc = "respend" /\ t \in level
  /\ level' = level \ {t}
  /\ \/ SpendBy(t, Free(t)) /\ UNCHANGED faults
     \/ Fault /\ \E O \in SUBSET Free(t) : SpendBy(t, O)
  /\ UNCHANGED <<stored, conflicting, children, wal, chain, pc, oper, todo, fresh, seen, owed,
                 promote, spent, err, history>>

UndoFlags ==
  /\ pc = "respend" /\ level = {}
  /\ \/ Link(seen, FALSE) /\ conflicting' = conflicting \ seen /\ UNCHANGED faults
     \/ Fault /\ Link(seen, TRUE) /\ \E T \in SUBSET seen : conflicting' = conflicting \ T
  /\ GiveUp
  /\ UNCHANGED <<stored, spender, work, history>>

-----------------------------------------------------------------------------
(***************************************************************************)
(* The process dies; startup replays what the log holds.                   *)
(***************************************************************************)

Crash ==
  /\ pc # "down" /\ Fault
  /\ pc' = "down"
  /\ UNCHANGED <<store, wal, chain, oper, work, history>>

\* initState takes the position from the database, replayPendingConflictIntents
\* the intents from the log; a log that cannot be read is left for another start.
Restart ==
  /\ pc = "down"
  /\ pc' = "replay"
  /\ \/ pending' = wal /\ UNCHANGED faults
     \/ Fault /\ pending' = {}
  /\ applied' = saved
  /\ UNCHANGED <<store, wal, onChain, confirmed, saved, moves, kind, seeded, replaying, work, history>>

\* Faulty variant: an intent is replayed as it was logged, wherever its block is.
ReplayAsLogged(k) ==
  /\ pc = "replay" /\ k \in pending
  /\ pending' = pending \ {k}
  /\ Begin(k, TRUE, k)

\* replayConflictIntent, or healStaleConflictIntent when the block has changed
\* sides: in both cases the operation that fits where the block is now.
Replay(k) ==
  /\ pc = "replay" /\ k \in pending
  /\ pending' = pending \ {k}
  /\ Begin(IF onChain THEN "forward" ELSE "reverse", TRUE, k)

Replayed ==
  /\ pc = "replay" /\ pending = {}
  /\ pc' = "idle"
  /\ UNCHANGED <<store, wal, chain, oper, work>> /\ Quiet

-----------------------------------------------------------------------------
Proceed ==
  \/ ReadForward \/ Refuse \/ ReverseEnds \/ ReadLevel \/ WriteLevel
  \/ Marked \/ Unmarked \/ Unspent \/ Promoted \/ ClearWinners \/ Unlock
  \/ UndoSpends \/ UndoFlags \/ ReadFails \/ Replayed \/ Advance
  \/ \E d \in Winners : ReadReverse(d)
  \/ \E s \in owed : UnspendOne(s)
  \/ \E t \in Txs : SpendTx(t) \/ SpendFails(t) \/ Respend(t)
  \/ \E k \in Kinds : Replay(k)

Next ==
  \/ ChainMoves
  \/ \E t \in Txs : Arrive(t)
  \/ MoveForward \/ MoveBack
  \/ Proceed
  \/ LevelFails \/ ClearFails \/ UnlockFails
  \/ Crash \/ Restart

Spec == Init /\ [][Next]_vars

\* An operation that was started is carried through, and a process that died
\* is started again.
FairSpec == Spec /\ WF_vars(Proceed) /\ WF_vars(Restart)
-----------------------------------------------------------------------------
(***************************************************************************)
(* Properties.                                                             *)
(***************************************************************************)

Steps == {"idle", "read", "mark", "markWrite", "unmark", "unmarkWrite", "unspend", "spend",
          "clear", "unlock", "undo", "respend", "moved", "down", "replay"}

\* Every variable has its type.
TypeOK ==
  /\ stored \subseteq Txs /\ conflicting \subseteq Txs
  /\ spender \in [Outpoints -> Txs \cup {NoTx}]
  /\ children \in [Txs -> SUBSET Txs]
  /\ wal \subseteq Kinds /\ pending \subseteq Kinds
  /\ onChain \in BOOLEAN /\ applied \in BOOLEAN /\ saved \in BOOLEAN /\ moves \in 0..MaxMoves
  /\ confirmed \in Confirmed
  /\ pc \in Steps /\ kind \in Kinds /\ seeded \in BOOLEAN
  /\ replaying \in Kinds \cup {NoIntent}
  /\ todo \subseteq Winners /\ promote \subseteq Txs
  /\ level \subseteq Txs /\ fresh \subseteq Txs /\ seen \subseteq Txs
  /\ owed \subseteq Outpoints \X Txs /\ spent \subseteq Outpoints \X Txs
  /\ err \in BOOLEAN /\ faults \in 0..MaxFaults
  /\ undone \in BOOLEAN /\ revived \subseteq Txs /\ missed \subseteq Txs /\ side \in Kinds

Owns(t) == \A o \in Ins(t) : spender[o] = t

\* A transaction mined on the ancestry of the block keeps every output it
\* spends and is never flagged: the guard refuses the whole block rather than
\* reverse a confirmed spend without a reorganisation.
ConfirmedSpendStands == \A t \in confirmed : Owns(t) /\ t \notin conflicting

\* At every moment a transaction that is not flagged owns all it spends: it is
\* flagged before its spends are reverted and cleared after they are made, and
\* a step that fails or a crash in between leaves it flagged.  (Up to the first
\* compensation: see RollbackRestores.  Children of a transaction that is brought
\* back are unflagged with it and their own inputs are not looked at; one whose
\* flag was lost on the way to the store is not flagged.)
BelievedOwns == ~undone => \A t \in stored \ (conflicting \cup revived \cup missed) : Owns(t)

AtRest == pc = "idle" /\ wal = {}

\* With no operation running and nothing in the log, the winners are all on one
\* side, the one the last completed operation put them on, whatever was started,
\* given up, replayed or healed before: the log never forgets an operation that
\* has moved some of them.  (Unless the guard refused the block, or the flag of a
\* winner was lost.)
LastOperationStands ==
  AtRest /\ ~undone /\ confirmed = {} =>
    \A w \in Winners \ missed : (w \in conflicting) = (side = "reverse")

\* Liveness: after the last fault a process that died comes up, tries every
\* intent it finds and, unless a compensation ran or another transaction has
\* taken an output that is needed, ends with an empty log.
Taken == \E t \in Held : \E o \in Ins(t) : spender[o] \notin Held \cup {NoTx}
IntentsResolved ==
  pc = "down" /\ faults = MaxFaults ~> pc = "idle" /\ (wal = {} \/ undone \/ Taken)

-----------------------------------------------------------------------------
(***************************************************************************)
(* What comments of the code say and the code does not do.                 *)
(***************************************************************************)

\* "re-applying a fully-applied or partially-applied operation converges to
\* the same end-state" (replayPendingConflictIntents): with the block on the
\* chain and its operation complete, the flagged transactions are those that
\* compete with a winner and those that spend an output of a flagged one.
ReplayConverges ==
  AtRest /\ ~undone /\ missed = {} /\ confirmed = {} /\ onChain /\ applied =>
    \A t \in conflicting :
      \/ \E w \in Winners \ {t} : Ins(t) \cap Ins(w) # {}
      \/ \E o \in Ins(t) : Creator[o] \in conflicting

\* "restored to the state it would have been in had that call never happened"
\* (ReverseProcessConflicting): without any fault, once the block has been on
\* the chain and has left it, only the winners and what spends them are flagged.
InverseRestores ==
  AtRest /\ faults = 0 /\ ~Taken /\ ~onChain /\ ~applied =>
    \A t \in conflicting \ Winners : \E o \in Ins(t) : Creator[o] \in conflicting

\* "the deferred rollback unwinds the partial state and a restart re-attempts
\* the (idempotent) operation from the restored precondition"
\* (ProcessConflicting): when the compensation has run without a fault of its
\* own, the winners are flagged again as they were before.
RollbackRestores ==
  undone /\ pc = "idle" /\ ~seeded /\ moves = 1 /\ faults <= 1 /\ ~Taken => Winners \subseteq conflicting

\* "first make sure the parents have been updated that this transaction is
\* conflicting; if this fails, the transaction will not be marked as conflicting
\* and the function will return an error" (SetConflicting): whoever is flagged is
\* a conflicting child of every transaction it spends, where the reverse looks
\* for it.
FlaggedIsLinked == \A t \in conflicting : \A o \in Ins(t) : t \in children[Creator[o]]

\* "the transaction should be marked as conflicting, otherwise it shouldn't be in
\* this process unless it was already processed in this run" (ProcessConflicting),
\* and "a clean restart heals the UTXO store" (replayPendingConflictIntents): with
\* nothing in the log, a block that block assembly has still to move to has its
\* winners flagged, so that the move is not refused.
MoveIsPrepared ==
  AtRest /\ ~undone /\ missed = {} /\ confirmed = {} /\ onChain /\ ~applied => Winners \subseteq conflicting
=============================================================================
