------------------------- MODULE MinedStatus_proofs -------------------------
(***************************************************************************)
(* The types, SettledTagsMatch and TemplateIsUnmined for every tree of     *)
(* blocks, every assignment of transactions to them and any number of      *)
(* faults and operations.                                                  *)
(*                                                                         *)
(* SettledTagsMatch is inductive once three things are known of the worker:*)
(* the block in hand is stored and owes its mined_set (InHand); the        *)
(* verdict read when it was taken is still the store's, unless the flags   *)
(* were rewritten meanwhile (VerdictHolds); and every record the worker    *)
(* is done with carries that verdict, unless a call failed (DoneTagged).   *)
(*                                                                         *)
(* The types need a best block: the genesis block is never invalid and no  *)
(* two rows have one number (Rows), so the order of the rows has a first   *)
(* one.  The template then follows the moves of block assembly             *)
(* (TemplateFits); a load is right because of SettledTagsMatch.            *)
(***************************************************************************)
EXTENDS MinedStatus, FiniteSetTheorems, WellFoundedInduction, TLAPS

Workers == [on : Blocks, at : {"idle", "taken", "tagging"}, unset : BOOLEAN,
            longest : BOOLEAN, todo : SUBSET Txs, failed : BOOLEAN, repeated : BOOLEAN]

Typed ==
  /\ id \in [Blocks -> Nat] /\ tags \in [Txs -> SUBSET Blocks]
  /\ worker \in Workers

Known ==
  /\ minedSet \subseteq Stored /\ subtreesSet \subseteq Stored
  /\ queue \subseteq Stored /\ retrying \subseteq Stored

InHand == worker.at # "idle" => worker.on \in Stored /\ worker.on \notin minedSet

VerdictHolds ==
  worker.at # "idle" /\ worker.on \notin raced => (worker.unset <=> worker.on \in invalid)

DoneTagged ==
  /\ worker.at = "taken" => worker.todo = TxsOf[worker.on]
  /\ worker.at = "tagging" /\ ~worker.failed =>
       \A t \in TxsOf[worker.on] \ worker.todo : worker.on \in tags[t] <=> ~worker.unset

IInv == Typed /\ Known /\ InHand /\ VerdictHolds /\ DoneTagged /\ SettledTagsMatch

-----------------------------------------------------------------------------
\* The next row number is a positive natural, because the tree is finite.
LEMMA NextRow == Cardinality(Stored) \in Nat
  <1>1. IsFiniteSet(Stored)
    BY MinedConstants, FS_Subset DEF Stored
  <1> QED  BY <1>1, FS_CardinalityType

\* The worker without a block.
LEMMA IdleTyped == Idle \in Workers
  BY MinedConstants DEF Idle, Workers

\* The initial state: the genesis block is settled and has no transactions.
LEMMA InitHolds == Init => IInv
  <1> SUFFICES ASSUME Init PROVE IInv  OBVIOUS
  <1>1. Typed /\ worker = Idle /\ Genesis \in Stored
    BY MinedConstants DEF Init, Typed, Workers, Idle, Stored
  <1>2. Known  BY <1>1 DEF Init, Known
  <1>3. InHand /\ VerdictHolds /\ DoneTagged
    BY <1>1 DEF Idle, InHand, VerdictHolds, DoneTagged
  <1>4. SettledTagsMatch  BY MinedConstants DEF Init, SettledTagsMatch
  <1> QED  BY <1>1, <1>2, <1>3, <1>4 DEF IInv

\* Steps that leave the rows, the tags, the worker and its queues alone keep the invariant.
LEMMA Frame ==
  ASSUME IInv, UNCHANGED <<chainVars, tags, queue, retrying, worker, raced>>
  PROVE  IInv'
  BY DEF IInv, Typed, Known, Stored, InHand, VerdictHolds, DoneTagged, SettledTagsMatch,
         chainVars

\* The steps of block assembly are such steps: it writes unmined_since and never a block id.
LEMMA AssembleHolds ==
  ASSUME IInv, Assemble \/ AssemblyFails
  PROVE  IInv'
  <1>1. UNCHANGED <<chainVars, tags, queue, retrying, worker, raced>>
    BY DEF Assemble, AssemblyFails, LoseNews, NewsFails, CatchUpFails, ReorgFails, ResetFails, AssemblyStops,
           Same, MoveForward, Observe,
           PendingDone, CatchUp, ReorgBlocks, Moved, ResetMarks, ResetLoads, AssemblyStarts,
           Load, Fault, recordVars, workerVars, history
  <1> QED  BY <1>1, Frame

\* A new row is not in any set of settled blocks, and it is not the block in hand.
LEMMA AddBlockHolds ==
  ASSUME IInv, NEW b \in Blocks, AddBlock(b)
  PROVE  IInv'
  <1> USE DEF IInv
  <1>1. UNCHANGED <<subtreesSet, minedSet, tags, queue, retrying, worker, raced>>
    BY DEF AddBlock, recordVars, history
  <1>2. b \notin Stored /\ b \notin minedSet /\ id' = [id EXCEPT ![b] = Cardinality(Stored) + 1]
    BY DEF AddBlock, Known
  <1>3. \A c \in Blocks : c # b => (c \in invalid' <=> c \in invalid)
    BY DEF AddBlock
  <1>4. Typed' /\ Stored \subseteq Stored'
    BY <1>1, <1>2, NextRow DEF Typed, Stored
  <1>5. Known'  BY <1>1, <1>4 DEF Known
  <1>6. worker.at # "idle" => worker.on # b /\ worker.on \in Blocks
    BY <1>2 DEF InHand, Typed, Workers
  <1>7. InHand' /\ VerdictHolds' /\ DoneTagged'
    BY <1>1, <1>3, <1>4, <1>6 DEF InHand, VerdictHolds, DoneTagged
  <1>8. SettledTagsMatch'
    BY <1>1, <1>2, <1>3 DEF SettledTagsMatch, Known, Stored
  <1> QED  BY <1>4, <1>5, <1>7, <1>8

\* Flags are rewritten with mined_set, and the block in hand is then on record as raced.
LEMMA FlagsHold ==
  ASSUME IInv, NEW B \in SUBSET Stored,
         UNCHANGED <<id, subtreesSet, tags, retrying>>,
         minedSet' = minedSet \ B,
         \A c \in Blocks \ B : c \in invalid' <=> c \in invalid,
         queue' \subseteq Stored,
         \/ worker' = Idle /\ UNCHANGED raced
         \/ /\ worker' = worker /\ raced \subseteq raced'
            /\ worker.at # "idle" /\ worker.on \in B => worker.on \in raced'
  PROVE  IInv'
  <1> USE DEF IInv
  <1>1. Stored' = Stored  BY DEF Stored
  <1>2. Typed'  BY IdleTyped DEF Typed
  <1>3. Known'  BY <1>1 DEF Known
  <1>4. SettledTagsMatch'
    BY DEF SettledTagsMatch, Known, Stored
  <1>5. CASE worker' = Idle
    BY <1>2, <1>3, <1>4, <1>5 DEF Idle, InHand, VerdictHolds, DoneTagged
  <1>6. CASE worker' = worker /\ raced \subseteq raced'
               /\ (worker.at # "idle" /\ worker.on \in B => worker.on \in raced')
    BY <1>1, <1>2, <1>3, <1>4, <1>6 DEF InHand, VerdictHolds, DoneTagged, Typed, Workers
  <1> QED  BY <1>5, <1>6

\* InvalidateBlock and RevalidateBlock, by an operator or at the end of a validation.
LEMMA InvalidateHolds ==
  ASSUME IInv, NEW b \in Blocks, Invalidate(b) \/ Revalidate(b)
  PROVE  IInv'
  <1>1. CASE Invalidate(b)
    <2>1. Descendants(b) \in SUBSET Stored  BY DEF Descendants
    <2>2. queue' \subseteq Stored
      BY <1>1 DEF Invalidate, InvalidateRows, IInv, Known
    <2>3. UNCHANGED <<id, subtreesSet, tags, retrying, worker>>
      BY <1>1 DEF Invalidate, InvalidateRows, recordVars
    <2>4. /\ minedSet' = minedSet \ Descendants(b)
          /\ \A c \in Blocks \ Descendants(b) : c \in invalid' <=> c \in invalid
          /\ raced \subseteq raced'
          /\ worker.at # "idle" /\ worker.on \in Descendants(b) => worker.on \in raced'
      BY <1>1 DEF Invalidate, InvalidateRows
    <2> QED  BY <2>1, <2>2, <2>3, <2>4, FlagsHold
  <1>2. CASE Revalidate(b)
    <2>1. {b} \in SUBSET Stored  BY <1>2 DEF Revalidate
    <2>2. queue' \subseteq Stored  BY <1>2 DEF Revalidate, IInv, Known
    <2>3. UNCHANGED <<id, subtreesSet, tags, retrying, worker>>
      BY <1>2 DEF Revalidate, recordVars
    <2>4. /\ minedSet' = minedSet \ {b}
          /\ \A c \in Blocks \ {b} : c \in invalid' <=> c \in invalid
          /\ raced \subseteq raced'
          /\ worker.at # "idle" /\ worker.on \in {b} => worker.on \in raced'
      BY <1>2 DEF Revalidate
    <2> QED  BY <2>1, <2>2, <2>3, <2>4, FlagsHold
  <1> QED  BY <1>1, <1>2

\* A block that repeats a transaction of its chain is invalidated by the worker itself.
LEMMA RejectHolds ==
  ASSUME IInv, Reject
  PROVE  IInv'
  <1>1. Descendants(worker.on) \in SUBSET Stored  BY DEF Descendants
  <1>2. worker.on \in Stored  BY DEF Reject, Finished, IInv, InHand
  <1>3. queue' \subseteq Stored
    BY <1>2 DEF Reject, InvalidateRows, IInv, Known
  <1>4. UNCHANGED <<id, subtreesSet, tags, retrying, raced>> /\ worker' = Idle
    BY DEF Reject, InvalidateRows, recordVars, history
  <1>5. /\ minedSet' = minedSet \ Descendants(worker.on)
        /\ \A c \in Blocks \ Descendants(worker.on) : c \in invalid' <=> c \in invalid
    BY DEF Reject, InvalidateRows
  <1> QED  BY <1>1, <1>3, <1>4, <1>5, FlagsHold

\* Hashes move between the queue, the back-off and nowhere; the records are not touched.
LEMMA QueueHolds ==
  ASSUME IInv, NEW b \in Blocks,
         SetBlockSubtreesSet(b) \/ RetryFires(b) \/ Skip(b) \/ Feed \/ ParentSettled(b)
  PROVE  IInv'
  <1> USE DEF IInv
  <1>1. UNCHANGED <<id, invalid, minedSet, tags, worker, raced>>
    BY DEF SetBlockSubtreesSet, RetryFires, Skip, Feed, ParentSettled, chainVars, recordVars,
           workerVars, history
  <1>2. Stored' = Stored  BY <1>1 DEF Stored
  <1>3. queue' \subseteq Stored /\ retrying' \subseteq Stored /\ subtreesSet' \subseteq Stored
    BY DEF SetBlockSubtreesSet, RetryFires, Skip, Feed, ParentSettled, Known, Pending, chainVars
  <1> QED
    BY <1>1, <1>2, <1>3 DEF Typed, Known, InHand, VerdictHolds, DoneTagged, SettledTagsMatch

\* The worker lets its block go, by a retry or a restart.
LEMMA LetGoHolds ==
  ASSUME IInv, Retry \/ WorkerRestarts
  PROVE  IInv'
  <1> USE DEF IInv
  <1>1. UNCHANGED <<id, invalid, subtreesSet, minedSet, tags, raced>> /\ worker' = Idle
    BY DEF Retry, WorkerRestarts, chainVars, recordVars, history
  <1>2. Stored' = Stored  BY <1>1 DEF Stored
  <1>3. queue' \subseteq Stored /\ retrying' \subseteq Stored
    BY DEF Retry, WorkerRestarts, Finished, Known, InHand
  <1>4. Typed' /\ Known'  BY <1>1, <1>2, <1>3, IdleTyped DEF Typed, Known
  <1>5. InHand' /\ VerdictHolds' /\ DoneTagged'
    BY <1>1 DEF Idle, InHand, VerdictHolds, DoneTagged
  <1>6. SettledTagsMatch'  BY <1>1 DEF SettledTagsMatch
  <1> QED  BY <1>4, <1>5, <1>6

\* Taking a block reads its verdict afresh and forgets an earlier race.
LEMMA TakeHolds ==
  ASSUME IInv, NEW b \in Blocks, Take(b)
  PROVE  IInv'
  <1> USE DEF IInv
  <1>1. UNCHANGED <<id, invalid, subtreesSet, minedSet, tags, retrying>>
    BY DEF Take, chainVars, recordVars
  <1>2. Stored' = Stored  BY <1>1 DEF Stored
  <1>3. /\ worker' \in Workers /\ worker'.on = b /\ worker'.at = "taken"
        /\ worker'.unset = (b \in invalid) /\ worker'.todo = TxsOf[b]
    <2>1. worker' = [on |-> b, at |-> "taken", unset |-> b \in invalid, longest |-> FALSE,
                     todo |-> TxsOf[b], failed |-> FALSE, repeated |-> FALSE]
      BY DEF Take, Idle
    <2>2. (b \in invalid) \in BOOLEAN /\ TxsOf[b] \subseteq Txs  BY MinedConstants
    <2>3. worker' \in Workers  BY <2>1, <2>2 DEF Workers
    <2> QED  BY <2>1, <2>3
  <1>4. b \in Stored /\ b \notin minedSet /\ queue' \subseteq Stored /\ raced' = raced \ {b}
    BY DEF Take, Known
  <1>5. Typed' /\ Known'  BY <1>1, <1>2, <1>3, <1>4 DEF Typed, Known
  <1>6. InHand' /\ VerdictHolds' /\ DoneTagged'
    BY <1>1, <1>2, <1>3, <1>4 DEF InHand, VerdictHolds, DoneTagged
  <1>7. SettledTagsMatch'  BY <1>1, <1>4 DEF SettledTagsMatch
  <1> QED  BY <1>5, <1>6, <1>7

\* One record after the other gets the verdict; those of settled blocks are not concerned.
LEMMA TaggingHolds ==
  ASSUME IInv,
         \/ Locate \/ CallFails
         \/ \E t \in Txs : TagOne(t) \/ TagFails(t)
  PROVE  IInv'
  <1> USE DEF IInv
  <1>1. /\ UNCHANGED <<id, invalid, subtreesSet, minedSet, queue, retrying, raced>>
        /\ worker.at # "idle"
    BY DEF Locate, CallFails, TagOne, TagFails, chainVars, history
  <1>2. Stored' = Stored  BY <1>1 DEF Stored
  <1>3. /\ worker' \in Workers /\ worker'.on = worker.on /\ worker'.unset = worker.unset
        /\ worker'.at = "tagging"
    <2>1. CASE Locate
      <3>1. PICK l \in BOOLEAN : worker' = [worker EXCEPT !.at = "tagging", !.longest = l]
        <4>1. (worker.on \in Chain[Best]) \in BOOLEAN  OBVIOUS
        <4> QED  BY <2>1, <4>1, Zenon DEF Locate
      <3> QED  BY <3>1 DEF Typed, Workers
    <2>2. CASE CallFails  BY <2>2 DEF CallFails, Typed, Workers
    <2>3. ASSUME NEW t \in Txs, TagFails(t)
          PROVE  /\ worker' \in Workers /\ worker'.on = worker.on
                 /\ worker'.unset = worker.unset /\ worker'.at = "tagging"
      <3>1. worker' = [worker EXCEPT !.todo = worker.todo \ {t}, !.failed = TRUE]
        BY <2>3 DEF TagFails
      <3> QED  BY <3>1, <2>3 DEF TagFails, Typed, Workers
    <2>4. ASSUME NEW t \in Txs, TagOne(t)
          PROVE  /\ worker' \in Workers /\ worker'.on = worker.on
                 /\ worker'.unset = worker.unset /\ worker'.at = "tagging"
      <3>1. PICK r \in BOOLEAN :
              worker' = [worker EXCEPT !.todo = worker.todo \ {t}, !.repeated = r]
        <4>1. (worker.repeated \/ (~worker.unset /\ (tags[t] \cap Chain[worker.on]) \ {worker.on} # {}))
                \in BOOLEAN
          OBVIOUS
        <4> QED  BY <2>4, <4>1, Zenon DEF TagOne
      <3> QED  BY <3>1, <2>4 DEF TagOne, Typed, Workers
    <2> QED  BY <2>1, <2>2, <2>3, <2>4
  <1>4. tags' = tags
        \/ \E t \in Txs : tags' = [tags EXCEPT ![t] = tags[t] \ {worker.on}]
                       \/ tags' = [tags EXCEPT ![t] = tags[t] \cup {worker.on}]
    BY DEF Locate, CallFails, TagOne, TagFails, Tag, recordVars
  <1>5. /\ tags' \in [Txs -> SUBSET Blocks]
        /\ \A t \in Txs : \A b \in Blocks \ {worker.on} : b \in tags'[t] <=> b \in tags[t]
    BY <1>4 DEF Typed, Workers
  <1>6. Typed' /\ Known' /\ InHand' /\ VerdictHolds'
    BY <1>1, <1>2, <1>3, <1>5 DEF Typed, Known, InHand, VerdictHolds
  <1>7. SettledTagsMatch'
    BY <1>1, <1>5, MinedConstants DEF SettledTagsMatch, InHand, Known, Stored
  <1>8. DoneTagged'
    <2>1. CASE Locate \/ CallFails \/ \E t \in Txs : TagFails(t)
      BY <2>1, <1>3 DEF Locate, CallFails, TagFails, DoneTagged, Typed, Workers, recordVars
    <2>2. CASE \E t \in Txs : TagOne(t)
      <3>1. PICK t \in Txs : TagOne(t)  BY <2>2
      <3>2. /\ worker'.todo = worker.todo \ {t} /\ worker'.failed = worker.failed
            /\ worker.at = "tagging"
        BY <3>1 DEF TagOne, Typed, Workers
      <3>3. worker.on \in tags'[t] <=> ~worker.unset
        BY <3>1 DEF TagOne, Tag, Typed, Workers
      <3>4. \A u \in Txs \ {t} : tags'[u] = tags[u]
        BY <3>1 DEF TagOne, Tag, Typed
      <3>5. TxsOf[worker.on] \subseteq Txs  BY MinedConstants DEF Typed, Workers
      <3> QED  BY <3>2, <3>3, <3>4, <3>5, <1>3 DEF DoneTagged
    <2> QED  BY <2>1, <2>2
  <1> QED  BY <1>6, <1>7, <1>8

\* mined_set is set when every record carries the verdict and no call failed.
LEMMA SetBlockMinedSetHolds ==
  ASSUME IInv, SetBlockMinedSet
  PROVE  IInv'
  <1> USE DEF IInv
  <1>1. UNCHANGED <<id, invalid, subtreesSet, tags, queue, retrying, raced>> /\ worker' = Idle
    BY DEF SetBlockMinedSet, recordVars, history
  <1>2. Stored' = Stored  BY <1>1 DEF Stored
  <1>3. worker.on \in Stored /\ minedSet' = minedSet \cup {worker.on}
    BY DEF SetBlockMinedSet, Finished, InHand
  <1>4. Typed' /\ Known'  BY <1>1, <1>2, <1>3, IdleTyped DEF Typed, Known
  <1>5. InHand' /\ VerdictHolds' /\ DoneTagged'
    BY <1>1 DEF Idle, InHand, VerdictHolds, DoneTagged
  <1>6. worker.on \notin raced =>
          \A t \in TxsOf[worker.on] : worker.on \in tags[t] <=> worker.on \notin invalid
    BY DEF SetBlockMinedSet, Finished, VerdictHolds, DoneTagged
  <1>7. SettledTagsMatch'  BY <1>1, <1>3, <1>6 DEF SettledTagsMatch
  <1> QED  BY <1>4, <1>5, <1>7

\* Every step keeps the invariant.
LEMMA StepHolds == IInv /\ [Next]_vars => IInv'
  <1> SUFFICES ASSUME IInv, [Next]_vars PROVE IInv'  OBVIOUS
  <1>1. CASE UNCHANGED vars
    BY <1>1, Frame DEF vars, recordVars, workerVars, history
  <1>2. CASE \E b \in Blocks \ {Genesis} :
               \/ ParentSettled(b) \/ AddBlock(b) \/ SetBlockSubtreesSet(b)
               \/ Invalidate(b) \/ Revalidate(b) \/ RetryFires(b)
    BY <1>2, QueueHolds, AddBlockHolds, InvalidateHolds
  <1>3. CASE Feed  BY <1>3, QueueHolds, MinedConstants
  <1>4. CASE SetMined
    BY <1>4, TaggingHolds, LetGoHolds, RejectHolds, SetBlockMinedSetHolds, QueueHolds, TakeHolds
       DEF SetMined
  <1>5. CASE Assemble \/ AssemblyFails
    BY <1>5, AssembleHolds
  <1>6. CASE CallFails \/ \E t \in Txs : TagFails(t)  BY <1>6, TaggingHolds
  <1>7. CASE WorkerRestarts  BY <1>7, LetGoHolds
  <1> QED  BY <1>1, <1>2, <1>3, <1>4, <1>5, <1>6, <1>7 DEF Next

\* Whatever fails, is retried or is cut off, a block with mined_set has its verdict in the
\* records of all its transactions, unless InvalidateBlock or RevalidateBlock came between
\* the worker's reading of the verdict and its SetBlockMinedSet.
THEOREM TagsFollowTheVerdict == Spec => []SettledTagsMatch
  <1>1. IInv => SettledTagsMatch  BY DEF IInv
  <1> QED  BY InitHolds, StepHolds, <1>1, PTL DEF Spec


-----------------------------------------------------------------------------
(***************************************************************************)
(* The best block.                                                         *)
(***************************************************************************)

\* The genesis block stays valid and settled, and no two rows have one number.
Rows ==
  /\ Genesis \in minedSet /\ Genesis \notin invalid
  /\ \A b \in Stored : id[b] <= Cardinality(Stored)
  /\ \A b, c \in Stored : id[b] = id[c] => b = c

\* A set of numbers has a smallest one.
LEMMA Smallest ==
  ASSUME NEW T \in SUBSET Nat, T # {}
  PROVE  \E x \in T : \A y \in T : x <= y
  <1>1. \E x \in T : \A y \in T : ~(<<y, x>> \in OpToRel(<, Nat))
    BY NatLessThanWellFounded, WFMin, Zenon
  <1>2. PICK x \in T : \A y \in T : ~(<<y, x>> \in OpToRel(<, Nat))
    BY <1>1, Zenon
  <1>3. \A y \in T : ~(y < x)
    BY <1>2 DEF OpToRel
  <1> QED  BY <1>3

\* The same for the members of a set, by a number they have.
LEMMA SmallestBy ==
  ASSUME NEW S, S # {}, NEW f \in [S -> Nat]
  PROVE  \E x \in S : \A y \in S : f[x] <= f[y]
  <1>1. {f[y] : y \in S} \in SUBSET Nat /\ {f[y] : y \in S} # {}  OBVIOUS
  <1>2. PICK n \in {f[y] : y \in S} : \A m \in {f[y] : y \in S} : n <= m
    BY <1>1, Smallest
  <1> QED  BY <1>2

\* Work is a number no larger than the tree.
LEMMA WorkBounded ==
  /\ Cardinality(Blocks) \in Nat
  /\ \A b \in Blocks : Work(b) \in Nat /\ Work(b) <= Cardinality(Blocks)
  <1>1. IsFiniteSet(Blocks) /\ Cardinality(Blocks) \in Nat
    BY MinedConstants, FS_CardinalityType
  <1>2. ASSUME NEW b \in Blocks PROVE Work(b) \in Nat /\ Work(b) <= Cardinality(Blocks)
    <2>1. Chain[b] \in SUBSET Blocks  BY MinedConstants
    <2>2. IsFiniteSet(Chain[b]) /\ Cardinality(Chain[b]) <= Cardinality(Blocks)
      BY <1>1, <2>1, FS_Subset
    <2> QED  BY <2>2, FS_CardinalityType DEF Work
  <1> QED  BY <1>1, <1>2

\* There is a best block: the order of GetBestBlockHeader has a first row.
LEMMA BestStored ==
  ASSUME id \in [Blocks -> Nat], Known, Rows
  PROVE  Best \in Stored \ invalid /\ Best \in Blocks
  <1> DEFINE S == Stored \ invalid
  <1>0. S \subseteq Blocks /\ S # {}
    BY DEF Stored, Known, Rows
  <1>1. PICK x \in S : \A y \in S : Work(y) <= Work(x)
    <2> DEFINE f == [b \in S |-> Cardinality(Blocks) - Work(b)]
    <2>1. f \in [S -> Nat]
      BY <1>0, WorkBounded
    <2>2. PICK x \in S : \A y \in S : f[x] <= f[y]
      BY <1>0, <2>1, SmallestBy
    <2>3. \A y \in S : Work(y) <= Work(x)
      BY <1>0, <2>2, WorkBounded
    <2> QED  BY <2>3
  <1> DEFINE S1 == {b \in S : Work(b) = Work(x)}
  <1>2. PICK y \in S1 : \A c \in S1 : Peer[y] <= Peer[c]
    <2> DEFINE f == [b \in S1 |-> Peer[b]]
    <2>1. f \in [S1 -> Nat] /\ S1 # {}
      BY <1>0, <1>1, MinedConstants
    <2>2. PICK y \in S1 : \A c \in S1 : f[y] <= f[c]
      BY <2>1, SmallestBy
    <2> QED  BY <2>2
  <1> DEFINE S2 == {b \in S1 : Peer[b] = Peer[y]}
  <1>3. PICK z \in S2 : \A c \in S2 : id[z] <= id[c]
    <2> DEFINE f == [b \in S2 |-> id[b]]
    <2>1. f \in [S2 -> Nat] /\ S2 # {}
      BY <1>0, <1>2
    <2>2. PICK z \in S2 : \A c \in S2 : f[z] <= f[c]
      BY <2>1, SmallestBy
    <2> QED  BY <2>2
  <1>4. ASSUME NEW c \in S, z # c PROVE Before(z, c)
    <2>1. Work(c) \in Nat /\ Work(z) \in Nat /\ Peer[c] \in Nat /\ Peer[z] \in Nat
          /\ id[c] \in Nat /\ id[z] \in Nat
      BY <1>0, WorkBounded, MinedConstants
    <2>2. id[c] # id[z]
      BY <1>4 DEF Rows
    <2>3. Work(z) = Work(x) /\ Peer[z] = Peer[y] /\ Work(c) <= Work(x)
      BY <1>1
    <2>4. Work(c) = Work(x) => Peer[y] <= Peer[c]
      BY <1>2
    <2>5. Work(c) = Work(x) /\ Peer[c] = Peer[y] => id[z] <= id[c]
      BY <1>3
    <2> QED  BY <2>1, <2>2, <2>3, <2>4, <2>5 DEF Before
  <1>5. \E b \in S : \A c \in S : b # c => Before(b, c)
    BY <1>4
  <1>6. Best \in S
    BY <1>5 DEF Best
  <1> QED  BY <1>0, <1>6


\* Rows are added with a new number and never taken away; what is invalidated lies above the
\* genesis block.
LEMMA RowsStep ==
  ASSUME IInv, Rows, [Next]_vars
  PROVE  Rows'
  <1>0. \A b \in Blocks \ {Genesis} : Genesis \notin Descendants(b)
    BY MinedConstants DEF Descendants
  <1>1. ASSUME UNCHANGED id, Genesis \in minedSet', Genesis \notin invalid' PROVE Rows'
    <2>1. Stored' = Stored  BY <1>1 DEF Stored
    <2> QED  BY <1>1, <2>1 DEF Rows
  <1>2. ASSUME NEW b \in Blocks \ {Genesis}, AddBlock(b) PROVE Rows'
    <2>1. b \notin Stored /\ UNCHANGED minedSet /\ id' = [id EXCEPT ![b] = Cardinality(Stored) + 1]
      BY <1>2 DEF AddBlock
    <2>2. id \in [Blocks -> Nat] /\ Cardinality(Stored) \in Nat /\ IsFiniteSet(Stored)
      BY NextRow, MinedConstants, FS_Subset DEF IInv, Typed, Stored
    <2>3. Stored' = Stored \cup {b}
      BY <2>1, <2>2 DEF Stored
    <2>4. Cardinality(Stored') = Cardinality(Stored) + 1
      BY <2>1, <2>2, <2>3, FS_AddElement
    <2>5. Stored \subseteq Blocks
      BY DEF Stored
    <2>6. \A c \in Stored' : id'[c] <= Cardinality(Stored')
      BY <2>1, <2>2, <2>3, <2>4, <2>5 DEF Rows
    <2>7. \A c, d \in Stored' : id'[c] = id'[d] => c = d
      BY <2>1, <2>2, <2>3, <2>5 DEF Rows
    <2>8. Genesis \in minedSet' /\ Genesis \notin invalid'
      BY <1>2, <2>1 DEF AddBlock, Rows
    <2> QED  BY <2>6, <2>7, <2>8 DEF Rows
  <1>3. ASSUME NEW b \in Blocks \ {Genesis}, Invalidate(b) \/ Revalidate(b) PROVE Rows'
    BY <1>0, <1>1, <1>3 DEF Invalidate, InvalidateRows, Revalidate, Rows
  <1>4. CASE Reject
    <2>1. worker.on \in Blocks \ {Genesis}
      BY <1>4 DEF Reject, Finished, IInv, InHand, Typed, Workers, Rows
    <2> QED  BY <1>0, <1>1, <1>4, <2>1 DEF Reject, InvalidateRows, Rows
  <1>5. CASE SetBlockMinedSet
    BY <1>1, <1>5 DEF SetBlockMinedSet, Rows
  <1>6. ASSUME UNCHANGED <<id, invalid, minedSet>> PROVE Rows'
    BY <1>1, <1>6 DEF Rows
  <1>7. ASSUME NEW b \in Blocks, \/ ParentSettled(b) \/ SetBlockSubtreesSet(b) \/ RetryFires(b) \/ Skip(b)
                                 \/ Take(b)
        PROVE  UNCHANGED <<id, invalid, minedSet>>
    BY <1>7 DEF ParentSettled, SetBlockSubtreesSet, RetryFires, Skip, Take, chainVars
  <1>8. ASSUME \/ Feed \/ Locate \/ Retry \/ CallFails \/ WorkerRestarts
               \/ \E t \in Txs : TagOne(t) \/ TagFails(t)
        PROVE  UNCHANGED <<id, invalid, minedSet>>
    BY <1>8 DEF Feed, Locate, Retry, CallFails, WorkerRestarts, TagOne, TagFails, chainVars
  <1>9. ASSUME Assemble \/ AssemblyFails \/ UNCHANGED vars
        PROVE  UNCHANGED <<id, invalid, minedSet>>
    BY <1>9 DEF Assemble, AssemblyFails, LoseNews, NewsFails, CatchUpFails, ReorgFails, ResetFails, AssemblyStops,
           Same, MoveForward, Observe,
           PendingDone, CatchUp, ReorgBlocks, Moved, ResetMarks, ResetLoads, AssemblyStarts,
           chainVars, vars
  <1> QED
    BY <1>2, <1>3, <1>4, <1>5, <1>6, <1>7, <1>8, <1>9 DEF Next, SetMined

-----------------------------------------------------------------------------
(***************************************************************************)
(* Types.                                                                  *)
(***************************************************************************)

Moves == [at : {"rest", "catchUp", "reorg", "reorging", "moved", "reset", "resetting",
                "load", "start", "starting"}, to : Blocks, bad : SUBSET Blocks]

News == {"none", "waits", "lost"}

\* What is left of the types of the chain, of the records and of block validation.
ChainTyped ==
  /\ invalid \subseteq Blocks /\ accepted \subseteq Blocks /\ unmined \subseteq Txs
  /\ attempts \in [Blocks -> Nat] /\ raced \subseteq Blocks /\ faults \in Nat /\ ops \in Nat

\* The types of block assembly.
AssemblyTyped ==
  /\ tip \in Blocks /\ template \subseteq Txs /\ news \in News
  /\ ba \in Moves /\ early \in BOOLEAN

TypeInv == IInv /\ Rows /\ ChainTyped /\ AssemblyTyped

\* Block validation and the operators leave block assembly alone, but for announcing.
LEMMA ChainTypedStep ==
  ASSUME TypeInv, [Next]_vars,
         ~(Assemble \/ AssemblyFails)
  PROVE  ChainTyped' /\ UNCHANGED <<tip, template, ba, early>> /\ news' \in News
  <1> USE DEF TypeInv, News
  <1>0. worker \in Workers /\ (worker.at # "idle" => worker.on \in Stored) /\ Stored \subseteq Blocks
    BY DEF IInv, Typed, InHand, Stored
  <1>a. news \in News  BY DEF AssemblyTyped
  <1>f. ASSUME NEW kind, Fault(kind) PROVE faults' \in Nat
    BY <1>f DEF Fault, ChainTyped
  <1>1. ASSUME NEW b \in Blocks, ParentSettled(b) \/ AddBlock(b) \/ SetBlockSubtreesSet(b) \/ RetryFires(b)
        PROVE  ChainTyped' /\ UNCHANGED <<tip, template, ba, early>> /\ news' \in News
    BY <1>1, <1>a DEF ParentSettled, AddBlock, SetBlockSubtreesSet, RetryFires, chainVars, recordVars, baVars,
           history, ChainTyped
  <1>2. ASSUME NEW b \in Blocks, Invalidate(b)
        PROVE  ChainTyped' /\ UNCHANGED <<tip, template, ba, early>> /\ news' \in News
    <2>1. Descendants(b) \subseteq Blocks  BY DEF Descendants, Stored
    <2>2. raced' \subseteq Blocks  BY <1>2, <1>0 DEF Invalidate, ChainTyped, Workers
    <2> QED  BY <1>2, <2>1, <2>2 DEF Invalidate, InvalidateRows, recordVars, ChainTyped
  <1>3. ASSUME NEW b \in Blocks, Revalidate(b)
        PROVE  ChainTyped' /\ UNCHANGED <<tip, template, ba, early>> /\ news' \in News
    BY <1>3 DEF Revalidate, recordVars, ChainTyped
  <1>4. ASSUME NEW b \in Blocks, Skip(b) \/ Take(b)
        PROVE  ChainTyped' /\ UNCHANGED <<tip, template, ba, early>> /\ news' \in News
    BY <1>4, <1>a DEF Skip, Take, chainVars, recordVars, baVars, history, ChainTyped
  <1>5. CASE Feed \/ Locate \/ UNCHANGED vars
    BY <1>5, <1>a DEF Feed, Locate, chainVars, recordVars, workerVars, baVars, history, vars, ChainTyped
  <1>6. ASSUME NEW t \in Txs, TagOne(t)
        PROVE  ChainTyped' /\ UNCHANGED <<tip, template, ba, early>> /\ news' \in News
    <2>1. unmined' \subseteq Txs
      BY <1>6 DEF TagOne, Tag, ChainTyped
    <2> QED  BY <1>6, <1>a, <2>1 DEF TagOne, chainVars, baVars, history, ChainTyped
  <1>7. ASSUME NEW t \in Txs, TagFails(t)
        PROVE  ChainTyped' /\ UNCHANGED <<tip, template, ba, early>> /\ news' \in News
    BY <1>7, <1>a, <1>f DEF TagFails, chainVars, recordVars, baVars, ChainTyped
  <1>8. CASE CallFails
    BY <1>8, <1>a, <1>f DEF CallFails, chainVars, recordVars, baVars, ChainTyped
  <1>9. CASE Retry
    <2>1. attempts' \in [Blocks -> Nat]
      BY <1>9, <1>0 DEF Retry, Finished, ChainTyped, Workers
    <2> QED  BY <1>9, <1>a, <2>1 DEF Retry, chainVars, recordVars, baVars, history, ChainTyped
  <1>10. CASE Reject
    <2>1. Descendants(worker.on) \subseteq Blocks  BY DEF Descendants, Stored
    <2>2. attempts' \in [Blocks -> Nat]  BY <1>10 DEF Reject, ChainTyped
    <2> QED  BY <1>10, <2>1, <2>2 DEF Reject, InvalidateRows, recordVars, history, ChainTyped
  <1>11. CASE SetBlockMinedSet
    <2>1. attempts' \in [Blocks -> Nat]  BY <1>11 DEF SetBlockMinedSet, ChainTyped
    <2> QED  BY <1>11, <1>a, <2>1 DEF SetBlockMinedSet, recordVars, baVars, history, ChainTyped
  <1>12. CASE WorkerRestarts
    BY <1>12, <1>a, <1>f DEF WorkerRestarts, chainVars, recordVars, baVars, ChainTyped
  <1> QED
    BY <1>1, <1>2, <1>3, <1>4, <1>5, <1>6, <1>7, <1>8, <1>9, <1>10, <1>11, <1>12 DEF Next, SetMined

\* A move of block assembly leads to a block of the tree.
LEMMA AssemblyTypedStep ==
  ASSUME TypeInv, Assemble \/ AssemblyFails
  PROVE  ChainTyped' /\ AssemblyTyped'
  <1> USE DEF TypeInv, News
  <1>0. Best \in Blocks /\ invalid \subseteq Blocks /\ Genesis \in Blocks
    BY BestStored, MinedConstants DEF IInv, Typed, ChainTyped
  <1>1. \A bs \in SUBSET Blocks : BlockTxs(bs) \subseteq Txs
    BY MinedConstants DEF BlockTxs
  <1>2. /\ AtRest \in Moves /\ [AtRest EXCEPT !.at = "start"] \in Moves
        /\ \A at \in {"reset", "reorg", "catchUp"} : [at |-> at, to |-> Best, bad |-> invalid] \in Moves
    BY <1>0 DEF AtRest, Moves
  <1>3. ba.to \in Blocks /\ tip \in Blocks /\ ba \in Moves
    BY DEF AssemblyTyped, Moves
  <1>4. Back(ba.to) \subseteq Blocks /\ Forward(ba.to) \subseteq Blocks
    BY <1>3, MinedConstants DEF Back, Forward
  <1>f. ASSUME NEW kind, Fault(kind) PROVE faults' \in Nat
    BY <1>f DEF Fault, ChainTyped
  <1>5. CASE Same \/ MoveForward
    BY <1>0, <1>5 DEF Same, MoveForward, chainVars, recordVars, workerVars, history, ChainTyped, AssemblyTyped
  <1>6. CASE Observe
    <2>1. ba' \in Moves
      BY <1>2, <1>6 DEF Observe
    <2> QED
      BY <1>6, <2>1 DEF Observe, chainVars, recordVars, workerVars, history, ChainTyped, AssemblyTyped
  <1>7. CASE PendingDone
    <2>1. ba' \in Moves
      BY <1>3, <1>7 DEF PendingDone, After, Moves
    <2> QED
      BY <1>7, <2>1 DEF PendingDone, chainVars, recordVars, workerVars, history, ChainTyped, AssemblyTyped
  <1>8. CASE CatchUp
    BY <1>2, <1>3, <1>8 DEF CatchUp, chainVars, recordVars, workerVars, history, ChainTyped, AssemblyTyped
  <1>9. CASE LoseNews \/ NewsFails \/ CatchUpFails \/ ResetFails
    <2>1. ba' \in Moves /\ news' \in News /\ faults' \in Nat
      BY <1>2, <1>3, <1>9, <1>f DEF LoseNews, NewsFails, CatchUpFails, ResetFails, GiveUp, News, AssemblyTyped
    <2> QED
      BY <1>9, <2>1 DEF LoseNews, NewsFails, CatchUpFails, ResetFails, chainVars, recordVars, workerVars,
         ChainTyped, AssemblyTyped
  <1>10. CASE ReorgBlocks
    <2>1. template' \subseteq Txs
      BY <1>1, <1>4, <1>10 DEF ReorgBlocks, AssemblyTyped
    <2>2. MarkFalse(template') \subseteq template'
      BY DEF MarkFalse
    <2>3. unmined' \subseteq Txs
      BY <1>10, <2>1, <2>2 DEF ReorgBlocks, ChainTyped
    <2>4. ba' \in Moves
      BY <1>3, <1>10 DEF ReorgBlocks, Moves
    <2>5. early' \in BOOLEAN
      BY <1>10 DEF ReorgBlocks
    <2> QED
      BY <1>10, <2>1, <2>3, <2>4, <2>5 DEF ReorgBlocks, chainVars, workerVars, ChainTyped, AssemblyTyped
  <1>11. CASE ReorgFails
    BY <1>2, <1>11, <1>f DEF ReorgFails, chainVars, recordVars, workerVars, ChainTyped, AssemblyTyped
  <1>12. CASE Moved
    <2>1. ba' \in Moves /\ tip' \in Blocks
      BY <1>2, <1>3, <1>12 DEF Moved
    <2> QED
      BY <1>12, <2>1 DEF Moved, chainVars, recordVars, workerVars, history, ChainTyped, AssemblyTyped
  <1>13. CASE ResetMarks
    <2>1. unmined' \subseteq Txs
      <3>1. BlockTxs(Back(ba.to) \ ba.bad) \subseteq Txs
        BY <1>1, <1>4
      <3> QED  BY <1>13, <3>1 DEF ResetMarks, ChainTyped, AssemblyTyped
    <2>2. ba' \in Moves
      BY <1>3, <1>13 DEF ResetMarks, Moves
    <2>3. faults' \in Nat
      BY <1>13, <1>f DEF ResetMarks, ChainTyped
    <2> QED
      BY <1>13, <2>1, <2>2, <2>3 DEF ResetMarks, chainVars, workerVars, ChainTyped, AssemblyTyped
  <1>14. ASSUME NEW to, Load(to) PROVE template' \subseteq Txs /\ unmined' \subseteq Txs /\ early' \in BOOLEAN
    BY <1>14 DEF Load, ChainTyped
  <1>15. CASE ResetLoads
    <2>1. ba' \in Moves
      BY <1>3, <1>15 DEF ResetLoads, Moves
    <2> QED
      BY <1>14, <1>15, <2>1 DEF ResetLoads, chainVars, workerVars, ChainTyped, AssemblyTyped
  <1>16. CASE AssemblyStops
    <2>1. ba' \in Moves /\ faults' \in Nat
      BY <1>2, <1>16, <1>f DEF AssemblyStops
    <2> QED
      BY <1>16, <2>1 DEF AssemblyStops, chainVars, recordVars, workerVars, ChainTyped, AssemblyTyped
  <1>17. CASE AssemblyStarts
    BY <1>2, <1>14, <1>17 DEF AssemblyStarts, chainVars, workerVars, ChainTyped, AssemblyTyped
  <1> QED
    BY <1>5, <1>6, <1>7, <1>8, <1>9, <1>10, <1>11, <1>12, <1>13, <1>15, <1>16, <1>17 DEF Assemble, AssemblyFails

\* Every step keeps the types and the rows.
LEMMA TypeInvStep == TypeInv /\ [Next]_vars => TypeInv'
  <1> SUFFICES ASSUME TypeInv, [Next]_vars PROVE TypeInv'  OBVIOUS
  <1>1. IInv' /\ Rows'
    BY StepHolds, RowsStep DEF TypeInv
  <1>2. ChainTyped' /\ AssemblyTyped'
    BY ChainTypedStep, AssemblyTypedStep DEF TypeInv, AssemblyTyped
  <1> QED  BY <1>1, <1>2 DEF TypeInv

\* Every variable has its type at first, and the genesis block is the first row.
LEMMA TypeInvInit == Init => TypeInv
  <1> SUFFICES ASSUME Init PROVE TypeInv  OBVIOUS
  <1>1. Stored = {Genesis}
    BY MinedConstants DEF Init, Stored
  <1>2. Rows
    <2>1. Cardinality(Stored) = 1  BY <1>1, FS_Singleton
    <2>2. id[Genesis] = 1 /\ Genesis \in minedSet /\ Genesis \notin invalid  BY MinedConstants DEF Init
    <2> QED  BY <1>1, <2>1, <2>2 DEF Rows
  <1>3. ChainTyped
    BY DEF Init, ChainTyped
  <1>4. AtRest \in Moves
    BY MinedConstants DEF AtRest, Moves
  <1>5. AssemblyTyped
    BY <1>4, MinedConstants DEF Init, AssemblyTyped, News
  <1> QED  BY <1>2, <1>3, <1>5, InitHolds DEF TypeInv

\* Every variable keeps its type, for every tree of blocks and any number of faults and
\* operations; block assembly in particular always has a best block to follow.
THEOREM TypeCorrect == Spec => []TypeOK
  <1>1. TypeInv => TypeOK
    BY DEF TypeInv, IInv, Typed, Workers, Known, Stored, ChainTyped, AssemblyTyped, Moves, News, TypeOK
  <1> QED  BY <1>1, TypeInvInit, TypeInvStep, PTL DEF Spec


-----------------------------------------------------------------------------
(***************************************************************************)
(* The template.                                                           *)
(***************************************************************************)

\* Nothing of the chain of b is in the template.
Clear(b) == template \cap TxsOn(b) = {}

\* The template fits the tip until a reorganisation has moved it, and then the block it
\* leads to, unless it left an invalid block behind and a reset is to follow; before any
\* other reset it fits the tip too.  A catch-up leads up the chain of the tip.
TemplateFits ==
  /\ ba.at \in {"rest", "catchUp", "reorg", "reorging", "reset"} /\ ~early => Clear(tip)
  /\ ba.at = "moved" /\ ~early => Clear(ba.to) \/ Back(ba.to) \cap ba.bad # {}
  /\ ba.at = "catchUp" => Chain[tip] \subseteq Chain[ba.to]

\* A load takes none of the transactions of a settled chain: their records have its ids.
LEMMA LoadClears ==
  ASSUME SettledTagsMatch, NEW to \in Blocks, Load(to), ~early'
  PROVE  template' \cap TxsOn(to) = {}
  <1> SUFFICES ASSUME NEW t \in template', t \in TxsOn(to) PROVE FALSE  OBVIOUS
  <1>1. PICK b \in Chain[to] : t \in TxsOf[b]
    BY DEF TxsOn
  <1>2. b \in minedSet /\ b \notin raced /\ b \notin invalid
    BY <1>1 DEF Load
  <1>3. b \in tags[t]
    BY <1>1, <1>2 DEF SettledTagsMatch
  <1>4. t \in unmined /\ tags[t] \cap Chain[to] = {}
    BY DEF Load
  <1> QED  BY <1>1, <1>3, <1>4

\* What a reorganisation takes back is in no block that both chains have, unless a block
\* repeats what its own chain has.
LEMMA ReorgClears ==
  ASSUME tip \in Blocks, ba.to \in Blocks, ReorgBlocks, Clear(tip),
         \A b \in Back(ba.to) : ~Repeats(b)
  PROVE  template' \cap TxsOn(ba.to) = {}
  <1> SUFFICES ASSUME NEW t \in template', t \in TxsOn(ba.to) PROVE FALSE  OBVIOUS
  <1>1. PICK c \in Chain[ba.to] : t \in TxsOf[c]
    BY DEF TxsOn
  <1>2. t \in template \cup BlockTxs(Back(ba.to)) /\ t \notin BlockTxs(Forward(ba.to))
    BY DEF ReorgBlocks
  <1>3. c \in Chain[tip]
    BY <1>1, <1>2 DEF BlockTxs, Forward
  <1>4. t \notin template
    BY <1>1, <1>3 DEF Clear, TxsOn
  <1>5. PICK b \in Back(ba.to) : t \in TxsOf[b]
    BY <1>2, <1>4 DEF BlockTxs
  <1>6. b \in Chain[tip] /\ b \notin Chain[ba.to] /\ b \in Blocks
    BY <1>5, MinedConstants DEF Back
  <1>7. c \in Chain[b] /\ c # b
    <2>1. c \in Chain[b] \/ b \in Chain[c]
      BY <1>3, <1>6, MinedConstants
    <2>2. b \notin Chain[c]
      BY <1>1, <1>6, MinedConstants DEF Back
    <2> QED  BY <1>1, <1>6, <2>1, <2>2
  <1>8. b # Genesis /\ c \in Chain[Parent[b]]
    BY <1>6, <1>7, MinedConstants
  <1>9. Repeats(b)
    BY <1>1, <1>5, <1>8 DEF Repeats, TxsOn
  <1> QED  BY <1>5, <1>9


\* Every step keeps the template clear of the chain it is for.
LEMMA TemplateStep ==
  ASSUME TypeInv, TemplateFits, [Next]_vars
  PROVE  TemplateFits'
  <1>0. /\ tip \in Blocks /\ ba.to \in Blocks /\ Best \in Blocks /\ SettledTagsMatch /\ ba \in Moves
    BY BestStored DEF TypeInv, IInv, Typed, AssemblyTyped, Moves
  <1>1. ASSUME UNCHANGED <<tip, template, ba, early>> PROVE TemplateFits'
    BY <1>1 DEF TemplateFits, Clear, Back
  <1>2. CASE ~(Assemble \/ AssemblyFails)
    BY <1>1, <1>2, ChainTypedStep
  <1>3. CASE Same
    BY <1>1, <1>3 DEF Same, history
  <1>4. CASE MoveForward
    <2>1. TxsOn(Best) = TxsOf[Best] \cup TxsOn(tip)
      BY <1>0, <1>4, MinedConstants DEF MoveForward, Extends, TxsOn
    <2>2. ba' = ba /\ ba.at = "rest" /\ early' = early /\ tip' = Best /\ template' = template \ TxsOf[Best]
      BY <1>4 DEF MoveForward, history
    <2> QED  BY <2>1, <2>2 DEF TemplateFits, Clear
  <1>5. CASE Observe
    <2>1. UNCHANGED <<tip, template, early>> /\ ba.at = "rest" /\ ba'.to = Best
      BY <1>5 DEF Observe, history
    <2>2. ba'.at \in {"catchUp", "reset", "reorg"} /\ (ba'.at = "catchUp" => Back(Best) = {})
      BY <1>5 DEF Observe
    <2> QED  BY <2>1, <2>2 DEF TemplateFits, Clear, Back
  <1>6. CASE PendingDone
    <2>1. UNCHANGED <<tip, template, early>>
      BY <1>6 DEF PendingDone, history
    <2>2. \/ ba.at = "reorg" /\ ba'.at = "reorging"
          \/ ba'.at \in {"resetting", "starting"}
      BY <1>0, <1>6 DEF PendingDone, After, Moves
    <2> QED  BY <2>1, <2>2 DEF TemplateFits, Clear
  <1>7. CASE CatchUp
    <2>1. ba' = AtRest /\ early' = early /\ tip' = ba.to /\ ba.at = "catchUp"
          /\ template' = template \ BlockTxs(Forward(ba.to))
      BY <1>7 DEF CatchUp, history
    <2>2. ~early => template' \cap TxsOn(ba.to) = {}
      BY <2>1 DEF TemplateFits, Clear, BlockTxs, Forward, TxsOn
    <2> QED  BY <2>1, <2>2 DEF TemplateFits, Clear, AtRest
  <1>8. CASE LoseNews \/ NewsFails \/ CatchUpFails \/ ResetFails
    <2>1. CASE LoseNews \/ NewsFails
      BY <1>1, <2>1 DEF LoseNews, NewsFails
    <2>2. CASE CatchUpFails \/ ResetFails
      BY <2>2 DEF CatchUpFails, ResetFails, GiveUp, TemplateFits, Clear, AtRest
    <2> QED  BY <1>8, <2>1, <2>2
  <1>9. CASE ReorgBlocks
    <2>1. ba.at = "reorging" /\ ba'.at = "moved" /\ ba'.to = ba.to /\ ba'.bad = ba.bad /\ UNCHANGED tip
      BY <1>0, <1>9 DEF ReorgBlocks, Moves
    <2>2. ASSUME ~early', Back(ba.to) \cap ba.bad = {} PROVE template' \cap TxsOn(ba.to) = {}
      <3>1. ~early /\ \A b \in Back(ba.to) : ~Repeats(b)
        BY <1>9, <2>2 DEF ReorgBlocks
      <3> QED  BY <1>0, <1>9, <2>1, <3>1, ReorgClears DEF TemplateFits
    <2> QED  BY <2>1, <2>2 DEF TemplateFits, Clear, Back
  <1>10. CASE ReorgFails
    BY <1>10 DEF ReorgFails, TemplateFits, Clear
  <1>11. CASE Moved
    <2>1. CASE Back(ba.to) \cap ba.bad # {}
      BY <1>11, <2>1 DEF Moved, TemplateFits
    <2>2. CASE Back(ba.to) \cap ba.bad = {}
      BY <1>11, <2>2 DEF Moved, history, AtRest, TemplateFits, Clear
    <2> QED  BY <2>1, <2>2
  <1>12. CASE ResetMarks
    <2>1. ba'.at = "load"
      BY <1>0, <1>12 DEF ResetMarks, Moves
    <2> QED  BY <2>1 DEF TemplateFits
  <1>13. CASE ResetLoads
    <2>1. ba'.at = "moved" /\ ba'.to = ba.to
      BY <1>0, <1>13 DEF ResetLoads, Moves
    <2>2. ~early' => template' \cap TxsOn(ba.to) = {}
      BY <1>0, <1>13, LoadClears DEF ResetLoads
    <2> QED  BY <2>1, <2>2 DEF TemplateFits, Clear
  <1>14. CASE AssemblyStops
    BY <1>14 DEF AssemblyStops, AtRest, TemplateFits
  <1>15. CASE AssemblyStarts
    <2>1. ba' = AtRest /\ UNCHANGED tip
      BY <1>15 DEF AssemblyStarts
    <2>2. ~early' => template' \cap TxsOn(tip) = {}
      BY <1>0, <1>15, LoadClears DEF AssemblyStarts
    <2> QED  BY <2>1, <2>2 DEF TemplateFits, Clear, AtRest
  <1> QED
    BY <1>2, <1>3, <1>4, <1>5, <1>6, <1>7, <1>8, <1>9, <1>10, <1>11, <1>12, <1>13, <1>14, <1>15 DEF Assemble, AssemblyFails

\* Whichever way block assembly came to its tip, nothing the chain has mined is in its
\* template, unless a verdict was still open when it read the records or left a block behind.
THEOREM TemplateUnmined == Spec => []TemplateIsUnmined
  <1>1. Init => TemplateFits
    BY MinedConstants DEF Init, TemplateFits, AtRest, Clear, TxsOn
  <1>2. TemplateFits => TemplateIsUnmined
    BY DEF TemplateFits, TemplateIsUnmined, Clear
  <1> QED  BY <1>1, <1>2, TypeInvInit, TypeInvStep, TemplateStep, PTL DEF Spec

=============================================================================
