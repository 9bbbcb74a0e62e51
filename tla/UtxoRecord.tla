------------------------------ MODULE UtxoRecord ------------------------------
(***************************************************************************)
(* One Aerospike record of the UTXO store and the server-side functions of *)
(* stores/utxo/aerospike/teranode.lua.  Aerospike runs a function on one   *)
(* record at a time, so each of them is one atomic step on one record and  *)
(* is an operator from the record before to the record after.              *)
(*                                                                         *)
(* A transaction with many outputs is paginated: record 0 (the master)     *)
(* holds the mined state and the number of further records (pages).  Only  *)
(* the master has the totalExtraRecs, blockIDs and unminedSince bins.      *)
(*                                                                         *)
(* An absent bin is Nil.  The order in which block IDs were appended, the  *)
(* utxo hashes and the reassignment log are not kept: no function branches *)
(* on them, save on a hash mismatch, which leaves the record alone.        *)
(***************************************************************************)
EXTENDS Integers, FiniteSets

CONSTANTS Offsets,    \* positions of a record's utxos list
          Spenders,   \* spending data: spending transaction and input index
          Blocks,     \* block IDs
          Unspent,    \* an output with no spending data
          Frozen,     \* an output whose spending data is all FROZEN_BYTE
          NoOutput    \* a nil entry: an output that can never be spent

ASSUME OffsetsFinite == IsFiniteSet(Offsets)

ASSUME SlotsDistinct ==
  /\ {Unspent, Frozen, NoOutput} \cap Spenders = {}
  /\ Unspent # Frozen /\ Unspent # NoOutput /\ Frozen # NoOutput

\* An absent bin.  Every height is a natural number, so Nil is below all.
Nil == -1

Height == Nat
OptHeight == Nat \cup {Nil}
Slots == Spenders \cup {Unspent, Frozen, NoOutput}

Record ==
  [utxos           : [Offsets -> Slots],
   spentUtxos      : Int,
   recordUtxos     : Nat,
   spendableIn     : [Offsets -> Nat],
   deletedChildren : SUBSET Spenders,
   spendingHeight  : Nat,
   creating        : BOOLEAN,
   conflicting     : BOOLEAN,
   locked          : BOOLEAN,
   deleteAtHeight  : OptHeight,
   preserveUntil   : OptHeight,
   lastSpentState  : BOOLEAN,          \* TRUE is ALLSPENT
   totalExtraRecs  : OptHeight,
   spentExtraRecs  : Int,
   blockIDs        : SUBSET Blocks,
   unminedSince    : OptHeight]

SpentSet(rec) == {o \in Offsets : rec.utxos[o] \in Spenders}

AllSpentHere(rec) == rec.spentUtxos = rec.recordUtxos
IsPage(rec) == rec.totalExtraRecs = Nil
External(rec) == rec.totalExtraRecs > 0

-----------------------------------------------------------------------------
(***************************************************************************)
(* The delete-at-height (DAH) of a record, re-evaluated by almost every    *)
(* function just before it saves the record.                               *)
(***************************************************************************)

\* Faulty variant: the pages are not asked.
EligibleWithoutPages(rec) ==
  AllSpentHere(rec) /\ rec.blockIDs # {} /\ rec.unminedSince = Nil

Eligible(rec) ==
  /\ rec.totalExtraRecs = rec.spentExtraRecs
  /\ AllSpentHere(rec)
  /\ rec.blockIDs # {}
  /\ rec.unminedSince = Nil

\* Faulty variant: a DAH is given and raised but never taken back.
RestampedSticky(rec, h, retention) ==
  IF IsPage(rec) THEN [rec EXCEPT !.lastSpentState = AllSpentHere(rec)]
  ELSE IF rec.conflicting \/ ~Eligible(rec) THEN rec
  ELSE [rec EXCEPT !.deleteAtHeight = IF @ < h + retention THEN h + retention ELSE @]

\* A page only latches whether it is all spent; a master is stamped, its DAH
\* raised, or its DAH taken back.
Restamped(rec, h, retention) ==
  IF rec.conflicting
    THEN [rec EXCEPT !.deleteAtHeight = IF @ = Nil THEN h + retention ELSE @]
  ELSE IF IsPage(rec)
    THEN [rec EXCEPT !.lastSpentState = AllSpentHere(rec)]
  ELSE [rec EXCEPT !.deleteAtHeight =
          IF ~Eligible(rec) THEN Nil
          ELSE IF @ < h + retention THEN h + retention ELSE @]

\* Faulty variant: preservation is not honoured.
setDeleteAtHeightUnpreserved(rec, h, retention) ==
  IF retention = 0 THEN rec ELSE Restamped(rec, h, retention)

setDeleteAtHeight(rec, h, retention) ==
  IF retention = 0 \/ rec.preserveUntil # Nil THEN rec
  ELSE Restamped(rec, h, retention)

\* The signal that travels back with the response: what changed between the
\* record the function started from and the record it saved.
Signal(before, after) ==
  IF IsPage(before)
    THEN IF before.lastSpentState = after.lastSpentState THEN "NONE"
         ELSE IF after.lastSpentState THEN "ALLSPENT" ELSE "NOTALLSPENT"
  ELSE IF ~External(before) \/ before.deleteAtHeight = after.deleteAtHeight
    THEN "NONE"
  ELSE IF after.deleteAtHeight = Nil THEN "DAHUNSET" ELSE "DAHSET"

-----------------------------------------------------------------------------
(***************************************************************************)
(* Spending and un-spending.                                               *)
(***************************************************************************)

\* The whole call is refused, whatever outputs it names.
RejectsSpends(rec, ignoreConflicting, ignoreLocked, h) ==
  \/ rec.creating
  \/ rec.conflicting /\ ~ignoreConflicting
  \/ rec.locked /\ ~ignoreLocked
  \/ rec.spendingHeight > h

\* Faulty variant: a frozen output is not told from a free one.
TakesFrozen(rec, o, h) == rec.utxos[o] \in {Unspent, Frozen} /\ rec.spendableIn[o] <= h

\* The output is free and past any reassignment hold.
Takes(rec, o, h) == rec.utxos[o] = Unspent /\ rec.spendableIn[o] <= h

\* The output answers "no error" to spender s: it is taken now, or it was
\* already s's and s has not been pruned as a deleted child.
Acknowledges(rec, o, s, h) ==
  \/ Takes(rec, o, h)
  \/ /\ rec.utxos[o] = s
     /\ rec.spendableIn[o] <= h
     /\ s \notin rec.deletedChildren

Taken(rec, spends, h) == {o \in DOMAIN spends : Takes(rec, o, h)}

\* Faulty variant: a repeated spend by the owner is counted again.
MarkedCountingRespends(rec, spends, h) ==
  [rec EXCEPT
     !.utxos = [o \in Offsets |->
                  IF o \in Taken(rec, spends, h) THEN spends[o] ELSE rec.utxos[o]],
     !.spentUtxos = @ + Cardinality({o \in DOMAIN spends :
                                       Acknowledges(rec, o, spends[o], h)})]

\* spends maps output positions to the spender that claims them.  An output
\* that refuses its spender is skipped; the others are still taken.
Marked(rec, spends, h) ==
  [rec EXCEPT
     !.utxos = [o \in Offsets |->
                  IF o \in Taken(rec, spends, h) THEN spends[o] ELSE rec.utxos[o]],
     !.spentUtxos = @ + Cardinality(Taken(rec, spends, h))]

spendMulti(rec, spends, h, retention) ==
  setDeleteAtHeight(Marked(rec, spends, h), h, retention)

\* Faulty variant: whoever asks clears the spend.
ClearedByAnyone(rec, o, s) ==
  IF rec.utxos[o] \in Spenders
    THEN [rec EXCEPT !.utxos = [@ EXCEPT ![o] = Unspent], !.spentUtxos = @ - 1]
    ELSE rec

\* Only the owner of a spend clears it; a foreign or repeated call changes
\* nothing but still re-evaluates the DAH.
Cleared(rec, o, s) ==
  IF rec.utxos[o] = s
    THEN [rec EXCEPT !.utxos = [@ EXCEPT ![o] = Unspent],
                     !.spentUtxos = @ - 1]
    ELSE rec

\* Faulty variant: saved without re-evaluating the DAH.
unspendWithoutDAH(rec, o, s, h, retention) == Cleared(rec, o, s)

unspend(rec, o, s, h, retention) ==
  setDeleteAtHeight(Cleared(rec, o, s), h, retention)

-----------------------------------------------------------------------------
(***************************************************************************)
(* Mined state.  currentHeight is only used to stamp unminedSince.         *)
(***************************************************************************)

MinedBins(rec, blocks, currentHeight, onLongestChain) ==
  [rec EXCEPT
     !.blockIDs = blocks,
     !.unminedSince = IF blocks # {} THEN (IF onLongestChain THEN Nil ELSE @)
                      ELSE IF @ = Nil THEN currentHeight ELSE @,
     !.locked = FALSE,
     !.creating = FALSE]

setMined(rec, b, blockHeight, currentHeight, retention, onLongestChain, unsetMined) ==
  LET blocks == IF unsetMined THEN rec.blockIDs \ {b} ELSE rec.blockIDs \cup {b}
  IN  setDeleteAtHeight(MinedBins(rec, blocks, currentHeight, onLongestChain),
                        blockHeight, retention)

-----------------------------------------------------------------------------
(***************************************************************************)
(* The alert system's operations.  None of them re-evaluates the DAH.      *)
(***************************************************************************)

CanFreeze(rec, o) == rec.utxos[o] = Unspent
freeze(rec, o) == [rec EXCEPT !.utxos = [@ EXCEPT ![o] = Frozen]]

CanUnfreeze(rec, o) == rec.utxos[o] = Frozen
unfreeze(rec, o) == [rec EXCEPT !.utxos = [@ EXCEPT ![o] = Unspent]]

\* Faulty variant: the record counts as all spent once the new owner spends.
reassignUncounted(rec, o, h, spendableAfter) ==
  [rec EXCEPT !.utxos = [@ EXCEPT ![o] = Unspent],
              !.spendableIn = [@ EXCEPT ![o] = h + spendableAfter]]

\* The extra recordUtxos makes the record one that never counts as all spent.
reassign(rec, o, h, spendableAfter) ==
  [rec EXCEPT !.utxos = [@ EXCEPT ![o] = Unspent],
              !.spendableIn = [@ EXCEPT ![o] = h + spendableAfter],
              !.recordUtxos = @ + 1]

-----------------------------------------------------------------------------
(***************************************************************************)
(* Flags, preservation, and the counter of fully spent pages.              *)
(***************************************************************************)

\* Faulty variant: the DAH given for the conflict outlives the flag.
setConflictingWithoutDAH(rec, v, h, retention) == [rec EXCEPT !.conflicting = v]

setConflicting(rec, v, h, retention) ==
  setDeleteAtHeight([rec EXCEPT !.conflicting = v], h, retention)

preserveUntil(rec, until) ==
  [rec EXCEPT !.deleteAtHeight = Nil, !.preserveUntil = until]

addDeletedChildren(rec, children) ==
  [rec EXCEPT !.deletedChildren = @ \cup children]

setLocked(rec, v) ==
  [rec EXCEPT !.locked = v, !.deleteAtHeight = IF v THEN Nil ELSE @]

Clamp(n, top) == IF n < 0 THEN 0 ELSE IF n > top THEN top ELSE n

incrementSpentExtraRecs(rec, inc, h, retention) ==
  setDeleteAtHeight(
    [rec EXCEPT !.spentExtraRecs = Clamp(@ + inc, rec.totalExtraRecs)], h, retention)

=============================================================================
