--------------------------- MODULE UtxoStore_proofs ---------------------------
(***************************************************************************)
(* The store for any number of pages, outputs, spenders, blocks, callers   *)
(* and heights.                                                            *)
(*                                                                         *)
(* Everything that is proved here is a property of single records: Good    *)
(* says what holds of record r, one lemma per server-side function shows   *)
(* that the function preserves it, and the steps of UtxoStore write        *)
(* records only through those functions.                                   *)
(***************************************************************************)
EXTENDS UtxoStore, FiniteSetTheorems, TLAPS

\* The outputs of record r and their counters.
Base(r, rec) ==
  /\ rec \in Record
  /\ rec.totalExtraRecs = IF r = 0 THEN NPages ELSE Nil
  /\ \A o \in Offsets : rec.utxos[o] = NoOutput <=> o \notin Outs[r]
  /\ rec.recordUtxos >= Cardinality(Outs[r])
  /\ rec.spentUtxos = Cardinality(SpentSet(rec))

\* What the DAH of a master stands for.
GoodMaster(rec) ==
  /\ rec.preserveUntil # Nil => rec.deleteAtHeight = Nil
  /\ Retention = 0 => rec.deleteAtHeight = Nil
  /\ rec.deleteAtHeight # Nil /\ ~rec.conflicting =>
       Outs[0] \subseteq SpentSet(rec) /\ rec.blockIDs # {}

\* What the latch of a page stands for.
GoodPage(r, rec) ==
  /\ rec.preserveUntil = Nil
  /\ Retention > 0 /\ Outs[r] # {} /\ ~rec.conflicting =>
       rec.lastSpentState = AllSpentHere(rec)

Good(r, rec) ==
  /\ Base(r, rec)
  /\ r = 0 => GoodMaster(rec)
  /\ r # 0 => GoodPage(r, rec)

-----------------------------------------------------------------------------
(***************************************************************************)
(* Counting.                                                               *)
(***************************************************************************)

\* The sets that are counted are finite.
LEMMA Finite ==
  ASSUME NEW r \in Recs, NEW rec
  PROVE  /\ IsFiniteSet(SpentSet(rec)) /\ Cardinality(SpentSet(rec)) \in Nat
         /\ IsFiniteSet(Outs[r]) /\ Cardinality(Outs[r]) \in Nat
<1>1. SpentSet(rec) \subseteq Offsets /\ Outs[r] \subseteq Offsets
  BY StoreConstants DEF SpentSet
<1> QED BY <1>1, OffsetsFinite, FS_Subset, FS_CardinalityType

\* A record whose counters agree has every output spent.
LEMMA AllSpentMeansSpent ==
  ASSUME NEW r \in Recs, NEW rec, Base(r, rec), AllSpentHere(rec)
  PROVE  Outs[r] \subseteq SpentSet(rec)
<1>1. SpentSet(rec) \subseteq Outs[r]
  BY SlotsDistinct DEF Base, SpentSet
<1>2. Cardinality(SpentSet(rec)) >= Cardinality(Outs[r])
  BY DEF Base, AllSpentHere
<1>3. Cardinality(SpentSet(rec)) <= Cardinality(Outs[r])
  BY <1>1, Finite, FS_Subset
<1>4. Cardinality(SpentSet(rec)) = Cardinality(Outs[r])
  BY <1>2, <1>3, Finite
<1> QED BY <1>1, <1>4, Finite, FS_Subset

\* A record with an output that is not spent does not count as all spent.
LEMMA LiveMeansNotAllSpent ==
  ASSUME NEW r \in Recs, NEW rec, Base(r, rec),
         NEW o \in Offsets, rec.utxos[o] \in {Unspent, Frozen}
  PROVE  ~AllSpentHere(rec) /\ rec.spentUtxos < rec.recordUtxos
<1>1. o \in Outs[r] /\ o \notin SpentSet(rec)
  BY SlotsDistinct DEF Base, SpentSet
<1>2. SpentSet(rec) \subseteq Outs[r]
  BY SlotsDistinct DEF Base, SpentSet
<1>3. Cardinality(SpentSet(rec)) < Cardinality(Outs[r])
  BY <1>1, <1>2, Finite, FS_Subset
<1>4. rec.spentUtxos \in Int /\ rec.recordUtxos \in Nat
  BY DEF Base, Record
<1> QED BY <1>3, <1>4, Finite DEF Base, AllSpentHere

\* Only four bins matter for the outputs and their counters.
LEMMA BaseFrame ==
  ASSUME NEW r \in Recs, NEW rec, Base(r, rec), NEW new \in Record,
         new.utxos = rec.utxos, new.spentUtxos = rec.spentUtxos,
         new.recordUtxos = rec.recordUtxos, new.totalExtraRecs = rec.totalExtraRecs
  PROVE  Base(r, new) /\ SpentSet(new) = SpentSet(rec)
BY DEF Base, SpentSet

-----------------------------------------------------------------------------
(***************************************************************************)
(* setDeleteAtHeight.                                                      *)
(***************************************************************************)

\* setDeleteAtHeight writes the DAH and the latch and nothing else.
LEMMA RestampFrame ==
  ASSUME NEW rec \in Record, NEW h \in Nat
  PROVE  LET new == setDeleteAtHeight(rec, h, Retention)
         IN  /\ new \in Record
             /\ new.utxos = rec.utxos
             /\ new.spentUtxos = rec.spentUtxos
             /\ new.recordUtxos = rec.recordUtxos
             /\ new.totalExtraRecs = rec.totalExtraRecs
             /\ new.conflicting = rec.conflicting
             /\ new.preserveUntil = rec.preserveUntil
             /\ new.blockIDs = rec.blockIDs
<1> h + Retention \in OptHeight /\ Nil \in OptHeight /\ AllSpentHere(rec) \in BOOLEAN
  BY StoreConstants DEF OptHeight, Nil, AllSpentHere
<1>1. CASE Retention = 0 \/ rec.preserveUntil # Nil
  BY <1>1 DEF setDeleteAtHeight
<1>2. CASE ~(Retention = 0 \/ rec.preserveUntil # Nil)
  <2> setDeleteAtHeight(rec, h, Retention) = Restamped(rec, h, Retention)
    BY <1>2 DEF setDeleteAtHeight
  <2>1. CASE rec.conflicting
    BY <2>1 DEF Restamped, Record
  <2>2. CASE ~rec.conflicting /\ IsPage(rec)
    BY <2>2 DEF Restamped, Record
  <2>3. CASE ~rec.conflicting /\ ~IsPage(rec)
    BY <2>3 DEF Restamped, Record
  <2> QED BY <2>1, <2>2, <2>3
<1> QED BY <1>1, <1>2

\* Whatever the record was stamped with before, afterwards its DAH is right.
LEMMA Restamps ==
  ASSUME NEW r \in Recs, NEW rec, Base(r, rec), NEW h \in Nat,
         r = 0 => /\ rec.preserveUntil # Nil => rec.deleteAtHeight = Nil
                  /\ Retention = 0 => rec.deleteAtHeight = Nil,
         r # 0 => rec.preserveUntil = Nil
  PROVE  Good(r, setDeleteAtHeight(rec, h, Retention))
<1> DEFINE new == setDeleteAtHeight(rec, h, Retention)
<1>1. Base(r, new) /\ SpentSet(new) = SpentSet(rec)
  <2> rec \in Record
    BY DEF Base
  <2> HIDE DEF new
  <2>1. /\ new \in Record /\ new.utxos = rec.utxos
        /\ new.spentUtxos = rec.spentUtxos /\ new.recordUtxos = rec.recordUtxos
        /\ new.totalExtraRecs = rec.totalExtraRecs
    BY RestampFrame DEF new
  <2> QED BY <2>1, BaseFrame
<1>2. ASSUME r = 0 PROVE GoodMaster(new)
  <2>1. ~IsPage(rec)
    BY <1>2, StoreConstants DEF Base, IsPage, Nil
  <2>2. CASE Retention = 0 \/ rec.preserveUntil # Nil
    BY <1>2, <2>2 DEF setDeleteAtHeight, GoodMaster
  <2>3. CASE ~(Retention = 0 \/ rec.preserveUntil # Nil)
    <3>1. CASE rec.conflicting
      BY <2>3, <3>1 DEF setDeleteAtHeight, Restamped, GoodMaster, Base, Record
    <3>2. CASE ~rec.conflicting /\ Eligible(rec)
      <4>1. Outs[0] \subseteq SpentSet(rec) /\ rec.blockIDs # {}
        BY <1>2, <3>2, AllSpentMeansSpent DEF Eligible
      <4>2. new = [rec EXCEPT !.deleteAtHeight =
                     IF @ < h + Retention THEN h + Retention ELSE @]
        BY <2>1, <2>3, <3>2 DEF setDeleteAtHeight, Restamped
      <4>3. new.blockIDs = rec.blockIDs /\ new.preserveUntil = rec.preserveUntil
        BY <4>2 DEF Base, Record
      <4> QED BY <1>1, <2>3, <4>1, <4>3 DEF GoodMaster
    <3>3. CASE ~rec.conflicting /\ ~Eligible(rec)
      <4>1. new.deleteAtHeight = Nil
        BY <2>1, <2>3, <3>3 DEF setDeleteAtHeight, Restamped, Base, Record
      <4> QED BY <4>1 DEF GoodMaster
    <3> QED BY <3>1, <3>2, <3>3
  <2> QED BY <2>2, <2>3
<1>3. ASSUME r # 0 PROVE GoodPage(r, new)
  <2>1. IsPage(rec) /\ rec.preserveUntil = Nil
    BY <1>3 DEF Base, IsPage
  <2>2. CASE Retention = 0
    BY <2>1, <2>2 DEF setDeleteAtHeight, GoodPage
  <2>3. CASE Retention # 0 /\ rec.conflicting
    BY <2>1, <2>3 DEF setDeleteAtHeight, Restamped, GoodPage, Base, Record
  <2>4. CASE Retention # 0 /\ ~rec.conflicting
    <3>1. new = [rec EXCEPT !.lastSpentState = AllSpentHere(rec)]
      BY <2>1, <2>4 DEF setDeleteAtHeight, Restamped
    <3>2. new.preserveUntil = Nil /\ new.lastSpentState = AllSpentHere(rec)
      BY <2>1, <3>1 DEF Base, Record
    <3>3. AllSpentHere(new) <=> AllSpentHere(rec)
      BY <3>1 DEF Base, Record, AllSpentHere
    <3> HIDE DEF new
    <3> QED BY <3>2, <3>3 DEF GoodPage, AllSpentHere
  <2> QED BY <2>2, <2>3, <2>4
<1> QED BY <1>1, <1>2, <1>3 DEF Good

-----------------------------------------------------------------------------
(***************************************************************************)
(* The server-side functions.  Keeps is what no function but unspend may   *)
(* break: an output that has a spender keeps it.                           *)
(***************************************************************************)

Keeps(rec, new) ==
  \A o \in Offsets : rec.utxos[o] \in Spenders => new.utxos[o] = rec.utxos[o]

\* A function that leaves outputs, counters and flags alone may clear the DAH
\* of any record, and give any DAH to a page.
LEMMA Framed ==
  ASSUME NEW r \in Recs, NEW rec, Good(r, rec), NEW new \in Record,
         new.utxos = rec.utxos, new.spentUtxos = rec.spentUtxos,
         new.recordUtxos = rec.recordUtxos, new.totalExtraRecs = rec.totalExtraRecs,
         new.conflicting = rec.conflicting, new.blockIDs = rec.blockIDs,
         new.preserveUntil = rec.preserveUntil,
         new.lastSpentState = rec.lastSpentState,
         r # 0 \/ new.deleteAtHeight \in {Nil, rec.deleteAtHeight}
  PROVE  Good(r, new) /\ Keeps(rec, new)
<1>1. Base(r, new) /\ SpentSet(new) = SpentSet(rec)
  BY BaseFrame DEF Good
<1>2. r = 0 => GoodMaster(new)
  BY <1>1 DEF Good, GoodMaster
<1>3. AllSpentHere(new) <=> AllSpentHere(rec)
  BY DEF AllSpentHere
<1>4. r # 0 => GoodPage(r, new)
  BY <1>3 DEF Good, GoodPage, AllSpentHere
<1> QED BY <1>1, <1>2, <1>4 DEF Good, Keeps

\* A function that writes some bins first and then re-evaluates the DAH.
LEMMA Restamping ==
  ASSUME NEW r \in Recs, NEW rec, Good(r, rec), NEW mid, Base(r, mid), NEW h \in Nat,
         mid.preserveUntil \in {Nil, rec.preserveUntil},
         mid.deleteAtHeight = rec.deleteAtHeight
  PROVE  /\ Good(r, setDeleteAtHeight(mid, h, Retention))
         /\ setDeleteAtHeight(mid, h, Retention).utxos = mid.utxos
<1>1. r = 0 => /\ mid.preserveUntil # Nil => mid.deleteAtHeight = Nil
               /\ Retention = 0 => mid.deleteAtHeight = Nil
  BY DEF Good, GoodMaster
<1>2. r # 0 => mid.preserveUntil = Nil
  BY DEF Good, GoodPage
<1>3. mid \in Record
  BY DEF Base
<1> QED BY <1>1, <1>2, <1>3, Restamps, RestampFrame

\* Marking outputs as spent counts each of them once.
LEMMA MarkedBase ==
  ASSUME NEW r \in Recs, NEW rec, Base(r, rec), NEW h \in Nat,
         NEW D \in SUBSET Offsets, NEW spends \in [D -> Spenders]
  PROVE  LET mid == Marked(rec, spends, h)
         IN  /\ Base(r, mid) /\ Keeps(rec, mid)
             /\ mid.preserveUntil = rec.preserveUntil
             /\ mid.deleteAtHeight = rec.deleteAtHeight
             /\ \A o \in D : Acknowledges(rec, o, spends[o], h) => mid.utxos[o] = spends[o]
<1> DEFINE T == Taken(rec, spends, h)
           U == [o \in Offsets |-> IF o \in T THEN spends[o] ELSE rec.utxos[o]]
           mid == Marked(rec, spends, h)
<1>0. rec \in Record /\ rec.utxos \in [Offsets -> Slots] /\ rec.spentUtxos \in Int
  BY DEF Base, Record
<1>1. T \subseteq D /\ \A o \in T : rec.utxos[o] = Unspent /\ o \in Offsets
  BY DEF Taken, Takes
<1>2. U \in [Offsets -> Slots]
  BY <1>0, <1>1 DEF Slots
<1>3. IsFiniteSet(T) /\ Cardinality(T) \in Nat
  BY <1>1, OffsetsFinite, FS_Subset, FS_CardinalityType
<1> HIDE DEF T
<1>4. /\ mid \in Record
      /\ mid.utxos = U
      /\ mid.spentUtxos = rec.spentUtxos + Cardinality(T)
      /\ mid.recordUtxos = rec.recordUtxos
      /\ mid.totalExtraRecs = rec.totalExtraRecs
      /\ mid.preserveUntil = rec.preserveUntil
      /\ mid.deleteAtHeight = rec.deleteAtHeight
  <2>1. mid = [rec EXCEPT !.utxos = U, !.spentUtxos = @ + Cardinality(T)]
    BY DEF Marked, T
  <2>2. rec.spentUtxos + Cardinality(T) \in Int
    BY <1>0, <1>3
  <2> HIDE DEF mid, U
  <2> QED BY <1>0, <1>2, <2>1, <2>2 DEF Record
<1> HIDE DEF mid
<1>5. SpentSet(mid) = SpentSet(rec) \cup T /\ SpentSet(rec) \cap T = {}
  BY <1>0, <1>1, <1>4, SlotsDistinct DEF SpentSet
<1>6. Cardinality(SpentSet(mid)) = Cardinality(SpentSet(rec)) + Cardinality(T)
  <2>1. Cardinality(SpentSet(rec) \cap T) = 0
    BY <1>5, FS_EmptySet
  <2>2. IsFiniteSet(SpentSet(rec)) /\ Cardinality(SpentSet(rec)) \in Nat
    BY Finite
  <2>3. Cardinality(SpentSet(rec) \cup T)
          = Cardinality(SpentSet(rec)) + Cardinality(T) - Cardinality(SpentSet(rec) \cap T)
    BY <1>3, <2>2, FS_Union
  <2> QED BY <1>3, <1>5, <2>1, <2>2, <2>3
<1>7. \A o \in Offsets : mid.utxos[o] = NoOutput <=> o \notin Outs[r]
  BY <1>0, <1>1, <1>4, SlotsDistinct DEF Base
<1>8. Base(r, mid)
  BY <1>4, <1>6, <1>7 DEF Base
<1>9. Keeps(rec, mid)
  BY <1>0, <1>1, <1>4, SlotsDistinct DEF Keeps
<1>10. ASSUME NEW o \in D, Acknowledges(rec, o, spends[o], h)
       PROVE  mid.utxos[o] = spends[o]
  <2>1. CASE Takes(rec, o, h)
    BY <1>4, <2>1 DEF T, Taken
  <2>2. CASE rec.utxos[o] = spends[o]
    BY <1>4, <2>2
  <2> QED BY <1>10, <2>1, <2>2 DEF Acknowledges
<1> QED BY <1>4, <1>8, <1>9, <1>10 DEF mid

\* spendMulti: whatever it acknowledges is owned by its spender afterwards.
LEMMA SpendGood ==
  ASSUME NEW r \in Recs, NEW rec, Good(r, rec), NEW h \in Nat,
         NEW D \in SUBSET Offsets, NEW spends \in [D -> Spenders]
  PROVE  LET new == spendMulti(rec, spends, h, Retention)
         IN  /\ Good(r, new) /\ Keeps(rec, new)
             /\ \A o \in D : Acknowledges(rec, o, spends[o], h) => new.utxos[o] = spends[o]
<1> DEFINE mid == Marked(rec, spends, h)
<1>1. Base(r, rec)
  BY DEF Good
<1>2. /\ Base(r, mid) /\ Keeps(rec, mid)
      /\ mid.preserveUntil = rec.preserveUntil
      /\ mid.deleteAtHeight = rec.deleteAtHeight
      /\ \A o \in D : Acknowledges(rec, o, spends[o], h) => mid.utxos[o] = spends[o]
  BY <1>1, MarkedBase
<1> HIDE DEF mid
<1>3. /\ Good(r, setDeleteAtHeight(mid, h, Retention))
      /\ setDeleteAtHeight(mid, h, Retention).utxos = mid.utxos
  BY <1>2, Restamping
<1> QED BY <1>2, <1>3 DEF spendMulti, mid, Keeps

\* unspend: it frees the output of the spender that asks and no other.
LEMMA UnspendGood ==
  ASSUME NEW r \in Recs, NEW rec, Good(r, rec), NEW h \in Nat,
         NEW o \in Offsets, NEW s \in Spenders
  PROVE  LET new == unspend(rec, o, s, h, Retention)
         IN  /\ Good(r, new)
             /\ \A x \in Offsets : rec.utxos[x] \in Spenders /\ (x # o \/ rec.utxos[x] # s)
                                    => new.utxos[x] = rec.utxos[x]
<1> DEFINE mid == Cleared(rec, o, s)
<1>0. Base(r, rec) /\ rec \in Record /\ rec.utxos \in [Offsets -> Slots] /\ rec.spentUtxos \in Int
  BY DEF Good, Base, Record
<1>1. /\ Base(r, mid)
      /\ mid.preserveUntil = rec.preserveUntil
      /\ mid.deleteAtHeight = rec.deleteAtHeight
      /\ \A x \in Offsets : rec.utxos[x] \in Spenders /\ (x # o \/ rec.utxos[x] # s)
                             => mid.utxos[x] = rec.utxos[x]
  <2>1. CASE rec.utxos[o] = s
    <3> DEFINE U == [rec.utxos EXCEPT ![o] = Unspent]
    <3>1. U \in [Offsets -> Slots] /\ rec.spentUtxos - 1 \in Int
      BY <1>0 DEF Slots
    <3>2. mid = [rec EXCEPT !.utxos = U, !.spentUtxos = @ - 1]
      BY <2>1 DEF Cleared
    <3>3. /\ mid \in Record
          /\ mid.utxos = U
          /\ mid.spentUtxos = rec.spentUtxos - 1
          /\ mid.recordUtxos = rec.recordUtxos
          /\ mid.totalExtraRecs = rec.totalExtraRecs
          /\ mid.preserveUntil = rec.preserveUntil
          /\ mid.deleteAtHeight = rec.deleteAtHeight
      <4> HIDE DEF mid, U
      <4> QED BY <1>0, <3>1, <3>2 DEF Record
    <3> HIDE DEF mid
    <3>4. SpentSet(mid) = SpentSet(rec) \ {o} /\ o \in SpentSet(rec)
      BY <1>0, <2>1, <3>3, SlotsDistinct DEF SpentSet
    <3>5. Cardinality(SpentSet(mid)) = Cardinality(SpentSet(rec)) - 1
      BY <3>4, Finite, FS_RemoveElement
    <3>6. \A x \in Offsets : mid.utxos[x] = NoOutput <=> x \notin Outs[r]
      BY <1>0, <2>1, <3>3, SlotsDistinct DEF Base
    <3>7. Base(r, mid)
      BY <1>0, <3>3, <3>5, <3>6 DEF Base
    <3> QED BY <1>0, <2>1, <3>3, <3>7
  <2>2. CASE rec.utxos[o] # s
    BY <1>0, <2>2 DEF Cleared
  <2> QED BY <2>1, <2>2
<1> HIDE DEF mid
<1>2. /\ Good(r, setDeleteAtHeight(mid, h, Retention))
      /\ setDeleteAtHeight(mid, h, Retention).utxos = mid.utxos
  BY <1>1, Restamping
<1> QED BY <1>1, <1>2 DEF unspend, mid

\* A function that writes bins other than the outputs and their counters and
\* then re-evaluates the DAH.
LEMMA RestampGood ==
  ASSUME NEW r \in Recs, NEW rec, Good(r, rec), NEW mid \in Record, NEW h \in Nat,
         mid.utxos = rec.utxos, mid.spentUtxos = rec.spentUtxos,
         mid.recordUtxos = rec.recordUtxos, mid.totalExtraRecs = rec.totalExtraRecs,
         mid.preserveUntil \in {Nil, rec.preserveUntil},
         mid.deleteAtHeight = rec.deleteAtHeight
  PROVE  /\ Good(r, setDeleteAtHeight(mid, h, Retention))
         /\ Keeps(rec, setDeleteAtHeight(mid, h, Retention))
<1>1. Base(r, mid)
  BY BaseFrame DEF Good
<1>2. /\ Good(r, setDeleteAtHeight(mid, h, Retention))
      /\ setDeleteAtHeight(mid, h, Retention).utxos = mid.utxos
  BY <1>1, Restamping
<1> QED BY <1>2 DEF Keeps

\* setMined, for both directions.
LEMMA MinedGood ==
  ASSUME NEW rec, Good(0, rec), NEW b \in Blocks, NEW h \in Nat, NEW cur \in Nat,
         NEW l \in BOOLEAN, NEW u \in BOOLEAN
  PROVE  LET new == setMined(rec, b, h, cur, Retention, l, u)
         IN  Good(0, new) /\ Keeps(rec, new)
<1> DEFINE blocks == IF u THEN rec.blockIDs \ {b} ELSE rec.blockIDs \cup {b}
           since == IF blocks # {} THEN (IF l THEN Nil ELSE rec.unminedSince)
                    ELSE IF rec.unminedSince = Nil THEN cur ELSE rec.unminedSince
           mid == MinedBins(rec, blocks, cur, l)
<1>0. rec \in Record /\ 0 \in Recs
  BY StoreConstants DEF Good, Base, Recs
<1>1. blocks \subseteq Blocks
  BY <1>0 DEF Record
<1>2. since \in OptHeight
  BY <1>0 DEF Record, OptHeight
<1>3. mid = [rec EXCEPT !.blockIDs = blocks, !.unminedSince = since,
                        !.locked = FALSE, !.creating = FALSE]
  BY DEF MinedBins
<1> HIDE DEF blocks, since, mid
<1>4. /\ mid \in Record
      /\ mid.utxos = rec.utxos /\ mid.spentUtxos = rec.spentUtxos
      /\ mid.recordUtxos = rec.recordUtxos /\ mid.totalExtraRecs = rec.totalExtraRecs
      /\ mid.preserveUntil = rec.preserveUntil
      /\ mid.deleteAtHeight = rec.deleteAtHeight
  BY <1>0, <1>1, <1>2, <1>3 DEF Record
<1>5. /\ Good(0, setDeleteAtHeight(mid, h, Retention))
      /\ Keeps(rec, setDeleteAtHeight(mid, h, Retention))
  BY <1>0, <1>4, RestampGood
<1> QED BY <1>5 DEF setMined, mid, blocks

\* setConflicting: the DAH given for a conflict does not outlive it.
LEMMA ConflictingGood ==
  ASSUME NEW rec, Good(0, rec), NEW v \in BOOLEAN, NEW h \in Nat
  PROVE  LET new == setConflicting(rec, v, h, Retention)
         IN  Good(0, new) /\ Keeps(rec, new)
<1> DEFINE mid == [rec EXCEPT !.conflicting = v]
<1>0. rec \in Record /\ 0 \in Recs
  BY StoreConstants DEF Good, Base, Recs
<1>1. /\ mid \in Record
      /\ mid.utxos = rec.utxos /\ mid.spentUtxos = rec.spentUtxos
      /\ mid.recordUtxos = rec.recordUtxos /\ mid.totalExtraRecs = rec.totalExtraRecs
      /\ mid.preserveUntil = rec.preserveUntil
      /\ mid.deleteAtHeight = rec.deleteAtHeight
  BY <1>0 DEF Record
<1> HIDE DEF mid
<1>2. /\ Good(0, setDeleteAtHeight(mid, h, Retention))
      /\ Keeps(rec, setDeleteAtHeight(mid, h, Retention))
  BY <1>0, <1>1, RestampGood
<1> QED BY <1>2 DEF setConflicting, mid

\* incrementSpentExtraRecs, whatever the counter held.
LEMMA IncrementGood ==
  ASSUME NEW rec, Good(0, rec), NEW n \in Int, NEW h \in Nat
  PROVE  LET new == incrementSpentExtraRecs(rec, n, h, Retention)
         IN  Good(0, new) /\ Keeps(rec, new)
<1> DEFINE k == Clamp(rec.spentExtraRecs + n, rec.totalExtraRecs)
           mid == [rec EXCEPT !.spentExtraRecs = k]
<1>0. rec \in Record /\ 0 \in Recs
  BY StoreConstants DEF Good, Base, Recs
<1>1. k \in Int
  BY <1>0 DEF Record, Clamp, OptHeight, Nil
<1> HIDE DEF k
<1>2. /\ mid \in Record
      /\ mid.utxos = rec.utxos /\ mid.spentUtxos = rec.spentUtxos
      /\ mid.recordUtxos = rec.recordUtxos /\ mid.totalExtraRecs = rec.totalExtraRecs
      /\ mid.preserveUntil = rec.preserveUntil
      /\ mid.deleteAtHeight = rec.deleteAtHeight
  BY <1>0, <1>1 DEF Record
<1>3. incrementSpentExtraRecs(rec, n, h, Retention) = setDeleteAtHeight(mid, h, Retention)
  BY DEF incrementSpentExtraRecs, k
<1> HIDE DEF mid
<1>4. /\ Good(0, setDeleteAtHeight(mid, h, Retention))
      /\ Keeps(rec, setDeleteAtHeight(mid, h, Retention))
  BY <1>0, <1>2, RestampGood
<1> QED BY <1>3, <1>4

\* MarkTransactionsOnLongestChain(true) and an expired preservation.
LEMMA ReevaluateGood ==
  ASSUME NEW rec, Good(0, rec), NEW h \in Nat
  PROVE  LET chain == setDeleteAtHeight([rec EXCEPT !.unminedSince = Nil], h, Retention)
             expired == setDeleteAtHeight([rec EXCEPT !.preserveUntil = Nil], h, Retention)
         IN  /\ Good(0, chain) /\ Keeps(rec, chain)
             /\ Good(0, expired) /\ Keeps(rec, expired)
<1> DEFINE m1 == [rec EXCEPT !.unminedSince = Nil]
           m2 == [rec EXCEPT !.preserveUntil = Nil]
<1>0. rec \in Record /\ 0 \in Recs /\ Nil \in OptHeight
  BY StoreConstants DEF Good, Base, Recs, OptHeight
<1>1. /\ m1 \in Record
      /\ m1.utxos = rec.utxos /\ m1.spentUtxos = rec.spentUtxos
      /\ m1.recordUtxos = rec.recordUtxos /\ m1.totalExtraRecs = rec.totalExtraRecs
      /\ m1.preserveUntil = rec.preserveUntil
      /\ m1.deleteAtHeight = rec.deleteAtHeight
  BY <1>0 DEF Record
<1>2. /\ m2 \in Record
      /\ m2.utxos = rec.utxos /\ m2.spentUtxos = rec.spentUtxos
      /\ m2.recordUtxos = rec.recordUtxos /\ m2.totalExtraRecs = rec.totalExtraRecs
      /\ m2.preserveUntil = Nil
      /\ m2.deleteAtHeight = rec.deleteAtHeight
  BY <1>0 DEF Record
<1> HIDE DEF m1, m2
<1>3. /\ Good(0, setDeleteAtHeight(m1, h, Retention))
      /\ Keeps(rec, setDeleteAtHeight(m1, h, Retention))
  BY <1>0, <1>1, RestampGood
<1>4. /\ Good(0, setDeleteAtHeight(m2, h, Retention))
      /\ Keeps(rec, setDeleteAtHeight(m2, h, Retention))
  BY <1>0, <1>2, RestampGood
<1> QED BY <1>3, <1>4 DEF m1, m2

\* The alert system moves an output between unspent and frozen; reassigning
\* also raises the number of outputs the record waits for.
LEMMA AlertGood ==
  ASSUME NEW r \in Recs, NEW rec, Good(r, rec), NEW o \in Offsets,
         rec.utxos[o] \in {Unspent, Frozen}, NEW x \in {Unspent, Frozen},
         NEW new \in Record,
         new.utxos = [rec.utxos EXCEPT ![o] = x], new.spentUtxos = rec.spentUtxos,
         new.recordUtxos \in {rec.recordUtxos, rec.recordUtxos + 1},
         new.totalExtraRecs = rec.totalExtraRecs,
         new.conflicting = rec.conflicting, new.blockIDs = rec.blockIDs,
         new.preserveUntil = rec.preserveUntil,
         new.lastSpentState = rec.lastSpentState,
         new.deleteAtHeight = rec.deleteAtHeight
  PROVE  Good(r, new) /\ Keeps(rec, new)
<1>0. /\ Base(r, rec) /\ rec.utxos \in [Offsets -> Slots]
      /\ rec.recordUtxos \in Nat /\ rec.spentUtxos \in Int
  BY DEF Good, Base, Record
<1>1. SpentSet(new) = SpentSet(rec)
  BY <1>0, SlotsDistinct DEF SpentSet
<1>2. \A q \in Offsets : new.utxos[q] = NoOutput <=> q \notin Outs[r]
  BY <1>0, SlotsDistinct DEF Base
<1>3. Base(r, new)
  BY <1>0, <1>1, <1>2, Finite DEF Base
<1>4. ~AllSpentHere(rec) /\ rec.spentUtxos < rec.recordUtxos
  BY <1>0, LiveMeansNotAllSpent
<1>5. ~AllSpentHere(new)
  BY <1>0, <1>4 DEF AllSpentHere
<1>6. r = 0 => GoodMaster(new)
  BY <1>1 DEF Good, GoodMaster
<1>7. r # 0 => GoodPage(r, new)
  <2>1. AllSpentHere(rec) = FALSE /\ AllSpentHere(new) = FALSE
    BY <1>4, <1>5 DEF AllSpentHere
  <2> QED BY <2>1 DEF Good, GoodPage
<1>8. Keeps(rec, new)
  BY <1>0, SlotsDistinct DEF Keeps
<1> QED BY <1>3, <1>6, <1>7, <1>8 DEF Good

\* freeze: an unspent output is frozen.
LEMMA FreezeGood ==
  ASSUME NEW r \in Recs, NEW rec, Good(r, rec), NEW o \in Offsets, CanFreeze(rec, o)
  PROVE  Good(r, freeze(rec, o)) /\ Keeps(rec, freeze(rec, o))
<1> DEFINE new == freeze(rec, o)
           U == [rec.utxos EXCEPT ![o] = Frozen]
<1>0. rec \in Record /\ rec.utxos \in [Offsets -> Slots]
  BY DEF Good, Base, Record
<1>1. U \in [Offsets -> Slots]
  BY <1>0 DEF Slots
<1>2. new = [rec EXCEPT !.utxos = U]
  BY DEF freeze
<1> HIDE DEF new, U
<1>3. /\ new \in Record /\ new.utxos = U /\ new.spentUtxos = rec.spentUtxos
      /\ new.recordUtxos = rec.recordUtxos /\ new.totalExtraRecs = rec.totalExtraRecs
      /\ new.conflicting = rec.conflicting /\ new.blockIDs = rec.blockIDs
      /\ new.preserveUntil = rec.preserveUntil
      /\ new.lastSpentState = rec.lastSpentState
      /\ new.deleteAtHeight = rec.deleteAtHeight
  BY <1>0, <1>1, <1>2 DEF Record
<1> QED BY <1>3, AlertGood DEF new, U, CanFreeze

\* unfreeze: a frozen output is unspent again.
LEMMA UnfreezeGood ==
  ASSUME NEW r \in Recs, NEW rec, Good(r, rec), NEW o \in Offsets, CanUnfreeze(rec, o)
  PROVE  Good(r, unfreeze(rec, o)) /\ Keeps(rec, unfreeze(rec, o))
<1> DEFINE new == unfreeze(rec, o)
           U == [rec.utxos EXCEPT ![o] = Unspent]
<1>0. rec \in Record /\ rec.utxos \in [Offsets -> Slots]
  BY DEF Good, Base, Record
<1>1. U \in [Offsets -> Slots]
  BY <1>0 DEF Slots
<1>2. new = [rec EXCEPT !.utxos = U]
  BY DEF unfreeze
<1> HIDE DEF new, U
<1>3. /\ new \in Record /\ new.utxos = U /\ new.spentUtxos = rec.spentUtxos
      /\ new.recordUtxos = rec.recordUtxos /\ new.totalExtraRecs = rec.totalExtraRecs
      /\ new.conflicting = rec.conflicting /\ new.blockIDs = rec.blockIDs
      /\ new.preserveUntil = rec.preserveUntil
      /\ new.lastSpentState = rec.lastSpentState
      /\ new.deleteAtHeight = rec.deleteAtHeight
  BY <1>0, <1>1, <1>2 DEF Record
<1> QED BY <1>3, AlertGood DEF new, U, CanUnfreeze

\* reassign: a frozen output is unspent again, for a new owner.
LEMMA ReassignGood ==
  ASSUME NEW r \in Recs, NEW rec, Good(r, rec), NEW o \in Offsets, CanUnfreeze(rec, o),
         NEW h \in Nat
  PROVE  LET new == reassign(rec, o, h, SpendableAfter)
         IN  Good(r, new) /\ Keeps(rec, new)
<1> DEFINE new == reassign(rec, o, h, SpendableAfter)
           U == [rec.utxos EXCEPT ![o] = Unspent]
           S == [rec.spendableIn EXCEPT ![o] = h + SpendableAfter]
<1>0. /\ rec \in Record /\ rec.utxos \in [Offsets -> Slots]
      /\ rec.spendableIn \in [Offsets -> Nat] /\ rec.recordUtxos \in Nat
  BY DEF Good, Base, Record
<1>1. /\ U \in [Offsets -> Slots] /\ S \in [Offsets -> Nat]
      /\ rec.recordUtxos + 1 \in Nat
  BY <1>0, StoreConstants DEF Slots
<1>2. new = [rec EXCEPT !.utxos = U, !.spendableIn = S, !.recordUtxos = @ + 1]
  BY DEF reassign
<1> HIDE DEF new, U, S
<1>3. /\ new \in Record /\ new.utxos = U /\ new.spentUtxos = rec.spentUtxos
      /\ new.recordUtxos = rec.recordUtxos + 1 /\ new.totalExtraRecs = rec.totalExtraRecs
      /\ new.conflicting = rec.conflicting /\ new.blockIDs = rec.blockIDs
      /\ new.preserveUntil = rec.preserveUntil
      /\ new.lastSpentState = rec.lastSpentState
      /\ new.deleteAtHeight = rec.deleteAtHeight
  BY <1>0, <1>1, <1>2 DEF Record
<1> QED BY <1>3, AlertGood DEF new, U, CanUnfreeze

\* preserveUntil takes the DAH back as it sets the preservation.
LEMMA PreserveGood ==
  ASSUME NEW rec, Good(0, rec), NEW until \in Nat
  PROVE  Good(0, preserveUntil(rec, until)) /\ Keeps(rec, preserveUntil(rec, until))
<1> DEFINE new == preserveUntil(rec, until)
<1>0. rec \in Record /\ Base(0, rec) /\ 0 \in Recs
  BY StoreConstants DEF Good, Base, Recs
<1>1. /\ new \in Record /\ new.utxos = rec.utxos /\ new.spentUtxos = rec.spentUtxos
      /\ new.recordUtxos = rec.recordUtxos /\ new.totalExtraRecs = rec.totalExtraRecs
      /\ new.deleteAtHeight = Nil
  BY <1>0 DEF preserveUntil, Record, OptHeight
<1> HIDE DEF new
<1>2. Base(0, new)
  BY <1>0, <1>1, BaseFrame
<1> QED BY <1>1, <1>2 DEF Good, GoodMaster, Keeps, new

\* The functions that write one bin and leave the DAH of a master to others.
LEMMA BinGood ==
  ASSUME NEW r \in Recs, NEW rec, Good(r, rec)
  PROVE  /\ \A S \in SUBSET Spenders :
              /\ Good(r, addDeletedChildren(rec, S))
              /\ Keeps(rec, addDeletedChildren(rec, S))
         /\ \A n \in OptHeight : Good(r, [rec EXCEPT !.unminedSince = n])
                                 /\ Keeps(rec, [rec EXCEPT !.unminedSince = n])
         /\ \A n \in OptHeight : n = Nil \/ r # 0 =>
              Good(r, [rec EXCEPT !.deleteAtHeight = n])
              /\ Keeps(rec, [rec EXCEPT !.deleteAtHeight = n])
<1>0. rec \in Record
  BY DEF Good, Base
<1>1. ASSUME NEW S \in SUBSET Spenders
      PROVE  LET new == addDeletedChildren(rec, S)
             IN  Good(r, new) /\ Keeps(rec, new)
  <2> DEFINE new == addDeletedChildren(rec, S)
  <2>1. /\ new \in Record /\ new.utxos = rec.utxos /\ new.spentUtxos = rec.spentUtxos
        /\ new.recordUtxos = rec.recordUtxos /\ new.totalExtraRecs = rec.totalExtraRecs
        /\ new.conflicting = rec.conflicting /\ new.blockIDs = rec.blockIDs
        /\ new.preserveUntil = rec.preserveUntil
        /\ new.lastSpentState = rec.lastSpentState
        /\ new.deleteAtHeight = rec.deleteAtHeight
    BY <1>0 DEF addDeletedChildren, Record
  <2> HIDE DEF new
  <2> QED BY <2>1, Framed DEF new
<1>2. ASSUME NEW n \in OptHeight
      PROVE  LET new == [rec EXCEPT !.unminedSince = n]
             IN  Good(r, new) /\ Keeps(rec, new)
  <2> DEFINE new == [rec EXCEPT !.unminedSince = n]
  <2>1. /\ new \in Record /\ new.utxos = rec.utxos /\ new.spentUtxos = rec.spentUtxos
        /\ new.recordUtxos = rec.recordUtxos /\ new.totalExtraRecs = rec.totalExtraRecs
        /\ new.conflicting = rec.conflicting /\ new.blockIDs = rec.blockIDs
        /\ new.preserveUntil = rec.preserveUntil
        /\ new.lastSpentState = rec.lastSpentState
        /\ new.deleteAtHeight = rec.deleteAtHeight
    BY <1>0 DEF Record
  <2> HIDE DEF new
  <2> QED BY <2>1, Framed DEF new
<1>3. ASSUME NEW n \in OptHeight, n = Nil \/ r # 0
      PROVE  LET new == [rec EXCEPT !.deleteAtHeight = n]
             IN  Good(r, new) /\ Keeps(rec, new)
  <2> DEFINE new == [rec EXCEPT !.deleteAtHeight = n]
  <2>1. /\ new \in Record /\ new.utxos = rec.utxos /\ new.spentUtxos = rec.spentUtxos
        /\ new.recordUtxos = rec.recordUtxos /\ new.totalExtraRecs = rec.totalExtraRecs
        /\ new.conflicting = rec.conflicting /\ new.blockIDs = rec.blockIDs
        /\ new.preserveUntil = rec.preserveUntil
        /\ new.lastSpentState = rec.lastSpentState
        /\ new.deleteAtHeight = n
    BY <1>0 DEF Record
  <2> HIDE DEF new
  <2> QED BY <1>3, <2>1, Framed DEF new
<1> QED BY <1>1, <1>2, <1>3

\* setLocked takes the DAH of what it locks.
LEMMA LockedGood ==
  ASSUME NEW r \in Recs, NEW rec, Good(r, rec), NEW v \in BOOLEAN
  PROVE  Good(r, setLocked(rec, v)) /\ Keeps(rec, setLocked(rec, v))
<1> DEFINE new == setLocked(rec, v)
           dah == IF v THEN Nil ELSE rec.deleteAtHeight
<1>0. rec \in Record /\ rec.deleteAtHeight \in OptHeight
  BY DEF Good, Base, Record
<1>1. dah \in OptHeight /\ dah \in {Nil, rec.deleteAtHeight}
  BY <1>0 DEF OptHeight
<1>2. new = [rec EXCEPT !.locked = v, !.deleteAtHeight = dah]
  BY DEF setLocked
<1> HIDE DEF new, dah
<1>3. /\ new \in Record /\ new.utxos = rec.utxos /\ new.spentUtxos = rec.spentUtxos
      /\ new.recordUtxos = rec.recordUtxos /\ new.totalExtraRecs = rec.totalExtraRecs
      /\ new.conflicting = rec.conflicting /\ new.blockIDs = rec.blockIDs
      /\ new.preserveUntil = rec.preserveUntil
      /\ new.lastSpentState = rec.lastSpentState
      /\ new.deleteAtHeight = dah
  BY <1>0, <1>1, <1>2 DEF Record
<1> QED BY <1>1, <1>3, Framed DEF new

-----------------------------------------------------------------------------
(***************************************************************************)
(* The inductive invariant and the two things an action does: it writes    *)
(* one record, and it adds or replaces follow-ups.                         *)
(***************************************************************************)

AllGood == \A r \in Recs : Good(r, recs[r])

Inv == TypeOK /\ AllGood /\ AckedSpendStands

\* One record was written by a function that keeps spent outputs.
LEMMA Written ==
  ASSUME Inv, NEW r \in Recs, NEW new, Good(r, new), Keeps(recs[r], new),
         Write(r, new), acked' = acked
  PROVE  recs' \in [Recs -> Record] /\ AllGood' /\ AckedSpendStands'
<1>1. recs \in [Recs -> Record] /\ new \in Record
  BY DEF Inv, TypeOK, Good, Base
<1>2. recs' \in [Recs -> Record] /\ recs'[r] = new /\ \A q \in Recs \ {r} : recs'[q] = recs[q]
  BY <1>1 DEF Write
<1>3. AllGood'
  BY <1>2 DEF AllGood, Inv
<1>4. ASSUME NEW a \in acked PROVE recs'[a[1]].utxos[a[2]] = a[3]
  <2>1. a[1] \in Recs /\ a[2] \in Offsets /\ a[3] \in Spenders
    BY DEF Inv, TypeOK
  <2>2. recs[a[1]].utxos[a[2]] = a[3]
    BY DEF Inv, AckedSpendStands
  <2>3. CASE a[1] = r
    BY <1>2, <2>1, <2>2, <2>3 DEF Keeps
  <2>4. CASE a[1] # r
    BY <1>2, <2>1, <2>2, <2>4
  <2> QED BY <2>3, <2>4
<1> QED BY <1>2, <1>3, <1>4 DEF AckedSpendStands

\* No record was written.
LEMMA Unwritten ==
  ASSUME Inv, recs' = recs, acked' = acked
  PROVE  recs' \in [Recs -> Record] /\ AllGood' /\ AckedSpendStands'
BY DEF Inv, TypeOK, AllGood, AckedSpendStands

\* Follow-ups are added to a worker's.
LEMMA LaterType ==
  ASSUME Inv, NEW w \in Workers, NEW S \in SUBSET Task, Later(w, S)
  PROVE  todo' \in [Workers -> SUBSET Task]
BY DEF Inv, TypeOK, Later

\* A worker's follow-up is replaced.
LEMMA ReplaceType ==
  ASSUME Inv, NEW w \in Workers, NEW t, NEW S \in SUBSET Task, Replace(w, t, S)
  PROVE  todo' \in [Workers -> SUBSET Task]
BY DEF Inv, TypeOK, Replace

\* The follow-ups the code makes have the type of a follow-up.
LEMMA TaskTypes ==
  /\ \A n \in Int, h \in Nat : Increment(n, h) \in Task
  /\ \A h \in Nat : Verify(h) \in Task
  /\ ClearMaster \in Task
  /\ \A n \in OptHeight, P \in SUBSET Pages : PageDAH(n, P) \in Task
  /\ \A v \in BOOLEAN : PageLock(v) \in Task
  /\ \A P \in SUBSET Pages : UnminedClear(P) \in Task
<1>1. \A n \in Int, h \in Nat : Increment(n, h) \in Task
  BY DEF Increment, Task, Kinds
<1>2. \A h \in Nat : Verify(h) \in Task
  BY DEF Verify, Task, Kinds
<1>3. ClearMaster \in Task
  BY DEF ClearMaster, Task, Kinds
<1>4. \A n \in OptHeight, P \in SUBSET Pages : PageDAH(n, P) \in Task
  BY DEF PageDAH, Task, Kinds, OptHeight, Nil
<1>5. \A v \in BOOLEAN : PageLock(v) \in Task
  BY DEF PageLock, Task, Kinds
<1>6. \A P \in SUBSET Pages : UnminedClear(P) \in Task
  BY DEF UnminedClear, Task, Kinds
<1> QED BY <1>1, <1>2, <1>3, <1>4, <1>5, <1>6

\* So have the sets of follow-ups each call chooses from its signal.
LEMMA FollowUpTypes ==
  ASSUME NEW h \in Nat, NEW signal
  PROVE  /\ CopyDAH(h, signal) \subseteq Task
         /\ SpendFollowUps(h, signal) \subseteq Task
         /\ UnspendFollowUps(h, signal) \subseteq Task
         /\ MinedFollowUps(h, signal) \subseteq Task
         /\ IncrementFollowUps(h, signal) \subseteq Task
<1>0. /\ PageDAH(h + Retention, Pages) \in Task /\ PageDAH(Nil, Pages) \in Task
      /\ Increment(1, h) \in Task /\ Increment(-1, h) \in Task
      /\ PageLock(FALSE) \in Task /\ Verify(h) \in Task
  <2>1. h + Retention \in OptHeight /\ Nil \in OptHeight
    BY StoreConstants DEF OptHeight
  <2>2. PageDAH(h + Retention, Pages) \in Task /\ PageDAH(Nil, Pages) \in Task
    BY <2>1, TaskTypes
  <2>3. Increment(1, h) \in Task /\ Increment(-1, h) \in Task
    BY TaskTypes
  <2>4. PageLock(FALSE) \in Task /\ Verify(h) \in Task
    BY TaskTypes
  <2> QED BY <2>2, <2>3, <2>4
<1>1. CopyDAH(h, signal) \subseteq Task
  BY <1>0 DEF CopyDAH
<1> QED BY <1>0, <1>1 DEF SpendFollowUps, UnspendFollowUps, MinedFollowUps, IncrementFollowUps

\* The same when the DAH before and after is compared.
LEMMA ChangeType ==
  ASSUME NEW before, NEW after \in Record
  PROVE  ChangeFollowUps(before, after) \subseteq Task
<1>1. PageDAH(after.deleteAtHeight, Pages) \in Task
  BY TaskTypes DEF Record
<1> QED BY <1>1 DEF ChangeFollowUps

\* Finishing one page of a follow-up leaves a follow-up or nothing.
LEMMA RemainingType ==
  ASSUME NEW t \in Task, NEW p
  PROVE  Without(t, p) \in Task /\ Remaining(t, p) \subseteq Task
<1>1. Without(t, p) \in Task
  BY DEF Without, Task
<1> QED BY <1>1 DEF Remaining

-----------------------------------------------------------------------------
\* Create leaves every record good: nothing is spent, and a DAH at creation is
\* for a conflict or for a mined transaction that has nothing to spend.
LEMMA InitInv == Init => Inv
<1> SUFFICES ASSUME Init PROVE Inv
  OBVIOUS
<1> PICK c \in CreatedConflicting, l \in CreatedLocked, B \in {{}} \cup {{b} : b \in Blocks} :
      recs = [r \in Recs |-> NewRecord(r, B, c, l)]
  BY DEF Init
<1>1. c \in BOOLEAN /\ l \in BOOLEAN /\ B \subseteq Blocks
  BY StoreConstants
<1>2. ASSUME NEW r \in Recs PROVE Good(r, NewRecord(r, B, c, l))
  <2> DEFINE n == NewRecord(r, B, c, l)
             U == [o \in Offsets |-> IF o \in Outs[r] THEN Unspent ELSE NoOutput]
             stamped == r = 0 /\ Retention > 0 /\ (c \/ NothingToSpend(B))
             dah == IF stamped THEN 1 + Retention ELSE Nil
             total == IF r = 0 THEN NPages ELSE Nil
             blocks == IF r = 0 THEN B ELSE {}
             since == IF r = 0 /\ B = {} THEN 1 ELSE Nil
  <2>1. U \in [Offsets -> Slots] /\ [o \in Offsets |-> 0] \in [Offsets -> Nat]
    BY DEF Slots
  <2>2. dah \in OptHeight /\ total \in OptHeight /\ since \in OptHeight /\ blocks \subseteq Blocks
        /\ Nil \in OptHeight
    BY <1>1, StoreConstants DEF OptHeight
  <2>3. Cardinality(Outs[r]) \in Nat
    BY Finite
  <2>4. n = [utxos |-> U, spentUtxos |-> 0, recordUtxos |-> Cardinality(Outs[r]),
             spendableIn |-> [o \in Offsets |-> 0], deletedChildren |-> {},
             spendingHeight |-> CoinbaseHeight, creating |-> FALSE, conflicting |-> c,
             locked |-> l, deleteAtHeight |-> dah, preserveUntil |-> Nil,
             lastSpentState |-> FALSE, totalExtraRecs |-> total, spentExtraRecs |-> 0,
             blockIDs |-> blocks, unminedSince |-> since]
    BY DEF NewRecord
  <2> HIDE DEF n, U, dah, total, blocks, since, stamped
  <2>5. n \in Record
    BY <1>1, <2>1, <2>2, <2>3, <2>4, StoreConstants DEF Record
  <2>6. /\ n.utxos = U /\ n.spentUtxos = 0 /\ n.recordUtxos = Cardinality(Outs[r])
        /\ n.deleteAtHeight = dah /\ n.preserveUntil = Nil
        /\ n.totalExtraRecs = total /\ n.blockIDs = blocks
    BY <2>4
  <2>7. n.conflicting = c /\ n.lastSpentState = FALSE
    BY <2>4
  <2>8. SpentSet(n) = {}
    BY <2>6, SlotsDistinct DEF SpentSet, U
  <2>9. \A o \in Offsets : n.utxos[o] = NoOutput <=> o \notin Outs[r]
    BY <2>6, SlotsDistinct DEF U
  <2>10. Base(r, n)
    <3>1. n.spentUtxos = Cardinality(SpentSet(n))
      BY <2>6, <2>8, FS_EmptySet
    <3>2. n.recordUtxos >= Cardinality(Outs[r])
      BY <2>3, <2>6
    <3>3. n.totalExtraRecs = IF r = 0 THEN NPages ELSE Nil
      BY <2>6 DEF total
    <3> QED BY <2>5, <2>9, <3>1, <3>2, <3>3 DEF Base
  <2>11. ASSUME r = 0 PROVE GoodMaster(n)
    <3>1. CASE stamped
      <4>1. Retention # 0
        BY <3>1, StoreConstants DEF stamped
      <4>2. c \/ (Outs[0] = {} /\ B # {})
        BY <2>11, <3>1 DEF stamped, NothingToSpend
      <4>3. n.blockIDs = B
        BY <2>6, <2>11 DEF blocks
      <4> QED BY <2>6, <2>7, <4>1, <4>2, <4>3 DEF GoodMaster
    <3>2. CASE ~stamped
      BY <2>6, <3>2 DEF dah, GoodMaster
    <3> QED BY <3>1, <3>2
  <2>12. ASSUME r # 0 PROVE GoodPage(r, n)
    <3>1. Outs[r] # {} => Cardinality(Outs[r]) # 0
      BY Finite, FS_EmptySet
    <3>2. Outs[r] # {} => AllSpentHere(n) = FALSE
      BY <2>3, <2>6, <3>1 DEF AllSpentHere
    <3> QED BY <2>6, <2>7, <3>2 DEF GoodPage
  <2>13. Good(r, n)
    BY <2>10, <2>11, <2>12 DEF Good
  <2> QED BY <2>13 DEF n
<1>3. recs \in [Recs -> Record] /\ AllGood
  BY <1>2 DEF AllGood, Good, Base
<1>4. TypeOK
  BY <1>3 DEF Init, TypeOK
<1> QED BY <1>3, <1>4 DEF Inv, AckedSpendStands, Init

-----------------------------------------------------------------------------
(***************************************************************************)
(* Every action preserves the invariant.                                   *)
(***************************************************************************)

\* Facts every step starts from.
LEMMA Facts ==
  ASSUME Inv
  PROVE  /\ 0 \in Recs /\ Pages \subseteq Recs /\ 0 \notin Pages
         /\ \A r \in Recs : Good(r, recs[r]) /\ recs[r] \in Record
         /\ Good(0, Master) /\ height \in Nat /\ height + 1 \in Nat
         /\ BackdatedUnminedSince \in Nat
BY StoreConstants DEF Inv, TypeOK, AllGood, Recs, Pages, Master, Good, Base,
   BackdatedUnminedSince

\* A step that leaves the sets of the pruner alone.
LEMMA Assemble ==
  ASSUME Inv, recs' \in [Recs -> Record], AllGood', AckedSpendStands',
         todo' \in [Workers -> SUBSET Task],
         UNCHANGED <<present, height, scanned, doomed>>,
         acked' \subseteq Recs \X Offsets \X Spenders
  PROVE  Inv'
BY DEF Inv, TypeOK

\* A spend that is acknowledged owns its output from then on.
LEMMA SpendInv ==
  ASSUME Inv, NEW c \in Callers, NEW r \in Recs, NEW D \in SUBSET Offsets,
         NEW spends \in [D -> Spenders], NEW ic \in BOOLEAN, NEW il \in BOOLEAN,
         Spend(c, r, spends, ic, il)
  PROVE  Inv'
<1> DEFINE h == height + 1
           new == spendMulti(recs[r], spends, h, Retention)
           added == {<<r, o, spends[o]>> :
                      o \in {x \in DOMAIN spends : Acknowledges(recs[r], x, spends[x], h)}}
<1>0. h \in Nat /\ Good(r, recs[r]) /\ c \in Workers /\ recs \in [Recs -> Record]
  BY Facts DEF Workers, Inv, TypeOK
<1>1. /\ Good(r, new) /\ Keeps(recs[r], new)
      /\ \A o \in D : Acknowledges(recs[r], o, spends[o], h) => new.utxos[o] = spends[o]
  BY <1>0, SpendGood
<1>2. /\ recs' = [recs EXCEPT ![r] = new]
      /\ Later(c, SpendFollowUps(h, Signal(recs[r], new)))
      /\ acked' = acked \cup added
      /\ UNCHANGED <<present, height, scanned, doomed>>
  BY DEF Spend, Write
<1>3. \A a \in added : /\ a[1] = r /\ a[2] \in D /\ a[3] = spends[a[2]]
                       /\ Acknowledges(recs[r], a[2], spends[a[2]], h)
                       /\ a \in Recs \X Offsets \X Spenders
  OBVIOUS
<1>4. todo' \in [Workers -> SUBSET Task]
  BY <1>0, <1>2, FollowUpTypes, LaterType
<1> HIDE DEF new, added, h
<1>5. new \in Record
  BY <1>1 DEF Good, Base
<1>6. recs' \in [Recs -> Record] /\ recs'[r] = new /\ \A q \in Recs \ {r} : recs'[q] = recs[q]
  BY <1>0, <1>2, <1>5
<1>7. AllGood'
  BY <1>1, <1>6, Facts DEF AllGood
<1>8. ASSUME NEW a \in acked PROVE recs'[a[1]].utxos[a[2]] = a[3]
  <2>1. a[1] \in Recs /\ a[2] \in Offsets /\ a[3] \in Spenders
    BY DEF Inv, TypeOK
  <2>2. recs[a[1]].utxos[a[2]] = a[3]
    BY DEF Inv, AckedSpendStands
  <2>3. CASE a[1] = r
    BY <1>1, <1>6, <2>1, <2>2, <2>3 DEF Keeps
  <2>4. CASE a[1] # r
    BY <1>6, <2>1, <2>2, <2>4
  <2> QED BY <2>3, <2>4
<1>9. ASSUME NEW a \in added PROVE recs'[a[1]].utxos[a[2]] = a[3]
  BY <1>1, <1>3, <1>6
<1>10. AckedSpendStands'
  BY <1>2, <1>8, <1>9 DEF AckedSpendStands
<1>11. acked' \subseteq Recs \X Offsets \X Spenders
  BY <1>2, <1>3 DEF Inv, TypeOK
<1> QED BY <1>2, <1>4, <1>6, <1>7, <1>10, <1>11, Assemble

\* An unspend takes nothing from other spenders.
LEMMA UnspendInv ==
  ASSUME Inv, NEW c \in Callers, NEW r \in Recs, NEW o \in Offsets, NEW s \in Spenders,
         Unspend(c, r, o, s)
  PROVE  Inv'
<1> DEFINE new == unspend(recs[r], o, s, height, Retention)
<1>0. height \in Nat /\ Good(r, recs[r]) /\ c \in Workers /\ recs \in [Recs -> Record]
  BY Facts DEF Workers, Inv, TypeOK
<1>1. /\ Good(r, new)
      /\ \A x \in Offsets : recs[r].utxos[x] \in Spenders /\ (x # o \/ recs[r].utxos[x] # s)
                             => new.utxos[x] = recs[r].utxos[x]
  BY <1>0, UnspendGood
<1>2. /\ recs' = [recs EXCEPT ![r] = new]
      /\ Later(c, UnspendFollowUps(height, Signal(recs[r], new)))
      /\ acked' = acked \ {<<r, o, s>>}
      /\ UNCHANGED <<present, height, scanned, doomed>>
  BY DEF Unspend, Write
<1>3. todo' \in [Workers -> SUBSET Task]
  BY <1>0, <1>2, FollowUpTypes, LaterType
<1> HIDE DEF new
<1>4. new \in Record
  BY <1>1 DEF Good, Base
<1>5. recs' \in [Recs -> Record] /\ recs'[r] = new /\ \A q \in Recs \ {r} : recs'[q] = recs[q]
  BY <1>0, <1>2, <1>4
<1>6. AllGood'
  BY <1>1, <1>5, Facts DEF AllGood
<1>7. ASSUME NEW a \in acked, a # <<r, o, s>> PROVE recs'[a[1]].utxos[a[2]] = a[3]
  <2>1. a[1] \in Recs /\ a[2] \in Offsets /\ a[3] \in Spenders /\ a = <<a[1], a[2], a[3]>>
    BY DEF Inv, TypeOK
  <2>2. recs[a[1]].utxos[a[2]] = a[3]
    BY DEF Inv, AckedSpendStands
  <2>3. CASE a[1] = r
    <3>1. a[2] # o \/ a[3] # s
      BY <1>7, <2>1, <2>3
    <3> QED BY <1>1, <1>5, <2>1, <2>2, <2>3, <3>1
  <2>4. CASE a[1] # r
    BY <1>5, <2>1, <2>2, <2>4
  <2> QED BY <2>3, <2>4
<1>8. AckedSpendStands'
  BY <1>2, <1>7 DEF AckedSpendStands
<1>9. acked' \subseteq Recs \X Offsets \X Spenders
  BY <1>2 DEF Inv, TypeOK
<1> QED BY <1>2, <1>3, <1>5, <1>6, <1>8, <1>9, Assemble

\* A call that writes one record, keeps its spent outputs and queues follow-ups.
LEMMA CallWrites ==
  ASSUME Inv, NEW c \in Workers, NEW r \in Recs, NEW new, Good(r, new),
         Keeps(recs[r], new), Write(r, new), NEW S \in SUBSET Task,
         Later(c, S) \/ todo' = todo,
         UNCHANGED <<present, height, scanned, doomed, acked>>
  PROVE  Inv'
<1>1. recs' \in [Recs -> Record] /\ AllGood' /\ AckedSpendStands'
  BY Written
<1>2. todo' \in [Workers -> SUBSET Task]
  BY LaterType DEF Inv, TypeOK
<1> QED BY <1>1, <1>2, Assemble DEF Inv, TypeOK

\* Every call preserves the invariant.
LEMMA CallInv ==
  ASSUME Inv, NEW c \in Callers, Call(c)
  PROVE  Inv'
<1> c \in Workers
  BY DEF Workers
<1> USE Facts
<1>1. CASE \E r \in Recs, D \in SUBSET Offsets \ {{}}, ic, il \in BOOLEAN :
             \E spends \in [D -> Spenders] : Spend(c, r, spends, ic, il)
  BY <1>1, SpendInv
<1>2. CASE \E r \in Recs, o \in Offsets, s \in Spenders : Unspend(c, r, o, s)
  BY <1>2, UnspendInv
<1>3. ASSUME NEW b \in Blocks, NEW l \in BOOLEAN, SetMined(c, b, l) PROVE Inv'
  <2> DEFINE new == setMined(Master, b, BlockHeight[b], height + 1, Retention, l, FALSE)
             S == MinedFollowUps(BlockHeight[b], Signal(Master, new))
  <2>1. BlockHeight[b] \in Nat
    BY StoreConstants
  <2>2. Good(0, new) /\ Keeps(recs[0], new)
    BY <2>1, MinedGood DEF Master
  <2>3. S \in SUBSET Task
    BY <2>1, FollowUpTypes
  <2>4. Write(0, new) /\ Later(c, S) /\ UNCHANGED <<present, height, scanned, doomed, acked>>
    BY <1>3 DEF SetMined
  <2> HIDE DEF new, S
  <2> QED BY <2>2, <2>3, <2>4, CallWrites
<1>4. ASSUME NEW b \in Blocks, UnsetMined(c, b) PROVE Inv'
  <2> DEFINE new == setMined(Master, b, BlockHeight[b], BackdatedUnminedSince, Retention,
                             FALSE, TRUE)
             S == CopyDAH(BlockHeight[b], Signal(Master, new))
  <2>1. BlockHeight[b] \in Nat
    BY StoreConstants
  <2>2. Good(0, new) /\ Keeps(recs[0], new)
    BY <2>1, MinedGood DEF Master
  <2>3. S \in SUBSET Task
    BY <2>1, FollowUpTypes
  <2>4. Write(0, new) /\ Later(c, S) /\ UNCHANGED <<present, height, scanned, doomed, acked>>
    BY <1>4 DEF UnsetMined
  <2> HIDE DEF new, S
  <2> QED BY <2>2, <2>3, <2>4, CallWrites
<1>5. CASE MarkOnLongestChain(c)
  <2>1. PICK h \in {height + 1} \cup {BlockHeight[b] : b \in Master.blockIDs} :
          LET after == setDeleteAtHeight([Master EXCEPT !.unminedSince = Nil], h, Retention)
          IN  Write(0, after) /\ Later(c, ChangeFollowUps(Master, after))
    BY <1>5 DEF MarkOnLongestChain
  <2> DEFINE new == setDeleteAtHeight([Master EXCEPT !.unminedSince = Nil], h, Retention)
             S == ChangeFollowUps(Master, new)
  <2>2. h \in Nat
    BY StoreConstants DEF Master, Record
  <2>3. Good(0, new) /\ Keeps(recs[0], new)
    BY <2>2, ReevaluateGood DEF Master
  <2>4. Write(0, new) /\ Later(c, S) /\ UNCHANGED <<present, height, scanned, doomed, acked>>
    BY <1>5, <2>1 DEF MarkOnLongestChain
  <2>5. S \in SUBSET Task
    BY <2>3, ChangeType DEF Good, Base
  <2> HIDE DEF new, S
  <2> QED BY <2>3, <2>4, <2>5, CallWrites
<1>6. CASE MarkNotOnLongestChain(c)
  <2> DEFINE since == IF Master.unminedSince = Nil THEN BackdatedUnminedSince
                      ELSE Master.unminedSince
             new == [Master EXCEPT !.unminedSince = since]
  <2>1. since \in OptHeight
    BY DEF Master, Record, OptHeight
  <2>2. Write(0, new) /\ todo' = todo /\ UNCHANGED <<present, height, scanned, doomed, acked>>
    BY <1>6 DEF MarkNotOnLongestChain
  <2> HIDE DEF since
  <2>3. Good(0, new) /\ Keeps(recs[0], new)
    BY <2>1, BinGood DEF Master
  <2> HIDE DEF new
  <2> QED BY <2>2, <2>3, CallWrites
<1>7. ASSUME NEW v \in BOOLEAN, SetConflicting(c, v) PROVE Inv'
  <2> DEFINE new == setConflicting(Master, v, height, Retention)
  <2>1. Write(0, new) /\ todo' = todo /\ UNCHANGED <<present, height, scanned, doomed, acked>>
    BY <1>7 DEF SetConflicting
  <2>2. Good(0, new) /\ Keeps(recs[0], new)
    BY ConflictingGood DEF Master
  <2> HIDE DEF new
  <2> QED BY <2>1, <2>2, CallWrites
<1>8. ASSUME NEW v \in BOOLEAN, SetLocked(c, v) PROVE Inv'
  <2> DEFINE new == setLocked(Master, v)
             S == IF NPages > 0 THEN {PageLock(v)} ELSE {}
  <2>1. Write(0, new) /\ Later(c, S) /\ UNCHANGED <<present, height, scanned, doomed, acked>>
    BY <1>8 DEF SetLocked
  <2>2. Good(0, new) /\ Keeps(recs[0], new)
    BY LockedGood DEF Master
  <2>3. S \in SUBSET Task
    BY TaskTypes
  <2> HIDE DEF new, S
  <2> QED BY <2>1, <2>2, <2>3, CallWrites
<1>9. ASSUME NEW r \in Recs, NEW o \in Offsets,
             FreezeUTXO(c, r, o) \/ UnFreezeUTXO(c, r, o) \/ ReAssignUTXO(c, r, o)
      PROVE  Inv'
  <2>1. CASE FreezeUTXO(c, r, o)
    BY <2>1, FreezeGood, CallWrites DEF FreezeUTXO
  <2>2. CASE UnFreezeUTXO(c, r, o)
    BY <2>2, UnfreezeGood, CallWrites DEF UnFreezeUTXO
  <2>3. CASE ReAssignUTXO(c, r, o)
    BY <2>3, ReassignGood, CallWrites DEF ReAssignUTXO
  <2> QED BY <1>9, <2>1, <2>2, <2>3
<1>10. ASSUME NEW until \in 1..MaxHeight, PreserveTransaction(c, until) PROVE Inv'
  <2> DEFINE new == preserveUntil(Master, until)
             S == IF NPages > 0 THEN {PageDAH(Nil, Pages)} ELSE {}
  <2>1. Write(0, new) /\ Later(c, S) /\ UNCHANGED <<present, height, scanned, doomed, acked>>
    BY <1>10 DEF PreserveTransaction
  <2>2. until \in Nat
    BY StoreConstants
  <2>3. Good(0, new) /\ Keeps(recs[0], new)
    BY <2>2, PreserveGood DEF Master
  <2>4. S \in SUBSET Task
    BY TaskTypes DEF OptHeight
  <2> HIDE DEF new, S
  <2> QED BY <2>1, <2>3, <2>4, CallWrites
<1>11. CASE ProcessExpiredPreservation(c)
  <2> DEFINE new == setDeleteAtHeight([Master EXCEPT !.preserveUntil = Nil], height, Retention)
             S == ChangeFollowUps(Master, new)
  <2>1. Write(0, new) /\ Later(c, S) /\ UNCHANGED <<present, height, scanned, doomed, acked>>
    BY <1>11 DEF ProcessExpiredPreservation
  <2>2. Good(0, new) /\ Keeps(recs[0], new)
    BY ReevaluateGood DEF Master
  <2>3. S \in SUBSET Task
    BY <2>2, ChangeType DEF Good, Base
  <2> HIDE DEF new, S
  <2> QED BY <2>1, <2>2, <2>3, CallWrites
<1>12. ASSUME NEW r \in Recs, NEW s \in Spenders, AddDeletedChildren(c, r, s) PROVE Inv'
  <2> DEFINE new == addDeletedChildren(recs[r], {s})
  <2>1. Write(r, new) /\ todo' = todo /\ UNCHANGED <<present, height, scanned, doomed, acked>>
    BY <1>12 DEF AddDeletedChildren
  <2>2. Good(r, new) /\ Keeps(recs[r], new)
    BY BinGood
  <2> HIDE DEF new
  <2> QED BY <2>1, <2>2, CallWrites
<1> QED BY <1>1, <1>2, <1>3, <1>4, <1>5, <1>6, <1>7, <1>8, <1>9, <1>10, <1>11, <1>12 DEF Call

\* A follow-up that writes one record, or none, and is replaced by others.
LEMMA FollowUpWrites ==
  ASSUME Inv, NEW w \in Workers, NEW t, NEW S \in SUBSET Task, Replace(w, t, S), Unchanging,
         \/ recs' = recs
         \/ \E r \in Recs : \E new : Good(r, new) /\ Keeps(recs[r], new) /\ Write(r, new)
  PROVE  Inv'
<1>1. recs' \in [Recs -> Record] /\ AllGood' /\ AckedSpendStands'
  BY Written, Unwritten DEF Unchanging
<1>2. todo' \in [Workers -> SUBSET Task]
  BY ReplaceType
<1> QED BY <1>1, <1>2, Assemble DEF Inv, TypeOK, Unchanging

\* Every follow-up preserves the invariant.
LEMMA FollowUpInv ==
  ASSUME Inv, NEW w \in Workers, FollowUp(w)
  PROVE  Inv'
<1> PICK t \in todo[w] :
      \/ DoIncrement(w, t) \/ DoClearMaster(w, t) \/ DoUnminedClear(w, t)
      \/ \E p \in Pages : DoVerify(w, t, p) \/ DoPageDAH(w, t, p) \/ DoPageLock(w, t, p)
  BY DEF FollowUp
<1>0. t \in Task /\ t.n \in Int /\ t.height \in Nat /\ t.pages \subseteq Pages
      /\ (t.kind = "pageDAH" => t.n \in OptHeight)
  BY DEF Inv, TypeOK, Task
<1> USE Facts
<1> {} \in SUBSET Task
  OBVIOUS
<1>1. CASE DoIncrement(w, t)
  <2> DEFINE new == incrementSpentExtraRecs(Master, t.n, t.height, Retention)
             S == IncrementFollowUps(t.height, Signal(Master, new))
  <2>1. Good(0, new) /\ Keeps(recs[0], new)
    BY <1>0, IncrementGood DEF Master
  <2>2. S \in SUBSET Task
    BY <1>0, FollowUpTypes
  <2>3. \/ Write(0, new) /\ Replace(w, t, S) /\ Unchanging
        \/ recs' = recs /\ Replace(w, t, {}) /\ Unchanging
    BY <1>1 DEF DoIncrement
  <2> HIDE DEF new, S
  <2> QED BY <2>1, <2>2, <2>3, FollowUpWrites
<1>2. CASE DoClearMaster(w, t)
  <2> DEFINE new == [recs[0] EXCEPT !.deleteAtHeight = Nil]
  <2>1. Good(0, new) /\ Keeps(recs[0], new)
    BY BinGood DEF OptHeight
  <2>2. (Write(0, new) \/ recs' = recs) /\ Replace(w, t, {}) /\ Unchanging
    BY <1>2 DEF DoClearMaster, Write
  <2> HIDE DEF new
  <2> QED BY <2>1, <2>2, FollowUpWrites
<1>3. CASE DoUnminedClear(w, t)
  <2> DEFINE new == [Master EXCEPT !.deleteAtHeight = Nil]
             S == IF t.pages = {} THEN {} ELSE {PageDAH(Nil, t.pages)}
  <2>1. Good(0, new) /\ Keeps(recs[0], new)
    BY BinGood DEF OptHeight, Master
  <2>2. S \in SUBSET Task
    BY <1>0, TaskTypes DEF OptHeight
  <2>3. \/ Write(0, new) /\ Replace(w, t, S) /\ Unchanging
        \/ recs' = recs /\ Replace(w, t, {}) /\ Unchanging
    BY <1>3 DEF DoUnminedClear
  <2> HIDE DEF new, S
  <2> QED BY <2>1, <2>2, <2>3, FollowUpWrites
<1>4. ASSUME NEW p \in Pages, DoVerify(w, t, p) PROVE Inv'
  <2> DEFINE S == IF p \notin present THEN {}
                  ELSE IF ~AllSpentHere(recs[p]) THEN {ClearMaster}
                  ELSE IF t.pages = {p} THEN {PageDAH(t.height + Retention, Pages)}
                  ELSE {Without(t, p)}
  <2>1. PageDAH(t.height + Retention, Pages) \in Task
    BY <1>0, TaskTypes, StoreConstants DEF OptHeight
  <2>2. ClearMaster \in Task /\ Without(t, p) \in Task
    BY <1>0, TaskTypes, RemainingType
  <2>3. S \in SUBSET Task
    BY <2>1, <2>2
  <2>4. recs' = recs /\ Replace(w, t, S) /\ Unchanging
    BY <1>4 DEF DoVerify
  <2> HIDE DEF S
  <2> QED BY <2>3, <2>4, FollowUpWrites
<1>5. ASSUME NEW p \in Pages, DoPageDAH(w, t, p) PROVE Inv'
  <2> DEFINE new == [recs[p] EXCEPT !.deleteAtHeight = t.n]
  <2>1. t.n \in OptHeight
    BY <1>0, <1>5 DEF DoPageDAH
  <2>2. Good(p, new) /\ Keeps(recs[p], new)
    BY <2>1, BinGood
  <2>3. (Write(p, new) \/ recs' = recs) /\ Replace(w, t, Remaining(t, p)) /\ Unchanging
    BY <1>5 DEF DoPageDAH, Write
  <2> HIDE DEF new
  <2> QED BY <1>0, <2>2, <2>3, RemainingType, FollowUpWrites
<1>6. ASSUME NEW p \in Pages, DoPageLock(w, t, p) PROVE Inv'
  <2> DEFINE new == setLocked(recs[p], t.n = 1)
  <2>1. Good(p, new) /\ Keeps(recs[p], new)
    BY LockedGood
  <2>2. (Write(p, new) \/ recs' = recs) /\ Replace(w, t, Remaining(t, p)) /\ Unchanging
    BY <1>6 DEF DoPageLock, Write
  <2> HIDE DEF new
  <2> QED BY <1>0, <2>1, <2>2, RemainingType, FollowUpWrites
<1> QED BY <1>1, <1>2, <1>3, <1>4, <1>5, <1>6

\* The pruner only reads and deletes; the chain only grows.
LEMMA PruneInv ==
  ASSUME Inv, Prune \/ Tick
  PROVE  Inv'
<1> USE Facts
<1> Pruner \in Workers
  BY DEF Workers
<1>0. ASSUME recs' = recs, acked' = acked, present' \subseteq Recs, height' \in Nat,
             todo' \in [Workers -> SUBSET Task], scanned' \subseteq Pages, doomed' \subseteq Recs
      PROVE  Inv'
  <2>1. recs' \in [Recs -> Record] /\ AllGood' /\ AckedSpendStands'
    BY <1>0, Unwritten
  <2> QED BY <1>0, <2>1 DEF Inv, TypeOK
<1>1. /\ present \subseteq Recs /\ todo \in [Workers -> SUBSET Task]
      /\ scanned \subseteq Pages /\ doomed \subseteq Recs
  BY DEF Inv, TypeOK
<1>2. CASE PruneMaster
  <2>1. {UnminedClear(Pages)} \in SUBSET Task
    BY TaskTypes
  <2>2. todo' \in [Workers -> SUBSET Task]
    BY <1>1, <1>2, <2>1, LaterType DEF PruneMaster
  <2>3. doomed' \subseteq Recs
    BY <1>1, <1>2 DEF PruneMaster
  <2> QED BY <1>0, <1>1, <1>2, <2>2, <2>3 DEF PruneMaster
<1>3. ASSUME NEW p \in Pages, PrunePage(p) PROVE Inv'
  BY <1>0, <1>1, <1>3 DEF PrunePage
<1>4. ASSUME NEW p \in Pages, JudgePage(p) PROVE Inv'
  <2>1. {UnminedClear({p})} \in SUBSET Task
    BY TaskTypes
  <2>2. todo' \in [Workers -> SUBSET Task]
    BY <1>1, <1>4, <2>1, LaterType DEF JudgePage
  <2>3. doomed' \subseteq Recs /\ scanned' \subseteq Pages
    BY <1>1, <1>4 DEF JudgePage
  <2> QED BY <1>0, <1>1, <1>4, <2>2, <2>3 DEF JudgePage
<1>5. ASSUME NEW r \in Recs, DeleteRecord(r) PROVE Inv'
  BY <1>0, <1>1, <1>5 DEF DeleteRecord
<1>6. CASE Tick
  BY <1>0, <1>1, <1>6 DEF Tick
<1> QED BY <1>2, <1>3, <1>4, <1>5, <1>6 DEF Prune

\* A lost follow-up and a stuttering step preserve it too.
LEMMA NextInv == Inv /\ [Next]_vars => Inv'
<1> SUFFICES ASSUME Inv, [Next]_vars PROVE Inv'
  OBVIOUS
<1>1. ASSUME NEW c \in Callers, Call(c) PROVE Inv'
  BY <1>1, CallInv
<1>2. ASSUME NEW w \in Workers, FollowUp(w) PROVE Inv'
  BY <1>2, FollowUpInv
<1>3. ASSUME NEW w \in Workers, Abandon(w) PROVE Inv'
  <2>1. PICK t \in todo[w] : Replace(w, t, {})
    BY <1>3 DEF Abandon
  <2>2. recs' = recs /\ Unchanging
    BY <1>3 DEF Abandon, Unchanging
  <2> QED BY <2>1, <2>2, FollowUpWrites
<1>4. CASE Prune \/ Tick
  BY <1>4, PruneInv
<1>5. CASE UNCHANGED vars
  BY <1>5 DEF vars, Inv, TypeOK, AllGood, AckedSpendStands
<1> QED BY <1>1, <1>2, <1>3, <1>4, <1>5 DEF Next

-----------------------------------------------------------------------------
(***************************************************************************)
(* Theorems.                                                               *)
(***************************************************************************)

\* The inductive invariant holds in every reachable state of the store.
THEOREM Invariance == Spec => []Inv
BY InitInv, NextInv, PTL DEF Spec

\* Every bin, follow-up and pruner set keeps the shape the code gives it, in
\* particular unminedSince, which BackdatedUnminedSince keeps from wrapping.
THEOREM TypeCorrect == Spec => []TypeOK
<1>1. Inv => TypeOK
  BY DEF Inv
<1> QED BY <1>1, Invariance, PTL

\* On every record of every transaction the spentUtxos bin that spendMulti and
\* unspend maintain is exactly the number of outputs that hold a spender.
THEOREM CountExact == Spec => []SpentCountExact
<1>1. Inv => SpentCountExact
  BY DEF Inv, AllGood, Good, Base, SpentCountExact
<1> QED BY <1>1, Invariance, PTL

\* No double spend: an acknowledged spend owns its output until its own unspend,
\* for any number of callers, spenders, freezes, reassignments and lost follow-ups.
THEOREM AckedSafe == Spec => []AckedSpendStands
<1>1. Inv => AckedSpendStands
  BY DEF Inv
<1> QED BY <1>1, Invariance, PTL

\* A master that carries a delete-at-height and is not conflicting is mined and
\* has every output of its own spent, whatever setDeleteAtHeight, the counter of
\* pages and the pruner's own clearing did before.
THEOREM MasterStampSafe == Spec => []MasterStampMeansSpent
<1>1. Inv => MasterStampMeansSpent
  BY Facts DEF Good, GoodMaster, MasterStampMeansSpent
<1> QED BY <1>1, Invariance, PTL

\* No call stamps a master that preserveUntil protects.
THEOREM PreservedSafe == Spec => []PreservedHasNoStamp
<1>1. Inv => PreservedHasNoStamp
  BY Facts DEF Good, GoodMaster, PreservedHasNoStamp
<1> QED BY <1>1, Invariance, PTL

\* The latch by which a page reports to its master agrees with its counters.
THEOREM LatchSafe == Spec => []LatchMatchesPage
<1>1. Inv => LatchMatchesPage
  BY Facts DEF Good, GoodPage, LatchMatchesPage
<1> QED BY <1>1, Invariance, PTL

=============================================================================
