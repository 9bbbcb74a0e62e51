--------------------------- MODULE UtxoPrune_proofs ---------------------------
(***************************************************************************)
(* What the pruner deletes, and what the locks of the pages follow, for    *)
(* any number of pages, outputs, spenders, blocks, callers and heights.    *)
(*                                                                         *)
(* Deletion.  Two kinds of call defeat it, and the README shows how: an    *)
(* unspend, after which a page keeps the stamp it got before, and the      *)
(* conflicting flag, which stamps a master whatever its outputs are.       *)
(* Without them (Settled) the argument is one of counting.  A page latches *)
(* that it is all spent once, and then for good; the caller that saw it    *)
(* latch moves the master's counter once, late or never.  So the counter   *)
(* and the reports still on their way never exceed the latched pages, and  *)
(* a master that counts all its pages has every page all spent.  Every     *)
(* stamp, every follow-up that writes one, everything the pruner holds and *)
(* every deletion comes from such a master, and being all spent is stable. *)
(*                                                                         *)
(* Locks.  One caller that loses no follow-up, and no unmining, which      *)
(* unlocks a master and not its pages.                                     *)
(***************************************************************************)
EXTENDS UtxoStore_proofs

\* The calls of this environment never take a spend back or flag a conflict.
Settled ==
  /\ "unspend" \notin Ops /\ "conflict" \notin Ops
  /\ TRUE \notin CreatedConflicting

AllOver == \A r \in Recs : AllSpentHere(recs[r])

\* Pages that latched all spent, and workers that still have to report one.
Latched == {p \in Pages : recs[p].lastSpentState}
Reporting == {w \in Workers : \E t \in todo[w] : t.kind = "increment"}

Stamping(t) == t.kind = "verify" \/ (t.kind = "pageDAH" /\ t.n # Nil)

\* Some record is on its way to deletion.
Expiring ==
  \/ \E r \in Recs : recs[r].deleteAtHeight # Nil
  \/ \E w \in Workers : \E t \in todo[w] : Stamping(t)
  \/ scanned # {}
  \/ doomed # {}
  \/ present # Recs

\* A record is never conflicting, one with a reassigned output never counts as
\* all spent, and a page's latch tells the truth.
Plain(r, rec) ==
  /\ rec.conflicting = FALSE
  /\ (\E o \in Offsets : rec.spendableIn[o] > 0) => rec.recordUtxos > Cardinality(Outs[r])
  /\ r # 0 /\ rec.lastSpentState => AllSpentHere(rec)

AllPlain == \A r \in Recs : Plain(r, recs[r])

\* A report moves the counter by one and is its worker's only follow-up.
Reports ==
  \A w \in Workers : \A t \in todo[w] :
    t.kind = "increment" => t.n = 1 /\ todo[w] = {t}

\* The counter and the reports under way never exceed the latched pages.
Counted ==
  /\ IsFiniteSet(Reporting)
  /\ Master.spentExtraRecs \in Nat
  /\ Master.spentExtraRecs + Cardinality(Reporting) <= Cardinality(Latched)

PruneSafe == Inv /\ AllPlain /\ Reports /\ Counted /\ (Expiring => AllOver)

-----------------------------------------------------------------------------
(***************************************************************************)
(* Counting pages.                                                         *)
(***************************************************************************)

\* There are NPages pages.
LEMMA PageCount == IsFiniteSet(Pages) /\ Cardinality(Pages) = NPages
<1>1. 1 \in Int /\ NPages \in Int /\ 1 <= NPages + 1
  BY StoreConstants
<1> QED BY <1>1, StoreConstants, FS_Interval DEF Pages

\* Latched pages are finitely many.
LEMMA LatchedFinite == IsFiniteSet(Latched) /\ Cardinality(Latched) \in Nat /\ Latched \subseteq Pages
BY PageCount, FS_Subset, FS_CardinalityType DEF Latched

\* When as many pages latched as there are, every page is all spent.
LEMMA LatchedMeansPages ==
  ASSUME PruneSafe, Cardinality(Latched) >= NPages
  PROVE  \A p \in Pages : AllSpentHere(recs[p])
<1>1. Cardinality(Latched) <= NPages
  BY LatchedFinite, PageCount, FS_Subset
<1>2. Latched = Pages
  BY <1>1, LatchedFinite, PageCount, FS_Subset, StoreConstants
<1> QED BY <1>2, Facts DEF Latched, PruneSafe, AllPlain, Plain

\* A master that counts every page has every page all spent.
LEMMA CountMeansPages ==
  ASSUME PruneSafe, Master.totalExtraRecs = Master.spentExtraRecs
  PROVE  \A p \in Pages : AllSpentHere(recs[p])
<1>1. Master.totalExtraRecs = NPages
  BY Facts DEF PruneSafe, Good, Base
<1>2. Cardinality(Reporting) \in Nat /\ Master.spentExtraRecs = NPages
  BY <1>1, FS_CardinalityType DEF PruneSafe, Counted
<1>3. Cardinality(Latched) >= NPages
  BY <1>2, LatchedFinite, StoreConstants DEF PruneSafe, Counted
<1> QED BY <1>3, LatchedMeansPages

\* With its own outputs spent too, the whole transaction is all spent.
LEMMA CountMeansOver ==
  ASSUME PruneSafe, Master.totalExtraRecs = Master.spentExtraRecs, AllSpentHere(Master)
  PROVE  AllOver
<1>1. \A r \in Recs : r = 0 \/ r \in Pages
  BY StoreConstants DEF Recs, Pages
<1> QED BY <1>1, CountMeansPages DEF AllOver, Master

\* A record that has an output to freeze, unfreeze or take is not expiring.
LEMMA LiveMeansNotExpiring ==
  ASSUME PruneSafe, NEW r \in Recs, NEW o \in Offsets, recs[r].utxos[o] \in {Unspent, Frozen}
  PROVE  ~AllSpentHere(recs[r]) /\ ~AllOver /\ ~Expiring
<1>1. ~AllSpentHere(recs[r])
  BY Facts, LiveMeansNotAllSpent DEF PruneSafe, Good
<1> QED BY <1>1 DEF PruneSafe, AllOver

-----------------------------------------------------------------------------
(***************************************************************************)
(* What the server-side functions leave alone.                             *)
(***************************************************************************)

\* The outputs, their counters and the latch are as they were.
SameOutputs(rec, new) ==
  /\ new.utxos = rec.utxos
  /\ new.spentUtxos = rec.spentUtxos
  /\ new.recordUtxos = rec.recordUtxos
  /\ new.spendableIn = rec.spendableIn
  /\ new.conflicting = rec.conflicting
  /\ new.lastSpentState = rec.lastSpentState

\* A master is stamped only if it is eligible.
LEMMA MasterRestamp ==
  ASSUME NEW rec \in Record, rec.conflicting = FALSE, ~IsPage(rec), NEW h \in Nat
  PROVE  LET new == setDeleteAtHeight(rec, h, Retention)
         IN  /\ SameOutputs(rec, new)
             /\ new.spentExtraRecs = rec.spentExtraRecs
             /\ new.deleteAtHeight # Nil => rec.deleteAtHeight # Nil \/ Eligible(rec)
<1> DEFINE new == setDeleteAtHeight(rec, h, Retention)
<1>1. CASE Retention = 0 \/ rec.preserveUntil # Nil
  BY <1>1 DEF setDeleteAtHeight, SameOutputs
<1>2. CASE ~(Retention = 0 \/ rec.preserveUntil # Nil)
  <2> DEFINE dah == IF ~Eligible(rec) THEN Nil
                    ELSE IF rec.deleteAtHeight < h + Retention THEN h + Retention
                    ELSE rec.deleteAtHeight
  <2>1. new = [rec EXCEPT !.deleteAtHeight = dah]
    BY <1>2 DEF setDeleteAtHeight, Restamped
  <2>2. dah # Nil => Eligible(rec)
    OBVIOUS
  <2> HIDE DEF dah, new
  <2>3. SameOutputs(rec, new) /\ new.spentExtraRecs = rec.spentExtraRecs /\ new.deleteAtHeight = dah
    BY <2>1 DEF SameOutputs, Record
  <2> QED BY <2>2, <2>3 DEF new
<1> QED BY <1>1, <1>2

\* A page only latches; its stamp is not its own to write.
LEMMA PageRestamp ==
  ASSUME NEW rec \in Record, rec.conflicting = FALSE, IsPage(rec), NEW h \in Nat
  PROVE  LET new == setDeleteAtHeight(rec, h, Retention)
         IN  /\ new.utxos = rec.utxos
             /\ new.spentUtxos = rec.spentUtxos
             /\ new.recordUtxos = rec.recordUtxos
             /\ new.spendableIn = rec.spendableIn
             /\ new.conflicting = rec.conflicting
             /\ new.deleteAtHeight = rec.deleteAtHeight
             /\ \/ new.lastSpentState = rec.lastSpentState
                \/ new.lastSpentState = AllSpentHere(rec)
<1> DEFINE new == setDeleteAtHeight(rec, h, Retention)
<1>1. CASE Retention = 0 \/ rec.preserveUntil # Nil
  BY <1>1 DEF setDeleteAtHeight
<1>2. CASE ~(Retention = 0 \/ rec.preserveUntil # Nil)
  <2> DEFINE latch == AllSpentHere(rec)
  <2>1. new = [rec EXCEPT !.lastSpentState = latch]
    BY <1>2 DEF setDeleteAtHeight, Restamped
  <2> HIDE DEF new, latch
  <2>2. /\ new.utxos = rec.utxos /\ new.spentUtxos = rec.spentUtxos
        /\ new.recordUtxos = rec.recordUtxos /\ new.spendableIn = rec.spendableIn
        /\ new.conflicting = rec.conflicting /\ new.deleteAtHeight = rec.deleteAtHeight
        /\ new.lastSpentState = latch
    BY <2>1 DEF Record
  <2> QED BY <2>2 DEF new, latch
<1> QED BY <1>1, <1>2

\* A record whose outputs are as they were is as plain, and as spent, as it was.
LEMMA SamePlain ==
  ASSUME NEW r, NEW rec, NEW new, SameOutputs(rec, new)
  PROVE  (Plain(r, rec) => Plain(r, new)) /\ (AllSpentHere(new) = AllSpentHere(rec))
BY DEF SameOutputs, Plain, AllSpentHere

-----------------------------------------------------------------------------
(***************************************************************************)
(* Calls.                                                                  *)
(***************************************************************************)

\* A step that leaves every output alone, moves no counter, and brings no record
\* closer to deletion unless everything is spent.
LEMMA QuietStep ==
  ASSUME PruneSafe, Inv', Reports', Reporting' \subseteq Reporting,
         \A r \in Recs : SameOutputs(recs[r], recs'[r]),
         Master'.spentExtraRecs = Master.spentExtraRecs,
         Expiring' => Expiring \/ AllOver
  PROVE  PruneSafe'
<1>1. AllPlain'
  BY SamePlain DEF PruneSafe, AllPlain
<1>2. AllOver => AllOver'
  BY SamePlain DEF AllOver
<1>3. Latched' = Latched
  BY Facts DEF Latched, SameOutputs, PruneSafe
<1>4. /\ IsFiniteSet(Reporting') /\ Cardinality(Reporting') <= Cardinality(Reporting)
      /\ Cardinality(Reporting') \in Nat /\ Cardinality(Reporting) \in Nat
  BY FS_Subset, FS_CardinalityType DEF PruneSafe, Counted
<1>5. Counted'
  BY <1>3, <1>4, LatchedFinite DEF PruneSafe, Counted
<1>6. Expiring' => AllOver'
  BY <1>2 DEF PruneSafe
<1> QED BY <1>1, <1>5, <1>6 DEF PruneSafe

\* A call that adds follow-ups, none of them a report.
LEMMA LaterReports ==
  ASSUME PruneSafe, NEW w \in Workers, NEW S \in SUBSET Task, Idle(w), Later(w, S),
         \A t \in S : t.kind # "increment"
  PROVE  /\ Reports' /\ Reporting' \subseteq Reporting
         /\ \A x \in Workers : \A t \in todo'[x] : t \in todo[x] \/ t \in S
<1>1. todo'[w] = S /\ \A x \in Workers \ {w} : todo'[x] = todo[x]
  BY DEF Later, Idle, PruneSafe, Inv, TypeOK
<1> QED BY <1>1 DEF Reports, Reporting, PruneSafe

\* A call on the master that writes none of its outputs.
LEMMA MasterCall ==
  ASSUME PruneSafe, Inv', NEW c \in Workers, Idle(c), NEW new, Write(0, new),
         SameOutputs(Master, new), new.spentExtraRecs = Master.spentExtraRecs,
         new.deleteAtHeight # Nil => Master.deleteAtHeight # Nil \/ AllOver,
         NEW S \in SUBSET Task, Later(c, S) \/ (todo' = todo /\ S = {}),
         \A t \in S : t.kind # "increment" /\ (Stamping(t) => new.deleteAtHeight # Nil),
         UNCHANGED <<present, scanned, doomed>>
  PROVE  PruneSafe'
<1>1. recs' = [recs EXCEPT ![0] = new] /\ recs \in [Recs -> Record] /\ 0 \in Recs
  BY Facts DEF Write, PruneSafe, Inv, TypeOK
<1>2. recs'[0] = new /\ Master' = new /\ \A r \in Recs \ {0} : recs'[r] = recs[r]
  BY <1>1 DEF Master
<1>3. \A r \in Recs : SameOutputs(recs[r], recs'[r])
  BY <1>2 DEF SameOutputs, Master
<1>4. /\ Reports' /\ Reporting' \subseteq Reporting
      /\ \A x \in Workers : \A t \in todo'[x] : t \in todo[x] \/ t \in S
  BY LaterReports DEF Reports, Reporting, PruneSafe
<1>5. Expiring' => Expiring \/ AllOver
  <2>1. new.deleteAtHeight # Nil => Expiring \/ AllOver
    BY <1>1 DEF Expiring, Master
  <2>2. CASE \E r \in Recs : recs'[r].deleteAtHeight # Nil
    BY <1>2, <2>1, <2>2 DEF Expiring
  <2>3. CASE \E x \in Workers : \E t \in todo'[x] : Stamping(t)
    BY <1>4, <2>1, <2>3 DEF Expiring
  <2>4. CASE scanned' # {} \/ doomed' # {} \/ present' # Recs
    BY <2>4 DEF Expiring
  <2> QED BY <2>2, <2>3, <2>4 DEF Expiring
<1> QED BY <1>2, <1>3, <1>4, <1>5, QuietStep

\* Follow-ups that copy the master's stamp write one only if there is one.
LEMMA CopyStamps ==
  ASSUME NEW before, NEW after, ~IsPage(before), NEW h \in Nat,
         NEW t \in CopyDAH(h, Signal(before, after)) \cup ChangeFollowUps(before, after)
  PROVE  t.kind = "pageDAH" /\ (Stamping(t) => after.deleteAtHeight # Nil)
<1>1. CASE t \in CopyDAH(h, Signal(before, after))
  <2>1. Signal(before, after) = "DAHSET" => after.deleteAtHeight # Nil
    BY DEF Signal
  <2>2. CASE Signal(before, after) = "DAHSET"
    BY <1>1, <2>1, <2>2 DEF CopyDAH, PageDAH, Stamping
  <2>3. CASE Signal(before, after) = "DAHUNSET"
    BY <1>1, <2>3 DEF CopyDAH, PageDAH, Stamping
  <2>4. CASE Signal(before, after) \notin {"DAHSET", "DAHUNSET"}
    BY <1>1, <2>4 DEF CopyDAH
  <2> QED BY <2>2, <2>3, <2>4
<1>2. CASE t \in ChangeFollowUps(before, after)
  <2>1. t = PageDAH(after.deleteAtHeight, Pages)
    BY <1>2 DEF ChangeFollowUps
  <2> QED BY <2>1 DEF PageDAH, Stamping
<1> QED BY <1>1, <1>2

\* Facts about the master and its page lock.
LEMMA MasterFacts ==
  ASSUME PruneSafe
  PROVE  /\ Inv /\ Master \in Record /\ Master.conflicting = FALSE /\ ~IsPage(Master)
         /\ Master = recs[0] /\ Good(0, Master)
<1>1. Inv /\ Master \in Record /\ Good(0, Master)
  BY Facts DEF PruneSafe, Master
<1>2. ~IsPage(Master)
  BY <1>1, StoreConstants DEF Good, Base, IsPage, Nil
<1> QED BY <1>1, <1>2, Facts DEF PruneSafe, AllPlain, Plain, Master

\* The master is evaluated again after another of its bins was written.
LEMMA ReevaluateStamps ==
  ASSUME PruneSafe, NEW mid \in Record, SameOutputs(Master, mid), NEW h \in Nat,
         mid.spentExtraRecs = Master.spentExtraRecs, mid.deleteAtHeight = Master.deleteAtHeight,
         mid.totalExtraRecs = Master.totalExtraRecs
  PROVE  LET new == setDeleteAtHeight(mid, h, Retention)
         IN  /\ SameOutputs(Master, new)
             /\ new.spentExtraRecs = Master.spentExtraRecs
             /\ new.deleteAtHeight # Nil => Master.deleteAtHeight # Nil \/ AllOver
<1> DEFINE new == setDeleteAtHeight(mid, h, Retention)
<1>1. mid.conflicting = FALSE /\ ~IsPage(mid)
  BY MasterFacts DEF SameOutputs, IsPage
<1>2. /\ SameOutputs(mid, new) /\ new.spentExtraRecs = mid.spentExtraRecs
      /\ new.deleteAtHeight # Nil => mid.deleteAtHeight # Nil \/ Eligible(mid)
  BY <1>1, MasterRestamp
<1>3. Eligible(mid) => AllOver
  BY CountMeansOver DEF Eligible, SameOutputs, AllSpentHere
<1> QED BY <1>2, <1>3 DEF SameOutputs

\* setMined, for a block that is set or taken back.
LEMMA MinedStamps ==
  ASSUME PruneSafe, NEW b \in Blocks, NEW cur \in Nat, NEW l \in BOOLEAN, NEW u \in BOOLEAN
  PROVE  LET new == setMined(Master, b, BlockHeight[b], cur, Retention, l, u)
         IN  /\ SameOutputs(Master, new)
             /\ new.spentExtraRecs = Master.spentExtraRecs
             /\ new.deleteAtHeight # Nil => Master.deleteAtHeight # Nil \/ AllOver
<1> DEFINE blocks == IF u THEN Master.blockIDs \ {b} ELSE Master.blockIDs \cup {b}
           since == IF blocks # {} THEN (IF l THEN Nil ELSE Master.unminedSince)
                    ELSE IF Master.unminedSince = Nil THEN cur ELSE Master.unminedSince
           mid == [Master EXCEPT !.blockIDs = blocks, !.unminedSince = since,
                                 !.locked = FALSE, !.creating = FALSE]
           new == setDeleteAtHeight(mid, BlockHeight[b], Retention)
<1>1. BlockHeight[b] \in Nat /\ Master \in Record
  BY MasterFacts, StoreConstants
<1>2. blocks \in SUBSET Blocks /\ since \in OptHeight
  BY <1>1 DEF Record, OptHeight
<1>3. new = setMined(Master, b, BlockHeight[b], cur, Retention, l, u)
  BY DEF setMined, MinedBins
<1> HIDE DEF blocks, since
<1>4. /\ mid \in Record /\ SameOutputs(Master, mid) /\ mid.spentExtraRecs = Master.spentExtraRecs
      /\ mid.deleteAtHeight = Master.deleteAtHeight /\ mid.totalExtraRecs = Master.totalExtraRecs
  BY <1>1, <1>2 DEF Record, SameOutputs
<1> HIDE DEF mid
<1> QED BY <1>1, <1>3, <1>4, ReevaluateStamps

\* Spending: the bins that spendMulti does not touch, and a record that is all
\* spent stays so, because none of its outputs can be taken.
LEMMA MarkedBins ==
  ASSUME NEW r \in Recs, NEW rec, Base(r, rec), NEW h \in Nat,
         NEW D \in SUBSET Offsets, NEW spends \in [D -> Spenders]
  PROVE  LET mid == Marked(rec, spends, h)
         IN  /\ mid \in Record
             /\ mid.recordUtxos = rec.recordUtxos /\ mid.spendableIn = rec.spendableIn
             /\ mid.conflicting = rec.conflicting /\ mid.lastSpentState = rec.lastSpentState
             /\ mid.spentExtraRecs = rec.spentExtraRecs
             /\ mid.totalExtraRecs = rec.totalExtraRecs
             /\ mid.deleteAtHeight = rec.deleteAtHeight
             /\ AllSpentHere(rec) => AllSpentHere(mid)
<1> DEFINE T == Taken(rec, spends, h)
           U == [o \in Offsets |-> IF o \in T THEN spends[o] ELSE rec.utxos[o]]
           n == rec.spentUtxos + Cardinality(T)
           mid == Marked(rec, spends, h)
<1>0. rec \in Record /\ rec.utxos \in [Offsets -> Slots] /\ rec.spentUtxos \in Int
  BY DEF Base, Record
<1>1. T \subseteq D /\ \A o \in T : rec.utxos[o] = Unspent /\ o \in Offsets
  BY DEF Taken, Takes
<1>2. mid = [rec EXCEPT !.utxos = U, !.spentUtxos = n]
  BY DEF Marked
<1>3. mid \in Record
  BY MarkedBase DEF Base
<1>4. AllSpentHere(rec) => T = {}
  BY <1>1, LiveMeansNotAllSpent
<1>5. T = {} => n = rec.spentUtxos
  BY <1>0, FS_EmptySet
<1> HIDE DEF mid, T, U, n
<1>6. /\ mid.recordUtxos = rec.recordUtxos /\ mid.spendableIn = rec.spendableIn
      /\ mid.conflicting = rec.conflicting /\ mid.lastSpentState = rec.lastSpentState
      /\ mid.spentExtraRecs = rec.spentExtraRecs /\ mid.totalExtraRecs = rec.totalExtraRecs
      /\ mid.deleteAtHeight = rec.deleteAtHeight /\ mid.spentUtxos = n
  BY <1>0, <1>2 DEF Record
<1>7. AllSpentHere(rec) => AllSpentHere(mid)
  BY <1>4, <1>5, <1>6 DEF AllSpentHere
<1> QED BY <1>3, <1>6, <1>7 DEF mid

\* A spend on the master may complete the transaction, and then stamps it.
LEMMA SpendMaster ==
  ASSUME PruneSafe, Inv', NEW c \in Callers, NEW D \in SUBSET Offsets,
         NEW spends \in [D -> Spenders], NEW ic \in BOOLEAN, NEW il \in BOOLEAN,
         Spend(c, 0, spends, ic, il)
  PROVE  PruneSafe'
<1> DEFINE h == height + 1
           mid == Marked(Master, spends, h)
           new == setDeleteAtHeight(mid, h, Retention)
           S == CopyDAH(h, Signal(Master, new))
<1>0. /\ 0 \in Recs /\ c \in Workers /\ h \in Nat /\ Idle(c) /\ Base(0, Master)
      /\ recs \in [Recs -> Record] /\ Master = recs[0]
  BY MasterFacts, Facts DEF Workers, Spend, Calls, Good, Inv, TypeOK
<1>1. /\ mid \in Record
      /\ mid.recordUtxos = Master.recordUtxos /\ mid.spendableIn = Master.spendableIn
      /\ mid.conflicting = Master.conflicting /\ mid.spentExtraRecs = Master.spentExtraRecs
      /\ mid.totalExtraRecs = Master.totalExtraRecs
      /\ mid.deleteAtHeight = Master.deleteAtHeight
      /\ AllSpentHere(Master) => AllSpentHere(mid)
  BY <1>0, MarkedBins
<1> HIDE DEF mid
<1>2. mid.conflicting = FALSE /\ ~IsPage(mid)
  BY <1>1, MasterFacts DEF IsPage
<1>3. /\ SameOutputs(mid, new) /\ new.spentExtraRecs = mid.spentExtraRecs
      /\ new.deleteAtHeight # Nil => mid.deleteAtHeight # Nil \/ Eligible(mid)
  BY <1>0, <1>1, <1>2, MasterRestamp
<1>4. SpendFollowUps(h, Signal(Master, new)) = S
  BY MasterFacts DEF SpendFollowUps, Signal
<1>5. recs' = [recs EXCEPT ![0] = new] /\ Later(c, S) /\ UNCHANGED <<present, scanned, doomed>>
  BY <1>0, <1>4 DEF Spend, Write, spendMulti, mid
<1>6. \A t \in S : t.kind = "pageDAH" /\ (Stamping(t) => new.deleteAtHeight # Nil)
  BY <1>0, MasterFacts, CopyStamps
<1>7. S \in SUBSET Task
  BY <1>0, FollowUpTypes
<1> HIDE DEF new, S, h
<1>8. recs'[0] = new /\ Master' = new /\ \A r \in Recs \ {0} : recs'[r] = recs[r]
  BY <1>0, <1>5 DEF Master
<1>9. /\ Reports' /\ Reporting' \subseteq Reporting
      /\ \A x \in Workers : \A t \in todo'[x] : t \in todo[x] \/ t \in S
  BY <1>0, <1>5, <1>6, <1>7, LaterReports
<1>10. AllPlain'
  <2>1. Plain(0, new)
    BY <1>0, <1>1, <1>3 DEF PruneSafe, AllPlain, Plain, SameOutputs
  <2> QED BY <1>8, <2>1 DEF PruneSafe, AllPlain
<1>11. Counted'
  <2>1. Latched' = Latched
    BY <1>8, Facts, MasterFacts DEF Latched
  <2>2. /\ IsFiniteSet(Reporting') /\ Cardinality(Reporting') <= Cardinality(Reporting)
        /\ Cardinality(Reporting') \in Nat /\ Cardinality(Reporting) \in Nat
    BY <1>9, FS_Subset, FS_CardinalityType DEF PruneSafe, Counted
  <2> QED BY <1>1, <1>3, <1>8, <2>1, <2>2, LatchedFinite DEF PruneSafe, Counted
<1>12. AllOver => AllOver'
  <2>1. AllSpentHere(Master) => AllSpentHere(new)
    BY <1>1, <1>3 DEF SameOutputs, AllSpentHere
  <2> QED BY <1>0, <1>8, <2>1 DEF AllOver
<1>13. Eligible(mid) => AllOver'
  <2> SUFFICES ASSUME Eligible(mid) PROVE AllOver'
    OBVIOUS
  <2>1. \A p \in Pages : AllSpentHere(recs[p])
    BY <1>1, CountMeansPages DEF Eligible
  <2>2. AllSpentHere(new)
    BY <1>3 DEF Eligible, SameOutputs, AllSpentHere
  <2>3. \A r \in Recs : r = 0 \/ r \in Pages
    BY StoreConstants DEF Recs, Pages
  <2> QED BY <1>8, <2>1, <2>2, <2>3 DEF AllOver
<1>14. new.deleteAtHeight # Nil => Expiring \/ AllOver'
  BY <1>0, <1>1, <1>3, <1>13 DEF Expiring
<1>15. Expiring' => Expiring \/ AllOver'
  <2>1. CASE \E r \in Recs : recs'[r].deleteAtHeight # Nil
    BY <1>8, <1>14, <2>1 DEF Expiring
  <2>2. CASE \E x \in Workers : \E t \in todo'[x] : Stamping(t)
    BY <1>6, <1>9, <1>14, <2>2 DEF Expiring
  <2>3. CASE scanned' # {} \/ doomed' # {} \/ present' # Recs
    BY <1>5, <2>3 DEF Expiring
  <2> QED BY <2>1, <2>2, <2>3 DEF Expiring
<1> QED BY <1>9, <1>10, <1>11, <1>12, <1>15 DEF PruneSafe

\* A spend on a page may latch it, and then its caller has one report to make.
LEMMA SpendPage ==
  ASSUME PruneSafe, Inv', NEW c \in Callers, NEW p \in Pages, NEW D \in SUBSET Offsets,
         NEW spends \in [D -> Spenders], NEW ic \in BOOLEAN, NEW il \in BOOLEAN,
         Spend(c, p, spends, ic, il)
  PROVE  PruneSafe'
<1> DEFINE h == height + 1
           rec == recs[p]
           mid == Marked(rec, spends, h)
           new == setDeleteAtHeight(mid, h, Retention)
           S == SpendFollowUps(h, Signal(rec, new))
<1>0. /\ p \in Recs /\ p # 0 /\ 0 \in Recs /\ c \in Workers /\ h \in Nat /\ Idle(c)
      /\ Base(p, rec) /\ Plain(p, rec) /\ IsPage(rec) /\ recs \in [Recs -> Record]
  BY MasterFacts, Facts
     DEF Workers, Spend, Calls, Good, Base, IsPage, Inv, TypeOK, PruneSafe, AllPlain
<1>1. /\ mid \in Record
      /\ mid.recordUtxos = rec.recordUtxos /\ mid.spendableIn = rec.spendableIn
      /\ mid.conflicting = rec.conflicting /\ mid.lastSpentState = rec.lastSpentState
      /\ mid.totalExtraRecs = rec.totalExtraRecs
      /\ mid.deleteAtHeight = rec.deleteAtHeight
      /\ AllSpentHere(rec) => AllSpentHere(mid)
  BY <1>0, MarkedBins
<1> HIDE DEF mid
<1>2. mid.conflicting = FALSE /\ IsPage(mid)
  BY <1>0, <1>1 DEF Plain, IsPage
<1>3. /\ new.spentUtxos = mid.spentUtxos /\ new.recordUtxos = mid.recordUtxos
      /\ new.spendableIn = mid.spendableIn /\ new.conflicting = mid.conflicting
      /\ new.deleteAtHeight = mid.deleteAtHeight
      /\ new.lastSpentState = mid.lastSpentState \/ new.lastSpentState = AllSpentHere(mid)
  BY <1>0, <1>1, <1>2, PageRestamp
<1>4. recs' = [recs EXCEPT ![p] = new] /\ Later(c, S) /\ UNCHANGED <<present, scanned, doomed>>
  BY DEF Spend, Write, spendMulti, mid
<1>5. AllSpentHere(new) = AllSpentHere(mid)
  BY <1>3 DEF AllSpentHere
<1>6. rec.lastSpentState \in BOOLEAN /\ new.lastSpentState \in BOOLEAN
  BY <1>0, <1>1, <1>3 DEF Record, AllSpentHere
<1>7. Plain(p, new) /\ (rec.lastSpentState => new.lastSpentState)
  BY <1>0, <1>1, <1>3, <1>5, <1>6 DEF Plain
<1>8. \/ S = {} /\ new.lastSpentState = rec.lastSpentState
      \/ S = {Increment(1, h)} /\ ~rec.lastSpentState /\ new.lastSpentState
  <2>1. CASE new.lastSpentState = rec.lastSpentState
    BY <1>0, <2>1 DEF Signal, SpendFollowUps, CopyDAH
  <2>2. CASE new.lastSpentState # rec.lastSpentState
    <3>1. new.lastSpentState /\ ~rec.lastSpentState
      BY <1>6, <1>7, <2>2
    <3>2. Signal(rec, new) = "ALLSPENT"
      BY <1>0, <3>1 DEF Signal
    <3> QED BY <3>1, <3>2 DEF SpendFollowUps
  <2> QED BY <2>1, <2>2
<1> HIDE DEF new, S, h, rec
<1>9. recs'[p] = new /\ \A r \in Recs \ {p} : recs'[r] = recs[r]
  BY <1>0, <1>4
<1>10. todo'[c] = S /\ \A x \in Workers \ {c} : todo'[x] = todo[x]
  BY <1>0, <1>4 DEF Later, Idle, PruneSafe, Inv, TypeOK
<1>11. AllPlain'
  BY <1>7, <1>9 DEF PruneSafe, AllPlain
<1>12. AllOver => AllOver'
  <2>1. AllSpentHere(rec) => AllSpentHere(new)
    BY <1>1, <1>5
  <2> QED BY <1>0, <1>9, <2>1 DEF AllOver, rec
<1>13. \A t \in S : t.kind = "increment" /\ t.n = 1 /\ S = {t} /\ ~Stamping(t)
  BY <1>8 DEF Increment, Stamping
<1>14. Reports'
  BY <1>10, <1>13 DEF Reports, PruneSafe
<1>15. Expiring' => Expiring
  <2>1. CASE \E r \in Recs : recs'[r].deleteAtHeight # Nil
    BY <1>0, <1>1, <1>3, <1>9, <2>1 DEF Expiring, rec
  <2>2. CASE \E x \in Workers : \E t \in todo'[x] : Stamping(t)
    BY <1>10, <1>13, <2>2 DEF Expiring
  <2>3. CASE scanned' # {} \/ doomed' # {} \/ present' # Recs
    BY <1>4, <2>3 DEF Expiring
  <2> QED BY <2>1, <2>2, <2>3 DEF Expiring
<1>16. Counted'
  <2>0. /\ IsFiniteSet(Reporting) /\ Cardinality(Reporting) \in Nat
        /\ c \notin Reporting /\ Master' = Master
    BY <1>0, <1>9, FS_CardinalityType DEF PruneSafe, Counted, Reporting, Idle, Master
  <2>1. CASE S = {} /\ new.lastSpentState = rec.lastSpentState
    <3>1. Reporting' = Reporting
      BY <1>10, <2>0, <2>1 DEF Reporting
    <3>2. Latched' = Latched
      BY <1>9, <2>1, Facts, MasterFacts DEF Latched, rec
    <3> QED BY <2>0, <3>1, <3>2 DEF PruneSafe, Counted
  <2>2. CASE S = {Increment(1, h)} /\ ~rec.lastSpentState /\ new.lastSpentState
    <3>0. \E t \in todo'[c] : t.kind = "increment"
      BY <1>10, <1>13, <2>2
    <3>1. Reporting' = Reporting \cup {c}
      BY <1>0, <1>10, <3>0 DEF Reporting
    <3>2. Latched' = Latched \cup {p} /\ p \notin Latched
      BY <1>9, <2>2, Facts, MasterFacts DEF Latched, rec
    <3>3. IsFiniteSet(Reporting') /\ Cardinality(Reporting') = Cardinality(Reporting) + 1
      BY <2>0, <3>1, FS_AddElement
    <3>4. Cardinality(Latched') = Cardinality(Latched) + 1
      BY <3>2, LatchedFinite, FS_AddElement
    <3> QED BY <2>0, <3>3, <3>4, LatchedFinite DEF PruneSafe, Counted
  <2> QED BY <1>8, <2>1, <2>2
<1> QED BY <1>11, <1>12, <1>14, <1>15, <1>16 DEF PruneSafe

\* The alert system touches only outputs that are not spent, so it finds the
\* transaction far from deletion; a reassignment keeps it there for good.
LEMMA AlertStep ==
  ASSUME PruneSafe, Inv', NEW c \in Callers, NEW r \in Recs, NEW o \in Offsets,
         FreezeUTXO(c, r, o) \/ UnFreezeUTXO(c, r, o) \/ ReAssignUTXO(c, r, o)
  PROVE  PruneSafe'
<1> DEFINE rec == recs[r]
           new == recs'[r]
<1>0. /\ rec \in Record /\ Base(r, rec) /\ Plain(r, rec) /\ recs \in [Recs -> Record]
      /\ rec.recordUtxos \in Nat /\ rec.recordUtxos >= Cardinality(Outs[r])
      /\ Cardinality(Outs[r]) \in Nat /\ 0 \in Recs
  BY Facts, MasterFacts, Finite DEF Good, Base, Inv, TypeOK, PruneSafe, AllPlain, Record
<1>1. rec.utxos[o] \in {Unspent, Frozen}
  BY DEF FreezeUTXO, UnFreezeUTXO, ReAssignUTXO, CanFreeze, CanUnfreeze
<1>2. ~AllSpentHere(rec) /\ ~AllOver /\ ~Expiring
  BY <1>1, LiveMeansNotExpiring
<1>3. /\ recs' = [recs EXCEPT ![r] = new]
      /\ new.conflicting = rec.conflicting /\ new.lastSpentState = rec.lastSpentState
      /\ new.spentExtraRecs = rec.spentExtraRecs
      /\ new.deleteAtHeight = rec.deleteAtHeight
      /\ \/ new.spendableIn = rec.spendableIn /\ new.recordUtxos = rec.recordUtxos
         \/ new.recordUtxos = rec.recordUtxos + 1
  <2>1. CASE FreezeUTXO(c, r, o)
    <3>1. recs' = [recs EXCEPT ![r] = freeze(rec, o)]
      BY <2>1 DEF FreezeUTXO, Write
    <3>2. new = freeze(rec, o)
      BY <1>0, <3>1
    <3> QED BY <1>0, <3>1, <3>2 DEF freeze, Record
  <2>2. CASE UnFreezeUTXO(c, r, o)
    <3>1. recs' = [recs EXCEPT ![r] = unfreeze(rec, o)]
      BY <2>2 DEF UnFreezeUTXO, Write
    <3>2. new = unfreeze(rec, o)
      BY <1>0, <3>1
    <3> QED BY <1>0, <3>1, <3>2 DEF unfreeze, Record
  <2>3. CASE ReAssignUTXO(c, r, o)
    <3>1. recs' = [recs EXCEPT ![r] = reassign(rec, o, height, SpendableAfter)]
      BY <2>3 DEF ReAssignUTXO, Write
    <3>2. new = reassign(rec, o, height, SpendableAfter)
      BY <1>0, <3>1
    <3> QED BY <1>0, <3>1, <3>2 DEF reassign, Record
  <2> QED BY <2>1, <2>2, <2>3
<1>4. UNCHANGED <<present, todo, scanned, doomed>>
  BY DEF FreezeUTXO, UnFreezeUTXO, ReAssignUTXO
<1> HIDE DEF rec, new
<1>5. recs'[r] = new /\ \A q \in Recs \ {r} : recs'[q] = recs[q]
  BY <1>0, <1>3 DEF new
<1>6. Plain(r, new)
  BY <1>0, <1>2, <1>3 DEF Plain
<1>7. AllPlain'
  BY <1>5, <1>6 DEF PruneSafe, AllPlain
<1>8. Reports' /\ Reporting' = Reporting
  BY <1>4 DEF Reports, Reporting, PruneSafe
<1>9. Latched' = Latched /\ Master'.spentExtraRecs = Master.spentExtraRecs
  BY <1>0, <1>3, <1>5, Facts, MasterFacts DEF Latched, Master, rec
<1>10. ~Expiring'
  BY <1>2, <1>3, <1>4, <1>5 DEF Expiring, rec
<1> QED BY <1>7, <1>8, <1>9, <1>10 DEF PruneSafe, Counted

\* Every call an environment without unspends and conflicts makes.
LEMMA CallStep ==
  ASSUME Settled, PruneSafe, Inv', NEW c \in Callers, Call(c)
  PROVE  PruneSafe'
<1> c \in Workers
  BY DEF Workers
<1> USE Facts, MasterFacts
<1>1. ASSUME NEW r \in Recs, NEW D \in SUBSET Offsets \ {{}}, NEW ic \in BOOLEAN,
             NEW il \in BOOLEAN, NEW spends \in [D -> Spenders], Spend(c, r, spends, ic, il)
      PROVE  PruneSafe'
  <2>1. r = 0 \/ r \in Pages
    BY StoreConstants DEF Recs, Pages
  <2> QED BY <1>1, <2>1, SpendMaster, SpendPage
<1>2. ~\E r \in Recs, o \in Offsets, s \in Spenders : Unspend(c, r, o, s)
  BY DEF Settled, Unspend, Calls
<1>3. ASSUME NEW b \in Blocks, NEW l \in BOOLEAN, SetMined(c, b, l) PROVE PruneSafe'
  <2> DEFINE new == setMined(Master, b, BlockHeight[b], height + 1, Retention, l, FALSE)
             S == MinedFollowUps(BlockHeight[b], Signal(Master, new))
  <2>1. BlockHeight[b] \in Nat
    BY StoreConstants
  <2>2. /\ SameOutputs(Master, new) /\ new.spentExtraRecs = Master.spentExtraRecs
        /\ new.deleteAtHeight # Nil => Master.deleteAtHeight # Nil \/ AllOver
    BY MinedStamps
  <2>3. S \in SUBSET Task
    BY <2>1, FollowUpTypes
  <2>4. \A t \in S : t.kind # "increment" /\ (Stamping(t) => new.deleteAtHeight # Nil)
    <3>1. \A t \in CopyDAH(BlockHeight[b], Signal(Master, new)) :
            t.kind # "increment" /\ (Stamping(t) => new.deleteAtHeight # Nil)
      BY <2>1, CopyStamps
    <3>2. PageLock(FALSE).kind = "pageLock"
      BY DEF PageLock
    <3>3. \A t \in S : t \in CopyDAH(BlockHeight[b], Signal(Master, new)) \/ t = PageLock(FALSE)
      BY DEF MinedFollowUps
    <3> HIDE DEF S, new
    <3> QED BY <3>1, <3>2, <3>3 DEF Stamping
  <2>5. Write(0, new) /\ Later(c, S) /\ Idle(c) /\ UNCHANGED <<present, scanned, doomed>>
    BY <1>3 DEF SetMined, Calls
  <2> HIDE DEF new, S
  <2> QED BY <2>2, <2>3, <2>4, <2>5, MasterCall
<1>4. ASSUME NEW b \in Blocks, UnsetMined(c, b) PROVE PruneSafe'
  <2> DEFINE new == setMined(Master, b, BlockHeight[b], BackdatedUnminedSince, Retention,
                             FALSE, TRUE)
             S == CopyDAH(BlockHeight[b], Signal(Master, new))
  <2>1. BlockHeight[b] \in Nat
    BY StoreConstants
  <2>2. /\ SameOutputs(Master, new) /\ new.spentExtraRecs = Master.spentExtraRecs
        /\ new.deleteAtHeight # Nil => Master.deleteAtHeight # Nil \/ AllOver
    BY MinedStamps
  <2>3. S \in SUBSET Task
    BY <2>1, FollowUpTypes
  <2>4. \A t \in S : t.kind # "increment" /\ (Stamping(t) => new.deleteAtHeight # Nil)
    BY <2>1, CopyStamps
  <2>5. Write(0, new) /\ Later(c, S) /\ Idle(c) /\ UNCHANGED <<present, scanned, doomed>>
    BY <1>4 DEF UnsetMined, Calls
  <2> HIDE DEF new, S
  <2> QED BY <2>2, <2>3, <2>4, <2>5, MasterCall
<1>5. CASE MarkOnLongestChain(c)
  <2>1. PICK h \in {height + 1} \cup {BlockHeight[b] : b \in Master.blockIDs} :
          LET after == setDeleteAtHeight([Master EXCEPT !.unminedSince = Nil], h, Retention)
          IN  Write(0, after) /\ Later(c, ChangeFollowUps(Master, after))
    BY <1>5 DEF MarkOnLongestChain
  <2> DEFINE mid == [Master EXCEPT !.unminedSince = Nil]
             new == setDeleteAtHeight(mid, h, Retention)
             S == ChangeFollowUps(Master, new)
  <2>2. h \in Nat
    BY StoreConstants DEF Record
  <2>3. /\ mid \in Record /\ SameOutputs(Master, mid) /\ mid.spentExtraRecs = Master.spentExtraRecs
        /\ mid.deleteAtHeight = Master.deleteAtHeight /\ mid.totalExtraRecs = Master.totalExtraRecs
    BY DEF Record, SameOutputs, OptHeight
  <2>4. /\ SameOutputs(Master, new) /\ new.spentExtraRecs = Master.spentExtraRecs
        /\ new.deleteAtHeight # Nil => Master.deleteAtHeight # Nil \/ AllOver
    BY <2>2, <2>3, ReevaluateStamps
  <2>5. S \in SUBSET Task
    BY <2>2, <2>3, RestampFrame, ChangeType
  <2>6. \A t \in S : t.kind # "increment" /\ (Stamping(t) => new.deleteAtHeight # Nil)
    BY <2>2, CopyStamps
  <2>7. Write(0, new) /\ Later(c, S) /\ Idle(c) /\ UNCHANGED <<present, scanned, doomed>>
    BY <1>5, <2>1 DEF MarkOnLongestChain, Calls
  <2> HIDE DEF new, S, mid
  <2> QED BY <2>4, <2>5, <2>6, <2>7, MasterCall
<1>6. CASE MarkNotOnLongestChain(c)
  <2> DEFINE since == IF Master.unminedSince = Nil THEN BackdatedUnminedSince
                      ELSE Master.unminedSince
             new == [Master EXCEPT !.unminedSince = since]
  <2>1. /\ Write(0, new) /\ todo' = todo /\ Idle(c) /\ UNCHANGED <<present, scanned, doomed>>
    BY <1>6 DEF MarkNotOnLongestChain, Calls
  <2> HIDE DEF since
  <2>2. /\ SameOutputs(Master, new) /\ new.spentExtraRecs = Master.spentExtraRecs
        /\ new.deleteAtHeight = Master.deleteAtHeight
    BY DEF Record, SameOutputs
  <2> DEFINE none == {}
  <2>3. none \in SUBSET Task /\ \A t \in none : t.kind # "increment" /\ ~Stamping(t)
    OBVIOUS
  <2>4. todo' = todo /\ none = {}
    BY <2>1
  <2> HIDE DEF new, none
  <2> QED BY <2>1, <2>2, <2>3, <2>4, MasterCall
<1>7. ~\E v \in BOOLEAN : SetConflicting(c, v)
  BY DEF Settled, SetConflicting, Calls
<1>8. ASSUME NEW v \in BOOLEAN, SetLocked(c, v) PROVE PruneSafe'
  <2> DEFINE new == setLocked(Master, v)
             S == IF NPages > 0 THEN {PageLock(v)} ELSE {}
  <2>1. Write(0, new) /\ Later(c, S) /\ Idle(c) /\ UNCHANGED <<present, scanned, doomed>>
    BY <1>8 DEF SetLocked, Calls
  <2>2. /\ SameOutputs(Master, new) /\ new.spentExtraRecs = Master.spentExtraRecs
        /\ new.deleteAtHeight # Nil => Master.deleteAtHeight # Nil
    BY DEF setLocked, Record, SameOutputs
  <2>3. S \in SUBSET Task
    BY TaskTypes
  <2>4. \A t \in S : t.kind # "increment" /\ ~Stamping(t)
    <3>1. PageLock(v).kind = "pageLock"
      BY DEF PageLock
    <3> QED BY <3>1 DEF Stamping
  <2> HIDE DEF new, S
  <2> QED BY <2>1, <2>2, <2>3, <2>4, MasterCall
<1>9. ASSUME NEW r \in Recs, NEW o \in Offsets,
             FreezeUTXO(c, r, o) \/ UnFreezeUTXO(c, r, o) \/ ReAssignUTXO(c, r, o)
      PROVE  PruneSafe'
  BY <1>9, AlertStep
<1>10. ASSUME NEW until \in 1..MaxHeight, PreserveTransaction(c, until) PROVE PruneSafe'
  <2> DEFINE new == preserveUntil(Master, until)
             S == IF NPages > 0 THEN {PageDAH(Nil, Pages)} ELSE {}
  <2>1. Write(0, new) /\ Later(c, S) /\ Idle(c) /\ UNCHANGED <<present, scanned, doomed>>
    BY <1>10 DEF PreserveTransaction, Calls
  <2>2. /\ SameOutputs(Master, new) /\ new.spentExtraRecs = Master.spentExtraRecs
        /\ new.deleteAtHeight = Nil
    BY DEF preserveUntil, Record, SameOutputs
  <2>3. S \in SUBSET Task
    BY TaskTypes DEF OptHeight
  <2>4. \A t \in S : t.kind # "increment" /\ ~Stamping(t)
    BY DEF PageDAH, Stamping
  <2> HIDE DEF new, S
  <2> QED BY <2>1, <2>2, <2>3, <2>4, MasterCall
<1>11. CASE ProcessExpiredPreservation(c)
  <2> DEFINE mid == [Master EXCEPT !.preserveUntil = Nil]
             new == setDeleteAtHeight(mid, height, Retention)
             S == ChangeFollowUps(Master, new)
  <2>1. Write(0, new) /\ Later(c, S) /\ Idle(c) /\ UNCHANGED <<present, scanned, doomed>>
    BY <1>11 DEF ProcessExpiredPreservation, Calls
  <2>2. /\ mid \in Record /\ SameOutputs(Master, mid) /\ mid.spentExtraRecs = Master.spentExtraRecs
        /\ mid.deleteAtHeight = Master.deleteAtHeight /\ mid.totalExtraRecs = Master.totalExtraRecs
    BY DEF Record, SameOutputs, OptHeight
  <2>3. /\ SameOutputs(Master, new) /\ new.spentExtraRecs = Master.spentExtraRecs
        /\ new.deleteAtHeight # Nil => Master.deleteAtHeight # Nil \/ AllOver
    BY <2>2, ReevaluateStamps
  <2>4. S \in SUBSET Task
    BY <2>2, RestampFrame, ChangeType
  <2>5. \A t \in S : t.kind # "increment" /\ (Stamping(t) => new.deleteAtHeight # Nil)
    BY CopyStamps
  <2> HIDE DEF new, S, mid
  <2> QED BY <2>1, <2>3, <2>4, <2>5, MasterCall
<1>12. ASSUME NEW r \in Recs, NEW s \in Spenders, AddDeletedChildren(c, r, s) PROVE PruneSafe'
  <2> DEFINE new == addDeletedChildren(recs[r], {s})
  <2>1. recs' = [recs EXCEPT ![r] = new] /\ UNCHANGED <<present, todo, scanned, doomed>>
    BY <1>12 DEF AddDeletedChildren, Write
  <2>2. /\ SameOutputs(recs[r], new) /\ new.spentExtraRecs = recs[r].spentExtraRecs
        /\ new.deleteAtHeight = recs[r].deleteAtHeight
    BY DEF addDeletedChildren, Record, SameOutputs
  <2>3. recs \in [Recs -> Record]
    BY DEF Inv, TypeOK
  <2> HIDE DEF new
  <2>4. recs'[r] = new /\ \A q \in Recs \ {r} : recs'[q] = recs[q]
    BY <2>1, <2>3
  <2>5. \A q \in Recs : SameOutputs(recs[q], recs'[q]) /\ recs'[q].deleteAtHeight = recs[q].deleteAtHeight
                        /\ recs'[q].spentExtraRecs = recs[q].spentExtraRecs
    BY <2>2, <2>4 DEF SameOutputs
  <2>6. Reports' /\ Reporting' = Reporting
    BY <2>1 DEF Reports, Reporting, PruneSafe
  <2>7. Expiring' => Expiring
    BY <2>1, <2>5 DEF Expiring
  <2>8. Master'.spentExtraRecs = Master.spentExtraRecs
    BY <2>5 DEF Master
  <2> QED BY <2>5, <2>6, <2>7, <2>8, QuietStep
<1> QED BY <1>1, <1>2, <1>3, <1>4, <1>5, <1>6, <1>7, <1>8, <1>9, <1>10, <1>11, <1>12 DEF Call

-----------------------------------------------------------------------------
(***************************************************************************)
(* Follow-ups, lost follow-ups, the pruner and the chain.                  *)
(***************************************************************************)

\* A follow-up that is no report is replaced by follow-ups that are none either.
LEMMA ReplaceReports ==
  ASSUME PruneSafe, NEW w \in Workers, NEW t \in todo[w], NEW S, Replace(w, t, S),
         t.kind # "increment" \/ S = {}, \A u \in S : u.kind # "increment"
  PROVE  /\ Reports' /\ Reporting' \subseteq Reporting
         /\ \A x \in Workers : \A u \in todo'[x] : u \in todo[x] \/ u \in S
<1>1. todo'[w] = (todo[w] \ {t}) \cup S /\ \A x \in Workers \ {w} : todo'[x] = todo[x]
  BY DEF Replace, PruneSafe, Inv, TypeOK
<1>2. \A x \in Workers : \A u \in todo'[x] : u \in todo[x] \/ u \in S
  BY <1>1
<1>3. Reporting' \subseteq Reporting
  BY <1>2 DEF Reporting
<1>4. ASSUME NEW u \in todo'[w], u.kind = "increment" PROVE FALSE
  <2>1. u \in todo[w] /\ u # t
    BY <1>1, <1>4
  <2> QED BY <1>4, <2>1 DEF PruneSafe, Reports
<1>5. Reports'
  BY <1>1, <1>4 DEF PruneSafe, Reports
<1> QED BY <1>2, <1>3, <1>5

\* A follow-up that writes no output and no counter, and stamps only what is spent.
LEMMA QuietFollowUp ==
  ASSUME PruneSafe, Inv', NEW w \in Workers, NEW t \in todo[w], NEW S, Replace(w, t, S),
         t.kind # "increment" \/ S = {},
         \A u \in S : u.kind # "increment" /\ (Stamping(u) => Expiring),
         \A r \in Recs : /\ SameOutputs(recs[r], recs'[r])
                         /\ recs'[r].spentExtraRecs = recs[r].spentExtraRecs
                         /\ recs'[r].deleteAtHeight # Nil => Expiring,
         UNCHANGED <<present, scanned, doomed>>
  PROVE  PruneSafe'
<1>1. /\ Reports' /\ Reporting' \subseteq Reporting
      /\ \A x \in Workers : \A u \in todo'[x] : u \in todo[x] \/ u \in S
  BY ReplaceReports
<1>2. Expiring' => Expiring
  <2>1. CASE \E r \in Recs : recs'[r].deleteAtHeight # Nil
    BY <2>1
  <2>2. CASE \E x \in Workers : \E u \in todo'[x] : Stamping(u)
    BY <1>1, <2>2 DEF Expiring
  <2>3. CASE scanned' # {} \/ doomed' # {} \/ present' # Recs
    BY <2>3 DEF Expiring
  <2> QED BY <2>1, <2>2, <2>3 DEF Expiring
<1>3. Master'.spentExtraRecs = Master.spentExtraRecs
  BY Facts DEF Master, PruneSafe
<1> QED BY <1>1, <1>2, <1>3, QuietStep

\* One record is written, in bins that are neither outputs nor counters.
LEMMA WrittenQuietly ==
  ASSUME PruneSafe, NEW r \in Recs, NEW new, SameOutputs(recs[r], new),
         new.spentExtraRecs = recs[r].spentExtraRecs, new.deleteAtHeight # Nil => Expiring,
         \/ recs' = [recs EXCEPT ![r] = new]
         \/ recs' = recs
  PROVE  \A q \in Recs : /\ SameOutputs(recs[q], recs'[q])
                         /\ recs'[q].spentExtraRecs = recs[q].spentExtraRecs
                         /\ recs'[q].deleteAtHeight # Nil => Expiring
<1>1. recs \in [Recs -> Record]
  BY DEF PruneSafe, Inv, TypeOK
<1>2. \A q \in Recs : recs'[q] = recs[q] \/ (q = r /\ recs'[q] = new)
  BY <1>1
<1>3. \A q \in Recs : recs[q].deleteAtHeight # Nil => Expiring
  BY DEF Expiring
<1> QED BY <1>2, <1>3 DEF SameOutputs

\* A report moves the counter by at most one and is then no longer under way.
LEMMA IncrementStep ==
  ASSUME PruneSafe, Inv', NEW w \in Workers, NEW t \in todo[w], DoIncrement(w, t)
  PROVE  PruneSafe'
<1>0. /\ 0 \in Recs /\ recs \in [Recs -> Record] /\ Master \in Record /\ Master = recs[0]
      /\ t.kind = "increment" /\ t.n = 1 /\ t.height \in Nat /\ todo[w] = {t}
      /\ UNCHANGED <<present, scanned, doomed>>
  <2>1. t.kind = "increment" /\ UNCHANGED <<present, scanned, doomed>>
    BY DEF DoIncrement, Unchanging
  <2>2. t.n = 1 /\ todo[w] = {t}
    BY <2>1 DEF PruneSafe, Reports
  <2>3. t \in Task /\ recs \in [Recs -> Record]
    BY DEF PruneSafe, Inv, TypeOK
  <2>4. t.height \in Nat
    BY <2>3 DEF Task
  <2> QED BY <2>1, <2>2, <2>3, <2>4, Facts, MasterFacts
<1>1. CASE 0 \notin present
  <2>1. recs' = recs /\ Replace(w, t, {})
    BY <1>1 DEF DoIncrement
  <2>2. \A r \in Recs : /\ SameOutputs(recs[r], recs'[r])
                        /\ recs'[r].spentExtraRecs = recs[r].spentExtraRecs
                        /\ recs'[r].deleteAtHeight # Nil => Expiring
    BY <2>1 DEF SameOutputs, Expiring
  <2> QED BY <1>0, <2>1, <2>2, QuietFollowUp
<1>2. CASE 0 \in present
  <2> DEFINE n == Clamp(Master.spentExtraRecs + t.n, Master.totalExtraRecs)
             mid == [Master EXCEPT !.spentExtraRecs = n]
             new == setDeleteAtHeight(mid, t.height, Retention)
             S == IncrementFollowUps(t.height, Signal(Master, new))
  <2>1. recs' = [recs EXCEPT ![0] = new] /\ Replace(w, t, S)
    BY <1>0, <1>2 DEF DoIncrement, Write, incrementSpentExtraRecs
  <2>2. /\ Master.spentExtraRecs \in Nat /\ Master.totalExtraRecs = NPages
        /\ n \in Nat /\ n <= Master.spentExtraRecs + 1
    <3>1. Master.spentExtraRecs \in Nat /\ Master.totalExtraRecs = NPages
      BY MasterFacts DEF PruneSafe, Counted, Good, Base
    <3>2. NPages \in Nat /\ t.n = 1
      BY <1>0, StoreConstants
    <3> QED BY <3>1, <3>2 DEF Clamp
  <2> HIDE DEF n
  <2>3. /\ mid \in Record /\ SameOutputs(Master, mid) /\ mid.spentExtraRecs = n
        /\ mid.deleteAtHeight = Master.deleteAtHeight /\ mid.totalExtraRecs = NPages
    <3>1. Master \in Record /\ n \in Int
      BY <1>0, <2>2
    <3> QED BY <2>2, <3>1 DEF Record, SameOutputs
  <2> HIDE DEF mid
  <2>4. mid.conflicting = FALSE /\ ~IsPage(mid)
    <3>1. mid.conflicting = FALSE
      BY <2>3, MasterFacts DEF SameOutputs
    <3>2. mid.totalExtraRecs = NPages /\ NPages \in Nat
      BY <2>3, StoreConstants
    <3>3. ~IsPage(mid)
      BY <3>2 DEF IsPage, Nil
    <3> QED BY <3>1, <3>3
  <2>5. /\ SameOutputs(mid, new) /\ new.spentExtraRecs = n
        /\ new.deleteAtHeight # Nil => mid.deleteAtHeight # Nil \/ Eligible(mid)
    BY <1>0, <2>3, <2>4, MasterRestamp
  <2>6. \A u \in S : u.kind # "increment" /\ (Stamping(u) => new.deleteAtHeight # Nil)
    <3>1. CASE Signal(Master, new) = "DAHSET" /\ Pages # {}
      <4>1. S = {Verify(t.height)} /\ new.deleteAtHeight # Nil
        BY <3>1, MasterFacts DEF IncrementFollowUps, Signal
      <4>2. Verify(t.height).kind = "verify"
        BY DEF Verify
      <4> QED BY <4>1, <4>2
    <3>2. CASE ~(Signal(Master, new) = "DAHSET" /\ Pages # {})
      <4>1. S = CopyDAH(t.height, Signal(Master, new))
        BY <3>2 DEF IncrementFollowUps
      <4> QED BY <1>0, <4>1, MasterFacts, CopyStamps
    <3> QED BY <3>1, <3>2
  <2> HIDE DEF new, S
  <2>7. recs'[0] = new /\ Master' = new /\ \A r \in Recs \ {0} : recs'[r] = recs[r]
    BY <1>0, <2>1 DEF Master
  <2>8. todo'[w] = S /\ \A x \in Workers \ {w} : todo'[x] = todo[x]
    BY <1>0, <2>1 DEF Replace, PruneSafe, Inv, TypeOK
  <2>9. SameOutputs(Master, new)
    BY <2>3, <2>5 DEF SameOutputs
  <2>10. AllPlain' /\ (AllOver => AllOver')
    <3>1. \A r \in Recs : SameOutputs(recs[r], recs'[r])
      BY <1>0, <2>7, <2>9 DEF SameOutputs
    <3> QED BY <3>1, SamePlain DEF PruneSafe, AllPlain, AllOver
  <2>11. Reports'
    BY <2>6, <2>8 DEF PruneSafe, Reports
  <2>12. Latched' = Latched
    BY <2>7, Facts, MasterFacts DEF Latched
  <2>13. Counted'
    <3>1. Reporting' = Reporting \ {w} /\ w \in Reporting
      BY <1>0, <2>6, <2>8 DEF Reporting
    <3>2. /\ IsFiniteSet(Reporting') /\ Cardinality(Reporting') = Cardinality(Reporting) - 1
          /\ Cardinality(Reporting) \in Nat
      BY <3>1, FS_RemoveElement, FS_CardinalityType DEF PruneSafe, Counted
    <3> QED BY <2>2, <2>5, <2>7, <2>12, <3>2, LatchedFinite DEF PruneSafe, Counted
  <2>14. Eligible(mid) => AllOver'
    <3> SUFFICES ASSUME Eligible(mid) PROVE AllOver'
      OBVIOUS
    <3>1. Cardinality(Reporting) \in Nat /\ Cardinality(Reporting) >= 1
      <4>1. w \in Reporting
        BY <1>0 DEF Reporting
      <4> QED BY <4>1, FS_CardinalityType, FS_EmptySet DEF PruneSafe, Counted
    <3>2. n = NPages
      BY <2>3 DEF Eligible
    <3>3. Cardinality(Latched) >= NPages
      BY <2>2, <3>1, <3>2, LatchedFinite, StoreConstants DEF PruneSafe, Counted
    <3>4. \A p \in Pages : AllSpentHere(recs[p])
      BY <3>3, LatchedMeansPages
    <3>5. AllSpentHere(new)
      BY <2>5 DEF Eligible, SameOutputs, AllSpentHere
    <3>6. \A r \in Recs : r = 0 \/ r \in Pages
      BY StoreConstants DEF Recs, Pages
    <3> QED BY <2>7, <3>4, <3>5, <3>6 DEF AllOver
  <2>15. new.deleteAtHeight # Nil => Expiring \/ AllOver'
    BY <1>0, <2>3, <2>5, <2>14 DEF Expiring
  <2>16. Expiring' => Expiring \/ AllOver'
    <3>1. CASE \E r \in Recs : recs'[r].deleteAtHeight # Nil
      BY <2>7, <2>15, <3>1 DEF Expiring
    <3>2. CASE \E x \in Workers : \E u \in todo'[x] : Stamping(u)
      BY <2>6, <2>8, <2>15, <3>2 DEF Expiring
    <3>3. CASE scanned' # {} \/ doomed' # {} \/ present' # Recs
      BY <1>0, <3>3 DEF Expiring
    <3> QED BY <3>1, <3>2, <3>3 DEF Expiring
  <2> QED BY <2>10, <2>11, <2>13, <2>16 DEF PruneSafe
<1> QED BY <1>1, <1>2

\* Every follow-up: only a verified or an already stamped transaction is stamped.
LEMMA FollowUpStep ==
  ASSUME PruneSafe, Inv', NEW w \in Workers, FollowUp(w)
  PROVE  PruneSafe'
<1> PICK t \in todo[w] :
      \/ DoIncrement(w, t) \/ DoClearMaster(w, t) \/ DoUnminedClear(w, t)
      \/ \E p \in Pages : DoVerify(w, t, p) \/ DoPageDAH(w, t, p) \/ DoPageLock(w, t, p)
  BY DEF FollowUp
<1> USE Facts, MasterFacts
<1>1. CASE DoIncrement(w, t)
  BY <1>1, IncrementStep
<1>2. CASE DoClearMaster(w, t)
  <2> DEFINE new == [recs[0] EXCEPT !.deleteAtHeight = Nil]
  <2>1. /\ recs' = [recs EXCEPT ![0] = new] \/ recs' = recs
        /\ Replace(w, t, {}) /\ UNCHANGED <<present, scanned, doomed>>
    BY <1>2 DEF DoClearMaster, Unchanging
  <2>2. /\ SameOutputs(recs[0], new) /\ new.spentExtraRecs = recs[0].spentExtraRecs
        /\ new.deleteAtHeight = Nil
    BY DEF Record, SameOutputs
  <2> HIDE DEF new
  <2>3. \A q \in Recs : /\ SameOutputs(recs[q], recs'[q])
                        /\ recs'[q].spentExtraRecs = recs[q].spentExtraRecs
                        /\ recs'[q].deleteAtHeight # Nil => Expiring
    BY <2>1, <2>2, WrittenQuietly
  <2> QED BY <2>1, <2>3, QuietFollowUp
<1>3. CASE DoUnminedClear(w, t)
  <2> DEFINE new == [recs[0] EXCEPT !.deleteAtHeight = Nil]
             S == IF t.pages = {} THEN {} ELSE {PageDAH(Nil, t.pages)}
  <2>1. \E T \in {{}, S} :
          /\ recs' = [recs EXCEPT ![0] = new] \/ recs' = recs
          /\ Replace(w, t, T)
    BY <1>3 DEF DoUnminedClear, Unchanging, Write, Master
  <2>2. t.kind = "unminedClear" /\ UNCHANGED <<present, scanned, doomed>>
    BY <1>3 DEF DoUnminedClear, Unchanging
  <2>3. \A u \in S : u.kind = "pageDAH" /\ ~Stamping(u)
    BY DEF PageDAH, Stamping
  <2>4. /\ SameOutputs(recs[0], new) /\ new.spentExtraRecs = recs[0].spentExtraRecs
        /\ new.deleteAtHeight = Nil
    BY DEF Record, SameOutputs
  <2> HIDE DEF new, S
  <2>5. \A q \in Recs : /\ SameOutputs(recs[q], recs'[q])
                        /\ recs'[q].spentExtraRecs = recs[q].spentExtraRecs
                        /\ recs'[q].deleteAtHeight # Nil => Expiring
    BY <2>1, <2>4, WrittenQuietly
  <2> QED BY <2>1, <2>2, <2>3, <2>5, QuietFollowUp
<1>4. ASSUME NEW p \in Pages, DoVerify(w, t, p) PROVE PruneSafe'
  <2> DEFINE S == IF p \notin present THEN {}
                  ELSE IF ~AllSpentHere(recs[p]) THEN {ClearMaster}
                  ELSE IF t.pages = {p} THEN {PageDAH(t.height + Retention, Pages)}
                  ELSE {Without(t, p)}
  <2>1. /\ recs' = recs /\ Replace(w, t, S) /\ t.kind = "verify"
        /\ UNCHANGED <<present, scanned, doomed>>
    BY <1>4 DEF DoVerify, Unchanging
  <2>2. Expiring
    BY <2>1 DEF Expiring, Stamping
  <2>3. t \in Task
    BY DEF Inv, TypeOK
  <2>4. Without(t, p).kind = "verify"
    BY <2>1, <2>3 DEF Without, Task
  <2>5. \A u \in S : u.kind # "increment"
    BY <2>4 DEF ClearMaster, PageDAH
  <2> HIDE DEF S
  <2>6. \A q \in Recs : /\ SameOutputs(recs[q], recs'[q])
                        /\ recs'[q].spentExtraRecs = recs[q].spentExtraRecs
    BY <2>1 DEF SameOutputs
  <2> QED BY <2>1, <2>2, <2>5, <2>6, QuietFollowUp
<1>5. ASSUME NEW p \in Pages, DoPageDAH(w, t, p) \/ DoPageLock(w, t, p) PROVE PruneSafe'
  <2> DEFINE new == IF t.kind = "pageDAH" THEN [recs[p] EXCEPT !.deleteAtHeight = t.n]
                    ELSE setLocked(recs[p], t.n = 1)
  <2>1. /\ t.kind \in {"pageDAH", "pageLock"}
        /\ recs' = [recs EXCEPT ![p] = new] \/ recs' = recs
        /\ Replace(w, t, Remaining(t, p)) /\ UNCHANGED <<present, scanned, doomed>>
    <3>1. CASE DoPageDAH(w, t, p)
      BY <3>1 DEF DoPageDAH, Unchanging
    <3>2. CASE DoPageLock(w, t, p)
      BY <3>2 DEF DoPageLock, Unchanging
    <3> QED BY <1>5, <3>1, <3>2
  <2>2. /\ SameOutputs(recs[p], new) /\ new.spentExtraRecs = recs[p].spentExtraRecs
        /\ new.deleteAtHeight # Nil => Expiring
    <3>1. recs[p] \in Record /\ p \in Recs
      OBVIOUS
    <3>2. CASE t.kind = "pageDAH"
      <4>1. t.n # Nil => Expiring
        BY <3>2 DEF Expiring, Stamping
      <4>2. new = [recs[p] EXCEPT !.deleteAtHeight = t.n]
        BY <3>2
      <4> QED BY <3>1, <4>1, <4>2 DEF Record, SameOutputs
    <3>3. CASE t.kind # "pageDAH"
      <4>1. recs[p].deleteAtHeight # Nil => Expiring
        BY <3>1 DEF Expiring
      <4>2. new = setLocked(recs[p], t.n = 1)
        BY <3>3
      <4> QED BY <3>1, <4>1, <4>2 DEF Record, SameOutputs, setLocked
    <3> QED BY <3>2, <3>3
  <2>3. \A u \in Remaining(t, p) : u.kind = t.kind /\ u.n = t.n
    <3>1. t \in Task
      BY DEF Inv, TypeOK
    <3>2. Without(t, p).kind = t.kind /\ Without(t, p).n = t.n
      BY <3>1 DEF Without, Task
    <3> QED BY <3>2 DEF Remaining
  <2>4. \A u \in Remaining(t, p) : u.kind # "increment" /\ (Stamping(u) => Expiring)
    BY <2>1, <2>3 DEF Stamping, Expiring
  <2> HIDE DEF new
  <2>5. \A q \in Recs : /\ SameOutputs(recs[q], recs'[q])
                        /\ recs'[q].spentExtraRecs = recs[q].spentExtraRecs
                        /\ recs'[q].deleteAtHeight # Nil => Expiring
    BY <2>1, <2>2, WrittenQuietly
  <2> QED BY <2>1, <2>4, <2>5, QuietFollowUp
<1> QED BY <1>1, <1>2, <1>3, <1>4, <1>5

\* A lost follow-up, a report among them, brings nothing closer to deletion.
LEMMA AbandonStep ==
  ASSUME PruneSafe, Inv', NEW w \in Workers, Abandon(w)
  PROVE  PruneSafe'
<1>1. PICK t \in todo[w] : Replace(w, t, {})
  BY DEF Abandon
<1>2. recs' = recs /\ UNCHANGED <<present, scanned, doomed>>
  BY DEF Abandon
<1>3. \A r \in Recs : /\ SameOutputs(recs[r], recs'[r])
                      /\ recs'[r].spentExtraRecs = recs[r].spentExtraRecs
                      /\ recs'[r].deleteAtHeight # Nil => Expiring
  BY <1>2 DEF SameOutputs, Expiring
<1> QED BY <1>1, <1>2, <1>3, QuietFollowUp

\* The pruner selects, judges and deletes only records that are expiring.
LEMMA PruneStep ==
  ASSUME PruneSafe, Inv', Prune \/ Tick
  PROVE  PruneSafe'
<1> USE Facts, MasterFacts
<1>0. ASSUME recs' = recs, Reports', Reporting' \subseteq Reporting, Expiring' => Expiring
      PROVE  PruneSafe'
  <2>1. \A r \in Recs : SameOutputs(recs[r], recs'[r])
    BY <1>0 DEF SameOutputs
  <2>2. Master'.spentExtraRecs = Master.spentExtraRecs
    BY <1>0 DEF Master
  <2> QED BY <1>0, <2>1, <2>2, QuietStep
<1>1. ASSUME recs' = recs, todo' = todo, Expiring' => Expiring PROVE PruneSafe'
  BY <1>0, <1>1 DEF Reports, Reporting, PruneSafe
<1>2. ASSUME NEW P \in SUBSET Pages, Idle(Pruner), Later(Pruner, {UnminedClear(P)}),
             recs' = recs, Expiring
      PROVE  PruneSafe'
  <2>1. {UnminedClear(P)} \in SUBSET Task /\ Pruner \in Workers
    BY TaskTypes DEF Workers
  <2>2. \A t \in {UnminedClear(P)} : t.kind # "increment"
    BY DEF UnminedClear
  <2>3. Reports' /\ Reporting' \subseteq Reporting
    BY <1>2, <2>1, <2>2, LaterReports
  <2> QED BY <1>0, <1>2, <2>3
<1>3. CASE PruneMaster
  <2>1. Expiring
    BY <1>3 DEF PruneMaster, Due, Expiring
  <2>2. CASE Protected(Master)
    BY <1>2, <1>3, <2>1, <2>2 DEF PruneMaster
  <2>3. CASE ~Protected(Master)
    BY <1>1, <1>3, <2>1, <2>3 DEF PruneMaster
  <2> QED BY <2>2, <2>3
<1>4. ASSUME NEW p \in Pages, PrunePage(p) PROVE PruneSafe'
  <2>1. Expiring
    BY <1>4 DEF PrunePage, Due, Expiring
  <2> QED BY <1>1, <1>4, <2>1 DEF PrunePage
<1>5. ASSUME NEW p \in Pages, JudgePage(p) PROVE PruneSafe'
  <2>1. Expiring
    BY <1>5 DEF JudgePage, Expiring
  <2>2. CASE 0 \in present /\ Protected(Master)
    BY <1>2, <1>5, <2>1, <2>2 DEF JudgePage
  <2>3. CASE ~(0 \in present /\ Protected(Master))
    BY <1>1, <1>5, <2>1, <2>3 DEF JudgePage
  <2> QED BY <2>2, <2>3
<1>6. ASSUME NEW r \in Recs, DeleteRecord(r) PROVE PruneSafe'
  <2>1. Expiring
    BY <1>6 DEF DeleteRecord, Expiring
  <2> QED BY <1>1, <1>6, <2>1 DEF DeleteRecord
<1>7. CASE Tick
  <2>1. Expiring' => Expiring
    BY <1>7 DEF Tick, Expiring
  <2> QED BY <1>1, <1>7, <2>1 DEF Tick
<1> QED BY <1>3, <1>4, <1>5, <1>6, <1>7 DEF Prune

-----------------------------------------------------------------------------
(***************************************************************************)
(* Theorems about deletion.                                                *)
(***************************************************************************)

\* A transaction with nothing to spend is stamped from the start, and is over.
LEMMA PruneInit ==
  ASSUME Settled, Init
  PROVE  PruneSafe
<1>1. Inv /\ 0 \in Recs
  BY InitInv, StoreConstants DEF Recs
<1>2. PICK cf \in CreatedConflicting, l \in CreatedLocked, B \in {{}} \cup {{b} : b \in Blocks} :
        recs = [r \in Recs |-> NewRecord(r, B, cf, l)]
  BY DEF Init
<1>3. cf = FALSE
  BY StoreConstants DEF Settled
<1>4. ASSUME NEW r \in Recs
      PROVE  /\ recs[r].conflicting = FALSE /\ recs[r].lastSpentState = FALSE
             /\ \A o \in Offsets : recs[r].spendableIn[o] = 0
             /\ recs[r].spentExtraRecs = 0 /\ recs[r].spentUtxos = 0
             /\ recs[r].recordUtxos = Cardinality(Outs[r])
             /\ recs[r].deleteAtHeight # Nil => NothingToSpend(B)
  <2>1. recs[r] = NewRecord(r, B, FALSE, l)
    BY <1>2, <1>3
  <2> QED BY <2>1 DEF NewRecord
<1>5. AllPlain
  <2>1. ASSUME NEW r \in Recs PROVE Plain(r, recs[r])
    <3>0. \A o \in Offsets : recs[r].spendableIn[o] = 0
      BY <1>4, Zenon
    <3>1. ~\E o \in Offsets : recs[r].spendableIn[o] > 0
      BY <3>0, SMT
    <3>2. recs[r].conflicting = FALSE /\ ~recs[r].lastSpentState
      BY <1>4
    <3> QED BY <3>1, <3>2 DEF Plain
  <2> QED BY <2>1 DEF AllPlain
<1>6. \A w \in Workers : todo[w] = {}
  BY DEF Init
<1>7. Reports /\ Reporting = {}
  BY <1>6 DEF Reports, Reporting
<1>8. Counted
  <2>1. Master.spentExtraRecs = 0
    BY <1>1, <1>4 DEF Master
  <2>2. IsFiniteSet({}) /\ Cardinality({}) = 0
    BY FS_EmptySet
  <2> QED BY <1>7, <2>1, <2>2, LatchedFinite DEF Counted
<1>9. Expiring => AllOver
  <2> SUFFICES ASSUME Expiring PROVE AllOver
    OBVIOUS
  <2>1. NothingToSpend(B)
    BY <1>4, <1>6 DEF Expiring, Init
  <2>2. \A r \in Recs : Cardinality(Outs[r]) = 0
    BY <2>1, FS_EmptySet DEF NothingToSpend
  <2> QED BY <1>4, <2>2 DEF AllOver, AllSpentHere
<1> QED BY <1>1, <1>5, <1>7, <1>8, <1>9 DEF PruneSafe

\* Every step preserves it.
LEMMA PruneNext ==
  ASSUME Settled, PruneSafe, [Next]_vars
  PROVE  PruneSafe'
<1>0. Inv'
  BY NextInv DEF PruneSafe
<1>1. ASSUME NEW c \in Callers, Call(c) PROVE PruneSafe'
  BY <1>0, <1>1, CallStep
<1>2. ASSUME NEW w \in Workers, FollowUp(w) PROVE PruneSafe'
  BY <1>0, <1>2, FollowUpStep
<1>3. ASSUME NEW w \in Workers, Abandon(w) PROVE PruneSafe'
  BY <1>0, <1>3, AbandonStep
<1>4. CASE Prune \/ Tick
  BY <1>0, <1>4, PruneStep
<1>5. CASE UNCHANGED vars
  <2>1. Reports' /\ Reporting' = Reporting /\ (Expiring' => Expiring)
    BY <1>5 DEF vars, PruneSafe, Reports, Reporting, Expiring
  <2>2. \A r \in Recs : SameOutputs(recs[r], recs'[r])
    BY <1>5 DEF vars, SameOutputs
  <2>3. Master'.spentExtraRecs = Master.spentExtraRecs
    BY <1>5 DEF vars, Master
  <2> QED BY <1>0, <2>1, <2>2, <2>3, QuietStep
<1> QED BY <1>1, <1>2, <1>3, <1>4, <1>5 DEF Next

\* The counting invariant holds in every reachable state.
LEMMA PruneInvariance ==
  ASSUME Settled
  PROVE  Spec => []PruneSafe
<1>1. Init => PruneSafe
  BY PruneInit
<1>2. PruneSafe /\ [Next]_vars => PruneSafe'
  BY PruneNext
<1> QED BY <1>1, <1>2, PTL DEF Spec

\* Without unspends and conflicts the pruner deletes no record of a transaction,
\* master or page, that still has an output to spend: for any number of pages and
\* callers, with follow-ups that are late, reordered or lost, and with mining,
\* unmining, freezing, locking and preserving between any two of the writes
\* (pruner_service.go, handleExtraRecords, incrementSpentExtraRecs).
THEOREM NoLivePruned ==
  ASSUME Settled
  PROVE  Spec => []NoLiveOutputPruned
<1>1. PruneSafe => NoLiveOutputPruned
  <2> SUFFICES ASSUME PruneSafe, NEW r \in Recs \ present PROVE Outs[r] \subseteq SpentSet(recs[r])
    BY DEF NoLiveOutputPruned
  <2>1. AllOver
    BY DEF PruneSafe, Expiring
  <2>2. Base(r, recs[r]) /\ AllSpentHere(recs[r])
    BY <2>1, Facts DEF PruneSafe, Good, AllOver
  <2> QED BY <2>2, AllSpentMeansSpent
<1> QED BY <1>1, PruneInvariance, PTL

\* Once an output of any record was reassigned the extra recordUtxos keeps that
\* record, and through the counter the whole transaction, from ever being
\* deleted ("Ensure record is not DAH'd when all UTXOs are spent").
THEOREM ReassignedKept ==
  ASSUME Settled
  PROVE  Spec => []ReassignedIsKept
<1>1. PruneSafe => ReassignedIsKept
  <2> SUFFICES ASSUME PruneSafe, NEW r \in Recs, Reassigned(r) PROVE present = Recs
    BY DEF ReassignedIsKept
  <2>1. Base(r, recs[r]) /\ recs[r].recordUtxos > Cardinality(Outs[r])
    BY Facts DEF PruneSafe, Good, AllPlain, Plain, Reassigned
  <2>2. SpentSet(recs[r]) \subseteq Outs[r]
    BY <2>1, SlotsDistinct DEF Base, SpentSet
  <2>3. Cardinality(SpentSet(recs[r])) <= Cardinality(Outs[r])
    BY <2>2, Finite, FS_Subset
  <2>4. ~AllSpentHere(recs[r])
    BY <2>1, <2>3, Finite DEF Base, AllSpentHere, Record
  <2> QED BY <2>4 DEF PruneSafe, AllOver, Expiring
<1> QED BY <1>1, PruneInvariance, PTL

-----------------------------------------------------------------------------
(***************************************************************************)
(* Page locks.                                                             *)
(***************************************************************************)

\* One caller, no lost follow-up, and no unmining.
OneCarefulCaller ==
  /\ \A c, d \in Callers : c = d
  /\ "fail" \notin Ops /\ "unmine" \notin Ops

\* A page that differs from its master has its lock on the way, and every page
\* lock on the way is the master's.
LocksArrive ==
  \A p \in Pages \cap present :
    \/ recs[p].locked = Master.locked
    \/ \E c \in Callers : \E t \in todo[c] : t.kind = "pageLock" /\ p \in t.pages

LocksAgree ==
  \A w \in Workers : \A t \in todo[w] :
    t.kind = "pageLock" => w \in Callers /\ (t.n = 1 <=> Master.locked)

LockSafe == Inv /\ LocksArrive /\ LocksAgree

\* No lock is written, none is started and none is lost.
LEMMA QuietLocks ==
  ASSUME LockSafe, Inv', \A r \in Recs : recs'[r].locked = recs[r].locked,
         present' \subseteq present,
         \A w \in Workers : \A t : t.kind = "pageLock" => (t \in todo'[w] <=> t \in todo[w])
  PROVE  LockSafe'
<1>1. 0 \in Recs /\ Pages \subseteq Recs /\ Callers \subseteq Workers
  BY Facts DEF LockSafe, Workers
<1>2. Master'.locked = Master.locked
  BY <1>1 DEF Master
<1>3. LocksArrive'
  <2> SUFFICES ASSUME NEW p \in Pages \cap present'
               PROVE  \/ recs'[p].locked = Master'.locked
                      \/ \E c \in Callers : \E t \in todo'[c] : t.kind = "pageLock" /\ p \in t.pages
    BY DEF LocksArrive
  <2>1. CASE recs[p].locked = Master.locked
    BY <1>1, <1>2, <2>1
  <2>2. CASE \E c \in Callers : \E t \in todo[c] : t.kind = "pageLock" /\ p \in t.pages
    BY <1>1, <2>2
  <2> QED BY <2>1, <2>2 DEF LockSafe, LocksArrive
<1>4. LocksAgree'
  BY <1>2 DEF LockSafe, LocksAgree
<1> QED BY <1>3, <1>4 DEF LockSafe

\* No follow-up but a lock of the pages is one.
LEMMA NoLockTasks ==
  ASSUME NEW h, NEW signal, NEW before, NEW after, NEW t,
         \/ t \in SpendFollowUps(h, signal) \/ t \in UnspendFollowUps(h, signal)
         \/ t \in CopyDAH(h, signal) \/ t \in IncrementFollowUps(h, signal)
         \/ t \in ChangeFollowUps(before, after)
  PROVE  t.kind # "pageLock"
<1>1. ASSUME NEW u \in CopyDAH(h, signal) PROVE u.kind = "pageDAH"
  <2>1. CASE signal = "DAHSET"
    BY <2>1 DEF CopyDAH, PageDAH
  <2>2. CASE signal = "DAHUNSET"
    BY <2>2 DEF CopyDAH, PageDAH
  <2>3. CASE signal \notin {"DAHSET", "DAHUNSET"}
    BY <2>3 DEF CopyDAH
  <2> QED BY <2>1, <2>2, <2>3
<1>2. ASSUME t \in SpendFollowUps(h, signal) PROVE t.kind # "pageLock"
  BY <1>1, <1>2 DEF SpendFollowUps, Increment
<1>3. ASSUME t \in UnspendFollowUps(h, signal) PROVE t.kind # "pageLock"
  BY <1>3 DEF UnspendFollowUps, Increment
<1>4. ASSUME t \in IncrementFollowUps(h, signal) PROVE t.kind # "pageLock"
  BY <1>1, <1>4 DEF IncrementFollowUps, Verify
<1>5. ASSUME t \in ChangeFollowUps(before, after) PROVE t.kind # "pageLock"
  BY <1>5 DEF ChangeFollowUps, PageDAH
<1> QED BY <1>1, <1>2, <1>3, <1>4, <1>5

\* Re-evaluating the DAH leaves the lock alone.
LEMMA RestampLock ==
  ASSUME NEW rec \in Record, NEW h
  PROVE  setDeleteAtHeight(rec, h, Retention).locked = rec.locked
<1>1. CASE Retention = 0 \/ rec.preserveUntil # Nil
  BY <1>1 DEF setDeleteAtHeight
<1>2. CASE ~(Retention = 0 \/ rec.preserveUntil # Nil)
  <2> setDeleteAtHeight(rec, h, Retention) = Restamped(rec, h, Retention)
    BY <1>2 DEF setDeleteAtHeight
  <2>1. CASE rec.conflicting
    BY <2>1 DEF Restamped, Record
  <2>2. CASE ~rec.conflicting /\ IsPage(rec)
    BY <2>2 DEF Restamped, Record
  <2>3. CASE ~rec.conflicting /\ ~IsPage(rec)
    BY <2>3 DEF Restamped, Record
  <2> QED BY <2>1, <2>2, <2>3
<1> QED BY <1>1, <1>2

\* A call that leaves the lock of its record alone.
LEMMA OtherCall ==
  ASSUME LockSafe, Inv', NEW c \in Callers, Idle(c), NEW r \in Recs, NEW new, Write(r, new),
         new.locked = recs[r].locked, NEW S, \A t \in S : t.kind # "pageLock",
         Later(c, S) \/ todo' = todo, present' = present
  PROVE  LockSafe'
<1>1. recs \in [Recs -> Record] /\ todo \in [Workers -> SUBSET Task] /\ c \in Workers
  BY DEF LockSafe, Inv, TypeOK, Workers
<1>2. \A q \in Recs : recs'[q].locked = recs[q].locked
  BY <1>1 DEF Write
<1>3. \A w \in Workers : \A t : t.kind = "pageLock" => (t \in todo'[w] <=> t \in todo[w])
  BY <1>1 DEF Later, Idle
<1> QED BY <1>2, <1>3, QuietLocks

\* A call that locks or unlocks: its caller, the only one, has no follow-up left,
\* so every page agreed with the master, and now every page is on the list.
LEMMA LockingCall ==
  ASSUME OneCarefulCaller, LockSafe, Inv', NEW c \in Callers, Idle(c), NEW new, Write(0, new),
         NEW v \in BOOLEAN, new.locked = v, NEW T, \A t \in T : t.kind # "pageLock",
         Later(c, T \cup (IF NPages > 0 THEN {PageLock(v)} ELSE {})), present' = present
  PROVE  LockSafe'
<1> DEFINE L == IF NPages > 0 THEN {PageLock(v)} ELSE {}
<1>1. /\ recs \in [Recs -> Record] /\ todo \in [Workers -> SUBSET Task] /\ c \in Workers
      /\ 0 \in Recs
  BY Facts DEF LockSafe, Inv, TypeOK, Workers
<1>2. Master'.locked = v
  BY <1>1 DEF Write, Master
<1>3. todo'[c] = T \cup L /\ \A w \in Workers \ {c} : todo'[w] = todo[w]
  BY <1>1 DEF Later, Idle
<1>4. \A t \in L : t.kind = "pageLock" /\ t.pages = Pages /\ (t.n = 1 <=> v)
  BY DEF PageLock
<1>5. Pages # {} => L # {}
  BY StoreConstants DEF Pages
<1> HIDE DEF L
<1>6. LocksAgree'
  <2>1. ASSUME NEW w \in Workers \ {c}, NEW t \in todo[w] PROVE t.kind # "pageLock"
    BY <2>1 DEF LockSafe, LocksAgree, OneCarefulCaller
  <2> QED BY <1>2, <1>3, <1>4, <2>1 DEF LocksAgree
<1>7. LocksArrive'
  BY <1>3, <1>4, <1>5 DEF LocksArrive
<1> QED BY <1>6, <1>7 DEF LockSafe

\* Every call of the one caller.
LEMMA CallLocks ==
  ASSUME OneCarefulCaller, LockSafe, Inv', NEW c \in Callers, Call(c)
  PROVE  LockSafe'
<1>0. Inv /\ Master = recs[0]
  BY DEF LockSafe, Master
<1> USE <1>0, Facts
<1> DEFINE none == {}
<1>none. \A t \in none : t.kind # "pageLock"
  OBVIOUS
<1> HIDE DEF none
<1>1. ASSUME NEW r \in Recs, NEW D \in SUBSET Offsets \ {{}}, NEW ic \in BOOLEAN,
             NEW il \in BOOLEAN, NEW spends \in [D -> Spenders], Spend(c, r, spends, ic, il)
      PROVE  LockSafe'
  <2> DEFINE h == height + 1
             U == [o \in Offsets |-> IF o \in Taken(recs[r], spends, h) THEN spends[o]
                                     ELSE recs[r].utxos[o]]
             n == recs[r].spentUtxos + Cardinality(Taken(recs[r], spends, h))
             mid == [recs[r] EXCEPT !.utxos = U, !.spentUtxos = n]
             new == setDeleteAtHeight(mid, h, Retention)
             S == SpendFollowUps(h, Signal(recs[r], new))
  <2>1. Write(r, new) /\ Later(c, S) /\ Idle(c) /\ present' = present
    BY <1>1 DEF Spend, Calls, spendMulti, Marked
  <2>2. \A t \in S : t.kind # "pageLock"
    BY NoLockTasks
  <2>3. mid \in Record
    <3>1. mid = Marked(recs[r], spends, h)
      BY DEF Marked
    <3> QED BY <3>1, MarkedBase DEF Good, Base
  <2>4. mid.locked = recs[r].locked
    <3> HIDE DEF U, n
    <3> QED BY DEF Record
  <2>5. new.locked = recs[r].locked
    BY <2>3, <2>4, RestampLock
  <2> HIDE DEF new, S
  <2> QED BY <2>1, <2>2, <2>5, OtherCall
<1>2. ASSUME NEW r \in Recs, NEW o \in Offsets, NEW s \in Spenders, Unspend(c, r, o, s)
      PROVE  LockSafe'
  <2> DEFINE mid == Cleared(recs[r], o, s)
             new == setDeleteAtHeight(mid, height, Retention)
             S == UnspendFollowUps(height, Signal(recs[r], new))
  <2>1. Write(r, new) /\ Later(c, S) /\ Idle(c) /\ present' = present
    BY <1>2 DEF Unspend, Calls, unspend
  <2>2. \A t \in S : t.kind # "pageLock"
    BY NoLockTasks
  <2>3. mid \in Record /\ mid.locked = recs[r].locked
    <3>1. recs[r] \in Record /\ recs[r].utxos \in [Offsets -> Slots] /\ recs[r].spentUtxos \in Int
      BY DEF Record
    <3>2. [recs[r].utxos EXCEPT ![o] = Unspent] \in [Offsets -> Slots] /\ recs[r].spentUtxos - 1 \in Int
      BY <3>1 DEF Slots
    <3>3. CASE recs[r].utxos[o] = s
      BY <3>1, <3>2, <3>3 DEF Cleared, Record
    <3>4. CASE recs[r].utxos[o] # s
      BY <3>1, <3>4 DEF Cleared
    <3> QED BY <3>3, <3>4
  <2> HIDE DEF mid
  <2>4. new.locked = recs[r].locked
    BY <2>3, RestampLock
  <2> HIDE DEF new, S
  <2> QED BY <2>1, <2>2, <2>4, OtherCall
<1>3. ASSUME NEW b \in Blocks, NEW l \in BOOLEAN, SetMined(c, b, l) PROVE LockSafe'
  <2> DEFINE mid == MinedBins(Master, Master.blockIDs \cup {b}, height + 1, l)
             new == setDeleteAtHeight(mid, BlockHeight[b], Retention)
             T == CopyDAH(BlockHeight[b], Signal(Master, new))
  <2>1. /\ Write(0, new) /\ Idle(c) /\ present' = present
        /\ Later(c, T \cup (IF NPages > 0 THEN {PageLock(FALSE)} ELSE {}))
    BY <1>3 DEF SetMined, Calls, setMined, MinedFollowUps
  <2>2. \A t \in T : t.kind # "pageLock"
    BY NoLockTasks
  <2>3. mid \in Record /\ mid.locked = FALSE
    <3> DEFINE blocks == Master.blockIDs \cup {b}
               since == IF blocks # {} THEN (IF l THEN Nil ELSE Master.unminedSince)
                        ELSE IF Master.unminedSince = Nil THEN height + 1 ELSE Master.unminedSince
    <3>1. blocks \in SUBSET Blocks /\ since \in OptHeight
      BY DEF Record, OptHeight
    <3>2. mid = [Master EXCEPT !.blockIDs = blocks, !.unminedSince = since,
                               !.locked = FALSE, !.creating = FALSE]
      BY DEF MinedBins
    <3> HIDE DEF mid, blocks, since
    <3> QED BY <3>1, <3>2 DEF Record
  <2> HIDE DEF mid
  <2>4. new.locked = FALSE
    BY <2>3, RestampLock
  <2> HIDE DEF new, T
  <2> QED BY <2>1, <2>2, <2>4, LockingCall
<1>4. ~\E b \in Blocks : UnsetMined(c, b)
  BY DEF OneCarefulCaller, UnsetMined, Calls
<1>5. CASE MarkOnLongestChain(c)
  <2>1. PICK h \in {height + 1} \cup {BlockHeight[b] : b \in Master.blockIDs} :
          LET after == setDeleteAtHeight([Master EXCEPT !.unminedSince = Nil], h, Retention)
          IN  Write(0, after) /\ Later(c, ChangeFollowUps(Master, after))
    BY <1>5 DEF MarkOnLongestChain
  <2> DEFINE mid == [Master EXCEPT !.unminedSince = Nil]
             new == setDeleteAtHeight(mid, h, Retention)
             S == ChangeFollowUps(Master, new)
  <2>2. Write(0, new) /\ Later(c, S) /\ Idle(c) /\ present' = present
    BY <1>5, <2>1 DEF MarkOnLongestChain, Calls
  <2>3. \A t \in S : t.kind # "pageLock"
    BY NoLockTasks
  <2>4. mid \in Record /\ mid.locked = recs[0].locked
    BY DEF Record, OptHeight
  <2> HIDE DEF mid
  <2>5. new.locked = recs[0].locked
    BY <2>4, RestampLock
  <2> HIDE DEF new, S
  <2> QED BY <2>2, <2>3, <2>5, OtherCall
<1>6. CASE MarkNotOnLongestChain(c)
  <2> DEFINE since == IF Master.unminedSince = Nil THEN BackdatedUnminedSince
                      ELSE Master.unminedSince
             new == [Master EXCEPT !.unminedSince = since]
  <2>1. Write(0, new) /\ todo' = todo /\ Idle(c) /\ present' = present
    BY <1>6 DEF MarkNotOnLongestChain, Calls
  <2> HIDE DEF since
  <2>2. new.locked = recs[0].locked
    BY DEF Record
  <2> HIDE DEF new
  <2> QED BY <1>none, <2>1, <2>2, OtherCall
<1>7. ASSUME NEW v \in BOOLEAN, SetConflicting(c, v) PROVE LockSafe'
  <2> DEFINE mid == [Master EXCEPT !.conflicting = v]
             new == setDeleteAtHeight(mid, height, Retention)
  <2>1. Write(0, new) /\ todo' = todo /\ Idle(c) /\ present' = present
    BY <1>7 DEF SetConflicting, Calls, setConflicting
  <2>2. mid \in Record /\ mid.locked = recs[0].locked
    BY DEF Record
  <2> HIDE DEF mid
  <2>3. new.locked = recs[0].locked
    BY <2>2, RestampLock
  <2> HIDE DEF new
  <2> QED BY <1>none, <2>1, <2>3, OtherCall
<1>8. ASSUME NEW v \in BOOLEAN, SetLocked(c, v) PROVE LockSafe'
  <2> DEFINE new == setLocked(Master, v)
  <2>1. /\ Write(0, new) /\ Idle(c) /\ present' = present
        /\ Later(c, none \cup (IF NPages > 0 THEN {PageLock(v)} ELSE {}))
    BY <1>8 DEF SetLocked, Calls, none
  <2>2. new.locked = v
    BY DEF setLocked, Record
  <2> HIDE DEF new
  <2> QED BY <1>none, <2>1, <2>2, LockingCall
<1>9. ASSUME NEW r \in Recs, NEW o \in Offsets,
             FreezeUTXO(c, r, o) \/ UnFreezeUTXO(c, r, o) \/ ReAssignUTXO(c, r, o)
      PROVE  LockSafe'
  <2>1. CASE FreezeUTXO(c, r, o)
    <3>1. freeze(recs[r], o).locked = recs[r].locked
      BY DEF freeze, Record
    <3> QED BY <1>none, <2>1, <3>1, OtherCall DEF FreezeUTXO, Calls
  <2>2. CASE UnFreezeUTXO(c, r, o)
    <3>1. unfreeze(recs[r], o).locked = recs[r].locked
      BY DEF unfreeze, Record
    <3> QED BY <1>none, <2>2, <3>1, OtherCall DEF UnFreezeUTXO, Calls
  <2>3. CASE ReAssignUTXO(c, r, o)
    <3>1. reassign(recs[r], o, height, SpendableAfter).locked = recs[r].locked
      BY DEF reassign, Record
    <3> QED BY <1>none, <2>3, <3>1, OtherCall DEF ReAssignUTXO, Calls
  <2> QED BY <1>9, <2>1, <2>2, <2>3
<1>10. ASSUME NEW until \in 1..MaxHeight, PreserveTransaction(c, until) PROVE LockSafe'
  <2> DEFINE new == preserveUntil(Master, until)
             S == IF NPages > 0 THEN {PageDAH(Nil, Pages)} ELSE {}
  <2>1. Write(0, new) /\ Later(c, S) /\ Idle(c) /\ present' = present
    BY <1>10 DEF PreserveTransaction, Calls
  <2>2. new.locked = recs[0].locked
    BY DEF preserveUntil, Record
  <2>3. \A t \in S : t.kind # "pageLock"
    BY DEF PageDAH
  <2> HIDE DEF new, S
  <2> QED BY <2>1, <2>2, <2>3, OtherCall
<1>11. CASE ProcessExpiredPreservation(c)
  <2> DEFINE mid == [Master EXCEPT !.preserveUntil = Nil]
             new == setDeleteAtHeight(mid, height, Retention)
             S == ChangeFollowUps(Master, new)
  <2>1. Write(0, new) /\ Later(c, S) /\ Idle(c) /\ present' = present
    BY <1>11 DEF ProcessExpiredPreservation, Calls
  <2>2. \A t \in S : t.kind # "pageLock"
    BY NoLockTasks
  <2>3. mid \in Record /\ mid.locked = recs[0].locked
    BY DEF Record, OptHeight
  <2> HIDE DEF mid
  <2>4. new.locked = recs[0].locked
    BY <2>3, RestampLock
  <2> HIDE DEF new, S
  <2> QED BY <2>1, <2>2, <2>4, OtherCall
<1>12. ASSUME NEW r \in Recs, NEW s \in Spenders, AddDeletedChildren(c, r, s) PROVE LockSafe'
  <2>1. addDeletedChildren(recs[r], {s}).locked = recs[r].locked
    BY DEF addDeletedChildren, Record
  <2> QED BY <1>none, <1>12, <2>1, OtherCall DEF AddDeletedChildren, Calls
<1> QED BY <1>1, <1>2, <1>3, <1>4, <1>5, <1>6, <1>7, <1>8, <1>9, <1>10, <1>11, <1>12 DEF Call

\* A follow-up that is no lock of the pages.
LEMMA OtherFollowUp ==
  ASSUME LockSafe, Inv', NEW w \in Workers, NEW t \in todo[w], t.kind # "pageLock",
         NEW S, Replace(w, t, S), \A u \in S : u.kind # "pageLock", present' = present,
         \/ recs' = recs
         \/ \E r \in Recs : \E new : new.locked = recs[r].locked /\ recs' = [recs EXCEPT ![r] = new]
  PROVE  LockSafe'
<1>1. recs \in [Recs -> Record] /\ todo \in [Workers -> SUBSET Task]
  BY DEF LockSafe, Inv, TypeOK
<1>2. \A q \in Recs : recs'[q].locked = recs[q].locked
  BY <1>1
<1>3. \A x \in Workers : \A u : u.kind = "pageLock" => (u \in todo'[x] <=> u \in todo[x])
  BY <1>1 DEF Replace
<1> QED BY <1>2, <1>3, QuietLocks

\* One page gets its lock and the batch goes on with the others.
LEMMA PageLockStep ==
  ASSUME LockSafe, Inv', NEW w \in Workers, NEW t \in todo[w], NEW p \in Pages,
         DoPageLock(w, t, p)
  PROVE  LockSafe'
<1>0. /\ recs \in [Recs -> Record] /\ todo \in [Workers -> SUBSET Task] /\ t \in Task
      /\ 0 \in Recs /\ p \in Recs /\ p # 0 /\ Pages \subseteq Recs
  BY Facts DEF LockSafe, Inv, TypeOK
<1>1. /\ t.kind = "pageLock" /\ p \in t.pages /\ present' = present
      /\ recs' = IF p \in present THEN [recs EXCEPT ![p] = setLocked(@, t.n = 1)] ELSE recs
      /\ Replace(w, t, Remaining(t, p))
  BY DEF DoPageLock, Unchanging
<1>2. w \in Callers /\ (t.n = 1 <=> Master.locked)
  BY <1>1 DEF LockSafe, LocksAgree
<1>3. Master.locked \in BOOLEAN /\ Master' = Master
  BY <1>0, <1>1 DEF Master, Record
<1>4. p \in present => recs'[p].locked = Master.locked
  <2>1. setLocked(recs[p], t.n = 1).locked = (t.n = 1)
    BY <1>0 DEF setLocked, Record
  <2> QED BY <1>0, <1>1, <1>2, <1>3, <2>1
<1>5. \A q \in Recs \ {p} : recs'[q] = recs[q]
  BY <1>0, <1>1
<1>6. todo'[w] = (todo[w] \ {t}) \cup Remaining(t, p) /\ \A x \in Workers \ {w} : todo'[x] = todo[x]
  BY <1>0, <1>1 DEF Replace
<1>7. Without(t, p).kind = t.kind /\ Without(t, p).n = t.n /\ Without(t, p).pages = t.pages \ {p}
  BY <1>0 DEF Without, Task
<1>8. \A u \in Remaining(t, p) : u.kind = "pageLock" /\ u.n = t.n
  BY <1>1, <1>7 DEF Remaining
<1>9. LocksAgree'
  BY <1>2, <1>3, <1>6, <1>8 DEF LockSafe, LocksAgree
<1>10. LocksArrive'
  <2> SUFFICES ASSUME NEW q \in Pages \cap present', q # p, recs[q].locked # Master.locked
               PROVE  \E c \in Callers : \E u \in todo'[c] : u.kind = "pageLock" /\ q \in u.pages
    BY <1>0, <1>1, <1>3, <1>4, <1>5 DEF LocksArrive
  <2>0. PICK c \in Callers : \E u \in todo[c] : u.kind = "pageLock" /\ q \in u.pages
    BY <1>1 DEF LockSafe, LocksArrive
  <2>1. PICK u \in todo[c] : u.kind = "pageLock" /\ q \in u.pages
    BY <2>0
  <2>2. c \in Workers
    BY DEF Workers
  <2>3. CASE c = w /\ u = t
    <3>1. Remaining(t, p) = {Without(t, p)} /\ q \in Without(t, p).pages
      BY <1>7, <2>1, <2>3 DEF Remaining
    <3>2. Without(t, p) \in todo'[w]
      BY <1>6, <3>1
    <3> QED BY <1>1, <1>2, <1>7, <3>1, <3>2
  <2>4. CASE ~(c = w /\ u = t)
    BY <1>6, <2>1, <2>2, <2>4
  <2> QED BY <2>3, <2>4
<1> QED BY <1>9, <1>10 DEF LockSafe

\* Every follow-up.
LEMMA FollowUpLocks ==
  ASSUME LockSafe, Inv', NEW w \in Workers, FollowUp(w)
  PROVE  LockSafe'
<1> PICK t \in todo[w] :
      \/ DoIncrement(w, t) \/ DoClearMaster(w, t) \/ DoUnminedClear(w, t)
      \/ \E p \in Pages : DoVerify(w, t, p) \/ DoPageDAH(w, t, p) \/ DoPageLock(w, t, p)
  BY DEF FollowUp
<1>0. Inv /\ Master = recs[0]
  BY DEF LockSafe, Master
<1> USE <1>0, Facts
<1>t. t \in Task
  BY DEF Inv, TypeOK
<1>none. \A u \in {} : u.kind # "pageLock"
  OBVIOUS
<1>1. CASE DoIncrement(w, t)
  <2> DEFINE n == Clamp(Master.spentExtraRecs + t.n, Master.totalExtraRecs)
             mid == [Master EXCEPT !.spentExtraRecs = n]
             new == setDeleteAtHeight(mid, t.height, Retention)
             S == IncrementFollowUps(t.height, Signal(Master, new))
  <2>1. /\ t.kind # "pageLock" /\ present' = present
        /\ \/ recs' = [recs EXCEPT ![0] = new] /\ Replace(w, t, S)
           \/ recs' = recs /\ Replace(w, t, {})
    BY <1>1 DEF DoIncrement, Write, incrementSpentExtraRecs, Unchanging
  <2>2. \A u \in S : u.kind # "pageLock"
    BY NoLockTasks
  <2>3. n \in Int
    <3>1. Master.spentExtraRecs \in Int /\ t.n \in Int /\ Master.totalExtraRecs \in Int
      BY <1>t DEF Record, OptHeight, Nil, Task
    <3> QED BY <3>1 DEF Clamp
  <2> HIDE DEF n
  <2>4. mid \in Record /\ mid.locked = recs[0].locked
    BY <2>3 DEF Record
  <2> HIDE DEF mid
  <2>5. new.locked = recs[0].locked
    BY <2>4, RestampLock
  <2> HIDE DEF new, S
  <2> QED BY <1>none, <2>1, <2>2, <2>5, OtherFollowUp
<1>2. CASE DoClearMaster(w, t)
  <2> DEFINE new == [recs[0] EXCEPT !.deleteAtHeight = Nil]
  <2>1. /\ t.kind # "pageLock" /\ present' = present /\ Replace(w, t, {})
        /\ recs' = [recs EXCEPT ![0] = new] \/ recs' = recs
    BY <1>2 DEF DoClearMaster, Unchanging
  <2>2. new.locked = recs[0].locked
    BY DEF Record
  <2> HIDE DEF new
  <2> QED BY <1>none, <2>1, <2>2, OtherFollowUp
<1>3. CASE DoUnminedClear(w, t)
  <2> DEFINE new == [recs[0] EXCEPT !.deleteAtHeight = Nil]
             S == IF t.pages = {} THEN {} ELSE {PageDAH(Nil, t.pages)}
  <2>1. /\ t.kind # "pageLock" /\ present' = present
        /\ \/ recs' = [recs EXCEPT ![0] = new] /\ Replace(w, t, S)
           \/ recs' = recs /\ Replace(w, t, {})
    BY <1>3 DEF DoUnminedClear, Unchanging, Write
  <2>2. new.locked = recs[0].locked
    BY DEF Record
  <2>3. \A u \in S : u.kind # "pageLock"
    BY DEF PageDAH
  <2> HIDE DEF new, S
  <2> QED BY <1>none, <2>1, <2>2, <2>3, OtherFollowUp
<1>4. ASSUME NEW p \in Pages, DoVerify(w, t, p) PROVE LockSafe'
  <2> DEFINE S == IF p \notin present THEN {}
                  ELSE IF ~AllSpentHere(recs[p]) THEN {ClearMaster}
                  ELSE IF t.pages = {p} THEN {PageDAH(t.height + Retention, Pages)}
                  ELSE {Without(t, p)}
  <2>1. t.kind = "verify" /\ present' = present /\ recs' = recs /\ Replace(w, t, S)
    BY <1>4 DEF DoVerify, Unchanging
  <2>2. Without(t, p).kind = "verify"
    BY <1>t, <2>1 DEF Without, Task
  <2>3. \A u \in S : u.kind # "pageLock"
    BY <2>2 DEF ClearMaster, PageDAH
  <2> HIDE DEF S
  <2> QED BY <2>1, <2>3, OtherFollowUp
<1>5. ASSUME NEW p \in Pages, DoPageDAH(w, t, p) PROVE LockSafe'
  <2> DEFINE new == [recs[p] EXCEPT !.deleteAtHeight = t.n]
  <2>1. /\ t.kind = "pageDAH" /\ present' = present /\ Replace(w, t, Remaining(t, p))
        /\ recs' = [recs EXCEPT ![p] = new] \/ recs' = recs
    BY <1>5 DEF DoPageDAH, Unchanging
  <2>2. new.locked = recs[p].locked /\ p \in Recs
    BY DEF Record
  <2>3. \A u \in Remaining(t, p) : u.kind # "pageLock"
    <3>1. Without(t, p).kind = "pageDAH"
      BY <1>t, <2>1 DEF Without, Task
    <3> QED BY <3>1 DEF Remaining
  <2> HIDE DEF new
  <2> QED BY <2>1, <2>2, <2>3, OtherFollowUp
<1>6. ASSUME NEW p \in Pages, DoPageLock(w, t, p) PROVE LockSafe'
  BY <1>6, PageLockStep
<1> QED BY <1>1, <1>2, <1>3, <1>4, <1>5, <1>6

\* The pruner writes no record; its follow-ups are no locks.
LEMMA PruneLocks ==
  ASSUME LockSafe, Inv', Prune \/ Tick
  PROVE  LockSafe'
<1>1. recs' = recs /\ present' \subseteq present
  BY DEF Prune, PruneMaster, PrunePage, JudgePage, DeleteRecord, Tick
<1>2. todo \in [Workers -> SUBSET Task] /\ Pruner \in Workers
  BY DEF LockSafe, Inv, TypeOK, Workers
<1>3. \/ todo' = todo
      \/ \E P : Later(Pruner, {UnminedClear(P)})
  BY DEF Prune, PruneMaster, PrunePage, JudgePage, DeleteRecord, Tick
<1>4. \A P : UnminedClear(P).kind = "unminedClear"
  BY DEF UnminedClear
<1>5. \A w \in Workers : \A t : t.kind = "pageLock" => (t \in todo'[w] <=> t \in todo[w])
  BY <1>2, <1>3, <1>4 DEF Later
<1> QED BY <1>1, <1>5, QuietLocks

\* At creation the master and its pages have the same lock.
LEMMA LockInit ==
  ASSUME Init
  PROVE  LockSafe
<1>1. PICK cf \in CreatedConflicting, l \in CreatedLocked, B \in {{}} \cup {{b} : b \in Blocks} :
        recs = [r \in Recs |-> NewRecord(r, B, cf, l)]
  BY DEF Init
<1>2. Inv /\ 0 \in Recs /\ Pages \subseteq Recs
  BY InitInv, Facts
<1>3. ASSUME NEW r \in Recs PROVE recs[r].locked = l
  <2>1. recs[r] = NewRecord(r, B, cf, l)
    BY <1>1
  <2> QED BY <2>1 DEF NewRecord
<1>4. LocksArrive
  BY <1>2, <1>3 DEF LocksArrive, Master
<1>5. LocksAgree
  BY DEF Init, LocksAgree
<1> QED BY <1>2, <1>4, <1>5 DEF LockSafe

\* With one caller at a time that loses no follow-up, the pages are locked exactly
\* when the master is, whenever that caller and the pruner have nothing left to do
\* (SetLocked and the page unlock of SetMinedMulti).
THEOREM PageLocksSafe ==
  ASSUME OneCarefulCaller
  PROVE  Spec => []PageLocksFollowMaster
<1>1. Init => LockSafe
  BY LockInit
<1>2. LockSafe /\ [Next]_vars => LockSafe'
  <2> SUFFICES ASSUME LockSafe, [Next]_vars PROVE LockSafe'
    OBVIOUS
  <2>0. Inv'
    BY NextInv DEF LockSafe
  <2>1. ASSUME NEW c \in Callers, Call(c) PROVE LockSafe'
    BY <2>0, <2>1, CallLocks
  <2>2. ASSUME NEW w \in Workers, FollowUp(w) PROVE LockSafe'
    BY <2>0, <2>2, FollowUpLocks
  <2>3. ~\E w \in Workers : Abandon(w)
    BY DEF Abandon, OneCarefulCaller
  <2>4. CASE Prune \/ Tick
    BY <2>0, <2>4, PruneLocks
  <2>5. CASE UNCHANGED vars
    BY <2>0, <2>5, QuietLocks DEF vars
  <2> QED BY <2>1, <2>2, <2>3, <2>4, <2>5 DEF Next
<1>3. LockSafe => PageLocksFollowMaster
  <2> SUFFICES ASSUME LockSafe, AllIdle, NEW p \in Pages \cap present
               PROVE  recs[p].locked = Master.locked
    BY DEF PageLocksFollowMaster
  <2>1. \A c \in Callers : todo[c] = {}
    BY DEF AllIdle, Idle, Workers
  <2> QED BY <2>1 DEF LockSafe, LocksArrive
<1> QED BY <1>1, <1>2, <1>3, PTL DEF Spec

=============================================================================
