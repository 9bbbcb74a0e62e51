-------------------------- MODULE UtxoLedger_proofs --------------------------
(***************************************************************************)
(* The Aerospike store implements the ledger: for any number of pages,     *)
(* outputs, spenders, blocks, callers and heights, every step of UtxoStore *)
(* is a step of UtxoLedger or leaves its outputs and claims alone.         *)
(***************************************************************************)
EXTENDS UtxoStore_proofs

Outputs == Recs \X Offsets
SlotOf(rs) == [x \in Outputs |-> rs[x[1]].utxos[x[2]]]
ClaimsOf(as) == {<<<<a[1], a[2]>>, a[3]>> : a \in as}

-----------------------------------------------------------------------------
\* A step that writes no output and acknowledges nothing is a stutter.
LEMMA Stutters ==
  ASSUME \A r \in Recs : recs'[r].utxos = recs[r].utxos, acked' = acked
  PROVE  UNCHANGED Ledger!ledger
BY DEF Ledger!ledger

\* A write to one record that keeps its outputs is a stutter.
LEMMA WriteStutters ==
  ASSUME Inv, NEW r \in Recs, NEW new, new.utxos = recs[r].utxos,
         recs' = [recs EXCEPT ![r] = new], acked' = acked
  PROVE  UNCHANGED Ledger!ledger
<1> \A q \in Recs : recs'[q].utxos = recs[q].utxos
  BY DEF Inv, TypeOK
<1> QED BY Stutters

\* spendMulti leaves every output alone but the free ones it takes.
LEMMA SpendOutputs ==
  ASSUME NEW r \in Recs, NEW rec, Good(r, rec), NEW h \in Nat,
         NEW D \in SUBSET Offsets, NEW spends \in [D -> Spenders]
  PROVE  spendMulti(rec, spends, h, Retention).utxos
           = [o \in Offsets |-> IF o \in Taken(rec, spends, h) THEN spends[o] ELSE rec.utxos[o]]
<1> DEFINE mid == Marked(rec, spends, h)
<1>1. Base(r, mid) /\ Base(r, rec)
  BY MarkedBase DEF Good
<1>2. mid \in Record /\ rec \in Record
  BY <1>1 DEF Base
<1>3. mid.utxos = [o \in Offsets |-> IF o \in Taken(rec, spends, h) THEN spends[o] ELSE rec.utxos[o]]
  BY <1>2 DEF Marked, Record
<1> HIDE DEF mid
<1>4. setDeleteAtHeight(mid, h, Retention).utxos = mid.utxos
  BY <1>2, RestampFrame
<1> QED BY <1>3, <1>4 DEF spendMulti, mid

\* A spend claims, for the spenders it names, the free outputs it takes, and
\* acknowledges those and the ones its spenders owned already.
LEMMA SpendClaims ==
  ASSUME Inv, NEW c \in Callers, NEW r \in Recs, NEW D \in SUBSET Offsets,
         NEW spends \in [D -> Spenders], NEW ic \in BOOLEAN, NEW il \in BOOLEAN,
         Spend(c, r, spends, ic, il)
  PROVE  Ledger!Next
<1> DEFINE h == height + 1
           new == spendMulti(recs[r], spends, h, Retention)
           T == Taken(recs[r], spends, h)
           A == {o \in D : Acknowledges(recs[r], o, spends[o], h)}
           W == {r} \X D
           wanted == [x \in W |-> spends[x[2]]]
           took == {r} \X T
           told == {r} \X A
<1>0. h \in Nat /\ Good(r, recs[r]) /\ recs \in [Recs -> Record] /\ DOMAIN spends = D
  BY Facts DEF Inv, TypeOK
<1>1. recs' = [recs EXCEPT ![r] = new]
      /\ acked' = acked \cup {<<r, o, spends[o]>> : o \in A}
  BY <1>0 DEF Spend, Write
<1>2. new.utxos = [o \in Offsets |-> IF o \in T THEN spends[o] ELSE recs[r].utxos[o]]
  BY <1>0, SpendOutputs
<1>3. T \subseteq A /\ A \subseteq D /\ \A o \in T : recs[r].utxos[o] = Unspent
  BY <1>0 DEF Taken, Takes, Acknowledges
<1>4. \A o \in A : new.utxos[o] = spends[o]
  BY <1>0, SpendGood
<1> HIDE DEF new, T, A, h
<1>5. \A q \in Recs, o \in Offsets :
        recs'[q].utxos[o] = IF q = r /\ o \in T THEN spends[o] ELSE recs[q].utxos[o]
  BY <1>0, <1>1, <1>2
<1>6. W \in SUBSET (Recs \X Offsets) /\ wanted \in [W -> Spenders]
      /\ took \in SUBSET W /\ told \in SUBSET W
  BY <1>3
<1>7. /\ took \subseteq {x \in DOMAIN wanted : SlotOf(recs)[x] = Unspent}
      /\ told \subseteq DOMAIN wanted /\ took \subseteq told
      /\ SlotOf(recs') = [x \in Outputs |-> IF x \in took THEN wanted[x] ELSE SlotOf(recs)[x]]
      /\ \A x \in told : SlotOf(recs')[x] = wanted[x]
      /\ ClaimsOf(acked') = ClaimsOf(acked) \cup {<<x, wanted[x]>> : x \in told}
  <2>1. took \subseteq {x \in DOMAIN wanted : SlotOf(recs)[x] = Unspent}
    BY <1>3 DEF SlotOf, Outputs
  <2>2. told \subseteq DOMAIN wanted /\ took \subseteq told
    BY <1>3
  <2>3. SlotOf(recs') = [x \in Outputs |-> IF x \in took THEN wanted[x] ELSE SlotOf(recs)[x]]
    <3>1. ASSUME NEW x \in Outputs
          PROVE  recs'[x[1]].utxos[x[2]] = IF x \in took THEN wanted[x] ELSE recs[x[1]].utxos[x[2]]
      <4>1. x[1] \in Recs /\ x[2] \in Offsets /\ x = <<x[1], x[2]>>
        BY DEF Outputs
      <4>2. x \in took <=> x[1] = r /\ x[2] \in T
        BY <4>1
      <4>3. x \in took => wanted[x] = spends[x[2]]
        BY <1>3, <4>1, <4>2
      <4> QED BY <1>5, <4>1, <4>2, <4>3
    <3> QED BY <3>1 DEF SlotOf
  <2>4. \A x \in told : SlotOf(recs')[x] = wanted[x]
    <3>1. ASSUME NEW o \in A
          PROVE  recs'[r].utxos[o] = spends[o] /\ <<r, o>> \in Outputs /\ wanted[<<r, o>>] = spends[o]
      BY <1>0, <1>1, <1>3, <1>4 DEF Outputs
    <3>2. ASSUME NEW x \in told PROVE SlotOf(recs')[x] = wanted[x]
      <4>1. PICK o \in A : x = <<r, o>>
        OBVIOUS
      <4> QED BY <3>1, <4>1 DEF SlotOf
    <3> QED BY <3>2
  <2>5. ClaimsOf(acked') = ClaimsOf(acked) \cup {<<x, wanted[x]>> : x \in told}
    <3>1. \A o \in A : <<r, o>> \in told /\ wanted[<<r, o>>] = spends[o]
      BY <1>3
    <3>2. \A x \in told : \E o \in A : x = <<r, o>>
      OBVIOUS
    <3> HIDE DEF wanted, told
    <3>3. ASSUME NEW y \in ClaimsOf(acked')
          PROVE  y \in ClaimsOf(acked) \cup {<<x, wanted[x]>> : x \in told}
      <4>1. PICK a \in acked' : y = <<<<a[1], a[2]>>, a[3]>>
        BY DEF ClaimsOf
      <4>2. CASE a \in acked
        BY <4>1, <4>2 DEF ClaimsOf
      <4>3. CASE a \notin acked
        <5>1. PICK o \in A : a = <<r, o, spends[o]>>
          BY <1>1, <4>3
        <5>2. y = <<<<r, o>>, wanted[<<r, o>>]>>
          BY <3>1, <4>1, <5>1
        <5> QED BY <3>1, <5>2
      <4> QED BY <4>2, <4>3
    <3>4. ASSUME NEW y \in ClaimsOf(acked) PROVE y \in ClaimsOf(acked')
      BY <1>1 DEF ClaimsOf
    <3>5. ASSUME NEW x \in told PROVE <<x, wanted[x]>> \in ClaimsOf(acked')
      <4>1. PICK o \in A : x = <<r, o>>
        BY <3>2
      <4>2. <<r, o, spends[o]>> \in acked'
        BY <1>1
      <4>3. <<x, wanted[x]>> = <<<<r, o>>, spends[o]>>
        BY <3>1, <4>1
      <4> QED BY <4>2, <4>3 DEF ClaimsOf
    <3> QED BY <3>3, <3>4, <3>5
  <2> QED BY <2>1, <2>2, <2>3, <2>4, <2>5
<1> HIDE DEF W, wanted, took, told
<1>8. \E X \in SUBSET (Recs \X Offsets) : \E w \in [X -> Spenders] :
        \E tk, td \in SUBSET X :
          /\ tk \subseteq {x \in DOMAIN w : SlotOf(recs)[x] = Unspent}
          /\ td \subseteq DOMAIN w /\ tk \subseteq td
          /\ SlotOf(recs') = [x \in Outputs |-> IF x \in tk THEN w[x] ELSE SlotOf(recs)[x]]
          /\ \A x \in td : SlotOf(recs')[x] = w[x]
          /\ ClaimsOf(acked') = ClaimsOf(acked) \cup {<<x, w[x]>> : x \in td}
  BY <1>6, <1>7
<1> QED BY <1>8 DEF Ledger!Next, Ledger!Claim, SlotOf, ClaimsOf, Outputs

\* A step on one output of one record.
LEMMA OneOutput ==
  ASSUME NEW r \in Recs, NEW o \in Offsets,
         \A q \in Recs, y \in Offsets :
           q # r \/ y # o => recs'[q].utxos[y] = recs[q].utxos[y]
  PROVE  SlotOf(recs') = [SlotOf(recs) EXCEPT ![<<r, o>>] = recs'[r].utxos[o]]
<1>1. ASSUME NEW z \in Outputs
      PROVE  recs'[z[1]].utxos[z[2]]
               = IF z = <<r, o>> THEN recs'[r].utxos[o] ELSE recs[z[1]].utxos[z[2]]
  BY DEF Outputs
<1> QED BY <1>1 DEF SlotOf

\* An unspend releases the output of the spender that asks, or does nothing.
LEMMA UnspendReleases ==
  ASSUME Inv, NEW c \in Callers, NEW r \in Recs, NEW o \in Offsets, NEW s \in Spenders,
         Unspend(c, r, o, s)
  PROVE  Ledger!Next \/ UNCHANGED Ledger!ledger
<1> DEFINE mid == Cleared(recs[r], o, s)
           new == unspend(recs[r], o, s, height, Retention)
<1>0. /\ height \in Nat /\ recs[r] \in Record /\ recs[r].utxos \in [Offsets -> Slots]
      /\ recs[r].spentUtxos \in Int
  BY Facts DEF Record
<1>1. recs' = [recs EXCEPT ![r] = new] /\ acked' = acked \ {<<r, o, s>>}
  BY DEF Unspend, Write
<1>2. CASE recs[r].utxos[o] = s
  <2> DEFINE U == [recs[r].utxos EXCEPT ![o] = Unspent]
  <2>1. U \in [Offsets -> Slots] /\ recs[r].spentUtxos - 1 \in Int
    BY <1>0 DEF Slots
  <2>2. mid = [recs[r] EXCEPT !.utxos = U, !.spentUtxos = @ - 1]
    BY <1>2 DEF Cleared
  <2> HIDE DEF U
  <2>3. mid \in Record /\ mid.utxos = U
    BY <1>0, <2>1, <2>2 DEF Record
  <2> HIDE DEF mid
  <2>4. new.utxos = U
    BY <1>0, <2>3, RestampFrame DEF unspend, mid
  <2> HIDE DEF new
  <2>5. SlotOf(recs') = [SlotOf(recs) EXCEPT ![<<r, o>>] = Unspent]
    <3>1. /\ recs'[r].utxos[o] = Unspent
          /\ \A q \in Recs, y \in Offsets :
               q # r \/ y # o => recs'[q].utxos[y] = recs[q].utxos[y]
      BY <1>0, <1>1, <2>4 DEF U, Inv, TypeOK
    <3> QED BY <3>1, OneOutput
  <2>6. ClaimsOf(acked') = ClaimsOf(acked) \ {<<<<r, o>>, s>>}
    <3>1. \A a \in acked : a = <<a[1], a[2], a[3]>>
      BY DEF Inv, TypeOK
    <3> QED BY <1>1, <3>1 DEF ClaimsOf
  <2>7. SlotOf(recs)[<<r, o>>] = s /\ <<r, o>> \in Outputs
    BY <1>2 DEF SlotOf, Outputs
  <2>8. \E x \in Outputs, t \in Spenders :
          /\ SlotOf(recs)[x] = t
          /\ SlotOf(recs') = [SlotOf(recs) EXCEPT ![x] = Unspent]
          /\ ClaimsOf(acked') = ClaimsOf(acked) \ {<<x, t>>}
    BY <2>5, <2>6, <2>7
  <2> QED BY <2>8 DEF Ledger!Next, Ledger!Release, SlotOf, ClaimsOf, Outputs
<1>3. CASE recs[r].utxos[o] # s
  <2>1. mid = recs[r]
    BY <1>3 DEF Cleared
  <2>2. new.utxos = recs[r].utxos
    BY <1>0, <2>1, RestampFrame DEF unspend
  <2>3. acked' = acked
    BY <1>1, <1>3 DEF Inv, AckedSpendStands
  <2> HIDE DEF new
  <2> QED BY <1>1, <2>2, <2>3, WriteStutters
<1> QED BY <1>2, <1>3

\* The alert system's calls freeze a free output or thaw a frozen one.
LEMMA AlertFreezes ==
  ASSUME Inv, NEW c \in Callers, NEW r \in Recs, NEW o \in Offsets,
         FreezeUTXO(c, r, o) \/ UnFreezeUTXO(c, r, o) \/ ReAssignUTXO(c, r, o)
  PROVE  Ledger!Next
<1>0. recs[r] \in Record /\ acked' = acked /\ <<r, o>> \in Outputs
      /\ SlotOf(recs)[<<r, o>>] = recs[r].utxos[o]
  BY Facts DEF FreezeUTXO, UnFreezeUTXO, ReAssignUTXO, Outputs, SlotOf
<1>1. CASE FreezeUTXO(c, r, o)
  <2> DEFINE new == freeze(recs[r], o)
  <2>1. recs' = [recs EXCEPT ![r] = new] /\ recs[r].utxos[o] = Unspent
    BY <1>1 DEF FreezeUTXO, Write, CanFreeze
  <2>2. new.utxos = [recs[r].utxos EXCEPT ![o] = Frozen]
    BY <1>0 DEF freeze, Record
  <2> HIDE DEF new
  <2>3. SlotOf(recs') = [SlotOf(recs) EXCEPT ![<<r, o>>] = Frozen]
    <3>1. /\ recs'[r].utxos[o] = Frozen
          /\ \A q \in Recs, y \in Offsets :
               q # r \/ y # o => recs'[q].utxos[y] = recs[q].utxos[y]
      BY <1>0, <2>1, <2>2 DEF Inv, TypeOK, Record
    <3> QED BY <3>1, OneOutput
  <2>4. \E x \in Outputs : /\ SlotOf(recs)[x] = Unspent
                            /\ SlotOf(recs') = [SlotOf(recs) EXCEPT ![x] = Frozen]
                            /\ ClaimsOf(acked') = ClaimsOf(acked)
    BY <1>0, <2>1, <2>3
  <2> QED BY <2>4 DEF Ledger!Next, Ledger!Freeze, SlotOf, ClaimsOf, Outputs
<1>2. CASE UnFreezeUTXO(c, r, o) \/ ReAssignUTXO(c, r, o)
  <2>1. PICK new \in {unfreeze(recs[r], o), reassign(recs[r], o, height, SpendableAfter)} :
          recs' = [recs EXCEPT ![r] = new] /\ recs[r].utxos[o] = Frozen
    BY <1>2 DEF UnFreezeUTXO, ReAssignUTXO, Write, CanUnfreeze
  <2>2. new.utxos = [recs[r].utxos EXCEPT ![o] = Unspent]
    BY <1>0, <2>1 DEF unfreeze, reassign, Record
  <2>3. SlotOf(recs') = [SlotOf(recs) EXCEPT ![<<r, o>>] = Unspent]
    <3>1. /\ recs'[r].utxos[o] = Unspent
          /\ \A q \in Recs, y \in Offsets :
               q # r \/ y # o => recs'[q].utxos[y] = recs[q].utxos[y]
      BY <1>0, <2>1, <2>2 DEF Inv, TypeOK, Record
    <3> QED BY <3>1, OneOutput
  <2>4. \E x \in Outputs : /\ SlotOf(recs)[x] = Frozen
                            /\ SlotOf(recs') = [SlotOf(recs) EXCEPT ![x] = Unspent]
                            /\ ClaimsOf(acked') = ClaimsOf(acked)
    BY <1>0, <2>1, <2>3
  <2> QED BY <2>4 DEF Ledger!Next, Ledger!Thaw, SlotOf, ClaimsOf, Outputs
<1> QED BY <1>1, <1>2

SameOutputs(rec, new) == new.utxos = rec.utxos

\* setMined leaves the outputs alone, in both directions.
LEMMA MinedOutputs ==
  ASSUME NEW rec \in Record, NEW b \in Blocks, NEW h \in Nat, NEW cur \in Nat,
         NEW l \in BOOLEAN, NEW u \in BOOLEAN
  PROVE  SameOutputs(rec, setMined(rec, b, h, cur, Retention, l, u))
<1> DEFINE blocks == IF u THEN rec.blockIDs \ {b} ELSE rec.blockIDs \cup {b}
           since == IF blocks # {} THEN (IF l THEN Nil ELSE rec.unminedSince)
                    ELSE IF rec.unminedSince = Nil THEN cur ELSE rec.unminedSince
           mid == MinedBins(rec, blocks, cur, l)
<1>1. blocks \subseteq Blocks /\ since \in OptHeight
  BY DEF Record, OptHeight
<1>2. mid = [rec EXCEPT !.blockIDs = blocks, !.unminedSince = since,
                        !.locked = FALSE, !.creating = FALSE]
  BY DEF MinedBins
<1> HIDE DEF blocks, since, mid
<1>3. mid \in Record /\ mid.utxos = rec.utxos
  BY <1>1, <1>2 DEF Record
<1> QED BY <1>3, RestampFrame DEF setMined, mid, blocks, SameOutputs

\* Functions that re-evaluate the DAH without touching the outputs.
LEMMA ReevaluateOutputs ==
  ASSUME NEW rec \in Record, NEW h \in Nat
  PROVE  /\ \A v \in BOOLEAN : setConflicting(rec, v, h, Retention).utxos = rec.utxos
         /\ \A n \in Int : incrementSpentExtraRecs(rec, n, h, Retention).utxos = rec.utxos
         /\ setDeleteAtHeight([rec EXCEPT !.unminedSince = Nil], h, Retention).utxos = rec.utxos
         /\ setDeleteAtHeight([rec EXCEPT !.preserveUntil = Nil], h, Retention).utxos = rec.utxos
<1>2. ASSUME NEW v \in BOOLEAN PROVE setConflicting(rec, v, h, Retention).utxos = rec.utxos
  <2> DEFINE mid == [rec EXCEPT !.conflicting = v]
  <2>1. mid \in Record /\ mid.utxos = rec.utxos
    BY DEF Record
  <2> HIDE DEF mid
  <2> QED BY <2>1, RestampFrame DEF setConflicting, mid
<1>3. ASSUME NEW n \in Int PROVE incrementSpentExtraRecs(rec, n, h, Retention).utxos = rec.utxos
  <2> DEFINE k == Clamp(rec.spentExtraRecs + n, rec.totalExtraRecs)
             mid == [rec EXCEPT !.spentExtraRecs = k]
  <2>1. k \in Int
    BY DEF Record, Clamp, OptHeight, Nil
  <2>2. incrementSpentExtraRecs(rec, n, h, Retention) = setDeleteAtHeight(mid, h, Retention)
    BY DEF incrementSpentExtraRecs
  <2> HIDE DEF k
  <2>3. mid \in Record /\ mid.utxos = rec.utxos
    BY <2>1 DEF Record
  <2> HIDE DEF mid
  <2> QED BY <2>2, <2>3, RestampFrame
<1>4. setDeleteAtHeight([rec EXCEPT !.unminedSince = Nil], h, Retention).utxos = rec.utxos
  <2> DEFINE mid == [rec EXCEPT !.unminedSince = Nil]
  <2>1. mid \in Record /\ mid.utxos = rec.utxos
    BY DEF Record, OptHeight
  <2> HIDE DEF mid
  <2>2. setDeleteAtHeight(mid, h, Retention).utxos = rec.utxos
    BY <2>1, RestampFrame
  <2> QED BY <2>2 DEF mid
<1>5. setDeleteAtHeight([rec EXCEPT !.preserveUntil = Nil], h, Retention).utxos = rec.utxos
  <2> DEFINE mid == [rec EXCEPT !.preserveUntil = Nil]
  <2>1. mid \in Record /\ mid.utxos = rec.utxos
    BY DEF Record, OptHeight
  <2> HIDE DEF mid
  <2>2. setDeleteAtHeight(mid, h, Retention).utxos = rec.utxos
    BY <2>1, RestampFrame
  <2> QED BY <2>2 DEF mid
<1> QED BY <1>2, <1>3, <1>4, <1>5

\* Functions that write single bins other than the outputs.
LEMMA BinOutputs ==
  ASSUME NEW rec \in Record
  PROVE  /\ \A v : setLocked(rec, v).utxos = rec.utxos
         /\ \A n : preserveUntil(rec, n).utxos = rec.utxos
         /\ \A S : addDeletedChildren(rec, S).utxos = rec.utxos
         /\ \A n : [rec EXCEPT !.unminedSince = n].utxos = rec.utxos
         /\ \A n : [rec EXCEPT !.deleteAtHeight = n].utxos = rec.utxos
BY DEF Record, setLocked, preserveUntil, addDeletedChildren

-----------------------------------------------------------------------------
\* Every call is a step of the ledger or leaves it alone.
LEMMA CallSteps ==
  ASSUME Inv, NEW c \in Callers, Call(c)
  PROVE  Ledger!Next \/ UNCHANGED Ledger!ledger
<1> DEFINE Goal == Ledger!Next \/ UNCHANGED Ledger!ledger
<1>0. /\ 0 \in Recs /\ Master \in Record /\ Master = recs[0]
      /\ \A r \in Recs : recs[r] \in Record
      /\ height \in Nat /\ height + 1 \in Nat /\ BackdatedUnminedSince \in Nat
      /\ BlockHeight \in [Blocks -> Nat]
  BY Facts, StoreConstants DEF Master
<1>1. CASE \E r \in Recs, D \in SUBSET Offsets \ {{}}, ic, il \in BOOLEAN :
             \E spends \in [D -> Spenders] : Spend(c, r, spends, ic, il)
  BY <1>1, SpendClaims
<1>2. ASSUME NEW r \in Recs, NEW o \in Offsets, NEW s \in Spenders, Unspend(c, r, o, s)
      PROVE  Goal
  BY <1>2, UnspendReleases
<1>3. ASSUME NEW b \in Blocks, NEW l \in BOOLEAN, SetMined(c, b, l) PROVE Goal
  <2> DEFINE new == setMined(Master, b, BlockHeight[b], height + 1, Retention, l, FALSE)
  <2>0. BlockHeight[b] \in Nat /\ Master \in Record /\ height + 1 \in Nat
        /\ BackdatedUnminedSince \in Nat /\ recs[0] = Master
    BY <1>0
  <2>1. recs' = [recs EXCEPT ![0] = new] /\ acked' = acked
    BY <1>3 DEF SetMined, Write
  <2>2. SameOutputs(recs[0], new)
    BY <2>0, MinedOutputs
  <2> HIDE DEF new
  <2> QED BY <1>0, <2>1, <2>2, WriteStutters DEF SameOutputs
<1>4. ASSUME NEW b \in Blocks, UnsetMined(c, b) PROVE Goal
  <2> DEFINE new == setMined(Master, b, BlockHeight[b], BackdatedUnminedSince, Retention,
                             FALSE, TRUE)
  <2>0. BlockHeight[b] \in Nat /\ Master \in Record /\ height + 1 \in Nat
        /\ BackdatedUnminedSince \in Nat /\ recs[0] = Master
    BY <1>0
  <2>1. recs' = [recs EXCEPT ![0] = new] /\ acked' = acked
    BY <1>4 DEF UnsetMined, Write
  <2>2. SameOutputs(recs[0], new)
    BY <2>0, MinedOutputs
  <2> HIDE DEF new
  <2> QED BY <1>0, <2>1, <2>2, WriteStutters DEF SameOutputs
<1>5. CASE MarkOnLongestChain(c)
  <2>1. PICK h \in {height + 1} \cup {BlockHeight[b] : b \in Master.blockIDs} :
          recs' = [recs EXCEPT
                     ![0] = setDeleteAtHeight([Master EXCEPT !.unminedSince = Nil], h, Retention)]
    BY <1>5 DEF MarkOnLongestChain, Write
  <2> DEFINE new == setDeleteAtHeight([Master EXCEPT !.unminedSince = Nil], h, Retention)
  <2>2. h \in Nat /\ acked' = acked
    BY <1>0, <1>5 DEF MarkOnLongestChain, Record
  <2>3. new.utxos = recs[0].utxos
    BY <1>0, <2>2, ReevaluateOutputs
  <2>4. recs' = [recs EXCEPT ![0] = new]
    BY <2>1
  <2> HIDE DEF new
  <2> QED BY <1>0, <2>2, <2>3, <2>4, WriteStutters
<1>6. CASE MarkNotOnLongestChain(c)
  <2> DEFINE since == IF Master.unminedSince = Nil THEN BackdatedUnminedSince
                      ELSE Master.unminedSince
             new == [Master EXCEPT !.unminedSince = since]
  <2>1. recs' = [recs EXCEPT ![0] = new] /\ acked' = acked
    BY <1>6 DEF MarkNotOnLongestChain, Write
  <2> HIDE DEF since
  <2>2. new.utxos = recs[0].utxos
    BY <1>0, BinOutputs
  <2> HIDE DEF new
  <2> QED BY <1>0, <2>1, <2>2, WriteStutters
<1>7. ASSUME NEW v \in BOOLEAN, SetConflicting(c, v) PROVE Goal
  <2> DEFINE new == setConflicting(Master, v, height, Retention)
  <2>1. recs' = [recs EXCEPT ![0] = new] /\ acked' = acked
    BY <1>7 DEF SetConflicting, Write
  <2>2. new.utxos = recs[0].utxos
    BY <1>0, ReevaluateOutputs
  <2> HIDE DEF new
  <2> QED BY <1>0, <2>1, <2>2, WriteStutters
<1>8. ASSUME NEW v \in BOOLEAN, SetLocked(c, v) PROVE Goal
  <2> DEFINE new == setLocked(Master, v)
  <2>1. recs' = [recs EXCEPT ![0] = new] /\ acked' = acked
    BY <1>8 DEF SetLocked, Write
  <2>2. new.utxos = recs[0].utxos
    BY <1>0, BinOutputs
  <2> HIDE DEF new
  <2> QED BY <1>0, <2>1, <2>2, WriteStutters
<1>9. ASSUME NEW r \in Recs, NEW o \in Offsets,
             FreezeUTXO(c, r, o) \/ UnFreezeUTXO(c, r, o) \/ ReAssignUTXO(c, r, o)
      PROVE  Goal
  BY <1>9, AlertFreezes
<1>10. ASSUME NEW until \in 1..MaxHeight, PreserveTransaction(c, until) PROVE Goal
  <2> DEFINE new == preserveUntil(Master, until)
  <2>1. recs' = [recs EXCEPT ![0] = new] /\ acked' = acked
    BY <1>10 DEF PreserveTransaction, Write
  <2>2. new.utxos = recs[0].utxos
    BY <1>0, BinOutputs
  <2> HIDE DEF new
  <2> QED BY <1>0, <2>1, <2>2, WriteStutters
<1>11. CASE ProcessExpiredPreservation(c)
  <2> DEFINE new == setDeleteAtHeight([Master EXCEPT !.preserveUntil = Nil], height, Retention)
  <2>1. recs' = [recs EXCEPT ![0] = new] /\ acked' = acked
    BY <1>11 DEF ProcessExpiredPreservation, Write
  <2>2. new.utxos = recs[0].utxos
    BY <1>0, ReevaluateOutputs
  <2> HIDE DEF new
  <2> QED BY <1>0, <2>1, <2>2, WriteStutters
<1>12. ASSUME NEW r \in Recs, NEW s \in Spenders, AddDeletedChildren(c, r, s) PROVE Goal
  <2> DEFINE new == addDeletedChildren(recs[r], {s})
  <2>1. recs' = [recs EXCEPT ![r] = new] /\ acked' = acked
    BY <1>12 DEF AddDeletedChildren, Write
  <2>2. new.utxos = recs[r].utxos
    BY <1>0, BinOutputs
  <2> HIDE DEF new
  <2> QED BY <2>1, <2>2, WriteStutters
<1> QED BY <1>1, <1>2, <1>3, <1>4, <1>5, <1>6, <1>7, <1>8, <1>9, <1>10, <1>11, <1>12 DEF Call

\* No follow-up writes an output.
LEMMA FollowUpSteps ==
  ASSUME Inv, NEW w \in Workers, FollowUp(w)
  PROVE  UNCHANGED Ledger!ledger
<1> PICK t \in todo[w] :
      \/ DoIncrement(w, t) \/ DoClearMaster(w, t) \/ DoUnminedClear(w, t)
      \/ \E p \in Pages : DoVerify(w, t, p) \/ DoPageDAH(w, t, p) \/ DoPageLock(w, t, p)
  BY DEF FollowUp
<1>0. /\ t.n \in Int /\ t.height \in Nat /\ 0 \in Recs /\ Pages \subseteq Recs
      /\ Master = recs[0] /\ \A r \in Recs : recs[r] \in Record
  BY Facts DEF Inv, TypeOK, Task, Master
<1>1. CASE DoIncrement(w, t)
  <2> DEFINE new == incrementSpentExtraRecs(Master, t.n, t.height, Retention)
  <2>1. recs' \in {recs, [recs EXCEPT ![0] = new]} /\ acked' = acked
    BY <1>1 DEF DoIncrement, Write, Unchanging
  <2>2. new.utxos = recs[0].utxos
    BY <1>0, ReevaluateOutputs
  <2> HIDE DEF new
  <2> QED BY <1>0, <2>1, <2>2, WriteStutters, Stutters
<1>2. CASE DoClearMaster(w, t) \/ DoUnminedClear(w, t)
  <2> DEFINE new == [recs[0] EXCEPT !.deleteAtHeight = Nil]
  <2>1. recs' \in {recs, [recs EXCEPT ![0] = new]} /\ acked' = acked
    BY <1>0, <1>2 DEF DoClearMaster, DoUnminedClear, Write, Unchanging
  <2>2. new.utxos = recs[0].utxos
    BY <1>0, BinOutputs
  <2> HIDE DEF new
  <2> QED BY <1>0, <2>1, <2>2, WriteStutters, Stutters
<1>3. ASSUME NEW p \in Pages, DoVerify(w, t, p) PROVE UNCHANGED Ledger!ledger
  BY <1>3, Stutters DEF DoVerify, Unchanging
<1>4. ASSUME NEW p \in Pages, DoPageDAH(w, t, p) PROVE UNCHANGED Ledger!ledger
  <2> DEFINE new == [recs[p] EXCEPT !.deleteAtHeight = t.n]
  <2>1. recs' \in {recs, [recs EXCEPT ![p] = new]} /\ acked' = acked
    BY <1>4 DEF DoPageDAH, Unchanging
  <2>2. new.utxos = recs[p].utxos
    BY <1>0, BinOutputs
  <2> HIDE DEF new
  <2> QED BY <1>0, <2>1, <2>2, WriteStutters, Stutters
<1>5. ASSUME NEW p \in Pages, DoPageLock(w, t, p) PROVE UNCHANGED Ledger!ledger
  <2> DEFINE new == setLocked(recs[p], t.n = 1)
  <2>1. recs' \in {recs, [recs EXCEPT ![p] = new]} /\ acked' = acked
    BY <1>5 DEF DoPageLock, Unchanging
  <2>2. new.utxos = recs[p].utxos
    BY <1>0, BinOutputs
  <2> HIDE DEF new
  <2> QED BY <1>0, <2>1, <2>2, WriteStutters, Stutters
<1> QED BY <1>1, <1>2, <1>3, <1>4, <1>5

\* A lost follow-up, the pruner and the chain leave the ledger alone.
LEMMA QuietSteps ==
  ASSUME (\E w \in Workers : Abandon(w)) \/ Prune \/ Tick \/ UNCHANGED vars
  PROVE  UNCHANGED Ledger!ledger
<1>1. recs' = recs /\ acked' = acked
  BY DEF Abandon, Prune, PruneMaster, PrunePage, JudgePage, DeleteRecord, Tick, vars
<1> QED BY <1>1, Stutters

-----------------------------------------------------------------------------
\* The store implements the ledger (refinement): at creation every output is
\* free, and each call, follow-up, lost follow-up and deletion is a claim of
\* free outputs, the owner's release, a freeze, a thaw, or no step at all.
THEOREM Refines == Spec => ImplementsLedger
<1>1. Init => Ledger!Init
  <2> SUFFICES ASSUME Init PROVE Ledger!Init
    OBVIOUS
  <2>1. \A r \in Recs, o \in Offsets : recs[r].utxos[o] \in {Unspent, NoOutput}
    BY DEF Init, NewRecord
  <2>2. acked = {}
    BY DEF Init
  <2> QED BY <2>1, <2>2 DEF Ledger!Init
<1>2. Inv /\ [Next]_vars => [Ledger!Next]_Ledger!ledger
  <2> SUFFICES ASSUME Inv, [Next]_vars PROVE Ledger!Next \/ UNCHANGED Ledger!ledger
    OBVIOUS
  <2>1. ASSUME NEW c \in Callers, Call(c) PROVE Ledger!Next \/ UNCHANGED Ledger!ledger
    BY <2>1, CallSteps
  <2>2. ASSUME NEW w \in Workers, FollowUp(w) PROVE UNCHANGED Ledger!ledger
    BY <2>2, FollowUpSteps
  <2>3. CASE (\E w \in Workers : Abandon(w)) \/ Prune \/ Tick \/ UNCHANGED vars
    BY <2>3, QuietSteps
  <2> QED BY <2>1, <2>2, <2>3 DEF Next
<1> QED BY <1>1, <1>2, Invariance, PTL DEF Spec, ImplementsLedger, Ledger!Spec

=============================================================================
