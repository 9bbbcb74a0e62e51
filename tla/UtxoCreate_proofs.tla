--------------------------- MODULE UtxoCreate_proofs ---------------------------
(***************************************************************************)
(* The creation protocol for any number of creators, pages and faults.     *)
(***************************************************************************)
EXTENDS UtxoCreate, TLAPS

USE DEF Pages, Recs

Stages == {"idle", "blob", "write", "clear", "clearMaster", "release"}

\* Every stage an attempt is put into is well formed.
LEMMA StageType ==
  ASSUME NEW pc \in Stages, NEW todo \in SUBSET Recs, NEW made \in BOOLEAN
  PROVE  Stage(pc, todo, made) \in Attempt
BY DEF Stage, Attempt, Stages

\* The answer to one write keeps an attempt well formed.
LEMMA AnsweredType ==
  ASSUME TypeOK, NEW c \in Creators, NEW r, NEW bad \in BOOLEAN
  PROVE  Answered(c, r, bad) \in Attempt
BY DEF Answered, TypeOK, Attempt

\* A creator that moves to a well-formed stage leaves all attempts well formed.
LEMMA GoesType ==
  ASSUME TypeOK, NEW c \in Creators, NEW stage \in Attempt, Goes(c, stage)
  PROVE  at' \in [Creators -> Attempt]
BY DEF Goes, TypeOK

\* A CREATE_ONLY write keeps the creating bins on existing records.
LEMMA PutType ==
  ASSUME TypeOK, NEW r \in Recs, Put(r)
  PROVE  exists' \subseteq Recs /\ creating' \subseteq exists'
BY DEF Put, TypeOK

\* The result of an attempt adds at most one to the count of successes.
LEMMA CompletesType ==
  ASSUME TypeOK, NEW c \in Creators, Completes(c)
  PROVE  at' \in [Creators -> Attempt] /\ wins' \in Nat
<1>1. Stage("release", {}, FALSE) \in Attempt
  BY StageType DEF Stages
<1>2. wins' \in Nat
  BY DEF Completes, TypeOK
<1> QED BY <1>1, <1>2, GoesType DEF Completes

\* Every variable keeps its type; a record that carries the creating bin exists
\* (acquireLock to releaseLock, and setMined beside them).
THEOREM TypeCorrect == Spec => []TypeOK
<1>1. Init => TypeOK
  <2> SUFFICES ASSUME Init PROVE TypeOK
    OBVIOUS
  <2>1. at \in [Creators -> Attempt]
    BY StageType DEF Init, Idle, Stages
  <2>2. blob \in {"none", "stored"} /\ lock \in Creators \cup {NoLock} /\ live \subseteq Creators
    BY DEF Init
  <2>3. /\ exists \subseteq Recs /\ creating \subseteq exists /\ wins \in Nat
        /\ faults \in Nat /\ minedEarly \in BOOLEAN
    BY DEF Init
  <2> QED BY <2>1, <2>2, <2>3 DEF TypeOK
<1>2. TypeOK /\ [Next]_vars => TypeOK'
  <2> SUFFICES ASSUME TypeOK, [Next]_vars PROVE TypeOK'
    OBVIOUS
  <2>a. \A pc \in Stages, made \in BOOLEAN :
          \A todo \in {{}, Recs, Pages} : Stage(pc, todo, made) \in Attempt
    <3>1. {{}, Recs, Pages} \subseteq SUBSET Recs
      BY CreateConstants
    <3> HIDE DEF Pages, Recs
    <3> QED BY <3>1, StageType
  <2>b. Idle \in Attempt
    BY <2>a DEF Idle, Stages
  <2>c. \A c \in Creators : at[c].made \in BOOLEAN
    BY DEF TypeOK, Attempt
  <2>1. ASSUME NEW c \in Creators, AcquireLock(c) PROVE TypeOK'
    <3>1. at' \in [Creators -> Attempt]
      BY <2>1, <2>a, GoesType DEF AcquireLock, Stages
    <3> QED BY <2>1, <3>1 DEF AcquireLock, TypeOK
  <2>2. ASSUME NEW c \in Creators, Proceed(c) PROVE TypeOK'
    <3>1. CASE StoreBlob(c)
      <4>1. at' \in [Creators -> Attempt] /\ blob' \in {"none", "stored"}
        BY <3>1, <2>a, GoesType DEF StoreBlob, Stages
      <4> QED BY <3>1, <4>1 DEF StoreBlob, TypeOK
    <3>2. CASE Classify(c)
      <4>1. at' \in [Creators -> Attempt]
        <5>1. CASE at[c].failed
          BY <3>2, <5>1, <2>a, GoesType DEF Classify, Stages
        <5>2. CASE ~at[c].failed
          BY <3>2, <5>2, <2>a, <2>c, GoesType DEF Classify, Stages
        <5> QED BY <5>1, <5>2
      <4> QED BY <3>2, <4>1 DEF Classify, TypeOK
    <3>3. CASE PagesCleared(c)
      <4>1. at' \in [Creators -> Attempt] /\ wins' \in Nat
        <5>1. CASE at[c].failed
          BY <3>3, <5>1, CompletesType DEF PagesCleared
        <5>2. CASE ~at[c].failed
          BY <3>3, <5>2, <2>a, <2>c, GoesType DEF PagesCleared, Stages, TypeOK
        <5> QED BY <5>1, <5>2
      <4> QED BY <3>3, <4>1 DEF PagesCleared, TypeOK
    <3>4. CASE ClearMaster(c)
      <4>1. at' \in [Creators -> Attempt] /\ wins' \in Nat
        BY <3>4, CompletesType DEF ClearMaster
      <4> QED BY <3>4, <4>1 DEF ClearMaster, TypeOK
    <3>5. CASE ReleaseLock(c)
      <4>1. at' \in [Creators -> Attempt]
        BY <3>5, <2>b, GoesType DEF ReleaseLock
      <4> QED BY <3>5, <4>1 DEF ReleaseLock, TypeOK
    <3>6. ASSUME NEW r \in Recs, WriteRecord(c, r) PROVE TypeOK'
      <4>1. [Answered(c, r, FALSE) EXCEPT !.made = @ \/ (r = 0 /\ r \notin exists)] \in Attempt
        BY AnsweredType DEF Attempt
      <4>2. at' \in [Creators -> Attempt]
        BY <3>6, <4>1, GoesType DEF WriteRecord
      <4> QED BY <3>6, <4>2, PutType DEF WriteRecord, TypeOK
    <3>7. ASSUME NEW p \in Pages, ClearPage(c, p) PROVE TypeOK'
      <4>1. at' \in [Creators -> Attempt]
        BY <3>7, AnsweredType, GoesType DEF ClearPage
      <4> QED BY <3>7, <4>1 DEF ClearPage, TypeOK
    <3> QED BY <2>2, <3>1, <3>2, <3>3, <3>4, <3>5, <3>6, <3>7 DEF Proceed
  <2>3. ASSUME NEW c \in Creators, GoesWrong(c) PROVE TypeOK'
    <3> USE DEF Fault
    <3>1. CASE AcquireLockInDoubt(c)
      BY <3>1 DEF AcquireLockInDoubt, TypeOK
    <3>2. CASE StoreBlobFails(c)
      <4>1. at' \in [Creators -> Attempt]
        BY <3>2, <2>a, GoesType DEF StoreBlobFails, Stages
      <4>2. blob' \in {"none", "stored"}
        BY <3>2 DEF StoreBlobFails, TypeOK
      <4> QED BY <3>2, <4>1, <4>2 DEF StoreBlobFails, TypeOK
    <3>3. CASE ClearMasterFails(c)
      <4>1. at' \in [Creators -> Attempt] /\ wins' \in Nat
        BY <3>3, CompletesType DEF ClearMasterFails
      <4> QED BY <3>3, <4>1 DEF ClearMasterFails, TypeOK
    <3>4. CASE ReleaseLockFails(c)
      <4>1. at' \in [Creators -> Attempt]
        BY <3>4, <2>b, GoesType DEF ReleaseLockFails
      <4> QED BY <3>4, <4>1 DEF ReleaseLockFails, TypeOK
    <3>5. CASE Crash(c)
      <4>1. at' \in [Creators -> Attempt]
        BY <3>5, <2>b, GoesType DEF Crash
      <4> QED BY <3>5, <4>1 DEF Crash, TypeOK
    <3>6. ASSUME NEW r \in Recs, WriteRecordFails(c, r) PROVE TypeOK'
      <4>1. at' \in [Creators -> Attempt]
        BY <3>6, AnsweredType, GoesType DEF WriteRecordFails
      <4>2. exists' \subseteq Recs /\ creating' \subseteq exists'
        BY <3>6, PutType DEF WriteRecordFails, TypeOK
      <4> QED BY <3>6, <4>1, <4>2 DEF WriteRecordFails, TypeOK
    <3>7. ASSUME NEW p \in Pages, ClearPageFails(c, p) PROVE TypeOK'
      <4>1. at' \in [Creators -> Attempt]
        BY <3>7, AnsweredType, GoesType DEF ClearPageFails
      <4> QED BY <3>7, <4>1 DEF ClearPageFails, TypeOK
    <3> QED BY <2>3, <3>1, <3>2, <3>3, <3>4, <3>5, <3>6, <3>7 DEF GoesWrong
  <2>4. CASE ExpireLock
    BY <2>4 DEF ExpireLock, TypeOK
  <2>5. CASE SetMined
    BY <2>5 DEF SetMined, TypeOK
  <2>6. CASE UNCHANGED vars
    BY <2>6 DEF vars, TypeOK
  <2> QED BY <2>1, <2>2, <2>3, <2>4, <2>5, <2>6 DEF Next
<1> QED BY <1>1, <1>2, PTL DEF Spec

-----------------------------------------------------------------------------
(***************************************************************************)
(* The lock.                                                               *)
(***************************************************************************)

\* A lock that has not expired is in the lock record.
LiveIsHeld == \A c \in live : lock = c

\* Two creators with live locks never work side by side: the lock record holds
\* the name of every creator whose lock is live, and only its owner or the TTL
\* removes it (acquireLock, releaseLock).
THEOREM LockSafe == Spec => []LockExcludes
<1>1. Init => LiveIsHeld
  BY DEF Init, LiveIsHeld
<1>2. TypeOK /\ LiveIsHeld /\ [Next]_vars => LiveIsHeld'
  <2> SUFFICES ASSUME TypeOK, LiveIsHeld, [Next]_vars PROVE LiveIsHeld'
    OBVIOUS
  <2> USE DEF LiveIsHeld
  <2>0. lock = NoLock => live = {}
    BY CreateConstants DEF TypeOK
  <2>1. ASSUME NEW c \in Creators, AcquireLock(c) \/ AcquireLockInDoubt(c) PROVE LiveIsHeld'
    BY <2>0, <2>1 DEF AcquireLock, AcquireLockInDoubt
  <2>2. ASSUME NEW c \in Creators, ReleaseLock(c) \/ ReleaseLockFails(c) \/ Crash(c)
        PROVE  LiveIsHeld'
    BY <2>2 DEF ReleaseLock, ReleaseLockFails, Crash
  <2>3. CASE ExpireLock
    BY <2>3 DEF ExpireLock
  <2>4. CASE UNCHANGED <<lock, live>>
    BY <2>4
  <2> QED
    BY <2>1, <2>2, <2>3, <2>4
    DEF Next, Proceed, GoesWrong, StoreBlob, StoreBlobFails, WriteRecord, WriteRecordFails,
        Classify, ClearPage, ClearPageFails, PagesCleared, ClearMaster, ClearMasterFails,
        SetMined, vars
<1>3. LiveIsHeld => LockExcludes
  BY DEF LiveIsHeld, LockExcludes
<1> QED BY <1>1, <1>2, <1>3, TypeCorrect, PTL DEF Spec

-----------------------------------------------------------------------------
(***************************************************************************)
(* Who reports success.                                                    *)
(***************************************************************************)

\* The right to report success is created with the master record, held by one
\* attempt at a time, and used up when it is reported.
WinInv ==
  /\ 0 \notin exists => wins = 0 /\ \A c \in Creators : ~at[c].made
  /\ \A c \in Creators : at[c].made => wins = 0
  /\ \A c, d \in Creators : at[c].made /\ at[d].made => c = d
  /\ wins <= 1

\* No attempt gains the right and none is used up.
KeepsMade ==
  /\ \A d \in Creators : at'[d].made => at[d].made
  /\ wins' = wins

\* At most one Create reports success for any number of creators, expired
\* locks, lost answers and crashes (classifyCreateBatchResults).
THEOREM WinnerUnique == Spec => []OneWinner
<1>1. Init => WinInv
  BY DEF Init, WinInv, Idle, Stage
<1>2. TypeOK /\ WinInv /\ [Next]_vars => WinInv'
  <2> SUFFICES ASSUME TypeOK, WinInv, [Next]_vars PROVE WinInv'
    OBVIOUS
  <2>0. \A c \in Creators : at[c] \in Attempt /\ at[c].made \in BOOLEAN
    BY DEF TypeOK, Attempt
  <2>1. ASSUME KeepsMade, exists \subseteq exists' PROVE WinInv'
    BY <2>1 DEF WinInv, KeepsMade
  <2>2. ASSUME NEW c \in Creators, Completes(c), UNCHANGED exists PROVE WinInv'
    <3>1. \A d \in Creators : at'[d].made => at[d].made /\ d # c
      BY <2>2, <2>0 DEF Completes, Goes, Stage, TypeOK
    <3>2. CASE at[c].made
      <4>1. wins = 0 /\ 0 \in exists /\ wins' = 1
        BY <2>2, <3>2 DEF WinInv, Completes
      <4>2. \A d \in Creators : ~at'[d].made
        BY <3>1, <3>2 DEF WinInv
      <4> QED BY <2>2, <4>1, <4>2 DEF WinInv
    <3>3. CASE ~at[c].made
      <4>1. wins' = wins
        BY <2>2, <3>3 DEF Completes, TypeOK
      <4> QED BY <2>2, <3>1, <4>1 DEF WinInv
    <3> QED BY <3>2, <3>3
  <2>3. ASSUME NEW c \in Creators, NEW r \in Recs, WriteRecord(c, r) PROVE WinInv'
    <3>1. \A d \in Creators \ {c} : at'[d] = at[d]
      BY <2>3 DEF WriteRecord, Goes, TypeOK
    <3>2. at'[c].made = (at[c].made \/ (r = 0 /\ r \notin exists))
      BY <2>3, <2>0 DEF WriteRecord, Goes, TypeOK, Answered, Attempt
    <3>3. exists' = exists \cup {r} /\ wins' = wins
      BY <2>3 DEF WriteRecord, Put
    <3>4. CASE r = 0 /\ r \notin exists
      <4>1. wins = 0 /\ \A d \in Creators : ~at[d].made
        BY <3>4 DEF WinInv
      <4>2. \A d \in Creators : at'[d].made => d = c
        BY <3>1, <4>1
      <4> QED BY <3>3, <3>4, <4>1, <4>2 DEF WinInv
    <3>5. CASE ~(r = 0 /\ r \notin exists)
      <4>1. \A d \in Creators : at'[d].made => at[d].made
        BY <3>1, <3>2, <3>5
      <4> QED BY <3>3, <4>1 DEF WinInv
    <3> QED BY <3>4, <3>5
  <2>4. ASSUME NEW c \in Creators, Proceed(c) PROVE WinInv'
    <3>1. CASE StoreBlob(c)
      BY <3>1, <2>1 DEF StoreBlob, KeepsMade, Goes, Stage, TypeOK
    <3>2. CASE Classify(c)
      <4>1. KeepsMade
        <5>1. CASE at[c].failed
          BY <3>2, <5>1 DEF Classify, KeepsMade, Goes, Stage, TypeOK
        <5>2. CASE ~at[c].failed
          BY <3>2, <5>2 DEF Classify, KeepsMade, Goes, Stage, TypeOK
        <5> QED BY <5>1, <5>2
      <4> QED BY <3>2, <4>1, <2>1 DEF Classify
    <3>3. CASE PagesCleared(c)
      <4>1. CASE at[c].failed
        BY <3>3, <4>1, <2>2 DEF PagesCleared
      <4>2. CASE ~at[c].failed
        BY <3>3, <4>2, <2>1 DEF PagesCleared, KeepsMade, Goes, Stage, TypeOK
      <4> QED BY <4>1, <4>2
    <3>4. CASE ClearMaster(c)
      BY <3>4, <2>2 DEF ClearMaster
    <3>5. CASE ReleaseLock(c)
      BY <3>5, <2>1 DEF ReleaseLock, KeepsMade, Goes, Idle, Stage, TypeOK
    <3>6. ASSUME NEW r \in Recs, WriteRecord(c, r) PROVE WinInv'
      BY <3>6, <2>3
    <3>7. ASSUME NEW p \in Pages, ClearPage(c, p) PROVE WinInv'
      BY <3>7, <2>0, <2>1 DEF ClearPage, KeepsMade, Goes, Answered, Attempt, TypeOK
    <3> QED BY <2>4, <3>1, <3>2, <3>3, <3>4, <3>5, <3>6, <3>7 DEF Proceed
  <2>5. ASSUME NEW c \in Creators, GoesWrong(c) PROVE WinInv'
    <3>1. CASE AcquireLockInDoubt(c)
      BY <3>1, <2>1 DEF AcquireLockInDoubt, KeepsMade
    <3>2. CASE StoreBlobFails(c)
      BY <3>2, <2>1 DEF StoreBlobFails, KeepsMade, Goes, Stage, TypeOK
    <3>3. CASE ClearMasterFails(c)
      BY <3>3, <2>2 DEF ClearMasterFails
    <3>4. CASE ReleaseLockFails(c)
      BY <3>4, <2>1 DEF ReleaseLockFails, KeepsMade, Goes, Idle, Stage, TypeOK
    <3>5. CASE Crash(c)
      BY <3>5, <2>1 DEF Crash, KeepsMade, Goes, Idle, Stage, TypeOK
    <3>6. ASSUME NEW r \in Recs, WriteRecordFails(c, r) PROVE WinInv'
      <4>1. KeepsMade
        BY <3>6, <2>0 DEF WriteRecordFails, KeepsMade, Goes, Answered, Attempt, TypeOK
      <4> QED BY <3>6, <4>1, <2>1 DEF WriteRecordFails, Put
    <3>7. ASSUME NEW p \in Pages, ClearPageFails(c, p) PROVE WinInv'
      BY <3>7, <2>0, <2>1 DEF ClearPageFails, KeepsMade, Goes, Answered, Attempt, TypeOK
    <3> QED BY <2>5, <3>1, <3>2, <3>3, <3>4, <3>5, <3>6, <3>7 DEF GoesWrong
  <2>6. ASSUME NEW c \in Creators, AcquireLock(c) PROVE WinInv'
    BY <2>6, <2>1 DEF AcquireLock, KeepsMade, Goes, Stage, TypeOK
  <2>7. CASE ExpireLock \/ SetMined \/ UNCHANGED vars
    BY <2>7 DEF ExpireLock, SetMined, vars, WinInv
  <2> QED BY <2>4, <2>5, <2>6, <2>7 DEF Next
<1>3. WinInv => OneWinner
  BY DEF WinInv, OneWinner
<1> QED BY <1>1, <1>2, <1>3, TypeCorrect, PTL DEF Spec

-----------------------------------------------------------------------------
(***************************************************************************)
(* What a cleared creating bin tells.                                      *)
(***************************************************************************)

\* What the progress of one attempt says about the store.
ProgressInv ==
  \A c \in Creators :
    /\ at[c].pc \in {"write", "clear", "clearMaster"} => blob = "stored"
    /\ at[c].pc = "write" /\ ~at[c].failed => Recs \ at[c].todo \subseteq exists
    /\ at[c].pc \in {"clear", "clearMaster"} => exists = Recs
    /\ at[c].pc = "clear" /\ ~at[c].failed =>
         \A p \in Pages \ at[c].todo : p \notin creating
    /\ at[c].pc = "clearMaster" => \A p \in Pages : p \notin creating

CompletionInv == SpendableMeansComplete /\ MasterClearedLast

\* Records are only added, bins only set on records that are added.
Grows ==
  /\ exists \subseteq exists'
  /\ creating' \subseteq creating \cup (exists' \ exists)
  /\ blob = "stored" => blob' = "stored"

\* A step of c that only adds preserves what the others' progress says.
LEMMA OthersProgress ==
  ASSUME TypeOK, TypeOK', ProgressInv, Grows, NEW c \in Creators,
         \A d \in Creators \ {c} : at'[d] = at[d],
         at'[c].pc \in {"write", "clear", "clearMaster"} => blob' = "stored",
         at'[c].pc = "write" /\ ~at'[c].failed => Recs \ at'[c].todo \subseteq exists',
         at'[c].pc \in {"clear", "clearMaster"} => exists' = Recs,
         at'[c].pc = "clear" /\ ~at'[c].failed =>
           \A p \in Pages \ at'[c].todo : p \notin creating',
         at'[c].pc = "clearMaster" => \A p \in Pages : p \notin creating'
  PROVE  ProgressInv'
<1> SUFFICES ASSUME NEW d \in Creators \ {c}
             PROVE
               /\ at[d].pc \in {"write", "clear", "clearMaster"} => blob' = "stored"
               /\ at[d].pc = "write" /\ ~at[d].failed => Recs \ at[d].todo \subseteq exists'
               /\ at[d].pc \in {"clear", "clearMaster"} => exists' = Recs
               /\ at[d].pc = "clear" /\ ~at[d].failed =>
                    \A p \in Pages \ at[d].todo : p \notin creating'
               /\ at[d].pc = "clearMaster" => \A p \in Pages : p \notin creating'
  BY DEF ProgressInv
<1>1. at[d].pc \in {"write", "clear", "clearMaster"} => blob' = "stored"
  BY DEF ProgressInv, Grows
<1>2. at[d].pc = "write" /\ ~at[d].failed => Recs \ at[d].todo \subseteq exists'
  BY DEF ProgressInv, Grows
<1>3. at[d].pc \in {"clear", "clearMaster"} =>
        exists' = Recs /\ creating' \subseteq creating
  BY DEF ProgressInv, Grows, TypeOK
<1>4. at[d].pc = "clear" /\ ~at[d].failed => \A p \in Pages \ at[d].todo : p \notin creating'
  BY <1>3 DEF ProgressInv
<1>5. at[d].pc = "clearMaster" => \A p \in Pages : p \notin creating'
  BY <1>3 DEF ProgressInv
<1> QED BY <1>1, <1>2, <1>3, <1>4, <1>5

\* A step that clears no bin keeps the meaning of the cleared ones: a record
\* that is added carries its bin.
LEMMA CompletionKept ==
  ASSUME TypeOK, CompletionInv, exists' \subseteq Recs, exists \subseteq exists',
         blob = "stored" => blob' = "stored", creating' = creating \cup (exists' \ exists),
         minedEarly' = minedEarly
  PROVE  CompletionInv'
BY DEF CompletionInv, SpendableMeansComplete, MasterClearedLast,
          MasterIndicatesCompletion, Spendable, TypeOK

\* Unless it was mined while unfinished, no output of a transaction can be spent before
\* all its records and its blob are stored, and a master without the creating
\* bin stands for pages without it (storeExternallyWithLock, clearCreatingFlag).
THEOREM CompletionSafe ==
  Spec => [](SpendableMeansComplete /\ MasterClearedLast)
<1> DEFINE IInv == ProgressInv /\ CompletionInv
<1>1. Init => IInv
  BY CreateConstants
  DEF Init, ProgressInv, CompletionInv, SpendableMeansComplete,
      MasterClearedLast,
          MasterIndicatesCompletion, Spendable, Idle, Stage
<1>2. TypeOK /\ TypeOK' /\ IInv /\ [Next]_vars => IInv'
  <2> SUFFICES ASSUME TypeOK, TypeOK', IInv, [Next]_vars PROVE IInv'
    OBVIOUS
  <2>0. \A c \in Creators : at[c] \in Attempt
    BY DEF TypeOK
  <2>1. ASSUME NEW c \in Creators, NEW stage, Goes(c, stage)
        PROVE  at'[c] = stage /\ \A d \in Creators \ {c} : at'[d] = at[d]
    BY <2>1 DEF Goes, TypeOK
  <2>2. ASSUME NEW c \in Creators,
               AcquireLock(c) \/ ReleaseLock(c) \/ ReleaseLockFails(c) \/ Crash(c)
        PROVE  IInv'
    <3>1. Grows /\ UNCHANGED <<exists, creating, blob, minedEarly>>
      BY <2>2 DEF AcquireLock, ReleaseLock, ReleaseLockFails, Crash, Grows
    <3>2. /\ at'[c].pc \in {"idle", "blob"}
          /\ \A d \in Creators \ {c} : at'[d] = at[d]
      BY <2>1, <2>2 DEF AcquireLock, ReleaseLock, ReleaseLockFails, Crash, Idle, Stage
    <3>3. ProgressInv'
      BY <3>1, <3>2, OthersProgress
    <3> QED BY <3>1, <3>3, CompletionKept DEF TypeOK
  <2>3. ASSUME NEW c \in Creators, StoreBlob(c) \/ StoreBlobFails(c) PROVE IInv'
    <3>1. Grows /\ UNCHANGED <<exists, creating, minedEarly>>
      BY <2>3 DEF StoreBlob, StoreBlobFails, Grows
    <3>2. \/ at'[c] = Stage("write", Recs, FALSE) /\ blob' = "stored"
          \/ at'[c] = Stage("release", {}, FALSE)
      BY <2>1, <2>3 DEF StoreBlob, StoreBlobFails
    <3>3. \A d \in Creators \ {c} : at'[d] = at[d]
      BY <2>1, <2>3 DEF StoreBlob, StoreBlobFails
    <3>4. ProgressInv'
      <4>1. CASE at'[c] = Stage("write", Recs, FALSE) /\ blob' = "stored"
        <5>1. at'[c].pc = "write" /\ at'[c].todo = Recs
          BY <4>1 DEF Stage
        <5> QED BY <3>1, <3>3, <4>1, <5>1, OthersProgress
      <4>2. CASE at'[c] = Stage("release", {}, FALSE)
        <5>1. at'[c].pc = "release"
          BY <4>2 DEF Stage
        <5> QED BY <3>1, <3>3, <5>1, OthersProgress
      <4> QED BY <3>2, <4>1, <4>2
    <3> QED BY <3>1, <3>4, CompletionKept DEF Grows, TypeOK
  <2>4. ASSUME NEW c \in Creators, NEW r \in Recs, WriteRecord(c, r) \/ WriteRecordFails(c, r)
        PROVE  IInv'
    <3>0. at[c].pc = "write" /\ blob' = blob /\ minedEarly' = minedEarly
      BY <2>4 DEF WriteRecord, WriteRecordFails
    <3>1. /\ exists' \in {exists, exists \cup {r}}
          /\ creating' = creating \cup (exists' \ exists)
      BY <2>4 DEF WriteRecord, WriteRecordFails, Put, TypeOK
    <3>2. Grows
      BY <3>0, <3>1 DEF Grows
    <3>3. \A d \in Creators \ {c} : at'[d] = at[d]
      BY <2>1, <2>4 DEF WriteRecord, WriteRecordFails
    <3>4. /\ at'[c].pc = "write"
          /\ ~at'[c].failed => Recs \ at'[c].todo \subseteq exists'
      <4>1. CASE WriteRecord(c, r)
        <5>1. at'[c] = [Answered(c, r, FALSE) EXCEPT !.made = @ \/ (r = 0 /\ r \notin exists)]
          BY <2>1, <4>1 DEF WriteRecord
        <5>2. /\ at'[c].pc = Answered(c, r, FALSE).pc
              /\ at'[c].todo = Answered(c, r, FALSE).todo
              /\ at'[c].failed = Answered(c, r, FALSE).failed
          BY <5>1, AnsweredType DEF Attempt
        <5>3. exists' = exists \cup {r}
          BY <4>1 DEF WriteRecord, Put
        <5>4. /\ Answered(c, r, FALSE).pc = at[c].pc
              /\ Answered(c, r, FALSE).todo = at[c].todo \ {r}
              /\ ~Answered(c, r, FALSE).failed => ~at[c].failed
          BY <2>0 DEF Answered, Attempt
        <5> QED BY <3>0, <5>2, <5>3, <5>4 DEF ProgressInv
      <4>2. CASE WriteRecordFails(c, r)
        <5>1. at'[c] = Answered(c, r, TRUE)
          BY <2>1, <4>2 DEF WriteRecordFails
        <5>2. Answered(c, r, TRUE).pc = at[c].pc /\ Answered(c, r, TRUE).failed
          BY <2>0 DEF Answered, Attempt
        <5> QED BY <3>0, <5>1, <5>2
      <4> QED BY <2>4, <4>1, <4>2
    <3>6. blob' = "stored"
      BY <3>0 DEF ProgressInv
    <3>7. ProgressInv'
      BY <3>2, <3>3, <3>4, <3>6, OthersProgress
    <3> QED BY <3>0, <3>1, <3>7, CompletionKept DEF TypeOK
  <2>5. ASSUME NEW c \in Creators, Classify(c) PROVE IInv'
    <3>1. Grows /\ UNCHANGED <<exists, creating, blob, minedEarly>> /\ at[c].pc = "write" /\ at[c].todo = {}
      BY <2>5 DEF Classify, Grows
    <3>2. \A d \in Creators \ {c} : at'[d] = at[d]
      BY <2>1, <2>5 DEF Classify
    <3>3. \/ at'[c] = Stage("release", {}, FALSE)
          \/ at'[c] = Stage("clear", Pages, at[c].made) /\ ~at[c].failed
      BY <2>1, <2>5 DEF Classify
    <3>4. ~at[c].failed => exists = Recs /\ blob = "stored"
      BY <3>1 DEF ProgressInv, TypeOK
    <3>5. ProgressInv'
      <4>1. CASE at'[c] = Stage("release", {}, FALSE)
        <5>1. at'[c].pc = "release"
          BY <4>1 DEF Stage
        <5> QED BY <3>1, <3>2, <5>1, OthersProgress
      <4>2. CASE at'[c] = Stage("clear", Pages, at[c].made) /\ ~at[c].failed
        <5>1. at'[c].pc = "clear" /\ at'[c].todo = Pages
          BY <4>2 DEF Stage
        <5> QED BY <3>1, <3>2, <3>4, <4>2, <5>1, OthersProgress
      <4> QED BY <3>3, <4>1, <4>2
    <3> QED BY <3>1, <3>5, CompletionKept DEF TypeOK
  <2>6. ASSUME NEW c \in Creators, NEW p \in Pages, ClearPage(c, p) \/ ClearPageFails(c, p)
        PROVE  IInv'
    <3>0. at[c].pc = "clear" /\ exists = Recs /\ blob = "stored"
      BY <2>6 DEF ClearPage, ClearPageFails, ProgressInv
    <3>1. /\ UNCHANGED <<exists, blob, minedEarly>>
          /\ creating' \in {creating, creating \ {p}}
      BY <2>6 DEF ClearPage, ClearPageFails
    <3>2. Grows
      BY <3>1 DEF Grows
    <3>3. \A d \in Creators \ {c} : at'[d] = at[d]
      BY <2>1, <2>6 DEF ClearPage, ClearPageFails
    <3>4. /\ at'[c].pc = "clear"
          /\ ~at'[c].failed => \A q \in Pages \ at'[c].todo : q \notin creating'
      <4>1. CASE ClearPage(c, p)
        <5>1. at'[c] = Answered(c, p, FALSE) /\ creating' = creating \ {p}
          BY <2>1, <4>1 DEF ClearPage
        <5>2. /\ Answered(c, p, FALSE).pc = at[c].pc
              /\ Answered(c, p, FALSE).todo = at[c].todo \ {p}
              /\ ~Answered(c, p, FALSE).failed => ~at[c].failed
          BY <2>0 DEF Answered, Attempt
        <5> QED BY <3>0, <5>1, <5>2 DEF ProgressInv
      <4>2. CASE ClearPageFails(c, p)
        <5>1. at'[c] = Answered(c, p, TRUE)
          BY <2>1, <4>2 DEF ClearPageFails
        <5>2. Answered(c, p, TRUE).pc = at[c].pc /\ Answered(c, p, TRUE).failed
          BY <2>0 DEF Answered, Attempt
        <5> QED BY <3>0, <5>1, <5>2
      <4> QED BY <2>6, <4>1, <4>2
    <3>6. ProgressInv'
      BY <3>0, <3>1, <3>2, <3>3, <3>4, OthersProgress
    <3>7. CompletionInv => CompletionInv'
      BY <3>0, <3>1, CreateConstants
      DEF CompletionInv, SpendableMeansComplete, MasterClearedLast,
          MasterIndicatesCompletion, Spendable
    <3> QED BY <3>6, <3>7
  <2>7. ASSUME NEW c \in Creators, PagesCleared(c) PROVE IInv'
    <3>1. Grows /\ UNCHANGED <<exists, creating, blob, minedEarly>> /\ at[c].pc = "clear" /\ at[c].todo = {}
      BY <2>7 DEF PagesCleared, Grows
    <3>2. \A d \in Creators \ {c} : at'[d] = at[d]
      BY <2>1, <2>7 DEF PagesCleared, Completes
    <3>3. \/ at'[c] = Stage("release", {}, FALSE)
          \/ at'[c] = Stage("clearMaster", {}, at[c].made) /\ ~at[c].failed
      BY <2>1, <2>7 DEF PagesCleared, Completes
    <3>4. ProgressInv'
      BY <3>1, <3>2, <3>3, OthersProgress DEF Stage, ProgressInv
    <3> QED BY <3>1, <3>4, CompletionKept DEF TypeOK
  <2>8. ASSUME NEW c \in Creators, ClearMaster(c) \/ ClearMasterFails(c) PROVE IInv'
    <3>0. exists = Recs /\ blob = "stored" /\ \A p \in Pages : p \notin creating
      BY <2>8 DEF ClearMaster, ClearMasterFails, ProgressInv
    <3>1. /\ UNCHANGED <<exists, blob, minedEarly>>
          /\ creating' \in {creating, creating \ {0}}
      BY <2>8 DEF ClearMaster, ClearMasterFails
    <3>2. Grows
      BY <3>1 DEF Grows
    <3>3. /\ at'[c] = Stage("release", {}, FALSE)
          /\ \A d \in Creators \ {c} : at'[d] = at[d]
      BY <2>1, <2>8 DEF ClearMaster, ClearMasterFails, Completes
    <3>4. ProgressInv'
      BY <3>2, <3>3, OthersProgress DEF Stage
    <3>5. CompletionInv'
      BY <3>0, <3>1, CreateConstants
      DEF CompletionInv, SpendableMeansComplete, MasterClearedLast,
          MasterIndicatesCompletion, Spendable
    <3> QED BY <3>4, <3>5
  <2>9. CASE SetMined
    <3>1. ProgressInv'
      BY <2>9 DEF SetMined, ProgressInv
    <3>2. CompletionInv'
      BY <2>9, CreateConstants
      DEF SetMined, CompletionInv, SpendableMeansComplete, MasterClearedLast,
          MasterIndicatesCompletion, Spendable, TypeOK
    <3> QED BY <3>1, <3>2
  <2>10. CASE UNCHANGED <<exists, creating, blob, at, minedEarly>>
    BY <2>10 DEF ProgressInv, CompletionInv, SpendableMeansComplete,
                 MasterClearedLast,
          MasterIndicatesCompletion, Spendable
  <2> QED
    BY <2>2, <2>3, <2>4, <2>5, <2>6, <2>7, <2>8, <2>9, <2>10
    DEF Next, Proceed, GoesWrong, AcquireLockInDoubt, ExpireLock, vars
<1>3. IInv => SpendableMeansComplete /\ MasterClearedLast
  BY DEF CompletionInv
<1> QED BY <1>1, <1>2, <1>3, TypeCorrect, PTL DEF Spec


\* As long as mining does not come first, a master without the creating flag
\* has all its pages, none of them with the flag: the master is cleared last.
THEOREM MasterLast == Spec => []MasterClearedLast
BY CompletionSafe, PTL

=============================================================================
