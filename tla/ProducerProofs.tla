--------------------------- MODULE ProducerProofs ---------------------------
(***************************************************************************)
(* Proofs about the producer, for any number of pointers, tags, senders and *)
(* forks and any channel capacity: type correctness first, then the         *)
(* inductive invariant IInv and the safety properties it implies.           *)
(***************************************************************************)
EXTENDS ProducerInv, FiniteSetTheorems, TLAPS

(* The number of senders of a tag is a positive number, the number of       *)
(* reports the collector must wait for.                                     *)
LEMMA NSenderIsCount ==
    ASSUME NEW t \in Tag
    PROVE  /\ NSender(t) \in Nat \ {0}
           /\ IsFiniteSet(Reporters(t))
           /\ NSender(t) = Cardinality(Reporters(t))
           /\ Reporters(t) \subseteq Reporter
<1>1. /\ Supports[t] \subseteq Sender /\ IsFiniteSet(Supports[t])
  BY SenderAssumption, FS_Subset
<1>2. CASE Supports[t] = {}
  <2>1. IsFiniteSet({NoSender}) /\ Cardinality({NoSender}) = 1
    BY FS_Singleton
  <2>2. QED
    BY <1>2, <2>1 DEF NSender, Reporters, Reporter
<1>3. CASE Supports[t] # {}
  <2>1. Cardinality(Supports[t]) \in Nat /\ Cardinality(Supports[t]) # 0
    BY <1>1, <1>3, FS_CardinalityType, FS_EmptySet
  <2>2. QED
    BY <1>1, <1>3, <2>1 DEF NSender, Reporters, Reporter
<1>4. QED
  BY <1>2, <1>3

(* The collector holds a pair not counted yet, of an open message whose     *)
(* number of reports is registered; counting it adds one to the count.      *)
LEMMA CollectorHolds ==
    ASSUME IInv, colPc = "count"
    PROVE  /\ colMsg \in Msg /\ colFor \in Reporter /\ msgTag[colMsg] \in Tag
           /\ colMsg \notin inChan \cup Released
           /\ counted[colMsg] \cup {colFor} \subseteq Reporters(msgTag[colMsg])
           /\ colFor \notin counted[colMsg]
           /\ tag2NSender[msgTag[colMsg]] = NSender(msgTag[colMsg])
           /\ IsFiniteSet(counted[colMsg] \cup {colFor})
           /\ Pending.count = Cardinality(counted[colMsg] \cup {colFor})
           /\ Pending.count = Cardinality(counted[colMsg]) + 1
           /\ Cardinality(counted[colMsg]) \in Nat
<1>1. colMsg \in Msg /\ colFor \in Reporter /\ msgTag[colMsg] \in Tag
  BY DEF IInv, TypeOK, OwnerInv
<1>2. /\ AtCollector(colMsg, colFor)
      /\ PairOpen(colMsg, colFor) /\ OnePlace(colMsg, colFor)
  BY <1>1 DEF IInv, PairInv, PlaceInv, AtCollector
<1>3. /\ colMsg \notin inChan \cup Released
      /\ colFor \in Reporters(msgTag[colMsg])
      /\ colFor \notin counted[colMsg]
      /\ tag2NSender[msgTag[colMsg]] = NSender(msgTag[colMsg])
  BY <1>2 DEF PairOpen, OnePlace, PastFork, Reported, AtCounted
<1>4. counted[colMsg] \subseteq Reporters(msgTag[colMsg])
  <2> SUFFICES ASSUME NEW z \in counted[colMsg]
               PROVE  z \in Reporters(msgTag[colMsg])
    OBVIOUS
  <2>1. z \in Reporter
    BY <1>1 DEF IInv, TypeOK
  <2>2. PairOpen(colMsg, z)
    BY <1>1, <2>1 DEF IInv, PairInv
  <2>3. QED
    BY <2>2 DEF PairOpen, AtCounted
<1>5. IsFiniteSet(counted[colMsg])
  BY <1>1, <1>4, NSenderIsCount, FS_Subset
<1>6. /\ Cardinality(counted[colMsg]) \in Nat
      /\ IsFiniteSet(counted[colMsg] \cup {colFor})
      /\ Cardinality(counted[colMsg] \cup {colFor})
            = Cardinality(counted[colMsg]) + 1
  BY <1>3, <1>5, FS_CardinalityType, FS_AddElement
<1>7. discardMsgCountMap[colMsg].count = Cardinality(counted[colMsg])
  BY <1>1, <1>3 DEF IInv, CountInv
<1>8. Pending.count = Cardinality(counted[colMsg]) + 1
  BY <1>7 DEF Pending, PendingKey
<1>9. QED
  BY <1>1, <1>3, <1>4, <1>6, <1>8

(* A fork takes a message nobody has worked on yet: it owes it to everybody. *)
LEMMA ForkRecvStep ==
    ASSUME IInv, NEW f \in Fork, NEW m \in Msg, ForkRecv(f, m)
    PROVE  IInv'
<1> USE DEF ForkRecv, tagVars, senderVars, resultVars, colVars, history
<1>1. TypeOK'
  BY DEF IInv, TypeOK, ForkPcs
<1>2. TablesInv'
  BY DEF IInv, TablesInv
<1>3. ForkInv'
  BY SenderAssumption
  DEF IInv, TypeOK, ForkInv, ForkOk, OwnerInv, Fanned, ForkTag
<1>4. OwnerInv'
  BY DEF IInv, OwnerInv, Released
<1>5. PairInv' /\ PlaceInv'
  <2> SUFFICES ASSUME NEW x \in Msg, NEW z \in Reporter
               PROVE  PairOpen(x, z)' /\ OnePlace(x, z)'
    BY DEF PairInv, PlaceInv
  <2>1. PairOpen(x, z) /\ OnePlace(x, z)
    BY DEF IInv, PairInv, PlaceInv
  <2>2. PairOpen(x, z)'
    BY <2>1
    DEF PairOpen, AtSender, AtSending, AtGood, AtBad, AtCollector, AtCounted,
        Reported, PastFork, Fanned, Released
  <2>3. OnePlace(x, z)'
    BY <2>1
    DEF IInv, CountInv, PairOpen, OnePlace, AtFork, AtSender, AtSending,
        AtGood, AtBad, AtCollector, AtCounted, Reported, PastFork, ForkOwes,
        Fanned, EarlyPcs
  <2>4. QED
    BY <2>2, <2>3
<1>6. CountInv'
  BY DEF IInv, CountInv, Released, Fanned
<1>7. OutcomeInv'
  BY DEF IInv, OutcomeInv, OutcomeOk, FlagOk, AtGood, AtBad, AtCollector,
         AtCounted, Reported
<1>8. ReleaseInv'
  BY DEF IInv, ReleaseInv, CommitOnlyAfterAllSent
<1>9. QED
  BY <1>1, <1>2, <1>3, <1>4, <1>5, <1>6, <1>7, <1>8 DEF IInv

(* An unsupported tag is owed to NoSender alone. *)
LEMMA ForkCheckTagStep ==
    ASSUME IInv, NEW f \in Fork, ForkCheckTag(f)
    PROVE  IInv'
<1> USE DEF ForkCheckTag, poolVars, tagVars, senderVars, resultVars, colVars,
            history, OutsideForks
<1>1. TypeOK'
  BY DEF IInv, TypeOK, ForkPcs, Reporter
<1>2. TablesInv'
  BY DEF IInv, TablesInv
<1>3. ForkInv'
  BY SenderAssumption
  DEF IInv, TypeOK, TablesInv, ForkInv, ForkOk, Fanned, ForkTag, Reporters
<1>4. OwnerInv'
  BY DEF IInv, OwnerInv, Released
<1>5. PairInv' /\ PlaceInv'
  <2> SUFFICES ASSUME NEW x \in Msg, NEW z \in Reporter
               PROVE  PairOpen(x, z)' /\ OnePlace(x, z)'
    BY DEF PairInv, PlaceInv
  <2>1. PairOpen(x, z) /\ OnePlace(x, z)
    BY DEF IInv, PairInv, PlaceInv
  <2>2. PairOpen(x, z)'
    BY <2>1
    DEF PairOpen, AtSender, AtSending, AtGood, AtBad, AtCollector, AtCounted,
        Reported, PastFork, Fanned, Released
  <2>3. OnePlace(x, z)'
    BY <2>1
    DEF PairOpen, OnePlace, AtFork, AtSender, AtSending, AtGood, AtBad,
        AtCollector, AtCounted, Reported, PastFork, ForkOwes, EarlyPcs,
        ForkTag
  <2>4. QED
    BY <2>2, <2>3
<1>6. CountInv'
  BY DEF IInv, CountInv, Released, Fanned
<1>7. OutcomeInv'
  BY DEF IInv, OutcomeInv, OutcomeOk, FlagOk, AtGood, AtBad, AtCollector,
         AtCounted, Reported
<1>8. ReleaseInv'
  BY DEF IInv, ReleaseInv, CommitOnlyAfterAllSent
<1>9. QED
  BY <1>1, <1>2, <1>3, <1>4, <1>5, <1>6, <1>7, <1>8 DEF IInv

(* The cached senders of the tag are the senders that support it. *)
LEMMA ForkLoadCachesStep ==
    ASSUME IInv, NEW f \in Fork, ForkLoadCaches(f)
    PROVE  IInv'
<1> USE DEF ForkLoadCaches, poolVars, tagVars, senderVars, resultVars,
            colVars, history, OutsideForks
<1>1. TypeOK'
  BY DEF IInv, TypeOK, ForkInv, ForkOk, ForkTag, ForkPcs
<1>2. TablesInv'
  BY DEF IInv, TablesInv
<1>3. ForkInv'
  <2> SUFFICES ASSUME NEW g \in Fork
               PROVE  ForkOk(g)'
    BY DEF ForkInv
  <2>1. ForkOk(g) /\ ForkOk(f)
    BY DEF IInv, ForkInv
  <2>2. CASE g = f
    BY SMTT(30), <2>1, <2>2, SenderAssumption, NSenderIsCount
    DEF IInv, TypeOK, TablesInv, ForkOk, Fanned, ForkTag, Reporters
  <2>3. CASE g # f
    BY <2>1, <2>3 DEF ForkOk, Fanned, ForkTag
  <2>4. QED
    BY <2>2, <2>3
<1>4. OwnerInv'
  BY DEF IInv, OwnerInv, Released
<1>5. PairInv' /\ PlaceInv'
  <2> SUFFICES ASSUME NEW x \in Msg, NEW z \in Reporter
               PROVE  PairOpen(x, z)' /\ OnePlace(x, z)'
    BY DEF PairInv, PlaceInv
  <2>1. PairOpen(x, z) /\ OnePlace(x, z)
    BY DEF IInv, PairInv, PlaceInv
  <2>2. PairOpen(x, z)'
    BY <2>1
    DEF PairOpen, AtSender, AtSending, AtGood, AtBad, AtCollector, AtCounted,
        Reported, PastFork, Fanned, Released
  <2>3. OnePlace(x, z)'
    BY <2>1
    DEF PairOpen, OnePlace, AtFork, AtSender, AtSending, AtGood, AtBad,
        AtCollector, AtCounted, Reported, PastFork, ForkOwes, EarlyPcs,
        ForkTag
  <2>4. QED
    BY <2>2, <2>3
<1>6. CountInv'
  BY DEF IInv, CountInv, Released, Fanned
<1>7. OutcomeInv'
  BY DEF IInv, OutcomeInv, OutcomeOk, FlagOk, AtGood, AtBad, AtCollector,
         AtCounted, Reported
<1>8. ReleaseInv'
  BY DEF IInv, ReleaseInv, CommitOnlyAfterAllSent
<1>9. QED
  BY <1>1, <1>2, <1>3, <1>4, <1>5, <1>6, <1>7, <1>8 DEF IInv

(* Taking the mutex moves no message. *)
LEMMA ForkLockStep ==
    ASSUME IInv, NEW f \in Fork, ForkLock(f)
    PROVE  IInv'
<1> USE DEF ForkLock, poolVars, tagVars, senderVars, resultVars, colVars,
            history, OutsideForks
<1>1. TypeOK'
  BY DEF IInv, TypeOK, ForkPcs
<1>2. TablesInv'
  BY DEF IInv, TablesInv
<1>3. ForkInv'
  BY DEF IInv, ForkInv, ForkOk, Fanned, ForkTag
<1>4. OwnerInv'
  BY DEF IInv, OwnerInv, Released
<1>5. PairInv' /\ PlaceInv'
  <2> SUFFICES ASSUME NEW x \in Msg, NEW z \in Reporter
               PROVE  PairOpen(x, z)' /\ OnePlace(x, z)'
    BY DEF PairInv, PlaceInv
  <2>1. PairOpen(x, z) /\ OnePlace(x, z)
    BY DEF IInv, PairInv, PlaceInv
  <2>2. PairOpen(x, z)'
    BY <2>1
    DEF PairOpen, AtSender, AtSending, AtGood, AtBad, AtCollector, AtCounted,
        Reported, PastFork, Fanned, Released
  <2>3. OnePlace(x, z)'
    BY <2>1
    DEF OnePlace, AtFork, AtSender, AtSending, AtGood, AtBad, AtCollector,
        AtCounted, Reported, PastFork, ForkOwes, EarlyPcs, ForkTag
  <2>4. QED
    BY <2>2, <2>3
<1>6. CountInv'
  BY DEF IInv, CountInv, Released, Fanned
<1>7. OutcomeInv'
  BY DEF IInv, OutcomeInv, OutcomeOk, FlagOk, AtGood, AtBad, AtCollector,
         AtCounted, Reported
<1>8. ReleaseInv'
  BY DEF IInv, ReleaseInv, CommitOnlyAfterAllSent
<1>9. QED
  BY <1>1, <1>2, <1>3, <1>4, <1>5, <1>6, <1>7, <1>8 DEF IInv

(* As ForkLoadCaches, under the mutex. *)
LEMMA ForkDoubleCheckHitStep ==
    ASSUME IInv, NEW f \in Fork, ForkDoubleCheckHit(f)
    PROVE  IInv'
<1> USE DEF ForkDoubleCheckHit, poolVars, tagVars, senderVars, resultVars,
            colVars, history, OutsideForks
<1>1. TypeOK'
  BY DEF IInv, TypeOK, ForkInv, ForkOk, ForkTag, ForkPcs
<1>2. TablesInv'
  BY DEF IInv, TablesInv
<1>3. ForkInv'
  BY SenderAssumption, NSenderIsCount
  DEF IInv, TypeOK, TablesInv, ForkInv, ForkOk, Fanned, ForkTag
<1>4. OwnerInv'
  BY DEF IInv, OwnerInv, Released
<1>5. PairInv' /\ PlaceInv'
  <2> SUFFICES ASSUME NEW x \in Msg, NEW z \in Reporter
               PROVE  PairOpen(x, z)' /\ OnePlace(x, z)'
    BY DEF PairInv, PlaceInv
  <2>1. PairOpen(x, z) /\ OnePlace(x, z)
    BY DEF IInv, PairInv, PlaceInv
  <2>2. PairOpen(x, z)'
    BY <2>1
    DEF PairOpen, AtSender, AtSending, AtGood, AtBad, AtCollector, AtCounted,
        Reported, PastFork, Fanned, Released
  <2>3. OnePlace(x, z)'
    BY <2>1
    DEF PairOpen, OnePlace, AtFork, AtSender, AtSending, AtGood, AtBad,
        AtCollector, AtCounted, Reported, PastFork, ForkOwes, EarlyPcs,
        ForkTag
  <2>4. QED
    BY <2>2, <2>3
<1>6. CountInv'
  BY DEF IInv, CountInv, Released, Fanned
<1>7. OutcomeInv'
  BY DEF IInv, OutcomeInv, OutcomeOk, FlagOk, AtGood, AtBad, AtCollector,
         AtCounted, Reported
<1>8. ReleaseInv'
  BY DEF IInv, ReleaseInv, CommitOnlyAfterAllSent
<1>9. QED
  BY <1>1, <1>2, <1>3, <1>4, <1>5, <1>6, <1>7, <1>8 DEF IInv

(* Spawning senders moves no message. *)
LEMMA ForkDoubleCheckMissStep ==
    ASSUME IInv, NEW f \in Fork, ForkDoubleCheckMiss(f)
    PROVE  IInv'
<1> USE DEF ForkDoubleCheckMiss, poolVars, senderVars, resultVars, colVars,
            history
<1>1. TypeOK'
  BY SenderAssumption DEF IInv, TypeOK, ForkInv, ForkOk, ForkTag, ForkPcs
<1>2. TablesInv'
  BY DEF IInv, TablesInv
<1>3. ForkInv'
  BY DEF IInv, ForkInv, ForkOk, Fanned, ForkTag
<1>4. OwnerInv'
  BY DEF IInv, OwnerInv, Released
<1>5. PairInv' /\ PlaceInv'
  <2> SUFFICES ASSUME NEW x \in Msg, NEW z \in Reporter
               PROVE  PairOpen(x, z)' /\ OnePlace(x, z)'
    BY DEF PairInv, PlaceInv
  <2>1. PairOpen(x, z) /\ OnePlace(x, z)
    BY DEF IInv, PairInv, PlaceInv
  <2>2. PairOpen(x, z)'
    BY <2>1
    DEF PairOpen, AtSender, AtSending, AtGood, AtBad, AtCollector, AtCounted,
        Reported, PastFork, Fanned, Released
  <2>3. OnePlace(x, z)'
    BY <2>1
    DEF OnePlace, AtFork, AtSender, AtSending, AtGood, AtBad, AtCollector,
        AtCounted, Reported, PastFork, ForkOwes, EarlyPcs, ForkTag
  <2>4. QED
    BY <2>2, <2>3
<1>6. CountInv'
  BY DEF IInv, CountInv, Released, Fanned
<1>7. OutcomeInv'
  BY DEF IInv, OutcomeInv, OutcomeOk, FlagOk, AtGood, AtBad, AtCollector,
         AtCounted, Reported
<1>8. ReleaseInv'
  BY DEF IInv, ReleaseInv, CommitOnlyAfterAllSent
<1>9. QED
  BY <1>1, <1>2, <1>3, <1>4, <1>5, <1>6, <1>7, <1>8 DEF IInv

(* The registered number is the one CountInv counts up to. *)
LEMMA ForkStoreNStep ==
    ASSUME IInv, NEW f \in Fork, ForkStoreN(f)
    PROVE  IInv'
<1> USE DEF ForkStoreN, poolVars, senderVars, resultVars, colVars, history
<1>1. TypeOK'
  BY NSenderIsCount DEF IInv, TypeOK, ForkPcs
<1>2. TablesInv'
  BY DEF IInv, TablesInv
<1>3. ForkInv'
  <2> SUFFICES ASSUME NEW g \in Fork
               PROVE  ForkOk(g)'
    BY DEF ForkInv
  <2>1. ForkOk(g) /\ ForkOk(f)
    BY DEF IInv, ForkInv
  <2>2. CASE g = f
    BY <2>1 DEF IInv, TypeOK, ForkOk, Fanned, ForkTag
  <2>3. CASE g # f
    BY <2>1, <2>3 DEF ForkOk, Fanned, ForkTag
  <2>4. QED
    BY <2>2, <2>3
<1>4. OwnerInv'
  BY DEF IInv, OwnerInv, Released
<1>5. PairInv' /\ PlaceInv'
  <2> SUFFICES ASSUME NEW x \in Msg, NEW z \in Reporter
               PROVE  PairOpen(x, z)' /\ OnePlace(x, z)'
    BY DEF PairInv, PlaceInv
  <2>1. PairOpen(x, z) /\ OnePlace(x, z)
    BY DEF IInv, PairInv, PlaceInv
  <2>2. PairOpen(x, z)'
    BY <2>1
    DEF PairOpen, AtSender, AtSending, AtGood, AtBad, AtCollector, AtCounted,
        Reported, PastFork, Fanned, Released
  <2>3. OnePlace(x, z)'
    BY <2>1
    DEF OnePlace, AtFork, AtSender, AtSending, AtGood, AtBad, AtCollector,
        AtCounted, Reported, PastFork, ForkOwes, EarlyPcs, ForkTag
  <2>4. QED
    BY <2>2, <2>3
<1>6. CountInv'
  BY DEF IInv, CountInv, Released, Fanned
<1>7. OutcomeInv'
  BY DEF IInv, OutcomeInv, OutcomeOk, FlagOk, AtGood, AtBad, AtCollector,
         AtCounted, Reported
<1>8. ReleaseInv'
  BY DEF IInv, ReleaseInv, CommitOnlyAfterAllSent
<1>9. QED
  BY <1>1, <1>2, <1>3, <1>4, <1>5, <1>6, <1>7, <1>8 DEF IInv

(* The number is registered before the senders are. *)
LEMMA ForkStoreCachesStep ==
    ASSUME IInv, NEW f \in Fork, ForkStoreCaches(f)
    PROVE  IInv'
<1> USE DEF ForkStoreCaches, poolVars, senderVars, resultVars, colVars,
            history
<1>1. TypeOK'
  <2>1. forkMsg[f] \in Msg /\ ForkTag(f) \in Tag
    BY DEF IInv, TypeOK, ForkInv, ForkOk, ForkTag
  <2>2. Supports[ForkTag(f)] \in SUBSET Sender
    BY <2>1, SenderAssumption
  <2>3. QED
    BY <2>2 DEF IInv, TypeOK, ForkPcs
<1>2. TablesInv'
  BY DEF IInv, TablesInv, ForkInv, ForkOk
<1>3. ForkInv'
  <2> SUFFICES ASSUME NEW g \in Fork
               PROVE  ForkOk(g)'
    BY DEF ForkInv
  <2>1. ForkOk(g) /\ ForkOk(f)
    BY DEF IInv, ForkInv
  <2>2. CASE g = f
    BY <2>1 DEF IInv, TypeOK, ForkOk, Fanned, ForkTag
  <2>3. CASE g # f
    BY <2>1, <2>3 DEF ForkOk, Fanned, ForkTag
  <2>4. QED
    BY <2>2, <2>3
<1>4. OwnerInv'
  BY DEF IInv, OwnerInv, Released
<1>5. PairInv' /\ PlaceInv'
  <2> SUFFICES ASSUME NEW x \in Msg, NEW z \in Reporter
               PROVE  PairOpen(x, z)' /\ OnePlace(x, z)'
    BY DEF PairInv, PlaceInv
  <2>1. PairOpen(x, z) /\ OnePlace(x, z)
    BY DEF IInv, PairInv, PlaceInv
  <2>2. PairOpen(x, z)'
    BY <2>1
    DEF PairOpen, AtSender, AtSending, AtGood, AtBad, AtCollector, AtCounted,
        Reported, PastFork, Fanned, Released
  <2>3. OnePlace(x, z)'
    BY <2>1
    DEF IInv, CountInv, PairOpen, OnePlace, AtFork, AtSender, AtSending,
        AtGood, AtBad, AtCollector, AtCounted, Reported, PastFork, ForkOwes,
        Fanned, EarlyPcs
  <2>4. QED
    BY <2>2, <2>3
<1>6. CountInv'
  BY DEF IInv, CountInv, Released, Fanned
<1>7. OutcomeInv'
  BY DEF IInv, OutcomeInv, OutcomeOk, FlagOk, AtGood, AtBad, AtCollector,
         AtCounted, Reported
<1>8. ReleaseInv'
  BY DEF IInv, ReleaseInv, CommitOnlyAfterAllSent
<1>9. QED
  BY <1>1, <1>2, <1>3, <1>4, <1>5, <1>6, <1>7, <1>8 DEF IInv

(* The number is registered before the tag is marked. *)
LEMMA ForkMarkUnsupportedStep ==
    ASSUME IInv, NEW f \in Fork, ForkMarkUnsupported(f)
    PROVE  IInv'
<1> USE DEF ForkMarkUnsupported, poolVars, senderVars, resultVars, colVars,
            history
<1>1. TypeOK'
  BY DEF IInv, TypeOK, ForkInv, ForkOk, ForkTag, ForkPcs, Reporter
<1>2. TablesInv'
  BY DEF IInv, TablesInv, ForkInv, ForkOk
<1>3. ForkInv'
  BY SenderAssumption
  DEF IInv, TypeOK, ForkInv, ForkOk, Fanned, ForkTag, Reporters
<1>4. OwnerInv'
  BY DEF IInv, OwnerInv, Released
<1>5. PairInv' /\ PlaceInv'
  <2> SUFFICES ASSUME NEW x \in Msg, NEW z \in Reporter
               PROVE  PairOpen(x, z)' /\ OnePlace(x, z)'
    BY DEF PairInv, PlaceInv
  <2>1. PairOpen(x, z) /\ OnePlace(x, z)
    BY DEF IInv, PairInv, PlaceInv
  <2>2. PairOpen(x, z)'
    BY <2>1
    DEF PairOpen, AtSender, AtSending, AtGood, AtBad, AtCollector, AtCounted,
        Reported, PastFork, Fanned, Released
  <2>3. OnePlace(x, z)'
    BY <2>1
    DEF PairOpen, OnePlace, AtFork, AtSender, AtSending, AtGood, AtBad,
        AtCollector, AtCounted, Reported, PastFork, ForkOwes, EarlyPcs,
        ForkTag
  <2>4. QED
    BY <2>2, <2>3
<1>6. CountInv'
  BY DEF IInv, CountInv, Released, Fanned
<1>7. OutcomeInv'
  BY DEF IInv, OutcomeInv, OutcomeOk, FlagOk, AtGood, AtBad, AtCollector,
         AtCounted, Reported
<1>8. ReleaseInv'
  BY DEF IInv, ReleaseInv, CommitOnlyAfterAllSent
<1>9. QED
  BY <1>1, <1>2, <1>3, <1>4, <1>5, <1>6, <1>7, <1>8 DEF IInv

(* The pair moves from the fork to the sender's channel. *)
LEMMA ForkSendStep ==
    ASSUME IInv, NEW f \in Fork, NEW s \in Sender, ForkSend(f, s)
    PROVE  IInv'
<1> USE DEF ForkSend, ForkContinue, poolVars, tagVars, resultVars, colVars,
            history
<1>1. TypeOK'
  BY DEF IInv, TypeOK, ForkInv, ForkOk, ForkPcs
<1>2. TablesInv'
  BY DEF IInv, TablesInv
<1>3. ForkInv'
  BY SenderAssumption DEF IInv, TypeOK, ForkInv, ForkOk, Fanned, ForkTag
<1>4. OwnerInv'
  BY NoneAssumption DEF IInv, TypeOK, OwnerInv, Released
<1>5. PairInv' /\ PlaceInv'
  <2> SUFFICES ASSUME NEW x \in Msg, NEW z \in Reporter
               PROVE  PairOpen(x, z)' /\ OnePlace(x, z)'
    BY DEF PairInv, PlaceInv
  <2>1. PairOpen(x, z) /\ OnePlace(x, z)
    BY DEF IInv, PairInv, PlaceInv
  <2>2. PairOpen(x, z)'
    BY <2>1, NoneAssumption
    DEF IInv, TypeOK, ForkInv, ForkOk, OwnerInv, PairOpen, AtSender,
        AtSending, AtGood, AtBad, AtCollector, AtCounted, Reported, PastFork,
        Fanned, ForkTag, Released, Reporters
  <2>3. OnePlace(x, z)'
    BY <2>1
    DEF IInv, TypeOK, ForkInv, ForkOk, OwnerInv, CountInv, PairOpen, OnePlace,
        AtFork, AtSender, AtSending, AtGood, AtBad, AtCollector, AtCounted,
        Reported, PastFork, ForkOwes, Fanned, EarlyPcs
  <2>4. QED
    BY <2>2, <2>3
<1>6. CountInv'
  BY NoneAssumption DEF IInv, TypeOK, CountInv, Released, Fanned
<1>7. OutcomeInv'
  BY DEF IInv, OutcomeInv, OutcomeOk, FlagOk, AtGood, AtBad, AtCollector,
         AtCounted, Reported
<1>8. ReleaseInv'
  BY DEF IInv, ReleaseInv, CommitOnlyAfterAllSent
<1>9. QED
  BY <1>1, <1>2, <1>3, <1>4, <1>5, <1>6, <1>7, <1>8 DEF IInv

(* The pair stays with the fork, which will report it. *)
LEMMA ForkRefusedStep ==
    ASSUME IInv, NEW f \in Fork, NEW s \in Sender, ForkRefused(f, s)
    PROVE  IInv'
<1> USE DEF ForkRefused, poolVars, tagVars, senderVars, resultVars, colVars,
            history, OutsideForks
<1>1. TypeOK'
  BY DEF IInv, TypeOK, ForkPcs, Reporter
<1>2. TablesInv'
  BY DEF IInv, TablesInv
<1>3. ForkInv'
  BY DEF IInv, TypeOK, TablesInv, ForkInv, ForkOk, OwnerInv, Fanned, ForkTag,
         Released, Reporter, Reporters
<1>4. OwnerInv'
  BY DEF IInv, OwnerInv, Released
<1>5. PairInv' /\ PlaceInv'
  <2> SUFFICES ASSUME NEW x \in Msg, NEW z \in Reporter
               PROVE  PairOpen(x, z)' /\ OnePlace(x, z)'
    BY DEF PairInv, PlaceInv
  <2>1. PairOpen(x, z) /\ OnePlace(x, z)
    BY DEF IInv, PairInv, PlaceInv
  <2>2. PairOpen(x, z)'
    BY <2>1
    DEF PairOpen, AtSender, AtSending, AtGood, AtBad, AtCollector, AtCounted,
        Reported, PastFork, Fanned, Released
  <2>3. OnePlace(x, z)'
    BY <2>1
    DEF IInv, TypeOK, CountInv, PairOpen, OnePlace, AtFork, AtSender,
        AtSending, AtGood, AtBad, AtCollector, AtCounted, Reported, PastFork,
        ForkOwes, Fanned, EarlyPcs
  <2>4. QED
    BY <2>2, <2>3
<1>6. CountInv'
  BY DEF IInv, CountInv, Released, Fanned
<1>7. OutcomeInv'
  BY DEF IInv, OutcomeInv, OutcomeOk, FlagOk, AtGood, AtBad, AtCollector,
         AtCounted, Reported
<1>8. ReleaseInv'
  BY DEF IInv, ReleaseInv, CommitOnlyAfterAllSent
<1>9. QED
  BY <1>1, <1>2, <1>3, <1>4, <1>5, <1>6, <1>7, <1>8 DEF IInv

(* The pair moves from the fork to successedChan. *)
LEMMA ForkReportGoodStep ==
    ASSUME IInv, NEW f \in Fork, ForkReportGood(f)
    PROVE  IInv'
<1> USE DEF ForkReportGood, ForkContinue, poolVars, tagVars, senderVars,
            colVars
<1>1. TypeOK'
  BY DEF IInv, TypeOK, ForkInv, ForkOk, ForkPcs
<1>2. TablesInv'
  BY DEF IInv, TablesInv
<1>3. ForkInv'
  BY SenderAssumption DEF IInv, TypeOK, ForkInv, ForkOk, Fanned, ForkTag
<1>4. OwnerInv'
  BY NoneAssumption DEF IInv, TypeOK, OwnerInv, Released
<1>5. PairInv' /\ PlaceInv'
  <2> SUFFICES ASSUME NEW x \in Msg, NEW z \in Reporter
               PROVE  PairOpen(x, z)' /\ OnePlace(x, z)'
    BY DEF PairInv, PlaceInv
  <2>1. PairOpen(x, z) /\ OnePlace(x, z)
    BY DEF IInv, PairInv, PlaceInv
  <2>2. PairOpen(x, z)'
    BY <2>1, NoneAssumption
    DEF IInv, TypeOK, ForkInv, ForkOk, OwnerInv, PairOpen, AtSender,
        AtSending, AtGood, AtBad, AtCollector, AtCounted, Reported, PastFork,
        Fanned, ForkTag, Released
  <2>3. OnePlace(x, z)'
    BY <2>1
    DEF IInv, TypeOK, ForkInv, ForkOk, OwnerInv, CountInv, PairOpen, OnePlace,
        AtFork, AtSender, AtSending, AtGood, AtBad, AtCollector, AtCounted,
        Reported, PastFork, ForkOwes, Fanned, EarlyPcs
  <2>4. QED
    BY <2>2, <2>3
<1>6. CountInv'
  BY NoneAssumption DEF IInv, TypeOK, CountInv, Released, Fanned
<1>7. OutcomeInv'
  BY SenderAssumption
  DEF IInv, TypeOK, OutcomeInv, OutcomeOk, FlagOk, AtGood, AtBad, AtCollector,
      AtCounted, Reported
<1>8. ReleaseInv'
  BY DEF IInv, ReleaseInv, CommitOnlyAfterAllSent
<1>9. QED
  BY <1>1, <1>2, <1>3, <1>4, <1>5, <1>6, <1>7, <1>8 DEF IInv

(* The pair moves from the fork to failedChan. *)
LEMMA ForkReportFailedStep ==
    ASSUME IInv, NEW f \in Fork, ForkReportFailed(f)
    PROVE  IInv'
<1> USE DEF ForkReportFailed, ForkContinue, poolVars, tagVars, senderVars,
            colVars
<1>1. TypeOK'
  BY DEF IInv, TypeOK, ForkInv, ForkOk, ForkPcs
<1>2. TablesInv'
  BY DEF IInv, TablesInv
<1>3. ForkInv'
  BY SenderAssumption DEF IInv, TypeOK, ForkInv, ForkOk, Fanned, ForkTag
<1>4. OwnerInv'
  BY NoneAssumption DEF IInv, TypeOK, OwnerInv, Released
<1>5. PairInv' /\ PlaceInv'
  <2> SUFFICES ASSUME NEW x \in Msg, NEW z \in Reporter
               PROVE  PairOpen(x, z)' /\ OnePlace(x, z)'
    BY DEF PairInv, PlaceInv
  <2>1. PairOpen(x, z) /\ OnePlace(x, z)
    BY DEF IInv, PairInv, PlaceInv
  <2>2. PairOpen(x, z)'
    BY <2>1, NoneAssumption
    DEF IInv, TypeOK, ForkInv, ForkOk, OwnerInv, PairOpen, AtSender,
        AtSending, AtGood, AtBad, AtCollector, AtCounted, Reported, PastFork,
        Fanned, ForkTag, Released
  <2>3. OnePlace(x, z)'
    BY <2>1
    DEF IInv, TypeOK, ForkInv, ForkOk, OwnerInv, CountInv, PairOpen, OnePlace,
        AtFork, AtSender, AtSending, AtGood, AtBad, AtCollector, AtCounted,
        Reported, PastFork, ForkOwes, Fanned, EarlyPcs
  <2>4. QED
    BY <2>2, <2>3
<1>6. CountInv'
  BY NoneAssumption DEF IInv, TypeOK, CountInv, Released, Fanned
<1>7. OutcomeInv'
  <2>1. ASSUME NEW x \in Msg, NEW z \in Reporter PROVE OutcomeOk(x, z)'
    <3>1. OutcomeOk(x, z)
      BY DEF IInv, OutcomeInv
    <3>2. QED
      BY <3>1
      DEF IInv, TypeOK, OutcomeOk, Reported, AtGood, AtBad, AtCollector,
          AtCounted
  <2>2. ASSUME NEW x \in Msg PROVE FlagOk(x)'
    <3>1. FlagOk(x)
      BY DEF IInv, OutcomeInv
    <3>2. ASSUME failed'[x] # failed[x]
          PROVE  failed'[x] \cap counted[x] = failed[x] \cap counted[x]
      BY DEF IInv, TypeOK, PlaceInv, OnePlace, ForkOwes, AtFork, AtCounted
    <3>3. QED
      BY <3>1, <3>2 DEF FlagOk
  <2>3. QED
    BY <2>1, <2>2 DEF OutcomeInv
<1>8. ReleaseInv'
  BY DEF IInv, OwnerInv, ReleaseInv, CommitOnlyAfterAllSent, Released
<1>9. QED
  BY <1>1, <1>2, <1>3, <1>4, <1>5, <1>6, <1>7, <1>8 DEF IInv

(* The pair moves from the sender's channel to its batch. *)
LEMMA SenderTakeStep ==
    ASSUME IInv, NEW s \in Sender, NEW m \in Msg, SenderTake(s, m)
    PROVE  IInv'
<1> USE DEF SenderTake, poolVars, forkVars, tagVars, resultVars, colVars,
            history, OutsideSenders
<1>1. TypeOK'
  BY DEF IInv, TypeOK
<1>2. TablesInv'
  BY DEF IInv, TablesInv
<1>3. ForkInv'
  BY DEF IInv, ForkInv, ForkOk, Fanned, ForkTag
<1>4. OwnerInv'
  BY DEF IInv, OwnerInv, Released
<1>5. PairInv' /\ PlaceInv'
  <2> SUFFICES ASSUME NEW x \in Msg, NEW z \in Reporter
               PROVE  PairOpen(x, z)' /\ OnePlace(x, z)'
    BY DEF PairInv, PlaceInv
  <2>1. PairOpen(x, z) /\ OnePlace(x, z)
    BY DEF IInv, PairInv, PlaceInv
  <2>2. PairOpen(x, z)'
    BY <2>1
    DEF PairOpen, AtSender, AtSending, AtGood, AtBad, AtCollector, AtCounted,
        Reported, PastFork, Fanned, Released
  <2>3. OnePlace(x, z)'
    BY <2>1
    DEF IInv, TypeOK, CountInv, PairOpen, OnePlace, AtFork, AtSender,
        AtSending, AtGood, AtBad, AtCollector, AtCounted, Reported, PastFork,
        ForkOwes, Fanned, EarlyPcs
  <2>4. QED
    BY <2>2, <2>3
<1>6. CountInv'
  BY DEF IInv, CountInv, Released, Fanned
<1>7. OutcomeInv'
  BY DEF IInv, OutcomeInv, OutcomeOk, FlagOk, AtGood, AtBad, AtCollector,
         AtCounted, Reported
<1>8. ReleaseInv'
  BY DEF IInv, ReleaseInv, CommitOnlyAfterAllSent
<1>9. QED
  BY <1>1, <1>2, <1>3, <1>4, <1>5, <1>6, <1>7, <1>8 DEF IInv

(* The pair moves from the batch to successedChan. *)
LEMMA SenderSuccessStep ==
    ASSUME IInv, NEW s \in Sender, NEW m \in Msg, SenderSuccess(s, m)
    PROVE  IInv'
<1> USE DEF SenderSuccess, poolVars, forkVars, tagVars, colVars,
            OutsideSenders
<1>1. TypeOK'
  BY DEF IInv, TypeOK, Reporter
<1>2. TablesInv'
  BY DEF IInv, TablesInv
<1>3. ForkInv'
  BY DEF IInv, ForkInv, ForkOk, Fanned, ForkTag
<1>4. OwnerInv'
  BY DEF IInv, OwnerInv, Released
<1>5. PairInv' /\ PlaceInv'
  <2> SUFFICES ASSUME NEW x \in Msg, NEW z \in Reporter
               PROVE  PairOpen(x, z)' /\ OnePlace(x, z)'
    BY DEF PairInv, PlaceInv
  <2>1. PairOpen(x, z) /\ OnePlace(x, z)
    BY DEF IInv, PairInv, PlaceInv
  <2>2. PairOpen(x, z)'
    BY <2>1
    DEF PairOpen, AtSender, AtSending, AtGood, AtBad, AtCollector, AtCounted,
        Reported, PastFork, Fanned, Released
  <2>3. OnePlace(x, z)'
    BY <2>1
    DEF IInv, TypeOK, CountInv, PairOpen, OnePlace, AtFork, AtSender,
        AtSending, AtGood, AtBad, AtCollector, AtCounted, Reported, PastFork,
        ForkOwes, Fanned, EarlyPcs
  <2>4. QED
    BY <2>2, <2>3
<1>6. CountInv'
  BY DEF IInv, CountInv, Released, Fanned
<1>7. OutcomeInv'
  BY DEF IInv, TypeOK, OutcomeInv, OutcomeOk, FlagOk, AtGood, AtBad,
         AtCollector, AtCounted, Reported
<1>8. ReleaseInv'
  BY DEF IInv, ReleaseInv, CommitOnlyAfterAllSent
<1>9. QED
  BY <1>1, <1>2, <1>3, <1>4, <1>5, <1>6, <1>7, <1>8 DEF IInv

(* The pair moves from the batch to failedChan. *)
LEMMA SenderFailureStep ==
    ASSUME IInv, NEW s \in Sender, NEW m \in Msg, SenderFailure(s, m)
    PROVE  IInv'
<1> USE DEF SenderFailure, poolVars, forkVars, tagVars, colVars,
            OutsideSenders
<1>1. TypeOK'
  BY DEF IInv, TypeOK, Reporter
<1>2. TablesInv'
  BY DEF IInv, TablesInv
<1>3. ForkInv'
  BY DEF IInv, ForkInv, ForkOk, Fanned, ForkTag
<1>4. OwnerInv'
  BY DEF IInv, OwnerInv, Released
<1>5. PairInv' /\ PlaceInv'
  <2> SUFFICES ASSUME NEW x \in Msg, NEW z \in Reporter
               PROVE  PairOpen(x, z)' /\ OnePlace(x, z)'
    BY DEF PairInv, PlaceInv
  <2>1. PairOpen(x, z) /\ OnePlace(x, z)
    BY DEF IInv, PairInv, PlaceInv
  <2>2. PairOpen(x, z)'
    BY <2>1
    DEF PairOpen, AtSender, AtSending, AtGood, AtBad, AtCollector, AtCounted,
        Reported, PastFork, Fanned, Released
  <2>3. OnePlace(x, z)'
    BY <2>1
    DEF IInv, TypeOK, CountInv, PairOpen, OnePlace, AtFork, AtSender,
        AtSending, AtGood, AtBad, AtCollector, AtCounted, Reported, PastFork,
        ForkOwes, Fanned, EarlyPcs
  <2>4. QED
    BY <2>2, <2>3
<1>6. CountInv'
  BY DEF IInv, CountInv, Released, Fanned
<1>7. OutcomeInv'
  <2>1. ASSUME NEW x \in Msg, NEW z \in Reporter PROVE OutcomeOk(x, z)'
    <3>1. OutcomeOk(x, z)
      BY DEF IInv, OutcomeInv
    <3>2. QED
      BY <3>1
      DEF IInv, TypeOK, OutcomeOk, Reported, AtGood, AtBad, AtCollector,
          AtCounted
  <2>2. ASSUME NEW x \in Msg PROVE FlagOk(x)'
    <3>1. FlagOk(x)
      BY DEF IInv, OutcomeInv
    <3>2. ASSUME failed'[x] # failed[x]
          PROVE  failed'[x] \cap counted[x] = failed[x] \cap counted[x]
      BY DEF IInv, TypeOK, PlaceInv, OnePlace, AtSending, AtCounted
    <3>3. QED
      BY <3>1, <3>2 DEF FlagOk
  <2>3. QED
    BY <2>1, <2>2 DEF OutcomeInv
<1>8. ReleaseInv'
  <2>1. m \notin Released
    BY DEF IInv, PairInv, PairOpen, PastFork, AtSending, Reporter
  <2>2. QED
    BY <2>1 DEF IInv, ReleaseInv, CommitOnlyAfterAllSent, Released
<1>9. QED
  BY <1>1, <1>2, <1>3, <1>4, <1>5, <1>6, <1>7, <1>8 DEF IInv

(* The pair moves from successedChan to the collector. *)
LEMMA CollectorRecvSuccessStep ==
    ASSUME IInv, NEW m \in Msg, NEW r \in Reporter, CollectorRecvSuccess(m, r)
    PROVE  IInv'
<1> USE DEF CollectorRecvSuccess, poolVars, forkVars, tagVars, senderVars,
            history, OutsideCollector
<1>1. TypeOK'
  BY DEF IInv, TypeOK
<1>2. TablesInv'
  BY DEF IInv, TablesInv
<1>3. ForkInv'
  BY DEF IInv, ForkInv, ForkOk, Fanned, ForkTag
<1>4. OwnerInv'
  BY NoneAssumption DEF IInv, OwnerInv, Released
<1>5. PairInv' /\ PlaceInv'
  <2> SUFFICES ASSUME NEW x \in Msg, NEW z \in Reporter
               PROVE  PairOpen(x, z)' /\ OnePlace(x, z)'
    BY DEF PairInv, PlaceInv
  <2>1. PairOpen(x, z) /\ OnePlace(x, z)
    BY DEF IInv, PairInv, PlaceInv
  <2>2. PairOpen(x, z)'
    BY <2>1
    DEF PairOpen, AtSender, AtSending, AtGood, AtBad, AtCollector, AtCounted,
        Reported, PastFork, Fanned, Released
  <2>3. OnePlace(x, z)'
    <3>1. /\ AtFork(x, z)' <=> AtFork(x, z)
          /\ AtSender(x, z)' <=> AtSender(x, z)
          /\ AtSending(x, z)' <=> AtSending(x, z)
          /\ AtBad(x, z)' <=> AtBad(x, z)
          /\ AtCounted(x, z)' <=> AtCounted(x, z)
      BY DEF AtFork, ForkOwes, ForkTag, EarlyPcs, Reporters, AtSender,
             AtSending, AtBad, AtCounted
    <3>2. AtGood(x, z)' => AtGood(x, z) /\ <<x, z>> # <<m, r>>
      BY DEF AtGood
    <3>3. AtCollector(x, z)' => <<x, z>> = <<m, r>> /\ AtGood(x, z)
      BY DEF AtCollector, AtGood
    <3>4. QED
      BY <2>1, <3>1, <3>2, <3>3 DEF OnePlace, PastFork, Reported
  <2>4. QED
    BY <2>2, <2>3
<1>6. CountInv'
  BY DEF IInv, CountInv, Released, Fanned
<1>7. OutcomeInv'
  BY DEF IInv, OutcomeInv, OutcomeOk, FlagOk, AtGood, AtBad, AtCollector,
         AtCounted, Reported
<1>8. ReleaseInv'
  BY DEF IInv, ReleaseInv, CommitOnlyAfterAllSent
<1>9. QED
  BY <1>1, <1>2, <1>3, <1>4, <1>5, <1>6, <1>7, <1>8 DEF IInv

(* The pair moves from failedChan to the collector. *)
LEMMA CollectorRecvFailureStep ==
    ASSUME IInv, NEW m \in Msg, NEW r \in Reporter, CollectorRecvFailure(m, r)
    PROVE  IInv'
<1> USE DEF CollectorRecvFailure, poolVars, forkVars, tagVars, senderVars,
            history, OutsideCollector
<1>1. TypeOK'
  BY DEF IInv, TypeOK
<1>2. TablesInv'
  BY DEF IInv, TablesInv
<1>3. ForkInv'
  BY DEF IInv, ForkInv, ForkOk, Fanned, ForkTag
<1>4. OwnerInv'
  BY NoneAssumption DEF IInv, OwnerInv, Released
<1>5. PairInv' /\ PlaceInv'
  <2> SUFFICES ASSUME NEW x \in Msg, NEW z \in Reporter
               PROVE  PairOpen(x, z)' /\ OnePlace(x, z)'
    BY DEF PairInv, PlaceInv
  <2>1. PairOpen(x, z) /\ OnePlace(x, z)
    BY DEF IInv, PairInv, PlaceInv
  <2>2. PairOpen(x, z)'
    BY <2>1
    DEF PairOpen, AtSender, AtSending, AtGood, AtBad, AtCollector, AtCounted,
        Reported, PastFork, Fanned, Released
  <2>3. OnePlace(x, z)'
    <3>1. /\ AtFork(x, z)' <=> AtFork(x, z)
          /\ AtSender(x, z)' <=> AtSender(x, z)
          /\ AtSending(x, z)' <=> AtSending(x, z)
          /\ AtGood(x, z)' <=> AtGood(x, z)
          /\ AtCounted(x, z)' <=> AtCounted(x, z)
      BY DEF AtFork, ForkOwes, ForkTag, EarlyPcs, Reporters, AtSender,
             AtSending, AtGood, AtCounted
    <3>2. AtBad(x, z)' => AtBad(x, z) /\ <<x, z>> # <<m, r>>
      BY DEF AtBad
    <3>3. AtCollector(x, z)' => <<x, z>> = <<m, r>> /\ AtBad(x, z)
      BY DEF AtCollector, AtBad
    <3>4. QED
      BY <2>1, <3>1, <3>2, <3>3 DEF OnePlace, PastFork, Reported
  <2>4. QED
    BY <2>2, <2>3
<1>6. CountInv'
  BY DEF IInv, CountInv, Released, Fanned
<1>7. OutcomeInv'
  BY DEF IInv, OutcomeInv, OutcomeOk, FlagOk, AtGood, AtBad, AtCollector,
         AtCounted, Reported
<1>8. ReleaseInv'
  BY DEF IInv, ReleaseInv, CommitOnlyAfterAllSent
<1>9. QED
  BY <1>1, <1>2, <1>3, <1>4, <1>5, <1>6, <1>7, <1>8 DEF IInv

(* The pair becomes counted; others are still on their way. *)
LEMMA CollectorStoreStep ==
    ASSUME IInv, CollectorStore
    PROVE  IInv'
<1> USE DEF CollectorStore, CollectorReset, PendingKey, poolVars, forkVars,
            tagVars, senderVars, resultVars, OutsideCollector
<1>0. Pending \in [count : Nat, isAllSuccessed : BOOLEAN]
  BY CollectorHolds DEF IInv, TypeOK, Pending
<1>1. TypeOK'
  BY <1>0 DEF IInv, TypeOK, Reporter
<1>2. TablesInv'
  BY DEF IInv, TablesInv
<1>3. ForkInv'
  BY DEF IInv, ForkInv, ForkOk, Fanned, ForkTag
<1>4. OwnerInv'
  BY DEF IInv, OwnerInv, Released
<1>5. PairInv' /\ PlaceInv'
  <2> SUFFICES ASSUME NEW x \in Msg, NEW z \in Reporter
               PROVE  PairOpen(x, z)' /\ OnePlace(x, z)'
    BY DEF PairInv, PlaceInv
  <2>1. PairOpen(x, z) /\ OnePlace(x, z)
    BY DEF IInv, PairInv, PlaceInv
  <2>2. PairOpen(x, z)'
    BY <2>1
    DEF PairOpen, AtSender, AtSending, AtGood, AtBad, AtCollector, AtCounted,
        Reported, PastFork, Fanned, Released
  <2>3. OnePlace(x, z)'
    BY <2>1
    DEF OnePlace, AtFork, AtSender, AtSending, AtGood, AtBad, AtCollector,
        AtCounted, Reported, PastFork, ForkOwes, ForkTag
  <2>4. QED
    BY <2>2, <2>3
<1>6. CountInv'
  <2> SUFFICES ASSUME NEW x \in Msg
               PROVE  /\ x \in inChan => counted'[x] = {}
                      /\ \A f \in Fork :
                            forkMsg[f] = x /\ ~Fanned(f) => counted'[x] = {}
                      /\ discardMsgCountMap'[x].count =
                            IF x \in Released' THEN 0
                            ELSE Cardinality(counted'[x])
                      /\ discardMsgCountMap'[x].count = 0
                            => discardMsgCountMap'[x] = NoPending
    BY DEF CountInv, Fanned
  <2>1. CASE x = colMsg
    <3>1. /\ discardMsgCountMap'[x] = Pending
          /\ counted'[x] = counted[x] \cup {colFor}
      BY <2>1 DEF IInv, TypeOK
    <3>2. \A f \in Fork : forkMsg[f] = x => Fanned(f)
      BY <2>1, CollectorHolds
      DEF IInv, PairInv, PairOpen, PastFork, Reported, AtCollector
    <3>3. x \notin Released'
      BY <2>1, CollectorHolds DEF Released
    <3>4. Cardinality(counted'[x]) = Pending.count /\ Pending.count # 0
      <4>1. counted'[x] = counted[colMsg] \cup {colFor}
        BY <2>1, <3>1
      <4>2. /\ Pending.count = Cardinality(counted[colMsg] \cup {colFor})
            /\ Pending.count # 0
        BY CollectorHolds
      <4>3. QED
        BY <4>1, <4>2
    <3>5. x \notin inChan
      BY <2>1, CollectorHolds
    <3>6. QED
      BY <3>1, <3>2, <3>3, <3>4, <3>5
  <2>2. CASE x # colMsg
    BY <2>2 DEF IInv, CountInv, Released
  <2>3. QED
    BY <2>1, <2>2
<1>7. OutcomeInv'
  <2>1. ASSUME NEW x \in Msg, NEW z \in Reporter PROVE OutcomeOk(x, z)'
    <3>1. OutcomeOk(x, z)
      BY DEF IInv, OutcomeInv
    <3>2. QED
      BY <3>1
      DEF IInv, TypeOK, OutcomeOk, Reported, AtGood, AtBad, AtCollector,
          AtCounted
  <2>2. ASSUME NEW x \in Msg PROVE FlagOk(x)'
    <3>1. FlagOk(x)
      BY DEF IInv, OutcomeInv
    <3>2. colFor \in failed[colMsg] <=> ~colOk
      BY CollectorHolds
      DEF IInv, OutcomeInv, OutcomeOk, PlaceInv, OnePlace, AtCollector
    <3>3. CASE x = colMsg
      <4>1. discardMsgCountMap[x].count = Cardinality(counted[x])
        BY <3>3, CollectorHolds DEF IInv, CountInv
      <4>2. counted[x] # {} => discardMsgCountMap[x].count # 0
        <5>1. IsFiniteSet(counted[x])
          BY <3>3, CollectorHolds, FS_Subset
        <5>2. QED
          BY <4>1, <5>1, FS_EmptySet
      <4>3. QED
        BY <3>1, <3>2, <3>3, <4>2 DEF FlagOk, Pending, IInv, TypeOK
    <3>4. CASE x # colMsg
      BY <3>1, <3>4 DEF FlagOk
    <3>5. QED
      BY <3>3, <3>4
  <2>3. QED
    BY <2>1, <2>2 DEF OutcomeInv
<1>8. ReleaseInv'
  BY DEF IInv, ReleaseInv, CommitOnlyAfterAllSent
<1>9. QED
  BY <1>1, <1>2, <1>3, <1>4, <1>5, <1>6, <1>7, <1>8 DEF IInv

(* The last pair is counted: the message is in nobody's hand. *)
LEMMA CollectorCompleteStep ==
    ASSUME IInv, CollectorComplete
    PROVE  IInv'
<1> USE DEF CollectorComplete, PendingKey, poolVars, forkVars, tagVars,
            senderVars, resultVars, OutsideCollector
<1>a. counted[colMsg] \cup {colFor} = Reporters(msgTag[colMsg])
  <2>1. /\ IsFiniteSet(Reporters(msgTag[colMsg]))
        /\ Cardinality(counted[colMsg] \cup {colFor})
              = Cardinality(Reporters(msgTag[colMsg]))
    BY CollectorHolds, NSenderIsCount
  <2>2. QED
    BY <2>1, CollectorHolds, FS_Subset
<1>b. ASSUME NEW z \in Reporter, z \in Reporters(msgTag[colMsg])
      PROVE  /\ ~AtFork(colMsg, z) /\ ~AtSender(colMsg, z)
             /\ ~AtSending(colMsg, z) /\ ~AtGood(colMsg, z) /\ ~AtBad(colMsg, z)
  <2>1. OnePlace(colMsg, z)
    BY CollectorHolds DEF IInv, PlaceInv
  <2>2. AtCounted(colMsg, z) \/ AtCollector(colMsg, z)
    BY <1>a, <1>b DEF AtCounted, AtCollector
  <2>3. QED
    BY <2>1, <2>2 DEF OnePlace, PastFork, Reported
<1>c. ASSUME NEW z \in Reporter
      PROVE  /\ ~AtSender(colMsg, z) /\ ~AtSending(colMsg, z)
             /\ ~AtGood(colMsg, z) /\ ~AtBad(colMsg, z)
  <2>1. PairOpen(colMsg, z)
    BY CollectorHolds DEF IInv, PairInv
  <2>2. QED
    BY <1>b, <2>1 DEF PairOpen, PastFork, Reported
<1>d. \A f \in Fork : forkMsg[f] # colMsg
  <2> SUFFICES ASSUME NEW f \in Fork, forkMsg[f] = colMsg
               PROVE  FALSE
    OBVIOUS
  <2>1. /\ ForkOk(f) /\ forkPc[f] \in ForkPcs /\ todo[f] \subseteq Sender
        /\ forkFor[f] \in Reporter /\ colMsg # None
    BY CollectorHolds, NoneAssumption DEF IInv, TypeOK, ForkInv
  <2>2. Fanned(f)
    BY CollectorHolds
    DEF IInv, PairInv, PairOpen, PastFork, Reported, AtCollector
  <2>3. PICK z \in Reporter : z \in Reporters(msgTag[colMsg]) /\ ForkOwes(f, z)
    <3>1. CASE forkPc[f] = "fanOut"
      BY <2>1, <3>1 DEF ForkOk, ForkOwes, ForkTag, Reporters, Reporter
    <3>2. CASE forkPc[f] = "report"
      BY <2>1, <3>2 DEF ForkOk, ForkOwes, ForkTag
    <3>3. QED
      BY <2>2, <3>1, <3>2 DEF Fanned
  <2>4. QED
    BY <1>b, <2>3 DEF AtFork
<1>0. Pending \in [count : Nat, isAllSuccessed : BOOLEAN]
  BY CollectorHolds DEF IInv, TypeOK, Pending
<1>1. TypeOK'
  BY <1>0 DEF IInv, TypeOK, NoPending
<1>2. TablesInv'
  BY DEF IInv, TablesInv
<1>3. ForkInv'
  BY DEF IInv, ForkInv, ForkOk, Fanned, ForkTag
<1>4. OwnerInv'
  BY <1>d, CollectorHolds DEF IInv, OwnerInv, Released
<1>5. PairInv' /\ PlaceInv'
  <2> SUFFICES ASSUME NEW x \in Msg, NEW z \in Reporter
               PROVE  PairOpen(x, z)' /\ OnePlace(x, z)'
    BY DEF PairInv, PlaceInv
  <2>1. PairOpen(x, z) /\ OnePlace(x, z)
    BY DEF IInv, PairInv, PlaceInv
  <2>2. CASE x = colMsg
    <3>1. ~AtFork(x, z)' /\ ~PastFork(x, z)'
      BY <1>c, <1>d, <2>2
      DEF AtFork, PastFork, Reported, AtSender, AtSending, AtGood, AtBad,
          AtCollector
    <3>2. AtCounted(x, z)' => z \in Reporters(msgTag[x])
      BY <2>2, CollectorHolds DEF AtCounted
    <3>3. QED
      BY <3>1, <3>2 DEF PairOpen, OnePlace, PastFork, Reported
  <2>3. CASE x # colMsg
    BY <2>1, <2>3
    DEF IInv, PairOpen, OnePlace, PastFork, Reported, AtFork, AtSender,
        AtSending, AtGood, AtBad, AtCollector, AtCounted, ForkOwes, ForkTag,
        Fanned, Released
  <2>4. QED
    BY <2>2, <2>3
<1>6. CountInv'
  <2> SUFFICES ASSUME NEW x \in Msg
               PROVE  /\ x \in inChan => counted'[x] = {}
                      /\ \A f \in Fork :
                            forkMsg[f] = x /\ ~Fanned(f) => counted'[x] = {}
                      /\ discardMsgCountMap'[x].count =
                            IF x \in Released' THEN 0
                            ELSE Cardinality(counted'[x])
                      /\ discardMsgCountMap'[x].count = 0
                            => discardMsgCountMap'[x] = NoPending
    BY DEF CountInv, Fanned
  <2>1. CASE x = colMsg
    BY <1>d, <2>1, CollectorHolds DEF IInv, TypeOK, Released, NoPending
  <2>2. CASE x # colMsg
    BY <2>2 DEF IInv, CountInv, Released
  <2>3. QED
    BY <2>1, <2>2
<1>7. OutcomeInv'
  BY DEF IInv, TypeOK, OutcomeInv, OutcomeOk, FlagOk, AtGood, AtBad,
         AtCollector, AtCounted, Reported, NoPending
<1>8. ReleaseInv'
  <2>1. CommitOnlyAfterAllSent'
    BY DEF IInv, ReleaseInv, CommitOnlyAfterAllSent
  <2>2. /\ Supports[msgTag[colMsg]] \subseteq counted[colMsg] \cup {colFor}
        /\ NoSender \notin Supports[msgTag[colMsg]]
        /\ Supports[msgTag[colMsg]] \subseteq Reporter
    BY <1>a, CollectorHolds, SenderAssumption DEF Reporters, Reporter
  <2>3. failed[colMsg] \subseteq counted[colMsg] \cup {colFor}
    BY <1>c, CollectorHolds
    DEF IInv, TypeOK, OutcomeInv, OutcomeOk, AtCollector, AtCounted, Reporter
  <2>4. colFor \in failed[colMsg] <=> ~colOk
    BY CollectorHolds
    DEF IInv, OutcomeInv, OutcomeOk, PlaceInv, OnePlace, AtCollector
  <2>5. colOk' <=> failed[colMsg] = {}
    <3>1. discardMsgCountMap[colMsg].count = Cardinality(counted[colMsg])
      BY CollectorHolds DEF IInv, CountInv
    <3>2. counted[colMsg] # {} => discardMsgCountMap[colMsg].count # 0
      <4>1. IsFiniteSet(counted[colMsg])
        BY CollectorHolds, FS_Subset
      <4>2. QED
        BY <3>1, <4>1, FS_EmptySet
    <3>3. discardMsgCountMap[colMsg].count # 0 =>
            (discardMsgCountMap[colMsg].isAllSuccessed
               <=> counted[colMsg] \cap failed[colMsg] = {})
      <4>1. colMsg \in Msg /\ discardMsgCountMap[colMsg].count \in Nat
        BY CollectorHolds DEF IInv, TypeOK
      <4>2. FlagOk(colMsg)
        BY <4>1 DEF IInv, OutcomeInv
      <4>3. QED
        BY <4>1, <4>2 DEF FlagOk
    <3>4. QED
      BY <2>3, <2>4, <3>2, <3>3 DEF Pending
  <2>6. Supports[msgTag[colMsg]] \subseteq
            delivered[colMsg] \cup skipped[colMsg] \cup failed[colMsg]
    <3> SUFFICES ASSUME NEW z \in Supports[msgTag[colMsg]]
                 PROVE  z \in delivered[colMsg] \cup skipped[colMsg]
                                \cup failed[colMsg]
      OBVIOUS
    <3>1. /\ z \in Reporter /\ z # NoSender
          /\ AtCounted(colMsg, z) \/ AtCollector(colMsg, z)
      BY <2>2 DEF AtCounted, AtCollector
    <3>2. OutcomeOk(colMsg, z)
      BY <3>1, CollectorHolds DEF IInv, OutcomeInv
    <3>3. QED
      BY <3>1, <3>2 DEF OutcomeOk
  <2>7. QED
    BY <2>1, <2>5, <2>6 DEF ReleaseInv
<1>9. QED
  BY <1>1, <1>2, <1>3, <1>4, <1>5, <1>6, <1>7, <1>8 DEF IInv

(* A released message goes to the journal. *)
LEMMA DiscardCommitStep ==
    ASSUME IInv, DiscardCommit
    PROVE  IInv'
<1> USE DEF DiscardCommit, CollectorReset, poolVars, forkVars, tagVars,
            senderVars, resultVars, history, OutsideCollector
<1>1. TypeOK'
  BY DEF IInv, TypeOK, OwnerInv, Reporter
<1>2. TablesInv'
  BY DEF IInv, TablesInv
<1>3. ForkInv'
  BY DEF IInv, ForkInv, ForkOk, Fanned, ForkTag
<1>4. OwnerInv'
  BY DEF IInv, OwnerInv, Released
<1>5. PairInv' /\ PlaceInv'
  <2> SUFFICES ASSUME NEW x \in Msg, NEW z \in Reporter
               PROVE  PairOpen(x, z)' /\ OnePlace(x, z)'
    BY DEF PairInv, PlaceInv
  <2>1. PairOpen(x, z) /\ OnePlace(x, z)
    BY DEF IInv, PairInv, PlaceInv
  <2>2. PairOpen(x, z)'
    BY <2>1
    DEF PairOpen, AtSender, AtSending, AtGood, AtBad, AtCollector, AtCounted,
        Reported, PastFork, Fanned, Released
  <2>3. OnePlace(x, z)'
    BY <2>1
    DEF OnePlace, AtFork, AtSender, AtSending, AtGood, AtBad, AtCollector,
        AtCounted, Reported, PastFork, ForkOwes, ForkTag
  <2>4. QED
    BY <2>2, <2>3
<1>6. CountInv'
  BY DEF IInv, CountInv, Released, Fanned
<1>7. OutcomeInv'
  BY DEF IInv, OutcomeInv, OutcomeOk, FlagOk, AtGood, AtBad, AtCollector,
         AtCounted, Reported
<1>8. ReleaseInv'
  BY DEF IInv, ReleaseInv, CommitOnlyAfterAllSent
<1>9. QED
  BY <1>1, <1>2, <1>3, <1>4, <1>5, <1>6, <1>7, <1>8 DEF IInv

(* A released message goes to the pool. *)
LEMMA DiscardRecycleStep ==
    ASSUME IInv, DiscardRecycle
    PROVE  IInv'
<1> USE DEF DiscardRecycle, CollectorReset, forkVars, tagVars, senderVars,
            resultVars, history, OutsideCollector
<1>1. TypeOK'
  BY DEF IInv, TypeOK, OwnerInv, Reporter
<1>2. TablesInv'
  BY DEF IInv, TablesInv
<1>3. ForkInv'
  BY DEF IInv, ForkInv, ForkOk, Fanned, ForkTag
<1>4. OwnerInv'
  BY DEF IInv, OwnerInv, Released
<1>5. PairInv' /\ PlaceInv'
  <2> SUFFICES ASSUME NEW x \in Msg, NEW z \in Reporter
               PROVE  PairOpen(x, z)' /\ OnePlace(x, z)'
    BY DEF PairInv, PlaceInv
  <2>1. PairOpen(x, z) /\ OnePlace(x, z)
    BY DEF IInv, PairInv, PlaceInv
  <2>2. PairOpen(x, z)'
    BY <2>1
    DEF PairOpen, AtSender, AtSending, AtGood, AtBad, AtCollector, AtCounted,
        Reported, PastFork, Fanned, Released
  <2>3. OnePlace(x, z)'
    BY <2>1
    DEF OnePlace, AtFork, AtSender, AtSending, AtGood, AtBad, AtCollector,
        AtCounted, Reported, PastFork, ForkOwes, ForkTag
  <2>4. QED
    BY <2>2, <2>3
<1>6. CountInv'
  BY DEF IInv, CountInv, Released, Fanned
<1>7. OutcomeInv'
  BY DEF IInv, OutcomeInv, OutcomeOk, FlagOk, AtGood, AtBad, AtCollector,
         AtCounted, Reported
<1>8. ReleaseInv'
  BY DEF IInv, ReleaseInv, CommitOnlyAfterAllSent
<1>9. QED
  BY <1>1, <1>2, <1>3, <1>4, <1>5, <1>6, <1>7, <1>8 DEF IInv

(* A committed message goes to the pool. *)
LEMMA JournalCommitStep ==
    ASSUME IInv, NEW m \in Msg, JournalCommit(m)
    PROVE  IInv'
<1> USE DEF JournalCommit, forkVars, tagVars, senderVars, resultVars, colVars,
            history, OutsideCollector
<1>1. TypeOK'
  BY DEF IInv, TypeOK
<1>2. TablesInv'
  BY DEF IInv, TablesInv
<1>3. ForkInv'
  BY DEF IInv, ForkInv, ForkOk, Fanned, ForkTag
<1>4. OwnerInv'
  BY DEF IInv, OwnerInv, Released
<1>5. PairInv' /\ PlaceInv'
  <2> SUFFICES ASSUME NEW x \in Msg, NEW z \in Reporter
               PROVE  PairOpen(x, z)' /\ OnePlace(x, z)'
    BY DEF PairInv, PlaceInv
  <2>1. PairOpen(x, z) /\ OnePlace(x, z)
    BY DEF IInv, PairInv, PlaceInv
  <2>2. PairOpen(x, z)'
    BY <2>1
    DEF PairOpen, AtSender, AtSending, AtGood, AtBad, AtCollector, AtCounted,
        Reported, PastFork, Fanned, Released
  <2>3. OnePlace(x, z)'
    BY <2>1
    DEF OnePlace, AtFork, AtSender, AtSending, AtGood, AtBad, AtCollector,
        AtCounted, Reported, PastFork, ForkOwes, ForkTag
  <2>4. QED
    BY <2>2, <2>3
<1>6. CountInv'
  BY DEF IInv, CountInv, Released, Fanned
<1>7. OutcomeInv'
  BY DEF IInv, OutcomeInv, OutcomeOk, FlagOk, AtGood, AtBad, AtCollector,
         AtCounted, Reported
<1>8. ReleaseInv'
  BY DEF IInv, ReleaseInv, CommitOnlyAfterAllSent
<1>9. QED
  BY <1>1, <1>2, <1>3, <1>4, <1>5, <1>6, <1>7, <1>8 DEF IInv

(* A pooled pointer, in nobody's hand, becomes a new message. *)
LEMMA UpstreamStep ==
    ASSUME IInv, NEW m \in Msg, NEW t \in Tag, Upstream(m, t)
    PROVE  IInv'
<1> USE DEF Upstream, forkVars, tagVars, senderVars, resultVars, colVars
<1>1. TypeOK'
  BY DEF IInv, TypeOK
<1>2. TablesInv'
  BY DEF IInv, TablesInv
<1>3. ForkInv'
  BY SenderAssumption
  DEF IInv, TypeOK, ForkInv, ForkOk, OwnerInv, Fanned, ForkTag, Released
<1>4. OwnerInv'
  BY DEF IInv, OwnerInv, Released
<1>5. PairInv' /\ PlaceInv'
  <2> SUFFICES ASSUME NEW x \in Msg, NEW z \in Reporter
               PROVE  PairOpen(x, z)' /\ OnePlace(x, z)'
    BY DEF PairInv, PlaceInv
  <2>1. PairOpen(x, z) /\ OnePlace(x, z)
    BY DEF IInv, PairInv, PlaceInv
  <2>2. PairOpen(x, z)'
    BY <2>1
    DEF IInv, TypeOK, PairOpen, AtSender, AtSending, AtGood, AtBad,
        AtCollector, AtCounted, Reported, PastFork, Fanned, Released
  <2>3. OnePlace(x, z)'
    BY <2>1
    DEF IInv, CountInv, PairOpen, OnePlace, AtFork, AtSender, AtSending,
        AtGood, AtBad, AtCollector, AtCounted, Reported, PastFork, ForkOwes,
        Fanned, EarlyPcs
  <2>4. QED
    BY <2>2, <2>3
<1>6. CountInv'
  BY FS_EmptySet DEF IInv, TypeOK, CountInv, Released, Fanned
<1>7. OutcomeInv'
  BY DEF IInv, TypeOK, PairInv, PairOpen, CountInv, OutcomeInv, OutcomeOk,
         FlagOk, AtGood, AtBad, AtCollector, AtCounted, Reported, PastFork,
         Released
<1>8. ReleaseInv'
  BY DEF IInv, OwnerInv, ReleaseInv, CommitOnlyAfterAllSent
<1>9. QED
  BY <1>1, <1>2, <1>3, <1>4, <1>5, <1>6, <1>7, <1>8 DEF IInv

(* Every initial state satisfies the invariant: nothing is under way.       *)
LEMMA InitIInv == Init => IInv
<1> SUFFICES ASSUME Init PROVE IInv
  OBVIOUS
<1>1. TypeOK
  BY DEF Init, TypeOK, ForkPcs, Reporter, NoPending
<1>2. TablesInv /\ ForkInv /\ OwnerInv
  BY NoneAssumption DEF Init, TablesInv, ForkInv, ForkOk, OwnerInv, Released
<1>3. PairInv /\ PlaceInv
  BY DEF Init, PairInv, PairOpen, PlaceInv, OnePlace, PastFork, Reported,
         AtSender, AtSending, AtGood, AtBad, AtCollector, AtCounted
<1>4. CountInv
  BY DEF Init, CountInv, Released, NoPending
<1>5. OutcomeInv /\ ReleaseInv
  BY DEF Init, OutcomeInv, OutcomeOk, FlagOk, ReleaseInv,
         CommitOnlyAfterAllSent, AtGood, AtBad, AtCollector, AtCounted,
         NoPending
<1>6. QED
  BY <1>1, <1>2, <1>3, <1>4, <1>5 DEF IInv

(* Every step of every goroutine keeps the invariant.                       *)
LEMMA NextIInv == IInv /\ [Next]_vars => IInv'
<1> SUFFICES ASSUME IInv, [Next]_vars PROVE IInv'
  OBVIOUS
<1>1. ASSUME NEW m \in Msg, NEW t \in Tag, Upstream(m, t) PROVE IInv'
  BY <1>1, UpstreamStep
<1>2. ASSUME NEW f \in Fork, ForkStep(f) PROVE IInv'
  BY <1>2, ForkRecvStep, ForkCheckTagStep, ForkLoadCachesStep, ForkLockStep,
     ForkDoubleCheckHitStep, ForkDoubleCheckMissStep, ForkStoreNStep,
     ForkStoreCachesStep, ForkMarkUnsupportedStep, ForkSendStep,
     ForkRefusedStep, ForkReportGoodStep, ForkReportFailedStep
  DEF ForkStep
<1>3. ASSUME NEW s \in Sender, SenderStep(s) PROVE IInv'
  BY <1>3, SenderTakeStep, SenderSuccessStep, SenderFailureStep DEF SenderStep
<1>4. ASSUME CollectorStep PROVE IInv'
  BY <1>4, CollectorRecvSuccessStep, CollectorRecvFailureStep,
     CollectorStoreStep, CollectorCompleteStep, DiscardCommitStep,
     DiscardRecycleStep
  DEF CollectorStep
<1>5. ASSUME NEW m \in Msg, JournalCommit(m) PROVE IInv'
  BY <1>5, JournalCommitStep
<1>6. CASE UNCHANGED vars
  <2> USE <1>6 DEF vars, poolVars, forkVars, tagVars, senderVars, resultVars,
                   colVars, history
  <2>1. TypeOK'
    BY DEF IInv, TypeOK
  <2>2. TablesInv' /\ ForkInv' /\ OwnerInv'
    BY DEF IInv, TablesInv, ForkInv, ForkOk, OwnerInv, Fanned, ForkTag,
           Released
  <2>3. PairInv' /\ PlaceInv'
    BY DEF IInv, PairInv, PairOpen, PlaceInv, OnePlace, PastFork, Reported,
           AtFork, AtSender, AtSending, AtGood, AtBad, AtCollector, AtCounted,
           ForkOwes, ForkTag, Fanned, Released
  <2>4. CountInv'
    BY DEF IInv, CountInv, Fanned, Released
  <2>5. OutcomeInv'
    BY DEF IInv, OutcomeInv, OutcomeOk, FlagOk, Reported, AtGood, AtBad,
           AtCollector, AtCounted
  <2>6. ReleaseInv'
    BY DEF IInv, ReleaseInv, CommitOnlyAfterAllSent
  <2>7. QED
    BY <2>1, <2>2, <2>3, <2>4, <2>5, <2>6 DEF IInv
<1>7. QED
  BY <1>1, <1>2, <1>3, <1>4, <1>5, <1>6 DEF Next

(* The inductive invariant holds in every reachable state.                  *)
THEOREM Invariance == Spec => []IInv
BY InitIInv, NextIInv, PTL DEF Spec

-----------------------------------------------------------------------------
(* Every variable of the producer keeps its type, for every configuration.  *)
THEOREM TypeCorrect == Spec => []TypeOK
<1>1. IInv => TypeOK
  BY DEF IInv
<1>2. QED
  BY <1>1, Invariance, PTL

(* The collector always finds the tag of a report in tag2NSender, with the  *)
(* number of reports that will come: its panic is unreachable.              *)
THEOREM CollectorNeverPanics == Spec => []CollectorKnowsTag
<1>1. IInv => CollectorKnowsTag
  BY CollectorHolds, NSenderIsCount DEF CollectorKnowsTag
<1>2. QED
  BY <1>1, Invariance, PTL

(* A message handed to the journal or to the pool is in nobody else's hand. *)
THEOREM ReleasedOnce == Spec => []NoUseAfterRelease
<1>1. ASSUME IInv, NEW m \in Released
      PROVE  ~Held(m) /\ discardMsgCountMap[m] = NoPending
  <2>1. m \in Msg
    BY <1>1 DEF IInv, TypeOK, OwnerInv, Released
  <2>2. \A f \in Fork : forkMsg[f] # m
    BY <1>1 DEF IInv, OwnerInv
  <2>3. ASSUME NEW r \in Reporter PROVE ~PastFork(m, r)
    BY <1>1, <2>1 DEF IInv, PairInv, PairOpen
  <2>4. \A s \in Sender : m \notin senderIn[s] \cup sending[s]
    BY <2>3 DEF PastFork, AtSender, AtSending, Reporter
  <2>5. \A r \in Reporter : <<m, r>> \notin successedChan \cup failedChan
    BY <2>3 DEF PastFork, Reported, AtGood, AtBad
  <2>6. ~(colPc = "count" /\ colMsg = m)
    BY <1>1, <2>3 DEF PastFork, Reported, AtCollector, IInv, TypeOK
  <2>7. discardMsgCountMap[m] = NoPending
    BY <1>1, <2>1 DEF IInv, CountInv
  <2>8. QED
    BY <2>2, <2>4, <2>5, <2>6, <2>7 DEF Held
<1>2. IInv => NoUseAfterRelease
  BY <1>1 DEF NoUseAfterRelease, IInv, OwnerInv
<1>3. QED
  BY <1>2, Invariance, PTL

(* Only messages every supporting sender has handled reach the journal.     *)
THEOREM CommitSafe == Spec => []CommitOnlyAfterAllSent
<1>1. IInv => CommitOnlyAfterAllSent
  BY DEF IInv, ReleaseInv
<1>2. QED
  BY <1>1, Invariance, PTL

(* A message all senders accepted is never put back uncommitted.            *)
THEOREM RecycleSafe == Spec => RecycledOnlyAfterFailure
<1>1. ASSUME IInv, [Next]_vars, NEW m \in (msgPool' \ msgPool) \ commitChan
      PROVE  failed[m] # {}
  <2> USE <1>1 DEF poolVars
  <2>1. DiscardRecycle
    BY DEF OutsideForks, OutsideSenders, OutsideCollector, Next, vars,
           ForkStep, SenderStep, CollectorStep, Upstream, ForkRecv,
           ForkCheckTag, ForkLoadCaches, ForkLock, ForkDoubleCheckHit,
           ForkDoubleCheckMiss, ForkStoreN, ForkStoreCaches,
           ForkMarkUnsupported, ForkSend, ForkRefused, ForkReportGood,
           ForkReportFailed, SenderTake, SenderSuccess, SenderFailure,
           CollectorRecvSuccess, CollectorRecvFailure, CollectorStore,
           CollectorComplete, DiscardCommit, JournalCommit
  <2>2. QED
    BY <2>1 DEF DiscardRecycle, IInv, ReleaseInv
<1>2. IInv /\ [Next]_vars =>
        [\A m \in (msgPool' \ msgPool) \ commitChan : failed[m] # {}]_vars
  BY <1>1
<1>3. QED
  BY <1>2, Invariance, PTL DEF Spec, RecycledOnlyAfterFailure

-----------------------------------------------------------------------------
(* Where the abstract specification sees each pointer.                      *)
LEMMA PromiseInit == Init => Promise!Init
BY DEF Init, Promise!Init

(* An answer that is recorded now was not recorded before.                  *)
LEMMA AnsweredIsPast ==
    ASSUME IInv, NEW m \in Msg, NEW s \in Sender,
           AtFork(m, s) \/ AtSending(m, s)
    PROVE  /\ s \notin delivered[m] \cup skipped[m] \cup failed[m]
           /\ m \notin msgPool \cup commitChan
           /\ s \in Supports[msgTag[m]]
<1>1. OnePlace(m, s) /\ PairOpen(m, s) /\ OutcomeOk(m, s)
  BY DEF IInv, PlaceInv, PairInv, OutcomeInv, Reporter
<1>2. s \notin delivered[m] \cup skipped[m] \cup failed[m]
  BY <1>1 DEF OnePlace, OutcomeOk, PastFork, Reported
<1>3. CASE AtSending(m, s)
  BY <1>1, <1>2, <1>3, SenderAssumption
  DEF PairOpen, PastFork, Released, Reporters
<1>4. CASE AtFork(m, s)
  <2>1. PICK f \in Fork : forkMsg[f] = m /\ ForkOwes(f, s)
    BY <1>4 DEF AtFork
  <2>2. m \notin msgPool \cup commitChan
    BY <2>1 DEF IInv, OwnerInv, Released
  <2>3. s \in Reporters(msgTag[m])
    BY <2>1 DEF IInv, ForkInv, ForkOk, ForkOwes, ForkTag, Reporters
  <2>4. QED
    BY <1>2, <2>2, <2>3, SenderAssumption DEF Reporters
<1>5. QED
  BY <1>3, <1>4

(* A report by a fork is an answer of the sender, or no answer at all when  *)
(* nobody supports the tag.                                                 *)
LEMMA PromiseForkReport ==
    ASSUME IInv, NEW f \in Fork, ForkReportGood(f) \/ ForkReportFailed(f)
    PROVE  [Promise!Next]_(Promise!vars)
<1> USE DEF poolVars, Promise!Next, Promise!vars, Promise!AnswerGood,
            Promise!AnswerBad, Promise!Unanswered
<1>1. forkMsg[f] \in Msg /\ forkFor[f] \in Reporter
  BY DEF IInv, TypeOK, ForkInv, ForkOk, ForkReportGood, ForkReportFailed
<1>2. ASSUME forkFor[f] \in Sender
      PROVE  /\ forkFor[f] \notin delivered[forkMsg[f]] \cup skipped[forkMsg[f]]
                                    \cup failed[forkMsg[f]]
             /\ forkMsg[f] \notin msgPool \cup commitChan
             /\ forkFor[f] \in Supports[msgTag[forkMsg[f]]]
  <2>1. AtFork(forkMsg[f], forkFor[f])
    BY DEF AtFork, ForkOwes, ForkReportGood, ForkReportFailed
  <2>2. QED
    BY <1>1, <1>2, <2>1, AnsweredIsPast
<1>3. CASE ForkReportGood(f) /\ forkFor[f] \in Sender
  <2>1. [m \in Msg |-> delivered[m] \cup skipped'[m]] =
          [[m \in Msg |-> delivered[m] \cup skipped[m]] EXCEPT
              ![forkMsg[f]] = @ \cup {forkFor[f]}]
    BY ZenonT(60), <1>1, <1>3 DEF ForkReportGood, IInv, TypeOK
  <2>2. UNCHANGED <<msgTag, msgPool, commitChan, delivered, failed>>
    BY <1>3 DEF ForkReportGood
  <2>3. Promise!AnswerGood(forkMsg[f], forkFor[f])
    BY <1>1, <1>2, <1>3, <2>1, <2>2
  <2>4. QED
    BY <1>1, <1>3, <2>3
<1>4. CASE ForkReportGood(f) /\ forkFor[f] \notin Sender
  BY <1>4 DEF ForkReportGood
<1>5. CASE ForkReportFailed(f)
  <2>1. Promise!AnswerBad(forkMsg[f], forkFor[f])
    BY <1>1, <1>2, <1>5 DEF ForkReportFailed
  <2>2. QED
    BY <1>1, <1>5, <2>1 DEF ForkReportFailed
<1>6. QED
  BY <1>3, <1>4, <1>5

(* Every other step of a fork changes nothing the promise speaks of.        *)
LEMMA PromiseFork ==
    ASSUME IInv, NEW f \in Fork, ForkStep(f)
    PROVE  [Promise!Next]_(Promise!vars)
<1>1. CASE ForkReportGood(f) \/ ForkReportFailed(f)
  BY <1>1, PromiseForkReport
<1>2. ASSUME ~ForkReportGood(f), ~ForkReportFailed(f)
      PROVE  UNCHANGED <<msgPool, commitChan, msgTag, delivered, skipped,
                         failed>>
  BY <1>2
  DEF ForkStep, poolVars, history, OutsideForks, ForkRecv, ForkCheckTag,
      ForkLoadCaches, ForkLock, ForkDoubleCheckHit, ForkDoubleCheckMiss,
      ForkStoreN, ForkStoreCaches, ForkMarkUnsupported, ForkSend, ForkRefused
<1>3. QED
  BY <1>1, <1>2 DEF Promise!vars

(* Every step of the producer is a step of the promise, or stutters.        *)
LEMMA PromiseStep == IInv /\ [Next]_vars => [Promise!Next]_(Promise!vars)
<1> SUFFICES ASSUME IInv, [Next]_vars PROVE [Promise!Next]_(Promise!vars)
  OBVIOUS
<1> DEFINE Seen == <<msgPool, commitChan, msgTag, delivered, skipped, failed>>
<1> USE DEF poolVars, history, OutsideSenders
<1>1. ASSUME NEW m \in Msg, NEW t \in Tag, Upstream(m, t)
      PROVE  Promise!Next
  <2>1. m \in msgPool /\ m \notin commitChan /\ msgPool' = msgPool \ {m}
        /\ commitChan' = commitChan
    BY <1>1 DEF Upstream, IInv, OwnerInv
  <2>2. /\ msgTag' = [msgTag EXCEPT ![m] = t]
        /\ [x \in Msg |-> delivered'[x] \cup skipped'[x]] =
              [[x \in Msg |-> delivered[x] \cup skipped[x]] EXCEPT ![m] = {}]
        /\ failed' = [failed EXCEPT ![m] = {}]
    BY <1>1 DEF Upstream, IInv, TypeOK
  <2>3. Promise!Accept(m, t)
    BY <2>1, <2>2 DEF Promise!Accept
  <2>4. QED
    BY <2>3 DEF Promise!Next
<1>2. ASSUME NEW f \in Fork, ForkStep(f) PROVE [Promise!Next]_(Promise!vars)
  BY <1>2, PromiseFork
<1>3. ASSUME NEW s \in Sender, NEW m \in Msg, SenderSuccess(s, m)
      PROVE  Promise!Next
  <2>1. AtSending(m, s)
    BY <1>3 DEF SenderSuccess, AtSending
  <2>2. Promise!AnswerGood(m, s)
    BY ZenonT(60), <1>3, <2>1, AnsweredIsPast
    DEF SenderSuccess, Promise!AnswerGood, Promise!Unanswered, IInv, TypeOK
  <2>3. QED
    BY <2>2 DEF Promise!Next
<1>4. ASSUME NEW s \in Sender, NEW m \in Msg, SenderFailure(s, m)
      PROVE  Promise!Next
  <2>1. AtSending(m, s)
    BY <1>4 DEF SenderFailure, AtSending
  <2>2. Promise!AnswerBad(m, s)
    BY <1>4, <2>1, AnsweredIsPast
    DEF SenderFailure, Promise!AnswerBad, Promise!Unanswered
  <2>3. QED
    BY <2>2 DEF Promise!Next
<1>5. ASSUME DiscardCommit PROVE Promise!Next
  <2>1. /\ colMsg \in Msg /\ colMsg \notin msgPool \cup commitChan
        /\ commitChan' = commitChan \cup {colMsg}
        /\ UNCHANGED <<msgPool, msgTag, delivered, skipped, failed>>
    BY <1>5 DEF DiscardCommit, IInv, TypeOK, OwnerInv
  <2>2. /\ Supports[msgTag[colMsg]]
              \subseteq delivered[colMsg] \cup skipped[colMsg]
        /\ failed[colMsg] = {}
    BY <1>5 DEF DiscardCommit, IInv, ReleaseInv
  <2>3. PICK m \in Msg : m = colMsg
    BY <2>1
  <2>4. Promise!Commit(m)
    BY <2>1, <2>2, <2>3 DEF Promise!Commit, Promise!Unanswered
  <2>5. QED
    BY <2>4 DEF Promise!Next
<1>6. ASSUME DiscardRecycle PROVE Promise!Next
  <2>1. /\ colMsg \in Msg /\ colMsg \notin msgPool \cup commitChan
        /\ msgPool' = msgPool \cup {colMsg}
        /\ UNCHANGED <<commitChan, msgTag, delivered, skipped, failed>>
    BY <1>6 DEF DiscardRecycle, IInv, TypeOK, OwnerInv
  <2>2. /\ Supports[msgTag[colMsg]] \subseteq
              delivered[colMsg] \cup skipped[colMsg] \cup failed[colMsg]
        /\ failed[colMsg] # {}
    BY <1>6 DEF DiscardRecycle, IInv, ReleaseInv
  <2>3. PICK m \in Msg : m = colMsg
    BY <2>1
  <2>4. Promise!Recycle(m)
    BY <2>1, <2>2, <2>3 DEF Promise!Recycle, Promise!Unanswered
  <2>5. QED
    BY <2>4 DEF Promise!Next
<1>7. ASSUME NEW m \in Msg, JournalCommit(m) PROVE Promise!Next
  <2>1. /\ m \in commitChan /\ m \notin msgPool
        /\ commitChan' = commitChan \ {m} /\ msgPool' = msgPool \cup {m}
        /\ UNCHANGED <<msgTag, delivered, skipped, failed>>
    BY <1>7 DEF JournalCommit, IInv, OwnerInv
  <2>2. Promise!Recycle(m)
    BY <2>1 DEF Promise!Recycle
  <2>3. QED
    BY <2>2 DEF Promise!Next
<1>8. ASSUME \/ \E s \in Sender, m \in Msg : SenderTake(s, m)
             \/ \E m \in Msg, r \in Reporter :
                   CollectorRecvSuccess(m, r) \/ CollectorRecvFailure(m, r)
             \/ CollectorStore \/ CollectorComplete
             \/ UNCHANGED vars
      PROVE  UNCHANGED Promise!vars
  <2>1. UNCHANGED Seen
    BY <1>8
    DEF vars, SenderTake, CollectorRecvSuccess, CollectorRecvFailure,
        CollectorStore, CollectorComplete
  <2>2. QED
    BY <2>1 DEF Promise!vars
<1>9. ASSUME NEW s \in Sender, SenderStep(s) PROVE [Promise!Next]_(Promise!vars)
  BY <1>3, <1>4, <1>8, <1>9 DEF SenderStep
<1>10. ASSUME CollectorStep PROVE [Promise!Next]_(Promise!vars)
  BY <1>5, <1>6, <1>8, <1>10 DEF CollectorStep
<1>11. QED
  BY <1>1, <1>2, <1>7, <1>8, <1>9, <1>10 DEF Next

(* The producer implements the promise of FanOut.                           *)
THEOREM Refinement == Spec => ImplementsFanOut
BY PromiseInit, PromiseStep, Invariance, PTL
DEF Spec, ImplementsFanOut, Promise!Spec
=============================================================================
