--------------------------- MODULE JournalProofs ---------------------------
(***************************************************************************)
(* Proofs about the journal, for any bodies, tags, channel sizes and bounds *)
(* on crashes and faults: type correctness first, then the inductive        *)
(* invariant IInv, from which follow that the ids files name consumed       *)
(* messages and that no message is forgotten.                               *)
(***************************************************************************)
EXTENDS Journal, SeqLemmas

-----------------------------------------------------------------------------
(* LoadMaxID.                                                               *)

(* The largest committed id is an id, so the counter starts with one too.   *)
LEMMA LoadMaxIDIsId ==
    ASSUME TypeOK
    PROVE  LoadMaxID \in Id
<1> DEFINE S == {0} \cup UNION {ids[t] : t \in Tag}
           down == {MaxRotateID - x : x \in S}
<1>1. MaxRotateID \in Nat \ {0} /\ S \subseteq Id /\ 0 \in S
  BY SMTT(30), SizeAssumption DEF TypeOK, Id
<1>2. down \subseteq Nat /\ down # {}
  BY <1>1 DEF Id
<1>3. PICK d \in down : \A y \in down : d <= y
  BY <1>2, LeastOf
<1>4. PICK x \in S : d = MaxRotateID - x
  BY <1>3
<1>5. \A y \in S : y <= x
  <2> SUFFICES ASSUME NEW y \in S PROVE y <= x
    OBVIOUS
  <2>1. MaxRotateID - x <= MaxRotateID - y
    BY <1>3, <1>4
  <2>2. QED
    BY <1>1, <2>1 DEF Id
<1>6. MaxOf(S) \in S
  BY <1>5 DEF MaxOf
<1>7. QED
  BY <1>1, <1>6 DEF LoadMaxID

-----------------------------------------------------------------------------
(* The counter wraps around at MaxRotateID.                                 *)
LEMMA NextOfId ==
    ASSUME NEW i \in Id
    PROVE  (i + 1) % MaxRotateID \in Id
<1>1. MaxRotateID \in Nat \ {0}
  BY SizeAssumption
<1>2. QED
  BY <1>1 DEF Id

(* The capacities are naturals.                                             *)
LEMMA Sizes ==
    /\ DumpChanSize \in Nat /\ OutChanSize \in Nat /\ DataChanSize \in Nat
    /\ CommitChanSize \in Nat /\ IdChanSize \in Nat
BY SizeAssumption

(* No more reads and writes fail than MaxFault.                             *)
LEMMA TryTypes ==
    ASSUME TypeOK, NEW ok \in BOOLEAN, Try(ok)
    PROVE  faults' \in 0 .. MaxFault
BY SMTT(30), SizeAssumption DEF TypeOK, Try

(* Making a runner touches the channels of its tag only.                    *)
RunnerTypes ==
    /\ creating \subseteq {"dumper", "committer"}
    /\ runners \subseteq Tag /\ loading \subseteq runners
    /\ dataChan \in [Tag -> Seq(Message)]
    /\ \A t \in Tag : Len(dataChan[t]) <= DataChanSize
    /\ idChan \in [Tag -> Seq(Commit)]
    /\ \A t \in Tag : Len(idChan[t]) <= IdChanSize

(* Making the runner of a tag gives it typed, empty channels.               *)
LEMMA CreateRunnerTypes ==
    ASSUME TypeOK, NEW who, NEW t \in Tag, CreateRunner(who, t),
           UNCHANGED loading
    PROVE  RunnerTypes'
<1>1. CASE t \in runners
  BY <1>1 DEF TypeOK, RunnerTypes, CreateRunner
<1>2. CASE t \notin runners
  <2> /\ <<>> \in Seq(Message) /\ <<>> \in Seq(Commit) /\ Len(<<>>) = 0
      /\ DataChanSize \in Nat /\ IdChanSize \in Nat
    BY NewChan, SizeAssumption
  <2>0. /\ dataChan' = [dataChan EXCEPT ![t] = <<>>]
        /\ idChan' = [idChan EXCEPT ![t] = <<>>]
    BY <1>2 DEF CreateRunner
  <2>1. /\ dataChan' \in [Tag -> Seq(Message)]
        /\ \A s \in Tag : Len(dataChan'[s]) <= DataChanSize
    BY <2>0 DEF TypeOK
  <2>2. /\ idChan' \in [Tag -> Seq(Commit)]
        /\ \A s \in Tag : Len(idChan'[s]) <= IdChanSize
    BY <2>0 DEF TypeOK
  <2>3. QED
    BY <1>2, <2>1, <2>2 DEF TypeOK, RunnerTypes, CreateRunner
<1>3. QED
  BY <1>1, <1>2

(* A start is typed.                                                        *)
LEMMA InitTypeOK == Init => TypeOK
<1>1. 1 % MaxRotateID \in Id
  BY SizeAssumption DEF Id
<1>2. QED
  BY <1>1, NewChan, SizeAssumption DEF Init, TypeOK

(* Every step keeps the types.                                              *)
LEMMA NextTypeOK == TypeOK /\ [Next]_vars => TypeOK'
<1> SUFFICES ASSUME TypeOK, [Next]_vars PROVE TypeOK'
  OBVIOUS
<1> USE SizeAssumption, TagAssumption
    DEF msgVars, dumpVars, writerVars, fileVars, loadVars, commitVars,
        downVars, lossVars, runnerVars
<1>1. ASSUME NEW b \in Body, Receive(b) PROVE TypeOK'
  <2>1. nextId' \in Id /\ idOf' \in [Body -> Id \cup {None}]
    BY <1>1, NextOfId DEF TypeOK, Receive, NewMsg
  <2>2. [id |-> nextId, body |-> b] \in Message
    BY DEF TypeOK, Message
  <2>3. dumpChan' \in Seq(Message) /\ Len(dumpChan') <= DumpChanSize
    BY <1>1, <2>2, SendTo DEF TypeOK, Receive
  <2>4. QED
    BY <1>1, <2>1, <2>3 DEF TypeOK, Receive, NewMsg
<1>2. ASSUME NEW b \in Body, ReceiveSkip(b) PROVE TypeOK'
  <2>1. nextId' \in Id /\ idOf' \in [Body -> Id \cup {None}]
    BY <1>2, NextOfId DEF TypeOK, ReceiveSkip, NewMsg
  <2>2. [id |-> nextId, body |-> b] \in Message
    BY DEF TypeOK, Message
  <2>3. skipDumpChan' \in Seq(Message)
    BY <1>2, <2>2 DEF TypeOK, ReceiveSkip
  <2>4. QED
    BY <1>2, <2>1, <2>3 DEF TypeOK, ReceiveSkip, NewMsg
<1>3. CASE SkipDump
  <2>1. /\ Head(skipDumpChan) \in Message
        /\ skipDumpChan' \in Seq(Message)
    BY <1>3, ReceiveFrom DEF TypeOK, SkipDump
  <2>2. outChan' \in Seq(Message) /\ Len(outChan') <= OutChanSize
    BY SMTT(30), <1>3, <2>1, SendTo DEF TypeOK, SkipDump
  <2>3. QED
    BY <1>3, <2>1, <2>2 DEF TypeOK, SkipDump
<1>4. CASE DumperRecv
  <2>1. /\ dumper' \in Message /\ dumpChan' \in Seq(Message)
        /\ Len(dumpChan') <= DumpChanSize
    BY SMTT(30), <1>4, ReceiveFrom DEF TypeOK, DumperRecv
  <2>2. QED
    BY <1>4, <2>1 DEF TypeOK, DumperRecv
<1>5. CASE DumperLookup
  BY <1>5 DEF TypeOK, DumperLookup, FindNoRunner
<1>6. CASE DumperCreate
  <2> DEFINE t == TagOfMsg(dumper)
  <2>1. t \in Tag
    BY <1>6 DEF TypeOK, DumperCreate, TagOfMsg, Message
  <2>2. CreateRunner("dumper", t)
    BY <1>6 DEF DumperCreate
  <2> HIDE DEF t
  <2>3. UNCHANGED loading
    BY <1>6 DEF DumperCreate
  <2>4. RunnerTypes'
    BY <2>1, <2>2, <2>3, CreateRunnerTypes
  <2>5. QED
    BY <1>6, <2>4 DEF TypeOK, RunnerTypes, DumperCreate
<1>7. CASE DumperSend
  <2> DEFINE t == TagOfMsg(dumper)
  <2>1. dumper \in Message /\ t \in Tag /\ dumper.body \in Body
    BY <1>7 DEF TypeOK, DumperSend, TagOfMsg, Message
  <2> HIDE DEF t
  <2>2. /\ dataChan' \in [Tag -> Seq(Message)]
        /\ \A s \in Tag : Len(dataChan'[s]) <= DataChanSize
    <3>1. CASE Len(dataChan[t]) # DataChanSize
      <4>1. dataChan' = [dataChan EXCEPT ![t] = Append(@, dumper)]
        BY <1>7, <3>1 DEF DumperSend, t
      <4>2. /\ Append(dataChan[t], dumper) \in Seq(Message)
            /\ Len(Append(dataChan[t], dumper)) <= DataChanSize
        BY SMTT(30), <2>1, <3>1, SendTo DEF TypeOK
      <4>3. QED
        BY <2>1, <4>1, <4>2 DEF TypeOK
    <3>2. CASE Len(dataChan[t]) = DataChanSize
      BY <1>7, <3>2 DEF TypeOK, DumperSend, t
    <3>3. QED
      BY <3>1, <3>2
  <2>3. outChan' \in Seq(Message) /\ Len(outChan') <= OutChanSize
    <3>1. \/ UNCHANGED outChan
          \/ Len(outChan) # OutChanSize /\ outChan' = Append(outChan, dumper)
      BY <1>7 DEF DumperSend
    <3>2. CASE UNCHANGED outChan
      BY <3>2 DEF TypeOK
    <3>3. CASE /\ Len(outChan) # OutChanSize
               /\ outChan' = Append(outChan, dumper)
      BY <2>1, <3>3, SendToRoom, Sizes DEF TypeOK
    <3>4. QED
      BY <3>1, <3>2, <3>3
  <2>4. givenUp' \subseteq Body
    BY <1>7, <2>1 DEF TypeOK, DumperSend
  <2>5. QED
    BY <1>7, <2>2, <2>3, <2>4 DEF TypeOK, DumperSend
<1>8. ASSUME NEW t \in Tag, NEW ok \in BOOLEAN, DataWrite(t, ok) PROVE TypeOK'
  <2> DEFINE msg == Head(dataChan[t])
  <2>1. /\ dataChan[t] # <<>> /\ dataChan[t] \in Seq(Message)
        /\ Len(dataChan[t]) <= DataChanSize
    BY <1>8 DEF TypeOK, DataWrite
  <2>2. /\ msg \in Message /\ Tail(dataChan[t]) \in Seq(Message)
        /\ Len(Tail(dataChan[t])) <= DataChanSize
    BY <2>1, ReceiveFrom
  <2>3. msg.body \in Body
    BY <2>2 DEF Message
  <2> HIDE DEF msg
  <2>4. /\ dataChan' \in [Tag -> Seq(Message)]
        /\ \A s \in Tag : Len(dataChan'[s]) <= DataChanSize
    BY <1>8, <2>2 DEF TypeOK, DataWrite
  <2>5. writer' \in [Tag -> Message \cup {None}]
    BY <1>8, <2>2 DEF TypeOK, DataWrite, msg
  <2>6. data' \in [Tag -> SUBSET Message]
    BY <1>8, <2>2 DEF TypeOK, DataWrite, msg
  <2>7. journaled' \subseteq Body /\ givenUp' \subseteq Body
    BY <1>8, <2>3 DEF TypeOK, DataWrite, msg
  <2>8. faults' \in 0 .. MaxFault
    BY <1>8, TryTypes DEF DataWrite
  <2>9. UNCHANGED <<msgVars, dumpVars, legacy, loadVars, commitVars, downVars,
                    crashes, skipDumpChan, outChan, runnerVars, ids>>
    BY <1>8 DEF DataWrite
  <2>10. QED
    BY <2>4, <2>5, <2>6, <2>7, <2>8, <2>9 DEF TypeOK
<1>9. ASSUME NEW t \in Tag, DataForward(t) PROVE TypeOK'
  <2>1. writer[t] \in Message
    BY <1>9 DEF TypeOK, DataForward
  <2>2. outChan' \in Seq(Message) /\ Len(outChan') <= OutChanSize
    BY SMTT(30), <1>9, <2>1, SendTo DEF TypeOK, DataForward
  <2>3. QED
    BY <1>9, <2>2 DEF TypeOK, DataForward
<1>10. ASSUME NEW t \in Tag, Rotate(t) PROVE TypeOK'
  BY <1>10 DEF TypeOK, Rotate
<1>11. CASE LegacyStart
  BY <1>11 DEF TypeOK, LegacyStart
<1>12. ASSUME NEW t \in Tag, NEW m \in unread[t], LegacyLoad(t, m) PROVE TypeOK'
  <2>1. m \in Message
    BY DEF TypeOK
  <2>2. dumpChan' \in Seq(Message) /\ Len(dumpChan') <= DumpChanSize
    <3>1. \/ UNCHANGED dumpChan
          \/ Len(dumpChan) < DumpChanSize /\ dumpChan' = Append(dumpChan, m)
      BY <1>12 DEF LegacyLoad
    <3>2. CASE UNCHANGED dumpChan
      BY <3>2 DEF TypeOK
    <3>3. CASE /\ Len(dumpChan) < DumpChanSize
               /\ dumpChan' = Append(dumpChan, m)
      <4>1. dumpChan \in Seq(Message) /\ Len(dumpChan) \in Nat
        BY SendTo, <2>1 DEF TypeOK
      <4>2. QED
        BY <2>1, <3>3, <4>1, SendTo, Sizes DEF TypeOK
    <3>4. QED
      BY <3>1, <3>2, <3>3
  <2>3. QED
    BY <1>12, <2>2 DEF TypeOK, LegacyLoad
<1>13. ASSUME NEW t \in Tag, LegacyEof(t) PROVE TypeOK'
  BY <1>13 DEF TypeOK, LegacyEof
<1>14. ASSUME NEW t \in Tag, LegacyError(t) PROVE TypeOK'
  BY SMTT(30), <1>14 DEF TypeOK, LegacyError, Try
<1>15. CASE Consume
  <2>1. /\ Head(outChan) \in Message /\ outChan' \in Seq(Message)
        /\ Len(outChan') <= OutChanSize
    BY SMTT(30), <1>15, ReceiveFrom DEF TypeOK, Consume
  <2>2. Head(outChan).body \in Body
    BY <2>1 DEF Message
  <2>3. QED
    BY <1>15, <2>1, <2>2 DEF TypeOK, Consume
<1>16. CASE Fail
  <2>1. outChan' \in Seq(Message) /\ Len(outChan') <= OutChanSize
    BY SMTT(30), <1>16, ReceiveFrom DEF TypeOK, Fail
  <2>2. QED
    BY <1>16, <2>1 DEF TypeOK, Fail
<1>17. ASSUME NEW S \in SUBSET open, SendCommit(S) PROVE TypeOK'
  <2>1. {m.id : m \in S} \subseteq Id
    BY SMTT(30) DEF TypeOK, Message
  <2>2. PICK t \in Tag :
           commitChan' = Append(commitChan, [tag |-> t, ids |-> {m.id : m \in S}])
    BY <1>17 DEF SendCommit
  <2>3. [tag |-> t, ids |-> {m.id : m \in S}] \in Commit
    BY <2>1 DEF Commit
  <2> DEFINE c == [tag |-> t, ids |-> {m.id : m \in S}]
  <2> HIDE DEF c
  <2>4. commitChan' \in Seq(Commit) /\ Len(commitChan') <= CommitChanSize
    <3>1. c \in Commit /\ commitChan' = Append(commitChan, c)
      BY <2>2, <2>3 DEF c
    <3>2. Len(commitChan) < CommitChanSize
      BY <1>17 DEF SendCommit
    <3>3. QED
      BY SMTT(30), <3>1, <3>2, SendTo DEF TypeOK
  <2>5. QED
    BY <1>17, <2>4 DEF TypeOK, SendCommit
<1>18. CASE CommitRecv
  <2>1. /\ committer' \in Commit /\ commitChan' \in Seq(Commit)
        /\ Len(commitChan') <= CommitChanSize
    BY SMTT(30), <1>18, ReceiveFrom DEF TypeOK, CommitRecv
  <2>2. QED
    BY <1>18, <2>1 DEF TypeOK, CommitRecv
<1>19. CASE CommitLookup
  BY <1>19 DEF TypeOK, CommitLookup, FindNoRunner
<1>20. CASE CommitCreate
  <2> DEFINE t == committer.tag
  <2>1. t \in Tag
    BY <1>20 DEF TypeOK, CommitCreate, Commit
  <2>2. CreateRunner("committer", t)
    BY <1>20 DEF CommitCreate
  <2> HIDE DEF t
  <2>3. UNCHANGED loading
    BY <1>20 DEF CommitCreate
  <2>4. RunnerTypes'
    BY <2>1, <2>2, <2>3, CreateRunnerTypes
  <2>5. QED
    BY <1>20, <2>4 DEF TypeOK, RunnerTypes, CommitCreate
<1>21. CASE CommitSend
  <2> DEFINE t == committer.tag
  <2>1. committer \in Commit /\ t \in Tag
    BY <1>21 DEF TypeOK, CommitSend, Commit
  <2> HIDE DEF t
  <2>2. /\ idChan' \in [Tag -> Seq(Commit)]
        /\ \A s \in Tag : Len(idChan'[s]) <= IdChanSize
    <3>1. CASE Len(idChan[t]) < IdChanSize
      <4>1. idChan' = [idChan EXCEPT ![t] = Append(@, committer)]
        BY <1>21, <3>1 DEF CommitSend, t
      <4>2. /\ idChan[t] \in Seq(Commit)
            /\ Len(idChan[t]) \in Nat /\ Len(idChan[t]) <= IdChanSize
        BY <2>1, LenProperties DEF TypeOK
      <4>3. /\ Append(idChan[t], committer) \in Seq(Commit)
            /\ Len(Append(idChan[t], committer)) <= IdChanSize
        <5>1. IdChanSize \in Nat
          BY DEF SizeAssumption
        <5>2. QED
          BY <2>1, <3>1, <4>2, <5>1, SendToRoom
      <4>4. QED
        BY <2>1, <4>1, <4>3 DEF TypeOK
    <3>2. CASE ~(Len(idChan[t]) < IdChanSize)
      BY <1>21, <3>2 DEF TypeOK, CommitSend, t
    <3>3. QED
      BY <3>1, <3>2
  <2>3. commitChan' \in Seq(Commit) /\ Len(commitChan') <= CommitChanSize
    <3>1. \/ UNCHANGED commitChan
          \/ /\ Len(commitChan) < CommitChanSize
             /\ commitChan' = Append(commitChan, committer)
      BY <1>21 DEF CommitSend
    <3>2. CASE UNCHANGED commitChan
      BY <3>2 DEF TypeOK
    <3>3. CASE /\ Len(commitChan) < CommitChanSize
               /\ commitChan' = Append(commitChan, committer)
      BY <2>1, <3>3, SendToRoom, Sizes DEF TypeOK
    <3>4. QED
      BY <3>1, <3>2, <3>3
  <2>4. QED
    BY <1>21, <2>2, <2>3 DEF TypeOK, CommitSend
<1>22. ASSUME NEW t \in Tag, NEW written \in SUBSET Id, IdsWrite(t, written)
       PROVE TypeOK'
  <2>1. /\ idChan[t] # <<>> /\ idChan[t] \in Seq(Commit)
        /\ Len(idChan[t]) <= IdChanSize
    BY <1>22 DEF TypeOK, IdsWrite
  <2>2. /\ Tail(idChan[t]) \in Seq(Commit)
        /\ Len(Tail(idChan[t])) <= IdChanSize
    BY <2>1, ReceiveFrom
  <2>3. /\ idChan' \in [Tag -> Seq(Commit)]
        /\ \A s \in Tag : Len(idChan'[s]) <= IdChanSize
    BY <1>22, <2>2 DEF TypeOK, IdsWrite
  <2>4. ids' \in [Tag -> SUBSET Id] /\ faults' \in 0 .. MaxFault
    BY <1>22, TryTypes DEF TypeOK, IdsWrite
  <2>5. QED
    BY <1>22, <2>3, <2>4 DEF TypeOK, IdsWrite
<1>23. CASE Crash
  <2>1. nextId' \in Id
    BY <1>23, LoadMaxIDIsId, NextOfId DEF Crash
  <2>2. /\ dataChan' \in [Tag -> Seq(Message)] /\ idChan' \in [Tag -> Seq(Commit)]
        /\ \A t \in Tag : /\ Len(dataChan'[t]) <= DataChanSize
                          /\ Len(idChan'[t]) <= IdChanSize
    BY <1>23, NewChan DEF Crash
  <2>3. /\ dumpChan' \in Seq(Message) /\ Len(dumpChan') <= DumpChanSize
        /\ outChan' \in Seq(Message) /\ Len(outChan') <= OutChanSize
        /\ skipDumpChan' \in Seq(Message)
        /\ commitChan' \in Seq(Commit) /\ Len(commitChan') <= CommitChanSize
    BY <1>23, NewChan DEF Crash
  <2>4. /\ legacy' \in [Tag -> SUBSET Message] /\ data' \in [Tag -> SUBSET Message]
        /\ unread' \in [Tag -> SUBSET Message]
        /\ writer' \in [Tag -> Message \cup {None}]
    BY <1>23 DEF TypeOK, Crash
  <2>5. givenUp' \subseteq Body /\ crashes' \in 0 .. MaxCrash
    BY SMTT(30), <1>23 DEF TypeOK, Crash
  <2>6. QED
    BY <1>23, <2>1, <2>2, <2>3, <2>4, <2>5 DEF TypeOK, Crash
<1>24. CASE UNCHANGED vars
  BY <1>24 DEF TypeOK, vars
<1>25. QED
  BY <1>1, <1>2, <1>3, <1>4, <1>5, <1>6, <1>7, <1>8, <1>9, <1>10, <1>11,
     <1>12, <1>13, <1>14, <1>15, <1>16, <1>17, <1>18, <1>19, <1>20, <1>21,
     <1>22, <1>23, <1>24 DEF Next

(* Every variable has its type: no channel holds more than its size.        *)
THEOREM TypeCorrect == Spec => []TypeOK
<1>1. QED
  BY InitTypeOK, NextTypeOK, PTL DEF Spec
-----------------------------------------------------------------------------
(* The inductive invariant.                                                 *)

(* Every copy of a message, wherever it is, carries the id that its body    *)
(* was given, and the copies in the files and channels of a tag are of that *)
(* tag; what waits to be committed has been consumed.                       *)
Held(x) == {x} \ {None}
CopiesOf(t) ==
    Range(dataChan[t]) \cup Held(writer[t])
       \cup data[t] \cup legacy[t] \cup unread[t]
Copies ==
    Range(dumpChan) \cup Range(skipDumpChan) \cup Range(outChan) \cup open
       \cup Held(dumper) \cup UNION {CopiesOf(t) : t \in Tag}

MsgInv ==
    /\ \A m \in Copies : m.body \in received /\ idOf[m.body] = m.id
    /\ \A t \in Tag : \A m \in CopiesOf(t) : TagOfMsg(m) = t
    /\ \A m \in open : m.body \in consumed
    /\ consumed \subseteq received

(* A commit names ids of consumed messages of its tag, from the moment it   *)
(* is sent until its ids are in the file.                                   *)
Names(t, i) == \E b \in consumed : TagOf[b] = t /\ idOf[b] = i
Commits ==
    Range(commitChan) \cup Held(committer)
       \cup UNION {Range(idChan[t]) : t \in Tag}

CommitInv ==
    /\ \A c \in Commits : \A i \in c.ids : Names(c.tag, i)
    /\ \A t \in Tag : \A c \in Range(idChan[t]) : c.tag = t

(* A tag without a runner has nothing in its channels: making the runner    *)
(* loses nothing.                                                           *)
RunnerInv ==
    \A t \in Tag \ runners : dataChan[t] = <<>> /\ idChan[t] = <<>>

(* What the loader has read does not need the rotated files any more.       *)
Handled(b) == b \in consumed \/ InDumpPath(b) \/ b \in givenUp \/ IdShared(b)
Kept(b) ==
    \/ Handled(b)
    \/ \E m \in data[TagOf[b]] : m.body = b /\ m.id \notin ids[TagOf[b]]
LoadInv == \A t \in loading : \A m \in legacy[t] \ unread[t] : Kept(m.body)

IInv ==
    /\ TypeOK /\ MsgInv /\ RunnerInv
    /\ CommitInv /\ CommittedWasConsumed
    /\ LoadInv /\ Accounted
(* The channels of a new runner are empty.                                  *)
LEMMA CreateRunnerDrops ==
    ASSUME TypeOK, NEW who, NEW t, CreateRunner(who, t), NEW s \in Tag
    PROVE  /\ Range(dataChan'[s]) \subseteq Range(dataChan[s])
           /\ Range(idChan'[s]) \subseteq Range(idChan[s])
<1>1. Range(<<>>) = {}
  BY NewChan
<1>2. QED
  BY <1>1 DEF TypeOK, CreateRunner

(* Messages only move: a copy that is somewhere after a step was somewhere  *)
(* before, or it is the message just received.                              *)
Moved(m) ==
    \/ m \in Copies
    \/ \E b \in Body : NewMsg(b) /\ m = [id |-> nextId, body |-> b]

(* No copy of a message appears but by receiving it or from another copy,   *)
(* and what gets to the channels of a tag was on its way with that tag.     *)
LEMMA CopiesMove ==
    ASSUME TypeOK, [Next]_vars
    PROVE  /\ \A m \in Copies' : Moved(m)
           /\ \A t \in Tag : \A m \in CopiesOf(t)' :
                 m \in CopiesOf(t) \/ (m \in Copies /\ TagOfMsg(m) = t)
<1> DEFINE OneStep ==
        /\ \A m \in Copies' : Moved(m)
        /\ \A t \in Tag : \A m \in CopiesOf(t)' :
              m \in CopiesOf(t) \/ (m \in Copies /\ TagOfMsg(m) = t)
<1> SUFFICES OneStep
  OBVIOUS
<1> USE DEF msgVars, dumpVars, writerVars, fileVars, loadVars, commitVars,
            downVars, lossVars, runnerVars
(* Nothing but what is named moves.                                         *)
<1>a. ASSUME UNCHANGED <<dataChan, writer, data, legacy, unread>>
      PROVE  \A t \in Tag : CopiesOf(t)' = CopiesOf(t)
  BY <1>a DEF CopiesOf, Held, Range
<1>1. ASSUME NEW b \in Body, Receive(b) PROVE OneStep
  <2>1. [id |-> nextId, body |-> b] \in Message
    BY DEF TypeOK, Message
  <2>2. Range(dumpChan') = Range(dumpChan) \cup {[id |-> nextId, body |-> b]}
    BY <1>1, <2>1, SendTo DEF TypeOK, Receive
  <2>3. \A t \in Tag : CopiesOf(t)' = CopiesOf(t)
    BY <1>1, <1>a DEF Receive
  <2>4. NewMsg(b)
    BY <1>1 DEF Receive
  <2>5. QED
    BY <1>1, <2>2, <2>3, <2>4 DEF Receive, Copies, Moved
<1>2. ASSUME NEW b \in Body, ReceiveSkip(b) PROVE OneStep
  <2>2. Range(skipDumpChan') = {[id |-> nextId, body |-> b]}
    BY <1>2 DEF ReceiveSkip, Range
  <2>3. \A t \in Tag : CopiesOf(t)' = CopiesOf(t)
    BY <1>2, <1>a DEF ReceiveSkip
  <2>4. NewMsg(b)
    BY <1>2 DEF ReceiveSkip
  <2>5. QED
    BY <1>2, <2>2, <2>3, <2>4 DEF ReceiveSkip, Copies, Moved
<1>3. CASE SkipDump
  <2>1. /\ Head(skipDumpChan) \in Message
        /\ Range(skipDumpChan) = {Head(skipDumpChan)} \cup Range(skipDumpChan')
    BY <1>3, ReceiveFrom DEF TypeOK, SkipDump
  <2>2. Range(outChan') = Range(outChan) \cup {Head(skipDumpChan)}
    BY <1>3, <2>1, SendTo DEF TypeOK, SkipDump
  <2>3. \A t \in Tag : CopiesOf(t)' = CopiesOf(t)
    BY <1>3, <1>a DEF SkipDump
  <2>4. QED
    BY <1>3, <2>1, <2>2, <2>3 DEF SkipDump, Copies, Moved
<1>4. CASE DumperRecv
  <2>1. Range(dumpChan) = {dumper'} \cup Range(dumpChan')
    BY <1>4, ReceiveFrom DEF TypeOK, DumperRecv
  <2>2. \A t \in Tag : CopiesOf(t)' = CopiesOf(t)
    BY <1>4, <1>a DEF DumperRecv
  <2>3. QED
    BY <1>4, <2>1, <2>2 DEF DumperRecv, Copies, Held, Moved
<1>5. CASE DumperLookup
  <2>1. \A t \in Tag : CopiesOf(t)' = CopiesOf(t)
    BY <1>5, <1>a DEF DumperLookup
  <2>2. QED
    BY <1>5, <2>1 DEF DumperLookup, Copies, Moved
<1>6. CASE DumperCreate
  <2>1. \A t \in Tag : CopiesOf(t)' \subseteq CopiesOf(t)
    BY <1>6, CreateRunnerDrops DEF DumperCreate, CopiesOf
  <2>2. QED
    BY <1>6, <2>1 DEF DumperCreate, Copies, Moved
<1>7. CASE DumperSend
  <2> DEFINE t == TagOfMsg(dumper)
  <2>1. dumper \in Message /\ t \in Tag /\ dumper \in Held(dumper)
    BY <1>7 DEF TypeOK, DumperSend, TagOfMsg, Message, Held
  <2>2. dumper \in Copies
    BY <2>1 DEF Copies
  <2> HIDE DEF t
  <2>3. \A s \in Tag : Range(dataChan'[s]) \subseteq
           IF s = t THEN Range(dataChan[s]) \cup {dumper} ELSE Range(dataChan[s])
    <3>1. CASE UNCHANGED dataChan
      BY <3>1
    <3>2. CASE dataChan' = [dataChan EXCEPT ![t] = Append(@, dumper)]
      <4>1. Range(Append(dataChan[t], dumper)) = Range(dataChan[t]) \cup {dumper}
        BY <2>1, SendTo DEF TypeOK
      <4>2. QED
        BY <2>1, <3>2, <4>1 DEF TypeOK
    <3>3. QED
      BY <1>7, <3>1, <3>2 DEF DumperSend, t
  <2>4. Range(outChan') \subseteq Range(outChan) \cup {dumper}
    <3>1. CASE UNCHANGED outChan
      BY <3>1
    <3>2. CASE outChan' = Append(outChan, dumper)
      BY <2>1, <3>2, SendTo DEF TypeOK
    <3>3. QED
      BY <1>7, <3>1, <3>2 DEF DumperSend
  <2>5. \A s \in Tag : \A m \in CopiesOf(s)' :
           m \in CopiesOf(s) \/ (m = dumper /\ s = t)
    BY <1>7, <2>3 DEF DumperSend, CopiesOf
  <2>6. \A m \in Copies' : m \in Copies
    BY <1>7, <2>2, <2>4, <2>5 DEF DumperSend, Copies, Held
  <2>7. QED
    BY <2>2, <2>5, <2>6 DEF Moved, t
<1>8. ASSUME NEW t \in Tag, NEW ok \in BOOLEAN, DataWrite(t, ok) PROVE OneStep
  <2> DEFINE msg == Head(dataChan[t])
  <2>1. Range(dataChan[t]) = {msg} \cup Range(Tail(dataChan[t]))
    BY <1>8, ReceiveFrom DEF TypeOK, DataWrite
  <2> HIDE DEF msg
  <2>2. \A s \in Tag : /\ Range(dataChan'[s]) \subseteq Range(dataChan[s])
                       /\ data'[s] \subseteq data[s] \cup
                             (IF s = t THEN {msg} ELSE {})
                       /\ Held(writer[s])' \subseteq Held(writer[s]) \cup
                             (IF s = t THEN {msg} ELSE {})
    BY <1>8, <2>1 DEF TypeOK, DataWrite, Held, msg
  <2>3. msg \in CopiesOf(t)
    BY <2>1 DEF CopiesOf
  <2>4. \A s \in Tag : CopiesOf(s)' \subseteq CopiesOf(s)
    BY <1>8, <2>2, <2>3 DEF DataWrite, CopiesOf
  <2>5. QED
    BY <1>8, <2>4 DEF DataWrite, Copies, Moved
<1>9. ASSUME NEW t \in Tag, DataForward(t) PROVE OneStep
  <2>1. writer[t] \in Message /\ writer[t] \in CopiesOf(t)
    BY <1>9 DEF TypeOK, DataForward, CopiesOf, Held
  <2>2. Range(outChan') \subseteq Range(outChan) \cup {writer[t]}
    BY <1>9, <2>1, SendTo DEF TypeOK, DataForward
  <2>3. \A s \in Tag : CopiesOf(s)' \subseteq CopiesOf(s)
    BY <1>9 DEF TypeOK, DataForward, CopiesOf, Held
  <2>4. QED
    BY <1>9, <2>1, <2>2, <2>3 DEF DataForward, Copies, Moved
<1>10. ASSUME NEW t \in Tag, Rotate(t) PROVE OneStep
  <2>1. \A s \in Tag : CopiesOf(s)' \subseteq CopiesOf(s)
    BY <1>10 DEF TypeOK, Rotate, CopiesOf
  <2>2. QED
    BY <1>10, <2>1 DEF Rotate, Copies, Moved
<1>11. CASE LegacyStart
  <2>1. \A s \in Tag : CopiesOf(s)' \subseteq CopiesOf(s)
    BY <1>11 DEF TypeOK, LegacyStart, CopiesOf
  <2>2. QED
    BY <1>11, <2>1 DEF LegacyStart, Copies, Moved
<1>12. ASSUME NEW t \in Tag, NEW m \in unread[t], LegacyLoad(t, m) PROVE OneStep
  <2>1. m \in Message /\ m \in CopiesOf(t)
    BY DEF TypeOK, CopiesOf
  <2>2. Range(dumpChan') \subseteq Range(dumpChan) \cup {m}
    <3>1. CASE UNCHANGED dumpChan
      BY <3>1
    <3>2. CASE dumpChan' = Append(dumpChan, m)
      BY <2>1, <3>2, SendTo DEF TypeOK
    <3>3. QED
      BY <1>12, <3>1, <3>2 DEF LegacyLoad
  <2>3. \A s \in Tag : CopiesOf(s)' \subseteq CopiesOf(s)
    BY <1>12 DEF TypeOK, LegacyLoad, CopiesOf
  <2>4. QED
    BY <1>12, <2>1, <2>2, <2>3 DEF LegacyLoad, Copies, Moved
<1>13. ASSUME NEW t \in Tag, LegacyEof(t) PROVE OneStep
  <2>1. \A s \in Tag : CopiesOf(s)' \subseteq CopiesOf(s)
    BY <1>13 DEF TypeOK, LegacyEof, CopiesOf
  <2>2. QED
    BY <1>13, <2>1 DEF LegacyEof, Copies, Moved
<1>14. ASSUME NEW t \in Tag, LegacyError(t) PROVE OneStep
  <2>1. \A s \in Tag : CopiesOf(s)' \subseteq CopiesOf(s)
    BY <1>14 DEF TypeOK, LegacyError, CopiesOf
  <2>2. QED
    BY <1>14, <2>1 DEF LegacyError, Copies, Moved
<1>15. CASE Consume
  <2>1. Range(outChan) = {Head(outChan)} \cup Range(outChan')
    BY <1>15, ReceiveFrom DEF TypeOK, Consume
  <2>2. \A s \in Tag : CopiesOf(s)' = CopiesOf(s)
    BY <1>15, <1>a DEF Consume
  <2>3. QED
    BY <1>15, <2>1, <2>2 DEF Consume, Copies, Moved
<1>16. CASE Fail
  <2>1. Range(outChan) = {Head(outChan)} \cup Range(outChan')
    BY <1>16, ReceiveFrom DEF TypeOK, Fail
  <2>2. \A s \in Tag : CopiesOf(s)' = CopiesOf(s)
    BY <1>16, <1>a DEF Fail
  <2>3. QED
    BY <1>16, <2>1, <2>2 DEF Fail, Copies, Moved
<1>17. ASSUME NEW S \in SUBSET open, SendCommit(S) PROVE OneStep
  <2>1. \A s \in Tag : CopiesOf(s)' = CopiesOf(s)
    BY <1>17, <1>a DEF SendCommit
  <2>2. QED
    BY <1>17, <2>1 DEF SendCommit, Copies, Moved
<1>18. CASE CommitRecv
  <2>1. \A s \in Tag : CopiesOf(s)' = CopiesOf(s)
    BY <1>18, <1>a DEF CommitRecv
  <2>2. QED
    BY <1>18, <2>1 DEF CommitRecv, Copies, Moved
<1>19. CASE CommitLookup
  <2>1. \A s \in Tag : CopiesOf(s)' = CopiesOf(s)
    BY <1>19, <1>a DEF CommitLookup
  <2>2. QED
    BY <1>19, <2>1 DEF CommitLookup, Copies, Moved
<1>20. CASE CommitCreate
  <2>1. \A t \in Tag : CopiesOf(t)' \subseteq CopiesOf(t)
    BY <1>20, CreateRunnerDrops DEF CommitCreate, CopiesOf
  <2>2. QED
    BY <1>20, <2>1 DEF CommitCreate, Copies, Moved
<1>21. CASE CommitSend
  <2>1. \A s \in Tag : CopiesOf(s)' = CopiesOf(s)
    BY <1>21, <1>a DEF CommitSend
  <2>2. QED
    BY <1>21, <2>1 DEF CommitSend, Copies, Moved
<1>22. ASSUME NEW t \in Tag, NEW written \in SUBSET Id, IdsWrite(t, written)
       PROVE OneStep
  <2>1. \A s \in Tag : CopiesOf(s)' = CopiesOf(s)
    BY <1>22, <1>a DEF IdsWrite
  <2>2. QED
    BY <1>22, <2>1 DEF IdsWrite, Copies, Moved
<1>23. CASE Crash
  <2>1. \A s \in Tag : CopiesOf(s)' \subseteq CopiesOf(s)
    BY <1>23, NewChan DEF TypeOK, Crash, CopiesOf, Held
  <2>2. Copies' \subseteq Copies
    BY <1>23, <2>1, NewChan DEF Crash, Copies, Held
  <2>3. QED
    BY <2>1, <2>2 DEF Moved
<1>24. CASE UNCHANGED vars
  <2>1. \A s \in Tag : CopiesOf(s)' = CopiesOf(s)
    BY <1>24, <1>a DEF vars
  <2>2. QED
    BY <1>24, <2>1 DEF vars, Copies, Moved
<1>25. QED
  BY <1>1, <1>2, <1>3, <1>4, <1>5, <1>6, <1>7, <1>8, <1>9, <1>10, <1>11,
     <1>12, <1>13, <1>14, <1>15, <1>16, <1>17, <1>18, <1>19, <1>20, <1>21,
     <1>22, <1>23, <1>24 DEF Next

(* What a step does to the bodies: it receives one, it consumes the next of *)
(* outChan, or it leaves them alone.                                        *)
LEMMA BodiesMove ==
    ASSUME [Next]_vars
    PROVE  \/ \E b \in Body : NewMsg(b) /\ UNCHANGED <<open, consumed>>
           \/ Consume
           \/ open' \subseteq open /\ UNCHANGED <<received, idOf, consumed>>
<1> USE DEF msgVars, dumpVars, writerVars, fileVars, loadVars, commitVars,
            downVars, lossVars, runnerVars
<1>1. ASSUME NEW b \in Body, Receive(b) \/ ReceiveSkip(b)
      PROVE  NewMsg(b) /\ UNCHANGED <<open, consumed>>
  BY <1>1 DEF Receive, ReceiveSkip
<1>2. CASE \/ SkipDump \/ DumperRecv \/ DumperLookup \/ DumperCreate
           \/ DumperSend \/ LegacyStart \/ Fail
           \/ CommitRecv \/ CommitLookup \/ CommitCreate \/ CommitSend
           \/ Crash \/ UNCHANGED vars
  BY <1>2 DEF SkipDump, DumperRecv, DumperLookup, DumperCreate, DumperSend,
     LegacyStart, Fail, CommitRecv, CommitLookup, CommitCreate, CommitSend,
     Crash, vars
<1>3. ASSUME NEW t \in Tag,
             \/ \E ok \in BOOLEAN : DataWrite(t, ok)
             \/ DataForward(t) \/ Rotate(t)
             \/ \E m \in unread[t] : LegacyLoad(t, m)
             \/ LegacyEof(t) \/ LegacyError(t)
             \/ \E written \in SUBSET Id : IdsWrite(t, written)
      PROVE  UNCHANGED <<open, received, idOf, consumed>>
  BY <1>3 DEF DataWrite, DataForward, Rotate, LegacyLoad, LegacyEof,
     LegacyError, IdsWrite
<1>4. ASSUME NEW S \in SUBSET open, SendCommit(S)
      PROVE  open' \subseteq open /\ UNCHANGED <<received, idOf, consumed>>
  BY <1>4 DEF SendCommit
<1>5. QED
  BY <1>1, <1>2, <1>3, <1>4 DEF Next

(* Every step keeps the ids and the tags of copies as they were given.      *)
LEMMA NextMsgInv ==
    ASSUME TypeOK, MsgInv, [Next]_vars
    PROVE  MsgInv'
<1>1. /\ \A m \in Copies' : Moved(m)
      /\ \A t \in Tag : \A m \in CopiesOf(t)' :
            m \in CopiesOf(t) \/ (m \in Copies /\ TagOfMsg(m) = t)
  BY CopiesMove
<1>2. \A t \in Tag : \A m \in CopiesOf(t)' : TagOfMsg(m) = t
  BY <1>1 DEF MsgInv
<1>3. \/ \E b \in Body : NewMsg(b) /\ UNCHANGED <<open, consumed>>
      \/ Consume
      \/ open' \subseteq open /\ UNCHANGED <<received, idOf, consumed>>
  BY BodiesMove
<1>4. CASE \E b \in Body : NewMsg(b) /\ UNCHANGED <<open, consumed>>
  <2>1. PICK b \in Body : NewMsg(b) /\ UNCHANGED <<open, consumed>>
    BY <1>4
  <2>2. /\ b \notin received /\ received' = received \cup {b}
        /\ idOf' = [idOf EXCEPT ![b] = nextId]
        /\ idOf \in [Body -> Id \cup {None}]
    BY <2>1 DEF NewMsg, TypeOK
  <2>3. ASSUME NEW m \in Copies'
        PROVE  m.body \in received' /\ idOf'[m.body] = m.id
    <3>1. CASE m \in Copies
      BY <2>2, <3>1 DEF MsgInv
    <3>2. ASSUME NEW c \in Body, NewMsg(c), m = [id |-> nextId, body |-> c]
          PROVE  m.body \in received' /\ idOf'[m.body] = m.id
      BY <2>2, <3>2 DEF NewMsg, TypeOK
    <3>3. QED
      BY <1>1, <3>1, <3>2 DEF Moved
  <2>4. QED
    BY <1>2, <2>1, <2>2, <2>3 DEF MsgInv
<1>5. ASSUME UNCHANGED <<received, idOf>>
      PROVE  \A m \in Copies' : m.body \in received' /\ idOf'[m.body] = m.id
  <2>1. \A b \in Body : ~NewMsg(b)
    BY <1>5 DEF NewMsg
  <2>2. QED
    BY <1>1, <1>5, <2>1 DEF Moved, MsgInv
<1>6. CASE Consume
  <2>1. /\ UNCHANGED <<received, idOf>> /\ Head(outChan) \in Range(outChan)
        /\ open' = open \cup {Head(outChan)}
        /\ consumed' = consumed \cup {Head(outChan).body}
    BY <1>6, ReceiveFrom DEF TypeOK, Consume, msgVars
  <2>2. Head(outChan).body \in received
    BY <2>1 DEF MsgInv, Copies
  <2>3. QED
    BY <1>2, <1>5, <2>1, <2>2 DEF MsgInv
<1>7. CASE open' \subseteq open /\ UNCHANGED <<received, idOf, consumed>>
  BY <1>2, <1>5, <1>7 DEF MsgInv
<1>8. QED
  BY <1>3, <1>4, <1>6, <1>7

(* Only the ids writer adds to the ids.                                     *)
LEMMA IdsMove ==
    ASSUME [Next]_vars
    PROVE  \/ UNCHANGED ids
           \/ \E t \in Tag : \E written \in SUBSET Id : IdsWrite(t, written)
<1> USE DEF msgVars, dumpVars, writerVars, fileVars, loadVars, commitVars,
            downVars, lossVars, runnerVars
<1>1. CASE \/ \E b \in Body : Receive(b) \/ ReceiveSkip(b)
           \/ SkipDump \/ DumperRecv \/ DumperLookup \/ DumperCreate
           \/ DumperSend \/ LegacyStart \/ Consume \/ Fail
           \/ \E S \in SUBSET open : SendCommit(S)
           \/ CommitRecv \/ CommitLookup \/ CommitCreate \/ CommitSend
           \/ Crash \/ UNCHANGED vars
  BY <1>1 DEF Receive, ReceiveSkip, SkipDump, DumperRecv, DumperLookup,
     DumperCreate, DumperSend, LegacyStart, Consume, Fail, SendCommit,
     CommitRecv, CommitLookup, CommitCreate, CommitSend, Crash, vars
<1>2. ASSUME NEW t \in Tag,
             \/ \E ok \in BOOLEAN : DataWrite(t, ok)
             \/ DataForward(t) \/ Rotate(t)
             \/ \E m \in unread[t] : LegacyLoad(t, m)
             \/ LegacyEof(t) \/ LegacyError(t)
      PROVE  UNCHANGED ids
  BY <1>2 DEF DataWrite, DataForward, Rotate, LegacyLoad, LegacyEof,
     LegacyError
<1>3. QED
  BY <1>1, <1>2 DEF Next

(* Every step keeps the channels of tags without a runner empty.            *)
LEMMA NextRunnerInv ==
    ASSUME TypeOK, RunnerInv, [Next]_vars
    PROVE  RunnerInv'
<1> USE DEF msgVars, dumpVars, writerVars, fileVars, loadVars, commitVars,
            downVars, lossVars, runnerVars
<1>1. ASSUME NEW who, NEW t \in Tag, CreateRunner(who, t) PROVE RunnerInv'
  BY <1>1 DEF TypeOK, RunnerInv, CreateRunner
<1>2. CASE DumperCreate
  <2>1. TagOfMsg(dumper) \in Tag
    BY <1>2, TagAssumption DEF TypeOK, DumperCreate, TagOfMsg, Message
  <2>2. QED
    BY <1>1, <1>2, <2>1 DEF DumperCreate
<1>3. CASE CommitCreate
  BY <1>1, <1>3 DEF TypeOK, CommitCreate, Commit
<1>4. CASE DumperSend
  <2>1. /\ TagOfMsg(dumper) \in runners /\ UNCHANGED <<idChan, runners>>
        /\ \A s \in Tag \ {TagOfMsg(dumper)} : dataChan'[s] = dataChan[s]
    BY <1>4 DEF TypeOK, DumperSend
  <2>2. QED
    BY <2>1 DEF RunnerInv
<1>5. ASSUME NEW t \in Tag, NEW ok \in BOOLEAN, DataWrite(t, ok) PROVE RunnerInv'
  BY <1>5 DEF TypeOK, RunnerInv, DataWrite
<1>6. CASE CommitSend
  <2>1. /\ committer.tag \in runners /\ UNCHANGED <<dataChan, runners>>
        /\ \A s \in Tag \ {committer.tag} : idChan'[s] = idChan[s]
    BY <1>6 DEF TypeOK, CommitSend
  <2>2. QED
    BY <2>1 DEF RunnerInv
<1>7. ASSUME NEW t \in Tag, NEW written \in SUBSET Id, IdsWrite(t, written)
      PROVE  RunnerInv'
  BY <1>7 DEF TypeOK, RunnerInv, IdsWrite
<1>8. CASE Crash
  BY <1>8 DEF RunnerInv, Crash
<1>9. CASE \/ \E b \in Body : Receive(b) \/ ReceiveSkip(b)
           \/ SkipDump \/ DumperRecv \/ DumperLookup
           \/ LegacyStart \/ Consume \/ Fail
           \/ \E S \in SUBSET open : SendCommit(S)
           \/ CommitRecv \/ CommitLookup \/ UNCHANGED vars
  <2>1. UNCHANGED <<runners, dataChan, idChan>>
    BY <1>9 DEF Receive, ReceiveSkip, SkipDump, DumperRecv, DumperLookup,
       FindNoRunner, LegacyStart, Consume, Fail, SendCommit, CommitRecv,
       CommitLookup, vars
  <2>2. QED
    BY <2>1 DEF RunnerInv
<1>10. ASSUME NEW t \in Tag,
              \/ DataForward(t) \/ Rotate(t)
              \/ \E m \in unread[t] : LegacyLoad(t, m)
              \/ LegacyEof(t) \/ LegacyError(t)
       PROVE  RunnerInv'
  <2>1. UNCHANGED <<runners, dataChan, idChan>>
    BY <1>10 DEF DataForward, Rotate, LegacyLoad, LegacyEof, LegacyError
  <2>2. QED
    BY <2>1 DEF RunnerInv
<1>11. QED
  BY <1>2, <1>3, <1>4, <1>5, <1>6, <1>7, <1>8, <1>9, <1>10 DEF Next

(* Commits only move, too: one that is somewhere after a step was somewhere *)
(* before, or stands for messages that wait to be committed.                *)
SentNow(c) ==
    \E S \in SUBSET open : /\ \A m \in S : TagOfMsg(m) = c.tag
                           /\ c.ids = {m.id : m \in S}

(* No commit appears but the one that the downstream sends now, and what    *)
(* gets to the ids channel of a tag was a commit of that tag.               *)
LEMMA CommitsMove ==
    ASSUME TypeOK, [Next]_vars
    PROVE  /\ \A c \in Commits' : c \in Commits \/ SentNow(c)
           /\ \A t \in Tag : \A c \in Range(idChan'[t]) :
                 c \in Range(idChan[t]) \/ (c \in Commits /\ c.tag = t)
<1> DEFINE OneStep ==
        /\ \A c \in Commits' : c \in Commits \/ SentNow(c)
        /\ \A t \in Tag : \A c \in Range(idChan'[t]) :
              c \in Range(idChan[t]) \/ (c \in Commits /\ c.tag = t)
<1> SUFFICES OneStep
  OBVIOUS
<1> USE DEF msgVars, dumpVars, writerVars, fileVars, loadVars, commitVars,
            downVars, lossVars, runnerVars
<1>1. ASSUME NEW S \in SUBSET open, SendCommit(S) PROVE OneStep
  <2>1. PICK t \in Tag :
           /\ \A m \in S : TagOfMsg(m) = t
           /\ commitChan' = Append(commitChan, [tag |-> t, ids |-> {m.id : m \in S}])
    BY <1>1 DEF SendCommit
  <2> DEFINE c == [tag |-> t, ids |-> {m.id : m \in S}]
  <2>2. {m.id : m \in S} \subseteq Id
    BY DEF TypeOK, Message
  <2>3. c \in Commit
    BY <2>2 DEF Commit
  <2>4. SentNow(c)
    BY <2>1 DEF SentNow
  <2>5. commitChan' = Append(commitChan, c)
    BY <2>1
  <2> HIDE DEF c
  <2>6. Range(commitChan') = Range(commitChan) \cup {c}
    BY <2>3, <2>5, SendTo DEF TypeOK
  <2>7. QED
    BY <1>1, <2>4, <2>6 DEF SendCommit, Commits
<1>2. CASE CommitRecv
  <2>1. Range(commitChan) = {committer'} \cup Range(commitChan')
    BY <1>2, ReceiveFrom DEF TypeOK, CommitRecv
  <2>2. QED
    BY <1>2, <2>1 DEF CommitRecv, Commits, Held
<1>3. CASE DumperCreate
  <2>1. \A s \in Tag : Range(idChan'[s]) \subseteq Range(idChan[s])
    BY <1>3, CreateRunnerDrops DEF DumperCreate
  <2>2. QED
    BY <1>3, <2>1 DEF DumperCreate, Commits
<1>4. CASE CommitCreate
  <2>1. \A s \in Tag : Range(idChan'[s]) \subseteq Range(idChan[s])
    BY <1>4, CreateRunnerDrops DEF CommitCreate
  <2>2. QED
    BY <1>4, <2>1 DEF CommitCreate, Commits
<1>5. CASE CommitSend
  <2> DEFINE t == committer.tag
  <2>1. committer \in Commit /\ t \in Tag /\ committer \in Commits
    BY <1>5 DEF TypeOK, CommitSend, Commit, Commits, Held
  <2> HIDE DEF t
  <2>2. \A s \in Tag : Range(idChan'[s]) \subseteq
           IF s = t THEN Range(idChan[s]) \cup {committer} ELSE Range(idChan[s])
    <3>1. CASE UNCHANGED idChan
      BY <3>1
    <3>2. CASE idChan' = [idChan EXCEPT ![t] = Append(@, committer)]
      <4>1. Range(Append(idChan[t], committer)) = Range(idChan[t]) \cup {committer}
        BY <2>1, SendTo DEF TypeOK
      <4>2. QED
        BY <2>1, <3>2, <4>1 DEF TypeOK
    <3>3. QED
      BY <1>5, <3>1, <3>2 DEF CommitSend, t
  <2>3. Range(commitChan') \subseteq Range(commitChan) \cup {committer}
    <3>1. CASE UNCHANGED commitChan
      BY <3>1
    <3>2. CASE commitChan' = Append(commitChan, committer)
      BY <2>1, <3>2, SendTo DEF TypeOK
    <3>3. QED
      BY <1>5, <3>1, <3>2 DEF CommitSend
  <2>4. \A c \in Commits' : c \in Commits
    BY <1>5, <2>1, <2>2, <2>3 DEF CommitSend, Commits, Held
  <2>5. QED
    BY <2>1, <2>2, <2>4 DEF t
<1>6. ASSUME NEW t \in Tag, NEW written \in SUBSET Id, IdsWrite(t, written)
      PROVE  OneStep
  <2>1. Range(Tail(idChan[t])) \subseteq Range(idChan[t])
    BY <1>6, ReceiveFrom DEF TypeOK, IdsWrite
  <2>2. \A s \in Tag : Range(idChan'[s]) \subseteq Range(idChan[s])
    BY <1>6, <2>1 DEF TypeOK, IdsWrite
  <2>3. QED
    BY <1>6, <2>2 DEF IdsWrite, Commits
<1>7. CASE Crash
  <2>1. \A s \in Tag : Range(idChan'[s]) = {}
    BY <1>7, NewChan DEF Crash
  <2>2. QED
    BY <1>7, <2>1, NewChan DEF Crash, Commits, Held
<1>8. ASSUME UNCHANGED commitVars PROVE OneStep
  BY <1>8 DEF Commits, Held
<1>9. CASE \/ \E b \in Body : Receive(b) \/ ReceiveSkip(b)
           \/ SkipDump \/ DumperRecv \/ DumperLookup \/ DumperSend
           \/ LegacyStart \/ Consume \/ Fail
           \/ CommitLookup \/ UNCHANGED vars
  BY <1>8, <1>9 DEF Receive, ReceiveSkip, SkipDump, DumperRecv, DumperLookup,
     DumperSend, LegacyStart, Consume, Fail, CommitLookup, vars
<1>10. ASSUME NEW t \in Tag,
              \/ \E ok \in BOOLEAN : DataWrite(t, ok)
              \/ DataForward(t) \/ Rotate(t)
              \/ \E m \in unread[t] : LegacyLoad(t, m)
              \/ LegacyEof(t) \/ LegacyError(t)
       PROVE  OneStep
  BY <1>8, <1>10 DEF DataWrite, DataForward, Rotate, LegacyLoad, LegacyEof,
     LegacyError
<1>11. QED
  BY <1>1, <1>2, <1>3, <1>4, <1>5, <1>6, <1>7, <1>9, <1>10 DEF Next

(* What commits name stays consumed.                                        *)
LEMMA NamesStay ==
    ASSUME TypeOK, MsgInv, [Next]_vars, NEW t, NEW i, Names(t, i)
    PROVE  Names(t, i)'
<1>1. PICK b \in consumed : TagOf[b] = t /\ idOf[b] = i
  BY DEF Names
<1>2. b \in consumed' /\ idOf'[b] = idOf[b]
  BY BodiesMove DEF NewMsg, Consume, TypeOK, MsgInv, msgVars
<1>3. QED
  BY <1>1, <1>2 DEF Names

(* Every step keeps commits to ids of consumed messages.                    *)
LEMMA NextCommitInv ==
    ASSUME TypeOK, MsgInv, CommitInv, CommittedWasConsumed, [Next]_vars
    PROVE  CommitInv' /\ CommittedWasConsumed'
<1>1. \A c \in Commits' : c \in Commits \/ SentNow(c)
  BY CommitsMove
<1>2. \A t \in Tag : \A c \in Range(idChan'[t]) :
         c \in Range(idChan[t]) \/ (c \in Commits /\ c.tag = t)
  BY CommitsMove
<1>3. ASSUME NEW c \in Commits', NEW i \in c.ids PROVE Names(c.tag, i)'
  <2>1. CASE c \in Commits
    BY <2>1, NamesStay DEF CommitInv
  <2>2. CASE SentNow(c)
    <3>1. PICK m \in open : TagOfMsg(m) = c.tag /\ m.id = i
      BY <2>2 DEF SentNow
    <3>2. m.body \in consumed /\ idOf[m.body] = i
      BY <3>1 DEF MsgInv, Copies
    <3>3. QED
      BY <3>1, <3>2, NamesStay DEF Names, TagOfMsg
  <2>3. QED
    BY <1>1, <2>1, <2>2
<1>4. ASSUME NEW t \in Tag, NEW i \in ids'[t] PROVE Names(t, i)'
  <2>1. CASE i \in ids[t]
    BY <2>1, NamesStay DEF CommittedWasConsumed, Names
  <2>2. CASE i \notin ids[t]
    <3>1. PICK s \in Tag, written \in SUBSET Id : IdsWrite(s, written)
      BY <2>2, IdsMove
    <3>2. s = t /\ i \in Head(idChan[t]).ids /\ idChan[t] # <<>>
      BY <2>2, <3>1 DEF IdsWrite, TypeOK
    <3>3. Head(idChan[t]) \in Range(idChan[t])
      BY <3>2, ReceiveFrom DEF TypeOK
    <3>4. QED
      BY <3>2, <3>3, NamesStay DEF CommitInv, Commits
  <2>3. QED
    BY <2>1, <2>2
<1>5. QED
  BY <1>2, <1>3, <1>4 DEF CommitInv, CommittedWasConsumed, Names

-----------------------------------------------------------------------------
(* No message is forgotten.                                                 *)

(* A copy whose id is committed for its tag is a copy of a consumed body,   *)
(* or of one that shares its id.                                            *)
LEMMA NamedIsHandled ==
    ASSUME MsgInv, NEW t \in Tag, NEW m \in CopiesOf(t), Names(t, m.id)
    PROVE  m.body \in consumed \/ IdShared(m.body)
<1>1. TagOf[m.body] = t /\ idOf[m.body] = m.id
  BY DEF MsgInv, Copies, TagOfMsg
<1>2. QED
  BY <1>1 DEF Names, IdShared

(* The same after a step, for the copies that are kept in it.               *)
LEMMA NamedIsHandledNext ==
    ASSUME MsgInv', NEW t \in Tag, NEW m \in CopiesOf(t)', Names(t, m.id)'
    PROVE  m.body \in consumed' \/ IdShared(m.body)'
<1>1. TagOf[m.body] = t /\ idOf'[m.body] = m.id
  BY DEF MsgInv, Copies, TagOfMsg
<1>2. QED
  BY <1>1 DEF Names, IdShared

(* How the files change: messages leave the current file only when it is    *)
(* rotated or when the program dies, and the files only when the loader is  *)
(* done with them.                                                          *)
LEMMA FilesMove ==
    ASSUME TypeOK, [Next]_vars, NEW t \in Tag
    PROVE  /\ data[t] \subseteq data'[t] \/ Rotate(t) \/ Crash
           /\ data[t] \cup legacy[t] \subseteq data'[t] \cup legacy'[t] \/ LegacyEof(t)
           /\ t \in loading' => 
                 \A m \in legacy'[t] \ unread'[t] :
                    \/ t \in loading /\ m \in legacy[t] \ unread[t]
                    \/ m \in unread[t] /\ LegacyLoad(t, m)
<1> DEFINE OneStep ==
           /\ data[t] \subseteq data'[t] \/ Rotate(t) \/ Crash
           /\ data[t] \cup legacy[t] \subseteq data'[t] \cup legacy'[t] \/ LegacyEof(t)
           /\ t \in loading' => 
                 \A m \in legacy'[t] \ unread'[t] :
                    \/ t \in loading /\ m \in legacy[t] \ unread[t]
                    \/ m \in unread[t] /\ LegacyLoad(t, m)
<1> SUFFICES OneStep
  OBVIOUS
<1> USE DEF msgVars, dumpVars, writerVars, fileVars, loadVars, commitVars,
            downVars, lossVars, runnerVars
<1>1. ASSUME NEW s \in Tag, NEW ok \in BOOLEAN, DataWrite(s, ok) PROVE OneStep
  BY <1>1 DEF TypeOK, DataWrite
<1>2. ASSUME NEW s \in Tag, Rotate(s) PROVE OneStep
  BY <1>2 DEF TypeOK, Rotate
<1>3. CASE LegacyStart
  BY <1>3 DEF TypeOK, LegacyStart
<1>4. ASSUME NEW s \in Tag, NEW m \in unread[s], LegacyLoad(s, m) PROVE OneStep
  BY <1>4 DEF TypeOK, LegacyLoad
<1>5. ASSUME NEW s \in Tag, LegacyEof(s) PROVE OneStep
  BY <1>5 DEF TypeOK, LegacyEof
<1>6. ASSUME NEW s \in Tag, LegacyError(s) PROVE OneStep
  BY <1>6 DEF TypeOK, LegacyError
<1>7. CASE Crash
  BY <1>7 DEF TypeOK, Crash
<1>8. ASSUME UNCHANGED <<data, legacy, loading, unread>> PROVE OneStep
  BY <1>8
<1>9. CASE \/ \E b \in Body : Receive(b) \/ ReceiveSkip(b)
           \/ SkipDump \/ DumperRecv \/ DumperLookup \/ DumperCreate
           \/ DumperSend \/ Consume \/ Fail
           \/ \E S \in SUBSET open : SendCommit(S)
           \/ CommitRecv \/ CommitLookup \/ CommitCreate \/ CommitSend
           \/ \E s \in Tag : DataForward(s)
           \/ \E s \in Tag : \E written \in SUBSET Id : IdsWrite(s, written)
           \/ UNCHANGED vars
  BY <1>8, <1>9 DEF Receive, ReceiveSkip, SkipDump, DumperRecv, DumperLookup,
     DumperCreate, DumperSend, Consume, Fail, SendCommit, CommitRecv,
     CommitLookup, CommitCreate, CommitSend, DataForward, IdsWrite, vars
<1>10. QED
  BY <1>1, <1>2, <1>3, <1>4, <1>5, <1>6, <1>7, <1>9 DEF Next

(* What is given up stays given up.                                         *)
LEMMA GivenUpGrows ==
    ASSUME [Next]_vars
    PROVE  givenUp \subseteq givenUp'
<1> USE DEF msgVars, dumpVars, writerVars, fileVars, loadVars, commitVars,
            downVars, lossVars, runnerVars
<1>1. CASE \/ \E b \in Body : Receive(b) \/ ReceiveSkip(b)
           \/ SkipDump \/ DumperRecv \/ DumperLookup \/ DumperCreate
           \/ DumperSend \/ LegacyStart \/ Consume \/ Fail
           \/ \E S \in SUBSET open : SendCommit(S)
           \/ CommitRecv \/ CommitLookup \/ CommitCreate \/ CommitSend
           \/ Crash \/ UNCHANGED vars
  BY <1>1 DEF Receive, ReceiveSkip, SkipDump, DumperRecv, DumperLookup,
     DumperCreate, DumperSend, LegacyStart, Consume, Fail, SendCommit,
     CommitRecv, CommitLookup, CommitCreate, CommitSend, Crash, vars
<1>2. ASSUME NEW t \in Tag,
             \/ \E ok \in BOOLEAN : DataWrite(t, ok)
             \/ DataForward(t) \/ Rotate(t)
             \/ \E m \in unread[t] : LegacyLoad(t, m)
             \/ LegacyEof(t) \/ LegacyError(t)
             \/ \E written \in SUBSET Id : IdsWrite(t, written)
      PROVE  givenUp \subseteq givenUp'
  BY <1>2 DEF DataWrite, DataForward, Rotate, LegacyLoad, LegacyEof,
     LegacyError, IdsWrite
<1>3. QED
  BY <1>1, <1>2 DEF Next

(* Messages come from the receivers only.                                   *)
LEMMA ReceivedNow ==
    ASSUME [Next]_vars, NEW b \in received', b \notin received
    PROVE  Receive(b) \/ ReceiveSkip(b)
<1> USE DEF msgVars, dumpVars, writerVars, fileVars, loadVars, commitVars,
            downVars, lossVars, runnerVars
<1>1. ASSUME NEW c \in Body, Receive(c) \/ ReceiveSkip(c) PROVE c = b
  BY <1>1 DEF Receive, ReceiveSkip, NewMsg
<1>2. CASE \/ SkipDump \/ DumperRecv \/ DumperLookup \/ DumperCreate
           \/ DumperSend \/ LegacyStart \/ Consume \/ Fail
           \/ \E S \in SUBSET open : SendCommit(S)
           \/ CommitRecv \/ CommitLookup \/ CommitCreate \/ CommitSend
           \/ Crash \/ UNCHANGED vars
  BY <1>2 DEF SkipDump, DumperRecv, DumperLookup,
     DumperCreate, DumperSend, LegacyStart, Consume, Fail, SendCommit,
     CommitRecv, CommitLookup, CommitCreate, CommitSend, Crash, vars
<1>3. CASE \E t \in Tag :
             \/ \E ok \in BOOLEAN : DataWrite(t, ok)
             \/ DataForward(t) \/ Rotate(t)
             \/ \E m \in unread[t] : LegacyLoad(t, m)
             \/ LegacyEof(t) \/ LegacyError(t)
             \/ \E written \in SUBSET Id : IdsWrite(t, written)
  BY <1>3 DEF DataWrite, DataForward, Rotate, LegacyLoad, LegacyEof,
     LegacyError, IdsWrite
<1>4. QED
  BY <1>1, <1>2, <1>3 DEF Next

(* A body on its way to the dump goes on along it, or it is written, or     *)
(* given up; only a crash takes it off.                                     *)
Written(b) == \E m \in data[TagOf[b]] : m.body = b

(* What is on the way to a file stays on it, gets to the file, or is        *)
(* given up; or the program dies.                                           *)
LEMMA DumpPathMoves ==
    ASSUME TypeOK, MsgInv, RunnerInv, [Next]_vars, NEW b \in Body, InDumpPath(b)
    PROVE  InDumpPath(b)' \/ b \in givenUp' \/ Written(b)' \/ Crash
<1> DEFINE OneStep == InDumpPath(b)' \/ b \in givenUp' \/ Written(b)' \/ Crash
           t == TagOf[b]
<1> SUFFICES OneStep
  OBVIOUS
<1> USE DEF msgVars, dumpVars, writerVars, fileVars, loadVars, commitVars,
            downVars, lossVars, runnerVars
<1>a. t \in Tag
  BY TagAssumption
(* Where b is: with the dumper, or in a channel.                            *)
<1>b. \/ \E m \in Range(dumpChan) : m.body = b
      \/ \E m \in Range(dataChan[t]) : m.body = b
      \/ dumper # None /\ dumper.body = b
  BY DEF InDumpPath, In
<1>c. ASSUME \/ \E m \in Range(dumpChan') : m.body = b
             \/ \E m \in Range(dataChan'[t]) : m.body = b
             \/ dumper' # None /\ dumper'.body = b
      PROVE  OneStep
  BY <1>c DEF InDumpPath, In
<1> HIDE DEF OneStep, t
<1>d. ASSUME UNCHANGED <<dumpChan, dumper, dataChan>> PROVE OneStep
  BY <1>b, <1>c, <1>d
<1>1. ASSUME NEW c \in Body, Receive(c) PROVE OneStep
  <2>1. [id |-> nextId, body |-> c] \in Message
    BY DEF TypeOK, Message
  <2>2. Range(dumpChan) \subseteq Range(dumpChan')
    BY <1>1, <2>1, SendTo DEF TypeOK, Receive
  <2>3. QED
    BY <1>1, <1>b, <1>c, <2>2 DEF Receive
<1>2. CASE DumperRecv
  <2>1. /\ Range(dumpChan) = {dumper'} \cup Range(dumpChan')
        /\ dumper' \in Message
    BY <1>2, ReceiveFrom DEF TypeOK, DumperRecv
  <2>2. dumper = None /\ dumper' # None /\ UNCHANGED dataChan
    BY <1>2, <2>1, NoneAssumption DEF DumperRecv
  <2>3. QED
    BY <1>b, <1>c, <2>1, <2>2
<1>3. ASSUME NEW who, NEW s \in Tag, CreateRunner(who, s),
             UNCHANGED <<dumpChan, dumper>>
      PROVE  OneStep
  <2>1. CASE t = s /\ s \notin runners
    <3>1. Range(dataChan[t]) = {}
      BY <1>a, <2>1, NewChan DEF RunnerInv
    <3>2. QED
      BY <1>3, <1>b, <1>c, <3>1
  <2>2. CASE ~(t = s /\ s \notin runners)
    <3>1. dataChan'[t] = dataChan[t]
      BY <1>3, <1>a, <2>2 DEF TypeOK, CreateRunner
    <3>2. QED
      BY <1>3, <1>b, <1>c, <3>1
  <2>3. QED
    BY <2>1, <2>2
<1>4. CASE DumperCreate
  <2>1. TagOfMsg(dumper) \in Tag
    BY <1>4, TagAssumption DEF TypeOK, DumperCreate, TagOfMsg, Message
  <2>2. QED
    BY <1>3, <1>4, <2>1 DEF DumperCreate
<1>5. CASE CommitCreate
  <2>1. committer.tag \in Tag
    BY <1>5 DEF TypeOK, CommitCreate, Commit
  <2>2. QED
    BY <1>3, <1>5, <2>1 DEF CommitCreate
<1>6. CASE DumperSend
  <2> DEFINE s == TagOfMsg(dumper)
  <2>1. dumper \in Message /\ s \in Tag
    BY <1>6 DEF TypeOK, DumperSend, TagOfMsg, Message
  <2>2. UNCHANGED dumpChan
    BY <1>6 DEF DumperSend
  <2>3. \/ dataChan' = [dataChan EXCEPT ![s] = Append(@, dumper)]
        \/ UNCHANGED dataChan /\ dumper.body \in givenUp'
    BY <1>6 DEF DumperSend
  <2>4. dumper.body = b => s = t
    BY DEF TagOfMsg, t
  <2> HIDE DEF s
  <2>5. CASE dataChan' = [dataChan EXCEPT ![s] = Append(@, dumper)]
    <3>1. Range(Append(dataChan[s], dumper)) = Range(dataChan[s]) \cup {dumper}
      BY <2>1, SendTo DEF TypeOK
    <3>2. Range(dataChan[t]) \subseteq Range(dataChan'[t])
      BY <1>a, <2>1, <2>5, <3>1 DEF TypeOK
    <3>3. s = t => dumper \in Range(dataChan'[t])
      BY <1>a, <2>1, <2>5, <3>1 DEF TypeOK
    <3>4. QED
      BY <1>b, <1>c, <2>2, <2>4, <3>2, <3>3
  <2>6. CASE UNCHANGED dataChan /\ dumper.body \in givenUp'
    BY <1>b, <1>c, <2>2, <2>6 DEF OneStep
  <2>7. QED
    BY <2>3, <2>5, <2>6
<1>7. ASSUME NEW s \in Tag, NEW ok \in BOOLEAN, DataWrite(s, ok) PROVE OneStep
  <2> DEFINE msg == Head(dataChan[s])
  <2>1. /\ Range(dataChan[s]) = {msg} \cup Range(Tail(dataChan[s]))
        /\ msg \in CopiesOf(s)
    BY <1>7, ReceiveFrom DEF TypeOK, DataWrite, CopiesOf
  <2> HIDE DEF msg
  <2>2. /\ UNCHANGED <<dumpChan, dumper>>
        /\ dataChan' = [dataChan EXCEPT ![s] = Tail(@)]
        /\ \/ data' = [data EXCEPT ![s] = @ \cup {msg}]
           \/ msg.body \in givenUp'
    BY <1>7 DEF DataWrite, msg
  <2>3. msg.body = b => s = t
    BY <2>1 DEF MsgInv, TagOfMsg, t
  <2>4. msg.body = b => OneStep
    BY <1>a, <2>2, <2>3 DEF TypeOK, OneStep, Written, t
  <2>5. \A m \in Range(dataChan[t]) : m = msg \/ m \in Range(dataChan'[t])
    BY <1>a, <2>1, <2>2 DEF TypeOK
  <2>6. QED
    BY <1>b, <1>c, <2>2, <2>4, <2>5
<1>8. ASSUME NEW s \in Tag, NEW m \in unread[s], LegacyLoad(s, m) PROVE OneStep
  <2>1. m \in Message
    BY DEF TypeOK
  <2>2. CASE UNCHANGED dumpChan
    BY <1>8, <1>d, <2>2 DEF LegacyLoad
  <2>3. CASE dumpChan' = Append(dumpChan, m)
    <3>1. Range(dumpChan) \subseteq Range(dumpChan')
      BY <2>1, <2>3, SendTo DEF TypeOK
    <3>2. QED
      BY <1>8, <1>b, <1>c, <3>1 DEF LegacyLoad
  <2>4. QED
    BY <1>8, <2>2, <2>3 DEF LegacyLoad
<1>9. CASE \/ \E c \in Body : ReceiveSkip(c)
           \/ SkipDump \/ DumperLookup \/ LegacyStart \/ Consume \/ Fail
           \/ \E S \in SUBSET open : SendCommit(S)
           \/ CommitRecv \/ CommitLookup \/ CommitSend \/ UNCHANGED vars
  BY <1>9, <1>d DEF ReceiveSkip, SkipDump, DumperLookup, LegacyStart, Consume,
     Fail, SendCommit, CommitRecv, CommitLookup, CommitSend, vars
<1>10. ASSUME NEW s \in Tag,
             \/ DataForward(s) \/ Rotate(s) \/ LegacyEof(s) \/ LegacyError(s)
             \/ \E written \in SUBSET Id : IdsWrite(s, written)
      PROVE  OneStep
  BY <1>10, <1>d DEF DataForward, Rotate, LegacyEof, LegacyError, IdsWrite
<1>11. QED
  BY <1>1, <1>2, <1>4, <1>5, <1>6, <1>7, <1>8, <1>9, <1>10 DEF Next, OneStep

(* A handled body stays handled, or it is in the current file with an id    *)
(* that is not committed.                                                   *)
LEMMA WrittenIsKept ==
    ASSUME MsgInv', CommittedWasConsumed', NEW b \in Body, Written(b)'
    PROVE  Kept(b)'
<1>1. PICK m \in data'[TagOf[b]] : m.body = b
  BY DEF Written
<1>2. TagOf[b] \in Tag
  BY TagAssumption
<1>3. CASE m.id \in ids'[TagOf[b]]
  <2>1. Names(TagOf[b], m.id)' /\ m \in CopiesOf(TagOf[b])'
    BY <1>2, <1>3 DEF CommittedWasConsumed, Names, CopiesOf
  <2>2. QED
    BY <1>1, <1>2, <2>1, NamedIsHandledNext DEF Kept, Handled
<1>4. QED
  BY <1>1, <1>3 DEF Kept

(* A consumed message stays consumed, and keeps its id.                     *)
LEMMA ConsumedStays ==
    ASSUME TypeOK, MsgInv, [Next]_vars
    PROVE  /\ consumed \subseteq consumed'
           /\ received \subseteq received'
           /\ \A b \in received : idOf'[b] = idOf[b]
BY BodiesMove DEF NewMsg, Consume, TypeOK, msgVars

(* A handled message stays accounted for, unless the program dies.          *)
LEMMA HandledStays ==
    ASSUME TypeOK, MsgInv, RunnerInv, MsgInv', CommittedWasConsumed',
           [Next]_vars, NEW b \in received, Handled(b)
    PROVE  Kept(b)' \/ Crash
<1>1. b \in Body
  BY DEF TypeOK
<1>2. CASE b \in consumed \/ b \in givenUp
  BY <1>2, ConsumedStays, GivenUpGrows DEF Kept, Handled
<1>3. CASE IdShared(b)
  <2>1. PICK c \in consumed \ {b} : TagOf[c] = TagOf[b] /\ idOf[c] = idOf[b]
    BY <1>3 DEF IdShared
  <2>2. c \in consumed' /\ idOf'[c] = idOf'[b]
    BY <2>1, ConsumedStays DEF MsgInv
  <2>3. QED
    BY <2>1, <2>2 DEF IdShared, Kept, Handled
<1>4. CASE InDumpPath(b)
  <2>1. InDumpPath(b)' \/ b \in givenUp' \/ Written(b)' \/ Crash
    BY <1>1, <1>4, DumpPathMoves
  <2>2. QED
    BY <1>1, <2>1, WrittenIsKept DEF Kept, Handled
<1>5. QED
  BY <1>2, <1>3, <1>4 DEF Handled

(* A message in a file stays in one, unless the program dies or the file    *)
(* is rotated.                                                              *)
LEMMA KeptStays ==
    ASSUME TypeOK, MsgInv, RunnerInv, MsgInv', CommittedWasConsumed',
           [Next]_vars, NEW b \in received, Kept(b)
    PROVE  Kept(b)' \/ Crash \/ Rotate(TagOf[b])
<1>1. b \in Body /\ TagOf[b] \in Tag
  BY TagAssumption DEF TypeOK
<1>2. CASE Handled(b)
  BY <1>2, HandledStays
<1>3. CASE \E m \in data[TagOf[b]] : m.body = b /\ m.id \notin ids[TagOf[b]]
  <2>1. data[TagOf[b]] \subseteq data'[TagOf[b]] \/ Rotate(TagOf[b]) \/ Crash
    BY <1>1, FilesMove
  <2>2. QED
    BY <1>1, <1>3, <2>1, WrittenIsKept DEF Written
<1>4. QED
  BY <1>2, <1>3 DEF Kept

(* Every step keeps what the loader has read accounted for, so that the     *)
(* legacy files may be dropped.                                             *)
LEMMA NextLoadInv ==
    ASSUME TypeOK, MsgInv, RunnerInv, LoadInv,
           MsgInv', CommittedWasConsumed', [Next]_vars
    PROVE  LoadInv'
<1> SUFFICES ASSUME NEW t \in loading', NEW m \in legacy'[t] \ unread'[t]
             PROVE  Kept(m.body)'
  BY DEF LoadInv
<1>a. CASE Crash
  BY <1>a DEF Crash
<1>1. CASE t \in Tag /\ ~Crash
  <2>1. \/ t \in loading /\ m \in legacy[t] \ unread[t]
        \/ m \in unread[t] /\ LegacyLoad(t, m)
    BY <1>1, FilesMove
  <2>2. CASE t \in loading /\ m \in legacy[t] \ unread[t]
    <3>1. m \in CopiesOf(t)
      BY <2>2 DEF CopiesOf
    <3>2. m.body \in received /\ TagOf[m.body] = t
      BY <1>1, <3>1 DEF MsgInv, Copies, TagOfMsg
    <3>3. ~Rotate(t)
      BY <2>2 DEF Rotate
    <3>4. QED
      BY <1>1, <2>2, <3>2, <3>3, KeptStays DEF LoadInv
  <2>3. CASE m \in unread[t] /\ LegacyLoad(t, m)
    <3>1. m \in CopiesOf(t) /\ m \in Message /\ m.body \in Body
      BY <1>1, <2>3 DEF CopiesOf, TypeOK, Message
    <3>2. TagOf[m.body] = t
      BY <1>1, <3>1 DEF MsgInv, TagOfMsg
    <3>3. CASE m.id \in ids[t]
      <4>1. m \in CopiesOf(t)' /\ m.id \in ids'[t]
        BY <2>3, <3>3 DEF LegacyLoad, CopiesOf, fileVars
      <4>2. Names(t, m.id)'
        BY <1>1, <4>1 DEF CommittedWasConsumed, Names
      <4>3. QED
        BY <1>1, <4>1, <4>2, NamedIsHandledNext DEF Kept, Handled
    <3>4. CASE m.id \notin ids[t]
      <4>1. dumpChan' = Append(dumpChan, m)
        BY <2>3, <3>4 DEF LegacyLoad
      <4>2. m \in Range(dumpChan')
        BY <3>1, <4>1, SendTo DEF TypeOK
      <4>3. QED
        BY <4>2 DEF InDumpPath, In, Kept, Handled
    <3>5. QED
      BY <3>3, <3>4
  <2>4. QED
    BY <2>1, <2>2, <2>3
<1>2. t \in Tag
  BY NextTypeOK DEF TypeOK
<1>3. QED
  BY <1>a, <1>1, <1>2

(* Every step keeps every received message accounted for.                   *)
LEMMA NextAccounted ==
    ASSUME TypeOK, MsgInv, RunnerInv, LoadInv, CommittedWasConsumed, Accounted,
           MsgInv', CommittedWasConsumed', [Next]_vars
    PROVE  Accounted'
<1> DEFINE Safe(b) == Handled(b) \/ Recoverable(b)
<1>a. Accounted <=> \A b \in received : Safe(b)
  BY DEF Accounted, Handled
<1>b. Accounted' <=> \A b \in received' : Safe(b)'
  BY DEF Accounted, Handled
<1> SUFFICES ASSUME NEW b \in received' PROVE Safe(b)'
  BY <1>b
<1>c. Kept(b)' => Safe(b)'
  BY DEF Kept, Recoverable
<1>d. b \in Body /\ TagOf[b] \in Tag
  BY NextTypeOK, TagAssumption DEF TypeOK
<1>1. CASE b \notin received
  <2>1. Receive(b) \/ ReceiveSkip(b)
    BY <1>1, ReceivedNow
  <2>2. CASE Receive(b)
    <3>1. [id |-> nextId, body |-> b] \in Message
      BY <1>d DEF TypeOK, Message
    <3>2. [id |-> nextId, body |-> b] \in Range(dumpChan')
      BY <2>2, <3>1, SendTo DEF TypeOK, Receive
    <3>3. QED
      BY <3>2 DEF InDumpPath, In, Handled
  <2>3. CASE ReceiveSkip(b)
    BY <2>3 DEF ReceiveSkip, Handled
  <2>4. QED
    BY <2>1, <2>2, <2>3
<1>2. CASE b \in received /\ Crash
  <2>1. CASE OnDisk(b)
    <3>1. PICK m \in data[TagOf[b]] \cup legacy[TagOf[b]] : m.body = b
      BY <2>1 DEF OnDisk
    <3>2. m \in legacy'[TagOf[b]] /\ UNCHANGED ids
      BY <1>2, <1>d, <3>1 DEF Crash
    <3>3. m \in CopiesOf(TagOf[b])'
      BY <3>2 DEF CopiesOf
    <3>4. CASE m.id \in ids'[TagOf[b]]
      <4>1. Names(TagOf[b], m.id)'
        BY <1>d, <3>4 DEF CommittedWasConsumed, Names
      <4>2. QED
        BY <1>d, <3>1, <3>3, <4>1, NamedIsHandledNext DEF Handled
    <3>5. QED
      BY <3>1, <3>2, <3>4 DEF Recoverable
  <2>2. CASE ~OnDisk(b)
    BY <1>2, <2>2 DEF Crash, Handled
  <2>3. QED
    BY <2>1, <2>2
<1>3. CASE b \in received /\ Handled(b) /\ ~Crash
  BY <1>3, <1>c, HandledStays
<1>4. CASE b \in received /\ Recoverable(b) /\ ~Crash
  <2>1. PICK m \in data[TagOf[b]] \cup legacy[TagOf[b]] :
           m.body = b /\ m.id \notin ids[TagOf[b]]
    BY <1>4 DEF Recoverable
  <2>2. CASE m \in data'[TagOf[b]] \cup legacy'[TagOf[b]]
    <3>1. m \in CopiesOf(TagOf[b])'
      BY <2>2 DEF CopiesOf
    <3>2. CASE m.id \in ids'[TagOf[b]]
      <4>1. Names(TagOf[b], m.id)'
        BY <1>d, <3>2 DEF CommittedWasConsumed, Names
      <4>2. QED
        BY <1>d, <2>1, <3>1, <4>1, NamedIsHandledNext DEF Handled
    <3>3. QED
      BY <2>1, <2>2, <3>2 DEF Recoverable
  <2>3. CASE LegacyEof(TagOf[b]) /\ m \notin data'[TagOf[b]]
    <3>1. m \in legacy[TagOf[b]] \ unread[TagOf[b]] /\ TagOf[b] \in loading
      BY <2>1, <2>3 DEF LegacyEof
    <3>2. Kept(b)
      BY <2>1, <3>1 DEF LoadInv
    <3>3. ~Rotate(TagOf[b])
      BY <3>1 DEF Rotate
    <3>4. QED
      BY <1>4, <1>c, <3>2, <3>3, KeptStays
  <2>4. QED
    BY <1>d, <2>1, <2>2, <2>3, FilesMove
<1>5. QED
  BY <1>a, <1>1, <1>2, <1>3, <1>4

-----------------------------------------------------------------------------
(* A start has the invariant.                                               *)
LEMMA InitIInv == Init => IInv
<1> SUFFICES ASSUME Init PROVE IInv
  OBVIOUS
<1>1. TypeOK
  BY InitTypeOK
<1>2. /\ \A t \in Tag : CopiesOf(t) = {} /\ Range(idChan[t]) = {}
      /\ Copies = {} /\ Commits = {}
  BY NewChan DEF Init, CopiesOf, Copies, Commits, Held
<1>3. MsgInv /\ RunnerInv /\ CommitInv /\ CommittedWasConsumed
  BY <1>2 DEF Init, MsgInv, RunnerInv, CommitInv, CommittedWasConsumed
<1>4. LoadInv /\ Accounted
  BY DEF Init, LoadInv, Accounted
<1>5. QED
  BY <1>1, <1>3, <1>4 DEF IInv

(* Every step keeps the invariant.                                          *)
LEMMA NextIInv == IInv /\ [Next]_vars => IInv'
<1> SUFFICES ASSUME IInv, [Next]_vars PROVE IInv'
  OBVIOUS
<1>1. TypeOK' /\ MsgInv' /\ RunnerInv'
  BY NextTypeOK, NextMsgInv, NextRunnerInv DEF IInv
<1>2. CommitInv' /\ CommittedWasConsumed'
  BY NextCommitInv DEF IInv
<1>3. LoadInv' /\ Accounted'
  BY <1>1, <1>2, NextLoadInv, NextAccounted DEF IInv
<1>4. QED
  BY <1>1, <1>2, <1>3 DEF IInv

(* The inductive invariant holds in every state the journal reaches.        *)
THEOREM Invariance == Spec => []IInv
<1>1. QED
  BY InitIInv, NextIInv, PTL DEF Spec

(* An id is written into the ids of a tag only for a message of that tag    *)
(* that was sent or filtered out: the replay never passes over a message    *)
(* because of an id that nobody earned.                                     *)
THEOREM CommittedIsConsumed == Spec => []CommittedWasConsumed
<1>1. IInv => CommittedWasConsumed
  BY DEF IInv
<1>2. QED
  BY <1>1, Invariance, PTL

(* However dumping, rotation, replay, commits and crashes interleave, a     *)
(* received message is consumed, on its way to a file, in a file from where *)
(* it is replayed, or knowingly given up, unless ids have wrapped around    *)
(* and it shares its id with a consumed message of its tag.                 *)
THEOREM NothingForgotten == Spec => []Accounted
<1>1. IInv => Accounted
  BY DEF IInv
<1>2. QED
  BY <1>1, Invariance, PTL
=============================================================================
