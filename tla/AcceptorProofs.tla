--------------------------- MODULE AcceptorProofs ---------------------------
(***************************************************************************)
(* Proofs about the receivers and the acceptor pipeline, for any number of  *)
(* workers, requests, records and syslog records and any channel sizes:     *)
(* type correctness, that nothing vanishes between a receiver and the       *)
(* journal, and that only what was retagged leaves the path of Kafka.       *)
(***************************************************************************)
EXTENDS AcceptorPipeline, SeqLemmas, FiniteSetTheorems

-----------------------------------------------------------------------------
(* Types.                                                                   *)

(* The capacities and bounds are naturals.                                  *)
LEMMA Sizes ==
    /\ AsyncSize \in Nat \ {0} /\ SyncSize \in Nat \ {0} /\ SyslogSize \in Nat \ {0}
    /\ ReEnterSize \in Nat \ {0} /\ OutSize \in Nat \ {0} /\ SkipSize \in Nat \ {0}
    /\ MaxRecord \in Nat /\ MaxReconnect \in Nat
BY ReceiversAssumption, PipelineAssumption

(* What a receiver makes is a message.                                      *)
LEMMA NewMsgIsMessage ==
    ASSUME NEW s \in Source
    PROVE  NewMsg(s) \in Message
BY ReceiversAssumption DEF NewMsg, Message

(* A set of at most one element is that element.                            *)
LEMMA AtMostOne ==
    ASSUME NEW S, Cardinality(S) <= 1, IsFiniteSet(S), NEW l \in S
    PROVE  S = {l}
<1>1. IsFiniteSet(S \ {l}) /\ Cardinality(S \ {l}) = Cardinality(S) - 1
  BY FS_RemoveElement
<1>2. Cardinality(S \ {l}) \in Nat /\ Cardinality(S) \in Nat
  BY <1>1, FS_CardinalityType
<1>3. S \ {l} = {}
  BY <1>1, <1>2, FS_EmptySet
<1>4. QED
  BY <1>3

(* The consumer has marked every record before the next one, the broker     *)
(* does not know more than was marked; the syslog receiver has only what    *)
(* its server got.                                                          *)
RecvInv ==
    /\ marked = consumer.next - 1 /\ offset <= marked
    /\ ~At("select") => consumer.next <= MaxRecord
    /\ ToSet(inchan) \cup holding \subseteq logged
    /\ IsFiniteSet(holding)

(* Every step of a receiver keeps the types and the numbering of records.   *)
LEMMA RecvNextTypeOK ==
    ASSUME RecvTypeOK, RecvInv, RecvNext
    PROVE  RecvTypeOK' /\ RecvInv'
<1> USE Sizes DEF httpVars, kafkaVars, syslogVars, Source
<1> DEFINE Ok == RecvTypeOK' /\ RecvInv'
<1> SUFFICES Ok
  OBVIOUS
<1>1. ASSUME NEW r \in Request, Answer(r) PROVE Ok
  BY <1>1 DEF RecvTypeOK, RecvInv, At, Answer
<1>2. ASSUME NEW r \in Request, Post(r) PROVE Ok
  <2>1. NewMsg(r) \in Message
    BY NewMsgIsMessage
  <2>2. asyncOutChan' \in Seq(Message) /\ Len(asyncOutChan') <= AsyncSize
    BY <1>2, <2>1, SendTo DEF RecvTypeOK, Post
  <2>3. QED
    BY <1>2, <2>2 DEF RecvTypeOK, RecvInv, At, Post
<1>3. ASSUME NEW l \in LogPart, Log(l) PROVE Ok
  <2>1. /\ inchan' \in Seq(LogPart) /\ Len(inchan') <= SyslogSize
        /\ ToSet(inchan') = ToSet(inchan) \cup {l}
    BY <1>3, SendTo DEF RecvTypeOK, Log
  <2>2. QED
    BY <1>3, <2>1 DEF RecvTypeOK, RecvInv, At, Log
<1>4. CASE SyslogTake
  <2>1. /\ inchan' \in Seq(LogPart) /\ Len(inchan') <= SyslogSize
        /\ Head(inchan) \in LogPart
        /\ ToSet(inchan) = {Head(inchan)} \cup ToSet(inchan')
    BY <1>4, ReceiveFrom DEF RecvTypeOK, SyslogTake
  <2>2. Cardinality({Head(inchan)}) = 1 /\ IsFiniteSet({Head(inchan)})
    BY FS_Singleton
  <2>3. RecvTypeOK'
    BY SMTT(30), <1>4, <2>1, <2>2 DEF RecvTypeOK, SyslogTake
  <2>4. QED
    BY <1>4, <2>1, <2>2, <2>3 DEF RecvInv, At, SyslogTake
<1>5. CASE SyslogSend
  <2>1. PICK l \in holding : asyncOutChan' = Append(asyncOutChan, NewMsg(l))
    BY <1>5 DEF SyslogSend
  <2>2. NewMsg(l) \in Message
    BY NewMsgIsMessage DEF RecvTypeOK
  <2>3. asyncOutChan' \in Seq(Message) /\ Len(asyncOutChan') <= AsyncSize
    BY <1>5, <2>1, <2>2, SendTo DEF RecvTypeOK, SyslogSend
  <2>4. Cardinality({}) = 0 /\ IsFiniteSet({})
    BY FS_EmptySet
  <2>5. QED
    BY SMTT(30), <1>5, <2>3, <2>4 DEF RecvTypeOK, RecvInv, At, SyslogSend
<1>6. CASE SyslogRestart
  <2>1. /\ inchan' \in Seq(LogPart) /\ Len(inchan') <= SyslogSize
        /\ ToSet(inchan') = {}
    BY <1>6, NewChan DEF SyslogRestart
  <2>2. RecvInv'
    BY <1>6, <2>1 DEF RecvInv, At, SyslogRestart
  <2>3. lost' \subseteq logged' /\ restarts' \in 0 .. MaxReconnect
    BY SMTT(30), <1>6 DEF RecvTypeOK, RecvInv, SyslogRestart
  <2>4. RecvTypeOK'
    BY <1>6, <2>1, <2>3 DEF RecvTypeOK, SyslogRestart
  <2>5. QED
    BY <2>2, <2>4
<1>7. CASE Consume
  BY <1>7 DEF RecvTypeOK, RecvInv, At, Consume, Go
<1>8. CASE Send
  <2>0. consumer.next \in Record
    BY <1>8 DEF RecvTypeOK, RecvInv, At, Send, Record
  <2>1. NewMsg(consumer.next) \in Message
    BY <2>0, NewMsgIsMessage
  <2>2. syncOutChan' \in Seq(Message) /\ Len(syncOutChan') <= SyncSize
    BY <1>8, <2>1, SendTo DEF RecvTypeOK, Send
  <2>3. QED
    BY <1>8, <2>2 DEF RecvTypeOK, RecvInv, At, Send, Go
<1>9. CASE Mark
  <2>1. /\ consumer.next \in 1 .. MaxRecord /\ marked' = consumer.next
        /\ consumer' = [pc |-> "select", next |-> consumer.next + 1]
    BY <1>9 DEF RecvTypeOK, RecvInv, At, Mark
  <2>2. /\ consumer' \in [pc : {"select", "send", "mark"}, next : 1 .. MaxRecord + 1]
        /\ marked' \in 0 .. MaxRecord
    BY <2>1
  <2>3. /\ consumer'.next = consumer.next + 1 /\ consumer'.pc = "select"
        /\ marked = consumer.next - 1 /\ offset <= marked /\ offset \in Nat
    BY <2>1 DEF RecvTypeOK, RecvInv
  <2>4. UNCHANGED <<asyncOutChan, syncOutChan, httpVars, syslogVars, offset, reconnects>>
    BY <1>9 DEF Mark
  <2>5. RecvTypeOK'
    BY <2>2, <2>4 DEF RecvTypeOK
  <2>6. QED
    BY <2>1, <2>3, <2>4, <2>5 DEF RecvInv, At
<1>10. CASE BrokerCommit
  BY SMTT(30), <1>10 DEF RecvTypeOK, RecvInv, At, BrokerCommit
<1>11. CASE Reconnect
  <2>0. /\ offset \in 0 .. MaxRecord /\ reconnects \in 0 .. MaxReconnect
        /\ restarts \in 0 .. MaxReconnect
        /\ consumer \in [pc : {"select", "send", "mark"}, next : 1 .. MaxRecord + 1]
    BY DEF RecvTypeOK
  <2>1. /\ marked' = offset /\ consumer'.pc = "select"
        /\ consumer'.next = offset + 1
        /\ consumer' \in [pc : {"select", "send", "mark"}, next : 1 .. MaxRecord + 1]
    BY <1>11, <2>0 DEF At, Reconnect
  <2>2. reconnects' \in 0 .. MaxReconnect
    BY <1>11, <2>0 DEF Reconnect
  <2>3. UNCHANGED <<asyncOutChan, syncOutChan, httpVars, syslogVars, offset>>
    BY <1>11 DEF Reconnect
  <2>4. RecvTypeOK'
    BY <2>0, <2>1, <2>2, <2>3 DEF RecvTypeOK
  <2>5. QED
    BY <2>0, <2>1, <2>3, <2>4 DEF RecvInv, At
<1>12. QED
  BY <1>1, <1>2, <1>3, <1>4, <1>5, <1>6, <1>7, <1>8, <1>9, <1>10, <1>11
  DEF RecvNext, ConsumerStep

-----------------------------------------------------------------------------
(* The workers.                                                             *)

(* A worker has a message in hand unless it is at its select, and only the  *)
(* asynchronous ones go on when outChan is full.                            *)
WorkerInv ==
    \A w \in Worker :
        /\ IF PcIs(w, "select") THEN MsgOf(w) = None ELSE MsgOf(w) \in Message
        /\ PcIs(w, "busy") => w \in AsyncWorker

InHand == {MsgOf(w) : w \in {v \in Worker : MsgOf(v) # None}}
Chans ==
    ToSet(asyncOutChan) \cup ToSet(syncOutChan) \cup ToSet(reEnterChan)
      \cup ToSet(outChan) \cup ToSet(skipDumpChan)
Kept == InFlight \cup Settled

(* Records come through syncOutChan; one that is among the asynchronous     *)
(* messages, or in the hand of an asynchronous worker, has been retagged.   *)
Retagged(m) == m.src \in Record => m.src \in retagged
OriginInv ==
    /\ \A m \in ToSet(asyncOutChan) : m.src \notin Record
    /\ \A m \in ToSet(reEnterChan) \cup ToSet(skipDumpChan) : Retagged(m)
    /\ \A w \in Worker :
          MsgOf(w) # None /\ (w \in AsyncWorker \/ PcIs(w, "reenter"))
             => Retagged(MsgOf(w))

WorkerType ==
    [Worker -> [pc : {"select", "reenter", "out", "busy"},
                msg : Message \cup {None}]]

(* A step of a worker changes no other worker.                              *)
LEMMA SetWorker ==
    ASSUME worker \in WorkerType, NEW w \in Worker,
           NEW pc \in {"select", "reenter", "out", "busy"},
           NEW m \in Message \cup {None}, Set(w, pc, m)
    PROVE  /\ worker' \in WorkerType
           /\ worker'[w].pc = pc /\ worker'[w].msg = m
           /\ \A v \in Worker \ {w} : worker'[v] = worker[v]
BY DEF WorkerType, Set

(* What the throttle and the filters do with a message, whoever has taken   *)
(* it: it is in the hand of the worker, or it came to its end.              *)
LEMMA FilterDoes ==
    ASSUME TypeOK, WorkerInv, NEW w \in Worker, NEW m \in Message, Filter(w, m)
    PROVE  /\ worker' \in WorkerType
           /\ throttled \subseteq throttled' /\ filtered \subseteq filtered'
           /\ retagged \subseteq retagged'
           /\ throttled' \cup filtered' \cup retagged' \subseteq Source
           /\ \A v \in Worker \ {w} : worker'[v] = worker[v]
           /\ worker[w].msg = None
           /\ \/ /\ worker'[w].pc = "select" /\ worker'[w].msg = None
                 /\ m.src \in throttled' \cup filtered'
              \/ /\ worker'[w].pc = "reenter" /\ worker'[w].msg \in Message
                 /\ worker'[w].msg.src = m.src /\ m.src \in retagged'
              \/ worker'[w].pc = "out" /\ worker'[w].msg = m
<1> DEFINE Types ==
              /\ throttled \subseteq throttled' /\ filtered \subseteq filtered'
              /\ retagged \subseteq retagged'
              /\ throttled' \cup filtered' \cup retagged' \subseteq Source
<1>1. /\ worker \in WorkerType /\ m.src \in Source /\ worker[w].msg = None
      /\ throttled \cup filtered \cup retagged \subseteq Source
  BY DEF TypeOK, WorkerInv, WorkerType, Message, Filter, PcIs, MsgOf
<1>2. CASE Throttle(w, m)
  <2>1. Types /\ m.src \in throttled'
    BY <1>1, <1>2 DEF Throttle
  <2>2. Set(w, "select", None)
    BY <1>2 DEF Throttle, Free
  <2>3. QED
    BY <1>1, <2>1, <2>2, SetWorker
<1>3. CASE FilterDiscard(w, m)
  <2>1. Types /\ m.src \in filtered'
    BY <1>1, <1>3 DEF FilterDiscard
  <2>2. Set(w, "select", None)
    BY <1>3 DEF FilterDiscard, Free
  <2>3. QED
    BY <1>1, <2>1, <2>2, SetWorker
<1>4. CASE FilterRetag(w, m)
  <2> DEFINE n == [m EXCEPT !.tag = NewTag]
  <2>1. Types /\ m.src \in retagged'
    BY <1>1, <1>4 DEF FilterRetag
  <2>2. n \in Message /\ n.src = m.src
    BY PipelineAssumption DEF Message
  <2>3. Set(w, "reenter", n)
    BY <1>4 DEF FilterRetag
  <2> HIDE DEF n
  <2>4. QED
    BY <1>1, <2>1, <2>2, <2>3, SetWorker
<1>5. CASE FilterPass(w, m)
  <2>1. Types
    BY <1>1, <1>5 DEF FilterPass
  <2>2. Set(w, "out", m)
    BY <1>5 DEF FilterPass
  <2>3. QED
    BY <1>1, <2>1, <2>2, SetWorker
<1>6. QED
  BY <1>2, <1>3, <1>4, <1>5 DEF Filter

(* Sources in flight, said of the messages.                                 *)
LEMMA KeptIs ==
    \A s : s \in Kept <=> s \in Settled \/ \E m \in Chans \cup InHand : m.src = s
BY DEF Kept, InFlight, Chans, InHand

(* A worker that takes a message from a channel and filters it loses        *)
(* nothing, and has an unmarked record in hand only if it is a synchronous  *)
(* one on its way to outChan.                                               *)
LEMMA TakeKeeps ==
    ASSUME TypeOK, WorkerInv, OriginInv,
           NEW w \in Worker, NEW m \in Message, Filter(w, m),
           Chans \subseteq Chans' \cup {m},
           w \in AsyncWorker => Retagged(m)
    PROVE  /\ WorkerInv' /\ Kept \subseteq Kept'
           /\ \A v \in Worker :
                 MsgOf(v)' # None /\ (v \in AsyncWorker \/ PcIs(v, "reenter")')
                    => Retagged(MsgOf(v))'
<1> DEFINE n == worker'[w].msg
<1>1. /\ worker[w].msg = None
      /\ throttled \subseteq throttled' /\ filtered \subseteq filtered'
      /\ retagged \subseteq retagged'
      /\ \A v \in Worker \ {w} : worker'[v] = worker[v]
      /\ UNCHANGED <<dumped, skipped, busy>>
  BY FilterDoes DEF Filter
<1>2. \/ /\ worker'[w].pc = "select" /\ worker'[w].msg = None
         /\ m.src \in throttled' \cup filtered'
      \/ /\ worker'[w].pc = "reenter" /\ worker'[w].msg \in Message
         /\ worker'[w].msg.src = m.src /\ m.src \in retagged'
      \/ worker'[w].pc = "out" /\ worker'[w].msg = m
  BY FilterDoes
<1>3. WorkerInv'
  BY <1>1, <1>2 DEF WorkerInv, PcIs, MsgOf
<1>4. Settled \subseteq Settled'
  BY <1>1 DEF Settled
<1>5. \A x \in InHand : x \in InHand'
  BY <1>1 DEF InHand, MsgOf
<1>6. m.src \in Settled' \/ \E x \in InHand' : x.src = m.src
  <2>1. CASE worker'[w].msg \in Message /\ worker'[w].msg.src = m.src
    <3>1. worker'[w].msg \in InHand'
      BY <2>1, PipelineAssumption DEF InHand, MsgOf
    <3>2. QED
      BY <2>1, <3>1
  <2>2. QED
    BY <1>2, <2>1 DEF Settled
<1>7. Kept \subseteq Kept'
  <2> SUFFICES ASSUME NEW s \in Kept PROVE s \in Kept'
    OBVIOUS
  <2>1. s \in Kept' <=> s \in Settled' \/ \E x \in Chans' \cup InHand' : x.src = s
    BY DEF Kept, InFlight, Chans, InHand
  <2>2. s \in Settled \/ \E x \in Chans \cup InHand : x.src = s
    BY KeptIs
  <2>3. QED
    BY <1>4, <1>5, <1>6, <2>1, <2>2
<1>8. ASSUME NEW v \in Worker, MsgOf(v)' # None,
             v \in AsyncWorker \/ PcIs(v, "reenter")'
      PROVE  Retagged(MsgOf(v))'
  <2>1. CASE v # w
    BY <1>1, <1>8, <2>1 DEF OriginInv, MsgOf, PcIs, Retagged
  <2>2. CASE v = w
    BY <1>1, <1>2, <1>8, <2>2 DEF MsgOf, PcIs, Retagged
  <2>3. QED
    BY <2>1, <2>2
<1>9. QED
  BY <1>3, <1>7, <1>8

(* A worker that gets rid of its message loses nothing when the message is  *)
(* then in a channel or at one of its ends.                                 *)
LEMMA FreeKeeps ==
    ASSUME TypeOK, WorkerInv, OriginInv, NEW w \in Worker, Free(w),
           Chans \subseteq Chans', Settled \subseteq Settled',
           MsgOf(w) \in Chans' \/ MsgOf(w).src \in Settled',
           UNCHANGED retagged
    PROVE  /\ worker' \in WorkerType /\ WorkerInv' /\ Kept \subseteq Kept'
           /\ \A v \in Worker :
                 MsgOf(v)' # None /\ (v \in AsyncWorker \/ PcIs(v, "reenter")')
                    => Retagged(MsgOf(v))'
<1>1. worker \in WorkerType
  BY DEF TypeOK, WorkerType
<1>2. /\ worker' \in WorkerType
      /\ worker'[w].pc = "select" /\ worker'[w].msg = None
      /\ \A v \in Worker \ {w} : worker'[v] = worker[v]
  BY <1>1, SetWorker DEF Free
<1>3. WorkerInv'
  BY <1>2 DEF WorkerInv, PcIs, MsgOf
<1>4. Kept \subseteq Kept'
  <2> SUFFICES ASSUME NEW s \in Kept PROVE s \in Kept'
    OBVIOUS
  <2>1. s \in Kept' <=> s \in Settled' \/ \E x \in Chans' \cup InHand' : x.src = s
    BY DEF Kept, InFlight, Chans, InHand
  <2>2. s \in Settled \/ \E x \in Chans \cup InHand : x.src = s
    BY KeptIs
  <2>3. \A x \in InHand : x = MsgOf(w) \/ x \in InHand'
    BY <1>2 DEF InHand, MsgOf
  <2>4. QED
    BY <2>1, <2>2, <2>3
<1>5. ASSUME NEW v \in Worker, MsgOf(v)' # None,
             v \in AsyncWorker \/ PcIs(v, "reenter")'
      PROVE  Retagged(MsgOf(v))'
  BY <1>2, <1>5 DEF OriginInv, MsgOf, PcIs, Retagged
<1>6. QED
  BY <1>2, <1>3, <1>4, <1>5

-----------------------------------------------------------------------------
(* The steps of the pipeline: types, and nothing vanishes.                  *)
PipeTypeOK ==
    /\ worker \in WorkerType
    /\ reEnterChan \in Seq(Message) /\ Len(reEnterChan) <= ReEnterSize
    /\ outChan \in Seq(Message) /\ Len(outChan) <= OutSize
    /\ skipDumpChan \in Seq(Message) /\ Len(skipDumpChan) <= SkipSize
    /\ dumped \subseteq Source /\ skipped \subseteq Source
    /\ throttled \subseteq Source /\ filtered \subseteq Source
    /\ busy \subseteq Source /\ retagged \subseteq Source

(* The types of the receivers and of the pipeline behind them ...           *)
LEMMA TypeOKIs == TypeOK <=> RecvTypeOK /\ PipeTypeOK
BY DEF TypeOK, PipeTypeOK, WorkerType

(* ... before and after a step.                                             *)
LEMMA TypeOKIsNext == TypeOK' <=> RecvTypeOK' /\ PipeTypeOK'
BY DEF TypeOK, PipeTypeOK, WorkerType

Inv ==
    /\ TypeOK /\ RecvInv /\ WorkerInv
    /\ OriginInv /\ SyncWaits

(* What a step of the pipeline, and not of a receiver, has to keep.         *)
PipeOk == TypeOK /\ WorkerInv /\ OriginInv /\ SyncWaits

(* Every step of a worker keeps the invariant, and loses no message.        *)
LEMMA WorkerStepKeeps ==
    ASSUME Inv, NEW w \in Worker, WorkerStep(w)
    PROVE  PipeOk' /\ Kept \subseteq Kept'
<1> DEFINE Ok == PipeOk' /\ Kept \subseteq Kept'
<1> SUFFICES Ok
  OBVIOUS
<1> USE Sizes DEF httpVars, kafkaVars, syslogVars, recvVars, fate
<1>a. /\ TypeOK /\ WorkerInv /\ OriginInv /\ SyncWaits
      /\ RecvTypeOK /\ PipeTypeOK
  BY TypeOKIs DEF Inv
<1>b. AsyncWorker \cap SyncWorker = {} /\ None \notin Message
  BY PipelineAssumption
<1>1. CASE TakeReEntered(w)
  <2> DEFINE m == Head(reEnterChan)
  <2>1. /\ m \in Message /\ reEnterChan' \in Seq(Message)
        /\ Len(reEnterChan') <= ReEnterSize
        /\ ToSet(reEnterChan) = {m} \cup ToSet(reEnterChan')
    BY <1>1, <1>a, ReceiveFrom DEF PipeTypeOK, TakeReEntered
  <2>2. Filter(w, m) /\ w \in AsyncWorker /\ UNCHANGED recvVars
    BY <1>1 DEF TakeReEntered
  <2> HIDE DEF m
  <2>3. UNCHANGED <<outChan, skipDumpChan, dumped, skipped, busy>>
    BY <2>2 DEF Filter
  <2>4. Chans \subseteq Chans' \cup {m}
    BY <2>1, <2>2, <2>3 DEF Chans
  <2>5. Retagged(m)
    BY <1>a, <2>1 DEF OriginInv
  <2>6. /\ WorkerInv' /\ Kept \subseteq Kept'
        /\ \A v \in Worker :
                 MsgOf(v)' # None /\ (v \in AsyncWorker \/ PcIs(v, "reenter")')
                    => Retagged(MsgOf(v))'
    BY <1>a, <2>1, <2>2, <2>4, <2>5, TakeKeeps
  <2>7. /\ worker' \in WorkerType /\ retagged \subseteq retagged'
        /\ throttled' \cup filtered' \cup retagged' \subseteq Source
    BY <1>a, <2>1, <2>2, FilterDoes
  <2>8. RecvTypeOK'
    BY <1>a, <2>2 DEF RecvTypeOK
  <2>9. PipeTypeOK'
    BY <1>a, <2>1, <2>3, <2>7 DEF PipeTypeOK
  <2>10. OriginInv'
    BY <1>a, <2>1, <2>2, <2>3, <2>6, <2>7 DEF OriginInv, Retagged
  <2>11. SyncWaits'
    BY <1>a, <2>3, <2>7 DEF SyncWaits
  <2>12. QED
    BY <2>6, <2>8, <2>9, <2>10, <2>11, TypeOKIsNext DEF PipeOk
<1>2. CASE TakeAsync(w)
  <2> DEFINE m == Head(asyncOutChan)
  <2>1. /\ m \in Message /\ asyncOutChan' \in Seq(Message)
        /\ Len(asyncOutChan') <= AsyncSize
        /\ ToSet(asyncOutChan) = {m} \cup ToSet(asyncOutChan')
    BY <1>2, <1>a, ReceiveFrom DEF RecvTypeOK, TakeAsync
  <2>2. /\ Filter(w, m) /\ w \in AsyncWorker
        /\ UNCHANGED <<syncOutChan, httpVars, kafkaVars, syslogVars, reEnterChan>>
    BY <1>2 DEF TakeAsync
  <2> HIDE DEF m
  <2>3. UNCHANGED <<outChan, skipDumpChan, dumped, skipped, busy>>
    BY <2>2 DEF Filter
  <2>4. Chans \subseteq Chans' \cup {m}
    BY <2>1, <2>2, <2>3 DEF Chans
  <2>5. Retagged(m)
    BY <1>a, <2>1 DEF OriginInv, Retagged
  <2>6. /\ WorkerInv' /\ Kept \subseteq Kept'
        /\ \A v \in Worker :
                 MsgOf(v)' # None /\ (v \in AsyncWorker \/ PcIs(v, "reenter")')
                    => Retagged(MsgOf(v))'
    BY <1>a, <2>1, <2>2, <2>4, <2>5, TakeKeeps
  <2>7. /\ worker' \in WorkerType /\ retagged \subseteq retagged'
        /\ throttled' \cup filtered' \cup retagged' \subseteq Source
    BY <1>a, <2>1, <2>2, FilterDoes
  <2>8. RecvTypeOK'
    BY <1>a, <2>1, <2>2 DEF RecvTypeOK
  <2>9. PipeTypeOK'
    BY <1>a, <2>2, <2>3, <2>7 DEF PipeTypeOK
  <2>10. OriginInv'
    BY <1>a, <2>1, <2>2, <2>3, <2>6, <2>7 DEF OriginInv, Retagged
  <2>11. SyncWaits'
    BY <1>a, <2>3, <2>7 DEF SyncWaits
  <2>12. QED
    BY <2>6, <2>8, <2>9, <2>10, <2>11, TypeOKIsNext DEF PipeOk
<1>3. CASE TakeSync(w)
  <2> DEFINE m == Head(syncOutChan)
  <2>1. /\ m \in Message /\ syncOutChan' \in Seq(Message)
        /\ Len(syncOutChan') <= SyncSize
        /\ ToSet(syncOutChan) = {m} \cup ToSet(syncOutChan')
    BY <1>3, <1>a, ReceiveFrom DEF RecvTypeOK, TakeSync
  <2>2. /\ Filter(w, m) /\ w \notin AsyncWorker
        /\ UNCHANGED <<asyncOutChan, httpVars, kafkaVars, syslogVars, reEnterChan>>
    BY <1>3, <1>b DEF TakeSync
  <2> HIDE DEF m
  <2>3. UNCHANGED <<outChan, skipDumpChan, dumped, skipped, busy>>
    BY <2>2 DEF Filter
  <2>4. Chans \subseteq Chans' \cup {m}
    BY <2>1, <2>2, <2>3 DEF Chans
  <2>6. /\ WorkerInv' /\ Kept \subseteq Kept'
        /\ \A v \in Worker :
                 MsgOf(v)' # None /\ (v \in AsyncWorker \/ PcIs(v, "reenter")')
                    => Retagged(MsgOf(v))'
    BY <1>a, <2>1, <2>2, <2>4, TakeKeeps
  <2>7. /\ worker' \in WorkerType /\ retagged \subseteq retagged'
        /\ throttled' \cup filtered' \cup retagged' \subseteq Source
    BY <1>a, <2>1, <2>2, FilterDoes
  <2>8. RecvTypeOK'
    BY <1>a, <2>1, <2>2 DEF RecvTypeOK
  <2>9. PipeTypeOK'
    BY <1>a, <2>2, <2>3, <2>7 DEF PipeTypeOK
  <2>10. OriginInv'
    BY <1>a, <2>1, <2>2, <2>3, <2>6, <2>7 DEF OriginInv, Retagged
  <2>11. SyncWaits'
    BY <1>a, <2>3, <2>7 DEF SyncWaits
  <2>12. QED
    BY <2>6, <2>8, <2>9, <2>10, <2>11, TypeOKIsNext DEF PipeOk
<1>4. CASE ReEnter(w)
  <2>1. /\ MsgOf(w) \in Message /\ MsgOf(w) # None /\ Retagged(MsgOf(w))
    BY <1>4, <1>a, <1>b DEF ReEnter, WorkerInv, OriginInv, PcIs
  <2>2. /\ reEnterChan' \in Seq(Message) /\ Len(reEnterChan') <= ReEnterSize
        /\ ToSet(reEnterChan') = ToSet(reEnterChan) \cup {MsgOf(w)}
    BY <1>4, <1>a, <2>1, SendTo DEF ReEnter, PipeTypeOK
  <2>3. Free(w) /\ UNCHANGED <<recvVars, outChan, skipDumpChan, fate>>
    BY <1>4 DEF ReEnter
  <2>4. /\ Chans \subseteq Chans' /\ MsgOf(w) \in Chans'
        /\ Settled \subseteq Settled'
    BY <2>2, <2>3 DEF Chans, Settled
  <2>5. /\ worker' \in WorkerType /\ WorkerInv' /\ Kept \subseteq Kept'
        /\ \A v \in Worker :
                 MsgOf(v)' # None /\ (v \in AsyncWorker \/ PcIs(v, "reenter")')
                    => Retagged(MsgOf(v))'
    BY <1>a, <2>3, <2>4, FreeKeeps
  <2>6. RecvTypeOK' /\ PipeTypeOK'
    BY <1>a, <2>2, <2>3, <2>5 DEF RecvTypeOK, PipeTypeOK
  <2>7. OriginInv' /\ SyncWaits'
    BY <1>a, <2>1, <2>2, <2>3, <2>5 DEF OriginInv, SyncWaits, Retagged
  <2>8. QED
    BY <2>5, <2>6, <2>7, TypeOKIsNext DEF PipeOk
<1>5. CASE Out(w)
  <2>1. MsgOf(w) \in Message
    BY <1>5, <1>a DEF Out, WorkerInv, PcIs
  <2>2. /\ outChan' \in Seq(Message) /\ Len(outChan') <= OutSize
        /\ ToSet(outChan') = ToSet(outChan) \cup {MsgOf(w)}
    BY <1>5, <1>a, <2>1, SendTo DEF Out, PipeTypeOK
  <2>3. Free(w) /\ UNCHANGED <<recvVars, reEnterChan, skipDumpChan, fate>>
    BY <1>5 DEF Out
  <2>4. /\ Chans \subseteq Chans' /\ MsgOf(w) \in Chans'
        /\ Settled \subseteq Settled'
    BY <2>2, <2>3 DEF Chans, Settled
  <2>5. /\ worker' \in WorkerType /\ WorkerInv' /\ Kept \subseteq Kept'
        /\ \A v \in Worker :
                 MsgOf(v)' # None /\ (v \in AsyncWorker \/ PcIs(v, "reenter")')
                    => Retagged(MsgOf(v))'
    BY <1>a, <2>3, <2>4, FreeKeeps
  <2>6. RecvTypeOK' /\ PipeTypeOK'
    BY <1>a, <2>2, <2>3, <2>5 DEF RecvTypeOK, PipeTypeOK
  <2>7. OriginInv' /\ SyncWaits'
    BY <1>a, <2>2, <2>3, <2>5 DEF OriginInv, SyncWaits, Retagged
  <2>8. QED
    BY <2>5, <2>6, <2>7, TypeOKIsNext DEF PipeOk
<1>6. CASE OutFull(w)
  <2>1. MsgOf(w) \in Message /\ w \in AsyncWorker /\ Set(w, "busy", MsgOf(w))
    BY <1>6, <1>a DEF OutFull, WorkerInv, PcIs
  <2>2. /\ worker' \in WorkerType
        /\ worker'[w].pc = "busy" /\ worker'[w].msg = worker[w].msg
        /\ \A v \in Worker \ {w} : worker'[v] = worker[v]
    BY <1>a, <2>1, SetWorker DEF PipeTypeOK, MsgOf
  <2>3. UNCHANGED <<recvVars, reEnterChan, outChan, skipDumpChan, fate>>
    BY <1>6 DEF OutFull
  <2>4. WorkerInv'
    BY <1>a, <2>1, <2>2 DEF WorkerInv, PcIs, MsgOf
  <2>5. \A v \in Worker : MsgOf(v)' = MsgOf(v)
    BY <2>2 DEF MsgOf
  <2>6. InHand' = InHand /\ Chans' = Chans /\ Settled' = Settled
    BY <2>3, <2>5 DEF InHand, Chans, Settled
  <2>7. Kept \subseteq Kept'
    BY <2>6 DEF Kept, InFlight, InHand, Chans
  <2>8. OriginInv' /\ SyncWaits'
    BY <1>a, <2>1, <2>2, <2>3, <2>5 DEF OriginInv, SyncWaits, Retagged, PcIs
  <2>9. RecvTypeOK' /\ PipeTypeOK'
    BY <1>a, <2>2, <2>3 DEF RecvTypeOK, PipeTypeOK
  <2>10. QED
    BY <2>4, <2>7, <2>8, <2>9, TypeOKIsNext DEF PipeOk
<1>7. CASE SkipDump(w)
  <2>1. MsgOf(w) \in Message /\ MsgOf(w) # None /\ w \in AsyncWorker
    BY <1>7, <1>a, <1>b DEF SkipDump, WorkerInv, PcIs
  <2>2. Retagged(MsgOf(w))
    BY <1>a, <2>1 DEF OriginInv
  <2>3. /\ skipDumpChan' \in Seq(Message) /\ Len(skipDumpChan') <= SkipSize
        /\ ToSet(skipDumpChan') = ToSet(skipDumpChan) \cup {MsgOf(w)}
    BY <1>7, <1>a, <2>1, SendTo DEF SkipDump, PipeTypeOK
  <2>4. Free(w) /\ UNCHANGED <<recvVars, reEnterChan, outChan, fate>>
    BY <1>7 DEF SkipDump
  <2>5. /\ Chans \subseteq Chans' /\ MsgOf(w) \in Chans'
        /\ Settled \subseteq Settled'
    BY <2>3, <2>4 DEF Chans, Settled
  <2>6. /\ worker' \in WorkerType /\ WorkerInv' /\ Kept \subseteq Kept'
        /\ \A v \in Worker :
                 MsgOf(v)' # None /\ (v \in AsyncWorker \/ PcIs(v, "reenter")')
                    => Retagged(MsgOf(v))'
    BY <1>a, <2>4, <2>5, FreeKeeps
  <2>7. RecvTypeOK' /\ PipeTypeOK'
    BY <1>a, <2>3, <2>4, <2>6 DEF RecvTypeOK, PipeTypeOK
  <2>8. OriginInv' /\ SyncWaits'
    BY <1>a, <2>2, <2>3, <2>4, <2>6 DEF OriginInv, SyncWaits, Retagged
  <2>9. QED
    BY <2>6, <2>7, <2>8, TypeOKIsNext DEF PipeOk
<1>8. CASE DiscardBusy(w)
  <2>1. MsgOf(w) \in Message /\ MsgOf(w) # None /\ w \in AsyncWorker
    BY <1>8, <1>a, <1>b DEF DiscardBusy, WorkerInv, PcIs
  <2>2. Retagged(MsgOf(w)) /\ MsgOf(w).src \in Source
    BY <1>a, <2>1 DEF OriginInv, Message
  <2>3. /\ Free(w) /\ busy' = busy \cup {MsgOf(w).src}
        /\ UNCHANGED <<recvVars, reEnterChan, outChan, skipDumpChan, dumped,
                   skipped, throttled, filtered, retagged>>
    BY <1>8 DEF DiscardBusy
  <2>4. /\ Chans \subseteq Chans' /\ MsgOf(w).src \in Settled'
        /\ Settled \subseteq Settled'
    BY <2>3 DEF Chans, Settled
  <2>5. /\ worker' \in WorkerType /\ WorkerInv' /\ Kept \subseteq Kept'
        /\ \A v \in Worker :
                 MsgOf(v)' # None /\ (v \in AsyncWorker \/ PcIs(v, "reenter")')
                    => Retagged(MsgOf(v))'
    BY <1>a, <2>3, <2>4, FreeKeeps
  <2>6. RecvTypeOK' /\ PipeTypeOK'
    BY <1>a, <2>2, <2>3, <2>5 DEF RecvTypeOK, PipeTypeOK
  <2>7. OriginInv' /\ SyncWaits'
    BY <1>a, <2>2, <2>3, <2>5 DEF OriginInv, SyncWaits, Retagged
  <2>8. QED
    BY <2>5, <2>6, <2>7, TypeOKIsNext DEF PipeOk
<1>9. QED
  BY <1>1, <1>2, <1>3, <1>4, <1>5, <1>6, <1>7, <1>8 DEF WorkerStep

(* The journal takes messages away, and these are settled.                  *)
LEMMA JournalKeeps ==
    ASSUME Inv, JournalDump \/ JournalSkip
    PROVE  PipeOk' /\ Kept \subseteq Kept'
<1> USE Sizes DEF httpVars, kafkaVars, syslogVars, recvVars
<1> DEFINE Ok == PipeOk' /\ Kept \subseteq Kept'
<1>a. /\ TypeOK /\ WorkerInv /\ OriginInv /\ SyncWaits
      /\ RecvTypeOK /\ PipeTypeOK
  BY TypeOKIs DEF Inv
<1>b. ASSUME UNCHANGED worker, Settled \subseteq Settled',
             \A m \in Chans : m \in Chans' \/ m.src \in Settled'
      PROVE  Kept \subseteq Kept'
  <2> SUFFICES ASSUME NEW s \in Kept PROVE s \in Kept'
    OBVIOUS
  <2>1. s \in Kept' <=> s \in Settled' \/ \E x \in Chans' \cup InHand' : x.src = s
    BY DEF Kept, InFlight, Chans, InHand
  <2>2. s \in Settled \/ \E x \in Chans \cup InHand : x.src = s
    BY KeptIs
  <2>3. InHand' = InHand
    BY <1>b DEF InHand, MsgOf
  <2>4. QED
    BY <1>b, <2>1, <2>2, <2>3
<1>1. CASE JournalDump
  <2>0. /\ Head(outChan) \in Message
        /\ outChan' \in Seq(Message) /\ Len(outChan') <= OutSize
        /\ ToSet(outChan) = {Head(outChan)} \cup ToSet(outChan')
    BY <1>1, <1>a, ReceiveFrom DEF PipeTypeOK, JournalDump
  <2>1. /\ Head(outChan).src \in Source
        /\ outChan' \in Seq(Message) /\ Len(outChan') <= OutSize
        /\ ToSet(outChan) = {Head(outChan)} \cup ToSet(outChan')
    BY <2>0 DEF Message
  <2>2. /\ dumped' = dumped \cup {Head(outChan).src}
        /\ UNCHANGED <<recvVars, worker, reEnterChan, skipDumpChan, skipped,
                       throttled, filtered, busy, retagged>>
    BY <1>1 DEF JournalDump
  <2>3. /\ Settled \subseteq Settled'
        /\ \A m \in Chans : m \in Chans' \/ m.src \in Settled'
    BY <2>1, <2>2 DEF Settled, Chans
  <2>4. Kept \subseteq Kept'
    BY <1>b, <2>2, <2>3
  <2>5. RecvTypeOK' /\ PipeTypeOK'
    BY <1>a, <2>1, <2>2 DEF RecvTypeOK, PipeTypeOK
  <2>6. WorkerInv' /\ OriginInv' /\ SyncWaits'
    BY <1>a, <2>2 DEF WorkerInv, OriginInv, SyncWaits, Retagged, MsgOf, PcIs
  <2>7. QED
    BY <2>4, <2>5, <2>6, TypeOKIsNext DEF PipeOk
<1>2. CASE JournalSkip
  <2>0. /\ Head(skipDumpChan) \in Message
        /\ skipDumpChan' \in Seq(Message) /\ Len(skipDumpChan') <= SkipSize
        /\ ToSet(skipDumpChan) = {Head(skipDumpChan)} \cup ToSet(skipDumpChan')
    BY <1>2, <1>a, ReceiveFrom DEF PipeTypeOK, JournalSkip
  <2>1. /\ Head(skipDumpChan).src \in Source
        /\ skipDumpChan' \in Seq(Message) /\ Len(skipDumpChan') <= SkipSize
        /\ ToSet(skipDumpChan) = {Head(skipDumpChan)} \cup ToSet(skipDumpChan')
    BY <2>0 DEF Message
  <2>2. /\ skipped' = skipped \cup {Head(skipDumpChan).src}
        /\ UNCHANGED <<recvVars, worker, reEnterChan, outChan, dumped,
                       throttled, filtered, busy, retagged>>
    BY <1>2 DEF JournalSkip
  <2>3. /\ Settled \subseteq Settled'
        /\ \A m \in Chans : m \in Chans' \/ m.src \in Settled'
    BY <2>1, <2>2 DEF Settled, Chans
  <2>4. Kept \subseteq Kept'
    BY <1>b, <2>2, <2>3
  <2>5. RecvTypeOK' /\ PipeTypeOK'
    BY <1>a, <2>1, <2>2 DEF RecvTypeOK, PipeTypeOK
  <2>6. Retagged(Head(skipDumpChan))
    BY <1>a, <2>1 DEF OriginInv
  <2>7. WorkerInv' /\ OriginInv' /\ SyncWaits'
    BY <1>a, <2>1, <2>2, <2>6
    DEF WorkerInv, OriginInv, SyncWaits, Retagged, MsgOf, PcIs
  <2>8. QED
    BY <2>4, <2>5, <2>7, TypeOKIsNext DEF PipeOk
<1>3. QED
  BY <1>1, <1>2

-----------------------------------------------------------------------------
(* The steps of the receivers.                                              *)

(* What a receiver sends into asyncOutChan is no record.                    *)
LEMMA RecvChans ==
    ASSUME RecvTypeOK, RecvInv, RecvNext
    PROVE  /\ ToSet(asyncOutChan) \subseteq ToSet(asyncOutChan')
           /\ ToSet(syncOutChan) \subseteq ToSet(syncOutChan')
           /\ \A m \in ToSet(asyncOutChan') : 
                 m \in ToSet(asyncOutChan) \/ m.src \in Request \cup LogPart
<1> DEFINE Ok == /\ ToSet(asyncOutChan) \subseteq ToSet(asyncOutChan')
                 /\ ToSet(syncOutChan) \subseteq ToSet(syncOutChan')
                 /\ \A m \in ToSet(asyncOutChan') : 
                       m \in ToSet(asyncOutChan) \/ m.src \in Request \cup LogPart
<1> SUFFICES Ok
  OBVIOUS
<1>1. ASSUME NEW s \in Request \cup LogPart,
             asyncOutChan' = Append(asyncOutChan, NewMsg(s)), UNCHANGED syncOutChan
      PROVE  Ok
  <2>1. NewMsg(s) \in Message /\ NewMsg(s).src = s
    BY NewMsgIsMessage DEF Source, NewMsg
  <2>2. ToSet(asyncOutChan') = ToSet(asyncOutChan) \cup {NewMsg(s)}
    BY <1>1, <2>1, SendTo DEF RecvTypeOK
  <2>3. QED
    BY <1>1, <2>1, <2>2
<1>2. ASSUME NEW r \in Request, Post(r) PROVE Ok
  BY <1>1, <1>2 DEF Post
<1>3. CASE SyslogSend
  BY <1>1, <1>3 DEF SyslogSend, RecvTypeOK
<1>4. CASE Send
  <2>1. consumer.next \in Source
    BY <1>4 DEF Send, At, RecvInv, RecvTypeOK, Source, Record
  <2>2. ToSet(syncOutChan') = ToSet(syncOutChan) \cup {NewMsg(consumer.next)}
    BY <1>4, <2>1, NewMsgIsMessage, SendTo DEF Send, RecvTypeOK
  <2>3. QED
    BY <1>4, <2>2 DEF Send
<1>5. CASE \/ \E r \in Request : Answer(r)
           \/ \E l \in LogPart : Log(l)
           \/ SyslogTake \/ SyslogRestart
           \/ Consume \/ Mark \/ BrokerCommit \/ Reconnect
  BY <1>5 DEF Answer, Log, SyslogTake, SyslogRestart, Consume, Mark,
     BrokerCommit, Reconnect
<1>6. QED
  BY <1>2, <1>3, <1>4, <1>5 DEF RecvNext, ConsumerStep

(* So does every step of a receiver.                                        *)
LEMMA RecvKeeps ==
    ASSUME Inv, RecvNext, UNCHANGED PipelineVars
    PROVE  PipeOk' /\ Kept \subseteq Kept'
<1>a. /\ TypeOK /\ RecvInv /\ WorkerInv /\ OriginInv /\ SyncWaits
      /\ RecvTypeOK /\ PipeTypeOK
  BY TypeOKIs DEF Inv
<1>1. RecvTypeOK'
  BY <1>a, RecvNextTypeOK
<1>2. PipeTypeOK'
  BY <1>a DEF PipeTypeOK, PipelineVars, fate
<1>3. /\ ToSet(asyncOutChan) \subseteq ToSet(asyncOutChan')
      /\ ToSet(syncOutChan) \subseteq ToSet(syncOutChan')
      /\ \A m \in ToSet(asyncOutChan') : 
            m \in ToSet(asyncOutChan) \/ m.src \in Request \cup LogPart
  BY <1>a, RecvChans
<1>4. \A m \in ToSet(asyncOutChan') : m.src \notin Record
  BY <1>a, <1>3, ReceiversAssumption DEF OriginInv
<1>5. WorkerInv' /\ OriginInv' /\ SyncWaits'
  BY <1>a, <1>4
  DEF WorkerInv, OriginInv, SyncWaits, Retagged, MsgOf, PcIs, PipelineVars, fate
<1>6. InHand' = InHand /\ Chans \subseteq Chans' /\ Settled' = Settled
  BY <1>3 DEF InHand, Chans, Settled, MsgOf, PipelineVars, fate
<1>7. Kept \subseteq Kept'
  <2> SUFFICES ASSUME NEW s \in Kept PROVE s \in Kept'
    OBVIOUS
  <2>1. s \in Kept' <=> s \in Settled' \/ \E x \in Chans' \cup InHand' : x.src = s
    BY DEF Kept, InFlight, Chans, InHand
  <2>2. s \in Settled \/ \E x \in Chans \cup InHand : x.src = s
    BY KeptIs
  <2>3. QED
    BY <1>6, <2>1, <2>2
<1>8. QED
  BY <1>1, <1>2, <1>5, <1>7, TypeOKIsNext DEF PipeOk

-----------------------------------------------------------------------------
(* The inductive invariant: each source a receiver has promised to handle   *)
(* is still with the receiver, or among the messages and ends of the        *)
(* pipeline.  A record is there before its offset is marked.                *)
PlaceInv ==
    /\ answered \subseteq posting \cup Kept
    /\ logged \ lost \subseteq ToSet(inchan) \cup holding \cup Kept
    /\ (1 .. consumer.next - 1) \ Malformed \subseteq Kept
    /\ At("mark") /\ consumer.next \notin Malformed => consumer.next \in Kept

IInv == Inv /\ PlaceInv

(* What is in a channel is kept.                                            *)
LEMMA InKept ==
    ASSUME NEW m \in Chans'
    PROVE  m.src \in Kept'
BY DEF Kept, InFlight, Chans

(* Every step of a receiver keeps what it is done with in a place.          *)
LEMMA RecvPlaces ==
    ASSUME IInv, RecvNext, Kept \subseteq Kept'
    PROVE  PlaceInv'
<1> USE Sizes DEF httpVars, kafkaVars, syslogVars
<1>a. RecvTypeOK /\ RecvInv /\ PlaceInv
  BY TypeOKIs DEF IInv, Inv
<1>b. ASSUME NEW s \in Source,
             \/ asyncOutChan' = Append(asyncOutChan, NewMsg(s))
             \/ syncOutChan' = Append(syncOutChan, NewMsg(s))
      PROVE  s \in Kept'
  <2>1. NewMsg(s) \in Message /\ NewMsg(s).src = s
    BY NewMsgIsMessage DEF NewMsg
  <2>2. CASE asyncOutChan' = Append(asyncOutChan, NewMsg(s))
    <3>1. ToSet(asyncOutChan') = ToSet(asyncOutChan) \cup {NewMsg(s)}
      BY <1>a, <2>1, <2>2, SendTo DEF RecvTypeOK
    <3>2. NewMsg(s) \in Chans'
      BY <3>1 DEF Chans
    <3>3. QED
      BY <2>1, <3>2, InKept
  <2>3. CASE syncOutChan' = Append(syncOutChan, NewMsg(s))
    <3>1. ToSet(syncOutChan') = ToSet(syncOutChan) \cup {NewMsg(s)}
      BY <1>a, <2>1, <2>3, SendTo DEF RecvTypeOK
    <3>2. NewMsg(s) \in Chans'
      BY <3>1 DEF Chans
    <3>3. QED
      BY <2>1, <3>2, InKept
  <2>4. QED
    BY <1>b, <2>2, <2>3
<1>1. ASSUME NEW r \in Request, Answer(r) PROVE PlaceInv'
  BY <1>1, <1>a DEF PlaceInv, At, Answer
<1>2. ASSUME NEW r \in Request, Post(r) PROVE PlaceInv'
  <2>1. r \in Kept'
    BY <1>2, <1>b DEF Post, Source
  <2>2. QED
    BY <1>2, <1>a, <2>1 DEF PlaceInv, At, Post
<1>3. ASSUME NEW l \in LogPart, Log(l) PROVE PlaceInv'
  <2>1. ToSet(inchan') = ToSet(inchan) \cup {l}
    BY <1>3, <1>a, SendTo DEF RecvTypeOK, Log
  <2>2. QED
    BY <1>3, <1>a, <2>1 DEF PlaceInv, At, Log
<1>4. CASE SyslogTake
  <2>1. ToSet(inchan) = {Head(inchan)} \cup ToSet(inchan')
    BY <1>4, <1>a, ReceiveFrom DEF RecvTypeOK, SyslogTake
  <2>2. QED
    BY <1>4, <1>a, <2>1 DEF PlaceInv, At, SyslogTake
<1>5. CASE SyslogSend
  <2>1. PICK l \in holding : asyncOutChan' = Append(asyncOutChan, NewMsg(l))
    BY <1>5 DEF SyslogSend
  <2>2. l \in Kept'
    BY <1>a, <1>b, <2>1 DEF RecvTypeOK, Source
  <2>4. holding = {l}
    BY <1>a, <2>1, AtMostOne DEF RecvTypeOK, RecvInv
  <2>5. QED
    BY <1>5, <1>a, <2>2, <2>4 DEF PlaceInv, At, SyslogSend
<1>6. CASE SyslogRestart
  BY <1>6, <1>a DEF PlaceInv, At, SyslogRestart
<1>7. CASE Consume
  <2>1. consumer'.next = consumer.next
    BY <1>7, <1>a DEF Consume, Go, RecvTypeOK
  <2>2. At("mark")' => consumer.next \in Malformed
    BY <1>7, <1>a DEF Consume, Go, RecvTypeOK, At
  <2>3. QED
    BY <1>7, <1>a, <2>1, <2>2 DEF PlaceInv, Consume
<1>8. CASE Send
  <2>1. consumer.next \in Source
    BY <1>8, <1>a DEF Send, At, RecvInv, RecvTypeOK, Source, Record
  <2>2. consumer.next \in Kept'
    BY <1>8, <1>b, <2>1 DEF Send
  <2>3. consumer'.next = consumer.next
    BY <1>8, <1>a DEF Send, Go, RecvTypeOK
  <2>4. QED
    BY <1>8, <1>a, <2>2, <2>3 DEF PlaceInv, Send
<1>9. CASE Mark
  <2>1. /\ consumer'.next = consumer.next + 1 /\ ~At("mark")'
        /\ consumer.next \in Nat \ {0}
    BY <1>9, <1>a DEF Mark, RecvTypeOK, At
  <2>2. 1 .. (consumer'.next - 1) = (1 .. (consumer.next - 1)) \cup {consumer.next}
    BY <2>1
  <2>3. consumer.next \notin Malformed => consumer.next \in Kept'
    BY <1>9, <1>a DEF Mark, PlaceInv
  <2>4. QED
    BY <1>9, <1>a, <2>1, <2>2, <2>3 DEF PlaceInv, Mark
<1>10. CASE BrokerCommit
  BY <1>10, <1>a DEF PlaceInv, At, BrokerCommit
<1>11. CASE Reconnect
  <2>0. /\ offset \in Nat /\ marked \in Nat
        /\ offset <= marked /\ marked = consumer.next - 1
        /\ consumer \in [pc : {"select", "send", "mark"}, next : 1 .. MaxRecord + 1]
    BY <1>a DEF RecvTypeOK, RecvInv
  <2>1. /\ consumer'.next = offset + 1 /\ ~At("mark")'
        /\ offset \in Nat /\ offset <= consumer.next - 1 /\ consumer.next \in Nat
    <3>1. consumer.pc = "select" /\ consumer' = [consumer EXCEPT !.next = offset + 1]
      BY <1>11 DEF Reconnect, At
    <3>2. QED
      BY <2>0, <3>1 DEF At
  <2>2. 1 .. (consumer'.next - 1) \subseteq 1 .. (consumer.next - 1)
    BY <2>1
  <2>3. QED
    BY <1>11, <1>a, <2>1, <2>2 DEF PlaceInv, Reconnect
<1>12. QED
  BY <1>1, <1>2, <1>3, <1>4, <1>5, <1>6, <1>7, <1>8, <1>9, <1>10, <1>11
  DEF RecvNext, ConsumerStep

(* Every step keeps the invariant.                                          *)
LEMMA NextIInv == IInv /\ [Next]_vars => IInv'
<1> SUFFICES ASSUME IInv, [Next]_vars PROVE IInv'
  OBVIOUS
<1> USE DEF vars, recvVars, httpVars, kafkaVars, syslogVars, fate
<1>1. CASE RecvNext /\ UNCHANGED PipelineVars
  <2>1. PipeOk' /\ Kept \subseteq Kept'
    BY <1>1, RecvKeeps DEF IInv
  <2>2. RecvInv'
    BY <1>1, RecvNextTypeOK, TypeOKIs DEF IInv, Inv
  <2>3. PlaceInv'
    BY <1>1, <2>1, RecvPlaces
  <2>4. QED
    BY <2>1, <2>2, <2>3 DEF IInv, Inv, PipeOk
<1>2. ASSUME PipeOk', Kept \subseteq Kept',
             UNCHANGED <<httpVars, kafkaVars, syslogVars>>
      PROVE  IInv'
  <2>1. RecvInv'
    BY <1>2 DEF IInv, Inv, RecvInv, At
  <2>2. PlaceInv'
    BY <1>2 DEF IInv, PlaceInv, At
  <2>3. QED
    BY <1>2, <2>1, <2>2 DEF IInv, Inv, PipeOk
<1>3. ASSUME NEW w \in Worker, WorkerStep(w) PROVE IInv'
  <2>1. UNCHANGED <<httpVars, kafkaVars, syslogVars>>
    BY <1>3 DEF WorkerStep, TakeReEntered, TakeAsync, TakeSync, ReEnter, Out,
       OutFull, SkipDump, DiscardBusy
  <2>2. QED
    BY <1>2, <1>3, <2>1, WorkerStepKeeps DEF IInv
<1>4. CASE JournalDump \/ JournalSkip
  <2>1. UNCHANGED <<httpVars, kafkaVars, syslogVars>>
    BY <1>4 DEF JournalDump, JournalSkip
  <2>2. QED
    BY <1>2, <1>4, <2>1, JournalKeeps DEF IInv
<1>5. CASE UNCHANGED vars
  <2>1. TypeOK' /\ RecvInv' /\ WorkerInv' /\ OriginInv' /\ SyncWaits'
    BY <1>5 DEF IInv, Inv, TypeOK, RecvTypeOK, RecvInv, At, WorkerInv,
       OriginInv, SyncWaits, Retagged, MsgOf, PcIs
  <2>2. Kept' = Kept
    BY <1>5 DEF Kept, InFlight, Settled, MsgOf
  <2>3. PlaceInv'
    BY <1>5, <2>2 DEF IInv, PlaceInv, At
  <2>4. QED
    BY <2>1, <2>3 DEF IInv, Inv
<1>6. QED
  BY <1>1, <1>3, <1>4, <1>5 DEF Next

(* A start has the invariant.                                               *)
LEMMA InitIInv == Init => IInv
<1> SUFFICES ASSUME Init PROVE IInv
  OBVIOUS
<1> USE Sizes DEF Init, RecvInit
<1>1. RecvTypeOK
  <2>1. Cardinality({}) = 0 /\ IsFiniteSet({})
    BY FS_EmptySet
  <2>2. QED
    BY <2>1, NewChan DEF RecvTypeOK
<1>2. PipeTypeOK
  BY NewChan DEF PipeTypeOK, WorkerType
<1>3. RecvInv /\ WorkerInv
  BY NewChan, FS_EmptySet DEF RecvInv, At, WorkerInv, PcIs, MsgOf
<1>4. OriginInv /\ SyncWaits
  BY NewChan DEF OriginInv, SyncWaits, MsgOf
<1>5. PlaceInv
  BY DEF PlaceInv, At
<1>6. QED
  BY <1>1, <1>2, <1>3, <1>4, <1>5, TypeOKIs DEF IInv, Inv

(* The inductive invariant holds in every state of the pipeline.            *)
THEOREM Invariance == Spec => []IInv
<1>1. QED
  BY InitIInv, NextIInv, PTL DEF Spec

(* Every variable has its type: no channel holds more than its size.        *)
THEOREM TypeCorrect == Spec => []TypeOK
<1>1. IInv => TypeOK
  BY DEF IInv, Inv
<1>2. QED
  BY <1>1, Invariance, PTL

(* An answered request, a record whose offset the broker knows, and a       *)
(* syslog record that was not lost with its server is with its receiver, in *)
(* a channel or a worker, or at one of the ends the code has for it.        *)
THEOREM NothingLost == Spec => []NothingVanishes
<1>1. IInv => NothingVanishes
  <2> SUFFICES ASSUME IInv PROVE NothingVanishes
    OBVIOUS
  <2>1. RecvTypeOK /\ RecvInv /\ PlaceInv
    BY TypeOKIs DEF IInv, Inv
  <2>2. 1 .. offset \subseteq 1 .. (consumer.next - 1)
    BY <2>1, Sizes DEF RecvTypeOK, RecvInv
  <2>3. QED
    BY <2>1, <2>2 DEF PlaceInv, NothingVanishes, Kept
<1>2. QED
  BY <1>1, Invariance, PTL

(* A Kafka record skips the journal, or is thrown away because the disk is  *)
(* busy, only when the Spring filter had given it a new tag.                *)
THEOREM RecordsWait == Spec => []SyncWaits
<1>1. IInv => SyncWaits
  BY DEF IInv, Inv
<1>2. QED
  BY <1>1, Invariance, PTL
=============================================================================
