---------------------------- MODULE MiddleProofs ----------------------------
(***************************************************************************)
(* Proofs about the dispatcher, the tag pipelines and the post pipeline,    *)
(* for any number of workers, parsers, tags and messages and any channel    *)
(* sizes: type correctness, that the counter of a tag exists whenever its   *)
(* channel is found, that a tag has one pipeline, that messages of one tag  *)
(* and key leave it in the order they came in, and that a message is in one *)
(* place at a time.                                                         *)
(***************************************************************************)
EXTENDS PostPipeline, SeqLemmas, FiniteSetTheorems

-----------------------------------------------------------------------------
(* The post filters.                                                        *)

(* A verdict: a message to send or to discard, or none.                     *)
Verdicts ==
    {v \in [pc : {"select", "send", "discard"}, msg : Message \cup {None}] :
        IF v.pc = "select" THEN v.msg = None ELSE v.msg \in Message}

(* A verdict about the message i.                                           *)
VerdictsOn(i) == {v \in Verdicts : v.pc # "select" => v.msg.id = i}

(* Each filter comes to a verdict about the message it gets.                *)
LEMMA FilterType ==
    ASSUME NEW name \in {"es-dispatcher", "tag-rewriter", "custom-bigdata"},
           NEW m \in Message
    PROVE  Filter(name, m) \in VerdictsOn(m.id)
<1>1. /\ ReTagMap \in [Msg -> Tag \cup {""}] /\ NewTag \in Tag
      /\ m.id \in Msg /\ m.tag \in Tag \cup {""}
  BY PostAssumption DEF Message
<1>2. ESDispatcher(m) \in VerdictsOn(m.id)
  BY <1>1 DEF ESDispatcher, Verdicts, VerdictsOn, Message
<1>3. ForwardTagRewriter(m) \in VerdictsOn(m.id)
  BY <1>1 DEF ForwardTagRewriter, Verdicts, VerdictsOn, Message
<1>4. CustomBigData(m) \in VerdictsOn(m.id)
  BY <1>1 DEF CustomBigData, Verdicts, VerdictsOn, Idle
<1>5. QED
  BY <1>2, <1>3, <1>4 DEF Filter

(* The chain of filters comes to a verdict, whatever their order.           *)
LEMMA FilteredType ==
    ASSUME filters \in Chains, NEW m \in Message
    PROVE  Filtered(m) \in VerdictsOn(m.id)
<1> DEFINE n == Len(filters)
           V == VerdictsOn(m.id)
           Names == {"es-dispatcher", "tag-rewriter", "custom-bigdata"}
           start == [pc |-> "send", msg |-> m]
           Step(k, v) == IF v.pc = "send" THEN Filter(filters[k], v.msg) ELSE v
           Run(j, g) == /\ g \in [0 .. j -> V] /\ g[0] = start
                        /\ \A k \in 1 .. j : g[k] = Step(k, g[k - 1])
           Good == {j \in 0 .. n : \E g : Run(j, g)}
           After(g) == [k \in 0 .. n |-> IF k = 0 THEN start ELSE Step(k, g[k - 1])]
<1>0. filters \in Seq(Names)
  BY PostAssumption
<1>1. n \in Nat /\ \A k \in 1 .. n : filters[k] \in Names
  BY <1>0, LenProperties
<1>2. start \in V
  BY DEF V, Verdicts, VerdictsOn
<1>3. ASSUME NEW k \in 1 .. n, NEW v \in V PROVE Step(k, v) \in V
  <2>1. CASE v.pc = "send"
    <3>1. v.msg \in Message /\ v.msg.id = m.id /\ V = VerdictsOn(v.msg.id)
      BY <2>1 DEF V, Verdicts, VerdictsOn
    <3>2. QED
      BY <1>1, <2>1, <3>1, FilterType
  <2>2. QED
    BY <2>1
<1> HIDE DEF Step, start, n, V
<1>4. 0 \in Good
  <2> DEFINE g == [k \in 0 .. 0 |-> start]
  <2>1. Run(0, g)
    BY <1>2
  <2> HIDE DEF g, Run
  <2>2. QED
    BY <1>1, <2>1
<1>5. ASSUME NEW j \in 1 .. n, j - 1 \in Good PROVE j \in Good
  <2>1. PICK g : Run(j - 1, g)
    BY <1>5
  <2> DEFINE h == [k \in 0 .. j |-> IF k = j THEN Step(j, g[j - 1]) ELSE g[k]]
  <2>2. g[j - 1] \in V
    BY <1>1, <2>1
  <2>3. Step(j, g[j - 1]) \in V
    BY <1>3, <2>2
  <2>4. h \in [0 .. j -> V] /\ h[0] = start
    BY <1>1, <2>1, <2>3
  <2>5. ASSUME NEW k \in 1 .. j PROVE h[k] = Step(k, h[k - 1])
    BY <1>1, <2>1, <2>5
  <2>6. Run(j, h)
    BY <2>4, <2>5
  <2> HIDE DEF h, Run
  <2>7. QED
    BY <1>1, <2>6
<1> HIDE DEF Good
<1>6. n \in Good
  BY <1>1, <1>4, <1>5, UpTo
<1>7. PICK g : Run(n, g)
  BY <1>6 DEF Good
<1>8. g = After(g)
  BY <1>1, <1>7
<1> DEFINE after == CHOOSE a : a = After(a)
<1>9. after = After(after)
  BY <1>8
<1> DEFINE Typed == {k \in 0 .. n : after[k] \in V}
<1> HIDE DEF after
<1>10. \A k \in 0 .. n : k \in Typed
  <2>1. 0 \in Typed
    BY <1>1, <1>2, <1>9
  <2>2. ASSUME NEW k \in 1 .. n, k - 1 \in Typed PROVE k \in Typed
    <3>1. after[k] = Step(k, after[k - 1])
      BY <1>1, <1>9
    <3>2. QED
      BY <1>1, <1>3, <2>2, <3>1
  <2> HIDE DEF Typed
  <2>3. QED
    BY <1>1, <2>1, <2>2, UpTo
<1>11. Filtered(m) = after[n]
  BY DEF Filtered, after, start, Step, n
<1>12. QED
  BY <1>1, <1>10, <1>11 DEF V

-----------------------------------------------------------------------------
(* The invariant.                                                           *)

(* Which messages may be where.  In front of the pipelines a message has a  *)
(* tag; a tag has one pipeline, and the load balancer chooses the parser by *)
(* the key, so the pipeline and the parser say which messages they hold.    *)
(* A parser never has to send a message on that it does not support.        *)
Tagged == {m \in Message : m.tag \in Tag}
OfPipe(p) == {m \in Message : p = <<m.tag, 1>>}
OfFork(q) == {m \in OfPipe(q[1]) : ForkOf[m.id] = q[2]}

MsgInv ==
    /\ inChan \in Seq(Tagged)
    /\ \A w \in Worker :
          IF worker[w].pc = "select" THEN worker[w].msg = None ELSE worker[w].msg \in Tagged
    /\ \A p \in Pipeline : lbChan[p] \in Seq(OfPipe(p))
    /\ \A q \in Pipeline \X ParserFork :
          /\ forkChan[q] \in Seq(OfFork(q))
          /\ parser[q].pc # "forward"
          /\ IF parser[q].pc = "select" THEN parser[q].msg = None ELSE parser[q].msg \in OfFork(q)
    /\ post \in [PostFork -> Verdicts]

(* The lock: one worker at a time is between taking and giving it back.     *)
Inside == {"recheck", "spawn", "store1", "store2", "unlock"}
LockInv == \A w \in Worker : worker[w].pc \in Inside => lock = w

(* The channel a tag gets, once and for all.                                *)
ChannelOf(t) == IF t \in Supported THEN <<t, 1>> ELSE Direct
Storing(w) == worker[w].pc \in {"store1", "store2"}
Found(w) == worker[w].pc \in {"store1", "store2", "unlock", "count", "send"}

(* A pipeline made is in the map, or its maker is about to put it there.    *)
SpawnInv ==
    /\ \A t \in Tag :
          /\ tag2Concator[t] \in {None, ChannelOf(t)}
          /\ nSpawned[t] \in {0, 1}
          /\ nSpawned[t] = 1 => \/ tag2Concator[t] # None
                                \/ \E w \in Worker : Storing(w) /\ worker[w].msg.tag = t
    /\ \A w \in Worker :
          /\ worker[w].pc = "spawn" => tag2Concator[worker[w].msg.tag] = None
          /\ Found(w) => worker[w].ch = ChannelOf(worker[w].msg.tag)

(* The counter of a tag is in its map before the channel is.                *)
CounterInv ==
    /\ \A t \in Tag : tag2Concator[t] # None => t \in tag2Counter
    /\ \A w \in Worker : worker[w].pc \in {"store2", "unlock", "count", "send"} =>
                            worker[w].msg.tag \in tag2Counter
    /\ ~panicked

(* The order of the messages in and behind the pipeline of a tag: whatever  *)
(* is ahead of another of its key came in before it.  left is ahead of what *)
(* the parser holds, that is ahead of its channel, and that of the channel  *)
(* of the load balancer.                                                    *)
CameFirst(t) ==
    {r \in Msg \X Msg : ForkOf[r[1]] = ForkOf[r[2]] => Before(entered[t], r[1], r[2])}
InOrder(s, R) == \A a, b \in DOMAIN s : a < b => <<s[a].id, s[b].id>> \in R
PipeOf(t) == <<t, 1>>
Held(q) == IF parser[q].pc = "select" THEN {} ELSE {parser[q].msg.id}
Parsing(q) == Held(q) \cup Ids(forkChan[q])

PipeOrder(t) ==
    /\ \A a, b \in DOMAIN left[t] : a < b => <<left[t][a], left[t][b]>> \in CameFirst(t)
    /\ InOrder(lbChan[PipeOf(t)], CameFirst(t))
    /\ ToSet(left[t]) \cup Ids(lbChan[PipeOf(t)]) \subseteq ToSet(entered[t])
    /\ ToSet(left[t]) \X Ids(lbChan[PipeOf(t)]) \subseteq CameFirst(t)
ForkOrder(t, q) ==
    /\ InOrder(forkChan[q], CameFirst(t))
    /\ Parsing(q) \subseteq ToSet(entered[t])
    /\ ToSet(left[t]) \X Parsing(q) \subseteq CameFirst(t)
    /\ Parsing(q) \X Ids(lbChan[PipeOf(t)]) \subseteq CameFirst(t)
    /\ Held(q) \X Ids(forkChan[q]) \subseteq CameFirst(t)

Piped == {t \in Supported : PipeOf(t) \in Pipeline}
OrderInv ==
    /\ \A t \in Tag : left[t] # <<>> => t \in Piped
    /\ \A t \in Piped : PipeOrder(t)
    /\ \A t \in Piped, f \in ParserFork : ForkOrder(t, <<PipeOf(t), f>>)

Inv == TypeOK /\ MsgInv /\ LockInv /\ SpawnInv /\ CounterInv
IInv == Inv /\ OrderInv

-----------------------------------------------------------------------------
(* A worker moves.                                                          *)
WorkerPc == {"select", "load", "lock", "recheck", "spawn", "store1", "store2",
             "unlock", "count", "send"}
WorkerState == [pc : WorkerPc, msg : Message \cup {None},
                ch : Pipeline \cup {Direct, None}]

(* What a move does: the worker has its new state, the others keep theirs.  *)
Moved(w, pc, m, ch) ==
    /\ worker' \in [Worker -> WorkerState]
    /\ worker'[w].pc = pc /\ worker'[w].msg = m /\ worker'[w].ch = ch
    /\ \A v \in Worker : v # w => worker'[v] = worker[v]

(* What the assignment of the model does, for typed values.                 *)
LEMMA BecomesMoved ==
    ASSUME worker \in [Worker -> WorkerState], NEW w \in Worker,
           NEW pc \in WorkerPc, NEW m \in Message \cup {None},
           NEW ch \in Pipeline \cup {Direct, None}, Becomes(w, pc, m, ch)
    PROVE  Moved(w, pc, m, ch)
BY DEF Becomes, WorkerState, Moved

(* A worker that has a message is not in the select.                        *)
LEMMA Busy ==
    ASSUME MsgInv, TypeOK, NEW w \in Worker
    PROVE  /\ worker \in [Worker -> WorkerState]
           /\ worker[w].msg \in Message \cup {None}
           /\ worker[w].ch \in Pipeline \cup {Direct, None}
           /\ worker[w].pc # "select" =>
                /\ worker[w].msg \in Message /\ worker[w].msg.tag \in Tag
                /\ tag2Concator[worker[w].msg.tag] \in Pipeline \cup {Direct, None}
<1>1. worker \in [Worker -> WorkerState]
  BY DEF TypeOK, DispTypeOK, WorkerState, WorkerPc
<1>2. /\ worker[w].msg \in Message \cup {None}
      /\ worker[w].ch \in Pipeline \cup {Direct, None}
  BY <1>1 DEF WorkerState
<1>3. ASSUME worker[w].pc # "select"
      PROVE  worker[w].msg \in Message /\ worker[w].msg.tag \in Tag
  BY <1>3 DEF MsgInv, Tagged
<1>4. ASSUME NEW t \in Tag PROVE tag2Concator[t] \in Pipeline \cup {Direct, None}
  BY DEF TypeOK, DispTypeOK
<1>5. QED
  BY <1>1, <1>2, <1>3, <1>4

(* The first look at the map, without the lock, and the second, with it.    *)
LEMMA Looks ==
    ASSUME MsgInv, TypeOK, NEW w \in Worker
    PROVE  /\ Load(w) =>
                /\ worker[w].pc = "load"
                /\ \/ /\ tag2Concator[worker[w].msg.tag] = None
                      /\ Moved(w, "lock", worker[w].msg, worker[w].ch)
                   \/ /\ tag2Concator[worker[w].msg.tag] # None
                      /\ Moved(w, "count", worker[w].msg, tag2Concator[worker[w].msg.tag])
           /\ Recheck(w) =>
                /\ worker[w].pc = "recheck"
                /\ \/ /\ tag2Concator[worker[w].msg.tag] = None
                      /\ Moved(w, "spawn", worker[w].msg, worker[w].ch)
                   \/ /\ tag2Concator[worker[w].msg.tag] # None
                      /\ Moved(w, "unlock", worker[w].msg, tag2Concator[worker[w].msg.tag])
<1> DEFINE m == worker[w].msg
           ch == tag2Concator[m.tag]
<1>1. ASSUME Load(w)
      PROVE  /\ worker[w].pc = "load"
             /\ \/ ch = None /\ Becomes(w, "lock", m, worker[w].ch)
                \/ ch # None /\ Becomes(w, "count", m, ch)
  BY <1>1 DEF Load, At, MsgOf, Go, GoWith
<1>2. ASSUME Recheck(w)
      PROVE  /\ worker[w].pc = "recheck"
             /\ \/ ch = None /\ Becomes(w, "spawn", m, worker[w].ch)
                \/ ch # None /\ Becomes(w, "unlock", m, ch)
  BY <1>2 DEF Recheck, At, MsgOf, Go, GoWith
<1>3. {"lock", "count", "spawn", "unlock"} \subseteq WorkerPc
  BY DEF WorkerPc
<1>4. QED
  BY <1>1, <1>2, <1>3, Busy, BecomesMoved

(* The steps that keep the message and the channel.                         *)
LEMMA Keeps ==
    ASSUME MsgInv, TypeOK, NEW w \in Worker
    PROVE  /\ Lock(w) => /\ worker[w].pc = "lock"
                         /\ Moved(w, "recheck", worker[w].msg, worker[w].ch)
           /\ Store(w) => \/ /\ worker[w].pc = "store1" /\ StoreCounter(w)
                             /\ UNCHANGED tag2Concator
                             /\ Moved(w, "store2", worker[w].msg, worker[w].ch)
                          \/ /\ worker[w].pc = "store2" /\ StoreConcator(w)
                             /\ UNCHANGED tag2Counter
                             /\ Moved(w, "unlock", worker[w].msg, worker[w].ch)
           /\ Unlock(w) => /\ worker[w].pc = "unlock"
                           /\ Moved(w, "count", worker[w].msg, worker[w].ch)
           /\ LoadCounter(w) =>
                /\ worker[w].pc = "count"
                /\ \/ /\ worker[w].msg.tag \in tag2Counter /\ UNCHANGED panicked
                      /\ Moved(w, "send", worker[w].msg, worker[w].ch)
                   \/ worker[w].msg.tag \notin tag2Counter /\ UNCHANGED worker
<1>1. {"recheck", "store2", "unlock", "count", "send"} \subseteq WorkerPc
  BY DEF WorkerPc
<1>2. ASSUME NEW pc \in WorkerPc, Go(w, pc)
      PROVE  Moved(w, pc, worker[w].msg, worker[w].ch)
  BY <1>2, Busy, BecomesMoved DEF Go, GoWith, MsgOf
<1>3. QED
  BY <1>1, <1>2 DEF Lock, Store, Unlock, LoadCounter, At, MsgOf

(* The steps that get a message, a pipeline, or rid of the message.         *)
LEMMA Takes ==
    ASSUME MsgInv, SpawnInv, TypeOK, NEW w \in Worker
    PROVE  /\ Receive(w) => /\ worker[w].pc = "select"
                            /\ Head(inChan) \in Tagged
                            /\ inChan' \in Seq(Tagged) /\ Len(inChan') <= InSize
                            /\ Moved(w, "load", Head(inChan), None)
           /\ Dispatch(w) => /\ worker[w].pc = "send"
                             /\ Moved(w, "select", None, None)
<1>1. {"select", "load"} \subseteq WorkerPc
  BY DEF WorkerPc
<1>2. ASSUME Receive(w)
      PROVE  /\ Head(inChan) \in Tagged /\ Head(inChan) \in Message
             /\ inChan' \in Seq(Tagged) /\ Len(inChan') <= InSize
  <2>1. inChan \in Seq(Tagged) /\ inChan # <<>> /\ inChan' = Tail(inChan)
    BY <1>2 DEF Receive, MsgInv
  <2>2. /\ Head(inChan) \in Tagged /\ Tail(inChan) \in Seq(Tagged)
        /\ Len(Tail(inChan)) = Len(inChan) - 1 /\ Len(inChan) \in Nat
    BY <2>1, ReceiveFrom
  <2>3. Len(inChan) <= InSize /\ InSize \in Nat
    BY DispatcherAssumption DEF TypeOK, DispTypeOK
  <2>4. QED
    BY <2>1, <2>2, <2>3 DEF Tagged
<1>3. ASSUME Receive(w) PROVE Moved(w, "load", Head(inChan), None)
  BY <1>1, <1>2, <1>3, Busy, BecomesMoved DEF Receive
<1>4. ASSUME Dispatch(w) PROVE Moved(w, "select", None, None)
  BY <1>1, <1>4, Busy, BecomesMoved DEF Dispatch
<1>5. QED
  BY <1>2, <1>3, <1>4 DEF Receive, Dispatch, At

(* With a worker there is room for one pipeline for each tag.               *)
LEMMA OnePipeline ==
    ASSUME NEW w \in Worker
    PROVE  /\ Cardinality(Worker) \in Nat /\ 1 \in 1 .. Cardinality(Worker)
           /\ \A t \in Supported : <<t, 1>> \in Pipeline
           /\ \A t : ChannelOf(t) \in Pipeline \cup {Direct}
<1>1. Cardinality(Worker) \in Nat /\ Cardinality(Worker) # 0
  BY DispatcherAssumption, FS_CardinalityType, FS_EmptySet
<1>2. 1 \in 1 .. Cardinality(Worker)
  BY <1>1
<1>3. \A t \in Supported : <<t, 1>> \in Pipeline
  BY <1>2 DEF Pipeline
<1>4. QED
  BY <1>1, <1>2, <1>3 DEF ChannelOf

(* The pipeline a worker makes is the first of its tag: a pipeline made by  *)
(* another would be in the map, which the second look found empty, or its   *)
(* maker would hold the lock.                                               *)
LEMMA SpawnsFirst ==
    ASSUME Inv, NEW w \in Worker, Spawn(w)
    PROVE  LET m == worker[w].msg
           IN  /\ worker[w].pc = "spawn"
               /\ m.tag \in Tag /\ tag2Concator[m.tag] = None
               /\ Moved(w, "store1", m, ChannelOf(m.tag))
               /\ IF m.tag \in Supported THEN nSpawned' = [nSpawned EXCEPT ![m.tag] = 1]
                  ELSE UNCHANGED nSpawned
<1> DEFINE m == worker[w].msg
           t == m.tag
<1>1. worker[w].pc = "spawn" /\ m \in Message /\ t \in Tag
  BY Busy DEF Inv, Spawn, At
<1>2. tag2Concator[t] = None
  BY <1>1 DEF Inv, SpawnInv
<1>3. nSpawned[t] = 0
  <2>1. ASSUME NEW v \in Worker, Storing(v) PROVE v = w
    BY <1>1, <2>1 DEF Inv, LockInv, Inside, Storing
  <2>2. ~ Storing(w)
    BY <1>1 DEF Storing
  <2>3. QED
    BY <1>1, <1>2, <2>1, <2>2 DEF Inv, SpawnInv
<1>4. GoWith(w, "store1", ChannelOf(t))
  BY <1>3 DEF Spawn, MsgOf, ChannelOf
<1>5. Moved(w, "store1", m, ChannelOf(t))
  <2>1. "store1" \in WorkerPc
    BY DEF WorkerPc
  <2>2. QED
    BY <1>1, <1>4, <2>1, Busy, OnePipeline, BecomesMoved DEF GoWith, MsgOf, Inv
<1>6. IF t \in Supported THEN nSpawned' = [nSpawned EXCEPT ![t] = 1] ELSE UNCHANGED nSpawned
  BY <1>1, <1>3 DEF Spawn, MsgOf, Inv, TypeOK, DispTypeOK
<1>7. QED
  BY <1>1, <1>2, <1>5, <1>6

-----------------------------------------------------------------------------
(* Type correctness, and which messages may be where.                       *)

(* A worker's step is typed.                                                *)
LEMMA WorkerTypes ==
    ASSUME Inv, NEW w \in Worker, WorkerStep(w)
    PROVE  /\ worker' \in [Worker -> WorkerState]
           /\ \A v \in Worker : IF worker'[v].pc = "select" THEN worker'[v].msg = None
                                ELSE worker'[v].msg \in Tagged
<1>0. TypeOK /\ MsgInv /\ SpawnInv /\ worker \in [Worker -> WorkerState]
  BY Busy DEF Inv
<1>1. ASSUME NEW pc \in WorkerPc, NEW m, NEW ch, Moved(w, pc, m, ch),
             IF pc = "select" THEN m = None ELSE m \in Tagged
      PROVE  \A v \in Worker : IF worker'[v].pc = "select" THEN worker'[v].msg = None
                               ELSE worker'[v].msg \in Tagged
  BY <1>0, <1>1 DEF Moved, MsgInv
<1>2. worker[w].pc # "select" => worker[w].msg \in Tagged
  BY <1>0 DEF MsgInv
<1>3. WorkerPc \ {"select"} \subseteq WorkerPc /\ "select" \in WorkerPc
      /\ {"load", "lock", "recheck", "spawn", "store1", "store2", "unlock",
          "count", "send"} \subseteq WorkerPc
  BY DEF WorkerPc
<1>4. CASE Receive(w)
  BY <1>0, <1>1, <1>3, <1>4, Takes DEF Moved
<1>5. CASE Load(w) \/ Recheck(w)
  BY <1>0, <1>1, <1>2, <1>3, <1>5, Looks DEF Moved
<1>6. CASE Lock(w) \/ Store(w) \/ Unlock(w)
  BY <1>0, <1>1, <1>2, <1>3, <1>6, Keeps DEF Moved
<1>7. CASE LoadCounter(w)
  <2>1. CASE UNCHANGED worker
    BY <1>0, <2>1 DEF MsgInv
  <2>2. QED
    BY <1>0, <1>1, <1>2, <1>3, <1>7, <2>1, Keeps DEF Moved
<1>8. CASE Spawn(w)
  BY <1>1, <1>2, <1>3, <1>8, SpawnsFirst DEF Moved
<1>9. CASE Dispatch(w)
  BY <1>0, <1>1, <1>3, <1>9, Takes DEF Moved
<1>10. QED
  BY <1>4, <1>5, <1>6, <1>7, <1>8, <1>9 DEF WorkerStep

-----------------------------------------------------------------------------
(* The maps of the dispatcher.                                              *)
MapTypes ==
    /\ lock \in Worker \cup {None}
    /\ tag2Concator \in [Tag -> Pipeline \cup {Direct, None}]
    /\ tag2Counter \subseteq Tag
    /\ nSpawned \in [Tag -> 0 .. Cardinality(Worker)]
    /\ panicked \in BOOLEAN

(* Each step of a worker keeps the maps typed.                              *)
LEMMA MapTypesKept ==
    ASSUME Inv, NEW w \in Worker, WorkerStep(w)
    PROVE  MapTypes'
<1>0. TypeOK /\ MsgInv /\ MapTypes
  BY DEF Inv, TypeOK, DispTypeOK, MapTypes
<1>1. CASE Receive(w) \/ Load(w) \/ Recheck(w) \/ Dispatch(w)
  <2>1. UNCHANGED maps /\ UNCHANGED panicked
    BY <1>1 DEF Receive, Load, Recheck, Dispatch
  <2>2. QED
    BY <1>0, <2>1 DEF maps, MapTypes
<1>2. CASE Lock(w) \/ Unlock(w)
  BY <1>0, <1>2 DEF Lock, Unlock, MapTypes
<1>3. CASE Spawn(w)
  <2>1. nSpawned' \in [Tag -> 0 .. Cardinality(Worker)]
    BY <1>0, <1>3, SpawnsFirst, OnePipeline DEF MapTypes
  <2>2. QED
    BY <1>0, <1>3, <2>1 DEF Spawn, MapTypes
<1>4. CASE Store(w)
  <2>1. /\ worker[w].msg.tag \in Tag
        /\ worker[w].ch \in Pipeline \cup {Direct, None}
    BY <1>0, <1>4, Busy DEF Store, At
  <2>2. tag2Counter' \subseteq Tag
    BY <1>0, <1>4, <2>1 DEF Store, StoreCounter, MsgOf, MapTypes
  <2>3. tag2Concator' \in [Tag -> Pipeline \cup {Direct, None}]
    BY <1>0, <1>4, <2>1 DEF Store, StoreConcator, MsgOf, MapTypes
  <2>4. QED
    BY <1>0, <1>4, <2>2, <2>3 DEF Store, MapTypes
<1>5. CASE LoadCounter(w)
  BY <1>0, <1>5 DEF LoadCounter, maps, MapTypes
<1>6. QED
  BY <1>1, <1>2, <1>3, <1>4, <1>5 DEF WorkerStep

(* Each step of a worker keeps the lock.                                    *)
LEMMA LockKept ==
    ASSUME Inv, NEW w \in Worker, WorkerStep(w)
    PROVE  LockInv'
<1>0. TypeOK /\ MsgInv /\ SpawnInv /\ LockInv
  BY DEF Inv
<1>1. CASE Receive(w) \/ Dispatch(w)
  <2>1. UNCHANGED lock
    BY <1>1 DEF Receive, Dispatch, maps
  <2>2. QED
    BY <1>0, <1>1, <2>1, Takes DEF Moved, LockInv, Inside
<1>2. CASE Load(w) \/ Recheck(w)
  <2>1. UNCHANGED lock
    BY <1>2 DEF Load, Recheck, maps
  <2>2. QED
    BY <1>0, <1>2, <2>1, Looks DEF Moved, LockInv, Inside
<1>3. CASE Lock(w)
  <2>1. lock = None /\ lock' = w /\ None \notin Worker
    BY <1>3, DispatcherAssumption DEF Lock
  <2>2. QED
    BY <1>0, <1>3, <2>1, Keeps DEF Moved, LockInv, Inside
<1>4. CASE Spawn(w)
  <2>1. UNCHANGED lock
    BY <1>4 DEF Spawn
  <2>2. QED
    BY <1>0, <1>4, <2>1, SpawnsFirst DEF Moved, LockInv, Inside
<1>5. CASE Store(w)
  <2>1. UNCHANGED lock
    BY <1>5 DEF Store
  <2>2. QED
    BY <1>0, <1>5, <2>1, Keeps DEF Moved, LockInv, Inside
<1>6. CASE Unlock(w)
  <2>1. worker[w].pc = "unlock" /\ Moved(w, "count", worker[w].msg, worker[w].ch)
    BY <1>0, <1>6, Keeps
  <2>2. ASSUME NEW v \in Worker, v # w PROVE worker[v].pc \notin Inside
    BY <1>0, <2>1, <2>2 DEF LockInv, Inside
  <2>3. QED
    BY <2>1, <2>2 DEF Moved, LockInv, Inside
<1>7. CASE LoadCounter(w)
  <2>1. UNCHANGED lock
    BY <1>7 DEF LoadCounter, maps
  <2>2. QED
    BY <1>0, <1>7, <2>1, Keeps DEF Moved, LockInv, Inside
<1>8. QED
  BY <1>1, <1>2, <1>3, <1>4, <1>5, <1>6, <1>7 DEF WorkerStep

(* Each step of a worker keeps the counters ahead of the channels.          *)
LEMMA CounterKept ==
    ASSUME Inv, NEW w \in Worker, WorkerStep(w)
    PROVE  CounterInv'
<1>0. TypeOK /\ MsgInv /\ SpawnInv /\ CounterInv
  BY DEF Inv
<1>1. CASE Receive(w) \/ Dispatch(w)
  <2>1. UNCHANGED <<tag2Concator, tag2Counter, panicked>>
    BY <1>1 DEF Receive, Dispatch, maps
  <2>2. QED
    BY <1>0, <1>1, <2>1, Takes DEF Moved, CounterInv
<1>2. CASE Load(w) \/ Recheck(w)
  <2>1. UNCHANGED <<tag2Concator, tag2Counter, panicked>>
    BY <1>2 DEF Load, Recheck, maps
  <2>2. worker[w].msg.tag \in Tag
    BY <1>0, <1>2, Busy DEF Load, Recheck, At
  <2>3. QED
    BY <1>0, <1>2, <2>1, <2>2, Looks DEF Moved, CounterInv
<1>3. CASE Lock(w) \/ Unlock(w)
  <2>1. UNCHANGED <<tag2Concator, tag2Counter, panicked>>
    BY <1>3 DEF Lock, Unlock
  <2>2. QED
    BY <1>0, <1>3, <2>1, Keeps DEF Moved, CounterInv
<1>4. CASE Spawn(w)
  <2>1. UNCHANGED <<tag2Concator, tag2Counter, panicked>>
    BY <1>4 DEF Spawn
  <2>2. QED
    BY <1>0, <1>4, <2>1, SpawnsFirst DEF Moved, CounterInv
<1>5. CASE Store(w)
  <2>0. /\ worker[w].msg.tag \in Tag /\ UNCHANGED panicked
        /\ tag2Concator \in [Tag -> Pipeline \cup {Direct, None}]
    BY <1>0, <1>5, Busy DEF Store, At, TypeOK, DispTypeOK
  <2>1. CASE worker[w].pc = "store1"
    <3>1. /\ tag2Counter' = tag2Counter \cup {worker[w].msg.tag}
          /\ UNCHANGED tag2Concator
          /\ Moved(w, "store2", worker[w].msg, worker[w].ch)
      BY <1>0, <1>5, <2>1, Keeps DEF StoreCounter, MsgOf
    <3>2. QED
      BY <1>0, <2>0, <3>1 DEF Moved, CounterInv
  <2>2. CASE worker[w].pc = "store2"
    <3>1. /\ UNCHANGED tag2Counter
          /\ tag2Concator' = [tag2Concator EXCEPT ![worker[w].msg.tag] = worker[w].ch]
          /\ Moved(w, "unlock", worker[w].msg, worker[w].ch)
          /\ worker[w].msg.tag \in tag2Counter
      BY <1>0, <1>5, <2>2, Keeps DEF StoreConcator, MsgOf, CounterInv
    <3>2. \A t \in Tag : tag2Concator'[t] # None => t \in tag2Counter
      BY <1>0, <2>0, <3>1 DEF CounterInv
    <3>3. QED
      BY <1>0, <2>0, <3>1, <3>2 DEF Moved, CounterInv
  <2>3. QED
    BY <1>5, <2>1, <2>2 DEF Store, At
<1>6. CASE LoadCounter(w)
  <2>1. UNCHANGED <<tag2Concator, tag2Counter>> /\ worker[w].pc = "count"
    BY <1>6 DEF LoadCounter, maps, At
  <2>2. worker[w].msg.tag \in tag2Counter
    BY <1>0, <2>1 DEF CounterInv
  <2>3. QED
    BY <1>0, <1>6, <2>1, <2>2, Keeps DEF Moved, CounterInv
<1>7. QED
  BY <1>1, <1>2, <1>3, <1>4, <1>5, <1>6 DEF WorkerStep

(* Each step of a worker keeps to one pipeline for each tag.                *)
LEMMA SpawnKept ==
    ASSUME Inv, NEW w \in Worker, WorkerStep(w)
    PROVE  SpawnInv'
<1>0. TypeOK /\ MsgInv /\ SpawnInv /\ LockInv
  BY DEF Inv
<1>1. CASE Receive(w) \/ Dispatch(w)
  <2>1. UNCHANGED <<tag2Concator, nSpawned>>
    BY <1>1 DEF Receive, Dispatch, maps
  <2>2. QED
    BY <1>0, <1>1, <2>1, Takes DEF Moved, SpawnInv, Storing, Found
<1>2. CASE Load(w) \/ Recheck(w)
  <2>1. UNCHANGED <<tag2Concator, nSpawned>>
    BY <1>2 DEF Load, Recheck, maps
  <2>2. worker[w].msg.tag \in Tag /\ worker[w].pc \in {"load", "recheck"}
    BY <1>0, <1>2, Busy DEF Load, Recheck, At
  <2>3. QED
    BY <1>0, <1>2, <2>1, <2>2, Looks DEF Moved, SpawnInv, Storing, Found
<1>3. CASE Lock(w) \/ Unlock(w) \/ LoadCounter(w)
  <2>1. UNCHANGED <<tag2Concator, nSpawned>>
    BY <1>3 DEF Lock, Unlock, LoadCounter, maps
  <2>2. QED
    BY <1>0, <1>3, <2>1, Keeps DEF Moved, SpawnInv, Storing, Found
<1>4. CASE Spawn(w)
  <2> DEFINE m == worker[w].msg
             t == m.tag
  <2>1. /\ worker[w].pc = "spawn" /\ t \in Tag
        /\ Moved(w, "store1", m, ChannelOf(t))
        /\ nSpawned' \in {nSpawned, [nSpawned EXCEPT ![t] = 1]}
        /\ UNCHANGED tag2Concator /\ nSpawned \in [Tag -> 0 .. Cardinality(Worker)]
    BY <1>4, SpawnsFirst DEF Spawn, Inv, TypeOK, DispTypeOK
  <2>2. \A s \in Tag : nSpawned'[s] \in {0, 1} /\ (s # t => nSpawned'[s] = nSpawned[s])
    BY <1>0, <2>1 DEF SpawnInv
  <2>3. \A v \in Worker : Storing(v) => Storing(v)' /\ worker'[v].msg = worker[v].msg
    BY <2>1 DEF Moved, Storing
  <2>4. Storing(w)' /\ worker'[w].msg = m /\ worker'[w].ch = ChannelOf(t)
    BY <2>1 DEF Moved, Storing
  <2>5. \A s \in Tag : nSpawned'[s] = 1 =>
            \/ tag2Concator'[s] # None
            \/ \E v \in Worker : Storing(v)' /\ worker'[v].msg.tag = s
    BY <1>0, <2>1, <2>2, <2>3, <2>4 DEF SpawnInv
  <2>6. \A v \in Worker :
          /\ worker'[v].pc = "spawn" => tag2Concator'[worker'[v].msg.tag] = None
          /\ Found(v)' => worker'[v].ch = ChannelOf(worker'[v].msg.tag)
    BY <1>0, <2>1, <2>4 DEF Moved, SpawnInv, Found
  <2>7. QED
    BY <1>0, <2>1, <2>2, <2>5, <2>6 DEF SpawnInv
<1>5. CASE Store(w)
  <2> DEFINE m == worker[w].msg
             t == m.tag
  <2>0. t \in Tag /\ UNCHANGED nSpawned /\ worker[w].pc \in {"store1", "store2"}
        /\ tag2Concator \in [Tag -> Pipeline \cup {Direct, None}]
    BY <1>0, <1>5, Busy DEF Store, At, TypeOK, DispTypeOK
  <2>1. CASE worker[w].pc = "store1"
    <3>1. /\ UNCHANGED tag2Concator /\ Moved(w, "store2", m, worker[w].ch)
      BY <1>0, <1>5, <2>1, Keeps
    <3>2. QED
      BY <1>0, <2>0, <2>1, <3>1 DEF Moved, SpawnInv, Storing, Found
  <2>2. CASE worker[w].pc = "store2"
    <3>1. /\ tag2Concator' = [tag2Concator EXCEPT ![t] = ChannelOf(t)]
          /\ Moved(w, "unlock", m, ChannelOf(t))
      BY <1>0, <1>5, <2>2, Keeps DEF StoreConcator, MsgOf, SpawnInv, Found
    <3>2. ChannelOf(t) # None
      BY OnePipeline, DispatcherAssumption
    <3>3. \A v \in Worker : v # w => worker[v].pc # "spawn"
      BY <1>0, <2>2 DEF LockInv, Inside
    <3>4. \A s \in Tag : /\ s # t => tag2Concator'[s] = tag2Concator[s]
                         /\ tag2Concator'[t] = ChannelOf(t)
      BY <2>0, <3>1
    <3>5. \A s \in Tag : nSpawned'[s] = 1 =>
            \/ tag2Concator'[s] # None
            \/ \E v \in Worker : Storing(v)' /\ worker'[v].msg.tag = s
      <4>1. ASSUME NEW s \in Tag, s # t, NEW v \in Worker, Storing(v), worker[v].msg.tag = s
            PROVE  Storing(v)' /\ worker'[v].msg.tag = s
        BY <3>1, <4>1 DEF Moved, Storing
      <4>2. QED
        BY <1>0, <2>0, <3>2, <3>4, <4>1 DEF SpawnInv
    <3>6. \A v \in Worker :
          /\ worker'[v].pc # "spawn"
          /\ Found(v)' => worker'[v].ch = ChannelOf(worker'[v].msg.tag)
      BY <1>0, <3>1, <3>3 DEF Moved, SpawnInv, Found
    <3>7. QED
      BY <1>0, <2>0, <3>4, <3>5, <3>6 DEF SpawnInv
  <2>3. QED
    BY <2>0, <2>1, <2>2
<1>6. QED
  BY <1>1, <1>2, <1>3, <1>4, <1>5 DEF WorkerStep

-----------------------------------------------------------------------------
(* The channels.                                                            *)
InTypes == arrived \in 0 .. NMsg /\ inChan \in Seq(Tagged) /\ Len(inChan) <= InSize
PipeTypes ==
    /\ lbChan \in [Pipeline -> Seq(Message)]
    /\ \A p \in Pipeline : lbChan[p] \in Seq(OfPipe(p)) /\ Len(lbChan[p]) <= PipeSize
ForkTypes ==
    /\ forkChan \in [Pipeline \X ParserFork -> Seq(Message)]
    /\ \A q \in Pipeline \X ParserFork :
          forkChan[q] \in Seq(OfFork(q)) /\ Len(forkChan[q]) <= PipeSize
ParserTypes ==
    /\ parser \in [Pipeline \X ParserFork ->
          [pc : {"select", "send", "discard"}, msg : Message \cup {None}]]
    /\ \A q \in Pipeline \X ParserFork :
          IF parser[q].pc = "select" THEN parser[q].msg = None ELSE parser[q].msg \in OfFork(q)
OutTypes ==
    /\ outChan \in Seq(Message) /\ Len(outChan) <= OutSize
    /\ commitChan \in Seq(Message) /\ Len(commitChan) <= CommitSize
HistoryTypes ==
    /\ blocked \subseteq Msg
    /\ entered \in [Tag -> Seq(Msg)] /\ left \in [Tag -> Seq(Msg)]
PostTypes ==
    /\ filters \in Chains
    /\ post \in [PostFork -> Verdicts]
    /\ produceChan \in Seq(Message) /\ Len(produceChan) <= ProduceSize
    /\ produced \subseteq Msg /\ committed \subseteq Msg /\ leaked \subseteq Msg
WorkerInv ==
    /\ worker \in [Worker -> WorkerState]
    /\ \A w \in Worker :
          IF worker[w].pc = "select" THEN worker[w].msg = None ELSE worker[w].msg \in Tagged
Typed ==
    /\ WorkerInv /\ MapTypes /\ InTypes /\ PipeTypes /\ ForkTypes /\ ParserTypes
    /\ OutTypes /\ HistoryTypes /\ PostTypes

(* The types and the places of messages, taken apart by channel.            *)
LEMMA TypedIs == TypeOK /\ MsgInv <=> Typed
<1>1. ASSUME TypeOK, MsgInv PROVE Typed
  <2>1. WorkerInv /\ MapTypes /\ InTypes /\ PipeTypes /\ ForkTypes /\ OutTypes
        /\ HistoryTypes /\ PostTypes
    BY <1>1 DEF TypeOK, DispTypeOK, MsgInv, WorkerInv, MapTypes, InTypes, PipeTypes,
                ForkTypes, OutTypes, HistoryTypes, PostTypes, WorkerState, WorkerPc
  <2>2. parser \in [Pipeline \X ParserFork ->
          [pc : {"select", "forward", "send", "discard"}, msg : Message \cup {None}]]
    BY <1>1 DEF TypeOK, DispTypeOK
  <2>3. ParserTypes
    BY <1>1, <2>2 DEF MsgInv, ParserTypes
  <2>4. QED
    BY <2>1, <2>3 DEF Typed
<1>2. ASSUME Typed PROVE TypeOK /\ MsgInv
  <2>1. inChan \in Seq(Message)
    <3>1. Tagged \subseteq Message
      BY DEF Tagged
    <3>2. QED
      BY <1>2, <3>1, SeqMonotonic DEF Typed, InTypes
  <2>2. parser \in [Pipeline \X ParserFork ->
          [pc : {"select", "forward", "send", "discard"}, msg : Message \cup {None}]]
    BY <1>2 DEF Typed, ParserTypes
  <2>3. post \in [PostFork -> [pc : {"select", "send", "discard"}, msg : Message \cup {None}]]
    BY <1>2 DEF Typed, PostTypes, Verdicts
  <2>4. TypeOK
    BY <1>2, <2>1, <2>2, <2>3
       DEF Typed, TypeOK, DispTypeOK, WorkerInv, MapTypes, InTypes, PipeTypes,
           ForkTypes, OutTypes, HistoryTypes, PostTypes, WorkerState, WorkerPc
  <2>5. MsgInv
    BY <1>2 DEF Typed, MsgInv, WorkerInv, InTypes, PipeTypes, ForkTypes, ParserTypes,
                PostTypes
  <2>6. QED
    BY <2>4, <2>5
<1>3. QED
  BY <1>1, <1>2

(* The same, after a step.                                                  *)
LEMMA TypedIsNext == (TypeOK /\ MsgInv)' <=> Typed'
  BY TypedIs, PTL

(* The steps of a worker.                                                   *)
LEMMA WorkerStepTyped ==
    ASSUME Inv, NEW w \in Worker, WorkerStep(w), UNCHANGED postVars
    PROVE  Typed'
<1>0. Typed /\ WorkerInv' /\ MapTypes'
  BY TypedIs, WorkerTypes, MapTypesKept DEF Inv, WorkerInv
<1>1. PostTypes'
  BY <1>0 DEF Typed, PostTypes, postVars
<1>2. CASE Receive(w)
  <2>1. InTypes'
    BY <1>0, <1>2, Takes DEF Inv, Receive, restVars, Typed, InTypes
  <2>2. PipeTypes' /\ ForkTypes' /\ ParserTypes' /\ OutTypes' /\ HistoryTypes'
    BY <1>0, <1>2 DEF Receive, restVars, queues, Typed, PipeTypes, ForkTypes,
                      ParserTypes, OutTypes, HistoryTypes
  <2>3. QED
    BY <1>0, <1>1, <2>1, <2>2 DEF Typed
<1>3. CASE /\ ~ Receive(w) /\ ~ Dispatch(w)
  <2>1. UNCHANGED <<inChan, restVars>>
    BY <1>3 DEF WorkerStep, Load, Lock, Recheck, Spawn, Store, Unlock, LoadCounter
  <2>2. InTypes' /\ PipeTypes' /\ ForkTypes' /\ ParserTypes' /\ OutTypes' /\ HistoryTypes'
    BY <1>0, <2>1 DEF restVars, queues, Typed, InTypes, PipeTypes, ForkTypes,
                      ParserTypes, OutTypes, HistoryTypes
  <2>3. QED
    BY <1>0, <1>1, <2>2 DEF Typed
<1>4. CASE Dispatch(w)
  <2> DEFINE m == worker[w].msg
             ch == worker[w].ch
  <2>1. /\ worker[w].pc = "send" /\ m \in Message /\ m.tag \in Tag /\ m.id \in Msg
        /\ ch = ChannelOf(m.tag)
    BY <1>4, Busy DEF Inv, Dispatch, At, SpawnInv, Found, Message
  <2>2. InTypes' /\ ForkTypes' /\ ParserTypes'
    BY SMTT(30), <1>0, <1>4 DEF Dispatch, Typed, InTypes, ForkTypes, ParserTypes
  <2>3. /\ UNCHANGED commitChan /\ UNCHANGED left
        /\ blocked' \in {blocked, blocked \cup {m.id}}
        /\ \/ /\ ch = Direct /\ Len(outChan) < OutSize
              /\ outChan' = Append(outChan, m)
              /\ UNCHANGED <<lbChan, entered>>
           \/ /\ ch # Direct /\ Len(lbChan[ch]) < PipeSize
              /\ lbChan' = [lbChan EXCEPT ![ch] = Append(@, m)]
              /\ entered' = [entered EXCEPT ![m.tag] = Append(@, m.id)]
              /\ UNCHANGED outChan
           \/ UNCHANGED <<lbChan, outChan, entered>>
    BY <1>4 DEF Dispatch, MsgOf
  <2> HIDE DEF m, ch
  <2>4. OutTypes'
    <3>1. OutSize \in Nat
      BY DispatcherAssumption
    <3>2. CASE outChan' = Append(outChan, m) /\ Len(outChan) < OutSize
      BY <1>0, <2>1, <2>3, <3>1, <3>2, SendTo DEF Typed, OutTypes
    <3>3. CASE UNCHANGED outChan
      BY <1>0, <2>3, <3>3 DEF Typed, OutTypes
    <3>4. QED
      BY <2>3, <3>2, <3>3
  <2>5. PipeTypes'
    <3>1. CASE /\ ch # Direct /\ Len(lbChan[ch]) < PipeSize
               /\ lbChan' = [lbChan EXCEPT ![ch] = Append(@, m)]
      <4>1. ch = <<m.tag, 1>> /\ ch \in Pipeline /\ m \in OfPipe(ch)
        BY <2>1, <3>1, OnePipeline DEF ChannelOf, OfPipe
      <4>2. /\ lbChan[ch] \in Seq(OfPipe(ch)) /\ lbChan[ch] \in Seq(Message)
            /\ PipeSize \in Nat
        BY <1>0, <4>1, DispatcherAssumption DEF Typed, PipeTypes
      <4>3. /\ Append(lbChan[ch], m) \in Seq(OfPipe(ch))
            /\ Append(lbChan[ch], m) \in Seq(Message)
            /\ Len(Append(lbChan[ch], m)) <= PipeSize
        BY <2>1, <3>1, <4>1, <4>2, SendTo
      <4>4. QED
        BY <1>0, <3>1, <4>1, <4>3 DEF Typed, PipeTypes
    <3>2. CASE UNCHANGED lbChan
      BY <1>0, <3>2 DEF Typed, PipeTypes
    <3>3. QED
      BY <2>3, <3>1, <3>2
  <2>6. HistoryTypes'
    <3>1. CASE entered' = [entered EXCEPT ![m.tag] = Append(@, m.id)]
      <4>1. Append(entered[m.tag], m.id) \in Seq(Msg)
        BY <1>0, <2>1, SendTo DEF Typed, HistoryTypes
      <4>2. QED
        BY <1>0, <2>1, <2>3, <3>1, <4>1 DEF Typed, HistoryTypes
    <3>2. CASE UNCHANGED entered
      BY <1>0, <2>1, <2>3, <3>2 DEF Typed, HistoryTypes
    <3>3. QED
      BY <2>3, <3>1, <3>2
  <2>7. QED
    BY <1>0, <1>1, <2>2, <2>4, <2>5, <2>6 DEF Typed
<1>5. QED
  BY <1>2, <1>3, <1>4

(* The journal sends on.                                                    *)
LEMMA ArriveTyped ==
    ASSUME Typed, Arrive, UNCHANGED postVars
    PROVE  Typed'
<1>1. NewMsg(arrived + 1) \in Tagged /\ arrived + 1 \in 0 .. NMsg
  <2>1. arrived + 1 \in 0 .. NMsg /\ arrived + 1 \in Msg
    <3>1. NMsg \in Nat /\ arrived \in 0 .. NMsg /\ arrived < NMsg
      BY DispatcherAssumption DEF Arrive, Typed, InTypes
    <3>2. QED
      BY <3>1 DEF Msg
  <2>2. TagOf[arrived + 1] \in Tag
    BY <2>1, DispatcherAssumption
  <2>3. QED
    BY <2>1, <2>2 DEF NewMsg, Tagged, Message
<1>2. InTypes'
  <2>1. inChan \in Seq(Tagged) /\ Len(inChan) < InSize /\ InSize \in Nat
    BY DispatcherAssumption DEF Arrive, Typed, InTypes
  <2>2. inChan' = Append(inChan, NewMsg(arrived + 1)) /\ arrived' = arrived + 1
    BY DEF Arrive
  <2>3. inChan' \in Seq(Tagged) /\ Len(inChan') <= InSize
    BY SMTT(30), <1>1, <2>1, <2>2, SendTo
  <2>4. QED
    BY <1>1, <2>2, <2>3 DEF InTypes
<1>3. QED
  BY <1>2 DEF Arrive, maps, queues, postVars, Typed, WorkerInv, MapTypes, PipeTypes,
              ForkTypes, ParserTypes, OutTypes, HistoryTypes, PostTypes

(* The load balancer takes a message out of a pipeline, and gives it to the *)
(* parser of its key if there is room.                                      *)
LEMMA Balances ==
    ASSUME Typed, NEW p \in Pipeline, LB(p)
    PROVE  LET m == Head(lbChan[p])
               q == <<p, ForkOf[m.id]>>
           IN  /\ m \in OfPipe(p) /\ m \in Message /\ m.id \in Msg
               /\ q \in Pipeline \X ParserFork /\ m \in OfFork(q)
               /\ lbChan[p] # <<>> /\ lbChan[p] \in Seq(OfPipe(p)) /\ lbChan[p] \in Seq(Message)
               /\ lbChan' = [lbChan EXCEPT ![p] = Tail(@)]
               /\ \/ /\ Len(forkChan[q]) < PipeSize
                     /\ forkChan' = [forkChan EXCEPT ![q] = Append(@, m)]
                     /\ UNCHANGED blocked
                  \/ blocked' = blocked \cup {m.id} /\ UNCHANGED forkChan
<1> DEFINE m == Head(lbChan[p])
           q == <<p, ForkOf[m.id]>>
<1>1. lbChan[p] \in Seq(OfPipe(p)) /\ lbChan[p] \in Seq(Message) /\ lbChan[p] # <<>>
  BY DEF Typed, PipeTypes, LB
<1>2. m \in OfPipe(p)
  BY <1>1, ReceiveFrom
<1>3. m \in Message /\ m.id \in Msg
  BY <1>2 DEF OfPipe, Message
<1>4. q \in Pipeline \X ParserFork /\ q[1] = p /\ q[2] = ForkOf[m.id]
  BY <1>3, DispatcherAssumption
<1>5. m \in OfFork(q)
  BY SMTT(30), <1>2, <1>4 DEF OfFork
<1>6. QED
  BY ZenonT(60), <1>1, <1>2, <1>3, <1>4, <1>5 DEF LB

(* The step of the load balancer keeps the types.                           *)
LEMMA LBTyped ==
    ASSUME Typed, NEW p \in Pipeline, LB(p), UNCHANGED postVars
    PROVE  Typed'
<1> DEFINE m == Head(lbChan[p])
           q == <<p, ForkOf[m.id]>>
<1>1. /\ m \in Message /\ m.id \in Msg /\ q \in Pipeline \X ParserFork /\ m \in OfFork(q)
      /\ lbChan[p] # <<>> /\ lbChan[p] \in Seq(OfPipe(p)) /\ lbChan[p] \in Seq(Message)
      /\ lbChan' = [lbChan EXCEPT ![p] = Tail(@)]
      /\ \/ /\ Len(forkChan[q]) < PipeSize
            /\ forkChan' = [forkChan EXCEPT ![q] = Append(@, m)]
            /\ UNCHANGED blocked
         \/ blocked' = blocked \cup {m.id} /\ UNCHANGED forkChan
  BY Balances
<1> HIDE DEF m, q
<1>2. PipeTypes'
  <2>1. /\ Tail(lbChan[p]) \in Seq(OfPipe(p)) /\ Tail(lbChan[p]) \in Seq(Message)
        /\ Len(Tail(lbChan[p])) = Len(lbChan[p]) - 1 /\ Len(lbChan[p]) \in Nat
    BY <1>1, ReceiveFrom
  <2>2. PipeSize \in Nat /\ Len(lbChan[p]) <= PipeSize
    BY DispatcherAssumption DEF Typed, PipeTypes
  <2>3. Len(Tail(lbChan[p])) <= PipeSize
    BY <2>1, <2>2
  <2>4. QED
    BY <1>1, <2>1, <2>3 DEF Typed, PipeTypes
<1>3. ForkTypes' /\ blocked' \subseteq Msg
  <2>1. CASE /\ Len(forkChan[q]) < PipeSize
             /\ forkChan' = [forkChan EXCEPT ![q] = Append(@, m)]
             /\ UNCHANGED blocked
    <3>1. /\ forkChan[q] \in Seq(OfFork(q)) /\ forkChan[q] \in Seq(Message)
          /\ PipeSize \in Nat
      BY <1>1, DispatcherAssumption DEF Typed, ForkTypes
    <3>2. /\ Append(forkChan[q], m) \in Seq(OfFork(q))
          /\ Append(forkChan[q], m) \in Seq(Message)
          /\ Len(Append(forkChan[q], m)) <= PipeSize
      BY <1>1, <2>1, <3>1, SendTo
    <3>3. QED
      BY <1>1, <2>1, <3>2 DEF Typed, ForkTypes, HistoryTypes
  <2>2. CASE blocked' = blocked \cup {m.id} /\ UNCHANGED forkChan
    BY <1>1, <2>2 DEF Typed, ForkTypes, HistoryTypes
  <2>3. QED
    BY <1>1, <2>1, <2>2
<1>4. QED
  BY <1>2, <1>3 DEF LB, pipeRest, maps, postVars, Typed, WorkerInv, MapTypes, InTypes,
                    ParserTypes, OutTypes, HistoryTypes, PostTypes

(* What a parser takes it supports, so it decides at once.                  *)
LEMMA ParserTakes ==
    ASSUME Typed, NEW q \in Pipeline \X ParserFork, ParserTake(q)
    PROVE  LET m == Head(forkChan[q])
           IN  /\ m \in OfFork(q) /\ m \in Message
               /\ parser[q].pc = "select"
               /\ forkChan[q] # <<>> /\ forkChan[q] \in Seq(OfFork(q))
               /\ forkChan[q] \in Seq(Message)
               /\ forkChan' = [forkChan EXCEPT ![q] = Tail(@)]
               /\ \E pc \in {"send", "discard"} :
                     parser' = [parser EXCEPT ![q] = [pc |-> pc, msg |-> m]]
<1> DEFINE m == Head(forkChan[q])
<1>1. /\ forkChan[q] \in Seq(OfFork(q)) /\ forkChan[q] \in Seq(Message)
      /\ forkChan[q] # <<>>
  BY DEF Typed, ForkTypes, ParserTake
<1>2. m \in OfFork(q)
  BY <1>1, ReceiveFrom
<1>3. m \in Message /\ q[1] = <<m.tag, 1>>
  BY <1>2 DEF OfFork, OfPipe
<1>4. m.tag \in Supported
  BY <1>3 DEF Pipeline
<1>5. ParserVerdict(m) \in {"send", "discard"}
  BY DEF ParserVerdict
<1>6. QED
  BY <1>1, <1>2, <1>3, <1>4, <1>5 DEF ParserTake

(* Taking keeps the types.                                                  *)
LEMMA ParserTakeTyped ==
    ASSUME Typed, NEW q \in Pipeline \X ParserFork, ParserTake(q), UNCHANGED postVars
    PROVE  Typed'
<1> DEFINE m == Head(forkChan[q])
<1>1. /\ m \in OfFork(q) /\ m \in Message
      /\ forkChan[q] # <<>> /\ forkChan[q] \in Seq(OfFork(q)) /\ forkChan[q] \in Seq(Message)
      /\ forkChan' = [forkChan EXCEPT ![q] = Tail(@)]
      /\ \E pc \in {"send", "discard"} :
            parser' = [parser EXCEPT ![q] = [pc |-> pc, msg |-> m]]
  BY ParserTakes
<1> HIDE DEF m
<1>2. ForkTypes'
  <2>1. /\ Tail(forkChan[q]) \in Seq(OfFork(q)) /\ Tail(forkChan[q]) \in Seq(Message)
        /\ Len(Tail(forkChan[q])) = Len(forkChan[q]) - 1 /\ Len(forkChan[q]) \in Nat
    BY <1>1, ReceiveFrom
  <2>2. PipeSize \in Nat /\ Len(forkChan[q]) <= PipeSize
    BY DispatcherAssumption DEF Typed, ForkTypes
  <2>3. Len(Tail(forkChan[q])) <= PipeSize
    BY <2>1, <2>2
  <2>4. QED
    BY <1>1, <2>1, <2>3 DEF Typed, ForkTypes
<1>3. ParserTypes'
  BY <1>1 DEF Typed, ParserTypes
<1>4. QED
  BY <1>2, <1>3 DEF ParserTake, pipeRest, maps, postVars, Typed, WorkerInv, MapTypes,
                    InTypes, PipeTypes, OutTypes, HistoryTypes, PostTypes

(* A parser sends what it holds on, or hands it to the journal.             *)
LEMMA ParserGives ==
    ASSUME Typed, NEW q \in Pipeline \X ParserFork
    PROVE  /\ ParserSend(q) =>
                LET m == parser[q].msg
                IN  /\ m \in OfFork(q) /\ m \in Message /\ m.id \in Msg
                    /\ m.tag = q[1][1] /\ m.tag \in Supported /\ m.tag \in Tag
                    /\ parser[q].pc = "send"
                    /\ Len(outChan) < OutSize /\ outChan' = Append(outChan, m)
                    /\ left' = [left EXCEPT ![m.tag] = Append(@, m.id)]
                    /\ parser' = [parser EXCEPT ![q] = Idle]
           /\ ParserDiscard(q) => parser[q].msg \in Message
<1>1. ASSUME NEW m \in OfFork(q)
      PROVE  /\ m \in Message /\ m.id \in Msg
             /\ m.tag = q[1][1] /\ m.tag \in Supported /\ m.tag \in Tag
  <2>1. m \in Message /\ q[1] = <<m.tag, 1>>
    BY DEF OfFork, OfPipe
  <2>2. m.id \in Msg /\ q[1] \in Pipeline
    BY <2>1 DEF Message
  <2>3. m.tag = q[1][1] /\ m.tag \in Supported
    BY <2>1, <2>2 DEF Pipeline
  <2>4. QED
    BY <2>1, <2>2, <2>3, DispatcherAssumption
<1>2. ASSUME ParserSend(q)
      PROVE  parser[q].pc = "send" /\ parser[q].msg \in OfFork(q)
  BY <1>2 DEF Typed, ParserTypes, ParserSend
<1>3. ASSUME ParserDiscard(q) PROVE parser[q].msg \in OfFork(q)
  BY <1>3 DEF Typed, ParserTypes, ParserDiscard
<1>4. ASSUME ParserSend(q) PROVE parser' = [parser EXCEPT ![q] = Idle]
  BY <1>2, <1>4 DEF ParserSend
<1>5. QED
  BY <1>1, <1>2, <1>3, <1>4 DEF ParserSend

(* A parser that is done is typed.                                          *)
LEMMA IdleParser ==
    ASSUME ParserTypes, NEW q \in Pipeline \X ParserFork,
           parser' = [parser EXCEPT ![q] = Idle]
    PROVE  ParserTypes'
BY DEF ParserTypes, Idle

(* Sending on keeps the types.                                              *)
LEMMA ParserSendTyped ==
    ASSUME Typed, NEW q \in Pipeline \X ParserFork, ParserSend(q), UNCHANGED postVars
    PROVE  Typed'
<1> DEFINE m == parser[q].msg
<1>1. /\ m \in Message /\ m.id \in Msg /\ m.tag \in Tag
      /\ Len(outChan) < OutSize /\ outChan' = Append(outChan, m)
      /\ left' = [left EXCEPT ![m.tag] = Append(@, m.id)]
      /\ parser' = [parser EXCEPT ![q] = Idle]
  BY ParserGives
<1> HIDE DEF m
<1>2. ParserTypes'
  BY <1>1, IdleParser DEF Typed
<1>3. outChan' \in Seq(Message) /\ Len(outChan') <= OutSize
  <2>1. outChan \in Seq(Message) /\ OutSize \in Nat
    BY DispatcherAssumption DEF Typed, OutTypes
  <2>2. QED
    BY <1>1, <2>1, SendTo
<1>4. left' \in [Tag -> Seq(Msg)]
  <2>1. Append(left[m.tag], m.id) \in Seq(Msg)
    BY <1>1, SendTo DEF Typed, HistoryTypes
  <2>2. QED
    BY <1>1, <2>1 DEF Typed, HistoryTypes
<1>5. QED
  BY <1>2, <1>3, <1>4 DEF ParserSend, pipeRest, maps, postVars, Typed, WorkerInv,
                          MapTypes, InTypes, PipeTypes, ForkTypes, OutTypes,
                          HistoryTypes, PostTypes

(* Discarding keeps the types.                                              *)
LEMMA ParserDiscardTyped ==
    ASSUME Typed, NEW q \in Pipeline \X ParserFork, ParserDiscard(q), UNCHANGED postVars
    PROVE  Typed'
<1>1. ParserTypes'
  BY IdleParser DEF Typed, ParserDiscard
<1>2. commitChan' \in Seq(Message) /\ Len(commitChan') <= CommitSize
  <2>1. /\ parser[q].msg \in Message /\ commitChan \in Seq(Message)
        /\ CommitSize \in Nat /\ Len(commitChan) < CommitSize
        /\ commitChan' = Append(commitChan, parser[q].msg)
    BY ParserGives, DispatcherAssumption DEF Typed, OutTypes, ParserDiscard
  <2>2. QED
    BY <2>1, SendTo
<1>3. QED
  BY <1>1, <1>2 DEF ParserDiscard, pipeRest, maps, postVars, Typed, WorkerInv,
                    MapTypes, InTypes, PipeTypes, ForkTypes, OutTypes, HistoryTypes,
                    PostTypes

(* The post pipeline, the producer and the journal.                         *)
Upstream == <<arrived, inChan, worker, maps, queues, blocked, entered, left, panicked>>

(* What stands in front of the post pipeline is typed when untouched.       *)
LEMMA UpstreamTyped ==
    ASSUME Typed, UNCHANGED Upstream, OutTypes', PostTypes'
    PROVE  Typed'
BY DEF Upstream, maps, queues, Typed, WorkerInv, MapTypes, InTypes, PipeTypes,
       ForkTypes, ParserTypes, HistoryTypes

(* The steps behind the parsers are typed and leave what is in front alone. *)
LEMMA PostTyped ==
    ASSUME Typed, Produce \/ Commit \/ (\E f \in PostFork : PostStep(f))
    PROVE  Typed' /\ UNCHANGED Upstream
<1> SUFFICES OutTypes' /\ PostTypes' /\ UNCHANGED Upstream
  BY UpstreamTyped
<1>0. /\ {OutSize, CommitSize, ProduceSize} \subseteq Nat
      /\ \A m \in Message : m.id \in Msg
      /\ Idle \in Verdicts /\ OutTypes /\ PostTypes
  BY DispatcherAssumption, PostAssumption DEF Message, Idle, Verdicts, Typed
<1>1. CASE Produce
  <2>1. /\ Head(produceChan) \in Message /\ produceChan' \in Seq(Message)
        /\ Len(produceChan') <= ProduceSize
    BY <1>0, <1>1, ReceiveFrom DEF Produce, PostTypes
  <2>2. QED
    BY <1>0, <1>1, <2>1 DEF Produce, dispVars, Upstream, OutTypes, PostTypes
<1>2. CASE Commit
  <2>1. /\ Head(commitChan) \in Message /\ commitChan' \in Seq(Message)
        /\ Len(commitChan') <= CommitSize
    BY <1>0, <1>2, ReceiveFrom DEF Commit, OutTypes
  <2>2. QED
    BY <1>0, <1>2, <2>1 DEF Commit, Upstream, OutTypes, PostTypes
<1>3. ASSUME NEW f \in PostFork, PostTake(f) PROVE OutTypes' /\ PostTypes' /\ UNCHANGED Upstream
  <2> DEFINE m == Head(outChan)
  <2>1. m \in Message /\ outChan' \in Seq(Message) /\ Len(outChan') <= OutSize
    BY <1>0, <1>3, ReceiveFrom DEF PostTake, OutTypes
  <2>2. Filtered(m) \in Verdicts
    BY <1>0, <2>1, FilteredType DEF PostTypes, VerdictsOn
  <2>3. post' \in [PostFork -> Verdicts] /\ leaked' \subseteq Msg
    BY <1>0, <1>3, <2>1, <2>2 DEF PostTake, PostTypes
  <2>4. QED
    BY <1>0, <1>3, <2>1, <2>3 DEF PostTake, Upstream, OutTypes, PostTypes
<1>4. ASSUME NEW f \in PostFork, PostSend(f) PROVE OutTypes' /\ PostTypes' /\ UNCHANGED Upstream
  <2>1. post[f].msg \in Message
    BY <1>0, <1>4 DEF PostSend, PostTypes, Verdicts
  <2>2. produceChan' \in Seq(Message) /\ Len(produceChan') <= ProduceSize
    BY <1>0, <1>4, <2>1, SendTo DEF PostSend, PostTypes
  <2>3. post' \in [PostFork -> Verdicts]
    BY <1>0, <1>4 DEF PostSend, PostTypes
  <2>4. QED
    BY <1>0, <1>4, <2>2, <2>3 DEF PostSend, dispVars, Upstream, OutTypes, PostTypes
<1>5. ASSUME NEW f \in PostFork, PostDiscard(f) PROVE OutTypes' /\ PostTypes' /\ UNCHANGED Upstream
  <2>1. post[f].msg \in Message
    BY <1>0, <1>5 DEF PostDiscard, PostTypes, Verdicts
  <2>2. commitChan' \in Seq(Message) /\ Len(commitChan') <= CommitSize
    BY <1>0, <1>5, <2>1, SendTo DEF PostDiscard, OutTypes
  <2>3. post' \in [PostFork -> Verdicts]
    BY <1>0, <1>5 DEF PostDiscard, PostTypes
  <2>4. QED
    BY <1>0, <1>5, <2>2, <2>3 DEF PostDiscard, Upstream, OutTypes, PostTypes
<1>6. QED
  BY <1>1, <1>2, <1>3, <1>4, <1>5 DEF PostStep

(* Init and every step.                                                     *)
LEMMA InitInv == Init => Inv
<1> SUFFICES ASSUME Init PROVE Inv
  OBVIOUS
<1>1. WorkerInv /\ MapTypes
  <2>1. Cardinality(Worker) \in Nat
    BY DispatcherAssumption, FS_CardinalityType
  <2>2. MapTypes
    <3>1. 0 \in 0 .. Cardinality(Worker)
      BY <2>1
    <3>2. /\ nSpawned = [t \in Tag |-> 0] /\ tag2Concator = [t \in Tag |-> None]
          /\ tag2Counter = {} /\ lock = None /\ panicked = FALSE
      BY DEF Init, DispInit
    <3>3. nSpawned \in [Tag -> 0 .. Cardinality(Worker)]
      BY <3>1, <3>2
    <3>4. tag2Concator \in [Tag -> Pipeline \cup {Direct, None}]
      BY <3>2
    <3>5. QED
      BY <3>2, <3>3, <3>4 DEF MapTypes
  <2>3. [pc |-> "select", msg |-> None, ch |-> None] \in WorkerState
    BY DEF WorkerState, WorkerPc
  <2>4. WorkerInv
    BY <2>3 DEF Init, DispInit, WorkerInv
  <2>5. QED
    BY <2>2, <2>4
<1>2. /\ \A S : <<>> \in Seq(S)
      /\ Len(<<>>) = 0
      /\ \A n \in {NMsg, InSize, PipeSize, OutSize, CommitSize, ProduceSize} :
            n \in Nat /\ 0 <= n
  <2>1. ASSUME NEW S PROVE <<>> \in Seq(S) /\ Len(<<>>) = 0
    BY NewChan
  <2>2. {NMsg, InSize, PipeSize, OutSize, CommitSize, ProduceSize} \subseteq Nat
    BY DispatcherAssumption, PostAssumption
  <2>3. Len(<<>>) = 0
    BY <2>1
  <2>4. QED
    BY <2>1, <2>2, <2>3
<1>3. InTypes /\ PipeTypes /\ ForkTypes /\ OutTypes /\ HistoryTypes
  BY <1>2 DEF Init, DispInit, InTypes, PipeTypes, ForkTypes, OutTypes, HistoryTypes
<1>4. ParserTypes /\ PostTypes
  BY <1>2 DEF Init, DispInit, ParserTypes, PostTypes, Idle, Verdicts
<1>5. LockInv /\ SpawnInv /\ CounterInv
  BY DEF Init, DispInit, LockInv, Inside, SpawnInv, Storing, Found, CounterInv
<1>6. QED
  BY <1>1, <1>3, <1>4, <1>5, TypedIs DEF Inv, Typed

mapVars == <<worker, maps, panicked>>

(* So do the steps that touch neither workers nor maps.                     *)
LEMMA MapsKept ==
    ASSUME Inv, UNCHANGED mapVars
    PROVE  LockInv' /\ SpawnInv' /\ CounterInv'
BY DEF Inv, mapVars, maps, LockInv, SpawnInv, Storing, Found, CounterInv

(* Every step keeps types, lock, counters and pipelines.                    *)
LEMMA NextInv == Inv /\ [Next]_vars => Inv'
<1> SUFFICES ASSUME Inv, [Next]_vars PROVE Inv'
  OBVIOUS
<1>0. Typed
  BY TypedIs DEF Inv
<1>1. ASSUME NEW w \in Worker, WorkerStep(w), UNCHANGED postVars PROVE Inv'
  BY <1>1, WorkerStepTyped, LockKept, SpawnKept, CounterKept, TypedIsNext DEF Inv
<1>2. ASSUME Typed', UNCHANGED mapVars PROVE Inv'
  BY <1>2, MapsKept, TypedIsNext DEF Inv
<1>3. CASE Arrive /\ UNCHANGED postVars
  BY SMTT(30), <1>0, <1>2, <1>3, ArriveTyped DEF Arrive, mapVars
<1>4. ASSUME NEW p \in Pipeline, LB(p), UNCHANGED postVars PROVE Inv'
  BY Zenon, <1>0, <1>2, <1>4, LBTyped DEF LB, pipeRest, mapVars
<1>5. ASSUME NEW q \in Pipeline \X ParserFork, ParserStep(q), UNCHANGED postVars
      PROVE  Inv'
  <2>1. Typed'
    BY <1>0, <1>5, ParserTakeTyped, ParserSendTyped, ParserDiscardTyped DEF ParserStep
  <2>2. UNCHANGED mapVars
    BY <1>5 DEF ParserStep, ParserTake, ParserSend, ParserDiscard, pipeRest, mapVars
  <2>3. QED
    BY <1>2, <2>1, <2>2
<1>6. CASE Produce \/ Commit \/ (\E f \in PostFork : PostStep(f))
  BY <1>0, <1>2, <1>6, PostTyped DEF Upstream, mapVars
<1>7. CASE UNCHANGED vars
  <2>1. Typed'
    BY <1>0, <1>7 DEF vars, dispVars, postVars, maps, queues, Typed, WorkerInv, MapTypes,
                      InTypes, PipeTypes, ForkTypes, ParserTypes, OutTypes,
                      HistoryTypes, PostTypes
  <2>2. QED
    BY <1>2, <1>7, <2>1 DEF vars, dispVars, mapVars
<1>8. QED
  BY <1>1, <1>3, <1>4, <1>5, <1>6, <1>7 DEF Next, DispNext

(* Every variable has its type, and no channel holds more than its size.    *)
THEOREM TypeCorrect == Spec => []TypeOK
<1>1. Inv => TypeOK
  BY DEF Inv
<1>2. QED
  BY <1>1, InitInv, NextInv, PTL DEF Spec

(* A dispatcher worker that finds the channel of a tag, under the lock or   *)
(* without it, finds the tag's counter too: "counter must exists".          *)
THEOREM CounterAlwaysExists == Spec => []CounterExists
<1>1. Inv => CounterExists
  BY DEF Inv, CounterInv, CounterExists
<1>2. QED
  BY <1>1, InitInv, NextInv, PTL DEF Spec

(* Whatever workers meet at the lock, a tag gets one pipeline: no second    *)
(* one takes the messages that come after the first ones.                   *)
OnePipelinePerTag == \A t \in Tag : nSpawned[t] <= 1

(* The second look under the lock makes it so.                              *)
THEOREM PipelineOnce == Spec => []OnePipelinePerTag
<1>1. Inv => OnePipelinePerTag
  BY DEF Inv, SpawnInv, OnePipelinePerTag
<1>2. QED
  BY <1>1, InitInv, NextInv, PTL DEF Spec

-----------------------------------------------------------------------------
(* The order of the messages of one tag and key.                            *)

(* What came first stays first, and came before what comes now.             *)
LEMMA BeforeGrows ==
    ASSUME NEW s \in Seq(Msg), NEW e \in Msg
    PROVE  /\ \A i, j : Before(s, i, j) => Before(Append(s, e), i, j)
           /\ \A i \in ToSet(s) : Before(Append(s, e), i, e)
<1>1. /\ Append(s, e) \in Seq(Msg) /\ Len(Append(s, e)) = Len(s) + 1
      /\ \A k \in 1 .. Len(s) : Append(s, e)[k] = s[k]
      /\ Append(s, e)[Len(s) + 1] = e
  BY AppendProperties
<1>2. /\ Len(s) \in Nat /\ DOMAIN s = 1 .. Len(s)
      /\ DOMAIN Append(s, e) = 1 .. (Len(s) + 1)
  BY <1>1, LenProperties
<1>3. ASSUME NEW i, NEW j, Before(s, i, j) PROVE Before(Append(s, e), i, j)
  <2>1. PICK a, b \in DOMAIN s : a < b /\ s[a] = i /\ s[b] = j
    BY <1>3 DEF Before
  <2>2. QED
    BY <1>1, <1>2, <2>1 DEF Before
<1>4. ASSUME NEW i \in ToSet(s) PROVE Before(Append(s, e), i, e)
  <2>1. PICK a \in DOMAIN s : s[a] = i
    BY <1>4 DEF ToSet
  <2>2. a < Len(s) + 1 /\ a \in 1 .. Len(s)
    BY <1>2, <2>1
  <2>3. QED
    BY <1>1, <1>2, <2>1, <2>2 DEF Before
<1>5. QED
  BY <1>3, <1>4

(* Order in a channel, after a message is sent to it ...                    *)
LEMMA OrderSend ==
    ASSUME NEW R, NEW s \in Seq(Message), NEW m \in Message, InOrder(s, R),
           Ids(s) \X {m.id} \subseteq R
    PROVE  InOrder(Append(s, m), R) /\ Ids(Append(s, m)) = Ids(s) \cup {m.id}
<1>1. /\ Append(s, m) \in Seq(Message) /\ Len(Append(s, m)) = Len(s) + 1
      /\ \A k \in 1 .. Len(s) : Append(s, m)[k] = s[k]
      /\ Append(s, m)[Len(s) + 1] = m
  BY AppendProperties
<1>2. /\ Len(s) \in Nat /\ DOMAIN s = 1 .. Len(s)
      /\ DOMAIN Append(s, m) = 1 .. (Len(s) + 1)
  BY <1>1, LenProperties
<1>3. Ids(Append(s, m)) = Ids(s) \cup {m.id}
  BY SendTo DEF Ids
<1>4. ASSUME NEW a \in DOMAIN Append(s, m), NEW b \in DOMAIN Append(s, m), a < b
      PROVE  <<Append(s, m)[a].id, Append(s, m)[b].id>> \in R
  <2>1. a \in 1 .. Len(s) /\ Append(s, m)[a] = s[a]
    BY <1>1, <1>2, <1>4
  <2>2. CASE b = Len(s) + 1
    <3>1. s[a] \in ToSet(s)
      BY <1>2, <2>1 DEF ToSet
    <3>2. QED
      BY <1>1, <2>1, <2>2, <3>1 DEF Ids
  <2>3. CASE b # Len(s) + 1
    BY <1>1, <1>2, <1>4, <2>1, <2>3 DEF InOrder
  <2>4. QED
    BY <2>2, <2>3
<1>5. QED
  BY <1>3, <1>4 DEF InOrder

(* ... and after one is received from it, which was ahead of the others.    *)
LEMMA OrderReceive ==
    ASSUME NEW R, NEW s \in Seq(Message), s # <<>>, InOrder(s, R)
    PROVE  /\ InOrder(Tail(s), R) /\ Ids(s) = {Head(s).id} \cup Ids(Tail(s))
           /\ {Head(s).id} \X Ids(Tail(s)) \subseteq R
<1>1. /\ Head(s) = s[1] /\ Tail(s) \in Seq(Message) /\ Len(Tail(s)) = Len(s) - 1
      /\ \A i \in 1 .. Len(Tail(s)) : Tail(s)[i] = s[i + 1]
  BY HeadTailProperties
<1>2. /\ Len(s) \in Nat /\ DOMAIN s = 1 .. Len(s)
      /\ DOMAIN Tail(s) = 1 .. (Len(s) - 1)
  BY <1>1, LenProperties, EmptySeq
<1>3. Ids(s) = {Head(s).id} \cup Ids(Tail(s))
  BY ReceiveFrom DEF Ids
<1>4. ASSUME NEW a \in DOMAIN Tail(s), NEW b \in DOMAIN Tail(s), a < b
      PROVE  <<Tail(s)[a].id, Tail(s)[b].id>> \in R
  <2>1. /\ a + 1 \in DOMAIN s /\ b + 1 \in DOMAIN s /\ a + 1 < b + 1
        /\ Tail(s)[a] = s[a + 1] /\ Tail(s)[b] = s[b + 1]
    BY <1>1, <1>2, <1>4
  <2>2. QED
    BY <2>1 DEF InOrder
<1>5. ASSUME NEW x \in Ids(Tail(s)) PROVE <<Head(s).id, x>> \in R
  <2>1. PICK b \in DOMAIN Tail(s) : x = Tail(s)[b].id
    BY <1>5 DEF Ids, ToSet
  <2>2. /\ 1 \in DOMAIN s /\ b + 1 \in DOMAIN s /\ 1 < b + 1 /\ Tail(s)[b] = s[b + 1]
    BY <1>1, <1>2, <2>1
  <2>3. QED
    BY <1>1, <2>1, <2>2 DEF InOrder
<1>6. QED
  BY <1>3, <1>4, <1>5 DEF InOrder

(* Dispatch: a message comes in behind all that came in before.             *)
LEMMA CameFirstGrows ==
    ASSUME NEW t \in Tag, NEW i \in Msg, entered \in [Tag -> Seq(Msg)],
           entered' = [entered EXCEPT ![t] = Append(@, i)]
    PROVE  /\ CameFirst(t) \subseteq CameFirst(t)'
           /\ ToSet(entered[t]) \X {i} \subseteq CameFirst(t)'
           /\ ToSet(entered'[t]) = ToSet(entered[t]) \cup {i}
           /\ \A s \in Tag : s # t => entered'[s] = entered[s]
<1>1. entered[t] \in Seq(Msg) /\ entered'[t] = Append(entered[t], i)
      /\ \A s \in Tag : s # t => entered'[s] = entered[s]
  OBVIOUS
<1>2. /\ \A k, j : Before(entered[t], k, j) => Before(entered'[t], k, j)
      /\ \A k \in ToSet(entered[t]) : Before(entered'[t], k, i)
  BY <1>1, BeforeGrows
<1>3. ToSet(entered'[t]) = ToSet(entered[t]) \cup {i} /\ ToSet(entered[t]) \subseteq Msg
  <2>1. ToSet(entered'[t]) = ToSet(entered[t]) \cup {i}
    BY <1>1, SendTo
  <2>2. ToSet(entered[t]) \subseteq Msg
    BY <1>1, LenProperties DEF ToSet
  <2>3. QED
    BY <2>1, <2>2
<1>4. QED
  BY <1>1, <1>2, <1>3 DEF CameFirst

(* What happens to one tag leaves the order of the others alone.            *)
LEMMA OrderElsewhere ==
    ASSUME OrderInv, NEW t \in Piped,
           entered'[t] = entered[t], left'[t] = left[t],
           lbChan'[PipeOf(t)] = lbChan[PipeOf(t)],
           \A f \in ParserFork : /\ forkChan'[<<PipeOf(t), f>>] = forkChan[<<PipeOf(t), f>>]
                                 /\ parser'[<<PipeOf(t), f>>] = parser[<<PipeOf(t), f>>]
    PROVE  PipeOrder(t)' /\ \A f \in ParserFork : ForkOrder(t, <<PipeOf(t), f>>)'
<1>1. CameFirst(t)' = CameFirst(t)
  BY DEF CameFirst
<1>2. PipeOrder(t)'
  BY <1>1 DEF OrderInv, PipeOrder, InOrder
<1>3. ASSUME NEW f \in ParserFork PROVE ForkOrder(t, <<PipeOf(t), f>>)'
  <2> DEFINE q == <<PipeOf(t), f>>
  <2>1. ForkOrder(t, q)
    BY DEF OrderInv
  <2>2. Held(q)' = Held(q) /\ forkChan'[q] = forkChan[q] /\ Parsing(q)' = Parsing(q)
    BY DEF Held, Parsing
  <2> HIDE DEF q
  <2>3. ForkOrder(t, q)'
    BY <1>1, <2>1, <2>2 DEF ForkOrder, InOrder
  <2>4. QED
    BY <2>3 DEF q
<1>4. QED
  BY <1>2, <1>3

(* A step that touches no pipeline keeps the order.                         *)
LEMMA OrderSame ==
    ASSUME OrderInv, UNCHANGED <<entered, left, queues>>
    PROVE  OrderInv'
<1>1. ASSUME NEW t \in Piped
      PROVE  PipeOrder(t)' /\ \A f \in ParserFork : ForkOrder(t, <<PipeOf(t), f>>)'
  BY OrderElsewhere DEF queues
<1>2. QED
  BY <1>1 DEF OrderInv, Piped

(* A dispatched message is behind all that came in before it.               *)
LEMMA DispatchOrder ==
    ASSUME Inv, OrderInv, NEW w \in Worker, Dispatch(w)
    PROVE  OrderInv'
<1>0. Typed /\ UNCHANGED <<left, forkChan, parser>>
  BY TypedIs DEF Inv, Dispatch
<1>m. PICK m \in Message : m = worker[w].msg
  BY Busy DEF Inv, Dispatch, At
<1> DEFINE t == m.tag
           i == m.id
           ch == ChannelOf(t)
           R2 == CameFirst(t)'
<1>1. t \in Tag /\ i \in Msg /\ worker[w].ch = ch
  BY <1>m, Busy DEF Inv, Dispatch, At, SpawnInv, Found, Message
<1>2. CASE UNCHANGED <<lbChan, entered>>
  BY <1>0, <1>2, OrderSame DEF queues
<1>3. CASE /\ ch # Direct
           /\ lbChan' = [lbChan EXCEPT ![ch] = Append(@, m)]
           /\ entered' = [entered EXCEPT ![t] = Append(@, i)]
  <2>1. t \in Piped /\ ch = PipeOf(t) /\ ch \in Pipeline
    BY <1>1, <1>3, OnePipeline DEF ChannelOf, Piped, PipeOf
  <2>2. /\ entered \in [Tag -> Seq(Msg)] /\ lbChan \in [Pipeline -> Seq(Message)]
        /\ forkChan \in [Pipeline \X ParserFork -> Seq(Message)]
    BY <1>0 DEF Typed, HistoryTypes, PipeTypes, ForkTypes
  <2>3. /\ CameFirst(t) \subseteq R2
        /\ ToSet(entered[t]) \X {i} \subseteq R2
        /\ ToSet(entered'[t]) = ToSet(entered[t]) \cup {i}
        /\ \A s \in Tag : s # t => entered'[s] = entered[s]
    BY <1>1, <1>3, <2>2, CameFirstGrows
  <2> DEFINE B == lbChan[PipeOf(t)]
             B2 == lbChan'[PipeOf(t)]
             E == ToSet(entered[t])
  <2>4. B2 = Append(B, m) /\ B \in Seq(Message)
    BY <1>3, <2>1, <2>2
  <2>5. PipeOrder(t)
    BY <2>1 DEF OrderInv
  <2>6. InOrder(B, R2) /\ Ids(B) \subseteq E
    BY <2>3, <2>5 DEF PipeOrder, InOrder
  <2> HIDE DEF R2
  <2>7. InOrder(B2, R2) /\ Ids(B2) = Ids(B) \cup {i}
    BY <1>1, <2>3, <2>4, <2>6, OrderSend
  <2>8. PipeOrder(t)'
    <3>1. \A a, b \in DOMAIN left[t] : a < b => <<left[t][a], left[t][b]>> \in R2
      BY <2>3, <2>5 DEF PipeOrder
    <3>2. /\ ToSet(left[t]) \cup Ids(B2) \subseteq ToSet(entered'[t])
          /\ ToSet(left[t]) \X Ids(B2) \subseteq R2
      BY <2>3, <2>5, <2>7 DEF PipeOrder
    <3>3. QED
      BY <1>0, <2>7, <3>1, <3>2 DEF PipeOrder, R2, InOrder
  <2>9. ASSUME NEW f \in ParserFork PROVE ForkOrder(t, <<PipeOf(t), f>>)'
    <3> DEFINE q == <<PipeOf(t), f>>
    <3>1. ForkOrder(t, q)
      BY <2>1 DEF OrderInv
    <3> HIDE DEF q
    <3>2. /\ Held(q)' = Held(q) /\ Parsing(q)' = Parsing(q)
          /\ Ids(forkChan'[q]) = Ids(forkChan[q])
      BY <1>0 DEF Held, Parsing
    <3>3. Parsing(q) \subseteq E
      BY <3>1 DEF ForkOrder
    <3>4. Parsing(q) \X Ids(B2) \subseteq R2
      BY <2>3, <2>7, <3>1, <3>3 DEF ForkOrder
    <3>5. /\ InOrder(forkChan[q], R2)
          /\ Parsing(q) \subseteq ToSet(entered'[t])
          /\ ToSet(left[t]) \X Parsing(q) \subseteq R2
          /\ Held(q) \X Ids(forkChan[q]) \subseteq R2
      BY <2>3, <3>1 DEF ForkOrder, InOrder
    <3>6. ForkOrder(t, q)'
      BY <1>0, <3>2, <3>4, <3>5 DEF ForkOrder, R2, InOrder
    <3>7. QED
      BY <3>6 DEF q
  <2>10. ASSUME NEW s \in Piped, s # t
         PROVE  PipeOrder(s)' /\ \A f \in ParserFork : ForkOrder(s, <<PipeOf(s), f>>)'
    <3>1. s \in Tag /\ PipeOf(s) \in Pipeline
      BY DispatcherAssumption DEF Piped
    <3>2. PipeOf(s) # ch
      BY <2>1, <2>10 DEF PipeOf
    <3>3. lbChan'[PipeOf(s)] = lbChan[PipeOf(s)] /\ entered'[s] = entered[s]
      BY <1>3, <2>2, <2>3, <2>10, <3>1, <3>2
    <3>4. QED
      BY <1>0, <3>3, OrderElsewhere
  <2>11. QED
    BY <1>0, <2>8, <2>9, <2>10 DEF OrderInv, Piped
<1>4. QED
  BY <1>m, <1>1, <1>2, <1>3 DEF Dispatch, MsgOf

(* The load balancer moves its oldest message behind those of the parser.   *)
LEMMA LBOrder ==
    ASSUME Typed, OrderInv, NEW p \in Pipeline, LB(p)
    PROVE  OrderInv'
<1>0. UNCHANGED <<left, entered, parser>>
  BY DEF LB, pipeRest
<1>m. PICK m \in Message : m = Head(lbChan[p])
  BY Balances
<1> DEFINE t == m.tag
           R == CameFirst(t)
           g == <<PipeOf(t), ForkOf[m.id]>>
           B == lbChan[p]
           B2 == Tail(lbChan[p])
<1>1. /\ m \in OfPipe(p) /\ m.id \in Msg
      /\ lbChan[p] # <<>> /\ lbChan[p] \in Seq(Message)
      /\ lbChan' = [lbChan EXCEPT ![p] = Tail(@)]
  BY Zenon, <1>m, Balances
<1>2. p = PipeOf(t)
  BY <1>1 DEF OfPipe, PipeOf
<1>3. /\ g \in Pipeline \X ParserFork
      /\ \/ forkChan' = [forkChan EXCEPT ![g] = Append(@, m)]
         \/ UNCHANGED forkChan
  BY Zenon, <1>m, <1>2, Balances
<1>4. /\ lbChan \in [Pipeline -> Seq(Message)]
      /\ forkChan \in [Pipeline \X ParserFork -> Seq(Message)]
  BY DEF Typed, PipeTypes, ForkTypes
<1>5. t \in Piped
  BY <1>2, <1>4 DEF Piped, PipeOf, Pipeline
<1>6. PipeOrder(t)
  BY SMTT(30), <1>5 DEF OrderInv
<1>7. /\ InOrder(B2, R) /\ Ids(B) = {m.id} \cup Ids(B2)
      /\ {m.id} \X Ids(B2) \subseteq R
  BY Zenon, <1>m, <1>1, <1>2, <1>6, OrderReceive DEF PipeOrder
<1>8. lbChan'[PipeOf(t)] = B2 /\ CameFirst(t)' = R /\ lbChan[PipeOf(t)] = B
  BY <1>0, <1>1, <1>2, <1>4 DEF CameFirst
<1> HIDE DEF R, g, B, B2
<1>9. PipeOrder(t)'
  BY <1>0, <1>6, <1>7, <1>8 DEF PipeOrder, R, InOrder
<1>10. ASSUME NEW f \in ParserFork PROVE ForkOrder(t, <<PipeOf(t), f>>)'
  <2> DEFINE q == <<PipeOf(t), f>>
             F == forkChan[q]
             F2 == forkChan'[q]
  <2>0. q \in Pipeline \X ParserFork
    BY <1>5 DEF Piped
  <2>1. ForkOrder(t, q)
    BY <1>5 DEF OrderInv
  <2>2. F \in Seq(Message) /\ (F2 = F \/ F2 = Append(F, m))
    BY <1>3, <1>4, <2>0
  <2> HIDE DEF q
  <2>3. /\ InOrder(F, R) /\ Held(q) \cup Ids(F) \subseteq ToSet(entered[t])
        /\ ToSet(left[t]) \X (Held(q) \cup Ids(F)) \subseteq R
        /\ (Held(q) \cup Ids(F)) \X Ids(B) \subseteq R
        /\ Held(q) \X Ids(F) \subseteq R
    BY <1>8, <2>1 DEF ForkOrder, Parsing, R
  <2> HIDE DEF F, F2
  <2>4. InOrder(F2, R) /\ Ids(F) \subseteq Ids(F2) /\ Ids(F2) \subseteq Ids(F) \cup {m.id}
    <3>1. Ids(F) \X {m.id} \subseteq R
      BY <1>7, <2>3
    <3>2. CASE F2 = Append(F, m)
      BY <2>2, <2>3, <3>1, <3>2, OrderSend
    <3>3. QED
      BY <2>2, <2>3, <3>2
  <2>5. /\ ToSet(left[t]) \X {m.id} \subseteq R /\ m.id \in ToSet(entered[t])
    BY <1>6, <1>7, <1>8 DEF PipeOrder, R
  <2>6. /\ Held(q) \cup Ids(F2) \subseteq ToSet(entered[t])
        /\ ToSet(left[t]) \X (Held(q) \cup Ids(F2)) \subseteq R
        /\ (Held(q) \cup Ids(F2)) \X Ids(B2) \subseteq R
        /\ Held(q) \X Ids(F2) \subseteq R
    BY <1>7, <2>3, <2>4, <2>5
  <2>7. Held(q)' = Held(q) /\ Parsing(q)' = Held(q) \cup Ids(F2)
    BY <1>0 DEF Held, Parsing, F2
  <2>8. ForkOrder(t, q)'
    BY <1>0, <1>8, <2>4, <2>6, <2>7 DEF ForkOrder, InOrder, F2
  <2>9. QED
    BY <2>8 DEF q
<1>11. ASSUME NEW s \in Piped, s # t
       PROVE  PipeOrder(s)' /\ \A f \in ParserFork : ForkOrder(s, <<PipeOf(s), f>>)'
  <2>1. PipeOf(s) \in Pipeline /\ PipeOf(s) # p
    BY <1>2, <1>11 DEF Piped, PipeOf
  <2>2. lbChan'[PipeOf(s)] = lbChan[PipeOf(s)]
    BY <1>1, <1>4, <2>1
  <2>3. \A f \in ParserFork : /\ <<PipeOf(s), f>> \in Pipeline \X ParserFork
                              /\ <<PipeOf(s), f>> # g
    BY <1>2, <2>1 DEF g
  <2>4. \A f \in ParserFork : forkChan'[<<PipeOf(s), f>>] = forkChan[<<PipeOf(s), f>>]
    BY <1>3, <1>4, <2>3
  <2>5. QED
    BY <1>0, <2>2, <2>4, OrderElsewhere
<1>12. QED
  BY SMTT(30), <1>0, <1>9, <1>10, <1>11 DEF OrderInv, Piped

(* A parser takes its oldest message.                                       *)
LEMMA ParserTakeOrder ==
    ASSUME Typed, OrderInv, NEW q \in Pipeline \X ParserFork, ParserTake(q)
    PROVE  OrderInv'
<1>0. UNCHANGED <<left, entered, lbChan>>
  BY DEF ParserTake, pipeRest
<1>m. PICK m \in Message : m = Head(forkChan[q])
  BY ParserTakes
<1> DEFINE t == q[1][1]
           R == CameFirst(t)
           B == lbChan[PipeOf(t)]
           F == forkChan[q]
           F2 == Tail(forkChan[q])
           L == ToSet(left[t])
           E == ToSet(entered[t])
<1>1. /\ m \in OfFork(q) /\ parser[q].pc = "select"
      /\ forkChan[q] # <<>> /\ forkChan[q] \in Seq(Message)
      /\ forkChan' = [forkChan EXCEPT ![q] = Tail(@)]
      /\ \E pc \in {"send", "discard"} :
            parser' = [parser EXCEPT ![q] = [pc |-> pc, msg |-> m]]
  BY <1>m, ParserTakes
<1>2. /\ q[1] \in Pipeline /\ q[2] \in ParserFork /\ q = <<q[1], q[2]>>
      /\ q[1] = <<m.tag, 1>>
  BY <1>1 DEF OfFork, OfPipe
<1>3. q = <<PipeOf(t), q[2]>> /\ t \in Piped
  BY <1>2 DEF PipeOf, Piped, Pipeline
<1>4. /\ forkChan \in [Pipeline \X ParserFork -> Seq(Message)]
      /\ DOMAIN parser = Pipeline \X ParserFork
  BY DEF Typed, ForkTypes, ParserTypes
<1>5. /\ forkChan'[q] = F2 /\ parser'[q].pc # "select" /\ parser'[q].msg = m
      /\ \A r \in Pipeline \X ParserFork : r # q =>
            forkChan'[r] = forkChan[r] /\ parser'[r] = parser[r]
  BY <1>1, <1>4
<1>6. ForkOrder(t, q)
  BY <1>2, <1>3 DEF OrderInv
<1>7. /\ InOrder(F2, R) /\ Ids(F) = {m.id} \cup Ids(F2)
      /\ {m.id} \X Ids(F2) \subseteq R
  BY ZenonT(60), <1>m, <1>1, <1>6, OrderReceive DEF ForkOrder
<1>8. CameFirst(t)' = R
  BY <1>0 DEF CameFirst
<1>9. /\ Held(q) = {} /\ Held(q)' = {m.id} /\ Parsing(q)' = Ids(F)
      /\ Parsing(q) = Ids(F)
  BY <1>1, <1>5, <1>7 DEF Held, Parsing
<1>10. ForkOrder(t, q)'
  <2> HIDE DEF R, F2, F
  <2>1. InOrder(forkChan'[q], R) /\ {m.id} \X Ids(forkChan'[q]) \subseteq R
    BY <1>5, <1>7
  <2>2. /\ Ids(F) \subseteq ToSet(entered[t])
        /\ ToSet(left[t]) \X Ids(F) \subseteq R
        /\ Ids(F) \X Ids(lbChan[PipeOf(t)]) \subseteq R
    BY <1>6, <1>9 DEF ForkOrder, R
  <2>3. QED
    BY <1>0, <1>8, <1>9, <2>1, <2>2 DEF ForkOrder, InOrder
<1>11. \A s \in Piped : PipeOrder(s)'
  BY <1>0 DEF OrderInv, PipeOrder, CameFirst, InOrder
<1>12. ASSUME NEW s \in Piped, NEW f \in ParserFork, <<PipeOf(s), f>> # q
       PROVE  ForkOrder(s, <<PipeOf(s), f>>)'
  <2>1. /\ <<PipeOf(s), f>> \in Pipeline \X ParserFork /\ ForkOrder(s, <<PipeOf(s), f>>)
    BY DEF Piped, OrderInv
  <2>2. PICK r \in Pipeline \X ParserFork : r = <<PipeOf(s), f>>
    BY <2>1
  <2>3. forkChan'[r] = forkChan[r] /\ parser'[r] = parser[r]
    BY <1>5, <1>12, <2>2
  <2>4. ForkOrder(s, r)'
    BY <1>0, <2>1, <2>2, <2>3 DEF ForkOrder, Parsing, Held, CameFirst, InOrder
  <2>5. QED
    BY <2>2, <2>4
<1>13. QED
  <2>1. \A s \in Piped, f \in ParserFork : ForkOrder(s, <<PipeOf(s), f>>)'
    <3>1. ASSUME NEW s \in Piped, NEW f \in ParserFork, <<PipeOf(s), f>> = q
          PROVE  ForkOrder(s, <<PipeOf(s), f>>)'
      <4>1. s = t
        BY <3>1 DEF PipeOf
      <4>2. QED
        BY <1>10, <3>1, <4>1
    <3>2. QED
      BY <1>12, <3>1
  <2>2. QED
    BY <1>0, <1>11, <2>1 DEF OrderInv, Piped

(* What a parser sends on came in before all that is still in the pipeline  *)
(* with its key: the other parsers hold other keys.                         *)
LEMMA ParserSendOrder ==
    ASSUME Typed, OrderInv, NEW q \in Pipeline \X ParserFork, ParserSend(q)
    PROVE  OrderInv'
<1>0. UNCHANGED <<entered, lbChan, forkChan>>
  BY DEF ParserSend, pipeRest
<1>m. PICK m \in Message : m = parser[q].msg
  BY ParserGives
<1> DEFINE t == q[1][1]
           i == m.id
           R == CameFirst(t)
           B == lbChan[PipeOf(t)]
           L == left[t]
           L2 == left'[t]
           E == ToSet(entered[t])
<1>1. /\ m \in OfFork(q) /\ i \in Msg /\ m.tag = t /\ t \in Supported /\ t \in Tag
      /\ parser[q].pc = "send"
      /\ left' = [left EXCEPT ![t] = Append(@, i)]
      /\ parser' = [parser EXCEPT ![q] = Idle]
  BY <1>m, ParserGives
<1>2. /\ q[1] \in Pipeline /\ q[2] \in ParserFork /\ q = <<q[1], q[2]>>
      /\ q[1] = <<t, 1>> /\ ForkOf[i] = q[2]
  BY <1>1 DEF OfFork, OfPipe
<1>3. q = <<PipeOf(t), q[2]>> /\ t \in Piped
  BY <1>1, <1>2 DEF PipeOf, Piped
<1>4. /\ left \in [Tag -> Seq(Msg)] /\ DOMAIN parser = Pipeline \X ParserFork
  BY DEF Typed, HistoryTypes, ParserTypes
<1>5. /\ L \in Seq(Msg) /\ L2 = Append(L, i) /\ parser'[q].pc = "select"
      /\ \A r \in Pipeline \X ParserFork : r # q => parser'[r] = parser[r]
      /\ \A s \in Tag : s # t => left'[s] = left[s]
  BY <1>1, <1>4 DEF Idle
<1>6. PipeOrder(t) /\ ForkOrder(t, q)
  BY <1>2, <1>3 DEF OrderInv
<1>7. Held(q) = {i} /\ Held(q)' = {} /\ i \in Parsing(q)
      /\ Parsing(q)' = Ids(forkChan[q]) /\ Ids(forkChan[q]) \subseteq Parsing(q)
  BY <1>m, <1>0, <1>1, <1>5 DEF Held, Parsing
<1>8. CameFirst(t)' = R
  BY <1>0 DEF CameFirst
<1>9. ToSet(L2) = ToSet(L) \cup {i}
  BY <1>1, <1>5, SendTo
<1>10. ToSet(L) \X {i} \subseteq R /\ i \in E /\ {i} \X Ids(B) \subseteq R
  BY <1>6, <1>7 DEF ForkOrder
<1>11. \A a, b \in DOMAIN L2 : a < b => <<L2[a], L2[b]>> \in R
  <2>1. /\ Len(L) \in Nat /\ DOMAIN L = 1 .. Len(L) /\ DOMAIN L2 = 1 .. (Len(L) + 1)
        /\ \A k \in 1 .. Len(L) : L2[k] = L[k]
        /\ L2[Len(L) + 1] = i
    BY <1>1, <1>5, AppendProperties, LenProperties
  <2>2. \A a, b \in DOMAIN L : a < b => <<L[a], L[b]>> \in R
    BY <1>6 DEF PipeOrder
  <2> HIDE DEF L, L2, R
  <2>3. ASSUME NEW a \in DOMAIN L2, NEW b \in DOMAIN L2, a < b
        PROVE  <<L2[a], L2[b]>> \in R
    <3>1. a \in 1 .. Len(L) /\ L2[a] = L[a]
      BY <2>1, <2>3
    <3>2. CASE b = Len(L) + 1
      <4>1. L[a] \in ToSet(L)
        BY <2>1, <3>1 DEF ToSet
      <4>2. QED
        BY <1>10, <2>1, <3>1, <3>2, <4>1
    <3>3. CASE b # Len(L) + 1
      BY <2>1, <2>2, <2>3, <3>1, <3>3
    <3>4. QED
      BY <3>2, <3>3
  <2>4. QED
    BY <2>3
<1>12. PipeOrder(t)'
  <2>1. /\ InOrder(B, R) /\ ToSet(L2) \cup Ids(B) \subseteq E
        /\ ToSet(L2) \X Ids(B) \subseteq R
    BY <1>6, <1>9, <1>10 DEF PipeOrder
  <2> HIDE DEF R
  <2>2. QED
    BY <1>0, <1>8, <1>11, <2>1 DEF PipeOrder, InOrder
<1>13. ForkOrder(t, q)'
  <2>1. /\ InOrder(forkChan[q], R) /\ Ids(forkChan[q]) \subseteq E
        /\ ToSet(L2) \X Ids(forkChan[q]) \subseteq R
        /\ Ids(forkChan[q]) \X Ids(B) \subseteq R
    BY <1>6, <1>7, <1>9 DEF ForkOrder
  <2> HIDE DEF R
  <2>2. QED
    BY <1>0, <1>7, <1>8, <2>1 DEF ForkOrder, InOrder
<1>14. ASSUME NEW f \in ParserFork, f # q[2] PROVE ForkOrder(t, <<PipeOf(t), f>>)'
  <2>1. PICK r \in Pipeline \X ParserFork : r = <<PipeOf(t), f>>
    BY <1>3 DEF Piped
  <2>2. ForkOrder(t, r) /\ r # q /\ r[2] = f
    BY <1>2, <1>3, <1>14, <2>1 DEF OrderInv
  <2>3. /\ Held(r)' = Held(r) /\ Parsing(r)' = Parsing(r)
    BY <1>0, <1>5, <2>2 DEF Held, Parsing
  <2>4. {i} \X Parsing(r) \subseteq R
    <3>1. ASSUME NEW x \in Parsing(r) PROVE x \in Msg /\ ForkOf[x] = f
      <4>1. PICK k \in OfFork(r) : x = k.id
        <5>1. CASE x \in Held(r)
          BY <5>1 DEF Held, Typed, ParserTypes
        <5>2. CASE x \in Ids(forkChan[r])
          <6>1. forkChan[r] \in Seq(OfFork(r))
            BY DEF Typed, ForkTypes
          <6>2. ToSet(forkChan[r]) \subseteq OfFork(r)
            BY <6>1, LenProperties DEF ToSet
          <6>3. QED
            BY <5>2, <6>2 DEF Ids
        <5>3. QED
          BY <3>1, <5>1, <5>2 DEF Parsing
      <4>2. QED
        BY <2>2, <4>1 DEF OfFork, OfPipe, Message
    <3>2. QED
      BY <1>1, <1>2, <1>14, <3>1 DEF CameFirst
  <2>5. /\ InOrder(forkChan[r], R) /\ Parsing(r) \subseteq E
        /\ ToSet(L2) \X Parsing(r) \subseteq R
        /\ Parsing(r) \X Ids(B) \subseteq R
        /\ Held(r) \X Ids(forkChan[r]) \subseteq R
    BY <1>9, <2>2, <2>4 DEF ForkOrder
  <2> HIDE DEF R
  <2>6. ForkOrder(t, r)'
    BY <1>0, <1>8, <2>3, <2>5 DEF ForkOrder, InOrder
  <2>7. QED
    BY <2>1, <2>6
<1>15. ASSUME NEW s \in Piped, s # t
       PROVE  PipeOrder(s)' /\ \A f \in ParserFork : ForkOrder(s, <<PipeOf(s), f>>)'
  <2>1. \A f \in ParserFork : /\ <<PipeOf(s), f>> \in Pipeline \X ParserFork
                              /\ <<PipeOf(s), f>> # q
    BY <1>3, <1>15 DEF Piped, PipeOf
  <2>2. \A f \in ParserFork : parser'[<<PipeOf(s), f>>] = parser[<<PipeOf(s), f>>]
    BY <1>5, <2>1
  <2>3. s \in Tag
    BY DispatcherAssumption DEF Piped
  <2>4. QED
    BY <1>0, <1>5, <1>15, <2>2, <2>3, OrderElsewhere
<1>16. \A s \in Tag : left'[s] # <<>> => s \in Piped
  BY <1>3, <1>5 DEF OrderInv
<1>17. ASSUME NEW f \in ParserFork PROVE ForkOrder(t, <<PipeOf(t), f>>)'
  <2>1. CASE f = q[2]
    BY <1>3, <1>13, <2>1
  <2>2. CASE f # q[2]
    BY <1>14, <2>2
  <2>3. QED
    BY <2>1, <2>2
<1>18. QED
  <2>1. \A s \in Piped : PipeOrder(s)'
    BY <1>12, <1>15
  <2>2. \A s \in Piped, f \in ParserFork : ForkOrder(s, <<PipeOf(s), f>>)'
    BY <1>15, <1>17
  <2>3. QED
    BY <1>16, <2>1, <2>2 DEF OrderInv, Piped

(* A discarded message leaves the order of the others alone.                *)
LEMMA ParserDiscardOrder ==
    ASSUME Typed, OrderInv, NEW q \in Pipeline \X ParserFork, ParserDiscard(q)
    PROVE  OrderInv'
<1>0. UNCHANGED <<entered, left, lbChan, forkChan>>
  BY DEF ParserDiscard, pipeRest
<1>1. DOMAIN parser = Pipeline \X ParserFork
  BY DEF Typed, ParserTypes
<1>2. \A r \in Pipeline \X ParserFork :
          Held(r)' \subseteq Held(r) /\ Parsing(r)' \subseteq Parsing(r)
  BY <1>0, <1>1 DEF ParserDiscard, Held, Parsing, Idle
<1>3. \A s \in Piped : PipeOrder(s)'
  BY <1>0 DEF OrderInv, PipeOrder, CameFirst, InOrder
<1>4. ASSUME NEW s \in Piped, NEW f \in ParserFork PROVE ForkOrder(s, <<PipeOf(s), f>>)'
  <2>1. PICK r \in Pipeline \X ParserFork : r = <<PipeOf(s), f>>
    BY DEF Piped
  <2>2. ForkOrder(s, r) /\ CameFirst(s)' = CameFirst(s)
    BY <1>0, <2>1 DEF OrderInv, CameFirst
  <2>3. ForkOrder(s, r)'
    BY <1>0, <1>2, <2>2 DEF ForkOrder, InOrder
  <2>4. QED
    BY <2>1, <2>3
<1>5. QED
  BY <1>0, <1>3, <1>4 DEF OrderInv, Piped

(* A start has nothing to order.                                            *)
LEMMA InitOrder == Init => OrderInv
<1> SUFFICES ASSUME Init PROVE OrderInv
  OBVIOUS
<1>1. <<>> \in Seq(Message) /\ ToSet(<<>>) = {} /\ DOMAIN <<>> = {}
  BY NewChan
<1>2. ASSUME NEW t \in Piped PROVE PipeOrder(t)
  <2>1. t \in Tag /\ PipeOf(t) \in Pipeline
    BY DispatcherAssumption DEF Piped
  <2>2. left[t] = <<>> /\ lbChan[PipeOf(t)] = <<>>
    BY <2>1 DEF Init, DispInit
  <2>3. QED
    BY <1>1, <2>2 DEF PipeOrder, InOrder, Ids
<1>3. ASSUME NEW t \in Piped, NEW f \in ParserFork PROVE ForkOrder(t, <<PipeOf(t), f>>)
  <2>1. PICK q \in Pipeline \X ParserFork : q = <<PipeOf(t), f>>
    BY DEF Piped
  <2>2. forkChan[q] = <<>> /\ parser[q].pc = "select"
    BY DEF Init, DispInit, Idle
  <2>3. Held(q) = {} /\ Ids(forkChan[q]) = {} /\ Parsing(q) = {}
    BY <1>1, <2>2 DEF Held, Parsing, Ids
  <2>4. ForkOrder(t, q)
    BY <1>1, <2>2, <2>3 DEF ForkOrder, InOrder
  <2>5. QED
    BY <2>1, <2>4
<1>4. \A t \in Tag : left[t] = <<>>
  BY DEF Init, DispInit
<1>5. QED
  BY <1>2, <1>3, <1>4 DEF OrderInv

(* Every step keeps the order.                                              *)
LEMMA NextOrder == Inv /\ OrderInv /\ [Next]_vars => OrderInv'
<1> SUFFICES ASSUME Inv, OrderInv, [Next]_vars PROVE OrderInv'
  OBVIOUS
<1>0. Typed
  BY TypedIs DEF Inv
<1>1. ASSUME NEW w \in Worker, WorkerStep(w) PROVE OrderInv'
  <2>1. CASE Dispatch(w)
    BY <2>1, DispatchOrder
  <2>2. CASE ~ Dispatch(w)
    BY <1>1, <2>2, OrderSame
       DEF WorkerStep, Receive, Load, Lock, Recheck, Spawn, Store, Unlock, LoadCounter,
           restVars
  <2>3. QED
    BY <2>1, <2>2
<1>2. CASE Arrive
  BY <1>2, OrderSame DEF Arrive
<1>3. ASSUME NEW q \in Pipeline \X ParserFork, ParserStep(q) PROVE OrderInv'
  BY <1>0, <1>3, ParserTakeOrder, ParserSendOrder, ParserDiscardOrder DEF ParserStep
<1>4. CASE Produce \/ Commit \/ (\E f \in PostFork : PostStep(f))
  BY <1>0, <1>4, PostTyped, OrderSame DEF Upstream
<1>5. CASE UNCHANGED vars
  BY <1>5, OrderSame DEF vars, dispVars
<1>6. QED
  BY <1>0, <1>1, <1>2, <1>3, <1>4, <1>5, LBOrder DEF Next, DispNext

(* A start has the invariant.                                               *)
LEMMA InitIInv == Init => IInv
  BY InitInv, InitOrder DEF IInv

(* Every step keeps the invariant.                                          *)
LEMMA NextIInv == IInv /\ [Next]_vars => IInv'
  BY NextInv, NextOrder DEF IInv

(* Messages of one tag and one lb_key value leave the pipeline of the tag   *)
(* in the order they came in, for any number of dispatchers and parsers.    *)
THEOREM KeysInOrder == Spec => []KeyOrder
<1>1. IInv => KeyOrder
  <2> SUFFICES ASSUME IInv, NEW t \in Tag, NEW i \in ToSet(left[t]),
                      NEW j \in ToSet(left[t]), ForkOf[i] = ForkOf[j],
                      Before(left[t], i, j)
               PROVE  Before(entered[t], i, j)
    BY DEF KeyOrder
  <2>1. PICK a, b \in DOMAIN left[t] : a < b /\ left[t][a] = i /\ left[t][b] = j
    BY DEF Before
  <2>2. left[t] # <<>>
    BY <2>1
  <2>3. PipeOrder(t)
    BY <2>2 DEF IInv, OrderInv
  <2>4. <<i, j>> \in CameFirst(t)
    BY <2>1, <2>3 DEF PipeOrder
  <2>5. QED
    BY <2>4 DEF CameFirst
<1>2. QED
  BY <1>1, InitIInv, NextIInv, PTL DEF Spec

-----------------------------------------------------------------------------
(* The places of messages.                                                  *)

(* A message that arrived is at one place, and no other message is at any.  *)
PlaceInv ==
    /\ \A l \in Place : IdsAt(l) \subseteq 1 .. arrived
    /\ \A i \in 1 .. arrived : \E l \in Place : \A p \in Place : i \in IdsAt(p) <=> p = l

(* No channel has a message twice.                                          *)
OnceInv ==
    /\ Once(inChan) /\ Once(outChan) /\ Once(commitChan) /\ Once(produceChan)
    /\ \A p \in Pipeline : Once(lbChan[p])
    /\ \A q \in Pipeline \X ParserFork : Once(forkChan[q])

LEMMA OnceSend ==
    ASSUME NEW s \in Seq(Message), NEW e \in Message
    PROVE  /\ Ids(Append(s, e)) = Ids(s) \cup {e.id}
           /\ Once(s) /\ e.id \notin Ids(s) => Once(Append(s, e))
<1> DEFINE t == Append(s, e)
<1>1. /\ Len(s) \in Nat /\ DOMAIN s = 1 .. Len(s) /\ DOMAIN t = 1 .. (Len(s) + 1)
      /\ \A a \in 1 .. Len(s) : t[a] = s[a] /\ s[a].id \in Ids(s)
      /\ t[Len(s) + 1] = e
  <2>1. /\ Len(s) \in Nat /\ DOMAIN s = 1 .. Len(s) /\ DOMAIN t = 1 .. (Len(s) + 1)
        /\ \A a \in 1 .. Len(s) : t[a] = s[a]
        /\ t[Len(s) + 1] = e
    BY AppendProperties, LenProperties
  <2>2. \A a \in 1 .. Len(s) : s[a] \in ToSet(s)
    BY InSeq
  <2>3. QED
    BY <2>1, <2>2 DEF Ids
<1>2. Ids(t) = Ids(s) \cup {e.id}
  BY SendTo DEF Ids
<1>3. ASSUME Once(s), e.id \notin Ids(s), NEW a \in DOMAIN t, NEW b \in DOMAIN t,
             t[a].id = t[b].id
      PROVE  a = b
  <2> HIDE DEF t
  <2>1. a \in 1 .. Len(s) \/ a = Len(s) + 1
    BY <1>1, <1>3
  <2>2. b \in 1 .. Len(s) \/ b = Len(s) + 1
    BY <1>1, <1>3
  <2>3. QED
    BY <1>1, <1>3, <2>1, <2>2 DEF Once
<1>4. QED
  BY <1>2, <1>3 DEF Once

LEMMA OnceReceive ==
    ASSUME NEW s \in Seq(Message), s # <<>>, Once(s)
    PROVE  /\ Head(s) \in Message /\ Head(s).id \in Ids(s) /\ Once(Tail(s))
           /\ Ids(Tail(s)) = Ids(s) \ {Head(s).id}
<1> DEFINE t == Tail(s)
<1>1. /\ t \in Seq(Message) /\ Len(s) \in Nat \ {0} /\ Len(t) = Len(s) - 1
      /\ Head(s) = s[1] /\ DOMAIN s = 1 .. Len(s) /\ DOMAIN t = 1 .. Len(t)
      /\ \A a \in 1 .. Len(t) : t[a] = s[a + 1]
  BY HeadTailProperties, LenProperties, EmptySeq
<1>2. Head(s) \in Message /\ ToSet(s) = {Head(s)} \cup ToSet(t)
  BY ReceiveFrom
<1>3. \A x \in ToSet(t) : \E a \in 1 .. Len(t) : x = t[a]
  <2>1. t \in Seq(Message)
    BY <1>1
  <2> HIDE DEF t
  <2>2. QED
    BY <2>1, InSeq
<1> HIDE DEF t
<1>4. \A a \in 1 .. Len(t) : a + 1 \in 1 .. Len(s) /\ a + 1 # 1
  BY <1>1
<1>5. 1 \in 1 .. Len(s)
  BY <1>1
<1>6. \A a \in 1 .. Len(t) : t[a].id # Head(s).id
  BY <1>1, <1>4, <1>5 DEF Once
<1>7. Head(s).id \notin Ids(t)
  BY <1>3, <1>6 DEF Ids
<1>8. Ids(s) = Ids(t) \cup {Head(s).id}
  BY <1>2 DEF Ids
<1>9. Once(t)
  <2>1. ASSUME NEW a \in 1 .. Len(t), NEW b \in 1 .. Len(t), t[a].id = t[b].id PROVE a = b
    <3>1. /\ a + 1 \in DOMAIN s /\ b + 1 \in DOMAIN s
          /\ s[a + 1].id = s[b + 1].id
      BY <1>1, <1>4, <2>1
    <3>2. a + 1 = b + 1
      BY <3>1 DEF Once
    <3>3. QED
      BY <3>2
  <2>2. QED
    BY <1>1, <2>1 DEF Once
<1>10. QED
  BY <1>2, <1>7, <1>8, <1>9 DEF t

(* The places by kind.                                                      *)
LEMMA PlaceIs ==
    /\ <<"inChan", None>> \in Place /\ <<"outChan", None>> \in Place
    /\ <<"commitChan", None>> \in Place /\ <<"produceChan", None>> \in Place
    /\ <<"produced", None>> \in Place /\ <<"committed", None>> \in Place
    /\ <<"blocked", None>> \in Place /\ <<"leaked", None>> \in Place
    /\ \A w \in Worker : <<"worker", w>> \in Place
    /\ \A p \in Pipeline : <<"lbChan", p>> \in Place
    /\ \A q \in Pipeline \X ParserFork : <<"forkChan", q>> \in Place /\ <<"parser", q>> \in Place
    /\ \A f \in PostFork : <<"post", f>> \in Place
BY DEF Place

(* What is at the places outside D stays.                                   *)
Still(D) ==
    /\ <<"inChan", None>> \in D \/ inChan' = inChan
    /\ <<"outChan", None>> \in D \/ outChan' = outChan
    /\ <<"commitChan", None>> \in D \/ commitChan' = commitChan
    /\ <<"produceChan", None>> \in D \/ produceChan' = produceChan
    /\ <<"produced", None>> \in D \/ produced' = produced
    /\ <<"committed", None>> \in D \/ committed' = committed
    /\ <<"blocked", None>> \in D \/ blocked' = blocked
    /\ <<"leaked", None>> \in D \/ leaked' = leaked
    /\ \A w \in Worker : <<"worker", w>> \in D \/ Holding(worker'[w]) = Holding(worker[w])
    /\ \A p \in Pipeline : <<"lbChan", p>> \in D \/ lbChan'[p] = lbChan[p]
    /\ \A q \in Pipeline \X ParserFork :
          /\ <<"forkChan", q>> \in D \/ forkChan'[q] = forkChan[q]
          /\ <<"parser", q>> \in D \/ parser'[q] = parser[q]
    /\ \A f \in PostFork : <<"post", f>> \in D \/ post'[f] = post[f]

LEMMA Elsewhere ==
    ASSUME NEW D, Still(D), NEW l \in Place, l \notin D
    PROVE  IdsAt(l)' = IdsAt(l)
<1>1. CASE l[1] \in {"inChan", "outChan", "commitChan", "produceChan"}
  <2>1. l = <<l[1], None>>
    BY <1>1 DEF Place
  <2>2. QED
    BY <1>1, <2>1 DEF Still, IdsAt
<1>2. CASE l[1] \in {"produced", "committed", "blocked", "leaked"}
  <2>1. l = <<l[1], None>>
    BY <1>2 DEF Place
  <2>2. QED
    BY <1>2, <2>1 DEF Still, IdsAt
<1>3. CASE l[1] = "worker"
  <2>1. l = <<l[1], l[2]>> /\ l[2] \in Worker
    BY <1>3 DEF Place
  <2>2. QED
    BY <1>3, <2>1 DEF Still, IdsAt
<1>4. CASE l[1] = "lbChan"
  <2>1. l = <<l[1], l[2]>> /\ l[2] \in Pipeline
    BY <1>4 DEF Place
  <2>2. QED
    BY <1>4, <2>1 DEF Still, IdsAt
<1>5. CASE l[1] \in {"forkChan", "parser"}
  <2>1. PICK q \in Pipeline \X ParserFork : l = <<"forkChan", q>> \/ l = <<"parser", q>>
    BY <1>5 DEF Place
  <2>2. CASE l = <<"forkChan", q>>
    <3>1. forkChan'[q] = forkChan[q]
      BY <2>2 DEF Still
    <3>2. QED
      BY <2>2, <3>1 DEF IdsAt
  <2>3. CASE l = <<"parser", q>>
    <3>1. parser'[q] = parser[q]
      BY <2>3 DEF Still
    <3>2. QED
      BY <2>3, <3>1 DEF IdsAt
  <2>4. QED
    BY <2>1, <2>2, <2>3
<1>6. CASE l[1] = "post"
  <2>1. l = <<l[1], l[2]>> /\ l[2] \in PostFork
    BY <1>6 DEF Place
  <2>2. QED
    BY <1>6, <2>1 DEF Still, IdsAt
<1>7. l[1] \in {"inChan", "outChan", "commitChan", "produceChan", "produced", "committed",
                "blocked", "leaked", "worker", "lbChan", "forkChan", "parser", "post"}
  BY DEF Place
<1>8. QED
  BY <1>1, <1>2, <1>3, <1>4, <1>5, <1>6, <1>7

(* A message goes from a place to another.                                  *)
Carried(i, from, to) ==
    /\ IdsAt(from)' = IdsAt(from) \ {i} /\ IdsAt(to)' = IdsAt(to) \cup {i}
    /\ Still({from, to})
    /\ arrived' = arrived

LEMMA CarriedKeeps ==
    ASSUME PlaceInv, NEW from \in Place, NEW to \in Place, from # to,
           NEW i \in IdsAt(from), Carried(i, from, to)
    PROVE  PlaceInv'
<1>1. i \in 1 .. arrived /\ \A p \in Place : i \in IdsAt(p) => p = from
  BY DEF PlaceInv
<1>2. \A l \in Place : l # from /\ l # to => IdsAt(l)' = IdsAt(l)
  BY Elsewhere DEF Carried
<1>3. IdsAt(from)' = IdsAt(from) \ {i} /\ IdsAt(to)' = IdsAt(to) \cup {i} /\ arrived' = arrived
  BY DEF Carried
<1>4. \A l \in Place : IdsAt(l)' \subseteq 1 .. arrived
  BY <1>1, <1>2, <1>3 DEF PlaceInv
<1>5. ASSUME NEW j \in 1 .. arrived
      PROVE  \E l \in Place : \A p \in Place : j \in IdsAt(p)' <=> p = l
  <2>1. CASE j = i
    BY <1>1, <1>2, <1>3, <2>1
  <2>2. CASE j # i
    <3>1. \A p \in Place : j \in IdsAt(p)' <=> j \in IdsAt(p)
      BY <1>2, <1>3, <2>2
    <3>2. PICK l \in Place : \A p \in Place : j \in IdsAt(p) <=> p = l
      BY DEF PlaceInv
    <3>3. QED
      BY <3>1, <3>2
  <2>3. QED
    BY <2>1, <2>2
<1>6. QED
  BY <1>3, <1>4, <1>5 DEF PlaceInv

(* Whoever is at a place is at no other.                                    *)
LEMMA NotThere ==
    ASSUME PlaceInv, NEW from \in Place, NEW to \in Place, from # to, NEW i \in IdsAt(from)
    PROVE  i \notin IdsAt(to)
BY DEF PlaceInv

(* No message goes anywhere.                                                *)
LEMMA StillKeeps ==
    ASSUME PlaceInv, Still({}), arrived' = arrived
    PROVE  PlaceInv'
<1>1. \A l \in Place : IdsAt(l)' = IdsAt(l)
  BY Elsewhere
<1>2. QED
  BY <1>1 DEF PlaceInv

(* A message is not None, so whoever has one holds it.                      *)
LEMMA HoldsOne ==
    ASSUME NEW x
    PROVE  /\ x.msg \in Message => Holding(x) = {x.msg.id}
           /\ x.msg = None => Holding(x) = {}
BY DispatcherAssumption DEF Holding

(* The journal sends a new message on.                                      *)
LEMMA ArrivePlaces ==
    ASSUME Typed, PlaceInv, OnceInv, Arrive, UNCHANGED postVars
    PROVE  PlaceInv' /\ OnceInv'
<1> DEFINE l == <<"inChan", None>>
           i == arrived + 1
<1>1. /\ NewMsg(i) \in Message /\ NewMsg(i).id = i /\ i \in Nat
      /\ inChan \in Seq(Message) /\ inChan' = Append(inChan, NewMsg(i)) /\ arrived' = i
  <2>1. arrived \in 0 .. NMsg /\ NMsg \in Nat /\ arrived < NMsg
    BY DispatcherAssumption DEF Typed, InTypes, Arrive
  <2>2. i \in Msg
    BY <2>1 DEF Msg
  <2>3. NewMsg(i) \in Message /\ NewMsg(i).id = i
    BY <2>2, DispatcherAssumption DEF NewMsg, Message
  <2>4. inChan \in Seq(Message)
    <3>1. Tagged \subseteq Message
      BY DEF Tagged
    <3>2. QED
      BY <3>1, SeqMonotonic DEF Typed, InTypes
  <2>5. QED
    BY <2>1, <2>3, <2>4 DEF Arrive
<1>2. arrived \in Nat
  BY DEF Typed, InTypes
<1>3. l \in Place /\ IdsAt(l) = Ids(inChan)
  BY PlaceIs DEF IdsAt
<1>4. i \notin Ids(inChan)
  BY <1>2, <1>3 DEF PlaceInv
<1>5. IdsAt(l)' = IdsAt(l) \cup {i} /\ Once(inChan')
  <2>1. Ids(inChan') = Ids(inChan) \cup {i} /\ Once(inChan')
    BY <1>1, <1>4, OnceSend DEF OnceInv
  <2>2. QED
    BY <1>3, <2>1 DEF IdsAt
<1>6. \A p \in Place : p # l => IdsAt(p)' = IdsAt(p)
  <2>1. Still({l})
    BY DEF Arrive, maps, queues, postVars, Still
  <2> HIDE DEF l
  <2>2. QED
    BY <2>1, Elsewhere
<1>7. PlaceInv'
  <2> HIDE DEF l, i
  <2>1. i \in 1 .. i /\ 1 .. i = (1 .. arrived) \cup {i} /\ i \notin 1 .. arrived
    BY <1>1, <1>2 DEF i
  <2>2. \A p \in Place : IdsAt(p)' \subseteq 1 .. i
    BY <1>5, <1>6, <2>1 DEF PlaceInv
  <2>3. ASSUME NEW j \in 1 .. i
        PROVE  \E m \in Place : \A p \in Place : j \in IdsAt(p)' <=> p = m
    <3>1. CASE j = i
      BY <1>3, <1>5, <1>6, <2>1, <3>1 DEF PlaceInv
    <3>2. CASE j # i
      <4>1. \A p \in Place : j \in IdsAt(p)' <=> j \in IdsAt(p)
        BY <1>5, <1>6, <3>2
      <4>2. j \in 1 .. arrived
        BY <2>1, <3>2
      <4>3. PICK m \in Place : \A p \in Place : j \in IdsAt(p) <=> p = m
        BY <4>2 DEF PlaceInv
      <4>4. QED
        BY <4>1, <4>3
    <3>3. QED
      BY <3>1, <3>2
  <2>4. QED
    BY <1>1, <2>2, <2>3 DEF PlaceInv
<1>8. OnceInv'
  BY <1>5 DEF Arrive, queues, postVars, OnceInv
<1>9. QED
  BY <1>7, <1>8

(* A worker takes a message.                                                *)
LEMMA ReceivePlaces ==
    ASSUME Inv, PlaceInv, OnceInv, NEW w \in Worker, Receive(w), UNCHANGED postVars
    PROVE  PlaceInv' /\ OnceInv'
<1> DEFINE from == <<"inChan", None>>
           to == <<"worker", w>>
<1>0. PICK m : m = Head(inChan)
  OBVIOUS
<1>1. /\ inChan \in Seq(Message) /\ inChan # <<>> /\ inChan' = Tail(inChan)
      /\ worker[w].msg = None /\ worker'[w].msg = m
      /\ \A v \in Worker : v # w => worker'[v] = worker[v]
  BY <1>0, Takes DEF Inv, MsgInv, TypeOK, DispTypeOK, Receive, Moved
<1>2. /\ m \in Message /\ m.id \in Ids(inChan) /\ Once(inChan')
      /\ Ids(inChan') = Ids(inChan) \ {m.id}
  BY <1>0, <1>1, OnceReceive DEF OnceInv
<1>3. /\ from \in Place /\ to \in Place /\ from # to
      /\ m.id \in IdsAt(from) /\ IdsAt(from)' = IdsAt(from) \ {m.id}
  BY <1>2, PlaceIs DEF IdsAt
<1>4. IdsAt(to)' = IdsAt(to) \cup {m.id}
  <2>1. Holding(worker'[w]) = {m.id} /\ Holding(worker[w]) = {}
    BY <1>1, <1>2, HoldsOne
  <2>2. QED
    BY <2>1 DEF IdsAt
<1>5. Still({from, to})
  BY <1>1 DEF Receive, restVars, queues, postVars, Still
<1>6. arrived' = arrived
  BY DEF Receive, restVars
<1> HIDE DEF from, to
<1>7. Carried(m.id, from, to)
  BY <1>3, <1>4, <1>5, <1>6 DEF Carried
<1>8. PlaceInv'
  BY <1>3, <1>7, CarriedKeeps
<1>9. OnceInv'
  BY <1>2 DEF Receive, restVars, queues, postVars, OnceInv
<1>10. QED
  BY <1>8, <1>9

(* A worker goes on with the message it has.                                *)
LEMMA GoPlaces ==
    ASSUME Inv, PlaceInv, OnceInv, NEW w \in Worker, WorkerStep(w),
           ~Receive(w), ~Dispatch(w), UNCHANGED postVars
    PROVE  PlaceInv' /\ OnceInv'
<1>1. worker \in [Worker -> WorkerState]
  BY Busy DEF Inv
<1>2. UNCHANGED <<inChan, restVars>>
  BY DEF WorkerStep, Load, Lock, Recheck, Spawn, Store, Unlock, LoadCounter
<1>3. UNCHANGED worker \/ \E pc, ch : Becomes(w, pc, worker[w].msg, ch)
  BY DEF WorkerStep, Load, Lock, Recheck, Spawn, Store, Unlock, LoadCounter, Go, GoWith, MsgOf
<1>4. \A v \in Worker : worker'[v].msg = worker[v].msg
  BY <1>1, <1>3 DEF Becomes, WorkerState
<1>5. Still({})
  BY <1>2, <1>4 DEF restVars, queues, postVars, Still, Holding
<1>6. PlaceInv'
  BY <1>2, <1>5, StillKeeps DEF restVars
<1>7. OnceInv'
  BY <1>2 DEF restVars, queues, postVars, OnceInv
<1>8. QED
  BY <1>6, <1>7

(* A worker hands its message over, or throws it away.                      *)
LEMMA DispatchPlaces ==
    ASSUME Inv, PlaceInv, OnceInv, NEW w \in Worker, Dispatch(w), UNCHANGED postVars
    PROVE  PlaceInv' /\ OnceInv'
<1> DEFINE from == <<"worker", w>>
<1>0. PICK m, ch : m = worker[w].msg /\ ch = worker[w].ch
  OBVIOUS
<1>1. /\ m \in Message /\ ch = ChannelOf(m.tag)
      /\ worker'[w].msg = None
      /\ \A v \in Worker : v # w => worker'[v] = worker[v]
      /\ outChan \in Seq(Message) /\ \A p \in Pipeline : lbChan[p] \in Seq(Message)
  BY <1>0, Busy, Takes
     DEF Inv, Dispatch, At, SpawnInv, Found, TypeOK, DispTypeOK, Moved
<1>2. /\ UNCHANGED <<arrived, inChan, forkChan, parser, commitChan>>
      /\ \/ /\ ch = Direct /\ outChan' = Append(outChan, m)
            /\ UNCHANGED <<lbChan, blocked>>
         \/ /\ ch # Direct /\ lbChan' = [lbChan EXCEPT ![ch] = Append(@, m)]
            /\ UNCHANGED <<outChan, blocked>>
         \/ blocked' = blocked \cup {m.id} /\ UNCHANGED <<lbChan, outChan>>
  BY <1>0 DEF Dispatch, MsgOf
<1>3. /\ from \in Place /\ m.id \in IdsAt(from)
      /\ IdsAt(from)' = IdsAt(from) \ {m.id}
  <2>1. Holding(worker[w]) = {m.id} /\ Holding(worker'[w]) = {}
    BY <1>0, <1>1, HoldsOne
  <2>2. QED
    BY <2>1, PlaceIs DEF IdsAt
<1>4. CASE outChan' = Append(outChan, m) /\ UNCHANGED <<lbChan, blocked>>
  <2> DEFINE to == <<"outChan", None>>
  <2>1. to \in Place /\ from # to
    BY PlaceIs
  <2>2. IdsAt(to) = Ids(outChan) /\ IdsAt(to)' = Ids(outChan')
    BY DEF IdsAt
  <2>3. m.id \notin Ids(outChan)
    BY <1>3, <2>1, <2>2, NotThere
  <2>4. Ids(outChan') = Ids(outChan) \cup {m.id} /\ Once(outChan')
    BY <1>1, <1>4, <2>3, OnceSend DEF OnceInv
  <2>5. Still({from, to})
    BY <1>1, <1>2, <1>4 DEF postVars, Still
  <2> HIDE DEF from, to
  <2>6. Carried(m.id, from, to)
    BY <1>2, <1>3, <2>2, <2>4, <2>5 DEF Carried
  <2>7. PlaceInv'
    BY <1>3, <2>1, <2>6, CarriedKeeps
  <2>8. OnceInv'
    BY <1>2, <1>4, <2>4 DEF postVars, OnceInv
  <2>9. QED
    BY <2>7, <2>8
<1>5. CASE /\ ch # Direct /\ lbChan' = [lbChan EXCEPT ![ch] = Append(@, m)]
           /\ UNCHANGED <<outChan, blocked>>
  <2> DEFINE to == <<"lbChan", ch>>
  <2>1. ch \in Pipeline /\ to \in Place /\ from # to
    BY <1>1, <1>5, OnePipeline, PlaceIs DEF ChannelOf
  <2>a. /\ lbChan'[ch] = Append(lbChan[ch], m)
        /\ \A p \in Pipeline : p # ch => lbChan'[p] = lbChan[p]
    BY <1>5, <2>1 DEF Inv, TypeOK, DispTypeOK
  <2>2. IdsAt(to) = Ids(lbChan[ch]) /\ IdsAt(to)' = Ids(lbChan'[ch])
    BY DEF IdsAt
  <2>3. m.id \notin Ids(lbChan[ch])
    BY <1>3, <2>1, <2>2, NotThere
  <2>4. Ids(lbChan'[ch]) = Ids(lbChan[ch]) \cup {m.id} /\ Once(lbChan'[ch])
    BY <1>1, <2>a, <2>1, <2>3, OnceSend DEF OnceInv
  <2>5. Still({from, to})
    BY <1>1, <1>2, <1>5, <2>a DEF postVars, Still
  <2> HIDE DEF from, to
  <2>6. Carried(m.id, from, to)
    BY <1>2, <1>3, <2>2, <2>4, <2>5 DEF Carried
  <2>7. PlaceInv'
    BY <1>3, <2>1, <2>6, CarriedKeeps
  <2>8. OnceInv'
    BY <1>2, <1>5, <2>a, <2>4 DEF postVars, OnceInv
  <2>9. QED
    BY <2>7, <2>8
<1>6. CASE blocked' = blocked \cup {m.id} /\ UNCHANGED <<lbChan, outChan>>
  <2> DEFINE to == <<"blocked", None>>
  <2>1. to \in Place /\ from # to
    BY PlaceIs
  <2>2. IdsAt(to)' = IdsAt(to) \cup {m.id}
    BY <1>6 DEF IdsAt
  <2>3. Still({from, to})
    BY <1>1, <1>2, <1>6 DEF postVars, Still
  <2> HIDE DEF from, to
  <2>4. Carried(m.id, from, to)
    BY <1>2, <1>3, <2>2, <2>3 DEF Carried
  <2>5. PlaceInv'
    BY <1>3, <2>1, <2>4, CarriedKeeps
  <2>6. OnceInv'
    BY <1>2, <1>6 DEF postVars, OnceInv
  <2>7. QED
    BY <2>5, <2>6
<1>7. QED
  BY <1>2, <1>4, <1>5, <1>6

(* A load balancer hands a message over, or throws it away.                 *)
LEMMA LBPlaces ==
    ASSUME Typed, PlaceInv, OnceInv, NEW p \in Pipeline, LB(p), UNCHANGED postVars
    PROVE  PlaceInv' /\ OnceInv'
<1> DEFINE from == <<"lbChan", p>>
<1>0. PICK m : m = Head(lbChan[p])
  OBVIOUS
<1>a. PICK q : q = <<p, ForkOf[m.id]>>
  OBVIOUS
<1>1. /\ m \in Message /\ q \in Pipeline \X ParserFork
      /\ lbChan[p] # <<>> /\ lbChan[p] \in Seq(Message) /\ forkChan[q] \in Seq(Message)
      /\ lbChan' = [lbChan EXCEPT ![p] = Tail(@)]
      /\ \/ /\ forkChan' = [forkChan EXCEPT ![q] = Append(@, m)]
            /\ UNCHANGED blocked
         \/ blocked' = blocked \cup {m.id} /\ UNCHANGED forkChan
  BY <1>0, <1>a, Balances DEF Typed, ForkTypes
<1>2. /\ lbChan'[p] = Tail(lbChan[p])
      /\ \A r \in Pipeline : r # p => lbChan'[r] = lbChan[r]
  BY <1>1 DEF Typed, PipeTypes
<1>3. /\ m.id \in Ids(lbChan[p]) /\ Once(lbChan'[p])
      /\ Ids(lbChan'[p]) = Ids(lbChan[p]) \ {m.id}
  BY <1>0, <1>1, <1>2, OnceReceive DEF OnceInv
<1>4. /\ from \in Place /\ m.id \in IdsAt(from)
      /\ IdsAt(from)' = IdsAt(from) \ {m.id}
  BY <1>3, PlaceIs DEF IdsAt
<1>5. UNCHANGED <<arrived, inChan, worker, parser, outChan, commitChan>>
  BY DEF LB, pipeRest
<1>6. CASE forkChan' = [forkChan EXCEPT ![q] = Append(@, m)] /\ UNCHANGED blocked
  <2> DEFINE to == <<"forkChan", q>>
  <2>1. to \in Place /\ from # to
    BY <1>1, PlaceIs
  <2>2. /\ forkChan'[q] = Append(forkChan[q], m)
        /\ \A r \in Pipeline \X ParserFork : r # q => forkChan'[r] = forkChan[r]
    BY <1>1, <1>6 DEF Typed, ForkTypes
  <2>3. IdsAt(to) = Ids(forkChan[q]) /\ IdsAt(to)' = Ids(forkChan'[q])
    BY DEF IdsAt
  <2>4. m.id \notin Ids(forkChan[q])
    BY <1>4, <2>1, <2>3, NotThere
  <2>5. Ids(forkChan'[q]) = Ids(forkChan[q]) \cup {m.id} /\ Once(forkChan'[q])
    BY <1>1, <2>2, <2>4, OnceSend DEF OnceInv
  <2>6. Still({from, to})
    BY <1>2, <1>5, <1>6, <2>2 DEF postVars, Still
  <2> HIDE DEF from, to
  <2>7. Carried(m.id, from, to)
    BY <1>4, <1>5, <2>3, <2>5, <2>6 DEF Carried
  <2>8. PlaceInv'
    BY <1>4, <2>1, <2>7, CarriedKeeps
  <2>9. OnceInv'
    BY <1>2, <1>3, <1>5, <2>2, <2>5 DEF postVars, OnceInv
  <2>10. QED
    BY <2>8, <2>9
<1>7. CASE blocked' = blocked \cup {m.id} /\ UNCHANGED forkChan
  <2> DEFINE to == <<"blocked", None>>
  <2>1. to \in Place /\ from # to
    BY PlaceIs
  <2>2. IdsAt(to)' = IdsAt(to) \cup {m.id}
    BY <1>7 DEF IdsAt
  <2>3. Still({from, to})
    BY <1>2, <1>5, <1>7 DEF postVars, Still
  <2> HIDE DEF from, to
  <2>4. Carried(m.id, from, to)
    BY <1>4, <1>5, <2>2, <2>3 DEF Carried
  <2>5. PlaceInv'
    BY <1>4, <2>1, <2>4, CarriedKeeps
  <2>6. OnceInv'
    BY <1>2, <1>3, <1>5, <1>7 DEF postVars, OnceInv
  <2>7. QED
    BY <2>5, <2>6
<1>8. QED
  BY <1>1, <1>6, <1>7

(* A parser takes a message.                                                *)
LEMMA ParserTakePlaces ==
    ASSUME Typed, PlaceInv, OnceInv, NEW q \in Pipeline \X ParserFork, ParserTake(q),
           UNCHANGED postVars
    PROVE  PlaceInv' /\ OnceInv'
<1> DEFINE from == <<"forkChan", q>>
           to == <<"parser", q>>
<1>0. PICK m : m = Head(forkChan[q])
  OBVIOUS
<1>1. /\ m \in Message /\ parser[q].msg = None
      /\ forkChan[q] # <<>> /\ forkChan[q] \in Seq(Message)
      /\ forkChan' = [forkChan EXCEPT ![q] = Tail(@)]
      /\ \E pc \in {"send", "discard"} :
            parser' = [parser EXCEPT ![q] = [pc |-> pc, msg |-> m]]
  BY <1>0, ParserTakes DEF Typed, ParserTypes
<1>2. /\ forkChan'[q] = Tail(forkChan[q])
      /\ \A r \in Pipeline \X ParserFork : r # q => /\ forkChan'[r] = forkChan[r]
                                                    /\ parser'[r] = parser[r]
      /\ parser'[q].msg = m
  BY <1>1 DEF Typed, ForkTypes, ParserTypes
<1>3. /\ m.id \in Ids(forkChan[q]) /\ Once(forkChan'[q])
      /\ Ids(forkChan'[q]) = Ids(forkChan[q]) \ {m.id}
  BY <1>0, <1>1, <1>2, OnceReceive DEF OnceInv
<1>4. /\ from \in Place /\ to \in Place /\ from # to /\ m.id \in IdsAt(from)
      /\ IdsAt(from)' = IdsAt(from) \ {m.id}
  BY <1>3, PlaceIs DEF IdsAt
<1>5. IdsAt(to)' = IdsAt(to) \cup {m.id}
  <2>1. Holding(parser'[q]) = {m.id} /\ Holding(parser[q]) = {}
    BY <1>1, <1>2, HoldsOne
  <2>2. QED
    BY <2>1 DEF IdsAt
<1>6. UNCHANGED <<arrived, inChan, worker, lbChan, outChan, commitChan, blocked>>
  BY DEF ParserTake, pipeRest
<1>7. Still({from, to})
  BY <1>2, <1>6 DEF postVars, Still
<1> HIDE DEF from, to
<1>8. Carried(m.id, from, to)
  BY <1>4, <1>5, <1>6, <1>7 DEF Carried
<1>9. PlaceInv'
  BY <1>4, <1>8, CarriedKeeps
<1>10. OnceInv'
  BY <1>2, <1>3, <1>6 DEF postVars, OnceInv
<1>11. QED
  BY <1>9, <1>10

(* A parser sends its message on.                                           *)
LEMMA ParserSendPlaces ==
    ASSUME Typed, PlaceInv, OnceInv, NEW q \in Pipeline \X ParserFork, ParserSend(q),
           UNCHANGED postVars
    PROVE  PlaceInv' /\ OnceInv'
<1> DEFINE from == <<"parser", q>>
           to == <<"outChan", None>>
<1>0. PICK m : m = parser[q].msg
  OBVIOUS
<1>1. /\ m \in Message /\ outChan \in Seq(Message) /\ outChan' = Append(outChan, m)
      /\ parser' = [parser EXCEPT ![q] = Idle]
  BY <1>0, ParserGives DEF Typed, OutTypes
<1>2. /\ parser'[q].msg = None
      /\ \A r \in Pipeline \X ParserFork : r # q => parser'[r] = parser[r]
  BY <1>1 DEF Typed, ParserTypes, Idle
<1>3. /\ from \in Place /\ to \in Place /\ from # to /\ m.id \in IdsAt(from)
      /\ IdsAt(from)' = IdsAt(from) \ {m.id}
  <2>1. Holding(parser[q]) = {m.id} /\ Holding(parser'[q]) = {}
    BY <1>0, <1>1, <1>2, HoldsOne
  <2>2. QED
    BY <2>1, PlaceIs DEF IdsAt
<1>4. IdsAt(to) = Ids(outChan) /\ IdsAt(to)' = Ids(outChan')
  BY DEF IdsAt
<1>5. m.id \notin Ids(outChan)
  BY <1>3, <1>4, NotThere
<1>6. Ids(outChan') = Ids(outChan) \cup {m.id} /\ Once(outChan')
  BY <1>1, <1>5, OnceSend DEF OnceInv
<1>7. UNCHANGED <<arrived, inChan, worker, lbChan, forkChan, commitChan, blocked>>
  BY DEF ParserSend, pipeRest
<1>8. Still({from, to})
  BY <1>2, <1>7 DEF postVars, Still
<1> HIDE DEF from, to
<1>9. Carried(m.id, from, to)
  BY <1>3, <1>4, <1>6, <1>7, <1>8 DEF Carried
<1>10. PlaceInv'
  BY <1>3, <1>9, CarriedKeeps
<1>11. OnceInv'
  BY <1>6, <1>7 DEF postVars, OnceInv
<1>12. QED
  BY <1>10, <1>11

(* A parser hands its message to the journal.                               *)
LEMMA ParserDiscardPlaces ==
    ASSUME Typed, PlaceInv, OnceInv, NEW q \in Pipeline \X ParserFork, ParserDiscard(q),
           UNCHANGED postVars
    PROVE  PlaceInv' /\ OnceInv'
<1> DEFINE from == <<"parser", q>>
           to == <<"commitChan", None>>
<1>0. PICK m : m = parser[q].msg
  OBVIOUS
<1>1. /\ m \in Message /\ commitChan \in Seq(Message) /\ commitChan' = Append(commitChan, m)
      /\ parser' = [parser EXCEPT ![q] = Idle]
  BY <1>0, ParserGives DEF Typed, OutTypes, ParserDiscard
<1>2. /\ parser'[q].msg = None
      /\ \A r \in Pipeline \X ParserFork : r # q => parser'[r] = parser[r]
  BY <1>1 DEF Typed, ParserTypes, Idle
<1>3. /\ from \in Place /\ to \in Place /\ from # to /\ m.id \in IdsAt(from)
      /\ IdsAt(from)' = IdsAt(from) \ {m.id}
  <2>1. Holding(parser[q]) = {m.id} /\ Holding(parser'[q]) = {}
    BY <1>0, <1>1, <1>2, HoldsOne
  <2>2. QED
    BY <2>1, PlaceIs DEF IdsAt
<1>4. IdsAt(to) = Ids(commitChan) /\ IdsAt(to)' = Ids(commitChan')
  BY DEF IdsAt
<1>5. m.id \notin Ids(commitChan)
  BY <1>3, <1>4, NotThere
<1>6. Ids(commitChan') = Ids(commitChan) \cup {m.id} /\ Once(commitChan')
  BY <1>1, <1>5, OnceSend DEF OnceInv
<1>7. UNCHANGED <<arrived, inChan, worker, lbChan, forkChan, outChan, blocked>>
  BY DEF ParserDiscard, pipeRest
<1>8. Still({from, to})
  BY <1>2, <1>7 DEF postVars, Still
<1> HIDE DEF from, to
<1>9. Carried(m.id, from, to)
  BY <1>3, <1>4, <1>6, <1>7, <1>8 DEF Carried
<1>10. PlaceInv'
  BY <1>3, <1>9, CarriedKeeps
<1>11. OnceInv'
  BY <1>6, <1>7 DEF postVars, OnceInv
<1>12. QED
  BY <1>10, <1>11

(* A post filter worker takes a message: the filters return it, or nil.     *)
LEMMA PostTakePlaces ==
    ASSUME Typed, PlaceInv, OnceInv, NEW f \in PostFork, PostTake(f)
    PROVE  PlaceInv' /\ OnceInv'
<1> DEFINE from == <<"outChan", None>>
<1>0. PICK m : m = Head(outChan)
  OBVIOUS
<1>a. PICK v : v = Filtered(m)
  OBVIOUS
<1>1. outChan \in Seq(Message) /\ outChan # <<>> /\ outChan' = Tail(outChan)
  BY DEF Typed, OutTypes, PostTake
<1>2. /\ m \in Message /\ m.id \in Ids(outChan) /\ Once(outChan')
      /\ Ids(outChan') = Ids(outChan) \ {m.id}
  BY <1>0, <1>1, OnceReceive DEF OnceInv
<1>3. /\ from \in Place /\ m.id \in IdsAt(from)
      /\ IdsAt(from)' = IdsAt(from) \ {m.id}
  BY <1>2, PlaceIs DEF IdsAt
<1>4. v \in Verdicts /\ (v.pc # "select" => v.msg.id = m.id)
  BY <1>a, <1>2, FilteredType DEF Typed, PostTypes, VerdictsOn
<1>5. /\ post' = [post EXCEPT ![f] = v] /\ post[f].msg = None
      /\ leaked' = IF v = Idle THEN leaked \cup {m.id} ELSE leaked
      /\ UNCHANGED <<arrived, inChan, worker, queues, commitChan, blocked,
                     produceChan, produced, committed>>
  BY <1>0, <1>a DEF PostTake, Typed, PostTypes, Verdicts
<1>6. post'[f] = v /\ \A g \in PostFork : g # f => post'[g] = post[g]
  BY <1>5 DEF Typed, PostTypes
<1>7. OnceInv'
  BY <1>2, <1>5 DEF queues, OnceInv
<1>8. CASE v.pc # "select"
  <2> DEFINE to == <<"post", f>>
  <2>1. to \in Place /\ from # to
    BY PlaceIs
  <2>2. IdsAt(to)' = IdsAt(to) \cup {m.id}
    <3>1. v.msg \in Message
      BY <1>4, <1>8 DEF Verdicts
    <3>2. Holding(post'[f]) = {m.id} /\ Holding(post[f]) = {}
      BY <1>4, <1>5, <1>6, <1>8, <3>1, HoldsOne
    <3>3. QED
      BY <3>2 DEF IdsAt
  <2>3. leaked' = leaked
    BY <1>5, <1>8 DEF Idle
  <2>4. Still({from, to})
    BY <1>5, <1>6, <2>3 DEF queues, Still
  <2> HIDE DEF from, to
  <2>5. Carried(m.id, from, to)
    BY <1>3, <1>5, <2>2, <2>4 DEF Carried
  <2>6. QED
    BY <1>3, <1>7, <2>1, <2>5, CarriedKeeps
<1>9. CASE v.pc = "select"
  <2> DEFINE to == <<"leaked", None>>
  <2>1. to \in Place /\ from # to
    BY PlaceIs
  <2>2. v = Idle
    BY <1>4, <1>9 DEF Verdicts, Idle
  <2>3. IdsAt(to)' = IdsAt(to) \cup {m.id}
    BY <1>5, <2>2 DEF IdsAt
  <2>4. Holding(post'[f]) = Holding(post[f])
    BY <1>5, <1>6, <2>2, HoldsOne DEF Idle
  <2>5. post'[f] = post[f]
    BY <1>5, <1>6, <2>2 DEF PostTake, Typed, PostTypes, Verdicts, Idle
  <2>6. Still({from, to})
    BY <1>5, <1>6, <2>5 DEF queues, Still
  <2> HIDE DEF from, to
  <2>7. Carried(m.id, from, to)
    BY <1>3, <1>5, <2>3, <2>6 DEF Carried
  <2>8. QED
    BY <1>3, <1>7, <2>1, <2>7, CarriedKeeps
<1>10. QED
  BY <1>8, <1>9

(* A post filter worker sends its message on.                               *)
LEMMA PostSendPlaces ==
    ASSUME Typed, PlaceInv, OnceInv, NEW f \in PostFork, PostSend(f)
    PROVE  PlaceInv' /\ OnceInv'
<1> DEFINE from == <<"post", f>>
           to == <<"produceChan", None>>
<1>0. PICK m : m = post[f].msg
  OBVIOUS
<1>1. /\ m \in Message /\ produceChan \in Seq(Message) /\ produceChan' = Append(produceChan, m)
      /\ post' = [post EXCEPT ![f] = Idle]
      /\ UNCHANGED <<dispVars, produced, committed, leaked>>
  BY <1>0 DEF Typed, PostTypes, Verdicts, PostSend
<1>2. post'[f].msg = None /\ \A g \in PostFork : g # f => post'[g] = post[g]
  BY <1>1 DEF Typed, PostTypes, Idle
<1>3. /\ from \in Place /\ to \in Place /\ from # to /\ m.id \in IdsAt(from)
      /\ IdsAt(from)' = IdsAt(from) \ {m.id}
  <2>1. Holding(post[f]) = {m.id} /\ Holding(post'[f]) = {}
    BY <1>0, <1>1, <1>2, HoldsOne
  <2>2. QED
    BY <2>1, PlaceIs DEF IdsAt
<1>4. IdsAt(to) = Ids(produceChan) /\ IdsAt(to)' = Ids(produceChan')
  BY DEF IdsAt
<1>5. m.id \notin Ids(produceChan)
  BY <1>3, <1>4, NotThere
<1>6. Ids(produceChan') = Ids(produceChan) \cup {m.id} /\ Once(produceChan')
  BY <1>1, <1>5, OnceSend DEF OnceInv
<1>7. Still({from, to}) /\ arrived' = arrived
  BY <1>1, <1>2 DEF dispVars, queues, Still
<1> HIDE DEF from, to
<1>8. Carried(m.id, from, to)
  BY <1>3, <1>4, <1>6, <1>7 DEF Carried
<1>9. PlaceInv'
  BY <1>3, <1>8, CarriedKeeps
<1>10. OnceInv'
  BY <1>1, <1>6 DEF dispVars, queues, OnceInv
<1>11. QED
  BY <1>9, <1>10

(* A post filter worker hands its message to the journal.                   *)
LEMMA PostDiscardPlaces ==
    ASSUME Typed, PlaceInv, OnceInv, NEW f \in PostFork, PostDiscard(f)
    PROVE  PlaceInv' /\ OnceInv'
<1> DEFINE from == <<"post", f>>
           to == <<"commitChan", None>>
<1>0. PICK m : m = post[f].msg
  OBVIOUS
<1>1. /\ m \in Message /\ commitChan \in Seq(Message) /\ commitChan' = Append(commitChan, m)
      /\ post' = [post EXCEPT ![f] = Idle]
      /\ UNCHANGED <<arrived, inChan, worker, queues, outChan, blocked,
                     produceChan, produced, committed, leaked>>
  BY <1>0 DEF Typed, OutTypes, PostTypes, Verdicts, PostDiscard
<1>2. post'[f].msg = None /\ \A g \in PostFork : g # f => post'[g] = post[g]
  BY <1>1 DEF Typed, PostTypes, Idle
<1>3. /\ from \in Place /\ to \in Place /\ from # to /\ m.id \in IdsAt(from)
      /\ IdsAt(from)' = IdsAt(from) \ {m.id}
  <2>1. Holding(post[f]) = {m.id} /\ Holding(post'[f]) = {}
    BY <1>0, <1>1, <1>2, HoldsOne
  <2>2. QED
    BY <2>1, PlaceIs DEF IdsAt
<1>4. IdsAt(to) = Ids(commitChan) /\ IdsAt(to)' = Ids(commitChan')
  BY DEF IdsAt
<1>5. m.id \notin Ids(commitChan)
  BY <1>3, <1>4, NotThere
<1>6. Ids(commitChan') = Ids(commitChan) \cup {m.id} /\ Once(commitChan')
  BY <1>1, <1>5, OnceSend DEF OnceInv
<1>7. Still({from, to}) /\ arrived' = arrived
  BY <1>1, <1>2 DEF queues, Still
<1> HIDE DEF from, to
<1>8. Carried(m.id, from, to)
  BY <1>3, <1>4, <1>6, <1>7 DEF Carried
<1>9. PlaceInv'
  BY <1>3, <1>8, CarriedKeeps
<1>10. OnceInv'
  BY <1>1, <1>6 DEF queues, OnceInv
<1>11. QED
  BY <1>9, <1>10

(* The producer and the journal read.                                       *)
LEMMA ProducePlaces ==
    ASSUME Typed, PlaceInv, OnceInv, Produce
    PROVE  PlaceInv' /\ OnceInv'
<1> DEFINE from == <<"produceChan", None>>
           to == <<"produced", None>>
<1>0. PICK m : m = Head(produceChan)
  OBVIOUS
<1>1. /\ produceChan \in Seq(Message) /\ produceChan # <<>> /\ produceChan' = Tail(produceChan)
      /\ produced' = produced \cup {m.id} /\ UNCHANGED <<dispVars, post, committed, leaked>>
  BY <1>0 DEF Typed, PostTypes, Produce
<1>2. /\ m.id \in Ids(produceChan) /\ Once(produceChan')
      /\ Ids(produceChan') = Ids(produceChan) \ {m.id}
  BY <1>0, <1>1, OnceReceive DEF OnceInv
<1>3. /\ from \in Place /\ to \in Place /\ from # to /\ m.id \in IdsAt(from)
      /\ IdsAt(from)' = IdsAt(from) \ {m.id} /\ IdsAt(to)' = IdsAt(to) \cup {m.id}
  BY <1>1, <1>2, PlaceIs DEF IdsAt
<1>4. Still({from, to}) /\ arrived' = arrived
  BY <1>1 DEF dispVars, queues, Still
<1> HIDE DEF from, to
<1>5. Carried(m.id, from, to)
  BY <1>3, <1>4 DEF Carried
<1>6. PlaceInv'
  BY <1>3, <1>5, CarriedKeeps
<1>7. OnceInv'
  BY <1>1, <1>2 DEF dispVars, queues, OnceInv
<1>8. QED
  BY <1>6, <1>7

LEMMA CommitPlaces ==
    ASSUME Typed, PlaceInv, OnceInv, Commit
    PROVE  PlaceInv' /\ OnceInv'
<1> DEFINE from == <<"commitChan", None>>
           to == <<"committed", None>>
<1>0. PICK m : m = Head(commitChan)
  OBVIOUS
<1>1. /\ commitChan \in Seq(Message) /\ commitChan # <<>> /\ commitChan' = Tail(commitChan)
      /\ committed' = committed \cup {m.id}
      /\ UNCHANGED <<arrived, inChan, worker, queues, outChan, blocked, post, produceChan,
                     produced, leaked>>
  BY <1>0 DEF Typed, OutTypes, Commit
<1>2. /\ m.id \in Ids(commitChan) /\ Once(commitChan')
      /\ Ids(commitChan') = Ids(commitChan) \ {m.id}
  BY <1>0, <1>1, OnceReceive DEF OnceInv
<1>3. /\ from \in Place /\ to \in Place /\ from # to /\ m.id \in IdsAt(from)
      /\ IdsAt(from)' = IdsAt(from) \ {m.id} /\ IdsAt(to)' = IdsAt(to) \cup {m.id}
  BY <1>1, <1>2, PlaceIs DEF IdsAt
<1>4. Still({from, to}) /\ arrived' = arrived
  BY <1>1 DEF queues, Still
<1> HIDE DEF from, to
<1>5. Carried(m.id, from, to)
  BY <1>3, <1>4 DEF Carried
<1>6. PlaceInv'
  BY <1>3, <1>5, CarriedKeeps
<1>7. OnceInv'
  BY <1>1, <1>2 DEF queues, OnceInv
<1>8. QED
  BY <1>6, <1>7

(* A start has no message anywhere.                                         *)
LEMMA InitPlaces == Init => PlaceInv /\ OnceInv
<1> SUFFICES ASSUME Init PROVE PlaceInv /\ OnceInv
  OBVIOUS
<1>1. ToSet(<<>>) = {} /\ DOMAIN <<>> = {}
  BY NewChan
<1>2. Ids(<<>>) = {} /\ Once(<<>>)
  BY <1>1 DEF Ids, Once
<1>3. /\ \A w \in Worker : Holding(worker[w]) = {}
      /\ \A q \in Pipeline \X ParserFork : Holding(parser[q]) = {}
      /\ \A f \in PostFork : Holding(post[f]) = {}
  BY DEF Init, DispInit, Idle, Holding
<1>4. ASSUME NEW l \in Place PROVE IdsAt(l) = {}
  <2>1. CASE l[1] \in {"inChan", "outChan", "commitChan", "produceChan", "produced", "committed",
                       "blocked", "leaked"}
    BY <1>2, <2>1 DEF Init, DispInit, IdsAt
  <2>2. CASE l[1] = "worker"
    <3>1. l[2] \in Worker
      BY <2>2 DEF Place
    <3>2. QED
      BY <1>3, <2>2, <3>1 DEF IdsAt
  <2>3. CASE l[1] = "lbChan"
    <3>1. l[2] \in Pipeline
      BY <2>3 DEF Place
    <3>2. QED
      BY <1>2, <2>3, <3>1 DEF Init, DispInit, IdsAt
  <2>4. CASE l[1] \in {"forkChan", "parser"}
    <3>1. PICK q \in Pipeline \X ParserFork : l[2] = q
      BY <2>4 DEF Place
    <3>2. forkChan[q] = <<>> /\ Holding(parser[q]) = {}
      BY <1>3 DEF Init, DispInit
    <3>3. QED
      BY <1>2, <2>4, <3>1, <3>2 DEF IdsAt
  <2>5. CASE l[1] = "post"
    <3>1. l[2] \in PostFork
      BY <2>5 DEF Place
    <3>2. QED
      BY <1>3, <2>5, <3>1 DEF IdsAt
  <2>6. QED
    BY <2>1, <2>2, <2>3, <2>4, <2>5 DEF Place
<1>5. PlaceInv
  <2>1. 1 .. arrived = {}
    BY DEF Init, DispInit
  <2>2. QED
    BY <1>4, <2>1 DEF PlaceInv
<1>6. OnceInv
  BY <1>2 DEF Init, DispInit, OnceInv
<1>7. QED
  BY <1>5, <1>6

(* Every step keeps the messages at one place each.                         *)
LEMMA NextPlaces == Inv /\ PlaceInv /\ OnceInv /\ [Next]_vars => PlaceInv' /\ OnceInv'
<1> SUFFICES ASSUME Inv, PlaceInv, OnceInv, [Next]_vars PROVE PlaceInv' /\ OnceInv'
  OBVIOUS
<1>0. Typed
  BY TypedIs DEF Inv
<1>1. CASE Arrive /\ UNCHANGED postVars
  BY <1>0, <1>1, ArrivePlaces
<1>2. ASSUME NEW w \in Worker, WorkerStep(w), UNCHANGED postVars PROVE PlaceInv' /\ OnceInv'
  BY <1>2, ReceivePlaces, GoPlaces, DispatchPlaces
<1>3. ASSUME NEW p \in Pipeline, LB(p), UNCHANGED postVars PROVE PlaceInv' /\ OnceInv'
  BY <1>0, <1>3, LBPlaces
<1>4. ASSUME NEW q \in Pipeline \X ParserFork, ParserStep(q), UNCHANGED postVars
      PROVE  PlaceInv' /\ OnceInv'
  BY <1>0, <1>4, ParserTakePlaces, ParserSendPlaces, ParserDiscardPlaces DEF ParserStep
<1>5. ASSUME NEW f \in PostFork, PostStep(f) PROVE PlaceInv' /\ OnceInv'
  BY <1>0, <1>5, PostTakePlaces, PostSendPlaces, PostDiscardPlaces DEF PostStep
<1>6. CASE Produce
  BY <1>0, <1>6, ProducePlaces
<1>7. CASE Commit
  BY <1>0, <1>7, CommitPlaces
<1>8. CASE UNCHANGED vars
  <2>1. Still({}) /\ arrived' = arrived
    BY <1>8 DEF vars, dispVars, postVars, queues, Still
  <2>2. OnceInv'
    BY <1>8 DEF vars, dispVars, postVars, queues, OnceInv
  <2>3. QED
    BY <2>1, <2>2, StillKeeps
<1>9. QED
  BY <1>1, <1>2, <1>3, <1>4, <1>5, <1>6, <1>7, <1>8 DEF Next, DispNext

(* From the dispatcher to the producer and the journal a message is in one  *)
(* place: no worker, load balancer, parser or post filter loses it without  *)
(* a trace or lets it go on twice.                                          *)
THEOREM MessageOnce == Spec => []OnePlace
<1>1. ASSUME PlaceInv, OnceInv PROVE OnePlace
  <2>1. ASSUME NEW i \in 1 .. arrived
        PROVE  \E l \in {p \in Place : i \in IdsAt(p)} : {p \in Place : i \in IdsAt(p)} = {l}
    <3>1. PICK l \in Place : \A p \in Place : i \in IdsAt(p) <=> p = l
      BY <1>1 DEF PlaceInv
    <3>2. QED
      BY <3>1
  <2>2. \A s \in Channels : Once(s)
    BY <1>1 DEF OnceInv, Channels
  <2>3. QED
    BY <2>1, <2>2 DEF OnePlace
<1>2. QED
  BY <1>1, InitInv, NextInv, InitPlaces, NextPlaces, PTL DEF Spec
=============================================================================
