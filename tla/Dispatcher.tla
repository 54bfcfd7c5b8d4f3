----------------------------- MODULE Dispatcher -----------------------------
(***************************************************************************)
(* The dispatcher of go-fluentd (internal/controller/dispacher.go) and the  *)
(* tag pipelines it starts (internal/tagfilters/pipeline.go, parser_f.go,   *)
(* and the load balancer of base.go).                                       *)
(*                                                                         *)
(* The workers of the dispatcher share three concurrent maps from tags: to  *)
(* the channel of the tag's pipeline, to a counter and to a cancel          *)
(* function.  Whoever finds no channel makes a pipeline under a lock, after *)
(* a second look.  A tag that no filter supports gets the dispatcher's own  *)
(* outChan.  Neither a dispatcher nor a load balancer waits: what finds a   *)
(* channel full is thrown away, without a commit.                           *)
(*                                                                         *)
(* The one tag filter here is a parser; the concator is in Concator.        *)
(***************************************************************************)
EXTENDS Integers, Sequences, FiniteSets, SequencesExt

CONSTANTS
    Worker,             \* the NFork goroutines of the dispatcher
    ParserFork,         \* the forks of a parser
    NMsg,               \* the journal hands over messages 1 .. NMsg
    Tag, TagOf,         \* [Msg -> Tag]
    Supported,          \* the tags of the parser
    ForkOf,             \* [Msg -> ParserFork]: the hash of the lb_key field
    Unparsable,         \* messages the parser discards
    InSize, PipeSize, OutSize, CommitSize,
    Direct,             \* stands for the dispatcher's own outChan
    None

Msg == 1 .. NMsg
\* a message on its way, with the tag it has now; "" is no tag
Message == [id : Msg, tag : Tag \cup {""}]
Pipeline == Supported \X (1 .. Cardinality(Worker))

ASSUME DispatcherAssumption ==
    /\ NMsg \in Nat /\ IsFiniteSet(Worker)
    /\ TagOf \in [Msg -> Tag] /\ ForkOf \in [Msg -> ParserFork]
    /\ Supported \subseteq Tag /\ "" \notin Tag /\ Unparsable \subseteq Msg
    /\ {InSize, PipeSize, OutSize, CommitSize} \subseteq Nat \ {0}
    /\ None \notin Message \cup Worker \cup Pipeline \cup {Direct}
    /\ Direct \notin Pipeline

VARIABLES
    arrived, inChan,
    worker,             \* pc, msg and inChanForEachTag of each worker
    lock,
    tag2Concator, tag2Counter,
    nSpawned,           \* pipelines made for each tag
    lbChan, forkChan,   \* inChan of a pipeline and of its parsers
    parser,             \* pc and msg of each parser
    outChan,
    commitChan,         \* messages handed to the journal
    blocked,            \* history: thrown away because a channel was full
    entered, left,      \* history: ids that came into and out of a tag's pipelines
    panicked

queues == <<lbChan, forkChan, parser>>
maps == <<lock, tag2Concator, tag2Counter, nSpawned>>
dispVars == <<arrived, inChan, worker, maps, queues, outChan, commitChan,
              blocked, entered, left, panicked>>

NewMsg(i) == [id |-> i, tag |-> TagOf[i]]
Idle == [pc |-> "select", msg |-> None]

DispTypeOK ==
    /\ arrived \in 0 .. NMsg
    /\ inChan \in Seq(Message) /\ Len(inChan) <= InSize
    /\ worker \in [Worker ->
          [pc : {"select", "load", "lock", "recheck", "spawn", "store1",
                 "store2", "unlock", "count", "send"},
           msg : Message \cup {None}, ch : Pipeline \cup {Direct, None}]]
    /\ lock \in Worker \cup {None}
    /\ tag2Concator \in [Tag -> Pipeline \cup {Direct, None}]
    /\ tag2Counter \subseteq Tag
    /\ nSpawned \in [Tag -> 0 .. Cardinality(Worker)]
    /\ lbChan \in [Pipeline -> Seq(Message)]
    /\ forkChan \in [Pipeline \X ParserFork -> Seq(Message)]
    /\ parser \in [Pipeline \X ParserFork ->
          [pc : {"select", "forward", "send", "discard"}, msg : Message \cup {None}]]
    /\ \A p \in Pipeline : Len(lbChan[p]) <= PipeSize
    /\ \A q \in Pipeline \X ParserFork : Len(forkChan[q]) <= PipeSize
    /\ outChan \in Seq(Message) /\ Len(outChan) <= OutSize
    /\ commitChan \in Seq(Message) /\ Len(commitChan) <= CommitSize
    /\ blocked \subseteq Msg
    /\ entered \in [Tag -> Seq(Msg)] /\ left \in [Tag -> Seq(Msg)]
    /\ panicked \in BOOLEAN

DispInit ==
    /\ arrived = 0 /\ inChan = <<>>
    /\ worker = [w \in Worker |-> [pc |-> "select", msg |-> None, ch |-> None]]
    /\ lock = None
    /\ tag2Concator = [t \in Tag |-> None] /\ tag2Counter = {}
    /\ nSpawned = [t \in Tag |-> 0]
    /\ lbChan = [p \in Pipeline |-> <<>>]
    /\ forkChan = [q \in Pipeline \X ParserFork |-> <<>>]
    /\ parser = [q \in Pipeline \X ParserFork |-> Idle]
    /\ outChan = <<>> /\ commitChan = <<>>
    /\ blocked = {}
    /\ entered = [t \in Tag |-> <<>>] /\ left = [t \in Tag |-> <<>>]
    /\ panicked = FALSE

-----------------------------------------------------------------------------
(* The journal sends a message on.                                          *)
Arrive ==
    /\ arrived < NMsg
    /\ Len(inChan) < InSize
    /\ arrived' = arrived + 1
    /\ inChan' = Append(inChan, NewMsg(arrived + 1))
    /\ UNCHANGED <<worker, maps, queues, outChan, commitChan, blocked, entered,
                   left, panicked>>

-----------------------------------------------------------------------------
(* Dispatcher.Run.                                                          *)
At(w, pc) == worker[w].pc = pc /\ ~panicked
MsgOf(w) == worker[w].msg
Becomes(w, pc, m, ch) ==
    worker' = [worker EXCEPT ![w] = [pc |-> pc, msg |-> m, ch |-> ch]]
GoWith(w, pc, ch) == Becomes(w, pc, MsgOf(w), ch)
Go(w, pc) == GoWith(w, pc, worker[w].ch)
restVars == <<arrived, queues, outChan, commitChan, blocked, entered, left>>

Receive(w) ==
    /\ At(w, "select")
    /\ inChan # <<>>
    /\ Becomes(w, "load", Head(inChan), None)
    /\ inChan' = Tail(inChan)
    /\ UNCHANGED <<maps, panicked, restVars>>

Load(w) ==
    /\ At(w, "load")
    /\ LET ch == tag2Concator[MsgOf(w).tag]
       IN  IF ch = None THEN Go(w, "lock") ELSE GoWith(w, "count", ch)
    /\ UNCHANGED <<inChan, maps, panicked, restVars>>

Lock(w) ==
    /\ At(w, "lock")
    /\ lock = None
    /\ lock' = w
    /\ Go(w, "recheck")
    /\ UNCHANGED <<inChan, tag2Concator, tag2Counter, nSpawned, panicked, restVars>>

(* Slip: no second look under the lock.                                     *)
NoRecheck(w) ==
    /\ At(w, "recheck")
    /\ Go(w, "spawn")
    /\ UNCHANGED <<inChan, maps, panicked, restVars>>

(* "double check".                                                          *)
Recheck(w) ==
    /\ At(w, "recheck")
    /\ LET ch == tag2Concator[MsgOf(w).tag]
       IN  IF ch = None THEN Go(w, "spawn") ELSE GoWith(w, "unlock", ch)
    /\ UNCHANGED <<inChan, maps, panicked, restVars>>

(* TagPipeline.Spawn.                                                       *)
Spawn(w) ==
    /\ At(w, "spawn")
    /\ LET t == MsgOf(w).tag
       IN  IF t \in Supported
           THEN /\ nSpawned' = [nSpawned EXCEPT ![t] = @ + 1]
                /\ GoWith(w, "store1", <<t, nSpawned[t] + 1>>)
           ELSE /\ GoWith(w, "store1", Direct)
                /\ UNCHANGED nSpawned
    /\ UNCHANGED <<inChan, lock, tag2Concator, tag2Counter, panicked, restVars>>

StoreCounter(w) == tag2Counter' = tag2Counter \cup {MsgOf(w).tag}
StoreConcator(w) == tag2Concator' = [tag2Concator EXCEPT ![MsgOf(w).tag] = worker[w].ch]

(* Slip: the channel is stored before the counter.                          *)
StoreConcatorFirst(w) ==
    /\ \/ At(w, "store1") /\ StoreConcator(w) /\ Go(w, "store2")
          /\ UNCHANGED tag2Counter
       \/ At(w, "store2") /\ StoreCounter(w) /\ Go(w, "unlock")
          /\ UNCHANGED tag2Concator
    /\ UNCHANGED <<inChan, lock, nSpawned, panicked, restVars>>

(* "tag2Concator should put after tag2Counter".                             *)
Store(w) ==
    /\ \/ At(w, "store1") /\ StoreCounter(w) /\ Go(w, "store2")
          /\ UNCHANGED tag2Concator
       \/ At(w, "store2") /\ StoreConcator(w) /\ Go(w, "unlock")
          /\ UNCHANGED tag2Counter
    /\ UNCHANGED <<inChan, lock, nSpawned, panicked, restVars>>

(* Slip: a way out of the locked region that keeps the lock.                *)
UnlockForgotten(w) ==
    /\ At(w, "unlock")
    /\ Go(w, "count")
    /\ UNCHANGED <<inChan, maps, panicked, restVars>>

Unlock(w) ==
    /\ At(w, "unlock")
    /\ lock' = None
    /\ Go(w, "count")
    /\ UNCHANGED <<inChan, tag2Concator, tag2Counter, nSpawned, panicked, restVars>>

(* The second look-up, which panics when there is no counter.               *)
LoadCounter(w) ==
    /\ At(w, "count")
    /\ IF MsgOf(w).tag \in tag2Counter
       THEN Go(w, "send") /\ UNCHANGED panicked
       ELSE panicked' = TRUE /\ UNCHANGED worker
    /\ UNCHANGED <<inChan, maps, restVars>>

(* The select with a default, into outChan or into a pipeline.              *)
Dispatch(w) ==
    /\ At(w, "send")
    /\ Becomes(w, "select", None, None)
    /\ LET m == MsgOf(w)
           ch == worker[w].ch
       IN  \/ /\ ch = Direct /\ Len(outChan) < OutSize
              /\ outChan' = Append(outChan, m)
              /\ UNCHANGED <<lbChan, blocked, entered>>
           \/ /\ ch # Direct /\ Len(lbChan[ch]) < PipeSize
              /\ lbChan' = [lbChan EXCEPT ![ch] = Append(@, m)]
              /\ entered' = [entered EXCEPT ![m.tag] = Append(@, m.id)]
              /\ UNCHANGED <<outChan, blocked>>
           \/ /\ IF ch = Direct THEN Len(outChan) = OutSize
                 ELSE Len(lbChan[ch]) = PipeSize
              /\ blocked' = blocked \cup {m.id}
              /\ UNCHANGED <<lbChan, outChan, entered>>
    /\ UNCHANGED <<arrived, inChan, maps, forkChan, parser, commitChan, left, panicked>>

-----------------------------------------------------------------------------
pipeRest == <<arrived, inChan, worker, maps, entered, panicked>>

(* runLB.                                                                   *)
LB(p) ==
    /\ lbChan[p] # <<>>
    /\ LET m == Head(lbChan[p])
           q == <<p, ForkOf[m.id]>>
       IN  \/ /\ Len(forkChan[q]) < PipeSize
              /\ forkChan' = [forkChan EXCEPT ![q] = Append(@, m)]
              /\ UNCHANGED blocked
           \/ /\ Len(forkChan[q]) = PipeSize
              /\ blocked' = blocked \cup {m.id}
              /\ UNCHANGED forkChan
    /\ lbChan' = [lbChan EXCEPT ![p] = Tail(@)]
    /\ UNCHANGED <<pipeRest, parser, outChan, commitChan, left>>

(* StartNewParser: a message of a tag the parser does not know is sent on   *)
(* and then parsed all the same; one it cannot parse is discarded.          *)
ParserVerdict(m) == IF m.id \in Unparsable THEN "discard" ELSE "send"

ParserTake(q) ==
    /\ parser[q].pc = "select"
    /\ forkChan[q] # <<>>
    /\ LET m == Head(forkChan[q])
       IN  parser' = [parser EXCEPT ![q] =
              [pc |-> IF m.tag \notin Supported THEN "forward" ELSE ParserVerdict(m),
               msg |-> m]]
    /\ forkChan' = [forkChan EXCEPT ![q] = Tail(@)]
    /\ UNCHANGED <<pipeRest, lbChan, outChan, commitChan, left, blocked>>

ParserSend(q) ==
    /\ parser[q].pc \in {"forward", "send"}
    /\ Len(outChan) < OutSize
    /\ LET m == parser[q].msg
       IN  /\ outChan' = Append(outChan, m)
           /\ left' = [left EXCEPT ![m.tag] = Append(@, m.id)]
           /\ parser' = [parser EXCEPT ![q] =
                 IF @.pc = "send" THEN Idle ELSE [@ EXCEPT !.pc = ParserVerdict(m)]]
    /\ UNCHANGED <<pipeRest, lbChan, forkChan, commitChan, blocked>>

(* DiscardMsg waits for room in the journal's commitChan.                   *)
ParserDiscard(q) ==
    /\ parser[q].pc = "discard"
    /\ Len(commitChan) < CommitSize
    /\ commitChan' = Append(commitChan, parser[q].msg)
    /\ parser' = [parser EXCEPT ![q] = Idle]
    /\ UNCHANGED <<pipeRest, lbChan, forkChan, outChan, left, blocked>>

-----------------------------------------------------------------------------
WorkerStep(w) ==
    \/ Receive(w) \/ Load(w) \/ Lock(w) \/ Recheck(w) \/ Spawn(w) \/ Store(w)
    \/ Unlock(w) \/ LoadCounter(w) \/ Dispatch(w)

ParserStep(q) == ParserTake(q) \/ ParserSend(q) \/ ParserDiscard(q)

DispNext ==
    \/ Arrive
    \/ \E w \in Worker : WorkerStep(w)
    \/ \E p \in Pipeline : LB(p)
    \/ \E q \in Pipeline \X ParserFork : ParserStep(q)
=============================================================================
