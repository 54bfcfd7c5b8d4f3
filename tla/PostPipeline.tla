---------------------------- MODULE PostPipeline ----------------------------
(***************************************************************************)
(* The post pipeline of go-fluentd (internal/postfilters/) behind the       *)
(* dispatcher, up to the producer and the journal.                          *)
(*                                                                         *)
(* PostFork workers run the filters over a message and wait for room        *)
(* downstream.  The filters, which come in the order of a Go map, give a    *)
(* message another tag, hand it to the journal as discarded, or return nil  *)
(* without a word.  Those that only edit fields are left out.  No filter of *)
(* the source sends to reEnterChan, which therefore stays empty.            *)
(***************************************************************************)
EXTENDS Dispatcher

CONSTANTS
    PostFork,
    DispatchTag,        \* tags of the ESDispatcherFilter
    EmptyKey,           \* messages whose TagKey field is empty
    ReTagMap,           \* [Msg -> Tag \cup {""}]: the map at that field, "" outside it
    ForwardTag, NewTag, \* the ForwardTagRewriterFilter: its tag and the new one
    BigDataTag, BadTime, \* the CustomBigDataFilter and what it cannot parse
    Chains,             \* the orders the filters may have
    ProduceSize

ASSUME PostAssumption ==
    /\ DispatchTag \cup BigDataTag \cup {ForwardTag, NewTag} \subseteq Tag
    /\ EmptyKey \cup BadTime \subseteq Msg
    /\ ReTagMap \in [Msg -> Tag \cup {""}]
    /\ Chains \subseteq Seq({"es-dispatcher", "tag-rewriter", "custom-bigdata"})
    /\ ProduceSize \in Nat \ {0}

VARIABLES
    filters,            \* the order of this start
    post,               \* pc and msg of each worker
    produceChan,
    produced, committed, \* history: what the producer and the journal took
    leaked              \* history: what a filter returned nil for, uncommitted

postVars == <<filters, post, produceChan, produced, committed, leaked>>
vars == <<dispVars, postVars>>

(* Types: bounded channels, and messages with a tag or none.                *)
TypeOK ==
    /\ DispTypeOK
    /\ filters \in Chains
    /\ post \in [PostFork -> [pc : {"select", "send", "discard"},
                              msg : Message \cup {None}]]
    /\ produceChan \in Seq(Message) /\ Len(produceChan) <= ProduceSize
    /\ produced \subseteq Msg /\ committed \subseteq Msg /\ leaked \subseteq Msg

Init ==
    /\ DispInit
    /\ filters \in Chains
    /\ post = [f \in PostFork |-> Idle]
    /\ produceChan = <<>>
    /\ produced = {} /\ committed = {} /\ leaked = {}

-----------------------------------------------------------------------------
(* What a filter does with a message: a tag and a way to go.  A message     *)
(* that the dispatcher filter drops for a missing map entry has lost its    *)
(* tag.                                                                     *)
ESDispatcher(m) ==
    IF m.tag \notin DispatchTag THEN [pc |-> "send", msg |-> m]
    ELSE IF m.id \in EmptyKey THEN [pc |-> "discard", msg |-> m]
    ELSE [pc |-> IF ReTagMap[m.id] = "" THEN "discard" ELSE "send",
          msg |-> [m EXCEPT !.tag = ReTagMap[m.id]]]

ForwardTagRewriter(m) ==
    [pc |-> "send",
     msg |-> IF m.tag = ForwardTag THEN [m EXCEPT !.tag = NewTag] ELSE m]

CustomBigData(m) ==
    IF m.tag \in BigDataTag /\ m.id \in BadTime THEN Idle ELSE [pc |-> "send", msg |-> m]

Filter(name, m) ==
    CASE name = "es-dispatcher" -> ESDispatcher(m)
      [] name = "tag-rewriter" -> ForwardTagRewriter(m)
      [] name = "custom-bigdata" -> CustomBigData(m)

(* The chain goes on while a filter returns the message.                    *)
Filtered(m) ==
    LET after[k \in 0 .. Len(filters)] ==
            IF k = 0 THEN [pc |-> "send", msg |-> m]
            ELSE IF after[k - 1].pc = "send" THEN Filter(filters[k], after[k - 1].msg)
            ELSE after[k - 1]
    IN  after[Len(filters)]

PostTake(f) ==
    /\ post[f].pc = "select"
    /\ outChan # <<>>
    /\ LET m == Head(outChan)
       IN  /\ post' = [post EXCEPT ![f] = Filtered(m)]
           /\ leaked' = IF Filtered(m) = Idle THEN leaked \cup {m.id} ELSE leaked
    /\ outChan' = Tail(outChan)
    /\ UNCHANGED <<arrived, inChan, worker, maps, queues, commitChan, blocked,
                   entered, left, panicked, filters, produceChan, produced, committed>>

(* Slip: one message too many is sent without waiting.                      *)
PostSendOneMore(f) ==
    /\ post[f].pc = "send"
    /\ Len(produceChan) <= ProduceSize
    /\ produceChan' = Append(produceChan, post[f].msg)
    /\ post' = [post EXCEPT ![f] = Idle]
    /\ UNCHANGED <<dispVars, filters, produced, committed, leaked>>

PostSend(f) ==
    /\ post[f].pc = "send"
    /\ Len(produceChan) < ProduceSize
    /\ produceChan' = Append(produceChan, post[f].msg)
    /\ post' = [post EXCEPT ![f] = Idle]
    /\ UNCHANGED <<dispVars, filters, produced, committed, leaked>>

(* Slip: the message is committed and goes on.                              *)
PostDiscardAndSend(f) ==
    /\ post[f].pc = "discard"
    /\ Len(commitChan) < CommitSize
    /\ commitChan' = Append(commitChan, post[f].msg)
    /\ post' = [post EXCEPT ![f].pc = "send"]
    /\ UNCHANGED <<arrived, inChan, worker, maps, queues, outChan, blocked, entered,
                   left, panicked, filters, produceChan, produced, committed, leaked>>

PostDiscard(f) ==
    /\ post[f].pc = "discard"
    /\ Len(commitChan) < CommitSize
    /\ commitChan' = Append(commitChan, post[f].msg)
    /\ post' = [post EXCEPT ![f] = Idle]
    /\ UNCHANGED <<arrived, inChan, worker, maps, queues, outChan, blocked, entered,
                   left, panicked, filters, produceChan, produced, committed, leaked>>

(* The producer and the journal go on reading.                              *)
Produce ==
    /\ produceChan # <<>>
    /\ produced' = produced \cup {Head(produceChan).id}
    /\ produceChan' = Tail(produceChan)
    /\ UNCHANGED <<dispVars, filters, post, committed, leaked>>

Commit ==
    /\ commitChan # <<>>
    /\ committed' = committed \cup {Head(commitChan).id}
    /\ commitChan' = Tail(commitChan)
    /\ UNCHANGED <<arrived, inChan, worker, maps, queues, outChan, blocked, entered,
                   left, panicked, filters, post, produceChan, produced, leaked>>

-----------------------------------------------------------------------------
PostStep(f) == PostTake(f) \/ PostSend(f) \/ PostDiscard(f)

Next ==
    \/ DispNext /\ UNCHANGED postVars
    \/ \E f \in PostFork : PostStep(f)
    \/ Produce \/ Commit

Spec == Init /\ [][Next]_vars

(* The goroutines of each stage keep running.  Messages are finitely many   *)
(* here, so who waits for room or for the lock gets it under weak fairness, *)
(* whichever goroutine of a stage the scheduler prefers.                    *)
FairSpec ==
    /\ Spec
    /\ WF_vars((\E w \in Worker : WorkerStep(w)) /\ UNCHANGED postVars)
    /\ WF_vars((\E p \in Pipeline : LB(p)) /\ UNCHANGED postVars)
    /\ WF_vars((\E q \in Pipeline \X ParserFork : ParserStep(q)) /\ UNCHANGED postVars)
    /\ WF_vars(\E f \in PostFork : PostStep(f))
    /\ WF_vars(Produce) /\ WF_vars(Commit)

-----------------------------------------------------------------------------
(* The places of messages: channels, the hands of goroutines, and the       *)
(* histories of those that are gone.                                        *)
Ids(s) == {m.id : m \in ToSet(s)}
Holding(x) == IF x.msg = None THEN {} ELSE {x.msg.id}
Channels ==
    {inChan, outChan, commitChan, produceChan} \cup {lbChan[p] : p \in Pipeline}
    \cup {forkChan[q] : q \in Pipeline \X ParserFork}

Place ==
    ({"inChan", "outChan", "commitChan", "produceChan", "produced", "committed", "blocked",
      "leaked"} \X {None})
    \cup ({"worker"} \X Worker) \cup ({"lbChan"} \X Pipeline)
    \cup ({"forkChan", "parser"} \X (Pipeline \X ParserFork)) \cup ({"post"} \X PostFork)

IdsAt(l) ==
    CASE l[1] = "inChan" -> Ids(inChan)
      [] l[1] = "outChan" -> Ids(outChan)
      [] l[1] = "commitChan" -> Ids(commitChan)
      [] l[1] = "produceChan" -> Ids(produceChan)
      [] l[1] = "worker" -> Holding(worker[l[2]])
      [] l[1] = "lbChan" -> Ids(lbChan[l[2]])
      [] l[1] = "forkChan" -> Ids(forkChan[l[2]])
      [] l[1] = "parser" -> Holding(parser[l[2]])
      [] l[1] = "post" -> Holding(post[l[2]])
      [] l[1] = "produced" -> produced
      [] l[1] = "committed" -> committed
      [] l[1] = "blocked" -> blocked
      [] l[1] = "leaked" -> leaked

Once(s) == \A a, b \in DOMAIN s : s[a].id = s[b].id => a = b

(* A message is in one place, and there once: it is not parsed and sent     *)
(* twice (the parser goes on after it sent on what it does not support), is *)
(* not produced and committed as discarded, and leaves by one of the four   *)
(* ways the code has.                                                       *)
OnePlace ==
    /\ \A i \in 1 .. arrived :
          LET places == {l \in Place : i \in IdsAt(l)} IN \E l \in places : places = {l}
    /\ \A s \in Channels : Once(s)

(* "counter must exists": whoever finds a tag's channel, with the lock or   *)
(* without, finds its counter.                                              *)
CounterExists == ~panicked

Before(s, i, j) == \E a, b \in DOMAIN s : a < b /\ s[a] = i /\ s[b] = j

(* Messages of one tag and one lb_key value leave the tag's pipeline in the *)
(* order they came in, however many parsers and dispatchers there are.      *)
KeyOrder ==
    \A t \in Tag : \A i, j \in ToSet(left[t]) :
        ForkOf[i] = ForkOf[j] /\ Before(left[t], i, j) => Before(entered[t], i, j)

(* No message stays: nobody waits for ever for the lock or a channel.       *)
EveryMsgLeaves ==
    \A i \in Msg : (i <= arrived) ~> (i \in produced \cup committed \cup blocked \cup leaked)
=============================================================================
