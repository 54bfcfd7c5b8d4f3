------------------------------- MODULE Senders -------------------------------
(***************************************************************************)
(* The senders of go-fluentd: internal/senders/kafka.go, elasticsearch.go, *)
(* fluentd.go and stdout.go, with the encoder of library/fluentd.go.       *)
(*                                                                         *)
(* Workers take messages from an inbound channel into a batch.  When the   *)
(* batch is full, or a message or a tick comes MaxWait after the last send  *)
(* the batch is sent, a failing send is tried again some times, and every   *)
(* message is reported on successedChan or failedChan.  The Fluentd sender  *)
(* has a layer before that: its forks hand each message to the child, one   *)
(* worker for every tag.                                                    *)
(*                                                                         *)
(* A message is its pointer, and the producer may give the same pointer     *)
(* again, with another tag, once it has the report.  What an earlier use of *)
(* a pointer left behind in a sender is None from then on: it is not the    *)
(* content of the message that the pointer now stands for.  Contexts are    *)
(* not cancelled and "dry" is off.                                          *)
(***************************************************************************)
EXTENDS Integers, SequencesExt

CONSTANTS
    Msg, Tag,
    Bad,                \* tags whose messages JSON.Marshal or TagIndexMap rejects
    Kinds,              \* the senders of this instance
    Fork, ForkOf,       \* [Kinds -> SUBSET Fork]: the NFork goroutines
    Wrap,               \* two-element slices of fluentdWrapMsgPool
    None,
    BatchSize, MaxRetry, InChanSize, ReportSize,
    DiscardWhenBlocked, \* BOOLEAN
    IsCommit,           \* BOOLEAN, the stdout sender's
    NetworkFails        \* BOOLEAN: backends may refuse or break off

ASSUME SendersAssumption ==
    /\ Kinds \subseteq {"kafka", "es", "stdout", "fluentd"}
    /\ ForkOf \in [Kinds -> SUBSET Fork]
    /\ Bad \subseteq Tag
    /\ None \notin Msg \cup Tag \cup Fork \cup Wrap
    /\ {BatchSize, MaxRetry, InChanSize, ReportSize} \subseteq Nat \ {0}
    /\ {DiscardWhenBlocked, IsCommit, NetworkFails} \subseteq BOOLEAN

(* A worker is a fork, or in the Fluentd sender the child of a tag.         *)
Worker == Fork \cup Tag

VARIABLES
    kind,               \* which sender this is
    tag,                \* msg.Tag; None while the producer has the pointer
    inChan,
    worker,             \* local variables of each worker
    kmsg,               \* kafka: kmsgBatchDelivery of each worker
    successedChan, failedChan,
    \* the Fluentd sender
    fork,               \* local variables of its forks
    childInChani, found, childInChan,   \* what the forks share
    mutex,
    tag2childInChan,
    childChan,          \* contents of the channels, by the tag they are for
    reads,              \* the channel the child of a tag reads; None: no child
    wrapPool, wrapMsg,  \* fluentdWrapMsgPool and what each slice holds
    panicked,
    \* history of the current use of a pointer
    arrived, refused    \* the backend has it; the backend turned it away

forkVars == <<fork, childInChani, found, childInChan, mutex, tag2childInChan,
              reads>>
wrapVars == <<wrapPool, wrapMsg>>
reportVars == <<successedChan, failedChan>>
history == <<arrived, refused>>
vars == <<kind, tag, inChan, worker, kmsg, reportVars, forkVars, childChan,
          wrapVars, panicked, history>>

Batches == UNION {[1 .. n -> Msg] : n \in 0 .. BatchSize}
MsgOrNone == Msg \cup {None}

(* Types: bounded channels and batches, and no more retries than MaxRetry.   *)
TypeOK ==
    /\ kind \in Kinds
    /\ tag \in [Msg -> Tag \cup {None}]
    /\ inChan \in Seq(Msg) /\ Len(inChan) <= InChanSize
    /\ worker \in [Worker ->
          [pc : {"connect", "select", "send", "write", "good", "bad"},
           batch : Batches, delivery : Batches, nRetry : 0 .. MaxRetry,
           wraps : UNION {[1 .. n -> Wrap] : n \in 0 .. BatchSize}]]
    /\ kmsg \in [Worker -> [1 .. BatchSize -> MsgOrNone]]
    /\ \A c \in {successedChan, failedChan} :
          c \in Seq(Msg) /\ Len(c) <= ReportSize
    /\ fork \in [Fork -> [pc : {"recv", "load", "test", "assign", "lock",
                                "reload", "retest", "spawn", "store", "unlock",
                                "reassign", "send", "blocked"},
                          msg : MsgOrNone]]
    /\ {childInChani, childInChan} \subseteq Tag \cup {None}
    /\ {found, panicked} \subseteq BOOLEAN
    /\ mutex \in Fork \cup {None}
    /\ {tag2childInChan, reads} \subseteq [Tag -> Tag \cup {None}]
    /\ childChan \in [Tag -> Seq(Msg)]
    /\ \A t \in Tag : Len(childChan[t]) <= InChanSize
    /\ wrapPool \in [Wrap -> 0 .. BatchSize]
    /\ wrapMsg \in [Wrap -> MsgOrNone]
    /\ arrived \subseteq Msg /\ refused \subseteq Msg

Init ==
    /\ kind \in Kinds
    /\ tag = [m \in Msg |-> None]
    /\ inChan = <<>>
    /\ worker = [w \in Worker |->
          [pc |-> IF kind \in {"kafka", "fluentd"} THEN "connect" ELSE "select",
           batch |-> <<>>, delivery |-> <<>>, nRetry |-> 0, wraps |-> <<>>]]
    /\ kmsg = [w \in Worker |-> [j \in 1 .. BatchSize |-> None]]
    /\ successedChan = <<>> /\ failedChan = <<>>
    /\ fork = [f \in Fork |-> [pc |-> "recv", msg |-> None]]
    /\ childInChani = None /\ found = FALSE /\ childInChan = None
    /\ mutex = None
    /\ tag2childInChan = [t \in Tag |-> None]
    /\ childChan = [t \in Tag |-> <<>>]
    /\ reads = [t \in Tag |-> None]
    /\ wrapPool = [a \in Wrap |-> 0] /\ wrapMsg = [a \in Wrap |-> None]
    /\ panicked = FALSE
    /\ arrived = {} /\ refused = {}

-----------------------------------------------------------------------------
(* The producer.  It gives a message it has no report of outstanding, and   *)
(* takes reports.                                                           *)

Inside ==
    ToSet(inChan) \cup ToSet(successedChan) \cup ToSet(failedChan)
      \cup {fork[f].msg : f \in Fork}
      \cup (UNION {ToSet(childChan[t]) : t \in Tag})
      \cup (UNION {ToSet(worker[w].batch) \cup ToSet(worker[w].delivery) : w \in Worker})

Offer(m, t) ==
    /\ ~panicked
    /\ tag[m] = None
    /\ Len(inChan) < InChanSize
    /\ tag' = [tag EXCEPT ![m] = t]
    /\ inChan' = Append(inChan, m)
    /\ UNCHANGED <<kind, worker, kmsg, reportVars, forkVars, childChan,
                   wrapVars, panicked, history>>

(* With its report the use of a pointer ends.                               *)
Forget(m, f) == [x \in DOMAIN f |-> IF f[x] = m THEN None ELSE f[x]]

EndUse(m) ==
    /\ tag' = [tag EXCEPT ![m] = None]
    /\ kmsg' = [w \in Worker |-> Forget(m, kmsg[w])]
    /\ wrapMsg' = Forget(m, wrapMsg)
    /\ arrived' = arrived \ {m} /\ refused' = refused \ {m}

Collect ==
    /\ ~panicked
    /\ \/ /\ successedChan # <<>>
          /\ successedChan' = Tail(successedChan) /\ UNCHANGED failedChan
          /\ EndUse(Head(successedChan))
       \/ /\ failedChan # <<>>
          /\ failedChan' = Tail(failedChan) /\ UNCHANGED successedChan
          /\ EndUse(Head(failedChan))
    /\ UNCHANGED <<kind, inChan, worker, forkVars, childChan, wrapPool,
                   panicked>>

-----------------------------------------------------------------------------
(* The workers of Spawn, and spawnChildSenderForTag.                        *)

At(w, pc) ==
    /\ ~panicked
    /\ worker[w].pc = pc
    /\ IF kind = "fluentd" THEN w \in Tag /\ reads[w] # None ELSE w \in ForkOf[kind]

(* The worker gets the fields of r, and keeps the others.                   *)
Go(w, r) ==
    worker' = [worker EXCEPT ![w] =
                  [k \in DOMAIN @ |-> IF k \in DOMAIN r THEN r[k] ELSE @[k]]]

NoReport == UNCHANGED <<kind, tag, reportVars, forkVars, panicked>>

(* RECONNECT.  A failed attempt changes nothing.                            *)
Connect(w) ==
    /\ At(w, "connect")
    /\ Go(w, [pc |-> "select"])
    /\ NoReport
    /\ UNCHANGED <<inChan, kmsg, childChan, wrapVars, history>>

(* kmsgBatchDelivery keeps the value of an earlier batch where the new      *)
(* message cannot be marshalled.                                            *)
Values(w, b) ==
    [j \in 1 .. BatchSize |->
        IF j \in DOMAIN b /\ tag[b[j]] \notin Bad THEN b[j] ELSE kmsg[w][j]]

(* The batch b goes out.                                                    *)
Deliver(w, b) ==
    /\ Go(w, [batch |-> <<>>, delivery |-> b, nRetry |-> 0, pc |-> "send"])
    /\ kmsg' = IF kind = "kafka" THEN [kmsg EXCEPT ![w] = Values(w, b)] ELSE kmsg

(* With a message added to it the batch goes out, or waits for more when    *)
(* there is room for more and MaxWait has not passed since lastT.           *)
DeliverOrWait(w, b) ==
    \/ Deliver(w, b)
    \/ /\ Len(b) < BatchSize /\ kind # "stdout"
       /\ Go(w, [batch |-> b])
       /\ UNCHANGED kmsg

TakeMsg(w) ==
    /\ At(w, "select")
    /\ IF kind = "fluentd"
       THEN LET c == reads[w] IN
            /\ childChan[c] # <<>>
            /\ childChan' = [childChan EXCEPT ![c] = Tail(@)]
            /\ DeliverOrWait(w, Append(worker[w].batch, Head(childChan[c])))
            /\ UNCHANGED inChan
       ELSE /\ inChan # <<>>
            /\ inChan' = Tail(inChan)
            /\ DeliverOrWait(w, Append(worker[w].batch, Head(inChan)))
            /\ UNCHANGED childChan
    /\ NoReport
    /\ UNCHANGED <<wrapVars, history>>

(* Slip: a tick sends full batches only.                                    *)
TickFullOnly(w) ==
    /\ At(w, "select")
    /\ Len(worker[w].batch) = BatchSize
    /\ Deliver(w, worker[w].batch)
    /\ NoReport
    /\ UNCHANGED <<inChan, childChan, wrapVars, history>>

(* A tick of ticker.C, MaxWait after lastT.  An earlier one does nothing.   *)
Tick(w) ==
    /\ At(w, "select")
    /\ worker[w].batch # <<>>
    /\ Deliver(w, worker[w].batch)
    /\ NoReport
    /\ UNCHANGED <<inChan, childChan, wrapVars, history>>

-----------------------------------------------------------------------------
(* Sending the batch, after which it is reported as good or as bad.         *)

Delivery(w) == ToSet(worker[w].delivery)

Sent(w, S) ==
    /\ arrived' = arrived \cup S
    /\ Go(w, [pc |-> "good", nRetry |-> 0])

(* Slip: one failure too many is taken for a success.                       *)
RetryGivesUpGood(w, S) ==
    /\ NetworkFails
    /\ arrived' = arrived \cup S
    /\ Go(w, IF worker[w].nRetry + 1 > MaxRetry THEN [pc |-> "good", nRetry |-> 0]
             ELSE [nRetry |-> worker[w].nRetry + 1])

(* Slip: the retries are compared before they are counted.                  *)
RetryOneMore(w, S) ==
    /\ NetworkFails
    /\ arrived' = arrived \cup S
    /\ Go(w, IF worker[w].nRetry > MaxRetry THEN [pc |-> "bad", nRetry |-> 0]
             ELSE [nRetry |-> worker[w].nRetry + 1])

(* The send failed, although S got through; it is tried again.              *)
Retry(w, S) ==
    /\ NetworkFails
    /\ arrived' = arrived \cup S
    /\ Go(w, IF worker[w].nRetry + 1 > MaxRetry THEN [pc |-> "bad", nRetry |-> 0]
             ELSE [nRetry |-> worker[w].nRetry + 1])

(* SendMessages sends as many values as the batch has messages.             *)
KafkaSend(w) ==
    LET values == {kmsg[w][j] : j \in DOMAIN worker[w].delivery} \ {None} IN
    /\ kind = "kafka"
    /\ At(w, "send")
    /\ \/ Sent(w, values)
       \/ \E S \in SUBSET values : Retry(w, S)
    /\ NoReport
    /\ UNCHANGED <<inChan, kmsg, childChan, wrapVars, refused>>

(* SendBulkMsgs: without any content there is no request; the "errors" of   *)
(* the answer are not looked at.                                            *)
BulkSend(w) ==
    LET cnt == {m \in Delivery(w) : tag[m] \notin Bad} IN
    /\ kind = "es"
    /\ At(w, "send")
    /\ \/ \E S \in SUBSET cnt :
             Sent(w, S) /\ refused' = refused \cup (cnt \ S)
       \/ /\ cnt # {}
          /\ \E S \in SUBSET cnt : Retry(w, S)
          /\ UNCHANGED refused
    /\ NoReport
    /\ UNCHANGED <<inChan, kmsg, childChan, wrapVars>>

(* The stdout sender only writes its log.                                   *)
StdoutSend(w) ==
    /\ kind = "stdout"
    /\ At(w, "send")
    /\ arrived' = arrived \cup Delivery(w)
    /\ Go(w, [pc |-> IF IsCommit THEN "good" ELSE "bad"])
    /\ NoReport
    /\ UNCHANGED <<inChan, kmsg, childChan, wrapVars, refused>>

-----------------------------------------------------------------------------
(* FluentEncoder.EncodeBatch.  Every message of the batch gets a slice from *)
(* fluentdWrapMsgPool, a new one when the pool is empty or has let go of    *)
(* what it had.                                                             *)

UsedBy(ws) == UNION {ToSet(worker[w].wraps) : w \in ws}

Count(a, s) == Cardinality({j \in DOMAIN s : s[j] = a})

(* Slices s are what n calls of Get can return.                             *)
Gets(s) ==
    \A a \in ToSet(s) :
        \/ Count(a, s) <= wrapPool[a]
        \/ wrapPool[a] = 0 /\ a \notin UsedBy(Worker) /\ Count(a, s) = 1

EncodeFill(w) ==
    LET b == worker[w].delivery IN
    /\ kind = "fluentd"
    /\ At(w, "send")
    /\ \E s \in [DOMAIN b -> Wrap] :
          /\ Gets(s)
          /\ wrapPool' = [a \in Wrap |-> IF wrapPool[a] < Count(a, s) THEN 0
                                         ELSE wrapPool[a] - Count(a, s)]
          /\ wrapMsg' = [a \in Wrap |->
                IF a \in ToSet(s) THEN b[SelectLastInSubSeq(s, 1, Len(s), LAMBDA x : x = a)]
                ELSE wrapMsg[a]]
          /\ Go(w, [pc |-> "write", wraps |-> s])
    /\ NoReport
    /\ UNCHANGED <<inChan, kmsg, childChan, history>>

(* The slices go back one by one, but what is put is the address of the one *)
(* variable tmpWrap, which ends up holding the last of them.  The pool may  *)
(* drop what is put beyond BatchSize.                                       *)
Recycle(w) ==
    LET s == worker[w].wraps
        n == wrapPool[Last(s)] + Len(s) IN
    wrapPool' = [wrapPool EXCEPT ![Last(s)] = IF n > BatchSize THEN BatchSize ELSE n]

(* The records are written to the buffer of the connection, and Flush sends *)
(* them; its error is not looked at.  A failed EncodeMsg is tried again,    *)
(* less often than in the other senders.  What a slice holds that no call   *)
(* uses is never read again, and is forgotten.                              *)
EncodeWrite(w) ==
    LET records == {wrapMsg[a] : a \in ToSet(worker[w].wraps)} \ {None}
        tries == worker[w].nRetry + 1 IN
    /\ kind = "fluentd"
    /\ At(w, "write")
    /\ Recycle(w)
    /\ wrapMsg' = [a \in Wrap |-> IF a \in UsedBy(Worker \ {w}) THEN wrapMsg[a] ELSE None]
    /\ \/ /\ Go(w, [pc |-> "good", nRetry |-> 0, wraps |-> <<>>])
          /\ \/ arrived' = arrived \cup records
             \/ NetworkFails /\ UNCHANGED arrived
       \/ /\ NetworkFails
          /\ Go(w, IF tries >= MaxRetry
                   THEN [pc |-> "bad", nRetry |-> 0, wraps |-> <<>>]
                   ELSE [pc |-> "send", nRetry |-> tries, wraps |-> <<>>])
          /\ UNCHANGED arrived
    /\ NoReport
    /\ UNCHANGED <<inChan, kmsg, childChan, refused>>

-----------------------------------------------------------------------------
(* The reports of a batch, one blocking send after the other.               *)

(* After a failed batch Kafka and Fluentd reconnect.                        *)
AfterReport(w) ==
    LET rest == Tail(worker[w].delivery) IN
    [delivery |-> rest,
     pc |-> IF rest # <<>> THEN worker[w].pc
            ELSE IF worker[w].pc = "bad" /\ kind \in {"kafka", "fluentd"} THEN "connect"
            ELSE "select"]

ReportGood(w) ==
    /\ At(w, "good")
    /\ Len(successedChan) < ReportSize
    /\ successedChan' = Append(successedChan, Head(worker[w].delivery))
    /\ Go(w, AfterReport(w))
    /\ UNCHANGED <<kind, tag, inChan, kmsg, failedChan, forkVars, childChan,
                   wrapVars, panicked, history>>

(* Slip: the failed batch is reported and stays in the batch.               *)
ReportBadKeeps(w) ==
    /\ At(w, "bad")
    /\ Len(failedChan) < ReportSize
    /\ failedChan' = Append(failedChan, Head(worker[w].delivery))
    /\ Go(w, [batch |-> <<Head(worker[w].delivery)>>] @@ AfterReport(w))
    /\ UNCHANGED <<kind, tag, inChan, kmsg, successedChan, forkVars, childChan,
                   wrapVars, panicked, history>>

ReportBad(w) ==
    /\ At(w, "bad")
    /\ Len(failedChan) < ReportSize
    /\ failedChan' = Append(failedChan, Head(worker[w].delivery))
    /\ Go(w, AfterReport(w))
    /\ UNCHANGED <<kind, tag, inChan, kmsg, successedChan, forkVars, childChan,
                   wrapVars, panicked, history>>

WorkerStep(w) ==
    \/ Connect(w) \/ TakeMsg(w) \/ Tick(w)
    \/ KafkaSend(w) \/ BulkSend(w) \/ StdoutSend(w)
    \/ EncodeFill(w) \/ EncodeWrite(w)
    \/ ReportGood(w) \/ ReportBad(w)

-----------------------------------------------------------------------------
(* The forks of FluentSender.Spawn.  childInChani, ok (here found) and      *)
(* childInChan are declared outside the goroutines.                         *)

ForkAt(f, pc) ==
    /\ ~panicked
    /\ kind = "fluentd" /\ f \in ForkOf[kind]
    /\ fork[f].pc = pc

ForkGo(f, pc) == fork' = [fork EXCEPT ![f].pc = pc]
ForkTag(f) == tag[fork[f].msg]
Outside == UNCHANGED <<kind, tag, worker, kmsg, wrapVars, history>>

ForkRecv(f) ==
    /\ ForkAt(f, "recv")
    /\ inChan # <<>>
    /\ inChan' = Tail(inChan)
    /\ fork' = [fork EXCEPT ![f] = [pc |-> "load", msg |-> Head(inChan)]]
    /\ Outside
    /\ UNCHANGED <<reportVars, childInChani, found, childInChan, mutex,
                   tag2childInChan, reads, childChan, panicked>>

(* tag2childInChan.Load, before and under the mutex.                        *)
ForkLoad(f) ==
    /\ \/ ForkAt(f, "load") /\ ForkGo(f, "test")
       \/ ForkAt(f, "reload") /\ ForkGo(f, "retest")
    /\ childInChani' = tag2childInChan[ForkTag(f)]
    /\ found' = (childInChani' # None)
    /\ Outside
    /\ UNCHANGED <<inChan, reportVars, childInChan, mutex, tag2childInChan,
                   reads, childChan, panicked>>

(* A fork reads ok, which another may have set since.                       *)
ForkTest(f) ==
    /\ ForkAt(f, "test")
    /\ ForkGo(f, IF found THEN "assign" ELSE "lock")
    /\ Outside
    /\ UNCHANGED <<inChan, reportVars, childInChani, found, childInChan, mutex,
                   tag2childInChan, reads, childChan, panicked>>

ForkLock(f) ==
    /\ ForkAt(f, "lock")
    /\ mutex = None
    /\ mutex' = f
    /\ ForkGo(f, "reload")
    /\ Outside
    /\ UNCHANGED <<inChan, reportVars, childInChani, found, childInChan,
                   tag2childInChan, reads, childChan, panicked>>

(* The double check; on a miss childInChan becomes a new channel.           *)
ForkRetest(f) ==
    /\ ForkAt(f, "retest")
    /\ IF found
       THEN ForkGo(f, "reassign") /\ UNCHANGED childInChan
       ELSE ForkGo(f, "spawn") /\ childInChan' = ForkTag(f)
    /\ Outside
    /\ UNCHANGED <<inChan, reportVars, childInChani, found, mutex,
                   tag2childInChan, reads, childChan, panicked>>

(* A nil childInChani makes the type assertion panic.                       *)
ForkAssign(f) ==
    /\ \/ ForkAt(f, "assign") /\ ForkGo(f, "send")
       \/ ForkAt(f, "reassign") /\ ForkGo(f, "unlock")
    /\ childInChan' = IF childInChani = None THEN childInChan ELSE childInChani
    /\ panicked' = (childInChani = None)
    /\ Outside
    /\ UNCHANGED <<inChan, reportVars, childInChani, found, mutex,
                   tag2childInChan, reads, childChan>>

(* The child is started on whatever childInChan is by now.                  *)
ForkSpawn(f) ==
    /\ ForkAt(f, "spawn")
    /\ reads' = [reads EXCEPT ![ForkTag(f)] = childInChan]
    /\ ForkGo(f, "store")
    /\ Outside
    /\ UNCHANGED <<inChan, reportVars, childInChani, found, childInChan, mutex,
                   tag2childInChan, childChan, panicked>>

(* Slip: the new channel is stored for every tag.                          *)
ForkStoreAll(f) ==
    /\ ForkAt(f, "store")
    /\ tag2childInChan' = [t \in Tag |-> childInChan]
    /\ ForkGo(f, "unlock")
    /\ Outside
    /\ UNCHANGED <<inChan, reportVars, childInChani, found, childInChan, mutex,
                   reads, childChan, panicked>>

ForkStore(f) ==
    /\ ForkAt(f, "store")
    /\ tag2childInChan' = [tag2childInChan EXCEPT ![ForkTag(f)] = childInChan]
    /\ ForkGo(f, "unlock")
    /\ Outside
    /\ UNCHANGED <<inChan, reportVars, childInChani, found, childInChan, mutex,
                   reads, childChan, panicked>>

ForkUnlock(f) ==
    /\ ForkAt(f, "unlock")
    /\ mutex' = None
    /\ ForkGo(f, "send")
    /\ Outside
    /\ UNCHANGED <<inChan, reportVars, childInChani, found, childInChan,
                   tag2childInChan, reads, childChan, panicked>>

ForkSend(f) ==
    /\ ForkAt(f, "send")
    /\ IF Len(childChan[childInChan]) < InChanSize
       THEN /\ childChan' = [childChan EXCEPT ![childInChan] = Append(@, fork[f].msg)]
            /\ fork' = [fork EXCEPT ![f] = [pc |-> "recv", msg |-> None]]
       ELSE ForkGo(f, "blocked") /\ UNCHANGED childChan
    /\ Outside
    /\ UNCHANGED <<inChan, reportVars, childInChani, found, childInChan, mutex,
                   tag2childInChan, reads, panicked>>

(* The child's channel was full: the fork reports the message itself.       *)
ForkReport(f) ==
    /\ ForkAt(f, "blocked")
    /\ IF DiscardWhenBlocked
       THEN /\ Len(successedChan) < ReportSize
            /\ successedChan' = Append(successedChan, fork[f].msg)
            /\ UNCHANGED failedChan
       ELSE /\ Len(failedChan) < ReportSize
            /\ failedChan' = Append(failedChan, fork[f].msg)
            /\ UNCHANGED successedChan
    /\ fork' = [fork EXCEPT ![f] = [pc |-> "recv", msg |-> None]]
    /\ Outside
    /\ UNCHANGED <<inChan, childInChani, found, childInChan, mutex,
                   tag2childInChan, reads, childChan, panicked>>

ForkStep(f) ==
    \/ ForkRecv(f) \/ ForkLoad(f) \/ ForkTest(f) \/ ForkLock(f)
    \/ ForkRetest(f) \/ ForkAssign(f) \/ ForkSpawn(f) \/ ForkStore(f)
    \/ ForkUnlock(f) \/ ForkSend(f) \/ ForkReport(f)

-----------------------------------------------------------------------------
Next ==
    \/ \E m \in Msg, t \in Tag : Offer(m, t)
    \/ Collect
    \/ \E w \in Worker : WorkerStep(w)
    \/ \E f \in Fork : ForkStep(f)

Spec == Init /\ [][Next]_vars

(* Goroutines keep running, tickers tick, a backend that is down comes back  *)
(* (Connect), and the collector reads the reports; a channel serves blocked *)
(* senders in turn, hence strong fairness.  Nobody has to offer.            *)
FairSpec ==
    /\ Spec
    /\ \A w \in Worker :
          /\ WF_vars(WorkerStep(w))
          /\ SF_vars(ReportGood(w) \/ ReportBad(w))
    /\ \A f \in Fork : WF_vars(ForkStep(f)) /\ SF_vars(ForkReport(f))
    /\ WF_vars(Collect)

-----------------------------------------------------------------------------
(* Every sender implements the contract of the producer: each message it    *)
(* was given is reported once, and it is in nobody's batch or channel any   *)
(* more when the report is out.                                             *)
Place(m) ==
    IF m \in ToSet(inChan) THEN "queued"
    ELSE IF m \in ToSet(successedChan) THEN "good"
    ELSE IF m \in ToSet(failedChan) THEN "bad"
    ELSE IF m \in Inside THEN "sending"
    ELSE "outside"

Contract == INSTANCE SenderContract WITH place <- [m \in Msg |-> Place(m)]

(* base.go, SenderItf: a message is taken, worked on, and reported once, and *)
(* the step of one message moves no other.                                  *)
ImplementsContract == Contract!Spec

Copies(m) ==
      Count(m, inChan) + Count(m, successedChan) + Count(m, failedChan)
    + Cardinality({f \in Fork : fork[f].msg = m})
    + Cardinality({t \in Tag : m \in ToSet(childChan[t])})
    + Cardinality({w \in Worker : m \in ToSet(worker[w].batch)})
    + Cardinality({w \in Worker : m \in ToSet(worker[w].delivery)})

(* No message is in two batches, channels or reports at once: a delivery    *)
(* that is tried again was taken out of the batch.  Place sees only the     *)
(* first of several copies.                                                 *)
HeldOnce == \A m \in Msg : Copies(m) <= 1

(* A message that Kafka, Elasticsearch or stdout reports as good has reached *)
(* the backend, but for what the sender knowingly passes over: messages     *)
(* without JSON or index, and items Elasticsearch turned away.              *)
GoodMeansSent ==
    kind # "fluentd" =>
        ToSet(successedChan) \subseteq arrived \cup refused \cup {m \in Msg : tag[m] \in Bad}

(* fluentd.go: "successed send message to backend".  What the Fluentd       *)
(* sender reports as good was written to the connection, as long as the     *)
(* network does not fail.                                                   *)
FluentGoodMeansSent ==
    kind = "fluentd" /\ ~NetworkFails => ToSet(successedChan) \subseteq arrived

(* fluentd.go: the child's channel is "for each tag".  The child of a tag,  *)
(* which sends everything under its own tag, gets no message of another,    *)
(* and every fork finds a channel.                                          *)
ChildGetsItsTag ==
    /\ ~panicked
    /\ \A t \in Tag : reads[t] # None =>
          \A m \in ToSet(childChan[reads[t]]) \cup Delivery(t)
                     \cup ToSet(worker[t].batch) : tag[m] = t

(* Every message is reported in the end, a last short batch by the ticker,  *)
(* and one that no backend takes after its retries.                         *)
EveryMsgIsReported ==
    \A m \in Msg : m \in Inside ~>
        m \in ToSet(successedChan) \cup ToSet(failedChan)
=============================================================================
