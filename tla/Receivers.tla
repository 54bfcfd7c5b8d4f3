----------------------------- MODULE Receivers -----------------------------
(***************************************************************************)
(* Three receivers of go-fluentd: internal/recvs/kafka.go, http.go and      *)
(* rsyslog.go, up to the channels of the acceptor (controller/acceptor.go). *)
(*                                                                         *)
(* The Kafka consumer puts a record into syncOutChan, waiting for room, and *)
(* marks its offset after that; the client library writes the mark to the   *)
(* broker now and then.  Every ReconnectInterval, or when the client breaks *)
(* off, the consumer starts again from the broker's offset.  A partition    *)
(* has one consumer, so one consumer with one partition is enough here.     *)
(* The HTTP handler checks a request, answers it, and then puts the message *)
(* into asyncOutChan.  The rsyslog receiver moves what its server has put   *)
(* into inchan to asyncOutChan; when the server ends it starts another,     *)
(* with a new inchan, and what the old one held is lost.                    *)
(*                                                                         *)
(* A message is where it came from, with its tag; a record that is consumed *)
(* again makes a second message like the first.                             *)
(***************************************************************************)
EXTENDS Integers, Sequences, FiniteSets, SequencesExt

CONSTANTS
    Request,            \* HTTP requests
    LogPart,            \* syslog records
    MaxRecord,          \* records of the Kafka partition, 1 .. MaxRecord
    Tag, TagOf,         \* [Source -> Tag]: the tag a receiver gives
    Malformed,          \* sources that parse2Msg or validate refuse
    AsyncSize, SyncSize, SyslogSize,
    MaxReconnect        \* bound on the reconnections of the consumer, and
                        \* of the syslog server

Record == 1 .. MaxRecord
Source == Request \cup LogPart \cup Record
Message == [src : Source, tag : Tag]

ASSUME ReceiversAssumption ==
    /\ Request \cap Record = {} /\ LogPart \cap (Request \cup Record) = {}
    /\ TagOf \in [Source -> Tag]
    /\ Malformed \subseteq Source
    /\ {MaxRecord, MaxReconnect} \subseteq Nat
    /\ {AsyncSize, SyncSize, SyslogSize} \subseteq Nat \ {0}

VARIABLES
    asyncOutChan, syncOutChan,
    answered,           \* requests that got their 200
    posting,            \* answered requests not yet in asyncOutChan
    consumer,           \* pc and the next record of the consumer
    marked, offset,     \* last record handed to CommitWithMsg; committed
    reconnects,
    inchan, holding,    \* of the syslog receiver: records, and the one in hand
    logged, lost,       \* history: records the server got; lost with an inchan
    restarts

httpVars == <<answered, posting>>
kafkaVars == <<consumer, marked, offset, reconnects>>
syslogVars == <<inchan, holding, logged, lost, restarts>>
recvVars == <<asyncOutChan, syncOutChan, httpVars, kafkaVars, syslogVars>>

NewMsg(s) == [src |-> s, tag |-> TagOf[s]]

RecvTypeOK ==
    /\ asyncOutChan \in Seq(Message) /\ Len(asyncOutChan) <= AsyncSize
    /\ syncOutChan \in Seq(Message) /\ Len(syncOutChan) <= SyncSize
    /\ posting \subseteq answered /\ answered \subseteq Request
    /\ consumer \in [pc : {"select", "send", "mark"},
                     next : 1 .. MaxRecord + 1]
    /\ marked \in 0 .. MaxRecord /\ offset \in 0 .. MaxRecord
    /\ {reconnects, restarts} \subseteq 0 .. MaxReconnect
    /\ inchan \in Seq(LogPart) /\ Len(inchan) <= SyslogSize
    /\ holding \subseteq LogPart /\ Cardinality(holding) <= 1
    /\ logged \subseteq LogPart /\ lost \subseteq logged

RecvInit ==
    /\ asyncOutChan = <<>> /\ syncOutChan = <<>>
    /\ answered = {} /\ posting = {}
    /\ consumer = [pc |-> "select", next |-> 1]
    /\ marked = 0 /\ offset = 0 /\ reconnects = 0
    /\ inchan = <<>> /\ holding = {} /\ logged = {} /\ lost = {} /\ restarts = 0

-----------------------------------------------------------------------------
(* HTTPLogHandler.  A malformed request is answered with an error; another  *)
(* gets its 200 ...                                                         *)
Answer(r) ==
    /\ r \notin answered \cup Malformed
    /\ answered' = answered \cup {r}
    /\ posting' = posting \cup {r}
    /\ UNCHANGED <<asyncOutChan, syncOutChan, kafkaVars, syslogVars>>

(* Slip: what finds the channel full is dropped by the handler.             *)
PostOrDrop(r) ==
    /\ r \in posting
    /\ posting' = posting \ {r}
    /\ asyncOutChan' = IF Len(asyncOutChan) < AsyncSize
                       THEN Append(asyncOutChan, NewMsg(r)) ELSE asyncOutChan
    /\ UNCHANGED <<syncOutChan, answered, kafkaVars, syslogVars>>

(* ... and the handler waits for room in the channel.                       *)
Post(r) ==
    /\ r \in posting
    /\ Len(asyncOutChan) < AsyncSize
    /\ posting' = posting \ {r}
    /\ asyncOutChan' = Append(asyncOutChan, NewMsg(r))
    /\ UNCHANGED <<syncOutChan, answered, kafkaVars, syslogVars>>

-----------------------------------------------------------------------------
(* KafkaRecv.Run.                                                           *)
At(pc) == consumer.pc = pc
Go(pc) == consumer' = [consumer EXCEPT !.pc = pc]

(* A record that cannot be parsed is only marked.                           *)
Consume ==
    /\ At("select")
    /\ consumer.next <= MaxRecord
    /\ Go(IF consumer.next \in Malformed THEN "mark" ELSE "send")
    /\ UNCHANGED <<asyncOutChan, syncOutChan, httpVars, syslogVars, marked,
                   offset, reconnects>>

Send ==
    /\ At("send")
    /\ Len(syncOutChan) < SyncSize
    /\ syncOutChan' = Append(syncOutChan, NewMsg(consumer.next))
    /\ Go("mark")
    /\ UNCHANGED <<asyncOutChan, httpVars, syslogVars, marked, offset, reconnects>>

(* cli.CommitWithMsg.                                                       *)
Mark ==
    /\ At("mark")
    /\ marked' = consumer.next
    /\ consumer' = [pc |-> "select", next |-> consumer.next + 1]
    /\ UNCHANGED <<asyncOutChan, syncOutChan, httpVars, syslogVars, offset, reconnects>>

(* The client writes the mark to the broker, every so many records or       *)
(* seconds.                                                                 *)
BrokerCommit ==
    /\ offset # marked
    /\ offset' = marked
    /\ UNCHANGED <<asyncOutChan, syncOutChan, httpVars, syslogVars, consumer,
                   marked, reconnects>>

(* ctx2Consumer is done, or msgChan is closed: the next client starts from  *)
(* the broker's offset.  A consumer that waits in a send does not notice    *)
(* until it is back at the select.                                          *)
Reconnect ==
    /\ At("select")
    /\ reconnects < MaxReconnect
    /\ reconnects' = reconnects + 1
    /\ consumer' = [consumer EXCEPT !.next = offset + 1]
    /\ marked' = offset
    /\ UNCHANGED <<asyncOutChan, syncOutChan, httpVars, syslogVars, offset>>

ConsumerStep == Consume \/ Send \/ Mark

-----------------------------------------------------------------------------
(* RsyslogRecv.Run.  The server hands a record over when there is room.     *)
Log(l) ==
    /\ l \notin logged
    /\ Len(inchan) < SyslogSize
    /\ logged' = logged \cup {l}
    /\ inchan' = Append(inchan, l)
    /\ UNCHANGED <<asyncOutChan, syncOutChan, httpVars, kafkaVars, holding, lost,
                   restarts>>

(* A record without a known timestamp goes on all the same, although the    *)
(* log says "discard".                                                      *)
SyslogTake ==
    /\ holding = {} /\ inchan # <<>>
    /\ holding' = {Head(inchan)}
    /\ inchan' = Tail(inchan)
    /\ UNCHANGED <<asyncOutChan, syncOutChan, httpVars, kafkaVars, logged, lost,
                   restarts>>

SyslogSend ==
    /\ Len(asyncOutChan) < AsyncSize
    /\ \E l \in holding : asyncOutChan' = Append(asyncOutChan, NewMsg(l))
    /\ holding' = {}
    /\ UNCHANGED <<syncOutChan, httpVars, kafkaVars, inchan, logged, lost, restarts>>

(* The server has ended; the receiver sees it when it is back at its select. *)
SyslogRestart ==
    /\ holding = {}
    /\ restarts < MaxReconnect
    /\ restarts' = restarts + 1
    /\ lost' = lost \cup ToSet(inchan)
    /\ inchan' = <<>>
    /\ UNCHANGED <<asyncOutChan, syncOutChan, httpVars, kafkaVars, holding, logged>>

RecvNext ==
    \/ \E r \in Request : Answer(r) \/ Post(r)
    \/ \E l \in LogPart : Log(l)
    \/ SyslogTake \/ SyslogSend \/ SyslogRestart
    \/ ConsumerStep \/ BrokerCommit \/ Reconnect
=============================================================================
