-------------------------- MODULE AcceptorPipeline --------------------------
(***************************************************************************)
(* The acceptor pipeline of go-fluentd, internal/acceptorfilters/, between  *)
(* the receivers and the journal.                                           *)
(*                                                                         *)
(* NFork asynchronous workers read reEnterChan and the receivers'           *)
(* asyncOutChan, NFork others their syncOutChan.  A worker throttles and    *)
(* filters a message.  An asynchronous one never waits for the journal: it  *)
(* offers the message to outChan, then to outChan or skipDumpChan, and      *)
(* throws it away when both are full; a synchronous one waits for outChan.  *)
(* The Spring filter gives a message a new tag and puts it into             *)
(* reEnterChan, to be filtered again from the start.                        *)
(***************************************************************************)
EXTENDS Receivers

CONSTANTS
    AsyncWorker, SyncWorker,
    SpringTag, NewTag,  \* a rule of the Spring filter
    Matched, Odd,       \* sources whose text matches it, is no text
    SparkTag, Ignored,  \* sources whose text the Spark filter drops
    Accepted,           \* tags the default filter lets pass
    IsThrottle,
    ReEnterSize, OutSize, SkipSize,
    None

ASSUME PipelineAssumption ==
    /\ AsyncWorker \cap SyncWorker = {}
    /\ {SpringTag, NewTag, SparkTag} \cup Accepted \subseteq Tag
    /\ NewTag # SpringTag       \* otherwise the filter would match for ever
    /\ SpringTag # SparkTag     \* "spring." and "spark." with the environment
    /\ Matched \cup Odd \cup Ignored \subseteq Source /\ Matched \cap Odd = {}
    /\ IsThrottle \in BOOLEAN
    /\ {ReEnterSize, OutSize, SkipSize} \subseteq Nat \ {0}
    /\ None \notin Message

Worker == AsyncWorker \cup SyncWorker

VARIABLES
    worker,             \* pc and msg of each worker
    reEnterChan, outChan, skipDumpChan,
    \* history: what became of the messages of a source
    dumped, skipped, throttled, filtered, busy, retagged

fate == <<dumped, skipped, throttled, filtered, busy, retagged>>
vars == <<recvVars, worker, reEnterChan, outChan, skipDumpChan, fate>>

(* Types: bounded channels, and what each worker holds.                     *)
TypeOK ==
    /\ RecvTypeOK
    /\ worker \in [Worker -> [pc : {"select", "reenter", "out", "busy"},
                              msg : Message \cup {None}]]
    /\ reEnterChan \in Seq(Message) /\ Len(reEnterChan) <= ReEnterSize
    /\ outChan \in Seq(Message) /\ Len(outChan) <= OutSize
    /\ skipDumpChan \in Seq(Message) /\ Len(skipDumpChan) <= SkipSize
    /\ \A S \in {dumped, skipped, throttled, filtered, busy, retagged} :
          S \subseteq Source

Init ==
    /\ RecvInit
    /\ worker = [w \in Worker |-> [pc |-> "select", msg |-> None]]
    /\ reEnterChan = <<>> /\ outChan = <<>> /\ skipDumpChan = <<>>
    /\ dumped = {} /\ skipped = {} /\ throttled = {} /\ filtered = {}
    /\ busy = {} /\ retagged = {}

-----------------------------------------------------------------------------
(* The filters.  Spring and Spark come in the order of a Go map, which does *)
(* not matter since they look at different tags; the default filter is last. *)

SpringVerdict(m) ==
    IF m.tag # SpringTag THEN "pass"
    ELSE IF m.src \in Odd THEN "discard"
    ELSE IF m.src \in Matched THEN "reenter"
    ELSE "pass"

SparkVerdict(m) == IF m.tag = SparkTag /\ m.src \in Ignored THEN "discard" ELSE "pass"

DefaultVerdict(m) == IF m.tag \in Accepted THEN "pass" ELSE "discard"

(* The first filter that returns nil ends the chain.                        *)
Verdict(m) ==
    IF SpringVerdict(m) # "pass" THEN SpringVerdict(m)
    ELSE IF SparkVerdict(m) # "pass" THEN SparkVerdict(m)
    ELSE DefaultVerdict(m)

-----------------------------------------------------------------------------
MsgOf(w) == worker[w].msg
PcIs(w, pc) == worker[w].pc = pc
Set(w, pc, m) == worker' = [worker EXCEPT ![w] = [pc |-> pc, msg |-> m]]
Free(w) == Set(w, "select", None)

(* What a worker does with a message before it sends it on reads nothing    *)
(* that others write, and is one step with the receive.                     *)
Throttle(w, m) ==
    /\ IsThrottle
    /\ throttled' = throttled \cup {m.src}
    /\ Free(w)
    /\ UNCHANGED <<filtered, retagged>>

FilterDiscard(w, m) ==
    /\ Verdict(m) = "discard"
    /\ filtered' = filtered \cup {m.src}
    /\ Free(w)
    /\ UNCHANGED <<throttled, retagged>>

(* Slip: the new tag is computed and not assigned.                          *)
FilterRetagKeepsTag(w, m) ==
    /\ Verdict(m) = "reenter"
    /\ retagged' = retagged \cup {m.src}
    /\ Set(w, "reenter", m)
    /\ UNCHANGED <<throttled, filtered>>

FilterRetag(w, m) ==
    /\ Verdict(m) = "reenter"
    /\ retagged' = retagged \cup {m.src}
    /\ Set(w, "reenter", [m EXCEPT !.tag = NewTag])
    /\ UNCHANGED <<throttled, filtered>>

FilterPass(w, m) ==
    /\ Verdict(m) = "pass"
    /\ Set(w, "out", m)
    /\ UNCHANGED <<throttled, filtered, retagged>>

Filter(w, m) ==
    /\ PcIs(w, "select")
    /\ \/ Throttle(w, m) \/ FilterDiscard(w, m)
       \/ FilterRetag(w, m) \/ FilterPass(w, m)
    /\ UNCHANGED <<outChan, skipDumpChan, dumped, skipped, busy>>

TakeReEntered(w) ==
    /\ w \in AsyncWorker
    /\ reEnterChan # <<>>
    /\ Filter(w, Head(reEnterChan))
    /\ reEnterChan' = Tail(reEnterChan)
    /\ UNCHANGED recvVars

TakeAsync(w) ==
    /\ w \in AsyncWorker
    /\ asyncOutChan # <<>>
    /\ Filter(w, Head(asyncOutChan))
    /\ asyncOutChan' = Tail(asyncOutChan)
    /\ UNCHANGED <<syncOutChan, httpVars, kafkaVars, syslogVars, reEnterChan>>

TakeSync(w) ==
    /\ w \in SyncWorker
    /\ syncOutChan # <<>>
    /\ Filter(w, Head(syncOutChan))
    /\ syncOutChan' = Tail(syncOutChan)
    /\ UNCHANGED <<asyncOutChan, httpVars, kafkaVars, syslogVars, reEnterChan>>

(* The blocking send of the filter, in a worker that may be the one to read *)
(* that channel.                                                            *)
ReEnter(w) ==
    /\ PcIs(w, "reenter")
    /\ Len(reEnterChan) < ReEnterSize
    /\ reEnterChan' = Append(reEnterChan, MsgOf(w))
    /\ Free(w)
    /\ UNCHANGED <<recvVars, outChan, skipDumpChan, fate>>

(* Slip: one message too many is sent without waiting.                      *)
OutOneMore(w) ==
    /\ PcIs(w, "out") \/ PcIs(w, "busy")
    /\ Len(outChan) <= OutSize
    /\ outChan' = Append(outChan, MsgOf(w))
    /\ Free(w)
    /\ UNCHANGED <<recvVars, reEnterChan, skipDumpChan, fate>>

Out(w) ==
    /\ PcIs(w, "out") \/ PcIs(w, "busy")
    /\ Len(outChan) < OutSize
    /\ outChan' = Append(outChan, MsgOf(w))
    /\ Free(w)
    /\ UNCHANGED <<recvVars, reEnterChan, skipDumpChan, fate>>

(* Slip: synchronous workers go on like the others.                         *)
AnyOutFull(w) ==
    /\ PcIs(w, "out")
    /\ Len(outChan) = OutSize
    /\ Set(w, "busy", MsgOf(w))
    /\ UNCHANGED <<recvVars, reEnterChan, outChan, skipDumpChan, fate>>

(* The default of the first select.                                         *)
OutFull(w) ==
    /\ w \in AsyncWorker
    /\ PcIs(w, "out")
    /\ Len(outChan) = OutSize
    /\ Set(w, "busy", MsgOf(w))
    /\ UNCHANGED <<recvVars, reEnterChan, outChan, skipDumpChan, fate>>

SkipDump(w) ==
    /\ PcIs(w, "busy")
    /\ Len(skipDumpChan) < SkipSize
    /\ skipDumpChan' = Append(skipDumpChan, MsgOf(w))
    /\ Free(w)
    /\ UNCHANGED <<recvVars, reEnterChan, outChan, fate>>

(* "discard msg since disk & downstream are busy".                          *)
DiscardBusy(w) ==
    /\ PcIs(w, "busy")
    /\ Len(outChan) = OutSize /\ Len(skipDumpChan) = SkipSize
    /\ busy' = busy \cup {MsgOf(w).src}
    /\ Free(w)
    /\ UNCHANGED <<recvVars, reEnterChan, outChan, skipDumpChan, dumped,
                   skipped, throttled, filtered, retagged>>

-----------------------------------------------------------------------------
(* The journal takes messages from both channels.                           *)
JournalDump ==
    /\ outChan # <<>>
    /\ dumped' = dumped \cup {Head(outChan).src}
    /\ outChan' = Tail(outChan)
    /\ UNCHANGED <<recvVars, worker, reEnterChan, skipDumpChan, skipped,
                   throttled, filtered, busy, retagged>>

JournalSkip ==
    /\ skipDumpChan # <<>>
    /\ skipped' = skipped \cup {Head(skipDumpChan).src}
    /\ skipDumpChan' = Tail(skipDumpChan)
    /\ UNCHANGED <<recvVars, worker, reEnterChan, outChan, dumped, throttled,
                   filtered, busy, retagged>>

-----------------------------------------------------------------------------
WorkerStep(w) ==
    \/ TakeReEntered(w) \/ TakeAsync(w) \/ TakeSync(w)
    \/ ReEnter(w) \/ Out(w) \/ OutFull(w) \/ SkipDump(w) \/ DiscardBusy(w)

PipelineVars == <<worker, reEnterChan, outChan, skipDumpChan, fate>>

Next ==
    \/ RecvNext /\ UNCHANGED PipelineVars
    \/ \E w \in Worker : WorkerStep(w)
    \/ JournalDump \/ JournalSkip

Spec == Init /\ [][Next]_vars

(* Workers, consumer and handlers keep running and the journal keeps        *)
(* reading.  Messages are finitely many here, so whoever waits for room or  *)
(* for its turn in a select gets it under weak fairness.                    *)
FairSpec ==
    /\ Spec
    /\ \A w \in Worker : WF_vars(WorkerStep(w))
    /\ \A r \in Request : WF_vars(Post(r) /\ UNCHANGED PipelineVars)
    /\ WF_vars(ConsumerStep /\ UNCHANGED PipelineVars)
    /\ WF_vars((SyslogTake \/ SyslogSend) /\ UNCHANGED PipelineVars)
    /\ WF_vars(JournalDump) /\ WF_vars(JournalSkip)

-----------------------------------------------------------------------------
InFlight ==
    {m.src : m \in ToSet(asyncOutChan) \cup ToSet(syncOutChan)
                     \cup ToSet(reEnterChan) \cup ToSet(outChan)
                     \cup ToSet(skipDumpChan)
                     \cup {MsgOf(w) : w \in {v \in Worker : MsgOf(v) # None}}}

Settled == dumped \cup skipped \cup throttled \cup filtered \cup busy

(* Whoever got an answer, whatever record the broker will not deliver       *)
(* again, and a syslog record that was not lost with its server is waiting  *)
(* in the receiver, on its way through the workers and channels, or came to *)
(* one of the ends the code has for it: nothing vanishes between two        *)
(* channels, and no offset is committed too early.                          *)
NothingVanishes ==
    answered \cup ((1 .. offset) \ Malformed) \cup (logged \ lost)
      \subseteq posting \cup ToSet(inchan) \cup holding \cup InFlight \cup Settled

(* settings.yml: the synchronous channel blocks, so that the pace of Kafka  *)
(* is controlled.  A record skips the journal or is thrown away for a busy  *)
(* disk only when it was retagged: it re-entered among the asynchronous     *)
(* messages.                                                                *)
SyncWaits == (skipped \cup busy) \cap Record \subseteq retagged

(* docs/README_cn.md: "asyncOutChan: is never blocked".  The asynchronous   *)
(* workers go on reading: there is room in asyncOutChan again and again.    *)
AsyncNeverBlocks == []<>(Len(asyncOutChan) < AsyncSize)

(* Answered requests, records whose offset was committed and syslog records *)
(* that were not lost come to an end, sooner or later all of them.          *)
AllSettle ==
    <>[](answered \cup ((1 .. offset) \ Malformed) \cup (logged \ lost) \subseteq Settled)
=============================================================================
