------------------------------ MODULE Producer ------------------------------
(***************************************************************************)
(* The producer of go-fluentd: internal/controller/producer.go.            *)
(*                                                                         *)
(* NFork fan-out goroutines take messages from InChan and offer each one   *)
(* to the inbound channel of every sender that supports its tag; a sender  *)
(* reports every message it took on successedChan or failedChan; a single  *)
(* collector counts the reports of a message and, when every sender has    *)
(* reported, hands the message to the journal (commitChan) if all reports  *)
(* were good and back to the message pool otherwise.                       *)
(*                                                                         *)
(* A message is its POINTER: the pool recycles pointers, so the same one   *)
(* comes back later with another tag.  The goroutines, the mutex, the four *)
(* sync.Maps and the bounded channels of the code are all here.  Channels  *)
(* are sets: no property of this module depends on the order inside one,   *)
(* and a result channel holds <<pointer, reporter>> pairs, the reporter    *)
(* being a history component that no action's outcome depends on.          *)
(***************************************************************************)
EXTENDS Integers, FiniteSets

CONSTANTS
    Msg,                \* pointers of the message pool
    Tag,                \* tags a message may carry
    Sender,             \* configured senders
    Fork,               \* the fan-out goroutines, NFork of them
    Supports,           \* [Tag -> SUBSET Sender]: IsTagSupported
    DiscardWhenBlocked, \* senders whose refusal counts as a success
    NoSender,           \* reports on behalf of no sender (unsupported tag)
    None,               \* no message, no goroutine
    InChanSize,         \* capacity of a sender's inbound channel
    DiscardChanSize,    \* capacity of successedChan and of failedChan
    CommitChanSize,     \* capacity of the journal's commit channel
    SenderFork          \* messages a sender works on at once

ASSUME SenderAssumption ==
    /\ IsFiniteSet(Sender)
    /\ NoSender \notin Sender
    /\ DiscardWhenBlocked \subseteq Sender
    /\ Supports \in [Tag -> SUBSET Sender]

ASSUME NoneAssumption == None \notin Msg /\ None \notin Fork

ASSUME SizeAssumption ==
    /\ InChanSize \in Nat \ {0}
    /\ DiscardChanSize \in Nat \ {0}
    /\ CommitChanSize \in Nat \ {0}
    /\ SenderFork \in Nat \ {0}

Reporter == Sender \cup {NoSender}

(***************************************************************************)
(* Whoever must report a message of tag t before it may be released, and   *)
(* the number of them the fork registers in tag2NSender.                   *)
(***************************************************************************)
Reporters(t) == IF Supports[t] = {} THEN {NoSender} ELSE Supports[t]

(* Slip: a tag without senders is registered with the length of its list.   *)
NSenderOfList(t) == Cardinality(Supports[t])

NSender(t)   == IF Supports[t] = {} THEN 1 ELSE Cardinality(Supports[t])

VARIABLES
    msgPool,            \* pointers not in use
    msgTag,             \* msg.Tag of every pointer
    inChan,             \* the producer's InChan
    forkPc,             \* control state of each fork
    forkMsg,            \* the message a fork holds
    todo,               \* senders the fork has still to offer it to
    forkFor,            \* the sender a fork is about to report for
    lock,               \* the embedded sync.Mutex
    tag2NSender,        \* 0 when the key is absent
    tag2SenderCaches,   \* {} when the key is absent
    unSupportedTags,
    sender2senderCache, \* senders already spawned
    senderIn,           \* inbound channel of each sender
    sending,            \* messages a sender has taken and not reported
    successedChan, failedChan,
    colPc, colMsg, colFor, colOk,   \* the collector and what it holds
    discardMsgCountMap, \* count = 0 when the key is absent
    commitChan,
    \* history of the current pass of a pointer through the producer
    delivered, skipped, failed, counted

poolVars   == <<msgPool, msgTag, inChan>>
forkVars   == <<forkPc, forkMsg, todo, forkFor, lock>>
tagVars    == <<tag2NSender, tag2SenderCaches, unSupportedTags,
                sender2senderCache>>
senderVars == <<senderIn, sending>>
resultVars == <<successedChan, failedChan>>
colVars    == <<colPc, colMsg, colFor, colOk, discardMsgCountMap>>
history    == <<delivered, skipped, failed, counted>>
vars == <<poolVars, forkVars, tagVars, senderVars, resultVars, colVars,
          commitChan, history>>

(* What a step of one kind of goroutine leaves alone.                       *)
OutsideForks == UNCHANGED <<poolVars, tagVars, senderVars, resultVars, colVars,
                            commitChan, history>>
OutsideSenders == UNCHANGED <<poolVars, forkVars, tagVars, colVars, commitChan>>
OutsideCollector == UNCHANGED <<forkVars, tagVars, senderVars>>

ForkPcs == {"recv", "check", "load", "lock", "doubleCheck", "storeN",
            "storeCaches", "mark", "fanOut", "report"}

NoPending == [count |-> 0, isAllSuccessed |-> TRUE]

(***************************************************************************)
(* The type invariant: every variable holds a value of its Go type.        *)
(***************************************************************************)
TypeOK ==
    /\ msgPool \subseteq Msg /\ inChan \subseteq Msg /\ commitChan \subseteq Msg
    /\ msgTag \in [Msg -> Tag]
    /\ forkPc \in [Fork -> ForkPcs]
    /\ forkMsg \in [Fork -> Msg \cup {None}]
    /\ todo \in [Fork -> SUBSET Sender]
    /\ forkFor \in [Fork -> Reporter]
    /\ lock \in Fork \cup {None}
    /\ tag2NSender \in [Tag -> Nat]
    /\ tag2SenderCaches \in [Tag -> SUBSET Sender]
    /\ unSupportedTags \subseteq Tag
    /\ sender2senderCache \subseteq Sender
    /\ senderIn \in [Sender -> SUBSET Msg]
    /\ sending \in [Sender -> SUBSET Msg]
    /\ successedChan \subseteq Msg \X Reporter
    /\ failedChan \subseteq Msg \X Reporter
    /\ colPc \in {"recv", "count", "release"}
    /\ colMsg \in Msg \cup {None}
    /\ colFor \in Reporter
    /\ colOk \in BOOLEAN
    /\ discardMsgCountMap \in [Msg -> [count : Nat, isAllSuccessed : BOOLEAN]]
    /\ delivered \in [Msg -> SUBSET Sender]
    /\ skipped \in [Msg -> SUBSET Sender]
    /\ failed \in [Msg -> SUBSET Sender]
    /\ counted \in [Msg -> SUBSET Reporter]

Init ==
    /\ msgPool = Msg
    /\ msgTag \in [Msg -> Tag]
    /\ inChan = {}
    /\ forkPc = [f \in Fork |-> "recv"]
    /\ forkMsg = [f \in Fork |-> None]
    /\ todo = [f \in Fork |-> {}]
    /\ forkFor = [f \in Fork |-> NoSender]
    /\ lock = None
    /\ tag2NSender = [t \in Tag |-> 0]
    /\ tag2SenderCaches = [t \in Tag |-> {}]
    /\ unSupportedTags = {}
    /\ sender2senderCache = {}
    /\ senderIn = [s \in Sender |-> {}]
    /\ sending = [s \in Sender |-> {}]
    /\ successedChan = {} /\ failedChan = {}
    /\ colPc = "recv" /\ colMsg = None /\ colFor = NoSender /\ colOk = TRUE
    /\ discardMsgCountMap = [m \in Msg |-> NoPending]
    /\ commitChan = {}
    /\ delivered = [m \in Msg |-> {}]
    /\ skipped = [m \in Msg |-> {}]
    /\ failed = [m \in Msg |-> {}]
    /\ counted = [m \in Msg |-> {}]

-----------------------------------------------------------------------------
(* Upstream: a receiver or the journal takes a pointer from the pool, gives *)
(* it a tag and the message reaches InChan through the rest of the pipe.    *)
Upstream(m, t) ==
    /\ m \in msgPool
    /\ msgPool' = msgPool \ {m}
    /\ msgTag' = [msgTag EXCEPT ![m] = t]
    /\ inChan' = inChan \cup {m}
    /\ delivered' = [delivered EXCEPT ![m] = {}]
    /\ skipped' = [skipped EXCEPT ![m] = {}]
    /\ failed' = [failed EXCEPT ![m] = {}]
    /\ counted' = [counted EXCEPT ![m] = {}]
    /\ UNCHANGED <<forkVars, tagVars, senderVars, resultVars, colVars,
                   commitChan>>

-----------------------------------------------------------------------------
(* The fan-out goroutines of Producer.Run.                                  *)

ForkTag(f) == msgTag[forkMsg[f]]

(* Fork f has offered its message to everybody: back to the select.         *)
ForkContinue(f, rest) ==
    /\ todo' = [todo EXCEPT ![f] = rest]
    /\ forkPc' = [forkPc EXCEPT ![f] = IF rest = {} THEN "recv" ELSE "fanOut"]
    /\ forkMsg' = [forkMsg EXCEPT ![f] = IF rest = {} THEN None ELSE @]

ForkRecv(f, m) ==
    /\ forkPc[f] = "recv"
    /\ m \in inChan
    /\ inChan' = inChan \ {m}
    /\ forkMsg' = [forkMsg EXCEPT ![f] = m]
    /\ forkPc' = [forkPc EXCEPT ![f] = "check"]
    /\ UNCHANGED <<msgPool, msgTag, todo, forkFor, lock, tagVars, senderVars,
                   resultVars, colVars, commitChan, history>>

(* A tag already known to have no sender is reported without fan-out.       *)
ForkCheckTag(f) ==
    /\ forkPc[f] = "check"
    /\ forkPc' = [forkPc EXCEPT ![f] =
                    IF ForkTag(f) \in unSupportedTags THEN "report" ELSE "load"]
    /\ forkFor' = [forkFor EXCEPT ![f] = NoSender]
    /\ UNCHANGED <<forkMsg, todo, lock>>
    /\ OutsideForks

ForkLoadCaches(f) ==
    LET caches == tag2SenderCaches[ForkTag(f)] IN
    /\ forkPc[f] = "load"
    /\ forkPc' = [forkPc EXCEPT ![f] = IF caches = {} THEN "lock" ELSE "fanOut"]
    /\ todo' = [todo EXCEPT ![f] = caches]
    /\ UNCHANGED <<forkMsg, forkFor, lock>>
    /\ OutsideForks

ForkLock(f) ==
    /\ forkPc[f] = "lock"
    /\ lock = None
    /\ lock' = f
    /\ forkPc' = [forkPc EXCEPT ![f] = "doubleCheck"]
    /\ UNCHANGED <<forkMsg, todo, forkFor>>
    /\ OutsideForks

(* Under the lock: another fork registered the tag meanwhile ...            *)
ForkDoubleCheckHit(f) ==
    /\ forkPc[f] = "doubleCheck"
    /\ tag2SenderCaches[ForkTag(f)] # {}
    /\ todo' = [todo EXCEPT ![f] = tag2SenderCaches[ForkTag(f)]]
    /\ forkPc' = [forkPc EXCEPT ![f] = "fanOut"]
    /\ lock' = None
    /\ UNCHANGED <<forkMsg, forkFor>>
    /\ OutsideForks

(* Slip: the senders are published before their number.                     *)
ForkMissPublishesEarly(f) ==
    /\ forkPc[f] = "doubleCheck"
    /\ tag2SenderCaches[ForkTag(f)] = {}
    /\ sender2senderCache' = sender2senderCache \cup Supports[ForkTag(f)]
    /\ tag2SenderCaches' =
          [tag2SenderCaches EXCEPT ![ForkTag(f)] = Supports[ForkTag(f)]]
    /\ forkPc' = [forkPc EXCEPT ![f] = "storeN"]
    /\ UNCHANGED <<poolVars, forkMsg, todo, forkFor, lock, tag2NSender,
                   unSupportedTags, senderVars, resultVars, colVars,
                   commitChan, history>>

(* ... or the fork spawns the senders of the tag that do not run yet.       *)
ForkDoubleCheckMiss(f) ==
    /\ forkPc[f] = "doubleCheck"
    /\ tag2SenderCaches[ForkTag(f)] = {}
    /\ sender2senderCache' = sender2senderCache \cup Supports[ForkTag(f)]
    /\ forkPc' = [forkPc EXCEPT ![f] = "storeN"]
    /\ UNCHANGED <<poolVars, forkMsg, todo, forkFor, lock, tag2NSender,
                   tag2SenderCaches, unSupportedTags, senderVars, resultVars,
                   colVars, commitChan, history>>

ForkStoreN(f) ==
    /\ forkPc[f] = "storeN"
    /\ tag2NSender' = [tag2NSender EXCEPT ![ForkTag(f)] = NSender(ForkTag(f))]
    /\ forkPc' = [forkPc EXCEPT ![f] =
                    IF Supports[ForkTag(f)] = {} THEN "mark" ELSE "storeCaches"]
    /\ UNCHANGED <<poolVars, forkMsg, todo, forkFor, lock, tag2SenderCaches,
                   unSupportedTags, sender2senderCache, senderVars, resultVars,
                   colVars, commitChan, history>>

(* "tag2SenderCaches must put at last"; then the deferred unlock.           *)
ForkStoreCaches(f) ==
    /\ forkPc[f] = "storeCaches"
    /\ tag2SenderCaches' =
          [tag2SenderCaches EXCEPT ![ForkTag(f)] = Supports[ForkTag(f)]]
    /\ todo' = [todo EXCEPT ![f] = Supports[ForkTag(f)]]
    /\ forkPc' = [forkPc EXCEPT ![f] = "fanOut"]
    /\ lock' = None
    /\ UNCHANGED <<poolVars, forkMsg, forkFor, tag2NSender, unSupportedTags,
                   sender2senderCache, senderVars, resultVars, colVars,
                   commitChan, history>>

(* No sender supports the tag; the fork still holds the lock.               *)
ForkMarkUnsupported(f) ==
    /\ forkPc[f] = "mark"
    /\ unSupportedTags' = unSupportedTags \cup {ForkTag(f)}
    /\ forkFor' = [forkFor EXCEPT ![f] = NoSender]
    /\ forkPc' = [forkPc EXCEPT ![f] = "report"]
    /\ UNCHANGED <<poolVars, forkMsg, todo, lock, tag2NSender, tag2SenderCaches,
                   sender2senderCache, senderVars, resultVars, colVars,
                   commitChan, history>>

SenderFull(s) == Cardinality(senderIn[s]) >= InChanSize

ForkSend(f, s) ==
    /\ forkPc[f] = "fanOut"
    /\ s \in todo[f]
    /\ ~SenderFull(s)
    /\ senderIn' = [senderIn EXCEPT ![s] = @ \cup {forkMsg[f]}]
    /\ ForkContinue(f, todo[f] \ {s})
    /\ UNCHANGED <<poolVars, forkFor, lock, tagVars, sending, resultVars,
                   colVars, commitChan, history>>

(* Slip: a refusal is skipped without a report.                             *)
ForkRefusedUnreported(f, s) ==
    /\ forkPc[f] = "fanOut"
    /\ s \in todo[f]
    /\ SenderFull(s)
    /\ ForkContinue(f, todo[f] \ {s})
    /\ UNCHANGED <<forkFor, lock>>
    /\ OutsideForks

(* The default branch of the select: the channel of s is full.              *)
ForkRefused(f, s) ==
    /\ forkPc[f] = "fanOut"
    /\ s \in todo[f]
    /\ SenderFull(s)
    /\ forkFor' = [forkFor EXCEPT ![f] = s]
    /\ todo' = [todo EXCEPT ![f] = @ \ {s}]
    /\ forkPc' = [forkPc EXCEPT ![f] = "report"]
    /\ UNCHANGED <<forkMsg, lock>>
    /\ OutsideForks

(* The blocking send of the fork's own report, and the unlock when the lock *)
(* was held for it.                                                         *)
ForkReportGood(f) ==
    /\ forkPc[f] = "report"
    /\ forkFor[f] \in DiscardWhenBlocked \cup {NoSender}
    /\ Cardinality(successedChan) < DiscardChanSize
    /\ successedChan' = successedChan \cup {<<forkMsg[f], forkFor[f]>>}
    /\ skipped' = [skipped EXCEPT ![forkMsg[f]] = @ \cup ({forkFor[f]} \cap Sender)]
    /\ lock' = IF lock = f THEN None ELSE lock
    /\ ForkContinue(f, todo[f])
    /\ UNCHANGED <<poolVars, forkFor, tagVars, senderVars, failedChan, colVars,
                   commitChan, delivered, failed, counted>>

ForkReportFailed(f) ==
    /\ forkPc[f] = "report"
    /\ forkFor[f] \in Sender \ DiscardWhenBlocked
    /\ Cardinality(failedChan) < DiscardChanSize
    /\ failedChan' = failedChan \cup {<<forkMsg[f], forkFor[f]>>}
    /\ failed' = [failed EXCEPT ![forkMsg[f]] = @ \cup {forkFor[f]}]
    /\ ForkContinue(f, todo[f])
    /\ UNCHANGED <<poolVars, forkFor, lock, tagVars, senderVars, successedChan,
                   colVars, commitChan, delivered, skipped, counted>>

-----------------------------------------------------------------------------
(* A sender, by its contract: it takes messages from its inbound channel,   *)
(* and reports each one once, on successedChan after it delivered it or on  *)
(* failedChan after it gave up.                                             *)

SenderTake(s, m) ==
    /\ s \in sender2senderCache
    /\ m \in senderIn[s]
    /\ Cardinality(sending[s]) < SenderFork
    /\ senderIn' = [senderIn EXCEPT ![s] = @ \ {m}]
    /\ sending' = [sending EXCEPT ![s] = @ \cup {m}]
    /\ UNCHANGED <<resultVars, history>>
    /\ OutsideSenders

SenderSuccess(s, m) ==
    /\ m \in sending[s]
    /\ Cardinality(successedChan) < DiscardChanSize
    /\ sending' = [sending EXCEPT ![s] = @ \ {m}]
    /\ successedChan' = successedChan \cup {<<m, s>>}
    /\ delivered' = [delivered EXCEPT ![m] = @ \cup {s}]
    /\ UNCHANGED <<senderIn, failedChan, skipped, failed, counted>>
    /\ OutsideSenders

SenderFailure(s, m) ==
    /\ m \in sending[s]
    /\ Cardinality(failedChan) < DiscardChanSize
    /\ sending' = [sending EXCEPT ![s] = @ \ {m}]
    /\ failedChan' = failedChan \cup {<<m, s>>}
    /\ failed' = [failed EXCEPT ![m] = @ \cup {s}]
    /\ UNCHANGED <<senderIn, successedChan, delivered, skipped, counted>>
    /\ OutsideSenders

-----------------------------------------------------------------------------
(* runMsgCollector, the single goroutine that counts the reports.           *)

CollectorRecvSuccess(m, r) ==
    /\ colPc = "recv"
    /\ <<m, r>> \in successedChan
    /\ successedChan' = successedChan \ {<<m, r>>}
    /\ colPc' = "count" /\ colMsg' = m /\ colFor' = r /\ colOk' = TRUE
    /\ UNCHANGED <<poolVars, failedChan, discardMsgCountMap, commitChan, history>>
    /\ OutsideCollector

CollectorRecvFailure(m, r) ==
    /\ colPc = "recv"
    /\ <<m, r>> \in failedChan
    /\ failedChan' = failedChan \ {<<m, r>>}
    /\ colPc' = "count" /\ colMsg' = m /\ colFor' = r /\ colOk' = FALSE
    /\ UNCHANGED <<poolVars, successedChan, discardMsgCountMap, commitChan, history>>
    /\ OutsideCollector

(* Slip: a key that several pointers share.                                 *)
PendingKeyShared(m) == CHOOSE n \in Msg : TRUE

(* The key is the pointer and not the id: two pointers may carry one id.    *)
PendingKey(m) == m

(* Slips: the count goes down from a record that was never set, the flag    *)
(* only remembers the last report.                                          *)
PendingCountsDown ==
    [count |-> discardMsgCountMap[PendingKey(colMsg)].count - 1,
     isAllSuccessed |-> colOk]

PendingForgets ==
    [count |-> discardMsgCountMap[PendingKey(colMsg)].count + 1,
     isAllSuccessed |-> colOk]

(* The pending record of the message after the report the collector holds:  *)
(* a new one, or the stored one updated.                                    *)
Pending ==
    LET p == discardMsgCountMap[PendingKey(colMsg)] IN
    IF p.count = 0
    THEN [count |-> 1, isAllSuccessed |-> colOk]
    ELSE [count |-> p.count + 1, isAllSuccessed |-> p.isAllSuccessed /\ colOk]

CollectorReset ==
    colPc' = "recv" /\ colMsg' = None /\ colFor' = NoSender /\ colOk' = TRUE

(* Without the tag in tag2NSender the collector panics: no step from there. *)
CollectorStore ==
    /\ colPc = "count"
    /\ tag2NSender[msgTag[colMsg]] # 0
    /\ Pending.count # tag2NSender[msgTag[colMsg]]
    /\ discardMsgCountMap' =
          [discardMsgCountMap EXCEPT ![PendingKey(colMsg)] = Pending]
    /\ counted' = [counted EXCEPT ![colMsg] = @ \cup {colFor}]
    /\ CollectorReset
    /\ UNCHANGED <<poolVars, resultVars, commitChan, delivered, skipped, failed>>
    /\ OutsideCollector

(* Slip: the record of a finished message stays in the map.                 *)
CollectorKeepsRecord ==
    /\ colPc = "count"
    /\ tag2NSender[msgTag[colMsg]] # 0
    /\ Pending.count = tag2NSender[msgTag[colMsg]]
    /\ discardMsgCountMap' =
          [discardMsgCountMap EXCEPT ![PendingKey(colMsg)] = Pending]
    /\ counted' = [counted EXCEPT ![colMsg] = @ \cup {colFor}]
    /\ colPc' = "release"
    /\ colOk' = Pending.isAllSuccessed
    /\ UNCHANGED <<poolVars, resultVars, colMsg, colFor, commitChan, delivered,
                   skipped, failed>>
    /\ OutsideCollector

CollectorComplete ==
    /\ colPc = "count"
    /\ tag2NSender[msgTag[colMsg]] # 0
    /\ Pending.count = tag2NSender[msgTag[colMsg]]
    /\ discardMsgCountMap' =
          [discardMsgCountMap EXCEPT ![PendingKey(colMsg)] = NoPending]
    /\ counted' = [counted EXCEPT ![colMsg] = @ \cup {colFor}]
    /\ colPc' = "release"
    /\ colOk' = Pending.isAllSuccessed
    /\ UNCHANGED <<poolVars, resultVars, colMsg, colFor, commitChan, delivered, skipped, failed>>
    /\ OutsideCollector

(* discardMsg: commit when every sender succeeded, else back to the pool.   *)
DiscardCommit ==
    /\ colPc = "release"
    /\ colOk
    /\ Cardinality(commitChan) < CommitChanSize
    /\ commitChan' = commitChan \cup {colMsg}
    /\ CollectorReset
    /\ UNCHANGED <<poolVars, resultVars, discardMsgCountMap, history>>
    /\ OutsideCollector

(* Slip: the pool takes what should be committed.                           *)
DiscardRecycleAny ==
    /\ colPc = "release"
    /\ msgPool' = msgPool \cup {colMsg}
    /\ CollectorReset
    /\ UNCHANGED <<msgTag, inChan, resultVars, discardMsgCountMap, commitChan, history>>
    /\ OutsideCollector

DiscardRecycle ==
    /\ colPc = "release"
    /\ ~colOk
    /\ msgPool' = msgPool \cup {colMsg}
    /\ CollectorReset
    /\ UNCHANGED <<msgTag, inChan, resultVars, discardMsgCountMap, commitChan, history>>
    /\ OutsideCollector

(* The journal logs the committed id and puts the pointer into the pool.    *)
JournalCommit(m) ==
    /\ m \in commitChan
    /\ commitChan' = commitChan \ {m}
    /\ msgPool' = msgPool \cup {m}
    /\ UNCHANGED <<msgTag, inChan, resultVars, colVars, history>>
    /\ OutsideCollector

-----------------------------------------------------------------------------
ForkStep(f) ==
    \/ \E m \in Msg : ForkRecv(f, m)
    \/ ForkCheckTag(f) \/ ForkLoadCaches(f)
    \/ ForkLock(f) \/ ForkDoubleCheckHit(f) \/ ForkDoubleCheckMiss(f)
    \/ ForkStoreN(f) \/ ForkStoreCaches(f) \/ ForkMarkUnsupported(f)
    \/ \E s \in Sender : ForkSend(f, s) \/ ForkRefused(f, s)
    \/ ForkReportGood(f) \/ ForkReportFailed(f)

SenderStep(s) ==
    \E m \in Msg : SenderTake(s, m) \/ SenderSuccess(s, m) \/ SenderFailure(s, m)

CollectorStep ==
    \/ \E m \in Msg, r \in Reporter :
          CollectorRecvSuccess(m, r) \/ CollectorRecvFailure(m, r)
    \/ CollectorStore \/ CollectorComplete \/ DiscardCommit \/ DiscardRecycle

Next ==
    \/ \E m \in Msg, t \in Tag : Upstream(m, t)
    \/ \E f \in Fork : ForkStep(f)
    \/ \E s \in Sender : SenderStep(s)
    \/ CollectorStep
    \/ \E m \in Msg : JournalCommit(m)

Spec == Init /\ [][Next]_vars

(***************************************************************************)
(* Fairness.  Every goroutine keeps running.  Senders time out and bound    *)
(* their retries, so they report what they took; the journal's commit       *)
(* runner keeps reading.  Nothing makes the upstream send.                  *)
(***************************************************************************)
Fairness ==
    /\ \A f \in Fork : WF_vars(ForkStep(f))
    /\ \A s \in Sender : WF_vars(SenderStep(s))
    /\ WF_vars(CollectorStep)
    /\ WF_vars(\E m \in Msg : JournalCommit(m))

FairSpec == Spec /\ Fairness

-----------------------------------------------------------------------------
(* Somebody in the producer can still read, send or report m for r.         *)
Held(m) ==
    \/ \E f \in Fork : forkMsg[f] = m
    \/ \E s \in Sender : m \in senderIn[s] \cup sending[s]
    \/ \E r \in Reporter : <<m, r>> \in successedChan \cup failedChan
    \/ colPc = "count" /\ colMsg = m

(* The collector, the journal or the pool owns m.                           *)
Released ==
    msgPool \cup commitChan \cup (IF colPc = "release" THEN {colMsg} ELSE {})

(***************************************************************************)
(* A message handed to the journal or to the pool is out of every other    *)
(* hand: no fork is still fanning it out, no sender still has it queued or  *)
(* in flight, no report of it is under way, and nothing of its count stays  *)
(* behind for the next message with that pointer (the pool recycles         *)
(* pointers, so a late user would read or report another message).          *)
(***************************************************************************)
NoUseAfterRelease ==
    /\ \A m \in Released : ~Held(m) /\ discardMsgCountMap[m] = NoPending
    /\ msgPool \cap commitChan = {}
    /\ colPc = "release" => colMsg \notin msgPool \cup commitChan

(***************************************************************************)
(* The collector never meets a report whose tag has no entry in            *)
(* tag2NSender (its "[panic] tag2NSender should contains tag"), and the     *)
(* entry it reads is the number of reports that will come.                  *)
(***************************************************************************)
CollectorKnowsTag ==
    colPc = "count" =>
        tag2NSender[msgTag[colMsg]] = Cardinality(Reporters(msgTag[colMsg]))

(***************************************************************************)
(* A message is handed to the journal as done only when each sender that    *)
(* supports its tag has delivered it, or refused it with                    *)
(* discard_when_blocked set; no failed report is forgotten on the way.      *)
(***************************************************************************)
CommitOnlyAfterAllSent ==
    \A m \in commitChan :
        /\ Supports[msgTag[m]] \subseteq delivered[m] \cup skipped[m]
        /\ failed[m] = {}

(***************************************************************************)
(* A message goes back to the pool without a commit only if a sender failed *)
(* it; a message all senders accepted is never dropped uncommitted (it      *)
(* would be replayed for ever).                                             *)
(***************************************************************************)
RecycledOnlyAfterFailure ==
    [][\A m \in (msgPool' \ msgPool) \ commitChan : failed[m] # {}]_vars

UpstreamPauses == <>[][msgPool \subseteq msgPool']_vars

(***************************************************************************)
(* Whenever the upstream pauses, the producer drains: every message is      *)
(* released, so no report is lost, no count is left short, and the bounded  *)
(* channels between forks, senders, collector and journal never block each  *)
(* other for good.                                                          *)
(***************************************************************************)
DrainsWhenUpstreamPauses == UpstreamPauses => <>[](msgPool = Msg)
=============================================================================
