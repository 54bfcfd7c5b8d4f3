------------------------------ MODULE Concator ------------------------------
(***************************************************************************)
(* The concator of go-fluentd: internal/tagfilters/concator_f.go and the   *)
(* load balancer of internal/tagfilters/base.go.                           *)
(*                                                                         *)
(* A log entry of several lines arrives as one message per line.  A        *)
(* concator keeps the first line of an entry in a slot, named by the       *)
(* identifier of the container, appends the lines that follow to it, and   *)
(* sends it on when a new first line comes, when it is too long, or when   *)
(* nothing was appended for some seconds.  The factory starts NFork        *)
(* concators for every tag, behind a load balancer; they all use the one   *)
(* slot map of the factory, without a lock.                                *)
(*                                                                         *)
(* Lines are numbered as they arrive, and the number of a line is also the *)
(* message that carries it and the id of that message.  The text of a      *)
(* message is the sequence of the lines joined in it; ExtIds only repeats  *)
(* ids that DiscardMsg commits as well, and is left out.  What a race on   *)
(* the Go map can do is taken to be the interleavings of its operations;   *)
(* the runtime may also abort the program, which is a stop like any other. *)
(***************************************************************************)
EXTENDS Integers, SequencesExt

CONSTANTS
    Tag, Identifier,
    Worker,             \* the concators of the factory
    TagOf,              \* [Worker -> Tag]: the tag a concator is spawned for
    Route,              \* the concator for the lines of a container under a
                        \* tag: xxhash of LBKey % NFork
    MsgKey,             \* [Tag -> key of the text in msg.Message]
    PMsg,               \* the PendingMsg records
    NoPMsg,
    MaxLen,             \* an entry of so many lines is sent
    ChanSize,           \* capacity of every channel
    MaxLine             \* bound: lines that arrive

ASSUME ConcatorAssumption ==
    /\ TagOf \in [Worker -> Tag]
    /\ DOMAIN Route \subseteq Tag \X Identifier
    /\ \A src \in DOMAIN Route :
         Route[src] \in Worker /\ TagOf[Route[src]] = src[1]
    /\ Identifier # {}
    /\ NoPMsg \notin PMsg
    /\ {MaxLen, ChanSize, MaxLine} \subseteq Nat \ {0}

Line == 1 .. MaxLine

(* Which containers log under which tags; one may log under several.        *)
Source == DOMAIN Route

(* The classes of lines the code tells apart: a head matches the regexp, a  *)
(* tail does not, and an odd one has no identifier or no text.              *)
Kind == {"head", "tail", "odd"}

VARIABLES
    line,               \* what arrived: kind and identifier of each line
    dropped,            \* lines runLB threw away
    inChan,             \* the inchan of each concator
    slot, pMsgPool,     \* the factory's; how often a record is in the pool
    pending,            \* the msg of a PendingMsg, and whether lastT is old
    conc,               \* the local variables of each concator
    text,               \* of each message
    outChan,
    waitCommitChan,
    panicked,
    emitted,            \* history: the texts that left, in order
    committed           \* ids given to the journal by DiscardMsg

lineVars == <<line, dropped>>
slotVars == <<slot, pMsgPool, pending>>
vars == <<lineVars, inChan, slotVars, conc, text, outChan, waitCommitChan,
          panicked, emitted, committed>>

NoMsg == 0

(* Where a concator goes once outChan has taken what it sends.              *)
AfterSend == [pass |-> "top", replace |-> "swap", long |-> "longSent",
              flush |-> "flushed"]
Pc == {"top", "wait", "poll", "got", "insert", "known", "append", "discard",
       "scan"} \cup DOMAIN AfterSend \cup Range(AfterSend)

(* Types: of the shared slots and records, and of each concator's locals.   *)
TypeOK ==
    /\ line \in Seq([kind : Kind, src : Source]) /\ Len(line) <= MaxLine
    /\ dropped \subseteq Line /\ committed \subseteq Line
    /\ inChan \in [Worker -> Seq(Line)]
    /\ \A w \in Worker : Len(inChan[w]) <= ChanSize
    /\ slot \in [Identifier -> PMsg \cup {NoPMsg}]
    /\ pMsgPool \in [PMsg -> Nat]
    /\ pending \in [PMsg -> [msg : Line \cup {NoMsg}, old : BOOLEAN]]
    /\ conc \in [Worker -> [pc : Pc, msg : Line \cup {NoMsg},
                            pmsg : PMsg \cup {NoPMsg}, id : Identifier,
                            out : Line \cup {NoMsg},
                            scan : SUBSET Identifier]]
    /\ text \in [Line -> Seq(Line)]
    /\ outChan \in Seq(Line) /\ Len(outChan) <= ChanSize
    /\ waitCommitChan \in Seq(Line) /\ Len(waitCommitChan) <= ChanSize
    /\ emitted \in Seq(Seq(Line))
    /\ panicked \in BOOLEAN

Init ==
    /\ line = <<>> /\ dropped = {} /\ committed = {} /\ emitted = <<>>
    /\ inChan = [w \in Worker |-> <<>>]
    /\ slot = [i \in Identifier |-> NoPMsg]
    /\ pMsgPool = [p \in PMsg |-> 1]
    /\ pending = [p \in PMsg |-> [msg |-> NoMsg, old |-> FALSE]]
    /\ conc \in [Worker -> [pc : {"top"}, msg : {NoMsg}, pmsg : {NoPMsg},
                            id : {CHOOSE i \in Identifier : TRUE},
                            out : {NoMsg}, scan : {{}}]]
    /\ text = [m \in Line |-> <<m>>]
    /\ outChan = <<>> /\ waitCommitChan = <<>>
    /\ panicked = FALSE

At(w, pc) == ~panicked /\ conc[w].pc = pc

(* Concator w goes on with the local variables in r set.                    *)
Go(w, r) ==
    conc' = [conc EXCEPT ![w] =
                [k \in DOMAIN @ |-> IF k \in DOMAIN r THEN r[k] ELSE @[k]]]

OnlyLocal ==
    UNCHANGED <<lineVars, inChan, slotVars, text, outChan, waitCommitChan,
                panicked, emitted, committed>>

KindOf(m) == line[m].kind
SourceOf(m) == line[m].src
TagOfMsg(m) == SourceOf(m)[1]
IdOf(m) == SourceOf(m)[2]

(* The pointer m has a text under the MsgKey of concator w.                 *)
HasText(w, m) == MsgKey[TagOfMsg(m)] = MsgKey[TagOf[w]]

Fresh(m) == [msg |-> m, old |-> FALSE]

FreeSlot(i, p) ==
    /\ pMsgPool' = [pMsgPool EXCEPT ![p] = @ + 1]
    /\ slot' = [slot EXCEPT ![i] = NoPMsg]
    /\ UNCHANGED pending

-----------------------------------------------------------------------------
(* runLB hands a line to the concator its LBKey selects, or throws it away  *)
(* when that one's channel is full.                                         *)
Arrive(k, src) ==
    LET w == Route[src]
        m == Len(line) + 1 IN
    /\ ~panicked
    /\ m <= MaxLine
    /\ line' = Append(line, [kind |-> k, src |-> src])
    /\ IF Len(inChan[w]) < ChanSize
       THEN /\ inChan' = [inChan EXCEPT ![w] = Append(@, m)]
            /\ UNCHANGED dropped
       ELSE /\ dropped' = dropped \cup {m}
            /\ UNCHANGED inChan
    /\ UNCHANGED <<slotVars, conc, text, outChan, waitCommitChan, panicked,
                   emitted, committed>>

-----------------------------------------------------------------------------
(* StartNewConcator.                                                        *)

(* Slip: always the select without a default.                               *)
TopAlwaysWaits(w) ==
    /\ At(w, "top")
    /\ Go(w, [pc |-> "wait"])
    /\ OnlyLocal

(* The top of the loop: wait for a line if no slot is taken.                *)
Top(w) ==
    /\ At(w, "top")
    /\ Go(w, [pc |-> IF \A i \in Identifier : slot[i] = NoPMsg
                     THEN "wait" ELSE "poll"])
    /\ OnlyLocal

Receive(w) ==
    /\ At(w, "wait") \/ At(w, "poll")
    /\ inChan[w] # <<>>
    /\ Go(w, [pc |-> "got", msg |-> Head(inChan[w])])
    /\ inChan' = [inChan EXCEPT ![w] = Tail(@)]
    /\ UNCHANGED <<lineVars, slotVars, text, outChan, waitCommitChan,
                   panicked, emitted, committed>>

(* The entry in slot i has had no line for concatTimeoutTs.                 *)
Expired(i) == slot[i] # NoPMsg /\ pending[slot[i]].old

(* The default of the select: look through the slots.  An iteration over a  *)
(* map skips what is deleted before it gets there, and need not see what is *)
(* added.                                                                   *)
StartScan(w) ==
    /\ At(w, "poll")
    /\ inChan[w] = <<>>
    /\ Go(w, [pc |-> "scan",
              scan |-> {i \in Identifier : slot[i] # NoPMsg}])
    /\ OnlyLocal

ScanNext(w, i) ==
    /\ At(w, "scan")
    /\ i \in conc[w].scan
    /\ ~Expired(i)
    /\ Go(w, [scan |-> conc[w].scan \ {i}])
    /\ OnlyLocal

(* A slot has timed out; the text must be there under this tag's key.       *)
ScanExpired(w, i) ==
    LET p == slot[i] IN
    /\ At(w, "scan")
    /\ i \in conc[w].scan
    /\ Expired(i)
    /\ IF HasText(w, pending[p].msg)
       THEN /\ Go(w, [pc |-> "flush", pmsg |-> p, id |-> i,
                      out |-> pending[p].msg,
                      scan |-> conc[w].scan \ {i}])
            /\ UNCHANGED panicked
       ELSE panicked' = TRUE /\ UNCHANGED conc
    /\ UNCHANGED <<lineVars, inChan, slotVars, text, outChan, waitCommitChan,
                   emitted, committed>>

(* timer.Sleep.                                                             *)
ScanEnd(w) ==
    /\ At(w, "scan")
    /\ conc[w].scan = {}
    /\ Go(w, [pc |-> "top"])
    /\ OnlyLocal

(* Slip: the flushed record goes back to the pool but stays in the slot.    *)
FlushKeepsSlot(w) ==
    /\ At(w, "flushed")
    /\ pMsgPool' = [pMsgPool EXCEPT ![conc[w].pmsg] = @ + 1]
    /\ Go(w, [pc |-> "scan"])
    /\ UNCHANGED <<lineVars, inChan, slot, pending, text, outChan,
                   waitCommitChan, panicked, emitted, committed>>

Flushed(w) ==
    /\ At(w, "flushed")
    /\ FreeSlot(conc[w].id, conc[w].pmsg)
    /\ Go(w, [pc |-> "scan"])
    /\ UNCHANGED <<lineVars, inChan, text, outChan, waitCommitChan, panicked,
                   emitted, committed>>

(* Slip: no waiting for room in outChan.                                    *)
SendNoWait(w) ==
    /\ \E pc \in DOMAIN AfterSend :
         At(w, pc) /\ Go(w, [pc |-> AfterSend[pc]])
    /\ outChan' = Append(outChan, conc[w].out)
    /\ UNCHANGED <<lineVars, inChan, slotVars, text, waitCommitChan, panicked,
                   emitted, committed>>

(* A blocking send of conc[w].out to outChan, at four places of the loop.   *)
Send(w) ==
    /\ \E pc \in DOMAIN AfterSend :
         At(w, pc) /\ Go(w, [pc |-> AfterSend[pc]])
    /\ Len(outChan) < ChanSize
    /\ outChan' = Append(outChan, conc[w].out)
    /\ UNCHANGED <<lineVars, inChan, slotVars, text, waitCommitChan, panicked,
                   emitted, committed>>

-----------------------------------------------------------------------------
(* A line: an odd one, or a tail without a head, passes.                    *)
Handle(w) ==
    LET m == conc[w].msg IN
    /\ At(w, "got")
    /\ \/ /\ KindOf(m) = "odd"
          /\ Go(w, [pc |-> "pass", out |-> m])
       \/ /\ KindOf(m) = "tail" /\ slot[IdOf(m)] = NoPMsg
          /\ Go(w, [pc |-> "pass", out |-> m])
       \/ /\ KindOf(m) = "head" /\ slot[IdOf(m)] = NoPMsg
          /\ Go(w, [pc |-> "insert", id |-> IdOf(m)])
       \/ /\ KindOf(m) # "odd" /\ slot[IdOf(m)] # NoPMsg
          /\ Go(w, [pc |-> "known", id |-> IdOf(m)])
    /\ OnlyLocal

Insert(w) ==
    /\ At(w, "insert")
    /\ \E p \in PMsg :
         /\ pMsgPool[p] > 0
         /\ pMsgPool' = [pMsgPool EXCEPT ![p] = @ - 1]
         /\ pending' = [pending EXCEPT ![p] = Fresh(conc[w].msg)]
         /\ slot' = [slot EXCEPT ![conc[w].id] = p]
    /\ Go(w, [pc |-> "top"])
    /\ UNCHANGED <<lineVars, inChan, text, outChan, waitCommitChan, panicked,
                   emitted, committed>>

(* Slip: no regexp, every line of a known identifier is appended.           *)
KnownAppends(w) ==
    LET p == slot[conc[w].id] IN
    /\ At(w, "known")
    /\ p # NoPMsg
    /\ Go(w, [pc |-> "append", pmsg |-> p])
    /\ OnlyLocal

(* Slip: the new head takes the slot and the old one is not sent.           *)
KnownForgetsOld(w) ==
    LET p == slot[conc[w].id] IN
    /\ At(w, "known")
    /\ p # NoPMsg
    /\ Go(w, [pc |-> IF KindOf(conc[w].msg) = "head" THEN "swap"
                     ELSE "append", pmsg |-> p])
    /\ OnlyLocal

(* The slot is read again; another concator may have emptied it, and a nil  *)
(* record panics.                                                           *)
Known(w) ==
    LET p == slot[conc[w].id] IN
    /\ At(w, "known")
    /\ IF p = NoPMsg
       THEN panicked' = TRUE /\ UNCHANGED conc
       ELSE /\ Go(w, IF KindOf(conc[w].msg) = "head"
                     THEN [pc |-> "replace", pmsg |-> p,
                           out |-> pending[p].msg]
                     ELSE [pc |-> "append", pmsg |-> p])
            /\ UNCHANGED panicked
    /\ UNCHANGED <<lineVars, inChan, slotVars, text, outChan, waitCommitChan,
                   emitted, committed>>

Swap(w) ==
    /\ At(w, "swap")
    /\ pending' = [pending EXCEPT ![conc[w].pmsg] = Fresh(conc[w].msg)]
    /\ Go(w, [pc |-> "top"])
    /\ UNCHANGED <<lineVars, inChan, slot, pMsgPool, text, outChan,
                   waitCommitChan, panicked, emitted, committed>>

(* The text of the tail goes into the head.  A head of another tag has no   *)
(* text under this tag's key, and the type assertion panics.                *)
Concat(w) ==
    LET m == conc[w].msg
        p == conc[w].pmsg
        h == pending[p].msg IN
    /\ At(w, "append")
    /\ IF HasText(w, h)
       THEN /\ text' = [text EXCEPT ![h] = @ \o text[m]]
            /\ pending' = [pending EXCEPT ![p] = Fresh(h)]
            /\ Go(w, IF Len(text'[h]) >= MaxLen
                     THEN [pc |-> "long", out |-> h] ELSE [pc |-> "discard"])
            /\ UNCHANGED panicked
       ELSE panicked' = TRUE /\ UNCHANGED <<text, pending, conc>>
    /\ UNCHANGED <<lineVars, inChan, slot, pMsgPool, outChan, waitCommitChan,
                   emitted, committed>>

LongSent(w) ==
    /\ At(w, "longSent")
    /\ FreeSlot(conc[w].id, conc[w].pmsg)
    /\ Go(w, [pc |-> "discard"])
    /\ UNCHANGED <<lineVars, inChan, text, outChan, waitCommitChan, panicked,
                   emitted, committed>>

(* The tail itself is handed to the journal as done with.                   *)
DiscardMsg(w) ==
    /\ At(w, "discard")
    /\ Len(waitCommitChan) < ChanSize
    /\ waitCommitChan' = Append(waitCommitChan, conc[w].msg)
    /\ Go(w, [pc |-> "top"])
    /\ UNCHANGED <<lineVars, inChan, slotVars, text, outChan, panicked,
                   emitted, committed>>

-----------------------------------------------------------------------------
(* The clock reaches concatTimeoutTs for an entry.                          *)
Expire(i) ==
    /\ ~panicked
    /\ slot[i] # NoPMsg /\ ~Expired(i)
    /\ pending' = [pending EXCEPT ![slot[i]].old = TRUE]
    /\ UNCHANGED <<lineVars, inChan, slot, pMsgPool, conc, text, outChan,
                   waitCommitChan, panicked, emitted, committed>>

(* The next filter, or the post pipeline, takes a message.                  *)
Consume ==
    /\ ~panicked
    /\ outChan # <<>>
    /\ emitted' = Append(emitted, text[Head(outChan)])
    /\ outChan' = Tail(outChan)
    /\ UNCHANGED <<lineVars, inChan, slotVars, conc, text, waitCommitChan,
                   panicked, committed>>

(* The journal writes an id.                                                *)
Commit ==
    /\ ~panicked
    /\ waitCommitChan # <<>>
    /\ committed' = committed \cup {Head(waitCommitChan)}
    /\ waitCommitChan' = Tail(waitCommitChan)
    /\ UNCHANGED <<lineVars, inChan, slotVars, conc, text, outChan, panicked,
                   emitted>>

ConcatorStep(w) ==
    \/ Top(w) \/ Receive(w) \/ StartScan(w)
    \/ \E i \in Identifier : ScanNext(w, i) \/ ScanExpired(w, i)
    \/ ScanEnd(w) \/ Flushed(w) \/ Send(w)
    \/ Handle(w) \/ Insert(w) \/ Known(w) \/ Swap(w) \/ Concat(w)
    \/ LongSent(w) \/ DiscardMsg(w)

Next ==
    \/ \E k \in Kind, src \in Source : Arrive(k, src)
    \/ \E w \in Worker : ConcatorStep(w)
    \/ \E i \in Identifier : Expire(i)
    \/ Consume \/ Commit

Spec == Init /\ [][Next]_vars

(* Goroutines keep running and time passes; nobody has to send lines.       *)
FairSpec ==
    /\ Spec
    /\ \A w \in Worker : WF_vars(ConcatorStep(w))
    /\ \A i \in Identifier : WF_vars(Expire(i))
    /\ WF_vars(Consume) /\ WF_vars(Commit)

-----------------------------------------------------------------------------
(* Messages that are on their way, by pointer.                              *)
Holding(w) ==
    IF conc[w].pc \in {"got", "insert", "known", "append", "pass", "replace",
                       "swap"}
    THEN {conc[w].msg} ELSE {}

InTransit ==
    (UNION {ToSet(inChan[w]) \cup Holding(w) : w \in Worker})
      \cup {pending[slot[i]].msg : i \in {j \in Identifier : slot[j] # NoPMsg}}
      \cup ToSet(outChan)

Arrived == (1 .. Len(line)) \ dropped

LinesOut == FlattenSeq(emitted)

(* A line the load balancer let through is in a message on its way, or has  *)
(* left: no path through slots, swaps and flushes loses one.                *)
NoLineLost ==
    \A m \in Arrived :
        \/ \E q \in InTransit : m \in ToSet(text[q])
        \/ m \in ToSet(LinesOut)

(* No line leaves twice, whatever was flushed or replaced in between, and   *)
(* the heads and tails of one container leave in the order they came in,    *)
(* across entries; only odd lines overtake.                                 *)
InOrder ==
    /\ IsInjective(LinesOut)
    /\ \A a, b \in 1 .. Len(LinesOut) :
           LET m == LinesOut[a]
               n == LinesOut[b] IN
           a < b /\ SourceOf(m) = SourceOf(n) /\ "odd" \notin {KindOf(m), KindOf(n)}
             => m < n

(* What leaves is one entry: a single line, or a head and then only tails   *)
(* of the same container and tag.  It is no longer than MaxLen, unless one  *)
(* tail was added to a head that was too long by itself.                    *)
EmittedIsOneEntry ==
    \A e \in ToSet(emitted) :
        Len(e) > 1 =>
            /\ KindOf(e[1]) = "head"
            /\ \A a \in 2 .. Len(e) : KindOf(e[a]) = "tail"
            /\ \A a \in 1 .. Len(e) : SourceOf(e[a]) = SourceOf(e[1])
            /\ Len(e) <= MaxLen \/ Len(e) = 2

(* A slot that was found taken holds a record when it is read again, and    *)
(* the entry in it has a text under the concator's key: neither a nil       *)
(* record, at lines 176 and 189, nor the assertions of 101 and 189 panic.   *)
NeverPanics == ~panicked

(* Every line the load balancer let through leaves in the end: an entry     *)
(* that no other line pushes out is flushed after the timeout.              *)
LinesLeave ==
    \A m \in Line : m \in Arrived ~> m \in ToSet(LinesOut)
=============================================================================
