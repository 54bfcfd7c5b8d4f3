--------------------------- MODULE ConcatorProofs ---------------------------
(***************************************************************************)
(* Proofs about the concators.  The types hold however many concators share *)
(* the slots.  A factory that starts one concator loses no line, sends the  *)
(* lines of a container in the order they came and each once, joins only    *)
(* lines of one entry, and never panics.                                    *)
(***************************************************************************)
EXTENDS Concator, SeqLemmas

-----------------------------------------------------------------------------
(* The invariant of any number of concators: their pointers lead to         *)
(* messages that arrived.                                                   *)

Seen == 1 .. Len(line)

(* Where a concator has a line, a record, and something to send.            *)
HasMsg == {"got", "insert", "known", "append", "discard", "replace", "swap",
           "long", "longSent"}
HasRec == {"append", "replace", "swap", "long", "longSent", "flush", "flushed"}
HasOut == {"pass", "replace", "long", "flush"}

PointerInv ==
    /\ \A w \in Worker : ToSet(inChan[w]) \subseteq Seen
    /\ \A w \in Worker : conc[w].pc \in HasMsg => conc[w].msg \in Seen
    /\ \A w \in Worker : conc[w].pc \in HasRec =>
          conc[w].pmsg \in PMsg /\ pending[conc[w].pmsg].msg # NoMsg
    /\ \A w \in Worker : conc[w].pc \in HasOut => conc[w].out # NoMsg
    /\ \A i \in Identifier : slot[i] # NoPMsg => pending[slot[i]].msg # NoMsg

Inv == TypeOK /\ PointerInv

-----------------------------------------------------------------------------
(* The invariant of one concator.                                           *)
OneConcator == \E w \in Worker : Worker = {w}

Me == CHOOSE w \in Worker : TRUE
My == conc[Me]

(* A record is in one slot, or in the pool ...                              *)
RecordInv ==
    /\ ~panicked
    /\ \A p \in PMsg : pMsgPool[p] <= 1
    /\ \A p \in PMsg : (\E i \in Identifier : slot[i] = p) => pMsgPool[p] = 0
    /\ \A i, j \in Identifier : slot[i] = slot[j] /\ slot[i] # NoPMsg => i = j

(* ... and the locals agree with the slots.                                 *)
LocalsInv ==
    /\ My.pc \in {"insert", "known", "append", "replace", "swap"} => My.id = IdOf(My.msg)
    /\ My.pc \in {"insert", "replace", "swap"} => KindOf(My.msg) = "head"
    /\ My.pc = "insert" => slot[My.id] = NoPMsg
    /\ My.pc = "known" => KindOf(My.msg) # "odd" /\ slot[My.id] # NoPMsg
    /\ My.pc = "append" => KindOf(My.msg) = "tail"
    /\ My.pc \in HasRec => slot[My.id] = My.pmsg
    /\ My.pc \in {"replace", "long", "flush"} => My.out = pending[My.pmsg].msg
    /\ My.pc = "pass" =>
          /\ My.out = My.msg /\ My.msg \in Seen
          /\ \/ KindOf(My.msg) = "odd"
             \/ KindOf(My.msg) = "tail" /\ slot[IdOf(My.msg)] = NoPMsg

(* The lines that it has not dealt with, the first line of the entry in     *)
(* each slot, the entry that it has sent and that is still in its slot, and *)
(* the one that is long enough.                                             *)
Queue == inChan[Me]
Held == Holding(Me)
HeadOf(i) == IF slot[i] = NoPMsg THEN NoMsg ELSE pending[slot[i]].msg
Heads == [i \in Identifier |-> HeadOf(i)]
Sent == IF My.pc \in {"swap", "longSent", "flushed"} THEN {My.id} ELSE {}
Long == IF My.pc \in {"long", "longSent"} THEN {My.id} ELSE {}
Open == {i \in Identifier : Heads[i] # NoMsg}

LinesOf(m) == ToSet(text[m])
Gone == ToSet(LinesOut)

(* The line n may leave after the line m.                                   *)
Follows(n, m) ==
    /\ m # n
    /\ SourceOf(m) = SourceOf(n) /\ "odd" \notin {KindOf(m), KindOf(n)} => m < n

(* Every text is one entry, in the order of arrival.                        *)
IsEntry(m) ==
    /\ Len(text[m]) \in Nat \ {0} /\ text[m][1] = m
    /\ \A a, b \in 1 .. Len(text[m]) : a < b => text[m][a] < text[m][b]
    /\ Len(text[m]) > 1 =>
          /\ m \in Seen /\ KindOf(m) = "head"
          /\ \A a \in 2 .. Len(text[m]) :
                /\ text[m][a] \in Seen
                /\ KindOf(text[m][a]) = "tail"
                /\ SourceOf(text[m][a]) = SourceOf(m)
    /\ Len(text[m]) <= MaxLen \/ Len(text[m]) <= 2

EntryInv == \A m \in Line : IsEntry(m)

(* What waits stands alone, in order, ...                                   *)
QueueInv ==
    /\ \A a \in 1 .. Len(Queue) : Queue[a] \in Seen /\ text[Queue[a]] = <<Queue[a]>>
    /\ \A a, b \in 1 .. Len(Queue) : a < b => Queue[a] < Queue[b]
    /\ \A m \in Held : m \in Seen /\ text[m] = <<m>> /\ \A x \in ToSet(Queue) : m < x
    /\ \A m \in Line \ Seen : text[m] = <<m>>

(* ... and came after everything that was dealt with: what left, what is    *)
(* sent and what is in a slot.                                              *)
Waiting == Held \cup ToSet(Queue)
Done ==
    {x \in Line : \/ x \in Gone
                  \/ \E q \in ToSet(outChan) : x \in LinesOf(q)
                  \/ \E i \in Open : x \in LinesOf(Heads[i])}

DoneInv == Done \subseteq Seen /\ \A x \in Done : \A y \in Waiting : x < y

HeadInv ==
    \A i \in Open :
        /\ Heads[i] \in Seen /\ KindOf(Heads[i]) = "head" /\ IdOf(Heads[i]) = i
        /\ i \in Long \/ Len(text[Heads[i]]) < MaxLen \/ Len(text[Heads[i]]) = 1

SentInv ==
    \A i \in Sent :
        i \in Open /\ (Heads[i] \in ToSet(outChan) \/ LinesOf(Heads[i]) \subseteq Gone)

(* What left, what is sent and what is still to be sent, in this order.     *)
AllFollow(N, M) == \A n \in N, m \in M : Follows(n, m)

OrderInv ==
    /\ \A a, b \in 1 .. Len(LinesOut) : a < b => Follows(LinesOut[b], LinesOut[a])
    /\ \A q \in ToSet(outChan) : AllFollow(LinesOf(q), Gone)
    /\ \A a, b \in 1 .. Len(outChan) :
          a < b => AllFollow(LinesOf(outChan[b]), LinesOf(outChan[a]))
    /\ \A i \in Open \ Sent :
          /\ AllFollow(LinesOf(Heads[i]), Gone)
          /\ \A q \in ToSet(outChan) : AllFollow(LinesOf(Heads[i]), LinesOf(q))

(* No line is lost.                                                         *)
KeptInv == Arrived \subseteq Waiting \cup Done

(* What left is made of lines that came, and is one entry.                  *)
EmittedInv ==
    (\A e \in ToSet(emitted) : ToSet(e) \subseteq Seen) /\ EmittedIsOneEntry

DataInv ==
    /\ EntryInv /\ QueueInv /\ DoneInv /\ HeadInv /\ SentInv /\ OrderInv /\ KeptInv
    /\ EmittedInv

OneInv == Inv /\ RecordInv /\ LocalsInv /\ DataInv

-----------------------------------------------------------------------------
(* A concator goes on.                                                      *)
ConcState ==
    [pc : Pc, msg : Line \cup {NoMsg}, pmsg : PMsg \cup {NoPMsg}, id : Identifier,
     out : Line \cup {NoMsg}, scan : SUBSET Identifier]

(* The concator has its new locals, the others keep theirs.                 *)
Becomes(w, pc, m, p, i, o, s) ==
    /\ conc' = [v \in Worker |-> IF v = w THEN conc'[w] ELSE conc[v]]
    /\ conc'[w] = [pc |-> pc, msg |-> m, pmsg |-> p, id |-> i, out |-> o, scan |-> s]

(* The states of a concator, one by one.                                    *)
LEMMA PcIs ==
    /\ Pc = {"top", "wait", "poll", "got", "insert", "known", "append", "discard",
             "scan", "pass", "replace", "long", "flush", "swap", "longSent", "flushed"}
    /\ DOMAIN AfterSend = HasOut
    /\ AfterSend["pass"] = "top" /\ AfterSend["replace"] = "swap"
    /\ AfterSend["long"] = "longSent" /\ AfterSend["flush"] = "flushed"
<1>1. /\ DOMAIN AfterSend = {"pass", "replace", "long", "flush"}
      /\ AfterSend["pass"] = "top" /\ AfterSend["replace"] = "swap"
      /\ AfterSend["long"] = "longSent" /\ AfterSend["flush"] = "flushed"
  BY DEF AfterSend
<1>2. Range(AfterSend) = {"top", "swap", "longSent", "flushed"}
  BY <1>1 DEF Range
<1>3. QED
  BY <1>1, <1>2 DEF Pc, HasOut

(* What the assignment of the model does, for the fields that are named.    *)
LEMMA GoDoes ==
    ASSUME conc \in [Worker -> ConcState], NEW w \in Worker, NEW r, Go(w, r)
    PROVE  Becomes(w, IF "pc" \in DOMAIN r THEN r.pc ELSE conc[w].pc,
                      IF "msg" \in DOMAIN r THEN r.msg ELSE conc[w].msg,
                      IF "pmsg" \in DOMAIN r THEN r.pmsg ELSE conc[w].pmsg,
                      IF "id" \in DOMAIN r THEN r.id ELSE conc[w].id,
                      IF "out" \in DOMAIN r THEN r.out ELSE conc[w].out,
                      IF "scan" \in DOMAIN r THEN r.scan ELSE conc[w].scan)
<1> DEFINE q == conc[w]
           N(k) == IF k \in DOMAIN r THEN r[k] ELSE q[k]
<1>1. conc' = [conc EXCEPT ![w] = [k \in DOMAIN q |-> N(k)]]
  BY DEF Go
<1>2. DOMAIN q = {"pc", "msg", "pmsg", "id", "out", "scan"}
  BY DEF ConcState
<1>3. conc'[w] = [k \in {"pc", "msg", "pmsg", "id", "out", "scan"} |-> N(k)]
  BY <1>1, <1>2
<1>4. conc' = [v \in Worker |-> IF v = w THEN conc'[w] ELSE conc[v]]
  BY <1>1
<1> HIDE DEF q
<1>5. [k \in {"pc", "msg", "pmsg", "id", "out", "scan"} |-> N(k)] =
        [pc |-> N("pc"), msg |-> N("msg"), pmsg |-> N("pmsg"), id |-> N("id"),
         out |-> N("out"), scan |-> N("scan")]
  OBVIOUS
<1> HIDE DEF N
<1>6. Becomes(w, N("pc"), N("msg"), N("pmsg"), N("id"), N("out"), N("scan"))
  BY <1>3, <1>4, <1>5 DEF Becomes
<1>7. QED
  BY <1>6 DEF N, q

(* The assignments that the steps of a concator make.                       *)
LEMMA GoPc ==
    ASSUME conc \in [Worker -> ConcState], NEW w \in Worker, NEW x,
           Go(w, [pc |-> x])
    PROVE  Becomes(w, x, conc[w].msg, conc[w].pmsg, conc[w].id, conc[w].out, conc[w].scan)
<1> DEFINE r == [pc |-> x]
<1>1. DOMAIN r = {"pc"}
      /\ r.pc = x
  OBVIOUS
<1> HIDE DEF r
<1>2. Go(w, r)
  BY DEF r
<1>3. QED
  BY <1>1, <1>2, GoDoes

(* It receives a line.                                                      *)
LEMMA GoMsg ==
    ASSUME conc \in [Worker -> ConcState], NEW w \in Worker, NEW x, NEW m,
           Go(w, [pc |-> x, msg |-> m])
    PROVE  Becomes(w, x, m, conc[w].pmsg, conc[w].id, conc[w].out, conc[w].scan)
<1> DEFINE r == [pc |-> x, msg |-> m]
<1>1. DOMAIN r = {"pc", "msg"}
      /\ r.pc = x /\ r.msg = m
  OBVIOUS
<1> HIDE DEF r
<1>2. Go(w, r)
  BY DEF r
<1>3. QED
  BY <1>1, <1>2, GoDoes

(* It passes over a slot.                                                   *)
LEMMA GoScan ==
    ASSUME conc \in [Worker -> ConcState], NEW w \in Worker, NEW s,
           Go(w, [scan |-> s])
    PROVE  Becomes(w, conc[w].pc, conc[w].msg, conc[w].pmsg, conc[w].id, conc[w].out, s)
<1> DEFINE r == [scan |-> s]
<1>1. DOMAIN r = {"scan"}
      /\ r.scan = s
  OBVIOUS
<1> HIDE DEF r
<1>2. Go(w, r)
  BY DEF r
<1>3. QED
  BY <1>1, <1>2, GoDoes

(* It begins to look through the slots.                                     *)
LEMMA GoPcScan ==
    ASSUME conc \in [Worker -> ConcState], NEW w \in Worker, NEW x, NEW s,
           Go(w, [pc |-> x, scan |-> s])
    PROVE  Becomes(w, x, conc[w].msg, conc[w].pmsg, conc[w].id, conc[w].out, s)
<1> DEFINE r == [pc |-> x, scan |-> s]
<1>1. DOMAIN r = {"pc", "scan"}
      /\ r.pc = x /\ r.scan = s
  OBVIOUS
<1> HIDE DEF r
<1>2. Go(w, r)
  BY DEF r
<1>3. QED
  BY <1>1, <1>2, GoDoes

(* It has found a slot to flush.                                            *)
LEMMA GoFlush ==
    ASSUME conc \in [Worker -> ConcState], NEW w \in Worker, NEW x, NEW p, NEW i, NEW o, NEW s,
           Go(w, [pc |-> x, pmsg |-> p, id |-> i, out |-> o, scan |-> s])
    PROVE  Becomes(w, x, conc[w].msg, p, i, o, s)
<1> DEFINE r == [pc |-> x, pmsg |-> p, id |-> i, out |-> o, scan |-> s]
<1>1. DOMAIN r = {"pc", "pmsg", "id", "out", "scan"}
      /\ r.pc = x /\ r.pmsg = p /\ r.id = i /\ r.out = o /\ r.scan = s
  OBVIOUS
<1> HIDE DEF r
<1>2. Go(w, r)
  BY DEF r
<1>3. QED
  BY <1>1, <1>2, GoDoes

(* It has something to send.                                                *)
LEMMA GoOut ==
    ASSUME conc \in [Worker -> ConcState], NEW w \in Worker, NEW x, NEW o,
           Go(w, [pc |-> x, out |-> o])
    PROVE  Becomes(w, x, conc[w].msg, conc[w].pmsg, conc[w].id, o, conc[w].scan)
<1> DEFINE r == [pc |-> x, out |-> o]
<1>1. DOMAIN r = {"pc", "out"}
      /\ r.pc = x /\ r.out = o
  OBVIOUS
<1> HIDE DEF r
<1>2. Go(w, r)
  BY DEF r
<1>3. QED
  BY <1>1, <1>2, GoDoes

(* It knows the identifier of the line.                                     *)
LEMMA GoId ==
    ASSUME conc \in [Worker -> ConcState], NEW w \in Worker, NEW x, NEW i,
           Go(w, [pc |-> x, id |-> i])
    PROVE  Becomes(w, x, conc[w].msg, conc[w].pmsg, i, conc[w].out, conc[w].scan)
<1> DEFINE r == [pc |-> x, id |-> i]
<1>1. DOMAIN r = {"pc", "id"}
      /\ r.pc = x /\ r.id = i
  OBVIOUS
<1> HIDE DEF r
<1>2. Go(w, r)
  BY DEF r
<1>3. QED
  BY <1>1, <1>2, GoDoes

(* It has read the slot ...                                                 *)
LEMMA GoRec ==
    ASSUME conc \in [Worker -> ConcState], NEW w \in Worker, NEW x, NEW p,
           Go(w, [pc |-> x, pmsg |-> p])
    PROVE  Becomes(w, x, conc[w].msg, p, conc[w].id, conc[w].out, conc[w].scan)
<1> DEFINE r == [pc |-> x, pmsg |-> p]
<1>1. DOMAIN r = {"pc", "pmsg"}
      /\ r.pc = x /\ r.pmsg = p
  OBVIOUS
<1> HIDE DEF r
<1>2. Go(w, r)
  BY DEF r
<1>3. QED
  BY <1>1, <1>2, GoDoes

(* ... and has the entry in it to send.                                     *)
LEMMA GoRecOut ==
    ASSUME conc \in [Worker -> ConcState], NEW w \in Worker, NEW x, NEW p, NEW o,
           Go(w, [pc |-> x, pmsg |-> p, out |-> o])
    PROVE  Becomes(w, x, conc[w].msg, p, conc[w].id, o, conc[w].scan)
<1> DEFINE r == [pc |-> x, pmsg |-> p, out |-> o]
<1>1. DOMAIN r = {"pc", "pmsg", "out"}
      /\ r.pc = x /\ r.pmsg = p /\ r.out = o
  OBVIOUS
<1> HIDE DEF r
<1>2. Go(w, r)
  BY DEF r
<1>3. QED
  BY <1>1, <1>2, GoDoes

-----------------------------------------------------------------------------
(* What each step does.                                                     *)
Same(w, x) == Becomes(w, x, conc[w].msg, conc[w].pmsg, conc[w].id, conc[w].out, conc[w].scan)

LEMMA ConcTyped == ASSUME Inv PROVE conc \in [Worker -> ConcState]
BY DEF Inv, TypeOK, ConcState

(* What each action does to the locals of its concator.                     *)
LEMMA TopDoes ==
    ASSUME Inv, NEW w \in Worker, Top(w)
    PROVE  /\ conc[w].pc = "top" /\ OnlyLocal
           /\ Same(w, "wait") \/ Same(w, "poll")
BY ConcTyped, GoPc DEF Top, At, Same

LEMMA ReceiveDoes ==
    ASSUME Inv, NEW w \in Worker, Receive(w)
    PROVE  /\ conc[w].pc \in {"wait", "poll"} /\ inChan[w] # <<>>
           /\ Becomes(w, "got", Head(inChan[w]), conc[w].pmsg, conc[w].id, conc[w].out,
                      conc[w].scan)
           /\ inChan' = [inChan EXCEPT ![w] = Tail(inChan[w])]
           /\ UNCHANGED <<line, dropped, slot, pMsgPool, pending, text, outChan,
                          waitCommitChan, panicked, emitted, committed>>
BY ConcTyped, GoMsg DEF Receive, At, lineVars, slotVars

LEMMA StartScanDoes ==
    ASSUME Inv, NEW w \in Worker, StartScan(w)
    PROVE  /\ conc[w].pc = "poll" /\ OnlyLocal
           /\ Becomes(w, "scan", conc[w].msg, conc[w].pmsg, conc[w].id, conc[w].out,
                      {i \in Identifier : slot[i] # NoPMsg})
BY ConcTyped, GoPcScan DEF StartScan, At

LEMMA ScanNextDoes ==
    ASSUME Inv, NEW w \in Worker, NEW i \in Identifier, ScanNext(w, i)
    PROVE  /\ conc[w].pc = "scan" /\ OnlyLocal
           /\ Becomes(w, "scan", conc[w].msg, conc[w].pmsg, conc[w].id, conc[w].out,
                      conc[w].scan \ {i})
BY ConcTyped, GoScan DEF ScanNext, At

LEMMA ScanExpiredDoes ==
    ASSUME Inv, NEW w \in Worker, NEW i \in Identifier, ScanExpired(w, i)
    PROVE  /\ conc[w].pc = "scan" /\ slot[i] # NoPMsg
           /\ UNCHANGED <<line, dropped, inChan, slot, pMsgPool, pending, text, outChan,
                          waitCommitChan, emitted, committed>>
           /\ \/ /\ ~HasText(w, pending[slot[i]].msg)
                 /\ panicked' = TRUE /\ UNCHANGED conc
              \/ /\ UNCHANGED panicked
                 /\ Becomes(w, "flush", conc[w].msg, slot[i], i, pending[slot[i]].msg,
                            conc[w].scan \ {i})
BY ConcTyped, GoFlush DEF ScanExpired, At, Expired, lineVars, slotVars

LEMMA ScanEndDoes ==
    ASSUME Inv, NEW w \in Worker, ScanEnd(w)
    PROVE  conc[w].pc = "scan" /\ OnlyLocal /\ Same(w, "top")
BY ConcTyped, GoPc DEF ScanEnd, At, Same

(* The record goes back to the pool and its slot is free.                   *)
LEMMA FreeDoes ==
    ASSUME Inv, NEW w \in Worker, Flushed(w) \/ LongSent(w)
    PROVE  /\ \/ conc[w].pc = "flushed" /\ Same(w, "scan")
              \/ conc[w].pc = "longSent" /\ Same(w, "discard")
           /\ FreeSlot(conc[w].id, conc[w].pmsg)
           /\ UNCHANGED <<line, dropped, inChan, text, outChan, waitCommitChan, panicked,
                          emitted, committed>>
<1>1. CASE Flushed(w)
  BY <1>1, ConcTyped, GoPc DEF Flushed, At, Same, lineVars
<1>2. CASE LongSent(w)
  BY <1>2, ConcTyped, GoPc DEF LongSent, At, Same, lineVars
<1>3. QED
  BY <1>1, <1>2

(* The four places of the blocking send.                                    *)
LEMMA SendDoes ==
    ASSUME Inv, NEW w \in Worker, Send(w)
    PROVE  /\ conc[w].pc \in HasOut /\ Same(w, AfterSend[conc[w].pc])
           /\ Len(outChan) < ChanSize /\ outChan' = Append(outChan, conc[w].out)
           /\ UNCHANGED <<line, dropped, inChan, slot, pMsgPool, pending, text,
                          waitCommitChan, panicked, emitted, committed>>
<1>1. PICK x \in DOMAIN AfterSend : At(w, x) /\ Go(w, [pc |-> AfterSend[x]])
  BY DEF Send
<1>2. conc[w].pc = x /\ x \in HasOut
  BY <1>1, PcIs DEF At
<1>3. Same(w, AfterSend[conc[w].pc])
  BY <1>1, <1>2, ConcTyped, GoPc DEF Same
<1>4. QED
  BY <1>2, <1>3 DEF Send, lineVars, slotVars

(* The four ways of a line.                                                 *)
LEMMA HandleDoes ==
    ASSUME Inv, NEW w \in Worker, Handle(w)
    PROVE  LET m == conc[w].msg IN
           /\ conc[w].pc = "got" /\ OnlyLocal
           /\ \/ /\ KindOf(m) = "odd" \/ (KindOf(m) = "tail" /\ slot[IdOf(m)] = NoPMsg)
                 /\ Becomes(w, "pass", m, conc[w].pmsg, conc[w].id, m, conc[w].scan)
              \/ /\ KindOf(m) = "head" /\ slot[IdOf(m)] = NoPMsg
                 /\ Becomes(w, "insert", m, conc[w].pmsg, IdOf(m), conc[w].out, conc[w].scan)
              \/ /\ KindOf(m) # "odd" /\ slot[IdOf(m)] # NoPMsg
                 /\ Becomes(w, "known", m, conc[w].pmsg, IdOf(m), conc[w].out, conc[w].scan)
<1> DEFINE m == conc[w].msg
<1>0. conc[w].pc = "got" /\ OnlyLocal /\ conc \in [Worker -> ConcState]
  BY ConcTyped DEF Handle, At
<1>1. CASE KindOf(m) = "odd" /\ Go(w, [pc |-> "pass", out |-> m])
  BY <1>0, <1>1, GoOut
<1>2. CASE KindOf(m) = "tail" /\ slot[IdOf(m)] = NoPMsg /\ Go(w, [pc |-> "pass", out |-> m])
  BY <1>0, <1>2, GoOut
<1>3. CASE KindOf(m) = "head" /\ slot[IdOf(m)] = NoPMsg
             /\ Go(w, [pc |-> "insert", id |-> IdOf(m)])
  BY <1>0, <1>3, GoId
<1>4. CASE KindOf(m) # "odd" /\ slot[IdOf(m)] # NoPMsg
             /\ Go(w, [pc |-> "known", id |-> IdOf(m)])
  BY <1>0, <1>4, GoId
<1>5. QED
  BY <1>1, <1>2, <1>3, <1>4 DEF Handle

LEMMA InsertDoes ==
    ASSUME Inv, NEW w \in Worker, Insert(w)
    PROVE  /\ conc[w].pc = "insert" /\ Same(w, "top")
           /\ \E p \in PMsg :
                /\ pMsgPool[p] > 0
                /\ pMsgPool' = [pMsgPool EXCEPT ![p] = pMsgPool[p] - 1]
                /\ pending' = [pending EXCEPT ![p] = Fresh(conc[w].msg)]
                /\ slot' = [slot EXCEPT ![conc[w].id] = p]
           /\ UNCHANGED <<line, dropped, inChan, text, outChan, waitCommitChan, panicked,
                          emitted, committed>>
BY ConcTyped, GoPc DEF Insert, At, Same, lineVars

LEMMA KnownDoes ==
    ASSUME Inv, NEW w \in Worker, Known(w)
    PROVE  LET m == conc[w].msg
               p == slot[conc[w].id] IN
           /\ conc[w].pc = "known"
           /\ UNCHANGED <<line, dropped, inChan, slot, pMsgPool, pending, text, outChan,
                          waitCommitChan, emitted, committed>>
           /\ \/ p = NoPMsg /\ panicked' = TRUE /\ UNCHANGED conc
              \/ /\ p # NoPMsg /\ UNCHANGED panicked /\ KindOf(m) = "head"
                 /\ Becomes(w, "replace", m, p, conc[w].id, pending[p].msg, conc[w].scan)
              \/ /\ p # NoPMsg /\ UNCHANGED panicked /\ KindOf(m) # "head"
                 /\ Becomes(w, "append", m, p, conc[w].id, conc[w].out, conc[w].scan)
<1> DEFINE m == conc[w].msg
           p == slot[conc[w].id]
<1>0. /\ conc[w].pc = "known" /\ conc \in [Worker -> ConcState]
      /\ UNCHANGED <<line, dropped, inChan, slot, pMsgPool, pending, text, outChan,
                     waitCommitChan, emitted, committed>>
  BY ConcTyped DEF Known, At, lineVars, slotVars
<1>1. CASE p = NoPMsg
  BY <1>0, <1>1 DEF Known
<1>2. CASE p # NoPMsg /\ KindOf(m) = "head"
  <2>1. Go(w, [pc |-> "replace", pmsg |-> p, out |-> pending[p].msg]) /\ UNCHANGED panicked
    BY <1>2 DEF Known
  <2>2. QED
    BY <1>0, <1>2, <2>1, GoRecOut
<1>3. CASE p # NoPMsg /\ KindOf(m) # "head"
  <2>1. Go(w, [pc |-> "append", pmsg |-> p]) /\ UNCHANGED panicked
    BY <1>3 DEF Known
  <2>2. QED
    BY <1>0, <1>3, <2>1, GoRec
<1>4. QED
  BY <1>1, <1>2, <1>3

LEMMA SwapDoes ==
    ASSUME Inv, NEW w \in Worker, Swap(w)
    PROVE  /\ conc[w].pc = "swap" /\ Same(w, "top")
           /\ pending' = [pending EXCEPT ![conc[w].pmsg] = Fresh(conc[w].msg)]
           /\ UNCHANGED <<line, dropped, inChan, slot, pMsgPool, text, outChan,
                          waitCommitChan, panicked, emitted, committed>>
<1>1. /\ conc[w].pc = "swap" /\ Go(w, [pc |-> "top"])
      /\ pending' = [pending EXCEPT ![conc[w].pmsg] = Fresh(conc[w].msg)]
      /\ UNCHANGED <<line, dropped, inChan, slot, pMsgPool, text, outChan,
                     waitCommitChan, panicked, emitted, committed>>
  BY DEF Swap, At, lineVars
<1>2. Same(w, "top")
  BY <1>1, ConcTyped, GoPc, SMTT(30) DEF Same
<1>3. QED
  BY <1>1, <1>2

(* The append, and the panic.                                               *)
LEMMA ConcatDoes ==
    ASSUME Inv, NEW w \in Worker, Concat(w)
    PROVE  LET m == conc[w].msg
               p == conc[w].pmsg
               h == pending[p].msg IN
           /\ conc[w].pc = "append"
           /\ UNCHANGED <<line, dropped, inChan, slot, pMsgPool, outChan, waitCommitChan,
                          emitted, committed>>
           /\ \/ /\ ~HasText(w, h)
                 /\ panicked' = TRUE /\ UNCHANGED <<text, pending, conc>>
              \/ /\ UNCHANGED panicked
                 /\ text' = [text EXCEPT ![h] = text[h] \o text[m]]
                 /\ pending' = [pending EXCEPT ![p] = Fresh(h)]
                 /\ \/ /\ Len(text'[h]) >= MaxLen
                       /\ Becomes(w, "long", m, p, conc[w].id, h, conc[w].scan)
                    \/ ~(Len(text'[h]) >= MaxLen) /\ Same(w, "discard")
<1> DEFINE m == conc[w].msg
           p == conc[w].pmsg
           h == pending[p].msg
<1>0. /\ conc[w].pc = "append" /\ conc \in [Worker -> ConcState]
      /\ UNCHANGED <<line, dropped, inChan, slot, pMsgPool, outChan, waitCommitChan,
                     emitted, committed>>
  BY ConcTyped DEF Concat, At, lineVars
<1>1. IF HasText(w, h)
      THEN /\ text' = [text EXCEPT ![h] = @ \o text[m]]
           /\ pending' = [pending EXCEPT ![p] = Fresh(h)]
           /\ Go(w, IF Len(text'[h]) >= MaxLen
                    THEN [pc |-> "long", out |-> h] ELSE [pc |-> "discard"])
           /\ UNCHANGED panicked
      ELSE panicked' = TRUE /\ UNCHANGED <<text, pending, conc>>
  BY DEF Concat
<1> DEFINE same == Same(w, "discard")
           becomes == Becomes(w, "long", m, p, conc[w].id, h, conc[w].scan)
<1>2. CASE HasText(w, h)
  <2>1. CASE Len(text'[h]) >= MaxLen
    <3> DEFINE r == [pc |-> "long", out |-> h]
    <3>1. Go(w, r)
      BY <1>1, <1>2, <2>1, ZenonT(30)
    <3>2. becomes
      BY <1>0, <3>1, GoOut, SMTT(30)
    <3>3. QED
      BY <1>0, <1>1, <1>2, <2>1, <3>2, ZenonT(30)
  <2>2. CASE ~(Len(text'[h]) >= MaxLen)
    <3> DEFINE r == [pc |-> "discard"]
    <3>1. Go(w, r)
      BY <1>1, <1>2, <2>2, ZenonT(30)
    <3>2. same
      BY <1>0, <3>1, GoPc, SMTT(30) DEF Same
    <3>3. QED
      BY <1>0, <1>1, <1>2, <2>2, <3>2, ZenonT(30)
  <2>3. QED
    BY <2>1, <2>2, ZenonT(30)
<1>3. CASE ~HasText(w, h)
  BY <1>0, <1>1, <1>3
<1>4. QED
  BY <1>2, <1>3

LEMMA DiscardDoes ==
    ASSUME Inv, NEW w \in Worker, DiscardMsg(w)
    PROVE  /\ conc[w].pc = "discard" /\ Same(w, "top")
           /\ Len(waitCommitChan) < ChanSize
           /\ waitCommitChan' = Append(waitCommitChan, conc[w].msg)
           /\ UNCHANGED <<line, dropped, inChan, slot, pMsgPool, pending, text, outChan,
                          panicked, emitted, committed>>
BY ConcTyped, GoPc DEF DiscardMsg, At, Same, lineVars, slotVars

-----------------------------------------------------------------------------
(* The types, and the pointers, of any number of concators.                 *)

(* The part of the invariant that is about the locals of the concators, and *)
(* the parts about what they share.                                         *)
ConcOK ==
    /\ conc \in [Worker -> ConcState]
    /\ \A w \in Worker : conc[w].pc \in HasMsg => conc[w].msg \in Seen
    /\ \A w \in Worker : conc[w].pc \in HasRec =>
          conc[w].pmsg \in PMsg /\ pending[conc[w].pmsg].msg # NoMsg
    /\ \A w \in Worker : conc[w].pc \in HasOut => conc[w].out # NoMsg

SlotsOK ==
    /\ slot \in [Identifier -> PMsg \cup {NoPMsg}]
    /\ pMsgPool \in [PMsg -> Nat]
    /\ pending \in [PMsg -> [msg : Line \cup {NoMsg}, old : BOOLEAN]]
    /\ \A i \in Identifier : slot[i] # NoPMsg => pending[slot[i]].msg # NoMsg

LinesOK ==
    /\ line \in Seq([kind : Kind, src : Source]) /\ Len(line) <= MaxLine
    /\ inChan \in [Worker -> Seq(Line)]
    /\ \A w \in Worker : Len(inChan[w]) <= ChanSize
    /\ \A w \in Worker : ToSet(inChan[w]) \subseteq Seen

SentOK ==
    /\ text \in [Line -> Seq(Line)]
    /\ outChan \in Seq(Line) /\ Len(outChan) <= ChanSize
    /\ emitted \in Seq(Seq(Line))

RestOK ==
    /\ dropped \subseteq Line /\ committed \subseteq Line
    /\ waitCommitChan \in Seq(Line) /\ Len(waitCommitChan) <= ChanSize
    /\ panicked \in BOOLEAN

(* The invariant, part by part.                                             *)
LEMMA InvParts == Inv <=> ConcOK /\ SlotsOK /\ LinesOK /\ SentOK /\ RestOK
BY DEF Inv, TypeOK, PointerInv, ConcOK, SlotsOK, LinesOK, SentOK, RestOK, ConcState

LEMMA InvPartsNext == Inv' <=> ConcOK' /\ SlotsOK' /\ LinesOK' /\ SentOK' /\ RestOK'
BY InvParts, PTL

(* A concator goes on with locals that are right.                           *)
LEMMA ConcKeeps ==
    ASSUME ConcOK, NEW w \in Worker, NEW x \in Pc, NEW m \in Line \cup {NoMsg},
           NEW p \in PMsg \cup {NoPMsg}, NEW i \in Identifier,
           NEW o \in Line \cup {NoMsg}, NEW s \in SUBSET Identifier,
           Becomes(w, x, m, p, i, o, s), UNCHANGED line,
           x \in HasMsg => m \in Seen,
           x \in HasRec => p \in PMsg /\ pending'[p].msg # NoMsg,
           x \in HasOut => o # NoMsg,
           \A q \in PMsg : pending[q].msg # NoMsg => pending'[q].msg # NoMsg
    PROVE  ConcOK'
<1>1. /\ conc'[w].pc = x /\ conc'[w].msg = m /\ conc'[w].pmsg = p
      /\ conc'[w].out = o /\ conc'[w] \in ConcState
  BY DEF Becomes, ConcState
<1>2. conc' = [v \in Worker |-> IF v = w THEN conc'[w] ELSE conc[v]]
  BY DEF Becomes
<1>3. \A v \in Worker : v # w => conc'[v] = conc[v]
  BY <1>2
<1>4. conc' \in [Worker -> ConcState]
  BY <1>1, <1>2 DEF ConcOK
<1>5. Seen' = Seen
  BY DEF Seen
<1>6. QED
  BY <1>1, <1>3, <1>4, <1>5 DEF ConcOK

(* The locals of a concator.                                                *)
LEMMA LocalsTyped ==
    ASSUME ConcOK, NEW w \in Worker
    PROVE  /\ conc[w].pc \in Pc /\ conc[w].msg \in Line \cup {NoMsg}
           /\ conc[w].pmsg \in PMsg \cup {NoPMsg} /\ conc[w].id \in Identifier
           /\ conc[w].out \in Line \cup {NoMsg} /\ conc[w].scan \in SUBSET Identifier
<1>1. conc[w] \in ConcState
  BY DEF ConcOK
<1>2. QED
  BY <1>1 DEF ConcState

(* It goes on with the same locals.                                         *)
LEMMA SameKeeps ==
    ASSUME ConcOK, NEW w \in Worker, NEW x \in Pc, Same(w, x), UNCHANGED line,
           x \in HasMsg => conc[w].pc \in HasMsg,
           x \in HasRec => conc[w].pc \in HasRec,
           x \in HasOut => conc[w].pc \in HasOut,
           \A q \in PMsg : pending[q].msg # NoMsg => pending'[q].msg # NoMsg
    PROVE  ConcOK'
<1>1. x \in HasMsg => conc[w].msg \in Seen
  BY DEF ConcOK
<1>2. x \in HasRec => conc[w].pmsg \in PMsg /\ pending'[conc[w].pmsg].msg # NoMsg
  BY DEF ConcOK
<1>3. x \in HasOut => conc[w].out # NoMsg
  BY DEF ConcOK
<1> DEFINE m == conc[w].msg
           p == conc[w].pmsg
           i == conc[w].id
           o == conc[w].out
           s == conc[w].scan
<1>4. /\ m \in Line \cup {NoMsg} /\ p \in PMsg \cup {NoPMsg} /\ i \in Identifier
      /\ o \in Line \cup {NoMsg} /\ s \in SUBSET Identifier
  BY LocalsTyped
<1>5. Becomes(w, x, m, p, i, o, s)
  BY DEF Same
<1> HIDE DEF m, p, i, o, s
<1>6. /\ x \in HasMsg => m \in Seen
      /\ x \in HasRec => p \in PMsg /\ pending'[p].msg # NoMsg
      /\ x \in HasOut => o # NoMsg
  BY <1>1, <1>2, <1>3 DEF m, p, o
<1>7. QED
  BY <1>4, <1>5, <1>6, ConcKeeps

(* A line that was taken from a channel has a container.                    *)
LEMMA SeenIs ==
    ASSUME LinesOK, NEW m \in Seen
    PROVE  /\ m \in Line /\ KindOf(m) \in Kind /\ SourceOf(m) \in Source
           /\ IdOf(m) \in Identifier /\ SourceOf(m) = <<TagOfMsg(m), IdOf(m)>>
           /\ TagOfMsg(m) \in Tag
           /\ Route[SourceOf(m)] \in Worker /\ TagOf[Route[SourceOf(m)]] = TagOfMsg(m)
<1>1. Len(line) \in Nat /\ Len(line) <= MaxLine /\ MaxLine \in Nat
  BY ConcatorAssumption, LenProperties DEF LinesOK
<1>2. m \in 1 .. Len(line) /\ m \in Line
  BY <1>1 DEF Seen, Line
<1>3. line[m] \in [kind : Kind, src : Source]
  BY <1>2, ElementOfSeq DEF LinesOK
<1>4. KindOf(m) \in Kind /\ SourceOf(m) \in Source
  BY <1>3 DEF KindOf, SourceOf
<1>5. SourceOf(m) \in Tag \X Identifier
  BY <1>4, ConcatorAssumption DEF Source
<1>6. QED
  BY <1>2, <1>4, <1>5, ConcatorAssumption DEF IdOf, TagOfMsg, Source

(* The identifier that a concator may set is one.                           *)
LEMMA FreshTyped ==
    ASSUME NEW m \in Line \cup {NoMsg}
    PROVE  Fresh(m) \in [msg : Line \cup {NoMsg}, old : BOOLEAN] /\ Fresh(m).msg = m
BY DEF Fresh

(* It holds at the start.                                                   *)
LEMMA InvInit == Init => Inv
<1> SUFFICES ASSUME Init PROVE Inv
  OBVIOUS
<1>0. Identifier # {} /\ (CHOOSE i \in Identifier : TRUE) \in Identifier
  BY ConcatorAssumption
<1>1. ConcOK
  <2>1. "top" \in Pc /\ "top" \notin HasMsg /\ "top" \notin HasRec /\ "top" \notin HasOut
    BY PcIs DEF HasMsg, HasRec, HasOut
  <2>2. conc \in [Worker -> ConcState]
    BY <1>0, <2>1 DEF Init, ConcState
  <2>3. \A w \in Worker : conc[w].pc = "top"
    BY DEF Init
  <2>4. QED
    BY <2>1, <2>2, <2>3 DEF ConcOK
<1>2. SlotsOK
  BY DEF Init, SlotsOK
<1>3. LinesOK
  BY NewChan, ConcatorAssumption DEF Init, LinesOK, Line
<1>4. SentOK
  <2>1. \A m \in Line : <<m>> \in Seq(Line)
    OBVIOUS
  <2>2. QED
    BY <2>1, NewChan, ConcatorAssumption DEF Init, SentOK
<1>5. RestOK
  <2>1. dropped = {} /\ committed = {} /\ waitCommitChan = <<>> /\ panicked = FALSE
    BY DEF Init
  <2>2. <<>> \in Seq(Line) /\ Len(<<>>) <= ChanSize
    BY NewChan, ConcatorAssumption
  <2>3. QED
    BY <2>1, <2>2 DEF RestOK
<1>6. QED
  BY <1>1, <1>2, <1>3, <1>4, <1>5, InvParts

(* What a step does not touch stays right.                                  *)
LEMMA SlotsStay == SlotsOK /\ UNCHANGED <<slot, pMsgPool, pending>> => SlotsOK'
BY DEF SlotsOK
LEMMA LinesStay == LinesOK /\ UNCHANGED <<line, inChan>> => LinesOK'
BY DEF LinesOK, Seen
LEMMA SentStay == SentOK /\ UNCHANGED <<text, outChan, emitted>> => SentOK'
BY DEF SentOK
LEMMA RestStay ==
    RestOK /\ UNCHANGED <<dropped, committed, waitCommitChan>> /\ panicked' \in BOOLEAN => RestOK'
BY DEF RestOK
LEMMA ConcStays == ConcOK /\ UNCHANGED <<conc, line, pending>> => ConcOK'
BY DEF ConcOK, Seen

(* A line arrives.                                                          *)
LEMMA ArriveInv ==
    ASSUME Inv, NEW k \in Kind, NEW src \in Source, Arrive(k, src)
    PROVE  Inv'
<1> DEFINE n == Len(line) + 1
           v == Route[src]
<1>0. ConcOK /\ SlotsOK /\ LinesOK /\ SentOK /\ RestOK
  BY InvParts
<1>1. /\ line \in Seq([kind : Kind, src : Source]) /\ Len(line) \in Nat
      /\ n <= MaxLine /\ line' = Append(line, [kind |-> k, src |-> src])
      /\ UNCHANGED <<slot, pMsgPool, pending, conc, text, outChan, waitCommitChan,
                     panicked, emitted, committed>>
  BY <1>0, LenProperties DEF Arrive, LinesOK, slotVars
<1>2. line' \in Seq([kind : Kind, src : Source]) /\ Len(line') = n
  BY <1>1, SendTo
<1>3. n \in Line /\ Seen \subseteq Seen' /\ n \in Seen'
  BY <1>1, <1>2, ConcatorAssumption DEF Seen, Line
<1>4. v \in Worker
  BY ConcatorAssumption DEF Source
<1>5. \/ inChan' = [inChan EXCEPT ![v] = Append(@, n)] /\ Len(inChan[v]) < ChanSize
         /\ UNCHANGED dropped
      \/ UNCHANGED inChan /\ dropped' = dropped \cup {n}
  BY DEF Arrive
<1> HIDE DEF n, v
<1>6. SlotsOK' /\ SentOK'
  BY <1>0, <1>1, SlotsStay, SentStay
<1>7. ConcOK'
  BY <1>0, <1>1, <1>3 DEF ConcOK
<1>8. RestOK'
  BY <1>0, <1>1, <1>3, <1>5 DEF RestOK
<1>9. ASSUME NEW w \in Worker
      PROVE  inChan'[w] \in Seq(Line) /\ Len(inChan'[w]) <= ChanSize
             /\ ToSet(inChan'[w]) \subseteq Seen'
  <2>1. inChan[w] \in Seq(Line) /\ Len(inChan[w]) <= ChanSize /\ ToSet(inChan[w]) \subseteq Seen
    BY <1>0 DEF LinesOK
  <2>2. CASE inChan'[w] = inChan[w]
    BY <1>3, <2>1, <2>2
  <2>3. CASE inChan'[w] = Append(inChan[w], n) /\ Len(inChan[w]) < ChanSize
    <3>1. ChanSize \in Nat
      BY ConcatorAssumption
    <3>2. QED
      BY <1>3, <2>1, <2>3, <3>1, SendTo
  <2>4. inChan'[w] = inChan[w] \/ (inChan'[w] = Append(inChan[w], n) /\ Len(inChan[w]) < ChanSize)
    <3>1. w \in DOMAIN inChan
      BY <1>0 DEF LinesOK
    <3>2. QED
      BY <1>5, <3>1
  <2>5. QED
    BY <2>2, <2>3, <2>4
<1>10. LinesOK'
  <2>2. inChan' = [w \in Worker |-> inChan'[w]]
    BY <1>0, <1>5 DEF LinesOK
  <2>3. inChan' \in [Worker -> Seq(Line)]
    BY <1>9, <2>2
  <2>4. QED
    BY <1>1, <1>2, <1>9, <2>3 DEF LinesOK
<1>11. QED
  BY <1>6, <1>7, <1>8, <1>10, InvPartsNext

(* A concator receives one.                                                 *)
LEMMA ReceiveInv ==
    ASSUME Inv, NEW w \in Worker, Receive(w)
    PROVE  Inv'
<1> DEFINE h == Head(inChan[w])
<1>0. ConcOK /\ SlotsOK /\ LinesOK /\ SentOK /\ RestOK
  BY InvParts
<1>1. /\ inChan[w] # <<>> /\ inChan' = [inChan EXCEPT ![w] = Tail(inChan[w])]
      /\ Becomes(w, "got", h, conc[w].pmsg, conc[w].id, conc[w].out, conc[w].scan)
      /\ UNCHANGED <<line, dropped, slot, pMsgPool, pending, text, outChan,
                     waitCommitChan, panicked, emitted, committed>>
  BY ReceiveDoes
<1>2. inChan[w] \in Seq(Line) /\ Len(inChan[w]) <= ChanSize /\ ToSet(inChan[w]) \subseteq Seen
  BY <1>0 DEF LinesOK
<1>3. /\ h \in Line /\ h \in Seen /\ Tail(inChan[w]) \in Seq(Line)
      /\ Len(Tail(inChan[w])) <= ChanSize /\ ToSet(Tail(inChan[w])) \subseteq Seen
  <2>1. ChanSize \in Nat
    BY ConcatorAssumption
  <2>2. QED
    BY <1>1, <1>2, <2>1, ReceiveFrom
<1>4. ConcOK'
  <2>1. "got" \in Pc /\ "got" \notin HasRec /\ "got" \notin HasOut
    BY PcIs DEF HasRec, HasOut
  <2>2. /\ conc[w].pmsg \in PMsg \cup {NoPMsg} /\ conc[w].id \in Identifier
        /\ conc[w].out \in Line \cup {NoMsg} /\ conc[w].scan \in SUBSET Identifier
    BY <1>0, LocalsTyped
  <2> HIDE DEF h
  <2>3. QED
    BY <1>0, <1>1, <1>3, <2>1, <2>2, ConcKeeps
<1>5. LinesOK'
  <2>1. ASSUME NEW v \in Worker
        PROVE  inChan'[v] \in Seq(Line) /\ Len(inChan'[v]) <= ChanSize
               /\ ToSet(inChan'[v]) \subseteq Seen'
    <3>1. Seen' = Seen
      BY <1>1 DEF Seen
    <3>2. inChan'[v] = inChan[v] \/ inChan'[v] = Tail(inChan[w])
      BY <1>1
    <3>3. QED
      BY <1>0, <1>3, <3>1, <3>2 DEF LinesOK
  <2>2. inChan' \in [Worker -> Seq(Line)]
    BY <1>0, <1>1, <1>3 DEF LinesOK
  <2>3. QED
    BY <1>0, <1>1, <2>1, <2>2 DEF LinesOK
<1>6. SlotsOK' /\ SentOK' /\ RestOK'
  <2>1. panicked' \in BOOLEAN
    BY <1>0, <1>1 DEF RestOK
  <2>2. QED
    BY <1>0, <1>1, <2>1, SlotsStay, SentStay, RestStay
<1>7. QED
  BY <1>4, <1>5, <1>6, InvPartsNext

(* The steps that change only the locals of a concator.                     *)
LEMMA LocalInv ==
    ASSUME Inv, OnlyLocal, ConcOK'
    PROVE  Inv'
<1>0. SlotsOK /\ LinesOK /\ SentOK /\ RestOK
  BY InvParts
<1>1. UNCHANGED <<line, dropped, inChan, slot, pMsgPool, pending, text, outChan,
                  waitCommitChan, panicked, emitted, committed>>
  BY DEF OnlyLocal, lineVars, slotVars
<1>2. panicked' \in BOOLEAN
  BY <1>0, <1>1 DEF RestOK
<1>3. QED
  BY <1>0, <1>1, <1>2, SlotsStay, LinesStay, SentStay, RestStay, InvPartsNext

LEMMA OnlyLocalKeeps ==
    OnlyLocal => UNCHANGED <<line, inChan, slot, pMsgPool, pending, text, outChan>>
BY DEF OnlyLocal, lineVars, slotVars

(* The steps that only move the program counter.                            *)
LEMMA ControlStepsInv ==
    ASSUME Inv, NEW w \in Worker,
           Top(w) \/ ScanEnd(w) \/ StartScan(w) \/ \E i \in Identifier : ScanNext(w, i)
    PROVE  Inv'
<1>0. ConcOK
  BY InvParts
<1>1. CASE Top(w) \/ ScanEnd(w)
  <2>1. OnlyLocal /\ \E x \in {"wait", "poll", "top"} : Same(w, x)
    BY <1>1, TopDoes, ScanEndDoes
  <2>2. PICK x \in {"wait", "poll", "top"} : Same(w, x)
    BY <2>1
  <2>3. x \in Pc /\ x \notin HasMsg /\ x \notin HasRec /\ x \notin HasOut
    BY PcIs DEF HasMsg, HasRec, HasOut
  <2>4. QED
    BY <1>0, <2>1, <2>2, <2>3, OnlyLocalKeeps, SameKeeps, LocalInv
<1>2. CASE StartScan(w) \/ \E i \in Identifier : ScanNext(w, i)
  <2>1. OnlyLocal
    BY <1>2, StartScanDoes, ScanNextDoes
  <2>2. PICK s \in SUBSET Identifier :
            Becomes(w, "scan", conc[w].msg, conc[w].pmsg, conc[w].id, conc[w].out, s)
    <3>1. CASE StartScan(w)
      <4>1. {i \in Identifier : slot[i] # NoPMsg} \in SUBSET Identifier
        OBVIOUS
      <4>2. QED
        BY <3>1, <4>1, StartScanDoes
    <3>2. ASSUME NEW i \in Identifier, ScanNext(w, i)
          PROVE  \E s \in SUBSET Identifier :
                    Becomes(w, "scan", conc[w].msg, conc[w].pmsg, conc[w].id, conc[w].out, s)
      <4>1. conc[w].scan \ {i} \in SUBSET Identifier
        BY <1>0, LocalsTyped
      <4>2. QED
        BY <3>2, <4>1, ScanNextDoes
    <3>3. QED
      BY <1>2, <3>1, <3>2
  <2>3. "scan" \in Pc /\ "scan" \notin HasMsg /\ "scan" \notin HasRec /\ "scan" \notin HasOut
    BY PcIs DEF HasMsg, HasRec, HasOut
  <2>4. /\ conc[w].msg \in Line \cup {NoMsg} /\ conc[w].pmsg \in PMsg \cup {NoPMsg}
        /\ conc[w].id \in Identifier /\ conc[w].out \in Line \cup {NoMsg}
    BY <1>0, LocalsTyped
  <2>5. UNCHANGED line /\ UNCHANGED pending
    BY <2>1, OnlyLocalKeeps
  <2>6. ConcOK'
    BY <1>0, <2>2, <2>3, <2>4, <2>5, ConcKeeps
  <2>7. QED
    BY <2>1, <2>6, LocalInv
<1>3. QED
  BY <1>1, <1>2

(* The other steps of a concator.                                           *)
LEMMA HandleInv ==
    ASSUME Inv, NEW w \in Worker, Handle(w)
    PROVE  Inv'
<1> DEFINE m == conc[w].msg
<1>0. ConcOK /\ LinesOK /\ OnlyLocal /\ conc[w].pc = "got"
  BY InvParts, HandleDoes
<1>1. /\ m \in Seen /\ m \in Line /\ m # NoMsg /\ IdOf(m) \in Identifier
      /\ conc[w].pmsg \in PMsg \cup {NoPMsg} /\ conc[w].id \in Identifier
      /\ conc[w].out \in Line \cup {NoMsg} /\ conc[w].scan \in SUBSET Identifier
  <2>1. m \in Seen
    BY <1>0 DEF ConcOK, HasMsg
  <2>2. NoMsg \notin Line
    BY DEF NoMsg, Line
  <2>3. QED
    BY <1>0, <2>1, <2>2, SeenIs, LocalsTyped
<1>2. /\ \E x \in {"pass", "insert", "known"}, i \in Identifier, o \in Line \cup {NoMsg} :
            /\ Becomes(w, x, m, conc[w].pmsg, i, o, conc[w].scan)
            /\ x = "pass" => o # NoMsg
  BY <1>1, HandleDoes
<1> HIDE DEF m
<1>3. PICK x \in {"pass", "insert", "known"}, i \in Identifier, o \in Line \cup {NoMsg} :
         /\ Becomes(w, x, m, conc[w].pmsg, i, o, conc[w].scan)
         /\ x = "pass" => o # NoMsg
  BY <1>2
<1>4. x \in Pc /\ x \notin HasRec /\ (x \in HasOut => x = "pass")
  BY PcIs DEF HasRec, HasOut
<1>5. UNCHANGED line /\ UNCHANGED pending
  BY <1>0, OnlyLocalKeeps
<1>6. ConcOK'
  BY <1>0, <1>1, <1>3, <1>4, <1>5, ConcKeeps
<1>7. QED
  BY <1>0, <1>6, LocalInv

(* The program panics.                                                      *)
LEMMA PanicInv ==
    ASSUME Inv, panicked' = TRUE,
           UNCHANGED <<line, dropped, inChan, slot, pMsgPool, pending, conc, text, outChan,
                       waitCommitChan, emitted, committed>>
    PROVE  Inv'
<1>0. ConcOK /\ SlotsOK /\ LinesOK /\ SentOK /\ RestOK
  BY InvParts
<1>1. QED
  BY <1>0, ConcStays, SlotsStay, LinesStay, SentStay, RestStay, InvPartsNext

(* A concator goes on, and only its locals are changed.                     *)
LEMMA GoesOnInv ==
    ASSUME Inv, ConcOK', UNCHANGED panicked,
           UNCHANGED <<line, dropped, inChan, slot, pMsgPool, pending, text, outChan,
                       waitCommitChan, emitted, committed>>
    PROVE  Inv'
<1>1. OnlyLocal
  BY DEF OnlyLocal, lineVars, slotVars
<1>2. QED
  BY <1>1, LocalInv

(* The entry of a slot that is taken.                                       *)
LEMMA SlotMsg ==
    ASSUME SlotsOK, NEW i \in Identifier, slot[i] # NoPMsg
    PROVE  /\ slot[i] \in PMsg /\ pending[slot[i]].msg \in Line
           /\ pending[slot[i]].msg \in Line \cup {NoMsg} /\ pending[slot[i]].msg # NoMsg
BY DEF SlotsOK

LEMMA ScanExpiredInv ==
    ASSUME Inv, NEW w \in Worker, NEW i \in Identifier, ScanExpired(w, i)
    PROVE  Inv'
<1> DEFINE p == slot[i]
           h == pending[p].msg
           s == conc[w].scan \ {i}
<1>0. ConcOK /\ SlotsOK
  BY InvParts
<1>1. /\ p # NoPMsg
      /\ UNCHANGED <<line, dropped, inChan, slot, pMsgPool, pending, text, outChan,
                     waitCommitChan, emitted, committed>>
      /\ \/ panicked' = TRUE /\ UNCHANGED conc
         \/ UNCHANGED panicked /\ Becomes(w, "flush", conc[w].msg, p, i, h, s)
  BY ScanExpiredDoes
<1>2. CASE panicked' = TRUE /\ UNCHANGED conc
  BY <1>1, <1>2, PanicInv
<1>3. CASE UNCHANGED panicked /\ Becomes(w, "flush", conc[w].msg, p, i, h, s)
  <2>1. p \in PMsg /\ h \in Line \cup {NoMsg} /\ h # NoMsg /\ pending'[p].msg # NoMsg
    BY <1>0, <1>1, SlotMsg
  <2>2. "flush" \in Pc /\ "flush" \notin HasMsg
    BY PcIs DEF HasMsg
  <2>3. conc[w].msg \in Line \cup {NoMsg} /\ s \in SUBSET Identifier
    BY <1>0, LocalsTyped
  <2>4. UNCHANGED line /\ UNCHANGED pending
    BY <1>1
  <2> HIDE DEF p, h, s
  <2>5. ConcOK'
    BY <1>0, <1>3, <2>1, <2>2, <2>3, <2>4, ConcKeeps
  <2>6. QED
    BY <1>1, <1>3, <2>5, GoesOnInv
<1>4. QED
  BY <1>1, <1>2, <1>3

LEMMA KnownInv ==
    ASSUME Inv, NEW w \in Worker, Known(w)
    PROVE  Inv'
<1> DEFINE m == conc[w].msg
           p == slot[conc[w].id]
           h == pending[p].msg
<1>0. ConcOK /\ SlotsOK
  BY InvParts
<1>1. /\ conc[w].pc = "known"
      /\ UNCHANGED <<line, dropped, inChan, slot, pMsgPool, pending, text, outChan,
                     waitCommitChan, emitted, committed>>
      /\ \/ panicked' = TRUE /\ UNCHANGED conc
         \/ /\ UNCHANGED panicked /\ p # NoPMsg
            /\ \/ Becomes(w, "replace", m, p, conc[w].id, h, conc[w].scan)
               \/ Becomes(w, "append", m, p, conc[w].id, conc[w].out, conc[w].scan)
  BY KnownDoes
<1>2. CASE panicked' = TRUE /\ UNCHANGED conc
  BY <1>1, <1>2, PanicInv
<1>3. CASE /\ UNCHANGED panicked /\ p # NoPMsg
           /\ \/ Becomes(w, "replace", m, p, conc[w].id, h, conc[w].scan)
              \/ Becomes(w, "append", m, p, conc[w].id, conc[w].out, conc[w].scan)
  <2>0. /\ m \in Line \cup {NoMsg} /\ conc[w].id \in Identifier
        /\ conc[w].scan \in SUBSET Identifier /\ conc[w].out \in Line \cup {NoMsg}
    BY <1>0, LocalsTyped
  <2>1. /\ p \in PMsg /\ p \in PMsg \cup {NoPMsg} /\ h \in Line \cup {NoMsg} /\ h # NoMsg
        /\ pending'[p].msg # NoMsg
    BY <1>0, <1>1, <1>3, <2>0, SlotMsg
  <2>2. "replace" \in Pc /\ "append" \in Pc /\ "append" \notin HasOut
    BY PcIs DEF HasOut
  <2>3. m \in Seen
    BY <1>0, <1>1 DEF ConcOK, HasMsg
  <2>4. UNCHANGED line /\ UNCHANGED pending
    BY <1>1
  <2> HIDE DEF m, p, h
  <2>5. CASE Becomes(w, "replace", m, p, conc[w].id, h, conc[w].scan)
    <3>1. ConcOK'
      BY <1>0, <2>0, <2>1, <2>2, <2>3, <2>4, <2>5, ConcKeeps
    <3>2. QED
      BY <1>1, <1>3, <3>1, GoesOnInv
  <2>6. CASE Becomes(w, "append", m, p, conc[w].id, conc[w].out, conc[w].scan)
    <3>1. ConcOK'
      BY <1>0, <2>0, <2>1, <2>2, <2>3, <2>4, <2>6, ConcKeeps
    <3>2. QED
      BY <1>1, <1>3, <3>1, GoesOnInv
  <2>7. QED
    BY <1>3, <2>5, <2>6
<1>4. QED
  BY <1>1, <1>2, <1>3

(* A slot is emptied.                                                       *)
LEMMA FreeInv ==
    ASSUME Inv, NEW w \in Worker, Flushed(w) \/ LongSent(w)
    PROVE  Inv'
<1> DEFINE p == conc[w].pmsg
           i == conc[w].id
<1>0. ConcOK /\ SlotsOK /\ LinesOK /\ SentOK /\ RestOK
  BY InvParts
<1>1. /\ \/ conc[w].pc = "flushed" /\ Same(w, "scan")
         \/ conc[w].pc = "longSent" /\ Same(w, "discard")
      /\ FreeSlot(i, p)
      /\ UNCHANGED <<line, dropped, inChan, text, outChan, waitCommitChan, panicked,
                     emitted, committed>>
  BY FreeDoes
<1>2. /\ pMsgPool' = [pMsgPool EXCEPT ![p] = @ + 1]
      /\ slot' = [slot EXCEPT ![i] = NoPMsg] /\ UNCHANGED pending
  BY <1>1 DEF FreeSlot
<1>3. p \in PMsg /\ i \in Identifier
  BY <1>0, <1>1, LocalsTyped DEF ConcOK, HasRec
<1>4. SlotsOK'
  <2>1. pMsgPool[p] + 1 \in Nat
    BY <1>0, <1>3 DEF SlotsOK
  <2>2. pMsgPool' \in [PMsg -> Nat]
    BY <1>0, <1>2, <1>3, <2>1 DEF SlotsOK
  <2>3. \A j \in Identifier : slot'[j] # NoPMsg => slot'[j] = slot[j]
    BY <1>0, <1>2 DEF SlotsOK
  <2>4. QED
    BY <1>0, <1>2, <2>2, <2>3 DEF SlotsOK
<1>5. ConcOK'
  <2>1. "scan" \in Pc /\ "discard" \in Pc /\ "discard" \in HasMsg /\ "longSent" \in HasMsg
        /\ "scan" \notin HasMsg /\ "scan" \notin HasRec /\ "scan" \notin HasOut
        /\ "discard" \notin HasRec /\ "discard" \notin HasOut
    BY PcIs DEF HasMsg, HasRec, HasOut
  <2>2. UNCHANGED line /\ UNCHANGED pending
    BY <1>1, <1>2
  <2>3. CASE conc[w].pc = "flushed" /\ Same(w, "scan")
    BY <1>0, <2>1, <2>2, <2>3, SameKeeps
  <2>4. CASE conc[w].pc = "longSent" /\ Same(w, "discard")
    BY <1>0, <2>1, <2>2, <2>4, SameKeeps
  <2>5. QED
    BY <1>1, <2>3, <2>4
<1>6. LinesOK' /\ SentOK' /\ RestOK'
  <2>1. panicked' \in BOOLEAN
    BY <1>0, <1>1 DEF RestOK
  <2>2. QED
    BY <1>0, <1>1, <2>1, LinesStay, SentStay, RestStay
<1>7. QED
  BY <1>4, <1>5, <1>6, InvPartsNext

(* Something is sent on.                                                    *)
LEMMA SendInv ==
    ASSUME Inv, NEW w \in Worker, Send(w)
    PROVE  Inv'
<1>0. ConcOK /\ SlotsOK /\ LinesOK /\ SentOK /\ RestOK
  BY InvParts
<1>1. /\ conc[w].pc \in HasOut /\ Same(w, AfterSend[conc[w].pc])
      /\ Len(outChan) < ChanSize /\ outChan' = Append(outChan, conc[w].out)
      /\ UNCHANGED <<line, dropped, inChan, slot, pMsgPool, pending, text,
                     waitCommitChan, panicked, emitted, committed>>
  BY SendDoes
<1>2. conc[w].out \in Line
  <2>1. conc[w].out # NoMsg /\ conc[w].out \in Line \cup {NoMsg}
    BY <1>0, <1>1, LocalsTyped DEF ConcOK
  <2>2. QED
    BY <2>1
<1>3. SentOK'
  <2>1. outChan \in Seq(Line) /\ ChanSize \in Nat
    BY <1>0, ConcatorAssumption DEF SentOK
  <2>2. outChan' \in Seq(Line) /\ Len(outChan') <= ChanSize
    BY <1>1, <1>2, <2>1, SendTo
  <2>3. QED
    BY <1>0, <1>1, <2>2 DEF SentOK
<1>4. ConcOK'
  <2>1. PICK x \in HasOut : conc[w].pc = x
    BY <1>1
  <2>2. PICK y : y = AfterSend[x]
    OBVIOUS
  <2>3. \/ x = "pass" /\ y = "top"
        \/ x = "replace" /\ y = "swap"
        \/ x = "long" /\ y = "longSent"
        \/ x = "flush" /\ y = "flushed"
    BY <2>2, PcIs DEF HasOut
  <2>4. /\ y \in Pc /\ y \notin HasOut
        /\ y \in HasMsg => x \in HasMsg
        /\ y \in HasRec => x \in HasRec
    BY <2>3, PcIs DEF HasOut, HasMsg, HasRec
  <2>5. UNCHANGED line /\ UNCHANGED pending /\ Same(w, y)
    BY <1>1, <2>1, <2>2
  <2>6. QED
    BY <1>0, <2>1, <2>4, <2>5, SameKeeps
<1>5. SlotsOK' /\ LinesOK' /\ RestOK'
  <2>1. panicked' \in BOOLEAN
    BY <1>0, <1>1 DEF RestOK
  <2>2. QED
    BY <1>0, <1>1, <2>1, SlotsStay, LinesStay, RestStay
<1>6. QED
  BY <1>3, <1>4, <1>5, InvPartsNext

(* A record gets a new message and time.                                    *)
LEMMA RecordOK ==
    ASSUME SlotsOK, NEW p, NEW m \in Line, pending' = [pending EXCEPT ![p] = Fresh(m)]
    PROVE  /\ pending' \in [PMsg -> [msg : Line \cup {NoMsg}, old : BOOLEAN]]
           /\ \A q \in PMsg : pending'[q].msg = IF q = p THEN m ELSE pending[q].msg
           /\ \A q \in PMsg : pending[q].msg # NoMsg => pending'[q].msg # NoMsg
<1>1. Fresh(m) \in [msg : Line \cup {NoMsg}, old : BOOLEAN] /\ Fresh(m).msg = m
  BY FreshTyped
<1>2. m # NoMsg
  BY DEF Line, NoMsg
<1>3. pending \in [PMsg -> [msg : Line \cup {NoMsg}, old : BOOLEAN]]
  BY DEF SlotsOK
<1> DEFINE r == Fresh(m)
<1>4. pending' = [pending EXCEPT ![p] = r]
  OBVIOUS
<1> HIDE DEF r
<1>5. pending' \in [PMsg -> [msg : Line \cup {NoMsg}, old : BOOLEAN]]
  BY <1>1, <1>3, <1>4 DEF r
<1>6. \A q \in PMsg : pending'[q] = IF q = p THEN r ELSE pending[q]
  BY <1>3, <1>4
<1>7. \A q \in PMsg : pending'[q].msg = IF q = p THEN m ELSE pending[q].msg
  BY <1>1, <1>6 DEF r
<1>8. QED
  BY <1>2, <1>5, <1>7

LEMMA InsertInv ==
    ASSUME Inv, NEW w \in Worker, Insert(w)
    PROVE  Inv'
<1> DEFINE m == conc[w].msg
           i == conc[w].id
<1>0. ConcOK /\ SlotsOK /\ LinesOK /\ SentOK /\ RestOK
  BY InvParts
<1>1. /\ conc[w].pc = "insert" /\ Same(w, "top")
      /\ UNCHANGED <<line, dropped, inChan, text, outChan, waitCommitChan, panicked,
                     emitted, committed>>
  BY InsertDoes
<1>2. PICK p \in PMsg :
         /\ pMsgPool[p] > 0
         /\ pMsgPool' = [pMsgPool EXCEPT ![p] = pMsgPool[p] - 1]
         /\ pending' = [pending EXCEPT ![p] = Fresh(m)]
         /\ slot' = [slot EXCEPT ![i] = p]
  BY InsertDoes
<1>3. m \in Line /\ m # NoMsg
  <2>1. m \in Seen
    BY <1>0, <1>1 DEF ConcOK, HasMsg
  <2>2. QED
    BY <1>0, <2>1, SeenIs DEF Line, NoMsg
<1>4. SlotsOK'
  <2>1. pMsgPool' \in [PMsg -> Nat]
    BY <1>0, <1>2 DEF SlotsOK
  <2>2. slot' \in [Identifier -> PMsg \cup {NoPMsg}]
    BY <1>0, <1>2 DEF SlotsOK
  <2>3. \A j \in Identifier : slot'[j] = slot[j] \/ slot'[j] = p
    BY <1>0, <1>2 DEF SlotsOK
  <2> HIDE DEF m
  <2>4. ASSUME NEW j \in Identifier, slot'[j] # NoPMsg PROVE pending'[slot'[j]].msg # NoMsg
    <3>1. CASE slot'[j] = p
      BY <1>0, <1>2, <1>3, <3>1, RecordOK, ZenonT(30)
    <3>2. CASE slot'[j] = slot[j]
      BY <1>0, <1>2, <1>3, <2>4, <3>2, RecordOK DEF SlotsOK
    <3>3. QED
      BY <2>3, <3>1, <3>2
  <2>5. QED
    BY <1>0, <1>2, <1>3, <2>1, <2>2, <2>4, RecordOK DEF SlotsOK
<1>5. ConcOK'
  <2>1. "top" \in Pc /\ "top" \notin HasMsg /\ "top" \notin HasRec /\ "top" \notin HasOut
    BY PcIs DEF HasMsg, HasRec, HasOut
  <2>2. UNCHANGED line
    BY <1>1
  <2>3. \A q \in PMsg : pending[q].msg # NoMsg => pending'[q].msg # NoMsg
    BY <1>0, <1>2, <1>3, RecordOK
  <2>4. QED
    BY <1>0, <1>1, <2>1, <2>2, <2>3, SameKeeps
<1>6. LinesOK' /\ SentOK' /\ RestOK'
  <2>1. panicked' \in BOOLEAN
    BY <1>0, <1>1 DEF RestOK
  <2>2. QED
    BY <1>0, <1>1, <2>1, LinesStay, SentStay, RestStay
<1>7. QED
  BY <1>4, <1>5, <1>6, InvPartsNext

(* The records keep their slots.                                            *)
LEMMA SlotsWithRecord ==
    ASSUME SlotsOK, NEW p, NEW m \in Line, pending' = [pending EXCEPT ![p] = Fresh(m)],
           UNCHANGED <<slot, pMsgPool>>
    PROVE  SlotsOK'
<1>1. /\ pending' \in [PMsg -> [msg : Line \cup {NoMsg}, old : BOOLEAN]]
      /\ \A q \in PMsg : pending[q].msg # NoMsg => pending'[q].msg # NoMsg
  BY RecordOK
<1>2. QED
  BY <1>1 DEF SlotsOK

LEMMA SwapInv ==
    ASSUME Inv, NEW w \in Worker, Swap(w)
    PROVE  Inv'
<1> DEFINE m == conc[w].msg
           p == conc[w].pmsg
<1>0. ConcOK /\ SlotsOK /\ LinesOK /\ SentOK /\ RestOK
  BY InvParts
<1>1. /\ conc[w].pc = "swap" /\ Same(w, "top")
      /\ pending' = [pending EXCEPT ![p] = Fresh(m)]
      /\ UNCHANGED <<line, dropped, inChan, slot, pMsgPool, text, outChan,
                     waitCommitChan, panicked, emitted, committed>>
  BY SwapDoes
<1>2. m \in Line
  <2>1. m \in Seen
    BY <1>0, <1>1 DEF ConcOK, HasMsg
  <2>2. QED
    BY <1>0, <2>1, SeenIs
<1> HIDE DEF m
<1>3. SlotsOK'
  BY <1>0, <1>1, <1>2, SlotsWithRecord
<1>4. ConcOK'
  <2>1. "top" \in Pc /\ "top" \notin HasMsg /\ "top" \notin HasRec /\ "top" \notin HasOut
    BY PcIs DEF HasMsg, HasRec, HasOut
  <2>2. UNCHANGED line
    BY <1>1
  <2>3. \A q \in PMsg : pending[q].msg # NoMsg => pending'[q].msg # NoMsg
    BY <1>0, <1>1, <1>2, RecordOK
  <2>4. QED
    BY <1>0, <1>1, <2>1, <2>2, <2>3, SameKeeps
<1>5. LinesOK' /\ SentOK' /\ RestOK'
  <2>1. panicked' \in BOOLEAN
    BY <1>0, <1>1 DEF RestOK
  <2>2. QED
    BY <1>0, <1>1, <2>1, LinesStay, SentStay, RestStay
<1>6. QED
  BY <1>3, <1>4, <1>5, InvPartsNext

LEMMA ConcatInv ==
    ASSUME Inv, NEW w \in Worker, Concat(w)
    PROVE  Inv'
<1> DEFINE m == conc[w].msg
           p == conc[w].pmsg
           h == pending[p].msg
<1>0. ConcOK /\ SlotsOK /\ LinesOK /\ SentOK /\ RestOK
  BY InvParts, SMTT(30)
<1>1. /\ conc[w].pc = "append"
      /\ UNCHANGED <<line, dropped, inChan, slot, pMsgPool, outChan, waitCommitChan,
                     emitted, committed>>
  BY ConcatDoes
<1>2. \/ panicked' = TRUE /\ UNCHANGED <<text, pending, conc>>
      \/ /\ UNCHANGED panicked
         /\ text' = [text EXCEPT ![h] = text[h] \o text[m]]
         /\ pending' = [pending EXCEPT ![p] = Fresh(h)]
         /\ \/ Becomes(w, "long", m, p, conc[w].id, h, conc[w].scan)
            \/ Same(w, "discard")
  BY ConcatDoes
<1>3. CASE panicked' = TRUE /\ UNCHANGED <<text, pending, conc>>
  BY <1>1, <1>3, PanicInv
<1>4. CASE /\ UNCHANGED panicked
           /\ text' = [text EXCEPT ![h] = text[h] \o text[m]]
           /\ pending' = [pending EXCEPT ![p] = Fresh(h)]
           /\ \/ Becomes(w, "long", m, p, conc[w].id, h, conc[w].scan)
              \/ Same(w, "discard")
  <2>1. p \in PMsg /\ h \in Line /\ h \in Line \cup {NoMsg} /\ h # NoMsg
    <3>1. p \in PMsg /\ h # NoMsg
      BY <1>0, <1>1 DEF ConcOK, HasRec
    <3>2. QED
      BY <1>0, <3>1 DEF SlotsOK
  <2>2. m \in Seen /\ m \in Line /\ m \in Line \cup {NoMsg}
    <3>1. m \in Seen
      BY <1>0, <1>1 DEF ConcOK, HasMsg
    <3>2. QED
      BY <1>0, <3>1, SeenIs
  <2>3. /\ conc[w].id \in Identifier /\ conc[w].scan \in SUBSET Identifier
        /\ p \in PMsg \cup {NoPMsg}
    BY <1>0, LocalsTyped
  <2>4. /\ "long" \in Pc /\ "discard" \in Pc /\ "discard" \in HasMsg
        /\ "append" \in HasMsg /\ "append" \in HasRec
        /\ "discard" \notin HasRec /\ "discard" \notin HasOut
    BY PcIs DEF HasMsg, HasRec, HasOut
  <2>5. UNCHANGED line
    BY <1>1
  <2>6. conc[w].pc = "append"
    BY <1>1
  <2> HIDE DEF m, p, h
  <2>7. /\ \A q \in PMsg : pending[q].msg # NoMsg => pending'[q].msg # NoMsg
        /\ pending'[p].msg # NoMsg /\ SlotsOK'
    BY <1>0, <1>1, <1>4, <2>1, RecordOK, SlotsWithRecord
  <2>8. ConcOK'
    <3>1. CASE Becomes(w, "long", m, p, conc[w].id, h, conc[w].scan)
      BY <1>0, <2>1, <2>2, <2>3, <2>4, <2>5, <2>7, <3>1, ConcKeeps
    <3>2. CASE Same(w, "discard")
      BY <1>0, <2>4, <2>5, <2>6, <2>7, <3>2, SameKeeps
    <3>3. QED
      BY <1>4, <3>1, <3>2
  <2>9. SentOK'
    <3>1. text \in [Line -> Seq(Line)]
      BY <1>0 DEF SentOK
    <3>2. text[h] \o text[m] \in Seq(Line)
      BY <2>1, <2>2, <3>1, ConcatProperties
    <3>3. text' \in [Line -> Seq(Line)]
      BY <1>4, <3>1, <3>2
    <3>4. QED
      BY <1>0, <1>1, <3>3 DEF SentOK
  <2>10. LinesOK' /\ RestOK'
    <3>1. panicked' \in BOOLEAN
      BY <1>0, <1>4 DEF RestOK
    <3>2. QED
      BY <1>0, <1>1, <3>1, LinesStay, RestStay
  <2>11. QED
    BY <2>7, <2>8, <2>9, <2>10, InvPartsNext
<1>5. QED
  BY <1>2, <1>3, <1>4, ZenonT(30)

LEMMA DiscardInv ==
    ASSUME Inv, NEW w \in Worker, DiscardMsg(w)
    PROVE  Inv'
<1>0. ConcOK /\ SlotsOK /\ LinesOK /\ SentOK /\ RestOK
  BY InvParts
<1>1. /\ conc[w].pc = "discard" /\ Same(w, "top")
      /\ Len(waitCommitChan) < ChanSize
      /\ waitCommitChan' = Append(waitCommitChan, conc[w].msg)
      /\ UNCHANGED <<line, dropped, inChan, slot, pMsgPool, pending, text, outChan,
                     panicked, emitted, committed>>
  BY DiscardDoes
<1>2. conc[w].msg \in Line
  <2>1. conc[w].msg \in Seen
    BY <1>0, <1>1 DEF ConcOK, HasMsg
  <2>2. QED
    BY <1>0, <2>1, SeenIs
<1>3. RestOK'
  <2>1. waitCommitChan \in Seq(Line) /\ ChanSize \in Nat
    BY <1>0, ConcatorAssumption DEF RestOK
  <2>2. waitCommitChan' \in Seq(Line) /\ Len(waitCommitChan') <= ChanSize
    BY <1>1, <1>2, <2>1, SendTo
  <2>3. QED
    BY <1>0, <1>1, <2>2 DEF RestOK
<1>4. ConcOK'
  <2>1. "top" \in Pc /\ "top" \notin HasMsg /\ "top" \notin HasRec /\ "top" \notin HasOut
    BY PcIs DEF HasMsg, HasRec, HasOut
  <2>2. UNCHANGED line /\ UNCHANGED pending
    BY <1>1
  <2>3. QED
    BY <1>0, <1>1, <2>1, <2>2, SameKeeps
<1>5. SlotsOK' /\ LinesOK' /\ SentOK'
  BY <1>0, <1>1, SlotsStay, LinesStay, SentStay
<1>6. QED
  BY <1>3, <1>4, <1>5, InvPartsNext

(* Time passes, and the channels are emptied.                               *)
LEMMA ExpireDoes ==
    ASSUME Inv, NEW i \in Identifier, Expire(i)
    PROVE  /\ UNCHANGED <<line, dropped, inChan, slot, pMsgPool, conc, text, outChan,
                          waitCommitChan, panicked, emitted, committed>>
           /\ pending' \in [PMsg -> [msg : Line \cup {NoMsg}, old : BOOLEAN]]
           /\ \A q \in PMsg : pending'[q].msg = pending[q].msg
<1> DEFINE p == slot[i]
<1>1. pending \in [PMsg -> [msg : Line \cup {NoMsg}, old : BOOLEAN]]
  BY DEF Inv, TypeOK
<1>2. /\ pending' = [pending EXCEPT ![p].old = TRUE]
      /\ UNCHANGED <<line, dropped, inChan, slot, pMsgPool, conc, text, outChan,
                     waitCommitChan, panicked, emitted, committed>>
  BY DEF Expire, lineVars
<1> HIDE DEF p
<1>3. \A q \in PMsg : pending'[q] = IF q = p THEN [pending[q] EXCEPT !.old = TRUE] ELSE pending[q]
  BY <1>1, <1>2
<1>4. \A q \in PMsg : /\ pending'[q].msg = pending[q].msg
                      /\ pending'[q] \in [msg : Line \cup {NoMsg}, old : BOOLEAN]
  BY <1>1, <1>3
<1>5. pending' = [q \in PMsg |-> pending'[q]]
  BY <1>1, <1>2
<1>6. QED
  BY <1>2, <1>4, <1>5

(* Time, the next filter and the journal.                                   *)
LEMMA EnvironmentInv ==
    ASSUME Inv, (\E i \in Identifier : Expire(i)) \/ Consume \/ Commit \/ UNCHANGED vars
    PROVE  Inv'
<1>0. ConcOK /\ SlotsOK /\ LinesOK /\ SentOK /\ RestOK
  BY InvParts
<1>1. ASSUME NEW i \in Identifier, Expire(i) PROVE Inv'
  <2>1. /\ UNCHANGED <<line, dropped, inChan, slot, pMsgPool, conc, text, outChan,
                       waitCommitChan, panicked, emitted, committed>>
        /\ pending' \in [PMsg -> [msg : Line \cup {NoMsg}, old : BOOLEAN]]
        /\ \A q \in PMsg : pending'[q].msg = pending[q].msg
    BY <1>1, ExpireDoes
  <2>2. SlotsOK'
    BY <1>0, <2>1 DEF SlotsOK
  <2>3. ConcOK'
    BY <1>0, <2>1 DEF ConcOK, Seen
  <2>4. panicked' \in BOOLEAN
    BY <1>0, <2>1 DEF RestOK
  <2>5. LinesOK' /\ SentOK' /\ RestOK'
    BY <1>0, <2>1, <2>4, LinesStay, SentStay, RestStay
  <2>6. QED
    BY <2>2, <2>3, <2>5, InvPartsNext
<1>2. CASE Consume
  <2>1. /\ outChan # <<>> /\ emitted' = Append(emitted, text[Head(outChan)])
        /\ outChan' = Tail(outChan)
        /\ UNCHANGED <<line, dropped, inChan, slot, pMsgPool, pending, conc, text,
                       waitCommitChan, panicked, committed>>
    BY <1>2 DEF Consume, lineVars, slotVars
  <2>2. SentOK'
    <3>1. /\ outChan \in Seq(Line) /\ Len(outChan) <= ChanSize /\ ChanSize \in Nat
          /\ text \in [Line -> Seq(Line)] /\ emitted \in Seq(Seq(Line))
      BY <1>0, ConcatorAssumption DEF SentOK
    <3>2. Head(outChan) \in Line /\ outChan' \in Seq(Line) /\ Len(outChan') <= ChanSize
      BY <2>1, <3>1, ReceiveFrom
    <3>3. text[Head(outChan)] \in Seq(Line)
      BY <3>1, <3>2
    <3>4. emitted' \in Seq(Seq(Line))
      BY <2>1, <3>1, <3>3, SendTo
    <3>5. QED
      BY <2>1, <3>1, <3>2, <3>4 DEF SentOK
  <2>3. panicked' \in BOOLEAN
    BY <1>0, <2>1 DEF RestOK
  <2>4. ConcOK' /\ SlotsOK' /\ LinesOK' /\ RestOK'
    BY <1>0, <2>1, <2>3, ConcStays, SlotsStay, LinesStay, RestStay
  <2>5. QED
    BY <2>2, <2>4, InvPartsNext
<1>3. CASE Commit
  <2>1. /\ waitCommitChan # <<>> /\ committed' = committed \cup {Head(waitCommitChan)}
        /\ waitCommitChan' = Tail(waitCommitChan)
        /\ UNCHANGED <<line, dropped, inChan, slot, pMsgPool, pending, conc, text, outChan,
                       panicked, emitted>>
    BY <1>3 DEF Commit, lineVars, slotVars
  <2>2. RestOK'
    <3>1. waitCommitChan \in Seq(Line) /\ Len(waitCommitChan) <= ChanSize /\ ChanSize \in Nat
      BY <1>0, ConcatorAssumption DEF RestOK
    <3>2. /\ Head(waitCommitChan) \in Line /\ waitCommitChan' \in Seq(Line)
          /\ Len(waitCommitChan') <= ChanSize
      BY <2>1, <3>1, ReceiveFrom
    <3>3. QED
      BY <1>0, <2>1, <3>2 DEF RestOK
  <2>3. ConcOK' /\ SlotsOK' /\ LinesOK' /\ SentOK'
    BY <1>0, <2>1, ConcStays, SlotsStay, LinesStay, SentStay
  <2>4. QED
    BY <2>2, <2>3, InvPartsNext
<1>4. CASE UNCHANGED vars
  <2>1. UNCHANGED <<line, dropped, inChan, slot, pMsgPool, pending, conc, text, outChan,
                    waitCommitChan, panicked, emitted, committed>>
    BY <1>4 DEF vars, lineVars, slotVars
  <2>2. panicked' \in BOOLEAN
    BY <1>0, <2>1 DEF RestOK
  <2>3. ConcOK' /\ SlotsOK' /\ LinesOK' /\ SentOK' /\ RestOK'
    BY <1>0, <2>1, <2>2, ConcStays, SlotsStay, LinesStay, SentStay, RestStay
  <2>4. QED
    BY <2>3, InvPartsNext
<1>5. QED
  BY <1>1, <1>2, <1>3, <1>4

(* No step breaks the invariant.                                            *)
LEMMA InvNext == Inv /\ [Next]_vars => Inv'
<1> SUFFICES ASSUME Inv, [Next]_vars PROVE Inv'
  OBVIOUS
<1>1. ASSUME NEW k \in Kind, NEW src \in Source, Arrive(k, src) PROVE Inv'
  BY <1>1, ArriveInv
<1>2. ASSUME NEW w \in Worker, ConcatorStep(w) PROVE Inv'
  <2>1. CASE Top(w) \/ ScanEnd(w) \/ StartScan(w) \/ \E i \in Identifier : ScanNext(w, i)
    BY <2>1, ControlStepsInv
  <2>2. ASSUME NEW i \in Identifier, ScanExpired(w, i) PROVE Inv'
    BY <2>2, ScanExpiredInv
  <2>3. CASE Receive(w)
    BY <2>3, ReceiveInv
  <2>4. CASE Flushed(w) \/ LongSent(w)
    BY <2>4, FreeInv
  <2>5. CASE Send(w)
    BY <2>5, SendInv
  <2>6. CASE Handle(w)
    BY <2>6, HandleInv
  <2>7. CASE Insert(w)
    BY <2>7, InsertInv
  <2>8. CASE Known(w)
    BY <2>8, KnownInv
  <2>9. CASE Swap(w)
    BY <2>9, SwapInv
  <2>10. CASE Concat(w)
    BY <2>10, ConcatInv
  <2>11. CASE DiscardMsg(w)
    BY <2>11, DiscardInv
  <2>12. QED
    BY <1>2, <2>1, <2>2, <2>3, <2>4, <2>5, <2>6, <2>7, <2>8, <2>9, <2>10, <2>11
       DEF ConcatorStep
<1>3. CASE (\E i \in Identifier : Expire(i)) \/ Consume \/ Commit \/ UNCHANGED vars
  BY <1>3, EnvironmentInv
<1>4. QED
  BY <1>1, <1>2, <1>3 DEF Next

(* The invariant holds, however many concators there are.                   *)
THEOREM Invariance == Spec => []Inv
BY InvInit, InvNext, PTL DEF Spec

(* The types of the concators' state.                                       *)
THEOREM TypeCorrect == Spec => []TypeOK
<1>1. Inv => TypeOK
  BY DEF Inv
<1>2. QED
  BY <1>1, Invariance, PTL

-----------------------------------------------------------------------------
(* One concator: its slots and its locals.                                  *)
LEMMA OnlyMe == ASSUME OneConcator PROVE Me \in Worker /\ \A w \in Worker : w = Me
BY DEF OneConcator, Me

(* The new locals.                                                          *)
LEMMA MyNext ==
    ASSUME OneConcator, NEW w \in Worker, NEW x, NEW m, NEW p, NEW i, NEW o, NEW s,
           Becomes(w, x, m, p, i, o, s)
    PROVE  /\ My'.pc = x /\ My'.msg = m /\ My'.pmsg = p /\ My'.id = i /\ My'.out = o
           /\ My' = conc'[Me] /\ w = Me
<1>1. w = Me
  BY OnlyMe
<1>2. conc'[Me] = [pc |-> x, msg |-> m, pmsg |-> p, id |-> i, out |-> o, scan |-> s]
  BY <1>1 DEF Becomes
<1>3. My' = conc'[Me]
  BY DEF My
<1>4. QED
  BY <1>1, <1>2, <1>3

(* A step that only moves the program counter.                              *)
LEMMA MySame ==
    ASSUME OneConcator, NEW w \in Worker, NEW x, Same(w, x)
    PROVE  /\ My'.pc = x /\ My'.msg = My.msg /\ My'.pmsg = My.pmsg /\ My'.id = My.id
           /\ My'.out = My.out /\ w = Me /\ conc[w] = My
<1>1. w = Me /\ conc[w] = My
  BY OnlyMe DEF My
<1>2. QED
  BY <1>1, MyNext DEF Same

(* What is in my channel and in my hands.                                   *)
LEMMA MyTypes ==
    ASSUME Inv, OneConcator
    PROVE  /\ My.pc \in Pc /\ My.id \in Identifier
           /\ My.msg \in Line \cup {NoMsg} /\ My.pmsg \in PMsg \cup {NoPMsg}
           /\ My.pc \in HasMsg => My.msg \in Seen
           /\ My.pc \in HasRec => My.pmsg \in PMsg /\ pending[My.pmsg].msg # NoMsg
           /\ My.pc \in HasOut => My.out \in Line
           /\ Queue \in Seq(Line) /\ ToSet(Queue) \subseteq Seen
<1>1. ConcOK /\ LinesOK /\ Me \in Worker
  BY InvParts, OnlyMe
<1>2. QED
  BY <1>1, LocalsTyped DEF ConcOK, LinesOK, My, Queue

(* The messages of the one concator all have a text under its key.          *)
LEMMA MyText ==
    ASSUME Inv, OneConcator, NEW m \in Seen
    PROVE  HasText(Me, m)
<1>1. /\ Route[SourceOf(m)] \in Worker /\ TagOf[Route[SourceOf(m)]] = TagOfMsg(m)
  BY InvParts, SeenIs
<1>2. TagOf[Me] = TagOfMsg(m)
  BY <1>1, OnlyMe
<1>3. QED
  BY <1>2 DEF HasText

(* A message keeps its kind and its container.                              *)
LEMMA KindStays ==
    UNCHANGED line =>
        /\ Seen' = Seen
        /\ \A m : KindOf(m)' = KindOf(m) /\ SourceOf(m)' = SourceOf(m) /\ IdOf(m)' = IdOf(m)
BY DEF Seen, KindOf, SourceOf, IdOf

(* A line that comes changes no other.                                      *)
LEMMA KindGrows ==
    ASSUME Inv, NEW r \in [kind : Kind, src : Source], line' = Append(line, r)
    PROVE  /\ Len(line) \in Nat /\ Len(line') = Len(line) + 1
           /\ Seen' = Seen \cup {Len(line) + 1} /\ Len(line) + 1 \notin Seen
           /\ \A m \in Seen : /\ KindOf(m)' = KindOf(m) /\ SourceOf(m)' = SourceOf(m)
                              /\ IdOf(m)' = IdOf(m)
<1>1. line \in Seq([kind : Kind, src : Source])
  BY InvParts DEF LinesOK
<1>2. /\ Len(line) \in Nat /\ Len(line') = Len(line) + 1
      /\ \A m \in 1 .. Len(line) : line'[m] = line[m]
  BY <1>1, AppendProperties, LenProperties
<1>3. QED
  BY <1>2 DEF Seen, KindOf, SourceOf, IdOf

(* The first line of the entry in a slot.                                   *)
LEMMA HeadsTyped ==
    ASSUME Inv
    PROVE  /\ Heads \in [Identifier -> Line \cup {NoMsg}]
           /\ \A i \in Identifier : /\ Heads[i] = HeadOf(i)
                                    /\ i \in Open <=> slot[i] # NoPMsg
                                    /\ i \in Open => Heads[i] = pending[slot[i]].msg
                                    /\ i \in Open => slot[i] \in PMsg /\ Heads[i] \in Line
           /\ Open \subseteq Identifier
<1>1. SlotsOK
  BY InvParts
<1>2. \A i \in Identifier : slot[i] # NoPMsg =>
          slot[i] \in PMsg /\ pending[slot[i]].msg \in Line /\ pending[slot[i]].msg # NoMsg
  BY <1>1, SlotMsg
<1>3. \A i \in Identifier : HeadOf(i) \in Line \cup {NoMsg}
  BY <1>2 DEF HeadOf
<1>4. QED
  BY <1>2, <1>3 DEF Heads, HeadOf, Open

(* The slots and records are what they were.                                *)
LEMMA HeadsSame ==
    ASSUME Inv, UNCHANGED slot, \A q \in PMsg : pending'[q].msg = pending[q].msg
    PROVE  Heads' = Heads
<1>1. \A i \in Identifier : HeadOf(i)' = HeadOf(i)
  BY HeadsTyped DEF HeadOf
<1>2. QED
  BY <1>1 DEF Heads

(* Everything that the concator holds is as it was.                         *)
Still ==
    /\ UNCHANGED <<line, dropped, Queue, text, outChan, emitted>>
    /\ Held' = Held /\ Heads' = Heads /\ Sent' = Sent /\ Long' = Long

(* A state in which nothing is expected of the locals.                      *)
Idle == {"top", "wait", "poll", "scan"}

LEMMA IdleHas ==
    \A x \in Idle : x \notin HasMsg /\ x \notin HasRec /\ x \notin HasOut
BY DEF Idle, HasMsg, HasRec, HasOut

(* What the locals say of the lines at hand.                                *)
LEMMA HeldIs ==
    /\ Held = IF My.pc \in {"got", "insert", "known", "append", "pass", "replace", "swap"}
              THEN {My.msg} ELSE {}
    /\ Sent = IF My.pc \in {"swap", "longSent", "flushed"} THEN {My.id} ELSE {}
    /\ Long = IF My.pc \in {"long", "longSent"} THEN {My.id} ELSE {}
BY DEF Held, Holding, Sent, Long, My

(* The same after a step.                                                   *)
LEMMA HeldNext ==
    /\ Held' = IF My'.pc \in {"got", "insert", "known", "append", "pass", "replace", "swap"}
               THEN {My'.msg} ELSE {}
    /\ Sent' = IF My'.pc \in {"swap", "longSent", "flushed"} THEN {My'.id} ELSE {}
    /\ Long' = IF My'.pc \in {"long", "longSent"} THEN {My'.id} ELSE {}
BY DEF Held, Holding, Sent, Long, My

-----------------------------------------------------------------------------
(* The steps of the one concator that leave the lines where they are.       *)
LEMMA RecordStays ==
    RecordInv /\ UNCHANGED <<panicked, slot, pMsgPool>> => RecordInv'
BY DEF RecordInv

LEMMA LocalSteps ==
    OnlyLocal => /\ UNCHANGED <<line, dropped, inChan, slot, pMsgPool, pending, text, outChan,
                                waitCommitChan, panicked, emitted, committed>>
                 /\ UNCHANGED Queue
BY DEF OnlyLocal, lineVars, slotVars, Queue

LEMMA IdleLocals ==
    My.pc \in Idle \cup {"got", "discard"} => LocalsInv
BY DEF Idle, LocalsInv, HasRec

LEMMA IdleLocalsNext ==
    My'.pc \in Idle \cup {"got", "discard"} => LocalsInv'
BY DEF Idle, LocalsInv, HasRec

(* The steps that move no line.                                             *)
LEMMA IdleStill ==
    ASSUME OneConcator, OneInv, NEW w \in Worker,
           Top(w) \/ ScanEnd(w) \/ StartScan(w) \/ \E i \in Identifier : ScanNext(w, i)
    PROVE  RecordInv' /\ LocalsInv' /\ Still
<1>0. Inv /\ RecordInv
  BY DEF OneInv
<1>1. OnlyLocal /\ My.pc \in Idle /\ My'.pc \in Idle
  <2>1. CASE Top(w)
    <3>1. OnlyLocal /\ conc[w].pc = "top" /\ (Same(w, "wait") \/ Same(w, "poll"))
      BY <1>0, <2>1, TopDoes
    <3>2. My.pc = "top" /\ (My'.pc = "wait" \/ My'.pc = "poll")
      BY <3>1, MySame
    <3>3. QED
      BY <3>1, <3>2 DEF Idle
  <2>2. CASE ScanEnd(w)
    BY <1>0, <2>2, ScanEndDoes, MySame DEF Idle
  <2>3. CASE StartScan(w)
    <3>1. w = Me /\ conc[w] = My
      BY OnlyMe DEF My
    <3>2. QED
      BY <1>0, <2>3, <3>1, StartScanDoes, MyNext, ZenonT(30) DEF Idle
  <2>4. ASSUME NEW i \in Identifier, ScanNext(w, i)
        PROVE  OnlyLocal /\ My.pc \in Idle /\ My'.pc \in Idle
    <3>1. w = Me /\ conc[w] = My
      BY OnlyMe DEF My
    <3>2. QED
      <4>1. /\ My.pc = "scan" /\ OnlyLocal
            /\ Becomes(w, "scan", My.msg, My.pmsg, My.id, My.out, My.scan \ {i})
        BY <1>0, <2>4, <3>1, ScanNextDoes
      <4>2. My'.pc = "scan"
        BY <4>1, MyNext
      <4>3. QED
        BY <4>1, <4>2 DEF Idle
  <2>5. QED
    BY <2>1, <2>2, <2>3, <2>4
<1>2. UNCHANGED <<line, dropped, slot, pMsgPool, pending, text, outChan, panicked, emitted>>
      /\ UNCHANGED Queue
  BY <1>1, LocalSteps
<1>3. Heads' = Heads
  BY <1>0, <1>2, HeadsSame
<1>4. Held' = Held /\ Sent' = Sent /\ Long' = Long
  BY <1>1, HeldIs, HeldNext DEF Idle
<1>5. QED
  BY <1>0, <1>1, <1>2, <1>3, <1>4, RecordStays, IdleLocalsNext DEF Still

LEMMA DiscardStill ==
    ASSUME OneConcator, OneInv, NEW w \in Worker, DiscardMsg(w)
    PROVE  RecordInv' /\ LocalsInv' /\ Still
<1>0. Inv /\ RecordInv
  BY DEF OneInv
<1>1. /\ conc[w].pc = "discard" /\ Same(w, "top")
      /\ UNCHANGED <<line, dropped, inChan, slot, pMsgPool, pending, text, outChan,
                     panicked, emitted, committed>>
  BY <1>0, DiscardDoes
<1>2. My.pc = "discard" /\ My'.pc = "top"
  BY <1>1, MySame
<1>3. Heads' = Heads
  BY <1>0, <1>1, HeadsSame
<1>4. Held' = Held /\ Sent' = Sent /\ Long' = Long
  BY <1>2, HeldIs, HeldNext
<1>5. Queue' = Queue
  BY <1>1 DEF Queue
<1>6. QED
  BY <1>0, <1>1, <1>2, <1>3, <1>4, <1>5, RecordStays, IdleLocalsNext DEF Still, Idle

LEMMA HandleStill ==
    ASSUME OneConcator, OneInv, NEW w \in Worker, Handle(w)
    PROVE  RecordInv' /\ LocalsInv' /\ Still
<1>0. Inv /\ RecordInv
  BY DEF OneInv
<1>1. w = Me /\ conc[w] = My
  BY OnlyMe DEF My
<1>2. OnlyLocal /\ My.pc = "got"
  BY <1>0, <1>1, HandleDoes
<1>3. UNCHANGED <<line, dropped, slot, pMsgPool, pending, text, outChan, panicked, emitted>>
      /\ UNCHANGED Queue
  BY <1>2, LocalSteps
<1>4. /\ My'.msg = My.msg
      /\ \/ /\ My'.pc = "pass" /\ My'.out = My.msg
            /\ KindOf(My.msg) = "odd" \/ (KindOf(My.msg) = "tail" /\ slot[IdOf(My.msg)] = NoPMsg)
         \/ /\ My'.pc = "insert" /\ My'.id = IdOf(My.msg)
            /\ KindOf(My.msg) = "head" /\ slot[IdOf(My.msg)] = NoPMsg
         \/ /\ My'.pc = "known" /\ My'.id = IdOf(My.msg)
            /\ KindOf(My.msg) # "odd" /\ slot[IdOf(My.msg)] # NoPMsg
  BY <1>0, <1>1, HandleDoes, MyNext
<1>5. My.msg \in Seen
  BY <1>0, <1>2, MyTypes DEF HasMsg
<1>6. LocalsInv'
  <2>1. My'.msg \in Seen' /\ KindOf(My.msg)' = KindOf(My.msg) /\ IdOf(My.msg)' = IdOf(My.msg)
        /\ slot' = slot
    BY <1>3, <1>4, <1>5 DEF KindOf, IdOf, SourceOf, Seen
  <2>2. QED
    BY <1>4, <2>1 DEF LocalsInv, HasRec
<1>7. Heads' = Heads
  BY <1>0, <1>3, HeadsSame
<1>8. Held' = Held /\ Sent' = Sent /\ Long' = Long
  BY <1>2, <1>4, HeldIs, HeldNext
<1>9. QED
  BY <1>0, <1>3, <1>6, <1>7, <1>8, RecordStays DEF Still

LEMMA KnownStill ==
    ASSUME OneConcator, OneInv, NEW w \in Worker, Known(w)
    PROVE  RecordInv' /\ LocalsInv' /\ Still
<1>0. Inv /\ RecordInv /\ LocalsInv
  BY DEF OneInv
<1>1. w = Me /\ conc[w] = My
  BY OnlyMe DEF My
<1>2. /\ My.pc = "known"
      /\ UNCHANGED <<line, dropped, inChan, slot, pMsgPool, pending, text, outChan,
                     waitCommitChan, emitted, committed>>
  BY <1>0, <1>1, KnownDoes
<1>3. KindOf(My.msg) # "odd" /\ slot[My.id] # NoPMsg /\ My.id = IdOf(My.msg) /\ My.msg \in Seen
  BY <1>0, <1>2, MyTypes DEF LocalsInv, HasMsg
<1>4. /\ My'.msg = My.msg /\ My'.pmsg = slot[My.id] /\ My'.id = My.id
      /\ UNCHANGED panicked
      /\ \/ /\ My'.pc = "replace" /\ My'.out = pending[slot[My.id]].msg
            /\ KindOf(My.msg) = "head"
         \/ My'.pc = "append" /\ KindOf(My.msg) # "head"
  <2>1. \/ /\ UNCHANGED panicked /\ KindOf(My.msg) = "head"
           /\ Becomes(w, "replace", My.msg, slot[My.id], My.id, pending[slot[My.id]].msg, My.scan)
        \/ /\ UNCHANGED panicked /\ KindOf(My.msg) # "head"
           /\ Becomes(w, "append", My.msg, slot[My.id], My.id, My.out, My.scan)
    BY <1>0, <1>1, <1>3, KnownDoes
  <2>2. CASE /\ UNCHANGED panicked /\ KindOf(My.msg) = "head"
             /\ Becomes(w, "replace", My.msg, slot[My.id], My.id, pending[slot[My.id]].msg, My.scan)
    BY <2>2, MyNext
  <2>3. CASE /\ UNCHANGED panicked /\ KindOf(My.msg) # "head"
             /\ Becomes(w, "append", My.msg, slot[My.id], My.id, My.out, My.scan)
    BY <2>3, MyNext
  <2>4. QED
    BY <2>1, <2>2, <2>3
<1>5. KindOf(My.msg) \in Kind
  BY <1>0, <1>3, InvParts, SeenIs
<1>6. LocalsInv'
  <2>1. My'.msg \in Seen' /\ KindOf(My.msg)' = KindOf(My.msg) /\ IdOf(My.msg)' = IdOf(My.msg)
        /\ slot' = slot /\ pending' = pending
    BY <1>2, <1>3, <1>4 DEF KindOf, IdOf, SourceOf, Seen
  <2>2. My'.pc = "append" => KindOf(My.msg) = "tail"
    BY <1>3, <1>4, <1>5 DEF Kind
  <2>3. slot'[My'.id] = My'.pmsg
    BY <1>4, <2>1
  <2>4. My'.id = IdOf(My.msg)'
    BY <1>3, <1>4, <2>1
  <2>5. My'.pc \in {"replace", "append"}
    BY <1>4
  <2>6. My'.pc = "replace" => My'.out = pending'[My'.pmsg].msg /\ KindOf(My.msg)' = "head"
    BY <1>4, <2>1
  <2>7. My'.pc = "append" => KindOf(My.msg)' = "tail"
    BY <2>1, <2>2
  <2>8. QED
    BY <2>3, <2>4, <2>5, <2>6, <2>7 DEF LocalsInv, HasRec
<1>7. Heads' = Heads
  BY <1>0, <1>2, HeadsSame
<1>8. Held' = Held /\ Sent' = Sent /\ Long' = Long
  BY <1>2, <1>4, HeldIs, HeldNext
<1>9. Queue' = Queue
  BY <1>2 DEF Queue
<1>10. QED
  BY <1>0, <1>2, <1>4, <1>6, <1>7, <1>8, <1>9, RecordStays DEF Still

(* A slot that has timed out has a text.                                    *)
LEMMA ScanExpiredStill ==
    ASSUME OneConcator, OneInv, NEW w \in Worker, NEW i \in Identifier, ScanExpired(w, i)
    PROVE  RecordInv' /\ LocalsInv' /\ Still
<1>0. Inv /\ RecordInv /\ LocalsInv /\ HeadInv
  BY DEF OneInv, DataInv
<1>1. w = Me /\ conc[w] = My
  BY OnlyMe DEF My
<1>2. /\ My.pc = "scan" /\ slot[i] # NoPMsg
      /\ UNCHANGED <<line, dropped, inChan, slot, pMsgPool, pending, text, outChan,
                     waitCommitChan, emitted, committed>>
  BY <1>0, <1>1, ScanExpiredDoes
<1>3. HasText(w, pending[slot[i]].msg)
  <2>1. i \in Open /\ Heads[i] = pending[slot[i]].msg
    BY <1>0, <1>2, HeadsTyped
  <2>2. Heads[i] \in Seen
    BY <1>0, <2>1 DEF HeadInv
  <2>3. QED
    BY <1>0, <1>1, <2>1, <2>2, MyText
<1>4. /\ My'.pc = "flush" /\ My'.pmsg = slot[i] /\ My'.id = i
      /\ My'.out = pending[slot[i]].msg /\ UNCHANGED panicked
  <2>1. /\ UNCHANGED panicked
        /\ Becomes(w, "flush", My.msg, slot[i], i, pending[slot[i]].msg, My.scan \ {i})
    BY <1>0, <1>1, <1>3, ScanExpiredDoes
  <2>2. QED
    BY <2>1, MyNext
<1>5. LocalsInv'
  BY <1>2, <1>4 DEF LocalsInv, HasRec
<1>6. Heads' = Heads
  BY <1>0, <1>2, HeadsSame
<1>7. Held' = Held /\ Sent' = Sent /\ Long' = Long
  BY <1>2, <1>4, HeldIs, HeldNext
<1>8. Queue' = Queue
  BY <1>2 DEF Queue
<1>9. QED
  BY <1>0, <1>2, <1>4, <1>5, <1>6, <1>7, <1>8, RecordStays DEF Still

(* Nor does time, or the journal.                                           *)
LEMMA EnvironmentStill ==
    ASSUME OneConcator, OneInv, (\E i \in Identifier : Expire(i)) \/ Commit \/ UNCHANGED vars
    PROVE  RecordInv' /\ LocalsInv' /\ Still
<1>0. Inv /\ RecordInv /\ LocalsInv
  BY DEF OneInv
<1>1. /\ UNCHANGED <<line, dropped, inChan, slot, pMsgPool, conc, text, outChan, panicked,
                     emitted>>
      /\ \A q \in PMsg : pending'[q].msg = pending[q].msg
  <2>1. ASSUME NEW i \in Identifier, Expire(i) PROVE <1>1
    BY <1>0, <2>1, ExpireDoes
  <2>2. CASE Commit
    BY <2>2 DEF Commit, lineVars, slotVars
  <2>3. CASE UNCHANGED vars
    BY <2>3 DEF vars, lineVars, slotVars
  <2>4. QED
    BY <2>1, <2>2, <2>3
<1>2. Heads' = Heads
  BY <1>0, <1>1, HeadsSame
<1>3. My' = My /\ Queue' = Queue
  BY <1>1 DEF My, Queue
<1>4. Held' = Held /\ Sent' = Sent /\ Long' = Long
  BY <1>3, HeldIs, HeldNext
<1>5. LocalsInv'
  <2>1. My.pc \in HasRec => pending'[My.pmsg].msg = pending[My.pmsg].msg
    BY <1>0, <1>1, MyTypes
  <2>2. {"replace", "long", "flush"} \subseteq HasRec
    BY DEF HasRec
  <2>3. line' = line /\ slot' = slot
    BY <1>1
  <2>4. Seen' = Seen /\ KindOf(My.msg)' = KindOf(My.msg) /\ IdOf(My.msg)' = IdOf(My.msg)
    BY <1>3, <2>3 DEF KindOf, IdOf, SourceOf, Seen
  <2>5. My.pc \in {"replace", "long", "flush"} => My.out = pending'[My.pmsg].msg
    BY <1>0, <2>1, <2>2 DEF LocalsInv
  <2>6. QED
    BY <1>0, <1>3, <2>3, <2>4, <2>5 DEF LocalsInv
<1>6. QED
  BY <1>0, <1>1, <1>2, <1>3, <1>4, <1>5, RecordStays DEF Still

-----------------------------------------------------------------------------
(* The steps of the one concator that move lines.                           *)

(* It takes the next line.                                                  *)
Takes ==
    /\ UNCHANGED <<line, dropped, text, outChan, emitted>>
    /\ Heads' = Heads /\ Sent' = Sent /\ Long' = Long
    /\ Queue # <<>> /\ Queue' = Tail(Queue) /\ Held = {} /\ Held' = {Head(Queue)}

(* Receive takes the next line.                                             *)
LEMMA ReceiveTakes ==
    ASSUME OneConcator, OneInv, NEW w \in Worker, Receive(w)
    PROVE  RecordInv' /\ LocalsInv' /\ Takes
<1>0. Inv /\ RecordInv
  BY DEF OneInv
<1>1. w = Me /\ conc[w] = My /\ inChan[w] = Queue
  BY OnlyMe DEF My, Queue
<1>2. /\ My.pc \in {"wait", "poll"} /\ Queue # <<>>
      /\ Becomes(w, "got", Head(Queue), My.pmsg, My.id, My.out, My.scan)
      /\ inChan' = [inChan EXCEPT ![Me] = Tail(Queue)]
      /\ UNCHANGED <<line, dropped, slot, pMsgPool, pending, text, outChan,
                     waitCommitChan, panicked, emitted, committed>>
  BY <1>0, <1>1, ReceiveDoes
<1>3. My'.pc = "got" /\ My'.msg = Head(Queue)
  BY <1>2, MyNext
<1>4. Heads' = Heads
  BY <1>0, <1>2, HeadsSame
<1>5. Held = {} /\ Held' = {Head(Queue)} /\ Sent' = Sent /\ Long' = Long
  BY <1>2, <1>3, HeldIs, HeldNext
<1>6. Queue' = Tail(Queue)
  <2>1. inChan \in [Worker -> Seq(Line)] /\ Me \in Worker
    BY <1>0, OnlyMe, InvParts DEF LinesOK
  <2>2. QED
    BY <1>2, <2>1 DEF Queue
<1>7. QED
  BY <1>0, <1>2, <1>3, <1>4, <1>5, <1>6, RecordStays, IdleLocalsNext DEF Takes

(* It sends a line as it is.                                                *)
Passes(m) ==
    /\ UNCHANGED <<line, dropped, Queue, text, emitted>>
    /\ Heads' = Heads /\ Sent = {} /\ Sent' = {} /\ Long' = Long
    /\ Held = {m} /\ Held' = {} /\ outChan' = Append(outChan, m)
    /\ KindOf(m) = "odd" \/ (KindOf(m) = "tail" /\ IdOf(m) \notin Open)

(* It sends the entry in slot i.                                            *)
Sends(i) ==
    /\ UNCHANGED <<line, dropped, Queue, text, emitted>>
    /\ Heads' = Heads /\ Held' = Held /\ Long' = Long
    /\ i \in Open /\ Sent = {} /\ Sent' = {i} /\ outChan' = Append(outChan, Heads[i])

(* Send passes a line or sends an entry.                                    *)
LEMMA SendMoves ==
    ASSUME OneConcator, OneInv, NEW w \in Worker, Send(w)
    PROVE  /\ RecordInv' /\ LocalsInv'
           /\ Passes(My.msg) \/ Sends(My.id)
<1>0. Inv /\ RecordInv /\ LocalsInv
  BY DEF OneInv
<1>1. w = Me /\ conc[w] = My
  BY OnlyMe DEF My
<1>2. /\ My.pc \in HasOut /\ Same(w, AfterSend[My.pc])
      /\ outChan' = Append(outChan, My.out)
      /\ UNCHANGED <<line, dropped, inChan, slot, pMsgPool, pending, text,
                     waitCommitChan, panicked, emitted, committed>>
  BY <1>0, <1>1, SendDoes
<1>3. PICK y : y = AfterSend[My.pc]
  OBVIOUS
<1>4. /\ My'.pc = y /\ My'.msg = My.msg /\ My'.pmsg = My.pmsg /\ My'.id = My.id
  BY <1>2, <1>3, MySame
<1>5. \/ My.pc = "pass" /\ y = "top"
      \/ My.pc = "replace" /\ y = "swap"
      \/ My.pc = "long" /\ y = "longSent"
      \/ My.pc = "flush" /\ y = "flushed"
  BY <1>2, <1>3, PcIs DEF HasOut
<1>6. UNCHANGED Queue /\ Heads' = Heads
  BY <1>0, <1>2, HeadsSame DEF Queue
<1>7. CASE My.pc = "pass" /\ y = "top"
  <2>1. LocalsInv'
    BY <1>4, <1>7, IdleLocalsNext DEF Idle
  <2>2. Held = {My.msg} /\ Held' = {} /\ Sent = {} /\ Sent' = {} /\ Long' = Long
    BY <1>4, <1>7, HeldIs, HeldNext
  <2>3. /\ My.out = My.msg /\ My.msg \in Seen
        /\ KindOf(My.msg) = "odd" \/ (KindOf(My.msg) = "tail" /\ slot[IdOf(My.msg)] = NoPMsg)
    BY <1>0, <1>7 DEF LocalsInv
  <2>4. IdOf(My.msg) \in Identifier
    BY <1>0, <2>3, InvParts, SeenIs
  <2>5. slot[IdOf(My.msg)] = NoPMsg => IdOf(My.msg) \notin Open
    BY <1>0, <2>4, HeadsTyped
  <2>6. QED
    BY <1>0, <1>2, <1>6, <2>1, <2>2, <2>3, <2>5, RecordStays DEF Passes
<1>8. CASE My.pc # "pass"
  <2>1. My.pc \in HasRec /\ My.pc \in {"replace", "long", "flush"}
    BY <1>5, <1>8 DEF HasRec
  <2>2. /\ My.out = pending[My.pmsg].msg /\ slot[My.id] = My.pmsg /\ My.pmsg \in PMsg
        /\ My.id \in Identifier
    BY <1>0, <2>1, MyTypes DEF LocalsInv
  <2>3. slot[My.id] # NoPMsg
    BY <2>2, ConcatorAssumption
  <2>4. My.id \in Open /\ Heads[My.id] = My.out
    BY <1>0, <2>2, <2>3, HeadsTyped
  <2>5. Held' = Held /\ Sent = {} /\ Sent' = {My.id} /\ Long' = Long
    BY <1>4, <1>5, <1>8, HeldIs, HeldNext
  <2>6. LocalsInv'
    <3>1. KindOf(My.msg)' = KindOf(My.msg) /\ IdOf(My.msg)' = IdOf(My.msg) /\ slot' = slot
      BY <1>2, <1>4 DEF KindOf, IdOf, SourceOf
    <3>2. y = "swap" => My.id = IdOf(My.msg) /\ KindOf(My.msg) = "head"
      BY <1>0, <1>5 DEF LocalsInv
    <3>3. y \in {"swap", "longSent", "flushed"}
      BY <1>5, <1>8
    <3>4. slot'[My'.id] = My'.pmsg
      BY <1>4, <2>2, <3>1
    <3>5. My'.pc = "swap" => My'.id = IdOf(My.msg)' /\ KindOf(My.msg)' = "head"
      BY <1>4, <3>1, <3>2
    <3>6. My'.pc \in {"swap", "longSent", "flushed"} /\ My'.msg = My.msg
      BY <1>4, <3>3
    <3>7. QED
      BY <3>4, <3>5, <3>6 DEF LocalsInv, KindOf, IdOf, SourceOf
  <2>7. QED
    BY <1>0, <1>2, <1>6, <2>4, <2>5, <2>6, RecordStays DEF Sends
<1>9. QED
  BY <1>7, <1>8, <1>5

(* It frees the slot i, whose entry is sent.                                *)
Frees(i) ==
    /\ UNCHANGED <<line, dropped, Queue, text, outChan, emitted>>
    /\ Held' = Held /\ Sent = {i} /\ Sent' = {} /\ Long \subseteq {i} /\ Long' = {}
    /\ Heads' = [Heads EXCEPT ![i] = NoMsg]

(* Flushed and LongSent free the slot.                                      *)
LEMMA FreeFrees ==
    ASSUME OneConcator, OneInv, NEW w \in Worker, Flushed(w) \/ LongSent(w)
    PROVE  RecordInv' /\ LocalsInv' /\ Frees(My.id)
<1> DEFINE i == My.id
           p == My.pmsg
<1>0. Inv /\ RecordInv /\ LocalsInv
  BY DEF OneInv
<1>1. w = Me /\ conc[w] = My
  BY OnlyMe DEF My
<1>2. /\ \/ My.pc = "flushed" /\ Same(w, "scan")
         \/ My.pc = "longSent" /\ Same(w, "discard")
      /\ FreeSlot(i, p)
      /\ UNCHANGED <<line, dropped, inChan, text, outChan, waitCommitChan, panicked,
                     emitted, committed>>
  BY <1>0, <1>1, FreeDoes
<1>3. /\ pMsgPool' = [pMsgPool EXCEPT ![p] = @ + 1]
      /\ slot' = [slot EXCEPT ![i] = NoPMsg] /\ UNCHANGED pending
  BY <1>2 DEF FreeSlot
<1>4. p \in PMsg /\ i \in Identifier /\ slot[i] = p /\ p # NoPMsg
  <2>1. My.pc \in HasRec
    BY <1>2 DEF HasRec
  <2>2. QED
    BY <1>0, <2>1, MyTypes, ConcatorAssumption DEF LocalsInv
<1>5. SlotsOK
  BY <1>0, InvParts
<1>6. \/ My.pc = "flushed" /\ My'.pc = "scan"
      \/ My.pc = "longSent" /\ My'.pc = "discard"
  BY <1>2, MySame
<1> HIDE DEF p
<1>7. \A j \in Identifier : slot'[j] = IF j = i THEN NoPMsg ELSE slot[j]
  BY <1>3, <1>5 DEF SlotsOK
<1>8. RecordInv'
  <2>1. \A q \in PMsg : q # p => pMsgPool'[q] = pMsgPool[q]
    BY <1>3, <1>5 DEF SlotsOK
  <2>2. \A j \in Identifier : slot'[j] # p
    BY <1>0, <1>4, <1>7 DEF RecordInv
  <2>3. \A q \in PMsg : (\E j \in Identifier : slot'[j] = q) => pMsgPool'[q] = 0
    <3>1. ASSUME NEW q \in PMsg, NEW j \in Identifier, slot'[j] = q PROVE pMsgPool'[q] = 0
      <4>1. slot[j] = q /\ q # p
        BY <1>7, <2>2, <3>1, ConcatorAssumption
      <4>2. QED
        BY <1>0, <2>1, <4>1 DEF RecordInv
    <3>2. QED
      BY <3>1
  <2>4. \A j, k \in Identifier : slot'[j] = slot'[k] /\ slot'[j] # NoPMsg => j = k
    BY <1>0, <1>7 DEF RecordInv
  <2>5. ~panicked'
    BY <1>0, <1>2 DEF RecordInv
  <2>6. pMsgPool'[p] <= 1
    <3>1. pMsgPool[p] = 0
      BY <1>0, <1>4 DEF RecordInv
    <3>2. QED
      BY <1>3, <1>4, <1>5, <3>1 DEF SlotsOK
  <2>7. \A q \in PMsg : pMsgPool'[q] <= 1
    BY <1>0, <2>1, <2>6 DEF RecordInv
  <2>8. QED
    BY <2>3, <2>4, <2>5, <2>7 DEF RecordInv
<1>9. LocalsInv'
  BY <1>6, IdleLocalsNext DEF Idle
<1>10. Heads' = [Heads EXCEPT ![i] = NoMsg]
  <2>1. \A j \in Identifier : HeadOf(j)' = IF j = i THEN NoMsg ELSE HeadOf(j)
    BY <1>3, <1>7 DEF HeadOf
  <2>2. QED
    BY <2>1 DEF Heads
<1>11. /\ Held' = Held /\ Sent = {i} /\ Sent' = {} /\ Long \subseteq {i} /\ Long' = {}
  BY <1>6, HeldIs, HeldNext
<1>12. Queue' = Queue
  BY <1>2 DEF Queue
<1>13. QED
  BY <1>2, <1>8, <1>9, <1>10, <1>11, <1>12 DEF Frees

(* A line in its hands becomes the first of the entry in slot i.            *)
Opens(i, m) ==
    /\ UNCHANGED <<line, dropped, Queue, text, outChan, emitted>>
    /\ Held = {m} /\ Held' = {} /\ KindOf(m) = "head" /\ IdOf(m) = i /\ i \in Identifier
    /\ Sent \subseteq {i} /\ (i \in Open => i \in Sent) /\ Sent' = {}
    /\ Long = {} /\ Long' = {}
    /\ Heads' = [Heads EXCEPT ![i] = m]

(* Insert opens an entry in an empty slot.                                  *)
LEMMA InsertOpens ==
    ASSUME OneConcator, OneInv, NEW w \in Worker, Insert(w)
    PROVE  RecordInv' /\ LocalsInv' /\ Opens(My.id, My.msg)
<1> DEFINE i == My.id
           m == My.msg
<1>0. Inv /\ RecordInv /\ LocalsInv /\ SlotsOK
  BY InvParts DEF OneInv
<1>1. w = Me /\ conc[w] = My
  BY OnlyMe DEF My
<1>2. /\ My.pc = "insert" /\ Same(w, "top")
      /\ UNCHANGED <<line, dropped, inChan, text, outChan, waitCommitChan, panicked,
                     emitted, committed>>
  BY <1>0, <1>1, InsertDoes
<1>3. PICK p \in PMsg :
         /\ pMsgPool[p] > 0
         /\ pMsgPool' = [pMsgPool EXCEPT ![p] = pMsgPool[p] - 1]
         /\ pending' = [pending EXCEPT ![p] = Fresh(m)]
         /\ slot' = [slot EXCEPT ![i] = p]
  BY <1>0, <1>1, InsertDoes
<1>4. My'.pc = "top"
  BY <1>2, MySame
<1>5. /\ i \in Identifier /\ m \in Seen /\ i = IdOf(m) /\ KindOf(m) = "head"
      /\ slot[i] = NoPMsg /\ p # NoPMsg
  BY <1>0, <1>2, MyTypes, ConcatorAssumption DEF LocalsInv, HasMsg
<1>6. m \in Line
  BY <1>0, <1>5, InvParts, SeenIs
<1> HIDE DEF i, m
<1>7. \A j \in Identifier : slot[j] # p
  <2>1. pMsgPool[p] # 0
    BY <1>3
  <2>2. QED
    BY <1>0, <2>1 DEF RecordInv
<1>8. \A j \in Identifier : slot'[j] = IF j = i THEN p ELSE slot[j]
  BY <1>0, <1>3 DEF SlotsOK
<1>9. \A q \in PMsg : pending'[q].msg = IF q = p THEN m ELSE pending[q].msg
  BY <1>0, <1>3, <1>6, RecordOK
<1>10. RecordInv'
  <2>1. \A q \in PMsg : q # p => pMsgPool'[q] = pMsgPool[q]
    BY <1>0, <1>3 DEF SlotsOK
  <2>2. pMsgPool'[p] = 0
    <3>1. pMsgPool[p] \in Nat /\ pMsgPool[p] > 0 /\ pMsgPool[p] <= 1
      BY <1>0, <1>3 DEF RecordInv, SlotsOK
    <3>2. pMsgPool[p] = 1
      BY <3>1
    <3>3. QED
      BY <1>0, <1>3, <3>2 DEF SlotsOK
  <2>3. QED
    <3>1. \A q \in PMsg : pMsgPool'[q] <= 1
      BY <1>0, <2>1, <2>2 DEF RecordInv
    <3>2. \A q \in PMsg : (\E j \in Identifier : slot'[j] = q) => pMsgPool'[q] = 0
      BY <1>0, <1>8, <2>1, <2>2 DEF RecordInv
    <3>3. \A j, k \in Identifier : slot'[j] = slot'[k] /\ slot'[j] # NoPMsg => j = k
      BY <1>0, <1>7, <1>8 DEF RecordInv
    <3>4. ~panicked'
      BY <1>0, <1>2 DEF RecordInv
    <3>5. QED
      BY <3>1, <3>2, <3>3, <3>4 DEF RecordInv
<1>11. LocalsInv'
  BY <1>4, IdleLocalsNext DEF Idle
<1>12. Heads' = [Heads EXCEPT ![i] = m]
  <2>1. \A j \in Identifier : HeadOf(j)' = IF j = i THEN m ELSE HeadOf(j)
    <3>1. ASSUME NEW j \in Identifier, j # i, slot[j] # NoPMsg
          PROVE  pending'[slot[j]].msg = pending[slot[j]].msg
      BY <1>0, <1>7, <1>9, <3>1 DEF SlotsOK
    <3>2. pending'[p].msg = m
      BY <1>9
    <3>3. QED
      BY <1>5, <1>8, <3>1, <3>2 DEF HeadOf
  <2>2. QED
    BY <2>1 DEF Heads
<1>13. Held = {m} /\ Held' = {} /\ Sent = {} /\ Sent' = {} /\ Long = {} /\ Long' = {}
  BY <1>2, <1>4, HeldIs, HeldNext DEF m
<1>14. Queue' = Queue /\ i \notin Open
  BY <1>0, <1>2, <1>5, HeadsTyped DEF Queue
<1>15. QED
  BY <1>2, <1>5, <1>10, <1>11, <1>12, <1>13, <1>14 DEF Opens, i, m

(* Swap opens one in place of the entry that is sent.                       *)
LEMMA SwapOpens ==
    ASSUME OneConcator, OneInv, NEW w \in Worker, Swap(w)
    PROVE  RecordInv' /\ LocalsInv' /\ Opens(My.id, My.msg)
<1> DEFINE i == My.id
           m == My.msg
           p == My.pmsg
<1>0. Inv /\ RecordInv /\ LocalsInv /\ SlotsOK
  BY InvParts DEF OneInv
<1>1. w = Me /\ conc[w] = My
  BY OnlyMe DEF My
<1>2. /\ My.pc = "swap" /\ Same(w, "top")
      /\ pending' = [pending EXCEPT ![p] = Fresh(m)]
      /\ UNCHANGED <<line, dropped, inChan, slot, pMsgPool, text, outChan, waitCommitChan,
                     panicked, emitted, committed>>
  BY <1>0, <1>1, SwapDoes
<1>3. My'.pc = "top"
  BY <1>2, MySame
<1>4. /\ i \in Identifier /\ m \in Seen /\ i = IdOf(m) /\ KindOf(m) = "head"
      /\ p \in PMsg /\ slot[i] = p /\ p # NoPMsg
  BY <1>0, <1>2, MyTypes, ConcatorAssumption DEF LocalsInv, HasMsg, HasRec
<1>5. m \in Line
  BY <1>0, <1>4, InvParts, SeenIs
<1>6. Held = {m} /\ Held' = {} /\ Sent = {i} /\ Sent' = {} /\ Long = {} /\ Long' = {}
  BY <1>2, <1>3, HeldIs, HeldNext
<1> HIDE DEF i, m, p
<1>7. \A q \in PMsg : pending'[q].msg = IF q = p THEN m ELSE pending[q].msg
  BY <1>0, <1>2, <1>5, RecordOK
<1>8. \A j \in Identifier : slot[j] = p <=> j = i
  BY <1>0, <1>4 DEF RecordInv
<1>9. Heads' = [Heads EXCEPT ![i] = m]
  <2>1. \A j \in Identifier : HeadOf(j)' = IF j = i THEN m ELSE HeadOf(j)
    <3>1. \A j \in Identifier : slot[j] # NoPMsg => slot[j] \in PMsg
      BY <1>0 DEF SlotsOK
    <3>2. QED
      BY <1>2, <1>4, <1>7, <1>8, <3>1 DEF HeadOf
  <2>2. QED
    BY <2>1 DEF Heads
<1>10. Queue' = Queue
  BY <1>2 DEF Queue
<1>11. RecordInv' /\ LocalsInv'
  BY <1>0, <1>2, <1>3, RecordStays, IdleLocalsNext DEF Idle
<1>12. QED
  BY <1>2, <1>4, <1>6, <1>9, <1>10, <1>11 DEF Opens, i, m

(* A tail in its hands is joined to the entry in slot i.                    *)
Joins(i, m) ==
    /\ UNCHANGED <<line, dropped, Queue, outChan, emitted>>
    /\ Held = {m} /\ Held' = {} /\ KindOf(m) = "tail" /\ IdOf(m) = i /\ i \in Open
    /\ Sent = {} /\ Sent' = {} /\ Long = {} /\ Heads' = Heads
    /\ text' = [text EXCEPT ![Heads[i]] = text[Heads[i]] \o text[m]]
    /\ Long' = IF Len(text'[Heads[i]]) >= MaxLen THEN {i} ELSE {}

(* Concat joins the line.                                                   *)
LEMMA ConcatJoins ==
    ASSUME OneConcator, OneInv, NEW w \in Worker, Concat(w)
    PROVE  RecordInv' /\ LocalsInv' /\ Joins(My.id, My.msg)
<1> DEFINE i == My.id
           m == My.msg
           p == My.pmsg
           h == pending[p].msg
<1>0. Inv /\ RecordInv /\ LocalsInv /\ SlotsOK /\ HeadInv
  BY InvParts DEF OneInv, DataInv
<1>1. w = Me /\ conc[w] = My
  BY OnlyMe DEF My
<1>2. /\ My.pc = "append"
      /\ UNCHANGED <<line, dropped, inChan, slot, pMsgPool, outChan, waitCommitChan,
                     emitted, committed>>
  BY <1>0, <1>1, ConcatDoes
<1>3. /\ i \in Identifier /\ m \in Seen /\ i = IdOf(m) /\ KindOf(m) = "tail"
      /\ p \in PMsg /\ slot[i] = p /\ p # NoPMsg
  BY <1>0, <1>2, MyTypes, ConcatorAssumption DEF LocalsInv, HasMsg, HasRec
<1>4. i \in Open /\ Heads[i] = h /\ h \in Seen /\ h \in Line
  BY <1>0, <1>3, HeadsTyped DEF HeadInv
<1>5. HasText(w, h)
  BY <1>0, <1>1, <1>4, MyText, SMTT(30)
<1>6. /\ UNCHANGED panicked
      /\ text' = [text EXCEPT ![h] = text[h] \o text[m]]
      /\ pending' = [pending EXCEPT ![p] = Fresh(h)]
      /\ \/ /\ Len(text'[h]) >= MaxLen
            /\ Becomes(w, "long", m, p, i, h, My.scan)
         \/ ~(Len(text'[h]) >= MaxLen) /\ Same(w, "discard")
  BY <1>0, <1>1, <1>5, ConcatDoes
<1>7. \/ /\ Len(text'[h]) >= MaxLen
         /\ My'.pc = "long" /\ My'.pmsg = p /\ My'.id = i /\ My'.out = h /\ My'.msg = m
      \/ ~(Len(text'[h]) >= MaxLen) /\ My'.pc = "discard"
  <2>1. CASE Becomes(w, "long", m, p, i, h, My.scan) /\ Len(text'[h]) >= MaxLen
    BY <2>1, MyNext
  <2>2. CASE ~(Len(text'[h]) >= MaxLen) /\ Same(w, "discard")
    BY <2>2, MySame, SMTT(30)
  <2>3. QED
    BY <1>6, <2>1, <2>2
<1>8. \A q \in PMsg : pending'[q].msg = pending[q].msg
  BY <1>0, <1>4, <1>6, RecordOK
<1>9. Heads' = Heads
  BY <1>0, <1>2, <1>8, HeadsSame
<1>10. RecordInv'
  BY <1>0, <1>2, <1>6, RecordStays
<1>11. LocalsInv'
  <2>1. CASE My'.pc = "discard"
    BY <2>1, IdleLocalsNext
  <2>2. CASE My'.pc = "long" /\ My'.pmsg = p /\ My'.id = i /\ My'.out = h
    <3>1. slot'[My'.id] = My'.pmsg /\ My'.out = pending'[My'.pmsg].msg
      BY <1>2, <1>3, <1>8, <2>2
    <3>2. QED
      BY <2>2, <3>1 DEF LocalsInv
  <2>3. QED
    BY <1>7, <2>1, <2>2
<1>12. /\ Held = {m} /\ Held' = {} /\ Sent = {} /\ Sent' = {} /\ Long = {}
       /\ Long' = IF Len(text'[h]) >= MaxLen THEN {i} ELSE {}
  BY <1>2, <1>7, HeldIs, HeldNext
<1>13. Queue' = Queue
  BY <1>2 DEF Queue
<1>14. QED
  BY <1>2, <1>3, <1>4, <1>6, <1>9, <1>10, <1>11, <1>12, <1>13 DEF Joins

(* The next filter takes a message.                                         *)
Leaves ==
    /\ UNCHANGED <<line, dropped, Queue, text>>
    /\ Held' = Held /\ Heads' = Heads /\ Sent' = Sent /\ Long' = Long
    /\ outChan # <<>> /\ outChan' = Tail(outChan)
    /\ emitted' = Append(emitted, text[Head(outChan)])

(* A line comes, and waits unless it was thrown away.                       *)
Comes ==
    /\ UNCHANGED <<text, outChan, emitted>>
    /\ Held' = Held /\ Heads' = Heads /\ Sent' = Sent /\ Long' = Long
    /\ Len(line) + 1 \in Line
    /\ \E r \in [kind : Kind, src : Source] : line' = Append(line, r)
    /\ \/ Queue' = Append(Queue, Len(line) + 1) /\ UNCHANGED dropped
       \/ Queue' = Queue /\ dropped' = dropped \cup {Len(line) + 1}

(* Consume is the next filter.                                              *)
LEMMA ConsumeLeaves ==
    ASSUME OneConcator, OneInv, Consume
    PROVE  RecordInv' /\ LocalsInv' /\ Leaves
<1>0. Inv /\ RecordInv /\ LocalsInv
  BY DEF OneInv
<1>1. /\ outChan # <<>> /\ emitted' = Append(emitted, text[Head(outChan)])
      /\ outChan' = Tail(outChan)
      /\ UNCHANGED <<line, dropped, inChan, slot, pMsgPool, pending, conc, text,
                     waitCommitChan, panicked, committed>>
  BY DEF Consume, lineVars, slotVars
<1>2. My' = My /\ Queue' = Queue /\ Heads' = Heads
  BY <1>0, <1>1, HeadsSame DEF My, Queue
<1>3. Held' = Held /\ Sent' = Sent /\ Long' = Long
  BY <1>2, HeldIs, HeldNext
<1>4. LocalsInv'
  BY <1>0, <1>1 DEF LocalsInv, My, KindOf, IdOf, SourceOf, Seen
<1>5. QED
  BY <1>0, <1>1, <1>2, <1>3, <1>4, RecordStays DEF Leaves

(* Arrive is the line that comes.                                           *)
LEMMA ArriveComes ==
    ASSUME OneConcator, OneInv, NEW k \in Kind, NEW src \in Source, Arrive(k, src)
    PROVE  RecordInv' /\ LocalsInv' /\ Comes
<1> DEFINE n == Len(line) + 1
           r == [kind |-> k, src |-> src]
<1>0. Inv /\ RecordInv /\ LocalsInv
  BY DEF OneInv
<1>1. /\ n <= MaxLine /\ line' = Append(line, r) /\ r \in [kind : Kind, src : Source]
      /\ UNCHANGED <<slot, pMsgPool, pending, conc, text, outChan, waitCommitChan,
                     panicked, emitted, committed>>
  BY DEF Arrive, slotVars
<1>2. Route[src] = Me
  BY ConcatorAssumption, OnlyMe DEF Source
<1>3. \/ inChan' = [inChan EXCEPT ![Me] = Append(@, n)] /\ UNCHANGED dropped
      \/ UNCHANGED inChan /\ dropped' = dropped \cup {n}
  BY <1>2 DEF Arrive
<1>4. inChan \in [Worker -> Seq(Line)] /\ Me \in Worker
  BY <1>0, OnlyMe, InvParts DEF LinesOK
<1>5. \/ Queue' = Append(Queue, n) /\ UNCHANGED dropped
      \/ Queue' = Queue /\ dropped' = dropped \cup {n}
  <2>1. CASE inChan' = [inChan EXCEPT ![Me] = Append(@, n)] /\ UNCHANGED dropped
    BY <1>4, <2>1 DEF Queue
  <2>2. CASE UNCHANGED inChan /\ dropped' = dropped \cup {n}
    BY <2>2 DEF Queue
  <2>3. QED
    BY <1>3, <2>1, <2>2
<1> HIDE DEF r
<1>6. /\ Len(line) \in Nat /\ Seen \subseteq Seen'
      /\ \A m \in Seen : KindOf(m)' = KindOf(m) /\ IdOf(m)' = IdOf(m)
  BY <1>0, <1>1, KindGrows
<1>7. n \in Line
  BY <1>1, <1>6, ConcatorAssumption DEF Line
<1>8. My' = My /\ Heads' = Heads
  BY <1>0, <1>1, HeadsSame DEF My
<1>9. Held' = Held /\ Sent' = Sent /\ Long' = Long
  BY <1>8, HeldIs, HeldNext
<1>10. LocalsInv'
  <2>1. My.pc \in {"insert", "known", "append", "replace", "swap", "pass"} =>
          /\ KindOf(My.msg)' = KindOf(My.msg) /\ IdOf(My.msg)' = IdOf(My.msg)
          /\ My.msg \in Seen'
    <3>1. My.pc \in {"insert", "known", "append", "replace", "swap", "pass"} => My.msg \in Seen
      BY <1>0, MyTypes DEF LocalsInv, HasMsg
    <3>2. My.msg \in Seen => KindOf(My.msg)' = KindOf(My.msg) /\ IdOf(My.msg)' = IdOf(My.msg)
      BY <1>6, <1>8 DEF KindOf, IdOf, SourceOf
    <3>3. QED
      BY <1>6, <3>1, <3>2
  <2>2. slot' = slot /\ pending' = pending
    BY <1>1
  <2>3. QED
    BY <1>0, <1>8, <2>1, <2>2 DEF LocalsInv, HasRec
<1>11. RecordInv'
  BY <1>0, <1>1, RecordStays
<1>12. QED
  BY <1>1, <1>5, <1>7, <1>8, <1>9, <1>10, <1>11 DEF Comes

-----------------------------------------------------------------------------
(* Where the lines are.                                                     *)
LEMMA DataTypes ==
    ASSUME Inv, OneConcator
    PROVE  /\ Line \subseteq Nat \ {0} /\ Seen \subseteq Line /\ Len(line) \in Nat
           /\ Queue \in Seq(Line) /\ outChan \in Seq(Line)
           /\ text \in [Line -> Seq(Line)] /\ emitted \in Seq(Seq(Line))
           /\ LinesOut \in Seq(Line) /\ Gone \subseteq Line
           /\ Heads \in [Identifier -> Line \cup {NoMsg}] /\ Open \subseteq Identifier
           /\ \A i \in Open : Heads[i] \in Line
           /\ MaxLen \in Nat \ {0}
<1>1. LinesOK /\ SentOK
  BY InvParts
<1>2. Line \subseteq Nat \ {0} /\ Len(line) \in Nat /\ MaxLen \in Nat \ {0}
  BY <1>1, LenProperties, ConcatorAssumption DEF LinesOK, Line
<1>3. Seen \subseteq Line
  BY <1>1, SeenIs
<1>4. LinesOut \in Seq(Line)
  BY <1>1, FlattenType DEF SentOK, LinesOut
<1>5. Gone \subseteq Line
  <2>1. ASSUME NEW x \in Gone PROVE x \in Line
    <3>1. PICK a \in DOMAIN LinesOut : x = LinesOut[a]
      BY <2>1 DEF Gone, ToSet
    <3>2. QED
      BY <1>4, <3>1, LenProperties, ElementOfSeq
  <2>2. QED
    BY <2>1
<1>6. QED
  BY <1>1, <1>2, <1>3, <1>4, <1>5, MyTypes, HeadsTyped DEF SentOK

(* The lines of a text.                                                     *)
LEMMA LinesOfIs ==
    ASSUME Inv, OneConcator, NEW m \in Line
    PROVE  /\ text[m] \in Seq(Line) /\ Len(text[m]) \in Nat /\ LinesOf(m) \subseteq Line
           /\ \A x : x \in LinesOf(m) <=> \E a \in 1 .. Len(text[m]) : x = text[m][a]
<1>1. text[m] \in Seq(Line)
  BY DataTypes
<1>2. QED
  BY <1>1, InSeq DEF LinesOf

(* A line alone.                                                            *)
LEMMA AloneIs ==
    ASSUME NEW m, text[m] = <<m>>
    PROVE  LinesOf(m) = {m} /\ Len(text[m]) = 1
<1>1. ToSet(<<m>>) = {m}
  BY DEF ToSet
<1>2. QED
  BY <1>1 DEF LinesOf

(* The first line of an entry is in it.                                     *)
LEMMA FirstIn ==
    ASSUME Inv, OneConcator, EntryInv, NEW m \in Line
    PROVE  m \in LinesOf(m)
<1>1. Len(text[m]) \in Nat \ {0} /\ text[m][1] = m
  BY DEF EntryInv, IsEntry
<1>2. QED
  BY <1>1, LinesOfIs

(* All messages of the one concator are of its tag.                         *)
LEMMA OneTag ==
    ASSUME Inv, OneConcator, NEW m \in Seen, NEW n \in Seen, IdOf(m) = IdOf(n)
    PROVE  SourceOf(m) = SourceOf(n)
<1>1. /\ SourceOf(m) = <<TagOfMsg(m), IdOf(m)>> /\ SourceOf(n) = <<TagOfMsg(n), IdOf(n)>>
      /\ Route[SourceOf(m)] \in Worker /\ TagOf[Route[SourceOf(m)]] = TagOfMsg(m)
      /\ Route[SourceOf(n)] \in Worker /\ TagOf[Route[SourceOf(n)]] = TagOfMsg(n)
  BY InvParts, SeenIs
<1>2. TagOfMsg(m) = TagOfMsg(n)
  BY <1>1, OnlyMe
<1>3. QED
  BY <1>1, <1>2

(* The lines in a slot are a head and tails of its container.               *)
LEMMA HeadLines ==
    ASSUME Inv, OneConcator, EntryInv, HeadInv, NEW i \in Open, NEW x \in LinesOf(Heads[i])
    PROVE  x \in Seen /\ KindOf(x) # "odd" /\ IdOf(x) = i
<1> DEFINE h == Heads[i]
<1>1. h \in Seen /\ KindOf(h) = "head" /\ IdOf(h) = i /\ h \in Line
  BY DataTypes DEF HeadInv
<1> HIDE DEF h
<1>2. PICK a \in 1 .. Len(text[h]) : x = text[h][a]
  BY <1>1, LinesOfIs DEF h
<1>3. IsEntry(h) /\ Len(text[h]) \in Nat
  BY <1>1, LinesOfIs DEF EntryInv
<1>4. CASE a = 1
  BY <1>1, <1>2, <1>3, <1>4 DEF IsEntry
<1>5. CASE a # 1
  <2>1. a \in 2 .. Len(text[h]) /\ Len(text[h]) > 1
    BY <1>2, <1>3, <1>5
  <2>2. x \in Seen /\ KindOf(x) = "tail" /\ SourceOf(x) = SourceOf(h)
    BY <1>2, <1>3, <2>1 DEF IsEntry
  <2>3. QED
    BY <1>1, <2>2 DEF IdOf
<1>6. QED
  BY <1>4, <1>5

(* Lines of different slots follow each other.                              *)
LEMMA SlotsApart ==
    ASSUME Inv, OneConcator, EntryInv, HeadInv, NEW i \in Open, NEW j \in Open, i # j
    PROVE  AllFollow(LinesOf(Heads[i]), LinesOf(Heads[j])) /\ Heads[i] # Heads[j]
<1>1. ASSUME NEW x \in LinesOf(Heads[i]), NEW y \in LinesOf(Heads[j]) PROVE Follows(x, y)
  <2>1. IdOf(x) = i /\ IdOf(y) = j
    BY <1>1, HeadLines
  <2>2. QED
    BY <2>1 DEF Follows, IdOf
<1>2. Heads[i] # Heads[j]
  BY DEF HeadInv
<1>3. QED
  BY <1>1, <1>2 DEF AllFollow

(* A line in its hands is after everything that was dealt with.             *)
LEMMA HeldFollows ==
    ASSUME Inv, OneConcator, QueueInv, DoneInv, NEW m \in Held
    PROVE  /\ m \in Seen /\ m \in Line /\ text[m] = <<m>> /\ LinesOf(m) = {m}
           /\ \A x \in ToSet(Queue) : m < x
           /\ m \notin Done /\ \A x \in Done : x < m /\ Follows(m, x)
<1>1. /\ m \in Seen /\ m \in Line /\ text[m] = <<m>> /\ \A x \in ToSet(Queue) : m < x
      /\ m \in Nat
  BY DataTypes DEF QueueInv
<1>2. \A x \in Done : x < m /\ x \in Nat
  BY DataTypes DEF DoneInv, Waiting
<1>3. \A x \in Done : x # m
  BY <1>1, <1>2
<1>4. QED
  BY <1>1, <1>2, <1>3, AloneIs DEF Follows

(* What was dealt with.                                                     *)
LEMMA DoneHas ==
    ASSUME Inv, OneConcator
    PROVE  /\ Gone \subseteq Done
           /\ \A q \in ToSet(outChan) : q \in Line /\ LinesOf(q) \subseteq Done
           /\ \A i \in Open : LinesOf(Heads[i]) \subseteq Done
<1>1. Gone \subseteq Line /\ outChan \in Seq(Line) /\ \A i \in Open : Heads[i] \in Line
  BY DataTypes
<1>2. ToSet(outChan) \subseteq Line
  BY <1>1, InSeq
<1>3. QED
  BY <1>1, <1>2, LinesOfIs DEF Done

(* The texts stay.                                                          *)
LEMMA SameLine ==
    ASSUME UNCHANGED line
    PROVE  /\ Seen' = Seen
           /\ \A m : KindOf(m)' = KindOf(m) /\ SourceOf(m)' = SourceOf(m) /\ IdOf(m)' = IdOf(m)
           /\ \A m, n : Follows(n, m)' <=> Follows(n, m)
           /\ \A N, M : AllFollow(N, M)' <=> AllFollow(N, M)
BY DEF Seen, KindOf, SourceOf, IdOf, Follows, AllFollow

LEMMA SameText ==
    ASSUME UNCHANGED line, UNCHANGED text
    PROVE  /\ EntryInv => EntryInv'
           /\ \A m : LinesOf(m)' = LinesOf(m)
BY DEF EntryInv, IsEntry, Seen, KindOf, SourceOf, LinesOf

LEMMA SameEmitted ==
    ASSUME UNCHANGED line, UNCHANGED emitted
    PROVE  /\ EmittedInv => EmittedInv'
           /\ LinesOut' = LinesOut /\ Gone' = Gone
BY DEF EmittedInv, EmittedIsOneEntry, Seen, KindOf, SourceOf, LinesOut, Gone

(* What was dealt with, and what waits, after a step that keeps the lines.  *)
LEMMA DoneKept ==
    ASSUME Inv, OneConcator, QueueInv, DoneInv, KeptInv, UNCHANGED <<line, dropped>>,
           \/ Done' = Done /\ Waiting' = Waiting
           \/ \E m \in Held : /\ Held = {m} /\ Held' = {} /\ Queue' = Queue
                              /\ Done' = Done \cup {m}
    PROVE  DoneInv' /\ KeptInv'
<1>1. Seen' = Seen /\ Arrived' = Arrived
  BY DEF Seen, Arrived
<1>2. CASE Done' = Done /\ Waiting' = Waiting
  BY <1>1, <1>2 DEF DoneInv, KeptInv
<1>3. ASSUME NEW m \in Held, Held = {m}, Held' = {}, Queue' = Queue, Done' = Done \cup {m}
      PROVE  DoneInv' /\ KeptInv'
  <2>1. m \in Seen /\ \A x \in ToSet(Queue) : m < x
    BY <1>3, HeldFollows
  <2>2. Waiting' = ToSet(Queue) /\ Waiting = {m} \cup ToSet(Queue)
    BY <1>3 DEF Waiting
  <2>3. DoneInv'
    BY <1>1, <1>3, <2>1, <2>2 DEF DoneInv
  <2>4. KeptInv'
    BY <1>1, <1>3, <2>2 DEF KeptInv
  <2>5. QED
    BY <2>3, <2>4
<1>4. QED
  BY <1>2, <1>3

(* The lines stay where they are.                                           *)
LEMMA StillData ==
    ASSUME Inv, OneConcator, DataInv, Still
    PROVE  DataInv'
<1>0. /\ UNCHANGED <<line, dropped, Queue, text, outChan, emitted>>
      /\ Held' = Held /\ Heads' = Heads /\ Sent' = Sent /\ Long' = Long
  BY DEF Still
<1>1. /\ EntryInv /\ QueueInv /\ DoneInv /\ HeadInv /\ SentInv /\ OrderInv /\ KeptInv
      /\ EmittedInv
  BY DEF DataInv
<1>2. /\ Seen' = Seen /\ LinesOut' = LinesOut /\ Gone' = Gone /\ Open' = Open
      /\ \A m : LinesOf(m)' = LinesOf(m)
  BY <1>0, SameLine, SameText, SameEmitted DEF Open
<1>3. Done' = Done /\ Waiting' = Waiting
  BY <1>0, <1>2 DEF Done, Waiting, LinesOf
<1>4. EntryInv' /\ EmittedInv' /\ DoneInv' /\ KeptInv'
  BY <1>0, <1>1, <1>3, SameText, SameEmitted, DoneKept
<1>5. QueueInv'
  BY <1>0, <1>1, <1>2 DEF QueueInv
<1>6. HeadInv'
  BY <1>0, <1>1, <1>2 DEF HeadInv, KindOf, IdOf, SourceOf
<1>7. SentInv'
  BY <1>0, <1>1, <1>2 DEF SentInv, LinesOf
<1>8. OrderInv'
  BY <1>0, <1>1, <1>2 DEF OrderInv, AllFollow, Follows, LinesOf, KindOf, SourceOf
<1>9. QED
  BY <1>4, <1>5, <1>6, <1>7, <1>8 DEF DataInv

(* It takes the next line.                                                  *)
LEMMA TakesData ==
    ASSUME Inv, OneConcator, DataInv, Takes
    PROVE  DataInv'
<1> DEFINE h == Head(Queue)
<1>0. /\ UNCHANGED <<line, dropped, text, outChan, emitted>>
      /\ Heads' = Heads /\ Sent' = Sent /\ Long' = Long
      /\ Queue # <<>> /\ Queue' = Tail(Queue) /\ Held = {} /\ Held' = {h}
  BY DEF Takes
<1>1. /\ EntryInv /\ QueueInv /\ DoneInv /\ HeadInv /\ SentInv /\ OrderInv /\ KeptInv
      /\ EmittedInv
  BY DEF DataInv
<1>2. /\ Seen' = Seen /\ LinesOut' = LinesOut /\ Gone' = Gone /\ Open' = Open
      /\ \A m : LinesOf(m)' = LinesOf(m)
  BY <1>0, SameLine, SameText, SameEmitted DEF Open
<1>3. /\ Queue \in Seq(Line) /\ h = Queue[1] /\ Len(Queue) \in Nat \ {0}
      /\ Queue' \in Seq(Line) /\ Len(Queue') = Len(Queue) - 1
      /\ \A a \in 1 .. Len(Queue') : Queue'[a] = Queue[a + 1]
      /\ ToSet(Queue) = {h} \cup ToSet(Queue')
  <2>1. Queue \in Seq(Line)
    BY DataTypes
  <2>2. QED
    BY <1>0, <2>1, ReceiveFrom, HeadTailProperties
<1>4. Done' = Done /\ Waiting' = Waiting
  BY <1>0, <1>2, <1>3 DEF Done, Waiting, LinesOf
<1>5. EntryInv' /\ EmittedInv' /\ DoneInv' /\ KeptInv'
  BY <1>0, <1>1, <1>4, SameText, SameEmitted, DoneKept
<1>6. QueueInv'
  <2> HIDE DEF h
  <2>1. 1 \in 1 .. Len(Queue) /\ \A a \in 1 .. Len(Queue') :
           /\ a + 1 \in 1 .. Len(Queue) /\ 1 < a + 1 /\ a \in Nat
    BY <1>3
  <2>2. ASSUME NEW a \in 1 .. Len(Queue')
        PROVE  Queue'[a] \in Seen /\ text[Queue'[a]] = <<Queue'[a]>>
    <3>1. a + 1 \in 1 .. Len(Queue) /\ Queue'[a] = Queue[a + 1]
      BY <1>3, <2>1
    <3>2. Queue[a + 1] \in Seen /\ text[Queue[a + 1]] = <<Queue[a + 1]>>
      BY <1>1, <3>1 DEF QueueInv
    <3>3. QED
      BY <3>1, <3>2
  <2>3. \A a, b \in 1 .. Len(Queue') : a < b => Queue'[a] < Queue'[b]
    <3>1. ASSUME NEW a \in 1 .. Len(Queue'), NEW b \in 1 .. Len(Queue'), a < b
          PROVE  Queue'[a] < Queue'[b]
      <4>1. a + 1 < b + 1
        BY <2>1, <3>1
      <4>2. Queue[a + 1] < Queue[b + 1]
        BY <1>1, <2>1, <4>1 DEF QueueInv
      <4>3. QED
        BY <1>3, <4>2
    <3>2. QED
      BY <3>1
  <2>4. h \in Seen /\ text[h] = <<h>>
    BY <1>1, <1>3, <2>1 DEF QueueInv
  <2>5. \A x \in ToSet(Queue') : h < x
    <3>1. ASSUME NEW x \in ToSet(Queue') PROVE h < x
      <4>1. PICK a \in 1 .. Len(Queue') : x = Queue'[a]
        BY <1>3, InSeq
      <4>2. Queue[1] < Queue[a + 1]
        BY <1>1, <2>1 DEF QueueInv
      <4>3. QED
        BY <1>3, <4>1, <4>2
    <3>2. QED
      BY <3>1
  <2>6. \A m \in Line \ Seen : text[m] = <<m>>
    BY <1>1 DEF QueueInv
  <2>7. QED
    BY <1>0, <1>2, <2>2, <2>3, <2>4, <2>5, <2>6 DEF QueueInv
<1>7. HeadInv'
  BY <1>0, <1>1, <1>2 DEF HeadInv, KindOf, IdOf, SourceOf
<1>8. SentInv'
  BY <1>0, <1>1, <1>2 DEF SentInv, LinesOf
<1>9. OrderInv'
  BY <1>0, <1>1, <1>2 DEF OrderInv, AllFollow, Follows, LinesOf, KindOf, SourceOf
<1>10. QED
  BY <1>5, <1>6, <1>7, <1>8, <1>9 DEF DataInv

(* A line comes.                                                            *)
LEMMA ComesData ==
    ASSUME Inv, OneConcator, DataInv, Comes
    PROVE  DataInv'
<1> DEFINE n == Len(line) + 1
<1>0. /\ UNCHANGED <<text, outChan, emitted>>
      /\ Held' = Held /\ Heads' = Heads /\ Sent' = Sent /\ Long' = Long
      /\ n \in Line
      /\ \/ Queue' = Append(Queue, n) /\ UNCHANGED dropped
         \/ Queue' = Queue /\ dropped' = dropped \cup {n}
  BY DEF Comes
<1>1. /\ EntryInv /\ QueueInv /\ DoneInv /\ HeadInv /\ SentInv /\ OrderInv /\ KeptInv
      /\ EmittedInv
  BY DEF DataInv
<1>2. /\ Seen' = Seen \cup {n} /\ n \notin Seen /\ Len(line') = n /\ Len(line) \in Nat
      /\ \A m \in Seen : /\ KindOf(m)' = KindOf(m) /\ SourceOf(m)' = SourceOf(m)
                         /\ IdOf(m)' = IdOf(m)
  <2>1. PICK r \in [kind : Kind, src : Source] : line' = Append(line, r)
    BY DEF Comes
  <2>2. QED
    BY <2>1, KindGrows
<1>3. /\ LinesOut' = LinesOut /\ Gone' = Gone /\ Open' = Open
      /\ \A m : LinesOf(m)' = LinesOf(m)
  BY <1>0 DEF Open, LinesOut, Gone, LinesOf
<1>4. \A x \in Seen : x < n /\ x \in Nat
  BY <1>2 DEF Seen
<1>5. Done' = Done
  BY <1>0, <1>3 DEF Done, LinesOf
<1>6. Done \subseteq Seen
  BY <1>1 DEF DoneInv
<1>7. Queue \in Seq(Line) /\ ToSet(Queue) \subseteq Seen
  BY DataTypes, MyTypes
<1>8. ToSet(Queue') = ToSet(Queue) \/ ToSet(Queue') = ToSet(Queue) \cup {n}
  <2>1. ToSet(Append(Queue, n)) = ToSet(Queue) \cup {n}
    BY <1>0, <1>7, SendTo
  <2>2. QED
    BY <1>0, <2>1
<1>9. DoneInv'
  BY <1>0, <1>1, <1>2, <1>4, <1>5, <1>6, <1>8 DEF DoneInv, Waiting
<1>10. KeptInv'
  <2>1. CASE Queue' = Append(Queue, n) /\ UNCHANGED dropped
    <3>1. ToSet(Queue') = ToSet(Queue) \cup {n}
      BY <1>0, <1>7, <2>1, SendTo
    <3>2. Arrived' \subseteq Arrived \cup {n}
      BY <1>2, <2>1 DEF Arrived
    <3>3. QED
      BY <1>0, <1>1, <1>5, <3>1, <3>2 DEF KeptInv, Waiting
  <2>2. CASE Queue' = Queue /\ dropped' = dropped \cup {n}
    <3>1. Arrived' \subseteq Arrived
      BY <1>2, <2>2 DEF Arrived
    <3>2. QED
      BY <1>0, <1>1, <1>5, <2>2, <3>1 DEF KeptInv, Waiting
  <2>3. QED
    BY <1>0, <2>1, <2>2
<1>11. QueueInv'
  <2>0. text[n] = <<n>> /\ \A m \in Line \ Seen' : text[m] = <<m>>
    BY <1>0, <1>1, <1>2 DEF QueueInv
  <2>1. CASE Queue' = Append(Queue, n)
    <3>1. /\ Len(Queue') = Len(Queue) + 1 /\ Len(Queue) \in Nat
          /\ \A a \in 1 .. Len(Queue) : Queue'[a] = Queue[a]
          /\ Queue'[Len(Queue) + 1] = n
          /\ \A a \in 1 .. Len(Queue) : Queue[a] \in Seen
          /\ \A a \in 1 .. Len(Queue') : a \in 1 .. Len(Queue) \/ a = Len(Queue) + 1
      BY <1>0, <1>1, <1>7, <2>1, AppendProperties, LenProperties DEF QueueInv
    <3>2. \A a \in 1 .. Len(Queue') : Queue'[a] \in Seen' /\ text[Queue'[a]] = <<Queue'[a]>>
      BY <1>1, <1>2, <2>0, <3>1 DEF QueueInv
    <3>3. ASSUME NEW a \in 1 .. Len(Queue'), NEW b \in 1 .. Len(Queue'), a < b
          PROVE  Queue'[a] < Queue'[b]
      <4>1. a \in 1 .. Len(Queue)
        BY <3>1, <3>3
      <4>2. CASE b \in 1 .. Len(Queue)
        BY <1>1, <3>1, <3>3, <4>1, <4>2 DEF QueueInv
      <4>3. CASE b = Len(Queue) + 1
        BY <1>4, <3>1, <4>1, <4>3
      <4>4. QED
        BY <3>1, <4>2, <4>3
    <3>4. \A m \in Held : m \in Seen' /\ text[m] = <<m>> /\ \A x \in ToSet(Queue') : m < x
      BY <1>1, <1>2, <1>4, <1>8 DEF QueueInv
    <3>5. QED
      BY <1>0, <2>0, <3>2, <3>3, <3>4 DEF QueueInv
  <2>2. CASE Queue' = Queue
    BY <1>0, <1>1, <1>2, <2>0, <2>2 DEF QueueInv
  <2>3. QED
    BY <1>0, <2>1, <2>2
<1>12. EntryInv'
  <2>1. ASSUME NEW m \in Line PROVE IsEntry(m)'
    <3>1. IsEntry(m)
      BY <1>1 DEF EntryInv
    <3>2. QED
      BY <1>0, <1>2, <3>1 DEF IsEntry
  <2>2. QED
    BY <2>1 DEF EntryInv
<1>13. HeadInv'
  BY <1>0, <1>1, <1>2, <1>3 DEF HeadInv
<1>14. SentInv'
  BY <1>0, <1>1, <1>3 DEF SentInv, LinesOf
<1>15. /\ \A x, y \in Done : Follows(x, y)' <=> Follows(x, y)
       /\ Gone \subseteq Done
       /\ \A q \in ToSet(outChan) : LinesOf(q) \subseteq Done
       /\ \A i \in Open : LinesOf(Heads[i]) \subseteq Done
  <2>1. \A x, y \in Seen : Follows(x, y)' <=> Follows(x, y)
    BY <1>2 DEF Follows
  <2>2. QED
    BY <1>6, <2>1, DoneHas
<1>16. OrderInv'
  <2>1. \A a \in 1 .. Len(LinesOut) : LinesOut[a] \in Done
    <3>1. LinesOut \in Seq(Line)
      BY DataTypes
    <3>2. QED
      BY <1>15, <3>1, InSeq DEF Gone
  <2>2. \A a, b \in 1 .. Len(LinesOut) : a < b => Follows(LinesOut[b], LinesOut[a])'
    BY <1>1, <1>3, <1>15, <2>1 DEF OrderInv
  <2>3. \A N, M \in SUBSET Done : AllFollow(N, M) => AllFollow(N, M)'
    BY <1>15 DEF AllFollow
  <2>4. \A a \in 1 .. Len(outChan) : outChan[a] \in ToSet(outChan)
    <3>1. outChan \in Seq(Line)
      BY DataTypes
    <3>2. QED
      BY <3>1, InSeq
  <2>5. QED
    BY <1>0, <1>1, <1>3, <1>15, <2>2, <2>3, <2>4 DEF OrderInv
<1>17. EmittedInv'
  <2>1. emitted \in Seq(Seq(Line))
    BY DataTypes
  <2>2. ASSUME NEW e \in ToSet(emitted)
        PROVE  /\ ToSet(e) \subseteq Seen'
               /\ Len(e) > 1 =>
                     /\ KindOf(e[1])' = "head"
                     /\ \A a \in 2 .. Len(e) : KindOf(e[a])' = "tail"
                     /\ \A a \in 1 .. Len(e) : SourceOf(e[a])' = SourceOf(e[1])'
                     /\ Len(e) <= MaxLen \/ Len(e) = 2
    <3>1. e \in Seq(Line)
      BY <2>1, InSeq
    <3>2. Len(e) \in Nat /\ \A a \in 1 .. Len(e) : e[a] \in Seen
      BY <1>1, <3>1, InSeq DEF EmittedInv
    <3>3. ToSet(e) \subseteq Seen'
      BY <1>1, <1>2 DEF EmittedInv
    <3>4. ASSUME Len(e) > 1
          PROVE  /\ KindOf(e[1])' = "head"
                 /\ \A a \in 2 .. Len(e) : KindOf(e[a])' = "tail"
                 /\ \A a \in 1 .. Len(e) : SourceOf(e[a])' = SourceOf(e[1])'
                 /\ Len(e) <= MaxLen \/ Len(e) = 2
      <4>1. /\ KindOf(e[1]) = "head"
            /\ \A a \in 2 .. Len(e) : KindOf(e[a]) = "tail"
            /\ \A a \in 1 .. Len(e) : SourceOf(e[a]) = SourceOf(e[1])
            /\ Len(e) <= MaxLen \/ Len(e) = 2
        BY <1>1, <3>4 DEF EmittedInv, EmittedIsOneEntry
      <4>2. \A a \in 1 .. Len(e) : KindOf(e[a])' = KindOf(e[a]) /\ SourceOf(e[a])' = SourceOf(e[a])
        BY <1>2, <3>2
      <4>3. 1 \in 1 .. Len(e) /\ \A a \in 2 .. Len(e) : a \in 1 .. Len(e)
        BY <3>2, <3>4
      <4>4. QED
        BY <4>1, <4>2, <4>3
    <3>5. QED
      BY <3>3, <3>4
  <2>3. QED
    BY <1>0, <2>2 DEF EmittedInv, EmittedIsOneEntry
<1>18. QED
  BY <1>9, <1>10, <1>11, <1>12, <1>13, <1>14, <1>16, <1>17 DEF DataInv

(* What is sent, one more.                                                  *)
LEMMA SendsOut ==
    ASSUME Inv, OneConcator, NEW m \in Line, outChan' = Append(outChan, m)
    PROVE  /\ Len(outChan) \in Nat /\ Len(outChan') = Len(outChan) + 1
           /\ \A a \in 1 .. Len(outChan) : outChan'[a] = outChan[a]
           /\ outChan'[Len(outChan) + 1] = m
           /\ ToSet(outChan') = ToSet(outChan) \cup {m}
           /\ \A a \in 1 .. Len(outChan) : outChan[a] \in ToSet(outChan)
<1>1. outChan \in Seq(Line)
  BY DataTypes
<1>2. QED
  BY <1>1, AppendProperties, LenProperties, SendTo, InSeq

(* The order of what is sent, with one more that follows the rest.          *)
LEMMA SendsOrder ==
    ASSUME Inv, OneConcator, OrderInv, NEW m \in Line, outChan' = Append(outChan, m),
           UNCHANGED <<line, text, emitted>>,
           AllFollow(LinesOf(m), Gone),
           \A q \in ToSet(outChan) : AllFollow(LinesOf(m), LinesOf(q)),
           Heads' = Heads,
           \A i \in Open \ Sent' : i \notin Sent /\ AllFollow(LinesOf(Heads[i]), LinesOf(m))
    PROVE  OrderInv'
<1>1. /\ LinesOut' = LinesOut /\ Gone' = Gone /\ Open' = Open
      /\ \A q : LinesOf(q)' = LinesOf(q)
  BY SameText, SameEmitted DEF Open
<1>2. \A N, M : AllFollow(N, M)' <=> AllFollow(N, M)
  BY SameLine
<1>3. \A a, b \in 1 .. Len(LinesOut) : a < b => Follows(LinesOut[b], LinesOut[a])
  BY DEF OrderInv
<1>4. ToSet(outChan') = ToSet(outChan) \cup {m}
  BY SendsOut
<1>5. \A q \in ToSet(outChan') : AllFollow(LinesOf(q), Gone)
  BY <1>4 DEF OrderInv
<1>6. ASSUME NEW a \in 1 .. Len(outChan'), NEW b \in 1 .. Len(outChan'), a < b
      PROVE  AllFollow(LinesOf(outChan'[b]), LinesOf(outChan'[a]))
  <2>1. a \in 1 .. Len(outChan) /\ outChan'[a] = outChan[a] /\ outChan[a] \in ToSet(outChan)
    BY <1>6, SendsOut
  <2>2. CASE b \in 1 .. Len(outChan)
    <3>1. outChan'[b] = outChan[b]
      BY <2>2, SendsOut
    <3>2. AllFollow(LinesOf(outChan[b]), LinesOf(outChan[a]))
      BY <1>6, <2>1, <2>2 DEF OrderInv
    <3>3. QED
      BY <2>1, <3>1, <3>2
  <2>3. CASE b = Len(outChan) + 1
    BY <2>1, <2>3, SendsOut
  <2>4. b \in 1 .. Len(outChan) \/ b = Len(outChan) + 1
    BY <1>6, SendsOut
  <2>5. QED
    BY <2>2, <2>3, <2>4
<1>7. \A i \in Open \ Sent' :
         /\ AllFollow(LinesOf(Heads[i]), Gone)
         /\ \A q \in ToSet(outChan') : AllFollow(LinesOf(Heads[i]), LinesOf(q))
  BY <1>4 DEF OrderInv
<1>8. (\A a, b \in 1 .. Len(LinesOut) : a < b => Follows(LinesOut[b], LinesOut[a]))'
  BY <1>1, <1>3 DEF Follows, KindOf, SourceOf
<1>9. (\A q \in ToSet(outChan) : AllFollow(LinesOf(q), Gone))'
  BY <1>1, <1>5 DEF AllFollow, Follows, LinesOf, KindOf, SourceOf
<1>10. (\A a, b \in 1 .. Len(outChan) :
          a < b => AllFollow(LinesOf(outChan[b]), LinesOf(outChan[a])))'
  <2>1. ASSUME NEW a \in 1 .. Len(outChan'), NEW b \in 1 .. Len(outChan'), a < b
        PROVE  AllFollow(LinesOf(outChan[b]), LinesOf(outChan[a]))'
    <3>1. line' = line /\ text' = text
      OBVIOUS
    <3>2. PICK N, M : N = ToSet(text[outChan'[b]]) /\ M = ToSet(text[outChan'[a]])
      OBVIOUS
    <3>3. AllFollow(N, M)
      BY <1>6, <2>1, <3>2 DEF LinesOf
    <3>4. AllFollow(N, M)'
      BY <3>1, <3>3 DEF AllFollow, Follows, KindOf, SourceOf
    <3>5. LinesOf(outChan[b])' = N /\ LinesOf(outChan[a])' = M
      BY <3>1, <3>2 DEF LinesOf
    <3>6. QED
      BY <3>4, <3>5 DEF AllFollow, Follows, KindOf, SourceOf
  <2>2. QED
    BY <2>1
<1>11. (\A i \in Open \ Sent :
          /\ AllFollow(LinesOf(Heads[i]), Gone)
          /\ \A q \in ToSet(outChan) : AllFollow(LinesOf(Heads[i]), LinesOf(q)))'
  <2>1. ASSUME NEW i \in Open \ Sent', NEW q \in ToSet(outChan'),
               NEW x \in LinesOf(Heads[i]), NEW y \in LinesOf(q)
        PROVE  Follows(x, y)
    BY <1>7, <2>1 DEF AllFollow
  <2>2. (\A i \in Open \ Sent : AllFollow(LinesOf(Heads[i]), Gone))'
    BY <1>1, <1>7 DEF AllFollow, Follows, LinesOf, KindOf, SourceOf
  <2>3. (\A i \in Open \ Sent : \A q \in ToSet(outChan) :
            AllFollow(LinesOf(Heads[i]), LinesOf(q)))'
    BY <1>1, <2>1 DEF AllFollow, Follows, LinesOf, KindOf, SourceOf
  <2>4. QED
    BY <2>2, <2>3
<1>12. QED
  BY <1>8, <1>9, <1>10, <1>11 DEF OrderInv

(* It sends a line as it is.                                                *)
LEMMA PassesData ==
    ASSUME Inv, OneConcator, DataInv, NEW m, Passes(m)
    PROVE  DataInv'
<1>0. /\ UNCHANGED <<line, dropped, Queue, text, emitted>>
      /\ Heads' = Heads /\ Sent = {} /\ Sent' = {} /\ Long' = Long
      /\ Held = {m} /\ Held' = {} /\ outChan' = Append(outChan, m)
      /\ KindOf(m) = "odd" \/ (KindOf(m) = "tail" /\ IdOf(m) \notin Open)
  BY DEF Passes
<1>1. /\ EntryInv /\ QueueInv /\ DoneInv /\ HeadInv /\ SentInv /\ OrderInv /\ KeptInv
      /\ EmittedInv
  BY DEF DataInv
<1>2. /\ Seen' = Seen /\ LinesOut' = LinesOut /\ Gone' = Gone /\ Open' = Open
      /\ \A q : LinesOf(q)' = LinesOf(q)
  BY <1>0, SameLine, SameText, SameEmitted DEF Open
<1>3. /\ m \in Held /\ m \in Seen /\ m \in Line /\ LinesOf(m) = {m}
      /\ m \notin Done /\ \A x \in Done : x < m /\ Follows(m, x)
  BY <1>0, <1>1, HeldFollows
<1>4. ToSet(outChan') = ToSet(outChan) \cup {m}
  BY <1>0, <1>3, SendsOut
<1>5. Done' = Done \cup {m}
  BY <1>0, <1>2, <1>3, <1>4 DEF Done, LinesOf
<1>6. EntryInv' /\ EmittedInv' /\ DoneInv' /\ KeptInv'
  BY <1>0, <1>1, <1>3, <1>5, SameText, SameEmitted, DoneKept
<1>7. QueueInv'
  BY <1>0, <1>1, <1>2 DEF QueueInv
<1>8. HeadInv'
  BY <1>0, <1>1, <1>2 DEF HeadInv, KindOf, IdOf, SourceOf
<1>9. SentInv'
  BY <1>0 DEF SentInv
<1>10. OrderInv'
  <2>1. AllFollow(LinesOf(m), Gone)
    BY <1>3, DoneHas DEF AllFollow
  <2>2. \A q \in ToSet(outChan) : AllFollow(LinesOf(m), LinesOf(q))
    BY <1>3, DoneHas DEF AllFollow
  <2>3. ASSUME NEW i \in Open PROVE AllFollow(LinesOf(Heads[i]), LinesOf(m))
    <3>1. ASSUME NEW x \in LinesOf(Heads[i]) PROVE Follows(x, m)
      <4>1. x \in Done /\ x # m
        BY <1>3, <3>1, DoneHas
      <4>2. IdOf(x) = i
        BY <1>1, <3>1, HeadLines
      <4>3. KindOf(m) = "odd" \/ IdOf(x) # IdOf(m)
        BY <1>0, <4>2
      <4>4. QED
        BY <4>1, <4>3 DEF Follows, IdOf
    <3>2. QED
      BY <1>3, <3>1 DEF AllFollow
  <2>4. QED
    BY <1>0, <1>1, <1>3, <2>1, <2>2, <2>3, SendsOrder
<1>11. QED
  BY <1>6, <1>7, <1>8, <1>9, <1>10 DEF DataInv

(* It sends the entry in a slot.                                            *)
LEMMA SendsData ==
    ASSUME Inv, OneConcator, DataInv, NEW i, Sends(i)
    PROVE  DataInv'
<1> DEFINE h == Heads[i]
<1>0. /\ UNCHANGED <<line, dropped, Queue, text, emitted>>
      /\ Heads' = Heads /\ Held' = Held /\ Long' = Long
      /\ i \in Open /\ Sent = {} /\ Sent' = {i} /\ outChan' = Append(outChan, h)
  BY DEF Sends
<1>1. /\ EntryInv /\ QueueInv /\ DoneInv /\ HeadInv /\ SentInv /\ OrderInv /\ KeptInv
      /\ EmittedInv
  BY DEF DataInv
<1>2. /\ Seen' = Seen /\ LinesOut' = LinesOut /\ Gone' = Gone /\ Open' = Open
      /\ \A q : LinesOf(q)' = LinesOf(q)
  BY <1>0, SameLine, SameText, SameEmitted DEF Open
<1>3. h \in Line
  BY <1>0, DataTypes
<1>4. ToSet(outChan') = ToSet(outChan) \cup {h}
  BY <1>0, <1>3, SendsOut
<1>5. Done' = Done /\ Waiting' = Waiting
  BY <1>0, <1>2, <1>4 DEF Done, LinesOf, Waiting
<1>6. EntryInv' /\ EmittedInv' /\ DoneInv' /\ KeptInv'
  BY <1>0, <1>1, <1>5, SameText, SameEmitted, DoneKept
<1>7. QueueInv'
  BY <1>0, <1>1, <1>2 DEF QueueInv
<1>8. HeadInv'
  BY <1>0, <1>1, <1>2 DEF HeadInv, KindOf, IdOf, SourceOf
<1>9. SentInv'
  BY <1>0, <1>2, <1>4 DEF SentInv
<1>10. OrderInv'
  <2>1. /\ AllFollow(LinesOf(h), Gone)
        /\ \A q \in ToSet(outChan) : AllFollow(LinesOf(h), LinesOf(q))
    BY <1>0, <1>1 DEF OrderInv
  <2>2. ASSUME NEW j \in Open \ Sent'
        PROVE  j \notin Sent /\ AllFollow(LinesOf(Heads[j]), LinesOf(h))
    BY <1>0, <1>1, SlotsApart
  <2> HIDE DEF h
  <2>3. QED
    BY <1>0, <1>1, <1>3, <2>1, <2>2, SendsOrder
<1>11. QED
  BY <1>6, <1>7, <1>8, <1>9, <1>10 DEF DataInv

(* It frees a slot.                                                         *)
LEMMA FreesData ==
    ASSUME Inv, OneConcator, DataInv, NEW i, Frees(i)
    PROVE  DataInv'
<1>0. /\ UNCHANGED <<line, dropped, Queue, text, outChan, emitted>>
      /\ Held' = Held /\ Sent = {i} /\ Sent' = {} /\ Long \subseteq {i} /\ Long' = {}
      /\ Heads' = [Heads EXCEPT ![i] = NoMsg]
  BY DEF Frees
<1>1. /\ EntryInv /\ QueueInv /\ DoneInv /\ HeadInv /\ SentInv /\ OrderInv /\ KeptInv
      /\ EmittedInv
  BY DEF DataInv
<1>2. /\ Seen' = Seen /\ LinesOut' = LinesOut /\ Gone' = Gone
      /\ \A q : LinesOf(q)' = LinesOf(q)
  BY <1>0, SameLine, SameText, SameEmitted
<1>3. i \in Open /\ (Heads[i] \in ToSet(outChan) \/ LinesOf(Heads[i]) \subseteq Gone)
  BY <1>0, <1>1 DEF SentInv
<1>4. Heads \in [Identifier -> Line \cup {NoMsg}]
  BY DataTypes
<1>5. Open' = Open \ {i} /\ \A j \in Open' : Heads'[j] = Heads[j]
  BY <1>0, <1>4 DEF Open
<1>6. Done' = Done
  BY <1>0, <1>2, <1>3, <1>5 DEF Done, LinesOf
<1>7. Waiting' = Waiting
  BY <1>0 DEF Waiting
<1>8. EntryInv' /\ EmittedInv' /\ DoneInv' /\ KeptInv'
  BY <1>0, <1>1, <1>6, <1>7, SameText, SameEmitted, DoneKept
<1>9. QueueInv'
  BY <1>0, <1>1, <1>2 DEF QueueInv
<1>10. HeadInv'
  BY <1>0, <1>1, <1>2, <1>5 DEF HeadInv, KindOf, IdOf, SourceOf
<1>11. SentInv'
  BY <1>0 DEF SentInv
<1>12. OrderInv'
  BY <1>0, <1>1, <1>2, <1>5 DEF OrderInv, AllFollow, Follows, LinesOf, KindOf, SourceOf
<1>13. QED
  BY <1>8, <1>9, <1>10, <1>11, <1>12 DEF DataInv

(* A line in its hands becomes the first of an entry.                       *)
LEMMA OpensData ==
    ASSUME Inv, OneConcator, DataInv, NEW i, NEW m, Opens(i, m)
    PROVE  DataInv'
<1>0. /\ UNCHANGED <<line, dropped, Queue, text, outChan, emitted>>
      /\ Held = {m} /\ Held' = {} /\ KindOf(m) = "head" /\ IdOf(m) = i /\ i \in Identifier
      /\ Sent \subseteq {i} /\ (i \in Open => i \in Sent) /\ Sent' = {}
      /\ Long = {} /\ Long' = {}
      /\ Heads' = [Heads EXCEPT ![i] = m]
  BY DEF Opens
<1>1. /\ EntryInv /\ QueueInv /\ DoneInv /\ HeadInv /\ SentInv /\ OrderInv /\ KeptInv
      /\ EmittedInv
  BY DEF DataInv
<1>2. /\ Seen' = Seen /\ LinesOut' = LinesOut /\ Gone' = Gone
      /\ \A q : LinesOf(q)' = LinesOf(q)
  BY <1>0, SameLine, SameText, SameEmitted
<1>3. /\ m \in Held /\ m \in Seen /\ m \in Line /\ text[m] = <<m>> /\ LinesOf(m) = {m}
      /\ m \notin Done /\ \A x \in Done : x < m /\ Follows(m, x)
  BY <1>0, <1>1, HeldFollows
<1>4. Heads \in [Identifier -> Line \cup {NoMsg}] /\ m # NoMsg /\ Open \subseteq Identifier
  BY <1>3, DataTypes DEF NoMsg
<1>5. /\ Open' = Open \cup {i} /\ Heads'[i] = m
      /\ \A j \in Open' \ {i} : j \in Open /\ j \notin Sent /\ Heads'[j] = Heads[j]
  BY <1>0, <1>4 DEF Open
<1>6. i \in Open => (Heads[i] \in ToSet(outChan) \/ LinesOf(Heads[i]) \subseteq Gone)
  BY <1>0, <1>1 DEF SentInv
<1>7. Done' = Done \cup {m}
  <2>1. ASSUME NEW x \in Line
        PROVE  (\E j \in Open' : x \in LinesOf(Heads'[j]))
                 <=> (x = m \/ \E j \in Open \ {i} : x \in LinesOf(Heads[j]))
    BY <1>3, <1>5
  <2>2. \A x \in Line : x \in Done <=>
           \/ x \in Gone
           \/ \E q \in ToSet(outChan) : x \in LinesOf(q)
           \/ \E j \in Open \ {i} : x \in LinesOf(Heads[j])
    BY <1>6 DEF Done
  <2>3. \A x \in Line : x \in Done' <=>
           \/ x \in Gone
           \/ \E q \in ToSet(outChan) : x \in LinesOf(q)
           \/ \E j \in Open' : x \in LinesOf(Heads'[j])
    BY <1>0, <1>2 DEF Done, LinesOf
  <2>4. Done \subseteq Line /\ Done' \subseteq Line
    BY DEF Done
  <2>5. QED
    BY <1>3, <2>1, <2>2, <2>3, <2>4
<1>8. EntryInv' /\ EmittedInv' /\ DoneInv' /\ KeptInv'
  BY <1>0, <1>1, <1>3, <1>7, SameText, SameEmitted, DoneKept
<1>9. QueueInv'
  BY <1>0, <1>1, <1>2 DEF QueueInv
<1>10. HeadInv'
  <2>1. Len(text[m]) = 1
    BY <1>3, AloneIs
  <2>2. ASSUME NEW j \in Open'
        PROVE  /\ Heads'[j] \in Seen /\ KindOf(Heads'[j]) = "head" /\ IdOf(Heads'[j]) = j
               /\ Len(text[Heads'[j]]) < MaxLen \/ Len(text[Heads'[j]]) = 1
    <3>1. CASE j = i
      BY <1>0, <1>3, <1>5, <2>1, <3>1
    <3>2. CASE j # i
      BY <1>0, <1>1, <1>5, <2>2, <3>2 DEF HeadInv
    <3>3. QED
      BY <3>1, <3>2
  <2>3. QED
    BY <1>0, <1>2, <2>2 DEF HeadInv, KindOf, IdOf, SourceOf
<1>11. SentInv'
  BY <1>0 DEF SentInv
<1>12. OrderInv'
  <2>1. /\ AllFollow({m}, Gone)
        /\ \A q \in ToSet(outChan) : AllFollow({m}, LinesOf(q))
    BY <1>3, DoneHas DEF AllFollow
  <2>2. ASSUME NEW j \in Open'
        PROVE  /\ AllFollow(LinesOf(Heads'[j]), Gone)
               /\ \A q \in ToSet(outChan) : AllFollow(LinesOf(Heads'[j]), LinesOf(q))
    <3>1. CASE j = i
      BY <1>3, <1>5, <2>1, <3>1
    <3>2. CASE j # i
      BY <1>1, <1>5, <2>2, <3>2 DEF OrderInv
    <3>3. QED
      BY <3>1, <3>2
  <2>3. (\A j \in Open \ Sent :
            /\ AllFollow(LinesOf(Heads[j]), Gone)
            /\ \A q \in ToSet(outChan) : AllFollow(LinesOf(Heads[j]), LinesOf(q)))'
    BY <1>0, <1>2, <2>2 DEF AllFollow, Follows, LinesOf, KindOf, SourceOf
  <2>4. QED
    BY <1>0, <1>1, <1>2, <2>3 DEF OrderInv, AllFollow, Follows, LinesOf, KindOf, SourceOf
<1>13. QED
  BY <1>8, <1>9, <1>10, <1>11, <1>12 DEF DataInv

(* The text of an entry, with one more line.                                *)
LEMMA JoinsText ==
    ASSUME Inv, OneConcator, DataInv, NEW i, NEW m, Joins(i, m)
    PROVE  /\ Heads[i] \in Line /\ Heads[i] \in Seen /\ Heads[i] \in Done /\ m # Heads[i]
           /\ m \in Line /\ m \in Seen /\ Len(text[Heads[i]]) \in Nat \ {0}
           /\ Len(text'[Heads[i]]) = Len(text[Heads[i]]) + 1
           /\ \A a \in 1 .. Len(text[Heads[i]]) :
                 /\ text'[Heads[i]][a] = text[Heads[i]][a]
                 /\ text[Heads[i]][a] \in LinesOf(Heads[i])
           /\ text'[Heads[i]][Len(text[Heads[i]]) + 1] = m
           /\ LinesOf(Heads[i])' = LinesOf(Heads[i]) \cup {m}
           /\ \A q \in Line \ {Heads[i]} : text'[q] = text[q] /\ LinesOf(q)' = LinesOf(q)
<1> DEFINE h == Heads[i]
<1>0. /\ Held = {m} /\ i \in Open /\ Heads' = Heads
      /\ text' = [text EXCEPT ![h] = text[h] \o text[m]]
  BY DEF Joins
<1>1. EntryInv /\ QueueInv /\ DoneInv /\ HeadInv
  BY DEF DataInv
<1>2. m \in Line /\ m \in Seen /\ text[m] = <<m>> /\ m \notin Done
  BY <1>0, <1>1, HeldFollows
<1>3. h \in Line /\ h \in Seen /\ h \in Done
  BY <1>0, <1>1, DataTypes, FirstIn, DoneHas DEF HeadInv
<1>4. text \in [Line -> Seq(Line)] /\ Len(text[h]) \in Nat \ {0}
  BY <1>1, <1>3, DataTypes DEF EntryInv, IsEntry
<1>5. Heads'[i] = h
  BY <1>0
<1> HIDE DEF h
<1>6. text'[h] = text[h] \o <<m>> /\ \A q \in Line \ {h} : text'[q] = text[q]
  BY <1>0, <1>2, <1>3, <1>4
<1>7. text[h] \in Seq(Line) /\ <<m>> \in Seq(Line) /\ Len(<<m>>) = 1 /\ <<m>>[1] = m
  BY <1>2, <1>3, <1>4
<1>8. /\ text'[h] \in Seq(Line)
      /\ Len(text'[h]) = Len(text[h]) + 1
      /\ \A a \in 1 .. Len(text[h]) : text'[h][a] = text[h][a]
      /\ text'[h][Len(text[h]) + 1] = m
  <2>1. \A a \in 1 .. (Len(text[h]) + 1) :
           (text[h] \o <<m>>)[a] = IF a <= Len(text[h]) THEN text[h][a] ELSE <<m>>[a - Len(text[h])]
    BY <1>7, ConcatProperties
  <2>2. Len(text[h] \o <<m>>) = Len(text[h]) + 1 /\ text[h] \o <<m>> \in Seq(Line)
    BY <1>7, ConcatProperties
  <2>3. (text[h] \o <<m>>)[Len(text[h]) + 1] = <<m>>[1]
    BY <1>4, <2>1
  <2>4. \A a \in 1 .. Len(text[h]) : (text[h] \o <<m>>)[a] = text[h][a]
    BY <1>4, <2>1
  <2>5. QED
    BY <1>6, <1>7, <2>2, <2>3, <2>4
<1>9. /\ \A a \in 1 .. Len(text[h]) : text[h][a] \in ToSet(text[h])
      /\ ToSet(text'[h]) = ToSet(text[h]) \cup {m}
  <2>1. \A x : x \in ToSet(text[h]) <=> \E a \in 1 .. Len(text[h]) : x = text[h][a]
    BY <1>7, InSeq
  <2>2. \A x : x \in ToSet(text'[h]) <=> \E a \in 1 .. Len(text'[h]) : x = text'[h][a]
    BY <1>8, InSeq
  <2>3. /\ Len(text[h]) + 1 \in 1 .. Len(text'[h])
        /\ \A a \in 1 .. Len(text'[h]) : a \in 1 .. Len(text[h]) \/ a = Len(text[h]) + 1
        /\ \A a \in 1 .. Len(text[h]) : a \in 1 .. Len(text'[h])
    BY <1>4, <1>8
  <2>4. ToSet(text'[h]) \subseteq ToSet(text[h]) \cup {m}
    BY <1>8, <2>1, <2>2, <2>3
  <2>5. ToSet(text[h]) \subseteq ToSet(text'[h]) /\ m \in ToSet(text'[h])
    BY <1>8, <2>1, <2>2, <2>3
  <2>6. QED
    BY <2>1, <2>4, <2>5
<1>10. LinesOf(Heads[i])' = LinesOf(Heads[i]) \cup {m}
  BY <1>5, <1>9 DEF LinesOf, h
<1>11. QED
  BY <1>2, <1>3, <1>4, <1>6, <1>8, <1>9, <1>10 DEF LinesOf, h

(* A tail in its hands is joined to an entry that is still to be sent: it   *)
(* came after all lines that were dealt with, and is of the same container. *)
LEMMA JoinsData ==
    ASSUME Inv, OneConcator, DataInv, NEW i, NEW m, Joins(i, m)
    PROVE  DataInv'
<1>0. /\ UNCHANGED <<line, dropped, Queue, outChan, emitted>>
      /\ Held = {m} /\ Held' = {} /\ KindOf(m) = "tail" /\ IdOf(m) = i /\ i \in Open
      /\ Sent = {} /\ Sent' = {} /\ Long = {} /\ Heads' = Heads
      /\ Long' = IF Len(text'[Heads[i]]) >= MaxLen THEN {i} ELSE {}
  BY DEF Joins
<1>1. /\ EntryInv /\ QueueInv /\ DoneInv /\ HeadInv /\ SentInv /\ OrderInv /\ KeptInv
      /\ EmittedInv
  BY DEF DataInv
<1>2. /\ Seen' = Seen /\ LinesOut' = LinesOut /\ Gone' = Gone /\ Open' = Open
  BY <1>0, SameLine, SameEmitted DEF Open
<1>3. /\ m \in Held /\ m \notin Done /\ \A x \in Done : x < m /\ Follows(m, x)
  BY <1>0, <1>1, HeldFollows
<1>4. PICK h : h = Heads[i]
  OBVIOUS
<1>5. PICK n : n = Len(text[h])
  OBVIOUS
<1>6. /\ h \in Line /\ h \in Seen /\ h \in Done /\ m # h /\ m \in Line /\ m \in Seen
      /\ n \in Nat \ {0} /\ Len(text'[h]) = n + 1
      /\ \A a \in 1 .. n : text'[h][a] = text[h][a] /\ text[h][a] \in LinesOf(h)
      /\ text'[h][n + 1] = m
      /\ \A q \in Line \ {h} : text'[q] = text[q] /\ LinesOf(q)' = LinesOf(q)
  BY <1>4, <1>5, JoinsText
<1>7. LinesOf(h)' = LinesOf(h) \cup {m}
  <2>1. LinesOf(Heads[i])' = LinesOf(Heads[i]) \cup {m} /\ Heads'[i] = Heads[i]
    BY <1>0, JoinsText
  <2>2. QED
    BY <1>4, <2>1 DEF LinesOf
<1>8. /\ KindOf(h) = "head" /\ IdOf(h) = i /\ (n < MaxLen \/ n = 1)
      /\ SourceOf(h) = SourceOf(m)
  <2>1. KindOf(h) = "head" /\ IdOf(h) = i /\ (n < MaxLen \/ n = 1)
    BY <1>0, <1>1, <1>4, <1>5 DEF HeadInv
  <2>2. QED
    BY <1>0, <1>6, <2>1, OneTag
<1>9. \A j \in Open \ {i} : Heads[j] # h /\ Heads[j] \in Line
  BY <1>0, <1>1, <1>4, SlotsApart, DataTypes
<1>10. h \notin ToSet(outChan)
  <2>1. ASSUME h \in ToSet(outChan) PROVE FALSE
    <3>1. AllFollow(LinesOf(h), LinesOf(h))
      BY <1>0, <1>1, <1>4, <2>1 DEF OrderInv
    <3>2. h \in LinesOf(h)
      BY <1>1, <1>6, FirstIn
    <3>3. QED
      BY <3>1, <3>2 DEF AllFollow, Follows
  <2>2. QED
    BY <2>1
<1>11. \A q \in ToSet(outChan) : q \in Line /\ q # h /\ LinesOf(q)' = LinesOf(q)
  BY <1>6, <1>10, DoneHas
<1>12. Done' = Done \cup {m}
  <2>1. \A x \in Line : (\E j \in Open : x \in LinesOf(Heads[j])) <=>
           (x \in LinesOf(h) \/ \E j \in Open \ {i} : x \in LinesOf(Heads[j]))
    BY <1>0, <1>4
  <2>2. \A j \in Open \ {i} : LinesOf(Heads[j])' = LinesOf(Heads[j])
    BY <1>0, <1>6, <1>9 DEF LinesOf
  <2>3. \A x \in Line : x \in Done' <=>
           \/ x \in Gone
           \/ \E q \in ToSet(outChan) : x \in LinesOf(q)
           \/ x \in LinesOf(h) \/ x = m
           \/ \E j \in Open \ {i} : x \in LinesOf(Heads[j])
    <3>1. \A x \in Line : x \in Done' <=>
             \/ x \in Gone
             \/ \E q \in ToSet(outChan) : x \in ToSet(text'[q])
             \/ x \in ToSet(text'[h])
             \/ \E j \in Open \ {i} : x \in ToSet(text'[Heads[j]])
      BY <1>0, <1>2, <1>4 DEF Done, LinesOf
    <3>2. QED
      BY <1>7, <1>11, <1>0, <2>2, <3>1 DEF LinesOf
  <2>4. Done \subseteq Line /\ Done' \subseteq Line
    BY DEF Done
  <2>5. \A x \in Line : x \in Done' <=> x \in Done \/ x = m
    BY <2>1, <2>3 DEF Done
  <2>6. QED
    BY <1>6, <2>4, <2>5
<1>13. EmittedInv' /\ DoneInv' /\ KeptInv'
  BY <1>0, <1>1, <1>3, <1>12, SameEmitted, DoneKept
<1>14. EntryInv'
  <2>1. ASSUME NEW q \in Line \ {h} PROVE IsEntry(q)'
    <3>1. IsEntry(q) /\ text'[q] = text[q]
      BY <1>1, <1>6 DEF EntryInv
    <3>2. QED
      BY <1>0, <1>2, <3>1 DEF IsEntry, KindOf, SourceOf
  <2>2. IsEntry(h)'
    <3>0. IsEntry(h)
      BY <1>1, <1>6 DEF EntryInv
    <3>1. Len(text'[h]) \in Nat \ {0} /\ text'[h][1] = h
      BY <1>5, <1>6, <3>0 DEF IsEntry
    <3>2. ASSUME NEW a \in 1 .. (n + 1), NEW b \in 1 .. (n + 1), a < b
          PROVE  text'[h][a] < text'[h][b]
      <4>1. a \in 1 .. n
        BY <1>6, <3>2
      <4>2. CASE b \in 1 .. n
        BY <1>5, <1>6, <3>0, <3>2, <4>1, <4>2 DEF IsEntry
      <4>3. CASE b = n + 1
        <5>1. text[h][a] \in Done
          BY <1>0, <1>4, <1>6, <4>1, DoneHas
        <5>2. QED
          BY <1>3, <1>6, <4>1, <4>3, <5>1
      <4>4. QED
        BY <1>6, <4>2, <4>3
    <3>3. ASSUME NEW a \in 2 .. (n + 1)
          PROVE  /\ text'[h][a] \in Seen
                 /\ KindOf(text'[h][a]) = "tail"
                 /\ SourceOf(text'[h][a]) = SourceOf(h)
      <4>1. CASE a = n + 1
        BY <1>0, <1>6, <1>8, <4>1
      <4>2. CASE a # n + 1
        <5>1. a \in 2 .. n /\ a \in 1 .. n /\ n > 1
          BY <1>6, <4>2
        <5>2. QED
          BY <1>5, <1>6, <3>0, <5>1 DEF IsEntry
      <4>3. QED
        BY <4>1, <4>2
    <3>4. n + 1 <= MaxLen \/ n + 1 <= 2
      <4>1. MaxLen \in Nat
        BY DataTypes
      <4>2. QED
        BY <1>6, <1>8, <4>1
    <3>5. QED
      BY <1>0, <1>2, <1>6, <1>8, <3>1, <3>2, <3>3, <3>4 DEF IsEntry, KindOf, SourceOf
  <2>3. QED
    BY <2>1, <2>2 DEF EntryInv
<1>15. QueueInv'
  <2>1. h \notin ToSet(Queue)
    <3>1. ASSUME h \in ToSet(Queue) PROVE FALSE
      <4>1. h < h /\ h \in Nat
        BY <1>1, <1>6, <3>1, DataTypes DEF DoneInv, Waiting
      <4>2. QED
        BY <4>1
    <3>2. QED
      BY <3>1
  <2>2. ASSUME NEW a \in 1 .. Len(Queue)
        PROVE  Queue[a] \in Seen /\ text'[Queue[a]] = <<Queue[a]>>
    <3>1. Queue \in Seq(Line)
      BY DataTypes
    <3>2. Queue[a] \in ToSet(Queue) /\ Queue[a] \in Line
      BY <3>1, InSeq
    <3>3. QED
      BY <1>1, <1>6, <2>1, <3>2 DEF QueueInv
  <2>3. \A q \in Line \ Seen : text'[q] = <<q>>
    BY <1>1, <1>6 DEF QueueInv
  <2>4. QED
    BY <1>0, <1>1, <1>2, <2>2, <2>3 DEF QueueInv
<1>16. HeadInv'
  <2>1. MaxLen \in Nat
    BY DataTypes
  <2>2. ASSUME NEW j \in Open
        PROVE  /\ Heads[j] \in Seen /\ KindOf(Heads[j]) = "head" /\ IdOf(Heads[j]) = j
               /\ j \in Long' \/ Len(text'[Heads[j]]) < MaxLen \/ Len(text'[Heads[j]]) = 1
    <3>1. CASE j = i
      BY <1>0, <1>4, <1>6, <1>8, <2>1, <3>1
    <3>2. CASE j # i
      BY <1>0, <1>1, <1>6, <1>9, <2>2, <3>2 DEF HeadInv
    <3>3. QED
      BY <3>1, <3>2
  <2>3. QED
    BY <1>0, <1>2, <2>2 DEF HeadInv, KindOf, IdOf, SourceOf
<1>17. SentInv'
  BY <1>0 DEF SentInv
<1>18. OrderInv'
  <2>1. \A a \in 1 .. Len(outChan) : outChan[a] \in ToSet(outChan)
    <3>1. outChan \in Seq(Line)
      BY DataTypes
    <3>2. QED
      BY <3>1, InSeq
  <2>2. ASSUME NEW j \in Open
        PROVE  \E L : /\ LinesOf(Heads[j])' = L
                      /\ AllFollow(L, Gone)
                      /\ \A q \in ToSet(outChan) : AllFollow(L, LinesOf(q))
    <3>0. LinesOf(Heads[j])' = ToSet(text'[Heads[j]])
      BY <1>0 DEF LinesOf
    <3>1. CASE j = i
      <4>1. LinesOf(Heads[j])' = LinesOf(h) \cup {m}
        BY <1>4, <1>7, <3>0, <3>1 DEF LinesOf
      <4>2. /\ AllFollow(LinesOf(h), Gone)
            /\ \A q \in ToSet(outChan) : AllFollow(LinesOf(h), LinesOf(q))
        BY <1>0, <1>1, <1>4 DEF OrderInv
      <4>3. /\ AllFollow({m}, Gone)
            /\ \A q \in ToSet(outChan) : AllFollow({m}, LinesOf(q))
        BY <1>3, DoneHas DEF AllFollow
      <4>4. /\ AllFollow(LinesOf(h) \cup {m}, Gone)
            /\ \A q \in ToSet(outChan) : AllFollow(LinesOf(h) \cup {m}, LinesOf(q))
        BY <4>2, <4>3 DEF AllFollow
      <4>5. QED
        BY <4>1, <4>4
    <3>2. CASE j # i
      <4>1. LinesOf(Heads[j])' = LinesOf(Heads[j])
        BY <1>6, <1>9, <3>0, <3>2 DEF LinesOf
      <4>2. /\ AllFollow(LinesOf(Heads[j]), Gone)
            /\ \A q \in ToSet(outChan) : AllFollow(LinesOf(Heads[j]), LinesOf(q))
        BY <1>0, <1>1 DEF OrderInv
      <4>3. QED
        BY <4>1, <4>2
    <3>3. QED
      BY <3>1, <3>2
  <2>3. (\A j \in Open \ Sent :
            /\ AllFollow(LinesOf(Heads[j]), Gone)
            /\ \A q \in ToSet(outChan) : AllFollow(LinesOf(Heads[j]), LinesOf(q)))'
    BY <1>0, <1>2, <1>11, <2>2 DEF AllFollow, Follows, LinesOf, KindOf, SourceOf
  <2>4. (\A a, b \in 1 .. Len(LinesOut) : a < b => Follows(LinesOut[b], LinesOut[a]))'
    BY <1>0, <1>1, <1>2 DEF OrderInv, Follows, KindOf, SourceOf
  <2>5. (\A q \in ToSet(outChan) : AllFollow(LinesOf(q), Gone))'
    BY <1>0, <1>1, <1>2, <1>11 DEF OrderInv, AllFollow, Follows, LinesOf, KindOf, SourceOf
  <2>6. (\A a, b \in 1 .. Len(outChan) :
            a < b => AllFollow(LinesOf(outChan[b]), LinesOf(outChan[a])))'
    BY <1>0, <1>1, <1>11, <2>1
    DEF OrderInv, AllFollow, Follows, LinesOf, KindOf, SourceOf
  <2>7. QED
    BY <2>3, <2>4, <2>5, <2>6 DEF OrderInv
<1>19. QED
  BY <1>13, <1>14, <1>15, <1>16, <1>17, <1>18 DEF DataInv

(* What the next filter takes, and where its lines go.                      *)
LEMMA LeavesText ==
    ASSUME Inv, OneConcator, Leaves, NEW q, q = Head(outChan)
    PROVE  /\ q \in Line /\ q \in ToSet(outChan) /\ q = outChan[1]
           /\ Len(outChan) \in Nat \ {0} /\ Len(outChan') = Len(outChan) - 1
           /\ \A a \in 1 .. Len(outChan') : outChan'[a] = outChan[a + 1]
           /\ ToSet(outChan) = {q} \cup ToSet(outChan')
           /\ ToSet(emitted') = ToSet(emitted) \cup {text[q]}
           /\ LinesOut \in Seq(Line) /\ text[q] \in Seq(Line)
           /\ LinesOut' = LinesOut \o text[q]
           /\ Gone' = Gone \cup LinesOf(q)
<1>0. outChan # <<>> /\ outChan' = Tail(outChan) /\ emitted' = Append(emitted, text[q])
  BY DEF Leaves
<1>1. /\ outChan \in Seq(Line) /\ emitted \in Seq(Seq(Line)) /\ LinesOut \in Seq(Line)
      /\ text \in [Line -> Seq(Line)]
  BY DataTypes
<1>2. /\ Len(outChan) \in Nat \ {0} /\ q = outChan[1] /\ q \in Line
      /\ Len(outChan') = Len(outChan) - 1
      /\ \A a \in 1 .. Len(outChan') : outChan'[a] = outChan[a + 1]
      /\ ToSet(outChan) = {q} \cup ToSet(outChan')
  BY <1>0, <1>1, ReceiveFrom, HeadTailProperties
<1>3. text[q] \in Seq(Line)
  BY <1>1, <1>2
<1>4. ToSet(emitted') = ToSet(emitted) \cup {text[q]}
  BY <1>0, <1>1, <1>3, SendTo
<1>5. LinesOut' = LinesOut \o text[q]
  <2>1. FlattenSeq(Append(emitted, text[q])) = FlattenSeq(emitted) \o text[q]
    BY <1>1, <1>3, FlattenAppend
  <2>2. QED
    BY <1>0, <2>1 DEF LinesOut
<1>6. Gone' = Gone \cup LinesOf(q)
  <2>1. ToSet(LinesOut \o text[q]) = ToSet(LinesOut) \cup ToSet(text[q])
    BY <1>1, <1>3, ConcatTo
  <2>2. QED
    BY <1>5, <2>1 DEF Gone, LinesOf
<1>7. QED
  BY <1>1, <1>2, <1>3, <1>4, <1>5, <1>6

(* The next filter takes a message: its lines were the first of what is     *)
(* sent, and follow what left.                                              *)
LEMMA LeavesData ==
    ASSUME Inv, OneConcator, DataInv, Leaves
    PROVE  DataInv'
<1>0. /\ UNCHANGED <<line, dropped, Queue, text>>
      /\ Held' = Held /\ Heads' = Heads /\ Sent' = Sent /\ Long' = Long
  BY DEF Leaves
<1>1. /\ EntryInv /\ QueueInv /\ DoneInv /\ HeadInv /\ SentInv /\ OrderInv /\ KeptInv
      /\ EmittedInv
  BY DEF DataInv
<1>2. Seen' = Seen /\ Open' = Open /\ \A m : LinesOf(m)' = LinesOf(m)
  BY <1>0, SameLine, SameText DEF Open
<1>3. PICK q : q = Head(outChan)
  OBVIOUS
<1>4. /\ q \in Line /\ q \in ToSet(outChan) /\ q = outChan[1]
      /\ Len(outChan) \in Nat \ {0} /\ Len(outChan') = Len(outChan) - 1
      /\ \A a \in 1 .. Len(outChan') : outChan'[a] = outChan[a + 1]
      /\ ToSet(outChan) = {q} \cup ToSet(outChan')
      /\ ToSet(emitted') = ToSet(emitted) \cup {text[q]}
      /\ LinesOut \in Seq(Line) /\ text[q] \in Seq(Line)
      /\ LinesOut' = LinesOut \o text[q]
      /\ Gone' = Gone \cup LinesOf(q)
  BY <1>3, LeavesText
<1>5. Done' = Done /\ Waiting' = Waiting
  BY <1>0, <1>2, <1>4 DEF Done, Waiting, LinesOf
<1>6. EntryInv' /\ DoneInv' /\ KeptInv'
  BY <1>0, <1>1, <1>5, SameText, DoneKept
<1>7. QueueInv'
  BY <1>0, <1>1, <1>2 DEF QueueInv
<1>8. HeadInv'
  BY <1>0, <1>1, <1>2 DEF HeadInv, KindOf, IdOf, SourceOf
<1>9. SentInv'
  <2>1. \A i \in Sent : /\ i \in Open
                        /\ Heads[i] \in ToSet(outChan') \/ LinesOf(Heads[i]) \subseteq Gone'
    BY <1>1, <1>4 DEF SentInv
  <2>2. QED
    BY <1>0, <1>2, <2>1 DEF SentInv, LinesOf
<1>10. IsEntry(q)
  BY <1>1, <1>4 DEF EntryInv
<1>11. LinesOf(q) \subseteq Done /\ LinesOf(q) \subseteq Seen /\ Done \subseteq Nat
  BY <1>1, <1>4, DoneHas, DataTypes DEF DoneInv
<1>12. EmittedInv'
  <2>1. ASSUME NEW e \in ToSet(emitted')
        PROVE  /\ ToSet(e) \subseteq Seen
               /\ Len(e) > 1 =>
                     /\ KindOf(e[1]) = "head"
                     /\ \A a \in 2 .. Len(e) : KindOf(e[a]) = "tail"
                     /\ \A a \in 1 .. Len(e) : SourceOf(e[a]) = SourceOf(e[1])
                     /\ Len(e) <= MaxLen \/ Len(e) = 2
    <3>1. CASE e \in ToSet(emitted)
      BY <1>1, <3>1 DEF EmittedInv, EmittedIsOneEntry
    <3>2. CASE e = text[q]
      <4>1. ToSet(e) \subseteq Seen
        BY <1>11, <3>2 DEF LinesOf
      <4>2. ASSUME Len(e) > 1
            PROVE  /\ KindOf(e[1]) = "head"
                   /\ \A a \in 2 .. Len(e) : KindOf(e[a]) = "tail"
                   /\ \A a \in 1 .. Len(e) : SourceOf(e[a]) = SourceOf(e[1])
                   /\ Len(e) <= MaxLen \/ Len(e) = 2
        <5>1. /\ KindOf(e[1]) = "head" /\ e[1] = q
              /\ \A a \in 2 .. Len(e) : KindOf(e[a]) = "tail" /\ SourceOf(e[a]) = SourceOf(q)
              /\ Len(e) <= MaxLen \/ Len(e) <= 2
              /\ Len(e) \in Nat
          BY <1>10, <3>2, <4>2 DEF IsEntry
        <5>2. \A a \in 1 .. Len(e) : a = 1 \/ a \in 2 .. Len(e)
          BY <5>1
        <5>3. Len(e) <= 2 => Len(e) = 2
          <6>1. Len(e) \in Nat
            BY <5>1
          <6>2. \A k \in Nat : k > 1 /\ k <= 2 => k = 2
            OBVIOUS
          <6>3. QED
            BY <4>2, <6>1, <6>2
        <5>4. QED
          BY <5>1, <5>2, <5>3
      <4>3. QED
        BY <4>1, <4>2
    <3>3. QED
      BY <1>4, <3>1, <3>2
  <2>2. QED
    BY <1>0, <1>2, <2>1 DEF EmittedInv, EmittedIsOneEntry, KindOf, SourceOf
<1>13. OrderInv'
  <2>1. ASSUME NEW a \in 1 .. Len(LinesOut'), NEW b \in 1 .. Len(LinesOut'), a < b
        PROVE  Follows(LinesOut'[b], LinesOut'[a])
    <3> DEFINE N == Len(LinesOut)
               K == Len(text[q])
               L == LinesOut \o text[q]
    <3>1. /\ N \in Nat /\ K \in Nat /\ LinesOut' = L /\ Len(L) = N + K
          /\ \A c \in 1 .. N : L[c] = LinesOut[c] /\ LinesOut[c] \in Gone
          /\ \A c \in (N + 1) .. (N + K) :
                /\ c - N \in 1 .. K /\ L[c] = text[q][c - N]
                /\ text[q][c - N] \in LinesOf(q)
      BY <1>4, ConcatTo DEF Gone, LinesOf
    <3> HIDE DEF N, K, L
    <3>2. /\ a \in 1 .. (N + K) /\ b \in 1 .. (N + K)
          /\ a \in 1 .. N \/ a \in (N + 1) .. (N + K)
          /\ b \in 1 .. N \/ b \in (N + 1) .. (N + K)
      BY <2>1, <3>1
    <3>3. CASE b \in 1 .. N
      <4>1. a \in 1 .. N
        BY <2>1, <3>1, <3>2, <3>3
      <4>2. Follows(LinesOut[b], LinesOut[a])
        BY <1>1, <2>1, <3>3, <4>1 DEF OrderInv, N
      <4>3. QED
        BY <3>1, <3>3, <4>1, <4>2
    <3>4. CASE a \in 1 .. N /\ b \in (N + 1) .. (N + K)
      <4>1. L[a] \in Gone /\ L[b] \in LinesOf(q)
        BY <3>1, <3>4
      <4>2. AllFollow(LinesOf(q), Gone)
        BY <1>1, <1>4 DEF OrderInv
      <4>3. QED
        BY <3>1, <4>1, <4>2 DEF AllFollow
    <3>5. CASE a \in (N + 1) .. (N + K) /\ b \in (N + 1) .. (N + K)
      <4>1. a - N < b - N
        BY <2>1, <3>1, <3>2
      <4>2. text[q][a - N] < text[q][b - N]
        BY <1>10, <3>1, <3>5, <4>1 DEF IsEntry, K
      <4>3. text[q][a - N] \in Nat /\ text[q][b - N] \in Nat
        BY <1>11, <3>1, <3>5
      <4>4. Follows(text[q][b - N], text[q][a - N])
        BY <4>2, <4>3 DEF Follows
      <4>5. QED
        BY <3>1, <3>5, <4>4
    <3>6. QED
      BY <2>1, <3>1, <3>2, <3>3, <3>4, <3>5
  <2>2. ASSUME NEW x \in ToSet(outChan')
        PROVE  x \in ToSet(outChan) /\ \E a \in 1 .. Len(outChan') : x = outChan[a + 1]
    <3>1. outChan' \in Seq(Line)
      BY DataTypes, ReceiveFrom DEF Leaves
    <3>2. PICK a \in 1 .. Len(outChan') : x = outChan'[a]
      BY <3>1, InSeq
    <3>3. x = outChan[a + 1] /\ x \in ToSet(outChan)
      BY <1>4, <3>2
    <3>4. QED
      BY <3>3
  <2>3. \A a \in 1 .. Len(outChan') : /\ a \in Nat /\ a + 1 \in 1 .. Len(outChan)
                                      /\ 1 \in 1 .. Len(outChan) /\ 1 < a + 1
    BY <1>4
  <2>4. ASSUME NEW x \in ToSet(outChan') PROVE AllFollow(LinesOf(x), Gone')
    <3>1. AllFollow(LinesOf(x), Gone)
      BY <1>1, <2>2, <2>4 DEF OrderInv
    <3>2. AllFollow(LinesOf(x), LinesOf(q))
      BY <1>1, <1>4, <2>2, <2>3, <2>4 DEF OrderInv
    <3>3. QED
      BY <1>4, <3>1, <3>2 DEF AllFollow
  <2>5. ASSUME NEW a \in 1 .. Len(outChan'), NEW b \in 1 .. Len(outChan'), a < b
        PROVE  AllFollow(LinesOf(outChan'[b]), LinesOf(outChan'[a]))
    <3>1. a + 1 < b + 1
      BY <2>3, <2>5
    <3>2. AllFollow(LinesOf(outChan[b + 1]), LinesOf(outChan[a + 1]))
      BY <1>1, <2>3, <3>1 DEF OrderInv
    <3>3. QED
      BY <1>4, <3>2
  <2>6. ASSUME NEW i \in Open \ Sent
        PROVE  /\ AllFollow(LinesOf(Heads[i]), Gone')
               /\ \A x \in ToSet(outChan') : AllFollow(LinesOf(Heads[i]), LinesOf(x))
    <3>1. /\ AllFollow(LinesOf(Heads[i]), Gone)
          /\ \A x \in ToSet(outChan) : AllFollow(LinesOf(Heads[i]), LinesOf(x))
      BY <1>1 DEF OrderInv
    <3>2. QED
      BY <1>4, <3>1 DEF AllFollow
  <2>7. (\A a, b \in 1 .. Len(LinesOut) : a < b => Follows(LinesOut[b], LinesOut[a]))'
    BY <1>0, <2>1 DEF Follows, KindOf, SourceOf
  <2>8. (\A x \in ToSet(outChan) : AllFollow(LinesOf(x), Gone))'
    BY <1>0, <2>4 DEF AllFollow, Follows, LinesOf, KindOf, SourceOf
  <2>9. (\A a, b \in 1 .. Len(outChan) :
            a < b => AllFollow(LinesOf(outChan[b]), LinesOf(outChan[a])))'
    BY <1>0, <2>5 DEF AllFollow, Follows, LinesOf, KindOf, SourceOf
  <2>10. (\A i \in Open \ Sent :
            /\ AllFollow(LinesOf(Heads[i]), Gone)
            /\ \A x \in ToSet(outChan) : AllFollow(LinesOf(Heads[i]), LinesOf(x)))'
    BY <1>0, <1>2, <2>6 DEF AllFollow, Follows, LinesOf, KindOf, SourceOf
  <2>11. QED
    BY <2>7, <2>8, <2>9, <2>10 DEF OrderInv
<1>14. QED
  BY <1>6, <1>7, <1>8, <1>9, <1>12, <1>13 DEF DataInv

-----------------------------------------------------------------------------
(* The invariant of one concator, at the start and after every step.        *)
LEMMA OneInvInit ==
    ASSUME OneConcator, Init
    PROVE  OneInv
<1>1. Inv
  BY InvInit
<1>2. /\ line = <<>> /\ outChan = <<>> /\ emitted = <<>> /\ panicked = FALSE
      /\ text = [m \in Line |-> <<m>>]
      /\ slot = [i \in Identifier |-> NoPMsg]
      /\ pMsgPool = [p \in PMsg |-> 1]
  BY DEF Init
<1>3. My.pc = "top" /\ Queue = <<>>
  BY OnlyMe DEF Init, My, Queue
<1>4. RecordInv /\ LocalsInv
  <2>1. RecordInv
    <3>1. \A p \in PMsg : pMsgPool[p] = 1
      BY <1>2
    <3>2. \A i \in Identifier : slot[i] = NoPMsg
      BY <1>2
    <3>3. \A p \in PMsg : p # NoPMsg
      BY ConcatorAssumption
    <3>4. 1 <= 1
      OBVIOUS
    <3>5. QED
      BY <1>2, <3>1, <3>2, <3>3, <3>4 DEF RecordInv
  <2>2. LocalsInv
    BY <1>3, IdleLocals DEF Idle
  <2>3. QED
    BY <2>1, <2>2
<1>5. Held = {} /\ Sent = {} /\ Long = {} /\ Open = {}
  <2>1. Held = {} /\ Sent = {} /\ Long = {}
    BY <1>3, HeldIs
  <2>2. Open = {}
    BY <1>2 DEF Open, Heads, HeadOf
  <2>3. QED
    BY <2>1, <2>2
<1>6. /\ Len(line) = 0 /\ Seen = {} /\ LinesOut = <<>> /\ Gone = {}
      /\ ToSet(outChan) = {} /\ ToSet(Queue) = {} /\ ToSet(emitted) = {}
  <2>1. ToSet(<<>>) = {}
    BY DEF ToSet
  <2>2. LinesOut = <<>>
    BY <1>2, FlattenNone DEF LinesOut
  <2>3. QED
    BY <1>2, <1>3, <2>1, <2>2 DEF Seen, Gone
<1>7. Done = {} /\ Waiting = {} /\ Arrived = {}
  BY <1>5, <1>6 DEF Done, Waiting, Arrived
<1>8. EntryInv
  <2>1. ASSUME NEW m \in Line PROVE IsEntry(m)
    <3>1. text[m] = <<m>>
      BY <1>2
    <3>2. Len(<<m>>) = 1 /\ <<m>>[1] = m
      OBVIOUS
    <3>3. \A a, b \in 1 .. 1 : ~(a < b)
      OBVIOUS
    <3>4. QED
      BY <3>1, <3>2, <3>3 DEF IsEntry
  <2>2. QED
    BY <2>1 DEF EntryInv
<1>9. QueueInv
  BY <1>2, <1>3, <1>5 DEF QueueInv
<1>10. OrderInv
  BY <1>2, <1>5, <1>6 DEF OrderInv
<1>11. EmittedInv
  BY <1>6 DEF EmittedInv, EmittedIsOneEntry
<1>12. DoneInv /\ HeadInv /\ SentInv /\ KeptInv
  BY <1>5, <1>7 DEF DoneInv, HeadInv, SentInv, KeptInv
<1>13. QED
  BY <1>1, <1>4, <1>8, <1>9, <1>10, <1>11, <1>12 DEF OneInv, DataInv

(* Every step of the concator keeps it.                                     *)
LEMMA OneInvStep ==
    ASSUME OneConcator, OneInv, NEW w \in Worker, ConcatorStep(w)
    PROVE  RecordInv' /\ LocalsInv' /\ DataInv'
<1>0. Inv /\ DataInv
  BY DEF OneInv
<1>1. CASE Top(w) \/ ScanEnd(w) \/ StartScan(w) \/ \E i \in Identifier : ScanNext(w, i)
  BY <1>0, <1>1, IdleStill, StillData
<1>2. ASSUME NEW i \in Identifier, ScanExpired(w, i) PROVE RecordInv' /\ LocalsInv' /\ DataInv'
  BY <1>0, <1>2, ScanExpiredStill, StillData
<1>3. CASE Receive(w)
  BY <1>0, <1>3, ReceiveTakes, TakesData
<1>4. CASE Flushed(w) \/ LongSent(w)
  BY <1>0, <1>4, FreeFrees, FreesData
<1>5. CASE Send(w)
  <2>1. RecordInv' /\ LocalsInv' /\ (Passes(My.msg) \/ Sends(My.id))
    BY <1>5, SendMoves
  <2>2. CASE Passes(My.msg)
    BY <1>0, <2>1, <2>2, PassesData
  <2>3. CASE Sends(My.id)
    BY <1>0, <2>1, <2>3, SendsData
  <2>4. QED
    BY <2>1, <2>2, <2>3
<1>6. CASE Handle(w)
  BY <1>0, <1>6, HandleStill, StillData
<1>7. CASE Insert(w)
  BY <1>0, <1>7, InsertOpens, OpensData
<1>8. CASE Known(w)
  BY <1>0, <1>8, KnownStill, StillData
<1>9. CASE Swap(w)
  BY <1>0, <1>9, SwapOpens, OpensData
<1>10. CASE Concat(w)
  BY <1>0, <1>10, ConcatJoins, JoinsData
<1>11. CASE DiscardMsg(w)
  BY <1>0, <1>11, DiscardStill, StillData
<1>12. QED
  BY <1>1, <1>2, <1>3, <1>4, <1>5, <1>6, <1>7, <1>8, <1>9, <1>10, <1>11 DEF ConcatorStep

(* Every step of the system keeps it.                                       *)
LEMMA OneInvNext ==
    ASSUME OneConcator, OneInv, [Next]_vars
    PROVE  OneInv'
<1>0. Inv /\ DataInv
  BY DEF OneInv
<1>1. Inv'
  BY <1>0, InvNext
<1>2. ASSUME NEW k \in Kind, NEW src \in Source, Arrive(k, src)
      PROVE  RecordInv' /\ LocalsInv' /\ DataInv'
  BY <1>0, <1>2, ArriveComes, ComesData
<1>3. ASSUME NEW w \in Worker, ConcatorStep(w) PROVE RecordInv' /\ LocalsInv' /\ DataInv'
  BY <1>3, OneInvStep
<1>4. ASSUME (\E i \in Identifier : Expire(i)) \/ Commit \/ UNCHANGED vars
      PROVE  RecordInv' /\ LocalsInv' /\ DataInv'
  BY <1>0, <1>4, EnvironmentStill, StillData
<1>5. ASSUME Consume PROVE RecordInv' /\ LocalsInv' /\ DataInv'
  BY <1>0, <1>5, ConsumeLeaves, LeavesData
<1>6. RecordInv' /\ LocalsInv' /\ DataInv'
  BY <1>2, <1>3, <1>4, <1>5 DEF Next
<1>7. QED
  BY <1>1, <1>6 DEF OneInv

(* The invariant of one concator holds in every state.                      *)
THEOREM OneInvariance == ASSUME OneConcator PROVE Spec => []OneInv
<1>1. Init => OneInv
  BY OneInvInit
<1>2. OneInv /\ [Next]_vars => OneInv'
  BY OneInvNext
<1>3. QED
  BY <1>1, <1>2, PTL DEF Spec

-----------------------------------------------------------------------------
(* What it promises.                                                        *)

(* A pointer to what waits, is sent or is in a slot is on its way.          *)
LEMMA OnTheWay ==
    ASSUME Inv, OneConcator
    PROVE  /\ Waiting \subseteq InTransit /\ ToSet(outChan) \subseteq InTransit
           /\ \A i \in Open : Heads[i] \in InTransit
<1>1. Queue = inChan[Me] /\ Held = Holding(Me) /\ Me \in Worker
  BY OnlyMe DEF Queue, Held
<1>2. Waiting \subseteq InTransit
  BY <1>1 DEF Waiting, InTransit
<1>3. ToSet(outChan) \subseteq InTransit
  BY DEF InTransit
<1>4. \A i \in Open : i \in Identifier /\ slot[i] # NoPMsg /\ Heads[i] = pending[slot[i]].msg
  BY HeadsTyped, DataTypes
<1>5. \A i \in Open : Heads[i] \in InTransit
  BY <1>4 DEF InTransit
<1>6. QED
  BY <1>2, <1>3, <1>5

(* One concator loses no line that it got: it waits, in a message of its    *)
(* own, or it was dealt with, and is in what was sent, in a slot, or gone.  *)
THEOREM LinesKept == ASSUME OneConcator PROVE Spec => []NoLineLost
<1>1. OneInv => NoLineLost
  <2> SUFFICES ASSUME OneInv PROVE NoLineLost
    OBVIOUS
  <2>0. Inv /\ EntryInv /\ QueueInv /\ KeptInv
    BY DEF OneInv, DataInv
  <2> SUFFICES ASSUME NEW m \in Arrived
               PROVE  (\E q \in InTransit : m \in LinesOf(q)) \/ m \in Gone
    BY DEF NoLineLost, LinesOf, Gone
  <2>1. CASE m \in Waiting
    <3>1. m \in Line
      BY <2>0, DataTypes DEF Arrived, Seen
    <3>2. m \in LinesOf(m)
      BY <2>0, <3>1, FirstIn
    <3>3. QED
      BY <2>0, <2>1, <3>2, OnTheWay
  <2>2. CASE m \in Done
    BY <2>0, <2>2, OnTheWay DEF Done
  <2>3. QED
    BY <2>0, <2>1, <2>2 DEF KeptInv
<1>2. QED
  BY <1>1, OneInvariance, PTL

(* One concator sends no line twice, and the heads and tails of a container *)
(* in the order in which they came.                                         *)
THEOREM LinesInOrder == ASSUME OneConcator PROVE Spec => []InOrder
<1>1. OneInv => InOrder
  <2> SUFFICES ASSUME OneInv PROVE InOrder
    OBVIOUS
  <2>1. LinesOut \in Seq(Line) /\ Line \subseteq Nat
    BY DataTypes DEF OneInv
  <2>2. \A a, b \in 1 .. Len(LinesOut) : a < b => Follows(LinesOut[b], LinesOut[a])
    BY DEF OneInv, DataInv, OrderInv
  <2>3. DOMAIN LinesOut = 1 .. Len(LinesOut) /\ Len(LinesOut) \in Nat
    BY <2>1, LenProperties
  <2>4. ASSUME NEW a \in DOMAIN LinesOut, NEW b \in DOMAIN LinesOut, LinesOut[a] = LinesOut[b]
        PROVE  a = b
    <3>1. ~(a < b) /\ ~(b < a)
      BY <2>2, <2>3, <2>4 DEF Follows
    <3>2. QED
      BY <2>3, <3>1
  <2>5. IsInjective(LinesOut)
    BY <2>4 DEF IsInjective
  <2>6. QED
    BY <2>2, <2>5 DEF InOrder, Follows
<1>2. QED
  BY <1>1, OneInvariance, PTL

(* What one concator sends is one entry.                                    *)
THEOREM OneEntryEach == ASSUME OneConcator PROVE Spec => []EmittedIsOneEntry
<1>1. OneInv => EmittedIsOneEntry
  BY DEF OneInv, DataInv, EmittedInv
<1>2. QED
  BY <1>1, OneInvariance, PTL

(* One concator never finds a slot empty that was taken, or a record of     *)
(* another tag, and so never panics.                                        *)
THEOREM NoPanic == ASSUME OneConcator PROVE Spec => []NeverPanics
<1>1. OneInv => NeverPanics
  BY DEF OneInv, RecordInv, NeverPanics
<1>2. QED
  BY <1>1, OneInvariance, PTL
=============================================================================
