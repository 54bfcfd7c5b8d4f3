---------------------------- MODULE FluentdRecv ----------------------------
(***************************************************************************)
(* The Fluentd receiver of go-fluentd, internal/recvs/fluentd.go.           *)
(*                                                                         *)
(* A goroutine per connection decodes the lines of the upstream and gives   *)
(* each to the concator its lb_key hashes to.  A concator keeps the last    *)
(* entry of every identifier (a container) in a map of its own: a line that *)
(* looks like the head of an entry, or comes too late, pushes the entry     *)
(* out, another is appended to it.  A ticker sends on what got too old, and *)
(* an entry that got too long is sent on at once.                           *)
(*                                                                         *)
(* Lines are numbers, in the order the upstream sent them, of length one;   *)
(* a message is the sequence of its lines.                                  *)
(***************************************************************************)
EXTENDS Integers, Sequences, FiniteSets, SequencesExt

CONSTANTS
    Conn,
    NLine,              \* lines 1 .. NLine
    ConnOf,             \* [Line -> Conn]: where a line comes in
    Fork,               \* the concators
    ForkOf,             \* [Line -> Fork]: the hash of its lb_key
    Id, IdOf,           \* [Line -> Id]: its identifier
    HeadLine,           \* lines that match the head_regexp
    Bad,                \* lines that cannot be decoded
    NoLBKey,            \* lines without lb_key
    Plain,              \* lines of a tag without concator, or without text or identifier
    ConcatMaxLen, BufSize, AsyncSize,
    None

Line == 1 .. NLine

ASSUME FluentdRecvAssumption ==
    /\ NLine \in Nat
    /\ ConnOf \in [Line -> Conn] /\ ForkOf \in [Line -> Fork] /\ IdOf \in [Line -> Id]
    \* a container has one connection, and lb_key goes with the identifier
    /\ \A i, j \in Line : IdOf[i] = IdOf[j] => ConnOf[i] = ConnOf[j] /\ ForkOf[i] = ForkOf[j]
    /\ HeadLine \cup Bad \cup NoLBKey \cup Plain \subseteq Line
    /\ {ConcatMaxLen, BufSize, AsyncSize} \subseteq Nat \ {0} /\ ConcatMaxLen > 1
    /\ None \notin [lines : Seq(Line), old : BOOLEAN]

VARIABLES
    incoming,           \* lines of each connection not yet read, taken in their order
    inChan,             \* of each concator
    concator,           \* pc, what it sends, and slots still to clean
    identifier2LastMsg, \* of each concator: the pending entry, and whether it is old
    asyncOutChan,
    emitted,            \* history: messages taken from asyncOutChan
    dropped,            \* history: lines that went back into the pool undecoded
    aged                \* history: last lines of entries that ConcatorWait ran out for

vars == <<incoming, inChan, concator, identifier2LastMsg, asyncOutChan, emitted,
          dropped, aged>>

Entry == Seq(Line) \ {<<>>}
Slot == [lines : Entry, old : BOOLEAN]

(* Types: bounded channels, and entries of lines.                           *)
TypeOK ==
    /\ incoming \in [Conn -> SUBSET Line]
    /\ inChan \in [Fork -> Seq(Line)]
    /\ \A k \in Fork : Len(inChan[k]) <= BufSize
    /\ concator \in [Fork -> [pc : {"select", "send", "clean"},
                              msg : Seq(Line), todo : SUBSET Id]]
    /\ identifier2LastMsg \in [Fork -> [Id -> Slot \cup {None}]]
    /\ asyncOutChan \in Seq(Entry) /\ Len(asyncOutChan) <= AsyncSize
    /\ emitted \in Seq(Entry)
    /\ dropped \subseteq Line /\ aged \subseteq Line

Init ==
    /\ incoming = [c \in Conn |-> {l \in Line : ConnOf[l] = c}]
    /\ inChan = [k \in Fork |-> <<>>]
    /\ concator = [k \in Fork |-> [pc |-> "select", msg |-> <<>>, todo |-> {}]]
    /\ identifier2LastMsg = [k \in Fork |-> [i \in Id |-> None]]
    /\ asyncOutChan = <<>> /\ emitted = <<>> /\ dropped = {} /\ aged = {}

-----------------------------------------------------------------------------
(* SendMsg.                                                                 *)
SendMsg(m) ==
    /\ Len(asyncOutChan) < AsyncSize
    /\ asyncOutChan' = Append(asyncOutChan, m)

(* decodeMsg and ProcessMsg, one line.                                      *)
Next1(c) == Min(incoming[c])
Read(c) == incoming[c] # {} /\ incoming' = [incoming EXCEPT ![c] = @ \ {Next1(c)}]

Drop(c) ==
    /\ Read(c)
    /\ Next1(c) \in Bad
    /\ dropped' = dropped \cup {Next1(c)}
    /\ UNCHANGED <<inChan, concator, identifier2LastMsg, asyncOutChan, emitted, aged>>

(* Slip: the concators take lines in turn.                                  *)
ProcessInTurn(c) ==
    /\ Read(c)
    /\ Next1(c) \notin Bad \cup NoLBKey
    /\ \E k \in Fork :
          /\ Len(inChan[k]) < BufSize
          /\ inChan' = [inChan EXCEPT ![k] = Append(@, Next1(c))]
    /\ UNCHANGED <<concator, identifier2LastMsg, asyncOutChan, emitted, dropped, aged>>

Process(c) ==
    /\ Read(c)
    /\ Next1(c) \notin Bad
    /\ Cardinality(Fork) = 1 \/ Next1(c) \notin NoLBKey
    /\ LET k == ForkOf[Next1(c)]
       IN  /\ Len(inChan[k]) < BufSize
           /\ inChan' = [inChan EXCEPT ![k] = Append(@, Next1(c))]
    /\ UNCHANGED <<concator, identifier2LastMsg, asyncOutChan, emitted, dropped, aged>>

(* Without an lb_key the connection sends the line on itself.               *)
ProcessDirectly(c) ==
    /\ Read(c)
    /\ Cardinality(Fork) > 1 /\ Next1(c) \in NoLBKey \ Bad
    /\ SendMsg(<<Next1(c)>>)
    /\ UNCHANGED <<inChan, concator, identifier2LastMsg, emitted, dropped, aged>>

-----------------------------------------------------------------------------
(* runConcator.  What it does to its own map is one step with the receive.  *)
At(k, pc) == concator[k].pc = pc
Goto(k, pc, msg, todo) ==
    concator' = [concator EXCEPT ![k] = [pc |-> pc, msg |-> msg, todo |-> todo]]
Pending(k, i) == identifier2LastMsg[k][i]
Keep(k, i, lines) ==
    identifier2LastMsg' =
        [identifier2LastMsg EXCEPT ![k][i] = [lines |-> lines, old |-> FALSE]]
Forget(k, i) == identifier2LastMsg' = [identifier2LastMsg EXCEPT ![k][i] = None]

(* A line for which there is nothing to wait.                               *)
PassOn(k, l) ==
    /\ l \in Plain \/ (Pending(k, IdOf[l]) = None /\ l \notin HeadLine)
    /\ Goto(k, "send", <<l>>, {})
    /\ UNCHANGED identifier2LastMsg

NewIdentifier(k, l) ==
    /\ l \in HeadLine \ Plain /\ Pending(k, IdOf[l]) = None
    /\ Keep(k, IdOf[l], <<l>>)
    /\ UNCHANGED concator

(* Slip: only a late line pushes the entry out.                             *)
ReplacesOld(k, l) == Pending(k, IdOf[l]).old

Replaces(k, l) == l \in HeadLine \/ Pending(k, IdOf[l]).old

Replace(k, l) ==
    /\ l \notin Plain /\ Pending(k, IdOf[l]) # None
    /\ Replaces(k, l)
    /\ Goto(k, "send", Pending(k, IdOf[l]).lines, {})
    /\ Keep(k, IdOf[l], <<l>>)

(* Slip: the entry keeps the time of its first line.                        *)
ConcatKeepsTime(k, l) ==
    /\ l \notin Plain /\ Pending(k, IdOf[l]) # None
    /\ l \notin HeadLine
    /\ Len(Pending(k, IdOf[l]).lines) + 1 < ConcatMaxLen
    /\ identifier2LastMsg' = [identifier2LastMsg EXCEPT ![k][IdOf[l]].lines = Append(@, l)]
    /\ UNCHANGED concator

Concat(k, l) ==
    /\ l \notin Plain /\ Pending(k, IdOf[l]) # None
    /\ ~Replaces(k, l)
    /\ Len(Pending(k, IdOf[l]).lines) + 1 < ConcatMaxLen
    /\ Keep(k, IdOf[l], Append(Pending(k, IdOf[l]).lines, l))
    /\ UNCHANGED concator

(* Slip: the entry that is sent on stays pending.                           *)
ConcatTooLongKeeps(k, l) ==
    /\ l \notin Plain /\ Pending(k, IdOf[l]) # None
    /\ ~Replaces(k, l)
    /\ Len(Pending(k, IdOf[l]).lines) + 1 >= ConcatMaxLen
    /\ Keep(k, IdOf[l], Append(Pending(k, IdOf[l]).lines, l))
    /\ Goto(k, "send", Append(Pending(k, IdOf[l]).lines, l), {})

ConcatTooLong(k, l) ==
    /\ l \notin Plain /\ Pending(k, IdOf[l]) # None
    /\ ~Replaces(k, l)
    /\ Len(Pending(k, IdOf[l]).lines) + 1 >= ConcatMaxLen
    /\ Forget(k, IdOf[l])
    /\ Goto(k, "send", Append(Pending(k, IdOf[l]).lines, l), {})

Take(k) ==
    /\ At(k, "select")
    /\ inChan[k] # <<>>
    /\ inChan' = [inChan EXCEPT ![k] = Tail(@)]
    /\ LET l == Head(inChan[k])
       IN  \/ PassOn(k, l) \/ NewIdentifier(k, l) \/ Replace(k, l)
           \/ Concat(k, l) \/ ConcatTooLong(k, l)
    /\ UNCHANGED <<incoming, asyncOutChan, emitted, dropped, aged>>

(* Slip: the send does not wait for room.                                   *)
SendOneMore(k) ==
    /\ At(k, "send")
    /\ Len(asyncOutChan) <= AsyncSize
    /\ asyncOutChan' = Append(asyncOutChan, concator[k].msg)
    /\ Goto(k, "select", <<>>, {})
    /\ UNCHANGED <<incoming, inChan, identifier2LastMsg, emitted, dropped, aged>>

Send(k) ==
    /\ At(k, "send")
    /\ SendMsg(concator[k].msg)
    /\ Goto(k, "select", <<>>, {})
    /\ UNCHANGED <<incoming, inChan, identifier2LastMsg, emitted, dropped, aged>>

(* cleanTicker: a walk over the map, sending as it goes.                    *)
Tick(k) ==
    /\ At(k, "select")
    /\ LET todo == {i \in Id : Pending(k, i) # None}
       IN  todo # {} /\ Goto(k, "clean", <<>>, todo)
    /\ UNCHANGED <<incoming, inChan, identifier2LastMsg, asyncOutChan, emitted,
                   dropped, aged>>

Visited(k, i) ==
    Goto(k, IF concator[k].todo = {i} THEN "select" ELSE "clean", <<>>,
         concator[k].todo \ {i})

(* Slip: the comparison is the wrong way round.                             *)
CleanYoung(k, i) ==
    /\ At(k, "clean") /\ i \in concator[k].todo
    /\ ~Pending(k, i).old
    /\ SendMsg(Pending(k, i).lines)
    /\ Forget(k, i)
    /\ Visited(k, i)
    /\ UNCHANGED <<incoming, inChan, emitted, dropped, aged>>

Clean(k, i) ==
    /\ At(k, "clean") /\ i \in concator[k].todo
    /\ Pending(k, i).old
    /\ SendMsg(Pending(k, i).lines)
    /\ Forget(k, i)
    /\ Visited(k, i)
    /\ UNCHANGED <<incoming, inChan, emitted, dropped, aged>>

SkipYoung(k, i) ==
    /\ At(k, "clean") /\ i \in concator[k].todo
    /\ ~Pending(k, i).old
    /\ Visited(k, i)
    /\ UNCHANGED <<incoming, inChan, identifier2LastMsg, asyncOutChan, emitted,
                   dropped, aged>>

-----------------------------------------------------------------------------
(* ConcatorWait runs out for an entry.                                      *)
Elapse(k, i) ==
    /\ Pending(k, i) # None /\ ~Pending(k, i).old
    /\ identifier2LastMsg' = [identifier2LastMsg EXCEPT ![k][i].old = TRUE]
    /\ aged' = aged \cup {Last(Pending(k, i).lines)}
    /\ UNCHANGED <<incoming, inChan, concator, asyncOutChan, emitted, dropped>>

(* The acceptor pipeline reads.                                             *)
Downstream ==
    /\ asyncOutChan # <<>>
    /\ emitted' = Append(emitted, Head(asyncOutChan))
    /\ asyncOutChan' = Tail(asyncOutChan)
    /\ UNCHANGED <<incoming, inChan, concator, identifier2LastMsg, dropped, aged>>

ConcatorStep(k) ==
    \/ Take(k) \/ Send(k)
    \/ \E i \in Id : Clean(k, i) \/ SkipYoung(k, i)

Next ==
    \/ \E c \in Conn : Drop(c) \/ Process(c) \/ ProcessDirectly(c)
    \/ \E k \in Fork : ConcatorStep(k) \/ Tick(k) \/ \E i \in Id : Elapse(k, i)
    \/ Downstream

Spec == Init /\ [][Next]_vars

(* Concators run, their tickers fire, time passes, and the acceptor         *)
(* pipeline reads.  Nothing obliges the upstream to send the next line.     *)
FairSpec ==
    /\ Spec
    /\ \A k \in Fork :
          /\ WF_vars(ConcatorStep(k))
          /\ WF_vars(Tick(k))
          /\ \A i \in Id : WF_vars(Elapse(k, i))
    /\ WF_vars(Downstream)

-----------------------------------------------------------------------------
Out == emitted \o asyncOutChan
Received == {l \in Line : l \notin incoming[ConnOf[l]]}
Lines(k, i) == IF Pending(k, i) = None THEN <<>> ELSE Pending(k, i).lines

PlacesIn(s, l) == {n \in DOMAIN s : s[n] = l}
OutPlaces(l) == {<<"out", None, n>> : n \in PlacesIn(FlattenSeq(Out), l)}
DroppedPlaces(l) == {<<"dropped", None, x>> : x \in {l} \cap dropped}
ChanPlaces(l) == UNION {{<<"chan", k, n>> : n \in PlacesIn(inChan[k], l)} : k \in Fork}
HandPlaces(l) == UNION {{<<"hand", k, n>> : n \in PlacesIn(concator[k].msg, l)} : k \in Fork}
PendingPlaces(l) ==
    UNION {{<<"pending", <<k, i>>, n>> : n \in PlacesIn(Lines(k, i), l)} : k \in Fork, i \in Id}
Places(l) ==
    OutPlaces(l) \cup DroppedPlaces(l) \cup ChanPlaces(l) \cup HandPlaces(l) \cup PendingPlaces(l)

(* A line that was received is in one place: on its way to a concator, in   *)
(* its hands, pending, in one message that leaves, or dropped as garbage.   *)
LineOnce == \A l \in Received : \E p \in Places(l) : Places(l) = {p}

(* The lines that a concator may join: a tag with a concator, and with one  *)
(* concator or an lb_key to choose it by.                                   *)
Joinable(l) ==
    /\ l \notin Bad \cup Plain
    /\ ~(Cardinality(Fork) > 1 /\ l \in NoLBKey)

(* The lines of a container leave in the order they were sent.              *)
InOrder ==
    LET s == FlattenSeq(Out)
    IN  \A a, b \in DOMAIN s :
            a < b /\ IdOf[s[a]] = IdOf[s[b]] /\ Joinable(s[a]) /\ Joinable(s[b])
                => s[a] < s[b]

(* docs/README_cn.md: a log that was split is one message again.  No        *)
(* message holds the lines of two containers or the head of a second entry. *)
OneEntry ==
    \A m \in ToSet(Out) : \A n \in 2 .. Len(m) :
        IdOf[m[n]] = IdOf[m[1]] /\ m[n] \notin HeadLine

(* And an entry is cut only where the next line was late or the text was    *)
(* too long: if a message begins with a line that is no head, the message   *)
(* with the line before it, if that began an entry, was old or full.        *)
CutForAReason ==
    \A m, n \in ToSet(Out) :
        LET a == Last(m)
            b == n[1]
            between == {l \in Line : IdOf[l] = IdOf[a] /\ a < l /\ l < b /\ Joinable(l)}
        IN  /\ Joinable(a) /\ Joinable(b) /\ IdOf[a] = IdOf[b] /\ a < b
            /\ between = {} /\ b \notin HeadLine /\ m[1] \in HeadLine
            => a \in aged \/ Len(m) >= ConcatMaxLen

(* Every line that was received leaves, also the last of its container.     *)
EveryLineLeaves ==
    \A l \in Line \ Bad : (l \in Received) ~> (\E m \in ToSet(emitted) : l \in ToSet(m))
=============================================================================
