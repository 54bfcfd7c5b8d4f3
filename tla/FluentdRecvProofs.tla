------------------------- MODULE FluentdRecvProofs -------------------------
(***************************************************************************)
(* Proofs about FluentdRecv: a line that was received is in one place, the  *)
(* lines of a container leave in order and as whole entries, and an entry   *)
(* is cut only where the next line was late or the text too long.           *)
(***************************************************************************)
EXTENDS FluentdRecv, SeqLemmas

-----------------------------------------------------------------------------
(* What the order of lines means, whatever the state is.                    *)

(* n may come after m.                                                      *)
Follows(n, m) ==
    /\ n # m
    /\ IdOf[n] = IdOf[m] /\ Joinable(n) /\ Joinable(m) => m < n

Before(M, N) == \A m \in M, n \in N : Follows(n, m)
Ordered(s) == \A a, b \in 1 .. Len(s) : a < b => Follows(s[b], s[a])

IsEntry(m) == \A n \in 2 .. Len(m) : IdOf[m[n]] = IdOf[m[1]] /\ m[n] \notin HeadLine

(* The next line of the container of a, if one comes, begins an entry.      *)
NextIsHead(a) ==
    \E l \in HeadLine :
        /\ Joinable(l) /\ IdOf[l] = IdOf[a] /\ a < l
        /\ \A x \in Line : Joinable(x) /\ IdOf[x] = IdOf[a] /\ a < x => l <= x

-----------------------------------------------------------------------------
(* The lines of a concator, in a state in which G left: h in its hands, p   *)
(* pending, of each identifier, and c in its channel.                       *)
Waiting(p) == UNION {ToSet(p[i]) : i \in Id}
Inside(h, p, c) == ToSet(h) \cup Waiting(p) \cup ToSet(c)

LinesTyped(k, h, p, c) ==
    /\ h \in Seq(Line) /\ p \in [Id -> Seq(Line)] /\ c \in Seq(Line)
    /\ \A l \in Inside(h, p, c) : ForkOf[l] = k
    /\ \A l \in ToSet(c) : l \notin Plain => Joinable(l)
    /\ \A i \in Id : \A l \in ToSet(p[i]) : IdOf[l] = i /\ Joinable(l)

LinesOrdered(G, h, p, c) ==
    /\ Ordered(h) /\ Ordered(c) /\ \A i \in Id : Ordered(p[i])
    /\ Before(G, Inside(h, p, c))
    /\ Before(ToSet(h), Waiting(p) \cup ToSet(c))
    /\ Before(Waiting(p), ToSet(c))

EntriesOK(h, p) == IsEntry(h) /\ \A i \in Id : IsEntry(p[i])

LinesOK(k, G, h, p, c) ==
    LinesTyped(k, h, p, c) /\ LinesOrdered(G, h, p, c) /\ EntriesOK(h, p)

-----------------------------------------------------------------------------
(* The inductive invariant.                                                 *)
Text == FlattenSeq(Out)
Gone == ToSet(Text)
Hand(k) == concator[k].msg
PendingOf(k) == [i \in Id |-> Lines(k, i)]
InsideOf(k) == Inside(Hand(k), PendingOf(k), inChan[k])

(* The local variables of a concator agree with its map.                    *)
LocalsInv ==
    \A k \in Fork :
        /\ At(k, "send") <=> Hand(k) # <<>>
        /\ concator[k].todo \subseteq {i \in Id : Pending(k, i) # None}
        /\ concator[k].todo # {} <=> At(k, "clean")

ForksInv == \A k \in Fork : LinesOK(k, Gone, Hand(k), PendingOf(k), inChan[k])

OutInv ==
    /\ Ordered(Text)
    /\ dropped \subseteq Bad /\ Gone \cap Bad = {} /\ \A k \in Fork : InsideOf(k) \cap Bad = {}
    /\ \A m \in ToSet(Out) : IsEntry(m)

(* A connection is read in order, and what was read is somewhere.           *)
ReadInv ==
    /\ \A c \in Conn : \A l \in incoming[c] : ConnOf[l] = c
    /\ \A x \in Received : \A l \in incoming[ConnOf[x]] : x < l

KeptInv == Received = dropped \cup Gone \cup UNION {InsideOf(k) : k \in Fork}

AgedInv ==
    \A k \in Fork, i \in Id :
        Pending(k, i) # None /\ Pending(k, i).old => Last(Lines(k, i)) \in aged

(* Why the entry m is not longer.                                           *)
CutOK(m) ==
    m[1] \in HeadLine /\ Joinable(Last(m))
        => Last(m) \in aged \/ Len(m) >= ConcatMaxLen \/ NextIsHead(Last(m))

CutInv ==
    /\ \A m \in ToSet(Out) : CutOK(m)
    /\ \A k \in Fork : At(k, "send") => CutOK(Hand(k))

IInv ==
    TypeOK /\ LocalsInv /\ ForksInv /\ OutInv /\ ReadInv /\ KeptInv /\ AgedInv /\ CutInv

-----------------------------------------------------------------------------
(* Lemmas about the order.                                                  *)

LEMMA LineIs == Line \subseteq Nat
BY FluentdRecvAssumption DEF Line

(* Lines of different containers or concators come in any order.            *)
LEMMA Apart ==
    ASSUME NEW l \in Line, NEW m \in Line, IdOf[l] # IdOf[m] \/ ForkOf[l] # ForkOf[m]
    PROVE  Follows(l, m)
BY FluentdRecvAssumption DEF Follows

(* A line that no concator joins comes anywhere but twice.                  *)
LEMMA FreeLine ==
    ASSUME NEW l, NEW m, l # m, ~Joinable(l) \/ ~Joinable(m)
    PROVE  Follows(l, m)
BY DEF Follows

LEMMA OrderedNone == Ordered(<<>>) /\ IsEntry(<<>>) /\ <<>> \in Seq(Line) /\ ToSet(<<>>) = {}
<1>1. <<>> \in Seq(Line) /\ ToSet(<<>>) = {} /\ Len(<<>>) = 0
  BY NewChan
<1>2. QED
  BY <1>1 DEF Ordered, IsEntry

(* One line more.                                                           *)
LEMMA OrderedAdd ==
    ASSUME NEW s \in Seq(Line), NEW e \in Line, Ordered(s), Before(ToSet(s), {e})
    PROVE  Ordered(Append(s, e))
<1> DEFINE t == Append(s, e)
<1>1. /\ Len(s) \in Nat /\ Len(t) = Len(s) + 1
      /\ \A a \in 1 .. Len(s) : t[a] = s[a] /\ t[a] \in ToSet(s)
      /\ t[Len(s) + 1] = e
  BY AppendProperties, InSeq
<1>2. ASSUME NEW a \in 1 .. Len(t), NEW b \in 1 .. Len(t), a < b
      PROVE  Follows(t[b], t[a])
  <2> HIDE DEF t
  <2>1. a \in 1 .. Len(s)
    BY <1>1, <1>2
  <2>2. CASE b \in 1 .. Len(s)
    BY <1>1, <1>2, <2>1, <2>2 DEF Ordered
  <2>3. CASE b = Len(s) + 1
    BY <1>1, <2>1, <2>3 DEF Before
  <2>4. QED
    BY <1>1, <2>2, <2>3
<1>3. QED
  BY <1>2 DEF Ordered

(* One sequence of lines after another.                                     *)
LEMMA OrderedJoin ==
    ASSUME NEW s \in Seq(Line), NEW t \in Seq(Line), Ordered(s), Ordered(t),
           Before(ToSet(s), ToSet(t))
    PROVE  Ordered(s \o t)
<1> DEFINE u == s \o t
<1>1. /\ Len(s) \in Nat /\ Len(t) \in Nat /\ Len(u) = Len(s) + Len(t)
      /\ \A a \in 1 .. Len(s) : u[a] = s[a] /\ s[a] \in ToSet(s)
      /\ \A a \in (Len(s) + 1) .. (Len(s) + Len(t)) :
            /\ a - Len(s) \in 1 .. Len(t) /\ u[a] = t[a - Len(s)]
            /\ t[a - Len(s)] \in ToSet(t)
  BY ConcatTo
<1>2. ASSUME NEW a \in 1 .. Len(u), NEW b \in 1 .. Len(u), a < b
      PROVE  Follows(u[b], u[a])
  <2> HIDE DEF u
  <2>1. CASE b \in 1 .. Len(s)
    <3>1. a \in 1 .. Len(s)
      BY <1>1, <1>2, <2>1
    <3>2. QED
      BY <1>1, <1>2, <2>1, <3>1 DEF Ordered
  <2>2. CASE a \in 1 .. Len(s) /\ b \notin 1 .. Len(s)
    <3>1. b \in (Len(s) + 1) .. (Len(s) + Len(t))
      BY <1>1, <2>2
    <3>2. QED
      BY <1>1, <2>2, <3>1 DEF Before
  <2>3. CASE a \notin 1 .. Len(s)
    <3>1. /\ a \in (Len(s) + 1) .. (Len(s) + Len(t))
          /\ b \in (Len(s) + 1) .. (Len(s) + Len(t))
          /\ a - Len(s) < b - Len(s)
      BY <1>1, <1>2, <2>3
    <3>2. QED
      BY <1>1, <3>1 DEF Ordered
  <2>4. QED
    BY <2>1, <2>2, <2>3
<1>3. QED
  BY <1>2 DEF Ordered

(* The oldest line taken from the front.                                    *)
LEMMA OrderedTail ==
    ASSUME NEW s \in Seq(Line), s # <<>>, Ordered(s)
    PROVE  Ordered(Tail(s)) /\ Before({Head(s)}, ToSet(Tail(s)))
<1>1. /\ Tail(s) \in Seq(Line) /\ Len(s) \in Nat \ {0} /\ Len(Tail(s)) = Len(s) - 1
      /\ Head(s) = s[1]
      /\ \A a \in 1 .. Len(Tail(s)) : Tail(s)[a] = s[a + 1]
  BY HeadTailProperties, LenProperties, EmptySeq
<1>2. \A a \in 1 .. Len(Tail(s)) : a \in Nat /\ a + 1 \in 1 .. Len(s) /\ 1 < a + 1
  BY <1>1
<1>3. 1 \in 1 .. Len(s)
  BY <1>1
<1>4. Before({Head(s)}, ToSet(Tail(s)))
  <2>1. \A x \in ToSet(Tail(s)) : \E a \in 1 .. Len(Tail(s)) : x = Tail(s)[a]
    <3> DEFINE t == Tail(s)
    <3>1. t \in Seq(Line)
      BY <1>1
    <3> HIDE DEF t
    <3>2. \A x \in ToSet(t) : \E a \in 1 .. Len(t) : x = t[a]
      BY <3>1, InSeq
    <3>3. QED
      BY <3>2 DEF t
  <2>2. QED
    BY <1>1, <1>2, <1>3, <2>1 DEF Ordered, Before
<1>5. \A a, b \in 1 .. Len(Tail(s)) : a < b => Follows(Tail(s)[b], Tail(s)[a])
  <2>1. ASSUME NEW a \in 1 .. Len(Tail(s)), NEW b \in 1 .. Len(Tail(s)), a < b
        PROVE  Follows(Tail(s)[b], Tail(s)[a])
    <3>1. a + 1 < b + 1
      BY <1>2, <2>1
    <3>2. QED
      BY <1>1, <1>2, <3>1 DEF Ordered
  <2>2. QED
    BY <2>1
<1>6. QED
  BY <1>4, <1>5 DEF Ordered

LEMMA OrderedOne ==
    ASSUME NEW e \in Line
    PROVE  /\ <<e>> \in Seq(Line) /\ <<e>> # <<>> /\ ToSet(<<e>>) = {e} /\ Len(<<e>>) = 1
           /\ Ordered(<<e>>) /\ IsEntry(<<e>>) /\ Append(<<>>, e) = <<e>>
           /\ <<e>>[1] = e /\ Last(<<e>>) = e
<1>1. <<e>> \in Seq(Line) /\ Len(<<e>>) = 1 /\ <<e>>[1] = e /\ <<e>> # <<>>
  OBVIOUS
<1>2. ToSet(<<e>>) = {e}
  <2>1. DOMAIN <<e>> = {1}
    OBVIOUS
  <2>2. QED
    BY <1>1, <2>1 DEF ToSet
<1>3. Append(<<>>, e) = <<e>>
  OBVIOUS
<1>4. QED
  BY <1>1, <1>2, <1>3 DEF Ordered, IsEntry, Last

-----------------------------------------------------------------------------
(* What the steps of a concator do to its lines.                            *)

(* The lines h, p and c become hh, pp and cc: none is lost, and all is well. *)
Moves(k, G, h, p, c, hh, pp, cc) ==
    LinesOK(k, G, hh, pp, cc) /\ Inside(hh, pp, cc) = Inside(h, p, c)

(* The lines of h leave.                                                    *)
Left(k, G, h, p, c) ==
    /\ LinesOK(k, G \cup ToSet(h), <<>>, p, c)
    /\ Inside(h, p, c) = ToSet(h) \cup Inside(<<>>, p, c)

(* The line l comes into the channel.                                       *)
Comes(k, G, h, p, c, l) ==
    /\ LinesOK(k, G, h, p, Append(c, l))
    /\ Inside(h, p, Append(c, l)) = Inside(h, p, c) \cup {l}

LEMMA InsideIs ==
    ASSUME NEW h, NEW p, NEW c
    PROVE  /\ ToSet(h) \subseteq Inside(h, p, c) /\ Waiting(p) \subseteq Inside(h, p, c)
           /\ ToSet(c) \subseteq Inside(h, p, c)
           /\ \A i \in Id : ToSet(p[i]) \subseteq Waiting(p)
BY DEF Inside, Waiting

LEMMA InsideTyped ==
    ASSUME NEW k, NEW h, NEW p, NEW c, LinesTyped(k, h, p, c)
    PROVE  Inside(h, p, c) \subseteq Line
<1>1. ToSet(h) \subseteq Line /\ ToSet(c) \subseteq Line
  BY InSeq DEF LinesTyped
<1>2. \A i \in Id : p[i] \in Seq(Line)
  BY DEF LinesTyped
<1>3. \A i \in Id : ToSet(p[i]) \subseteq Line
  BY <1>2, InSeq
<1>4. QED
  BY <1>1, <1>3 DEF Inside, Waiting

(* One entry of the map set to s.                                           *)
With(p, i, s) == [p EXCEPT ![i] = s]

LEMMA PendingWith ==
    ASSUME NEW p \in [Id -> Seq(Line)], NEW i \in Id, NEW s \in Seq(Line)
    PROVE  /\ With(p, i, s) \in [Id -> Seq(Line)] /\ With(p, i, s)[i] = s
           /\ \A j \in Id : j # i => With(p, i, s)[j] = p[j]
           /\ Waiting(With(p, i, s)) \subseteq Waiting(p) \cup ToSet(s)
           /\ \A x \in Waiting(With(p, i, s)) \ ToSet(s) :
                 \E j \in Id : j # i /\ x \in ToSet(p[j])
           /\ ToSet(s) \subseteq Waiting(With(p, i, s))
           /\ Waiting(p) \subseteq Waiting(With(p, i, s)) \cup ToSet(p[i])
<1> DEFINE q == With(p, i, s)
<1>1. q \in [Id -> Seq(Line)] /\ q[i] = s /\ \A j \in Id : j # i => q[j] = p[j]
  BY DEF With
<1> HIDE DEF q
<1>2. \A x \in Waiting(q) \ ToSet(s) : \E j \in Id : j # i /\ x \in ToSet(p[j])
  BY <1>1 DEF Waiting
<1>3. Waiting(q) \subseteq Waiting(p) \cup ToSet(s)
  BY <1>2 DEF Waiting
<1>4. Waiting(p) \subseteq Waiting(q) \cup ToSet(p[i])
  BY <1>1 DEF Waiting
<1>5. ToSet(s) \subseteq Waiting(q)
  BY <1>1 DEF Waiting
<1>6. QED
  BY <1>1, <1>2, <1>3, <1>4, <1>5 DEF q

(* A line comes into the channel.                                           *)
LEMMA LineComes ==
    ASSUME NEW k, NEW G, NEW h, NEW p, NEW c, LinesOK(k, G, h, p, c),
           NEW l \in Line, ForkOf[l] = k, l \notin Plain => Joinable(l),
           Before(G \cup Inside(h, p, c), {l})
    PROVE  Comes(k, G, h, p, c, l)
<1> DEFINE d == Append(c, l)
<1>1. /\ c \in Seq(Line) /\ h \in Seq(Line) /\ p \in [Id -> Seq(Line)]
      /\ d \in Seq(Line) /\ ToSet(d) = ToSet(c) \cup {l}
  BY SendTo DEF LinesOK, LinesTyped
<1>8. Ordered(c) /\ Before(ToSet(c), {l}) => Ordered(d)
  BY <1>1, OrderedAdd
<1> HIDE DEF d
<1>2. Inside(h, p, d) = Inside(h, p, c) \cup {l}
  BY <1>1 DEF Inside
<1>3. LinesTyped(k, h, p, d)
  BY <1>1, <1>2 DEF LinesOK, LinesTyped
<1>4. Before(ToSet(c), {l}) /\ Before(ToSet(h), {l}) /\ Before(Waiting(p), {l}) /\ Before(G, {l})
  BY InsideIs DEF Before
<1>5. Ordered(d)
  BY <1>4, <1>8 DEF LinesOK, LinesOrdered
<1>6. LinesOrdered(G, h, p, d)
  <2>1. Before(G, Inside(h, p, d))
    BY <1>2, <1>4 DEF LinesOK, LinesOrdered, Before
  <2>2. Before(ToSet(h), Waiting(p) \cup ToSet(d))
    BY <1>1, <1>4 DEF LinesOK, LinesOrdered, Before
  <2>3. Before(Waiting(p), ToSet(d))
    BY <1>1, <1>4 DEF LinesOK, LinesOrdered, Before
  <2>4. QED
    BY <1>5, <2>1, <2>2, <2>3 DEF LinesOK, LinesOrdered
<1>7. QED
  BY <1>2, <1>3, <1>6 DEF Comes, LinesOK, d

(* The oldest line of the channel.                                          *)
LEMMA Oldest ==
    ASSUME NEW k, NEW G, NEW h, NEW p, NEW c, LinesOK(k, G, h, p, c), c # <<>>
    PROVE  /\ Head(c) \in Line /\ Tail(c) \in Seq(Line)
           /\ ToSet(c) = {Head(c)} \cup ToSet(Tail(c))
           /\ ForkOf[Head(c)] = k
           /\ Head(c) \notin Plain => Joinable(Head(c))
           /\ Ordered(Tail(c)) /\ Before({Head(c)}, ToSet(Tail(c)))
           /\ Before(G, {Head(c)}) /\ Before(ToSet(h), {Head(c)})
           /\ Before(Waiting(p), {Head(c)})
<1>1. /\ Head(c) \in Line /\ Tail(c) \in Seq(Line)
      /\ ToSet(c) = {Head(c)} \cup ToSet(Tail(c))
  BY ReceiveFrom DEF LinesOK, LinesTyped
<1>2. Ordered(Tail(c)) /\ Before({Head(c)}, ToSet(Tail(c)))
  BY OrderedTail DEF LinesOK, LinesTyped, LinesOrdered
<1>3. Head(c) \in ToSet(c) /\ Head(c) \in Inside(h, p, c)
  BY <1>1 DEF Inside
<1>4. ForkOf[Head(c)] = k /\ (Head(c) \notin Plain => Joinable(Head(c)))
  BY <1>3 DEF LinesOK, LinesTyped
<1>5. Before(G, {Head(c)}) /\ Before(ToSet(h), {Head(c)}) /\ Before(Waiting(p), {Head(c)})
  BY <1>3 DEF LinesOK, LinesOrdered, Before
<1>6. QED
  BY <1>1, <1>2, <1>4, <1>5

(* It goes by itself ...                                                    *)
LEMMA LinePasses ==
    ASSUME NEW k, NEW G, NEW g, NEW p, NEW c, LinesOK(k, G, g, p, c), ToSet(g) = {}, c # <<>>,
           IdOf[Head(c)] \in Id, Head(c) \in Plain \/ p[IdOf[Head(c)]] = <<>>
    PROVE  Moves(k, G, g, p, c, <<Head(c)>>, p, Tail(c))
<1> DEFINE l == Head(c)
           d == Tail(c)
           h == <<l>>
<1>a. /\ l = Head(c) /\ d = Tail(c) /\ h = <<l>>
      /\ IdOf[l] \in Id /\ (l \in Plain \/ p[IdOf[l]] = <<>>)
  OBVIOUS
<1> HIDE DEF l, d, h
<1> USE <1>a
<1>1. /\ l \in Line /\ d \in Seq(Line) /\ ToSet(c) = {l} \cup ToSet(d)
      /\ ForkOf[l] = k /\ (l \notin Plain => Joinable(l))
      /\ Ordered(d) /\ Before({l}, ToSet(d)) /\ Before(Waiting(p), {l})
  <2>1. Head(c) \in Line /\ Tail(c) \in Seq(Line)
    BY Oldest
  <2>2. ToSet(c) = {Head(c)} \cup ToSet(Tail(c))
    BY ReceiveFrom DEF LinesOK, LinesTyped
  <2>3. ForkOf[Head(c)] = k
    BY Oldest, ZenonT(60)
  <2>4. Head(c) \notin Plain => Joinable(Head(c))
    BY Oldest
  <2>5. Ordered(Tail(c)) /\ Before({Head(c)}, ToSet(Tail(c)))
    BY Oldest
  <2>6. Before(Waiting(p), {Head(c)})
    BY Oldest
  <2>7. QED
    BY <2>1, <2>2, <2>3, <2>4, <2>5, <2>6
<1>2. h \in Seq(Line) /\ ToSet(h) = {l} /\ Ordered(h) /\ IsEntry(h)
  BY <1>1, OrderedOne
<1>3. Inside(h, p, d) = Inside(g, p, c)
  BY <1>1, <1>2, OrderedNone DEF Inside
<1>4. LinesTyped(k, h, p, d)
  BY <1>1, <1>2, <1>3 DEF LinesOK, LinesTyped
<1>5. Before({l}, Waiting(p))
  <2>1. ASSUME NEW j \in Id, NEW x \in ToSet(p[j]) PROVE Follows(x, l)
    <3>1. /\ x \in Line /\ IdOf[x] = j /\ Joinable(x) /\ x # l
      <4>1. x \in Waiting(p)
        BY DEF Waiting
      <4>2. x # l
        BY <1>1, <4>1 DEF Before, Follows
      <4>3. x \in Line
        BY <4>1, InsideIs, InsideTyped DEF LinesOK
      <4>4. QED
        BY <4>2, <4>3 DEF LinesOK, LinesTyped
    <3>2. CASE l \in Plain
      BY <3>1, <3>2, FreeLine DEF Joinable
    <3>3. CASE l \notin Plain
      <4>1. j # IdOf[l]
        BY <3>3, OrderedNone
      <4>2. QED
        BY <1>1, <3>1, <4>1, Apart
    <3>4. QED
      BY <3>2, <3>3
  <2>2. QED
    BY <2>1 DEF Before, Waiting
<1>6. LinesOrdered(G, h, p, d)
  <2>1. Before(G, Inside(h, p, d))
    BY <1>3 DEF LinesOK, LinesOrdered
  <2>2. Before(ToSet(h), Waiting(p) \cup ToSet(d))
    BY <1>1, <1>2, <1>5 DEF Before
  <2>3. Before(Waiting(p), ToSet(d))
    BY <1>1 DEF LinesOK, LinesOrdered, Before
  <2>4. QED
    BY <1>1, <1>2, <2>1, <2>2, <2>3 DEF LinesOK, LinesOrdered
<1>7. LinesOK(k, G, h, p, d) /\ Inside(h, p, d) = Inside(g, p, c)
  BY <1>2, <1>3, <1>4, <1>6 DEF LinesOK, EntriesOK
<1>8. QED
  BY <1>7 DEF l, d, h, Moves

(* ... or is added to the pending entry of its container.                   *)
LEMMA LineJoins ==
    ASSUME NEW k, NEW G, NEW h, NEW p, NEW c, LinesOK(k, G, h, p, c), c # <<>>,
           Head(c) \notin Plain, NEW i \in Id, i = IdOf[Head(c)],
           p[i] = <<>> \/ Head(c) \notin HeadLine
    PROVE  Moves(k, G, h, p, c, h, With(p, i, Append(p[i], Head(c))), Tail(c))
<1> DEFINE l == Head(c)
           d == Tail(c)
           q == With(p, i, Append(p[i], l))
<1>a. /\ l = Head(c) /\ d = Tail(c) /\ q = With(p, i, Append(p[i], l))
      /\ l \notin Plain /\ i = IdOf[l] /\ (p[i] = <<>> \/ l \notin HeadLine)
  OBVIOUS
<1> HIDE DEF l, d, q
<1> USE <1>a
<1>1. /\ l \in Line /\ d \in Seq(Line) /\ ToSet(c) = {l} \cup ToSet(d)
      /\ ForkOf[l] = k /\ Joinable(l)
      /\ Ordered(d) /\ Before({l}, ToSet(d)) /\ Before(Waiting(p), {l})
      /\ Before(G, {l}) /\ Before(ToSet(h), {l})
  BY Oldest, ZenonT(60)
<1>2. p \in [Id -> Seq(Line)] /\ p[i] \in Seq(Line) /\ h \in Seq(Line)
  BY DEF LinesOK, LinesTyped
<1> DEFINE s == Append(p[i], l)
<1>3. s \in Seq(Line) /\ ToSet(s) = ToSet(p[i]) \cup {l}
  BY <1>1, <1>2, SendTo
<1>4. /\ q \in [Id -> Seq(Line)] /\ q[i] = s
      /\ \A j \in Id : j # i => q[j] = p[j]
      /\ Waiting(q) = Waiting(p) \cup {l}
  <2>1. ToSet(p[i]) \subseteq Waiting(p)
    BY InsideIs
  <2>2. q = With(p, i, s)
    OBVIOUS
  <2> HIDE DEF s
  <2>3. With(p, i, s) \in [Id -> Seq(Line)]
    BY <1>2, <1>3, PendingWith
  <2>4. With(p, i, s)[i] = s
    BY <1>2, <1>3, PendingWith, SMTT(30)
  <2>5. \A j \in Id : j # i => With(p, i, s)[j] = p[j]
    BY <1>2 DEF With
  <2>6. Waiting(With(p, i, s)) \subseteq Waiting(p) \cup ToSet(s)
    BY <1>2, <1>3, PendingWith
  <2>7. /\ ToSet(s) \subseteq Waiting(With(p, i, s))
        /\ Waiting(p) \subseteq Waiting(With(p, i, s)) \cup ToSet(p[i])
    BY <1>2, <1>3, PendingWith
  <2>8. QED
    BY <1>3, <2>1, <2>2, <2>3, <2>4, <2>5, <2>6, <2>7
<1>5. Inside(h, q, d) = Inside(h, p, c)
  BY <1>1, <1>4 DEF Inside
<1>6. LinesTyped(k, h, q, d)
  <2> HIDE DEF s
  <2>1. \A x \in ToSet(d) : x \notin Plain => Joinable(x)
    BY <1>1 DEF LinesOK, LinesTyped
  <2>2. \A j \in Id : \A x \in ToSet(q[j]) : IdOf[x] = j /\ Joinable(x)
    <3>1. ASSUME NEW j \in Id, NEW x \in ToSet(q[j]) PROVE IdOf[x] = j /\ Joinable(x)
      <4>1. CASE j = i
        BY <1>1, <1>3, <1>4, <4>1 DEF LinesOK, LinesTyped
      <4>2. CASE j # i
        BY <1>4, <4>2 DEF LinesOK, LinesTyped
      <4>3. QED
        BY <4>1, <4>2
    <3>2. QED
      BY <3>1
  <2>3. QED
    BY <1>1, <1>2, <1>4, <1>5, <2>1, <2>2 DEF LinesOK, LinesTyped
<1>7. \A j \in Id : Ordered(q[j])
  <2>1. Before(ToSet(p[i]), {l})
    BY <1>1, InsideIs DEF Before
  <2>2. Ordered(s)
    BY <1>1, <1>2, <2>1, OrderedAdd DEF LinesOK, LinesOrdered
  <2>3. QED
    BY <1>4, <2>2 DEF LinesOK, LinesOrdered
<1>8. LinesOrdered(G, h, q, d)
  <2> HIDE DEF s
  <2>1. Before(G, Inside(h, q, d))
    BY <1>5 DEF LinesOK, LinesOrdered
  <2>2. Before(ToSet(h), Waiting(q) \cup ToSet(d))
    BY <1>1, <1>4 DEF LinesOK, LinesOrdered, Before
  <2>3. Before(Waiting(q), ToSet(d))
    BY <1>1, <1>4 DEF LinesOK, LinesOrdered, Before
  <2>4. QED
    BY <1>1, <1>7, <2>1, <2>2, <2>3 DEF LinesOK, LinesOrdered
<1>9. \A j \in Id : IsEntry(q[j])
  <2>1. IsEntry(s)
    <3>1. CASE p[i] = <<>>
      BY <1>1, <3>1, OrderedOne
    <3>2. CASE l \notin HeadLine
      <4>1. /\ Len(p[i]) \in Nat /\ Len(s) = Len(p[i]) + 1 /\ s[Len(p[i]) + 1] = l
            /\ \A n \in 1 .. Len(p[i]) : s[n] = p[i][n] /\ p[i][n] \in ToSet(p[i])
        BY <1>1, <1>2, AppendProperties, InSeq
      <4>2. \A n \in 1 .. Len(p[i]) : IdOf[s[n]] = i
        BY <4>1 DEF LinesOK, LinesTyped
      <4>3. ASSUME NEW n \in 2 .. Len(s) PROVE IdOf[s[n]] = IdOf[s[1]] /\ s[n] \notin HeadLine
        <5> HIDE DEF s
        <5>1. CASE n = Len(p[i]) + 1
          <6>1. 1 \in 1 .. Len(p[i])
            BY <4>1, <4>3, <5>1
          <6>2. QED
            BY <3>2, <4>1, <4>2, <5>1, <6>1
        <5>2. CASE n # Len(p[i]) + 1
          <6>1. n \in 2 .. Len(p[i]) /\ n \in 1 .. Len(p[i]) /\ 1 \in 1 .. Len(p[i])
            BY <4>1, <4>3, <5>2
          <6>2. p[i][n] \notin HeadLine
            BY <6>1 DEF LinesOK, EntriesOK, IsEntry
          <6>3. QED
            BY <4>1, <4>2, <6>1, <6>2
        <5>3. QED
          BY <5>1, <5>2
      <4>4. QED
        BY <4>3 DEF IsEntry
    <3>3. QED
      BY <3>1, <3>2
  <2>2. QED
    BY <1>4, <2>1 DEF LinesOK, EntriesOK
<1>10. LinesOK(k, G, h, q, d) /\ Inside(h, q, d) = Inside(h, p, c)
  BY <1>5, <1>6, <1>8, <1>9 DEF LinesOK, EntriesOK
<1>11. QED
  BY <1>10 DEF l, d, q, Moves

(* A pending entry is taken into the hands.                                 *)
LEMMA EntryLifts ==
    ASSUME NEW k, NEW G, NEW g, NEW p, NEW c, LinesOK(k, G, g, p, c), ToSet(g) = {},
           NEW i \in Id
    PROVE  Moves(k, G, g, p, c, p[i], With(p, i, <<>>), c)
<1> DEFINE h == p[i]
           q == With(p, i, <<>>)
<1>a. h = p[i] /\ q = With(p, i, <<>>)
  OBVIOUS
<1> HIDE DEF h, q
<1> USE <1>a
<1>1. p \in [Id -> Seq(Line)] /\ h \in Seq(Line) /\ c \in Seq(Line) /\ <<>> \in Seq(Line)
  BY OrderedNone DEF LinesOK, LinesTyped
<1>2. /\ q \in [Id -> Seq(Line)] /\ q[i] = <<>>
      /\ \A j \in Id : j # i => q[j] = p[j]
      /\ Waiting(q) \subseteq Waiting(p)
      /\ \A x \in Waiting(q) : \E j \in Id : j # i /\ x \in ToSet(p[j])
      /\ Waiting(p) \subseteq Waiting(q) \cup ToSet(h)
  <2>1. With(p, i, <<>>) \in [Id -> Seq(Line)]
    BY <1>1, PendingWith
  <2>2. With(p, i, <<>>)[i] = <<>>
    BY <1>1 DEF With
  <2>3. \A j \in Id : j # i => With(p, i, <<>>)[j] = p[j]
    BY <1>1 DEF With
  <2>4. Waiting(With(p, i, <<>>)) \subseteq Waiting(p) \cup ToSet(<<>>)
    BY <1>1, PendingWith
  <2>5. \A x \in Waiting(With(p, i, <<>>)) \ ToSet(<<>>) :
           \E j \in Id : j # i /\ x \in ToSet(p[j])
    BY <1>1, PendingWith
  <2>6. Waiting(p) \subseteq Waiting(With(p, i, <<>>)) \cup ToSet(p[i])
    BY <1>1, PendingWith
  <2>7. QED
    BY <2>1, <2>2, <2>3, <2>4, <2>5, <2>6, OrderedNone
<1>3. ToSet(h) \subseteq Waiting(p)
  BY InsideIs
<1>4. Inside(h, q, c) = Inside(g, p, c)
  BY <1>2, <1>3, OrderedNone DEF Inside
<1>5. LinesTyped(k, h, q, c)
  <2>1. \A j \in Id : \A x \in ToSet(q[j]) : IdOf[x] = j /\ Joinable(x)
    BY <1>2, OrderedNone DEF LinesOK, LinesTyped
  <2>2. QED
    BY <1>1, <1>2, <1>4, <2>1 DEF LinesOK, LinesTyped
<1>6. Before(ToSet(h), Waiting(q) \cup ToSet(c))
  <2>1. ASSUME NEW m \in ToSet(h), NEW n \in Waiting(q) PROVE Follows(n, m)
    <3>1. PICK j \in Id : j # i /\ n \in ToSet(p[j])
      BY <1>2, <2>1
    <3>2. m \in Line /\ n \in Line
      BY <1>2, <1>3, <2>1, InsideIs, InsideTyped DEF LinesOK
    <3>3. IdOf[m] = i /\ IdOf[n] = j
      BY <3>1 DEF LinesOK, LinesTyped
    <3>4. QED
      BY <3>1, <3>2, <3>3, Apart
  <2>2. Before(ToSet(h), ToSet(c))
    BY <1>3 DEF LinesOK, LinesOrdered, Before
  <2>3. QED
    BY <2>1, <2>2 DEF Before
<1>7. LinesOrdered(G, h, q, c)
  <2>1. Ordered(h) /\ \A j \in Id : Ordered(q[j])
    BY <1>2, OrderedNone DEF LinesOK, LinesOrdered
  <2>2. Before(Waiting(q), ToSet(c))
    BY <1>2 DEF LinesOK, LinesOrdered, Before
  <2>3. QED
    BY <1>4, <1>6, <2>1, <2>2 DEF LinesOK, LinesOrdered
<1>8. IsEntry(h) /\ \A j \in Id : IsEntry(q[j])
  BY <1>2, OrderedNone DEF LinesOK, EntriesOK
<1>9. LinesOK(k, G, h, q, c) /\ Inside(h, q, c) = Inside(g, p, c)
  BY <1>4, <1>5, <1>7, <1>8 DEF LinesOK, EntriesOK
<1>10. QED
  BY <1>9 DEF h, q, Moves

(* What is in the hands is sent.                                            *)
LEMMA HandSent ==
    ASSUME NEW k, NEW G, NEW h, NEW p, NEW c, LinesOK(k, G, h, p, c)
    PROVE  Left(k, G, h, p, c)
<1> DEFINE g == <<>>
           F == G \cup ToSet(h)
<1>a. g = <<>> /\ F = G \cup ToSet(h)
  OBVIOUS
<1> HIDE DEF g, F
<1> USE <1>a
<1>1. g \in Seq(Line) /\ ToSet(g) = {} /\ Ordered(g) /\ IsEntry(g)
  BY OrderedNone
<1>2. Inside(h, p, c) = ToSet(h) \cup Inside(g, p, c)
  BY <1>1 DEF Inside
<1>3. Inside(g, p, c) = Waiting(p) \cup ToSet(c)
  BY <1>1 DEF Inside
<1>4. LinesTyped(k, g, p, c)
  BY <1>1, <1>2 DEF LinesOK, LinesTyped
<1>5. LinesOrdered(F, g, p, c)
  <2>1. Before(F, Inside(g, p, c))
    BY <1>2, <1>3 DEF LinesOK, LinesOrdered, Before
  <2>2. QED
    BY <1>1, <2>1 DEF LinesOK, LinesOrdered, Before
<1>6. LinesOK(k, F, g, p, c) /\ Inside(h, p, c) = ToSet(h) \cup Inside(g, p, c)
  BY <1>1, <1>2, <1>4, <1>5 DEF LinesOK, EntriesOK
<1>7. QED
  BY <1>6 DEF g, F, Left

(* Lines leave from elsewhere.                                              *)
LEMMA OthersLeave ==
    ASSUME NEW k, NEW G, NEW h, NEW p, NEW c, LinesOK(k, G, h, p, c),
           NEW N, Before(N, Inside(h, p, c)), NEW F, F = G \cup N
    PROVE  LinesOK(k, F, h, p, c)
<1>1. Before(F, Inside(h, p, c))
  BY DEF LinesOK, LinesOrdered, Before
<1>2. QED
  BY <1>1 DEF LinesOK, LinesOrdered

-----------------------------------------------------------------------------
(* What the state is made of.                                               *)

LEMMA EntryIs ==
    ASSUME NEW m \in Entry
    PROVE  /\ m \in Seq(Line) /\ m # <<>> /\ Len(m) \in Nat \ {0} /\ 1 \in 1 .. Len(m)
           /\ m[1] \in ToSet(m) /\ Last(m) \in ToSet(m) /\ Last(m) = m[Len(m)]
           /\ ToSet(m) \subseteq Line
<1>1. m \in Seq(Line) /\ m # <<>> /\ Len(m) \in Nat \ {0}
  BY LenProperties, EmptySeq DEF Entry
<1>2. 1 \in 1 .. Len(m) /\ Len(m) \in 1 .. Len(m)
  BY <1>1
<1>3. ToSet(m) \subseteq Line /\ \A a \in 1 .. Len(m) : m[a] \in ToSet(m)
  BY <1>1, InSeq
<1>4. QED
  BY <1>1, <1>2, <1>3 DEF Last

LEMMA ForkTyped ==
    ASSUME TypeOK, NEW k \in Fork
    PROVE  /\ Hand(k) \in Seq(Line) /\ concator[k].todo \in SUBSET Id
           /\ concator[k].pc \in {"select", "send", "clean"}
           /\ inChan[k] \in Seq(Line)
           /\ PendingOf(k) \in [Id -> Seq(Line)]
           /\ \A i \in Id : /\ Pending(k, i) \in Slot \cup {None}
                            /\ Lines(k, i) = <<>> <=> Pending(k, i) = None
                            /\ PendingOf(k)[i] = Lines(k, i)
                            /\ Pending(k, i) # None => Lines(k, i) \in Entry
<1>1. /\ Hand(k) \in Seq(Line) /\ concator[k].todo \in SUBSET Id
      /\ concator[k].pc \in {"select", "send", "clean"}
      /\ inChan[k] \in Seq(Line)
  BY DEF TypeOK, Hand
<1>2. ASSUME NEW i \in Id
      PROVE  /\ Pending(k, i) \in Slot \cup {None}
             /\ Lines(k, i) = <<>> <=> Pending(k, i) = None
             /\ Lines(k, i) \in Seq(Line)
             /\ Pending(k, i) # None => Lines(k, i) \in Entry
  <2>1. Pending(k, i) \in Slot \cup {None}
    BY DEF TypeOK, Pending
  <2>2. CASE Pending(k, i) = None
    BY <2>2, OrderedNone DEF Lines
  <2>3. CASE Pending(k, i) # None
    <3>1. Lines(k, i) \in Entry
      BY <2>1, <2>3 DEF Lines, Slot
    <3>2. QED
      BY <2>1, <2>3, <3>1 DEF Entry
  <2>4. QED
    BY <2>1, <2>2, <2>3
<1>3. PendingOf(k) \in [Id -> Seq(Line)] /\ \A i \in Id : PendingOf(k)[i] = Lines(k, i)
  BY <1>2 DEF PendingOf
<1>4. QED
  BY <1>1, <1>2, <1>3

LEMMA OutTyped ==
    ASSUME TypeOK
    PROVE  Out \in Seq(Entry) /\ Out \in Seq(Seq(Line)) /\ Text \in Seq(Line) /\ Gone \subseteq Line
<1>1. Out \in Seq(Entry)
  BY ConcatProperties DEF TypeOK, Out
<1>2. Out \in Seq(Seq(Line))
  <2>1. Entry \subseteq Seq(Line)
    BY DEF Entry
  <2>2. QED
    BY <1>1, <2>1
<1>3. Text \in Seq(Line)
  BY <1>2, FlattenType DEF Text
<1>4. QED
  BY <1>1, <1>2, <1>3, InSeq DEF Gone

LEMMA PiecesTyped ==
    ASSUME TypeOK, NEW k \in Fork
    PROVE  InsideOf(k) \subseteq Line
<1>1. ToSet(Hand(k)) \subseteq Line /\ ToSet(inChan[k]) \subseteq Line
  BY ForkTyped, InSeq
<1>2. \A i \in Id : PendingOf(k)[i] \in Seq(Line)
  BY ForkTyped
<1>3. \A i \in Id : ToSet(PendingOf(k)[i]) \subseteq Line
  BY <1>2, InSeq
<1>4. QED
  BY <1>1, <1>3 DEF InsideOf, Inside, Waiting

-----------------------------------------------------------------------------
(* What the actions do to it.                                               *)

LEMMA GotoDoes ==
    ASSUME TypeOK, NEW k \in Fork, NEW pc \in {"select", "send", "clean"},
           NEW m \in Seq(Line), NEW todo \in SUBSET Id, Goto(k, pc, m, todo)
    PROVE  /\ concator' \in [Fork -> [pc : {"select", "send", "clean"},
                                     msg : Seq(Line), todo : SUBSET Id]]
           /\ concator'[k].pc = pc /\ Hand(k)' = m /\ concator'[k].todo = todo
           /\ \A j \in Fork : j # k => concator'[j] = concator[j] /\ Hand(j)' = Hand(j)
BY DEF TypeOK, Goto, Hand

LEMMA KeepDoes ==
    ASSUME TypeOK, NEW k \in Fork, NEW i \in Id, NEW m \in Entry, Keep(k, i, m)
    PROVE  /\ identifier2LastMsg' \in [Fork -> [Id -> Slot \cup {None}]]
           /\ Pending(k, i)' = [lines |-> m, old |-> FALSE] /\ Pending(k, i)' # None
           /\ Lines(k, i)' = m
           /\ PendingOf(k)' = With(PendingOf(k), i, m)
           /\ \A j \in Id : j # i => /\ Pending(k, j)' = Pending(k, j)
                                    /\ Lines(k, j)' = Lines(k, j)
           /\ \A j \in Fork : j # k =>
                 /\ \A n \in Id : /\ Pending(j, n)' = Pending(j, n)
                                  /\ Lines(j, n)' = Lines(j, n)
                 /\ PendingOf(j)' = PendingOf(j)
<1>1. [lines |-> m, old |-> FALSE] \in Slot /\ [lines |-> m, old |-> FALSE] # None
  <2>1. m \in Seq(Line)
    BY EntryIs
  <2>2. [lines |-> m, old |-> FALSE] \in [lines : Seq(Line), old : BOOLEAN]
    BY <2>1
  <2>3. QED
    BY <2>2, FluentdRecvAssumption DEF Slot
<1>2. /\ identifier2LastMsg' \in [Fork -> [Id -> Slot \cup {None}]]
      /\ Pending(k, i)' = [lines |-> m, old |-> FALSE]
      /\ \A j \in Id : j # i => Pending(k, j)' = Pending(k, j)
      /\ \A j \in Fork : j # k => \A n \in Id : Pending(j, n)' = Pending(j, n)
  BY <1>1 DEF TypeOK, Keep, Pending
<1>3. Lines(k, i)' = m
  BY <1>1, <1>2 DEF Lines
<1>4. \A j \in Id : j # i => Lines(k, j)' = Lines(k, j)
  BY <1>2 DEF Lines
<1>5. \A j \in Fork : j # k => \A n \in Id : Lines(j, n)' = Lines(j, n)
  BY <1>2 DEF Lines
<1>6. \A j \in Fork : j # k => PendingOf(j)' = PendingOf(j)
  BY <1>5 DEF PendingOf
<1>7. PendingOf(k)' = With(PendingOf(k), i, m)
  BY <1>3, <1>4 DEF PendingOf, With
<1>8. QED
  BY <1>1, <1>2, <1>3, <1>4, <1>5, <1>6, <1>7

LEMMA ForgetDoes ==
    ASSUME TypeOK, NEW k \in Fork, NEW i \in Id, Forget(k, i)
    PROVE  /\ identifier2LastMsg' \in [Fork -> [Id -> Slot \cup {None}]]
           /\ Pending(k, i)' = None /\ Lines(k, i)' = <<>>
           /\ PendingOf(k)' = With(PendingOf(k), i, <<>>)
           /\ \A j \in Id : j # i => /\ Pending(k, j)' = Pending(k, j)
                                    /\ Lines(k, j)' = Lines(k, j)
           /\ \A j \in Fork : j # k =>
                 /\ \A n \in Id : /\ Pending(j, n)' = Pending(j, n)
                                  /\ Lines(j, n)' = Lines(j, n)
                 /\ PendingOf(j)' = PendingOf(j)
<1>1. /\ identifier2LastMsg' \in [Fork -> [Id -> Slot \cup {None}]]
      /\ Pending(k, i)' = None
      /\ \A j \in Id : j # i => Pending(k, j)' = Pending(k, j)
      /\ \A j \in Fork : j # k => \A n \in Id : Pending(j, n)' = Pending(j, n)
  BY DEF TypeOK, Forget, Pending
<1>2. Lines(k, i)' = <<>>
  BY <1>1 DEF Lines
<1>3. \A j \in Id : j # i => Lines(k, j)' = Lines(k, j)
  BY <1>1 DEF Lines
<1>4. \A j \in Fork : j # k => \A n \in Id : Lines(j, n)' = Lines(j, n)
  BY <1>1 DEF Lines
<1>5. \A j \in Fork : j # k => PendingOf(j)' = PendingOf(j)
  BY <1>4 DEF PendingOf
<1>6. PendingOf(k)' = With(PendingOf(k), i, <<>>)
  BY <1>2, <1>3 DEF PendingOf, With
<1>7. QED
  BY <1>1, <1>2, <1>3, <1>4, <1>5, <1>6

(* One message more leaves.                                                 *)
LEMMA SendMsgDoes ==
    ASSUME TypeOK, NEW m \in Entry, SendMsg(m), emitted' = emitted
    PROVE  /\ asyncOutChan' \in Seq(Entry) /\ Len(asyncOutChan') <= AsyncSize
           /\ Text' = Text \o m /\ Gone' = Gone \cup ToSet(m)
           /\ ToSet(Out') = ToSet(Out) \cup {m}
<1>1. /\ asyncOutChan' \in Seq(Entry) /\ Len(asyncOutChan') <= AsyncSize
      /\ asyncOutChan' = Append(asyncOutChan, m)
  BY SendTo, FluentdRecvAssumption DEF TypeOK, SendMsg
<1>2. Out' = Append(Out, m)
  BY <1>1, AppendProperties, ConcatProperties DEF TypeOK, Out
<1>3. Out \in Seq(Entry) /\ Out \in Seq(Seq(Line)) /\ m \in Seq(Line) /\ Text \in Seq(Line)
  BY OutTyped, EntryIs
<1>4. Text' = Text \o m
  BY <1>2, <1>3, FlattenAppend DEF Text
<1>5. Gone' = Gone \cup ToSet(m)
  BY <1>3, <1>4, ConcatTo DEF Gone
<1>6. ToSet(Out') = ToSet(Out) \cup {m}
  BY <1>2, <1>3, SendTo
<1>7. QED
  BY <1>1, <1>4, <1>5, <1>6

(* A line is read.                                                          *)
LEMMA ReadDoes ==
    ASSUME TypeOK, ReadInv, NEW c \in Conn, Read(c), NEW l, l = Next1(c)
    PROVE  /\ l \in Line /\ ConnOf[l] = c /\ l \notin Received
           /\ incoming' \in [Conn -> SUBSET Line] /\ ReadInv'
           /\ Received' = Received \cup {l}
           /\ \A x \in Received : ConnOf[x] = c => x < l
<1>1. incoming[c] \subseteq Line /\ incoming[c] \subseteq Nat /\ incoming[c] # {}
  BY LineIs DEF TypeOK, Read
<1>2. l \in incoming[c] /\ \A y \in incoming[c] : l <= y
  <2>1. \E x \in incoming[c] : \A y \in incoming[c] : x <= y
    BY <1>1, LeastOf
  <2>2. QED
    BY <2>1 DEF Next1, Min
<1>3. l \in Line /\ ConnOf[l] = c
  BY <1>1, <1>2 DEF ReadInv
<1>4. /\ incoming' \in [Conn -> SUBSET Line] /\ incoming'[c] = incoming[c] \ {l}
      /\ \A d \in Conn : d # c => incoming'[d] = incoming[d]
  BY DEF TypeOK, Read
<1>5. \A x \in Line : ConnOf[x] \in Conn
  BY FluentdRecvAssumption
<1>6. l \notin Received
  BY <1>2, <1>3 DEF Received
<1>7. Received' = Received \cup {l}
  <2>1. ASSUME NEW x \in Line PROVE x \in Received' <=> x \in Received \cup {l}
    <3>1. CASE ConnOf[x] = c
      BY <1>3, <1>4, <3>1 DEF Received
    <3>2. CASE ConnOf[x] # c
      BY <1>3, <1>4, <1>5, <3>2 DEF Received
    <3>3. QED
      BY <3>1, <3>2
  <2>2. QED
    BY <1>3, <2>1 DEF Received
<1>8. \A x \in Received : ConnOf[x] = c => x < l
  BY <1>2, <1>3 DEF ReadInv
<1>9. \A d \in Conn : \A y \in incoming'[d] : ConnOf[y] = d
  BY <1>4 DEF ReadInv
<1>10. ASSUME NEW x \in Received', NEW y \in incoming'[ConnOf[x]] PROVE x < y
  <2>1. x \in Line
    BY DEF Received
  <2>2. CASE x = l
    <3>1. y \in incoming[c] /\ y # l
      BY <1>3, <1>4, <1>10, <2>2
    <3>2. y \in Nat /\ l \in Nat /\ l <= y
      BY <1>1, <1>2, <3>1
    <3>3. QED
      BY <2>2, <3>1, <3>2
  <2>3. CASE x # l
    <3>1. x \in Received
      BY <1>7, <2>3
    <3>2. y \in incoming[ConnOf[x]]
      BY <1>4, <1>5, <1>10, <2>1
    <3>3. QED
      BY <3>1, <3>2 DEF ReadInv
  <2>4. QED
    BY <2>2, <2>3
<1>11. ReadInv'
  BY <1>9, <1>10 DEF ReadInv
<1>12. QED
  BY <1>3, <1>4, <1>6, <1>7, <1>8, <1>11

(* Only incoming and aged matter to ReadInv, and to CutOK.                  *)
LEMMA ReadStays == ASSUME ReadInv, incoming' = incoming PROVE ReadInv' /\ Received' = Received
BY DEF ReadInv, Received

LEMMA CutStays ==
    ASSUME NEW m, CutOK(m), aged \subseteq aged'
    PROVE  CutOK(m)'
BY DEF CutOK

(* The lines stay with the same concators, and none leaves.                 *)
LEMMA NothingLeaves ==
    ASSUME OutInv, KeptInv, UNCHANGED <<incoming, dropped, asyncOutChan, emitted>>,
           \A k \in Fork : InsideOf(k)' = InsideOf(k)
    PROVE  /\ OutInv' /\ KeptInv'
           /\ Out' = Out /\ Text' = Text /\ Gone' = Gone
<1>1. Out' = Out
  BY DEF Out
<1>2. Text' = Text
  BY <1>1 DEF Text
<1>3. Gone' = Gone
  BY <1>2 DEF Gone
<1>4. OutInv'
  BY <1>1, <1>2, <1>3 DEF OutInv
<1>5. KeptInv'
  BY <1>3 DEF KeptInv, Received
<1>6. QED
  BY <1>1, <1>2, <1>3, <1>4, <1>5

(* A concator that a step leaves alone, when N left elsewhere.              *)
LEMMA AloneStays ==
    ASSUME NEW j \in Fork, LinesOK(j, Gone, Hand(j), PendingOf(j), inChan[j]),
           Hand(j)' = Hand(j), PendingOf(j)' = PendingOf(j), inChan'[j] = inChan[j],
           NEW N, Before(N, InsideOf(j)), Gone' = Gone \cup N
    PROVE  /\ LinesOK(j, Gone', Hand(j)', PendingOf(j)', inChan'[j])
           /\ InsideOf(j)' = InsideOf(j)
<1>1. LinesOK(j, Gone \cup N, Hand(j), PendingOf(j), inChan[j])
  BY OthersLeave DEF InsideOf
<1>2. QED
  BY <1>1 DEF InsideOf

(* A concator sends the lines of m, which were inside it.                   *)
LEMMA LeavesInv ==
    ASSUME TypeOK, ForksInv, OutInv, KeptInv, NEW k \in Fork, NEW m \in Entry,
           SendMsg(m), UNCHANGED <<incoming, inChan, emitted, dropped>>,
           \A j \in Fork : j # k => Hand(j)' = Hand(j) /\ PendingOf(j)' = PendingOf(j),
           LinesOK(k, Gone', Hand(k)', PendingOf(k)', inChan'[k]),
           InsideOf(k) = ToSet(m) \cup InsideOf(k)', Ordered(m), IsEntry(m)
    PROVE  ForksInv' /\ OutInv' /\ KeptInv'
<1>1. /\ Text' = Text \o m /\ Gone' = Gone \cup ToSet(m)
      /\ ToSet(Out') = ToSet(Out) \cup {m}
  BY SendMsgDoes
<1>2. \A x \in InsideOf(k) : x \in Line /\ ForkOf[x] = k
  BY PiecesTyped DEF ForksInv, LinesOK, LinesTyped, InsideOf
<1>3. ASSUME NEW j \in Fork, j # k
      PROVE  /\ LinesOK(j, Gone', Hand(j)', PendingOf(j)', inChan'[j])
             /\ InsideOf(j)' = InsideOf(j)
  <2>1. \A x \in InsideOf(j) : x \in Line /\ ForkOf[x] = j
    BY PiecesTyped DEF ForksInv, LinesOK, LinesTyped, InsideOf
  <2>2. Before(ToSet(m), InsideOf(j))
    BY <1>2, <1>3, <2>1, Apart DEF Before
  <2>3. /\ LinesOK(j, Gone, Hand(j), PendingOf(j), inChan[j])
        /\ Hand(j)' = Hand(j) /\ PendingOf(j)' = PendingOf(j) /\ inChan'[j] = inChan[j]
    BY <1>3 DEF ForksInv
  <2>4. QED
    BY <1>1, <2>2, <2>3, AloneStays
<1>4. ForksInv'
  BY <1>3 DEF ForksInv
<1>5. OutInv'
  <2>1. Before(Gone, ToSet(m))
    BY DEF ForksInv, LinesOK, LinesOrdered, InsideOf, Before
  <2>2. Ordered(Text)'
    BY <1>1, <2>1, OrderedJoin, OutTyped, EntryIs DEF OutInv, Gone
  <2>3. dropped' \subseteq Bad /\ Gone' \cap Bad = {} /\ \A j \in Fork : InsideOf(j)' \cap Bad = {}
    BY <1>1, <1>3 DEF OutInv
  <2>4. \A e \in ToSet(Out') : IsEntry(e)
    BY <1>1 DEF OutInv
  <2>5. QED
    BY <2>2, <2>3, <2>4 DEF OutInv
<1>6. KeptInv'
  <2>1. Received' = Received
    BY DEF Received
  <2>2. ASSUME NEW x
        PROVE  x \in Gone \cup UNION {InsideOf(j) : j \in Fork}
                 <=> x \in Gone' \cup UNION {InsideOf(j)' : j \in Fork}
    <3>1. CASE x \in Gone
      BY <1>1, <3>1
    <3>2. ASSUME NEW j \in Fork, x \in InsideOf(j)
          PROVE  x \in Gone' \cup UNION {InsideOf(n)' : n \in Fork}
      BY <1>1, <1>3, <3>2
    <3>3. ASSUME NEW j \in Fork, x \in InsideOf(j)'
          PROVE  x \in InsideOf(j)
      BY <1>3, <3>3
    <3>4. x \in ToSet(m) => x \in InsideOf(k)
      OBVIOUS
    <3>5. QED
      BY <1>1, <3>1, <3>2, <3>3, <3>4
  <2>3. QED
    BY <2>1, <2>2 DEF KeptInv
<1>7. QED
  BY <1>4, <1>5, <1>6

-----------------------------------------------------------------------------
(* A concator takes a line.                                                 *)
Taking(k, l) ==
    /\ At(k, "select") /\ inChan[k] # <<>> /\ l = Head(inChan[k])
    /\ inChan' = [inChan EXCEPT ![k] = Tail(@)]
    /\ UNCHANGED <<incoming, asyncOutChan, emitted, dropped, aged>>

LEMMA TakingDoes ==
    ASSUME IInv, NEW k \in Fork, NEW l, Taking(k, l)
    PROVE  /\ l \in Line /\ IdOf[l] \in Id /\ ForkOf[l] = k
           /\ l \in ToSet(inChan[k]) /\ l \in InsideOf(k)
           /\ l \notin Plain => Joinable(l)
           /\ Hand(k) = <<>> /\ ToSet(Hand(k)) = {} /\ concator[k].todo = {}
           /\ LinesOK(k, Gone, Hand(k), PendingOf(k), inChan[k])
           /\ inChan' \in [Fork -> Seq(Line)] /\ \A j \in Fork : Len(inChan'[j]) <= BufSize
           /\ inChan'[k] = Tail(inChan[k])
           /\ \A j \in Fork : j # k => inChan'[j] = inChan[j]
<1>1. /\ inChan[k] \in Seq(Line) /\ inChan[k] # <<>> /\ l = Head(inChan[k])
  BY ForkTyped DEF IInv, Taking
<1>2. /\ l \in Line /\ Tail(inChan[k]) \in Seq(Line)
      /\ Len(Tail(inChan[k])) = Len(inChan[k]) - 1 /\ Len(inChan[k]) \in Nat
      /\ l \in ToSet(inChan[k])
  BY <1>1, ReceiveFrom
<1>3. LinesOK(k, Gone, Hand(k), PendingOf(k), inChan[k])
  BY DEF IInv, ForksInv
<1>4. l \in InsideOf(k)
  BY <1>2 DEF InsideOf, Inside
<1>5. /\ inChan' \in [Fork -> Seq(Line)] /\ inChan'[k] = Tail(inChan[k])
      /\ \A j \in Fork : j # k => inChan'[j] = inChan[j]
  BY <1>2 DEF Taking, IInv, TypeOK
<1>6. \A j \in Fork : Len(inChan'[j]) <= BufSize
  <2>1. BufSize \in Nat /\ \A j \in Fork : Len(inChan[j]) <= BufSize
    BY FluentdRecvAssumption DEF IInv, TypeOK
  <2>2. Len(inChan'[k]) <= BufSize
    BY <1>2, <1>5, <2>1
  <2>3. QED
    BY <1>5, <2>1, <2>2
<1>7. Hand(k) = <<>> /\ ToSet(Hand(k)) = {} /\ concator[k].todo = {}
  BY OrderedNone DEF Taking, IInv, LocalsInv, At
<1>8. ForkOf[l] = k /\ (l \notin Plain => Joinable(l))
  BY <1>2, <1>3, <1>4 DEF LinesOK, LinesTyped, InsideOf
<1>9. IdOf[l] \in Id
  BY <1>2, FluentdRecvAssumption
<1>10. QED
  BY <1>2, <1>3, <1>4, <1>5, <1>6, <1>7, <1>8, <1>9

(* It is enough to look at that concator.                                   *)
LEMMA TakingInv ==
    ASSUME IInv, NEW k \in Fork, NEW l, Taking(k, l),
           LinesOK(k, Gone, Hand(k)', PendingOf(k)', inChan'[k]),
           InsideOf(k)' = InsideOf(k),
           \A j \in Fork : j # k => Hand(j)' = Hand(j) /\ PendingOf(j)' = PendingOf(j)
    PROVE  ForksInv' /\ OutInv' /\ ReadInv' /\ KeptInv' /\ Out' = Out
<1>1. \A j \in Fork : j # k => inChan'[j] = inChan[j]
  BY TakingDoes
<1>2. \A j \in Fork : InsideOf(j)' = InsideOf(j)
  BY <1>1 DEF InsideOf
<1>3. UNCHANGED <<incoming, dropped, asyncOutChan, emitted>>
  BY DEF Taking
<1>4. OutInv' /\ KeptInv' /\ Out' = Out /\ Gone' = Gone
  BY <1>2, <1>3, NothingLeaves DEF IInv
<1>5. ReadInv'
  BY <1>3, ReadStays DEF IInv
<1>6. ASSUME NEW j \in Fork
      PROVE  LinesOK(j, Gone', Hand(j)', PendingOf(j)', inChan'[j])
  <2>1. CASE j = k
    BY <1>4, <2>1
  <2>2. CASE j # k
    BY <1>1, <1>4, <2>2 DEF IInv, ForksInv
  <2>3. QED
    BY <2>1, <2>2
<1>7. ForksInv'
  BY <1>6 DEF ForksInv
<1>8. QED
  BY <1>4, <1>5, <1>7

(* What the concator then holds, at least, is whole.                        *)
LEMMA CutAfter ==
    ASSUME CutInv, NEW k \in Fork, ToSet(Out') = ToSet(Out), aged \subseteq aged',
           \A j \in Fork : j # k => concator'[j] = concator[j],
           concator'[k].pc = "send" => CutOK(Hand(k))'
    PROVE  CutInv'
<1>1. \A m \in ToSet(Out) : CutOK(m)'
  BY CutStays DEF CutInv
<1>2. ASSUME NEW j \in Fork, At(j, "send")' PROVE CutOK(Hand(j))'
  <2>1. CASE j = k
    BY <1>2, <2>1 DEF At
  <2>2. CASE j # k
    <3>1. CutOK(Hand(j)) /\ Hand(j)' = Hand(j)
      BY <1>2, <2>2 DEF CutInv, At, Hand
    <3>2. QED
      BY <3>1 DEF CutOK
  <2>3. QED
    BY <2>1, <2>2
<1>3. QED
  BY <1>1, <1>2 DEF CutInv

LEMMA LocalsAfter ==
    ASSUME LocalsInv, NEW k \in Fork,
           \A j \in Fork : j # k =>
              concator'[j] = concator[j] /\ \A n \in Id : Pending(j, n)' = Pending(j, n),
           concator'[k].pc = "send" <=> Hand(k)' # <<>>,
           concator'[k].todo \subseteq {n \in Id : Pending(k, n)' # None},
           concator'[k].todo # {} <=> concator'[k].pc = "clean"
    PROVE  LocalsInv'
<1>1. ASSUME NEW j \in Fork
      PROVE  /\ At(j, "send")' <=> Hand(j)' # <<>>
             /\ concator'[j].todo \subseteq {n \in Id : Pending(j, n)' # None}
             /\ concator'[j].todo # {} <=> At(j, "clean")'
  <2>1. CASE j = k
    BY <2>1 DEF At
  <2>2. CASE j # k
    BY <2>2 DEF At, LocalsInv, Hand
  <2>3. QED
    BY <2>1, <2>2
<1>2. QED
  BY <1>1 DEF LocalsInv

(* An entry that was changed is young.                                      *)
LEMMA AgedAfter ==
    ASSUME AgedInv, NEW k \in Fork, NEW i \in Id, aged \subseteq aged',
           \A j \in Fork : j # k => \A n \in Id : /\ Pending(j, n)' = Pending(j, n)
                                                /\ Lines(j, n)' = Lines(j, n),
           \A n \in Id : n # i => /\ Pending(k, n)' = Pending(k, n)
                                /\ Lines(k, n)' = Lines(k, n),
           Pending(k, i)' # None => ~(Pending(k, i).old)'
    PROVE  AgedInv'
<1>1. ASSUME NEW j \in Fork, NEW n \in Id, (Pending(j, n) # None /\ Pending(j, n).old)'
      PROVE  Last(Lines(j, n))' \in aged'
  <2>1. ~(j = k /\ n = i)
    BY <1>1
  <2>2. Pending(j, n)' = Pending(j, n) /\ Lines(j, n)' = Lines(j, n)
    BY <2>1
  <2>3. Pending(j, n) # None /\ Pending(j, n).old
    BY <1>1, <2>2
  <2>4. Last(Lines(j, n)) \in aged
    BY <2>3 DEF AgedInv
  <2>5. QED
    BY <2>2, <2>4
<1>2. QED
  BY <1>1 DEF AgedInv

LEMMA MovesTwice ==
    ASSUME NEW k, NEW G, NEW h, NEW p, NEW c, NEW hh, NEW pp, NEW cc,
           NEW hhh, NEW ppp, NEW ccc,
           Moves(k, G, h, p, c, hh, pp, cc), Moves(k, G, hh, pp, cc, hhh, ppp, ccc)
    PROVE  Moves(k, G, h, p, c, hhh, ppp, ccc)
BY DEF Moves

LEMMA WithTwice ==
    ASSUME NEW p \in [Id -> Seq(Line)], NEW i \in Id, NEW s, NEW t
    PROVE  With(With(p, i, s), i, t) = With(p, i, t) /\ With(p, i, s)[i] = s
BY DEF With

(* A head that comes for a pending entry is the next line after it.         *)
LEMMA HeadIsNext ==
    ASSUME IInv, NEW k \in Fork, NEW l, Taking(k, l), l \in HeadLine \ Plain,
           Pending(k, IdOf[l]) # None
    PROVE  NextIsHead(Last(Lines(k, IdOf[l])))
<1> DEFINE i == IdOf[l]
           s == Lines(k, i)
           a == Last(s)
<1>1. /\ l \in Line /\ i \in Id /\ ForkOf[l] = k /\ Joinable(l) /\ l \in InsideOf(k)
      /\ ToSet(Hand(k)) = {} /\ inChan[k] # <<>> /\ l = Head(inChan[k])
      /\ LinesOK(k, Gone, Hand(k), PendingOf(k), inChan[k])
  BY TakingDoes DEF Taking
<1>2. s \in Entry /\ PendingOf(k)[i] = s
  BY <1>1, ForkTyped DEF IInv
<1> HIDE DEF s
<1>3. /\ s \in Seq(Line) /\ Len(s) \in Nat \ {0} /\ a = s[Len(s)]
      /\ a \in ToSet(s) /\ a \in Line
  BY <1>2, EntryIs
<1> HIDE DEF a
<1>4. IdOf[a] = i /\ Joinable(a) /\ a \in Waiting(PendingOf(k)) /\ a \in InsideOf(k)
  <2>1. ToSet(s) \subseteq Waiting(PendingOf(k))
    BY <1>1, <1>2 DEF Waiting
  <2>2. QED
    BY <1>1, <1>2, <1>3, <2>1 DEF LinesOK, LinesTyped, Inside, InsideOf
<1>5. Before(Waiting(PendingOf(k)), {l}) /\ Before({l}, ToSet(Tail(inChan[k])))
  <2>1. Before(Waiting(PendingOf(k)), {Head(inChan[k])})
    BY <1>1, Oldest
  <2>2. Before({Head(inChan[k])}, ToSet(Tail(inChan[k])))
    BY <1>1, Oldest
  <2>3. QED
    BY <1>1, <2>1, <2>2
<1>6. a < l
  BY <1>1, <1>4, <1>5 DEF Before, Follows
<1>7. ASSUME NEW x \in Line, Joinable(x), IdOf[x] = i, a < x PROVE l <= x
  <2>0. a \in Nat /\ l \in Nat /\ x \in Nat
    BY <1>1, <1>3, LineIs
  <2> SUFFICES ASSUME x < l PROVE FALSE
    BY <2>0
  <2>1. ConnOf[x] = ConnOf[l] /\ ForkOf[x] = k
    BY <1>1, <1>7, FluentdRecvAssumption
  <2>2. l \in Received
    BY <1>1 DEF IInv, KeptInv
  <2>3. x \in Received
    <3>1. l \notin incoming[ConnOf[l]]
      BY <2>2 DEF Received
    <3>2. x \in incoming[ConnOf[l]] => l < x
      BY <2>2 DEF IInv, ReadInv
    <3>3. x \notin incoming[ConnOf[x]]
      BY <2>0, <2>1, <3>2
    <3>4. QED
      BY <3>3 DEF Received
  <2>4. x \notin dropped
    BY <1>7 DEF IInv, OutInv, Joinable
  <2>5. x \notin Gone
    <3>1. Before(Gone, InsideOf(k))
      BY <1>1 DEF LinesOK, LinesOrdered, InsideOf
    <3>2. x \in Gone => x < a
      BY <1>4, <1>7, <3>1 DEF Before, Follows
    <3>3. QED
      BY <1>7, <2>0, <3>2
  <2>6. PICK j \in Fork : x \in InsideOf(j)
    BY <2>3, <2>4, <2>5 DEF IInv, KeptInv
  <2>7. x \in InsideOf(k)
    BY <2>1, <2>6 DEF IInv, ForksInv, LinesOK, LinesTyped, InsideOf
  <2>8. CASE x \in Waiting(PendingOf(k))
    <3>1. PICK n \in Id : x \in ToSet(PendingOf(k)[n])
      BY <2>8 DEF Waiting
    <3>2. n = i
      BY <1>1, <1>7, <3>1 DEF LinesOK, LinesTyped
    <3>3. PICK b \in 1 .. Len(s) : x = s[b]
      BY <1>2, <1>3, <3>1, <3>2, InSeq
    <3>4. Ordered(s)
      BY <1>1, <1>2 DEF LinesOK, LinesOrdered
    <3>5. b < Len(s) => Follows(a, x)
      BY <1>3, <3>3, <3>4 DEF Ordered
    <3>6. b # Len(s)
      BY <1>3, <1>7, <2>0, <3>3
    <3>7. x < a
      BY <1>3, <1>4, <1>7, <3>3, <3>5, <3>6 DEF Follows
    <3>8. QED
      BY <1>7, <2>0, <3>7
  <2>9. CASE x \in ToSet(inChan[k])
    <3>1. inChan[k] \in Seq(Line)
      BY <1>1 DEF LinesOK, LinesTyped
    <3>2. ToSet(inChan[k]) = {Head(inChan[k])} \cup ToSet(Tail(inChan[k]))
      BY <1>1, <3>1, ReceiveFrom
    <3>3. x # l => x \in ToSet(Tail(inChan[k]))
      BY <1>1, <2>9, <3>2
    <3>4. x # l => l < x
      BY <1>1, <1>5, <1>7, <3>3 DEF Before, Follows
    <3>5. QED
      BY <2>0, <3>4
  <2>10. QED
    BY <1>1, <2>7, <2>8, <2>9 DEF InsideOf, Inside
<1>8. NextIsHead(a)
  BY <1>1, <1>4, <1>6, <1>7 DEF NextIsHead
<1>9. QED
  BY <1>8 DEF a, s

LEMMA PassOnInv ==
    ASSUME IInv, NEW k \in Fork, NEW l, Taking(k, l), PassOn(k, l)
    PROVE  IInv'
<1>1. /\ l \in Line /\ IdOf[l] \in Id /\ (l \notin Plain => Joinable(l))
      /\ ToSet(Hand(k)) = {} /\ inChan[k] # <<>> /\ l = Head(inChan[k])
      /\ LinesOK(k, Gone, Hand(k), PendingOf(k), inChan[k])
      /\ inChan' \in [Fork -> Seq(Line)] /\ \A j \in Fork : Len(inChan'[j]) <= BufSize
      /\ inChan'[k] = Tail(inChan[k])
  BY TakingDoes DEF Taking
<1>2. <<l>> \in Seq(Line) /\ <<l>> # <<>> /\ <<l>>[1] = l /\ Last(<<l>>) = l
  BY <1>1, OrderedOne
<1>3. /\ concator' \in [Fork -> [pc : {"select", "send", "clean"},
                                msg : Seq(Line), todo : SUBSET Id]]
      /\ concator'[k].pc = "send" /\ Hand(k)' = <<l>> /\ concator'[k].todo = {}
      /\ \A j \in Fork : j # k => concator'[j] = concator[j] /\ Hand(j)' = Hand(j)
  <2>1. Goto(k, "send", <<l>>, {}) /\ TypeOK /\ "send" \in {"select", "send", "clean"}
    BY DEF PassOn, IInv
  <2> DEFINE m == <<l>>
  <2>2. Goto(k, "send", m, {}) /\ m \in Seq(Line) /\ {} \in SUBSET Id
    BY <1>2, <2>1
  <2> HIDE DEF m
  <2>3. /\ concator' \in [Fork -> [pc : {"select", "send", "clean"},
                                  msg : Seq(Line), todo : SUBSET Id]]
        /\ concator'[k].pc = "send" /\ Hand(k)' = m /\ concator'[k].todo = {}
        /\ \A j \in Fork : j # k => concator'[j] = concator[j] /\ Hand(j)' = Hand(j)
    BY <2>1, <2>2, GotoDoes
  <2>4. QED
    BY <2>3 DEF m
<1>4. /\ identifier2LastMsg' = identifier2LastMsg
      /\ \A j \in Fork : PendingOf(j)' = PendingOf(j)
      /\ \A j \in Fork, n \in Id : /\ Pending(j, n)' = Pending(j, n)
                                  /\ Lines(j, n)' = Lines(j, n)
  BY DEF PassOn, PendingOf, Lines, Pending
<1>5. l \in Plain \/ (PendingOf(k)[IdOf[l]] = <<>> /\ l \notin HeadLine)
  BY <1>1, ForkTyped DEF PassOn, IInv
<1>6. /\ LinesOK(k, Gone, Hand(k)', PendingOf(k)', inChan'[k])
      /\ InsideOf(k)' = InsideOf(k)
  <2> DEFINE c == inChan[k]
  <2>1. /\ IdOf[Head(c)] \in Id /\ c # <<>>
        /\ Head(c) \in Plain \/ PendingOf(k)[IdOf[Head(c)]] = <<>>
    BY <1>1, <1>5
  <2>2. Moves(k, Gone, Hand(k), PendingOf(k), c, <<Head(c)>>, PendingOf(k), Tail(c))
    BY <1>1, <2>1, LinePasses
  <2>3. QED
    BY <1>1, <1>3, <1>4, <2>2 DEF InsideOf, Moves
<1>7. ForksInv' /\ OutInv' /\ ReadInv' /\ KeptInv' /\ Out' = Out
  BY <1>3, <1>4, <1>6, TakingInv
<1>8. UNCHANGED <<incoming, asyncOutChan, emitted, dropped, aged>>
  BY DEF Taking
<1>9. TypeOK'
  BY <1>1, <1>3, <1>4, <1>8 DEF IInv, TypeOK
<1>10. LocalsInv'
  BY <1>2, <1>3, <1>4, LocalsAfter DEF IInv
<1>11. AgedInv'
  BY <1>4, <1>8 DEF IInv, AgedInv
<1>12. CutOK(<<l>>)'
  BY <1>1, <1>2, <1>5 DEF CutOK, Joinable
<1>13. CutInv'
  BY <1>3, <1>7, <1>8, <1>12, CutAfter DEF IInv
<1>14. QED
  BY <1>7, <1>9, <1>10, <1>11, <1>13 DEF IInv

LEMMA NewIdentifierInv ==
    ASSUME IInv, NEW k \in Fork, NEW l, Taking(k, l), NewIdentifier(k, l)
    PROVE  IInv'
<1>1. /\ l \in Line /\ IdOf[l] \in Id
      /\ inChan[k] # <<>> /\ l = Head(inChan[k])
      /\ LinesOK(k, Gone, Hand(k), PendingOf(k), inChan[k])
      /\ inChan' \in [Fork -> Seq(Line)] /\ \A j \in Fork : Len(inChan'[j]) <= BufSize
      /\ inChan'[k] = Tail(inChan[k])
  BY TakingDoes DEF Taking
<1> DEFINE i == IdOf[l]
<1>2. <<l>> \in Entry /\ Append(<<>>, l) = <<l>>
  BY <1>1, OrderedOne DEF Entry
<1>3. concator' = concator /\ \A j \in Fork : Hand(j)' = Hand(j)
  BY DEF NewIdentifier, Hand
<1>4. /\ identifier2LastMsg' \in [Fork -> [Id -> Slot \cup {None}]]
      /\ Pending(k, i)' = [lines |-> <<l>>, old |-> FALSE] /\ Pending(k, i)' # None
      /\ PendingOf(k)' = With(PendingOf(k), i, <<l>>)
      /\ \A j \in Id : j # i => /\ Pending(k, j)' = Pending(k, j)
                               /\ Lines(k, j)' = Lines(k, j)
      /\ \A j \in Fork : j # k =>
            /\ \A n \in Id : /\ Pending(j, n)' = Pending(j, n)
                             /\ Lines(j, n)' = Lines(j, n)
            /\ PendingOf(j)' = PendingOf(j)
  BY <1>1, <1>2, KeepDoes DEF NewIdentifier, IInv
<1>5. PendingOf(k)[i] = <<>> /\ l \notin Plain
  BY <1>1, ForkTyped DEF NewIdentifier, IInv
<1>6. /\ LinesOK(k, Gone, Hand(k)', PendingOf(k)', inChan'[k])
      /\ InsideOf(k)' = InsideOf(k)
  <2>1. PendingOf(k)' = With(PendingOf(k), i, Append(PendingOf(k)[i], l))
    BY <1>2, <1>4, <1>5
  <2> DEFINE c == inChan[k]
             s == Append(PendingOf(k)[i], Head(c))
  <2>2. /\ IdOf[Head(c)] = i /\ i \in Id /\ c # <<>> /\ Head(c) \notin Plain
        /\ PendingOf(k)[i] = <<>>
    BY <1>1, <1>5
  <2>3. Moves(k, Gone, Hand(k), PendingOf(k), c,
              Hand(k), With(PendingOf(k), i, s), Tail(c))
    BY <1>1, <2>2, LineJoins
  <2>4. QED
    BY <1>1, <1>3, <2>1, <2>3 DEF InsideOf, Moves
<1>7. ForksInv' /\ OutInv' /\ ReadInv' /\ KeptInv' /\ Out' = Out
  BY <1>3, <1>4, <1>6, TakingInv
<1>8. UNCHANGED <<incoming, asyncOutChan, emitted, dropped, aged>>
  BY DEF Taking
<1>9. TypeOK'
  BY <1>1, <1>3, <1>4, <1>8 DEF IInv, TypeOK
<1>10. LocalsInv'
  <2>1. concator[k].pc = "select" /\ Hand(k) = <<>> /\ concator[k].todo = {}
    BY TakingDoes DEF Taking, At
  <2>2. QED
    BY <1>3, <1>4, <2>1, LocalsAfter DEF IInv
<1>11. AgedInv'
  <2>1. Pending(k, i)' # None => ~(Pending(k, i).old)'
    BY <1>4
  <2>2. QED
    BY <1>1, <1>4, <1>8, <2>1, AgedAfter DEF IInv
<1>12. CutInv'
  BY <1>3, <1>7, <1>8, CutAfter DEF IInv, Taking, At
<1>13. QED
  BY <1>7, <1>9, <1>10, <1>11, <1>12 DEF IInv

LEMMA ReplaceInv ==
    ASSUME IInv, NEW k \in Fork, NEW l, Taking(k, l), Replace(k, l)
    PROVE  IInv'
<1> DEFINE i == IdOf[l]
           c == inChan[k]
           P == PendingOf(k)
<1>0. PICK m : m = Lines(k, i)
  OBVIOUS
<1>1. /\ l \in Line /\ i \in Id /\ l \notin Plain
      /\ ToSet(Hand(k)) = {} /\ c # <<>> /\ l = Head(c)
      /\ LinesOK(k, Gone, Hand(k), P, c)
      /\ inChan' \in [Fork -> Seq(Line)] /\ \A j \in Fork : Len(inChan'[j]) <= BufSize
      /\ inChan'[k] = Tail(c)
  BY TakingDoes DEF Taking, Replace
<1>2. /\ Pending(k, i) # None /\ Pending(k, i).lines = m
      /\ m \in Entry /\ m \in Seq(Line) /\ m # <<>> /\ P[i] = m
      /\ P \in [Id -> Seq(Line)]
  <2>1. Pending(k, i) # None
    BY DEF Replace
  <2>2. m \in Entry /\ P[i] = m /\ P \in [Id -> Seq(Line)]
    BY <1>0, <1>1, <2>1, ForkTyped DEF IInv
  <2>3. QED
    BY <1>0, <2>1, <2>2, EntryIs DEF Lines
<1>3. <<l>> \in Entry /\ Append(<<>>, l) = <<l>>
  BY <1>1, OrderedOne DEF Entry
<1>4. /\ concator' \in [Fork -> [pc : {"select", "send", "clean"},
                                msg : Seq(Line), todo : SUBSET Id]]
      /\ concator'[k].pc = "send" /\ Hand(k)' = m /\ concator'[k].todo = {}
      /\ \A j \in Fork : j # k => concator'[j] = concator[j] /\ Hand(j)' = Hand(j)
  <2>1. Goto(k, "send", m, {}) /\ TypeOK /\ "send" \in {"select", "send", "clean"}
    BY <1>2 DEF Replace, IInv
  <2>2. QED
    BY <1>2, <2>1, GotoDoes
<1>5. /\ identifier2LastMsg' \in [Fork -> [Id -> Slot \cup {None}]]
      /\ Pending(k, i)' = [lines |-> <<l>>, old |-> FALSE] /\ Pending(k, i)' # None
      /\ PendingOf(k)' = With(P, i, <<l>>)
      /\ \A j \in Id : j # i => /\ Pending(k, j)' = Pending(k, j)
                               /\ Lines(k, j)' = Lines(k, j)
      /\ \A j \in Fork : j # k =>
            /\ \A n \in Id : /\ Pending(j, n)' = Pending(j, n)
                             /\ Lines(j, n)' = Lines(j, n)
            /\ PendingOf(j)' = PendingOf(j)
  BY <1>1, <1>3, KeepDoes DEF Replace, IInv
<1>6. /\ LinesOK(k, Gone, Hand(k)', PendingOf(k)', inChan'[k])
      /\ InsideOf(k)' = InsideOf(k)
  <2> DEFINE Q == With(P, i, <<>>)
  <2>1. Moves(k, Gone, Hand(k), P, c, P[i], Q, c)
    BY <1>1, EntryLifts
  <2>2. Q[i] = <<>> /\ With(Q, i, <<l>>) = With(P, i, <<l>>)
    BY <1>1, <1>2 DEF With
  <2> HIDE DEF Q, P, c, i
  <2>3. Moves(k, Gone, P[i], Q, c, P[i], With(Q, i, Append(Q[i], Head(c))), Tail(c))
    <3>1. i = IdOf[Head(c)] /\ Head(c) \notin Plain /\ LinesOK(k, Gone, P[i], Q, c)
      BY <1>1, <2>1 DEF Moves, i
    <3>2. QED
      BY <1>1, <2>2, <3>1, LineJoins
  <2>4. Moves(k, Gone, Hand(k), P, c, P[i], With(P, i, <<l>>), Tail(c))
    BY <1>1, <1>3, <2>1, <2>2, <2>3, MovesTwice
  <2>5. QED
    BY <1>1, <1>2, <1>4, <1>5, <2>4 DEF InsideOf, Moves, P, c
<1>7. ForksInv' /\ OutInv' /\ ReadInv' /\ KeptInv' /\ Out' = Out
  BY <1>4, <1>5, <1>6, TakingInv
<1>8. UNCHANGED <<incoming, asyncOutChan, emitted, dropped, aged>>
  BY DEF Taking
<1>9. TypeOK'
  BY <1>1, <1>4, <1>5, <1>8 DEF IInv, TypeOK
<1>10. LocalsInv'
  BY <1>2, <1>4, <1>5, LocalsAfter, ZenonT(60) DEF IInv
<1>11. AgedInv'
  <2>1. Pending(k, i)' # None => ~(Pending(k, i).old)'
    BY <1>5
  <2>2. QED
    BY <1>1, <1>5, <1>8, <2>1, AgedAfter DEF IInv
<1>12. CutOK(m)'
  <2>1. CASE l \in HeadLine
    <3>1. NextIsHead(Last(m))
      BY <1>0, <1>1, <1>2, <2>1, HeadIsNext
    <3>2. QED
      BY <3>1 DEF CutOK
  <2>2. CASE l \notin HeadLine
    <3>1. Last(m) \in aged
      BY <1>0, <1>1, <1>2, <2>2 DEF Replace, Replaces, IInv, AgedInv
    <3>2. QED
      BY <1>8, <3>1 DEF CutOK
  <2>3. QED
    BY <2>1, <2>2
<1>13. CutInv'
  BY <1>4, <1>7, <1>8, <1>12, CutAfter DEF IInv
<1>14. QED
  BY <1>7, <1>9, <1>10, <1>11, <1>13 DEF IInv

LEMMA ConcatInv ==
    ASSUME IInv, NEW k \in Fork, NEW l, Taking(k, l), Concat(k, l)
    PROVE  IInv'
<1> DEFINE i == IdOf[l]
           c == inChan[k]
           P == PendingOf(k)
<1>0. PICK m : m = Append(Lines(k, i), l)
  OBVIOUS
<1>1. /\ l \in Line /\ i \in Id /\ l \notin Plain /\ l \notin HeadLine
      /\ c # <<>> /\ l = Head(c)
      /\ LinesOK(k, Gone, Hand(k), P, c)
      /\ inChan' \in [Fork -> Seq(Line)] /\ \A j \in Fork : Len(inChan'[j]) <= BufSize
      /\ inChan'[k] = Tail(c)
  BY TakingDoes DEF Taking, Concat, Replaces
<1>2. /\ m \in Entry /\ m = Append(P[i], l) /\ Keep(k, i, m)
  <2>1. Pending(k, i) # None
    BY DEF Concat
  <2>2. Lines(k, i) \in Entry /\ P[i] = Lines(k, i)
    BY <1>1, <2>1, ForkTyped DEF IInv
  <2>3. m \in Seq(Line) /\ Len(m) = Len(Lines(k, i)) + 1 /\ Len(Lines(k, i)) \in Nat
    BY <1>0, <1>1, <2>2, EntryIs, SendTo
  <2>4. m # <<>>
    BY <2>3, EmptySeq
  <2>5. Keep(k, i, m)
    BY <1>0, <2>1 DEF Concat, Lines
  <2>6. QED
    BY <1>0, <2>2, <2>3, <2>4, <2>5 DEF Entry
<1>3. concator' = concator /\ \A j \in Fork : Hand(j)' = Hand(j)
  BY SMTT(30) DEF Concat, Hand
<1>4. /\ identifier2LastMsg' \in [Fork -> [Id -> Slot \cup {None}]]
      /\ Pending(k, i)' = [lines |-> m, old |-> FALSE] /\ Pending(k, i)' # None
      /\ PendingOf(k)' = With(P, i, m)
      /\ \A j \in Id : j # i => /\ Pending(k, j)' = Pending(k, j)
                               /\ Lines(k, j)' = Lines(k, j)
      /\ \A j \in Fork : j # k =>
            /\ \A n \in Id : /\ Pending(j, n)' = Pending(j, n)
                             /\ Lines(j, n)' = Lines(j, n)
            /\ PendingOf(j)' = PendingOf(j)
  BY <1>1, <1>2, KeepDoes DEF IInv
<1>5. /\ LinesOK(k, Gone, Hand(k)', PendingOf(k)', inChan'[k])
      /\ InsideOf(k)' = InsideOf(k)
  <2> HIDE DEF P, c, i
  <2>1. Moves(k, Gone, Hand(k), P, c, Hand(k), With(P, i, Append(P[i], Head(c))), Tail(c))
    <3>1. i = IdOf[Head(c)] /\ Head(c) \notin Plain /\ Head(c) \notin HeadLine
      BY <1>1 DEF i
    <3>2. QED
      BY <1>1, <3>1, LineJoins
  <2>2. QED
    BY <1>1, <1>2, <1>3, <1>4, <2>1 DEF InsideOf, Moves, P, c
<1>6. ForksInv' /\ OutInv' /\ ReadInv' /\ KeptInv' /\ Out' = Out
  BY <1>3, <1>4, <1>5, TakingInv
<1>7. UNCHANGED <<incoming, asyncOutChan, emitted, dropped, aged>>
  BY DEF Taking
<1>8. TypeOK'
  BY <1>1, <1>3, <1>4, <1>7 DEF IInv, TypeOK
<1>9. LocalsInv'
  <2>1. concator[k].pc = "select" /\ Hand(k) = <<>> /\ concator[k].todo = {}
    BY TakingDoes DEF Taking, At
  <2>2. QED
    BY <1>3, <1>4, <2>1, LocalsAfter DEF IInv
<1>10. AgedInv'
  <2>1. Pending(k, i)' # None => ~(Pending(k, i).old)'
    BY <1>4
  <2>2. QED
    BY <1>1, <1>4, <1>7, <2>1, AgedAfter DEF IInv
<1>11. CutInv'
  BY <1>3, <1>6, <1>7, CutAfter DEF IInv, Taking, At
<1>12. QED
  BY <1>6, <1>8, <1>9, <1>10, <1>11 DEF IInv

LEMMA ConcatTooLongInv ==
    ASSUME IInv, NEW k \in Fork, NEW l, Taking(k, l), ConcatTooLong(k, l)
    PROVE  IInv'
<1> DEFINE i == IdOf[l]
           c == inChan[k]
           P == PendingOf(k)
<1>0. PICK m : m = Append(Lines(k, i), l)
  OBVIOUS
<1>1. /\ l \in Line /\ i \in Id /\ l \notin Plain /\ l \notin HeadLine
      /\ ToSet(Hand(k)) = {} /\ c # <<>> /\ l = Head(c)
      /\ LinesOK(k, Gone, Hand(k), P, c)
      /\ inChan' \in [Fork -> Seq(Line)] /\ \A j \in Fork : Len(inChan'[j]) <= BufSize
      /\ inChan'[k] = Tail(c)
  BY TakingDoes DEF Taking, ConcatTooLong, Replaces
<1>2. /\ m \in Entry /\ m \in Seq(Line) /\ m # <<>> /\ m = Append(P[i], l)
      /\ Len(m) >= ConcatMaxLen
      /\ Goto(k, "send", m, {}) /\ P \in [Id -> Seq(Line)]
  <2>1. Pending(k, i) # None
    BY DEF ConcatTooLong
  <2>2. Lines(k, i) \in Entry /\ P[i] = Lines(k, i) /\ P \in [Id -> Seq(Line)]
    BY <1>1, <2>1, ForkTyped DEF IInv
  <2>3. m \in Seq(Line) /\ Len(m) = Len(Lines(k, i)) + 1 /\ Len(Lines(k, i)) \in Nat
    BY <1>0, <1>1, <2>2, EntryIs, SendTo
  <2>4. m # <<>>
    BY <2>3, EmptySeq
  <2>5. Goto(k, "send", m, {}) /\ Len(m) >= ConcatMaxLen
    BY <1>0, <2>1, <2>3 DEF ConcatTooLong, Lines
  <2>6. QED
    BY <1>0, <2>2, <2>3, <2>4, <2>5 DEF Entry
<1>3. /\ concator' \in [Fork -> [pc : {"select", "send", "clean"},
                                msg : Seq(Line), todo : SUBSET Id]]
      /\ concator'[k].pc = "send" /\ Hand(k)' = m /\ concator'[k].todo = {}
      /\ \A j \in Fork : j # k => concator'[j] = concator[j] /\ Hand(j)' = Hand(j)
  <2>1. TypeOK /\ "send" \in {"select", "send", "clean"}
    BY DEF IInv
  <2>2. QED
    BY <1>2, <2>1, GotoDoes, ZenonT(60)
<1>4. /\ identifier2LastMsg' \in [Fork -> [Id -> Slot \cup {None}]]
      /\ Pending(k, i)' = None
      /\ PendingOf(k)' = With(P, i, <<>>)
      /\ \A j \in Id : j # i => /\ Pending(k, j)' = Pending(k, j)
                               /\ Lines(k, j)' = Lines(k, j)
      /\ \A j \in Fork : j # k =>
            /\ \A n \in Id : /\ Pending(j, n)' = Pending(j, n)
                             /\ Lines(j, n)' = Lines(j, n)
            /\ PendingOf(j)' = PendingOf(j)
  BY <1>1, ForgetDoes DEF ConcatTooLong, IInv
<1>5. /\ LinesOK(k, Gone, Hand(k)', PendingOf(k)', inChan'[k])
      /\ InsideOf(k)' = InsideOf(k)
  <2> DEFINE Q == With(P, i, m)
  <2>1. Q[i] = m /\ With(Q, i, <<>>) = With(P, i, <<>>)
    BY <1>1, <1>2, ZenonT(30) DEF With
  <2> HIDE DEF Q, P, c, i
  <2>2. Moves(k, Gone, Hand(k), P, c, Hand(k), Q, Tail(c))
    <3>1. i = IdOf[Head(c)] /\ Head(c) \notin Plain /\ Head(c) \notin HeadLine
      BY <1>1 DEF i
    <3>2. Moves(k, Gone, Hand(k), P, c,
                Hand(k), With(P, i, Append(P[i], Head(c))), Tail(c))
      BY <1>1, <3>1, LineJoins
    <3>3. QED
      BY <1>1, <1>2, <3>2 DEF Q
  <2>3. Moves(k, Gone, Hand(k), Q, Tail(c), Q[i], With(Q, i, <<>>), Tail(c))
    <3>1. LinesOK(k, Gone, Hand(k), Q, Tail(c))
      BY <2>2 DEF Moves
    <3>2. QED
      BY <1>1, <3>1, EntryLifts
  <2>4. Moves(k, Gone, Hand(k), P, c, Q[i], With(Q, i, <<>>), Tail(c))
    BY <2>2, <2>3, MovesTwice
  <2>5. QED
    BY <1>1, <1>3, <1>4, <2>1, <2>4 DEF InsideOf, Moves, P, c
<1>6. ForksInv' /\ OutInv' /\ ReadInv' /\ KeptInv' /\ Out' = Out
  BY <1>3, <1>4, <1>5, TakingInv
<1>7. UNCHANGED <<incoming, asyncOutChan, emitted, dropped, aged>>
  BY DEF Taking
<1>8. TypeOK'
  BY <1>1, <1>3, <1>4, <1>7 DEF IInv, TypeOK
<1>9. LocalsInv'
  BY <1>2, <1>3, <1>4, LocalsAfter DEF IInv
<1>10. AgedInv'
  BY <1>1, <1>4, <1>7, AgedAfter DEF IInv
<1>11. CutOK(m)'
  BY <1>2 DEF CutOK
<1>12. CutInv'
  BY <1>3, <1>6, <1>7, <1>11, CutAfter DEF IInv
<1>13. QED
  BY <1>6, <1>8, <1>9, <1>10, <1>12 DEF IInv

LEMMA TakeInv ==
    ASSUME IInv, NEW k \in Fork, Take(k)
    PROVE  IInv'
<1> DEFINE l == Head(inChan[k])
<1>1. Taking(k, l)
  BY DEF Take, Taking
<1>2. PassOn(k, l) \/ NewIdentifier(k, l) \/ Replace(k, l) \/ Concat(k, l) \/ ConcatTooLong(k, l)
  BY DEF Take
<1> HIDE DEF l
<1>3. QED
  BY <1>1, <1>2, PassOnInv, NewIdentifierInv, ReplaceInv, ConcatInv, ConcatTooLongInv

-----------------------------------------------------------------------------
(* A concator sends.                                                        *)
LEMMA CutSends ==
    ASSUME CutInv, NEW k \in Fork, NEW m, CutOK(m),
           ToSet(Out') = ToSet(Out) \cup {m}, aged' = aged,
           \A j \in Fork : j # k => concator'[j] = concator[j],
           concator'[k].pc # "send"
    PROVE  CutInv'
<1>1. ASSUME NEW e \in ToSet(Out') PROVE CutOK(e)'
  <2>1. CutOK(e)
    BY <1>1 DEF CutInv
  <2>2. QED
    BY <2>1 DEF CutOK
<1>2. ASSUME NEW j \in Fork, At(j, "send")' PROVE CutOK(Hand(j))'
  <2>1. j # k
    BY <1>2 DEF At
  <2>2. CutOK(Hand(j)) /\ Hand(j)' = Hand(j)
    BY <1>2, <2>1 DEF CutInv, At, Hand
  <2>3. QED
    BY <2>2 DEF CutOK
<1>3. QED
  BY <1>1, <1>2 DEF CutInv

LEMMA SendInv ==
    ASSUME IInv, NEW k \in Fork, Send(k)
    PROVE  IInv'
<1>0. PICK m : m = Hand(k)
  OBVIOUS
<1>1. /\ m \in Entry /\ m \in Seq(Line) /\ SendMsg(m) /\ CutOK(m) /\ concator[k].todo = {}
      /\ Goto(k, "select", <<>>, {}) /\ TypeOK
      /\ UNCHANGED <<incoming, inChan, identifier2LastMsg, emitted, dropped, aged>>
  <2>1. m # <<>> /\ m \in Seq(Line)
    BY <1>0, ForkTyped DEF Send, IInv, LocalsInv
  <2>2. SendMsg(m) /\ CutOK(m) /\ concator[k].todo = {}
    BY <1>0 DEF Send, Hand, IInv, CutInv, LocalsInv, At
  <2>3. QED
    BY <2>1, <2>2 DEF Send, Entry, IInv
<1>2. /\ concator' \in [Fork -> [pc : {"select", "send", "clean"},
                                msg : Seq(Line), todo : SUBSET Id]]
      /\ concator'[k].pc = "select" /\ Hand(k)' = <<>> /\ concator'[k].todo = {}
      /\ \A j \in Fork : j # k => concator'[j] = concator[j] /\ Hand(j)' = Hand(j)
  <2>1. "select" \in {"select", "send", "clean"} /\ {} \in SUBSET Id /\ <<>> \in Seq(Line)
    BY OrderedNone
  <2>2. QED
    BY <1>1, <2>1, GotoDoes
<1>3. /\ \A j \in Fork : PendingOf(j)' = PendingOf(j)
      /\ \A j \in Fork, n \in Id : /\ Pending(j, n)' = Pending(j, n)
                                  /\ Lines(j, n)' = Lines(j, n)
  BY <1>1 DEF PendingOf, Lines, Pending
<1>4. /\ asyncOutChan' \in Seq(Entry) /\ Len(asyncOutChan') <= AsyncSize
      /\ Gone' = Gone \cup ToSet(m) /\ ToSet(Out') = ToSet(Out) \cup {m}
  BY <1>1, SendMsgDoes
<1>5. LinesOK(k, Gone, Hand(k), PendingOf(k), inChan[k])
  BY DEF IInv, ForksInv
<1>6. Left(k, Gone, Hand(k), PendingOf(k), inChan[k])
  BY <1>5, HandSent
<1>7. /\ LinesOK(k, Gone', Hand(k)', PendingOf(k)', inChan'[k])
      /\ InsideOf(k) = ToSet(m) \cup InsideOf(k)'
  BY <1>0, <1>1, <1>2, <1>3, <1>4, <1>6 DEF InsideOf, Left
<1>8. ForksInv' /\ OutInv' /\ KeptInv'
  <2>1. Ordered(m) /\ IsEntry(m)
    BY <1>0, <1>5 DEF LinesOK, LinesOrdered, EntriesOK
  <2>2. QED
    BY <1>1, <1>2, <1>3, <1>7, <2>1, LeavesInv DEF IInv
<1>9. ReadInv'
  BY <1>1, ReadStays DEF IInv
<1>10. TypeOK'
  BY <1>1, <1>2, <1>4 DEF TypeOK
<1>11. LocalsInv'
  BY <1>2, <1>3, LocalsAfter DEF IInv
<1>12. AgedInv'
  BY <1>1, <1>3 DEF IInv, AgedInv
<1>13. CutInv'
  BY <1>1, <1>2, <1>4, CutSends DEF IInv
<1>14. QED
  BY <1>8, <1>9, <1>10, <1>11, <1>12, <1>13 DEF IInv

(* cleanTicker.                                                             *)
LEMMA VisitedDoes ==
    ASSUME IInv, NEW k \in Fork, NEW i \in Id, At(k, "clean"), i \in concator[k].todo,
           Visited(k, i)
    PROVE  /\ Hand(k) = <<>> /\ Hand(k)' = <<>> /\ Pending(k, i) # None
           /\ concator' \in [Fork -> [pc : {"select", "send", "clean"},
                                     msg : Seq(Line), todo : SUBSET Id]]
           /\ concator'[k].todo = concator[k].todo \ {i}
           /\ concator'[k].todo \subseteq {n \in Id : Pending(k, n) # None}
           /\ concator'[k].todo # {} <=> concator'[k].pc = "clean"
           /\ concator'[k].pc # "send"
           /\ \A j \in Fork : j # k => concator'[j] = concator[j] /\ Hand(j)' = Hand(j)
<1>1. /\ concator[k].pc = "clean" /\ Hand(k) = <<>> /\ TypeOK
      /\ concator[k].todo \subseteq {n \in Id : Pending(k, n) # None}
  BY DEF IInv, LocalsInv, At
<1>2. PICK pc : pc = IF concator[k].todo = {i} THEN "select" ELSE "clean"
  OBVIOUS
<1>3. PICK todo : todo = concator[k].todo \ {i}
  OBVIOUS
<1>4. /\ pc \in {"select", "send", "clean"} /\ todo \in SUBSET Id
      /\ Goto(k, pc, <<>>, todo) /\ <<>> \in Seq(Line)
      /\ pc # "send" /\ (todo # {} <=> pc = "clean")
  <2>1. todo \in SUBSET Id
    BY <1>1, <1>3
  <2>2. todo # {} <=> pc = "clean"
    BY <1>2, <1>3
  <2>3. QED
    BY <1>2, <1>3, <2>1, <2>2, OrderedNone DEF Visited
<1>5. /\ concator' \in [Fork -> [pc : {"select", "send", "clean"},
                                msg : Seq(Line), todo : SUBSET Id]]
      /\ concator'[k].pc = pc /\ Hand(k)' = <<>> /\ concator'[k].todo = todo
      /\ \A j \in Fork : j # k => concator'[j] = concator[j] /\ Hand(j)' = Hand(j)
  BY <1>1, <1>4, GotoDoes
<1>6. QED
  BY <1>1, <1>3, <1>4, <1>5

LEMMA CleanInv ==
    ASSUME IInv, NEW k \in Fork, NEW i \in Id, Clean(k, i)
    PROVE  IInv'
<1> DEFINE c == inChan[k]
           P == PendingOf(k)
<1>0. PICK m : m = Lines(k, i)
  OBVIOUS
<1>1. /\ Hand(k) = <<>> /\ ToSet(Hand(k)) = {} /\ Hand(k)' = <<>> /\ Pending(k, i) # None
      /\ concator' \in [Fork -> [pc : {"select", "send", "clean"},
                                msg : Seq(Line), todo : SUBSET Id]]
      /\ concator'[k].todo = concator[k].todo \ {i}
      /\ concator'[k].todo \subseteq {n \in Id : Pending(k, n) # None}
      /\ concator'[k].todo # {} <=> concator'[k].pc = "clean"
      /\ concator'[k].pc # "send"
      /\ \A j \in Fork : j # k => concator'[j] = concator[j] /\ Hand(j)' = Hand(j)
  BY VisitedDoes, OrderedNone DEF Clean
<1>2. /\ m \in Entry /\ P[i] = m /\ P \in [Id -> Seq(Line)] /\ TypeOK
      /\ SendMsg(m) /\ Last(m) \in aged /\ Forget(k, i)
      /\ UNCHANGED <<incoming, inChan, emitted, dropped, aged>>
  <2>1. m \in Entry /\ P[i] = m /\ P \in [Id -> Seq(Line)]
    BY <1>0, <1>1, ForkTyped DEF IInv
  <2>2. SendMsg(m) /\ Last(m) \in aged
    BY <1>0, <1>1 DEF Clean, Lines, IInv, AgedInv
  <2>3. QED
    BY <2>1, <2>2 DEF Clean, IInv
<1>3. /\ identifier2LastMsg' \in [Fork -> [Id -> Slot \cup {None}]]
      /\ Pending(k, i)' = None
      /\ PendingOf(k)' = With(P, i, <<>>)
      /\ \A j \in Id : j # i => /\ Pending(k, j)' = Pending(k, j)
                               /\ Lines(k, j)' = Lines(k, j)
      /\ \A j \in Fork : j # k =>
            /\ \A n \in Id : /\ Pending(j, n)' = Pending(j, n)
                             /\ Lines(j, n)' = Lines(j, n)
            /\ PendingOf(j)' = PendingOf(j)
  BY <1>2, ForgetDoes
<1>4. /\ asyncOutChan' \in Seq(Entry) /\ Len(asyncOutChan') <= AsyncSize
      /\ Gone' = Gone \cup ToSet(m) /\ ToSet(Out') = ToSet(Out) \cup {m}
  BY <1>2, SendMsgDoes
<1>5. LinesOK(k, Gone, Hand(k), P, c)
  BY DEF IInv, ForksInv
<1>6. Moves(k, Gone, Hand(k), P, c, P[i], With(P, i, <<>>), c)
  BY <1>1, <1>5, EntryLifts
<1>7. Left(k, Gone, P[i], With(P, i, <<>>), c)
  BY <1>6, HandSent DEF Moves
<1>8. /\ LinesOK(k, Gone', Hand(k)', PendingOf(k)', inChan'[k])
      /\ InsideOf(k) = ToSet(m) \cup InsideOf(k)'
  BY <1>1, <1>2, <1>3, <1>4, <1>6, <1>7 DEF InsideOf, Moves, Left
<1>9. ForksInv' /\ OutInv' /\ KeptInv'
  <2>1. Ordered(m) /\ IsEntry(m)
    BY <1>2, <1>5 DEF LinesOK, LinesOrdered, EntriesOK
  <2>2. QED
    BY <1>1, <1>2, <1>3, <1>8, <2>1, LeavesInv DEF IInv
<1>10. ReadInv'
  BY <1>2, ReadStays DEF IInv
<1>11. TypeOK'
  BY <1>1, <1>2, <1>3, <1>4 DEF TypeOK
<1>12. LocalsInv'
  <2>1. concator'[k].todo \subseteq {n \in Id : Pending(k, n)' # None}
    BY <1>1, <1>3
  <2>2. QED
    BY <1>1, <1>3, <2>1, LocalsAfter DEF IInv
<1>13. AgedInv'
  BY <1>2, <1>3, AgedAfter DEF IInv
<1>14. CutOK(m)
  BY <1>2 DEF CutOK
<1>15. CutInv'
  BY <1>1, <1>2, <1>4, <1>14, CutSends DEF IInv
<1>16. QED
  BY <1>9, <1>10, <1>11, <1>12, <1>13, <1>15 DEF IInv

(* The lines are where they were.                                           *)
LEMMA LinesStill ==
    ASSUME ForksInv, OutInv, ReadInv, KeptInv,
           UNCHANGED <<incoming, inChan, asyncOutChan, emitted, dropped>>,
           \A j \in Fork : Hand(j)' = Hand(j) /\ PendingOf(j)' = PendingOf(j)
    PROVE  ForksInv' /\ OutInv' /\ ReadInv' /\ KeptInv' /\ Out' = Out
<1>1. \A j \in Fork : InsideOf(j)' = InsideOf(j)
  BY DEF InsideOf
<1>2. OutInv' /\ KeptInv' /\ Out' = Out /\ Gone' = Gone
  BY <1>1, NothingLeaves
<1>3. ReadInv'
  BY ReadStays
<1>4. ForksInv'
  BY <1>2 DEF ForksInv
<1>5. QED
  BY <1>2, <1>3, <1>4

LEMMA SkipYoungInv ==
    ASSUME IInv, NEW k \in Fork, NEW i \in Id, SkipYoung(k, i)
    PROVE  IInv'
<1>1. /\ Hand(k) = <<>> /\ Hand(k)' = <<>>
      /\ concator' \in [Fork -> [pc : {"select", "send", "clean"},
                                msg : Seq(Line), todo : SUBSET Id]]
      /\ concator'[k].todo \subseteq {n \in Id : Pending(k, n) # None}
      /\ concator'[k].todo # {} <=> concator'[k].pc = "clean"
      /\ concator'[k].pc # "send"
      /\ \A j \in Fork : j # k => concator'[j] = concator[j] /\ Hand(j)' = Hand(j)
  BY VisitedDoes DEF SkipYoung
<1>2. /\ UNCHANGED <<incoming, inChan, identifier2LastMsg, asyncOutChan, emitted, dropped, aged>>
      /\ \A j \in Fork : PendingOf(j)' = PendingOf(j)
      /\ \A j \in Fork, n \in Id : /\ Pending(j, n)' = Pending(j, n)
                                  /\ Lines(j, n)' = Lines(j, n)
  BY DEF SkipYoung, PendingOf, Lines, Pending
<1>3. ForksInv' /\ OutInv' /\ ReadInv' /\ KeptInv' /\ Out' = Out
  BY <1>1, <1>2, LinesStill DEF IInv
<1>4. TypeOK'
  BY <1>1, <1>2 DEF IInv, TypeOK
<1>5. LocalsInv'
  BY <1>1, <1>2, LocalsAfter DEF IInv
<1>6. AgedInv'
  BY <1>2 DEF IInv, AgedInv
<1>7. CutInv'
  BY <1>1, <1>2, <1>3, CutAfter DEF IInv
<1>8. QED
  BY <1>3, <1>4, <1>5, <1>6, <1>7 DEF IInv

LEMMA TickInv ==
    ASSUME IInv, NEW k \in Fork, Tick(k)
    PROVE  IInv'
<1>0. PICK todo : todo = {i \in Id : Pending(k, i) # None}
  OBVIOUS
<1>1. /\ Goto(k, "clean", <<>>, todo) /\ todo # {} /\ todo \in SUBSET Id
      /\ Hand(k) = <<>>
  BY <1>0 DEF Tick, IInv, LocalsInv, At
<1>2. /\ concator' \in [Fork -> [pc : {"select", "send", "clean"},
                                msg : Seq(Line), todo : SUBSET Id]]
      /\ concator'[k].pc = "clean" /\ Hand(k)' = <<>> /\ concator'[k].todo = todo
      /\ \A j \in Fork : j # k => concator'[j] = concator[j] /\ Hand(j)' = Hand(j)
  <2>1. "clean" \in {"select", "send", "clean"} /\ <<>> \in Seq(Line) /\ TypeOK
    BY OrderedNone DEF IInv
  <2>2. QED
    BY <1>1, <2>1, GotoDoes
<1>3. /\ UNCHANGED <<incoming, inChan, identifier2LastMsg, asyncOutChan, emitted, dropped, aged>>
      /\ \A j \in Fork : PendingOf(j)' = PendingOf(j)
      /\ \A j \in Fork, n \in Id : /\ Pending(j, n)' = Pending(j, n)
                                  /\ Lines(j, n)' = Lines(j, n)
  BY DEF Tick, PendingOf, Lines, Pending
<1>4. ForksInv' /\ OutInv' /\ ReadInv' /\ KeptInv' /\ Out' = Out
  BY <1>1, <1>2, <1>3, LinesStill DEF IInv
<1>5. TypeOK'
  BY <1>2, <1>3 DEF IInv, TypeOK
<1>6. LocalsInv'
  <2>1. concator'[k].todo \subseteq {n \in Id : Pending(k, n)' # None}
    BY <1>0, <1>2, <1>3
  <2>2. QED
    BY <1>1, <1>2, <1>3, <2>1, LocalsAfter DEF IInv
<1>7. AgedInv'
  BY <1>3 DEF IInv, AgedInv
<1>8. CutInv'
  BY <1>2, <1>3, <1>4, CutAfter DEF IInv
<1>9. QED
  BY <1>4, <1>5, <1>6, <1>7, <1>8 DEF IInv

LEMMA ElapseInv ==
    ASSUME IInv, NEW k \in Fork, NEW i \in Id, Elapse(k, i)
    PROVE  IInv'
<1>1. /\ Pending(k, i) # None /\ Pending(k, i) \in Slot /\ Last(Lines(k, i)) \in Line
  <2>1. Pending(k, i) # None
    BY DEF Elapse
  <2>2. Pending(k, i) \in Slot /\ Lines(k, i) \in Entry
    BY <2>1, ForkTyped DEF IInv
  <2>3. QED
    BY <2>1, <2>2, EntryIs
<1>2. /\ identifier2LastMsg' \in [Fork -> [Id -> Slot \cup {None}]]
      /\ Pending(k, i)' = [Pending(k, i) EXCEPT !.old = TRUE]
      /\ \A j \in Fork, n \in Id : j # k \/ n # i => Pending(j, n)' = Pending(j, n)
  BY <1>1 DEF Elapse, IInv, TypeOK, Pending, Slot
<1>3. /\ Pending(k, i)' \in Slot /\ Pending(k, i)' # None
      /\ (Pending(k, i)').lines = Pending(k, i).lines
  <2>1. /\ Pending(k, i)' \in Slot /\ (Pending(k, i)').lines = Pending(k, i).lines
    BY <1>1, <1>2 DEF Slot
  <2>2. Slot \subseteq [lines : Seq(Line), old : BOOLEAN]
    BY DEF Slot, Entry
  <2>3. QED
    BY <2>1, <2>2, FluentdRecvAssumption
<1>4. \A j \in Fork, n \in Id : Lines(j, n)' = Lines(j, n)
  <2>1. Lines(k, i)' = Lines(k, i)
    BY <1>1, <1>3 DEF Lines
  <2>2. \A j \in Fork, n \in Id : j # k \/ n # i => Lines(j, n)' = Lines(j, n)
    BY <1>2 DEF Lines
  <2>3. QED
    BY <2>1, <2>2
<1>5. \A j \in Fork : PendingOf(j)' = PendingOf(j) /\ Hand(j)' = Hand(j)
  BY <1>4 DEF PendingOf, Elapse, Hand
<1>6. /\ UNCHANGED <<incoming, inChan, concator, asyncOutChan, emitted, dropped>>
      /\ aged' = aged \cup {Last(Lines(k, i))}
  BY <1>1 DEF Elapse, Lines
<1>7. ForksInv' /\ OutInv' /\ ReadInv' /\ KeptInv' /\ Out' = Out
  BY <1>5, <1>6, LinesStill DEF IInv
<1>8. TypeOK'
  BY <1>1, <1>2, <1>6 DEF IInv, TypeOK
<1>9. LocalsInv'
  <2>1. \A j \in Fork, n \in Id : Pending(j, n) # None => Pending(j, n)' # None
    BY <1>2, <1>3
  <2>2. ASSUME NEW j \in Fork
        PROVE  /\ At(j, "send")' <=> Hand(j)' # <<>>
               /\ concator'[j].todo \subseteq {n \in Id : Pending(j, n)' # None}
               /\ concator'[j].todo # {} <=> At(j, "clean")'
    BY <1>5, <1>6, <2>1 DEF IInv, LocalsInv, At
  <2>3. QED
    BY <2>2 DEF LocalsInv
<1>10. AgedInv'
  <2>1. ASSUME NEW j \in Fork, NEW n \in Id, (Pending(j, n) # None /\ Pending(j, n).old)'
        PROVE  Last(Lines(j, n))' \in aged'
    <3>1. Lines(j, n)' = Lines(j, n)
      BY <1>4
    <3>2. CASE j = k /\ n = i
      BY <1>6, <3>1, <3>2
    <3>3. CASE j # k \/ n # i
      <4>1. Pending(j, n)' = Pending(j, n)
        BY <1>2, <3>3
      <4>2. Last(Lines(j, n)) \in aged
        BY <2>1, <4>1 DEF IInv, AgedInv
      <4>3. QED
        BY <1>6, <3>1, <4>2
    <3>4. QED
      BY <3>2, <3>3
  <2>2. QED
    BY <2>1 DEF AgedInv
<1>11. CutInv'
  <2>1. concator'[k].pc = "send" => CutOK(Hand(k))'
    <3>1. aged \subseteq aged'
      BY <1>6
    <3>2. concator[k].pc = "send" => CutOK(Hand(k))
      BY DEF IInv, CutInv, At
    <3>3. CutOK(Hand(k)) => CutOK(Hand(k))'
      BY <1>5, <3>1 DEF CutOK
    <3>4. QED
      BY <1>6, <3>2, <3>3
  <2>2. QED
    BY <1>6, <1>7, <2>1, CutAfter DEF IInv
<1>12. QED
  BY <1>7, <1>8, <1>9, <1>10, <1>11 DEF IInv

(* The oldest element of t moved to the end of s.                           *)
LEMMA HeadMoves ==
    ASSUME NEW S, NEW s \in Seq(S), NEW t \in Seq(S), t # <<>>
    PROVE  Append(s, Head(t)) \o Tail(t) = s \o t
<1>1. /\ Head(t) \in S /\ Head(t) = t[1] /\ Tail(t) \in Seq(S)
      /\ Len(Tail(t)) = Len(t) - 1 /\ Len(t) \in Nat \ {0} /\ Len(s) \in Nat
      /\ \A n \in 1 .. Len(Tail(t)) : Tail(t)[n] = t[n + 1]
  BY HeadTailProperties, LenProperties, EmptySeq
<1> DEFINE r == Append(s, Head(t))
           d == Tail(t)
<1>2. /\ r \in Seq(S) /\ Len(r) = Len(s) + 1 /\ r[Len(s) + 1] = t[1]
      /\ \A n \in 1 .. Len(s) : r[n] = s[n]
  BY <1>1, AppendProperties
<1>3. d \in Seq(S) /\ Len(d) = Len(t) - 1 /\ \A n \in 1 .. (Len(t) - 1) : d[n] = t[n + 1]
  BY <1>1
<1> HIDE DEF r, d
<1>4. /\ r \o d \in Seq(S) /\ Len(r \o d) = Len(r) + Len(d)
      /\ \A n \in 1 .. (Len(r) + Len(d)) :
            (r \o d)[n] = IF n <= Len(r) THEN r[n] ELSE d[n - Len(r)]
  BY <1>2, <1>3, ConcatProperties
<1>5. /\ s \o t \in Seq(S) /\ Len(s \o t) = Len(s) + Len(t)
      /\ \A n \in 1 .. (Len(s) + Len(t)) :
            (s \o t)[n] = IF n <= Len(s) THEN s[n] ELSE t[n - Len(s)]
  BY ConcatProperties
<1>6. Len(r) + Len(d) = Len(s) + Len(t)
  BY <1>1, <1>2, <1>3
<1>7. ASSUME NEW n \in 1 .. (Len(s) + Len(t)) PROVE (r \o d)[n] = (s \o t)[n]
  <2>1. CASE n <= Len(s)
    <3>1. n \in 1 .. Len(s) /\ n <= Len(r) /\ n \in 1 .. (Len(r) + Len(d))
      BY <1>1, <1>2, <1>6, <2>1
    <3>2. (r \o d)[n] = r[n]
      BY <1>4, <3>1
    <3>3. (s \o t)[n] = s[n]
      BY <1>5, <2>1
    <3>4. QED
      BY <1>2, <3>1, <3>2, <3>3
  <2>2. CASE n = Len(s) + 1
    <3>1. n - Len(s) = 1 /\ n <= Len(r) /\ ~(n <= Len(s))
      BY <1>1, <1>2, <2>2
    <3>2. QED
      BY <1>2, <1>4, <1>5, <1>6, <2>2, <3>1
  <2>3. CASE n > Len(s) + 1
    <3>1. /\ n - Len(r) \in 1 .. (Len(t) - 1) /\ (n - Len(r)) + 1 = n - Len(s)
          /\ ~(n <= Len(r)) /\ ~(n <= Len(s))
      BY <1>1, <1>2, <2>3
    <3>2. d[n - Len(r)] = t[(n - Len(r)) + 1]
      BY <1>3, <3>1
    <3>3. (r \o d)[n] = d[n - Len(r)]
      BY <1>4, <1>6, <3>1
    <3>4. (s \o t)[n] = t[n - Len(s)]
      BY <1>5, <3>1
    <3>5. t[(n - Len(r)) + 1] = t[n - Len(s)]
      BY <3>1
    <3>6. QED
      BY <3>2, <3>3, <3>4, <3>5
  <2>4. n <= Len(s) \/ n = Len(s) + 1 \/ n > Len(s) + 1
    BY <1>1
  <2>5. QED
    BY <2>1, <2>2, <2>3, <2>4, Zenon
<1>8. r \o d = s \o t
  BY <1>4, <1>5, <1>6, <1>7, SeqEqual
<1>9. QED
  BY <1>8 DEF r, d

(* A message goes on to the acceptor pipeline: Out is the same.             *)
LEMMA DownstreamInv ==
    ASSUME IInv, Downstream
    PROVE  IInv'
<1>1. /\ asyncOutChan \in Seq(Entry) /\ asyncOutChan # <<>> /\ emitted \in Seq(Entry)
      /\ emitted' = Append(emitted, Head(asyncOutChan)) /\ asyncOutChan' = Tail(asyncOutChan)
      /\ UNCHANGED <<incoming, inChan, concator, identifier2LastMsg, dropped, aged>>
  BY DEF Downstream, IInv, TypeOK
<1>2. /\ Head(asyncOutChan) \in Entry /\ Tail(asyncOutChan) \in Seq(Entry)
      /\ Len(Tail(asyncOutChan)) = Len(asyncOutChan) - 1 /\ Len(asyncOutChan) \in Nat \ {0}
      /\ \A n \in 1 .. Len(Tail(asyncOutChan)) : Tail(asyncOutChan)[n] = asyncOutChan[n + 1]
      /\ Head(asyncOutChan) = asyncOutChan[1]
  BY <1>1, HeadTailProperties, LenProperties, EmptySeq
<1>3. emitted' \in Seq(Entry) /\ asyncOutChan' \in Seq(Entry)
  BY <1>1, <1>2, AppendProperties
<1>4. Out' = Out
  BY <1>1, HeadMoves DEF Out
<1>5. Text' = Text
  BY <1>4 DEF Text
<1>6. Gone' = Gone
  BY <1>5 DEF Gone
<1>7. /\ \A j \in Fork : PendingOf(j)' = PendingOf(j) /\ Hand(j)' = Hand(j)
      /\ \A j \in Fork, n \in Id : /\ Pending(j, n)' = Pending(j, n)
                                  /\ Lines(j, n)' = Lines(j, n)
  BY <1>1 DEF PendingOf, Lines, Pending, Hand
<1>8. \A j \in Fork : InsideOf(j)' = InsideOf(j)
  BY <1>1, <1>7 DEF InsideOf
<1>9. ForksInv'
  BY <1>1, <1>6, <1>7 DEF IInv, ForksInv
<1>10. OutInv'
  BY <1>1, <1>4, <1>5, <1>6, <1>8 DEF IInv, OutInv
<1>11. ReadInv'
  BY <1>1, ReadStays DEF IInv
<1>12. KeptInv'
  BY <1>1, <1>6, <1>8 DEF IInv, KeptInv, Received
<1>13. TypeOK'
  <2>1. Len(asyncOutChan') <= AsyncSize
    BY <1>1, <1>2, FluentdRecvAssumption DEF IInv, TypeOK
  <2>2. QED
    BY <1>1, <1>3, <2>1 DEF IInv, TypeOK
<1>14. LocalsInv'
  BY <1>1, <1>7 DEF IInv, LocalsInv, At
<1>15. AgedInv'
  BY <1>1, <1>7 DEF IInv, AgedInv
<1>16. CutInv'
  BY <1>1, <1>4, <1>7 DEF IInv, CutInv, CutOK, At
<1>17. QED
  BY <1>9, <1>10, <1>11, <1>12, <1>13, <1>14, <1>15, <1>16 DEF IInv

-----------------------------------------------------------------------------
(* Lines that are read.                                                     *)

(* What is held was received.                                               *)
LEMMA HeldIsReceived ==
    ASSUME IInv
    PROVE  /\ Gone \subseteq Received /\ dropped \subseteq Received
           /\ \A k \in Fork : InsideOf(k) \subseteq Received
BY DEF IInv, KeptInv

(* No line that is held follows a line of the container that is read now.   *)
LEMMA NewFollows ==
    ASSUME IInv, NEW l \in Line, l \notin Received,
           \A x \in Received : ConnOf[x] = ConnOf[l] => x < l
    PROVE  Before(Received, {l})
<1>1. ASSUME NEW x \in Received PROVE Follows(l, x)
  <2>1. x \in Line /\ x # l
    BY DEF Received
  <2>2. IdOf[x] = IdOf[l] => x < l
    BY <2>1, FluentdRecvAssumption
  <2>3. QED
    BY <2>1, <2>2 DEF Follows
<1>2. QED
  BY <1>1 DEF Before

LEMMA DropInv ==
    ASSUME IInv, NEW c \in Conn, Drop(c)
    PROVE  IInv'
<1>0. PICK l : l = Next1(c)
  OBVIOUS
<1>1. /\ l \in Line /\ incoming' \in [Conn -> SUBSET Line] /\ ReadInv'
      /\ Received' = Received \cup {l}
  BY <1>0, ReadDoes DEF Drop, IInv
<1>2. /\ l \in Bad /\ dropped' = dropped \cup {l}
      /\ UNCHANGED <<inChan, concator, identifier2LastMsg, asyncOutChan, emitted, aged>>
  BY <1>0 DEF Drop
<1>3. Out' = Out
  BY <1>2 DEF Out
<1>4. Text' = Text
  BY <1>3 DEF Text
<1>5. Gone' = Gone
  BY <1>4 DEF Gone
<1>6. /\ \A j \in Fork : PendingOf(j)' = PendingOf(j) /\ Hand(j)' = Hand(j)
      /\ \A j \in Fork, n \in Id : /\ Pending(j, n)' = Pending(j, n)
                                  /\ Lines(j, n)' = Lines(j, n)
  BY <1>2 DEF PendingOf, Lines, Pending, Hand
<1>7. \A j \in Fork : InsideOf(j)' = InsideOf(j)
  BY <1>2, <1>6 DEF InsideOf
<1>8. ForksInv'
  BY <1>2, <1>5, <1>6 DEF IInv, ForksInv
<1>9. OutInv'
  BY <1>2, <1>3, <1>4, <1>5, <1>7 DEF IInv, OutInv
<1>10. KeptInv'
  BY <1>1, <1>2, <1>5, <1>7 DEF IInv, KeptInv
<1>11. TypeOK'
  BY <1>1, <1>2 DEF IInv, TypeOK
<1>12. LocalsInv'
  BY <1>2, <1>6 DEF IInv, LocalsInv, At
<1>13. AgedInv'
  BY <1>2, <1>6 DEF IInv, AgedInv
<1>14. CutInv'
  BY <1>2, <1>3, <1>6 DEF IInv, CutInv, CutOK, At
<1>15. QED
  BY <1>1, <1>8, <1>9, <1>10, <1>11, <1>12, <1>13, <1>14 DEF IInv

LEMMA ProcessInv ==
    ASSUME IInv, NEW c \in Conn, Process(c)
    PROVE  IInv'
<1>0. PICK l : l = Next1(c)
  OBVIOUS
<1>1. /\ l \in Line /\ ConnOf[l] = c /\ l \notin Received
      /\ incoming' \in [Conn -> SUBSET Line] /\ ReadInv'
      /\ Received' = Received \cup {l}
      /\ \A x \in Received : ConnOf[x] = c => x < l
  BY <1>0, ReadDoes DEF Process, IInv
<1> DEFINE k == ForkOf[l]
<1>2. /\ l \notin Bad /\ (Cardinality(Fork) = 1 \/ l \notin NoLBKey)
      /\ k \in Fork /\ Len(inChan[k]) < BufSize
      /\ inChan' = [inChan EXCEPT ![k] = Append(@, l)]
      /\ UNCHANGED <<concator, identifier2LastMsg, asyncOutChan, emitted, dropped, aged>>
  BY <1>0, <1>1, FluentdRecvAssumption DEF Process
<1>3. l \notin Plain => Joinable(l)
  BY <1>2 DEF Joinable
<1>4. /\ inChan[k] \in Seq(Line) /\ Append(inChan[k], l) \in Seq(Line)
      /\ Len(Append(inChan[k], l)) = Len(inChan[k]) + 1 /\ Len(inChan[k]) \in Nat
  BY <1>1, <1>2, ForkTyped, SendTo DEF IInv
<1>5. /\ inChan' \in [Fork -> Seq(Line)] /\ inChan'[k] = Append(inChan[k], l)
      /\ \A j \in Fork : j # k => inChan'[j] = inChan[j]
  BY <1>2, <1>4 DEF IInv, TypeOK
<1>6. \A j \in Fork : Len(inChan'[j]) <= BufSize
  <2>1. BufSize \in Nat /\ \A j \in Fork : Len(inChan[j]) <= BufSize
    BY FluentdRecvAssumption DEF IInv, TypeOK
  <2>2. Len(inChan'[k]) <= BufSize
    BY <1>2, <1>4, <1>5, <2>1
  <2>3. QED
    BY <1>5, <2>1, <2>2
<1> HIDE DEF k
<1>7. Out' = Out
  BY <1>2 DEF Out
<1>8. Text' = Text
  BY <1>7 DEF Text
<1>9. Gone' = Gone
  BY <1>8 DEF Gone
<1>10. /\ \A j \in Fork : PendingOf(j)' = PendingOf(j) /\ Hand(j)' = Hand(j)
       /\ \A j \in Fork, n \in Id : /\ Pending(j, n)' = Pending(j, n)
                                   /\ Lines(j, n)' = Lines(j, n)
  BY <1>2 DEF PendingOf, Lines, Pending, Hand
<1>11. /\ LinesOK(k, Gone, Hand(k), PendingOf(k), inChan'[k])
       /\ InsideOf(k)' = InsideOf(k) \cup {l}
  <2>1. LinesOK(k, Gone, Hand(k), PendingOf(k), inChan[k])
    BY <1>2 DEF IInv, ForksInv
  <2>2. Before(Received, {l})
    BY <1>1, NewFollows
  <2>3. Before(Gone \cup InsideOf(k), {l})
    BY <1>2, <2>2, HeldIsReceived DEF Before
  <2>4. ForkOf[l] = k
    BY DEF k
  <2>5. /\ LinesOK(k, Gone, Hand(k), PendingOf(k), Append(inChan[k], l))
        /\ Inside(Hand(k), PendingOf(k), Append(inChan[k], l)) = InsideOf(k) \cup {l}
    <3>1. Before(Gone \cup Inside(Hand(k), PendingOf(k), inChan[k]), {l})
      BY <2>3 DEF InsideOf
    <3>2. Comes(k, Gone, Hand(k), PendingOf(k), inChan[k], l)
      BY <1>1, <1>3, <2>1, <2>4, <3>1, LineComes
    <3>3. QED
      BY <3>2 DEF Comes, InsideOf
  <2>6. QED
    BY <1>2, <1>5, <1>10, <2>5 DEF InsideOf
<1>12. \A j \in Fork : j # k => InsideOf(j)' = InsideOf(j)
  BY <1>5, <1>10 DEF InsideOf
<1>13. ForksInv'
  <2>1. ASSUME NEW j \in Fork
        PROVE  LinesOK(j, Gone', Hand(j)', PendingOf(j)', inChan'[j])
    <3>1. CASE j = k
      BY <1>9, <1>10, <1>11, <3>1
    <3>2. CASE j # k
      BY <1>5, <1>9, <1>10, <3>2 DEF IInv, ForksInv
    <3>3. QED
      BY <3>1, <3>2
  <2>2. QED
    BY <2>1 DEF ForksInv
<1>14. OutInv'
  <2>1. \A j \in Fork : InsideOf(j)' \cap Bad = {}
    BY <1>2, <1>11, <1>12 DEF IInv, OutInv
  <2>2. QED
    BY <1>2, <1>7, <1>8, <1>9, <2>1 DEF IInv, OutInv
<1>15. KeptInv'
  <2>1. UNION {InsideOf(j)' : j \in Fork} = (UNION {InsideOf(j) : j \in Fork}) \cup {l}
    BY <1>2, <1>11, <1>12
  <2>2. QED
    BY <1>1, <1>2, <1>9, <2>1 DEF IInv, KeptInv
<1>16. TypeOK'
  BY <1>1, <1>2, <1>5, <1>6 DEF IInv, TypeOK
<1>17. LocalsInv'
  BY <1>2, <1>10 DEF IInv, LocalsInv, At
<1>18. AgedInv'
  BY <1>2, <1>10 DEF IInv, AgedInv
<1>19. CutInv'
  BY <1>2, <1>7, <1>10 DEF IInv, CutInv, CutOK, At
<1>20. QED
  BY <1>1, <1>13, <1>14, <1>15, <1>16, <1>17, <1>18, <1>19 DEF IInv

(* A line that no concator may join goes on alone.                          *)
LEMMA ProcessDirectlyInv ==
    ASSUME IInv, NEW c \in Conn, ProcessDirectly(c)
    PROVE  IInv'
<1>0. PICK l : l = Next1(c)
  OBVIOUS
<1>1. /\ l \in Line /\ ConnOf[l] = c /\ l \notin Received
      /\ incoming' \in [Conn -> SUBSET Line] /\ ReadInv'
      /\ Received' = Received \cup {l}
  BY <1>0, ReadDoes DEF ProcessDirectly, IInv
<1>2. /\ l \notin Bad /\ ~Joinable(l) /\ SendMsg(<<l>>)
      /\ UNCHANGED <<inChan, concator, identifier2LastMsg, emitted, dropped, aged>>
  BY <1>0 DEF ProcessDirectly, Joinable
<1>3. PICK m : m = <<l>>
  OBVIOUS
<1>4. /\ m \in Entry /\ m \in Seq(Line) /\ ToSet(m) = {l} /\ Ordered(m) /\ IsEntry(m)
      /\ Last(m) = l /\ SendMsg(m)
  BY <1>1, <1>2, <1>3, OrderedOne DEF Entry
<1>5. TypeOK
  BY DEF IInv
<1>6. /\ asyncOutChan' \in Seq(Entry) /\ Len(asyncOutChan') <= AsyncSize
      /\ Text' = Text \o m /\ Gone' = Gone \cup {l} /\ ToSet(Out') = ToSet(Out) \cup {m}
  BY <1>2, <1>4, <1>5, SendMsgDoes
<1>7. /\ \A j \in Fork : PendingOf(j)' = PendingOf(j) /\ Hand(j)' = Hand(j)
      /\ \A j \in Fork, n \in Id : /\ Pending(j, n)' = Pending(j, n)
                                  /\ Lines(j, n)' = Lines(j, n)
  BY <1>2 DEF PendingOf, Lines, Pending, Hand
<1>8. \A j \in Fork : InsideOf(j)' = InsideOf(j)
  BY <1>2, <1>7 DEF InsideOf
<1>9. ForksInv'
  <2>1. ASSUME NEW j \in Fork
        PROVE  LinesOK(j, Gone', Hand(j)', PendingOf(j)', inChan'[j])
    <3>1. l \notin InsideOf(j)
      BY <1>1, HeldIsReceived
    <3>2. Before({l}, InsideOf(j))
      BY <1>2, <3>1, FreeLine DEF Before
    <3>3. LinesOK(j, Gone, Hand(j), PendingOf(j), inChan[j])
      BY DEF IInv, ForksInv
    <3>4. /\ Hand(j)' = Hand(j) /\ PendingOf(j)' = PendingOf(j) /\ inChan'[j] = inChan[j]
      BY <1>2, <1>7
    <3>5. QED
      BY <1>6, <3>2, <3>3, <3>4, AloneStays
  <2>2. QED
    BY <2>1 DEF ForksInv
<1>10. OutInv'
  <2>1. l \notin Gone
    BY <1>1, HeldIsReceived
  <2>2. Before(Gone, {l})
    BY <1>2, <2>1, FreeLine DEF Before
  <2>3. Ordered(Text)'
    BY <1>4, <1>5, <1>6, <2>2, OrderedJoin, OutTyped DEF IInv, OutInv, Gone
  <2>4. Gone' \cap Bad = {} /\ dropped' \subseteq Bad
    BY <1>2, <1>6 DEF IInv, OutInv
  <2>5. \A j \in Fork : InsideOf(j)' \cap Bad = {}
    BY <1>8 DEF IInv, OutInv
  <2>6. \A e \in ToSet(Out') : IsEntry(e)
    BY <1>4, <1>6 DEF IInv, OutInv
  <2>7. QED
    BY <2>3, <2>4, <2>5, <2>6 DEF OutInv
<1>11. KeptInv'
  <2>1. UNION {InsideOf(j)' : j \in Fork} = UNION {InsideOf(j) : j \in Fork}
    BY <1>8
  <2>2. QED
    BY <1>1, <1>2, <1>6, <2>1 DEF IInv, KeptInv
<1>12. TypeOK'
  BY <1>1, <1>2, <1>5, <1>6 DEF TypeOK
<1>13. LocalsInv'
  BY <1>2, <1>7 DEF IInv, LocalsInv, At
<1>14. AgedInv'
  BY <1>2, <1>7 DEF IInv, AgedInv
<1>15. CutInv'
  <2>1. CutOK(m)
    BY <1>2, <1>4 DEF CutOK
  <2>2. \A e \in ToSet(Out') : CutOK(e)
    BY <1>6, <2>1 DEF IInv, CutInv
  <2>3. QED
    BY <1>2, <1>7, <2>2 DEF IInv, CutInv, CutOK, At
<1>16. QED
  BY <1>1, <1>9, <1>10, <1>11, <1>12, <1>13, <1>14, <1>15 DEF IInv

-----------------------------------------------------------------------------
LEMMA InvInit == Init => IInv
<1> SUFFICES ASSUME Init PROVE IInv
  OBVIOUS
<1>1. /\ emitted = <<>> /\ asyncOutChan = <<>> /\ dropped = {} /\ aged = {}
      /\ \A k \in Fork : /\ inChan[k] = <<>> /\ Hand(k) = <<>> /\ concator[k].pc = "select"
                         /\ concator[k].todo = {}
                         /\ \A i \in Id : Pending(k, i) = None /\ Lines(k, i) = <<>>
      /\ \A c \in Conn : incoming[c] = {l \in Line : ConnOf[l] = c}
  BY DEF Init, Hand, Pending, Lines
<1>2. /\ <<>> \in Seq(Line) /\ <<>> \in Seq(Entry) /\ ToSet(<<>>) = {} /\ Len(<<>>) = 0
      /\ Ordered(<<>>) /\ IsEntry(<<>>)
  BY OrderedNone, NewChan
<1>3. TypeOK
  <2>1. incoming \in [Conn -> SUBSET Line]
    BY DEF Init
  <2>2. concator \in [Fork -> [pc : {"select", "send", "clean"},
                               msg : Seq(Line), todo : SUBSET Id]]
    BY <1>2 DEF Init
  <2>3. inChan \in [Fork -> Seq(Line)] /\ \A k \in Fork : Len(inChan[k]) <= BufSize
    BY <1>2, FluentdRecvAssumption DEF Init
  <2>4. identifier2LastMsg \in [Fork -> [Id -> Slot \cup {None}]]
    BY DEF Init
  <2>5. Len(asyncOutChan) <= AsyncSize
    BY <1>1, <1>2, FluentdRecvAssumption
  <2>6. QED
    BY <1>1, <1>2, <2>1, <2>2, <2>3, <2>4, <2>5 DEF TypeOK
<1>4. Out = <<>> /\ Text = <<>> /\ Gone = {} /\ ToSet(Out) = {}
  <2>1. Out = <<>>
    BY <1>1 DEF Out
  <2>2. Text = <<>>
    BY <2>1, FlattenNone DEF Text
  <2>3. QED
    BY <1>2, <2>1, <2>2 DEF Gone
<1>5. Received = {}
  BY <1>1, FluentdRecvAssumption DEF Received
<1>6. ASSUME NEW k \in Fork
      PROVE  /\ LinesOK(k, Gone, Hand(k), PendingOf(k), inChan[k]) /\ InsideOf(k) = {}
  <2>1. PendingOf(k) \in [Id -> Seq(Line)] /\ \A i \in Id : PendingOf(k)[i] = <<>>
    BY <1>1, <1>2 DEF PendingOf
  <2>2. Waiting(PendingOf(k)) = {}
    BY <1>2, <2>1 DEF Waiting
  <2>3. InsideOf(k) = {}
    BY <1>1, <1>2, <2>2 DEF InsideOf, Inside
  <2>4. LinesTyped(k, Hand(k), PendingOf(k), inChan[k])
    BY <1>1, <1>2, <2>1, <2>3 DEF LinesTyped, InsideOf
  <2>5. LinesOrdered(Gone, Hand(k), PendingOf(k), inChan[k])
    BY <1>1, <1>2, <1>4, <2>1, <2>2 DEF LinesOrdered, Before
  <2>6. QED
    BY <1>1, <1>2, <2>1, <2>3, <2>4, <2>5 DEF LinesOK, EntriesOK
<1>7. LocalsInv
  BY <1>1 DEF LocalsInv, At
<1>8. ForksInv
  BY <1>6 DEF ForksInv
<1>9. OutInv
  BY <1>1, <1>2, <1>4, <1>6 DEF OutInv
<1>10. ReadInv
  BY <1>1, <1>5 DEF ReadInv
<1>11. KeptInv
  BY <1>1, <1>4, <1>5, <1>6 DEF KeptInv
<1>12. AgedInv
  BY <1>1 DEF AgedInv
<1>13. CutInv
  BY <1>1, <1>4 DEF CutInv, At
<1>14. QED
  BY <1>3, <1>7, <1>8, <1>9, <1>10, <1>11, <1>12, <1>13 DEF IInv

LEMMA StutterInv == ASSUME IInv, UNCHANGED vars PROVE IInv'
<1>1. /\ Out' = Out
      /\ UNCHANGED <<incoming, inChan, concator, identifier2LastMsg, asyncOutChan, emitted,
                     dropped, aged>>
  BY DEF vars, Out
<1>2. /\ \A j \in Fork : PendingOf(j)' = PendingOf(j) /\ Hand(j)' = Hand(j)
      /\ \A j \in Fork, n \in Id : /\ Pending(j, n)' = Pending(j, n)
                                  /\ Lines(j, n)' = Lines(j, n)
  BY <1>1 DEF PendingOf, Lines, Pending, Hand
<1>3. \A j \in Fork : InsideOf(j)' = InsideOf(j)
  BY <1>1, <1>2 DEF InsideOf
<1>4. OutInv' /\ KeptInv' /\ Gone' = Gone
  BY <1>1, <1>3, NothingLeaves DEF IInv
<1>5. ForksInv'
  BY <1>1, <1>2, <1>4 DEF IInv, ForksInv
<1>6. ReadInv'
  BY <1>1, ReadStays DEF IInv
<1>7. TypeOK'
  BY <1>1 DEF IInv, TypeOK
<1>8. LocalsInv'
  BY <1>1, <1>2 DEF IInv, LocalsInv, At
<1>9. AgedInv'
  BY <1>1, <1>2 DEF IInv, AgedInv
<1>10. CutInv'
  BY <1>1, <1>2 DEF IInv, CutInv, CutOK, At
<1>11. QED
  BY <1>4, <1>5, <1>6, <1>7, <1>8, <1>9, <1>10 DEF IInv

LEMMA InvNext == IInv /\ [Next]_vars => IInv'
<1> SUFFICES ASSUME IInv, [Next]_vars PROVE IInv'
  OBVIOUS
<1>1. ASSUME NEW c \in Conn, Drop(c) PROVE IInv'
  BY <1>1, DropInv
<1>2. ASSUME NEW c \in Conn, Process(c) PROVE IInv'
  BY <1>2, ProcessInv
<1>3. ASSUME NEW c \in Conn, ProcessDirectly(c) PROVE IInv'
  BY <1>3, ProcessDirectlyInv
<1>4. ASSUME NEW k \in Fork, Take(k) PROVE IInv'
  BY <1>4, TakeInv
<1>5. ASSUME NEW k \in Fork, Send(k) PROVE IInv'
  BY <1>5, SendInv
<1>6. ASSUME NEW k \in Fork, NEW i \in Id, Clean(k, i) PROVE IInv'
  BY <1>6, CleanInv
<1>7. ASSUME NEW k \in Fork, NEW i \in Id, SkipYoung(k, i) PROVE IInv'
  BY <1>7, SkipYoungInv
<1>8. ASSUME NEW k \in Fork, Tick(k) PROVE IInv'
  BY <1>8, TickInv
<1>9. ASSUME NEW k \in Fork, NEW i \in Id, Elapse(k, i) PROVE IInv'
  BY <1>9, ElapseInv
<1>10. CASE Downstream
  BY <1>10, DownstreamInv
<1>11. CASE UNCHANGED vars
  BY <1>11, StutterInv
<1>12. QED
  BY <1>1, <1>2, <1>3, <1>4, <1>5, <1>6, <1>7, <1>8, <1>9, <1>10, <1>11
     DEF Next, ConcatorStep

(* The inductive invariant holds in every state of the receiver: who holds  *)
(* a line (ProcessMsg, runConcator), and in which order the holders send.   *)
THEOREM Invariance == Spec => []IInv
<1>1. QED
  BY InvInit, InvNext, PTL DEF Spec

-----------------------------------------------------------------------------
(* What the invariant is for.                                               *)

(* In a sequence of lines in order a line is at most once.                  *)
LEMMA PlaceIn ==
    ASSUME NEW s \in Seq(Line), NEW l
    PROVE  /\ l \notin ToSet(s) => PlacesIn(s, l) = {}
           /\ l \in ToSet(s) /\ Ordered(s) => \E n : PlacesIn(s, l) = {n}
<1>1. DOMAIN s = 1 .. Len(s) /\ Len(s) \in Nat
  BY LenProperties
<1>2. l \notin ToSet(s) => PlacesIn(s, l) = {}
  BY <1>1, InSeq DEF PlacesIn
<1>3. ASSUME l \in ToSet(s), Ordered(s) PROVE \E n : PlacesIn(s, l) = {n}
  <2>1. PICK n \in 1 .. Len(s) : s[n] = l
    BY <1>3, InSeq
  <2>2. ASSUME NEW m \in 1 .. Len(s), s[m] = l PROVE m = n
    <3>1. ~(m < n)
      BY <1>3, <2>1, <2>2 DEF Ordered, Follows
    <3>2. ~(n < m)
      BY <1>3, <2>1, <2>2 DEF Ordered, Follows
    <3>3. QED
      BY <1>1, <3>1, <3>2
  <2>3. PlacesIn(s, l) = {n}
    BY <1>1, <2>1, <2>2 DEF PlacesIn
  <2>4. QED
    BY <2>3
<1>4. QED
  BY <1>2, <1>3

(* The holders of lines hold no line together.                              *)
LEMMA HoldersDiffer ==
    ASSUME IInv, NEW l
    PROVE  /\ l \in dropped => l \notin Gone
           /\ \A k \in Fork :
                 /\ l \in InsideOf(k) => l \notin dropped /\ l \notin Gone /\ ForkOf[l] = k
                 /\ l \in ToSet(Hand(k)) => /\ l \notin ToSet(inChan[k])
                                            /\ \A i \in Id : l \notin ToSet(Lines(k, i))
                 /\ \A i \in Id : l \in ToSet(Lines(k, i)) => /\ l \notin ToSet(inChan[k])
                                                             /\ IdOf[l] = i
                 /\ ToSet(inChan[k]) \subseteq InsideOf(k) /\ ToSet(Hand(k)) \subseteq InsideOf(k)
                 /\ \A i \in Id : ToSet(Lines(k, i)) \subseteq InsideOf(k)
<1>1. dropped \cap Gone = {} /\ \A k \in Fork : InsideOf(k) \cap dropped = {}
  BY DEF IInv, OutInv
<1>2. ASSUME NEW k \in Fork
      PROVE  /\ l \in InsideOf(k) => l \notin dropped /\ l \notin Gone /\ ForkOf[l] = k
             /\ l \in ToSet(Hand(k)) => /\ l \notin ToSet(inChan[k])
                                        /\ \A i \in Id : l \notin ToSet(Lines(k, i))
             /\ \A i \in Id : l \in ToSet(Lines(k, i)) => /\ l \notin ToSet(inChan[k])
                                                         /\ IdOf[l] = i
             /\ ToSet(inChan[k]) \subseteq InsideOf(k) /\ ToSet(Hand(k)) \subseteq InsideOf(k)
             /\ \A i \in Id : ToSet(Lines(k, i)) \subseteq InsideOf(k)
  <2>1. LinesOK(k, Gone, Hand(k), PendingOf(k), inChan[k])
    BY DEF IInv, ForksInv
  <2>2. \A i \in Id : PendingOf(k)[i] = Lines(k, i)
    BY DEF PendingOf
  <2>3. ~Follows(l, l)
    BY DEF Follows
  <2>4. \A i \in Id : ToSet(Lines(k, i)) \subseteq Waiting(PendingOf(k))
    BY <2>2 DEF Waiting
  <2>5. /\ ToSet(inChan[k]) \subseteq InsideOf(k) /\ ToSet(Hand(k)) \subseteq InsideOf(k)
        /\ \A i \in Id : ToSet(Lines(k, i)) \subseteq InsideOf(k)
    BY <2>4 DEF InsideOf, Inside
  <2>6. l \in InsideOf(k) => l \notin dropped /\ l \notin Gone /\ ForkOf[l] = k
    BY <1>1, <2>1, <2>3 DEF LinesOK, LinesTyped, LinesOrdered, Before, InsideOf
  <2>7. l \in ToSet(Hand(k)) => /\ l \notin ToSet(inChan[k])
                                /\ \A i \in Id : l \notin ToSet(Lines(k, i))
    BY <2>1, <2>3, <2>4 DEF LinesOK, LinesOrdered, Before
  <2>8. ASSUME NEW i \in Id, l \in ToSet(Lines(k, i))
        PROVE  l \notin ToSet(inChan[k]) /\ IdOf[l] = i
    BY <2>1, <2>2, <2>3, <2>4, <2>8 DEF LinesOK, LinesTyped, LinesOrdered, Before
  <2>9. QED
    BY <2>5, <2>6, <2>7, <2>8
<1>3. QED
  BY <1>1, <1>2

LEMMA OneIsOnce ==
    ASSUME IInv, NEW l \in Received
    PROVE  \E p \in Places(l) : Places(l) = {p}
<1>1. /\ Text \in Seq(Line)
      /\ \A k \in Fork : /\ Hand(k) \in Seq(Line) /\ inChan[k] \in Seq(Line)
                         /\ \A i \in Id : Lines(k, i) \in Seq(Line)
  BY OutTyped, ForkTyped DEF IInv
<1>2. /\ Ordered(Text)
      /\ \A k \in Fork : /\ Ordered(Hand(k)) /\ Ordered(inChan[k])
                         /\ \A i \in Id : Ordered(Lines(k, i))
  BY DEF IInv, OutInv, ForksInv, LinesOK, LinesOrdered, PendingOf
<1>3. l \in dropped \/ l \in Gone \/ \E k \in Fork : l \in InsideOf(k)
  BY DEF IInv, KeptInv
<1>4. l \notin Gone => OutPlaces(l) = {}
  BY <1>1, PlaceIn DEF OutPlaces, Gone, Text
<1>5. l \notin dropped => DroppedPlaces(l) = {}
  BY DEF DroppedPlaces
<1>6. (\A k \in Fork : l \notin ToSet(inChan[k])) => ChanPlaces(l) = {}
  BY <1>1, PlaceIn DEF ChanPlaces
<1>7. (\A k \in Fork : l \notin ToSet(Hand(k))) => HandPlaces(l) = {}
  BY <1>1, PlaceIn DEF HandPlaces, Hand
<1>8. (\A k \in Fork, i \in Id : l \notin ToSet(Lines(k, i))) => PendingPlaces(l) = {}
  BY <1>1, PlaceIn DEF PendingPlaces
<1>9. (\A k \in Fork : l \notin InsideOf(k))
          => ChanPlaces(l) = {} /\ HandPlaces(l) = {} /\ PendingPlaces(l) = {}
  BY <1>6, <1>7, <1>8, HoldersDiffer
<1>10. CASE l \in dropped
  <2>1. DroppedPlaces(l) = {<<"dropped", None, l>>}
    BY <1>10 DEF DroppedPlaces
  <2>2. Places(l) = {<<"dropped", None, l>>}
    BY <1>4, <1>9, <1>10, <2>1, HoldersDiffer DEF Places
  <2>3. QED
    BY <2>2
<1>11. CASE l \in Gone
  <2>1. PICK n : PlacesIn(Text, l) = {n}
    BY <1>1, <1>2, <1>11, PlaceIn DEF Gone
  <2>2. OutPlaces(l) = {<<"out", None, n>>}
    BY <2>1 DEF OutPlaces, Text
  <2>3. Places(l) = {<<"out", None, n>>}
    BY <1>5, <1>9, <1>11, <2>2, HoldersDiffer DEF Places
  <2>4. QED
    BY <2>3
<1>12. ASSUME NEW k \in Fork, l \in InsideOf(k) PROVE \E p \in Places(l) : Places(l) = {p}
  <2>1. OutPlaces(l) = {} /\ DroppedPlaces(l) = {}
    BY <1>4, <1>5, <1>12, HoldersDiffer
  <2>2. \A j \in Fork : j # k => l \notin InsideOf(j)
    BY <1>12, HoldersDiffer
  <2>3. \A j \in Fork : j # k => /\ l \notin ToSet(inChan[j]) /\ l \notin ToSet(Hand(j))
                                 /\ \A i \in Id : l \notin ToSet(Lines(j, i))
    BY <2>2, HoldersDiffer
  <2>4. \A j \in Fork : j # k => /\ PlacesIn(inChan[j], l) = {} /\ PlacesIn(Hand(j), l) = {}
                                 /\ \A i \in Id : PlacesIn(Lines(j, i), l) = {}
    BY <1>1, <2>3, PlaceIn
  <2>5. l \in ToSet(Hand(k)) \/ l \in ToSet(inChan[k]) \/ \E i \in Id : l \in ToSet(Lines(k, i))
    BY <1>12 DEF InsideOf, Inside, Waiting, PendingOf
  <2>6. CASE l \in ToSet(Hand(k))
    <3>1. PICK n : PlacesIn(Hand(k), l) = {n}
      BY <1>1, <1>2, <2>6, PlaceIn
    <3>2. HandPlaces(l) = {<<"hand", k, n>>}
      BY <2>4, <3>1 DEF HandPlaces, Hand
    <3>3. ChanPlaces(l) = {} /\ PendingPlaces(l) = {}
      BY <1>6, <1>8, <2>3, <2>6, HoldersDiffer
    <3>4. Places(l) = {<<"hand", k, n>>}
      BY <2>1, <3>2, <3>3 DEF Places
    <3>5. QED
      BY <3>4
  <2>7. CASE l \in ToSet(inChan[k])
    <3>1. PICK n : PlacesIn(inChan[k], l) = {n}
      BY <1>1, <1>2, <2>7, PlaceIn
    <3>2. ChanPlaces(l) = {<<"chan", k, n>>}
      BY <2>4, <3>1 DEF ChanPlaces
    <3>3. HandPlaces(l) = {} /\ PendingPlaces(l) = {}
      BY <1>7, <1>8, <2>3, <2>7, HoldersDiffer
    <3>4. Places(l) = {<<"chan", k, n>>}
      BY <2>1, <3>2, <3>3 DEF Places
    <3>5. QED
      BY <3>4
  <2>8. ASSUME NEW i \in Id, l \in ToSet(Lines(k, i))
        PROVE  \E p \in Places(l) : Places(l) = {p}
    <3>1. PICK n : PlacesIn(Lines(k, i), l) = {n}
      BY <1>1, <1>2, <2>8, PlaceIn
    <3>2. \A j \in Id : j # i => l \notin ToSet(Lines(k, j))
      BY <2>8, HoldersDiffer
    <3>3. \A j \in Id : j # i => PlacesIn(Lines(k, j), l) = {}
      BY <1>1, <3>2, PlaceIn
    <3>4. PendingPlaces(l) = {<<"pending", <<k, i>>, n>>}
      <4> DEFINE P(j, x) == {<<"pending", <<j, x>>, y>> : y \in PlacesIn(Lines(j, x), l)}
      <4>1. P(k, i) = {<<"pending", <<k, i>>, n>>}
        BY <3>1
      <4>2. \A j \in Fork, x \in Id : <<j, x>> # <<k, i>> => P(j, x) = {}
        BY <2>4, <3>3
      <4>3. PendingPlaces(l) = UNION {P(j, x) : j \in Fork, x \in Id}
        BY DEF PendingPlaces
      <4> HIDE DEF P
      <4>4. UNION {P(j, x) : j \in Fork, x \in Id} = P(k, i)
        <5>1. ASSUME NEW j \in Fork, NEW x \in Id, NEW q \in P(j, x) PROVE q \in P(k, i)
          BY <4>2, <5>1
        <5>2. QED
          BY <5>1
      <4>5. QED
        BY <4>1, <4>3, <4>4
    <3>5. HandPlaces(l) = {} /\ ChanPlaces(l) = {}
      BY <1>6, <1>7, <2>3, <2>8, HoldersDiffer
    <3>6. Places(l) = {<<"pending", <<k, i>>, n>>}
      BY <2>1, <3>4, <3>5 DEF Places
    <3>7. QED
      BY <3>6
  <2>9. QED
    BY <2>5, <2>6, <2>7, <2>8
<1>13. QED
  BY <1>3, <1>10, <1>11, <1>12

(* The channels stay within BufSize and AsyncSize, and no message is empty. *)
THEOREM TypeCorrect == Spec => []TypeOK
<1>1. IInv => TypeOK
  BY DEF IInv
<1>2. QED
  BY <1>1, Invariance, PTL

(* Nothing between decodeMsg and asyncOutChan loses a line that was read or *)
(* sends it twice: not a channel, not a container, not the ticker.          *)
THEOREM LineLeavesOnce == Spec => []LineOnce
<1>1. IInv => LineOnce
  BY OneIsOnce DEF LineOnce
<1>2. QED
  BY <1>1, Invariance, PTL

(* The lines of one identifier that runConcator may join go into            *)
(* asyncOutChan in the order of the upstream, within messages and between.  *)
THEOREM LinesInOrder == Spec => []InOrder
<1>1. ASSUME IInv PROVE InOrder
  <2>1. Ordered(Text) /\ Text \in Seq(Line)
    BY <1>1, OutTyped DEF IInv, OutInv
  <2>2. DOMAIN Text = 1 .. Len(Text)
    BY <2>1, LenProperties
  <2>3. \A a, b \in DOMAIN Text :
            a < b /\ IdOf[Text[a]] = IdOf[Text[b]] /\ Joinable(Text[a]) /\ Joinable(Text[b])
                => Text[a] < Text[b]
    BY <2>1, <2>2 DEF Ordered, Follows
  <2>4. QED
    BY <2>3 DEF InOrder, Text
<1>2. QED
  BY <1>1, Invariance, PTL

(* No message that runConcator makes mixes identifiers, or goes over the    *)
(* head of an entry.                                                        *)
THEOREM EntriesWhole == Spec => []OneEntry
<1>1. IInv => OneEntry
  BY DEF IInv, OutInv, IsEntry, OneEntry
<1>2. QED
  BY <1>1, Invariance, PTL

(* An entry that its next line does not continue was late or too long.      *)
THEOREM CutsExplained == Spec => []CutForAReason
<1>1. ASSUME IInv PROVE CutForAReason
  <2>1. Out \in Seq(Entry) /\ \A m \in ToSet(Out) : CutOK(m)
    BY <1>1, OutTyped DEF IInv, CutInv
  <2>2. ASSUME NEW m \in ToSet(Out), NEW n \in ToSet(Out), NEW a, a = Last(m), NEW b, b = n[1],
               Joinable(a), Joinable(b), IdOf[a] = IdOf[b], a < b,
               {l \in Line : IdOf[l] = IdOf[a] /\ a < l /\ l < b /\ Joinable(l)} = {},
               b \notin HeadLine, m[1] \in HeadLine
        PROVE  a \in aged \/ Len(m) >= ConcatMaxLen
    <3>1. a \in Line /\ b \in Line
      BY <2>1, <2>2, InSeq, EntryIs
    <3>2. ~NextIsHead(a)
      <4>1. SUFFICES ASSUME NEW l \in HeadLine, Joinable(l), IdOf[l] = IdOf[a], a < l, l <= b
                     PROVE  FALSE
        BY <2>2, <3>1 DEF NextIsHead
      <4>2. l \in Line
        BY FluentdRecvAssumption
      <4>3. l < b
        BY <2>2, <3>1, <4>1, <4>2, LineIs
      <4>4. QED
        BY <2>2, <4>1, <4>2, <4>3
    <3>3. QED
      BY <2>1, <2>2, <3>2 DEF CutOK
  <2>3. QED
    BY <2>2 DEF CutForAReason
<1>2. QED
  BY <1>1, Invariance, PTL
=============================================================================
