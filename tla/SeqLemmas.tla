----------------------------- MODULE SeqLemmas -----------------------------
(***************************************************************************)
(* What taking from and adding to a channel does to its length and to the   *)
(* set of messages in it: the facts about sequences that the proofs about   *)
(* the components keep needing.                                             *)
(***************************************************************************)
EXTENDS Integers, SequencesExt, SequenceTheorems, WellFoundedInduction, TLAPS

(* A set of naturals has a least element.                                   *)
LEMMA LeastOf ==
    ASSUME NEW T, T \subseteq Nat, T # {}
    PROVE  \E x \in T : \A y \in T : x <= y
<1>1. IsWellFoundedOn(OpToRel(<, Nat), Nat)
  BY NatLessThanWellFounded
<1>2. PICK x \in T : \A y \in T : ~ (<<y, x>> \in OpToRel(<, Nat))
  BY <1>1, WFMin
<1>3. \A y \in T : ~(y < x)
  BY <1>2 DEF OpToRel
<1>4. QED
  BY <1>3

(* Induction, said of a set: what holds at 0, and at each number after one  *)
(* at which it holds, holds up to n.                                        *)
LEMMA UpTo ==
    ASSUME NEW n \in Nat, NEW T, 0 \in T,
           \A k \in 1 .. n : k - 1 \in T => k \in T
    PROVE  \A k \in 0 .. n : k \in T
<1> DEFINE S == (0 .. n) \ T
<1> SUFFICES ASSUME S # {} PROVE FALSE
  OBVIOUS
<1>0. S \subseteq Nat /\ \A j : j \in S <=> j \in 0 .. n /\ j \notin T
  OBVIOUS
<1> HIDE DEF S
<1>1. PICK k \in S : \A j \in S : k <= j
  BY <1>0, LeastOf
<1>2. k \in 1 .. n /\ k - 1 \in 0 .. n
  BY <1>0, <1>1
<1>3. k - 1 \in T
  BY <1>0, <1>1, <1>2
<1>4. QED
  BY <1>0, <1>1, <1>2, <1>3

(* ToSet of SequencesExt is Range of Functions.                             *)
LEMMA ToSetIsRange == ASSUME NEW s PROVE ToSet(s) = Range(s)
  BY DEF ToSet, Range

(* A new channel is empty.                                                  *)
LEMMA NewChan ==
    ASSUME NEW S
    PROVE  /\ <<>> \in Seq(S) /\ Len(<<>>) = 0
           /\ Range(<<>>) = {} /\ ToSet(<<>>) = {}
<1>1. <<>> \in Seq(S) /\ Len(<<>>) = 0
  BY EmptySeq
<1>2. DOMAIN <<>> = {}
  OBVIOUS
<1>3. QED
  BY <1>1, <1>2 DEF Range, ToSet

(* Sending puts one message more into the channel.                          *)
LEMMA SendTo ==
    ASSUME NEW S, NEW s \in Seq(S), NEW e \in S
    PROVE  /\ Append(s, e) \in Seq(S)
           /\ Len(Append(s, e)) = Len(s) + 1
           /\ Len(s) \in Nat
           /\ Range(Append(s, e)) = Range(s) \cup {e}
           /\ ToSet(Append(s, e)) = ToSet(s) \cup {e}
<1>1. /\ Append(s, e) \in Seq(S) /\ Len(Append(s, e)) = Len(s) + 1
      /\ \A i \in 1 .. Len(s) : Append(s, e)[i] = s[i]
      /\ Append(s, e)[Len(s) + 1] = e
  BY AppendProperties
<1>2. /\ Len(s) \in Nat /\ DOMAIN s = 1 .. Len(s)
      /\ DOMAIN Append(s, e) = 1 .. (Len(s) + 1)
  BY <1>1, LenProperties
<1>3. Range(Append(s, e)) = Range(s) \cup {e}
  <2>1. ASSUME NEW x \in Range(s) \cup {e} PROVE x \in Range(Append(s, e))
    <3>1. CASE x = e
      BY <1>1, <1>2, <3>1 DEF Range
    <3>2. CASE x \in Range(s)
      <4>1. PICK i \in 1 .. Len(s) : x = s[i]
        BY <1>2, <3>2 DEF Range
      <4>2. QED
        BY <1>1, <1>2, <4>1 DEF Range
    <3>3. QED
      BY <3>1, <3>2
  <2>2. ASSUME NEW x \in Range(Append(s, e)) PROVE x \in Range(s) \cup {e}
    <3>1. PICK i \in 1 .. (Len(s) + 1) : x = Append(s, e)[i]
      BY <1>2 DEF Range
    <3>2. CASE i \in 1 .. Len(s)
      BY <1>1, <1>2, <3>1, <3>2 DEF Range
    <3>3. CASE i = Len(s) + 1
      BY <1>1, <3>1, <3>3
    <3>4. QED
      BY <1>2, <3>2, <3>3
  <2>3. QED
    BY <2>1, <2>2
<1>4. QED
  BY <1>1, <1>2, <1>3, ToSetIsRange

(* Sending to a channel with room does not overfill it.                    *)
LEMMA SendToRoom ==
    ASSUME NEW S, NEW s \in Seq(S), NEW e \in S, NEW n \in Nat,
           Len(s) <= n, Len(s) # n
    PROVE  Append(s, e) \in Seq(S) /\ Len(Append(s, e)) <= n
BY SendTo

(* Receiving takes the oldest message out of the channel.                   *)
LEMMA ReceiveFrom ==
    ASSUME NEW S, NEW s \in Seq(S), s # <<>>
    PROVE  /\ Head(s) \in S /\ Tail(s) \in Seq(S)
           /\ Len(Tail(s)) = Len(s) - 1
           /\ Len(s) \in Nat \ {0}
           /\ Range(s) = {Head(s)} \cup Range(Tail(s))
           /\ ToSet(s) = {Head(s)} \cup ToSet(Tail(s))
<1>1. /\ Head(s) \in S /\ Tail(s) \in Seq(S) /\ Len(Tail(s)) = Len(s) - 1
      /\ \A i \in 1 .. Len(Tail(s)) : Tail(s)[i] = s[i + 1]
  BY HeadTailProperties
<1>2. /\ Len(s) \in Nat \ {0} /\ DOMAIN s = 1 .. Len(s)
      /\ DOMAIN Tail(s) = 1 .. (Len(s) - 1)
  BY <1>1, LenProperties, EmptySeq
<1>3. Head(s) = s[1]
  OBVIOUS
<1>4. Range(s) = {Head(s)} \cup Range(Tail(s))
  <2>1. ASSUME NEW x \in Range(s) PROVE x \in {Head(s)} \cup Range(Tail(s))
    <3>1. PICK i \in 1 .. Len(s) : x = s[i]
      BY <1>2 DEF Range
    <3>2. CASE i = 1
      BY <1>3, <3>1, <3>2
    <3>3. CASE i # 1
      <4>1. i - 1 \in 1 .. (Len(s) - 1) /\ (i - 1) + 1 = i
        BY <1>2, <3>3
      <4>2. x = Tail(s)[i - 1]
        BY <1>1, <3>1, <4>1
      <4>3. QED
        BY <1>2, <4>1, <4>2 DEF Range
    <3>4. QED
      BY <3>2, <3>3
  <2>2. ASSUME NEW x \in {Head(s)} \cup Range(Tail(s)) PROVE x \in Range(s)
    <3>1. CASE x = Head(s)
      BY <1>2, <1>3, <3>1 DEF Range
    <3>2. CASE x \in Range(Tail(s))
      <4>1. PICK i \in 1 .. (Len(s) - 1) : x = Tail(s)[i]
        BY <1>2, <3>2 DEF Range
      <4>2. x = s[i + 1] /\ i + 1 \in 1 .. Len(s)
        BY <1>1, <1>2, <4>1
      <4>3. QED
        BY <1>2, <4>2 DEF Range
    <3>3. QED
      BY <3>1, <3>2
  <2>3. QED
    BY <2>1, <2>2
<1>5. QED
  BY <1>1, <1>2, <1>4, ToSetIsRange

(* A channel without repetition stays so when a message is received, and    *)
(* that message is not in it any more ...                                   *)
LEMMA ReceiveOnce ==
    ASSUME NEW S, NEW s \in Seq(S), s # <<>>, IsInjective(s)
    PROVE  IsInjective(Tail(s)) /\ Head(s) \notin ToSet(Tail(s))
<1>1. /\ Len(s) \in Nat \ {0} /\ DOMAIN s = 1 .. Len(s)
      /\ DOMAIN Tail(s) = 1 .. (Len(s) - 1)
      /\ \A i \in 1 .. (Len(s) - 1) : Tail(s)[i] = s[i + 1]
      /\ Head(s) = s[1]
  BY HeadTailProperties, LenProperties, EmptySeq
<1>2. ASSUME NEW i \in DOMAIN Tail(s), NEW j \in DOMAIN Tail(s), Tail(s)[i] = Tail(s)[j]
      PROVE  i = j
  <2>1. /\ i \in Nat /\ j \in Nat
        /\ i + 1 \in DOMAIN s /\ j + 1 \in DOMAIN s /\ s[i + 1] = s[j + 1]
    BY <1>1, <1>2
  <2>2. i + 1 = j + 1
    BY <2>1 DEF IsInjective
  <2>3. QED
    BY <2>1, <2>2
<1>3. ASSUME Head(s) \in ToSet(Tail(s)) PROVE FALSE
  <2>1. PICK i \in DOMAIN Tail(s) : Tail(s)[i] = Head(s)
    BY <1>3 DEF ToSet
  <2>2. i \in Nat \ {0} /\ i + 1 \in DOMAIN s /\ 1 \in DOMAIN s /\ s[i + 1] = s[1]
    BY <1>1, <2>1
  <2>3. i + 1 = 1
    BY <2>2 DEF IsInjective
  <2>4. QED
    BY <2>2, <2>3
<1>4. QED
  BY <1>2, <1>3 DEF IsInjective

(* ... and when one is sent that was not in it.                             *)
LEMMA SendOnce ==
    ASSUME NEW S, NEW s \in Seq(S), NEW e \in S, IsInjective(s), e \notin ToSet(s)
    PROVE  IsInjective(Append(s, e))
<1>1. /\ Len(s) \in Nat /\ DOMAIN s = 1 .. Len(s)
      /\ DOMAIN Append(s, e) = 1 .. (Len(s) + 1)
      /\ \A i \in 1 .. Len(s) : Append(s, e)[i] = s[i]
      /\ Append(s, e)[Len(s) + 1] = e
  BY AppendProperties, LenProperties
<1>2. \A i \in DOMAIN s : s[i] # e
  BY DEF ToSet
<1>3. ASSUME NEW i \in DOMAIN Append(s, e), NEW j \in DOMAIN Append(s, e),
             Append(s, e)[i] = Append(s, e)[j]
      PROVE  i = j
  <2>1. CASE i \in DOMAIN s /\ j \in DOMAIN s
    BY <1>1, <1>3, <2>1 DEF IsInjective
  <2>2. CASE i \in DOMAIN s /\ j \notin DOMAIN s
    BY <1>1, <1>2, <1>3, <2>2
  <2>3. CASE i \notin DOMAIN s /\ j \in DOMAIN s
    BY <1>1, <1>2, <1>3, <2>3
  <2>4. CASE i \notin DOMAIN s /\ j \notin DOMAIN s
    BY <1>1, <2>4
  <2>5. QED
    BY <2>1, <2>2, <2>3, <2>4
<1>4. QED
  BY <1>3 DEF IsInjective

(* The members of a sequence.                                               *)
LEMMA InSeq ==
    ASSUME NEW S, NEW s \in Seq(S)
    PROVE  /\ Len(s) \in Nat /\ ToSet(s) \subseteq S
           /\ \A x : x \in ToSet(s) <=> \E a \in 1 .. Len(s) : x = s[a]
<1>1. Len(s) \in Nat /\ DOMAIN s = 1 .. Len(s) /\ \A a \in 1 .. Len(s) : s[a] \in S
  BY LenProperties, ElementOfSeq
<1>2. QED
  BY <1>1 DEF ToSet

(* One sequence after another.                                              *)
LEMMA ConcatTo ==
    ASSUME NEW S, NEW s \in Seq(S), NEW t \in Seq(S)
    PROVE  /\ Len(s) \in Nat /\ Len(t) \in Nat /\ Len(s \o t) = Len(s) + Len(t)
           /\ \A a \in 1 .. Len(s) : (s \o t)[a] = s[a] /\ s[a] \in ToSet(s)
           /\ \A a \in (Len(s) + 1) .. (Len(s) + Len(t)) :
                 /\ a - Len(s) \in 1 .. Len(t) /\ (s \o t)[a] = t[a - Len(s)]
                 /\ t[a - Len(s)] \in ToSet(t)
           /\ ToSet(s \o t) = ToSet(s) \cup ToSet(t)
<1>1. /\ Len(s) \in Nat /\ Len(t) \in Nat /\ Len(s \o t) = Len(s) + Len(t)
      /\ s \o t \in Seq(S)
      /\ \A a \in 1 .. (Len(s) + Len(t)) :
            (s \o t)[a] = IF a <= Len(s) THEN s[a] ELSE t[a - Len(s)]
  BY ConcatProperties, LenProperties
<1>2. \A a \in 1 .. Len(s) : a \in 1 .. (Len(s) + Len(t)) /\ a <= Len(s)
  BY <1>1
<1>3. \A a \in (Len(s) + 1) .. (Len(s) + Len(t)) :
         /\ a \in 1 .. (Len(s) + Len(t)) /\ ~(a <= Len(s)) /\ a - Len(s) \in 1 .. Len(t)
  BY <1>1
<1>4. \A a \in 1 .. Len(t) :
         /\ a + Len(s) \in (Len(s) + 1) .. (Len(s) + Len(t)) /\ (a + Len(s)) - Len(s) = a
  BY <1>1
<1>5. \A a \in 1 .. Len(s) : (s \o t)[a] = s[a]
  BY <1>1, <1>2
<1>6. \A a \in (Len(s) + 1) .. (Len(s) + Len(t)) : (s \o t)[a] = t[a - Len(s)]
  BY <1>1, <1>3
<1>7. /\ \A x : x \in ToSet(s) <=> \E a \in 1 .. Len(s) : x = s[a]
      /\ \A x : x \in ToSet(t) <=> \E a \in 1 .. Len(t) : x = t[a]
      /\ \A x : x \in ToSet(s \o t) <=> \E a \in 1 .. (Len(s) + Len(t)) : x = (s \o t)[a]
  <2>1. \A x : x \in ToSet(s) <=> \E a \in 1 .. Len(s) : x = s[a]
    BY InSeq
  <2>2. \A x : x \in ToSet(t) <=> \E a \in 1 .. Len(t) : x = t[a]
    BY InSeq
  <2>3. \A x : x \in ToSet(s \o t) <=> \E a \in 1 .. Len(s \o t) : x = (s \o t)[a]
    <3> DEFINE st == s \o t
    <3>1. st \in Seq(S)
      BY <1>1
    <3> HIDE DEF st
    <3>2. \A x : x \in ToSet(st) <=> \E a \in 1 .. Len(st) : x = st[a]
      BY <3>1, InSeq
    <3>3. QED
      BY <3>2 DEF st
  <2>4. QED
    BY <1>1, <2>1, <2>2, <2>3
<1>8. \A a \in 1 .. (Len(s) + Len(t)) :
         a \in 1 .. Len(s) \/ a \in (Len(s) + 1) .. (Len(s) + Len(t))
  BY <1>1
<1>9. ToSet(s \o t) \subseteq ToSet(s) \cup ToSet(t)
  BY <1>3, <1>5, <1>6, <1>7, <1>8
<1>10. ToSet(s) \subseteq ToSet(s \o t)
  BY <1>2, <1>5, <1>7
<1>11. ToSet(t) \subseteq ToSet(s \o t)
  <2>1. ASSUME NEW a \in 1 .. Len(t) PROVE t[a] \in ToSet(s \o t)
    <3>1. (s \o t)[a + Len(s)] = t[a] /\ a + Len(s) \in 1 .. (Len(s) + Len(t))
      BY <1>3, <1>4, <1>6
    <3>2. QED
      BY <1>7, <3>1
  <2>2. QED
    BY <1>7, <2>1
<1>12. QED
  BY <1>1, <1>3, <1>5, <1>6, <1>7, <1>9, <1>10, <1>11

(* The recursion of FlattenSeq.                                             *)
FlattenStep(ss, n, g) == [i \in 1 .. n |-> IF i = 1 THEN ss[i] ELSE g[i - 1] \o ss[i]]

(* It has a solution ...                                                    *)
LEMMA FlattenSolved ==
    ASSUME NEW ss, NEW n \in Nat
    PROVE  \E g : g = FlattenStep(ss, n, g)
<1> DEFINE T == {k \in Nat : \E g : g = FlattenStep(ss, k, g)}
<1>1. 0 \in T
  <2>1. [i \in 1 .. 0 |-> 0] = FlattenStep(ss, 0, [i \in 1 .. 0 |-> 0])
    BY DEF FlattenStep
  <2>2. QED
    BY <2>1
<1>2. ASSUME NEW k \in 1 .. n, k - 1 \in T PROVE k \in T
  <2>1. PICK g : g = FlattenStep(ss, k - 1, g)
    BY <1>2
  <2> DEFINE h == [i \in 1 .. k |-> IF i = 1 THEN ss[i] ELSE g[i - 1] \o ss[i]]
  <2>2. \A i \in 1 .. (k - 1) : g[i] = h[i]
    <3>1. g = [i \in 1 .. (k - 1) |-> IF i = 1 THEN ss[i] ELSE g[i - 1] \o ss[i]]
      BY <2>1 DEF FlattenStep
    <3>2. \A i \in 1 .. (k - 1) : g[i] = IF i = 1 THEN ss[i] ELSE g[i - 1] \o ss[i]
      <4>1. ASSUME NEW i \in 1 .. (k - 1)
            PROVE  g[i] = IF i = 1 THEN ss[i] ELSE g[i - 1] \o ss[i]
        BY <3>1, Zenon
      <4>2. QED
        BY <4>1
    <3>3. 1 .. (k - 1) \subseteq 1 .. k
      OBVIOUS
    <3>4. QED
      BY <3>2, <3>3
  <2>3. \A i \in 1 .. k : i # 1 => i - 1 \in 1 .. (k - 1)
    OBVIOUS
  <2>4. h = FlattenStep(ss, k, h)
    <3>1. \A i \in 1 .. k : i # 1 => h[i - 1] = g[i - 1]
      BY <2>2, <2>3
    <3> DEFINE H == FlattenStep(ss, k, h)
    <3>2. H = [i \in 1 .. k |-> IF i = 1 THEN ss[i] ELSE h[i - 1] \o ss[i]]
      BY DEF FlattenStep
    <3>3. \A i \in 1 .. k : H[i] = h[i]
      BY <3>1, <3>2
    <3>4. QED
      BY <3>2, <3>3
  <2>5. QED
    BY <2>4
<1>3. n \in T
  <2> HIDE DEF T
  <2>1. QED
    BY <1>1, <1>2, UpTo
<1>4. QED
  BY <1>3

(* ... which FlattenSeq takes.                                              *)
LEMMA FlattenTakes ==
    ASSUME NEW ss, Len(ss) \in Nat \ {0}
    PROVE  \E g : g = FlattenStep(ss, Len(ss), g) /\ FlattenSeq(ss) = g[Len(ss)]
<1> DEFINE G == CHOOSE g : g = FlattenStep(ss, Len(ss), g)
<1>1. G = FlattenStep(ss, Len(ss), G)
  BY FlattenSolved
<1>2. FlattenSeq(ss) = G[Len(ss)]
  BY DEF FlattenSeq, FlattenStep
<1>3. QED
  BY <1>1, <1>2

LEMMA FlattenNone == FlattenSeq(<<>>) = <<>>
BY DEF FlattenSeq

(* Joining sequences of elements of S gives one.                            *)
LEMMA FlattenType ==
    ASSUME NEW S, NEW ss \in Seq(Seq(S))
    PROVE  FlattenSeq(ss) \in Seq(S)
<1>1. /\ Len(ss) \in Nat /\ DOMAIN ss = 1 .. Len(ss)
      /\ \A i \in 1 .. Len(ss) : ss[i] \in Seq(S)
  BY LenProperties, ElementOfSeq
<1>2. CASE Len(ss) = 0
  BY <1>2, EmptySeq, FlattenNone
<1>3. CASE Len(ss) # 0
  <2>1. PICK g : g = FlattenStep(ss, Len(ss), g) /\ FlattenSeq(ss) = g[Len(ss)]
    BY <1>1, <1>3, FlattenTakes
  <2> DEFINE T == {k \in Nat : k = 0 \/ g[k] \in Seq(S)}
  <2>2. ASSUME NEW k \in 1 .. Len(ss), k - 1 \in T PROVE k \in T
    <3>1. g[k] = IF k = 1 THEN ss[k] ELSE g[k - 1] \o ss[k]
      BY <2>1 DEF FlattenStep
    <3>2. k # 1 => g[k - 1] \in Seq(S)
      BY <2>2
    <3>3. g[k] \in Seq(S)
      BY <1>1, <3>1, <3>2, ConcatProperties
    <3>4. QED
      BY <3>3
  <2>3. Len(ss) \in T
    <3>1. 0 \in T
      OBVIOUS
    <3> HIDE DEF T
    <3>2. \A j \in 0 .. Len(ss) : j \in T
      BY <1>1, <2>2, <3>1, UpTo
    <3>3. QED
      BY <1>1, <3>2
  <2>4. QED
    BY <1>3, <2>1, <2>3
<1>4. QED
  BY <1>2, <1>3

(* One more sequence joined is concatenated to the rest.                    *)
LEMMA FlattenAppend ==
    ASSUME NEW S, NEW ss \in Seq(Seq(S)), NEW e \in Seq(S)
    PROVE  FlattenSeq(Append(ss, e)) = FlattenSeq(ss) \o e
<1> DEFINE tt == Append(ss, e)
           n == Len(ss)
<1>1. /\ n \in Nat /\ Len(tt) = n + 1 /\ tt[n + 1] = e
      /\ \A i \in 1 .. n : tt[i] = ss[i]
  BY AppendProperties, LenProperties
<1> HIDE DEF tt
<1>2. PICK h : h = FlattenStep(tt, n + 1, h) /\ FlattenSeq(tt) = h[n + 1]
  BY <1>1, FlattenTakes
<1>3. \A i \in 1 .. (n + 1) : h[i] = IF i = 1 THEN tt[i] ELSE h[i - 1] \o tt[i]
  BY <1>2 DEF FlattenStep
<1>4. CASE n = 0
  <2>1. ss = <<>>
    BY <1>4, EmptySeq
  <2>2. h[1] = e
    BY <1>1, <1>3, <1>4
  <2>3. QED
    BY <1>2, <1>4, <2>1, <2>2, FlattenNone, ConcatEmptySeq DEF tt
<1>5. CASE n # 0
  <2>1. PICK g : g = FlattenStep(ss, n, g) /\ FlattenSeq(ss) = g[n]
    BY <1>1, <1>5, FlattenTakes
  <2>2. \A i \in 1 .. n : g[i] = IF i = 1 THEN ss[i] ELSE g[i - 1] \o ss[i]
    BY <2>1 DEF FlattenStep
  <2> DEFINE T == {k \in Nat : k = 0 \/ h[k] = g[k]}
  <2>3. ASSUME NEW k \in 1 .. n, k - 1 \in T PROVE k \in T
    <3>1. k # 1 => h[k - 1] = g[k - 1]
      BY <2>3
    <3>2. h[k] = g[k]
      BY <1>1, <1>3, <2>2, <3>1
    <3>3. QED
      BY <3>2
  <2>4. n \in T
    <3>1. 0 \in T
      OBVIOUS
    <3> HIDE DEF T, n
    <3>2. \A j \in 0 .. n : j \in T
      BY <1>1, <2>3, <3>1, UpTo
    <3>3. QED
      BY <1>1, <3>2
  <2>5. h[n] = g[n]
    BY <1>5, <2>4
  <2>6. h[n + 1] = h[n] \o e
    <3>1. n + 1 \in 1 .. (n + 1) /\ n + 1 # 1 /\ (n + 1) - 1 = n
      BY <1>1, <1>5
    <3>2. h[n + 1] = h[(n + 1) - 1] \o tt[n + 1]
      BY <1>3, <3>1
    <3>3. QED
      BY <1>1, <3>1, <3>2
  <2>7. QED
    BY <1>2, <2>1, <2>5, <2>6 DEF tt
<1>6. QED
  BY <1>4, <1>5
=============================================================================
