--------------------------- MODULE SendersProofs ---------------------------
(***************************************************************************)
(* Proofs about the senders: every message is in one place until it is      *)
(* reported, so that each sender implements the contract of the producer;   *)
(* what is reported as good was sent; and with one fork, the Fluentd sender *)
(* gives every child the messages of its tag.                               *)
(***************************************************************************)
EXTENDS Senders, SeqLemmas, FiniteSetTheorems

-----------------------------------------------------------------------------
(* The invariant.                                                           *)

(* The places in a sender in which a message can be, each a sequence of     *)
(* messages.                                                                *)
InHome == <<"in", None>>
GoodHome == <<"good", None>>
BadHome == <<"bad", None>>
ForkHome(f) == <<"fork", f>>
ChildHome(t) == <<"child", t>>
BatchHome(w) == <<"batch", w>>
DeliveryHome(w) == <<"delivery", w>>

Home ==
    {InHome, GoodHome, BadHome}
      \cup {ForkHome(f) : f \in Fork} \cup {ChildHome(t) : t \in Tag}
      \cup {BatchHome(w) : w \in Worker} \cup {DeliveryHome(w) : w \in Worker}

Only(m) == IF m = None THEN <<>> ELSE <<m>>

Pile(h) ==
    CASE h[1] = "in" -> inChan
      [] h[1] = "good" -> successedChan
      [] h[1] = "bad" -> failedChan
      [] h[1] = "fork" -> Only(fork[h[2]].msg)
      [] h[1] = "child" -> childChan[h[2]]
      [] h[1] = "batch" -> worker[h[2]].batch
      [] h[1] = "delivery" -> worker[h[2]].delivery

Piles == [h \in Home |-> Pile(h)]

(* In the piles P no message is twice.                                      *)
Once(P) ==
    /\ \A h \in Home : IsInjective(P[h])
    /\ \A g, h \in Home : g # h => ToSet(P[g]) \cap ToSet(P[h]) = {}

(* What is in the sender has a tag, since the producer waits for the report *)
(* before it gives the pointer again.                                       *)
TagInv == \A h \in Home : \A m \in ToSet(Piles[h]) : tag[m] # None

(* There is something to send and to report, and room in the batch.         *)
WorkerInv ==
    \A w \in Worker :
        /\ worker[w].pc \in {"connect", "select"} <=> worker[w].delivery = <<>>
        /\ Len(worker[w].batch) < BatchSize

(* A fork has a message, and a channel to send it to.                       *)
ForkInv ==
    \A f \in Fork :
        /\ fork[f].pc = "recv" <=> fork[f].msg = None
        /\ fork[f].pc \in {"spawn", "store", "unlock", "send", "blocked"} /\ ~panicked
              => childInChan # None
        /\ fork[f].pc # "recv" => kind = "fluentd" /\ f \in ForkOf[kind]

Inv == TypeOK /\ Once(Piles) /\ TagInv /\ WorkerInv /\ ForkInv

(* What a report as good may stand for.                                     *)
Through == arrived \cup refused \cup {m \in Msg : tag[m] \in Bad}

(* The values that Kafka is about to send are those of the batch.           *)
SentInv ==
    kind # "fluentd" =>
        /\ ToSet(successedChan) \subseteq Through
        /\ \A w \in Worker :
              /\ worker[w].pc = "good" => Delivery(w) \subseteq Through
              /\ kind = "kafka" /\ worker[w].pc = "send" =>
                    \A j \in DOMAIN worker[w].delivery :
                        tag[worker[w].delivery[j]] \notin Bad =>
                            kmsg[w][j] = worker[w].delivery[j]

(* With one fork, the shared variables are about the message it holds.      *)
OneFork == "fluentd" \in Kinds => \A f, g \in ForkOf["fluentd"] : f = g

ChildInv ==
    /\ ~panicked
    /\ \A t \in Tag : tag2childInChan[t] \in {None, t} /\ reads[t] \in {None, t}
    /\ kind # "fluentd" => \A t \in Tag : reads[t] = None
    /\ \A t \in Tag : \A m \in ToSet(childChan[t]) : tag[m] = t
    /\ \A t \in Tag : kind = "fluentd" =>
          \A m \in Delivery(t) \cup ToSet(worker[t].batch) : tag[m] = t
    /\ \A f \in Fork :
          /\ fork[f].pc \in {"test", "retest"} =>
                childInChani \in {None, ForkTag(f)} /\ (found <=> childInChani # None)
          /\ fork[f].pc \in {"assign", "reassign"} => childInChani = ForkTag(f)
          /\ fork[f].pc \in {"spawn", "store", "unlock", "send", "blocked"} =>
                childInChan = ForkTag(f)

-----------------------------------------------------------------------------
(* A worker moves.                                                          *)
Pc == {"connect", "select", "send", "write", "good", "bad"}
Slices == UNION {[1 .. n -> Wrap] : n \in 0 .. BatchSize}
WorkerState ==
    [pc : Pc, batch : Batches, delivery : Batches, nRetry : 0 .. MaxRetry, wraps : Slices]

(* What a move does: the worker has its new state, the others keep theirs.  *)
Becomes(w, pc, b, d, n, ws) ==
    /\ worker' = [v \in Worker |-> IF v = w THEN worker'[w] ELSE worker[v]]
    /\ worker'[w] = [pc |-> pc, batch |-> b, delivery |-> d, nRetry |-> n, wraps |-> ws]

(* What the assignment of the model does, for the fields that are named.    *)
LEMMA GoDoes ==
    ASSUME worker \in [Worker -> WorkerState], NEW w \in Worker, NEW r, Go(w, r)
    PROVE  Becomes(w, IF "pc" \in DOMAIN r THEN r.pc ELSE worker[w].pc,
                      IF "batch" \in DOMAIN r THEN r.batch ELSE worker[w].batch,
                      IF "delivery" \in DOMAIN r THEN r.delivery ELSE worker[w].delivery,
                      IF "nRetry" \in DOMAIN r THEN r.nRetry ELSE worker[w].nRetry,
                      IF "wraps" \in DOMAIN r THEN r.wraps ELSE worker[w].wraps)
<1> DEFINE q == worker[w]
           N(k) == IF k \in DOMAIN r THEN r[k] ELSE q[k]
<1>1. worker' = [worker EXCEPT ![w] = [k \in DOMAIN q |-> N(k)]]
  BY DEF Go
<1>2. DOMAIN q = {"pc", "batch", "delivery", "nRetry", "wraps"}
  BY DEF WorkerState
<1>3. worker'[w] = [k \in {"pc", "batch", "delivery", "nRetry", "wraps"} |-> N(k)]
  BY <1>1, <1>2
<1>4. worker' = [v \in Worker |-> IF v = w THEN worker'[w] ELSE worker[v]]
  BY <1>1
<1> HIDE DEF q
<1>5. [k \in {"pc", "batch", "delivery", "nRetry", "wraps"} |-> N(k)] =
        [pc |-> N("pc"), batch |-> N("batch"), delivery |-> N("delivery"),
         nRetry |-> N("nRetry"), wraps |-> N("wraps")]
  OBVIOUS
<1> HIDE DEF N
<1>6. Becomes(w, N("pc"), N("batch"), N("delivery"), N("nRetry"), N("wraps"))
  BY <1>3, <1>4, <1>5 DEF Becomes
<1>7. QED
  BY <1>6 DEF N, q

(* The assignments that the steps of a worker make.                         *)
LEMMA GoPc ==
    ASSUME worker \in [Worker -> WorkerState], NEW w \in Worker, NEW x,
           Go(w, [pc |-> x])
    PROVE  Becomes(w, x, worker[w].batch, worker[w].delivery,
                   worker[w].nRetry, worker[w].wraps)
<1> DEFINE r == [pc |-> x]
<1>1. DOMAIN r = {"pc"}
      /\ r.pc = x
  OBVIOUS
<1> HIDE DEF r
<1>2. Go(w, r)
  BY DEF r
<1>3. QED
  BY <1>1, <1>2, GoDoes

(* Only nRetry is assigned.                                                 *)
LEMMA GoRetry ==
    ASSUME worker \in [Worker -> WorkerState], NEW w \in Worker, NEW n,
           Go(w, [nRetry |-> n])
    PROVE  Becomes(w, worker[w].pc, worker[w].batch, worker[w].delivery,
                   n, worker[w].wraps)
<1> DEFINE r == [nRetry |-> n]
<1>1. DOMAIN r = {"nRetry"}
      /\ r.nRetry = n
  OBVIOUS
<1> HIDE DEF r
<1>2. Go(w, r)
  BY DEF r
<1>3. QED
  BY <1>1, <1>2, GoDoes

(* The state and nRetry are assigned, after a send.                         *)
LEMMA GoPcRetry ==
    ASSUME worker \in [Worker -> WorkerState], NEW w \in Worker, NEW x, NEW n,
           Go(w, [pc |-> x, nRetry |-> n])
    PROVE  Becomes(w, x, worker[w].batch, worker[w].delivery, n, worker[w].wraps)
<1> DEFINE r == [pc |-> x, nRetry |-> n]
<1>1. DOMAIN r = {"pc", "nRetry"}
      /\ r.pc = x /\ r.nRetry = n
  OBVIOUS
<1> HIDE DEF r
<1>2. Go(w, r)
  BY DEF r
<1>3. QED
  BY <1>1, <1>2, GoDoes

(* Only the batch is assigned, when it waits for more.                      *)
LEMMA GoBatch ==
    ASSUME worker \in [Worker -> WorkerState], NEW w \in Worker, NEW b,
           Go(w, [batch |-> b])
    PROVE  Becomes(w, worker[w].pc, b, worker[w].delivery,
                   worker[w].nRetry, worker[w].wraps)
<1> DEFINE r == [batch |-> b]
<1>1. DOMAIN r = {"batch"}
      /\ r.batch = b
  OBVIOUS
<1> HIDE DEF r
<1>2. Go(w, r)
  BY DEF r
<1>3. QED
  BY <1>1, <1>2, GoDoes

(* The batch becomes the delivery.                                          *)
LEMMA GoDeliver ==
    ASSUME worker \in [Worker -> WorkerState], NEW w \in Worker, NEW b, NEW d, NEW n, NEW x,
           Go(w, [batch |-> b, delivery |-> d, nRetry |-> n, pc |-> x])
    PROVE  Becomes(w, x, b, d, n, worker[w].wraps)
<1> DEFINE r == [batch |-> b, delivery |-> d, nRetry |-> n, pc |-> x]
<1>1. DOMAIN r = {"batch", "delivery", "nRetry", "pc"}
      /\ r.batch = b /\ r.delivery = d /\ r.nRetry = n /\ r.pc = x
  OBVIOUS
<1> HIDE DEF r
<1>2. Go(w, r)
  BY DEF r
<1>3. QED
  BY <1>1, <1>2, GoDoes

(* The slices are taken from the pool.                                      *)
LEMMA GoWraps ==
    ASSUME worker \in [Worker -> WorkerState], NEW w \in Worker, NEW x, NEW ws,
           Go(w, [pc |-> x, wraps |-> ws])
    PROVE  Becomes(w, x, worker[w].batch, worker[w].delivery, worker[w].nRetry, ws)
<1> DEFINE r == [pc |-> x, wraps |-> ws]
<1>1. DOMAIN r = {"pc", "wraps"}
      /\ r.pc = x /\ r.wraps = ws
  OBVIOUS
<1> HIDE DEF r
<1>2. Go(w, r)
  BY DEF r
<1>3. QED
  BY <1>1, <1>2, GoDoes

(* The slices are given back, after a send.                                 *)
LEMMA GoPcRetryWraps ==
    ASSUME worker \in [Worker -> WorkerState], NEW w \in Worker, NEW x, NEW n, NEW ws,
           Go(w, [pc |-> x, nRetry |-> n, wraps |-> ws])
    PROVE  Becomes(w, x, worker[w].batch, worker[w].delivery, n, ws)
<1> DEFINE r == [pc |-> x, nRetry |-> n, wraps |-> ws]
<1>1. DOMAIN r = {"pc", "nRetry", "wraps"}
      /\ r.pc = x /\ r.nRetry = n /\ r.wraps = ws
  OBVIOUS
<1> HIDE DEF r
<1>2. Go(w, r)
  BY DEF r
<1>3. QED
  BY <1>1, <1>2, GoDoes

(* The delivery gets shorter.                                               *)
LEMMA GoReport ==
    ASSUME worker \in [Worker -> WorkerState], NEW w \in Worker, NEW d, NEW x,
           Go(w, [delivery |-> d, pc |-> x])
    PROVE  Becomes(w, x, worker[w].batch, d, worker[w].nRetry, worker[w].wraps)
<1> DEFINE r == [delivery |-> d, pc |-> x]
<1>1. DOMAIN r = {"delivery", "pc"}
      /\ r.delivery = d /\ r.pc = x
  OBVIOUS
<1> HIDE DEF r
<1>2. Go(w, r)
  BY DEF r
<1>3. QED
  BY <1>1, <1>2, GoDoes

-----------------------------------------------------------------------------
(* Messages move between piles.                                             *)
Layout == [Home -> Seq(Msg)]

Alike(P, Q, S) == \A h \in Home \ S : Q[h] = P[h]

Adds(P, Q, h, m) == Q[h] = Append(P[h], m) /\ Alike(P, Q, {h})
Drops(P, Q, h) == P[h] # <<>> /\ Q[h] = Tail(P[h]) /\ Alike(P, Q, {h})
Moves(P, Q, g, h) ==
    /\ g # h /\ P[g] # <<>> /\ Alike(P, Q, {g, h})
    /\ Q[g] = Tail(P[g]) /\ Q[h] = Append(P[h], Head(P[g]))
Passes(P, Q, g, h) ==
    /\ g # h /\ P[h] = <<>> /\ Alike(P, Q, {g, h})
    /\ Q[g] = <<>> /\ Q[h] = P[g]

(* A message that was in no pile is added to one.                           *)
LEMMA AddsOnce ==
    ASSUME NEW P \in Layout, NEW Q \in Layout, NEW h \in Home, NEW m \in Msg,
           Once(P), Adds(P, Q, h, m), \A g \in Home : m \notin ToSet(P[g])
    PROVE  /\ Once(Q)
           /\ \A g \in Home : ToSet(Q[g]) = IF g = h THEN ToSet(P[g]) \cup {m} ELSE ToSet(P[g])
<1>1. \A g \in Home : P[g] \in Seq(Msg) /\ IsInjective(P[g])
  BY DEF Layout, Once
<1>2. ToSet(Q[h]) = ToSet(P[h]) \cup {m} /\ IsInjective(Q[h])
  BY <1>1, SendTo, SendOnce DEF Adds
<1>3. \A g \in Home : g # h => Q[g] = P[g]
  BY DEF Adds, Alike
<1>4. \A g \in Home : IsInjective(Q[g])
  BY <1>1, <1>2, <1>3
<1>5. ASSUME NEW f \in Home, NEW g \in Home, f # g
      PROVE  ToSet(Q[f]) \cap ToSet(Q[g]) = {}
  <2>1. ToSet(P[f]) \cap ToSet(P[g]) = {}
    BY <1>5 DEF Once
  <2>2. QED
    BY <1>2, <1>3, <1>5, <2>1
<1>6. QED
  BY <1>2, <1>3, <1>4, <1>5 DEF Once

(* The oldest message of a pile is taken away.                              *)
LEMMA DropsOnce ==
    ASSUME NEW P \in Layout, NEW Q \in Layout, NEW h \in Home,
           Once(P), Drops(P, Q, h)
    PROVE  /\ Once(Q) /\ Head(P[h]) \in Msg
           /\ ToSet(P[h]) = ToSet(Q[h]) \cup {Head(P[h])}
           /\ \A g \in Home : Head(P[h]) \notin ToSet(Q[g])
           /\ \A g \in Home : g # h => Q[g] = P[g]
<1>1. \A g \in Home : P[g] \in Seq(Msg) /\ IsInjective(P[g])
  BY DEF Layout, Once
<1>2. /\ ToSet(P[h]) = ToSet(Q[h]) \cup {Head(P[h])} /\ IsInjective(Q[h])
      /\ Head(P[h]) \notin ToSet(Q[h]) /\ Head(P[h]) \in Msg
  BY <1>1, ReceiveFrom, ReceiveOnce DEF Drops
<1>3. \A g \in Home : g # h => Q[g] = P[g]
  BY DEF Drops, Alike
<1>4. QED
  BY <1>1, <1>2, <1>3 DEF Once

(* The oldest message of a pile goes to another.                            *)
LEMMA MovesOnce ==
    ASSUME NEW P \in Layout, NEW Q \in Layout, NEW g \in Home, NEW h \in Home,
           Once(P), Moves(P, Q, g, h)
    PROVE  /\ Once(Q) /\ Head(P[g]) \in ToSet(P[g]) /\ Head(P[g]) \in Msg
           /\ ToSet(P[g]) = ToSet(Q[g]) \cup {Head(P[g])}
           /\ ToSet(Q[h]) = ToSet(P[h]) \cup {Head(P[g])}
           /\ \A k \in Home \ {g, h} : ToSet(Q[k]) = ToSet(P[k])
<1> DEFINE R == [k \in Home |-> IF k = g THEN Tail(P[g]) ELSE P[k]]
           m == Head(P[g])
<1>1. P[g] \in Seq(Msg) /\ P[g] # <<>>
  BY DEF Layout, Moves
<1>2. R \in Layout
  BY <1>1, ReceiveFrom DEF Layout
<1>3. Drops(P, R, g)
  BY <1>1 DEF Drops, Alike
<1>4. Adds(R, Q, h, m)
  BY DEF Adds, Moves, Alike
<1> HIDE DEF R
<1>5. /\ Once(R) /\ m \in Msg /\ ToSet(P[g]) = ToSet(R[g]) \cup {m}
      /\ \A k \in Home : m \notin ToSet(R[k])
      /\ \A k \in Home : k # g => R[k] = P[k]
  BY <1>2, <1>3, DropsOnce
<1>6. /\ Once(Q)
      /\ \A k \in Home : ToSet(Q[k]) = IF k = h THEN ToSet(R[k]) \cup {m} ELSE ToSet(R[k])
  BY SMTT(30), <1>2, <1>4, <1>5, AddsOnce
<1>7. g # h
  BY DEF Moves
<1>8. QED
  BY <1>5, <1>6, <1>7

(* A whole pile goes to an empty one.                                       *)
LEMMA PassesOnce ==
    ASSUME NEW P \in Layout, NEW Q \in Layout, NEW g \in Home, NEW h \in Home,
           Once(P), Passes(P, Q, g, h)
    PROVE  /\ Once(Q)
           /\ ToSet(Q[g]) = {} /\ ToSet(Q[h]) = ToSet(P[g]) /\ ToSet(P[h]) = {}
           /\ \A k \in Home \ {g, h} : ToSet(Q[k]) = ToSet(P[k])
<1>1. IsInjective(<<>>) /\ ToSet(<<>>) = {}
  BY NewChan DEF IsInjective
<1>2. \A k \in Home \ {g, h} : Q[k] = P[k]
  BY DEF Passes, Alike
<1>3. QED
  BY <1>1, <1>2 DEF Once, Passes

-----------------------------------------------------------------------------
(* Types.                                                                   *)

(* The sizes are positive.                                                  *)
LEMMA Sizes ==
    /\ BatchSize \in Nat \ {0} /\ MaxRetry \in Nat \ {0}
    /\ InChanSize \in Nat \ {0} /\ ReportSize \in Nat \ {0}
BY SendersAssumption

(* None is nothing else.                                                    *)
LEMMA Nones == None \notin Msg /\ None \notin Tag /\ None \notin Fork /\ None \notin Wrap
BY SendersAssumption

(* A batch is a sequence of messages that is not too long.                  *)
LEMMA BatchIs ==
    /\ \A b \in Batches : b \in Seq(Msg) /\ Len(b) \in Nat /\ Len(b) <= BatchSize
    /\ \A b \in Seq(Msg) : Len(b) <= BatchSize => b \in Batches
<1>1. ASSUME NEW b \in Batches PROVE b \in Seq(Msg) /\ Len(b) \in Nat /\ Len(b) <= BatchSize
  <2>1. PICK n \in 0 .. BatchSize : b \in [1 .. n -> Msg]
    BY DEF Batches
  <2>2. n \in Nat /\ n <= BatchSize
    BY <2>1, Sizes
  <2>3. b \in Seq(Msg)
    BY <2>1, <2>2, SeqDef
  <2>4. Len(b) = n
    BY <2>1, <2>2, <2>3, LenProperties
  <2>5. QED
    BY <2>2, <2>3, <2>4
<1>2. ASSUME NEW b \in Seq(Msg), Len(b) <= BatchSize PROVE b \in Batches
  <2>1. Len(b) \in 0 .. BatchSize /\ b \in [1 .. Len(b) -> Msg]
    BY <1>2, Sizes, LenProperties
  <2>2. QED
    BY <2>1 DEF Batches
<1>3. QED
  BY <1>1, <1>2

(* The empty batch is one.                                                  *)
LEMMA NoBatch == <<>> \in Batches
<1>1. <<>> \in Seq(Msg) /\ Len(<<>>) = 0
  BY NewChan
<1>2. 0 <= BatchSize
  BY Sizes
<1>3. QED
  BY <1>1, <1>2, BatchIs

(* The part of TypeOK that is about the workers.                            *)
LEMMA WorkerTyped == TypeOK => worker \in [Worker -> WorkerState]
BY DEF TypeOK, WorkerState, Pc, Slices

(* A move to a state of the right type keeps the type of worker.            *)
LEMMA BecomesTyped ==
    ASSUME worker \in [Worker -> WorkerState], NEW w \in Worker,
           NEW pc \in Pc, NEW b \in Batches, NEW d \in Batches,
           NEW n \in 0 .. MaxRetry, NEW ws \in Slices, Becomes(w, pc, b, d, n, ws)
    PROVE  worker' \in [Worker -> WorkerState]
<1>1. worker'[w] \in WorkerState
  BY DEF Becomes, WorkerState
<1>2. QED
  BY <1>1 DEF Becomes

(* What a worker holds.                                                     *)
LEMMA Holding ==
    ASSUME TypeOK, NEW w \in Worker
    PROVE  /\ worker[w].pc \in Pc /\ worker[w].batch \in Batches
           /\ worker[w].delivery \in Batches /\ worker[w].nRetry \in 0 .. MaxRetry
           /\ worker[w].wraps \in Slices
<1>1. worker[w] \in WorkerState
  BY WorkerTyped
<1>2. QED
  BY <1>1 DEF WorkerState

(* A batch goes out or waits.                                               *)
LEMMA DeliverDoes ==
    ASSUME TypeOK, NEW w \in Worker, NEW b, Deliver(w, b)
    PROVE  Becomes(w, "send", <<>>, b, 0, worker[w].wraps)
BY WorkerTyped, GoDeliver DEF Deliver

(* The same, when the batch may also wait for more.                         *)
LEMMA DeliverOrWaitDoes ==
    ASSUME TypeOK, NEW w \in Worker, NEW b, DeliverOrWait(w, b)
    PROVE  \/ Deliver(w, b) /\ Becomes(w, "send", <<>>, b, 0, worker[w].wraps)
           \/ /\ Becomes(w, worker[w].pc, b, worker[w].delivery, worker[w].nRetry,
                         worker[w].wraps)
              /\ Len(b) < BatchSize /\ kind # "stdout" /\ UNCHANGED kmsg
BY WorkerTyped, DeliverDoes, GoBatch DEF DeliverOrWait

(* The values of Kafka are messages, or nothing.                            *)
LEMMA ValuesTyped ==
    ASSUME TypeOK, NEW w \in Worker, NEW b \in Batches
    PROVE  Values(w, b) \in [1 .. BatchSize -> Msg \cup {None}]
<1>1. b \in Seq(Msg)
  BY BatchIs
<1>2. \A j \in DOMAIN b : b[j] \in Msg
  BY <1>1, ElementOfSeq, LenProperties
<1>3. \A j \in 1 .. BatchSize : kmsg[w][j] \in Msg \cup {None}
  <2>1. kmsg \in [Worker -> [1 .. BatchSize -> Msg \cup {None}]]
    BY DEF TypeOK, MsgOrNone
  <2>2. QED
    BY <2>1
<1>4. QED
  BY <1>2, <1>3 DEF Values

(* A batch that goes out keeps the types of worker and kmsg.                *)
LEMMA DeliverTyped ==
    ASSUME TypeOK, NEW w \in Worker, NEW b \in Batches, Deliver(w, b)
    PROVE  /\ worker' \in [Worker -> WorkerState]
           /\ kmsg' \in [Worker -> [1 .. BatchSize -> MsgOrNone]]
<1>1. worker' \in [Worker -> WorkerState]
  <2>1. Becomes(w, "send", <<>>, b, 0, worker[w].wraps)
    BY DeliverDoes
  <2>2. "send" \in Pc /\ 0 \in 0 .. MaxRetry /\ worker[w].wraps \in Slices
    BY Sizes, Holding DEF Pc
  <2>3. QED
    BY <2>1, <2>2, NoBatch, WorkerTyped, BecomesTyped
<1>2. kmsg \in [Worker -> [1 .. BatchSize -> MsgOrNone]]
  BY DEF TypeOK
<1>3. Values(w, b) \in [1 .. BatchSize -> MsgOrNone]
  BY ValuesTyped DEF MsgOrNone
<1>4. QED
  BY <1>1, <1>2, <1>3 DEF Deliver

-----------------------------------------------------------------------------
(* What the steps of a worker do.                                           *)

(* A worker takes the oldest message of the channel, or of its child's.     *)
TakesFrom(w, m) ==
    \/ /\ kind # "fluentd" /\ inChan # <<>> /\ m = Head(inChan)
       /\ inChan' = Tail(inChan) /\ UNCHANGED childChan
    \/ /\ kind = "fluentd" /\ w \in Tag /\ reads[w] \in Tag
       /\ childChan[reads[w]] # <<>> /\ m = Head(childChan[reads[w]])
       /\ childChan' = [childChan EXCEPT ![reads[w]] = Tail(@)] /\ UNCHANGED inChan

(* TakeMsg, as a step that takes some message m.                            *)
LEMMA TakeMsgDoes ==
    ASSUME Inv, NEW w \in Worker, TakeMsg(w)
    PROVE  \E m \in Msg :
              /\ worker[w].pc = "select" /\ worker[w].delivery = <<>>
              /\ Append(worker[w].batch, m) \in Batches
              /\ DeliverOrWait(w, Append(worker[w].batch, m))
              /\ TakesFrom(w, m)
              /\ inChan' \in Seq(Msg) /\ Len(inChan') <= InChanSize
              /\ childChan' \in [Tag -> Seq(Msg)]
              /\ \A t \in Tag : Len(childChan'[t]) <= InChanSize
<1>0. worker[w].pc = "select" /\ worker[w].delivery = <<>>
  BY DEF TakeMsg, At, Inv, WorkerInv
<1>1. /\ inChan \in Seq(Msg) /\ Len(inChan) <= InChanSize
      /\ childChan \in [Tag -> Seq(Msg)]
      /\ \A t \in Tag : Len(childChan[t]) <= InChanSize
      /\ reads \in [Tag -> Tag \cup {None}]
  BY DEF Inv, TypeOK
<1>2. ASSUME NEW m \in Msg PROVE Append(worker[w].batch, m) \in Batches
  <2>1. worker[w].batch \in Seq(Msg) /\ Len(worker[w].batch) \in Nat
    BY Holding, BatchIs DEF Inv
  <2>2. Len(worker[w].batch) < BatchSize
    BY DEF Inv, WorkerInv
  <2>3. /\ Append(worker[w].batch, m) \in Seq(Msg)
        /\ Len(Append(worker[w].batch, m)) = Len(worker[w].batch) + 1
    BY <2>1, SendTo
  <2>4. Len(Append(worker[w].batch, m)) <= BatchSize
    BY <2>1, <2>2, <2>3, Sizes
  <2>5. QED
    BY <2>3, <2>4, BatchIs
<1>3. CASE kind # "fluentd"
  <2>1. /\ inChan # <<>> /\ inChan' = Tail(inChan) /\ UNCHANGED childChan
        /\ DeliverOrWait(w, Append(worker[w].batch, Head(inChan)))
    BY <1>3 DEF TakeMsg
  <2>2. Head(inChan) \in Msg /\ Tail(inChan) \in Seq(Msg) /\ Len(Tail(inChan)) <= InChanSize
    BY <1>1, <2>1, ReceiveFrom, Sizes
  <2>3. TakesFrom(w, Head(inChan))
    BY <1>3, <2>1 DEF TakesFrom
  <2>4. QED
    BY <1>0, <1>1, <1>2, <2>1, <2>2, <2>3
<1>4. CASE kind = "fluentd"
  <2> DEFINE c == reads[w]
  <2>1. c \in Tag /\ w \in Tag
    BY <1>1, <1>4 DEF TakeMsg, At
  <2>2. /\ childChan[c] # <<>> /\ childChan' = [childChan EXCEPT ![c] = Tail(@)]
        /\ DeliverOrWait(w, Append(worker[w].batch, Head(childChan[c])))
        /\ UNCHANGED inChan
    BY <1>4 DEF TakeMsg
  <2>3. TakesFrom(w, Head(childChan[c]))
    BY <1>4, <2>1, <2>2 DEF TakesFrom
  <2> HIDE DEF c
  <2>4. /\ Head(childChan[c]) \in Msg /\ Tail(childChan[c]) \in Seq(Msg)
        /\ Len(Tail(childChan[c])) <= InChanSize
    <3>1. childChan[c] \in Seq(Msg) /\ Len(childChan[c]) <= InChanSize
      BY <1>1, <2>1
    <3>2. QED
      BY <2>2, <3>1, ReceiveFrom, Sizes
  <2>5. /\ childChan' \in [Tag -> Seq(Msg)]
        /\ \A t \in Tag : Len(childChan'[t]) <= InChanSize
    BY <1>1, <2>1, <2>2, <2>4
  <2>6. QED
    BY <1>0, <1>1, <1>2, <2>2, <2>3, <2>4, <2>5
<1>5. QED
  BY <1>3, <1>4

(* A send leaves batch and delivery as they are.                            *)
Proceeds(w) ==
    \E pc \in {"send", "write", "good", "bad"}, n \in 0 .. MaxRetry, ws \in Slices :
        Becomes(w, pc, worker[w].batch, worker[w].delivery, n, ws)

(* A send that succeeded.                                                   *)
LEMMA SentDoes ==
    ASSUME TypeOK, NEW w \in Worker, NEW S, Sent(w, S)
    PROVE  Proceeds(w) /\ arrived' = arrived \cup S
           /\ worker'[w].pc = "good"
<1>1. Becomes(w, "good", worker[w].batch, worker[w].delivery, 0, worker[w].wraps)
  BY WorkerTyped, GoPcRetry DEF Sent
<1>2. QED
  BY <1>1, Sizes, Holding DEF Proceeds, Becomes, Sent

(* A send that failed, and is tried again or given up.                      *)
LEMMA RetryDoes ==
    ASSUME TypeOK, NEW w \in Worker, NEW S, Retry(w, S), worker[w].pc = "send"
    PROVE  Proceeds(w) /\ arrived' = arrived \cup S
           /\ worker'[w].pc \in {"send", "bad"}
<1> DEFINE n == worker[w].nRetry + 1
<1>0. worker[w].nRetry \in 0 .. MaxRetry
  BY Holding
<1>1. CASE n > MaxRetry
  <2>1. Go(w, [pc |-> "bad", nRetry |-> 0])
    BY <1>1 DEF Retry
  <2>2. Becomes(w, "bad", worker[w].batch, worker[w].delivery, 0, worker[w].wraps)
    BY <2>1, WorkerTyped, GoPcRetry
  <2>3. QED
    BY <2>2, Sizes, Holding DEF Proceeds, Becomes, Retry
<1>2. CASE ~(n > MaxRetry)
  <2>1. Go(w, [nRetry |-> n])
    BY <1>2 DEF Retry
  <2>2. Becomes(w, "send", worker[w].batch, worker[w].delivery, n, worker[w].wraps)
    BY <2>1, WorkerTyped, GoRetry
  <2>3. n \in 0 .. MaxRetry
    BY <1>0, <1>2, Sizes
  <2> HIDE DEF n
  <2>4. QED
    BY <2>2, <2>3, Holding DEF Proceeds, Becomes, Retry
<1>3. QED
  BY <1>1, <1>2

(* A send keeps the type of worker.                                         *)
LEMMA ProceedsTyped ==
    ASSUME TypeOK, NEW w \in Worker, Proceeds(w)
    PROVE  worker' \in [Worker -> WorkerState]
<1>1. PICK pc \in {"send", "write", "good", "bad"}, n \in 0 .. MaxRetry, ws \in Slices :
          Becomes(w, pc, worker[w].batch, worker[w].delivery, n, ws)
  BY DEF Proceeds
<1>2. pc \in Pc
  BY DEF Pc
<1>3. QED
  BY <1>1, <1>2, Holding, WorkerTyped, BecomesTyped

(* A finite set of numbers that is not empty has a greatest element.        *)
LEMMA GreatestOf ==
    ASSUME NEW n \in Nat, NEW S, S \subseteq 1 .. n, S # {}
    PROVE  Max(S) \in S
<1> DEFINE T == {k \in Nat : \A y \in S : y <= k}
<1>1. n \in T
  OBVIOUS
<1>2. T \subseteq Nat /\ \A k : k \in T <=> k \in Nat /\ \A y \in S : y <= k
  OBVIOUS
<1> HIDE DEF T
<1>3. PICK x \in T : \A y \in T : x <= y
  BY <1>1, <1>2, LeastOf
<1>4. x \in S
  <2> SUFFICES ASSUME x \notin S PROVE FALSE
    OBVIOUS
  <2>1. PICK z \in S : TRUE
    OBVIOUS
  <2>2. z \in Nat /\ 1 <= z /\ z <= x /\ x \in Nat
    BY <1>2, <1>3, <2>1
  <2>3. \A y \in S : y \in Nat /\ y <= x /\ y # x
    BY <1>2, <1>3
  <2>4. x - 1 \in T
    BY <1>2, <2>2, <2>3
  <2>5. QED
    BY <1>3, <2>2, <2>4
<1>5. \A y \in S : x >= y
  BY <1>2, <1>3
<1>6. QED
  BY <1>4, <1>5 DEF Max

(* A count is a number, at most the length.                                 *)
LEMMA CountIs ==
    ASSUME NEW S, NEW s \in Seq(S), NEW a
    PROVE  Count(a, s) \in Nat
<1>1. IsFiniteSet(1 .. Len(s)) /\ DOMAIN s = 1 .. Len(s)
  BY LenProperties, FS_Interval
<1>2. IsFiniteSet({j \in DOMAIN s : s[j] = a})
  BY <1>1, FS_Subset
<1>3. QED
  BY <1>2, FS_CardinalityType DEF Count

(* Slices are sequences, one for each message of a batch.                   *)
LEMMA SlicesAre ==
    /\ <<>> \in Slices
    /\ \A ws \in Slices : ws \in Seq(Wrap) /\ Len(ws) \in Nat
    /\ \A b \in Batches : \A s \in [DOMAIN b -> Wrap] :
          s \in Slices /\ DOMAIN s = 1 .. Len(s) /\ DOMAIN b = DOMAIN s
<1>1. <<>> \in Slices
  <2>1. <<>> \in [1 .. 0 -> Wrap]
    OBVIOUS
  <2>2. QED
    BY <2>1, Sizes DEF Slices
<1>2. ASSUME NEW ws \in Slices PROVE ws \in Seq(Wrap) /\ Len(ws) \in Nat
  <2>1. PICK n \in 0 .. BatchSize : ws \in [1 .. n -> Wrap]
    BY DEF Slices
  <2>2. n \in Nat
    BY <2>1, Sizes
  <2>3. ws \in Seq(Wrap)
    BY <2>1, <2>2, SeqDef
  <2>4. QED
    BY <2>3, LenProperties
<1>3. ASSUME NEW b \in Batches, NEW s \in [DOMAIN b -> Wrap]
      PROVE  s \in Slices /\ DOMAIN s = 1 .. Len(s) /\ DOMAIN b = DOMAIN s
  <2>1. PICK n \in 0 .. BatchSize : b \in [1 .. n -> Msg]
    BY DEF Batches
  <2>2. s \in [1 .. n -> Wrap]
    BY <2>1
  <2>3. s \in Slices
    BY <2>2 DEF Slices
  <2>4. s \in Seq(Wrap)
    BY <1>2, <2>3
  <2>5. QED
    BY <2>3, <2>4, LenProperties
<1>4. QED
  BY <1>1, <1>2, <1>3

(* Filling the slices of a batch.                                           *)
LEMMA EncodeFillDoes ==
    ASSUME TypeOK, NEW w \in Worker, EncodeFill(w)
    PROVE  /\ Proceeds(w)
           /\ wrapPool' \in [Wrap -> 0 .. BatchSize] /\ wrapMsg' \in [Wrap -> MsgOrNone]
<1> DEFINE b == worker[w].delivery
<1>1. PICK s \in [DOMAIN b -> Wrap] :
         /\ wrapPool' = [a \in Wrap |-> IF wrapPool[a] < Count(a, s) THEN 0
                                        ELSE wrapPool[a] - Count(a, s)]
         /\ wrapMsg' = [a \in Wrap |->
                IF a \in ToSet(s) THEN b[SelectLastInSubSeq(s, 1, Len(s), LAMBDA x : x = a)]
                ELSE wrapMsg[a]]
         /\ Go(w, [pc |-> "write", wraps |-> s])
  BY DEF EncodeFill
<1>2. b \in Batches /\ b \in Seq(Msg)
  BY Holding, BatchIs
<1>3. s \in Slices /\ s \in Seq(Wrap) /\ DOMAIN s = 1 .. Len(s) /\ DOMAIN b = DOMAIN s
  BY <1>1, <1>2, SlicesAre
<1>4. Proceeds(w)
  <2>1. Becomes(w, "write", worker[w].batch, worker[w].delivery, worker[w].nRetry, s)
    BY <1>1, WorkerTyped, GoWraps
  <2>2. QED
    BY <1>3, <2>1, Holding DEF Proceeds
<1>5. wrapPool \in [Wrap -> 0 .. BatchSize] /\ wrapMsg \in [Wrap -> MsgOrNone]
  BY DEF TypeOK
<1>6. wrapPool' \in [Wrap -> 0 .. BatchSize]
  <2>1. ASSUME NEW a \in Wrap
        PROVE  (IF wrapPool[a] < Count(a, s) THEN 0 ELSE wrapPool[a] - Count(a, s))
                  \in 0 .. BatchSize
    <3>1. Count(a, s) \in Nat
      BY <1>3, CountIs
    <3>2. QED
      BY <1>5, <3>1, Sizes
  <2>2. QED
    BY <1>1, <2>1
<1>7. wrapMsg' \in [Wrap -> MsgOrNone]
  <2>1. ASSUME NEW a \in Wrap, a \in ToSet(s)
        PROVE  b[SelectLastInSubSeq(s, 1, Len(s), LAMBDA x : x = a)] \in MsgOrNone
    <3> DEFINE I == {i \in 1 .. Len(s) : s[i] = a}
    <3>1. I # {} /\ I \subseteq 1 .. Len(s) /\ Len(s) \in Nat
      BY <1>3, <2>1, LenProperties DEF ToSet
    <3>2. SelectLastInSubSeq(s, 1, Len(s), LAMBDA x : x = a) = Max(I)
      BY <3>1 DEF SelectLastInSubSeq
    <3> HIDE DEF I
    <3>3. Max(I) \in DOMAIN b
      BY <1>3, <3>1, GreatestOf
    <3>4. QED
      BY <1>2, <3>2, <3>3, LenProperties DEF MsgOrNone
  <2>2. QED
    BY <1>1, <1>5, <2>1
<1>8. QED
  BY <1>4, <1>6, <1>7

(* Writing the records, and putting the slices back.                        *)
LEMMA EncodeWriteDoes ==
    ASSUME TypeOK, NEW w \in Worker, EncodeWrite(w)
    PROVE  /\ Proceeds(w)
           /\ wrapPool' \in [Wrap -> 0 .. BatchSize] /\ wrapMsg' \in [Wrap -> MsgOrNone]
           /\ arrived' \subseteq Msg
<1> DEFINE s == worker[w].wraps
           tries == worker[w].nRetry + 1
<1>1. s \in Slices /\ Len(s) \in Nat /\ worker[w].nRetry \in 0 .. MaxRetry
  BY Holding, SlicesAre
<1>2. wrapPool \in [Wrap -> 0 .. BatchSize] /\ wrapMsg \in [Wrap -> MsgOrNone]
      /\ arrived \subseteq Msg
  BY DEF TypeOK
<1>3. wrapPool' \in [Wrap -> 0 .. BatchSize]
  <2> DEFINE n == wrapPool[Last(s)] + Len(s)
  <2>1. wrapPool' = [wrapPool EXCEPT ![Last(s)] = IF n > BatchSize THEN BatchSize ELSE n]
    BY DEF EncodeWrite, Recycle
  <2>2. Last(s) \in Wrap => (IF n > BatchSize THEN BatchSize ELSE n) \in 0 .. BatchSize
    BY <1>1, <1>2, Sizes
  <2> HIDE DEF n
  <2>3. QED
    BY <1>2, <2>1, <2>2
<1>4. wrapMsg' \in [Wrap -> MsgOrNone]
  BY <1>2 DEF EncodeWrite, MsgOrNone
<1>5. arrived' \subseteq Msg
  <2>1. {wrapMsg[a] : a \in Wrap} \subseteq Msg \cup {None}
    BY <1>2 DEF MsgOrNone
  <2>2. ToSet(s) \subseteq Wrap
    BY <1>1, SlicesAre, LenProperties DEF ToSet
  <2>3. QED
    BY <1>2, <2>1, <2>2 DEF EncodeWrite
<1>6. Proceeds(w)
  <2>1. ASSUME NEW pc \in {"send", "good", "bad"}, NEW n \in 0 .. MaxRetry,
               Go(w, [pc |-> pc, nRetry |-> n, wraps |-> <<>>])
        PROVE  Proceeds(w)
    BY <2>1, WorkerTyped, GoPcRetryWraps, SlicesAre DEF Proceeds
  <2>2. CASE Go(w, [pc |-> "good", nRetry |-> 0, wraps |-> <<>>])
    BY <2>1, <2>2, Sizes
  <2>3. CASE tries >= MaxRetry /\ Go(w, [pc |-> "bad", nRetry |-> 0, wraps |-> <<>>])
    BY <2>1, <2>3, Sizes
  <2>4. CASE ~(tries >= MaxRetry) /\ Go(w, [pc |-> "send", nRetry |-> tries, wraps |-> <<>>])
    <3>1. tries \in 0 .. MaxRetry
      BY <1>1, <2>4, Sizes
    <3> HIDE DEF tries
    <3>2. QED
      BY <2>1, <2>4, <3>1
  <2>5. QED
    BY <2>2, <2>3, <2>4 DEF EncodeWrite
<1>7. QED
  BY <1>3, <1>4, <1>5, <1>6

(* The sends of Kafka, Elasticsearch and stdout.                            *)
SendsPlain(w) == KafkaSend(w) \/ BulkSend(w) \/ StdoutSend(w)

(* Each of them leaves batch and delivery alone.                            *)
LEMMA SendsPlainDoes ==
    ASSUME TypeOK, NEW w \in Worker, SendsPlain(w)
    PROVE  Proceeds(w) /\ arrived' \subseteq Msg /\ refused' \subseteq Msg
<1>0. /\ arrived \subseteq Msg /\ refused \subseteq Msg
      /\ kmsg \in [Worker -> [1 .. BatchSize -> MsgOrNone]]
  BY DEF TypeOK
<1>1. worker[w].delivery \in Seq(Msg) /\ Delivery(w) \subseteq Msg
      /\ DOMAIN worker[w].delivery \subseteq 1 .. BatchSize
  <2>1. worker[w].delivery \in Seq(Msg) /\ Len(worker[w].delivery) \in Nat
        /\ Len(worker[w].delivery) <= BatchSize
    BY Holding, BatchIs
  <2>2. \A j \in DOMAIN worker[w].delivery : worker[w].delivery[j] \in Msg
    BY <2>1, LenProperties
  <2>3. DOMAIN worker[w].delivery \subseteq 1 .. BatchSize
    BY <2>1, LenProperties, Sizes
  <2>4. QED
    BY <2>1, <2>2, <2>3 DEF Delivery, ToSet
<1>2. CASE KafkaSend(w)
  <2> DEFINE values == {kmsg[w][j] : j \in DOMAIN worker[w].delivery} \ {None}
  <2>1. values \subseteq Msg
    BY <1>0, <1>1 DEF MsgOrNone
  <2>2. worker[w].pc = "send" /\ UNCHANGED refused
    BY <1>2 DEF KafkaSend, At
  <2>3. Sent(w, values) \/ \E S \in SUBSET values : Retry(w, S)
    BY <1>2 DEF KafkaSend
  <2> HIDE DEF values
  <2>4. QED
    BY <1>0, <2>1, <2>2, <2>3, SentDoes, RetryDoes
<1>3. CASE BulkSend(w)
  <2> DEFINE cnt == {m \in Delivery(w) : tag[m] \notin Bad}
  <2>1. cnt \subseteq Msg
    BY <1>1
  <2>2. worker[w].pc = "send"
    BY <1>3 DEF BulkSend, At
  <2>3. \/ \E S \in SUBSET cnt : Sent(w, S) /\ refused' = refused \cup (cnt \ S)
        \/ (\E S \in SUBSET cnt : Retry(w, S)) /\ UNCHANGED refused
    BY <1>3 DEF BulkSend
  <2> HIDE DEF cnt
  <2>4. QED
    BY <1>0, <2>1, <2>2, <2>3, SentDoes, RetryDoes
<1>4. CASE StdoutSend(w)
  <2>1. Go(w, [pc |-> IF IsCommit THEN "good" ELSE "bad"])
        /\ arrived' = arrived \cup Delivery(w) /\ UNCHANGED refused
    BY <1>4 DEF StdoutSend
  <2>2. Becomes(w, IF IsCommit THEN "good" ELSE "bad", worker[w].batch,
                worker[w].delivery, worker[w].nRetry, worker[w].wraps)
    BY <2>1, WorkerTyped, GoPc
  <2>3. QED
    BY <1>0, <1>1, <2>1, <2>2, Holding DEF Proceeds
<1>5. QED
  BY <1>2, <1>3, <1>4 DEF SendsPlain

(* A report takes the oldest message of the delivery.                       *)
Reports(w) ==
    \E pc \in Pc :
        /\ Becomes(w, pc, worker[w].batch, Tail(worker[w].delivery), worker[w].nRetry,
                   worker[w].wraps)
        /\ pc \in {"connect", "select"} <=> Tail(worker[w].delivery) = <<>>
        /\ pc \in {"connect", "select", worker[w].pc}

(* The assignment of ReportGood and ReportBad is such a report.             *)
LEMMA ReportsDoes ==
    ASSUME Inv, NEW w \in Worker, worker[w].pc \in {"good", "bad"}, Go(w, AfterReport(w))
    PROVE  /\ Reports(w) /\ worker' \in [Worker -> WorkerState]
           /\ worker[w].delivery \in Seq(Msg) /\ worker[w].delivery # <<>>
           /\ Head(worker[w].delivery) \in Msg
<1> DEFINE rest == Tail(worker[w].delivery)
           pc == IF rest # <<>> THEN worker[w].pc
                 ELSE IF worker[w].pc = "bad" /\ kind \in {"kafka", "fluentd"} THEN "connect"
                 ELSE "select"
<1>0. TypeOK
  BY DEF Inv
<1>1. Go(w, [delivery |-> rest, pc |-> pc])
  BY DEF AfterReport
<1>2. Becomes(w, pc, worker[w].batch, rest, worker[w].nRetry, worker[w].wraps)
  BY <1>0, <1>1, WorkerTyped, GoReport
<1>3. /\ worker[w].delivery \in Seq(Msg) /\ Len(worker[w].delivery) <= BatchSize
      /\ worker[w].delivery # <<>>
  BY <1>0, Holding, BatchIs DEF Inv, WorkerInv
<1>4. rest \in Seq(Msg) /\ Len(rest) <= BatchSize /\ Head(worker[w].delivery) \in Msg
  BY <1>3, ReceiveFrom, Sizes
<1>5. rest \in Batches
  BY <1>4, BatchIs
<1>6. pc \in Pc /\ (pc \in {"connect", "select"} <=> rest = <<>>)
      /\ pc \in {"connect", "select", worker[w].pc}
  BY DEF Pc
<1> HIDE DEF rest, pc
<1>7. worker' \in [Worker -> WorkerState]
  BY <1>0, <1>2, <1>5, <1>6, Holding, WorkerTyped, BecomesTyped
<1>8. Reports(w)
  BY <1>2, <1>6 DEF Reports, rest
<1>9. QED
  BY <1>3, <1>4, <1>7, <1>8

(* Every step of a worker keeps the types.                                  *)
LEMMA WorkerStepTyped ==
    ASSUME Inv, NEW w \in Worker, WorkerStep(w)
    PROVE  TypeOK'
<1>0. TypeOK /\ worker \in [Worker -> WorkerState]
  BY WorkerTyped DEF Inv
<1>1. CASE Connect(w)
  <2>1. Becomes(w, "select", worker[w].batch, worker[w].delivery, worker[w].nRetry,
                worker[w].wraps)
    BY <1>0, <1>1, GoPc DEF Connect
  <2>2. worker' \in [Worker -> WorkerState]
    BY <1>0, <2>1, Holding, BecomesTyped DEF Pc
  <2>3. QED
    BY <1>0, <1>1, <2>2 DEF Connect, NoReport, TypeOK, WorkerState, Pc, Slices,
       wrapVars, history, reportVars, forkVars
<1>2. CASE TakeMsg(w)
  <2>1. PICK m \in Msg :
              /\ Append(worker[w].batch, m) \in Batches
              /\ DeliverOrWait(w, Append(worker[w].batch, m))
              /\ inChan' \in Seq(Msg) /\ Len(inChan') <= InChanSize
              /\ childChan' \in [Tag -> Seq(Msg)]
              /\ \A t \in Tag : Len(childChan'[t]) <= InChanSize
    BY <1>2, TakeMsgDoes
  <2>2. worker' \in [Worker -> WorkerState] /\ kmsg' \in [Worker -> [1 .. BatchSize -> MsgOrNone]]
    <3>1. CASE Deliver(w, Append(worker[w].batch, m))
      BY <1>0, <2>1, <3>1, DeliverTyped
    <3>2. CASE /\ Becomes(w, worker[w].pc, Append(worker[w].batch, m), worker[w].delivery,
                          worker[w].nRetry, worker[w].wraps)
               /\ UNCHANGED kmsg
      <4>1. worker' \in [Worker -> WorkerState]
        BY <1>0, <2>1, <3>2, Holding, BecomesTyped
      <4>2. QED
        BY <1>0, <3>2, <4>1 DEF TypeOK
    <3>3. QED
      BY <1>0, <2>1, <3>1, <3>2, DeliverOrWaitDoes
  <2>3. QED
    BY <1>0, <1>2, <2>1, <2>2 DEF TakeMsg, NoReport, TypeOK, WorkerState, Pc, Slices,
       wrapVars, history, reportVars, forkVars
<1>3. CASE Tick(w)
  <2>1. worker' \in [Worker -> WorkerState] /\ kmsg' \in [Worker -> [1 .. BatchSize -> MsgOrNone]]
    BY <1>0, <1>3, Holding, DeliverTyped DEF Tick
  <2>2. QED
    BY <1>0, <1>3, <2>1 DEF Tick, NoReport, TypeOK, WorkerState, Pc, Slices,
       wrapVars, history, reportVars, forkVars
<1>4. CASE SendsPlain(w)
  <2>1. /\ worker' \in [Worker -> WorkerState]
        /\ arrived' \subseteq Msg /\ refused' \subseteq Msg
    BY <1>0, <1>4, SendsPlainDoes, ProceedsTyped
  <2>2. NoReport /\ UNCHANGED <<inChan, kmsg, childChan, wrapVars>>
    BY <1>4 DEF SendsPlain, KafkaSend, BulkSend, StdoutSend
  <2>3. QED
    BY <1>0, <2>1, <2>2 DEF NoReport, TypeOK, WorkerState, Pc, Slices,
       wrapVars, history, reportVars, forkVars
<1>5. CASE EncodeFill(w)
  <2>1. /\ worker' \in [Worker -> WorkerState]
        /\ wrapPool' \in [Wrap -> 0 .. BatchSize] /\ wrapMsg' \in [Wrap -> MsgOrNone]
    BY <1>0, <1>5, EncodeFillDoes, ProceedsTyped
  <2>2. NoReport /\ UNCHANGED <<inChan, kmsg, childChan, history>>
    BY <1>5 DEF EncodeFill
  <2>3. QED
    BY <1>0, <2>1, <2>2 DEF NoReport, TypeOK, WorkerState, Pc, Slices,
       wrapVars, history, reportVars, forkVars
<1>6. CASE EncodeWrite(w)
  <2>1. /\ worker' \in [Worker -> WorkerState] /\ arrived' \subseteq Msg
        /\ wrapPool' \in [Wrap -> 0 .. BatchSize] /\ wrapMsg' \in [Wrap -> MsgOrNone]
    BY <1>0, <1>6, EncodeWriteDoes, ProceedsTyped
  <2>2. NoReport /\ UNCHANGED <<inChan, kmsg, childChan, refused>>
    BY <1>6 DEF EncodeWrite
  <2>3. QED
    BY <1>0, <2>1, <2>2 DEF NoReport, TypeOK, WorkerState, Pc, Slices,
       wrapVars, history, reportVars, forkVars
<1>7. CASE ReportGood(w)
  <2>1. worker' \in [Worker -> WorkerState] /\ Head(worker[w].delivery) \in Msg
    BY <1>7, ReportsDoes DEF ReportGood, At
  <2>2. successedChan' \in Seq(Msg) /\ Len(successedChan') <= ReportSize
    <3>1. successedChan \in Seq(Msg) /\ Len(successedChan) \in Nat
      BY <1>0, LenProperties DEF TypeOK
    <3>2. QED
      BY <1>7, <2>1, <3>1, SendTo, Sizes DEF ReportGood
  <2>3. QED
    BY <1>0, <1>7, <2>1, <2>2 DEF ReportGood, TypeOK, WorkerState, Pc, Slices,
       wrapVars, history, forkVars
<1>8. CASE ReportBad(w)
  <2>1. worker' \in [Worker -> WorkerState] /\ Head(worker[w].delivery) \in Msg
    BY <1>8, ReportsDoes DEF ReportBad, At
  <2>2. failedChan' \in Seq(Msg) /\ Len(failedChan') <= ReportSize
    <3>1. failedChan \in Seq(Msg) /\ Len(failedChan) \in Nat
      BY <1>0, LenProperties DEF TypeOK
    <3>2. QED
      BY <1>8, <2>1, <3>1, SendTo, Sizes DEF ReportBad
  <2>3. QED
    BY <1>0, <1>8, <2>1, <2>2 DEF ReportBad, TypeOK, WorkerState, Pc, Slices,
       wrapVars, history, forkVars
<1>9. QED
  BY <1>1, <1>2, <1>3, <1>4, <1>5, <1>6, <1>7, <1>8 DEF WorkerStep, SendsPlain

-----------------------------------------------------------------------------
(* The piles of the sender.                                                 *)

(* The places in a sender: three channels, and those of forks, children and *)
(* workers.                                                                 *)
LEMMA Homes ==
    /\ {InHome, GoodHome, BadHome} \subseteq Home
    /\ \A f \in Fork : ForkHome(f) \in Home
    /\ \A t \in Tag : ChildHome(t) \in Home
    /\ \A w \in Worker : BatchHome(w) \in Home /\ DeliveryHome(w) \in Home
    /\ \A h \in Home : \/ h \in {InHome, GoodHome, BadHome}
                       \/ \E f \in Fork : h = ForkHome(f)
                       \/ \E t \in Tag : h = ChildHome(t)
                       \/ \E w \in Worker : h = BatchHome(w) \/ h = DeliveryHome(w)
BY DEF Home

(* Places of different sorts are different.                                 *)
LEMMA HomesDiffer ==
    /\ InHome # GoodHome /\ InHome # BadHome /\ GoodHome # BadHome
    /\ \A x : {ForkHome(x), ChildHome(x), BatchHome(x), DeliveryHome(x)}
                  \cap {InHome, GoodHome, BadHome} = {}
    /\ \A x, y : /\ ForkHome(x) \notin {ChildHome(y), BatchHome(y), DeliveryHome(y)}
                 /\ ChildHome(x) \notin {BatchHome(y), DeliveryHome(y)}
                 /\ BatchHome(x) # DeliveryHome(y)
BY DEF InHome, GoodHome, BadHome, ForkHome, ChildHome, BatchHome, DeliveryHome

(* A place is that of one fork, child or worker.                            *)
LEMMA HomesOf ==
    \A x, y : /\ ForkHome(x) = ForkHome(y) => x = y
              /\ ChildHome(x) = ChildHome(y) => x = y
              /\ BatchHome(x) = BatchHome(y) => x = y
              /\ DeliveryHome(x) = DeliveryHome(y) => x = y
BY DEF ForkHome, ChildHome, BatchHome, DeliveryHome

(* What is in each place.                                                   *)
LEMMA PilesAre ==
    /\ Piles[InHome] = inChan /\ Piles[GoodHome] = successedChan
    /\ Piles[BadHome] = failedChan
    /\ \A f \in Fork : Piles[ForkHome(f)] = Only(fork[f].msg)
    /\ \A t \in Tag : Piles[ChildHome(t)] = childChan[t]
    /\ \A w \in Worker : /\ Piles[BatchHome(w)] = worker[w].batch
                         /\ Piles[DeliveryHome(w)] = worker[w].delivery
<1>1. \A h \in Home : Piles[h] = Pile(h)
  BY DEF Piles
<1>2. InHome[1] = "in" /\ GoodHome[1] = "good" /\ BadHome[1] = "bad"
  BY DEF InHome, GoodHome, BadHome
<1>3. \A x : /\ ForkHome(x)[1] = "fork" /\ ForkHome(x)[2] = x
             /\ ChildHome(x)[1] = "child" /\ ChildHome(x)[2] = x
             /\ BatchHome(x)[1] = "batch" /\ BatchHome(x)[2] = x
             /\ DeliveryHome(x)[1] = "delivery" /\ DeliveryHome(x)[2] = x
  BY DEF ForkHome, ChildHome, BatchHome, DeliveryHome
<1>4. QED
  BY <1>1, <1>2, <1>3, Homes DEF Pile

(* The same, after a step.                                                  *)
LEMMA PilesAreNext ==
   (/\ Piles[InHome] = inChan /\ Piles[GoodHome] = successedChan
    /\ Piles[BadHome] = failedChan
    /\ \A f \in Fork : Piles[ForkHome(f)] = Only(fork[f].msg)
    /\ \A t \in Tag : Piles[ChildHome(t)] = childChan[t]
    /\ \A w \in Worker : /\ Piles[BatchHome(w)] = worker[w].batch
                         /\ Piles[DeliveryHome(w)] = worker[w].delivery)'
BY PilesAre, PTL

(* Every pile is a sequence of messages.                                    *)
LEMMA PilesTyped == TypeOK => Piles \in Layout
<1> SUFFICES ASSUME TypeOK PROVE Piles \in Layout
  OBVIOUS
<1>1. ASSUME NEW m \in Msg \cup {None} PROVE Only(m) \in Seq(Msg)
  BY DEF Only
<1>2. \A f \in Fork : fork[f].msg \in Msg \cup {None}
  BY DEF TypeOK, MsgOrNone
<1>3. \A w \in Worker : worker[w].batch \in Seq(Msg) /\ worker[w].delivery \in Seq(Msg)
  BY Holding, BatchIs
<1>4. inChan \in Seq(Msg) /\ successedChan \in Seq(Msg) /\ failedChan \in Seq(Msg)
      /\ \A t \in Tag : childChan[t] \in Seq(Msg)
  BY DEF TypeOK
<1>5. \A h \in Home : Piles[h] \in Seq(Msg)
  BY <1>1, <1>2, <1>3, <1>4, Homes, PilesAre
<1>6. Piles = [h \in Home |-> Piles[h]]
  BY DEF Piles
<1>7. QED
  BY <1>5, <1>6 DEF Layout

(* The same, after a step.                                                  *)
LEMMA PilesTypedNext == TypeOK' => Piles' \in Layout
<1>1. TypeOK' => (Piles \in Layout)'
  BY PilesTyped, PTL
<1>2. QED
  BY <1>1

(* Where nothing is put or taken, the piles are the same.                   *)
LEMMA AlikeIs ==
    ASSUME NEW S,
           InHome \in S \/ UNCHANGED inChan,
           GoodHome \in S \/ UNCHANGED successedChan,
           BadHome \in S \/ UNCHANGED failedChan,
           \A f \in Fork : ForkHome(f) \in S \/ fork'[f].msg = fork[f].msg,
           \A t \in Tag : ChildHome(t) \in S \/ childChan'[t] = childChan[t],
           \A w \in Worker : BatchHome(w) \in S \/ worker'[w].batch = worker[w].batch,
           \A w \in Worker : DeliveryHome(w) \in S \/ worker'[w].delivery = worker[w].delivery
    PROVE  Alike(Piles, Piles', S)
<1> SUFFICES ASSUME NEW h \in Home, h \notin S PROVE Piles'[h] = Piles[h]
  BY DEF Alike
<1>1. CASE h \in {InHome, GoodHome, BadHome}
  BY <1>1, PilesAre, PilesAreNext
<1>2. ASSUME NEW f \in Fork, h = ForkHome(f) PROVE Piles'[h] = Piles[h]
  BY <1>2, PilesAre, PilesAreNext
<1>3. ASSUME NEW t \in Tag, h = ChildHome(t) PROVE Piles'[h] = Piles[h]
  BY <1>3, PilesAre, PilesAreNext
<1>4. ASSUME NEW w \in Worker, h = BatchHome(w) \/ h = DeliveryHome(w)
      PROVE  Piles'[h] = Piles[h]
  BY <1>4, PilesAre, PilesAreNext
<1>5. QED
  BY <1>1, <1>2, <1>3, <1>4, Homes

-----------------------------------------------------------------------------
(* Types after the steps of the forks and of the producer.                  *)

(* What is in the sender has a tag.                                         *)
LEMMA TagsKnown ==
    ASSUME Inv
    PROVE  /\ \A f \in Fork : fork[f].msg # None => ForkTag(f) \in Tag /\ fork[f].msg \in Msg
           /\ \A h \in Home : \A m \in ToSet(Piles[h]) : m \in Msg /\ tag[m] \in Tag
<1>1. tag \in [Msg -> Tag \cup {None}] /\ Piles \in Layout
  BY PilesTyped DEF Inv, TypeOK
<1>2. ASSUME NEW h \in Home, NEW m \in ToSet(Piles[h]) PROVE m \in Msg /\ tag[m] \in Tag
  <2>1. Piles[h] \in Seq(Msg)
    BY <1>1 DEF Layout
  <2>2. m \in Msg
    BY <2>1, LenProperties DEF ToSet
  <2>3. tag[m] # None
    BY DEF Inv, TagInv
  <2>4. QED
    BY <1>1, <2>2, <2>3
<1>3. ASSUME NEW f \in Fork, fork[f].msg # None PROVE ForkTag(f) \in Tag /\ fork[f].msg \in Msg
  <2>1. Piles[ForkHome(f)] = <<fork[f].msg>> /\ ForkHome(f) \in Home
    BY <1>3, PilesAre, Homes DEF Only
  <2>2. fork[f].msg \in ToSet(<<fork[f].msg>>)
    BY DEF ToSet
  <2>3. QED
    BY <1>2, <2>1, <2>2 DEF ForkTag
<1>4. QED
  BY <1>2, <1>3

ForkPc == {"recv", "load", "test", "assign", "lock", "reload", "retest", "spawn",
           "store", "unlock", "reassign", "send", "blocked"}
ForkState == [pc : ForkPc, msg : MsgOrNone]

(* A fork moves.                                                            *)
ForkBecomes(f, pc, m) ==
    /\ fork' = [g \in Fork |-> IF g = f THEN fork'[f] ELSE fork[g]]
    /\ fork'[f] = [pc |-> pc, msg |-> m]

(* A fork goes on with the message it has.                                  *)
LEMMA ForkGoDoes ==
    ASSUME fork \in [Fork -> ForkState], NEW f \in Fork, NEW pc, ForkGo(f, pc)
    PROVE  ForkBecomes(f, pc, fork[f].msg)
BY DEF ForkGo, ForkBecomes, ForkState

(* A fork takes a message, or has none any more.                            *)
LEMMA ForkTakes ==
    ASSUME fork \in [Fork -> ForkState], NEW f \in Fork, NEW pc, NEW m,
           fork' = [fork EXCEPT ![f] = [pc |-> pc, msg |-> m]]
    PROVE  ForkBecomes(f, pc, m)
BY DEF ForkBecomes

(* A move of a fork keeps the type of fork.                                 *)
LEMMA ForkBecomesTyped ==
    ASSUME fork \in [Fork -> ForkState], NEW f \in Fork, NEW pc \in ForkPc,
           NEW m \in MsgOrNone, ForkBecomes(f, pc, m)
    PROVE  fork' \in [Fork -> ForkState]
<1>1. fork'[f] \in ForkState
  BY DEF ForkBecomes, ForkState
<1>2. QED
  BY <1>1 DEF ForkBecomes

(* Every step of a fork, as a move of the fork.                             *)
LEMMA ForkStepDoes ==
    ASSUME Inv, NEW f \in Fork, ForkStep(f)
    PROVE  /\ fork \in [Fork -> ForkState] /\ kind = "fluentd" /\ f \in ForkOf[kind]
           /\ ~panicked /\ Outside
           /\ \/ ForkRecv(f) /\ ForkBecomes(f, "load", Head(inChan)) /\ fork[f].msg = None
                   /\ Head(inChan) \in Msg
              \/ /\ ForkSend(f) \/ ForkReport(f)
                 /\ ForkBecomes(f, "recv", None) /\ fork[f].msg \in Msg
              \/ /\ ~ForkRecv(f) /\ ~ForkReport(f) /\ UNCHANGED childChan
                 /\ fork[f].msg \in Msg /\ ForkTag(f) \in Tag
                 /\ \E pc \in ForkPc \ {"recv"} : ForkBecomes(f, pc, fork[f].msg)
<1>1. fork \in [Fork -> ForkState] /\ inChan \in Seq(Msg)
  BY DEF Inv, TypeOK, ForkState, ForkPc
<1>2. \E pc : ForkAt(f, pc)
  BY DEF ForkStep, ForkRecv, ForkLoad, ForkTest, ForkLock, ForkRetest, ForkAssign,
         ForkSpawn, ForkStore, ForkUnlock, ForkSend, ForkReport
<1>3. kind = "fluentd" /\ f \in ForkOf[kind] /\ ~panicked
  BY <1>2 DEF ForkAt
<1>4. Outside
  BY DEF ForkStep, ForkRecv, ForkLoad, ForkTest, ForkLock, ForkRetest, ForkAssign,
         ForkSpawn, ForkStore, ForkUnlock, ForkSend, ForkReport
<1>5. CASE ForkRecv(f)
  <2>1. fork[f].msg = None
    BY <1>5 DEF ForkRecv, ForkAt, Inv, ForkInv
  <2>2. ForkBecomes(f, "load", Head(inChan))
    BY <1>1, <1>5, ForkTakes DEF ForkRecv
  <2>3. Head(inChan) \in Msg
    BY <1>1, <1>5, ReceiveFrom DEF ForkRecv
  <2>4. QED
    BY <1>1, <1>3, <1>4, <1>5, <2>1, <2>2, <2>3
<1>6. CASE ~ForkRecv(f)
  <2>1. fork[f].pc # "recv"
    BY <1>6 DEF ForkStep, ForkAt, ForkLoad, ForkTest, ForkLock, ForkRetest, ForkAssign,
         ForkSpawn, ForkStore, ForkUnlock, ForkSend, ForkReport
  <2>2. fork[f].msg \in Msg /\ ForkTag(f) \in Tag
    BY <2>1, TagsKnown DEF Inv, ForkInv
  <2>3. CASE ForkReport(f)
    BY <1>1, <1>3, <1>4, <2>2, <2>3, ForkTakes DEF ForkReport
  <2>4. CASE ForkSend(f) /\ Len(childChan[childInChan]) < InChanSize
    BY <1>1, <1>3, <1>4, <2>2, <2>4, ForkTakes DEF ForkSend
  <2>5. ASSUME NEW pc \in ForkPc \ {"recv"}, ForkGo(f, pc), UNCHANGED childChan,
               ~ForkReport(f)
        PROVE  /\ ~ForkReport(f) /\ UNCHANGED childChan
               /\ \E q \in ForkPc \ {"recv"} : ForkBecomes(f, q, fork[f].msg)
    BY <1>1, <2>5, ForkGoDoes
  <2>6. CASE ~ForkReport(f) /\ ~(ForkSend(f) /\ Len(childChan[childInChan]) < InChanSize)
    <3>1. \E pc \in ForkPc \ {"recv"} : ForkGo(f, pc) /\ UNCHANGED childChan
      BY <1>6, <2>6 DEF ForkPc, ForkStep, ForkLoad, ForkTest, ForkLock, ForkRetest,
         ForkAssign, ForkSpawn, ForkStore, ForkUnlock, ForkSend
    <3>2. QED
      BY <1>1, <1>3, <1>4, <1>6, <2>2, <2>5, <2>6, <3>1
  <2>7. QED
    BY <2>3, <2>4, <2>6
<1>7. QED
  BY <1>5, <1>6

(* Every step of a fork keeps the types.                                    *)
LEMMA ForkStepTyped ==
    ASSUME Inv, NEW f \in Fork, ForkStep(f)
    PROVE  TypeOK'
<1>0. TypeOK /\ fork \in [Fork -> ForkState] /\ Outside
  BY ForkStepDoes DEF Inv
<1>1. fork' \in [Fork -> ForkState]
  <2>1. \E pc \in ForkPc, m \in MsgOrNone : ForkBecomes(f, pc, m)
    BY ForkStepDoes DEF ForkPc, MsgOrNone
  <2>2. QED
    BY <1>0, <2>1, ForkBecomesTyped
<1>a. /\ childInChani \in Tag \cup {None} /\ childInChan \in Tag \cup {None}
      /\ tag2childInChan \in [Tag -> Tag \cup {None}]
      /\ reads \in [Tag -> Tag \cup {None}]
      /\ mutex \in Fork \cup {None} /\ found \in BOOLEAN /\ panicked \in BOOLEAN
      /\ inChan \in Seq(Msg) /\ Len(inChan) <= InChanSize
      /\ \A c \in {successedChan, failedChan} :
            c \in Seq(Msg) /\ Len(c) \in Nat /\ Len(c) <= ReportSize
      /\ childChan \in [Tag -> Seq(Msg)]
      /\ \A t \in Tag : Len(childChan[t]) \in Nat /\ Len(childChan[t]) <= InChanSize
  BY <1>0, LenProperties DEF TypeOK
<1> DEFINE Shared ==
        /\ childInChani' \in Tag \cup {None} /\ childInChan' \in Tag \cup {None}
        /\ tag2childInChan' \in [Tag -> Tag \cup {None}]
        /\ reads' \in [Tag -> Tag \cup {None}]
        /\ mutex' \in Fork \cup {None} /\ found' \in BOOLEAN /\ panicked' \in BOOLEAN
        /\ inChan' \in Seq(Msg) /\ Len(inChan') <= InChanSize
        /\ \A c \in {successedChan', failedChan'} : c \in Seq(Msg) /\ Len(c) <= ReportSize
        /\ childChan' \in [Tag -> Seq(Msg)]
        /\ \A t \in Tag : Len(childChan'[t]) <= InChanSize
<1>2. SUFFICES Shared
  BY <1>0, <1>1 DEF TypeOK, Outside, ForkState, ForkPc, history, wrapVars
<1> USE DEF reportVars
<1>3. CASE ForkRecv(f)
  <2>1. inChan' \in Seq(Msg) /\ Len(inChan') <= InChanSize
    BY <1>3, <1>a, ReceiveFrom, Sizes DEF ForkRecv
  <2>2. QED
    BY <1>3, <1>a, <2>1 DEF ForkRecv
<1>4. CASE ForkSend(f)
  <2>1. fork[f].msg \in Msg
    BY <1>4, ForkStepDoes DEF ForkSend, ForkRecv, ForkReport, ForkAt
  <2>2. CASE Len(childChan[childInChan]) < InChanSize
    <3>1. childChan' = [childChan EXCEPT ![childInChan] = Append(@, fork[f].msg)]
      BY <1>4, <2>2 DEF ForkSend
    <3>2. childInChan \in Tag =>
             /\ Append(childChan[childInChan], fork[f].msg) \in Seq(Msg)
             /\ Len(Append(childChan[childInChan], fork[f].msg)) <= InChanSize
      BY <1>a, <2>1, <2>2, SendTo, Sizes
    <3>3. childChan' \in [Tag -> Seq(Msg)] /\ \A t \in Tag : Len(childChan'[t]) <= InChanSize
      BY <1>a, <3>1, <3>2
    <3>4. QED
      BY <1>4, <1>a, <3>3 DEF ForkSend
  <2>3. CASE ~(Len(childChan[childInChan]) < InChanSize)
    BY <1>4, <1>a, <2>3 DEF ForkSend
  <2>4. QED
    BY <2>2, <2>3
<1>5. CASE ForkReport(f)
  <2>1. fork[f].msg \in Msg
    BY <1>5, ForkStepDoes DEF ForkRecv, ForkReport, ForkAt
  <2>2. \A c \in {successedChan', failedChan'} : c \in Seq(Msg) /\ Len(c) <= ReportSize
    <3>1. ASSUME NEW c \in Seq(Msg), Len(c) \in Nat, Len(c) < ReportSize
          PROVE  Append(c, fork[f].msg) \in Seq(Msg) /\ Len(Append(c, fork[f].msg)) <= ReportSize
      BY <2>1, <3>1, SendTo, Sizes
    <3>2. QED
      BY <1>5, <1>a, <3>1 DEF ForkReport
  <2>3. QED
    BY <1>5, <1>a, <2>2 DEF ForkReport
<1>6. CASE ForkLoad(f) \/ ForkRetest(f) \/ ForkSpawn(f) \/ ForkStore(f)
  <2>1. ForkTag(f) \in Tag
    BY <1>6, ForkStepDoes DEF ForkLoad, ForkRetest, ForkSpawn, ForkStore, ForkAt, ForkRecv,
       ForkReport, ForkSend
  <2>2. CASE ForkLoad(f)
    BY <1>a, <2>1, <2>2 DEF ForkLoad
  <2>3. CASE ForkRetest(f)
    BY <1>a, <2>1, <2>3 DEF ForkRetest
  <2>4. CASE ForkSpawn(f)
    BY <1>a, <2>1, <2>4 DEF ForkSpawn
  <2>5. CASE ForkStore(f)
    BY <1>a, <2>1, <2>5 DEF ForkStore
  <2>6. QED
    BY <1>6, <2>2, <2>3, <2>4, <2>5
<1>7. CASE ForkTest(f)
  BY <1>7, <1>a DEF ForkTest
<1>8. CASE ForkLock(f)
  BY <1>8, <1>a DEF ForkLock
<1>9. CASE ForkAssign(f)
  BY <1>9, <1>a DEF ForkAssign
<1>10. CASE ForkUnlock(f)
  BY <1>10, <1>a DEF ForkUnlock
<1>11. QED
  BY <1>3, <1>4, <1>5, <1>6, <1>7, <1>8, <1>9, <1>10 DEF ForkStep

(* A message that the producer gives away.                                  *)
LEMMA OfferTyped ==
    ASSUME TypeOK, NEW m \in Msg, NEW t \in Tag, Offer(m, t)
    PROVE  TypeOK'
<1>1. inChan \in Seq(Msg) /\ Len(inChan) \in Nat
  BY LenProperties DEF TypeOK
<1>2. inChan' \in Seq(Msg) /\ Len(inChan') <= InChanSize
  BY <1>1, SendTo, Sizes DEF Offer
<1>3. tag' \in [Msg -> Tag \cup {None}]
  BY DEF Offer, TypeOK
<1>4. QED
  BY <1>2, <1>3 DEF Offer, TypeOK, reportVars, forkVars, wrapVars, history

(* A report that the producer takes.                                        *)
Collects(m) ==
    \/ /\ successedChan # <<>> /\ m = Head(successedChan)
       /\ successedChan' = Tail(successedChan) /\ UNCHANGED failedChan
    \/ /\ failedChan # <<>> /\ m = Head(failedChan)
       /\ failedChan' = Tail(failedChan) /\ UNCHANGED successedChan

(* A report is of a message.                                                *)
LEMMA CollectDoes ==
    ASSUME TypeOK, Collect
    PROVE  \E m \in Msg : Collects(m) /\ EndUse(m)
<1>1. successedChan # <<>> => Head(successedChan) \in Msg
  BY ReceiveFrom DEF TypeOK
<1>2. failedChan # <<>> => Head(failedChan) \in Msg
  BY ReceiveFrom DEF TypeOK
<1>3. QED
  BY <1>1, <1>2 DEF Collect, Collects

(* Taking a report keeps the types.                                         *)
LEMMA CollectTyped ==
    ASSUME TypeOK, Collect
    PROVE  TypeOK'
<1>1. PICK m \in Msg : Collects(m) /\ EndUse(m)
  BY CollectDoes
<1>2. \A c \in {successedChan', failedChan'} : c \in Seq(Msg) /\ Len(c) <= ReportSize
  <2>1. \A c \in {successedChan, failedChan} : c \in Seq(Msg) /\ Len(c) <= ReportSize
    BY DEF TypeOK
  <2>2. ASSUME NEW c \in Seq(Msg), c # <<>>, Len(c) <= ReportSize
        PROVE  Tail(c) \in Seq(Msg) /\ Len(Tail(c)) <= ReportSize
    BY <2>2, ReceiveFrom, Sizes
  <2>3. QED
    BY <1>1, <2>1, <2>2 DEF Collects
<1>3. /\ tag' \in [Msg -> Tag \cup {None}] /\ wrapMsg' \in [Wrap -> MsgOrNone]
      /\ arrived' \subseteq Msg /\ refused' \subseteq Msg
  BY <1>1 DEF TypeOK, EndUse, Forget, MsgOrNone
<1>4. kmsg' \in [Worker -> [1 .. BatchSize -> MsgOrNone]]
  <2>1. kmsg \in [Worker -> [1 .. BatchSize -> MsgOrNone]]
    BY DEF TypeOK
  <2>2. ASSUME NEW w \in Worker PROVE Forget(m, kmsg[w]) \in [1 .. BatchSize -> MsgOrNone]
    BY <2>1 DEF Forget, MsgOrNone
  <2>3. QED
    BY <1>1, <2>2 DEF EndUse
<1>5. QED
  BY <1>2, <1>3, <1>4 DEF Collect, TypeOK, forkVars, wrapVars

(* Every step keeps the types.                                              *)
LEMMA NextTyped == Inv /\ [Next]_vars => TypeOK'
<1> SUFFICES ASSUME Inv, [Next]_vars PROVE TypeOK'
  OBVIOUS
<1>0. TypeOK
  BY DEF Inv
<1>1. ASSUME NEW m \in Msg, NEW t \in Tag, Offer(m, t) PROVE TypeOK'
  BY <1>0, <1>1, OfferTyped
<1>2. CASE Collect
  BY <1>0, <1>2, CollectTyped
<1>3. ASSUME NEW w \in Worker, WorkerStep(w) PROVE TypeOK'
  BY <1>3, WorkerStepTyped
<1>4. ASSUME NEW f \in Fork, ForkStep(f) PROVE TypeOK'
  BY <1>4, ForkStepTyped
<1>5. CASE UNCHANGED vars
  BY <1>0, <1>5 DEF TypeOK, vars, forkVars, wrapVars, reportVars, history
<1>6. QED
  BY <1>1, <1>2, <1>3, <1>4, <1>5 DEF Next

-----------------------------------------------------------------------------
(* What every step does to the piles.                                       *)

(* How far a message is, for the producer, in each place.                   *)
Class(h) == IF h \in {InHome} THEN "queued"
            ELSE IF h \in {GoodHome} THEN "good"
            ELSE IF h \in {BadHome} THEN "bad"
            ELSE "sending"

Legal(g, h) ==
    \/ Class(g) \in {"queued", "sending"} /\ Class(h) = "sending"
    \/ Class(g) = "sending" /\ Class(h) \in {"good", "bad"}

(* A sender's own step changes nothing, moves one message on, or makes a    *)
(* batch the delivery, possibly after adding one message to it.             *)
Own(P, Q) ==
    \/ Alike(P, Q, {})
    \/ \E g, h \in Home : Legal(g, h) /\ Moves(P, Q, g, h)
    \/ \E w \in Worker : Passes(P, Q, BatchHome(w), DeliveryHome(w))
    \/ \E g \in Home, w \in Worker, R \in Layout :
          /\ Legal(g, BatchHome(w)) /\ Moves(P, R, g, BatchHome(w))
          /\ Passes(R, Q, BatchHome(w), DeliveryHome(w))

(* The class of each place.                                                 *)
LEMMA Classes ==
    /\ Class(InHome) = "queued" /\ Class(GoodHome) = "good" /\ Class(BadHome) = "bad"
    /\ \A x : /\ Class(ForkHome(x)) = "sending" /\ Class(ChildHome(x)) = "sending"
              /\ Class(BatchHome(x)) = "sending" /\ Class(DeliveryHome(x)) = "sending"
BY HomesDiffer DEF Class

(* The other workers keep what they hold.                                   *)
LEMMA BecomesOthers ==
    ASSUME NEW w \in Worker, NEW pc, NEW b, NEW d, NEW n, NEW ws, Becomes(w, pc, b, d, n, ws)
    PROVE  /\ worker'[w].pc = pc /\ worker'[w].batch = b /\ worker'[w].delivery = d
           /\ worker'[w].nRetry = n /\ worker'[w].wraps = ws
           /\ \A v \in Worker : v # w => worker'[v] = worker[v]
BY DEF Becomes

(* The two piles of a worker.                                               *)
LEMMA WorkerPiles ==
    ASSUME NEW w \in Worker
    PROVE  /\ BatchHome(w) \in Home /\ DeliveryHome(w) \in Home
           /\ BatchHome(w) # DeliveryHome(w)
           /\ Piles[BatchHome(w)] = worker[w].batch
           /\ Piles'[BatchHome(w)] = worker'[w].batch
           /\ Piles[DeliveryHome(w)] = worker[w].delivery
           /\ Piles'[DeliveryHome(w)] = worker'[w].delivery
<1>1. /\ BatchHome(w) \in Home /\ DeliveryHome(w) \in Home
      /\ BatchHome(w) # DeliveryHome(w)
  BY Homes, HomesDiffer
<1>2. Piles[BatchHome(w)] = worker[w].batch /\ Piles[DeliveryHome(w)] = worker[w].delivery
  BY PilesAre
<1>3. Piles'[BatchHome(w)] = worker'[w].batch /\ Piles'[DeliveryHome(w)] = worker'[w].delivery
  BY PilesAreNext
<1>4. QED
  BY <1>1, <1>2, <1>3

(* A delivery that is tried stays where it is.                              *)
LEMMA StayPiles ==
    ASSUME NEW w \in Worker, NEW pc, NEW n, NEW ws,
           Becomes(w, pc, worker[w].batch, worker[w].delivery, n, ws),
           UNCHANGED <<inChan, reportVars, fork, childChan>>
    PROVE  Own(Piles, Piles')
<1>1. \A v \in Worker : /\ worker'[v].batch = worker[v].batch
                        /\ worker'[v].delivery = worker[v].delivery
  BY BecomesOthers
<1>2. Alike(Piles, Piles', {})
  BY <1>1, AlikeIs DEF reportVars
<1>3. QED
  BY <1>2 DEF Own

(* A tick makes the batch the delivery.                                     *)
LEMMA TickPiles ==
    ASSUME Inv, NEW w \in Worker, Tick(w)
    PROVE  Own(Piles, Piles')
<1>1. Becomes(w, "send", <<>>, worker[w].batch, 0, worker[w].wraps)
  BY DeliverDoes DEF Tick, Inv
<1>2. worker[w].delivery = <<>>
  BY DEF Tick, At, Inv, WorkerInv
<1>3. UNCHANGED <<inChan, successedChan, failedChan, fork, childChan>>
  BY DEF Tick, NoReport, reportVars, forkVars
<1>4. Alike(Piles, Piles', {BatchHome(w), DeliveryHome(w)})
  BY <1>1, <1>3, AlikeIs, BecomesOthers
<1>5. Passes(Piles, Piles', BatchHome(w), DeliveryHome(w))
  <2>1. worker'[w].batch = <<>> /\ worker'[w].delivery = worker[w].batch
    BY <1>1, BecomesOthers
  <2>2. QED
    BY <1>2, <1>4, <2>1, WorkerPiles DEF Passes
<1>6. QED
  BY <1>5 DEF Own

(* A worker takes a message, and its batch waits or goes out.               *)
LEMMA TakeMsgPiles ==
    ASSUME Inv, NEW w \in Worker, TakeMsg(w)
    PROVE  Own(Piles, Piles')
<1>1. PICK m \in Msg :
         /\ worker[w].delivery = <<>>
         /\ Append(worker[w].batch, m) \in Batches
         /\ DeliverOrWait(w, Append(worker[w].batch, m)) /\ TakesFrom(w, m)
  BY TakeMsgDoes
<1>2. UNCHANGED <<successedChan, failedChan, fork>>
  BY DEF TakeMsg, NoReport, reportVars, forkVars
<1>3. PICK g \in Home :
         /\ Class(g) \in {"queued", "sending"} /\ g # BatchHome(w) /\ g # DeliveryHome(w)
         /\ Piles[g] # <<>> /\ m = Head(Piles[g]) /\ Piles'[g] = Tail(Piles[g])
         /\ g = InHome \/ UNCHANGED inChan
         /\ \A t \in Tag : g = ChildHome(t) \/ childChan'[t] = childChan[t]
  <2>1. CASE kind # "fluentd"
    BY <1>1, <2>1, PilesAre, PilesAreNext, Homes, HomesDiffer, Classes DEF TakesFrom
  <2>2. CASE kind = "fluentd"
    <3> DEFINE c == reads[w]
    <3>1. /\ c \in Tag /\ childChan[c] # <<>> /\ m = Head(childChan[c])
          /\ childChan' = [childChan EXCEPT ![c] = Tail(@)] /\ UNCHANGED inChan
      BY <1>1, <2>2 DEF TakesFrom
    <3>2. childChan \in [Tag -> Seq(Msg)]
      BY DEF Inv, TypeOK
    <3> HIDE DEF c
    <3>3. childChan'[c] = Tail(childChan[c]) /\ \A t \in Tag : t = c \/ childChan'[t] = childChan[t]
      BY <3>1, <3>2
    <3>4. PICK h : h = ChildHome(c)
      OBVIOUS
    <3>5. h \in Home /\ h # BatchHome(w) /\ h # DeliveryHome(w) /\ Class(h) = "sending"
      BY <3>1, <3>4, Homes, HomesDiffer, Classes
    <3>6. Piles[h] = childChan[c] /\ Piles'[h] = childChan'[c]
      BY <3>1, <3>4, PilesAre, PilesAreNext
    <3>7. QED
      BY <3>1, <3>3, <3>4, <3>5, <3>6
  <2>3. QED
    BY <2>1, <2>2
<1>4. Legal(g, BatchHome(w))
  BY <1>3, Classes DEF Legal
<1>5. CASE Becomes(w, worker[w].pc, Append(worker[w].batch, m), worker[w].delivery,
                   worker[w].nRetry, worker[w].wraps)
  <2>1. Alike(Piles, Piles', {g, BatchHome(w)})
    BY <1>2, <1>3, <1>5, AlikeIs, BecomesOthers
  <2>2. Moves(Piles, Piles', g, BatchHome(w))
    <3>1. worker'[w].batch = Append(worker[w].batch, m)
      BY <1>5 DEF Becomes
    <3>2. QED
      BY <1>3, <2>1, <3>1, WorkerPiles DEF Moves
  <2>3. QED
    BY <1>4, <2>2, Homes DEF Own
<1>6. CASE Becomes(w, "send", <<>>, Append(worker[w].batch, m), 0, worker[w].wraps)
  <2> DEFINE R == [k \in Home |-> IF k = g THEN Tail(Piles[g])
                                  ELSE IF k = BatchHome(w) THEN Append(worker[w].batch, m)
                                  ELSE Piles[k]]
  <2>0. BatchHome(w) \in Home /\ DeliveryHome(w) \in Home /\ BatchHome(w) # DeliveryHome(w)
        /\ Piles[BatchHome(w)] = worker[w].batch /\ Piles[DeliveryHome(w)] = <<>>
        /\ Piles'[BatchHome(w)] = <<>>
        /\ Piles'[DeliveryHome(w)] = Append(worker[w].batch, m)
    <3>1. worker'[w].batch = <<>> /\ worker'[w].delivery = Append(worker[w].batch, m)
      BY <1>6 DEF Becomes
    <3>2. QED
      BY <1>1, <3>1, WorkerPiles
  <2>1. R \in Layout
    <3>1. Piles \in Layout
      BY PilesTyped DEF Inv
    <3>2. Tail(Piles[g]) \in Seq(Msg)
      BY <1>3, <3>1, ReceiveFrom DEF Layout
    <3>3. Append(worker[w].batch, m) \in Seq(Msg)
      BY <1>1, BatchIs
    <3>4. QED
      BY <3>1, <3>2, <3>3 DEF Layout
  <2>2. Moves(Piles, R, g, BatchHome(w))
    BY <1>3, <2>0 DEF Moves, Alike
  <2>3. Alike(Piles, Piles', {g, BatchHome(w), DeliveryHome(w)})
    BY <1>2, <1>3, <1>6, AlikeIs, BecomesOthers
  <2>4. Alike(R, Piles', {BatchHome(w), DeliveryHome(w)})
    BY <1>3, <2>3 DEF Alike
  <2>5. R[BatchHome(w)] = Append(worker[w].batch, m) /\ R[DeliveryHome(w)] = <<>>
    BY <1>3, <2>0
  <2> HIDE DEF R
  <2>6. Passes(R, Piles', BatchHome(w), DeliveryHome(w))
    BY <2>0, <2>4, <2>5 DEF Passes
  <2>7. QED
    BY <1>4, <2>1, <2>2, <2>6 DEF Own
<1>7. QED
  BY <1>1, <1>5, <1>6, DeliverOrWaitDoes DEF Inv

(* A report moves one message from the delivery to the report channel.      *)
LEMMA ReportPiles ==
    ASSUME Inv, NEW w \in Worker, ReportGood(w) \/ ReportBad(w)
    PROVE  Own(Piles, Piles')
<1>1. PICK home \in {GoodHome, BadHome} :
         /\ Piles'[home] = Append(Piles[home], Head(worker[w].delivery))
         /\ Alike(Piles, Piles', {home, DeliveryHome(w)})
         /\ worker'[w].delivery = Tail(worker[w].delivery)
         /\ worker[w].delivery # <<>>
  <2>1. Reports(w) /\ worker[w].delivery # <<>>
    BY ReportsDoes DEF ReportGood, ReportBad, At
  <2>2. /\ worker'[w].delivery = Tail(worker[w].delivery)
        /\ worker'[w].batch = worker[w].batch
        /\ \A v \in Worker : v # w => worker'[v] = worker[v]
    BY <2>1, BecomesOthers DEF Reports
  <2>3. UNCHANGED <<inChan, fork, childChan>>
    BY DEF ReportGood, ReportBad, forkVars
  <2>4. CASE ReportGood(w)
    <3>1. /\ successedChan' = Append(successedChan, Head(worker[w].delivery))
          /\ UNCHANGED failedChan
      BY <2>4 DEF ReportGood
    <3>2. Alike(Piles, Piles', {GoodHome, DeliveryHome(w)})
      BY <2>2, <2>3, <3>1, AlikeIs
    <3>3. Piles'[GoodHome] = Append(Piles[GoodHome], Head(worker[w].delivery))
      BY <3>1, PilesAre, PilesAreNext
    <3>4. QED
      BY <2>1, <2>2, <3>2, <3>3
  <2>5. CASE ReportBad(w)
    <3>1. /\ failedChan' = Append(failedChan, Head(worker[w].delivery))
          /\ UNCHANGED successedChan
      BY <2>5 DEF ReportBad
    <3>2. Alike(Piles, Piles', {BadHome, DeliveryHome(w)})
      BY <2>2, <2>3, <3>1, AlikeIs
    <3>3. Piles'[BadHome] = Append(Piles[BadHome], Head(worker[w].delivery))
      BY <3>1, PilesAre, PilesAreNext
    <3>4. QED
      BY <2>1, <2>2, <3>2, <3>3
  <2>6. QED
    BY <2>4, <2>5
<1>2. home \in Home /\ home # DeliveryHome(w) /\ Legal(DeliveryHome(w), home)
  BY <1>1, Homes, HomesDiffer, Classes DEF Legal
<1>3. Moves(Piles, Piles', DeliveryHome(w), home)
  <2>1. {home, DeliveryHome(w)} = {DeliveryHome(w), home}
    OBVIOUS
  <2>2. QED
    BY <1>1, <1>2, <2>1, WorkerPiles DEF Moves
<1>4. QED
  BY <1>2, <1>3, WorkerPiles DEF Own

(* Every step of a worker is a sender's own step, and leaves the forks      *)
(* alone.                                                                   *)
LEMMA WorkerStepPiles ==
    ASSUME Inv, NEW w \in Worker, WorkerStep(w)
    PROVE  Own(Piles, Piles') /\ UNCHANGED <<tag, fork, childInChan, panicked, kind>>
<1>0. TypeOK
  BY DEF Inv
<1>1. UNCHANGED <<tag, fork, childInChan, panicked, kind>>
  BY DEF WorkerStep, Connect, TakeMsg, Tick, KafkaSend, BulkSend, StdoutSend, EncodeFill,
         EncodeWrite, ReportGood, ReportBad, NoReport, forkVars
<1>2. CASE Connect(w)
  <2>1. Becomes(w, "select", worker[w].batch, worker[w].delivery, worker[w].nRetry,
                worker[w].wraps)
    BY <1>0, <1>2, WorkerTyped, GoPc DEF Connect
  <2>2. UNCHANGED <<inChan, reportVars, fork, childChan>>
    BY <1>2 DEF Connect, NoReport, forkVars
  <2>3. QED
    BY <1>1, <2>1, <2>2, StayPiles
<1>3. CASE SendsPlain(w) \/ EncodeFill(w) \/ EncodeWrite(w)
  <2>1. Proceeds(w)
    BY <1>0, <1>3, SendsPlainDoes, EncodeFillDoes, EncodeWriteDoes
  <2>2. UNCHANGED <<inChan, reportVars, fork, childChan>>
    BY <1>3 DEF SendsPlain, KafkaSend, BulkSend, StdoutSend, EncodeFill, EncodeWrite,
                NoReport, forkVars
  <2>3. QED
    BY <1>1, <2>1, <2>2, StayPiles DEF Proceeds
<1>4. CASE TakeMsg(w)
  BY <1>1, <1>4, TakeMsgPiles
<1>5. CASE Tick(w)
  BY <1>1, <1>5, TickPiles
<1>6. CASE ReportGood(w) \/ ReportBad(w)
  BY <1>1, <1>6, ReportPiles
<1>7. QED
  BY <1>2, <1>3, <1>4, <1>5, <1>6 DEF WorkerStep, SendsPlain

(* The pile of a fork.                                                      *)
LEMMA ForkPiles ==
    ASSUME NEW f \in Fork
    PROVE  /\ ForkHome(f) \in Home /\ Class(ForkHome(f)) = "sending"
           /\ Piles[ForkHome(f)] = Only(fork[f].msg)
           /\ Piles'[ForkHome(f)] = Only(fork'[f].msg)
<1>1. ForkHome(f) \in Home /\ Class(ForkHome(f)) = "sending"
  BY Homes, Classes
<1>2. Piles[ForkHome(f)] = Only(fork[f].msg)
  BY PilesAre
<1>3. Piles'[ForkHome(f)] = Only(fork'[f].msg)
  BY PilesAreNext
<1>4. QED
  BY <1>1, <1>2, <1>3

(* A fork hands its message to a child or to a report channel.              *)
LEMMA ForkGives ==
    ASSUME NEW f \in Fork, NEW home \in Home, fork[f].msg \in Msg,
           ForkBecomes(f, "recv", None), UNCHANGED worker,
           ForkHome(f) # home, Legal(ForkHome(f), home),
           Piles'[home] = Append(Piles[home], fork[f].msg),
           InHome = home \/ UNCHANGED inChan,
           GoodHome = home \/ UNCHANGED successedChan,
           BadHome = home \/ UNCHANGED failedChan,
           \A t \in Tag : ChildHome(t) = home \/ childChan'[t] = childChan[t]
    PROVE  Own(Piles, Piles')
<1>1. fork'[f].msg = None /\ \A g \in Fork : g # f => fork'[g] = fork[g]
  BY DEF ForkBecomes
<1>2. Piles[ForkHome(f)] = <<fork[f].msg>> /\ Piles'[ForkHome(f)] = <<>>
  BY <1>1, ForkPiles, Nones DEF Only
<1>3. Head(<<fork[f].msg>>) = fork[f].msg /\ Tail(<<fork[f].msg>>) = <<>>
      /\ <<fork[f].msg>> # <<>>
  OBVIOUS
<1>4. Alike(Piles, Piles', {ForkHome(f), home})
  BY <1>1, AlikeIs
<1>5. Moves(Piles, Piles', ForkHome(f), home)
  BY <1>2, <1>3, <1>4 DEF Moves
<1>6. QED
  BY <1>5, ForkPiles DEF Own

(* Every step of a fork is a sender's own step, and leaves the workers      *)
(* alone.                                                                   *)
LEMMA ForkStepPiles ==
    ASSUME Inv, NEW f \in Fork, ForkStep(f)
    PROVE  Own(Piles, Piles') /\ UNCHANGED <<tag, worker, kind>>
<1>0. /\ UNCHANGED <<tag, worker, kind>> /\ ~panicked
      /\ fork \in [Fork -> ForkState]
  BY ForkStepDoes DEF Outside
<1>1. CASE ForkRecv(f)
  <2>1. /\ fork[f].msg = None /\ Head(inChan) \in Msg /\ ForkBecomes(f, "load", Head(inChan))
    BY <1>1, ForkStepDoes DEF ForkRecv, ForkSend, ForkReport, ForkAt
  <2>2. /\ inChan # <<>> /\ inChan' = Tail(inChan)
        /\ UNCHANGED <<successedChan, failedChan, childChan>>
    BY <1>1 DEF ForkRecv, reportVars
  <2>3. fork'[f].msg = Head(inChan) /\ \A g \in Fork : g # f => fork'[g] = fork[g]
    BY <2>1 DEF ForkBecomes
  <2>4. Alike(Piles, Piles', {InHome, ForkHome(f)})
    BY <1>0, <2>2, <2>3, AlikeIs
  <2>5. Piles[ForkHome(f)] = <<>> /\ Piles'[ForkHome(f)] = <<Head(inChan)>>
    BY <2>1, <2>3, ForkPiles, Nones DEF Only
  <2>6. Piles[InHome] = inChan /\ Piles'[InHome] = Tail(inChan)
    BY <2>2, PilesAre, PilesAreNext
  <2>7. <<Head(inChan)>> = Append(<<>>, Head(inChan))
    OBVIOUS
  <2>8. InHome # ForkHome(f) /\ Legal(InHome, ForkHome(f)) /\ InHome \in Home
    BY HomesDiffer, Homes, Classes DEF Legal
  <2>9. Moves(Piles, Piles', InHome, ForkHome(f))
    BY <2>2, <2>4, <2>5, <2>6, <2>7, <2>8 DEF Moves
  <2>10. QED
    BY <1>0, <2>8, <2>9, ForkPiles DEF Own
<1>2. ASSUME NEW pc, ForkBecomes(f, pc, fork[f].msg),
             UNCHANGED <<inChan, successedChan, failedChan, childChan>>
      PROVE  Own(Piles, Piles')
  <2>1. \A g \in Fork : fork'[g].msg = fork[g].msg
    BY <1>2 DEF ForkBecomes
  <2>2. Alike(Piles, Piles', {})
    BY <1>0, <1>2, <2>1, AlikeIs
  <2>3. QED
    BY <2>2 DEF Own
<1>3. CASE ForkSend(f)
  <2>1. fork[f].msg \in Msg /\ UNCHANGED <<inChan, successedChan, failedChan>>
    BY <1>3, ForkStepDoes DEF ForkRecv, ForkSend, ForkReport, ForkAt, reportVars
  <2>2. CASE Len(childChan[childInChan]) < InChanSize
    <3>1. /\ childChan' = [childChan EXCEPT ![childInChan] = Append(@, fork[f].msg)]
          /\ ForkBecomes(f, "recv", None)
      BY <1>0, <1>3, <2>2, ForkTakes DEF ForkSend
    <3>2. childInChan \in Tag /\ childChan \in [Tag -> Seq(Msg)]
      BY <1>0, <1>3 DEF ForkSend, ForkAt, Inv, ForkInv, TypeOK
    <3>3. PICK t \in Tag : t = childInChan
      BY <3>2
    <3>4. /\ childChan'[t] = Append(childChan[t], fork[f].msg)
          /\ \A s \in Tag : s # t => childChan'[s] = childChan[s]
      BY <3>1, <3>2, <3>3
    <3>5. Piles'[ChildHome(t)] = Append(Piles[ChildHome(t)], fork[f].msg)
      BY <3>4, PilesAre, PilesAreNext
    <3>6. /\ ChildHome(t) \in Home /\ ForkHome(f) # ChildHome(t)
          /\ Legal(ForkHome(f), ChildHome(t))
      BY Homes, HomesDiffer, Classes DEF Legal
    <3>7. QED
      BY <1>0, <2>1, <3>1, <3>4, <3>5, <3>6, ForkGives
  <2>3. CASE ~(Len(childChan[childInChan]) < InChanSize)
    <3>1. ForkBecomes(f, "blocked", fork[f].msg) /\ UNCHANGED childChan
      BY <1>0, <1>3, <2>3, ForkGoDoes DEF ForkSend
    <3>2. QED
      BY <1>0, <1>2, <2>1, <3>1
  <2>4. QED
    BY <2>2, <2>3
<1>4. CASE ForkReport(f)
  <2>1. /\ fork[f].msg \in Msg /\ ForkBecomes(f, "recv", None)
        /\ UNCHANGED <<inChan, childChan>>
    BY <1>0, <1>4, ForkStepDoes, ForkTakes DEF ForkRecv, ForkReport, ForkAt
  <2>2. /\ ForkHome(f) # GoodHome /\ ForkHome(f) # BadHome
        /\ GoodHome \in Home /\ BadHome \in Home
        /\ Legal(ForkHome(f), GoodHome) /\ Legal(ForkHome(f), BadHome)
    BY Homes, HomesDiffer, Classes DEF Legal
  <2>3. CASE successedChan' = Append(successedChan, fork[f].msg) /\ UNCHANGED failedChan
    <3>1. Piles'[GoodHome] = Append(Piles[GoodHome], fork[f].msg)
      BY <2>3, PilesAre, PilesAreNext
    <3>2. QED
      BY <1>0, <2>1, <2>2, <2>3, <3>1, ForkGives
  <2>4. CASE failedChan' = Append(failedChan, fork[f].msg) /\ UNCHANGED successedChan
    <3>1. Piles'[BadHome] = Append(Piles[BadHome], fork[f].msg)
      BY <2>4, PilesAre, PilesAreNext
    <3>2. QED
      BY <1>0, <2>1, <2>2, <2>4, <3>1, ForkGives
  <2>5. QED
    BY <1>4, <2>3, <2>4 DEF ForkReport
<1>5. CASE ~ForkRecv(f) /\ ~ForkSend(f) /\ ~ForkReport(f)
  <2>1. \E pc : ForkBecomes(f, pc, fork[f].msg)
    BY <1>5, ForkStepDoes
  <2>2. UNCHANGED <<inChan, successedChan, failedChan, childChan>>
    BY <1>5 DEF ForkStep, ForkLoad, ForkTest, ForkLock, ForkRetest, ForkAssign, ForkSpawn,
                ForkStore, ForkUnlock, reportVars
  <2>3. QED
    BY <1>0, <1>2, <2>1, <2>2
<1>6. QED
  BY <1>0, <1>1, <1>3, <1>4, <1>5

-----------------------------------------------------------------------------
(* Where a message is, by the piles.                                        *)
IsIn(P, m) == \E h \in Home : m \in ToSet(P[h])
Where(P, m) ==
    IF IsIn(P, m) THEN Class(CHOOSE h \in Home : m \in ToSet(P[h])) ELSE "outside"

(* A message that is in a pile is where that pile is, for it is in no       *)
(* other.                                                                   *)
LEMMA WhereIs ==
    ASSUME NEW P, Once(P), NEW h \in Home, NEW m \in ToSet(P[h])
    PROVE  Where(P, m) = Class(h) /\ IsIn(P, m)
<1> DEFINE g == CHOOSE k \in Home : m \in ToSet(P[k])
<1>1. g \in Home /\ m \in ToSet(P[g])
  OBVIOUS
<1> HIDE DEF g
<1>2. g = h
  BY <1>1 DEF Once
<1>3. Where(P, m) = Class(g) /\ IsIn(P, m)
  BY <1>1 DEF Where, g, IsIn
<1>4. QED
  BY <1>2, <1>3

(* A message that is in the same piles is where it was.                     *)
LEMMA WhereStays ==
    ASSUME NEW P, NEW Q, Once(P), Once(Q), NEW m,
           \A k \in Home : m \in ToSet(Q[k]) =>
              \E j \in Home : m \in ToSet(P[j]) /\ Class(j) = Class(k),
           IsIn(P, m) => IsIn(Q, m)
    PROVE  Where(Q, m) = Where(P, m)
<1>1. CASE IsIn(Q, m)
  <2>1. PICK k \in Home : m \in ToSet(Q[k])
    BY <1>1 DEF IsIn
  <2>2. PICK j \in Home : m \in ToSet(P[j]) /\ Class(j) = Class(k)
    BY <2>1
  <2>3. QED
    BY <2>1, <2>2, WhereIs
<1>2. CASE ~IsIn(Q, m)
  BY <1>2 DEF Where
<1>3. QED
  BY <1>1, <1>2

(* A move changes the place of the message that moves.                      *)
LEMMA MovesWhere ==
    ASSUME NEW P \in Layout, NEW Q \in Layout, NEW g \in Home, NEW h \in Home,
           Once(P), Moves(P, Q, g, h)
    PROVE  \E x \in Msg :
              /\ Where(P, x) = Class(g) /\ Where(Q, x) = Class(h)
              /\ \A m : m # x => Where(Q, m) = Where(P, m)
              /\ \A m : IsIn(Q, m) <=> IsIn(P, m)
<1> DEFINE x == Head(P[g])
<1>1. /\ Once(Q) /\ x \in ToSet(P[g]) /\ x \in Msg
      /\ ToSet(P[g]) = ToSet(Q[g]) \cup {x}
      /\ ToSet(Q[h]) = ToSet(P[h]) \cup {x}
      /\ \A k \in Home \ {g, h} : ToSet(Q[k]) = ToSet(P[k])
  BY MovesOnce
<1> HIDE DEF x
<1>2. Where(P, x) = Class(g) /\ IsIn(P, x)
  BY <1>1, WhereIs
<1>3. x \in ToSet(Q[h])
  BY <1>1
<1>4. Where(Q, x) = Class(h) /\ IsIn(Q, x)
  BY <1>1, <1>3, WhereIs
<1>5. ASSUME NEW m, m # x
      PROVE  Where(Q, m) = Where(P, m) /\ (IsIn(Q, m) <=> IsIn(P, m))
  <2>1. \A k \in Home : m \in ToSet(Q[k]) <=> m \in ToSet(P[k])
    <3> TAKE k \in Home
    <3>1. CASE k = g
      BY <1>1, <1>5, <3>1
    <3>2. CASE k = h
      BY <1>1, <1>5, <3>2
    <3>3. CASE k \notin {g, h}
      BY <1>1, <3>3
    <3>4. QED
      BY <3>1, <3>2, <3>3
  <2>2. IsIn(Q, m) <=> IsIn(P, m)
    BY <2>1 DEF IsIn
  <2>3. QED
    BY <1>1, <2>1, <2>2, WhereStays
<1>6. QED
  BY <1>1, <1>2, <1>4, <1>5

(* A batch that becomes the delivery is as far as it was.                   *)
LEMMA PassesWhere ==
    ASSUME NEW P \in Layout, NEW Q \in Layout, NEW w \in Worker,
           Once(P), Passes(P, Q, BatchHome(w), DeliveryHome(w))
    PROVE  \A m : Where(Q, m) = Where(P, m) /\ (IsIn(Q, m) <=> IsIn(P, m))
<1> DEFINE g == BatchHome(w)
           h == DeliveryHome(w)
<1>0. g \in Home /\ h \in Home /\ Class(g) = "sending" /\ Class(h) = "sending"
  BY Homes, Classes
<1> HIDE DEF g, h
<1>1. /\ Once(Q)
      /\ ToSet(Q[g]) = {} /\ ToSet(Q[h]) = ToSet(P[g]) /\ ToSet(P[h]) = {}
      /\ \A k \in Home \ {g, h} : ToSet(Q[k]) = ToSet(P[k])
  BY <1>0, PassesOnce DEF g, h
<1> SUFFICES ASSUME NEW m
             PROVE  Where(Q, m) = Where(P, m) /\ (IsIn(Q, m) <=> IsIn(P, m))
  OBVIOUS
<1>2. ASSUME NEW k \in Home, m \in ToSet(Q[k])
      PROVE  \E j \in Home : m \in ToSet(P[j]) /\ Class(j) = Class(k)
  BY <1>0, <1>1, <1>2
<1>3. ASSUME NEW k \in Home, m \in ToSet(P[k]) PROVE \E j \in Home : m \in ToSet(Q[j])
  BY <1>0, <1>1, <1>3
<1>4. IsIn(Q, m) <=> IsIn(P, m)
  BY <1>2, <1>3 DEF IsIn
<1>5. QED
  BY <1>1, <1>2, <1>4, WhereStays

(* A sender's own step leaves every message where it is for the producer,   *)
(* or moves one of them one step on.                                        *)
Steps(P, Q) ==
    \/ \A m : Where(Q, m) = Where(P, m)
    \/ \E x \in Msg :
          /\ \/ Where(P, x) = "queued" /\ Where(Q, x) = "sending"
             \/ Where(P, x) = "sending" /\ Where(Q, x) \in {"good", "bad"}
          /\ \A m : m # x => Where(Q, m) = Where(P, m)

(* A message that moves legally makes one step, or none.                    *)
LEMMA LegalSteps ==
    ASSUME NEW P, NEW Q, NEW g, NEW h, Legal(g, h), NEW x \in Msg,
           Where(P, x) = Class(g), Where(Q, x) = Class(h),
           \A m : m # x => Where(Q, m) = Where(P, m)
    PROVE  Steps(P, Q)
<1>1. CASE Class(g) = "sending" /\ Class(h) = "sending"
  <2>1. \A m : Where(Q, m) = Where(P, m)
    BY <1>1
  <2>2. QED
    BY <2>1 DEF Steps
<1>2. CASE Class(g) = "queued" /\ Class(h) = "sending"
  BY <1>2 DEF Steps
<1>3. CASE Class(g) = "sending" /\ Class(h) \in {"good", "bad"}
  BY <1>3 DEF Steps
<1>4. QED
  BY <1>1, <1>2, <1>3 DEF Legal

(* A sender's own step keeps every message in one place, and in the sender. *)
LEMMA OwnDoes ==
    ASSUME NEW P \in Layout, NEW Q \in Layout, Once(P), Own(P, Q)
    PROVE  Once(Q) /\ Steps(P, Q) /\ \A m : IsIn(Q, m) <=> IsIn(P, m)
<1>1. CASE Alike(P, Q, {})
  <2>1. P = Q
    BY <1>1 DEF Alike, Layout
  <2>2. QED
    BY <2>1 DEF Steps
<1>2. ASSUME NEW g \in Home, NEW h \in Home, Legal(g, h), Moves(P, Q, g, h)
      PROVE  Once(Q) /\ Steps(P, Q) /\ \A m : IsIn(Q, m) <=> IsIn(P, m)
  BY <1>2, MovesOnce, MovesWhere, LegalSteps
<1>3. ASSUME NEW w \in Worker, Passes(P, Q, BatchHome(w), DeliveryHome(w))
      PROVE  Once(Q) /\ Steps(P, Q) /\ \A m : IsIn(Q, m) <=> IsIn(P, m)
  BY <1>3, Homes, PassesOnce, PassesWhere DEF Steps
<1>4. ASSUME NEW g \in Home, NEW w \in Worker, NEW R \in Layout,
             Legal(g, BatchHome(w)), Moves(P, R, g, BatchHome(w)),
             Passes(R, Q, BatchHome(w), DeliveryHome(w))
      PROVE  Once(Q) /\ Steps(P, Q) /\ \A m : IsIn(Q, m) <=> IsIn(P, m)
  <2>1. Once(R)
    BY <1>4, Homes, MovesOnce
  <2>2. PICK x \in Msg :
          /\ Where(P, x) = Class(g) /\ Where(R, x) = Class(BatchHome(w))
          /\ \A m : m # x => Where(R, m) = Where(P, m)
          /\ \A m : IsIn(R, m) <=> IsIn(P, m)
    BY <1>4, Homes, MovesWhere
  <2>3. Once(Q)
    BY <1>4, <2>1, Homes, PassesOnce
  <2>4. \A m : Where(Q, m) = Where(R, m) /\ (IsIn(Q, m) <=> IsIn(R, m))
    BY <1>4, <2>1, PassesWhere
  <2>5. Steps(P, Q)
    BY <1>4, <2>2, <2>4, LegalSteps
  <2>6. QED
    BY <2>2, <2>3, <2>4, <2>5
<1>5. QED
  BY <1>1, <1>2, <1>3, <1>4 DEF Own

-----------------------------------------------------------------------------
(* What the producer does to the piles.                                     *)

(* TagInv says that what is anywhere in the sender has a tag.               *)
LEMMA TagIs == TagInv <=> \A m : IsIn(Piles, m) => tag[m] # None
BY DEF TagInv, IsIn

(* The same, after a step.                                                  *)
LEMMA TagIsNext == TagInv' <=> \A m : IsIn(Piles', m) => tag'[m] # None
<1>1. (TagInv <=> \A m : IsIn(Piles, m) => tag[m] # None)'
  BY TagIs, PTL
<1>2. QED
  BY <1>1 DEF IsIn

(* A message that comes in was nowhere, and is queued now.                  *)
LEMMA OfferDoes ==
    ASSUME Inv, NEW m \in Msg, NEW t \in Tag, Offer(m, t)
    PROVE  /\ Once(Piles') /\ TagInv'
           /\ ~IsIn(Piles, m)
           /\ Where(Piles, m) = "outside" /\ Where(Piles', m) = "queued"
           /\ \A x : x # m => Where(Piles', x) = Where(Piles, x)
<1>0. TypeOK /\ Once(Piles) /\ Piles \in Layout /\ TypeOK' /\ Piles' \in Layout
  BY OfferTyped, PilesTyped, PilesTypedNext DEF Inv
<1>1. tag[m] = None /\ inChan' = Append(inChan, m)
      /\ UNCHANGED <<successedChan, failedChan, fork, childChan, worker>>
      /\ tag' = [tag EXCEPT ![m] = t] /\ t # None
  BY Nones DEF Offer, reportVars, forkVars
<1>2. ~IsIn(Piles, m)
  BY <1>1, TagIs DEF Inv
<1>3. Adds(Piles, Piles', InHome, m)
  <2>1. Alike(Piles, Piles', {InHome})
    BY <1>1, AlikeIs
  <2>2. QED
    BY <1>1, <2>1, PilesAre, PilesAreNext DEF Adds
<1>4. /\ Once(Piles')
      /\ \A g \in Home : ToSet(Piles'[g]) = IF g = InHome THEN ToSet(Piles[g]) \cup {m}
                                            ELSE ToSet(Piles[g])
  <2>1. (\A g \in Home : m \notin ToSet(Piles[g])) /\ InHome \in Home
    BY <1>2, Homes DEF IsIn
  <2>2. PICK h \in Home : h = InHome
    BY <2>1
  <2>3. Adds(Piles, Piles', h, m) /\ Once(Piles) /\ Piles \in Layout /\ Piles' \in Layout
    BY <1>0, <1>3, <2>2
  <2>4. /\ Once(Piles')
        /\ \A g \in Home : ToSet(Piles'[g]) = IF g = h THEN ToSet(Piles[g]) \cup {m}
                                              ELSE ToSet(Piles[g])
    BY SMTT(30), <2>1, <2>3, AddsOnce
  <2>5. QED
    BY <2>2, <2>4
<1>5. Where(Piles', m) = "queued"
  <2>1. InHome \in Home /\ m \in ToSet(Piles'[InHome])
    BY <1>4, Homes
  <2>2. Where(Piles', m) = Class(InHome)
    BY <1>4, <2>1, WhereIs
  <2>3. QED
    BY <2>2, Classes
<1>6. ASSUME NEW x, x # m
      PROVE  Where(Piles', x) = Where(Piles, x) /\ (IsIn(Piles', x) <=> IsIn(Piles, x))
  <2>1. \A g \in Home : x \in ToSet(Piles'[g]) <=> x \in ToSet(Piles[g])
    BY <1>4, <1>6
  <2>2. IsIn(Piles', x) <=> IsIn(Piles, x)
    BY <2>1 DEF IsIn
  <2>3. QED
    BY <1>0, <1>4, <2>1, <2>2, WhereStays
<1>7. TagInv'
  <2>1. ASSUME NEW x, IsIn(Piles', x) PROVE tag'[x] # None
    <3>1. CASE x = m
      BY <1>0, <1>1, <3>1 DEF TypeOK
    <3>2. CASE x # m
      <4>1. tag[x] # None
        BY <1>6, <2>1, <3>2, TagIs DEF Inv
      <4>2. tag'[x] = tag[x]
        BY <1>1, <3>2, <2>1, <1>6, <1>0, TagsKnown DEF TypeOK, IsIn
      <4>3. QED
        BY <4>1, <4>2
    <3>3. QED
      BY <3>1, <3>2
  <2>2. QED
    BY <2>1, TagIsNext
<1>8. QED
  BY <1>2, <1>4, <1>5, <1>6, <1>7 DEF Where

(* A report leaves the sender, and its message is nowhere in it any more.   *)
LEMMA CollectPiles ==
    ASSUME Inv, Collect
    PROVE  \E m \in Msg :
              /\ EndUse(m) /\ Collects(m)
              /\ Once(Piles') /\ TagInv'
              /\ Where(Piles, m) \in {"good", "bad"} /\ ~IsIn(Piles', m)
              /\ \A x : x # m => Where(Piles', x) = Where(Piles, x)
              /\ \A x : IsIn(Piles', x) => IsIn(Piles, x)
<1>0. TypeOK /\ Once(Piles) /\ Piles \in Layout /\ TypeOK' /\ Piles' \in Layout
  BY CollectTyped, PilesTyped, PilesTypedNext DEF Inv
<1>1. PICK m \in Msg : Collects(m) /\ EndUse(m)
  BY <1>0, CollectDoes
<1>2. UNCHANGED <<inChan, fork, childChan, worker>>
  BY DEF Collect, forkVars
<1>3. PICK h \in {GoodHome, BadHome} : Drops(Piles, Piles', h) /\ m = Head(Piles[h])
  <2>1. CASE /\ successedChan # <<>> /\ m = Head(successedChan)
             /\ successedChan' = Tail(successedChan) /\ UNCHANGED failedChan
    <3>1. Alike(Piles, Piles', {GoodHome})
      BY <1>2, <2>1, AlikeIs
    <3>2. Drops(Piles, Piles', GoodHome) /\ m = Head(Piles[GoodHome])
      BY <2>1, <3>1, PilesAre, PilesAreNext DEF Drops
    <3>3. QED
      BY <3>2
  <2>2. CASE /\ failedChan # <<>> /\ m = Head(failedChan)
             /\ failedChan' = Tail(failedChan) /\ UNCHANGED successedChan
    <3>1. Alike(Piles, Piles', {BadHome})
      BY <1>2, <2>2, AlikeIs
    <3>2. Drops(Piles, Piles', BadHome) /\ m = Head(Piles[BadHome])
      BY <2>2, <3>1, PilesAre, PilesAreNext DEF Drops
    <3>3. QED
      BY <3>2
  <2>3. QED
    BY <1>1, <2>1, <2>2 DEF Collects
<1>4. /\ h \in Home /\ Class(h) \in {"good", "bad"}
      /\ Once(Piles') /\ ToSet(Piles[h]) = ToSet(Piles'[h]) \cup {m}
      /\ \A g \in Home : m \notin ToSet(Piles'[g])
      /\ \A g \in Home : g # h => Piles'[g] = Piles[g]
  BY <1>0, <1>3, DropsOnce, Homes, Classes
<1>5. Where(Piles, m) \in {"good", "bad"} /\ ~IsIn(Piles', m)
  <2>1. m \in ToSet(Piles[h])
    BY <1>4
  <2>2. QED
    BY <1>0, <1>4, <2>1, WhereIs DEF IsIn
<1>6. ASSUME NEW x, x # m
      PROVE  Where(Piles', x) = Where(Piles, x) /\ (IsIn(Piles', x) <=> IsIn(Piles, x))
  <2>1. \A g \in Home : x \in ToSet(Piles'[g]) <=> x \in ToSet(Piles[g])
    BY <1>4, <1>6
  <2>2. IsIn(Piles', x) <=> IsIn(Piles, x)
    BY <2>1 DEF IsIn
  <2>3. QED
    BY <1>0, <1>4, <2>1, <2>2, WhereStays
<1>7. TagInv'
  <2>1. ASSUME NEW x, IsIn(Piles', x) PROVE tag'[x] # None
    <3>1. x # m /\ IsIn(Piles, x)
      BY <1>5, <1>6, <2>1
    <3>2. tag[x] # None /\ x \in Msg
      BY <3>1, TagIs, TagsKnown DEF Inv, IsIn
    <3>3. tag'[x] = tag[x]
      BY <1>0, <1>1, <3>1, <3>2 DEF EndUse, TypeOK
    <3>4. QED
      BY <3>2, <3>3
  <2>2. QED
    BY <2>1, TagIsNext
<1>8. \A x : IsIn(Piles', x) => IsIn(Piles, x)
  BY <1>5, <1>6
<1>9. QED
  BY <1>1, <1>4, <1>5, <1>6, <1>7, <1>8

-----------------------------------------------------------------------------
(* The local variables of workers and forks.                                *)

(* A worker that moves has something to send or to report in the states     *)
(* that send or report, and room in its batch.                              *)
LEMMA BecomesKeeps ==
    ASSUME WorkerInv, NEW w \in Worker, NEW pc, NEW b, NEW d, NEW n, NEW ws,
           Becomes(w, pc, b, d, n, ws),
           pc \in {"connect", "select"} <=> d = <<>>, Len(b) < BatchSize
    PROVE  WorkerInv'
<1>1. /\ worker'[w].pc = pc /\ worker'[w].batch = b /\ worker'[w].delivery = d
      /\ \A v \in Worker : v # w => worker'[v] = worker[v]
  BY DEF Becomes
<1>2. ASSUME NEW v \in Worker
      PROVE  /\ worker'[v].pc \in {"connect", "select"} <=> worker'[v].delivery = <<>>
             /\ Len(worker'[v].batch) < BatchSize
  BY <1>1 DEF WorkerInv
<1>3. QED
  BY <1>2 DEF WorkerInv

(* The steps of a worker keep WorkerInv.                                    *)
LEMMA WorkerStepKeeps ==
    ASSUME Inv, NEW w \in Worker, WorkerStep(w)
    PROVE  WorkerInv'
<1>0. /\ TypeOK /\ WorkerInv /\ Len(worker[w].batch) < BatchSize
      /\ worker[w].pc \in {"connect", "select"} <=> worker[w].delivery = <<>>
      /\ worker[w].batch \in Seq(Msg)
  BY Holding, BatchIs DEF Inv, WorkerInv
<1>1. CASE Connect(w)
  <2>1. Becomes(w, "select", worker[w].batch, worker[w].delivery, worker[w].nRetry,
                worker[w].wraps)
    BY <1>0, <1>1, WorkerTyped, GoPc DEF Connect
  <2>2. worker[w].delivery = <<>>
    BY <1>0, <1>1 DEF Connect, At
  <2>3. QED
    BY <1>0, <2>1, <2>2, BecomesKeeps
<1>2. CASE SendsPlain(w) \/ EncodeFill(w) \/ EncodeWrite(w)
  <2>1. PICK pc \in {"send", "write", "good", "bad"}, n \in 0 .. MaxRetry, ws \in Slices :
            Becomes(w, pc, worker[w].batch, worker[w].delivery, n, ws)
    BY <1>0, <1>2, SendsPlainDoes, EncodeFillDoes, EncodeWriteDoes DEF Proceeds
  <2>2. worker[w].pc \in {"send", "write"}
    BY <1>2 DEF SendsPlain, KafkaSend, BulkSend, StdoutSend, EncodeFill, EncodeWrite, At
  <2>3. worker[w].delivery # <<>>
    BY <1>0, <2>2
  <2>4. QED
    BY <1>0, <2>1, <2>3, BecomesKeeps
<1>3. ASSUME NEW b \in Seq(Msg), b # <<>>,
             Becomes(w, "send", <<>>, b, 0, worker[w].wraps)
      PROVE  WorkerInv'
  <2>1. Len(<<>>) < BatchSize
    BY NewChan, Sizes
  <2>2. QED
    BY <1>0, <1>3, <2>1, BecomesKeeps
<1>4. CASE Tick(w)
  BY <1>0, <1>3, <1>4, DeliverDoes DEF Tick
<1>5. CASE TakeMsg(w)
  <2>1. PICK m \in Msg :
           /\ worker[w].pc = "select" /\ worker[w].delivery = <<>>
           /\ DeliverOrWait(w, Append(worker[w].batch, m))
    BY <1>5, TakeMsgDoes
  <2> DEFINE b == Append(worker[w].batch, m)
  <2>2. b \in Seq(Msg) /\ b # <<>>
    BY <1>0, SendTo, NewChan
  <2> HIDE DEF b
  <2>3. \/ Becomes(w, "send", <<>>, b, 0, worker[w].wraps)
        \/ /\ Becomes(w, worker[w].pc, b, worker[w].delivery, worker[w].nRetry,
                      worker[w].wraps)
           /\ Len(b) < BatchSize
    BY <1>0, <2>1, DeliverOrWaitDoes DEF b
  <2>4. QED
    BY <1>0, <1>3, <2>1, <2>2, <2>3, BecomesKeeps
<1>6. CASE ReportGood(w) \/ ReportBad(w)
  <2>1. Reports(w)
    BY <1>6, ReportsDoes DEF ReportGood, ReportBad, At
  <2>2. QED
    BY <1>0, <2>1, BecomesKeeps DEF Reports
<1>7. QED
  BY <1>1, <1>2, <1>4, <1>5, <1>6 DEF WorkerStep, SendsPlain

(* The steps of a fork keep ForkInv.                                        *)
LEMMA ForkStepKeeps ==
    ASSUME Inv, NEW f \in Fork, ForkStep(f)
    PROVE  ForkInv'
<1>0. /\ fork \in [Fork -> ForkState] /\ ForkInv /\ kind = "fluentd" /\ f \in ForkOf[kind]
      /\ UNCHANGED kind /\ ~panicked
  BY ForkStepDoes DEF Inv, Outside
<1> DEFINE Late == {"spawn", "store", "unlock", "send", "blocked"}
<1>1. PICK pc \in ForkPc, m \in MsgOrNone :
         /\ ForkBecomes(f, pc, m) /\ (pc = "recv" <=> m = None)
  BY ForkStepDoes, Nones DEF ForkPc, MsgOrNone
<1>2. /\ fork'[f].pc = pc /\ fork'[f].msg = m
      /\ \A g \in Fork : g # f => fork'[g] = fork[g]
  BY <1>1 DEF ForkBecomes
<1>3. childInChan # None => childInChan' # None \/ panicked'
  <2>1. CASE ForkRetest(f)
    <3>1. ForkTag(f) # None
      BY <2>1, ForkStepDoes, Nones DEF ForkRetest, ForkRecv, ForkReport, ForkSend, ForkAt
    <3>2. QED
      BY <2>1, <3>1 DEF ForkRetest
  <2>2. CASE ForkAssign(f)
    BY <2>2 DEF ForkAssign
  <2>3. CASE ~ForkRetest(f) /\ ~ForkAssign(f)
    BY <2>3 DEF ForkStep, ForkRecv, ForkLoad, ForkTest, ForkLock, ForkSpawn, ForkStore,
                ForkUnlock, ForkSend, ForkReport
  <2>4. QED
    BY <2>1, <2>2, <2>3
<1>4. pc \in Late => childInChan' # None \/ panicked'
  <2>1. CASE ForkRetest(f)
    <3>1. ForkTag(f) # None
      BY <2>1, ForkStepDoes, Nones DEF ForkRetest, ForkRecv, ForkReport, ForkSend, ForkAt
    <3>2. found => fork'[f].pc = "reassign"
      BY <1>0, <2>1 DEF ForkRetest, ForkGo, ForkState
    <3>3. QED
      BY <1>2, <2>1, <3>1, <3>2 DEF ForkRetest
  <2>2. CASE ForkAssign(f)
    BY <2>2 DEF ForkAssign
  <2>3. CASE ForkSpawn(f) \/ ForkStore(f) \/ ForkUnlock(f) \/ ForkSend(f) \/ ForkReport(f)
    <3>1. fork[f].pc \in Late
      BY <2>3 DEF ForkSpawn, ForkStore, ForkUnlock, ForkSend, ForkReport, ForkAt
    <3>2. QED
      BY <1>0, <1>3, <3>1 DEF ForkInv
  <2>4. CASE ForkRecv(f) \/ ForkLoad(f) \/ ForkTest(f) \/ ForkLock(f)
    <3>1. fork'[f].pc \notin Late
      BY <1>0, <2>4 DEF ForkRecv, ForkLoad, ForkTest, ForkLock, ForkGo, ForkState
    <3>2. QED
      BY <1>2, <3>1
  <2>5. QED
    BY <2>1, <2>2, <2>3, <2>4 DEF ForkStep
<1>5. ASSUME NEW g \in Fork
      PROVE  /\ fork'[g].pc = "recv" <=> fork'[g].msg = None
             /\ fork'[g].pc \in Late /\ ~panicked' => childInChan' # None
             /\ fork'[g].pc # "recv" => kind' = "fluentd" /\ g \in ForkOf[kind']
  <2>1. CASE g = f
    BY <1>0, <1>1, <1>2, <1>4, <2>1
  <2>2. CASE g # f
    BY <1>0, <1>2, <1>3, <2>2 DEF ForkInv
  <2>3. QED
    BY <2>1, <2>2
<1>6. QED
  BY <1>5 DEF ForkInv

(* The invariant holds initially ...                                        *)
LEMMA InitInv == Init => Inv
<1> SUFFICES ASSUME Init PROVE Inv
  OBVIOUS
<1>1. /\ \A w \in Worker : /\ worker[w].pc \in {"connect", "select"}
                           /\ worker[w].batch = <<>> /\ worker[w].delivery = <<>>
      /\ \A f \in Fork : fork[f].pc = "recv" /\ fork[f].msg = None
  BY DEF Init
<1>2. TypeOK
  <2>1. <<>> \in Seq(Msg) /\ Len(<<>>) = 0 /\ <<>> \in Batches
    BY NewChan, NoBatch
  <2>2. 0 \in 0 .. MaxRetry /\ 0 \in 0 .. BatchSize /\ 0 <= InChanSize /\ 0 <= ReportSize
    BY Sizes
  <2>3. <<>> \in Slices
    <3>1. <<>> \in [1 .. 0 -> Wrap]
      OBVIOUS
    <3>2. QED
      BY <2>2, <3>1 DEF Slices
  <2>4. worker \in [Worker -> WorkerState]
    BY <2>1, <2>2, <2>3 DEF Init, WorkerState, Pc
  <2>5. QED
    BY <2>1, <2>2, <2>4 DEF Init, TypeOK, WorkerState, Pc, Slices, MsgOrNone
<1>3. \A h \in Home : Piles[h] = <<>>
  <2>1. /\ inChan = <<>> /\ successedChan = <<>> /\ failedChan = <<>>
        /\ \A t \in Tag : childChan[t] = <<>>
    BY DEF Init
  <2>2. \A f \in Fork : Only(fork[f].msg) = <<>>
    BY <1>1 DEF Only
  <2>3. QED
    BY <1>1, <2>1, <2>2, PilesAre, Homes
<1>4. \A h \in Home : ToSet(Piles[h]) = {} /\ IsInjective(Piles[h])
  <2>1. DOMAIN <<>> = {}
    OBVIOUS
  <2>2. ToSet(<<>>) = {} /\ IsInjective(<<>>)
    BY <2>1 DEF ToSet, IsInjective
  <2>3. QED
    BY <1>3, <2>2
<1>5. Once(Piles) /\ TagInv
  BY <1>4 DEF Once, TagInv
<1>6. WorkerInv
  <2>1. Len(<<>>) < BatchSize
    BY NewChan, Sizes
  <2>2. QED
    BY <1>1, <2>1 DEF WorkerInv
<1>7. ForkInv
  BY <1>1 DEF ForkInv
<1>8. QED
  BY <1>2, <1>5, <1>6, <1>7 DEF Inv

(* A sender's own step keeps what is said about the piles.                  *)
LEMMA OwnKeeps ==
    ASSUME Inv, TypeOK', Own(Piles, Piles'), UNCHANGED tag
    PROVE  Once(Piles') /\ TagInv' /\ Steps(Piles, Piles')
<1>1. Piles \in Layout /\ Piles' \in Layout /\ Once(Piles)
  BY PilesTyped, PilesTypedNext DEF Inv
<1>2. Once(Piles') /\ Steps(Piles, Piles') /\ \A m : IsIn(Piles', m) <=> IsIn(Piles, m)
  BY <1>1, OwnDoes
<1>3. TagInv'
  BY <1>2, TagIs, TagIsNext DEF Inv
<1>4. QED
  BY <1>2, <1>3

(* ... and is preserved by every step.                                      *)
LEMMA NextInv == Inv /\ [Next]_vars => Inv'
<1> SUFFICES ASSUME Inv, [Next]_vars PROVE Inv'
  OBVIOUS
<1>0. TypeOK /\ WorkerInv /\ ForkInv /\ TypeOK'
  BY NextTyped DEF Inv
<1>p. Once(Piles)' <=> Once(Piles')
  BY DEF Once
<1>w. UNCHANGED worker => WorkerInv'
  BY <1>0 DEF WorkerInv
<1>f. UNCHANGED <<fork, childInChan, panicked, kind>> => ForkInv'
  BY <1>0 DEF ForkInv
<1>1. ASSUME NEW m \in Msg, NEW t \in Tag, Offer(m, t) PROVE Inv'
  <2>1. Once(Piles') /\ TagInv'
    BY <1>1, OfferDoes
  <2>2. UNCHANGED <<worker, fork, childInChan, panicked, kind>>
    BY <1>1 DEF Offer, forkVars
  <2>3. QED
    BY <1>0, <1>p, <1>w, <1>f, <2>1, <2>2 DEF Inv
<1>2. CASE Collect
  <2>1. Once(Piles') /\ TagInv'
    BY <1>2, CollectPiles
  <2>2. UNCHANGED <<worker, fork, childInChan, panicked, kind>>
    BY <1>2 DEF Collect, forkVars
  <2>3. QED
    BY <1>0, <1>p, <1>w, <1>f, <2>1, <2>2 DEF Inv
<1>3. ASSUME NEW w \in Worker, WorkerStep(w) PROVE Inv'
  <2>1. Own(Piles, Piles') /\ UNCHANGED <<tag, fork, childInChan, panicked, kind>>
    BY <1>3, WorkerStepPiles
  <2>2. Once(Piles') /\ TagInv'
    BY <1>0, <2>1, OwnKeeps
  <2>3. WorkerInv'
    BY <1>3, WorkerStepKeeps
  <2>4. QED
    BY <1>0, <1>p, <1>f, <2>1, <2>2, <2>3 DEF Inv
<1>4. ASSUME NEW f \in Fork, ForkStep(f) PROVE Inv'
  <2>1. Own(Piles, Piles') /\ UNCHANGED <<tag, worker, kind>>
    BY <1>4, ForkStepPiles
  <2>2. Once(Piles') /\ TagInv'
    BY <1>0, <2>1, OwnKeeps
  <2>3. ForkInv'
    BY <1>4, ForkStepKeeps
  <2>4. QED
    BY <1>0, <1>p, <1>w, <2>1, <2>2, <2>3 DEF Inv
<1>5. CASE UNCHANGED vars
  <2>1. UNCHANGED <<worker, fork, childInChan, panicked, kind, tag>>
    BY <1>5 DEF vars, forkVars
  <2>2. Alike(Piles, Piles', {})
    BY <1>5, AlikeIs DEF vars, forkVars, reportVars
  <2>3. Own(Piles, Piles')
    BY <2>2 DEF Own
  <2>4. Once(Piles') /\ TagInv'
    BY <1>0, <2>1, <2>3, OwnKeeps
  <2>5. QED
    BY <1>0, <1>p, <1>w, <1>f, <2>1, <2>4 DEF Inv
<1>6. QED
  BY <1>1, <1>2, <1>3, <1>4, <1>5 DEF Next

(* Every state of a sender satisfies the invariant.                         *)
THEOREM Invariance == Spec => []Inv
BY InitInv, NextInv, PTL DEF Spec

(* Types: channels and batches stay within their bounds, and nothing is     *)
(* tried more often than MaxRetry.                                          *)
THEOREM TypeCorrect == Spec => []TypeOK
<1>1. Inv => TypeOK
  BY DEF Inv
<1>2. QED
  BY <1>1, Invariance, PTL

-----------------------------------------------------------------------------
(* One place for each message.                                              *)

(* A set whose elements are all the same has none or one.                   *)
LEMMA AtMostOne ==
    ASSUME NEW S, \A x, y \in S : x = y
    PROVE  Cardinality(S) \in {0, 1} /\ (Cardinality(S) = 1 => S # {})
<1>1. CASE S = {}
  BY <1>1, FS_EmptySet
<1>2. CASE S # {}
  <2>1. PICK x \in S : S = {x}
    BY <1>2
  <2>2. QED
    BY <2>1, FS_Singleton
<1>3. QED
  BY <1>1, <1>2

(* A channel without repetition holds a message once or not at all.         *)
LEMMA CountOnce ==
    ASSUME NEW s, IsInjective(s), NEW m
    PROVE  Count(m, s) \in {0, 1} /\ (Count(m, s) = 1 => m \in ToSet(s))
<1> DEFINE S == {j \in DOMAIN s : s[j] = m}
<1>1. \A x, y \in S : x = y
  BY DEF IsInjective
<1>2. S # {} => m \in ToSet(s)
  BY DEF ToSet
<1>3. Count(m, s) = Cardinality(S)
  BY DEF Count
<1> HIDE DEF S
<1>4. QED
  BY <1>1, <1>2, <1>3, AtMostOne

(* The piles hold every message once at most.                               *)
LEMMA OnceIsHeldOnce == Inv => HeldOnce
<1> SUFFICES ASSUME Inv, NEW m \in Msg PROVE Copies(m) <= 1
  BY DEF HeldOnce
<1> DEFINE F == {f \in Fork : fork[f].msg = m}
           C == {t \in Tag : m \in ToSet(childChan[t])}
           B == {w \in Worker : m \in ToSet(worker[w].batch)}
           D == {w \in Worker : m \in ToSet(worker[w].delivery)}
<1>1. \A g, h \in Home : m \in ToSet(Piles[g]) /\ m \in ToSet(Piles[h]) => g = h
  BY DEF Inv, Once
<1>2. \A f \in F : ForkHome(f) \in Home /\ m \in ToSet(Piles[ForkHome(f)])
  <2>1. ASSUME NEW f \in F PROVE ForkHome(f) \in Home /\ m \in ToSet(Piles[ForkHome(f)])
    <3>1. fork[f].msg = m /\ f \in Fork
      OBVIOUS
    <3>2. Piles[ForkHome(f)] = <<m>>
      BY <3>1, PilesAre, Nones DEF Only
    <3>3. m \in ToSet(<<m>>)
      BY DEF ToSet
    <3>4. QED
      BY <3>1, <3>2, <3>3, Homes
  <2>2. QED
    BY <2>1
<1>3. \A t \in C : ChildHome(t) \in Home /\ m \in ToSet(Piles[ChildHome(t)])
  BY PilesAre, Homes
<1>4. \A w \in B : BatchHome(w) \in Home /\ m \in ToSet(Piles[BatchHome(w)])
  BY PilesAre, Homes
<1>5. \A w \in D : DeliveryHome(w) \in Home /\ m \in ToSet(Piles[DeliveryHome(w)])
  BY PilesAre, Homes
<1>6. /\ \A f, g \in F : f = g
      /\ \A t, s \in C : t = s
      /\ \A w, v \in B : w = v
      /\ \A w, v \in D : w = v
  BY <1>1, <1>2, <1>3, <1>4, <1>5, HomesOf
<1>7. /\ Count(m, inChan) \in {0, 1}
      /\ Count(m, inChan) = 1 => InHome \in Home /\ m \in ToSet(Piles[InHome])
      /\ Count(m, successedChan) \in {0, 1}
      /\ Count(m, successedChan) = 1 => GoodHome \in Home /\ m \in ToSet(Piles[GoodHome])
      /\ Count(m, failedChan) \in {0, 1}
      /\ Count(m, failedChan) = 1 => BadHome \in Home /\ m \in ToSet(Piles[BadHome])
  <2>1. /\ IsInjective(Piles[InHome]) /\ IsInjective(Piles[GoodHome])
        /\ IsInjective(Piles[BadHome])
    BY Homes DEF Inv, Once
  <2>2. QED
    BY <2>1, CountOnce, PilesAre, Homes
<1> DEFINE Kind(h) == h[1]
<1>8. /\ Kind(InHome) = "in" /\ Kind(GoodHome) = "good" /\ Kind(BadHome) = "bad"
      /\ \A x : /\ Kind(ForkHome(x)) = "fork" /\ Kind(ChildHome(x)) = "child"
                /\ Kind(BatchHome(x)) = "batch" /\ Kind(DeliveryHome(x)) = "delivery"
  BY DEF InHome, GoodHome, BadHome, ForkHome, ChildHome, BatchHome, DeliveryHome
<1>9. /\ Cardinality(F) \in {0, 1} /\ (Cardinality(F) = 1 => F # {})
      /\ Cardinality(C) \in {0, 1} /\ (Cardinality(C) = 1 => C # {})
      /\ Cardinality(B) \in {0, 1} /\ (Cardinality(B) = 1 => B # {})
      /\ Cardinality(D) \in {0, 1} /\ (Cardinality(D) = 1 => D # {})
  <2> HIDE DEF F, C, B, D
  <2>1. QED
    BY <1>6, AtMostOne
<1> HIDE DEF F, C, B, D, Kind
<1>10. ASSUME \A h \in Home : m \notin ToSet(Piles[h])
       PROVE  /\ Count(m, inChan) = 0 /\ Count(m, successedChan) = 0
              /\ Count(m, failedChan) = 0 /\ Cardinality(F) = 0
              /\ Cardinality(C) = 0 /\ Cardinality(B) = 0 /\ Cardinality(D) = 0
  <2>1. F = {} /\ C = {} /\ B = {} /\ D = {}
    BY <1>2, <1>3, <1>4, <1>5, <1>10
  <2>2. QED
    BY <1>7, <1>9, <1>10, <2>1
<1>11. ASSUME NEW h \in Home, m \in ToSet(Piles[h])
       PROVE  /\ Count(m, inChan) = 1 => Kind(h) = "in"
              /\ Count(m, successedChan) = 1 => Kind(h) = "good"
              /\ Count(m, failedChan) = 1 => Kind(h) = "bad"
              /\ Cardinality(F) = 1 => Kind(h) = "fork"
              /\ Cardinality(C) = 1 => Kind(h) = "child"
              /\ Cardinality(B) = 1 => Kind(h) = "batch"
              /\ Cardinality(D) = 1 => Kind(h) = "delivery"
  <2>1. /\ Count(m, inChan) = 1 => h = InHome
        /\ Count(m, successedChan) = 1 => h = GoodHome
        /\ Count(m, failedChan) = 1 => h = BadHome
    BY <1>1, <1>7, <1>11
  <2>2. F # {} => \E x : h = ForkHome(x)
    BY <1>1, <1>2, <1>11
  <2>3. C # {} => \E x : h = ChildHome(x)
    BY <1>1, <1>3, <1>11
  <2>4. B # {} => \E x : h = BatchHome(x)
    BY <1>1, <1>4, <1>11
  <2>5. D # {} => \E x : h = DeliveryHome(x)
    BY <1>1, <1>5, <1>11
  <2>6. QED
    BY <1>8, <1>9, <2>1, <2>2, <2>3, <2>4, <2>5
<1>12. Count(m, inChan) + Count(m, successedChan) + Count(m, failedChan)
         + Cardinality(F) + Cardinality(C) + Cardinality(B) + Cardinality(D) <= 1
  <2>1. CASE \A h \in Home : m \notin ToSet(Piles[h])
    BY <1>10, <2>1
  <2>2. CASE \E h \in Home : m \in ToSet(Piles[h])
    <3>1. PICK h \in Home : m \in ToSet(Piles[h])
      BY <2>2
    <3>2. \E k :
              /\ Count(m, inChan) = 1 => k = "in"
              /\ Count(m, successedChan) = 1 => k = "good"
              /\ Count(m, failedChan) = 1 => k = "bad"
              /\ Cardinality(F) = 1 => k = "fork"
              /\ Cardinality(C) = 1 => k = "child"
              /\ Cardinality(B) = 1 => k = "batch"
              /\ Cardinality(D) = 1 => k = "delivery"
      BY <1>7, <1>9, <1>11, <3>1
    <3>3. QED
      BY <1>7, <1>9, <3>2
  <2>3. QED
    BY <2>1, <2>2
<1>13. QED
  BY <1>12 DEF Copies, F, C, B, D

(* No message is in two batches, channels or reports of a sender at once,   *)
(* whatever its size: what is sent again was taken out of the batch.        *)
THEOREM OneCopy == Spec => []HeldOnce
BY OnceIsHeldOnce, Invariance, PTL

-----------------------------------------------------------------------------
(* The contract of the producer.                                            *)

(* The parts of a sender that a message can be in.                          *)
LEMMA InsideIs ==
    \A m : m \in Inside <=>
        \/ m \in ToSet(inChan) \/ m \in ToSet(successedChan) \/ m \in ToSet(failedChan)
        \/ \E f \in Fork : fork[f].msg = m
        \/ \E t \in Tag : m \in ToSet(childChan[t])
        \/ \E w \in Worker : m \in ToSet(worker[w].batch) \cup ToSet(worker[w].delivery)
<1> DEFINE F == {fork[f].msg : f \in Fork}
           C == UNION {ToSet(childChan[t]) : t \in Tag}
           W == UNION {ToSet(worker[w].batch) \cup ToSet(worker[w].delivery) : w \in Worker}
<1>1. \A m : m \in F <=> \E f \in Fork : fork[f].msg = m
  OBVIOUS
<1>2. \A m : m \in C <=> \E t \in Tag : m \in ToSet(childChan[t])
  OBVIOUS
<1>3. \A m : m \in W <=>
        \E w \in Worker : m \in ToSet(worker[w].batch) \cup ToSet(worker[w].delivery)
  OBVIOUS
<1>4. Inside = ToSet(inChan) \cup ToSet(successedChan) \cup ToSet(failedChan)
                 \cup F \cup C \cup W
  BY DEF Inside
<1> HIDE DEF F, C, W
<1>5. QED
  BY <1>1, <1>2, <1>3, <1>4

(* Where a message is, for the producer, is where its pile is.              *)
LEMMA PlaceIs ==
    ASSUME Inv, NEW m \in Msg
    PROVE  Place(m) = Where(Piles, m)
<1>0. Once(Piles) /\ m # None
  BY Nones DEF Inv
<1>1. /\ InHome \in Home /\ GoodHome \in Home /\ BadHome \in Home
      /\ Piles[InHome] = inChan /\ Piles[GoodHome] = successedChan
      /\ Piles[BadHome] = failedChan
  BY Homes, PilesAre
<1>2. CASE m \in ToSet(inChan)
  <2>1. Where(Piles, m) = "queued"
    BY <1>0, <1>1, <1>2, WhereIs, Classes
  <2>2. QED
    BY <1>2, <2>1 DEF Place
<1>3. CASE m \in ToSet(successedChan)
  <2>1. Where(Piles, m) = "good"
    BY <1>0, <1>1, <1>3, WhereIs, Classes
  <2>2. m \notin ToSet(inChan)
    BY <1>0, <1>1, <1>3, HomesDiffer DEF Once
  <2>3. QED
    BY <1>3, <2>1, <2>2 DEF Place
<1>4. CASE m \in ToSet(failedChan)
  <2>1. Where(Piles, m) = "bad"
    BY <1>0, <1>1, <1>4, WhereIs, Classes
  <2>2. m \notin ToSet(inChan) /\ m \notin ToSet(successedChan)
    BY <1>0, <1>1, <1>4, HomesDiffer DEF Once
  <2>3. QED
    BY <1>4, <2>1, <2>2 DEF Place
<1>5. CASE m \notin ToSet(inChan) \cup ToSet(successedChan) \cup ToSet(failedChan)
  <2>1. CASE m \in Inside
    <3>1. PICK h \in Home : m \in ToSet(Piles[h]) /\ Class(h) = "sending"
      <4>1. ASSUME NEW f \in Fork, fork[f].msg = m
            PROVE  \E h \in Home : m \in ToSet(Piles[h]) /\ Class(h) = "sending"
        <5>1. Piles[ForkHome(f)] = <<m>>
          BY <1>0, <4>1, PilesAre DEF Only
        <5>2. m \in ToSet(<<m>>)
          BY DEF ToSet
        <5>3. QED
          BY <5>1, <5>2, Homes, Classes
      <4>2. ASSUME NEW t \in Tag, m \in ToSet(childChan[t])
            PROVE  \E h \in Home : m \in ToSet(Piles[h]) /\ Class(h) = "sending"
        BY <4>2, PilesAre, Homes, Classes
      <4>3. ASSUME NEW w \in Worker, m \in ToSet(worker[w].batch) \cup ToSet(worker[w].delivery)
            PROVE  \E h \in Home : m \in ToSet(Piles[h]) /\ Class(h) = "sending"
        BY <4>3, PilesAre, Homes, Classes
      <4>4. \/ \E f \in Fork : fork[f].msg = m
            \/ \E t \in Tag : m \in ToSet(childChan[t])
            \/ \E w \in Worker : m \in ToSet(worker[w].batch) \cup ToSet(worker[w].delivery)
        BY <1>5, <2>1, InsideIs
      <4>5. QED
        BY <4>1, <4>2, <4>3, <4>4
    <3>2. Where(Piles, m) = "sending"
      BY <1>0, <3>1, WhereIs
    <3>3. QED
      BY <1>5, <2>1, <3>2 DEF Place
  <2>2. CASE m \notin Inside
    <3>1. ASSUME NEW h \in Home PROVE m \notin ToSet(Piles[h])
      <4>1. CASE h \in {InHome, GoodHome, BadHome}
        BY <1>1, <1>5, <4>1
      <4>2. ASSUME NEW f \in Fork, h = ForkHome(f) PROVE m \notin ToSet(Piles[h])
        <5>1. fork[f].msg # m
          BY <2>2, InsideIs
        <5>2. Piles[h] \in {<<>>, <<fork[f].msg>>}
          BY <4>2, PilesAre DEF Only
        <5>3. ToSet(<<>>) = {} /\ ToSet(<<fork[f].msg>>) = {fork[f].msg}
          BY DEF ToSet
        <5>4. QED
          BY <5>1, <5>2, <5>3
      <4>3. ASSUME NEW t \in Tag, h = ChildHome(t) PROVE m \notin ToSet(Piles[h])
        BY <2>2, <4>3, PilesAre, InsideIs
      <4>4. ASSUME NEW w \in Worker, h = BatchHome(w) \/ h = DeliveryHome(w)
            PROVE  m \notin ToSet(Piles[h])
        BY <2>2, <4>4, PilesAre, InsideIs
      <4>5. \/ h \in {InHome, GoodHome, BadHome}
            \/ \E f \in Fork : h = ForkHome(f)
            \/ \E t \in Tag : h = ChildHome(t)
            \/ \E w \in Worker : h = BatchHome(w) \/ h = DeliveryHome(w)
        BY Homes
      <4>6. QED
        BY <4>1, <4>2, <4>3, <4>4, <4>5
    <3>2. Where(Piles, m) = "outside"
      BY <3>1 DEF Where, IsIn
    <3>3. QED
      BY <1>5, <2>2, <3>2 DEF Place
  <2>3. QED
    BY <2>1, <2>2
<1>6. QED
  BY <1>2, <1>3, <1>4, <1>5

(* The variable of the contract.                                            *)
LEMMA PlacesAre == Inv => [m \in Msg |-> Place(m)] = [m \in Msg |-> Where(Piles, m)]
BY PlaceIs

(* The same, after a step.                                                  *)
LEMMA PlacesAreNext ==
    Inv' => [m \in Msg |-> Place(m)]' = [m \in Msg |-> Where(Piles', m)]
<1>1. (Inv => [m \in Msg |-> Place(m)] = [m \in Msg |-> Where(Piles, m)])'
  BY PlacesAre, PTL
<1>2. QED
  BY <1>1 DEF Where, IsIn

(* A message moves, for the producer.                                       *)
LEMMA ContractMoves ==
    ASSUME Inv, Inv', NEW m \in Msg, NEW from, NEW to,
           Where(Piles, m) = from, Where(Piles', m) = to,
           \A x \in Msg : x # m => Where(Piles', x) = Where(Piles, x)
    PROVE  Contract!Move(m, from, to)
<1> DEFINE p == [x \in Msg |-> Place(x)]
           q == [x \in Msg |-> Where(Piles, x)]
           r == [x \in Msg |-> Where(Piles', x)]
<1>1. p = q /\ p' = r
  BY PlacesAre, PlacesAreNext
<1>2. q[m] = from /\ r = [q EXCEPT ![m] = to]
  OBVIOUS
<1>3. p[m] = from /\ p' = [p EXCEPT ![m] = to]
  BY <1>1, <1>2
<1>4. QED
  BY <1>3 DEF Contract!Move

(* Initially every message is outside.                                      *)
LEMMA ContractInit == Init => Contract!Init
<1> SUFFICES ASSUME Init PROVE Contract!Init
  OBVIOUS
<1>1. Inv
  BY InitInv
<1>2. \A m \in Msg : tag[m] = None
  BY DEF Init
<1>3. \A m \in Msg : Where(Piles, m) = "outside"
  BY <1>1, <1>2, TagIs DEF Where, Inv
<1>4. QED
  BY <1>1, <1>3, PlacesAre DEF Contract!Init

(* Every step is one of the contract, or leaves the places alone.           *)
LEMMA ContractNext ==
    Inv /\ Inv' /\ [Next]_vars => [Contract!Next]_([m \in Msg |-> Place(m)])
<1> SUFFICES ASSUME Inv, Inv', [Next]_vars
             PROVE  Contract!Next \/ UNCHANGED [m \in Msg |-> Place(m)]
  OBVIOUS
<1>1. ASSUME NEW m \in Msg, NEW t \in Tag, Offer(m, t) PROVE Contract!Next
  <2>1. Contract!Move(m, "outside", "queued")
    BY <1>1, OfferDoes, ContractMoves
  <2>2. QED
    BY <2>1 DEF Contract!Next, Contract!Offer
<1>2. CASE Collect
  <2>1. PICK m \in Msg :
          /\ Where(Piles, m) \in {"good", "bad"} /\ ~IsIn(Piles', m)
          /\ \A x : x # m => Where(Piles', x) = Where(Piles, x)
    BY <1>2, CollectPiles
  <2>2. Where(Piles', m) = "outside"
    BY <2>1 DEF Where
  <2>3. Contract!Move(m, "good", "outside") \/ Contract!Move(m, "bad", "outside")
    BY <2>1, <2>2, ContractMoves
  <2>4. QED
    BY <2>3 DEF Contract!Next, Contract!Collect
<1>3. ASSUME Steps(Piles, Piles')
      PROVE  Contract!Next \/ UNCHANGED [m \in Msg |-> Place(m)]
  <2>1. CASE \A m : Where(Piles', m) = Where(Piles, m)
    <3>1. [m \in Msg |-> Where(Piles', m)] = [m \in Msg |-> Where(Piles, m)]
      BY <2>1
    <3>2. QED
      BY <3>1, PlacesAre, PlacesAreNext
  <2>2. ASSUME NEW m \in Msg, Where(Piles, m) = "queued", Where(Piles', m) = "sending",
               \A x : x # m => Where(Piles', x) = Where(Piles, x)
        PROVE  Contract!Next
    <3>1. Contract!Move(m, "queued", "sending")
      BY <2>2, ContractMoves
    <3>2. QED
      BY <3>1 DEF Contract!Next, Contract!Take
  <2>3. ASSUME NEW m \in Msg, Where(Piles, m) = "sending", Where(Piles', m) \in {"good", "bad"},
               \A x : x # m => Where(Piles', x) = Where(Piles, x)
        PROVE  Contract!Next
    <3>1. Contract!Move(m, "sending", "good") \/ Contract!Move(m, "sending", "bad")
      BY <2>3, ContractMoves
    <3>2. QED
      BY <3>1 DEF Contract!Next, Contract!Report
  <2>4. QED
    BY <1>3, <2>1, <2>2, <2>3 DEF Steps
<1>4. TypeOK'
  BY DEF Inv
<1>5. ASSUME NEW w \in Worker, WorkerStep(w) PROVE Steps(Piles, Piles')
  BY <1>4, <1>5, WorkerStepPiles, OwnKeeps
<1>6. ASSUME NEW f \in Fork, ForkStep(f) PROVE Steps(Piles, Piles')
  BY <1>4, <1>6, ForkStepPiles, OwnKeeps
<1>7. CASE UNCHANGED vars
  <2>1. Alike(Piles, Piles', {})
    BY <1>7, AlikeIs DEF vars, forkVars, reportVars
  <2>2. UNCHANGED tag
    BY <1>7 DEF vars
  <2>3. Steps(Piles, Piles')
    BY <1>4, <2>1, <2>2, OwnKeeps DEF Own
  <2>4. QED
    BY <1>3, <2>3
<1>8. QED
  BY <1>1, <1>2, <1>3, <1>5, <1>6, <1>7 DEF Next

(* Every sender, with any number of workers, forks and tags, does what the  *)
(* producer relies on: it takes each message it is given, reports it once,  *)
(* as good or as bad, and then does not have it any more.                   *)
THEOREM Refinement == Spec => ImplementsContract
<1>1. Init => Contract!Init
  BY ContractInit
<1>2. Inv /\ Inv' /\ [Next]_vars => [Contract!Next]_([m \in Msg |-> Place(m)])
  BY ContractNext
<1>3. QED
  BY <1>1, <1>2, Invariance, PTL DEF Spec, ImplementsContract, Contract!Spec

-----------------------------------------------------------------------------
(* What is reported as good.                                                *)

(* A send leaves the other workers alone, and keeps the delivery.           *)
LEMMA ProceedsKeeps ==
    ASSUME NEW w \in Worker, Proceeds(w)
    PROVE  /\ worker'[w].delivery = worker[w].delivery
           /\ \A v \in Worker : v # w => worker'[v] = worker[v]
BY BecomesOthers DEF Proceeds

(* The messages of a delivery, and their places in it.                      *)
LEMMA DeliveryIs ==
    ASSUME TypeOK, NEW w \in Worker
    PROVE  /\ \A j \in DOMAIN worker[w].delivery :
                 j \in 1 .. BatchSize /\ worker[w].delivery[j] \in Msg
           /\ \A x : x \in Delivery(w) <=>
                        \E j \in DOMAIN worker[w].delivery : x = worker[w].delivery[j]
<1>1. worker[w].delivery \in Seq(Msg) /\ Len(worker[w].delivery) \in Nat
      /\ Len(worker[w].delivery) <= BatchSize
  BY Holding, BatchIs
<1>2. \A j \in DOMAIN worker[w].delivery :
         j \in 1 .. BatchSize /\ worker[w].delivery[j] \in Msg
  BY <1>1, LenProperties, Sizes
<1>3. \A x : x \in Delivery(w) <=>
                \E j \in DOMAIN worker[w].delivery : x = worker[w].delivery[j]
  BY DEF Delivery, ToSet
<1>4. QED
  BY <1>2, <1>3

(* What a report as good may stand for does not get less.                   *)
LEMMA ThroughGrows ==
    ASSUME UNCHANGED tag, arrived \subseteq arrived', refused \subseteq refused'
    PROVE  Through \subseteq Through'
BY DEF Through

(* SentInv after the step of a worker, which is about that worker.          *)
LEMMA SentStep ==
    ASSUME SentInv, kind # "fluentd", NEW w \in Worker, UNCHANGED <<kind, tag>>,
           arrived \subseteq arrived', refused \subseteq refused',
           \A v \in Worker : v # w => worker'[v] = worker[v] /\ kmsg'[v] = kmsg[v],
           ToSet(successedChan') \subseteq Through',
           worker'[w].pc = "good" => Delivery(w)' \subseteq Through',
           kind = "kafka" /\ worker'[w].pc = "send" =>
              \A j \in DOMAIN worker'[w].delivery :
                 tag[worker'[w].delivery[j]] \notin Bad =>
                     kmsg'[w][j] = worker'[w].delivery[j]
    PROVE  SentInv'
<1>1. Through \subseteq Through'
  BY ThroughGrows
<1>2. ASSUME NEW v \in Worker, worker'[v].pc = "good"
      PROVE  Delivery(v)' \subseteq Through'
  <2>1. CASE v = w
    BY <1>2, <2>1
  <2>2. CASE v # w
    <3>1. worker[v].pc = "good" /\ Delivery(v)' = Delivery(v)
      BY <1>2, <2>2 DEF Delivery
    <3>2. QED
      BY <1>1, <3>1 DEF SentInv
  <2>3. QED
    BY <2>1, <2>2
<1>3. ASSUME NEW v \in Worker, kind = "kafka", worker'[v].pc = "send",
             NEW j \in DOMAIN worker'[v].delivery, tag[worker'[v].delivery[j]] \notin Bad
      PROVE  kmsg'[v][j] = worker'[v].delivery[j]
  <2>1. CASE v = w
    BY <1>3, <2>1
  <2>2. CASE v # w
    BY <1>3, <2>2 DEF SentInv
  <2>3. QED
    BY <2>1, <2>2
<1>4. QED
  BY <1>2, <1>3 DEF SentInv

(* SentInv after a step of the producer, about a message that is nowhere    *)
(* that SentInv speaks of.                                                  *)
LEMMA SentOfOthers ==
    ASSUME TypeOK, SentInv, NEW m \in Msg, UNCHANGED <<kind, worker>>,
           ToSet(successedChan') \subseteq ToSet(successedChan) \cap Msg,
           m \notin ToSet(successedChan'), \A w \in Worker : m \notin Delivery(w),
           \A x \in Msg : x # m => /\ tag'[x] = tag[x]
                                   /\ x \in arrived => x \in arrived'
                                   /\ x \in refused => x \in refused',
           \A w \in Worker : \A j \in 1 .. BatchSize :
               kmsg[w][j] # m => kmsg'[w][j] = kmsg[w][j]
    PROVE  SentInv'
<1> SUFFICES ASSUME kind # "fluentd" PROVE SentInv'
  BY DEF SentInv
<1>1. \A x \in Msg : x # m /\ x \in Through => x \in Through'
  BY DEF Through
<1>2. ToSet(successedChan') \subseteq Through'
  BY <1>1 DEF SentInv
<1>3. ASSUME NEW w \in Worker, worker'[w].pc = "good"
      PROVE  Delivery(w)' \subseteq Through'
  <2>1. Delivery(w)' = Delivery(w) /\ Delivery(w) \subseteq Through
    BY <1>3 DEF SentInv, Delivery
  <2>2. Delivery(w) \subseteq Msg
    BY DeliveryIs
  <2>3. QED
    BY <1>1, <2>1, <2>2
<1>4. ASSUME NEW w \in Worker, kind' = "kafka", worker'[w].pc = "send",
             NEW j \in DOMAIN worker'[w].delivery, tag'[worker'[w].delivery[j]] \notin Bad
      PROVE  kmsg'[w][j] = worker'[w].delivery[j]
  <2>1. /\ worker'[w].delivery[j] = worker[w].delivery[j] /\ j \in DOMAIN worker[w].delivery
        /\ worker[w].delivery[j] \in Msg /\ worker[w].delivery[j] # m /\ j \in 1 .. BatchSize
    BY <1>4, DeliveryIs
  <2>2. tag[worker[w].delivery[j]] \notin Bad
    BY <1>4, <2>1
  <2>3. kmsg[w][j] = worker[w].delivery[j]
    BY <1>4, <2>1, <2>2 DEF SentInv
  <2>4. QED
    BY <2>1, <2>3
<1>5. QED
  BY <1>2, <1>3, <1>4 DEF SentInv

(* The steps of the producer keep SentInv.                                  *)
LEMMA ProducerKeepsSent ==
    ASSUME Inv, SentInv
    PROVE  /\ \A m \in Msg, t \in Tag : Offer(m, t) => SentInv'
           /\ Collect => SentInv'
<1>0. TypeOK /\ ToSet(successedChan) \subseteq Msg
  <2>1. successedChan \in Seq(Msg) /\ TypeOK
    BY DEF Inv, TypeOK
  <2>2. QED
    BY <2>1, LenProperties DEF ToSet
<1>1. ASSUME NEW m \in Msg, NEW t \in Tag, Offer(m, t) PROVE SentInv'
  <2>1. UNCHANGED <<kind, worker, kmsg, successedChan, arrived, refused>>
        /\ tag' = [tag EXCEPT ![m] = t]
    BY <1>1 DEF Offer, reportVars, history
  <2>2. ~IsIn(Piles, m)
    BY <1>1, OfferDoes
  <2>3. m \notin ToSet(successedChan) /\ \A w \in Worker : m \notin Delivery(w)
    BY <2>2, PilesAre, Homes DEF IsIn, Delivery
  <2>4. \A x \in Msg : x # m => tag'[x] = tag[x]
    BY <1>0, <2>1 DEF TypeOK
  <2>5. QED
    BY <1>0, <2>1, <2>3, <2>4, SentOfOthers
<1>2. ASSUME Collect PROVE SentInv'
  <2>1. PICK m \in Msg : EndUse(m) /\ Collects(m) /\ ~IsIn(Piles', m)
    BY <1>2, CollectPiles
  <2>2. UNCHANGED <<kind, worker>>
    BY <1>2 DEF Collect
  <2>3. m \notin ToSet(successedChan') /\ \A w \in Worker : m \notin Delivery(w)
    <3>1. \A h \in Home : m \notin ToSet(Piles'[h])
      BY <2>1 DEF IsIn
    <3>2. m \notin ToSet(successedChan')
      BY <3>1, PilesAreNext, Homes
    <3>3. \A w \in Worker : m \notin ToSet(worker'[w].delivery)
      BY <3>1, PilesAreNext, Homes
    <3>4. QED
      BY <2>2, <3>2, <3>3 DEF Delivery
  <2>4. ToSet(successedChan') \subseteq ToSet(successedChan)
    <3>1. successedChan \in Seq(Msg)
      BY <1>0 DEF TypeOK
    <3>2. CASE successedChan # <<>> /\ successedChan' = Tail(successedChan)
      BY <3>1, <3>2, ReceiveFrom
    <3>3. QED
      BY <2>1, <3>2 DEF Collects
  <2>5. \A x \in Msg : x # m => /\ tag'[x] = tag[x]
                                /\ x \in arrived => x \in arrived'
                                /\ x \in refused => x \in refused'
    BY <1>0, <2>1 DEF EndUse, TypeOK
  <2>6. ASSUME NEW w \in Worker, NEW j \in 1 .. BatchSize, kmsg[w][j] # m
        PROVE  kmsg'[w][j] = kmsg[w][j]
    <3>1. DOMAIN kmsg[w] = 1 .. BatchSize
      BY <1>0 DEF TypeOK
    <3>2. kmsg'[w] = Forget(m, kmsg[w])
      BY <2>1 DEF EndUse
    <3>3. QED
      BY <2>6, <3>1, <3>2 DEF Forget
  <2>7. QED
    BY <1>0, <2>2, <2>3, <2>4, <2>5, <2>6, SentOfOthers
<1>3. QED
  BY <1>1, <1>2

(* A batch that goes out: Kafka's values are its messages.                  *)
LEMMA DeliverKeepsSent ==
    ASSUME Inv, SentInv, kind # "fluentd", NEW w \in Worker, NEW b \in Batches,
           Deliver(w, b), UNCHANGED <<kind, tag, arrived, refused, successedChan>>
    PROVE  SentInv'
<1>0. TypeOK /\ kmsg \in [Worker -> [1 .. BatchSize -> MsgOrNone]]
  BY DEF Inv, TypeOK
<1>1. /\ worker'[w].pc = "send" /\ worker'[w].delivery = b
      /\ \A v \in Worker : v # w => worker'[v] = worker[v]
  <2>1. Becomes(w, "send", <<>>, b, 0, worker[w].wraps)
    BY <1>0, DeliverDoes
  <2>2. QED
    BY <2>1 DEF Becomes
<1>2. \A v \in Worker : v # w => kmsg'[v] = kmsg[v]
  BY <1>0 DEF Deliver
<1>3. ASSUME kind = "kafka", NEW j \in DOMAIN b, tag[b[j]] \notin Bad
      PROVE  kmsg'[w][j] = b[j]
  <2>1. kmsg'[w] = Values(w, b)
    BY <1>0, <1>3 DEF Deliver
  <2>2. b \in Seq(Msg) /\ Len(b) \in Nat /\ Len(b) <= BatchSize
    BY BatchIs
  <2>3. j \in 1 .. BatchSize
    BY <2>2, LenProperties, Sizes
  <2>4. QED
    BY <1>3, <2>1, <2>3 DEF Values
<1>4. ToSet(successedChan') \subseteq Through'
  BY ThroughGrows DEF SentInv
<1>5. QED
  BY <1>1, <1>2, <1>3, <1>4, SentStep

(* A send of Kafka, Elasticsearch or stdout.                                *)
LEMMA SendsKeepSent ==
    ASSUME Inv, SentInv, kind # "fluentd", NEW w \in Worker, SendsPlain(w)
    PROVE  SentInv'
<1>0. TypeOK
  BY DEF Inv
<1>1. /\ UNCHANGED <<kind, tag, kmsg, successedChan>> /\ worker[w].pc = "send"
      /\ Proceeds(w)
  BY <1>0, SendsPlainDoes
     DEF SendsPlain, KafkaSend, BulkSend, StdoutSend, NoReport, reportVars, At
<1>2. /\ worker'[w].delivery = worker[w].delivery
      /\ \A v \in Worker : v # w => worker'[v] = worker[v]
  BY <1>1, ProceedsKeeps
<1>3. Delivery(w)' = Delivery(w)
  BY <1>2 DEF Delivery
<1>4. /\ arrived \subseteq arrived' /\ refused \subseteq refused'
      /\ worker'[w].pc = "good" => Delivery(w) \subseteq Through'
  <2>1. CASE KafkaSend(w)
    <3> DEFINE values == {kmsg[w][j] : j \in DOMAIN worker[w].delivery} \ {None}
    <3>1. kind = "kafka" /\ refused' = refused
      BY <2>1 DEF KafkaSend
    <3>2. Sent(w, values) \/ \E S \in SUBSET values : Retry(w, S)
      BY <2>1 DEF KafkaSend
    <3>3. \/ arrived' = arrived \cup values
          \/ arrived \subseteq arrived' /\ worker'[w].pc \in {"send", "bad"}
      <4> HIDE DEF values
      <4>1. QED
        BY <1>0, <1>1, <3>2, SentDoes, RetryDoes
    <3>4. ASSUME NEW x \in Delivery(w), arrived' = arrived \cup values
          PROVE  x \in Through'
      <4>1. PICK j \in DOMAIN worker[w].delivery : x = worker[w].delivery[j]
        BY <1>0, DeliveryIs
      <4>2. x \in Msg /\ x # None
        BY <1>0, <4>1, DeliveryIs, Nones
      <4>3. CASE tag[x] \in Bad
        BY <1>1, <4>2, <4>3 DEF Through
      <4>4. CASE tag[x] \notin Bad
        <5>1. kmsg[w][j] = x
          BY <1>1, <3>1, <4>1, <4>4 DEF SentInv
        <5>2. x \in values
          BY <4>2, <5>1
        <5>3. QED
          BY <3>4, <5>2 DEF Through
      <4>5. QED
        BY <4>3, <4>4
    <3> HIDE DEF values
    <3>5. QED
      BY <3>1, <3>3, <3>4
  <2>2. CASE BulkSend(w)
    <3> DEFINE cnt == {m \in Delivery(w) : tag[m] \notin Bad}
    <3>1. \/ \E S \in SUBSET cnt : Sent(w, S) /\ refused' = refused \cup (cnt \ S)
          \/ (\E S \in SUBSET cnt : Retry(w, S)) /\ UNCHANGED refused
      BY <2>2 DEF BulkSend
    <3>2. Delivery(w) \subseteq Msg
      BY <1>0, DeliveryIs
    <3>3. Delivery(w) \subseteq cnt \cup {m \in Msg : tag'[m] \in Bad}
      BY <1>1, <3>2
    <3> HIDE DEF cnt
    <3>4. CASE (\E S \in SUBSET cnt : Retry(w, S)) /\ UNCHANGED refused
      <4>1. arrived \subseteq arrived' /\ worker'[w].pc \in {"send", "bad"}
        BY <1>0, <1>1, <3>4, RetryDoes
      <4>2. QED
        BY <3>4, <4>1
    <3>5. CASE \E S \in SUBSET cnt : Sent(w, S) /\ refused' = refused \cup (cnt \ S)
      <4>1. PICK S \in SUBSET cnt : Sent(w, S) /\ refused' = refused \cup (cnt \ S)
        BY <3>5
      <4>2. arrived' = arrived \cup S
        BY <4>1 DEF Sent
      <4>3. cnt \subseteq arrived' \cup refused'
        BY <4>1, <4>2
      <4>4. Delivery(w) \subseteq Through'
        BY <3>3, <4>3 DEF Through
      <4>5. QED
        BY <4>1, <4>2, <4>4
    <3>6. QED
      BY <3>1, <3>4, <3>5
  <2>3. CASE StdoutSend(w)
    BY <2>3 DEF StdoutSend, Through
  <2>4. QED
    BY <2>1, <2>2, <2>3 DEF SendsPlain
<1>5. ToSet(successedChan') \subseteq Through'
  BY <1>1, <1>4, ThroughGrows DEF SentInv
<1>6. ASSUME kind = "kafka", NEW j \in DOMAIN worker'[w].delivery,
             tag[worker'[w].delivery[j]] \notin Bad
      PROVE  kmsg'[w][j] = worker'[w].delivery[j]
  BY <1>1, <1>2, <1>6 DEF SentInv
<1>7. QED
  BY <1>1, <1>2, <1>3, <1>4, <1>5, <1>6, SentStep

(* The reports keep SentInv.                                                *)
LEMMA ReportsKeepSent ==
    ASSUME Inv, SentInv, kind # "fluentd", NEW w \in Worker,
           ReportGood(w) \/ ReportBad(w)
    PROVE  SentInv'
<1>0. successedChan \in Seq(Msg)
  BY DEF Inv, TypeOK
<1>1. /\ UNCHANGED <<kind, tag, kmsg, arrived, refused>>
      /\ worker[w].pc \in {"good", "bad"} /\ Go(w, AfterReport(w))
  BY DEF ReportGood, ReportBad, history, At
<1>2. /\ Reports(w) /\ worker[w].delivery \in Seq(Msg) /\ worker[w].delivery # <<>>
      /\ Head(worker[w].delivery) \in Msg
  BY <1>1, ReportsDoes
<1>3. /\ worker'[w].delivery = Tail(worker[w].delivery)
      /\ worker'[w].pc \in {"connect", "select", worker[w].pc}
      /\ \A v \in Worker : v # w => worker'[v] = worker[v]
  BY <1>2 DEF Reports, Becomes
<1>4. /\ ToSet(worker[w].delivery) = {Head(worker[w].delivery)} \cup ToSet(worker'[w].delivery)
  BY <1>2, <1>3, ReceiveFrom
<1>5. Through \subseteq Through'
  BY <1>1, ThroughGrows
<1>6. worker[w].pc = "good" =>
         Head(worker[w].delivery) \in Through /\ Delivery(w)' \subseteq Through
  BY <1>4 DEF SentInv, Delivery
<1>7. ToSet(successedChan') \subseteq Through'
  <2>1. CASE ReportGood(w)
    <3>1. /\ worker[w].pc = "good"
          /\ successedChan' = Append(successedChan, Head(worker[w].delivery))
      BY <2>1 DEF ReportGood, At
    <3>2. ToSet(successedChan') = ToSet(successedChan) \cup {Head(worker[w].delivery)}
      BY <1>0, <1>2, <3>1, SendTo
    <3>3. QED
      BY <1>5, <1>6, <3>1, <3>2 DEF SentInv
  <2>2. CASE ReportBad(w)
    BY <1>5, <2>2 DEF ReportBad, SentInv
  <2>3. QED
    BY <2>1, <2>2
<1>8. /\ worker'[w].pc = "good" => Delivery(w)' \subseteq Through'
      /\ worker'[w].pc # "send"
  BY <1>1, <1>3, <1>5, <1>6
<1>9. QED
  BY <1>1, <1>3, <1>7, <1>8, SentStep

(* The steps of a worker keep SentInv.                                      *)
LEMMA WorkerKeepsSent ==
    ASSUME Inv, SentInv, NEW w \in Worker, WorkerStep(w)
    PROVE  SentInv'
<1>0. TypeOK /\ UNCHANGED <<kind, tag>>
  BY WorkerStepPiles DEF Inv
<1>1. CASE kind = "fluentd"
  BY <1>0, <1>1 DEF SentInv
<1>2. CASE kind # "fluentd"
  <2>a. ToSet(successedChan) \subseteq Through
    BY <1>2 DEF SentInv
  <2>1. ASSUME NEW pc \in {"connect", "select"}, NEW b, NEW d, NEW n, NEW ws,
               Becomes(w, pc, b, d, n, ws),
               UNCHANGED <<kmsg, arrived, refused, successedChan>>
        PROVE  SentInv'
    <3>1. worker'[w].pc = pc /\ \A v \in Worker : v # w => worker'[v] = worker[v]
      BY <2>1 DEF Becomes
    <3>2. ToSet(successedChan') \subseteq Through'
      BY <1>0, <2>a, <2>1, ThroughGrows
    <3>3. QED
      BY <1>0, <1>2, <2>1, <3>1, <3>2, SentStep
  <2>2. CASE Connect(w)
    <3>1. Becomes(w, "select", worker[w].batch, worker[w].delivery, worker[w].nRetry,
                  worker[w].wraps)
      BY <1>0, <2>2, WorkerTyped, GoPc DEF Connect
    <3>2. UNCHANGED <<kmsg, arrived, refused, successedChan>>
      BY <2>2 DEF Connect, NoReport, reportVars, history
    <3>3. QED
      BY <2>1, <3>1, <3>2
  <2>3. CASE TakeMsg(w)
    <3>1. PICK m \in Msg :
            /\ worker[w].pc = "select" /\ Append(worker[w].batch, m) \in Batches
            /\ DeliverOrWait(w, Append(worker[w].batch, m))
      BY <2>3, TakeMsgDoes
    <3>2. UNCHANGED <<arrived, refused, successedChan>>
      BY <2>3 DEF TakeMsg, NoReport, reportVars, history
    <3>3. CASE Deliver(w, Append(worker[w].batch, m))
      BY <1>0, <1>2, <3>1, <3>2, <3>3, DeliverKeepsSent
    <3>4. CASE /\ Becomes(w, worker[w].pc, Append(worker[w].batch, m), worker[w].delivery,
                          worker[w].nRetry, worker[w].wraps)
               /\ UNCHANGED kmsg
      BY <2>1, <3>1, <3>2, <3>4
    <3>5. QED
      BY <1>0, <3>1, <3>3, <3>4, DeliverOrWaitDoes
  <2>4. CASE Tick(w)
    <3>1. worker[w].batch \in Batches
      BY <1>0, Holding
    <3>2. UNCHANGED <<arrived, refused, successedChan>> /\ Deliver(w, worker[w].batch)
      BY <2>4 DEF Tick, NoReport, reportVars, history
    <3>3. QED
      BY <1>0, <1>2, <3>1, <3>2, DeliverKeepsSent
  <2>5. CASE SendsPlain(w)
    BY <1>2, <2>5, SendsKeepSent
  <2>6. CASE EncodeFill(w) \/ EncodeWrite(w)
    BY <1>2, <2>6 DEF EncodeFill, EncodeWrite
  <2>7. CASE ReportGood(w) \/ ReportBad(w)
    BY <1>2, <2>7, ReportsKeepSent
  <2>8. QED
    BY <2>2, <2>3, <2>4, <2>5, <2>6, <2>7 DEF WorkerStep, SendsPlain
<1>3. QED
  BY <1>1, <1>2

(* SentInv holds initially ...                                              *)
LEMMA SentInvInit == Init => SentInv
<1> SUFFICES ASSUME Init PROVE SentInv
  OBVIOUS
<1>1. successedChan = <<>> /\ \A w \in Worker : worker[w].pc \in {"connect", "select"}
  BY DEF Init
<1>2. ToSet(successedChan) = {}
  BY <1>1, NewChan
<1>3. QED
  BY <1>1, <1>2 DEF SentInv

(* ... and is preserved by every step.                                      *)
LEMMA SentInvNext == Inv /\ SentInv /\ [Next]_vars => SentInv'
<1> SUFFICES ASSUME Inv, SentInv, [Next]_vars PROVE SentInv'
  OBVIOUS
<1>1. ASSUME NEW m \in Msg, NEW t \in Tag, Offer(m, t) PROVE SentInv'
  BY <1>1, ProducerKeepsSent
<1>2. CASE Collect
  BY <1>2, ProducerKeepsSent
<1>3. ASSUME NEW w \in Worker, WorkerStep(w) PROVE SentInv'
  BY <1>3, WorkerKeepsSent
<1>4. ASSUME NEW f \in Fork, ForkStep(f) PROVE SentInv'
  BY <1>4, ForkStepDoes DEF Outside, SentInv
<1>5. CASE UNCHANGED vars
  BY <1>5 DEF vars, reportVars, history, SentInv, Through, Delivery
<1>6. QED
  BY <1>1, <1>2, <1>3, <1>4, <1>5 DEF Next

(* A message that Kafka, Elasticsearch or stdout reports as good has        *)
(* reached the backend, or is one that the sender passes over: whatever the *)
(* retries, the partial failures and what kmsgBatchDelivery still holds of  *)
(* an earlier batch.                                                        *)
THEOREM SentIsSent == Spec => []GoodMeansSent
<1>1. SentInv => GoodMeansSent
  BY DEF SentInv, GoodMeansSent, Through
<1>2. QED
  BY <1>1, Invariance, SentInvInit, SentInvNext, PTL DEF Spec

-----------------------------------------------------------------------------
(* The children of the Fluentd sender, with one fork.                       *)

(* What the child of a tag holds.                                           *)
ChildHolds(t) == Delivery(t) \cup ToSet(worker[t].batch)

childVars == <<kind, panicked, tag2childInChan, reads, fork, childInChani, found,
               childInChan>>

(* ChildInv after a step of the producer, about a message that no fork and   *)
(* no child has.                                                            *)
LEMMA ChildOfOthers ==
    ASSUME Inv, ChildInv, NEW m, UNCHANGED <<childVars, worker, childChan>>,
           \A x \in Msg : x # m => tag'[x] = tag[x],
           \A h \in Home \ {InHome, GoodHome, BadHome} : m \notin ToSet(Piles[h])
    PROVE  ChildInv'
<1>0. UNCHANGED <<kind, panicked, tag2childInChan, reads, fork, childInChani, found,
                  childInChan, worker, childChan>>
  BY DEF childVars
<1>1. ASSUME NEW t \in Tag, NEW x \in ToSet(childChan[t]) PROVE tag'[x] = tag[x]
  <2>1. /\ ChildHome(t) \in Home \ {InHome, GoodHome, BadHome}
        /\ Piles[ChildHome(t)] = childChan[t]
    BY Homes, HomesDiffer, PilesAre
  <2>2. x # m /\ x \in Msg
    BY <2>1, TagsKnown
  <2>3. QED
    BY <2>2
<1>2. ASSUME NEW t \in Tag, NEW x \in Delivery(t) \cup ToSet(worker[t].batch)
      PROVE  tag'[x] = tag[x]
  <2>1. t \in Worker
    BY DEF Worker
  <2>2. /\ BatchHome(t) \in Home \ {InHome, GoodHome, BadHome}
        /\ DeliveryHome(t) \in Home \ {InHome, GoodHome, BadHome}
        /\ Piles[BatchHome(t)] = worker[t].batch
        /\ Piles[DeliveryHome(t)] = worker[t].delivery
    BY <2>1, Homes, HomesDiffer, PilesAre
  <2>3. x # m /\ x \in Msg
    BY <2>2, TagsKnown DEF Delivery
  <2>4. QED
    BY <2>3
<1>3. ASSUME NEW f \in Fork, fork[f].msg # None PROVE ForkTag(f)' = ForkTag(f)
  <2>1. /\ ForkHome(f) \in Home \ {InHome, GoodHome, BadHome}
        /\ Piles[ForkHome(f)] = <<fork[f].msg>>
    BY <1>3, Homes, HomesDiffer, PilesAre DEF Only
  <2>2. fork[f].msg \in ToSet(<<fork[f].msg>>)
    BY DEF ToSet
  <2>3. fork[f].msg # m /\ fork[f].msg \in Msg
    BY <1>3, <2>1, <2>2, TagsKnown
  <2>4. QED
    BY <1>0, <2>3 DEF ForkTag
<1>4. \A f \in Fork : fork[f].pc # "recv" => ForkTag(f)' = ForkTag(f)
  BY <1>3 DEF Inv, ForkInv
<1>5. \A t \in Tag : \A x \in ToSet(childChan[t])' : tag'[x] = t
  BY <1>0, <1>1 DEF ChildInv
<1>6. \A t \in Tag : kind' = "fluentd" =>
          \A x \in (Delivery(t) \cup ToSet(worker[t].batch))' : tag'[x] = t
  <2>1. \A t \in Tag : (Delivery(t) \cup ToSet(worker[t].batch))'
                          = Delivery(t) \cup ToSet(worker[t].batch)
    BY <1>0 DEF Delivery
  <2>2. QED
    BY <1>0, <1>2, <2>1 DEF ChildInv
<1>7. \A f \in Fork :
          /\ fork'[f].pc \in {"test", "retest"} =>
                childInChani' \in {None, ForkTag(f)'} /\ (found' <=> childInChani' # None)
          /\ fork'[f].pc \in {"assign", "reassign"} => childInChani' = ForkTag(f)'
          /\ fork'[f].pc \in {"spawn", "store", "unlock", "send", "blocked"} =>
                childInChan' = ForkTag(f)'
  BY <1>0, <1>4 DEF ChildInv
<1>8. /\ ~panicked'
      /\ \A t \in Tag : tag2childInChan'[t] \in {None, t} /\ reads'[t] \in {None, t}
      /\ kind' # "fluentd" => \A t \in Tag : reads'[t] = None
  BY <1>0 DEF ChildInv
<1>9. QED
  BY <1>5, <1>6, <1>7, <1>8 DEF ChildInv

(* A worker's step, which leaves a child with messages it had or found in   *)
(* its channel.                                                             *)
LEMMA ChildOfWorker ==
    ASSUME ChildInv, UNCHANGED childVars, UNCHANGED tag,
           \A t \in Tag : ToSet(childChan'[t]) \subseteq ToSet(childChan[t]),
           kind = "fluentd" =>
              \A t \in Tag : ChildHolds(t)' \subseteq ChildHolds(t) \cup ToSet(childChan[t])
    PROVE  ChildInv'
<1>0. UNCHANGED <<kind, panicked, tag2childInChan, reads, fork, childInChani, found,
                  childInChan, tag>>
  BY DEF childVars
<1>1. \A f \in Fork : ForkTag(f)' = ForkTag(f)
  BY <1>0 DEF ForkTag
<1>2. \A t \in Tag : \A x \in ToSet(childChan'[t]) : tag'[x] = t
  BY <1>0 DEF ChildInv
<1>3. ASSUME NEW t \in Tag, kind' = "fluentd", NEW x \in ChildHolds(t)' PROVE tag'[x] = t
  <2>1. x \in ChildHolds(t) \cup ToSet(childChan[t]) /\ kind = "fluentd"
    BY <1>0, <1>3
  <2>2. QED
    BY <1>0, <2>1 DEF ChildInv, ChildHolds
<1>4. \A t \in Tag : kind' = "fluentd" =>
          \A x \in (Delivery(t) \cup ToSet(worker[t].batch))' : tag'[x] = t
  BY <1>3 DEF ChildHolds
<1>5. QED
  BY <1>0, <1>1, <1>2, <1>4 DEF ChildInv

(* What a worker that moves holds after.                                    *)
LEMMA HoldsOf ==
    ASSUME NEW w \in Worker, NEW pc, NEW b, NEW d, NEW n, NEW ws,
           Becomes(w, pc, b, d, n, ws), NEW S,
           ToSet(b) \cup ToSet(d) \subseteq ChildHolds(w) \cup S
    PROVE  \A t \in Tag : ChildHolds(t)' \subseteq
               ChildHolds(t) \cup (IF t = w THEN S ELSE {})
<1>1. /\ worker'[w].batch = b /\ worker'[w].delivery = d
      /\ \A v \in Worker : v # w => worker'[v] = worker[v]
  BY DEF Becomes
<1>2. ASSUME NEW t \in Tag
      PROVE  ChildHolds(t)' \subseteq ChildHolds(t) \cup (IF t = w THEN S ELSE {})
  <2>1. t \in Worker
    BY DEF Worker
  <2>2. CASE t = w
    <3>1. ChildHolds(t)' = ToSet(d) \cup ToSet(b)
      BY <1>1, <2>2 DEF ChildHolds, Delivery
    <3>2. QED
      BY <2>2, <3>1
  <2>3. CASE t # w
    BY <1>1, <2>1, <2>3 DEF ChildHolds, Delivery
  <2>4. QED
    BY <2>2, <2>3
<1>3. QED
  BY <1>2

(* A child takes messages from the channel of its tag only.                 *)
LEMMA TakeMsgKeepsChild ==
    ASSUME Inv, ChildInv, NEW w \in Worker, TakeMsg(w)
    PROVE  /\ \A t \in Tag : ToSet(childChan'[t]) \subseteq ToSet(childChan[t])
           /\ kind = "fluentd" =>
                 \A t \in Tag : ChildHolds(t)' \subseteq ChildHolds(t) \cup ToSet(childChan[t])
<1>0. TypeOK /\ childChan \in [Tag -> Seq(Msg)] /\ worker[w].batch \in Seq(Msg)
      /\ worker[w].delivery \in Seq(Msg)
  BY Holding, BatchIs DEF Inv, TypeOK
<1>1. PICK m \in Msg :
         /\ worker[w].delivery = <<>>
         /\ DeliverOrWait(w, Append(worker[w].batch, m))
         /\ TakesFrom(w, m)
  BY TakeMsgDoes
<1>2. CASE kind # "fluentd"
  BY <1>1, <1>2 DEF TakesFrom
<1>3. CASE kind = "fluentd"
  <2>1. w \in Tag /\ reads[w] \in Tag /\ reads[w] = w
    BY <1>1, <1>3, Nones DEF TakesFrom, ChildInv
  <2>2. /\ childChan[w] # <<>> /\ m = Head(childChan[w])
        /\ childChan' = [childChan EXCEPT ![w] = Tail(@)]
    BY <1>1, <1>3, <2>1 DEF TakesFrom
  <2>3. ToSet(childChan[w]) = {m} \cup ToSet(Tail(childChan[w]))
    BY <1>0, <2>1, <2>2, ReceiveFrom
  <2>4. \A t \in Tag : ToSet(childChan'[t]) \subseteq ToSet(childChan[t])
    BY <1>0, <2>1, <2>2, <2>3
  <2> DEFINE b == Append(worker[w].batch, m)
             S == ToSet(childChan[w])
  <2>5. ToSet(b) = ToSet(worker[w].batch) \cup {m} /\ ToSet(<<>>) = {} /\ m \in S
    BY <1>0, <2>3, SendTo, NewChan
  <2>6. /\ ToSet(b) \cup ToSet(<<>>) \subseteq ChildHolds(w) \cup S
        /\ ToSet(b) \cup ToSet(worker[w].delivery) \subseteq ChildHolds(w) \cup S
    BY <2>5 DEF ChildHolds, Delivery
  <2> HIDE DEF b, S
  <2>7. \/ Becomes(w, "send", <<>>, b, 0, worker[w].wraps)
        \/ Becomes(w, worker[w].pc, b, worker[w].delivery, worker[w].nRetry, worker[w].wraps)
    BY <1>0, <1>1, DeliverOrWaitDoes DEF b
  <2>8. \A t \in Tag : ChildHolds(t)' \subseteq ChildHolds(t) \cup (IF t = w THEN S ELSE {})
    <3>1. ToSet(<<>>) \cup ToSet(b) \subseteq ChildHolds(w) \cup S
      BY <2>6
    <3>2. CASE Becomes(w, "send", <<>>, b, 0, worker[w].wraps)
      BY <3>1, <3>2, HoldsOf
    <3>3. CASE Becomes(w, worker[w].pc, b, worker[w].delivery, worker[w].nRetry,
                       worker[w].wraps)
      BY <2>6, <3>3, HoldsOf
    <3>4. QED
      BY <2>7, <3>2, <3>3
  <2>9. QED
    BY <2>4, <2>8 DEF S
<1>4. QED
  BY <1>2, <1>3

(* The steps of a worker keep ChildInv.                                     *)
LEMMA WorkerKeepsChild ==
    ASSUME Inv, ChildInv, NEW w \in Worker, WorkerStep(w)
    PROVE  ChildInv'
<1>0. TypeOK /\ worker[w].delivery \in Seq(Msg) /\ worker[w].batch \in Seq(Msg)
  BY Holding, BatchIs DEF Inv
<1>1. UNCHANGED childVars /\ UNCHANGED tag
  BY DEF childVars, WorkerStep, Connect, TakeMsg, Tick, KafkaSend, BulkSend, StdoutSend,
         EncodeFill, EncodeWrite, ReportGood, ReportBad, NoReport, forkVars
<1>2. CASE TakeMsg(w)
  BY <1>1, <1>2, TakeMsgKeepsChild, ChildOfWorker
<1>3. CASE ~TakeMsg(w)
  <2>1. UNCHANGED childChan
    BY <1>3 DEF WorkerStep, Connect, Tick, KafkaSend, BulkSend, StdoutSend,
         EncodeFill, EncodeWrite, ReportGood, ReportBad
  <2>2. \E pc, b, d, n, ws :
           /\ Becomes(w, pc, b, d, n, ws)
           /\ ToSet(b) \cup ToSet(d) \subseteq ChildHolds(w)
    <3>1. CASE Connect(w)
      <4>1. Becomes(w, "select", worker[w].batch, worker[w].delivery, worker[w].nRetry,
                    worker[w].wraps)
        BY <1>0, <3>1, WorkerTyped, GoPc DEF Connect
      <4>2. QED
        BY <4>1 DEF ChildHolds, Delivery
    <3>2. CASE SendsPlain(w) \/ EncodeFill(w) \/ EncodeWrite(w)
      <4>1. PICK pc \in {"send", "write", "good", "bad"}, n \in 0 .. MaxRetry, ws \in Slices :
                Becomes(w, pc, worker[w].batch, worker[w].delivery, n, ws)
        BY <1>0, <3>2, SendsPlainDoes, EncodeFillDoes, EncodeWriteDoes DEF Proceeds
      <4>2. QED
        BY <4>1 DEF ChildHolds, Delivery
    <3>3. CASE Tick(w)
      <4>1. Becomes(w, "send", <<>>, worker[w].batch, 0, worker[w].wraps)
        BY <1>0, <3>3, DeliverDoes DEF Tick
      <4>2. ToSet(<<>>) \cup ToSet(worker[w].batch) \subseteq ChildHolds(w)
        BY NewChan DEF ChildHolds
      <4>3. QED
        BY <4>1, <4>2
    <3>4. CASE ReportGood(w) \/ ReportBad(w)
      <4>1. Reports(w) /\ worker[w].delivery # <<>>
        BY <3>4, ReportsDoes DEF ReportGood, ReportBad, At
      <4>2. PICK pc \in Pc :
              Becomes(w, pc, worker[w].batch, Tail(worker[w].delivery), worker[w].nRetry,
                      worker[w].wraps)
        BY <4>1 DEF Reports
      <4>3. ToSet(Tail(worker[w].delivery)) \subseteq Delivery(w)
        BY <1>0, <4>1, ReceiveFrom DEF Delivery
      <4>4. ToSet(worker[w].batch) \cup ToSet(Tail(worker[w].delivery)) \subseteq ChildHolds(w)
        BY <4>3 DEF ChildHolds
      <4>5. QED
        BY <4>2, <4>4
    <3>5. QED
      BY <1>3, <3>1, <3>2, <3>3, <3>4 DEF WorkerStep, SendsPlain
  <2>3. PICK pc, b, d, n, ws :
           /\ Becomes(w, pc, b, d, n, ws)
           /\ ToSet(b) \cup ToSet(d) \subseteq ChildHolds(w)
    BY <2>2
  <2>4. \A t \in Tag : ChildHolds(t)' \subseteq ChildHolds(t) \cup (IF t = w THEN {} ELSE {})
    <3>1. ToSet(b) \cup ToSet(d) \subseteq ChildHolds(w) \cup {}
      BY <2>3
    <3>2. QED
      BY <2>3, <3>1, HoldsOf
  <2>5. QED
    BY <1>1, <2>1, <2>4, ChildOfWorker
<1>4. QED
  BY <1>2, <1>3

(* The steps of the only fork keep ChildInv.                                *)
LEMMA ForkKeepsChild ==
    ASSUME OneFork, Inv, ChildInv, NEW f \in Fork, ForkStep(f)
    PROVE  ChildInv'
<1>0. /\ kind = "fluentd" /\ f \in ForkOf[kind] /\ kind \in Kinds
      /\ UNCHANGED <<kind, tag, worker>>
      /\ tag2childInChan \in [Tag -> Tag \cup {None}] /\ reads \in [Tag -> Tag \cup {None}]
      /\ childChan \in [Tag -> Seq(Msg)]
  BY ForkStepDoes DEF Inv, TypeOK, Outside
<1>1. ASSUME NEW g \in Fork, g # f PROVE fork[g].pc = "recv" /\ fork'[g] = fork[g]
  <2>1. fork[g].pc = "recv"
    BY <1>0, <1>1 DEF Inv, ForkInv, OneFork
  <2>2. fork'[g] = fork[g]
    BY <1>1, ForkStepDoes DEF ForkBecomes
  <2>3. QED
    BY <2>1, <2>2
<1> DEFINE T == ForkTag(f)
           Shared ==
             /\ ~panicked'
             /\ \A t \in Tag : tag2childInChan'[t] \in {None, t} /\ reads'[t] \in {None, t}
             /\ \A t \in Tag : \A m \in ToSet(childChan'[t]) : tag[m] = t
           Mine ==
             /\ fork'[f].pc \in {"test", "retest"} =>
                   childInChani' \in {None, T} /\ (found' <=> childInChani' # None)
             /\ fork'[f].pc \in {"assign", "reassign"} => childInChani' = T
             /\ fork'[f].pc \in {"spawn", "store", "unlock", "send", "blocked"} =>
                   childInChan' = T
<1>2. fork'[f].pc # "recv" /\ ~ForkRecv(f) => fork'[f].msg = fork[f].msg
  <2>1. \/ ForkRecv(f) \/ ForkBecomes(f, "recv", None)
        \/ \E pc : ForkBecomes(f, pc, fork[f].msg)
    BY ForkStepDoes
  <2>2. ForkBecomes(f, "recv", None) => fork'[f].pc = "recv"
    BY DEF ForkBecomes
  <2>3. (\E pc : ForkBecomes(f, pc, fork[f].msg)) => fork'[f].msg = fork[f].msg
    BY DEF ForkBecomes
  <2>4. QED
    BY <2>1, <2>2, <2>3
<1>3. ASSUME Shared, Mine PROVE ChildInv'
  <2>1. \A t \in Tag : (Delivery(t) \cup ToSet(worker[t].batch))'
                          = Delivery(t) \cup ToSet(worker[t].batch)
    BY <1>0 DEF Delivery
  <2>2. ForkRecv(f) => fork'[f].pc = "load"
    BY DEF ForkRecv, ForkAt, Inv, TypeOK
  <2>3. ASSUME NEW g \in Fork
        PROVE  /\ fork'[g].pc \in {"test", "retest"} =>
                     childInChani' \in {None, ForkTag(g)'} /\ (found' <=> childInChani' # None)
               /\ fork'[g].pc \in {"assign", "reassign"} => childInChani' = ForkTag(g)'
               /\ fork'[g].pc \in {"spawn", "store", "unlock", "send", "blocked"} =>
                     childInChan' = ForkTag(g)'
    <3>1. CASE g # f
      BY <1>1, <3>1
    <3>2. CASE g = f
      <4>1. CASE fork'[f].pc \in {"recv", "load"}
        BY <3>2, <4>1
      <4>2. CASE fork'[f].pc \notin {"recv", "load"}
        <5>1. ForkTag(f)' = T
          BY <1>0, <1>2, <2>2, <4>2 DEF ForkTag
        <5>2. QED
          BY <1>3, <3>2, <5>1
      <4>3. QED
        BY <4>1, <4>2
    <3>3. QED
      BY <3>1, <3>2
  <2>4. QED
    BY <1>0, <1>3, <2>1, <2>3 DEF ChildInv
<1>4. CASE ForkRecv(f)
  <2>1. fork'[f].pc = "load"
    BY <1>4 DEF ForkRecv, ForkAt, Inv, TypeOK
  <2>2. Shared
    BY <1>0, <1>4 DEF ForkRecv, ChildInv
  <2>3. QED
    BY <1>3, <2>1, <2>2
<1>5. CASE ~ForkRecv(f)
  <2>1. /\ fork[f].msg \in Msg /\ T \in Tag /\ tag[fork[f].msg] = T
        /\ fork \in [Fork -> ForkState]
    BY <1>5, ForkStepDoes, TagsKnown, Nones DEF ForkTag
  <2> HIDE DEF T
  <2>2. CASE ForkLoad(f)
    <3>1. fork'[f].pc \in {"test", "retest"}
      BY <2>1, <2>2 DEF ForkLoad, ForkGo, ForkState
    <3>2. childInChani' = tag2childInChan[T] /\ found' = (childInChani' # None)
      BY <2>2 DEF ForkLoad, T
    <3>3. Mine
      BY <2>1, <3>1, <3>2 DEF ChildInv
    <3>4. Shared
      BY <1>0, <2>2 DEF ForkLoad, ChildInv
    <3>5. QED
      BY <1>3, <3>3, <3>4
  <2>3. CASE ForkTest(f)
    <3>1. /\ fork[f].pc = "test" /\ fork'[f].pc = IF found THEN "assign" ELSE "lock"
          /\ UNCHANGED childInChani
      BY <2>1, <2>3 DEF ForkTest, ForkAt, ForkGo, ForkState
    <3>2. childInChani \in {None, T} /\ (found <=> childInChani # None)
      BY <3>1 DEF ChildInv, T
    <3>3. Mine
      BY <3>1, <3>2
    <3>4. Shared
      BY <1>0, <2>3 DEF ForkTest, ChildInv
    <3>5. QED
      BY <1>3, <3>3, <3>4
  <2>4. CASE ForkLock(f)
    <3>1. fork'[f].pc = "reload"
      BY <2>1, <2>4 DEF ForkLock, ForkGo, ForkState
    <3>2. Shared
      BY <1>0, <2>4 DEF ForkLock, ChildInv
    <3>3. QED
      BY <1>3, <3>1, <3>2
  <2>5. CASE ForkRetest(f)
    <3>1. /\ fork[f].pc = "retest" /\ fork'[f].pc = IF found THEN "reassign" ELSE "spawn"
          /\ UNCHANGED childInChani /\ (~found => childInChan' = T)
      BY <2>1, <2>5 DEF ForkRetest, ForkAt, ForkGo, ForkState, T
    <3>2. childInChani \in {None, T} /\ (found <=> childInChani # None)
      BY <3>1 DEF ChildInv, T
    <3>3. Mine
      BY <3>1, <3>2
    <3>4. Shared
      BY <1>0, <2>5 DEF ForkRetest, ChildInv
    <3>5. QED
      BY <1>3, <3>3, <3>4
  <2>6. CASE ForkAssign(f)
    <3>1. /\ fork[f].pc \in {"assign", "reassign"} /\ fork'[f].pc \in {"send", "unlock"}
          /\ childInChan' = (IF childInChani = None THEN childInChan ELSE childInChani)
          /\ panicked' = (childInChani = None)
      BY <2>1, <2>6 DEF ForkAssign, ForkAt, ForkGo, ForkState
    <3>2. childInChani = T /\ T # None
      BY <2>1, <3>1, Nones DEF ChildInv, T
    <3>3. Mine
      BY <3>1, <3>2
    <3>4. Shared
      BY <1>0, <2>6, <3>1, <3>2 DEF ForkAssign, ChildInv
    <3>5. QED
      BY <1>3, <3>3, <3>4
  <2>7. CASE ForkSpawn(f) \/ ForkStore(f)
    <3>1. /\ fork[f].pc \in {"spawn", "store"} /\ fork'[f].pc \in {"store", "unlock"}
          /\ UNCHANGED <<childInChan, childChan, panicked>>
          /\ \/ reads' = [reads EXCEPT ![T] = childInChan] /\ UNCHANGED tag2childInChan
             \/ /\ tag2childInChan' = [tag2childInChan EXCEPT ![T] = childInChan]
                /\ UNCHANGED reads
      BY <2>1, <2>7 DEF ForkSpawn, ForkStore, ForkAt, ForkGo, ForkState, T
    <3>2. childInChan = T
      BY <3>1 DEF ChildInv, T
    <3>3. Mine
      BY <3>1, <3>2
    <3>4. Shared
      BY SMTT(30), <1>0, <2>1, <3>1, <3>2 DEF ChildInv
    <3>5. QED
      BY <1>3, <3>3, <3>4
  <2>8. CASE ForkUnlock(f)
    <3>1. /\ fork[f].pc = "unlock" /\ fork'[f].pc = "send" /\ UNCHANGED childInChan
      BY <2>1, <2>8 DEF ForkUnlock, ForkAt, ForkGo, ForkState
    <3>2. Mine
      BY <3>1 DEF ChildInv, T
    <3>3. Shared
      BY <1>0, <2>8 DEF ForkUnlock, ChildInv
    <3>4. QED
      BY <1>3, <3>2, <3>3
  <2>9. CASE ForkSend(f)
    <3>1. fork[f].pc = "send" /\ childInChan = T
      BY <2>9 DEF ForkSend, ForkAt, ChildInv, T
    <3>2. /\ fork'[f].pc \in {"recv", "blocked"}
          /\ UNCHANGED <<childInChan, panicked, tag2childInChan, reads>>
          /\ \/ childChan' = [childChan EXCEPT ![T] = Append(@, fork[f].msg)]
             \/ UNCHANGED childChan
      BY <2>1, <2>9, <3>1 DEF ForkSend, ForkGo, ForkState
    <3>3. Mine
      BY <3>1, <3>2
    <3>4. ToSet(Append(childChan[T], fork[f].msg)) = ToSet(childChan[T]) \cup {fork[f].msg}
      BY <1>0, <2>1, SendTo
    <3>5. \A t \in Tag : \A m \in ToSet(childChan'[t]) : tag[m] = t
      <4>1. \A t \in Tag : \A m \in ToSet(childChan[t]) : tag[m] = t
        BY DEF ChildInv
      <4>2. ASSUME NEW t \in Tag, NEW m \in ToSet(childChan'[t]), m \notin ToSet(childChan[t])
            PROVE  t = T /\ m = fork[f].msg
        BY <1>0, <2>1, <3>2, <3>4, <4>2
      <4>3. QED
        BY <2>1, <4>1, <4>2
    <3>6. Shared
      BY <3>2, <3>5 DEF ChildInv
    <3>7. QED
      BY <1>3, <3>3, <3>6
  <2>10. CASE ForkReport(f)
    <3>1. fork'[f].pc = "recv"
      BY <2>1, <2>10 DEF ForkReport
    <3>2. Shared
      BY <1>0, <2>10 DEF ForkReport, ChildInv
    <3>3. QED
      BY <1>3, <3>1, <3>2
  <2>11. QED
    BY <1>5, <2>2, <2>3, <2>4, <2>5, <2>6, <2>7, <2>8, <2>9, <2>10 DEF ForkStep
<1>6. QED
  BY <1>4, <1>5

(* Initially no child has been started.                                     *)
LEMMA ChildInvInit == Init => ChildInv
<1> SUFFICES ASSUME Init PROVE ChildInv
  OBVIOUS
<1>1. /\ ~panicked
      /\ \A t \in Tag : tag2childInChan[t] = None /\ reads[t] = None /\ childChan[t] = <<>>
      /\ \A w \in Worker : worker[w].batch = <<>> /\ worker[w].delivery = <<>>
      /\ \A f \in Fork : fork[f].pc = "recv"
  BY DEF Init
<1>2. ToSet(<<>>) = {}
  BY NewChan
<1>3. \A t \in Tag : t \in Worker
  BY DEF Worker
<1>4. QED
  BY <1>1, <1>2, <1>3 DEF ChildInv, Delivery

(* ChildInv is preserved by every step of a sender whose Fluentd kind has   *)
(* one fork.                                                                *)
LEMMA ChildInvNext ==
    ASSUME OneFork
    PROVE  Inv /\ ChildInv /\ [Next]_vars => ChildInv'
<1> SUFFICES ASSUME Inv, ChildInv, [Next]_vars PROVE ChildInv'
  OBVIOUS
<1>0. tag \in [Msg -> Tag \cup {None}]
  BY DEF Inv, TypeOK
<1>1. ASSUME NEW m \in Msg, NEW t \in Tag, Offer(m, t) PROVE ChildInv'
  <2>1. UNCHANGED <<childVars, worker, childChan>> /\ tag' = [tag EXCEPT ![m] = t]
    BY <1>1 DEF Offer, childVars, forkVars
  <2>2. \A h \in Home : m \notin ToSet(Piles[h])
    BY <1>1, OfferDoes DEF IsIn
  <2>3. \A x \in Msg : x # m => tag'[x] = tag[x]
    BY <1>0, <2>1
  <2>4. QED
    BY <2>1, <2>2, <2>3, ChildOfOthers
<1>2. CASE Collect
  <2>1. PICK m \in Msg :
           /\ EndUse(m) /\ Where(Piles, m) \in {"good", "bad"}
    BY <1>2, CollectPiles
  <2>2. UNCHANGED <<childVars, worker, childChan>>
    BY <1>2 DEF Collect, childVars, forkVars
  <2>3. ASSUME NEW h \in Home \ {InHome, GoodHome, BadHome}, m \in ToSet(Piles[h])
        PROVE  FALSE
    <3>1. Where(Piles, m) = Class(h)
      BY <2>3, WhereIs DEF Inv
    <3>2. Class(h) = "sending"
      BY DEF Class
    <3>3. QED
      BY <2>1, <3>1, <3>2
  <2>4. \A x \in Msg : x # m => tag'[x] = tag[x]
    BY <1>0, <2>1 DEF EndUse
  <2>5. QED
    BY <2>2, <2>3, <2>4, ChildOfOthers
<1>3. ASSUME NEW w \in Worker, WorkerStep(w) PROVE ChildInv'
  BY <1>3, WorkerKeepsChild
<1>4. ASSUME NEW f \in Fork, ForkStep(f) PROVE ChildInv'
  BY <1>4, ForkKeepsChild
<1>5. CASE UNCHANGED vars
  BY <1>5 DEF vars, forkVars, ChildInv, Delivery, ForkTag
<1>6. QED
  BY <1>1, <1>2, <1>3, <1>4, <1>5 DEF Next

(* When the Fluentd sender has one fork, no fork panics, and the child of a *)
(* tag gets only messages of that tag, whatever the number of tags and the  *)
(* sizes of the channels.  With two forks TLC shows that it is false.       *)
THEOREM OneForkKeepsTagsApart ==
    ASSUME OneFork
    PROVE  Spec => []ChildGetsItsTag
<1>1. ChildInv => ChildGetsItsTag
  <2> SUFFICES ASSUME ChildInv PROVE ChildGetsItsTag
    OBVIOUS
  <2>1. ~panicked
    BY DEF ChildInv
  <2>2. ASSUME NEW t \in Tag, reads[t] # None
        PROVE  reads[t] = t /\ kind = "fluentd"
    BY <2>2 DEF ChildInv
  <2>3. QED
    BY <2>1, <2>2 DEF ChildInv, ChildGetsItsTag
<1>2. Inv /\ ChildInv /\ [Next]_vars => ChildInv'
  BY ChildInvNext
<1>3. QED
  BY <1>1, <1>2, ChildInvInit, Invariance, PTL DEF Spec
=============================================================================
