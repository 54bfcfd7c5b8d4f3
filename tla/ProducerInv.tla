---------------------------- MODULE ProducerInv ----------------------------
(***************************************************************************)
(* The inductive invariant behind the safety properties.  Each pair of a    *)
(* message and a reporter it must hear from is in exactly one place on the  *)
(* way fork -> sender -> result channel -> collector -> counted, so when    *)
(* the count reaches NSender nobody else can hold the message.              *)
(***************************************************************************)
EXTENDS Producer

EarlyPcs == {"check", "load", "lock", "doubleCheck", "storeN", "storeCaches",
             "mark"}

(* Fork f has still to offer the message for r, or to report it itself.     *)
ForkOwes(f, r) ==
    \/ forkPc[f] \in EarlyPcs /\ r \in Reporters(ForkTag(f))
    \/ forkPc[f] \in {"fanOut", "report"} /\ r \in todo[f]
    \/ forkPc[f] = "report" /\ r = forkFor[f]

Fanned(f) == forkPc[f] \in {"fanOut", "report"}

(* Where <<m, r>> may be, the places numbered along its way.                *)
AtFork(m, r)      == \E f \in Fork : forkMsg[f] = m /\ ForkOwes(f, r)
AtSender(m, r)    == r \in Sender /\ m \in senderIn[r]
AtSending(m, r)   == r \in Sender /\ m \in sending[r]
AtGood(m, r)      == <<m, r>> \in successedChan
AtBad(m, r)       == <<m, r>> \in failedChan
AtCollector(m, r) == colPc = "count" /\ colMsg = m /\ colFor = r
AtCounted(m, r)   == r \in counted[m]

Reported(m, r) == AtGood(m, r) \/ AtBad(m, r) \/ AtCollector(m, r)
PastFork(m, r) == AtSender(m, r) \/ AtSending(m, r) \/ Reported(m, r)

(* The tables say the same of a tag as the configuration of the senders.    *)
TablesInv ==
    \A t \in Tag :
        /\ tag2NSender[t] \in {0, NSender(t)}
        /\ tag2SenderCaches[t] # {} =>
              tag2SenderCaches[t] = Supports[t] /\ tag2NSender[t] = NSender(t)
        /\ t \in unSupportedTags =>
              Supports[t] = {} /\ tag2NSender[t] = NSender(t)

ForkOk(f) ==
    /\ forkMsg[f] = None <=> forkPc[f] = "recv"
    /\ ~Fanned(f) => todo[f] = {}
    /\ forkMsg[f] # None => todo[f] \subseteq Supports[ForkTag(f)]
    /\ forkPc[f] = "fanOut" => todo[f] # {}
    /\ forkPc[f] = "report" =>
          forkFor[f] \in Reporters(ForkTag(f)) \ todo[f]
    /\ forkPc[f] = "storeCaches" => Supports[ForkTag(f)] # {}
    /\ forkPc[f] = "mark" => Supports[ForkTag(f)] = {}
    /\ forkPc[f] \in {"storeCaches", "mark", "fanOut", "report"} =>
          tag2NSender[ForkTag(f)] = NSender(ForkTag(f))

ForkInv == \A f \in Fork : ForkOk(f)

(* Two forks never hold one message; a message that nobody works on yet is  *)
(* in no table; a released message is in nobody's hand.                     *)
OwnerInv ==
    /\ \A f, g \in Fork :
          forkMsg[f] = forkMsg[g] /\ forkMsg[f] # None => f = g
    /\ \A f \in Fork : forkMsg[f] \notin inChan \cup Released
    /\ inChan \cap Released = {}
    /\ msgPool \cap commitChan = {}
    /\ colPc = "release" => colMsg \notin msgPool \cup commitChan
    /\ colPc = "recv" <=> colMsg = None

(* A pair past the forks belongs to an open message with a registered tag.  *)
PairOpen(m, r) ==
    /\ PastFork(m, r) =>
          /\ r \in Reporters(msgTag[m])
          /\ tag2NSender[msgTag[m]] = NSender(msgTag[m])
          /\ m \notin inChan \cup Released
          /\ \A f \in Fork : forkMsg[f] = m => Fanned(f)
    /\ AtCounted(m, r) => r \in Reporters(msgTag[m])

PairInv == \A m \in Msg, r \in Reporter : PairOpen(m, r)

(* No pair is in two places.                                                *)
OnePlace(m, r) ==
    /\ AtFork(m, r) => ~PastFork(m, r) /\ ~AtCounted(m, r)
    /\ AtSender(m, r) => ~AtSending(m, r) /\ ~Reported(m, r) /\ ~AtCounted(m, r)
    /\ AtSending(m, r) => ~Reported(m, r) /\ ~AtCounted(m, r)
    /\ AtGood(m, r) => ~AtBad(m, r) /\ ~AtCollector(m, r) /\ ~AtCounted(m, r)
    /\ AtBad(m, r) => ~AtCollector(m, r) /\ ~AtCounted(m, r)
    /\ AtCollector(m, r) => ~AtCounted(m, r)

PlaceInv == \A m \in Msg, r \in Reporter : OnePlace(m, r)

(* The count of an open message is the number of reports counted.           *)
CountInv ==
    \A m \in Msg :
        /\ m \in inChan => counted[m] = {}
        /\ \A f \in Fork : forkMsg[f] = m /\ ~Fanned(f) => counted[m] = {}
        /\ discardMsgCountMap[m].count =
              IF m \in Released THEN 0 ELSE Cardinality(counted[m])
        /\ discardMsgCountMap[m].count = 0 => discardMsgCountMap[m] = NoPending

(* What the history says of every report, and what the flag says of them.   *)
OutcomeOk(m, r) ==
    /\ AtGood(m, r) \/ (AtCollector(m, r) /\ colOk) =>
          r \in delivered[m] \cup skipped[m] \cup {NoSender}
    /\ AtBad(m, r) \/ (AtCollector(m, r) /\ ~colOk) => r \in failed[m]
    /\ AtCounted(m, r) =>
          r \in delivered[m] \cup skipped[m] \cup failed[m] \cup {NoSender}
    /\ r \in delivered[m] \cup skipped[m] => Reported(m, r) \/ AtCounted(m, r)
    /\ r \in failed[m] =>
          AtBad(m, r) \/ (AtCollector(m, r) /\ ~colOk) \/ AtCounted(m, r)

FlagOk(m) ==
    discardMsgCountMap[m].count > 0 =>
        (discardMsgCountMap[m].isAllSuccessed <=> counted[m] \cap failed[m] = {})

OutcomeInv ==
    /\ \A m \in Msg, r \in Reporter : OutcomeOk(m, r)
    /\ \A m \in Msg : FlagOk(m)

ReleaseInv ==
    /\ colPc = "release" =>
          IF colOk
          THEN Supports[msgTag[colMsg]] \subseteq delivered[colMsg] \cup skipped[colMsg]
               /\ failed[colMsg] = {}
          ELSE failed[colMsg] # {}
               /\ Supports[msgTag[colMsg]] \subseteq
                     delivered[colMsg] \cup skipped[colMsg] \cup failed[colMsg]
    /\ CommitOnlyAfterAllSent

(* The inductive invariant: with it the safety properties of Producer      *)
(* follow, and every step keeps it.                                         *)
IInv ==
    /\ TypeOK
    /\ TablesInv /\ ForkInv /\ OwnerInv
    /\ PairInv /\ PlaceInv /\ CountInv
    /\ OutcomeInv /\ ReleaseInv
-----------------------------------------------------------------------------
(* The abstract specification, at the place of each pointer: a message is   *)
(* open from InChan until discardMsg disposes of it.                        *)
Promise == INSTANCE FanOut WITH
    place <- [m \in Msg |-> IF m \in msgPool THEN "pool"
                            ELSE IF m \in commitChan THEN "commit" ELSE "open"],
    good <- [m \in Msg |-> delivered[m] \cup skipped[m]],
    bad <- failed

(***************************************************************************)
(* The producer's goroutines, maps and channels keep the promise of FanOut: *)
(* one answer per message and sender, then one exit, commit exactly when    *)
(* all answers were good.                                                   *)
(***************************************************************************)
ImplementsFanOut == Promise!Spec
=============================================================================
