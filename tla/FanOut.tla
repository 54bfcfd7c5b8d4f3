------------------------------- MODULE FanOut -------------------------------
(***************************************************************************)
(* What the producer promises to the rest of go-fluentd, without its        *)
(* goroutines, maps and channels: a message is answered once by every       *)
(* sender that supports its tag, and only then leaves, to the journal's     *)
(* commit channel if every answer was good and to the pool otherwise.       *)
(***************************************************************************)
EXTENDS FiniteSets

CONSTANTS Msg, Tag, Sender, Supports

VARIABLES
    msgTag,     \* the tag of each pointer
    place,      \* where each pointer is: "pool", "open" or "commit"
    good, bad   \* senders that answered the message well, badly

vars == <<msgTag, place, good, bad>>

Init ==
    /\ msgTag \in [Msg -> Tag]
    /\ place = [m \in Msg |-> "pool"]
    /\ good = [m \in Msg |-> {}]
    /\ bad = [m \in Msg |-> {}]

Accept(m, t) ==
    /\ place[m] = "pool"
    /\ place' = [place EXCEPT ![m] = "open"]
    /\ msgTag' = [msgTag EXCEPT ![m] = t]
    /\ good' = [good EXCEPT ![m] = {}]
    /\ bad' = [bad EXCEPT ![m] = {}]

Unanswered(m) == Supports[msgTag[m]] \ (good[m] \cup bad[m])

AnswerGood(m, s) ==
    /\ place[m] = "open"
    /\ s \in Unanswered(m)
    /\ good' = [good EXCEPT ![m] = @ \cup {s}]
    /\ UNCHANGED <<msgTag, place, bad>>

AnswerBad(m, s) ==
    /\ place[m] = "open"
    /\ s \in Unanswered(m)
    /\ bad' = [bad EXCEPT ![m] = @ \cup {s}]
    /\ UNCHANGED <<msgTag, place, good>>

Commit(m) ==
    /\ place[m] = "open"
    /\ Unanswered(m) = {} /\ bad[m] = {}
    /\ place' = [place EXCEPT ![m] = "commit"]
    /\ UNCHANGED <<msgTag, good, bad>>

Recycle(m) ==
    /\ \/ place[m] = "open" /\ Unanswered(m) = {} /\ bad[m] # {}
       \/ place[m] = "commit"
    /\ place' = [place EXCEPT ![m] = "pool"]
    /\ UNCHANGED <<msgTag, good, bad>>

Next ==
    \E m \in Msg :
        \/ \E t \in Tag : Accept(m, t)
        \/ \E s \in Sender : AnswerGood(m, s) \/ AnswerBad(m, s)
        \/ Commit(m) \/ Recycle(m)

Spec == Init /\ [][Next]_vars
=============================================================================
