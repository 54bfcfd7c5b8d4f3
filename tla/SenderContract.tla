--------------------------- MODULE SenderContract ---------------------------
(***************************************************************************)
(* What the producer relies on in a sender, whatever its backend: a message *)
(* put into its inbound channel is reported exactly once, as a success or   *)
(* as a failure, and the sender does not touch it any more.                 *)
(***************************************************************************)
CONSTANT Msg

VARIABLE place  \* "outside", "queued", "sending", "good" or "bad"

Init == place = [m \in Msg |-> "outside"]

Move(m, from, to) ==
    /\ place[m] = from
    /\ place' = [place EXCEPT ![m] = to]

Offer(m) == Move(m, "outside", "queued")
Take(m) == Move(m, "queued", "sending")
Report(m) == Move(m, "sending", "good") \/ Move(m, "sending", "bad")
Collect(m) == Move(m, "good", "outside") \/ Move(m, "bad", "outside")

Next == \E m \in Msg : Offer(m) \/ Take(m) \/ Report(m) \/ Collect(m)

Spec == Init /\ [][Next]_place
=============================================================================
