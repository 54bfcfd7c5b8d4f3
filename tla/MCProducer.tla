----------------------------- MODULE MCProducer -----------------------------
(* The producer with three kinds of tag: both senders take "both", one      *)
(* takes "one", none takes "nobody"; every bounded channel has one place.   *)
EXTENDS ProducerInv

CONSTANTS both, one, nobody, s1, s2

MCTag == {both, one, nobody}
MCSender == {s1, s2}
MCSupports ==
    [t \in Tag |-> IF t = both THEN {s1, s2} ELSE IF t = one THEN {s1} ELSE {}]
=============================================================================
