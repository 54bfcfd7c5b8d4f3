------------------------------ MODULE MCSenders ------------------------------
(* Small instances of Senders.                                              *)
EXTENDS Senders

CONSTANTS f1, f2

\* two forks share the channel, except in the Fluentd sender
MCForkOf == [k \in Kinds |-> IF k = "fluentd" THEN {f1} ELSE {f1, f2}]
MCTwoForks == [k \in Kinds |-> Fork]
=============================================================================
