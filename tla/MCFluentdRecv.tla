---------------------------- MODULE MCFluentdRecv ----------------------------
(* A small instance of FluentdRecv: container x sends a head, two lines of   *)
(* its entry and another head; container y, on a second connection, a head  *)
(* and a line without text; then come there a line without lb_key and one   *)
(* that cannot be decoded.                                                  *)
EXTENDS FluentdRecv

CONSTANTS c1, c2, k1, k2, x, y, z

MCConnOf == [l \in Line |-> IF l <= 4 THEN c1 ELSE c2]
MCIdOf == [l \in Line |-> IF l <= 4 THEN x ELSE IF l <= 6 THEN y ELSE z]
MCForkOf == [l \in Line |-> IF l <= 6 THEN k1 ELSE k2]
=============================================================================
