----------------------------- MODULE MCAcceptor -----------------------------
(* Small instances of AcceptorPipeline: messages from three receivers. *)
EXTENDS AcceptorPipeline

CONSTANTS spring, app, spark, r1, l1

\* request r1 and record 2 carry the tag of the Spring rule, l1 that of Spark
MCTagOf ==
    [s \in Source |-> IF s \in {r1, 2} THEN spring
                      ELSE IF s = l1 THEN spark ELSE app]
=============================================================================
