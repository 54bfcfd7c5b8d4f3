----------------------------- MODULE MCConcator -----------------------------
(* Small instances of Concator.                                             *)
EXTENDS Concator

CONSTANTS ta, tb, ca, cb, wa, wb

\* one tag, one concator
MCOneTagOf == [w \in Worker |-> ta]
MCOneRoute == [src \in {ta} \X Identifier |-> wa]
\* one tag, two concators
MCForkRoute == (<<ta, ca>> :> wa) @@ (<<ta, cb>> :> wb)
\* the text of all tags under one key
MCOneKey == [t \in Tag |-> "log"]
=============================================================================
