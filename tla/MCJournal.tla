------------------------------ MODULE MCJournal ------------------------------
(* Small instances of Journal.                                              *)
EXTENDS Journal, TLC

CONSTANTS b1, b2, b3, ta, tb

MCTagOf == [b \in Body |-> IF b = b1 THEN ta ELSE CHOOSE t \in Tag : t # ta \/ Tag = {ta}]
MCTagOfOne == [b \in Body |-> ta]
MCSymmetry == Permutations(Body)
=============================================================================
