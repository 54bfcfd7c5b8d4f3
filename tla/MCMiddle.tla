------------------------------ MODULE MCMiddle ------------------------------
(* A small instance of PostPipeline.  Messages 1 and 2 share a parsed tag   *)
(* and a fork, 3 has the tag and the other fork, 4 goes to the post filters *)
(* directly and is not in their map.                                        *)
EXTENDS PostPipeline

MCTagOf == [i \in Msg |-> IF i <= 3 THEN "app" ELSE "es"]
MCForkOf == [i \in Msg |-> IF i <= 2 THEN "p1" ELSE "p2"]
MCReTagMap == [i \in Msg |-> IF i = 4 THEN "" ELSE "app"]
MCChains == {<<"es-dispatcher", "tag-rewriter", "custom-bigdata">>,
             <<"tag-rewriter", "custom-bigdata", "es-dispatcher">>}
=============================================================================
