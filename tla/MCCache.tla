------------------------------ MODULE MCCache ------------------------------
(***************************************************************************)
(* Two savers, a loader and three servers, two of which share a file: the  *)
(* name of one has a separator where that of the other has "_".            *)
(***************************************************************************)
EXTENDS Cache, TLC

MCServers == {"a/b", "a_b", "c"}
MCSafe == [s \in MCServers |-> IF s = "c" THEN "c" ELSE "a_b"]
MCLists == {"ab", "ab newer", "a_b", "c"}
MCOf == ("ab" :> "a/b") @@ ("ab newer" :> "a/b") @@ ("a_b" :> "a_b") @@ ("c" :> "c")
MCSize == [l \in MCLists |-> IF l = "a_b" THEN 1 ELSE 2]
=============================================================================
