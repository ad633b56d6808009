------------------------------ MODULE RoundTrips ------------------------------
(***************************************************************************)
(* What an MCP connection promises its callers, and nothing about POSTs,   *)
(* event streams, channels or goroutines: a caller asks once, after the    *)
(* handshake has returned, and gets the server's answer to its own request *)
(* or an error. A server that sends requests of its own can mislead a      *)
(* caller; it can never make it take another caller's answer for its own.  *)
(***************************************************************************)
CONSTANTS Ids, First    \* the round trips; the one that is the handshake

VARIABLES
  trip,      \* "new", "open", or how each round trip ended
  answered,  \* the round trips the server has answered
  foreign    \* has the server sent a request of its own?

Init ==
  /\ trip = [i \in Ids |-> "new"]
  /\ answered = {} /\ foreign = FALSE

Greeted == trip[First] \in {"answered", "misled"}

Ask(i) ==
  /\ trip[i] = "new" /\ (i = First \/ Greeted)
  /\ trip' = [trip EXCEPT ![i] = "open"]
  /\ UNCHANGED <<answered, foreign>>

\* The server answers what it was asked, once; the caller may have gone by then.
Answer(i) ==
  /\ trip[i] # "new" /\ i \notin answered
  /\ answered' = answered \cup {i}
  /\ UNCHANGED <<trip, foreign>>

Intrude == foreign' = TRUE /\ UNCHANGED <<trip, answered>>

End(i, how) ==
  /\ trip[i] = "open"
  /\ trip' = [trip EXCEPT ![i] = how]
  /\ UNCHANGED <<answered, foreign>>

Return(i) == i \in answered /\ End(i, "answered")
Mislead(i) == foreign /\ End(i, "misled")
Fail(i) == End(i, "failed")

Next ==
  \/ \E i \in Ids : Ask(i) \/ Answer(i) \/ Return(i) \/ Mislead(i) \/ Fail(i)
  \/ Intrude

Spec == Init /\ [][Next]_<<trip, answered, foreign>>
=============================================================================
