------------------------------ MODULE MCClient ------------------------------
(***************************************************************************)
(* Two callers share a client; it is opened by any of its three openers.   *)
(***************************************************************************)
EXTENDS Client

MCKinds == {"build", "reconnect", "retry"}
=============================================================================
