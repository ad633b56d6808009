------------------------------ MODULE MCSSEConn ------------------------------
(***************************************************************************)
(* Small instances of SSEConn; the configurations give the bounds.         *)
(***************************************************************************)
EXTENDS SSEConn
=============================================================================
