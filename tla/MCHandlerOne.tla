----------------------------- MODULE MCHandlerOne -----------------------------
(***************************************************************************)
(* One server, configured by the host only.                                *)
(***************************************************************************)
EXTENDS Handler

MCConfigs == {{"alpha"}}
MCBootConfigs == {{}}
=============================================================================
