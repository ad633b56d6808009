---------------------------- MODULE MCHandlerTwo -----------------------------
(***************************************************************************)
(* Two servers, one or both of them configured, by the host or by main.    *)
(***************************************************************************)
EXTENDS Handler

MCConfigs == {{"alpha"}, {"alpha", "beta"}}
MCBootConfigs == {{}, {"alpha"}}
MCNested == {<<"alpha", "beta">>}
=============================================================================
