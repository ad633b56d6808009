--------------------------- MODULE CapabilityStore ---------------------------
(***************************************************************************)
(* What the plugin promises the host about its capabilities, and nothing   *)
(* about registries, connections or caches: for every server, whether its  *)
(* tools are absent, announced as offline, or announced as live. Between   *)
(* the moment a Configure or a refresh is requested and the one atomic     *)
(* step in which it takes effect, the host sees the previous capabilities. *)
(***************************************************************************)
CONSTANTS Servers, Configs, BootConfigs, Requesters

VARIABLES
  view,      \* how each server's tools are announced
  config,    \* the configuration a refresh replays
  request    \* what each requester has asked for and not been granted, and the servers that
             \* said meanwhile that they have no tools

Announcements == {"absent", "offline", "live"}
NoView == [s \in Servers |-> "absent"]
NoRequest == [kind |-> "none", cfg |-> {}, empty |-> {}]

Init ==
  /\ view = NoView /\ config = {}
  /\ request = [t \in Requesters |-> NoRequest]

Ask(t, kind, cfg) ==
  /\ request[t] = NoRequest
  /\ request' = [request EXCEPT ![t] = [kind |-> kind, cfg |-> cfg, empty |-> {}]]
  /\ UNCHANGED <<view, config>>

\* A server of the configuration answers, and has no tools.
Emptied(t) ==
  /\ \E s \in request[t].cfg : request' = [request EXCEPT ![t].empty = @ \cup {s}]
  /\ UNCHANGED <<view, config>>

Done(t) == request' = [request EXCEPT ![t] = NoRequest]

\* The host or the environment configures the plugin: in one step the view is
\* replaced by one of servers of that configuration that have tools only.
AskConfigure(t) == \E cfg \in Configs \cup BootConfigs : Ask(t, "configure", cfg)

Configured(t) ==
  /\ request[t].kind = "configure"
  /\ view' \in [Servers -> Announcements]
  /\ \A s \in Servers \ (request[t].cfg \ request[t].empty) : view'[s] = "absent"
  /\ config' = request[t].cfg
  /\ Done(t)

\* A refresh replays the configuration of the moment it was asked for. It shows
\* every server of that configuration live, but those that said they have no tools, or
\* it changes nothing: that a server cannot be reached never takes tools away.
AskRefresh(t) == config # {} /\ Ask(t, "refresh", config)

Refreshed(t) ==
  /\ request[t].kind = "refresh"
  /\ view' = [s \in Servers |->
                IF s \in request[t].cfg \ request[t].empty THEN "live" ELSE "absent"]
  /\ Done(t)
  /\ UNCHANGED config

Kept(t) ==
  /\ request[t].kind = "refresh"
  /\ Done(t)
  /\ UNCHANGED <<view, config>>

\* Servers announced as offline came back.
Recovered ==
  /\ \E back \in SUBSET {s \in Servers : view[s] = "offline"} :
       view' = [s \in Servers |-> IF s \in back THEN "live" ELSE view[s]]
  /\ UNCHANGED <<config, request>>

\* The plugin process exited.
Restarted ==
  /\ view' = NoView /\ config' = {}
  /\ request' = [t \in Requesters |-> NoRequest]

Next ==
  \/ \E t \in Requesters :
       AskConfigure(t) \/ Configured(t) \/ AskRefresh(t) \/ Refreshed(t) \/ Kept(t) \/ Emptied(t)
  \/ Recovered
  \/ Restarted

Spec == Init /\ [][Next]_<<view, config, request>>
=============================================================================
