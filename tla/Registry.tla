------------------------------ MODULE Registry ------------------------------
(***************************************************************************)
(* One value of the Go type plugin.Registry and the operations that change *)
(* it (src/plugin/registry.go), as pure operators: module Handler holds    *)
(* many registries at once and says who applies which operation when.      *)
(*                                                                         *)
(* All the tools one server listed share one client in every state, since  *)
(* Build and reconnect write the same client to each of them, so a registry *)
(* keeps one entry for a server and not one for each of its tools.         *)
(***************************************************************************)
EXTENDS Naturals

CONSTANTS
  Servers,     \* names of MCP servers that a configuration may list
  Nested,      \* pairs <<s, t>>, s # t: an action of t has a name with prefix s__
  MaxClients   \* bound: mcp.Client values one life of the process creates

ASSUME NestedAssumption == Nested \subseteq {p \in Servers \X Servers : p[1] # p[2]}
ASSUME MaxClientsAssumption == MaxClients \in Nat

NilClient == 0                        \* entry.client == nil: loaded from cache
ClientIds == 1 .. MaxClients          \* identities of *mcp.Client values

RegistryValue ==
  [cfg     : SUBSET Servers,                          \* servers given to Build
   actions : SUBSET Servers,                          \* servers with entries in actions
   client  : [Servers -> ClientIds \cup {NilClient}], \* entry.client of these entries
   marked  : SUBSET Servers,                          \* servers announced as "[offline] ..."
   failed  : SUBSET Servers,                          \* failedServers
   offline : SUBSET Servers,                          \* offlineServers
   empty   : SUBSET Servers]  \* history, read by nothing but the properties: servers that
                              \* answered Build with an empty list

(***************************************************************************)
(* Build: the empty registry, and what one turn of its loop adds.          *)
(***************************************************************************)
NewRegistry(cfg) ==
  [cfg |-> cfg, actions |-> {}, client |-> [s \in Servers |-> NilClient],
   marked |-> {}, failed |-> {}, offline |-> {}, empty |-> {}]

\* The server answered with at least one tool: live entries under client c.
AddLive(reg, s, c) ==
  [reg EXCEPT !.actions = @ \cup {s}, !.client[s] = c]

\* The server answered with an empty list: the loop over its tools does nothing.
AddEmpty(reg, s) == [reg EXCEPT !.empty = @ \cup {s}]

\* Unreachable, but its cached tools are readable: entries without a client,
\* announced with the [offline] prefix.
AddCached(reg, s) ==
  [reg EXCEPT !.actions = @ \cup {s}, !.marked = @ \cup {s}, !.offline = @ \cup {s}]

\* Unreachable and nothing cached: no entries.
AddFailed(reg, s) == [reg EXCEPT !.failed = @ \cup {s}]

DegradedFailedOnly(reg) == reg.failed # {}    \* mutant: offline servers not tested

\* RefreshCapabilities' test for a build that is not fully live.
Degraded(reg) == reg.failed # {} \/ reg.offline # {}

(***************************************************************************)
(* What happens to a registry after Build.                                 *)
(***************************************************************************)

\* reconnect: every entry of server s gets the new client c.
Reconnected(reg, s, c) ==
  IF s \in reg.actions THEN [reg EXCEPT !.client[s] = c] ELSE reg

\* The servers whose action names start with s__: s and those nested in it.
NamePrefixed(s) == {s} \cup {t \in Servers : <<s, t>> \in Nested}

StripOfflineAll(reg, s) == [reg EXCEPT !.marked = {}]    \* mutant: no test of the prefix

\* reconnectOfflineLoop trims "[offline] " from every action named s__...
StripOffline(reg, s) == [reg EXCEPT !.marked = @ \ NamePrefixed(s)]

\* The clients Close shuts down.
Held(reg) == {reg.client[s] : s \in reg.actions} \ {NilClient}

\* capsSnapshot, reduced to how each server's tools are announced: a server that has no
\* entries is not in caps.Actions either.
CapsSnapshot(reg) ==
  [s \in Servers |->
     CASE s \notin reg.actions -> "absent"
       [] s \in reg.actions \cap reg.marked -> "offline"
       [] OTHER -> "live"]
=============================================================================
