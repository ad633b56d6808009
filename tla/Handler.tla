------------------------------- MODULE Handler -------------------------------
(***************************************************************************)
(* The plugin's Handler (src/plugin/handler.go), the registries it builds, *)
(* swaps in and retires, and the goroutines that work on them behind its   *)
(* back (src/plugin/registry.go):                                          *)
(*                                                                         *)
(*   - main, which may bootstrap a registry from the environment;          *)
(*   - host RPCs running Configure or RefreshCapabilities;                 *)
(*   - host RPCs running Execute;                                          *)
(*   - retryLoop and reconnectOfflineLoop of each configured registry;     *)
(*   - one grace closer for each registry that was replaced.               *)
(*                                                                         *)
(* A step is what one goroutine does between two points where another one  *)
(* can observe or change shared state: a critical section of Handler.mu or *)
(* Registry.mu, or a network exchange with the private state it fills.     *)
(* Whether a server answers is the environment's choice at every exchange. *)
(* A client no registry and no call refers to is not followed any further. *)
(***************************************************************************)
EXTENDS Registry

CONSTANTS
  Configs,      \* server lists of the configurations the host may send
  BootConfigs,  \* what OPENTALON_MCP_SERVERS may hold; {} stands for "not set"
  CacheDir,     \* is OPENTALON_MCP_CACHE_DIR set?
  Rpcs,         \* goroutines of the Configure and RefreshCapabilities RPCs
  Calls,        \* goroutines of the Execute RPC
  Main,         \* the main goroutine
  MaxRegs,      \* bound: registries one life of the process builds
  Drops,        \* may servers end event streams?
  HangingServers  \* servers that may leave a request without an answer for ever

ASSUME ConfigsAssumption ==
  /\ Configs \subseteq (SUBSET Servers) \ {{}}
  /\ BootConfigs \subseteq Configs \cup {{}}
ASSUME CacheDirAssumption == CacheDir \in BOOLEAN
ASSUME DropsAssumption == Drops \in BOOLEAN
ASSUME MainAssumption == Main \notin Rpcs
ASSUME MaxRegsAssumption == MaxRegs \in Nat
ASSUME HangingAssumption == HangingServers \subseteq Servers

VARIABLES
  phase,          \* "main" until main calls Serve, then "serving"
  registry,       \* Handler.registry
  serverCfgs,     \* Handler.serverCfgs
  refreshing,     \* Handler.refreshing
  regs,           \* the registries, by identity
  job,            \* what main and the Configure/Refresh RPCs are doing
  call,           \* what the Execute RPCs are doing
  closing,        \* registries whose grace closer is sleeping
  closed,         \* registries on which Close has run
  retrying,       \* registries whose retryLoop runs
  retryPending,   \* its local variable pending
  offlinePending, \* local variable pending of reconnectOfflineLoop
  stripping,      \* the server that loop has reconnected but not yet unmarked
  client,         \* state of every mcp.Client
  cached          \* servers whose cache file is readable and lists a tool

hvars == <<phase, registry, serverCfgs, refreshing>>
loopvars == <<retrying, retryPending, offlinePending, stripping>>
vars == <<hvars, regs, job, call, closing, closed, loopvars, client, cached>>

NilReg == 0
RegIds == 1 .. MaxRegs
Builders == Rpcs \cup {Main}

Idle == [step |-> "idle", kind |-> "none", reg |-> NilReg, todo |-> {}]
Released == [step |-> "release", kind |-> "refresh", reg |-> NilReg, todo |-> {}]
BuildJob(kind, r, todo) == [step |-> "build", kind |-> kind, reg |-> r, todo |-> todo]

\* An Execute between two steps: the registry it loaded, the server whose entry it
\* copied and must reconnect, the client it calls.
CallAt(step, r, servers, c) == [step |-> step, reg |-> r, servers |-> servers, client |-> c]
NoCall == CallAt("idle", NilReg, {}, NilClient)

Jobs ==
  {Idle, Released}
  \cup [step : {"build"}, kind : {"bootstrap", "configure", "refresh"}, reg : RegIds,
        todo : SUBSET Servers]
CallStates ==
  {NoCall}
  \cup [step : {"lookup", "reconnect"}, reg : RegIds, servers : SUBSET Servers,
        client : {NilClient}]
  \cup [step : {"calling"}, reg : RegIds, servers : {{}}, client : ClientIds]
ClientStates == {"unused", "open", "dropped", "closed"}

(***************************************************************************)
(* main starts with an empty heap; only the cache directory outlives it.   *)
(***************************************************************************)
Init ==
  /\ phase = "main" /\ registry = NilReg /\ serverCfgs = {} /\ refreshing = FALSE
  /\ regs = [r \in RegIds |-> NewRegistry({})]
  /\ job = [t \in Builders |-> Idle]
  /\ call = [e \in Calls |-> NoCall]
  /\ closing = {} /\ closed = {}
  /\ retrying = {} /\ retryPending = [r \in RegIds |-> {}]
  /\ offlinePending = [r \in RegIds |-> {}] /\ stripping = [r \in RegIds |-> {}]
  /\ client = [c \in ClientIds |-> "unused"]
  /\ cached = {}

(***************************************************************************)
(* Allocation: the least identity not used before.                         *)
(***************************************************************************)
Used == {r \in RegIds : regs[r].cfg # {}}
FreshReg(r) == r \notin Used /\ \A q \in RegIds \ Used : r <= q
FreshClient(c) ==
  /\ client[c] = "unused"
  /\ \A d \in ClientIds : client[d] = "unused" => c <= d

\* saveCache of a list with or without tools: it may fail before it touches
\* the file, and it may leave a file that can no longer be read.
SaveCache(s, tools) ==
  IF CacheDir
  THEN cached' \in {cached, cached \ {s}} \cup (IF tools THEN {cached \cup {s}} ELSE {})
  ELSE UNCHANGED cached

\* Close: cancel the transport of every live client the registry holds.
CloseClients(r) ==
  client' = [c \in ClientIds |->
               IF c \in Held(regs[r]) /\ client[c] = "open" THEN "closed" ELSE client[c]]

-----------------------------------------------------------------------------
(***************************************************************************)
(* Build, run by main, Configure and RefreshCapabilities on a registry no  *)
(* other goroutine has a pointer to.                                       *)
(***************************************************************************)
BuildBegin(t, kind, cfg) ==
  /\ job[t].step = "idle"
  /\ \E r \in RegIds :
       /\ FreshReg(r)
       /\ regs' = [regs EXCEPT ![r] = NewRegistry(cfg)]
       /\ job' = [job EXCEPT ![t] = BuildJob(kind, r, cfg)]

\* fetchTools connected and listed at least one tool.
FetchLive(r, s) ==
  /\ \E c \in ClientIds :
       /\ FreshClient(c)
       /\ client' = [client EXCEPT ![c] = "open"]
       /\ regs' = [regs EXCEPT ![r] = AddLive(@, s, c)]
  /\ SaveCache(s, TRUE)

\* fetchTools succeeded with an empty list, which is no failure.
FetchEmpty(r, s) ==
  /\ regs' = [regs EXCEPT ![r] = AddEmpty(@, s)]
  /\ SaveCache(s, FALSE)
  /\ UNCHANGED client

\* fetchTools failed: fall back to the cache, or record the server as failed. The
\* file may also be unreadable just now, as while a save has truncated it.
FetchFailed(r, s) ==
  /\ \/ regs' = [regs EXCEPT ![r] = AddFailed(@, s)]
     \/ CacheDir /\ s \in cached /\ regs' = [regs EXCEPT ![r] = AddCached(@, s)]
  /\ UNCHANGED <<client, cached>>

BuildServer(t, s) ==
  /\ job[t].step = "build" /\ s \in job[t].todo
  /\ FetchLive(job[t].reg, s) \/ FetchEmpty(job[t].reg, s) \/ FetchFailed(job[t].reg, s)
  /\ job' = [job EXCEPT ![t] = BuildJob(job[t].kind, job[t].reg, job[t].todo \ {s})]
  /\ UNCHANGED <<hvars, call, closing, closed, loopvars>>

Built(t, kind) == job[t].step = "build" /\ job[t].kind = kind /\ job[t].todo = {}

\* Mutants of Install: without the test old != nil; without graceCloseRegistry.
InstallNilOld(t) == registry' = job[t].reg /\ closing' = closing \cup {registry}
InstallUnretired(t) == registry' = job[t].reg /\ UNCHANGED closing

\* Publish the registry t has built; the one it replaces goes to a grace closer.
Install(t) ==
  /\ registry' = job[t].reg
  /\ closing' = closing \cup ({registry} \ {NilReg})

-----------------------------------------------------------------------------
(***************************************************************************)
(* main: bootstrap from the environment if it names servers, then serve.   *)
(* SetRegistry neither starts background loops nor retires anything.       *)
(***************************************************************************)
MainServe ==
  /\ phase = "main" /\ {} \in BootConfigs /\ job[Main].step = "idle"
  /\ phase' = "serving"
  /\ UNCHANGED <<registry, serverCfgs, refreshing, regs, job, call, closing, closed,
                 loopvars, client, cached>>

MainBootstrap(cfg) ==
  /\ phase = "main" /\ cfg # {}
  /\ BuildBegin(Main, "bootstrap", cfg)
  /\ UNCHANGED <<hvars, call, closing, closed, loopvars, client, cached>>

SetRegistry ==
  /\ Built(Main, "bootstrap")
  /\ registry' = job[Main].reg /\ serverCfgs' = regs[job[Main].reg].cfg
  /\ phase' = "serving"
  /\ job' = [job EXCEPT ![Main] = Idle]
  /\ UNCHANGED <<refreshing, regs, call, closing, closed, loopvars, client, cached>>

-----------------------------------------------------------------------------
(***************************************************************************)
(* Configure. A block that does not parse, or lists no server, returns     *)
(* before anything changes. StartBackgroundRetry runs after the unlock,    *)
(* but its loops may sleep arbitrarily long, so it is one step with the    *)
(* swap; likewise the start of the grace closer.                           *)
(***************************************************************************)
ConfigureBegin(t, cfg) ==
  /\ phase = "serving"
  /\ BuildBegin(t, "configure", cfg)
  /\ UNCHANGED <<hvars, call, closing, closed, loopvars, client, cached>>

ConfigureInstallForgetful(t) ==    \* mutant: a re-Configure keeps the first serverCfgs
  LET r == job[t].reg IN
  /\ Built(t, "configure")
  /\ Install(t)
  /\ serverCfgs' = IF registry = NilReg THEN regs[r].cfg ELSE serverCfgs
  /\ retrying' = retrying \cup (IF regs[r].failed # {} THEN {r} ELSE {})
  /\ retryPending' = [retryPending EXCEPT ![r] = regs[r].failed]
  /\ offlinePending' = [offlinePending EXCEPT ![r] = regs[r].offline]
  /\ job' = [job EXCEPT ![t] = Idle]
  /\ UNCHANGED <<phase, refreshing, regs, call, closed, stripping, client, cached>>

ConfigureInstall(t) ==
  LET r == job[t].reg IN
  /\ Built(t, "configure")
  /\ Install(t)
  /\ serverCfgs' = regs[r].cfg
  /\ retrying' = retrying \cup (IF regs[r].failed # {} THEN {r} ELSE {})
  /\ retryPending' = [retryPending EXCEPT ![r] = regs[r].failed]
  /\ offlinePending' = [offlinePending EXCEPT ![r] = regs[r].offline]
  /\ job' = [job EXCEPT ![t] = Idle]
  /\ UNCHANGED <<phase, refreshing, regs, call, closed, stripping, client, cached>>

-----------------------------------------------------------------------------
(***************************************************************************)
(* RefreshCapabilities. A call that finds a refresh in flight, no registry *)
(* or no configuration returns the current capabilities and changes        *)
(* nothing. The configuration is read here, before Build; the test and the *)
(* swap come after it, in another critical section.                        *)
(***************************************************************************)
RefreshBeginUncoalesced(t) ==    \* mutant: no test of refreshing
  /\ phase = "serving" /\ registry # NilReg /\ serverCfgs # {}
  /\ refreshing' = TRUE
  /\ BuildBegin(t, "refresh", serverCfgs)
  /\ UNCHANGED <<phase, registry, serverCfgs, call, closing, closed, loopvars, client, cached>>

RefreshBegin(t) ==
  /\ phase = "serving"
  /\ ~refreshing /\ registry # NilReg /\ serverCfgs # {}
  /\ refreshing' = TRUE
  /\ BuildBegin(t, "refresh", serverCfgs)
  /\ UNCHANGED <<phase, registry, serverCfgs, call, closing, closed, loopvars, client, cached>>

RefreshInstall(t) ==
  /\ Built(t, "refresh") /\ ~Degraded(regs[job[t].reg])
  /\ Install(t)
  /\ job' = [job EXCEPT ![t] = Released]
  /\ UNCHANGED <<phase, serverCfgs, refreshing, regs, call, closed, loopvars, client, cached>>

\* Mutants of RefreshDiscard: the registry in use is closed instead of the new one;
\* an early return that skips the deferred function.
RefreshDiscardWrong(t) ==
  /\ Built(t, "refresh") /\ Degraded(regs[job[t].reg])
  /\ CloseClients(registry)
  /\ closed' = closed \cup {job[t].reg}
  /\ job' = [job EXCEPT ![t] = Released]
  /\ UNCHANGED <<hvars, regs, call, closing, loopvars, cached>>
RefreshDiscardStuck(t) ==
  /\ Built(t, "refresh") /\ Degraded(regs[job[t].reg])
  /\ CloseClients(job[t].reg)
  /\ closed' = closed \cup {job[t].reg}
  /\ job' = [job EXCEPT ![t] = Idle]
  /\ UNCHANGED <<hvars, regs, call, closing, loopvars, cached>>

\* A degraded build is not swapped in: it is closed and forgotten.
RefreshDiscard(t) ==
  /\ Built(t, "refresh") /\ Degraded(regs[job[t].reg])
  /\ CloseClients(job[t].reg)
  /\ closed' = closed \cup {job[t].reg}
  /\ job' = [job EXCEPT ![t] = Released]
  /\ UNCHANGED <<hvars, regs, call, closing, loopvars, cached>>

\* The deferred function: clear the in-flight flag.
RefreshRelease(t) ==
  /\ job[t].step = "release"
  /\ refreshing' = FALSE
  /\ job' = [job EXCEPT ![t] = Idle]
  /\ UNCHANGED <<phase, registry, serverCfgs, regs, call, closing, closed, loopvars,
                 client, cached>>

GraceCloseAfterRetry(r) ==    \* mutant: waits for retryLoop to end
  /\ r \in closing \ retrying
  /\ CloseClients(r)
  /\ closing' = closing \ {r} /\ closed' = closed \cup {r}
  /\ UNCHANGED <<hvars, regs, job, call, loopvars, cached>>

\* graceCloseRegistry's goroutine wakes up (the context it also waits for is
\* context.Background(), which is never done).
GraceClose(r) ==
  /\ r \in closing
  /\ CloseClients(r)
  /\ closing' = closing \ {r} /\ closed' = closed \cup {r}
  /\ UNCHANGED <<hvars, regs, job, call, loopvars, cached>>

-----------------------------------------------------------------------------
(***************************************************************************)
(* Execute. The registry pointer, the entry and the tool call are read and *)
(* made one after the other, with no lock held in between.                 *)
(***************************************************************************)
ExecuteBegin(e) ==
  /\ phase = "serving" /\ call[e].step = "idle" /\ registry # NilReg
  /\ call' = [call EXCEPT ![e] = CallAt("lookup", registry, {}, NilClient)]
  /\ UNCHANGED <<hvars, regs, job, closing, closed, loopvars, client, cached>>

\* Copy the entry of an action of server s; its client may be missing or dead.
ExecuteLookup(e, s) ==
  LET r == call[e].reg
      reg == regs[r]
  IN
  /\ call[e].step = "lookup"
  /\ call' = [call EXCEPT ![e] =
       IF s \notin reg.actions THEN NoCall
       ELSE IF reg.client[s] # NilClient /\ client[reg.client[s]] = "open"
       THEN CallAt("calling", r, {}, reg.client[s])
       ELSE CallAt("reconnect", r, {s}, NilClient)]
  /\ UNCHANGED <<hvars, regs, job, closing, closed, loopvars, client, cached>>

\* reconnect: the new client is private until its entries are updated under
\* the registry's lock, so connecting and updating are one step.
Reconnect(r, s, c) ==
  /\ FreshClient(c)
  /\ client' = [client EXCEPT ![c] = "open"]
  /\ regs' = [regs EXCEPT ![r] = Reconnected(@, s, c)]

ExecuteReconnect(e) ==
  /\ call[e].step = "reconnect"
  /\ \E s \in call[e].servers, c \in ClientIds :
       /\ Reconnect(call[e].reg, s, c)
       /\ call' = [call EXCEPT ![e] = CallAt("calling", call[e].reg, {}, c)]
  /\ UNCHANGED <<hvars, job, closing, closed, loopvars, cached>>

\* The call returns an answer or an error, or the reconnect failed.
ExecuteReturn(e) ==
  /\ call[e].step \in {"reconnect", "calling"}
  /\ call' = [call EXCEPT ![e] = NoCall]
  /\ UNCHANGED <<hvars, regs, job, closing, closed, loopvars, client, cached>>

\* The server ends the event stream of a client: readLoop cancels its context.
ServerDrops(c) ==
  /\ Drops /\ client[c] = "open"
  /\ client' = [client EXCEPT ![c] = "dropped"]
  /\ UNCHANGED <<hvars, regs, job, call, closing, closed, loopvars, cached>>

-----------------------------------------------------------------------------
(***************************************************************************)
(* reconnectOfflineLoop of registry r: reconnect a server that was loaded  *)
(* from cache, then list its tools and save them, then unmark its actions. *)
(* A pass visits every pending server; here any of them may be next.       *)
(***************************************************************************)
LoopReconnectOrNot(r, s) ==    \* mutant: no continue after a failed reconnect
  /\ stripping[r] = {} /\ s \in offlinePending[r]
  /\ (\E c \in ClientIds : Reconnect(r, s, c)) \/ UNCHANGED <<regs, client>>
  /\ offlinePending' = [offlinePending EXCEPT ![r] = @ \ {s}]
  /\ stripping' = [stripping EXCEPT ![r] = {s}]
  /\ UNCHANGED <<hvars, job, call, closing, closed, retrying, retryPending, cached>>

LoopReconnect(r, s) ==
  /\ stripping[r] = {} /\ s \in offlinePending[r]
  /\ \E c \in ClientIds : Reconnect(r, s, c)
  /\ offlinePending' = [offlinePending EXCEPT ![r] = @ \ {s}]
  /\ stripping' = [stripping EXCEPT ![r] = {s}]
  /\ UNCHANGED <<hvars, job, call, closing, closed, retrying, retryPending, cached>>

LoopStrip(r, s) ==
  /\ s \in stripping[r]
  /\ regs' = [regs EXCEPT ![r] = StripOffline(@, s)]
  /\ \/ SaveCache(s, TRUE)
     \/ SaveCache(s, FALSE)
     \/ UNCHANGED cached      \* ListTools failed
  /\ stripping' = [stripping EXCEPT ![r] = {}]
  /\ UNCHANGED <<hvars, job, call, closing, closed, retrying, retryPending, offlinePending,
                 client>>

(***************************************************************************)
(* retryLoop of registry r: fetch the tools of a server that had no cache, *)
(* only to save them; when none is left, exit the process. The manager     *)
(* starts the plugin again.                                                *)
(***************************************************************************)
RetryFetch(r, s) ==
  /\ r \in retrying /\ s \in retryPending[r]
  /\ SaveCache(s, TRUE) \/ SaveCache(s, FALSE)
  /\ retryPending' = [retryPending EXCEPT ![r] = @ \ {s}]
  /\ UNCHANGED <<hvars, regs, job, call, closing, closed, retrying, offlinePending, stripping,
                 client>>

RetryExit(r) ==
  /\ r \in retrying /\ retryPending[r] = {}
  /\ phase' = "main" /\ registry' = NilReg /\ serverCfgs' = {} /\ refreshing' = FALSE
  /\ regs' = [q \in RegIds |-> NewRegistry({})]
  /\ job' = [t \in Builders |-> Idle]
  /\ call' = [e \in Calls |-> NoCall]
  /\ closing' = {} /\ closed' = {}
  /\ retrying' = {} /\ retryPending' = [q \in RegIds |-> {}]
  /\ offlinePending' = [q \in RegIds |-> {}] /\ stripping' = [q \in RegIds |-> {}]
  /\ client' = [c \in ClientIds |-> "unused"]
  /\ UNCHANGED cached

-----------------------------------------------------------------------------
MainStep == MainServe \/ (\E cfg \in BootConfigs : MainBootstrap(cfg)) \/ SetRegistry

RpcStep(t) ==
  \/ \E cfg \in Configs : ConfigureBegin(t, cfg)
  \/ ConfigureInstall(t)
  \/ RefreshBegin(t)
  \/ RefreshInstall(t)
  \/ RefreshDiscard(t)
  \/ RefreshRelease(t)

ExecuteStep(e) ==
  \/ ExecuteBegin(e)
  \/ \E s \in Servers : ExecuteLookup(e, s)
  \/ ExecuteReconnect(e)
  \/ ExecuteReturn(e)

LoopStep(r) ==
  \/ \E s \in Servers : LoopReconnect(r, s)
  \/ \E s \in Servers : LoopStrip(r, s)
  \/ \E s \in Servers : RetryFetch(r, s)
  \/ RetryExit(r)

Next ==
  \/ MainStep
  \/ \E t \in Builders, s \in Servers : BuildServer(t, s)
  \/ \E t \in Rpcs : RpcStep(t)
  \/ \E e \in Calls : ExecuteStep(e)
  \/ \E r \in RegIds : GraceClose(r)
  \/ \E r \in RegIds : LoopStep(r)
  \/ \E c \in ClientIds : ServerDrops(c)

Spec == Init /\ [][Next]_vars

(***************************************************************************)
(* Goroutines run, timers fire, and every exchange that a timeout bounds   *)
(* ends; one with a server of HangingServers need not (the SSE GET, the    *)
(* wait for the endpoint event, an SSE POST and, over either transport,    *)
(* the POST of notifications/initialized have no deadline).                *)
(***************************************************************************)
Fairness ==
  /\ \A t \in Builders : WF_vars(\E s \in Servers \ HangingServers : BuildServer(t, s))
  /\ \A t \in Rpcs : /\ WF_vars(ConfigureInstall(t))
                     /\ WF_vars(RefreshInstall(t) \/ RefreshDiscard(t))
                     /\ WF_vars(RefreshRelease(t))
  /\ WF_vars(SetRegistry)
  /\ \A r \in RegIds : WF_vars(GraceClose(r))

FairSpec == Spec /\ Fairness
-----------------------------------------------------------------------------
(***************************************************************************)
(* Properties.                                                             *)
(***************************************************************************)

\* Every variable has the type its comment gives it.
TypeOK ==
  /\ phase \in {"main", "serving"} /\ registry \in RegIds \cup {NilReg}
  /\ serverCfgs \in SUBSET Servers /\ refreshing \in BOOLEAN
  /\ regs \in [RegIds -> RegistryValue]
  /\ job \in [Builders -> Jobs]
  /\ call \in [Calls -> CallStates]
  /\ closing \subseteq RegIds /\ closed \subseteq RegIds /\ retrying \subseteq RegIds
  /\ retryPending \in [RegIds -> SUBSET Servers]
  /\ offlinePending \in [RegIds -> SUBSET Servers]
  /\ stripping \in [RegIds -> SUBSET Servers]
  /\ client \in [ClientIds -> ClientStates]
  /\ cached \subseteq Servers

Building(r) == {t \in Builders : job[t].reg = r}

\* Every registry that was ever built has exactly one owner: the goroutine that
\* builds it, Handler.registry, the one grace closer that will close it, or it
\* is closed. So whatever Configure and RefreshCapabilities overlap, a replaced
\* registry is retired once and the registry in use is neither retired nor closed.
OneOwner ==
  /\ Used = (({registry} \cup {job[t].reg : t \in Builders}) \ {NilReg}) \cup closing \cup closed
  /\ registry \notin closing \cup closed
  /\ closing \cap closed = {}
  /\ \A t \in Builders : job[t].reg # NilReg =>
       /\ job[t].reg \notin {registry} \cup closing \cup closed
       /\ Building(job[t].reg) = {t}

\* At most one RPC runs a refresh at a time, and the in-flight flag is set
\* exactly while one does: a later refresh is never locked out by a stale flag.
OneRefresh ==
  /\ refreshing <=> \E t \in Builders : job[t].kind = "refresh"
  /\ \A t, u \in Builders : job[t].kind = "refresh" /\ job[u].kind = "refresh" => t = u

\* While the registry that a call was routed through is not closed, the plugin
\* has not closed the call's client: neither a discarded build nor the closing
\* of another registry cuts it off.
CallKeepsClient ==
  \A e \in Calls :
    call[e].step = "calling" /\ call[e].reg \notin closed => client[call[e].client] # "closed"

\* The host is told that a server's tools are available without the [offline]
\* prefix only if their entries have a client, or those of a server whose name
\* is a prefix of theirs have one.
Announced(reg) ==
  \A s \in reg.actions :
    reg.client[s] = NilClient =>
      s \in reg.marked \/ \E t \in Servers : <<t, s>> \in Nested /\ reg.client[t] # NilClient
OfflineMarked == \A r \in RegIds : Announced(regs[r])

\* The registry that serves the host was built from the configuration that a
\* refresh would replay.
ServesConfig == registry # NilReg => regs[registry].cfg = serverCfgs

\* A host that has one RPC under way at a time always finds it so, whatever the
\* loops, the grace closers, the calls and restarts of the process do meanwhile.
ServesConfigInTurn == (\A t, u \in Rpcs : t = u) => ServesConfig

\* Once the grace closer has closed a registry, no connection of it stays open.
ClosedStaysClosed == \A r \in closed : \A c \in Held(regs[r]) : client[c] # "open"

\* What the host sees, and what it has asked for: the refinement mapping to the
\* abstract capability store. A request is granted when its registry is installed.
view == IF registry = NilReg THEN [s \in Servers |-> "absent"] ELSE CapsSnapshot(regs[registry])

request ==
  [t \in Builders |->
     IF job[t].step # "build" THEN [kind |-> "none", cfg |-> {}, empty |-> {}]
     ELSE [kind  |-> IF job[t].kind = "refresh" THEN "refresh" ELSE "configure",
           cfg   |-> regs[job[t].reg].cfg,
           empty |-> regs[job[t].reg].empty]]

Store == INSTANCE CapabilityStore WITH config <- serverCfgs, Requesters <- Builders

\* The host never sees capabilities change except as the capability store allows.
ImplementsStore == Store!Spec

\* Every refresh ends, so that the next one is not coalesced for ever.
RefreshEnds == refreshing ~> ~refreshing

\* Every registry that is built is in use or closed in the end, or gone with the process:
\* none is left behind with its connections, whether its build was discarded, it was
\* replaced, or the one that replaced it was replaced at once.
NoneForgotten ==
  \A r \in RegIds : r \in Used ~> r \notin Used \/ r = registry \/ r \in closed

(***************************************************************************)
(* The inductive invariant behind the safety properties (HandlerProofs).   *)
(***************************************************************************)

\* main builds before anything is served, and finds no registry to replace.
MainFirst ==
  /\ phase = "main" => registry = NilReg /\ \A t \in Rpcs : job[t] = Idle
  /\ phase = "serving" => job[Main] = Idle

\* A client belongs to one registry: the one that created it.
ClientsApart ==
  /\ \A r, q \in RegIds : \A s, u \in Servers :
       regs[r].client[s] # NilClient /\ regs[r].client[s] = regs[q].client[u] => r = q
  /\ \A r \in RegIds : \A s \in Servers :
       regs[r].client[s] # NilClient => client[regs[r].client[s]] # "unused"

\* No registry but the one a call was routed through has the call's client.
CallsRouted ==
  \A e \in Calls :
    call[e].step = "calling" =>
      /\ client[call[e].client] # "unused"
      /\ \A r \in RegIds \ {call[e].reg}, s \in Servers : regs[r].client[s] # call[e].client

\* reconnectOfflineLoop works on installed registries only, on servers that have
\* entries, and unmarks a server only when its entries have a client.
LoopsOnInstalled ==
  \A r \in RegIds :
    /\ offlinePending[r] \cup stripping[r] # {} => r \in {registry} \cup closing \cup closed
    /\ regs[r].offline \cup offlinePending[r] \subseteq regs[r].actions
    /\ \A s \in stripping[r] : regs[r].client[s] # NilClient

\* A refresh builds the configuration it would replay, unless a Configure overlapped it.
RefreshesCurrent ==
  \A t \in Builders :
    job[t].step = "build" /\ job[t].kind = "refresh" => regs[job[t].reg].cfg = serverCfgs
InTurnInv == (\A t, u \in Rpcs : t = u) => ServesConfig /\ RefreshesCurrent

\* Every server of the configuration being built is still to be asked, or has entries,
\* failed, or said that it has no tools; and no server is two of these.
Split(reg, todo) ==
  /\ reg.cfg = todo \cup reg.actions \cup reg.failed \cup reg.empty
  /\ todo \cap (reg.actions \cup reg.failed \cup reg.empty) = {}
  /\ reg.actions \cap (reg.failed \cup reg.empty) = {}
  /\ reg.failed \cap reg.empty = {}
Accounted ==
  \A t \in Builders : job[t].step = "build" => Split(regs[job[t].reg], job[t].todo)

\* The parts about clients and about announcements, and all parts together.
ClientInv == ClientsApart /\ CallsRouted /\ CallKeepsClient
MarkInv == LoopsOnInstalled /\ OfflineMarked
IndInv == MainFirst /\ OneOwner /\ OneRefresh /\ ClientInv /\ MarkInv /\ InTurnInv /\ Accounted
=============================================================================
