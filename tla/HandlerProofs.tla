---------------------------- MODULE HandlerProofs ----------------------------
(***************************************************************************)
(* Theorems of module Handler, for any servers, configurations, RPCs and   *)
(* calls, and for any number of registries and clients.                    *)
(***************************************************************************)
EXTENDS Handler, TLAPS

-----------------------------------------------------------------------------
(***************************************************************************)
(* The operations of module Registry yield registries, and which parts of  *)
(* the registry they leave alone.                                          *)
(***************************************************************************)

\* NewRegistry: the empty registry is a registry.
LEMMA NewRegistryType ==
  ASSUME NEW cfg \in SUBSET Servers
  PROVE  NewRegistry(cfg) \in RegistryValue
BY DEF NewRegistry, RegistryValue, ClientIds, NilClient

\* AddLive and Reconnected, which write a client, keep the type.
LEMMA ConnectedType ==
  ASSUME NEW reg \in RegistryValue, NEW s \in Servers, NEW c \in ClientIds
  PROVE  /\ AddLive(reg, s, c) \in RegistryValue
         /\ Reconnected(reg, s, c) \in RegistryValue
BY DEF AddLive, Reconnected, RegistryValue

\* So do AddCached, AddFailed, AddEmpty and StripOffline, which write none.
LEMMA OfflineType ==
  ASSUME NEW reg \in RegistryValue, NEW s \in Servers
  PROVE  /\ AddCached(reg, s) \in RegistryValue
         /\ AddFailed(reg, s) \in RegistryValue
         /\ AddEmpty(reg, s) \in RegistryValue
         /\ StripOffline(reg, s) \in RegistryValue
BY DEF AddCached, AddFailed, AddEmpty, StripOffline, RegistryValue

\* No operation changes the configuration a registry was built from.
LEMMA ConnectedCfg ==
  ASSUME NEW reg \in RegistryValue, NEW s \in Servers, NEW c \in ClientIds
  PROVE  /\ AddLive(reg, s, c).cfg = reg.cfg
         /\ Reconnected(reg, s, c).cfg = reg.cfg
BY DEF AddLive, Reconnected, RegistryValue

\* Neither do the operations that only mark, unmark or record a server.
LEMMA OfflineCfg ==
  ASSUME NEW reg \in RegistryValue, NEW s \in Servers
  PROVE  /\ AddCached(reg, s).cfg = reg.cfg
         /\ AddFailed(reg, s).cfg = reg.cfg
         /\ AddEmpty(reg, s).cfg = reg.cfg
         /\ StripOffline(reg, s).cfg = reg.cfg
BY DEF AddCached, AddFailed, AddEmpty, StripOffline, RegistryValue

\* AddLive and Reconnected can only set the client of the one server; the other
\* operations leave the clients alone.
LEMMA ConnectedClient ==
  ASSUME NEW reg \in RegistryValue, NEW s \in Servers, NEW c \in ClientIds
  PROVE  /\ AddLive(reg, s, c).client = [reg.client EXCEPT ![s] = c]
         /\ Reconnected(reg, s, c).client \in {reg.client, [reg.client EXCEPT ![s] = c]}
BY DEF AddLive, Reconnected, RegistryValue

\* AddCached, AddFailed, AddEmpty and StripOffline leave every client alone.
LEMMA OfflineClient ==
  ASSUME NEW reg \in RegistryValue, NEW s \in Servers
  PROVE  /\ AddCached(reg, s).client = reg.client
         /\ AddFailed(reg, s).client = reg.client
         /\ AddEmpty(reg, s).client = reg.client
         /\ StripOffline(reg, s).client = reg.client
BY DEF AddCached, AddFailed, AddEmpty, StripOffline, RegistryValue

-----------------------------------------------------------------------------
(***************************************************************************)
(* Type correctness.                                                       *)
(***************************************************************************)

\* SaveCache leaves a set of servers in cached.
LEMMA SaveCacheType ==
  ASSUME TypeOK, NEW s \in Servers, NEW tools \in BOOLEAN, SaveCache(s, tools)
  PROVE  cached' \in SUBSET Servers
BY DEF SaveCache, TypeOK

\* CloseClients leaves a state of every client.
LEMMA CloseClientsType ==
  ASSUME TypeOK, NEW r \in RegIds, CloseClients(r)
  PROVE  client' \in [ClientIds -> ClientStates]
BY DEF CloseClients, TypeOK, ClientStates

\* BuildBegin starts a job with a registry.
LEMMA BuildBeginType ==
  ASSUME TypeOK, NEW t \in Builders, NEW cfg \in SUBSET Servers,
         NEW kind \in {"bootstrap", "configure", "refresh"}, BuildBegin(t, kind, cfg)
  PROVE  /\ regs' \in [RegIds -> RegistryValue]
         /\ job' \in [Builders -> Jobs]
<1>1. PICK r \in RegIds :
        /\ regs' = [regs EXCEPT ![r] = NewRegistry(cfg)]
        /\ job' = [job EXCEPT ![t] = BuildJob(kind, r, cfg)]
  BY DEF BuildBegin
<1>2. regs' \in [RegIds -> RegistryValue]
  BY <1>1, NewRegistryType DEF TypeOK
<1>3. job' \in [Builders -> Jobs]
  BY <1>1 DEF TypeOK, Jobs, BuildJob
<1>4. QED BY <1>2, <1>3

\* What the types say of a job or a call that is under way.
LEMMA JobTypes ==
  ASSUME TypeOK, NEW t \in Builders
  PROVE  /\ job[t] \in Jobs
         /\ job[t].step = "idle" <=> job[t] = Idle
         /\ job[t].step = "build" <=> job[t].reg # NilReg
         /\ job[t].step = "build" =>
              /\ job[t].reg \in RegIds /\ job[t].todo \in SUBSET Servers
              /\ job[t].kind \in {"bootstrap", "configure", "refresh"}
              /\ job[t] = BuildJob(job[t].kind, job[t].reg, job[t].todo)
         /\ job[t].step = "release" => job[t] = Released
BY DEF TypeOK, Jobs, Idle, Released, BuildJob, RegIds, NilReg

\* A call that looks up, reconnects or calls has a registry, a call under way a client.
LEMMA CallTypes ==
  ASSUME TypeOK, NEW e \in Calls
  PROVE  /\ call[e] \in CallStates
         /\ call[e].step \in {"lookup", "reconnect"} =>
              /\ call[e].reg \in RegIds
              /\ call[e] = CallAt(call[e].step, call[e].reg, call[e].servers, NilClient)
         /\ call[e].step = "reconnect" => call[e].servers \in SUBSET Servers
         /\ call[e].step = "calling" => call[e].reg \in RegIds /\ call[e].client \in ClientIds
BY DEF TypeOK, CallStates, NoCall, CallAt

\* Every step of the plugin keeps the types. SetRegistry and ConfigureInstall read
\* the configuration of the registry just built.
LEMMA TypeStep == TypeOK /\ [Next]_vars => TypeOK'
<1> SUFFICES ASSUME TypeOK, [Next]_vars PROVE TypeOK'
  OBVIOUS
<1> USE DEF hvars, loopvars
<1>1. CASE MainServe
  BY <1>1 DEF MainServe, TypeOK
<1>2. ASSUME NEW cfg \in BootConfigs, MainBootstrap(cfg) PROVE TypeOK'
  <2>1. cfg \in SUBSET Servers
    BY ConfigsAssumption
  <2>2. regs' \in [RegIds -> RegistryValue] /\ job' \in [Builders -> Jobs]
    BY <1>2, <2>1, BuildBeginType DEF MainBootstrap, Builders
  <2>3. QED BY <1>2, <2>2 DEF MainBootstrap, TypeOK
<1>3. CASE SetRegistry
  <2>1. job[Main].reg \in RegIds
    BY <1>3, JobTypes DEF SetRegistry, Built, Builders
  <2>2. regs[job[Main].reg].cfg \in SUBSET Servers
    BY <2>1 DEF TypeOK, RegistryValue
  <2>3. job' \in [Builders -> Jobs]
    BY <1>3 DEF SetRegistry, TypeOK, Jobs
  <2>4. QED BY <1>3, <2>1, <2>2, <2>3 DEF SetRegistry, TypeOK
<1>4. ASSUME NEW t \in Builders, NEW s \in Servers, BuildServer(t, s) PROVE TypeOK'
  <2> DEFINE r == job[t].reg
  <2>1. r \in RegIds /\ regs[r] \in RegistryValue /\ job[t].todo \in SUBSET Servers
    BY <1>4, JobTypes DEF BuildServer, TypeOK
  <2>2. job' \in [Builders -> Jobs]
    <3>1. BuildJob(job[t].kind, r, job[t].todo \ {s}) \in Jobs
      BY <1>4, <2>1, JobTypes DEF BuildServer, BuildJob, Jobs
    <3>2. QED BY <1>4, <3>1 DEF BuildServer, TypeOK
  <2>3. /\ regs' \in [RegIds -> RegistryValue]
        /\ client' \in [ClientIds -> ClientStates]
        /\ cached' \in SUBSET Servers
    <3>1. CASE FetchLive(r, s)
      <4>1. PICK c \in ClientIds : /\ client' = [client EXCEPT ![c] = "open"]
                                  /\ regs' = [regs EXCEPT ![r] = AddLive(@, s, c)]
        BY <3>1 DEF FetchLive
      <4>2. regs' \in [RegIds -> RegistryValue] /\ client' \in [ClientIds -> ClientStates]
        BY <2>1, <4>1, ConnectedType DEF TypeOK, ClientStates
      <4>3. cached' \in SUBSET Servers
        BY <3>1, SaveCacheType DEF FetchLive
      <4>4. QED BY <4>2, <4>3
    <3>2. CASE FetchEmpty(r, s)
      <4>1. cached' \in SUBSET Servers
        BY <3>2, SaveCacheType DEF FetchEmpty
      <4>2. QED BY <2>1, <3>2, <4>1, OfflineType DEF FetchEmpty, TypeOK
    <3>3. CASE FetchFailed(r, s)
      BY <2>1, <3>3, OfflineType DEF FetchFailed, TypeOK
    <3>4. QED BY <1>4, <3>1, <3>2, <3>3 DEF BuildServer
  <2>4. QED BY <1>4, <2>2, <2>3 DEF BuildServer, TypeOK
<1>5. ASSUME NEW t \in Rpcs, NEW cfg \in Configs, ConfigureBegin(t, cfg) PROVE TypeOK'
  <2>1. cfg \in SUBSET Servers
    BY ConfigsAssumption
  <2>2. regs' \in [RegIds -> RegistryValue] /\ job' \in [Builders -> Jobs]
    BY <1>5, <2>1, BuildBeginType DEF ConfigureBegin, Builders
  <2>3. QED BY <1>5, <2>2 DEF ConfigureBegin, TypeOK
<1>6. ASSUME NEW t \in Rpcs, ConfigureInstall(t) PROVE TypeOK'
  <2>1. job[t].reg \in RegIds
    BY <1>6, JobTypes DEF ConfigureInstall, Built, Builders
  <2>2. /\ regs[job[t].reg].cfg \in SUBSET Servers
        /\ regs[job[t].reg].failed \in SUBSET Servers
        /\ regs[job[t].reg].offline \in SUBSET Servers
    BY <2>1 DEF TypeOK, RegistryValue
  <2>3. job' \in [Builders -> Jobs]
    BY <1>6 DEF ConfigureInstall, TypeOK, Jobs
  <2>4. closing' \subseteq RegIds /\ retrying' \subseteq RegIds
    BY <1>6, <2>1 DEF ConfigureInstall, Install, TypeOK
  <2>5. QED BY <1>6, <2>1, <2>2, <2>3, <2>4 DEF ConfigureInstall, Install, TypeOK
<1>7. ASSUME NEW t \in Rpcs, RefreshBegin(t) PROVE TypeOK'
  <2>1. regs' \in [RegIds -> RegistryValue] /\ job' \in [Builders -> Jobs]
    BY <1>7, BuildBeginType DEF RefreshBegin, Builders, TypeOK
  <2>2. QED BY <1>7, <2>1 DEF RefreshBegin, TypeOK
<1>8. ASSUME NEW t \in Rpcs, RefreshInstall(t) PROVE TypeOK'
  <2>1. job[t].reg \in RegIds
    BY <1>8, JobTypes DEF RefreshInstall, Built, Builders
  <2>2. QED BY <1>8, <2>1 DEF RefreshInstall, Install, TypeOK, Jobs
<1>9. ASSUME NEW t \in Rpcs, RefreshDiscard(t) PROVE TypeOK'
  <2>1. job[t].reg \in RegIds
    BY <1>9, JobTypes DEF RefreshDiscard, Built, Builders
  <2>2. client' \in [ClientIds -> ClientStates]
    BY <1>9, <2>1, CloseClientsType DEF RefreshDiscard
  <2>3. QED BY <1>9, <2>1, <2>2 DEF RefreshDiscard, TypeOK, Jobs
<1>10. ASSUME NEW t \in Rpcs, RefreshRelease(t) PROVE TypeOK'
  BY <1>10 DEF RefreshRelease, TypeOK, Jobs
<1>11. ASSUME NEW r \in RegIds, GraceClose(r) PROVE TypeOK'
  <2>1. client' \in [ClientIds -> ClientStates]
    BY <1>11, CloseClientsType DEF GraceClose
  <2>2. QED BY <1>11, <2>1 DEF GraceClose, TypeOK
<1>12. ASSUME NEW e \in Calls, ExecuteBegin(e) PROVE TypeOK'
  <2>1. registry \in RegIds
    BY <1>12 DEF ExecuteBegin, TypeOK
  <2>2. CallAt("lookup", registry, {}, NilClient) \in CallStates
    BY <2>1 DEF CallAt, CallStates
  <2>3. QED BY <1>12, <2>2 DEF ExecuteBegin, TypeOK
<1>13. ASSUME NEW e \in Calls, NEW s \in Servers, ExecuteLookup(e, s) PROVE TypeOK'
  <2> DEFINE r == call[e].reg
             c == regs[r].client[s]
  <2>1. r \in RegIds /\ c \in ClientIds \cup {NilClient}
    BY <1>13, CallTypes DEF ExecuteLookup, TypeOK, RegistryValue
  <2>2. /\ NoCall \in CallStates
        /\ c # NilClient => CallAt("calling", r, {}, c) \in CallStates
        /\ CallAt("reconnect", r, {s}, NilClient) \in CallStates
    BY <2>1 DEF CallAt, CallStates
  <2>3. call' \in [Calls -> CallStates]
    BY <1>13, <2>2 DEF ExecuteLookup, TypeOK
  <2>4. QED BY <1>13, <2>3 DEF ExecuteLookup, TypeOK
<1>14. ASSUME NEW e \in Calls, ExecuteReconnect(e) PROVE TypeOK'
  <2>1. PICK s \in Servers, c \in ClientIds :
          /\ Reconnect(call[e].reg, s, c)
          /\ call' = [call EXCEPT ![e] = CallAt("calling", call[e].reg, {}, c)]
    BY <1>14, CallTypes DEF ExecuteReconnect
  <2>2. call[e].reg \in RegIds /\ regs[call[e].reg] \in RegistryValue
    BY <1>14, CallTypes DEF ExecuteReconnect, TypeOK
  <2>3. regs' \in [RegIds -> RegistryValue] /\ client' \in [ClientIds -> ClientStates]
    BY <2>1, <2>2, ConnectedType DEF Reconnect, TypeOK, ClientStates
  <2>4. CallAt("calling", call[e].reg, {}, c) \in CallStates
    BY <2>2 DEF CallAt, CallStates
  <2>5. QED BY <1>14, <2>1, <2>3, <2>4 DEF ExecuteReconnect, TypeOK
<1>15. ASSUME NEW e \in Calls, ExecuteReturn(e) PROVE TypeOK'
  BY <1>15 DEF ExecuteReturn, TypeOK, CallStates
<1>16. ASSUME NEW c \in ClientIds, ServerDrops(c) PROVE TypeOK'
  BY <1>16 DEF ServerDrops, TypeOK, ClientStates
<1>17. ASSUME NEW r \in RegIds, NEW s \in Servers, LoopReconnect(r, s) PROVE TypeOK'
  <2>1. regs[r] \in RegistryValue
    BY DEF TypeOK
  <2>2. regs' \in [RegIds -> RegistryValue] /\ client' \in [ClientIds -> ClientStates]
    BY <1>17, <2>1, ConnectedType DEF LoopReconnect, Reconnect, TypeOK, ClientStates
  <2>3. QED BY <1>17, <2>2 DEF LoopReconnect, TypeOK
<1>18. ASSUME NEW r \in RegIds, NEW s \in Servers, LoopStrip(r, s) PROVE TypeOK'
  <2>1. regs' \in [RegIds -> RegistryValue]
    BY <1>18, OfflineType DEF LoopStrip, TypeOK
  <2>2. cached' \in SUBSET Servers
    BY <1>18, SaveCacheType DEF LoopStrip, TypeOK
  <2>3. QED BY <1>18, <2>1, <2>2 DEF LoopStrip, TypeOK
<1>19. ASSUME NEW r \in RegIds, NEW s \in Servers, RetryFetch(r, s) PROVE TypeOK'
  <2>1. cached' \in SUBSET Servers
    BY <1>19, SaveCacheType DEF RetryFetch
  <2>2. QED BY <1>19, <2>1 DEF RetryFetch, TypeOK
<1>20. ASSUME NEW r \in RegIds, RetryExit(r) PROVE TypeOK'
  <2>1. NewRegistry({}) \in RegistryValue
    BY NewRegistryType
  <2>2. QED BY <1>20, <2>1 DEF RetryExit, TypeOK, Jobs, CallStates, ClientStates
<1>21. CASE UNCHANGED vars
  BY <1>21 DEF vars, TypeOK
<1>22. QED
  BY <1>1, <1>2, <1>3, <1>4, <1>5, <1>6, <1>7, <1>8, <1>9, <1>10, <1>11, <1>12, <1>13,
     <1>14, <1>15, <1>16, <1>17, <1>18, <1>19, <1>20, <1>21
     DEF Next, MainStep, RpcStep, ExecuteStep, LoopStep

\* main starts in a state of the right type.
LEMMA TypeInit == Init => TypeOK
<1>1. NewRegistry({}) \in RegistryValue
  BY NewRegistryType
<1>2. QED BY <1>1 DEF Init, TypeOK, Jobs, CallStates, ClientStates

\* Type correctness: every variable has the type its comment gives it.
THEOREM TypeCorrect == Spec => []TypeOK
BY TypeInit, TypeStep, PTL DEF Spec

-----------------------------------------------------------------------------
(***************************************************************************)
(* main builds first: no RPC runs before it serves.                        *)
(***************************************************************************)
LEMMA MainFirstStep == TypeOK /\ MainFirst /\ [Next]_vars => MainFirst'
<1> SUFFICES ASSUME TypeOK, MainFirst, [Next]_vars PROVE MainFirst'
  OBVIOUS
<1> USE DEF hvars, loopvars, MainFirst
<1>0. phase \in {"main", "serving"} /\ Main \in Builders /\ Rpcs \subseteq Builders
  BY DEF TypeOK, Builders
<1>a. ASSUME NEW t \in Builders, job[t].step \in {"build", "release"} PROVE job[t] # Idle
  BY <1>a DEF Idle
<1>1. CASE MainServe
  BY <1>0, <1>1, JobTypes DEF MainServe
<1>2. ASSUME NEW cfg \in BootConfigs, MainBootstrap(cfg) PROVE MainFirst'
  BY <1>0, <1>2, MainAssumption DEF MainBootstrap, BuildBegin, TypeOK
<1>3. CASE SetRegistry
  BY <1>0, <1>3, MainAssumption DEF SetRegistry, TypeOK
<1>4. ASSUME NEW t \in Builders, NEW s \in Servers, BuildServer(t, s) PROVE MainFirst'
  <2>1. /\ job[t] # Idle /\ UNCHANGED <<phase, registry>>
        /\ \A u \in Builders \ {t} : job'[u] = job[u]
    BY <1>4, <1>a DEF BuildServer, TypeOK
  <2>2. CASE t = Main
    BY <1>0, <2>1, <2>2, MainAssumption
  <2>3. CASE t \in Rpcs
    BY <1>0, <2>1, <2>3, MainAssumption
  <2>4. QED BY <2>2, <2>3 DEF Builders
<1>5. ASSUME NEW t \in Rpcs, NEW cfg \in Configs, ConfigureBegin(t, cfg) PROVE MainFirst'
  BY <1>0, <1>5, MainAssumption DEF ConfigureBegin, BuildBegin, TypeOK
<1>6. ASSUME NEW t \in Rpcs, ConfigureInstall(t) PROVE MainFirst'
  <2>1. /\ job[t] # Idle /\ UNCHANGED phase
        /\ \A u \in Builders \ {t} : job'[u] = job[u]
    BY <1>0, <1>6, <1>a DEF ConfigureInstall, Built, TypeOK
  <2>2. QED BY <1>0, <2>1, MainAssumption
<1>7. ASSUME NEW t \in Rpcs, RefreshBegin(t) PROVE MainFirst'
  BY <1>0, <1>7, MainAssumption DEF RefreshBegin, BuildBegin, TypeOK
<1>8. ASSUME NEW t \in Rpcs, RefreshInstall(t) PROVE MainFirst'
  <2>1. /\ job[t] # Idle /\ UNCHANGED phase
        /\ \A u \in Builders \ {t} : job'[u] = job[u]
    BY <1>0, <1>8, <1>a DEF RefreshInstall, Built, TypeOK
  <2>2. QED BY <1>0, <2>1, MainAssumption
<1>9. ASSUME NEW t \in Rpcs, RefreshDiscard(t) PROVE MainFirst'
  <2>1. /\ job[t] # Idle /\ UNCHANGED phase
        /\ \A u \in Builders \ {t} : job'[u] = job[u]
    BY <1>0, <1>9, <1>a DEF RefreshDiscard, Built, TypeOK
  <2>2. QED BY <1>0, <2>1, MainAssumption
<1>10. ASSUME NEW t \in Rpcs, RefreshRelease(t) PROVE MainFirst'
  <2>1. /\ job[t] # Idle /\ UNCHANGED phase
        /\ \A u \in Builders \ {t} : job'[u] = job[u]
    BY <1>0, <1>10, <1>a DEF RefreshRelease, TypeOK
  <2>2. QED BY <1>0, <2>1, MainAssumption
<1>11. ASSUME NEW r \in RegIds, RetryExit(r) PROVE MainFirst'
  BY <1>0, <1>11 DEF RetryExit
<1>12. ASSUME UNCHANGED <<phase, registry, job>> PROVE MainFirst'
  BY <1>12
<1>13. QED
  BY <1>1, <1>2, <1>3, <1>4, <1>5, <1>6, <1>7, <1>8, <1>9, <1>10, <1>11, <1>12
     DEF Next, MainStep, RpcStep, ExecuteStep, LoopStep, vars, GraceClose, ExecuteBegin,
         ExecuteLookup, ExecuteReconnect, ExecuteReturn, ServerDrops, LoopReconnect, LoopStrip,
         RetryFetch

-----------------------------------------------------------------------------
(***************************************************************************)
(* Ownership of registries.                                                *)
(***************************************************************************)

\* One turn of Build's loop leaves every configuration alone, and every job its registry.
LEMMA BuildServerKeeps ==
  ASSUME TypeOK, NEW t \in Builders, NEW s \in Servers, BuildServer(t, s)
  PROVE  /\ \A r \in RegIds : regs'[r].cfg = regs[r].cfg
         /\ \A u \in Builders : job'[u].reg = job[u].reg /\ job'[u].kind = job[u].kind
<1>1. job[t].reg \in RegIds /\ regs[job[t].reg] \in RegistryValue
  BY JobTypes DEF BuildServer, TypeOK
<1>2. \A r \in RegIds : regs'[r].cfg = regs[r].cfg
  <2>1. CASE FetchLive(job[t].reg, s)
    BY <1>1, <2>1, ConnectedCfg DEF FetchLive, TypeOK
  <2>2. CASE FetchEmpty(job[t].reg, s)
    BY <1>1, <2>2, OfflineCfg DEF FetchEmpty, TypeOK
  <2>3. CASE FetchFailed(job[t].reg, s)
    BY <1>1, <2>3, OfflineCfg DEF FetchFailed, TypeOK
  <2>4. QED BY <2>1, <2>2, <2>3 DEF BuildServer
<1>3. \A u \in Builders : job'[u].reg = job[u].reg /\ job'[u].kind = job[u].kind
  BY DEF BuildServer, BuildJob, TypeOK
<1>4. QED BY <1>2, <1>3

\* So does the reconnect of a call.
LEMMA CallReconnectKeeps ==
  ASSUME TypeOK, NEW e \in Calls, ExecuteReconnect(e)
  PROVE  \A r \in RegIds : regs'[r].cfg = regs[r].cfg
<1>1. call[e].reg \in RegIds /\ regs[call[e].reg] \in RegistryValue
  BY CallTypes DEF ExecuteReconnect, TypeOK
<1>2. QED BY <1>1, CallTypes, ConnectedCfg DEF ExecuteReconnect, Reconnect, TypeOK

\* And so do the steps of reconnectOfflineLoop.
LEMMA LoopKeeps ==
  ASSUME TypeOK, NEW r \in RegIds, NEW s \in Servers, LoopReconnect(r, s) \/ LoopStrip(r, s)
  PROVE  \A q \in RegIds : regs'[q].cfg = regs[q].cfg
<1>1. CASE LoopReconnect(r, s)
  BY <1>1, ConnectedCfg DEF LoopReconnect, Reconnect, TypeOK
<1>2. CASE LoopStrip(r, s)
  BY <1>2, OfflineCfg DEF LoopStrip, TypeOK
<1>3. QED BY <1>1, <1>2

\* Used only depends on the configurations of the registries.
LEMMA UsedKept ==
  ASSUME \A r \in RegIds : regs'[r].cfg = regs[r].cfg
  PROVE  Used' = Used
BY DEF Used

\* OneOwner only depends on who holds which registry.
LEMMA OwnerFrame ==
  ASSUME OneOwner, Used' = Used, UNCHANGED <<registry, closing, closed>>,
         \A t \in Builders : job'[t].reg = job[t].reg
  PROVE  OneOwner'
<1>1. {job'[t].reg : t \in Builders} = {job[t].reg : t \in Builders}
  OBVIOUS
<1>2. QED BY <1>1 DEF OneOwner, Building

\* A new build takes a registry nobody has.
LEMMA OwnerBegin ==
  ASSUME TypeOK, OneOwner, NEW t \in Builders, NEW kind, NEW cfg \in SUBSET Servers, cfg # {},
         BuildBegin(t, kind, cfg), UNCHANGED <<registry, closing, closed>>
  PROVE  OneOwner'
<1>1. PICK r \in RegIds :
        /\ r \notin Used
        /\ regs' = [regs EXCEPT ![r] = NewRegistry(cfg)]
        /\ job' = [job EXCEPT ![t] = BuildJob(kind, r, cfg)]
  BY DEF BuildBegin, FreshReg
<1>2. Used' = Used \cup {r}
  BY <1>1 DEF Used, NewRegistry, TypeOK
<1>3. job[t].reg = NilReg
  BY JobTypes DEF BuildBegin
<1>4. /\ job'[t].reg = r
      /\ \A u \in Builders \ {t} : job'[u] = job[u]
  BY <1>1 DEF TypeOK, BuildJob
<1>5. r \notin {registry} \cup closing \cup closed /\ \A u \in Builders : job[u].reg # r
  BY <1>1 DEF OneOwner, RegIds, NilReg
<1>6. r # NilReg
  BY DEF RegIds, NilReg
<1>7. Used' = (({registry} \cup {job'[u].reg : u \in Builders}) \ {NilReg}) \cup closing \cup closed
  <2>1. {job'[u].reg : u \in Builders} \ {NilReg} = ({job[u].reg : u \in Builders} \ {NilReg}) \cup {r}
    BY <1>3, <1>4, <1>6
  <2>2. QED BY <1>2, <1>6, <2>1 DEF OneOwner
<1>8. \A u \in Builders : job'[u].reg # NilReg =>
        /\ job'[u].reg \notin {registry} \cup closing \cup closed
        /\ {v \in Builders : job'[v].reg = job'[u].reg} = {u}
  <2> SUFFICES ASSUME NEW u \in Builders, job'[u].reg # NilReg
               PROVE  /\ job'[u].reg \notin {registry} \cup closing \cup closed
                      /\ \A v \in Builders : job'[v].reg = job'[u].reg => v = u
    OBVIOUS
  <2>1. CASE u = t
    BY <1>4, <1>5, <2>1
  <2>2. CASE u # t
    BY <1>4, <1>5, <2>2 DEF OneOwner, Building
  <2>3. QED BY <2>1, <2>2
<1>9. QED BY <1>7, <1>8 DEF OneOwner, Building

\* A job that ends hands its registry to registry, closing or closed.
LEMMA OwnerEnd ==
  ASSUME TypeOK, OneOwner, NEW t \in Builders, job[t].step = "build", NEW next \in {Idle, Released},
         job' = [job EXCEPT ![t] = next], Used' = Used,
         \/ /\ registry' = job[t].reg /\ closing' = closing \cup ({registry} \ {NilReg})
            /\ UNCHANGED closed
         \/ UNCHANGED <<registry, closing>> /\ closed' = closed \cup {job[t].reg}
  PROVE  OneOwner'
<1>1. job[t].reg \in RegIds /\ job[t].reg # NilReg
  BY JobTypes
<1>2. /\ job'[t].reg = NilReg
      /\ \A u \in Builders \ {t} : job'[u] = job[u] /\ job[u].reg # job[t].reg
  BY <1>1 DEF TypeOK, Idle, Released, OneOwner, Building
<1>3. {job[u].reg : u \in Builders} \ {NilReg} = ({job'[u].reg : u \in Builders} \ {NilReg}) \cup {job[t].reg}
  BY <1>1, <1>2
<1>4. job[t].reg \notin {registry} \cup closing \cup closed
  BY <1>1 DEF OneOwner
<1>5. Used' = (({registry'} \cup {job'[u].reg : u \in Builders}) \ {NilReg}) \cup closing' \cup closed'
  BY <1>1, <1>3 DEF OneOwner
<1>6. /\ registry' \notin closing' \cup closed'
      /\ closing' \cap closed' = {}
  BY <1>1, <1>4 DEF OneOwner
<1>7. ASSUME NEW u \in Builders, job'[u].reg # NilReg
      PROVE  /\ job'[u].reg \notin {registry'} \cup closing' \cup closed'
             /\ \A v \in Builders : job'[v].reg = job'[u].reg => v = u
  <2>1. u # t /\ job'[u] = job[u] /\ job[u].reg # job[t].reg
    BY <1>2, <1>7
  <2>2. QED BY <1>2, <1>7, <2>1 DEF OneOwner, Building
<1>8. QED BY <1>5, <1>6, <1>7 DEF OneOwner, Building

\* No step disturbs the ownership of registries.
LEMMA OwnerStep == TypeOK /\ MainFirst /\ OneOwner /\ [Next]_vars => OneOwner'
<1> SUFFICES ASSUME TypeOK, MainFirst, OneOwner, [Next]_vars PROVE OneOwner'
  OBVIOUS
<1> USE DEF hvars, loopvars
<1>0. Main \in Builders /\ Rpcs \subseteq Builders
  BY DEF Builders
<1>1. CASE MainServe
  BY <1>1, OwnerFrame DEF MainServe, Used
<1>2. ASSUME NEW cfg \in BootConfigs, MainBootstrap(cfg) PROVE OneOwner'
  BY <1>0, <1>2, OwnerBegin, ConfigsAssumption DEF MainBootstrap
<1>3. CASE SetRegistry
  <2>1. registry = NilReg /\ job[Main].step = "build"
    BY <1>0, <1>3 DEF SetRegistry, Built, MainFirst, TypeOK, Idle
  <2>2. Used' = Used
    BY <1>3 DEF SetRegistry, Used
  <2>3. /\ registry' = job[Main].reg /\ closing' = closing \cup ({registry} \ {NilReg})
        /\ UNCHANGED closed /\ job' = [job EXCEPT ![Main] = Idle]
    BY <1>3, <2>1 DEF SetRegistry
  <2>4. QED BY <1>0, <2>1, <2>2, <2>3, OwnerEnd
<1>4. ASSUME NEW t \in Builders, NEW s \in Servers, BuildServer(t, s) PROVE OneOwner'
  BY <1>4, BuildServerKeeps, UsedKept, OwnerFrame DEF BuildServer
<1>5. ASSUME NEW t \in Rpcs, NEW cfg \in Configs, ConfigureBegin(t, cfg) PROVE OneOwner'
  <2>1. cfg \in SUBSET Servers /\ cfg # {}
    BY ConfigsAssumption
  <2>2. QED BY <1>0, <1>5, <2>1, OwnerBegin DEF ConfigureBegin
<1>6. ASSUME NEW t \in Rpcs, ConfigureInstall(t) PROVE OneOwner'
  <2>1. Used' = Used
    BY <1>6 DEF ConfigureInstall, Used
  <2>2. QED BY <1>0, <1>6, <2>1, OwnerEnd DEF ConfigureInstall, Install, Built
<1>7. ASSUME NEW t \in Rpcs, RefreshBegin(t) PROVE OneOwner'
  <2>1. serverCfgs \in SUBSET Servers
    BY DEF TypeOK
  <2>2. QED BY <1>0, <1>7, <2>1, OwnerBegin DEF RefreshBegin
<1>8. ASSUME NEW t \in Rpcs, RefreshInstall(t) PROVE OneOwner'
  <2>1. Used' = Used
    BY <1>8 DEF RefreshInstall, Used
  <2>2. QED BY <1>0, <1>8, <2>1, OwnerEnd DEF RefreshInstall, Install, Built
<1>9. ASSUME NEW t \in Rpcs, RefreshDiscard(t) PROVE OneOwner'
  <2>1. Used' = Used
    BY <1>9 DEF RefreshDiscard, Used
  <2>2. QED BY <1>0, <1>9, <2>1, OwnerEnd DEF RefreshDiscard, Built
<1>10. ASSUME NEW t \in Rpcs, RefreshRelease(t) PROVE OneOwner'
  <2>1. \A u \in Builders : job'[u].reg = job[u].reg
    BY <1>0, <1>10, JobTypes DEF RefreshRelease, Idle, Released, TypeOK
  <2>2. QED BY <1>10, <2>1, OwnerFrame DEF RefreshRelease, Used
<1>11. ASSUME NEW r \in RegIds, GraceClose(r) PROVE OneOwner'
  BY <1>11 DEF GraceClose, OneOwner, Used, Building
<1>12. ASSUME NEW e \in Calls, ExecuteReconnect(e) PROVE OneOwner'
  <2>1. \A r \in RegIds : regs'[r].cfg = regs[r].cfg
    BY <1>12, CallReconnectKeeps
  <2>2. QED BY <1>12, <2>1, UsedKept, OwnerFrame DEF ExecuteReconnect
<1>13. ASSUME NEW r \in RegIds, NEW s \in Servers, LoopReconnect(r, s) PROVE OneOwner'
  BY <1>13, LoopKeeps, UsedKept, OwnerFrame DEF LoopReconnect
<1>14. ASSUME NEW r \in RegIds, NEW s \in Servers, LoopStrip(r, s) PROVE OneOwner'
  BY <1>14, LoopKeeps, UsedKept, OwnerFrame DEF LoopStrip
<1>15. ASSUME NEW r \in RegIds, RetryExit(r) PROVE OneOwner'
  BY <1>15 DEF RetryExit, OneOwner, Used, Building, NewRegistry, Idle
<1>16. ASSUME UNCHANGED <<regs, job, registry, closing, closed>> PROVE OneOwner'
  BY <1>16, OwnerFrame DEF Used
<1>17. QED
  BY <1>1, <1>2, <1>3, <1>4, <1>5, <1>6, <1>7, <1>8, <1>9, <1>10, <1>11, <1>12, <1>13,
     <1>14, <1>15, <1>16
     DEF Next, MainStep, RpcStep, ExecuteStep, LoopStep, vars, ExecuteBegin, ExecuteLookup,
         ExecuteReturn, ServerDrops, RetryFetch

-----------------------------------------------------------------------------
(***************************************************************************)
(* One refresh at a time.                                                  *)
(***************************************************************************)

\* The flag and the refreshes in flight change together.
LEMMA RefreshStep == TypeOK /\ MainFirst /\ OneRefresh /\ [Next]_vars => OneRefresh'
<1> SUFFICES ASSUME TypeOK, MainFirst, OneRefresh, [Next]_vars PROVE OneRefresh'
  OBVIOUS
<1> USE DEF hvars, loopvars
<1>0. Main \in Builders /\ Rpcs \subseteq Builders
  BY DEF Builders
<1>a. ASSUME NEW t \in Builders, job[t].step = "idle" PROVE job[t].kind = "none"
  BY <1>a, JobTypes DEF Idle
<1>1. CASE MainServe
  BY <1>1 DEF MainServe, OneRefresh
<1>2. ASSUME NEW cfg \in BootConfigs, MainBootstrap(cfg) PROVE OneRefresh'
  BY <1>0, <1>2, <1>a DEF MainBootstrap, BuildBegin, BuildJob, OneRefresh, TypeOK
<1>3. CASE SetRegistry
  BY <1>0, <1>3 DEF SetRegistry, Built, Idle, OneRefresh, TypeOK
<1>4. ASSUME NEW t \in Builders, NEW s \in Servers, BuildServer(t, s) PROVE OneRefresh'
  <2>1. \A u \in Builders : job'[u].kind = job[u].kind
    BY <1>4 DEF BuildServer, BuildJob, TypeOK
  <2>2. QED BY <1>4, <2>1 DEF BuildServer, OneRefresh
<1>5. ASSUME NEW t \in Rpcs, NEW cfg \in Configs, ConfigureBegin(t, cfg) PROVE OneRefresh'
  BY <1>0, <1>5, <1>a DEF ConfigureBegin, BuildBegin, BuildJob, OneRefresh, TypeOK
<1>6. ASSUME NEW t \in Rpcs, ConfigureInstall(t) PROVE OneRefresh'
  BY <1>0, <1>6 DEF ConfigureInstall, Built, Idle, OneRefresh, TypeOK
<1>7. ASSUME NEW t \in Rpcs, RefreshBegin(t) PROVE OneRefresh'
  <2>1. \A u \in Builders : job[u].kind # "refresh"
    BY <1>7 DEF RefreshBegin, OneRefresh
  <2>2. /\ job'[t].kind = "refresh" /\ refreshing' = TRUE
        /\ \A u \in Builders \ {t} : job'[u] = job[u]
    BY <1>0, <1>7 DEF RefreshBegin, BuildBegin, BuildJob, TypeOK
  <2>3. QED BY <1>0, <2>1, <2>2 DEF OneRefresh
<1>8. ASSUME NEW t \in Rpcs, RefreshInstall(t) \/ RefreshDiscard(t) PROVE OneRefresh'
  <2>1. \A u \in Builders : job'[u].kind = job[u].kind
    BY <1>0, <1>8 DEF RefreshInstall, RefreshDiscard, Built, Released, TypeOK
  <2>2. QED BY <1>8, <2>1 DEF RefreshInstall, RefreshDiscard, OneRefresh
<1>9. ASSUME NEW t \in Rpcs, RefreshRelease(t) PROVE OneRefresh'
  <2>1. job[t].kind = "refresh"
    BY <1>0, <1>9, JobTypes DEF RefreshRelease, Released
  <2>2. \A u \in Builders \ {t} : job[u].kind # "refresh"
    BY <1>0, <2>1 DEF OneRefresh
  <2>3. \A u \in Builders : job'[u].kind # "refresh"
    BY <1>0, <1>9, <2>2 DEF RefreshRelease, Idle, TypeOK
  <2>4. refreshing' = FALSE
    BY <1>9 DEF RefreshRelease
  <2>5. QED BY <2>3, <2>4 DEF OneRefresh
<1>10. ASSUME NEW r \in RegIds, RetryExit(r) PROVE OneRefresh'
  BY <1>10 DEF RetryExit, Idle, OneRefresh
<1>11. ASSUME UNCHANGED <<job, refreshing>> PROVE OneRefresh'
  BY <1>11 DEF OneRefresh
<1>12. QED
  BY <1>1, <1>2, <1>3, <1>4, <1>5, <1>6, <1>7, <1>8, <1>9, <1>10, <1>11
     DEF Next, MainStep, RpcStep, ExecuteStep, LoopStep, vars, GraceClose, ExecuteBegin,
         ExecuteLookup, ExecuteReconnect, ExecuteReturn, ServerDrops, LoopReconnect, LoopStrip,
         RetryFetch

-----------------------------------------------------------------------------
(***************************************************************************)
(* Clients: whose they are, and who may close the one a call uses.         *)
(***************************************************************************)

\* A registry gets a fresh client c (or does not, if it has no entry for it), and
\* at most a call routed through that registry starts to use c.
LEMMA ClientAttach ==
  ASSUME TypeOK, ClientInv, NEW r \in RegIds, NEW s \in Servers, NEW c \in ClientIds,
         client[c] = "unused", client' = [client EXCEPT ![c] = "open"],
         NEW reg \in RegistryValue, regs' = [regs EXCEPT ![r] = reg],
         reg.client \in {regs[r].client, [regs[r].client EXCEPT ![s] = c]},
         UNCHANGED closed,
         \A e \in Calls : call'[e].step = "calling" =>
           call'[e] = call[e] \/ (call'[e].reg = r /\ call'[e].client = c)
  PROVE  ClientInv'
<1>1. \A q \in RegIds, u \in Servers : regs[q].client[u] \in ClientIds \cup {NilClient}
  BY DEF TypeOK, RegistryValue
<1>2. \A q \in RegIds, u \in Servers : regs[q].client[u] # c
  BY <1>1 DEF ClientInv, ClientsApart, NilClient, ClientIds
<1>3. /\ \A q \in RegIds \ {r} : regs'[q] = regs[q]
      /\ \A u \in Servers : \/ regs'[r].client[u] = regs[r].client[u]
                            \/ u = s /\ regs'[r].client[u] = c
  <2>1. \A q \in RegIds \ {r} : regs'[q] = regs[q]
    BY DEF TypeOK
  <2>2. regs'[r].client = reg.client /\ regs[r].client \in [Servers -> ClientIds \cup {NilClient}]
    BY DEF TypeOK, RegistryValue
  <2>3. QED BY <2>1, <2>2
<1>4. /\ client'[c] = "open"
      /\ \A d \in ClientIds \ {c} : client'[d] = client[d]
  BY DEF TypeOK
<1>5. ClientsApart'
  <2>1. ASSUME NEW q \in RegIds, NEW p \in RegIds, NEW u \in Servers, NEW v \in Servers,
               regs'[q].client[u] # NilClient, regs'[q].client[u] = regs'[p].client[v]
        PROVE  q = p
    BY <1>2, <1>3, <2>1 DEF ClientInv, ClientsApart
  <2>2. ASSUME NEW q \in RegIds, NEW u \in Servers, regs'[q].client[u] # NilClient
        PROVE  client'[regs'[q].client[u]] # "unused"
    BY <1>1, <1>2, <1>3, <1>4, <2>2 DEF ClientInv, ClientsApart
  <2>3. QED BY <2>1, <2>2 DEF ClientsApart
<1>6. ASSUME NEW e \in Calls, call'[e].step = "calling"
      PROVE  /\ client'[call'[e].client] # "unused"
             /\ \A q \in RegIds \ {call'[e].reg}, u \in Servers : regs'[q].client[u] # call'[e].client
             /\ call'[e].reg \notin closed' => client'[call'[e].client] # "closed"
  <2>1. CASE call'[e] = call[e]
    <3>1. call[e].client \in ClientIds /\ call[e].client # c
      BY <1>6, <2>1, CallTypes DEF ClientInv, CallsRouted
    <3>2. QED BY <1>3, <1>4, <1>6, <2>1, <3>1 DEF ClientInv, CallsRouted, CallKeepsClient
  <2>2. CASE call'[e].reg = r /\ call'[e].client = c
    BY <1>2, <1>3, <1>4, <2>2
  <2>3. QED BY <1>6, <2>1, <2>2
<1>7. QED BY <1>5, <1>6 DEF ClientInv, CallsRouted, CallKeepsClient

\* Registries forget clients or keep them, no call starts, and a client is closed
\* only together with a registry that holds it.
LEMMA ClientFrame ==
  ASSUME TypeOK, ClientInv,
         \A r \in RegIds, s \in Servers : regs'[r].client[s] \in {regs[r].client[s], NilClient},
         \A c \in ClientIds : client[c] # "unused" => client'[c] # "unused",
         \A c \in ClientIds : client'[c] = "closed" =>
           client[c] = "closed" \/ \E r \in closed', s \in Servers : r \in RegIds /\ regs[r].client[s] = c,
         closed \subseteq closed',
         \A e \in Calls : call'[e].step = "calling" => call'[e] = call[e]
  PROVE  ClientInv'
<1>1. \A q \in RegIds, u \in Servers : regs[q].client[u] \in ClientIds \cup {NilClient}
  BY DEF TypeOK, RegistryValue
<1>2. ClientsApart'
  <2>1. ASSUME NEW q \in RegIds, NEW p \in RegIds, NEW u \in Servers, NEW v \in Servers,
               regs'[q].client[u] # NilClient, regs'[q].client[u] = regs'[p].client[v]
        PROVE  q = p
    BY <2>1 DEF ClientInv, ClientsApart
  <2>2. ASSUME NEW q \in RegIds, NEW u \in Servers, regs'[q].client[u] # NilClient
        PROVE  client'[regs'[q].client[u]] # "unused"
    BY <1>1, <2>2 DEF ClientInv, ClientsApart
  <2>3. QED BY <2>1, <2>2 DEF ClientsApart
<1>3. ASSUME NEW e \in Calls, call'[e].step = "calling"
      PROVE  /\ client'[call'[e].client] # "unused"
             /\ \A q \in RegIds \ {call'[e].reg}, u \in Servers : regs'[q].client[u] # call'[e].client
             /\ call'[e].reg \notin closed' => client'[call'[e].client] # "closed"
  <2> DEFINE c == call[e].client
  <2>1. call'[e] = call[e] /\ c \in ClientIds /\ client[c] # "unused"
    BY <1>3, CallTypes DEF ClientInv, CallsRouted
  <2>2. \A q \in RegIds \ {call[e].reg}, u \in Servers : regs[q].client[u] # c
    BY <1>3, <2>1 DEF ClientInv, CallsRouted
  <2>3. \A q \in RegIds \ {call[e].reg}, u \in Servers : regs'[q].client[u] # c
    BY <2>1, <2>2 DEF ClientIds, NilClient
  <2>4. call[e].reg \notin closed' => client'[c] # "closed"
    BY <1>3, <2>1, <2>2 DEF ClientInv, CallKeepsClient
  <2>5. QED BY <2>1, <2>3, <2>4
<1>4. QED BY <1>2, <1>3 DEF ClientInv, CallsRouted, CallKeepsClient

\* No step cuts a call off from its client while its registry is not closed.
LEMMA ClientStep == TypeOK /\ ClientInv /\ [Next]_vars => ClientInv'
<1> SUFFICES ASSUME TypeOK, ClientInv, [Next]_vars PROVE ClientInv'
  OBVIOUS
<1> USE DEF hvars, loopvars
<1>0. Main \in Builders /\ Rpcs \subseteq Builders
  BY DEF Builders
<1>a. ASSUME NEW t \in Builders, NEW kind, NEW cfg, BuildBegin(t, kind, cfg),
             UNCHANGED <<call, closed, client>>
      PROVE  ClientInv'
  <2>1. \A r \in RegIds, s \in Servers : regs'[r].client[s] \in {regs[r].client[s], NilClient}
    BY <1>a DEF BuildBegin, NewRegistry, TypeOK
  <2>2. QED BY <1>a, <2>1, ClientFrame
<1>b. ASSUME NEW r \in RegIds, CloseClients(r), closed' = closed \cup {r}, UNCHANGED <<regs, call>>
      PROVE  ClientInv'
  <2>1. \A c \in ClientIds : client[c] # "unused" => client'[c] # "unused"
    BY <1>b DEF CloseClients
  <2>2. \A c \in ClientIds : client'[c] = "closed" =>
          client[c] = "closed" \/ \E q \in closed', s \in Servers : q \in RegIds /\ regs[q].client[s] = c
    <3> SUFFICES ASSUME NEW c \in ClientIds, client'[c] = "closed", client[c] # "closed"
                 PROVE  \E s \in Servers : regs[r].client[s] = c
      BY <1>b
    <3>1. c \in Held(regs[r])
      BY <1>b DEF CloseClients
    <3>2. regs[r].actions \in SUBSET Servers
      BY DEF TypeOK, RegistryValue
    <3>3. QED BY <3>1, <3>2 DEF Held
  <2>3. QED BY <1>b, <2>1, <2>2, ClientFrame
<1>1. CASE UNCHANGED <<regs, client, closed, call>>
  BY <1>1, ClientFrame
<1>2. ASSUME NEW cfg \in BootConfigs, MainBootstrap(cfg) PROVE ClientInv'
  BY <1>0, <1>2, <1>a DEF MainBootstrap
<1>3. ASSUME NEW t \in Builders, NEW s \in Servers, BuildServer(t, s) PROVE ClientInv'
  <2> DEFINE r == job[t].reg
  <2>1. r \in RegIds /\ regs[r] \in RegistryValue
    BY <1>3, JobTypes DEF BuildServer, TypeOK
  <2>2. UNCHANGED <<call, closed>>
    BY <1>3 DEF BuildServer
  <2>3. CASE FetchLive(r, s)
    <3>1. PICK c \in ClientIds :
            /\ client[c] = "unused" /\ client' = [client EXCEPT ![c] = "open"]
            /\ regs' = [regs EXCEPT ![r] = AddLive(regs[r], s, c)]
      BY <2>3 DEF FetchLive, FreshClient
    <3>2. /\ AddLive(regs[r], s, c) \in RegistryValue
          /\ AddLive(regs[r], s, c).client \in {regs[r].client, [regs[r].client EXCEPT ![s] = c]}
      BY <2>1, ConnectedType, ConnectedClient
    <3> HIDE DEF r
    <3>3. QED BY <2>1, <2>2, <3>1, <3>2, ClientAttach
  <2>4. CASE FetchEmpty(r, s)
    <3>1. \A q \in RegIds, u \in Servers : regs'[q].client[u] = regs[q].client[u]
      BY <2>1, <2>4, OfflineClient DEF FetchEmpty, TypeOK
    <3>2. QED BY <2>2, <2>4, <3>1, ClientFrame DEF FetchEmpty
  <2>5. CASE FetchFailed(r, s)
    <3>1. /\ AddCached(regs[r], s).client = regs[r].client
          /\ AddFailed(regs[r], s).client = regs[r].client
      BY <2>1, OfflineClient
    <3>2. \/ regs' = [regs EXCEPT ![r] = AddCached(regs[r], s)]
          \/ regs' = [regs EXCEPT ![r] = AddFailed(regs[r], s)]
      BY <2>5 DEF FetchFailed
    <3>3. \A q \in RegIds, u \in Servers : regs'[q].client[u] = regs[q].client[u]
      <4> HIDE DEF r
      <4>1. QED BY <2>1, <3>1, <3>2 DEF TypeOK
    <3>4. QED BY <2>2, <2>5, <3>3, ClientFrame DEF FetchFailed
  <2>6. QED BY <1>3, <2>3, <2>4, <2>5 DEF BuildServer
<1>4. ASSUME NEW t \in Rpcs, NEW cfg \in Configs, ConfigureBegin(t, cfg) PROVE ClientInv'
  BY <1>0, <1>4, <1>a DEF ConfigureBegin
<1>5. ASSUME NEW t \in Rpcs, RefreshBegin(t) PROVE ClientInv'
  BY <1>0, <1>5, <1>a DEF RefreshBegin
<1>6. ASSUME NEW t \in Rpcs, RefreshDiscard(t) PROVE ClientInv'
  <2>1. job[t].reg \in RegIds
    BY <1>0, <1>6, JobTypes DEF RefreshDiscard, Built
  <2>2. QED BY <1>6, <1>b, <2>1 DEF RefreshDiscard
<1>7. ASSUME NEW r \in RegIds, GraceClose(r) PROVE ClientInv'
  BY <1>7, <1>b DEF GraceClose
<1>8. ASSUME NEW e \in Calls, ExecuteBegin(e) \/ ExecuteReturn(e) PROVE ClientInv'
  <2>1. UNCHANGED <<regs, client, closed>>
    BY <1>8 DEF ExecuteBegin, ExecuteReturn
  <2>2. \A f \in Calls : call'[f].step = "calling" => call'[f] = call[f]
    BY <1>8 DEF ExecuteBegin, ExecuteReturn, CallAt, NoCall, TypeOK
  <2>3. QED BY <2>1, <2>2, ClientFrame
<1>9. ASSUME NEW e \in Calls, NEW s \in Servers, ExecuteLookup(e, s) PROVE ClientInv'
  <2> DEFINE r == call[e].reg
             c == regs[r].client[s]
  <2>1. r \in RegIds /\ UNCHANGED <<regs, client, closed>>
    BY <1>9, CallTypes DEF ExecuteLookup
  <2>2. CASE call'[e].step # "calling"
    <3>1. \A f \in Calls : call'[f].step = "calling" => call'[f] = call[f]
      BY <1>9, <2>2 DEF ExecuteLookup, TypeOK
    <3>2. QED BY <2>1, <3>1, ClientFrame
  <2>3. CASE call'[e].step = "calling"
    <3>1. /\ call'[e] = CallAt("calling", r, {}, c) /\ c # NilClient /\ client[c] = "open"
          /\ \A f \in Calls \ {e} : call'[f] = call[f]
      BY <1>9, <2>3 DEF ExecuteLookup, CallAt, NoCall, TypeOK
    <3>2. \A q \in RegIds \ {r}, u \in Servers : regs[q].client[u] # c
      BY <2>1, <3>1 DEF ClientInv, ClientsApart
    <3>3. call'[e].reg = r /\ call'[e].client = c
      BY <3>1 DEF CallAt
    <3>4. QED BY <2>1, <3>1, <3>2, <3>3 DEF ClientInv, ClientsApart, CallsRouted, CallKeepsClient
  <2>4. QED BY <2>2, <2>3
<1>10. ASSUME NEW e \in Calls, ExecuteReconnect(e) PROVE ClientInv'
  <2> DEFINE r == call[e].reg
  <2>1. r \in RegIds /\ regs[r] \in RegistryValue /\ UNCHANGED closed
    BY <1>10, CallTypes DEF ExecuteReconnect, TypeOK
  <2>2. PICK s \in Servers, c \in ClientIds :
          /\ client[c] = "unused" /\ client' = [client EXCEPT ![c] = "open"]
          /\ regs' = [regs EXCEPT ![r] = Reconnected(regs[r], s, c)]
          /\ call' = [call EXCEPT ![e] = CallAt("calling", r, {}, c)]
    BY <1>10, CallTypes DEF ExecuteReconnect, Reconnect, FreshClient
  <2>3. /\ Reconnected(regs[r], s, c) \in RegistryValue
        /\ Reconnected(regs[r], s, c).client \in {regs[r].client, [regs[r].client EXCEPT ![s] = c]}
    BY <2>1, ConnectedType, ConnectedClient
  <2>4. \A f \in Calls : call'[f].step = "calling" =>
          call'[f] = call[f] \/ (call'[f].reg = r /\ call'[f].client = c)
    BY <2>2 DEF CallAt, TypeOK
  <2> HIDE DEF r
  <2>5. QED BY <2>1, <2>2, <2>3, <2>4, ClientAttach
<1>11. ASSUME NEW c \in ClientIds, ServerDrops(c) PROVE ClientInv'
  BY <1>11, ClientFrame DEF ServerDrops, TypeOK
<1>12. ASSUME NEW r \in RegIds, NEW s \in Servers, LoopReconnect(r, s) PROVE ClientInv'
  <2>1. regs[r] \in RegistryValue /\ UNCHANGED <<call, closed>>
    BY <1>12 DEF LoopReconnect, TypeOK
  <2>2. PICK c \in ClientIds :
          /\ client[c] = "unused" /\ client' = [client EXCEPT ![c] = "open"]
          /\ regs' = [regs EXCEPT ![r] = Reconnected(regs[r], s, c)]
    BY <1>12 DEF LoopReconnect, Reconnect, FreshClient
  <2>3. /\ Reconnected(regs[r], s, c) \in RegistryValue
        /\ Reconnected(regs[r], s, c).client \in {regs[r].client, [regs[r].client EXCEPT ![s] = c]}
    BY <2>1, ConnectedType, ConnectedClient
  <2>4. QED BY <2>1, <2>2, <2>3, ClientAttach
<1>13. ASSUME NEW r \in RegIds, NEW s \in Servers, LoopStrip(r, s) PROVE ClientInv'
  <2>1. \A q \in RegIds, u \in Servers : regs'[q].client[u] = regs[q].client[u]
    BY <1>13, OfflineClient DEF LoopStrip, TypeOK
  <2>2. QED BY <1>13, <2>1, ClientFrame DEF LoopStrip
<1>14. ASSUME NEW r \in RegIds, RetryExit(r) PROVE ClientInv'
  <2>1. /\ \A q \in RegIds, s \in Servers : regs'[q].client[s] = NilClient
        /\ \A e \in Calls : call'[e].step # "calling"
    BY <1>14 DEF RetryExit, NewRegistry, NoCall, CallAt
  <2>2. QED BY <2>1 DEF ClientInv, ClientsApart, CallsRouted, CallKeepsClient
<1>15. QED
  BY <1>1, <1>2, <1>3, <1>4, <1>5, <1>6, <1>7, <1>8, <1>9, <1>10, <1>11, <1>12, <1>13, <1>14
     DEF Next, MainStep, MainServe, SetRegistry, RpcStep, ConfigureInstall, RefreshInstall,
         RefreshRelease, ExecuteStep, LoopStep, RetryFetch, vars

-----------------------------------------------------------------------------
(***************************************************************************)
(* Announcements: a tool without a client is announced as live only under  *)
(* the name prefix of a server that has one.                               *)
(***************************************************************************)

\* Both parts survive when every registry keeps its entries, marks and clients
\* and no registry leaves the installed ones.
LEMMA MarkFrame ==
  ASSUME MarkInv, UNCHANGED stripping,
         {registry} \cup closing \cup closed \subseteq {NilReg, registry'} \cup closing' \cup closed',
         \A r \in RegIds : /\ regs'[r].actions = regs[r].actions /\ regs'[r].client = regs[r].client
                          /\ regs'[r].marked = regs[r].marked /\ regs'[r].offline = regs[r].offline,
         \A r \in RegIds :
           \/ offlinePending'[r] \subseteq offlinePending[r]
           \/ offlinePending'[r] = regs[r].offline /\ r \in {registry'} \cup closing' \cup closed'
  PROVE  MarkInv'
<1>1. NilReg \notin RegIds
  BY DEF NilReg, RegIds
<1>2. LoopsOnInstalled'
  <2>1. ASSUME NEW r \in RegIds, offlinePending'[r] \cup stripping'[r] # {}
        PROVE  r \in {registry'} \cup closing' \cup closed'
    BY <1>1, <2>1 DEF MarkInv, LoopsOnInstalled
  <2>2. ASSUME NEW r \in RegIds
        PROVE  regs'[r].offline \cup offlinePending'[r] \subseteq regs'[r].actions
    BY <2>2 DEF MarkInv, LoopsOnInstalled
  <2>3. ASSUME NEW r \in RegIds, NEW s \in stripping'[r]
        PROVE  regs'[r].client[s] # NilClient
    BY <2>3 DEF MarkInv, LoopsOnInstalled
  <2>4. QED BY <2>1, <2>2, <2>3 DEF LoopsOnInstalled
<1>3. OfflineMarked'
  BY DEF MarkInv, OfflineMarked, Announced
<1>4. QED BY <1>2, <1>3 DEF MarkInv

\* One registry r that is not installed, so that no loop works on it, becomes reg.
LEMMA MarkOne ==
  ASSUME TypeOK, MarkInv, UNCHANGED <<registry, closing, closed, offlinePending, stripping>>,
         NEW r \in RegIds, NEW reg, regs' = [regs EXCEPT ![r] = reg],
         Announced(reg), reg.offline \subseteq reg.actions,
         r \notin {registry} \cup closing \cup closed
  PROVE  MarkInv'
<1>1. regs'[r] = reg /\ \A q \in RegIds \ {r} : regs'[q] = regs[q]
  BY DEF TypeOK
<1>2. stripping[r] = {} /\ offlinePending[r] = {}
  BY DEF MarkInv, LoopsOnInstalled, TypeOK
<1>3. LoopsOnInstalled'
  <2>1. ASSUME NEW q \in RegIds, NEW s \in stripping'[q]
        PROVE  regs'[q].client[s] # NilClient
    BY <1>1, <1>2, <2>1 DEF MarkInv, LoopsOnInstalled
  <2>2. ASSUME NEW q \in RegIds
        PROVE  regs'[q].offline \cup offlinePending'[q] \subseteq regs'[q].actions
    BY <1>1, <1>2, <2>2 DEF MarkInv, LoopsOnInstalled
  <2>3. QED BY <2>1, <2>2 DEF MarkInv, LoopsOnInstalled
<1>4. OfflineMarked'
  BY <1>1 DEF MarkInv, OfflineMarked
<1>5. QED BY <1>3, <1>4 DEF MarkInv

\* A reconnect by a call or by the loop gives entries a client and marks nothing.
LEMMA MarkReconnect ==
  ASSUME TypeOK, MarkInv, NEW r \in RegIds, NEW s \in Servers, NEW c \in ClientIds,
         regs' = [regs EXCEPT ![r] = Reconnected(regs[r], s, c)]
  PROVE  /\ OfflineMarked'
         /\ \A q \in RegIds : regs'[q].actions = regs[q].actions /\ regs'[q].offline = regs[q].offline
         /\ \A q \in RegIds, u \in Servers :
              regs'[q].client[u] = NilClient => regs[q].client[u] = NilClient
         /\ s \in regs'[r].actions => regs'[r].client[s] # NilClient
<1>1. regs[r] \in RegistryValue /\ \A q \in RegIds \ {r} : regs'[q] = regs[q]
  BY DEF TypeOK
<1>2. regs'[r] = Reconnected(regs[r], s, c)
  BY DEF TypeOK
<1>3. c # NilClient
  BY DEF ClientIds, NilClient
<1>4. /\ regs'[r].actions = regs[r].actions /\ regs'[r].marked = regs[r].marked
      /\ regs'[r].offline = regs[r].offline
      /\ \A u \in Servers : regs'[r].client[u] = NilClient => regs[r].client[u] = NilClient
      /\ s \in regs'[r].actions => regs'[r].client[s] # NilClient
  BY <1>1, <1>2, <1>3 DEF Reconnected, RegistryValue
<1>5. regs[r].actions \in SUBSET Servers
  BY <1>1 DEF RegistryValue
<1>6. OfflineMarked'
  <2>1. Announced(regs'[r])
    BY <1>4, <1>5 DEF MarkInv, OfflineMarked, Announced
  <2>2. QED BY <1>1, <2>1 DEF MarkInv, OfflineMarked
<1>7. QED BY <1>1, <1>4, <1>6

\* A server that is added with a client is announced as it should be, and so are the others still.
LEMMA AddAnnounced ==
  ASSUME NEW reg \in RegistryValue, NEW s \in Servers, NEW c \in ClientIds,
         Announced(reg), reg.offline \subseteq reg.actions
  PROVE  /\ Announced(AddLive(reg, s, c))
         /\ AddLive(reg, s, c).offline \subseteq AddLive(reg, s, c).actions
<1> DEFINE live == AddLive(reg, s, c)
<1>1. /\ live.actions = reg.actions \cup {s} /\ live.marked = reg.marked /\ live.offline = reg.offline
      /\ live.client[s] = c /\ \A t \in Servers \ {s} : live.client[t] = reg.client[t]
  BY DEF AddLive, RegistryValue
<1>2. c # NilClient /\ reg.actions \subseteq Servers
  BY DEF ClientIds, NilClient, RegistryValue
<1> HIDE DEF live
<1>3. ASSUME NEW x \in live.actions, live.client[x] = NilClient
      PROVE  x \in live.marked \/ \E t \in Servers : <<t, x>> \in Nested /\ live.client[t] # NilClient
  <2>1. x # s /\ x \in reg.actions /\ reg.client[x] = NilClient
    BY <1>1, <1>2, <1>3
  <2>2. x \in reg.marked \/ \E t \in Servers : <<t, x>> \in Nested /\ reg.client[t] # NilClient
    BY <2>1 DEF Announced
  <2>3. ASSUME NEW t \in Servers, reg.client[t] # NilClient PROVE live.client[t] # NilClient
    BY <1>1, <1>2, <2>3
  <2>4. QED BY <1>1, <2>2, <2>3
<1>4. Announced(live) /\ live.offline \subseteq live.actions
  BY <1>1, <1>3 DEF Announced
<1>5. QED BY <1>4 DEF live

\* A build starts with a registry that is not installed, and leaves it unmarked.
LEMMA MarkBegin ==
  ASSUME TypeOK, OneOwner, MarkInv, NEW t, NEW kind, NEW cfg, BuildBegin(t, kind, cfg),
         UNCHANGED <<registry, closing, closed, offlinePending, stripping>>
  PROVE  MarkInv'
<1>1. PICK r \in RegIds : r \notin Used /\ regs' = [regs EXCEPT ![r] = NewRegistry(cfg)]
  BY DEF BuildBegin, FreshReg
<1>2. r \notin {registry} \cup closing \cup closed
  BY <1>1 DEF OneOwner, RegIds, NilReg
<1>3. Announced(NewRegistry(cfg)) /\ NewRegistry(cfg).offline \subseteq NewRegistry(cfg).actions
  BY DEF NewRegistry, Announced
<1>4. QED BY <1>1, <1>2, <1>3, MarkOne

\* No step announces a tool without a client as live.
LEMMA MarkStep ==
  TypeOK /\ MainFirst /\ OneOwner /\ MarkInv /\ [Next]_vars => MarkInv'
<1> SUFFICES ASSUME TypeOK, MainFirst, OneOwner, MarkInv, [Next]_vars PROVE MarkInv'
  OBVIOUS
<1> USE DEF hvars, loopvars
<1>0. Main \in Builders /\ Rpcs \subseteq Builders
  BY DEF Builders
<1>1. CASE UNCHANGED <<regs, registry, closing, closed, offlinePending, stripping>>
  BY <1>1, MarkFrame
<1>2. ASSUME NEW cfg \in BootConfigs, MainBootstrap(cfg) PROVE MarkInv'
  BY <1>0, <1>2, MarkBegin DEF MainBootstrap
<1>3. CASE SetRegistry
  <2>1. registry = NilReg
    BY <1>0, <1>3 DEF SetRegistry, Built, MainFirst, TypeOK, Idle
  <2>2. QED BY <1>3, <2>1, MarkFrame DEF SetRegistry
<1>4. ASSUME NEW t \in Builders, NEW s \in Servers, BuildServer(t, s) PROVE MarkInv'
  <2> DEFINE r == job[t].reg
  <2>1. r \in RegIds /\ r # NilReg /\ regs[r] \in RegistryValue
    BY <1>4, JobTypes DEF BuildServer, TypeOK
  <2>2. r \notin {registry} \cup closing \cup closed
    BY <2>1 DEF OneOwner
  <2>3. UNCHANGED <<registry, closing, closed, offlinePending, stripping>>
    BY <1>4 DEF BuildServer
  <2>4. /\ regs[r].actions \in SUBSET Servers /\ regs[r].client \in [Servers -> ClientIds \cup {NilClient}]
        /\ Announced(regs[r]) /\ regs[r].offline \subseteq regs[r].actions
    BY <2>1 DEF RegistryValue, MarkInv, OfflineMarked, LoopsOnInstalled
  <2>5. CASE FetchLive(r, s)
    <3>1. PICK c \in ClientIds : regs' = [regs EXCEPT ![r] = AddLive(regs[r], s, c)]
      BY <2>5 DEF FetchLive
    <3> HIDE DEF r
    <3>2. /\ Announced(AddLive(regs[r], s, c))
          /\ AddLive(regs[r], s, c).offline \subseteq AddLive(regs[r], s, c).actions
      BY <2>1, <2>4, AddAnnounced
    <3>3. QED BY <2>1, <2>2, <2>3, <3>1, <3>2, MarkOne
  <2>6. CASE FetchEmpty(r, s)
    <3>1. /\ Announced(AddEmpty(regs[r], s))
          /\ AddEmpty(regs[r], s).offline \subseteq AddEmpty(regs[r], s).actions
      BY <2>1, <2>4 DEF AddEmpty, RegistryValue, Announced
    <3>2. regs' = [regs EXCEPT ![r] = AddEmpty(regs[r], s)]
      BY <2>6 DEF FetchEmpty
    <3> HIDE DEF r
    <3>3. QED BY <2>1, <2>2, <2>3, <3>1, <3>2, MarkOne
  <2>7. CASE FetchFailed(r, s)
    <3>1. /\ Announced(AddCached(regs[r], s))
          /\ AddCached(regs[r], s).offline \subseteq AddCached(regs[r], s).actions
      BY <2>1, <2>4 DEF AddCached, RegistryValue, Announced
    <3>2. /\ Announced(AddFailed(regs[r], s))
          /\ AddFailed(regs[r], s).offline \subseteq AddFailed(regs[r], s).actions
      BY <2>1, <2>4 DEF AddFailed, RegistryValue, Announced
    <3>3. \/ regs' = [regs EXCEPT ![r] = AddCached(regs[r], s)]
          \/ regs' = [regs EXCEPT ![r] = AddFailed(regs[r], s)]
      BY <2>7 DEF FetchFailed
    <3> HIDE DEF r
    <3>4. QED BY <2>1, <2>2, <2>3, <3>1, <3>2, <3>3, MarkOne
  <2>8. QED BY <1>4, <2>5, <2>6, <2>7 DEF BuildServer
<1>5. ASSUME NEW t \in Rpcs, NEW cfg \in Configs, ConfigureBegin(t, cfg) PROVE MarkInv'
  BY <1>5, MarkBegin DEF ConfigureBegin
<1>6. ASSUME NEW t \in Rpcs, ConfigureInstall(t) PROVE MarkInv'
  <2>1. \A r \in RegIds :
          \/ offlinePending'[r] = offlinePending[r]
          \/ offlinePending'[r] = regs[r].offline /\ r \in {registry'} \cup closing' \cup closed'
    BY <1>6 DEF ConfigureInstall, Install, TypeOK
  <2>2. QED BY <1>6, <2>1, MarkFrame DEF ConfigureInstall, Install
<1>7. ASSUME NEW t \in Rpcs, RefreshBegin(t) PROVE MarkInv'
  BY <1>7, MarkBegin DEF RefreshBegin
<1>8. ASSUME NEW t \in Rpcs, RefreshInstall(t) PROVE MarkInv'
  BY <1>8, MarkFrame DEF RefreshInstall, Install
<1>9. ASSUME NEW t \in Rpcs, RefreshDiscard(t) PROVE MarkInv'
  BY <1>9, MarkFrame DEF RefreshDiscard
<1>10. ASSUME NEW r \in RegIds, GraceClose(r) PROVE MarkInv'
  BY <1>10, MarkFrame DEF GraceClose
<1>11. ASSUME NEW e \in Calls, ExecuteReconnect(e) PROVE MarkInv'
  <2>1. PICK s \in Servers, c \in ClientIds :
          regs' = [regs EXCEPT ![call[e].reg] = Reconnected(regs[call[e].reg], s, c)]
    BY <1>11, CallTypes DEF ExecuteReconnect, Reconnect
  <2>2. call[e].reg \in RegIds
    BY <1>11, CallTypes DEF ExecuteReconnect
  <2>3. /\ OfflineMarked'
        /\ \A q \in RegIds : regs'[q].actions = regs[q].actions /\ regs'[q].offline = regs[q].offline
        /\ \A q \in RegIds, u \in Servers :
             regs'[q].client[u] = NilClient => regs[q].client[u] = NilClient
    BY <2>1, <2>2, MarkReconnect
  <2>4. UNCHANGED <<registry, closing, closed, offlinePending, stripping>>
    BY <1>11 DEF ExecuteReconnect
  <2>5. stripping \in [RegIds -> SUBSET Servers]
    BY DEF TypeOK
  <2>6. QED BY <2>3, <2>4, <2>5 DEF MarkInv, LoopsOnInstalled
<1>12. ASSUME NEW r \in RegIds, NEW s \in Servers, LoopReconnect(r, s) PROVE MarkInv'
  <2>1. PICK c \in ClientIds : regs' = [regs EXCEPT ![r] = Reconnected(regs[r], s, c)]
    BY <1>12 DEF LoopReconnect, Reconnect
  <2>2. /\ OfflineMarked'
        /\ \A q \in RegIds : regs'[q].actions = regs[q].actions /\ regs'[q].offline = regs[q].offline
        /\ \A q \in RegIds, u \in Servers :
             regs'[q].client[u] = NilClient => regs[q].client[u] = NilClient
        /\ s \in regs'[r].actions => regs'[r].client[s] # NilClient
    BY <2>1, MarkReconnect
  <2>3. /\ UNCHANGED <<registry, closing, closed>> /\ r \in {registry} \cup closing \cup closed
        /\ s \in regs[r].actions /\ stripping'[r] = {s} /\ \A q \in RegIds \ {r} : stripping'[q] = stripping[q]
        /\ \A q \in RegIds : offlinePending'[q] \subseteq offlinePending[q]
    BY <1>12 DEF LoopReconnect, TypeOK, MarkInv, LoopsOnInstalled
  <2>4. stripping \in [RegIds -> SUBSET Servers]
    BY DEF TypeOK
  <2>5. LoopsOnInstalled'
    <3>1. ASSUME NEW q \in RegIds, offlinePending'[q] \cup stripping'[q] # {}
          PROVE  q \in {registry'} \cup closing' \cup closed'
      BY <2>3, <3>1 DEF MarkInv, LoopsOnInstalled
    <3>2. ASSUME NEW q \in RegIds, NEW u \in stripping'[q]
          PROVE  regs'[q].client[u] # NilClient
      BY <2>2, <2>3, <2>4, <3>2 DEF MarkInv, LoopsOnInstalled
    <3>3. ASSUME NEW q \in RegIds
          PROVE  regs'[q].offline \cup offlinePending'[q] \subseteq regs'[q].actions
      BY <2>2, <2>3, <3>3 DEF MarkInv, LoopsOnInstalled
    <3>4. QED BY <3>1, <3>2, <3>3 DEF LoopsOnInstalled
  <2>6. QED BY <2>2, <2>5 DEF MarkInv
<1>13. ASSUME NEW r \in RegIds, NEW s \in Servers, LoopStrip(r, s) PROVE MarkInv'
  <2>2. regs[r] \in RegistryValue
    BY DEF TypeOK
  <2>3. /\ \A q \in RegIds \ {r} : regs'[q] = regs[q]
        /\ regs'[r] = StripOffline(regs[r], s)
    BY <1>13 DEF LoopStrip, TypeOK
  <2>4. /\ regs'[r].actions = regs[r].actions /\ regs'[r].client = regs[r].client
        /\ regs'[r].offline = regs[r].offline
        /\ \A u \in regs[r].marked : u = s \/ <<s, u>> \in Nested \/ u \in regs'[r].marked
    BY <2>2, <2>3 DEF StripOffline, RegistryValue, NamePrefixed
  <2>5. regs[r].client[s] # NilClient
    BY <1>13 DEF LoopStrip, MarkInv, LoopsOnInstalled
  <2>6. OfflineMarked'
    <3>1. Announced(regs'[r])
      BY <2>4, <2>5 DEF MarkInv, OfflineMarked, Announced
    <3>2. QED BY <2>3, <3>1 DEF MarkInv, OfflineMarked
  <2>7. /\ UNCHANGED <<registry, closing, closed, offlinePending>>
        /\ \A q \in RegIds : stripping'[q] \subseteq stripping[q]
    BY <1>13 DEF LoopStrip, TypeOK
  <2>8. LoopsOnInstalled'
    <3>1. ASSUME NEW q \in RegIds, offlinePending'[q] \cup stripping'[q] # {}
          PROVE  q \in {registry'} \cup closing' \cup closed'
      BY <2>7, <3>1 DEF MarkInv, LoopsOnInstalled
    <3>2. ASSUME NEW q \in RegIds, NEW u \in stripping'[q]
          PROVE  regs'[q].client[u] # NilClient
      BY <2>3, <2>4, <2>7, <3>2 DEF MarkInv, LoopsOnInstalled
    <3>3. ASSUME NEW q \in RegIds
          PROVE  regs'[q].offline \cup offlinePending'[q] \subseteq regs'[q].actions
      BY <2>3, <2>4, <2>7, <3>3 DEF MarkInv, LoopsOnInstalled
    <3>4. QED BY <3>1, <3>2, <3>3 DEF LoopsOnInstalled
  <2>9. QED BY <2>6, <2>8 DEF MarkInv
<1>14. ASSUME NEW r \in RegIds, RetryExit(r) PROVE MarkInv'
  BY <1>14 DEF RetryExit, NewRegistry, MarkInv, LoopsOnInstalled, OfflineMarked, Announced
<1>15. QED
  BY <1>1, <1>2, <1>3, <1>4, <1>5, <1>6, <1>7, <1>8, <1>9, <1>10, <1>11, <1>12, <1>13, <1>14
     DEF Next, MainStep, MainServe, RpcStep, RefreshRelease, ExecuteStep, ExecuteBegin,
         ExecuteLookup, ExecuteReturn, ServerDrops, LoopStep, RetryFetch, vars

-----------------------------------------------------------------------------
(***************************************************************************)
(* Every server of a configuration is accounted for in the build of it.    *)
(***************************************************************************)

\* The parts of a registry that Split speaks of.
SameOutcomes(reg, old) ==
  /\ reg.cfg = old.cfg /\ reg.actions = old.actions
  /\ reg.failed = old.failed /\ reg.empty = old.empty

\* A reconnect does not touch them.
LEMMA ReconnectOutcomes ==
  ASSUME NEW reg \in RegistryValue, NEW s \in Servers, NEW c \in ClientIds
  PROVE  SameOutcomes(Reconnected(reg, s, c), reg)
BY DEF SameOutcomes, Reconnected, RegistryValue

\* Neither does unmarking a server.
LEMMA StripOutcomes ==
  ASSUME NEW reg \in RegistryValue, NEW s \in Servers
  PROVE  SameOutcomes(StripOffline(reg, s), reg)
BY DEF SameOutcomes, StripOffline, RegistryValue

\* Whatever a server answers, it moves from the ones to ask to one of the outcomes.
LEMMA SplitServer ==
  ASSUME NEW reg \in RegistryValue, NEW todo \in SUBSET Servers, NEW s \in todo,
         Split(reg, todo)
  PROVE  /\ \A c \in ClientIds : Split(AddLive(reg, s, c), todo \ {s})
         /\ Split(AddCached(reg, s), todo \ {s})
         /\ Split(AddFailed(reg, s), todo \ {s})
         /\ Split(AddEmpty(reg, s), todo \ {s})
BY DEF Split, AddLive, AddCached, AddFailed, AddEmpty, RegistryValue

\* Accounted stays while the builds under way and their outcomes do.
LEMMA AccountedFrame ==
  ASSUME TypeOK, Accounted,
         \A r \in RegIds : SameOutcomes(regs'[r], regs[r]),
         \A t \in Builders : job'[t].step = "build" => job'[t] = job[t]
  PROVE  Accounted'
BY JobTypes DEF Accounted, Split, SameOutcomes

\* A new build still has every server to ask.
LEMMA AccountedBegin ==
  ASSUME TypeOK, OneOwner, Accounted, NEW t \in Builders, NEW kind, NEW cfg \in SUBSET Servers,
         BuildBegin(t, kind, cfg)
  PROVE  Accounted'
<1>1. PICK r \in RegIds :
        /\ r \notin Used
        /\ regs' = [regs EXCEPT ![r] = NewRegistry(cfg)]
        /\ job' = [job EXCEPT ![t] = BuildJob(kind, r, cfg)]
  BY DEF BuildBegin, FreshReg
<1>2. \A u \in Builders : job[u].reg # r
  BY <1>1 DEF OneOwner, RegIds, NilReg
<1>3. regs'[r] = NewRegistry(cfg) /\ \A q \in RegIds \ {r} : regs'[q] = regs[q]
  BY <1>1 DEF TypeOK
<1>4. job'[t] = BuildJob(kind, r, cfg) /\ \A u \in Builders \ {t} : job'[u] = job[u]
  BY <1>1 DEF TypeOK
<1>5. Split(regs'[job'[t].reg], job'[t].todo)
  BY <1>3, <1>4 DEF Split, NewRegistry, BuildJob
<1>6. ASSUME NEW u \in Builders \ {t}, job'[u].step = "build"
      PROVE  Split(regs'[job'[u].reg], job'[u].todo)
  <2>1. job'[u] = job[u] /\ job[u].reg \in RegIds \ {r}
    BY <1>2, <1>4, <1>6, JobTypes
  <2>2. QED BY <1>3, <1>6, <2>1 DEF Accounted
<1>7. QED BY <1>5, <1>6 DEF Accounted

\* One turn of Build's loop accounts for the server it asked, in a registry no other
\* goroutine builds.
LEMMA AccountedServer ==
  ASSUME TypeOK, OneOwner, Accounted, NEW t \in Builders, NEW s \in Servers, BuildServer(t, s)
  PROVE  Accounted'
<1> DEFINE r == job[t].reg
           left == job[t].todo \ {s}
<1>1. /\ r \in RegIds /\ r # NilReg /\ regs[r] \in RegistryValue /\ regs \in [RegIds -> RegistryValue]
      /\ job[t].todo \in SUBSET Servers /\ s \in job[t].todo /\ Split(regs[r], job[t].todo)
  BY JobTypes DEF BuildServer, TypeOK, Accounted
<1>2. /\ \A c \in ClientIds : Split(AddLive(regs[r], s, c), left)
      /\ Split(AddCached(regs[r], s), left) /\ Split(AddFailed(regs[r], s), left)
      /\ Split(AddEmpty(regs[r], s), left)
  BY <1>1, SplitServer
<1>3. \E reg : regs' = [regs EXCEPT ![r] = reg] /\ Split(reg, left)
  <2>1. CASE FetchLive(r, s)
    BY <1>2, <2>1 DEF FetchLive
  <2>2. CASE FetchEmpty(r, s)
    BY <1>2, <2>2 DEF FetchEmpty
  <2>3. CASE FetchFailed(r, s)
    BY <1>2, <2>3 DEF FetchFailed
  <2>4. QED BY <2>1, <2>2, <2>3 DEF BuildServer
<1>4. /\ job'[t].reg = r /\ job'[t].todo = left
      /\ \A u \in Builders \ {t} : job'[u] = job[u]
  BY DEF BuildServer, BuildJob, TypeOK
<1>5. \A u \in Builders \ {t} : job[u].reg # r
  BY <1>1 DEF OneOwner, Building
<1>6. Split(regs'[r], left) /\ \A q \in RegIds \ {r} : regs'[q] = regs[q]
  BY <1>1, <1>3
<1>7. ASSUME NEW u \in Builders, job'[u].step = "build"
      PROVE  Split(regs'[job'[u].reg], job'[u].todo)
  <2>1. CASE u = t
    BY <1>4, <1>6, <2>1
  <2>2. CASE u # t
    <3>1. job'[u] = job[u] /\ job[u].reg \in RegIds \ {r}
      BY <1>4, <1>5, <1>7, <2>2, JobTypes
    <3>2. QED BY <1>6, <1>7, <3>1 DEF Accounted
  <2>3. QED BY <2>1, <2>2
<1>8. QED BY <1>7 DEF Accounted

\* No step of another goroutine takes a server out of a build's account.
LEMMA AccountedStep == TypeOK /\ OneOwner /\ Accounted /\ [Next]_vars => Accounted'
<1> SUFFICES ASSUME TypeOK, OneOwner, Accounted, [Next]_vars PROVE Accounted'
  OBVIOUS
<1> USE DEF hvars, loopvars
<1>0. Main \in Builders /\ Rpcs \subseteq Builders
  BY DEF Builders
<1>1. ASSUME UNCHANGED <<regs, job>> PROVE Accounted'
  BY <1>1 DEF Accounted
<1>2. ASSUME UNCHANGED regs, NEW t \in Builders, NEW j \in {Idle, Released},
             job' = [job EXCEPT ![t] = j]
      PROVE  Accounted'
  <2>1. \A u \in Builders : job'[u].step = "build" => job'[u] = job[u]
    BY <1>2 DEF TypeOK, Idle, Released
  <2>2. QED BY <1>2, <2>1, AccountedFrame DEF SameOutcomes
<1>3. CASE MainStep
  <2>1. ASSUME NEW cfg \in BootConfigs, MainBootstrap(cfg) PROVE Accounted'
    BY <1>0, <2>1, AccountedBegin, ConfigsAssumption DEF MainBootstrap
  <2>2. QED BY <1>0, <1>1, <1>2, <1>3, <2>1 DEF MainStep, MainServe, SetRegistry
<1>4. ASSUME NEW t \in Builders, NEW s \in Servers, BuildServer(t, s) PROVE Accounted'
  BY <1>4, AccountedServer
<1>5. ASSUME NEW t \in Rpcs, RpcStep(t) PROVE Accounted'
  <2>1. ASSUME NEW cfg \in Configs, ConfigureBegin(t, cfg) PROVE Accounted'
    BY <1>0, <2>1, AccountedBegin, ConfigsAssumption DEF ConfigureBegin
  <2>2. CASE RefreshBegin(t)
    BY <1>0, <2>2, AccountedBegin DEF RefreshBegin, TypeOK
  <2>3. QED
    BY <1>0, <1>2, <1>5, <2>1, <2>2 DEF RpcStep, ConfigureInstall, RefreshInstall,
       RefreshDiscard, RefreshRelease
<1>6. ASSUME NEW r \in RegIds, NEW s \in Servers, NEW c \in ClientIds, Reconnect(r, s, c),
             UNCHANGED job
      PROVE  Accounted'
  <2>1. \A q \in RegIds : SameOutcomes(regs'[q], regs[q])
    BY <1>6, ReconnectOutcomes DEF Reconnect, TypeOK, SameOutcomes
  <2>2. QED BY <1>6, <2>1, AccountedFrame
<1>7. ASSUME NEW e \in Calls, ExecuteStep(e) PROVE Accounted'
  <2>1. CASE ExecuteReconnect(e)
    BY <1>6, <2>1, CallTypes DEF ExecuteReconnect
  <2>2. QED BY <1>1, <1>7, <2>1 DEF ExecuteStep, ExecuteBegin, ExecuteLookup, ExecuteReturn
<1>8. ASSUME NEW r \in RegIds, LoopStep(r) PROVE Accounted'
  <2>1. ASSUME NEW s \in Servers, LoopStrip(r, s) PROVE Accounted'
    <3>1. \A q \in RegIds : SameOutcomes(regs'[q], regs[q])
      <4>1. regs' = [regs EXCEPT ![r] = StripOffline(regs[r], s)]
        BY <2>1 DEF LoopStrip
      <4>2. SameOutcomes(StripOffline(regs[r], s), regs[r])
        BY StripOutcomes DEF TypeOK
      <4>3. QED BY <4>1, <4>2 DEF TypeOK, SameOutcomes
    <3>2. QED BY <2>1, <3>1, AccountedFrame DEF LoopStrip
  <2>2. ASSUME NEW s \in Servers, LoopReconnect(r, s) PROVE Accounted'
    BY <1>6, <2>2 DEF LoopReconnect
  <2>3. CASE RetryExit(r)
    BY <2>3 DEF RetryExit, Accounted, Idle
  <2>4. QED BY <1>1, <1>8, <2>1, <2>2, <2>3 DEF LoopStep, RetryFetch
<1>9. QED
  BY <1>1, <1>3, <1>4, <1>5, <1>7, <1>8 DEF Next, GraceClose, ServerDrops, vars

-----------------------------------------------------------------------------
(***************************************************************************)
(* One RPC at a time: the registry in use is the one of serverCfgs.        *)
(***************************************************************************)

\* What holds while a host has one RPC under way at a time.
InTurn == ServesConfig /\ RefreshesCurrent

\* It depends on the configurations, the one in use and the ones being built only.
LEMMA InTurnFrame ==
  ASSUME TypeOK, InTurn, UNCHANGED <<registry, serverCfgs>>,
         \A r \in RegIds : regs'[r].cfg = regs[r].cfg,
         \A t \in Builders : job'[t].step = "build" =>
           job[t].step = "build" /\ job'[t].reg = job[t].reg /\ job'[t].kind = job[t].kind
  PROVE  InTurn'
<1>1. ServesConfig'
  BY DEF InTurn, ServesConfig, TypeOK
<1>2. RefreshesCurrent'
  BY JobTypes DEF InTurn, RefreshesCurrent
<1>3. QED BY <1>1, <1>2 DEF InTurn

\* A build starts with a registry that is neither in use nor being built; if it is a
\* refresh, it builds serverCfgs.
LEMMA InTurnBegin ==
  ASSUME TypeOK, OneOwner, InTurn, NEW t \in Builders, NEW kind, NEW cfg \in SUBSET Servers,
         BuildBegin(t, kind, cfg), kind = "refresh" => cfg = serverCfgs,
         UNCHANGED <<registry, serverCfgs>>
  PROVE  InTurn'
<1>1. PICK r \in RegIds :
        /\ r \notin Used
        /\ regs' = [regs EXCEPT ![r] = NewRegistry(cfg)]
        /\ job' = [job EXCEPT ![t] = BuildJob(kind, r, cfg)]
  BY DEF BuildBegin, FreshReg
<1>2. r # registry /\ \A u \in Builders : job[u].reg # r
  BY <1>1 DEF OneOwner, RegIds, NilReg
<1>3. regs'[r].cfg = cfg /\ \A q \in RegIds \ {r} : regs'[q] = regs[q]
  BY <1>1 DEF TypeOK, NewRegistry
<1>4. /\ job'[t].reg = r /\ job'[t].kind = kind
      /\ \A u \in Builders \ {t} : job'[u] = job[u]
  BY <1>1 DEF TypeOK, BuildJob
<1>5. ServesConfig'
  BY <1>2, <1>3 DEF InTurn, ServesConfig, TypeOK
<1>6. ASSUME NEW u \in Builders, job'[u].step = "build", job'[u].kind = "refresh"
      PROVE  regs'[job'[u].reg].cfg = serverCfgs'
  <2>1. CASE u = t
    BY <1>3, <1>4, <1>6, <2>1
  <2>2. CASE u # t
    <3>1. job'[u] = job[u] /\ job[u].reg \in RegIds \ {r}
      BY <1>2, <1>4, <1>6, <2>2, JobTypes
    <3>2. QED BY <1>3, <1>6, <3>1 DEF InTurn, RefreshesCurrent
  <2>3. QED BY <2>1, <2>2
<1>7. QED BY <1>5, <1>6 DEF InTurn, RefreshesCurrent

\* With a single RPC, a configuration takes effect while no refresh is building.
LEMMA InTurnStep ==
  ASSUME TypeOK, MainFirst, OneOwner, \A t, u \in Rpcs : t = u, InTurn, [Next]_vars
  PROVE  InTurn'
<1> USE DEF hvars, loopvars
<1>0. Main \in Builders /\ Rpcs \subseteq Builders /\ phase \in {"main", "serving"}
  BY DEF Builders, TypeOK
<1>1. CASE UNCHANGED <<registry, serverCfgs, regs, job>>
  BY <1>1, InTurnFrame
<1>2. ASSUME NEW cfg \in BootConfigs, MainBootstrap(cfg) PROVE InTurn'
  <2>1. cfg \in SUBSET Servers
    BY ConfigsAssumption
  <2>2. QED BY <1>0, <1>2, <2>1, InTurnBegin DEF MainBootstrap
<1>3. CASE SetRegistry
  <2>1. phase = "main"
    BY <1>0, <1>3 DEF SetRegistry, Built, MainFirst, Idle
  <2>2. \A t \in Builders : job'[t] = Idle
    BY <1>3, <2>1 DEF SetRegistry, MainFirst, Builders, TypeOK
  <2>3. QED BY <1>3, <2>2 DEF SetRegistry, InTurn, ServesConfig, RefreshesCurrent, Idle
<1>4. ASSUME NEW t \in Builders, NEW s \in Servers, BuildServer(t, s) PROVE InTurn'
  <2>1. \A u \in Builders : job'[u].step = "build" => job[u].step = "build"
    BY <1>4 DEF BuildServer, TypeOK
  <2>2. QED BY <1>4, <2>1, BuildServerKeeps, InTurnFrame DEF BuildServer
<1>5. ASSUME NEW t \in Rpcs, NEW cfg \in Configs, ConfigureBegin(t, cfg) PROVE InTurn'
  <2>1. cfg \in SUBSET Servers
    BY ConfigsAssumption
  <2>2. QED BY <1>0, <1>5, <2>1, InTurnBegin DEF ConfigureBegin
<1>6. ASSUME NEW t \in Rpcs, ConfigureInstall(t) PROVE InTurn'
  <2>1. phase = "serving"
    BY <1>0, <1>6 DEF ConfigureInstall, Built, MainFirst, Idle
  <2>2. \A u \in Builders : job'[u] = Idle
    BY <1>0, <1>6, <2>1 DEF ConfigureInstall, MainFirst, Builders, TypeOK
  <2>3. QED
    BY <1>6, <2>2 DEF ConfigureInstall, Install, InTurn, ServesConfig, RefreshesCurrent, Idle
<1>7. ASSUME NEW t \in Rpcs, RefreshBegin(t) PROVE InTurn'
  <2>1. serverCfgs \in SUBSET Servers
    BY DEF TypeOK
  <2>2. QED BY <1>0, <1>7, <2>1, InTurnBegin DEF RefreshBegin
<1>8. ASSUME NEW t \in Rpcs, RefreshInstall(t) PROVE InTurn'
  <2>1. regs[job[t].reg].cfg = serverCfgs
    BY <1>0, <1>8 DEF RefreshInstall, Built, InTurn, RefreshesCurrent
  <2>2. \A u \in Builders : job'[u] \in {job[u], Released}
    BY <1>0, <1>8 DEF RefreshInstall, TypeOK
  <2>3. QED
    BY <1>8, <2>1, <2>2 DEF RefreshInstall, Install, InTurn, ServesConfig, RefreshesCurrent, Released
<1>9. ASSUME NEW t \in Rpcs, RefreshDiscard(t) \/ RefreshRelease(t) PROVE InTurn'
  <2>1. \A u \in Builders : job'[u] \in {job[u], Released, Idle}
    BY <1>0, <1>9 DEF RefreshDiscard, RefreshRelease, TypeOK
  <2>2. UNCHANGED <<registry, serverCfgs, regs>>
    BY <1>9 DEF RefreshDiscard, RefreshRelease
  <2>3. QED BY <2>1, <2>2, InTurnFrame DEF Released, Idle
<1>10. ASSUME NEW e \in Calls, ExecuteReconnect(e) PROVE InTurn'
  BY <1>10, CallReconnectKeeps, InTurnFrame DEF ExecuteReconnect
<1>11. ASSUME NEW r \in RegIds, NEW s \in Servers, LoopReconnect(r, s) \/ LoopStrip(r, s)
       PROVE  InTurn'
  BY <1>11, LoopKeeps, InTurnFrame DEF LoopReconnect, LoopStrip
<1>12. ASSUME NEW r \in RegIds, RetryExit(r) PROVE InTurn'
  BY <1>12 DEF RetryExit, InTurn, ServesConfig, RefreshesCurrent, Idle
<1>13. QED
  BY <1>1, <1>2, <1>3, <1>4, <1>5, <1>6, <1>7, <1>8, <1>9, <1>10, <1>11, <1>12
     DEF Next, MainStep, MainServe, RpcStep, ExecuteStep, ExecuteBegin, ExecuteLookup,
         ExecuteReturn, GraceClose, ServerDrops, LoopStep, RetryFetch, vars

-----------------------------------------------------------------------------
(***************************************************************************)
(* The properties, for every value of the constants.                       *)
(***************************************************************************)

\* The part of the inductive invariant about registries and refreshes.
OwnerInv == TypeOK /\ MainFirst /\ OneOwner /\ OneRefresh

\* Nothing is built, owned or in flight when main starts.
LEMMA OwnerInvInit == Init => OwnerInv
<1>1. Init => MainFirst
  BY DEF Init, MainFirst, Builders
<1>2. Init => OneOwner
  BY DEF Init, OneOwner, Used, Building, NewRegistry, Idle
<1>3. Init => OneRefresh
  BY DEF Init, OneRefresh, Idle
<1>4. QED BY <1>1, <1>2, <1>3, TypeInit DEF OwnerInv

\* Ownership and refreshes, with the types and the order of main, are inductive.
LEMMA OwnerInvariant == Spec => []OwnerInv
<1>1. OwnerInv /\ [Next]_vars => OwnerInv'
  BY TypeStep, MainFirstStep, OwnerStep, RefreshStep DEF OwnerInv
<1>2. QED BY <1>1, OwnerInvInit, PTL DEF Spec

\* Every registry ever built has exactly one owner, however the RPCs overlap.
THEOREM RegistriesOwned == Spec => []OneOwner
BY OwnerInvariant, PTL DEF OwnerInv

\* The in-flight flag is set exactly while one refresh runs.
THEOREM RefreshesSerialised == Spec => []OneRefresh
BY OwnerInvariant, PTL DEF OwnerInv

\* No client is shared when main starts, and none comes to be.
LEMMA ClientInvariant == Spec => []ClientInv
<1>1. Init => ClientInv
  BY DEF Init, NewRegistry, NoCall, CallAt, ClientInv, ClientsApart, CallsRouted, CallKeepsClient
<1>2. TypeOK /\ ClientInv /\ [Next]_vars => ClientInv'
  BY ClientStep
<1>3. QED BY <1>1, <1>2, TypeCorrect, PTL DEF Spec

\* What the loops do to the announcements is inductive, given who owns the registries.
LEMMA MarkInvariant == Spec => []MarkInv
<1>1. Init => MarkInv
  BY DEF Init, NewRegistry, MarkInv, LoopsOnInstalled, OfflineMarked, Announced
<1>2. OwnerInv /\ MarkInv /\ [Next]_vars => MarkInv'
  BY MarkStep DEF OwnerInv
<1>3. QED BY <1>1, <1>2, OwnerInvariant, PTL DEF Spec

\* A call keeps its client while the registry it was routed through is not closed.
THEOREM CallsKeepClients == Spec => []CallKeepsClient
BY ClientInvariant, PTL DEF ClientInv

\* A tool announced without [offline] has a client, or shares the name prefix of one
\* that has.
THEOREM OfflineIsMarked == Spec => []OfflineMarked
BY MarkInvariant, PTL DEF MarkInv

\* No refresh overlaps a Configure when the host runs one RPC at a time.
LEMMA InTurnInvariant == Spec => []InTurnInv
<1>1. Init => InTurnInv
  BY DEF Init, InTurnInv, ServesConfig, RefreshesCurrent, Idle
<1>2. OwnerInv /\ InTurnInv /\ [Next]_vars => InTurnInv'
  BY InTurnStep DEF OwnerInv, InTurnInv, InTurn
<1>3. QED BY <1>1, <1>2, OwnerInvariant, PTL DEF Spec

\* With one RPC under way at a time, the registry in use is the one of the configuration
\* that a refresh would replay, whatever loops, closers, calls and restarts do meanwhile.
THEOREM InTurnServesConfig == Spec => []ServesConfigInTurn
<1>1. InTurnInv => ServesConfigInTurn
  BY DEF InTurnInv, ServesConfigInTurn
<1>2. QED BY <1>1, InTurnInvariant, PTL

\* A build accounts for every server of its configuration exactly once: what Degraded does
\* not find among the failed or the offline has entries or said that it has no tools.
THEOREM BuildsAccounted == Spec => []Accounted
<1>1. Init => Accounted
  BY DEF Init, Accounted, Idle
<1>2. OwnerInv /\ Accounted /\ [Next]_vars => Accounted'
  BY AccountedStep DEF OwnerInv
<1>3. QED BY <1>1, <1>2, OwnerInvariant, PTL DEF Spec

\* All of it together: who owns which registry, that one refresh runs at a time, that no
\* two registries share a client, that the loops work on installed registries only, that a
\* refresh which nothing overlaps builds the configuration in force, and that a build
\* accounts for every server of its configuration.
THEOREM HandlerInvariant == Spec => []IndInv
BY OwnerInvariant, ClientInvariant, MarkInvariant, InTurnInvariant, BuildsAccounted,
   PTL DEF IndInv, OwnerInv
=============================================================================
