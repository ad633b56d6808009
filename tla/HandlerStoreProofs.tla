-------------------------- MODULE HandlerStoreProofs --------------------------
(***************************************************************************)
(* Module Handler implements module CapabilityStore: under the mapping     *)
(* view, request and serverCfgs, main starts in a state the store starts   *)
(* in, and every step of the plugin is a step of the store or none.        *)
(***************************************************************************)
EXTENDS HandlerProofs

\* What a reader of capsSnapshot can tell apart.
SameCaps(reg, old) == reg.actions = old.actions /\ reg.marked = old.marked

\* What the store knows of a registry that is being built.
SameRequest(reg, old) == reg.cfg = old.cfg /\ reg.empty = old.empty

\* Only servers loaded from cache are announced as offline: Degraded finds them.
MarkedOffline == \A r \in RegIds : regs[r].marked \subseteq regs[r].offline

-----------------------------------------------------------------------------
(***************************************************************************)
(* Marks.                                                                  *)
(***************************************************************************)

\* A live, a failed or an empty server and a reconnect mark nothing.
LEMMA LiveMarks ==
  ASSUME NEW reg \in RegistryValue, NEW s \in Servers, NEW c \in ClientIds,
         reg.marked \subseteq reg.offline
  PROVE  /\ AddLive(reg, s, c).marked \subseteq AddLive(reg, s, c).offline
         /\ Reconnected(reg, s, c).marked \subseteq Reconnected(reg, s, c).offline
         /\ AddFailed(reg, s).marked \subseteq AddFailed(reg, s).offline
         /\ AddEmpty(reg, s).marked \subseteq AddEmpty(reg, s).offline
BY DEF AddLive, Reconnected, AddFailed, AddEmpty, RegistryValue

\* A cached server is marked and recorded as offline; unmarking only shrinks the marks.
LEMMA CachedMarks ==
  ASSUME NEW reg \in RegistryValue, NEW s \in Servers, reg.marked \subseteq reg.offline
  PROVE  /\ AddCached(reg, s).marked \subseteq AddCached(reg, s).offline
         /\ StripOffline(reg, s).marked \subseteq StripOffline(reg, s).offline
BY DEF AddCached, StripOffline, RegistryValue

\* One registry changes, in a way that keeps its marks within its offline servers.
LEMMA MarksOfOne ==
  ASSUME TypeOK, MarkedOffline, NEW r \in RegIds, NEW reg,
         regs' = [regs EXCEPT ![r] = reg], reg.marked \subseteq reg.offline
  PROVE  MarkedOffline'
BY DEF MarkedOffline, TypeOK

\* A new registry has no marks.
LEMMA MarksOfBuild ==
  ASSUME TypeOK, MarkedOffline, NEW t, NEW kind, NEW cfg, BuildBegin(t, kind, cfg)
  PROVE  MarkedOffline'
BY MarksOfOne DEF BuildBegin, NewRegistry

\* No step announces as offline a server that was not loaded from cache.
LEMMA MarkedOfflineStep == TypeOK /\ MarkedOffline /\ [Next]_vars => MarkedOffline'
<1> SUFFICES ASSUME TypeOK, MarkedOffline, [Next]_vars PROVE MarkedOffline'
  OBVIOUS
<1> USE DEF hvars, loopvars
<1>0. \A r \in RegIds : regs[r] \in RegistryValue /\ regs[r].marked \subseteq regs[r].offline
  BY DEF TypeOK, MarkedOffline
<1>1. CASE UNCHANGED regs
  BY <1>1 DEF MarkedOffline
<1>2. ASSUME NEW t \in Builders, NEW s \in Servers, BuildServer(t, s) PROVE MarkedOffline'
  <2> DEFINE r == job[t].reg
  <2>1. r \in RegIds
    BY <1>2, JobTypes DEF BuildServer
  <2>2. ASSUME NEW c \in ClientIds, regs' = [regs EXCEPT ![r] = AddLive(regs[r], s, c)]
        PROVE  MarkedOffline'
    BY <1>0, <2>1, <2>2, LiveMarks, MarksOfOne
  <2>3. CASE regs' = [regs EXCEPT ![r] = AddCached(regs[r], s)]
    BY <1>0, <2>1, <2>3, CachedMarks, MarksOfOne
  <2>4. CASE regs' = [regs EXCEPT ![r] = AddFailed(regs[r], s)]
    <3>1. AddFailed(regs[r], s).marked \subseteq AddFailed(regs[r], s).offline
      BY <1>0, <2>1 DEF AddFailed, RegistryValue
    <3> HIDE DEF r
    <3>2. QED BY <2>1, <2>4, <3>1, MarksOfOne
  <2>5. CASE regs' = [regs EXCEPT ![r] = AddEmpty(regs[r], s)]
    <3>1. AddEmpty(regs[r], s).marked \subseteq AddEmpty(regs[r], s).offline
      BY <1>0, <2>1 DEF AddEmpty, RegistryValue
    <3> HIDE DEF r
    <3>2. QED BY <2>1, <2>5, <3>1, MarksOfOne
  <2>6. QED
    BY <1>2, <2>2, <2>3, <2>4, <2>5 DEF BuildServer, FetchLive, FetchEmpty, FetchFailed
<1>3. ASSUME NEW r \in RegIds, NEW s \in Servers, NEW c \in ClientIds, Reconnect(r, s, c)
      PROVE  MarkedOffline'
  BY <1>0, <1>3, LiveMarks, MarksOfOne DEF Reconnect
<1>4. ASSUME NEW r \in RegIds, NEW s \in Servers, LoopStrip(r, s) PROVE MarkedOffline'
  BY <1>0, <1>4, CachedMarks, MarksOfOne DEF LoopStrip
<1>5. ASSUME NEW e \in Calls, ExecuteReconnect(e) PROVE MarkedOffline'
  BY <1>3, <1>5, CallTypes DEF ExecuteReconnect
<1>6. ASSUME NEW r \in RegIds, RetryExit(r) PROVE MarkedOffline'
  BY <1>6 DEF RetryExit, NewRegistry, MarkedOffline
<1>7. CASE MainStep
  BY <1>1, <1>7, MarksOfBuild DEF MainStep, MainServe, MainBootstrap, SetRegistry
<1>8. ASSUME NEW t \in Rpcs, RpcStep(t) PROVE MarkedOffline'
  BY <1>1, <1>8, MarksOfBuild DEF RpcStep, ConfigureBegin, ConfigureInstall, RefreshBegin,
     RefreshInstall, RefreshDiscard, RefreshRelease
<1>9. ASSUME NEW e \in Calls, ExecuteStep(e) PROVE MarkedOffline'
  BY <1>1, <1>5, <1>9 DEF ExecuteStep, ExecuteBegin, ExecuteLookup, ExecuteReturn
<1>10. ASSUME NEW r \in RegIds, LoopStep(r) PROVE MarkedOffline'
  BY <1>1, <1>3, <1>4, <1>6, <1>10 DEF LoopStep, LoopReconnect, RetryFetch
<1>11. CASE UNCHANGED vars
  BY <1>1, <1>11 DEF vars
<1>12. QED
  BY <1>1, <1>2, <1>7, <1>8, <1>9, <1>10, <1>11 DEF Next, GraceClose, ServerDrops

-----------------------------------------------------------------------------
(***************************************************************************)
(* What the mapping sees of a step.                                        *)
(***************************************************************************)

\* Reconnected only writes a client.
LEMMA ReconnectedCaps ==
  ASSUME NEW reg \in RegistryValue, NEW s \in Servers, NEW c \in ClientIds
  PROVE  SameCaps(Reconnected(reg, s, c), reg) /\ SameRequest(Reconnected(reg, s, c), reg)
BY DEF SameCaps, SameRequest, Reconnected, RegistryValue

\* AddLive does not change what the store knows of a build.
LEMMA LiveRequest ==
  ASSUME NEW reg \in RegistryValue, NEW s \in Servers, NEW c \in ClientIds
  PROVE  SameRequest(AddLive(reg, s, c), reg)
BY DEF SameRequest, AddLive, RegistryValue

\* Neither do the operations that record or unmark an offline server.
LEMMA OfflineRequest ==
  ASSUME NEW reg \in RegistryValue, NEW s \in Servers
  PROVE  /\ SameRequest(AddCached(reg, s), reg)
         /\ SameRequest(AddFailed(reg, s), reg)
         /\ SameRequest(StripOffline(reg, s), reg)
BY DEF SameRequest, AddCached, AddFailed, StripOffline, RegistryValue

\* The view stays while the registry in use announces the same.
LEMMA ViewFrame ==
  ASSUME registry' = registry, registry # NilReg => SameCaps(regs'[registry], regs[registry])
  PROVE  view' = view
BY DEF view, CapsSnapshot, SameCaps

\* The requests stay while the jobs do, and the configurations and empty servers of theirs.
LEMMA RequestFrame ==
  ASSUME \A t \in Builders :
           /\ job'[t].step = "build" <=> job[t].step = "build"
           /\ job[t].step = "build" =>
                /\ job'[t].kind = job[t].kind
                /\ SameRequest(regs'[job'[t].reg], regs[job[t].reg])
  PROVE  request' = request
BY DEF request, SameRequest

\* The beginning of a build asks the store, and shows nothing.
LEMMA BeginAsks ==
  ASSUME TypeOK, OneOwner, NEW t \in Builders, NEW kind, NEW cfg \in SUBSET Servers,
         BuildBegin(t, kind, cfg), registry' = registry, serverCfgs' = serverCfgs
  PROVE  Store!Ask(t, IF kind = "refresh" THEN "refresh" ELSE "configure", cfg)
<1>1. PICK r \in RegIds :
        /\ r \notin Used
        /\ regs' = [regs EXCEPT ![r] = NewRegistry(cfg)]
        /\ job' = [job EXCEPT ![t] = BuildJob(kind, r, cfg)]
  BY DEF BuildBegin, FreshReg
<1>2. job[t].step = "idle"
  BY DEF BuildBegin
<1>3. /\ regs'[r].cfg = cfg /\ regs'[r].empty = {}
      /\ \A q \in RegIds \ {r} : regs'[q] = regs[q]
  BY <1>1 DEF TypeOK, NewRegistry
<1>4. registry # r /\ \A u \in Builders : job[u].step = "build" => job[u].reg \in RegIds \ {r}
  BY <1>1, JobTypes DEF OneOwner, RegIds, NilReg
<1>5. view' = view
  <2>1. registry # NilReg => regs'[registry] = regs[registry]
    BY <1>3, <1>4 DEF TypeOK
  <2>2. QED BY <2>1, ViewFrame DEF SameCaps
<1>6. request[t] = [kind |-> "none", cfg |-> {}, empty |-> {}]
  BY <1>2 DEF request
<1>7. job'[t] = BuildJob(kind, r, cfg) /\ \A u \in Builders \ {t} : job'[u] = job[u]
  BY <1>1 DEF TypeOK
<1>8. request' = [request EXCEPT ![t] =
                    [kind |-> IF kind = "refresh" THEN "refresh" ELSE "configure",
                     cfg |-> cfg, empty |-> {}]]
  <2> DEFINE asked == [kind |-> IF kind = "refresh" THEN "refresh" ELSE "configure",
                       cfg |-> cfg, empty |-> {}]
  <2>1. request'[t] = asked
    <3>1. /\ job'[t].step = "build" /\ job'[t].kind = kind /\ job'[t].reg = r
      BY <1>7 DEF BuildJob
    <3>2. /\ regs'[job'[t].reg].cfg = cfg /\ regs'[job'[t].reg].empty = {}
      BY <1>3, <3>1
    <3>3. request'[t] = [kind  |-> IF job'[t].kind = "refresh" THEN "refresh" ELSE "configure",
                         cfg   |-> regs'[job'[t].reg].cfg,
                         empty |-> regs'[job'[t].reg].empty]
      BY <3>1 DEF request
    <3>4. QED BY <3>1, <3>2, <3>3
  <2>2. ASSUME NEW u \in Builders \ {t} PROVE request'[u] = request[u]
    <3>1. job'[u] = job[u] /\ (job[u].step = "build" => regs'[job[u].reg] = regs[job[u].reg])
      BY <1>3, <1>4, <1>7
    <3>2. QED BY <3>1 DEF request
  <2>3. request = [u \in Builders |-> request[u]] /\ request' = [u \in Builders |-> request'[u]]
    BY DEF request
  <2> HIDE DEF asked
  <2>4. QED BY <2>1, <2>2, <2>3 DEF asked
<1>9. QED BY <1>5, <1>6, <1>8 DEF Store!Ask, Store!NoRequest

\* The end of a build ends the request.
LEMMA EndAnswers ==
  ASSUME TypeOK, NEW t \in Builders, NEW j, j.step # "build",
         job' = [job EXCEPT ![t] = j], regs' = regs
  PROVE  Store!Done(t)
BY DEF request, TypeOK, Store!Done, Store!NoRequest

\* What the store knows of a build under way.
LEMMA RequestOfBuild ==
  ASSUME TypeOK, NEW t \in Builders, NEW kind, Built(t, kind)
  PROVE  /\ job[t].reg \in RegIds
         /\ request[t].kind = IF kind = "refresh" THEN "refresh" ELSE "configure"
         /\ request[t].cfg = regs[job[t].reg].cfg
         /\ request[t].empty = regs[job[t].reg].empty
BY JobTypes DEF Built, request

\* A build that has asked every server, and how: it has entries for a server of its
\* configuration unless that server failed or is empty.
LEMMA BuiltOutcomes ==
  ASSUME TypeOK, Accounted, NEW t \in Builders, NEW kind, Built(t, kind)
  PROVE  LET reg == regs[job[t].reg] IN
         /\ reg.actions \cup reg.failed = reg.cfg \ reg.empty
<1>1. job[t].step = "build" /\ job[t].todo = {}
  BY DEF Built
<1>2. job[t].reg \in RegIds /\ regs[job[t].reg] \in RegistryValue
  BY <1>1, JobTypes DEF TypeOK
<1>3. Split(regs[job[t].reg], {})
  BY <1>1 DEF Accounted
<1>4. QED BY <1>2, <1>3 DEF Split, RegistryValue

\* A configuration's registry shows servers of that configuration that have tools only.
LEMMA ConfiguredView ==
  ASSUME NEW r \in RegIds, registry' = r, regs' = regs,
         regs[r].actions \cup regs[r].failed = regs[r].cfg \ regs[r].empty
  PROVE  /\ view' \in [Servers -> Store!Announcements]
         /\ \A s \in Servers \ (regs[r].cfg \ regs[r].empty) : view'[s] = "absent"
<1>1. view' = CapsSnapshot(regs[r])
  BY DEF view, RegIds, NilReg
<1>2. QED BY <1>1 DEF CapsSnapshot, Store!Announcements

\* A registry that is not degraded shows every server of its configuration live, but those
\* that said they have no tools.
LEMMA RefreshedView ==
  ASSUME MarkedOffline, NEW r \in RegIds, ~Degraded(regs[r]), registry' = r, regs' = regs,
         regs[r].actions \cup regs[r].failed = regs[r].cfg \ regs[r].empty
  PROVE  view' = [s \in Servers |->
                    IF s \in regs[r].cfg \ regs[r].empty THEN "live" ELSE "absent"]
<1>1. view' = CapsSnapshot(regs[r])
  BY DEF view, RegIds, NilReg
<1>2. regs[r].failed = {} /\ regs[r].marked = {}
  BY DEF Degraded, MarkedOffline
<1>3. QED BY <1>1, <1>2 DEF CapsSnapshot

-----------------------------------------------------------------------------
(***************************************************************************)
(* The refinement.                                                         *)
(***************************************************************************)

\* The store's variables under the mapping.
storevars == <<view, serverCfgs, request>>

\* Every step of the plugin is a step of the store or changes nothing it knows.
LEMMA StoreStep ==
  TypeOK /\ OneOwner /\ Accounted /\ MarkedOffline /\ [Next]_vars => [Store!Next]_storevars
<1> SUFFICES ASSUME TypeOK, OneOwner, Accounted, MarkedOffline, [Next]_vars
             PROVE  [Store!Next]_storevars
  OBVIOUS
<1> USE DEF hvars, loopvars
<1>0. Main \in Builders /\ Rpcs \subseteq Builders
  BY DEF Builders
<1>1. CASE UNCHANGED <<registry, serverCfgs, regs, job>>
  BY <1>1 DEF storevars, view, request
<1>2. ASSUME NEW cfg \in BootConfigs, MainBootstrap(cfg) PROVE Store!Next
  <2>1. Store!Ask(Main, "configure", cfg)
    BY <1>0, <1>2, BeginAsks, ConfigsAssumption DEF MainBootstrap
  <2>2. QED BY <1>0, <2>1 DEF Store!Next, Store!AskConfigure
<1>3. CASE SetRegistry
  <2>1. Store!Done(Main)
    BY <1>0, <1>3, EndAnswers DEF SetRegistry, Idle
  <2>2. /\ job[Main].reg \in RegIds
        /\ request[Main].kind = "configure" /\ request[Main].cfg = regs[job[Main].reg].cfg
        /\ request[Main].empty = regs[job[Main].reg].empty
    BY <1>0, <1>3, RequestOfBuild DEF SetRegistry
  <2>3. /\ view' \in [Servers -> Store!Announcements]
        /\ \A s \in Servers \ (regs[job[Main].reg].cfg \ regs[job[Main].reg].empty) :
             view'[s] = "absent"
    BY <1>0, <1>3, <2>2, BuiltOutcomes, ConfiguredView DEF SetRegistry
  <2>4. Store!Configured(Main)
    BY <1>3, <2>1, <2>2, <2>3 DEF SetRegistry, Store!Configured
  <2>5. QED BY <1>0, <2>4 DEF Store!Next
<1>4. ASSUME NEW t \in Builders, NEW s \in Servers, BuildServer(t, s)
      PROVE  [Store!Next]_storevars
  <2> DEFINE r == job[t].reg
  <2>1. /\ r \in RegIds /\ r # NilReg /\ r # registry /\ regs[r] \in RegistryValue
        /\ regs \in [RegIds -> RegistryValue] /\ job[t].step = "build"
        /\ \A u \in Builders \ {t} : job[u].reg # r
    BY <1>4, JobTypes DEF BuildServer, TypeOK, OneOwner, Building, RegIds, NilReg
  <2>2. /\ UNCHANGED <<registry, serverCfgs>>
        /\ job'[t] = BuildJob(job[t].kind, r, job[t].todo \ {s})
        /\ \A u \in Builders \ {t} : job'[u] = job[u]
    BY <1>4 DEF BuildServer, TypeOK
  <2>3. /\ \A q \in RegIds \ {r} : regs'[q] = regs[q]
        /\ \/ SameRequest(regs'[r], regs[r])
           \/ regs'[r] = AddEmpty(regs[r], s)
    <3>1. CASE FetchLive(r, s)
      BY <2>1, <3>1, LiveRequest DEF FetchLive
    <3>2. CASE FetchEmpty(r, s)
      BY <2>1, <3>2 DEF FetchEmpty
    <3>3. CASE FetchFailed(r, s)
      BY <2>1, <3>3, OfflineRequest DEF FetchFailed
    <3>4. QED BY <1>4, <3>1, <3>2, <3>3 DEF BuildServer
  <2>4. view' = view
    <3>1. registry # NilReg => regs'[registry] = regs[registry]
      BY <2>1, <2>3 DEF TypeOK
    <3>2. QED BY <2>2, <3>1, ViewFrame DEF SameCaps
  <2>5. ASSUME NEW u \in Builders \ {t} PROVE request'[u] = request[u]
    <3>1. job'[u] = job[u] /\ (job[u].step = "build" => regs'[job[u].reg] = regs[job[u].reg])
      BY <2>1, <2>2, <2>3, JobTypes
    <3>2. QED BY <3>1 DEF request
  <2>6. CASE SameRequest(regs'[r], regs[r])
    <3>1. request'[t] = request[t]
      BY <2>1, <2>2, <2>6 DEF request, BuildJob, SameRequest
    <3>2. request' = request
      BY <2>5, <3>1 DEF request
    <3>3. QED BY <2>2, <2>4, <3>2 DEF storevars
  <2>7. CASE regs'[r] = AddEmpty(regs[r], s)
    <3>1. request[t].empty = regs[r].empty /\ request[t].cfg = regs[r].cfg
      BY <2>1 DEF request
    <3>2. s \in request[t].cfg
      BY <1>4, <2>1, <3>1 DEF Accounted, Split, BuildServer
    <3>3. regs'[r].cfg = regs[r].cfg /\ regs'[r].empty = regs[r].empty \cup {s}
      BY <2>1, <2>7 DEF AddEmpty, RegistryValue
    <3>4. request'[t] = [request[t] EXCEPT !.empty = request[t].empty \cup {s}]
      <4> DEFINE how == IF job[t].kind = "refresh" THEN "refresh" ELSE "configure"
      <4>1. job'[t].step = "build" /\ job'[t].kind = job[t].kind /\ job'[t].reg = r
        BY <2>2 DEF BuildJob
      <4>2. request'[t] = [kind |-> how, cfg |-> regs'[r].cfg, empty |-> regs'[r].empty]
        BY <4>1 DEF request
      <4>3. request[t] = [kind |-> how, cfg |-> regs[r].cfg, empty |-> regs[r].empty]
        BY <2>1 DEF request
      <4> HIDE DEF how, r
      <4>4. QED BY <3>3, <4>2, <4>3
    <3>5. request' = [request EXCEPT ![t] = [request[t] EXCEPT !.empty = request[t].empty \cup {s}]]
      <4> DEFINE new == [request[t] EXCEPT !.empty = request[t].empty \cup {s}]
      <4>1. /\ request = [u \in Builders |-> request[u]]
            /\ request' = [u \in Builders |-> request'[u]]
        BY DEF request
      <4> HIDE DEF new
      <4>2. QED BY <2>5, <3>4, <4>1 DEF new
    <3>6. Store!Emptied(t)
      BY <2>2, <2>4, <3>2, <3>5 DEF Store!Emptied
    <3>7. QED BY <3>6 DEF Store!Next
  <2>8. QED BY <2>3, <2>6, <2>7
<1>5. ASSUME NEW t \in Rpcs, NEW cfg \in Configs, ConfigureBegin(t, cfg) PROVE Store!Next
  <2>1. Store!Ask(t, "configure", cfg)
    BY <1>0, <1>5, BeginAsks, ConfigsAssumption DEF ConfigureBegin
  <2>2. QED BY <1>0, <2>1 DEF Store!Next, Store!AskConfigure
<1>6. ASSUME NEW t \in Rpcs, ConfigureInstall(t) PROVE Store!Next
  <2>1. Store!Done(t)
    BY <1>0, <1>6, EndAnswers DEF ConfigureInstall, Idle
  <2>2. /\ job[t].reg \in RegIds
        /\ request[t].kind = "configure" /\ request[t].cfg = regs[job[t].reg].cfg
        /\ request[t].empty = regs[job[t].reg].empty
    BY <1>0, <1>6, RequestOfBuild DEF ConfigureInstall
  <2>3. /\ view' \in [Servers -> Store!Announcements]
        /\ \A s \in Servers \ (regs[job[t].reg].cfg \ regs[job[t].reg].empty) :
             view'[s] = "absent"
    BY <1>0, <1>6, <2>2, BuiltOutcomes, ConfiguredView DEF ConfigureInstall, Install
  <2>4. Store!Configured(t)
    BY <1>6, <2>1, <2>2, <2>3 DEF ConfigureInstall, Store!Configured
  <2>5. QED BY <1>0, <2>4 DEF Store!Next
<1>7. ASSUME NEW t \in Rpcs, RefreshBegin(t) PROVE Store!Next
  <2>1. Store!Ask(t, "refresh", serverCfgs) /\ serverCfgs # {}
    BY <1>0, <1>7, BeginAsks DEF RefreshBegin, TypeOK
  <2>2. QED BY <1>0, <2>1 DEF Store!Next, Store!AskRefresh
<1>8. ASSUME NEW t \in Rpcs, RefreshInstall(t) PROVE Store!Next
  <2>1. Store!Done(t)
    BY <1>0, <1>8, EndAnswers DEF RefreshInstall, Released
  <2>2. /\ job[t].reg \in RegIds
        /\ request[t].kind = "refresh" /\ request[t].cfg = regs[job[t].reg].cfg
        /\ request[t].empty = regs[job[t].reg].empty
    BY <1>0, <1>8, RequestOfBuild DEF RefreshInstall
  <2>3. view' = [s \in Servers |->
                   IF s \in regs[job[t].reg].cfg \ regs[job[t].reg].empty
                   THEN "live" ELSE "absent"]
    BY <1>0, <1>8, <2>2, BuiltOutcomes, RefreshedView DEF RefreshInstall, Install
  <2>4. Store!Refreshed(t)
    BY <1>8, <2>1, <2>2, <2>3 DEF RefreshInstall, Store!Refreshed
  <2>5. QED BY <1>0, <2>4 DEF Store!Next
<1>9. ASSUME NEW t \in Rpcs, RefreshDiscard(t) PROVE Store!Next
  <2>1. Store!Done(t)
    BY <1>0, <1>9, EndAnswers DEF RefreshDiscard, Released
  <2>2. view' = view
    BY <1>9, ViewFrame DEF RefreshDiscard, SameCaps
  <2>3. request[t].kind = "refresh"
    BY <1>0, <1>9, RequestOfBuild DEF RefreshDiscard
  <2>4. Store!Kept(t)
    BY <1>9, <2>1, <2>2, <2>3 DEF RefreshDiscard, Store!Kept
  <2>5. QED BY <1>0, <2>4 DEF Store!Next
<1>10. ASSUME NEW t \in Rpcs, RefreshRelease(t) PROVE UNCHANGED storevars
  <2>1. request' = request
    BY <1>0, <1>10, RequestFrame DEF RefreshRelease, Idle, TypeOK, SameRequest
  <2>2. view' = view
    BY <1>10, ViewFrame DEF RefreshRelease, SameCaps
  <2>3. QED BY <1>10, <2>1, <2>2 DEF RefreshRelease, storevars
<1>11. ASSUME NEW r \in RegIds, NEW s \in Servers, NEW c \in ClientIds, Reconnect(r, s, c),
              UNCHANGED <<hvars, job>>
       PROVE  UNCHANGED storevars
  <2>1. \A q \in RegIds : SameCaps(regs'[q], regs[q]) /\ SameRequest(regs'[q], regs[q])
    BY <1>11, ReconnectedCaps DEF Reconnect, TypeOK, SameCaps, SameRequest
  <2>2. view' = view
    BY <1>11, <2>1, ViewFrame DEF TypeOK
  <2>3. request' = request
    BY <1>11, <2>1, JobTypes, RequestFrame
  <2>4. QED BY <1>11, <2>2, <2>3 DEF storevars
<1>12. ASSUME NEW r \in RegIds, NEW s \in Servers, LoopStrip(r, s) PROVE [Store!Next]_storevars
  <2>1. regs' = [regs EXCEPT ![r] = StripOffline(regs[r], s)] /\ UNCHANGED <<registry, serverCfgs, job>>
    BY <1>12 DEF LoopStrip
  <2>2. \A q \in RegIds : SameRequest(regs'[q], regs[q])
    BY <2>1, OfflineRequest DEF TypeOK, SameRequest
  <2>3. request' = request
    BY <2>1, <2>2, JobTypes, RequestFrame
  <2>4. CASE registry # r
    BY <2>1, <2>3, <2>4, ViewFrame DEF SameCaps, TypeOK, storevars
  <2>5. CASE registry = r
    <3> DEFINE back == {u \in Servers : view[u] = "offline" /\ u \in NamePrefixed(s)}
    <3>1. /\ view = CapsSnapshot(regs[r])
          /\ view' = CapsSnapshot(StripOffline(regs[r], s))
      BY <2>1, <2>5 DEF view, RegIds, NilReg, TypeOK
    <3>2. view' = [u \in Servers |-> IF u \in back THEN "live" ELSE view[u]]
      BY <3>1 DEF CapsSnapshot, StripOffline, TypeOK, RegistryValue
    <3>3. back \in SUBSET {u \in Servers : view[u] = "offline"}
      OBVIOUS
    <3>4. Store!Recovered
      BY <2>1, <2>3, <3>2, <3>3 DEF Store!Recovered
    <3>5. QED BY <3>4 DEF Store!Next
  <2>6. QED BY <2>4, <2>5
<1>13. ASSUME NEW r \in RegIds, RetryExit(r) PROVE Store!Next
  <2>1. view' = [s \in Servers |-> "absent"]
    BY <1>13 DEF RetryExit, view
  <2>2. request' = [t \in Builders |-> [kind |-> "none", cfg |-> {}, empty |-> {}]]
    BY <1>13 DEF RetryExit, request, Idle
  <2>3. Store!Restarted
    BY <1>13, <2>1, <2>2 DEF RetryExit, Store!Restarted, Store!NoView, Store!NoRequest
  <2>4. QED BY <2>3 DEF Store!Next
<1>14. CASE MainStep
  BY <1>1, <1>2, <1>3, <1>14 DEF MainStep, MainServe
<1>15. ASSUME NEW t \in Rpcs, RpcStep(t) PROVE [Store!Next]_storevars
  BY <1>5, <1>6, <1>7, <1>8, <1>9, <1>10, <1>15 DEF RpcStep
<1>16. ASSUME NEW e \in Calls, ExecuteStep(e) PROVE [Store!Next]_storevars
  <2>1. CASE ExecuteReconnect(e)
    BY <1>11, <2>1, CallTypes DEF ExecuteReconnect
  <2>2. QED BY <1>1, <1>16, <2>1 DEF ExecuteStep, ExecuteBegin, ExecuteLookup, ExecuteReturn
<1>17. ASSUME NEW r \in RegIds, LoopStep(r) PROVE [Store!Next]_storevars
  BY <1>1, <1>11, <1>12, <1>13, <1>17 DEF LoopStep, LoopReconnect, RetryFetch
<1>18. ASSUME NEW r \in RegIds, GraceClose(r) PROVE UNCHANGED storevars
  BY <1>1, <1>18 DEF GraceClose, storevars, view, request
<1>19. CASE UNCHANGED vars
  BY <1>1, <1>19 DEF vars
<1>20. QED
  BY <1>1, <1>4, <1>14, <1>15, <1>16, <1>17, <1>18, <1>19 DEF Next, ServerDrops

\* main starts as the store does.
LEMMA StoreInit == Init => Store!Init
BY DEF Init, Store!Init, Store!NoView, Store!NoRequest, view, request, Idle

\* The host never sees capabilities change except as the capability store allows,
\* whatever Configure, refreshes, background loops, calls and restarts overlap.
THEOREM StoreImplemented == Spec => ImplementsStore
<1>1. Init => MarkedOffline
  BY DEF Init, MarkedOffline, NewRegistry
<1>2. OwnerInv /\ MarkedOffline /\ [Next]_vars => MarkedOffline'
  BY MarkedOfflineStep DEF OwnerInv
<1>3. OwnerInv /\ Accounted /\ MarkedOffline /\ [Next]_vars
        => [Store!Next]_<<view, serverCfgs, request>>
  BY StoreStep DEF OwnerInv, storevars
<1>4. QED
  BY <1>1, <1>2, <1>3, OwnerInvariant, BuildsAccounted, StoreInit, PTL DEF Spec, ImplementsStore, Store!Spec
=============================================================================
