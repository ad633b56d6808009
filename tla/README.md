# mcp-plugin: models and proofs

`mcp-plugin` is an OpenTalon plugin that bridges to MCP servers. The host asks it for its
capabilities and to run tools; the plugin keeps connections to the servers, announces their
tools, and routes calls to them. This directory holds TLA+ models of the parts of it in
which several goroutines, the servers, the file system and the process's own restarts meet,
and of what a tool call makes of its arguments and headers; TLC configurations that check
them on small instances; and TLAPS proofs of what matters most for any number of servers,
registries, clients and goroutines.

Line numbers refer to the repository's files; `PROJECT.json` maps every definition to the
lines it stands for.

## 1. Inventory

| component | source | state | operations |
|---|---|---|---|
| process start | `main.go` | environment, `Handler` | bootstrap from `OPENTALON_MCP_SERVERS`, serve |
| Handler | `plugin/handler.go` 1-314 | `registry`, `serverCfgs`, `refreshing` under `mu` | `SetRegistry`, `Configure`, `Capabilities`, `RefreshCapabilities`, `graceCloseRegistry`, `Execute` |
| argument conversion | `plugin/handler.go` 316-532 | none | `resolveToolNameArgs`, `convertArgs`, `coerce`, `sanitizeIncludeFields` |
| Registry | `plugin/registry.go` | `actions`, `caps` under `mu`; `failedServers`, `offlineServers` fixed by `Build` | `Build`, `reconnect`, `capsSnapshot`, `Close`, `StartBackgroundRetry`, `retryLoop`, `reconnectOfflineLoop` |
| tool cache | `plugin/registry.go` 203-250 | one file for each server in `OPENTALON_MCP_CACHE_DIR`; survives the process | `saveCache`, `loadCache` |
| MCP client | `mcp/client.go` | `tp`, `idCounter`, what `initialize` returned | `Connect`, `FallbackSSE`, `ListTools`, `CallTool`, `IsAlive`, `Close` |
| SSE transport | `mcp/sse.go` | `pending` under `mu`, a channel of capacity 1 for each id, `endpointCh`, `endpointOnce`, a context | `connect`, `roundTrip`, `notify`, `readLoop`, `handleEvent`, `dispatch`, `close` |
| Streamable HTTP transport | `mcp/streamable.go` | `sessionID`, a context | `roundTrip`, `notify`, `close` |
| wire types | `mcp/types.go` | none | JSON decoding |
| configuration | `config/config.go` | none | `Parse`, `Load`, `CacheDir` |

**How they interact.** Every host RPC runs in a goroutine of its own. `Configure` and
`RefreshCapabilities` build a private `Registry` (network exchanges with every server, one
after the other), then swap the pointer `Handler.registry` under `Handler.mu`; the registry
that was replaced is closed 70 s later by a goroutine of its own. `Execute` loads the pointer,
then copies the entry, then uses the entry's client, with no lock held in between; while it
prepares the arguments it loads the pointer a second time. A configured registry gets up to
two background loops: `reconnectOfflineLoop` reconnects the servers whose tools came from the
cache and updates the registry in place; `retryLoop` waits for the servers that had no cache
and exits the process when all have answered, so that the manager starts it again. The cache
directory is what carries over; builds and loops read and write it without a lock. A client
tries Streamable HTTP twice, then SSE, and falls back to SSE again if the server cannot list
its tools; then it is shared by concurrent calls. Each SSE connection has one reading
goroutine that hands responses to the round trips waiting for them.

**What is hard.** RPCs that overlap with each other's builds; state read before a build,
an exchange or an unlock and used after it; a reconnect that ends after its registry was
retired; partial failure, one server of several being down, one transport of several; an exit
of the whole process in the middle of anything, a half-written file included; on a connection,
responses before the POST returns, after the caller left, repeated, or never; a session id
that concurrent requests read and write; waits without a deadline; one delay that must outlast
another.

**What makes each component correct.**

- Handler: every registry has one owner and is retired once; one refresh at a time, and the
  flag never stays behind; the registry in use is the one of the last configuration; a call
  keeps its connection until its registry is closed; every refresh ends; every registry that
  was built is in use or closed in the end, and stays closed; a call whose timer runs at the
  swap ends before that.
- Registry: tools announced without `[offline]` have a connection; a server that is down
  never makes tools disappear in a refresh; a build accounts for every server.
- Argument conversion and `Execute`: a name reaches the server as the raw name of the one
  tool it names; context arguments become headers and never arguments; headers have ranks.
- Tool cache: a load returns tools of its own server, complete, or nothing.
- MCP client: a connection that was given up is closed; whoever uses the client finds a
  transport; ids tell answers apart; the session is kept.
- SSE transport: a caller gets the response to its own request or an error; no response is
  lost while its caller waits; the reader never waits for a caller; a round trip whose POST
  is answered ends; the reader ends with its connection.

`PROJECT.json` lists each hazard at its line with the properties about it.

## 2. Plan

In this order, the most important behaviour first. All of it is done.

1. `Registry` (values and pure operations), `Handler` (the state machine over many
   registries), `CapabilityStore` (what the host may see; `Handler` implements it),
   `HandlerProofs`, `HandlerStoreProofs` (that it does).
2. `SSEConn`, one connection; `RoundTrips` (what its callers are promised; `SSEConn`
   implements it); `SSEConnProofs`.
3. `Client`, which `Handler` has as one exchange and one identity: `Connect`, both transports,
   `FallbackSSE`, the calls that share it; `ClientProofs`.
4. `Cache`, which `Handler` has as the set `cached`: writes in place by several goroutines,
   an exit in the middle, file names that coincide; `CacheProofs`.
5. `Args`, the conversions as operators, and `ToolCall`, one call that uses them while the
   registry is replaced; `ArgsProofs` (what the operators compute) and `ToolCallProofs`.
6. `Grace`, the 70 s grace delay against a call that sets its timer late; `GraceProofs`.

`Handler` is the composition: its clients are those of `Client` (open, dropped, closed), whose
`sse` transport is an `SSEConn` (open or not); its `cached` are the files of `Cache` that a
load makes something of. Left for later: the three of them in one state space, and the
companions of a tool.

## 3. The modules and the code

**`Registry`** is one value of the Go type. All tools of one server share one client in every
state, because `Build` and `reconnect` write the same client to each, so a registry keeps one
entry for a server. Server lists are sets: a configuration that lists a name twice
is not represented. `marked` holds the servers announced with `[offline]`. The loop over tools
matches actions to their server by a name prefix, so `Nested` says which servers' action names
begin with another's prefix: with servers `a` and `a__b` it holds `<<a, a__b>>`.
`CapsSnapshot` shows what has entries, as `caps.Actions` does: a server that answered with an
empty list is absent, like one that failed. The field `empty` records which answered so
(`AddEmpty`); no guard reads it.

**`Handler`** has the variables of the Go struct under their names, `regs` for the heap of
registries, `job` and `call` for the local state of the RPC goroutines, and the local
variables of the background loops. A step is a critical section, or a network exchange with
the private state it fills:

| code | actions |
|---|---|
| `main` | `MainServe`, `MainBootstrap`, `SetRegistry` |
| `Build` | `BuildBegin` (inside its callers), `BuildServer` = `FetchLive`, `FetchEmpty` or `FetchFailed` |
| `Configure` | `ConfigureBegin`, `ConfigureInstall` |
| `RefreshCapabilities` | `RefreshBegin`, `RefreshInstall` or `RefreshDiscard`, `RefreshRelease` (the deferred function) |
| `graceCloseRegistry` | `GraceClose` |
| `Execute` | `ExecuteBegin`, `ExecuteLookup`, `ExecuteReconnect`, `ExecuteReturn` |
| `reconnectOfflineLoop` | `LoopReconnect`, `LoopStrip` |
| `retryLoop` | `RetryFetch`, `RetryExit` (the process starts again from `Init`, keeping `cached`) |
| `readLoop` at the end of a stream | `ServerDrops` |

Early returns that change nothing (no servers in the configuration, a coalesced refresh) are
not steps. Whether a server answers is chosen at each exchange. `SaveCache` may also fail, and
then may leave a file that cannot be read.

**`CapabilityStore`** knows only what the host sees of each server (absent, offline, live), the
configuration a refresh replays, and the requests not yet granted. A configuration takes
effect in one step and shows no server outside it. Servers may say, while a request is being
carried out, that they have no tools (`Emptied`); a refresh shows every other server of its
configuration live, or it changes nothing. Servers shown offline may come back; the process may
exit. Under the mapping `view`, `request` and `config <- serverCfgs`, every step of `Handler`
is a step of the store or none.

**`SSEConn`** is `sse.go` with the server: `GetOK` to `EndpointCancelled` are `connect`;
`Subscribe` to `Unsubscribe` are one `roundTrip`, the POST being two steps (it arrives, it is
accepted) because the response may come in between; `Read`, `Send` and `StreamEnds` are
`readLoop`, where `Send` is apart from `Read` since `dispatch` sends after it released the
lock. The server's steps are external: it answers each request it received at most once, and
may send `Extras` further events: endpoints, responses repeated, requests of its own. `spent`
records which, so that a property can say "as long as the server sent none".

**`RoundTrips`** knows only how each round trip stands for its caller (`trip`), which were
answered, and whether the server sends requests of its own (`foreign`): a caller asks once,
after the handshake has returned, and ends with the server's answer to its own request or
with an error; it may end misled only if the server sent a request. The mapping reads `trip`
from `call` and `outcome`, with `foreign <- ~NoRequests`; a response to another round trip
would map to a value that no step of `RoundTrips` produces.

**`Client`** is one `mcp.Client` from `NewClient` to the last call. Its opener is `fetchTools`,
for `Build` or for `retryLoop`, or `reconnect`; until the client is handed over the opener is
alone with it.

| code | actions |
|---|---|
| `Connect`, `connectStreamable`, `initialize` | `TryHttp`, `HttpInitFailed`, `InitOK`, `Notified` |
| `connectSSE` | `ConnectSSE`, `SSEFailed`, `SSEInitFailed` |
| `fetchTools`, `ListTools`, `FallbackSSE` | `ListTools`, `ListOK`, `ListFailed`, `FallbackSSE` |
| `CallTool`, `roundTrip` of `streamable.go` | `CallTool`, `Answered`, `Stored`, `CallFailed` |
| `Client.Close`, the end of an event stream | `Close`, `StreamEnds` |

`nextID` is inside `Send`. `sessionID` has no lock: an answer and the store of its session id
are two steps, and a read during the store of a different string may return the old one, the
new one or a mixture (`Torn`), as may what two stores leave. `greeting` and `rotated` record
what the server sent, for `SessionKept`.

**`Cache`** has a file as the sequence of the cells written to it, each the piece of a list.
`os.WriteFile` is `OpenFile` (with the truncation), one `Write` for each cell at the saver's
own offset, so that one that goes on after another's truncation leaves a hole, and `SaveOK` or
`SaveFailed`. `loadCache` is `OpenToLoad`, `Read` and `ReadEnd`; `Unmarshal` rejects what is
cut short or too long, and may take pieces of several lists that fit together. `Restart` ends
every goroutine where it is. `cacheFile` maps names that differ in separators only to one
file. `saved`, `crossed` and the field `quiet` of a load record what happened, for the
properties; no guard reads them.

**`Args`** has the conversions as operators with the names of the functions. A text is the
sequence of its segments between `__`, since joining with `__` and cutting off the first
segment are all that is done to names; what `ParseFloat`, `ParseInt`, `ParseBool` and
`json.Unmarshal` make of a text is given by constants, of which only `JsonArrays` is assumed:
an array that was decoded is a list. The loops of `sanitizeIncludeFields` and of the search
for a tool are recursive functions or choices of a position, so that they can be reasoned
about.

**`ToolCall`** is one `Execute`: `Lookup`, `Prepare` (conversion, then the names, resolved in
the registry as it is by then, then `include_fields`), `ForwardContextArg` for each turn of
the loop over `ContextHeaders`, in any order, and `CallTool` with `headerTransport`. `Swap`
replaces the registry at any time. `got` is what the server receives.
`RegistriesAreLists` assumes that a registry's tools are a list.

**`Grace`** is the swap, the closer and the timer of a call in discrete time. A call that has
loaded the registry may take any time until its timer is set, because it may reconnect first
and, over SSE, POST without a deadline.

## 4. The runs

All runs use two workers; the longest takes about two minutes. Deadlock is not checked: within
the bounds, or once every call has ended, these systems have nothing more to do.

| run | what it shows |
|---|---|
| `handler_calls` | `TypeOK`, `OneOwner`, `OneRefresh`, `CallKeepsClient`, `RefreshEnds`, `NoneForgotten`: a call against two RPCs, with dropped streams and reconnects. Three registries are the least in which one is in use, one retired and one being built; one server, since none of these properties relates two. |
| `handler_offline` | `OfflineMarked`, `ImplementsStore`, `ServesConfigInTurn` and the whole inductive invariant `IndInv`: one RPC at a time and two servers with a cache, so that one can be up and the other down, one name nested in the other's, with restarts and both loops. |
| `sse` | `TypeOK`, `ReaderNeverBlocks`, `NoCrossTalk`, `NoLostResponse`, `RoundTripEnds`, `ReaderEnds`, `ImplementsRoundTrips`: `initialize` and two round trips, and three events of any kind beyond the answers. |
| `client` | `TypeOK`, `HasTransport`, `NothingLeftOpen`, `SessionKept`, `IdsNeverReused`, `OpenerEnds`: all three openers, two callers, a server that may replace its session id. |
| `cache` | `TypeOK`, `FileIsOneSave`, `OwnTools`, `LoadsWhatWasSaved`: two savers, a loader, three servers of which two share a file, lists of different lengths. |
| `tool_call` | `TypeOK`, `ContextNeverLeaks`, `HeadersByRank`, `ContextArrives`, `ToolNamesArrive`, `IncludeFieldsValid`, `IncludeFieldsKept`: 150 requests and three registries that may replace each other at every step. |
| `grace` | `TypeOK`, `InFlightFinishes`: a call and two swaps; the unit is 10 s, so the delay is 7 and the timeout 6. |
| `stale_refresh`, `late_reconnect`, `hanging_server`, `sse_server_request`, `grace_cutoff` | each violates one property: section 6. |

Bounds. `MaxRegs` and `MaxClients` cap what one life of the process allocates (a restart gives
them back); `Extras` caps what the server sends beyond answers: one of the three is the endpoint event
of a normal connection, one more blocks the reader or misleads a caller, and one is to spare; `MaxId` is 8, of which the opener uses up to three and leaves the rest to the
two callers; `MaxNow` is 18, enough for two whole grace delays, one after the other. Two RPCs are
enough for every pair of overlapping operations, two savers for every pair of writes. The 150
requests vary one thing at a time: seven spellings of a name, each as an argument and in a
task; nine values of `include_fields` for three tools that declare it differently or not at
all; six sets of context arguments with four credentials. The proofs lift most properties to
any number.

Each property has a mutant in `PROJECT.json`: a definition changed as a plausible mistake
would change it, which makes the run fail on that property.

## 5. Fairness

`Handler!Fairness`: goroutines that can run do, and timers fire (`SetRegistry`,
`ConfigureInstall`, `RefreshInstall`, `RefreshRelease`, `GraceClose`). An exchange with a server ends, one way or
the other, for servers outside `HangingServers`: every request over Streamable HTTP has a
deadline, the SSE path only on the wait after the POST, so this assumes that the GET, the
endpoint event, the POST and the POST of `notifications/initialized` come to an end, which the
code does not enforce; `hanging_server` drops the assumption for one server. Nothing is
assumed of `Execute`, of the loops, or of servers answering well. `RetryExit` may interrupt
everything.

`SSEConn!Fairness`: the goroutines run, the round trip's timer fires, and a POST and a read of
the stream end once the context is cancelled. The server need never send anything, and nothing
is assumed of a POST before: it has no deadline (sse.go 69-76). `RoundTripEnds` therefore says
that a round trip ends *or* stays in its POST for ever, and `ReaderEnds` that the reader ends
*or* waits for ever for a caller that has returned; each names the one way in which it does
not end.

`Client!Fairness`: the opener begins the next exchange when it can, and a request of the
opener over HTTP fails at its deadline if no answer comes (`HttpInitFailed`, `FallbackSSE`).
Nothing is assumed of the callers, of the SSE GET, the endpoint event, any POST over SSE, or
the POST of a notification: `OpenerEnds` therefore says that the opener ends *or* waits for
ever in one of these.

`Cache`, `ToolCall` and `Grace` are checked for safety only and state no fairness.

## 6. Where the code differs from what it says

Each of these has a run that ends in a counterexample:

- `stale_refresh` / `ServesConfig`: `RefreshCapabilities` copies `serverCfgs`, builds, and
  swaps without looking at `serverCfgs` again (handler.go 128, 163-165). If `Configure` takes
  effect in between, the registry of the old configuration goes back in use while
  `serverCfgs` holds the new one, until a later refresh succeeds. It takes two RPCs that
  overlap: `ServesConfigInTurn` says that a host with one under way at a time never meets it.
- `late_reconnect` / `ClosedStaysClosed`: `reconnectOfflineLoop` of a replaced registry goes
  on; a connection it makes after the grace close is never closed.
- `hanging_server` / `RefreshEnds`: a server that accepts the SSE GET and then says nothing
  leaves `refreshing` set for good; the comment at handler.go 131 explains why that must not
  happen.
- `sse_server_request` / `OwnResponses`: a request that the server numbers itself is taken for
  the response with that id. This is the one way to be misled that `RoundTrips` has; another
  caller's answer is never taken.
- `grace_cutoff` / `NeverCutOff`: a call that loaded the old registry before the swap and set
  its 60 s timer 10 s or more after it, because its preparation has no deadline, is cut off by
  the closer, against the comment at handler.go 19. So can be one that has not set its timer at
  all by then; the comment speaks of the round trip under its timeout, and so does the property.

These the models have, and the properties are stated so as to allow them:

- With servers `a` and `a__b`, the return of `a` removes the `[offline]` prefix of `a__b`'s
  tools (registry.go 479); `OfflineMarked` excepts it.
- A repeated response whose caller has left blocks `readLoop` in `dispatch`, and no later
  response on the connection is delivered; `ReaderNeverBlocks` holds as long as nothing is
  sent twice, and `ReaderEnds` says that this is the only way to lose the reader.
- A client whose `ListTools` fails over SSE keeps its event stream open (registry.go 195-197),
  and `retryLoop` drops the clients it connects without closing them (412): `NothingLeftOpen`
  allows an SSE transport in the first case and anything in the second.
- Two concurrent reconnects of one server leave a client open to which nothing refers
  (registry.go 510).
- A client over Streamable HTTP stays alive for `IsAlive` though its session is gone.
- A context argument whose declared type turns it into something other than a string is
  removed and not forwarded; `ContextArrives` speaks of undeclared ones.
- A text may name two tools, as one's raw name and another's action key; `ToolNamesArrive`
  accepts either, since nothing says which is meant.
- `ParseFloat` accepts `NaN` and `Inf`, which `json.Marshal` then refuses: the call ends in
  `unencodable`.
- Servers whose names differ in separators share a cache file and may be given each other's
  tools; `OwnTools` says that this is all.
- Of two tools with the same action name the later one answers, and both are announced.

And these are outside the models: `retryLoop` backs off up to 32 s, past `maxBackoff`; one
property with a malformed schema type fails the decoding of the whole tool list.

## 7. Proofs

TLAPS proves the following for every value of the constants that satisfies the assumptions
in the modules (finite or not: no theorem needs finiteness).

### The handler: `HandlerProofs` and `HandlerStoreProofs`

| theorem | statement |
|---|---|
| `TypeCorrect` | `Spec => []TypeOK` |
| `RegistriesOwned` | `Spec => []OneOwner` |
| `RefreshesSerialised` | `Spec => []OneRefresh` |
| `CallsKeepClients` | `Spec => []CallKeepsClient` |
| `OfflineIsMarked` | `Spec => []OfflineMarked` |
| `InTurnServesConfig` | `Spec => []ServesConfigInTurn` |
| `BuildsAccounted` | `Spec => []Accounted` |
| `HandlerInvariant` | `Spec => []IndInv` |
| `StoreImplemented` | `Spec => ImplementsStore` |

None of the properties is inductive alone. The invariant is `TypeOK /\ IndInv`, in parts:

- `MainFirst`: nothing else runs while `main` builds. Without it `SetRegistry` could
  overwrite a registry that nobody then retires.
- `OneOwner`, `OneRefresh` with `MainFirst`: a job's registry is nobody else's, so a swap or a
  discard moves exactly one registry from its job to `registry`, `closing` or `closed`
  (`OwnerBegin`, `OwnerEnd`, `OwnerFrame`).
- `ClientsApart` and `CallsRouted`: a client belongs to the one registry that created it, so
  closing a registry cannot reach the client of a call routed through another.
- `LoopsOnInstalled`: `reconnectOfflineLoop` works only on registries that were installed, and
  when it is about to unmark a server its entries have a client. That the loop's registry is
  not one under construction comes from `OneOwner`.
- `RefreshesCurrent`, with `ServesConfig` for hosts with one RPC at a time (`InTurnInv`): a
  refresh builds the configuration that is still `serverCfgs` when it installs. It survives
  `ConfigureInstall` because with a single RPC no refresh is then being built (`MainFirst`
  for `main`), and the loops because nobody changes the `cfg` of a registry once it is built
  (`InTurnFrame`).

- `Accounted`: each server of a configuration being built is still to be asked, or has
  entries, or failed, or said that it has no tools, and only one of these (`Split`). It needs
  `OneOwner`: nobody else fills the registry of a build.

`StoreImplemented` is the refinement: `StoreInit` maps the initial states and `StoreStep`
every step, action by action, to a step of `CapabilityStore` or a stutter, from `TypeOK`,
`OneOwner` (a build fills no registry the host sees), `Accounted` and `MarkedOffline`: the
servers announced as offline are among those loaded from cache. `Degraded` looks at
`failedServers` and `offlineServers`, the host at the announcements. By `MarkedOffline` a
refresh that passes the test shows no server as offline; by `Accounted` it shows every server
that did not answer with an empty list.

### The connection: `SSEConnProofs`

| theorem | statement |
|---|---|
| `ConnTypeCorrect` | `Spec => []TypeOK` |
| `ResponsesKept` | `Spec => []NoLostResponse` |
| `NoCrossTalkWithoutRequests` | `Spec => []NoCrossTalk` |
| `ReaderNeverBlocksWhenAnsweredOnce` | `Spec => []ReaderNeverBlocks` |
| `RoundTripsImplemented` | `Spec => ImplementsRoundTrips` |

The conditions on the server (`NoRequests`, `AnsweredOnce`) are part of the third and the
fourth property; `sse_server_request` shows that the third fails without it.

- `DeliveryInv` (`Posted`, `SendsById`, `Kept`): once the server answered `i`, the response is
  in the stream, in the reader's hands or in the channel of `i`, until the caller gives up or
  the stream ends. Only what was posted is answered, so `i` subscribed before its response can
  come, and `handleEvent` finds it in `pending`.
- `OwnInv`: the stream carries responses and endpoint events only, and the reader's message
  and each channel's hold the id they are for.
- `OnceInv`: the response to an id is in one place at a time, and a channel is empty while the
  message for it is on its way; `endpointOnce` does the same for the endpoint's channel. Hence
  a send finds its channel empty.
- `GenuineInv`: whatever is under way was sent (a response only if its request was answered,
  a request only if the server sends some), what a channel holds is for the round trip that
  owns it, and a round trip has an outcome exactly when its caller has left (`Outcomes`).
  Unlike `OwnInv` it has no condition on the server, so that `TripStep` can map every step of
  the connection to a step of `RoundTrips` or a stutter.

### The client: `ClientProofs`

| theorem | statement |
|---|---|
| `TypeCorrect` | `Spec => []TypeOK` |
| `TransportIsSet` | `Spec => []HasTransport` |
| `NothingIsLeftOpen` | `Spec => []NothingLeftOpen` |
| `SessionIsKept` | `Spec => []SessionKept` |
| `IdsAreFresh` | `Spec => IdsNeverReused` |

`OpenerInv` says for each step of the opener which transports are open and which is the
client's; it bounds the attempts, without which `TypeOK` is not inductive. `ReqInv`: the
callers have requests only once the client is shared, and over its transport. `IdInv`: what
was sent over the transport in use is at most `idCounter`, and nothing was sent over those not
tried yet; that is why starting again at 0 in `FallbackSSE` is safe. `SessionInv`: as long as
the server keeps to its first id, every store under way writes the string that is there
already, so that no read can return a mixture.

### The cache: `CacheProofs`

| theorem | statement |
|---|---|
| `TypeCorrect` | `Spec => []TypeOK` |
| `FilesAreOneSave` | `Lists # {}` implies `Spec => []FileIsOneSave` |
| `LoadIsLastSave` | `Lists # {}` implies `Spec => LoadsWhatWasSaved` |
| `ToolsAreOwn` | `Spec => []OwnTools` |

- `FileInv`: a file in which no two saves met has at most one saver, and holds exactly what
  that one has written; `FileIsOneSave` alone does not say how far a save under way has come,
  so it does not survive the next write (`PutNext`).
- `QuietInv`: a load that nobody disturbed has read a prefix of the file as it is now, and
  nobody is writing it. At the end of the file it has therefore read one list or a part of one,
  of which `UnmarshalWritten` says what is made.
- `PlaceInv`: every piece in a file, or read from it, is of a list that is saved there. It
  needs no condition on who met whom, so `OwnTools` has none.

### The call: `ArgsProofs` and `ToolCallProofs`

| theorem | statement |
|---|---|
| `TypeCorrect` | `Spec => []TypeOK` |
| `NoContextArgLeaks` | `Spec => []ContextNeverLeaks` |
| `HeadersAreRanked` | `Spec => []HeadersByRank` |
| `ContextArgsArrive` | `Spec => []ContextArrives` |
| `ToolNamesReachServer` | `Spec => []ToolNamesArrive` |
| `FieldsAreValid` | `Spec => []IncludeFieldsValid` |
| `FieldsAreKept` | `Spec => []IncludeFieldsKept` |

They hold for any registries, requests, texts and parsers that satisfy `JsonArrays` and
`RegistriesAreLists`, and for arrays, tasks and registries of any length.

- The invariants follow the loop over the map: what was visited is no longer an argument,
  what was not is as it was prepared (`ArgsInv`), and each header set so far comes from a
  visited context argument if one could be forwarded to it, else from the credential
  (`ExtraInv`). `GotInv` says that what the server received is what they end with.
- `ArgsProofs` says what the operators compute. `FilterExists` and `OptedInItems` are about
  the loop over `include_fields` as a recursive function: what is kept are the opt-in fields
  that were asked for. A statement about every step of the loop is proved without an
  induction rule, by the least number for which it would fail (`LeastNumber`, `AllNumbers`,
  from `NatLessThan` being well-founded, with sets of numbers in the place of predicates).
- `EntryIsLast`: the entry of an action name is the last tool of that name, as with the later
  write to a Go map. The registry of the call (`reg`) and the one that the names are resolved
  in may differ; `ToolNamesArrive` holds the names to the second.

### The grace delay: `GraceProofs`

| theorem | statement |
|---|---|
| `TypeCorrect` | `Spec => []TypeOK` |
| `InFlightCallsFinish` | `Spec => InFlightFinishes` |
| `TimerBeforeSwapIsSafe` | a call whose timer was set before the swap is not cut off in any step |

The assumption is that the delay is longer than the call's timeout; the code has 70 and 60 s.

**Only model-checked:** the liveness properties (`RefreshEnds`, `NoneForgotten`,
`RoundTripEnds`, `ReaderEnds`, `OpenerEnds`), which are out of the prover's
reach. Every other property of a passing run is a theorem.

## 8. Not modelled

- Glossary, knowledge articles, instructions, annotations, companions, descriptions and
  the verbatim schemas: data that is copied.
- The joining of the texts of a result in `CallTool`, the framing of a response body as SSE
  over Streamable HTTP, and JSON decoding: conversions without state. Of the wire types only
  the two spellings of `type` matter to the models.
- Configuration parsing, the expansion of environment variables in header values and the
  canonical form of header names. Two spellings of one header count as two.
- Real time outside `Grace`: the timeouts and the backoffs are steps that may come at any
  moment.
- `Capabilities` only reads; `view` is what it returns.
- Clients that no registry and no call refers to: `Handler` forgets them.
- The context given to the plugin is `context.Background()`, so the branches for its
  cancellation are not reached.
