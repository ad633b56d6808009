------------------------------- MODULE Client -------------------------------
(***************************************************************************)
(* One mcp.Client (src/mcp/client.go): the goroutine that opens it, which  *)
(* is fetchTools or reconnect of src/plugin/registry.go; the transports it *)
(* tries; and the tool calls that share the client once it is handed over, *)
(* with the session id they share over Streamable HTTP                     *)
(* (src/mcp/streamable.go). An SSE connection is here only open or closed: *)
(* module SSEConn is about one.                                            *)
(*                                                                         *)
(* Until the client is handed over its opener is alone with it, so each    *)
(* exchange of the opener is one step to send and one to finish.           *)
(***************************************************************************)
EXTENDS Naturals

CONSTANTS
  Opener,    \* the goroutine that runs Connect
  Callers,   \* the goroutines that run CallTool
  Kinds,     \* what the opener may be: "build", "reconnect" or "retry"
  MaxId,     \* bound: ids a client gives out
  Rotates    \* may the server replace a session id it has given?

ASSUME OpenerAssumption == Opener \notin Callers
ASSUME KindsAssumption == Kinds \subseteq {"build", "reconnect", "retry"}
ASSUME MaxIdAssumption == MaxId \in Nat

VARIABLES
  kind,       \* fetchTools for Build or for retryLoop, or reconnect
  step,       \* where the opener is
  trying,     \* the transport of the last handshake begun
  tp,         \* Client.tp
  open,       \* transports whose context is not cancelled
  idCounter,  \* Client.idCounter
  sessionID,  \* streamableHTTP.sessionID of each HTTP transport
  req,        \* the request each goroutine has under way
  sent,       \* ids sent over each transport
  greeting,   \* session id in the server's answer to initialize
  rotated     \* HTTP transports on which it has sent another one

vars == <<kind, step, trying, tp, open, idCounter, sessionID, req, sent, greeting, rotated>>

NilTp == "nil"
Https == {"http1", "http2"}     \* the two attempts of Connect
Sse == "sse"
Transports == Https \cup {Sse}

NoSid == "none"
Torn == "torn"                  \* a string read or written during another write
Sids == {NoSid, "first", "second", Torn}

Steps == {"http", "sse", "init", "notify", "list", "listing", "shared", "dropped"}
Users == {Opener} \cup Callers

\* A request under way, or one whose answer has come with a session id to store.
NoReq == [at |-> "none", tp |-> NilTp, id |-> 0, sid |-> NoSid]
Flying(t, id, sid) == [at |-> "flying", tp |-> t, id |-> id, sid |-> sid]
Storing(t, sid) == [at |-> "storing", tp |-> t, id |-> 0, sid |-> sid]

Init ==
  /\ kind \in Kinds /\ step = "http"
  /\ trying = NilTp /\ tp = NilTp /\ open = {}
  /\ idCounter = 0
  /\ sessionID = [t \in Https |-> NoSid]
  /\ req = [u \in Users |-> NoReq]
  /\ sent = [t \in Transports |-> {}]
  /\ greeting = [t \in Https |-> NoSid] /\ rotated = {}

sessionvars == <<sessionID, greeting, rotated>>

SendUncounted(u, t, sid) ==    \* mutant: the counter is read, not advanced
  /\ idCounter < MaxId
  /\ idCounter' \in {idCounter, idCounter + 1}
  /\ req' = [req EXCEPT ![u] = Flying(t, idCounter + 1, sid)]
  /\ sent' = [sent EXCEPT ![t] = @ \cup {idCounter + 1}]

\* nextID, and the request that carries the id over t under session sid.
Send(u, t, sid) ==
  /\ idCounter < MaxId
  /\ idCounter' = idCounter + 1
  /\ req' = [req EXCEPT ![u] = Flying(t, idCounter + 1, sid)]
  /\ sent' = [sent EXCEPT ![t] = @ \cup {idCounter + 1}]

Done(u) == req' = [req EXCEPT ![u] = NoReq] /\ UNCHANGED <<idCounter, sent>>

-----------------------------------------------------------------------------
(***************************************************************************)
(* Connect: up to two attempts over Streamable HTTP, then one over SSE.    *)
(***************************************************************************)
Attempt ==
  CASE trying = NilTp -> "http1"
    [] trying = "http1" -> "http2"
    [] OTHER -> "http3"    \* the loop ends before it: TypeOK

TryHttp ==
  /\ step = "http"
  /\ step' = "init" /\ trying' = Attempt /\ open' = open \cup {Attempt}
  /\ Send(Opener, Attempt, NoSid)
  /\ UNCHANGED <<kind, tp, sessionvars>>

\* Mutants of HttpInitFailed: the transport is not closed; the second attempt is
\* retried like the first; the request has the transport's context and no deadline.
HttpInitFailedOpen ==
  /\ step = "init" /\ trying \in Https
  /\ step' \in (IF trying = "http1" THEN {"http", "sse"} ELSE {"sse"})
  /\ Done(Opener)
  /\ UNCHANGED <<kind, trying, tp, open, sessionvars>>
HttpInitFailedAgain ==
  /\ step = "init" /\ trying \in Https
  /\ step' \in {"http", "sse"} /\ open' = open \ {trying}
  /\ Done(Opener)
  /\ UNCHANGED <<kind, trying, tp, sessionvars>>
HttpInitFailedNoTimeout ==
  /\ step = "init" /\ trying \in Https \ open
  /\ step' = "sse"
  /\ Done(Opener)
  /\ UNCHANGED <<kind, trying, tp, open, sessionvars>>

\* initialize fails: by the transport, by its deadline, or by the server's answer.
\* A transient error of the first attempt is retried once.
HttpInitFailed ==
  /\ step = "init" /\ trying \in Https
  /\ step' \in (IF trying = "http1" THEN {"http", "sse"} ELSE {"sse"})
  /\ open' = open \ {trying}
  /\ Done(Opener)
  /\ UNCHANGED <<kind, trying, tp, sessionvars>>

\* The GET is answered and the endpoint event has come.
ConnectSSE ==
  /\ step = "sse"
  /\ step' = "init" /\ trying' = Sse /\ open' = open \cup {Sse}
  /\ Send(Opener, Sse, NoSid)
  /\ UNCHANGED <<kind, tp, sessionvars>>

SSEFailedIgnored ==    \* mutant: fetchTools does not return the fallback's error
  /\ step = "sse"
  /\ step' = "list"
  /\ UNCHANGED <<kind, trying, tp, open, idCounter, req, sent, sessionvars>>

SSEFailed ==
  /\ step = "sse"
  /\ step' = "dropped"
  /\ UNCHANGED <<kind, trying, tp, open, idCounter, req, sent, sessionvars>>

SSEInitFailed ==
  /\ step = "init" /\ trying = Sse
  /\ step' = "dropped" /\ open' = open \ {Sse}
  /\ Done(Opener)
  /\ UNCHANGED <<kind, trying, tp, sessionvars>>

\* initialize succeeds, over HTTP perhaps with a session id.
InitOK ==
  /\ step = "init"
  /\ step' = "notify"
  /\ \/ trying \in Https /\ \E sid \in {NoSid, "first"} :
          /\ sessionID' = [sessionID EXCEPT ![trying] = sid]
          /\ greeting' = [greeting EXCEPT ![trying] = sid]
     \/ trying = Sse /\ UNCHANGED <<sessionID, greeting>>
  /\ Done(Opener)
  /\ UNCHANGED <<kind, trying, tp, open, rotated>>

\* What a response over t may have in its session header. A second id may come only
\* from a server that replaces the one it gave.
Header(t, sid) ==
  /\ sid \in {NoSid, greeting[t]} \cup (IF Rotates THEN {"second"} ELSE {})
  /\ rotated' = IF sid \in {NoSid, greeting[t]} THEN rotated ELSE rotated \cup {t}
  /\ UNCHANGED greeting

KeepSessionAlways(t) ==    \* mutant: no test of the empty header
  \E sid \in Sids :
    /\ Header(t, sid)
    /\ sessionID' = [sessionID EXCEPT ![t] = sid]

\* A response without the header leaves the id that is known; here nobody else uses it.
KeepSession(t) ==
  \E sid \in Sids :
    /\ Header(t, sid)
    /\ sessionID' = IF sid = NoSid THEN sessionID ELSE [sessionID EXCEPT ![t] = sid]

\* notifications/initialized: whether it succeeds is ignored, an answer of any status
\* may carry a session id, and the transport becomes the client's.
Notified ==
  /\ step = "notify"
  /\ \/ trying = Sse /\ UNCHANGED sessionvars
     \/ trying \in Https /\ KeepSession(trying)
  /\ tp' = trying /\ step' = IF kind = "reconnect" THEN "shared" ELSE "list"
  /\ UNCHANGED <<kind, trying, open, idCounter, req, sent>>

-----------------------------------------------------------------------------
(***************************************************************************)
(* fetchTools after Connect. A list that fails over HTTP makes FallbackSSE *)
(* close that transport and connect over SSE; one that fails over SSE ends *)
(* it. retryLoop takes the tools and forgets the client.                   *)
(***************************************************************************)
ListTools ==
  /\ step = "list"
  /\ step' = "listing"
  /\ Send(Opener, tp, IF tp \in Https THEN sessionID[tp] ELSE NoSid)
  /\ UNCHANGED <<kind, trying, tp, open, sessionvars>>

ListOK ==
  /\ step = "listing"
  /\ step' = IF kind = "build" THEN "shared" ELSE "dropped"
  /\ \/ tp = Sse /\ UNCHANGED sessionvars
     \/ tp \in Https /\ KeepSession(tp)
  /\ Done(Opener)
  /\ UNCHANGED <<kind, trying, tp, open>>

FallbackSSEOpen ==    \* mutant: the old transport is not closed
  /\ step = "listing" /\ tp \in Https
  /\ tp' = NilTp /\ idCounter' = 0 /\ step' = "sse"
  /\ req' = [req EXCEPT ![Opener] = NoReq]
  /\ UNCHANGED <<kind, trying, open, sent, sessionvars>>

FallbackSSE ==
  /\ step = "listing" /\ tp \in Https
  /\ open' = open \ {tp} /\ tp' = NilTp /\ idCounter' = 0
  /\ step' = "sse"
  /\ req' = [req EXCEPT ![Opener] = NoReq]
  /\ UNCHANGED <<kind, trying, sent, sessionvars>>

ListFailed ==
  /\ step = "listing" /\ tp = Sse
  /\ step' = "dropped"
  /\ Done(Opener)
  /\ UNCHANGED <<kind, trying, tp, open, sessionvars>>

-----------------------------------------------------------------------------
(***************************************************************************)
(* CallTool, and ListTools of reconnectOfflineLoop, by any number of       *)
(* goroutines at a time; Execute found the client alive, which it may no   *)
(* longer be. A string is a pointer and a length, and nothing orders the   *)
(* accesses to sessionID: while a different string is being stored, a read *)
(* may return either or a mixture of both, and two stores may leave a      *)
(* mixture behind.                                                         *)
(***************************************************************************)
Writes(t) == {req[u].sid : u \in {v \in Users : req[v].at = "storing" /\ req[v].tp = t}}
ReadSession(t) ==
  {sessionID[t]} \cup Writes(t) \cup (IF Writes(t) \subseteq {sessionID[t]} THEN {} ELSE {Torn})

CallTool(u) ==
  /\ step = "shared" /\ req[u].at = "none"
  /\ \E sid \in (IF tp \in Https THEN ReadSession(tp) ELSE {NoSid}) : Send(u, tp, sid)
  /\ UNCHANGED <<kind, step, trying, tp, open, sessionvars>>

\* An answer with a 2xx status: its session id, if any, is stored next.
Answered(u) ==
  LET t == req[u].tp IN
  /\ req[u].at = "flying"
  /\ \/ t \in Https /\ \E sid \in Sids :
          /\ Header(t, sid)
          /\ req' = [req EXCEPT ![u] = IF sid = NoSid THEN NoReq ELSE Storing(t, sid)]
     \/ t = Sse /\ req' = [req EXCEPT ![u] = NoReq] /\ UNCHANGED <<greeting, rotated>>
  /\ UNCHANGED <<kind, step, trying, tp, open, idCounter, sent, sessionID>>

Stored(u) ==
  LET t == req[u].tp IN
  /\ req[u].at = "storing"
  /\ \E sid \in {req[u].sid} \cup (IF Writes(t) = {req[u].sid} THEN {} ELSE {Torn}) :
       sessionID' = [sessionID EXCEPT ![t] = sid]
  /\ Done(u)
  /\ UNCHANGED <<kind, step, trying, tp, open, greeting, rotated>>

\* Another status, an error of the connection, the deadline, or the end of the context.
CallFailed(u) ==
  /\ req[u].at = "flying"
  /\ Done(u)
  /\ UNCHANGED <<kind, step, trying, tp, open, sessionvars>>

\* Client.Close, by the registry that holds the client.
Close ==
  /\ step = "shared"
  /\ open' = open \ {tp}
  /\ UNCHANGED <<kind, step, trying, tp, idCounter, req, sent, sessionvars>>

\* The event stream ends, and readLoop cancels its context.
StreamEnds ==
  /\ open' = open \ {Sse}
  /\ UNCHANGED <<kind, step, trying, tp, idCounter, req, sent, sessionvars>>

-----------------------------------------------------------------------------
InitEnds == HttpInitFailed \/ SSEInitFailed \/ InitOK
ListEnds == ListOK \/ FallbackSSE \/ ListFailed
OpenerStep ==
  TryHttp \/ InitEnds \/ ConnectSSE \/ SSEFailed \/ Notified \/ ListTools \/ ListEnds
CallEnds(u) == Answered(u) \/ CallFailed(u)
CallStep(u) == CallTool(u) \/ CallEnds(u) \/ Stored(u)

Next == OpenerStep \/ (\E u \in Callers : CallStep(u)) \/ Close \/ StreamEnds

Spec == Init /\ [][Next]_vars

(***************************************************************************)
(* Goroutines run, and the deadline of a round trip over HTTP fails it if  *)
(* no answer comes. The GET of SSE, its endpoint event, a POST over SSE    *)
(* and, over either transport, the POST of a notification have none, so    *)
(* nothing is assumed of them, nor of the callers.                         *)
(***************************************************************************)
Fairness ==
  /\ WF_vars(TryHttp \/ ListTools)
  /\ WF_vars(HttpInitFailed) /\ WF_vars(FallbackSSE)

FairSpec == Spec /\ Fairness

-----------------------------------------------------------------------------
(***************************************************************************)
(* Properties.                                                             *)
(***************************************************************************)

\* Every variable has the type its comment gives it.
TypeOK ==
  /\ kind \in Kinds /\ step \in Steps
  /\ trying \in Transports \cup {NilTp} /\ tp \in Transports \cup {NilTp}
  /\ open \subseteq Transports
  /\ idCounter \in Nat
  /\ sessionID \in [Https -> Sids]
  /\ req \in [Users -> [at : {"none", "flying", "storing"}, tp : Transports \cup {NilTp},
                        id : Nat, sid : Sids]]
  /\ sent \in [Transports -> SUBSET Nat]
  /\ greeting \in [Https -> Sids] /\ rotated \subseteq Https

\* Whoever lists tools or calls one finds a transport: the one whose handshake was
\* the last, whatever failed on the way there.
HasTransport == step \in {"list", "listing", "shared"} => tp # NilTp /\ tp = trying

\* No attempt that was given up leaves its transport open: what is open is the
\* client's transport or the one in its handshake. A client whose opener failed may
\* keep an event stream open, never an HTTP transport.
NothingLeftOpen ==
  /\ open \subseteq {tp} \cup (IF step \in {"init", "notify"} THEN {trying} ELSE {})
  /\ step \in {"init", "notify"} => tp = NilTp
  /\ step = "dropped" /\ kind # "retry" => open \subseteq {Sse}

\* No id is sent twice over one transport, though FallbackSSE starts them again and
\* the callers take them concurrently: an answer can be told by its id.
IdsNeverReused ==
  [][\A u \in Users :
       req'[u].at = "flying" /\ req'[u] # req[u] => req'[u].id \notin sent[req'[u].tp]]_vars

\* As long as the server keeps to the session id of its answer to initialize, every later
\* request over that transport carries it, however answers and requests interleave.
SessionKept ==
  \A u \in Users :
    req[u].at = "flying" /\ req[u].tp \in Https \ rotated /\ ~(u = Opener /\ step = "init") =>
      req[u].sid = greeting[req[u].tp]

\* The opener ends, or it waits for ever where the code sets no deadline.
NoDeadline ==
  \/ step \in {"notify", "sse"}
  \/ step \in {"init", "listing"} /\ trying = Sse
OpenerEnds == <>(step \in {"shared", "dropped"}) \/ <>[]NoDeadline
=============================================================================
