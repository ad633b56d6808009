------------------------------- MODULE SSEConn -------------------------------
(***************************************************************************)
(* One HTTP+SSE connection to an MCP server (src/mcp/sse.go): the caller   *)
(* that connects, the round trips that share the connection, the readLoop  *)
(* goroutine that hands the events of the stream to them, and the server.  *)
(*                                                                         *)
(* Requests travel in POSTs, their responses in the event stream, so a     *)
(* response may arrive before the POST returns, after the caller has given *)
(* up, or never. A round trip is known by its JSON-RPC id: idCounter gives *)
(* every round trip of a client its own.                                   *)
(*                                                                         *)
(* Notifications are POSTs without an id that change nothing here.         *)
(***************************************************************************)
EXTENDS Naturals, Sequences

CONSTANTS
  Ids,         \* ids of the round trips; the first one is initialize
  Extras       \* bound: events the server sends beyond one answer to each request

InitializeId == 1
NoId == 0

ASSUME IdsAssumption == Ids \subseteq Nat \ {NoId} /\ InitializeId \in Ids
ASSUME ExtrasAssumption == Extras \in Nat

VARIABLES
  conn,      \* connect: "get", waiting for the "endpoint" event, "up" or "failed"
  ctxDone,   \* is the connection's context cancelled?
  once,      \* has endpointOnce run?
  pending,   \* ids with a channel in sseConn.pending
  chan,      \* what is buffered in each id's channel, and in endpointCh (NoId)
  call,      \* where each round trip is
  outcome,   \* what it returns
  reader,    \* readLoop: reading, sending an event to a channel, or stopped
  stream,    \* events on their way from the server
  received,  \* ids whose POST reached the server
  answered,  \* ids the server has answered
  spent      \* how many events of each other kind the server sent

vars == <<conn, ctxDone, once, pending, chan, call, outcome, reader, stream, received,
          answered, spent>>

Event(kind, id) == [kind |-> kind, id |-> id]
Response(i) == Event("response", i)
Events == {Event("endpoint", NoId)} \cup {Event(k, i) : k \in {"response", "request"}, i \in Ids}

None == Event("none", NoId)
Failed == Event("error", NoId)
Reading == [step |-> "reading", event |-> None, to |-> NoId]
Stopped == [step |-> "stopped", event |-> None, to |-> NoId]
Sending(e, id) == [step |-> "sending", event |-> e, to |-> id]

\* make(chan rpcResponse, 1), make(chan string, 1)
Capacity == 1
Full(id) == Len(chan[id]) >= Capacity

Init ==
  /\ conn = "get" /\ ctxDone = FALSE /\ once = FALSE
  /\ pending = {} /\ chan = [id \in Ids \cup {NoId} |-> <<>>]
  /\ call = [i \in Ids |-> "new"] /\ outcome = [i \in Ids |-> None]
  /\ reader = Stopped /\ stream = <<>>
  /\ received = {} /\ answered = {}
  /\ spent = [endpoints |-> 0, repeats |-> 0, requests |-> 0]

callvars == <<pending, call, outcome>>
servervars == <<received, answered, spent>>

-----------------------------------------------------------------------------
(***************************************************************************)
(* connect: the GET succeeds and starts readLoop, or fails; then wait for  *)
(* the endpoint event, without a deadline.                                 *)
(***************************************************************************)
GetOK ==
  /\ conn = "get" /\ ~ctxDone
  /\ conn' = "endpoint" /\ reader' = Reading
  /\ UNCHANGED <<ctxDone, once, chan, callvars, stream, servervars>>

GetFailed ==
  /\ conn = "get"
  /\ conn' = "failed"
  /\ UNCHANGED <<ctxDone, once, chan, callvars, reader, stream, servervars>>

EndpointResolved ==
  /\ conn = "endpoint" /\ chan[NoId] # <<>>
  /\ conn' = "up" /\ chan' = [chan EXCEPT ![NoId] = <<>>]
  /\ UNCHANGED <<ctxDone, once, callvars, reader, stream, servervars>>

EndpointCancelled ==
  /\ conn = "endpoint" /\ ctxDone
  /\ conn' = "failed"
  /\ UNCHANGED <<ctxDone, once, chan, callvars, reader, stream, servervars>>

\* Somebody cancels the context: Client.Close, or the plugin's own context.
Close ==
  /\ ctxDone' = TRUE
  /\ UNCHANGED <<conn, once, chan, callvars, reader, stream, servervars>>

-----------------------------------------------------------------------------
(***************************************************************************)
(* roundTrip. The client exists for others only after initialize returned  *)
(* something it could decode.                                              *)
(***************************************************************************)
InitializeEnded == call[InitializeId] = "done"    \* mutant: its error is ignored
Initialized == call[InitializeId] = "done" /\ outcome[InitializeId] # Failed

Subscribe(i) ==
  /\ conn = "up" /\ call[i] = "new"
  /\ i = InitializeId \/ Initialized
  /\ pending' = pending \cup {i} /\ chan' = [chan EXCEPT ![i] = <<>>]
  /\ call' = [call EXCEPT ![i] = "posting"]
  /\ UNCHANGED <<conn, ctxDone, once, outcome, reader, stream, servervars>>

PostArrives(i) ==
  /\ call[i] = "posting" /\ ~ctxDone
  /\ received' = received \cup {i}
  /\ UNCHANGED <<conn, ctxDone, once, chan, callvars, reader, stream, answered, spent>>

\* Mutant of PostAccepted: subscribe again, after the POST.
PostAcceptedResubscribe(i) ==
  /\ call[i] = "posting" /\ i \in received
  /\ call' = [call EXCEPT ![i] = "waiting"] /\ chan' = [chan EXCEPT ![i] = <<>>]
  /\ UNCHANGED <<conn, ctxDone, once, pending, outcome, reader, stream, servervars>>

PostAccepted(i) ==
  /\ call[i] = "posting" /\ i \in received
  /\ call' = [call EXCEPT ![i] = "waiting"]
  /\ UNCHANGED <<conn, ctxDone, once, pending, chan, outcome, reader, stream, servervars>>

\* The caller leaves with what it will return; unsubscribe is deferred.
Leave(i, result) ==
  /\ call' = [call EXCEPT ![i] = "leaving"]
  /\ outcome' = [outcome EXCEPT ![i] = result]
  /\ UNCHANGED <<conn, ctxDone, once, pending, reader, stream, servervars>>

\* The POST fails: in transit, by its status, or with the context.
PostFailed(i) == call[i] = "posting" /\ Leave(i, Failed) /\ UNCHANGED chan

Receive(i) ==
  /\ call[i] = "waiting" /\ chan[i] # <<>>
  /\ Leave(i, Head(chan[i]))
  /\ chan' = [chan EXCEPT ![i] = <<>>]

\* Mutant of GiveUp: a select without the case of time.After.
GiveUpWithoutTimeout(i) ==
  call[i] = "waiting" /\ ctxDone /\ Leave(i, Failed) /\ UNCHANGED chan

\* time.After, or the end of the context.
GiveUp(i) == call[i] = "waiting" /\ Leave(i, Failed) /\ UNCHANGED chan

UnsubscribeForgotten(i) ==    \* mutant: the entry of pending stays
  /\ call[i] = "leaving"
  /\ call' = [call EXCEPT ![i] = "done"]
  /\ UNCHANGED <<conn, ctxDone, once, pending, chan, outcome, reader, stream, servervars>>

Unsubscribe(i) ==
  /\ call[i] = "leaving"
  /\ pending' = pending \ {i}
  /\ call' = [call EXCEPT ![i] = "done"]
  /\ UNCHANGED <<conn, ctxDone, once, chan, outcome, reader, stream, servervars>>

-----------------------------------------------------------------------------
(***************************************************************************)
(* readLoop. handleEvent looks the channel up under the lock and sends     *)
(* after it has released it: a send to a full channel blocks the reader.   *)
(***************************************************************************)
\* Mutants of HandleEvent: no endpointOnce; a response goes to any subscriber.
HandleEventNoOnce(e) ==
  /\ reader' = IF e.kind = "endpoint" \/ e.id \in pending THEN Sending(e, e.id) ELSE Reading
  /\ UNCHANGED once
HandleEventAnyone(e) ==
  /\ reader' \in IF e.kind # "endpoint" /\ pending # {} THEN {Sending(e, i) : i \in pending}
                 ELSE {IF once THEN Reading ELSE Sending(e, NoId)}
  /\ once' = (once \/ e.kind = "endpoint")

HandleEvent(e) ==
  /\ reader' = IF (e.kind = "endpoint" /\ ~once) \/ e.id \in pending
               THEN Sending(e, e.id) ELSE Reading
  /\ once' = (once \/ e.kind = "endpoint")

Read ==
  /\ reader = Reading /\ stream # <<>>
  /\ HandleEvent(Head(stream))
  /\ stream' = Tail(stream)
  /\ UNCHANGED <<conn, ctxDone, chan, callvars, servervars>>

Send ==
  /\ reader.step = "sending" /\ ~Full(reader.to)
  /\ chan' = [chan EXCEPT ![reader.to] = Append(@, reader.event)]
  /\ reader' = Reading
  /\ UNCHANGED <<conn, ctxDone, once, callvars, stream, servervars>>

\* The server, the network or the context ends the stream; what was on its way
\* is lost, and the deferred cancel ends the context.
StreamEnds ==
  /\ reader = Reading
  /\ reader' = Stopped /\ ctxDone' = TRUE /\ stream' = <<>>
  /\ UNCHANGED <<conn, once, chan, callvars, servervars>>

-----------------------------------------------------------------------------
(***************************************************************************)
(* The server: it answers a request it received at most once, in any order. *)
(***************************************************************************)
MaySpend == spent.endpoints + spent.repeats + spent.requests < Extras

StreamOpen == reader.step # "stopped" /\ ~ctxDone
Push(e) ==
  /\ StreamOpen
  /\ stream' = Append(stream, e)
  /\ UNCHANGED <<conn, ctxDone, once, chan, callvars, reader, received>>

ServerEndpoint ==
  /\ MaySpend
  /\ spent' = [spent EXCEPT !.endpoints = @ + 1]
  /\ Push(Event("endpoint", NoId)) /\ UNCHANGED answered

ServerAnswer(i) ==
  /\ i \in received \ answered
  /\ answered' = answered \cup {i}
  /\ Push(Response(i)) /\ UNCHANGED spent

\* A response that was sent before, as after a replay of the stream.
ServerRepeat(i) ==
  /\ i \in answered /\ MaySpend
  /\ spent' = [spent EXCEPT !.repeats = @ + 1]
  /\ Push(Response(i)) /\ UNCHANGED answered

\* A request of the server's own (a ping, say), numbered by the server.
ServerRequest(i) ==
  /\ MaySpend
  /\ spent' = [spent EXCEPT !.requests = @ + 1]
  /\ Push(Event("request", i)) /\ UNCHANGED answered

-----------------------------------------------------------------------------
ConnectStep == GetOK \/ GetFailed \/ EndpointResolved \/ EndpointCancelled \/ Close
PostEnds(i) == PostAccepted(i) \/ PostFailed(i)
CallStep(i) ==
  Subscribe(i) \/ PostArrives(i) \/ PostEnds(i) \/ Receive(i) \/ GiveUp(i) \/ Unsubscribe(i)
ReaderStep == Read \/ Send \/ StreamEnds
ServerStep ==
  ServerEndpoint \/ \E i \in Ids : ServerAnswer(i) \/ ServerRepeat(i) \/ ServerRequest(i)

Next == ConnectStep \/ (\E i \in Ids : CallStep(i)) \/ ReaderStep \/ ServerStep

Spec == Init /\ [][Next]_vars

(***************************************************************************)
(* Goroutines run and timers fire. Neither a POST nor a read of the stream *)
(* has a deadline, and http.Client sets none: both need to end only once   *)
(* the context is cancelled.                                               *)
(***************************************************************************)
Fairness ==
  /\ WF_vars(EndpointResolved) /\ WF_vars(Read) /\ WF_vars(Send)
  /\ WF_vars(ctxDone /\ StreamEnds)
  /\ \A i \in Ids : /\ WF_vars(ctxDone /\ PostEnds(i))
                    /\ WF_vars(Receive(i) \/ GiveUp(i))
                    /\ WF_vars(Unsubscribe(i))

FairSpec == Spec /\ Fairness

-----------------------------------------------------------------------------
(***************************************************************************)
(* Properties.                                                             *)
(***************************************************************************)

\* Every variable has the type its comment gives it: no channel holds more than fits,
\* and pending has an entry for exactly the round trips under way.
TypeOK ==
  /\ conn \in {"get", "endpoint", "up", "failed"}
  /\ ctxDone \in BOOLEAN /\ once \in BOOLEAN
  /\ pending = {i \in Ids : call[i] \in {"posting", "waiting", "leaving"}}
  /\ chan \in [Ids \cup {NoId} -> {<<>>} \cup {<<e>> : e \in Events}]
  /\ call \in [Ids -> {"new", "posting", "waiting", "leaving", "done"}]
  /\ outcome \in [Ids -> Events \cup {None, Failed}]
  /\ reader \in {Reading, Stopped} \cup {Sending(e, id) : e \in Events, id \in Ids \cup {NoId}}
  /\ stream \in Seq(Events)
  /\ received \subseteq Ids /\ answered \subseteq received
  /\ spent \in [endpoints : Nat, repeats : Nat, requests : Nat]

\* What the server has refrained from so far: requests of its own; those and repeats.
NoRequests == spent.requests = 0
AnsweredOnce == spent.requests = 0 /\ spent.repeats = 0

\* A round trip returns an error or the server's response to its own request ...
OwnResponses == \A i \in Ids : outcome[i] \in {None, Failed, Response(i)}

\* ... as long as the server sends no requests of its own, whatever it repeats.
NoCrossTalk == NoRequests => OwnResponses

\* As long as the server sends no response twice, the reader never has to wait for a
\* caller: the channel it sends to has room, however callers come and give up.
ReaderNeverBlocks == AnsweredOnce /\ reader.step = "sending" => ~Full(reader.to)

\* While a caller waits and the stream is open, the response the server sent it is
\* on its way: in the stream, with the reader, or in the caller's channel.
NoLostResponse ==
  \A i \in Ids :
    call[i] = "waiting" /\ i \in answered /\ reader.step # "stopped" =>
      \/ Response(i) \in {stream[k] : k \in DOMAIN stream} \cup {reader.event}
      \/ chan[i] = <<Response(i)>>

\* What a caller knows of its round trip: the refinement mapping to RoundTrips. A
\* response to another round trip would be "crossed".
trip ==
  [i \in Ids |->
     CASE outcome[i] = None -> (IF call[i] = "new" THEN "new" ELSE "open")
       [] outcome[i] = Failed -> "failed"
       [] outcome[i] = Response(i) -> "answered"
       [] outcome[i] = Event("request", i) -> "misled"
       [] OTHER -> "crossed"]

Trips == INSTANCE RoundTrips WITH First <- InitializeId, foreign <- ~NoRequests

\* Callers get what the connection promises them, each once, and nothing before the
\* handshake has returned.
ImplementsRoundTrips == Trips!Spec

\* The caller whose channel the reader finds full, and waits for.
Blocked == reader.step = "sending" /\ reader.to \in Ids /\ Full(reader.to)

\* A round trip ends, whether its response comes, comes late, or was handed to nobody, unless
\* its POST is never answered and nobody cancels the context: then its caller waits for ever.
RoundTripEnds ==
  \A i \in Ids :
    \/ call[i] = "posting" ~> call[i] = "done"
    \/ <>[](call[i] = "posting" /\ ~ctxDone)

\* When the connection is closed, the goroutine that reads it ends, or it waits for ever to
\* hand a second message to a round trip that has already returned: that is the only way
\* in which the reader is lost.
ReaderEnds ==
  \/ ctxDone /\ reader.step # "stopped" ~> reader.step = "stopped"
  \/ <>[](Blocked /\ call[reader.to] = "done")
=============================================================================
