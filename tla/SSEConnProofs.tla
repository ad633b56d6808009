---------------------------- MODULE SSEConnProofs ----------------------------
(***************************************************************************)
(* Theorems of module SSEConn, for any set of round trips and any bounds   *)
(* on what the server sends.                                               *)
(***************************************************************************)
EXTENDS SSEConn, SequenceTheorems, TLAPS

\* The stream holds an event equal to e that readLoop has not read.
InStream(e) == \E k \in DOMAIN stream : stream[k] = e

-----------------------------------------------------------------------------
(***************************************************************************)
(* The stream: reading takes its head, the server appends.                 *)
(***************************************************************************)

\* The elements of an appended sequence.
LEMMA Appended ==
  ASSUME NEW S, NEW q \in Seq(S), NEW e \in S
  PROVE  /\ Append(q, e) \in Seq(S)
         /\ DOMAIN Append(q, e) = DOMAIN q \cup {Len(q) + 1}
         /\ Len(q) + 1 \notin DOMAIN q
         /\ Append(q, e)[Len(q) + 1] = e
         /\ \A k \in DOMAIN q : Append(q, e)[k] = q[k]
BY AppendProperties

\* The elements of the tail of a sequence.
LEMMA Tailed ==
  ASSUME NEW S, NEW q \in Seq(S), q # <<>>
  PROVE  /\ Tail(q) \in Seq(S) /\ Head(q) \in S
         /\ 1 \in DOMAIN q /\ q[1] = Head(q)
         /\ \A k \in DOMAIN Tail(q) : k + 1 \in DOMAIN q /\ k + 1 # 1 /\ Tail(q)[k] = q[k + 1]
         /\ \A k \in DOMAIN q \ {1} : k - 1 \in DOMAIN Tail(q) /\ Tail(q)[k - 1] = q[k]
BY HeadTailProperties

-----------------------------------------------------------------------------
(***************************************************************************)
(* Type correctness.                                                       *)
(***************************************************************************)

\* An event of either kind is an event, and a response is its id's.
LEMMA EventTypes ==
  /\ Event("endpoint", NoId) \in Events
  /\ \A i \in Ids : Response(i) \in Events /\ Event("request", i) \in Events
  /\ \A e \in Events : e.id \in Ids \cup {NoId} /\ e = Event(e.kind, e.id)
  /\ \A e \in Events : e.kind = "endpoint" <=> e.id = NoId
<1>1. /\ Event("endpoint", NoId) \in Events
      /\ \A i \in Ids : Response(i) \in Events /\ Event("request", i) \in Events
  BY DEF Events, Response
<1>2. ASSUME NEW e \in Events
      PROVE  /\ e.id \in Ids \cup {NoId} /\ e = Event(e.kind, e.id)
             /\ e.kind = "endpoint" <=> e.id = NoId
  <2>1. CASE e = Event("endpoint", NoId)
    BY <2>1 DEF Event
  <2>2. ASSUME NEW k \in {"response", "request"}, NEW i \in Ids, e = Event(k, i)
        PROVE  /\ e.id \in Ids \cup {NoId} /\ e = Event(e.kind, e.id)
               /\ e.kind = "endpoint" <=> e.id = NoId
    BY <2>2, IdsAssumption DEF Event
  <2>3. QED BY <2>1, <2>2 DEF Events
<1>3. QED BY <1>1, <1>2

\* Every step of a round trip keeps the types.
LEMMA CallTypeStep == ASSUME TypeOK, NEW i \in Ids, CallStep(i) PROVE TypeOK'
<1> USE IdsAssumption DEF callvars, servervars
<1>1. CASE Subscribe(i)
  BY <1>1 DEF Subscribe, TypeOK
<1>2. CASE PostArrives(i)
  BY <1>2 DEF PostArrives, TypeOK
<1>3. CASE PostAccepted(i)
  BY <1>3 DEF PostAccepted, TypeOK
<1>4. ASSUME NEW result \in Events \cup {None, Failed}, Leave(i, result),
             call[i] \in {"posting", "waiting"},
             chan' \in [Ids \cup {NoId} -> {<<>>} \cup {<<e>> : e \in Events}]
      PROVE  TypeOK'
  BY <1>4 DEF Leave, TypeOK
<1>5. CASE PostFailed(i)
  BY <1>4, <1>5 DEF PostFailed, TypeOK
<1>6. CASE Receive(i)
  <2>1. Head(chan[i]) \in Events
    BY <1>6 DEF Receive, TypeOK
  <2>2. QED BY <1>4, <1>6, <2>1 DEF Receive, TypeOK
<1>7. CASE GiveUp(i)
  BY <1>4, <1>7 DEF GiveUp, TypeOK
<1>8. CASE Unsubscribe(i)
  BY <1>8 DEF Unsubscribe, TypeOK
<1>9. QED BY <1>1, <1>2, <1>3, <1>5, <1>6, <1>7, <1>8 DEF CallStep, PostEnds

\* So does every step of the reader.
LEMMA ReaderTypeStep == ASSUME TypeOK, ReaderStep PROVE TypeOK'
<1> USE DEF callvars, servervars
<1>1. CASE Read
  <2>1. stream' \in Seq(Events) /\ Head(stream) \in Events
    BY <1>1, Tailed DEF Read, TypeOK
  <2>2. once' \in BOOLEAN
    BY <1>1 DEF Read, HandleEvent, TypeOK
  <2>3. reader' \in {Reading, Stopped} \cup {Sending(e, id) : e \in Events, id \in Ids \cup {NoId}}
    BY <1>1, <2>1, EventTypes DEF Read, HandleEvent
  <2>4. QED BY <1>1, <2>1, <2>2, <2>3 DEF Read, TypeOK
<1>2. CASE Send
  <2>1. PICK e \in Events, id \in Ids \cup {NoId} : reader = Sending(e, id)
    BY <1>2 DEF Send, TypeOK, Reading, Stopped
  <2>2. chan[id] = <<>>
    BY <1>2, <2>1 DEF Send, TypeOK, Full, Capacity, Sending
  <2> DEFINE Buffers == {<<>>} \cup {<<a>> : a \in Events}
  <2>3. Append(<<>>, e) \in Buffers
    OBVIOUS
  <2>4. chan' = [chan EXCEPT ![id] = Append(<<>>, e)]
    BY <1>2, <2>1, <2>2 DEF Send, Sending
  <2>5. chan \in [Ids \cup {NoId} -> Buffers]
    BY DEF TypeOK
  <2> HIDE DEF Buffers
  <2>6. chan' \in [Ids \cup {NoId} -> Buffers]
    BY <2>3, <2>4, <2>5
  <2>7. QED BY <1>2, <2>6 DEF Send, TypeOK, Buffers
<1>3. CASE StreamEnds
  BY <1>3 DEF StreamEnds, TypeOK
<1>4. QED BY <1>1, <1>2, <1>3 DEF ReaderStep

\* And every step of the server.
LEMMA ServerTypeStep == ASSUME TypeOK, ServerStep PROVE TypeOK'
<1> USE DEF callvars, servervars
<1>1. ASSUME NEW e \in Events, Push(e),
             answered' \subseteq received,
             spent' \in [endpoints : Nat, repeats : Nat, requests : Nat]
      PROVE  TypeOK'
  BY <1>1, Appended DEF Push, TypeOK
<1>2. CASE ServerEndpoint
  <2>1. spent' \in [endpoints : Nat, repeats : Nat, requests : Nat]
    BY <1>2 DEF ServerEndpoint, TypeOK
  <2>2. answered' \subseteq received /\ Push(Event("endpoint", NoId))
    BY <1>2 DEF ServerEndpoint, TypeOK
  <2>3. QED BY <1>1, <2>1, <2>2, EventTypes
<1>3. ASSUME NEW i \in Ids, ServerAnswer(i) PROVE TypeOK'
  BY <1>1, <1>3, EventTypes DEF ServerAnswer, TypeOK
<1>4. ASSUME NEW i \in Ids, ServerRepeat(i) PROVE TypeOK'
  <2>1. spent' \in [endpoints : Nat, repeats : Nat, requests : Nat]
    BY <1>4 DEF ServerRepeat, TypeOK
  <2>2. answered' \subseteq received /\ Push(Response(i))
    BY <1>4 DEF ServerRepeat, TypeOK
  <2>3. QED BY <1>1, <2>1, <2>2, EventTypes
<1>5. ASSUME NEW i \in Ids, ServerRequest(i) PROVE TypeOK'
  <2>1. spent' \in [endpoints : Nat, repeats : Nat, requests : Nat]
    BY <1>5 DEF ServerRequest, TypeOK
  <2>2. answered' \subseteq received /\ Push(Event("request", i))
    BY <1>5 DEF ServerRequest, TypeOK
  <2>3. QED BY <1>1, <2>1, <2>2, EventTypes
<1>6. QED BY <1>2, <1>3, <1>4, <1>5 DEF ServerStep

\* Every step of the connection keeps the types.
LEMMA TypeStep == TypeOK /\ [Next]_vars => TypeOK'
<1> SUFFICES ASSUME TypeOK, [Next]_vars PROVE TypeOK'
  OBVIOUS
<1> USE DEF callvars, servervars
<1>1. CASE ConnectStep
  <2>1. CASE GetOK
    BY <2>1 DEF GetOK, TypeOK
  <2>2. CASE GetFailed
    BY <2>2 DEF GetFailed, TypeOK
  <2>3. CASE EndpointCancelled
    BY <2>3 DEF EndpointCancelled, TypeOK
  <2>4. CASE Close
    BY <2>4 DEF Close, TypeOK
  <2>5. CASE EndpointResolved
    BY <2>5 DEF EndpointResolved, TypeOK
  <2>6. QED BY <1>1, <2>1, <2>2, <2>3, <2>4, <2>5 DEF ConnectStep
<1>2. CASE UNCHANGED vars
  BY <1>2 DEF vars, TypeOK
<1>3. QED
  BY <1>1, <1>2, CallTypeStep, ReaderTypeStep, ServerTypeStep DEF Next

\* Type correctness: every variable has the type its comment gives it, and pending has
\* an entry for exactly the round trips under way.
THEOREM ConnTypeCorrect == Spec => []TypeOK
<1>1. Init => TypeOK
  <2> SUFFICES ASSUME Init PROVE TypeOK
    OBVIOUS
  <2>1. chan \in [Ids \cup {NoId} -> {<<>>} \cup {<<e>> : e \in Events}]
    BY DEF Init
  <2>2. spent \in [endpoints : Nat, repeats : Nat, requests : Nat]
    BY DEF Init
  <2>3. stream \in Seq(Events)
    BY DEF Init
  <2>4. /\ pending = {i \in Ids : call[i] \in {"posting", "waiting", "leaving"}}
        /\ call \in [Ids -> {"new", "posting", "waiting", "leaving", "done"}]
        /\ outcome \in [Ids -> Events \cup {None, Failed}]
    BY DEF Init
  <2>5. /\ conn \in {"get", "endpoint", "up", "failed"} /\ ctxDone \in BOOLEAN /\ once \in BOOLEAN
        /\ reader = Stopped /\ received \subseteq Ids /\ answered \subseteq received
    BY DEF Init
  <2>6. QED BY <2>1, <2>2, <2>3, <2>4, <2>5 DEF TypeOK
<1>2. QED BY <1>1, TypeStep, PTL DEF Spec

-----------------------------------------------------------------------------
(***************************************************************************)
(* No response is lost.                                                    *)
(***************************************************************************)

\* A server can only answer what was posted, and nothing is posted before connect
\* has returned.
Posted ==
  /\ conn = "get" => \A i \in Ids : call[i] = "new"
  /\ \A i \in received : call[i] # "new"

\* The reader sends an event to the channel of its id.
SendsById == reader.step = "sending" => reader.to = reader.event.id

\* The server's response to i is in the stream, with the reader, or in i's channel.
OnItsWay(i) == InStream(Response(i)) \/ reader.event = Response(i) \/ chan[i] = <<Response(i)>>

\* As NoLostResponse, from the moment the caller has subscribed.
Kept == \A i \in answered : call[i] \in {"posting", "waiting"} /\ reader.step # "stopped" => OnItsWay(i)

\* What is inductive of it, together with the type.
DeliveryInv == Posted /\ SendsById /\ Kept

\* A response is on its way after the server has pushed it, and pushing another event
\* takes none away.
LEMMA PushKeeps ==
  ASSUME TypeOK, NEW e \in Events, Push(e)
  PROVE  InStream(e)' /\ \A a : InStream(a) => InStream(a)'
<1>1. stream' = Append(stream, e) /\ stream \in Seq(Events)
  BY DEF Push, TypeOK
<1>2. QED BY <1>1, Appended DEF InStream

\* Reading takes only the head.
LEMMA ReadKeeps ==
  ASSUME TypeOK, Read
  PROVE  \A a : InStream(a) => InStream(a)' \/ a = Head(stream)
<1>1. stream' = Tail(stream) /\ stream # <<>> /\ stream \in Seq(Events)
  BY DEF Read, TypeOK
<1>2. QED BY <1>1, Tailed, SMTT(60) DEF InStream

\* What the reader does with the event it has read.
LEMMA HandledTo ==
  ASSUME NEW e, HandleEvent(e)
  PROVE  /\ reader' = Reading \/ reader' = Sending(e, e.id)
         /\ e.id \in pending => reader' = Sending(e, e.id)
BY DEF HandleEvent

\* The steps of a round trip keep the delivery invariant.
LEMMA CallDelivery == ASSUME TypeOK, DeliveryInv, NEW i \in Ids, CallStep(i) PROVE DeliveryInv'
<1> USE DEF callvars, servervars
<1>1. UNCHANGED <<conn, reader, stream, answered>>
  BY DEF CallStep, PostEnds, Subscribe, PostArrives, PostAccepted, PostFailed, Receive, GiveUp,
     Leave, Unsubscribe
<1>2. SendsById'
  BY <1>1 DEF DeliveryInv, SendsById
<1>3. ASSUME \A j \in Ids \ {i} : call'[j] = call[j] /\ chan'[j] = chan[j],
             received' = received,
             call[i] # "new",
             \/ call'[i] = "leaving"
             \/ call'[i] = "done"
             \/ call[i] = "posting" /\ call'[i] = "waiting" /\ chan'[i] = chan[i]
      PROVE  DeliveryInv'
  <2>1. Posted'
    BY <1>1, <1>3 DEF DeliveryInv, Posted, TypeOK
  <2>2. Kept'
    BY <1>1, <1>3 DEF DeliveryInv, Kept, OnItsWay, InStream, TypeOK
  <2>3. QED BY <1>2, <2>1, <2>2 DEF DeliveryInv
<1>4. CASE Subscribe(i)
  <2>1. i \notin received /\ conn = "up"
    BY <1>4 DEF Subscribe, DeliveryInv, Posted
  <2>2. \A j \in Ids \ {i} : call'[j] = call[j] /\ chan'[j] = chan[j]
    BY <1>4 DEF Subscribe, TypeOK
  <2>3. Posted'
    BY <1>4, <2>1, <2>2 DEF Subscribe, DeliveryInv, Posted, TypeOK
  <2>4. Kept'
    BY <1>1, <2>1, <2>2 DEF DeliveryInv, Kept, OnItsWay, InStream, TypeOK
  <2>5. QED BY <1>2, <2>3, <2>4 DEF DeliveryInv
<1>5. CASE PostArrives(i)
  BY <1>1, <1>2, <1>5 DEF PostArrives, DeliveryInv, Posted, Kept, OnItsWay, InStream, TypeOK
<1>6. CASE PostAccepted(i)
  BY <1>3, <1>6 DEF PostAccepted, TypeOK
<1>7. CASE PostFailed(i) \/ Receive(i) \/ GiveUp(i)
  <2>1. /\ call' = [call EXCEPT ![i] = "leaving"] /\ received' = received
        /\ call[i] \in {"posting", "waiting"}
    BY <1>7 DEF PostFailed, Receive, GiveUp, Leave
  <2>2. chan' = chan \/ chan' = [chan EXCEPT ![i] = <<>>]
    BY <1>7 DEF PostFailed, Receive, GiveUp
  <2>3. \A j \in Ids \ {i} : call'[j] = call[j] /\ chan'[j] = chan[j]
    BY <2>1, <2>2 DEF TypeOK
  <2>4. call'[i] = "leaving" /\ call[i] # "new"
    BY <2>1 DEF TypeOK
  <2>5. QED BY <1>3, <2>1, <2>3, <2>4
<1>8. CASE Unsubscribe(i)
  <2>1. \A j \in Ids \ {i} : call'[j] = call[j] /\ chan'[j] = chan[j]
    BY <1>8 DEF Unsubscribe, TypeOK
  <2>2. call'[i] = "done" /\ call[i] # "new" /\ received' = received
    BY <1>8 DEF Unsubscribe, TypeOK
  <2>3. QED BY <1>3, <2>1, <2>2
<1>9. QED BY <1>4, <1>5, <1>6, <1>7, <1>8 DEF CallStep, PostEnds

\* So do the steps of the reader: what it reads for a round trip under way it sends.
LEMMA ReaderDelivery == ASSUME TypeOK, DeliveryInv, ReaderStep PROVE DeliveryInv'
<1> USE DEF callvars, servervars
<1>1. Posted'
  BY DEF ReaderStep, Read, Send, StreamEnds, DeliveryInv, Posted
<1>2. CASE Read
  <2>1. SendsById'
    BY <1>2, HandledTo DEF Read, SendsById, Sending, Reading
  <2>2. ASSUME NEW i \in answered, call[i] \in {"posting", "waiting"} PROVE OnItsWay(i)'
    <3>1. i \in Ids /\ i \in pending
      BY <2>2 DEF TypeOK
    <3>2. InStream(Response(i)) \/ chan[i] = <<Response(i)>>
      BY <1>2, <2>2 DEF Read, DeliveryInv, Kept, OnItsWay, Reading, None, Response, Event
    <3>3. CASE Response(i) = Head(stream)
      <4>1. Head(stream).id = i
        BY <3>3 DEF Response, Event
      <4>2. reader' = Sending(Head(stream), i)
        BY <1>2, <3>1, <4>1, HandledTo DEF Read
      <4>3. QED BY <3>3, <4>2 DEF Sending, OnItsWay
    <3>4. QED BY <1>2, <3>2, <3>3, ReadKeeps DEF Read, OnItsWay
  <2>3. QED BY <1>1, <1>2, <2>1, <2>2 DEF Read, DeliveryInv, Kept
<1>3. CASE Send
  <2>1. SendsById'
    BY <1>3 DEF Send, SendsById, Reading
  <2>2. PICK e \in Events, id \in Ids \cup {NoId} : reader = Sending(e, id)
    BY <1>3 DEF Send, TypeOK, Reading, Stopped
  <2>3. id = e.id /\ chan[id] = <<>>
    BY <1>3, <2>2 DEF Send, TypeOK, Full, Capacity, Sending, DeliveryInv, SendsById
  <2>4. chan' = [chan EXCEPT ![id] = Append(<<>>, e)]
    BY <1>3, <2>2, <2>3 DEF Send, Sending
  <2>5. Append(<<>>, e) = <<e>>
    OBVIOUS
  <2>6. ASSUME NEW i \in answered, call[i] \in {"posting", "waiting"} PROVE OnItsWay(i)'
    <3>1. i \in Ids
      BY DEF TypeOK
    <3>2. OnItsWay(i)
      BY <1>3, <2>6 DEF Send, DeliveryInv, Kept
    <3>3. CASE InStream(Response(i))
      BY <1>3, <3>3 DEF Send, OnItsWay, InStream
    <3>4. CASE reader.event = Response(i)
      <4>1. e = Response(i) /\ id = i
        BY <2>2, <2>3, <3>4 DEF Sending, Response, Event
      <4>2. QED BY <2>4, <2>5, <3>1, <4>1 DEF OnItsWay, TypeOK
    <3>5. CASE chan[i] = <<Response(i)>>
      <4>1. <<Response(i)>> # <<>>
        OBVIOUS
      <4>2. i # id
        BY <2>3, <3>5, <4>1
      <4>3. chan'[i] = chan[i]
        BY <2>4, <3>1, <4>2 DEF TypeOK
      <4>4. QED BY <3>5, <4>3 DEF OnItsWay
    <3>6. QED BY <3>2, <3>3, <3>4, <3>5 DEF OnItsWay
  <2>7. QED BY <1>1, <1>3, <2>1, <2>6 DEF Send, DeliveryInv, Kept
<1>4. CASE StreamEnds
  BY <1>1, <1>4 DEF StreamEnds, Stopped, DeliveryInv, Kept, SendsById
<1>5. QED BY <1>2, <1>3, <1>4 DEF ReaderStep

\* So do the steps of the server: an answer is on its way when it was pushed.
LEMMA ServerDelivery == ASSUME TypeOK, DeliveryInv, ServerStep PROVE DeliveryInv'
<1> USE DEF callvars, servervars
<1>1. ASSUME NEW e \in Events, Push(e), answered' \ answered \subseteq {i \in Ids : e = Response(i)}
      PROVE  DeliveryInv'
  <2>1. UNCHANGED <<conn, call, chan, reader, received>>
    BY <1>1 DEF Push
  <2>2. ASSUME NEW i \in answered', call[i] \in {"posting", "waiting"}, reader.step # "stopped"
        PROVE  OnItsWay(i)'
    <3>1. CASE i \in answered
      BY <1>1, <2>1, <2>2, <3>1, PushKeeps DEF DeliveryInv, Kept, OnItsWay
    <3>2. CASE i \notin answered
      BY <1>1, <3>2, PushKeeps DEF OnItsWay
    <3>3. QED BY <3>1, <3>2
  <2>3. QED BY <2>1, <2>2 DEF DeliveryInv, Kept, Posted, SendsById
<1>2. CASE ServerEndpoint
  BY <1>1, <1>2, EventTypes DEF ServerEndpoint
<1>3. ASSUME NEW i \in Ids, ServerAnswer(i) PROVE DeliveryInv'
  BY <1>1, <1>3, EventTypes DEF ServerAnswer
<1>4. ASSUME NEW i \in Ids, ServerRepeat(i) PROVE DeliveryInv'
  BY <1>1, <1>4, EventTypes DEF ServerRepeat
<1>5. ASSUME NEW i \in Ids, ServerRequest(i) PROVE DeliveryInv'
  BY <1>1, <1>5, EventTypes DEF ServerRequest
<1>6. QED BY <1>2, <1>3, <1>4, <1>5 DEF ServerStep

\* connect starts the reader before anything is posted, and takes only from endpointCh.
LEMMA ConnectDelivery == ASSUME TypeOK, DeliveryInv, ConnectStep PROVE DeliveryInv'
<1> USE DEF callvars, servervars
<1>1. CASE GetOK
  <2>1. answered = {} /\ answered' = {}
    BY <1>1 DEF GetOK, DeliveryInv, Posted, TypeOK
  <2>2. QED BY <1>1, <2>1 DEF GetOK, DeliveryInv, Posted, SendsById, Kept, Reading
<1>2. CASE EndpointResolved
  <2>1. \A i \in Ids : chan'[i] = chan[i]
    BY <1>2, IdsAssumption DEF EndpointResolved, TypeOK, NoId
  <2>2. QED
    BY <1>2, <2>1 DEF EndpointResolved, DeliveryInv, Posted, SendsById, Kept, OnItsWay, InStream, TypeOK
<1>3. CASE GetFailed \/ EndpointCancelled \/ Close
  BY <1>3 DEF GetFailed, EndpointCancelled, Close, DeliveryInv, Posted, SendsById, Kept,
     OnItsWay, InStream
<1>4. QED BY <1>1, <1>2, <1>3 DEF ConnectStep

\* Every step of the connection keeps the delivery invariant.
LEMMA DeliveryStep == TypeOK /\ DeliveryInv /\ [Next]_vars => DeliveryInv'
<1> SUFFICES ASSUME TypeOK, DeliveryInv, [Next]_vars PROVE DeliveryInv'
  OBVIOUS
<1>1. CASE UNCHANGED vars
  BY <1>1 DEF vars, DeliveryInv, Posted, SendsById, Kept, OnItsWay, InStream
<1>2. QED BY <1>1, CallDelivery, ReaderDelivery, ServerDelivery, ConnectDelivery DEF Next

\* So it holds in every state.
LEMMA DeliveryInvariant == Spec => []DeliveryInv
<1>1. Init => DeliveryInv
  BY DEF Init, DeliveryInv, Posted, SendsById, Kept, Stopped
<1>2. QED BY <1>1, DeliveryStep, ConnTypeCorrect, PTL DEF Spec

\* No response is lost while its caller waits, whatever the server repeats or asks and
\* however many round trips share the connection.
THEOREM ResponsesKept == Spec => []NoLostResponse
<1>1. TypeOK /\ DeliveryInv => NoLostResponse
  BY DEF TypeOK, DeliveryInv, Kept, OnItsWay, InStream, NoLostResponse
<1>2. QED BY <1>1, DeliveryInvariant, ConnTypeCorrect, PTL

-----------------------------------------------------------------------------
(***************************************************************************)
(* Servers that send no requests: every caller gets its own response.      *)
(***************************************************************************)

\* The stream holds endpoint events and responses, the reader sends a response to the
\* channel of its id, and a channel holds its own id's response.
OwnInv ==
  /\ \A i \in Ids : ~InStream(Event("request", i))
  /\ reader.step = "sending" => reader.event \in {Event("endpoint", NoId), Response(reader.to)}
  /\ \A i \in Ids : chan[i] \in {<<>>, <<Response(i)>>}
  /\ OwnResponses

\* The elements of the stream after a push are those it had and the new one.
LEMMA PushOnly ==
  ASSUME TypeOK, NEW e \in Events, Push(e)
  PROVE  \A a : InStream(a)' => InStream(a) \/ a = e
<1>1. stream' = Append(stream, e) /\ stream \in Seq(Events)
  BY DEF Push, TypeOK
<1>2. QED BY <1>1, Appended DEF InStream

\* What is read was in the stream, and what remains too.
LEMMA ReadOnly ==
  ASSUME TypeOK, Read
  PROVE  /\ \A a : InStream(a)' => InStream(a)
         /\ InStream(Head(stream)) /\ Head(stream) \in Events
<1>1. stream' = Tail(stream) /\ stream # <<>> /\ stream \in Seq(Events)
  BY DEF Read, TypeOK
<1>2. QED BY <1>1, Tailed DEF InStream

\* The three kinds of events are different, and a response is known by its id.
LEMMA EventKinds ==
  /\ \A i \in Ids : Response(i).id = i /\ Response(i).kind = "response"
  /\ \A i, j \in Ids : Response(i) # Event("request", j)
  /\ \A e \in Events : \/ e = Event("endpoint", NoId)
                       \/ \E i \in Ids : e = Response(i) \/ e = Event("request", i)
BY DEF Events, Event, Response

\* A step of the reader hands an event on to its own id.
LEMMA SendStep ==
  ASSUME TypeOK, Send, SendsById
  PROVE  \E e \in Events :
           /\ reader = Sending(e, e.id) /\ e.id \in Ids \cup {NoId}
           /\ chan[e.id] = <<>> /\ chan' = [chan EXCEPT ![e.id] = <<e>>]
<1>1. PICK e \in Events, id \in Ids \cup {NoId} : reader = Sending(e, id)
  BY DEF Send, TypeOK, Reading, Stopped
<1>2. id = e.id /\ chan[id] = <<>>
  BY <1>1 DEF Send, TypeOK, Full, Capacity, Sending, SendsById
<1>3. chan' = [chan EXCEPT ![id] = Append(<<>>, e)]
  BY <1>1, <1>2 DEF Send, Sending
<1>4. Append(<<>>, e) = <<e>>
  OBVIOUS
<1>5. QED BY <1>1, <1>2, <1>3, <1>4

\* The server does not take back what it sent.
LEMMA SpentGrows ==
  ASSUME TypeOK, [Next]_vars
  PROVE  /\ spent'.requests = 0 => spent.requests = 0
         /\ spent'.repeats = 0 => spent.repeats = 0
<1> USE DEF callvars, servervars
<1>1. spent.requests \in Nat /\ spent.repeats \in Nat
  BY DEF TypeOK
<1>2. CASE UNCHANGED spent
  BY <1>2
<1>3. CASE ServerStep
  BY <1>1, <1>3 DEF ServerStep, ServerEndpoint, ServerAnswer, ServerRepeat, ServerRequest, TypeOK
<1>4. ASSUME NEW i \in Ids, CallStep(i) PROVE UNCHANGED spent
  BY <1>4 DEF CallStep, PostEnds, Subscribe, PostArrives, PostAccepted, PostFailed, Receive,
     GiveUp, Leave, Unsubscribe
<1>5. QED
  BY <1>2, <1>3, <1>4 DEF Next, ConnectStep, GetOK, GetFailed, EndpointResolved,
     EndpointCancelled, Close, ReaderStep, Read, Send, StreamEnds, vars

\* No step lets a caller get anything but its own response.
LEMMA OwnStep ==
  TypeOK /\ SendsById /\ (NoRequests => OwnInv) /\ [Next]_vars => (NoRequests => OwnInv)'
<1> SUFFICES ASSUME TypeOK, SendsById, NoRequests => OwnInv, [Next]_vars, NoRequests'
             PROVE  OwnInv'
  OBVIOUS
<1>0. OwnInv
  BY SpentGrows DEF NoRequests
<1> USE <1>0
<1> USE DEF callvars, servervars
<1>1. ASSUME UNCHANGED <<stream, reader>>,
             \A i \in Ids : chan'[i] \in {chan[i], <<>>},
             \A i \in Ids : outcome'[i] \in {outcome[i], Failed, Response(i)}
      PROVE  OwnInv'
  BY <1>1 DEF OwnInv, OwnResponses, InStream
<1>2. ASSUME NEW i \in Ids, CallStep(i) PROVE OwnInv'
  <2>1. UNCHANGED <<stream, reader>>
    BY <1>2 DEF CallStep, PostEnds, Subscribe, PostArrives, PostAccepted, PostFailed, Receive,
       GiveUp, Leave, Unsubscribe
  <2>2. \A j \in Ids : chan'[j] \in {chan[j], <<>>}
    BY <1>2 DEF CallStep, PostEnds, Subscribe, PostArrives, PostAccepted, PostFailed, Receive,
       GiveUp, Unsubscribe, TypeOK
  <2>3. CASE Receive(i)
    <3>1. chan[i] = <<Response(i)>>
      BY <2>3 DEF Receive, OwnInv
    <3>2. outcome' = [outcome EXCEPT ![i] = Response(i)]
      BY <2>3, <3>1 DEF Receive, Leave
    <3>3. QED BY <1>1, <2>1, <2>2, <3>2 DEF TypeOK
  <2>4. CASE PostFailed(i) \/ GiveUp(i)
    <3>1. outcome' = [outcome EXCEPT ![i] = Failed]
      BY <2>4 DEF PostFailed, GiveUp, Leave
    <3>2. QED BY <1>1, <2>1, <2>2, <3>1 DEF TypeOK
  <2>5. CASE UNCHANGED outcome
    BY <1>1, <2>1, <2>2, <2>5
  <2>6. QED
    BY <1>2, <2>3, <2>4, <2>5 DEF CallStep, PostEnds, Subscribe, PostArrives, PostAccepted, Unsubscribe
<1>3. CASE Read
  <2>1. UNCHANGED <<chan, outcome>> /\ HandleEvent(Head(stream))
    BY <1>3 DEF Read
  <2>2. \/ Head(stream) = Event("endpoint", NoId)
        \/ Head(stream).id \in Ids /\ Head(stream) = Response(Head(stream).id)
    BY <1>3, ReadOnly, EventKinds DEF OwnInv
  <2>3. reader' = Reading \/ reader' = Sending(Head(stream), Head(stream).id)
    BY <2>1, HandledTo
  <2>4. (reader.step = "sending" => reader.event \in {Event("endpoint", NoId), Response(reader.to)})'
    BY <2>2, <2>3 DEF Sending, Reading
  <2>5. QED BY <1>3, <2>1, <2>4, ReadOnly DEF OwnInv, OwnResponses
<1>4. CASE Send
  <2>1. PICK e \in Events :
          /\ reader = Sending(e, e.id) /\ e.id \in Ids \cup {NoId}
          /\ chan' = [chan EXCEPT ![e.id] = <<e>>]
    BY <1>4, SendStep
  <2>2. e.id \in Ids => e = Response(e.id)
    BY <1>4, <2>1, IdsAssumption DEF Send, OwnInv, Sending, Event, NoId
  <2>3. \A i \in Ids : chan'[i] \in {chan[i], <<Response(i)>>}
    BY <2>1, <2>2 DEF TypeOK
  <2>4. UNCHANGED <<stream, outcome>> /\ reader' = Reading
    BY <1>4 DEF Send
  <2>5. QED BY <2>3, <2>4 DEF OwnInv, OwnResponses, InStream, Reading
<1>5. CASE StreamEnds
  BY <1>5 DEF StreamEnds, OwnInv, OwnResponses, InStream, Stopped
<1>6. ASSUME NEW e \in Events, Push(e), \A i \in Ids : e # Event("request", i) PROVE OwnInv'
  <2>1. UNCHANGED <<chan, reader, outcome>>
    BY <1>6 DEF Push
  <2>2. QED BY <1>6, <2>1, PushOnly DEF OwnInv, OwnResponses
<1>7. CASE ServerStep
  <2>1. \A i \in Ids : ~ServerRequest(i)
    BY DEF ServerRequest, NoRequests, TypeOK
  <2>2. \A i, j \in Ids : Response(i) # Event("request", j)
    BY EventKinds
  <2>3. \A i \in Ids : Event("endpoint", NoId) # Event("request", i)
    BY DEF Event
  <2>4. QED
    BY <1>6, <1>7, <2>1, <2>2, <2>3, EventTypes DEF ServerStep, ServerEndpoint, ServerAnswer, ServerRepeat
<1>8. CASE ConnectStep
  <2>1. CASE GetOK
    BY <2>1 DEF GetOK, OwnInv, OwnResponses, InStream, Reading
  <2>2. CASE EndpointResolved
    BY <1>1, <2>2, IdsAssumption DEF EndpointResolved, TypeOK, NoId
  <2>3. CASE GetFailed \/ EndpointCancelled \/ Close
    BY <1>1, <2>3 DEF GetFailed, EndpointCancelled, Close
  <2>4. QED BY <1>8, <2>1, <2>2, <2>3 DEF ConnectStep
<1>9. CASE UNCHANGED vars
  BY <1>1, <1>9 DEF vars
<1>10. QED BY <1>2, <1>3, <1>4, <1>5, <1>7, <1>8, <1>9 DEF Next, ReaderStep

\* As long as the server sends no requests of its own, a round trip returns an error or
\* the response to its own request, whatever the server repeats.
THEOREM NoCrossTalkWithoutRequests == Spec => []NoCrossTalk
<1>1. Init => OwnInv
  BY DEF Init, OwnInv, OwnResponses, InStream, Stopped
<1>2. TypeOK /\ DeliveryInv /\ (NoRequests => OwnInv) /\ [Next]_vars => (NoRequests => OwnInv)'
  BY OwnStep DEF DeliveryInv
<1>3. (NoRequests => OwnInv) => NoCrossTalk
  BY DEF OwnInv, NoCrossTalk
<1>4. QED BY <1>1, <1>2, <1>3, ConnTypeCorrect, DeliveryInvariant, PTL DEF Spec

-----------------------------------------------------------------------------
(***************************************************************************)
(* Servers that also answer at most once: the reader never blocks.         *)
(***************************************************************************)

\* The response to i was sent and nobody has put it into i's channel.
InFlight(i) == InStream(Response(i)) \/ reader.event = Response(i)

\* A response is in one place at a time, and a channel is filled at most once: i's by the
\* response to i, endpointCh under endpointOnce.
OnceInv ==
  /\ \A i \in Ids : \A j, k \in DOMAIN stream : stream[j] = Response(i) /\ stream[k] = Response(i) => j = k
  /\ \A i \in Ids : ~(InStream(Response(i)) /\ reader.event = Response(i))
  /\ \A i \in Ids : InFlight(i) => i \in answered /\ chan[i] = <<>>
  /\ \A i \in Ids : chan[i] # <<>> => i \in answered
  /\ reader.event.kind = "endpoint" => once /\ chan[NoId] = <<>>
  /\ ~once => chan[NoId] = <<>>

\* The positions of a response in the stream.
SentOnce(i) == \A j, k \in DOMAIN stream : stream[j] = Response(i) /\ stream[k] = Response(i) => j = k

\* Pushing something else, or a response that was not there, keeps responses single.
LEMMA PushOnce ==
  ASSUME TypeOK, NEW e \in Events, Push(e), NEW i \in Ids, SentOnce(i),
         e = Response(i) => ~InStream(e)
  PROVE  SentOnce(i)'
<1>1. stream' = Append(stream, e) /\ stream \in Seq(Events)
  BY DEF Push, TypeOK
<1>2. QED BY <1>1, Appended DEF SentOnce, InStream

\* Reading keeps responses single, and the one that was read is no longer in the stream.
LEMMA ReadOnce ==
  ASSUME TypeOK, Read, NEW i \in Ids, SentOnce(i)
  PROVE  SentOnce(i)' /\ (Head(stream) = Response(i) => ~InStream(Response(i))')
<1>1. stream' = Tail(stream) /\ stream # <<>> /\ stream \in Seq(Events)
  BY DEF Read, TypeOK
<1>2. DOMAIN Tail(stream) \subseteq Nat
  BY <1>1, Tailed
<1>3. \A j, k \in DOMAIN Tail(stream) :
        Tail(stream)[j] = Response(i) /\ Tail(stream)[k] = Response(i) => j = k
  BY <1>1, <1>2, Tailed DEF SentOnce
<1>4. ASSUME Head(stream) = Response(i), NEW k \in DOMAIN Tail(stream)
      PROVE  Tail(stream)[k] # Response(i)
  BY <1>1, <1>4, Tailed DEF SentOnce
<1>5. QED BY <1>1, <1>3, <1>4 DEF SentOnce, InStream

\* No step makes a second message for a channel.
LEMMA OnceStep ==
  ASSUME TypeOK, SendsById, AnsweredOnce => OwnInv /\ OnceInv, [Next]_vars, AnsweredOnce'
  PROVE  OnceInv'
<1>a. OwnInv /\ OnceInv
  BY SpentGrows DEF AnsweredOnce
<1> USE <1>a
<1> USE DEF callvars, servervars
<1>0. \A i \in Ids : SentOnce(i)
  BY DEF OnceInv, SentOnce
<1>1. ASSUME UNCHANGED <<stream, reader, once, answered>>,
             \A i \in Ids \cup {NoId} : chan'[i] \in {chan[i], <<>>}
      PROVE  OnceInv'
  BY <1>1 DEF OnceInv, InFlight, InStream
<1>2. ASSUME NEW i \in Ids, CallStep(i) PROVE OnceInv'
  <2>1. UNCHANGED <<stream, reader, once, answered>>
    BY <1>2 DEF CallStep, PostEnds, Subscribe, PostArrives, PostAccepted, PostFailed, Receive,
       GiveUp, Leave, Unsubscribe
  <2>2. \A j \in Ids \cup {NoId} : chan'[j] \in {chan[j], <<>>}
    BY <1>2 DEF CallStep, PostEnds, Subscribe, PostArrives, PostAccepted, PostFailed, Receive,
       GiveUp, Unsubscribe, TypeOK
  <2>3. QED BY <1>1, <2>1, <2>2
<1>3. CASE Read
  <2> DEFINE e == Head(stream)
  <2>1. /\ UNCHANGED <<chan, answered>> /\ HandleEvent(e) /\ reader.event = None
        /\ InStream(e) /\ e \in Events
    BY <1>3, ReadOnly DEF Read, Reading
  <2>2. once' = (once \/ e.kind = "endpoint")
    BY <2>1 DEF HandleEvent
  <2>3. reader'.event = None \/ reader'.event = e
    BY <2>1, HandledTo DEF Sending, Reading
  <2>4. reader'.event.kind = "endpoint" => reader'.event = e /\ ~once
    BY <2>1, EventTypes, IdsAssumption DEF HandleEvent, Sending, Reading, None, Event, TypeOK
  <2>5. ASSUME NEW i \in Ids
        PROVE  /\ SentOnce(i)' /\ ~(InStream(Response(i)) /\ reader.event = Response(i))'
               /\ InFlight(i)' => InStream(Response(i))
    <3>1. Response(i) # None
      BY DEF Response, None, Event
    <3>2. QED BY <1>0, <1>3, <2>1, <2>3, <3>1, ReadOnce, ReadOnly DEF InFlight
  <2>6. QED BY <2>1, <2>2, <2>4, <2>5 DEF OnceInv, InFlight, SentOnce
<1>4. CASE Send
  <2>1. PICK e \in Events :
          /\ reader = Sending(e, e.id) /\ e.id \in Ids \cup {NoId}
          /\ chan[e.id] = <<>> /\ chan' = [chan EXCEPT ![e.id] = <<e>>]
    BY <1>4, SendStep
  <2>2. UNCHANGED <<stream, once, answered>> /\ reader'.event = None
    BY <1>4 DEF Send, Reading
  <2>3. reader.event = e
    BY <2>1 DEF Sending
  <2>4. \A i \in Ids : Response(i) # None
    BY DEF Response, None, Event
  <2>5. CASE e = Event("endpoint", NoId)
    <3>1. e.id = NoId /\ e.kind = "endpoint"
      BY <2>5 DEF Event
    <3>2. once /\ \A i \in Ids : chan'[i] = chan[i]
      BY <2>1, <2>3, <3>1, IdsAssumption DEF OnceInv, TypeOK, NoId
    <3>3. QED BY <2>2, <2>4, <3>2 DEF OnceInv, InFlight, InStream, None, Event
  <2>6. CASE e # Event("endpoint", NoId)
    <3>1. PICK i \in Ids : e = Response(i)
      BY <2>1, <2>3, <2>6 DEF OwnInv, Sending, Events, Response, Event
    <3>2. e.id = i /\ i \in answered /\ ~InStream(Response(i))
      BY <2>3, <3>1 DEF OnceInv, InFlight, Response, Event
    <3>3. chan'[NoId] = chan[NoId] /\ \A j \in Ids \ {i} : chan'[j] = chan[j]
      BY <2>1, <3>2, IdsAssumption DEF TypeOK, NoId
    <3>4. QED BY <2>2, <2>4, <3>2, <3>3 DEF OnceInv, InFlight, InStream, None, Event
  <2>7. QED BY <2>5, <2>6
<1>5. CASE StreamEnds
  BY <1>5 DEF StreamEnds, OnceInv, InFlight, InStream, Stopped, None, Event, Response
<1>6. ASSUME NEW e \in Events, Push(e), answered \subseteq answered',
             \A i \in Ids : e = Response(i) => i \in answered' \ answered
      PROVE  OnceInv'
  <2>1. UNCHANGED <<chan, reader, once>>
    BY <1>6 DEF Push
  <2>2. ASSUME NEW i \in Ids
        PROVE  /\ SentOnce(i)' /\ ~(InStream(Response(i)) /\ reader.event = Response(i))'
               /\ InFlight(i)' => i \in answered' /\ chan[i] = <<>>
    <3>1. CASE e = Response(i)
      <4>1. i \in answered' /\ ~InFlight(i) /\ chan[i] = <<>>
        BY <1>6, <2>2, <3>1 DEF OnceInv
      <4>2. QED BY <1>0, <1>6, <2>1, <3>1, <4>1, PushOnce DEF InFlight
    <3>2. CASE e # Response(i)
      <4>1. InStream(Response(i))' => InStream(Response(i))
        BY <1>6, <3>2, PushOnly
      <4>2. QED BY <1>0, <1>6, <2>1, <3>2, <4>1, PushOnce DEF InFlight, OnceInv
    <3>3. QED BY <3>1, <3>2
  <2>3. QED BY <1>6, <2>1, <2>2 DEF OnceInv, InFlight, SentOnce
<1>7. CASE ServerStep
  <2>1. \A i \in Ids : ~ServerRequest(i) /\ ~ServerRepeat(i)
    BY DEF ServerRequest, ServerRepeat, AnsweredOnce, TypeOK
  <2>2. CASE ServerEndpoint
    <3>1. \A i \in Ids : Event("endpoint", NoId) # Response(i)
      BY DEF Event, Response
    <3>2. QED BY <1>6, <2>2, <3>1, EventTypes DEF ServerEndpoint
  <2>3. ASSUME NEW i \in Ids, ServerAnswer(i) PROVE OnceInv'
    <3>1. \A j \in Ids : Response(i) = Response(j) => i = j
      BY DEF Response, Event
    <3>2. QED BY <1>6, <2>3, <3>1, EventTypes DEF ServerAnswer
  <2>4. QED BY <1>7, <2>1, <2>2, <2>3 DEF ServerStep
<1>8. CASE ConnectStep
  <2>1. CASE GetOK
    BY <2>1 DEF GetOK, OnceInv, InFlight, InStream, Reading, None, Event, Response
  <2>2. CASE EndpointResolved
    BY <1>1, <2>2 DEF EndpointResolved, TypeOK
  <2>3. CASE GetFailed \/ EndpointCancelled \/ Close
    BY <1>1, <2>3 DEF GetFailed, EndpointCancelled, Close
  <2>4. QED BY <1>8, <2>1, <2>2, <2>3 DEF ConnectStep
<1>9. CASE UNCHANGED vars
  BY <1>1, <1>9 DEF vars
<1>10. QED BY <1>2, <1>3, <1>4, <1>5, <1>7, <1>8, <1>9 DEF Next, ReaderStep

\* As long as the server sends no requests of its own and repeats nothing, the reader never
\* waits for a caller, however often callers give up and however many endpoint events come.
THEOREM ReaderNeverBlocksWhenAnsweredOnce == Spec => []ReaderNeverBlocks
<1> DEFINE Inv == (NoRequests => OwnInv) /\ (AnsweredOnce => OnceInv)
<1>1. Init => OwnInv /\ OnceInv
  BY DEF Init, OwnInv, OnceInv, InFlight, OwnResponses, InStream, Stopped, None, Event, Response
<1>2. TypeOK /\ DeliveryInv /\ Inv /\ [Next]_vars => Inv'
  <2> SUFFICES ASSUME TypeOK, DeliveryInv, Inv, [Next]_vars PROVE Inv'
    OBVIOUS
  <2>1. (NoRequests => OwnInv)'
    BY OwnStep DEF DeliveryInv
  <2>2. ASSUME AnsweredOnce' PROVE OnceInv'
    BY <2>2, OnceStep DEF DeliveryInv, AnsweredOnce, NoRequests
  <2>3. QED BY <2>1, <2>2
<1>3. TypeOK /\ DeliveryInv /\ Inv => ReaderNeverBlocks
  <2> SUFFICES ASSUME TypeOK, DeliveryInv, OwnInv, OnceInv, reader.step = "sending"
               PROVE  ~Full(reader.to)
    BY DEF ReaderNeverBlocks, AnsweredOnce, NoRequests
  <2>1. chan[reader.to] = <<>>
    <3>1. reader.to = reader.event.id /\ reader.to \in Ids \cup {NoId}
      BY DEF DeliveryInv, SendsById, TypeOK, Sending, Reading, Stopped
    <3>2. CASE reader.event = Event("endpoint", NoId)
      BY <3>1, <3>2 DEF OnceInv, Event
    <3>3. CASE reader.event = Response(reader.to)
      <4>1. reader.to \in Ids
        <5>1. reader.event \in Events
          BY DEF TypeOK, Sending, Reading, Stopped
        <5>2. reader.event.kind # "endpoint"
          BY <3>3 DEF Response, Event
        <5>3. QED BY <3>1, <5>1, <5>2, EventTypes
      <4>2. QED BY <3>3, <4>1 DEF OnceInv, InFlight
    <3>4. QED BY <3>2, <3>3 DEF OwnInv
  <2>2. QED BY <2>1 DEF Full, Capacity
<1>4. QED BY <1>1, <1>2, <1>3, ConnTypeCorrect, DeliveryInvariant, PTL DEF Spec

-----------------------------------------------------------------------------
(***************************************************************************)
(* The connection implements RoundTrips.                                   *)
(***************************************************************************)

\* The server has sent what is in e: an answer, or a request of its own.
Genuine(e) ==
  /\ e.kind = "response" => e.id \in answered
  /\ e.kind = "request" => ~NoRequests

\* A round trip has an outcome exactly when its caller has left.
Outcomes ==
  \A i \in Ids : /\ outcome[i] \in {None, Failed, Response(i), Event("request", i)}
                 /\ outcome[i] = None <=> call[i] \in {"new", "posting", "waiting"}

\* What is under way was sent and is with its own id.
GenuineInv ==
  /\ \A e \in Events : InStream(e) => Genuine(e)
  /\ reader.step = "sending" => Genuine(reader.event)
  /\ \A i \in Ids, e \in Events : chan[i] = <<e>> => e.id = i /\ Genuine(e)
  /\ Outcomes

\* What was sent stays sent.
LEMMA GenuineStays ==
  ASSUME TypeOK, [Next]_vars, NEW e, Genuine(e)
  PROVE  Genuine(e)'
<1> USE DEF callvars, servervars
<1>1. answered \subseteq answered'
  <2>1. CASE ServerStep
    BY <2>1 DEF ServerStep, ServerEndpoint, ServerAnswer, ServerRepeat, ServerRequest
  <2>2. ASSUME NEW i \in Ids, CallStep(i) PROVE UNCHANGED answered
    BY <2>2 DEF CallStep, PostEnds, Subscribe, PostArrives, PostAccepted, PostFailed, Receive,
       GiveUp, Leave, Unsubscribe
  <2>3. QED
    BY <2>1, <2>2 DEF Next, ConnectStep, GetOK, GetFailed, EndpointResolved,
       EndpointCancelled, Close, ReaderStep, Read, Send, StreamEnds, vars
<1>2. ~NoRequests => ~NoRequests'
  BY SpentGrows DEF NoRequests
<1>3. QED BY <1>1, <1>2 DEF Genuine

\* What a caller finds in its channel: the answer to its request, or a request with its id.
LEMMA ReceivedEvent ==
  ASSUME TypeOK, GenuineInv, NEW i \in Ids, chan[i] # <<>>
  PROVE  /\ Head(chan[i]) = Response(i) => i \in answered
         /\ Head(chan[i]) = Event("request", i) => ~NoRequests
         /\ Head(chan[i]) \in {Response(i), Event("request", i)}
<1>1. PICK e \in Events : chan[i] = <<e>>
  BY DEF TypeOK
<1>2. Head(chan[i]) = e /\ e.id = i /\ Genuine(e)
  BY <1>1 DEF GenuineInv
<1>3. e = Event(e.kind, i) /\ e.kind \in {"response", "request"}
  BY <1>2, EventKinds, EventTypes, IdsAssumption DEF Event, Response, NoId
<1>4. QED BY <1>2, <1>3 DEF Genuine, Response, Event

\* A round trip's steps take an event from its channel or leave it, and the caller that
\* leaves has an outcome.
LEMMA CallGenuine ==
  ASSUME TypeOK, GenuineInv, NEW i \in Ids, CallStep(i)
  PROVE  GenuineInv'
<1> USE DEF callvars, servervars
<1>1. UNCHANGED <<stream, reader, answered, spent>>
  BY DEF CallStep, PostEnds, Subscribe, PostArrives, PostAccepted, PostFailed, Receive,
     GiveUp, Leave, Unsubscribe
<1>2. \A j \in Ids : chan'[j] \in {chan[j], <<>>}
  BY DEF CallStep, PostEnds, Subscribe, PostArrives, PostAccepted, PostFailed, Receive,
     GiveUp, Unsubscribe, TypeOK
<1>3. Outcomes'
  <2>1. ASSUME NEW result \in {Failed, Response(i), Event("request", i)}, Leave(i, result)
        PROVE  Outcomes'
    <3>1. result # None
      BY <2>1 DEF Response, Failed, None, Event
    <3>2. QED BY <2>1, <3>1 DEF Leave, GenuineInv, Outcomes, TypeOK
  <2>2. CASE PostFailed(i) \/ GiveUp(i)
    BY <2>1, <2>2 DEF PostFailed, GiveUp
  <2>3. CASE Receive(i)
    BY <2>1, <2>3, ReceivedEvent DEF Receive
  <2>4. CASE Subscribe(i) \/ PostArrives(i) \/ PostAccepted(i) \/ Unsubscribe(i)
    BY <2>4 DEF Subscribe, PostArrives, PostAccepted, Unsubscribe, GenuineInv, Outcomes, TypeOK
  <2>5. QED BY <2>2, <2>3, <2>4 DEF CallStep, PostEnds
<1>4. \A j \in Ids, e \in Events : chan'[j] = <<e>> => chan[j] = <<e>>
  <2>1. \A e : <<e>> # <<>>
    OBVIOUS
  <2>2. QED BY <1>2, <2>1
<1>5. \A e : Genuine(e)' <=> Genuine(e)
  BY <1>1 DEF Genuine, NoRequests
<1>6. \A e \in Events : InStream(e)' => Genuine(e)'
  BY <1>1, <1>5 DEF GenuineInv, InStream
<1>7. (reader.step = "sending" => Genuine(reader.event))'
  BY <1>1 DEF GenuineInv, Genuine, NoRequests
<1>8. \A j \in Ids, e \in Events : chan'[j] = <<e>> => e.id = j /\ Genuine(e)'
  BY <1>4, <1>5 DEF GenuineInv
<1>9. QED BY <1>3, <1>6, <1>7, <1>8 DEF GenuineInv

\* No step puts anything under way that the server has not sent.
LEMMA GenuineStep == TypeOK /\ SendsById /\ GenuineInv /\ [Next]_vars => GenuineInv'
<1> SUFFICES ASSUME TypeOK, SendsById, GenuineInv, [Next]_vars PROVE GenuineInv'
  OBVIOUS
<1> USE DEF callvars, servervars
<1>1. ASSUME UNCHANGED <<call, outcome>>,
             \A e \in Events : InStream(e)' => Genuine(e)',
             (reader.step = "sending" => Genuine(reader.event))',
             \A i \in Ids, e \in Events : chan'[i] = <<e>> => chan[i] = <<e>> \/ (e.id = i /\ Genuine(e)')
      PROVE  GenuineInv'
  BY <1>1, GenuineStays DEF GenuineInv, Outcomes
<1>2. CASE Read
  <2>1. PICK a \in Events : a = Head(stream) /\ InStream(a)
    BY <1>2, ReadOnly
  <2>2. UNCHANGED <<chan, call, outcome>> /\ HandleEvent(a)
    BY <1>2, <2>1 DEF Read
  <2>3. Genuine(a)'
    BY <2>1, GenuineStays DEF GenuineInv
  <2>4. (reader.step = "sending" => Genuine(reader.event))'
    <3>1. reader' = Reading \/ reader' = Sending(a, a.id)
      BY <2>2, HandledTo
    <3>2. QED BY <2>3, <3>1 DEF Reading, Sending, Genuine
  <2>5. \A e \in Events : InStream(e)' => Genuine(e)'
    BY <1>2, ReadOnly, GenuineStays DEF GenuineInv
  <2>6. QED BY <1>1, <2>2, <2>4, <2>5
<1>3. CASE Send
  <2>1. PICK a \in Events :
          /\ reader = Sending(a, a.id) /\ a.id \in Ids \cup {NoId}
          /\ chan' = [chan EXCEPT ![a.id] = <<a>>]
    BY <1>3, SendStep
  <2>2. UNCHANGED <<stream, call, outcome>> /\ reader' = Reading
    BY <1>3 DEF Send
  <2>3. Genuine(a)'
    BY <2>1, GenuineStays DEF GenuineInv, Sending
  <2>4. ASSUME NEW i \in Ids, NEW e \in Events, chan'[i] = <<e>>
        PROVE  chan[i] = <<e>> \/ (e.id = i /\ Genuine(e)')
    <3>1. CASE i = a.id
      <4>1. e = a
        BY <2>1, <2>4, <3>1 DEF TypeOK
      <4>2. QED BY <2>3, <3>1, <4>1
    <3>2. CASE i # a.id
      BY <2>1, <2>4, <3>2 DEF TypeOK
    <3>3. QED BY <3>1, <3>2
  <2>5. \A e \in Events : InStream(e)' => Genuine(e)'
    BY <2>2, GenuineStays DEF GenuineInv, InStream
  <2>6. QED BY <1>1, <2>2, <2>4, <2>5 DEF Reading
<1>4. ASSUME NEW e \in Events, Push(e), Genuine(e)' PROVE GenuineInv'
  <2>1. UNCHANGED <<chan, reader, call, outcome>>
    BY <1>4 DEF Push
  <2>2. \A a \in Events : InStream(a)' => Genuine(a)'
    BY <1>4, PushOnly, GenuineStays DEF GenuineInv
  <2>3. (reader.step = "sending" => Genuine(reader.event))'
    BY <2>1, GenuineStays DEF GenuineInv, Genuine
  <2>4. QED BY <1>1, <2>1, <2>2, <2>3
<1>5. CASE ServerStep
  <2>1. CASE ServerEndpoint
    <3>1. Genuine(Event("endpoint", NoId))'
      BY DEF Genuine, Event
    <3>2. QED BY <1>4, <2>1, <3>1, EventTypes DEF ServerEndpoint
  <2>2. ASSUME NEW i \in Ids, ServerAnswer(i) \/ ServerRepeat(i) PROVE GenuineInv'
    <3>1. Genuine(Response(i))'
      BY <2>2 DEF ServerAnswer, ServerRepeat, Genuine, Response, Event
    <3>2. QED BY <1>4, <2>2, <3>1, EventTypes DEF ServerAnswer, ServerRepeat
  <2>3. ASSUME NEW i \in Ids, ServerRequest(i) PROVE GenuineInv'
    <3>1. spent'.requests = spent.requests + 1 /\ spent.requests \in Nat
      BY <2>3 DEF ServerRequest, TypeOK
    <3>2. Genuine(Event("request", i))'
      BY <3>1 DEF Genuine, Event, NoRequests
    <3>3. QED BY <1>4, <2>3, <3>2, EventTypes DEF ServerRequest
  <2>4. QED BY <1>5, <2>1, <2>2, <2>3 DEF ServerStep
<1>6. ASSUME UNCHANGED <<call, outcome, answered, spent>>,
             stream' \in {stream, <<>>}, reader' \in {reader, Reading, Stopped},
             \A i \in Ids : chan'[i] = chan[i]
      PROVE  GenuineInv'
  BY <1>6 DEF GenuineInv, Outcomes, Genuine, NoRequests, InStream, Reading, Stopped
<1>7. CASE StreamEnds
  BY <1>6, <1>7 DEF StreamEnds
<1>8. CASE ConnectStep
  <2>1. \A i \in Ids : chan'[i] = chan[i]
    BY <1>8, IdsAssumption DEF ConnectStep, GetOK, GetFailed, EndpointResolved,
       EndpointCancelled, Close, TypeOK, NoId
  <2>2. QED
    BY <1>6, <1>8, <2>1 DEF ConnectStep, GetOK, GetFailed, EndpointResolved, EndpointCancelled, Close
<1>9. CASE UNCHANGED vars
  BY <1>6, <1>9 DEF vars
<1>10. QED BY <1>2, <1>3, <1>5, <1>7, <1>8, <1>9, CallGenuine DEF Next, ReaderStep

\* It holds in every state.
LEMMA GenuineInvariant == Spec => []GenuineInv
<1>1. Init => GenuineInv
  BY DEF Init, GenuineInv, Outcomes, InStream, Stopped
<1>2. TypeOK /\ DeliveryInv /\ GenuineInv /\ [Next]_vars => GenuineInv'
  BY GenuineStep DEF DeliveryInv
<1>3. QED BY <1>1, <1>2, ConnTypeCorrect, DeliveryInvariant, PTL DEF Spec

\* What RoundTrips can tell apart in a state of the connection.
tripvars == <<trip, answered, ~NoRequests>>

\* How a round trip ended is known from its outcome; no two of the ends coincide.
LEMMA TripCases ==
  ASSUME NEW i \in Ids
  PROVE  /\ outcome[i] = None => trip[i] = IF call[i] = "new" THEN "new" ELSE "open"
         /\ outcome[i] = Failed => trip[i] = "failed"
         /\ outcome[i] = Response(i) => trip[i] = "answered"
         /\ outcome[i] = Event("request", i) => trip[i] = "misled"
BY DEF trip, None, Failed, Response, Event

\* trip depends only on the outcomes and on whether the caller has subscribed.
LEMMA TripFrame ==
  ASSUME UNCHANGED outcome, \A i \in Ids : call'[i] = "new" <=> call[i] = "new"
  PROVE  trip' = trip
BY DEF trip

\* trip is a function on the round trips.
LEMMA TripFunction ==
  /\ trip = [i \in Ids |-> trip[i]]
  /\ trip' = [i \in Ids |-> trip'[i]]
BY DEF trip

\* A caller that leaves ends its own round trip and no other.
LEMMA TripLeaves ==
  ASSUME TypeOK, GenuineInv, NEW i \in Ids, call[i] \in {"posting", "waiting"},
         NEW result, Leave(i, result)
  PROVE  /\ trip[i] = "open"
         /\ result = Failed => trip' = [trip EXCEPT ![i] = "failed"]
         /\ result = Response(i) => trip' = [trip EXCEPT ![i] = "answered"]
         /\ result = Event("request", i) => trip' = [trip EXCEPT ![i] = "misled"]
<1>1. outcome' = [outcome EXCEPT ![i] = result] /\ call' = [call EXCEPT ![i] = "leaving"]
  BY DEF Leave
<1>2. trip[i] = "open"
  BY TripCases DEF GenuineInv, Outcomes
<1>3. /\ result = Failed => trip'[i] = "failed"
      /\ result = Response(i) => trip'[i] = "answered"
      /\ result = Event("request", i) => trip'[i] = "misled"
  <2>1. outcome'[i] = result
    BY <1>1 DEF TypeOK
  <2>2. QED BY <2>1 DEF trip, None, Failed, Response, Event
<1>4. ASSUME NEW j \in Ids, j # i PROVE trip'[j] = trip[j]
  <2>1. outcome'[j] = outcome[j] /\ call'[j] = call[j]
    BY <1>1, <1>4 DEF TypeOK
  <2>2. QED BY <2>1 DEF trip
<1>5. ASSUME NEW how, trip'[i] = how PROVE trip' = [trip EXCEPT ![i] = how]
  BY <1>4, <1>5, TripFunction
<1>6. QED BY <1>2, <1>3, <1>5

\* Every step of the connection is a step of RoundTrips or none.
LEMMA TripStep ==
  ASSUME TypeOK, Posted, GenuineInv, [Next]_vars
  PROVE  [Trips!Next]_tripvars
<1> USE DEF callvars, servervars
<1>1. ASSUME UNCHANGED <<call, outcome, answered, spent>> PROVE UNCHANGED tripvars
  BY <1>1, TripFrame DEF tripvars, NoRequests
<1>2. ASSUME NEW i \in Ids, Subscribe(i) PROVE Trips!Ask(i)
  <2>1. outcome[i] = None /\ trip[i] = "new"
    BY <1>2, TripCases DEF Subscribe, GenuineInv, Outcomes
  <2>2. trip' = [trip EXCEPT ![i] = "open"]
    <3>1. call' = [call EXCEPT ![i] = "posting"] /\ outcome' = outcome
      BY <1>2 DEF Subscribe
    <3>2. trip'[i] = "open"
      BY <2>1, <3>1 DEF trip, TypeOK
    <3>3. \A j \in Ids \ {i} : trip'[j] = trip[j]
      BY <3>1 DEF trip, TypeOK
    <3>4. QED BY <3>2, <3>3, TripFunction
  <2>3. i = InitializeId \/ Trips!Greeted
    <3>1. ASSUME Initialized PROVE Trips!Greeted
      <4>1. outcome[InitializeId] # None /\ outcome[InitializeId] # Failed
        BY <3>1, IdsAssumption DEF Initialized, GenuineInv, Outcomes
      <4>2. trip[InitializeId] \in {"answered", "misled"}
        BY <4>1, IdsAssumption, TripCases DEF GenuineInv, Outcomes
      <4>3. QED BY <4>2 DEF Trips!Greeted
    <3>2. QED BY <1>2, <3>1 DEF Subscribe
  <2>4. UNCHANGED <<answered, spent>>
    BY <1>2 DEF Subscribe
  <2>5. QED BY <2>1, <2>2, <2>3, <2>4 DEF Trips!Ask, NoRequests
<1>3. ASSUME NEW i \in Ids, PostFailed(i) \/ GiveUp(i) PROVE Trips!Fail(i)
  <2>1. call[i] \in {"posting", "waiting"} /\ Leave(i, Failed)
    BY <1>3 DEF PostFailed, GiveUp
  <2>2. trip[i] = "open" /\ trip' = [trip EXCEPT ![i] = "failed"]
    BY <2>1, TripLeaves
  <2>3. UNCHANGED <<answered, spent>>
    BY <2>1 DEF Leave
  <2>4. QED BY <2>2, <2>3 DEF Trips!Fail, Trips!End, NoRequests
<1>4. ASSUME NEW i \in Ids, Receive(i) PROVE Trips!Return(i) \/ Trips!Mislead(i)
  <2>1. PICK result : result = Head(chan[i]) /\ Leave(i, result)
    BY <1>4 DEF Receive
  <2>2. /\ result \in {Response(i), Event("request", i)}
        /\ result = Response(i) => i \in answered
        /\ result = Event("request", i) => ~NoRequests
    BY <1>4, <2>1, ReceivedEvent DEF Receive
  <2>3. /\ trip[i] = "open"
        /\ result = Response(i) => trip' = [trip EXCEPT ![i] = "answered"]
        /\ result = Event("request", i) => trip' = [trip EXCEPT ![i] = "misled"]
    BY <1>4, <2>1, TripLeaves DEF Receive
  <2>4. UNCHANGED <<answered, spent>>
    BY <2>1 DEF Leave
  <2>5. QED BY <2>2, <2>3, <2>4 DEF Trips!Return, Trips!Mislead, Trips!End, NoRequests
<1>5. ASSUME NEW i \in Ids, PostArrives(i) \/ PostAccepted(i) \/ Unsubscribe(i)
      PROVE  UNCHANGED tripvars
  <2>1. UNCHANGED <<outcome, answered, spent>>
    BY <1>5 DEF PostArrives, PostAccepted, Unsubscribe
  <2>2. \A j \in Ids : call'[j] = "new" <=> call[j] = "new"
    BY <1>5 DEF PostArrives, PostAccepted, Unsubscribe, TypeOK
  <2>3. QED BY <2>1, <2>2, TripFrame DEF tripvars, NoRequests
<1>6. ASSUME NEW i \in Ids, ServerAnswer(i) PROVE Trips!Answer(i)
  <2>1. i \in received \ answered /\ answered' = answered \cup {i} /\ UNCHANGED <<call, outcome, spent>>
    BY <1>6 DEF ServerAnswer, Push
  <2>2. call[i] # "new"
    BY <2>1 DEF Posted
  <2>3. trip[i] # "new"
    BY <2>2, TripCases DEF GenuineInv, Outcomes
  <2>4. trip' = trip
    BY <2>1, TripFrame
  <2>5. QED BY <2>1, <2>3, <2>4 DEF Trips!Answer, NoRequests
<1>7. ASSUME NEW i \in Ids, ServerRequest(i) PROVE Trips!Intrude
  <2>1. /\ spent'.requests = spent.requests + 1 /\ spent.requests \in Nat
        /\ UNCHANGED <<call, outcome, answered>>
    BY <1>7 DEF ServerRequest, Push, TypeOK
  <2>2. trip' = trip
    BY <2>1, TripFrame
  <2>3. QED BY <2>1, <2>2 DEF Trips!Intrude, NoRequests
<1>8. ASSUME ServerEndpoint \/ \E i \in Ids : ServerRepeat(i) PROVE UNCHANGED tripvars
  <2>1. UNCHANGED <<call, outcome, answered>>
    BY <1>8 DEF ServerEndpoint, ServerRepeat, Push
  <2>2. spent'.requests = spent.requests
    BY <1>8 DEF ServerEndpoint, ServerRepeat, TypeOK
  <2>3. QED BY <2>1, <2>2, TripFrame DEF tripvars, NoRequests
<1>9. ASSUME NEW i \in Ids, CallStep(i) PROVE [Trips!Next]_tripvars
  BY <1>2, <1>3, <1>4, <1>5, <1>9 DEF CallStep, PostEnds, Trips!Next
<1>10. CASE ServerStep
  BY <1>6, <1>7, <1>8, <1>10 DEF ServerStep, Trips!Next
<1>11. CASE ConnectStep
  BY <1>1, <1>11 DEF ConnectStep, GetOK, GetFailed, EndpointResolved, EndpointCancelled, Close
<1>12. CASE ReaderStep
  BY <1>1, <1>12 DEF ReaderStep, Read, Send, StreamEnds
<1>13. CASE UNCHANGED vars
  BY <1>1, <1>13 DEF vars
<1>14. QED BY <1>9, <1>10, <1>11, <1>12, <1>13 DEF Next

\* A connection starts as RoundTrips does.
LEMMA TripInit == Init => Trips!Init
<1> SUFFICES ASSUME Init PROVE Trips!Init
  OBVIOUS
<1>1. \A i \in Ids : trip[i] = "new"
  BY TripCases DEF Init
<1>2. trip = [i \in Ids |-> "new"]
  BY <1>1, TripFunction
<1>3. QED BY <1>2 DEF Init, Trips!Init, NoRequests

\* However many callers share the connection, give up or come late, and whatever the server
\* repeats, asks or leaves out: each caller gets what RoundTrips promises it.
THEOREM RoundTripsImplemented == Spec => ImplementsRoundTrips
<1>1. TypeOK /\ DeliveryInv /\ GenuineInv /\ [Next]_vars
        => [Trips!Next]_<<trip, answered, ~NoRequests>>
  BY TripStep DEF DeliveryInv, tripvars
<1>2. QED
  BY <1>1, TripInit, ConnTypeCorrect, DeliveryInvariant, GenuineInvariant, PTL
     DEF Spec, ImplementsRoundTrips, Trips!Spec
=============================================================================
