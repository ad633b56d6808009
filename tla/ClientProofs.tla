---------------------------- MODULE ClientProofs ----------------------------
(***************************************************************************)
(* Type correctness and the safety properties of module Client, for any    *)
(* set of callers, any kind of opener and any number of requests.          *)
(***************************************************************************)
EXTENDS Client, TLAPS

\* Where the opener is and what it holds.
OpenerInv ==
  /\ step = "http" => trying \in {NilTp, "http1"} /\ tp = NilTp /\ open = {}
  /\ step = "sse" => trying \in Https /\ tp = NilTp /\ open = {}
  /\ step \in {"init", "notify"} => trying \in Transports /\ tp = NilTp /\ open \subseteq {trying}
  /\ step \in {"list", "listing", "shared"} =>
       trying \in Transports /\ tp = trying /\ open \subseteq {tp}
  /\ step \in {"list", "listing"} => kind # "reconnect"
  /\ step = "dropped" => open \subseteq {tp} /\ (kind # "retry" => open \subseteq {Sse})

\* Nobody but the opener uses the client before it is shared, and the opener has at most
\* one request under way.
ReqInv ==
  /\ \A u \in Callers : req[u].at # "none" => step = "shared" /\ req[u].tp = tp
  /\ req[Opener].at = "flying" => step \in {"init", "listing"} /\ req[Opener].tp = trying
  /\ req[Opener].at # "storing"

\* The counter has not fallen behind what was sent over the transport in use, and those
\* still to be tried are fresh.
IdInv ==
  /\ trying = NilTp => sent["http1"] = {}
  /\ trying \in {NilTp, "http1"} => sent["http2"] = {}
  /\ trying # Sse => sent[Sse] = {}
  /\ step \notin {"sse", "dropped"} /\ trying # NilTp => \A i \in sent[trying] : i <= idCounter

\* Under a server that keeps to its session id there is no other one, known, being stored
\* or in a request.
SessionInv ==
  \A t \in Https \ rotated :
    /\ sessionID[t] = greeting[t]
    /\ \A u \in Users :
         req[u].tp = t /\ req[u].at # "none" /\ ~(u = Opener /\ step = "init") => req[u].sid = greeting[t]

-----------------------------------------------------------------------------
LEMMA StepTypeOK == TypeOK /\ OpenerInv /\ [Next]_vars => TypeOK'
<1> SUFFICES ASSUME TypeOK, OpenerInv, [Next]_vars PROVE TypeOK'
  OBVIOUS
<1> USE DEF TypeOK, OpenerInv, Steps, Sids, Attempt, Header, KeepSession, NoReq, Flying, Storing, Done, Send, sessionvars, Transports, Https, Sse, NilTp, Users
<1>1. CASE TryHttp
  BY <1>1 DEF TryHttp
<1>2. CASE HttpInitFailed
  BY <1>2 DEF HttpInitFailed
<1>3. CASE SSEInitFailed
  BY <1>3 DEF SSEInitFailed
<1>4. CASE InitOK
  BY <1>4 DEF InitOK
<1>5. CASE ConnectSSE
  BY <1>5 DEF ConnectSSE
<1>6. CASE SSEFailed
  BY <1>6 DEF SSEFailed
<1>7. CASE Notified
  BY <1>7 DEF Notified
<1>8. CASE ListTools
  BY <1>8 DEF ListTools
<1>9. CASE ListOK
  BY <1>9 DEF ListOK
<1>10. CASE FallbackSSE
  BY <1>10 DEF FallbackSSE
<1>11. CASE ListFailed
  BY <1>11 DEF ListFailed
<1>12. CASE Close
  BY <1>12 DEF Close
<1>13. CASE StreamEnds
  BY <1>13 DEF StreamEnds
<1>14. ASSUME NEW c \in Callers, CallTool(c) PROVE TypeOK'
  <2>1. tp \in Https => ReadSession(tp) \subseteq Sids
    BY DEF ReadSession, Writes
  <2>2. PICK sid \in Sids : Send(c, tp, sid)
    BY <1>14, <2>1 DEF CallTool
  <2>3. tp \in Transports
    BY <1>14 DEF CallTool
  <2> QED
    BY <1>14, <2>2, <2>3 DEF CallTool
<1>15. ASSUME NEW c \in Callers, Answered(c) PROVE TypeOK'
  <2>1. CASE req[c].tp \in Https /\ greeting' = greeting
    <3>1. PICK sid \in Sids :
            /\ rotated' = IF sid \in {NoSid, greeting[req[c].tp]} THEN rotated ELSE rotated \cup {req[c].tp}
            /\ req' = [req EXCEPT ![c] = IF sid = NoSid THEN NoReq ELSE Storing(req[c].tp, sid)]
      BY <1>15, <2>1 DEF Answered
    <3> QED
      BY <1>15, <2>1, <3>1 DEF Answered
  <2>2. CASE req' = [req EXCEPT ![c] = NoReq] /\ UNCHANGED <<greeting, rotated>>
    BY <1>15, <2>2 DEF Answered
  <2> QED
    BY <1>15, <2>1, <2>2 DEF Answered
<1>16. ASSUME NEW c \in Callers, CallFailed(c) PROVE TypeOK'
  BY <1>16 DEF CallFailed
<1>17. ASSUME NEW c \in Callers, Stored(c) PROVE TypeOK'
  BY <1>17 DEF Stored
<1>18. CASE UNCHANGED vars
  BY <1>18 DEF vars, sessionvars
<1> QED
  BY <1>1, <1>2, <1>3, <1>4, <1>5, <1>6, <1>7, <1>8, <1>9, <1>10, <1>11, <1>12, <1>13,
     <1>14, <1>15, <1>16, <1>17, <1>18 DEF Next, OpenerStep, InitEnds, ListEnds,
     CallStep, CallEnds

LEMMA StepOpenerInv == TypeOK /\ OpenerInv /\ [Next]_vars => OpenerInv'
<1> SUFFICES ASSUME TypeOK, OpenerInv, [Next]_vars PROVE OpenerInv'
  OBVIOUS
<1> USE KindsAssumption DEF TypeOK, OpenerInv, Steps, Attempt, Done, Send, sessionvars, Transports, Https, Sse, NilTp
<1>1. CASE TryHttp
  BY <1>1 DEF TryHttp
<1>2. CASE HttpInitFailed
  BY <1>2 DEF HttpInitFailed
<1>3. CASE SSEInitFailed
  BY <1>3 DEF SSEInitFailed
<1>4. CASE InitOK
  BY <1>4 DEF InitOK
<1>5. CASE ConnectSSE
  BY <1>5 DEF ConnectSSE
<1>6. CASE SSEFailed
  BY <1>6 DEF SSEFailed
<1>7. CASE Notified
  BY <1>7 DEF Notified
<1>8. CASE ListTools
  BY <1>8 DEF ListTools
<1>9. CASE ListOK
  BY <1>9 DEF ListOK
<1>10. CASE FallbackSSE
  BY <1>10 DEF FallbackSSE
<1>11. CASE ListFailed
  BY <1>11 DEF ListFailed
<1>12. CASE Close
  BY <1>12 DEF Close
<1>13. CASE StreamEnds
  BY <1>13 DEF StreamEnds
<1>14. ASSUME NEW c \in Callers, CallTool(c) PROVE OpenerInv'
  BY <1>14 DEF CallTool
<1>15. ASSUME NEW c \in Callers, Answered(c) PROVE OpenerInv'
  BY <1>15 DEF Answered
<1>16. ASSUME NEW c \in Callers, CallFailed(c) PROVE OpenerInv'
  BY <1>16 DEF CallFailed
<1>17. ASSUME NEW c \in Callers, Stored(c) PROVE OpenerInv'
  BY <1>17 DEF Stored
<1>18. CASE UNCHANGED vars
  BY <1>18 DEF vars, sessionvars
<1> QED
  BY <1>1, <1>2, <1>3, <1>4, <1>5, <1>6, <1>7, <1>8, <1>9, <1>10, <1>11, <1>12, <1>13,
     <1>14, <1>15, <1>16, <1>17, <1>18 DEF Next, OpenerStep, InitEnds, ListEnds,
     CallStep, CallEnds

LEMMA StepReqInv == TypeOK /\ OpenerInv /\ ReqInv /\ [Next]_vars => ReqInv'
<1> SUFFICES ASSUME TypeOK, OpenerInv, ReqInv, [Next]_vars PROVE ReqInv'
  OBVIOUS
<1> USE OpenerAssumption DEF TypeOK, OpenerInv, ReqInv, Attempt, Done, Send, NoReq, Flying, Storing,
        sessionvars, Transports, Https, Sse, NilTp, Users
<1>1. CASE TryHttp
  BY <1>1 DEF TryHttp
<1>2. CASE HttpInitFailed
  BY <1>2 DEF HttpInitFailed
<1>3. CASE SSEInitFailed
  BY <1>3 DEF SSEInitFailed
<1>4. CASE InitOK
  BY <1>4 DEF InitOK
<1>5. CASE ConnectSSE
  BY <1>5 DEF ConnectSSE
<1>6. CASE SSEFailed
  BY <1>6 DEF SSEFailed
<1>7. CASE Notified
  BY <1>7 DEF Notified
<1>8. CASE ListTools
  BY <1>8 DEF ListTools
<1>9. CASE ListOK
  BY <1>9 DEF ListOK
<1>10. CASE FallbackSSE
  BY <1>10 DEF FallbackSSE
<1>11. CASE ListFailed
  BY <1>11 DEF ListFailed
<1>12. CASE Close
  BY <1>12 DEF Close
<1>13. CASE StreamEnds
  BY <1>13 DEF StreamEnds
<1>14. ASSUME NEW c \in Callers, CallTool(c) PROVE ReqInv'
  BY <1>14 DEF CallTool
<1>15. ASSUME NEW c \in Callers, Answered(c) PROVE ReqInv'
  BY <1>15 DEF Answered
<1>16. ASSUME NEW c \in Callers, CallFailed(c) PROVE ReqInv'
  BY <1>16 DEF CallFailed
<1>17. ASSUME NEW c \in Callers, Stored(c) PROVE ReqInv'
  BY <1>17 DEF Stored
<1>18. CASE UNCHANGED vars
  BY <1>18 DEF vars, sessionvars
<1> QED
  BY <1>1, <1>2, <1>3, <1>4, <1>5, <1>6, <1>7, <1>8, <1>9, <1>10, <1>11, <1>12, <1>13,
     <1>14, <1>15, <1>16, <1>17, <1>18 DEF Next, OpenerStep, InitEnds, ListEnds,
     CallStep, CallEnds

LEMMA StepIdInv == TypeOK /\ OpenerInv /\ ReqInv /\ IdInv /\ [Next]_vars => IdInv'
<1> SUFFICES ASSUME TypeOK, OpenerInv, ReqInv, IdInv, [Next]_vars PROVE IdInv'
  OBVIOUS
<1> USE DEF TypeOK, OpenerInv, ReqInv, IdInv, Attempt, Done, Send, Transports, Https, Sse, NilTp
<1>1. CASE TryHttp
  BY <1>1 DEF TryHttp
<1>2. CASE HttpInitFailed
  BY <1>2 DEF HttpInitFailed
<1>3. CASE SSEInitFailed
  BY <1>3 DEF SSEInitFailed
<1>4. CASE InitOK
  BY <1>4 DEF InitOK
<1>5. CASE ConnectSSE
  BY <1>5 DEF ConnectSSE
<1>6. CASE SSEFailed
  BY <1>6 DEF SSEFailed
<1>7. CASE Notified
  BY <1>7 DEF Notified
<1>8. CASE ListTools
  BY <1>8 DEF ListTools
<1>9. CASE ListOK
  BY <1>9 DEF ListOK
<1>10. CASE FallbackSSE
  BY <1>10 DEF FallbackSSE
<1>11. CASE ListFailed
  BY <1>11 DEF ListFailed
<1>12. CASE Close
  BY <1>12 DEF Close
<1>13. CASE StreamEnds
  BY <1>13 DEF StreamEnds
<1>14. ASSUME NEW c \in Callers, CallTool(c) PROVE IdInv'
  BY <1>14 DEF CallTool
<1>15. ASSUME NEW c \in Callers, Answered(c) PROVE IdInv'
  BY <1>15 DEF Answered
<1>16. ASSUME NEW c \in Callers, CallFailed(c) PROVE IdInv'
  BY <1>16 DEF CallFailed
<1>17. ASSUME NEW c \in Callers, Stored(c) PROVE IdInv'
  BY <1>17 DEF Stored
<1>18. CASE UNCHANGED vars
  BY <1>18 DEF vars, sessionvars
<1> QED
  BY <1>1, <1>2, <1>3, <1>4, <1>5, <1>6, <1>7, <1>8, <1>9, <1>10, <1>11, <1>12, <1>13,
     <1>14, <1>15, <1>16, <1>17, <1>18 DEF Next, OpenerStep, InitEnds, ListEnds,
     CallStep, CallEnds

LEMMA StepSessionInv ==
  TypeOK /\ OpenerInv /\ ReqInv /\ SessionInv /\ [Next]_vars => SessionInv'
<1> SUFFICES ASSUME TypeOK, OpenerInv, ReqInv, SessionInv, [Next]_vars PROVE SessionInv'
  OBVIOUS
<1> USE OpenerAssumption DEF TypeOK, OpenerInv, ReqInv, SessionInv, Attempt, Done, Send, NoReq,
        Flying, Storing, Header, KeepSession, sessionvars, Transports, Https, Sse, NilTp, Users
<1>1. CASE TryHttp
  BY <1>1 DEF TryHttp
<1>2. CASE HttpInitFailed
  BY <1>2 DEF HttpInitFailed
<1>3. CASE SSEInitFailed
  BY <1>3 DEF SSEInitFailed
<1>4. CASE InitOK
  BY <1>4 DEF InitOK
<1>5. CASE ConnectSSE
  BY <1>5 DEF ConnectSSE
<1>6. CASE SSEFailed
  BY <1>6 DEF SSEFailed
<1>7. CASE Notified
  BY <1>7 DEF Notified
<1>8. CASE ListTools
  BY <1>8 DEF ListTools
<1>9. CASE ListOK
  BY <1>9 DEF ListOK
<1>10. CASE FallbackSSE
  BY <1>10 DEF FallbackSSE
<1>11. CASE ListFailed
  BY <1>11 DEF ListFailed
<1>12. CASE Close
  BY <1>12 DEF Close
<1>13. CASE StreamEnds
  BY <1>13 DEF StreamEnds
<1>14. ASSUME NEW c \in Callers, CallTool(c) PROVE SessionInv'
  <2>1. tp \in Https /\ tp \notin rotated => ReadSession(tp) \subseteq {greeting[tp]}
    BY DEF ReadSession, Writes
  <2>2. PICK sid : /\ tp \in Https /\ tp \notin rotated => sid = greeting[tp]
                   /\ Send(c, tp, sid)
    BY <1>14, <2>1 DEF CallTool
  <2> QED
    BY <1>14, <2>2 DEF CallTool
<1>15. ASSUME NEW c \in Callers, Answered(c) PROVE SessionInv'
  BY <1>15 DEF Answered
<1>16. ASSUME NEW c \in Callers, CallFailed(c) PROVE SessionInv'
  BY <1>16 DEF CallFailed
<1>17. ASSUME NEW c \in Callers, Stored(c) PROVE SessionInv'
  <2> DEFINE t == req[c].tp
  <2>1. PICK sid : /\ sid \in {req[c].sid} \cup (IF Writes(t) = {req[c].sid} THEN {} ELSE {Torn})
                   /\ sessionID' = [sessionID EXCEPT ![t] = sid]
    BY <1>17 DEF Stored
  <2>2. t \in Https /\ t \notin rotated => sid = greeting[t]
    <3> SUFFICES ASSUME t \in Https, t \notin rotated PROVE sid = greeting[t]
      OBVIOUS
    <3>1. req[c].sid = greeting[t]
      BY <1>17 DEF Stored
    <3>2. Writes(t) = {req[c].sid}
      BY <1>17, <3>1 DEF Stored, Writes
    <3> QED
      BY <2>1, <3>1, <3>2
  <2>3. \A b \in Https \ rotated : sessionID'[b] = greeting[b]
    BY <2>1, <2>2
  <2> QED
    BY <1>17, <2>3 DEF Stored
<1>18. CASE UNCHANGED vars
  BY <1>18 DEF vars, sessionvars
<1> QED
  BY <1>1, <1>2, <1>3, <1>4, <1>5, <1>6, <1>7, <1>8, <1>9, <1>10, <1>11, <1>12, <1>13,
     <1>14, <1>15, <1>16, <1>17, <1>18 DEF Next, OpenerStep, InitEnds, ListEnds,
     CallStep, CallEnds

-----------------------------------------------------------------------------
Inv == TypeOK /\ OpenerInv /\ ReqInv /\ IdInv /\ SessionInv

LEMMA InitInv == Init => Inv
  BY KindsAssumption, OpenerAssumption
     DEF Init, Inv, TypeOK, OpenerInv, ReqInv, IdInv, SessionInv, Steps, Sids, NoReq, Users,
         Transports, Https, Sse, NilTp, NoSid

LEMMA Invariance == Spec => []Inv
<1>1. Inv /\ [Next]_vars => Inv'
  BY StepTypeOK, StepOpenerInv, StepReqInv, StepIdInv, StepSessionInv DEF Inv
<1> QED
  BY InitInv, <1>1, PTL DEF Spec

\* Every variable has its type; two attempts over Streamable HTTP are the most there are.
THEOREM TypeCorrect == Spec => []TypeOK
<1>1. Inv => TypeOK
  BY DEF Inv
<1> QED
  BY <1>1, Invariance, PTL

\* Whoever lists tools or calls one finds the transport of the last handshake.
THEOREM TransportIsSet == Spec => []HasTransport
<1>1. Inv => HasTransport
  BY DEF Inv, OpenerInv, HasTransport, Transports, Https, Sse, NilTp
<1> QED
  BY <1>1, Invariance, PTL

\* Every transport that was given up is closed.
THEOREM NothingIsLeftOpen == Spec => []NothingLeftOpen
<1>1. Inv => NothingLeftOpen
  BY DEF Inv, OpenerInv, NothingLeftOpen, TypeOK, Steps
<1> QED
  BY <1>1, Invariance, PTL

\* Requests keep the session of the server's answer to initialize, for any number of
\* callers, as long as the server does: the unsynchronised field does no harm.
THEOREM SessionIsKept == Spec => []SessionKept
<1>1. Inv => SessionKept
  BY DEF Inv, SessionInv, SessionKept
<1> QED
  BY <1>1, Invariance, PTL

LEMMA StepFreshIds ==
  ASSUME Inv, [Next]_vars, NEW u \in Users, req'[u].at = "flying", req'[u] # req[u]
  PROVE  req'[u].id \notin sent[req'[u].tp]
<1> USE OpenerAssumption DEF Inv, TypeOK, OpenerInv, IdInv, Attempt, Done, Send, NoReq, Flying,
        Storing, sessionvars, Transports, Https, Sse, NilTp, Users
<1>1. CASE TryHttp
  BY <1>1 DEF TryHttp
<1>2. CASE HttpInitFailed
  BY <1>2 DEF HttpInitFailed
<1>3. CASE SSEInitFailed
  BY <1>3 DEF SSEInitFailed
<1>4. CASE InitOK
  BY <1>4 DEF InitOK
<1>5. CASE ConnectSSE
  BY <1>5 DEF ConnectSSE
<1>6. CASE SSEFailed
  BY <1>6 DEF SSEFailed
<1>7. CASE Notified
  BY <1>7 DEF Notified
<1>8. CASE ListTools
  BY <1>8 DEF ListTools
<1>9. CASE ListOK
  BY <1>9 DEF ListOK
<1>10. CASE FallbackSSE
  BY <1>10 DEF FallbackSSE
<1>11. CASE ListFailed
  BY <1>11 DEF ListFailed
<1>12. CASE Close
  BY <1>12 DEF Close
<1>13. CASE StreamEnds
  BY <1>13 DEF StreamEnds
<1>14. ASSUME NEW c \in Callers, CallTool(c) PROVE req'[u].id \notin sent[req'[u].tp]
  BY <1>14 DEF CallTool
<1>15. ASSUME NEW c \in Callers, Answered(c) PROVE req'[u].id \notin sent[req'[u].tp]
  BY <1>15 DEF Answered
<1>16. ASSUME NEW c \in Callers, CallFailed(c) PROVE req'[u].id \notin sent[req'[u].tp]
  BY <1>16 DEF CallFailed
<1>17. ASSUME NEW c \in Callers, Stored(c) PROVE req'[u].id \notin sent[req'[u].tp]
  BY <1>17 DEF Stored
<1>18. CASE UNCHANGED vars
  BY <1>18 DEF vars, sessionvars
<1> QED
  BY <1>1, <1>2, <1>3, <1>4, <1>5, <1>6, <1>7, <1>8, <1>9, <1>10, <1>11, <1>12, <1>13,
     <1>14, <1>15, <1>16, <1>17, <1>18 DEF Next, OpenerStep, InitEnds, ListEnds,
     CallStep, CallEnds

\* No id is sent twice over one transport, for any number of callers and requests.
THEOREM IdsAreFresh == Spec => IdsNeverReused
<1>1. Inv /\ [Next]_vars =>
        [\A u \in Users :
           req'[u].at = "flying" /\ req'[u] # req[u] => req'[u].id \notin sent[req'[u].tp]]_vars
  BY StepFreshIds
<1> QED
  BY <1>1, Invariance, PTL DEF Spec, IdsNeverReused
=============================================================================
