--------------------------- MODULE ToolCallProofs ---------------------------
(***************************************************************************)
(* What a tool call sends, for any registries, any request, any parsers    *)
(* and any order in which the loop over ContextHeaders goes.               *)
(***************************************************************************)
EXTENDS ToolCall, ArgsProofs, TLAPS

Given == PreparedArgs(reg, later, req)
Done == DOMAIN e.context \ todo

\* The values for header h of the context arguments the loop has visited.
FromDone(h) ==
  {Val(Given[a]) : a \in {b \in Done \cap DOMAIN Given :
                            e.context[b] = h /\ Forwarded(Given[b], h)}}

\* Before the arguments are prepared nothing is set; from then on the arguments are those
\* given, without the ones visited.
ArgsInv ==
  /\ pc \notin {"headers", "sent", "unencodable"} => todo = {}
  /\ pc \in {"headers", "sent", "unencodable"} =>
       /\ todo \subseteq DOMAIN e.context
       /\ DOMAIN args = DOMAIN Given \ Done
       /\ \A a \in DOMAIN args : args[a] = Given[a]

\* A header of the request is a visited argument's, or else the credential's.
ExtraOf(h) ==
  /\ FromDone(h) # {} => h \in DOMAIN extra /\ extra[h] \in FromDone(h)
  /\ FromDone(h) = {} /\ h \in DOMAIN Credential(e, req) =>
       h \in DOMAIN extra /\ extra[h] = Credential(e, req)[h]
  /\ FromDone(h) = {} /\ h \notin DOMAIN Credential(e, req) => h \notin DOMAIN extra
ExtraInv == pc \in {"headers", "sent", "unencodable"} => \A h : ExtraOf(h)

GotInv ==
  got # Nothing =>
    /\ pc = "sent" /\ todo = {}
    /\ got = [tool |-> e.tool, args |-> args, headers |-> SentHeaders(e.headers, extra)]

Inv == ArgsInv /\ ExtraInv /\ GotInv

-----------------------------------------------------------------------------
(***************************************************************************)
(* Types, and the loop over the context arguments.                         *)
(***************************************************************************)

\* What the call has read is a registry that was in place, and it has the action.
LEMMA TypeStep == TypeOK /\ [Next]_vars => TypeOK'
<1> SUFFICES ASSUME TypeOK, [Next]_vars PROVE TypeOK'
  OBVIOUS
<1> USE DEF TypeOK
<1>1. CASE Swap
  BY <1>1 DEF Swap, e
<1>2. CASE Lookup
  BY <1>2 DEF Lookup
<1>3. CASE Prepare
  BY <1>3 DEF Prepare, e
<1>4. CASE CallTool
  <2>1. UNCHANGED e
    BY <1>4 DEF CallTool, e
  <2>2. CASE Encodable(args)
    <3>1. got' # Nothing
      <4>1. DOMAIN got' = {"tool", "args", "headers"}
        BY <1>4, <2>2 DEF CallTool
      <4>2. QED BY <4>1 DEF Nothing
    <3>2. QED BY <1>4, <2>1, <2>2, <3>1 DEF CallTool
  <2>3. CASE ~Encodable(args)
    BY <1>4, <2>1, <2>3 DEF CallTool
  <2>4. QED BY <2>2, <2>3
<1>5. ASSUME NEW a \in todo, ForwardContextArg(a) PROVE TypeOK'
  BY <1>5 DEF ForwardContextArg, e
<1>6. CASE UNCHANGED vars
  BY <1>6 DEF vars, e
<1> QED
  BY <1>1, <1>2, <1>3, <1>4, <1>5, <1>6 DEF Next

\* The call calls a tool that the registry it looked in has, with its names resolved in a
\* registry that was in place, and the server receives something exactly at the end.
THEOREM TypeCorrect == Spec => []TypeOK
<1>1. Init => TypeOK
  BY DEF Init, TypeOK
<1> QED
  BY <1>1, TypeStep, PTL DEF Spec

\* The loop takes each argument it visits away and leaves the others as they are.
LEMMA StepArgsInv == ArgsInv /\ [Next]_vars => ArgsInv'
<1> SUFFICES ASSUME ArgsInv, [Next]_vars PROVE ArgsInv'
  OBVIOUS
<1> USE DEF ArgsInv
<1>1. CASE Swap
  BY <1>1 DEF Swap, Given, Done, e
<1>2. CASE Lookup
  BY <1>2 DEF Lookup
<1>3. CASE Prepare
  BY <1>3 DEF Prepare, Given, Done, e
<1>4. CASE CallTool
  BY <1>4 DEF CallTool, Given, Done, e
<1>5. ASSUME NEW a \in todo, ForwardContextArg(a) PROVE ArgsInv'
  <2>1. UNCHANGED <<Given, e>>
    BY <1>5 DEF ForwardContextArg, Given, e
  <2>2. Done' = Done \cup {a}
    BY <1>5, <2>1 DEF ForwardContextArg, Done
  <2> QED
    BY <1>5, <2>1, <2>2 DEF ForwardContextArg, Without
<1>6. CASE UNCHANGED vars
  BY <1>6 DEF vars, Given, Done, e
<1> QED
  BY <1>1, <1>2, <1>3, <1>4, <1>5, <1>6 DEF Next

\* A turn of the loop sets no header but the one the argument is mapped to.
LEMMA StepExtraInv == ArgsInv /\ ExtraInv /\ [Next]_vars => ExtraInv'
<1> SUFFICES ASSUME ArgsInv, ExtraInv, [Next]_vars,
                    pc' \in {"headers", "sent", "unencodable"}, NEW h
             PROVE  ExtraOf(h)'
  BY DEF ExtraInv
<1> USE DEF ExtraInv
<1>1. CASE Swap
  BY <1>1 DEF Swap, ExtraOf, FromDone, Given, Done, e
<1>2. CASE Lookup
  BY <1>2 DEF Lookup
<1>3. CASE Prepare
  <2>1. Done' = {} /\ extra' = Credential(e, req) /\ UNCHANGED <<e, req>>
    BY <1>3 DEF Prepare, Done, e
  <2>2. FromDone(h)' = {}
    BY <2>1 DEF FromDone
  <2> QED
    BY <2>1, <2>2 DEF ExtraOf
<1>4. CASE CallTool
  BY <1>4 DEF CallTool, ExtraOf, FromDone, Given, Done, e
<1>5. ASSUME NEW a \in todo, ForwardContextArg(a) PROVE ExtraOf(h)'
  <2>1. UNCHANGED <<Given, e, req>>
    BY <1>5 DEF ForwardContextArg, Given, e
  <2>2. Done' = Done \cup {a} /\ a \notin Done /\ a \in DOMAIN e.context
    BY <1>5, <2>1 DEF ForwardContextArg, Done, ArgsInv
  <2>3. a \in DOMAIN args <=> a \in DOMAIN Given
    BY <1>5, <2>2 DEF ForwardContextArg, ArgsInv
  <2>4. a \in DOMAIN args => args[a] = Given[a]
    BY <1>5 DEF ForwardContextArg, ArgsInv
  <2>5. ExtraOf(h)
    BY <1>5 DEF ForwardContextArg
  <2>6. CASE a \in DOMAIN Given /\ e.context[a] = h /\ Forwarded(Given[a], h)
    <3>1. Val(Given[a]) \in FromDone(h)'
      BY <2>1, <2>2, <2>6 DEF FromDone
    <3>2. h \in DOMAIN extra' /\ extra'[h] = Val(Given[a])
      BY <1>5, <2>3, <2>4, <2>6 DEF ForwardContextArg, With
    <3> QED
      BY <3>1, <3>2 DEF ExtraOf
  <2>7. CASE ~(a \in DOMAIN Given /\ e.context[a] = h /\ Forwarded(Given[a], h))
    <3>1. FromDone(h)' = FromDone(h)
      BY <2>1, <2>2, <2>7 DEF FromDone
    <3>2. (h \in DOMAIN extra' <=> h \in DOMAIN extra) /\ (h \in DOMAIN extra => extra'[h] = extra[h])
      BY <1>5, <2>3, <2>4, <2>7 DEF ForwardContextArg, With
    <3> QED
      BY <2>1, <2>5, <3>1, <3>2 DEF ExtraOf
  <2> QED
    BY <2>6, <2>7
<1>6. CASE UNCHANGED vars
  BY <1>6 DEF vars, ExtraOf, FromDone, Given, Done, e
<1> QED
  BY <1>1, <1>2, <1>3, <1>4, <1>5, <1>6 DEF Next

\* Nothing changes once the request is posted.
LEMMA StepGotInv == ArgsInv /\ GotInv /\ [Next]_vars => GotInv'
<1> SUFFICES ASSUME ArgsInv, GotInv, [Next]_vars PROVE GotInv'
  OBVIOUS
<1> USE DEF GotInv
<1>1. CASE Swap
  BY <1>1 DEF Swap, e
<1>2. CASE Lookup
  BY <1>2 DEF Lookup
<1>3. CASE Prepare
  BY <1>3 DEF Prepare
<1>4. CASE CallTool
  <2>1. UNCHANGED <<e, args, extra, todo>>
    BY <1>4 DEF CallTool, e
  <2> QED
    BY <1>4, <2>1 DEF CallTool
<1>5. ASSUME NEW a \in todo, ForwardContextArg(a) PROVE GotInv'
  BY <1>5 DEF ForwardContextArg
<1>6. CASE UNCHANGED vars
  BY <1>6 DEF vars, e
<1> QED
  BY <1>1, <1>2, <1>3, <1>4, <1>5, <1>6 DEF Next

\* The three together are inductive.
LEMMA Invariance == Spec => []Inv
<1>1. Init => Inv
  BY DEF Init, Inv, ArgsInv, ExtraInv, GotInv
<1>2. Inv /\ [Next]_vars => Inv'
  BY StepArgsInv, StepExtraInv, StepGotInv DEF Inv
<1> QED
  BY <1>1, <1>2, PTL DEF Spec

\* No context argument reaches the tool as an argument, whatever its value and type.
THEOREM NoContextArgLeaks == Spec => []ContextNeverLeaks
<1>1. Inv => ContextNeverLeaks
  BY DEF Inv, ArgsInv, GotInv, Done, ContextNeverLeaks
<1> QED
  BY <1>1, Invariance, PTL

\* Every header has the value of the highest rank: context argument, credential,
\* configuration. The order of the loop decides only between arguments with one header.
THEOREM HeadersAreRanked == Spec => []HeadersByRank
<1>1. Inv => HeadersByRank
  <2> SUFFICES ASSUME Inv, got # Nothing, NEW h
      PROVE IF FromContext(h) # {} THEN h \in DOMAIN got.headers /\ got.headers[h] \in FromContext(h)
            ELSE IF h \in DOMAIN Credential(e, req) THEN got.headers[h] = Credential(e, req)[h]
            ELSE IF h \in DOMAIN e.headers THEN got.headers[h] = e.headers[h]
            ELSE h \notin DOMAIN got.headers
    BY DEF HeadersByRank
  <2>1. FromContext(h) = FromDone(h)
    BY DEF Inv, GotInv, FromContext, FromDone, Given, Done
  <2>2. ExtraOf(h)
    BY DEF Inv, GotInv, ExtraInv
  <2>3. got.headers = SentHeaders(e.headers, extra)
    BY DEF Inv, GotInv
  <2> QED
    BY <2>1, <2>2, <2>3 DEF ExtraOf, SentHeaders
<1> QED
  BY <1>1, Invariance, PTL

-----------------------------------------------------------------------------
(***************************************************************************)
(* What became of an argument by the time the server receives it.          *)
(***************************************************************************)

Converted == convertArgs(req.args, e.schema)

\* The server receives the prepared arguments without those of the context.
LEMMA Received ==
  ASSUME TypeOK, Inv, got # Nothing
  PROVE  /\ IsList(later)
         /\ Given = sanitizeIncludeFields(resolveToolNameArgs(later, Converted), e.schema)
         /\ DOMAIN got.args = DOMAIN Given \ DOMAIN e.context
         /\ \A a \in DOMAIN got.args : got.args[a] = Given[a]
         /\ got.headers = SentHeaders(e.headers, extra)
         /\ Done = DOMAIN e.context
         /\ \A h : ExtraOf(h)
<1>1. pc = "sent" /\ todo = {}
  BY DEF Inv, GotInv
<1>2. got = [tool |-> e.tool, args |-> args, headers |-> SentHeaders(e.headers, extra)]
  BY DEF Inv, GotInv
<1>3. IsList(later)
  BY <1>1, RegistriesAreLists DEF TypeOK
<1>4. Given = sanitizeIncludeFields(resolveToolNameArgs(later, Converted), e.schema)
  BY DEF Given, PreparedArgs, Converted, e
<1>5. QED BY <1>1, <1>2, <1>3, <1>4 DEF Inv, ArgsInv, ExtraInv, Done

\* What is no tool name, no tasks and not include_fields is sent as it was converted.
LEMMA OthersPrepared ==
  ASSUME TypeOK, Inv, got # Nothing,
         NEW a \in DOMAIN Converted \ {"default_tool_name", "tool_name", "tasks", "include_fields"}
  PROVE  a \in DOMAIN Given /\ Given[a] = Converted[a]
<1> DEFINE named == resolveToolNameArgs(later, Converted)
<1>1. a \in DOMAIN named /\ named[a] = Converted[a]
  BY NamesResolved
<1>2. Given = sanitizeIncludeFields(named, e.schema)
  BY Received
<1> HIDE DEF named
<1>3. QED BY <1>1, <1>2, OthersKept

\* A context argument the tool does not declare reaches the header it is mapped to.
THEOREM ContextArgsArrive == Spec => []ContextArrives
<1>1. TypeOK /\ Inv => ContextArrives
  <2> SUFFICES ASSUME TypeOK, Inv, got # Nothing,
                      NEW a \in (DOMAIN req.args \cap DOMAIN e.context)
                                \ (DOMAIN e.schema \cup ToolNameArgs \cup {"include_fields", "tasks"}),
                      NEW h, h = e.context[a], req.args[a] # Text(""), h # NoHeader,
                      \A b \in DOMAIN e.context : e.context[b] = h => b = a
               PROVE  h \in DOMAIN got.headers /\ got.headers[h] = req.args[a]
    BY DEF ContextArrives
  <2>1. a \in DOMAIN Converted /\ Converted[a] = Str(req.args[a])
    BY DEF Converted, convertArgs
  <2>2. a \in DOMAIN Given /\ Given[a] = Str(req.args[a])
    BY <2>1, OthersPrepared DEF ToolNameArgs
  <2>3. Forwarded(Given[a], h) /\ Val(Given[a]) = req.args[a]
    <3>1. Kind(Given[a]) = "string" /\ Val(Given[a]) = req.args[a]
      BY <2>2, Parts DEF Str
    <3>2. QED BY <3>1 DEF Forwarded
  <2>4. Done = DOMAIN e.context
    BY Received
  <2>5. FromDone(h) = {req.args[a]}
    BY <2>2, <2>3, <2>4 DEF FromDone
  <2>6. h \in DOMAIN extra /\ extra[h] = req.args[a]
    BY <2>5, Received DEF ExtraOf
  <2>7. QED BY <2>6, Received DEF SentHeaders
<1>2. QED BY <1>1, TypeCorrect, Invariance, PTL

-----------------------------------------------------------------------------
(***************************************************************************)
(* The names of tools.                                                     *)
(***************************************************************************)

\* In one registry, a text that names no tool is left alone, and one that names some becomes
\* the raw name of one of these.
LEMMA NameResolved ==
  ASSUME NEW r, IsList(r), NEW v, Kind(v) = "string"
  PROVE  LET w == ResolveString(r, v) IN
         /\ Named(r, Val(v)) = {} => w = v
         /\ Named(r, Val(v)) # {} => Kind(w) = "string" /\ Val(w) \in Named(r, Val(v))
<1> DEFINE t == Val(v)
           w == ResolveString(r, v)
           key == IF t \in Keys(r) THEN t ELSE Tail(t)
<1>1. CASE Found(r, t)
  <2>1. key \in Keys(r) /\ (key = t \/ (Len(t) > 1 /\ key = Tail(t)))
    BY <1>1 DEF Found
  <2>2. PICK i \in DOMAIN r : Entry(r, key) = r[i] /\ Key(r[i]) = key
    <3> HIDE DEF key
    <3>1. QED BY <2>1, EntryIsLast
  <2>3. Kind(w) = "string" /\ Val(w) = r[i].tool
    BY <1>1, <2>2 DEF ResolveString, resolve, Str, Value, Kind, Val
  <2>4. r[i].tool \in Named(r, t)
    <3> HIDE DEF t, key
    <3>1. QED BY <2>1, <2>2 DEF Named
  <2>5. QED BY <2>3, <2>4
<1>2. CASE ~Found(r, t)
  <2>1. w = v
    BY <1>2 DEF ResolveString
  <2>2. \A j \in DOMAIN r : t # Key(r[j]) /\ ~(Len(t) > 1 /\ Tail(t) = Key(r[j]))
    BY <1>2 DEF Found, Keys
  <2>3. \A tool \in Named(r, t) : tool = t
    <3> HIDE DEF t
    <3>1. QED BY <2>2 DEF Named
  <2>4. QED BY <2>1, <2>3
<1>3. QED BY <1>1, <1>2

\* Hence a text arrives as what it names in the registry that was read second.
LEMMA NameArrived ==
  ASSUME TypeOK, Inv, got # Nothing, NEW v
  PROVE  NameArrives(v, ResolveString(later, v))
<1>1. IsList(later)
  BY Received
<1>2. QED BY <1>1, NameResolved DEF NameArrives

\* A text that names tools in the registry it is resolved in reaches the server as the raw
\* name of one of these, and any other text as it is, in the arguments and in the tasks.
THEOREM ToolNamesReachServer == Spec => []ToolNamesArrive
<1>1. ASSUME TypeOK, Inv, got # Nothing,
             NEW a \in (ToolNameArgs \cap DOMAIN Converted) \ DOMAIN e.context
      PROVE  NameArrives(Converted[a], got.args[a])
  <2> DEFINE named == resolveToolNameArgs(later, Converted)
  <2>1. a \in DOMAIN named /\ named[a] = ResolveString(later, Converted[a])
    BY <1>1, NamesResolved DEF ToolNameArgs
  <2>2. Given = sanitizeIncludeFields(named, e.schema)
    BY <1>1, Received
  <2>3. a # "include_fields"
    BY DEF ToolNameArgs
  <2>4. a \in DOMAIN Given /\ Given[a] = named[a]
    <3> HIDE DEF named
    <3>1. QED BY <2>1, <2>2, <2>3, OthersKept
  <2>5. got.args[a] = ResolveString(later, Converted[a])
    BY <1>1, <2>1, <2>4, Received
  <2>6. QED BY <1>1, <2>5, NameArrived
<1>2. ASSUME TypeOK, Inv, got # Nothing,
             "tasks" \in DOMAIN Converted \ DOMAIN e.context, Kind(Converted["tasks"]) = "array",
             NEW i \in DOMAIN Val(Converted["tasks"]),
             NEW v, v = Val(Converted["tasks"])[i], Kind(v) = "object", "tool_name" \in DOMAIN Val(v)
      PROVE  NameArrives(Val(v)["tool_name"], Val(Val(got.args["tasks"])[i])["tool_name"])
  <2> DEFINE named == resolveToolNameArgs(later, Converted)
             tasks == [j \in DOMAIN Val(Converted["tasks"]) |-> ResolveTask(later, Val(Converted["tasks"])[j])]
  <2>1. "tasks" \in DOMAIN named /\ named["tasks"] = Arr(tasks)
    BY <1>2, TaskNamesResolved
  <2>2. Given = sanitizeIncludeFields(named, e.schema)
    BY <1>2, Received
  <2>3. "tasks" \in DOMAIN Given /\ Given["tasks"] = named["tasks"]
    <3> HIDE DEF named
    <3>1. QED BY <2>1, <2>2, OthersKept
  <2>4. got.args["tasks"] = Arr(tasks)
    BY <1>2, <2>1, <2>3, Received
  <2>5. Val(got.args["tasks"])[i] = ResolveTask(later, v)
    BY <1>2, <2>4 DEF Arr, Value, Val
  <2>6. Val(ResolveTask(later, v))["tool_name"] = ResolveString(later, Val(v)["tool_name"])
    BY <1>2 DEF ResolveTask, ResolveField, Value, Val
  <2>7. QED BY <1>2, <2>5, <2>6, NameArrived
<1>3. TypeOK /\ Inv => ToolNamesArrive
  BY <1>1, <1>2 DEF ToolNamesArrive, Converted
<1>4. QED BY <1>3, TypeCorrect, Invariance, PTL

-----------------------------------------------------------------------------
(***************************************************************************)
(* include_fields.                                                         *)
(***************************************************************************)

\* What was converted under include_fields, by a schema that declares it: null or an array if
\* it declares an array; and an array is a list.
LEMMA FieldsConverted ==
  ASSUME "include_fields" \in DOMAIN Converted \cap DOMAIN e.schema
  PROVE  LET raw == Converted["include_fields"] IN
         /\ TypeOf(e.schema["include_fields"]) = "array" => raw = Null \/ Kind(raw) = "array"
         /\ Kind(raw) = "array" => IsList(Val(raw))
<1> DEFINE name == "include_fields"
           type == TypeOf(e.schema[name])
           nullable == Nullable(e.schema[name])
<1>1. Converted[name] = coerce(req.args[name], type, nullable)
  BY DEF Converted, convertArgs
<1> HIDE DEF type, nullable
<1>2. /\ type = "array" => Converted[name] = Null \/ Kind(Converted[name]) = "array"
      /\ Kind(Converted[name]) = "array" => IsList(Val(Converted[name]))
  BY <1>1, CoercedArrays, Zenon
<1>3. QED BY <1>2 DEF type

\* Sanitizing works on what was converted: resolving names left it alone.
LEMMA FieldsPrepared ==
  ASSUME TypeOK, Inv, got # Nothing
  PROVE  LET name == "include_fields"
             raw == Converted[name]
             strip == /\ Kind(raw) = "array" /\ Val(raw) \notin {<<>>, <<Str(AllText)>>}
                      /\ name \in DOMAIN e.schema /\ e.schema[name].optIn # {}
             kept == OptedIn(Val(raw), e.schema[name].optIn)
         IN  /\ name \in DOMAIN Given => name \in DOMAIN Converted /\ Kind(raw) # "null"
             /\ name \in DOMAIN Converted =>
                  /\ strip /\ kept = <<>> => name \notin DOMAIN Given
                  /\ strip /\ kept # <<>> => name \in DOMAIN Given /\ Given[name] = Arr(kept)
                  /\ Kind(raw) # "null" /\ ~strip => name \in DOMAIN Given /\ Given[name] = raw
<1> DEFINE name == "include_fields"
           named == resolveToolNameArgs(later, Converted)
<1>1. Given = sanitizeIncludeFields(named, e.schema)
  BY Received
<1>2. DOMAIN named = DOMAIN Converted
  BY NamesDomain
<1>3. name \in DOMAIN Converted => named[name] = Converted[name]
  BY NamesResolved
<1> HIDE DEF named
<1>4. name \in DOMAIN Given => name \in DOMAIN named
  BY <1>1, OthersKept
<1>5. CASE name \in DOMAIN named
  BY <1>1, <1>2, <1>3, <1>5, FieldsSanitized
<1>6. CASE name \notin DOMAIN named
  BY <1>2, <1>4, <1>6
<1>7. QED BY <1>5, <1>6

\* The server receives no null, and from a tool that declares an array and names the opt-in
\* fields, nothing but "all" or some of those.
THEOREM FieldsAreValid == Spec => []IncludeFieldsValid
<1> DEFINE name == "include_fields"
           raw == Converted[name]
           items == Val(raw)
           optIn == e.schema[name].optIn
           v == got.args[name]
<1>1. ASSUME TypeOK, Inv, got # Nothing, name \in DOMAIN got.args
      PROVE  /\ v # Null
             /\ name \in DOMAIN e.schema /\ TypeOf(e.schema[name]) = "array" /\ optIn # {} =>
                  /\ Kind(v) = "array"
                  /\ Val(v) = <<Str(AllText)>> \/ \A i \in DOMAIN Val(v) : IsOptedIn(Val(v)[i], optIn)
  <2>1. name \in DOMAIN Given /\ v = Given[name]
    BY <1>1, Received
  <2>2. name \in DOMAIN Converted /\ Kind(raw) # "null"
    BY <1>1, <2>1, FieldsPrepared
  <2>3. Kind(Null) = "null" /\ \A s : Kind(Arr(s)) = "array" /\ Val(Arr(s)) = s
    BY Parts DEF Null, Arr
  <2>4. CASE /\ Kind(raw) = "array" /\ items \notin {<<>>, <<Str(AllText)>>}
             /\ name \in DOMAIN e.schema /\ optIn # {}
    <3>1. v = Arr(OptedIn(items, optIn))
      BY <1>1, <2>1, <2>2, <2>4, FieldsPrepared
    <3>2. IsList(items)
      BY <2>2, <2>4, FieldsConverted
    <3>3. \A i \in DOMAIN OptedIn(items, optIn) : IsOptedIn(OptedIn(items, optIn)[i], optIn)
      <4> HIDE DEF items, optIn
      <4>1. QED BY <3>2, OptedInItems
    <3>4. Kind(v) = "array" /\ Val(v) = OptedIn(items, optIn)
      BY <2>3, <3>1
    <3>5. QED BY <2>3, <3>3, <3>4
  <2>5. CASE ~(/\ Kind(raw) = "array" /\ items \notin {<<>>, <<Str(AllText)>>}
               /\ name \in DOMAIN e.schema /\ optIn # {})
    <3>1. v = raw
      BY <1>1, <2>1, <2>2, <2>5, FieldsPrepared
    <3>2. v # Null
      BY <2>2, <2>3, <3>1
    <3>3. ASSUME name \in DOMAIN e.schema, TypeOf(e.schema[name]) = "array", optIn # {}
          PROVE  /\ Kind(v) = "array"
                 /\ Val(v) = <<Str(AllText)>> \/ \A i \in DOMAIN Val(v) : IsOptedIn(Val(v)[i], optIn)
      <4>1. Kind(raw) = "array"
        BY <2>2, <2>3, <3>3, FieldsConverted
      <4>2. items = <<>> \/ items = <<Str(AllText)>>
        BY <2>5, <3>3, <4>1
      <4>3. QED BY <3>1, <4>1, <4>2
    <3>4. QED BY <3>2, <3>3
  <2>6. QED BY <2>4, <2>5
<1>2. TypeOK /\ Inv => IncludeFieldsValid
  BY <1>1 DEF IncludeFieldsValid
<1>3. QED BY <1>2, TypeCorrect, Invariance, PTL

\* None of the opt-in fields the host asked for is lost.
THEOREM FieldsAreKept == Spec => []IncludeFieldsKept
<1> DEFINE name == "include_fields"
           raw == Converted[name]
           items == Val(raw)
           optIn == e.schema[name].optIn
<1>1. ASSUME TypeOK, Inv, got # Nothing,
             name \in (DOMAIN Converted \cap DOMAIN e.schema) \ DOMAIN e.context,
             Kind(raw) = "array", NEW i \in DOMAIN items, IsOptedIn(items[i], optIn)
      PROVE  /\ name \in DOMAIN got.args
             /\ \E j \in DOMAIN Val(got.args[name]) : Val(got.args[name])[j] = items[i]
  <2>1. IsList(items)
    BY <1>1, FieldsConverted
  <2>2. CASE items \notin {<<>>, <<Str(AllText)>>} /\ optIn # {}
    <3>1. PICK j \in DOMAIN OptedIn(items, optIn) : OptedIn(items, optIn)[j] = items[i]
      <4> HIDE DEF items, optIn
      <4>1. QED BY <1>1, <2>1, OptedInItems
    <3>2. OptedIn(items, optIn) # <<>>
      BY <3>1
    <3>3. name \in DOMAIN Given /\ Given[name] = Arr(OptedIn(items, optIn))
      BY <1>1, <2>2, <3>2, FieldsPrepared
    <3>4. name \in DOMAIN got.args /\ Val(got.args[name]) = OptedIn(items, optIn)
      BY <1>1, <3>3, Received, Parts DEF Arr
    <3>5. QED BY <3>1, <3>4
  <2>3. CASE ~(items \notin {<<>>, <<Str(AllText)>>} /\ optIn # {})
    <3>1. name \in DOMAIN Given /\ Given[name] = raw
      BY <1>1, <2>3, FieldsPrepared
    <3>2. name \in DOMAIN got.args /\ got.args[name] = raw
      BY <1>1, <3>1, Received
    <3>3. QED BY <1>1, <3>2
  <2>4. QED BY <2>2, <2>3
<1>2. TypeOK /\ Inv => IncludeFieldsKept
  BY <1>1 DEF IncludeFieldsKept, Converted
<1>3. QED BY <1>2, TypeCorrect, Invariance, PTL
=============================================================================
