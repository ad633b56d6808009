------------------------------ MODULE ToolCall ------------------------------
(***************************************************************************)
(* One tool call through Execute of src/plugin/handler.go, from the        *)
(* request to what the MCP server receives, while refreshes replace the    *)
(* handler's registry. Execute loads the registry to find the entry, and   *)
(* resolveToolNameArgs loads it again. Reconnecting and the round trip are *)
(* in modules Handler and Client.                                          *)
(***************************************************************************)
EXTENDS Args

CONSTANTS
  Registries,  \* what Build may have made: sequences of entries
  Requests     \* what the host may ask for

\* Build adds the entries one after the other.
ASSUME RegistriesAreLists == \A r \in Registries : IsList(r)

VARIABLES
  registry,  \* Handler.registry
  pc,        \* where Execute is
  req,       \* the request
  reg,       \* the registry Execute found the entry in
  later,     \* the registry its tool names were resolved in
  args,      \* the tool's arguments so far
  extra,     \* extraHeaders: what the request sets on top of the configuration
  todo,      \* context arguments the loop over ContextHeaders has still to visit
  got        \* what the server received

vars == <<registry, pc, req, reg, later, args, extra, todo, got>>

Nothing == <<>>
NoHeader == ""
e == Entry(reg, req.action)

Init ==
  /\ registry \in Registries
  /\ pc = "idle" /\ req \in Requests
  /\ reg = Nothing /\ later = Nothing
  /\ args = Nothing /\ extra = Nothing /\ todo = {} /\ got = Nothing

\* Configure or RefreshCapabilities puts another registry in place.
Swap ==
  /\ registry' \in Registries
  /\ UNCHANGED <<pc, req, reg, later, args, extra, todo, got>>

LookupUnchecked ==    \* mutant: the second result of the map is ignored
  /\ pc = "idle"
  /\ pc' = "found" /\ reg' = registry
  /\ UNCHANGED <<registry, req, later, args, extra, todo, got>>

\* The request comes in and its action is looked up.
Lookup ==
  /\ pc = "idle"
  /\ pc' = IF req.action \in Keys(registry) THEN "found" ELSE "unknown"
  /\ reg' = registry
  /\ UNCHANGED <<registry, req, later, args, extra, todo, got>>

\* The arguments are converted, tool names in them resolved and include_fields sanitized.
PreparedArgs(r, l, q) ==
  LET f == Entry(r, q.action) IN
  sanitizeIncludeFields(resolveToolNameArgs(l, convertArgs(q.args, f.schema)), f.schema)

\* The credential header of the server, if the request has one.
Credential(f, q) ==
  IF f.server \in DOMAIN q.credentials /\ q.credentials[f.server].header # NoHeader
  THEN [h \in {q.credentials[f.server].header} |-> q.credentials[f.server].value]
  ELSE Nothing

Prepare ==
  /\ pc = "found"
  /\ pc' = "headers"
  /\ later' = registry
  /\ args' = PreparedArgs(reg, registry, req)
  /\ extra' = Credential(e, req)
  /\ todo' = DOMAIN e.context
  /\ UNCHANGED <<registry, req, reg, got>>

Forwarded(v, h) == Kind(v) = "string" /\ Val(v) # Text("") /\ h # NoHeader

ForwardContextArgKept(a) ==    \* mutant: what cannot be forwarded stays an argument
  LET h == e.context[a] IN
  /\ pc = "headers" /\ a \in todo
  /\ todo' = todo \ {a}
  /\ IF a \in DOMAIN args /\ Forwarded(args[a], h)
     THEN args' = Without(args, a) /\ extra' = With(extra, h, Val(args[a]))
     ELSE UNCHANGED <<args, extra>>
  /\ UNCHANGED <<registry, pc, req, reg, later, got>>

\* One turn of the loop over e.cfg.ContextHeaders, a map: the order is any.
ForwardContextArg(a) ==
  LET h == e.context[a] IN
  /\ pc = "headers" /\ a \in todo
  /\ todo' = todo \ {a}
  /\ args' = Without(args, a)
  /\ extra' = IF a \in DOMAIN args /\ Forwarded(args[a], h)
              THEN With(extra, h, Val(args[a])) ELSE extra
  /\ UNCHANGED <<registry, pc, req, reg, later, got>>

\* headerTransport: the headers of the configuration, then those of the request.
SentHeadersStaticLast(static, x) ==    \* mutant: the other way round
  [h \in DOMAIN static \cup DOMAIN x |-> IF h \in DOMAIN static THEN static[h] ELSE x[h]]
SentHeaders(static, x) ==
  [h \in DOMAIN static \cup DOMAIN x |-> IF h \in DOMAIN x THEN x[h] ELSE static[h]]

\* CallTool encodes the request and posts it.
CallTool ==
  /\ pc = "headers" /\ todo = {}
  /\ IF Encodable(args)
     THEN /\ pc' = "sent"
          /\ got' = [tool |-> e.tool, args |-> args, headers |-> SentHeaders(e.headers, extra)]
     ELSE pc' = "unencodable" /\ UNCHANGED got
  /\ UNCHANGED <<registry, req, reg, later, args, extra, todo>>

Next ==
  \/ Swap \/ Lookup \/ Prepare \/ CallTool
  \/ \E a \in todo : ForwardContextArg(a)

Spec == Init /\ [][Next]_vars

-----------------------------------------------------------------------------
(***************************************************************************)
(* Properties.                                                             *)
(***************************************************************************)

\* Where the call is and what it has read agree.
TypeOK ==
  /\ registry \in Registries /\ req \in Requests
  /\ pc \in {"idle", "unknown", "found", "headers", "sent", "unencodable"}
  /\ pc # "idle" => reg \in Registries
  /\ pc \in {"found", "headers", "sent", "unencodable"} => req.action \in Keys(reg)
  /\ pc \in {"headers", "sent", "unencodable"} => later \in Registries /\ todo \subseteq DOMAIN e.context
  /\ got # Nothing <=> pc = "sent"

\* No context argument reaches the tool as an argument, whatever its value is, whether it
\* could be forwarded or not, and whatever the tool itself declares under that name.
ContextNeverLeaks == got # Nothing => DOMAIN got.args \cap DOMAIN e.context = {}

\* Every header the server receives has the value of the highest rank that genuinely exists:
\* a context argument mapped to it, the request's credential, the configuration. The
\* order in which the loop visits the map decides only between arguments mapped to one header.
FromContext(h) ==
  LET given == PreparedArgs(reg, later, req) IN
  {Val(given[a]) : a \in {b \in DOMAIN given \cap DOMAIN e.context :
                            e.context[b] = h /\ Forwarded(given[b], h)}}
HeadersByRank ==
  got # Nothing =>
    \A h \in DOMAIN got.headers \cup DOMAIN e.headers \cup DOMAIN Credential(e, req)
               \cup {e.context[a] : a \in DOMAIN e.context} :
      IF FromContext(h) # {} THEN h \in DOMAIN got.headers /\ got.headers[h] \in FromContext(h)
      ELSE IF h \in DOMAIN Credential(e, req) THEN got.headers[h] = Credential(e, req)[h]
      ELSE IF h \in DOMAIN e.headers THEN got.headers[h] = e.headers[h]
      ELSE h \notin DOMAIN got.headers

\* The arguments that name a tool themselves.
ToolNameArgs == {"default_tool_name", "tool_name"}

\* A context argument that the tool does not declare and the host did not leave empty is
\* forwarded as it is, if no other argument is mapped to its header.
ContextArrives ==
  got # Nothing =>
    \A a \in (DOMAIN req.args \cap DOMAIN e.context) \ (DOMAIN e.schema \cup ToolNameArgs \cup {"include_fields", "tasks"}) :
      LET h == e.context[a] IN
      /\ req.args[a] # Text("") /\ h # NoHeader
      /\ \A b \in DOMAIN e.context : e.context[b] = h => b = a
      => h \in DOMAIN got.headers /\ got.headers[h] = req.args[a]

\* The tools a text names: by the raw name, by the action key, or by the key behind one
\* more segment.
Named(r, t) ==
  {r[i].tool : i \in {j \in DOMAIN r :
                        \/ t = r[j].tool
                        \/ t = Key(r[j])
                        \/ Len(t) > 1 /\ Tail(t) = Key(r[j])}}

\* A text that names tools in the registry of the moment it is resolved, which may have taken
\* the place of the one the call was found in, reaches the server as the raw name of one
\* of these, whichever of them it means; one that names none there is not rewritten. The same
\* holds of the tool_name of each task.
NameArrives(v, w) ==
  Kind(v) = "string" =>
    /\ Named(later, Val(v)) = {} => w = v
    /\ Named(later, Val(v)) # {} => Kind(w) = "string" /\ Val(w) \in Named(later, Val(v))
ToolNamesArrive ==
  got # Nothing =>
    LET given == convertArgs(req.args, e.schema) IN
    /\ \A a \in (ToolNameArgs \cap DOMAIN given) \ DOMAIN e.context : NameArrives(given[a], got.args[a])
    /\ "tasks" \in DOMAIN given \ DOMAIN e.context /\ Kind(given["tasks"]) = "array" =>
         \A i \in DOMAIN Val(given["tasks"]) :
           LET v == Val(given["tasks"])[i]
               w == Val(got.args["tasks"])[i] IN
           Kind(v) = "object" /\ "tool_name" \in DOMAIN Val(v) =>
             NameArrives(Val(v)["tool_name"], Val(w)["tool_name"])

\* The server never receives null for include_fields, nor, if the tool declares it as an array
\* and its description names the opt-in fields, anything but "all" or some of those; what
\* the model gave as a bare word or with a nullable type included.
IncludeFieldsValid ==
  got # Nothing /\ "include_fields" \in DOMAIN got.args =>
    LET v == got.args["include_fields"] IN
    /\ v # Null
    /\ "include_fields" \in DOMAIN e.schema /\ TypeOf(e.schema["include_fields"]) = "array"
         /\ e.schema["include_fields"].optIn # {} =>
         /\ Kind(v) = "array"
         /\ \/ Val(v) = <<Str(AllText)>>
            \/ \A i \in DOMAIN Val(v) : IsOptedIn(Val(v)[i], e.schema["include_fields"].optIn)

\* None of the opt-in fields that the host asked for is lost, whatever is stripped around it.
IncludeFieldsKept ==
  LET name == "include_fields"
      given == convertArgs(req.args, e.schema) IN
  /\ got # Nothing
  /\ name \in (DOMAIN given \cap DOMAIN e.schema) \ DOMAIN e.context /\ Kind(given[name]) = "array"
  => \A i \in DOMAIN Val(given[name]) :
       IsOptedIn(Val(given[name])[i], e.schema[name].optIn) =>
         /\ name \in DOMAIN got.args
         /\ \E j \in DOMAIN Val(got.args[name]) : Val(got.args[name])[j] = Val(given[name])[i]
=============================================================================
