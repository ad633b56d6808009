----------------------------- MODULE MCToolCall -----------------------------
(***************************************************************************)
(* Two servers, one of which has a tool whose raw name is the action key   *)
(* of the other's; three registries, of which the second has lost a tool   *)
(* and the third is a new configuration; and requests that vary one thing  *)
(* at a time: the names, the headers or the fields they carry.             *)
(***************************************************************************)
EXTENDS ToolCall, TLC

Prop(types) == [listed |-> FALSE, types |-> types, optIn |-> {}]
PropOr(types) == [listed |-> TRUE, types |-> types, optIn |-> {}]
Fields(p) == [p EXCEPT !.optIn = {Text("owner"), Text("place")}]
None == <<>>

Srv(tool, schema) ==
  [server |-> Text("srv"), tool |-> tool, schema |-> schema,
   headers |-> ("Auth" :> Text("static") @@ "X-Actor" :> Text("static")),
   context |-> ("session" :> "X-Session" @@ "alias" :> "X-Session" @@ "actor" :> "X-Actor"
                @@ "unset" :> "")]
Other(tool) ==
  [server |-> Text("b"), tool |-> tool, schema |-> None, headers |-> None, context |-> None]

Batch == Srv(Text("batch"), "tasks" :> Prop(<<"array">>) @@ "tool_name" :> PropOr(<<"string", "null">>))
List == Srv(Text("list"), "include_fields" :> Fields(Prop(<<"array">>)) @@ "n" :> Prop(<<"number">>))
Find == Srv(Text("find"), "include_fields" :> Fields(PropOr(<<"null", "array">>))
                          @@ "actor" :> Prop(<<"integer">>))
Item == Srv(Text("item"), None)
Twin == Srv(<<"b", "x">>, None)

MCRegistries == {<<Batch, List, Find, Item, Twin, Other(Text("x"))>>,
                 <<Batch, List, Find>>,
                 <<Other(Text("x")), Batch>>}

Tasks(t) == <<"[{tool_name:">> \o t \o <<"}]">>
Task(t) == Value("object", "tool_name" :> Str(t))
NameTexts == {Text("item"), <<"srv", "item">>, <<"srv", "srv", "item">>, <<"b", "x">>,
              <<"b", "b", "x">>, <<"srv", "gone">>, NullText}

FieldTexts == {NullText, AllText, Text("7"), Text("owner"), Text("[]"), Text("[all]"),
               Text("[name]"), Text("[name,owner]"), Text("[7,all]")}
FieldsJson ==
  NullText :> Null @@ Text("7") :> Value("number", Text("7")) @@ Text("[]") :> Arr(<<>>)
  @@ Text("[all]") :> Arr(<<Str(AllText)>>) @@ Text("[name]") :> Arr(<<Str(Text("name"))>>)
  @@ Text("[name,owner]") :> Arr(<<Str(Text("name")), Str(Text("owner"))>>)
  @@ Text("[7,all]") :> Arr(<<Value("number", Text("7")), Str(AllText)>>)

MCJson == FieldsJson @@ [j \in {Tasks(t) : t \in NameTexts} |->
                           Arr(<<Task(Tail(SubSeq(j, 1, Len(j) - 1)))>>)]
MCFloats == {Text("7"), Text("NaN")}
MCInts == {Text("7")}
MCBools == {}
MCNotFinite == {Text("NaN")}

Request(tool, given, creds) ==
  [action |-> Text("srv") \o tool, args |-> given, credentials |-> creds]
Cred(h) == Text("srv") :> [header |-> h, value |-> Text("cred")]

NameRequests ==
  {Request(Text("batch"), "tool_name" :> t @@ "default_tool_name" :> t @@ "tasks" :> Tasks(u), None) :
     t \in NameTexts, u \in NameTexts}
FieldRequests ==
  {Request(tool, "include_fields" :> t, None) : tool \in {Text("list"), Text("find"), Text("item")},
                                                t \in FieldTexts}
HeaderRequests ==
  {Request(tool, g, c) :
     tool \in {Text("item"), Text("find"), Text("list")},
     g \in {("session" :> s @@ "actor" :> a @@ "unset" :> Text("u")) : s \in {Text("s1"), Text("")},
                                                                     a \in {Text("7"), Text("")}}
           \cup {"alias" :> Text("s2") @@ "session" :> Text("s1") @@ "n" :> n : n \in MCFloats},
     c \in {None, Cred("Auth"), Cred("X-Actor"), Cred("")}}
MCRequests == NameRequests \cup FieldRequests \cup HeaderRequests
              \cup {Request(Text("gone"), None, None), Request(<<"b", "x">>, None, None)}
=============================================================================
