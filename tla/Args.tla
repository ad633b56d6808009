-------------------------------- MODULE Args --------------------------------
(***************************************************************************)
(* What Execute of src/plugin/handler.go makes of the flat string          *)
(* arguments of a request: convertArgs and coerce, resolveToolNameArgs,    *)
(* sanitizeIncludeFields, and the two spellings of "type" that SchemaProp  *)
(* of src/mcp/types.go reads.                                              *)
(*                                                                         *)
(* A text is the sequence of its segments, cut at every "__", so that      *)
(* joining two names with "__" is \o and cutting off the first segment is  *)
(* Tail. What the parsers of the Go library make of a text is given by     *)
(* constants.                                                              *)
(***************************************************************************)
EXTENDS Naturals, Sequences

CONSTANTS
  Floats, Ints, Bools,  \* texts that ParseFloat, ParseInt and ParseBool take
  NotFinite,            \* the texts in Floats that JSON has no number for
  Json                  \* the value of each text that is JSON

Text(word) == <<word>>
NullText == Text("null")
AllText == Text("all")

Value(kind, val) == <<kind, val>>
Kind(v) == v[1]
Val(v) == v[2]

\* json.Unmarshal makes a slice of a JSON array.
IsList(s) == s \in Seq({s[i] : i \in DOMAIN s})
ASSUME JsonArrays == \A t \in DOMAIN Json : Kind(Json[t]) = "array" => IsList(Val(Json[t]))

Str(t) == Value("string", t)
Null == Value("null", <<>>)
Arr(items) == Value("array", items)

Without(f, name) == [n \in DOMAIN f \ {name} |-> f[n]]
With(f, name, v) == [n \in DOMAIN f \cup {name} |-> IF n = name THEN v ELSE f[n]]

-----------------------------------------------------------------------------
(***************************************************************************)
(* A declared property: whether its type is a list, the types, and the     *)
(* opt-in fields its description names.                                    *)
(***************************************************************************)
Nullable(prop) == prop.listed /\ \E i \in DOMAIN prop.types : prop.types[i] = "null"

\* The first type of the list that is not "null", or else the first.
TypeOf(prop) ==
  LET given == SelectSeq(prop.types, LAMBDA t : t # "null") IN
  IF given # <<>> THEN given[1] ELSE IF prop.types # <<>> THEN prop.types[1] ELSE ""

coerce(t, type, nullable) ==
  IF nullable /\ t = NullText THEN Null ELSE
  CASE type = "number" /\ t \in Floats -> Value("number", t)
    [] type = "integer" /\ t \in Ints -> Value("integer", t)
    [] type = "boolean" /\ t \in Bools -> Value("boolean", t)
    [] type = "object" /\ t \in DOMAIN Json -> Json[t]
    [] type = "array" /\ t \notin DOMAIN Json -> Arr(<<Str(t)>>)
    [] type = "array" /\ t \in DOMAIN Json ->
         IF Kind(Json[t]) = "array" THEN Json[t] ELSE Arr(<<Json[t]>>)
    [] OTHER -> Str(t)

convertDeclaredArgs(args, schema) ==    \* mutant: an argument without a property is left out
  [a \in DOMAIN args \cap DOMAIN schema |-> coerce(args[a], TypeOf(schema[a]), Nullable(schema[a]))]
convertArgs(args, schema) ==
  [a \in DOMAIN args |->
     IF a \in DOMAIN schema THEN coerce(args[a], TypeOf(schema[a]), Nullable(schema[a]))
     ELSE Str(args[a])]

-----------------------------------------------------------------------------
(***************************************************************************)
(* Tool names in arguments: default_tool_name, tool_name and the tool_name *)
(* of each of the tasks. A registry is the sequence of its entries in the  *)
(* order Build adds them, and of two with the same key the later stays.    *)
(***************************************************************************)
Key(e) == e.server \o e.tool
Keys(reg) == {Key(reg[i]) : i \in DOMAIN reg}
Entry(reg, key) ==
  reg[CHOOSE i \in DOMAIN reg :
        Key(reg[i]) = key /\ \A j \in DOMAIN reg : Key(reg[j]) = key => j <= i]

FoundKeysOnly(reg, t) == t \in Keys(reg)    \* mutant
Found(reg, t) == t \in Keys(reg) \/ (Len(t) > 1 /\ Tail(t) \in Keys(reg))
resolve(reg, t) == Entry(reg, IF t \in Keys(reg) THEN t ELSE Tail(t)).tool

ResolveString(reg, v) ==
  IF Kind(v) = "string" /\ Found(reg, Val(v)) THEN Str(resolve(reg, Val(v))) ELSE v
ResolveField(reg, fields, name) ==
  IF name \in DOMAIN fields THEN [fields EXCEPT ![name] = ResolveString(reg, @)] ELSE fields
ResolveTask(reg, v) ==
  IF Kind(v) = "object" THEN Value("object", ResolveField(reg, Val(v), "tool_name")) ELSE v

resolveToolNameArgs(reg, args) ==
  LET named == ResolveField(reg, ResolveField(reg, args, "default_tool_name"), "tool_name") IN
  IF "tasks" \in DOMAIN named /\ Kind(named["tasks"]) = "array"
  THEN [named EXCEPT !["tasks"] =
          Arr([i \in DOMAIN Val(@) |-> ResolveTask(reg, Val(@)[i])])]
  ELSE named

-----------------------------------------------------------------------------
(***************************************************************************)
(* include_fields: null is dropped, an array keeps the opt-in fields the   *)
(* description names.                                                      *)
(***************************************************************************)
IsOptedIn(v, optIn) == Kind(v) = "string" /\ Val(v) \in optIn

OptedInUpToOther(items, optIn) ==    \* mutant: the loop ends at the first other item
  LET others == {i \in DOMAIN items : ~IsOptedIn(items[i], optIn)} IN
  SubSeq(items, 1, CHOOSE n \in 0..Len(items) :
                     /\ \A i \in others : n < i
                     /\ n = Len(items) \/ n + 1 \in others)
OptedIn(items, optIn) ==
  LET filtered[n \in 0..Len(items)] ==
        IF n = 0 THEN <<>>
        ELSE IF IsOptedIn(items[n], optIn) THEN Append(filtered[n - 1], items[n])
        ELSE filtered[n - 1]
  IN filtered[Len(items)]

sanitizeKeepsEmpty(args, schema) ==    \* mutant: null, or an array of which nothing is left, is sent
  LET name == "include_fields" IN
  IF name \in DOMAIN args /\ Kind(args[name]) = "array" /\ name \in DOMAIN schema
  THEN [args EXCEPT ![name] = Arr(OptedIn(Val(@), schema[name].optIn))]
  ELSE args

sanitizeIncludeFields(args, schema) ==
  LET name == "include_fields"
      raw == args[name]
      kept == OptedIn(Val(raw), schema[name].optIn) IN
  IF name \notin DOMAIN args THEN args ELSE
  CASE Kind(raw) = "null" -> Without(args, name)
    [] /\ Kind(raw) = "array" /\ Val(raw) \notin {<<>>, <<Str(AllText)>>}
       /\ name \in DOMAIN schema /\ schema[name].optIn # {} ->
         IF kept = <<>> THEN Without(args, name) ELSE [args EXCEPT ![name] = Arr(kept)]
    [] OTHER -> args

\* json.Marshal refuses a number that is not finite, and with it the request.
Encodable(args) ==
  \A a \in DOMAIN args : ~(Kind(args[a]) = "number" /\ Val(args[a]) \in NotFinite)
=============================================================================
