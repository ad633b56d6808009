------------------------------ MODULE ArgsProofs ------------------------------
(***************************************************************************)
(* What the operators of module Args return, for any texts, registries     *)
(* and schemas.                                                            *)
(***************************************************************************)
EXTENDS Args, TLAPS, SequenceTheorems, WellFoundedInduction

-----------------------------------------------------------------------------
(***************************************************************************)
(* Induction over the length of a list, with sets in place of predicates.  *)
(***************************************************************************)

\* Every set of numbers that has one has a least one.
LEMMA LeastNumber ==
  ASSUME NEW T \in SUBSET Nat, T # {}
  PROVE  \E n \in T : \A m \in T : n <= m
<1>1. PICK n \in T : \A m \in T : ~(<<m, n>> \in OpToRel(<, Nat))
  BY NatLessThanWellFounded, WFMin, Zenon
<1>2. \A m \in T : ~(m < n)
  BY <1>1 DEF OpToRel
<1>3. QED BY <1>2

\* A set that has 0 and with each number the next one has all of them.
LEMMA AllNumbers ==
  ASSUME NEW T, 0 \in T, \A n \in Nat : n \in T => n + 1 \in T
  PROVE  Nat \subseteq T
<1>1. SUFFICES ASSUME Nat \ T # {} PROVE FALSE
  OBVIOUS
<1>2. PICK n \in Nat \ T : \A m \in Nat \ T : n <= m
  BY <1>1, LeastNumber
<1>3. n # 0 /\ n - 1 \in Nat /\ n - 1 \notin T
  BY <1>2
<1>4. n - 1 \in Nat \ T
  BY <1>3
<1>5. QED BY <1>2, <1>3, <1>4

\* Every set of positions of a list that has one has a last one.
LEMMA LastPosition ==
  ASSUME NEW N \in Nat, NEW T \in SUBSET (1..N), T # {}
  PROVE  \E i \in T : \A j \in T : j <= i
<1> DEFINE U == {N - i : i \in T}
<1>1. U \in SUBSET Nat /\ U # {}
  <2>1. \A i \in T : i \in 1..N /\ N - i \in Nat
    OBVIOUS
  <2>2. PICK i : i \in T
    OBVIOUS
  <2>3. N - i \in U
    BY <2>2
  <2>4. QED BY <2>1, <2>3
<1>2. PICK n \in U : \A m \in U : n <= m
  BY <1>1, LeastNumber
<1>3. PICK i \in T : n = N - i
  BY <1>2
<1>4. \A j \in T : N - i <= N - j
  BY <1>2, <1>3
<1>5. QED BY <1>3, <1>4

-----------------------------------------------------------------------------
(***************************************************************************)
(* The loop of sanitizeIncludeFields that filters an array.                *)
(***************************************************************************)

\* f has for each n what is kept of the first n items, n being at most m.
IsFilter(f, items, optIn, m) ==
  f = [n \in 0..m |->
         IF n = 0 THEN <<>>
         ELSE IF IsOptedIn(items[n], optIn) THEN Append(f[n - 1], items[n])
         ELSE f[n - 1]]

\* There is such a function for every m, one longer for each item.
LEMMA FilterExists ==
  ASSUME NEW items, NEW optIn
  PROVE  \A m \in Nat : \E f : IsFilter(f, items, optIn, m)
<1> DEFINE T == {m \in Nat : \E f : IsFilter(f, items, optIn, m)}
<1>1. 0 \in T
  <2>1. IsFilter([n \in 0..0 |-> <<>>], items, optIn, 0)
    BY DEF IsFilter
  <2>2. QED BY <2>1
<1>2. ASSUME NEW m \in Nat, m \in T PROVE m + 1 \in T
  <2>1. PICK f : IsFilter(f, items, optIn, m)
    BY <1>2
  <2> DEFINE next == IF IsOptedIn(items[m + 1], optIn) THEN Append(f[m], items[m + 1]) ELSE f[m]
             g == [n \in 0..m + 1 |-> IF n = m + 1 THEN next ELSE f[n]]
             h == [n \in 0..m + 1 |->
                     IF n = 0 THEN <<>>
                     ELSE IF IsOptedIn(items[n], optIn) THEN Append(g[n - 1], items[n])
                     ELSE g[n - 1]]
  <2>2. ASSUME NEW n \in 0..m + 1 PROVE g[n] = h[n]
    <3>1. CASE n = m + 1
      <4>1. n # 0 /\ n - 1 = m /\ m \in 0..m + 1 /\ m # m + 1
        BY <3>1
      <4>2. g[m] = f[m]
        BY <4>1
      <4>3. QED BY <3>1, <4>1, <4>2
    <3>2. CASE n # m + 1
      <4>1. n \in 0..m /\ g[n] = f[n]
        BY <3>2
      <4>2. CASE n = 0
        BY <2>1, <4>1, <4>2 DEF IsFilter
      <4>3. CASE n # 0
        <5>1. n - 1 \in 0..m + 1 /\ n - 1 # m + 1
          BY <4>1, <4>3
        <5>2. g[n - 1] = f[n - 1]
          BY <5>1
        <5>3. f[n] = IF IsOptedIn(items[n], optIn) THEN Append(f[n - 1], items[n]) ELSE f[n - 1]
          BY <2>1, <4>1, <4>3 DEF IsFilter
        <5>4. QED BY <4>1, <4>3, <5>2, <5>3
      <4>4. QED BY <4>2, <4>3
    <3>3. QED BY <3>1, <3>2
  <2>3. g = h
    BY <2>2
  <2>4. IsFilter(g, items, optIn, m + 1)
    BY <2>3 DEF IsFilter
  <2> HIDE DEF g
  <2>5. QED BY <2>4
<1>3. Nat \subseteq T
  <2> HIDE DEF T
  <2>1. QED BY <1>1, <1>2, AllNumbers
<1>4. QED BY <1>3

\* What is left of a list is a list, has nothing but opted-in items of it, and has them all.
LEMMA OptedInItems ==
  ASSUME NEW items, IsList(items), NEW optIn
  PROVE  LET kept == OptedIn(items, optIn) IN
         /\ \E n \in Nat : DOMAIN kept = 1..n
         /\ \A i \in DOMAIN kept : IsOptedIn(kept[i], optIn)
         /\ \A i \in DOMAIN items : IsOptedIn(items[i], optIn) =>
              \E j \in DOMAIN kept : kept[j] = items[i]
<1> DEFINE S == {items[i] : i \in DOMAIN items}
           f == CHOOSE g : IsFilter(g, items, optIn, Len(items))
           Good(m) == /\ f[m] \in Seq(S)
                      /\ \A i \in DOMAIN f[m] : IsOptedIn(f[m][i], optIn)
                      /\ \A i \in 1..m : IsOptedIn(items[i], optIn) =>
                           \E j \in DOMAIN f[m] : f[m][j] = items[i]
           T == {m \in Nat : m <= Len(items) => Good(m)}
<1>1. items \in Seq(S) /\ Len(items) \in Nat /\ DOMAIN items = 1..Len(items)
  BY DEF IsList
<1>2. IsFilter(f, items, optIn, Len(items))
  BY <1>1, FilterExists, Zenon
<1>3. OptedIn(items, optIn) = f[Len(items)]
  BY Zenon DEF OptedIn, IsFilter
<1> HIDE DEF f
<1>4. f[0] = <<>>
  BY <1>1, <1>2 DEF IsFilter
<1>5. 0 \in T
  <2>1. f[0] \in Seq(S) /\ DOMAIN f[0] = {}
    BY <1>4
  <2>2. Good(0)
    BY <2>1
  <2> HIDE DEF Good
  <2>3. QED BY <2>2
<1>6. ASSUME NEW m \in Nat, m \in T PROVE m + 1 \in T
  <2>1. SUFFICES ASSUME m + 1 <= Len(items) PROVE Good(m + 1)
    BY <1>1
  <2>2. Good(m)
    BY <1>1, <1>6, <2>1
  <2>3. m + 1 \in 0..Len(items) /\ m + 1 # 0 /\ (m + 1) - 1 = m
    BY <1>1, <2>1
  <2>4. f[m + 1] = IF IsOptedIn(items[m + 1], optIn) THEN Append(f[m], items[m + 1]) ELSE f[m]
    BY <1>2, <2>3 DEF IsFilter
  <2>5. items[m + 1] \in S
    BY <1>1, <2>3
  <2>6. CASE IsOptedIn(items[m + 1], optIn)
    <3>1. f[m + 1] = Append(f[m], items[m + 1])
      BY <2>4, <2>6
    <3>2. /\ f[m + 1] \in Seq(S) /\ Len(f[m]) \in Nat
          /\ DOMAIN f[m] = 1..Len(f[m]) /\ DOMAIN f[m + 1] = 1..Len(f[m]) + 1
          /\ \A i \in 1..Len(f[m]) : f[m + 1][i] = f[m][i]
          /\ f[m + 1][Len(f[m]) + 1] = items[m + 1]
      BY <2>2, <2>5, <3>1, AppendProperties
    <3>3. ASSUME NEW i \in DOMAIN f[m + 1] PROVE IsOptedIn(f[m + 1][i], optIn)
      <4>1. i \in DOMAIN f[m] \/ i = Len(f[m]) + 1
        BY <3>2
      <4>2. QED BY <2>2, <2>6, <3>2, <4>1
    <3>4. ASSUME NEW i \in 1..m + 1, IsOptedIn(items[i], optIn)
          PROVE  \E j \in DOMAIN f[m + 1] : f[m + 1][j] = items[i]
      <4>1. CASE i \in 1..m
        <5>1. PICK j \in DOMAIN f[m] : f[m][j] = items[i]
          BY <2>2, <3>4, <4>1
        <5>2. QED BY <3>2, <5>1
      <4>2. CASE i = m + 1
        <5>1. Len(f[m]) + 1 \in DOMAIN f[m + 1]
          BY <3>2
        <5>2. QED BY <3>2, <4>2, <5>1
      <4>3. QED BY <4>1, <4>2
    <3>5. QED BY <3>2, <3>3, <3>4
  <2>7. CASE ~IsOptedIn(items[m + 1], optIn)
    BY <2>2, <2>3, <2>4, <2>7
  <2>8. QED BY <2>6, <2>7
<1>7. Len(items) \in T
  <2> HIDE DEF T
  <2>1. QED BY <1>1, <1>5, <1>6, AllNumbers
<1>8. Good(Len(items))
  BY <1>1, <1>7
<1>9. QED BY <1>1, <1>3, <1>8

-----------------------------------------------------------------------------
(***************************************************************************)
(* Conversion and the names of tools.                                      *)
(***************************************************************************)

\* A value has the kind and the content it was made of.
LEMMA Parts ==
  ASSUME NEW kind, NEW val
  PROVE  Kind(Value(kind, val)) = kind /\ Val(Value(kind, val)) = val
BY DEF Value, Kind, Val

\* The map has the entry that was added last under the key.
LEMMA EntryIsLast ==
  ASSUME NEW reg, IsList(reg), NEW key \in Keys(reg)
  PROVE  \E i \in DOMAIN reg :
           /\ Entry(reg, key) = reg[i] /\ Key(reg[i]) = key
           /\ \A j \in DOMAIN reg : Key(reg[j]) = key => j <= i
<1> DEFINE T == {i \in DOMAIN reg : Key(reg[i]) = key}
<1>1. Len(reg) \in Nat /\ DOMAIN reg = 1..Len(reg)
  BY DEF IsList
<1>2. T # {} /\ T \in SUBSET (1..Len(reg))
  BY <1>1 DEF Keys
<1>3. \E i \in T : \A j \in T : j <= i
  <2> HIDE DEF T
  <2>1. QED BY <1>1, <1>2, LastPosition
<1>4. \E i \in DOMAIN reg : Key(reg[i]) = key /\ \A j \in DOMAIN reg : Key(reg[j]) = key => j <= i
  BY <1>3
<1>5. QED BY <1>4, Zenon DEF Entry

\* A value of an array type is null, or an array and a list; whatever the type, what
\* comes out as an array is a list.
LEMMA CoercedArrays ==
  ASSUME NEW t, NEW type, NEW nullable
  PROVE  LET v == coerce(t, type, nullable) IN
         /\ type = "array" => v = Null \/ Kind(v) = "array"
         /\ Kind(v) = "array" => IsList(Val(v))
<1> DEFINE v == coerce(t, type, nullable)
<1>1. \A x : IsList(<<x>>)
  BY DEF IsList
<1>2. CASE nullable /\ t = NullText
  BY <1>2 DEF coerce, Null, Value, Kind
<1>3. CASE ~(nullable /\ t = NullText)
  <2>1. CASE type = "array"
    <3>1. CASE t \in DOMAIN Json /\ Kind(Json[t]) = "array"
      BY <1>3, <2>1, <3>1, JsonArrays DEF coerce
    <3>2. CASE ~(t \in DOMAIN Json /\ Kind(Json[t]) = "array")
      <4>1. v = Arr(<<IF t \in DOMAIN Json THEN Json[t] ELSE Str(t)>>)
        BY <1>3, <2>1, <3>2 DEF coerce
      <4>2. QED BY <1>1, <4>1 DEF Arr, Value, Kind, Val
    <3>3. QED BY <3>1, <3>2
  <2>2. CASE type = "object" /\ t \in DOMAIN Json
    BY <1>3, <2>2, JsonArrays DEF coerce
  <2>3. CASE type # "array" /\ ~(type = "object" /\ t \in DOMAIN Json)
    <3>1. v \in {Value("number", t), Value("integer", t), Value("boolean", t), Str(t)}
      BY <1>3, <2>3 DEF coerce
    <3>2. QED BY <2>3, <3>1 DEF Value, Str, Kind
  <2>4. QED BY <2>1, <2>2, <2>3
<1>4. QED BY <1>2, <1>3

\* resolveToolNameArgs first rewrites the two arguments that name tools, and then the tasks.
LEMMA FieldResolved ==
  ASSUME NEW reg, NEW fields, NEW name
  PROVE  /\ DOMAIN ResolveField(reg, fields, name) = DOMAIN fields
         /\ \A a \in DOMAIN fields \ {name} : ResolveField(reg, fields, name)[a] = fields[a]
         /\ name \in DOMAIN fields =>
              ResolveField(reg, fields, name)[name] = ResolveString(reg, fields[name])
BY DEF ResolveField

\* The tasks, if they came as an array, stay one: each is rewritten in its place.
LEMMA TasksResolved ==
  ASSUME NEW reg, NEW args
  PROVE  LET named == resolveToolNameArgs(reg, args)
             both == ResolveField(reg, ResolveField(reg, args, "default_tool_name"), "tool_name")
         IN  /\ DOMAIN named = DOMAIN both
             /\ \A a \in DOMAIN both \ {"tasks"} : named[a] = both[a]
             /\ "tasks" \in DOMAIN both /\ Kind(both["tasks"]) = "array" =>
                  named["tasks"] =
                    Arr([i \in DOMAIN Val(both["tasks"]) |-> ResolveTask(reg, Val(both["tasks"])[i])])
<1> DEFINE both == ResolveField(reg, ResolveField(reg, args, "default_tool_name"), "tool_name")
<1>1. resolveToolNameArgs(reg, args) =
        IF "tasks" \in DOMAIN both /\ Kind(both["tasks"]) = "array"
        THEN [both EXCEPT !["tasks"] =
                Arr([i \in DOMAIN Val(both["tasks"]) |-> ResolveTask(reg, Val(both["tasks"])[i])])]
        ELSE both
  BY DEF resolveToolNameArgs
<1> HIDE DEF both
<1>2. QED BY <1>1 DEF both

\* No argument comes or goes.
LEMMA NamesDomain ==
  ASSUME NEW reg, NEW args
  PROVE  DOMAIN resolveToolNameArgs(reg, args) = DOMAIN args
<1> DEFINE first == ResolveField(reg, args, "default_tool_name")
           both == ResolveField(reg, first, "tool_name")
<1>1. DOMAIN first = DOMAIN args /\ DOMAIN both = DOMAIN first
  BY FieldResolved
<1>2. QED BY <1>1, TasksResolved

\* Other arguments it leaves alone.
LEMMA NamesResolved ==
  ASSUME NEW reg, NEW args, NEW a \in DOMAIN args, a # "tasks"
  PROVE  /\ a \in DOMAIN resolveToolNameArgs(reg, args)
         /\ resolveToolNameArgs(reg, args)[a] =
              IF a \in {"default_tool_name", "tool_name"} THEN ResolveString(reg, args[a]) ELSE args[a]
<1> DEFINE first == ResolveField(reg, args, "default_tool_name")
           both == ResolveField(reg, first, "tool_name")
<1>1. /\ DOMAIN first = DOMAIN args
      /\ first[a] = IF a = "default_tool_name" THEN ResolveString(reg, args[a]) ELSE args[a]
  BY FieldResolved
<1>2. /\ DOMAIN both = DOMAIN first
      /\ both[a] = IF a = "tool_name" THEN ResolveString(reg, first[a]) ELSE first[a]
  <2> HIDE DEF first
  <2>1. QED BY <1>1, FieldResolved
<1>3. a \in DOMAIN resolveToolNameArgs(reg, args) /\ resolveToolNameArgs(reg, args)[a] = both[a]
  BY <1>1, <1>2, TasksResolved
<1> HIDE DEF first, both
<1>4. QED BY <1>1, <1>2, <1>3

\* The tool_name of each task is resolved, if the tasks came as an array.
LEMMA TaskNamesResolved ==
  ASSUME NEW reg, NEW args, "tasks" \in DOMAIN args, Kind(args["tasks"]) = "array"
  PROVE  /\ "tasks" \in DOMAIN resolveToolNameArgs(reg, args)
         /\ resolveToolNameArgs(reg, args)["tasks"] =
              Arr([i \in DOMAIN Val(args["tasks"]) |-> ResolveTask(reg, Val(args["tasks"])[i])])
<1> DEFINE first == ResolveField(reg, args, "default_tool_name")
           both == ResolveField(reg, first, "tool_name")
<1>1. DOMAIN first = DOMAIN args /\ first["tasks"] = args["tasks"]
  BY FieldResolved
<1>2. DOMAIN both = DOMAIN first /\ both["tasks"] = first["tasks"]
  <2> HIDE DEF first
  <2>1. QED BY <1>1, FieldResolved
<1>3. "tasks" \in DOMAIN both /\ both["tasks"] = args["tasks"]
  BY <1>1, <1>2
<1>4. QED BY <1>3, TasksResolved

\* sanitizeIncludeFields touches include_fields only, which is not null afterwards.
LEMMA OthersKept ==
  ASSUME NEW args, NEW schema
  PROVE  LET clean == sanitizeIncludeFields(args, schema) IN
         /\ DOMAIN clean \ {"include_fields"} = DOMAIN args \ {"include_fields"}
         /\ \A a \in DOMAIN args \ {"include_fields"} : clean[a] = args[a]
         /\ "include_fields" \in DOMAIN clean => "include_fields" \in DOMAIN args
BY DEF sanitizeIncludeFields, Without

\* Of include_fields, null is dropped, and an array that is neither empty nor ["all"] keeps
\* the items the schema opts in, if it names any.
LEMMA FieldsSanitized ==
  ASSUME NEW args, NEW schema, "include_fields" \in DOMAIN args
  PROVE  LET clean == sanitizeIncludeFields(args, schema)
             raw == args["include_fields"]
             strip == /\ Kind(raw) = "array" /\ Val(raw) \notin {<<>>, <<Str(AllText)>>}
                      /\ "include_fields" \in DOMAIN schema /\ schema["include_fields"].optIn # {}
             kept == OptedIn(Val(raw), schema["include_fields"].optIn)
         IN  /\ Kind(raw) = "null" => "include_fields" \notin DOMAIN clean
             /\ strip /\ kept = <<>> => "include_fields" \notin DOMAIN clean
             /\ strip /\ kept # <<>> =>
                  "include_fields" \in DOMAIN clean /\ clean["include_fields"] = Arr(kept)
             /\ Kind(raw) # "null" /\ ~strip =>
                  "include_fields" \in DOMAIN clean /\ clean["include_fields"] = raw
BY DEF sanitizeIncludeFields, Without
=============================================================================
