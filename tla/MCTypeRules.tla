---------------------------- MODULE MCTypeRules ----------------------------
EXTENDS TypeRules, SequencesExt

Operators == {"==", "===", "!=", "!==", "+"}

MCBooleanComparisons ==
  { c \in [operator : Operators, literal : {"true", "false", "none"},
           type : SUBSET {"true", "false", "null", "undefined", "text", "emptyText"},
           generic : BOOLEAN, strong : BOOLEAN, negation : BOOLEAN] :
      c.generic \/ c.type # {} }

MCComparisonOptions == [allowTrue : BOOLEAN, allowFalse : BOOLEAN]

Joined(parts) == FlattenSeq([i \in 1 .. 2 * Len(parts) - 1 |->
                               IF i % 2 = 0 THEN <<"|">> ELSE parts[(i + 1) \div 2]])

Unions(parts, lengths) == { Joined(p) : p \in UNION { [1 .. n -> parts] : n \in lengths } }

Group(texts) == { <<"(">> \o t \o <<")">> : t \in texts }

MCUnionTexts ==
  LET names == { <<n>> : n \in {"A", "B", "undefined"} }
      pairs == Group(Unions(names, 1 .. 2))
      groups == Group(Unions(names, 1 .. 3))
      deep == Group(Unions(Group(Unions({<<"A">>, <<"B">>}, 1 .. 2)), 1 .. 2))
      texts == Unions(names \cup pairs, 2 .. 3) \cup Unions(names \cup groups, {2})
                 \cup { Joined(<<a, b>>) : a \in names \cup pairs, b \in deep }
                 \cup Unions({<<"A">>, <<"error">>, <<"(", "A", "|", "error", ")">>}, 2 .. 3)
  IN  texts \cup { <<"|">> \o t : t \in Unions(names \cup pairs, {2}) }
        \cup Group(Unions(names, 2 .. 3))

\* An alias stands for a type from which the checker took out what is redundant.
Constituent(alias, parts) == [alias |-> alias, parts |-> parts]

MCConstituent ==
  { Constituent(FALSE, <<p>>) : p \in {"any", "unknown", "never", "string", "boolean", "a", "one", "true"} }
    \cup { Constituent(FALSE, p) : p \in {<<"a", "b">>, <<"a", "string">>, <<"a", "one">>, <<"true", "false">>} }
    \cup { Constituent(TRUE, p) : p \in {<<"error">>, <<"boolean">>, <<"string">>, <<"any">>,
                                          <<"boolean", "string">>, <<"true", "a">>, <<"a", "b">>} }

MCUnionConstituents == UNION { [1 .. n -> MCConstituent] : n \in 2 .. 3 }
MCIntersectionConstituents ==
  UNION { [1 .. n -> MCConstituent \cup {Constituent(FALSE, <<"number">>)}] : n \in 2 .. 3 }

\* Three types over each other and over a type of each kind without parts.  Unions and
\* intersections are as the checker has them; only arrays and tuples contain themselves.
MCTypeGraphs ==
  LET Kind(k, parts) == [kind |-> k, parts |-> parts]
      pairs == { p \in (1 .. 5) \X (1 .. 5) : p[1] <= p[2] }
      Arrays == { Kind("array", <<i>>) : i \in 1 .. 5 } \cup { Kind("tuple", p) : p \in pairs }
      Sets(n) == { Kind(k, p) : k \in {"union", "intersection"},
                                p \in { q \in pairs : q[1] < q[2] /\ n \notin {q[1], q[2]} } }
      All(n) == Arrays \cup Sets(n) \cup { Kind("parameter", <<i>>) : i \in n + 1 .. 5 }
      leaves == <<Kind("base", << >>), Kind("own", << >>)>>
      IsArray(types, i) == types[i].kind \in {"array", "tuple"}
      Legal(types) ==
        \A i \in 1 .. 3 : \A j \in DOMAIN types[i].parts :
          LET part == types[i].parts[j] IN
          CASE types[i].kind = "union" ->
                 types[part].kind # "union" /\ (part > i \/ IsArray(types, part))
            [] types[i].kind = "intersection" ->
                 types[part].kind \notin {"union", "intersection"} /\ (part > i \/ IsArray(types, part))
            [] OTHER -> TRUE
  IN  { t \in { <<a, b, c>> \o leaves : a \in All(1), b \in All(2), c \in Arrays \cup Sets(3) } : Legal(t) }

MCSwitches ==
  [type : SUBSET {{"a"}, {"b"}, {"undefined"}, {"missing"}, {"string"}, {"a", "brand"}} \ {{}},
   cases : SUBSET {"a", "b", "undefined", "string"}, default : BOOLEAN]

MCSwitchOptions ==
  [allowDefaultCaseForExhaustiveSwitch : BOOLEAN, considerDefaultExhaustiveForUnions : BOOLEAN,
   requireDefaultForNonUnion : BOOLEAN]

\* Types and targets of depth two.
MCTypes ==
  LET T(k, parts) == [kind |-> k, parts |-> parts]
      base == {T("any", << >>), T("plain", << >>)}
      Over(S) == { T("array", <<t>>) : t \in S }
                   \cup { T(k, p) : k \in {"tuple", "object"}, p \in BoundedSeq(S, 2) }
  IN  base \cup Over(base \cup Over(base) \cup {T("tuple", <<T("array", <<T("any", << >>)>>)>>)})

MCTargets ==
  LET P(k, literal, parts, keys) == [kind |-> k, literal |-> literal, parts |-> parts, keys |-> keys]
      Leaf(k, l) == P(k, l, << >>, << >>)
      Leaves(l) == { Leaf(k, l) : k \in {"name", "hole"} }
      Over(S, l) == { P("array", l, p, << >>) : p \in BoundedSeq(S, 2) }
                      \cup { P("object", l, p, k) : p \in { q \in BoundedSeq(S, 2) : Len(q) = 2 /\
                                                            \A i \in DOMAIN q : q[i].kind # "hole" },
                                                   k \in {<<1, 2>>, <<2, 0>>} }
      Few(l) == {P("array", l, <<Leaf("name", l), Leaf("rest", l)>>, << >>),
                 P("array", l, <<Leaf("hole", l), Leaf("name", l)>>, << >>),
                 P("object", l, <<Leaf("name", l)>>, <<2>>)}
  IN  UNION { {Leaf("name", l)} \cup Over(Leaves(l) \cup Few(l), l) : l \in BOOLEAN }

MCUnsafeAssignments ==
  { [type |-> t, target |-> p, receiverUnknown |-> FALSE, comparison |-> "basic", unsafe |-> FALSE,
     anyThis |-> FALSE] : t \in MCTypes, p \in MCTargets }
  \cup { a \in [type : MCTypes, target : {[kind |-> "name", literal |-> FALSE, parts |-> << >>, keys |-> << >>]},
                receiverUnknown : BOOLEAN, comparison : {"none", "basic"}, unsafe : BOOLEAN, anyThis : BOOLEAN] :
            a.type.kind \in {"any", "plain"} }

\* (A shorthand property has a name for a value, and no assignment.)
MCObjectLiterals ==
  BoundedSeq({ p \in [kind : {"property", "shorthand", "other"}, unsafe : BOOLEAN,
                      assigns : {"no", "=", "compound"}, unknown : BOOLEAN] :
                 /\ p.assigns # "no" => p.kind = "property"
                 /\ p.unknown => p.assigns = "=" }, 3)

\* Statements over expressions of depth three.
MCConditionTrees ==
  LET T(op, parts) == [op |-> op, parts |-> parts]
      leaves == {T("promise", << >>), T("value", << >>)}
      Over(S) == { T(op, <<e>>) : op \in {"not", "paren"}, e \in S }
                   \cup { T(op, <<a, b>>) : op \in {"&&", "||", "??", "comma", "assign"}, a \in S, b \in S }
      two == leaves \cup Over(leaves)
      few == two \ { e \in two : \E i \in DOMAIN e.parts : e.parts[i].op = "value" }
  IN  { T(op, <<e>>) : op \in {"test", "statement"},
                       e \in two \cup Over(few) \cup { T("paren", <<f>>) : f \in Over(few) } }

MCFunctionTypes ==
  {{{}}, {{{"void"}}}, {{{"thenable"}}}, {{{"void", "thenable"}}}, {{{"void"}, {"thenable"}}},
   {{{"void"}}, {{"thenable"}}}, {{{"void"}}, {}}, {{{"other"}}}}

\* Up to three overloads; the parameters are a value, or a function without result or with a promise.
MCFunctionCalls ==
  LET few == {{{}}, {{{"void"}}}, {{{"thenable"}}}}
      P(rest, types) == [rest |-> rest, types |-> types]
      overloads == { <<P("none", <<a>>), P("none", <<b>>)>> : a \in few, b \in few }
                     \cup { <<P(r, <<a>>)>> : r \in {"none", "array", "tuple"}, a \in MCFunctionTypes }
                     \cup { <<P("none", <<a>>), P(r, <<b>>)>> : r \in {"array", "tuple"}, a \in few, b \in few }
                     \cup { <<P("tuple", <<a, b>>)>> : a \in few, b \in few }
      short == { <<P("none", <<a>>)>> : a \in few } \cup { <<P("none", <<{{}}>>), P("none", <<a>>)>> : a \in few }
                 \cup {<<P("array", <<a>>)>> : a \in few}
      given == {<<a, {{{"thenable"}}}>> : a \in {{{}}, {{{"thenable"}}}}}
  IN  { c \in [arguments : given \cup {<<{{{"void"}, {"thenable"}}}>>, << >>},
               overloads : { <<a>> : a \in overloads } \cup { <<a, b>> : a \in overloads, b \in overloads },
               resolved : 1 .. 2] : c.resolved <= Len(c.overloads) }
      \cup [arguments : given \cup {<<{{{"thenable"}}}>>}, overloads : { <<a, b, c>> : a \in short, b \in short, c \in short },
            resolved : 1 .. 3]

MCPlaces ==
  { p \in [kind : {"attribute", "property", "shorthand", "method", "return", "assignment", "variable"},
           expected : MCFunctionTypes, value : MCFunctionTypes, annotated : BOOLEAN, computed : BOOLEAN,
           annotation : {"none", "TypeReference", "FunctionType", "ParenthesizedType"}, inFunction : BOOLEAN] :
      /\ p.annotated => p.kind \in {"property", "method"}
      /\ p.computed => p.kind = "method"
      /\ p.annotation # "none" => p.kind \in {"return", "variable"}
      /\ p.kind = "variable" => p.annotation # "none"
      /\ ~ p.inFunction => p.kind = "return" }

MCClasses ==
  LET types == {{{{"void"}}}, {{{"thenable"}}}}
  IN  [members : BoundedSeq({ m \in [name : {"m", "none"}, computed : BOOLEAN, static : BOOLEAN, type : types] :
                               m.name = "none" => ~ m.computed }, 2),
       heritage : BoundedSeq([{"m"} -> types] \cup {<< >>}, 2)]

MCVoidOptions ==
  [ignoreArrowShorthand : BOOLEAN, ignoreVoidOperator : BOOLEAN, ignoreVoidReturningFunctions : BOOLEAN]

\* Up to two ancestors that pass a value on, and one that does not.  Within parentheses only,
\* what is returned is the expression itself.
MCVoidExpressionsFound ==
  LET ends == {"expression statement", "left of comma", "operand", "void", "return",
               "arrow function", "left of && || ??", "test of ?:"}
      ways == { p \o <<e>> : p \in BoundedSeq(VoidExpressions!PassOn \cup {"right of comma"}, 2), e \in ends }
      results == {{}, {"void"}, {"void", "value"}, {"value"}}
      functions == { f \in [kind : {"function expression", "function declaration", "arrow function", "method"},
                            annotation : results, contextual : results] :
                       f.kind = "function declaration" => f.contextual = {} }
      one == [kind |-> "arrow function", annotation |-> {}, contextual |-> {}]
      places == { p \in BoundedSeq({"last", "inner", "branch", "loop", "clause"}, 3) :
                    p # << >> /\ Last(p) \in {"last", "inner"} }
  IN  { e \in [void : {TRUE}, around : ways, voidOuter : BOOLEAN, function : {one}, place : places]
                 \cup [void : BOOLEAN, around : { <<end>> : end \in ends }, voidOuter : {TRUE},
                       function : functions, place : {<<"last">>}] :
          /\ ToSet(e.around) \cap {"right of && || ??", "branch of ?:"} = {} => e.voidOuter
          /\ Last(e.around) # "return" => e.place = <<"last">>
          /\ Last(e.around) = "arrow function" => e.function.kind = "arrow function" }

MCAssertions ==
  LET types == (SUBSET {"undefined", "missing", "a", "literal"}) \ {{}}
  IN  [ignored : BOOLEAN, const : BOOLEAN, narrowed : BOOLEAN, cast : types, uncast : types]

MCNonNullUses ==
  LET declarations == { d \in [kind : {"none", "parameter", "var", "let"}, initializer : BOOLEAN,
                               exclamation : BOOLEAN, typed : BOOLEAN, declare : BOOLEAN] :
                          (d.initializer \/ d.exclamation \/ d.declare) => d.kind \in {"var", "let"} /\ d.typed }
      one == [kind |-> "parameter", initializer |-> FALSE, exclamation |-> FALSE, typed |-> TRUE, declare |-> FALSE]
      types == {{"any"}, {"unknown"}} \cup { n \cup {"text"} : n \in SUBSET {"null", "undefined", "void"} }
  IN  [type : types, contextual : types \cup {{}}, parent : {"target", "source", "other"}, identifier : BOOLEAN,
       declaration : {one}, outside : {FALSE}, narrowed : {FALSE}]
        \cup [type : {{"text"}}, contextual : {{}}, parent : {"other"}, identifier : BOOLEAN,
              declaration : declarations, outside : BOOLEAN, narrowed : BOOLEAN]

MCPackageLists ==
  LET Object(name, exported, kind, struct, methods, fields) ==
        [name |-> name, exported |-> exported, kind |-> kind, struct |-> struct, mentions |-> {"ast"},
         methods |-> methods, fields |-> fields]
      Field(name, inlined, size) == [name |-> name, inlined |-> inlined, size |-> size]
      Named(name) == {Field(name, FALSE, 1), Field(name, TRUE, 1), Field(name, TRUE, 2)}
      structs == {<< >>} \cup { <<a>> : a \in Named("a") } \cup { <<a, b>> : a \in Named("a"), b \in Named("b") }
      objects == { Object("f", e, k, FALSE, << >>, << >>) : e \in BOOLEAN, k \in {"function", "generic", "const"} }
      types == { o \in { Object("T", e, k, s, m, f) : e \in BOOLEAN, k \in {"type", "alias"}, s \in BOOLEAN,
                                                     m \in {<<"m">>, << >>}, f \in structs } :
                   o.fields # << >> => o.struct }
      requests == [functions : SUBSET {"f", "g"}, methods : SUBSET {<<"T", "m">>},
                   fields : UNION { [S -> SUBSET {"a", "c"}] : S \in SUBSET {"T"} }, ignored : SUBSET {"f"}]
      Package(json, scope, r, creatable) == [json |-> json, scope |-> scope, requests |-> r, creatable |-> creatable]
      none == [functions |-> {}, methods |-> {}, fields |-> << >>, ignored |-> {}]
      \* The scope is in the order of the names: "F", if it is exported, "T" and "f".
      InOrder(o, t) == IF o.exported THEN <<o, t>> ELSE <<t, o>>
      packages == { Package("request", <<t>>, r, TRUE) : t \in types,
                             r \in { q \in requests : q.functions = {} /\ q.ignored = {} } }
                    \cup { Package("request", InOrder(o, t), r, TRUE) : o \in objects,
                             r \in { q \in requests : q.fields = << >> },
                             t \in { u \in types : u.fields = << >> /\ ~ u.struct } }
                    \cup { Package(j, <<o>>, none, c) : j \in {"request", "malformed"}, o \in objects, c \in BOOLEAN }
      done == Package("request", <<Object("f", FALSE, "function", FALSE, << >>, << >>)>>,
                      [none EXCEPT !.functions = {"f"}], TRUE)
  IN  { <<p>> : p \in packages } \cup { <<p, done>> : p \in packages } \cup { <<done, p>> : p \in packages }

MCAdditions ==
  LET parts == {"string", "number", "bigint", "boolean", "null", "symbol", "object", "RegExp"}
      types == { S \in SUBSET parts : Cardinality(S) \in 1 .. 2 } \cup {{"any"}, {"unknown"}, {"never"}}
  IN  [operator : {"+", "+="}, left : types, right : types]

MCPlusOptions ==
  { o \in [allowAny : BOOLEAN, allowBoolean : BOOLEAN, allowNullish : BOOLEAN, allowNumberAndString : BOOLEAN,
           allowRegExp : BOOLEAN, skipCompoundAssignments : BOOLEAN] :
      Cardinality({ f \in DOMAIN o : o[f] }) \in {0, 1, 5, 6} }

RECURSIVE Assignable(_, _)
Assignable(t, to) ==
  \/ t.kind = "any" \/ to.kind \in {"any", "unknown"} \/ (t.kind = "text" /\ to.kind = "text")
  \/ t.kind = "union" /\ \A i \in DOMAIN t.parts : Assignable(t.parts[i], to)
  \/ to.kind = "union" /\ \E i \in DOMAIN to.parts : Assignable(t, to.parts[i])
  \/ t.kind \in {"array", "promise"} /\ to.kind = t.kind /\ Assignable(t.parts[1], to.parts[1])

\* Types of depth three, and functions with up to two signatures; what is returned compiles.
MCReturns ==
  LET T(kind, parts) == [kind |-> kind, parts |-> parts]
      leaves == { T(k, << >>) : k \in {"any", "unknown", "text"} }
      Over(S) == { T(k, <<t>>) : k \in {"array", "promise"}, t \in S }
      types == leaves \cup Over(leaves) \cup Over(Over(leaves))
      unions == { T("union", <<T("text", << >>), t>>) : t \in Over(leaves) }
      promises == { T("union", <<T("promise", <<t>>), T("promise", <<u>>)>>) : t \in leaves \cup Over(leaves), u \in leaves }
      results == leaves \cup Over(leaves)
      functions == { T("function", <<t>>) : t \in types \cup unions }
      several == { T(k, <<T("function", <<a>>), T("function", <<b>>)>>) : k \in {"union", "intersection"}, a \in results, b \in results }
                   \cup { T("function", <<a, b>>) : a \in results, b \in results } \cup {T("text", << >>)}
                   \cup { T("intersection", <<T("text", << >>), f>>) : f \in functions }
  IN  { r \in [type : types \cup unions \cup promises, inFunction : BOOLEAN, expected : functions \cup several, annotated : BOOLEAN,
               async : BOOLEAN, way : {<< >>, <<"paren", "call", "access", "this">>}] :
          /\ ~ r.inFunction => ~ r.annotated /\ ~ r.async
          /\ r.way # << >> => r.type.kind = "any"
          /\ \A t \in ToSet(UnsafeReturn!CollectAllCallSignatures(r.expected)) :
               IF r.async THEN /\ t.kind \in {"promise", "any", "unknown"}
                               /\ Assignable(UnsafeReturn!Awaited(r.type), UnsafeReturn!Awaited(t))
               ELSE Assignable(r.type, t) }

MCSymbols ==
  { s \in [kind : {"method", "property of function", "assigned function", "other"},
           this : {"none", "unannotated", "void", "type"}, static : BOOLEAN] :
      /\ s.static => s.kind = "method"
      /\ s.kind \in {"property of function", "other"} => s.this = "none" }

\* Up to two steps that pass the value on.
MCAccesses ==
  LET ends == (UnboundMethod!Safe \cup UnboundMethod!Keeps \cup {"statement", "do test"}) \ {"callee without object"}
      ways == { p \o <<e>> : p \in BoundedSeq(UnboundMethod!Passes, 2), e \in ends }
      one == [kind |-> "method", this |-> "none", static |-> FALSE]
      unknown == [named |-> FALSE, elsewhere |-> FALSE, builtin |-> FALSE]
  IN  [way : ways, symbol : {one}, source : {unknown}]
        \cup [way : {<<"argument">>, <<"callee">>}, symbol : MCSymbols,
              source : [named : BOOLEAN, elsewhere : BOOLEAN, builtin : BOOLEAN]]

MCBindings ==
  LET sources == [named : {FALSE}, elsewhere : {FALSE}, builtin : BOOLEAN]
      symbols == { s \in MCSymbols : s.this \notin {"unannotated", "type"} /\ s.kind # "assigned function" }
  IN  [init : [present : BOOLEAN, symbol : symbols, source : sources], isDefault : BOOLEAN,
       pattern : BoundedSeq(symbols, 2), around : {{}, {"function type"}}, rest : BOOLEAN]

MCResults ==
  LET leaves == { [kind |-> k, parts |-> << >>] : k \in {"any", "Promise", "other"} }
      Of(types) == { [kind |-> k, parts |-> p] : k \in {"union", "intersection", "class"}, p \in [1 .. 2 -> types] }
                     \cup { [kind |-> "class", parts |-> p] : p \in {<< >>} \cup [1 .. 1 -> types] }
      Proper(t) == t.kind = "union" => \A i \in DOMAIN t.parts : t.parts[i].kind # "any"
      one == { t \in Of(leaves) : Proper(t) }
  IN  leaves \cup one \cup { t \in Of(one \cup leaves) : Proper(t) /\ t.parts # << >> /\ t.parts[1] \in one }

\* Forms with all modifiers and simple results, and all results of one form.
MCFunctions ==
  LET simple == { [kind |-> k, parts |-> << >>] : k \in {"any", "Promise", "other"} }
      Found(forms, modifiers, results) ==
        [form : forms, modifiers : modifiers, body : BOOLEAN, annotated : BOOLEAN, signatures : results]
      some == BoundedSeq(simple, 2)
      plain == {<< >>, <<"async">>}
  IN  Found({"arrow", "expression"}, plain, some)
        \cup Found({"declaration"}, plain \cup {<<"export">>, <<"export", "default">>, <<"export", "async">>}, some)
        \cup Found({"method"}, plain \cup {<<"static">>, <<"public", "override">>}, some)
        \cup { f \in Found({"method"}, {<<"abstract">>}, some) : ~ f.body }
        \cup { f \in Found({"method"}, {<< >>}, { <<t>> : t \in MCResults }) : f.body }

MCFunctionOptions == [allowAny : BOOLEAN, check : {{"arrow", "method"}, {"declaration", "expression", "method"}}]

\* First parameters that the grammar has: a parameter without parentheses is no more than a name.
MCFirstParameters ==
  { p \in [binding : {"none", "x", "[a]", "{a}"}, this : {"no", "none", "T"}, rest : BOOLEAN,
           optional : BOOLEAN, annotation : {"none", "any", "unknown", "[unknown]", "unknown[]"}, parenless : BOOLEAN] :
      /\ p.binding = "none" => ~ p.rest /\ ~ p.optional /\ p.annotation = "none" /\ ~ p.parenless
      /\ p.parenless => p.binding = "x" /\ p.this = "no" /\ ~ p.rest /\ ~ p.optional /\ p.annotation = "none"
      /\ p.rest => ~ p.optional /\ p.annotation # "unknown" }

MCCatchCalls ==
  LET Expression(kind, parts) == [kind |-> kind, parts |-> parts, parameter |-> "no handler"]
      Handler(p) == [kind |-> "handler", parts |-> << >>, parameter |-> p]
      Parameter(type) == [binding |-> "x", this |-> "no", rest |-> FALSE, optional |-> FALSE,
                          annotation |-> type, parenless |-> FALSE]
      leaves == {Expression("other", << >>), Handler(Parameter("any")), Handler(Parameter("unknown"))}
      Over(L, R) == { Expression("paren", <<e>>) : e \in L }
                   \cup { Expression(kind, <<l, r>>) : kind \in {"&&", "||", "comma"}, l \in L, r \in R }
                   \cup { Expression("conditional", <<c, l, r>>) : c \in leaves, l \in L, r \in R }
      one == leaves \cup Over(leaves, leaves)
      arguments == leaves \cup {Expression("spread", << >>)}
      Call(methods, given) == [method : methods, thenable : BOOLEAN, arguments : given]
  IN  Call({"catch"}, { <<e>> : e \in Over(one, leaves) \cup Over(leaves, one) })
        \cup Call({"catch", "then"}, { <<Handler(p), Handler(p)>> : p \in MCFirstParameters })
        \cup Call({"catch", "then", "finally"}, BoundedSeq(arguments, 3))

MCSpreads ==
  LET kinds == Spreads!LostInObject \cup {"string", "plain", "function with properties"}
      parts == { {k} : k \in kinds } \cup { {"plain", k} : k \in kinds } \cup {{"Map", "instance"}, {"promise", "Map"}}
      types == { {p, q} : p \in parts, q \in parts }
  IN  { s \in [in : {"array", "call", "jsx", "object"}, type : types, allowed : BOOLEAN,
               argument : {"name", "paren", "operator"}, single : BOOLEAN] :
          s.in # "object" => ~ s.single }

(***************************************************************************)
(* no-floating-promises: expressions from three rounds of construction,    *)
(* the last two with few choices.  Parentheses are where the grammar needs *)
(* them, and around some expressions that do not.                          *)
(***************************************************************************)
Unary(op, e) == [kind |-> op, operand |-> e]
Value(values) == [kind |-> "value", values |-> values]
Call(callee) == [kind |-> "call", callee |-> callee, values |-> {"promise"}]

Leaves ==
  { Value(v) : v \in {{"promise"}, {"safe"}, {"array"}, {"truthy"}, {"falsy"},
                      {"promise", "falsy"}, {"truthy", "falsy"}} }
    \cup { Call(c) : c \in {"plain", "function", "knownSafe"} }

Paren(e) == Unary("paren", e)

\* An operand of an operator that binds as tightly as the kind.
Rank(e) ==
  CASE e.kind = "comma" -> 0
    [] e.kind \in {"conditional", "assignment"} -> 1
    [] e.kind \in {"and", "or"} -> 2
    [] e.kind \in {"void", "await"} -> 3
    [] OTHER -> 4

Operand(e, rank) == IF Rank(e) < rank THEN Paren(e) ELSE e

Methods(e) ==
  IF e.kind \in {"value", "call"} /\ ~ (e.values \subseteq {"promise", "safe", "falsy"}) THEN {}
  ELSE { [kind |-> "method", name |-> n, handler |-> h, operand |-> Operand(e, 4)] :
           n \in {"catch", "then"}, h \in {"none", "function", "other"} }
         \cup {[kind |-> "method", name |-> "finally", handler |-> "none", operand |-> Operand(e, 4)]}

UnaryOf(es) ==
  UNION { Methods(e) : e \in es }
    \cup { Unary(op, Operand(e, 3)) : op \in {"void", "await"}, e \in es }
    \cup { Unary("assignment", Operand(e, 1)) : e \in es }
    \cup { Paren(e) : e \in es }

BinaryOf(lefts, rights) ==
  { [kind |-> "comma", left |-> l, right |-> Operand(r, 1)] : l \in lefts, r \in rights }
    \cup { [kind |-> k, left |-> Operand(l, 3), right |-> Operand(r, 3)] :
             k \in {"and", "or"}, l \in lefts, r \in rights }
    \cup { [kind |-> "conditional", left |-> Operand(l, 1), right |-> Operand(r, 1)] :
             l \in lefts, r \in rights }

Few == {Value({"promise"}), Value({"truthy", "falsy"}), Value({"safe"})}

Some == Few \cup {Value({"array"}), Value({"promise", "falsy"}), Call("plain")}

Handled == { [kind |-> "method", name |-> "catch", handler |-> h, operand |-> Value({"promise"})] :
               h \in {"function", "other"} }

One == Leaves \cup UnaryOf(Leaves) \cup BinaryOf(Some, Some)

Small == UnaryOf(Few) \cup BinaryOf(Few, Few) \cup UnaryOf(Handled)

MCExpressions ==
  One \cup UnaryOf(One) \cup BinaryOf(One, Few) \cup BinaryOf(Few, One)
    \cup BinaryOf(Small, Handled) \cup BinaryOf(Handled, Small)
    \cup UnaryOf(UnaryOf(BinaryOf(Few, Few)))
=============================================================================
