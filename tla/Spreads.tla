------------------------------ MODULE Spreads ------------------------------
(***************************************************************************)
(* The rule no-misused-spread.                                             *)
(*                                                                         *)
(* A type is the set of its union parts, each the set of the types of an   *)
(* intersection: "string", "promise", "function", "function with           *)
(* properties", "Map", "array", "iterable" (an interface of the program),  *)
(* "instance", "class" and "plain".                                        *)
(*                                                                         *)
(* A spread is [in, type, allowed, argument, single]: in "array", "call",  *)
(* "jsx" or "object"; whether an option allows the type; the argument's    *)
(* kind; and whether nothing else is in the object literal.                *)
(***************************************************************************)
EXTENDS Integers, Sequences, SequencesExt

\* TypeRecurser: some of the parts of the parts.
Recursed(type, kinds) == \E part \in type : part \cap kinds # {}

isString(type) == Recursed(type, {"string"})
isPromise(type) == Recursed(type, {"promise"})
isFunctionWithoutProps(type) == Recursed(type, {"function"})
isMap(type) == Recursed(type, {"Map"})
isArray(type) == Recursed(type, {"array"})
isIterable(type) == Recursed(type, {"iterable", "string", "Map", "array"})
isClassInstance(type) == Recursed(type, {"instance", "Map", "promise", "array"})
isClassDeclaration(type) == Recursed(type, {"class", "instance"})

checkArrayOrCallSpread(spread) ==
  IF ~ spread.allowed /\ isString(spread.type) THEN "noStringSpread" ELSE "none"

\* The texts of arguments, and those that bind more strongly than await.
ArgumentText(argument) ==
  CASE argument = "name" -> <<"a">>
    [] argument = "paren" -> <<"(", "a", "??", "b", ")">>
    [] OTHER -> <<"a", "??", "b">>

IsHigherPrecedenceThanAwait(argument) == argument = "name"

\* insertAwaitFix, within the parentheses that the argument has.
Awaited(argument) ==
  LET inner == IF argument = "paren" THEN "operator" ELSE argument
      await == IF IsHigherPrecedenceThanAwait(inner) THEN <<"await">> \o ArgumentText(inner)
               ELSE <<"await", "(">> \o ArgumentText(inner) \o <<")">>
  IN  <<"...">> \o (IF argument = "paren" THEN <<"(">> \o await \o <<")">> ELSE await)

\* getMapSpreadSuggestions: the braces and what follows the argument go if nothing else is in
\* the object.
getMapSpreadSuggestions(spread) ==
  LET entries == <<"Object.fromEntries(">> \o ArgumentText(spread.argument) \o <<")">> IN
  CASE \E part \in spread.type : ~ isMap({part}) -> << >>
    [] OTHER -> IF spread.in = "object" /\ spread.single THEN entries
                ELSE <<"...">> \o entries

\* checkObjectSpread: the first that applies.
checkObjectSpread(spread) ==
  LET t == spread.type
      checks == << <<isPromise(t), "noPromiseSpreadInObject">>,
                   <<isFunctionWithoutProps(t), "noFunctionSpreadInObject">>,
                   <<isMap(t), "noMapSpreadInObject">>,
                   <<isArray(t), "noArraySpreadInObject">>,
                   <<isIterable(t) /\ ~ isString(t), "noIterableSpreadInObject">>,
                   <<isClassInstance(t), "noClassInstanceSpreadInObject">>,
                   <<isClassDeclaration(t), "noClassDeclarationSpreadInObject">> >>
      applying == SelectSeq(checks, LAMBDA check : check[1])
  IN  IF spread.allowed \/ applying = << >> THEN "none" ELSE Head(applying)[2]

\* The listeners: what is said of the spread, and the text that is suggested for it, or for the
\* object literal, if one is.
Reports(spread) ==
  LET message == IF spread.in \in {"array", "call"} THEN checkArrayOrCallSpread(spread) ELSE checkObjectSpread(spread)
  IN  { [message |-> m, suggested |-> CASE m = "noPromiseSpreadInObject" -> Awaited(spread.argument)
                                       [] m = "noMapSpreadInObject" -> getMapSpreadSuggestions(spread)
                                       [] OTHER -> << >>] : m \in {message} \ {"none"} }

-----------------------------------------------------------------------------
\* What is lost of a value that is spread in an object, or in a list.
LostInObject == {"promise", "function", "Map", "array", "iterable", "instance", "class"}

About(message) ==
  CASE message = "noPromiseSpreadInObject" -> {"promise"}
    [] message = "noFunctionSpreadInObject" -> {"function"}
    [] message = "noMapSpreadInObject" -> {"Map"}
    [] message = "noArraySpreadInObject" -> {"array"}
    [] message = "noIterableSpreadInObject" -> {"iterable"}
    [] message = "noClassInstanceSpreadInObject" -> {"instance"}
    [] message = "noClassDeclarationSpreadInObject" -> {"class"}
    [] OTHER -> {"string"}

\* A spread is reported once iff a value may lose something by it, with a reason that is true of
\* that value; an iterable that may be a string instead is passed over.
LossIsReported(spread, reports) ==
  LET kinds == UNION spread.type
      lost == CASE spread.allowed -> {}
                [] ~ spread.allowed /\ spread.in \in {"array", "call"} -> kinds \cap {"string"}
                [] OTHER -> kinds \cap (IF "string" \in kinds THEN LostInObject \ {"iterable"} ELSE LostInObject)
  IN  /\ lost # {} <=> reports # {}
      /\ \A r, s \in reports : r = s /\ About(r.message) \cap lost # {}

\* What is suggested awaits the whole argument, or makes an object of the entries of what can
\* only be a map, which takes the place of the object if that is all there is in it.
SuggestionFits(spread, reports) ==
  \A r \in reports : r.suggested # << >> =>
    IF r.message = "noPromiseSpreadInObject"
    THEN LET Operator(i) == r.suggested[i] = "??" IN
         /\ Head(r.suggested) = "..."
         /\ \E i \in DOMAIN r.suggested :
              r.suggested[i] = "await" /\ (r.suggested[i + 1] = "(" <=> \E j \in DOMAIN r.suggested : Operator(j))
    ELSE /\ \A part \in spread.type : "Map" \in part
         /\ Last(r.suggested) = ")"
         /\ Head(r.suggested) = (IF spread.in = "object" /\ spread.single THEN "Object.fromEntries(" ELSE "...")
=============================================================================
