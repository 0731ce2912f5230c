---------------------------- MODULE UnboundMethod ----------------------------
(***************************************************************************)
(* The rule unbound-method: methods that are taken from their object, by   *)
(* an access or by destructuring.                                          *)
(*                                                                         *)
(* An access has the way up from it: at each step, the part of the parent  *)
(* that it is in.  What is accessed is a symbol [kind, this, static]: how  *)
(* it is declared, the annotation of its first parameter if that is this   *)
(* ("unannotated", "void", "type"; "none" if it is not), and whether it is *)
(* static.                                                                 *)
(***************************************************************************)
EXTENDS Integers, Sequences, FiniteSets, Functions

\* The steps at which isSafeUse looks further up, and those that it takes for safe.
Continues == {"paren", "cast", "right of &&", "side of ||"}
Safe == {"test", "object", "key", "++", "!", "callee", "tag", "delete typeof void", "left of &&", "comparison",
         "left of assignment", "super to this"}

\* Mutant: both sides of && are taken for safe.
SafeOnBothSides(way) ==
  \E i \in DOMAIN way : way[i] \in Safe \cup {"right of &&"} /\ \A j \in 1 .. i - 1 : way[j] \in Continues

isSafeUse(way) ==
  \E i \in DOMAIN way : way[i] \in Safe /\ \A j \in 1 .. i - 1 : way[j] \in Continues

isNodeInsideTypeDeclaration(around) ==
  around \cap {"declare class", "abstract method", "function without body", "function type", "interface",
               "type alias", "declare variable"} # {}

Message(ofThis) == IF ofThis THEN "unbound" ELSE "unboundWithoutThisAnnotation"

\* checkMethod, checkIfMethod and checkIfMethodAndReport
checkIfMethodAndReport(symbol, ignoreStatic) ==
  CASE symbol.kind = "property of function" -> <<Message(TRUE)>>
    [] symbol.kind \in {"method", "assigned function"} /\ symbol.this = "unannotated" -> <<"panic">>
    [] symbol.kind \in {"method", "assigned function"} /\ symbol.this # "unannotated" ->
         IF symbol.this # "void" /\ ~ (ignoreStatic /\ symbol.static /\ symbol.kind = "method")
         THEN <<Message(symbol.this = "type")>> ELSE << >>
    [] OTHER -> << >>

\* isNativelyBound: by the names of an object that is declared elsewhere, or by the types
isNativelyBound(source) == (source.named /\ source.elsewhere) \/ source.builtin

\* The listener of accesses.
AccessReports(access, ignoreStatic) ==
  IF isSafeUse(access.way) \/ isNativelyBound(access.source) THEN << >>
  ELSE checkIfMethodAndReport(access.symbol, ignoreStatic)

\* TypeRecurser stops at the first part for which something is reported.
FirstReported(symbols, ignoreStatic) ==
  LET Of(i) == checkIfMethodAndReport(symbols[i], ignoreStatic)
      all == { i \in DOMAIN symbols : Of(i) # << >> }
  IN  IF all = {} THEN << >> ELSE Of(CHOOSE i \in all : \A j \in all : i <= j)

\* checkBindingProperty: the value that is destructured and the parts of the type of the
\* pattern have symbols of the name; a default value does not decide alone.
checkBindingProperty(binding, ignoreStatic) ==
  LET native == isNativelyBound(binding.init.source)
      ofInit == IF binding.init.present /\ ~ native THEN checkIfMethodAndReport(binding.init.symbol, ignoreStatic)
                ELSE << >>
  IN  CASE ofInit # << >> -> ofInit
        [] ofInit = << >> /\ binding.init.present /\ native /\ ~ binding.isDefault -> << >>
        [] OTHER -> FirstReported(binding.pattern, ignoreStatic)

\* The listeners of patterns; only a declaration may be in one of a type.
BindingReports(binding, ignoreStatic) ==
  IF isNodeInsideTypeDeclaration(binding.around) \/ binding.rest THEN << >>
  ELSE checkBindingProperty(binding, ignoreStatic)

-----------------------------------------------------------------------------
\* A method that uses its object, as far as can be seen.
NeedsObject(symbol, ignoreStatic) ==
  \/ symbol.kind = "property of function"
  \/ symbol.kind \in {"method", "assigned function"} /\ symbol.this # "void"
       /\ ~ (ignoreStatic /\ symbol.static /\ symbol.kind = "method")

\* Where the value gets, going up: to an operand that looks at it and no more, to a call, or
\* to a place that keeps it.
Passes == {"paren", "cast", "right of &&", "side of ||", "side of ??", "branch of ?:", "right of comma"}

EndOf(way) ==
  LET i == CHOOSE k \in DOMAIN way : way[k] \notin Passes /\ \A j \in 1 .. k - 1 : way[j] \in Passes
  IN  IF way[i] \in {"callee", "tag"} /\ \E j \in 1 .. i - 1 : way[j] \notin {"paren", "cast"}
      THEN "callee without object" ELSE way[i]

Keeps == {"argument", "right of assignment", "initializer", "return", "callee without object"}

\* A method that needs its object is reported iff its value is kept: no value of a && or || is
\* passed over that is, and no use is reported that does not keep it, with these exceptions,
\* all of them.  Not reported is the call of the value of a && or a ||, (a.b || c)(), which
\* loses the object too: "make sure the parent is a safe usage", says the comment at the &&.
\* Reported, though only looked at, is the value of a ?? (if (a.b ?? c) is, if (a.b || c) is
\* not), of a conditional or of a comma, of a statement, and the test of a do loop.  (The
\* linter panics for a parameter this without a type.)
EscapingMethodIsReported(access, ignoreStatic, reports) ==
  access.symbol.this # "unannotated" =>
  LET needs == NeedsObject(access.symbol, ignoreStatic) /\ ~ isNativelyBound(access.source)
      end == EndOf(access.way)
      through == Range(access.way) \cap {"side of ??", "branch of ?:", "right of comma"} # {}
  IN  reports # {} <=>
        needs /\ IF end \in Keeps THEN end = "callee without object" => through
                 ELSE through \/ end \in {"statement", "do test"}

\* A destructured method is reported once, iff the value that is taken apart may be one that
\* needs its object.
BindingIsReportedOnce(binding, ignoreStatic, reports) ==
  LET certain == binding.init.present /\ isNativelyBound(binding.init.source) /\ ~ binding.isDefault
      needs == \/ /\ binding.init.present /\ ~ isNativelyBound(binding.init.source)
                  /\ NeedsObject(binding.init.symbol, ignoreStatic)
               \/ ~ certain /\ \E i \in DOMAIN binding.pattern : NeedsObject(binding.pattern[i], ignoreStatic)
  IN  Cardinality(reports) =
        IF needs /\ ~ isNodeInsideTypeDeclaration(binding.around) /\ ~ binding.rest THEN 1 ELSE 0
=============================================================================
