--------------------------- MODULE CatchCallbacks ---------------------------
(***************************************************************************)
(* The rule use-unknown-in-catch-callback-variable.                        *)
(*                                                                         *)
(* A call is [method, thenable, arguments].  An argument is an expression  *)
(* [kind, parts, parameter]; of a "handler", a function, parameter is the  *)
(* first one, which is [binding, this, rest, optional, annotation,         *)
(* parenless]: this is the annotation of a parameter this before it ("no"  *)
(* if there is none), and binding is "none" if there is no parameter.      *)
(***************************************************************************)
EXTENDS Integers, Sequences, SequencesExt

\* The declared type of the first element that the parameter gets; without annotation it has
\* the type that catch gives it.  (The parameter this is not one of the signature's.)
FirstParameterType(parameter) ==
  CASE parameter.annotation = "none" -> "any"
    [] parameter.rest /\ parameter.annotation \in {"[unknown]", "unknown[]"} -> "unknown"
    [] OTHER -> parameter.annotation

isFlaggableHandlerType(parameter) == parameter.binding # "none" /\ FirstParameterType(parameter) # "unknown"

\* The places, in the expression, of the handlers that are reported.
RECURSIVE collectFlaggedNodes(_)
collectFlaggedNodes(expression) ==
  LET Of(parts) == UNION { { <<i>> \o place : place \in collectFlaggedNodes(expression.parts[i]) } : i \in parts }
  IN  CASE expression.kind \in {"paren", "&&", "||"} -> Of(DOMAIN expression.parts)
        [] expression.kind = "comma" -> Of({2})
        [] expression.kind = "conditional" -> Of({2, 3})
        [] expression.kind = "handler" -> IF isFlaggableHandlerType(expression.parameter) THEN {<< >>} ELSE {}
        [] OTHER -> {}

\* The parameter node that comes first, and its text.
FirstNode(parameter) ==
  IF parameter.this = "no" THEN parameter
  ELSE [parameter EXCEPT !.binding = "this", !.rest = FALSE, !.optional = FALSE, !.annotation = parameter.this]

When(condition, tokens) == IF condition THEN tokens ELSE << >>

Text(p) ==
  When(p.rest, <<"...">>) \o <<p.binding>> \o When(p.optional, <<"?">>)
    \o When(p.annotation # "none", <<":", p.annotation>>)

\* Mutant: the type stands after the name in any case.
SuggestedAfterName(p) ==
  LET type == IF p.rest THEN "[unknown]" ELSE "unknown"
      at == IF p.rest THEN 2 ELSE 1
  IN  CASE p.binding \in {"[a]", "{a}"} /\ ~ p.rest -> << >>
        [] OTHER -> IF p.annotation # "none" THEN ReplaceAt(Text(p), Len(Text(p)), type)
                    ELSE When(p.parenless, <<"(">>) \o SubSeq(Text(p), 1, at) \o <<":", type>>
                           \o SubSeq(Text(p), at + 1, Len(Text(p))) \o When(p.parenless, <<")">>)

\* The text that is suggested for the first parameter, as far as one is: its annotation is
\* replaced, or comes after the name and the question mark; parentheses are put around a
\* parameter that has none.
Suggested(p) ==
  LET type == IF p.rest THEN "[unknown]" ELSE "unknown" IN
  CASE p.binding \in {"[a]", "{a}"} /\ ~ p.rest -> << >>
    [] OTHER -> IF p.annotation # "none" THEN ReplaceAt(Text(p), Len(Text(p)), type)
                ELSE When(p.parenless, <<"(">>) \o Text(p) \o <<":", type>> \o When(p.parenless, <<")">>)

RECURSIVE PartAt(_, _)
PartAt(expression, place) ==
  IF place = << >> THEN expression ELSE PartAt(expression.parts[Head(place)], Tail(place))

IndexToCheck(method) == IF method = "catch" THEN 1 ELSE 2

\* The listener of calls.
Reports(call) ==
  LET index == IndexToCheck(call.method)
      ordinary == \A i \in 1 .. index : call.arguments[i].kind # "spread"
  IN  IF call.method \notin {"catch", "then"} \/ Len(call.arguments) < index \/ ~ call.thenable THEN {}
      ELSE IF ~ ordinary THEN {}
      ELSE { [place |-> place, suggested |-> Suggested(FirstNode(PartAt(call.arguments[index], place).parameter))] :
               place \in collectFlaggedNodes(call.arguments[index]) }

-----------------------------------------------------------------------------
\* The places of the handlers that the expression may have for its value; <<0>> ends the place
\* of anything else, which may be falsy.
RECURSIVE ValuesOf(_)
ValuesOf(e) ==
  LET Of(i) == { <<i>> \o place : place \in ValuesOf(e.parts[i]) }
      Others(places) == { place \in places : Last(place) = 0 }
  IN  CASE e.kind = "handler" -> {<< >>}
        [] e.kind = "paren" -> Of(1)
        [] e.kind = "comma" -> Of(2)
        [] e.kind = "conditional" -> Of(2) \cup Of(3)
        [] e.kind = "&&" -> Others(Of(1)) \cup Of(2)
        [] e.kind = "||" -> Of(1) \cup (IF Others(Of(1)) # {} THEN Of(2) ELSE {})
        [] OTHER -> {<<0>>}

\* A handler that a promise may be given for its rejections is reported iff its parameter is
\* declared as something else than unknown; what is reported is at most on the side of a
\* logical operator that is never the handler.
HandlersAreFlagged(call, reports) ==
  LET index == IndexToCheck(call.method)
      given == /\ call.thenable /\ call.method \in {"catch", "then"} /\ index <= Len(call.arguments)
               /\ \A i \in DOMAIN call.arguments : i <= index => call.arguments[i].kind # "spread"
      handlers == { place \in ValuesOf(call.arguments[index]) : place = << >> \/ Last(place) # 0 }
      Untyped(place) == LET p == PartAt(call.arguments[index], place).parameter IN
                        p.binding # "none" /\ FirstParameterType(p) # "unknown"
      places == { r.place : r \in reports }
  IN  /\ ~ given => places = {}
      /\ given => /\ { place \in handlers : Untyped(place) } \subseteq places
                  /\ \A place \in places :
                       /\ Untyped(place)
                       /\ place \in handlers \/ \E i \in 0 .. Len(place) - 1 :
                            PartAt(call.arguments[index], SubSeq(place, 1, i)).kind \in {"&&", "||"}

\* With the text that is suggested the parameter is declared as unknown, or as a list of it, so
\* that it is not reported again, unless a parameter this comes first.
SuggestionIsUnknown(call, reports) ==
  \A r \in reports :
    LET p == PartAt(call.arguments[IndexToCheck(call.method)], r.place).parameter
        declared == [p EXCEPT !.annotation = IF p.rest THEN "[unknown]" ELSE "unknown"]
    IN  (r.suggested # << >> /\ p.this = "no") =>
          /\ r.suggested = (IF p.parenless THEN <<"(">> \o Text(declared) \o <<")">> ELSE Text(declared))
          /\ ~ isFlaggableHandlerType(declared)
=============================================================================
