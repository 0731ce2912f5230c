-------------------------- MODULE PromiseFunctions --------------------------
(***************************************************************************)
(* The rule promise-function-async.                                        *)
(*                                                                         *)
(* A type is [kind, parts]: "any", "Promise" (or another name that is      *)
(* allowed) and "other" have no parts, a "union" and an "intersection"     *)
(* have, and those of a "class" are its bases.                             *)
(*                                                                         *)
(* A function is [form, modifiers, body, annotated, signatures]: modifiers *)
(* in the order of the text, for each signature the type it returns.       *)
(***************************************************************************)
EXTENDS Sequences

Parts(t) == { t.parts[i] : i \in DOMAIN t.parts }

\* matchAnyInstead means what its name says for the bases of a class only.
RECURSIVE containsAllTypesByName(_, _)
containsAllTypesByName(t, matchAnyInstead) ==
  LET Of(part) == containsAllTypesByName(part, matchAnyInstead) IN
  CASE t.kind = "Promise" -> TRUE
    [] t.kind \in {"union", "intersection"} ->
         IF matchAnyInstead THEN \A part \in Parts(t) : Of(part) ELSE \E part \in Parts(t) : Of(part)
    [] t.kind = "class" ->
         IF matchAnyInstead THEN \E part \in Parts(t) : Of(part)
         ELSE t.parts # << >> /\ \A part \in Parts(t) : Of(part)
    [] OTHER -> FALSE

Has(function, modifier) == \E i \in DOMAIN function.modifiers : function.modifiers[i] = modifier

\* The fix: "async" before the name of a method, or before the function, which begins with
\* its modifiers.
Fixed(function) ==
  IF function.form = "method" THEN function.modifiers \o <<"async">> ELSE <<"async">> \o function.modifiers

\* validateNode: there is no fix (the text << >>) for an any that is not allowed.
validateNode(function, allowAny) ==
  LET anySignature == \E i \in DOMAIN function.signatures : function.signatures[i].kind = "any" IN
  CASE Has(function, "async") \/ ~ function.body \/ function.signatures = << >> -> {}
    [] OTHER ->
         IF ~ allowAny /\ anySignature THEN {<< >>}
         ELSE IF \A i \in DOMAIN function.signatures :
                   containsAllTypesByName(function.signatures[i], function.annotated)
         THEN {Fixed(function)} ELSE {}

\* The listeners, one for each form that is to be checked.
Reports(function, options) ==
  IF function.form \notin options.check \/ (function.form = "method" /\ Has(function, "abstract")) THEN {}
  ELSE validateNode(function, options.allowAny)

-----------------------------------------------------------------------------
\* A value of the type is a promise, in any case or if it is of some part of it.
RECURSIVE IsPromise(_)
IsPromise(t) ==
  \/ t.kind = "Promise"
  \/ t.kind = "union" /\ \A part \in Parts(t) : IsPromise(part)
  \/ t.kind \in {"intersection", "class"} /\ \E part \in Parts(t) : IsPromise(part)

RECURSIVE MayBePromise(_)
MayBePromise(t) ==
  \/ t.kind = "Promise"
  \/ t.kind \in {"union", "intersection", "class"} /\ \E part \in Parts(t) : MayBePromise(part)

RECURSIVE HasKind(_, _)
HasKind(t, kind) == t.kind = kind \/ \E part \in Parts(t) : HasKind(part, kind)

\* A function that is made async has only promises for results if its annotation says so, and
\* some if it has none.  One whose annotation names only promises is not passed over, except
\* for intersections, nor one whose any is not allowed.
OnlyPromisesBecomeAsync(function, options, reports) ==
  LET results == { function.signatures[i] : i \in DOMAIN function.signatures }
      sync == function.form \in options.check /\ function.body /\ ~ Has(function, "async") /\ results # {}
      unknown == ~ options.allowAny /\ \E t \in results : t.kind = "any"
      simple == \A t \in results : ~ HasKind(t, "intersection")
  IN  /\ reports # {} => sync
      /\ (reports # {} /\ ~ unknown) =>
           \A t \in results : IF function.annotated THEN IsPromise(t) ELSE MayBePromise(t)
      /\ (sync /\ unknown) => reports = {<< >>}
      /\ (sync /\ function.annotated /\ simple /\ \A t \in results : IsPromise(t)) => reports # {}

\* After the fix the function is async: the modifiers are in an order that the language has.
FixMakesAsync(function, reports) ==
  reports \subseteq {<< >>} \/ reports = {function.modifiers \o <<"async">>}
=============================================================================
