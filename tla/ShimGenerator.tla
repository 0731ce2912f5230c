--------------------------- MODULE ShimGenerator ---------------------------
(***************************************************************************)
(* tools/gen_shims: for a package, the file that makes its functions,      *)
(* methods and fields accessible, from the objects in its scope and from   *)
(* what extra-shim.json requests.                                          *)
(*                                                                         *)
(* An object is [name, exported, kind, struct, mentions, methods, fields]; *)
(* mentions are the packages in its signature, "self" is its own; struct   *)
(* tells of a type that it is one.  A field is [name, inlined, size]:      *)
(* inlined tells that it points to a struct that is not exported, of that  *)
(* size; the other fields have the size one.  A request is [functions,     *)
(* methods, fields, ignored], with the requested fields of each struct.    *)
(***************************************************************************)
EXTENDS Integers, Sequences, FiniteSets, SequencesExt

\* What is written: the packages its text names, and those imported for it.
Text(kind, of, names, blank) == [kind |-> kind, of |-> of, names |-> names, blank |-> blank]

\* emitGoLinknameDirective and the declaration after it
Linked(of, names) == <<Text("linkname", of, names, {"unsafe", "self"})>>

\* emitLinkedFunction: no generic function can be linked to
emitLinkedFunction(object) ==
  IF object.kind = "generic" THEN << >> ELSE Linked(<<object.name>>, object.mentions)

Reexported(object) == <<Text("reexport", <<object.name>>, {"self"}, {})>>

\* (The declaration of a method names the type of its receiver.)
Methods(object, requests) ==
  FlattenSeq([i \in DOMAIN object.methods |->
    IF <<object.name, object.methods[i]>> \in requests.methods
    THEN Linked(<<object.name, object.methods[i]>>, object.mentions \cup {"self"}) ELSE << >>])

FieldNames(object) == { object.fields[i].name : i \in DOMAIN object.fields }

\* The mirror of a struct, and an accessor for each requested field.
Fields(object, requests) ==
  IF object.name \notin DOMAIN requests.fields THEN << >>
  ELSE <<Text("mirror", <<object.name>>, {"unsafe"} \cup object.mentions, {})>>
         \o SetToSeq({ Text("accessor", <<object.name, f>>, object.mentions, {}) : f \in requests.fields[object.name] })

\* Fields are requested of what is no struct, or fields that a struct does not have.
IsFatal(object, requests) ==
  /\ object.exported /\ object.kind = "type" /\ object.name \in DOMAIN requests.fields
  /\ ~ object.struct \/ ~ requests.fields[object.name] \subseteq FieldNames(object)

\* The body of the loop over the scope.
Emit(object, requests) ==
  CASE ~ object.exported ->
         IF object.kind \in {"function", "generic"} /\ object.name \in requests.functions
         THEN emitLinkedFunction(object) ELSE << >>
    [] object.exported /\ object.kind = "type" ->
         Reexported(object) \o Methods(object, requests) \o Fields(object, requests)
    [] object.exported /\ object.kind \in {"alias", "const", "var"} -> Reexported(object)
    [] object.exported /\ object.kind \in {"function", "generic"} ->
         IF object.name \in requests.ignored THEN << >> ELSE emitLinkedFunction(object)

Emitted(scope, requests) == FlattenSeq([i \in DOMAIN scope |-> Emit(scope[i], requests)])

\* Mutant: the last import of a package decides.
ImportLast(imports, text) ==
  [p \in DOMAIN imports \cup text.names \cup text.blank |->
     p \in text.names \/ (p \notin text.blank /\ imports[p])]

\* importPackage: TRUE for a package that is used directly, once and for all
Import(imports, text) ==
  [p \in DOMAIN imports \cup text.names \cup text.blank |->
     p \in text.names \/ (p \in DOMAIN imports /\ imports[p])]

Imports(texts) == FoldLeft(Import, [p \in {} |-> FALSE], texts)

\* Requests that were not matched.  A function that is exported matches none, and a struct
\* that is not found is no error.
Unmatched(scope, requests) ==
  LET matched(object) ==
        IF object.exported THEN { text.of : text \in ToSet(IF object.kind = "type" THEN Methods(object, requests) ELSE << >>) }
        ELSE { text.of : text \in ToSet(Emit(object, requests)) }
  IN  ({ <<f>> : f \in requests.functions } \cup requests.methods) \ UNION { matched(object) : object \in ToSet(scope) }

\* Where a field is in its struct, and in the mirror of it, which holds the structs that
\* are not exported themselves instead of pointers to them (emitExtraStruct).
Offset(fields, i) == i - 1
MirrorOffset(fields, i) ==
  FoldLeftDomain(LAMBDA sum, k : IF k >= i THEN sum ELSE sum + (IF fields[k].inlined THEN fields[k].size ELSE 1),
                 0, fields)

\* The packages are done in turn, up to the first that ends the run.  A package has a file
\* extra-shim.json that is a "request", or "malformed"; shim.go can be created or not.
Run(packages) ==
  LET Ends(package) ==
        CASE package.json = "malformed" -> "return"
          [] \E object \in ToSet(package.scope) : IsFatal(object, package.requests) -> "fatal"
          [] Unmatched(package.scope, package.requests) # {} -> "exit"
          [] OTHER -> IF package.creatable THEN "written" ELSE "fatal"
      written == { i \in DOMAIN packages : \A j \in 1 .. i : Ends(packages[j]) = "written" }
      left == { i \in DOMAIN packages : i \notin written }
  IN  [written |-> { [package |-> i, texts |-> Emitted(packages[i].scope, packages[i].requests)] : i \in written },
       exit |-> IF \A i \in left : (\A j \in left : i <= j) => Ends(packages[i]) = "return" THEN 0 ELSE 1]
-----------------------------------------------------------------------------
\* What a package has of what is requested: an object of that name and kind, with the
\* method or the field.  (Fields may be requested of a struct that does not exist.)
Has(package, name, exported, kind) ==
  \E i \in DOMAIN package.scope :
    LET object == package.scope[i] IN object.name = name /\ object.exported = exported /\ object.kind = kind

CanBeMet(package) ==
  LET object(name) == CHOOSE o \in ToSet(package.scope) : o.name = name
      requests == package.requests
  IN  /\ \A f \in requests.functions : Has(package, f, FALSE, "function")
      /\ \A m \in requests.methods : Has(package, m[1], TRUE, "type") /\ Contains(object(m[1]).methods, m[2])
      /\ \A s \in DOMAIN requests.fields : Has(package, s, TRUE, "type") =>
           object(s).struct /\ \A f \in requests.fields[s] : f \in FieldNames(object(s))

\* Files are written for the packages before the first that cannot be done, each with all
\* that was requested, but without a word of what is requested of a struct that does not
\* exist.  A run without error has written them all, unless it met a malformed request.
RequestsAreMet(packages, run) ==
  LET Done(i) == packages[i].json = "request" /\ CanBeMet(packages[i]) /\ packages[i].creatable
      done == { w.package : w \in run.written }
  IN  /\ done = { i \in DOMAIN packages : \A j \in 1 .. i : Done(j) }
      /\ \A w \in run.written :
           LET package == packages[w.package]
               Written(kind, of) == \E i \in DOMAIN w.texts : w.texts[i].kind = kind /\ w.texts[i].of = of
           IN  /\ \A f \in package.requests.functions : Written("linkname", <<f>>)
               /\ \A m \in package.requests.methods : Written("linkname", m)
               /\ \A s \in DOMAIN package.requests.fields : \A f \in package.requests.fields[s] :
                    Written("accessor", <<s, f>>) <=> Has(package, s, TRUE, "type")
      /\ run.exit = 0 <=>
           \A i \in DOMAIN packages : (i \notin done /\ i - 1 \in done \cup {0}) => packages[i].json = "malformed"

\* An accessor reads the field that it is named for iff no struct larger than a pointer is
\* inlined before it.
AccessorsReadTheirField(fields) ==
  \A f \in DOMAIN fields :
    MirrorOffset(fields, f) = Offset(fields, f) <=> \A j \in 1 .. f - 1 : fields[j].inlined => fields[j].size = 1

\* No directive links to a generic function, Go accepts the imports (one by name iff the
\* text names the package, and unsafe where there is a directive), and accessors work, but
\* for those behind a struct that is inlined in the mirror.
ShimWorks(packages, run) ==
  \A w \in run.written :
    LET scope == packages[w.package].scope
        imports == Imports(w.texts)
    IN  /\ \A i \in DOMAIN w.texts : w.texts[i].kind = "linkname" =>
             /\ "unsafe" \in DOMAIN imports
             /\ ~ \E k \in DOMAIN scope : scope[k].kind = "generic" /\ <<scope[k].name>> = w.texts[i].of
        /\ \A p \in DOMAIN imports : imports[p] <=> \E i \in DOMAIN w.texts : p \in w.texts[i].names
        /\ \A k \in DOMAIN scope : AccessorsReadTheirField(scope[k].fields)
=============================================================================
