------------------------------- MODULE Parser -------------------------------
(***************************************************************************)
(* The symbols of a source file, and the fingerprints that identity        *)
(* resolution compares.  The extractor walks the syntax tree with a stack  *)
(* of the definitions around it; a definition gives a symbol its path, or  *)
(* only a scope to what is in it.  A fingerprint has an exact part, the    *)
(* kinds of the named nodes with their depths in preorder, and a fuzzy     *)
(* one, the windows of three in the stream of the kinds.                   *)
(*                                                                         *)
(* Trees come from tree-sitter: nodes are numbered in preorder, and a node *)
(* has a kind and perhaps a name, which is its number.  A hash stands for  *)
(* what is hashed.                                                         *)
(***************************************************************************)
EXTENDS Naturals, Sequences, SequencesExt, FiniteSets, FiniteSetsExt, Places

CONSTANTS
  Extension,   \* file extensions, in lower case
  MaxNodes,    \* bound on the nodes of a file
  ShingleK,    \* SHINGLE_K
  DepthLimit   \* where the depth stops to grow: 255, that of a byte

ASSUME ParserAssumption ==
  MaxNodes \in Nat /\ ShingleK \in Nat \ {0} /\ DepthLimit \in Nat \ {0}

DetectLanguage(extension) ==
  CASE extension \in {"py", "pyi"} -> "python"
    [] extension \in {"ts", "mts", "cts", "tsx", "js", "mjs", "cjs", "jsx"} -> "ecmascript"
    [] extension = "rs" -> "rust"
    [] OTHER -> "none"

\* Kinds that define a function, a type, a method, a scope only, or what its value is.
Functions == {"function_item", "function_definition", "function_declaration"}
Classes == {"struct_item", "class_definition", "class_declaration"}
Methods == {"method_definition", "field_definition"}
Scopes == {"impl_item", "mod_item"}
Valued == {"variable_declarator", "field_definition"}
Anonymous == {";"}

\* Kinds the trees are made of; struct_item stands for enum, trait and union too.
Grammar ==
  [python |-> {"function_definition", "class_definition", "identifier", ";"},
   ecmascript |-> {"function_declaration", "class_declaration", "method_definition",
                   "variable_declarator", "field_definition", "arrow_function", ";"},
   rust |-> {"function_item", "struct_item", "impl_item", "mod_item", "identifier", ";"},
   none |-> {"line", "another"}]

VARIABLES
  source,   \* the file: [family, kind, parent, nameless], nodes in preorder
  stack,    \* nodes the walk is in, the root first
  visited,  \* nodes entered so far
  scope,    \* frames of the definitions around: [name, isClass]
  symbols   \* [node, kind, path, print, shingles]

parserVars == <<source, stack, visited, scope, symbols>>

Nodes == DOMAIN source.kind
IsNamed(i) == source.kind[i] \notin Anonymous
ChildrenOf(i) == {j \in Nodes : source.parent[j] = i}

\* Nodes below i, and i.  In preorder they follow i without a gap.
Subtree(i) ==
  LET outside == {j \in Nodes : j > i /\ source.parent[j] < i}
  IN  IF outside = {} THEN i..Len(source.kind) ELSE i..Min(outside) - 1

\* A node follows its parent, or the subtree of a sibling.
IsPreorder(parent) ==
  \A i \in DOMAIN parent \ {1} :
    /\ parent[i] < i /\ parent[i] > 0
    /\ \A j \in 2..i - 1 : j > parent[i] => parent[j] >= parent[i]

ParserInit ==
  /\ \E e \in Extension, n \in 1..MaxNodes :
       LET family == DetectLanguage(e)
       IN  \E parent \in {p \in [1..n -> 0..n - 1] : p[1] = 0 /\ IsPreorder(p)} :
           \E kind \in [2..n -> Grammar[family]] :
           \E nameless \in {{}, {n}} :
             source = [family |-> family, parent |-> parent, nameless |-> nameless,
                       kind |-> [i \in 1..n |-> IF i = 1 THEN "file" ELSE kind[i]]]
  /\ stack = <<1>> /\ visited = 1 /\ scope = <<>> /\ symbols = <<>>

\* One of the initial states: a file with nothing in it.
ParserAtRest ==
  /\ source = [family |-> "none", parent |-> <<0>>, nameless |-> {}, kind |-> <<"file">>]
  /\ stack = <<1>> /\ visited = 1 /\ scope = <<>> /\ symbols = <<>>

-----------------------------------------------------------------------------
(***************************************************************************)
(* Fingerprints.                                                           *)
(***************************************************************************)
\* Variant with a fault: every node counts as a level.
LevelAlways(i, depth) == IF depth < DepthLimit THEN depth + 1 ELSE depth

\* dfs_named: the depth of the children of i.
ChildDepth(i, depth) == IF IsNamed(i) /\ depth < DepthLimit THEN depth + 1 ELSE depth

NamedIn(i) == InOrder({j \in Subtree(i) : IsNamed(j)})

Outline(i) ==
  LET depth[j \in Subtree(i)] ==
        IF j = i THEN 0 ELSE ChildDepth(source.parent[j], depth[source.parent[j]])
      named == NamedIn(i)
  IN  [k \in DOMAIN named |-> <<depth[named[k]], source.kind[named[k]]>>]

Shingles(tokens) ==
  IF Len(tokens) < ShingleK THEN {<<t>> : t \in Range(tokens)}
  ELSE {SubSeq(tokens, k, k + ShingleK - 1) : k \in 1..Len(tokens) - ShingleK + 1}

OfNode(i) ==
  LET outline == Outline(i)
  IN  [print |-> outline, shingles |-> Shingles([k \in DOMAIN outline |-> outline[k][2]])]

\* A file of an unknown language: its text, and the set of its lines, which are trimmed.
\* It has no tree, and so no property here speaks of it.
OfText ==
  [print |-> Tail(source.kind), shingles |-> {<<l>> : l \in Range(Tail(source.kind))}]

FileFingerprint == IF source.family = "none" THEN OfText ELSE OfNode(1)

-----------------------------------------------------------------------------
(***************************************************************************)
(* Symbols.                                                                *)
(***************************************************************************)
HasName(i) == i \notin source.nameless

\* The value of a declarator or a field is its last child.
ValueOf(i) == Max(ChildrenOf(i))
IsFunctionValue(i) == ChildrenOf(i) # {} /\ source.kind[ValueOf(i)] = "arrow_function"

IsDefinition(i) ==
  /\ source.kind[i] \in Functions \cup Classes \cup Methods \cup Scopes \cup Valued
  /\ source.kind[i] \in Valued => IsFunctionValue(i)
  /\ HasName(i)

IsClass(i) == source.kind[i] \in Classes \cup {"impl_item"}
IsEmitted(i) == source.kind[i] \notin Scopes

\* A method of ECMAScript is one wherever it is, a function declaration never is.
SymbolKind(i, enclosingClass) ==
  CASE IsClass(i) -> "class"
    [] source.kind[i] \in Methods -> "method"
    [] source.kind[i] = "function_declaration" -> "function"
    [] OTHER -> IF enclosingClass THEN "method" ELSE "function"

\* A symbol that is a value has the fingerprint of the value.
Printed(i) == IF source.kind[i] \in Valued THEN ValueOf(i) ELSE i

EmittedAs(i, frames) ==
  LET of == OfNode(Printed(i))
  IN  [node |-> i, path |-> [k \in DOMAIN frames |-> frames[k].name],
       kind |-> SymbolKind(i, Len(frames) > 1 /\ frames[Len(frames) - 1].isClass),
       print |-> of.print, shingles |-> of.shingles]

Innermost == Last(stack)

\* walk: the next child is classified, and then walked.
WalkChild ==
  LET i == visited + 1
      frames == Append(scope, [name |-> i, isClass |-> IsClass(i)])
  IN  /\ source.family # "none"
      /\ stack # <<>> /\ i \in Nodes /\ source.parent[i] = Innermost
      /\ visited' = i
      /\ stack' = Append(stack, i)
      /\ scope' = IF IsDefinition(i) THEN frames ELSE scope
      /\ symbols' = IF IsDefinition(i) /\ IsEmitted(i) THEN Append(symbols, EmittedAs(i, frames))
                    ELSE symbols
      /\ UNCHANGED source

\* Variant with a fault: what is not a symbol leaves its scope behind.
CloseEmitted(i) == IF IsDefinition(i) /\ IsEmitted(i) THEN Front(scope) ELSE scope

CloseScope(i) == IF IsDefinition(i) THEN Front(scope) ELSE scope

LeaveNode ==
  /\ source.family # "none"
  /\ stack # <<>>
  /\ visited + 1 \in Nodes => source.parent[visited + 1] # Innermost
  /\ stack' = Front(stack)
  /\ scope' = CloseScope(Innermost)
  /\ UNCHANGED <<source, visited, symbols>>

ParserNext == WalkChild \/ LeaveNode

ParserSpec == ParserInit /\ [][ParserNext]_parserVars

-----------------------------------------------------------------------------
\* The named nodes below i as a tree: kinds, and the place of the nearest named
\* node above.
Shape(i) ==
  LET above[j \in Subtree(i)] ==
        IF j = i THEN 0
        ELSE IF IsNamed(source.parent[j]) THEN source.parent[j] ELSE above[source.parent[j]]
      named == NamedIn(i)
  IN  [k \in DOMAIN named |->
         <<Cardinality({j \in Range(named) : j <= above[named[k]]}), source.kind[named[k]]>>]

\* The tree that a print is of: the node above is the last one of a lesser depth.
Rebuilt(print) ==
  [k \in DOMAIN print |->
     <<Max({0} \cup {j \in 1..k - 1 : print[j][1] < print[k][1]}), print[k][2]>>]

IsDeep(print) == \E k \in DOMAIN print : print[k][1] = DepthLimit

TellsShape(f, i) == (~IsDeep(f.print) => Rebuilt(f.print) = Shape(i)) /\ f.shingles # {}

\* "An exact structural hash (sensitive to the full tree shape)", which ignores what is
\* anonymous: from a fingerprint the tree of the named nodes can be told, so that equal
\* fingerprints are those of equal trees and of no others, as long as the depth fits
\* its byte.  And the fuzzy part is never empty, as two empty ones would be taken for
\* equal (jaccard).
PrintTellsShape ==
  (stack = <<>>) => /\ TellsShape(FileFingerprint, 1)
                    /\ \A s \in Range(symbols) : TellsShape(s, Printed(s.node))

Around(i) == {j \in Nodes : i \in Subtree(j) /\ IsDefinition(j)}

\* "Each symbol gets a deterministic, hierarchical qualified_path": the path of a
\* symbol names the definitions around it, outermost first, whatever was walked before
\* it; the kind is that of a method directly in a type; and when the walk is over every
\* definition that is more than a scope has given one symbol, in the order of the text.
PathsNameTheirScopes ==
  /\ \A s \in Range(symbols) :
       LET outer == Around(s.node) \ {s.node}
       IN  /\ s.path = InOrder(Around(s.node))
           /\ (source.family # "ecmascript" /\ s.kind # "class") =>
                (s.kind = "method" <=> (outer # {} /\ IsClass(Max(outer))))
  /\ (source.family # "none" /\ stack = <<>>) =>
       [k \in DOMAIN symbols |-> symbols[k].node] =
         InOrder({i \in Nodes : IsDefinition(i) /\ IsEmitted(i)})
=============================================================================
