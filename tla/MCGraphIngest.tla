--------------------------- MODULE MCGraphIngest ---------------------------
(***************************************************************************)
(* Two files, two symbol names and three contents.  One content is the     *)
(* other with its symbol renamed, so both share the structural fingerprint *)
(* of the file and of the symbol; the third holds two symbols of one shape *)
(* in a file similar to the others.                                        *)
(***************************************************************************)
EXTENDS GraphIngest, TLC

MCFilePrint ==
  ("one" :> {1, 2, 3}) @@ ("renamed" :> {1, 2, 3}) @@ ("both" :> {1, 2, 3, 4, 5})

MCSymbols ==
     ("one"     :> {[name |-> 1, fp |-> {1, 2}]})
  @@ ("renamed" :> {[name |-> 2, fp |-> {1, 2}]})
  @@ ("both"    :> {[name |-> 1, fp |-> {1, 2}], [name |-> 2, fp |-> {1, 2}]})
=============================================================================
