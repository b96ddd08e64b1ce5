---------------------------- MODULE MCBudgetMatch ----------------------------
(* BudgetMatch for a line of six codes, a branch of two, and some trees of  *)
(* two layers.                                                              *)
EXTENDS BudgetMatch

\* c1 is above c2, and so on to c6; d1 is above d2, and c1 above d1.
Hierarchy == [c \in Codes |->
    CASE c = "c2" -> "c1" [] c = "c3" -> "c2" [] c = "c4" -> "c3" [] c = "c5" -> "c4"
      [] c = "c6" -> "c5" [] c = "d1" -> "c1" [] c = "d2" -> "d1" [] OTHER -> NoCode]

Node(code, dim, type, kids) == [code |-> code, dim |-> dim, type |-> type, kids |-> kids]
Layers(dim, type) ==
    {{Node(c, dim, type, {}) : c \in cs} : cs \in {{"c1"}, {"c5", "c1"}, {"d1", "c2"}, {"d2"}}}

\* One layer, and two layers of different fields and types.
UniformTrees ==
    {{}} \cup UNION {Layers("project", t) : t \in {"PROJECT", "DEPART", "FEE_TYPE", "STAFF"}}
    \cup {{Node("c1", "project", "PROJECT", l), Node("c4", "project", "PROJECT", m)} :
            l, m \in Layers("other", "DEPART") \cup Layers("other", "STAFF")}
    \cup {{Node("d1", "other", "STAFF", l)} : l \in Layers("project", "FEE_TYPE")}

\* Nodes about two fields in one layer, as the contents of one node may be.
MixedTrees ==
    {{Node("c1", "project", "PROJECT", {}), Node("d2", "other", "DEPART", {})},
     {Node("c2", "project", "PROJECT", {}), Node("d2", "other", "STAFF", {})},
     {Node("c1", "project", "PROJECT",
           {Node("c2", "project", "FEE_TYPE", {}), Node("d1", "other", "STAFF", {})})}}

AllTrees == UniformTrees \cup MixedTrees

TwoLayers ==
    LET first == {<<n>> : n \in UNION AllTrees}
    IN  first \cup UNION {{Append(b, n) : n \in b[1].kids} : b \in first}
=============================================================================
