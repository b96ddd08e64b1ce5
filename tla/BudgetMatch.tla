---------------------------- MODULE BudgetMatch ----------------------------
(***************************************************************************)
(* The step match_info_to_budget of the rules engine                       *)
(* (src/src/rules/engine.go, matchToBudget) with the search for ancestors  *)
(* (src/src/ekb/client.go, Find...AncestorInTree): a record's fields are   *)
(* matched with the budget's tree, layer after layer.                      *)
(*                                                                         *)
(* A tree is its set of nodes of the first layer; a node is a record with  *)
(* its dimension code, the field of the form it is about, its type, and    *)
(* the set of its children.                                                *)
(***************************************************************************)
EXTENDS Integers, SequencesExt

CONSTANTS
    Codes,      \* dimension codes, the values of the fields
    Dims,       \* dimension ids, the names of the fields
    NoCode,     \* an empty field; the parent of a code that has none
    Parent,     \* the hierarchy of the codes at EKB
    MaxLevels,  \* how far FindAncestorInTree looks, 5 in the code
    Trees,      \* the trees that a sync may have built
    Branches,   \* the sequences of nodes that go down in them
    NoTree      \* the budget has not been synced

BudgetNodes == UNION {ToSet(b) : b \in Branches}

\* Node.Children and Tree.Root: maps from codes, so that no code occurs twice.
IsLayer(layer) ==
    /\ \A n \in layer : n.code \in Codes /\ n.dim \in Dims
    /\ \A m, n \in layer : m.code = n.code => m = n

ASSUME MatchAssumption ==
    /\ NoCode \notin Codes
    /\ Parent \in [Codes -> Codes \cup {NoCode}]
    /\ MaxLevels \in Nat \ {0}
    /\ Branches \subseteq Seq(BudgetNodes) \ {<<>>}
    /\ \A t \in Trees : IsLayer(t) /\ \A n \in t : <<n>> \in Branches
    /\ \A b \in Branches :
        LET kids == b[Len(b)].kids
        IN  IsLayer(kids) /\ \A n \in kids : Append(b, n) \in Branches

VARIABLES
    tree,      \* tree.Root
    fields,    \* unit.Fields
    current,   \* currentNodes
    path,      \* the nodes matched so far
    answer,    \* "none", "match", or why not
    failed     \* history: a lookup of a dimension has failed

matchVars == <<tree, fields, current, path, answer, failed>>

MatchTypeOK ==
    /\ tree \in Trees \cup {NoTree}
    /\ fields \in [Dims -> Codes \cup {NoCode}]
    /\ current \subseteq BudgetNodes
    /\ path \in Seq(BudgetNodes)
    /\ answer \in {"none", "match", "not_synced", "empty_budget", "field_missing", "not_in_budget"}
    /\ failed \in BOOLEAN

MatchInit ==
    /\ tree \in Trees \cup {NoTree}
    /\ fields \in [Dims -> Codes \cup {NoCode}]
    /\ current = IF tree = NoTree THEN {} ELSE tree
    /\ path = <<>>
    /\ answer = IF tree = NoTree THEN "not_synced"
                ELSE IF tree = {} THEN "empty_budget" ELSE "none"
    /\ failed = FALSE

\* The search's current after k rounds, NoCode once there is no parent.
Ancestor[k \in Nat] ==
    [c \in Codes \cup {NoCode} |->
        IF k = 0 THEN c
        ELSE LET below == Ancestor[k - 1][c]
             IN  IF below = NoCode THEN NoCode ELSE Parent[below]]

\* Find...AncestorInTree: the nearest that is in the layer.
NearestInTree(code, set) ==
    LET rounds == {k \in 0 .. MaxLevels - 1 : Ancestor[k][code] \in set}
    IN  IF rounds = {} THEN NoCode ELSE Ancestor[Min(rounds)][code]

LayerCodes == {n.code : n \in current}
HasAncestors(n) == n.type \in {"PROJECT", "DEPART", "FEE_TYPE"}

\* Mutant of Found: departments are matched exactly.
FoundExactly(n) ==
    IF n.type = "PROJECT" THEN NearestInTree(fields[n.dim], LayerCodes)
    ELSE IF fields[n.dim] \in LayerCodes THEN fields[n.dim] ELSE NoCode

\* The code of the node that the field of n leads to.
Found(n) ==
    IF HasAncestors(n) THEN NearestInTree(fields[n.dim], LayerCodes)
    ELSE IF fields[n.dim] \in LayerCodes THEN fields[n.dim] ELSE NoCode

\* Any node of the layer may come first in the iteration over the map. It says
\* which field is looked at, and how.
MatchLayer ==
    /\ answer = "none"
    /\ \E first \in current :
        /\ fields[first.dim] # NoCode
        /\ \E n \in current :
            /\ n.code = Found(first)
            /\ path' = Append(path, n)
            /\ current' = n.kids
            /\ answer' = IF n.kids = {} THEN "match" ELSE "none"
    /\ UNCHANGED <<tree, fields, failed>>

FieldMissing ==
    /\ answer = "none"
    /\ \E first \in current : fields[first.dim] = NoCode
    /\ answer' = "field_missing"
    /\ UNCHANGED <<tree, fields, current, path, failed>>

\* No ancestor of the field's value is a node of the layer.
NotInBudget ==
    /\ answer = "none"
    /\ \E first \in current : fields[first.dim] # NoCode /\ Found(first) = NoCode
    /\ answer' = "not_in_budget"
    /\ UNCHANGED <<tree, fields, current, path, failed>>

\* Mutant of LookupFails: without an answer the record passes.
LookupFailsOpen ==
    /\ answer = "none"
    /\ \E first \in current :
        /\ HasAncestors(first)
        /\ fields[first.dim] \notin LayerCodes \cup {NoCode}
    /\ answer' = "match"
    /\ failed' = TRUE
    /\ UNCHANGED <<tree, fields, current, path>>

\* The value is not in the layer, and its parent, or an ancestor's, is not to be had:
\* EKB does not answer, or the table of fee types is that of a client which has not
\* fetched them yet (client.go:61, app.go:177).
LookupFails ==
    /\ answer = "none"
    /\ \E first \in current :
        /\ HasAncestors(first)
        /\ fields[first.dim] \notin LayerCodes \cup {NoCode}
    /\ answer' = "not_in_budget"
    /\ failed' = TRUE
    /\ UNCHANGED <<tree, fields, current, path>>

MatchNext == MatchLayer \/ FieldMissing \/ NotInBudget \/ LookupFails
MatchSpec == MatchInit /\ [][MatchNext]_matchVars

-----------------------------------------------------------------------------
(* What the documents say of the match, without saying how it is found.     *)

\* a is code, or above it, fewer than so many levels away.
IsAbove(a, code, levels) == \E k \in 0 .. levels - 1 : Ancestor[k][code] = a

\* The field that m is about leads to n: it is the value's code or, if m is of a type
\* with ancestors, the first of its layer that comes into sight, looking upwards.
LeadsBy(m, n, layer) ==
    LET value == fields[m.dim]
    IN  /\ value # NoCode
        /\ IF HasAncestors(m)
           THEN \E levels \in 1 .. MaxLevels :
                    /\ IsAbove(n.code, value, levels)
                    /\ \A o \in layer \ {n} : ~IsAbove(o.code, value, levels)
           ELSE n.code = value

\* b goes down from the first layer to a leaf, and its k-th node is in this layer.
GoesDown(b) == b[1] \in tree /\ \A k \in 1 .. Len(b) - 1 : b[k + 1] \in b[k].kids
LayerOf(b, k) == IF k = 1 THEN tree ELSE b[k - 1].kids
ToTheBottom(b) == b # <<>> /\ GoesDown(b) /\ b[Len(b)].kids = {}

\* The record is in the budget, down to the bottom of b: by the fields that some nodes
\* of its layers are about, by those that all of them are about, or by the field of
\* each of its own nodes. In a tree whose layers are each about one field, these are one.
MayLeadDown(b) ==
    /\ ToTheBottom(b)
    /\ \A k \in DOMAIN b : \E m \in LayerOf(b, k) : LeadsBy(m, b[k], LayerOf(b, k))
MustLeadDown(b) ==
    /\ ToTheBottom(b)
    /\ \A k \in DOMAIN b : \A m \in LayerOf(b, k) : LeadsBy(m, b[k], LayerOf(b, k))
LeadsDown(b) ==
    /\ ToTheBottom(b)
    /\ \A k \in DOMAIN b : LeadsBy(b[k], b[k], LayerOf(b, k))

\* A record passes only if it is in the budget, down to the bottom of one branch, which
\* is the one that was matched, by a field that some node of each layer is about,
\* whatever lookups failed on the way.
MatchIsJustified == answer = "match" => MayLeadDown(path)

\* A record is refused only if it is not in the budget by the fields of all nodes of
\* the layers, in whichever order Go iterates over them, or a lookup failed.
Refused == answer \notin {"none", "match"} /\ tree \notin {NoTree, {}}
RefusalIsJustified == Refused /\ ~failed => \A b \in Branches : ~MustLeadDown(b)

\* README.md:134: the field's value is looked for among the nodes of the layer. Broken
\* by a layer about two fields: which of them is read depends on the map's order, so
\* that a record is refused that is in the budget by the matched nodes' own fields, ...
VerdictIgnoresMapOrder == Refused /\ ~failed => \A b \in Branches : ~LeadsDown(b)

\* ... and one passes that is in it only by the field of another node of the layer.
PassesByOwnFields == answer = "match" => LeadsDown(path)

\* docs/ekuaibao-api-notes.md:79: ancestors are searched up to five levels up. Broken by
\* the fifth: the value itself is counted as a level.
FifthAncestorIsFound ==
    answer = "not_in_budget" /\ ~failed =>
        \A n \in current : HasAncestors(n) => ~IsAbove(n.code, fields[n.dim], MaxLevels + 1)
=============================================================================
