--------------------------- MODULE RelationshipGraph ---------------------------
(* What relationship.Index promises (internal/relationship/index.go): a set of *)
(* relationships without duplicates, in which removing a node removes every    *)
(* edge that mentions it and replacing a node renames it in every edge.        *)
CONSTANTS Node, RelType

VARIABLE edges

Edge == [type : RelType, from : Node, to : Node]

Without(E, id) == {e \in E : id \notin {e.from, e.to}}

Renamed(E, og, new) ==
    LET Rename(n) == IF n = og THEN new ELSE n
    IN {[type |-> e.type, from |-> Rename(e.from), to |-> Rename(e.to)] : e \in E}

Init == edges = {}

Add(e) == edges' = edges \cup {e}
Remove(id) == edges' = Without(edges, id)
Replace(og, new) == edges' = Renamed(edges, og, new)

Next ==
    \/ \E e \in Edge : Add(e)
    \/ \E id \in Node : Remove(id)
    \/ \E og, new \in Node : Replace(og, new)

Spec == Init /\ [][Next]_edges
================================================================================
