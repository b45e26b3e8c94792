--------------------------- MODULE RelationshipIndex ---------------------------
(***************************************************************************)
(* relationship.Index (internal/relationship/index.go): the relationships  *)
(* of an SBOM, indexed by both endpoints.  Each endpoint has a slice of    *)
(* the relationships that touch it (allRelated) and a map of the far ends  *)
(* per type (typeMap), kept by hand in agreement with the slice of all.    *)
(*                                                                         *)
(* A slice is kept with the capacity of its backing array: the queries     *)
(* append to a slice and sort the result in place, and what that does to   *)
(* the slice they started from depends on the spare capacity.              *)
(***************************************************************************)
EXTENDS Integers, Sequences, FiniteSets, SequencesExt

CONSTANTS
    Node,      \* IDs of packages, files and the source, ordered as strings are
    RelType,   \* relationship types, ordered as strings are
    MaxEdges   \* bound on the number of relationships held

ASSUME OrderAssumption == Node \subseteq Int /\ RelType \subseteq Int

VARIABLES
    idx,      \* [all, fromID, toID]
    queried   \* nodes whose References have been asked for

vars == <<idx, queried>>

Edge == [type : RelType, from : Node, to : Node]

-------------------------------------------------------------------------------
(* mappedRelationships.  typeMap holds a pointer per type and far end, which  *)
(* the pair and the node determine, so the set of pairs stands for it.  A nil *)
(* map entry reads as the zero value: nothing related, no backing array.      *)

Unmapped == [allRelated |-> <<>>, cap |-> 0, typeMap |-> {}]

\* Go's append of one pointer: the capacity doubles when it is used up.
mappedAdd(m, id, e) ==
    [allRelated |-> Append(m.allRelated, e),
     cap        |-> IF Len(m.allRelated) < m.cap THEN m.cap
                    ELSE IF m.cap = 0 THEN 1 ELSE 2 * m.cap,
     typeMap    |-> m.typeMap \cup {<<e.type, id>>}]

\* The relationships of s that are not gone, in their order.
without(s, gone) == FoldLeft(LAMBDA kept, r : IF r \in gone THEN kept ELSE Append(kept, r), <<>>, s)

\* Removing relationships filters in place: the backing array stays.
mappedRemove(m, id, targets) ==
    [allRelated |-> without(m.allRelated, targets),
     cap        |-> m.cap,
     typeMap    |-> m.typeMap \ {<<e.type, id>> : e \in targets}]

\* sortFunc: by type, then from, then to.
Precedes(a, b) ==
    \/ a.type < b.type
    \/ a.type = b.type /\ a.from < b.from
    \/ a.type = b.type /\ a.from = b.from /\ a.to < b.to

\* slices.SortFunc: no two relationships of a slice compare equal unless they are the same.
insert(t, e) == InsertAt(t, Cardinality({j \in DOMAIN t : ~Precedes(e, t[j])}) + 1, e)
Sorted(s) == FoldLeft(insert, <<>>, s)

-------------------------------------------------------------------------------
(* Operations on an index.                                                    *)

Empty == [all |-> <<>>, fromID |-> [n \in Node |-> Unmapped],
          toID |-> [n \in Node |-> Unmapped]]

ContainsEdge(i, e) == <<e.type, e.to>> \in i.fromID[e.from].typeMap

addTo(i, e) ==
    IF ContainsEdge(i, e) THEN i
    ELSE [all    |-> Append(i.all, e),
          fromID |-> [i.fromID EXCEPT ![e.from] = mappedAdd(@, e.to, e)],
          toID   |-> [i.toID EXCEPT ![e.to] = mappedAdd(@, e.from, e)]]

\* Remove: the adjacent nodes forget the node's edges, then the node goes.
removeFrom(i, id) ==
    LET outgoing(n) == {e \in ToSet(i.fromID[id].allRelated) : e.to = n}
        incoming(n) == {e \in ToSet(i.toID[id].allRelated) : e.from = n}
    IN [all    |-> without(i.all, {e \in Edge : id \in {e.from, e.to}}),
        fromID |-> [n \in Node |-> IF n = id THEN Unmapped
                                   ELSE mappedRemove(i.fromID[n], id, incoming(n))],
        toID   |-> [n \in Node |-> IF n = id THEN Unmapped
                                   ELSE mappedRemove(i.toID[n], id, outgoing(n))]]

\* The edges of a list are added again with another node at one end, unless the
\* node at their far end is unknown.
renamedAt(e, end, new) == IF end = "from" THEN [e EXCEPT !.from = new] ELSE [e EXCEPT !.to = new]
unknown(i, e, end) == IF end = "from" THEN i.toID[e.to].allRelated = <<>>
                      ELSE i.fromID[e.from].allRelated = <<>>
moveAll(i, list, end, new) ==
    FoldLeft(LAMBDA j, e : IF unknown(j, e, end) THEN j ELSE addTo(j, renamedAt(e, end, new)), i, list)

\* Mutation: only the outgoing edges are moved.
MutReplaceOutgoing(i, og, new) ==
    IF new = og THEN i
    ELSE removeFrom(moveAll(i, i.fromID[og].allRelated, "from", new), og)

\* Replace: the edges of the old node are moved to the new one, those from it and
\* then those to it, and the old node is removed.  Each loop walks the slice as it
\* was when the loop began.
replaceIn(i, og, new) ==
    LET moved == moveAll(i, i.fromID[og].allRelated, "from", new)
    IN IF new = og THEN i
       ELSE removeFrom(moveAll(moved, moved.toID[og].allRelated, "to", new), og)

-------------------------------------------------------------------------------
(* An index is edited, then queried: NewPackageTask's compliance edits and     *)
(* takes All; the SPDX encoder builds an index and asks once for the           *)
(* Coordinates of every package before it takes All                            *)
(* (syft/format/common/spdxhelpers/to_format_model.go).                        *)

Init == idx = Empty /\ queried = {}

Add(e) ==
    /\ queried = {}
    /\ Len(idx.all) < MaxEdges
    /\ idx' = addTo(idx, e)
    /\ UNCHANGED queried

RemoveNode(id) ==
    /\ queried = {}
    /\ idx' = removeFrom(idx, id)
    /\ UNCHANGED queried

ReplaceNode(og, new) ==
    /\ queried = {}
    /\ idx' = replaceIn(idx, og, new)
    /\ UNCHANGED queried

\* The queries sort the slice they return from, in place.
From(n) == idx' = [idx EXCEPT !.fromID[n].allRelated = Sorted(@)] /\ UNCHANGED queried
To(n)   == idx' = [idx EXCEPT !.toID[n].allRelated = Sorted(@)] /\ UNCHANGED queried
All     == idx' = [idx EXCEPT !.all = Sorted(@)] /\ UNCHANGED queried

\* Mutation: the target's slice is the one appended to.
MutReferences(n) ==
    LET to == idx.toID[n]
        both == to.allRelated \o idx.fromID[n].allRelated
    IN /\ n \notin queried
       /\ queried' = queried \cup {n}
       /\ idx' = IF Len(both) <= to.cap
                 THEN [idx EXCEPT !.toID[n].allRelated =
                                      SubSeq(Sorted(both), 1, Len(to.allRelated))]
                 ELSE idx

\* References and Coordinates: append(from, to...) takes place in from's backing
\* array when it has room, and so does the sort of the whole; from's own slice is
\* then the first part of it.
References(n) ==
    LET from == idx.fromID[n]
        both == from.allRelated \o idx.toID[n].allRelated
    IN /\ n \notin queried
       /\ queried' = queried \cup {n}
       /\ idx' = IF Len(both) <= from.cap
                 THEN [idx EXCEPT !.fromID[n].allRelated =
                                      SubSeq(Sorted(both), 1, Len(from.allRelated))]
                 ELSE idx

Next ==
    \/ \E e \in Edge : Add(e)
    \/ \E id \in Node : RemoveNode(id)
    \/ \E og, new \in Node : ReplaceNode(og, new)
    \/ \E n \in Node : From(n) \/ To(n)
    \/ All
    \/ \E n \in Node : References(n)

Spec == Init /\ [][Next]_vars

-------------------------------------------------------------------------------
(* Properties.                                                                *)

edges == ToSet(idx.all)

\* Type invariant; no relationship is held twice.
TypeOK ==
    /\ idx.all \in Seq(Edge)
    /\ Len(idx.all) = Cardinality(edges)
    /\ \A n \in Node : \A m \in {idx.fromID[n], idx.toID[n]} :
        /\ m.allRelated \in Seq(Edge)
        /\ Len(m.allRelated) <= m.cap
        /\ m.typeMap \subseteq RelType \X Node
    /\ queried \subseteq Node

\* Both maps of every node hold exactly its edges: Contains, which decides what
\* Add drops as a duplicate, never speaks for an edge that was removed or moved
\* and never misses one that is held.
MapsAgree ==
    \A n \in Node :
        /\ idx.fromID[n].typeMap = {<<e.type, e.to>> : e \in {f \in edges : f.from = n}}
        /\ idx.toID[n].typeMap = {<<e.type, e.from>> : e \in {f \in edges : f.to = n}}

\* Whatever was asked of other nodes before, the first References of a node finds
\* every relationship from it or to it, each once per end: no edge is left behind
\* at the far end of a node that went, none is lost at one that stayed.  The slice
\* that To answers from, and the maps that Contains answers from, are exact even
\* after the node was queried.
QueriesExact ==
    /\ MapsAgree
    /\ \A n \in Node :
        LET out == {e \in edges : e.from = n}
            in  == {e \in edges : e.to = n}
        IN /\ ToSet(idx.toID[n].allRelated) = in
           /\ Len(idx.toID[n].allRelated) = Cardinality(in)
           /\ n \notin queried =>
                /\ ToSet(idx.fromID[n].allRelated) = out
                /\ Len(idx.fromID[n].allRelated) = Cardinality(out)

\* The index implements a set of relationships, whatever edits and queries it sees.
Graph == INSTANCE RelationshipGraph

GraphSpec == Graph!Spec

\* Replace, which adds and removes edge by edge, amounts to renaming the node in
\* every edge at once: self-edges become self-edges of the new node, edges that
\* coincide become one, and a node that only has incoming edges keeps them.
ReplaceRenames ==
    queried = {} =>
        \A og, new \in Node :
            og # new => ToSet(replaceIn(idx, og, new).all) = Graph!Renamed(edges, og, new)

\* "From returns all relationships from the given identifiable" (index.go:140),
\* whichever queries were made before.
FromReturnsAll ==
    \A n \in Node : ToSet(idx.fromID[n].allRelated) = {e \in edges : e.from = n}
================================================================================
