---------------------------- MODULE ImageResolvers ----------------------------
(* The three views of an image under syft/internal/fileresolver: its squashed   *)
(* tree, all of its layers, and all layers for what the squashed tree has.  A   *)
(* layer is a function from paths to what it adds; a reference is a path in a   *)
(* layer.  Trees and their searches are stereoscope's.                          *)
EXTENDS Naturals, SequencesExt

CONSTANTS Path

ASSUME PathsAssumption == IsFiniteSet(Path)

NoRef == <<>>
Regular == [kind |-> "file", to |-> "none"]
Symlink(p) == [kind |-> "link", to |-> p]
Whiteout == [kind |-> "whiteout", to |-> "none"]

Layer == UNION {[D -> {Regular, Whiteout} \cup {Symlink(p) : p \in Path}] : D \in SUBSET Path}

-------------------------------------------------------------------------------
(* Trees: from the paths that are there to references.                        *)

LayerTree(img, n) ==
    [p \in {q \in DOMAIN img[n] : img[n][q] # Whiteout} |-> <<n, p>>]

LastLayer(img, n, p) == LET S == {i \in 1..n : p \in DOMAIN img[i]} IN
    IF S = {} THEN 0 ELSE CHOOSE i \in S : \A j \in S : j <= i

SquashedTree(img, n) ==
    [p \in {q \in Path : LastLayer(img, n, q) # 0 /\ img[LastLayer(img, n, q)][q] # Whiteout} |->
        <<LastLayer(img, n, p), p>>]

Entry(img, ref) == img[ref[1]][ref[2]]
IsLink(img, ref) == Entry(img, ref).kind = "link"

(* SearchByPath: links are followed; where they lead to nothing there is no      *)
(* result or, with keepDead, the last link.                                      *)
SearchByPath(img, tree, path, keepDead) ==
    LET follow[met \in SUBSET Path] == [p \in Path |->
            IF p \notin DOMAIN tree \/ p \in met THEN NoRef
            ELSE IF ~IsLink(img, tree[p]) THEN tree[p]
            ELSE LET next == follow[met \cup {p}][Entry(img, tree[p]).to]
                 IN IF next = NoRef /\ keepDead THEN tree[p] ELSE next]
    IN follow[{}][path]

ResolveLink(img, tree, ref) ==
    IF IsLink(img, ref) THEN SearchByPath(img, tree, ref[2], FALSE) ELSE ref

Location(access, ref) == [access |-> access, ref |-> ref]
Refs(locations) == {l.ref : l \in ToSet(locations)}

\* The locations whose file none of the results before them refers to are added.
AddNew(results, locations) ==
    LET add(acc, l) == IF l.ref = NoRef \/ l.ref \in Refs(acc) THEN acc ELSE Append(acc, l)
    IN FoldLeft(add, results, locations)

-------------------------------------------------------------------------------
(* Squashed.                                                                  *)

SquashedFiles(img, path) ==
    LET tree == SquashedTree(img, Len(img))
        found == SearchByPath(img, tree, path, FALSE)
        file == ResolveLink(img, tree, found)
    IN IF found = NoRef \/ file = NoRef THEN <<>> ELSE <<Location(path, file)>>

SquashedGlob(img, matches) ==
    LET add(results, path) == AddNew(results, SquashedFiles(img, path))
    IN FoldLeft(add, <<>>, matches)

SquashedHasPath(img, path) == path \in DOMAIN SquashedTree(img, Len(img))

-------------------------------------------------------------------------------
(* All layers.                                                                *)

\* locationsByRef: a link may lead to another file in every later layer.
LocationsByRef(img, ref, access, layer) ==
    IF IsLink(img, ref)
    THEN [i \in 1..(Len(img) - layer + 1) |->
            Location(access, ResolveLink(img, SquashedTree(img, layer + i - 1), ref))]
    ELSE <<Location(access, ref)>>

AllLayersFiles(img, path) ==
    LET add(results, layer) ==
            LET ref == SearchByPath(img, LayerTree(img, layer), path, TRUE)
            IN IF ref = NoRef THEN results
               ELSE AddNew(results, LocationsByRef(img, ref, path, layer))
    IN FoldLeft(add, <<>>, [i \in 1..Len(img) |-> i])

\* Mutation: a layer is looked at by itself.
MutAllLayersGlob(img, matches) ==
    LET add(results, layer) ==
            LET search(acc, path) ==
                    LET ref == SearchByPath(img, LayerTree(img, layer), path, TRUE)
                    IN IF ref = NoRef THEN acc
                       ELSE AddNew(acc, LocationsByRef(img, ref, path, layer))
            IN FoldLeft(search, results, matches)
    IN FoldLeft(add, <<>>, [i \in 1..Len(img) |-> i])

\* A layer is looked at from its squashed tree.
LayerGlob(img, matches, layer, results) ==
    LET search(acc, path) ==
            LET ref == SearchByPath(img, SquashedTree(img, layer), path, TRUE)
            IN IF ref = NoRef THEN acc
               ELSE AddNew(acc, LocationsByRef(img, ref, path, layer))
    IN FoldLeft(search, results, matches)

\* FilesByGlob; matches are paths in the order of the search.
AllLayersGlob(img, matches) ==
    LET add(results, layer) == LayerGlob(img, matches, layer, results)
    IN FoldLeft(add, <<>>, [i \in 1..Len(img) |-> i])

pathResolvesToRef(img, path, ref) ==
    SearchByPath(img, SquashedTree(img, Len(img)), path, TRUE) = ref

\* Mutation: only the real path has to be there.
MutVisible(img, l) == pathResolvesToRef(img, l.ref[2], l.ref)

\* annotateLocation
Visible(img, l) ==
    /\ pathResolvesToRef(img, l.ref[2], l.ref)
    /\ pathResolvesToRef(img, l.access, l.ref)

-------------------------------------------------------------------------------
(* Deep squash: locations with their annotation.                              *)

Annotated(l, visible) == [access |-> l.access, ref |-> l.ref, visible |-> visible]

\* Mutation: the squashed locations are not left out.
MutMergeLocations(img, squashed, all) ==
    IF squashed = <<>> THEN {}
    ELSE {Annotated(l, TRUE) : l \in ToSet(squashed)}
            \cup {Annotated(l, FALSE) : l \in {m \in ToSet(all) :
                    SquashedHasPath(img, m.ref[2]) /\ SquashedHasPath(img, m.access)}}

mergeLocations(img, squashed, all) ==
    IF squashed = <<>> THEN {}
    ELSE {Annotated(l, TRUE) : l \in ToSet(squashed)}
            \cup {Annotated(l, FALSE) : l \in {m \in ToSet(all) \ ToSet(squashed) :
                    SquashedHasPath(img, m.ref[2]) /\ SquashedHasPath(img, m.access)}}

DeepSquashFiles(img, path) ==
    mergeLocations(img, SquashedFiles(img, path), AllLayersFiles(img, path))

DeepSquashGlob(img, matches) ==
    mergeLocations(img, SquashedGlob(img, matches), AllLayersGlob(img, matches))
===============================================================================
