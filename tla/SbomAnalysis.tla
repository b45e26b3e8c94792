----------------------------- MODULE SbomAnalysis -----------------------------
(***************************************************************************)
(* What the tasks that run after the catalogers compute from the packages, *)
(* relationships and files of an SBOM: the deep-squashed cleanup, the      *)
(* relationships task and the unknowns labeler.                            *)
(*                                                                         *)
(* A package is found by its ID, which determines it; what a fingerprint   *)
(* digests besides name and version is looked up by the package's key.     *)
(* The relationships of an SBOM are a slice in which one may occur more    *)
(* than once: a bag, the order of the slice being chosen where it counts.  *)
(***************************************************************************)
EXTENDS Compliance, FiniteSets, Bags

CONSTANTS
    Attr,      \* Key -> [type, meta, ident, locs, links, primary, visible, hidden, files]
    Resolve,   \* File -> the files that a resolver finds at that path
    Forbidden, \* paths no package is taken to own (globsForbiddenFromBeingOwned)
    Lib,       \* basenames of libraries
    Imports,   \* File -> SUBSET Lib, the ImportedLibraries of an executable
    Exports,   \* the executables that export symbols (HasExports)
    Glob,      \* Lib -> SUBSET File, what the resolver finds for **/lib
    BaseName   \* File -> Lib, the basename of the real path

Type(p)     == Attr[p.key].type
Meta(p)     == Attr[p.key].meta
Locations(p) == Attr[p.key].locs
Primary(p)  == Attr[p.key].primary
OwnedFiles(p) == Attr[p.key].files

\* The paths a package is indexed by: real and access path of its locations.
Paths(p) == Locations(p) \cup Attr[p.key].links

Has(P, id) == \E p \in P : ID(p) = id
Get(P, id) == CHOOSE p \in P : ID(p) = id
IDs(P) == {ID(p) : p \in P}

Mentions(e, ids) == {e.from, e.to} \cap ids # {}

\* Also the filter in sbomBuilder.DeletePackages.
RemoveRelationshipsByID(rels, ids) ==
    [e \in {f \in DOMAIN rels : ~Mentions(f, ids)} |-> rels[e]]

-------------------------------------------------------------------------------
(* scope_tasks.go: a package found only in layers that the final image hides.  *)

\* Mutation: the paths are left out of the key.
MutDuplicateKey(p, f) == <<Attr[p.key].ident, p.name, p.version>>

\* getKey, with real and access path taken together.
DuplicateKey(p, f) == <<Attr[p.key].ident, p.name, p.version, f>>

\* One package of the enumeration; seen holds the keys of unannotated primary
\* locations met so far.
scopeStep(acc, p) ==
    LET a == Attr[p.key]
        evident == {f \in a.visible : f \in a.primary \/ a.type = "binary"}
        claims == {DuplicateKey(p, f) : f \in a.primary \ (a.visible \cup a.hidden)}
    IN [seen |-> acc.seen \cup claims,
        remove |-> IF evident = {} /\ claims \subseteq acc.seen
                   THEN acc.remove \cup {ID(p)} ELSE acc.remove]

\* The enumeration follows a map: order is any sequence of the packages.
scopeRemovals(order) ==
    FoldLeft(scopeStep, [seen |-> {}, remove |-> {}], order).remove

-------------------------------------------------------------------------------
(* relationship_tasks.go, in the order of finalizeRelationships.               *)

ElfPackages(P) == {p \in P : Meta(p) = "elf"}

\* PackagesToRemove: binary packages at a path that is the evidence of a package
\* described by an ELF note.
PackagesToRemove(P) ==
    {ID(q) : q \in {r \in P :
        /\ Type(r) = "binary" /\ Meta(r) # "elf"
        /\ \E p \in ElfPackages(P) : Primary(p) \cap Paths(r) # {}}}

\* directOwnersByPath
directOwners(P, type) == UNION {OwnedFiles(p) : p \in {q \in P : Type(q) = type}}

\* Mutation: databases that many packages share can be owned.
MutClaimedPaths(P, p) ==
    UNION {{g \in {f} \cup Resolve[f] : g = f \/ g \notin directOwners(P, Type(p))} :
           f \in OwnedFiles(p)}

\* findOwnershipByFilesRelationships: the paths an owner claims, those it reaches
\* through a link only if no package of its type lists them.
claimedPaths(P, p) ==
    UNION {{g \in {f} \cup Resolve[f] :
                g \notin Forbidden /\ (g = f \/ g \notin directOwners(P, Type(p)))} :
           f \in OwnedFiles(p)}

OverlapType == "ownership-by-file-overlap"

byFileOwnershipOverlap(P) ==
    {[type |-> OverlapType, from |-> ID(pq[1]), to |-> ID(pq[2])] :
        pq \in {xy \in P \X P :
            xy[1] # xy[2] /\ claimedPaths(P, xy[1]) \cap Paths(xy[2]) # {}}}

binaryMetadataTypes == {"elf", "signature", "jvm"}
IsBinary(p) == Type(p) = "binary" \/ Meta(p) \in binaryMetadataTypes

\* Mutation: a child without metadata is passed over before its type is seen.
MutIdToRemove(parent, child) ==
    CASE Type(parent) \in {"os", "bitnami"} ->
            IF IsBinary(child) /\ Meta(child) # "none" THEN {ID(child)} ELSE {}
      [] Type(parent) = "binary" /\ Type(child) = "binary" /\ Meta(child) # "none" ->
            IF Meta(parent) = "jvm" /\ Meta(child) # "jvm" THEN {ID(child)}
            ELSE IF Meta(child) = "jvm" /\ Meta(parent) # "jvm" THEN {ID(parent)}
            ELSE {}
      [] OTHER -> {}

\* excludeByFileOwnershipOverlap: the OS, JVM and Bitnami rules, of which the type
\* of the parent allows at most one.
idToRemove(parent, child) ==
    CASE Type(parent) \in {"os", "bitnami"} ->
            IF IsBinary(child) THEN {ID(child)} ELSE {}
      [] Type(parent) = "binary" /\ Type(child) = "binary" /\ Meta(child) # "none" ->
            IF Meta(parent) = "jvm" /\ Meta(child) # "jvm" THEN {ID(child)}
            ELSE IF Meta(child) = "jvm" /\ Meta(parent) # "jvm" THEN {ID(parent)}
            ELSE {}
      [] OTHER -> {}

\* One turn of the loop of ExcludeBinariesByFileOwnershipOverlap.
excludeStep(s, e) ==
    IF ~(e.type = OverlapType /\ Has(s.packages, e.from) /\ Has(s.packages, e.to)) THEN s
    ELSE LET ids == idToRemove(Get(s.packages, e.from), Get(s.packages, e.to))
         IN [s EXCEPT !.packages = {p \in @ : ID(p) \notin ids},
                      !.relationships = RemoveRelationshipsByID(@, ids)]

-------------------------------------------------------------------------------
(* What these removals are to leave.                                          *)

\* Paths of a package that are neither marked visible nor hidden.
Unclear(p) == Primary(p) \ (Attr[p.key].visible \cup Attr[p.key].hidden)

\* Each name and version at each unclear path of the packages P keeps one of them in Q,
\* and who stays is a binary package or has evidence that is not hidden.
OnePerDuplicate(P, Q) ==
    /\ \A p \in P : \A f \in Unclear(p) :
        \E q \in Q :
            /\ Attr[p.key].ident = Attr[q.key].ident
            /\ p.name = q.name /\ p.version = q.version
            /\ f \in Unclear(q)
    /\ \A q \in Q : Unclear(q) # {} \/ Primary(q) \cap Attr[q.key].visible # {} \/ Type(q) = "binary"

\* p overrides q: the database of an operating system or of Bitnami that lists a binary
\* package, or a Java installation that shares a path with another kind of evidence.
Claims(P, p, q) == claimedPaths(P, p) \cap Paths(q) # {}
Overrides(P, p, q) ==
    /\ p # q
    /\ \/ /\ Type(p) \in {"os", "bitnami"} /\ Claims(P, p, q)
          /\ Type(q) = "binary" \/ Meta(q) \in {"elf", "signature", "jvm"}
       \/ /\ Type(p) = "binary" /\ Meta(p) = "jvm" /\ Type(q) = "binary" /\ Meta(q) # "jvm"
          /\ Claims(P, q, p) \/ (Claims(P, p, q) /\ Meta(q) # "none")
Overridden(P) == {q \in P : \E p \in P : Overrides(P, p, q)}

\* No package that another one overrides overrides a third.
Undisputed(P) == \A p \in Overridden(P), q \in P : ~Overrides(P, p, q)

-------------------------------------------------------------------------------
(* binary_dependencies.go, shared_library_index.go                            *)

\* packagesWithLibraryOwnership: binary packages by location, others by claim.
ownsLibrary(p, f) ==
    f \in (IF Type(p) = "binary" THEN Locations(p) ELSE Owned(p))

\* owningLibraryPackage: every package that owns a library of that basename.
owningLibraryPackages(P, execs, base) ==
    {p \in P : \E f \in execs \cap Exports : BaseName[f] = base /\ ownsLibrary(p, f)}

DependencyType == "dependency-of"

\* What one library file that an executable of p imports contributes.
libraryEdges(P, execs, p, f) ==
    LET owners == owningLibraryPackages(P, execs, BaseName[f])
    IN {[type |-> DependencyType, from |-> n, to |-> ID(p)] :
            n \in (IF owners = {} THEN {f} ELSE IDs(owners))}

\* generateRelationships: the new ones only.
NewDependencyRelationships(P, execs, rels) ==
    LET imported(p) == UNION {Glob[lib] : lib \in UNION {Imports[f] : f \in Primary(p) \cap execs}}
    IN UNION {UNION {libraryEdges(P, execs, p, f) : f \in imported(p)} : p \in ElfPackages(P)}
           \ DOMAIN rels

ToSource(P) == {[type |-> ContainsType, from |-> Source, to |-> id] : id \in IDs(P)}

EvidentByType == "evident-by"

EvidentBy(P) ==
    UNION {{[type |-> EvidentByType, from |-> ID(p), to |-> f] : f \in Locations(p)} : p \in P}

-------------------------------------------------------------------------------
(* unknowns_tasks.go                                                          *)

\* coordinateReferenceLookup: locations, owned files and package-file edges.
referenced(s) ==
    LET package(n) == n \notin File \cup Sources
    IN (UNION {Locations(p) \cup Owned(p) : p \in s.packages})
        \cup {e.to : e \in {f \in DOMAIN s.relationships : f.to \in File /\ package(f.from)}}
        \cup {e.from : e \in {f \in DOMAIN s.relationships : f.from \in File /\ package(f.to)}}

\* unknownsLabelerTask.finalize.  unknowns pairs a file with who reported it.
finalizeUnknowns(s, flags, archives) ==
    LET known == referenced(s)
        kept == {u \in s.unknowns : ~("RemoveWhenPackagesDefined" \in flags /\ u[1] \in known)}
        label(flag, files, what) == IF flag \in flags THEN (files \ known) \X {what} ELSE {}
    IN [s EXCEPT !.unknowns =
            kept \cup label("IncludeExecutablesWithoutPackages",
                            s.files["executables"], "no package identified")
                 \cup label("IncludeUnexpandedArchives",
                            s.files["metadata"] \cap archives, "archive not cataloged")]
===============================================================================
