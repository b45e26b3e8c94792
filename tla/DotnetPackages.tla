---------------------------- MODULE DotnetPackages ----------------------------
(* Packages of .NET applications (syft/pkg/cataloger/dotnet): the libraries that  *)
(* *.deps.json documents describe, paired with the executables (PE files) found   *)
(* beside them.  What is not wanted of a document is skipped, and dependencies    *)
(* lead over it.                                                                  *)
(*                                                                                *)
(* A document is a record: "libs" are the libraries of its targets; of each       *)
(* "dependsOn" is what it requires, described or not, "claims" the executables    *)
(* its paths denote (runtime, resource, compile and native alike) and "kind" its  *)
(* type; "titled" are the libraries that carry the name of the file, "bundled"    *)
(* says that one of the libraries is a known bundler, "carrier" is the executable *)
(* that the document is embedded in.                                              *)
EXTENDS Naturals, Sequences, FiniteSets, SequencesExt

CONSTANTS
    Library,          \* names with versions
    Executable,       \* PE files
    RuntimeVersion,   \* library or executable -> the version of .NET that it is a part of
    Nothing           \* no root, no carrier, no version

ASSUME LibraryAssumption == IsFiniteSet(Library) /\ Nothing \notin Library

\* CatalogerConfig
DotnetConfig == [mustHaveDLL : BOOLEAN, mustClaimDLL : BOOLEAN, propagate : BOOLEAN,
                 relaxWhenBundled : BOOLEAN, excludeProjects : BOOLEAN]

-------------------------------------------------------------------------------
(* getLogicalDepsJSON                                                             *)

\* traverseDependencies: what a walk visits that takes from each library the next ones.
Walked(from, next) ==
    LET walk[n \in 0..Cardinality(Library)] ==
            IF n = 0 THEN from ELSE walk[n - 1] \cup UNION {next[l] : l \in walk[n - 1]}
    IN walk[Cardinality(Library)]

Visited(doc, from) ==
    Walked(from, [l \in Library |-> IF l \in doc.libs THEN doc.dependsOn[l] ELSE {}]) \cap doc.libs

\* The flags that say of each library that one below it is in "own".  They are set one
\* library at a time, in the order of the map, and the walk for one stops at flags that
\* are set already.
anyChild(doc, own, order) ==
    LET visitor(flags, l) == l \in own \/ flags[l]
        flag(flags, p) ==
            [flags EXCEPT ![p] = \E l \in Visited(doc, doc.dependsOn[p]) : visitor(flags, l)]
    IN FoldLeft(flag, [l \in doc.libs |-> FALSE], order)

claiming(doc) == {l \in doc.libs : doc.claims[l] # {}}

ClaimsDLLs(doc, order, l, includeChildren) ==
    \/ l \in claiming(doc)
    \/ includeChildren /\ anyChild(doc, claiming(doc), order)[l]

\* The flags of what is below are set before any executable has been attached.
FoundDLLs(doc, pes, order, l, includeChildren) ==
    \/ doc.claims[l] \cap pes # {}
    \/ includeChildren /\ anyChild(doc, {}, order)[l]

-------------------------------------------------------------------------------
(* packagesFromLogicalDepsJSON                                                    *)

\* RootPackage: any project of the document's name.
Roots(doc) ==
    LET candidates == {l \in doc.titled \cap doc.libs : doc.kind[l] = "project"}
    IN IF candidates = {} THEN {Nothing} ELSE candidates

skips(doc, pes, config, order, root, l) ==
    /\ l # root
    /\ \/ doc.kind[l] = "reference"
       \/ config.excludeProjects /\ doc.kind[l] = "project"
       \/ config.mustHaveDLL /\ ~FoundDLLs(doc, pes, order, l, config.propagate)
       \/ /\ config.mustClaimDLL /\ ~(config.relaxWhenBundled /\ doc.bundled)
          /\ ~ClaimsDLLs(doc, order, l, config.propagate)

kept(doc, pes, config, order, root) ==
    {l \in doc.libs : ~skips(doc, pes, config, order, root, l)}

\* Mutation: only one skipped library is jumped over.
MutFindNearest(doc, libs, l) == doc.dependsOn[l] \cap libs

\* findNearestDependencyPackages: what remains below a library that was skipped; a
\* skipped library is processed once.
FindNearest(doc, libs, l) ==
    LET skipped == [s \in Library |-> (doc.dependsOn[s] \cap doc.libs) \ libs]
    IN UNION {doc.dependsOn[s] \cap libs : s \in Walked({l}, skipped)}

\* relationshipsFromLogicalDepsJSON: pairs of a library and what it is a dependency of.
relationshipsOf(doc, libs) ==
    UNION {LET direct == doc.dependsOn[p]
               skipped == (direct \cap doc.libs) \ libs
           IN {<<d, p>> : d \in (direct \cap libs) \cup UNION {FindNearest(doc, libs, s) : s \in skipped}}
           : p \in libs}

-------------------------------------------------------------------------------
(* Catalog                                                                        *)

Attached(doc, pes) == pes \cap UNION {doc.claims[l] : l \in doc.libs}

Dependency(doc, l) == [kind |-> "library", of |-> <<doc.name, l>>]
Binary(pe) == [kind |-> "binary", of |-> <<pe>>]
Runtime(version) == [kind |-> "runtime", of |-> <<version>>]
Asset(doc) == [kind |-> "libman", of |-> <<doc.name, Nothing>>]

\* A runtime that is made up from its executables is given no fingerprint.
NoID == [kind |-> "none", of |-> <<>>]
PackageID(p) == IF p.kind = "runtime" THEN NoID ELSE p
DependencyEdge(p, q) == [from |-> PackageID(p), to |-> PackageID(q), type |-> "dependency-of"]

\* Mutation: an executable with a document in it is a package as well.
MutRemaining(docs, pes) == pes \ UNION {Attached(doc, pes) : doc \in docs}

\* partitionPEs: the executables that no document claims or is embedded in.
Remaining(docs, pes) ==
    pes \ ((UNION {Attached(doc, pes) : doc \in docs}) \cup {doc.carrier : doc \in docs})

\* libs[doc] is what is kept of a document.
Required(libs) ==
    UNION {{DependencyEdge(Dependency(doc, r[1]), Dependency(doc, r[2])) :
                r \in relationshipsOf(doc, libs[doc])} : doc \in DOMAIN libs}
AssetsToRoots(docs, root) ==
    {DependencyEdge(Asset(doc), Dependency(doc, root[doc.name])) :
        doc \in {d \in docs : d.libman /\ root[d.name] # Nothing}}
RuntimesToRoots(runtimes, roots) == {DependencyEdge(p, r) : p \in runtimes, r \in roots}

\* The documents that packages are made from.
considered(docs, pes, config) ==
    {doc \in docs : config.mustHaveDLL => Attached(doc, pes) # {}}

\* "root" and "order" choose the root of each document and the order of its map.
Catalog(docs, pes, config, root, order) ==
    LET used == considered(docs, pes, config)
        libs == [doc \in used |-> kept(doc, pes, config, order[doc.name], root[doc.name])]
        described == UNION {{Dependency(doc, l) : l \in libs[doc]} : doc \in used}
        assets == {Asset(doc) : doc \in {d \in used : d.libman}}
        roots == {Dependency(doc, root[doc.name]) : doc \in {d \in used : root[d.name] # Nothing}}
        inRuntime == {pe \in Remaining(docs, pes) : RuntimeVersion[pe] # Nothing}
        versions == {RuntimeVersion[p.of[2]] : p \in described}
        madeUp == {Runtime(RuntimeVersion[pe]) :
                       pe \in {e \in inRuntime : RuntimeVersion[e] \notin versions}}
        runtimes == {p \in described : RuntimeVersion[p.of[2]] # Nothing} \cup madeUp
    IN [packages |-> described \cup assets \cup madeUp
                     \cup {Binary(pe) : pe \in Remaining(docs, pes) \ inRuntime},
        relationships |->
            Required(libs) \cup AssetsToRoots(used, root) \cup RuntimesToRoots(runtimes, roots),
        evidence |-> [p \in described |->
            UNION {doc.claims[p.of[2]] \cap pes : doc \in {d \in used : d.name = p.of[1]}}]]
===============================================================================
