---------------------------- MODULE MCSbomAnalysis ----------------------------
(* Which packages the cleanup of hidden packages and the exclusion of binary    *)
(* packages remove, for every selection from a universe of packages and every   *)
(* order in which Go's maps may present packages and edges.                     *)
EXTENDS SbomAnalysis

CONSTANTS
    os1, os2, jvm, sig, bin, bitnami, bnbin, elf, shadow, dbbin, lang,
    first, second, third, fourth, fifth,
    db, prog, lib, link, release, java, bn, app, plain, seen, hidden,
    name,
    ExclusionPackages, \* what other scopes than deep-squashed may find
    ScopePackages      \* what deep-squashed scopes may find

ASSUME AnalysisAssumption ==
    /\ ExclusionPackages \subseteq Package
    /\ ScopePackages \subseteq Package /\ IsFiniteSet(ScopePackages)

AnalysisFile == {db, prog, lib, link, release, java, bn, app, plain, seen, hidden}

PackageAt(type, meta, f) ==
    [type |-> type, meta |-> meta, ident |-> name, locs |-> {f}, links |-> {},
     primary |-> {f}, visible |-> {f}, hidden |-> {}, files |-> {}]

\* Locations of packages that deep-squashed scopes find.
Unannotated(f) == [PackageAt("language", "other", f) EXCEPT !.visible = {}]

ExclusionKey == {os1, os2, jvm, sig, bin, bitnami, bnbin, elf, shadow, dbbin, lang}
ScopeKey == {first, second, third, fourth, fifth}
AnalysisKey == ExclusionKey \cup ScopeKey

Given(keys) == [key : keys, name : {"given"}, version : {"given"}]
ExclusionUniverse == Given(ExclusionKey)
ScopeUniverse == Given(ScopeKey)

MCAttr == [k \in AnalysisKey |->
    CASE k = os1 -> [PackageAt("os", "other", db) EXCEPT !.files = {prog, lib, db, release}]
      [] k = os2 -> [PackageAt("os", "other", db) EXCEPT !.files = {link, app}]
      [] k = jvm -> [PackageAt("binary", "jvm", release) EXCEPT !.files = {java, release}]
      [] k = sig -> PackageAt("binary", "signature", java)
      [] k = bin -> [PackageAt("binary", "none", prog) EXCEPT !.links = {link}]
      [] k = bitnami -> [PackageAt("bitnami", "other", plain) EXCEPT !.files = {bn}]
      [] k = bnbin -> PackageAt("binary", "signature", bn)
      [] k = elf -> [PackageAt("os", "elf", app) EXCEPT !.locs = {app, lib}]
      [] k = shadow -> PackageAt("binary", "none", app)
      [] k = dbbin -> PackageAt("binary", "none", db)
      [] k = lang -> PackageAt("language", "other", prog)
      [] k = first -> Unannotated(plain)
      [] k = second ->
            [Unannotated(plain) EXCEPT !.locs = {plain, seen}, !.primary = {plain, seen}]
      [] k = third -> [Unannotated(seen) EXCEPT !.locs = {seen, hidden}, !.hidden = {hidden}]
      [] k = fifth -> [PackageAt("binary", "signature", plain) EXCEPT !.primary = {}]
      [] k = fourth -> [Unannotated(hidden) EXCEPT !.hidden = {hidden}]]

MCResolve == [f \in AnalysisFile |-> IF f = link THEN {lib} ELSE {f}]
AnalysisOwned(p) == UNION {MCResolve[f] : f \in MCAttr[p.key].files}
MCForbidden == {db}

VARIABLES deep, found, packages, edges, phase

analysisVars == <<deep, found, packages, edges, phase>>

\* deep: whether the scope is deep-squashed.
AnalysisInit ==
    /\ deep \in BOOLEAN
    /\ found \in SUBSET (IF deep THEN ScopePackages ELSE ExclusionPackages)
    /\ packages = found
    /\ edges = {}
    /\ phase = "scope"

Scope ==
    /\ phase = "scope"
    /\ phase' = "elf"
    /\ IF deep
       THEN \E order \in SetToSeqs(packages) :
                packages' = {p \in packages : ID(p) \notin scopeRemovals(order)}
       ELSE UNCHANGED packages
    /\ UNCHANGED <<deep, found, edges>>

Elf ==
    /\ phase = "elf"
    /\ phase' = "exclude"
    /\ packages' = {p \in packages : ID(p) \notin PackagesToRemove(packages)}
    /\ edges' = byFileOwnershipOverlap(packages')
    /\ UNCHANGED <<deep, found>>

ExcludeNext ==
    /\ phase = "exclude"
    /\ \E e \in edges :
        /\ packages' = excludeStep([packages |-> packages, relationships |-> EmptyBag], e).packages
        /\ edges' = edges \ {e}
    /\ UNCHANGED <<deep, found, phase>>

AnalysisSpec == AnalysisInit /\ [][Scope \/ Elf \/ ExcludeNext]_analysisVars

-------------------------------------------------------------------------------
Done == phase = "exclude" /\ edges = {}

\* p lists a path of q, directly or through a link.
Reaches(p, q) ==
    (UNION {{f} \cup Resolve[f] : f \in OwnedFiles(p)}) \cap (Paths(q) \ Forbidden) # {}

\* p speaks for q: it reaches q, it is the ELF package whose evidence q shares, or the
\* Java installation that q reaches.
SpeaksFor(p, q) ==
    \/ Reaches(p, q)
    \/ Meta(p) = "elf" /\ Primary(p) \cap Paths(q) # {}
    \/ Meta(p) = "jvm" /\ Reaches(q, p)

\* Whatever is removed as overlapping is still spoken for: by a package of the
\* result, or by a removed one that in turn is, and so on.  No group of packages
\* remove each other and no removal outlives its reason without another one.
OverlapsSpokenFor ==
    Done /\ ~deep =>
        \A group \in (SUBSET (found \ packages)) \ {{}} :
            \E q \in group, p \in found \ group : SpeaksFor(p, q)

\* Where no package that another one overrides overrides a third, what is left is
\* exactly what nothing overrides, in every order of the edges.
Considered == {p \in found : ID(p) \notin PackagesToRemove(found)}
ExclusionExact ==
    Done /\ ~deep /\ Undisputed(Considered) => packages = Considered \ Overridden(Considered)

\* In a deep-squashed scope each name and version at each path that is neither
\* visible nor hidden keeps a package, in whichever order duplicates are met, and a
\* package that is hidden altogether keeps none.
OneOfDuplicatesKept == deep /\ phase = "elf" => OnePerDuplicate(found, packages)

\* No package is removed from an SBOM, as overlapping or as a duplicate, unless one that
\* stays accounts for it.
RemovedSpokenFor == OverlapsSpokenFor /\ OneOfDuplicatesKept
===============================================================================
