------------------------------ MODULE Compliance ------------------------------
(***************************************************************************)
(* What a package task makes of a cataloger's results before it writes     *)
(* them to the SBOM (internal/task/package_task_factory.go): the files a   *)
(* package owns become relationships, and packages without a name or a     *)
(* version are kept, dropped or stubbed.  A stub changes the fingerprint   *)
(* of the package, so the relationships that mention it must follow.       *)
(***************************************************************************)
EXTENDS Integers, Sequences, SequencesExt

CONSTANTS
    Key,      \* what a fingerprint digests besides the name and the version
    File,     \* coordinates of files
    Source,   \* the ID of the source
    Foreign,  \* the sources of other SBOMs, whose relationships a cataloger read
    RelType, ContainsType,
    Owned(_)  \* the coordinates a package's metadata claims and that exist

\* "given" is any proper value, "stub" the placeholder UNKNOWN.
Field == {"given", "missing", "stub"}
Package == [key : Key, name : Field, version : Field]

ComplianceAction == {"keep", "drop", "stub"}
ComplianceConfig == [name : ComplianceAction, version : ComplianceAction]

\* SetID: the fingerprint digests the fields.
ID(p) == <<p.key, p.name, p.version>>

Sources == {Source} \cup Foreign
Node == {ID(p) : p \in Package} \cup File \cup Sources

\* A relationship is from or to a pkg.Package, file.Coordinates or a source.
ASSUME NodesAssumption ==
    /\ Source \notin Foreign
    /\ {ID(p) : p \in Package} \cap File = {}
    /\ Sources \cap ({ID(p) : p \in Package} \cup File) = {}
Edge == [type : RelType, from : Node, to : Node]

\* The set of relationships that relationship.Index implements.
Index == INSTANCE RelationshipGraph WITH edges <- {}

-------------------------------------------------------------------------------

\* finalizePkgCatalogerResults, packageFileOwnershipRelationships: with file
\* ownership on, a package contains each file it owns.
owningRelationships(p) ==
    {[type |-> ContainsType, from |-> ID(p), to |-> f] : f \in Owned(p)}

finalizeResults(pkgs, rels, fileOwnership) ==
    rels \cup (IF fileOwnership THEN UNION {owningRelationships(p) : p \in ToSet(pkgs)}
               ELSE {})

drops(cfg, p) ==
    \/ p.name = "missing" /\ cfg.name = "drop"
    \/ p.version = "missing" /\ cfg.version = "drop"

\* The package after its rules: a stubbed field is filled even when the other
\* field has the package dropped.
stubbed(cfg, p) ==
    LET fill(field, action) == IF field = "missing" /\ action = "stub" THEN "stub" ELSE field
    IN [p EXCEPT !.name = fill(@, cfg.name), !.version = fill(@, cfg.version)]

\* filterNonCompliantPackages: the loop over the packages.
remaining(cfg, pkgs) ==
    LET keep(kept, p) == IF drops(cfg, p) THEN kept ELSE Append(kept, stubbed(cfg, p))
    IN FoldLeft(keep, <<>>, pkgs)

\* Mutation: the relationships of a stubbed package keep its old fingerprint.
MutRelationshipsNoReplace(cfg, pkgs, rels) ==
    {e \in rels : \A p \in ToSet(pkgs) : drops(cfg, p) => ID(p) \notin {e.from, e.to}}

\* applyCompliance: what is dropped is removed from the index under the
\* fingerprint it has after its rules; then every package whose fingerprint
\* changed is replaced, the dropped ones included.
remainingRelationships(cfg, pkgs, rels) ==
    LET dropped == {ID(stubbed(cfg, p)) : p \in {q \in ToSet(pkgs) : drops(cfg, q)}}
        replace(E, p) == Index!Renamed(E, ID(p), ID(stubbed(cfg, p)))
    IN FoldLeft(replace,
                {e \in rels : {e.from, e.to} \cap dropped = {}},
                pkgs)
===============================================================================
