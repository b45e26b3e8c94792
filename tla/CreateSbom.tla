------------------------------ MODULE CreateSbom ------------------------------
(***************************************************************************)
(* CreateSBOM (syft/create_sbom.go): groups of tasks write to one SBOM     *)
(* through a builder that locks it for each call.  The groups run one      *)
(* after the other, the tasks of a group concurrently on Workers workers.  *)
(*                                                                         *)
(* An action is what a task does between two points where it holds no lock *)
(* on the SBOM: a call of the builder, or work on data of its own.         *)
(***************************************************************************)
EXTENDS SbomAnalysis

CONSTANTS
    PkgTasks,      \* the package catalogers selected
    FileTasks,     \* the file catalogers selected, named for what they write
    Results(_),    \* what a package cataloger may find: [pkgs, rels, unknowns, fatal]
    Candidates,    \* file task -> the files it looks at when none are given to it
    Archives,      \* the files that IdentifyArchive recognises
    ESM,           \* keys of Debian packages with an ESM version
    Unreadable,    \* the files a file task may fail to read
    Workers,       \* parallelism of the executor
    Configs        \* configurations, see CreateSBOMConfig below

Artifacts == {"digests", "metadata", "contents", "executables"}

\* What a configuration turns on.
Flag == {"Hashers", "Globs", "DeepSquashed",
         "PackageFileOwnership", "PackageFileOwnershipOverlap", "ExcludeBinaries",
         "RemoveWhenPackagesDefined", "IncludeExecutablesWithoutPackages",
         "IncludeUnexpandedArchives"}

\* The last two are properties of the source: the ID of its release, and what those of its
\* files that could be read say of extended support (EUS manifests; ESM sources and services).
CreateSBOMConfig ==
    [Selection : {"none", "owned", "all"}, flags : SUBSET Flag, Compliance : ComplianceConfig,
     Distribution : {"none", "rhel", "ubuntu", "other"}, Evidence : SUBSET {"EUS", "ESM"}]

\* packageFileOwnershipRelationships asks the resolver for the claimed paths.
ASSUME OwnedAssumption ==
    \A p \in Package : Owned(p) = UNION {Resolve[f] : f \in OwnedFiles(p)}

ASSUME ConfigsAssumption == Configs \subseteq CreateSBOMConfig

ASSUME WorkersAssumption == Workers \in Nat \ {0}

Others == {"environment", "scope", "relationships", "unknowns", "features"}

ASSUME TasksAssumption ==
    /\ FileTasks \subseteq Artifacts /\ PkgTasks \cup FileTasks # {}
    /\ PkgTasks \cap (Artifacts \cup Others) = {}

\* A cataloger returns packages and relates them to each other, to files and, if it
\* read them from another SBOM, to the source of that.
ASSUME ResultsAssumption ==
    \A t \in PkgTasks : \A r \in Results(t) :
        LET ends == IDs(ToSet(r.pkgs)) \cup File \cup Foreign
        IN /\ r.pkgs \in Seq(Package)
           /\ r.rels \subseteq [type : RelType, from : ends, to : ends]

\* What compliance leaves of a result relates packages that it leaves, to each other and
\* to what is no package.  (It does unless it stubs a field of a package that it drops for the other.)
ASSUME CompliedAssumption ==
    \A c \in Configs : \A t \in PkgTasks : \A r \in Results(t) :
        LET left == ToSet(remaining(c.Compliance, r.pkgs))
            all == finalizeResults(r.pkgs, r.rels, "PackageFileOwnership" \in c.flags)
        IN /\ left \subseteq Package
           /\ \A e \in remainingRelationships(c.Compliance, r.pkgs, all) :
                  {e.from, e.to} \subseteq IDs(left) \cup File \cup Foreign

\* Locations, owned files and the libraries that executables import are files.
ASSUME FilesAssumption ==
    /\ \A k \in Key : Attr[k].locs \subseteq File /\ Attr[k].primary \subseteq File
    /\ \A p \in Package : Owned(p) \subseteq File
    /\ \A f \in File : \A lib \in Imports[f] : Glob[lib] \subseteq File

Task == PkgTasks \cup FileTasks \cup Others

VARIABLES
    cfg,
    group,     \* the group that runs
    pc,        \* where each task is
    local,     \* what each task holds between two calls of the builder
    sbom,      \* [packages, relationships, unknowns, files, distribution]
    failed,    \* tasks whose error was more than coordinates
    outcome

vars == <<cfg, group, pc, local, sbom, failed, outcome>>

\* Mutation: files are cataloged before the packages that own them.
MutTaskGroups(c) ==
    <<{"environment"}, FileTasks, PkgTasks>>
        \o (IF "DeepSquashed" \in c.flags THEN <<{"scope"}>> ELSE <<>>)
        \o <<{"relationships"}, {"unknowns"}, {"features"}>>

\* Mutation: unknowns are settled before packages are removed.
MutUnknownsEarly(c) ==
    <<{"environment"}, PkgTasks, FileTasks, {"unknowns"}>>
        \o (IF "DeepSquashed" \in c.flags THEN <<{"scope"}>> ELSE <<>>)
        \o <<{"relationships"}, {"features"}>>

\* makeTaskGroups: files owned by packages are known once the packages are.
taskGroups(c) ==
    <<{"environment"}>>
        \o (IF c.Selection = "owned" THEN <<PkgTasks, FileTasks>>
            ELSE <<PkgTasks \cup FileTasks>>)
        \o (IF "DeepSquashed" \in c.flags THEN <<{"scope"}>> ELSE <<>>)
        \o <<{"relationships"}, {"unknowns"}, {"features"}>>

\* validate
Valid(c) == "ExcludeBinaries" \in c.flags => "PackageFileOwnershipOverlap" \in c.flags

\* IdentifyRelease: no release counts as one without support.
Release(id) == [ID |-> id, ExtendedSupport |-> FALSE]

NoSbom == [packages |-> {}, relationships |-> EmptyBag, unknowns |-> {},
           files |-> [a \in Artifacts |-> {}], distribution |-> Release("none")]

Blank == [packages |-> {}, ids |-> {}, rels |-> {}, files |-> {},
          unknowns |-> {}, fatal |-> FALSE]

Init ==
    /\ cfg \in Configs
    /\ group = 1
    /\ pc = [t \in Task |-> "idle"]
    /\ local = [t \in Task |-> Blank]
    /\ sbom = NoSbom
    /\ failed = {}
    /\ outcome = IF Valid(cfg) THEN "running" ELSE "error"

-------------------------------------------------------------------------------
(* The loop of CreateSBOM, with sync.Collect over the tasks of a group.       *)

Running == {t \in Task : pc[t] \notin {"idle", "done"}}

firstStep(t) == CASE t \in PkgTasks -> "catalog"
                  [] t \in FileTasks -> "select"
                  [] t \in {"scope", "relationships"} -> "read"
                  [] OTHER -> "write"

\* Mutation: a task that failed keeps its worker.
MutStart(t) ==
    /\ outcome = "running"
    /\ t \in taskGroups(cfg)[group]
    /\ pc[t] = "idle"
    /\ Cardinality(Running \cup failed) < Workers
    /\ pc' = [pc EXCEPT ![t] = firstStep(t)]
    /\ UNCHANGED <<cfg, group, local, sbom, failed, outcome>>

Start(t) ==
    /\ outcome = "running"
    /\ t \in taskGroups(cfg)[group]
    /\ pc[t] = "idle"
    /\ Cardinality(Running) < Workers
    /\ pc' = [pc EXCEPT ![t] = firstStep(t)]
    /\ UNCHANGED <<cfg, group, local, sbom, failed, outcome>>

GroupDone == \A t \in taskGroups(cfg)[group] : pc[t] = "done"

\* Every task of the group has run; an error of any ends the run without an SBOM.
EndGroup ==
    /\ outcome = "running" /\ GroupDone
    /\ IF failed # {} THEN outcome' = "error" /\ UNCHANGED group
       ELSE IF group = Len(taskGroups(cfg)) THEN outcome' = "ok" /\ UNCHANGED group
       ELSE group' = group + 1 /\ UNCHANGED outcome
    /\ UNCHANGED <<cfg, pc, local, sbom, failed>>

\* A step of a task: work on its own data, or a call of the builder.
Work(t, from, to, l) ==
    /\ pc[t] = from
    /\ pc' = [pc EXCEPT ![t] = to]
    /\ local' = [local EXCEPT ![t] = l]
    /\ UNCHANGED <<cfg, group, sbom, failed, outcome>>

Write(t, from, to, s) ==
    /\ pc[t] = from
    /\ pc' = [pc EXCEPT ![t] = to]
    /\ sbom' = s
    /\ UNCHANGED <<cfg, group, local, failed, outcome>>

\* runTaskSafely: the code of a cataloger may panic.
Panic(t) ==
    /\ t \in PkgTasks \cup FileTasks
    /\ Work(t, "catalog", "report", [Blank EXCEPT !.fatal = TRUE])

\* Mutation: what a task could not read is reported by its error alone.
MutReport(t) ==
    /\ pc[t] = "report"
    /\ pc' = [pc EXCEPT ![t] = "done"]
    /\ sbom' = sbom
    /\ failed' = IF local[t].fatal \/ local[t].unknowns # {} THEN failed \cup {t} ELSE failed
    /\ UNCHANGED <<cfg, group, local, outcome>>

\* RunTask: coordinate errors become unknowns, any other error is returned.
Report(t) ==
    /\ pc[t] = "report"
    /\ pc' = [pc EXCEPT ![t] = "done"]
    /\ sbom' = [sbom EXCEPT !.unknowns = @ \cup (local[t].unknowns \X {t})]
    /\ failed' = IF local[t].fatal THEN failed \cup {t} ELSE failed
    /\ UNCHANGED <<cfg, group, local, outcome>>

-------------------------------------------------------------------------------
(* Builder: each of these holds the lock of the SBOM.                         *)

withPackages(P) == [sbom EXCEPT !.packages = @ \cup P]
withRelationships(E) == [sbom EXCEPT !.relationships = @ (+) SetToBag(E)]

\* Mutation: the packages go, their relationships stay.
MutWithoutPackages(ids) == [sbom EXCEPT !.packages = {p \in @ : ID(p) \notin ids}]

withoutPackages(ids) ==
    [sbom EXCEPT !.packages = {p \in @ : ID(p) \notin ids},
                 !.relationships = RemoveRelationshipsByID(@, ids)]

-------------------------------------------------------------------------------
(* Tasks.                                                                     *)

Environment ==
    Write("environment", "write", "report", [sbom EXCEPT !.distribution = Release(cfg.Distribution)])

\* NewPackageTask.  An error keeps what was found.
Catalog(t) ==
    /\ t \in PkgTasks
    /\ \E r \in Results(t) :
        LET all == finalizeResults(r.pkgs, r.rels, "PackageFileOwnership" \in cfg.flags)
        IN Work(t, "catalog", "packages",
                [Blank EXCEPT !.packages = ToSet(remaining(cfg.Compliance, r.pkgs)),
                              !.rels = remainingRelationships(cfg.Compliance, r.pkgs, all),
                              !.unknowns = r.unknowns, !.fatal = r.fatal])

AddPackages(t) == Write(t, "packages", "relationships", withPackages(local[t].packages))

AddRelationships(t) ==
    t \in PkgTasks /\ Write(t, "relationships", "report", withRelationships(local[t].rels))

\* coordinatesForSelection with FilesOwnedByPackageSelection.
ownedCoordinates ==
    (UNION {Locations(p) : p \in sbom.packages})
        \cup {e.to : e \in {f \in BagToSet(sbom.relationships) :
                                /\ f.type = ContainsType
                                /\ f.from \notin File \cup Sources /\ f.to \in File}}

Skips(t) == IF t = "contents" THEN "Globs" \notin cfg.flags
            ELSE cfg.Selection = "none" \/ (t = "digests" /\ "Hashers" \notin cfg.flags)

\* Only digests and metadata are told which files; none to tell is nothing to do.
Select(t) ==
    /\ t \in FileTasks
    /\ LET owned == t \in {"digests", "metadata"} /\ cfg.Selection = "owned"
           files == IF owned THEN ownedCoordinates ELSE Candidates[t]
       IN IF Skips(t) \/ (owned /\ files = {})
          THEN Work(t, "select", "report", Blank)
          ELSE Work(t, "select", "catalog", [Blank EXCEPT !.files = files])

\* A file that cannot be read is reported, the others are kept.
CatalogFiles(t) ==
    /\ t \in FileTasks
    /\ \E bad \in SUBSET (local[t].files \cap Unreadable) :
        Work(t, "catalog", "write", [Blank EXCEPT !.files = local[t].files \ bad,
                                                  !.unknowns = bad])

WriteFiles(t) ==
    t \in FileTasks /\ Write(t, "write", "report", [sbom EXCEPT !.files[t] = local[t].files])

\* NewDeepSquashedScopeCleanupTask
ReadScope ==
    \E order \in SetToSeqs(sbom.packages) :
        Work("scope", "read", "delete", [Blank EXCEPT !.ids = scopeRemovals(order)])

DeleteScope == Write("scope", "delete", "report", withoutPackages(local["scope"].ids))

-------------------------------------------------------------------------------
(* finalizeRelationships, a step per call of the builder.                     *)

R == "relationships"

ReadElf == Work(R, "read", "delete", [Blank EXCEPT !.ids = PackagesToRemove(sbom.packages)])
DeleteElf == Write(R, "delete", "overlap", withoutPackages(local[R].ids))

ReadOverlap ==
    Work(R, "overlap", "add overlap",
         IF "PackageFileOwnershipOverlap" \in cfg.flags
         THEN [Blank EXCEPT !.rels = byFileOwnershipOverlap(sbom.packages)] ELSE Blank)
AddOverlap == Write(R, "add overlap", "exclude", withRelationships(local[R].rels))

\* ExcludeBinariesByFileOwnershipOverlap walks the slice as it was, the overlap edges in
\* the order of a map.  A turn of the loop is a step: no other task runs beside this one.
ExcludeTurn ==
    /\ pc[R] = "exclude" /\ "ExcludeBinaries" \in cfg.flags
    /\ \E e \in local[R].rels :
        /\ sbom' = excludeStep(sbom, e)
        /\ local' = [local EXCEPT ![R] = [Blank EXCEPT !.rels = local[R].rels \ {e}]]
    /\ UNCHANGED <<cfg, group, pc, failed, outcome>>

EndExclude ==
    /\ "ExcludeBinaries" \in cfg.flags => local[R].rels = {}
    /\ Write(R, "exclude", "dependencies", sbom)

ReadDependencies ==
    Work(R, "dependencies", "write dependencies",
         [Blank EXCEPT !.rels = NewDependencyRelationships(
             sbom.packages, sbom.files["executables"], sbom.relationships)])

\* The same relationships go in through the accessor and through the builder.
WriteDependencies ==
    Write(R, "write dependencies", "add dependencies", withRelationships(local[R].rels))
AddDependencies == Write(R, "add dependencies", "source", withRelationships(local[R].rels))

ReadSource == Work(R, "source", "add source", [Blank EXCEPT !.rels = ToSource(sbom.packages)])
AddSource == Write(R, "add source", "evidence", withRelationships(local[R].rels))

\* Mutation: the evidence is appended to the relationships of the source.
MutReadEvidence ==
    Work(R, "evidence", "add evidence",
         [Blank EXCEPT !.rels = local[R].rels \cup EvidentBy(sbom.packages)])

ReadEvidence ==
    Work(R, "evidence", "add evidence", [Blank EXCEPT !.rels = EvidentBy(sbom.packages)])
AddEvidence == Write(R, "add evidence", "report", withRelationships(local[R].rels))

FinalizeRelationships ==
    \/ ReadElf \/ DeleteElf
    \/ ReadOverlap \/ AddOverlap \/ ExcludeTurn \/ EndExclude
    \/ ReadDependencies \/ WriteDependencies \/ AddDependencies
    \/ ReadSource \/ AddSource
    \/ ReadEvidence \/ AddEvidence

LabelUnknowns == Write("unknowns", "write", "report", finalizeUnknowns(sbom, cfg.flags, Archives))

findRhelFeatures(release) == release.ID = "rhel" /\ "EUS" \in cfg.Evidence

\* An installed package speaks for itself where no file does.
findUbuntuFeatures(release, P) ==
    release.ID = "ubuntu" /\ ("ESM" \in cfg.Evidence \/ \E p \in P : p.key \in ESM)

DetectFeatures ==
    Write("features", "write", "report",
          IF \/ findRhelFeatures(sbom.distribution)
             \/ findUbuntuFeatures(sbom.distribution, sbom.packages)
          THEN [sbom EXCEPT !.distribution.ExtendedSupport = TRUE] ELSE sbom)

-------------------------------------------------------------------------------
Next ==
    \/ \E t \in Task : Start(t)
    \/ EndGroup
    \/ \E t \in Task : Report(t) \/ Panic(t)
    \/ \E t \in PkgTasks : Catalog(t) \/ AddPackages(t) \/ AddRelationships(t)
    \/ \E t \in FileTasks : Select(t) \/ CatalogFiles(t) \/ WriteFiles(t)
    \/ Environment \/ LabelUnknowns \/ DetectFeatures
    \/ ReadScope \/ DeleteScope
    \/ FinalizeRelationships

\* A task that runs goes on, and the loop goes on: catalogers return.
Spec == Init /\ [][Next]_vars /\ WF_vars(Next)

-------------------------------------------------------------------------------
(* Properties.                                                                *)

groupOf(t) == CHOOSE g \in DOMAIN taskGroups(cfg) : t \in taskGroups(cfg)[g]
Scheduled == UNION {taskGroups(cfg)[g] : g \in DOMAIN taskGroups(cfg)}

\* Type invariant.
TypeOK ==
    /\ cfg \in Configs
    /\ group \in DOMAIN taskGroups(cfg)
    /\ sbom.packages \subseteq Package
    /\ BagToSet(sbom.relationships) \subseteq
            [type : RelType, from : Node, to : Node]
    /\ \A e \in DOMAIN sbom.relationships : sbom.relationships[e] \in Nat \ {0}
    /\ \A u \in sbom.unknowns : u[1] \in File
    /\ \A a \in Artifacts : sbom.files[a] \subseteq File
    /\ sbom.distribution \in [ID : {"none", "rhel", "ubuntu", "other"}, ExtendedSupport : BOOLEAN]
    /\ failed \subseteq Scheduled
    /\ outcome \in {"running", "ok", "error"}

\* Whoever reads the SBOM, at any moment, finds both ends of every relationship in
\* it: packages are written before their relationships, deleted with them, and
\* what a task adds it computed from packages nobody removed since.
ReferentialIntegrity ==
    \A e \in BagToSet(sbom.relationships) :
        {e.from, e.to} \subseteq IDs(sbom.packages) \cup File \cup Sources

\* A task runs only after every task of the groups before it, none of which failed.
GroupsInOrder ==
    \A t \in Scheduled : pc[t] # "idle" =>
        \A u \in Scheduled : groupOf(u) < groupOf(t) => pc[u] = "done" /\ u \notin failed

\* Files that could not be read never fail a run, anything else always does.
OutcomeJustified ==
    /\ outcome = "ok" => \A t \in Scheduled : pc[t] = "done" /\ ~local[t].fatal
    /\ outcome = "error" => ~Valid(cfg) \/ \E t \in Scheduled : local[t].fatal

Succeeded == outcome = "ok"

\* With files selected by package, each file a package of the result lies in or
\* owns has been digested and described, unless it was reported as unreadable:
\* no package was written after the selection was made.
OwnedFilesCataloged ==
    Succeeded /\ cfg.Selection = "owned" =>
        \A t \in {u \in FileTasks \cap {"digests", "metadata"} : ~Skips(u)} :
            \A p \in sbom.packages :
                Locations(p) \cup (IF "PackageFileOwnership" \in cfg.flags THEN Owned(p) ELSE {})
                    \subseteq sbom.files[t] \cup local[t].unknowns

\* What was found and not understood is in the result: a file reported as unknown
\* still is unless a package of the result refers to it, and an executable no
\* package of the result refers to is unknown.
UnknownsAccounted ==
    Succeeded =>
        /\ \A t \in Scheduled : \A f \in local[t].unknowns :
            \/ <<f, t>> \in sbom.unknowns
            \/ "RemoveWhenPackagesDefined" \in cfg.flags /\ f \in referenced(sbom)
        /\ "IncludeExecutablesWithoutPackages" \in cfg.flags =>
                sbom.files["executables"] \subseteq
                    referenced(sbom) \cup {u[1] : u \in sbom.unknowns}

\* With exclusion on, no binary package is left at a path that an OS package of the
\* result claims to own, whichever tasks found them and in whichever order.
NoBinaryOwnedByOS ==
    Succeeded /\ "ExcludeBinaries" \in cfg.flags =>
        \A p, q \in sbom.packages :
            Type(p) = "os" /\ Type(q) = "binary" => OwnedFiles(p) \cap Paths(q) \subseteq Forbidden

\* Every package of the result is contained in the source and evident by each of its
\* locations, and nothing else is; once, except for what a cataloger reported too.
FinalRelationshipsExact ==
    Succeeded =>
        LET P == sbom.packages
            due == ToSource(P) \cup EvidentBy(P)
            reported == UNION {local[t].rels : t \in PkgTasks}
            found == {e \in BagToSet(sbom.relationships) :
                         e.from = Source \/ e.type = EvidentByType}
        IN /\ due \subseteq found /\ found \subseteq due \cup reported
           /\ \A e \in due \ reported : sbom.relationships[e] = 1

\* The result has extended support just where the files of a RHEL source say so, or where
\* those of an Ubuntu source do or a package of the result: one that was removed on the way
\* does not count, and nothing counts for another distribution.
SupportJustified ==
    Succeeded =>
        /\ sbom.distribution.ID = cfg.Distribution
        /\ sbom.distribution.ExtendedSupport <=>
               \/ cfg.Distribution = "rhel" /\ "EUS" \in cfg.Evidence
               \/ /\ cfg.Distribution = "ubuntu"
                  /\ "ESM" \in cfg.Evidence \/ \E p \in sbom.packages : p.key \in ESM

\* Every run ends, panics and failures included.
Termination == <>(outcome # "running")

\* "each relationship must be unique" (internal/relationship/binary/binary_dependencies.go:18)
DependenciesUnique ==
    Succeeded =>
        \A e \in BagToSet(sbom.relationships) :
            e.type = DependencyType => sbom.relationships[e] = 1
===============================================================================
