# A verification development for syft

syft turns a source (an image, a directory, a file, a snap) into an SBOM: the
packages found in it, the relationships between packages, files and the source, and
what it found but could not understand. Most parsers of package formats are simple to
test one by one. What is hard lies around and above them: dozens of catalogers write to
one SBOM concurrently, later tasks prune and extend what earlier ones wrote, hand-made
indexes have to agree through every addition, merge and removal; links, layers and
relative paths lead back to where they came from; some ecosystems resolve what they
report through several files; an SBOM is encoded, decoded and converted; and the
buffers, caches and directories that all this works in are shared and may fail at any
point. These modules model that part, check it with TLC, and prove part of it with
TLAPS.

## 1. The system

| component | code | state it keeps | operations | where modelled |
|---|---|---|---|---|
| Package collection | `syft/pkg/collection.go` | packages by ID; ordered ID sets by name, type and path | Add (with merge), Delete, queries, Enumerate | `Collection`, `BuilderLocks` |
| Relationship index | `internal/relationship/index.go` | all relationships; per node those from and to it | Add, Remove, Replace, From, To, References, Contains | `RelationshipIndex` over `RelationshipGraph` |
| Package cataloging task | `internal/task/package_task_factory.go`, `syft/cataloging/compliance.go` | one cataloger's results | finalize, compliance rules, write packages, write relationships | `Compliance`, `CreateSbom` |
| CreateSBOM driver | `syft/create_sbom.go`, `syft/create_sbom_config.go` | task groups, outcome | makeTaskGroups, the loop over groups, validate | `CreateSbom` |
| Cataloger selection | `internal/task/selection.go`, `expression.go`, `set.go` | the request of a configuration | replace "default", split over groups, validate, evaluate | `CatalogerSelection` |
| SBOM builder | `internal/sbomsync/builder.go` | the SBOM and its lock | add or delete packages, add relationships, set the distribution, read or write under the lock | `CreateSbom` (what), `BuilderLocks` (locking) |
| Task execution | `internal/task/executor.go`, `task.go` | none | run, recover from a panic, turn coordinate errors into unknowns | `CreateSbom` |
| File tasks | `internal/task/file_tasks.go` | none | choose files (owned or all), catalog, write | `CreateSbom` |
| Relationships task | `internal/task/relationship_tasks.go`, `internal/relationship/` | none | remove ELF duplicates, ownership overlap, exclusion, dependencies, source, evidence | `SbomAnalysis`, `CreateSbom` |
| Scope cleanup | `internal/task/scope_tasks.go` | none | remove hidden and duplicate packages | `SbomAnalysis`, `CreateSbom` |
| Unknowns labeler | `internal/task/unknowns_tasks.go` | none | settle unknowns against packages | `SbomAnalysis`, `CreateSbom` |
| Environment, OS features | `internal/task/environment_tasks.go`, `internal/os` | none | set and extend the distribution | `CreateSbom` |
| Unknown errors | `internal/unknown` | trees of errors | New, Append, Join, ExtractCoordinateErrors | `UnknownErrors` |
| Generic cataloger | `syft/pkg/cataloger/generic/cataloger.go` | what its parsers returned so far | find files, parse concurrently, collect, process | `GenericCataloger` |
| Dependency resolver | `syft/pkg/cataloger/internal/dependency` and the `dependency.go` of seven ecosystems | none | what a package provides and requires, Resolve | `DependencyResolver`, `PackageProcessors` |
| Package catalogers | `syft/pkg/cataloger/*` | none | processors over all packages of a cataloger: Perl, models, Go's standard library, Python environments, rpm | `PackageProcessors` |
| .NET packages | `syft/pkg/cataloger/dotnet` | none | documents and executables matched, skipped and merged; runtimes | `DotnetPackages` |
| Maven poms | `syft/pkg/cataloger/java/internal/maven`, `parse_pom_xml.go` | poms found so far, by ID; those being looked for | FindPom, resolve properties, parents, versions, licenses; catalog with dependencies | `MavenPoms` |
| Java archives | `syft/pkg/cataloger/java/archive_parser.go` and the wrapped archives | the main package while poms are read | parse, discover packages, nested archives | `JavaArchives` |
| File resolvers | `syft/internal/fileresolver` | the tree of a directory, the layers of an image | index a directory; files by path and glob in three views of an image | `DirectoryIndexer`; `ImageResolvers` |
| Formats | `syft/format` | none | encode and decode SPDX, CycloneDX, syft-json | `Formats` |
| Convert command | `cmd/syft/internal/commands/convert.go`, `options/writer.go` | open outputs | resolve, open, copy, decode, write | `Convert` |
| Content cache | `internal/cache` | a file for each key, with its time stamp | Resolve, Read, Write, with cached errors or without | `ContentCache` |
| Temporary directory | `internal/tmpdir/tmpdir.go` | root, two `sync.Once`, a flag | Root, FromPath, NewFile, NewChild, Cleanup | `TmpDir` |
| Spill buffer | `internal/spillbuf/buffer.go` | a memory tier, a file, the ranges written | WriteAt, ReadAt, Size, FirstGap, Close | `SpillBuf` over `SparseBuffer` |
| Licenses | `syft/pkg/license.go`, `license_set.go`, `internal/spdxlicense`, `internal/licenses` | a set of licenses by identity | build from values, texts and URLs; merge; content rules | `Licenses` |
| CPEs | `syft/pkg/cataloger/internal/cpegenerate` | none | look up, or generate from vendors and products | `CpeCandidates` |
| File catalogers, sources | `syft/file/cataloger`, `syft/source` | | | not modelled (section 8) |

They interact as follows. `CreateSBOM` selects the tasks, groups them, and runs one
group after the other: environment; package catalogers, then or together with the file
catalogers; cleanup of a deep-squashed scope; relationships; unknowns; OS features. The
tasks of a group run concurrently on an executor. They share nothing but the SBOM, which
they reach by calls of the builder that hold its lock one at a time, so what a task read
in one call may be out of date in its next. The package collection has a lock of its own
under that of the builder, and hands packages out from a goroutine over a channel.
Within a task the relationship index serves the compliance rules and the collection of
library dependencies.

A package cataloger asks a file resolver for files (a directory's index, or a view of an
image), parses them on a pool of its own, collects what the parsers return, and hands it
to its processors, which merge packages and call the dependency resolver. Errors travel
up as trees with coordinates in them, which the executor turns into unknowns. The
catalogers of .NET, poms and archives keep state of their own between files; the
resolvers of remote metadata under them go through the content cache, which processes
share. Catalogers that unpack archives use the temporary directory and the spill buffer,
from several goroutines, until `CreateSBOM` cleans up. The result is encoded in one
format or several; "syft convert" decodes one and encodes others.

The behaviours that are hard, and what makes each component correct:

* **Collection.** An identifier may be added twice with other locations, deleted with
  several others in one call, or be missing altogether. Its secondary indexes are slices
  that grow a hash set past a threshold. Slices and sets must agree, each index must list
  exactly the packages that carry the key, and the order must not jump.
* **Relationship index.** Every relationship is held three times, and a Replace that meets
  itself (self-edges, edges that coincide) adds while it removes. Slices are returned,
  sorted and appended to in place. The three must agree and queries must be complete.
* **Cataloging task.** Compliance rules may stub a name or a version, which changes the
  identifier, or drop the package: relationships must follow.
* **Driver, builder and tasks.** Readers between two writes, failures and panics next to
  tasks that go on, removals after relationships were written, decisions made on data that
  changes later. At every moment each relationship needs both ends; what a successful run
  returns must be complete and computed from the packages it returns; a run must end.
* **Exclusion and cleanup.** Both depend on the order of Go maps. What they remove must
  still be spoken for by something that stays.
* **Selection.** One request is split over two groups that must not influence each other,
  and its slices are shared with the configuration.
* **Locks.** An enumeration holds one lock and takes it again; writers wait in between.
  A batch is added package by package; nobody may see half of it.
* **Generic cataloger and processors.** Parsers end in any order, fail or panic. What is
  returned must not depend on that order, a relationship must end at packages that are
  returned, and every failure must name its file.
* **.NET.** Dependencies lead over skipped libraries through graphs with cycles; an
  executable is evidence of a library, part of a runtime, or a package, once.
* **Maven.** Versions, groups and licenses come from a pom, its parents and its imports,
  found in three ways while identities are still being resolved; the result must be the
  declared one and every dependency related, cycles included.
* **Java archives.** The main package changes while copies of it are already ends of
  relationships; archives inside archives may fail.
* **Licenses and CPEs.** A license is told by metadata, files and texts in many spellings, and
  is one license with all its evidence. Candidates for a vendor or product are varied, cut
  up, added to and removed from in turn; what may not be cut must stay whole.
* **Directory index.** Links add roots while roots are walked, and lead to each other, back
  or nowhere: the scan must end, everything reachable be indexed once, and look-ups through
  links lead where the disk does.
* **Image views.** A file counts as visible, hidden or not there by layers and links that
  later layers change; the views must agree about it.
* **Formats.** Each encoder makes identifiers of IDs and each decoder IDs of identifiers:
  through several formats packages must stay apart, references resolve, and everything a
  format can express come back.
* **Convert.** Files are emptied before the input is decoded. Every output that is
  reported must hold the document.
* **Content cache.** Entries are written in place without a lock by processes that may die.
  What is served must have been resolved, for that type.
* **Temporary directory.** Cleanup races creation; nothing may come back or be left.
* **Spill buffer.** Writes overlap, cross from memory to file, and fail half way.

`PROJECT.json` lists every component, those that are not modelled too (section 8), and
the hazards of this code at their lines, each with the properties that cover it.

## 2. Modules

| module | models | notes |
|---|---|---|
| `Collection` | the package collection, sequentially | packages are records of what the collection looks at: fingerprint, the fingerprint `SetID` would compute (or none, if hashing fails), name, type, locations |
| `RelationshipGraph` | the promise of the index: a set of edges, removal and renaming of nodes | abstract |
| `RelationshipIndex` | the index with its maps, slices and their capacities | implements `RelationshipGraph` |
| `RelationshipProofs` | | the inductive invariant of the index and the proof that it implements the graph; what relationships the catalogers of `GenericCataloger` return |
| `StructuresProofs` | | proofs about `Collection`, `SpillBuf` and `Formats`: what packages and contents are kept in, in memory, in a file and as documents |
| `Induction` | | lemmas about the positions of a sequence and about folds, which the other modules of proofs share |
| `Compliance` | finalization of one cataloger's results and the compliance rules | pure operators; uses the graph for Replace and Remove |
| `SbomAnalysis` | what the later tasks compute from an SBOM | pure operators; extends `Compliance` |
| `CreateSbom` | whole runs: driver, builder, every task | extends `SbomAnalysis`; composes all of the above |
| `TaskProofs` | | lemmas about what the tasks of a run compute: replacements, the cleanup of hidden packages, the exclusion of binary packages |
| `CreateSbomProofs` | | the invariant of every state of a run: order, outcome, integrity of the SBOM; then what the result of a successful run holds; extends `TaskProofs` |
| `ComponentProofs` | | proofs about the components that work for themselves: `TmpDir`, `Compliance` and `SbomAnalysis` (on top of `TaskProofs`), `DotnetPackages`, `CatalogerSelection`, `ImageResolvers`, `Convert` |
| `CatalogerSelection` | a configuration's request through one call or several | slices with their arrays |
| `BuilderLocks` | the two locks, enumerating goroutines and their channel | interleavings the sequential `Collection` leaves out; `guarded` says whether callers go through the builder; `sync.RWMutex` is external, from the documentation of Go: a waiting writer holds back new readers |
| `BuilderLocksProofs` | | the inductive invariants of `BuilderLocks` and their proofs |
| `UnknownErrors` | trees of errors | pure operators; what walks a tree is a recursive function on its parts |
| `DependencyResolver` | Resolve and the specifiers of each ecosystem | pure operators |
| `PackageProcessors` | the processors of catalogers | pure operators; extends the two before |
| `GenericCataloger` | one cataloger: parsers that run concurrently, then processors | extends `PackageProcessors` |
| `DotnetPackages` | the .NET cataloger | pure operators; a walk through a graph is a recursive function of its rounds |
| `MavenPoms` | the resolver of poms and the cataloger over it | operators return value, success and the resolver afterwards |
| `JavaArchives` | one archive, nested and wrapped ones | pure operators |
| `Licenses` | the licenses of one package | pure operators |
| `CpeCandidates` | the CPEs of one package | pure operators; text is a sequence of words and separators |
| `DirectoryIndexer` | the index of a directory and look-ups in it | what the operating system does with a path is external |
| `ImageResolvers` | the squashed, all-layers and deep-squashed views | trees of stereoscope are external |
| `Formats` | encoders and decoders of three formats | pure operators |
| `Convert` | the convert command and its writers | one action per file that is opened, copied or written |
| `ContentCache` | callers that read, resolve and rewrite entries | one action per step that another process may see |
| `ContentCacheProofs` | | the inductive invariant of `ContentCache` and its proof |
| `TmpDir` | the temporary directory, its two Onces and the file system | one action per step that another goroutine may see; `joined` says whether Cleanup waits for the tasks, as in CreateSBOM |
| `SparseBuffer` | the promise of the buffer: a partial function from offsets to bytes | abstract |
| `SpillBuf` | the buffer with tiers, ranges and failures | implements `SparseBuffer` |
| `MC...` | instances for TLC | model values, inputs, bounds. Where a component is a pure function the instance also drives it over all inputs and states the reference it is compared with: `MCCompliance`, `MCSbomAnalysis`, `MCImageResolvers`, `MCFormats`, `MCDotnet`, `MCCatalogers`. The inputs of the first five are constants with assumptions, so that what is checked for the inputs of a `.cfg` is proved for all |
| `MCStructures`, `MCSequential` | one run for the collection and the spill buffer, and one for all other components whose calls run one at a time | the variable `structure` or `part` picks one, the others stay idle |

How state and actions correspond to the code, where it is not plain from the names:

* In `CreateSbom`, `pc[t]` is where a task is between two calls of the builder and
  `local[t]` what it carries from one to the next; each action that touches `sbom` is one
  call of the builder, atomic because it holds the lock (`BuilderLocks` checks that it
  is). `Start` and `EndGroup` are the loop of `CreateSBOM` around `sync.Collect`. A
  cataloger is `Catalog(t)` with any result in `Results(t)`, which includes errors
  together with packages; `Panic(t)` is the recovered panic; `Report(t)` is the rest of
  `RunTask`. `FinalizeRelationships` has one step for each call of the builder in
  `finalizeRelationships`, in the order of the code; only the exclusion of binaries, one
  call of the accessor, has a step for each turn of its loop (`ExcludeTurn`), since no
  other task runs beside it.
* A configuration of `CreateSbom` also says what the source is: `Distribution` is the ID of
  its release, `Evidence` what those of its files that could be read tell of extended
  support. `DetectFeatures` looks for EUS manifests on RHEL only, and on Ubuntu only for
  ESM sources and services, then for a package with an ESM version.
* Relationships of an SBOM are a bag: a slice whose order matters nowhere except in
  the loop of `ExcludeTurn`, which takes every order.
* A package of the later modules is its key (everything its fingerprint digests besides
  name and version, looked up in `Attr`) with name and version "given", "missing" or
  "stubbed". `ID(p)` is that record: different content, different fingerprint.
* In `GenericCataloger` and its catalogers, too, an identifier is a function of the content;
  a package whose identifier was computed before its content changed carries the older one.
* In `ContentCache` a content is a sequence of pieces and an entry the pieces that reached
  the file; several callers may have it open, each at an offset of its own.
* In `Formats` an ID is a sequence: the marks of the formats it went through, then the
  fingerprint. Two identifiers are equal where the code's text would be.
* In `MavenPoms` an expression is a text, a reference to one property, or left out. In
  `JavaArchives` how a name fits the name of a file is a set of names.
* A slice whose aliasing matters is an array of cells and a length
  (`CatalogerSelection`), or a sequence with a capacity (`RelationshipIndex`).
* `Mut...` operators are plausible bugs. They are used by no specification; substituting
  one for the operator after it must make the property named in `PROJECT.json` fail.

## 3. Runs

Under each of these configurations TLC finds no error; bounds are in the `.cfg` files and
the `MC` modules.

| run | module | what is checked |
|---|---|---|
| structures | `MCStructures` | collection: `SetsWellFormed`, `IndexesAgree`, `OrderStable`; buffer: the refinement `SparseSpec` |
| relationship_index | `RelationshipIndex` | `QueriesExact`, the refinement `GraphSpec` |
| create_sbom | `MCCreateSbom` | `ReferentialIntegrity`, `OutcomeJustified`, `OwnedFilesCataloged`, `UnknownsAccounted`, `FinalRelationshipsExact`, `Termination` |
| builder_locks | `MCBuilderLocks` | `BatchesWhole`, `CallsReturn` through the builder; `EnumerationExact` with it and without it |
| tmpdir | `TmpDir` | `RemovedForGood`, `CallsReturn`; `NothingLeft` where Cleanup comes last |
| cache | `MCContentCache` | `ServedWasResolved`, `WholeOnceWritten` |
| cataloger | `MCGenericCataloger` | `OrderIndependent`, `EndsReturned`, `FailuresNamed` |
| directory_index | `MCDirectoryIndexer` | `IndexExact`, `LinksResolve`, `Terminates` |
| sequential | `MCSequential` | compliance: `RelationshipsFollow`; analysis: `RemovedSpokenFor`, `ExclusionExact`; selection: `SelectionExact`; images: `ScopesAgree`; formats: `RoundTripExact`; convert: `OutputsFaithful`; catalogers: `DependenciesJumpSkipped`, `ExecutablesSpokenFor`, `PomsInherit`, `DependenciesRelated`, `ArchivesRelated`, `LicensesMerged`, `CpesJustified` |

The runs unknowns_lost, links_abort and partial_results end in a violation (section 5).
Where a module has a `TypeOK`, the proofs or the same configuration establish it. Further
invariants hold in the same configurations and can be added to the `.cfg` files, but say
less than those that are listed: `QueriesComplete` (structures),
`ReplaceRenames` and `MapsAgree`, a part of `QueriesExact` (relationship_index), `GroupsInOrder`, `NoBinaryOwnedByOS` and
`SupportJustified` (create_sbom), `LateCallsFail` (tmpdir),
`OtherGroupLeftAlone` (sequential). `ScopesAgree`, `RoundTripExact`, `RemovedSpokenFor` and
`OutputsFaithful` are conjunctions of parts with names of their own.

What the results show, and why the bounds are enough:

* **structures**: of the collection, three fingerprints, six packages (duplicates that
  differ in locations, one with an overridden ID, one without an ID, one that cannot be
  hashed), two keys of each kind, deletions of up to two IDs in any order. The threshold is 1,
  so that sets cross it in both directions; the code's 16 would only make the same histories
  longer, and the proofs hold for every threshold.
  Of the spill buffer, six offsets of which two in memory, writes of up to three bytes, a
  failure to create or to write the file at any byte. A write can lie in either tier, cross,
  touch, overlap or bridge two ranges. One of the two moves in a behaviour.
* **relationship_index**: three nodes, self-edges included, up to three relationships at a
  time and every history of edits and queries. Three is what it takes for a node to have
  an edge that stays while another is renamed, and for append to find room.
* **create_sbom**: an image with an OS package that owns a program and a library, binary
  packages at those files, an application with an ELF note, and a package that upper
  layers hide; two package catalogers with two and three possible results and a panic, one of
  which relates a package to the source of another SBOM (`Foreign`, the SBOM cataloger);
  three file tasks; two workers; six configurations that switch each feature off at
  least once. Two workers give every pair of tasks; what three tasks do to one SBOM in
  atomic calls, two do as well.
* **builder_locks**: two writers with two packages each and three readers (one reading in a
  call that writes) through the builder; two writers and two readers without it.
* **tmpdir**: three tasks and two cleaners; with three tasks one makes the directory, one
  waits for it and one comes late.
* **cache**: four callers, one of which bypasses the cache, of two versions of the program
  that differ in the type of the value; one key; a time to live of 0, so that an entry may
  expire at any tick. Contents have two pieces, so that a caller may die between them and
  another write over either; the function of one type may fail, and that is cached. Callers
  may die, and writes fail, at every step. Two keys would be two files that have nothing in
  common.
* **cataloger**: nine catalogers with the processors they have in the code, two to four
  files each, two parsers at a time, every outcome of a parser (packages, packages and
  an error, an error that names files, a failure to open, a panic) and a panic in each
  processor. Inputs agree about what they say of one package; where they may not, the code
  promises no order (hazard at `cataloger.go:188`).
* **directory_index**: some twelve thousand file systems: two directories with files and
  up to three links that cross, lead up, back, to each other, to nothing, through a file or
  into a directory that cannot be read; with and without a base, exclusions and
  mounts. Three links make a cycle that is entered from outside by one more.
* **compliance** (`Configs`, `CompliancePackages`, `RelatedFiles`): two packages and two
  relationships over them, the source and a file, all nine configurations, names and versions
  missing in every combination.
* **analysis**: for the exclusion every subset of eleven packages (`ExclusionPackages`), for the
  cleanup of a deep-squashed scope every subset of five (`ScopePackages`), chosen to have one of each kind that the rules
  tell apart, and every order of the map.
* **selection**: two tasks in each group, one token of each kind, no token twice in a list.
  A list of removals of up to three tokens lies in an array with or without room for the
  tags that replace "default"; a second call is judged only where no array has room. A list
  may name "default" twice; only the first is replaced, and the property asks for one.
* **images** (`Images`, `PathLists`): every image of two layers over three paths and of three
  layers over two, with files, links and whiteouts, a path asked for and each non-empty choice
  of paths.
* **formats** (`Sboms`): two packages and a file, every choice of up to three out of seven
  relationships between them and the source, five kinds of source, and every sequence of up
  to three of the conversions. Relationships are converted one by one; three are enough for
  both directions of a dependency beside another relationship. With two
  packages an identifier may coincide with another's; with three conversions a mark can be added, stripped and added again.
* **convert**: up to three outputs to the input, another file, a path that cannot be created
  or the standard output, in three formats of which one has no encoder; the document read
  from a file or piped, in the format of an output or another. Three outputs are one that is
  written before and one after the one that matters.
* **catalogers**, .NET: every graph over three libraries under a root, each with an
  executable or not, one of them of another kind; two documents that share executables, one
  of them embedded; four configurations. The order in which the code ranges over the
  libraries is one, since every relabelling of the graph is an input. Maven: a child with a
  parent, a grandparent, an imported pom and a library of its own poms, versions literal, by
  property, by a property that refers to itself, or inherited; three repositories that lack
  nothing, the grandparent, or the import too; both orders of the files, with transitive
  dependencies and without. Java archives: every sequence of up to three poms out of twenty
  that fit the archive's name exactly, in part or not; archives nested three deep, without
  a manifest, with several, unreadable, or not to be extracted; wrapped or not. Licenses:
  every sequence of up to three out of twenty ways in which licenses are told, spelled and
  found, and each of these alone for every order of the table of URLs, with and without a
  scanner and for each rule about texts. CPEs: packages of each kind that the code
  distinguishes, with names and metadata over a small alphabet, and tables with one entry of
  each kind; at most six candidates, so that the bound is met.

Deadlock is not checked where the program really stops: runs of CreateSBOM end, every
caller of the locks, the cache and of the temporary directory calls once, a cataloger and a
scan end, and the pure operators are driven by behaviours of a few steps. The liveness
properties say that they do not stop too early.

## 4. Fairness

`CreateSbom` has `WF_vars(Next)`: some task that can make a step makes one. It rests on
catalogers that return (a parser that loops for ever is outside the model) and on
the executor, which starts what is queued when a worker is free. All behaviours are
finite, so no stronger fairness is needed. `DirectoryIndexer` has `WF_vars(Next)` too: a
scan is one goroutine that nothing holds up; that its work list empties is what
`Terminates` says. `BuilderLocks` and `TmpDir` have weak fairness
for each goroutine: a goroutine that can run is scheduled, system calls return, and a
mutex that is free is given to somebody who waits. An `RWMutex` lets an announced writer in
before later readers, as `sync.RWMutex` documents; that rule is what makes the nested
read lock of `Enumerate` a hazard. No other module has liveness properties.

## 5. Disagreements found

TLC refutes each of these, under the specification that follows the code. Three are runs of
the project:

* **`ParserErrorsPropagated`** (run `unknowns_lost`). A comment in the generic cataloger
  (`cataloger.go:262`) says of the errors of a parser that they "are propagated up, and are
  likely to be coordinate errors". `Catalog` takes them through `unknown.New`, which keeps
  the first coordinate error of those that are joined. The parser of the pacman database
  joins two when it can read neither the `mtree` nor the `files` of a package; the second
  is in no unknown.
* **`ScanSurvives`** (run `links_abort`). A link into a cycle of links, or below a file, makes
  the directory indexer return an error: the scan ends where the comment says that the
  path is skipped.
* **`BadOutputHarmless`** (run `partial_results`). Outputs are opened, and emptied, one after
  the other; when one cannot be created those before it are already empty.

The others can be repeated by adding the property to the configuration that is named:

* **`FromReturnsAll`** (`RelationshipIndex.cfg`). `Index.References` appends the incoming
  relationships to the slice of the outgoing ones and sorts the result. If that slice has
  spare capacity both happen in its array, and a later `From` misses relationships.
* **`DroppedLeaveNoRelationships`** (`MCSequential.cfg`). With a missing name and a
  missing version a package is first stubbed for its version and then dropped for its
  name. It is removed under its new identifier, its relationships are not found there,
  and stay in the SBOM under an identifier nothing carries. `ReferentialIntegrity` holds
  in `create_sbom` for inputs without such a package: `MCResults` gives names to all.
* **`DependenciesUnique`** (`MCCreateSbom.cfg`). The relationships of executables are
  written once through the accessor and once through the builder.
* **`EnumerationEnds`** (`MCBuilderLocks.cfg`). Without the builder's lock, a writer that
  arrives between the two read locks of an enumeration stops both for ever. CreateSBOM
  itself is safe (`builder_locks`).
* **`NothingLeftAfterCleanup`** (`TmpDir.cfg`). A first use after Cleanup makes the
  directory, then finds that it is too late, and nobody removes it.
* **`BorrowedDirectoryStays`** (`TmpDir.cfg`). Cleanup of a TempDir made by FromPath
  removes the directory, which the comment says it leaves to the caller.
* **`FailedWriteChangesNothing`** (`MCStructures.cfg`). A write that fails in the spill
  file may have overwritten bytes that were written before (`buffer.go:114`).
* **`DefaultsBySource`** (`MCSequential.cfg`). "default" is replaced in the array
  of the configuration if it has room; the next call with that configuration selects other
  tasks.
* **`BaseConfines`** (`MCDirectoryIndexer.cfg`). "no links will be followed above this
  directory" (`cmd/syft/internal/options/catalog.go:257`): what lies outside the base is
  indexed when a link leads there.
* **`PackagesSurvive`** (`MCGenericCataloger.cfg`). An unreadable `pyvenv.cfg` makes the
  processor of Python packages return an error without the packages
  (`syft/pkg/cataloger/python/dependency.go:220`).
* **`PathsCoverSquash`**, **`NoneTwice`** (`MCSequential.cfg`). By path, the all-layers view
  resolves a link in the layer of the link and misses the file of a later layer that the
  squashed image shows there (`container_image_all_layers.go:66-67`); by patterns, the
  deep squash can return one file both visible and hidden, under two of its paths
  (`container_image_deep_squash.go:169`).
* **`SyftJSONLossless`** (`MCSequential.cfg`). The relationship "described-by", which the SBOM
  cataloger makes (`syft/pkg/cataloger/sbom/cataloger.go:71`), is dropped by the decoder of
  syft-json, where `encode_decode_cycle_test.go:21-26` expects that nothing is.
* **`EvidencePropagates`**, **`RuntimesUnderRoots`** (`MCSequential.cfg`). The .NET cataloger
  looks for executables below a library before any is attached, so that the option never
  applies to evidence on disk; and a runtime that is made up from executables gets its
  identifier after the relationships to it were made.

* **`KnownWrongStayOut`** (`MCSequential.cfg`). A vendor that the table of removals excludes for a
  Python package (`generate_test.go:718`, where the package redis of Python is not that of the
  vendor redis) comes back for the package `py3-redis` of Alpine: the vendors are collected
  together with the products, from which it is not removed.

Other things that the modelling of the code brought up, which the models follow and no
property states:

* `findLibmanJSON` (`dotnet/libman_json.go`) defers the close of its reader before it looks at
  the error; a file that cannot be opened panics there and the cataloger's result is lost.
* `${project.groupId}` is undefined in a pom that inherits its group: `resolver.go:188`
  compares with "groupID". A property of an imported pom is not found past a missing parent,
  and the version that a pom further away gives is reported. Two poms of a scan with one ID
  are two packages, of which the second has the relationships of both.
* One member that cannot be extracted loses everything in a nested Java archive, and errors
  of nested archives are only logged. An archive without a main package breaks the chain of
  relationships while the metadata of what is in it names a parent further out. Where two
  poms are of one artifact, the main package takes its version from the last and its
  properties from the first.
* "syft convert" without pass-through onto its own input empties it before it is read.
* Relationships to files dangle after SPDX is read and written again
  (`to_format_model.go:328`), and the identifiers of CycloneDX grow by a mark with each
  conversion; `RoundTripExact` leaves the former out.

* The flags that forbid to vary and to cut the vendors of an Alpine package are set on copies of
  the candidates (`apk.go`, `for v := range vendors`) and have no effect.
* Where two texts have one license identity the second is lost, and so are the URLs of a license
  that is given as a text of several lines (`license.go`).

## 6. Proofs

TLAPS checks the following for every value of the constants. No proof uses an axiom; the
assumptions are the named `ASSUME`s of the modules, which TLC evaluates in the runs.

**Collection** (`StructuresProofs`, from `PackageAssumption`, `ThresholdAssumption` and
`NilAssumption`): `CollectionTyped`, `CollectionSetsWellFormed` and
`CollectionIndexesAgree`, for any packages, keys, threshold and length of a deletion. The inductive invariant is the conjunction of the three; `CollectionOrderStable` (two
packages of a path keep their order while both stay) follows from it and from what `add`
and `delete` do to one set. `IndexesAgree` is not inductive alone:
`add` asks the hash set of an orderedIDSet whether the slice holds an ID, and `delete` takes
out its first occurrence only, so an index gains or loses the right ID only while slice and
hash set agree and the slice has no duplicates (`SetsWellFormed`), and the keys of a package
are found again only while it is stored under its own fingerprint (`TypeOK`). Below them are lemmas about what `add` and `delete` do to one
set, above and below the threshold, and about what adding to or deleting from a set of paths
does to an index. A merge is one lemma, an addition and a deletion one each.

**Relationship index** (`RelationshipProofs`): `IndexImplementsGraph` (the refinement
`GraphSpec`), `QueriesFindAll` (`QueriesExact`), `ContainsExact` (`MapsAgree`) and
`ReplaceIsRenaming`, for any number of nodes, types and relationships and any history in
which edits come before queries, as they do in the code. The inductive invariant
(`IndexOf`) says that the list of all relationships and both lists and both maps of every
node are exact for one set, each relationship listed once, but for the slices from nodes
that were queried. `QueriesExact` is not inductive alone: Add drops what `typeMap` already
holds, and Remove finds in one node's list what it takes out of its neighbours', so each
structure is exact only while the others are. A Replace passes through indexes of growing
sets (`MovesAll`); that a node at the far end is never unknown, which would make it skip a
relationship, follows there. The slices of queries need only that a sort neither loses nor
repeats an element (`SortKeeps`).

**Results of a cataloger** (`RelationshipProofs`, from `CatalogersAssumption`):
`CatalogersRelateTheirs` (`EndsReturned`), for any catalogers, files, outcomes of parsers,
workers and panics. The assumption says what the parsers in the repository do: they relate packages
that they return and have identified; the processors for Go's standard library and for Python
environments, which use identifiers without setting them, run after parsers that have
set them all; and where a processor replaces packages (Perl's
distributions, models) parsers relate none and only the last processor may. The
invariant (`CatalogerInv`) therefore has two halves: a cataloger that replaces packages has no relationships
before its last processor, and any other has only such as are between packages it holds,
under identifiers that no later step changes. One lemma for each processor keeps it
(`DependenciesEnd`, `StdlibEnds`, `WheelEggEnds`), one is about a processor that panics when it
has set some identifiers (`AbandonedEnd`), and one about results that arrive from
one more parser (`CollectedEnds`).

**Locks** (`BuilderLocksProofs`, from `CallersAssumption` and `BatchAssumption`):
`BuilderLocksTyped` and `BuilderLocksEnumerationExact`, for any number of writers, readers
and any batches, through the builder or not. `EnumerationExact` needs to be strengthened by
`HoldsRead` (an enumeration that hands over packages holds its read lock, so a writer
cannot be inside), `StartsFresh` (it begins once, with nothing in hand) and
`WritersReady`.

**Batches** (on top of the former): `BuilderLocksBatchesWhole`, where
no two batches write one package (`BatchesApart`; two calls that add and remove the same
package leave what the later one wrote). That each call is whole rests on the builder's
lock alone, not on the collection's: who writes holds it exclusively and who reads shares
it (`Roles`, `LockHeld`), the collection has of each batch exactly the items written so far
(`Applied`), all of which are written between entering and leaving (`WrittenInside`), and
what a reader received when its enumeration ends is the collection, which nobody changed
meanwhile (`ReadersSaw`).

**Content cache** (`ContentCacheProofs`, from `TypesAssumption`, `SizesAssumption` and
`NoneAssumption`): `ServedIsResolved` (what is served was returned by a resolver for that
key, by a caller of that type) and `FinishedIsReadable` (when the caller that emptied an
entry last has written, it can be decoded, whatever others write into it and wherever they
die), for any callers, keys, types and contents, where the functions asked for an entry
agree on what they return. The inductive invariant says that every piece in a file
comes from a content that some caller was given for that entry and lies where it does in that
content (`Genuine`, `PiecesInPlace`), what each caller knows at its place in the code
(`CallersHold`) and that the last opener has written what it has passed (`OpenersWrote`).

**Whole runs** (`CreateSbomProofs`, from the assumptions of `CreateSbom`): `Integrity`
(`ReferentialIntegrity`), `Outcome` (`OutcomeJustified`) and `Order` (`GroupsInOrder`: a task
runs only after every task of earlier groups is done, none having failed), for any
catalogers, results, configurations and number of workers. The integrity of the SBOM is not
inductive: a task holds relationships between the call that reads and the call that adds,
and what it holds must still have its ends when it is added (`Held`). It has because
packages are removed only by tasks that are groups of their own (lemma `Alone`), which in
turn rests on every running task belonging to the group that runs (`InTheirGroup`). The
failures are those of the tasks that are done, and no group starts after one (`Failures`);
that no task is in two groups is lemma `GroupsApart`. `CompliedAssumption` asks that what
compliance leaves of one result mentions only the packages it leaves; it does not hold of a
package that is stubbed for one field and dropped for the other (section 5,
`DroppedLeaveNoRelationships`), for which the theorem is false. For every other package it is
what `NothingDangles` proves (below).

**Results of runs** (the second half of `CreateSbomProofs`, on top of the former and of `ResultsAssumption`,
`OwnedAssumption` and `FilesAssumption`), again for any catalogers, results, configurations
and number of workers:

* `FinalRelationships` (`FinalRelationshipsExact`): the relationships from the source and to
  the evidence are those of the packages of the result, once each. The invariant `Edges`
  counts them in the bag: none before the relationships task but what catalogers reported,
  then those of the packages read under the lock, which stay the packages of the result.
* `Unknowns` (`UnknownsAccounted`): `Accounted` follows what was reported through the tasks
  that carry it and through the labeler, which settles the unknowns after every task that
  removes packages.
* `OwnedFilesFound` (`OwnedFilesCataloged`): `Described` follows the claims of packages
  through their cataloger (lemma `OwnersKept`: a package that compliance leaves keeps its
  files), the selection of files by each file task, and their descriptions. It holds
  because file tasks by ownership come in a group after that of the packages.
* `Support` (`SupportJustified`) and `Exclusions` (`NoBinaryOwnedByOS`), from `Supported` and
  `Excluded`. The former distinguishes the releases as the code does, and the evidence of
  files from that of packages, which count as they are in the result, not as they were
  found. The latter follows the loop of the exclusion over any order of the overlaps.
* `Followed`: replacing the packages of a result in an index one after the other is the same
  as giving every end its new fingerprint at once. Its proof is an induction over the
  packages in which the identifiers replaced so far never meet those still to come. From it
  `NothingDangles`: unless a package is both stubbed and dropped, compliance leaves no
  relationship that mentions a package it does not leave.
* `ScopeKeepsOne` and `ExclusionLeaves` (`TaskProofs`, like the former two): what the two
  removals of `SbomAnalysis` leave, for any packages and any order in which they are walked. The cleanup of hidden packages
  keeps for each key it has met a package that stays (`ScopeAt`). The exclusion removes only
  what is overridden, and leaves no package that a relationship it has walked removes
  (`ExcludeAt`); the second would not be kept if the overriding package could itself be gone
  by then, which is what `Undisputed` excludes.

**Compliance and removals** (`ComponentProofs`, on top of `TaskProofs`, from
`ComplianceAssumption` and `AnalysisAssumption`): `RelationshipsFollowPackages`
(`RelationshipsFollow`), for any results and rules, from `Followed` and the fact that what a
package is followed to is what all replacements together make of it (`FollowMoves`);
`ExclusionIsExact` (`ExclusionExact`) and `RemovedAreSpokenFor` (`RemovedSpokenFor`), for any
packages, claims and orders. `AnalysisInv` holds, for each phase, what is left and which
overlaps have been walked. That no group of removed packages has only itself to speak for it
(`NoGroupAlone`) is stated about groups, because one package may be removed for another that is
removed later; it is kept because each removal leaves the one it was made for (lemma
`NoneMoreAlone`).

**.NET** (`ComponentProofs`, from `LibraryAssumption` and `ApplicationsAssumption`):
`DependenciesJumpAlways` (`DependenciesJumpSkipped`) and `ExecutablesAlwaysSpokenFor`
(`ExecutablesSpokenFor`), for applications with any number of documents, libraries and
executables and every configuration. The assumptions say that the libraries are finitely many and
that documents have names of their own. The invariant (`DotnetInv`) is short: what has been
returned is what the cataloger makes of the application for some roots and some orders of
the maps. The work is in what it makes. A walk ends when it has gone as many rounds
as there are libraries (`WalkEnds`), and visits the least set that is closed under what it
follows (`WalkedLeast`); so the flags that are set one library at a time, by walks that stop at
flags set before, say in the end what lies below, in every order of the map (`FlagsSet`),
and what is kept is what the configuration wants (`KeptWanted`); and from a library that
was skipped the walk finds the nearest ones that were kept (`NearestBetween`). An executable
that a library claims is lost to no package, because the claim makes the document one that
is used and the library one that is kept (`ClaimantKept`).

**Selection** (`ComponentProofs`, from `TokensAssumption`, `FileTagAssumption`,
`SourceTagsAssumption` and `RequestsAssumption`): `SelectionExactly` (`SelectionExact`), for any
groups, tags, sources and requests. A call is compared with the promise through what each
token holds in each group (`HoldsOf`, `HoldsPart`), after the splice of the tags for "default"
(`SplicedHolds`); the invariant is that where no array has room the configuration stays as it
was built (`SelectionIInv`).

**Views of an image** (`ComponentProofs`, from `PathsAssumption` and `ImagesAssumption`):
`ScopesAlwaysAgree` (`ScopesAgree`), for images of any number of layers over any finite set of
paths. What has to be proved is that the search for the file at the end of a chain of links
ends where another search for the same file ends (`SearchEnds`, `SearchesAgree`; by induction
over the paths not yet visited), that a squashed tree has the references of its last layers
(`SquashedTreeIs`), and that the loops over layers and paths only add what they find
(`FoundAdds`, `AllLayersGlobAdds`). `ImageInv` says that the views answer what was asked.

**Convert** (`ComponentProofs`, from `ConvertAssumption`): `OutputsFaithfully`
(`OutputsFaithful`), for any number of outputs and files. The invariant (`ConvertIInv`) names
the outputs that are still to be copied, opened and written as subsequences of those that were
asked for (`Picks`) and says what every file holds meanwhile (`Progress`): a file that nobody
has come to is as it was, and one that is finished is as it will stay, for no two outputs
share one (`Apart`).

**Documents** (`StructuresProofs`, from `NamesAssumption` and `SbomsAssumption`):
`RoundTripIsExact` (`RoundTripExact`), for SBOMs with any number of packages, files and
relationships and any sequence of conversions. `SbomsAssumption` says what catalogers and tasks make:
packages under their fingerprints, relationships between them, the source and files, of the
types that exist between such; `NamesAssumption` that the fingerprints of packages, files and
the source differ. The property speaks of the original and is not inductive: `FormatsInv` adds
that identifiers end in the fingerprint they are about, whatever marks precede it
(`KnownOnce`), that what a relationship links is there and is of a kind its type is
for (`Linked`), and, since SPDX loses the links to files that were read from it, that the
files in relationships are coordinates or locations according to the last format (`LeftOf`).
One lemma for each encoder with its decoder (`JsonCarries`, `BomCarries`, `SpdxCarries`) says
that exactly the relationships that pass are carried; each rests on no two
identifiers of a document being equal, and `SpdxCarries` on the element of the source being found and
taken out again (`SourceExtracted`). `SurvivesOneMore` follows what a longer
sequence of formats can express.

**Folds** (`Induction`). The induction theorems of the library take an operator and cannot be
used here, but induction over 0 .. n can be stated about a set (`InductNat`, from the
well-foundedness of the natural numbers). `FoldLeft` of the community modules chooses a function on
sets of positions; `Iterate` proves that there is one, so its equation can be followed along
the prefixes of the sequence. This is how the loops of Remove and Replace, the sorts of the index, the
compliance loop, the order of replacements, the loops over the ranges of the spill buffer, the
partition of outputs and the chains of links are proved for sequences of every length.

**Temporary directory** (`ComponentProofs`, from `TmpDirAssumption`): `TmpDirTyped`,
`TmpDirRemovedForGood`, `TmpDirLateCallsFail` and `TmpDirNothingLeft`, for any number of
tasks and cleaners. The strengthening says that whoever makes the directory is alone in it and `known` follows (`OneMaker`; otherwise a
second maker could bring a removed directory back), what a cleaner has done by the time it
is where it is (`CleanersKnow`), that late tasks find the directory cleaned
(`LateFindCleaned`), and that after a Cleanup that came last no task moves
(`JoinedInOrder`).

**Spill buffer** (`StructuresProofs`): `BufferIsSparse` (the refinement `SparseSpec`), for any
memory limit, largest offset, bytes and history of writes, rejected and failed ones
included. `SpillBufAssumption` asks that the limit is not negative, as `WithMemLimit` makes
sure, and not past the largest offset, that there is a byte to write, and that `NoFile` is
not a file. The refinement needs the invariant `Kept`: the ranges are
in order with a gap between any two (`Apart`), and each tier has a cell for every offset of
theirs that it is to hold. Four lemmas carry it. `MergeStep` follows the loop of `record`: what
it has merged so far is apart and covers the ranges it has read, of which only the inserted
one may touch its neighbours. `GapLoop` and `SizeIs` follow the loops of the queries: no
gap that is large enough begins before the place where the loop of FirstGap stands.
`FileHolds` says what a write leaves in a file that it
makes, grows or overwrites, the zeros in between included. A write that fails may leave
some of its bytes in the file, which is the step `FailToWriteAt` of `SparseBuffer`.

Every proof has one lemma for each action, or group of actions with the same
effect, and in it one step for each conjunct of the invariant.

## 7. What is model-checked only

Everything in section 3 that section 6 does not name, for the bounds given there. Some
kinds of statement stay with TLC for good: liveness under fairness (`Termination`,
`CallsReturn`, `Terminates`), because the prover has no rules for ENABLED; what recursive
operators compute for inputs of every length (`PomsInherit`, `DependenciesRelated`,
`ArchivesRelated`, `LicensesMerged`, `CpesJustified`), because the prover gives up in modules that declare them or reach one;
`OrderIndependent`, because it compares folds over sequences in every order, and `FailuresNamed`,
because it is an induction over trees of errors; `IndexExact` and `LinksResolve`, whose reference is a least fixed point over paths
of every length; and the runs of section 5, which are refutations. `SortSeq` and `SelectSeq`
are opaque to the prover, which is why the index and the compliance loop are written with
folds, and `record` of the spill buffer says what its binary search finds.

## 8. What is not modelled, and why

* The **parsers** of the package catalogers that read one file and return packages, and the
  catalogers of **files** and **sources**: they convert data, and a model
  of one would be its code again. The models quantify over what they may return or fail with.
  Modelled are the catalogers that resolve what they report through several files.
* Of the **formats**: SPDX 3 elements that the library makes, metadata, licenses and the
  other data of a package, and the formats that are only written.
* Of the **file resolvers**: the index of a single file, searches by MIME type and by
  basename, and the trees of the image library, which are external.
* Of the **command line**: flags, the user interface, the event bus and redaction.
* The **executor** (go-sync) is not in the repository. It is a pool of workers that runs
  every task, reports every error and does not run out of workers when tasks collect in
  turn, which it is used for.
* The **tables** of SPDX licenses, of known vendors and products and of groups of artifacts are
  constants, and the scanner of license texts is external. **Licenses, CPEs and PURLs** in
  merges, **progress events** and **logging** affect no property. **Sharing of a location set's map** between copies of a package is left out.
* The encoding of a cache key as a path is taken to be one to one.
* What an encoder that fails has written before is taken to be nothing (`Convert`), and the
  two resolutions of one dependency's ID (`parse_pom_xml.go:161` and `:232`) to agree
  (`MavenPoms`), as they do on the poms of the run.
* How evidence of extended support is parsed, and that an error stops the search among the EUS
  manifests of RHEL: `Evidence` is what a run finds.

## 9. Plan

The modules were written in this order, the most important behaviour first: `Collection` and
its proof; `RelationshipIndex` over `RelationshipGraph`; `Compliance`; `SbomAnalysis`;
`CreateSbom`, which composes them; the parts that catalogers share, `BuilderLocks`,
`TmpDir` and `SpillBuf`; `CatalogerSelection`; then `ContentCache` and its proof; the way
of a cataloger's results, `UnknownErrors`, `DependencyResolver`, `PackageProcessors` and
`GenericCataloger`; the files they come from, `DirectoryIndexer` and `ImageResolvers`; the
way out, `Formats` and `Convert`; and the ecosystems that follow references,
`DotnetPackages`, `MavenPoms` and `JavaArchives`; and what a package says of itself,
`Licenses` and `CpeCandidates`. Left:

1. Composition. Runs of `CreateSbom` whose packages come from a `CatalogerSelection`,
   `GenericCataloger` as an implementation of `Catalog` in `CreateSbom`, and an abstract
   specification of a run (a set of results, a group at a time) that `CreateSbom` implements.
2. Proofs. That what a cataloger returns does not depend on the order in which its parsers
   end: each processor that merges would have to be shown indifferent to the order; that an index of a directory is exact for every
   file system.
3. Further ecosystems that resolve through several files: Go modules with their main
   packages, JavaScript workspaces, Linux kernel modules.
