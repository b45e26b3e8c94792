--------------------------- MODULE GenericCataloger ---------------------------
(* A cataloger that runs a parser on every file it asks the resolver for          *)
(* (syft/pkg/cataloger/generic).  Parsers run concurrently; what each returns is  *)
(* collected under a lock, in the order in which they finish.  A parser or a      *)
(* processor may panic.                                                           *)
EXTENDS PackageProcessors

CONSTANTS
    Catalogers,     \* [name, requesters, processors, checked]
    Search,         \* what a search finds: a sequence of locations, or Failed
    Failed,
    MediaTypes,     \* whether the resolver knows media types
    Outcomes,       \* location -> what its parser may return: [pkgs, rels, err]
    Panicky,        \* processors that may panic
    Parallelism

ASSUME ParallelismAssumption == Parallelism \in Nat \ {0}

VARIABLES
    cataloger,
    readable,       \* whether every pyvenv.cfg can be read
    pc,             \* "check", "parse", "process", "done"
    requests,       \* the locations to parse
    started,        \* how many of them a worker has taken
    running,        \* requests that are being parsed
    outcome,        \* request -> what its parser did
    found,          \* [pkgs, rels, err]: what has been collected or processed
    processed,      \* processors that have run
    panicked        \* whether one of them panicked

catalogerVars == <<cataloger, readable, pc, requests, started, running, outcome, found, processed, panicked>>

Nothing == Result(<<>>, {}, Nil)

CatalogInit ==
    /\ cataloger \in Catalogers
    /\ readable \in IF "wheelEgg" \in ToSet(cataloger.processors) /\ Venvs # {} THEN BOOLEAN ELSE {TRUE}
    /\ pc = "check"
    /\ requests = <<>> /\ started = 0 /\ running = {} /\ outcome = <<>>
    /\ found = Nothing /\ processed = 0 /\ panicked = FALSE

\* Globs and paths are searched for one by one, and those that fail are passed over;
\* types are searched for together.
makeRequests(requester) ==
    IF requester.kind \in {"glob", "path"}
    THEN FlattenSeq([i \in DOMAIN requester.queries |->
            IF Search[requester.queries[i]] = Failed THEN <<>> ELSE Search[requester.queries[i]]])
    ELSE IF \/ requester.kind = "mediatype" /\ ~MediaTypes
            \/ \E i \in DOMAIN requester.queries : Search[requester.queries[i]] = Failed
    THEN <<>>
    ELSE FlattenSeq([i \in DOMAIN requester.queries |-> Search[requester.queries[i]]])

selectFiles(c) == FlattenSeq([i \in DOMAIN c.requesters |-> makeRequests(c.requesters[i])])

\* Processors that merge packages or change their identifiers, and those that relate
\* packages under the identifiers that their parsers have given them.
Replacing == {"resolvePacklistVersions", "mergeDistributions", "ggufMerge", "safeTensorsMerge"}
Trusting == {"stdlib", "wheelEgg"}

\* What a parser may return: packages, and relationships between some of them that are
\* identified.
Returned(o) ==
    /\ o.pkgs \in Seq(ToSet(o.pkgs))
    /\ \A p \in ToSet(o.pkgs) : "id" \in DOMAIN p
    /\ \A x \in o.rels : {x.from, x.to} \subseteq {p.id : p \in ToSet(o.pkgs)} \ {NoID}

\* Where packages are replaced, parsers relate none, and the last processor alone may.
ASSUME CatalogersAssumption ==
    \A c \in Catalogers :
        LET replaces == \E i \in DOMAIN c.processors : c.processors[i] \in Replacing
            trusts == \E i \in DOMAIN c.processors : c.processors[i] \in Trusting
        IN /\ c.processors \in Seq(Replacing \cup Trusting
                                       \cup {"dependency", "resolveDependencies", "denySelfReferences"})
           /\ selectFiles(c) \in Seq(DOMAIN Outcomes)
           /\ \A at \in ToSet(selectFiles(c)) : \A o \in Outcomes[at] :
                 /\ Returned(o)
                 /\ replaces => o.rels = {}
                 /\ trusts => \A p \in ToSet(o.pkgs) : p.id # NoID
           /\ replaces => /\ ~trusts
                          /\ \A i \in DOMAIN c.processors :
                                c.processors[i] \in {"dependency", "resolveDependencies"}
                                    => i = Len(c.processors)

Check ==
    /\ pc = "check"
    /\ \/ /\ pc' = "parse"
          /\ requests' = selectFiles(cataloger)
          /\ UNCHANGED found
       \/ /\ cataloger.checked
          /\ pc' = "done"
          /\ found' = Result(<<>>, {}, Leaf("check"))
          /\ UNCHANGED requests
    /\ UNCHANGED <<cataloger, readable, started, running, outcome, processed, panicked>>

Start ==
    /\ pc = "parse"
    /\ started < Len(requests)
    /\ Cardinality(running) < Parallelism
    /\ started' = started + 1
    /\ running' = running \cup {started + 1}
    /\ UNCHANGED <<cataloger, readable, pc, requests, outcome, found, processed, panicked>>

\* What invokeParser makes of a file: what the parser returns, or an error alone where
\* the contents cannot be read or the parser panics.
invokeParser(at) == Outcomes[at] \cup {Result(<<>>, {}, Leaf(e)) : e \in {"unreadable", "panic"}}

\* Mutation: the error of the last parser replaces those of the others.
MutCollected(all, at, o) ==
    Result(all.pkgs \o [i \in DOMAIN o.pkgs |-> [o.pkgs[i] EXCEPT !.foundBy = cataloger.name]],
           all.rels \cup o.rels,
           IF o.err = Nil THEN all.err ELSE JoinErrs(<<New(at, o.err)>>))

\* One parser's results join those of the others.
Collected(all, at, o) ==
    Result(all.pkgs \o [i \in DOMAIN o.pkgs |-> [o.pkgs[i] EXCEPT !.foundBy = cataloger.name]],
           all.rels \cup o.rels,
           JoinErrs(<<all.err, New(at, o.err)>>))

Finish ==
    /\ pc = "parse"
    /\ \E i \in running : \E o \in invokeParser(requests[i]) :
        /\ running' = running \ {i}
        /\ outcome' = (i :> o) @@ outcome
        /\ found' = Collected(found, requests[i], o)
    /\ UNCHANGED <<cataloger, readable, pc, requests, started, processed, panicked>>

AllParsed ==
    /\ pc = "parse"
    /\ started = Len(requests) /\ running = {}
    /\ pc' = "process"
    /\ UNCHANGED <<cataloger, readable, requests, started, running, outcome, found, processed, panicked>>

Process(name, r) ==
    CASE name \in {"dependency", "resolveDependencies"} -> ResolveDependencies(r)
      [] name = "denySelfReferences" -> denySelfReferences(r)
      [] name = "resolvePacklistVersions" -> resolvePacklistVersions(r)
      [] name = "mergeDistributions" -> mergeDistributions(r)
      [] name = "ggufMerge" -> ggufMergeProcessor(r)
      [] name = "safeTensorsMerge" -> safeTensorsMergeProcessor(r)
      [] name = "stdlib" -> stdlibProcessor(r)
      [] name = "wheelEgg" -> wheelEggRelationships(r, readable)

\* A processor that panics leaves what it was given, but for the packages that it has
\* changed in place.
Abandoned(name, r) ==
    IF name \notin {"dependency", "resolveDependencies", "resolvePacklistVersions"} THEN {r}
    ELSE {[r EXCEPT !.pkgs = SubSeq(Process(name, r).pkgs, 1, n) \o SubSeq(@, n + 1, Len(@))] :
            n \in 0..Len(r.pkgs)}

processSafely ==
    /\ pc = "process"
    /\ processed < Len(cataloger.processors)
    /\ LET name == cataloger.processors[processed + 1]
       IN \/ found' = Process(name, found) /\ UNCHANGED panicked
          \/ name \in Panicky /\ panicked' = TRUE /\ found' \in Abandoned(name, found)
    /\ processed' = processed + 1
    /\ UNCHANGED <<cataloger, readable, pc, requests, started, running, outcome>>

Return ==
    /\ pc = "process"
    /\ processed = Len(cataloger.processors)
    /\ pc' = "done"
    /\ UNCHANGED <<cataloger, readable, requests, started, running, outcome, found, processed, panicked>>

CatalogNext == Check \/ Start \/ Finish \/ AllParsed \/ processSafely \/ Return

CatalogSpec == CatalogInit /\ [][CatalogNext]_catalogerVars

-------------------------------------------------------------------------------
\* What one worker would return that took the files one after the other.
InOrder ==
    FoldLeft(LAMBDA all, i : Collected(all, requests[i], outcome[i]), Nothing,
             [i \in 1..Len(requests) |-> i])

Sequential ==
    FoldLeft(LAMBDA r, name : Process(name, r), InOrder, cataloger.processors)

Counted(s) == [x \in ToSet(s) |-> Cardinality({i \in DOMAIN s : s[i] = x})]

Coordinates(err) ==
    LET c == ExtractCoordinateErrors(err).coordinates IN {<<c[i].at, c[i].reason>> : i \in DOMAIN c}

\* The result does not depend on which parser finishes first: packages, relationships
\* and unknowns are those of a sequential run, although packages are merged, versions
\* filled in and identifiers computed after they arrived in some order.
OrderIndependent ==
    pc = "done" /\ requests # <<>> /\ ~panicked =>
        /\ Counted(found.pkgs) = Counted(Sequential.pkgs)
        /\ found.rels = Sequential.rels
        /\ Coordinates(found.err) = Coordinates(Sequential.err)

\* Both ends of every relationship that is returned are identified packages that are
\* returned with it, whichever processor replaced packages before or after it was made.
EndsReturned ==
    pc = "done" =>
        \A x \in found.rels : {x.from, x.to} \subseteq {p.id : p \in ToSet(found.pkgs)} \ {NoID}

\* Every parser that failed is accounted for by the coordinates of its file, or by those
\* that it named itself, and no error is left without coordinates.
FailuresNamed ==
    pc = "done" /\ requests # <<>> =>
        /\ readable => ExtractCoordinateErrors(found.err).remaining = Nil
        /\ \A i \in DOMAIN outcome : outcome[i].err # Nil =>
            \E c \in Coordinates(found.err) :
                \/ c[1] = requests[i] /\ c[2] = outcome[i].err
                \/ c[1] \in {e[1] : e \in Reports(outcome[i].err)}

\* "these errors are propagated up, and are likely to be coordinate errors"
\* (syft/pkg/cataloger/generic/cataloger.go:262): every coordinate error among those that a
\* parser returns is among the errors of the cataloger.
ParserErrorsPropagated ==
    pc = "done" =>
        \A i \in DOMAIN outcome : Coordinates(outcome[i].err) \subseteq Coordinates(found.err)

\* A file that cannot be read costs no more than the packages that it speaks of.
PackagesSurvive ==
    pc = "done" /\ outcome # <<>> /\ "wheelEgg" \in ToSet(cataloger.processors) =>
        Len(found.pkgs) = Len(FlattenSeq([i \in DOMAIN requests |-> outcome[i].pkgs]))
===============================================================================
