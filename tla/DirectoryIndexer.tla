--------------------------- MODULE DirectoryIndexer ---------------------------
(* The index that a directory source builds of the file system: a walk of the   *)
(* scanned directory and then of whatever its links lead to, in the order in    *)
(* which the links are met (syft/internal/fileresolver/directory_indexer.go,    *)
(* path_skipper.go), and the paths that are looked up in it.                    *)
EXTENDS Naturals, SequencesExt

CONSTANTS
    Name,
    MaxLinks,      \* links followed before a path counts as a cycle
    Root,          \* the directory to scan
    NameOrder,     \* all names, in lexical order
    Conditional,   \* paths below which a tmpfs is ignored
    NoBase,
    Cases          \* [fs, base, exclude, mounts]

-------------------------------------------------------------------------------
(* What the code asks of the operating system about paths: a file system is a   *)
(* function from paths, sequences of names below "/", to nodes.                 *)

Dir == [kind |-> "dir", open |-> TRUE, abs |-> FALSE, up |-> 0, rest |-> <<>>]
LockedDir == [Dir EXCEPT !.open = FALSE]
File == [Dir EXCEPT !.kind = "file"]
Special == [Dir EXCEPT !.kind = "special"]
AbsLink(p) == [Dir EXCEPT !.kind = "link", !.abs = TRUE, !.rest = p]
\* "../" up times, and then rest.
RelLink(n, p) == [Dir EXCEPT !.kind = "link", !.up = n, !.rest = p]

Parent(p) == IF p = <<>> THEN p ELSE Front(p)
Links(fs) == {p \in DOMAIN fs : fs[p].kind = "link"}
IsDir(fs, p) == p \in DOMAIN fs /\ fs[p].kind = "dir"
ChildrenOf(fs, p) == {q \in DOMAIN fs : q # <<>> /\ Parent(q) = p}

\* n levels up from d, never above "/".
Above(d, n) == SubSeq(d, 1, IF n >= Len(d) THEN 0 ELSE Len(d) - n)

\* Where the system takes a link to lead.
NativeTargets(fs) ==
    [l \in Links(fs) |-> IF fs[l].abs THEN fs[l].rest ELSE Above(Parent(l), fs[l].up) \o fs[l].rest]

Error(e) == [err |-> e, path |-> <<>>]

\* The entry q, found in a directory without links on the way to it.
Lstat(fs, q) ==
    LET at == Parent(q)
    IN IF q = <<>> THEN [err |-> "none", path |-> q]
       ELSE IF at \notin DOMAIN fs THEN Error("missing")
       ELSE IF fs[at].kind # "dir" THEN Error("notdir")
       ELSE IF ~fs[at].open THEN Error("denied")
       ELSE IF q \notin DOMAIN fs THEN Error("missing")
       ELSE [err |-> "none", path |-> q]

(* filepath.EvalSymlinks and, as far as an error goes, os.Stat: p with every   *)
(* link on the way followed, a link l leading to to[l].                        *)
Eval(fs, to, p) ==
    LET walk[s \in [at : Seq(Name), rest : Seq(Name), hops : 0..MaxLinks]] ==
            LET q == Append(s.at, Head(s.rest))
                found == Lstat(fs, q)
            IN IF s.rest = <<>> THEN [err |-> "none", path |-> s.at]
               ELSE IF found.err # "none" THEN found
               ELSE IF fs[q].kind # "link" THEN walk[[s EXCEPT !.at = q, !.rest = Tail(@)]]
               ELSE IF s.hops = MaxLinks THEN Error("cycle")
               ELSE walk[[at |-> <<>>, rest |-> to[q] \o Tail(s.rest), hops |-> s.hops + 1]]
    IN walk[[at |-> <<>>, rest |-> p, hops |-> 0]]

-------------------------------------------------------------------------------
VARIABLES
    fs,
    base,          \* the directory links are resolved in, or NoBase
    exclude,       \* the paths that the patterns of the user match
    mounts,        \* [point, type]
    queue,         \* pathsToIndex
    seen,          \* fullPathsMap
    frames,        \* what filepath.Walk has yet to visit, the innermost directory first
    branch,        \* the paths towards a root that are yet to be added
    indexed,
    errPaths,
    status         \* "running", "done" or "failed"

vars == <<fs, base, exclude, mounts, queue, seen, frames, branch, indexed, errPaths, status>>

Init ==
    /\ \E c \in Cases :
        fs = c.fs /\ base = c.base /\ exclude = c.exclude /\ mounts = c.mounts
    /\ queue = <<Root>>
    /\ seen = {}
    /\ frames = <<>>
    /\ branch = <<>>
    /\ indexed = {}
    /\ errPaths = {}
    /\ status = "running"

-------------------------------------------------------------------------------
(* Links.                                                                     *)

\* addSymlinkToIndex: a link is taken to lead to a path below the base, or below
\* what the base and the directory of the link have in common.
Rebase(l) ==
    LET within == LongestCommonPrefix({base, Parent(l)})
        dir == SubSeq(Parent(l), Len(within) + 1, Len(Parent(l)))
    IN IF fs[l].abs THEN base \o fs[l].rest
       ELSE within \o Above(dir, fs[l].up) \o fs[l].rest

Targets == IF base = NoBase THEN NativeTargets(fs) ELSE [l \in Links(fs) |-> Rebase(l)]

EvalSymlinks(p) == Eval(fs, NativeTargets(fs), p)

\* The root that a link adds, if indexAllRoots has not met it.  A target that does not
\* exist is none; one that cannot be reached is.
NewRoot(l) ==
    IF EvalSymlinks(Targets[l]).err # "missing" /\ Targets[l] \notin seen
    THEN <<Targets[l]>> ELSE <<>>

-------------------------------------------------------------------------------
(* Visitors.                                                                  *)

Inside(p, dir) == IsPrefix(dir, p)
Unconditional == {"proc", "procfs", "sysfs", "devfs", "devtmpfs", "udev"}

\* The mount points around a path are tried from the longest on; one of an ordinary
\* type ends the search, a tmpfs elsewhere does not.
Ignores(m, p) ==
    \/ m.type \in Unconditional
    \/ m.type = "tmpfs" /\ \E c \in Conditional : Inside(p, c)

skippedByMount(p) ==
    LET around == {m \in mounts : Inside(p, m.point)}
    IN \E m \in around :
        /\ Ignores(m, p)
        /\ \A n \in around : Len(n.point) > Len(m.point) => n.type = "tmpfs"

\* Mutation: whatever has been visited is skipped like a directory.
MutVerdict(p, err) ==
    IF p \in indexed THEN "skip dir"
    ELSE IF err THEN "inaccessible"
    ELSE IF fs[p].kind = "special" THEN "skip"
    ELSE IF skippedByMount(p) THEN "skip dir"
    ELSE IF p \in exclude THEN (IF IsDir(fs, p) THEN "skip dir" ELSE "skip")
    ELSE "add"

\* indexPath: the visitors in their order, err being that of the walk.
Verdict(p, err) ==
    IF p \in indexed THEN (IF IsDir(fs, p) THEN "skip dir" ELSE "skip")
    ELSE IF err THEN "inaccessible"
    ELSE IF fs[p].kind = "special" THEN "skip"
    ELSE IF skippedByMount(p) THEN "skip dir"
    ELSE IF p \in exclude THEN (IF IsDir(fs, p) THEN "skip dir" ELSE "skip")
    ELSE "add"

\* Mutation: links are followed each time they are met.
MutIndexPath(p, err) ==
    LET added == Verdict(p, err) = "add"
        link == Lstat(fs, p).err = "none" /\ fs[p].kind = "link"
        root == IF link /\ EvalSymlinks(Targets[p]).err # "missing" THEN <<Targets[p]>> ELSE <<>>
    IN /\ indexed' = IF added THEN indexed \cup {p} ELSE indexed
       /\ errPaths' = IF Verdict(p, err) = "inaccessible" THEN errPaths \cup {p} ELSE errPaths
       /\ queue' = queue \o root
       /\ seen' = seen \cup ToSet(root)

IndexPath(p, err) ==
    LET added == Verdict(p, err) = "add"
        root == IF added /\ fs[p].kind = "link" THEN NewRoot(p) ELSE <<>>
    IN /\ indexed' = IF added THEN indexed \cup {p} ELSE indexed
       /\ errPaths' = IF Verdict(p, err) = "inaccessible" THEN errPaths \cup {p} ELSE errPaths
       /\ queue' = queue \o root
       /\ seen' = seen \cup ToSet(root)

-------------------------------------------------------------------------------
(* Roots.                                                                     *)

Idle == status = "running" /\ frames = <<>> /\ branch = <<>>

\* indexTree: a root below a link is replaced by the path that it resolves to, and
\* the paths towards it are added afterwards (indexBranch).
ContainedPaths(p) == [n \in 1..Len(p) |-> SubSeq(p, 1, n)]

\* Neither a cycle nor a file in the place of a directory is a path error of Go's.
Fatal(e) == e \in {"cycle", "notdir"}

IndexTree ==
    /\ Idle
    /\ queue # <<>>
    /\ queue' = Tail(queue)
    /\ LET root == Head(queue)
           parent == EvalSymlinks(Parent(root))
           real == EvalSymlinks(root)
       IN IF parent.err # "none"
          THEN /\ IF Fatal(parent.err) THEN status' = "failed" /\ UNCHANGED errPaths
                  ELSE errPaths' = errPaths \cup {root} /\ UNCHANGED status
               /\ UNCHANGED <<frames, branch>>
          ELSE IF parent.path = Parent(root)
          THEN frames' = <<<<root>>>> /\ UNCHANGED <<branch, errPaths, status>>
          ELSE IF real.err = "none"
          THEN frames' = <<<<real.path>>>> /\ branch' = ContainedPaths(root)
               /\ UNCHANGED <<errPaths, status>>
          ELSE /\ status' = IF Fatal(real.err) THEN "failed" ELSE status
               /\ UNCHANGED <<frames, branch, errPaths>>
    /\ UNCHANGED <<fs, base, exclude, mounts, seen, indexed>>

Sorted(S) == SortSeq(SetToSeq(S), LAMBDA p, q :
    SelectInSeq(NameOrder, LAMBDA n : n = Last(p)) < SelectInSeq(NameOrder, LAMBDA n : n = Last(q)))

NonEmpty(s) == SelectSeq(s, LAMBDA f : f # <<>>)

\* filepath.Walk: an entry is visited and, if it is a directory that was added, what
\* it holds.  Skipping a directory at an entry that is none skips what is left of
\* the directory around it.
WalkEntry ==
    /\ frames # <<>>
    /\ LET p == Head(Head(frames))
           siblings == Tail(Head(frames))
           err == Lstat(fs, p).err # "none" \/ (IsDir(fs, p) /\ ~fs[p].open)
           verdict == Verdict(p, err)
       IN /\ IndexPath(p, err)
          /\ frames' = NonEmpty(
                (IF verdict = "add" /\ IsDir(fs, p) THEN <<Sorted(ChildrenOf(fs, p))>> ELSE <<>>)
                \o (IF verdict = "skip dir" /\ ~IsDir(fs, p) THEN <<>> ELSE <<siblings>>)
                \o Tail(frames))
    /\ UNCHANGED <<fs, base, exclude, mounts, branch, status>>

\* Mutation: only what the root resolves to is added, not the links on the way.
MutIndexBranch ==
    /\ frames = <<>>
    /\ branch # <<>>
    /\ branch' = Tail(branch)
    /\ UNCHANGED <<fs, base, exclude, mounts, frames, status, indexed, errPaths, queue, seen>>

\* indexBranch: every path towards the root is added below its real directory.
IndexBranch ==
    /\ frames = <<>>
    /\ branch # <<>>
    /\ LET p == Head(branch)
           target == Append(EvalSymlinks(Parent(p)).path, Last(p))
       IN IndexPath(target, Lstat(fs, target).err # "none")
    /\ branch' = Tail(branch)
    /\ UNCHANGED <<fs, base, exclude, mounts, frames, status>>

Finish ==
    /\ Idle
    /\ queue = <<>>
    /\ status' = "done"
    /\ UNCHANGED <<fs, base, exclude, mounts, queue, seen, frames, branch, indexed, errPaths>>

Next == IndexTree \/ WalkEntry \/ IndexBranch \/ Finish

\* The walk runs in one goroutine that nothing holds up.
Fairness == WF_vars(Next)

Spec == Init /\ [][Next]_vars /\ Fairness

-------------------------------------------------------------------------------
Done == status = "done"

\* Visitors other than the one that looks at what has been indexed.
Allowed(p) ==
    /\ Lstat(fs, p).err = "none"
    /\ fs[p].kind # "special"
    /\ ~skippedByMount(p)
    /\ p \notin exclude

\* What a root stands for: itself, to be walked, and the paths towards it.
Real(p) == Append(EvalSymlinks(Parent(p)).path, Last(p))
RootEntries(r) ==
    IF EvalSymlinks(Parent(r)).err # "none" THEN {}
    ELSE IF EvalSymlinks(Parent(r)).path = Parent(r) THEN {[path |-> r, walked |-> TRUE]}
    ELSE IF EvalSymlinks(r).err # "none" THEN {}
    ELSE {[path |-> EvalSymlinks(r).path, walked |-> TRUE]}
            \cup {[path |-> Real(p), walked |-> FALSE] : p \in ToSet(ContainedPaths(r))}

Entries(S) == {e \in S :
    Allowed(e.path) /\ (e.walked /\ fs[e.path].kind = "dir" => fs[e.path].open)}

Closer(S) ==
    S \cup Entries(UNION {
        IF fs[e.path].kind = "link"
        THEN (IF EvalSymlinks(Targets[e.path]).err = "missing" THEN {}
              ELSE RootEntries(Targets[e.path]))
        ELSE IF fs[e.path].kind = "dir" /\ e.walked
        THEN [path : ChildrenOf(fs, e.path), walked : {TRUE}]
        ELSE {} : e \in S})

\* The least set of paths that holds the scanned directory and, with a directory,
\* what it holds and, with a link that is not dangling, what it leads to and the links
\* on the way there.
Reach ==
    LET closure[S \in SUBSET [path : Seq(Name), walked : BOOLEAN]] ==
            IF Closer(S) = S THEN S ELSE closure[Closer(S)]
    IN closure[Entries(RootEntries(Root))]

\* A directory that is only on the way to a root: should a link lead to it later, it
\* counts as visited.
OnTheWay(e) == ~e.walked /\ fs[e.path].kind = "dir" /\ ~IsPrefix(Root, e.path)

\* However links cross, lead back or lead to each other, the index is exactly what can
\* be reached from the scanned directory: a path is not lost because another way to it
\* was cut short, except below a directory that is also on the way to a root, and
\* nothing that is excluded or that no link leads to is added.
IndexExact ==
    Done =>
        LET reach == Reach
        IN /\ indexed \subseteq {e.path : e \in reach}
           /\ \A e \in reach : e.path \notin indexed =>
                \E d \in reach : OnTheWay(d) /\ IsStrictPrefix(d.path, e.path)

\* The tree that lookups see: directories that nobody added are there all the same.
Tree ==
    [p \in indexed \cup UNION {Prefixes(q) : q \in indexed} |->
        IF p \in indexed THEN fs[p] ELSE Dir]

Lookup(tree, p) == Eval(tree, [l \in Links(tree) |-> Targets[l]], p)

\* FilesByPath: a link that leads to a file, over as many links as it takes, leads to it
\* in the index too.  The links on the way there have to have been added for that.
LinksResolve ==
    Done /\ exclude = {} /\ mounts = {} /\ base = NoBase =>
        LET reached == {e.path : e \in Reach}
            tree == Tree
        IN \A l \in indexed \cap Links(fs) :
            LET there == Lookup(fs, l)
            IN /\ there.err = "none"
               /\ there.path \in reached
               => Lookup(tree, l) = there

\* Every scan ends, with links that lead back to what is being walked too.
Terminates == <>(status # "running")

\* "can resolve into a directory we don't have permission to traverse (or into a path
\* that no longer exists). Like any other inaccessible path, this should be recorded
\* and skipped with a warning rather than aborting the entire scan"
\* (directory_indexer.go:130-132).
ScanSurvives == status # "failed"

\* "base directory for scanning, no links will be followed above this directory"
\* (cmd/syft/internal/options/catalog.go:257).
BaseConfines == base = NoBase \/ \A p \in indexed : IsPrefix(base, p)
===============================================================================
