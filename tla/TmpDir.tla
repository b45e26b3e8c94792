------------------------------- MODULE TmpDir -------------------------------
(***************************************************************************)
(* TempDir (internal/tmpdir/tmpdir.go): one temporary directory, made by   *)
(* the first who needs it and removed by Cleanup, in which tasks create    *)
(* files and directories of their own.  An entry stands for what one call  *)
(* of NewFile or NewChild makes; the system gives each a fresh name.       *)
(***************************************************************************)
EXTENDS Naturals, FiniteSets

CONSTANTS
    Tasks,       \* callers of NewFile and NewChild, once each
    Cleaners,    \* callers of Cleanup
    Kinds        \* "root": made by Root; "path": made by FromPath

ASSUME TmpDirAssumption ==
    /\ Tasks \cap Cleaners = {}
    /\ Kinds \subseteq {"root", "path"}

VARIABLES
    kind,
    joined,      \* whether Cleanup is called only after the tasks have ended
    init,        \* initOnce: "new", "running", "done" or "failed"
    known,       \* whether t.root names a directory
    once,        \* cleanupOnce: "new", "running" or "done"
    cleaned,
    directory,   \* whether the directory exists
    entries,     \* tasks whose entry is in it
    pc,
    late,        \* tasks that called after a Cleanup had returned
    removed      \* whether RemoveAll returned without an error

vars == <<kind, joined, init, known, once, cleaned, directory, entries, pc, late, removed>>

Init ==
    /\ kind \in Kinds
    /\ joined \in BOOLEAN
    /\ init = IF kind = "path" THEN "done" ELSE "new"
    /\ known = (kind = "path")
    /\ directory = (kind = "path")
    /\ once = "new"
    /\ cleaned = FALSE
    /\ entries = {}
    /\ pc = [p \in Tasks \cup Cleaners |-> "idle"]
    /\ late = {}
    /\ removed = FALSE

Goto(p, to) == pc' = [pc EXCEPT ![p] = to]

-------------------------------------------------------------------------------
(* NewFile and NewChild.                                                      *)

CallNew(t) ==
    /\ pc[t] = "idle"
    /\ Goto(t, "path")
    /\ late' = IF once = "done" THEN late \cup {t} ELSE late
    /\ UNCHANGED <<kind, joined, init, known, once, cleaned, directory, entries, removed>>

\* path: sync.Once lets one caller in and makes the others wait for it.
EnterInit(t) ==
    /\ pc[t] = "path"
    /\ init # "running"
    /\ IF init = "new" THEN init' = "running" /\ Goto(t, "mkdir")
       ELSE UNCHANGED init /\ Goto(t, "check")
    /\ UNCHANGED <<kind, joined, known, once, cleaned, directory, entries, late, removed>>

\* Mutation: a failure leaves the Once unfinished.
MutMakeRoot(t) ==
    /\ pc[t] = "mkdir"
    /\ \/ init' = "done" /\ known' = TRUE /\ directory' = TRUE
       \/ UNCHANGED <<init, known, directory>>
    /\ Goto(t, "check")
    /\ UNCHANGED <<kind, joined, once, cleaned, entries, late, removed>>

MakeRoot(t) ==
    /\ pc[t] = "mkdir"
    /\ \/ init' = "done" /\ known' = TRUE /\ directory' = TRUE
       \/ init' = "failed" /\ UNCHANGED <<known, directory>>
    /\ Goto(t, "check")
    /\ UNCHANGED <<kind, joined, once, cleaned, entries, late, removed>>

Check(t) ==
    /\ pc[t] = "check"
    /\ Goto(t, IF init = "failed" \/ cleaned THEN "error" ELSE "create")
    /\ UNCHANGED <<kind, joined, init, known, once, cleaned, directory, entries, late, removed>>

\* Mutation: a missing directory is made again (MkdirAll).
MutCreate(t) ==
    /\ pc[t] = "create"
    /\ directory' = TRUE /\ entries' = entries \cup {t} /\ Goto(t, "using")
    /\ UNCHANGED <<kind, joined, init, known, once, cleaned, late, removed>>

\* os.CreateTemp and os.MkdirTemp
Create(t) ==
    /\ pc[t] = "create"
    /\ \/ directory /\ entries' = entries \cup {t} /\ Goto(t, "using")
       \/ UNCHANGED entries /\ Goto(t, "error")
    /\ UNCHANGED <<kind, joined, init, known, once, cleaned, directory, late, removed>>

\* The cleanup function that came with the entry, which may be missed.
Release(t) ==
    /\ pc[t] = "using"
    /\ \/ entries' = entries \ {t} /\ Goto(t, "released")
       \/ UNCHANGED entries /\ Goto(t, "missed")
    /\ UNCHANGED <<kind, joined, init, known, once, cleaned, directory, late, removed>>

-------------------------------------------------------------------------------
(* Cleanup.                                                                   *)

Ended == {"error", "released", "missed"}
TasksEnded == \A t \in Tasks : pc[t] \in Ended \cup {"idle"}

CallCleanup(c) ==
    /\ pc[c] = "idle"
    /\ joined => \A t \in Tasks : pc[t] \in Ended
    /\ Goto(c, "once")
    /\ UNCHANGED <<kind, joined, init, known, once, cleaned, directory, entries, late, removed>>

EnterCleanup(c) ==
    /\ pc[c] = "once"
    /\ once # "running"
    /\ IF once = "new" THEN once' = "running" /\ cleaned' = TRUE /\ Goto(c, "look")
       ELSE UNCHANGED <<once, cleaned>> /\ Goto(c, "returned")
    /\ UNCHANGED <<kind, joined, init, known, directory, entries, late, removed>>

\* t.root is read outside initOnce: a task's write of it may not be seen yet.
Look(c) ==
    /\ pc[c] = "look"
    /\ \/ known /\ Goto(c, "sweep") /\ UNCHANGED once
       \/ /\ ~known \/ (kind = "root" /\ ~TasksEnded)
          /\ once' = "done" /\ Goto(c, "returned")
    /\ UNCHANGED <<kind, joined, init, known, cleaned, directory, entries, late, removed>>

\* Mutation: Remove instead of RemoveAll.
MutSweep(c) ==
    /\ pc[c] = "sweep"
    /\ Goto(c, "rmdir")
    /\ UNCHANGED <<kind, joined, init, known, once, cleaned, directory, entries, late, removed>>

\* os.RemoveAll empties the directory and then removes it, or fails if an entry
\* has come since.
Sweep(c) ==
    /\ pc[c] = "sweep"
    /\ entries' = {}
    /\ Goto(c, "rmdir")
    /\ UNCHANGED <<kind, joined, init, known, once, cleaned, directory, late, removed>>

RemoveRoot(c) ==
    /\ pc[c] = "rmdir"
    /\ directory' = (entries # {})
    /\ removed' = (entries = {})
    /\ once' = "done"
    /\ Goto(c, "returned")
    /\ UNCHANGED <<kind, joined, init, known, cleaned, entries, late>>

-------------------------------------------------------------------------------
New(t) == CallNew(t) \/ EnterInit(t) \/ MakeRoot(t) \/ Check(t) \/ Create(t) \/ Release(t)
Cleanup(c) == CallCleanup(c) \/ EnterCleanup(c) \/ Look(c) \/ Sweep(c) \/ RemoveRoot(c)

Next == (\E t \in Tasks : New(t)) \/ (\E c \in Cleaners : Cleanup(c))

\* Goroutines are scheduled and system calls return.
Fairness ==
    /\ \A t \in Tasks : WF_vars(New(t))
    /\ \A c \in Cleaners : WF_vars(Cleanup(c))

Spec == Init /\ [][Next]_vars /\ Fairness

-------------------------------------------------------------------------------
(* Properties.                                                                *)

TaskPC == {"idle", "path", "mkdir", "check", "create", "using"} \cup Ended
CleanerPC == {"idle", "once", "look", "sweep", "rmdir", "returned"}

\* Type invariant; an entry lies in a directory that exists.
TypeOK ==
    /\ kind \in Kinds /\ joined \in BOOLEAN
    /\ init \in {"new", "running", "done", "failed"}
    /\ once \in {"new", "running", "done"}
    /\ {known, cleaned, directory, removed} \subseteq BOOLEAN
    /\ entries \subseteq Tasks /\ (entries # {} => directory)
    /\ late \subseteq Tasks
    /\ pc \in [Tasks \cup Cleaners -> TaskPC \cup CleanerPC]
    /\ \A t \in Tasks : pc[t] \in TaskPC
    /\ \A c \in Cleaners : pc[c] \in CleanerPC

\* When Cleanup reports that it removed the directory it is gone with everything in
\* it, and no task that was already past the check brings it back.
RemovedForGood == removed => ~directory /\ entries = {}

\* A task that calls after a Cleanup returned gets an error, nothing in a directory
\* that is being removed or gone.
LateCallsFail == \A t \in late : pc[t] \notin {"create", "using", "released", "missed"}

\* What nobody removed early is removed in the end, as in CreateSBOM, where Cleanup
\* is called when every task has ended.
NothingLeft ==
    joined /\ kind = "root" /\ (\E c \in Cleaners : pc[c] = "returned")
        => ~directory /\ entries = {}

\* Every call returns; nobody waits for a Once for ever.
CallsReturn ==
    /\ \A t \in Tasks : pc[t] = "path" ~> pc[t] \in Ended
    /\ \A c \in Cleaners : pc[c] = "once" ~> pc[c] = "returned"

\* "Cleanup removes the entire root directory and all contents."
\* (internal/tmpdir/tmpdir.go:110): of calls that do not overlap, too.
NothingLeftAfterCleanup ==
    (\E c \in Cleaners : pc[c] = "returned") /\ TasksEnded /\ kind = "root"
        /\ Tasks \cap late = {t \in Tasks : pc[t] # "idle"} => ~directory

\* "The caller owns the lifecycle of the directory; Cleanup() is a no-op."
\* (internal/tmpdir/tmpdir.go:22)
BorrowedDirectoryStays == kind = "path" => directory
===============================================================================
