---------------------------- MODULE BuilderLocks ----------------------------
(***************************************************************************)
(* The two locks of an SBOM that is being built: the builder's             *)
(* (internal/sbomsync/builder.go) and the package collection's             *)
(* (syft/pkg/collection.go).  Collection.Enumerate hands its packages to   *)
(* the caller from a goroutine that holds the collection's read lock and   *)
(* takes it again for each package.                                        *)
(*                                                                         *)
(* Callers reach the collection through the builder, as the tasks of       *)
(* CreateSBOM do, or directly, as a user of the library may.               *)
(***************************************************************************)
EXTENDS FiniteSets, Sequences, SequencesExt

CONSTANTS
    Package,
    Initial,     \* the packages of the collection at first
    Writers,     \* callers of AddPackages or DeletePackages
    Batch,       \* Writer -> what it writes, a sequence of [op, package]
    Readers,     \* callers that enumerate the collection
    Exclusive,   \* the readers that do so within WriteToSBOM
    Direct       \* callers that take part where nobody goes through the builder

\* The two read locks of an enumeration.
Outer(r) == <<r, "outer">>
Inner(r) == <<r, "inner">>

ASSUME CallersAssumption ==
    /\ Writers \cap Readers = {} /\ Exclusive \subseteq Readers
    /\ Direct \subseteq Writers \cup Readers
    /\ \A w \in Writers, r \in Readers : w # Outer(r) /\ w # Inner(r)

ASSUME BatchAssumption ==
    /\ Initial \subseteq Package
    /\ Batch \in [Writers -> Seq([op : {"add", "delete"}, package : Package])]

-------------------------------------------------------------------------------
(* sync.RWMutex of Go's standard library, as a value and the operations on it. *)
(* A writer announces itself and waits for the readers inside to leave; a      *)
(* reader that comes after the announcement waits for the writer, even if its  *)
(* goroutine holds a read lock already.                                        *)

Unlocked == [readers |-> {}, waiting |-> {}, writer |-> {}]

RLock(m, t) == IF m.writer = {} THEN [m EXCEPT !.readers = @ \cup {t}]
               ELSE [m EXCEPT !.waiting = @ \cup {t}]
RUnlock(m, t) == [m EXCEPT !.readers = @ \ {t}]

\* One writer at a time announces itself.
Announced(m) == m.writer # {}
Lock(m, t) == [m EXCEPT !.writer = {t}]

\* The readers that wait get in before the next writer.
Unlock(m) == [readers |-> m.waiting, waiting |-> {}, writer |-> {}]

HasRead(m, t) == t \in m.readers
HasLock(m, t) == m.writer = {t} /\ m.readers = {}

-------------------------------------------------------------------------------
VARIABLES
    guarded,       \* whether the callers go through the builder
    sbomLock, collectionLock,
    packages,      \* the collection
    pc,            \* caller -> where it is
    items,         \* writer -> what it has yet to write
    enumerator,    \* reader -> [pc, ids, current] of the goroutine of its Enumerate
    got            \* reader -> the packages it received

vars == <<guarded, sbomLock, collectionLock, packages, pc, items, enumerator, got>>

Init ==
    /\ guarded \in BOOLEAN
    /\ sbomLock = Unlocked
    /\ collectionLock = Unlocked
    /\ packages = Initial
    /\ pc = [c \in Writers \cup Readers |-> IF guarded \/ c \in Direct THEN "call" ELSE "done"]
    /\ items = [w \in Writers |-> Batch[w]]
    /\ enumerator = [r \in Readers |-> [pc |-> "none", ids |-> {}, current |-> {}]]
    /\ got = [r \in Readers |-> {}]

-------------------------------------------------------------------------------
(* The builder.  Without it a caller goes straight to the collection.         *)

Goto(c, to) == pc' = [pc EXCEPT ![c] = to]

\* Mutation: a call that writes takes the lock as a reader.
MutCall(c) ==
    /\ pc[c] = "call"
    /\ Goto(c, "enter")
    /\ sbomLock' = IF guarded THEN RLock(sbomLock, c) ELSE sbomLock
    /\ UNCHANGED <<guarded, collectionLock, packages, items, enumerator, got>>

Call(c) ==
    /\ pc[c] = "call"
    /\ Goto(c, "enter")
    /\ IF ~guarded THEN UNCHANGED sbomLock
       ELSE IF c \in Writers \cup Exclusive
       THEN ~Announced(sbomLock) /\ sbomLock' = Lock(sbomLock, c)
       ELSE sbomLock' = RLock(sbomLock, c)
    /\ UNCHANGED <<guarded, collectionLock, packages, items, enumerator, got>>

Enter(c) ==
    /\ pc[c] = "enter"
    /\ guarded => HasLock(sbomLock, c) \/ HasRead(sbomLock, c)
    /\ IF c \in Writers THEN Goto(c, "item") /\ UNCHANGED enumerator
       ELSE Goto(c, "receive") /\ enumerator' = [enumerator EXCEPT ![c].pc = "start"]
    /\ UNCHANGED <<guarded, sbomLock, collectionLock, packages, items, got>>

Leave(c) ==
    /\ pc[c] = "leave"
    /\ Goto(c, "done")
    /\ sbomLock' = IF HasLock(sbomLock, c) THEN Unlock(sbomLock) ELSE RUnlock(sbomLock, c)
    /\ UNCHANGED <<guarded, collectionLock, packages, items, enumerator, got>>

-------------------------------------------------------------------------------
(* Writers: Collection.Add and Delete lock the collection for each package,   *)
(* and the write event of the builder counts the packages.                    *)

LockCollection(w) ==
    /\ pc[w] = "item" /\ items[w] # <<>>
    /\ ~Announced(collectionLock)
    /\ collectionLock' = Lock(collectionLock, w)
    /\ Goto(w, "write")
    /\ UNCHANGED <<guarded, sbomLock, packages, items, enumerator, got>>

apply(P, i) == IF i.op = "add" THEN P \cup {i.package} ELSE P \ {i.package}

\* Mutation: an announced writer does not wait for the readers inside.
MutWriteItem(w) ==
    /\ pc[w] = "write"
    /\ packages' = apply(packages, Head(items[w]))
    /\ items' = [items EXCEPT ![w] = Tail(@)]
    /\ collectionLock' = Unlock(collectionLock)
    /\ Goto(w, "item")
    /\ UNCHANGED <<guarded, sbomLock, enumerator, got>>

WriteItem(w) ==
    /\ pc[w] = "write" /\ HasLock(collectionLock, w)
    /\ packages' = apply(packages, Head(items[w]))
    /\ items' = [items EXCEPT ![w] = Tail(@)]
    /\ collectionLock' = Unlock(collectionLock)
    /\ Goto(w, "item")
    /\ UNCHANGED <<guarded, sbomLock, enumerator, got>>

\* onWriteEvent: PackageCount
WriteEvent(w) ==
    /\ pc[w] = "item" /\ items[w] = <<>>
    /\ IF guarded
       THEN Goto(w, "count") /\ collectionLock' = RLock(collectionLock, w)
       ELSE Goto(w, "leave") /\ UNCHANGED collectionLock
    /\ UNCHANGED <<guarded, sbomLock, packages, items, enumerator, got>>

\* Mutation: the write event keeps the read lock.
MutCount(w) ==
    /\ pc[w] = "count" /\ HasRead(collectionLock, w)
    /\ Goto(w, "leave")
    /\ UNCHANGED <<guarded, sbomLock, collectionLock, packages, items, enumerator, got>>

Count(w) ==
    /\ pc[w] = "count" /\ HasRead(collectionLock, w)
    /\ collectionLock' = RUnlock(collectionLock, w)
    /\ Goto(w, "leave")
    /\ UNCHANGED <<guarded, sbomLock, packages, items, enumerator, got>>

-------------------------------------------------------------------------------
(* Collection.Enumerate: the goroutine, and its caller at the other end of an *)
(* unbuffered channel.  The caller takes everything that comes.               *)

EnumerateStart(r) ==
    /\ enumerator[r].pc = "start"
    /\ collectionLock' = RLock(collectionLock, Outer(r))
    /\ enumerator' = [enumerator EXCEPT ![r].pc = "locking"]
    /\ UNCHANGED <<guarded, sbomLock, packages, pc, items, got>>

EnumerateRange(r) ==
    /\ enumerator[r].pc = "locking" /\ HasRead(collectionLock, Outer(r))
    /\ enumerator' = [enumerator EXCEPT ![r].pc = "next", ![r].ids = packages]
    /\ UNCHANGED <<guarded, sbomLock, collectionLock, packages, pc, items, got>>

\* Package(id), in the order of a map.
PackageLock(r) ==
    /\ enumerator[r].pc = "next"
    /\ \E p \in enumerator[r].ids :
        enumerator' = [enumerator EXCEPT ![r] =
            [pc |-> "package", ids |-> @.ids \ {p}, current |-> {p}]]
    /\ collectionLock' = RLock(collectionLock, Inner(r))
    /\ UNCHANGED <<guarded, sbomLock, packages, pc, items, got>>

PackageRead(r) ==
    /\ enumerator[r].pc = "package" /\ HasRead(collectionLock, Inner(r))
    /\ collectionLock' = RUnlock(collectionLock, Inner(r))
    /\ LET found == enumerator[r].current \cap packages
       IN enumerator' = [enumerator EXCEPT
            ![r].pc = IF found # {} THEN "send" ELSE "next", ![r].current = found]
    /\ UNCHANGED <<guarded, sbomLock, packages, pc, items, got>>

Send(r) ==
    /\ enumerator[r].pc = "send" /\ pc[r] = "receive"
    /\ got' = [got EXCEPT ![r] = @ \cup enumerator[r].current]
    /\ enumerator' = [enumerator EXCEPT ![r].pc = "next", ![r].current = {}]
    /\ UNCHANGED <<guarded, sbomLock, collectionLock, packages, pc, items>>

EnumerateUnlock(r) ==
    /\ enumerator[r].pc = "next" /\ enumerator[r].ids = {}
    /\ collectionLock' = RUnlock(collectionLock, Outer(r))
    /\ enumerator' = [enumerator EXCEPT ![r].pc = "close"]
    /\ UNCHANGED <<guarded, sbomLock, packages, pc, items, got>>

\* close(channel) ends the loop of the caller.
Close(r) ==
    /\ enumerator[r].pc = "close"
    /\ enumerator' = [enumerator EXCEPT ![r].pc = "closed"]
    /\ Goto(r, "leave")
    /\ UNCHANGED <<guarded, sbomLock, collectionLock, packages, items, got>>

-------------------------------------------------------------------------------
Caller(c) == Call(c) \/ Enter(c) \/ Leave(c)
Writer(w) == Caller(w) \/ LockCollection(w) \/ WriteItem(w) \/ WriteEvent(w) \/ Count(w)
Enumerator(r) ==
    \/ EnumerateStart(r) \/ EnumerateRange(r) \/ PackageLock(r) \/ PackageRead(r)
    \/ Send(r) \/ EnumerateUnlock(r) \/ Close(r)

Next == (\E w \in Writers : Writer(w)) \/ (\E r \in Readers : Caller(r) \/ Enumerator(r))

\* A goroutine that can run is scheduled.
Fairness ==
    /\ \A w \in Writers : WF_vars(Writer(w))
    /\ \A r \in Readers : WF_vars(Caller(r)) /\ WF_vars(Enumerator(r))

Spec == Init /\ [][Next]_vars /\ Fairness

-------------------------------------------------------------------------------
(* Properties.                                                                *)

Where == {"call", "enter", "item", "write", "count", "receive", "leave", "done"}
EnumeratorWhere ==
    {"none", "start", "locking", "next", "package", "send", "close", "closed"}
Token == Writers \cup {Outer(r) : r \in Readers} \cup {Inner(r) : r \in Readers}

Mutex(T) == [readers : SUBSET T, waiting : SUBSET T, writer : SUBSET T]

EnumeratorState ==
    [pc : EnumeratorWhere, ids : SUBSET Package, current : SUBSET Package]

\* What a writer has yet to write is the rest of its batch.
Remaining ==
    /\ DOMAIN items = Writers
    /\ \A w \in Writers : \E n \in 0 .. Len(Batch[w]) :
            items[w] = SubSeq(Batch[w], n + 1, Len(Batch[w]))

\* Type invariant.
TypeOK ==
    /\ guarded \in BOOLEAN
    /\ packages \subseteq Package
    /\ pc \in [Writers \cup Readers -> Where]
    /\ enumerator \in [Readers -> EnumeratorState]
    /\ got \in [Readers -> SUBSET Package]
    /\ sbomLock \in Mutex(Writers \cup Readers)
    /\ collectionLock \in Mutex(Token)
    /\ Remaining

\* While an enumeration runs the collection is what was handed over together with
\* what is left to hand over, with or without the builder: each package of it
\* comes once, and no other does.
EnumerationExact ==
    \A r \in Readers : enumerator[r].pc \in {"next", "package", "send"} =>
        LET e == enumerator[r]
        IN /\ packages = got[r] \cup e.ids \cup e.current
           /\ got[r] \cap (e.ids \cup e.current) = {} /\ e.ids \cap e.current = {}

Effect(P, i) == apply(P, i) = P

\* Calls write about different packages, and none of it has happened at first: only then
\* can a reader tell what it finds of each.
BatchesApart ==
    /\ \A v, w \in Writers : \A i \in DOMAIN Batch[v], j \in DOMAIN Batch[w] :
            Batch[v][i].package = Batch[w][j].package => v = w /\ i = j
    /\ \A w \in Writers : \A i \in DOMAIN Batch[w] : ~Effect(Initial, Batch[w][i])

\* Through the builder a reader finds everything a call wrote or nothing of it, and
\* what it found is still the collection when its call returns.
BatchesWhole ==
    guarded => \A r \in Readers : pc[r] = "leave" =>
        /\ got[r] = packages
        /\ \A w \in Writers :
            \/ \A i \in ToSet(Batch[w]) : Effect(got[r], i)
            \/ \A i \in ToSet(Batch[w]) : ~Effect(got[r], i)

\* Through the builder every call returns, whoever writes while packages are
\* enumerated, and leaves both locks free behind it.
CallsReturn ==
    guarded => <>((\A c \in Writers \cup Readers : pc[c] = "done")
            /\ sbomLock = Unlocked /\ collectionLock = Unlocked)

\* "Enumerate all packages for the given type(s)" (syft/pkg/collection.go:251): an
\* enumeration that began comes to its end.
EnumerationEnds ==
    \A r \in Readers : enumerator[r].pc = "start" ~> enumerator[r].pc = "closed"
===============================================================================
