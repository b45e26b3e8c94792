----------------------------- MODULE ContentCache -----------------------------
(***************************************************************************)
(* Results of remote look-ups kept on disk between runs (internal/cache).  *)
(*                                                                         *)
(* A resolver reads the entry of a key or, where there is none, where it   *)
(* is older than the time to live or cannot be decoded, calls the function *)
(* it was given and writes the result.  An entry is one file.  Callers,    *)
(* which may be processes of their own, open and write it in place without *)
(* a lock, and may die anywhere.                                           *)
(*                                                                         *)
(* A content is written in pieces.  The decoder reads pieces until the     *)
(* value is closed, so what follows that piece does not matter to it.      *)
(***************************************************************************)
EXTENDS Naturals, Sequences, FiniteSets

CONSTANTS
    Caller, Key,
    Type, TypeOf,   \* types of results, and the one of each caller
    Fields,         \* type -> its fields: records [name, exported, tagged]
    Contents,       \* <<type, key>> -> contents its function may return
    Size,           \* content -> number of its pieces
    Failure,        \* what an error becomes where errors are cached
    Bypassing,      \* callers whose cache manager is the bypassed one
    TTL, None

Content == UNION {Contents[i] : i \in Type \X Key}

\* A hash tells types apart by the fields that are neither unexported nor tagged.
isIgnored(f) == ~f.exported \/ f.tagged
hashType(t) == {f \in Fields[t] : ~isIgnored(f)}
Hash == {hashType(t) : t \in Type}

\* Types the hash does not tell apart are encoded alike, so their functions may write
\* each other's entries.
ASSUME TypesAssumption ==
    /\ TypeOf \in [Caller -> Type]
    /\ Contents \in [Type \X Key -> SUBSET Content]
    /\ \A t, u \in Type : \A k \in Key :
            hashType(t) = hashType(u) => Contents[<<t, k>>] = Contents[<<u, k>>]

ASSUME SizesAssumption == Size \in [Content -> Nat \ {0}]
ASSUME NoneAssumption == TTL \in Nat /\ None \notin Content \cup Key \cup Caller

\* Where an entry is kept: a directory for the type, a file for the key.
Entry == Hash \X Key

\* A piece of a content; Hole is what a write past the end of a file leaves before it.
Hole == <<None, 0>>
Piece == UNION {{c} \X (1..Size[c]) : c \in Content}

Mixed == "mixed"   \* a value decoded from pieces of several contents

VARIABLES
    file,     \* entry -> its pieces
    age,      \* entry -> time since it was last written, up to TTL + 1
    call,     \* caller -> [pc, key, got, value, wrote, served]
    resolved, \* what functions have returned: <<type, key, content>>
    opener,   \* entry -> the caller that created or emptied it last, None without a file
    hurt      \* entries whose last opener stopped half-way

vars == <<file, age, call, resolved, opener, hurt>>

At(p, pc) == call[p].pc = pc

\* A caller that has read and written nothing.
Fresh(pc, key, value, served) ==
    [pc |-> pc, key |-> key, got |-> <<>>, value |-> value, wrote |-> 0, served |-> served]
Idle == Fresh("idle", None, None, FALSE)

Init ==
    /\ file = [e \in Entry |-> <<>>]
    /\ age = [e \in Entry |-> 0]
    /\ call = [p \in Caller |-> Idle]
    /\ resolved = {}
    /\ opener = [e \in Entry |-> None]
    /\ hurt = {}

\* Mutation: one directory for every type.
MutMakeEntry(t, k) == <<hashType(CHOOSE u \in Type : TRUE), k>>

makeEntry(t, k) == <<hashType(t), k>>
EntryOf(p) == makeEntry(TypeOf[p], call[p].key)
Goto(p, pc) == call' = [call EXCEPT ![p].pc = pc]

\* The call returns what its function returned, or an error.
Return(p) == call' = [call EXCEPT ![p] = Idle]

\* p stops in the middle of a write.
Stop(p) ==
    hurt' = IF At(p, "write") /\ opener[EntryOf(p)] = p THEN hurt \cup {EntryOf(p)} ELSE hurt

-------------------------------------------------------------------------------
(* Reading.                                                                   *)

Resolve(p, k) ==
    /\ At(p, "idle")
    /\ call' = [call EXCEPT ![p] = Fresh("open", k, None, FALSE)]
    /\ UNCHANGED <<file, age, resolved, opener, hurt>>

\* No cache, no file, or one that cannot be opened.
Open(p) ==
    /\ At(p, "open")
    /\ \/ Goto(p, "run")
       \/ p \notin Bypassing /\ opener[EntryOf(p)] # None /\ Goto(p, "stat")
    /\ UNCHANGED <<file, age, resolved, opener, hurt>>

Stat(p) ==
    /\ At(p, "stat")
    /\ \/ age[EntryOf(p)] <= TTL /\ Goto(p, "decode")
       \/ age[EntryOf(p)] > TTL /\ Goto(p, "run")
    /\ UNCHANGED <<file, age, resolved, opener, hurt>>

(* The next piece of what the file holds by now.  Pieces of two contents may  *)
(* or may not make a value; a hole or the end of the file does not.           *)
Decode(p) ==
    /\ At(p, "decode")
    /\ LET next == Len(call[p].got) + 1
           data == file[EntryOf(p)]
           same(piece) == \A i \in DOMAIN call[p].got : call[p].got[i][1] = piece[1]
           value == IF same(data[next]) THEN data[next][1] ELSE Mixed
       IN \/ /\ next \in DOMAIN data
             /\ data[next] # Hole
             /\ call' = IF next = Size[data[next][1]]
                        THEN [call EXCEPT ![p] = Fresh("idle", @.key, value, TRUE)]
                        ELSE [call EXCEPT ![p].got = Append(@, data[next])]
          \/ /\ ~(next \in DOMAIN data /\ data[next] # Hole /\ same(data[next]))
             /\ call' = [call EXCEPT ![p] = Fresh("run", @.key, None, FALSE)]
    /\ UNCHANGED <<file, age, resolved, opener, hurt>>

-------------------------------------------------------------------------------
(* Resolving and writing.                                                     *)

\* resolveAndCache; where errors are cached one is a value like any other.
Run(p) ==
    /\ At(p, "run")
    /\ \/ /\ \E c \in Contents[<<TypeOf[p], call[p].key>>] :
                /\ IF p \in Bypassing THEN Return(p)
                   ELSE call' = [call EXCEPT ![p] = Fresh("create", @.key, c, FALSE)]
                /\ resolved' = resolved \cup {<<TypeOf[p], call[p].key, c>>}
       \/ /\ Failure \notin Contents[<<TypeOf[p], call[p].key>>]
          /\ Return(p)
          /\ UNCHANGED resolved
    /\ UNCHANGED <<file, age, opener, hurt>>

\* The file is created, or emptied where it exists.
Create(p) ==
    /\ At(p, "create")
    /\ file' = [file EXCEPT ![EntryOf(p)] = <<>>]
    /\ age' = [age EXCEPT ![EntryOf(p)] = 0]
    /\ opener' = [opener EXCEPT ![EntryOf(p)] = p]
    /\ hurt' = hurt \ {EntryOf(p)}
    /\ Goto(p, "write")
    /\ UNCHANGED resolved

\* data with piece at place i, which may lie past its end.
Put(data, i, piece) ==
    [j \in 1..(IF i > Len(data) THEN i ELSE Len(data)) |->
        IF j = i THEN piece ELSE IF j <= Len(data) THEN data[j] ELSE Hole]

\* Mutation: pieces go to the end of the file.
MutWrite(p) ==
    /\ At(p, "write")
    /\ LET e == EntryOf(p)
           next == call[p].wrote + 1
       IN /\ file' = [file EXCEPT ![e] = Append(@, <<call[p].value, next>>)]
          /\ age' = [age EXCEPT ![e] = 0]
          /\ IF next = Size[call[p].value] THEN Return(p)
             ELSE call' = [call EXCEPT ![p].wrote = next]
    /\ UNCHANGED <<resolved, opener, hurt>>

\* Each caller writes where its own offset is, whatever others did to the file.
Write(p) ==
    /\ At(p, "write")
    /\ LET e == EntryOf(p)
           next == call[p].wrote + 1
       IN /\ file' = [file EXCEPT ![e] = Put(@, next, <<call[p].value, next>>)]
          /\ age' = [age EXCEPT ![e] = 0]
          /\ IF next = Size[call[p].value] THEN Return(p)
             ELSE call' = [call EXCEPT ![p].wrote = next]
    /\ UNCHANGED <<resolved, opener, hurt>>

\* A write that fails: the call returns the error, and the value with it.
WriteFails(p) ==
    /\ call[p].pc \in {"create", "write"}
    /\ Return(p)
    /\ Stop(p)
    /\ UNCHANGED <<file, age, resolved, opener>>

Crash(p) ==
    /\ ~At(p, "idle")
    /\ Return(p)
    /\ Stop(p)
    /\ UNCHANGED <<file, age, resolved, opener>>

Tick ==
    /\ \E e \in Entry : age[e] <= TTL
    /\ age' = [e \in Entry |-> IF age[e] <= TTL THEN age[e] + 1 ELSE age[e]]
    /\ UNCHANGED <<file, call, resolved, opener, hurt>>

Step(p) == Open(p) \/ Stat(p) \/ Decode(p) \/ Run(p) \/ Create(p) \/ Write(p) \/ WriteFails(p)

Next ==
    \/ \E p \in Caller : Step(p) \/ Crash(p) \/ \E k \in Key : Resolve(p, k)
    \/ Tick

Spec == Init /\ [][Next]_vars

-------------------------------------------------------------------------------
CallRecord ==
    [pc : {"idle", "open", "stat", "decode", "run", "create", "write"},
     key : Key \cup {None}, got : Seq(Piece), value : Content \cup {None, Mixed},
     wrote : Nat, served : BOOLEAN]

TypeOK ==
    /\ file \in [Entry -> Seq(Piece \cup {Hole})]
    /\ age \in [Entry -> 0..TTL + 1]
    /\ call \in [Caller -> CallRecord]
    /\ resolved \subseteq Type \X Key \X Content
    /\ opener \in [Entry -> Caller \cup {None}]
    /\ hurt \subseteq Entry

\* The types read from the same entries as t.
Like(t) == {u \in Type : hashType(u) = hashType(t)}

\* Every function that may be asked for k returns the same.
Agreed(t, k) == \A c, d \in Contents[<<t, k>>] : c = d

\* What a call takes from the cache is what a function for the same key and a type of
\* the same structure has returned, in one piece: never a part of it, never a blend of
\* what several callers wrote into the file, whoever died in the middle of writing it.
ServedWasResolved ==
    \A p \in Caller :
        At(p, "idle") /\ call[p].served /\ Agreed(TypeOf[p], call[p].key) =>
            \E t \in Like(TypeOf[p]) : <<t, call[p].key, call[p].value>> \in resolved

Decodes(data) ==
    \E c \in Content : \A i \in 1..Size[c] : i \in DOMAIN data /\ data[i] = <<c, i>>

\* The caller that emptied a file last decides: once it has written what it had, the
\* entry can be read, however its pieces were interleaved with those of others and
\* whatever state an earlier caller had left the file in.
WholeOnceWritten ==
    \A t \in Type, k \in Key :
        LET e == makeEntry(t, k)
        IN /\ opener[e] # None
           /\ Agreed(t, k)
           /\ e \notin hurt
           /\ ~(At(opener[e], "write") /\ EntryOf(opener[e]) = e)
           => Decodes(file[e])
===============================================================================
