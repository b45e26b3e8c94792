-------------------------- MODULE ContentCacheProofs --------------------------
(* Proofs that what ContentCache serves was resolved, and that a finished write  *)
(* leaves a readable entry, for any callers, keys, types and contents.           *)
EXTENDS ContentCache, TLAPS

\* What functions have returned for an entry.
Provided(e) == {c \in Content : \E t \in Type : hashType(t) = e[1] /\ <<t, e[2], c>> \in resolved}

AgreedEntry(e) ==
    \A t, u \in Type : hashType(t) = e[1] /\ hashType(u) = e[1] =>
        \A c \in Contents[<<t, e[2]>>], d \in Contents[<<u, e[2]>>] : c = d

Genuine == \A r \in resolved : r[3] \in Contents[<<r[1], r[2]>>]

\* The pieces of a file are where they belong.
PiecesInPlace ==
    \A e \in Entry : \A i \in DOMAIN file[e] :
        file[e][i] # Hole => file[e][i][2] = i /\ file[e][i][1] \in Provided(e)

\* What a caller holds, r being its record, was returned for the entry it is about.
Holds(p, r) ==
    LET e == makeEntry(TypeOf[p], r.key) IN
    /\ r.pc # "idle" => r.key \in Key
    /\ r.pc \in {"stat", "decode", "write"} => opener[e] # None
    /\ \A i \in DOMAIN r.got : r.got[i][1] \in Provided(e)
    /\ r.pc \in {"create", "write"} => r.value \in Provided(e)
    /\ r.pc = "write" => r.wrote < Size[r.value]
    /\ r.pc # "write" => r.wrote = 0
    /\ r.pc = "idle" /\ r.served =>
        r.key \in Key /\ (AgreedEntry(e) => r.value \in Provided(e))

CallersHold == \A p \in Caller : Holds(p, call[p])

Writing(p, e) == At(p, "write") /\ EntryOf(p) = e

\* What the last opener of a file has written so far is there.
OpenersWrote ==
    \A e \in Entry :
        opener[e] # None /\ AgreedEntry(e) /\ e \notin hurt =>
            IF Writing(opener[e], e)
            THEN \A i \in 1..call[opener[e]].wrote :
                    i \in DOMAIN file[e] /\ file[e][i] = <<call[opener[e]].value, i>>
            ELSE Decodes(file[e])

IInv == TypeOK /\ Genuine /\ PiecesInPlace /\ CallersHold /\ OpenersWrote

-------------------------------------------------------------------------------

\* Contents provided for an entry on which its functions agree are one.
LEMMA OneContent ==
    ASSUME Genuine, NEW e \in Entry, AgreedEntry(e),
           NEW c \in Provided(e), NEW d \in Provided(e)
    PROVE  c = d
<1>1. PICK t \in Type : hashType(t) = e[1] /\ <<t, e[2], c>> \in resolved
  BY DEF Provided
<1>2. PICK u \in Type : hashType(u) = e[1] /\ <<u, e[2], d>> \in resolved
  BY DEF Provided
<1>3. c \in Contents[<<t, e[2]>>] /\ d \in Contents[<<u, e[2]>>]
  BY <1>1, <1>2 DEF Genuine
<1> QED  BY <1>1, <1>2, <1>3 DEF AgreedEntry

\* Types read from one entry have the same contents, so agreeing on a key of one is
\* agreeing on the entry.
LEMMA AgreedIsOfEntry ==
    ASSUME NEW t \in Type, NEW k \in Key
    PROVE  /\ makeEntry(t, k) \in Entry
           /\ Agreed(t, k) => AgreedEntry(makeEntry(t, k))
<1>1. makeEntry(t, k) \in Entry
  BY DEF makeEntry, Entry, Hash
<1>2. ASSUME Agreed(t, k), NEW u \in Type, NEW v \in Type, hashType(u) = hashType(t),
             hashType(v) = hashType(t), NEW c \in Contents[<<u, k>>], NEW d \in Contents[<<v, k>>]
      PROVE  c = d
  <2>1. Contents[<<u, k>>] = Contents[<<t, k>>] /\ Contents[<<v, k>>] = Contents[<<t, k>>]
    BY <1>2, TypesAssumption
  <2> QED  BY <1>2, <2>1 DEF Agreed
<1>3. Agreed(t, k) => AgreedEntry(makeEntry(t, k))
  BY <1>2 DEF AgreedEntry, makeEntry
<1> QED  BY <1>1, <1>3

LEMMA EntryOfCaller ==
    ASSUME NEW p \in Caller, call[p].key \in Key
    PROVE  EntryOf(p) \in Entry
BY TypesAssumption DEF EntryOf, makeEntry, Entry, Hash

LEMMA InitIInv == Init => IInv
<1> SUFFICES ASSUME Init PROVE IInv
  OBVIOUS
<1>1. TypeOK
  BY NoneAssumption DEF Init, TypeOK, Idle, Fresh, CallRecord
<1>2. Genuine /\ PiecesInPlace /\ OpenersWrote
  BY DEF Init, Genuine, PiecesInPlace, OpenersWrote
<1>3. CallersHold
  BY DEF Init, CallersHold, Holds, Idle, Fresh
<1> QED  BY <1>1, <1>2, <1>3 DEF IInv

\* A step of one caller that neither writes before nor after it, and touches nothing else.
LEMMA CallOnlyIInv ==
    ASSUME IInv, NEW p \in Caller, NEW r \in CallRecord,
           UNCHANGED <<file, age, resolved, opener, hurt>>,
           call' = [call EXCEPT ![p] = r],
           ~At(p, "write"), r.pc # "write", Holds(p, r)
    PROVE  IInv'
<1>1. TypeOK'
  BY DEF IInv, TypeOK
<1>2. Genuine' /\ PiecesInPlace'
  BY DEF IInv, Genuine, PiecesInPlace, Provided
<1>3. CallersHold'
  <2>1. \A q \in Caller : Holds(q, call'[q])
    BY DEF IInv, TypeOK, CallersHold
  <2>2. \A e : Provided(e)' = Provided(e)
    BY DEF Provided
  <2> QED  BY <2>1, <2>2 DEF CallersHold, Holds
<1>4. OpenersWrote'
  <2>1. ASSUME NEW q \in Caller, NEW e \in Entry
        PROVE  /\ Writing(q, e)' <=> Writing(q, e)
               /\ Writing(q, e) => call'[q] = call[q]
    BY DEF Writing, At, EntryOf, IInv, TypeOK
  <2>2. \A e \in Entry : opener[e] # None => opener[e] \in Caller
    BY DEF IInv, TypeOK
  <2> QED  BY <2>1, <2>2 DEF IInv, OpenersWrote, AgreedEntry
<1> QED  BY <1>1, <1>2, <1>3, <1>4 DEF IInv

LEMMA ResolveIInv ==
    ASSUME IInv, NEW p \in Caller, NEW k \in Key, Resolve(p, k)
    PROVE  IInv'
<1> DEFINE r == Fresh("open", k, None, FALSE)
<1>1. r \in CallRecord /\ r.pc = "open" /\ Holds(p, r)
  BY DEF Fresh, CallRecord, Holds
<1> QED  BY <1>1, CallOnlyIInv DEF Resolve, At

\* Moves from one place to another that is not about writing.
LEMMA GotoIInv ==
    ASSUME IInv, NEW p \in Caller, NEW pc \in {"stat", "decode", "run"},
           UNCHANGED <<file, age, resolved, opener, hurt>>, Goto(p, pc),
           call[p].pc \in {"open", "stat", "decode"},
           pc \in {"stat", "decode"} => opener[EntryOf(p)] # None
    PROVE  IInv'
<1> DEFINE r == [call[p] EXCEPT !.pc = pc]
<1>0. call[p] \in CallRecord
  BY DEF IInv, TypeOK
<1>1. r \in CallRecord /\ r.pc = pc /\ r.key = call[p].key /\ r.got = call[p].got
      /\ r.wrote = call[p].wrote
  BY <1>0 DEF CallRecord
<1>2. Holds(p, r)
  BY <1>1 DEF IInv, CallersHold, Holds, EntryOf
<1>3. call' = [call EXCEPT ![p] = r]
  BY DEF Goto
<1> QED  BY <1>1, <1>2, <1>3, CallOnlyIInv DEF At

LEMMA OpenIInv == ASSUME IInv, NEW p \in Caller, Open(p) PROVE IInv'
BY GotoIInv DEF Open, At

LEMMA StatIInv == ASSUME IInv, NEW p \in Caller, Stat(p) PROVE IInv'
<1>1. call[p].pc = "stat" /\ opener[EntryOf(p)] # None
  BY DEF Stat, At, IInv, CallersHold, Holds, EntryOf
<1> QED  BY <1>1, GotoIInv DEF Stat

\* Return leaves a record that says nothing.
LEMMA IdleHolds ==
    ASSUME NEW p \in Caller
    PROVE  Idle \in CallRecord /\ Idle.pc = "idle" /\ Holds(p, Idle)
BY DEF Idle, Fresh, CallRecord, Holds

\* Decoding ends with a value that every piece of it was provided for, or with none.
LEMMA DecodeIInv == ASSUME IInv, NEW p \in Caller, Decode(p) PROVE IInv'
<1> DEFINE e == EntryOf(p)
           data == file[e]
           next == Len(call[p].got) + 1
           same(piece) == \A i \in DOMAIN call[p].got : call[p].got[i][1] = piece[1]
<1>1. /\ call[p] \in CallRecord /\ call[p].pc = "decode" /\ call[p].key \in Key
      /\ Holds(p, call[p]) /\ e \in Entry
  BY EntryOfCaller DEF Decode, At, IInv, TypeOK, CallersHold, Holds, EntryOf
<1>2. CASE /\ next \in DOMAIN data /\ data[next] # Hole
           /\ next = Size[data[next][1]]
           /\ call' = [call EXCEPT ![p] = Fresh("idle", call[p].key,
                    IF same(data[next]) THEN data[next][1] ELSE Mixed, TRUE)]
  <2> DEFINE v == IF same(data[next]) THEN data[next][1] ELSE Mixed
             r == Fresh("idle", call[p].key, v, TRUE)
  <2>1. data[next][1] \in Provided(e)
    BY <1>1, <1>2 DEF IInv, PiecesInPlace
  <2>2. v \in Content \cup {None, Mixed}
    BY <2>1 DEF Provided
  <2>3. r \in CallRecord /\ r.pc = "idle"
    BY <1>1, <2>2 DEF Fresh, CallRecord
  <2>4. ASSUME AgreedEntry(e) PROVE v \in Provided(e)
    <3>1. \A i \in DOMAIN call[p].got : call[p].got[i][1] = data[next][1]
      BY <1>1, <2>1, <2>4, OneContent DEF Holds, EntryOf, IInv
    <3> QED  BY <2>1, <3>1
  <2>5. Holds(p, r)
    BY <1>1, <2>4 DEF Fresh, Holds, EntryOf
  <2> QED  BY <1>1, <1>2, <2>3, <2>5, CallOnlyIInv DEF Decode, At
<1>3. CASE /\ next \in DOMAIN data /\ data[next] # Hole
           /\ call' = [call EXCEPT ![p].got = Append(@, data[next])]
  <2> DEFINE r == [call[p] EXCEPT !.got = Append(call[p].got, data[next])]
  <2>1. data[next] \in Piece /\ data[next][1] \in Provided(e)
    BY <1>1, <1>3 DEF IInv, TypeOK, PiecesInPlace
  <2>2. Append(call[p].got, data[next]) \in Seq(Piece)
    BY <1>1, <2>1 DEF CallRecord
  <2>3. r \in CallRecord /\ r.pc = "decode" /\ r.key = call[p].key /\ r.wrote = call[p].wrote
        /\ r.got = Append(call[p].got, data[next])
    BY <1>1, <2>2 DEF CallRecord
  <2>4. \A i \in DOMAIN r.got : r.got[i][1] \in Provided(e)
    BY <1>1, <2>1, <2>3 DEF CallRecord, Holds, EntryOf
  <2>5. Holds(p, r)
    BY <1>1, <2>3, <2>4 DEF Holds, EntryOf
  <2>6. call' = [call EXCEPT ![p] = r]
    BY <1>3
  <2> QED  BY <1>1, <2>3, <2>5, <2>6, CallOnlyIInv DEF Decode, At
<1>4. CASE call' = [call EXCEPT ![p] = Fresh("run", @.key, None, FALSE)]
  <2> DEFINE r == Fresh("run", call[p].key, None, FALSE)
  <2>1. r \in CallRecord /\ r.pc = "run"
    BY <1>1 DEF Fresh, CallRecord
  <2>2. Holds(p, r)
    BY <1>1 DEF Fresh, Holds
  <2> QED  BY <1>1, <1>4, <2>1, <2>2, CallOnlyIInv DEF Decode, At
<1> QED  BY <1>2, <1>3, <1>4 DEF Decode

LEMMA RunIInv == ASSUME IInv, NEW p \in Caller, Run(p) PROVE IInv'
<1>0. call[p].key \in Key
  BY DEF Run, At, IInv, CallersHold, Holds
<1> PICK k \in Key : k = call[p].key
  BY <1>0
<1>1. call[p] \in CallRecord /\ call[p].pc = "run"
  BY DEF Run, At, IInv, TypeOK
<1>2. CASE UNCHANGED resolved /\ Return(p)
  BY <1>1, <1>2, IdleHolds, CallOnlyIInv DEF Run, Return, At
<1>3. ASSUME NEW c \in Contents[<<TypeOf[p], k>>], NEW r \in {Idle, Fresh("create", k, c, FALSE)},
             call' = [call EXCEPT ![p] = r],
             resolved' = resolved \cup {<<TypeOf[p], k, c>>},
             UNCHANGED <<file, age, opener, hurt>>
      PROVE  IInv'
  <2>1. c \in Content /\ <<TypeOf[p], k>> \in Type \X Key
    BY TypesAssumption
  <2>2. r \in CallRecord /\ r.pc # "write"
    <3>1. Fresh("create", k, c, FALSE) \in CallRecord /\ Fresh("create", k, c, FALSE).pc = "create"
      BY <2>1 DEF Fresh, CallRecord
    <3> QED  BY <3>1, IdleHolds
  <2>3. \A e : Provided(e) \subseteq Provided(e)'
    BY <1>3 DEF Provided
  <2>4. c \in Provided(makeEntry(TypeOf[p], k))'
    BY <1>1, <1>3, <2>1 DEF Provided, makeEntry
  <2>5. TypeOK'
    BY <1>3, <2>1, <2>2 DEF IInv, TypeOK
  <2>6. Genuine'
    <3>1. ASSUME NEW x \in resolved' PROVE x[3] \in Contents[<<x[1], x[2]>>]
      BY <1>3 DEF IInv, Genuine
    <3> QED  BY <3>1 DEF Genuine
  <2>7. PiecesInPlace'
    BY <1>3, <2>3 DEF IInv, PiecesInPlace
  <2>8. CallersHold'
    <3>1. Holds(p, r)'
      BY <1>1, <1>3, <2>4 DEF Holds, Fresh, Idle
    <3>2. ASSUME NEW q \in Caller, q # p PROVE Holds(q, call[q])'
      <4>1. Holds(q, call[q]) /\ call'[q] = call[q]
        BY <1>3, <3>2 DEF IInv, TypeOK, CallersHold
      <4> QED  BY <1>3, <4>1, <2>3 DEF Holds, AgreedEntry
    <3>3. call'[p] = r
      BY <1>3 DEF IInv, TypeOK
    <3> QED  BY <3>1, <3>2, <3>3 DEF CallersHold, Holds
  <2>9. OpenersWrote'
    <3>1. ASSUME NEW q \in Caller, NEW e \in Entry
          PROVE  /\ Writing(q, e)' <=> Writing(q, e)
                 /\ Writing(q, e) => call'[q] = call[q]
      BY <1>1, <1>3, <2>2 DEF Writing, At, EntryOf, IInv, TypeOK
    <3>2. \A e \in Entry : opener[e] # None => opener[e] \in Caller
      BY DEF IInv, TypeOK
    <3> QED  BY <1>3, <3>1, <3>2 DEF IInv, OpenersWrote, AgreedEntry
  <2> QED  BY <2>5, <2>6, <2>7, <2>8, <2>9 DEF IInv
<1>4. ASSUME NEW c \in Contents[<<TypeOf[p], k>>], p \in Bypassing, Return(p),
             resolved' = resolved \cup {<<TypeOf[p], k, c>>},
             UNCHANGED <<file, age, opener, hurt>>
      PROVE  IInv'
  BY <1>3, <1>4 DEF Return
<1>5. ASSUME NEW c \in Contents[<<TypeOf[p], k>>],
             call' = [call EXCEPT ![p] = Fresh("create", @.key, c, FALSE)],
             resolved' = resolved \cup {<<TypeOf[p], k, c>>},
             UNCHANGED <<file, age, opener, hurt>>
      PROVE  IInv'
  BY <1>3, <1>5
<1> QED  BY <1>2, <1>4, <1>5 DEF Run, EntryOf

LEMMA CreateIInv == ASSUME IInv, NEW p \in Caller, Create(p) PROVE IInv'
<1>0. call[p] \in CallRecord /\ EntryOf(p) \in Entry /\ Holds(p, call[p]) /\ call[p].pc = "create"
  BY EntryOfCaller DEF Create, At, IInv, TypeOK, CallersHold, Holds
<1> PICK e \in Entry : e = EntryOf(p)
  BY <1>0
<1> PICK r : r = [call[p] EXCEPT !.pc = "write"]
  OBVIOUS
<1>1. /\ call[p] \in CallRecord /\ call[p].pc = "create" /\ call[p].key \in Key
      /\ Holds(p, call[p]) /\ call[p].wrote = 0 /\ e = makeEntry(TypeOf[p], call[p].key)
  BY <1>0 DEF Holds, EntryOf
<1>2. /\ r \in CallRecord /\ r.pc = "write" /\ r.key = call[p].key /\ r.value = call[p].value
      /\ r.wrote = 0 /\ r.got = call[p].got /\ r.served = call[p].served
  BY <1>1 DEF CallRecord
<1>3. call' = [call EXCEPT ![p] = r] /\ call'[p] = r
  BY DEF Create, Goto, IInv, TypeOK
<1>4. file' = [file EXCEPT ![e] = <<>>] /\ \A f : Provided(f)' = Provided(f)
  BY DEF Create, Provided
<1>5. TypeOK'
  BY <1>1, <1>2, <1>3, NoneAssumption DEF IInv, TypeOK, Create
<1>6. file'[e] = <<>> /\ \A f \in Entry : f # e => file'[f] = file[f]
  BY <1>1, <1>4 DEF IInv, TypeOK
<1>7. Genuine' /\ PiecesInPlace'
  BY <1>4, <1>6 DEF IInv, Genuine, PiecesInPlace, Create
<1>8. CallersHold'
  <2>1. Holds(p, r)'
    <3>1. opener'[e] # None
      BY NoneAssumption DEF Create, IInv, TypeOK
    <3>2. r.value \in Content /\ r.value \in Provided(e)
      BY <1>1, <1>2 DEF Holds, Provided
    <3>3. 0 < Size[r.value]
      BY <3>2, SizesAssumption
    <3> QED  BY <1>1, <1>2, <1>4, <3>1, <3>2, <3>3 DEF Holds
  <2>2. ASSUME NEW q \in Caller, q # p PROVE Holds(q, call[q])'
    <3>1. Holds(q, call[q]) /\ call'[q] = call[q]
      BY <1>3, <2>2 DEF IInv, TypeOK, CallersHold
    <3>2. \A f \in Entry : opener[f] # None => opener'[f] # None
      BY <1>1, NoneAssumption DEF Create, IInv, TypeOK
    <3>3. call[q].key \in Key => makeEntry(TypeOf[q], call[q].key) \in Entry
      BY EntryOfCaller DEF EntryOf
    <3> QED  BY <1>4, <3>1, <3>2, <3>3 DEF Holds, AgreedEntry
  <2> QED  BY <1>3, <2>1, <2>2 DEF CallersHold
<1>9. OpenersWrote'
  <2> SUFFICES ASSUME NEW f \in Entry, opener'[f] # None, AgreedEntry(f), f \notin hurt'
               PROVE  IF Writing(opener[f], f)'
                      THEN \A i \in 1..call'[opener'[f]].wrote :
                            i \in DOMAIN file'[f] /\ file'[f][i] = <<call'[opener'[f]].value, i>>
                      ELSE Decodes(file'[f])
    BY DEF OpenersWrote, AgreedEntry
  <2>1. CASE f = e
    <3>1. opener'[f] = p /\ Writing(opener[f], f)'
      BY <1>1, <1>2, <1>3, <2>1 DEF Create, IInv, TypeOK, Writing, At, EntryOf
    <3> QED  BY <1>2, <1>3, <3>1
  <2>2. CASE f # e
    <3>1. opener'[f] = opener[f] /\ f \notin hurt /\ file'[f] = file[f] /\ opener[f] \in Caller
      BY <1>1, <1>6, <2>2 DEF Create, IInv, TypeOK
    <3>2. /\ Writing(opener[f], f)' <=> Writing(opener[f], f)
          /\ Writing(opener[f], f) => call'[opener[f]] = call[opener[f]]
      BY <1>1, <1>2, <1>3, <2>2, <3>1 DEF Writing, At, EntryOf, IInv, TypeOK
    <3> QED  BY <3>1, <3>2 DEF IInv, OpenersWrote
  <2> QED  BY <2>1, <2>2
<1> QED  BY <1>5, <1>7, <1>8, <1>9 DEF IInv

\* What Put does to the pieces of a file.
LEMMA PutPieces ==
    ASSUME NEW data \in Seq(Piece \cup {Hole}), NEW i \in Nat \ {0}, NEW piece \in Piece
    PROVE  /\ Put(data, i, piece) \in Seq(Piece \cup {Hole})
           /\ i \in DOMAIN Put(data, i, piece)
           /\ Put(data, i, piece)[i] = piece
           /\ DOMAIN data \subseteq DOMAIN Put(data, i, piece)
           /\ \A j \in DOMAIN data : j # i => Put(data, i, piece)[j] = data[j]
           /\ \A j \in DOMAIN Put(data, i, piece) :
                j # i /\ j \notin DOMAIN data => Put(data, i, piece)[j] = Hole
BY DEF Put

\* A piece keeps a file that can be read readable where contents agree.
LEMMA StaysReadable ==
    ASSUME NEW e \in Entry, NEW data \in Seq(Piece \cup {Hole}), Genuine, AgreedEntry(e),
           \A j \in DOMAIN data : data[j] # Hole => data[j][1] \in Provided(e),
           NEW c \in Provided(e), NEW i \in 1..Size[c], Decodes(data)
    PROVE  Decodes(Put(data, i, <<c, i>>))
<1>1. c \in Content /\ i \in Nat \ {0} /\ <<c, i>> \in Piece
  BY DEF Provided, Piece
<1>2. PICK d \in Content : \A j \in 1..Size[d] : j \in DOMAIN data /\ data[j] = <<d, j>>
  BY DEF Decodes
<1>3. 1 \in 1..Size[d] /\ <<d, 1>> # Hole
  BY SizesAssumption DEF Hole
<1>4. d = c
  <2>0. 1 \in DOMAIN data /\ data[1] = <<d, 1>>
    BY <1>2, <1>3, Zenon
  <2>1. 1 \in DOMAIN data /\ data[1] # Hole /\ data[1][1] = d
    BY <1>3, <2>0
  <2>2. d \in Provided(e)
    BY <2>1
  <2> QED  BY <2>2, OneContent
<1> DEFINE out == Put(data, i, <<c, i>>)
<1>p. /\ i \in DOMAIN out /\ out[i] = <<c, i>> /\ DOMAIN data \subseteq DOMAIN out
      /\ \A j \in DOMAIN data : j # i => out[j] = data[j]
  BY <1>1 DEF Put
<1>5. \A j \in 1..Size[c] : j \in DOMAIN out /\ out[j] = <<c, j>>
  <2> HIDE DEF out
  <2> QED  BY <1>2, <1>4, <1>p
<1> QED  BY <1>1, <1>5 DEF Decodes

LEMMA WriteIInv == ASSUME IInv, NEW p \in Caller, Write(p) PROVE IInv'
<1>0. call[p] \in CallRecord /\ EntryOf(p) \in Entry /\ Holds(p, call[p]) /\ call[p].pc = "write"
  BY EntryOfCaller DEF Write, At, IInv, TypeOK, CallersHold, Holds
<1> PICK e \in Entry : e = EntryOf(p)
  BY <1>0
<1>1. /\ e = makeEntry(TypeOf[p], call[p].key) /\ call[p].key \in Key
      /\ call[p].value \in Provided(e) /\ call[p].value \in Content
      /\ call[p].wrote \in Nat /\ call[p].wrote < Size[call[p].value] /\ opener[e] # None
  BY <1>0 DEF Holds, EntryOf, Provided, CallRecord
<1> PICK c \in Content : c = call[p].value
  BY <1>1
<1> PICK n \in 1..Size[c] : n = call[p].wrote + 1
  BY <1>1, SizesAssumption
<1>n. n \in Nat \ {0} /\ Size[c] \in Nat /\ n <= Size[c] /\ n - 1 = call[p].wrote
  BY <1>1, SizesAssumption
<1> PICK r : r = IF n = Size[c] THEN Idle ELSE [call[p] EXCEPT !.wrote = n]
  OBVIOUS
<1>2. /\ r \in CallRecord
      /\ n = Size[c] => r = Idle
      /\ n # Size[c] => /\ r.pc = "write" /\ r.key = call[p].key /\ r.value = c
                        /\ r.wrote = n /\ r.got = call[p].got
  <2>1. n \in Nat
    BY <1>1
  <2>2. CASE n = Size[c]
    BY <2>2, IdleHolds
  <2>3. CASE n # Size[c]
    <3>1. r = [call[p] EXCEPT !.wrote = n]
      BY <2>3
    <3>2. r \in CallRecord /\ r.wrote = n
      BY <1>0, <2>1, <3>1 DEF CallRecord
    <3>3. r.pc = "write" /\ r.key = call[p].key /\ r.value = c /\ r.got = call[p].got
      BY <1>0, <3>1 DEF CallRecord
    <3> QED  BY <2>3, <3>2, <3>3
  <2> QED  BY <2>2, <2>3
<1>3. call' = [call EXCEPT ![p] = r] /\ call'[p] = r /\ \A q \in Caller : q # p => call'[q] = call[q]
  BY <1>0 DEF Write, Return, IInv, TypeOK
<1>4. /\ file' = [file EXCEPT ![e] = Put(file[e], n, <<c, n>>)]
      /\ UNCHANGED <<resolved, opener, hurt>> /\ \A f : Provided(f)' = Provided(f)
  BY DEF Write, Provided
<1>5. file[e] \in Seq(Piece \cup {Hole}) /\ <<c, n>> \in Piece /\ n \in Nat \ {0}
  BY DEF IInv, TypeOK, Piece
<1>6. file'[e] = Put(file[e], n, <<c, n>>)
      /\ \A f \in Entry : f # e => file'[f] = file[f]
  BY <1>4 DEF IInv, TypeOK
<1> PICK out : out = Put(file[e], n, <<c, n>>)
  OBVIOUS
<1>p. /\ out \in Seq(Piece \cup {Hole})
      /\ n \in DOMAIN out /\ out[n] = <<c, n>> /\ DOMAIN file[e] \subseteq DOMAIN out
      /\ \A j \in DOMAIN file[e] : j # n => out[j] = file[e][j]
      /\ \A j \in DOMAIN out : j # n /\ j \notin DOMAIN file[e] => out[j] = Hole
  <2> PICK data \in Seq(Piece \cup {Hole}) : data = file[e]
    BY <1>5
  <2> PICK piece \in Piece : piece = <<c, n>>
    BY <1>5
  <2>1. Put(data, n, piece) \in Seq(Piece \cup {Hole})
    BY <1>n, PutPieces
  <2>2. n \in DOMAIN Put(data, n, piece) /\ Put(data, n, piece)[n] = piece
    BY <1>n DEF Put
  <2>3. DOMAIN data \subseteq DOMAIN Put(data, n, piece)
    BY <1>n, PutPieces
  <2>4. \A j \in DOMAIN data : j # n => Put(data, n, piece)[j] = data[j]
    BY <1>n DEF Put
  <2>5. \A j \in DOMAIN Put(data, n, piece) :
            j # n /\ j \notin DOMAIN data => Put(data, n, piece)[j] = Hole
    BY <1>n, PutPieces
  <2> DEFINE put == Put(data, n, piece)
  <2>6. out = put
    OBVIOUS
  <2>7. /\ put \in Seq(Piece \cup {Hole}) /\ n \in DOMAIN put /\ put[n] = piece
        /\ DOMAIN data \subseteq DOMAIN put
    BY <2>1, <2>2, <2>3
  <2>8. /\ \A j \in DOMAIN data : j # n => put[j] = data[j]
        /\ \A j \in DOMAIN put : j # n /\ j \notin DOMAIN data => put[j] = Hole
    BY <2>4, <2>5
  <2> HIDE DEF put
  <2> QED  BY <2>6, <2>7, <2>8
<1>7. TypeOK'
  <2>1. file' \in [Entry -> Seq(Piece \cup {Hole})]
    BY <1>4, <1>p DEF IInv, TypeOK
  <2>2. call' \in [Caller -> CallRecord]
    BY <1>2, <1>3 DEF IInv, TypeOK
  <2>3. age' \in [Entry -> 0..TTL + 1]
    BY NoneAssumption DEF IInv, TypeOK, Write
  <2> QED  BY <1>4, <2>1, <2>2, <2>3 DEF IInv, TypeOK
<1>8. Genuine' /\ PiecesInPlace'
  <2>1. ASSUME NEW f \in Entry, NEW i \in DOMAIN file'[f], file'[f][i] # Hole
        PROVE  file'[f][i][2] = i /\ file'[f][i][1] \in Provided(f)
    <3>1. CASE f # e
      BY <1>6, <2>1, <3>1 DEF IInv, PiecesInPlace
    <3>2. CASE f = e /\ i = n
      <4>1. file'[f][i] = <<c, n>>
        BY <1>6, <1>p, <3>2
      <4> QED  BY <1>1, <3>2, <4>1
    <3>3. CASE f = e /\ i # n
      <4>1. i \in DOMAIN out /\ file'[f][i] = out[i] /\ out[i] # Hole
        BY <1>6, <2>1, <3>3
      <4>2. i \in DOMAIN file[e] /\ out[i] = file[e][i]
        BY <1>p, <3>3, <4>1
      <4> QED  BY <3>3, <4>1, <4>2 DEF IInv, PiecesInPlace
    <3> QED  BY <3>1, <3>2, <3>3
  <2> QED  BY <1>4, <2>1 DEF IInv, Genuine, PiecesInPlace
<1>9. CallersHold'
  <2>1. Holds(p, r)'
    <3>1. CASE n = Size[c]
      BY <1>2, <3>1 DEF Idle, Fresh, Holds
    <3>2. CASE n # Size[c]
      <4>1. n < Size[c]
        BY <3>2, <1>n
      <4> QED  BY <1>0, <1>1, <1>2, <1>4, <3>2, <4>1 DEF Holds
    <3> QED  BY <3>1, <3>2
  <2>2. ASSUME NEW q \in Caller, q # p PROVE Holds(q, call[q])'
    BY <1>3, <1>4, <2>2 DEF IInv, CallersHold, Holds, AgreedEntry
  <2> QED  BY <1>3, <2>1, <2>2 DEF CallersHold
<1>10. OpenersWrote'
  <2> SUFFICES ASSUME NEW f \in Entry, opener[f] # None, AgreedEntry(f), f \notin hurt
               PROVE  IF Writing(opener[f], f)'
                      THEN \A i \in 1..call'[opener'[f]].wrote :
                            i \in DOMAIN file'[f] /\ file'[f][i] = <<call'[opener'[f]].value, i>>
                      ELSE Decodes(file'[f])
    BY <1>4 DEF OpenersWrote, AgreedEntry
  <2> PICK q \in Caller : q = opener[f]
    BY DEF IInv, TypeOK
  <2>0. opener'[f] = q
    BY <1>4
  <2>1. IF Writing(q, f)
        THEN \A i \in 1..call[q].wrote : i \in DOMAIN file[f] /\ file[f][i] = <<call[q].value, i>>
        ELSE Decodes(file[f])
    BY DEF IInv, OpenersWrote
  <2>2. CASE f # e
    <3>1. Writing(q, f)' <=> Writing(q, f)
      BY <1>0, <1>1, <1>2, <1>3, <2>2 DEF Writing, At, EntryOf, Idle, Fresh
    <3>2. Writing(q, f) => q # p /\ call'[q] = call[q]
      BY <1>3, <2>2 DEF Writing
    <3> QED  BY <1>6, <2>0, <2>1, <2>2, <3>1, <3>2
  <2>3. CASE f = e /\ q = p
    <3>1. \A i \in 1..n : i \in DOMAIN file'[e] /\ file'[e][i] = <<c, i>>
      <4>0. n - 1 = call[p].wrote /\ Writing(q, f)
        BY <1>0, <1>n, <2>3 DEF Writing, At
      <4>1. \A i \in 1..call[p].wrote : i \in DOMAIN file[e] /\ file[e][i] = <<c, i>>
        BY <2>1, <2>3, <4>0
      <4>2. \A i \in 1..n : i = n \/ i \in 1..call[p].wrote
        BY <1>1, <1>n
      <4> QED  BY <1>6, <1>p, <4>1, <4>2
    <3>2. CASE n = Size[c]
      <4>1. ~Writing(p, e)'
        BY <1>2, <1>3, <3>2 DEF Writing, At, Idle, Fresh
      <4> QED  BY <2>0, <2>3, <3>1, <3>2, <4>1 DEF Decodes
    <3>3. CASE n # Size[c]
      <4>1. Writing(p, e)' /\ call'[p].wrote = n /\ call'[p].value = c
        BY <1>0, <1>1, <1>2, <1>3, <3>3 DEF Writing, At, EntryOf
      <4> QED  BY <2>0, <2>3, <3>1, <4>1
    <3> QED  BY <3>2, <3>3
  <2>4. CASE f = e /\ q # p
    <3>1. call'[q] = call[q] /\ (Writing(q, e)' <=> Writing(q, e))
      BY <1>3, <2>4 DEF Writing, At, EntryOf
    <3>2. CASE Writing(q, e)
      <4>1. call[q].value \in Provided(e)
        BY <3>2 DEF Writing, At, EntryOf, IInv, CallersHold, Holds
      <4>2. call[q].value = c
        BY <1>1, <2>4, <4>1, OneContent DEF IInv
      <4>3. \A i \in 1..call[q].wrote : i \in DOMAIN file[e] /\ file[e][i] = <<c, i>>
        BY <2>1, <2>4, <3>2, <4>2, Zenon
      <4>4. \A i \in 1..call[q].wrote : i \in DOMAIN out /\ out[i] = <<c, i>>
        BY <1>p, <4>3
      <4> QED  BY <1>6, <2>0, <2>4, <3>1, <3>2, <4>2, <4>4
    <3>3. CASE ~Writing(q, e)
      <4>1. Decodes(Put(file[e], n, <<c, n>>))
        BY <1>1, <1>5, <2>1, <2>4, <3>3, StaysReadable DEF IInv, PiecesInPlace
      <4> QED  BY <1>6, <2>0, <2>4, <3>1, <3>3, <4>1
    <3> QED  BY <3>2, <3>3
  <2> QED  BY <2>2, <2>3, <2>4
<1> QED  BY <1>7, <1>8, <1>9, <1>10 DEF IInv

\* A caller that stops half-way leaves the entry among those that are hurt, if it was
\* the one that opened it last.
LEMMA StopIInv ==
    ASSUME IInv, NEW p \in Caller, Return(p), Stop(p), UNCHANGED <<file, age, resolved, opener>>
    PROVE  IInv'
<1>1. call' = [call EXCEPT ![p] = Idle] /\ call'[p] = Idle
      /\ \A q \in Caller : q # p => call'[q] = call[q]
  BY DEF Return, IInv, TypeOK
<1>2. \A f : Provided(f)' = Provided(f)
  BY DEF Provided
<1>3. hurt \subseteq hurt' /\ hurt' \subseteq Entry
  <2>1. At(p, "write") => EntryOf(p) \in Entry
    BY EntryOfCaller DEF At, IInv, CallersHold, Holds
  <2> QED  BY <2>1 DEF Stop, IInv, TypeOK
<1>4. TypeOK'
  BY <1>1, <1>3, IdleHolds DEF IInv, TypeOK
<1>5. Genuine' /\ PiecesInPlace'
  BY <1>2 DEF IInv, Genuine, PiecesInPlace
<1>6. CallersHold'
  <2>1. Holds(p, Idle)'
    BY DEF Holds, Idle, Fresh
  <2>2. ASSUME NEW q \in Caller, q # p PROVE Holds(q, call[q])'
    BY <1>1, <1>2, <2>2 DEF IInv, CallersHold, Holds, AgreedEntry
  <2> QED  BY <1>1, <2>1, <2>2 DEF CallersHold
<1>7. OpenersWrote'
  <2> SUFFICES ASSUME NEW f \in Entry, opener[f] # None, AgreedEntry(f), f \notin hurt'
               PROVE  IF Writing(opener[f], f)'
                      THEN \A i \in 1..call'[opener'[f]].wrote :
                            i \in DOMAIN file'[f] /\ file'[f][i] = <<call'[opener'[f]].value, i>>
                      ELSE Decodes(file'[f])
    BY DEF OpenersWrote, AgreedEntry
  <2> PICK q \in Caller : q = opener[f]
    BY DEF IInv, TypeOK
  <2>1. /\ Writing(q, f)' <=> Writing(q, f)
        /\ Writing(q, f) => call'[q] = call[q]
    <3>1. CASE q # p
      BY <1>1, <3>1 DEF Writing, At, EntryOf
    <3>2. CASE q = p
      <4>1. ~Writing(p, f)
        BY <3>2 DEF Stop, Writing
      <4>2. ~Writing(p, f)'
        BY <1>1 DEF Writing, At, Idle, Fresh
      <4> QED  BY <3>2, <4>1, <4>2
    <3> QED  BY <3>1, <3>2
  <2> QED  BY <1>3, <2>1 DEF IInv, OpenersWrote
<1> QED  BY <1>4, <1>5, <1>6, <1>7 DEF IInv

LEMMA TickIInv == ASSUME IInv, Tick PROVE IInv'
<1>1. UNCHANGED <<file, call, resolved, opener, hurt>>
  BY DEF Tick
<1>2. \A f : Provided(f)' = Provided(f)
  BY <1>1 DEF Provided
<1>3. \A p, f : Writing(p, f)' <=> Writing(p, f)
  BY <1>1 DEF Writing, At, EntryOf
<1>4. TypeOK'
  <2>1. age' \in [Entry -> 0..TTL + 1]
    <3>1. ASSUME NEW e \in Entry
          PROVE  (IF age[e] <= TTL THEN age[e] + 1 ELSE age[e]) \in 0..TTL + 1
      <4>1. age[e] \in 0..TTL + 1 /\ TTL \in Nat
        BY NoneAssumption DEF IInv, TypeOK
      <4> QED  BY <4>1
    <3> QED  BY <3>1 DEF Tick
  <2> QED  BY <1>1, <2>1 DEF IInv, TypeOK
<1>5. Genuine' /\ PiecesInPlace'
  BY <1>1, <1>2 DEF IInv, Genuine, PiecesInPlace
<1>6. CallersHold'
  BY <1>1, <1>2 DEF IInv, CallersHold, Holds, AgreedEntry
<1>7. OpenersWrote'
  BY <1>1, <1>3 DEF IInv, OpenersWrote, AgreedEntry
<1> QED  BY <1>4, <1>5, <1>6, <1>7 DEF IInv

LEMMA NextIInv == IInv /\ [Next]_vars => IInv'
<1> SUFFICES ASSUME IInv, [Next]_vars PROVE IInv'
  OBVIOUS
<1>1. ASSUME NEW p \in Caller, NEW k \in Key, Resolve(p, k) PROVE IInv'
  BY <1>1, ResolveIInv
<1>2. ASSUME NEW p \in Caller, Step(p) PROVE IInv'
  <2>1. CASE WriteFails(p)
    BY <2>1, StopIInv DEF WriteFails
  <2> QED
    BY <1>2, <2>1, OpenIInv, StatIInv, DecodeIInv, RunIInv, CreateIInv, WriteIInv DEF Step
<1>3. ASSUME NEW p \in Caller, Crash(p) PROVE IInv'
  BY <1>3, StopIInv DEF Crash
<1>4. CASE UNCHANGED vars
  <2>1. UNCHANGED <<file, age, call, resolved, opener, hurt>>
    BY <1>4 DEF vars
  <2>2. /\ \A f : Provided(f)' = Provided(f)
        /\ \A p, f : Writing(p, f)' <=> Writing(p, f)
    BY <2>1 DEF Provided, Writing, At, EntryOf
  <2>3. TypeOK'
    BY <2>1 DEF IInv, TypeOK
  <2>4. Genuine' /\ PiecesInPlace'
    BY <2>1, <2>2 DEF IInv, Genuine, PiecesInPlace
  <2>5. CallersHold'
    BY <2>1, <2>2 DEF IInv, CallersHold, Holds, AgreedEntry
  <2>6. OpenersWrote'
    BY <2>1, <2>2 DEF IInv, OpenersWrote, AgreedEntry
  <2> QED  BY <2>3, <2>4, <2>5, <2>6 DEF IInv
<1> QED  BY <1>1, <1>2, <1>3, <1>4, TickIInv DEF Next

LEMMA IInvServedWasResolved == IInv => ServedWasResolved
<1> SUFFICES ASSUME IInv, NEW p \in Caller, At(p, "idle"), call[p].served,
                    Agreed(TypeOf[p], call[p].key)
             PROVE  \E t \in Like(TypeOf[p]) : <<t, call[p].key, call[p].value>> \in resolved
  BY DEF ServedWasResolved
<1>1. call[p].key \in Key /\ TypeOf[p] \in Type
  BY TypesAssumption DEF IInv, CallersHold, Holds, At
<1>2. AgreedEntry(makeEntry(TypeOf[p], call[p].key))
  BY <1>1, AgreedIsOfEntry
<1>3. call[p].value \in Provided(makeEntry(TypeOf[p], call[p].key))
  BY <1>2 DEF IInv, CallersHold, Holds, At
<1> QED  BY <1>3 DEF Provided, makeEntry, Like

LEMMA IInvWholeOnceWritten == IInv => WholeOnceWritten
<1> SUFFICES ASSUME IInv, NEW t \in Type, NEW k \in Key, NEW e, e = makeEntry(t, k),
                    opener[e] # None, Agreed(t, k), e \notin hurt, ~Writing(opener[e], e)
             PROVE  Decodes(file[e])
  BY DEF WholeOnceWritten, Writing
<1>1. e \in Entry /\ AgreedEntry(e)
  BY AgreedIsOfEntry
<1> QED  BY <1>1 DEF IInv, OpenersWrote

-------------------------------------------------------------------------------

\* Whatever callers do, and wherever they die, the variables keep their types.
THEOREM TypeCorrect == Spec => []TypeOK
<1>1. IInv => TypeOK
  BY DEF IInv
<1> QED  BY InitIInv, NextIInv, <1>1, PTL DEF Spec

\* What the cache serves was resolved for the same key and a type of the same structure,
\* for any number of callers and any sizes of the contents.
THEOREM ServedIsResolved == Spec => []ServedWasResolved
BY InitIInv, NextIInv, IInvServedWasResolved, PTL DEF Spec

\* Once the caller that emptied a file last has finished, the entry can be read.
THEOREM FinishedIsReadable == Spec => []WholeOnceWritten
BY InitIInv, NextIInv, IInvWholeOnceWritten, PTL DEF Spec
===============================================================================
