-------------------------- MODULE BuilderLocksProofs --------------------------
(* Proofs about the locks of an SBOM that is being built, for any number of      *)
(* writers and readers and whatever they write, through the builder or not.      *)
EXTENDS BuilderLocks, TLAPS

\* A writer that may write has something to write.
WritersReady == \A w \in Writers : pc[w] = "write" => items[w] # <<>>

\* The goroutine of an enumeration holds the collection's read lock as long as it
\* hands packages over.
HoldsRead ==
    \A r \in Readers :
        enumerator[r].pc \in {"next", "package", "send"} => HasRead(collectionLock, Outer(r))

\* An enumeration starts once, with nothing found, and has nothing in hand before
\* it looks for the next package.
StartsFresh ==
    \A r \in Readers :
        /\ pc[r] \in {"call", "enter"} => enumerator[r].pc = "none"
        /\ enumerator[r].pc \in {"none", "start", "locking"} => got[r] = {}
        /\ enumerator[r].pc \in {"none", "start", "locking", "next"} => enumerator[r].current = {}

IInv == TypeOK /\ WritersReady /\ HoldsRead /\ StartsFresh /\ EnumerationExact

-------------------------------------------------------------------------------
\* What is left of a batch once its first item is written.
LEMMA SuffixTail ==
    ASSUME NEW S, NEW b \in Seq(S), NEW n \in 0 .. Len(b), SubSeq(b, n + 1, Len(b)) # <<>>
    PROVE  /\ n + 1 \in 0 .. Len(b)
           /\ Tail(SubSeq(b, n + 1, Len(b))) = SubSeq(b, (n + 1) + 1, Len(b))
           /\ Head(SubSeq(b, n + 1, Len(b))) \in S
<1> DEFINE s == SubSeq(b, n + 1, Len(b))
<1>1. s \in Seq(S) /\ Len(s) = Len(b) - n /\ \A i \in 1 .. Len(s) : s[i] = b[n + i]
  BY SMT
<1>2. Len(s) > 0
  BY <1>1
<1>3. n + 1 \in 0 .. Len(b)
  BY <1>1, <1>2
<1>4. Tail(s) = SubSeq(b, (n + 1) + 1, Len(b))
  BY <1>1, <1>2, <1>3
<1>5. Head(s) \in S
  BY <1>1, <1>2
<1> QED  BY <1>3, <1>4, <1>5

LEMMA UpdateTyped ==
    ASSUME enumerator \in [Readers -> EnumeratorState], NEW r \in Readers,
           NEW e \in EnumeratorState, enumerator' = [enumerator EXCEPT ![r] = e]
    PROVE  /\ enumerator' \in [Readers -> EnumeratorState]
           /\ enumerator'[r] = e
           /\ \A q \in Readers \ {r} : enumerator'[q] = enumerator[q]
OBVIOUS

LEMMA RLockTyped ==
    ASSUME NEW T, NEW m \in Mutex(T), NEW t \in T
    PROVE  RLock(m, t) \in Mutex(T)
BY DEF RLock, Mutex

LEMMA InitIInv == Init => IInv
<1> SUFFICES ASSUME Init PROVE IInv
    OBVIOUS
<1> USE CallersAssumption, BatchAssumption
<1>1. TypeOK
  BY DEF Init, TypeOK, Unlocked, Mutex, Where, EnumeratorWhere, EnumeratorState, Remaining
<1>2. WritersReady /\ HoldsRead /\ StartsFresh /\ EnumerationExact
  BY DEF Init, WritersReady, HoldsRead, StartsFresh, EnumerationExact
<1> QED  BY <1>1, <1>2 DEF IInv

LEMMA CallIInv ==
    ASSUME IInv, NEW c \in Writers \cup Readers, Call(c)
    PROVE  IInv'
<1> USE CallersAssumption, BatchAssumption DEF Call, Goto, RLock, RUnlock, Lock, Unlock, HasRead, HasLock
<1>1. TypeOK'
  <2>1. packages' \subseteq Package
    BY DEF IInv, TypeOK
  <2>2. pc' \in [Writers \cup Readers -> Where]
    BY DEF IInv, TypeOK, Where
  <2>3. enumerator' \in [Readers -> EnumeratorState]
    BY DEF IInv, TypeOK
  <2>4. got' \in [Readers -> SUBSET Package]
    BY DEF IInv, TypeOK
  <2>5. sbomLock' \in Mutex(Writers \cup Readers)
    BY DEF IInv, TypeOK, Mutex
  <2>6. collectionLock' \in Mutex(Token)
    BY DEF IInv, TypeOK
  <2>7. Remaining'
    BY DEF IInv, TypeOK, Remaining
  <2> QED  BY <2>1, <2>2, <2>3, <2>5, <2>4, <2>6, <2>7 DEF IInv, TypeOK
<1>2. WritersReady'
  BY DEF IInv, WritersReady
<1>3. HoldsRead'
  BY DEF IInv, HoldsRead
<1>4. StartsFresh'
  BY DEF IInv, StartsFresh
<1>5. EnumerationExact'
  BY DEF IInv, EnumerationExact
<1> QED  BY <1>1, <1>2, <1>3, <1>4, <1>5 DEF IInv

LEMMA EnterIInv ==
    ASSUME IInv, NEW c \in Writers \cup Readers, Enter(c)
    PROVE  IInv'
<1> USE CallersAssumption, BatchAssumption DEF Enter, Goto, RLock, RUnlock, Lock, Unlock, HasRead, HasLock
<1>1. TypeOK'
  <2>1. packages' \subseteq Package
    BY DEF IInv, TypeOK
  <2>2. pc' \in [Writers \cup Readers -> Where]
    BY DEF IInv, TypeOK, Where
  <2>3. enumerator' \in [Readers -> EnumeratorState]
    <3>1. CASE c \in Writers
      BY <3>1 DEF IInv, TypeOK
    <3>2. CASE c \notin Writers
      <4> DEFINE e == [enumerator[c] EXCEPT !.pc = "start"]
      <4>1. c \in Readers /\ e \in EnumeratorState
        BY <3>2 DEF IInv, TypeOK, EnumeratorState, EnumeratorWhere
      <4>2. enumerator' = [enumerator EXCEPT ![c] = e]
        BY <3>2, <4>1 DEF IInv
      <4> HIDE DEF e
      <4> QED  BY <4>1, <4>2, UpdateTyped DEF IInv, TypeOK
    <3> QED  BY <3>1, <3>2
  <2>4. got' \in [Readers -> SUBSET Package]
    BY DEF IInv, TypeOK
  <2>5. sbomLock' \in Mutex(Writers \cup Readers)
    BY DEF IInv, TypeOK
  <2>6. collectionLock' \in Mutex(Token)
    BY DEF IInv, TypeOK
  <2>7. Remaining'
    BY DEF IInv, TypeOK, Remaining
  <2> QED  BY <2>1, <2>2, <2>3, <2>5, <2>4, <2>6, <2>7 DEF IInv, TypeOK
<1>2. WritersReady'
  BY DEF IInv, TypeOK, WritersReady
<1>3. HoldsRead'
  <2>1. \A r \in Readers : enumerator'[r] = enumerator[r] \/ enumerator'[r].pc = "start"
    BY DEF IInv, TypeOK, EnumeratorState
  <2> QED  BY <2>1 DEF IInv, HoldsRead
<1>4. StartsFresh'
  <2>1. CASE c \in Writers
    BY <2>1 DEF IInv, TypeOK, StartsFresh
  <2>2. CASE c \notin Writers
    <3>1. c \in Readers /\ enumerator'[c].pc = "start"
          /\ enumerator'[c].current = enumerator[c].current
      BY <2>2 DEF IInv, TypeOK, EnumeratorState
    <3>2. \A r \in Readers \ {c} : enumerator'[r] = enumerator[r] /\ pc'[r] = pc[r]
      BY <2>2 DEF IInv, TypeOK
    <3>3. pc'[c] = "receive"
      BY <2>2 DEF IInv, TypeOK
    <3> QED  BY <3>1, <3>2, <3>3 DEF IInv, StartsFresh
  <2> QED  BY <2>1, <2>2
<1>5. EnumerationExact'
  BY DEF IInv, TypeOK, EnumeratorState, EnumerationExact
<1> QED  BY <1>1, <1>2, <1>3, <1>4, <1>5 DEF IInv

LEMMA LeaveIInv ==
    ASSUME IInv, NEW c \in Writers \cup Readers, Leave(c)
    PROVE  IInv'
<1> USE CallersAssumption, BatchAssumption DEF Leave, Goto, RLock, RUnlock, Lock, Unlock, HasRead, HasLock
<1>1. TypeOK'
  <2>1. packages' \subseteq Package
    BY DEF IInv, TypeOK
  <2>2. pc' \in [Writers \cup Readers -> Where]
    BY DEF IInv, TypeOK, Where
  <2>3. enumerator' \in [Readers -> EnumeratorState]
    BY DEF IInv, TypeOK
  <2>4. got' \in [Readers -> SUBSET Package]
    BY DEF IInv, TypeOK
  <2>5. sbomLock' \in Mutex(Writers \cup Readers)
    BY DEF IInv, TypeOK, Mutex
  <2>6. collectionLock' \in Mutex(Token)
    BY DEF IInv, TypeOK
  <2>7. Remaining'
    BY DEF IInv, TypeOK, Remaining
  <2> QED  BY <2>1, <2>2, <2>3, <2>5, <2>4, <2>6, <2>7 DEF IInv, TypeOK
<1>2. WritersReady'
  BY DEF IInv, WritersReady
<1>3. HoldsRead'
  BY DEF IInv, HoldsRead
<1>4. StartsFresh'
  BY DEF IInv, StartsFresh
<1>5. EnumerationExact'
  BY DEF IInv, EnumerationExact
<1> QED  BY <1>1, <1>2, <1>3, <1>4, <1>5 DEF IInv

LEMMA LockCollectionIInv ==
    ASSUME IInv, NEW w \in Writers, LockCollection(w)
    PROVE  IInv'
<1> USE CallersAssumption, BatchAssumption DEF LockCollection, Goto, RLock, RUnlock, Lock, Unlock, HasRead, HasLock
<1>1. TypeOK'
  <2>1. packages' \subseteq Package
    BY DEF IInv, TypeOK
  <2>2. pc' \in [Writers \cup Readers -> Where]
    BY DEF IInv, TypeOK, Where
  <2>3. enumerator' \in [Readers -> EnumeratorState]
    BY DEF IInv, TypeOK
  <2>4. got' \in [Readers -> SUBSET Package]
    BY DEF IInv, TypeOK
  <2>5. sbomLock' \in Mutex(Writers \cup Readers)
    BY DEF IInv, TypeOK
  <2>6. collectionLock' \in Mutex(Token)
    BY DEF IInv, TypeOK, Mutex, Token
  <2>7. Remaining'
    BY DEF IInv, TypeOK, Remaining
  <2> QED  BY <2>1, <2>2, <2>3, <2>5, <2>4, <2>6, <2>7 DEF IInv, TypeOK
<1>2. WritersReady'
  BY DEF IInv, WritersReady
<1>3. HoldsRead'
  BY DEF IInv, HoldsRead
<1>4. StartsFresh'
  BY DEF IInv, StartsFresh
<1>5. EnumerationExact'
  BY DEF IInv, EnumerationExact
<1> QED  BY <1>1, <1>2, <1>3, <1>4, <1>5 DEF IInv

LEMMA WriteItemIInv ==
    ASSUME IInv, NEW w \in Writers, WriteItem(w)
    PROVE  IInv'
<1> USE CallersAssumption, BatchAssumption DEF WriteItem, Goto, RLock, RUnlock, Lock, Unlock, HasRead, HasLock
<1>1. TypeOK'
  <2>1. packages' \subseteq Package
    <3>1. PICK n \in 0 .. Len(Batch[w]) : items[w] = SubSeq(Batch[w], n + 1, Len(Batch[w]))
      BY DEF IInv, TypeOK, Remaining
    <3>2. Head(items[w]) \in [op : {"add", "delete"}, package : Package]
      BY <3>1, SuffixTail DEF IInv, WritersReady
    <3>3. packages' \subseteq packages \cup {Head(items[w]).package}
      BY DEF apply
    <3> QED  BY <3>2, <3>3 DEF IInv, TypeOK
  <2>2. pc' \in [Writers \cup Readers -> Where]
    BY DEF IInv, TypeOK, Where
  <2>3. enumerator' \in [Readers -> EnumeratorState]
    BY DEF IInv, TypeOK
  <2>4. got' \in [Readers -> SUBSET Package]
    BY DEF IInv, TypeOK
  <2>5. sbomLock' \in Mutex(Writers \cup Readers)
    BY DEF IInv, TypeOK
  <2>6. collectionLock' \in Mutex(Token)
    BY DEF IInv, TypeOK, Mutex
  <2>7. Remaining'
    <3>1. PICK n \in 0 .. Len(Batch[w]) : items[w] = SubSeq(Batch[w], n + 1, Len(Batch[w]))
      BY DEF IInv, TypeOK, Remaining
    <3>2. /\ n + 1 \in 0 .. Len(Batch[w])
          /\ Tail(items[w]) = SubSeq(Batch[w], (n + 1) + 1, Len(Batch[w]))
      BY <3>1, SuffixTail DEF IInv, WritersReady
    <3>3. DOMAIN items' = Writers /\ items'[w] = Tail(items[w])
      BY DEF IInv, TypeOK, Remaining
    <3>4. \A u \in Writers \ {w} : items'[u] = items[u]
      BY DEF IInv, Remaining
    <3> QED  BY <3>1, <3>2, <3>3, <3>4 DEF IInv, TypeOK, Remaining
  <2> QED  BY <2>1, <2>2, <2>3, <2>5, <2>4, <2>6, <2>7 DEF IInv, TypeOK
<1>2. WritersReady'
  BY DEF IInv, TypeOK, WritersReady
<1>3. HoldsRead'
  BY DEF IInv, HoldsRead
<1>4. StartsFresh'
  BY DEF IInv, StartsFresh
<1>5. EnumerationExact'
  BY DEF IInv, EnumerationExact, HoldsRead
<1> QED  BY <1>1, <1>2, <1>3, <1>4, <1>5 DEF IInv

LEMMA WriteEventIInv ==
    ASSUME IInv, NEW w \in Writers, WriteEvent(w)
    PROVE  IInv'
<1> USE CallersAssumption, BatchAssumption DEF WriteEvent, Goto, RLock, RUnlock, Lock, Unlock, HasRead, HasLock
<1>1. TypeOK'
  <2>1. packages' \subseteq Package
    BY DEF IInv, TypeOK
  <2>2. pc' \in [Writers \cup Readers -> Where]
    BY DEF IInv, TypeOK, Where
  <2>3. enumerator' \in [Readers -> EnumeratorState]
    BY DEF IInv, TypeOK
  <2>4. got' \in [Readers -> SUBSET Package]
    BY DEF IInv, TypeOK
  <2>5. sbomLock' \in Mutex(Writers \cup Readers)
    BY DEF IInv, TypeOK
  <2>6. collectionLock' \in Mutex(Token)
    <3>1. CASE guarded
      <4>1. collectionLock' = RLock(collectionLock, w) /\ w \in Token
        BY <3>1 DEF Token
      <4> QED  BY <4>1, RLockTyped DEF IInv, TypeOK
    <3>2. CASE ~guarded
      BY <3>2 DEF IInv, TypeOK
    <3> QED  BY <3>1, <3>2
  <2>7. Remaining'
    BY DEF IInv, TypeOK, Remaining
  <2> QED  BY <2>1, <2>2, <2>3, <2>5, <2>4, <2>6, <2>7 DEF IInv, TypeOK
<1>2. WritersReady'
  BY DEF IInv, TypeOK, WritersReady
<1>3. HoldsRead'
  <2>1. CASE guarded
    BY <2>1 DEF IInv, TypeOK, EnumeratorState, Mutex, HoldsRead, Outer
  <2>2. CASE ~guarded
    BY <2>2 DEF IInv, HoldsRead
  <2> QED  BY <2>1, <2>2
<1>4. StartsFresh'
  BY DEF IInv, TypeOK, StartsFresh
<1>5. EnumerationExact'
  BY DEF IInv, EnumerationExact
<1> QED  BY <1>1, <1>2, <1>3, <1>4, <1>5 DEF IInv

LEMMA CountIInv ==
    ASSUME IInv, NEW w \in Writers, Count(w)
    PROVE  IInv'
<1> USE CallersAssumption, BatchAssumption DEF Count, Goto, RLock, RUnlock, Lock, Unlock, HasRead, HasLock
<1>1. TypeOK'
  <2>1. packages' \subseteq Package
    BY DEF IInv, TypeOK
  <2>2. pc' \in [Writers \cup Readers -> Where]
    BY DEF IInv, TypeOK, Where
  <2>3. enumerator' \in [Readers -> EnumeratorState]
    BY DEF IInv, TypeOK
  <2>4. got' \in [Readers -> SUBSET Package]
    BY DEF IInv, TypeOK
  <2>5. sbomLock' \in Mutex(Writers \cup Readers)
    BY DEF IInv, TypeOK
  <2>6. collectionLock' \in Mutex(Token)
    BY DEF IInv, TypeOK, Mutex
  <2>7. Remaining'
    BY DEF IInv, TypeOK, Remaining
  <2> QED  BY <2>1, <2>2, <2>3, <2>5, <2>4, <2>6, <2>7 DEF IInv, TypeOK
<1>2. WritersReady'
  BY DEF IInv, WritersReady
<1>3. HoldsRead'
  BY DEF IInv, HoldsRead
<1>4. StartsFresh'
  BY DEF IInv, StartsFresh
<1>5. EnumerationExact'
  BY DEF IInv, EnumerationExact
<1> QED  BY <1>1, <1>2, <1>3, <1>4, <1>5 DEF IInv

LEMMA EnumerateStartIInv ==
    ASSUME IInv, NEW r \in Readers, EnumerateStart(r)
    PROVE  IInv'
<1> USE CallersAssumption, BatchAssumption DEF EnumerateStart, Goto, RLock, RUnlock, Lock, Unlock, HasRead, HasLock
<1>1. TypeOK'
  <2>1. packages' \subseteq Package
    BY DEF IInv, TypeOK
  <2>2. pc' \in [Writers \cup Readers -> Where]
    BY DEF IInv, TypeOK, Where
  <2>3. enumerator' \in [Readers -> EnumeratorState]
    BY DEF IInv, TypeOK, EnumeratorState, EnumeratorWhere
  <2>4. got' \in [Readers -> SUBSET Package]
    BY DEF IInv, TypeOK
  <2>5. sbomLock' \in Mutex(Writers \cup Readers)
    BY DEF IInv, TypeOK
  <2>6. collectionLock' \in Mutex(Token)
    BY DEF IInv, TypeOK, Mutex, Token
  <2>7. Remaining'
    BY DEF IInv, TypeOK, Remaining
  <2> QED  BY <2>1, <2>2, <2>3, <2>5, <2>4, <2>6, <2>7 DEF IInv, TypeOK
<1>2. WritersReady'
  BY DEF IInv, WritersReady
<1>3. HoldsRead'
  BY DEF IInv, HoldsRead
<1>4. StartsFresh'
  BY DEF IInv, StartsFresh
<1>5. EnumerationExact'
  BY DEF IInv, EnumerationExact
<1> QED  BY <1>1, <1>2, <1>3, <1>4, <1>5 DEF IInv

LEMMA EnumerateRangeIInv ==
    ASSUME IInv, NEW r \in Readers, EnumerateRange(r)
    PROVE  IInv'
<1> USE CallersAssumption, BatchAssumption DEF EnumerateRange, Goto, RLock, RUnlock, Lock, Unlock, HasRead, HasLock
<1>1. TypeOK'
  <2>1. packages' \subseteq Package
    BY DEF IInv, TypeOK
  <2>2. pc' \in [Writers \cup Readers -> Where]
    BY DEF IInv, TypeOK, Where
  <2>3. enumerator' \in [Readers -> EnumeratorState]
    <3> DEFINE e == [enumerator[r] EXCEPT !.pc = "next", !.ids = packages]
    <3>1. e \in EnumeratorState
      <4>1. enumerator[r] \in EnumeratorState /\ packages \in SUBSET Package
        BY DEF IInv, TypeOK
      <4> QED  BY <4>1 DEF EnumeratorState, EnumeratorWhere
    <3>2. enumerator' = [enumerator EXCEPT ![r] = e]
      BY DEF IInv
    <3> HIDE DEF e
    <3> QED  BY <3>1, <3>2, UpdateTyped DEF IInv, TypeOK
  <2>4. got' \in [Readers -> SUBSET Package]
    BY DEF IInv, TypeOK
  <2>5. sbomLock' \in Mutex(Writers \cup Readers)
    BY DEF IInv, TypeOK
  <2>6. collectionLock' \in Mutex(Token)
    BY DEF IInv, TypeOK
  <2>7. Remaining'
    BY DEF IInv, TypeOK, Remaining
  <2> QED  BY <2>1, <2>2, <2>3, <2>5, <2>4, <2>6, <2>7 DEF IInv, TypeOK
<1>2. WritersReady'
  BY DEF IInv, WritersReady
<1>3. HoldsRead'
  BY DEF IInv, TypeOK, HoldsRead
<1>4. StartsFresh'
  BY DEF IInv, TypeOK, StartsFresh
<1>5. EnumerationExact'
  BY DEF IInv, TypeOK, EnumerationExact, StartsFresh
<1> QED  BY <1>1, <1>2, <1>3, <1>4, <1>5 DEF IInv

LEMMA PackageLockIInv ==
    ASSUME IInv, NEW r \in Readers, PackageLock(r)
    PROVE  IInv'
<1> USE CallersAssumption, BatchAssumption DEF PackageLock, Goto, RLock, RUnlock, Lock, Unlock, HasRead, HasLock
<1>1. TypeOK'
  <2>1. packages' \subseteq Package
    BY DEF IInv, TypeOK
  <2>2. pc' \in [Writers \cup Readers -> Where]
    BY DEF IInv, TypeOK, Where
  <2>3. enumerator' \in [Readers -> EnumeratorState]
    BY DEF IInv, TypeOK, EnumeratorState, EnumeratorWhere
  <2>4. got' \in [Readers -> SUBSET Package]
    BY DEF IInv, TypeOK
  <2>5. sbomLock' \in Mutex(Writers \cup Readers)
    BY DEF IInv, TypeOK
  <2>6. collectionLock' \in Mutex(Token)
    BY DEF IInv, TypeOK, Mutex, Token
  <2>7. Remaining'
    BY DEF IInv, TypeOK, Remaining
  <2> QED  BY <2>1, <2>2, <2>3, <2>5, <2>4, <2>6, <2>7 DEF IInv, TypeOK
<1>2. WritersReady'
  BY DEF IInv, WritersReady
<1>3. HoldsRead'
  BY DEF IInv, HoldsRead
<1>4. StartsFresh'
  BY DEF IInv, StartsFresh
<1>5. EnumerationExact'
  BY DEF IInv, EnumerationExact, StartsFresh
<1> QED  BY <1>1, <1>2, <1>3, <1>4, <1>5 DEF IInv

LEMMA PackageReadIInv ==
    ASSUME IInv, NEW r \in Readers, PackageRead(r)
    PROVE  IInv'
<1> USE CallersAssumption, BatchAssumption DEF PackageRead, Goto, RLock, RUnlock, Lock, Unlock, HasRead, HasLock
<1>1. TypeOK'
  <2>1. packages' \subseteq Package
    BY DEF IInv, TypeOK
  <2>2. pc' \in [Writers \cup Readers -> Where]
    BY DEF IInv, TypeOK, Where
  <2>3. enumerator' \in [Readers -> EnumeratorState]
    <3> DEFINE found == enumerator[r].current \cap packages
               e == [enumerator[r] EXCEPT !.pc = IF found # {} THEN "send" ELSE "next",
                                          !.current = found]
    <3>1. e \in EnumeratorState
      <4>1. enumerator[r] \in EnumeratorState /\ found \in SUBSET Package
        BY DEF IInv, TypeOK
      <4> QED  BY <4>1 DEF EnumeratorState, EnumeratorWhere
    <3>2. enumerator' = [enumerator EXCEPT ![r] = e]
      BY DEF IInv
    <3> HIDE DEF e
    <3> QED  BY <3>1, <3>2, UpdateTyped DEF IInv, TypeOK
  <2>4. got' \in [Readers -> SUBSET Package]
    BY DEF IInv, TypeOK
  <2>5. sbomLock' \in Mutex(Writers \cup Readers)
    BY DEF IInv, TypeOK
  <2>6. collectionLock' \in Mutex(Token)
    BY DEF IInv, TypeOK, Mutex
  <2>7. Remaining'
    BY DEF IInv, TypeOK, Remaining
  <2> QED  BY <2>1, <2>2, <2>3, <2>5, <2>4, <2>6, <2>7 DEF IInv, TypeOK
<1>2. WritersReady'
  BY DEF IInv, WritersReady
<1>3. HoldsRead'
  BY DEF IInv, TypeOK, HoldsRead, Outer, Inner
<1>4. StartsFresh'
  BY DEF IInv, TypeOK, StartsFresh
<1>5. EnumerationExact'
  BY DEF IInv, TypeOK, EnumerationExact
<1> QED  BY <1>1, <1>2, <1>3, <1>4, <1>5 DEF IInv

LEMMA SendIInv ==
    ASSUME IInv, NEW r \in Readers, Send(r)
    PROVE  IInv'
<1> USE CallersAssumption, BatchAssumption DEF Send, Goto, RLock, RUnlock, Lock, Unlock, HasRead, HasLock
<1>1. TypeOK'
  <2>1. packages' \subseteq Package
    BY DEF IInv, TypeOK
  <2>2. pc' \in [Writers \cup Readers -> Where]
    BY DEF IInv, TypeOK, Where
  <2>3. enumerator' \in [Readers -> EnumeratorState]
    <3> DEFINE e == [enumerator[r] EXCEPT !.pc = "next", !.current = {}]
    <3>1. e \in EnumeratorState
      <4>1. enumerator[r] \in EnumeratorState
        BY DEF IInv, TypeOK
      <4> QED  BY <4>1 DEF EnumeratorState, EnumeratorWhere
    <3>2. enumerator' = [enumerator EXCEPT ![r] = e]
      BY DEF IInv
    <3> HIDE DEF e
    <3> QED  BY <3>1, <3>2, UpdateTyped DEF IInv, TypeOK
  <2>4. got' \in [Readers -> SUBSET Package]
    BY DEF IInv, TypeOK, EnumeratorState
  <2>5. sbomLock' \in Mutex(Writers \cup Readers)
    BY DEF IInv, TypeOK
  <2>6. collectionLock' \in Mutex(Token)
    BY DEF IInv, TypeOK
  <2>7. Remaining'
    BY DEF IInv, TypeOK, Remaining
  <2> QED  BY <2>1, <2>2, <2>3, <2>5, <2>4, <2>6, <2>7 DEF IInv, TypeOK
<1>2. WritersReady'
  BY DEF IInv, WritersReady
<1>3. HoldsRead'
  BY DEF IInv, TypeOK, HoldsRead
<1>4. StartsFresh'
  BY DEF IInv, TypeOK, StartsFresh
<1>5. EnumerationExact'
  BY DEF IInv, TypeOK, EnumerationExact
<1> QED  BY <1>1, <1>2, <1>3, <1>4, <1>5 DEF IInv

LEMMA EnumerateUnlockIInv ==
    ASSUME IInv, NEW r \in Readers, EnumerateUnlock(r)
    PROVE  IInv'
<1> USE CallersAssumption, BatchAssumption DEF EnumerateUnlock, Goto, RLock, RUnlock, Lock, Unlock, HasRead, HasLock
<1>1. TypeOK'
  <2>1. packages' \subseteq Package
    BY DEF IInv, TypeOK
  <2>2. pc' \in [Writers \cup Readers -> Where]
    BY DEF IInv, TypeOK, Where
  <2>3. enumerator' \in [Readers -> EnumeratorState]
    BY DEF IInv, TypeOK, EnumeratorState, EnumeratorWhere
  <2>4. got' \in [Readers -> SUBSET Package]
    BY DEF IInv, TypeOK
  <2>5. sbomLock' \in Mutex(Writers \cup Readers)
    BY DEF IInv, TypeOK
  <2>6. collectionLock' \in Mutex(Token)
    BY DEF IInv, TypeOK, Mutex
  <2>7. Remaining'
    BY DEF IInv, TypeOK, Remaining
  <2> QED  BY <2>1, <2>2, <2>3, <2>5, <2>4, <2>6, <2>7 DEF IInv, TypeOK
<1>2. WritersReady'
  BY DEF IInv, WritersReady
<1>3. HoldsRead'
  BY DEF IInv, TypeOK, HoldsRead, Outer
<1>4. StartsFresh'
  BY DEF IInv, StartsFresh
<1>5. EnumerationExact'
  BY DEF IInv, EnumerationExact
<1> QED  BY <1>1, <1>2, <1>3, <1>4, <1>5 DEF IInv

LEMMA CloseIInv ==
    ASSUME IInv, NEW r \in Readers, Close(r)
    PROVE  IInv'
<1> USE CallersAssumption, BatchAssumption DEF Close, Goto, RLock, RUnlock, Lock, Unlock, HasRead, HasLock
<1>1. TypeOK'
  <2>1. packages' \subseteq Package
    BY DEF IInv, TypeOK
  <2>2. pc' \in [Writers \cup Readers -> Where]
    BY DEF IInv, TypeOK, Where
  <2>3. enumerator' \in [Readers -> EnumeratorState]
    <3> DEFINE e == [enumerator[r] EXCEPT !.pc = "closed"]
    <3>1. e \in EnumeratorState
      <4>1. enumerator[r] \in EnumeratorState
        BY DEF IInv, TypeOK
      <4> QED  BY <4>1 DEF EnumeratorState, EnumeratorWhere
    <3>2. enumerator' = [enumerator EXCEPT ![r] = e]
      BY DEF IInv
    <3> HIDE DEF e
    <3> QED  BY <3>1, <3>2, UpdateTyped DEF IInv, TypeOK
  <2>4. got' \in [Readers -> SUBSET Package]
    BY DEF IInv, TypeOK
  <2>5. sbomLock' \in Mutex(Writers \cup Readers)
    BY DEF IInv, TypeOK
  <2>6. collectionLock' \in Mutex(Token)
    BY DEF IInv, TypeOK
  <2>7. Remaining'
    BY DEF IInv, TypeOK, Remaining
  <2> QED  BY <2>1, <2>2, <2>3, <2>5, <2>4, <2>6, <2>7 DEF IInv, TypeOK
<1>2. WritersReady'
  BY DEF IInv, WritersReady
<1>3. HoldsRead'
  BY DEF IInv, HoldsRead
<1>4. StartsFresh'
  BY DEF IInv, StartsFresh
<1>5. EnumerationExact'
  BY DEF IInv, EnumerationExact
<1> QED  BY <1>1, <1>2, <1>3, <1>4, <1>5 DEF IInv

LEMMA NextIInv == IInv /\ [Next]_vars => IInv'
<1> SUFFICES ASSUME IInv, [Next]_vars PROVE IInv'
    OBVIOUS
<1>1. ASSUME NEW c \in Writers \cup Readers, Caller(c) PROVE IInv'
  BY <1>1, CallIInv, EnterIInv, LeaveIInv DEF Caller
<1>2. ASSUME NEW w \in Writers, Writer(w) PROVE IInv'
  BY <1>1, <1>2, LockCollectionIInv, WriteItemIInv, WriteEventIInv, CountIInv DEF Writer
<1>3. ASSUME NEW r \in Readers, Enumerator(r) PROVE IInv'
  BY <1>3, EnumerateStartIInv, EnumerateRangeIInv, PackageLockIInv, PackageReadIInv, SendIInv,
     EnumerateUnlockIInv, CloseIInv DEF Enumerator
<1>4. ASSUME UNCHANGED vars PROVE IInv'
  BY <1>4 DEF vars, IInv, TypeOK, Remaining, WritersReady, HoldsRead, StartsFresh,
              EnumerationExact, HasRead, Token
<1> QED  BY <1>1, <1>2, <1>3, <1>4 DEF Next

LEMMA IInvAlways == Spec => []IInv
BY InitIInv, NextIInv, PTL DEF Spec

-------------------------------------------------------------------------------
\* Callers, goroutines and both locks are always in a state of the model.
THEOREM BuilderLocksTyped == Spec => []TypeOK
<1>1. IInv => TypeOK
  BY DEF IInv
<1> QED  BY <1>1, IInvAlways, PTL

\* Whatever writers do, with or without the builder, an enumeration hands over each
\* package of the collection exactly once: the lock that Enumerate holds across its
\* sends (syft/pkg/collection.go) keeps the collection as it was.
THEOREM BuilderLocksEnumerationExact == Spec => []EnumerationExact
<1>1. IInv => EnumerationExact
  BY DEF IInv
<1> QED  BY <1>1, IInvAlways, PTL
-------------------------------------------------------------------------------
(* Calls of the builder that write whole: a reader of the SBOM finds all of what  *)
(* a call wrote or nothing, for any number of writers, readers and packages.      *)

\* Who writes holds the builder's lock alone, who reads shares it.
Roles ==
    /\ sbomLock.readers \cup sbomLock.waiting \subseteq Readers \ Exclusive
    /\ sbomLock.writer \subseteq Writers \cup Exclusive

Inside == {"item", "write", "count", "receive", "leave"}

Holds(c) == IF c \in Writers \cup Exclusive THEN HasLock(sbomLock, c) ELSE HasRead(sbomLock, c)

LockHeld == \A c \in Writers \cup Readers : pc[c] \in Inside => Holds(c)

\* Of each batch the collection has just what has been written so far.
Applied ==
    \A w \in Writers : \A i \in DOMAIN Batch[w] :
        Effect(packages, Batch[w][i]) <=> i <= Len(Batch[w]) - Len(items[w])

\* A call writes nothing before it is inside and everything before it leaves.
WrittenInside ==
    \A w \in Writers :
        /\ pc[w] \in {"call", "enter"} => items[w] = Batch[w]
        /\ pc[w] \in {"leave", "done", "count"} => items[w] = <<>>

\* A reader is inside while its enumeration runs and then has what the collection has.
ReadersSaw ==
    \A r \in Readers :
        /\ enumerator[r].pc \in EnumeratorWhere \ {"none", "closed"} => pc[r] = "receive"
        /\ enumerator[r].pc = "close" \/ pc[r] = "leave" => got[r] = packages

Whole == Roles /\ LockHeld /\ Applied /\ WrittenInside /\ ReadersSaw

BInv == IInv /\ (guarded => Whole)

-------------------------------------------------------------------------------
LEMMA EffectIs ==
    ASSUME NEW P, NEW i, i.op \in {"add", "delete"}
    PROVE  Effect(P, i) <=> IF i.op = "add" THEN i.package \in P ELSE i.package \notin P
BY DEF Effect, apply

\* What an item does, and that it does nothing to the effect of items on other packages.
LEMMA ApplyEffect ==
    ASSUME NEW P, NEW i, NEW j, i.op \in {"add", "delete"}, j.op \in {"add", "delete"}
    PROVE  /\ Effect(apply(P, i), i)
           /\ i.package # j.package => (Effect(apply(P, i), j) <=> Effect(P, j))
BY EffectIs DEF apply

LEMMA SequenceItem ==
    ASSUME NEW S, NEW s \in Seq(S), NEW i \in DOMAIN s
    PROVE  s[i] \in S /\ i \in 1 .. Len(s) /\ Len(s) \in Nat
OBVIOUS

LEMMA BatchItem ==
    ASSUME NEW w \in Writers, NEW i \in DOMAIN Batch[w]
    PROVE  /\ Batch[w][i].op \in {"add", "delete"}
           /\ Len(Batch[w]) \in Nat /\ i \in 1 .. Len(Batch[w])
<1>1. Batch[w] \in Seq([op : {"add", "delete"}, package : Package])
  BY BatchAssumption
<1>2. Batch[w][i] \in [op : {"add", "delete"}, package : Package]
  BY <1>1, SequenceItem
<1> QED  BY <1>1, <1>2, SequenceItem

LEMMA Minus ==
    ASSUME NEW l \in Nat, NEW k \in 1 .. l, NEW m, m = l - k
    PROVE  l - m = k /\ k \in Nat
OBVIOUS

LEMMA NextItem ==
    ASSUME NEW S, NEW b \in Seq(S), NEW n \in 0 .. Len(b), SubSeq(b, n + 1, Len(b)) # <<>>
    PROVE  /\ n = Len(b) - Len(SubSeq(b, n + 1, Len(b)))
           /\ n + 1 \in 1 .. Len(b)
           /\ Head(SubSeq(b, n + 1, Len(b))) = b[n + 1]
           /\ Len(Tail(SubSeq(b, n + 1, Len(b)))) = Len(b) - (n + 1)
<1> DEFINE s == SubSeq(b, n + 1, Len(b))
<1>1. s \in Seq(S) /\ Len(s) = Len(b) - n /\ \A i \in 1 .. Len(s) : s[i] = b[n + i]
  BY SMT
<1>2. Len(s) > 0
  BY <1>1
<1> QED  BY <1>1, <1>2

LEMMA ItemsLength ==
    ASSUME Remaining, NEW w \in Writers
    PROVE  Len(items[w]) \in 0 .. Len(Batch[w]) /\ (Len(items[w]) = 0 => items[w] = <<>>)
<1>1. PICK n \in 0 .. Len(Batch[w]) : items[w] = SubSeq(Batch[w], n + 1, Len(Batch[w]))
  BY DEF Remaining
<1>2. Batch[w] \in Seq([op : {"add", "delete"}, package : Package])
  BY BatchAssumption
<1> QED  BY <1>1, <1>2

\* A writer inside keeps every other caller out.
LEMMA WriterAlone ==
    ASSUME LockHeld, NEW w \in Writers, NEW c \in (Writers \cup Readers) \ {w},
           pc[w] \in Inside
    PROVE  pc[c] \notin Inside
BY DEF LockHeld, Holds, HasLock, HasRead

-------------------------------------------------------------------------------
LEMMA InitWhole == BatchesApart /\ Init => BInv
<1> SUFFICES ASSUME BatchesApart, Init, guarded PROVE Whole
  BY InitIInv DEF BInv
<1>1. Roles /\ LockHeld
  BY DEF Init, Roles, LockHeld, Unlocked, Inside
<1>2. Applied
  <2> SUFFICES ASSUME NEW w \in Writers, NEW i \in DOMAIN Batch[w]
               PROVE  Effect(packages, Batch[w][i]) <=> i <= Len(Batch[w]) - Len(items[w])
    BY DEF Applied
  <2>1. ~Effect(packages, Batch[w][i]) /\ items[w] = Batch[w]
    BY DEF BatchesApart, Init
  <2>2. i \in 1 .. Len(Batch[w]) /\ Len(Batch[w]) \in Nat
    BY BatchAssumption
  <2> QED  BY <2>1, <2>2
<1>3. WrittenInside
  BY DEF Init, WrittenInside
<1>4. ReadersSaw
  BY DEF Init, ReadersSaw
<1> QED  BY <1>1, <1>2, <1>3, <1>4 DEF Whole

LEMMA CallWhole ==
    ASSUME BInv, guarded, NEW c \in Writers \cup Readers, Call(c)
    PROVE  Whole'
<1> USE DEF BInv, Whole
<1>1. Roles'
  BY CallersAssumption DEF Call, Roles, RLock, Lock, IInv, TypeOK, Mutex
<1>2. LockHeld'
  <2> SUFFICES ASSUME NEW d \in Writers \cup Readers, pc'[d] \in Inside PROVE Holds(d)'
    BY DEF LockHeld
  <2>1. pc[d] \in Inside /\ Holds(d)
    BY DEF Call, Goto, IInv, TypeOK, Inside, LockHeld
  <2> QED  BY <2>1 DEF Call, Holds, HasLock, HasRead, RLock, Lock, Announced, IInv, TypeOK, Mutex
<1>3. Applied'
  BY DEF Call, Applied
<1>4. WrittenInside'
  BY DEF Call, Goto, WrittenInside, IInv, TypeOK
<1>5. ReadersSaw'
  BY DEF Call, Goto, ReadersSaw, IInv, TypeOK
<1> QED  BY <1>1, <1>2, <1>3, <1>4, <1>5

LEMMA EnterWhole ==
    ASSUME BInv, guarded, NEW c \in Writers \cup Readers, Enter(c)
    PROVE  Whole'
<1> USE DEF BInv, Whole
<1>1. Roles'
  BY DEF Enter, Roles
<1>2. LockHeld'
  <2>1. Holds(c)
    BY CallersAssumption DEF Enter, Roles, Holds, HasLock, HasRead
  <2> QED  BY <2>1 DEF Enter, Goto, LockHeld, Holds, IInv, TypeOK
<1>3. Applied'
  BY DEF Enter, Applied
<1>4. WrittenInside'
  BY DEF Enter, Goto, WrittenInside, IInv, TypeOK
<1>5. ReadersSaw'
  <2>1. CASE c \in Writers
    BY <2>1, CallersAssumption DEF Enter, Goto, ReadersSaw, IInv, TypeOK
  <2>2. CASE c \notin Writers
    <3>1. pc'[c] = "receive" /\ enumerator'[c].pc = "start"
      BY <2>2 DEF Enter, Goto, IInv, TypeOK, EnumeratorState
    <3>2. \A r \in Readers \ {c} : pc'[r] = pc[r] /\ enumerator'[r] = enumerator[r]
      BY <2>2 DEF Enter, Goto, IInv, TypeOK
    <3> QED  BY <3>1, <3>2 DEF Enter, ReadersSaw
  <2> QED  BY <2>1, <2>2
<1> QED  BY <1>1, <1>2, <1>3, <1>4, <1>5

LEMMA LeaveWhole ==
    ASSUME BInv, guarded, NEW c \in Writers \cup Readers, Leave(c)
    PROVE  Whole'
<1> USE DEF BInv, Whole
<1>1. Roles'
  BY DEF Leave, Roles, Unlock, RUnlock, IInv, TypeOK, Mutex
<1>2. LockHeld'
  <2> SUFFICES ASSUME NEW d \in Writers \cup Readers, pc'[d] \in Inside PROVE Holds(d)'
    BY DEF LockHeld
  <2>1. d # c /\ pc[d] \in Inside /\ Holds(d)
    BY DEF Leave, Goto, IInv, TypeOK, Inside, LockHeld
  <2>2. Holds(c)
    BY DEF Leave, Inside, LockHeld
  <2> QED  BY <2>1, <2>2 DEF Leave, Holds, HasLock, HasRead, Unlock, RUnlock, IInv, TypeOK, Mutex
<1>3. Applied'
  BY DEF Leave, Applied
<1>4. WrittenInside'
  BY DEF Leave, Goto, WrittenInside, IInv, TypeOK
<1>5. ReadersSaw'
  BY DEF Leave, Goto, ReadersSaw, IInv, TypeOK
<1> QED  BY <1>1, <1>2, <1>3, <1>4, <1>5

LEMMA WriteItemWhole ==
    ASSUME BatchesApart, BInv, guarded, NEW w \in Writers, WriteItem(w)
    PROVE  Whole'
<1> USE DEF BInv, Whole
<1>1. Roles'
  BY DEF WriteItem, Roles
<1>2. LockHeld'
  BY DEF WriteItem, Goto, LockHeld, Holds, Inside, IInv, TypeOK
<1>3. Applied'
  <2>1. PICK n \in 0 .. Len(Batch[w]) : items[w] = SubSeq(Batch[w], n + 1, Len(Batch[w]))
    BY DEF IInv, TypeOK, Remaining
  <2>2. Batch[w] \in Seq([op : {"add", "delete"}, package : Package])
    BY BatchAssumption
  <2>3. items[w] # <<>>
    BY DEF WriteItem, IInv, WritersReady
  <2>4. /\ n = Len(Batch[w]) - Len(items[w])
        /\ n + 1 \in 1 .. Len(Batch[w])
        /\ Head(items[w]) = Batch[w][n + 1]
        /\ Len(Tail(items[w])) = Len(Batch[w]) - (n + 1)
    BY <2>1, <2>2, <2>3, NextItem
  <2>5. packages' = apply(packages, Batch[w][n + 1])
    BY <2>4 DEF WriteItem
  <2>6. items'[w] = Tail(items[w]) /\ \A v \in Writers \ {w} : items'[v] = items[v]
    BY DEF WriteItem, IInv, TypeOK, Remaining
  <2>7. n + 1 \in DOMAIN Batch[w]
    <3>1. DOMAIN Batch[w] = 1 .. Len(Batch[w])
      BY <2>2
    <3> QED  BY <2>4, <3>1
  <2> SUFFICES ASSUME NEW v \in Writers, NEW j \in DOMAIN Batch[v]
               PROVE  Effect(packages', Batch[v][j]) <=> j <= Len(Batch[v]) - Len(items'[v])
    BY DEF Applied
  <2>8. /\ Batch[v][j].op \in {"add", "delete"} /\ Batch[w][n + 1].op \in {"add", "delete"}
        /\ j \in 1 .. Len(Batch[v]) /\ Len(Batch[v]) \in Nat /\ Len(Batch[w]) \in Nat
    BY <2>7, BatchItem
  <2>9. Len(Batch[w]) - Len(items'[w]) = n + 1 /\ n + 1 \in Nat
    <3>1. Len(items'[w]) = Len(Batch[w]) - (n + 1)
      BY <2>4, <2>6
    <3>2. n + 1 \in 1 .. Len(Batch[w]) /\ Len(Batch[w]) \in Nat
      BY <2>4, <2>8
    <3> QED  BY <3>1, <3>2, Minus
  <2>10. CASE v = w /\ j = n + 1
    <3>1. Effect(apply(packages, Batch[w][n + 1]), Batch[w][n + 1])
      BY <2>8, ApplyEffect
    <3>2. j <= Len(Batch[v]) - Len(items'[v])
      <4>1. j = Len(Batch[v]) - Len(items'[v]) /\ j \in Nat
        BY <2>10, <2>9
      <4> QED  BY <4>1
    <3> QED  BY <3>1, <3>2, <2>5, <2>10
  <2>11. CASE ~(v = w /\ j = n + 1)
    <3>1. Batch[v][j].package # Batch[w][n + 1].package
      BY <2>7, <2>11 DEF BatchesApart
    <3>2. Effect(packages', Batch[v][j]) <=> Effect(packages, Batch[v][j])
      BY <3>1, <2>5, <2>8, ApplyEffect
    <3>3. Effect(packages, Batch[v][j]) <=> j <= Len(Batch[v]) - Len(items[v])
      BY DEF Applied
    <3>4. CASE v # w
      BY <3>2, <3>3, <3>4, <2>6
    <3>5. CASE v = w
      <4>1. j # n + 1
        BY <3>5, <2>11
      <4>2. Effect(packages, Batch[v][j]) <=> j <= n
        BY <3>3, <3>5, <2>4
      <4>3. Len(Batch[v]) - Len(items'[v]) = n + 1
        BY <3>5, <2>9
      <4>4. j <= n <=> j <= n + 1
        BY <4>1, <2>1, <2>8
      <4> QED  BY <4>2, <4>3, <4>4, <3>2, <3>5
    <3> QED  BY <3>4, <3>5
  <2> QED  BY <2>10, <2>11
<1>4. WrittenInside'
  BY DEF WriteItem, Goto, WrittenInside, IInv, TypeOK, Remaining
<1>5. ReadersSaw'
  <2> SUFFICES ASSUME NEW r \in Readers
               PROVE  /\ enumerator'[r].pc \in EnumeratorWhere \ {"none", "closed"} => pc'[r] = "receive"
                      /\ ~(enumerator'[r].pc = "close" \/ pc'[r] = "leave")
    BY DEF ReadersSaw
  <2>1. r # w /\ pc'[r] = pc[r] /\ enumerator'[r] = enumerator[r]
    BY CallersAssumption DEF WriteItem, Goto, IInv, TypeOK
  <2>2. pc[r] \notin Inside
    BY <2>1, WriterAlone DEF WriteItem, Inside
  <2>3. enumerator[r].pc \in EnumeratorWhere \ {"none", "closed"} => pc[r] = "receive"
    BY DEF ReadersSaw
  <2> QED  BY <2>1, <2>2, <2>3 DEF Inside, EnumeratorWhere
<1> QED  BY <1>1, <1>2, <1>3, <1>4, <1>5

\* The other steps of a writer are inside and leave the collection alone.
LEMMA WriterWhole ==
    ASSUME BInv, guarded, NEW w \in Writers, LockCollection(w) \/ WriteEvent(w) \/ Count(w)
    PROVE  Whole'
<1> USE DEF BInv, Whole
<1>1. /\ UNCHANGED <<sbomLock, packages, items, enumerator, got>>
      /\ pc[w] \in {"item", "count"}
      /\ pc'[w] \in {"write", "count", "leave"}
      /\ \A c \in (Writers \cup Readers) \ {w} : pc'[c] = pc[c]
  BY DEF LockCollection, WriteEvent, Count, Goto, IInv, TypeOK
<1>2. Roles'
  BY <1>1 DEF Roles
<1>3. LockHeld'
  BY <1>1 DEF LockHeld, Holds, Inside
<1>4. Applied'
  BY <1>1 DEF Applied
<1>5. WrittenInside'
  <2>1. pc'[w] \in {"leave", "count"} => items[w] = <<>>
    BY DEF LockCollection, WriteEvent, Count, Goto, IInv, TypeOK, WrittenInside
  <2> QED  BY <1>1, <2>1 DEF WrittenInside
<1>6. ReadersSaw'
  BY <1>1, CallersAssumption DEF ReadersSaw
<1> QED  BY <1>2, <1>3, <1>4, <1>5, <1>6

\* A step of an enumeration before its last.
LEMMA EnumeratorWhole ==
    ASSUME BInv, guarded, NEW r \in Readers,
           \/ EnumerateStart(r) \/ EnumerateRange(r) \/ PackageLock(r) \/ PackageRead(r)
           \/ Send(r) \/ EnumerateUnlock(r)
    PROVE  Whole'
<1> USE DEF BInv, Whole
<1>1. /\ UNCHANGED <<sbomLock, packages, items, pc>>
      /\ enumerator[r].pc \in EnumeratorWhere \ {"none", "close", "closed"}
      /\ \A q \in Readers \ {r} : enumerator'[q] = enumerator[q] /\ got'[q] = got[q]
  BY DEF EnumerateStart, EnumerateRange, PackageLock, PackageRead, Send, EnumerateUnlock,
         IInv, TypeOK, EnumeratorWhere
<1>2. pc[r] = "receive"
  BY <1>1 DEF ReadersSaw
<1>3. enumerator'[r].pc = "close" => got'[r] = packages
  <2>1. CASE EnumerateUnlock(r)
    BY <2>1 DEF EnumerateUnlock, IInv, EnumerationExact, StartsFresh
  <2>2. CASE ~EnumerateUnlock(r)
    <3>1. enumerator'[r].pc \in {"locking", "next", "package", "send"}
      <4>1. enumerator[r] \in EnumeratorState
        BY DEF IInv, TypeOK
      <4>2. CASE PackageRead(r)
        BY <4>1, <4>2 DEF PackageRead, EnumeratorState, IInv, TypeOK
      <4>3. CASE EnumerateStart(r) \/ EnumerateRange(r)
        BY <4>1, <4>3 DEF EnumerateStart, EnumerateRange, EnumeratorState, IInv, TypeOK
      <4>4. CASE PackageLock(r)
        BY <4>1, <4>4 DEF PackageLock, IInv, TypeOK
      <4>5. CASE Send(r)
        BY <4>1, <4>5 DEF Send, EnumeratorState, IInv, TypeOK
      <4> QED  BY <2>2, <4>2, <4>3, <4>4, <4>5
    <3> QED  BY <3>1
  <2> QED  BY <2>1, <2>2
<1>4. Roles' /\ LockHeld' /\ Applied' /\ WrittenInside'
  BY <1>1 DEF Roles, LockHeld, Holds, Applied, WrittenInside
<1>5. ReadersSaw'
  BY <1>1, <1>2, <1>3 DEF ReadersSaw
<1> QED  BY <1>4, <1>5

LEMMA CloseWhole ==
    ASSUME BInv, guarded, NEW r \in Readers, Close(r)
    PROVE  Whole'
<1> USE DEF BInv, Whole
<1>1. /\ UNCHANGED <<sbomLock, packages, items, got>>
      /\ pc[r] = "receive" /\ pc'[r] = "leave" /\ got[r] = packages
      /\ enumerator'[r].pc = "closed"
      /\ \A c \in (Writers \cup Readers) \ {r} : pc'[c] = pc[c]
      /\ \A q \in Readers \ {r} : enumerator'[q] = enumerator[q]
  BY DEF Close, Goto, IInv, TypeOK, EnumeratorState, EnumeratorWhere, ReadersSaw
<1>2. Roles' /\ LockHeld' /\ Applied'
  BY <1>1 DEF Roles, LockHeld, Holds, Inside, Applied
<1>3. WrittenInside'
  BY <1>1, CallersAssumption DEF WrittenInside
<1>4. ReadersSaw'
  BY <1>1 DEF ReadersSaw
<1> QED  BY <1>2, <1>3, <1>4

LEMMA NextWhole == BatchesApart /\ BInv /\ [Next]_vars => BInv'
<1> SUFFICES ASSUME BatchesApart, BInv, [Next]_vars, guarded' PROVE Whole'
  BY NextIInv DEF BInv
<1>1. guarded
  BY DEF Next, vars, Writer, Caller, Enumerator, Call, Enter, Leave, LockCollection, WriteItem,
         WriteEvent, Count, EnumerateStart, EnumerateRange, PackageLock, PackageRead, Send,
         EnumerateUnlock, Close
<1>2. ASSUME NEW c \in Writers \cup Readers, Caller(c) PROVE Whole'
  BY <1>1, <1>2, CallWhole, EnterWhole, LeaveWhole DEF Caller
<1>3. ASSUME NEW w \in Writers, Writer(w) PROVE Whole'
  BY <1>1, <1>2, <1>3, WriteItemWhole, WriterWhole DEF Writer
<1>4. ASSUME NEW r \in Readers, Enumerator(r) PROVE Whole'
  BY <1>1, <1>4, EnumeratorWhole, CloseWhole DEF Enumerator
<1>5. CASE UNCHANGED vars
  BY <1>1, <1>5 DEF BInv, Whole, vars, Roles, LockHeld, Holds, Applied, WrittenInside, ReadersSaw
<1> QED  BY <1>2, <1>3, <1>4, <1>5 DEF Next

LEMMA WholeSeen == BInv => BatchesWhole
<1> SUFFICES ASSUME BInv, guarded, NEW r \in Readers, pc[r] = "leave"
             PROVE  /\ got[r] = packages
                    /\ \A w \in Writers :
                        \/ \A i \in ToSet(Batch[w]) : Effect(got[r], i)
                        \/ \A i \in ToSet(Batch[w]) : ~Effect(got[r], i)
  BY DEF BatchesWhole
<1> USE DEF BInv, Whole
<1>1. got[r] = packages
  BY DEF ReadersSaw
<1>2. ASSUME NEW w \in Writers
      PROVE  \/ \A i \in ToSet(Batch[w]) : Effect(got[r], i)
             \/ \A i \in ToSet(Batch[w]) : ~Effect(got[r], i)
  <2>1. r # w /\ pc[r] \in Inside
    BY CallersAssumption DEF Inside
  <2>2. pc[w] \in {"call", "enter", "leave", "done"}
    BY <2>1, WriterAlone DEF Inside, IInv, TypeOK, Where
  <2>3. \A i \in ToSet(Batch[w]) : \E j \in DOMAIN Batch[w] :
            i = Batch[w][j]
    BY DEF ToSet
  <2>4. Len(<<>>) = 0
    OBVIOUS
  <2>5. CASE items[w] = Batch[w]
    <3>1. \A j \in DOMAIN Batch[w] : ~Effect(packages, Batch[w][j])
      <4> SUFFICES ASSUME NEW j \in DOMAIN Batch[w] PROVE ~Effect(packages, Batch[w][j])
        OBVIOUS
      <4>1. j \in 1 .. Len(Batch[w]) /\ Len(Batch[w]) \in Nat
        BY BatchItem
      <4>2. Effect(packages, Batch[w][j]) <=> j <= Len(Batch[w]) - Len(Batch[w])
        BY <2>5 DEF Applied
      <4> QED  BY <4>1, <4>2
    <3> QED  BY <3>1, <1>1, <2>3
  <2>6. CASE items[w] = <<>>
    <3>1. \A j \in DOMAIN Batch[w] : Effect(packages, Batch[w][j])
      <4> SUFFICES ASSUME NEW j \in DOMAIN Batch[w] PROVE Effect(packages, Batch[w][j])
        OBVIOUS
      <4>1. j \in 1 .. Len(Batch[w]) /\ Len(Batch[w]) \in Nat
        BY BatchItem
      <4>2. Effect(packages, Batch[w][j]) <=> j <= Len(Batch[w]) - Len(<<>>)
        BY <2>6 DEF Applied
      <4> QED  BY <4>1, <4>2, <2>4
    <3> QED  BY <3>1, <1>1, <2>3
  <2> QED  BY <2>2, <2>5, <2>6 DEF WrittenInside
<1> QED  BY <1>1, <1>2

-------------------------------------------------------------------------------
\* Where calls write about different packages, a reader that goes through the builder
\* (internal/sbomsync/builder.go) finds everything that a call wrote or nothing of it,
\* and the collection stays so until the reader leaves.
THEOREM BuilderLocksBatchesWhole == BatchesApart /\ Spec => []BatchesWhole
<1>1. BatchesApart /\ Init => BInv
  BY InitWhole
<1>2. BatchesApart /\ BInv /\ [Next]_vars => BInv'
  BY NextWhole
<1>3. BInv => BatchesWhole
  BY WholeSeen
<1>4. SUFFICES ASSUME BatchesApart PROVE Spec => []BatchesWhole
  OBVIOUS
<1>5. (Init => BInv) /\ (BInv /\ [Next]_vars => BInv')
  BY <1>1, <1>2, <1>4
<1> QED  BY <1>3, <1>5, PTL DEF Spec
===============================================================================
