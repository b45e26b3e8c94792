---------------------------- MODULE StructuresProofs ----------------------------
(* Proofs about what packages and contents are kept in: the package collection,   *)
(* whatever packages and whatever calls, the spill buffer, whatever it holds, and *)
(* the documents of an SBOM, whatever it has and however often it is converted.   *)
EXTENDS Collection, SpillBuf, MCFormats, Induction, FiniteSetTheorems, SequenceTheorems

--------------------------------------------------------------------------------
(* The collection of packages.                                                *)

\* The inductive invariant: the agreement of the indexes is kept by a merge or
\* a deletion only because the stored record names exactly its own keys.
IInv == TypeOK /\ SetsWellFormed /\ IndexesAgree

-------------------------------------------------------------------------------
(* orderedIDSet.                                                              *)

LEMMA MakeSet ==
    ASSUME NEW slice \in Seq(AnyID), NEW index \in (SUBSET AnyID) \cup {Nil},
           \A i, j \in DOMAIN slice : slice[i] = slice[j] => i = j,
           index # Nil => index = ToSet(slice),
           index = Nil => Len(slice) <= Threshold,
           NEW s, s = [slice |-> slice, index |-> index]
    PROVE  s \in OrderedIDSet /\ WellFormed(s) /\ ToSet(s.slice) = ToSet(slice)
<1>1. s.slice = slice /\ s.index = index
  OBVIOUS
<1>2. s \in OrderedIDSet
  BY DEF OrderedIDSet
<1> QED
  BY <1>1, <1>2 DEF WellFormed

LEMMA EmptySet ==
    Empty \in OrderedIDSet /\ WellFormed(Empty) /\ ToSet(Empty.slice) = {}
<1>1. <<>> \in Seq(AnyID) /\ Len(<<>>) = 0 /\ DOMAIN <<>> = {}
  BY EmptySeq
<1>2. ToSet(<<>>) = {}
  BY DEF ToSet
<1>3. Nil \in (SUBSET AnyID) \cup {Nil} /\ Len(<<>>) <= Threshold
  BY <1>1, ThresholdAssumption
<1> QED
  BY <1>1, <1>2, <1>3, MakeSet DEF Empty

LEMMA RangeOfToSet ==
    ASSUME NEW S, NEW s \in Seq(S)
    PROVE  ToSet(s) \in SUBSET S
BY DEF ToSet

LEMMA AppendToSet ==
    ASSUME NEW S, NEW s \in Seq(S), NEW e \in S
    PROVE  ToSet(Append(s, e)) = ToSet(s) \cup {e}
<1> DEFINE t == Append(s, e)
<1>1. /\ DOMAIN t = 1..(Len(s) + 1) /\ DOMAIN s = 1..Len(s) /\ Len(s) \in Nat
      /\ \A i \in 1..Len(s) : t[i] = s[i]
      /\ t[Len(s) + 1] = e
  BY AppendProperties, LenProperties
<1> HIDE DEF t
<1>2. ToSet(t) = ToSet(s) \cup {e}
  BY <1>1 DEF ToSet
<1> QED
  BY <1>2 DEF t

\* add: membership is the slice's, whether or not the hash set answers.
LEMMA AddProperties ==
    ASSUME NEW s \in OrderedIDSet, WellFormed(s), NEW id \in AnyID
    PROVE  /\ add(s, id) \in OrderedIDSet
           /\ WellFormed(add(s, id))
           /\ ToSet(add(s, id).slice) = ToSet(s.slice) \cup {id}
<1>1. contains(s, id) <=> id \in ToSet(s.slice)
  BY DEF contains, WellFormed
<1>2. CASE id \in ToSet(s.slice)
  BY <1>1, <1>2 DEF add
<1>3. CASE id \notin ToSet(s.slice)
  <2> DEFINE slice == Append(s.slice, id)
             index == IF s.index # Nil THEN s.index \cup {id}
                      ELSE IF Len(slice) > Threshold THEN ToSet(slice)
                      ELSE Nil
  <2>1. s.slice \in Seq(AnyID) /\ s.index \in (SUBSET AnyID) \cup {Nil}
    BY DEF OrderedIDSet
  <2>2. /\ slice \in Seq(AnyID) /\ Len(slice) \in Nat
        /\ ToSet(slice) = ToSet(s.slice) \cup {id}
        /\ ToSet(slice) \in SUBSET AnyID
    BY <2>1, AppendToSet, AppendProperties, RangeOfToSet
  <2>3. add(s, id) = [slice |-> slice, index |-> index]
    BY <1>1, <1>3 DEF add
  <2>4. \A i, j \in DOMAIN slice : slice[i] = slice[j] => i = j
    BY <1>3, <2>1 DEF WellFormed, ToSet
  <2> HIDE DEF slice
  <2>5. /\ index \in (SUBSET AnyID) \cup {Nil}
        /\ index # Nil => index = ToSet(slice)
        /\ index = Nil => Len(slice) <= Threshold
    BY <2>1, <2>2, ThresholdAssumption, NilAssumption DEF WellFormed
  <2> HIDE DEF index
  <2> QED
    BY <2>2, <2>3, <2>4, <2>5, MakeSet
<1> QED
  BY <1>2, <1>3

\* The slice with one position removed: every other element, in its place.
LEMMA RemoveAtProperties ==
    ASSUME NEW S, NEW s \in Seq(S), NEW k \in 1..Len(s)
    PROVE  /\ RemoveAt(s, k) \in Seq(S)
           /\ Len(RemoveAt(s, k)) = Len(s) - 1
           /\ \A i \in 1..(Len(s) - 1) : RemoveAt(s, k)[i] = IF i < k THEN s[i] ELSE s[i+1]
<1> DEFINE front == SubSeq(s, 1, k-1)
           back  == SubSeq(s, k+1, Len(s))
<1>1. front \in Seq(S) /\ Len(front) = k-1 /\ \A i \in 1..(k-1) : front[i] = s[i]
  BY SubSeqProperties
<1>2. back \in Seq(S) /\ Len(back) = Len(s)-k /\ \A i \in 1..(Len(s)-k) : back[i] = s[k+i]
  BY SubSeqProperties
<1> HIDE DEF front, back
<1>3. /\ front \o back \in Seq(S)
      /\ Len(front \o back) = Len(s) - 1
      /\ \A i \in 1..(Len(s) - 1) : (front \o back)[i] = IF i < k THEN s[i] ELSE s[i+1]
  <2>1. /\ front \o back \in Seq(S)
        /\ Len(front \o back) = Len(front) + Len(back)
        /\ \A i \in 1..(Len(front) + Len(back)) :
              (front \o back)[i] = IF i <= Len(front) THEN front[i] ELSE back[i - Len(front)]
    BY <1>1, <1>2, ConcatProperties
  <2>2. Len(s) \in Nat /\ Len(front) + Len(back) = Len(s) - 1
    BY <1>1, <1>2, LenProperties
  <2>3. ASSUME NEW i \in 1..(Len(s) - 1)
        PROVE  (front \o back)[i] = IF i < k THEN s[i] ELSE s[i+1]
    <3>1. CASE i < k
      BY <1>1, <2>1, <2>2, <3>1
    <3>2. CASE ~(i < k)
      <4>1. i - (k-1) \in 1..(Len(s)-k) /\ ~(i <= k-1)
        BY <2>2, <3>2
      <4>2. back[i - (k-1)] = s[k + (i - (k-1))] /\ k + (i - (k-1)) = i + 1
        BY <1>2, <2>2, <4>1
      <4> QED
        BY <1>1, <2>1, <2>2, <3>2, <4>1, <4>2
    <3> QED
      BY <3>1, <3>2
  <2> QED
    BY <2>1, <2>2, <2>3
<1> QED
  BY <1>3 DEF RemoveAt, front, back

\* Where a listed ID is found.
LEMMA FirstAtProperties ==
    ASSUME NEW s \in OrderedIDSet, WellFormed(s), NEW id \in ToSet(s.slice)
    PROVE  firstAt(s.slice, id) \in 1..Len(s.slice) /\ s.slice[firstAt(s.slice, id)] = id
<1> DEFINE k == firstAt(s.slice, id)
<1>1. s.slice \in Seq(AnyID)
  BY DEF OrderedIDSet
<1>2. PICK m \in DOMAIN s.slice : s.slice[m] = id
  BY DEF ToSet
<1>3. \A j \in 1..(m-1) : s.slice[j] # id
  BY <1>1, <1>2 DEF WellFormed
<1>4. \E i \in DOMAIN s.slice : s.slice[i] = id /\ \A j \in 1..(i-1) : s.slice[j] # id
  BY <1>2, <1>3
<1>5. k \in DOMAIN s.slice /\ s.slice[k] = id
  BY <1>4, Zenon DEF firstAt
<1> QED
  BY <1>1, <1>5, LenProperties

\* deleteFromIndex: the ID goes, the rest stays, and the hash set follows.
LEMMA DeleteProperties ==
    ASSUME NEW s \in OrderedIDSet, WellFormed(s), NEW id \in AnyID
    PROVE  /\ deleteFromIndex(s, id) \in OrderedIDSet
           /\ WellFormed(deleteFromIndex(s, id))
           /\ ToSet(deleteFromIndex(s, id).slice) = ToSet(s.slice) \ {id}
<1>1. s.slice \in Seq(AnyID) /\ s.index \in (SUBSET AnyID) \cup {Nil}
  BY DEF OrderedIDSet
<1>2. /\ delete(s, id) \in OrderedIDSet
      /\ WellFormed(delete(s, id))
      /\ ToSet(delete(s, id).slice) = ToSet(s.slice) \ {id}
  <2>1. CASE id \notin ToSet(s.slice)
    BY <2>1 DEF delete
  <2>2. CASE id \in ToSet(s.slice)
    <3> DEFINE k == firstAt(s.slice, id)
               slice == RemoveAt(s.slice, k)
               index == IF s.index = Nil THEN Nil ELSE s.index \ {id}
    <3>3. k \in 1..Len(s.slice) /\ s.slice[k] = id
      BY <2>2, FirstAtProperties
    <3>4. delete(s, id) = [slice |-> slice, index |-> index]
      BY <2>2 DEF delete
    <3> HIDE DEF k
    <3>5. /\ slice \in Seq(AnyID) /\ Len(slice) = Len(s.slice) - 1
          /\ \A i \in 1..(Len(s.slice) - 1) :
                slice[i] = IF i < k THEN s.slice[i] ELSE s.slice[i+1]
      BY <1>1, <3>3, RemoveAtProperties
    <3> HIDE DEF slice
    <3>d. /\ Len(s.slice) \in Nat /\ DOMAIN s.slice = 1..Len(s.slice)
          /\ DOMAIN slice = 1..(Len(s.slice) - 1)
      BY <1>1, <3>5, LenProperties
    <3>6. ASSUME NEW i \in DOMAIN slice, NEW j \in DOMAIN slice, slice[i] = slice[j]
          PROVE  i = j
      <4> DEFINE at(n) == IF n < k THEN n ELSE n+1
      <4>1. /\ at(i) \in DOMAIN s.slice /\ slice[i] = s.slice[at(i)]
            /\ at(j) \in DOMAIN s.slice /\ slice[j] = s.slice[at(j)]
        <5>1. ASSUME NEW n \in DOMAIN slice
              PROVE  at(n) \in DOMAIN s.slice /\ slice[n] = s.slice[at(n)]
          BY <3>3, <3>5, <3>d
        <5> QED
          BY <5>1
      <4>2. at(i) = at(j)
        BY <3>6, <4>1 DEF WellFormed
      <4> QED
        BY <3>3, <3>d, <4>2
    <3>7. ToSet(slice) = ToSet(s.slice) \ {id}
      <4>1. ASSUME NEW i \in DOMAIN slice PROVE slice[i] \in ToSet(s.slice) \ {id}
        <5> DEFINE at == IF i < k THEN i ELSE i+1
        <5>1. at \in DOMAIN s.slice /\ at # k /\ slice[i] = s.slice[at]
          BY <3>3, <3>5, <3>d
        <5>2. s.slice[at] # id
          BY <3>3, <3>d, <5>1 DEF WellFormed
        <5> QED
          BY <5>1, <5>2 DEF ToSet
      <4>2. ASSUME NEW j \in DOMAIN s.slice, s.slice[j] # id
            PROVE  \E i \in DOMAIN slice : slice[i] = s.slice[j]
        <5>1. CASE j < k
          BY <3>3, <3>5, <3>d, <5>1
        <5>2. CASE j > k
          <6>1. j-1 \in DOMAIN slice /\ slice[j-1] = s.slice[j]
            BY <3>3, <3>5, <3>d, <5>2
          <6> QED
            BY <6>1
        <5> QED
          BY <1>1, <3>3, <4>2, <5>1, <5>2
      <4> QED
        BY <4>1, <4>2 DEF ToSet
    <3>8. /\ index \in (SUBSET AnyID) \cup {Nil}
          /\ index # Nil => index = ToSet(slice)
          /\ index = Nil => Len(slice) <= Threshold
      <4>1. s.index \in SUBSET AnyID => s.index = ToSet(s.slice)
        BY NilAssumption DEF WellFormed
      <4>2. s.index = Nil => Len(s.slice) <= Threshold
        BY DEF WellFormed
      <4>3. CASE s.index = Nil
        <5>1. index = Nil
          BY <4>3
        <5>2. Len(slice) <= Threshold
          BY <3>5, <3>d, <4>2, <4>3, ThresholdAssumption
        <5> QED
          BY <5>1, <5>2
      <4>4. CASE s.index # Nil
        <5>1. s.index \in SUBSET AnyID /\ s.index = ToSet(s.slice)
          BY <1>1, <4>1, <4>4
        <5>2. index = s.index \ {id}
          BY <4>4
        <5>3. index = ToSet(slice) /\ index \in SUBSET AnyID
          BY <3>7, <5>1, <5>2
        <5> QED
          BY <5>3, NilAssumption
      <4> QED
        BY <4>3, <4>4
    <3> HIDE DEF index
    <3> QED
      BY <3>4, <3>5, <3>6, <3>7, <3>8, MakeSet
  <2> QED
    BY <2>1, <2>2
<1>3. CASE delete(s, id).slice = <<>>
  <2>1. ToSet(delete(s, id).slice) = {}
    BY <1>3 DEF ToSet
  <2> QED
    BY <1>2, <1>3, <2>1, EmptySet DEF deleteFromIndex
<1>4. CASE delete(s, id).slice # <<>>
  BY <1>2, <1>4 DEF deleteFromIndex
<1> QED
  BY <1>3, <1>4

\* add leaves the order of what is listed.
LEMMA AddKeepsOrder ==
    ASSUME NEW s \in OrderedIDSet, NEW id \in AnyID, NEW a, NEW b, Before(s.slice, a, b)
    PROVE  Before(add(s, id).slice, a, b)
<1>1. s.slice \in Seq(AnyID)
  BY DEF OrderedIDSet
<1>2. PICK i \in DOMAIN s.slice, j \in DOMAIN s.slice : i < j /\ s.slice[i] = a /\ s.slice[j] = b
  BY DEF Before
<1>3. CASE add(s, id) = s
  BY <1>3
<1>4. CASE add(s, id) # s
  <2>1. add(s, id).slice = Append(s.slice, id)
    BY <1>4 DEF add
  <2>2. /\ i \in DOMAIN Append(s.slice, id) /\ Append(s.slice, id)[i] = s.slice[i]
        /\ j \in DOMAIN Append(s.slice, id) /\ Append(s.slice, id)[j] = s.slice[j]
    BY <1>1, <1>2, AppendProperties, LenProperties
  <2> QED
    BY <1>2, <2>1, <2>2 DEF Before
<1> QED
  BY <1>3, <1>4

\* deleteFromIndex leaves the order of what stays.
LEMMA DeleteKeepsOrder ==
    ASSUME NEW s \in OrderedIDSet, WellFormed(s), NEW id \in AnyID, NEW a, NEW b, Before(s.slice, a, b),
           {a, b} \subseteq ToSet(deleteFromIndex(s, id).slice)
    PROVE  Before(deleteFromIndex(s, id).slice, a, b)
<1> DEFINE k == firstAt(s.slice, id)
           left == RemoveAt(s.slice, k)
<1>1. s.slice \in Seq(AnyID) /\ a # id /\ b # id
  <2>1. ToSet(deleteFromIndex(s, id).slice) = ToSet(s.slice) \ {id}
    BY DeleteProperties
  <2> QED
    BY <2>1 DEF OrderedIDSet
<1>2. PICK i \in DOMAIN s.slice, j \in DOMAIN s.slice : i < j /\ s.slice[i] = a /\ s.slice[j] = b
  BY DEF Before
<1>3. deleteFromIndex(s, id) = delete(s, id)
  <2>1. ToSet(Empty.slice) = {}
    BY EmptySet
  <2> QED
    BY <2>1 DEF deleteFromIndex
<1>4. CASE id \notin ToSet(s.slice)
  BY <1>3, <1>4 DEF delete
<1>5. CASE id \in ToSet(s.slice)
  <2>1. k \in 1..Len(s.slice) /\ s.slice[k] = id
    BY <1>5, FirstAtProperties
  <2>2. delete(s, id).slice = left
    BY <1>5 DEF delete
  <2> HIDE DEF k
  <2>3. /\ left \in Seq(AnyID) /\ Len(left) = Len(s.slice) - 1
        /\ \A n \in 1..(Len(s.slice) - 1) : left[n] = IF n < k THEN s.slice[n] ELSE s.slice[n+1]
    BY <1>1, <2>1, RemoveAtProperties
  <2> HIDE DEF left
  <2>4. /\ Len(s.slice) \in Nat /\ DOMAIN s.slice = 1..Len(s.slice)
        /\ DOMAIN left = 1..(Len(s.slice) - 1)
    BY <1>1, <2>3, LenProperties
  <2> DEFINE at(n) == IF n < k THEN n ELSE n - 1
  <2>5. ASSUME NEW n \in DOMAIN s.slice, n # k PROVE at(n) \in DOMAIN left /\ left[at(n)] = s.slice[n]
    <3>1. CASE n < k
      BY <2>1, <2>3, <2>4, <3>1
    <3>2. CASE n > k
      <4>1. n - 1 \in 1..(Len(s.slice) - 1) /\ ~(n - 1 < k) /\ (n - 1) + 1 = n
        BY <2>1, <2>4, <3>2
      <4> QED
        BY <2>1, <2>3, <2>4, <3>2, <4>1
    <3> QED
      BY <2>1, <2>4, <2>5, <3>1, <3>2
  <2>6. i # k /\ j # k
    BY <1>1, <1>2, <2>1
  <2>7. at(i) < at(j)
    BY <1>2, <2>1, <2>4, <2>6
  <2> HIDE DEF at
  <2>8. Before(left, a, b)
    BY <1>2, <2>5, <2>6, <2>7 DEF Before
  <2> QED
    BY <1>3, <2>2, <2>8
<1> QED
  BY <1>4, <1>5

-------------------------------------------------------------------------------
(* The indexes that hold several sets at once.                                *)

LEMMA AddPathsProperties ==
    ASSUME idsByPath \in [Path -> OrderedIDSet],
           \A x \in Path : WellFormed(idsByPath[x]),
           NEW p \in PackageRecord
    PROVE  /\ addPathsToIndex(p) \in [Path -> OrderedIDSet]
           /\ \A x \in Path :
                /\ WellFormed(addPathsToIndex(p)[x])
                /\ ToSet(addPathsToIndex(p)[x].slice) =
                     ToSet(idsByPath[x].slice) \cup (IF x \in PathsOf(p.locs) THEN {p.id} ELSE {})
<1>1. p.id \in AnyID
  BY DEF PackageRecord
<1>2. ASSUME NEW x \in Path
      PROVE  /\ addPathsToIndex(p)[x] \in OrderedIDSet
             /\ WellFormed(addPathsToIndex(p)[x])
             /\ ToSet(addPathsToIndex(p)[x].slice) =
                  ToSet(idsByPath[x].slice) \cup (IF x \in PathsOf(p.locs) THEN {p.id} ELSE {})
  <2>1. idsByPath[x] \in OrderedIDSet /\ WellFormed(idsByPath[x])
    OBVIOUS
  <2>2. CASE x \in PathsOf(p.locs)
    BY <1>1, <2>1, <2>2, AddProperties DEF addPathsToIndex
  <2>3. CASE x \notin PathsOf(p.locs)
    BY <2>1, <2>3 DEF addPathsToIndex
  <2> QED
    BY <2>2, <2>3
<1> QED
  BY <1>2 DEF addPathsToIndex

LEMMA DeletePathsProperties ==
    ASSUME idsByPath \in [Path -> OrderedIDSet],
           \A x \in Path : WellFormed(idsByPath[x]),
           NEW p \in PackageRecord
    PROVE  /\ deletePathsFromIndex(p) \in [Path -> OrderedIDSet]
           /\ \A x \in Path :
                /\ WellFormed(deletePathsFromIndex(p)[x])
                /\ ToSet(deletePathsFromIndex(p)[x].slice) =
                     ToSet(idsByPath[x].slice) \ (IF x \in PathsOf(p.locs) THEN {p.id} ELSE {})
<1>1. p.id \in AnyID
  BY DEF PackageRecord
<1>2. ASSUME NEW x \in Path
      PROVE  /\ deletePathsFromIndex(p)[x] \in OrderedIDSet
             /\ WellFormed(deletePathsFromIndex(p)[x])
             /\ ToSet(deletePathsFromIndex(p)[x].slice) =
                  ToSet(idsByPath[x].slice) \ (IF x \in PathsOf(p.locs) THEN {p.id} ELSE {})
  <2>1. idsByPath[x] \in OrderedIDSet /\ WellFormed(idsByPath[x])
    OBVIOUS
  <2>2. CASE x \in PathsOf(p.locs)
    BY <1>1, <2>1, <2>2, DeleteProperties DEF deletePathsFromIndex
  <2>3. CASE x \notin PathsOf(p.locs)
    BY <2>1, <2>3 DEF deletePathsFromIndex
  <2> QED
    BY <2>2, <2>3
<1> QED
  BY <1>2 DEF deletePathsFromIndex

LEMMA PathsOfUnion ==
    ASSUME NEW A, NEW B
    PROVE  PathsOf(A \cup B) = PathsOf(A) \cup PathsOf(B)
BY DEF PathsOf

-------------------------------------------------------------------------------
(* The actions.                                                               *)

LEMMA InitIInv == Init => IInv
<1> SUFFICES ASSUME Init PROVE IInv
  OBVIOUS
<1>1. DOMAIN byID = {} /\ byID = [id \in DOMAIN byID |-> byID[id]] /\ deleting \in Seq(AnyID)
  BY EmptySeq DEF Init
<1>2. TypeOK
  BY <1>1, EmptySet DEF Init, TypeOK
<1>3. SetsWellFormed
  BY EmptySet DEF Init, SetsWellFormed
<1>4. IndexesAgree
  BY <1>1, EmptySet DEF Init, IndexesAgree
<1> QED
  BY <1>2, <1>3, <1>4 DEF IInv

LEMMA IdentifiedType ==
    ASSUME NEW p \in Package
    PROVE  Identified(p) \in PackageRecord
<1>1. p \in PackageRecord
  BY PackageAssumption
<1>2. p.id \in AnyID /\ p.hash \in AnyID
  BY <1>1 DEF PackageRecord
<1> QED
  BY <1>1, <1>2 DEF Identified, PackageRecord

LEMMA NewPackageIInv ==
    ASSUME IInv, NEW p \in PackageRecord, addToIndex(p), UNCHANGED deleting
    PROVE  IInv'
<1> TypeOK /\ SetsWellFormed
  BY DEF IInv
<1>1. p.id \in AnyID /\ p.name \in Name /\ p.type \in Type
  BY DEF PackageRecord
<1>2. /\ DOMAIN byID' = DOMAIN byID \cup {p.id}
      /\ byID'[p.id] = p
      /\ \A id \in DOMAIN byID : byID'[id] = byID[id] /\ id # p.id
      /\ byID' = [id \in DOMAIN byID' |-> byID'[id]]
  BY DEF addToIndex
<1>3. /\ idsByName' \in [Name -> OrderedIDSet]
      /\ \A n \in Name :
           /\ WellFormed(idsByName'[n])
           /\ ToSet(idsByName'[n].slice) =
                ToSet(idsByName[n].slice) \cup (IF n = p.name THEN {p.id} ELSE {})
  <2>1. idsByName[p.name] \in OrderedIDSet /\ WellFormed(idsByName[p.name])
    BY <1>1 DEF TypeOK, SetsWellFormed
  <2>2. idsByName' = [idsByName EXCEPT ![p.name] = add(@, p.id)]
    BY DEF addToIndex
  <2> QED
    BY <1>1, <2>1, <2>2, AddProperties DEF TypeOK, SetsWellFormed
<1>4. /\ idsByType' \in [Type -> OrderedIDSet]
      /\ \A t \in Type :
           /\ WellFormed(idsByType'[t])
           /\ ToSet(idsByType'[t].slice) =
                ToSet(idsByType[t].slice) \cup (IF t = p.type THEN {p.id} ELSE {})
  <2>1. idsByType[p.type] \in OrderedIDSet /\ WellFormed(idsByType[p.type])
    BY <1>1 DEF TypeOK, SetsWellFormed
  <2>2. idsByType' = [idsByType EXCEPT ![p.type] = add(@, p.id)]
    BY DEF addToIndex
  <2> QED
    BY <1>1, <2>1, <2>2, AddProperties DEF TypeOK, SetsWellFormed
<1>5. /\ idsByPath' \in [Path -> OrderedIDSet]
      /\ \A x \in Path :
           /\ WellFormed(idsByPath'[x])
           /\ ToSet(idsByPath'[x].slice) =
                ToSet(idsByPath[x].slice) \cup (IF x \in PathsOf(p.locs) THEN {p.id} ELSE {})
  BY AddPathsProperties DEF addToIndex, TypeOK, SetsWellFormed
<1>6. TypeOK'
  BY <1>1, <1>2, <1>3, <1>4, <1>5 DEF TypeOK
<1>7. SetsWellFormed'
  BY <1>3, <1>4, <1>5 DEF SetsWellFormed
<1>8. IndexesAgree'
  <2>1. ASSUME NEW n \in Name
        PROVE  ToSet(idsByName'[n].slice) = {id \in DOMAIN byID' : byID'[id].name = n}
    <3>1. ToSet(idsByName[n].slice) = {id \in DOMAIN byID : byID[id].name = n}
      BY DEF IndexesAgree, IInv
    <3> QED
      BY <1>2, <1>3, <3>1
  <2>2. ASSUME NEW t \in Type
        PROVE  ToSet(idsByType'[t].slice) = {id \in DOMAIN byID' : byID'[id].type = t}
    <3>1. ToSet(idsByType[t].slice) = {id \in DOMAIN byID : byID[id].type = t}
      BY DEF IndexesAgree, IInv
    <3> QED
      BY <1>2, <1>4, <3>1
  <2>3. ASSUME NEW x \in Path
        PROVE  ToSet(idsByPath'[x].slice) = {id \in DOMAIN byID' : x \in PathsOf(byID'[id].locs)}
    <3>1. ToSet(idsByPath[x].slice) = {id \in DOMAIN byID : x \in PathsOf(byID[id].locs)}
      BY DEF IndexesAgree, IInv
    <3> QED
      BY <1>2, <1>5, <3>1
  <2> QED
    BY <2>1, <2>2, <2>3 DEF IndexesAgree
<1> QED
  BY <1>6, <1>7, <1>8 DEF IInv

LEMMA MergeIInv ==
    ASSUME IInv, NEW p \in PackageRecord, mergePackage(p), UNCHANGED deleting
    PROVE  IInv'
<1> TypeOK /\ SetsWellFormed
  BY DEF IInv
<1> DEFINE old == byID[p.id]
<1>1. p.id \in DOMAIN byID /\ old \in PackageRecord /\ p.locs \in SUBSET Location
  BY DEF mergePackage, TypeOK, PackageRecord
<1>2. /\ DOMAIN byID' = DOMAIN byID
      /\ byID'[p.id] = [old EXCEPT !.locs = old.locs \cup p.locs]
      /\ \A id \in DOMAIN byID : id # p.id => byID'[id] = byID[id]
      /\ byID' = [id \in DOMAIN byID' |-> byID'[id]]
  BY <1>1 DEF mergePackage, TypeOK
<1>3. /\ byID'[p.id] \in PackageRecord
      /\ byID'[p.id].id = old.id /\ byID'[p.id].name = old.name /\ byID'[p.id].type = old.type
      /\ byID'[p.id].locs = old.locs \cup p.locs
  BY <1>1, <1>2 DEF PackageRecord
<1>4. /\ idsByPath' \in [Path -> OrderedIDSet]
      /\ \A x \in Path :
           /\ WellFormed(idsByPath'[x])
           /\ ToSet(idsByPath'[x].slice) =
                ToSet(idsByPath[x].slice) \cup (IF x \in PathsOf(p.locs) THEN {p.id} ELSE {})
  BY AddPathsProperties DEF mergePackage, TypeOK, SetsWellFormed
<1>5. UNCHANGED <<idsByName, idsByType>>
  BY DEF mergePackage
<1>6. TypeOK'
  BY <1>1, <1>2, <1>3, <1>4, <1>5 DEF TypeOK
<1>7. SetsWellFormed'
  BY <1>4, <1>5 DEF SetsWellFormed
<1>8. IndexesAgree'
  <2>1. ASSUME NEW n \in Name
        PROVE  ToSet(idsByName'[n].slice) = {id \in DOMAIN byID' : byID'[id].name = n}
    <3>1. ToSet(idsByName[n].slice) = {id \in DOMAIN byID : byID[id].name = n}
      BY DEF IndexesAgree, IInv
    <3> QED
      BY <1>1, <1>2, <1>3, <1>5, <3>1
  <2>2. ASSUME NEW t \in Type
        PROVE  ToSet(idsByType'[t].slice) = {id \in DOMAIN byID' : byID'[id].type = t}
    <3>1. ToSet(idsByType[t].slice) = {id \in DOMAIN byID : byID[id].type = t}
      BY DEF IndexesAgree, IInv
    <3> QED
      BY <1>1, <1>2, <1>3, <1>5, <3>1
  <2>3. ASSUME NEW x \in Path
        PROVE  ToSet(idsByPath'[x].slice) = {id \in DOMAIN byID' : x \in PathsOf(byID'[id].locs)}
    <3>1. PathsOf(byID'[p.id].locs) = PathsOf(old.locs) \cup PathsOf(p.locs)
      BY <1>3, PathsOfUnion
    <3>2. ToSet(idsByPath[x].slice) = {id \in DOMAIN byID : x \in PathsOf(byID[id].locs)}
      BY DEF IndexesAgree, IInv
    <3>3. ASSUME NEW id \in DOMAIN byID
          PROVE  x \in PathsOf(byID'[id].locs)
                   <=> x \in PathsOf(byID[id].locs) \/ (id = p.id /\ x \in PathsOf(p.locs))
      BY <1>2, <3>1
    <3> QED
      BY <1>1, <1>2, <1>4, <3>2, <3>3
  <2> QED
    BY <2>1, <2>2, <2>3 DEF IndexesAgree
<1> QED
  BY <1>6, <1>7, <1>8 DEF IInv

LEMMA DeleteStoredIInv ==
    ASSUME IInv, deleteStored
    PROVE  IInv'
<1> TypeOK /\ SetsWellFormed
  BY DEF IInv
<1> DEFINE p == byID[Head(deleting)]
<1>1. /\ deleting # <<>> /\ deleting \in Seq(AnyID)
      /\ Head(deleting) \in DOMAIN byID
      /\ p \in PackageRecord /\ p.id = Head(deleting)
  BY DEF deleteStored, TypeOK
<1>2. /\ p.id \in AnyID /\ p.name \in Name /\ p.type \in Type
  BY <1>1 DEF PackageRecord
<1>3. /\ DOMAIN byID' = DOMAIN byID \ {p.id}
      /\ \A id \in DOMAIN byID' : byID'[id] = byID[id]
      /\ byID' = [id \in DOMAIN byID' |-> byID'[id]]
  BY DEF deleteStored
<1>4. /\ idsByName' \in [Name -> OrderedIDSet]
      /\ \A n \in Name :
           /\ WellFormed(idsByName'[n])
           /\ ToSet(idsByName'[n].slice) =
                ToSet(idsByName[n].slice) \ (IF n = p.name THEN {p.id} ELSE {})
  <2>1. idsByName[p.name] \in OrderedIDSet /\ WellFormed(idsByName[p.name])
    BY <1>2 DEF TypeOK, SetsWellFormed
  <2>2. idsByName' = [idsByName EXCEPT ![p.name] = deleteFromIndex(@, p.id)]
    BY DEF deleteStored
  <2> QED
    <3> DEFINE s == idsByName[p.name]
    <3>1. /\ deleteFromIndex(s, p.id) \in OrderedIDSet
          /\ WellFormed(deleteFromIndex(s, p.id))
          /\ ToSet(deleteFromIndex(s, p.id).slice) = ToSet(s.slice) \ {p.id}
      BY <1>2, <2>1, DeleteProperties
    <3> QED
      BY <1>2, <2>2, <3>1 DEF TypeOK, SetsWellFormed
<1>5. /\ idsByType' \in [Type -> OrderedIDSet]
      /\ \A t \in Type :
           /\ WellFormed(idsByType'[t])
           /\ ToSet(idsByType'[t].slice) =
                ToSet(idsByType[t].slice) \ (IF t = p.type THEN {p.id} ELSE {})
  <2>1. idsByType[p.type] \in OrderedIDSet /\ WellFormed(idsByType[p.type])
    BY <1>2 DEF TypeOK, SetsWellFormed
  <2>2. idsByType' = [idsByType EXCEPT ![p.type] = deleteFromIndex(@, p.id)]
    BY DEF deleteStored
  <2> QED
    <3> DEFINE s == idsByType[p.type]
    <3>1. /\ deleteFromIndex(s, p.id) \in OrderedIDSet
          /\ WellFormed(deleteFromIndex(s, p.id))
          /\ ToSet(deleteFromIndex(s, p.id).slice) = ToSet(s.slice) \ {p.id}
      BY <1>2, <2>1, DeleteProperties
    <3> QED
      BY <1>2, <2>2, <3>1 DEF TypeOK, SetsWellFormed
<1>6. /\ idsByPath' \in [Path -> OrderedIDSet]
      /\ \A x \in Path :
           /\ WellFormed(idsByPath'[x])
           /\ ToSet(idsByPath'[x].slice) =
                ToSet(idsByPath[x].slice) \ (IF x \in PathsOf(p.locs) THEN {p.id} ELSE {})
  BY <1>1, DeletePathsProperties DEF deleteStored, TypeOK, SetsWellFormed
<1>7. deleting' \in Seq(AnyID)
  BY <1>1, HeadTailProperties DEF deleteStored
<1>8. TypeOK'
  BY <1>3, <1>4, <1>5, <1>6, <1>7 DEF TypeOK
<1>9. SetsWellFormed'
  BY <1>4, <1>5, <1>6 DEF SetsWellFormed
<1>10. IndexesAgree'
  <2>1. ASSUME NEW n \in Name
        PROVE  ToSet(idsByName'[n].slice) = {id \in DOMAIN byID' : byID'[id].name = n}
    <3>1. ToSet(idsByName[n].slice) = {id \in DOMAIN byID : byID[id].name = n}
      BY DEF IndexesAgree, IInv
    <3> QED
      BY <1>1, <1>3, <1>4, <3>1
  <2>2. ASSUME NEW t \in Type
        PROVE  ToSet(idsByType'[t].slice) = {id \in DOMAIN byID' : byID'[id].type = t}
    <3>1. ToSet(idsByType[t].slice) = {id \in DOMAIN byID : byID[id].type = t}
      BY DEF IndexesAgree, IInv
    <3> QED
      BY <1>1, <1>3, <1>5, <3>1
  <2>3. ASSUME NEW x \in Path
        PROVE  ToSet(idsByPath'[x].slice) = {id \in DOMAIN byID' : x \in PathsOf(byID'[id].locs)}
    <3>1. ToSet(idsByPath[x].slice) = {id \in DOMAIN byID : x \in PathsOf(byID[id].locs)}
      BY DEF IndexesAgree, IInv
    <3> QED
      BY <1>1, <1>3, <1>6, <3>1
  <2> QED
    BY <2>1, <2>2, <2>3 DEF IndexesAgree
<1> QED
  BY <1>8, <1>9, <1>10 DEF IInv

LEMMA NextIInv == IInv /\ [Next]_vars => IInv'
<1> SUFFICES ASSUME IInv, [Next]_vars PROVE IInv'
  OBVIOUS
<1>1. ASSUME NEW p \in Package, Add(p) PROVE IInv'
  <2>1. Identified(p) \in PackageRecord /\ UNCHANGED deleting
    BY <1>1, IdentifiedType DEF Add
  <2>2. CASE addToIndex(Identified(p))
    BY <2>1, <2>2, NewPackageIInv
  <2>3. CASE mergePackage(Identified(p))
    BY <2>1, <2>3, MergeIInv
  <2> QED
    BY <1>1, <2>2, <2>3 DEF Add
<1>2. ASSUME NEW ids \in DeleteArgs, Delete(ids) PROVE IInv'
  <2>1. ids \in Seq(AnyID)
    BY DEF DeleteArgs
  <2> QED
    BY <1>2, <2>1 DEF Delete, IInv, TypeOK, SetsWellFormed, IndexesAgree
<1>3. ASSUME deleteStored PROVE IInv'
  BY <1>3, DeleteStoredIInv
<1>4. ASSUME deleteMissing PROVE IInv'
  <2>1. deleting' \in Seq(AnyID)
    BY <1>4, EmptySeq DEF deleteMissing
  <2> QED
    BY <1>4, <2>1 DEF deleteMissing, IInv, TypeOK, SetsWellFormed, IndexesAgree
<1>5. ASSUME UNCHANGED vars PROVE IInv'
  BY <1>5 DEF vars, IInv, TypeOK, SetsWellFormed, IndexesAgree
<1> QED
  BY <1>1, <1>2, <1>3, <1>4, <1>5 DEF Next

LEMMA IInvAlways == Spec => []IInv
BY InitIInv, NextIInv, PTL DEF Spec

-------------------------------------------------------------------------------

\* The collection's state is always well typed, and a package is stored under
\* its own fingerprint.
THEOREM CollectionTyped == Spec => []TypeOK
<1>1. IInv => TypeOK
  BY DEF IInv
<1> QED
  BY <1>1, IInvAlways, PTL

\* Slice and hash set of every orderedIDSet agree, below and above the threshold.
THEOREM CollectionSetsWellFormed == Spec => []SetsWellFormed
<1>1. IInv => SetsWellFormed
  BY DEF IInv
<1> QED
  BY <1>1, IInvAlways, PTL

\* After any history of additions, merges and deletions, every secondary index
\* lists exactly the stored packages that carry its key.
THEOREM CollectionIndexesAgree == Spec => []IndexesAgree
<1>1. IInv => IndexesAgree
  BY DEF IInv
<1> QED
  BY <1>1, IInvAlways, PTL

\* Two packages listed under a path keep their order while both stay there, whatever is
\* added, merged or deleted around them and whenever the hash set is built.
THEOREM CollectionOrderStable == Spec => OrderStable
<1>1. ASSUME IInv, Next PROVE OrderKept
  <2> SUFFICES ASSUME NEW x \in Path, NEW a \in AnyID, NEW b \in AnyID, Before(idsByPath[x].slice, a, b),
                      {a, b} \subseteq ToSet(idsByPath[x].slice')
               PROVE  Before(idsByPath[x].slice', a, b)
    BY DEF OrderKept
  <2>1. idsByPath[x] \in OrderedIDSet /\ WellFormed(idsByPath[x])
    BY <1>1 DEF IInv, TypeOK, SetsWellFormed
  <2>2. ASSUME NEW p \in PackageRecord, idsByPath' = addPathsToIndex(p) PROVE Before(idsByPath[x].slice', a, b)
    <3>1. p.id \in AnyID /\ idsByPath'[x] \in {idsByPath[x], add(idsByPath[x], p.id)}
      BY <2>2 DEF PackageRecord, addPathsToIndex
    <3> QED
      BY <2>1, <3>1, AddKeepsOrder
  <2>3. ASSUME NEW p \in PackageRecord, idsByPath' = deletePathsFromIndex(p) PROVE Before(idsByPath[x].slice', a, b)
    <3>1. p.id \in AnyID /\ idsByPath'[x] \in {idsByPath[x], deleteFromIndex(idsByPath[x], p.id)}
      BY <2>3 DEF PackageRecord, deletePathsFromIndex
    <3> QED
      BY <2>1, <3>1, DeleteKeepsOrder
  <2>4. ASSUME NEW p \in Package, Add(p) PROVE Before(idsByPath[x].slice', a, b)
    BY <2>2, <2>4, IdentifiedType DEF Add, addToIndex, mergePackage
  <2>5. ASSUME deleteStored PROVE Before(idsByPath[x].slice', a, b)
    BY <1>1, <2>3, <2>5 DEF deleteStored, IInv, TypeOK
  <2>6. CASE UNCHANGED idsByPath
    BY <2>6
  <2> QED
    BY <1>1, <2>4, <2>5, <2>6 DEF Next, Delete, deleteMissing
<1>2. IInv /\ [Next]_vars => [OrderKept]_vars
  BY <1>1
<1> QED
  BY <1>2, IInvAlways, PTL DEF Spec, OrderStable

--------------------------------------------------------------------------------
(* The spill buffer.                                                          *)

(* Ranges.                                                                     *)

\* The larger of two numbers is one of them.
LEMMA MaximumIs ==
    ASSUME NEW a \in Nat, NEW b \in Nat
    PROVE  /\ Maximum(a, b) \in Nat /\ a <= Maximum(a, b) /\ b <= Maximum(a, b)
           /\ (Maximum(a, b) = a \/ Maximum(a, b) = b)
BY DEF Maximum

\* The smaller of two numbers is one of them.
LEMMA MinimumIs ==
    ASSUME NEW a \in Nat, NEW b \in Nat
    PROVE  /\ Minimum(a, b) \in Nat /\ Minimum(a, b) <= a /\ Minimum(a, b) <= b
           /\ (Minimum(a, b) = a \/ Minimum(a, b) = b)
BY DEF Minimum

Extent == [start : Nat, end : Nat]

\* The offsets of a list of ranges.
Cover(w) == UNION {w[i].start .. w[i].end - 1 : i \in DOMAIN w}

\* The ranges are in order and no two of them touch.
Apart(w) ==
    /\ w \in Seq(Extent)
    /\ \A i \in DOMAIN w : w[i].start < w[i].end
    /\ \A i, j \in DOMAIN w : i < j => w[i].end < w[j].start

\* An offset is covered if it lies in one of the ranges.
LEMMA CoverIs ==
    ASSUME NEW w PROVE \A o : o \in Cover(w) <=> \E i \in DOMAIN w : o \in w[i].start .. w[i].end - 1
BY DEF Cover

\* The next range of a list becomes part of the last merged one or follows it.
LEMMA MergeStep ==
    ASSUME NEW acc, Apart(acc), acc # <<>>, NEW cur \in Extent, cur.start < cur.end,
           acc[Len(acc)].start <= cur.start
    PROVE  /\ Apart(mergeExtent(acc, cur)) /\ mergeExtent(acc, cur) # <<>>
           /\ Cover(mergeExtent(acc, cur)) = Cover(acc) \cup (cur.start .. cur.end - 1)
           /\ mergeExtent(acc, cur)[Len(mergeExtent(acc, cur))].start <= cur.start
<1> DEFINE n == Len(acc)
           new == mergeExtent(acc, cur)
           last == acc[n]
<1>1. /\ acc \in Seq(Extent) /\ n \in Nat /\ n >= 1 /\ DOMAIN acc = 1 .. n
      /\ \A i \in 1 .. n : acc[i] \in Extent /\ acc[i].start \in Nat /\ acc[i].end \in Nat
      /\ \A i \in 1 .. n : acc[i].start < acc[i].end
      /\ \A i, j \in 1 .. n : i < j => acc[i].end < acc[j].start
  <2>1. acc \in Seq(Extent) /\ n \in Nat /\ DOMAIN acc = 1 .. n
    BY LenProperties DEF Apart
  <2>2. n >= 1
    BY <2>1, EmptySeq
  <2>3. \A i \in 1 .. n : acc[i] \in Extent
    BY <2>1, ElementOfSeq
  <2>4. \A i \in 1 .. n : acc[i].start \in Nat /\ acc[i].end \in Nat
    BY <2>3 DEF Extent
  <2> QED
    BY <2>1, <2>2, <2>3, <2>4 DEF Apart
<1>2. cur.start \in Nat /\ cur.end \in Nat
  BY DEF Extent
<1>3. /\ Last(acc) = last /\ n \in 1 .. n
      /\ last.start \in Nat /\ last.end \in Nat /\ last.start < last.end /\ last.start <= cur.start
  BY <1>1 DEF Last
<1>4. CASE cur.start <= last.end
  <2> DEFINE end == Maximum(last.end, cur.end)
  <2>1. end \in Nat /\ end >= last.end /\ end >= cur.end /\ (end = last.end \/ end = cur.end)
    BY <1>1, <1>2 DEF Maximum
  <2>2. new = [acc EXCEPT ![n].end = end]
    BY <1>3, <1>4 DEF mergeExtent
  <2>3. /\ new \in Seq(Extent) /\ Len(new) = n /\ DOMAIN new = 1 .. n
        /\ \A i \in 1 .. n : i # n => new[i] = acc[i]
        /\ new[n] = [last EXCEPT !.end = end]
    <3>1. [last EXCEPT !.end = end] \in Extent
      BY <1>1, <2>1 DEF Extent
    <3>2. new = [acc EXCEPT ![n] = [last EXCEPT !.end = end]]
      BY <2>2
    <3> HIDE DEF end, new
    <3>3. new \in Seq(Extent) /\ Len(new) = n
      BY <1>1, <3>1, <3>2, ExceptSeq
    <3> QED
      BY <1>1, <3>2, <3>3
  <2>4. new[n].start = last.start /\ new[n].end = end
    BY <1>1, <2>3 DEF Extent
  <2> HIDE DEF new, end, n
  <2>5. \A i \in 1 .. n : new[i].start = acc[i].start
    BY <2>3, <2>4
  <2>6. Apart(new)
    <3>1. ASSUME NEW i \in 1 .. n PROVE new[i].start < new[i].end
      <4>1. CASE i = n
        BY <1>3, <2>1, <2>4, <4>1
      <4>2. CASE i # n
        BY <1>1, <2>3, <4>2
      <4> QED
        BY <4>1, <4>2
    <3>2. ASSUME NEW i \in 1 .. n, NEW j \in 1 .. n, i < j PROVE new[i].end < new[j].start
      <4>1. i # n
        BY <1>1, <3>2
      <4> QED
        BY <1>1, <2>3, <2>5, <3>2, <4>1
    <3> QED
      BY <2>3, <3>1, <3>2 DEF Apart
  <2>7. new # <<>>
    BY <1>1, <2>3
  <2>8. Cover(new) = Cover(acc) \cup (cur.start .. cur.end - 1)
    <3>1. new[n].start .. new[n].end - 1 = (last.start .. last.end - 1) \cup (cur.start .. cur.end - 1)
      BY <1>1, <1>2, <1>4, <2>1, <2>4
    <3>2. \A o : o \in Cover(new) <=> \E i \in 1 .. n : o \in new[i].start .. new[i].end - 1
      BY <2>3, CoverIs
    <3>3. \A o : o \in Cover(acc) <=> \E i \in 1 .. n : o \in acc[i].start .. acc[i].end - 1
      BY <1>1, CoverIs
    <3>4. ASSUME NEW o
          PROVE  o \in Cover(new) <=> o \in Cover(acc) \cup (cur.start .. cur.end - 1)
      <4>1. ASSUME NEW i \in 1 .. n, i # n
            PROVE  o \in new[i].start .. new[i].end - 1 <=> o \in acc[i].start .. acc[i].end - 1
        BY <2>3, <4>1
      <4>2. o \in new[n].start .. new[n].end - 1 <=>
              o \in acc[n].start .. acc[n].end - 1 \/ o \in cur.start .. cur.end - 1
        BY <3>1
      <4> QED
        BY <1>3, <3>2, <3>3, <4>1, <4>2
    <3> QED
      BY <3>4
  <2>9. new[Len(new)].start <= cur.start
    BY <1>3, <2>3, <2>4
  <2> QED
    BY <2>6, <2>7, <2>8, <2>9 DEF new
<1>5. CASE last.end < cur.start
  <2>1. new = Append(acc, cur)
    <3>1. ~(cur.start <= Last(acc).end)
      BY <1>2, <1>3, <1>5
    <3> QED
      BY <3>1 DEF mergeExtent
  <2>2. /\ new \in Seq(Extent) /\ Len(new) = n + 1 /\ DOMAIN new = 1 .. n + 1
        /\ \A i \in 1 .. n : new[i] = acc[i]
        /\ new[n + 1] = cur
    <3> HIDE DEF new
    <3> QED
      BY <1>1, <2>1, AppendProperties
  <2> HIDE DEF new, n
  <2>3. \A i \in 1 .. n + 1 : i \in 1 .. n \/ i = n + 1
    BY <1>1
  <2>4. Apart(new)
    <3>1. \A i \in 1 .. n + 1 : new[i].start < new[i].end
      BY <1>1, <2>2, <2>3
    <3>2. ASSUME NEW i \in 1 .. n + 1, NEW j \in 1 .. n + 1, i < j PROVE new[i].end < new[j].start
      <4>1. i \in 1 .. n
        BY <1>1, <3>2
      <4>2. CASE j \in 1 .. n
        BY <1>1, <2>2, <3>2, <4>1, <4>2
      <4>3. CASE j = n + 1
        <5>1. acc[i].end <= last.end
          <6>1. CASE i = n
            BY <1>1, <6>1 DEF n
          <6>2. CASE i # n
            <7>1. n \in 1 .. n /\ i < n
              BY <1>1, <4>1, <6>2
            <7>2. acc[i].end < acc[n].start /\ acc[n].start < acc[n].end
              BY <1>1, <4>1, <7>1
            <7>3. acc[i].end \in Nat /\ acc[n].start \in Nat /\ acc[n].end \in Nat
              BY <1>1, <4>1, <7>1
            <7> QED
              BY <7>2, <7>3
          <6> QED
            BY <6>1, <6>2
        <5>2. acc[i].end \in Nat /\ last.end \in Nat
          BY <1>1, <4>1
        <5> QED
          BY <1>2, <1>5, <2>2, <4>1, <4>3, <5>1, <5>2
      <4> QED
        BY <2>3, <4>2, <4>3
    <3> QED
      BY <2>2, <3>1, <3>2 DEF Apart
  <2>5. new # <<>>
    BY <1>1, <2>2
  <2>6. Cover(new) = Cover(acc) \cup (cur.start .. cur.end - 1)
    <3>1. \A o : o \in Cover(new) <=> \E i \in 1 .. n + 1 : o \in new[i].start .. new[i].end - 1
      BY <2>2, CoverIs
    <3>2. \A o : o \in Cover(acc) <=> \E i \in 1 .. n : o \in acc[i].start .. acc[i].end - 1
      BY <1>1, CoverIs
    <3>3. n + 1 \in 1 .. n + 1 /\ \A i \in 1 .. n : i \in 1 .. n + 1
      BY <1>1
    <3>4. \A o : o \in Cover(new) <=> o \in Cover(acc) \cup (cur.start .. cur.end - 1)
      BY <2>2, <2>3, <3>1, <3>2, <3>3
    <3> QED
      BY <3>4
  <2> QED
    BY <1>2, <2>2, <2>4, <2>5, <2>6 DEF new
<1> QED
  BY <1>1, <1>2, <1>4, <1>5

\* Merging keeps to lists of ranges, whichever they are.
LEMMA MergeType ==
    ASSUME NEW acc \in Seq(Extent), acc # <<>>, NEW cur \in Extent
    PROVE  mergeExtent(acc, cur) \in Seq(Extent) /\ mergeExtent(acc, cur) # <<>>
<1> DEFINE n == Len(acc)
           end == Maximum(acc[n].end, cur.end)
           last == [acc[n] EXCEPT !.end = end]
<1>1. n \in Nat /\ n \in 1 .. n /\ acc[n] \in Extent
  <2>1. n \in Nat \ {0}
    BY EmptySeq
  <2> QED
    BY <2>1, ElementOfSeq
<1>2. acc[n].end \in Nat /\ cur.end \in Nat
  BY <1>1 DEF Extent
<1>3. end \in Nat
  BY <1>2 DEF Maximum
<1>4. last \in Extent
  BY <1>1, <1>3 DEF Extent
<1>5. Append(acc, cur) \in Seq(Extent) /\ Len(Append(acc, cur)) = n + 1
  BY AppendProperties
<1>6. mergeExtent(acc, cur) = [acc EXCEPT ![n] = last] \/ mergeExtent(acc, cur) = Append(acc, cur)
  BY DEF mergeExtent, Last
<1> HIDE DEF last
<1>7. [acc EXCEPT ![n] = last] \in Seq(Extent) /\ Len([acc EXCEPT ![n] = last]) = n
  BY <1>1, <1>4, ExceptSeq
<1>8. Len(<<>>) = 0
  BY EmptySeq
<1> QED
  BY <1>1, <1>5, <1>6, <1>7, <1>8

\* The binary search finds a place, and it is the place after the ranges that start before.
LEMMA Placed ==
    ASSUME NEW w, Apart(w), NEW e \in Extent
    PROVE  /\ place(w, e) \in 1 .. Len(w) + 1
           /\ \A k \in DOMAIN w : w[k].start < e.start <=> k < place(w, e)
<1> DEFINE n == Len(w)
           T == {i \in 1 .. n + 1 : i = n + 1 \/ e.start <= w[i].start}
<1>1. /\ n \in Nat /\ DOMAIN w = 1 .. n /\ e.start \in Nat
      /\ \A i \in 1 .. n : w[i].start \in Nat /\ w[i].end \in Nat /\ w[i].start < w[i].end
      /\ \A i, j \in 1 .. n : i < j => w[i].end < w[j].start
  <2>1. w \in Seq(Extent) /\ n \in Nat /\ DOMAIN w = 1 .. n
    BY LenProperties DEF Apart
  <2>2. \A i \in 1 .. n : w[i] \in Extent
    BY <2>1, ElementOfSeq
  <2> QED
    BY <2>1, <2>2 DEF Apart, Extent
<1> HIDE DEF n
<1>2. n + 1 \in T /\ T \subseteq Nat
  BY <1>1
<1>3. PICK p \in T : \A q \in T : p <= q
  BY <1>2, LeastNat
<1>4. p \in 1 .. n + 1
  BY <1>3
<1>5. ASSUME NEW k \in 1 .. n PROVE w[k].start < e.start <=> k < p
  <2>1. CASE k < p
    <3>1. k \notin T
      BY <1>3, <1>4, <2>1
    <3>2. k \in 1 .. n + 1
      BY <1>1
    <3>3. ~(e.start <= w[k].start)
      BY <3>1, <3>2
    <3> QED
      BY <1>1, <2>1, <3>3
  <2>2. CASE k >= p
    <3>1. p \in 1 .. n /\ p # n + 1
      BY <1>1, <1>4, <2>2
    <3>2. e.start <= w[p].start
      BY <1>3, <3>1
    <3>3. w[p].start <= w[k].start
      <4>1. CASE p = k
        BY <1>1, <4>1
      <4>2. CASE p < k
        BY <1>1, <3>1, <4>2
      <4> QED
        BY <1>4, <2>2, <4>1, <4>2
    <3> QED
      BY <1>1, <1>4, <2>2, <3>1, <3>2, <3>3
  <2> QED
    BY <1>4, <2>1, <2>2
<1>6. \E i \in 1 .. n + 1 : \A k \in DOMAIN w : w[k].start < e.start <=> k < i
  BY <1>1, <1>4, <1>5
<1> QED
  BY <1>6 DEF place, n

\* Recording a range adds its offsets to those that were covered, and keeps the ranges
\* in order and apart.
LEMMA Recorded ==
    ASSUME NEW w, Apart(w), NEW e \in Extent, e.start < e.end
    PROVE  /\ Apart(record(w, e))
           /\ Cover(record(w, e)) = Cover(w) \cup (e.start .. e.end - 1)
<1> DEFINE m == Len(w)
           p == place(w, e)
           s == InsertAt(w, p, e)
           r == Tail(s)
           n == Len(r)
<1>1. /\ m \in Nat /\ DOMAIN w = 1 .. m /\ w \in Seq(Extent)
      /\ \A i \in 1 .. m : w[i].start \in Nat /\ w[i].end \in Nat /\ w[i].start < w[i].end
      /\ \A i, j \in 1 .. m : i < j => w[i].end < w[j].start
  <2>1. w \in Seq(Extent) /\ m \in Nat /\ DOMAIN w = 1 .. m
    BY LenProperties DEF Apart
  <2>2. \A i \in 1 .. m : w[i] \in Extent
    BY <2>1, ElementOfSeq
  <2> QED
    BY <2>1, <2>2 DEF Apart, Extent
<1>2. p \in 1 .. m + 1 /\ \A k \in 1 .. m : w[k].start < e.start <=> k < p
  BY <1>1, Placed
<1> HIDE DEF p
<1>3. /\ s \in Seq(Extent) /\ Len(s) = m + 1
      /\ \A i \in 1 .. p - 1 : s[i] = w[i]
      /\ s[p] = e
      /\ \A i \in p .. m : s[i + 1] = w[i]
  <2>1. w \in Seq(Extent) /\ p \in 1 .. Len(w) + 1
    BY <1>1, <1>2
  <2> QED
    BY <2>1, InsertedAt
<1> HIDE DEF s
<1>4. s # <<>>
  BY <1>1, <1>3, EmptySeq
<1>5. /\ r \in Seq(Extent) /\ n = m /\ Head(s) = s[1]
      /\ \A i \in 1 .. n : r[i] = s[i + 1]
  BY <1>1, <1>3, <1>4, HeadTailProperties
<1> HIDE DEF r
<1>6. /\ n \in Nat /\ DOMAIN r = 1 .. n
      /\ \A i \in 1 .. n + 1 : s[i] \in Extent /\ s[i].start \in Nat /\ s[i].start < s[i].end
      /\ \A i \in 1 .. n : s[i].start <= s[i + 1].start
  <2>1. n \in Nat /\ DOMAIN r = 1 .. n
    BY <1>1, <1>5, LenProperties
  <2>2. \A i \in 1 .. n + 1 : s[i] \in Extent
    BY <1>1, <1>3, <1>5, ElementOfSeq
  <2>3. ASSUME NEW i \in 1 .. n + 1 PROVE i \in 1 .. p - 1 \/ i = p \/ (i - 1 \in p .. m /\ i - 1 \in 1 .. m /\ (i - 1) + 1 = i)
    BY <1>1, <1>2, <1>5
  <2>4. ASSUME NEW i \in 1 .. n + 1 PROVE s[i].start < s[i].end
    <3>1. CASE i \in 1 .. p - 1
      BY <1>1, <1>2, <1>3, <3>1
    <3>2. CASE i = p
      BY <1>3, <3>2
    <3>3. CASE i - 1 \in p .. m /\ i - 1 \in 1 .. m /\ (i - 1) + 1 = i
      <4> DEFINE j == i - 1
      <4>1. j \in p .. m /\ j \in 1 .. m /\ j + 1 = i
        BY <3>3
      <4> HIDE DEF j
      <4> QED
        BY <1>1, <1>3, <4>1
    <3> QED
      BY <2>3, <3>1, <3>2, <3>3
  <2>5. ASSUME NEW i \in 1 .. n PROVE s[i].start <= s[i + 1].start
    <3>0. i \in 1 .. m /\ i \in Nat /\ p \in Nat
      BY <1>1, <1>2, <1>5
    <3>1. CASE i + 1 < p
      <4> DEFINE j == i + 1
      <4>1. i \in 1 .. p - 1 /\ j \in 1 .. p - 1 /\ j \in 1 .. m /\ i < j
        BY <1>1, <1>2, <3>0, <3>1
      <4> HIDE DEF j
      <4>2. s[i] = w[i] /\ s[j] = w[j] /\ w[i].end < w[j].start /\ w[i].start < w[i].end
        BY <1>1, <1>3, <3>0, <4>1
      <4>3. w[i].start \in Nat /\ w[i].end \in Nat /\ w[j].start \in Nat
        BY <1>1, <3>0, <4>1
      <4> QED
        BY <4>2, <4>3 DEF j
    <3>2. CASE i + 1 = p
      <4>1. s[i] = w[i] /\ s[i + 1] = e /\ w[i].start < e.start
        BY <1>2, <1>3, <3>0, <3>2
      <4>2. w[i].start \in Nat /\ e.start \in Nat
        BY <1>1, <3>0 DEF Extent
      <4> QED
        BY <4>1, <4>2
    <3>3. CASE i = p
      <4>1. s[i] = e /\ s[i + 1] = w[i] /\ ~(w[i].start < e.start)
        BY <1>2, <1>3, <3>0, <3>3
      <4>2. w[i].start \in Nat /\ e.start \in Nat
        BY <1>1, <3>0 DEF Extent
      <4> QED
        BY <4>1, <4>2
    <3>4. CASE i > p
      <4> DEFINE j == i - 1
      <4>1. j \in p .. m /\ i \in p .. m /\ j \in 1 .. m /\ j + 1 = i /\ j < i
        BY <1>1, <1>2, <3>0, <3>4
      <4> HIDE DEF j
      <4>2. s[i] = w[j] /\ s[i + 1] = w[i] /\ w[j].end < w[i].start /\ w[j].start < w[j].end
        BY <1>1, <1>3, <3>0, <4>1
      <4>3. w[j].start \in Nat /\ w[j].end \in Nat /\ w[i].start \in Nat
        BY <1>1, <3>0, <4>1
      <4> QED
        BY <4>2, <4>3
    <3> QED
      BY <3>0, <3>1, <3>2, <3>3, <3>4
  <2>6. \A i \in 1 .. n + 1 : s[i].start \in Nat
    BY <2>2 DEF Extent
  <2> QED
    BY <2>1, <2>2, <2>4, <2>5, <2>6
\* What the ranges of s cover.
<1>7. Cover(s) = Cover(w) \cup (e.start .. e.end - 1)
  <2>1. DOMAIN s = 1 .. m + 1
    BY <1>3, LenProperties
  <2>2. ASSUME NEW o, o \in Cover(s) PROVE o \in Cover(w) \cup (e.start .. e.end - 1)
    <3>1. PICK i \in 1 .. m + 1 : o \in s[i].start .. s[i].end - 1
      BY <2>1, <2>2, CoverIs
    <3>2. i \in 1 .. p - 1 \/ i = p \/ (i - 1 \in p .. m /\ i - 1 \in 1 .. m /\ (i - 1) + 1 = i)
      BY <1>1, <1>2
    <3>3. CASE i \in 1 .. p - 1
      <4>1. i \in 1 .. m /\ s[i] = w[i]
        BY <1>1, <1>2, <1>3, <3>3
      <4> QED
        BY <1>1, <3>1, <4>1, CoverIs
    <3>4. CASE i = p
      BY <1>3, <3>1, <3>4
    <3>5. CASE i - 1 \in p .. m /\ i - 1 \in 1 .. m /\ (i - 1) + 1 = i
      <4> DEFINE j == i - 1
      <4>1. j \in p .. m /\ j \in 1 .. m /\ j + 1 = i
        BY <3>5
      <4> HIDE DEF j
      <4>2. s[i] = w[j]
        BY <1>3, <4>1
      <4> QED
        BY <1>1, <3>1, <4>1, <4>2, CoverIs
    <3> QED
      BY <3>2, <3>3, <3>4, <3>5
  <2>3. ASSUME NEW o, o \in Cover(w) PROVE o \in Cover(s)
    <3>1. PICK i \in 1 .. m : o \in w[i].start .. w[i].end - 1
      BY <1>1, <2>3, CoverIs
    <3>2. (i \in 1 .. p - 1 /\ i \in 1 .. m + 1) \/ (i \in p .. m /\ i + 1 \in 1 .. m + 1)
      BY <1>1, <1>2
    <3>3. \E j \in 1 .. m + 1 : s[j] = w[i]
      BY <1>3, <3>2
    <3> QED
      BY <2>1, <3>1, <3>3, CoverIs
  <2>4. ASSUME NEW o \in e.start .. e.end - 1 PROVE o \in Cover(s)
    <3>1. p \in 1 .. m + 1 /\ o \in s[p].start .. s[p].end - 1
      BY <1>2, <1>3
    <3> QED
      BY <2>1, <3>1, CoverIs
  <2> QED
    BY <2>2, <2>3, <2>4
\* The fold along the ranges after the first.
<1> DEFINE X == {a \in Seq(Extent) : a # <<>>}
           base == <<Head(s)>>
           step == [ix \in (1 .. n) \X X |-> mergeExtent(ix[2], r[ix[1]])]
           it(f) == f = [u \in SUBSET DOMAIN r |->
                            IF u = {} THEN base
                            ELSE LET x == Max(u) IN mergeExtent(f[u \ {x}], r[x])]
           g == CHOOSE f : it(f)
<1>8. record(w, e) = g[DOMAIN r]
  BY DEF record, FoldLeft, MapThenFoldSet, r, s, p
<1>9. base \in X /\ Len(base) = 1 /\ base[1] = s[1]
  <2>1. s[1] \in Extent
    BY <1>6
  <2> QED
    BY <1>5, <2>1
<1>10. \A a \in X, c \in Extent : mergeExtent(a, c) \in X
  BY MergeType
<1>11. \A i \in 1 .. n : r[i] \in Extent
  BY <1>5, ElementOfSeq
<1> HIDE DEF X, n, base
<1>12. step \in [(1 .. n) \X X -> X]
  BY <1>10, <1>11
<1>13. PICK f : Iterates(f, n, X, base, step)
  BY <1>6, <1>9, <1>12, Iterate
<1>14. it(f)
  <2>1. ASSUME NEW u \in SUBSET (1 .. n), u # {}
        PROVE  step[<<Max(u), f[u \ {Max(u)}]>>] = mergeExtent(f[u \ {Max(u)}], r[Max(u)])
    <3>1. Max(u) \in u
      BY <1>6, <2>1, MaxIn
    <3>2. Max(u) \in 1 .. n /\ f[u \ {Max(u)}] \in X
      BY <1>13, <3>1 DEF Iterates
    <3> QED
      BY <3>2
  <2> HIDE DEF step
  <2> QED
    BY <1>6, <1>13, <2>1 DEF Iterates
<1>15. it(g)
  BY <1>14
<1> HIDE DEF g
<1>16. g[{}] = base
  BY <1>6, <1>15
<1>17. \A i \in 0 .. n - 1 : g[1 .. i + 1] = mergeExtent(g[1 .. i], r[i + 1])
  <2> SUFFICES ASSUME NEW i \in 0 .. n - 1 PROVE g[1 .. i + 1] = mergeExtent(g[1 .. i], r[i + 1])
    OBVIOUS
  <2>1. /\ 1 .. i + 1 # {} /\ 1 .. i + 1 \in SUBSET DOMAIN r
        /\ Max(1 .. i + 1) = i + 1 /\ (1 .. i + 1) \ {i + 1} = 1 .. i
    BY <1>6, Positions
  <2> QED
    BY <1>15, <2>1
\* After i of them the first i + 1 ranges of s are merged.
<1> DEFINE so(i) == UNION {s[j].start .. s[j].end - 1 : j \in 1 .. i + 1}
           merged(a, i) == /\ Apart(a) /\ a # <<>>
                           /\ Cover(a) = so(i)
                           /\ a[Len(a)].start <= s[i + 1].start
           S == {i \in 0 .. n : merged(g[1 .. i], i)}
<1>18. 0 \in S
  <2>1. 0 \in 0 .. n /\ 1 .. 0 = {} /\ 1 \in 1 .. n + 1
    BY <1>6, Positions
  <2>2. base \in Seq(Extent) /\ DOMAIN base = {1} /\ base # <<>>
    <3>1. base \in Seq(Extent) /\ base # <<>>
      BY <1>9 DEF X
    <3>2. DOMAIN base = 1 .. 1
      BY <1>9, <3>1, LenProperties
    <3> QED
      BY <3>1, <3>2
  <2>3. Apart(base)
    BY <1>6, <1>9, <2>1, <2>2 DEF Apart
  <2>4. Cover(base) = so(0)
    <3>1. 1 .. 0 + 1 = {1}
      OBVIOUS
    <3> QED
      BY <1>9, <2>2, <3>1 DEF Cover
  <2>5. base[Len(base)].start <= s[0 + 1].start
    BY <1>6, <1>9, <2>1
  <2> QED
    BY <1>16, <2>1, <2>2, <2>3, <2>5, <2>4
<1>19. \A i \in 0 .. n - 1 : i \in S => i + 1 \in S
  <2> SUFFICES ASSUME NEW i \in 0 .. n - 1, i \in S PROVE i + 1 \in S
    OBVIOUS
  <2> DEFINE a == g[1 .. i]
             c == s[i + 2]
             b == g[1 .. i + 1]
  <2>1. /\ i \in Nat /\ i + 1 \in 1 .. n /\ i + 1 \in 0 .. n /\ i + 1 \in 1 .. n + 1
        /\ i + 2 \in 1 .. n + 1 /\ (i + 1) + 1 = i + 2
    BY <1>6
  <2>2. r[i + 1] = c /\ c \in Extent /\ c.start < c.end /\ s[i + 1].start <= c.start
    BY <1>5, <1>6, <2>1
  <2>3. Apart(a) /\ a # <<>> /\ Cover(a) = so(i) /\ a[Len(a)].start <= s[i + 1].start
    OBVIOUS
  <2>4. a[Len(a)].start \in Nat /\ s[i + 1].start \in Nat /\ c.start \in Nat
    <3>1. a \in Seq(Extent)
      BY <2>3 DEF Apart
    <3>2. Len(a) \in 1 .. Len(a)
      BY <2>3, <3>1, EmptySeq
    <3>3. a[Len(a)] \in Extent
      BY <3>1, <3>2, ElementOfSeq
    <3> QED
      BY <1>6, <2>1, <2>2, <3>3 DEF Extent
  <2>5. b = mergeExtent(a, c)
    BY <1>17, <2>2
  <2>6. so(i + 1) = so(i) \cup (c.start .. c.end - 1)
    <3>1. 1 .. (i + 1) + 1 = (1 .. i + 1) \cup {i + 2}
      BY <2>1
    <3> QED
      BY <3>1
  <2> HIDE DEF a, b, c, so
  <2>7. a[Len(a)].start <= c.start
    BY <2>2, <2>3, <2>4
  <2>8. Apart(b) /\ b # <<>> /\ Cover(b) = Cover(a) \cup (c.start .. c.end - 1) /\ b[Len(b)].start <= c.start
    BY <2>2, <2>3, <2>5, <2>7, MergeStep
  <2>9. merged(b, i + 1)
    BY <2>1, <2>3, <2>6, <2>8 DEF c
  <2> QED
    BY <2>1, <2>9 DEF b
<1> HIDE DEF S
<1>20. n \in S
  <2>1. \A i \in 0 .. n : i \in S
    BY <1>6, <1>18, <1>19, InductNat
  <2> QED
    BY <1>6, <2>1
<1>21. merged(record(w, e), n)
  BY <1>6, <1>8, <1>20 DEF S
<1>22. so(n) = Cover(s)
  <2>1. DOMAIN s = 1 .. n + 1
    BY <1>3, <1>5, LenProperties DEF n
  <2> QED
    BY <2>1 DEF Cover
<1> QED
  BY <1>7, <1>21, <1>22

-------------------------------------------------------------------------------
(* The queries.                                                                *)

\* What Apart says of each range, with its types.
LEMMA ApartFacts ==
    ASSUME NEW w, Apart(w)
    PROVE  /\ w \in Seq(Extent) /\ Len(w) \in Nat /\ DOMAIN w = 1 .. Len(w)
           /\ \A i \in 1 .. Len(w) : w[i] \in Extent /\ w[i].start \in Nat /\ w[i].end \in Nat
                                     /\ w[i].start < w[i].end
           /\ \A i, j \in 1 .. Len(w) : i < j => w[i].end < w[j].start
<1>1. w \in Seq(Extent) /\ Len(w) \in Nat /\ DOMAIN w = 1 .. Len(w)
  BY LenProperties DEF Apart
<1>2. \A i \in 1 .. Len(w) : w[i] \in Extent
  BY <1>1, ElementOfSeq
<1> QED
  BY <1>1, <1>2 DEF Apart, Extent

\* The run that the loop of Size follows ends at the first offset that is not covered.
LEMMA SizeIs ==
    ASSUME Apart(written)
    PROVE  Size \in Nat /\ Size \notin Covered /\ 0 .. Size - 1 \subseteq Covered
<1> DEFINE w == written
           n == Len(w)
           op(c, e) == IF e.start > c THEN c ELSE Maximum(c, e.end)
           step == [ix \in (1 .. n) \X Nat |-> op(ix[2], w[ix[1]])]
           it(f) == f = [u \in SUBSET DOMAIN w |->
                            IF u = {} THEN 0 ELSE LET x == Max(u) IN op(f[u \ {x}], w[x])]
           g == CHOOSE f : it(f)
<1>1. /\ n \in Nat /\ DOMAIN w = 1 .. n
      /\ \A i \in 1 .. n : w[i] \in Extent /\ w[i].start \in Nat /\ w[i].end \in Nat
                           /\ w[i].start < w[i].end
      /\ \A i, j \in 1 .. n : i < j => w[i].end < w[j].start
  BY ApartFacts
<1>2. Covered = Cover(w)
  BY DEF Covered, Cover
<1>3. Size = g[DOMAIN w]
  BY DEF Size, FoldLeft, MapThenFoldSet
<1>4. \A c \in Nat, e \in Extent : op(c, e) \in Nat
  BY DEF Maximum, Extent
<1> HIDE DEF w, n
<1>5. step \in [(1 .. n) \X Nat -> Nat]
  <2> HIDE DEF op
  <2> QED
    BY <1>1, <1>4
<1>6. PICK f : Iterates(f, n, Nat, 0, step)
  BY <1>1, <1>5, Iterate
<1>7. it(f)
  <2> HIDE DEF op
  <2>1. ASSUME NEW u \in SUBSET (1 .. n), u # {}
        PROVE  step[<<Max(u), f[u \ {Max(u)}]>>] = op(f[u \ {Max(u)}], w[Max(u)])
    <3>1. Max(u) \in u
      BY <1>1, <2>1, MaxIn
    <3>2. Max(u) \in 1 .. n /\ f[u \ {Max(u)}] \in Nat
      BY <1>6, <3>1 DEF Iterates
    <3> QED
      BY <3>2
  <2> HIDE DEF step
  <2> QED
    BY <1>1, <1>6, <2>1 DEF Iterates
<1>8. it(g)
  BY <1>7
<1> HIDE DEF g
<1>9. g[{}] = 0
  BY <1>1, <1>8
<1>10. \A i \in 0 .. n - 1 : g[1 .. i + 1] = op(g[1 .. i], w[i + 1])
  <2> HIDE DEF op
  <2> SUFFICES ASSUME NEW i \in 0 .. n - 1 PROVE g[1 .. i + 1] = op(g[1 .. i], w[i + 1])
    OBVIOUS
  <2>1. /\ 1 .. i + 1 # {} /\ 1 .. i + 1 \in SUBSET DOMAIN w
        /\ Max(1 .. i + 1) = i + 1 /\ (1 .. i + 1) \ {i + 1} = 1 .. i
    BY <1>1, Positions
  <2> QED
    BY <1>8, <2>1
\* Either every range so far ends in the run, or one begins past it and so do all later ones.
<1> DEFINE run(c, i) ==
               /\ c \in Nat
               /\ 0 .. c - 1 \subseteq Cover(w)
               /\ \/ \A j \in 1 .. i : w[j].end <= c
                  \/ \E k \in 1 .. i : c < w[k].start /\ \A j \in 1 .. k - 1 : w[j].end <= c
           S == {i \in 0 .. n : run(g[1 .. i], i)}
<1>11. 0 \in S
  <2>1. 0 \in 0 .. n /\ 1 .. 0 = {} /\ 0 .. 0 - 1 = {}
    BY <1>1
  <2> QED
    BY <1>9, <2>1
<1>12. \A i \in 0 .. n - 1 : i \in S => i + 1 \in S
  <2> SUFFICES ASSUME NEW i \in 0 .. n - 1, i \in S PROVE i + 1 \in S
    OBVIOUS
  <2> DEFINE c == g[1 .. i]
             d == g[1 .. i + 1]
             k == i + 1
  <2>1. i \in Nat /\ k \in 1 .. n /\ k \in 0 .. n /\ 1 .. k = (1 .. i) \cup {k} /\ k - 1 = i
    BY <1>1
  <2>2. run(c, i)
    OBVIOUS
  <2>3. d = op(c, w[k])
    BY <1>10
  <2>4. w[k].start \in Nat /\ w[k].end \in Nat /\ w[k].start < w[k].end
    BY <1>1, <2>1
  <2> HIDE DEF c, d, k
  <2>5. CASE w[k].start > c
    <3>1. d = c
      BY <2>3, <2>5
    <3>2. \A j \in 1 .. i : w[j].end <= c
          \/ \E q \in 1 .. i : c < w[q].start /\ \A p \in 1 .. q - 1 : w[p].end <= c
      BY <2>2
    <3>3. \E q \in 1 .. k : c < w[q].start /\ \A p \in 1 .. q - 1 : w[p].end <= c
      <4>1. CASE \A j \in 1 .. i : w[j].end <= c
        BY <2>1, <2>5, <4>1
      <4>2. CASE \E q \in 1 .. i : c < w[q].start /\ \A p \in 1 .. q - 1 : w[p].end <= c
        BY <2>1, <4>2
      <4> QED
        BY <2>2, <4>1, <4>2
    <3>4. run(d, k)
      BY <2>2, <3>1, <3>3
    <3> QED
      BY <2>1, <3>4 DEF d, k
  <2>6. CASE ~(w[k].start > c)
    <3>1. d = Maximum(c, w[k].end) /\ c \in Nat
      BY <2>2, <2>3, <2>6
    <3>2. d \in Nat /\ d >= c /\ d >= w[k].end /\ (d = c \/ d = w[k].end)
      BY <2>4, <3>1 DEF Maximum
    <3>3. 0 .. d - 1 \subseteq Cover(w)
      <4> SUFFICES ASSUME NEW o \in 0 .. d - 1 PROVE o \in Cover(w)
        OBVIOUS
      <4>1. CASE o < c
        BY <2>2, <3>1, <4>1
      <4>2. CASE o >= c
        <5>1. o \in w[k].start .. w[k].end - 1
          BY <2>4, <2>6, <3>1, <3>2, <4>2
        <5> QED
          BY <1>1, <2>1, <5>1, CoverIs
      <4> QED
        BY <3>1, <4>1, <4>2
    <3>4. \A j \in 1 .. k : w[j].end <= d
      <4>1. CASE \A j \in 1 .. i : w[j].end <= c
        <5> SUFFICES ASSUME NEW j \in 1 .. k PROVE w[j].end <= d
          OBVIOUS
        <5>1. CASE j = k
          BY <3>2, <5>1
        <5>2. CASE j \in 1 .. i
          <6>1. w[j].end \in Nat /\ w[j].end <= c
            BY <1>1, <2>1, <4>1, <5>2
          <6> QED
            BY <3>1, <3>2, <6>1
        <5> QED
          BY <2>1, <5>1, <5>2
      <4>2. CASE \E q \in 1 .. i : c < w[q].start
        <5>1. PICK q \in 1 .. i : c < w[q].start
          BY <4>2
        <5>2. q \in 1 .. n /\ q < k
          BY <1>1, <2>1
        <5>3. w[q].end < w[k].start /\ w[q].start < w[q].end /\ w[q].start \in Nat /\ w[q].end \in Nat
          BY <1>1, <2>1, <5>2
        <5> QED
          BY <2>4, <2>6, <3>1, <5>1, <5>3
      <4> QED
        BY <2>2, <4>1, <4>2
    <3>5. run(d, k)
      BY <3>2, <3>3, <3>4
    <3> QED
      BY <2>1, <3>5 DEF d, k
  <2> QED
    BY <2>5, <2>6
<1> HIDE DEF S
<1>13. n \in S
  <2>1. \A i \in 0 .. n : i \in S
    BY <1>1, <1>11, <1>12, InductNat
  <2> QED
    BY <1>1, <2>1
<1>14. run(Size, n)
  BY <1>1, <1>3, <1>13 DEF S
<1>15. Size \notin Cover(w)
  <2> SUFFICES ASSUME Size \in Cover(w) PROVE FALSE
    OBVIOUS
  <2>1. PICK j \in 1 .. n : Size \in w[j].start .. w[j].end - 1
    BY <1>1, CoverIs
  <2>2. w[j].start \in Nat /\ w[j].end \in Nat /\ w[j].start < w[j].end /\ w[j].start <= Size /\ Size < w[j].end
    BY <1>1, <1>14, <2>1
  <2>3. CASE \A q \in 1 .. n : w[q].end <= Size
    BY <1>14, <2>2, <2>3
  <2>4. CASE \E k \in 1 .. n : Size < w[k].start /\ \A q \in 1 .. k - 1 : w[q].end <= Size
    <3>1. PICK k \in 1 .. n : Size < w[k].start /\ \A q \in 1 .. k - 1 : w[q].end <= Size
      BY <2>4
    <3>2. CASE j < k
      <4>1. j \in 1 .. k - 1
        BY <1>1, <3>2
      <4> QED
        BY <1>14, <2>2, <3>1, <4>1
    <3>3. CASE j = k
      BY <1>14, <2>2, <3>1, <3>3
    <3>4. CASE k < j
      <4>1. w[k].end < w[j].start /\ w[k].start < w[k].end /\ w[k].start \in Nat /\ w[k].end \in Nat
        BY <1>1, <3>4
      <4> QED
        BY <1>14, <2>2, <3>1, <4>1
    <3> QED
      BY <1>1, <3>2, <3>3, <3>4
  <2> QED
    BY <1>14, <2>3, <2>4
<1> QED
  BY <1>2, <1>14, <1>15

\* Where size offsets below the bound are free.
Free(size, within) == {at \in 0 .. within - size : (at .. at + size - 1) \cap Covered = {}}

\* Where the loop of FirstGap stands after i ranges.
LoopAt(acc, i, size, within) ==
    /\ acc.at \in Nat
    /\ acc.loop \in {"goes on", "none", "found"}
    /\ acc.loop = "found" => acc.at \in Free(size, within) /\ \A o \in Free(size, within) : acc.at <= o
    /\ acc.loop = "none" => Free(size, within) = {}
    /\ acc.loop = "goes on" => /\ \A o \in Free(size, within) : acc.at <= o
                               /\ \A j \in 1 .. i : written[j].end <= acc.at

Loops == [at : Nat, loop : {"goes on", "none", "found"}]

\* One range of the loop.
LEMMA GapStep ==
    ASSUME Apart(written), NEW size \in Nat \ {0}, NEW within \in Nat, NEW acc \in Loops,
           NEW i \in 0 .. Len(written) - 1, LoopAt(acc, i, size, within)
    PROVE  LoopAt(gapStep(acc, written[i + 1], size, within), i + 1, size, within)
<1> DEFINE w == written
           n == Len(w)
           k == i + 1
           e == w[k]
           F == Free(size, within)
           new == gapStep(acc, e, size, within)
           at == acc.at
           end == Minimum(e.start, within)
<1>1. /\ n \in Nat /\ DOMAIN w = 1 .. n
      /\ \A j \in 1 .. n : w[j] \in Extent /\ w[j].start \in Nat /\ w[j].end \in Nat
                           /\ w[j].start < w[j].end
      /\ \A j, q \in 1 .. n : j < q => w[j].end < w[q].start
  BY ApartFacts
<1>2. Covered = Cover(w)
  BY DEF Covered, Cover
<1> HIDE DEF w, n
<1>3. i \in Nat /\ k \in 1 .. n /\ 1 .. k = (1 .. i) \cup {k} /\ k - 1 = i
  BY <1>1 DEF n, w
<1>4. e.start \in Nat /\ e.end \in Nat /\ e.start < e.end
  BY <1>1, <1>3
<1>5. /\ at \in Nat /\ acc.loop \in {"goes on", "none", "found"}
      /\ acc.loop = "found" => at \in F /\ \A o \in F : at <= o
      /\ acc.loop = "none" => F = {}
      /\ acc.loop = "goes on" => (\A o \in F : at <= o) /\ \A j \in 1 .. i : w[j].end <= at
  BY DEF LoopAt, w
<1>6. \A o : o \in F <=> o \in 0 .. within - size /\ \A x \in o .. o + size - 1 : x \notin Cover(w)
  BY <1>2 DEF Free
<1>7. end \in Nat /\ end <= e.start /\ end <= within /\ (end = e.start \/ end = within)
  BY <1>4 DEF Minimum
<1>12. at \in Nat /\ size \in Nat /\ size >= 1 /\ within \in Nat
  <2>1. size \in Nat /\ size >= 1 /\ within \in Nat
    OBVIOUS
  <2>2. at \in Nat
    BY DEF Loops
  <2> QED
    BY <2>1, <2>2
<1> HIDE DEF F, k, e, end, at
<1>8. CASE acc.loop # "goes on"
  <2>1. new = acc
    BY <1>8 DEF gapStep
  <2> QED
    BY <1>5, <1>8, <2>1 DEF LoopAt, F, k, e, w, at
<1>9. CASE acc.loop = "goes on" /\ at >= within
  <2>0. at >= within
    BY <1>9
  <2>1. new = [acc EXCEPT !.loop = "none"]
    BY <1>9 DEF gapStep, at
  <2>2. new.at = at /\ new.loop = "none"
    BY <2>1 DEF Loops, at
  <2>3. F = {}
    <3> SUFFICES ASSUME NEW o \in F PROVE FALSE
      OBVIOUS
    <3>1. o \in 0 .. within - size /\ at <= o
      BY <1>5, <1>6, <1>9
    <3> QED
      BY <1>12, <2>0, <3>1
  <2> HIDE DEF new
  <2>4. LoopAt(new, k, size, within)
    BY <1>5, <2>2, <2>3 DEF LoopAt, F
  <2> QED
    BY <2>4 DEF new, k, e, w
<1>10. CASE acc.loop = "goes on" /\ ~(at >= within) /\ end > at /\ end - at >= size
  <2>0. end > at /\ end - at >= size
    BY <1>10
  <2>1. new = [acc EXCEPT !.loop = "found"]
    BY <1>10 DEF gapStep, end, at
  <2>2. new.at = at /\ new.loop = "found"
    BY <2>1 DEF Loops, at
  <2>3. at \in F
    <3>1. at \in 0 .. within - size
      BY <1>7, <1>12, <2>0
    <3>2. ASSUME NEW x \in at .. at + size - 1, x \in Cover(w) PROVE FALSE
      <4>1. PICK j \in 1 .. n : x \in w[j].start .. w[j].end - 1
        BY <1>1, <3>2, CoverIs
      <4>2. x \in Nat /\ x < e.start /\ at <= x
        BY <1>4, <1>7, <1>12, <2>0
      <4>3. w[j].start \in Nat /\ w[j].end \in Nat /\ w[j].start <= x /\ x < w[j].end
        BY <1>1, <4>1
      <4>4. CASE j \in 1 .. i
        <5>1. w[j].end <= at
          BY <1>5, <1>10, <4>4
        <5> QED
          BY <1>12, <4>2, <4>3, <5>1
      <4>5. CASE j = k
        BY <1>4, <4>2, <4>3, <4>5 DEF e
      <4>6. CASE k < j
        <5>1. e.end < w[j].start
          BY <1>1, <1>3, <4>6 DEF e
        <5> QED
          BY <1>4, <4>2, <4>3, <5>1
      <4>7. j \in 1 .. i \/ j = k \/ k < j
        BY <1>1, <1>3 DEF k
      <4> QED
        BY <4>4, <4>5, <4>6, <4>7
    <3> QED
      BY <1>6, <3>1, <3>2
  <2> HIDE DEF new
  <2>4. LoopAt(new, k, size, within)
    BY <1>5, <1>10, <2>2, <2>3 DEF LoopAt, F
  <2> QED
    BY <2>4 DEF new, k, e, w
<1>11. CASE acc.loop = "goes on" /\ ~(at >= within) /\ ~(end > at /\ end - at >= size)
  <2>1. new = [acc EXCEPT !.at = Maximum(at, e.end)]
    BY <1>11 DEF gapStep, end, at
  <2>2. new.at = Maximum(at, e.end) /\ new.loop = "goes on"
    BY <1>11, <2>1 DEF Loops, at
  <2>3. /\ new.at \in Nat /\ new.at >= at /\ new.at >= e.end
        /\ (new.at = at \/ new.at = e.end)
    <3>2. new.at = Maximum(at, e.end)
      BY <2>2
    <3>3. at \in Nat /\ e.end \in Nat
      BY <1>4, <1>12
    <3> DEFINE after == Maximum(at, e.end)
    <3>4. after \in Nat /\ at <= after /\ e.end <= after /\ (after = at \/ after = e.end)
      BY <3>3, MaximumIs
    <3> HIDE DEF new, after
    <3> QED
      BY <3>2, <3>3, <3>4 DEF after
  <2> HIDE DEF new
  <2>4. ASSUME NEW o \in F PROVE new.at <= o
    <3>1. o \in 0 .. within - size /\ o \in Nat /\ at <= o
      <4>1. at <= o
        BY <1>5, <1>11
      <4>2. o \in 0 .. within - size
        BY <1>6
      <4> QED
        BY <4>1, <4>2
    <3>2. \A x \in o .. o + size - 1 : x \notin Cover(w)
      BY <1>6
    <3>3. \A x \in e.start .. e.end - 1 : x \in Cover(w)
      BY <1>1, <1>3, CoverIs DEF e
    <3>4. CASE o < e.start
      <4>1. e.start >= o + size
        <5>1. e.start \in e.start .. e.end - 1
          BY <1>4
        <5>2. e.start \notin o .. o + size - 1
          BY <3>2, <3>3, <5>1
        <5> QED
          BY <1>4, <3>1, <3>4, <5>2
      <4>2. o + size <= within
        BY <3>1
      <4>3. end >= o + size
        BY <1>7, <4>1, <4>2
      <4>4. end > at /\ end - at >= size
        BY <1>7, <1>12, <3>1, <4>3
      <4> QED
        BY <1>11, <4>4
    <3>5. CASE o >= e.start
      <4>1. o \in o .. o + size - 1
        BY <3>1
      <4>2. o \notin e.start .. e.end - 1
        BY <3>2, <3>3, <4>1
      <4>3. o >= e.end
        BY <1>4, <3>1, <3>5, <4>2
      <4> QED
        BY <2>3, <3>1, <4>3
    <3> QED
      BY <1>4, <3>1, <3>4, <3>5
  <2>5. ASSUME NEW j \in 1 .. k PROVE w[j].end <= new.at
    <3>1. CASE j = k
      BY <2>3, <3>1 DEF e
    <3>2. CASE j \in 1 .. i
      <4>1. j \in 1 .. n
        BY <1>1, <1>3, <3>2
      <4>2. w[j].end \in Nat /\ w[j].end <= at
        BY <1>1, <1>5, <1>11, <3>2, <4>1
      <4> QED
        BY <1>12, <2>3, <4>2
    <3> QED
      BY <1>3, <3>1, <3>2
  <2>6. LoopAt(new, k, size, within)
    BY <2>2, <2>3, <2>4, <2>5 DEF LoopAt, F, w
  <2> QED
    BY <2>6 DEF new, k, e, w
<1> QED
  BY <1>8, <1>9, <1>10, <1>11

\* The loop of FirstGap stands where it should after the whole list.
LEMMA GapLoop ==
    ASSUME Apart(written), NEW size \in Nat \ {0}, NEW within \in Nat
    PROVE  LoopAt(gapLoop(size, within), Len(written), size, within)
<1> DEFINE w == written
           n == Len(w)
           base == [at |-> 0, loop |-> "goes on"]
           op(acc, e) == gapStep(acc, e, size, within)
           step == [ix \in (1 .. n) \X Loops |-> op(ix[2], w[ix[1]])]
           it(f) == f = [u \in SUBSET DOMAIN w |->
                            IF u = {} THEN base ELSE LET x == Max(u) IN op(f[u \ {x}], w[x])]
           g == CHOOSE f : it(f)
<1>1. /\ n \in Nat /\ DOMAIN w = 1 .. n
      /\ \A i \in 1 .. n : w[i] \in Extent /\ w[i].start \in Nat /\ w[i].end \in Nat
  BY ApartFacts
<1>2. gapLoop(size, within) = g[DOMAIN w]
  BY DEF gapLoop, FoldLeft, MapThenFoldSet
<1>3. base \in Loops /\ base.at = 0 /\ base.loop = "goes on"
  BY DEF Loops
<1>4. ASSUME NEW acc \in Loops, NEW e \in Extent PROVE op(acc, e) \in Loops
  <2>1. acc.at \in Nat /\ e.end \in Nat /\ Maximum(acc.at, e.end) \in Nat
    BY DEF Loops, Extent, Maximum
  <2>2. /\ acc \in Loops
        /\ [acc EXCEPT !.loop = "none"] \in Loops
        /\ [acc EXCEPT !.loop = "found"] \in Loops
        /\ [acc EXCEPT !.at = Maximum(acc.at, e.end)] \in Loops
    BY <2>1 DEF Loops
  <2> QED
    BY <2>2, Zenon DEF gapStep
<1>5. \A i \in 1 .. n : w[i] \in Extent
  BY <1>1
<1> HIDE DEF w, n, op, base
<1>6. step \in [(1 .. n) \X Loops -> Loops]
  BY <1>4, <1>5
<1>7. PICK f : Iterates(f, n, Loops, base, step)
  BY <1>1, <1>3, <1>6, Iterate
<1>8. it(f)
  <2>1. ASSUME NEW u \in SUBSET (1 .. n), u # {}
        PROVE  step[<<Max(u), f[u \ {Max(u)}]>>] = op(f[u \ {Max(u)}], w[Max(u)])
    <3>1. Max(u) \in u
      BY <1>1, <2>1, MaxIn
    <3>2. Max(u) \in 1 .. n /\ f[u \ {Max(u)}] \in Loops
      BY <1>7, <3>1 DEF Iterates
    <3> QED
      BY <3>2
  <2> HIDE DEF step
  <2> QED
    BY <1>1, <1>7, <2>1 DEF Iterates
<1>9. it(g)
  BY <1>8
<1> HIDE DEF g
<1>10. g[{}] = base
  BY <1>1, <1>9
<1>11. \A i \in 0 .. n - 1 : g[1 .. i + 1] = op(g[1 .. i], w[i + 1])
  <2> SUFFICES ASSUME NEW i \in 0 .. n - 1 PROVE g[1 .. i + 1] = op(g[1 .. i], w[i + 1])
    OBVIOUS
  <2>1. /\ 1 .. i + 1 # {} /\ 1 .. i + 1 \in SUBSET DOMAIN w
        /\ Max(1 .. i + 1) = i + 1 /\ (1 .. i + 1) \ {i + 1} = 1 .. i
    BY <1>1, Positions
  <2> QED
    BY <1>9, <2>1
<1> DEFINE S == {i \in 0 .. n : g[1 .. i] \in Loops /\ LoopAt(g[1 .. i], i, size, within)}
<1>12. 0 \in S
  <2>1. 0 \in 0 .. n /\ 1 .. 0 = {}
    BY <1>1
  <2>2. \A o \in Free(size, within) : 0 <= o
    BY DEF Free
  <2>3. \A j \in 1 .. 0 : written[j].end <= 0
    OBVIOUS
  <2>4. LoopAt(base, 0, size, within)
    <3>1. /\ \A o \in Free(size, within) : base.at <= o
          /\ \A j \in 1 .. 0 : written[j].end <= base.at
      BY <1>3, <2>2, <2>3
    <3>2. base.at \in Nat
      <4>1. base.at = 0
        BY <1>3
      <4> QED
        BY <4>1
    <3>3. base.loop = "goes on" /\ base.loop \in {"goes on", "none", "found"}
          /\ base.loop # "none" /\ base.loop # "found"
      BY <1>3
    <3> QED
      BY <3>1, <3>2, <3>3, Zenon DEF LoopAt
  <2> QED
    BY <1>3, <1>10, <2>1, <2>4
<1>13. \A i \in 0 .. n - 1 : i \in S => i + 1 \in S
  <2> SUFFICES ASSUME NEW i \in 0 .. n - 1, i \in S PROVE i + 1 \in S
    OBVIOUS
  <2>1. i + 1 \in 0 .. n /\ i + 1 \in 1 .. n
    BY <1>1
  <2>2. g[1 .. i] \in Loops /\ LoopAt(g[1 .. i], i, size, within)
    OBVIOUS
  <2>3. g[1 .. i + 1] = op(g[1 .. i], w[i + 1]) /\ g[1 .. i + 1] \in Loops
    BY <1>4, <1>5, <1>11, <2>1, <2>2
  <2>4. i \in 0 .. Len(written) - 1
    BY DEF n, w
  <2>5. LoopAt(gapStep(g[1 .. i], written[i + 1], size, within), i + 1, size, within)
    BY <2>2, <2>4, GapStep
  <2> QED
    BY <2>1, <2>3, <2>5 DEF op, w
<1> HIDE DEF S
<1>14. n \in S
  <2>1. \A i \in 0 .. n : i \in S
    BY <1>1, <1>12, <1>13, InductNat
  <2> QED
    BY <1>1, <2>1
<1> QED
  BY <1>1, <1>2, <1>14 DEF S, n, w

-------------------------------------------------------------------------------
(* The tiers.                                                                  *)

\* n cells.
Cell == Byte \cup {Zero}
Cells(n) == [0 .. n - 1 -> Cell]

\* The length of a tier is how many cells it has.
LEMMA LengthIs ==
    ASSUME NEW n \in 0 .. MaxOffset, NEW f \in Cells(n)
    PROVE  Length(f) = n
<1>1. DOMAIN f = 0 .. n - 1 /\ n \in Nat
  BY SpillBufAssumption DEF Cells
<1>2. CASE n = 0
  <2>1. f = <<>>
    BY <1>1, <1>2 DEF Cells
  <2> QED
    BY <1>2, <2>1 DEF Length
<1>3. CASE n # 0
  <2>1. 0 \in DOMAIN f /\ n \in 1 .. MaxOffset
    BY <1>1, <1>3
  <2>2. f # <<>>
    BY <2>1
  <2>3. \A k \in 1 .. MaxOffset : DOMAIN f = 0 .. k - 1 => k = n
    <3> SUFFICES ASSUME NEW k \in 1 .. MaxOffset, 0 .. n - 1 = 0 .. k - 1 PROVE k = n
      BY <1>1
    <3>1. k \in Nat /\ k - 1 \in 0 .. k - 1 /\ n - 1 \in 0 .. n - 1
      BY <2>1
    <3>2. k - 1 \in 0 .. n - 1 /\ n - 1 \in 0 .. k - 1
      BY <3>1
    <3> QED
      BY <1>1, <3>1, <3>2
  <2> QED
    BY <1>1, <2>1, <2>2, <2>3 DEF Length
<1> QED
  BY <1>2, <1>3

\* Stamping b over k cells at off, once there are len of them.
LEMMA Stamped ==
    ASSUME NEW n \in Nat, NEW f \in Cells(n), NEW len \in Nat, NEW off \in Nat, NEW k \in Nat, NEW b \in Byte
    PROVE  /\ stamp(grow(f, len), off, k, b) \in Cells(len)
           /\ \A o \in 0 .. len - 1 :
                stamp(grow(f, len), off, k, b)[o] =
                    IF o \in off .. off + k - 1 THEN b ELSE IF o \in 0 .. n - 1 THEN f[o] ELSE Zero
<1>1. DOMAIN f = 0 .. n - 1 /\ \A o \in 0 .. n - 1 : f[o] \in Cell
  BY DEF Cells
<1>2. /\ DOMAIN grow(f, len) = 0 .. len - 1
      /\ \A o \in 0 .. len - 1 : grow(f, len)[o] = IF o \in 0 .. n - 1 THEN f[o] ELSE Zero
  BY <1>1 DEF grow
<1> HIDE DEF Cell
<1>3. b \in Cell /\ Zero \in Cell
  BY DEF Cell
<1>4. stamp(grow(f, len), off, k, b) =
          [o \in 0 .. len - 1 |-> IF o \in off .. off + k - 1 THEN b ELSE grow(f, len)[o]]
  BY <1>2 DEF stamp
<1>5. \A o \in 0 .. len - 1 :
          /\ stamp(grow(f, len), off, k, b)[o] =
                IF o \in off .. off + k - 1 THEN b ELSE IF o \in 0 .. n - 1 THEN f[o] ELSE Zero
          /\ stamp(grow(f, len), off, k, b)[o] \in Cell
  BY <1>1, <1>2, <1>3, <1>4
<1> QED
  BY <1>4, <1>5 DEF Cells

\* How a range is split between the tiers.
LEMMA SplitAt ==
    ASSUME NEW off \in Nat, NEW n \in Nat
    PROVE  /\ inMem(off, n) \in 0 .. n
           /\ inMem(off, n) < n => MemLimit <= off + inMem(off, n)
           /\ inMem(off, n) > 0 => off + inMem(off, n) <= MemLimit
           /\ \A o \in off .. off + n - 1 : o < MemLimit <=> o < off + inMem(off, n)
<1>1. MemLimit \in Nat
  BY SpillBufAssumption
<1>2. CASE off >= MemLimit
  <2>1. inMem(off, n) = 0
    BY <1>2 DEF inMem
  <2> QED
    BY <1>1, <1>2, <2>1
<1>3. CASE off < MemLimit
  <2>1. inMem(off, n) = IF n < MemLimit - off THEN n ELSE MemLimit - off
    BY <1>1, <1>3 DEF inMem, Minimum
  <2>2. CASE n < MemLimit - off
    BY <1>1, <1>3, <2>1, <2>2
  <2>3. CASE ~(n < MemLimit - off)
    BY <1>1, <1>3, <2>1, <2>3
  <2> QED
    BY <2>2, <2>3
<1> QED
  BY <1>1, <1>2, <1>3

\* Writing to memory stamps the range and leaves what was there, in a tier that reaches
\* the end of the range and never past the limit.
LEMMA MemWritten ==
    ASSUME NEW len \in 0 .. MemLimit, mem \in Cells(len), NEW off \in Nat, NEW n \in Nat,
           off + n <= MemLimit, NEW b \in Byte
    PROVE  \E new \in 0 .. MemLimit :
               /\ len <= new /\ off + n <= new
               /\ writeMem(off, n, b) \in Cells(new)
               /\ \A o \in 0 .. new - 1 :
                    writeMem(off, n, b)[o] =
                        IF o \in off .. off + n - 1 THEN b ELSE IF o \in 0 .. len - 1 THEN mem[o] ELSE Zero
<1>1. MemLimit \in Nat /\ len \in Nat /\ len \in 0 .. MaxOffset
  BY SpillBufAssumption
<1>2. Length(mem) = len
  BY <1>1, LengthIs
<1> DEFINE need == off + n
           double == 2 * len
           new == IF len < need THEN Minimum(MemLimit, Maximum(need, double)) ELSE len
<1>3. writeMem(off, n, b) = stamp(grow(mem, new), off, n, b)
  BY <1>2 DEF writeMem
<1>4. need \in Nat /\ double \in Nat /\ len <= double /\ need <= MemLimit
  BY <1>1
<1>5. new \in Nat /\ len <= new /\ need <= new /\ new <= MemLimit
  <2> HIDE DEF need, double
  <2>1. Maximum(need, double) \in Nat /\ need <= Maximum(need, double) /\ double <= Maximum(need, double)
    BY <1>4, MaximumIs
  <2> DEFINE most == Maximum(need, double)
             least == Minimum(MemLimit, most)
  <2>2. least \in Nat /\ least <= MemLimit /\ (least = MemLimit \/ least = most)
    BY <1>1, <2>1, MinimumIs
  <2> HIDE DEF most, least
  <2>3. new = IF len < need THEN least ELSE len
    BY DEF most, least
  <2> HIDE DEF new
  <2> QED
    BY <1>1, <1>4, <2>1, <2>2, <2>3 DEF most
<1> HIDE DEF new
<1>6. new \in 0 .. MemLimit /\ off + n <= new
  BY <1>1, <1>5 DEF need
<1>7. /\ stamp(grow(mem, new), off, n, b) \in Cells(new)
      /\ \A o \in 0 .. new - 1 :
            stamp(grow(mem, new), off, n, b)[o] =
                IF o \in off .. off + n - 1 THEN b ELSE IF o \in 0 .. len - 1 THEN mem[o] ELSE Zero
  BY <1>1, <1>5, Stamped
<1> QED
  BY <1>3, <1>5, <1>6, <1>7

\* Writing to the file, which holds f, stamps the range and leaves what was there.
LEMMA FileWritten ==
    ASSUME NEW len \in Nat, NEW f \in Cells(len), len + MemLimit <= MaxOffset,
           NEW off \in Nat, NEW n \in Nat, off + n + MemLimit <= MaxOffset, NEW b \in Byte,
           writeFile(off, n, b) = IF n = 0 THEN f
                                  ELSE stamp(grow(f, Maximum(Length(f), off + n)), off, n, b)
    PROVE  \E new \in Nat :
               /\ len <= new /\ new + MemLimit <= MaxOffset /\ (n > 0 => off + n <= new)
               /\ writeFile(off, n, b) \in Cells(new)
               /\ \A o \in 0 .. new - 1 :
                    writeFile(off, n, b)[o] =
                        IF o \in off .. off + n - 1 THEN b ELSE IF o \in 0 .. len - 1 THEN f[o] ELSE Zero
<1>1. MemLimit \in Nat /\ MaxOffset \in Nat /\ len \in 0 .. MaxOffset
  BY SpillBufAssumption
<1>2. Length(f) = len
  BY <1>1, LengthIs
<1>3. CASE n = 0
  <2>1. writeFile(off, n, b) = f
    BY <1>3
  <2>2. off .. off + n - 1 = {}
    BY <1>3
  <2> QED
    BY <1>3, <2>1, <2>2
<1>4. CASE n # 0
  <2> DEFINE new == Maximum(len, off + n)
  <2>1. writeFile(off, n, b) = stamp(grow(f, new), off, n, b)
    BY <1>2, <1>4
  <2>2. off + n \in Nat
    OBVIOUS
  <2>3. new \in Nat /\ len <= new /\ off + n <= new /\ (new = len \/ new = off + n)
    BY <2>2, MaximumIs
  <2> HIDE DEF new
  <2>4. new + MemLimit <= MaxOffset
    BY <2>3
  <2>5. /\ stamp(grow(f, new), off, n, b) \in Cells(new)
        /\ \A o \in 0 .. new - 1 :
              stamp(grow(f, new), off, n, b)[o] =
                  IF o \in off .. off + n - 1 THEN b ELSE IF o \in 0 .. len - 1 THEN f[o] ELSE Zero
    BY <1>1, <2>3, Stamped
  <2> QED
    BY <2>1, <2>3, <2>4, <2>5
<1> QED
  BY <1>3, <1>4

-------------------------------------------------------------------------------
(* The invariant.                                                              *)

\* The ranges are in order, apart and end where an offset can say; and each tier holds
\* a cell for every offset of its own that was written.
Kept ==
    /\ Apart(written)
    /\ Covered \subseteq 0 .. MaxOffset - 1
    /\ \E n \in 0 .. MemLimit : mem \in Cells(n) /\ \A o \in Covered : o < MemLimit => o < n
    /\ file # NoFile => \E n \in Nat : n + MemLimit <= MaxOffset /\ file \in Cells(n)
    /\ \A o \in Covered : o >= MemLimit => file # NoFile /\ o - MemLimit \in DOMAIN file

\* A file is told from the absence of one.
LEMMA NoFileIsNone == ASSUME NEW n \in 0 .. MaxOffset, NEW f \in Cells(n) PROVE f # NoFile
BY SpillBufAssumption DEF Cells, Cell

\* No range covers nothing and needs no cell.
LEMMA NothingCovered == Apart(<<>>) /\ Cover(<<>>) = {} /\ <<>> \in Cells(0)
<1>1. Apart(<<>>)
  BY DEF Apart
<1>2. Cover(<<>>) = {}
  BY DEF Cover
<1>3. <<>> \in Cells(0)
  BY DEF Cells
<1> QED
  BY <1>1, <1>2, <1>3

\* An empty buffer keeps it.
LEMMA EmptyKept ==
    ASSUME written = <<>>, mem = <<>>, file = NoFile
    PROVE  Kept /\ content = <<>>
<1>1. Covered = {}
  BY NothingCovered DEF Covered, Cover
<1>2. Kept
  <2>1. 0 \in 0 .. MemLimit
    BY SpillBufAssumption
  <2> QED
    BY <1>1, <2>1, NothingCovered DEF Kept
<1>3. content = <<>>
  BY <1>1 DEF content
<1> QED
  BY <1>2, <1>3

\* A new buffer is empty, in both specifications.
LEMMA InitKept == BufferInit => Kept /\ Sparse!Init
BY EmptyKept DEF BufferInit, Sparse!Init

\* A closed buffer is empty, in both specifications (Buffer.Close).
LEMMA CloseKept ==
    ASSUME Close
    PROVE  Kept' /\ Sparse!Close
<1>1. Covered' = {}
  BY NothingCovered DEF Covered, Cover, Close
<1>2. Kept'
  <2>1. 0 \in 0 .. MemLimit
    BY SpillBufAssumption
  <2> QED
    BY <1>1, <2>1, NothingCovered DEF Kept, Close
<1>3. content' = <<>>
  BY <1>1 DEF content
<1> QED
  BY <1>2, <1>3 DEF Close, Sparse!Close

\* Where a file that was opened lies: what writeFile starts from.
LEMMA FileIs ==
    ASSUME Kept
    PROVE  \E len \in Nat : \E f \in Cells(len) :
               /\ len + MemLimit <= MaxOffset
               /\ file # NoFile => f = file
               /\ \A off, n, b : writeFile(off, n, b) =
                      IF n = 0 THEN f ELSE stamp(grow(f, Maximum(Length(f), off + n)), off, n, b)
<1>1. CASE file = NoFile
  <2>1. <<>> \in Cells(0) /\ 0 + MemLimit <= MaxOffset
    BY NothingCovered, SpillBufAssumption
  <2>2. \A off, n, b : writeFile(off, n, b) =
            IF n = 0 THEN <<>> ELSE stamp(grow(<<>>, Maximum(Length(<<>>), off + n)), off, n, b)
    BY <1>1 DEF writeFile
  <2> DEFINE f == <<>>
  <2> HIDE DEF f
  <2>3. f \in Cells(0) /\ \A off, n, b : writeFile(off, n, b) =
            IF n = 0 THEN f ELSE stamp(grow(f, Maximum(Length(f), off + n)), off, n, b)
    BY <2>1, <2>2 DEF f
  <2> QED
    BY <1>1, <2>1, <2>3
<1>2. CASE file # NoFile
  <2>1. PICK n \in Nat : n + MemLimit <= MaxOffset /\ file \in Cells(n)
    BY <1>2 DEF Kept
  <2>2. \A off, k, b : writeFile(off, k, b) =
            IF k = 0 THEN file ELSE stamp(grow(file, Maximum(Length(file), off + k)), off, k, b)
    BY <1>2 DEF writeFile
  <2> QED
    BY <2>1, <2>2
<1> QED
  BY <1>1, <1>2

-------------------------------------------------------------------------------
(* Writes.                                                                     *)

\* A range that may be written lies below the largest offset.
LEMMA RangeIs ==
    ASSUME NEW off \in -1 .. MaxOffset, NEW n \in 1 .. MaxLength, ~Fails(off, n)
    PROVE  off \in Nat /\ n \in Nat /\ n >= 1 /\ off + n <= MaxOffset
BY SpillBufAssumption DEF Fails

\* What a file g of len cells holds once a range from the limit on is written.
FileHolds(g, len, at, n, b) ==
    /\ len + MemLimit <= MaxOffset
    /\ g \in Cells(len)
    /\ \A o \in 0 .. len - 1 : o \in at .. at + n - 1 => g[o] = b
    /\ \A o \in at .. at + n - 1 : o \in 0 .. len - 1
    /\ file # NoFile => \A o \in DOMAIN file :
           /\ o \in 0 .. len - 1
           /\ o \notin at .. at + n - 1 => g[o] = file[o]

\* What a write leaves in the file, whether it makes, grows or overwrites it.
LEMMA FileAfter ==
    ASSUME Kept, NEW at \in Nat, NEW n \in Nat, at + n + MemLimit <= MaxOffset, NEW b \in Byte
    PROVE  \E len \in Nat : FileHolds(writeFile(at, n, b), len, at, n, b)
<1>0. PICK old \in Nat : \E g \in Cells(old) :
          /\ old + MemLimit <= MaxOffset
          /\ file # NoFile => g = file
          /\ \A off, k, c : writeFile(off, k, c) =
                 IF k = 0 THEN g ELSE stamp(grow(g, Maximum(Length(g), off + k)), off, k, c)
  BY FileIs
<1>1. PICK f \in Cells(old) :
          /\ old + MemLimit <= MaxOffset
          /\ file # NoFile => f = file
          /\ \A off, k, c : writeFile(off, k, c) =
                 IF k = 0 THEN f ELSE stamp(grow(f, Maximum(Length(f), off + k)), off, k, c)
  BY <1>0
<1>2. MemLimit \in Nat /\ MaxOffset \in Nat
  BY SpillBufAssumption
<1>3. writeFile(at, n, b) = IF n = 0 THEN f ELSE stamp(grow(f, Maximum(Length(f), at + n)), at, n, b)
  BY <1>1
<1> DEFINE w == writeFile(at, n, b)
<1>4. PICK len \in Nat :
          /\ old <= len /\ len + MemLimit <= MaxOffset /\ (n > 0 => at + n <= len)
          /\ w \in Cells(len)
          /\ \A o \in 0 .. len - 1 :
                w[o] = IF o \in at .. at + n - 1 THEN b ELSE IF o \in 0 .. old - 1 THEN f[o] ELSE Zero
  BY <1>1, <1>3, FileWritten
<1> HIDE DEF w
<1>5. ASSUME NEW o \in at .. at + n - 1 PROVE o \in 0 .. len - 1
  BY <1>4
<1>6. ASSUME file # NoFile, NEW o \in DOMAIN file
      PROVE  o \in 0 .. len - 1 /\ (o \notin at .. at + n - 1 => w[o] = file[o])
  <2>1. o \in 0 .. old - 1
    BY <1>1, <1>6 DEF Cells
  <2>2. o \in 0 .. len - 1
    BY <1>4, <2>1
  <2> QED
    BY <1>1, <1>4, <1>6, <2>1, <2>2
<1> QED
  BY <1>4, <1>5, <1>6 DEF w, FileHolds

\* A write that succeeds.
LEMMA WriteSucceeds ==
    ASSUME Kept, NEW off \in Nat, NEW n \in Nat, n >= 1, off + n <= MaxOffset, NEW b \in Byte,
           file' = (IF inMem(off, n) < n
                    THEN writeFile(off + inMem(off, n) - MemLimit, n - inMem(off, n), b) ELSE file),
           mem' = (IF inMem(off, n) > 0 THEN writeMem(off, inMem(off, n), b) ELSE mem),
           written' = record(written, extent(off, off + n))
    PROVE  /\ Kept'
           /\ content' = Sparse!Over([o \in off .. off + n - 1 |-> b], content)
<1> DEFINE range == off .. off + n - 1
           m == inMem(off, n)
           at == off + m - MemLimit
           k == n - m
           e == extent(off, off + n)
<1>0. MemLimit \in Nat /\ MaxOffset \in Nat /\ MemLimit <= MaxOffset
  BY SpillBufAssumption
<1>1. /\ m \in 0 .. n
      /\ m < n => MemLimit <= off + m
      /\ m > 0 => off + m <= MemLimit
      /\ \A o \in range : o < MemLimit <=> o < off + m
  BY SplitAt
<1>2. Apart(written') /\ Covered' = Covered \cup range
  <2>1. e \in Extent /\ e.start = off /\ e.end = off + n /\ e.start < e.end
    BY DEF extent, Extent
  <2>2. Apart(written) /\ Covered = Cover(written) /\ Covered' = Cover(written')
    BY DEF Kept, Covered, Cover
  <2> HIDE DEF e
  <2>3. /\ Apart(record(written, e))
        /\ Cover(record(written, e)) = Cover(written) \cup (e.start .. e.end - 1)
    BY <2>1, <2>2, Recorded
  <2>4. written' = record(written, e)
    BY DEF e
  <2> QED
    BY <2>1, <2>2, <2>3, <2>4
<1> HIDE DEF m
<1>3. Covered \subseteq 0 .. MaxOffset - 1
  BY DEF Kept
<1>4. Covered' \subseteq 0 .. MaxOffset - 1
  <2>1. range \subseteq 0 .. MaxOffset - 1
    BY <1>0
  <2> HIDE DEF range
  <2> QED
    BY <1>2, <1>3, <2>1
\* The memory tier.
<1>5. \E len \in 0 .. MemLimit :
          /\ mem' \in Cells(len)
          /\ \A o \in Covered' : o < MemLimit =>
                o < len /\ mem'[o] = IF o \in range THEN b ELSE mem[o]
  <2>1. PICK old \in 0 .. MemLimit : mem \in Cells(old) /\ \A o \in Covered : o < MemLimit => o < old
    BY DEF Kept
  <2>2. CASE m = 0
    <3>1. mem' = mem
      BY <2>2 DEF m
    <3>2. \A o \in range : ~(o < MemLimit)
      BY <1>1, <2>2
    <3> HIDE DEF range
    <3> QED
      BY <1>2, <2>1, <3>1, <3>2
  <2>3. CASE m > 0
    <3>1. mem' = writeMem(off, m, b) /\ m \in Nat /\ off + m <= MemLimit
      BY <1>1, <2>3 DEF m
    <3>2. PICK new \in 0 .. MemLimit :
              /\ old <= new /\ off + m <= new
              /\ mem' \in Cells(new)
              /\ \A o \in 0 .. new - 1 :
                   mem'[o] = IF o \in off .. off + m - 1 THEN b
                             ELSE IF o \in 0 .. old - 1 THEN mem[o] ELSE Zero
      BY <2>1, <3>1, MemWritten
    <3>3. ASSUME NEW o \in Covered', o < MemLimit
          PROVE  o < new /\ mem'[o] = IF o \in range THEN b ELSE mem[o]
      <4>1. o \in Nat
        BY <1>4, <3>3
      <4>2. CASE o \in range
        <5>1. o \in off .. off + m - 1 /\ o \in 0 .. new - 1
          BY <1>0, <1>1, <3>1, <3>2, <3>3, <4>2
        <5> QED
          BY <3>2, <4>2, <5>1
      <4>3. CASE o \notin range
        <5>1. o \in Covered /\ o < old
          BY <1>2, <2>1, <3>3, <4>3
        <5>2. o \notin off .. off + m - 1
          BY <1>1, <4>1, <4>3
        <5>3. o \in 0 .. new - 1 /\ o \in 0 .. old - 1
          BY <2>1, <3>2, <4>1, <5>1
        <5> QED
          BY <3>2, <4>3, <5>2, <5>3
      <4> QED
        BY <4>2, <4>3
    <3> QED
      BY <3>2, <3>3
  <2> QED
    BY <1>1, <2>2, <2>3
\* The file.
<1>6. /\ file' # NoFile => \E len \in Nat : len + MemLimit <= MaxOffset /\ file' \in Cells(len)
      /\ \A o \in Covered' : o >= MemLimit =>
            /\ file' # NoFile /\ o - MemLimit \in DOMAIN file'
            /\ file'[o - MemLimit] = IF o \in range THEN b ELSE file[o - MemLimit]
  <2>1. /\ file # NoFile => \E len \in Nat : len + MemLimit <= MaxOffset /\ file \in Cells(len)
        /\ \A o \in Covered : o >= MemLimit => file # NoFile /\ o - MemLimit \in DOMAIN file
    BY DEF Kept
  <2>2. CASE m = n
    <3>1. file' = file
      BY <1>1, <2>2 DEF m
    <3>2. \A o \in range : ~(o >= MemLimit)
      BY <1>0, <1>1, <2>2
    <3> HIDE DEF range
    <3> QED
      BY <1>2, <2>1, <3>1, <3>2
  <2>3. CASE m < n
    <3>1. /\ file' = writeFile(at, k, b) /\ at \in Nat /\ k \in Nat
          /\ at + k + MemLimit <= MaxOffset /\ at + k = off + n - MemLimit
      BY <1>0, <1>1, <2>3 DEF m
    <3> HIDE DEF at, k
    <3>2. PICK len \in Nat : FileHolds(file', len, at, k, b)
      <4>1. at \in Nat /\ k \in Nat /\ at + k + MemLimit <= MaxOffset
        BY <3>1
      <4>2. \E len \in Nat : FileHolds(writeFile(at, k, b), len, at, k, b)
        BY <4>1, FileAfter
      <4> QED
        BY <3>1, <4>2
    <3>3. file' # NoFile /\ DOMAIN file' = 0 .. len - 1
      <4>1. len \in 0 .. MaxOffset
        BY <1>0, <3>2 DEF FileHolds
      <4> QED
        BY <3>2, <4>1, NoFileIsNone DEF Cells, FileHolds
    <3>4. ASSUME NEW o \in Covered', o >= MemLimit
          PROVE  /\ o - MemLimit \in 0 .. len - 1
                 /\ file'[o - MemLimit] = IF o \in range THEN b ELSE file[o - MemLimit]
      <4> DEFINE x == o - MemLimit
      <4>1. o \in Nat /\ x \in Nat
        BY <1>0, <1>4, <3>4
      <4>2. o \in range <=> x \in at .. at + k - 1
        BY <1>0, <1>1, <2>3, <3>1, <3>4, <4>1 DEF at
      <4> HIDE DEF x, range
      <4>3. CASE o \in range
        BY <3>2, <4>2, <4>3 DEF x, FileHolds
      <4>4. CASE o \notin range
        <5>1. file # NoFile /\ x \in DOMAIN file
          BY <1>2, <2>1, <3>4, <4>4 DEF x
        <5> QED
          BY <3>2, <4>2, <4>4, <5>1 DEF x, FileHolds
      <4> QED
        BY <4>3, <4>4
    <3> QED
      BY <3>2, <3>3, <3>4 DEF FileHolds
  <2> QED
    BY <1>1, <2>2, <2>3
<1> HIDE DEF range
<1>7. Kept'
  <2>1. PICK len \in 0 .. MemLimit :
            mem' \in Cells(len) /\ \A o \in Covered' : o < MemLimit => o < len
    BY <1>5
  <2> QED
    BY <1>2, <1>4, <1>6, <2>1 DEF Kept
<1>8. content' = Sparse!Over([o \in range |-> b], content)
  <2>1. content' = [o \in Covered' |-> IF o < MemLimit THEN mem'[o] ELSE file'[o - MemLimit]]
    BY DEF content
  <2>2. ASSUME NEW o \in Covered'
        PROVE  (IF o < MemLimit THEN mem'[o] ELSE file'[o - MemLimit]) =
                   IF o \in range THEN b ELSE content[o]
    <3>0. o \in Nat
      BY <1>4, <2>2
    <3>1. CASE o \in range
      BY <1>0, <1>5, <1>6, <2>2, <3>0, <3>1
    <3>2. CASE o \notin range
      <4>1. o \in Covered
        BY <1>2, <2>2, <3>2
      <4>2. content[o] = IF o < MemLimit THEN mem[o] ELSE file[o - MemLimit]
        BY <4>1 DEF content
      <4> QED
        BY <1>0, <1>5, <1>6, <2>2, <3>0, <3>2, <4>2
    <3> QED
      BY <3>1, <3>2
  <2>3. DOMAIN content = Covered /\ DOMAIN [o \in range |-> b] = range
    BY DEF content
  <2>4. Sparse!Over([o \in range |-> b], content) =
            [o \in range \cup Covered |-> IF o \in range THEN [x \in range |-> b][o] ELSE content[o]]
    BY <2>3 DEF Sparse!Over
  <2> HIDE DEF content
  <2>5. Sparse!Over([o \in range |-> b], content) =
            [o \in Covered' |-> IF o \in range THEN b ELSE content[o]]
    BY <1>2, <2>4
  <2> QED
    BY <2>1, <2>2, <2>5
<1> QED
  BY <1>7, <1>8 DEF range

\* A write that fails in the file.
LEMMA WriteFails ==
    ASSUME Kept, NEW off \in Nat, NEW n \in Nat, n >= 1, off + n <= MaxOffset, NEW b \in Byte,
           inMem(off, n) < n,
           NEW k \in 0 .. n - inMem(off, n) - 1,
           NEW at, at = off + inMem(off, n) - MemLimit, file' = writeFile(at, k, b),
           UNCHANGED <<mem, written>>
    PROVE  /\ Kept'
           /\ \E from \in MemLimit .. MaxOffset : \E to \in from .. MaxOffset :
                  content' = [o \in DOMAIN content |-> IF o \in from .. to - 1 THEN b ELSE content[o]]
<1> DEFINE from == off + inMem(off, n)
           to == from + k
<1>0. MemLimit \in Nat /\ MaxOffset \in Nat /\ MemLimit <= MaxOffset
  BY SpillBufAssumption
<1>1. /\ from \in Nat /\ MemLimit <= from /\ to \in Nat /\ from <= to /\ to <= MaxOffset
      /\ at \in Nat /\ k \in Nat /\ at + k + MemLimit <= MaxOffset
      /\ from = at + MemLimit /\ to = at + k + MemLimit
  <2>1. inMem(off, n) \in 0 .. n /\ MemLimit <= off + inMem(off, n)
    BY SplitAt
  <2> QED
    BY <1>0, <2>1
<1>2. file' = writeFile(at, k, b)
  OBVIOUS
<1>3. from \in MemLimit .. MaxOffset /\ to \in from .. MaxOffset
  BY <1>0, <1>1
<1> HIDE DEF from, to
<1>4. PICK len \in Nat : FileHolds(file', len, at, k, b)
  <2>1. \E len \in Nat : FileHolds(writeFile(at, k, b), len, at, k, b)
    BY <1>1, FileAfter
  <2> QED
    BY <1>2, <2>1
<1>5. Covered' = Covered /\ Covered \subseteq Nat /\ mem' = mem
  BY <1>0 DEF Covered, Kept
<1>6. file' # NoFile /\ DOMAIN file' = 0 .. len - 1 /\ len + MemLimit <= MaxOffset /\ file' \in Cells(len)
  <2>1. len \in 0 .. MaxOffset /\ file' \in Cells(len) /\ len + MemLimit <= MaxOffset
    BY <1>0, <1>4 DEF FileHolds
  <2> QED
    BY <2>1, NoFileIsNone DEF Cells
<1>7. ASSUME NEW o \in Covered, o >= MemLimit
      PROVE  /\ o - MemLimit \in 0 .. len - 1
             /\ file'[o - MemLimit] = IF o \in from .. to - 1 THEN b ELSE file[o - MemLimit]
  <2> DEFINE x == o - MemLimit
  <2>1. o \in Nat /\ x \in Nat
    BY <1>0, <1>5, <1>7
  <2>2. o \in from .. to - 1 <=> x \in at .. at + k - 1
    BY <1>0, <1>1, <1>7, <2>1
  <2>3. file # NoFile /\ x \in DOMAIN file
    BY <1>7 DEF Kept
  <2> HIDE DEF x
  <2>4. /\ x \in 0 .. len - 1
        /\ x \in at .. at + k - 1 => file'[x] = b
        /\ x \notin at .. at + k - 1 => file'[x] = file[x]
    BY <1>4, <2>3 DEF FileHolds
  <2> QED
    BY <2>2, <2>4 DEF x
<1>8. Kept'
  <2>1. Apart(written') /\ Covered' \subseteq 0 .. MaxOffset - 1
    BY <1>5 DEF Kept
  <2>2. \E i \in 0 .. MemLimit : mem' \in Cells(i) /\ \A o \in Covered' : o < MemLimit => o < i
    BY <1>5 DEF Kept
  <2> QED
    BY <1>5, <1>6, <1>7, <2>1, <2>2 DEF Kept
<1>9. content' = [o \in DOMAIN content |-> IF o \in from .. to - 1 THEN b ELSE content[o]]
  <2>1. content' = [o \in Covered |-> IF o < MemLimit THEN mem[o] ELSE file'[o - MemLimit]]
    BY <1>5 DEF content
  <2>2. DOMAIN content = Covered
        /\ \A o \in Covered : content[o] = IF o < MemLimit THEN mem[o] ELSE file[o - MemLimit]
    BY DEF content
  <2>3. ASSUME NEW o \in Covered
        PROVE  (IF o < MemLimit THEN mem[o] ELSE file'[o - MemLimit]) =
                   IF o \in from .. to - 1 THEN b ELSE content[o]
    <3>1. CASE o < MemLimit
      <4>1. o \notin from .. to - 1
        BY <1>0, <1>1, <1>5, <3>1
      <4> QED
        BY <2>2, <3>1, <4>1
    <3>2. CASE o >= MemLimit
      <4>1. ~(o < MemLimit)
        BY <1>0, <1>5, <3>2
      <4> QED
        BY <1>7, <2>2, <3>2, <4>1
    <3> QED
      BY <1>0, <1>5, <3>1, <3>2
  <2> QED
    BY <2>1, <2>2, <2>3
<1> QED
  BY <1>3, <1>8, <1>9

\* A call that changes nothing but the error it returns.
LEMMA NothingWritten ==
    ASSUME Kept, failed' = TRUE, UNCHANGED <<mem, file, written, closed>>
    PROVE  Kept' /\ Sparse!FailToWriteAt
<1>1. Kept' /\ content' = content
  BY DEF Kept, content, Covered
<1>2. PICK b \in Byte : TRUE
  BY SpillBufAssumption
<1>3. MaxOffset \in MemLimit .. MaxOffset /\ MaxOffset \in MaxOffset .. MaxOffset
      /\ MaxOffset .. MaxOffset - 1 = {}
  BY SpillBufAssumption
<1>4. content = [o \in DOMAIN content |-> content[o]]
  BY DEF content
<1> HIDE DEF content
<1>5. content' = [o \in DOMAIN content |-> IF o \in MaxOffset .. MaxOffset - 1 THEN b ELSE content[o]]
  BY <1>1, <1>3, <1>4
<1> QED
  BY <1>1, <1>3, <1>5 DEF Sparse!FailToWriteAt

\* Every write is one of the sparse buffer or fails as one may.
LEMMA WriteKept ==
    ASSUME Kept, NEW off \in -1 .. MaxOffset, NEW n \in 1 .. MaxLength, NEW b \in Byte,
           WriteAt(off, n, b)
    PROVE  Kept' /\ (Sparse!WriteAt \/ Sparse!FailToWriteAt)
<1> DEFINE m == inMem(off, n)
           at == off + m - MemLimit
<1>1. ~Fails(off, n) /\ UNCHANGED closed
  BY DEF WriteAt
<1>2. off \in Nat /\ n \in Nat /\ n >= 1 /\ off + n <= MaxOffset
  BY <1>1, RangeIs
<1>3. CASE /\ file' = IF m < n THEN writeFile(at, n - m, b) ELSE file
           /\ mem' = IF m > 0 THEN writeMem(off, m, b) ELSE mem
           /\ written' = record(written, extent(off, off + n))
           /\ failed' = FALSE
  <2>1. Kept' /\ content' = Sparse!Over([o \in off .. off + n - 1 |-> b], content)
    BY <1>2, <1>3, WriteSucceeds
  <2>2. ~closed
    BY <1>1 DEF Fails
  <2> DEFINE end == off + n
  <2>3. off \in Sparse!Offset /\ end \in off + 1 .. MaxOffset
    BY <1>2, SpillBufAssumption DEF Sparse!Offset
  <2>4. content' = Sparse!Over([o \in off .. end - 1 |-> b], content)
    BY <2>1
  <2> HIDE DEF end
  <2> QED
    BY <1>1, <1>3, <2>1, <2>2, <2>3, <2>4 DEF Sparse!WriteAt
<1>4. CASE UNCHANGED <<mem, file, written>> /\ failed' = TRUE
  BY <1>1, <1>4, NothingWritten
<1>5. CASE /\ m < n
           /\ \E k \in 0 .. n - m - 1 : file' = writeFile(at, k, b)
           /\ UNCHANGED <<mem, written>>
           /\ failed' = TRUE
  <2>1. PICK k \in 0 .. n - m - 1 : file' = writeFile(at, k, b)
    BY <1>5
  <2>2. /\ Kept'
        /\ \E from \in MemLimit .. MaxOffset : \E to \in from .. MaxOffset :
               content' = [o \in DOMAIN content |-> IF o \in from .. to - 1 THEN b ELSE content[o]]
    BY <1>2, <1>5, <2>1, WriteFails
  <2> QED
    BY <1>1, <1>5, <2>2 DEF Sparse!FailToWriteAt
<1> QED
  BY <1>3, <1>4, <1>5 DEF WriteAt

-------------------------------------------------------------------------------
(* Answers.                                                                    *)

\* Size, reads and FirstGap answer for what is there.
LEMMA Answered == ASSUME Kept PROVE queries = Sparse!Answers(content, ~closed)
<1>0. MemLimit \in Nat /\ MaxOffset \in Nat /\ MemLimit <= MaxOffset
  BY SpillBufAssumption
<1>1. /\ DOMAIN content = Covered /\ Covered \subseteq 0 .. MaxOffset - 1 /\ Apart(written)
      /\ \A o \in Covered : content[o] = IF o < MemLimit THEN mem[o] ELSE file[o - MemLimit]
  BY DEF content, Kept
<1> HIDE DEF content
<1>2. Size \in Nat /\ Size \notin Covered /\ 0 .. Size - 1 \subseteq Covered
  BY <1>1, SizeIs
<1>3. Size <= MaxOffset
  <2>1. CASE Size = 0
    BY <1>0, <2>1
  <2>2. CASE Size # 0
    <3>1. Size - 1 \in 0 .. Size - 1
      BY <1>2, <2>2
    <3>2. Size - 1 \in 0 .. MaxOffset - 1
      BY <1>1, <1>2, <3>1
    <3> QED
      BY <1>0, <1>2, <3>2
  <2> QED
    BY <2>1, <2>2
<1>4. Sparse!End(content) = Size
  <2>1. Size \in 0 .. MaxOffset /\ Size \notin DOMAIN content /\ 0 .. Size - 1 \subseteq DOMAIN content
    BY <1>0, <1>1, <1>2, <1>3
  <2>2. ASSUME NEW o \in 0 .. MaxOffset, o \notin DOMAIN content, 0 .. o - 1 \subseteq DOMAIN content
        PROVE  o = Size
    <3>1. ~(o < Size)
      BY <1>1, <1>2, <2>2
    <3>2. ~(Size < o)
      BY <1>1, <1>2, <2>2
    <3> QED
      BY <1>2, <2>2, <3>1, <3>2
  <2> QED
    BY <2>1, <2>2 DEF Sparse!End
<1>5. ASSUME NEW off \in 0 .. MaxOffset, NEW n \in 1 .. MaxOffset
      PROVE  ReadAt(off, n) =
                 [i \in 1 .. (IF off + n <= Size THEN n ELSE Size - off) |-> content[off + i - 1]]
  <2>1. CASE off >= Size
    <3>1. ReadAt(off, n) = <<>>
      BY <2>1 DEF ReadAt
    <3>2. 1 .. (IF off + n <= Size THEN n ELSE Size - off) = {}
      BY <1>2, <2>1
    <3> QED
      BY <3>1, <3>2
  <2>2. CASE ~(off >= Size)
    <3> DEFINE want == Minimum(n, Size - off)
               m == inMem(off, want)
    <3>1. /\ want = IF off + n <= Size THEN n ELSE Size - off
          /\ want \in Nat /\ off + want <= Size
      BY <1>2, <2>2 DEF Minimum
    <3>2. ReadAt(off, n) =
              [i \in 1 .. want |-> IF i <= m THEN mem[off + i - 1] ELSE file[off + i - 1 - MemLimit]]
      BY <2>2 DEF ReadAt
    <3> HIDE DEF want
    <3>3. m \in 0 .. want /\ \A o \in off .. off + want - 1 : o < MemLimit <=> o < off + m
      <4>1. off \in Nat
        BY <1>0
      <4> QED
        BY <3>1, <4>1, SplitAt
    <3> HIDE DEF m
    <3>4. ASSUME NEW i \in 1 .. want
          PROVE  (IF i <= m THEN mem[off + i - 1] ELSE file[off + i - 1 - MemLimit]) = content[off + i - 1]
      <4> DEFINE o == off + i - 1
      <4>1. o \in off .. off + want - 1 /\ o \in 0 .. Size - 1 /\ (i <= m <=> o < off + m)
        BY <1>2, <3>1, <3>3
      <4> HIDE DEF o
      <4>2. content[o] = IF i <= m THEN mem[o] ELSE file[o - MemLimit]
        BY <1>1, <1>2, <3>3, <4>1
      <4>3. o = off + i - 1
        BY DEF o
      <4>4. o - MemLimit = off + i - 1 - MemLimit
        BY <1>0, <4>1, <4>3
      <4> QED
        BY <4>2, <4>3, <4>4
    <3> QED
      BY <3>1, <3>2, <3>4
  <2> QED
    BY <2>1, <2>2
<1>6. ASSUME NEW size \in 1 .. MaxOffset, NEW within \in 0 .. MaxOffset
      PROVE  FirstGap(size, within) =
                 {at \in Sparse!Gaps(content, size, within) :
                      ~closed /\ \A o \in Sparse!Gaps(content, size, within) : at <= o}
  <2> DEFINE F == Free(size, within)
             last == gapLoop(size, within)
             at == last.at
             n == Len(written)
  <2>1. Sparse!Gaps(content, size, within) = F
    BY <1>1 DEF Sparse!Gaps, Free
  <2>2. size \in Nat \ {0} /\ within \in Nat /\ ~(size < 0) /\ ~(within < 0)
    OBVIOUS
  <2>3. LoopAt(last, n, size, within)
    BY <1>1, <2>2, GapLoop
  <2>4. /\ last.loop \in {"goes on", "none", "found"}
        /\ last.loop = "found" => at \in F /\ \A o \in F : at <= o
        /\ last.loop = "none" => F = {}
        /\ last.loop = "goes on" => (\A o \in F : at <= o) /\ \A j \in 1 .. n : written[j].end <= at
    BY <2>3 DEF LoopAt
  <2>5. at \in Nat
    BY <2>3 DEF LoopAt
  <2>6. FirstGap(size, within) =
            IF closed THEN {}
            ELSE IF last.loop = "found" \/ (last.loop = "goes on" /\ at <= within /\ within - at >= size)
                 THEN {at} ELSE {}
    BY <2>2 DEF FirstGap
  <2>7. F \subseteq Nat
    BY DEF Free
  <2> HIDE DEF at, last, n
  <2>8. ASSUME \A j \in 1 .. n : written[j].end <= at, at <= within, within - at >= size PROVE at \in F
    <3>1. at \in 0 .. within - size
      BY <2>2, <2>5, <2>8
    <3>2. ASSUME NEW x \in at .. at + size - 1, x \in Covered PROVE FALSE
      <4>1. Covered = Cover(written)
        BY DEF Covered, Cover
      <4>2. DOMAIN written = 1 .. n /\ \A j \in 1 .. n : written[j].end \in Nat /\ written[j].start \in Nat
        BY <1>1, ApartFacts DEF n
      <4>3. PICK j \in 1 .. n : x \in written[j].start .. written[j].end - 1
        BY <3>2, <4>1, <4>2, CoverIs
      <4>4. written[j].end <= at
        BY <2>8
      <4> QED
        BY <2>5, <4>2, <4>3, <4>4
    <3> QED
      BY <3>1, <3>2 DEF Free
  <2>9. ASSUME \A o \in F : at <= o, ~(at <= within /\ within - at >= size) PROVE F = {}
    <3> SUFFICES ASSUME NEW o \in F PROVE FALSE
      OBVIOUS
    <3>1. o \in 0 .. within - size /\ at <= o
      BY <2>9 DEF Free
    <3> QED
      BY <2>2, <2>5, <2>9, <3>1
  <2> HIDE DEF F
  <2>10. ASSUME at \in F, \A o \in F : at <= o PROVE {a \in F : \A o \in F : a <= o} = {at}
    <3>1. ASSUME NEW a \in F, \A o \in F : a <= o PROVE a = at
      BY <2>7, <2>10, <3>1
    <3> QED
      BY <2>10, <3>1
  <2>11. CASE closed
    BY <2>1, <2>6, <2>11
  <2>12. CASE ~closed /\ last.loop = "found"
    BY <2>1, <2>4, <2>6, <2>10, <2>12
  <2>13. CASE ~closed /\ last.loop = "none"
    BY <2>1, <2>4, <2>6, <2>13
  <2>14. CASE ~closed /\ last.loop = "goes on" /\ at <= within /\ within - at >= size
    BY <2>1, <2>4, <2>6, <2>8, <2>10, <2>14
  <2>15. CASE ~closed /\ last.loop = "goes on" /\ ~(at <= within /\ within - at >= size)
    BY <2>1, <2>4, <2>6, <2>9, <2>15
  <2> QED
    BY <2>4, <2>11, <2>12, <2>13, <2>14, <2>15
<1>7. queries.size = Sparse!Answers(content, ~closed).size
  BY <1>4 DEF queries, Sparse!Answers
<1>8. queries.read = Sparse!Answers(content, ~closed).read
  <2> DEFINE end == Sparse!End(content)
  <2>1. ASSUME NEW off \in 0 .. MaxOffset, NEW n \in 1 .. MaxOffset
        PROVE  ReadAt(off, n) =
                   [i \in 1 .. (IF off + n <= end THEN n ELSE end - off) |-> content[off + i - 1]]
    BY <1>4, <1>5
  <2> QED
    BY <2>1 DEF queries, Sparse!Answers
<1>9. queries.gap = Sparse!Answers(content, ~closed).gap
  BY <1>6 DEF queries, Sparse!Answers
<1> QED
  <2>1. queries = [size |-> queries.size, read |-> queries.read, gap |-> queries.gap]
    BY DEF queries
  <2> DEFINE A == Sparse!Answers(content, ~closed)
  <2>2. A = [size |-> A.size, read |-> A.read, gap |-> A.gap]
    BY DEF Sparse!Answers
  <2> HIDE DEF A
  <2>3. A.size = queries.size /\ A.read = queries.read /\ A.gap = queries.gap
    BY <1>7, <1>8, <1>9 DEF A
  <2>4. queries = A
    BY <2>1, <2>2, <2>3
  <2> QED
    BY <2>4 DEF A

-------------------------------------------------------------------------------
(* The theorems.                                                               *)

\* The invariant, from which the theorems below follow.
LEMMA KeptAlways == BufferSpec => []Kept
<1>1. BufferInit => Kept
  BY InitKept
<1>2. Kept /\ [BufferNext]_bufferVars => Kept'
  <2> SUFFICES ASSUME Kept, [BufferNext]_bufferVars PROVE Kept'
    OBVIOUS
  <2>1. ASSUME NEW off \in -1 .. MaxOffset, NEW n \in 1 .. MaxLength, RejectWrite(off, n) PROVE Kept'
    BY <2>1, NothingWritten DEF RejectWrite
  <2>2. ASSUME NEW off \in -1 .. MaxOffset, NEW n \in 1 .. MaxLength, NEW b \in Byte, WriteAt(off, n, b)
        PROVE  Kept'
    BY <2>2, WriteKept
  <2>3. ASSUME Close PROVE Kept'
    BY <2>3, CloseKept
  <2>4. ASSUME UNCHANGED bufferVars PROVE Kept'
    BY <2>4 DEF bufferVars, Kept, Covered
  <2> QED
    BY <2>1, <2>2, <2>3, <2>4 DEF BufferNext
<1> QED
  BY <1>1, <1>2, PTL DEF BufferSpec

\* The spill buffer implements a sparse buffer: a write, in whichever tiers and however
\* often they grow, changes the bytes of its range and no others, one that fails none in
\* memory, and Size, reads and FirstGap answer for exactly what was written (Buffer.WriteAt,
\* Buffer.record, Buffer.ReadAt, Buffer.Size, Buffer.FirstGap).
THEOREM BufferIsSparse == BufferSpec => SparseSpec
<1>1. BufferInit => Sparse!Init
  BY InitKept
<1>2. Kept /\ [BufferNext]_bufferVars => [Sparse!WriteAt \/ Sparse!FailToWriteAt \/ Sparse!Close]_(Sparse!vars)
  <2> SUFFICES ASSUME Kept, [BufferNext]_bufferVars
               PROVE  Sparse!WriteAt \/ Sparse!FailToWriteAt \/ Sparse!Close \/ UNCHANGED Sparse!vars
    OBVIOUS
  <2>1. ASSUME NEW off \in -1 .. MaxOffset, NEW n \in 1 .. MaxLength, RejectWrite(off, n)
        PROVE  Sparse!FailToWriteAt
    BY <2>1, NothingWritten DEF RejectWrite
  <2>2. ASSUME NEW off \in -1 .. MaxOffset, NEW n \in 1 .. MaxLength, NEW b \in Byte, WriteAt(off, n, b)
        PROVE  Sparse!WriteAt \/ Sparse!FailToWriteAt
    BY <2>2, WriteKept
  <2>3. ASSUME Close PROVE Sparse!Close
    BY <2>3, CloseKept
  <2>4. ASSUME UNCHANGED bufferVars PROVE UNCHANGED Sparse!vars
    BY <2>4 DEF bufferVars, Sparse!vars, content, Covered
  <2> QED
    BY <2>1, <2>2, <2>3, <2>4 DEF BufferNext
<1>3. Kept => queries = Sparse!Answers(content, ~closed)
  BY Answered
<1> QED
  BY <1>1, <1>2, <1>3, KeptAlways, PTL DEF BufferSpec, SparseSpec, Sparse!Spec

--------------------------------------------------------------------------------
(* The documents of an SBOM.                                                  *)

\* What identifiers are made of.
Symbols == Fingerprints \cup {"pkg:", "pkg-", "Package-"}

\* An identifier ends in the fingerprint that it is about.
Named(id, of) == id \in Seq(Symbols) /\ Len(id) > 0 /\ id[Len(id)] = of

IsPackage(p) == p = Pkg(p.id, p.of) /\ p.of \in Fingerprints /\ Named(p.id, p.of)

\* Each package of an SBOM is there once.
KnownOnce(s) ==
    /\ \A p \in s.packages : IsPackage(p)
    /\ \A p, q \in s.packages : p.of = q.of => p = q

IsCoordinates(e) == \E f \in FileNames, form \in {"absolute", "relative"} : e = FileCoordinates(f, form)
IsLocation(s, e) ==
    \E f \in FileNames : e = FileLocation(f, "relative") /\ FileCoordinates(f, "relative") \in s.files

\* What relationships link is there, and of a kind that their type is for.
Linked(s) ==
    /\ s.source \in DOMAIN RootPrefix
    /\ \A e \in s.files : IsCoordinates(e)
    /\ \A r \in s.relationships :
        /\ r = Relationship(r.type, r.from, r.to)
        /\ r.from \in s.packages \cup {SourceElement}
        /\ \/ r.to \in s.packages /\ r.type \in {"contains", "dependency-of", "ownership-by-file-overlap"}
           \/ /\ IsCoordinates(r.to) \/ IsLocation(s, r.to)
              /\ r.type \in {"contains", "evident-by", "described-by"}

Same(x, r) == x.type = r.type /\ x.from.of = r.from.of /\ x.to.of = r.to.of

\* LinkLost for any sequence of formats.
Lost(r, w) ==
    IsFile(r.to) /\ \E i, j \in DOMAIN w :
        /\ i < j
        /\ {w[i], w[j]} \subseteq Spdx
        /\ \A k \in i + 1 .. j - 1 : w[k] # "syft-json"

Survives(r, w) == ~Lost(r, w) /\ \A i \in DOMAIN w : Expresses(w[i], r)

FromSpdx(w) == w # <<>> /\ w[Len(w)] \in Spdx

\* s is what is left of o after the formats w.
LeftOf(s, o, w) ==
    /\ \A p \in s.packages : \E q \in o.packages : p.of = q.of
    /\ \A q \in o.packages : \E p \in s.packages : p.of = q.of
    /\ \A x \in s.relationships : \E r \in o.relationships : Survives(r, w) /\ Same(x, r)
    /\ \A r \in o.relationships : Survives(r, w) => \E x \in s.relationships : Same(x, r)
    /\ \A x \in s.relationships :
        IF FromSpdx(w) THEN x.to.kind # "coordinates" ELSE x.to.kind # "location"

\* What a format makes of a relationship: SPDX loses links that were read from it.
Passes(format, r) == Expresses(format, r) /\ ~(format \in Spdx /\ r.to.kind = "location")

\* t is what is left of s when it is written and read once.
Carried(format, s, t) ==
    /\ KnownOnce(t) /\ Linked(t)
    /\ \A p \in t.packages : \E q \in s.packages : p.of = q.of
    /\ \A q \in s.packages : \E p \in t.packages : p.of = q.of
    /\ \A x \in t.relationships : \E r \in s.relationships : Passes(format, r) /\ Same(x, r)
    /\ \A r \in s.relationships : Passes(format, r) => \E x \in t.relationships : Same(x, r)
    /\ \A x \in t.relationships :
        IF format \in Spdx THEN x.to.kind # "coordinates" ELSE x.to.kind # "location"

Written(format, s) ==
    CASE format \in Spdx -> toSpdxDocument(s, format)
      [] format = "cyclonedx" -> toCycloneDX(s)
      [] OTHER -> toSyftJSON(s)

FormatsInv ==
    /\ original \in Sboms
    /\ KnownOnce(sbom) /\ Linked(sbom)
    /\ \/ doc = NoDocument /\ path \in Seq(Format) /\ LeftOf(sbom, original, path)
       \/ \E w \in Seq(Format), format \in Format :
            path = Append(w, format) /\ LeftOf(sbom, original, w) /\ doc = Written(format, sbom)

-------------------------------------------------------------------------------
(* One more format.                                                            *)

LEMMA MadeHolds ==
    ASSUME NEW s, Made(s)
    PROVE  KnownOnce(s) /\ Linked(s)
<1>1. \A p \in s.packages : IsPackage(p) /\ p = Pkg(<<p.of>>, p.of)
  <2> SUFFICES ASSUME NEW p \in s.packages PROVE IsPackage(p) /\ p = Pkg(<<p.of>>, p.of)
    OBVIOUS
  <2>1. PICK f \in Fingerprints : p = Pkg(<<f>>, f)
    BY DEF Made
  <2>2. p.id = <<f>> /\ p.of = f /\ f \in Symbols
    BY <2>1 DEF Pkg, Symbols
  <2>3. Named(<<f>>, f)
    BY <2>2 DEF Named
  <2> QED
    BY <2>1, <2>2, <2>3 DEF IsPackage
<1>2. \A e \in Coordinates : IsCoordinates(e)
  BY DEF Coordinates, IsCoordinates
<1> QED
  BY <1>1, <1>2 DEF KnownOnce, Linked, Made

\* An element tells by its name what it is.
LEMMA Kinds ==
    ASSUME NEW s, KnownOnce(s), Linked(s), NEW r \in s.relationships
    PROVE  /\ r.from.kind = "package" <=> r.from.of # "source"
           /\ r.from.kind = "package" <=> r.from \in s.packages
           /\ r.to.kind = "package" <=> r.to.of \in Fingerprints
           /\ r.to.kind = "package" <=> r.to \in s.packages
           /\ r.to.kind \in {"package", "coordinates", "location"}
           /\ r.to.kind = "location" => IsLocation(s, r.to)
           /\ r.to.kind = "coordinates" => IsCoordinates(r.to)
<1>1. \A p \in s.packages : p.kind = "package" /\ p.of \in Fingerprints /\ p.of # "source"
  BY NamesAssumption DEF KnownOnce, IsPackage, Pkg
<1>2. SourceElement.kind = "source" /\ SourceElement.of = "source"
  BY DEF SourceElement
<1>3. ASSUME IsCoordinates(r.to) PROVE r.to.kind = "coordinates" /\ r.to.of \in FileNames
  BY <1>3 DEF IsCoordinates, FileCoordinates
<1>4. ASSUME IsLocation(s, r.to) PROVE r.to.kind = "location" /\ r.to.of \in FileNames
  BY <1>4 DEF IsLocation, FileLocation
<1>5. r.from \in s.packages \cup {SourceElement}
      /\ (r.to \in s.packages \/ IsCoordinates(r.to) \/ IsLocation(s, r.to))
  BY DEF Linked
<1> QED
  BY <1>1, <1>2, <1>3, <1>4, <1>5, NamesAssumption

\* What the formats ask of a relationship depends on what it says.
LEMMA SameKinds ==
    ASSUME NEW s, KnownOnce(s), Linked(s), NEW x \in s.relationships,
           NEW o, KnownOnce(o), Linked(o), NEW r \in o.relationships, Same(x, r), NEW format
    PROVE  /\ Expresses(format, x) <=> Expresses(format, r)
           /\ IsFile(x.to) <=> IsFile(r.to)
<1>1. x.type = r.type /\ x.from.of = r.from.of /\ x.to.of = r.to.of
  BY DEF Same
<1>2. (x.from.kind = "package" <=> r.from.kind = "package") /\ (x.to.kind = "package" <=> r.to.kind = "package")
  BY <1>1, Kinds
<1>3. x.to.kind \in {"package", "coordinates", "location"} /\ r.to.kind \in {"package", "coordinates", "location"}
  BY Kinds
<1> QED
  BY <1>1, <1>2, <1>3 DEF Expresses, IsFile

\* What survives one more format: what survived so far and the format expresses, unless
\* it is a link to a file that was read from SPDX last.
LEMMA SurvivesOneMore ==
    ASSUME NEW w \in Seq(Format), NEW format \in Format, NEW r
    PROVE  Survives(r, Append(w, format)) <=>
               /\ Survives(r, w) /\ Expresses(format, r)
               /\ ~(format \in Spdx /\ IsFile(r.to) /\ FromSpdx(w))
<1> DEFINE v == Append(w, format)
           n == Len(w)
<1>1. /\ n \in Nat /\ DOMAIN w = 1 .. n /\ DOMAIN v = 1 .. n + 1 /\ v[n + 1] = format
      /\ \A i \in 1 .. n : v[i] = w[i]
      /\ \A i \in 1 .. n : w[i] \in Format
      /\ w # <<>> <=> n > 0
  BY AppendProperties, LenProperties, ElementOfSeq, EmptySeq
<1> HIDE DEF v, n
<1>2. (\A i \in DOMAIN v : Expresses(v[i], r)) <=> (\A i \in DOMAIN w : Expresses(w[i], r)) /\ Expresses(format, r)
  <2>1. \A i \in 1 .. n + 1 : i \in 1 .. n \/ i = n + 1
    BY <1>1
  <2>2. 1 .. n \subseteq 1 .. n + 1 /\ n + 1 \in 1 .. n + 1
    BY <1>1
  <2> QED
    BY <1>1, <2>1, <2>2
<1> DEFINE Still(i) == \A k \in i + 1 .. n : w[k] # "syft-json"
<1>3. Lost(r, v) <=> Lost(r, w) \/ (IsFile(r.to) /\ format \in Spdx /\ \E i \in 1 .. n : w[i] \in Spdx /\ Still(i))
  <2>1. ASSUME NEW i \in 1 .. n + 1, NEW j \in 1 .. n + 1, i < j, j # n + 1
        PROVE  i \in 1 .. n /\ j \in 1 .. n /\ \A k \in i + 1 .. j - 1 : k \in 1 .. n
    BY <1>1, <2>1
  <2>2. ASSUME NEW i \in 1 .. n + 1, i < n + 1
        PROVE  i \in 1 .. n /\ i + 1 .. (n + 1) - 1 = i + 1 .. n /\ \A k \in i + 1 .. n : k \in 1 .. n
    BY <1>1, <2>2
  <2>3. ASSUME Lost(r, v) PROVE Lost(r, w) \/ (IsFile(r.to) /\ format \in Spdx /\ \E i \in 1 .. n : w[i] \in Spdx /\ Still(i))
    <3>1. PICK i \in 1 .. n + 1, j \in 1 .. n + 1 :
              i < j /\ v[i] \in Spdx /\ v[j] \in Spdx /\ \A k \in i + 1 .. j - 1 : v[k] # "syft-json"
      BY <1>1, <2>3 DEF Lost
    <3>2. CASE j = n + 1
      <4>1. i \in 1 .. n /\ w[i] \in Spdx /\ format \in Spdx
        BY <1>1, <2>2, <3>1, <3>2
      <4>2. Still(i)
        BY <1>1, <2>2, <3>1, <3>2
      <4> HIDE DEF Still
      <4> QED
        BY <2>3, <4>1, <4>2 DEF Lost
    <3>3. CASE j # n + 1
      <4>1. i \in 1 .. n /\ j \in 1 .. n /\ w[i] \in Spdx /\ w[j] \in Spdx /\ \A k \in i + 1 .. j - 1 : w[k] # "syft-json"
        BY <1>1, <2>1, <3>1, <3>3
      <4>2. Lost(r, w)
        BY <1>1, <2>3, <3>1, <4>1 DEF Lost
      <4> QED
        BY <4>2
    <3> QED
      BY <3>2, <3>3
  <2>4. ASSUME Lost(r, w) PROVE Lost(r, v)
    <3>1. PICK i \in 1 .. n, j \in 1 .. n :
              i < j /\ w[i] \in Spdx /\ w[j] \in Spdx /\ \A k \in i + 1 .. j - 1 : w[k] # "syft-json"
      BY <1>1, <2>4 DEF Lost
    <3>2. i \in 1 .. n + 1 /\ j \in 1 .. n + 1 /\ \A k \in i + 1 .. j - 1 : k \in 1 .. n
      BY <1>1
    <3>3. v[i] \in Spdx /\ v[j] \in Spdx /\ \A k \in i + 1 .. j - 1 : v[k] # "syft-json"
      BY <1>1, <3>1, <3>2
    <3> QED
      BY <1>1, <2>4, <3>1, <3>2, <3>3 DEF Lost
  <2>5. ASSUME IsFile(r.to), format \in Spdx, NEW i \in 1 .. n, w[i] \in Spdx, Still(i) PROVE Lost(r, v)
    <3>1. i \in 1 .. n + 1 /\ n + 1 \in 1 .. n + 1 /\ i < n + 1
      BY <1>1
    <3>2. v[i] \in Spdx /\ v[n + 1] \in Spdx
      BY <1>1, <2>5
    <3>3. \A k \in i + 1 .. (n + 1) - 1 : v[k] # "syft-json"
      BY <1>1, <2>2, <2>5, <3>1
    <3> QED
      BY <1>1, <2>5, <3>1, <3>2, <3>3 DEF Lost
  <2> QED
    BY <2>3, <2>4, <2>5
<1>4. ASSUME IsFile(r.to), \A i \in DOMAIN w : Expresses(w[i], r)
      PROVE  (\E i \in 1 .. n : w[i] \in Spdx /\ Still(i)) <=> FromSpdx(w)
  <2>1. \A i \in 1 .. n : w[i] # "cyclonedx"
    BY <1>1, <1>4 DEF Expresses, Spdx, IsFile
  <2>2. ASSUME NEW i \in 1 .. n, w[i] \in Spdx, Still(i) PROVE FromSpdx(w)
    <3>1. n \in 1 .. n /\ (i = n \/ n \in i + 1 .. n)
      BY <1>1
    <3>2. w[n] \in Spdx
      BY <1>1, <2>1, <2>2, <3>1 DEF Format, Spdx
    <3>3. n > 0
      BY <1>1, <3>1
    <3>4. w # <<>>
      BY <1>1, <3>3
    <3> QED
      BY <3>2, <3>4 DEF FromSpdx, n
  <2>3. ASSUME FromSpdx(w) PROVE \E i \in 1 .. n : w[i] \in Spdx /\ Still(i)
    <3>1. n \in 1 .. n /\ w[n] \in Spdx
      BY <1>1, <2>3 DEF FromSpdx, n
    <3>2. n + 1 .. n = {}
      BY <1>1
    <3>3. Still(n)
      BY <3>2
    <3> HIDE DEF Still
    <3> QED
      BY <3>1, <3>3
  <2> HIDE DEF Still
  <2> QED
    BY <2>2, <2>3
<1> DEFINE S == \E i \in 1 .. n : w[i] \in Spdx /\ Still(i)
           A == \A i \in DOMAIN w : Expresses(w[i], r)
<1>5. Lost(r, v) <=> Lost(r, w) \/ (IsFile(r.to) /\ format \in Spdx /\ S)
  BY <1>3
<1>6. IsFile(r.to) /\ A => (S <=> FromSpdx(w))
  BY <1>4
<1>7. Survives(r, v) <=> ~Lost(r, v) /\ A /\ Expresses(format, r)
  BY <1>2 DEF Survives
<1>8. Survives(r, w) <=> ~Lost(r, w) /\ A
  BY DEF Survives
<1> HIDE DEF S, A
<1> QED
  BY <1>5, <1>6, <1>7, <1>8 DEF v

LEMMA KeptOneMore ==
    ASSUME NEW s, NEW o, NEW t, NEW w \in Seq(Format), NEW format \in Format,
           KnownOnce(s), Linked(s), KnownOnce(o), Linked(o), LeftOf(s, o, w), Carried(format, s, t)
    PROVE  LeftOf(t, o, Append(w, format))
<1> DEFINE v == Append(w, format)
<1>1. FromSpdx(v) <=> format \in Spdx
  BY AppendProperties DEF FromSpdx
<1>2. ASSUME NEW x \in s.relationships, NEW r \in o.relationships, Same(x, r), Survives(r, w)
      PROVE  Passes(format, x) <=> Survives(r, v)
  <2>1. Survives(r, v) <=> Expresses(format, r) /\ ~(format \in Spdx /\ IsFile(r.to) /\ FromSpdx(w))
    BY <1>2, SurvivesOneMore
  <2>2. (Expresses(format, x) <=> Expresses(format, r)) /\ (IsFile(x.to) <=> IsFile(r.to))
    BY <1>2, SameKinds
  <2>3. x.to.kind \in {"package", "coordinates", "location"}
    BY Kinds
  <2>4. IF FromSpdx(w) THEN x.to.kind # "coordinates" ELSE x.to.kind # "location"
    BY DEF LeftOf
  <2>5. IsFile(x.to) /\ FromSpdx(w) <=> x.to.kind = "location"
    BY <2>3, <2>4 DEF IsFile
  <2> QED
    BY <2>1, <2>2, <2>5 DEF Passes
<1>3. \A x \in t.relationships : \E r \in o.relationships : Survives(r, v) /\ Same(x, r)
  <2> SUFFICES ASSUME NEW x \in t.relationships PROVE \E r \in o.relationships : Survives(r, v) /\ Same(x, r)
    OBVIOUS
  <2>1. PICK y \in s.relationships : Passes(format, y) /\ Same(x, y)
    BY DEF Carried
  <2>2. PICK r \in o.relationships : Survives(r, w) /\ Same(y, r)
    BY DEF LeftOf
  <2>3. Survives(r, v)
    BY <1>2, <2>1, <2>2
  <2>4. Same(x, r)
    BY <2>1, <2>2 DEF Same
  <2> QED
    BY <2>3, <2>4
<1>4. \A r \in o.relationships : Survives(r, v) => \E x \in t.relationships : Same(x, r)
  <2> SUFFICES ASSUME NEW r \in o.relationships, Survives(r, v) PROVE \E x \in t.relationships : Same(x, r)
    OBVIOUS
  <2>1. Survives(r, w)
    BY SurvivesOneMore
  <2>2. PICK y \in s.relationships : Same(y, r)
    BY <2>1 DEF LeftOf
  <2>3. Passes(format, y)
    BY <1>2, <2>1, <2>2
  <2>4. PICK x \in t.relationships : Same(x, y)
    BY <2>3 DEF Carried
  <2>5. Same(x, r)
    BY <2>2, <2>4 DEF Same
  <2> QED
    BY <2>5
<1>5. (\A p \in t.packages : \E q \in o.packages : p.of = q.of) /\ (\A q \in o.packages : \E p \in t.packages : p.of = q.of)
  <2>1. ASSUME NEW p \in t.packages PROVE \E q \in o.packages : p.of = q.of
    <3>1. PICK m \in s.packages : p.of = m.of
      BY DEF Carried
    <3>2. PICK q \in o.packages : m.of = q.of
      BY DEF LeftOf
    <3> QED
      BY <3>1, <3>2
  <2>2. ASSUME NEW q \in o.packages PROVE \E p \in t.packages : p.of = q.of
    <3>1. PICK m \in s.packages : m.of = q.of
      BY DEF LeftOf
    <3>2. PICK p \in t.packages : p.of = m.of
      BY DEF Carried
    <3> QED
      BY <3>1, <3>2
  <2> QED
    BY <2>1, <2>2
<1>6. \A x \in t.relationships : IF FromSpdx(v) THEN x.to.kind # "coordinates" ELSE x.to.kind # "location"
  BY <1>1 DEF Carried
<1> HIDE DEF v
<1>7. LeftOf(t, o, v)
  BY <1>3, <1>4, <1>5, <1>6 DEF LeftOf
<1> QED
  BY <1>7 DEF v

-------------------------------------------------------------------------------
(* syft-json.                                                                  *)

\* Identifiers tell packages, files and the source apart.
LEMMA IdentsDiffer ==
    ASSUME NEW s, KnownOnce(s), NEW a, NEW b,
           a \in s.packages \/ a = SourceElement \/ IsCoordinates(a),
           b \in s.packages \/ b = SourceElement \/ IsCoordinates(b),
           Ident(a) = Ident(b)
    PROVE  a = b
<1>1. ASSUME NEW p \in s.packages PROVE Named(Ident(p), p.of) /\ p.of \in Fingerprints
  BY DEF KnownOnce, IsPackage, Ident, Pkg
<1>2. ASSUME NEW e, IsCoordinates(e)
      PROVE  \E f \in FileNames, form \in {"absolute", "relative"} :
                 e = FileCoordinates(f, form) /\ Ident(e) = <<form, f>>
  <2>1. PICK f \in FileNames, form \in {"absolute", "relative"} : e = FileCoordinates(f, form)
    BY <1>2 DEF IsCoordinates
  <2>2. Ident(e) = <<form, f>>
    BY <2>1 DEF FileCoordinates, Ident
  <2> QED
    BY <2>1, <2>2
<1>3. Ident(SourceElement) = <<"source">>
  BY DEF Ident, SourceElement
<1> DEFINE Ends(e) == IF e \in s.packages THEN e.of ELSE IF e = SourceElement THEN "source" ELSE Ident(e)[2]
<1>4. ASSUME NEW e \in s.packages PROVE Ident(e)[Len(Ident(e))] \in Fingerprints
  BY <1>1 DEF Named
<1>5. ASSUME NEW e, IsCoordinates(e) PROVE Ident(e)[Len(Ident(e))] \in FileNames /\ Len(Ident(e)) = 2
  <2>1. PICK f \in FileNames, form \in {"absolute", "relative"} : Ident(e) = <<form, f>>
    BY <1>2, <1>5
  <2> QED
    BY <2>1
<1>6. Ident(SourceElement)[Len(Ident(SourceElement))] = "source"
  BY <1>3
<1>7. CASE a \in s.packages
  <2>1. b \in s.packages
    BY <1>4, <1>5, <1>6, <1>7, NamesAssumption
  <2>2. a.of = b.of
    BY <1>1, <1>7, <2>1 DEF Named
  <2> QED
    BY <1>7, <2>1, <2>2 DEF KnownOnce
<1>8. CASE a = SourceElement
  BY <1>4, <1>5, <1>6, <1>8, NamesAssumption
<1>9. CASE IsCoordinates(a)
  <2>1. IsCoordinates(b)
    BY <1>4, <1>5, <1>6, <1>9, NamesAssumption
  <2>2. PICK f \in FileNames, form \in {"absolute", "relative"} : a = FileCoordinates(f, form) /\ Ident(a) = <<form, f>>
    BY <1>2, <1>9
  <2>3. PICK g \in FileNames, gorm \in {"absolute", "relative"} : b = FileCoordinates(g, gorm) /\ Ident(b) = <<gorm, g>>
    BY <1>2, <2>1
  <2>4. f = g /\ form = gorm
    BY <2>2, <2>3
  <2> QED
    BY <2>2, <2>3, <2>4
<1> QED
  BY <1>7, <1>8, <1>9

LEMMA CoordinatesKnown ==
    ASSUME NEW s, KnownOnce(s), Linked(s)
    PROVE  /\ \A c \in AllCoordinates(s) : IsCoordinates(c)
           /\ s.files \subseteq AllCoordinates(s)
           /\ \A r \in s.relationships : r.to.kind = "coordinates" => r.to \in AllCoordinates(s)
<1>1. \A r \in s.relationships : r.to.kind = "coordinates" => r.to \in AllCoordinates(s)
  BY DEF AllCoordinates
<1>2. ASSUME NEW r \in s.relationships, NEW e \in {r.from, r.to}, e.kind = "coordinates" PROVE IsCoordinates(e)
  <2>1. r.from.kind # "coordinates"
    BY DEF Linked, KnownOnce, IsPackage, Pkg, SourceElement
  <2>2. e = r.to
    BY <1>2, <2>1
  <2> QED
    BY <1>2, <2>2, Kinds
<1>3. \A e \in UNION {{r.from, r.to} : r \in s.relationships} : e.kind = "coordinates" => IsCoordinates(e)
  BY <1>2
<1> QED
  BY <1>1, <1>3 DEF AllCoordinates, Linked

\* What a location becomes: syft-json knows coordinates only.
Restored(e) == IF e.kind = "location" THEN FileCoordinates(e.of, e.form) ELSE e

LEMMA RestoredIs ==
    ASSUME NEW s, KnownOnce(s), Linked(s), NEW r \in s.relationships
    PROVE  /\ Restored(r.to) \in s.packages \/ Restored(r.to) \in AllCoordinates(s)
           /\ Restored(r.to) \in s.packages <=> r.to \in s.packages
           /\ Ident(Restored(r.to)) = Ident(r.to)
           /\ Restored(r.to).of = r.to.of
           /\ Restored(r.to).kind # "location"
<1>1. CASE r.to.kind = "location"
  <2>1. PICK f \in FileNames : r.to = FileLocation(f, "relative") /\ FileCoordinates(f, "relative") \in s.files
    BY <1>1, Kinds DEF IsLocation
  <2>2. Restored(r.to) = FileCoordinates(f, "relative")
    BY <1>1, <2>1 DEF Restored, FileLocation
  <2>3. Restored(r.to) \in AllCoordinates(s)
    BY <2>1, <2>2, CoordinatesKnown
  <2>4. Restored(r.to) \notin s.packages /\ r.to \notin s.packages
    BY <2>1, <2>2 DEF KnownOnce, IsPackage, Pkg, FileCoordinates, FileLocation
  <2> QED
    BY <2>1, <2>2, <2>3, <2>4 DEF Ident, FileCoordinates, FileLocation
<1>2. CASE r.to.kind # "location"
  <2>1. Restored(r.to) = r.to
    BY <1>2 DEF Restored
  <2>2. r.to \in s.packages \/ r.to \in AllCoordinates(s)
    BY <1>2, Kinds, CoordinatesKnown
  <2> QED
    BY <1>2, <2>1, <2>2
<1> QED
  BY <1>1, <1>2

LEMMA JsonCarries ==
    ASSUME NEW s, KnownOnce(s), Linked(s)
    PROVE  Carried("syft-json", s, fromSyftJSON(toSyftJSON(s)))
<1> DEFINE d == toSyftJSON(s)
           t == fromSyftJSON(d)
           All == s.packages \cup {SourceElement} \cup AllCoordinates(s)
<1>1. \A p \in s.packages : Ident(p) = p.id /\ Pkg(Ident(p), p.of) = p
  BY DEF KnownOnce, IsPackage, Ident, Pkg
<1>2. {Pkg(a.id, a.of) : a \in d.artifacts} = s.packages
  <2> DEFINE entry(p) == [id |-> Ident(p), of |-> p.of]
  <2>1. d.artifacts = {entry(p) : p \in s.packages}
    BY DEF toSyftJSON
  <2>2. \A p \in s.packages : Pkg(entry(p).id, entry(p).of) = p
    BY <1>1
  <2> HIDE DEF d, entry
  <2>3. \A p \in s.packages : entry(p) \in d.artifacts
    BY <2>1
  <2>4. \A a \in d.artifacts : \E p \in s.packages : a = entry(p)
    BY <2>1
  <2> QED
    BY <2>2, <2>3, <2>4
<1>3. {f.location : f \in d.files} = AllCoordinates(s)
  <2> DEFINE entry(c) == [id |-> Ident(c), location |-> c]
  <2>1. d.files = {entry(c) : c \in AllCoordinates(s)}
    BY DEF toSyftJSON
  <2>2. \A c \in AllCoordinates(s) : entry(c).location = c
    OBVIOUS
  <2> HIDE DEF d, entry
  <2>3. \A c \in AllCoordinates(s) : entry(c) \in d.files
    BY <2>1
  <2>4. \A f \in d.files : \E c \in AllCoordinates(s) : f = entry(c)
    BY <2>1
  <2> QED
    BY <2>2, <2>3, <2>4
<1>4. /\ t.packages = s.packages /\ t.files = AllCoordinates(s) /\ t.source = s.source
      /\ t.relationships =
            UNION {UNION {{Relationship(y.type, from, to) :
                from \in {e \in All : Ident(e) = y.parent}, to \in {e \in All : Ident(e) = y.child}}} :
                    y \in {z \in d.relationships : z.type \in KnownTypes}}
  BY <1>2, <1>3 DEF fromSyftJSON, toSyftJSON
<1> HIDE DEF t
<1>5. \A e \in All : e \in s.packages \/ e = SourceElement \/ IsCoordinates(e)
  BY CoordinatesKnown
<1>6. d.relationships = {[parent |-> Ident(r.from), child |-> Ident(r.to), type |-> r.type] : r \in s.relationships}
  BY DEF toSyftJSON
<1> HIDE DEF d
<1>7. ASSUME NEW r \in s.relationships
      PROVE  r.from \in All /\ Restored(r.to) \in All /\ Ident(Restored(r.to)) = Ident(r.to)
  BY RestoredIs DEF Linked
<1>8. \A a, b \in All : Ident(a) = Ident(b) => a = b
  BY <1>5, IdentsDiffer
<1>9. \A x \in t.relationships : \E r \in s.relationships :
          r.type \in KnownTypes /\ x = Relationship(r.type, r.from, Restored(r.to))
  <2> SUFFICES ASSUME NEW x \in t.relationships
               PROVE  \E r \in s.relationships : r.type \in KnownTypes /\ x = Relationship(r.type, r.from, Restored(r.to))
    OBVIOUS
  <2> HIDE DEF All
  <2>1. PICK y \in d.relationships, from \in All, to \in All :
            /\ y.type \in KnownTypes /\ x = Relationship(y.type, from, to)
            /\ Ident(from) = y.parent /\ Ident(to) = y.child
    BY <1>4
  <2>2. PICK r \in s.relationships : y.parent = Ident(r.from) /\ y.child = Ident(r.to) /\ y.type = r.type
    BY <1>6
  <2>3. from = r.from /\ to = Restored(r.to)
    BY <1>7, <1>8, <2>1, <2>2
  <2> QED
    BY <2>1, <2>2, <2>3
<1>10. \A r \in s.relationships : r.type \in KnownTypes => Relationship(r.type, r.from, Restored(r.to)) \in t.relationships
  <2> SUFFICES ASSUME NEW r \in s.relationships, r.type \in KnownTypes
               PROVE  Relationship(r.type, r.from, Restored(r.to)) \in t.relationships
    OBVIOUS
  <2> HIDE DEF All
  <2> DEFINE y == [parent |-> Ident(r.from), child |-> Ident(r.to), type |-> r.type]
  <2>1. y \in d.relationships /\ y.type = r.type /\ y.parent = Ident(r.from) /\ y.child = Ident(r.to)
    BY <1>6
  <2>2. r.from \in {e \in All : Ident(e) = y.parent} /\ Restored(r.to) \in {e \in All : Ident(e) = y.child}
    BY <1>7, <2>1
  <2> HIDE DEF y
  <2> QED
    BY <1>4, <2>1, <2>2
<1>11. ASSUME NEW r \in s.relationships
       PROVE  Passes("syft-json", r) <=> r.type \in KnownTypes
  <2>1. r.type \in {"contains", "dependency-of", "ownership-by-file-overlap", "evident-by", "described-by"}
    BY DEF Linked
  <2>2. Passes("syft-json", r) <=> r.type # "described-by"
    BY DEF Passes, Expresses, Spdx
  <2> QED
    BY <2>1, <2>2 DEF KnownTypes
<1>12. ASSUME NEW r \in s.relationships
       PROVE  LET x == Relationship(r.type, r.from, Restored(r.to)) IN Same(x, r) /\ x.to.kind # "location"
  BY RestoredIs DEF Same, Relationship
<1>13. \A x \in t.relationships : \E r \in s.relationships : Passes("syft-json", r) /\ Same(x, r)
  BY <1>9, <1>11, <1>12
<1>14. \A r \in s.relationships : Passes("syft-json", r) => \E x \in t.relationships : Same(x, r)
  BY <1>10, <1>11, <1>12
<1>15. \A x \in t.relationships : x.to.kind # "location"
  BY <1>9, <1>12
<1>16. KnownOnce(t)
  BY <1>4 DEF KnownOnce
<1>17. Linked(t)
  <2>1. \A e \in t.files : IsCoordinates(e)
    BY <1>4, CoordinatesKnown
  <2>2. ASSUME NEW x \in t.relationships
        PROVE  /\ x = Relationship(x.type, x.from, x.to)
               /\ x.from \in t.packages \cup {SourceElement}
               /\ \/ x.to \in t.packages /\ x.type \in {"contains", "dependency-of", "ownership-by-file-overlap"}
                  \/ /\ IsCoordinates(x.to) \/ IsLocation(t, x.to)
                     /\ x.type \in {"contains", "evident-by", "described-by"}
    <3>1. PICK r \in s.relationships : x = Relationship(r.type, r.from, Restored(r.to))
      BY <1>9
    <3>2. x.type = r.type /\ x.from = r.from /\ x.to = Restored(r.to) /\ x = Relationship(x.type, x.from, x.to)
      BY <3>1 DEF Relationship
    <3>3. /\ r.from \in s.packages \cup {SourceElement}
          /\ \/ r.to \in s.packages /\ r.type \in {"contains", "dependency-of", "ownership-by-file-overlap"}
             \/ r.to \notin s.packages /\ r.type \in {"contains", "evident-by", "described-by"}
      <4>1. ASSUME IsCoordinates(r.to) \/ IsLocation(s, r.to) PROVE r.to \notin s.packages
        BY <4>1 DEF KnownOnce, IsPackage, Pkg, IsCoordinates, IsLocation, FileCoordinates, FileLocation
      <4> QED
        BY <4>1 DEF Linked
    <3>4. (x.to \in s.packages <=> r.to \in s.packages) /\ (x.to \in s.packages \/ IsCoordinates(x.to))
      BY <3>2, RestoredIs, CoordinatesKnown
    <3> QED
      BY <1>4, <3>2, <3>3, <3>4
  <2>3. t.source \in DOMAIN RootPrefix
    BY <1>4 DEF Linked
  <2> QED
    BY <2>1, <2>2, <2>3 DEF Linked
<1>18. "syft-json" \notin Spdx
  BY DEF Spdx
<1>19. Carried("syft-json", s, t)
  BY <1>4, <1>13, <1>14, <1>15, <1>16, <1>17, <1>18 DEF Carried
<1> QED
  BY <1>19 DEF t, d

-------------------------------------------------------------------------------
(* CycloneDX.                                                                  *)

LEMMA NamesLast ==
    ASSUME NEW id, NEW f, NEW g, Named(id, f), Named(id, g)
    PROVE  f = g
BY DEF Named

LEMMA MarkedNamed ==
    ASSUME NEW id, NEW of, Named(id, of), NEW mark \in Symbols
    PROVE  Named(<<mark>> \o id, of) /\ (<<mark>> \o id)[1] = mark
<1> DEFINE m == <<mark>>
           v == m \o id
<1>1. id \in Seq(Symbols) /\ Len(id) > 0 /\ id[Len(id)] = of
  BY DEF Named
<1>2. m \in Seq(Symbols) /\ Len(m) = 1 /\ m[1] = mark
  <2>1. m \in Seq(Symbols)
    OBVIOUS
  <2>2. Len(m) = 1
    OBVIOUS
  <2>3. m[1] = mark
    OBVIOUS
  <2> QED
    BY <2>1, <2>2, <2>3
<1>3. Len(id) \in Nat
  BY <1>1, LenProperties
<1> HIDE DEF m
<1>4. /\ v \in Seq(Symbols)
      /\ Len(v) = Len(m) + Len(id)
      /\ \A i \in 1 .. Len(m) + Len(id) : v[i] = IF i <= Len(m) THEN m[i] ELSE id[i - Len(m)]
  BY <1>1, <1>2, ConcatProperties
<1> HIDE DEF v
<1>5. Len(v) = 1 + Len(id) /\ 1 + Len(id) \in 1 .. 1 + Len(id) /\ ~(1 + Len(id) <= 1) /\ (1 + Len(id)) - 1 = Len(id)
  BY <1>1, <1>2, <1>3, <1>4
<1>6. v[1 + Len(id)] = id[Len(id)]
  BY <1>2, <1>4, <1>5
<1>7. v[1] = mark
  <2>1. 1 \in 1 .. Len(m) + Len(id) /\ 1 <= Len(m)
    BY <1>2, <1>3
  <2>2. v[1] = m[1]
    BY <1>4, <2>1
  <2> QED
    BY <1>2, <2>2
<1>8. Named(v, of)
  <2>1. v[Len(v)] = of
    BY <1>1, <1>5, <1>6
  <2>2. Len(v) > 0
    BY <1>3, <1>5
  <2> QED
    BY <1>4, <2>1, <2>2 DEF Named
<1> QED
  BY <1>7, <1>8 DEF v, m

LEMMA BomRefNamed ==
    ASSUME NEW p, IsPackage(p)
    PROVE  Named(DeriveBomRef(p), p.of)
<1>1. Named(p.id, p.of)
  BY DEF IsPackage
<1>2. \A mark \in Symbols : Named(<<mark>> \o p.id, p.of)
  BY <1>1, MarkedNamed
<1>3. "pkg:" \in Symbols
  BY DEF Symbols
<1>4. Named(<<"pkg:">> \o p.id, p.of)
  BY <1>2, <1>3
<1> QED
  BY <1>1, <1>4 DEF DeriveBomRef

\* The relationships are those that pass, between the packages under other names.
LEMMA BomCarries ==
    ASSUME NEW s, KnownOnce(s), Linked(s)
    PROVE  Carried("cyclonedx", s, fromCycloneDX(toCycloneDX(s)))
<1> DEFINE d == toCycloneDX(s)
           t == fromCycloneDX(d)
           now(p) == Pkg(DeriveBomRef(p), p.of)
<1>1. \A p \in s.packages : IsPackage(p) /\ Named(DeriveBomRef(p), p.of)
  BY BomRefNamed DEF KnownOnce
<1>2. \A p, q \in s.packages : DeriveBomRef(p) = DeriveBomRef(q) => p = q
  BY <1>1, NamesLast DEF KnownOnce
<1>3. {Pkg(c.ref, c.of) : c \in d.components} = {now(p) : p \in s.packages}
  <2> DEFINE entry(p) == [ref |-> DeriveBomRef(p), of |-> p.of]
  <2>1. d.components = {entry(p) : p \in s.packages}
    BY DEF toCycloneDX
  <2>2. \A p : Pkg(entry(p).ref, entry(p).of) = now(p)
    OBVIOUS
  <2> HIDE DEF d, entry, now
  <2>3. \A p \in s.packages : entry(p) \in d.components
    BY <2>1
  <2>4. \A c \in d.components : \E p \in s.packages : c = entry(p)
    BY <2>1
  <2> QED
    BY <2>2, <2>3, <2>4
<1>4. /\ t.packages = {now(p) : p \in s.packages} /\ t.files = {} /\ t.source \in {"image", "file", "none"}
      /\ t.relationships =
            UNION {UNION {{Relationship("dependency-of", from, to) :
                from \in {p \in t.packages : p.id = e.dependsOn}, to \in {p \in t.packages : p.id = e.ref}}} :
                    e \in d.dependencies}
  BY <1>3 DEF fromCycloneDX
<1>5. d.dependencies = {[ref |-> DeriveBomRef(r.to), dependsOn |-> DeriveBomRef(r.from)] :
                            r \in {x \in s.relationships : Passes("cyclonedx", x)}}
  BY DEF toCycloneDX, toDependencies, Passes, Expresses, Spdx
<1> HIDE DEF t, d
<1>6. \A r \in s.relationships : Passes("cyclonedx", r) => r.from \in s.packages /\ r.to \in s.packages /\ r.type = "dependency-of"
  BY Kinds DEF Passes, Expresses, Spdx
<1>7. \A p \in s.packages : now(p).id = DeriveBomRef(p) /\ now(p).of = p.of /\ now(p) = Pkg(now(p).id, now(p).of)
                                /\ now(p).kind = "package"
  BY DEF Pkg
<1> HIDE DEF now
<1>8. \A p \in s.packages, q \in t.packages : q.id = DeriveBomRef(p) => q = now(p)
  BY <1>2, <1>4, <1>7
<1>9. \A x \in t.relationships : \E r \in s.relationships :
          Passes("cyclonedx", r) /\ x = Relationship("dependency-of", now(r.from), now(r.to))
  <2> SUFFICES ASSUME NEW x \in t.relationships
               PROVE  \E r \in s.relationships :
                          Passes("cyclonedx", r) /\ x = Relationship("dependency-of", now(r.from), now(r.to))
    OBVIOUS
  <2>1. PICK e \in d.dependencies, from \in t.packages, to \in t.packages :
            x = Relationship("dependency-of", from, to) /\ from.id = e.dependsOn /\ to.id = e.ref
    BY <1>4
  <2>2. PICK r \in s.relationships :
            Passes("cyclonedx", r) /\ e.ref = DeriveBomRef(r.to) /\ e.dependsOn = DeriveBomRef(r.from)
    BY <1>5
  <2>3. from = now(r.from) /\ to = now(r.to)
    BY <1>6, <1>8, <2>1, <2>2
  <2> QED
    BY <2>1, <2>2, <2>3
<1>10. \A r \in s.relationships : Passes("cyclonedx", r) =>
           Relationship("dependency-of", now(r.from), now(r.to)) \in t.relationships
  <2> SUFFICES ASSUME NEW r \in s.relationships, Passes("cyclonedx", r)
               PROVE  Relationship("dependency-of", now(r.from), now(r.to)) \in t.relationships
    OBVIOUS
  <2> DEFINE e == [ref |-> DeriveBomRef(r.to), dependsOn |-> DeriveBomRef(r.from)]
  <2>1. e \in d.dependencies /\ e.ref = DeriveBomRef(r.to) /\ e.dependsOn = DeriveBomRef(r.from)
    BY <1>5
  <2>2. /\ now(r.from) \in {p \in t.packages : p.id = e.dependsOn}
        /\ now(r.to) \in {p \in t.packages : p.id = e.ref}
    BY <1>4, <1>6, <1>7, <2>1
  <2> HIDE DEF e
  <2> QED
    BY <1>4, <2>1, <2>2
<1>11. ASSUME NEW r \in s.relationships, Passes("cyclonedx", r)
       PROVE  LET x == Relationship("dependency-of", now(r.from), now(r.to))
              IN /\ Same(x, r) /\ x.to.kind # "location" /\ x = Relationship(x.type, x.from, x.to)
                 /\ x.from \in t.packages /\ x.to \in t.packages /\ x.type = "dependency-of"
  <2>1. r.from \in s.packages /\ r.to \in s.packages /\ r.type = "dependency-of"
    BY <1>6, <1>11
  <2>2. now(r.from) \in t.packages /\ now(r.to) \in t.packages
    BY <1>4, <2>1
  <2> QED
    BY <1>7, <2>1, <2>2 DEF Same, Relationship
<1>12. KnownOnce(t)
  <2>1. \A p \in s.packages : IsPackage(now(p))
    BY <1>1, <1>7 DEF IsPackage
  <2>2. \A p, q \in s.packages : now(p).of = now(q).of => now(p) = now(q)
    BY <1>7 DEF KnownOnce
  <2> QED
    BY <1>4, <2>1, <2>2 DEF KnownOnce
<1>13. Linked(t)
  <2>1. t.source \in DOMAIN RootPrefix /\ \A e \in t.files : IsCoordinates(e)
    BY <1>4 DEF RootPrefix
  <2>2. ASSUME NEW x \in t.relationships
        PROVE  /\ x = Relationship(x.type, x.from, x.to)
               /\ x.from \in t.packages /\ x.to \in t.packages /\ x.type = "dependency-of"
    BY <1>9, <1>11
  <2> QED
    BY <2>1, <2>2 DEF Linked
<1>14. (\A p \in t.packages : \E q \in s.packages : p.of = q.of) /\ (\A q \in s.packages : \E p \in t.packages : p.of = q.of)
  BY <1>4, <1>7
<1>15. "cyclonedx" \notin Spdx
  BY DEF Spdx
<1>16. Carried("cyclonedx", s, t)
  BY <1>9, <1>10, <1>11, <1>12, <1>13, <1>14, <1>15 DEF Carried
<1> QED
  BY <1>16 DEF t, d

-------------------------------------------------------------------------------
(* SPDX.                                                                       *)

\* What is written for a package ends in its fingerprint and starts with the prefix.
LEMMA SpdxPackage ==
    ASSUME NEW p, IsPackage(p)
    PROVE  Named(toSPDXID(p), p.of) /\ toSPDXID(p)[1] = "Package-"
<1> DEFINE m == <<"Package-">> \o p.id
           id == IF Head(p.id) = "Package-" THEN p.id ELSE m
           n == Len(id)
           s == SanitizeElementID(id)
<1>1. Named(p.id, p.of) /\ p.of # "pkg:" /\ p.kind = "package"
  BY NamesAssumption DEF IsPackage, Pkg
<1>2. Named(m, p.of) /\ m[1] = "Package-"
  <2>1. \A mark \in Symbols : Named(<<mark>> \o p.id, p.of) /\ (<<mark>> \o p.id)[1] = mark
    BY <1>1, MarkedNamed
  <2>2. "Package-" \in Symbols
    BY DEF Symbols
  <2> QED
    BY <2>1, <2>2
<1>3. Head(p.id) = p.id[1]
  OBVIOUS
<1> HIDE DEF m
<1>4. Named(id, p.of) /\ id[1] = "Package-"
  BY <1>1, <1>2, <1>3
<1>5. toSPDXID(p) = s
  BY <1>1 DEF toSPDXID, m
<1> HIDE DEF id
<1>6. n \in Nat /\ n > 0 /\ DOMAIN id = 1 .. n /\ id[n] = p.of /\ \A i \in 1 .. n : id[i] \in Symbols
  BY <1>4, LenProperties, ElementOfSeq DEF Named
<1> HIDE DEF n
<1>7. s = [i \in 1 .. n |-> IF id[i] = "pkg:" THEN "pkg-" ELSE id[i]]
  BY <1>6 DEF SanitizeElementID
<1>8. \A i \in 1 .. n : (IF id[i] = "pkg:" THEN "pkg-" ELSE id[i]) \in Symbols
  BY <1>6 DEF Symbols
<1> HIDE DEF s
<1>9. s \in [1 .. n -> Symbols]
  BY <1>7, <1>8
<1>10. s \in Seq(Symbols)
  BY <1>6, <1>9, SeqDef
<1>11. DOMAIN s = 1 .. n /\ Len(s) \in Nat /\ DOMAIN s = 1 .. Len(s)
  BY <1>9, <1>10, LenProperties
<1>12. Len(s) = n
  BY <1>6, <1>11
<1>13. 1 \in 1 .. n /\ n \in 1 .. n
  BY <1>6
<1>14. s[n] = p.of /\ s[1] = "Package-"
  BY <1>1, <1>4, <1>6, <1>7, <1>13
<1> QED
  BY <1>5, <1>6, <1>10, <1>12, <1>14 DEF Named

\* The identifiers of files start with a prefix, but for locations.
LEMMA SpdxFile ==
    ASSUME NEW f \in FileNames, NEW form \in {"absolute", "relative"}
    PROVE  /\ LET id == toSPDXID(FileCoordinates(f, form)) IN id[1] = "File-" /\ id[2] = form /\ id[3] = f
           /\ toSPDXID(FileLocation(f, form)) = <<form, f>>
           /\ Ident(FileLocation(f, form)) = <<form, f>>
<1> DEFINE m == <<"File-">>
           id == <<form, f>>
           X == {"File-", form, f}
<1>1. toSPDXID(FileCoordinates(f, form)) = m \o id
  BY DEF toSPDXID, Ident, FileCoordinates
<1>2. Len(m) = 1 /\ Len(id) = 2 /\ m[1] = "File-" /\ id[1] = form /\ id[2] = f
  OBVIOUS
<1>3. m \in Seq(X)
  OBVIOUS
<1>4. id \in Seq(X)
  OBVIOUS
<1> HIDE DEF m, id, X
<1>5. \A i \in 1 .. Len(m) + Len(id) : (m \o id)[i] = IF i <= Len(m) THEN m[i] ELSE id[i - Len(m)]
  BY <1>3, <1>4, ConcatProperties
<1>6. (m \o id)[1] = "File-" /\ (m \o id)[2] = form /\ (m \o id)[3] = f
  <2> DEFINE both == m \o id
  <2>1. \A i \in 1 .. 3 : both[i] = IF i <= 1 THEN m[i] ELSE id[i - 1]
    <3>1. \A i \in 1 .. 3 : i \in 1 .. Len(m) + Len(id)
      BY <1>2
    <3> HIDE DEF both
    <3>2. \A i \in 1 .. 3 : both[i] = IF i <= Len(m) THEN m[i] ELSE id[i - Len(m)]
      BY <1>5, <3>1 DEF both
    <3> QED
      BY <1>2, <3>2
  <2> HIDE DEF both
  <2>2. both[1] = m[1] /\ both[2] = id[1] /\ both[3] = id[2]
    BY <2>1
  <2>3. both[1] = "File-" /\ both[2] = form /\ both[3] = f
    BY <1>2, <2>2
  <2> QED
    BY <2>3 DEF both
<1>7. toSPDXID(FileLocation(f, form)) = <<form, f>> /\ Ident(FileLocation(f, form)) = <<form, f>>
  BY DEF toSPDXID, Ident, FileLocation
<1> QED
  BY <1>1, <1>6, <1>7

LEMMA PairIs ==
    ASSUME NEW a, NEW b
    PROVE  <<a, b>>[1] = a /\ <<a, b>>[2] = b
OBVIOUS

LEMMA PairOf ==
    ASSUME NEW l, NEW a, NEW b, l = <<a, b>>
    PROVE  l[1] = a /\ l[2] = b /\ <<l[1], l[2]>> = l
<1>1. <<a, b>>[1] = a /\ <<a, b>>[2] = b
  BY PairIs
<1>2. l[1] = a /\ l[2] = b
  BY <1>1
<1> QED
  BY <1>2

\* What is read back of an entry written for a type.
Entry(a, type, b) == SpdxRelationship(a, Lookup[type][1], Lookup[type][2], b)
TypesTo(to) == IF IsFile(to) THEN {"contains", "evident-by"}
               ELSE {"contains", "dependency-of", "ownership-by-file-overlap"}

LEMMA ReadBack ==
    ASSUME NEW a, NEW b, NEW to, NEW type \in TypesTo(to)
    PROVE  ReadAs(Entry(a, type, b), to) = {type}
<1> DEFINE r == Entry(a, type, b)
           T == TypesTo(to)
<1>1. DOMAIN Lookup = {"contains", "dependency-of", "ownership-by-file-overlap", "evident-by"}
  BY DEF Lookup
<1>2. /\ Lookup["contains"] = <<"CONTAINS", "">>
      /\ Lookup["dependency-of"] = <<"DEPENDENCY_OF", "">>
      /\ Lookup["evident-by"] = <<"OTHER", "evident-by">>
      /\ Lookup["ownership-by-file-overlap"] = <<"OTHER", "ownership-by-file-overlap">>
  BY DEF Lookup
<1>3. r.type = Lookup[type][1] /\ r.comment = Lookup[type][2]
  BY DEF Entry, SpdxRelationship
<1>4. ReadAs(r, to) = {t \in T : <<r.type, r.comment>> = Lookup[t]}
  BY DEF ReadAs, TypesTo
<1> HIDE DEF r
<1>5. type \in T /\ T \subseteq DOMAIN Lookup
  BY <1>1 DEF TypesTo
<1> HIDE DEF T
<1>6. <<r.type, r.comment>> = Lookup[type]
  <2>1. <<Lookup[type][1], Lookup[type][2]>> = Lookup[type]
    <3>1. \E x, y : Lookup[type] = <<x, y>>
      BY <1>1, <1>2, <1>5, Zenon
    <3>2. PICK x, y : Lookup[type] = <<x, y>>
      BY <3>1
    <3> QED
      BY <3>2, PairOf, Zenon
  <2> QED
    BY <1>3, <2>1
<1>7. \A t, u \in DOMAIN Lookup : Lookup[t] = Lookup[u] => t = u
  <2>1. Lookup["contains"][1] = "CONTAINS"
    <3>1. Lookup["contains"] = <<"CONTAINS", "">>
      BY <1>2
    <3> QED
      BY <3>1, PairOf, Zenon
  <2>2. Lookup["dependency-of"][1] = "DEPENDENCY_OF"
    <3>1. Lookup["dependency-of"] = <<"DEPENDENCY_OF", "">>
      BY <1>2
    <3> QED
      BY <3>1, PairOf, Zenon
  <2>4. Lookup["evident-by"][1] = "OTHER" /\ Lookup["evident-by"][2] = "evident-by"
    <3>1. Lookup["evident-by"] = <<"OTHER", "evident-by">>
      BY <1>2
    <3> QED
      BY <3>1, PairOf, Zenon
  <2>5. /\ Lookup["ownership-by-file-overlap"][1] = "OTHER"
        /\ Lookup["ownership-by-file-overlap"][2] = "ownership-by-file-overlap"
    <3>1. Lookup["ownership-by-file-overlap"] = <<"OTHER", "ownership-by-file-overlap">>
      BY <1>2
    <3> QED
      BY <3>1, PairOf, Zenon
  <2>3. "evident-by" # "ownership-by-file-overlap" /\ "CONTAINS" # "DEPENDENCY_OF" /\ "CONTAINS" # "OTHER" /\ "DEPENDENCY_OF" # "OTHER"
    OBVIOUS
  <2> QED
    BY <1>1, <2>1, <2>2, <2>3, <2>5, <2>4
<1>8. ReadAs(r, to) = {type}
  BY <1>4, <1>5, <1>6, <1>7
<1> QED
  BY <1>8 DEF r

\* The element that stands for the source is found and taken out again.
LEMMA SourceExtracted ==
    ASSUME NEW s, KnownOnce(s), Linked(s), NEW format \in Spdx
    PROVE  LET e == extractSource(toSpdxDocument(s, format))
           IN /\ e.source \in DOMAIN RootPrefix
              /\ e.doc.packages = {[id |-> toSPDXID(p), of |-> p.of, purpose |-> ""] : p \in s.packages}
              /\ e.doc.files = {[id |-> toSPDXID(c), of |-> c.of] : c \in AllCoordinates(s)}
              /\ e.doc.relationships = toSpdxRelationships(s)
<1> DEFINE d == toSpdxDocument(s, format)
           root == toRootPackage(s, format)
           P == {[id |-> toSPDXID(p), of |-> p.of, purpose |-> ""] : p \in s.packages}
           A == toSpdxRelationships(s)
           B == {SpdxRelationship(root.id, "CONTAINS", "", p.id) : p \in P}
           C == SpdxRelationship(DocumentID, "DESCRIBES", "", root.id)
           prefix == RootPrefix[s.source]
<1>1. /\ d.packages = P \cup {root} /\ d.relationships = A \cup B \cup {C}
      /\ d.files = {[id |-> toSPDXID(c), of |-> c.of] : c \in AllCoordinates(s)}
      /\ d = [format |-> format, packages |-> d.packages, files |-> d.files, relationships |-> d.relationships]
  BY DEF toSpdxDocument
<1>2. prefix \in {"Image", "Directory", "File", "Snap", "Unknown"}
  BY DEF Linked, RootPrefix
<1>3. root.id = <<"DocumentRoot-", prefix>> /\ (root.purpose = "" \/ root.purpose = RootPurpose(prefix))
  BY DEF toRootPackage
<1>4. RootPurpose(prefix) # "" /\ (RootPurpose(prefix) = "OTHER" => prefix = "Unknown")
  BY <1>2 DEF RootPurpose
<1>5. root.id[1] = "DocumentRoot-" /\ root.id[2] = prefix
  <2> HIDE DEF root, prefix
  <2> QED
    BY <1>3, PairOf, Zenon
<1>6. RootPurposeOf(root, prefix) = RootPurpose(prefix)
  BY <1>3 DEF RootPurposeOf
<1>7. \A p \in P : p.id[1] = "Package-"
  <2>1. \A p \in s.packages : toSPDXID(p)[1] = "Package-"
    BY SpdxPackage DEF KnownOnce
  <2> DEFINE entry(p) == [id |-> toSPDXID(p), of |-> p.of, purpose |-> ""]
  <2>2. P = {entry(p) : p \in s.packages}
    OBVIOUS
  <2>3. \A p \in s.packages : entry(p).id = toSPDXID(p)
    OBVIOUS
  <2> HIDE DEF P, entry
  <2> QED
    BY <2>1, <2>2, <2>3
<1>8. \A r \in A : r.a[1] = "Package-" /\ r.b[1] \in {"Package-", "File-", "relative"}
  <2> SUFFICES ASSUME NEW r \in A PROVE r.a[1] = "Package-" /\ r.b[1] \in {"Package-", "File-", "relative"}
    OBVIOUS
  <2>1. PICK x \in s.relationships : r.a = toSPDXID(x.from) /\ r.b = toSPDXID(x.to) /\ x.from.kind = "package"
    BY DEF toSpdxRelationships, SpdxRelationship
  <2>2. IsPackage(x.from)
    BY <2>1, Kinds DEF KnownOnce
  <2>3. CASE x.to \in s.packages
    BY <2>1, <2>2, <2>3, SpdxPackage DEF KnownOnce
  <2>4. CASE IsCoordinates(x.to)
    <3>1. PICK f \in FileNames, form \in {"absolute", "relative"} : x.to = FileCoordinates(f, form)
      BY <2>4 DEF IsCoordinates
    <3>2. r.b[1] = "File-"
      BY <2>1, <3>1, SpdxFile
    <3> QED
      BY <2>1, <2>2, <3>2, SpdxPackage
  <2>5. CASE IsLocation(s, x.to)
    <3>1. PICK f \in FileNames : x.to = FileLocation(f, "relative")
      BY <2>5 DEF IsLocation
    <3>2. r.b = <<"relative", f>>
      BY <2>1, <3>1, SpdxFile
    <3> QED
      BY <2>1, <2>2, <3>2, SpdxPackage
  <2> QED
    BY <2>3, <2>4, <2>5 DEF Linked
<1>9. DocumentID[1] = "DOCUMENT"
  BY DEF DocumentID
<1>10. C.a = DocumentID /\ C.type = "DESCRIBES" /\ C.b = root.id
  BY DEF SpdxRelationship
<1>11. \A r \in B : r.a = root.id /\ r.type = "CONTAINS"
  <2> SUFFICES ASSUME NEW r \in B PROVE r.a = root.id /\ r.type = "CONTAINS"
    OBVIOUS
  <2> HIDE DEF P, root
  <2>1. PICK p \in P : r = SpdxRelationship(root.id, "CONTAINS", "", p.id)
    OBVIOUS
  <2> HIDE DEF B
  <2> QED
    BY <2>1 DEF SpdxRelationship
<1> HIDE DEF P, A, B, C, root, prefix
<1>12. findRootPackages(d) = {root}
  <2>1. root \in findRootPackages(d)
    BY <1>1, <1>10 DEF findRootPackages
  <2>2. ASSUME NEW p \in findRootPackages(d), p # root PROVE FALSE
    <3>1. PICK r \in d.relationships : r.a = DocumentID /\ r.type = "DESCRIBES" /\ r.b = p.id
      BY DEF findRootPackages
    <3>2. p \in P
      BY <1>1, <2>2 DEF findRootPackages
    <3>3. r \notin A
      BY <1>8, <1>9, <3>1
    <3>4. r \notin B
      BY <1>11, <3>1
    <3>5. r = C
      BY <1>1, <3>3, <3>4
    <3> QED
      BY <1>5, <1>7, <1>10, <3>1, <3>2, <3>5
  <2> QED
    BY <2>1, <2>2
<1> DEFINE chosen == CHOOSE p \in findRootPackages(d) : TRUE
           pre == IF chosen.id[1] = "DocumentRoot-" THEN chosen.id[2] ELSE ""
           purpose == RootPurposeOf(chosen, pre)
           cut == [d EXCEPT !.packages = @ \ {chosen}, !.relationships = {r \in @ : chosen.id \notin {r.a, r.b}}]
<1> HIDE DEF d
<1>13. chosen = root /\ Cardinality(findRootPackages(d)) = 1
  BY <1>12, FS_Singleton
<1>14. extractSource(d) = [source |-> SourceOfRoot(prefix), doc |-> cut]
  <2>1. extractSource(d) =
            IF Cardinality(findRootPackages(d)) # 1 \/ purpose = "" \/ (purpose = "OTHER" /\ pre # "Unknown")
            THEN [source |-> "none", doc |-> d]
            ELSE [source |-> SourceOfRoot(pre), doc |-> cut]
    BY DEF extractSource
  <2> HIDE DEF chosen, cut
  <2>2. pre = prefix
    BY <1>5, <1>13
  <2> HIDE DEF pre
  <2>3. purpose = RootPurpose(prefix)
    BY <1>6, <1>13, <2>2
  <2> HIDE DEF purpose
  <2> QED
    BY <1>4, <1>13, <2>1, <2>2, <2>3
<1>15. /\ cut.packages = d.packages \ {root}
       /\ cut.relationships = {r \in d.relationships : root.id \notin {r.a, r.b}}
       /\ cut.files = d.files
  <2>1. DOMAIN d = {"format", "packages", "files", "relationships"}
    BY <1>1
  <2> HIDE DEF chosen
  <2> QED
    BY <1>13, <2>1
<1> HIDE DEF cut
<1>16. cut.packages = P
  <2>1. root \notin P
    BY <1>5, <1>7
  <2> QED
    BY <1>1, <1>15, <2>1
<1>17. cut.relationships = A
  <2>2. \A r \in A : root.id # r.a /\ root.id # r.b
    BY <1>5, <1>8
  <2>3. \A r \in B : root.id = r.a
    BY <1>11
  <2>4. root.id = C.b
    BY <1>10
  <2> QED
    BY <1>1, <1>15, <2>2, <2>3, <2>4
<1>18. extractSource(d).source \in DOMAIN RootPrefix
  BY <1>2, <1>14 DEF SourceOfRoot, RootPrefix
<1> DEFINE e == extractSource(d)
<1>19. e.source \in DOMAIN RootPrefix /\ e.doc.packages = P /\ e.doc.files = d.files /\ e.doc.relationships = A
  BY <1>14, <1>15, <1>16, <1>17, <1>18
<1> QED
  BY <1>1, <1>19 DEF d, P, A

LEMMA FilesDiffer ==
    ASSUME NEW s, NEW e, IsCoordinates(e) \/ IsLocation(s, e)
    PROVE  e.kind # "package"
<1>1. CASE IsCoordinates(e)
  BY <1>1 DEF IsCoordinates, FileCoordinates
<1>2. CASE IsLocation(s, e)
  BY <1>2 DEF IsLocation, FileLocation
<1> QED
  BY <1>1, <1>2

\* Packages keep their names, and files are known by where they are.
LEMMA SpdxCarries ==
    ASSUME NEW s, KnownOnce(s), Linked(s), NEW format \in Spdx
    PROVE  Carried(format, s, fromSpdxDocument(toSpdxDocument(s, format)))
<1> DEFINE output == toSpdxDocument(s, format)
           t == fromSpdxDocument(output)
           d == extractSource(output).doc
           all == AllCoordinates(s)
           now(p) == Pkg(toSPDXID(p), p.of)
           location(c) == FileLocation(c.of, "relative")
           N == {Pkg(p.id, p.of) : p \in d.packages}
           F == {[id |-> f.id, location |-> FileLocation(f.of, "relative")] : f \in d.files}
           known(c) == [id |-> toSPDXID(c), location |-> location(c)]
           Elements(id) == {p \in N : p.id = id} \cup {f.location : f \in {f \in F : f.id = id}}
           links(R) == UNION {UNION {ReadBetween(r, from, to) :
                           from \in Elements(r.a) \cap N, to \in Elements(r.b)} : r \in R}
<1>1. /\ extractSource(output).source \in DOMAIN RootPrefix
      /\ d.packages = {[id |-> toSPDXID(p), of |-> p.of, purpose |-> ""] : p \in s.packages}
      /\ d.files = {[id |-> toSPDXID(c), of |-> c.of] : c \in all}
      /\ d.relationships = toSpdxRelationships(s)
  BY SourceExtracted
<1>2. N = {now(p) : p \in s.packages}
  <2> DEFINE entry(p) == [id |-> toSPDXID(p), of |-> p.of, purpose |-> ""]
  <2>1. d.packages = {entry(p) : p \in s.packages}
    BY <1>1
  <2>2. \A p : Pkg(entry(p).id, entry(p).of) = now(p)
    OBVIOUS
  <2> HIDE DEF d, entry, now
  <2>3. \A p \in s.packages : entry(p) \in d.packages
    BY <2>1
  <2>4. \A c \in d.packages : \E p \in s.packages : c = entry(p)
    BY <2>1
  <2> QED
    BY <2>2, <2>3, <2>4
<1>3. F = {known(c) : c \in all}
  <2> DEFINE entry(c) == [id |-> toSPDXID(c), of |-> c.of]
             read(f) == [id |-> f.id, location |-> FileLocation(f.of, "relative")]
  <2>1. d.files = {entry(c) : c \in all}
    BY <1>1
  <2>2. \A c : read(entry(c)) = known(c)
    OBVIOUS
  <2>3. F = {read(f) : f \in d.files}
    OBVIOUS
  <2> HIDE DEF d, entry, known, F, all, read
  <2>4. \A c \in all : entry(c) \in d.files
    BY <2>1
  <2>5. \A f \in d.files : \E c \in all : f = entry(c)
    BY <2>1
  <2> QED
    BY <2>2, <2>3, <2>4, <2>5
<1>4. /\ t.packages = N /\ t.source \in DOMAIN RootPrefix
      /\ t.files = {FileCoordinates(f.location.of, "relative") : f \in F}
      /\ t.relationships = links(toSpdxRelationships(s))
  <2>1. t.packages = N
    BY DEF fromSpdxDocument
  <2>2. t.source = extractSource(output).source
    BY DEF fromSpdxDocument
  <2>3. t.files = {FileCoordinates(f.location.of, "relative") : f \in F}
    BY DEF fromSpdxDocument
  <2>4. t.relationships = links(d.relationships)
    BY DEF fromSpdxDocument
  <2> HIDE DEF t, d, output, N, Elements, links
  <2>5. t.relationships = links(toSpdxRelationships(s))
    BY <1>1, <2>4
  <2> QED
    BY <1>1, <2>1, <2>2, <2>3, <2>5
<1>0. \A R, x : x \in links(R) <=>
          \E r \in R : \E from \in Elements(r.a) \cap N, to \in Elements(r.b) : x \in ReadBetween(r, from, to)
  <2> HIDE DEF N, Elements
  <2> QED
    OBVIOUS
<1> HIDE DEF t, d, output, N, F, links
<1>5. /\ \A c : known(c).id = toSPDXID(c) /\ known(c).location = location(c)
      /\ \A f : f \in F <=> \E c \in all : f = known(c)
  <2>1. \A c : known(c).id = toSPDXID(c) /\ known(c).location = location(c)
    OBVIOUS
  <2> HIDE DEF known
  <2> QED
    BY <1>3, <2>1
<1> HIDE DEF known
<1>6. \A p \in s.packages : /\ now(p) \in N /\ now(p).id = toSPDXID(p) /\ now(p).of = p.of
                            /\ now(p).kind = "package" /\ now(p) = Pkg(now(p).id, now(p).of)
                            /\ Named(toSPDXID(p), p.of) /\ toSPDXID(p)[1] = "Package-"
                            /\ p.of \in Fingerprints
  BY <1>2, SpdxPackage DEF KnownOnce, Pkg, IsPackage
<1>7. \A q \in N : \E p \in s.packages : q = now(p)
  BY <1>2
<1>8. \A c \in all : location(c).kind = "location" /\ location(c).of = c.of
                     /\ \E f \in FileNames, form \in {"absolute", "relative"} : c = FileCoordinates(f, form)
  BY CoordinatesKnown DEF FileLocation, IsCoordinates
<1>9. \A x, id : x \in Elements(id) <=> (x \in N /\ x.id = id) \/ \E c \in all : toSPDXID(c) = id /\ x = location(c)
  <2> SUFFICES ASSUME NEW x, NEW id
               PROVE  x \in Elements(id) <=> (x \in N /\ x.id = id) \/ \E c \in all : toSPDXID(c) = id /\ x = location(c)
    OBVIOUS
  <2> HIDE DEF now, location
  <2>1. (\E f \in F : f.id = id /\ x = f.location) <=> \E c \in all : toSPDXID(c) = id /\ x = location(c)
    BY <1>5
  <2> QED
    BY <2>1
<1> HIDE DEF Elements
<1>10. \A x \in t.relationships : \E r \in toSpdxRelationships(s), from \in N : \E to \in Elements(r.b) : \E type \in ReadAs(r, to) :
           from.id = r.a /\ x = Relationship(type, from, to)
  <2> SUFFICES ASSUME NEW x \in t.relationships
               PROVE  \E r \in toSpdxRelationships(s), from \in N : \E to \in Elements(r.b) : \E type \in ReadAs(r, to) :
                          from.id = r.a /\ x = Relationship(type, from, to)
    OBVIOUS
  <2> HIDE DEF now, location
  <2>0. PICK r \in toSpdxRelationships(s) :
            \E from \in Elements(r.a) \cap N, to \in Elements(r.b) : \E type \in ReadAs(r, to) :
                x = Relationship(type, from, to)
    <3>1. PICK r \in toSpdxRelationships(s) :
              \E from \in Elements(r.a) \cap N, to \in Elements(r.b) : x \in ReadBetween(r, from, to)
      BY <1>0, <1>4
    <3>2. PICK from \in Elements(r.a) \cap N, to \in Elements(r.b) : x \in ReadBetween(r, from, to)
      BY <3>1
    <3>3. PICK type \in ReadAs(r, to) : x = Relationship(type, from, to)
      BY <3>2 DEF ReadBetween
    <3> QED
      BY <3>2, <3>3
  <2>1. PICK from \in Elements(r.a) \cap N, to \in Elements(r.b) : \E type \in ReadAs(r, to) :
            x = Relationship(type, from, to)
    BY <2>0
  <2>2. from.id = r.a
    <3>1. from.kind = "package"
      BY <1>6, <1>7
    <3> QED
      BY <1>8, <1>9, <3>1
  <2> QED
    BY <2>1, <2>2
<1>11. ASSUME NEW r \in toSpdxRelationships(s), NEW from \in N, NEW to \in Elements(r.b), NEW type \in ReadAs(r, to),
              from.id = r.a
       PROVE  Relationship(type, from, to) \in t.relationships
  <2> HIDE DEF now, location
  <2>1. from \in Elements(r.a) \cap N
    BY <1>9, <1>11
  <2>2. Relationship(type, from, to) \in ReadBetween(r, from, to)
    BY DEF ReadBetween
  <2> QED
    BY <1>0, <1>4, <2>1, <2>2
<1> HIDE DEF all
<1> DEFINE After(e) == IF e \in s.packages THEN now(e) ELSE location(e)
           Now(y) == Relationship(y.type, now(y.from), After(y.to))
<1>12. ASSUME NEW y \in s.relationships
       PROVE  /\ Passes(format, y) <=> /\ y.type \in DOMAIN Lookup /\ y.from.kind = "package"
                                       /\ y.to \in s.packages \/ y.to \in all
              /\ y.from.kind = "package" <=> y.from \in s.packages
              /\ y.to \in all => y.to \notin s.packages
              /\ y.to \in s.packages \/ y.to \in all \/ \E f \in FileNames : y.to = FileLocation(f, "relative")
  <2>1. DOMAIN Lookup = {"contains", "dependency-of", "ownership-by-file-overlap", "evident-by"}
    BY DEF Lookup
  <2>2. y.type \in {"contains", "dependency-of", "ownership-by-file-overlap", "evident-by", "described-by"}
    BY DEF Linked
  <2>3. y.to.kind = "coordinates" => y.to \in all
    BY CoordinatesKnown DEF all
  <2>4. y.to \in all => y.to.kind = "coordinates"
    BY <1>8 DEF FileCoordinates
  <2>5. /\ y.to.kind \in {"package", "coordinates", "location"}
        /\ y.to.kind = "package" <=> y.to \in s.packages
        /\ y.from.kind = "package" <=> y.from \in s.packages
        /\ y.to.kind = "location" => \E f \in FileNames : y.to = FileLocation(f, "relative")
    BY Kinds DEF IsLocation
  <2>6. Passes(format, y) <=> y.type # "described-by" /\ y.from.kind = "package" /\ y.to.kind # "location"
    <3>1. Expresses(format, y) <=> y.type # "described-by" /\ y.from.kind = "package"
      BY DEF Expresses, Spdx
    <3> QED
      BY <3>1 DEF Passes
  <2> QED
    BY <2>1, <2>2, <2>3, <2>5, <2>4, <2>6
<1>13. ASSUME NEW p \in s.packages, NEW x \in Elements(toSPDXID(p)) PROVE x = now(p)
  <2>1. ASSUME NEW c \in all PROVE toSPDXID(c)[1] = "File-"
    BY <1>8, SpdxFile
  <2>2. x \in N /\ x.id = toSPDXID(p)
    BY <1>6, <1>9, <2>1
  <2>3. PICK q \in s.packages : x = now(q)
    BY <1>7, <2>2
  <2>4. Named(toSPDXID(p), q.of) /\ Named(toSPDXID(p), p.of)
    BY <1>6, <2>2, <2>3
  <2>5. q = p
    BY <2>4, NamesLast DEF KnownOnce
  <2> QED
    BY <2>3, <2>5
<1>14. ASSUME NEW c \in all, NEW x \in Elements(toSPDXID(c)) PROVE x = location(c)
  <2>1. ASSUME NEW e \in all PROVE toSPDXID(e)[1] = "File-" /\ toSPDXID(e)[3] = e.of
    <3>1. PICK f \in FileNames, form \in {"absolute", "relative"} : e = FileCoordinates(f, form)
      BY <1>8
    <3>2. e.of = f
      BY <3>1 DEF FileCoordinates
    <3> QED
      BY <3>1, <3>2, SpdxFile
  <2>2. x \notin N \/ x.id # toSPDXID(c)
    BY <1>6, <1>7, <2>1
  <2>3. PICK e \in all : toSPDXID(e) = toSPDXID(c) /\ x = location(e)
    BY <1>9, <2>2
  <2>4. e.of = c.of
    BY <2>1, <2>3
  <2> QED
    BY <2>3, <2>4
<1>15. ASSUME NEW f \in FileNames PROVE Elements(toSPDXID(FileLocation(f, "relative"))) = {}
  <2> DEFINE id == toSPDXID(FileLocation(f, "relative"))
  <2>1. id[1] = "relative"
    <3>1. id = <<"relative", f>>
      BY SpdxFile
    <3> HIDE DEF id
    <3> QED
      BY <3>1, PairOf, Zenon
  <2>2. ASSUME NEW e \in all PROVE toSPDXID(e)[1] = "File-"
    BY <1>8, SpdxFile
  <2>3. \A q \in N : q.id[1] = "Package-"
    BY <1>6, <1>7
  <2> HIDE DEF id
  <2>4. Elements(id) = {}
    BY <1>9, <2>1, <2>2, <2>3
  <2> QED
    BY <2>4 DEF id
<1>16. ASSUME NEW y \in s.relationships, y.type \in DOMAIN Lookup, y.from.kind = "package",
              y.to \in s.packages \/ y.to \in all
       PROVE  ReadAs(Entry(toSPDXID(y.from), y.type, toSPDXID(y.to)), After(y.to)) = {y.type}
  <2>1. After(y.to).kind = IF y.to \in s.packages THEN "package" ELSE "location"
    BY <1>6, <1>8, <1>16
  <2>2. IsFile(After(y.to)) <=> y.to \notin s.packages
    BY <2>1 DEF IsFile
  <2>3. DOMAIN Lookup = {"contains", "dependency-of", "ownership-by-file-overlap", "evident-by"}
    BY DEF Lookup
  <2>4. /\ y.to \in s.packages => y.type \in {"contains", "dependency-of", "ownership-by-file-overlap"}
        /\ y.to \notin s.packages => y.type \in {"contains", "evident-by"}
    <3>1. /\ y.to.kind = "package" <=> y.to \in s.packages
          /\ y.to.kind = "package" <=> y.to \in s.packages
          /\ \/ y.to \in s.packages /\ y.type \in {"contains", "dependency-of", "ownership-by-file-overlap"}
             \/ (IsCoordinates(y.to) \/ IsLocation(s, y.to)) /\ y.type \in {"contains", "evident-by", "described-by"}
      BY Kinds DEF Linked
    <3>2. IsCoordinates(y.to) \/ IsLocation(s, y.to) => y.to.kind # "package"
      BY FilesDiffer
    <3> QED
      BY <1>16, <2>3, <3>1, <3>2
  <2>5. y.type \in TypesTo(After(y.to))
    BY <1>16, <2>2, <2>4 DEF TypesTo
  <2> HIDE DEF After
  <2> QED
    BY <2>5, ReadBack
<1>17. \A x \in t.relationships : \E y \in s.relationships : Passes(format, y) /\ x = Now(y)
  <2> SUFFICES ASSUME NEW x \in t.relationships PROVE \E y \in s.relationships : Passes(format, y) /\ x = Now(y)
    OBVIOUS
  <2> HIDE DEF now, location
  <2>0. PICK r \in toSpdxRelationships(s), from \in N :
            \E to \in Elements(r.b) : \E type \in ReadAs(r, to) : from.id = r.a /\ x = Relationship(type, from, to)
    BY <1>10
  <2>9. PICK to \in Elements(r.b) : \E type \in ReadAs(r, to) : from.id = r.a /\ x = Relationship(type, from, to)
    BY <2>0
  <2>1. PICK type \in ReadAs(r, to) : from.id = r.a /\ x = Relationship(type, from, to)
    BY <2>9
  <2>2. PICK y \in s.relationships :
            /\ y.type \in DOMAIN Lookup /\ y.from.kind = "package"
            /\ r = Entry(toSPDXID(y.from), y.type, toSPDXID(y.to))
    BY DEF toSpdxRelationships, Entry
  <2>3. r.a = toSPDXID(y.from) /\ r.b = toSPDXID(y.to)
    BY <2>2 DEF Entry, SpdxRelationship
  <2>4. y.from \in s.packages /\ from \in Elements(toSPDXID(y.from))
    BY <1>9, <1>12, <2>1, <2>2, <2>3
  <2>5. from = now(y.from)
    BY <1>13, <2>4
  <2>6. y.to \in s.packages \/ y.to \in all
    BY <1>12, <1>15, <2>1, <2>3
  <2>7. to = After(y.to)
    BY <1>13, <1>14, <2>1, <2>3, <2>6
  <2> HIDE DEF After
  <2>8. type = y.type
    BY <1>16, <2>1, <2>2, <2>6, <2>7
  <2> QED
    BY <1>12, <2>1, <2>2, <2>5, <2>6, <2>7, <2>8
<1>18. \A y \in s.relationships : Passes(format, y) => Now(y) \in t.relationships
  <2> SUFFICES ASSUME NEW y \in s.relationships, Passes(format, y) PROVE Now(y) \in t.relationships
    OBVIOUS
  <2> DEFINE r == Entry(toSPDXID(y.from), y.type, toSPDXID(y.to))
  <2> HIDE DEF now, location
  <2>1. y.type \in DOMAIN Lookup /\ y.from.kind = "package" /\ y.from \in s.packages
        /\ (y.to \in s.packages \/ y.to \in all)
    BY <1>12
  <2>2. r \in toSpdxRelationships(s)
    BY <2>1 DEF toSpdxRelationships, Entry
  <2>3. r.a = toSPDXID(y.from) /\ r.b = toSPDXID(y.to)
    BY DEF Entry, SpdxRelationship
  <2>4. now(y.from) \in N /\ now(y.from).id = r.a
    BY <1>6, <2>1, <2>3
  <2>5. After(y.to) \in Elements(r.b)
    BY <1>6, <1>9, <1>12, <2>1, <2>3
  <2> HIDE DEF After
  <2>6. y.type \in ReadAs(r, After(y.to))
    BY <1>16, <2>1
  <2> HIDE DEF r
  <2> QED
    BY <1>11, <2>2, <2>4, <2>5, <2>6
<1>19. ASSUME NEW y \in s.relationships, Passes(format, y)
       PROVE  LET x == Now(y)
              IN /\ Same(x, y) /\ x.to.kind # "coordinates" /\ x = Relationship(x.type, x.from, x.to)
                 /\ x.from \in t.packages
                 /\ \/ x.to \in t.packages /\ x.type \in {"contains", "dependency-of", "ownership-by-file-overlap"}
                    \/ IsLocation(t, x.to) /\ x.type \in {"contains", "evident-by", "described-by"}
  <2>1. y.from \in s.packages /\ (y.to \in s.packages \/ y.to \in all)
    BY <1>12, <1>19
  <2>2. Now(y).type = y.type /\ Now(y).from = now(y.from) /\ Now(y).to = After(y.to)
        /\ Now(y) = Relationship(Now(y).type, Now(y).from, Now(y).to)
    BY DEF Relationship
  <2>3. After(y.to).of = y.to.of /\ After(y.to).kind # "coordinates"
    BY <1>6, <1>8, <2>1
  <2>4. now(y.from) \in t.packages /\ now(y.from).of = y.from.of
    BY <1>4, <1>6, <2>1
  <2>5. CASE y.to \in s.packages
    <3>1. y.to \in s.packages /\ y.type \in {"contains", "dependency-of", "ownership-by-file-overlap"}
      <4>1. IsCoordinates(y.to) \/ IsLocation(s, y.to) => y.to.kind # "package"
        BY FilesDiffer
      <4>2. y.to.kind = "package"
        BY <2>5, Kinds
      <4> QED
        BY <2>5, <4>1, <4>2 DEF Linked
    <3>2. After(y.to) \in t.packages
      BY <1>4, <1>6, <3>1
    <3> HIDE DEF now, After, Now
    <3> QED
      BY <2>2, <2>3, <2>4, <3>1, <3>2 DEF Same
  <2>6. CASE y.to \in all /\ y.to \notin s.packages
    <3>1. y.type \in {"contains", "evident-by", "described-by"}
      BY <2>6 DEF Linked
    <3>2. After(y.to) = FileLocation(y.to.of, "relative") /\ y.to.of \in FileNames
      BY <1>8, <2>6 DEF FileCoordinates
    <3>3. FileCoordinates(y.to.of, "relative") \in t.files
      <4> DEFINE f == known(y.to)
      <4>1. f \in F /\ f.location.of = y.to.of
        BY <1>5, <1>8, <2>6
      <4> HIDE DEF f
      <4> QED
        BY <1>4, <4>1
    <3>4. IsLocation(t, After(y.to))
      BY <3>2, <3>3 DEF IsLocation
    <3> HIDE DEF now, After, Now
    <3> QED
      BY <2>2, <2>3, <2>4, <3>1, <3>4 DEF Same
  <2> QED
    BY <2>1, <2>5, <2>6
<1> HIDE DEF Now, After
<1>20. KnownOnce(t)
  <2>1. \A p \in s.packages : IsPackage(now(p))
    BY <1>6 DEF IsPackage
  <2>2. \A p, q \in s.packages : now(p).of = now(q).of => now(p) = now(q)
    BY <1>6 DEF KnownOnce
  <2> HIDE DEF now
  <2> QED
    BY <1>4, <1>7, <2>1, <2>2 DEF KnownOnce
<1>21. Linked(t)
  <2>1. \A e \in t.files : IsCoordinates(e)
    <3> SUFFICES ASSUME NEW e \in t.files PROVE IsCoordinates(e)
      OBVIOUS
    <3>1. PICK f \in F : e = FileCoordinates(f.location.of, "relative")
      BY <1>4
    <3>2. PICK c \in all : f = known(c)
      BY <1>5
    <3>3. f.location.of = c.of /\ c.of \in FileNames
      BY <1>5, <1>8, <3>2 DEF FileCoordinates
    <3> QED
      BY <3>1, <3>3 DEF IsCoordinates
  <2>2. ASSUME NEW x \in t.relationships
        PROVE  /\ x = Relationship(x.type, x.from, x.to)
               /\ x.from \in t.packages
               /\ \/ x.to \in t.packages /\ x.type \in {"contains", "dependency-of", "ownership-by-file-overlap"}
                  \/ IsLocation(t, x.to) /\ x.type \in {"contains", "evident-by", "described-by"}
    BY <1>17, <1>19
  <2> QED
    BY <1>4, <2>1, <2>2 DEF Linked
<1>22. (\A p \in t.packages : \E q \in s.packages : p.of = q.of) /\ (\A q \in s.packages : \E p \in t.packages : p.of = q.of)
  BY <1>4, <1>6, <1>7
<1>23. Carried(format, s, t)
  BY <1>17, <1>18, <1>19, <1>20, <1>21, <1>22 DEF Carried
<1> QED
  BY <1>23 DEF t, output

-------------------------------------------------------------------------------
(* What the documents refer to.                                                *)

LEMMA SpdxResolves ==
    ASSUME NEW s, KnownOnce(s), Linked(s), NEW format \in Spdx,
           NEW r \in toSpdxDocument(s, format).relationships
    PROVE  LET d == toSpdxDocument(s, format)
           IN  {r.a, r.b} \subseteq
                   {DocumentID} \cup {e.id : e \in d.packages \cup d.files}
                       \cup {Ident(x.to) : x \in {x \in s.relationships : x.to.kind = "location"}}
<1> DEFINE d == toSpdxDocument(s, format)
           root == toRootPackage(s, format)
           entry(p) == [id |-> toSPDXID(p), of |-> p.of, purpose |-> ""]
           known(c) == [id |-> toSPDXID(c), of |-> c.of]
           P == {entry(p) : p \in s.packages}
           A == toSpdxRelationships(s)
           B == {SpdxRelationship(root.id, "CONTAINS", "", p.id) : p \in P}
           C == SpdxRelationship(DocumentID, "DESCRIBES", "", root.id)
           D == {Ident(x.to) : x \in {x \in s.relationships : x.to.kind = "location"}}
           ids == {e.id : e \in d.packages \cup d.files}
<1>1. /\ d.packages = P \cup {root} /\ d.relationships = A \cup B \cup {C}
      /\ d.files = {known(c) : c \in AllCoordinates(s)}
  BY DEF toSpdxDocument
<1>2. /\ \A p \in s.packages : entry(p).id = toSPDXID(p)
      /\ \A c \in AllCoordinates(s) : known(c).id = toSPDXID(c)
  OBVIOUS
<1> HIDE DEF d, root, entry, known
<1>3. /\ \A p \in s.packages : entry(p) \in d.packages
      /\ \A c \in AllCoordinates(s) : known(c) \in d.files
      /\ root \in d.packages
  BY <1>1
<1>4. /\ \A p \in s.packages : toSPDXID(p) \in ids
      /\ \A c \in AllCoordinates(s) : toSPDXID(c) \in ids
      /\ root.id \in ids
  BY <1>2, <1>3
<1>5. \A p \in P : p.id \in ids
  BY <1>1
<1> HIDE DEF P, ids
<1>6. CASE r \in A
  <2>1. PICK y \in s.relationships : r.a = toSPDXID(y.from) /\ r.b = toSPDXID(y.to) /\ y.from.kind = "package"
    BY <1>6 DEF toSpdxRelationships, SpdxRelationship
  <2>2. y.from \in s.packages
    BY <2>1, Kinds
  <2>3. y.to \in s.packages \/ y.to \in AllCoordinates(s) \/ y.to.kind = "location"
    BY Kinds, CoordinatesKnown
  <2>4. ASSUME y.to.kind = "location" PROVE r.b \in D
    <3>1. PICK f \in FileNames : y.to = FileLocation(f, "relative")
      BY <2>4, Kinds DEF IsLocation
    <3>2. toSPDXID(y.to) = Ident(y.to)
      BY <3>1, SpdxFile
    <3> QED
      BY <2>1, <2>4, <3>2
  <2> HIDE DEF D
  <2>5. r.a \in ids /\ r.b \in ids \cup D
    BY <1>4, <2>1, <2>2, <2>3, <2>4
  <2> QED
    BY <2>5 DEF D, ids, d
<1> HIDE DEF A, D
<1>7. CASE r \in B
  <2>1. PICK p \in P : r = SpdxRelationship(root.id, "CONTAINS", "", p.id)
    BY <1>7
  <2> HIDE DEF B
  <2>2. r.a \in ids /\ r.b \in ids
    BY <1>4, <1>5, <2>1 DEF SpdxRelationship
  <2> QED
    BY <2>2 DEF ids, d, D
<1>8. CASE r = C
  <2>1. r.a = DocumentID /\ r.b = root.id
    BY <1>8 DEF SpdxRelationship
  <2>2. r.a = DocumentID /\ r.b \in ids
    BY <1>4, <2>1
  <2> QED
    BY <2>2 DEF ids, d, D
<1> HIDE DEF B, C
<1>9. r \in A \/ r \in B \/ r = C
  BY <1>1 DEF d
<1> QED
  BY <1>6, <1>7, <1>8, <1>9

LEMMA BomResolves ==
    ASSUME NEW s, KnownOnce(s), Linked(s), NEW e \in toCycloneDX(s).dependencies
    PROVE  {e.ref, e.dependsOn} \subseteq {c.ref : c \in toCycloneDX(s).components}
<1> DEFINE d == toCycloneDX(s)
           entry(p) == [ref |-> DeriveBomRef(p), of |-> p.of]
<1>1. d.components = {entry(p) : p \in s.packages} /\ d.dependencies = toDependencies(s)
  BY DEF toCycloneDX
<1>2. \A p \in s.packages : entry(p).ref = DeriveBomRef(p)
  OBVIOUS
<1> HIDE DEF d, entry
<1>3. \A p \in s.packages : DeriveBomRef(p) \in {c.ref : c \in d.components}
  BY <1>1, <1>2
<1>4. e \in toDependencies(s)
  BY <1>1 DEF d
<1>5. PICK r \in s.relationships : /\ r.from.kind = "package" /\ r.to.kind = "package"
                                   /\ e.ref = DeriveBomRef(r.to) /\ e.dependsOn = DeriveBomRef(r.from)
  BY <1>4 DEF toDependencies
<1>6. r.from \in s.packages /\ r.to \in s.packages
  BY <1>5, Kinds
<1>7. {e.ref, e.dependsOn} \subseteq {c.ref : c \in d.components}
  BY <1>3, <1>5, <1>6
<1> QED
  BY <1>7 DEF d

LEMMA JsonResolves ==
    ASSUME NEW s, KnownOnce(s), Linked(s), NEW r \in toSyftJSON(s).relationships
    PROVE  LET d == toSyftJSON(s)
           IN  {r.parent, r.child} \subseteq {Ident(SourceElement)} \cup {e.id : e \in d.artifacts \cup d.files}
<1> DEFINE d == toSyftJSON(s)
           entry(p) == [id |-> Ident(p), of |-> p.of]
           known(c) == [id |-> Ident(c), location |-> c]
           ids == {e.id : e \in d.artifacts \cup d.files}
<1>1. /\ d.artifacts = {entry(p) : p \in s.packages} /\ d.files = {known(c) : c \in AllCoordinates(s)}
      /\ d.relationships = {[parent |-> Ident(x.from), child |-> Ident(x.to), type |-> x.type] : x \in s.relationships}
  BY DEF toSyftJSON
<1>2. (\A p \in s.packages : entry(p).id = Ident(p)) /\ (\A c \in AllCoordinates(s) : known(c).id = Ident(c))
  OBVIOUS
<1>3. PICK x \in s.relationships : r.parent = Ident(x.from) /\ r.child = Ident(x.to)
  BY <1>1
<1> HIDE DEF d, entry, known
<1>4. /\ \A p \in s.packages : entry(p) \in d.artifacts
      /\ \A c \in AllCoordinates(s) : known(c) \in d.files
  BY <1>1
<1>5. (\A p \in s.packages : Ident(p) \in ids) /\ (\A c \in AllCoordinates(s) : Ident(c) \in ids)
  BY <1>2, <1>4
<1> HIDE DEF ids
<1>6. Restored(x.to) \in s.packages \/ Restored(x.to) \in AllCoordinates(s)
  BY RestoredIs
<1>7. Ident(Restored(x.to)) = Ident(x.to)
  BY RestoredIs
<1>8. r.child \in ids
  BY <1>3, <1>5, <1>6, <1>7
<1>9. x.from \in s.packages \/ x.from = SourceElement
  BY DEF Linked
<1>10. r.parent \in {Ident(SourceElement)} \cup ids
  BY <1>3, <1>5, <1>9
<1> QED
  BY <1>8, <1>10 DEF ids, d

-------------------------------------------------------------------------------
(* What is left after any sequence of conversions.                             *)

LEMMA Counted ==
    ASSUME NEW S, NEW T, NEW f \in [S -> T], \A x, y \in S : f[x] = f[y] => x = y,
           \A y \in T : \E x \in S : f[x] = y, IsFiniteSet(S) \/ IsFiniteSet(T)
    PROVE  IsFiniteSet(S) /\ IsFiniteSet(T) /\ Cardinality(S) = Cardinality(T)
<1>1. f \in Injection(S, T)
  BY DEF Injection, IsInjective
<1>2. f \in Surjection(S, T)
  BY DEF Surjection
<1>3. CASE IsFiniteSet(S)
  BY <1>1, <1>2, <1>3, FS_Surjection
<1>4. CASE IsFiniteSet(T)
  BY <1>1, <1>2, <1>4, FS_Injection
<1> QED
  BY <1>3, <1>4

\* The packages of an SBOM are as many as what they are about.
LEMMA OneEach ==
    ASSUME NEW s, KnownOnce(s), IsFiniteSet(s.packages) \/ IsFiniteSet({p.of : p \in s.packages})
    PROVE  /\ IsFiniteSet(s.packages) /\ IsFiniteSet({p.of : p \in s.packages})
           /\ Cardinality(s.packages) = Cardinality({p.of : p \in s.packages})
           /\ Cardinality(s.packages) = Cardinality({p.id : p \in s.packages})
<1> DEFINE O == {p.of : p \in s.packages}
           I == {p.id : p \in s.packages}
           f == [p \in s.packages |-> p.of]
           g == [p \in s.packages |-> p.id]
<1>1. f \in [s.packages -> O] /\ g \in [s.packages -> I]
  OBVIOUS
<1>2. \A x, y \in s.packages : f[x] = f[y] => x = y
  BY DEF KnownOnce
<1>3. \A x, y \in s.packages : g[x] = g[y] => x = y
  <2>1. \A x \in s.packages : Named(x.id, x.of)
    BY DEF KnownOnce, IsPackage
  <2> QED
    BY <2>1, NamesLast DEF KnownOnce
<1>4. (\A y \in O : \E x \in s.packages : f[x] = y) /\ (\A y \in I : \E x \in s.packages : g[x] = y)
  OBVIOUS
<1>5. IsFiniteSet(s.packages) \/ IsFiniteSet(O)
  OBVIOUS
<1> HIDE DEF O, I, f, g
<1>6. IsFiniteSet(s.packages) /\ IsFiniteSet(O) /\ Cardinality(s.packages) = Cardinality(O)
  <2>1. CASE IsFiniteSet(s.packages)
    BY <1>1, <1>2, <1>4, <2>1, Counted
  <2>2. CASE IsFiniteSet(O)
    BY <1>1, <1>2, <1>4, <2>2, Counted
  <2> QED
    BY <1>5, <2>1, <2>2
<1>7. Cardinality(s.packages) = Cardinality(I)
  BY <1>1, <1>3, <1>4, <1>6, Counted
<1> QED
  BY <1>6, <1>7 DEF O, I

LEMMA PackagesStay ==
    ASSUME NEW s, NEW o, NEW w, KnownOnce(s), KnownOnce(o), IsFiniteSet(o.packages), LeftOf(s, o, w)
    PROVE  /\ Cardinality(s.packages) = Cardinality(o.packages)
           /\ {e.of : e \in s.packages} = {e.of : e \in o.packages}
           /\ Cardinality({e.id : e \in s.packages}) = Cardinality(o.packages)
<1> DEFINE S == {e.of : e \in s.packages}
           O == {e.of : e \in o.packages}
<1>1. S = O
  BY DEF LeftOf
<1>2. IsFiniteSet(O) /\ Cardinality(o.packages) = Cardinality(O)
  BY OneEach
<1>3. IsFiniteSet(S)
  BY <1>1, <1>2
<1>4. Cardinality(s.packages) = Cardinality(S) /\ Cardinality(s.packages) = Cardinality({e.id : e \in s.packages})
  BY <1>3, OneEach
<1> HIDE DEF S, O
<1>5. Cardinality(s.packages) = Cardinality(o.packages) /\ Cardinality({e.id : e \in s.packages}) = Cardinality(o.packages)
  BY <1>1, <1>2, <1>4
<1> QED
  BY <1>1, <1>5 DEF S, O

LEMMA RelationshipsStay ==
    ASSUME NEW s, NEW o, NEW w, LeftOf(s, o, w)
    PROVE  Facts(s.relationships) = Facts({r \in o.relationships : Survives(r, w)})
<1> DEFINE fact(r) == <<r.type, r.from.of, r.to.of>>
           L == {r \in o.relationships : Survives(r, w)}
<1>1. Facts(s.relationships) = {fact(r) : r \in s.relationships} /\ Facts(L) = {fact(r) : r \in L}
  BY DEF Facts
<1>2. \A x, r : Same(x, r) => fact(x) = fact(r)
  BY DEF Same
<1> HIDE DEF fact
<1>3. \A x \in s.relationships : \E r \in L : Same(x, r)
  BY DEF LeftOf
<1>4. \A r \in L : \E x \in s.relationships : Same(x, r)
  BY DEF LeftOf
<1> HIDE DEF L
<1>5. {fact(r) : r \in s.relationships} = {fact(r) : r \in L}
  BY <1>2, <1>3, <1>4
<1>6. Facts(s.relationships) = Facts(L)
  BY <1>1, <1>5
<1> QED
  BY <1>6 DEF L

LEMMA WrittenIs ==
    ASSUME NEW format \in Format, NEW s
    PROVE  /\ Written(format, s).format = format /\ Written(format, s) # NoDocument
           /\ format \in Spdx => Written(format, s) = toSpdxDocument(s, format)
           /\ format = "cyclonedx" => Written(format, s) = toCycloneDX(s)
           /\ format = "syft-json" => Written(format, s) = toSyftJSON(s)
           /\ format \in Spdx \/ format = "cyclonedx" \/ format = "syft-json"
           /\ "cyclonedx" \notin Spdx /\ "syft-json" \notin Spdx /\ "none" \notin Format
<1>1. format \in Spdx \/ format = "cyclonedx" \/ format = "syft-json"
  BY DEF Format, Spdx
<1>2. "cyclonedx" \notin Spdx /\ "syft-json" \notin Spdx /\ "none" \notin Format
  BY DEF Format, Spdx
<1>3. /\ format \in Spdx => Written(format, s) = toSpdxDocument(s, format)
      /\ format = "cyclonedx" => Written(format, s) = toCycloneDX(s)
      /\ format = "syft-json" => Written(format, s) = toSyftJSON(s)
  BY <1>2 DEF Written, Spdx
<1>4. Written(format, s).format = format
  <2>1. toSpdxDocument(s, format).format = format
    BY DEF toSpdxDocument
  <2>2. toCycloneDX(s).format = "cyclonedx"
    BY DEF toCycloneDX
  <2>3. toSyftJSON(s).format = "syft-json"
    BY DEF toSyftJSON
  <2> QED
    BY <1>1, <1>3, <2>1, <2>2, <2>3
<1>5. NoDocument.format = "none"
  BY DEF NoDocument
<1>6. Written(format, s) # NoDocument
  BY <1>2, <1>4, <1>5
<1> QED
  BY <1>1, <1>2, <1>3, <1>4, <1>6

LEMMA InvHolds ==
    ASSUME FormatsInv
    PROVE  RoundTripExact
<1>1. original \in Sboms /\ KnownOnce(sbom) /\ Linked(sbom)
  BY DEF FormatsInv
<1>2. Made(original)
  BY <1>1, SbomsAssumption
<1>3. KnownOnce(original) /\ IsFiniteSet(original.packages)
  BY <1>2, MadeHolds DEF Made
<1>4. CASE doc = NoDocument /\ path \in Seq(Format) /\ LeftOf(sbom, original, path)
  <2>1. PackagesKept
    BY <1>1, <1>3, <1>4, PackagesStay DEF PackagesKept
  <2>2. RelationshipsExact
    <3> DEFINE E == {r \in original.relationships :
                        ~LinkLost(r) /\ \A i \in DOMAIN path : Expresses(path[i], r)}
               L == {r \in original.relationships : Survives(r, path)}
    <3>1. \A r : LinkLost(r) <=> Lost(r, path)
      BY DEF LinkLost, Lost
    <3>2. E = L
      BY <3>1 DEF Survives
    <3>3. Facts(sbom.relationships) = Facts(L)
      BY <1>4, RelationshipsStay
    <3>4. Facts(sbom.relationships) = Facts(E)
      BY <3>2, <3>3
    <3> QED
      BY <3>4 DEF RelationshipsExact
  <2>3. ReferencesResolve
    <3>1. doc.format = "none"
      BY <1>4 DEF NoDocument
    <3> QED
      BY <3>1 DEF ReferencesResolve, Spdx
  <2> QED
    BY <2>1, <2>2, <2>3 DEF RoundTripExact
<1>5. ASSUME NEW w \in Seq(Format), NEW format \in Format, path = Append(w, format), doc = Written(format, sbom)
      PROVE  RoundTripExact
  <2>1. doc # NoDocument /\ doc.format = format
    BY <1>5, WrittenIs
  <2>2. PackagesKept /\ RelationshipsExact
    BY <2>1 DEF PackagesKept, RelationshipsExact
  <2>3. CASE format \in Spdx
    <3>1. doc = toSpdxDocument(sbom, format)
      BY <1>5, <2>3, WrittenIs
    <3>2. \A r \in doc.relationships : {r.a, r.b} \subseteq
               {DocumentID} \cup {e.id : e \in doc.packages \cup doc.files}
                   \cup {Ident(r2.to) : r2 \in {r2 \in sbom.relationships : r2.to.kind = "location"}}
      BY <1>1, <2>3, <3>1, SpdxResolves
    <3>3. doc.format \in Spdx /\ doc.format # "cyclonedx" /\ doc.format # "syft-json"
      BY <2>1, <2>3, WrittenIs
    <3>4. ReferencesResolve
      BY <3>2, <3>3 DEF ReferencesResolve
    <3> QED
      BY <2>2, <3>4 DEF RoundTripExact
  <2>4. CASE format = "cyclonedx"
    <3>1. doc = toCycloneDX(sbom)
      BY <1>5, <2>4, WrittenIs
    <3>2. \A e \in doc.dependencies : {e.ref, e.dependsOn} \subseteq {c.ref : c \in doc.components}
      BY <1>1, <3>1, BomResolves
    <3>3. doc.format \notin Spdx /\ doc.format = "cyclonedx" /\ doc.format # "syft-json"
      BY <2>1, <2>4, WrittenIs
    <3>4. ReferencesResolve
      BY <3>2, <3>3 DEF ReferencesResolve
    <3> QED
      BY <2>2, <3>4 DEF RoundTripExact
  <2>5. CASE format = "syft-json"
    <3>1. doc = toSyftJSON(sbom)
      BY <1>5, <2>5, WrittenIs
    <3>2. \A r \in doc.relationships : {r.parent, r.child} \subseteq
               {Ident(SourceElement)} \cup {e.id : e \in doc.artifacts \cup doc.files}
      BY <1>1, <3>1, JsonResolves
    <3>3. doc.format \notin Spdx /\ doc.format # "cyclonedx" /\ doc.format = "syft-json"
      BY <2>1, <2>5, WrittenIs
    <3>4. ReferencesResolve
      BY <3>2, <3>3 DEF ReferencesResolve
    <3> QED
      BY <2>2, <3>4 DEF RoundTripExact
  <2> QED
    BY <2>3, <2>4, <2>5, WrittenIs
<1> QED
  BY <1>4, <1>5 DEF FormatsInv

LEMMA InitHolds ==
    ASSUME FormatsInit
    PROVE  FormatsInv
<1>1. original \in Sboms /\ sbom = original /\ doc = NoDocument /\ path = <<>>
  BY DEF FormatsInit
<1>2. KnownOnce(original) /\ Linked(original)
  BY <1>1, SbomsAssumption, MadeHolds
<1>3. path \in Seq(Format)
  BY <1>1
<1>4. \A r : Survives(r, path)
  BY <1>1 DEF Survives, Lost
<1>5. \A x \in original.relationships : x.to.kind # "location"
  <2> SUFFICES ASSUME NEW x \in original.relationships PROVE x.to.kind # "location"
    OBVIOUS
  <2>1. Made(original)
    BY <1>1, SbomsAssumption
  <2>2. CASE x.to \in original.packages
    BY <1>2, <2>2 DEF KnownOnce, IsPackage, Pkg
  <2>3. CASE x.to \in Coordinates
    BY <2>3 DEF Coordinates, FileCoordinates
  <2> QED
    BY <2>1, <2>2, <2>3 DEF Made
<1>6. ~FromSpdx(path)
  BY <1>1 DEF FromSpdx
<1>7. LeftOf(original, original, path)
  BY <1>4, <1>5, <1>6 DEF LeftOf, Same
<1> QED
  BY <1>1, <1>2, <1>3, <1>7 DEF FormatsInv

LEMMA EncodeHolds ==
    ASSUME FormatsInv, NEW format \in Format, Encode(format)
    PROVE  FormatsInv'
<1>1. doc = NoDocument /\ doc' = Written(format, sbom) /\ path' = Append(path, format)
      /\ original' = original /\ sbom' = sbom
  BY DEF Encode, Written
<1>2. path \in Seq(Format) /\ LeftOf(sbom, original, path)
  BY <1>1, WrittenIs DEF FormatsInv
<1>3. original \in Sboms /\ KnownOnce(sbom) /\ Linked(sbom)
  BY DEF FormatsInv
<1>4. original' \in Sboms /\ KnownOnce(sbom') /\ Linked(sbom')
  BY <1>1, <1>3
<1>5. LeftOf(sbom', original', path) /\ path' = Append(path, format) /\ doc' = Written(format, sbom')
  BY <1>1, <1>2
<1>6. \E w \in Seq(Format), f \in Format : path' = Append(w, f) /\ LeftOf(sbom', original', w) /\ doc' = Written(f, sbom')
  BY <1>2, <1>5
<1> QED
  BY <1>4, <1>6 DEF FormatsInv

LEMMA DecodeHolds ==
    ASSUME FormatsInv, Decode
    PROVE  FormatsInv'
<1>1. /\ doc # NoDocument /\ doc' = NoDocument /\ original' = original /\ path' = path
      /\ sbom' = CASE doc.format \in Spdx -> fromSpdxDocument(doc)
                 [] doc.format = "cyclonedx" -> fromCycloneDX(doc)
                 [] OTHER -> fromSyftJSON(doc)
  BY DEF Decode
<1>2. original \in Sboms /\ KnownOnce(sbom) /\ Linked(sbom)
  BY DEF FormatsInv
<1>3. PICK w \in Seq(Format), format \in Format :
          path = Append(w, format) /\ LeftOf(sbom, original, w) /\ doc = Written(format, sbom)
  BY <1>1 DEF FormatsInv
<1>4. doc.format = format
  BY <1>3, WrittenIs
<1>5. Carried(format, sbom, sbom')
  <2>1. CASE format \in Spdx
    <3>1. sbom' = fromSpdxDocument(toSpdxDocument(sbom, format))
      BY <1>1, <1>3, <1>4, <2>1, WrittenIs
    <3> QED
      BY <1>2, <2>1, <3>1, SpdxCarries
  <2>2. CASE format = "cyclonedx"
    <3>1. sbom' = fromCycloneDX(toCycloneDX(sbom))
      BY <1>1, <1>3, <1>4, <2>2, WrittenIs
    <3> QED
      BY <1>2, <2>2, <3>1, BomCarries
  <2>3. CASE format = "syft-json"
    <3>1. sbom' = fromSyftJSON(toSyftJSON(sbom))
      BY <1>1, <1>3, <1>4, <2>3, WrittenIs
    <3> QED
      BY <1>2, <2>3, <3>1, JsonCarries
  <2> QED
    BY <2>1, <2>2, <2>3, WrittenIs
<1>6. KnownOnce(original) /\ Linked(original)
  BY <1>2, SbomsAssumption, MadeHolds
<1>7. LeftOf(sbom', original, path)
  BY <1>2, <1>3, <1>5, <1>6, KeptOneMore
<1>8. path \in Seq(Format)
  BY <1>3, AppendProperties
<1>9. KnownOnce(sbom') /\ Linked(sbom')
  BY <1>5 DEF Carried
<1>10. original' \in Sboms /\ doc' = NoDocument /\ path' \in Seq(Format) /\ LeftOf(sbom', original', path')
  BY <1>1, <1>2, <1>7, <1>8
<1> QED
  BY <1>9, <1>10 DEF FormatsInv

\* An SBOM read back has the packages of the original, each once, and exactly those of its
\* relationships that every format it went through can express, and no document on the way
\* refers to what it does not have: whatever packages, files and relationships the SBOM
\* has, and however often it is written and read.
THEOREM RoundTripIsExact == FormatsSpec => []RoundTripExact
<1>1. FormatsInit => FormatsInv
  BY InitHolds
<1>2. FormatsInv /\ [FormatsNext \/ FormatsDone]_formatVars => FormatsInv'
  <2> SUFFICES ASSUME FormatsInv, [FormatsNext \/ FormatsDone]_formatVars
               PROVE  FormatsInv'
    OBVIOUS
  <2>1. ASSUME NEW format \in Format, Encode(format) PROVE FormatsInv'
    BY <2>1, EncodeHolds
  <2>2. CASE Decode
    BY <2>2, DecodeHolds
  <2>3. CASE UNCHANGED formatVars
    BY <2>3 DEF formatVars, FormatsInv
  <2>4. FormatsDone => UNCHANGED formatVars
    BY DEF FormatsDone
  <2> QED
    BY <2>1, <2>2, <2>3, <2>4 DEF FormatsNext
<1>3. FormatsInv => RoundTripExact
  BY InvHolds
<1> QED
  BY <1>1, <1>2, <1>3, PTL DEF FormatsSpec
================================================================================
