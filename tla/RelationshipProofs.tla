--------------------------- MODULE RelationshipProofs ---------------------------
(* Proofs about relationships.  The index, which keeps three lists and two maps   *)
(* of every node in agreement by hand, implements a set of relationships: for any *)
(* number of nodes, types and relationships and any history of edits and queries. *)
(* The loops of Remove and Replace and the sorts of the queries are folds,        *)
(* followed with Induction.  Those that a cataloger returns are between packages  *)
(* that it returns, for any files, parsers and processors.                        *)
EXTENDS RelationshipIndex, GenericCataloger, Induction, FiniteSetTheorems, SequenceTheorems

--------------------------------------------------------------------------------
(* The index of relationships.                                                *)

(* Lists of relationships.                                                     *)

\* The relationships of E in some order, each once.
Lists(s, E) == s \in Seq(Edge) /\ ToSet(s) = E /\ Len(s) = Cardinality(E)

\* A list has as many elements as places when no place repeats another.
LEMMA Distinct ==
    ASSUME NEW T, NEW s \in Seq(T)
    PROVE  /\ IsFiniteSet(ToSet(s))
           /\ Cardinality(ToSet(s)) = Len(s)
                  <=> \A i, j \in 1 .. Len(s) : s[i] = s[j] => i = j
<1>1. Len(s) \in Nat /\ s \in [1 .. Len(s) -> T] /\ DOMAIN s = 1 .. Len(s)
  BY LenProperties
<1>2. ToSet(s) = {s[i] : i \in 1 .. Len(s)}
  BY <1>1 DEF ToSet
<1>3. s \in Surjection(1 .. Len(s), ToSet(s))
  BY <1>1, <1>2 DEF Surjection
<1>4. IsFiniteSet(1 .. Len(s)) /\ Cardinality(1 .. Len(s)) = Len(s)
  BY <1>1, FS_Interval
<1>5. /\ IsFiniteSet(ToSet(s))
      /\ Cardinality(ToSet(s)) = Cardinality(1 .. Len(s)) <=> s \in Injection(1 .. Len(s), ToSet(s))
  BY <1>3, <1>4, FS_Surjection
<1>6. s \in [1 .. Len(s) -> ToSet(s)]
  BY <1>3 DEF Surjection
<1>7. s \in Injection(1 .. Len(s), ToSet(s)) <=> \A i, j \in 1 .. Len(s) : s[i] = s[j] => i = j
  BY <1>1, <1>6 DEF Injection, IsInjective
<1> QED
  BY <1>4, <1>5, <1>7

\* What a sequence holds once one more element is appended.
LEMMA AppendHolds ==
    ASSUME NEW T, NEW s \in Seq(T), NEW y \in T
    PROVE  /\ Append(s, y) \in Seq(T) /\ Len(Append(s, y)) = Len(s) + 1
           /\ ToSet(Append(s, y)) = ToSet(s) \cup {y}
<1>1. /\ DOMAIN s = 1 .. Len(s) /\ Len(s) \in Nat /\ DOMAIN Append(s, y) = 1 .. Len(s) + 1
      /\ \A i \in 1 .. Len(s) : Append(s, y)[i] = s[i]
      /\ Append(s, y)[Len(s) + 1] = y
  BY LenProperties, AppendProperties
<1>2. 1 .. Len(s) + 1 = (1 .. Len(s)) \cup {Len(s) + 1}
  BY <1>1
<1>3. ToSet(Append(s, y)) = ToSet(s) \cup {y}
  BY <1>1, <1>2 DEF ToSet
<1> QED
  BY <1>3, AppendProperties

\* An empty list, and a list with one relationship more.
LEMMA ListsGrow ==
    /\ Lists(<<>>, {})
    /\ \A E, s, e : Lists(s, E) /\ e \in Edge /\ e \notin E => Lists(Append(s, e), E \cup {e})
<1>1. Lists(<<>>, {})
  <2>1. ToSet(<<>>) = {}
    BY DEF ToSet
  <2> QED
    BY <2>1, FS_EmptySet DEF Lists
<1>2. ASSUME NEW E, NEW s, NEW e, Lists(s, E), e \in Edge, e \notin E
      PROVE  Lists(Append(s, e), E \cup {e})
  <2>1. s \in Seq(Edge) /\ ToSet(s) = E /\ Len(s) = Cardinality(E)
    BY <1>2 DEF Lists
  <2>2. IsFiniteSet(E)
    BY <2>1, Distinct
  <2>3. Cardinality(E \cup {e}) = Cardinality(E) + 1
    BY <1>2, <2>2, FS_AddElement
  <2>4. /\ Append(s, e) \in Seq(Edge) /\ Len(Append(s, e)) = Len(s) + 1
        /\ ToSet(Append(s, e)) = ToSet(s) \cup {e}
    BY <1>2, <2>1, AppendHolds
  <2> QED
    BY <2>1, <2>3, <2>4 DEF Lists
<1> QED
  BY <1>1, <1>2

\* The loop that filters a list leaves the relationships that are not gone.
LEMMA Remains ==
    ASSUME NEW s, NEW E, NEW gone, Lists(s, E)
    PROVE  Lists(without(s, gone), E \ gone)
<1> DEFINE n == Len(s)
           X == Seq(Edge)
           op(kept, r) == IF r \in gone THEN kept ELSE Append(kept, r)
           step == [ix \in (1 .. n) \X X |-> op(ix[2], s[ix[1]])]
           it(f) == f = [u \in SUBSET DOMAIN s |->
                            IF u = {} THEN <<>> ELSE LET x == Max(u) IN op(f[u \ {x}], s[x])]
           g == CHOOSE f : it(f)
<1>0. s \in X /\ ToSet(s) = E /\ n = Cardinality(E)
  BY DEF Lists
<1>1. n \in Nat /\ DOMAIN s = 1 .. n /\ \A i \in 1 .. n : s[i] \in Edge
  BY <1>0, LenProperties, ElementOfSeq
<1>2. <<>> \in X
  OBVIOUS
<1>3. \A t \in X, e \in Edge : op(t, e) \in X
  OBVIOUS
<1>4. without(s, gone) = g[DOMAIN s]
  BY DEF without, FoldLeft, MapThenFoldSet
<1>5. \A i, j \in 1 .. n : s[i] = s[j] => i = j
  BY <1>0, Distinct
<1>6. \A t, F, e : Lists(t, F) /\ e \in Edge /\ e \notin F =>
          Lists(op(t, e), F \cup (IF e \in gone THEN {} ELSE {e}))
  BY ListsGrow
<1> HIDE DEF op, X
<1>7. step \in [(1 .. n) \X X -> X]
  BY <1>1, <1>3
<1>8. PICK f : Iterates(f, n, X, <<>>, step)
  BY <1>1, <1>2, <1>7, Iterate
<1>9. it(f)
  <2>1. ASSUME NEW u \in SUBSET (1 .. n), u # {}
        PROVE  step[<<Max(u), f[u \ {Max(u)}]>>] = op(f[u \ {Max(u)}], s[Max(u)])
    <3>1. Max(u) \in u
      BY <1>1, <2>1, MaxIn
    <3>2. Max(u) \in 1 .. n /\ f[u \ {Max(u)}] \in X
      BY <1>8, <3>1 DEF Iterates
    <3> QED
      BY <3>2
  <2> HIDE DEF step
  <2> QED
    BY <1>1, <1>8, <2>1 DEF Iterates
<1>10. it(g)
  BY <1>9
<1> HIDE DEF g
<1>11. g[{}] = <<>>
  BY <1>1, <1>10
<1>12. \A i \in 0 .. n - 1 : g[1 .. i + 1] = op(g[1 .. i], s[i + 1])
  <2> SUFFICES ASSUME NEW i \in 0 .. n - 1 PROVE g[1 .. i + 1] = op(g[1 .. i], s[i + 1])
    OBVIOUS
  <2>1. /\ 1 .. i + 1 # {} /\ 1 .. i + 1 \in SUBSET DOMAIN s
        /\ Max(1 .. i + 1) = i + 1 /\ (1 .. i + 1) \ {i + 1} = 1 .. i
    BY <1>1, Positions
  <2> HIDE DEF n
  <2> QED
    BY <1>10, <2>1
<1> DEFINE left(i) == {s[j] : j \in 1 .. i} \ gone
           S == {i \in 0 .. n : Lists(g[1 .. i], left(i))}
<1>13. 0 \in S
  <2>1. left(0) = {}
    BY Positions
  <2> HIDE DEF left
  <2> QED
    BY <1>1, <1>11, <2>1, Positions, ListsGrow
<1>14. \A i \in 0 .. n - 1 : i \in S => i + 1 \in S
  <2> SUFFICES ASSUME NEW i \in 0 .. n - 1, i \in S PROVE i + 1 \in S
    OBVIOUS
  <2>1. i \in Nat /\ i + 1 \in 1 .. n /\ i + 1 \in 0 .. n /\ s[i + 1] \in Edge /\ 1 .. i \subseteq 1 .. n
    BY <1>1
  <2>2. 1 .. i + 1 = (1 .. i) \cup {i + 1} /\ i + 1 \notin 1 .. i
    BY <2>1
  <2>3. s[i + 1] \notin left(i)
    BY <1>5, <2>1, <2>2
  <2>4. left(i + 1) = left(i) \cup (IF s[i + 1] \in gone THEN {} ELSE {s[i + 1]})
    BY <2>2
  <2> HIDE DEF left
  <2>5. Lists(op(g[1 .. i], s[i + 1]), left(i) \cup (IF s[i + 1] \in gone THEN {} ELSE {s[i + 1]}))
    BY <1>6, <2>1, <2>3
  <2> QED
    BY <1>12, <2>1, <2>4, <2>5
<1> HIDE DEF S
<1>15. n \in S
  <2>1. \A i \in 0 .. n : i \in S
    BY <1>1, <1>13, <1>14, InductNat
  <2> QED
    BY <1>1, <2>1
<1>16. Lists(without(s, gone), left(n))
  BY <1>1, <1>4, <1>15 DEF S
<1>17. left(n) = E \ gone
  BY <1>0, <1>1 DEF ToSet
<1> HIDE DEF left
<1> QED
  BY <1>16, <1>17

\* Inserting a relationship into a sequence adds just that one.
LEMMA Inserted ==
    ASSUME NEW t \in Seq(Edge), NEW e \in Edge
    PROVE  /\ insert(t, e) \in Seq(Edge) /\ Len(insert(t, e)) = Len(t) + 1
           /\ ToSet(insert(t, e)) = ToSet(t) \cup {e}
<1> DEFINE k == Cardinality({j \in DOMAIN t : ~Precedes(e, t[j])})
           r == InsertAt(t, k + 1, e)
<1>1. Len(t) \in Nat /\ DOMAIN t = 1 .. Len(t) /\ \A i \in 1 .. Len(t) : t[i] \in Edge
  BY LenProperties, ElementOfSeq
<1>2. k \in 0 .. Len(t)
  <2>1. IsFiniteSet(DOMAIN t) /\ Cardinality(DOMAIN t) = Len(t)
    <3>1. IsFiniteSet(1 .. Len(t)) /\ Cardinality(1 .. Len(t)) = IF 1 > Len(t) THEN 0 ELSE Len(t) - 1 + 1
      BY <1>1, FS_Interval
    <3>2. (IF 1 > Len(t) THEN 0 ELSE Len(t) - 1 + 1) = Len(t)
      BY <1>1
    <3> QED
      BY <1>1, <3>1, <3>2
  <2>2. {j \in DOMAIN t : ~Precedes(e, t[j])} \in SUBSET DOMAIN t
    OBVIOUS
  <2>3. IsFiniteSet({j \in DOMAIN t : ~Precedes(e, t[j])}) /\ k <= Len(t)
    BY <2>1, <2>2, FS_Subset
  <2>4. k \in Nat
    BY <2>3, FS_CardinalityType
  <2> QED
    BY <1>1, <2>3, <2>4
<1> HIDE DEF k
<1>3. insert(t, e) = r
  BY DEF insert, k
<1>4. /\ r \in Seq(Edge) /\ Len(r) = Len(t) + 1
      /\ \A i \in 1 .. k : r[i] = t[i]
      /\ r[k + 1] = e
      /\ \A i \in k + 1 .. Len(t) : r[i + 1] = t[i]
  <2> DEFINE p == k + 1
  <2>1. p \in 1 .. Len(t) + 1 /\ p - 1 = k
    BY <1>1, <1>2
  <2> HIDE DEF p
  <2>2. /\ InsertAt(t, p, e) \in Seq(Edge) /\ Len(InsertAt(t, p, e)) = Len(t) + 1
        /\ \A i \in 1 .. p - 1 : InsertAt(t, p, e)[i] = t[i]
        /\ InsertAt(t, p, e)[p] = e
        /\ \A i \in p .. Len(t) : InsertAt(t, p, e)[i + 1] = t[i]
    BY <2>1, InsertedAt
  <2> QED
    BY <2>1, <2>2 DEF p
<1> HIDE DEF r
<1>5. DOMAIN r = 1 .. Len(t) + 1
  BY <1>4, LenProperties
<1>6. ToSet(r) \subseteq ToSet(t) \cup {e}
  <2> SUFFICES ASSUME NEW i \in 1 .. Len(t) + 1 PROVE r[i] \in ToSet(t) \cup {e}
    BY <1>5 DEF ToSet
  <2>1. CASE i \in 1 .. k
    <3>1. i \in 1 .. Len(t)
      BY <1>1, <1>2, <2>1
    <3> QED
      BY <1>1, <1>4, <2>1, <3>1 DEF ToSet
  <2>2. CASE i = k + 1
    BY <1>4, <2>2
  <2>3. CASE i \in k + 2 .. Len(t) + 1
    <3>1. i - 1 \in k + 1 .. Len(t) /\ i - 1 \in 1 .. Len(t) /\ (i - 1) + 1 = i
      BY <1>1, <1>2, <2>3
    <3>2. r[i] = t[i - 1]
      BY <1>4, <3>1
    <3> QED
      BY <1>1, <3>1, <3>2 DEF ToSet
  <2> QED
    BY <1>1, <1>2, <2>1, <2>2, <2>3
<1>7. ToSet(t) \cup {e} \subseteq ToSet(r)
  <2>1. e \in ToSet(r)
    BY <1>1, <1>2, <1>4, <1>5 DEF ToSet
  <2>2. ASSUME NEW i \in 1 .. Len(t) PROVE t[i] \in ToSet(r)
    <3>1. CASE i \in 1 .. k
      <4>1. i \in 1 .. Len(t) + 1
        BY <1>1
      <4> QED
        BY <1>4, <1>5, <3>1, <4>1 DEF ToSet
    <3>2. CASE i \in k + 1 .. Len(t)
      <4>1. i + 1 \in 1 .. Len(t) + 1
        BY <1>1
      <4> QED
        BY <1>4, <1>5, <3>2, <4>1 DEF ToSet
    <3> QED
      BY <1>1, <1>2, <3>1, <3>2
  <2> QED
    BY <1>1, <2>1, <2>2 DEF ToSet
<1> QED
  BY <1>3, <1>4, <1>6, <1>7

\* Sorting a sequence neither loses a relationship nor repeats one.
LEMMA SortKeeps ==
    ASSUME NEW s \in Seq(Edge)
    PROVE  Sorted(s) \in Seq(Edge) /\ Len(Sorted(s)) = Len(s) /\ ToSet(Sorted(s)) = ToSet(s)
<1> DEFINE n == Len(s)
           X == Seq(Edge)
           step == [ix \in (1 .. n) \X X |-> insert(ix[2], s[ix[1]])]
           it(f) == f = [u \in SUBSET DOMAIN s |->
                            IF u = {} THEN <<>> ELSE LET x == Max(u) IN insert(f[u \ {x}], s[x])]
           g == CHOOSE f : it(f)
<1>1. n \in Nat /\ DOMAIN s = 1 .. n /\ \A i \in 1 .. n : s[i] \in Edge
  BY LenProperties, ElementOfSeq
<1>2. <<>> \in X
  OBVIOUS
<1>3. \A t \in X, e \in Edge : insert(t, e) \in X
  BY Inserted
<1>4. Sorted(s) = g[DOMAIN s]
  BY DEF Sorted, FoldLeft, MapThenFoldSet
<1> HIDE DEF X
<1>7. step \in [(1 .. n) \X X -> X]
  BY <1>1, <1>3
<1>8. PICK f : Iterates(f, n, X, <<>>, step)
  BY <1>1, <1>2, <1>7, Iterate
<1>9. it(f)
  <2>1. ASSUME NEW u \in SUBSET (1 .. n), u # {}
        PROVE  step[<<Max(u), f[u \ {Max(u)}]>>] = insert(f[u \ {Max(u)}], s[Max(u)])
    <3>1. Max(u) \in u
      BY <1>1, <2>1, MaxIn
    <3>2. Max(u) \in 1 .. n /\ f[u \ {Max(u)}] \in X
      BY <1>8, <3>1 DEF Iterates
    <3> QED
      BY <3>2
  <2> HIDE DEF step
  <2> QED
    BY <1>1, <1>8, <2>1 DEF Iterates
<1>10. it(g)
  BY <1>9
<1> HIDE DEF g
<1>11. g[{}] = <<>>
  BY <1>1, <1>10
<1>12. \A i \in 0 .. n - 1 : g[1 .. i + 1] = insert(g[1 .. i], s[i + 1])
  <2> SUFFICES ASSUME NEW i \in 0 .. n - 1 PROVE g[1 .. i + 1] = insert(g[1 .. i], s[i + 1])
    OBVIOUS
  <2>1. /\ 1 .. i + 1 # {} /\ 1 .. i + 1 \in SUBSET DOMAIN s
        /\ Max(1 .. i + 1) = i + 1 /\ (1 .. i + 1) \ {i + 1} = 1 .. i
    BY <1>1, Positions
  <2> HIDE DEF n
  <2> QED
    BY <1>10, <2>1
<1> DEFINE S == {i \in 0 .. n : /\ g[1 .. i] \in Seq(Edge) /\ Len(g[1 .. i]) = i
                                /\ ToSet(g[1 .. i]) = {s[j] : j \in 1 .. i}}
<1>13. 0 \in S
  <2>1. {s[j] : j \in 1 .. 0} = {} /\ g[1 .. 0] = <<>>
    BY <1>11, Positions
  <2>2. <<>> \in Seq(Edge) /\ Len(<<>>) = 0 /\ ToSet(<<>>) = {}
    BY DEF ToSet
  <2>3. 0 \in 0 .. n
    BY <1>1
  <2> HIDE DEF n
  <2> QED
    BY <2>1, <2>2, <2>3
<1>14. \A i \in 0 .. n - 1 : i \in S => i + 1 \in S
  <2> SUFFICES ASSUME NEW i \in 0 .. n - 1, i \in S PROVE i + 1 \in S
    OBVIOUS
  <2>1. i \in Nat /\ i + 1 \in 1 .. n /\ i + 1 \in 0 .. n /\ s[i + 1] \in Edge
    BY <1>1
  <2>2. {s[j] : j \in 1 .. i + 1} = {s[j] : j \in 1 .. i} \cup {s[i + 1]}
    <3>1. 1 .. i + 1 = (1 .. i) \cup {i + 1}
      BY <2>1
    <3> QED
      BY <3>1
  <2>3. g[1 .. i + 1] = insert(g[1 .. i], s[i + 1])
    BY <1>12
  <2>4. /\ g[1 .. i] \in Seq(Edge) /\ Len(g[1 .. i]) = i
        /\ ToSet(g[1 .. i]) = {s[j] : j \in 1 .. i}
    OBVIOUS
  <2>5. /\ g[1 .. i + 1] \in Seq(Edge) /\ Len(g[1 .. i + 1]) = i + 1
        /\ ToSet(g[1 .. i + 1]) = {s[j] : j \in 1 .. i} \cup {s[i + 1]}
    BY <2>1, <2>3, <2>4, Inserted
  <2> QED
    BY <2>1, <2>2, <2>5
<1> HIDE DEF S
<1>15. n \in S
  <2>1. \A i \in 0 .. n : i \in S
    BY <1>1, <1>13, <1>14, InductNat
  <2> QED
    BY <1>1, <2>1
<1>16. /\ g[1 .. n] \in Seq(Edge) /\ Len(g[1 .. n]) = n
       /\ ToSet(g[1 .. n]) = {s[j] : j \in 1 .. n}
  BY <1>15 DEF S
<1>17. ToSet(s) = {s[j] : j \in 1 .. n}
  BY <1>1 DEF ToSet
<1> QED
  BY <1>1, <1>4, <1>16, <1>17

\* A sort of a list of relationships lists the same ones.
LEMMA SortLists ==
    ASSUME NEW s, NEW E, Lists(s, E)
    PROVE  Lists(Sorted(s), E)
BY SortKeeps DEF Lists

-------------------------------------------------------------------------------
(* An index of a set of relationships.                                         *)

Mapping == [allRelated : Seq(Edge), cap : Nat, typeMap : SUBSET (RelType \X Node)]
Indexes == [all : Seq(Edge), fromID : [Node -> Mapping], toID : [Node -> Mapping]]

Out(E, n) == {e \in E : e.from = n}
In(E, n) == {e \in E : e.to = n}
Heads(E, n) == {<<e.type, e.to>> : e \in Out(E, n)}
Tails(E, n) == {<<e.type, e.from>> : e \in In(E, n)}

Fits(m) == Len(m.allRelated) <= m.cap

\* Both maps of every node agree with E, but for the slices from the nodes of Q.
IndexOf(i, E, Q) ==
    /\ E \subseteq Edge
    /\ i \in Indexes
    /\ Lists(i.all, E)
    /\ \A n \in Node :
        /\ Lists(i.toID[n].allRelated, In(E, n))
        /\ i.toID[n].typeMap = Tails(E, n)
        /\ i.fromID[n].typeMap = Heads(E, n)
        /\ Fits(i.toID[n]) /\ Fits(i.fromID[n])
        /\ n \notin Q => Lists(i.fromID[n].allRelated, Out(E, n))

\* A relationship is its type and its ends.
LEMMA EdgeIs ==
    /\ \A e \in Edge : /\ e.type \in RelType /\ e.from \in Node /\ e.to \in Node
                       /\ e = [type |-> e.type, from |-> e.from, to |-> e.to]
    /\ \A e, f \in Edge : e.type = f.type /\ e.from = f.from /\ e.to = f.to => e = f
BY DEF Edge

\* mappedRelationships.add: one relationship more, in the slice and in the map.
LEMMA MappedAdd ==
    ASSUME NEW m \in Mapping, NEW id \in Node, NEW e \in Edge, Fits(m)
    PROVE  /\ mappedAdd(m, id, e) \in Mapping /\ Fits(mappedAdd(m, id, e))
           /\ mappedAdd(m, id, e).allRelated = Append(m.allRelated, e)
           /\ mappedAdd(m, id, e).typeMap = m.typeMap \cup {<<e.type, id>>}
<1> DEFINE a == Append(m.allRelated, e)
           c == IF Len(m.allRelated) < m.cap THEN m.cap ELSE IF m.cap = 0 THEN 1 ELSE 2 * m.cap
           t == m.typeMap \cup {<<e.type, id>>}
<1>1. m.allRelated \in Seq(Edge) /\ m.cap \in Nat /\ m.typeMap \in SUBSET (RelType \X Node)
  BY DEF Mapping
<1>2. Len(m.allRelated) \in Nat /\ Len(m.allRelated) <= m.cap
  BY <1>1, LenProperties DEF Fits
<1>3. a \in Seq(Edge) /\ Len(a) = Len(m.allRelated) + 1
  BY <1>1, AppendProperties
<1>4. c \in Nat /\ Len(m.allRelated) + 1 <= c
  BY <1>1, <1>2
<1>5. t \in SUBSET (RelType \X Node)
  BY <1>1, EdgeIs
<1>6. mappedAdd(m, id, e) = [allRelated |-> a, cap |-> c, typeMap |-> t]
  BY DEF mappedAdd
<1> HIDE DEF a, c, t
<1>7. /\ [allRelated |-> a, cap |-> c, typeMap |-> t] \in Mapping
      /\ [allRelated |-> a, cap |-> c, typeMap |-> t].allRelated = a
      /\ [allRelated |-> a, cap |-> c, typeMap |-> t].cap = c
      /\ [allRelated |-> a, cap |-> c, typeMap |-> t].typeMap = t
  BY <1>3, <1>4, <1>5 DEF Mapping
<1>8. Fits([allRelated |-> a, cap |-> c, typeMap |-> t])
  BY <1>3, <1>4, <1>7 DEF Fits
<1> QED
  BY <1>6, <1>7, <1>8 DEF a, t

\* Contains answers for the relationships that are held.
LEMMA Contained ==
    ASSUME NEW i, NEW E, NEW Q, IndexOf(i, E, Q), NEW e \in Edge
    PROVE  ContainsEdge(i, e) <=> e \in E
<1>1. E \subseteq Edge /\ e.from \in Node /\ i.fromID[e.from].typeMap = Heads(E, e.from)
  BY EdgeIs DEF IndexOf
<1>2. <<e.type, e.to>> \in Heads(E, e.from) <=> e \in E
  <2>1. ASSUME <<e.type, e.to>> \in Heads(E, e.from) PROVE e \in E
    <3>1. PICK f \in E : f.from = e.from /\ <<e.type, e.to>> = <<f.type, f.to>>
      BY <2>1 DEF Heads, Out
    <3>2. f.type = e.type /\ f.to = e.to /\ f \in Edge
      BY <1>1, <3>1
    <3> QED
      BY <3>1, <3>2, EdgeIs
  <2>2. e \in E => <<e.type, e.to>> \in Heads(E, e.from)
    BY DEF Heads, Out
  <2> QED
    BY <2>1, <2>2
<1> QED
  BY <1>1, <1>2 DEF ContainsEdge

\* What Add makes of an index, in its parts.
LEMMA AddParts ==
    ASSUME NEW i \in Indexes, NEW e \in Edge, ~ContainsEdge(i, e),
           Fits(i.fromID[e.from]), Fits(i.toID[e.to])
    PROVE  /\ addTo(i, e) \in Indexes
           /\ addTo(i, e).all = Append(i.all, e)
           /\ \A n \in Node :
                 /\ addTo(i, e).fromID[n] = IF n = e.from THEN mappedAdd(i.fromID[n], e.to, e) ELSE i.fromID[n]
                 /\ addTo(i, e).toID[n] = IF n = e.to THEN mappedAdd(i.toID[n], e.from, e) ELSE i.toID[n]
<1> DEFINE a == Append(i.all, e)
           f == [i.fromID EXCEPT ![e.from] = mappedAdd(@, e.to, e)]
           t == [i.toID EXCEPT ![e.to] = mappedAdd(@, e.from, e)]
<1>1. /\ i.all \in Seq(Edge) /\ i.fromID \in [Node -> Mapping] /\ i.toID \in [Node -> Mapping]
      /\ e.from \in Node /\ e.to \in Node
  BY EdgeIs DEF Indexes
<1>2. a \in Seq(Edge)
  BY <1>1
<1>3. mappedAdd(i.fromID[e.from], e.to, e) \in Mapping /\ mappedAdd(i.toID[e.to], e.from, e) \in Mapping
  BY <1>1, MappedAdd
<1>4. f \in [Node -> Mapping] /\ t \in [Node -> Mapping]
  BY <1>1, <1>3
<1>5. \A n \in Node : /\ f[n] = IF n = e.from THEN mappedAdd(i.fromID[n], e.to, e) ELSE i.fromID[n]
                      /\ t[n] = IF n = e.to THEN mappedAdd(i.toID[n], e.from, e) ELSE i.toID[n]
  BY <1>1
<1>6. addTo(i, e) = [all |-> a, fromID |-> f, toID |-> t]
  BY DEF addTo
<1> HIDE DEF a, f, t
<1>7. /\ [all |-> a, fromID |-> f, toID |-> t] \in Indexes
      /\ [all |-> a, fromID |-> f, toID |-> t].all = a
      /\ [all |-> a, fromID |-> f, toID |-> t].fromID = f
      /\ [all |-> a, fromID |-> f, toID |-> t].toID = t
  BY <1>2, <1>4 DEF Indexes
<1> QED
  BY <1>5, <1>6, <1>7 DEF a

\* Add, on an index of E, makes an index of E with the relationship.
LEMMA Added ==
    ASSUME NEW i, NEW E, IndexOf(i, E, {}), NEW e \in Edge
    PROVE  IndexOf(addTo(i, e), E \cup {e}, {})
<1>1. CASE e \in E
  <2>1. addTo(i, e) = i
    BY <1>1, Contained DEF addTo
  <2>2. E \cup {e} = E
    BY <1>1
  <2> QED
    BY <2>1, <2>2
<1>2. CASE e \notin E
  <2> DEFINE j == addTo(i, e)
             F == E \cup {e}
  <2>1. /\ E \subseteq Edge /\ i \in Indexes /\ Lists(i.all, E)
        /\ \A n \in Node : /\ Lists(i.toID[n].allRelated, In(E, n)) /\ i.toID[n].typeMap = Tails(E, n)
                           /\ Lists(i.fromID[n].allRelated, Out(E, n)) /\ i.fromID[n].typeMap = Heads(E, n)
                           /\ Fits(i.toID[n]) /\ Fits(i.fromID[n])
                           /\ i.toID[n] \in Mapping /\ i.fromID[n] \in Mapping
    BY DEF IndexOf, Indexes
  <2>2. e.from \in Node /\ e.to \in Node
    BY EdgeIs
  <2>3. ~ContainsEdge(i, e)
    BY <1>2, Contained
  <2>4. /\ j \in Indexes /\ j.all = Append(i.all, e)
        /\ \A n \in Node :
              /\ j.fromID[n] = IF n = e.from THEN mappedAdd(i.fromID[n], e.to, e) ELSE i.fromID[n]
              /\ j.toID[n] = IF n = e.to THEN mappedAdd(i.toID[n], e.from, e) ELSE i.toID[n]
    BY <2>1, <2>2, <2>3, AddParts
  <2> HIDE DEF j
  <2>5. Lists(j.all, F)
    BY <1>2, <2>1, <2>4, ListsGrow
  <2>6. ASSUME NEW n \in Node
        PROVE  /\ Lists(j.toID[n].allRelated, In(F, n)) /\ j.toID[n].typeMap = Tails(F, n)
               /\ Fits(j.toID[n])
    <3>1. CASE n = e.to
      <4>1. e \notin In(E, n) /\ In(F, n) = In(E, n) \cup {e}
        BY <1>2, <3>1 DEF In
      <4> DEFINE m == i.toID[n]
      <4>2. /\ m \in Mapping /\ Fits(m) /\ e.from \in Node /\ j.toID[n] = mappedAdd(m, e.from, e)
            /\ Lists(m.allRelated, In(E, n)) /\ m.typeMap = Tails(E, n)
        BY <2>1, <2>2, <2>4, <3>1
      <4>3. Tails(F, n) = Tails(E, n) \cup {<<e.type, e.from>>}
        BY <4>1 DEF Tails
      <4> HIDE DEF m, F
      <4>4. /\ j.toID[n].allRelated = Append(m.allRelated, e) /\ Fits(j.toID[n])
            /\ j.toID[n].typeMap = Tails(E, n) \cup {<<e.type, e.from>>}
        BY <4>2, MappedAdd
      <4>5. Lists(Append(m.allRelated, e), In(E, n) \cup {e})
        BY <4>1, <4>2, ListsGrow
      <4> QED
        BY <4>1, <4>3, <4>4, <4>5
    <3>2. CASE n # e.to
      <4>1. In(F, n) = In(E, n)
        BY <3>2 DEF In
      <4>2. Tails(F, n) = Tails(E, n)
        BY <4>1 DEF Tails
      <4> QED
        BY <2>1, <2>4, <3>2, <4>1, <4>2
    <3> QED
      BY <3>1, <3>2
  <2>7. ASSUME NEW n \in Node
        PROVE  /\ Lists(j.fromID[n].allRelated, Out(F, n)) /\ j.fromID[n].typeMap = Heads(F, n)
               /\ Fits(j.fromID[n])
    <3>1. CASE n = e.from
      <4>1. e \notin Out(E, n) /\ Out(F, n) = Out(E, n) \cup {e}
        BY <1>2, <3>1 DEF Out
      <4> DEFINE m == i.fromID[n]
      <4>2. /\ m \in Mapping /\ Fits(m) /\ e.to \in Node /\ j.fromID[n] = mappedAdd(m, e.to, e)
            /\ Lists(m.allRelated, Out(E, n)) /\ m.typeMap = Heads(E, n)
        BY <2>1, <2>2, <2>4, <3>1
      <4>3. Heads(F, n) = Heads(E, n) \cup {<<e.type, e.to>>}
        BY <4>1 DEF Heads
      <4> HIDE DEF m, F
      <4>4. /\ j.fromID[n].allRelated = Append(m.allRelated, e) /\ Fits(j.fromID[n])
            /\ j.fromID[n].typeMap = Heads(E, n) \cup {<<e.type, e.to>>}
        BY <4>2, MappedAdd
      <4>5. Lists(Append(m.allRelated, e), Out(E, n) \cup {e})
        BY <4>1, <4>2, ListsGrow
      <4> QED
        BY <4>1, <4>3, <4>4, <4>5
    <3>2. CASE n # e.from
      <4>1. Out(F, n) = Out(E, n)
        BY <3>2 DEF Out
      <4>2. Heads(F, n) = Heads(E, n)
        BY <4>1 DEF Heads
      <4> QED
        BY <2>1, <2>4, <3>2, <4>1, <4>2
    <3> QED
      BY <3>1, <3>2
  <2>8. F \subseteq Edge
    BY <2>1
  <2> HIDE DEF F
  <2>9. IndexOf(j, F, {})
    BY <2>4, <2>5, <2>6, <2>7, <2>8 DEF IndexOf
  <2> QED
    BY <2>9 DEF j, F
<1> QED
  BY <1>1, <1>2

\* mappedRelationships.remove, for every relationship of gone that a node holds.
LEMMA MappedRemove ==
    ASSUME NEW m \in Mapping, NEW id, NEW gone, NEW F, Fits(m), Lists(m.allRelated, F)
    PROVE  /\ mappedRemove(m, id, gone) \in Mapping /\ Fits(mappedRemove(m, id, gone))
           /\ Lists(mappedRemove(m, id, gone).allRelated, F \ gone)
           /\ mappedRemove(m, id, gone).typeMap = m.typeMap \ {<<e.type, id>> : e \in gone}
<1> DEFINE a == without(m.allRelated, gone)
           t == m.typeMap \ {<<e.type, id>> : e \in gone}
           r == [allRelated |-> a, cap |-> m.cap, typeMap |-> t]
<1>1. m.allRelated \in Seq(Edge) /\ m.cap \in Nat /\ m.typeMap \in SUBSET (RelType \X Node)
  BY DEF Mapping
<1>2. Lists(a, F \ gone)
  BY Remains
<1>3. Len(a) <= Len(m.allRelated) /\ Len(a) \in Nat
  <2>1. IsFiniteSet(F) /\ Len(m.allRelated) = Cardinality(F)
    BY Distinct DEF Lists
  <2>2. F \ gone \in SUBSET F
    OBVIOUS
  <2>3. Cardinality(F \ gone) <= Cardinality(F)
    BY <2>1, <2>2, FS_Subset
  <2>4. Len(a) = Cardinality(F \ gone) /\ a \in Seq(Edge)
    BY <1>2 DEF Lists
  <2> QED
    BY <2>1, <2>3, <2>4, LenProperties
<1>4. mappedRemove(m, id, gone) = r
  BY DEF mappedRemove
<1>5. a \in Seq(Edge) /\ t \in SUBSET (RelType \X Node)
  BY <1>1, <1>2 DEF Lists
<1> HIDE DEF a, t
<1>6. r \in Mapping /\ r.allRelated = a /\ r.cap = m.cap /\ r.typeMap = t
  BY <1>1, <1>5 DEF Mapping
<1>7. Fits(r)
  <2>1. Len(m.allRelated) <= m.cap /\ Len(m.allRelated) \in Nat
    BY <1>1, LenProperties DEF Fits
  <2> QED
    BY <1>1, <1>3, <1>6, <2>1 DEF Fits
<1> HIDE DEF r
<1> QED
  BY <1>2, <1>4, <1>6, <1>7 DEF t

\* Remove, on an index of E, makes an index of what is left of E without the node.
LEMMA Removed ==
    ASSUME NEW i, NEW E, IndexOf(i, E, {}), NEW id \in Node
    PROVE  IndexOf(removeFrom(i, id), Graph!Without(E, id), {})
<1> DEFINE F == Graph!Without(E, id)
           j == removeFrom(i, id)
           outgoing(n) == {e \in ToSet(i.fromID[id].allRelated) : e.to = n}
           incoming(n) == {e \in ToSet(i.toID[id].allRelated) : e.from = n}
           a == without(i.all, {e \in Edge : id \in {e.from, e.to}})
           f == [n \in Node |-> IF n = id THEN Unmapped ELSE mappedRemove(i.fromID[n], id, incoming(n))]
           t == [n \in Node |-> IF n = id THEN Unmapped ELSE mappedRemove(i.toID[n], id, outgoing(n))]
<1>1. /\ E \subseteq Edge /\ i \in Indexes /\ Lists(i.all, E)
      /\ \A n \in Node : /\ Lists(i.toID[n].allRelated, In(E, n)) /\ i.toID[n].typeMap = Tails(E, n)
                         /\ Lists(i.fromID[n].allRelated, Out(E, n)) /\ i.fromID[n].typeMap = Heads(E, n)
                         /\ Fits(i.toID[n]) /\ Fits(i.fromID[n])
                         /\ i.toID[n] \in Mapping /\ i.fromID[n] \in Mapping
  BY DEF IndexOf, Indexes
<1>2. /\ ToSet(i.fromID[id].allRelated) = Out(E, id)
      /\ ToSet(i.toID[id].allRelated) = In(E, id)
  BY <1>1 DEF Lists
<1>3. \A n \in Node : /\ outgoing(n) = {e \in Out(E, id) : e.to = n}
                      /\ incoming(n) = {e \in In(E, id) : e.from = n}
  BY <1>2
<1>4. j = [all |-> a, fromID |-> f, toID |-> t]
  BY DEF removeFrom
<1>5. F = {e \in E : id \notin {e.from, e.to}} /\ F \subseteq Edge
  BY <1>1 DEF Graph!Without
<1> HIDE DEF F
<1>6. Lists(a, F)
  <2>1. Lists(a, E \ {e \in Edge : id \in {e.from, e.to}})
    BY <1>1, Remains
  <2>2. E \ {e \in Edge : id \in {e.from, e.to}} = F
    BY <1>1, <1>5
  <2> QED
    BY <2>1, <2>2
<1>7. /\ Unmapped \in Mapping /\ Fits(Unmapped)
      /\ Unmapped.allRelated = <<>> /\ Unmapped.typeMap = {}
  BY DEF Unmapped, Mapping, Fits
<1>8. In(F, id) = {} /\ Out(F, id) = {} /\ Tails(F, id) = {} /\ Heads(F, id) = {}
  BY <1>5 DEF In, Out, Tails, Heads
<1>9. \A n \in Node :
         /\ f[n] = IF n = id THEN Unmapped ELSE mappedRemove(i.fromID[n], id, incoming(n))
         /\ t[n] = IF n = id THEN Unmapped ELSE mappedRemove(i.toID[n], id, outgoing(n))
  OBVIOUS
<1>10. DOMAIN f = Node /\ DOMAIN t = Node /\ f = [n \in Node |-> f[n]] /\ t = [n \in Node |-> t[n]]
  OBVIOUS
<1> HIDE DEF a, f, t, outgoing, incoming
<1>11. ASSUME NEW n \in Node
       PROVE  /\ t[n] \in Mapping /\ Fits(t[n])
              /\ Lists(t[n].allRelated, In(F, n)) /\ t[n].typeMap = Tails(F, n)
  <2>1. CASE n = id
    BY <1>7, <1>8, <1>9, <2>1, ListsGrow
  <2>2. CASE n # id
    <3> DEFINE m == i.toID[n]
    <3>1. /\ m \in Mapping /\ Fits(m) /\ Lists(m.allRelated, In(E, n)) /\ m.typeMap = Tails(E, n)
          /\ t[n] = mappedRemove(m, id, outgoing(n))
      BY <1>1, <1>9, <2>2
    <3> HIDE DEF m
    <3>2. /\ t[n] \in Mapping /\ Fits(t[n])
          /\ Lists(t[n].allRelated, In(E, n) \ outgoing(n))
          /\ t[n].typeMap = Tails(E, n) \ {<<e.type, id>> : e \in outgoing(n)}
      <4> DEFINE gone == outgoing(n)
                 r == mappedRemove(m, id, gone)
      <4> HIDE DEF gone
      <4>1. /\ r \in Mapping /\ Fits(r) /\ Lists(r.allRelated, In(E, n) \ gone)
            /\ r.typeMap = m.typeMap \ {<<e.type, id>> : e \in gone}
        BY <3>1, MappedRemove
      <4>2. t[n] = r
        BY <3>1 DEF gone
      <4> HIDE DEF r
      <4> QED
        BY <3>1, <4>1, <4>2 DEF gone
    <3>3. In(E, n) \ outgoing(n) = In(F, n)
      BY <1>3, <1>5, <2>2 DEF In, Out
    <3>4. Tails(E, n) \ {<<e.type, id>> : e \in outgoing(n)} = Tails(F, n)
      <4>1. outgoing(n) = {e \in E : e.from = id /\ e.to = n}
        BY <1>3 DEF Out
      <4>2. Tails(F, n) = {<<e.type, e.from>> : e \in {d \in E : d.to = n /\ d.from # id}}
        <5>1. In(F, n) = {d \in E : d.to = n /\ d.from # id}
          BY <1>5, <2>2 DEF In
        <5> QED
          BY <5>1 DEF Tails
      <4> QED
        BY <4>1, <4>2 DEF Tails, In
    <3> QED
      BY <3>2, <3>3, <3>4
  <2> QED
    BY <2>1, <2>2
<1>12. ASSUME NEW n \in Node
       PROVE  /\ f[n] \in Mapping /\ Fits(f[n])
              /\ Lists(f[n].allRelated, Out(F, n)) /\ f[n].typeMap = Heads(F, n)
  <2>1. CASE n = id
    BY <1>7, <1>8, <1>9, <2>1, ListsGrow
  <2>2. CASE n # id
    <3> DEFINE m == i.fromID[n]
    <3>1. /\ m \in Mapping /\ Fits(m) /\ Lists(m.allRelated, Out(E, n)) /\ m.typeMap = Heads(E, n)
          /\ f[n] = mappedRemove(m, id, incoming(n))
      BY <1>1, <1>9, <2>2
    <3> HIDE DEF m
    <3>2. /\ f[n] \in Mapping /\ Fits(f[n])
          /\ Lists(f[n].allRelated, Out(E, n) \ incoming(n))
          /\ f[n].typeMap = Heads(E, n) \ {<<e.type, id>> : e \in incoming(n)}
      <4> DEFINE gone == incoming(n)
                 r == mappedRemove(m, id, gone)
      <4> HIDE DEF gone
      <4>1. /\ r \in Mapping /\ Fits(r) /\ Lists(r.allRelated, Out(E, n) \ gone)
            /\ r.typeMap = m.typeMap \ {<<e.type, id>> : e \in gone}
        BY <3>1, MappedRemove
      <4>2. f[n] = r
        BY <3>1 DEF gone
      <4> HIDE DEF r
      <4> QED
        BY <3>1, <4>1, <4>2 DEF gone
    <3>3. Out(E, n) \ incoming(n) = Out(F, n)
      BY <1>3, <1>5, <2>2 DEF In, Out
    <3>4. Heads(E, n) \ {<<e.type, id>> : e \in incoming(n)} = Heads(F, n)
      <4>1. incoming(n) = {e \in E : e.to = id /\ e.from = n}
        BY <1>3 DEF In
      <4>2. Heads(F, n) = {<<e.type, e.to>> : e \in {d \in E : d.from = n /\ d.to # id}}
        <5>1. Out(F, n) = {d \in E : d.from = n /\ d.to # id}
          BY <1>5, <2>2 DEF Out
        <5> QED
          BY <5>1 DEF Heads
      <4> QED
        BY <4>1, <4>2 DEF Heads, Out
    <3> QED
      BY <3>2, <3>3, <3>4
  <2> QED
    BY <2>1, <2>2
<1>13. f \in [Node -> Mapping] /\ t \in [Node -> Mapping] /\ a \in Seq(Edge)
  BY <1>6, <1>10, <1>11, <1>12 DEF Lists
<1>14. j \in Indexes /\ j.all = a /\ j.fromID = f /\ j.toID = t
  BY <1>4, <1>13 DEF Indexes
<1> HIDE DEF j
<1>15. IndexOf(j, F, {})
  BY <1>5, <1>6, <1>11, <1>12, <1>14 DEF IndexOf
<1> QED
  BY <1>15 DEF j, F

\* The edge with another node at one end.
LEMMA RenamedAt ==
    ASSUME NEW e \in Edge, NEW end, NEW new \in Node
    PROVE  /\ renamedAt(e, end, new) \in Edge
           /\ renamedAt(e, end, new) =
                 IF end = "from" THEN [type |-> e.type, from |-> new, to |-> e.to]
                 ELSE [type |-> e.type, from |-> e.from, to |-> new]
BY DEF renamedAt, Edge

\* Adding to what need not be an index yet gives its type back.
LEMMA AddType ==
    ASSUME NEW i \in Indexes, NEW e \in Edge
    PROVE  addTo(i, e) \in Indexes
<1>1. ASSUME NEW m \in Mapping, NEW id \in Node PROVE mappedAdd(m, id, e) \in Mapping
  <2>1. m.allRelated \in Seq(Edge) /\ m.cap \in Nat /\ m.typeMap \in SUBSET (RelType \X Node)
    BY DEF Mapping
  <2>2. Append(m.allRelated, e) \in Seq(Edge) /\ m.typeMap \cup {<<e.type, id>>} \in SUBSET (RelType \X Node)
    BY <2>1, EdgeIs
  <2>3. (IF Len(m.allRelated) < m.cap THEN m.cap ELSE IF m.cap = 0 THEN 1 ELSE 2 * m.cap) \in Nat
    BY <2>1
  <2> QED
    BY <2>2, <2>3 DEF mappedAdd, Mapping
<1>2. /\ i.all \in Seq(Edge) /\ i.fromID \in [Node -> Mapping] /\ i.toID \in [Node -> Mapping]
      /\ e.from \in Node /\ e.to \in Node
  BY EdgeIs DEF Indexes
<1>3. /\ Append(i.all, e) \in Seq(Edge)
      /\ [i.fromID EXCEPT ![e.from] = mappedAdd(@, e.to, e)] \in [Node -> Mapping]
      /\ [i.toID EXCEPT ![e.to] = mappedAdd(@, e.from, e)] \in [Node -> Mapping]
  BY <1>1, <1>2
<1>4. [all |-> Append(i.all, e),
       fromID |-> [i.fromID EXCEPT ![e.from] = mappedAdd(@, e.to, e)],
       toID |-> [i.toID EXCEPT ![e.to] = mappedAdd(@, e.from, e)]] \in Indexes
  BY <1>3 DEF Indexes
<1> QED
  BY <1>4 DEF addTo

\* A loop of Replace adds the renamed edge of every edge it walks over: the node at
\* the far end of an edge that is held is never unknown.
LEMMA MovesAll ==
    ASSUME NEW i, NEW E, IndexOf(i, E, {}), NEW list \in Seq(Edge), ToSet(list) \subseteq E,
           NEW end, NEW new \in Node
    PROVE  IndexOf(moveAll(i, list, end, new), E \cup {renamedAt(e, end, new) : e \in ToSet(list)}, {})
<1> DEFINE n == Len(list)
           X == Indexes
           op(j, e) == IF unknown(j, e, end) THEN j ELSE addTo(j, renamedAt(e, end, new))
           step == [ix \in (1 .. n) \X X |-> op(ix[2], list[ix[1]])]
           it(f) == f = [u \in SUBSET DOMAIN list |->
                            IF u = {} THEN i ELSE LET x == Max(u) IN op(f[u \ {x}], list[x])]
           g == CHOOSE f : it(f)
<1>1. n \in Nat /\ DOMAIN list = 1 .. n /\ \A k \in 1 .. n : list[k] \in Edge
  BY LenProperties, ElementOfSeq
<1>2. i \in X
  BY DEF IndexOf
<1>3. \A j \in X, e \in Edge : op(j, e) \in X
  BY RenamedAt, AddType
<1>4. moveAll(i, list, end, new) = g[DOMAIN list]
  BY DEF moveAll, FoldLeft, MapThenFoldSet
<1>5. \A k \in 1 .. n : list[k] \in E
  BY <1>1 DEF ToSet
<1>6. ASSUME NEW j, NEW F, IndexOf(j, F, {}), NEW e \in F
      PROVE  IndexOf(op(j, e), F \cup {renamedAt(e, end, new)}, {})
  <2>1. F \subseteq Edge /\ e \in Edge /\ e.from \in Node /\ e.to \in Node
    BY <1>6, EdgeIs DEF IndexOf
  <2>2. ~unknown(j, e, end)
    <3>1. e \in In(F, e.to) /\ e \in Out(F, e.from)
      BY DEF In, Out
    <3>2. ToSet(j.toID[e.to].allRelated) # {} /\ ToSet(j.fromID[e.from].allRelated) # {}
      BY <1>6, <2>1, <3>1 DEF IndexOf, Lists
    <3>3. ToSet(<<>>) = {}
      BY DEF ToSet
    <3> QED
      BY <3>2, <3>3 DEF unknown
  <2>3. IndexOf(addTo(j, renamedAt(e, end, new)), F \cup {renamedAt(e, end, new)}, {})
    BY <1>6, <2>1, RenamedAt, Added
  <2> QED
    BY <2>2, <2>3
<1> HIDE DEF op, X
<1>7. step \in [(1 .. n) \X X -> X]
  BY <1>1, <1>3
<1>8. PICK f : Iterates(f, n, X, i, step)
  BY <1>1, <1>2, <1>7, Iterate
<1>9. it(f)
  <2>1. ASSUME NEW u \in SUBSET (1 .. n), u # {}
        PROVE  step[<<Max(u), f[u \ {Max(u)}]>>] = op(f[u \ {Max(u)}], list[Max(u)])
    <3>1. Max(u) \in u
      BY <1>1, <2>1, MaxIn
    <3>2. Max(u) \in 1 .. n /\ f[u \ {Max(u)}] \in X
      BY <1>8, <3>1 DEF Iterates
    <3> QED
      BY <3>2
  <2> HIDE DEF step
  <2> QED
    BY <1>1, <1>8, <2>1 DEF Iterates
<1>10. it(g)
  BY <1>9
<1> HIDE DEF g
<1>11. g[{}] = i
  BY <1>1, <1>10
<1>12. \A k \in 0 .. n - 1 : g[1 .. k + 1] = op(g[1 .. k], list[k + 1])
  <2> SUFFICES ASSUME NEW k \in 0 .. n - 1 PROVE g[1 .. k + 1] = op(g[1 .. k], list[k + 1])
    OBVIOUS
  <2>1. /\ 1 .. k + 1 # {} /\ 1 .. k + 1 \in SUBSET DOMAIN list
        /\ Max(1 .. k + 1) = k + 1 /\ (1 .. k + 1) \ {k + 1} = 1 .. k
    BY <1>1, Positions
  <2> HIDE DEF n
  <2> QED
    BY <1>10, <2>1
<1> DEFINE left(k) == E \cup {renamedAt(list[j], end, new) : j \in 1 .. k}
           S == {k \in 0 .. n : IndexOf(g[1 .. k], left(k), {})}
<1>13. 0 \in S
  <2>1. left(0) = E
    BY Positions
  <2> HIDE DEF left
  <2> QED
    BY <1>1, <1>11, <2>1, Positions
<1>14. \A k \in 0 .. n - 1 : k \in S => k + 1 \in S
  <2> SUFFICES ASSUME NEW k \in 0 .. n - 1, k \in S PROVE k + 1 \in S
    OBVIOUS
  <2>1. k \in Nat /\ k + 1 \in 1 .. n /\ k + 1 \in 0 .. n
    BY <1>1
  <2>2. left(k + 1) = left(k) \cup {renamedAt(list[k + 1], end, new)}
    <3>1. 1 .. k + 1 = (1 .. k) \cup {k + 1}
      BY <2>1
    <3> QED
      BY <3>1
  <2>3. list[k + 1] \in left(k)
    BY <1>5, <2>1
  <2> HIDE DEF left
  <2>4. IndexOf(op(g[1 .. k], list[k + 1]), left(k) \cup {renamedAt(list[k + 1], end, new)}, {})
    BY <1>6, <2>3
  <2> QED
    BY <1>12, <2>1, <2>2, <2>4
<1> HIDE DEF S
<1>15. n \in S
  <2>1. \A k \in 0 .. n : k \in S
    BY <1>1, <1>13, <1>14, InductNat
  <2> QED
    BY <1>1, <2>1
<1>16. IndexOf(moveAll(i, list, end, new), left(n), {})
  BY <1>1, <1>4, <1>15 DEF S
<1>17. left(n) = E \cup {renamedAt(e, end, new) : e \in ToSet(list)}
  BY <1>1 DEF ToSet
<1> HIDE DEF left
<1> QED
  BY <1>16, <1>17

\* Replace, which adds edge by edge and then removes, renames the node in every edge.
LEMMA Replaced ==
    ASSUME NEW i, NEW E, IndexOf(i, E, {}), NEW og \in Node, NEW new \in Node, og # new
    PROVE  IndexOf(replaceIn(i, og, new), Graph!Renamed(E, og, new), {})
<1> DEFINE moved == moveAll(i, i.fromID[og].allRelated, "from", new)
           both == moveAll(moved, moved.toID[og].allRelated, "to", new)
           E1 == E \cup {renamedAt(e, "from", new) : e \in Out(E, og)}
           E2 == E1 \cup {renamedAt(e, "to", new) : e \in In(E1, og)}
<1>1. /\ E \subseteq Edge /\ i.fromID[og].allRelated \in Seq(Edge)
      /\ ToSet(i.fromID[og].allRelated) = Out(E, og) /\ Out(E, og) \subseteq E
  BY DEF IndexOf, Lists, Out
<1>2. IndexOf(moved, E1, {})
  BY <1>1, MovesAll
<1> HIDE DEF moved
<1>3. /\ E1 \subseteq Edge /\ moved.toID[og].allRelated \in Seq(Edge)
      /\ ToSet(moved.toID[og].allRelated) = In(E1, og) /\ In(E1, og) \subseteq E1
  BY <1>2 DEF IndexOf, Lists, In
<1>4. IndexOf(both, E2, {})
  <2> HIDE DEF E1
  <2> QED
    BY <1>2, <1>3, MovesAll
<1>5. IndexOf(removeFrom(both, og), Graph!Without(E2, og), {})
  <2> HIDE DEF E2, both
  <2> QED
    BY <1>4, Removed
<1>6. replaceIn(i, og, new) = removeFrom(both, og)
  BY DEF replaceIn, moved
<1>7. Graph!Without(E2, og) = Graph!Renamed(E, og, new)
  <2> DEFINE R(n) == IF n = og THEN new ELSE n
             of(e) == [type |-> e.type, from |-> R(e.from), to |-> R(e.to)]
  <2>1. Graph!Renamed(E, og, new) = {of(e) : e \in E}
    BY DEF Graph!Renamed
  <2>2. Graph!Without(E2, og) = {e \in E2 : e.from # og /\ e.to # og}
    BY DEF Graph!Without
  <2>3. \A e \in Edge : /\ renamedAt(e, "from", new) = [type |-> e.type, from |-> new, to |-> e.to]
                        /\ renamedAt(e, "to", new) = [type |-> e.type, from |-> e.from, to |-> new]
                        /\ renamedAt(e, "from", new) \in Edge /\ renamedAt(e, "to", new) \in Edge
    BY RenamedAt
  <2>4. ASSUME NEW x \in E2, x.from # og, x.to # og PROVE x \in {of(e) : e \in E}
    <3>1. ASSUME NEW y \in E1, y.from # og
          PROVE  \E e \in E : y = [type |-> e.type, from |-> R(e.from), to |-> e.to]
      <4>1. CASE y \in E
        BY <1>1, <3>1, <4>1, EdgeIs
      <4>2. CASE y \in {renamedAt(e, "from", new) : e \in Out(E, og)}
        <5>1. PICK e \in Out(E, og) : y = renamedAt(e, "from", new)
          BY <4>2
        <5>2. e \in E /\ e \in Edge /\ e.from = og
          BY <1>1, <5>1 DEF Out
        <5> QED
          BY <2>3, <5>1, <5>2
      <4> QED
        BY <4>1, <4>2
    <3>2. CASE x \in E1
      <4>1. PICK e \in E : x = [type |-> e.type, from |-> R(e.from), to |-> e.to]
        BY <2>4, <3>1, <3>2
      <4>2. x.to = e.to /\ R(e.to) = e.to
        BY <2>4, <4>1
      <4>3. x = of(e)
        BY <4>1, <4>2
      <4> QED
        BY <4>3
    <3>3. CASE x \in {renamedAt(e, "to", new) : e \in In(E1, og)}
      <4>1. PICK y \in In(E1, og) : x = renamedAt(y, "to", new)
        BY <3>3
      <4>2. y \in E1 /\ y \in Edge /\ y.to = og
        BY <1>3, <4>1 DEF In
      <4>3. x = [type |-> y.type, from |-> y.from, to |-> new]
        BY <2>3, <4>1, <4>2
      <4>4. PICK e \in E : y = [type |-> e.type, from |-> R(e.from), to |-> e.to]
        BY <2>4, <3>1, <4>2, <4>3
      <4>5. y.type = e.type /\ y.from = R(e.from) /\ e.to = og /\ R(e.to) = new
        BY <4>2, <4>4
      <4>6. x = of(e)
        BY <4>3, <4>5
      <4> QED
        BY <4>6
    <3> QED
      BY <3>2, <3>3
  <2>5. ASSUME NEW e \in E PROVE of(e) \in E2 /\ of(e).from # og /\ of(e).to # og
    <3> DEFINE y == [type |-> e.type, from |-> R(e.from), to |-> e.to]
    <3>1. e \in Edge
      BY <1>1
    <3>2. y \in E1
      <4>1. CASE e.from = og
        <5>1. e \in Out(E, og)
          BY <4>1 DEF Out
        <5>2. y = renamedAt(e, "from", new)
          BY <2>3, <3>1, <4>1
        <5> QED
          BY <5>1, <5>2
      <4>2. CASE e.from # og
        BY <3>1, <4>2, EdgeIs
      <4> QED
        BY <4>1, <4>2
    <3>3. y \in Edge /\ y.type = e.type /\ y.from = R(e.from) /\ y.to = e.to
      BY <1>3, <3>2
    <3>4. of(e) \in E2
      <4>1. CASE e.to = og
        <5>1. y \in In(E1, og)
          BY <3>2, <3>3, <4>1 DEF In
        <5>2. of(e) = renamedAt(y, "to", new)
          BY <2>3, <3>3, <4>1
        <5> QED
          BY <5>1, <5>2
      <4>2. CASE e.to # og
        BY <3>2, <4>2
      <4> QED
        BY <4>1, <4>2
    <3> QED
      BY <3>4
  <2> HIDE DEF E2, of
  <2> QED
    BY <2>1, <2>2, <2>4, <2>5
<1> QED
  BY <1>5, <1>6, <1>7

-------------------------------------------------------------------------------
(* The invariant.                                                              *)

\* The index is exact, but for what a query of References may have left in the
\* slice from the node it was asked of; edits come before queries.
IInv ==
    /\ IndexOf(idx, edges, queried)
    /\ queried \subseteq Node

\* All sorts the list of all relationships in place.
LEMMA AllSorts ==
    ASSUME NEW i, NEW E, NEW Q, IndexOf(i, E, Q)
    PROVE  IndexOf([i EXCEPT !.all = Sorted(@)], E, Q)
<1> DEFINE j == [i EXCEPT !.all = Sorted(@)]
<1>1. i \in Indexes /\ Lists(i.all, E)
  BY DEF IndexOf
<1>2. Lists(Sorted(i.all), E) /\ Sorted(i.all) \in Seq(Edge)
  BY <1>1, SortLists DEF Lists
<1>3. j.all = Sorted(i.all) /\ j.fromID = i.fromID /\ j.toID = i.toID /\ j \in Indexes
  BY <1>1, <1>2 DEF Indexes
<1> HIDE DEF j
<1>4. IndexOf(j, E, Q)
  BY <1>2, <1>3 DEF IndexOf
<1> QED
  BY <1>4 DEF j

\* From and To sort the slice they answer from in place.
LEMMA QuerySorts ==
    ASSUME NEW i, NEW E, NEW Q, IndexOf(i, E, Q), NEW n \in Node
    PROVE  /\ IndexOf([i EXCEPT !.fromID[n].allRelated = Sorted(@)], E, Q)
           /\ IndexOf([i EXCEPT !.toID[n].allRelated = Sorted(@)], E, Q)
<1>1. /\ E \subseteq Edge /\ Lists(i.all, E) /\ i.all \in Seq(Edge)
      /\ i.fromID \in [Node -> Mapping] /\ i.toID \in [Node -> Mapping]
      /\ i = [all |-> i.all, fromID |-> i.fromID, toID |-> i.toID]
      /\ \A k \in Node : /\ Lists(i.toID[k].allRelated, In(E, k)) /\ i.toID[k].typeMap = Tails(E, k)
                         /\ i.fromID[k].typeMap = Heads(E, k)
                         /\ Fits(i.toID[k]) /\ Fits(i.fromID[k])
                         /\ k \notin Q => Lists(i.fromID[k].allRelated, Out(E, k))
  BY DEF IndexOf, Indexes
<1>2. ASSUME NEW m \in Mapping, Fits(m)
      PROVE  /\ [m EXCEPT !.allRelated = Sorted(@)] \in Mapping
             /\ Fits([m EXCEPT !.allRelated = Sorted(@)])
             /\ [m EXCEPT !.allRelated = Sorted(@)].allRelated = Sorted(m.allRelated)
             /\ [m EXCEPT !.allRelated = Sorted(@)].typeMap = m.typeMap
  <2> DEFINE a == Sorted(m.allRelated)
             r == [m EXCEPT !.allRelated = a]
  <2>1. m.allRelated \in Seq(Edge)
    BY DEF Mapping
  <2>2. a \in Seq(Edge) /\ Len(a) = Len(m.allRelated)
    BY <2>1, SortKeeps
  <2> HIDE DEF a
  <2>3. r \in Mapping /\ r.allRelated = a /\ r.typeMap = m.typeMap /\ r.cap = m.cap
    BY <2>2 DEF Mapping
  <2>4. Fits(r)
    BY <1>2, <2>2, <2>3 DEF Fits
  <2> QED
    BY <2>3, <2>4 DEF a
<1>3. ASSUME NEW m \in Mapping, NEW F, Lists(m.allRelated, F)
      PROVE  Lists(Sorted(m.allRelated), F)
  BY <1>3, SortLists
<1>4. IndexOf([i EXCEPT !.fromID[n].allRelated = Sorted(@)], E, Q)
  <2> DEFINE m == i.fromID[n]
             r == [m EXCEPT !.allRelated = Sorted(@)]
             f == [i.fromID EXCEPT ![n] = r]
             j == [i EXCEPT !.fromID = f]
  <2>1. m \in Mapping /\ Fits(m)
    BY <1>1
  <2>2. /\ r \in Mapping /\ Fits(r) /\ r.allRelated = Sorted(m.allRelated)
        /\ r.typeMap = m.typeMap
    <3> HIDE DEF m
    <3> QED
      BY <1>2, <2>1
  <2>3. [i EXCEPT !.fromID[n].allRelated = Sorted(@)] = j
    BY <1>1
  <2> HIDE DEF r
  <2>4. f \in [Node -> Mapping] /\ \A k \in Node : f[k] = IF k = n THEN r ELSE i.fromID[k]
    BY <1>1, <2>2
  <2> HIDE DEF f
  <2>5. j.all = i.all /\ j.fromID = f /\ j.toID = i.toID /\ j \in Indexes
    BY <1>1, <2>4 DEF Indexes
  <2> HIDE DEF j
  <2>6. n \notin Q => Lists(Sorted(m.allRelated), Out(E, n))
    BY <1>1, <1>3, <2>1
  <2>7. ASSUME NEW k \in Node
        PROVE  /\ f[k].typeMap = Heads(E, k) /\ Fits(f[k])
               /\ k \notin Q => Lists(f[k].allRelated, Out(E, k))
    BY <1>1, <2>2, <2>4, <2>6
  <2>8. IndexOf(j, E, Q)
    BY <1>1, <2>5, <2>7 DEF IndexOf
  <2> QED
    BY <2>3, <2>8
<1>5. IndexOf([i EXCEPT !.toID[n].allRelated = Sorted(@)], E, Q)
  <2> DEFINE m == i.toID[n]
             r == [m EXCEPT !.allRelated = Sorted(@)]
             f == [i.toID EXCEPT ![n] = r]
             j == [i EXCEPT !.toID = f]
  <2>1. m \in Mapping /\ Fits(m)
    BY <1>1
  <2>2. /\ r \in Mapping /\ Fits(r) /\ r.allRelated = Sorted(m.allRelated)
        /\ r.typeMap = m.typeMap
    <3> HIDE DEF m
    <3> QED
      BY <1>2, <2>1
  <2>3. [i EXCEPT !.toID[n].allRelated = Sorted(@)] = j
    BY <1>1
  <2> HIDE DEF r
  <2>4. f \in [Node -> Mapping] /\ \A k \in Node : f[k] = IF k = n THEN r ELSE i.toID[k]
    BY <1>1, <2>2
  <2> HIDE DEF f
  <2>5. j.all = i.all /\ j.toID = f /\ j.fromID = i.fromID /\ j \in Indexes
    BY <1>1, <2>4 DEF Indexes
  <2> HIDE DEF j
  <2>6. Lists(Sorted(m.allRelated), In(E, n))
    BY <1>1, <1>3, <2>1
  <2>7. ASSUME NEW k \in Node
        PROVE  /\ f[k].typeMap = Tails(E, k) /\ Fits(f[k])
               /\ Lists(f[k].allRelated, In(E, k))
    BY <1>1, <2>2, <2>4, <2>6
  <2>8. IndexOf(j, E, Q)
    BY <1>1, <2>5, <2>7 DEF IndexOf
  <2> QED
    BY <2>3, <2>8
<1> QED
  BY <1>4, <1>5

\* References writes at most the slice from its own node, and never its length.
LEMMA ReferencesWrites ==
    ASSUME NEW i, NEW E, NEW Q, IndexOf(i, E, Q), NEW n \in Node
    PROVE  LET both == i.fromID[n].allRelated \o i.toID[n].allRelated
           IN IndexOf([i EXCEPT !.fromID[n].allRelated =
                                    SubSeq(Sorted(both), 1, Len(i.fromID[n].allRelated))], E, Q \cup {n})
<1> DEFINE m == i.fromID[n]
           both == m.allRelated \o i.toID[n].allRelated
           a == SubSeq(Sorted(both), 1, Len(m.allRelated))
           r == [m EXCEPT !.allRelated = a]
           f == [i.fromID EXCEPT ![n] = r]
           j == [i EXCEPT !.fromID = f]
<1>1. /\ E \subseteq Edge /\ Lists(i.all, E) /\ i.all \in Seq(Edge)
      /\ i.fromID \in [Node -> Mapping] /\ i.toID \in [Node -> Mapping]
      /\ i = [all |-> i.all, fromID |-> i.fromID, toID |-> i.toID]
      /\ \A k \in Node : /\ Lists(i.toID[k].allRelated, In(E, k)) /\ i.toID[k].typeMap = Tails(E, k)
                         /\ i.fromID[k].typeMap = Heads(E, k)
                         /\ Fits(i.toID[k]) /\ Fits(i.fromID[k])
                         /\ k \notin Q => Lists(i.fromID[k].allRelated, Out(E, k))
  BY DEF IndexOf, Indexes
<1>2. m \in Mapping /\ Fits(m) /\ m.allRelated \in Seq(Edge) /\ i.toID[n].allRelated \in Seq(Edge)
  BY <1>1 DEF Mapping
<1>3. /\ a \in Seq(Edge) /\ Len(a) = Len(m.allRelated)
  <2>1. both \in Seq(Edge) /\ Len(both) = Len(m.allRelated) + Len(i.toID[n].allRelated)
    <3> HIDE DEF m
    <3> QED
      BY <1>2, ConcatProperties
  <2> HIDE DEF both
  <2>2. Sorted(both) \in Seq(Edge) /\ Len(Sorted(both)) = Len(both)
    BY <2>1, SortKeeps
  <2>3. Len(m.allRelated) \in Nat /\ Len(i.toID[n].allRelated) \in Nat
    BY <1>2, LenProperties
  <2>4. \A k \in 1 .. Len(m.allRelated) : k \in 1 .. Len(Sorted(both)) /\ Sorted(both)[k] \in Edge
    <3>1. \A k \in 1 .. Len(m.allRelated) : k \in 1 .. Len(Sorted(both))
      <4>1. \A x, y, z \in Nat : z = x + y => \A k \in 1 .. x : k \in 1 .. z
        OBVIOUS
      <4>2. Len(Sorted(both)) = Len(m.allRelated) + Len(i.toID[n].allRelated) /\ Len(Sorted(both)) \in Nat
        BY <2>1, <2>2, LenProperties
      <4> HIDE DEF m
      <4> QED
        BY <2>3, <4>1, <4>2
    <3> QED
      BY <2>2, <3>1, ElementOfSeq
  <2>5. a \in Seq(Edge) /\ Len(a) = IF 1 <= Len(m.allRelated) THEN Len(m.allRelated) - 1 + 1 ELSE 0
    BY <2>3, <2>4, SubSeqProperties
  <2> HIDE DEF a, m
  <2> QED
    BY <2>3, <2>5
<1>4. [i EXCEPT !.fromID[n].allRelated = a] = j
  BY <1>1
<1> HIDE DEF a
<1>5. r \in Mapping /\ Fits(r) /\ r.typeMap = m.typeMap
  <2> HIDE DEF m
  <2>1. r \in Mapping /\ r.typeMap = m.typeMap /\ r.cap = m.cap /\ r.allRelated = a
    BY <1>2, <1>3 DEF Mapping
  <2> HIDE DEF r
  <2> QED
    BY <1>2, <1>3, <2>1 DEF Fits
<1> HIDE DEF r
<1>6. f \in [Node -> Mapping] /\ \A k \in Node : f[k] = IF k = n THEN r ELSE i.fromID[k]
  BY <1>1, <1>5
<1> HIDE DEF f
<1>7. j.all = i.all /\ j.fromID = f /\ j.toID = i.toID /\ j \in Indexes
  BY <1>1, <1>6 DEF Indexes
<1> HIDE DEF j
<1>8. ASSUME NEW k \in Node
      PROVE  /\ f[k].typeMap = Heads(E, k) /\ Fits(f[k])
             /\ k \notin Q \cup {n} => Lists(f[k].allRelated, Out(E, k))
  BY <1>1, <1>5, <1>6
<1>9. IndexOf(j, E, Q \cup {n})
  BY <1>1, <1>7, <1>8 DEF IndexOf
<1> QED
  BY <1>4, <1>9 DEF a

\* An empty index is exact for no relationships.
LEMMA InitExact == Init => IInv
<1> SUFFICES ASSUME Init PROVE IInv
  OBVIOUS
<1>1. /\ Unmapped \in Mapping /\ Fits(Unmapped)
      /\ Unmapped.allRelated = <<>> /\ Unmapped.typeMap = {}
  BY DEF Unmapped, Mapping, Fits
<1>2. Lists(<<>>, {}) /\ ToSet(<<>>) = {}
  BY ListsGrow DEF Lists
<1>3. \A n \in Node : In({}, n) = {} /\ Out({}, n) = {} /\ Tails({}, n) = {} /\ Heads({}, n) = {}
  BY DEF In, Out, Tails, Heads
<1>4. Empty \in Indexes /\ Empty.all = <<>> /\ \A n \in Node : Empty.fromID[n] = Unmapped /\ Empty.toID[n] = Unmapped
  BY <1>1 DEF Empty, Indexes
<1>5. idx = Empty /\ queried = {} /\ edges = {}
  BY <1>2, <1>4 DEF Init, edges
<1>6. IndexOf(Empty, {}, {})
  BY <1>1, <1>2, <1>3, <1>4 DEF IndexOf
<1> QED
  BY <1>5, <1>6 DEF IInv

\* Every action keeps the invariant, and is the action of the same name of the set of
\* relationships or leaves that set as it is.
LEMMA NextExact ==
    ASSUME IInv, [Next]_vars
    PROVE  IInv' /\ [Graph!Next]_edges
<1>1. IndexOf(idx, edges, queried) /\ queried \subseteq Node /\ edges \subseteq Edge
  BY DEF IInv, IndexOf
<1>2. ASSUME NEW F, IndexOf(idx', F, queried')
      PROVE  edges' = F /\ IndexOf(idx', edges', queried')
  BY <1>2 DEF IndexOf, Lists, edges
<1>3. Graph!Edge = Edge
  BY DEF Graph!Edge, Edge
<1>4. ASSUME NEW e \in Edge, Add(e) PROVE IInv' /\ Graph!Next
  <2>1. queried = {} /\ idx' = addTo(idx, e) /\ queried' = {}
    BY <1>4 DEF Add
  <2>2. IndexOf(idx', edges \cup {e}, queried')
    BY <1>1, <2>1, Added
  <2>3. edges' = edges \cup {e} /\ IndexOf(idx', edges', queried')
    BY <1>2, <2>2
  <2> QED
    BY <1>3, <2>1, <2>3 DEF IInv, Graph!Next, Graph!Add
<1>5. ASSUME NEW id \in Node, RemoveNode(id) PROVE IInv' /\ Graph!Next
  <2>1. queried = {} /\ idx' = removeFrom(idx, id) /\ queried' = {}
    BY <1>5 DEF RemoveNode
  <2>2. IndexOf(idx', Graph!Without(edges, id), queried')
    BY <1>1, <2>1, Removed
  <2>3. edges' = Graph!Without(edges, id) /\ IndexOf(idx', edges', queried')
    BY <1>2, <2>2
  <2> QED
    BY <2>1, <2>3 DEF IInv, Graph!Next, Graph!Remove
<1>6. ASSUME NEW og \in Node, NEW new \in Node, ReplaceNode(og, new) PROVE IInv' /\ [Graph!Next]_edges
  <2>1. queried = {} /\ idx' = replaceIn(idx, og, new) /\ queried' = {}
    BY <1>6 DEF ReplaceNode
  <2>2. CASE new = og
    <3>1. idx' = idx /\ edges' = edges
      BY <2>1, <2>2 DEF replaceIn, edges
    <3> QED
      BY <1>1, <2>1, <3>1 DEF IInv
  <2>3. CASE new # og
    <3>1. IndexOf(idx', Graph!Renamed(edges, og, new), queried')
      BY <1>1, <2>1, <2>3, Replaced
    <3>2. edges' = Graph!Renamed(edges, og, new) /\ IndexOf(idx', edges', queried')
      BY <1>2, <3>1
    <3> QED
      BY <2>1, <3>2 DEF IInv, Graph!Next, Graph!Replace
  <2> QED
    BY <2>2, <2>3
<1>7. ASSUME IndexOf(idx', edges, queried'), queried' \subseteq Node PROVE IInv' /\ UNCHANGED edges
  BY <1>2, <1>7 DEF IInv
<1>8. ASSUME NEW n \in Node, From(n) \/ To(n) PROVE IInv' /\ UNCHANGED edges
  <2> DEFINE from == [idx EXCEPT !.fromID[n].allRelated = Sorted(@)]
             to == [idx EXCEPT !.toID[n].allRelated = Sorted(@)]
  <2>0. idx' = from \/ idx' = to
    BY <1>8 DEF From, To
  <2>1. IndexOf(from, edges, queried) /\ IndexOf(to, edges, queried)
    BY <1>1, QuerySorts
  <2> HIDE DEF from, to
  <2>2. IndexOf(idx', edges, queried)
    BY <2>0, <2>1
  <2> QED
    BY <1>1, <1>7, <1>8, <2>2 DEF From, To
<1>9. ASSUME All PROVE IInv' /\ UNCHANGED edges
  <2>1. IndexOf(idx', edges, queried)
    BY <1>1, <1>9, AllSorts DEF All
  <2> QED
    BY <1>1, <1>7, <1>9, <2>1 DEF All
<1>10. ASSUME NEW n \in Node, References(n) PROVE IInv' /\ UNCHANGED edges
  <2> DEFINE both == idx.fromID[n].allRelated \o idx.toID[n].allRelated
             after == [idx EXCEPT !.fromID[n].allRelated =
                                      SubSeq(Sorted(both), 1, Len(idx.fromID[n].allRelated))]
  <2>1. queried' = queried \cup {n} /\ (idx' = after \/ idx' = idx)
    BY <1>10 DEF References
  <2>2. IndexOf(after, edges, queried \cup {n})
    BY <1>1, ReferencesWrites
  <2>3. IndexOf(idx, edges, queried \cup {n})
    BY <1>1 DEF IndexOf
  <2> HIDE DEF after
  <2> QED
    BY <1>1, <1>7, <2>1, <2>2, <2>3
<1>11. ASSUME UNCHANGED vars PROVE IInv' /\ UNCHANGED edges
  BY <1>1, <1>11 DEF vars, IInv, edges
<1> QED
  BY <1>4, <1>5, <1>6, <1>8, <1>9, <1>10, <1>11 DEF Next

-------------------------------------------------------------------------------
(* The theorems.                                                               *)

\* The invariant, from which the theorems below follow.
THEOREM IndexInvariant == Spec => []IInv
<1>1. Init => IInv
  BY InitExact
<1>2. IInv /\ [Next]_vars => IInv'
  BY NextExact
<1> QED
  BY <1>1, <1>2, PTL DEF Spec

\* Whatever was added, removed, replaced and asked before, the first References of a
\* node finds every relationship at either end of it, and To always does
\* (Index.Remove, Index.Replace, Index.References).
THEOREM QueriesFindAll == Spec => []QueriesExact
<1>1. IInv => MapsAgree
  BY DEF IInv, IndexOf, Heads, Tails, Out, In, MapsAgree
<1>2. IInv => QueriesExact
  BY <1>1 DEF IInv, IndexOf, Lists, Out, In, QueriesExact
<1> QED
  BY <1>2, IndexInvariant, PTL

\* The two maps of every node never speak for a relationship that is not held and miss
\* none that is: Contains, by which Add drops duplicates, is exact (Index.Contains).
THEOREM ContainsExact == Spec => []MapsAgree
<1>1. IInv => MapsAgree
  BY DEF IInv, IndexOf, Heads, Tails, Out, In, MapsAgree
<1> QED
  BY <1>1, IndexInvariant, PTL

\* Replacing a node, whichever two nodes are chosen, would amount to renaming it in every
\* relationship at once, self-edges and edges that coincide included (Index.Replace).
THEOREM ReplaceIsRenaming == Spec => []ReplaceRenames
<1>1. ASSUME IInv PROVE ReplaceRenames
  <2> SUFFICES ASSUME queried = {}, NEW og \in Node, NEW new \in Node, og # new
               PROVE  ToSet(replaceIn(idx, og, new).all) = Graph!Renamed(edges, og, new)
    BY DEF ReplaceRenames
  <2>1. IndexOf(replaceIn(idx, og, new), Graph!Renamed(edges, og, new), {})
    BY <1>1, Replaced DEF IInv
  <2> QED
    BY <2>1 DEF IndexOf, Lists
<1> QED
  BY <1>1, IndexInvariant, PTL

\* Type correctness.
THEOREM IndexTypeCorrect == Spec => []TypeOK
<1>1. IInv => TypeOK
  BY DEF IInv, IndexOf, Indexes, Mapping, Lists, Fits, TypeOK
<1> QED
  BY <1>1, IndexInvariant, PTL

\* The index implements the set of relationships: adding, removing a node and replacing
\* one, edge by edge, are single steps of the set, and queries leave it alone.
THEOREM IndexImplementsGraph == Spec => GraphSpec
<1>1. Init => Graph!Init
  <2>1. ToSet(<<>>) = {}
    BY DEF ToSet
  <2> QED
    BY <2>1 DEF Init, Empty, Graph!Init, edges
<1>2. IInv /\ [Next]_vars => [Graph!Next]_edges
  BY NextExact
<1> QED
  BY <1>1, <1>2, IndexInvariant, PTL DEF Spec, GraphSpec, Graph!Spec

--------------------------------------------------------------------------------
(* The relationships of a cataloger.                                          *)

\* A sequence of packages, and the identifiers of those that have one.
Packages(s) == s \in Seq(ToSet(s)) /\ \A p \in ToSet(s) : "id" \in DOMAIN p
Identified(s) == {p.id : p \in ToSet(s)} \ {NoID}
EndsIn(rels, s) == \A x \in rels : {x.from, x.to} \subseteq Identified(s)

Replaces(c) == \E i \in DOMAIN c.processors : c.processors[i] \in Replacing
Trusts(c) == \E i \in DOMAIN c.processors : c.processors[i] \in Trusting

\* What a sequence is and holds, by its positions.
LEMMA Places ==
    ASSUME NEW s, s \in Seq(ToSet(s))
    PROVE  /\ Len(s) \in Nat /\ DOMAIN s = 1 .. Len(s)
           /\ ToSet(s) = {s[i] : i \in 1 .. Len(s)}
BY LenProperties DEF ToSet

\* A function on positions whose values have identifiers is a sequence of packages.
LEMMA PackagesAre ==
    ASSUME NEW n \in Nat, NEW f, f = [i \in 1 .. n |-> f[i]], \A i \in 1 .. n : "id" \in DOMAIN f[i]
    PROVE  Packages(f) /\ ToSet(f) = {f[i] : i \in 1 .. n} /\ Len(f) = n
<1>1. DOMAIN f = 1 .. n
  OBVIOUS
<1>2. ToSet(f) = {f[i] : i \in 1 .. n}
  BY <1>1 DEF ToSet
<1>3. f \in [1 .. n -> ToSet(f)]
  BY <1>2
<1>4. f \in Seq(ToSet(f)) /\ Len(f) = n
  BY <1>3, SeqDef, LenProperties
<1> QED
  BY <1>2, <1>4 DEF Packages

\* Two sequences of packages make one.
LEMMA Joining ==
    ASSUME NEW s, NEW t, Packages(s), Packages(t)
    PROVE  /\ Packages(s \o t) /\ ToSet(s \o t) = ToSet(s) \cup ToSet(t)
           /\ Identified(s \o t) = Identified(s) \cup Identified(t)
<1>1. s \in Seq(ToSet(s) \cup ToSet(t)) /\ t \in Seq(ToSet(s) \cup ToSet(t))
  BY Places DEF Packages
<1>2. /\ Len(s) \in Nat /\ Len(t) \in Nat /\ Len(s \o t) = Len(s) + Len(t)
      /\ s \o t \in Seq(ToSet(s) \cup ToSet(t))
      /\ \A i \in 1 .. Len(s) + Len(t) :
            (s \o t)[i] = IF i <= Len(s) THEN s[i] ELSE t[i - Len(s)]
  BY <1>1, ConcatProperties, LenProperties
<1>3. DOMAIN (s \o t) = 1 .. Len(s) + Len(t)
  BY <1>2, LenProperties
<1>4. ToSet(s) = {s[i] : i \in 1 .. Len(s)} /\ ToSet(t) = {t[i] : i \in 1 .. Len(t)}
  BY Places DEF Packages
<1>5. ToSet(s \o t) = ToSet(s) \cup ToSet(t)
  <2> DEFINE u == s \o t
  <2>1. ToSet(u) = {u[i] : i \in 1 .. Len(s) + Len(t)}
    BY <1>3 DEF ToSet
  <2>2. \A i \in 1 .. Len(s) : i \in 1 .. Len(s) + Len(t) /\ u[i] = s[i]
    BY <1>2
  <2>3. \A i \in 1 .. Len(t) : i + Len(s) \in 1 .. Len(s) + Len(t) /\ u[i + Len(s)] = t[i]
    BY <1>2
  <2>4. \A i \in 1 .. Len(s) + Len(t) : \/ i \in 1 .. Len(s) /\ u[i] = s[i]
                                        \/ i - Len(s) \in 1 .. Len(t) /\ u[i] = t[i - Len(s)]
    BY <1>2
  <2> HIDE DEF u
  <2>5. ToSet(u) \subseteq ToSet(s) \cup ToSet(t)
    BY <1>4, <2>1, <2>4
  <2>6. ToSet(s) \cup ToSet(t) \subseteq ToSet(u)
    BY <1>4, <2>1, <2>2, <2>3
  <2> QED
    BY <2>5, <2>6 DEF u
<1> QED
  BY <1>2, <1>5 DEF Packages, Identified

\* Identifiers that were not set are set, and no other changes.
LEMMA SetIDsKeeps ==
    ASSUME NEW s, Packages(s)
    PROVE  /\ Packages(SetIDs(s)) /\ Len(SetIDs(s)) = Len(s)
           /\ \A i \in 1 .. Len(s) : s[i].id # NoID => SetIDs(s)[i].id = s[i].id
           /\ \A i \in 1 .. Len(s) : SetIDs(s)[i].id # NoID
           /\ Identified(s) \subseteq Identified(SetIDs(s))
<1> DEFINE t == SetIDs(s)
<1>1. Len(s) \in Nat /\ DOMAIN s = 1 .. Len(s) /\ ToSet(s) = {s[i] : i \in 1 .. Len(s)}
  BY Places DEF Packages
<1>2. t = [i \in 1 .. Len(s) |-> IF s[i].id = NoID THEN WithID(s[i]) ELSE s[i]]
  BY <1>1 DEF SetIDs
<1> HIDE DEF t
<1>3. \A p : "id" \in DOMAIN WithID(p) /\ WithID(p).id # NoID
  BY DEF WithID, NoID
<1>4. \A i \in 1 .. Len(s) : "id" \in DOMAIN s[i]
  BY <1>1 DEF Packages
<1>5. \A i \in 1 .. Len(s) : /\ "id" \in DOMAIN t[i] /\ t[i].id # NoID
                             /\ s[i].id # NoID => t[i].id = s[i].id
  BY <1>2, <1>3, <1>4
<1>6. t = [i \in 1 .. Len(s) |-> t[i]]
  BY <1>2
<1>7. Packages(t) /\ ToSet(t) = {t[i] : i \in 1 .. Len(s)} /\ Len(t) = Len(s)
  BY <1>1, <1>5, <1>6, PackagesAre
<1>8. Identified(s) \subseteq Identified(t)
  BY <1>1, <1>5, <1>7 DEF Identified
<1> QED
  BY <1>5, <1>7, <1>8 DEF t

\* What is related are packages: those that are resolved, under their identifiers.
LEMMA ResolvedEnds ==
    ASSUME NEW s
    PROVE  \A x \in Resolve(s) : {x.from, x.to} \subseteq {p.id : p \in ToSet(s)}
<1> DEFINE claims(i) == Specification(s[i])
           providing(key) == {s[i].id : i \in {j \in DOMAIN s :
                                \E n \in DOMAIN claims(j) : key \in claims(j)[n].provides}}
           last(id) == CHOOSE i \in DOMAIN s : s[i].id = id /\ \A j \in DOMAIN s : s[j].id = id => j <= i
           required(id) == UNION {claims(last(id))[n].requires : n \in DOMAIN claims(last(id))}
<1>1. Resolve(s) = UNION {{[from |-> from, to |-> p.id, type |-> "dependency-of"] :
                    from \in UNION {providing(key) : key \in required(p.id)}} : p \in ToSet(s)}
  BY DEF Resolve
<1>2. \A key : providing(key) \subseteq {p.id : p \in ToSet(s)}
  BY DEF ToSet
<1> HIDE DEF providing, required
<1>3. ASSUME NEW p \in ToSet(s), NEW key, NEW from \in providing(key),
             NEW x, x = [from |-> from, to |-> p.id, type |-> "dependency-of"]
      PROVE  {x.from, x.to} \subseteq {q.id : q \in ToSet(s)}
  BY <1>2, <1>3
<1> QED
  BY <1>1, <1>3

\* dependency.Processor relates packages that it has identified.
LEMMA DependenciesEnd ==
    ASSUME NEW r, Packages(r.pkgs), EndsIn(r.rels, r.pkgs)
    PROVE  /\ Packages(ResolveDependencies(r).pkgs)
           /\ EndsIn(ResolveDependencies(r).rels, ResolveDependencies(r).pkgs)
           /\ \A p \in ToSet(ResolveDependencies(r).pkgs) : p.id # NoID
<1> DEFINE t == SetIDs(r.pkgs)
<1>1. ResolveDependencies(r).pkgs = t /\ ResolveDependencies(r).rels = r.rels \cup Resolve(t)
  BY DEF ResolveDependencies, Result
<1>2. /\ Packages(t) /\ Len(t) = Len(r.pkgs) /\ Identified(r.pkgs) \subseteq Identified(t)
      /\ \A i \in 1 .. Len(r.pkgs) : t[i].id # NoID
  BY SetIDsKeeps
<1> HIDE DEF t
<1>3. \A p \in ToSet(t) : p.id # NoID
  <2>1. ToSet(t) = {t[i] : i \in 1 .. Len(t)}
    BY <1>2, Places DEF Packages
  <2> QED
    BY <1>2, <2>1
<1>4. EndsIn(Resolve(t), t)
  BY <1>3, ResolvedEnds DEF EndsIn, Identified
<1>5. EndsIn(r.rels, t)
  BY <1>2 DEF EndsIn
<1> QED
  BY <1>1, <1>2, <1>3, <1>4, <1>5 DEF EndsIn

\* Of packages that nothing is known about too, if none were related before.
LEMMA FirstDependenciesEnd ==
    ASSUME NEW r, r.rels = {}
    PROVE  EndsIn(ResolveDependencies(r).rels, ResolveDependencies(r).pkgs)
<1> DEFINE t == SetIDs(r.pkgs)
<1>1. ResolveDependencies(r).pkgs = t /\ ResolveDependencies(r).rels = Resolve(t)
  BY DEF ResolveDependencies, Result
<1>2. \A i \in DOMAIN t : t[i].id # NoID
  BY DEF SetIDs, WithID, NoID
<1> HIDE DEF t
<1>3. \A p \in ToSet(t) : p.id # NoID
  BY <1>2 DEF ToSet
<1> QED
  BY <1>1, <1>3, ResolvedEnds DEF EndsIn, Identified

\* A processor that panics has identified the first packages, and related none.
LEMMA AbandonedEnd ==
    ASSUME NEW r, Packages(r.pkgs), EndsIn(r.rels, r.pkgs), NEW n \in 0 .. Len(r.pkgs),
           NEW s, s = SubSeq(SetIDs(r.pkgs), 1, n) \o SubSeq(r.pkgs, n + 1, Len(r.pkgs))
    PROVE  /\ Packages(s) /\ EndsIn(r.rels, s)
           /\ (\A p \in ToSet(r.pkgs) : p.id # NoID) => \A p \in ToSet(s) : p.id # NoID
<1> DEFINE q == r.pkgs
           t == SetIDs(q)
           m == Len(q)
<1>1. m \in Nat /\ DOMAIN q = 1 .. m /\ ToSet(q) = {q[i] : i \in 1 .. m} /\ q \in Seq(ToSet(q))
  BY Places DEF Packages
<1>2. /\ Packages(t) /\ Len(t) = m
      /\ \A i \in 1 .. m : t[i].id # NoID /\ (q[i].id # NoID => t[i].id = q[i].id)
  BY SetIDsKeeps
<1>3. t \in Seq(ToSet(t)) /\ ToSet(t) = {t[i] : i \in 1 .. m}
  BY <1>2, Places DEF Packages
<1> DEFINE T == ToSet(q) \cup ToSet(t)
<1> HIDE DEF t
<1>4. q \in Seq(T) /\ t \in Seq(T)
  BY <1>1, <1>3
<1>5. s = SubSeq(t, 1, n) \o SubSeq(q, n + 1, m)
  BY DEF t
<1> HIDE DEF T, q, m
<1>6. n \in 0 .. m
  BY DEF m, q
<1>7. /\ SubSeq(t, 1, n) \in Seq(T) /\ Len(SubSeq(t, 1, n)) = n
      /\ \A i \in 1 .. n : SubSeq(t, 1, n)[i] = t[i]
  BY <1>1, <1>2, <1>4, <1>6, SubSeqProperties
<1>8. /\ SubSeq(q, n + 1, m) \in Seq(T) /\ Len(SubSeq(q, n + 1, m)) = m - n
      /\ \A i \in 1 .. m - n : SubSeq(q, n + 1, m)[i] = q[n + i]
  <2> DEFINE back == SubSeq(q, n + 1, m)
  <2>0. m = Len(q) /\ n \in Nat /\ n <= m /\ n + 1 \in 1 .. m + 1
    BY <1>1, <1>6 DEF m
  <2>1. /\ back \in Seq(T) /\ Len(back) = IF n + 1 <= m THEN m - (n + 1) + 1 ELSE 0
        /\ \A i \in 1 .. m - (n + 1) + 1 : back[i] = q[n + 1 + i - 1]
    BY <1>1, <1>4, <2>0, SubSeqProperties
  <2>2. m - (n + 1) + 1 = m - n /\ \A i \in 1 .. m - n : n + 1 + i - 1 = n + i
    BY <1>1, <2>0
  <2> HIDE DEF back
  <2>3. Len(back) = m - n
    <3>1. \A a, b \in Nat : a <= b => (IF a + 1 <= b THEN b - (a + 1) + 1 ELSE 0) = b - a
      OBVIOUS
    <3> QED
      BY <1>1, <2>0, <2>1, <3>1
  <2>4. back \in Seq(T) /\ \A i \in 1 .. m - n : back[i] = q[n + i]
    BY <2>1, <2>2
  <2> QED
    BY <2>3, <2>4 DEF back
<1>9. /\ s \in Seq(T) /\ Len(s) = m
      /\ \A i \in 1 .. m : s[i] = IF i <= n THEN t[i] ELSE q[i]
  <2> DEFINE a == SubSeq(t, 1, n)
             b == SubSeq(q, n + 1, m)
  <2>1. /\ a \o b \in Seq(T) /\ Len(a \o b) = Len(a) + Len(b)
        /\ \A i \in 1 .. Len(a) + Len(b) : (a \o b)[i] = IF i <= Len(a) THEN a[i] ELSE b[i - Len(a)]
    BY <1>7, <1>8, ConcatProperties
  <2>2. Len(a) = n /\ Len(b) = m - n /\ \A i \in 1 .. n : a[i] = t[i]
    BY <1>7, <1>8
  <2>3. \A i \in 1 .. m - n : b[i] = q[n + i]
    BY <1>8
  <2> HIDE DEF a, b
  <2>4. s = a \o b
    BY <1>5 DEF a, b
  <2>5. Len(a) + Len(b) = m /\ n \in Nat
    BY <1>1, <1>6, <2>2
  <2>6. /\ s \in Seq(T) /\ Len(s) = m
        /\ \A i \in 1 .. m : s[i] = IF i <= n THEN a[i] ELSE b[i - n]
    BY <2>1, <2>2, <2>4, <2>5
  <2>7. ASSUME NEW i \in 1 .. m, i <= n PROVE s[i] = t[i]
    <3>1. i \in 1 .. n
      BY <1>1, <2>5, <2>7
    <3> QED
      BY <2>2, <2>6, <2>7, <3>1
  <2>8. ASSUME NEW i \in 1 .. m, ~(i <= n) PROVE s[i] = q[i]
    <3>1. i - n \in 1 .. m - n /\ n + (i - n) = i
      BY <1>1, <2>5, <2>8
    <3>2. b[i - n] = q[i]
      BY <2>3, <3>1
    <3> QED
      BY <2>6, <2>8, <3>2
  <2> QED
    BY <2>6, <2>7, <2>8
<1>10. s = [i \in 1 .. m |-> s[i]]
  BY <1>9, LenProperties
<1>11. \A i \in 1 .. m : /\ "id" \in DOMAIN s[i]
                         /\ q[i].id # NoID => s[i].id = q[i].id
  <2>1. \A i \in 1 .. m : "id" \in DOMAIN q[i] /\ "id" \in DOMAIN t[i]
    BY <1>1, <1>2, <1>3 DEF Packages, q
  <2> QED
    BY <1>2, <1>9, <2>1
<1>12. Packages(s) /\ ToSet(s) = {s[i] : i \in 1 .. m}
  <2>1. \A i \in 1 .. m : "id" \in DOMAIN s[i]
    BY <1>11
  <2> DEFINE h == [i \in 1 .. m |-> s[i]]
  <2>2. h = [i \in 1 .. m |-> h[i]] /\ \A i \in 1 .. m : h[i] = s[i]
    OBVIOUS
  <2>3. s = h
    BY <1>10
  <2> HIDE DEF h
  <2>4. \A i \in 1 .. m : "id" \in DOMAIN h[i]
    BY <2>1, <2>2
  <2>5. Packages(h) /\ ToSet(h) = {h[i] : i \in 1 .. m}
    BY <1>1, <2>2, <2>4, PackagesAre
  <2> QED
    BY <2>3, <2>5
<1>13. Identified(q) \subseteq Identified(s)
  <2> SUFFICES ASSUME NEW p \in ToSet(q), p.id # NoID PROVE p.id \in Identified(s)
    BY DEF Identified
  <2>1. PICK i \in 1 .. m : p = q[i]
    BY <1>1
  <2>2. s[i].id = p.id /\ s[i] \in ToSet(s)
    BY <1>11, <1>12, <2>1
  <2> QED
    BY <2>2 DEF Identified
<1>14. EndsIn(r.rels, s)
  BY <1>13 DEF EndsIn, q
<1>15. (\A p \in ToSet(q) : p.id # NoID) => \A p \in ToSet(s) : p.id # NoID
  BY <1>1, <1>11, <1>12
<1> QED
  BY <1>12, <1>14, <1>15 DEF q

\* A library that the standard library is made for is related to it under its identifier.
LEMMA StdlibEnds ==
    ASSUME NEW r, Packages(r.pkgs), EndsIn(r.rels, r.pkgs), \A p \in ToSet(r.pkgs) : p.id # NoID
    PROVE  /\ Packages(stdlibProcessor(r).pkgs)
           /\ EndsIn(stdlibProcessor(r).rels, stdlibProcessor(r).pkgs)
           /\ \A p \in ToSet(stdlibProcessor(r).pkgs) : p.id # NoID
<1> DEFINE s == r.pkgs
           n == Len(s)
           stdlib(p) == WithID([p EXCEPT !.name = "stdlib", !.version = p.meta.goVersion,
                                         !.meta = [kind |-> "go", goVersion |-> p.meta.goVersion]])
           edge(p) == [from |-> stdlib(p).id, to |-> p.id, type |-> "dependency-of"]
           op(acc, p) ==
               IF p.meta.kind # "go" \/ p.meta.goVersion \notin GoodVersions
                  \/ p.places \subseteq acc.places
               THEN acc
               ELSE [pkgs |-> Append(acc.pkgs, stdlib(p)),
                     places |-> acc.places \cup p.places,
                     rels |-> acc.rels \cup {edge(p)}]
           base == [pkgs |-> <<>>, places |-> {}, rels |-> {}]
           T == {stdlib(p) : p \in ToSet(s)}
           P == UNION {p.places : p \in ToSet(s)}
           R == {edge(p) : p \in ToSet(s)}
           all == [pkgs : Seq(T), places : SUBSET P, rels : SUBSET R]
           X == {acc \in all : \A x \in acc.rels : x.from \in {p.id : p \in ToSet(acc.pkgs)}}
           stp == [ix \in (1 .. n) \X X |-> op(ix[2], s[ix[1]])]
           it(f) == f = [u \in SUBSET DOMAIN s |->
                            IF u = {} THEN base ELSE LET x == Max(u) IN op(f[u \ {x}], s[x])]
           g == CHOOSE f : it(f)
           made == g[DOMAIN s]
<1>1. n \in Nat /\ DOMAIN s = 1 .. n /\ ToSet(s) = {s[i] : i \in 1 .. n}
  BY Places DEF Packages
<1>2. /\ stdlibProcessor(r).pkgs = s \o made.pkgs
      /\ stdlibProcessor(r).rels = r.rels \cup made.rels
  BY DEF stdlibProcessor, Result, FoldLeft, MapThenFoldSet
<1>3. base \in X
  <2>1. base \in all
    OBVIOUS
  <2> QED
    BY <2>1
<1> HIDE DEF g
<1>4. ASSUME NEW acc \in X, NEW p \in ToSet(s) PROVE op(acc, p) \in X
  <2>1. acc.pkgs \in Seq(T) /\ stdlib(p) \in T /\ edge(p) \in R /\ p.places \subseteq P
    OBVIOUS
  <2> DEFINE more == Append(acc.pkgs, stdlib(p))
  <2> HIDE DEF stdlib, T, R, P
  <2>2. /\ more \in Seq(T) /\ Len(acc.pkgs) \in Nat /\ Len(more) = Len(acc.pkgs) + 1
        /\ \A i \in 1 .. Len(acc.pkgs) : more[i] = acc.pkgs[i]
        /\ more[Len(acc.pkgs) + 1] = stdlib(p)
    BY <2>1, AppendProperties, LenProperties
  <2>3. DOMAIN more = 1 .. Len(acc.pkgs) + 1 /\ DOMAIN acc.pkgs = 1 .. Len(acc.pkgs)
    BY <2>1, <2>2, LenProperties
  <2>4. ToSet(acc.pkgs) \cup {stdlib(p)} \subseteq ToSet(more)
    <3>1. ToSet(acc.pkgs) = {acc.pkgs[i] : i \in 1 .. Len(acc.pkgs)}
          /\ ToSet(more) = {more[i] : i \in 1 .. Len(acc.pkgs) + 1}
      BY <2>3 DEF ToSet
    <3>2. \A i \in 1 .. Len(acc.pkgs) : i \in 1 .. Len(acc.pkgs) + 1
      BY <2>2
    <3>3. Len(acc.pkgs) + 1 \in 1 .. Len(acc.pkgs) + 1
      BY <2>2
    <3> HIDE DEF more
    <3> QED
      BY <2>2, <3>1, <3>2, <3>3
  <2> HIDE DEF more
  <2>5. edge(p).from = stdlib(p).id
    OBVIOUS
  <2> HIDE DEF edge
  <2> DEFINE new == [pkgs |-> more, places |-> acc.places \cup p.places,
                     rels |-> acc.rels \cup {edge(p)}]
  <2>6. new \in all
    BY <2>1, <2>2
  <2>7. \A x \in new.rels : x.from \in {q.id : q \in ToSet(new.pkgs)}
    BY <2>4, <2>5
  <2>8. new \in X
    BY <2>6, <2>7
  <2> QED
    BY <2>8 DEF more
<1> HIDE DEF op, base, X
<1>5. stp \in [(1 .. n) \X X -> X]
  BY <1>1, <1>4
<1>6. PICK f : Iterates(f, n, X, base, stp)
  BY <1>1, <1>3, <1>5, Iterate
<1>7. it(f)
  <2>1. ASSUME NEW u \in SUBSET (1 .. n), u # {}
        PROVE  stp[<<Max(u), f[u \ {Max(u)}]>>] = op(f[u \ {Max(u)}], s[Max(u)])
    <3>1. Max(u) \in u
      BY <1>1, <2>1, MaxIn
    <3>2. Max(u) \in 1 .. n /\ f[u \ {Max(u)}] \in X
      BY <1>6, <3>1 DEF Iterates
    <3> QED
      BY <3>2
  <2> HIDE DEF stp
  <2> QED
    BY <1>1, <1>6, <2>1 DEF Iterates
<1>8. it(g)
  BY <1>7 DEF g
<1>9. made \in X
  <2> DEFINE S == {i \in 0 .. n : g[1 .. i] \in X}
  <2>1. 0 \in S
    <3>1. g[{}] = base /\ 1 .. 0 = {}
      BY <1>1, <1>8, Positions
    <3> QED
      BY <1>1, <1>3, <3>1
  <2>2. ASSUME NEW i \in 0 .. n - 1, i \in S PROVE i + 1 \in S
    <3>1. /\ 1 .. i + 1 # {} /\ 1 .. i + 1 \in SUBSET DOMAIN s
          /\ Max(1 .. i + 1) = i + 1 /\ (1 .. i + 1) \ {i + 1} = 1 .. i
      BY <1>1, Positions
    <3>2. i + 1 \in 1 .. n /\ i + 1 \in 0 .. n
      BY <1>1
    <3> HIDE DEF n
    <3>3. g[1 .. i + 1] = op(g[1 .. i], s[i + 1])
      BY <1>8, <3>1
    <3>4. s[i + 1] \in ToSet(s)
      BY <1>1, <3>2
    <3> QED
      BY <1>4, <2>2, <3>2, <3>3, <3>4
  <2>3. n \in Nat /\ n \in 0 .. n
    BY <1>1
  <2> HIDE DEF S, n
  <2>4. \A i \in 0 .. n : i \in S
    BY <2>1, <2>2, <2>3, InductNat
  <2>5. n \in S
    BY <2>3, <2>4
  <2> QED
    BY <1>1, <2>5 DEF S
<1> HIDE DEF made
<1>10. /\ made.pkgs \in Seq(T) /\ made.rels \subseteq R
       /\ \A x \in made.rels : x.from \in {p.id : p \in ToSet(made.pkgs)}
  BY <1>9 DEF X
<1>11. \A p \in T : "id" \in DOMAIN p /\ p.id # NoID
  BY DEF WithID, NoID
<1> HIDE DEF stdlib, T
<1>12. Packages(made.pkgs) /\ \A p \in ToSet(made.pkgs) : p.id # NoID
  <2> DEFINE t == made.pkgs
  <2>1. t \in [1 .. Len(t) -> T] /\ Len(t) \in Nat
    BY <1>10, LenProperties
  <2> HIDE DEF t
  <2>2. t = [i \in 1 .. Len(t) |-> t[i]] /\ \A i \in 1 .. Len(t) : t[i] \in T
    BY <2>1
  <2>3. Packages(t) /\ ToSet(t) = {t[i] : i \in 1 .. Len(t)}
    BY <1>11, <2>1, <2>2, PackagesAre
  <2> QED
    BY <1>11, <2>2, <2>3 DEF t
<1> DEFINE u == s \o made.pkgs
<1>13. Packages(u) /\ ToSet(u) = ToSet(s) \cup ToSet(made.pkgs) /\ Identified(u) = Identified(s) \cup Identified(made.pkgs)
  BY <1>12, Joining
<1> HIDE DEF u
<1>14. EndsIn(made.rels, u)
  <2> SUFFICES ASSUME NEW x \in made.rels PROVE {x.from, x.to} \subseteq Identified(u)
    BY DEF EndsIn
  <2>1. PICK p \in ToSet(s) : x = edge(p)
    BY <1>10
  <2>2. x.to \in Identified(s)
    BY <2>1 DEF Identified
  <2>3. x.from \in Identified(made.pkgs)
    BY <1>10, <1>12 DEF Identified
  <2> QED
    BY <1>13, <2>2, <2>3
<1>15. EndsIn(r.rels, u)
  BY <1>13 DEF EndsIn
<1>16. \A p \in ToSet(u) : p.id # NoID
  BY <1>12, <1>13
<1> QED
  BY <1>2, <1>13, <1>14, <1>15, <1>16 DEF EndsIn, u

\* A site is asked for its packages after those before it.
LEMMA CollectedFrom ==
    ASSUME NEW P, IsFiniteSet(P), NEW sites, NEW m \in Nat, DOMAIN sites = 1 .. m, NEW bySite,
           \A s \in DOMAIN bySite : \A n \in DOMAIN bySite[s] : bySite[s][n] \in P
    PROVE  ToSet(collectPackages(bySite, sites)) \subseteq P
<1> DEFINE has(i, n) == sites[i] \in DOMAIN bySite /\ n \in DOMAIN bySite[sites[i]]
           names == UNION {DOMAIN bySite[s] : s \in ToSet(sites) \cap DOMAIN bySite}
           first(i, n) == has(i, n) /\ \A j \in 1 .. i - 1 : ~has(j, n)
           from(n) == CHOOSE i \in DOMAIN sites : first(i, n)
           S == {bySite[sites[from(n)]][n] : n \in names}
<1>1. ASSUME NEW n \in names PROVE has(from(n), n)
  <2> DEFINE T == {i \in 1 .. m : has(i, n)}
  <2>1. T # {}
    <3>1. PICK s \in ToSet(sites) \cap DOMAIN bySite : n \in DOMAIN bySite[s]
      OBVIOUS
    <3>2. PICK i \in 1 .. m : s = sites[i]
      BY DEF ToSet
    <3> QED
      BY <3>1, <3>2
  <2>2. T \subseteq Nat
    OBVIOUS
  <2>3. PICK k \in T : \A j \in T : k <= j
    <3> HIDE DEF T
    <3> QED
      BY <2>1, <2>2, LeastNat
  <2>4. k \in 1 .. m /\ has(k, n)
    OBVIOUS
  <2>5. ASSUME NEW j \in 1 .. k - 1 PROVE ~has(j, n)
    <3>1. j \in 1 .. m /\ ~(k <= j)
      BY <2>4
    <3> HIDE DEF has
    <3> QED
      BY <2>3, <3>1
  <2> HIDE DEF has
  <2>6. \E i \in DOMAIN sites : first(i, n)
    BY <2>4, <2>5
  <2> HIDE DEF first
  <2>7. first(from(n), n)
    BY <2>6
  <2> QED
    BY <2>7 DEF first
<1> HIDE DEF from, names
<1>2. S \subseteq P
  BY <1>1
<1>3. IsFiniteSet(S)
  BY <1>2, FS_Subset
<1>4. collectPackages(bySite, sites) = SetToSeq(S)
  BY DEF collectPackages, from, names
<1> HIDE DEF S
<1>5. ToSet(SetToSeq(S)) = S
  BY <1>3, InSequence
<1> QED
  BY <1>2, <1>4, <1>5

\* Packages of a site are related under the identifiers that they came with.
LEMMA WheelEggEnds ==
    ASSUME NEW r, Packages(r.pkgs), EndsIn(r.rels, r.pkgs), \A p \in ToSet(r.pkgs) : p.id # NoID,
           NEW could
    PROVE  LET w == wheelEggRelationships(r, could)
           IN /\ Packages(w.pkgs) /\ EndsIn(w.rels, w.pkgs)
              /\ \A p \in ToSet(w.pkgs) : p.id # NoID
<1> DEFINE q == r.pkgs
           n == Len(q)
           here(s) == {i \in DOMAIN q : q[i].meta.site = s}
           sites == {p.meta.site : p \in ToSet(q)}
           last(s, name) == CHOOSE i \in here(s) : q[i].name = name
                              /\ \A j \in here(s) : q[j].name = name => j <= i
           bySite == [s \in sites |-> [name \in {q[i].name : i \in here(s)} |-> q[last(s, name)]]]
           global == sites \ {v.site : v \in Venvs}
           systemOf(v) == IF v.system \in global THEN <<v.site, v.system>> ELSE <<v.site>>
           reached == {<<s>> : s \in global}
                      \cup {IF v.system = None THEN <<v.site>> ELSE systemOf(v) : v \in Venvs}
           related(s) == Resolve(SetIDs(collectPackages(bySite, s)))
           all == UNION {related(s) : s \in reached}
           w == wheelEggRelationships(r, could)
<1>1. n \in Nat /\ DOMAIN q = 1 .. n /\ ToSet(q) = {q[i] : i \in 1 .. n}
  BY Places DEF Packages
<1>2. IsFiniteSet(ToSet(q))
  <2>1. q \in [1 .. n -> ToSet(q)]
    BY LenProperties DEF Packages
  <2>2. q \in Surjection(1 .. n, ToSet(q))
    BY <1>1, <2>1 DEF Surjection
  <2>3. IsFiniteSet(1 .. n)
    BY <1>1, FS_Interval
  <2> QED
    BY <2>2, <2>3, FS_Surjection
<1>3. ASSUME NEW s \in DOMAIN bySite, NEW name \in DOMAIN bySite[s]
      PROVE  bySite[s][name] \in ToSet(q)
  <2> DEFINE T == {i \in 1 .. n : q[i].meta.site = s /\ q[i].name = name}
             latest(i) == q[i].name = name /\ \A j \in here(s) : q[j].name = name => j <= i
  <2>1. s \in sites /\ name \in {q[i].name : i \in here(s)} /\ bySite[s][name] = q[last(s, name)]
    OBVIOUS
  <2>2. T # {} /\ T \subseteq 1 .. n
    BY <1>1, <2>1
  <2>3. Max(T) \in T /\ \A j \in T : Max(T) >= j
    <3> HIDE DEF T, n
    <3> QED
      BY <1>1, <2>2, MaxIn
  <2> DEFINE k == Max(T)
  <2> HIDE DEF k
  <2>4. k \in T /\ \A j \in T : j \in Nat /\ k >= j
    <3> HIDE DEF T, n
    <3>1. \A j \in T : j \in Nat
      BY <2>2
    <3> QED
      BY <2>3, <3>1 DEF k
  <2>5. k \in here(s) /\ latest(k)
    BY <1>1, <2>4
  <2> HIDE DEF latest
  <2>6. \E i \in here(s) : latest(i)
    BY <2>5
  <2>7. last(s, name) = CHOOSE i \in here(s) : latest(i)
    BY DEF latest
  <2> HIDE DEF here, last
  <2>8. last(s, name) \in here(s)
    BY <2>6, <2>7
  <2>9. last(s, name) \in 1 .. n
    BY <1>1, <2>8 DEF here
  <2> HIDE DEF bySite
  <2> QED
    BY <1>1, <2>1, <2>9
<1> HIDE DEF bySite
<1>4. ASSUME NEW s \in reached PROVE \E m \in Nat : DOMAIN s = 1 .. m
  <2>1. \/ \E a : s = <<a>>
        \/ \E a, b : s = <<a, b>>
    OBVIOUS
  <2>2. ASSUME NEW a PROVE 1 \in Nat /\ DOMAIN <<a>> = 1 .. 1
    OBVIOUS
  <2>3. ASSUME NEW a, NEW b PROVE 2 \in Nat /\ DOMAIN <<a, b>> = 1 .. 2
    OBVIOUS
  <2> QED
    BY <2>1, <2>2, <2>3
<1>5. ASSUME NEW s \in reached PROVE ToSet(collectPackages(bySite, s)) \subseteq ToSet(q)
  <2>1. PICK m \in Nat : DOMAIN s = 1 .. m
    BY <1>4
  <2> HIDE DEF q
  <2> QED
    BY <1>2, <1>3, <2>1, CollectedFrom
<1>6. ASSUME NEW s \in reached, NEW x \in related(s) PROVE {x.from, x.to} \subseteq Identified(q)
  <2> DEFINE c == collectPackages(bySite, s)
             d == SetIDs(c)
  <2>1. \A i \in DOMAIN c : c[i] \in ToSet(q)
    BY <1>5 DEF ToSet
  <2>2. \A i \in DOMAIN c : c[i].id # NoID
    BY <2>1
  <2> HIDE DEF c
  <2>3. DOMAIN d = DOMAIN c /\ \A i \in DOMAIN c : d[i] = c[i]
    BY <2>2 DEF SetIDs
  <2> HIDE DEF d
  <2>4. \A p \in ToSet(d) : p \in ToSet(q)
    BY <2>1, <2>3 DEF ToSet
  <2>5. {x.from, x.to} \subseteq {p.id : p \in ToSet(d)}
    BY <1>6, ResolvedEnds DEF c, d
  <2> QED
    BY <2>4, <2>5 DEF Identified
<1> HIDE DEF related, reached
<1>7. EndsIn(all, q)
  BY <1>6 DEF EndsIn
<1>8. \/ w = r \/ w = Result(<<>>, {}, Leaf("pyvenv.cfg"))
      \/ w = Result(q, r.rels \cup all, r.err)
  BY DEF wheelEggRelationships, related, reached, bySite
<1> HIDE DEF all, w
<1>9. CASE w = r
  BY <1>9 DEF w
<1>10. CASE w = Result(<<>>, {}, Leaf("pyvenv.cfg"))
  <2>1. w.pkgs = <<>> /\ w.rels = {}
    BY <1>10 DEF Result
  <2>2. ToSet(<<>>) = {} /\ <<>> \in Seq({})
    BY DEF ToSet
  <2> QED
    BY <2>1, <2>2 DEF Packages, EndsIn, w
<1>11. CASE w = Result(q, r.rels \cup all, r.err)
  <2>1. w.pkgs = q /\ w.rels = r.rels \cup all
    BY <1>11 DEF Result
  <2> QED
    BY <1>7, <2>1 DEF EndsIn, w
<1> QED
  BY <1>8, <1>9, <1>10, <1>11

\* Sequences with the same identifiers at every position.
LEMMA SameIdentifiers ==
    ASSUME NEW n, NEW s, ToSet(s) = {s[i] : i \in 1 .. n},
           NEW f, ToSet(f) = {f[i] : i \in 1 .. n}, \A i \in 1 .. n : f[i].id = s[i].id
    PROVE  /\ Identified(f) = Identified(s)
           /\ (\A p \in ToSet(s) : p.id # NoID) => \A p \in ToSet(f) : p.id # NoID
<1>1. {p.id : p \in ToSet(f)} \subseteq {p.id : p \in ToSet(s)}
  OBVIOUS
<1>2. {p.id : p \in ToSet(s)} \subseteq {p.id : p \in ToSet(f)}
  OBVIOUS
<1>3. (\A p \in ToSet(s) : p.id # NoID) => \A p \in ToSet(f) : p.id # NoID
  OBVIOUS
<1> QED
  BY <1>1, <1>2, <1>3 DEF Identified

\* Packages with the name of the cataloger that found them.
Stamped(s, name) == [i \in DOMAIN s |-> [s[i] EXCEPT !.foundBy = name]]

\* That name changes no identifier.
LEMMA StampedEnds ==
    ASSUME NEW s, Packages(s), NEW name
    PROVE  /\ Packages(Stamped(s, name)) /\ Identified(Stamped(s, name)) = Identified(s)
           /\ (\A p \in ToSet(s) : p.id # NoID) => \A p \in ToSet(Stamped(s, name)) : p.id # NoID
<1> DEFINE n == Len(s)
           f == Stamped(s, name)
<1>1. n \in Nat /\ DOMAIN s = 1 .. n /\ ToSet(s) = {s[i] : i \in 1 .. n}
  BY Places DEF Packages
<1>2. f = [i \in 1 .. n |-> [s[i] EXCEPT !.foundBy = name]]
  BY <1>1 DEF Stamped
<1> HIDE DEF n, f
<1>3. \A i \in 1 .. n : "id" \in DOMAIN s[i]
  BY <1>1 DEF Packages
<1>4. ASSUME NEW i \in 1 .. n PROVE "id" \in DOMAIN f[i] /\ f[i].id = s[i].id
  <2>1. f[i] = [s[i] EXCEPT !.foundBy = name]
    BY <1>2
  <2> QED
    BY <1>3, <2>1
<1>5. f = [i \in 1 .. n |-> f[i]]
  BY <1>2
<1>6. Packages(f) /\ ToSet(f) = {f[i] : i \in 1 .. n}
  BY <1>1, <1>4, <1>5, PackagesAre
<1>7. /\ Identified(f) = Identified(s)
      /\ (\A p \in ToSet(s) : p.id # NoID) => \A p \in ToSet(f) : p.id # NoID
  <2>1. \A i \in 1 .. n : f[i].id = s[i].id
    BY <1>4
  <2>2. ToSet(s) = {s[i] : i \in 1 .. n} /\ ToSet(f) = {f[i] : i \in 1 .. n}
    BY <1>1, <1>6
  <2>3. Identified(f) = Identified(s)
    BY <2>1, <2>2, SameIdentifiers
  <2>4. (\A p \in ToSet(s) : p.id # NoID) => \A p \in ToSet(f) : p.id # NoID
    BY <2>1, <2>2
  <2> QED
    BY <2>3, <2>4
<1> QED
  BY <1>6, <1>7 DEF f

\* What a parser returns, and what stands for the result of one that panics.
LEMMA InvokedEnds ==
    ASSUME NEW c \in Catalogers, NEW at \in ToSet(selectFiles(c)), NEW o \in invokeParser(at)
    PROVE  /\ Packages(o.pkgs) /\ EndsIn(o.rels, o.pkgs)
           /\ Replaces(c) => o.rels = {}
           /\ Trusts(c) => \A p \in ToSet(o.pkgs) : p.id # NoID
<1>1. CASE o \in Outcomes[at]
  <2>1. /\ Returned(o)
        /\ Replaces(c) => o.rels = {}
        /\ Trusts(c) => \A p \in ToSet(o.pkgs) : p.id # NoID
    BY <1>1, CatalogersAssumption DEF Replaces, Trusts
  <2> QED
    BY <2>1 DEF Returned, Packages, EndsIn, Identified
<1>2. CASE o \in {Result(<<>>, {}, Leaf(e)) : e \in {"unreadable", "panic"}}
  <2>1. o.pkgs = <<>> /\ o.rels = {}
    BY <1>2 DEF Result
  <2>2. ToSet(<<>>) = {} /\ <<>> \in Seq({})
    BY DEF ToSet
  <2> QED
    BY <2>1, <2>2 DEF Packages, EndsIn
<1> QED
  BY <1>1, <1>2 DEF invokeParser

\* The results of one parser relate nothing to what another one returned.
LEMMA CollectedEnds ==
    ASSUME NEW all, Packages(all.pkgs), EndsIn(all.rels, all.pkgs),
           NEW at, NEW o, Packages(o.pkgs), EndsIn(o.rels, o.pkgs)
    PROVE  LET both == Collected(all, at, o)
           IN /\ Packages(both.pkgs) /\ EndsIn(both.rels, both.pkgs)
              /\ (\A p \in ToSet(all.pkgs) \cup ToSet(o.pkgs) : p.id # NoID)
                    => \A p \in ToSet(both.pkgs) : p.id # NoID
<1> DEFINE f == Stamped(o.pkgs, cataloger.name)
           s == all.pkgs \o f
           both == Collected(all, at, o)
<1>1. both.pkgs = s /\ both.rels = all.rels \cup o.rels
  BY DEF Collected, Result, Stamped
<1>2. /\ Packages(f) /\ Identified(f) = Identified(o.pkgs)
      /\ (\A p \in ToSet(o.pkgs) : p.id # NoID) => \A p \in ToSet(f) : p.id # NoID
  BY StampedEnds
<1> HIDE DEF f
<1>3. /\ Packages(s) /\ ToSet(s) = ToSet(all.pkgs) \cup ToSet(f)
      /\ Identified(s) = Identified(all.pkgs) \cup Identified(f)
  BY <1>2, Joining
<1> HIDE DEF s, both
<1>4. EndsIn(all.rels \cup o.rels, s)
  BY <1>2, <1>3 DEF EndsIn
<1>5. (\A p \in ToSet(all.pkgs) \cup ToSet(o.pkgs) : p.id # NoID) => \A p \in ToSet(s) : p.id # NoID
  BY <1>2, <1>3
<1> QED
  BY <1>1, <1>3, <1>4, <1>5 DEF both

-------------------------------------------------------------------------------
\* A cataloger whose processors replace packages relates none until the last of them has
\* run; any other relates packages that it has, under identifiers that stay what they are.
CatalogerInv ==
    /\ cataloger \in Catalogers
    /\ processed \in 0 .. Len(cataloger.processors)
    /\ pc \in {"check", "parse"} => processed = 0
    /\ requests = <<>> \/ requests = selectFiles(cataloger)
    /\ started \in 0 .. Len(requests) /\ running \subseteq 1 .. started
    /\ DOMAIN found = {"pkgs", "rels", "err"}
    /\ EndsIn(found.rels, found.pkgs)
    /\ Replaces(cataloger) /\ processed < Len(cataloger.processors) => found.rels = {}
    /\ ~Replaces(cataloger) => Packages(found.pkgs)
    /\ Trusts(cataloger) => \A p \in ToSet(found.pkgs) : p.id # NoID

\* What is known of the processors and the files of a cataloger.
LEMMA CatalogersRelate ==
    ASSUME NEW c \in Catalogers
    PROVE  /\ c.processors \in Seq(Replacing \cup Trusting
                                   \cup {"dependency", "resolveDependencies", "denySelfReferences"})
           /\ Len(c.processors) \in Nat
           /\ \A i \in 1 .. Len(c.processors) :
                 /\ c.processors[i] \in Replacing \cup Trusting
                        \cup {"dependency", "resolveDependencies", "denySelfReferences"}
                 /\ c.processors[i] \in Replacing => Replaces(c)
                 /\ c.processors[i] \in Trusting => Trusts(c)
                 /\ Replaces(c) /\ c.processors[i] \in {"dependency", "resolveDependencies"}
                        => i = Len(c.processors)
           /\ Replaces(c) => ~Trusts(c)
           /\ selectFiles(c) \in Seq(DOMAIN Outcomes)
<1> DEFINE names == Replacing \cup Trusting \cup {"dependency", "resolveDependencies", "denySelfReferences"}
<1>1. /\ c.processors \in Seq(names) /\ selectFiles(c) \in Seq(DOMAIN Outcomes)
      /\ Replaces(c) => /\ ~Trusts(c)
                        /\ \A i \in DOMAIN c.processors :
                              c.processors[i] \in {"dependency", "resolveDependencies"} => i = Len(c.processors)
  BY CatalogersAssumption DEF Replaces, Trusts
<1> HIDE DEF names
<1>2. /\ Len(c.processors) \in Nat /\ DOMAIN c.processors = 1 .. Len(c.processors)
      /\ \A i \in 1 .. Len(c.processors) : c.processors[i] \in names
  BY <1>1, LenProperties, ElementOfSeq
<1>3. \A i \in 1 .. Len(c.processors) : /\ c.processors[i] \in Replacing => Replaces(c)
                                        /\ c.processors[i] \in Trusting => Trusts(c)
  BY <1>2 DEF Replaces, Trusts
<1> QED
  BY <1>1, <1>2, <1>3 DEF names

\* What a processor makes of packages that none replaces.
LEMMA ProcessedEnds ==
    ASSUME NEW r, Packages(r.pkgs), EndsIn(r.rels, r.pkgs),
           NEW name \in Trusting \cup {"dependency", "resolveDependencies", "denySelfReferences"},
           name \in Trusting => \A p \in ToSet(r.pkgs) : p.id # NoID
    PROVE  LET w == Process(name, r)
           IN /\ Packages(w.pkgs) /\ EndsIn(w.rels, w.pkgs)
              /\ (\A p \in ToSet(r.pkgs) : p.id # NoID) => \A p \in ToSet(w.pkgs) : p.id # NoID
<1>1. CASE name \in {"dependency", "resolveDependencies"}
  <2>1. Process(name, r) = ResolveDependencies(r)
    BY <1>1 DEF Process
  <2> QED
    BY <2>1, DependenciesEnd
<1>2. CASE name = "denySelfReferences"
  <2>1. Process(name, r) = denySelfReferences(r)
    BY <1>2 DEF Process
  <2>2. denySelfReferences(r).pkgs = r.pkgs /\ denySelfReferences(r).rels \subseteq r.rels
    BY DEF denySelfReferences, Result
  <2> QED
    BY <2>1, <2>2 DEF EndsIn
<1>3. CASE name = "stdlib"
  <2>1. Process(name, r) = stdlibProcessor(r)
    BY <1>3 DEF Process
  <2> QED
    BY <1>3, <2>1, StdlibEnds DEF Trusting
<1>4. CASE name = "wheelEgg"
  <2>1. Process(name, r) = wheelEggRelationships(r, readable)
    BY <1>4 DEF Process
  <2> QED
    BY <1>4, <2>1, WheelEggEnds DEF Trusting
<1> QED
  BY <1>1, <1>2, <1>3, <1>4 DEF Trusting

\* A result with the relationships that there were.
Keeps(w, r) == w = r \/ \E pkgs : w = Result(pkgs, r.rels, r.err)

\* What replaces packages relates none.
LEMMA ReplacedEnds ==
    ASSUME NEW r, r.rels = {}, NEW name \in Replacing \cup {"denySelfReferences"}
    PROVE  Process(name, r).rels = {}
<1>0. \A pkgs, rels, err : Result(pkgs, rels, err).rels = rels
  BY DEF Result
<1>1. CASE name = "denySelfReferences"
  BY <1>1 DEF Process, denySelfReferences, Result
<1>2. CASE name = "resolvePacklistVersions"
  <2>1. Process(name, r) = resolvePacklistVersions(r)
    BY <1>2 DEF Process
  <2>2. Keeps(resolvePacklistVersions(r), r)
    BY DEF resolvePacklistVersions, Keeps
  <2> QED
    BY <1>0, <2>1, <2>2 DEF Keeps
<1>3. CASE name = "mergeDistributions"
  <2>1. Process(name, r) = mergeDistributions(r)
    BY <1>3 DEF Process
  <2>2. Keeps(mergeDistributions(r), r)
    BY DEF mergeDistributions, Keeps
  <2> QED
    BY <1>0, <2>1, <2>2 DEF Keeps
<1>4. CASE name = "ggufMerge"
  <2>1. Process(name, r) = ggufMergeProcessor(r)
    BY <1>4 DEF Process
  <2>2. Keeps(ggufMergeProcessor(r), r)
    BY DEF ggufMergeProcessor, Keeps
  <2> QED
    BY <1>0, <2>1, <2>2 DEF Keeps
<1>5. CASE name = "safeTensorsMerge"
  <2>1. Process(name, r) = safeTensorsMergeProcessor(r)
    BY <1>5 DEF Process
  <2>2. Keeps(safeTensorsMergeProcessor(r), r)
    BY DEF safeTensorsMergeProcessor, Keeps
  <2> QED
    BY <1>0, <2>1, <2>2 DEF Keeps
<1> QED
  BY <1>1, <1>2, <1>3, <1>4, <1>5 DEF Replacing

\* What a processor leaves that panics.
LEMMA AbandonedEnds ==
    ASSUME NEW r, {"pkgs", "rels", "err"} = DOMAIN r, Packages(r.pkgs), EndsIn(r.rels, r.pkgs),
           NEW name, name # "resolvePacklistVersions", NEW w \in Abandoned(name, r)
    PROVE  /\ Packages(w.pkgs) /\ EndsIn(w.rels, w.pkgs)
           /\ (\A p \in ToSet(r.pkgs) : p.id # NoID) => \A p \in ToSet(w.pkgs) : p.id # NoID
<1>1. CASE name \notin {"dependency", "resolveDependencies"}
  <2>1. w = r
    BY <1>1 DEF Abandoned
  <2> QED
    BY <2>1
<1>2. CASE name \in {"dependency", "resolveDependencies"}
  <2>1. Process(name, r).pkgs = SetIDs(r.pkgs)
    BY <1>2 DEF Process, ResolveDependencies, Result
  <2>2. PICK n \in 0 .. Len(r.pkgs) :
            w = [r EXCEPT !.pkgs = SubSeq(Process(name, r).pkgs, 1, n) \o SubSeq(@, n + 1, Len(@))]
    BY <1>2 DEF Abandoned
  <2>3. w = [r EXCEPT !.pkgs = SubSeq(SetIDs(r.pkgs), 1, n) \o SubSeq(r.pkgs, n + 1, Len(r.pkgs))]
    BY <2>1, <2>2
  <2> DEFINE s == SubSeq(SetIDs(r.pkgs), 1, n) \o SubSeq(r.pkgs, n + 1, Len(r.pkgs))
  <2>4. w = [r EXCEPT !.pkgs = s]
    BY <2>3
  <2>5. /\ Packages(s) /\ EndsIn(r.rels, s)
        /\ (\A p \in ToSet(r.pkgs) : p.id # NoID) => \A p \in ToSet(s) : p.id # NoID
    BY AbandonedEnd
  <2> HIDE DEF s
  <2>6. w.pkgs = s /\ w.rels = r.rels
    BY <2>4
  <2> QED
    BY <2>5, <2>6
<1> QED
  BY <1>1, <1>2

\* It leaves the relationships as they were.
LEMMA AbandonedKeeps ==
    ASSUME NEW r, {"pkgs", "rels", "err"} = DOMAIN r, NEW name, NEW w \in Abandoned(name, r)
    PROVE  DOMAIN w = {"pkgs", "rels", "err"} /\ w.rels = r.rels
<1>1. w = r \/ \E s : w = [r EXCEPT !.pkgs = s]
  BY DEF Abandoned
<1> QED
  BY <1>1

\* A processor returns packages, relationships and an error.
LEMMA ProcessedIs ==
    ASSUME NEW r, {"pkgs", "rels", "err"} = DOMAIN r,
           NEW name \in Replacing \cup Trusting
                \cup {"dependency", "resolveDependencies", "denySelfReferences"}
    PROVE  DOMAIN Process(name, r) = {"pkgs", "rels", "err"}
<1> DEFINE made(w) == w = r \/ \E pkgs, rels, err : w = Result(pkgs, rels, err)
<1>0. \A w : made(w) => DOMAIN w = {"pkgs", "rels", "err"}
  BY DEF Result
<1>1. /\ made(ResolveDependencies(r)) /\ made(denySelfReferences(r)) /\ made(stdlibProcessor(r))
      /\ made(wheelEggRelationships(r, readable))
  BY DEF ResolveDependencies, denySelfReferences, stdlibProcessor, wheelEggRelationships
<1>2. made(resolvePacklistVersions(r))
  BY DEF resolvePacklistVersions
<1>3. made(mergeDistributions(r))
  BY DEF mergeDistributions
<1>4. made(ggufMergeProcessor(r))
  BY DEF ggufMergeProcessor
<1>5. made(safeTensorsMergeProcessor(r))
  BY DEF safeTensorsMergeProcessor
<1> HIDE DEF made
<1>6. made(Process(name, r))
  BY <1>1, <1>2, <1>3, <1>4, <1>5 DEF Process, Replacing, Trusting
<1> QED
  BY <1>0, <1>6

\* No relationship that is returned has an end that is not returned, whichever parsers and
\* processors run or panic, in whatever order the parsers finish.
THEOREM CatalogersRelateTheirs == CatalogSpec => []EndsReturned
<1>1. CatalogInit => CatalogerInv
  <2> SUFFICES ASSUME CatalogInit PROVE CatalogerInv
    OBVIOUS
  <2>1. found.pkgs = <<>> /\ found.rels = {} /\ DOMAIN found = {"pkgs", "rels", "err"}
    BY DEF CatalogInit, Nothing, Result
  <2>2. ToSet(<<>>) = {} /\ <<>> \in Seq({})
    BY DEF ToSet
  <2>3. Len(cataloger.processors) \in Nat
    BY CatalogersRelate DEF CatalogInit
  <2>4. Len(<<>>) = 0 /\ requests = <<>> /\ started = 0 /\ running = {} /\ processed = 0
    BY DEF CatalogInit
  <2> QED
    BY <2>1, <2>2, <2>3, <2>4 DEF CatalogInit, CatalogerInv, Packages, EndsIn
<1>2. CatalogerInv /\ [CatalogNext]_catalogerVars => CatalogerInv'
  <2> SUFFICES ASSUME CatalogerInv, [CatalogNext]_catalogerVars PROVE CatalogerInv'
    OBVIOUS
  <2> DEFINE c == cataloger
             s == found.pkgs
             trusted == \A p \in ToSet(found.pkgs) : p.id # NoID
  <2>1. /\ c \in Catalogers /\ Len(c.processors) \in Nat /\ processed \in 0 .. Len(c.processors)
        /\ Len(selectFiles(c)) \in Nat /\ Len(<<>>) = 0
        /\ started \in 0 .. Len(requests) /\ started \in 0 .. Len(selectFiles(c))
    <3>1. c \in Catalogers
      BY DEF CatalogerInv
    <3>2. Len(selectFiles(c)) \in Nat /\ Len(c.processors) \in Nat
      BY <3>1, CatalogersRelate, LenProperties
    <3> QED
      BY <3>1, <3>2 DEF CatalogerInv
  <2>2. ASSUME Check PROVE CatalogerInv'
    <3>1. CASE pc' = "parse" /\ requests' = selectFiles(cataloger) /\ UNCHANGED found
      BY <2>1, <2>2, <3>1 DEF Check, CatalogerInv, EndsIn, Packages, Identified
    <3>2. CASE pc' = "done" /\ found' = Result(<<>>, {}, Leaf("check")) /\ UNCHANGED requests
      <4>1. found'.pkgs = <<>> /\ found'.rels = {} /\ DOMAIN found' = {"pkgs", "rels", "err"}
        BY <3>2 DEF Result
      <4>2. ToSet(<<>>) = {} /\ <<>> \in Seq({})
        BY DEF ToSet
      <4> QED
        BY <2>1, <2>2, <3>2, <4>1, <4>2 DEF Check, CatalogerInv, EndsIn, Packages
    <3> QED
      BY <2>2, <3>1, <3>2 DEF Check
  <2>3. ASSUME Start PROVE CatalogerInv'
    <3>1. started' = started + 1 /\ started' \in 0 .. Len(requests) /\ running' \subseteq 1 .. started'
      <4>1. Len(requests) \in Nat /\ started \in 0 .. Len(requests) /\ running \subseteq 1 .. started
        BY <2>1 DEF CatalogerInv
      <4> QED
        BY <2>3, <4>1 DEF Start
    <3> QED
      BY <2>1, <2>3, <3>1 DEF Start, CatalogerInv, EndsIn, Packages, Identified
  <2>4. ASSUME Finish PROVE CatalogerInv'
    <3>0. PICK i \in running : \E o \in invokeParser(requests[i]) :
              running' = running \ {i} /\ found' = Collected(found, requests[i], o)
      BY <2>4 DEF Finish
    <3>1. PICK o \in invokeParser(requests[i]) :
              running' = running \ {i} /\ found' = Collected(found, requests[i], o)
      BY <3>0
    <3>2. requests = selectFiles(c) /\ i \in 1 .. Len(requests)
      <4>1. /\ i \in 1 .. started /\ started \in 0 .. Len(requests)
            /\ requests = <<>> \/ requests = selectFiles(c)
        BY DEF CatalogerInv
      <4>2. requests # <<>>
        BY <2>1, <4>1
      <4>3. Len(requests) \in Nat
        BY <2>1, <4>1, <4>2
      <4> QED
        BY <4>1, <4>2, <4>3
    <3>3. requests[i] \in ToSet(selectFiles(c))
      <4>1. selectFiles(c) \in Seq(DOMAIN Outcomes)
        BY <2>1, CatalogersRelate
      <4>2. DOMAIN selectFiles(c) = 1 .. Len(selectFiles(c))
        BY <4>1, LenProperties
      <4> QED
        BY <3>2, <4>2 DEF ToSet
    <3>4. /\ Packages(o.pkgs) /\ EndsIn(o.rels, o.pkgs)
          /\ Replaces(c) => o.rels = {}
          /\ Trusts(c) => \A p \in ToSet(o.pkgs) : p.id # NoID
      BY <2>1, <3>3, InvokedEnds
    <3> DEFINE both == Collected(found, requests[i], o)
    <3>5. DOMAIN both = {"pkgs", "rels", "err"} /\ both.rels = found.rels \cup o.rels
      BY DEF Collected, Result
    <3>6. processed = 0 /\ processed' = 0 /\ pc' = "parse"
          /\ UNCHANGED <<cataloger, requests, started>> /\ found' = both
      BY <2>4, <3>1 DEF Finish, CatalogerInv
    <3> HIDE DEF both
    <3>7. CASE ~Replaces(c)
      <4>1. Packages(found.pkgs) /\ EndsIn(found.rels, found.pkgs) /\ (Trusts(c) => trusted)
        BY <3>7 DEF CatalogerInv
      <4>2. /\ Packages(both.pkgs) /\ EndsIn(both.rels, both.pkgs)
            /\ Trusts(c) => \A p \in ToSet(both.pkgs) : p.id # NoID
        BY <3>4, <4>1, CollectedEnds DEF both
      <4>3. Packages(found'.pkgs) /\ EndsIn(found'.rels, found'.pkgs)
            /\ (Trusts(c) => \A p \in ToSet(found'.pkgs) : p.id # NoID)
            /\ DOMAIN found' = {"pkgs", "rels", "err"}
        BY <3>5, <3>6, <4>2
      <4>4. /\ cataloger' \in Catalogers /\ processed' \in 0 .. Len(cataloger'.processors)
            /\ requests' = selectFiles(cataloger')
            /\ started' \in 0 .. Len(requests') /\ running' \subseteq 1 .. started'
        BY <2>1, <3>1, <3>2, <3>6 DEF CatalogerInv
      <4> QED
        BY <3>6, <3>7, <4>3, <4>4 DEF CatalogerInv, EndsIn, Packages, Identified
    <3>8. CASE Replaces(c)
      <4>1. ~Trusts(c)
        BY <2>1, <3>8, CatalogersRelate
      <4>2. 0 < Len(c.processors)
        BY <2>1, <3>8, LenProperties, CatalogersRelate DEF Replaces
      <4>3. found'.rels = {}
        <5>1. found.rels = {}
          BY <3>6, <3>8, <4>2 DEF CatalogerInv
        <5> QED
          BY <3>4, <3>5, <3>6, <3>8, <5>1
      <4>4. /\ cataloger' \in Catalogers /\ processed' \in 0 .. Len(cataloger'.processors)
            /\ requests' = selectFiles(cataloger')
            /\ started' \in 0 .. Len(requests') /\ running' \subseteq 1 .. started'
        BY <2>1, <3>1, <3>2, <3>6 DEF CatalogerInv
      <4>5. DOMAIN found' = {"pkgs", "rels", "err"} /\ EndsIn(found'.rels, found'.pkgs)
        BY <3>5, <3>6, <4>3 DEF EndsIn
      <4> QED
        BY <3>6, <3>8, <4>1, <4>3, <4>4, <4>5 DEF CatalogerInv, EndsIn, Identified
    <3> QED
      BY <3>7, <3>8
  <2>5. ASSUME AllParsed PROVE CatalogerInv'
    BY <2>1, <2>5 DEF AllParsed, CatalogerInv, EndsIn, Packages, Identified
  <2>6. ASSUME processSafely PROVE CatalogerInv'
    <3> DEFINE name == cataloger.processors[processed + 1]
               w == found'
    <3>1. /\ pc' = "process" /\ processed < Len(c.processors) /\ processed' = processed + 1
          /\ UNCHANGED <<cataloger, requests, started, running>>
          /\ w = Process(name, found) \/ w \in Abandoned(name, found)
      BY <2>6 DEF processSafely
    <3>2. processed + 1 \in 1 .. Len(c.processors) /\ processed' \in 0 .. Len(c.processors)
      BY <2>1, <3>1
    <3>3. /\ name \in Replacing \cup Trusting \cup {"dependency", "resolveDependencies", "denySelfReferences"}
          /\ name \in Replacing => Replaces(c)
          /\ name \in Trusting => Trusts(c)
          /\ Replaces(c) /\ name \in {"dependency", "resolveDependencies"} => processed' = Len(c.processors)
          /\ Replaces(c) => ~Trusts(c)
      BY <2>1, <3>1, <3>2, CatalogersRelate
    <3>4. DOMAIN found = {"pkgs", "rels", "err"} /\ EndsIn(found.rels, found.pkgs)
      BY DEF CatalogerInv
    <3> HIDE DEF name
    <3>5. DOMAIN w = {"pkgs", "rels", "err"}
      BY <3>1, <3>3, <3>4, ProcessedIs, AbandonedKeeps
    <3>6. CASE ~Replaces(c)
      <4>1. /\ Packages(found.pkgs) /\ (Trusts(c) => trusted)
            /\ name \in Trusting \cup {"dependency", "resolveDependencies", "denySelfReferences"}
            /\ name # "resolvePacklistVersions"
        BY <3>3, <3>6 DEF CatalogerInv, Replacing
      <4>2. /\ Packages(w.pkgs) /\ EndsIn(w.rels, w.pkgs)
            /\ trusted => \A p \in ToSet(w.pkgs) : p.id # NoID
        <5>1. CASE w = Process(name, found)
          <6>1. name \in Trusting => trusted
            BY <3>3, <4>1
          <6> HIDE DEF w
          <6> QED
            BY <3>4, <4>1, <5>1, <6>1, ProcessedEnds
        <5>2. CASE w \in Abandoned(name, found)
          <6> HIDE DEF w
          <6> QED
            BY <3>4, <4>1, <5>2, AbandonedEnds
        <5> QED
          BY <3>1, <5>1, <5>2
      <4> QED
        BY <2>1, <3>1, <3>2, <3>5, <3>6, <4>1, <4>2 DEF CatalogerInv, EndsIn, Packages, Identified
    <3>7. CASE Replaces(c)
      <4>1. found.rels = {}
        BY <3>1, <3>7 DEF CatalogerInv
      <4>2. CASE w.rels = {}
        BY <2>1, <3>1, <3>2, <3>3, <3>5, <3>7, <4>2 DEF CatalogerInv, EndsIn
      <4>3. CASE name \in {"dependency", "resolveDependencies"} /\ w = Process(name, found)
        <5>1. w = ResolveDependencies(found)
          BY <4>3 DEF Process
        <5>2. EndsIn(w.rels, w.pkgs)
          BY <4>1, <5>1, FirstDependenciesEnd
        <5>3. processed' = Len(c.processors) /\ ~Trusts(c)
          BY <3>3, <3>7, <4>3
        <5> QED
          BY <2>1, <3>1, <3>2, <3>5, <3>7, <5>2, <5>3 DEF CatalogerInv, EndsIn, Identified
      <4>4. CASE name \notin {"dependency", "resolveDependencies"} /\ w = Process(name, found)
        <5>1. name \in Replacing \cup {"denySelfReferences"}
          BY <3>3, <3>7, <4>4
        <5> QED
          BY <4>1, <4>2, <4>4, <5>1, ReplacedEnds
      <4>5. CASE w \in Abandoned(name, found)
        BY <3>4, <4>1, <4>2, <4>5, AbandonedKeeps
      <4> QED
        BY <3>1, <4>3, <4>4, <4>5
    <3> QED
      BY <3>6, <3>7
  <2>7. ASSUME Return PROVE CatalogerInv'
    BY <2>1, <2>7 DEF Return, CatalogerInv, EndsIn, Packages, Identified
  <2>8. CASE UNCHANGED catalogerVars
    BY <2>8 DEF catalogerVars, CatalogerInv, EndsIn, Packages, Identified
  <2> QED
    BY <2>2, <2>3, <2>4, <2>5, <2>6, <2>7, <2>8 DEF CatalogNext
<1>3. CatalogerInv => EndsReturned
  BY DEF CatalogerInv, EndsReturned, EndsIn, Identified
<1> QED
  BY <1>1, <1>2, <1>3, PTL DEF CatalogSpec
================================================================================
