------------------------------- MODULE Induction -------------------------------
(* Induction over the positions of a sequence, and what a fold computes.        *)
(*                                                                              *)
(* The induction theorems of the library are about an operator; these are about *)
(* sets.  FoldLeft(op, base, s) chooses a function g on the sets of positions   *)
(* with g[{}] = base and g[u] = op(g[u \ {Max(u)}], s[Max(u)]).  That there is  *)
(* one follows from Iterate; along the prefixes 1 .. i it is then known step by *)
(* step, and InductNat proves of g[1 .. Len(s)] what op preserves.              *)
EXTENDS Integers, Sequences, SequencesExt, FiniteSetTheorems, SequenceTheorems,
        WellFoundedInduction, TLAPS

\* A set of natural numbers that is not empty has a least element.
LEMMA LeastNat ==
    ASSUME NEW T, T \subseteq Nat, T # {}
    PROVE  \E x \in T : \A y \in T : x <= y
<1> DEFINE less == OpToRel(<, Nat)
<1>1. IsWellFoundedOn(less, Nat)
  BY NatLessThanWellFounded
<1>2. \A x, y \in Nat : <<y, x>> \in less <=> y < x
  BY DEF OpToRel
<1> HIDE DEF less
<1>3. PICK x \in T : \A y \in T : ~(<<y, x>> \in less)
  BY <1>1, WFMin
<1>4. x \in Nat /\ \A y \in T : y \in Nat /\ ~(y < x)
  BY <1>2, <1>3
<1>5. \A y \in T : x <= y
  BY <1>4
<1> QED
  BY <1>5

\* A set that holds 0 and, with each number below n, its successor holds 0 .. n.
LEMMA InductNat ==
    ASSUME NEW n \in Nat, NEW S, 0 \in S, \A i \in 0 .. n - 1 : i \in S => i + 1 \in S
    PROVE  \A i \in 0 .. n : i \in S
<1> DEFINE T == {i \in 0 .. n : i \notin S}
<1> SUFFICES ASSUME T # {} PROVE FALSE
  OBVIOUS
<1>1. T \subseteq Nat
  OBVIOUS
<1> HIDE DEF T
<1>2. PICK x \in T : \A y \in T : x <= y
  BY <1>1, LeastNat
<1> USE DEF T
<1>3. x # 0 /\ x - 1 \in 0 .. n - 1
  BY <1>2
<1>4. x - 1 \in S
  BY <1>2, <1>3
<1> QED
  BY <1>2, <1>3, <1>4

\* Which number a fold over the positions of a sequence takes next.
LEMMA MaxOf ==
    ASSUME NEW n \in Nat, NEW s, s \subseteq 1 .. n + 1
    PROVE  n + 1 \in s => Max(s) = n + 1
<1> SUFFICES ASSUME n + 1 \in s PROVE Max(s) = n + 1
  OBVIOUS
<1>1. \A y \in s : n + 1 >= y
  OBVIOUS
<1>2. \A x \in s : (\A y \in s : x >= y) => x = n + 1
  OBVIOUS
<1> QED
  BY <1>1, <1>2 DEF Max

\* A set of positions has a last one.
LEMMA MaxIn ==
    ASSUME NEW n \in Nat, NEW s, s \subseteq 1 .. n, s # {}
    PROVE  Max(s) \in s /\ \A y \in s : Max(s) >= y
<1> DEFINE T == {k \in Nat : n - k \in s}
<1>1. T \subseteq Nat
  OBVIOUS
<1>2. \A y \in s : y \in Nat /\ n - y \in Nat /\ n - (n - y) = y
  OBVIOUS
<1>3. \A y \in s : n - y \in T
  BY <1>2
<1>4. T # {}
  BY <1>3
<1> HIDE DEF T
<1>5. PICK x \in T : \A y \in T : x <= y
  BY <1>1, <1>4, LeastNat
<1>6. x \in Nat /\ n - x \in s
  BY <1>5 DEF T
<1>7. \A y \in s : n - x >= y
  BY <1>2, <1>3, <1>5, <1>6
<1> QED
  BY <1>6, <1>7 DEF Max

\* f is the iteration of step over the sets of positions, the last position outermost:
\* the function that FoldLeft chooses.
Iterates(f, n, X, base, step) ==
    /\ f \in [SUBSET (1 .. n) -> X]
    /\ f = [s \in SUBSET (1 .. n) |-> IF s = {} THEN base ELSE step[Max(s), f[s \ {Max(s)}]]]

\* There is one, for a step that stays among the values X.
LEMMA Iterate ==
    ASSUME NEW n \in Nat, NEW X, NEW base \in X, NEW step \in [(1 .. n) \X X -> X]
    PROVE  \E f : Iterates(f, n, X, base, step)
<1> DEFINE S == {k \in 0 .. n : \E f : Iterates(f, k, X, base, step)}
<1>1. 0 \in S
  <2> DEFINE f == [s \in SUBSET (1 .. 0) |-> base]
  <2>1. \A s \in SUBSET (1 .. 0) : s = {}
    OBVIOUS
  <2>2. Iterates(f, 0, X, base, step)
    BY <2>1 DEF Iterates
  <2> QED
    BY <2>2
<1>2. ASSUME NEW k \in 0 .. n - 1, k \in S PROVE k + 1 \in S
  <2>1. PICK f : Iterates(f, k, X, base, step)
    BY <1>2
  <2> DEFINE g == [s \in SUBSET (1 .. k + 1) |->
                      IF k + 1 \in s THEN step[k + 1, f[s \ {k + 1}]] ELSE f[s]]
  <2>0. k \in Nat
    OBVIOUS
  <2>2. ASSUME NEW s \in SUBSET (1 .. k + 1)
        PROVE  /\ k + 1 \notin s => s \in SUBSET (1 .. k)
               /\ s \ {k + 1} \in SUBSET (1 .. k)
    OBVIOUS
  <2>3. ASSUME NEW s \in SUBSET (1 .. k + 1)
        PROVE  g[s] \in X /\ g[s] = IF s = {} THEN base ELSE step[Max(s), g[s \ {Max(s)}]]
    <3>1. CASE k + 1 \in s
      <4>1. Max(s) = k + 1 /\ s # {}
        BY <2>0, <3>1, MaxOf
      <4>2. s \ {k + 1} \in SUBSET (1 .. k) /\ s \ {k + 1} \in SUBSET (1 .. k + 1)
        BY <2>2
      <4>3. g[s \ {k + 1}] = f[s \ {k + 1}] /\ f[s \ {k + 1}] \in X
        BY <4>2, <2>1 DEF Iterates
      <4>4. g[s] = step[k + 1, f[s \ {k + 1}]]
        BY <3>1
      <4>5. k + 1 \in 1 .. n /\ <<k + 1, f[s \ {k + 1}]>> \in (1 .. n) \X X
        <5>1. k + 1 \in 1 .. n
          OBVIOUS
        <5> QED
          BY <4>3, <5>1
      <4>6. step[k + 1, f[s \ {k + 1}]] \in X
        BY <4>5
      <4> HIDE DEF g
      <4> QED
        BY <4>1, <4>3, <4>4, <4>6
    <3>2. CASE k + 1 \notin s /\ s # {}
      <4>1. s \in SUBSET (1 .. k) /\ g[s] = f[s]
        BY <2>2, <3>2
      <4>2. g[s \ {Max(s)}] = f[s \ {Max(s)}]
        BY <4>1, <3>2
      <4> HIDE DEF g
      <4>3. f[s] \in X /\ f[s] = IF s = {} THEN base ELSE step[Max(s), f[s \ {Max(s)}]]
        BY <4>1, <2>1 DEF Iterates
      <4> QED
        BY <4>1, <4>2, <4>3
    <3>3. CASE s = {}
      <4>1. g[s] = f[{}] /\ {} \in SUBSET (1 .. k)
        BY <3>3
      <4> HIDE DEF g
      <4> QED
        BY <4>1, <3>3, <2>1 DEF Iterates
    <3> QED
      BY <3>1, <3>2, <3>3
  <2>4. g \in [SUBSET (1 .. k + 1) -> X]
    BY <2>3
  <2>5. g = [s \in SUBSET (1 .. k + 1) |-> IF s = {} THEN base ELSE step[Max(s), g[s \ {Max(s)}]]]
    <3>1. \A s \in SUBSET (1 .. k + 1) : g[s] = IF s = {} THEN base ELSE step[Max(s), g[s \ {Max(s)}]]
      BY <2>3
    <3>2. g = [s \in SUBSET (1 .. k + 1) |-> g[s]]
      OBVIOUS
    <3> HIDE DEF g
    <3> QED
      BY <3>1, <3>2
  <2> HIDE DEF g
  <2>6. Iterates(g, k + 1, X, base, step)
    BY <2>4, <2>5 DEF Iterates
  <2> QED
    BY <2>6
<1> HIDE DEF S
<1>3. n \in S
  BY <1>1, <1>2, InductNat
<1> QED
  BY <1>3 DEF S

\* The prefixes of the positions of a sequence.
LEMMA Positions ==
    ASSUME NEW n \in Nat
    PROVE  /\ 1 .. 0 = {}
           /\ \A i \in 0 .. n - 1 : /\ 1 .. i + 1 # {} /\ 1 .. i + 1 \in SUBSET (1 .. n)
                                    /\ Max(1 .. i + 1) = i + 1
                                    /\ (1 .. i + 1) \ {i + 1} = 1 .. i
<1>1. 1 .. 0 = {}
  OBVIOUS
<1>2. ASSUME NEW i \in 0 .. n - 1
      PROVE  /\ 1 .. i + 1 # {} /\ 1 .. i + 1 \in SUBSET (1 .. n)
             /\ Max(1 .. i + 1) = i + 1 /\ (1 .. i + 1) \ {i + 1} = 1 .. i
  <2>0. i \in Nat /\ i + 1 <= n
    OBVIOUS
  <2>1. Max(1 .. i + 1) = i + 1
    <3>1. 1 .. i + 1 \subseteq 1 .. i + 1 /\ i + 1 \in 1 .. i + 1
      BY <2>0
    <3> QED
      BY <2>0, <3>1, MaxOf
  <2>2. (1 .. i + 1) \ {i + 1} = 1 .. i
    BY <2>0
  <2>3. i + 1 \in 1 .. i + 1 /\ 1 .. i + 1 \subseteq 1 .. n
    BY <2>0
  <2> QED
    BY <2>1, <2>2, <2>3
<1> QED
  BY <1>1, <1>2

\* A sequence with one element more at place p.
LEMMA InsertedAt ==
    ASSUME NEW T, NEW t \in Seq(T), NEW e \in T, NEW p \in 1 .. Len(t) + 1
    PROVE  /\ InsertAt(t, p, e) \in Seq(T) /\ Len(InsertAt(t, p, e)) = Len(t) + 1
           /\ \A i \in 1 .. p - 1 : InsertAt(t, p, e)[i] = t[i]
           /\ InsertAt(t, p, e)[p] = e
           /\ \A i \in p .. Len(t) : InsertAt(t, p, e)[i + 1] = t[i]
<1> DEFINE k == p - 1
           front == SubSeq(t, 1, k)
           back == SubSeq(t, k + 1, Len(t))
           r == front \o <<e>> \o back
<1>1. Len(t) \in Nat /\ DOMAIN t = 1 .. Len(t) /\ \A i \in 1 .. Len(t) : t[i] \in T
  BY LenProperties, ElementOfSeq
<1>2. k \in 0 .. Len(t) /\ k + 1 = p
  BY <1>1
<1>3. InsertAt(t, p, e) = r
  BY <1>2 DEF InsertAt
<1> HIDE DEF k
<1>4. /\ front \in Seq(T) /\ Len(front) = k
      /\ \A i \in 1 .. k : front[i] = t[i]
  BY <1>1, <1>2, SubSeqProperties
<1>5. /\ back \in Seq(T) /\ Len(back) = Len(t) - k
      /\ \A i \in 1 .. Len(t) - k : back[i] = t[k + i]
  <2>1. /\ back \in Seq(T) /\ Len(back) = IF k + 1 <= Len(t) THEN Len(t) - (k + 1) + 1 ELSE 0
        /\ \A i \in 1 .. Len(t) - (k + 1) + 1 : back[i] = t[k + 1 + i - 1]
    BY <1>1, <1>2, SubSeqProperties
  <2>2. Len(t) - (k + 1) + 1 = Len(t) - k /\ \A i \in 1 .. Len(t) - k : k + 1 + i - 1 = k + i
    BY <1>1, <1>2
  <2> HIDE DEF back
  <2>3. Len(back) = Len(t) - k
    <3>1. \A a, b \in Nat : a <= b => (IF a + 1 <= b THEN b - (a + 1) + 1 ELSE 0) = b - a
      OBVIOUS
    <3>2. k \in Nat /\ k <= Len(t)
      BY <1>1, <1>2
    <3> QED
      BY <1>1, <2>1, <3>1, <3>2
  <2> QED
    BY <2>1, <2>2, <2>3
<1> HIDE DEF front, back
<1>6. /\ front \o <<e>> \in Seq(T) /\ Len(front \o <<e>>) = k + 1
      /\ \A i \in 1 .. k : (front \o <<e>>)[i] = t[i]
      /\ (front \o <<e>>)[k + 1] = e
  BY <1>2, <1>4, ConcatProperties
<1>7. /\ r \in Seq(T) /\ Len(r) = Len(t) + 1
      /\ \A i \in 1 .. k : r[i] = t[i]
      /\ r[k + 1] = e
      /\ \A i \in k + 1 .. Len(t) : r[i + 1] = t[i]
  <2>1. /\ r \in Seq(T) /\ Len(r) = k + 1 + (Len(t) - k)
        /\ \A i \in 1 .. k + 1 + (Len(t) - k) :
              r[i] = IF i <= k + 1 THEN (front \o <<e>>)[i] ELSE back[i - (k + 1)]
    <3> DEFINE w == front \o <<e>>
    <3>1. w \in Seq(T) /\ Len(w) = k + 1 /\ r = w \o back
      BY <1>6
    <3> HIDE DEF w, r
    <3>2. /\ r \in Seq(T) /\ Len(r) = Len(w) + Len(back)
          /\ \A i \in 1 .. Len(w) + Len(back) : r[i] = IF i <= Len(w) THEN w[i] ELSE back[i - Len(w)]
      BY <1>5, <3>1, ConcatProperties
    <3> QED
      BY <1>5, <3>1, <3>2 DEF w
  <2> HIDE DEF r
  <2>2. k + 1 + (Len(t) - k) = Len(t) + 1
    BY <1>1, <1>2
  <2>3. ASSUME NEW i \in 1 .. k PROVE r[i] = t[i]
    <3>1. i \in 1 .. k + 1 + (Len(t) - k) /\ i <= k + 1
      BY <1>1, <1>2
    <3>2. r[i] = (front \o <<e>>)[i]
      BY <2>1, <3>1
    <3> QED
      BY <1>6, <3>2
  <2>4. r[k + 1] = e
    <3>1. k + 1 \in 1 .. k + 1 + (Len(t) - k) /\ k + 1 <= k + 1
      BY <1>1, <1>2
    <3>2. r[k + 1] = (front \o <<e>>)[k + 1]
      BY <2>1, <3>1
    <3> QED
      BY <1>6, <3>2
  <2>5. ASSUME NEW i \in k + 1 .. Len(t) PROVE r[i + 1] = t[i]
    <3>1. i + 1 \in 1 .. Len(t) + 1 /\ ~(i + 1 <= k + 1) /\ i + 1 - (k + 1) \in 1 .. Len(t) - k
          /\ k + (i + 1 - (k + 1)) = i
      BY <1>1, <1>2
    <3> DEFINE q == i + 1
    <3>2. q \in 1 .. k + 1 + (Len(t) - k)
      BY <2>2, <3>1
    <3>3. r[q] = IF q <= k + 1 THEN (front \o <<e>>)[q] ELSE back[q - (k + 1)]
      BY <2>1, <3>2
    <3>4. q - (k + 1) \in 1 .. Len(t) - k /\ k + (q - (k + 1)) = i /\ ~(q <= k + 1)
      BY <1>1, <1>2, <3>1
    <3>5. back[q - (k + 1)] = t[i]
      BY <1>5, <3>4
    <3> HIDE DEF q
    <3>6. r[q] = t[i]
      BY <3>3, <3>4, <3>5
    <3> QED
      BY <3>6 DEF q
  <2> QED
    BY <2>1, <2>2, <2>3, <2>5, <2>4
<1> HIDE DEF r
<1> QED
  BY <1>2, <1>3, <1>7 DEF k

\* A sequence of all elements of a finite set leaves none out.
LEMMA AllInSequence ==
    ASSUME NEW S, IsFiniteSet(S), NEW order \in SetToSeqs(S)
    PROVE  /\ order \in Seq(S) /\ ToSet(order) = S
           /\ \A i, j \in DOMAIN order : order[i] = order[j] => i = j
<1> DEFINE n == Cardinality(S)
<1>1. n \in Nat
  BY FS_CardinalityType
<1>2. order \in [1 .. n -> S] /\ \A i, j \in 1 .. n : i # j => order[i] # order[j]
  BY DEF SetToSeqs
<1>3. order \in Seq(S)
  BY <1>1, <1>2, SeqDef
<1>4. IsFiniteSet(1 .. n) /\ Cardinality(1 .. n) = n
  BY <1>1, FS_Interval
<1> HIDE DEF n
<1>5. order \in Injection(1 .. n, S)
  BY <1>2 DEF Injection, IsInjective
<1>6. order \in Surjection(1 .. n, S)
  BY <1>4, <1>5, FS_Injection DEF n
<1>7. ToSet(order) = S
  BY <1>2, <1>6 DEF Surjection, ToSet
<1> QED
  BY <1>2, <1>3, <1>7

\* The elements of a finite set make a sequence.
LEMMA InSequence ==
    ASSUME NEW S, IsFiniteSet(S)
    PROVE  SetToSeq(S) \in Seq(S) /\ ToSet(SetToSeq(S)) = S
<1>1. \E f \in [1 .. Cardinality(S) -> S] : IsInjective(f)
  BY FS_CardinalityType DEF ExistsBijection, Bijection, Injection
<1> DEFINE f == SetToSeq(S)
<1>2. f \in [1 .. Cardinality(S) -> S] /\ IsInjective(f)
  BY <1>1 DEF SetToSeq
<1> HIDE DEF f
<1>3. f \in SetToSeqs(S)
  BY <1>2 DEF SetToSeqs, IsInjective
<1>4. f \in Seq(S) /\ ToSet(f) = S
  BY <1>3, AllInSequence
<1> QED
  BY <1>4 DEF f
===============================================================================
