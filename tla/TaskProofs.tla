------------------------------ MODULE TaskProofs ------------------------------
(* What the tasks make of packages and relationships, whatever the packages and   *)
(* whichever order they come in: compliance, the cleanup of hidden packages and   *)
(* the exclusion of binary packages.                                              *)
EXTENDS SbomAnalysis, Induction, SequenceTheorems, FiniteSetTheorems, TLAPS

\* A fingerprint determines a package.
LEMMA OneID ==
    /\ \A p, q \in Package : ID(p) = ID(q) => p = q
    /\ \A P : P \subseteq Package => \A p \in P : Has(P, ID(p)) /\ Get(P, ID(p)) = p
<1>1. \A p, q \in Package : ID(p) = ID(q) => p = q
  BY DEF ID, Package
<1>2. ASSUME NEW P, P \subseteq Package, NEW p \in P PROVE Has(P, ID(p)) /\ Get(P, ID(p)) = p
  BY <1>1, <1>2 DEF Has, Get
<1> QED
  BY <1>1, <1>2

-------------------------------------------------------------------------------
(* What compliance leaves of the relationships.                                *)

\* What the node id has become after the first i packages were replaced.
Moved(c, pkgs, i, id) ==
    IF \E j \in 1 .. i : ID(pkgs[j]) = id
    THEN ID(stubbed(c, CHOOSE p \in Package : ID(p) = id)) ELSE id

MovedEdges(c, pkgs, i, E) ==
    {[type |-> e.type, from |-> Moved(c, pkgs, i, e.from), to |-> Moved(c, pkgs, i, e.to)] : e \in E}

\* The fingerprints that are removed from the index.
DroppedIDs(c, pkgs) == {ID(stubbed(c, p)) : p \in {q \in ToSet(pkgs) : drops(c, q)}}

\* The relationships that outlive the removals.
Outliving(c, pkgs, E) == {e \in E : {e.from, e.to} \cap DroppedIDs(c, pkgs) = {}}

\* A stub is filled once.
LEMMA StubOnce ==
    ASSUME NEW c, NEW p \in Package
    PROVE  /\ stubbed(c, p) \in Package /\ stubbed(c, p).key = p.key
           /\ stubbed(c, stubbed(c, p)) = stubbed(c, p)
BY DEF stubbed, Package, Field

LEMMA MovedOn ==
    ASSUME NEW c, NEW pkgs \in Seq(Package), NEW i \in Nat, i + 1 \in DOMAIN pkgs, NEW id
    PROVE  Moved(c, pkgs, i + 1, id) =
               IF Moved(c, pkgs, i, id) = ID(pkgs[i + 1]) THEN ID(stubbed(c, pkgs[i + 1]))
               ELSE Moved(c, pkgs, i, id)
<1> DEFINE p == pkgs[i + 1]
           chosen == CHOOSE q \in Package : ID(q) = id
           before == \E j \in 1 .. i : ID(pkgs[j]) = id
<1>1. p \in Package /\ \A j \in 1 .. i : j \in DOMAIN pkgs /\ pkgs[j] \in Package
  BY LenProperties, ElementOfSeq
<1>2. 1 .. i + 1 = (1 .. i) \cup {i + 1}
  OBVIOUS
<1>3. \A q \in Package : ID(q) = id => chosen = q
  BY OneID
<1>4. (\E j \in 1 .. i + 1 : ID(pkgs[j]) = id) <=> before \/ ID(p) = id
  BY <1>2
<1> HIDE DEF p, chosen
<1>5. CASE ID(p) = id
  <2>1. Moved(c, pkgs, i + 1, id) = ID(stubbed(c, p))
    BY <1>1, <1>3, <1>4, <1>5 DEF Moved, chosen
  <2>2. Moved(c, pkgs, i, id) \in {ID(p), ID(stubbed(c, p))}
    BY <1>1, <1>3, <1>5 DEF Moved, chosen
  <2> QED
    BY <2>1, <2>2 DEF p
<1>6. CASE ID(p) # id /\ before
  <2>1. Moved(c, pkgs, i + 1, id) = Moved(c, pkgs, i, id)
    BY <1>4, <1>6 DEF Moved
  <2>2. PICK q \in Package : ID(q) = id
    BY <1>1, <1>6
  <2>3. Moved(c, pkgs, i, id) = ID(stubbed(c, q))
    BY <1>3, <1>6, <2>2 DEF Moved, chosen
  <2>4. ID(stubbed(c, q)) = ID(p) => stubbed(c, p) = p
    BY <1>1, OneID, StubOnce
  <2> QED
    BY <2>1, <2>3, <2>4 DEF p
<1>7. CASE ID(p) # id /\ ~before
  BY <1>4, <1>7 DEF Moved, p
<1> QED
  BY <1>5, <1>6, <1>7

\* The loop that filters the packages leaves those that it does not drop, stubbed.
LEMMA Leavings ==
    ASSUME NEW c, NEW pkgs \in Seq(Package)
    PROVE  ToSet(remaining(c, pkgs)) = {stubbed(c, p) : p \in {q \in ToSet(pkgs) : ~drops(c, q)}}
<1> DEFINE n == Len(pkgs)
           X == Seq(Package)
           op(kept, p) == IF drops(c, p) THEN kept ELSE Append(kept, stubbed(c, p))
           step == [ix \in (1 .. n) \X X |-> op(ix[2], pkgs[ix[1]])]
           it(f) == f = [u \in SUBSET DOMAIN pkgs |->
                            IF u = {} THEN <<>> ELSE LET x == Max(u) IN op(f[u \ {x}], pkgs[x])]
           g == CHOOSE f : it(f)
<1>1. n \in Nat /\ DOMAIN pkgs = 1 .. n /\ \A i \in 1 .. n : pkgs[i] \in Package
  BY LenProperties, ElementOfSeq
<1>2. <<>> \in X
  OBVIOUS
<1>3. \A E \in X, p \in Package : op(E, p) \in X
  BY StubOnce
<1>4. remaining(c, pkgs) = g[DOMAIN pkgs]
  BY DEF remaining, FoldLeft, MapThenFoldSet
<1>5. \A E \in X, p \in Package :
          ToSet(op(E, p)) = ToSet(E) \cup (IF drops(c, p) THEN {} ELSE {stubbed(c, p)})
  <2> SUFFICES ASSUME NEW E \in Seq(Package), NEW y \in Package
               PROVE  ToSet(Append(E, y)) = ToSet(E) \cup {y}
    BY StubOnce
  <2>1. /\ DOMAIN E = 1 .. Len(E) /\ Len(E) \in Nat /\ DOMAIN Append(E, y) = 1 .. Len(E) + 1
        /\ \A i \in 1 .. Len(E) : Append(E, y)[i] = E[i]
        /\ Append(E, y)[Len(E) + 1] = y
    BY LenProperties, AppendProperties
  <2>2. 1 .. Len(E) + 1 = (1 .. Len(E)) \cup {Len(E) + 1}
    BY <2>1
  <2> QED
    BY <2>1, <2>2 DEF ToSet
<1> HIDE DEF op, X
<1>6. step \in [(1 .. n) \X X -> X]
  BY <1>1, <1>3
<1>7. PICK f : Iterates(f, n, X, <<>>, step)
  BY <1>1, <1>2, <1>6, Iterate
<1>8. it(f)
  <2>1. ASSUME NEW u \in SUBSET (1 .. n), u # {}
        PROVE  step[<<Max(u), f[u \ {Max(u)}]>>] = op(f[u \ {Max(u)}], pkgs[Max(u)])
    <3>1. Max(u) \in u
      BY <1>1, <2>1, MaxIn
    <3>2. Max(u) \in 1 .. n /\ f[u \ {Max(u)}] \in X
      BY <1>7, <3>1 DEF Iterates
    <3> QED
      BY <3>2
  <2> HIDE DEF step
  <2> QED
    BY <1>1, <1>7, <2>1 DEF Iterates
<1>9. it(g)
  BY <1>8
<1> HIDE DEF g
<1>10. g[{}] = <<>>
  BY <1>1, <1>9
<1>11. \A i \in 0 .. n - 1 : g[1 .. i + 1] = op(g[1 .. i], pkgs[i + 1])
  <2> SUFFICES ASSUME NEW i \in 0 .. n - 1 PROVE g[1 .. i + 1] = op(g[1 .. i], pkgs[i + 1])
    OBVIOUS
  <2>1. /\ 1 .. i + 1 # {} /\ 1 .. i + 1 \in SUBSET DOMAIN pkgs
        /\ Max(1 .. i + 1) = i + 1 /\ (1 .. i + 1) \ {i + 1} = 1 .. i
    BY <1>1, Positions
  <2> HIDE DEF n
  <2> QED
    BY <1>9, <2>1
<1> DEFINE left(i) == {stubbed(c, pkgs[j]) : j \in {k \in 1 .. i : ~drops(c, pkgs[k])}}
           S == {i \in 0 .. n : g[1 .. i] \in X /\ ToSet(g[1 .. i]) = left(i)}
<1>12. 0 \in S
  <2>1. ToSet(<<>>) = {}
    BY DEF ToSet
  <2> QED
    BY <1>1, <1>2, <1>10, <2>1, Positions
<1>13. \A i \in 0 .. n - 1 : i \in S => i + 1 \in S
  <2> SUFFICES ASSUME NEW i \in 0 .. n - 1, i \in S PROVE i + 1 \in S
    OBVIOUS
  <2>1. i \in Nat /\ i + 1 \in 1 .. n /\ i + 1 \in 0 .. n /\ pkgs[i + 1] \in Package
    BY <1>1
  <2>2. 1 .. i + 1 = (1 .. i) \cup {i + 1}
    BY <2>1
  <2>3. left(i + 1) = left(i) \cup (IF drops(c, pkgs[i + 1]) THEN {} ELSE {stubbed(c, pkgs[i + 1])})
    BY <2>2
  <2> HIDE DEF left
  <2>4. g[1 .. i + 1] \in X
    BY <1>3, <1>11, <2>1
  <2>5. ToSet(g[1 .. i + 1]) = left(i + 1)
    BY <1>5, <1>11, <2>1, <2>3
  <2> QED
    BY <2>1, <2>4, <2>5
<1> HIDE DEF S
<1>14. n \in S
  <2>1. \A i \in 0 .. n : i \in S
    BY <1>1, <1>12, <1>13, InductNat
  <2> QED
    BY <1>1, <2>1
<1>15. ToSet(remaining(c, pkgs)) = left(n)
  BY <1>1, <1>4, <1>14 DEF S
<1> QED
  BY <1>1, <1>15 DEF ToSet

\* One turn of the loop over the packages.
LEMMA TurnMoves ==
    ASSUME NEW c, NEW pkgs \in Seq(Package), NEW i \in Nat, i + 1 \in DOMAIN pkgs, NEW E
    PROVE  Index!Renamed(MovedEdges(c, pkgs, i, E), ID(pkgs[i + 1]), ID(stubbed(c, pkgs[i + 1])))
               = MovedEdges(c, pkgs, i + 1, E)
<1> DEFINE og == ID(pkgs[i + 1])
           new == ID(stubbed(c, pkgs[i + 1]))
           rename(n) == IF n = og THEN new ELSE n
<1>1. \A id : Moved(c, pkgs, i + 1, id) = rename(Moved(c, pkgs, i, id))
  BY MovedOn
<1> HIDE DEF og, new
<1>2. Index!Renamed(MovedEdges(c, pkgs, i, E), og, new) =
          {[type |-> e.type, from |-> rename(e.from), to |-> rename(e.to)] : e \in MovedEdges(c, pkgs, i, E)}
  BY DEF Index!Renamed
<1> DEFINE at(e, j) == [type |-> e.type, from |-> Moved(c, pkgs, j, e.from), to |-> Moved(c, pkgs, j, e.to)]
           after(x) == [type |-> x.type, from |-> rename(x.from), to |-> rename(x.to)]
<1>3. \A e \in E : after(at(e, i)) = at(e, i + 1)
  BY <1>1
<1>4. MovedEdges(c, pkgs, i, E) = {at(e, i) : e \in E} /\ MovedEdges(c, pkgs, i + 1, E) = {at(e, i + 1) : e \in E}
  BY DEF MovedEdges
<1> HIDE DEF at
<1>5. {after(x) : x \in {at(e, i) : e \in E}} = {after(at(e, i)) : e \in E}
  OBVIOUS
<1> HIDE DEF after
<1>6. {after(at(e, i)) : e \in E} = {at(e, i + 1) : e \in E}
  BY <1>3
<1> QED
  BY <1>2, <1>4, <1>5, <1>6 DEF after, og, new

\* Replacing packages one after the other amounts to giving every package its new
\* fingerprint at once, whatever the order of the packages.
THEOREM Followed ==
    ASSUME NEW c, NEW pkgs \in Seq(Package), NEW T, NEW N, {ID(p) : p \in Package} \subseteq N,
           NEW rels \in SUBSET [type : T, from : N, to : N]
    PROVE  remainingRelationships(c, pkgs, rels) =
               MovedEdges(c, pkgs, Len(pkgs), Outliving(c, pkgs, rels))
<1> DEFINE n == Len(pkgs)
           X == SUBSET [type : T, from : N, to : N]
           base == Outliving(c, pkgs, rels)
           op(E, p) == Index!Renamed(E, ID(p), ID(stubbed(c, p)))
           step == [ix \in (1 .. n) \X X |-> op(ix[2], pkgs[ix[1]])]
           it(f) == f = [u \in SUBSET DOMAIN pkgs |->
                            IF u = {} THEN base ELSE LET x == Max(u) IN op(f[u \ {x}], pkgs[x])]
           g == CHOOSE f : it(f)
<1>1. n \in Nat /\ DOMAIN pkgs = 1 .. n /\ \A i \in 1 .. n : pkgs[i] \in Package
  BY LenProperties, ElementOfSeq
<1>2. base \in X
  BY DEF Outliving
<1>3. \A E \in X, p \in Package : op(E, p) \in X
  <2>1. \A p \in Package : ID(p) \in N /\ ID(stubbed(c, p)) \in N
    BY StubOnce
  <2> QED
    BY <2>1 DEF Index!Renamed
<1>4. remainingRelationships(c, pkgs, rels) = g[DOMAIN pkgs]
  BY DEF remainingRelationships, FoldLeft, MapThenFoldSet, DroppedIDs, Outliving
<1> HIDE DEF base, op, X
<1>5. step \in [(1 .. n) \X X -> X]
  BY <1>1, <1>3
<1>6. PICK f : Iterates(f, n, X, base, step)
  BY <1>1, <1>2, <1>5, Iterate
<1>7. it(f)
  <2>1. ASSUME NEW u \in SUBSET (1 .. n), u # {}
        PROVE  step[<<Max(u), f[u \ {Max(u)}]>>] = op(f[u \ {Max(u)}], pkgs[Max(u)])
    <3>1. Max(u) \in u
      BY <1>1, <2>1, MaxIn
    <3>2. Max(u) \in 1 .. n /\ f[u \ {Max(u)}] \in X
      BY <1>6, <3>1 DEF Iterates
    <3> QED
      BY <3>2
  <2> HIDE DEF step
  <2> QED
    BY <1>1, <1>6, <2>1 DEF Iterates
<1>8. it(g)
  BY <1>7
<1> HIDE DEF g
<1>9. g[{}] = base
  BY <1>1, <1>8
<1>10. \A i \in 0 .. n - 1 : g[1 .. i + 1] = op(g[1 .. i], pkgs[i + 1])
  <2> SUFFICES ASSUME NEW i \in 0 .. n - 1 PROVE g[1 .. i + 1] = op(g[1 .. i], pkgs[i + 1])
    OBVIOUS
  <2>1. /\ 1 .. i + 1 # {} /\ 1 .. i + 1 \in SUBSET DOMAIN pkgs
        /\ Max(1 .. i + 1) = i + 1 /\ (1 .. i + 1) \ {i + 1} = 1 .. i
    BY <1>1, Positions
  <2> HIDE DEF n
  <2> QED
    BY <1>8, <2>1
<1> DEFINE S == {i \in 0 .. n : g[1 .. i] = MovedEdges(c, pkgs, i, base)}
<1>11. 0 \in S
  <2>1. \A id : Moved(c, pkgs, 0, id) = id
    BY Positions DEF Moved
  <2>2. MovedEdges(c, pkgs, 0, base) = base
    BY <1>2, <2>1 DEF MovedEdges, X
  <2> QED
    BY <1>1, <1>9, <2>2, Positions
<1>12. \A i \in 0 .. n - 1 : i \in S => i + 1 \in S
  <2> SUFFICES ASSUME NEW i \in 0 .. n - 1, i \in S PROVE i + 1 \in S
    OBVIOUS
  <2>1. i \in Nat /\ i + 1 \in DOMAIN pkgs /\ i + 1 \in 0 .. n
    BY <1>1
  <2>2. g[1 .. i + 1] = MovedEdges(c, pkgs, i + 1, base)
    BY <1>10, <2>1, TurnMoves DEF op
  <2> QED
    BY <2>1, <2>2
<1> HIDE DEF S
<1>13. n \in S
  <2>1. \A i \in 0 .. n : i \in S
    BY <1>1, <1>11, <1>12, InductNat
  <2> QED
    BY <1>1, <2>1
<1> QED
  BY <1>1, <1>4, <1>13 DEF S, base

\* Unless compliance drops a package that it also stubs, no relationship is left that
\* mentions a package which is not.
THEOREM NothingDangles ==
    ASSUME NEW c, NEW pkgs \in Seq(Package), NEW T, NEW far \in SUBSET Node,
           \A p \in ToSet(pkgs) : drops(c, p) => stubbed(c, p) = p,
           NEW rels \in SUBSET [type : T, from : IDs(ToSet(pkgs)) \cup far, to : IDs(ToSet(pkgs)) \cup far],
           far \cap {ID(p) : p \in Package} = {}
    PROVE  \A e \in remainingRelationships(c, pkgs, rels) :
               {e.from, e.to} \subseteq IDs(ToSet(remaining(c, pkgs))) \cup far
<1> DEFINE given == IDs(ToSet(pkgs)) \cup far
           left == IDs(ToSet(remaining(c, pkgs))) \cup far
           base == Outliving(c, pkgs, rels)
<1>1. /\ DOMAIN pkgs = 1 .. Len(pkgs) /\ ToSet(pkgs) \subseteq Package
      /\ \A p \in ToSet(pkgs) : \E j \in 1 .. Len(pkgs) : pkgs[j] = p
      /\ \A j \in 1 .. Len(pkgs) : pkgs[j] \in ToSet(pkgs)
  BY LenProperties, ElementOfSeq DEF ToSet
<1>2. rels \in SUBSET [type : T, from : Node, to : Node]
  <2>1. IDs(ToSet(pkgs)) \subseteq Node
    BY <1>1 DEF IDs, Node
  <2> QED
    BY <2>1
<1>3. remainingRelationships(c, pkgs, rels) = MovedEdges(c, pkgs, Len(pkgs), base)
  <2>1. {ID(p) : p \in Package} \subseteq Node
    BY DEF Node
  <2> QED
    BY <1>2, <2>1, Followed
<1>4. ASSUME NEW p \in ToSet(pkgs), ~drops(c, p) PROVE stubbed(c, p) \in ToSet(remaining(c, pkgs))
  BY <1>4, Leavings
<1>5. ASSUME NEW id \in given, id \notin DroppedIDs(c, pkgs) PROVE Moved(c, pkgs, Len(pkgs), id) \in left
  <2>1. CASE \E p \in ToSet(pkgs) : ID(p) = id
    <3>1. PICK p \in ToSet(pkgs) : ID(p) = id
      BY <2>1
    <3>2. ~drops(c, p)
      BY <1>5, <3>1 DEF DroppedIDs
    <3>3. Moved(c, pkgs, Len(pkgs), id) = ID(stubbed(c, p))
      BY <1>1, <3>1, OneID DEF Moved
    <3> QED
      BY <1>4, <3>2, <3>3 DEF IDs
  <2>2. CASE ~\E p \in ToSet(pkgs) : ID(p) = id
    BY <1>1, <1>5, <2>2 DEF Moved, IDs
  <2> QED
    BY <2>1, <2>2
<1>6. \A e \in base : {e.from, e.to} \subseteq given /\ {e.from, e.to} \cap DroppedIDs(c, pkgs) = {}
  BY DEF Outliving
<1> HIDE DEF given, left, base
<1>7. \A e \in MovedEdges(c, pkgs, Len(pkgs), base) : {e.from, e.to} \subseteq left
  BY <1>5, <1>6 DEF MovedEdges
<1> QED
  BY <1>3, <1>7 DEF left

-------------------------------------------------------------------------------
(* The cleanup of hidden packages.                                             *)

\* The keys of a package at its unclear paths, and whether it has no other evidence.
Keys(p) == {DuplicateKey(p, f) : f \in Unclear(p)}
NeverSeen(p) == \A f \in Attr[p.key].visible : f \notin Primary(p) /\ Type(p) # "binary"

\* A turn of the loop removes the package if other ones have all its keys.
LEMMA ScopeTurn ==
    ASSUME NEW acc, NEW p
    PROVE  scopeStep(acc, p) =
               [seen |-> acc.seen \cup Keys(p),
                remove |-> IF NeverSeen(p) /\ Keys(p) \subseteq acc.seen
                           THEN acc.remove \cup {ID(p)} ELSE acc.remove]
<1>1. NeverSeen(p) <=> {f \in Attr[p.key].visible : f \in Attr[p.key].primary \/ Attr[p.key].type = "binary"} = {}
  BY DEF NeverSeen, Primary, Type
<1> QED
  BY <1>1 DEF scopeStep, Keys, Unclear, Primary

\* After the first i packages: each key that was met is one of a package that stays, and
\* a package that stays has a key or evidence.
ScopeAt(order, i, acc) ==
    /\ \A j \in 1 .. i : Keys(order[j]) \subseteq acc.seen
    /\ \A id \in acc.remove : \E j \in 1 .. i : id = ID(order[j])
    /\ \A k \in acc.seen : \E j \in 1 .. i : k \in Keys(order[j]) /\ ID(order[j]) \notin acc.remove
    /\ \A j \in 1 .. i : ID(order[j]) \notin acc.remove => ~NeverSeen(order[j]) \/ Keys(order[j]) # {}

LEMMA ScopeTurnKeeps ==
    ASSUME NEW order, NEW i \in Nat, NEW acc, ScopeAt(order, i, acc),
           \A j \in 1 .. i : ID(order[j]) # ID(order[i + 1])
    PROVE  ScopeAt(order, i + 1, scopeStep(acc, order[i + 1]))
<1> DEFINE p == order[i + 1]
           next == scopeStep(acc, p)
           out == NeverSeen(p) /\ Keys(p) \subseteq acc.seen
<1>1. /\ next.seen = acc.seen \cup Keys(p)
      /\ next.remove = IF out THEN acc.remove \cup {ID(p)} ELSE acc.remove
  BY ScopeTurn
<1>2. ID(p) \notin acc.remove
  BY DEF ScopeAt
<1>3. \A j \in 1 .. i + 1 : j \in 1 .. i \/ j = i + 1
  OBVIOUS
<1>4. 1 .. i \subseteq 1 .. i + 1 /\ i + 1 \in 1 .. i + 1
  OBVIOUS
<1> DEFINE k == i + 1
           old == 1 .. i
           new == 1 .. i + 1
<1>5. /\ \A j \in old : Keys(order[j]) \subseteq acc.seen
      /\ \A id \in acc.remove : \E j \in old : id = ID(order[j])
      /\ \A x \in acc.seen : \E j \in old : x \in Keys(order[j]) /\ ID(order[j]) \notin acc.remove
      /\ \A j \in old : ID(order[j]) \notin acc.remove => ~NeverSeen(order[j]) \/ Keys(order[j]) # {}
  BY DEF ScopeAt
<1>6. /\ \A j \in new : j \in old \/ j = k
      /\ old \subseteq new /\ k \in new /\ p = order[k]
      /\ \A j \in old : ID(order[j]) # ID(p)
  BY <1>3, <1>4
<1> HIDE DEF k, old, p, next
<1>7. \A j \in new : Keys(order[j]) \subseteq next.seen
  BY <1>1, <1>5, <1>6
<1>8. \A id \in next.remove : \E j \in new : id = ID(order[j])
  BY <1>1, <1>5, <1>6
<1>9. \A x \in next.seen : \E j \in new : x \in Keys(order[j]) /\ ID(order[j]) \notin next.remove
  <2> SUFFICES ASSUME NEW x \in next.seen PROVE \E j \in new : x \in Keys(order[j]) /\ ID(order[j]) \notin next.remove
    OBVIOUS
  <2>1. CASE x \in acc.seen
    <3>1. PICK j \in old : x \in Keys(order[j]) /\ ID(order[j]) \notin acc.remove
      BY <1>5, <2>1
    <3> QED
      BY <1>1, <1>6, <3>1
  <2>2. CASE x \notin acc.seen
    BY <1>1, <1>2, <1>6, <2>2
  <2> QED
    BY <2>1, <2>2
<1>10. \A j \in new : ID(order[j]) \notin next.remove => ~NeverSeen(order[j]) \/ Keys(order[j]) # {}
  <2> SUFFICES ASSUME NEW j \in new, ID(order[j]) \notin next.remove PROVE ~NeverSeen(order[j]) \/ Keys(order[j]) # {}
    OBVIOUS
  <2>1. CASE j \in old
    BY <1>1, <1>5, <2>1
  <2>2. CASE j = k
    <3>1. ~out
      BY <1>1, <1>6, <2>2
    <3>2. Keys(p) # {} \/ ~NeverSeen(p)
      BY <3>1
    <3> QED
      BY <1>6, <2>2, <3>2
  <2> QED
    BY <1>6, <2>1, <2>2
<1> QED
  BY <1>7, <1>8, <1>9, <1>10 DEF ScopeAt, next, p

\* In whichever order the packages are enumerated, the cleanup keeps one package of each
\* name and version at each path that is neither visible nor hidden, and keeps none that
\* is hidden altogether (scope_tasks.go).
THEOREM ScopeKeepsOne ==
    ASSUME NEW order \in Seq(Package), \A i, j \in DOMAIN order : order[i] = order[j] => i = j
    PROVE  OnePerDuplicate(ToSet(order), {p \in ToSet(order) : ID(p) \notin scopeRemovals(order)})
<1> DEFINE n == Len(order)
           K == UNION {Keys(p) : p \in Package}
           X == [seen : SUBSET K, remove : SUBSET IDs(Package)]
           base == [seen |-> {}, remove |-> {}]
           step == [ix \in (1 .. n) \X X |-> scopeStep(ix[2], order[ix[1]])]
           it(f) == f = [u \in SUBSET DOMAIN order |->
                            IF u = {} THEN base ELSE LET x == Max(u) IN scopeStep(f[u \ {x}], order[x])]
           g == CHOOSE f : it(f)
<1>1. n \in Nat /\ DOMAIN order = 1 .. n /\ \A i \in 1 .. n : order[i] \in Package
  BY LenProperties, ElementOfSeq
<1>2. base \in X
  OBVIOUS
<1>3. \A acc \in X, p \in Package : scopeStep(acc, p) \in X
  <2> SUFFICES ASSUME NEW acc \in X, NEW p \in Package PROVE scopeStep(acc, p) \in X
    OBVIOUS
  <2>1. acc.seen \cup Keys(p) \in SUBSET K
    OBVIOUS
  <2>2. acc.remove \in SUBSET IDs(Package) /\ acc.remove \cup {ID(p)} \in SUBSET IDs(Package)
    BY DEF IDs
  <2> HIDE DEF K
  <2> QED
    BY <2>1, <2>2, ScopeTurn
<1>4. scopeRemovals(order) = g[DOMAIN order].remove
  BY DEF scopeRemovals, FoldLeft, MapThenFoldSet
<1> HIDE DEF X
<1>6. step \in [(1 .. n) \X X -> X]
  BY <1>1, <1>3
<1>7. PICK f : Iterates(f, n, X, base, step)
  BY <1>1, <1>2, <1>6, Iterate
<1>8. it(f)
  <2>1. ASSUME NEW u \in SUBSET (1 .. n), u # {}
        PROVE  step[<<Max(u), f[u \ {Max(u)}]>>] = scopeStep(f[u \ {Max(u)}], order[Max(u)])
    <3>1. Max(u) \in u
      BY <1>1, <2>1, MaxIn
    <3>2. Max(u) \in 1 .. n /\ f[u \ {Max(u)}] \in X
      BY <1>7, <3>1 DEF Iterates
    <3> QED
      BY <3>2
  <2> HIDE DEF step, base
  <2> QED
    BY <1>1, <1>7, <2>1 DEF Iterates
<1>9. it(g)
  BY <1>8
<1> HIDE DEF g
<1>10. g[{}] = base
  BY <1>1, <1>9
<1>11. \A i \in 0 .. n - 1 : g[1 .. i + 1] = scopeStep(g[1 .. i], order[i + 1])
  <2> SUFFICES ASSUME NEW i \in 0 .. n - 1 PROVE g[1 .. i + 1] = scopeStep(g[1 .. i], order[i + 1])
    OBVIOUS
  <2>1. /\ 1 .. i + 1 # {} /\ 1 .. i + 1 \in SUBSET DOMAIN order
        /\ Max(1 .. i + 1) = i + 1 /\ (1 .. i + 1) \ {i + 1} = 1 .. i
    BY <1>1, Positions
  <2> HIDE DEF n, base
  <2> QED
    BY <1>9, <2>1
<1> DEFINE S == {i \in 0 .. n : ScopeAt(order, i, g[1 .. i])}
<1>12. 0 \in S
  <2>1. ScopeAt(order, 0, base)
    BY DEF ScopeAt
  <2> QED
    BY <1>1, <1>10, <2>1, Positions
<1>13. \A i \in 0 .. n - 1 : i \in S => i + 1 \in S
  <2> SUFFICES ASSUME NEW i \in 0 .. n - 1, i \in S PROVE i + 1 \in S
    OBVIOUS
  <2>1. i \in Nat /\ i + 1 \in 1 .. n /\ i + 1 \in 0 .. n
    BY <1>1
  <2>2. \A j \in 1 .. i : ID(order[j]) # ID(order[i + 1])
    <3> SUFFICES ASSUME NEW j \in 1 .. i PROVE ID(order[j]) # ID(order[i + 1])
      OBVIOUS
    <3>1. j \in 1 .. n /\ j # i + 1
      BY <1>1, <2>1
    <3>2. order[j] # order[i + 1]
      BY <1>1, <2>1, <3>1
    <3> QED
      BY <1>1, <2>1, <3>1, <3>2, OneID
  <2> DEFINE acc == g[1 .. i]
  <2>3. ScopeAt(order, i, acc)
    OBVIOUS
  <2>4. g[1 .. i + 1] = scopeStep(acc, order[i + 1])
    BY <1>11
  <2> HIDE DEF acc
  <2>5. ScopeAt(order, i + 1, scopeStep(acc, order[i + 1]))
    BY <2>1, <2>2, <2>3, ScopeTurnKeeps
  <2> QED
    BY <2>1, <2>4, <2>5
<1>14. n \in S
  <2> HIDE DEF S
  <2>1. \A i \in 0 .. n : i \in S
    BY <1>1, <1>12, <1>13, InductNat
  <2> QED
    BY <1>1, <2>1
<1> DEFINE last == g[1 .. n]
           left == {p \in ToSet(order) : ID(p) \notin scopeRemovals(order)}
<1>15. ScopeAt(order, n, last) /\ scopeRemovals(order) = last.remove
  BY <1>1, <1>4, <1>14
<1>16. /\ \A p \in ToSet(order) : \E j \in 1 .. n : p = order[j]
       /\ \A j \in 1 .. n : order[j] \in ToSet(order)
  BY <1>1 DEF ToSet
<1> HIDE DEF last, S, n
<1>17. ASSUME NEW p \in ToSet(order), NEW at \in Unclear(p)
       PROVE  \E q \in left :
                  /\ Attr[p.key].ident = Attr[q.key].ident
                  /\ p.name = q.name /\ p.version = q.version
                  /\ at \in Unclear(q)
  <2>1. DuplicateKey(p, at) \in last.seen
    <3>1. PICK j \in 1 .. n : p = order[j]
      BY <1>16
    <3>2. Keys(p) \subseteq last.seen
      BY <1>15, <3>1 DEF ScopeAt
    <3> QED
      BY <3>2 DEF Keys
  <2>2. PICK j \in 1 .. n : DuplicateKey(p, at) \in Keys(order[j]) /\ ID(order[j]) \notin last.remove
    BY <1>15, <2>1 DEF ScopeAt
  <2>3. PICK h \in Unclear(order[j]) : DuplicateKey(p, at) = DuplicateKey(order[j], h)
    BY <2>2 DEF Keys
  <2>4. /\ Attr[p.key].ident = Attr[order[j].key].ident
        /\ p.name = order[j].name /\ p.version = order[j].version /\ at = h
    BY <2>3 DEF DuplicateKey
  <2> QED
    BY <1>15, <1>16, <2>2, <2>3, <2>4
<1>18. ASSUME NEW q \in left
       PROVE  Unclear(q) # {} \/ Primary(q) \cap Attr[q.key].visible # {} \/ Type(q) = "binary"
  <2>1. PICK j \in 1 .. n : q = order[j]
    BY <1>16
  <2>2. ~NeverSeen(q) \/ Keys(q) # {}
    BY <1>15, <2>1 DEF ScopeAt
  <2> QED
    BY <2>2 DEF NeverSeen, Keys
<1> QED
  BY <1>17, <1>18 DEF OnePerDuplicate

-------------------------------------------------------------------------------
(* What the exclusion leaves.                                                 *)

OverlapOf(p, q) == [type |-> OverlapType, from |-> ID(p), to |-> ID(q)]

\* An overlap is a claim of a package on a path of another one.
LEMMA OverlapsAreClaims ==
    ASSUME NEW P
    PROVE  \A e : e \in byFileOwnershipOverlap(P) <=>
               \E a, b \in P : a # b /\ Claims(P, a, b) /\ e = OverlapOf(a, b)
<1>1. ASSUME NEW e \in byFileOwnershipOverlap(P)
      PROVE  \E a, b \in P : a # b /\ Claims(P, a, b) /\ e = OverlapOf(a, b)
  <2>1. PICK ab \in P \X P : /\ ab[1] # ab[2] /\ claimedPaths(P, ab[1]) \cap Paths(ab[2]) # {}
                            /\ e = [type |-> OverlapType, from |-> ID(ab[1]), to |-> ID(ab[2])]
    BY DEF byFileOwnershipOverlap
  <2>2. ab[1] \in P /\ ab[2] \in P
    OBVIOUS
  <2> QED
    BY <2>1, <2>2 DEF Claims, OverlapOf
<1>2. ASSUME NEW a \in P, NEW b \in P, a # b, Claims(P, a, b)
      PROVE  OverlapOf(a, b) \in byFileOwnershipOverlap(P)
  <2>1. /\ <<a, b>> \in {xy \in P \X P : xy[1] # xy[2] /\ claimedPaths(P, xy[1]) \cap Paths(xy[2]) # {}}
        /\ <<a, b>>[1] = a /\ <<a, b>>[2] = b
    BY <1>2 DEF Claims
  <2> QED
    BY <2>1 DEF byFileOwnershipOverlap, OverlapOf
<1> QED
  BY <1>1, <1>2

\* What the rules remove for a claim is overridden, and what is overridden is removed for
\* some claim.
LEMMA RulesOverride ==
    ASSUME NEW P
    PROVE  /\ \A a, b \in P : a # b /\ Claims(P, a, b) =>
                  \A id \in idToRemove(a, b) : \E r \in Overridden(P) : id = ID(r)
           /\ \A p, q \in P : Overrides(P, p, q) =>
                  \/ Claims(P, p, q) /\ idToRemove(p, q) = {ID(q)}
                  \/ Claims(P, q, p) /\ idToRemove(q, p) = {ID(q)}
<1>1. ASSUME NEW a \in P, NEW b \in P, a # b, Claims(P, a, b), NEW id \in idToRemove(a, b)
      PROVE  \E r \in Overridden(P) : id = ID(r)
  <2>1. CASE Type(a) \in {"os", "bitnami"}
    <3>1. id = ID(b) /\ IsBinary(b)
      BY <2>1 DEF idToRemove
    <3>2. Overrides(P, a, b)
      BY <1>1, <2>1, <3>1 DEF Overrides, IsBinary, binaryMetadataTypes
    <3> QED
      BY <3>1, <3>2 DEF Overridden
  <2>2. CASE Type(a) = "binary" /\ Type(b) = "binary" /\ Meta(b) # "none"
    <3>1. CASE Meta(a) = "jvm" /\ Meta(b) # "jvm"
      <4>1. id = ID(b)
        BY <2>2, <3>1 DEF idToRemove
      <4>2. Overrides(P, a, b)
        BY <1>1, <2>2, <3>1 DEF Overrides
      <4> QED
        BY <4>1, <4>2 DEF Overridden
    <3>2. CASE Meta(b) = "jvm" /\ Meta(a) # "jvm"
      <4>1. id = ID(a)
        BY <2>2, <3>2 DEF idToRemove
      <4>2. Overrides(P, b, a)
        BY <1>1, <2>2, <3>2 DEF Overrides
      <4> QED
        BY <4>1, <4>2 DEF Overridden
    <3> QED
      BY <2>2, <3>1, <3>2 DEF idToRemove
  <2> QED
    BY <2>1, <2>2 DEF idToRemove
<1>2. ASSUME NEW p \in P, NEW q \in P, Overrides(P, p, q)
      PROVE  \/ Claims(P, p, q) /\ idToRemove(p, q) = {ID(q)}
             \/ Claims(P, q, p) /\ idToRemove(q, p) = {ID(q)}
  <2>1. CASE /\ Type(p) \in {"os", "bitnami"} /\ Claims(P, p, q)
             /\ Type(q) = "binary" \/ Meta(q) \in {"elf", "signature", "jvm"}
    BY <2>1 DEF idToRemove, IsBinary, binaryMetadataTypes
  <2>2. CASE /\ Type(p) = "binary" /\ Meta(p) = "jvm" /\ Type(q) = "binary" /\ Meta(q) # "jvm"
             /\ Claims(P, q, p) \/ (Claims(P, p, q) /\ Meta(q) # "none")
    BY <2>2 DEF idToRemove
  <2> QED
    BY <1>2, <2>1, <2>2 DEF Overrides
<1> QED
  BY <1>1, <1>2

\* After turns for the relationships E: nothing was removed that is not overridden, and
\* no package is left that an overlap among these removes.
ExcludeAt(P, E, packages) ==
    /\ packages \subseteq P
    /\ P \ Overridden(P) \subseteq packages
    /\ \A a, b, r \in P :
           /\ OverlapOf(a, b) \in E
           /\ idToRemove(a, b) = {ID(r)}
           /\ Overrides(P, a, r) \/ Overrides(P, b, r)
           => r \notin packages

LEMMA ExcludeTurnKeeps ==
    ASSUME NEW P \in SUBSET Package, Undisputed(P), NEW E, NEW e, NEW s,
           ExcludeAt(P, E, s.packages),
           e.type = OverlapType => e \in byFileOwnershipOverlap(P)
    PROVE  ExcludeAt(P, E \cup {e}, excludeStep(s, e).packages)
<1> DEFINE Q == excludeStep(s, e).packages
           R0 == s.packages
<1>0. /\ R0 \subseteq P /\ P \ Overridden(P) \subseteq R0
      /\ \A a, b, r \in P :
             /\ OverlapOf(a, b) \in E
             /\ idToRemove(a, b) = {ID(r)}
             /\ Overrides(P, a, r) \/ Overrides(P, b, r)
             => r \notin R0
  BY DEF ExcludeAt
<1>1. Q \subseteq R0
  BY DEF excludeStep
<1>2. ASSUME NEW r \in R0, r \notin Q PROVE r \in Overridden(P)
  <2>1. /\ e.type = OverlapType /\ Has(R0, e.from) /\ Has(R0, e.to)
        /\ Q = {p \in R0 : ID(p) \notin idToRemove(Get(R0, e.from), Get(R0, e.to))}
    BY <1>2 DEF excludeStep
  <2>2. PICK a \in P, b \in P : a # b /\ Claims(P, a, b) /\ e = OverlapOf(a, b)
    BY <2>1, OverlapsAreClaims
  <2>3. /\ e.from = ID(a) /\ e.to = ID(b)
        /\ a \in R0 /\ b \in R0
    BY <1>0, <2>1, <2>2, OneID DEF OverlapOf, Has
  <2>4. Get(R0, e.from) = a /\ Get(R0, e.to) = b
    BY <1>0, <2>3, OneID
  <2>5. ID(r) \in idToRemove(a, b)
    BY <1>2, <2>1, <2>4
  <2>6. PICK x \in Overridden(P) : ID(r) = ID(x)
    BY <2>2, <2>5, RulesOverride
  <2>7. r \in Package /\ x \in Package
    BY <1>0, <2>6 DEF Overridden
  <2> QED
    BY <2>6, <2>7, OneID
<1>3. ASSUME NEW a \in P, NEW b \in P, NEW r \in P, e = OverlapOf(a, b), idToRemove(a, b) = {ID(r)},
             Overrides(P, a, r) \/ Overrides(P, b, r)
      PROVE  r \notin Q
  <2> SUFFICES ASSUME r \in R0, r \in Q PROVE FALSE
    BY <1>1
  <2>1. PICK x \in {a, b} : Overrides(P, x, r)
    BY <1>3
  <2>2. x \notin Overridden(P)
    BY <2>1 DEF Undisputed
  <2>3. x \in R0
    BY <1>0, <2>2
  <2>4. e.type = OverlapType /\ e.from = ID(a) /\ e.to = ID(b)
    BY <1>3 DEF OverlapOf
  <2>5. r = a \/ r = b
    <3>1. idToRemove(a, b) \subseteq {ID(a), ID(b)}
      BY DEF idToRemove
    <3> QED
      BY <1>3, <3>1, OneID
  <2>6. x # r
    BY <2>1 DEF Overrides
  <2>7. a \in R0 /\ b \in R0
    BY <2>1, <2>3, <2>5, <2>6
  <2>8. Has(R0, e.from) /\ Has(R0, e.to) /\ Get(R0, e.from) = a /\ Get(R0, e.to) = b
    BY <1>0, <2>4, <2>7, OneID
  <2>9. Q = {p \in R0 : ID(p) \notin {ID(r)}}
    BY <1>3, <2>4, <2>8 DEF excludeStep
  <2> QED
    BY <2>9
<1>4. /\ Q \subseteq P
      /\ P \ Overridden(P) \subseteq Q
  BY <1>0, <1>1, <1>2
<1>5. ASSUME NEW a \in P, NEW b \in P, NEW r \in P,
             OverlapOf(a, b) \in E \cup {e}, idToRemove(a, b) = {ID(r)},
             Overrides(P, a, r) \/ Overrides(P, b, r)
      PROVE  r \notin Q
  <2>1. CASE OverlapOf(a, b) \in E
    BY <1>0, <1>1, <1>5, <2>1
  <2>2. CASE OverlapOf(a, b) = e
    BY <1>3, <1>5, <2>2
  <2> QED
    BY <1>5, <2>1, <2>2
<1> QED
  BY <1>4, <1>5 DEF ExcludeAt

\* Once every overlap had its turn nothing is left that is overridden.
LEMMA ExcludeEnds ==
    ASSUME NEW P \in SUBSET Package, NEW E, NEW Q, ExcludeAt(P, E, Q), byFileOwnershipOverlap(P) \subseteq E
    PROVE  Q = P \ Overridden(P)
<1>1. ASSUME NEW r \in Overridden(P) PROVE r \notin Q
  <2>1. r \in P /\ \E p \in P : Overrides(P, p, r)
    BY DEF Overridden
  <2>2. PICK p \in P : Overrides(P, p, r)
    BY <2>1
  <2>3. PICK a \in {p, r}, b \in {p, r} :
            a # b /\ Claims(P, a, b) /\ idToRemove(a, b) = {ID(r)}
    BY <2>1, <2>2, RulesOverride DEF Overrides
  <2>4. a \in P /\ b \in P /\ (Overrides(P, a, r) \/ Overrides(P, b, r))
    BY <2>1, <2>2, <2>3
  <2>5. OverlapOf(a, b) \in E
    BY <2>3, <2>4, OverlapsAreClaims
  <2> QED
    BY <2>1, <2>3, <2>4, <2>5 DEF ExcludeAt
<1> QED
  BY <1>1 DEF ExcludeAt

\* In whichever order the relationships are walked, the exclusion of binary packages leaves
\* exactly the packages that nothing overrides, if no overridden package overrides another
\* (exclude_binaries_by_file_ownership_overlap.go).
THEOREM ExclusionLeaves ==
    ASSUME NEW P \in SUBSET Package, Undisputed(P), NEW rels, NEW T, NEW order \in Seq(T),
           \A e \in ToSet(order) : e.type = OverlapType => e \in byFileOwnershipOverlap(P),
           byFileOwnershipOverlap(P) \subseteq ToSet(order)
    PROVE  FoldLeft(excludeStep, [packages |-> P, relationships |-> rels], order).packages
               = P \ Overridden(P)
<1> DEFINE n == Len(order)
           some(D) == [e \in D |-> rels[e]]
           X == [packages : SUBSET P, relationships : {some(D) : D \in SUBSET DOMAIN rels} \cup {rels}]
           base == [packages |-> P, relationships |-> rels]
           step == [ix \in (1 .. n) \X X |-> excludeStep(ix[2], order[ix[1]])]
           it(f) == f = [u \in SUBSET DOMAIN order |->
                            IF u = {} THEN base ELSE LET x == Max(u) IN excludeStep(f[u \ {x}], order[x])]
           g == CHOOSE f : it(f)
<1>1. n \in Nat /\ DOMAIN order = 1 .. n
  BY LenProperties
<1>2. base \in X
  OBVIOUS
<1>3. \A s \in X : \A e : excludeStep(s, e) \in X
  <2> SUFFICES ASSUME NEW s \in X, NEW e PROVE excludeStep(s, e) \in X
    OBVIOUS
  <2>1. \A ids : RemoveRelationshipsByID(s.relationships, ids) \in {some(D) : D \in SUBSET DOMAIN rels}
    <3> SUFFICES ASSUME NEW ids
                 PROVE  RemoveRelationshipsByID(s.relationships, ids) \in {some(D) : D \in SUBSET DOMAIN rels}
      OBVIOUS
    <3> DEFINE D == {x \in DOMAIN s.relationships : ~Mentions(x, ids)}
    <3>1. /\ DOMAIN s.relationships \subseteq DOMAIN rels
          /\ \A x \in DOMAIN s.relationships : s.relationships[x] = rels[x]
      OBVIOUS
    <3>2. D \subseteq DOMAIN rels /\ RemoveRelationshipsByID(s.relationships, ids) = [x \in D |-> s.relationships[x]]
      BY <3>1 DEF RemoveRelationshipsByID
    <3>3. [x \in D |-> s.relationships[x]] = some(D)
      BY <3>1
    <3> QED
      BY <3>2, <3>3
  <2> DEFINE Y == {some(D) : D \in SUBSET DOMAIN rels} \cup {rels}
             ids == idToRemove(Get(s.packages, e.from), Get(s.packages, e.to))
             left == {p \in s.packages : ID(p) \notin ids}
             kept == RemoveRelationshipsByID(s.relationships, ids)
  <2>2. s \in [packages : SUBSET P, relationships : Y] /\ left \in SUBSET P /\ kept \in Y
    BY <2>1
  <2>3. excludeStep(s, e) = s \/ excludeStep(s, e) = [s EXCEPT !.packages = left, !.relationships = kept]
    BY DEF excludeStep
  <2> DEFINE A == SUBSET P
  <2> HIDE DEF Y, left, kept, A
  <2>4. s \in [packages : A, relationships : Y] /\ left \in A /\ kept \in Y
    BY <2>2 DEF A
  <2>5. [s EXCEPT !.packages = left, !.relationships = kept] \in [packages : A, relationships : Y]
    BY <2>4
  <2>6. excludeStep(s, e) \in [packages : A, relationships : Y]
    BY <2>3, <2>4, <2>5
  <2> QED
    BY <2>6 DEF Y, A
<1>4. FoldLeft(excludeStep, [packages |-> P, relationships |-> rels], order) = g[DOMAIN order]
  BY DEF FoldLeft, MapThenFoldSet
<1> HIDE DEF X
<1>6. step \in [(1 .. n) \X X -> X]
  BY <1>1, <1>3
<1>7. PICK f : Iterates(f, n, X, base, step)
  BY <1>1, <1>2, <1>6, Iterate
<1>8. it(f)
  <2>1. ASSUME NEW u \in SUBSET (1 .. n), u # {}
        PROVE  step[<<Max(u), f[u \ {Max(u)}]>>] = excludeStep(f[u \ {Max(u)}], order[Max(u)])
    <3>1. Max(u) \in u
      BY <1>1, <2>1, MaxIn
    <3>2. Max(u) \in 1 .. n /\ f[u \ {Max(u)}] \in X
      BY <1>7, <3>1 DEF Iterates
    <3> QED
      BY <3>2
  <2> HIDE DEF step, base
  <2> QED
    BY <1>1, <1>7, <2>1 DEF Iterates
<1>9. it(g)
  BY <1>8
<1> HIDE DEF g
<1>10. g[{}] = base
  BY <1>1, <1>9
<1>11. \A i \in 0 .. n - 1 : g[1 .. i + 1] = excludeStep(g[1 .. i], order[i + 1])
  <2> SUFFICES ASSUME NEW i \in 0 .. n - 1 PROVE g[1 .. i + 1] = excludeStep(g[1 .. i], order[i + 1])
    OBVIOUS
  <2>1. /\ 1 .. i + 1 # {} /\ 1 .. i + 1 \in SUBSET DOMAIN order
        /\ Max(1 .. i + 1) = i + 1 /\ (1 .. i + 1) \ {i + 1} = 1 .. i
    BY <1>1, Positions
  <2> HIDE DEF n, base
  <2> QED
    BY <1>9, <2>1
<1> DEFINE before(i) == {order[j] : j \in 1 .. i}
           S == {i \in 0 .. n : ExcludeAt(P, before(i), g[1 .. i].packages)}
<1>12. 0 \in S
  <2>1. ExcludeAt(P, before(0), base.packages)
    BY DEF ExcludeAt
  <2> QED
    BY <1>1, <1>10, <2>1, Positions
<1>13. \A i \in 0 .. n - 1 : i \in S => i + 1 \in S
  <2> SUFFICES ASSUME NEW i \in 0 .. n - 1, i \in S PROVE i + 1 \in S
    OBVIOUS
  <2>1. i \in Nat /\ i + 1 \in 1 .. n /\ i + 1 \in 0 .. n
    BY <1>1
  <2> DEFINE s == g[1 .. i]
  <2>2. ExcludeAt(P, before(i), s.packages)
    OBVIOUS
  <2>3. g[1 .. i + 1] = excludeStep(s, order[i + 1])
    BY <1>11
  <2>4. order[i + 1] \in ToSet(order)
    BY <1>1, <2>1 DEF ToSet
  <2> DEFINE e == order[i + 1]
             E == before(i)
  <2>5. before(i + 1) = E \cup {e}
    <3>1. 1 .. i + 1 = (1 .. i) \cup {i + 1}
      BY <2>1
    <3> QED
      BY <3>1
  <2>6. e.type = OverlapType => e \in byFileOwnershipOverlap(P)
    BY <2>4
  <2> HIDE DEF s, e, E, before
  <2>7. ExcludeAt(P, E, s.packages)
    BY <2>2 DEF E
  <2>8. ExcludeAt(P, E \cup {e}, excludeStep(s, e).packages)
    BY <2>6, <2>7, ExcludeTurnKeeps
  <2> QED
    BY <2>1, <2>3, <2>5, <2>8 DEF e
<1>14. n \in S
  <2> HIDE DEF S
  <2>1. \A i \in 0 .. n : i \in S
    BY <1>1, <1>12, <1>13, InductNat
  <2> QED
    BY <1>1, <2>1
<1> DEFINE Q == g[1 .. n].packages
<1>15. ExcludeAt(P, before(n), Q)
  BY <1>14
<1>16. before(n) = ToSet(order)
  BY <1>1 DEF ToSet
<1> HIDE DEF Q, n, before
<1>17. Q = P \ Overridden(P)
  BY <1>15, <1>16, ExcludeEnds
<1> QED
  BY <1>1, <1>4, <1>17 DEF Q
===============================================================================
