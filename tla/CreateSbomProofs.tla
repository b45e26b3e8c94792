--------------------------- MODULE CreateSbomProofs ---------------------------
(* Proofs about the making of an SBOM, for any number of tasks and workers and   *)
(* whatever the catalogers find: whoever reads the SBOM meanwhile finds both     *)
(* ends of every relationship in it, a run fails if and only if a task did, and  *)
(* the SBOM of one that succeeded holds what it must.                            *)
EXTENDS CreateSbom, TaskProofs

\* What relationships may mention while P are the packages.
Nodes(P) == IDs(P) \cup File \cup Sources
Anchored(E, N) == \A e \in E : e.from \in N /\ e.to \in N

Groups == taskGroups(cfg)
Working(t) == pc[t] \notin {"idle", "done"}

\* Where the relationships task holds relationships it has yet to add.
Adding == {"add overlap", "write dependencies", "add dependencies", "add source", "add evidence"}

Shape ==
    /\ cfg \in Configs /\ group \in DOMAIN Groups
    /\ DOMAIN pc = Task /\ DOMAIN local = Task
    /\ DOMAIN sbom = {"packages", "relationships", "unknowns", "files", "distribution"}
    /\ sbom.packages \subseteq Package

\* A task runs while its group does: nobody runs beside a task that removes packages.
InTheirGroup ==
    \A t \in Task :
        /\ Working(t) => t \in Groups[group]
        /\ pc[t] = "done" => \E g \in DOMAIN Groups : g <= group /\ t \in Groups[g]

\* What a task is about to add mentions what it has added or what is there.
Held ==
    /\ \A t \in PkgTasks :
        /\ pc[t] = "packages" =>
               /\ local[t].packages \subseteq Package
               /\ Anchored(local[t].rels, IDs(local[t].packages) \cup File \cup Foreign)
        /\ pc[t] = "relationships" => Anchored(local[t].rels, Nodes(sbom.packages))
    /\ pc[R] \in Adding => Anchored(local[R].rels, Nodes(sbom.packages))

Sound == Anchored(DOMAIN sbom.relationships, Nodes(sbom.packages))

\* The failures are those of the tasks that are done, and end the run with their group.
Failures ==
    /\ failed = {t \in Task : pc[t] = "done" /\ local[t].fatal}
    /\ \A g \in DOMAIN Groups : g < group => \A t \in Groups[g] : pc[t] = "done" /\ t \notin failed
    /\ outcome = "ok" => group = Len(Groups) /\ GroupDone /\ failed = {}
    /\ outcome = "error" => ~Valid(cfg) \/ failed # {}

IInv == Shape /\ InTheirGroup /\ Held /\ Sound /\ Failures

-------------------------------------------------------------------------------
(* The groups.                                                                 *)

LEMMA InConcat ==
    ASSUME NEW S, NEW s \in Seq(S), NEW t \in Seq(S), NEW g \in DOMAIN (s \o t)
    PROVE  \/ \E i \in DOMAIN s : (s \o t)[g] = s[i]
           \/ \E i \in DOMAIN t : (s \o t)[g] = t[i]
<1>1. g \in 1..(Len(s) + Len(t)) /\ DOMAIN s = 1..Len(s) /\ DOMAIN t = 1..Len(t)
  BY ConcatProperties, LenProperties
<1>2. CASE g <= Len(s)
  BY <1>1, <1>2, ConcatProperties, LenProperties
<1>3. CASE g > Len(s)
  <2>1. g - Len(s) \in DOMAIN t /\ (s \o t)[g] = t[g - Len(s)]
    BY <1>1, <1>3, ConcatProperties, LenProperties
  <2> QED
    BY <2>1
<1> QED
  BY <1>1, <1>2, <1>3, LenProperties

catalogers(c) ==
    IF c.Selection = "owned" THEN <<PkgTasks, FileTasks>> ELSE <<PkgTasks \cup FileTasks>>
cleanup(c) == IF "DeepSquashed" \in c.flags THEN <<{"scope"}>> ELSE <<>>
ending == <<{"relationships"}, {"unknowns"}, {"features"}>>
start(c) == <<{"environment"}>> \o catalogers(c)

LEMMA Parts ==
    ASSUME NEW c
    PROVE  /\ taskGroups(c) = (start(c) \o cleanup(c)) \o ending
           /\ <<{"environment"}>> \in Seq(SUBSET Task) /\ catalogers(c) \in Seq(SUBSET Task)
           /\ start(c) \in Seq(SUBSET Task) /\ cleanup(c) \in Seq(SUBSET Task)
           /\ start(c) \o cleanup(c) \in Seq(SUBSET Task)
           /\ ending \in Seq(SUBSET Task) /\ taskGroups(c) \in Seq(SUBSET Task)
<1> DEFINE S == SUBSET Task
<1>1. taskGroups(c) = (start(c) \o cleanup(c)) \o ending
  BY DEF taskGroups, start, catalogers, cleanup, ending
<1>2. /\ {"environment"} \in S /\ PkgTasks \in S /\ FileTasks \in S /\ PkgTasks \cup FileTasks \in S
      /\ {"scope"} \in S /\ {"relationships"} \in S /\ {"unknowns"} \in S /\ {"features"} \in S
  BY DEF Task, Others
<1> HIDE DEF S
<1>3. /\ <<{"environment"}>> \in Seq(S) /\ catalogers(c) \in Seq(S) /\ cleanup(c) \in Seq(S)
      /\ ending \in Seq(S)
  BY <1>2 DEF catalogers, cleanup, ending
<1>4. start(c) \in Seq(S) /\ start(c) \o cleanup(c) \in Seq(S) /\ taskGroups(c) \in Seq(S)
  BY <1>1, <1>3, ConcatProperties DEF start
<1> QED
  BY <1>1, <1>3, <1>4 DEF S

LEMMA GroupsAreTasks ==
    ASSUME NEW c PROVE taskGroups(c) \in Seq(SUBSET Task) /\ 1 \in DOMAIN taskGroups(c)
<1> DEFINE before == start(c) \o cleanup(c)
<1>1. before \in Seq(SUBSET Task) /\ ending \in Seq(SUBSET Task) /\ taskGroups(c) = before \o ending
  BY Parts
<1>2. Len(ending) = 3
  BY DEF ending
<1> HIDE DEF before
<1>3. Len(taskGroups(c)) = Len(before) + 3 /\ Len(before) \in Nat
  BY <1>1, <1>2, ConcatProperties, LenProperties
<1> QED
  BY <1>3, Parts, LenProperties

\* The tasks that remove packages are groups of their own.
LEMMA Alone ==
    ASSUME NEW c, NEW g \in DOMAIN taskGroups(c), NEW t \in {R, "scope"}, t \in taskGroups(c)[g]
    PROVE  taskGroups(c)[g] = {t}
<1>1. t \notin PkgTasks /\ t \notin FileTasks /\ t # "environment" /\ t # "unknowns" /\ t # "features"
  BY TasksAssumption DEF R, Others, Artifacts
<1>2. \A i \in DOMAIN <<{"environment"}>> : t \notin <<{"environment"}>>[i]
  BY <1>1
<1>3. \A i \in DOMAIN catalogers(c) : t \notin catalogers(c)[i]
  BY <1>1 DEF catalogers
<1>4. \A i \in DOMAIN cleanup(c) : t \in cleanup(c)[i] => cleanup(c)[i] = {t}
  BY DEF cleanup
<1>5. \A i \in DOMAIN ending : t \in ending[i] => ending[i] = {t}
  BY <1>1 DEF R, ending
<1>6. \A i \in DOMAIN start(c) : t \notin start(c)[i]
  BY <1>2, <1>3, Parts, InConcat DEF start
<1> DEFINE before == start(c) \o cleanup(c)
<1>7. before \in Seq(SUBSET Task) /\ before = start(c) \o cleanup(c)
  BY Parts
<1> HIDE DEF before
<1>8. \A i \in DOMAIN before : t \in before[i] => before[i] = {t}
  BY <1>4, <1>6, <1>7, Parts, InConcat
<1>9. taskGroups(c) = before \o ending /\ ending \in Seq(SUBSET Task)
  BY <1>7, Parts
<1>10. \A i \in DOMAIN (before \o ending) :
            t \in (before \o ending)[i] => (before \o ending)[i] = {t}
  BY <1>5, <1>7, <1>8, <1>9, InConcat
<1> QED
  BY <1>9, <1>10

Apart(s) == \A i, j \in DOMAIN s : i # j => s[i] \cap s[j] = {}
Within(s, X) == \A i \in DOMAIN s : s[i] \subseteq X

LEMMA ApartConcat ==
    ASSUME NEW S, NEW s \in Seq(S), NEW t \in Seq(S), NEW X, NEW Y, X \cap Y = {},
           Apart(s), Apart(t), Within(s, X), Within(t, Y)
    PROVE  Apart(s \o t) /\ Within(s \o t, X \cup Y)
<1> DEFINE n == Len(s)
           u == s \o t
<1>1. /\ DOMAIN u = 1..(n + Len(t)) /\ n \in Nat /\ Len(t) \in Nat
      /\ DOMAIN s = 1..n /\ DOMAIN t = 1..Len(t)
  BY ConcatProperties, LenProperties
<1>2. \A i \in DOMAIN u : \/ i \in DOMAIN s /\ u[i] = s[i]
                          \/ i - n \in DOMAIN t /\ u[i] = t[i - n]
  <2> SUFFICES ASSUME NEW i \in DOMAIN u
               PROVE  \/ i \in DOMAIN s /\ u[i] = s[i]
                      \/ i - n \in DOMAIN t /\ u[i] = t[i - n]
    OBVIOUS
  <2>1. CASE i <= n
    BY <1>1, <2>1, ConcatProperties, LenProperties
  <2>2. CASE i > n
    BY <1>1, <2>2, ConcatProperties, LenProperties
  <2> QED
    BY <1>1, <2>1, <2>2
<1> HIDE DEF u, n
<1>3. Within(u, X \cup Y)
  BY <1>2 DEF Within
<1>4. Apart(u)
  <2> SUFFICES ASSUME NEW i \in DOMAIN u, NEW j \in DOMAIN u, i # j PROVE u[i] \cap u[j] = {}
    BY DEF Apart
  <2>1. CASE i \in DOMAIN s /\ u[i] = s[i] /\ j \in DOMAIN s /\ u[j] = s[j]
    BY <2>1 DEF Apart
  <2>2. CASE i - n \in DOMAIN t /\ u[i] = t[i - n] /\ j - n \in DOMAIN t /\ u[j] = t[j - n]
    <3>1. i - n # j - n
      BY <1>1
    <3> QED
      BY <2>2, <3>1 DEF Apart
  <2>3. CASE i \in DOMAIN s /\ u[i] = s[i] /\ j - n \in DOMAIN t /\ u[j] = t[j - n]
    BY <2>3 DEF Within
  <2>4. CASE i - n \in DOMAIN t /\ u[i] = t[i - n] /\ j \in DOMAIN s /\ u[j] = s[j]
    BY <2>4 DEF Within
  <2> QED
    BY <1>2, <2>1, <2>2, <2>3, <2>4
<1> QED
  BY <1>3, <1>4 DEF u

\* No task is in two groups.
LEMMA GroupsApart == ASSUME NEW c PROVE Apart(taskGroups(c))
<1> DEFINE env == <<{"environment"}>>
           before == start(c) \o cleanup(c)
           A == {"environment"}
           B == PkgTasks \cup FileTasks
           last == {"relationships", "unknowns", "features"}
<1>1. /\ A \cap B = {} /\ (A \cup B) \cap {"scope"} = {}
      /\ ((A \cup B) \cup {"scope"}) \cap last = {} /\ PkgTasks \cap FileTasks = {}
  BY TasksAssumption DEF Others, Artifacts
<1>2. Apart(env) /\ Within(env, A)
  BY DEF Apart, Within
<1>3. Apart(catalogers(c)) /\ Within(catalogers(c), B)
  BY <1>1 DEF Apart, Within, catalogers
<1>4. Apart(cleanup(c)) /\ Within(cleanup(c), {"scope"})
  BY DEF Apart, Within, cleanup
<1>5. Apart(ending) /\ Within(ending, last)
  BY DEF Apart, Within, ending
<1> HIDE DEF A, B, last
<1>6. Apart(start(c)) /\ Within(start(c), A \cup B)
  <2>1. start(c) = env \o catalogers(c) /\ env \in Seq(SUBSET Task) /\ catalogers(c) \in Seq(SUBSET Task)
    BY Parts DEF start
  <2>2. A \cap B = {} /\ Apart(env) /\ Within(env, A)
    BY <1>1, <1>2
  <2>3. Apart(catalogers(c)) /\ Within(catalogers(c), B)
    BY <1>3
  <2> HIDE DEF env
  <2>4. Apart(env \o catalogers(c)) /\ Within(env \o catalogers(c), A \cup B)
    BY <2>1, <2>2, <2>3, ApartConcat
  <2> QED
    BY <2>1, <2>4
<1>7. before \in Seq(SUBSET Task) /\ Apart(before) /\ Within(before, (A \cup B) \cup {"scope"})
  BY <1>1, <1>4, <1>6, Parts, ApartConcat
<1> HIDE DEF before
<1> QED
  <2>1. taskGroups(c) = before \o ending /\ ending \in Seq(SUBSET Task)
    BY Parts DEF before
  <2> QED
    BY <1>1, <1>5, <1>7, <2>1, ApartConcat

LEMMA TasksApart ==
    /\ R \in Task /\ "scope" \in Task /\ R # "scope"
    /\ R \notin PkgTasks /\ "scope" \notin PkgTasks
    /\ PkgTasks \subseteq Task /\ FileTasks \subseteq Task
BY TasksAssumption DEF Task, Others, R, Artifacts

-------------------------------------------------------------------------------
(* Steps of a task that goes on.                                               *)

Goes(t, to) ==
    /\ Working(t) /\ to \notin {"idle", "done"}
    /\ DOMAIN pc' = Task /\ \A u \in Task : pc'[u] = IF u = t THEN to ELSE pc[u]
    /\ UNCHANGED <<cfg, group, failed, outcome>>

LEMMA GoingOn ==
    ASSUME IInv, NEW t \in Task, NEW to, Goes(t, to),
           DOMAIN local' = Task, \A u \in Task \ {t} : local'[u] = local[u]
    PROVE  InTheirGroup' /\ Failures'
<1>1. /\ DOMAIN pc = Task /\ pc[t] \notin {"idle", "done"} /\ to \notin {"idle", "done"}
      /\ (\A u \in Task : pc'[u] = IF u = t THEN to ELSE pc[u]) /\ cfg' = cfg /\ group' = group
      /\ failed' = failed /\ outcome' = outcome /\ Groups' = Groups
  BY DEF IInv, Shape, Goes, Working, Groups
<1>2. /\ \A u \in Task : pc'[u] = "done" <=> pc[u] = "done"
      /\ \A u \in Task : pc'[u] = "idle" <=> pc[u] = "idle"
  BY <1>1
<1>3. \A u \in Task : pc'[u] = "done" => local'[u] = local[u]
  BY <1>1, <1>2
<1>4. InTheirGroup'
  BY <1>1, <1>2 DEF IInv, InTheirGroup, Working
<1>5. failed' = {u \in Task : pc'[u] = "done" /\ local'[u].fatal}
  BY <1>1, <1>2, <1>3 DEF IInv, Failures
<1>6. \A g \in DOMAIN Groups : Groups[g] \subseteq Task
  BY GroupsAreTasks, ElementOfSeq, LenProperties DEF Groups
<1>7. \A g \in DOMAIN Groups' : g < group' => \A u \in Groups'[g] : pc'[u] = "done" /\ u \notin failed'
  BY <1>1, <1>2, <1>6 DEF IInv, Failures
<1>8. GroupDone => GroupDone'
  BY <1>1, <1>2, <1>6 DEF GroupDone, Groups, IInv, Shape
<1>9. /\ outcome' = "ok" => group' = Len(Groups') /\ GroupDone' /\ failed' = {}
      /\ outcome' = "error" => ~Valid(cfg') \/ failed' # {}
  BY <1>1, <1>8 DEF IInv, Failures, Valid
<1> QED
  BY <1>4, <1>5, <1>7, <1>9 DEF Failures

LEMMA MoreNodes ==
    ASSUME NEW P, NEW Q, P \subseteq Q
    PROVE  /\ Nodes(P) \subseteq Nodes(Q)
           /\ \A E : Anchored(E, Nodes(P)) => Anchored(E, Nodes(Q))
BY DEF Nodes, IDs, Anchored

\* A task works on what it holds.
LEMMA WorkStep ==
    ASSUME IInv, NEW t \in Task, NEW from, NEW to, NEW l, Work(t, from, to, l),
           {from, to} \cap {"idle", "done", "relationships"} = {},
           t \in PkgTasks /\ to = "packages" =>
               l.packages \subseteq Package /\ Anchored(l.rels, IDs(l.packages) \cup File \cup Foreign),
           t = R /\ to \in Adding => Anchored(l.rels, Nodes(sbom.packages))
    PROVE  IInv'
<1>1. /\ DOMAIN pc = Task /\ DOMAIN local = Task /\ pc[t] = from
      /\ pc' = [pc EXCEPT ![t] = to] /\ local' = [local EXCEPT ![t] = l]
      /\ UNCHANGED <<cfg, group, sbom, failed, outcome>>
  BY DEF IInv, Shape, Work
<1>2. InTheirGroup' /\ Failures'
  BY <1>1, GoingOn DEF Goes, Working
<1>3. Shape' /\ Sound'
  BY <1>1 DEF IInv, Shape, Sound, Groups, Nodes, IDs, ID, Anchored
<1>4. Held'
  BY <1>1, TasksApart DEF IInv, Held, Anchored, Nodes, IDs, ID
<1> QED
  BY <1>2, <1>3, <1>4 DEF IInv

\* A task adds to the SBOM.
LEMMA WriteStep ==
    ASSUME IInv, NEW t \in Task, NEW from, NEW to, NEW s, Write(t, from, to, s),
           {from, to} \cap {"idle", "done", "packages"} \subseteq {from} \cap {"packages"},
           DOMAIN s = DOMAIN sbom, sbom.packages \subseteq s.packages, s.packages \subseteq Package,
           Anchored(DOMAIN s.relationships, Nodes(s.packages)),
           t \in PkgTasks /\ to = "relationships" => Anchored(local[t].rels, Nodes(s.packages)),
           t = R /\ to \in Adding => Anchored(local[R].rels, Nodes(s.packages))
    PROVE  IInv'
<1>1. /\ DOMAIN pc = Task /\ DOMAIN local = Task /\ pc[t] = from
      /\ pc' = [pc EXCEPT ![t] = to] /\ sbom' = s
      /\ UNCHANGED <<cfg, group, local, failed, outcome>>
  BY DEF IInv, Shape, Write
<1>2. InTheirGroup' /\ Failures'
  BY <1>1, GoingOn DEF Goes, Working
<1>3. Shape' /\ Sound'
  BY <1>1 DEF IInv, Shape, Sound, Groups, Nodes, IDs, ID, Anchored
<1>4. Held'
  <2>1. ASSUME NEW u \in PkgTasks
        PROVE  /\ pc'[u] = "packages" =>
                      /\ local[u].packages \subseteq Package
                      /\ Anchored(local[u].rels, IDs(local[u].packages) \cup File \cup Foreign)
               /\ pc'[u] = "relationships" => Anchored(local[u].rels, Nodes(s.packages))
    <3>1. CASE u = t
      BY <1>1, <3>1, TasksApart DEF IInv, Held
    <3>2. CASE u # t
      BY <1>1, <3>2, TasksApart, MoreNodes DEF IInv, Held
    <3> QED
      BY <3>1, <3>2
  <2>2. pc'[R] \in Adding => Anchored(local[R].rels, Nodes(s.packages))
    BY <1>1, TasksApart, MoreNodes DEF IInv, Held
  <2> QED
    BY <1>1, <2>1, <2>2 DEF Held, Anchored, Nodes, IDs, ID
<1> QED
  BY <1>2, <1>3, <1>4 DEF IInv

\* A task leaves packages and relationships alone.
LEMMA SameStep ==
    ASSUME IInv, NEW t \in Task \ PkgTasks, NEW from, NEW to, NEW s, Write(t, from, to, s),
           DOMAIN s = DOMAIN sbom, s.packages = sbom.packages,
           s.relationships = sbom.relationships,
           {from, to} \cap {"idle", "done", "packages"} = {}, t = R => to \notin Adding
    PROVE  IInv'
<1>1. s.packages \subseteq Package /\ Anchored(DOMAIN s.relationships, Nodes(s.packages))
  BY DEF IInv, Shape, Sound
<1> QED
  BY <1>1, WriteStep

\* A task adds relationships.
LEMMA AddStep ==
    ASSUME IInv, NEW t \in Task, NEW from, NEW to, NEW E,
           Write(t, from, to, withRelationships(E)), Anchored(E, Nodes(sbom.packages)),
           {from, to} \cap {"idle", "done", "packages"} = {}, to # "relationships",
           t = R /\ to \in Adding => Anchored(local[R].rels, Nodes(sbom.packages))
    PROVE  IInv'
<1> DEFINE s == withRelationships(E)
<1>1. /\ s.packages = sbom.packages /\ DOMAIN s = DOMAIN sbom
      /\ s.relationships = sbom.relationships (+) SetToBag(E)
  BY DEF withRelationships, IInv, Shape
<1>2. DOMAIN s.relationships = DOMAIN sbom.relationships \cup E
  BY <1>1 DEF SetToBag, (+)
<1> HIDE DEF s
<1>3. Anchored(DOMAIN s.relationships, Nodes(s.packages))
  BY <1>1, <1>2 DEF IInv, Sound, Anchored
<1>4. s.packages \subseteq Package
  BY <1>1 DEF IInv, Shape
<1>5. Write(t, from, to, s)
  BY DEF s
<1> QED
  BY <1>1, <1>3, <1>4, <1>5, WriteStep

\* Packages go, and what mentions them goes with them.
LEMMA Removal ==
    ASSUME NEW P, NEW B, NEW ids, Anchored(DOMAIN B, Nodes(P))
    PROVE  Anchored(DOMAIN RemoveRelationshipsByID(B, ids), Nodes({p \in P : ID(p) \notin ids}))
BY DEF Anchored, RemoveRelationshipsByID, Mentions, Nodes, IDs

LEMMA RemoveStep ==
    ASSUME IInv, NEW t \in {R, "scope"}, NEW to, NEW ids, Goes(t, to), to \notin Adding,
           DOMAIN local' = Task, \A u \in Task \ {t} : local'[u] = local[u],
           DOMAIN sbom' = DOMAIN sbom,
           sbom'.packages = {p \in sbom.packages : ID(p) \notin ids},
           sbom'.relationships = RemoveRelationshipsByID(sbom.relationships, ids)
    PROVE  IInv'
<1>1. /\ t \in Task /\ DOMAIN pc = Task /\ pc[t] \notin {"idle", "done"}
      /\ DOMAIN pc' = Task /\ (\A u \in Task : pc'[u] = IF u = t THEN to ELSE pc[u])
      /\ cfg' = cfg /\ group' = group /\ group \in DOMAIN Groups
  BY TasksApart DEF IInv, Shape, Goes, Working
<1>2. InTheirGroup' /\ Failures'
  BY <1>1, GoingOn
<1>3. Shape'
  BY <1>1 DEF IInv, Shape, Groups
<1>4. Sound'
  <2>1. Anchored(DOMAIN sbom'.relationships, Nodes({p \in sbom.packages : ID(p) \notin ids}))
    BY Removal DEF IInv, Sound
  <2> QED
    BY <2>1 DEF Sound, Nodes, IDs, ID, Anchored
<1>5. Held'
  <2>1. Groups[group] = {t}
    BY <1>1, Alone DEF IInv, InTheirGroup, Groups, Working
  <2>2. \A u \in Task \ {t} : pc'[u] \in {"idle", "done"}
    BY <1>1, <2>1 DEF IInv, InTheirGroup, Working
  <2>3. \A u \in PkgTasks : pc'[u] \in {"idle", "done"}
    BY <2>2, TasksApart
  <2>4. pc'[R] \notin Adding
    BY <1>1, <2>2, TasksApart DEF Adding
  <2> QED
    BY <2>3, <2>4 DEF Held
<1> QED
  BY <1>2, <1>3, <1>4, <1>5 DEF IInv
-------------------------------------------------------------------------------
(* The loop over the groups.                                                   *)

LEMMA InitIInv == Init => IInv
<1> SUFFICES ASSUME Init PROVE IInv
  OBVIOUS
<1>1. Shape
  BY GroupsAreTasks DEF Init, Shape, Groups, NoSbom
<1>2. InTheirGroup /\ Held
  BY TasksApart DEF Init, InTheirGroup, Held, Working, Adding
<1>3. Sound
  BY DEF Init, Sound, NoSbom, Anchored, EmptyBag, SetToBag
<1>4. Failures
  <2>1. \A g \in DOMAIN Groups : ~(g < 1)
    BY GroupsAreTasks, LenProperties DEF Groups
  <2>2. group = 1 /\ failed = {} /\ \A t \in Task : pc[t] = "idle"
    BY DEF Init
  <2>3. outcome # "ok" /\ (outcome = "error" => ~Valid(cfg))
    BY DEF Init
  <2> QED
    BY <2>1, <2>2, <2>3 DEF Failures
<1> QED
  BY <1>1, <1>2, <1>3, <1>4 DEF IInv

LEMMA StartIInv == ASSUME IInv, NEW t \in Task, Start(t) PROVE IInv'
<1>1. /\ DOMAIN pc = Task /\ pc[t] = "idle" /\ t \in Groups[group]
      /\ pc' = [pc EXCEPT ![t] = firstStep(t)]
      /\ UNCHANGED <<cfg, group, local, sbom, failed, outcome>>
  BY DEF IInv, Shape, Start, Groups
<1>2. firstStep(t) \in {"catalog", "select", "read", "write"}
  BY DEF firstStep
<1>3. /\ \A u \in Task : pc'[u] = "done" <=> pc[u] = "done"
      /\ \A u \in Task \ {t} : pc'[u] = pc[u]
      /\ pc'[t] \notin {"idle", "done", "packages", "relationships"} \cup Adding
  BY <1>1, <1>2 DEF Adding
<1>4. InTheirGroup'
  BY <1>1, <1>3 DEF IInv, InTheirGroup, Working, Groups
<1>5. Held'
  BY <1>1, <1>3, TasksApart DEF IInv, Held, Nodes, IDs, ID, Anchored
<1>6. Failures'
  <2>1. \A g \in DOMAIN Groups : Groups[g] \subseteq Task
    BY GroupsAreTasks, ElementOfSeq, LenProperties DEF Groups
  <2>2. GroupDone => GroupDone'
    BY <1>1, <1>3, <2>1 DEF GroupDone, Groups, IInv, Shape
  <2>3. failed' = {u \in Task : pc'[u] = "done" /\ local'[u].fatal}
    BY <1>1, <1>3 DEF IInv, Failures
  <2>4. \A g \in DOMAIN Groups' : g < group' => \A u \in Groups'[g] : pc'[u] = "done" /\ u \notin failed'
    BY <1>1, <1>3, <2>1 DEF IInv, Failures, Groups
  <2> QED
    BY <1>1, <2>2, <2>3, <2>4 DEF IInv, Failures, Groups, Valid
<1>7. Shape' /\ Sound'
  BY <1>1 DEF IInv, Shape, Sound, Groups, Nodes, IDs, ID, Anchored
<1> QED
  BY <1>4, <1>5, <1>6, <1>7 DEF IInv

LEMMA EndGroupIInv == ASSUME IInv, EndGroup PROVE IInv'
<1>1. /\ GroupDone /\ outcome = "running" /\ UNCHANGED <<cfg, pc, local, sbom, failed>>
      /\ Groups' = Groups /\ GroupDone = (\A t \in Groups[group] : pc[t] = "done")
  BY DEF EndGroup, Groups, GroupDone
<1>2. /\ Groups \in Seq(SUBSET Task) /\ DOMAIN Groups = 1..Len(Groups) /\ Len(Groups) \in Nat
      /\ group \in 1..Len(Groups)
  BY GroupsAreTasks, LenProperties DEF Groups, IInv, Shape
<1>3. Held' /\ Sound'
  BY <1>1 DEF IInv, Held, Sound, Nodes, IDs, ID, Anchored
<1>4. CASE failed # {} /\ outcome' = "error" /\ group' = group
  BY <1>1, <1>3, <1>4 DEF IInv, Shape, InTheirGroup, Working, Failures
<1>5. CASE failed = {} /\ group = Len(Groups) /\ outcome' = "ok" /\ group' = group
  <2>1. GroupDone'
    BY <1>1, <1>5 DEF GroupDone
  <2>2. Failures'
    BY <1>1, <1>5, <2>1 DEF IInv, Failures
  <2> QED
    BY <1>1, <1>3, <1>5, <2>2 DEF IInv, Shape, InTheirGroup, Working
<1>6. CASE failed = {} /\ group # Len(Groups) /\ group' = group + 1 /\ outcome' = outcome
  <2>1. Shape'
    BY <1>1, <1>2, <1>6 DEF IInv, Shape
  <2>2. InTheirGroup'
    <3>1. \A t \in Task : ~Working(t)
      BY <1>1 DEF IInv, InTheirGroup, Working
    <3>2. \A g \in DOMAIN Groups : g <= group => g <= group'
      <4>1. group \in Nat /\ (\A g \in DOMAIN Groups : g \in Nat) /\ group' = group + 1
        <5>1. group \in Nat /\ (\A g \in DOMAIN Groups : g \in Nat)
          BY <1>2
        <5> QED
          BY <5>1, <1>6
      <4> QED
        BY <4>1
    <3>3. pc' = pc
      BY <1>1
    <3> QED
      BY <1>1, <3>1, <3>2, <3>3 DEF IInv, InTheirGroup, Working
  <2>3. Failures'
    <3>1. group \in Nat /\ \A g \in DOMAIN Groups : g \in Nat
      BY <1>2
    <3>2. \A g \in DOMAIN Groups : g < group + 1 => g < group \/ g = group
      BY <3>1
    <3>3. \A t \in Groups[group] : pc[t] = "done"
      BY <1>1
    <3>4. \A g \in DOMAIN Groups : g < group' => \A t \in Groups[g] : pc[t] = "done"
      BY <1>6, <3>2, <3>3 DEF IInv, Failures
    <3>5. /\ failed' = failed /\ pc' = pc /\ local' = local /\ cfg' = cfg
          /\ outcome' = "running" /\ failed = {}
      BY <1>1, <1>6
    <3> QED
      BY <1>1, <3>4, <3>5 DEF IInv, Failures
  <2> QED
    BY <1>3, <2>1, <2>2, <2>3 DEF IInv
<1> QED
  BY <1>4, <1>5, <1>6 DEF EndGroup, Groups

LEMMA ReportIInv == ASSUME IInv, NEW t \in Task, Report(t) PROVE IInv'
<1>1. /\ DOMAIN pc = Task /\ pc[t] = "report" /\ t \in Groups[group]
      /\ pc' = [pc EXCEPT ![t] = "done"]
      /\ failed' = (IF local[t].fatal THEN failed \cup {t} ELSE failed)
      /\ sbom' = [sbom EXCEPT !.unknowns = @ \cup (local[t].unknowns \X {t})]
      /\ UNCHANGED <<cfg, group, local, outcome>> /\ Groups' = Groups
  BY DEF IInv, Shape, Report, Groups, InTheirGroup, Working
<1>2. /\ Groups \in Seq(SUBSET Task) /\ DOMAIN Groups = 1..Len(Groups) /\ Len(Groups) \in Nat
      /\ group \in 1..Len(Groups)
  BY GroupsAreTasks, LenProperties DEF Groups, IInv, Shape
<1>3. /\ sbom'.packages = sbom.packages /\ sbom'.relationships = sbom.relationships
      /\ DOMAIN sbom' = DOMAIN sbom
  BY <1>1 DEF IInv, Shape
<1>4. /\ \A u \in Task \ {t} : pc'[u] = pc[u]
      /\ pc'[t] = "done"
  BY <1>1
<1>5. Shape' /\ Sound'
  BY <1>1, <1>3 DEF IInv, Shape, Sound, Nodes, IDs, ID, Anchored
<1>6. InTheirGroup'
  BY <1>1, <1>2, <1>4 DEF IInv, InTheirGroup, Working
<1>7. Held'
  BY <1>1, <1>3, <1>4, TasksApart DEF IInv, Held, Adding, Nodes, IDs, ID, Anchored
<1>8. failed' = {u \in Task : pc'[u] = "done" /\ local'[u].fatal}
  BY <1>1, <1>4 DEF IInv, Failures
<1>9. \A g \in DOMAIN Groups' : g < group' => \A u \in Groups'[g] : pc'[u] = "done" /\ u \notin failed'
  <2>1. ASSUME NEW g \in DOMAIN Groups, g < group, NEW u \in Groups[g]
        PROVE  pc'[u] = "done" /\ u \notin failed'
    <3>1. u \in Task /\ pc[u] = "done" /\ u \notin failed /\ u # t
      BY <1>1, <1>2, <2>1, ElementOfSeq DEF IInv, Failures
    <3> QED
      BY <1>1, <1>4, <3>1
  <2> QED
    BY <1>1, <2>1
<1>10. outcome # "ok"
  BY <1>1 DEF IInv, Failures, GroupDone, Groups
<1>11. failed # {} => failed' # {}
  BY <1>1
<1> QED
  BY <1>1, <1>5, <1>6, <1>7, <1>8, <1>9, <1>10, <1>11 DEF IInv, Failures, Valid

-------------------------------------------------------------------------------
(* The tasks.                                                                  *)

LEMMA PackageTasks ==
    ASSUME IInv, NEW t \in PkgTasks, Catalog(t) \/ AddPackages(t) \/ AddRelationships(t)
    PROVE  IInv'
<1>1. t \in Task /\ t # R
  BY TasksApart
<1>2. CASE Catalog(t)
  <2> PICK r \in Results(t) :
        Work(t, "catalog", "packages",
             [Blank EXCEPT !.packages = ToSet(remaining(cfg.Compliance, r.pkgs)),
                           !.rels = remainingRelationships(cfg.Compliance, r.pkgs,
                               finalizeResults(r.pkgs, r.rels, "PackageFileOwnership" \in cfg.flags)),
                           !.unknowns = r.unknowns, !.fatal = r.fatal])
    BY <1>2 DEF Catalog
  <2> DEFINE left == ToSet(remaining(cfg.Compliance, r.pkgs))
             rels == remainingRelationships(cfg.Compliance, r.pkgs,
                         finalizeResults(r.pkgs, r.rels, "PackageFileOwnership" \in cfg.flags))
             l == [Blank EXCEPT !.packages = left, !.rels = rels,
                                !.unknowns = r.unknowns, !.fatal = r.fatal]
  <2>1. Work(t, "catalog", "packages", l)
    OBVIOUS
  <2>2. left \subseteq Package /\ \A e \in rels : {e.from, e.to} \subseteq IDs(left) \cup File \cup Foreign
    BY CompliedAssumption DEF IInv, Shape
  <2> HIDE DEF left, rels
  <2>3. l.packages = left /\ l.rels = rels
    BY DEF Blank
  <2> HIDE DEF l
  <2>4. l.packages \subseteq Package /\ Anchored(l.rels, IDs(l.packages) \cup File \cup Foreign)
    BY <2>2, <2>3 DEF Anchored
  <2> QED
    BY <1>1, <2>1, <2>4, WorkStep
<1>3. CASE AddPackages(t)
  <2>1. Write(t, "packages", "relationships", withPackages(local[t].packages)) /\ pc[t] = "packages"
    BY <1>3 DEF AddPackages, Write
  <2> DEFINE s == withPackages(local[t].packages)
  <2>2. /\ local[t].packages \subseteq Package
        /\ Anchored(local[t].rels, IDs(local[t].packages) \cup File \cup Foreign)
    BY <2>1 DEF IInv, Held
  <2>3. /\ s.packages = sbom.packages \cup local[t].packages
        /\ s.relationships = sbom.relationships /\ DOMAIN s = DOMAIN sbom
    BY DEF withPackages, IInv, Shape
  <2> HIDE DEF s
  <2>4. sbom.packages \subseteq s.packages /\ s.packages \subseteq Package
    BY <2>2, <2>3 DEF IInv, Shape
  <2>5. Anchored(DOMAIN s.relationships, Nodes(s.packages))
    BY <2>3, <2>4, MoreNodes DEF IInv, Sound
  <2>6. Anchored(local[t].rels, Nodes(s.packages))
    BY <2>2, <2>3 DEF Anchored, Nodes, IDs, Sources
  <2>7. Write(t, "packages", "relationships", s)
    BY <2>1 DEF s
  <2> QED
    BY <1>1, <2>3, <2>4, <2>5, <2>6, <2>7, WriteStep
<1>4. CASE AddRelationships(t)
  <2>1. Write(t, "relationships", "report", withRelationships(local[t].rels))
    BY <1>4 DEF AddRelationships
  <2>2. Anchored(local[t].rels, Nodes(sbom.packages))
    BY <2>1 DEF IInv, Held, Write
  <2> QED
    BY <1>1, <2>1, <2>2, AddStep
<1> QED
  BY <1>2, <1>3, <1>4

\* What a file task writes is not about packages or relationships.
LEMMA FileTasksStep ==
    ASSUME IInv, NEW t \in FileTasks, Select(t) \/ CatalogFiles(t) \/ WriteFiles(t)
    PROVE  IInv'
<1>1. t \in Task /\ t # R /\ t \notin PkgTasks
  BY TasksApart, TasksAssumption DEF R, Artifacts
<1>2. CASE Select(t)
  <2>1. PICK to \in {"report", "catalog"} : \E l : Work(t, "select", to, l)
    BY <1>2 DEF Select
  <2>2. PICK l : Work(t, "select", to, l)
    BY <2>1
  <2> QED
    BY <1>1, <2>2, WorkStep
<1>3. CASE CatalogFiles(t)
  <2>1. PICK l : Work(t, "catalog", "write", l)
    BY <1>3 DEF CatalogFiles
  <2> QED
    BY <1>1, <2>1, WorkStep
<1>4. CASE WriteFiles(t)
  <2> DEFINE s == [sbom EXCEPT !.files[t] = local[t].files]
  <2>1. Write(t, "write", "report", s)
    BY <1>4 DEF WriteFiles
  <2>2. /\ s.packages = sbom.packages /\ s.relationships = sbom.relationships
        /\ DOMAIN s = DOMAIN sbom
    BY DEF IInv, Shape
  <2> HIDE DEF s
  <2> QED
    BY <1>1, <2>1, <2>2, SameStep
<1> QED
  BY <1>2, <1>3, <1>4

LEMMA OtherTasks ==
    ASSUME IInv, Environment \/ LabelUnknowns \/ DetectFeatures
    PROVE  IInv'
<1>1. {"environment", "unknowns", "features"} \subseteq Task \ (PkgTasks \cup {R})
  BY TasksAssumption DEF Task, Others, R
<1>2. CASE Environment
  <2> DEFINE s == [sbom EXCEPT !.distribution = Release(cfg.Distribution)]
  <2>1. Write("environment", "write", "report", s)
    BY <1>2 DEF Environment
  <2>2. /\ s.packages = sbom.packages /\ s.relationships = sbom.relationships
        /\ DOMAIN s = DOMAIN sbom
    BY DEF IInv, Shape
  <2> HIDE DEF s
  <2> QED
    BY <1>1, <2>1, <2>2, SameStep
<1>3. CASE LabelUnknowns
  <2> DEFINE s == finalizeUnknowns(sbom, cfg.flags, Archives)
  <2>1. Write("unknowns", "write", "report", s)
    BY <1>3 DEF LabelUnknowns
  <2>2. /\ s.packages = sbom.packages /\ s.relationships = sbom.relationships
        /\ DOMAIN s = DOMAIN sbom
    BY DEF IInv, Shape, finalizeUnknowns
  <2> HIDE DEF s
  <2> QED
    BY <1>1, <2>1, <2>2, SameStep
<1>4. CASE DetectFeatures
  <2>1. PICK s \in {sbom, [sbom EXCEPT !.distribution.ExtendedSupport = TRUE]} :
            Write("features", "write", "report", s)
    BY <1>4 DEF DetectFeatures
  <2>2. /\ s.packages = sbom.packages /\ s.relationships = sbom.relationships
        /\ DOMAIN s = DOMAIN sbom
    BY <2>1 DEF IInv, Shape
  <2> QED
    BY <1>1, <2>1, <2>2, SameStep
<1> QED
  BY <1>2, <1>3, <1>4

\* The scope task and the relationships task remove packages between two calls.
LEMMA Removals ==
    ASSUME IInv, ReadScope \/ DeleteScope \/ ReadElf \/ DeleteElf
    PROVE  IInv'
<1> USE TasksApart
<1>1. CASE ReadScope
  <2>1. PICK l : Work("scope", "read", "delete", l)
    BY <1>1 DEF ReadScope
  <2> QED
    BY <2>1, WorkStep
<1>2. CASE ReadElf
  <2>1. PICK l : Work(R, "read", "delete", l)
    BY <1>2 DEF ReadElf
  <2> QED
    BY <2>1, WorkStep DEF Adding
<1>3. ASSUME NEW t \in {R, "scope"}, NEW to \in {"report", "overlap"}, NEW ids,
             Write(t, "delete", to, withoutPackages(ids))
      PROVE  IInv'
  <2>1. Goes(t, to) /\ local' = local /\ sbom' = withoutPackages(ids)
    BY <1>3 DEF Write, Goes, Working, IInv, Shape
  <2>2. /\ sbom'.packages = {p \in sbom.packages : ID(p) \notin ids}
        /\ sbom'.relationships = RemoveRelationshipsByID(sbom.relationships, ids)
        /\ DOMAIN sbom' = DOMAIN sbom /\ DOMAIN local = Task
    BY <2>1 DEF withoutPackages, IInv, Shape
  <2> QED
    BY <2>1, <2>2, RemoveStep DEF Adding
<1>4. CASE DeleteScope
  BY <1>3, <1>4 DEF DeleteScope
<1>5. CASE DeleteElf
  BY <1>3, <1>5 DEF DeleteElf
<1> QED
  BY <1>1, <1>2, <1>4, <1>5

LEMMA Exclusion ==
    ASSUME IInv, ExcludeTurn \/ EndExclude
    PROVE  IInv'
<1>1. CASE EndExclude
  BY <1>1, TasksApart, SameStep DEF EndExclude, Adding, IInv, Shape
<1>2. CASE ExcludeTurn
  <2>1. PICK e \in local[R].rels :
            /\ pc[R] = "exclude" /\ sbom' = excludeStep(sbom, e)
            /\ local' = [local EXCEPT ![R] = [Blank EXCEPT !.rels = local[R].rels \ {e}]]
            /\ UNCHANGED <<cfg, group, pc, failed, outcome>>
    BY <1>2 DEF ExcludeTurn
  <2>2. /\ Goes(R, "exclude") /\ "exclude" \notin Adding
        /\ DOMAIN local' = Task /\ \A u \in Task \ {R} : local'[u] = local[u]
    BY <2>1 DEF Goes, Working, Adding, IInv, Shape
  <2>3. CASE sbom' = sbom
    <3>1. InTheirGroup' /\ Failures'
      BY <2>2, TasksApart, GoingOn
    <3>2. Shape' /\ Sound'
      BY <2>1, <2>2, <2>3 DEF IInv, Shape, Sound, Groups, Nodes, IDs, ID, Anchored
    <3>3. Held'
      BY <2>1, <2>2, <2>3, TasksApart DEF IInv, Held, Nodes, IDs, ID, Anchored
    <3> QED
      BY <3>1, <3>2, <3>3 DEF IInv
  <2>4. ASSUME NEW ids,
               sbom' = [sbom EXCEPT !.packages = {p \in sbom.packages : ID(p) \notin ids},
                            !.relationships = RemoveRelationshipsByID(sbom.relationships, ids)]
        PROVE  IInv'
    <3>1. /\ sbom'.packages = {p \in sbom.packages : ID(p) \notin ids}
          /\ sbom'.relationships = RemoveRelationshipsByID(sbom.relationships, ids)
          /\ DOMAIN sbom' = DOMAIN sbom
      BY <2>4 DEF IInv, Shape
    <3> QED
      BY <2>2, <3>1, RemoveStep
  <2>5. \/ sbom' = sbom
        \/ \E ids : sbom' = [sbom EXCEPT !.packages = {p \in sbom.packages : ID(p) \notin ids},
                     !.relationships = RemoveRelationshipsByID(sbom.relationships, ids)]
    BY <2>1 DEF excludeStep
  <2> QED
    BY <2>3, <2>4, <2>5
<1> QED
  BY <1>1, <1>2

\* What the relationships task computes from the packages mentions no others.
LEMMA Computed ==
    ASSUME NEW P, P \subseteq Package, NEW execs, NEW rels
    PROVE  /\ Anchored(byFileOwnershipOverlap(P), Nodes(P))
           /\ Anchored(NewDependencyRelationships(P, execs, rels), Nodes(P))
           /\ Anchored(ToSource(P), Nodes(P))
           /\ Anchored(EvidentBy(P), Nodes(P))
<1>1. Anchored(byFileOwnershipOverlap(P), Nodes(P))
  BY DEF Anchored, byFileOwnershipOverlap, Nodes, IDs
<1>2. Anchored(ToSource(P), Nodes(P))
  BY DEF Anchored, ToSource, Nodes, Sources
<1>3. \A p \in P : Locations(p) \subseteq File /\ Primary(p) \subseteq File
  BY FilesAssumption DEF Locations, Primary, Package
<1>4. Anchored(EvidentBy(P), Nodes(P))
  BY <1>3 DEF Anchored, EvidentBy, Nodes, IDs
<1>5. ASSUME NEW p \in P, NEW f \in File
      PROVE  Anchored(libraryEdges(P, execs, p, f), Nodes(P))
  <2> DEFINE owners == owningLibraryPackages(P, execs, BaseName[f])
  <2>1. IDs(owners) \subseteq IDs(P) /\ ID(p) \in IDs(P)
    BY DEF owningLibraryPackages, IDs
  <2> HIDE DEF owners
  <2>2. libraryEdges(P, execs, p, f) =
            {[type |-> DependencyType, from |-> n, to |-> ID(p)] :
                n \in (IF owners = {} THEN {f} ELSE IDs(owners))}
    BY DEF libraryEdges, owners
  <2> QED
    BY <2>1, <2>2 DEF Anchored, Nodes
<1>6. Anchored(NewDependencyRelationships(P, execs, rels), Nodes(P))
  <2> SUFFICES ASSUME NEW e \in NewDependencyRelationships(P, execs, rels)
               PROVE  e.from \in Nodes(P) /\ e.to \in Nodes(P)
    BY DEF Anchored
  <2>1. PICK p \in ElfPackages(P) :
            \E f \in UNION {Glob[lib] : lib \in UNION {Imports[g] : g \in Primary(p) \cap execs}} :
                e \in libraryEdges(P, execs, p, f)
    BY DEF NewDependencyRelationships
  <2>2. PICK g \in Primary(p) \cap execs :
            \E lib \in Imports[g] : \E f \in Glob[lib] : e \in libraryEdges(P, execs, p, f)
    BY <2>1
  <2>3. p \in P /\ \A f : (\E lib \in Imports[g] : f \in Glob[lib]) => f \in File
    BY <1>3, <2>2, FilesAssumption DEF ElfPackages
  <2> QED
    BY <1>5, <2>2, <2>3 DEF Anchored
<1> QED
  BY <1>1, <1>2, <1>4, <1>6

LEMMA RelationshipsTask ==
    ASSUME IInv, FinalizeRelationships
    PROVE  IInv'
<1> USE TasksApart
<1>1. ASSUME NEW from, NEW to \in Adding, NEW l, Work(R, from, to, l), from # "idle",
             from # "done", from # "relationships", Anchored(l.rels, Nodes(sbom.packages))
      PROVE  IInv'
  BY <1>1, WorkStep DEF Adding
<1>2. ASSUME NEW from \in Adding, NEW to, Write(R, from, to, withRelationships(local[R].rels)),
             to \notin {"idle", "done", "packages", "relationships"}
      PROVE  IInv'
  <2>1. Anchored(local[R].rels, Nodes(sbom.packages))
    BY <1>2 DEF IInv, Held, Write
  <2> QED
    BY <1>2, <2>1, AddStep DEF Adding
<1>3. \A E : [Blank EXCEPT !.rels = E].rels = E
  BY DEF Blank
<1>4. /\ sbom.packages \subseteq Package
      /\ Anchored(Blank.rels, Nodes(sbom.packages))
  BY DEF IInv, Shape, Blank, Anchored
<1>5. CASE ReadElf \/ DeleteElf
  BY <1>5, Removals
<1>6. CASE ExcludeTurn \/ EndExclude
  BY <1>6, Exclusion
<1>7. CASE ReadOverlap
  BY <1>1, <1>3, <1>4, <1>7, Computed DEF ReadOverlap, Adding
<1>8. CASE ReadDependencies
  BY <1>1, <1>3, <1>4, <1>8, Computed DEF ReadDependencies, Adding
<1>9. CASE ReadSource
  BY <1>1, <1>3, <1>4, <1>9, Computed DEF ReadSource, Adding
<1>10. CASE ReadEvidence
  BY <1>1, <1>3, <1>4, <1>10, Computed DEF ReadEvidence, Adding
<1>11. CASE AddOverlap \/ WriteDependencies \/ AddDependencies \/ AddSource \/ AddEvidence
  <2>0. /\ {"exclude", "add dependencies", "source", "evidence", "report"} \cap
                {"idle", "done", "packages", "relationships"} = {}
        /\ Adding = {"add overlap", "write dependencies", "add dependencies", "add source", "add evidence"}
    BY DEF Adding
  <2>1. CASE AddOverlap
    BY <1>2, <2>0, <2>1 DEF AddOverlap
  <2>2. CASE WriteDependencies
    BY <1>2, <2>0, <2>2 DEF WriteDependencies
  <2>3. CASE AddDependencies
    BY <1>2, <2>0, <2>3 DEF AddDependencies
  <2>4. CASE AddSource
    BY <1>2, <2>0, <2>4 DEF AddSource
  <2>5. CASE AddEvidence
    BY <1>2, <2>0, <2>5 DEF AddEvidence
  <2> QED
    BY <1>11, <2>1, <2>2, <2>3, <2>5, <2>4
<1> QED
  BY <1>5, <1>6, <1>7, <1>8, <1>9, <1>10, <1>11 DEF FinalizeRelationships

LEMMA NextIInv == IInv /\ [Next]_vars => IInv'
<1> SUFFICES ASSUME IInv, [Next]_vars PROVE IInv'
  OBVIOUS
<1>1. ASSUME NEW t \in Task, Panic(t) PROVE IInv'
  <2>1. t # R /\ Work(t, "catalog", "report", [Blank EXCEPT !.fatal = TRUE])
    BY <1>1, TasksAssumption DEF Panic, R, Artifacts, Others
  <2> QED
    BY <2>1, WorkStep
<1>2. CASE UNCHANGED vars
  BY <1>2 DEF vars, IInv, Shape, InTheirGroup, Held, Sound, Failures, Groups, GroupDone,
              Working, Nodes, IDs, ID, Anchored, Valid
<1>3. CASE \E t \in Task : Start(t) \/ Report(t) \/ Panic(t)
  BY <1>1, <1>3, StartIInv, ReportIInv
<1>4. CASE EndGroup
  BY <1>4, EndGroupIInv
<1>5. CASE \E t \in PkgTasks : Catalog(t) \/ AddPackages(t) \/ AddRelationships(t)
  BY <1>5, PackageTasks
<1>6. CASE \E t \in FileTasks : Select(t) \/ CatalogFiles(t) \/ WriteFiles(t)
  BY <1>6, FileTasksStep
<1>7. CASE Environment \/ LabelUnknowns \/ DetectFeatures
  BY <1>7, OtherTasks
<1>8. CASE ReadScope \/ DeleteScope
  BY <1>8, Removals
<1>9. CASE FinalizeRelationships
  BY <1>9, RelationshipsTask
<1> QED
  BY <1>2, <1>3, <1>4, <1>5, <1>6, <1>7, <1>8, <1>9 DEF Next

\* Whoever reads the SBOM, at any moment and whatever the catalogers find, finds both
\* ends of every relationship in it (internal/task/executor.go, sbomsync/builder.go).
THEOREM Integrity == Spec => []ReferentialIntegrity
<1>1. IInv => ReferentialIntegrity
  BY DEF IInv, Sound, Anchored, Nodes, ReferentialIntegrity, BagToSet
<1> QED
  BY <1>1, InitIInv, NextIInv, PTL DEF Spec

\* A run yields an SBOM only if every scheduled task is done and none failed, and
\* an error only if the configuration is invalid or a task failed (create_sbom.go).
THEOREM Outcome == Spec => []OutcomeJustified
<1>1. IInv => OutcomeJustified
  <2> SUFFICES ASSUME IInv PROVE OutcomeJustified
    OBVIOUS
  <2>1. /\ Groups \in Seq(SUBSET Task) /\ DOMAIN Groups = 1..Len(Groups) /\ Len(Groups) \in Nat
        /\ group \in 1..Len(Groups)
    BY GroupsAreTasks, LenProperties DEF Groups, IInv, Shape
  <2>2. \A g \in DOMAIN Groups : Groups[g] \subseteq Task
    BY <2>1, ElementOfSeq
  <2>3. Scheduled = UNION {Groups[g] : g \in DOMAIN Groups}
    BY DEF Scheduled, Groups
  <2>4. ASSUME outcome = "ok", NEW t \in Scheduled
        PROVE  pc[t] = "done" /\ ~local[t].fatal
    <3>1. PICK g \in DOMAIN Groups : t \in Groups[g]
      BY <2>3
    <3>2. g < group \/ g = group
      <4>1. group = Len(Groups)
        BY <2>4 DEF IInv, Failures
      <4> QED
        BY <2>1, <4>1
    <3>3. pc[t] = "done" /\ t \in Task /\ t \notin failed
      BY <2>2, <2>4, <3>1, <3>2 DEF IInv, Failures, GroupDone, Groups
    <3> QED
      BY <3>3 DEF IInv, Failures
  <2>5. ASSUME outcome = "error", Valid(cfg)
        PROVE  \E t \in Scheduled : local[t].fatal
    <3>1. PICK t \in Task : t \in failed /\ pc[t] = "done" /\ local[t].fatal
      BY <2>5 DEF IInv, Failures
    <3>2. t \in Scheduled
      BY <2>3, <3>1 DEF IInv, InTheirGroup
    <3> QED
      BY <3>1, <3>2
  <2> QED
    BY <2>4, <2>5 DEF OutcomeJustified
<1> QED
  BY <1>1, InitIInv, NextIInv, PTL DEF Spec
\* A task runs only after every task of the groups before its own is done, none of them
\* having failed (the loop over makeTaskGroups in create_sbom.go).
THEOREM Order == Spec => []GroupsInOrder
<1>1. IInv => GroupsInOrder
  <2> SUFFICES ASSUME IInv, NEW t \in Scheduled, pc[t] # "idle",
                      NEW u \in Scheduled, groupOf(u) < groupOf(t)
               PROVE  pc[u] = "done" /\ u \notin failed
    BY DEF GroupsInOrder
  <2>1. /\ Groups \in Seq(SUBSET Task) /\ DOMAIN Groups = 1..Len(Groups) /\ Len(Groups) \in Nat
        /\ group \in DOMAIN Groups /\ Apart(Groups)
    BY GroupsAreTasks, GroupsApart, LenProperties DEF Groups, IInv, Shape
  <2>2. \A x \in Scheduled : groupOf(x) \in DOMAIN Groups /\ x \in Groups[groupOf(x)]
    BY DEF Scheduled, groupOf, Groups
  <2>3. \A g, h \in DOMAIN Groups : t \in Groups[g] /\ t \in Groups[h] => g = h
    BY <2>1 DEF Apart
  <2>4. t \in Task
    BY <2>1, <2>2, ElementOfSeq
  <2>5. \E g \in DOMAIN Groups : g <= group /\ t \in Groups[g]
    BY <2>1, <2>4 DEF IInv, InTheirGroup, Working
  <2>6. groupOf(t) <= group
    BY <2>2, <2>3, <2>5
  <2>7. groupOf(u) < group
    BY <2>1, <2>2, <2>6
  <2> QED
    BY <2>2, <2>7 DEF IInv, Failures
<1> QED
  BY <1>1, InitIInv, NextIInv, PTL DEF Spec

-------------------------------------------------------------------------------
(* What the SBOM of a run that succeeded holds: the relationships of the source    *)
(* and of the evidence, the unknowns, the support of the distribution, the         *)
(* packages left by the exclusion and the files that packages own.                 *)

(* The order of the groups.                                                    *)

\* In every configuration t belongs to a group before that of u.
Ahead(c, t, u) ==
    \E g, h \in DOMAIN taskGroups(c) : g < h /\ t \in taskGroups(c)[g] /\ u \in taskGroups(c)[h]

LEMMA ConcatOrder ==
    ASSUME NEW S, NEW s \in Seq(S), NEW t \in Seq(S)
    PROVE  /\ \A i \in DOMAIN s : i \in DOMAIN (s \o t) /\ (s \o t)[i] = s[i]
           /\ \A j \in DOMAIN t : Len(s) + j \in DOMAIN (s \o t) /\ (s \o t)[Len(s) + j] = t[j]
           /\ \A i \in DOMAIN s, j \in DOMAIN t : i < Len(s) + j
<1>1. /\ DOMAIN (s \o t) = 1..(Len(s) + Len(t)) /\ Len(s) \in Nat /\ Len(t) \in Nat
      /\ DOMAIN s = 1..Len(s) /\ DOMAIN t = 1..Len(t)
  BY ConcatProperties, LenProperties
<1> QED
  BY <1>1, ConcatProperties

Catalogers == PkgTasks \cup FileTasks
Late == {"relationships", "unknowns", "features"}

LEMMA Orders ==
    ASSUME NEW c
    PROVE  /\ \A t \in Catalogers, u \in Late : Ahead(c, t, u)
           /\ \A t \in Catalogers : Ahead(c, "environment", t)
           /\ \A u \in Late : Ahead(c, "environment", u)
           /\ \A g \in DOMAIN taskGroups(c) : "scope" \in taskGroups(c)[g] =>
                  /\ \A u \in Late : Ahead(c, "scope", u)
                  /\ \A t \in Catalogers : Ahead(c, t, "scope")
           /\ Ahead(c, "relationships", "unknowns") /\ Ahead(c, "relationships", "features")
           /\ Ahead(c, "unknowns", "features")
           /\ c.Selection = "owned" => \A t \in PkgTasks, u \in FileTasks : Ahead(c, t, u)
<1> DEFINE env == <<{"environment"}>>
           before == start(c) \o cleanup(c)
           n == Len(before)
<1>0. /\ env \in Seq(SUBSET Task) /\ catalogers(c) \in Seq(SUBSET Task)
      /\ start(c) \in Seq(SUBSET Task) /\ cleanup(c) \in Seq(SUBSET Task)
      /\ before \in Seq(SUBSET Task) /\ ending \in Seq(SUBSET Task)
      /\ taskGroups(c) = before \o ending /\ start(c) = env \o catalogers(c)
  BY Parts DEF start
<1>1. env[1] = {"environment"} /\ DOMAIN env = {1} /\ Len(env) = 1
  OBVIOUS
<1>2. /\ \A t \in Catalogers : \E i \in DOMAIN catalogers(c) : t \in catalogers(c)[i]
      /\ \E i \in DOMAIN catalogers(c) : TRUE
      /\ c.Selection = "owned" =>
             /\ {1, 2} \subseteq DOMAIN catalogers(c)
             /\ catalogers(c)[1] = PkgTasks /\ catalogers(c)[2] = FileTasks
  <2>1. CASE c.Selection = "owned"
    <3>1. catalogers(c) = <<PkgTasks, FileTasks>>
      BY <2>1 DEF catalogers
    <3>2. DOMAIN <<PkgTasks, FileTasks>> = {1, 2}
      OBVIOUS
    <3> QED
      BY <3>1, <3>2 DEF Catalogers
  <2>2. CASE c.Selection # "owned"
    <3>1. catalogers(c) = <<PkgTasks \cup FileTasks>>
      BY <2>2 DEF catalogers
    <3>2. DOMAIN <<PkgTasks \cup FileTasks>> = {1}
      OBVIOUS
    <3> QED
      BY <2>2, <3>1, <3>2 DEF Catalogers
  <2> QED
    BY <2>1, <2>2
<1>3. /\ DOMAIN ending = {1, 2, 3} /\ ending[1] = {"relationships"} /\ ending[2] = {"unknowns"}
      /\ ending[3] = {"features"}
  BY DEF ending
<1> HIDE DEF env, before
\* Where the parts are in the whole.
<1>4. /\ 1 \in DOMAIN start(c) /\ start(c)[1] = {"environment"}
      /\ \A j \in DOMAIN catalogers(c) :
             1 + j \in DOMAIN start(c) /\ start(c)[1 + j] = catalogers(c)[j] /\ 1 < 1 + j
  <2>1. /\ \A i \in DOMAIN env : i \in DOMAIN (env \o catalogers(c)) /\ (env \o catalogers(c))[i] = env[i]
        /\ \A j \in DOMAIN catalogers(c) :
               /\ Len(env) + j \in DOMAIN (env \o catalogers(c))
               /\ (env \o catalogers(c))[Len(env) + j] = catalogers(c)[j]
        /\ \A i \in DOMAIN env, j \in DOMAIN catalogers(c) : i < Len(env) + j
    BY <1>0, ConcatOrder
  <2> QED
    BY <1>0, <1>1, <2>1
<1>5. /\ \A i \in DOMAIN start(c) : i \in DOMAIN before /\ before[i] = start(c)[i]
      /\ \A j \in DOMAIN cleanup(c) :
             Len(start(c)) + j \in DOMAIN before /\ before[Len(start(c)) + j] = cleanup(c)[j]
      /\ \A i \in DOMAIN start(c), j \in DOMAIN cleanup(c) : i < Len(start(c)) + j
  BY <1>0, ConcatOrder DEF before
<1>6. /\ \A i \in DOMAIN before : i \in DOMAIN taskGroups(c) /\ taskGroups(c)[i] = before[i]
      /\ \A j \in DOMAIN ending : n + j \in DOMAIN taskGroups(c) /\ taskGroups(c)[n + j] = ending[j]
      /\ \A i \in DOMAIN before, j \in DOMAIN ending : i < n + j
  <2>1. /\ \A i \in DOMAIN before : i \in DOMAIN (before \o ending) /\ (before \o ending)[i] = before[i]
        /\ \A j \in DOMAIN ending :
               n + j \in DOMAIN (before \o ending) /\ (before \o ending)[n + j] = ending[j]
        /\ \A i \in DOMAIN before, j \in DOMAIN ending : i < n + j
    BY <1>0, ConcatOrder
  <2> QED
    BY <1>0, <2>1
<1>n. n \in Nat
  BY <1>0, LenProperties
<1> HIDE DEF n
<1>7. ASSUME NEW i \in DOMAIN before, NEW t \in before[i], NEW u \in Late
      PROVE  Ahead(c, t, u)
  <2>1. PICK j \in DOMAIN ending : u \in ending[j]
    BY <1>3 DEF Late
  <2> QED
    BY <1>6, <2>1 DEF Ahead
<1>8. ASSUME NEW i \in DOMAIN before, NEW j \in DOMAIN before, i < j,
             NEW t \in before[i], NEW u \in before[j]
      PROVE  Ahead(c, t, u)
  BY <1>6, <1>8 DEF Ahead
<1>9. /\ 1 \in DOMAIN before /\ before[1] = {"environment"}
      /\ \A j \in DOMAIN catalogers(c) :
             1 + j \in DOMAIN before /\ before[1 + j] = catalogers(c)[j] /\ 1 < 1 + j
  BY <1>4, <1>5
<1>10. ASSUME NEW i \in DOMAIN ending, NEW j \in DOMAIN ending, i < j,
              NEW t \in ending[i], NEW u \in ending[j]
       PROVE  Ahead(c, t, u)
  <2>1. n + i \in DOMAIN taskGroups(c) /\ n + j \in DOMAIN taskGroups(c) /\ n + i < n + j
    BY <1>3, <1>6, <1>10, <1>n
  <2> QED
    BY <1>6, <2>1 DEF Ahead
<1>11. \A t \in Catalogers : \E j \in DOMAIN catalogers(c) : t \in before[1 + j]
  BY <1>2, <1>9
<1>12. \A t \in Catalogers, u \in Late : Ahead(c, t, u)
  BY <1>7, <1>9, <1>11
<1>13. \A t \in Catalogers : Ahead(c, "environment", t)
  BY <1>8, <1>9, <1>11
<1>14. \A u \in Late : Ahead(c, "environment", u)
  BY <1>7, <1>9
<1>15. ASSUME NEW g \in DOMAIN taskGroups(c), "scope" \in taskGroups(c)[g]
       PROVE  /\ \A u \in Late : Ahead(c, "scope", u)
              /\ \A t \in Catalogers : Ahead(c, t, "scope")
  <2>0. "scope" \notin Catalogers /\ "scope" # "environment" /\ "scope" \notin Late
    <3>1. "scope" \notin PkgTasks /\ "scope" \notin FileTasks
      BY TasksAssumption DEF Others, Artifacts
    <3> QED
      BY <3>1 DEF Catalogers, Late
  <2>1. \E i \in DOMAIN before : "scope" \in before[i]
    <3>1. \/ \E i \in DOMAIN before : taskGroups(c)[g] = before[i]
          \/ \E i \in DOMAIN ending : taskGroups(c)[g] = ending[i]
      <4>1. before \in Seq(SUBSET Task) /\ ending \in Seq(SUBSET Task)
        BY <1>0
      <4>2. \A x \in DOMAIN (before \o ending) :
                \/ \E i \in DOMAIN before : (before \o ending)[x] = before[i]
                \/ \E i \in DOMAIN ending : (before \o ending)[x] = ending[i]
        BY <4>1, InConcat
      <4> QED
        BY <1>0, <4>2
    <3> QED
      BY <1>3, <1>15, <2>0, <3>1 DEF Late
  <2>2. PICK j \in DOMAIN cleanup(c) : "scope" \in cleanup(c)[j]
    <3>1. PICK i \in DOMAIN before : "scope" \in before[i]
      BY <2>1
    <3>2. \/ \E j \in DOMAIN start(c) : before[i] = start(c)[j]
          \/ \E j \in DOMAIN cleanup(c) : before[i] = cleanup(c)[j]
      <4> DEFINE first == start(c)
                 second == cleanup(c)
      <4>1. first \in Seq(SUBSET Task) /\ second \in Seq(SUBSET Task)
        BY <1>0
      <4>3. before = first \o second
        BY DEF before
      <4> HIDE DEF first, second
      <4>2. \A x \in DOMAIN (first \o second) :
                \/ \E j \in DOMAIN first : (first \o second)[x] = first[j]
                \/ \E j \in DOMAIN second : (first \o second)[x] = second[j]
        BY <4>1, InConcat
      <4> QED
        BY <3>1, <4>3, <4>2 DEF first, second
    <3>3. \A j \in DOMAIN start(c) : "scope" \notin start(c)[j]
      <4>1. \A k \in DOMAIN catalogers(c) : "scope" \notin catalogers(c)[k]
        BY <2>0 DEF catalogers, Catalogers
      <4>2. \A k \in DOMAIN env : "scope" \notin env[k]
        BY <1>1, <2>0
      <4> QED
        BY <1>0, <4>1, <4>2, InConcat
    <3> QED
      BY <3>1, <3>2, <3>3
  <2>3. Len(start(c)) + j \in DOMAIN before /\ "scope" \in before[Len(start(c)) + j]
    BY <1>5, <2>2
  <2>4. \A t \in Catalogers : Ahead(c, t, "scope")
    <3>1. \A k \in DOMAIN catalogers(c) : 1 + k < Len(start(c)) + j
      BY <1>4, <1>5, <2>2
    <3> QED
      BY <1>8, <1>9, <1>11, <2>3, <3>1
  <2> QED
    BY <1>7, <2>3, <2>4
<1>16. Ahead(c, "relationships", "unknowns") /\ Ahead(c, "relationships", "features")
       /\ Ahead(c, "unknowns", "features")
  BY <1>3, <1>10
<1>17. ASSUME c.Selection = "owned", NEW t \in PkgTasks, NEW u \in FileTasks PROVE Ahead(c, t, u)
  <2>1. t \in before[1 + 1] /\ u \in before[1 + 2] /\ 1 + 1 \in DOMAIN before /\ 1 + 2 \in DOMAIN before
    BY <1>2, <1>9, <1>17
  <2> QED
    BY <1>8, <2>1
<1> QED
  BY <1>12, <1>13, <1>14, <1>15, <1>16, <1>17

\* What is ahead of a task that has started is done and did not fail.
LEMMA Ordered ==
    ASSUME IInv, NEW t, NEW u, Ahead(cfg, t, u)
    PROVE  /\ t \in Task /\ u \in Task
           /\ pc[u] # "idle" => pc[t] = "done" /\ t \notin failed
           /\ Working(t) => pc[u] = "idle"
<1>1. /\ Groups \in Seq(SUBSET Task) /\ DOMAIN Groups = 1..Len(Groups) /\ Len(Groups) \in Nat
      /\ group \in DOMAIN Groups /\ Apart(Groups)
  BY GroupsAreTasks, GroupsApart, LenProperties DEF Groups, IInv, Shape
<1>2. PICK g \in DOMAIN Groups, h \in DOMAIN Groups : g < h /\ t \in Groups[g] /\ u \in Groups[h]
  BY DEF Ahead, Groups
<1>3. t \in Task /\ u \in Task
  BY <1>1, <1>2, ElementOfSeq
<1>4. ASSUME pc[u] # "idle" PROVE pc[t] = "done" /\ t \notin failed
  <2>1. PICK k \in DOMAIN Groups : k <= group /\ u \in Groups[k]
    BY <1>1, <1>3, <1>4 DEF IInv, InTheirGroup, Working
  <2>2. h = k
    BY <1>2, <2>1, <1>1 DEF Apart
  <2>3. g < group
    BY <1>1, <1>2, <2>1, <2>2
  <2> QED
    BY <1>2, <2>3 DEF IInv, Failures
<1> QED
  BY <1>3, <1>4 DEF Working

\* Nothing runs beside or after what comes later.
LEMMA Earlier ==
    ASSUME IInv
    PROVE  /\ \A t \in Catalogers \cup {"environment", "scope"} : t \in Task /\ (Working(t) =>
                  pc[R] = "idle" /\ pc["unknowns"] = "idle" /\ pc["features"] = "idle")
           /\ \A t \in Catalogers : Working(t) => pc["scope"] = "idle"
           /\ Working(R) => pc["unknowns"] = "idle" /\ pc["features"] = "idle"
           /\ Working("unknowns") => pc["features"] = "idle"
           /\ pc["unknowns"] # "idle" => pc[R] = "done"
           /\ pc["features"] # "idle" => pc["unknowns"] = "done" /\ pc["environment"] = "done"
           /\ cfg.Selection = "owned" => \A t \in PkgTasks, u \in FileTasks :
                  /\ Working(t) => pc[u] = "idle"
                  /\ pc[u] # "idle" => pc[t] = "done"
<1>1. ASSUME NEW t, NEW u \in Late, Ahead(cfg, t, u) PROVE Working(t) => pc[u] = "idle"
  BY <1>1, Ordered
<1>2. "scope" \in Task /\ (Working("scope") => \E g \in DOMAIN taskGroups(cfg) : "scope" \in taskGroups(cfg)[g])
  BY TasksApart DEF IInv, InTheirGroup, Shape, Groups
<1>3. Late = {R, "unknowns", "features"}
  BY DEF Late, R
<1>4. \A t \in Catalogers \cup {"environment"} : t \in Task
  BY TasksApart DEF Catalogers, Task, Others
<1>5. \A t \in Catalogers \cup {"environment", "scope"} : Working(t) => \A u \in Late : Ahead(cfg, t, u)
  BY <1>2, Orders
<1>6. \A t \in Catalogers : Working(t) => pc["scope"] = "idle"
  <2> SUFFICES ASSUME NEW t \in Catalogers, Working(t), pc["scope"] # "idle" PROVE FALSE
    OBVIOUS
  <2>1. \E g \in DOMAIN taskGroups(cfg) : "scope" \in taskGroups(cfg)[g]
    BY <1>2 DEF IInv, InTheirGroup, Shape, Groups, Working
  <2>2. Ahead(cfg, t, "scope")
    BY <2>1, Orders
  <2> QED
    BY <2>2, Ordered
<1>7. /\ Working(R) => pc["unknowns"] = "idle" /\ pc["features"] = "idle"
      /\ Working("unknowns") => pc["features"] = "idle"
      /\ pc["unknowns"] # "idle" => pc[R] = "done"
      /\ pc["features"] # "idle" => pc["unknowns"] = "done" /\ pc["environment"] = "done"
  BY <1>3, Orders, Ordered DEF R
<1>8. cfg.Selection = "owned" => \A t \in PkgTasks, u \in FileTasks :
          (Working(t) => pc[u] = "idle") /\ (pc[u] # "idle" => pc[t] = "done")
  BY Orders, Ordered
<1> QED
  BY <1>1, <1>2, <1>3, <1>4, <1>5, <1>6, <1>7, <1>8

-------------------------------------------------------------------------------
(* What a step does.                                                           *)

LEMMA Names ==
    /\ {"environment", "scope", "unknowns", "features", R} \subseteq Task
    /\ Catalogers \subseteq Task
    /\ Catalogers \cap {"environment", "scope", "unknowns", "features", R} = {}
    /\ PkgTasks \cap FileTasks = {} /\ R = "relationships"
BY TasksAssumption DEF Task, Others, R, Artifacts, Catalogers

\* A step of task t that is no call which settles unknowns or the distribution.
Ordinary(t) ==
    /\ Working(t) /\ pc'[t] \notin {"idle", "done"}
    /\ \A u \in Task \ {t} : pc'[u] = pc[u] /\ local'[u] = local[u]
    /\ UNCHANGED <<cfg, outcome>>
    /\ sbom'.unknowns = sbom.unknowns /\ sbom'.distribution = sbom.distribution
    /\ DOMAIN sbom' = DOMAIN sbom

LEMMA WorkFacts ==
    ASSUME IInv, NEW t \in Task, NEW from, NEW to, NEW l, Work(t, from, to, l)
    PROVE  /\ pc[t] = from /\ pc'[t] = to /\ local'[t] = l
           /\ \A u \in Task \ {t} : pc'[u] = pc[u] /\ local'[u] = local[u]
           /\ UNCHANGED <<cfg, group, sbom, failed, outcome>>
BY DEF IInv, Shape, Work

LEMMA WriteFacts ==
    ASSUME IInv, NEW t \in Task, NEW from, NEW to, NEW s, Write(t, from, to, s)
    PROVE  /\ pc[t] = from /\ pc'[t] = to /\ sbom' = s /\ local' = local
           /\ \A u \in Task \ {t} : pc'[u] = pc[u]
           /\ UNCHANGED <<cfg, group, local, failed, outcome>>
BY DEF IInv, Shape, Write

LEMMA WorkOrdinary ==
    ASSUME IInv, NEW t \in Task, NEW from, NEW to, NEW l, Work(t, from, to, l),
           {from, to} \cap {"idle", "done"} = {}
    PROVE  Ordinary(t)
BY WorkFacts DEF Ordinary, Working

LEMMA WriteOrdinary ==
    ASSUME IInv, NEW t \in Task, NEW from, NEW to, NEW s, Write(t, from, to, s),
           {from, to} \cap {"idle", "done"} = {}, DOMAIN s = DOMAIN sbom,
           s.unknowns = sbom.unknowns, s.distribution = sbom.distribution
    PROVE  Ordinary(t)
BY WriteFacts DEF Ordinary, Working

\* The calls of the builder.
LEMMA Built ==
    ASSUME IInv
    PROVE  /\ \A P : LET s == withPackages(P) IN
                  /\ DOMAIN s = DOMAIN sbom /\ s.unknowns = sbom.unknowns
                  /\ s.distribution = sbom.distribution /\ s.files = sbom.files
                  /\ s.packages = sbom.packages \cup P /\ s.relationships = sbom.relationships
           /\ \A E : LET s == withRelationships(E) IN
                  /\ DOMAIN s = DOMAIN sbom /\ s.unknowns = sbom.unknowns
                  /\ s.distribution = sbom.distribution /\ s.files = sbom.files
                  /\ s.packages = sbom.packages
                  /\ s.relationships = sbom.relationships (+) SetToBag(E)
           /\ \A ids : LET s == withoutPackages(ids) IN
                  /\ DOMAIN s = DOMAIN sbom /\ s.unknowns = sbom.unknowns
                  /\ s.distribution = sbom.distribution /\ s.files = sbom.files
                  /\ s.packages = {p \in sbom.packages : ID(p) \notin ids}
                  /\ s.relationships = RemoveRelationshipsByID(sbom.relationships, ids)
BY DEF IInv, Shape, withPackages, withRelationships, withoutPackages

PackageStep(t) == t \in PkgTasks /\ (Catalog(t) \/ AddPackages(t) \/ AddRelationships(t))
FileStep(t) == t \in FileTasks /\ (Select(t) \/ CatalogFiles(t) \/ WriteFiles(t))
PanicStep(t) == t \in Catalogers /\ Panic(t)
ScopeStep(t) == t = "scope" /\ (ReadScope \/ DeleteScope)
FinalStep(t) == t = R /\ FinalizeRelationships
Acts(t) == PackageStep(t) \/ FileStep(t) \/ PanicStep(t) \/ ScopeStep(t) \/ FinalStep(t)

LEMMA Kinds ==
    ASSUME Next
    PROVE  \/ EndGroup
           \/ \E t \in Task : Start(t) \/ Report(t)
           \/ Environment \/ LabelUnknowns \/ DetectFeatures
           \/ \E t \in Catalogers \cup {"scope", R} : Acts(t)
BY DEF Next, Acts, PackageStep, FileStep, PanicStep, ScopeStep, FinalStep, Catalogers, Panic

LEMMA Ordinaries ==
    ASSUME IInv, NEW t \in Catalogers \cup {"scope", R}, Acts(t)
    PROVE  Ordinary(t)
<1> USE Names
<1>0. t \in Task
  OBVIOUS
<1>1. CASE PackageStep(t)
  <2>1. CASE Catalog(t)
    <3>1. PICK l : Work(t, "catalog", "packages", l)
      BY <2>1 DEF Catalog
    <3> QED
      BY <1>0, <3>1, WorkOrdinary
  <2>2. CASE AddPackages(t)
    BY <1>0, <2>2, Built, WriteOrdinary DEF AddPackages
  <2>3. CASE AddRelationships(t)
    BY <1>0, <2>3, Built, WriteOrdinary DEF AddRelationships
  <2> QED
    BY <1>1, <2>1, <2>2, <2>3 DEF PackageStep
<1>2. CASE FileStep(t)
  <2>1. CASE Select(t)
    <3>1. PICK to \in {"report", "catalog"} : \E l : Work(t, "select", to, l)
      BY <2>1 DEF Select
    <3>2. PICK l : Work(t, "select", to, l)
      BY <3>1
    <3> QED
      BY <1>0, <3>2, WorkOrdinary
  <2>2. CASE CatalogFiles(t)
    <3>1. PICK l : Work(t, "catalog", "write", l)
      BY <2>2 DEF CatalogFiles
    <3> QED
      BY <1>0, <3>1, WorkOrdinary
  <2>3. CASE WriteFiles(t)
    <3> DEFINE s == [sbom EXCEPT !.files[t] = local[t].files]
    <3>1. Write(t, "write", "report", s)
      BY <2>3 DEF WriteFiles
    <3>2. DOMAIN s = DOMAIN sbom /\ s.unknowns = sbom.unknowns /\ s.distribution = sbom.distribution
      BY DEF IInv, Shape
    <3> HIDE DEF s
    <3> QED
      BY <1>0, <3>1, <3>2, WriteOrdinary
  <2> QED
    BY <1>2, <2>1, <2>2, <2>3 DEF FileStep
<1>3. CASE PanicStep(t)
  BY <1>0, <1>3, WorkOrdinary DEF PanicStep, Panic
<1>4. CASE ScopeStep(t)
  <2>1. CASE ReadScope
    <3>1. PICK l : Work("scope", "read", "delete", l)
      BY <2>1 DEF ReadScope
    <3> QED
      BY <1>0, <1>4, <3>1, WorkOrdinary DEF ScopeStep
  <2>2. CASE DeleteScope
    BY <1>0, <1>4, <2>2, Built, WriteOrdinary DEF DeleteScope, ScopeStep
  <2> QED
    BY <1>4, <2>1, <2>2 DEF ScopeStep
<1>5. CASE FinalStep(t)
  <2>0. t = R
    BY <1>5 DEF FinalStep
  <2>1. ASSUME NEW from, NEW to, NEW l, Work(R, from, to, l), {from, to} \cap {"idle", "done"} = {}
        PROVE  Ordinary(R)
    BY <1>0, <2>0, <2>1, WorkOrdinary
  <2>2. ASSUME NEW from, NEW to, NEW E, Write(R, from, to, withRelationships(E)),
               {from, to} \cap {"idle", "done"} = {}
        PROVE  Ordinary(R)
    BY <1>0, <2>0, <2>2, Built, WriteOrdinary
  <2>3. CASE ReadElf \/ ReadOverlap \/ ReadDependencies \/ ReadSource \/ ReadEvidence
    <3>1. CASE ReadElf
      BY <2>0, <2>1, <3>1 DEF ReadElf
    <3>2. CASE ReadOverlap
      <4>1. PICK l : Work(R, "overlap", "add overlap", l)
        BY <3>2 DEF ReadOverlap
      <4> QED
        BY <2>0, <2>1, <4>1
    <3>3. CASE ReadDependencies
      <4>1. PICK l : Work(R, "dependencies", "write dependencies", l)
        BY <3>3 DEF ReadDependencies
      <4> QED
        BY <2>0, <2>1, <4>1
    <3>4. CASE ReadSource
      <4>1. PICK l : Work(R, "source", "add source", l)
        BY <3>4 DEF ReadSource
      <4> QED
        BY <2>0, <2>1, <4>1
    <3>5. CASE ReadEvidence
      <4>1. PICK l : Work(R, "evidence", "add evidence", l)
        BY <3>5 DEF ReadEvidence
      <4> QED
        BY <2>0, <2>1, <4>1
    <3> QED
      BY <2>3, <3>1, <3>2, <3>3, <3>4, <3>5
  <2>4. CASE AddOverlap \/ WriteDependencies \/ AddDependencies \/ AddSource \/ AddEvidence
    <3>1. CASE AddOverlap
      <4>1. PICK E : Write(R, "add overlap", "exclude", withRelationships(E))
        BY <3>1 DEF AddOverlap
      <4> QED
        BY <2>0, <2>2, <4>1
    <3>2. CASE WriteDependencies
      <4>1. PICK E : Write(R, "write dependencies", "add dependencies", withRelationships(E))
        BY <3>2 DEF WriteDependencies
      <4> QED
        BY <2>0, <2>2, <4>1
    <3>3. CASE AddDependencies
      <4>1. PICK E : Write(R, "add dependencies", "source", withRelationships(E))
        BY <3>3 DEF AddDependencies
      <4> QED
        BY <2>0, <2>2, <4>1
    <3>4. CASE AddSource
      <4>1. PICK E : Write(R, "add source", "evidence", withRelationships(E))
        BY <3>4 DEF AddSource
      <4> QED
        BY <2>0, <2>2, <4>1
    <3>5. CASE AddEvidence
      <4>1. PICK E : Write(R, "add evidence", "report", withRelationships(E))
        BY <3>5 DEF AddEvidence
      <4> QED
        BY <2>0, <2>2, <4>1
    <3> QED
      BY <2>4, <3>1, <3>2, <3>3, <3>4, <3>5
  <2>5. CASE DeleteElf
    BY <1>0, <2>0, <2>5, Built, WriteOrdinary DEF DeleteElf
  <2>6. CASE EndExclude
    BY <1>0, <2>0, <2>6, WriteOrdinary DEF EndExclude
  <2>7. CASE ExcludeTurn
    <3>1. PICK e \in local[R].rels :
              /\ pc[R] = "exclude" /\ sbom' = excludeStep(sbom, e)
              /\ local' = [local EXCEPT ![R] = [Blank EXCEPT !.rels = local[R].rels \ {e}]]
              /\ UNCHANGED <<cfg, group, pc, failed, outcome>>
      BY <2>7 DEF ExcludeTurn
    <3>2. /\ DOMAIN sbom' = DOMAIN sbom /\ sbom'.unknowns = sbom.unknowns
          /\ sbom'.distribution = sbom.distribution
      BY <3>1 DEF excludeStep, IInv, Shape
    <3>3. \A u \in Task \ {R} : local'[u] = local[u]
      BY <3>1 DEF IInv, Shape
    <3> QED
      BY <2>0, <3>1, <3>2, <3>3 DEF Ordinary, Working
  <2> QED
    BY <1>5, <2>0, <2>3, <2>4, <2>5, <2>6, <2>7 DEF FinalStep, FinalizeRelationships
<1> QED
  BY <1>1, <1>2, <1>3, <1>4, <1>5 DEF Acts

\* What the loop over the groups does.
LEMMA LoopFacts ==
    ASSUME IInv
    PROVE  /\ EndGroup => UNCHANGED <<cfg, pc, local, sbom>> /\ outcome = "running"
           /\ \A t \in Task : Start(t) =>
                  /\ pc[t] = "idle" /\ pc'[t] = firstStep(t) /\ outcome = "running"
                  /\ \A u \in Task \ {t} : pc'[u] = pc[u]
                  /\ UNCHANGED <<cfg, local, sbom, outcome>>
           /\ \A t \in Task : Report(t) =>
                  /\ pc[t] = "report" /\ pc'[t] = "done"
                  /\ \A u \in Task \ {t} : pc'[u] = pc[u]
                  /\ DOMAIN sbom' = DOMAIN sbom /\ sbom'.packages = sbom.packages
                  /\ sbom'.relationships = sbom.relationships /\ sbom'.files = sbom.files
                  /\ sbom'.distribution = sbom.distribution
                  /\ sbom'.unknowns = sbom.unknowns \cup (local[t].unknowns \X {t})
                  /\ UNCHANGED <<cfg, local, outcome>>
BY DEF IInv, Shape, EndGroup, Start, Report

LEMMA FirstSteps ==
    /\ \A t \in {"environment", "unknowns", "features"} : firstStep(t) = "write"
    /\ \A t \in PkgTasks : firstStep(t) = "catalog"
    /\ \A t \in FileTasks : firstStep(t) = "select"
    /\ firstStep(R) = "read" /\ firstStep("scope") = "read"
<1>1. /\ \A t \in {"environment", "unknowns", "features", "scope", R} : t \notin PkgTasks /\ t \notin FileTasks
      /\ \A t \in FileTasks : t \notin PkgTasks
  BY Names DEF Catalogers
<1> QED
  BY <1>1 DEF firstStep, R

\* The other calls of the builder.
LEMMA OtherFacts ==
    ASSUME IInv
    PROVE  /\ Environment => /\ pc["environment"] = "write" /\ pc'["environment"] = "report"
                             /\ \A u \in Task \ {"environment"} : pc'[u] = pc[u]
                             /\ sbom' = [sbom EXCEPT !.distribution = Release(cfg.Distribution)]
                             /\ UNCHANGED <<cfg, local, outcome>>
           /\ LabelUnknowns => /\ pc["unknowns"] = "write" /\ pc'["unknowns"] = "report"
                               /\ \A u \in Task \ {"unknowns"} : pc'[u] = pc[u]
                               /\ sbom' = finalizeUnknowns(sbom, cfg.flags, Archives)
                               /\ UNCHANGED <<cfg, local, outcome>>
           /\ DetectFeatures => /\ pc["features"] = "write" /\ pc'["features"] = "report"
                                /\ \A u \in Task \ {"features"} : pc'[u] = pc[u]
                                /\ sbom' = (IF \/ findRhelFeatures(sbom.distribution)
                                               \/ findUbuntuFeatures(sbom.distribution, sbom.packages)
                                            THEN [sbom EXCEPT !.distribution.ExtendedSupport = TRUE] ELSE sbom)
                                /\ UNCHANGED <<cfg, local, outcome>>
<1> USE Names
<1>1. ASSUME Environment PROVE Write("environment", "write", "report", [sbom EXCEPT !.distribution = Release(cfg.Distribution)])
  BY <1>1 DEF Environment
<1>2. ASSUME LabelUnknowns PROVE Write("unknowns", "write", "report", finalizeUnknowns(sbom, cfg.flags, Archives))
  BY <1>2 DEF LabelUnknowns
<1>3. ASSUME DetectFeatures
      PROVE  Write("features", "write", "report",
                 IF \/ findRhelFeatures(sbom.distribution)
                    \/ findUbuntuFeatures(sbom.distribution, sbom.packages)
                 THEN [sbom EXCEPT !.distribution.ExtendedSupport = TRUE] ELSE sbom)
  BY <1>3 DEF DetectFeatures
<1> QED
  BY <1>1, <1>2, <1>3, WriteFacts

-------------------------------------------------------------------------------
(* The support of the distribution.                                            *)

\* What extends the support of a distribution, were P the packages of the result.
Deserved(c, P) ==
    \/ c.Distribution = "rhel" /\ "EUS" \in c.Evidence
    \/ /\ c.Distribution = "ubuntu"
       /\ "ESM" \in c.Evidence \/ \E p \in P : p.key \in ESM

Extended(id) == [Release(id) EXCEPT !.ExtendedSupport = TRUE]

\* The release is what the environment task found until the features are detected; from
\* then on the packages stay.
Supported ==
    /\ pc["environment"] \in {"report", "done"} /\ pc["features"] \in {"idle", "write"} =>
           sbom.distribution = Release(cfg.Distribution)
    /\ pc["features"] \in {"report", "done"} =>
           sbom.distribution =
               IF Deserved(cfg, sbom.packages) THEN Extended(cfg.Distribution)
               ELSE Release(cfg.Distribution)

LEMMA Releases ==
    \A d : /\ Release(d).ID = d /\ ~Release(d).ExtendedSupport
          /\ Extended(d).ID = d /\ Extended(d).ExtendedSupport
BY DEF Release, Extended

LEMMA InitSupported == Init => Supported
BY Names DEF Init, Supported, NoSbom

LEMMA NextSupported == ASSUME IInv, Supported, [Next]_vars PROVE Supported'
<1> USE Names
<1>1. CASE EndGroup
  <2>1. UNCHANGED <<cfg, pc, local, sbom>>
    BY <1>1, LoopFacts
  <2> QED
    BY <2>1 DEF Supported
<1>2. ASSUME NEW t \in Task, Start(t) PROVE Supported'
  <2>1. /\ pc[t] = "idle" /\ pc'[t] = firstStep(t) /\ (\A u \in Task \ {t} : pc'[u] = pc[u])
        /\ cfg' = cfg /\ sbom' = sbom
    BY <1>2, LoopFacts
  <2> QED
    BY <2>1, FirstSteps DEF Supported
<1>3. ASSUME NEW t \in Task, Report(t) PROVE Supported'
  <2>1. /\ pc[t] = "report" /\ pc'[t] = "done" /\ (\A u \in Task \ {t} : pc'[u] = pc[u])
        /\ cfg' = cfg /\ sbom'.packages = sbom.packages /\ sbom'.distribution = sbom.distribution
    BY <1>3, LoopFacts
  <2> QED
    BY <2>1 DEF Supported
<1>4. CASE Environment
  <2>1. /\ pc["environment"] = "write" /\ pc'["environment"] = "report"
        /\ pc'["features"] = pc["features"] /\ cfg' = cfg
        /\ sbom' = [sbom EXCEPT !.distribution = Release(cfg.Distribution)]
    BY <1>4, OtherFacts
  <2>2. pc["features"] = "idle"
    BY <2>1, Earlier DEF Working
  <2>3. sbom'.distribution = Release(cfg.Distribution)
    BY <2>1 DEF IInv, Shape
  <2> QED
    BY <2>1, <2>2, <2>3 DEF Supported
<1>5. CASE LabelUnknowns
  <2>1. /\ pc'["environment"] = pc["environment"] /\ pc'["features"] = pc["features"] /\ cfg' = cfg
        /\ sbom' = finalizeUnknowns(sbom, cfg.flags, Archives)
    BY <1>5, OtherFacts
  <2>2. sbom'.packages = sbom.packages /\ sbom'.distribution = sbom.distribution
    BY <2>1 DEF finalizeUnknowns, IInv, Shape
  <2> QED
    BY <2>1, <2>2 DEF Supported
<1>6. CASE DetectFeatures
  <2>1. /\ pc["features"] = "write" /\ pc'["features"] = "report"
        /\ pc'["environment"] = pc["environment"] /\ cfg' = cfg
        /\ sbom' = (IF \/ findRhelFeatures(sbom.distribution)
                       \/ findUbuntuFeatures(sbom.distribution, sbom.packages)
                    THEN [sbom EXCEPT !.distribution.ExtendedSupport = TRUE] ELSE sbom)
    BY <1>6, OtherFacts
  <2>2. pc["environment"] = "done" /\ sbom.distribution = Release(cfg.Distribution)
    BY <2>1, Earlier DEF Supported
  <2>3. (findRhelFeatures(sbom.distribution) \/ findUbuntuFeatures(sbom.distribution, sbom.packages))
            <=> Deserved(cfg, sbom.packages)
    BY <2>2 DEF Release, findRhelFeatures, findUbuntuFeatures, Deserved
  <2>4. sbom'.packages = sbom.packages
    BY <2>1 DEF IInv, Shape
  <2>5. sbom'.distribution = IF Deserved(cfg, sbom.packages)
                             THEN [sbom.distribution EXCEPT !.ExtendedSupport = TRUE]
                             ELSE sbom.distribution
    <3>1. sbom' = IF Deserved(cfg, sbom.packages)
                  THEN [sbom EXCEPT !.distribution = [@ EXCEPT !.ExtendedSupport = TRUE]] ELSE sbom
      BY <2>1, <2>3
    <3> QED
      BY <3>1 DEF IInv, Shape
  <2>6. sbom'.distribution = IF Deserved(cfg, sbom.packages) THEN Extended(cfg.Distribution)
                             ELSE Release(cfg.Distribution)
    BY <2>2, <2>5 DEF Extended
  <2> QED
    BY <2>1, <2>4, <2>6 DEF Supported
<1>7. ASSUME NEW t \in Catalogers \cup {"scope", R}, Acts(t) PROVE Supported'
  <2>1. Ordinary(t)
    BY <1>7, Ordinaries
  <2>2. pc["features"] = "idle"
    BY <2>1, Earlier DEF Ordinary
  <2>3. /\ pc'["environment"] = pc["environment"] /\ pc'["features"] = "idle"
        /\ cfg' = cfg /\ sbom'.distribution = sbom.distribution
    BY <2>1, <2>2 DEF Ordinary
  <2> QED
    BY <2>2, <2>3 DEF Supported
<1>8. CASE UNCHANGED vars
  BY <1>8 DEF vars, Supported
<1> QED
  BY <1>1, <1>2, <1>3, <1>4, <1>5, <1>6, <1>7, <1>8, Kinds

\* What the last tasks find is done when the run succeeds.
LEMMA Finished ==
    ASSUME IInv, Succeeded
    PROVE  /\ \A t \in Catalogers \cup Late \cup {"environment"} : t \in Scheduled
           /\ \A t \in Scheduled : t \in Task /\ pc[t] = "done" /\ ~local[t].fatal
<1>1. /\ Groups \in Seq(SUBSET Task) /\ DOMAIN Groups = 1..Len(Groups) /\ Len(Groups) \in Nat
      /\ group = Len(Groups)
  BY GroupsAreTasks, LenProperties DEF Groups, IInv, Failures, Succeeded
<1>2. Scheduled = UNION {Groups[g] : g \in DOMAIN Groups}
  BY DEF Scheduled, Groups
<1>3. \A t, u : Ahead(cfg, t, u) => t \in Scheduled /\ u \in Scheduled
  BY <1>2 DEF Ahead, Groups
<1>4. \A t \in Catalogers \cup Late \cup {"environment"} : t \in Scheduled
  BY <1>3, Orders DEF Late
<1>5. ASSUME NEW t \in Scheduled PROVE t \in Task /\ pc[t] = "done" /\ ~local[t].fatal
  <2>1. PICK g \in DOMAIN Groups : t \in Groups[g]
    BY <1>2
  <2>2. g < group \/ g = group
    BY <1>1
  <2>3. t \in Task
    BY <1>1, <2>1, ElementOfSeq
  <2> QED
    BY <2>1, <2>2, <2>3 DEF IInv, Failures, GroupDone, Groups, Succeeded
<1> QED
  BY <1>4, <1>5

\* A run that succeeds returns the release that was identified, with extended support just
\* where the files of a RHEL source or those of an Ubuntu source tell of it, or a package of an
\* Ubuntu result does; no package that was removed on the way counts
\* (internal/task/environment_tasks.go, internal/os/feature_detection.go).
THEOREM Support == Spec => []SupportJustified
<1> DEFINE Inv == IInv /\ Supported
<1>1. Init => Inv
  BY InitIInv, InitSupported
<1>2. Inv /\ [Next]_vars => Inv'
  BY NextIInv, NextSupported
<1>3. Inv => SupportJustified
  <2>1. ASSUME Inv, Succeeded
        PROVE  sbom.distribution =
                   IF Deserved(cfg, sbom.packages) THEN Extended(cfg.Distribution)
                   ELSE Release(cfg.Distribution)
    BY <2>1, Finished DEF Supported, Late
  <2> QED
    BY <2>1, Releases DEF SupportJustified, Deserved
<1> QED
  BY <1>1, <1>2, <1>3, PTL DEF Spec

-------------------------------------------------------------------------------
(* The unknowns.                                                               *)

Settled == pc["unknowns"] \in {"report", "done"}
ReportedFiles == {u[1] : u \in sbom.unknowns}

\* What a task that is done could not read is known; once the unknowns are settled the
\* packages and files they were settled by stay.
Accounted ==
    /\ \A t \in {"environment", "unknowns", "features"} : local[t] = Blank
    /\ \A t \in Task : pc[t] = "done" => \A f \in local[t].unknowns :
          \/ <<f, t>> \in sbom.unknowns
          \/ Settled /\ "RemoveWhenPackagesDefined" \in cfg.flags /\ f \in referenced(sbom)
    /\ Settled /\ "IncludeExecutablesWithoutPackages" \in cfg.flags =>
           sbom.files["executables"] \subseteq referenced(sbom) \cup ReportedFiles

LEMMA InitAccounted == Init => Accounted
BY Names DEF Init, Accounted, Settled

\* Which files are referenced depends on the packages and the relationships alone.
LEMMA SameReferences ==
    ASSUME NEW s, NEW u, s.packages = u.packages, s.relationships = u.relationships
    PROVE  referenced(s) = referenced(u)
BY DEF referenced

LEMMA NextAccounted == ASSUME IInv, Accounted, [Next]_vars PROVE Accounted'
<1> USE Names
<1> DEFINE files(s) == s.files["executables"]
\* A step that leaves what was settled, and forgets no unknown.
<1>0. ASSUME cfg' = cfg, referenced(sbom') = referenced(sbom) \/ ~Settled,
             files(sbom') = files(sbom) \/ ~Settled,
             sbom.unknowns \subseteq sbom'.unknowns, Settled' = Settled,
             \A t \in {"environment", "unknowns", "features"} : local'[t] = local[t],
             \A t \in Task : pc'[t] = "done" =>
                 \/ pc[t] = "done" /\ local'[t] = local[t]
                 \/ local'[t].unknowns \X {t} \subseteq sbom'.unknowns
      PROVE  Accounted'
  <2>1. ReportedFiles \subseteq ReportedFiles'
    BY <1>0 DEF ReportedFiles
  <2>2. referenced(sbom)' = referenced(sbom')
    BY DEF referenced, Locations
  <2>3. ASSUME NEW t \in Task, pc'[t] = "done", NEW f \in local'[t].unknowns
        PROVE  \/ <<f, t>> \in sbom'.unknowns
               \/ Settled' /\ "RemoveWhenPackagesDefined" \in cfg'.flags /\ f \in referenced(sbom')
    BY <1>0, <2>3 DEF Accounted
  <2>4. Settled' /\ "IncludeExecutablesWithoutPackages" \in cfg'.flags =>
            files(sbom') \subseteq referenced(sbom') \cup ReportedFiles'
    BY <1>0, <2>1 DEF Accounted
  <2>5. \A t \in {"environment", "unknowns", "features"} : local'[t] = Blank
    BY <1>0 DEF Accounted
  <2> HIDE DEF files
  <2> QED
    BY <2>2, <2>3, <2>4, <2>5 DEF Accounted, files, Blank
<1>00. referenced(sbom)' = referenced(sbom')
  BY DEF referenced, Locations
<1>1. CASE EndGroup
  <2>1. cfg' = cfg /\ pc' = pc /\ local' = local /\ sbom' = sbom
    BY <1>1, LoopFacts
  <2>2. Settled' = Settled
    BY <2>1 DEF Settled
  <2> QED
    BY <1>0, <2>1, <2>2
<1>2. ASSUME NEW t \in Task, Start(t) PROVE Accounted'
  <2>1. /\ pc[t] = "idle" /\ pc'[t] = firstStep(t) /\ (\A u \in Task \ {t} : pc'[u] = pc[u])
        /\ cfg' = cfg /\ sbom' = sbom /\ local' = local
    BY <1>2, LoopFacts
  <2>2. pc'[t] \notin {"report", "done"}
    BY <2>1 DEF firstStep
  <2>3. Settled' = Settled /\ \A u \in Task : pc'[u] = "done" => pc[u] = "done"
    BY <2>1, <2>2 DEF Settled
  <2> QED
    BY <1>0, <2>1, <2>3
<1>3. ASSUME NEW t \in Task, Report(t) PROVE Accounted'
  <2>1. /\ pc[t] = "report" /\ pc'[t] = "done" /\ (\A u \in Task \ {t} : pc'[u] = pc[u])
        /\ cfg' = cfg /\ local' = local /\ sbom'.packages = sbom.packages
        /\ sbom'.relationships = sbom.relationships /\ sbom'.files = sbom.files
        /\ sbom'.unknowns = sbom.unknowns \cup (local[t].unknowns \X {t})
    BY <1>3, LoopFacts
  <2>2. referenced(sbom') = referenced(sbom) /\ files(sbom') = files(sbom)
    BY <2>1, SameReferences
  <2>3. Settled' = Settled
    BY <2>1 DEF Settled
  <2>4. sbom.unknowns \subseteq sbom'.unknowns
    BY <2>1
  <2>5. \A u \in Task : pc'[u] = "done" => \/ pc[u] = "done" /\ local'[u] = local[u]
                                           \/ local'[u].unknowns \X {u} \subseteq sbom'.unknowns
    BY <2>1
  <2> HIDE DEF files
  <2> QED
    BY <1>0, <2>1, <2>2, <2>3, <2>5, <2>4
<1>4. CASE Environment
  <2>1. /\ pc["environment"] = "write" /\ pc'["environment"] = "report"
        /\ (\A u \in Task \ {"environment"} : pc'[u] = pc[u]) /\ cfg' = cfg /\ local' = local
        /\ sbom' = [sbom EXCEPT !.distribution = Release(cfg.Distribution)]
    BY <1>4, OtherFacts
  <2>2. /\ sbom'.packages = sbom.packages /\ sbom'.relationships = sbom.relationships
        /\ files(sbom') = files(sbom) /\ sbom'.unknowns = sbom.unknowns
    BY <2>1 DEF IInv, Shape
  <2>3. referenced(sbom') = referenced(sbom)
    BY <2>2, SameReferences
  <2>4. Settled' = Settled /\ \A u \in Task : pc'[u] = "done" => pc[u] = "done"
    BY <2>1 DEF Settled
  <2> HIDE DEF files
  <2> QED
    BY <1>0, <2>1, <2>2, <2>3, <2>4
<1>5. CASE LabelUnknowns
  <2> DEFINE known == referenced(sbom)
             removes == "RemoveWhenPackagesDefined" \in cfg.flags
             labels == "IncludeExecutablesWithoutPackages" \in cfg.flags
  <2>1. /\ pc["unknowns"] = "write" /\ pc'["unknowns"] = "report"
        /\ (\A u \in Task \ {"unknowns"} : pc'[u] = pc[u]) /\ cfg' = cfg /\ local' = local
        /\ sbom' = finalizeUnknowns(sbom, cfg.flags, Archives)
    BY <1>5, OtherFacts
  <2>2. /\ sbom'.packages = sbom.packages /\ sbom'.relationships = sbom.relationships
        /\ sbom'.files = sbom.files
        /\ {u \in sbom.unknowns : ~(removes /\ u[1] \in known)} \subseteq sbom'.unknowns
        /\ labels => (sbom.files["executables"] \ known) \X {"no package identified"} \subseteq sbom'.unknowns
    BY <2>1 DEF finalizeUnknowns, IInv, Shape
  <2>3. referenced(sbom') = known
    BY <2>2, SameReferences
  <2>4. ~Settled /\ Settled'
    BY <2>1 DEF Settled
  <2>5. ASSUME NEW t \in Task, pc'[t] = "done", NEW f \in local'[t].unknowns
        PROVE  <<f, t>> \in sbom'.unknowns \/ (removes /\ f \in known)
    <3>1. pc[t] = "done" /\ f \in local[t].unknowns
      BY <2>1, <2>5
    <3>2. <<f, t>> \in sbom.unknowns
      BY <2>4, <3>1 DEF Accounted
    <3> HIDE DEF known, removes
    <3>3. <<f, t>>[1] = f
      OBVIOUS
    <3>4. ~(removes /\ f \in known) => <<f, t>> \in {u \in sbom.unknowns : ~(removes /\ u[1] \in known)}
      BY <3>2, <3>3
    <3> QED
      BY <2>2, <3>4
  <2>6. ASSUME labels, NEW f \in sbom'.files["executables"], f \notin known
        PROVE  f \in ReportedFiles'
    <3>1. <<f, "no package identified">> \in sbom'.unknowns
      BY <2>2, <2>6
    <3>2. <<f, "no package identified">>[1] = f
      OBVIOUS
    <3> QED
      BY <3>1, <3>2 DEF ReportedFiles
  <2>7. \A t \in {"environment", "unknowns", "features"} : local'[t] = Blank
    BY <2>1 DEF Accounted
  <2>8. Accounted' = /\ \A t \in {"environment", "unknowns", "features"} : local'[t] = Blank
                     /\ \A t \in Task : pc'[t] = "done" => \A f \in local'[t].unknowns :
                           \/ <<f, t>> \in sbom'.unknowns
                           \/ Settled' /\ "RemoveWhenPackagesDefined" \in cfg'.flags /\ f \in referenced(sbom')
                     /\ Settled' /\ "IncludeExecutablesWithoutPackages" \in cfg'.flags =>
                            sbom'.files["executables"] \subseteq referenced(sbom') \cup ReportedFiles'
    BY <1>00 DEF Accounted, Blank
  <2> QED
    BY <2>1, <2>3, <2>4, <2>5, <2>6, <2>7, <2>8
<1>6. CASE DetectFeatures
  <2>1. /\ pc["features"] = "write" /\ pc'["features"] = "report"
        /\ (\A u \in Task \ {"features"} : pc'[u] = pc[u]) /\ cfg' = cfg /\ local' = local
        /\ sbom' \in {sbom, [sbom EXCEPT !.distribution.ExtendedSupport = TRUE]}
    BY <1>6, OtherFacts
  <2>2. /\ sbom'.packages = sbom.packages /\ sbom'.relationships = sbom.relationships
        /\ files(sbom') = files(sbom) /\ sbom'.unknowns = sbom.unknowns
    BY <2>1 DEF IInv, Shape
  <2>3. referenced(sbom') = referenced(sbom)
    BY <2>2, SameReferences
  <2>4. Settled' = Settled /\ \A u \in Task : pc'[u] = "done" => pc[u] = "done"
    BY <2>1 DEF Settled
  <2> HIDE DEF files
  <2> QED
    BY <1>0, <2>1, <2>2, <2>3, <2>4
<1>7. ASSUME NEW t \in Catalogers \cup {"scope", R}, Acts(t) PROVE Accounted'
  <2>1. Ordinary(t)
    BY <1>7, Ordinaries
  <2>2. pc["unknowns"] = "idle" /\ t \in Task /\ t \notin {"environment", "unknowns", "features"}
    BY <2>1, Earlier DEF Ordinary
  <2>3. /\ ~Settled /\ ~Settled' /\ cfg' = cfg /\ sbom'.unknowns = sbom.unknowns
        /\ \A u \in Task \ {t} : pc'[u] = pc[u] /\ local'[u] = local[u]
        /\ pc'[t] # "done"
    BY <2>1, <2>2 DEF Ordinary, Settled
  <2> HIDE DEF files
  <2>4. /\ \A u \in Task : pc'[u] = "done" => pc[u] = "done" /\ local'[u] = local[u]
        /\ \A u \in {"environment", "unknowns", "features"} : local'[u] = local[u]
        /\ sbom.unknowns \subseteq sbom'.unknowns /\ Settled' = Settled
    <3>1. Settled' = FALSE /\ Settled = FALSE
      BY <2>3 DEF Settled
    <3> QED
      BY <2>2, <2>3, <3>1
  <2> QED
    BY <1>0, <2>3, <2>4
<1>8. CASE UNCHANGED vars
  BY <1>0, <1>8 DEF vars, Settled
<1> QED
  BY <1>1, <1>2, <1>3, <1>4, <1>5, <1>6, <1>7, <1>8, Kinds

\* What was found and not understood is in the result, whichever tasks reported it and
\* whatever was removed before the unknowns were settled (internal/task/unknowns_tasks.go).
THEOREM Unknowns == Spec => []UnknownsAccounted
<1> DEFINE Inv == IInv /\ Accounted
<1>1. Init => Inv
  BY InitIInv, InitAccounted
<1>2. Inv /\ [Next]_vars => Inv'
  BY NextIInv, NextAccounted
<1>3. Inv => UnknownsAccounted
  <2> SUFFICES ASSUME IInv, Accounted, Succeeded
               PROVE  /\ \A t \in Scheduled : \A f \in local[t].unknowns :
                          \/ <<f, t>> \in sbom.unknowns
                          \/ "RemoveWhenPackagesDefined" \in cfg.flags /\ f \in referenced(sbom)
                      /\ "IncludeExecutablesWithoutPackages" \in cfg.flags =>
                             sbom.files["executables"] \subseteq referenced(sbom) \cup ReportedFiles
    BY DEF UnknownsAccounted, ReportedFiles
  <2>1. Settled
    BY Finished DEF Settled, Late
  <2> QED
    BY <2>1, Finished DEF Accounted
<1> QED
  BY <1>1, <1>2, <1>3, PTL DEF Spec

-------------------------------------------------------------------------------
(* The relationships of the source and of the evidence.                        *)

reported == UNION {local[t].rels : t \in PkgTasks}
Final(E) == {e \in E : e.from = Source \/ e.type = EvidentByType}

\* What the relationships task has added when it is at a step, and the packages are P.
Due(step, P) ==
    (IF step \in {"evidence", "add evidence", "report", "done"} THEN ToSource(P) ELSE {})
        \cup (IF step \in {"report", "done"} THEN EvidentBy(P) ELSE {})

\* What is due is in the bag B, once but for what was reported too, and nothing else that
\* is about the source or about evidence; what the task holds is what it will owe.
EdgesAt(step, held, P, B, rep) ==
    /\ Due(step, P) \subseteq DOMAIN B
    /\ Final(DOMAIN B) \subseteq Due(step, P) \cup rep
    /\ \A e \in Due(step, P) \ rep : B[e] = 1
    /\ step \in {"add overlap", "write dependencies", "add dependencies"} => Final(held) = {}
    /\ step = "add source" => held = ToSource(P)
    /\ step = "add evidence" => held = EvidentBy(P)

Fresh == \A t \in PkgTasks : pc[t] \in {"idle", "catalog"} => local[t] = Blank

Edges ==
    Fresh /\ EdgesAt(pc[R], local[R].rels, sbom.packages, sbom.relationships, reported)

LEMMA EdgesPrimed ==
    Edges' <=> Fresh' /\ EdgesAt(pc'[R], local'[R].rels, sbom'.packages, sbom'.relationships, reported')
BY DEF Edges, EdgesAt, Due, Final, ToSource, EvidentBy, IDs, ID, Locations, R, EvidentByType

\* While nothing is due and nothing held, the catalogers reported all there is.
LEMMA NothingDue ==
    ASSUME NEW step \in {"idle", "read", "delete", "overlap", "exclude", "dependencies", "source"},
           NEW held, NEW P, NEW B, NEW rep
    PROVE  EdgesAt(step, held, P, B, rep) <=> Final(DOMAIN B) \subseteq rep
BY DEF EdgesAt, Due

LEMMA BagSum ==
    ASSUME NEW B, NEW E
    PROVE  /\ DOMAIN (B (+) SetToBag(E)) = DOMAIN B \cup E
           /\ \A e \in E \ DOMAIN B : (B (+) SetToBag(E))[e] = 1
           /\ \A e \in DOMAIN B \ E : B[e] = 1 => (B (+) SetToBag(E))[e] = 1
BY DEF (+), SetToBag

\* The relationships the task adds, told apart by their types and ends.
LEMMA FinalEdges ==
    ASSUME NEW P, P \subseteq Package, NEW execs, NEW rels
    PROVE  /\ Final(ToSource(P)) = ToSource(P) /\ Final(EvidentBy(P)) = EvidentBy(P)
           /\ ToSource(P) \cap EvidentBy(P) = {}
           /\ Final(byFileOwnershipOverlap(P)) = {}
           /\ Final(NewDependencyRelationships(P, execs, rels)) = {}
<1>1. \A p \in P : ID(p) # Source
  BY NodesAssumption DEF Sources
<1>2. \A f \in File : f # Source
  BY NodesAssumption DEF Sources
<1>3. Final(ToSource(P)) = ToSource(P) /\ Final(EvidentBy(P)) = EvidentBy(P)
  BY DEF Final, ToSource, EvidentBy
<1>4. ToSource(P) \cap EvidentBy(P) = {}
  <2>1. \A e \in ToSource(P) : e.from = Source
    BY DEF ToSource
  <2>2. \A e \in EvidentBy(P) : e.from # Source
    BY <1>1 DEF EvidentBy
  <2> QED
    BY <2>1, <2>2
<1>5. Final(byFileOwnershipOverlap(P)) = {}
  <2>1. \A e \in byFileOwnershipOverlap(P) : e.type = OverlapType /\ \E p \in P : e.from = ID(p)
    BY DEF byFileOwnershipOverlap
  <2> QED
    BY <1>1, <2>1 DEF Final, OverlapType, EvidentByType
<1>6. Final(NewDependencyRelationships(P, execs, rels)) = {}
  <2>1. ASSUME NEW p \in P, NEW f \in File, NEW e \in libraryEdges(P, execs, p, f)
        PROVE  e.type = DependencyType /\ e.from # Source
    <3> DEFINE owners == owningLibraryPackages(P, execs, BaseName[f])
    <3>1. \A n \in IDs(owners) : n # Source
      BY <1>1 DEF IDs, owningLibraryPackages
    <3> HIDE DEF owners
    <3>2. libraryEdges(P, execs, p, f) =
              {[type |-> DependencyType, from |-> n, to |-> ID(p)] :
                  n \in (IF owners = {} THEN {f} ELSE IDs(owners))}
      BY DEF libraryEdges, owners
    <3> QED
      BY <1>2, <2>1, <3>1, <3>2
  <2>2. ASSUME NEW e \in NewDependencyRelationships(P, execs, rels)
        PROVE  \E p \in P, f \in File : e \in libraryEdges(P, execs, p, f)
    <3>1. PICK p \in ElfPackages(P) :
              \E f \in UNION {Glob[lib] : lib \in UNION {Imports[g] : g \in Primary(p) \cap execs}} :
                  e \in libraryEdges(P, execs, p, f)
      BY <2>2 DEF NewDependencyRelationships
    <3>2. PICK g \in Primary(p) \cap execs :
              \E lib \in Imports[g] : \E f \in Glob[lib] : e \in libraryEdges(P, execs, p, f)
      BY <3>1
    <3>3. p \in P /\ g \in File
      BY <3>1, FilesAssumption DEF ElfPackages, Primary, Package
    <3>4. \A lib \in Imports[g] : Glob[lib] \subseteq File
      BY <3>3, FilesAssumption
    <3> QED
      BY <3>2, <3>3, <3>4
  <2> QED
    BY <2>1, <2>2 DEF Final, DependencyType, EvidentByType
<1> QED
  BY <1>3, <1>4, <1>5, <1>6

LEMMA InitEdges == Init => Edges
<1> SUFFICES ASSUME Init PROVE Edges
  OBVIOUS
<1>1. pc[R] = "idle" /\ Fresh
  BY Names DEF Init, Fresh, Catalogers
<1>2. DOMAIN sbom.relationships = {}
  BY DEF Init, NoSbom, EmptyBag, SetToBag
<1>3. Final(DOMAIN sbom.relationships) \subseteq reported
  BY <1>2 DEF Final
<1>4. EdgesAt("idle", local[R].rels, sbom.packages, sbom.relationships, reported)
  BY <1>3, NothingDue
<1> QED
  BY <1>1, <1>4 DEF Edges

\* The steps of the relationships task.
LEMMA FinalStepEdges == ASSUME IInv, Edges, FinalizeRelationships PROVE Edges'
<1> USE Names
<1> DEFINE P == sbom.packages
           B == sbom.relationships
           held == local[R].rels
           now(step, h, Q, C) == EdgesAt(step, h, Q, C, reported)
<1>1. Ordinary(R)
  BY Ordinaries DEF Acts, FinalStep
<1>2. Fresh' /\ reported' = reported
  <2>1. \A t \in PkgTasks : pc'[t] = pc[t] /\ local'[t] = local[t]
    BY <1>1 DEF Ordinary, Catalogers
  <2>2. reported' = reported
    BY <2>1 DEF reported
  <2>3. Fresh'
    BY <2>1 DEF Edges, Fresh, Blank
  <2> QED
    BY <2>2, <2>3
<1>3. ASSUME now(pc'[R], local'[R].rels, sbom'.packages, sbom'.relationships) PROVE Edges'
  BY <1>2, <1>3, EdgesPrimed
<1>4. now(pc[R], held, P, B) /\ P \subseteq Package
  BY DEF Edges, IInv, Shape
<1>5. /\ \A E : [Blank EXCEPT !.rels = E].rels = E
      /\ Blank.rels = {} /\ Final({}) = {}
  BY DEF Blank, Final
<1>6. ASSUME NEW from, NEW to, NEW l, Work(R, from, to, l),
             now(from, held, P, B) => now(to, l.rels, P, B)
      PROVE  Edges'
  BY <1>3, <1>4, <1>6, WorkFacts
<1>7. ASSUME NEW from, NEW to, NEW s, Write(R, from, to, s),
             now(from, held, P, B) => now(to, held, s.packages, s.relationships)
      PROVE  Edges'
  BY <1>3, <1>4, <1>7, WriteFacts
<1>8. ASSUME NEW from, NEW to, NEW E, Write(R, from, to, withRelationships(E)),
             now(from, held, P, B) => now(to, held, P, B (+) SetToBag(E))
      PROVE  Edges'
  BY <1>7, <1>8, Built
<1> HIDE DEF P, B, held
\* What is added meanwhile is neither about the source nor about evidence.
<1>a. ASSUME NEW from \in {"add overlap", "write dependencies", "add dependencies"}, now(from, held, P, B),
              NEW to \in {"exclude", "add dependencies", "source"}
       PROVE  now(to, held, P, B (+) SetToBag(held))
  <2>1. Final(held) = {} /\ Final(DOMAIN B) \subseteq reported
    BY <1>a DEF EdgesAt, Due
  <2>2. DOMAIN (B (+) SetToBag(held)) = DOMAIN B \cup held
    BY BagSum
  <2>3. Final(DOMAIN (B (+) SetToBag(held))) \subseteq reported
    BY <2>1, <2>2 DEF Final
  <2> QED
    BY <2>1, <2>3 DEF EdgesAt, Due
<1>9. CASE ReadElf
  <2>1. PICK l : Work(R, "read", "delete", l)
    BY <1>9 DEF ReadElf
  <2> QED
    BY <1>6, <2>1, NothingDue
<1>10. CASE DeleteElf
  <2>1. PICK ids : Write(R, "delete", "overlap", withoutPackages(ids))
    BY <1>10 DEF DeleteElf
  <2>2. withoutPackages(ids).relationships = RemoveRelationshipsByID(B, ids)
    BY Built DEF B
  <2>3. Final(DOMAIN RemoveRelationshipsByID(B, ids)) \subseteq Final(DOMAIN B)
    BY DEF RemoveRelationshipsByID, Final
  <2> QED
    BY <1>7, <2>1, <2>2, <2>3, NothingDue
<1>11. CASE ReadOverlap
  <2> DEFINE l == IF "PackageFileOwnershipOverlap" \in cfg.flags
                  THEN [Blank EXCEPT !.rels = byFileOwnershipOverlap(P)] ELSE Blank
  <2>0. Work(R, "overlap", "add overlap", l)
    BY <1>11 DEF ReadOverlap, P
  <2>1. Final(l.rels) = {}
    BY <1>4, <1>5, FinalEdges
  <2> HIDE DEF l
  <2>2. now("overlap", held, P, B) => now("add overlap", l.rels, P, B)
    BY <2>1 DEF EdgesAt, Due
  <2> QED
    BY <1>6, <2>0, <2>2
<1>12. CASE AddOverlap
  <2>1. Write(R, "add overlap", "exclude", withRelationships(held))
    BY <1>12 DEF AddOverlap, held
  <2>2. now("add overlap", held, P, B) => now("exclude", held, P, B (+) SetToBag(held))
    BY <1>a
  <2> QED
    BY <1>8, <2>1, <2>2
<1>13. CASE ExcludeTurn
  <2>1. PICK e \in local[R].rels :
            /\ pc[R] = "exclude" /\ sbom' = excludeStep(sbom, e) /\ pc' = pc
    BY <1>13 DEF ExcludeTurn
  <2>2. Final(DOMAIN sbom'.relationships) \subseteq Final(DOMAIN B)
    BY <2>1 DEF excludeStep, RemoveRelationshipsByID, Final, IInv, Shape, B
  <2> QED
    BY <1>3, <1>4, <2>1, <2>2, NothingDue
<1>14. CASE EndExclude
  <2>1. Write(R, "exclude", "dependencies", sbom)
    BY <1>14 DEF EndExclude
  <2> QED
    BY <1>7, <2>1, NothingDue DEF P, B
<1>15. CASE ReadDependencies
  <2> DEFINE E == NewDependencyRelationships(P, sbom.files["executables"], B)
             l == [Blank EXCEPT !.rels = E]
  <2>0. Work(R, "dependencies", "write dependencies", l)
    BY <1>15 DEF ReadDependencies, P, B
  <2>3. Final(E) = {}
    BY <1>4, FinalEdges
  <2> HIDE DEF E
  <2>1. Final(l.rels) = {}
    BY <1>5, <2>3
  <2> HIDE DEF l
  <2>2. now("dependencies", held, P, B) => now("write dependencies", l.rels, P, B)
    BY <2>1 DEF EdgesAt, Due
  <2> QED
    BY <1>6, <2>0, <2>2
<1>16. CASE WriteDependencies
  <2>1. Write(R, "write dependencies", "add dependencies", withRelationships(held))
    BY <1>16 DEF WriteDependencies, held
  <2>2. now("write dependencies", held, P, B) => now("add dependencies", held, P, B (+) SetToBag(held))
    BY <1>a
  <2> QED
    BY <1>8, <2>1, <2>2
<1>17. CASE AddDependencies
  <2>1. Write(R, "add dependencies", "source", withRelationships(held))
    BY <1>17 DEF AddDependencies, held
  <2>2. now("add dependencies", held, P, B) => now("source", held, P, B (+) SetToBag(held))
    BY <1>a
  <2> QED
    BY <1>8, <2>1, <2>2
<1>18. CASE ReadSource
  <2>1. PICK l : Work(R, "source", "add source", l) /\ l.rels = ToSource(P)
    BY <1>5, <1>18 DEF ReadSource, P
  <2>2. now("source", held, P, B) => now("add source", l.rels, P, B)
    BY <2>1 DEF EdgesAt, Due
  <2> QED
    BY <1>6, <2>1, <2>2
<1>19. CASE AddSource
  <2>1. Write(R, "add source", "evidence", withRelationships(held))
    BY <1>19 DEF AddSource, held
  <2>2. ASSUME now("add source", held, P, B) PROVE now("evidence", held, P, B (+) SetToBag(held))
    <3> DEFINE C == B (+) SetToBag(held)
    <3>1. held = ToSource(P) /\ Final(DOMAIN B) \subseteq reported /\ Final(held) = held
      BY <1>4, <2>2, FinalEdges DEF EdgesAt, Due
    <3>2. /\ DOMAIN C = DOMAIN B \cup held /\ \A e \in held \ DOMAIN B : C[e] = 1
      BY BagSum
    <3> HIDE DEF C
    <3>3. Final(DOMAIN C) \subseteq held \cup reported
      BY <3>1, <3>2 DEF Final
    <3>4. \A e \in held \ reported : C[e] = 1
      BY <3>1, <3>2 DEF Final
    <3>5. Due("evidence", P) = held
      BY <3>1 DEF Due
    <3> QED
      BY <3>2, <3>3, <3>4, <3>5 DEF EdgesAt, C
  <2> QED
    BY <1>8, <2>1, <2>2
<1>20. CASE ReadEvidence
  <2>1. PICK l : Work(R, "evidence", "add evidence", l) /\ l.rels = EvidentBy(P)
    BY <1>5, <1>20 DEF ReadEvidence, P
  <2>2. now("evidence", held, P, B) => now("add evidence", l.rels, P, B)
    BY <2>1 DEF EdgesAt, Due
  <2> QED
    BY <1>6, <2>1, <2>2
<1>21. CASE AddEvidence
  <2>1. Write(R, "add evidence", "report", withRelationships(held))
    BY <1>21 DEF AddEvidence, held
  <2>2. ASSUME now("add evidence", held, P, B) PROVE now("report", held, P, B (+) SetToBag(held))
    <3> DEFINE C == B (+) SetToBag(held)
               src == ToSource(P)
    <3>1. /\ held = EvidentBy(P) /\ src \subseteq DOMAIN B /\ Final(DOMAIN B) \subseteq src \cup reported
          /\ \A e \in src \ reported : B[e] = 1
      BY <2>2 DEF EdgesAt, Due
    <3>2. Final(held) = held /\ src \cap held = {}
      BY <1>4, <3>1, FinalEdges
    <3>3. /\ DOMAIN C = DOMAIN B \cup held /\ \A e \in held \ DOMAIN B : C[e] = 1
          /\ \A e \in DOMAIN B \ held : B[e] = 1 => C[e] = 1
      BY BagSum
    <3>4. Due("report", P) = src \cup held
      BY <3>1 DEF Due
    <3> HIDE DEF C, src
    <3>5. Final(DOMAIN C) \subseteq (src \cup held) \cup reported
      BY <3>1, <3>2, <3>3 DEF Final
    <3>6. \A e \in src \ reported : C[e] = 1
      BY <3>1, <3>2, <3>3
    <3>7. \A e \in held \ reported : C[e] = 1
      BY <3>1, <3>2, <3>3 DEF Final
    <3> QED
      BY <3>1, <3>3, <3>4, <3>5, <3>6, <3>7 DEF EdgesAt, C
  <2> QED
    BY <1>8, <2>1, <2>2
<1> QED
  BY <1>9, <1>10, <1>11, <1>12, <1>13, <1>14, <1>15, <1>16, <1>17, <1>18, <1>19, <1>20, <1>21
     DEF FinalizeRelationships

LEMMA NextEdges == ASSUME IInv, Edges, [Next]_vars PROVE Edges'
<1> USE Names
<1> DEFINE P == sbom.packages
           B == sbom.relationships
<1>0. EdgesAt(pc[R], local[R].rels, P, B, reported) /\ Fresh
  BY DEF Edges
\* Nothing the invariant is about changes.
<1>1. ASSUME \A t \in PkgTasks : pc'[t] = pc[t] \/ (pc[t] = "idle" /\ pc'[t] = "catalog") \/ pc'[t] = "done",
             local' = local, sbom'.packages = P, sbom'.relationships = B,
             \/ pc'[R] = pc[R]
             \/ pc[R] = "idle" /\ pc'[R] = "read"
             \/ pc[R] = "report" /\ pc'[R] = "done"
      PROVE  Edges'
  <2>1. reported' = reported
    BY <1>1 DEF reported
  <2>2. Fresh'
    BY <1>0, <1>1 DEF Fresh, Blank
  <2>3. EdgesAt("report", local[R].rels, P, B, reported) => EdgesAt("done", local[R].rels, P, B, reported)
    BY DEF EdgesAt, Due
  <2>4. EdgesAt("idle", local[R].rels, P, B, reported) => EdgesAt("read", local[R].rels, P, B, reported)
    BY NothingDue
  <2> HIDE DEF P, B
  <2>5. EdgesAt(pc'[R], local[R].rels, P, B, reported)
    BY <1>0, <1>1, <2>3, <2>4
  <2> QED
    BY <1>1, <2>1, <2>2, <2>5, EdgesPrimed
<1>2. CASE EndGroup
  BY <1>1, <1>2, LoopFacts
<1>3. ASSUME NEW t \in Task, Start(t) PROVE Edges'
  <2>1. /\ pc[t] = "idle" /\ pc'[t] = firstStep(t) /\ (\A u \in Task \ {t} : pc'[u] = pc[u])
        /\ sbom' = sbom /\ local' = local
    BY <1>3, LoopFacts
  <2> QED
    BY <1>1, <2>1, FirstSteps DEF Catalogers
<1>4. ASSUME NEW t \in Task, Report(t) PROVE Edges'
  <2>1. /\ pc[t] = "report" /\ pc'[t] = "done" /\ (\A u \in Task \ {t} : pc'[u] = pc[u])
        /\ sbom'.packages = P /\ sbom'.relationships = B /\ local' = local
    BY <1>4, LoopFacts
  <2> QED
    BY <1>1, <2>1 DEF Catalogers
<1>5. CASE Environment \/ LabelUnknowns \/ DetectFeatures
  <2>1. /\ \A t \in Catalogers \cup {R} : pc'[t] = pc[t]
        /\ local' = local
    BY <1>5, OtherFacts
  <2>2. sbom'.packages = P /\ sbom'.relationships = B
    BY <1>5, OtherFacts DEF finalizeUnknowns, IInv, Shape
  <2> QED
    BY <1>1, <2>1, <2>2 DEF Catalogers
\* Before the relationships task starts, only what catalogers report is there.
<1>6. ASSUME NEW t \in Catalogers \cup {"scope"}, Acts(t) PROVE Edges'
  <2>1. Ordinary(t) /\ t \in Task /\ t # R
    BY <1>6, Ordinaries
  <2>2. pc[R] = "idle" /\ pc'[R] = "idle"
    BY <2>1, Earlier DEF Ordinary
  <2>3. Final(DOMAIN B) \subseteq reported
    BY <1>0, <2>2, NothingDue
  <2>4. ASSUME reported \subseteq reported', Fresh',
               Final(DOMAIN sbom'.relationships) \subseteq Final(DOMAIN B) \cup reported'
        PROVE  Edges'
    BY <2>2, <2>3, <2>4, NothingDue, EdgesPrimed
  <2>5. ASSUME NEW from, NEW to, NEW s, Write(t, from, to, s), {from, to} \cap {"idle", "catalog"} = {},
               Final(DOMAIN s.relationships) \subseteq Final(DOMAIN B) \cup reported
        PROVE  Edges'
    <3>1. /\ local' = local /\ sbom' = s /\ pc'[t] = to
          /\ \A u \in Task \ {t} : pc'[u] = pc[u]
      BY <2>1, <2>5, WriteFacts
    <3>2. reported' = reported
      BY <3>1 DEF reported
    <3>3. Fresh'
      BY <1>0, <2>5, <3>1 DEF Fresh, Blank, Catalogers
    <3> QED
      BY <2>4, <2>5, <3>1, <3>2, <3>3
  <2>6. ASSUME NEW from, NEW to, NEW l, Work(t, from, to, l), t \in PkgTasks => from = "catalog" /\ to # "catalog" /\ to # "idle"
        PROVE  Edges'
    <3>1. /\ local'[t] = l /\ sbom' = sbom /\ pc'[t] = to /\ pc[t] = from
          /\ \A u \in Task \ {t} : pc'[u] = pc[u] /\ local'[u] = local[u]
      BY <2>1, <2>6, WorkFacts
    <3>2. reported \subseteq reported'
      <4>1. \A u \in PkgTasks : local[u].rels \subseteq local'[u].rels
        <5>1. t \in PkgTasks => local[t].rels = {}
          BY <1>0, <2>6, <3>1 DEF Fresh, Blank
        <5> QED
          BY <3>1, <5>1 DEF Catalogers
      <4> QED
        BY <4>1 DEF reported
    <3>3. Fresh'
      BY <1>0, <2>6, <3>1 DEF Fresh, Blank, Catalogers
    <3> QED
      BY <2>4, <3>1, <3>2, <3>3
  <2>7. CASE PackageStep(t)
    <3>1. CASE Catalog(t)
      <4>1. PICK l : Work(t, "catalog", "packages", l)
        BY <3>1 DEF Catalog
      <4> QED
        BY <2>6, <4>1
    <3>2. CASE AddPackages(t)
      <4>1. PICK Q : Write(t, "packages", "relationships", withPackages(Q))
        BY <3>2 DEF AddPackages
      <4>2. withPackages(Q).relationships = B
        BY Built
      <4> QED
        BY <2>5, <4>1, <4>2
    <3>3. CASE AddRelationships(t)
      <4> DEFINE E == local[t].rels
      <4>1. Write(t, "relationships", "report", withRelationships(E)) /\ t \in PkgTasks
        BY <3>3 DEF AddRelationships
      <4>0. withRelationships(E).relationships = B (+) SetToBag(E)
        BY Built
      <4>3. E \subseteq reported
        BY <4>1 DEF reported
      <4> HIDE DEF E, B
      <4>2. DOMAIN withRelationships(E).relationships = DOMAIN B \cup E
        BY <4>0, BagSum
      <4>4. Final(DOMAIN withRelationships(E).relationships) \subseteq Final(DOMAIN B) \cup reported
        BY <4>2, <4>3 DEF Final
      <4> QED
        BY <2>5, <4>1, <4>4
    <3> QED
      BY <2>7, <3>1, <3>2, <3>3 DEF PackageStep
  <2>8. CASE FileStep(t)
    <3>0. t \in FileTasks /\ t \notin PkgTasks
      BY <2>8 DEF FileStep
    <3>1. CASE Select(t)
      <4>1. PICK to \in {"report", "catalog"} : \E l : Work(t, "select", to, l)
        BY <3>1 DEF Select
      <4>2. PICK l : Work(t, "select", to, l)
        BY <4>1
      <4> QED
        BY <2>6, <3>0, <4>2
    <3>2. CASE CatalogFiles(t)
      <4>1. PICK l : Work(t, "catalog", "write", l)
        BY <3>2 DEF CatalogFiles
      <4> QED
        BY <2>6, <3>0, <4>1
    <3>3. CASE WriteFiles(t)
      <4> DEFINE s == [sbom EXCEPT !.files[t] = local[t].files]
      <4>1. Write(t, "write", "report", s)
        BY <3>3 DEF WriteFiles
      <4>2. s.relationships = B
        BY DEF IInv, Shape
      <4> HIDE DEF s
      <4> QED
        BY <2>5, <4>1, <4>2
    <3> QED
      BY <2>8, <3>1, <3>2, <3>3 DEF FileStep
  <2>9. CASE PanicStep(t)
    <3>1. PICK l : Work(t, "catalog", "report", l)
      BY <2>9 DEF PanicStep, Panic
    <3> QED
      BY <2>6, <3>1
  <2>10. CASE ScopeStep(t)
    <3>0. t = "scope"
      BY <2>10 DEF ScopeStep
    <3>1. CASE ReadScope
      <4>1. PICK l : Work(t, "read", "delete", l)
        BY <3>0, <3>1 DEF ReadScope
      <4> QED
        BY <2>6, <3>0, <4>1 DEF Catalogers
    <3>2. CASE DeleteScope
      <4>1. PICK ids : Write(t, "delete", "report", withoutPackages(ids))
        BY <3>0, <3>2 DEF DeleteScope
      <4>2. withoutPackages(ids).relationships = RemoveRelationshipsByID(B, ids)
        BY Built
      <4>3. Final(DOMAIN RemoveRelationshipsByID(B, ids)) \subseteq Final(DOMAIN B)
        BY DEF RemoveRelationshipsByID, Final
      <4> QED
        BY <2>5, <4>1, <4>2, <4>3
    <3> QED
      BY <2>10, <3>1, <3>2 DEF ScopeStep
  <2>11. ~FinalStep(t)
    BY <2>1 DEF FinalStep
  <2> QED
    BY <1>6, <2>7, <2>8, <2>9, <2>10, <2>11 DEF Acts
<1>7. ASSUME Acts(R) PROVE Edges'
  <2>1. FinalizeRelationships
    BY <1>7 DEF Acts, PackageStep, FileStep, PanicStep, ScopeStep, FinalStep, Catalogers
  <2> QED
    BY <2>1, FinalStepEdges
<1>8. CASE UNCHANGED vars
  BY <1>1, <1>8 DEF vars
<1> QED
  BY <1>2, <1>3, <1>4, <1>5, <1>6, <1>7, <1>8, Kinds

\* Every package of the result is contained in the source and evident by each of its
\* locations, once unless a cataloger reported it too, and nothing else is, whatever was
\* removed on the way (internal/task/relationship_tasks.go).
THEOREM FinalRelationships == Spec => []FinalRelationshipsExact
<1> DEFINE Inv == IInv /\ Edges
<1>1. Init => Inv
  BY InitIInv, InitEdges
<1>2. Inv /\ [Next]_vars => Inv'
  BY NextIInv, NextEdges
<1>3. Inv => FinalRelationshipsExact
  <2> SUFFICES ASSUME IInv, Edges, Succeeded PROVE FinalRelationshipsExact
    BY DEF FinalRelationshipsExact
  <2> DEFINE P == sbom.packages
             due == ToSource(P) \cup EvidentBy(P)
             B == sbom.relationships
  <2>1. pc[R] = "done" /\ P \subseteq Package
    BY Finished DEF Late, R, IInv, Shape
  <2>2. Due("done", P) = due
    BY DEF Due
  <2>3. due \subseteq DOMAIN B /\ Final(DOMAIN B) \subseteq due \cup reported /\ \A e \in due \ reported : B[e] = 1
    BY <2>1, <2>2 DEF Edges, EdgesAt
  <2>4. Final(due) = due
    BY <2>1, FinalEdges DEF Final
  <2> HIDE DEF due
  <2>5. due \subseteq Final(DOMAIN B)
    BY <2>3, <2>4 DEF Final
  <2> QED
    BY <2>3, <2>5 DEF FinalRelationshipsExact, due, Final, reported, BagToSet
<1> QED
  BY <1>1, <1>2, <1>3, PTL DEF Spec

-------------------------------------------------------------------------------
(* The exclusion of binary packages.                                           *)

Clash(p, q) ==
    Type(p) = "os" /\ Type(q) = "binary" /\ ~(OwnedFiles(p) \cap Paths(q) \subseteq Forbidden)

\* While overlaps are walked, one is held for every pair of packages that clash; later
\* there is no such pair.
ExcludedAt(step, held, P) ==
    /\ step \in {"add overlap", "exclude"} =>
           \A p, q \in P : Clash(p, q) => OverlapOf(p, q) \in held
    /\ step \notin {"idle", "read", "delete", "overlap", "add overlap", "exclude"} =>
           \A p, q \in P : ~Clash(p, q)

\* Exclusion without ownership by overlap is no valid configuration.
Excluded ==
    /\ outcome = "error" \/ Valid(cfg)
    /\ pc[R] # "idle" => Valid(cfg)
    /\ "ExcludeBinaries" \in cfg.flags => ExcludedAt(pc[R], local[R].rels, sbom.packages)

LEMMA ExcludedPrimed ==
    Excluded' <=> /\ outcome' = "error" \/ Valid(cfg')
                  /\ pc'[R] # "idle" => Valid(cfg')
                  /\ "ExcludeBinaries" \in cfg'.flags => ExcludedAt(pc'[R], local'[R].rels, sbom'.packages)
BY DEF Excluded, ExcludedAt, Clash, OverlapOf, OverlapType, Type, OwnedFiles, Paths, Locations, ID, Valid, R

\* A claim on a file that is not forbidden makes an overlap.
LEMMA OverlapsOfClashes ==
    ASSUME NEW P, NEW p \in P, NEW q \in P, Clash(p, q)
    PROVE  OverlapOf(p, q) \in byFileOwnershipOverlap(P)
<1>1. PICK f \in OwnedFiles(p) : f \in Paths(q) /\ f \notin Forbidden
  BY DEF Clash
<1>2. f \in claimedPaths(P, p)
  BY <1>1 DEF claimedPaths
<1>3. p # q
  BY DEF Clash
<1>4. /\ <<p, q>> \in {xy \in P \X P : xy[1] # xy[2] /\ claimedPaths(P, xy[1]) \cap Paths(xy[2]) # {}}
      /\ <<p, q>>[1] = p /\ <<p, q>>[2] = q
  BY <1>1, <1>2, <1>3
<1> QED
  BY <1>4 DEF byFileOwnershipOverlap, OverlapOf

\* A turn of the loop removes the binary package of the pair.
LEMMA TurnExcludes ==
    ASSUME NEW s, s.packages \subseteq Package, NEW held, NEW e, "packages" \in DOMAIN s,
           \A p, q \in s.packages : Clash(p, q) => OverlapOf(p, q) \in held
    PROVE  /\ excludeStep(s, e).packages \subseteq s.packages
           /\ \A p, q \in excludeStep(s, e).packages : Clash(p, q) => OverlapOf(p, q) \in held \ {e}
<1> DEFINE P == s.packages
           Q == excludeStep(s, e).packages
<1>1. Q \subseteq P
  BY DEF excludeStep
<1>2. ASSUME NEW p \in P, NEW q \in P, Clash(p, q), e = OverlapOf(p, q) PROVE q \notin Q
  <2>1. e.type = OverlapType /\ e.from = ID(p) /\ e.to = ID(q)
    BY <1>2 DEF OverlapOf
  <2>2. Has(P, e.from) /\ Has(P, e.to) /\ Get(P, e.from) = p /\ Get(P, e.to) = q
    BY <2>1, OneID
  <2>3. idToRemove(p, q) = {ID(q)}
    BY <1>2 DEF Clash, idToRemove, IsBinary
  <2>4. Q = {x \in P : ID(x) \notin {ID(q)}}
    BY <2>1, <2>2, <2>3 DEF excludeStep
  <2> QED
    BY <2>4
<1> QED
  BY <1>1, <1>2

LEMMA InitExcluded == Init => Excluded
BY Names DEF Init, Excluded, ExcludedAt

LEMMA NextExcluded == ASSUME IInv, Excluded, [Next]_vars PROVE Excluded'
<1> USE Names
<1> DEFINE P == sbom.packages
           held == local[R].rels
           on == "ExcludeBinaries" \in cfg.flags
           now(step, h, Q) == on => ExcludedAt(step, h, Q)
<1>0. /\ now(pc[R], held, P) /\ P \subseteq Package
      /\ outcome = "error" \/ Valid(cfg)
      /\ pc[R] # "idle" => Valid(cfg)
  BY DEF Excluded, IInv, Shape
<1>1. ASSUME cfg' = cfg, outcome' = "error" \/ Valid(cfg), pc'[R] # "idle" => Valid(cfg),
             now(pc'[R], local'[R].rels, sbom'.packages)
      PROVE  Excluded'
  BY <1>1, ExcludedPrimed
\* The packages stay, or the relationships task has not begun.
<1>2. ASSUME cfg' = cfg, outcome' = "error" \/ outcome' = outcome \/ outcome = "running",
             \/ pc'[R] = pc[R] /\ (sbom'.packages = P \/ pc[R] = "idle") /\ local'[R] = local[R]
             \/ pc[R] = "idle" /\ pc'[R] = "read" /\ outcome = "running"
             \/ pc[R] = "report" /\ pc'[R] = "done" /\ sbom'.packages = P
      PROVE  Excluded'
  <2>1. now(pc'[R], local'[R].rels, sbom'.packages)
    BY <1>0, <1>2 DEF ExcludedAt
  <2> HIDE DEF now
  <2> QED
    BY <1>0, <1>1, <1>2, <2>1
<1>3. CASE EndGroup
  BY <1>2, <1>3, LoopFacts
<1>4. ASSUME NEW t \in Task, Start(t) PROVE Excluded'
  BY <1>2, <1>4, LoopFacts, FirstSteps
<1>5. ASSUME NEW t \in Task, Report(t) PROVE Excluded'
  BY <1>2, <1>5, LoopFacts
<1>6. CASE Environment \/ LabelUnknowns \/ DetectFeatures
  <2>1. pc'[R] = pc[R] /\ local' = local /\ cfg' = cfg /\ outcome' = outcome
    BY <1>6, OtherFacts
  <2>2. sbom'.packages = P
    BY <1>6, OtherFacts DEF finalizeUnknowns, IInv, Shape
  <2> QED
    BY <1>2, <2>1, <2>2
<1>7. ASSUME NEW t \in Catalogers \cup {"scope"}, Acts(t) PROVE Excluded'
  <2>1. Ordinary(t) /\ t \in Task /\ t # R
    BY <1>7, Ordinaries
  <2>2. pc[R] = "idle" /\ pc'[R] = "idle" /\ local'[R] = local[R] /\ cfg' = cfg /\ outcome' = outcome
    BY <2>1, Earlier DEF Ordinary
  <2> QED
    BY <1>2, <2>2
<1>8. CASE UNCHANGED vars
  BY <1>2, <1>8 DEF vars
<1>9. ASSUME FinalizeRelationships PROVE Excluded'
  <2>0. pc[R] # "idle" /\ pc'[R] # "idle" /\ cfg' = cfg /\ outcome' = outcome
    <3>1. Ordinary(R)
      BY <1>9, Ordinaries DEF Acts, FinalStep
    <3> QED
      BY <3>1 DEF Ordinary, Working
  <2>1. ASSUME now(pc'[R], local'[R].rels, sbom'.packages) PROVE Excluded'
    <3> HIDE DEF now
    <3> QED
      BY <1>0, <1>1, <2>0, <2>1
  <2>2. ASSUME NEW from, NEW to, NEW l, Work(R, from, to, l),
               now(from, held, P) => now(to, l.rels, P)
        PROVE  Excluded'
    <3> HIDE DEF now
    <3> QED
      BY <1>0, <2>1, <2>2, WorkFacts
  <2>3. ASSUME NEW from, NEW to, NEW s, Write(R, from, to, s),
               now(from, held, P) => now(to, held, s.packages)
        PROVE  Excluded'
    <3> HIDE DEF now
    <3> QED
      BY <1>0, <2>1, <2>3, WriteFacts
  <2> HIDE DEF P, held
  \* The steps before overlaps are known, and those after the exclusion.
  <2>4. \A h, g, Q, S : /\ now("delete", h, Q) /\ now("overlap", h, Q)
                        /\ (now("dependencies", h, Q) => now("write dependencies", g, Q))
                        /\ (now("write dependencies", h, Q) => now("add dependencies", g, Q))
                        /\ (now("add dependencies", h, Q) => now("source", g, Q))
                        /\ (now("source", h, Q) => now("add source", g, Q))
                        /\ (now("add source", h, Q) => now("evidence", g, Q))
                        /\ (now("evidence", h, Q) => now("add evidence", g, Q))
                        /\ (now("add evidence", h, Q) => now("report", g, Q))
    BY DEF ExcludedAt
  <2>5. CASE ReadElf
    <3>1. PICK l : Work(R, "read", "delete", l)
      BY <2>5 DEF ReadElf
    <3> QED
      BY <2>2, <2>4, <3>1
  <2>6. CASE DeleteElf
    <3>1. PICK s : Write(R, "delete", "overlap", s)
      BY <2>6 DEF DeleteElf
    <3> QED
      BY <2>3, <2>4, <3>1
  <2>7. CASE ReadOverlap
    <3> DEFINE l == IF "PackageFileOwnershipOverlap" \in cfg.flags
                    THEN [Blank EXCEPT !.rels = byFileOwnershipOverlap(P)] ELSE Blank
    <3>1. Work(R, "overlap", "add overlap", l)
      BY <2>7 DEF ReadOverlap, P
    <3>2. on => l.rels = byFileOwnershipOverlap(P)
      BY <1>0, <2>0 DEF Valid, Blank
    <3> HIDE DEF l
    <3>3. on => ExcludedAt("add overlap", l.rels, P)
      BY <3>2, OverlapsOfClashes DEF ExcludedAt
    <3> QED
      BY <2>2, <3>1, <3>3
  <2>8. CASE AddOverlap
    <3>1. Write(R, "add overlap", "exclude", withRelationships(held))
      BY <2>8 DEF AddOverlap, held
    <3>2. withRelationships(held).packages = P
      BY Built DEF P
    <3>3. now("add overlap", held, P) => now("exclude", held, P)
      BY DEF ExcludedAt
    <3> QED
      BY <2>3, <3>1, <3>2, <3>3
  <2>9. CASE ExcludeTurn
    <3>1. PICK e \in held :
              /\ pc[R] = "exclude" /\ on /\ sbom' = excludeStep(sbom, e) /\ pc' = pc
              /\ local' = [local EXCEPT ![R] = [Blank EXCEPT !.rels = held \ {e}]]
      BY <2>9 DEF ExcludeTurn, held
    <3>2. local'[R].rels = held \ {e}
      BY <3>1 DEF IInv, Shape, Blank
    <3>3. \A p, q \in P : Clash(p, q) => OverlapOf(p, q) \in held
      BY <1>0, <3>1 DEF ExcludedAt
    <3>4. "packages" \in DOMAIN sbom
      BY DEF IInv, Shape
    <3>5. \A p, q \in sbom'.packages : Clash(p, q) => OverlapOf(p, q) \in held \ {e}
      BY <1>0, <3>1, <3>3, <3>4, TurnExcludes DEF P
    <3>6. now("exclude", held \ {e}, sbom'.packages)
      BY <3>5 DEF ExcludedAt
    <3> QED
      BY <2>1, <3>1, <3>2, <3>6
  <2>10. CASE EndExclude
    <3>1. Write(R, "exclude", "dependencies", sbom) /\ (on => held = {})
      BY <2>10 DEF EndExclude, held
    <3>2. now("exclude", held, P) => now("dependencies", held, P)
      BY <3>1 DEF ExcludedAt
    <3> QED
      BY <2>3, <3>1, <3>2 DEF P
  <2>11. ASSUME NEW from, NEW to, NEW l, Work(R, from, to, l),
                <<from, to>> \in {<<"dependencies", "write dependencies">>, <<"source", "add source">>,
                                  <<"evidence", "add evidence">>}
         PROVE  Excluded'
    BY <2>2, <2>4, <2>11
  <2>12. ASSUME NEW from, NEW to, NEW E, Write(R, from, to, withRelationships(E)),
                <<from, to>> \in {<<"write dependencies", "add dependencies">>, <<"add dependencies", "source">>,
                                  <<"add source", "evidence">>, <<"add evidence", "report">>}
         PROVE  Excluded'
    <3>1. withRelationships(E).packages = P
      BY Built DEF P
    <3> QED
      BY <2>3, <2>4, <2>12, <3>1
  <2>13. CASE ReadDependencies \/ ReadSource \/ ReadEvidence
    <3>1. \/ \E l : Work(R, "dependencies", "write dependencies", l)
          \/ \E l : Work(R, "source", "add source", l)
          \/ \E l : Work(R, "evidence", "add evidence", l)
      BY <2>13 DEF ReadDependencies, ReadSource, ReadEvidence
    <3> QED
      BY <2>11, <3>1
  <2>14. CASE WriteDependencies \/ AddDependencies \/ AddSource \/ AddEvidence
    <3>1. \/ \E E : Write(R, "write dependencies", "add dependencies", withRelationships(E))
          \/ \E E : Write(R, "add dependencies", "source", withRelationships(E))
          \/ \E E : Write(R, "add source", "evidence", withRelationships(E))
          \/ \E E : Write(R, "add evidence", "report", withRelationships(E))
      BY <2>14 DEF WriteDependencies, AddDependencies, AddSource, AddEvidence
    <3> QED
      BY <2>12, <3>1
  <2> QED
    BY <1>9, <2>5, <2>6, <2>7, <2>8, <2>9, <2>10, <2>13, <2>14 DEF FinalizeRelationships
<1>10. ASSUME Acts(R) PROVE Excluded'
  BY <1>9, <1>10 DEF Acts, PackageStep, FileStep, PanicStep, ScopeStep, FinalStep, Catalogers
<1> QED
  BY <1>3, <1>4, <1>5, <1>6, <1>7, <1>8, <1>10, Kinds

\* No binary package is left at a path that a package of the distribution claims, unless
\* no package may claim it (internal/relationship/exclude_binaries_by_file_ownership_overlap.go).
THEOREM Exclusions == Spec => []NoBinaryOwnedByOS
<1> DEFINE Inv == IInv /\ Excluded
<1>1. Init => Inv
  BY InitIInv, InitExcluded
<1>2. Inv /\ [Next]_vars => Inv'
  BY NextIInv, NextExcluded
<1>3. Inv => NoBinaryOwnedByOS
  <2> SUFFICES ASSUME IInv, Excluded, Succeeded, "ExcludeBinaries" \in cfg.flags
               PROVE  \A p, q \in sbom.packages :
                          Type(p) = "os" /\ Type(q) = "binary" => OwnedFiles(p) \cap Paths(q) \subseteq Forbidden
    BY DEF NoBinaryOwnedByOS
  <2>1. pc[R] = "done"
    BY Finished DEF Late, R
  <2> QED
    BY <2>1 DEF Excluded, ExcludedAt, Clash
<1> QED
  BY <1>1, <1>2, <1>3, PTL DEF Spec

-------------------------------------------------------------------------------
(* What compliance leaves of the relationships.                                *)

\* A package that compliance leaves keeps the files it owns.
LEMMA OwnersKept ==
    ASSUME NEW c \in Configs, NEW t \in PkgTasks, NEW r \in Results(t),
           NEW q \in ToSet(remaining(c.Compliance, r.pkgs))
    PROVE  owningRelationships(q) \subseteq
               remainingRelationships(c.Compliance, r.pkgs, finalizeResults(r.pkgs, r.rels, TRUE))
<1> DEFINE a == c.Compliance
           pkgs == r.pkgs
           all == finalizeResults(pkgs, r.rels, TRUE)
           base == Outliving(a, pkgs, all)
           IDsOf == {ID(p) : p \in Package}
<1>1. /\ pkgs \in Seq(Package)
      /\ r.rels \subseteq [type : RelType, from : IDs(ToSet(pkgs)) \cup File \cup Foreign,
                           to : IDs(ToSet(pkgs)) \cup File \cup Foreign]
  BY ResultsAssumption
<1>2. /\ DOMAIN pkgs = 1 .. Len(pkgs) /\ ToSet(pkgs) \subseteq Package
      /\ \A j \in 1 .. Len(pkgs) : pkgs[j] \in ToSet(pkgs)
      /\ \A p \in ToSet(pkgs) : \E j \in 1 .. Len(pkgs) : pkgs[j] = p
  BY <1>1, LenProperties, ElementOfSeq DEF ToSet
<1> HIDE DEF pkgs
<1>3. PICK p \in ToSet(pkgs) : ~drops(a, p) /\ q = stubbed(a, p)
  BY <1>1, Leavings DEF pkgs
<1>4. p \in Package /\ q \in Package /\ q.key = p.key /\ Owned(q) = Owned(p) /\ Owned(p) \subseteq File
  <2>1. p \in Package /\ q \in Package /\ q.key = p.key
    BY <1>2, <1>3, StubOnce
  <2> QED
    BY <2>1, OwnedAssumption, FilesAssumption DEF OwnedFiles
<1>5. \A x \in Package : Owned(x) \subseteq File
  BY FilesAssumption
<1>6. all \in SUBSET [type : RelType \cup {ContainsType}, from : Node, to : Node]
  <2>1. IDs(ToSet(pkgs)) \cup File \cup Foreign \subseteq Node
    BY <1>2 DEF IDs, Node, Sources
  <2>2. r.rels \subseteq [type : RelType \cup {ContainsType}, from : Node, to : Node]
    BY <1>1, <2>1 DEF pkgs
  <2>3. \A x \in ToSet(pkgs) :
            owningRelationships(x) \subseteq [type : RelType \cup {ContainsType}, from : Node, to : Node]
    BY <1>2, <1>5 DEF owningRelationships, Node
  <2> QED
    BY <2>2, <2>3 DEF finalizeResults
<1>7. ID(p) \notin DroppedIDs(a, pkgs)
  <2> SUFFICES ASSUME NEW d \in ToSet(pkgs), drops(a, d), ID(p) = ID(stubbed(a, d)) PROVE FALSE
    BY DEF DroppedIDs
  <2>1. p = stubbed(a, d)
    BY <1>2, <1>4, OneID, StubOnce
  <2> QED
    BY <1>2, <1>3, <2>1 DEF drops, stubbed, Package, Field
<1>8. \A f \in File : f \notin DroppedIDs(a, pkgs) /\ f \notin IDsOf
  <2>1. DroppedIDs(a, pkgs) \subseteq IDsOf
    BY <1>2, StubOnce DEF DroppedIDs
  <2> QED
    BY <2>1, NodesAssumption
<1>9. ASSUME NEW f \in Owned(q)
      PROVE  [type |-> ContainsType, from |-> ID(q), to |-> f] \in MovedEdges(a, pkgs, Len(pkgs), base)
  <2> DEFINE e == [type |-> ContainsType, from |-> ID(p), to |-> f]
  <2>1. f \in File /\ f \in Owned(p)
    BY <1>4
  <2>2. e \in base
    BY <1>7, <1>8, <2>1 DEF Outliving, finalizeResults, owningRelationships
  <2>3. Moved(a, pkgs, Len(pkgs), ID(p)) = ID(q)
    BY <1>2, <1>3, OneID DEF Moved
  <2>4. Moved(a, pkgs, Len(pkgs), f) = f
    BY <1>2, <1>8, <2>1 DEF Moved
  <2> HIDE DEF base
  <2>5. e.type = ContainsType /\ e.from = ID(p) /\ e.to = f
    OBVIOUS
  <2> HIDE DEF e
  <2> QED
    BY <2>2, <2>3, <2>4, <2>5 DEF MovedEdges
<1>10. remainingRelationships(a, pkgs, all) = MovedEdges(a, pkgs, Len(pkgs), base)
  <2>1. IDsOf \subseteq Node
    BY DEF Node
  <2>2. pkgs \in Seq(Package)
    BY <1>1
  <2> HIDE DEF all, a
  <2> QED
    BY <1>6, <2>1, <2>2, Followed
<1> QED
  BY <1>9, <1>10 DEF owningRelationships, pkgs

-------------------------------------------------------------------------------
(* The files that packages own.                                                *)

\* The files of a package that are to be described, and the tasks that describe them.
Wanted(c, p) ==
    Locations(p) \cup (IF "PackageFileOwnership" \in c.flags THEN Owned(p) ELSE {})
Describing(c) ==
    IF "Hashers" \in c.flags THEN FileTasks \cap {"digests", "metadata"} ELSE FileTasks \cap {"metadata"}

\* What a file task at a step has found, or is about to find.
Have(step, l, written) ==
    CASE step = "catalog" -> l.files
      [] step = "write" -> l.files \cup l.unknowns
      [] OTHER -> written \cup l.unknowns

\* A package is written with the claims on its files held, and they are next.
ClaimsKept(at, held, P, D) ==
    /\ \A t \in PkgTasks : at[t] \in {"packages", "relationships"} =>
           \A p \in held[t].packages : owningRelationships(p) \subseteq held[t].rels
    /\ at["scope"] = "idle" /\ at[R] = "idle" =>
           \A p \in P : \/ owningRelationships(p) \subseteq D
                        \/ \E t \in PkgTasks : /\ at[t] = "relationships"
                                               /\ owningRelationships(p) \subseteq held[t].rels

\* A file task that has made its selection has every wanted file,
\* unless its cataloger panicked.
FilesKept(c, at, held, P, files) ==
    \A t \in Describing(c) : at[t] \in {"catalog", "write", "report", "done"} =>
        \/ at[t] \in {"report", "done"} /\ held[t].fatal
        \/ \A p \in P : Wanted(c, p) \subseteq Have(at[t], held[t], files[t])

DescribedAt(c, at, held, P, D, files) ==
    /\ DOMAIN files = Artifacts
    /\ "PackageFileOwnership" \in c.flags => ClaimsKept(at, held, P, D)
    /\ c.Selection = "owned" => FilesKept(c, at, held, P, files)

Described ==
    DescribedAt(cfg, pc, local, sbom.packages, DOMAIN sbom.relationships, sbom.files)

LEMMA DescribedPrimed ==
    Described' <=> DescribedAt(cfg', pc', local', sbom'.packages, DOMAIN sbom'.relationships, sbom'.files)
BY DEF Described, DescribedAt, ClaimsKept, FilesKept, Wanted, Describing, Have, owningRelationships,
       Locations, ID, R, Artifacts

LEMMA InitDescribed == Init => Described
<1> SUFFICES ASSUME Init PROVE Described
  OBVIOUS
<1>1. /\ \A t \in Task : pc[t] = "idle"
      /\ sbom.packages = {} /\ DOMAIN sbom.files = Artifacts
  BY DEF Init, NoSbom
<1>2. PkgTasks \subseteq Task /\ Describing(cfg) \subseteq Task
  BY Names DEF Catalogers, Describing
<1> QED
  BY <1>1, <1>2 DEF Described, DescribedAt, ClaimsKept, FilesKept

\* After the catalogers, packages only go, and the files stay.
LEMMA LaterSteps ==
    ASSUME IInv, ScopeStep("scope") \/ FinalStep(R)
    PROVE  sbom'.packages \subseteq sbom.packages /\ sbom'.files = sbom.files
<1> USE Names
<1>1. ASSUME NEW t \in Task, NEW from, NEW to, NEW l, Work(t, from, to, l)
      PROVE  sbom'.packages \subseteq sbom.packages /\ sbom'.files = sbom.files
  BY <1>1, WorkFacts
<1>2. ASSUME NEW t \in Task, NEW from, NEW to, NEW s, Write(t, from, to, s),
             s.packages \subseteq sbom.packages, s.files = sbom.files
      PROVE  sbom'.packages \subseteq sbom.packages /\ sbom'.files = sbom.files
  BY <1>2, WriteFacts
<1>3. /\ \A E : withRelationships(E).packages \subseteq sbom.packages /\ withRelationships(E).files = sbom.files
      /\ \A ids : withoutPackages(ids).packages \subseteq sbom.packages /\ withoutPackages(ids).files = sbom.files
  BY Built
<1>4. CASE ReadScope
  <2>1. PICK l : Work("scope", "read", "delete", l)
    BY <1>4 DEF ReadScope
  <2> QED
    BY <1>1, <2>1
<1>5. CASE DeleteScope
  BY <1>2, <1>3, <1>5 DEF DeleteScope
<1>6. CASE ReadElf
  BY <1>1, <1>6 DEF ReadElf
<1>7. CASE DeleteElf
  BY <1>2, <1>3, <1>7 DEF DeleteElf
<1>8. CASE ReadOverlap
  <2>1. PICK l : Work(R, "overlap", "add overlap", l)
    BY <1>8 DEF ReadOverlap
  <2> QED
    BY <1>1, <2>1
<1>9. CASE AddOverlap \/ WriteDependencies \/ AddDependencies \/ AddSource \/ AddEvidence
  <2>1. PICK from, to, E : Write(R, from, to, withRelationships(E))
    BY <1>9 DEF AddOverlap, WriteDependencies, AddDependencies, AddSource, AddEvidence
  <2> QED
    BY <1>2, <1>3, <2>1
<1>10. CASE ExcludeTurn
  BY <1>10 DEF ExcludeTurn, excludeStep, IInv, Shape
<1>11. CASE EndExclude
  BY <1>2, <1>11 DEF EndExclude
<1>12. CASE ReadDependencies \/ ReadSource \/ ReadEvidence
  <2>1. PICK from, to, l : Work(R, from, to, l)
    BY <1>12 DEF ReadDependencies, ReadSource, ReadEvidence
  <2> QED
    BY <1>1, <2>1
<1> QED
  BY <1>4, <1>5, <1>6, <1>7, <1>8, <1>9, <1>10, <1>11, <1>12
     DEF ScopeStep, FinalStep, FinalizeRelationships

\* Steps of others than the catalogers, and the first and last steps of these.
LEMMA OthersDescribed ==
    ASSUME IInv, Described, UNCHANGED cfg, sbom'.packages \subseteq sbom.packages, sbom'.files = sbom.files,
           \A t \in Catalogers :
               /\ local'[t] = local[t]
               /\ \/ pc'[t] = pc[t]
                  \/ pc[t] = "idle" /\ pc'[t] = firstStep(t)
                  \/ pc[t] = "report" /\ pc'[t] = "done",
           \/ pc'["scope"] # "idle" \/ pc'[R] # "idle"
           \/ pc["scope"] = "idle" /\ pc[R] = "idle" /\ sbom'.relationships = sbom.relationships
    PROVE  Described'
<1> DEFINE D == DOMAIN sbom.relationships
           E == DOMAIN sbom'.relationships
<1>1. DescribedAt(cfg, pc, local, sbom.packages, D, sbom.files)
  BY DEF Described
<1>2. ASSUME ClaimsKept(pc, local, sbom.packages, D) PROVE ClaimsKept(pc', local', sbom'.packages, E)
  <2>1. \A t \in PkgTasks :
            /\ local'[t] = local[t]
            /\ pc'[t] \in {"packages", "relationships"} => pc[t] = pc'[t]
            /\ pc[t] = "relationships" => pc'[t] = pc[t]
    BY FirstSteps DEF Catalogers
  <2>2. ASSUME pc'["scope"] = "idle", pc'[R] = "idle"
        PROVE  pc["scope"] = "idle" /\ pc[R] = "idle" /\ E = D
    BY <2>2
  <2>3. ASSUME pc'["scope"] = "idle", pc'[R] = "idle", NEW p \in sbom'.packages
        PROVE  \/ owningRelationships(p) \subseteq E
               \/ \E t \in PkgTasks : pc'[t] = "relationships" /\ owningRelationships(p) \subseteq local'[t].rels
    BY <1>2, <2>1, <2>2, <2>3 DEF ClaimsKept
  <2>4. ASSUME NEW t \in PkgTasks, pc'[t] \in {"packages", "relationships"}, NEW p \in local'[t].packages
        PROVE  owningRelationships(p) \subseteq local'[t].rels
    BY <1>2, <2>1, <2>4 DEF ClaimsKept
  <2> QED
    BY <2>3, <2>4 DEF ClaimsKept
<1>3. ASSUME FilesKept(cfg, pc, local, sbom.packages, sbom.files)
      PROVE  FilesKept(cfg, pc', local', sbom'.packages, sbom.files)
  <2> SUFFICES ASSUME NEW t \in Describing(cfg), pc'[t] \in {"catalog", "write", "report", "done"},
                      ~(pc'[t] \in {"report", "done"} /\ local'[t].fatal), NEW p \in sbom'.packages
               PROVE  Wanted(cfg, p) \subseteq Have(pc'[t], local'[t], sbom.files[t])
    BY DEF FilesKept
  <2>1. t \in FileTasks
    BY DEF Describing
  <2>2. local'[t] = local[t] /\ (pc'[t] = pc[t] \/ (pc[t] = "report" /\ pc'[t] = "done"))
    BY <2>1, FirstSteps DEF Catalogers
  <2>3. Wanted(cfg, p) \subseteq Have(pc[t], local[t], sbom.files[t])
    BY <1>3, <2>2 DEF FilesKept
  <2>4. Have("report", local[t], sbom.files[t]) = Have("done", local[t], sbom.files[t])
    BY DEF Have
  <2> QED
    BY <2>2, <2>3, <2>4
<1> QED
  BY <1>1, <1>2, <1>3, DescribedPrimed DEF DescribedAt

\* The steps of a package cataloger.
LEMMA PackagesDescribed ==
    ASSUME IInv, Described, NEW t \in PkgTasks,
           Catalog(t) \/ AddPackages(t) \/ AddRelationships(t) \/ Panic(t)
    PROVE  Described'
<1> USE Names
<1> DEFINE P == sbom.packages
           B == sbom.relationships
           D == DOMAIN sbom.relationships
           claims(p) == owningRelationships(p)
<1>0. t \in Task /\ t \in Catalogers /\ t \notin FileTasks /\ t # "scope" /\ t # R
  BY DEF Catalogers
<1>1. DescribedAt(cfg, pc, local, P, D, sbom.files)
  BY DEF Described
<1>2. ASSUME Working(t), cfg.Selection = "owned" PROVE \A u \in Describing(cfg) : pc[u] = "idle" /\ u # t
  BY <1>0, <1>2, Earlier DEF Describing
\* While packages are cataloged, nothing is selected by package.
<1>3. ASSUME Working(t), UNCHANGED cfg, \A u \in Task \ {t} : pc'[u] = pc[u], sbom'.files = sbom.files,
             ClaimsKept(pc, local, P, D) /\ "PackageFileOwnership" \in cfg.flags
                 => ClaimsKept(pc', local', sbom'.packages, DOMAIN sbom'.relationships)
      PROVE  Described'
  <2>1. cfg.Selection = "owned" => FilesKept(cfg, pc', local', sbom'.packages, sbom.files)
    <3>1. Describing(cfg) \subseteq Task
      BY DEF Describing, Catalogers
    <3> QED
      BY <1>2, <1>3, <3>1 DEF FilesKept
  <2> QED
    BY <1>1, <1>3, <2>1, DescribedPrimed DEF DescribedAt
<1>4. CASE Panic(t)
  <2>1. PICK l : Work(t, "catalog", "report", l)
    BY <1>4 DEF Panic
  <2>2. /\ pc[t] = "catalog" /\ pc'[t] = "report" /\ UNCHANGED <<cfg, sbom>>
        /\ \A u \in Task \ {t} : pc'[u] = pc[u] /\ local'[u] = local[u]
    BY <1>0, <2>1, WorkFacts
  <2>3. Working(t)
    BY <1>0, <2>2 DEF Working
  <2>4. ASSUME ClaimsKept(pc, local, P, D) PROVE ClaimsKept(pc', local', P, D)
    BY <1>0, <2>2, <2>4 DEF ClaimsKept, Catalogers
  <2> QED
    BY <1>3, <2>2, <2>3, <2>4
<1>5. CASE Catalog(t)
  <2>1. PICK r \in Results(t) :
            LET all == finalizeResults(r.pkgs, r.rels, "PackageFileOwnership" \in cfg.flags)
            IN Work(t, "catalog", "packages",
                    [Blank EXCEPT !.packages = ToSet(remaining(cfg.Compliance, r.pkgs)),
                                  !.rels = remainingRelationships(cfg.Compliance, r.pkgs, all),
                                  !.unknowns = r.unknowns, !.fatal = r.fatal])
    BY <1>5 DEF Catalog
  <2> DEFINE all == finalizeResults(r.pkgs, r.rels, "PackageFileOwnership" \in cfg.flags)
             left == ToSet(remaining(cfg.Compliance, r.pkgs))
             rels == remainingRelationships(cfg.Compliance, r.pkgs, all)
             l == [Blank EXCEPT !.packages = left, !.rels = rels, !.unknowns = r.unknowns, !.fatal = r.fatal]
  <2>2. Work(t, "catalog", "packages", l)
    BY <2>1
  <2>3. l.packages = left /\ l.rels = rels
    BY DEF Blank
  <2>4. ASSUME "PackageFileOwnership" \in cfg.flags PROVE \A p \in left : claims(p) \subseteq rels
    <3>1. cfg \in Configs
      BY DEF IInv, Shape
    <3>2. ("PackageFileOwnership" \in cfg.flags) = TRUE
      BY <2>4
    <3> QED
      BY <3>1, <3>2, OwnersKept
  <2> HIDE DEF l, left, rels, all
  <2>5. /\ pc[t] = "catalog" /\ pc'[t] = "packages" /\ local'[t] = l /\ UNCHANGED <<cfg, sbom>>
        /\ \A u \in Task \ {t} : pc'[u] = pc[u] /\ local'[u] = local[u]
    BY <1>0, <2>2, WorkFacts
  <2>6. Working(t)
    BY <1>0, <2>5 DEF Working
  <2>7. ASSUME ClaimsKept(pc, local, P, D), "PackageFileOwnership" \in cfg.flags PROVE ClaimsKept(pc', local', P, D)
    <3>1. \A u \in PkgTasks \ {t} : pc'[u] = pc[u] /\ local'[u] = local[u]
      BY <2>5 DEF Catalogers
    <3>2. \A p \in local'[t].packages : claims(p) \subseteq local'[t].rels
      BY <2>3, <2>4, <2>5, <2>7
    <3>3. pc'["scope"] = pc["scope"] /\ pc'[R] = pc[R]
      BY <1>0, <2>5
    <3> QED
      BY <2>5, <2>7, <3>1, <3>2, <3>3 DEF ClaimsKept
  <2> QED
    BY <1>3, <2>5, <2>6, <2>7
<1>6. CASE AddPackages(t)
  <2>1. Write(t, "packages", "relationships", withPackages(local[t].packages))
    BY <1>6 DEF AddPackages
  <2>2. /\ pc[t] = "packages" /\ pc'[t] = "relationships" /\ UNCHANGED <<cfg, local>>
        /\ \A u \in Task \ {t} : pc'[u] = pc[u]
        /\ sbom' = withPackages(local[t].packages)
    BY <1>0, <2>1, WriteFacts
  <2>3. /\ sbom'.packages = P \cup local[t].packages /\ sbom'.relationships = B
        /\ sbom'.files = sbom.files
    BY <2>2, Built
  <2>4. Working(t)
    BY <1>0, <2>2 DEF Working
  <2>5. ASSUME ClaimsKept(pc, local, P, D) PROVE ClaimsKept(pc', local, P \cup local[t].packages, D)
    <3>1. \A u \in PkgTasks \ {t} : pc'[u] = pc[u]
      BY <2>2 DEF Catalogers
    <3>2. pc'["scope"] = pc["scope"] /\ pc'[R] = pc[R]
      BY <1>0, <2>2
    <3>3. \A p \in local[t].packages : claims(p) \subseteq local[t].rels
      BY <2>2, <2>5 DEF ClaimsKept
    <3>4. ASSUME pc'["scope"] = "idle", pc'[R] = "idle", NEW p \in P \cup local[t].packages
          PROVE  \/ claims(p) \subseteq D
                 \/ \E u \in PkgTasks : pc'[u] = "relationships" /\ claims(p) \subseteq local[u].rels
      <4>1. CASE p \in local[t].packages
        BY <2>2, <3>3, <4>1
      <4>2. CASE p \in P
        <5>1. \/ claims(p) \subseteq D
              \/ \E u \in PkgTasks : pc[u] = "relationships" /\ claims(p) \subseteq local[u].rels
          BY <2>5, <3>2, <3>4, <4>2 DEF ClaimsKept
        <5> QED
          BY <2>2, <3>1, <5>1
      <4> QED
        BY <3>4, <4>1, <4>2
    <3>5. \A u \in PkgTasks : pc'[u] \in {"packages", "relationships"} =>
              \A p \in local[u].packages : claims(p) \subseteq local[u].rels
      BY <2>5, <3>1, <3>3 DEF ClaimsKept
    <3> QED
      BY <3>4, <3>5 DEF ClaimsKept
  <2> QED
    BY <1>3, <2>2, <2>3, <2>4, <2>5
<1>7. CASE AddRelationships(t)
  <2>1. Write(t, "relationships", "report", withRelationships(local[t].rels))
    BY <1>7 DEF AddRelationships
  <2>2. /\ pc[t] = "relationships" /\ pc'[t] = "report" /\ UNCHANGED <<cfg, local>>
        /\ \A u \in Task \ {t} : pc'[u] = pc[u]
        /\ sbom' = withRelationships(local[t].rels)
    BY <1>0, <2>1, WriteFacts
  <2>3. /\ sbom'.packages = P /\ sbom'.relationships = B (+) SetToBag(local[t].rels)
        /\ sbom'.files = sbom.files
    BY <2>2, Built
  <2>4. DOMAIN sbom'.relationships = D \cup local[t].rels
    <3> DEFINE E == local[t].rels
    <3>1. sbom'.relationships = B (+) SetToBag(E) /\ D = DOMAIN B
      BY <2>3
    <3> HIDE DEF B, D, E
    <3>2. DOMAIN (B (+) SetToBag(E)) = DOMAIN B \cup E
      BY BagSum
    <3> QED
      BY <3>1, <3>2 DEF E
  <2>5. Working(t)
    BY <1>0, <2>2 DEF Working
  <2>6. ASSUME ClaimsKept(pc, local, P, D) PROVE ClaimsKept(pc', local, P, D \cup local[t].rels)
    <3>1. \A u \in PkgTasks \ {t} : pc'[u] = pc[u]
      BY <2>2 DEF Catalogers
    <3>2. pc'["scope"] = pc["scope"] /\ pc'[R] = pc[R]
      BY <1>0, <2>2
    <3>3. ASSUME pc'["scope"] = "idle", pc'[R] = "idle", NEW p \in P
          PROVE  \/ claims(p) \subseteq D \cup local[t].rels
                 \/ \E u \in PkgTasks : pc'[u] = "relationships" /\ claims(p) \subseteq local[u].rels
      <4>1. \/ claims(p) \subseteq D
            \/ \E u \in PkgTasks : pc[u] = "relationships" /\ claims(p) \subseteq local[u].rels
        BY <2>6, <3>2, <3>3 DEF ClaimsKept
      <4> QED
        BY <3>1, <4>1
    <3>4. \A u \in PkgTasks : pc'[u] \in {"packages", "relationships"} =>
              \A p \in local[u].packages : claims(p) \subseteq local[u].rels
      BY <2>2, <2>6, <3>1 DEF ClaimsKept
    <3> QED
      BY <3>3, <3>4 DEF ClaimsKept
  <2> QED
    BY <1>3, <2>2, <2>3, <2>4, <2>5, <2>6
<1> QED
  BY <1>4, <1>5, <1>6, <1>7

\* Once the packages are written, the selection holds the files they are to have.
LEMMA Selected ==
    ASSUME IInv, Described, cfg.Selection = "owned", NEW t \in FileTasks, Working(t), NEW p \in sbom.packages
    PROVE  Wanted(cfg, p) \subseteq ownedCoordinates
<1> USE Names
<1>1. pc["scope"] = "idle" /\ pc[R] = "idle" /\ \A u \in PkgTasks : pc[u] = "done"
  BY Earlier DEF Catalogers, Working
<1>2. ASSUME "PackageFileOwnership" \in cfg.flags, NEW f \in Owned(p) PROVE f \in ownedCoordinates
  <2> DEFINE e == [type |-> ContainsType, from |-> ID(p), to |-> f]
             owners == {g \in BagToSet(sbom.relationships) :
                            /\ g.type = ContainsType
                            /\ g.from \notin File \cup Sources /\ g.to \in File}
             lie == UNION {Locations(q) : q \in sbom.packages}
  <2>1. owningRelationships(p) \subseteq DOMAIN sbom.relationships
    BY <1>1, <1>2 DEF Described, DescribedAt, ClaimsKept
  <2>2. e \in BagToSet(sbom.relationships)
    BY <1>2, <2>1 DEF owningRelationships, BagToSet
  <2>3. p \in Package
    BY DEF IInv, Shape
  <2>4. f \in File /\ ID(p) \notin File \cup Sources
    BY <1>2, <2>3, FilesAssumption, NodesAssumption
  <2>5. e \in owners /\ e.to = f
    BY <2>2, <2>4
  <2>6. f \in {x.to : x \in owners}
    BY <2>5
  <2>7. ownedCoordinates = lie \cup {x.to : x \in owners}
    BY Zenon DEF ownedCoordinates
  <2> HIDE DEF owners, lie
  <2> QED
    BY <2>6, <2>7
<1>3. Locations(p) \subseteq ownedCoordinates
  BY DEF ownedCoordinates
<1> QED
  BY <1>2, <1>3 DEF Wanted

\* The steps of a file cataloger.
LEMMA FilesDescribed ==
    ASSUME IInv, Described, NEW t \in FileTasks,
           Select(t) \/ CatalogFiles(t) \/ WriteFiles(t) \/ Panic(t)
    PROVE  Described'
<1> USE Names
<1> DEFINE P == sbom.packages
           D == DOMAIN sbom.relationships
<1>0. t \in Task /\ t \in Catalogers /\ t \notin PkgTasks /\ t # "scope" /\ t # R /\ t \in Artifacts
  BY TasksAssumption DEF Catalogers
<1>1. DescribedAt(cfg, pc, local, P, D, sbom.files)
  BY DEF Described
\* The other tasks keep what they have.
<1>2. ASSUME Ordinary(t), sbom'.packages = P, sbom'.relationships = sbom.relationships,
             DOMAIN sbom'.files = Artifacts, \A u \in Artifacts \ {t} : sbom'.files[u] = sbom.files[u],
             t \in Describing(cfg) /\ cfg.Selection = "owned" /\ pc'[t] \in {"catalog", "write", "report", "done"} =>
                 \/ pc'[t] = "report" /\ local'[t].fatal
                 \/ \A p \in P : Wanted(cfg, p) \subseteq Have(pc'[t], local'[t], sbom'.files[t])
      PROVE  Described'
  <2>1. \A u \in Task \ {t} : pc'[u] = pc[u] /\ local'[u] = local[u]
    BY <1>2 DEF Ordinary
  <2>2. ASSUME ClaimsKept(pc, local, P, D) PROVE ClaimsKept(pc', local', P, D)
    <3>1. \A u \in PkgTasks : pc'[u] = pc[u] /\ local'[u] = local[u]
      BY <1>0, <2>1 DEF Catalogers
    <3>2. pc'["scope"] = pc["scope"] /\ pc'[R] = pc[R]
      BY <1>0, <2>1
    <3> QED
      BY <2>2, <3>1, <3>2 DEF ClaimsKept
  <2>3. ASSUME cfg.Selection = "owned", FilesKept(cfg, pc, local, P, sbom.files)
        PROVE  FilesKept(cfg, pc', local', P, sbom'.files)
    <3>1. \A u \in Describing(cfg) \ {t} :
              pc'[u] = pc[u] /\ local'[u] = local[u] /\ sbom'.files[u] = sbom.files[u]
      BY <1>2, <2>1, TasksAssumption DEF Describing, Catalogers
    <3> QED
      BY <1>2, <2>3, <3>1 DEF FilesKept
  <2>4. UNCHANGED cfg
    BY <1>2 DEF Ordinary
  <2> QED
    BY <1>1, <1>2, <2>2, <2>3, <2>4, DescribedPrimed DEF DescribedAt
<1>3. ASSUME NEW from, NEW to, NEW l, Work(t, from, to, l), {from, to} \cap {"idle", "done"} = {},
             t \in Describing(cfg) /\ cfg.Selection = "owned" /\ to \in {"catalog", "write", "report", "done"} =>
                 (to = "report" /\ l.fatal) \/ \A p \in P : Wanted(cfg, p) \subseteq Have(to, l, sbom.files[t])
      PROVE  Described'
  <2>1. Ordinary(t) /\ local'[t] = l /\ pc'[t] = to /\ sbom' = sbom
    BY <1>0, <1>3, WorkFacts, WorkOrdinary
  <2> QED
    BY <1>1, <1>2, <1>3, <2>1 DEF DescribedAt
<1>4. CASE Panic(t)
  <2>1. Work(t, "catalog", "report", [Blank EXCEPT !.fatal = TRUE])
    BY <1>4 DEF Panic
  <2>2. [Blank EXCEPT !.fatal = TRUE].fatal
    BY DEF Blank
  <2> QED
    BY <1>3, <2>1, <2>2
<1>5. CASE Select(t)
  <2> DEFINE owned == t \in {"digests", "metadata"} /\ cfg.Selection = "owned"
             files == IF owned THEN ownedCoordinates ELSE Candidates[t]
             l == [Blank EXCEPT !.files = files]
  <2>1. \/ (Skips(t) \/ (owned /\ files = {})) /\ Work(t, "select", "report", Blank)
        \/ Work(t, "select", "catalog", l)
    BY <1>5 DEF Select
  <2>2. Working(t)
    BY <1>0, <2>1, WorkFacts DEF Working
  <2>3. ASSUME t \in Describing(cfg), cfg.Selection = "owned"
        PROVE  /\ owned /\ ~Skips(t) /\ files = ownedCoordinates
               /\ \A p \in P : Wanted(cfg, p) \subseteq files
    <3>1. t \in {"digests", "metadata"} /\ (t = "digests" => "Hashers" \in cfg.flags)
      BY <2>3 DEF Describing
    <3>2. owned /\ files = ownedCoordinates
      BY <2>3, <3>1
    <3>3. ~Skips(t)
      BY <2>3, <3>1 DEF Skips
    <3>4. \A p \in P : Wanted(cfg, p) \subseteq ownedCoordinates
      BY <2>2, <2>3, Selected
    <3> QED
      BY <3>2, <3>3, <3>4
  <2>4. l.files = files
    BY DEF Blank
  <2> HIDE DEF owned, files, l
  <2>5. CASE (Skips(t) \/ (owned /\ files = {})) /\ Work(t, "select", "report", Blank)
    <3>1. ASSUME t \in Describing(cfg), cfg.Selection = "owned"
          PROVE  \A p \in P : Wanted(cfg, p) \subseteq Have("report", Blank, sbom.files[t])
      BY <2>3, <2>5, <3>1
    <3> QED
      BY <1>3, <2>5, <3>1
  <2>6. CASE Work(t, "select", "catalog", l)
    <3>1. Have("catalog", l, sbom.files[t]) = files
      BY <2>4 DEF Have
    <3> QED
      BY <1>3, <2>3, <2>6, <3>1
  <2> QED
    BY <2>1, <2>5, <2>6
\* What the task had is what it has now.
<1>6. ASSUME NEW step \in {"catalog", "write"}, pc[t] = step, t \in Describing(cfg), cfg.Selection = "owned"
      PROVE  \A p \in P : Wanted(cfg, p) \subseteq Have(step, local[t], sbom.files[t])
  BY <1>1, <1>6 DEF DescribedAt, FilesKept
<1>7. CASE CatalogFiles(t)
  <2>1. PICK bad \in SUBSET (local[t].files \cap Unreadable) :
            Work(t, "catalog", "write", [Blank EXCEPT !.files = local[t].files \ bad, !.unknowns = bad])
    BY <1>7 DEF CatalogFiles
  <2> DEFINE l == [Blank EXCEPT !.files = local[t].files \ bad, !.unknowns = bad]
  <2>2. l.files = local[t].files \ bad /\ l.unknowns = bad
    BY DEF Blank
  <2>3. Work(t, "catalog", "write", l)
    BY <2>1
  <2> HIDE DEF l
  <2>4. Have("write", l, sbom.files[t]) = local[t].files
    BY <2>1, <2>2 DEF Have
  <2>5. Have("catalog", local[t], sbom.files[t]) = local[t].files
    BY DEF Have
  <2>6. pc[t] = "catalog"
    BY <1>0, <2>3, WorkFacts
  <2> QED
    BY <1>3, <1>6, <2>3, <2>4, <2>5, <2>6
<1>8. CASE WriteFiles(t)
  <2> DEFINE s == [sbom EXCEPT !.files[t] = local[t].files]
  <2>1. Write(t, "write", "report", s)
    BY <1>8 DEF WriteFiles
  <2>2. DOMAIN sbom.files = Artifacts
    BY <1>1 DEF DescribedAt
  <2>3. /\ DOMAIN s = DOMAIN sbom /\ s.unknowns = sbom.unknowns /\ s.distribution = sbom.distribution
        /\ s.packages = P /\ s.relationships = sbom.relationships
        /\ DOMAIN s.files = Artifacts /\ s.files[t] = local[t].files
        /\ \A u \in Artifacts \ {t} : s.files[u] = sbom.files[u]
    BY <1>0, <2>2 DEF IInv, Shape
  <2> HIDE DEF s
  <2>4. Ordinary(t) /\ local' = local /\ pc[t] = "write" /\ pc'[t] = "report" /\ sbom' = s
    BY <1>0, <2>1, <2>3, WriteFacts, WriteOrdinary
  <2>5. Have("report", local[t], s.files[t]) = Have("write", local[t], sbom.files[t])
    BY <2>3 DEF Have
  <2> QED
    BY <1>2, <1>6, <2>3, <2>4, <2>5
<1> QED
  BY <1>4, <1>5, <1>7, <1>8

LEMMA NextDescribed == ASSUME IInv, Described, [Next]_vars PROVE Described'
<1> USE Names
<1>1. CASE EndGroup
  <2>1. UNCHANGED <<cfg, pc, local, sbom>>
    BY <1>1, LoopFacts
  <2> QED
    BY <2>1 DEF Described, DescribedAt, ClaimsKept, FilesKept
<1>2. CASE UNCHANGED vars
  BY <1>2 DEF vars, Described, DescribedAt, ClaimsKept, FilesKept
<1>3. ASSUME NEW t \in Task, Start(t) PROVE Described'
  <2>1. /\ pc[t] = "idle" /\ pc'[t] = firstStep(t) /\ \A u \in Task \ {t} : pc'[u] = pc[u]
        /\ UNCHANGED <<cfg, local, sbom>>
    BY <1>3, LoopFacts
  <2>2. firstStep("scope") # "idle" /\ firstStep(R) # "idle"
    BY FirstSteps
  <2>3. \/ pc'["scope"] # "idle" \/ pc'[R] # "idle"
        \/ pc["scope"] = "idle" /\ pc[R] = "idle" /\ sbom'.relationships = sbom.relationships
    BY <2>1, <2>2
  <2> QED
    BY <2>1, <2>3, OthersDescribed
<1>4. ASSUME NEW t \in Task, Report(t) PROVE Described'
  <2>1. /\ pc[t] = "report" /\ pc'[t] = "done" /\ \A u \in Task \ {t} : pc'[u] = pc[u]
        /\ UNCHANGED <<cfg, local>> /\ sbom'.packages = sbom.packages /\ sbom'.files = sbom.files
        /\ sbom'.relationships = sbom.relationships
    BY <1>4, LoopFacts
  <2> QED
    BY <2>1, OthersDescribed
<1>5. CASE Environment \/ LabelUnknowns \/ DetectFeatures
  <2>1. /\ \A u \in Catalogers \cup {"scope", R} : pc'[u] = pc[u]
        /\ UNCHANGED <<cfg, local>>
    BY <1>5, OtherFacts DEF Catalogers
  <2>2. sbom'.packages = sbom.packages /\ sbom'.files = sbom.files /\ sbom'.relationships = sbom.relationships
    BY <1>5, OtherFacts DEF finalizeUnknowns, IInv, Shape
  <2> QED
    BY <2>1, <2>2, OthersDescribed
<1>6. ASSUME NEW t \in Catalogers \cup {"scope", R}, Acts(t) PROVE Described'
  <2>1. CASE t \in {"scope", R}
    <3>1. ScopeStep("scope") \/ FinalStep(R)
      BY <1>6, <2>1 DEF Acts, PackageStep, FileStep, PanicStep, ScopeStep, FinalStep, Catalogers
    <3>2. Ordinary(t)
      BY <1>6, Ordinaries
    <3>3. /\ \A u \in Catalogers : pc'[u] = pc[u] /\ local'[u] = local[u]
          /\ UNCHANGED cfg /\ pc'[t] # "idle"
      BY <2>1, <3>2 DEF Ordinary
    <3> QED
      BY <2>1, <3>1, <3>3, LaterSteps, OthersDescribed
  <2>2. CASE t \in PkgTasks
    <3>1. Catalog(t) \/ AddPackages(t) \/ AddRelationships(t) \/ Panic(t)
      BY <1>6, <2>2 DEF Acts, PackageStep, FileStep, PanicStep, ScopeStep, FinalStep, Catalogers
    <3> QED
      BY <2>2, <3>1, PackagesDescribed
  <2>3. CASE t \in FileTasks
    <3>1. Select(t) \/ CatalogFiles(t) \/ WriteFiles(t) \/ Panic(t)
      BY <1>6, <2>3 DEF Acts, PackageStep, FileStep, PanicStep, ScopeStep, FinalStep, Catalogers
    <3> QED
      BY <2>3, <3>1, FilesDescribed
  <2> QED
    BY <1>6, <2>1, <2>2, <2>3 DEF Catalogers
<1> QED
  BY <1>1, <1>2, <1>3, <1>4, <1>5, <1>6, Kinds

\* With files selected by package, whatever the catalogers find and whichever runs when,
\* each file that a package of the result lies in or owns is described or was reported
\* unreadable (coordinatesForSelection, internal/task/file_tasks.go).
THEOREM OwnedFilesFound == Spec => []OwnedFilesCataloged
<1> DEFINE Inv == IInv /\ Described
<1>1. Init => Inv
  BY InitIInv, InitDescribed
<1>2. Inv /\ [Next]_vars => Inv'
  BY NextIInv, NextDescribed
<1>3. Inv => OwnedFilesCataloged
  <2> SUFFICES ASSUME IInv, Described, Succeeded, cfg.Selection = "owned",
                      NEW t \in FileTasks \cap {"digests", "metadata"}, ~Skips(t), NEW p \in sbom.packages
               PROVE  Wanted(cfg, p) \subseteq sbom.files[t] \cup local[t].unknowns
    BY DEF OwnedFilesCataloged, Wanted
  <2>1. pc[t] = "done" /\ ~local[t].fatal
    BY Finished DEF Catalogers
  <2>2. t \in Describing(cfg)
    BY DEF Skips, Describing
  <2>3. Wanted(cfg, p) \subseteq Have("done", local[t], sbom.files[t])
    BY <2>1, <2>2 DEF Described, DescribedAt, FilesKept
  <2> QED
    BY <2>3 DEF Have
<1> QED
  BY <1>1, <1>2, <1>3, PTL DEF Spec
===============================================================================
