---------------------------- MODULE ComponentProofs -----------------------------
(* Proofs about the components that work for themselves, whatever their inputs:   *)
(* the temporary directory, what the tasks make of packages and relationships,    *)
(* the packages of .NET applications, the selection of catalogers, the convert    *)
(* command and the views of an image.                                             *)
EXTENDS TmpDir, MCCompliance, MCSbomAnalysis, MCDotnet, CatalogerSelection, Convert,
        MCImageResolvers, TaskProofs

--------------------------------------------------------------------------------
(* The temporary directory, for any number of tasks and of cleaners.          *)

\* Whoever makes the directory is alone in it, and t.root is set once it is made.
OneMaker ==
    /\ known <=> init = "done"
    /\ directory => known
    /\ \A t \in Tasks : pc[t] = "mkdir" => init = "running"
    /\ \A t, u \in Tasks : pc[t] = "mkdir" /\ pc[u] = "mkdir" => t = u

\* What a cleaner has done by the time it is where it is.
CleanersKnow ==
    /\ removed => known
    /\ once # "new" => cleaned
    /\ \A c \in Cleaners :
        /\ pc[c] \in {"look", "sweep", "rmdir"} => once # "new"
        /\ pc[c] \in {"sweep", "rmdir"} => known
        /\ pc[c] = "returned" => once = "done"

\* A task that called late finds the directory cleaned.
LateFindCleaned ==
    \A t \in late : cleaned /\ pc[t] \in {"path", "mkdir", "check", "error"}

\* Cleanup after the tasks: none of them makes another step, and the directory is
\* empty once it was swept and gone once Cleanup returned.
JoinedInOrder ==
    joined =>
        /\ once # "new" => \E c \in Cleaners : pc[c] # "idle"
        /\ (\E c \in Cleaners : pc[c] # "idle") => \A t \in Tasks : pc[t] \in Ended
        /\ (\E c \in Cleaners : pc[c] = "rmdir") => entries = {}
        /\ once = "done" /\ kind = "root" => ~directory

IInv ==
    /\ TypeOK /\ RemovedForGood
    /\ OneMaker /\ CleanersKnow /\ LateFindCleaned /\ JoinedInOrder

-------------------------------------------------------------------------------
LEMMA InitIInv == Init => IInv
BY TmpDirAssumption
   DEF Init, IInv, TypeOK, TaskPC, CleanerPC, Ended, RemovedForGood,
       OneMaker, CleanersKnow, LateFindCleaned, JoinedInOrder

LEMMA CallNewIInv ==
    ASSUME IInv, NEW t \in Tasks, CallNew(t)
    PROVE  IInv'
<1> USE TmpDirAssumption DEF CallNew, Goto, TaskPC, CleanerPC, Ended
<1>1. TypeOK'
  BY DEF IInv, TypeOK
<1>2. RemovedForGood'
  BY DEF IInv, RemovedForGood
<1>3. OneMaker'
  BY DEF IInv, OneMaker
<1>4. CleanersKnow'
  BY DEF IInv, CleanersKnow
<1>5. LateFindCleaned'
  BY DEF IInv, TypeOK, LateFindCleaned, CleanersKnow
<1>6. JoinedInOrder'
  BY DEF IInv, JoinedInOrder
<1> QED  BY <1>1, <1>2, <1>3, <1>4, <1>5, <1>6 DEF IInv

LEMMA EnterInitIInv ==
    ASSUME IInv, NEW t \in Tasks, EnterInit(t)
    PROVE  IInv'
<1> USE TmpDirAssumption DEF EnterInit, Goto, TaskPC, CleanerPC, Ended
<1>1. TypeOK'
  BY DEF IInv, TypeOK
<1>2. RemovedForGood'
  BY DEF IInv, RemovedForGood
<1>3. OneMaker'
  BY DEF IInv, TypeOK, OneMaker
<1>4. CleanersKnow'
  BY DEF IInv, TypeOK, CleanersKnow
<1>5. LateFindCleaned'
  BY DEF IInv, TypeOK, LateFindCleaned
<1>6. JoinedInOrder'
  BY DEF IInv, TypeOK, JoinedInOrder
<1> QED  BY <1>1, <1>2, <1>3, <1>4, <1>5, <1>6 DEF IInv

LEMMA MakeRootIInv ==
    ASSUME IInv, NEW t \in Tasks, MakeRoot(t)
    PROVE  IInv'
<1> USE TmpDirAssumption DEF MakeRoot, Goto, TaskPC, CleanerPC, Ended
<1>1. TypeOK'
  BY DEF IInv, TypeOK
<1>2. RemovedForGood'
  BY DEF IInv, RemovedForGood, OneMaker, CleanersKnow
<1>3. OneMaker'
  BY DEF IInv, TypeOK, OneMaker
<1>4. CleanersKnow'
  BY DEF IInv, CleanersKnow
<1>5. LateFindCleaned'
  BY DEF IInv, LateFindCleaned
<1>6. JoinedInOrder'
  BY DEF IInv, JoinedInOrder
<1> QED  BY <1>1, <1>2, <1>3, <1>4, <1>5, <1>6 DEF IInv

LEMMA CheckIInv ==
    ASSUME IInv, NEW t \in Tasks, Check(t)
    PROVE  IInv'
<1> USE TmpDirAssumption DEF Check, Goto, TaskPC, CleanerPC, Ended
<1>1. TypeOK'
  BY DEF IInv, TypeOK
<1>2. RemovedForGood'
  BY DEF IInv, RemovedForGood
<1>3. OneMaker'
  BY DEF IInv, OneMaker
<1>4. CleanersKnow'
  BY DEF IInv, CleanersKnow
<1>5. LateFindCleaned'
  BY DEF IInv, LateFindCleaned
<1>6. JoinedInOrder'
  BY DEF IInv, JoinedInOrder
<1> QED  BY <1>1, <1>2, <1>3, <1>4, <1>5, <1>6 DEF IInv

LEMMA CreateIInv ==
    ASSUME IInv, NEW t \in Tasks, Create(t)
    PROVE  IInv'
<1> USE TmpDirAssumption DEF Create, Goto, TaskPC, CleanerPC, Ended
<1>1. TypeOK'
  BY DEF IInv, TypeOK
<1>2. RemovedForGood'
  BY DEF IInv, RemovedForGood
<1>3. OneMaker'
  BY DEF IInv, TypeOK, OneMaker
<1>4. CleanersKnow'
  BY DEF IInv, TypeOK, CleanersKnow
<1>5. LateFindCleaned'
  BY DEF IInv, TypeOK, LateFindCleaned
<1>6. JoinedInOrder'
  BY DEF IInv, TypeOK, JoinedInOrder
<1> QED  BY <1>1, <1>2, <1>3, <1>4, <1>5, <1>6 DEF IInv

LEMMA ReleaseIInv ==
    ASSUME IInv, NEW t \in Tasks, Release(t)
    PROVE  IInv'
<1> USE TmpDirAssumption DEF Release, Goto, TaskPC, CleanerPC, Ended
<1>1. TypeOK'
  BY DEF IInv, TypeOK
<1>2. RemovedForGood'
  BY DEF IInv, RemovedForGood
<1>3. OneMaker'
  BY DEF IInv, TypeOK, OneMaker
<1>4. CleanersKnow'
  BY DEF IInv, TypeOK, CleanersKnow
<1>5. LateFindCleaned'
  BY DEF IInv, TypeOK, LateFindCleaned
<1>6. JoinedInOrder'
  BY DEF IInv, TypeOK, JoinedInOrder
<1> QED  BY <1>1, <1>2, <1>3, <1>4, <1>5, <1>6 DEF IInv

LEMMA CallCleanupIInv ==
    ASSUME IInv, NEW c \in Cleaners, CallCleanup(c)
    PROVE  IInv'
<1> USE TmpDirAssumption DEF CallCleanup, Goto, TaskPC, CleanerPC, Ended
<1>1. TypeOK'
  BY DEF IInv, TypeOK
<1>2. RemovedForGood'
  BY DEF IInv, RemovedForGood
<1>3. OneMaker'
  BY DEF IInv, OneMaker
<1>4. CleanersKnow'
  BY DEF IInv, CleanersKnow
<1>5. LateFindCleaned'
  BY DEF IInv, LateFindCleaned
<1>6. JoinedInOrder'
  BY DEF IInv, JoinedInOrder
<1> QED  BY <1>1, <1>2, <1>3, <1>4, <1>5, <1>6 DEF IInv

LEMMA EnterCleanupIInv ==
    ASSUME IInv, NEW c \in Cleaners, EnterCleanup(c)
    PROVE  IInv'
<1> USE TmpDirAssumption DEF EnterCleanup, Goto, TaskPC, CleanerPC, Ended
<1>1. TypeOK'
  BY DEF IInv, TypeOK
<1>2. RemovedForGood'
  BY DEF IInv, RemovedForGood
<1>3. OneMaker'
  BY DEF IInv, TypeOK, OneMaker
<1>4. CleanersKnow'
  BY DEF IInv, TypeOK, CleanersKnow
<1>5. LateFindCleaned'
  BY DEF IInv, TypeOK, LateFindCleaned
<1>6. JoinedInOrder'
  BY DEF IInv, TypeOK, JoinedInOrder
<1> QED  BY <1>1, <1>2, <1>3, <1>4, <1>5, <1>6 DEF IInv

LEMMA LookIInv ==
    ASSUME IInv, NEW c \in Cleaners, Look(c)
    PROVE  IInv'
<1> USE TmpDirAssumption DEF Look, Goto, TaskPC, CleanerPC, Ended, TasksEnded
<1>1. TypeOK'
  BY DEF IInv, TypeOK
<1>2. RemovedForGood'
  BY DEF IInv, RemovedForGood
<1>3. OneMaker'
  BY DEF IInv, TypeOK, OneMaker
<1>4. CleanersKnow'
  BY DEF IInv, TypeOK, CleanersKnow
<1>5. LateFindCleaned'
  BY DEF IInv, TypeOK, LateFindCleaned
<1>6. JoinedInOrder'
  BY DEF IInv, TypeOK, JoinedInOrder, OneMaker
<1> QED  BY <1>1, <1>2, <1>3, <1>4, <1>5, <1>6 DEF IInv

LEMMA SweepIInv ==
    ASSUME IInv, NEW c \in Cleaners, Sweep(c)
    PROVE  IInv'
<1> USE TmpDirAssumption DEF Sweep, Goto, TaskPC, CleanerPC, Ended
<1>1. TypeOK'
  BY DEF IInv, TypeOK
<1>2. RemovedForGood'
  BY DEF IInv, RemovedForGood
<1>3. OneMaker'
  BY DEF IInv, OneMaker
<1>4. CleanersKnow'
  BY DEF IInv, CleanersKnow
<1>5. LateFindCleaned'
  BY DEF IInv, LateFindCleaned
<1>6. JoinedInOrder'
  BY DEF IInv, JoinedInOrder
<1> QED  BY <1>1, <1>2, <1>3, <1>4, <1>5, <1>6 DEF IInv

LEMMA RemoveRootIInv ==
    ASSUME IInv, NEW c \in Cleaners, RemoveRoot(c)
    PROVE  IInv'
<1> USE TmpDirAssumption DEF RemoveRoot, Goto, TaskPC, CleanerPC, Ended
<1>1. TypeOK'
  BY DEF IInv, TypeOK
<1>2. RemovedForGood'
  BY DEF IInv, RemovedForGood
<1>3. OneMaker'
  BY DEF IInv, TypeOK, OneMaker
<1>4. CleanersKnow'
  BY DEF IInv, CleanersKnow
<1>5. LateFindCleaned'
  BY DEF IInv, LateFindCleaned
<1>6. JoinedInOrder'
  BY DEF IInv, TypeOK, JoinedInOrder
<1> QED  BY <1>1, <1>2, <1>3, <1>4, <1>5, <1>6 DEF IInv

LEMMA NextIInv == IInv /\ [Next]_vars => IInv'
<1> SUFFICES ASSUME IInv, [Next]_vars PROVE IInv'
    OBVIOUS
<1>1. ASSUME NEW t \in Tasks, New(t) PROVE IInv'
  BY <1>1, CallNewIInv, EnterInitIInv, MakeRootIInv, CheckIInv, CreateIInv, ReleaseIInv
     DEF New
<1>2. ASSUME NEW c \in Cleaners, Cleanup(c) PROVE IInv'
  BY <1>2, CallCleanupIInv, EnterCleanupIInv, LookIInv, SweepIInv, RemoveRootIInv
     DEF Cleanup
<1>3. ASSUME UNCHANGED vars PROVE IInv'
  BY <1>3 DEF vars, IInv, TypeOK, RemovedForGood, OneMaker, CleanersKnow,
              LateFindCleaned, JoinedInOrder
<1> QED  BY <1>1, <1>2, <1>3 DEF Next

LEMMA IInvAlways == Spec => []IInv
BY InitIInv, NextIInv, PTL DEF Spec

-------------------------------------------------------------------------------
\* The state of the directory and of its callers is always of its type, and entries
\* only lie in a directory that exists.
THEOREM TmpDirTyped == Spec => []TypeOK
<1>1. IInv => TypeOK
  BY DEF IInv
<1> QED  BY <1>1, IInvAlways, PTL

\* A directory that Cleanup reported as removed never comes back, however many tasks
\* were about to create entries in it (internal/tmpdir/tmpdir.go, Cleanup and path).
THEOREM TmpDirRemovedForGood == Spec => []RemovedForGood
<1>1. IInv => RemovedForGood
  BY DEF IInv
<1> QED  BY <1>1, IInvAlways, PTL

\* A task that calls after a Cleanup returned ends with an error.
THEOREM TmpDirLateCallsFail == Spec => []LateCallsFail
<1>1. IInv => LateCallsFail
  BY DEF IInv, LateFindCleaned, LateCallsFail
<1> QED  BY <1>1, IInvAlways, PTL

\* Cleanup called when every task has ended, as CreateSBOM calls it, leaves nothing.
THEOREM TmpDirNothingLeft == Spec => []NothingLeft
<1>1. IInv => NothingLeft
  BY DEF IInv, TypeOK, CleanersKnow, JoinedInOrder, NothingLeft
<1> QED  BY <1>1, IInvAlways, PTL

--------------------------------------------------------------------------------
(* Compliance.                                                                *)

\* What the task made of its results, once it has.
ComplianceInv ==
    /\ pkgs \in Seq(Package)
    /\ rels \in SUBSET Among(pkgs)
    /\ \/ result = <<>>
       \/ \E owning \in BOOLEAN :
            LET all == finalizeResults(pkgs, rels, owning)
            IN result = <<[pkgs |-> remaining(cfg, pkgs), input |-> all,
                           rels |-> remainingRelationships(cfg, pkgs, all)]>>

\* Following a package is what moves it.
LEMMA FollowMoves ==
    ASSUME pkgs \in Seq(Package)
    PROVE  \A id : Follow(id) = Moved(cfg, pkgs, Len(pkgs), id)
<1> SUFFICES ASSUME NEW id PROVE Follow(id) = Moved(cfg, pkgs, Len(pkgs), id)
  OBVIOUS
<1>1. /\ DOMAIN pkgs = 1 .. Len(pkgs) /\ ToSet(pkgs) \subseteq Package
      /\ \A p \in ToSet(pkgs) : \E j \in 1 .. Len(pkgs) : pkgs[j] = p
      /\ \A j \in 1 .. Len(pkgs) : pkgs[j] \in ToSet(pkgs)
  BY LenProperties, ElementOfSeq DEF ToSet
<1>2. id \in PkgIDs(pkgs) <=> \E j \in 1 .. Len(pkgs) : ID(pkgs[j]) = id
  BY <1>1 DEF PkgIDs
<1>3. CASE id \in PkgIDs(pkgs)
  <2>1. PICK p \in ToSet(pkgs) : ID(p) = id
    BY <1>3 DEF PkgIDs
  <2>2. (CHOOSE q \in ToSet(pkgs) : ID(q) = id) = p /\ (CHOOSE q \in Package : ID(q) = id) = p
    BY <1>1, <2>1, OneID
  <2>3. Follow(id) = ID(stubbed(cfg, p))
    BY <1>3, <2>2 DEF Follow
  <2>4. Moved(cfg, pkgs, Len(pkgs), id) = ID(stubbed(cfg, p))
    BY <1>2, <1>3, <2>2 DEF Moved
  <2> QED
    BY <2>3, <2>4
<1> QED
  BY <1>2, <1>3 DEF Follow, Moved

\* Whatever a cataloger returns and whatever the rules, every relationship between what
\* compliance keeps follows the packages to their new fingerprints, and no other is left
\* (package_task_factory.go: applyCompliance).
THEOREM RelationshipsFollowPackages == ComplianceSpec => []RelationshipsFollow
<1>1. ComplianceInit => ComplianceInv
  <2> SUFFICES ASSUME ComplianceInit PROVE ComplianceInv
    OBVIOUS
  <2>1. PICK n \in 0 .. MaxPkgs : pkgs \in [1 .. n -> CompliancePackages]
    BY DEF ComplianceInit
  <2>2. pkgs \in Seq(Package)
    BY <2>1, ComplianceAssumption, SeqDef
  <2> QED
    BY <2>2 DEF ComplianceInit, ComplianceInv
<1>2. ComplianceInv /\ [Process]_complianceVars => ComplianceInv'
  <2> SUFFICES ASSUME ComplianceInv, [Process]_complianceVars PROVE ComplianceInv'
    OBVIOUS
  <2>1. CASE Process
    <3>1. UNCHANGED <<cfg, pkgs, rels>>
      BY <2>1 DEF Process
    <3>2. (pkgs \in Seq(Package) /\ rels \in SUBSET Among(pkgs))'
      BY <3>1 DEF ComplianceInv, Among, PkgIDs
    <3>3. PICK owning \in BOOLEAN :
              LET all == finalizeResults(pkgs, rels, owning)
              IN result' = <<[pkgs |-> remaining(cfg, pkgs), input |-> all,
                              rels |-> remainingRelationships(cfg, pkgs, all)]>>
      BY <2>1 DEF Process
    <3> QED
      BY <3>1, <3>2, <3>3 DEF ComplianceInv
  <2>2. CASE UNCHANGED complianceVars
    BY <2>2 DEF ComplianceInv, complianceVars, Among, PkgIDs
  <2> QED
    BY <2>1, <2>2
<1>3. ComplianceInv => RelationshipsFollow
  <2> SUFFICES ASSUME ComplianceInv, Processed, DroppedAndStubbed = {}
               PROVE  Output.rels =
                          {[type |-> e.type, from |-> Follow(e.from), to |-> Follow(e.to)] :
                              e \in {f \in Output.input : {f.from, f.to} \cap {ID(p) : p \in Dropped} = {}}}
    BY DEF RelationshipsFollow
  <2> DEFINE N == {ID(p) : p \in Package} \cup RelatedFiles \cup UNION {Owned(p) : p \in Package}
             T == {ContainsType}
             n == Len(pkgs)
  <2>1. PICK owning \in BOOLEAN :
            result = <<[pkgs |-> remaining(cfg, pkgs), input |-> finalizeResults(pkgs, rels, owning),
                        rels |-> remainingRelationships(cfg, pkgs, finalizeResults(pkgs, rels, owning))]>>
    BY DEF ComplianceInv, Processed
  <2> DEFINE all == finalizeResults(pkgs, rels, owning)
  <2>2. Output.input = all /\ Output.rels = remainingRelationships(cfg, pkgs, all)
    BY <2>1 DEF Output
  <2>3. pkgs \in Seq(Package) /\ ToSet(pkgs) \subseteq Package
    BY LenProperties, ElementOfSeq DEF ComplianceInv, ToSet
  <2>4. all \in SUBSET [type : T, from : N, to : N]
    <3>1. rels \in SUBSET [type : T, from : N, to : N]
      BY <2>3 DEF ComplianceInv, Among, PkgIDs
    <3>2. \A p \in ToSet(pkgs) : owningRelationships(p) \in SUBSET [type : T, from : N, to : N]
      BY <2>3 DEF owningRelationships
    <3> QED
      BY <3>1, <3>2 DEF finalizeResults
  <2>5. {ID(p) : p \in Package} \subseteq N
    OBVIOUS
  <2> HIDE DEF all, N, T, n
  <2>6. remainingRelationships(cfg, pkgs, all) = MovedEdges(cfg, pkgs, n, Outliving(cfg, pkgs, all))
    BY <2>3, <2>4, <2>5, Followed DEF n
  <2>7. DroppedIDs(cfg, pkgs) = {ID(p) : p \in Dropped}
    <3>1. \A p \in Dropped : stubbed(cfg, p) = p
      BY DEF DroppedAndStubbed
    <3>2. DroppedIDs(cfg, pkgs) = {ID(stubbed(cfg, p)) : p \in Dropped}
      BY DEF DroppedIDs, Dropped
    <3> QED
      BY <3>1, <3>2
  <2> DEFINE base == {f \in all : {f.from, f.to} \cap {ID(p) : p \in Dropped} = {}}
  <2>8. Outliving(cfg, pkgs, all) = base
    BY <2>7 DEF Outliving
  <2> HIDE DEF base
  <2>9. \A id : Follow(id) = Moved(cfg, pkgs, n, id)
    BY <2>3, FollowMoves DEF n
  <2>10. {[type |-> e.type, from |-> Follow(e.from), to |-> Follow(e.to)] : e \in base}
             = MovedEdges(cfg, pkgs, n, base)
    BY <2>9 DEF MovedEdges
  <2> QED
    BY <2>2, <2>6, <2>8, <2>10 DEF base
<1> QED
  BY <1>1, <1>2, <1>3, PTL DEF ComplianceSpec

--------------------------------------------------------------------------------
(* The cleanup of hidden packages and the exclusion of binary packages.       *)

Overlaps == byFileOwnershipOverlap(Considered)

\* No group of the packages that are not in Q has only itself to speak for it.
NoGroupAlone(Q) ==
    \A group \in (SUBSET (found \ Q)) \ {{}} :
        \E q \in group, p \in found \ group : SpeaksFor(p, q)

\* In each phase, the packages that are left and the overlaps still to come.
AnalysisInv ==
    /\ deep \in BOOLEAN
    /\ found \subseteq (IF deep THEN ScopePackages ELSE ExclusionPackages)
    /\ packages \subseteq found
    /\ phase \in {"scope", "elf", "exclude"}
    /\ phase = "scope" => packages = found
    /\ phase = "elf" /\ deep => OnePerDuplicate(found, packages)
    /\ phase = "elf" /\ ~deep => packages = found
    /\ phase = "exclude" /\ ~deep =>
        /\ edges \subseteq Overlaps
        /\ packages \subseteq Considered
        /\ Undisputed(Considered) => ExcludeAt(Considered, Overlaps \ edges, packages)
        /\ NoGroupAlone(packages)

\* A claim reaches.
LEMMA ClaimsReach ==
    ASSUME NEW P, NEW p, NEW q, Claims(P, p, q)
    PROVE  Reaches(p, q)
<1>1. PICK g \in claimedPaths(P, p) : g \in Paths(q)
  BY DEF Claims
<1>2. PICK f \in OwnedFiles(p) : g \in {f} \cup Resolve[f] /\ g \notin Forbidden
  BY <1>1 DEF claimedPaths
<1>3. g \in UNION {{h} \cup Resolve[h] : h \in OwnedFiles(p)}
  BY <1>2
<1> QED
  BY <1>1, <1>2, <1>3 DEF Reaches

\* Removing one package that one of the rest speaks for leaves no group alone.
LEMMA NoneMoreAlone ==
    ASSUME NEW Q, NoGroupAlone(Q), NEW r, NEW p \in found, p \in Q, p # r, SpeaksFor(p, r)
    PROVE  NoGroupAlone(Q \ {r})
<1> SUFFICES ASSUME NEW group \in SUBSET (found \ (Q \ {r})), group # {}
             PROVE  \E q \in group, x \in found \ group : SpeaksFor(x, q)
  BY DEF NoGroupAlone
<1>1. CASE r \in group
  <2>1. p \notin group
    OBVIOUS
  <2> QED
    BY <1>1, <2>1
<1>2. CASE r \notin group
  <2>1. group \in SUBSET (found \ Q)
    BY <1>2
  <2> QED
    BY <2>1 DEF NoGroupAlone
<1> QED
  BY <1>1, <1>2

\* What a rule removes for an overlap is one of its ends, and the other one speaks for it.
LEMMA RemovedForClaim ==
    ASSUME NEW P, NEW a, NEW b, Claims(P, a, b)
    PROVE  \/ idToRemove(a, b) = {}
           \/ idToRemove(a, b) = {ID(b)} /\ SpeaksFor(a, b)
           \/ idToRemove(a, b) = {ID(a)} /\ SpeaksFor(b, a)
<1>1. Reaches(a, b)
  BY ClaimsReach
<1>2. SpeaksFor(a, b)
  BY <1>1 DEF SpeaksFor
<1>3. Meta(b) = "jvm" => SpeaksFor(b, a)
  BY <1>1 DEF SpeaksFor
<1> QED
  BY <1>2, <1>3 DEF idToRemove

LEMMA AnalysisStep == AnalysisInv /\ [Scope \/ Elf \/ ExcludeNext]_analysisVars => AnalysisInv'
<1> SUFFICES ASSUME AnalysisInv, [Scope \/ Elf \/ ExcludeNext]_analysisVars PROVE AnalysisInv'
  OBVIOUS
<1>0. found \subseteq Package /\ packages \subseteq Package
  BY AnalysisAssumption DEF AnalysisInv
<1>1. CASE Scope
  <2>1. /\ phase = "scope" /\ phase' = "elf" /\ UNCHANGED <<deep, found, edges>> /\ packages = found
    BY <1>1 DEF Scope, AnalysisInv
  <2>2. CASE deep
    <3>1. PICK order \in SetToSeqs(packages) :
              packages' = {p \in packages : ID(p) \notin scopeRemovals(order)}
      BY <1>1, <2>2 DEF Scope
    <3>2. IsFiniteSet(packages)
      BY <2>2, AnalysisAssumption, FS_Subset DEF AnalysisInv
    <3>3. /\ order \in Seq(packages) /\ ToSet(order) = packages
          /\ \A i, j \in DOMAIN order : order[i] = order[j] => i = j
      BY <3>2, AllInSequence
    <3>4. order \in Seq(Package)
      BY <1>0, <3>3, SeqDef
    <3>5. OnePerDuplicate(packages, packages')
      BY <3>1, <3>3, <3>4, ScopeKeepsOne
    <3>6. OnePerDuplicate(found, packages)'
      BY <2>1, <3>5
    <3> QED
      BY <2>1, <2>2, <3>1, <3>6 DEF AnalysisInv
  <2>3. CASE ~deep
    <3>1. packages' = packages
      BY <1>1, <2>3 DEF Scope
    <3> QED
      BY <2>1, <2>3, <3>1 DEF AnalysisInv
  <2> QED
    BY <2>2, <2>3
<1>2. CASE Elf
  <2>1. /\ phase = "elf" /\ phase' = "exclude" /\ UNCHANGED <<deep, found>>
        /\ packages' = {p \in packages : ID(p) \notin PackagesToRemove(packages)}
        /\ edges' = byFileOwnershipOverlap(packages')
    BY <1>2 DEF Elf
  <2>2. ASSUME ~deep
        PROVE  /\ edges' = Overlaps' /\ packages' = Considered'
               /\ Considered' = Considered /\ Overlaps' = Overlaps
    <3>1. packages = found /\ Considered' = Considered
      BY <2>1, <2>2 DEF AnalysisInv, Considered
    <3>2. packages' = Considered
      BY <2>1, <3>1 DEF Considered
    <3> QED
      BY <2>1, <3>1, <3>2 DEF Overlaps
  <2>3. ASSUME ~deep
        PROVE  ExcludeAt(Considered, Overlaps \ Overlaps, Considered)
    BY DEF ExcludeAt
  <2>4. ASSUME ~deep
        PROVE  NoGroupAlone(packages)'
    <3> SUFFICES ASSUME NEW group \in SUBSET (found \ Considered), group # {}
                 PROVE  \E q \in group, p \in found \ group : SpeaksFor(p, q)
      BY <2>1, <2>2, <2>4 DEF NoGroupAlone
    <3>1. PICK q \in group : TRUE
      OBVIOUS
    <3>2. ID(q) \in PackagesToRemove(found) /\ q \in found
      BY <3>1 DEF Considered
    <3>3. PICK p \in ElfPackages(found) : Primary(p) \cap Paths(q) # {}
      <4>1. PICK r \in found : ID(q) = ID(r) /\ \E p \in ElfPackages(found) : Primary(p) \cap Paths(r) # {}
        BY <3>2 DEF PackagesToRemove
      <4>2. q = r
        BY <1>0, <3>2, <4>1, OneID
      <4> QED
        BY <4>1, <4>2
    <3>4. p \in found /\ Meta(p) = "elf"
      BY DEF ElfPackages
    <3>5. p \in Considered
      <4> SUFFICES ASSUME ID(p) \in PackagesToRemove(found) PROVE FALSE
        BY <3>4 DEF Considered
      <4>1. PICK r \in found : ID(p) = ID(r) /\ Meta(r) # "elf"
        BY DEF PackagesToRemove
      <4> QED
        BY <1>0, <3>4, <4>1, OneID
    <3>6. SpeaksFor(p, q)
      BY <3>3, <3>4 DEF SpeaksFor
    <3> QED
      BY <3>1, <3>4, <3>5, <3>6
  <2> QED
    BY <2>1, <2>2, <2>3, <2>4 DEF AnalysisInv
<1>3. CASE ExcludeNext
  <2>1. phase = "exclude" /\ UNCHANGED <<deep, found, phase>>
    BY <1>3 DEF ExcludeNext
  <2> DEFINE s == [packages |-> packages, relationships |-> EmptyBag]
  <2>2. PICK e \in edges : packages' = excludeStep(s, e).packages /\ edges' = edges \ {e}
    BY <1>3 DEF ExcludeNext
  <2>3. s.packages = packages
    OBVIOUS
  <2>4. packages' \subseteq packages
    BY <2>2, <2>3 DEF excludeStep
  <2>5. Considered' = Considered /\ Overlaps' = Overlaps /\ Considered \subseteq found
    BY <2>1 DEF Considered, Overlaps
  <2>6. ASSUME ~deep
        PROVE  /\ edges \subseteq Overlaps /\ packages \subseteq Considered /\ NoGroupAlone(packages)
               /\ Undisputed(Considered) => ExcludeAt(Considered, Overlaps \ edges, packages)
    BY <2>1, <2>6 DEF AnalysisInv
  <2>7. ASSUME ~deep, Undisputed(Considered)
        PROVE  ExcludeAt(Considered, Overlaps \ edges', packages')
    <3>1. ExcludeAt(Considered, (Overlaps \ edges) \cup {e}, excludeStep(s, e).packages)
      <4>1. Considered \in SUBSET Package /\ e \in byFileOwnershipOverlap(Considered)
        BY <1>0, <2>2, <2>5, <2>6, <2>7 DEF Overlaps
      <4>2. ExcludeAt(Considered, Overlaps \ edges, s.packages)
        BY <2>3, <2>6, <2>7
      <4> HIDE DEF s
      <4> QED
        BY <2>7, <4>1, <4>2, ExcludeTurnKeeps
    <3>2. (Overlaps \ edges) \cup {e} = Overlaps \ edges'
      BY <2>2, <2>6, <2>7
    <3> QED
      BY <2>2, <3>1, <3>2
  <2>8. ASSUME ~deep
        PROVE  NoGroupAlone(packages)'
    <3> SUFFICES NoGroupAlone(packages')
      BY <2>1 DEF NoGroupAlone
    <3>1. CASE packages' = packages
      BY <2>6, <2>8, <3>1
    <3>2. CASE packages' # packages
      <4>1. /\ Has(packages, e.from) /\ Has(packages, e.to)
            /\ packages' = {p \in packages : ID(p) \notin idToRemove(Get(packages, e.from), Get(packages, e.to))}
        BY <2>2, <2>3, <3>2 DEF excludeStep
      <4>2. PICK a \in Considered, b \in Considered : a # b /\ Claims(Considered, a, b) /\ e = OverlapOf(a, b)
        BY <2>2, <2>6, <2>8, OverlapsAreClaims DEF Overlaps
      <4>3. /\ e.from = ID(a) /\ e.to = ID(b) /\ a \in Package /\ b \in Package /\ a \in found /\ b \in found
        BY <1>0, <2>5, <4>2 DEF OverlapOf
      <4>4. a \in packages /\ b \in packages /\ Get(packages, e.from) = a /\ Get(packages, e.to) = b
        <5>1. a \in packages /\ b \in packages
          BY <1>0, <4>1, <4>3, OneID DEF Has
        <5> QED
          BY <1>0, <4>3, <5>1, OneID
      <4>5. \/ idToRemove(a, b) = {}
            \/ idToRemove(a, b) = {ID(b)} /\ SpeaksFor(a, b)
            \/ idToRemove(a, b) = {ID(a)} /\ SpeaksFor(b, a)
        BY <4>2, RemovedForClaim
      <4>6. \A r \in packages : {p \in packages : ID(p) \notin {ID(r)}} = packages \ {r}
        BY <1>0, OneID
      <4>7. CASE idToRemove(a, b) = {ID(b)} /\ SpeaksFor(a, b)
        <5>1. packages' = packages \ {b}
          BY <4>1, <4>4, <4>6, <4>7
        <5> QED
          BY <2>6, <2>8, <4>2, <4>3, <4>4, <4>7, <5>1, NoneMoreAlone
      <4>8. CASE idToRemove(a, b) = {ID(a)} /\ SpeaksFor(b, a)
        <5>1. packages' = packages \ {a}
          BY <4>1, <4>4, <4>6, <4>8
        <5> QED
          BY <2>6, <2>8, <4>2, <4>3, <4>4, <4>8, <5>1, NoneMoreAlone
      <4>9. CASE idToRemove(a, b) = {}
        BY <3>2, <4>1, <4>4, <4>9
      <4> QED
        BY <4>5, <4>7, <4>8, <4>9
    <3> QED
      BY <3>1, <3>2
  <2> QED
    BY <2>1, <2>2, <2>4, <2>5, <2>6, <2>7, <2>8 DEF AnalysisInv
<1>4. CASE UNCHANGED analysisVars
  BY <1>4 DEF AnalysisInv, analysisVars, NoGroupAlone, Overlaps, Considered
<1> QED
  BY <1>1, <1>2, <1>3, <1>4

LEMMA AnalysisAlways == AnalysisSpec => []AnalysisInv
<1>1. AnalysisInit => AnalysisInv
  BY DEF AnalysisInit, AnalysisInv
<1> QED
  BY <1>1, AnalysisStep, PTL DEF AnalysisSpec

\* Whatever packages a scan found and in whichever order the overlaps are met, if no
\* overridden package overrides a third, the exclusion leaves exactly what nothing
\* overrides (exclude_binaries_by_file_ownership_overlap.go).
THEOREM ExclusionIsExact == AnalysisSpec => []ExclusionExact
<1>1. AnalysisInv => ExclusionExact
  <2> SUFFICES ASSUME AnalysisInv, phase = "exclude", edges = {}, ~deep, Undisputed(Considered)
               PROVE  packages = Considered \ Overridden(Considered)
    BY DEF ExclusionExact, Done
  <2>1. ExcludeAt(Considered, Overlaps \ {}, packages)
    BY DEF AnalysisInv
  <2>2. Considered \in SUBSET Package /\ byFileOwnershipOverlap(Considered) \subseteq Overlaps \ {}
    BY AnalysisAssumption DEF AnalysisInv, Considered, Overlaps
  <2> QED
    BY <2>1, <2>2, ExcludeEnds
<1> QED
  BY <1>1, AnalysisAlways, PTL

\* Whatever packages a scan found, no group of the packages removed as overlapping has
\* only itself to account for it, and of duplicates in hidden layers one is kept
\* (relationship_tasks.go, scope_tasks.go).
THEOREM RemovedAreSpokenFor == AnalysisSpec => []RemovedSpokenFor
<1>1. AnalysisInv => RemovedSpokenFor
  BY DEF AnalysisInv, RemovedSpokenFor, OverlapsSpokenFor, OneOfDuplicatesKept, Done, NoGroupAlone
<1> QED
  BY <1>1, AnalysisAlways, PTL

--------------------------------------------------------------------------------
(* The packages of .NET applications.                                         *)

\* g leads from each library to others.
Steps == [Library -> SUBSET Library]

\* The walk of n rounds.
Rounds(w, A, g, n) ==
    /\ w \in [0 .. n -> SUBSET Library]
    /\ w = [k \in 0 .. n |-> IF k = 0 THEN A ELSE w[k - 1] \cup UNION {g[l] : l \in w[k - 1]}]

LEMMA RoundsExist ==
    ASSUME NEW n \in Nat, NEW A \in SUBSET Library, NEW g \in Steps
    PROVE  \E w : Rounds(w, A, g, n)
<1> DEFINE S == {k \in 0 .. n : \E w : Rounds(w, A, g, k)}
<1>1. 0 \in S
  <2> DEFINE w == [k \in 0 .. 0 |-> A]
  <2>1. \A k \in 0 .. 0 : k = 0
    OBVIOUS
  <2>2. w \in [0 .. 0 -> SUBSET Library]
    OBVIOUS
  <2>3. w = [k \in 0 .. 0 |-> IF k = 0 THEN A ELSE w[k - 1] \cup UNION {g[l] : l \in w[k - 1]}]
    BY <2>1
  <2> HIDE DEF w
  <2>4. Rounds(w, A, g, 0) /\ 0 \in 0 .. n
    BY <2>2, <2>3 DEF Rounds
  <2> QED
    BY <2>4
<1>2. ASSUME NEW k \in 0 .. n - 1, k \in S PROVE k + 1 \in S
  <2>1. PICK w : Rounds(w, A, g, k)
    BY <1>2
  <2> DEFINE v == [j \in 0 .. k + 1 |->
                      IF j = k + 1 THEN w[k] \cup UNION {g[l] : l \in w[k]} ELSE w[j]]
  <2>2. k \in Nat /\ k + 1 \in 0 .. n /\ k \in 0 .. k
    OBVIOUS
  <2>3. w[k] \in SUBSET Library /\ UNION {g[l] : l \in w[k]} \in SUBSET Library
    BY <2>1, <2>2 DEF Rounds, Steps
  <2>4. v \in [0 .. k + 1 -> SUBSET Library]
    <3>1. \A j \in 0 .. k + 1 : j # k + 1 => j \in 0 .. k
      BY <2>2
    <3> QED
      BY <2>1, <2>3, <3>1 DEF Rounds
  <2>5. ASSUME NEW j \in 0 .. k + 1
        PROVE  v[j] = IF j = 0 THEN A ELSE v[j - 1] \cup UNION {g[l] : l \in v[j - 1]}
    <3>1. CASE j = k + 1
      <4>1. j # 0 /\ j - 1 = k /\ k \in 0 .. k + 1 /\ k # k + 1
        BY <2>2, <3>1
      <4> QED
        BY <3>1, <4>1
    <3>2. CASE j # k + 1
      <4>1. j \in 0 .. k
        BY <2>2, <3>2
      <4>2. w[j] = IF j = 0 THEN A ELSE w[j - 1] \cup UNION {g[l] : l \in w[j - 1]}
        BY <2>1, <4>1 DEF Rounds
      <4>3. j # 0 => j - 1 \in 0 .. k + 1 /\ j - 1 # k + 1
        BY <2>2, <4>1
      <4> QED
        BY <3>2, <4>2, <4>3
    <3> QED
      BY <3>1, <3>2
  <2>6. v = [j \in 0 .. k + 1 |-> v[j]]
    OBVIOUS
  <2> HIDE DEF v
  <2>7. Rounds(v, A, g, k + 1)
    BY <2>4, <2>5, <2>6 DEF Rounds
  <2> QED
    BY <2>2, <2>7
<1>3. n \in 0 .. n
  OBVIOUS
<1> HIDE DEF S
<1>4. n \in S
  BY <1>1, <1>2, <1>3, InductNat
<1> QED
  BY <1>4 DEF S

\* A walk that has gone on for as many rounds as there are libraries has come to an end:
\* each round but the last ones visits a library more.
LEMMA WalkEnds ==
    ASSUME NEW A \in SUBSET Library, NEW g \in Steps, NEW w, Rounds(w, A, g, Cardinality(Library))
    PROVE  /\ A \subseteq w[Cardinality(Library)]
           /\ \A l \in w[Cardinality(Library)] : g[l] \subseteq w[Cardinality(Library)]
<1> DEFINE N == Cardinality(Library)
           grown(k) == w[k] \cup UNION {g[l] : l \in w[k]}
           S == {k \in 0 .. N : A \subseteq w[k] /\ (Cardinality(w[k]) >= k \/ grown(k) = w[k])}
<1>1. N \in Nat /\ IsFiniteSet(Library)
  BY LibraryAssumption, FS_CardinalityType
<1> HIDE DEF N
<1>2. /\ \A k \in 0 .. N : w[k] \in SUBSET Library /\ IsFiniteSet(w[k]) /\ Cardinality(w[k]) \in Nat
      /\ 0 \in 0 .. N /\ w[0] = A
      /\ \A k \in 0 .. N - 1 : k \in 0 .. N /\ k + 1 \in 0 .. N /\ w[k + 1] = grown(k)
  <2>1. \A k \in 0 .. N : w[k] \in SUBSET Library
    BY DEF Rounds, N
  <2>2. \A k \in 0 .. N : IsFiniteSet(w[k]) /\ Cardinality(w[k]) \in Nat
    BY <1>1, <2>1, FS_Subset, FS_CardinalityType
  <2>3. 0 \in 0 .. N /\ w[0] = A
    BY <1>1 DEF Rounds, N
  <2>4. ASSUME NEW k \in 0 .. N - 1
        PROVE  k \in 0 .. N /\ k + 1 \in 0 .. N /\ w[k + 1] = grown(k)
    <3>1. k \in 0 .. N /\ k + 1 \in 0 .. N /\ k + 1 # 0 /\ k + 1 - 1 = k
      BY <1>1
    <3> DEFINE j == k + 1
    <3>2. w[j] = w[j - 1] \cup UNION {g[l] : l \in w[j - 1]}
      BY <3>1 DEF Rounds, N
    <3> QED
      BY <3>1, <3>2
  <2> QED
    BY <2>1, <2>2, <2>3, <2>4
<1> HIDE DEF grown
<1>3. 0 \in S
  BY <1>1, <1>2
<1>4. ASSUME NEW k \in 0 .. N - 1, k \in S PROVE k + 1 \in S
  <2>1. w[k] \subseteq w[k + 1] /\ k \in 0 .. N /\ k + 1 \in 0 .. N /\ A \subseteq w[k]
    BY <1>2, <1>4 DEF grown
  <2>2. CASE grown(k) = w[k]
    <3>1. w[k + 1] = w[k]
      BY <1>2, <2>2
    <3>2. grown(k + 1) = w[k + 1]
      BY <2>2, <3>1 DEF grown
    <3> QED
      BY <2>1, <3>2
  <2>3. CASE grown(k) # w[k]
    <3>1. w[k + 1] # w[k]
      BY <1>2, <2>3
    <3>2. Cardinality(w[k]) >= k
      BY <1>4, <2>3
    <3>3. Cardinality(w[k]) <= Cardinality(w[k + 1])
          /\ (Cardinality(w[k]) = Cardinality(w[k + 1]) => w[k] = w[k + 1])
      BY <1>2, <2>1, FS_Subset
    <3>4. Cardinality(w[k]) \in Nat /\ Cardinality(w[k + 1]) \in Nat
      BY <1>2, <2>1
    <3>5. Cardinality(w[k + 1]) >= k + 1
      BY <3>1, <3>2, <3>3, <3>4
    <3> QED
      BY <2>1, <3>5
  <2> QED
    BY <2>2, <2>3
<1> HIDE DEF S
<1>5. N \in S
  <2>1. \A k \in 0 .. N : k \in S
    BY <1>1, <1>3, <1>4, InductNat
  <2> QED
    BY <1>1, <2>1
<1>6. A \subseteq w[N] /\ (Cardinality(w[N]) >= N \/ grown(N) = w[N]) /\ N \in 0 .. N
  BY <1>1, <1>5 DEF S
<1>7. CASE grown(N) = w[N]
  BY <1>6, <1>7 DEF grown, N
<1>8. CASE Cardinality(w[N]) >= N
  <2>1. w[N] \subseteq Library /\ Cardinality(w[N]) <= N
        /\ (Cardinality(w[N]) = N => w[N] = Library)
    BY <1>1, <1>2, <1>6, FS_Subset DEF N
  <2>2. w[N] = Library
    BY <1>1, <1>2, <1>6, <1>8, <2>1
  <2> QED
    BY <1>6, <2>2 DEF Steps, N
<1> QED
  BY <1>6, <1>7, <1>8

\* What a walk visits is the least set that holds where it starts and is closed.
LEMMA WalkedLeast ==
    ASSUME NEW A \in SUBSET Library, NEW g \in Steps
    PROVE  /\ Walked(A, g) \in SUBSET Library
           /\ A \subseteq Walked(A, g)
           /\ \A l \in Walked(A, g) : g[l] \subseteq Walked(A, g)
           /\ \A T \in SUBSET Library :
                 A \subseteq T /\ (\A l \in T : g[l] \subseteq T) => Walked(A, g) \subseteq T
<1> DEFINE N == Cardinality(Library)
           is(w) == w = [k \in 0 .. N |-> IF k = 0 THEN A ELSE w[k - 1] \cup UNION {g[l] : l \in w[k - 1]}]
           w0 == CHOOSE w : is(w)
<1>1. N \in Nat
  BY LibraryAssumption, FS_CardinalityType
<1>2. Walked(A, g) = w0[N]
  BY DEF Walked
<1> HIDE DEF N
<1>3. PICK v : Rounds(v, A, g, N)
  BY <1>1, RoundsExist
<1>4. is(w0)
  BY <1>3 DEF Rounds
<1> HIDE DEF w0
<1>5. /\ w0[0] = A
      /\ \A k \in 0 .. N - 1 : w0[k + 1] = w0[k] \cup UNION {g[l] : l \in w0[k]}
  <2>1. w0[0] = A
    BY <1>1, <1>4
  <2>2. ASSUME NEW k \in 0 .. N - 1
        PROVE  w0[k + 1] = w0[k] \cup UNION {g[l] : l \in w0[k]}
    <3>1. k + 1 \in 0 .. N /\ k + 1 # 0 /\ k + 1 - 1 = k
      BY <1>1
    <3> DEFINE j == k + 1
    <3>2. w0[j] = w0[j - 1] \cup UNION {g[l] : l \in w0[j - 1]}
      BY <1>4, <3>1
    <3> QED
      BY <3>1, <3>2
  <2> QED
    BY <2>1, <2>2
<1>6. ASSUME NEW T \in SUBSET Library, A \subseteq T, \A l \in T : g[l] \subseteq T
      PROVE  \A k \in 0 .. N : w0[k] \subseteq T
  <2> DEFINE S == {k \in 0 .. N : w0[k] \subseteq T}
  <2>1. 0 \in S
    BY <1>1, <1>5, <1>6
  <2>2. ASSUME NEW k \in 0 .. N - 1, k \in S PROVE k + 1 \in S
    <3>1. w0[k + 1] \subseteq T
      BY <1>5, <1>6, <2>2
    <3>2. k + 1 \in 0 .. N
      BY <1>1
    <3> QED
      BY <3>1, <3>2
  <2> HIDE DEF S
  <2>3. \A k \in 0 .. N : k \in S
    BY <1>1, <2>1, <2>2, InductNat
  <2> QED
    BY <2>3 DEF S
<1>7. \A k \in 0 .. N : w0[k] \subseteq Library
  BY <1>6 DEF Steps
<1>8. Rounds(w0, A, g, N)
  <2>1. DOMAIN w0 = 0 .. N /\ w0 = [k \in 0 .. N |-> w0[k]]
    BY <1>4
  <2> QED
    BY <1>4, <1>7, <2>1 DEF Rounds
<1>9. A \subseteq w0[N] /\ \A l \in w0[N] : g[l] \subseteq w0[N]
  BY <1>8, WalkEnds DEF N
<1> QED
  BY <1>1, <1>2, <1>6, <1>7, <1>9

-------------------------------------------------------------------------------
\* A document as the cataloger gets it.
IsDocument(doc) ==
    /\ doc.libs \subseteq Library /\ doc.bundled \in BOOLEAN
    /\ doc.dependsOn \in [Library -> SUBSET Library]
    /\ doc.claims \in [Library -> SUBSET Executable]

\* What is reached over some libraries is closed, and least.
LEMMA BetweenLeast ==
    ASSUME NEW doc, IsDocument(doc), NEW A \in SUBSET Library, NEW over \in SUBSET Library
    PROVE  /\ Between(doc, A, over) \subseteq over
           /\ A \cap over \subseteq Between(doc, A, over)
           /\ \A l \in Between(doc, A, over) :
                 doc.dependsOn[l] \cap over \subseteq Between(doc, A, over)
           /\ \A T \in SUBSET over :
                 A \cap over \subseteq T /\ (\A l \in T : doc.dependsOn[l] \cap over \subseteq T)
                     => Between(doc, A, over) \subseteq T
BY DEF Between

\* A walk that stops at what a document does not describe visits what lies between.
LEMMA VisitedBetween ==
    ASSUME NEW doc, IsDocument(doc), NEW A \in SUBSET Library
    PROVE  Visited(doc, A) = Between(doc, A, doc.libs)
<1> DEFINE g == [l \in Library |-> IF l \in doc.libs THEN doc.dependsOn[l] ELSE {}]
           V == Walked(A, g)
           B == Between(doc, A, doc.libs)
<1>1. g \in Steps /\ doc.libs \in SUBSET Library
  BY DEF Steps, IsDocument
<1>2. \A l \in Library : g[l] = IF l \in doc.libs THEN doc.dependsOn[l] ELSE {}
  OBVIOUS
<1>3. Visited(doc, A) = V \cap doc.libs
  BY DEF Visited
<1> HIDE DEF g
<1>4. /\ V \in SUBSET Library /\ A \subseteq V /\ \A l \in V : g[l] \subseteq V
      /\ \A T \in SUBSET Library : A \subseteq T /\ (\A l \in T : g[l] \subseteq T) => V \subseteq T
  BY <1>1, WalkedLeast
<1>5. /\ B \subseteq doc.libs /\ A \cap doc.libs \subseteq B
      /\ \A l \in B : doc.dependsOn[l] \cap doc.libs \subseteq B
      /\ \A T \in SUBSET doc.libs :
            A \cap doc.libs \subseteq T /\ (\A l \in T : doc.dependsOn[l] \cap doc.libs \subseteq T)
                => B \subseteq T
  BY <1>1, BetweenLeast
<1> HIDE DEF V, B
<1>6. V \cap doc.libs \subseteq B
  <2> DEFINE T == B \cup (Library \ doc.libs)
  <2>1. T \in SUBSET Library /\ A \subseteq T
    BY <1>1, <1>5
  <2>2. ASSUME NEW l \in T PROVE g[l] \subseteq T
    <3>1. CASE l \in B
      <4>1. g[l] = doc.dependsOn[l] /\ doc.dependsOn[l] \subseteq Library
        BY <1>1, <1>2, <1>5, <3>1 DEF IsDocument
      <4> QED
        BY <1>5, <3>1, <4>1
    <3>2. CASE l \in Library \ doc.libs
      BY <1>2, <3>2
    <3> QED
      BY <3>1, <3>2
  <2>3. V \subseteq T
    BY <1>4, <2>1, <2>2
  <2> QED
    BY <2>3
<1>7. B \subseteq V \cap doc.libs
  <2> DEFINE T == V \cap doc.libs
  <2>1. T \in SUBSET doc.libs /\ A \cap doc.libs \subseteq T
    BY <1>4
  <2>2. ASSUME NEW l \in T PROVE doc.dependsOn[l] \cap doc.libs \subseteq T
    BY <1>1, <1>2, <1>4
  <2> QED
    BY <1>5, <2>1, <2>2
<1> QED
  BY <1>3, <1>6, <1>7 DEF B, V

\* What lies between leads nowhere else.
LEMMA BetweenTransitive ==
    ASSUME NEW doc, IsDocument(doc), NEW A \in SUBSET Library, NEW l \in Between(doc, A, doc.libs)
    PROVE  Between(doc, doc.dependsOn[l], doc.libs) \subseteq Between(doc, A, doc.libs)
<1>1. doc.libs \in SUBSET Library
  BY DEF IsDocument
<1>2. l \in doc.libs /\ doc.dependsOn[l] \in SUBSET Library
  BY <1>1, BetweenLeast DEF IsDocument
<1> QED
  BY <1>1, <1>2, BetweenLeast

\* Whatever the order in which the flags are set, in the end each says whether one of
\* own lies below.
LEMMA FlagsSet ==
    ASSUME NEW doc, IsDocument(doc), NEW own, NEW order \in Seq(doc.libs), ToSet(order) = doc.libs,
           NEW p \in doc.libs
    PROVE  anyChild(doc, own, order)[p]
               <=> \E m \in Between(doc, doc.dependsOn[p], doc.libs) : m \in own
<1> DEFINE n == Len(order)
           X == [doc.libs -> BOOLEAN]
           base == [l \in doc.libs |-> FALSE]
           below(q) == \E m \in Between(doc, doc.dependsOn[q], doc.libs) : m \in own
           op(F, q) == [F EXCEPT ![q] = \E l \in Visited(doc, doc.dependsOn[q]) : l \in own \/ F[l]]
           setting == [ix \in (1 .. n) \X X |-> op(ix[2], order[ix[1]])]
           it(f) == f = [u \in SUBSET DOMAIN order |->
                            IF u = {} THEN base ELSE LET x == Max(u) IN op(f[u \ {x}], order[x])]
           g == CHOOSE f : it(f)
<1>1. n \in Nat /\ DOMAIN order = 1 .. n /\ \A i \in 1 .. n : order[i] \in doc.libs
  BY LenProperties, ElementOfSeq
<1>2. base \in X
  OBVIOUS
<1>3. \A F \in X, q \in doc.libs : op(F, q) \in X
  OBVIOUS
<1>4. anyChild(doc, own, order) = g[DOMAIN order]
  BY DEF anyChild, FoldLeft, MapThenFoldSet
<1>5. ASSUME NEW F \in X, NEW q \in doc.libs, \A l \in doc.libs : F[l] => below(l)
      PROVE  /\ op(F, q)[q] <=> below(q)
             /\ \A l \in doc.libs : l # q => op(F, q)[l] = F[l]
  <2>1. doc.dependsOn[q] \in SUBSET Library /\ doc.libs \in SUBSET Library
    BY DEF IsDocument
  <2>2. Visited(doc, doc.dependsOn[q]) = Between(doc, doc.dependsOn[q], doc.libs)
    BY <2>1, VisitedBetween
  <2>3. op(F, q)[q] = \E l \in Between(doc, doc.dependsOn[q], doc.libs) : l \in own \/ F[l]
    BY <2>2
  <2>4. \A l \in Between(doc, doc.dependsOn[q], doc.libs) : l \in doc.libs
    BY <2>1, BetweenLeast
  <2>5. ASSUME NEW l \in Between(doc, doc.dependsOn[q], doc.libs), F[l] PROVE below(q)
    <3>1. below(l)
      BY <1>5, <2>4, <2>5
    <3> QED
      BY <2>1, <3>1, BetweenTransitive
  <2>6. op(F, q)[q] <=> below(q)
    BY <2>3, <2>5
  <2> QED
    BY <2>6
<1> HIDE DEF op, X, base, below
<1>6. setting \in [(1 .. n) \X X -> X]
  BY <1>1, <1>3
<1>7. PICK f : Iterates(f, n, X, base, setting)
  BY <1>1, <1>2, <1>6, Iterate
<1>8. it(f)
  <2>1. ASSUME NEW u \in SUBSET (1 .. n), u # {}
        PROVE  setting[<<Max(u), f[u \ {Max(u)}]>>] = op(f[u \ {Max(u)}], order[Max(u)])
    <3>1. Max(u) \in u
      BY <1>1, <2>1, MaxIn
    <3>2. Max(u) \in 1 .. n /\ f[u \ {Max(u)}] \in X
      BY <1>7, <3>1 DEF Iterates
    <3> QED
      BY <3>2
  <2> HIDE DEF setting
  <2> QED
    BY <1>1, <1>7, <2>1 DEF Iterates
<1>9. it(g)
  BY <1>8
<1> HIDE DEF g
<1>10. g[{}] = base
  BY <1>1, <1>9
<1>11. \A i \in 0 .. n - 1 : g[1 .. i + 1] = op(g[1 .. i], order[i + 1])
  <2> SUFFICES ASSUME NEW i \in 0 .. n - 1 PROVE g[1 .. i + 1] = op(g[1 .. i], order[i + 1])
    OBVIOUS
  <2>1. /\ 1 .. i + 1 # {} /\ 1 .. i + 1 \in SUBSET DOMAIN order
        /\ Max(1 .. i + 1) = i + 1 /\ (1 .. i + 1) \ {i + 1} = 1 .. i
    BY <1>1, Positions
  <2> HIDE DEF n
  <2> QED
    BY <1>9, <2>1
\* Every flag that is set is right, and those that have had their turn are.
<1> DEFINE right(F, i) == /\ F \in X
                          /\ \A l \in doc.libs : F[l] => below(l)
                          /\ \A j \in 1 .. i : F[order[j]] <=> below(order[j])
           S == {i \in 0 .. n : right(g[1 .. i], i)}
<1>12. 0 \in S
  <2>1. g[1 .. 0] = base /\ \A l \in doc.libs : base[l] = FALSE
    BY <1>10, Positions DEF base
  <2> QED
    BY <1>1, <1>2, <2>1
<1>13. ASSUME NEW i \in 0 .. n - 1, i \in S PROVE i + 1 \in S
  <2> DEFINE F == g[1 .. i]
             q == order[i + 1]
  <2>1. i + 1 \in 1 .. n /\ q \in doc.libs /\ i + 1 \in 0 .. n
    BY <1>1
  <2>2. right(F, i)
    BY <1>13
  <2>3. g[1 .. i + 1] = op(F, q)
    BY <1>11
  <2>4. op(F, q) \in X
    BY <1>3, <2>1, <2>2
  <2>5. (op(F, q)[q] <=> below(q)) /\ \A l \in doc.libs : l # q => op(F, q)[l] = F[l]
    BY <1>5, <2>1, <2>2
  <2> HIDE DEF F
  <2>6. \A l \in doc.libs : op(F, q)[l] => below(l)
    BY <2>2, <2>5
  <2>7. ASSUME NEW j \in 1 .. i + 1 PROVE op(F, q)[order[j]] <=> below(order[j])
    <3>1. j \in 1 .. n /\ (j # i + 1 => j \in 1 .. i)
      BY <1>1
    <3>2. order[j] \in doc.libs
      BY <1>1, <3>1
    <3> QED
      BY <2>2, <2>5, <3>1, <3>2
  <2>8. right(op(F, q), i + 1)
    BY <2>4, <2>6, <2>7
  <2> QED
    BY <2>1, <2>3, <2>8
<1> HIDE DEF S
<1>14. n \in S
  <2>1. \A i \in 0 .. n : i \in S
    BY <1>1, <1>12, <1>13, InductNat
  <2> QED
    BY <1>1, <2>1
<1>15. PICK j \in 1 .. n : order[j] = p
  BY <1>1 DEF ToSet
<1> QED
  BY <1>1, <1>4, <1>14, <1>15 DEF S, below

\* What is kept is what the configuration wants.
LEMMA KeptWanted ==
    ASSUME NEW doc, IsDocument(doc), NEW pes, NEW config \in DotnetConfig, NEW root,
           NEW order \in Seq(doc.libs), ToSet(order) = doc.libs
    PROVE  kept(doc, pes, config, order, root)
               = {l \in doc.libs : WantedOf(doc, pes, config, root, l)}
<1> SUFFICES ASSUME NEW l \in doc.libs
             PROVE  ~skips(doc, pes, config, order, root, l) <=> WantedOf(doc, pes, config, root, l)
  BY DEF kept
<1>0. doc.libs \in SUBSET Library /\ doc.dependsOn[l] \in SUBSET Library
  BY DEF IsDocument
<1>1. \A m \in Between(doc, doc.dependsOn[l], doc.libs) : m \in doc.libs
  BY <1>0, BetweenLeast
<1>2. anyChild(doc, claiming(doc), order)[l]
          <=> \E m \in Between(doc, doc.dependsOn[l], doc.libs) : doc.claims[m] # {}
  <2>1. anyChild(doc, claiming(doc), order)[l]
            <=> \E m \in Between(doc, doc.dependsOn[l], doc.libs) : m \in claiming(doc)
    BY FlagsSet
  <2> QED
    BY <1>1, <2>1 DEF claiming
<1>3. ~anyChild(doc, {}, order)[l]
  BY FlagsSet
<1>4. FoundDLLs(doc, pes, order, l, config.propagate) <=> doc.claims[l] \cap pes # {}
  BY <1>3 DEF FoundDLLs
<1>5. ClaimsDLLs(doc, order, l, config.propagate)
          <=> \/ doc.claims[l] # {}
              \/ config.propagate /\ \E m \in Between(doc, doc.dependsOn[l], doc.libs) : doc.claims[m] # {}
  <2>1. l \in claiming(doc) <=> doc.claims[l] # {}
    BY DEF claiming
  <2> QED
    BY <1>2, <2>1 DEF ClaimsDLLs
<1>6. /\ config.mustHaveDLL \in BOOLEAN /\ config.mustClaimDLL \in BOOLEAN
      /\ config.relaxWhenBundled \in BOOLEAN /\ config.excludeProjects \in BOOLEAN
      /\ doc.bundled \in BOOLEAN
  BY DEF DotnetConfig, IsDocument
<1> QED
  BY <1>4, <1>5, <1>6 DEF skips, WantedOf

\* What is found nearest below the skipped libraries that one requires is what is required
\* by those that lie between.
LEMMA NearestBetween ==
    ASSUME NEW doc, IsDocument(doc), NEW libs \in SUBSET doc.libs, NEW p \in libs, NEW d \in libs
    PROVE  <<d, p>> \in relationshipsOf(doc, libs)
               <=> d \in doc.dependsOn[p] \cup
                       UNION {doc.dependsOn[s] : s \in Between(doc, doc.dependsOn[p], doc.libs \ libs)}
<1> DEFINE A == doc.dependsOn[p]
           over == doc.libs \ libs
           g == [s \in Library |-> (doc.dependsOn[s] \cap doc.libs) \ libs]
           B == Between(doc, A, over)
           skipped == (A \cap doc.libs) \ libs
<1>1. /\ doc.libs \in SUBSET Library /\ A \in SUBSET Library /\ over \in SUBSET Library
      /\ g \in Steps /\ \A s \in Library : g[s] = (doc.dependsOn[s] \cap doc.libs) \ libs
  BY DEF IsDocument, Steps
<1>2. /\ B \subseteq over /\ A \cap over \subseteq B
      /\ \A l \in B : doc.dependsOn[l] \cap over \subseteq B
      /\ \A T \in SUBSET over :
            A \cap over \subseteq T /\ (\A l \in T : doc.dependsOn[l] \cap over \subseteq T) => B \subseteq T
  <2> HIDE DEF A, over
  <2> QED
    BY <1>1, BetweenLeast
<1>3. \A s \in skipped : FindNearest(doc, libs, s) = UNION {doc.dependsOn[t] \cap libs : t \in Walked({s}, g)}
  BY DEF FindNearest
<1>4. skipped = A \cap over
  OBVIOUS
<1>5. <<d, p>> \in relationshipsOf(doc, libs)
          <=> d \in A \/ \E s \in skipped : d \in FindNearest(doc, libs, s)
  BY DEF relationshipsOf
<1> HIDE DEF g, B
<1>6. ASSUME NEW s \in skipped
      PROVE  /\ Walked({s}, g) \in SUBSET Library /\ s \in Walked({s}, g)
             /\ \A l \in Walked({s}, g) : g[l] \subseteq Walked({s}, g)
             /\ \A T \in SUBSET Library : s \in T /\ (\A l \in T : g[l] \subseteq T) => Walked({s}, g) \subseteq T
  <2>1. {s} \in SUBSET Library
    BY <1>1
  <2> QED
    BY <1>1, <2>1, WalkedLeast
<1>7. ASSUME NEW s \in skipped PROVE Walked({s}, g) \subseteq B
  <2>1. B \in SUBSET Library /\ s \in B /\ \A l \in B : g[l] \subseteq B
    BY <1>1, <1>2, <1>4
  <2> QED
    BY <1>6, <2>1
<1>8. ASSUME NEW t \in B PROVE \E s \in skipped : t \in Walked({s}, g)
  <2> DEFINE T == {u \in over : \E s \in skipped : u \in Walked({s}, g)}
  <2>1. T \in SUBSET over /\ A \cap over \subseteq T
    BY <1>4, <1>6
  <2>2. ASSUME NEW l \in T PROVE doc.dependsOn[l] \cap over \subseteq T
    <3>1. PICK s \in skipped : l \in Walked({s}, g)
      BY <2>2
    <3>2. g[l] \subseteq Walked({s}, g) /\ l \in Library
      BY <1>1, <1>6, <3>1
    <3> QED
      BY <1>1, <3>2
  <2>3. B \subseteq T
    BY <1>2, <2>1, <2>2
  <2> QED
    BY <2>3
<1>9. (\E s \in skipped : d \in FindNearest(doc, libs, s)) <=> \E t \in B : d \in doc.dependsOn[t]
  <2>1. \A s \in skipped : d \in FindNearest(doc, libs, s) <=> \E t \in Walked({s}, g) : d \in doc.dependsOn[t]
    BY <1>3
  <2> HIDE DEF skipped
  <2>2. ASSUME NEW s \in skipped, d \in FindNearest(doc, libs, s)
        PROVE  \E t \in B : d \in doc.dependsOn[t]
    BY <1>7, <2>1, <2>2
  <2>3. ASSUME NEW t \in B, d \in doc.dependsOn[t]
        PROVE  \E s \in skipped : d \in FindNearest(doc, libs, s)
    BY <1>8, <2>1, <2>3
  <2> QED
    BY <2>2, <2>3
<1> QED
  BY <1>5, <1>9 DEF B

-------------------------------------------------------------------------------
\* What has been returned is what the cataloger makes of the application, for some root
\* and some order of each document.
DotnetInv ==
    /\ given \in Applications
    /\ output = <<>> \/ \E root, order :
          /\ \A doc \in given.docs : /\ order[doc.name] \in Seq(doc.libs)
                                    /\ ToSet(order[doc.name]) = doc.libs
          /\ output = <<[result |-> Catalog(given.docs, given.pes, given.config, root, order),
                         root |-> root]>>

LEMMA DocumentsGiven ==
    ASSUME given \in Applications
    PROVE  /\ given.family = "dotnet" /\ given.config \in DotnetConfig
           /\ \A doc \in given.docs : IsDocument(doc) /\ IsFiniteSet(doc.libs)
           /\ \A d, e \in given.docs : d.name = e.name => d = e
<1>1. \A doc \in given.docs : doc.libs \subseteq Library
  BY ApplicationsAssumption
<1>2. \A doc \in given.docs : IsFiniteSet(doc.libs)
  BY <1>1, LibraryAssumption, FS_Subset
<1> QED
  BY <1>2, ApplicationsAssumption DEF IsDocument

LEMMA DotnetInvAlways == DotnetSpec => []DotnetInv
<1>1. DotnetInit => DotnetInv
  BY DEF DotnetInit, DotnetInv
<1>2. DotnetInv /\ [DotnetNext]_catalogVars => DotnetInv'
  <2> SUFFICES ASSUME DotnetInv, [DotnetNext]_catalogVars PROVE DotnetInv'
    OBVIOUS
  <2>1. CASE DotnetNext
    <3>1. given' = given /\ given \in Applications
      BY <2>1 DEF DotnetNext, DotnetInv
    <3>2. PICK root \in [{d.name : d \in given.docs} -> Library \cup {Nothing}] :
              output' = <<[result |-> Catalog(given.docs, given.pes, given.config, root,
                                              [n \in DOMAIN root |->
                                                  LET d == CHOOSE e \in given.docs : e.name = n
                                                  IN SetToSeq(d.libs)]),
                           root |-> root]>>
      BY <2>1 DEF DotnetNext, DotnetRun
    <3> DEFINE order == [n \in DOMAIN root |-> LET d == CHOOSE e \in given.docs : e.name = n
                                               IN SetToSeq(d.libs)]
    <3>3. ASSUME NEW doc \in given.docs
          PROVE  order[doc.name] \in Seq(doc.libs) /\ ToSet(order[doc.name]) = doc.libs
      <4>1. doc.name \in DOMAIN root
        OBVIOUS
      <4>2. (CHOOSE e \in given.docs : e.name = doc.name) = doc
        BY <3>1, DocumentsGiven
      <4>3. order[doc.name] = SetToSeq(doc.libs)
        BY <4>1, <4>2
      <4> QED
        BY <3>1, <4>3, DocumentsGiven, InSequence
    <3>4. output' = <<[result |-> Catalog(given.docs, given.pes, given.config, root, order), root |-> root]>>
      BY <3>2
    <3> HIDE DEF order
    <3> QED
      BY <3>1, <3>3, <3>4 DEF DotnetInv
  <2>2. CASE UNCHANGED catalogVars
    BY <2>2 DEF DotnetInv, catalogVars
  <2> QED
    BY <2>1, <2>2
<1> QED
  BY <1>1, <1>2, PTL DEF DotnetSpec

\* Packages that differ: in kind, in document or in library.
LEMMA PackagesDiffer ==
    /\ \A d, e, l, m : Dependency(d, l) = Dependency(e, m) <=> d.name = e.name /\ l = m
    /\ \A d, l : Dependency(d, l).kind = "library" /\ Dependency(d, l).of[2] = l
    /\ \A e : Asset(e).kind = "libman"
    /\ \A v : Runtime(v).kind = "runtime" /\ Runtime(v).of[1] = v
    /\ \A pe : Binary(pe).kind = "binary" /\ Binary(pe).of[1] = pe
<1>1. \A a, b, c, d : <<a, b>> = <<c, d>> <=> a = c /\ b = d
  OBVIOUS
<1>2. \A d, e, l, m : Dependency(d, l) = Dependency(e, m) <=> <<d.name, l>> = <<e.name, m>>
  BY DEF Dependency
<1> QED
  BY <1>1, <1>2 DEF Dependency, Asset, Runtime, Binary

\* The parts of what the cataloger returns.
Used == considered(given.docs, given.pes, given.config)
Libs(root, order) == [doc \in Used |-> kept(doc, given.pes, given.config, order[doc.name], root[doc.name])]
Described(root, order) == UNION {{Dependency(doc, l) : l \in Libs(root, order)[doc]} : doc \in Used}
Assets == {Asset(doc) : doc \in {d \in Used : d.libman}}
RootsOf(root) == {Dependency(doc, root[doc.name]) : doc \in {d \in Used : root[d.name] # Nothing}}
LeftOver == Remaining(given.docs, given.pes)
InRuntime == {pe \in LeftOver : RuntimeVersion[pe] # Nothing}
Versions(root, order) == {RuntimeVersion[p.of[2]] : p \in Described(root, order)}
MadeUp(root, order) ==
    {Runtime(RuntimeVersion[pe]) : pe \in {e \in InRuntime : RuntimeVersion[e] \notin Versions(root, order)}}
Runtimes(root, order) ==
    {p \in Described(root, order) : RuntimeVersion[p.of[2]] # Nothing} \cup MadeUp(root, order)
Binaries == {Binary(pe) : pe \in LeftOver \ InRuntime}

LEMMA PackagesAre ==
    ASSUME NEW root, NEW order
    PROVE  Catalog(given.docs, given.pes, given.config, root, order).packages
               = Described(root, order) \cup Assets \cup MadeUp(root, order) \cup Binaries
BY DEF Catalog, Used, Libs, Described, Assets, LeftOver, InRuntime, Versions, MadeUp, Binaries

LEMMA RelationshipsAre ==
    ASSUME NEW root, NEW order
    PROVE  Catalog(given.docs, given.pes, given.config, root, order).relationships
               = Required(Libs(root, order)) \cup AssetsToRoots(Used, root)
                     \cup RuntimesToRoots(Runtimes(root, order), RootsOf(root))
BY DEF Catalog, Used, Libs, Described, RootsOf, LeftOver, InRuntime, Versions, MadeUp, Runtimes

LEMMA EvidenceIs ==
    ASSUME NEW root, NEW order
    PROVE  LET out == Catalog(given.docs, given.pes, given.config, root, order)
           IN /\ DOMAIN out.evidence = Described(root, order)
              /\ \A p \in Described(root, order) : out.evidence[p] =
                    UNION {e.claims[p.of[2]] \cap given.pes : e \in {d \in Used : d.name = p.of[1]}}
BY DEF Catalog, Used, Libs, Described

LEMMA InvJumps == DotnetInv => DependenciesJumpSkipped
<1> SUFFICES ASSUME DotnetInv, output # <<>>,
                    NEW doc \in considered(given.docs, given.pes, given.config)
             PROVE
        LET out == output[1].result
            root == output[1].root[doc.name]
            wanted == {l \in doc.libs : WantedOf(doc, given.pes, given.config, root, l)}
            leads(p, d) == d \in doc.dependsOn[p] \cup
                UNION {doc.dependsOn[s] : s \in Between(doc, doc.dependsOn[p], doc.libs \ wanted)}
        IN /\ {l \in Library : Dependency(doc, l) \in out.packages} = wanted
           /\ \A p, d \in wanted :
                  [from |-> Dependency(doc, d), to |-> Dependency(doc, p), type |-> "dependency-of"]
                      \in out.relationships
                  <=> leads(p, d) \/ (p = root /\ RuntimeVersion[d] # Nothing)
  BY DEF DependenciesJumpSkipped, Ran
<1>1. PICK root, order :
          /\ \A e \in given.docs : order[e.name] \in Seq(e.libs) /\ ToSet(order[e.name]) = e.libs
          /\ output = <<[result |-> Catalog(given.docs, given.pes, given.config, root, order),
                         root |-> root]>>
  BY DEF DotnetInv
<1> DEFINE pes == given.pes
           config == given.config
           described == Described(root, order)
           madeUp == MadeUp(root, order)
           required == Required(Libs(root, order))
           ofAssets == AssetsToRoots(Used, root)
           ofRuntimes == RuntimesToRoots(Runtimes(root, order), RootsOf(root))
           out == output[1].result
           edge(x, y) == DependencyEdge(x, y)
           wanted == {l \in doc.libs : WantedOf(doc, pes, config, root[doc.name], l)}
<1>2. /\ out = Catalog(given.docs, pes, config, root, order)
      /\ output[1].root = root
  BY <1>1
<1>3. /\ out.packages = described \cup Assets \cup madeUp \cup Binaries
      /\ out.relationships = required \cup ofAssets \cup ofRuntimes
  BY <1>2, PackagesAre, RelationshipsAre
<1>4. /\ config \in DotnetConfig /\ doc \in Used /\ Used \subseteq given.docs
      /\ \A d \in given.docs : IsDocument(d)
      /\ \A d, e \in given.docs : d.name = e.name => d = e
  BY DocumentsGiven DEF DotnetInv, considered, Used
<1>5. Libs(root, order)[doc] = wanted /\ wanted \subseteq doc.libs /\ doc.libs \subseteq Library
  BY <1>1, <1>4, KeptWanted DEF IsDocument, Libs
<1> HIDE DEF out, wanted
<1>6. \A l : Dependency(doc, l) \in described <=> l \in Libs(root, order)[doc]
  <2>1. ASSUME NEW l, NEW e \in Used, NEW m \in Libs(root, order)[e], Dependency(doc, l) = Dependency(e, m)
        PROVE  l \in Libs(root, order)[doc]
    BY <1>4, <2>1, PackagesDiffer
  <2> QED
    BY <1>4, <2>1 DEF Described
<1>7. \A l : Dependency(doc, l) \notin Assets \cup madeUp \cup Binaries
  <2>1. \A x \in Assets \cup madeUp \cup Binaries : x.kind # "library"
    BY PackagesDiffer DEF Assets, MadeUp, Binaries
  <2> QED
    BY <2>1, PackagesDiffer
<1>8. {l \in Library : Dependency(doc, l) \in out.packages} = wanted
  BY <1>3, <1>5, <1>6, <1>7
<1>9. \A d, l : PackageID(Dependency(d, l)) = Dependency(d, l)
  BY PackagesDiffer DEF PackageID
<1>10. ASSUME NEW p \in wanted, NEW d \in wanted
       PROVE  edge(Dependency(doc, d), Dependency(doc, p)) \in required
                  <=> <<d, p>> \in relationshipsOf(doc, wanted)
  <2>1. ASSUME NEW e \in Used, NEW r \in relationshipsOf(e, Libs(root, order)[e]),
               edge(Dependency(doc, d), Dependency(doc, p)) = edge(Dependency(e, r[1]), Dependency(e, r[2]))
        PROVE  <<d, p>> \in relationshipsOf(doc, wanted)
    <3>1. Dependency(doc, d) = Dependency(e, r[1]) /\ Dependency(doc, p) = Dependency(e, r[2])
      BY <1>9, <2>1 DEF DependencyEdge
    <3>2. e = doc /\ d = r[1] /\ p = r[2]
      BY <1>4, <3>1, PackagesDiffer
    <3>3. r = <<r[1], r[2]>>
      BY DEF relationshipsOf
    <3> QED
      BY <1>5, <3>2, <3>3
  <2>2. ASSUME <<d, p>> \in relationshipsOf(doc, wanted)
        PROVE  edge(Dependency(doc, d), Dependency(doc, p)) \in required
    <3> DEFINE r == <<d, p>>
    <3>1. r \in relationshipsOf(doc, Libs(root, order)[doc]) /\ r[1] = d /\ r[2] = p
      BY <1>5, <2>2
    <3> HIDE DEF r
    <3> QED
      BY <1>4, <3>1 DEF Required, Libs
  <2> QED
    BY <2>1, <2>2 DEF Required, Libs
<1>11. ASSUME NEW p \in wanted, NEW d \in wanted
       PROVE  edge(Dependency(doc, d), Dependency(doc, p)) \notin ofAssets
  <2>1. \A e : PackageID(Asset(e)).kind = "libman"
    BY PackagesDiffer DEF PackageID
  <2>2. ASSUME NEW e, NEW q, edge(Dependency(doc, d), Dependency(doc, p)) = edge(Asset(e), q) PROVE FALSE
    <3>1. Dependency(doc, d) = PackageID(Asset(e))
      BY <1>9, <2>2 DEF DependencyEdge
    <3> QED
      BY <2>1, <3>1, PackagesDiffer
  <2> QED
    BY <2>2 DEF AssetsToRoots
<1>12. ASSUME NEW p \in wanted, NEW d \in wanted
       PROVE  edge(Dependency(doc, d), Dependency(doc, p)) \in ofRuntimes
                  <=> p = root[doc.name] /\ RuntimeVersion[d] # Nothing
  <2>1. ASSUME NEW x \in Runtimes(root, order), NEW r \in RootsOf(root),
               edge(Dependency(doc, d), Dependency(doc, p)) = edge(x, r)
        PROVE  p = root[doc.name] /\ RuntimeVersion[d] # Nothing
    <3>1. PICK e \in Used : r = Dependency(e, root[e.name])
      BY DEF RootsOf
    <3>2. Dependency(doc, p) = Dependency(e, root[e.name]) /\ Dependency(doc, d) = PackageID(x)
      BY <1>9, <2>1, <3>1 DEF DependencyEdge
    <3>3. p = root[doc.name]
      BY <1>4, <3>2, PackagesDiffer
    <3>4. x \notin madeUp
      <4>1. \A y \in madeUp : y.kind = "runtime"
        BY PackagesDiffer DEF MadeUp
      <4>2. \A y \in madeUp : PackageID(y).kind = "none"
        BY <4>1 DEF PackageID, NoID
      <4> QED
        BY <3>2, <4>2, PackagesDiffer
    <3>5. x \in described /\ RuntimeVersion[x.of[2]] # Nothing
      BY <3>4 DEF Runtimes
    <3>6. PICK f, l : x = Dependency(f, l)
      BY <3>5 DEF Described
    <3>7. x = Dependency(doc, d)
      BY <1>9, <3>2, <3>6
    <3> QED
      BY <3>3, <3>5, <3>7, PackagesDiffer
  <2>2. ASSUME p = root[doc.name], RuntimeVersion[d] # Nothing
        PROVE  edge(Dependency(doc, d), Dependency(doc, p)) \in ofRuntimes
    <3>1. Dependency(doc, d) \in Runtimes(root, order)
      BY <1>5, <1>6, <2>2, PackagesDiffer DEF Runtimes
    <3>2. p # Nothing
      BY <1>5, LibraryAssumption
    <3>3. Dependency(doc, p) \in RootsOf(root)
      BY <1>4, <2>2, <3>2 DEF RootsOf
    <3> QED
      BY <3>1, <3>3 DEF RuntimesToRoots
  <2> QED
    BY <2>1, <2>2 DEF RuntimesToRoots
<1>13. ASSUME NEW p \in wanted, NEW d \in wanted
       PROVE  [from |-> Dependency(doc, d), to |-> Dependency(doc, p), type |-> "dependency-of"]
                      \in out.relationships
                  <=> \/ d \in doc.dependsOn[p] \cup
                            UNION {doc.dependsOn[s] : s \in Between(doc, doc.dependsOn[p], doc.libs \ wanted)}
                      \/ (p = root[doc.name] /\ RuntimeVersion[d] # Nothing)
  <2>1. [from |-> Dependency(doc, d), to |-> Dependency(doc, p), type |-> "dependency-of"]
            = edge(Dependency(doc, d), Dependency(doc, p))
    BY <1>9 DEF DependencyEdge
  <2>2. <<d, p>> \in relationshipsOf(doc, wanted)
            <=> d \in doc.dependsOn[p] \cup
                    UNION {doc.dependsOn[s] : s \in Between(doc, doc.dependsOn[p], doc.libs \ wanted)}
    BY <1>4, <1>5, NearestBetween
  <2> DEFINE x == edge(Dependency(doc, d), Dependency(doc, p))
             leads == d \in doc.dependsOn[p] \cup
                UNION {doc.dependsOn[s] : s \in Between(doc, doc.dependsOn[p], doc.libs \ wanted)}
  <2> HIDE DEF edge
  <2>3. x \in out.relationships <=> x \in required \/ x \in ofAssets \/ x \in ofRuntimes
    BY <1>3
  <2>4. x \in required <=> <<d, p>> \in relationshipsOf(doc, wanted)
    BY <1>10
  <2>5. x \notin ofAssets
    BY <1>11
  <2>6. x \in ofRuntimes <=> p = root[doc.name] /\ RuntimeVersion[d] # Nothing
    BY <1>12
  <2>7. <<d, p>> \in relationshipsOf(doc, wanted) <=> leads
    BY <2>2
  <2> HIDE DEF x, leads
  <2>8. x \in out.relationships <=> leads \/ (p = root[doc.name] /\ RuntimeVersion[d] # Nothing)
    BY <2>3, <2>4, <2>5, <2>6, <2>7
  <2> QED
    BY <2>1, <2>8 DEF x, leads
<1> QED
  BY <1>2, <1>8, <1>13 DEF out, wanted

\* DependenciesJumpSkipped, for every application: an application gives the packages that
\* its configuration wants, and the relationships among them lead over what was skipped.
THEOREM DependenciesJumpAlways == DotnetSpec => []DependenciesJumpSkipped
BY DotnetInvAlways, InvJumps, PTL

\* An executable that a library claims and that was found makes its document one that
\* packages are made from, and the library one that is kept unless its kind is skipped.
LEMMA ClaimantKept ==
    ASSUME NEW root, NEW order, given \in Applications,
           \A e \in given.docs : order[e.name] \in Seq(e.libs) /\ ToSet(order[e.name]) = e.libs,
           NEW doc \in given.docs, NEW l \in doc.libs, NEW pe \in given.pes, pe \in doc.claims[l],
           doc.kind[l] # "reference", given.config.excludeProjects => doc.kind[l] # "project"
    PROVE  doc \in Used /\ l \in Libs(root, order)[doc]
<1>1. doc \in Used
  BY DEF Used, considered, Attached
<1>2. IsDocument(doc) /\ given.config \in DotnetConfig
  BY DocumentsGiven
<1>3. WantedOf(doc, given.pes, given.config, root[doc.name], l)
  BY DEF WantedOf
<1>4. kept(doc, given.pes, given.config, order[doc.name], root[doc.name])
          = {m \in doc.libs : WantedOf(doc, given.pes, given.config, root[doc.name], m)}
  BY <1>2, KeptWanted
<1>5. Libs(root, order)[doc] = kept(doc, given.pes, given.config, order[doc.name], root[doc.name])
  BY <1>1 DEF Libs
<1> QED
  BY <1>1, <1>3, <1>4, <1>5

\* An executable that is left over and a part of a runtime is a part of one that is a
\* package.
LEMMA RuntimePackaged ==
    ASSUME NEW root, NEW order, NEW pe \in LeftOver, RuntimeVersion[pe] # Nothing
    PROVE  \E p \in Described(root, order) \cup MadeUp(root, order) :
               \/ p = Runtime(RuntimeVersion[pe])
               \/ p.kind = "library" /\ RuntimeVersion[p.of[2]] = RuntimeVersion[pe]
<1>1. pe \in InRuntime
  BY DEF InRuntime
<1>2. CASE RuntimeVersion[pe] \in Versions(root, order)
  <2>1. PICK p \in Described(root, order) : RuntimeVersion[p.of[2]] = RuntimeVersion[pe]
    BY <1>2 DEF Versions
  <2>2. p.kind = "library"
    BY PackagesDiffer DEF Described
  <2> QED
    BY <2>1, <2>2
<1>3. CASE RuntimeVersion[pe] \notin Versions(root, order)
  <2>1. Runtime(RuntimeVersion[pe]) \in MadeUp(root, order)
    BY <1>1, <1>3 DEF MadeUp
  <2> QED
    BY <2>1
<1> QED
  BY <1>2, <1>3

LEMMA InvSpoken == DotnetInv => ExecutablesSpokenFor
<1> SUFFICES ASSUME DotnetInv, output # <<>>, NEW pe \in given.pes
             PROVE
        LET out == output[1].result
            claimants == {c \in given.docs \X Library : c[2] \in c[1].libs /\ pe \in c[1].claims[c[2]]}
        IN Binary(pe) \in out.packages <=>
           ~ \/ \E p \in DOMAIN out.evidence : pe \in out.evidence[p]
             \/ RuntimeVersion[pe] # Nothing /\ \E p \in out.packages :
                    \/ p = Runtime(RuntimeVersion[pe])
                    \/ p.kind = "library" /\ RuntimeVersion[p.of[2]] = RuntimeVersion[pe]
             \/ \E doc \in given.docs : pe = doc.carrier
             \/ claimants # {} /\ \A c \in claimants :
                    \/ c[1].kind[c[2]] = "reference"
                    \/ given.config.excludeProjects /\ c[1].kind[c[2]] = "project"
  BY DEF ExecutablesSpokenFor, Ran
<1>1. PICK root, order :
          /\ \A e \in given.docs : order[e.name] \in Seq(e.libs) /\ ToSet(order[e.name]) = e.libs
          /\ output = <<[result |-> Catalog(given.docs, given.pes, given.config, root, order),
                         root |-> root]>>
  BY DEF DotnetInv
<1> DEFINE out == output[1].result
           described == Described(root, order)
           claimants == {c \in given.docs \X Library : c[2] \in c[1].libs /\ pe \in c[1].claims[c[2]]}
           evident == \E p \in DOMAIN out.evidence : pe \in out.evidence[p]
           inRuntime == RuntimeVersion[pe] # Nothing /\ \E p \in out.packages :
                            \/ p = Runtime(RuntimeVersion[pe])
                            \/ p.kind = "library" /\ RuntimeVersion[p.of[2]] = RuntimeVersion[pe]
           carries == \E doc \in given.docs : pe = doc.carrier
           leftOut(c) == \/ c[1].kind[c[2]] = "reference"
                         \/ given.config.excludeProjects /\ c[1].kind[c[2]] = "project"
           attached == \E doc \in given.docs : \E l \in doc.libs : pe \in doc.claims[l]
<1>2. out = Catalog(given.docs, given.pes, given.config, root, order) /\ given \in Applications
  BY <1>1 DEF DotnetInv
<1>3. out.packages = described \cup Assets \cup MadeUp(root, order) \cup Binaries
  BY <1>2, PackagesAre
<1>4. /\ DOMAIN out.evidence = described
      /\ \A p \in described : out.evidence[p] =
            UNION {e.claims[p.of[2]] \cap given.pes : e \in {d \in Used : d.name = p.of[1]}}
  BY <1>2, EvidenceIs
<1>5. /\ \A d \in given.docs : IsDocument(d)
      /\ \A d, e \in given.docs : d.name = e.name => d = e
      /\ Used \subseteq given.docs
  BY <1>2, DocumentsGiven DEF considered, Used
<1> HIDE DEF out
<1>6. Binary(pe) \in out.packages <=> pe \in LeftOver /\ RuntimeVersion[pe] = Nothing
  <2>1. \A x \in described \cup Assets \cup MadeUp(root, order) : x.kind # "binary"
    BY PackagesDiffer DEF Described, Assets, MadeUp
  <2>2. \A e : Binary(pe) = Binary(e) <=> pe = e
    BY PackagesDiffer
  <2>3. Binary(pe) \in Binaries <=> pe \in LeftOver \ InRuntime
    BY <2>2 DEF Binaries
  <2>4. Binary(pe).kind = "binary"
    BY PackagesDiffer
  <2> QED
    BY <1>3, <2>1, <2>3, <2>4 DEF InRuntime
<1>7. pe \in LeftOver <=> ~attached /\ ~carries
  BY DEF LeftOver, Remaining, Attached
<1>8. \A doc \in given.docs : \A l \in doc.libs : l \in Library
  BY <1>5 DEF IsDocument
<1>9. claimants # {} <=> attached
  <2>1. ASSUME NEW doc \in given.docs, NEW l \in doc.libs, pe \in doc.claims[l]
        PROVE  <<doc, l>> \in claimants
    BY <1>8, <2>1
  <2> QED
    BY <2>1
<1>10. evident => attached
  <2> SUFFICES ASSUME NEW p \in described, pe \in out.evidence[p] PROVE attached
    BY <1>4
  <2>1. PICK e \in Used : e.name = p.of[1] /\ pe \in e.claims[p.of[2]]
    BY <1>4
  <2>2. PICK doc \in Used : \E l \in Libs(root, order)[doc] : p = Dependency(doc, l)
    BY DEF Described
  <2>3. PICK l \in Libs(root, order)[doc] : p = Dependency(doc, l)
    BY <2>2
  <2>4. p.of[1] = doc.name /\ p.of[2] = l
    BY <2>3 DEF Dependency
  <2>5. e = doc
    BY <1>5, <2>1, <2>4
  <2>6. l \in doc.libs
    BY DEF Libs, kept
  <2> QED
    BY <1>5, <2>1, <2>4, <2>5, <2>6
<1>11. ASSUME NEW c \in claimants, ~leftOut(c) PROVE evident
  <2>1. c[1] \in given.docs /\ c[2] \in c[1].libs /\ pe \in c[1].claims[c[2]]
    OBVIOUS
  <2> DEFINE doc == c[1]
             l == c[2]
             p == Dependency(doc, l)
  <2>2. doc \in Used /\ l \in Libs(root, order)[doc]
    BY <1>1, <1>2, <1>11, <2>1, ClaimantKept
  <2> HIDE DEF doc, l
  <2>3. p \in described
    BY <2>2 DEF Described
  <2>4. p.of[1] = doc.name /\ p.of[2] = l
    BY DEF Dependency
  <2>5. pe \in doc.claims[l] \cap given.pes
    BY <2>1 DEF doc, l
  <2>6. pe \in out.evidence[p]
    BY <1>4, <2>2, <2>3, <2>4, <2>5
  <2> QED
    BY <1>4, <2>3, <2>6
<1>12. pe \in LeftOver /\ RuntimeVersion[pe] # Nothing => inRuntime
  BY <1>3, RuntimePackaged
<1> DEFINE skipped == claimants # {} /\ \A c \in claimants : leftOut(c)
<1>13. attached => evident \/ skipped
  BY <1>9, <1>11
<1>14. skipped => attached
  BY <1>9
<1>15. inRuntime => RuntimeVersion[pe] # Nothing
  OBVIOUS
<1> HIDE DEF evident, inRuntime, carries, skipped, attached
<1>16. Binary(pe) \in out.packages <=> ~(evident \/ inRuntime \/ carries \/ skipped)
  BY <1>6, <1>7, <1>10, <1>12, <1>13, <1>14, <1>15
<1> QED
  BY <1>16 DEF evident, inRuntime, carries, skipped, out

\* ExecutablesSpokenFor, for every application: no executable is lost and none is
\* reported twice, whatever claims it and whatever is skipped.
THEOREM ExecutablesAlwaysSpokenFor == DotnetSpec => []ExecutablesSpokenFor
BY DotnetInvAlways, InvSpoken, PTL

--------------------------------------------------------------------------------
(* The selection of catalogers.                                               *)

(* What a list holds.                                                          *)

LEMMA HoldsOf ==
    ASSUME NEW T, NEW s \in Seq(T)
    PROVE  ToSet(s) = {s[i] : i \in 1 .. Len(s)} /\ ToSet(s) \subseteq T
BY LenProperties, ElementOfSeq DEF ToSet

LEMMA HoldsBoth ==
    ASSUME NEW T, NEW s \in Seq(T), NEW t \in Seq(T)
    PROVE  s \o t \in Seq(T) /\ Len(s \o t) = Len(s) + Len(t)
           /\ ToSet(s \o t) = ToSet(s) \cup ToSet(t)
<1>1. Len(s) \in Nat /\ Len(t) \in Nat
  BY LenProperties
<1> DEFINE r == s \o t
<1>2. /\ r \in Seq(T) /\ Len(r) = Len(s) + Len(t)
      /\ \A i \in 1 .. Len(s) + Len(t) : r[i] = IF i <= Len(s) THEN s[i] ELSE t[i - Len(s)]
  BY ConcatProperties
<1> HIDE DEF r
<1>3. /\ ToSet(s) = {s[i] : i \in 1 .. Len(s)}
      /\ ToSet(t) = {t[i] : i \in 1 .. Len(t)}
      /\ ToSet(r) = {r[i] : i \in 1 .. Len(s) + Len(t)}
  BY <1>2, HoldsOf
<1>4. \A i \in 1 .. Len(s) : i \in 1 .. Len(s) + Len(t) /\ r[i] = s[i]
  BY <1>1, <1>2
<1>5. ASSUME NEW i \in 1 .. Len(t) PROVE \E j \in 1 .. Len(s) + Len(t) : r[j] = t[i]
  <2> DEFINE j == Len(s) + i
  <2>1. j \in 1 .. Len(s) + Len(t) /\ ~(j <= Len(s)) /\ j - Len(s) = i
    BY <1>1
  <2> HIDE DEF j
  <2> QED
    BY <1>2, <2>1
<1>6. \A i \in 1 .. Len(s) + Len(t) :
          (i <= Len(s) => i \in 1 .. Len(s)) /\ (~(i <= Len(s)) => i - Len(s) \in 1 .. Len(t))
  BY <1>1
<1>7. ToSet(r) \subseteq ToSet(s) \cup ToSet(t)
  BY <1>2, <1>3, <1>6
<1>8. ToSet(s) \subseteq ToSet(r)
  BY <1>3, <1>4
<1>9. ToSet(t) \subseteq ToSet(r)
  BY <1>3, <1>5
<1> QED
  BY <1>2, <1>7, <1>8, <1>9 DEF r

LEMMA HoldsPart ==
    ASSUME NEW T, NEW s \in Seq(T), NEW a \in 1 .. Len(s) + 1, NEW b \in 0 .. Len(s), a <= b + 1
    PROVE  /\ SubSeq(s, a, b) \in Seq(T) /\ Len(SubSeq(s, a, b)) = b - a + 1
           /\ ToSet(SubSeq(s, a, b)) = {s[i] : i \in a .. b}
           /\ \A i \in 1 .. b - a + 1 : SubSeq(s, a, b)[i] = s[a + i - 1]
<1> DEFINE r == SubSeq(s, a, b)
<1>1. Len(s) \in Nat /\ a \in Nat /\ b \in Nat /\ a \in Int /\ b \in Int
  BY LenProperties
<1>2. \A i \in a .. b : i \in 1 .. Len(s) /\ s[i] \in T
  BY <1>1, ElementOfSeq
<1>3. /\ r \in Seq(T) /\ Len(r) = IF a <= b THEN b - a + 1 ELSE 0
      /\ \A i \in 1 .. b - a + 1 : r[i] = s[a + i - 1]
  BY <1>1, <1>2, SubSeqProperties
<1> HIDE DEF r
<1>4. Len(r) = b - a + 1
  BY <1>1, <1>3
<1>5. ToSet(r) = {r[i] : i \in 1 .. b - a + 1}
  BY <1>3, <1>4, HoldsOf
<1>6. \A i \in 1 .. b - a + 1 : a + i - 1 \in a .. b
  BY <1>1
<1>7. ASSUME NEW i \in a .. b PROVE \E j \in 1 .. b - a + 1 : r[j] = s[i]
  <2> DEFINE j == i - a + 1
  <2>1. j \in 1 .. b - a + 1 /\ a + j - 1 = i
    BY <1>1
  <2> HIDE DEF j
  <2> QED
    BY <1>3, <2>1
<1>8. ToSet(r) \subseteq {s[i] : i \in a .. b}
  BY <1>3, <1>5, <1>6
<1>9. {s[i] : i \in a .. b} \subseteq ToSet(r)
  BY <1>5, <1>7
<1> QED
  BY <1>3, <1>4, <1>8, <1>9 DEF r

-------------------------------------------------------------------------------
(* Replacing "default".                                                        *)

SliceOf(T) == [cells : Seq(T), len : Nat]

\* What a list holds but for the one at p, and that list with those of tags in its place.
Others(v, p) == {v[i] : i \in 1 .. Len(v) \ {p}}
HoldsBut(l, v, p, tags) == ToSet(l) = Others(v, p) \cup ToSet(tags)
Spliced(v, p, tags) == SubSeq(v, 1, p - 1) \o tags \o SubSeq(v, p + 1, Len(v))

LEMMA SplicedHolds ==
    ASSUME NEW T, NEW v \in Seq(T), NEW tags \in Seq(T), NEW p \in 1 .. Len(v)
    PROVE  /\ Spliced(v, p, tags) \in Seq(T)
           /\ Len(Spliced(v, p, tags)) = Len(v) - 1 + Len(tags)
           /\ HoldsBut(Spliced(v, p, tags), v, p, tags)
<1> DEFINE n == Len(v)
           front == SubSeq(v, 1, p - 1)
           back == SubSeq(v, p + 1, n)
<1>1. /\ n \in Nat /\ p \in 1 .. n /\ Len(tags) \in Nat
      /\ p - 1 \in 0 .. n /\ 1 \in 1 .. n + 1 /\ 1 <= p - 1 + 1
      /\ p + 1 \in 1 .. n + 1 /\ n \in 0 .. n /\ p + 1 <= n + 1
  BY LenProperties
<1>2. /\ front \in Seq(T) /\ Len(front) = p - 1 - 1 + 1
      /\ ToSet(front) = {v[i] : i \in 1 .. p - 1}
  BY <1>1, HoldsPart
<1>3. /\ back \in Seq(T) /\ Len(back) = n - (p + 1) + 1
      /\ ToSet(back) = {v[i] : i \in p + 1 .. n}
  BY <1>1, HoldsPart
<1> HIDE DEF front, back
<1>4. /\ front \o tags \in Seq(T) /\ Len(front \o tags) = Len(front) + Len(tags)
      /\ ToSet(front \o tags) = ToSet(front) \cup ToSet(tags)
  BY <1>2, HoldsBoth
<1> DEFINE w == front \o tags
<1>5. w \in Seq(T) /\ Len(w) = Len(front) + Len(tags) /\ ToSet(w) = ToSet(front) \cup ToSet(tags)
  BY <1>4
<1> HIDE DEF w
<1>6. /\ w \o back \in Seq(T) /\ Len(w \o back) = Len(w) + Len(back)
      /\ ToSet(w \o back) = ToSet(w) \cup ToSet(back)
  <2>1. w \in Seq(T) /\ back \in Seq(T)
    BY <1>3, <1>5
  <2> QED
    BY <2>1, HoldsBoth
<1>7. Spliced(v, p, tags) = w \o back
  BY DEF Spliced, w, front, back
<1>8. Len(w \o back) = n - 1 + Len(tags)
  BY <1>1, <1>2, <1>3, <1>5, <1>6
<1>9. 1 .. n \ {p} = (1 .. p - 1) \cup (p + 1 .. n)
  BY <1>1
<1>10. Others(v, p) = ToSet(front) \cup ToSet(back)
  BY <1>2, <1>3, <1>9 DEF Others
<1> QED
  BY <1>5, <1>6, <1>7, <1>8, <1>10 DEF HoldsBut

\* The one place of "default" in a list, or none.
PlaceOf(s, p) == p \in 1 .. s.len + 1 /\ \A i \in 1 .. s.len : s.cells[i] = Default <=> i = p

Untouched(s) == [read |-> s, list |-> View(s), shared |-> TRUE]

LEMMA ViewOf ==
    ASSUME NEW T, NEW s \in SliceOf(T), s.len <= Len(s.cells)
    PROVE  /\ View(s) \in Seq(T) /\ Len(View(s)) = s.len
           /\ ToSet(View(s)) = {s.cells[i] : i \in 1 .. s.len}
           /\ \A i \in 1 .. s.len : View(s)[i] = s.cells[i]
<1>1. s.cells \in Seq(T) /\ s.len \in Nat /\ Len(s.cells) \in Nat
  BY LenProperties DEF SliceOf
<1> DEFINE c == s.cells
           n == s.len
<1>2. c \in Seq(T) /\ n \in 0 .. Len(c) /\ 1 \in 1 .. Len(c) + 1 /\ 1 <= n + 1 /\ n - 1 + 1 = n
      /\ \A i \in 1 .. n : 1 + i - 1 = i
  BY <1>1
<1> HIDE DEF c, n
<1>3. /\ SubSeq(c, 1, n) \in Seq(T) /\ Len(SubSeq(c, 1, n)) = n - 1 + 1
      /\ ToSet(SubSeq(c, 1, n)) = {c[i] : i \in 1 .. n}
      /\ \A i \in 1 .. n - 1 + 1 : SubSeq(c, 1, n)[i] = c[1 + i - 1]
  BY <1>2, HoldsPart
<1> QED
  BY <1>2, <1>3 DEF View, c, n

\* One replacement: the tags take the place of "default", and the list as the caller
\* sees it keeps no "default" elsewhere.
LEMMA ReplacedOnce ==
    ASSUME NEW T, NEW s \in SliceOf(T), s.len <= Len(s.cells), NEW tags \in Seq(T),
           Len(tags) > 1, Default \notin ToSet(tags), NEW p \in 1 .. s.len, PlaceOf(s, p),
           NEW w, w = replaceStep(tags, Untouched(s), p)
    PROVE  /\ w \in [read : SliceOf(T), list : Seq(T), shared : BOOLEAN]
           /\ ToSet(w.list) = (ToSet(View(s)) \ {Default}) \cup ToSet(tags)
           /\ s.len = Len(s.cells) => w.read = s
           /\ w.read.len = s.len
           /\ \A i \in 1 .. s.len : i # p => View(w.read)[i] # Default
<1> DEFINE c == s.cells
           n == s.len
           v == View(s)
           l == Spliced(v, p, tags)
           r == Overwrite(s, l)
           d == SubSeq(c, Len(l) + 1, Len(c))
<1>1. c \in Seq(T) /\ n \in Nat /\ Len(c) \in Nat /\ n <= Len(c) /\ s = [cells |-> c, len |-> n]
  BY LenProperties DEF SliceOf
<1>2. v \in Seq(T) /\ Len(v) = n /\ ToSet(v) = {c[i] : i \in 1 .. n} /\ \A i \in 1 .. n : v[i] = c[i]
  BY ViewOf
<1>3. Untouched(s).read = s /\ Untouched(s).list = v /\ Untouched(s).shared = TRUE
  BY DEF Untouched
<1>4. v[p] = Default
  BY <1>2 DEF PlaceOf
<1>5. w = [list |-> l, shared |-> Len(l) <= Len(c), read |-> r]
  <2> DEFINE u == Untouched(s)
  <2>1. u.read = s /\ u.list = v /\ u.shared = TRUE /\ View(u.read)[p] = Default
    BY <1>3, <1>4
  <2> HIDE DEF u
  <2>2. replaceStep(tags, u, p) =
            [list |-> Spliced(u.list, p, tags),
             shared |-> u.shared /\ Len(Spliced(u.list, p, tags)) <= Len(u.read.cells),
             read |-> IF u.shared THEN Overwrite(u.read, Spliced(u.list, p, tags)) ELSE u.read]
    BY <2>1 DEF replaceStep, Spliced
  <2>3. w = replaceStep(tags, u, p)
    BY DEF u
  <2> HIDE DEF l
  <2>4. Spliced(u.list, p, tags) = l
    BY <2>1 DEF l
  <2> QED
    BY <2>1, <2>2, <2>3, <2>4
<1> HIDE DEF v
<1>6. /\ l \in Seq(T) /\ Len(l) = n - 1 + Len(tags)
      /\ ToSet(l) = Others(v, p) \cup ToSet(tags)
  <2>1. v \in Seq(T) /\ p \in 1 .. Len(v)
    BY <1>2
  <2> HIDE DEF n
  <2>2. /\ l \in Seq(T) /\ Len(l) = Len(v) - 1 + Len(tags)
        /\ ToSet(l) = Others(v, p) \cup ToSet(tags)
    <3>1. /\ Spliced(v, p, tags) \in Seq(T)
          /\ Len(Spliced(v, p, tags)) = Len(v) - 1 + Len(tags)
          /\ HoldsBut(Spliced(v, p, tags), v, p, tags)
      BY <2>1, SplicedHolds
    <3> QED
      BY <3>1 DEF HoldsBut
  <2> HIDE DEF l
  <2> QED
    BY <1>2, <2>2
<1> HIDE DEF l
<1>7. Len(l) \in Nat /\ Len(l) > n /\ Len(tags) \in Nat
  BY <1>1, <1>6, LenProperties
<1>8. Others(v, p) = ToSet(v) \ {Default}
  BY <1>2 DEF PlaceOf, Others
<1>9. Default \notin ToSet(l)
  BY <1>6, <1>8
<1>10. \A i \in 1 .. Len(l) : l[i] # Default
  BY <1>6, <1>9, HoldsOf
<1>11. r = IF Len(l) > Len(c) THEN s ELSE [cells |-> l \o d, len |-> n]
  <2>1. r = IF Len(l) > Len(c) THEN s ELSE [s EXCEPT !.cells = l \o SubSeq(c, Len(l) + 1, Len(c))]
    BY DEF Overwrite
  <2> HIDE DEF c, n, r
  <2>2. [s EXCEPT !.cells = l \o SubSeq(c, Len(l) + 1, Len(c))] = [cells |-> l \o d, len |-> n]
    <3>1. \A x : [s EXCEPT !.cells = x] = [cells |-> x, len |-> n]
      BY <1>1
    <3> QED
      BY <3>1
  <2> QED
    BY <2>1, <2>2
<1> HIDE DEF r
<1>12. CASE Len(l) > Len(c)
  <2>1. r = s
    BY <1>11, <1>12
  <2>2. \A i \in 1 .. n : i # p => v[i] # Default
    BY <1>2 DEF PlaceOf
  <2> QED
    BY <1>5, <1>6, <1>8, <2>1, <2>2 DEF v
<1>13. CASE Len(l) <= Len(c)
  <2>1. r = [cells |-> l \o d, len |-> n]
    BY <1>1, <1>7, <1>11, <1>13
  <2>2. d \in Seq(T) /\ Len(d) = Len(c) - (Len(l) + 1) + 1
    <3>1. Len(l) + 1 \in 1 .. Len(c) + 1 /\ Len(c) \in 0 .. Len(c) /\ Len(l) + 1 <= Len(c) + 1
      BY <1>1, <1>7, <1>13
    <3> QED
      BY <1>1, <3>1, HoldsPart
  <2> HIDE DEF d
  <2> DEFINE m == l \o d
  <2>3. /\ m \in Seq(T) /\ Len(m) = Len(l) + Len(d)
        /\ \A i \in 1 .. Len(l) + Len(d) : m[i] = IF i <= Len(l) THEN l[i] ELSE d[i - Len(l)]
    <3>1. l \in Seq(T) /\ d \in Seq(T)
      BY <1>6, <2>2
    <3> QED
      BY <3>1, ConcatProperties
  <2> HIDE DEF m
  <2>4. r = [cells |-> m, len |-> n]
    BY <2>1 DEF m
  <2>5. r \in SliceOf(T) /\ r.cells = m /\ r.len = n
    BY <1>1, <2>3, <2>4 DEF SliceOf
  <2>6. Len(m) = Len(c)
    BY <1>1, <1>7, <2>2, <2>3
  <2>7. \A i \in 1 .. n : View(r)[i] = m[i]
    BY <1>1, <2>5, <2>6, ViewOf
  <2>8. \A i \in 1 .. n : m[i] = l[i] /\ i \in 1 .. Len(l)
    <3>1. \A i \in 1 .. n : i <= Len(l) /\ i \in 1 .. Len(l) /\ i \in 1 .. Len(l) + Len(d)
      BY <1>1, <1>7, <1>13, <2>2
    <3> QED
      BY <2>3, <3>1
  <2>9. \A i \in 1 .. n : View(r)[i] # Default
    BY <1>10, <2>7, <2>8
  <2>10. n # Len(c)
    BY <1>1, <1>7, <1>13
  <2> QED
    BY <1>5, <1>6, <1>8, <2>5, <2>9, <2>10 DEF v
<1> QED
  BY <1>1, <1>7, <1>12, <1>13

\* replaceDefaultTagReferences replaces the one "default", if any.
LEMMA Replaced ==
    ASSUME NEW T, NEW s \in SliceOf(T), s.len <= Len(s.cells), NEW tags \in Seq(T),
           Len(tags) > 1, Default \notin ToSet(tags), NEW p, PlaceOf(s, p)
    PROVE  replaceDefaultTagReferences(tags, s) =
               IF p = s.len + 1 THEN Untouched(s) ELSE replaceStep(tags, Untouched(s), p)
<1> DEFINE n == s.len
           idx == [i \in 1 .. n |-> i]
           base == Untouched(s)
           W == replaceStep(tags, base, p)
           op(w, i) == replaceStep(tags, w, i)
           it(f) == f = [v \in SUBSET DOMAIN idx |->
                            IF v = {} THEN base ELSE LET x == Max(v) IN op(f[v \ {x}], idx[x])]
           g == CHOOSE f : it(f)
           at(i) == IF i < p THEN base ELSE W
           f0 == [v \in SUBSET (1 .. n) |-> IF p \in v THEN W ELSE base]
<1>1. n \in Nat /\ DOMAIN idx = 1 .. n /\ p \in 1 .. n + 1 /\ \A i \in 1 .. n : idx[i] = i
  BY DEF SliceOf, PlaceOf
<1>2. replaceDefaultTagReferences(tags, s) = g[DOMAIN idx]
  BY DEF replaceDefaultTagReferences, FoldLeft, MapThenFoldSet, Untouched
<1>3. \A i \in 1 .. n : i # p => op(base, i) = base
  <2>1. \A i \in 1 .. n : View(s)[i] = s.cells[i]
    BY ViewOf
  <2>2. base.read = s
    BY DEF Untouched
  <2> HIDE DEF base
  <2> QED
    BY <2>1, <2>2 DEF replaceStep, PlaceOf
<1>4. ASSUME p \in 1 .. n, NEW i \in 1 .. n, i # p PROVE op(W, i) = W
  <2>1. View(W.read)[i] # Default
    BY <1>4, ReplacedOnce
  <2> HIDE DEF W
  <2> QED
    BY <2>1 DEF replaceStep
<1>5. p \in 1 .. n => op(base, p) = W
  OBVIOUS
<1> HIDE DEF op, W, base, idx
<1>6. it(f0)
  <2> SUFFICES ASSUME NEW v \in SUBSET (1 .. n), v # {}
               PROVE  f0[v] = op(f0[v \ {Max(v)}], idx[Max(v)])
    <3>1. f0[{}] = base /\ {} \in SUBSET (1 .. n)
      OBVIOUS
    <3>2. f0 = [v \in SUBSET (1 .. n) |-> f0[v]]
      OBVIOUS
    <3> HIDE DEF f0
    <3> QED
      BY <1>1, <3>1, <3>2
  <2> DEFINE x == Max(v)
  <2>1. x \in v
    BY <1>1, MaxIn
  <2> HIDE DEF x
  <2>2. idx[x] = x /\ x \in 1 .. n
    BY <1>1, <2>1
  <2>3. f0[v \ {x}] = IF p \in v /\ x # p THEN W ELSE base
    OBVIOUS
  <2>4. f0[v] = IF p \in v THEN W ELSE base
    OBVIOUS
  <2>5. CASE x = p
    BY <1>5, <2>1, <2>2, <2>3, <2>5, <2>4 DEF x
  <2>6. CASE x # p /\ p \in v
    <3>1. p \in 1 .. n
      BY <2>6
    <3> QED
      BY <1>4, <2>2, <2>3, <2>4, <2>6, <3>1 DEF x
  <2>7. CASE x # p /\ p \notin v
    BY <1>3, <2>2, <2>3, <2>4, <2>7 DEF x
  <2> QED
    BY <2>5, <2>6, <2>7
<1>7. it(g)
  BY <1>6
<1> HIDE DEF g
<1>8. g[{}] = base
  BY <1>1, <1>7
<1>9. \A i \in 0 .. n - 1 : g[1 .. i + 1] = op(g[1 .. i], i + 1)
  <2> SUFFICES ASSUME NEW i \in 0 .. n - 1 PROVE g[1 .. i + 1] = op(g[1 .. i], i + 1)
    OBVIOUS
  <2>1. /\ 1 .. i + 1 # {} /\ 1 .. i + 1 \in SUBSET DOMAIN idx
        /\ Max(1 .. i + 1) = i + 1 /\ (1 .. i + 1) \ {i + 1} = 1 .. i
    BY <1>1, Positions
  <2>2. i + 1 \in 1 .. n
    BY <1>1
  <2>3. idx[i + 1] = i + 1
    BY <1>1, <2>2
  <2> HIDE DEF n
  <2> QED
    BY <1>7, <2>1, <2>3
<1> DEFINE S == {i \in 0 .. n : g[1 .. i] = at(i)}
<1>10. 0 \in S
  BY <1>1, <1>8, Positions
<1>11. \A i \in 0 .. n - 1 : i \in S => i + 1 \in S
  <2> SUFFICES ASSUME NEW i \in 0 .. n - 1, i \in S PROVE i + 1 \in S
    OBVIOUS
  <2>1. i + 1 \in 1 .. n /\ i + 1 \in 0 .. n /\ i \in Nat
    BY <1>1
  <2>2. g[1 .. i + 1] = op(at(i), i + 1)
    BY <1>9
  <2>3. CASE i + 1 < p
    BY <1>1, <1>3, <2>1, <2>2, <2>3
  <2>4. CASE i + 1 = p
    BY <1>1, <1>5, <2>1, <2>2, <2>4
  <2>5. CASE p < i + 1
    <3>1. p \in 1 .. n /\ i + 1 # p /\ ~(i < p) /\ ~(i + 1 < p)
      BY <1>1, <2>1, <2>5
    <3> QED
      BY <1>4, <2>1, <2>2, <3>1
  <2> QED
    BY <1>1, <2>1, <2>3, <2>4, <2>5
<1> HIDE DEF S
<1>12. n \in S
  <2>1. \A i \in 0 .. n : i \in S
    BY <1>1, <1>10, <1>11, InductNat
  <2> QED
    BY <1>1, <2>1
<1>13. g[1 .. n] = at(n)
  BY <1>12 DEF S
<1>14. n < p <=> p = n + 1
  BY <1>1
<1> QED
  BY <1>1, <1>2, <1>13, <1>14 DEF W, base

\* What a list that names "default" once at most stands for, and what is left of it.
LEMMA MeaningOf ==
    ASSUME NEW source \in DOMAIN SourceTags, NEW s, IsSlice(s), NamesDefaultOnce(s),
           NEW w, w = replaceDefaultTagReferences(SourceTags[source], s)
    PROVE  /\ ToSet(w.list) = IF Default \in ToSet(View(s))
                              THEN (ToSet(View(s)) \ {Default}) \cup ToSet(SourceTags[source])
                              ELSE ToSet(View(s))
           /\ s.len = Len(s.cells) => w.read = s
<1> DEFINE tags == SourceTags[source]
           T == ToSet(s.cells) \cup ToSet(tags)
           n == s.len
<1>1. Len(tags) > 1 /\ Default \notin ToSet(tags) /\ tags \in Seq(ToSet(tags))
  BY SourceTagsAssumption DEF IsList
<1>2. s.cells \in Seq(ToSet(s.cells)) /\ n \in 0 .. Len(s.cells) /\ s = [cells |-> s.cells, len |-> s.len]
  BY DEF IsSlice, IsList
<1>3. tags \in Seq(T) /\ s.cells \in Seq(T)
  <2>1. ToSet(tags) \subseteq T /\ ToSet(s.cells) \subseteq T
    OBVIOUS
  <2> HIDE DEF T, tags
  <2> QED
    BY <1>1, <1>2, <2>1, SeqMonotonic
<1> HIDE DEF T, tags
<1>4. Len(s.cells) \in Nat /\ n \in Nat /\ n <= Len(s.cells)
  BY <1>2, <1>3, LenProperties
<1>5. s \in SliceOf(T)
  <2>1. \A c \in Seq(T), k \in Nat : [cells |-> c, len |-> k] \in SliceOf(T)
    BY DEF SliceOf
  <2> QED
    BY <1>2, <1>3, <1>4, <2>1
<1>6. ToSet(View(s)) = {s.cells[i] : i \in 1 .. n}
  BY <1>4, <1>5, ViewOf
<1>7. CASE Default \in ToSet(View(s))
  <2>1. PICK p \in 1 .. n : s.cells[p] = Default
    BY <1>6, <1>7
  <2>2. PlaceOf(s, p) /\ p # n + 1
    BY <1>4, <2>1 DEF PlaceOf, NamesDefaultOnce
  <2>3. w = replaceStep(tags, Untouched(s), p)
    BY <1>1, <1>3, <1>4, <1>5, <2>2, Replaced DEF tags
  <2> QED
    BY <1>1, <1>3, <1>4, <1>5, <1>7, <2>1, <2>2, <2>3, ReplacedOnce DEF tags
<1>8. CASE Default \notin ToSet(View(s))
  <2>1. PlaceOf(s, n + 1)
    BY <1>4, <1>6, <1>8 DEF PlaceOf
  <2>2. w = Untouched(s)
    BY <1>1, <1>3, <1>4, <1>5, <2>1, Replaced DEF tags
  <2> QED
    BY <1>8, <2>2 DEF Untouched
<1> QED
  BY <1>7, <1>8

-------------------------------------------------------------------------------
(* Selection.                                                                  *)

Known == (UNION {Answers(t) : t \in TaskName}) \cup {All}

\* A task answers to what it answers to within the part of a request its group responds to.
LEMMA Picked ==
    ASSUME NEW group, NEW t \in group, NEW X
    PROVE  t \in selectedBy(group, X \cap GroupAnswers(group)) <=> Matches(t, X)
<1>1. Answers(t) \cup {All} \subseteq GroupAnswers(group)
  BY DEF GroupAnswers
<1>2. \A x : isSelected(t, x) <=> x \in Answers(t) \cup {All}
  BY DEF isSelected
<1>3. Matches(t, X) <=> \E x \in X : x \in Answers(t) \cup {All}
  BY DEF Matches, Answers
<1> QED
  BY <1>1, <1>2, <1>3 DEF selectedBy

\* Every token a group responds to is answered by one of its tasks.
LEMMA SelectionAnswered ==
    ASSUME NEW group, NEW x
    PROVE  x \in GroupAnswers(group) <=> \E u \in group : Matches(u, {x})
<1>1. \A u : Matches(u, {x}) <=> x \in Answers(u) \cup {All}
  BY DEF Matches, Answers
<1>2. x \in GroupAnswers(group) <=> (\E u \in group : x \in Answers(u)) \/ (group # {} /\ x = All)
  BY DEF GroupAnswers
<1> QED
  BY <1>1, <1>2

\* The expressions of one group.
LEMMA PickedOf ==
    ASSUME NEW group, NEW t \in group, NEW D, NEW S, NEW A, NEW R,
           NEW p, p.default = D \cap GroupAnswers(group), p.sub = S \cap GroupAnswers(group),
           p.add = A \cap GroupAnswers(group), p.remove = R \cap GroupAnswers(group)
    PROVE  t \in selectByExpressions(group, p) <=>
             \/ Matches(t, A)
             \/ /\ Matches(t, D) /\ ~Matches(t, R)
                /\ S \cap GroupAnswers(group) = {} \/ Matches(t, S \cap GroupAnswers(group))
<1> DEFINE sub == selectedBy(group, S \cap GroupAnswers(group))
<1>1. t \in selectByExpressions(group, p) <=>
        \/ t \in selectedBy(group, A \cap GroupAnswers(group))
        \/ /\ t \in selectedBy(group, D \cap GroupAnswers(group))
           /\ sub # {} => t \in sub
           /\ t \notin selectedBy(group, R \cap GroupAnswers(group))
  BY DEF selectByExpressions
<1>2. t \in sub <=> Matches(t, S)
  BY Picked
<1>3. Matches(t, S) <=> Matches(t, S \cap GroupAnswers(group))
  BY DEF Matches, GroupAnswers, Answers
<1>4. sub # {} <=> S \cap GroupAnswers(group) # {}
  <2>1. \A x \in S \cap GroupAnswers(group) : \E u \in group : Matches(u, S)
    <3> SUFFICES ASSUME NEW x \in S \cap GroupAnswers(group) PROVE \E u \in group : Matches(u, S)
      OBVIOUS
    <3>1. PICK u \in group : Matches(u, {x})
      BY SelectionAnswered
    <3> QED
      BY <3>1 DEF Matches
  <2>2. \A u \in group : u \in sub <=> Matches(u, S)
    BY Picked
  <2>3. sub # {} => S \cap GroupAnswers(group) # {}
    BY DEF selectedBy
  <2> HIDE DEF sub
  <2> QED
    BY <2>1, <2>2, <2>3
<1> HIDE DEF sub
<1> QED
  BY <1>1, <1>2, <1>3, <1>4, Picked

\* The part of a request that a group responds to.
LEMMA PartOf ==
    ASSUME NEW D, NEW S, NEW A, NEW R, NEW r,
           r = [default |-> D, sub |-> S, add |-> A, remove |-> R], NEW g
    PROVE  LET q == newSelectionWithTags(r, g)
           IN /\ q.default = D \cap GroupAnswers(g) /\ q.sub = S \cap GroupAnswers(g)
              /\ q.add = A \cap GroupAnswers(g) /\ q.remove = R \cap GroupAnswers(g)
<1>1. DOMAIN r = {"default", "sub", "add", "remove"}
  OBVIOUS
<1> QED
  BY <1>1 DEF newSelectionWithTags

TagsKnown == UNION {Tags[t] : t \in TaskName}

\* A request is refused as a whole exactly if a group refuses its part, or a token is left.
LEMMA RefusedByGroups ==
    ASSUME NEW D, NEW E, NEW S, NEW A, NEW R, NEW wanted,
           wanted = [default |-> E, sub |-> S, add |-> A, remove |-> R],
           D \subseteq E, E \ Known = D \ Known
    PROVE  (\/ leftover(wanted) # {}
            \/ Invalid(newSelectionWithTags(wanted, PackageTasks), PackageTasks)
            \/ Invalid(newSelectionWithTags(wanted, FileTasks), FileTasks))
           <=> ~(D \cup R \subseteq Known /\ A \subseteq TaskName /\ S \subseteq TagsKnown)
<1> DEFINE part(g) == newSelectionWithTags(wanted, g)
<1>1. TaskName = PackageTasks \cup FileTasks /\ All \notin TaskName
      /\ PackageTasks # {} /\ \A t \in TaskName : Tags[t] \cap (TaskName \cup {All}) = {}
  BY TokensAssumption DEF TaskName
<1>2. \A g : \A x : /\ x \in TagsOf(g) <=> x = All \/ \E t \in g : x \in Tags[t]
                    /\ x \in GroupAnswers(g) <=> (x = All /\ g # {}) \/ x \in g \/ \E t \in g : x \in Tags[t]
  BY DEF TagsOf, GroupAnswers, Answers
<1>3. \A x : /\ x \in Known <=> x = All \/ x \in TaskName \/ x \in TagsKnown
             /\ x \in TagsKnown <=> \E t \in TaskName : x \in Tags[t]
  BY DEF Known, TagsKnown, Answers
<1>4. \A x : x \in Known <=> x \in GroupAnswers(PackageTasks) \/ x \in GroupAnswers(FileTasks)
  BY <1>1, <1>2, <1>3
<1>5. leftover(wanted) = (D \cup S \cup A \cup R) \ Known
  <2>1. Tokens(wanted) = E \cup S \cup A \cup R
    BY DEF Tokens
  <2>2. UNION {GroupAnswers(Groups[g]) : g \in DOMAIN Groups} =
            GroupAnswers(PackageTasks) \cup GroupAnswers(FileTasks)
    <3>1. DOMAIN Groups = {1, 2} /\ Groups[1] = PackageTasks /\ Groups[2] = FileTasks
      BY DEF Groups
    <3> QED
      BY <3>1
  <2>3. All \in Known
    BY <1>3
  <2> QED
    BY <1>4, <2>1, <2>2, <2>3 DEF leftover
<1>6. ASSUME NEW g, g \subseteq TaskName
      PROVE  Invalid(part(g), g) <=> \/ \E x \in A \cap GroupAnswers(g) : x \notin g
                                     \/ \E x \in S \cap GroupAnswers(g) : x = All \/ x \in g
  <2> DEFINE q == part(g)
  <2>1. /\ q.default = E \cap GroupAnswers(g) /\ q.sub = S \cap GroupAnswers(g)
        /\ q.add = A \cap GroupAnswers(g) /\ q.remove = R \cap GroupAnswers(g)
    BY PartOf
  <2> HIDE DEF q
  <2>2. Invalid(q, g) <=> \/ \E x \in q.default \cup q.remove : x \notin g \cup TagsOf(g)
                          \/ \E x \in q.add : x \notin g
                          \/ \E x \in q.sub : x = All \/ x \notin TagsOf(g)
    BY DEF Invalid, Names
  <2>3. \A x \in GroupAnswers(g) : x \in g \cup TagsOf(g)
    BY <1>2
  <2>4. \A x \in GroupAnswers(g) : (x = All \/ x \notin TagsOf(g)) <=> (x = All \/ x \in g)
    <3>1. \A x \in g, t \in g : x \notin Tags[t]
      BY <1>1, <1>6
    <3> QED
      BY <1>1, <1>2, <1>6, <3>1
  <2> QED
    BY <2>1, <2>2, <2>3, <2>4 DEF q
<1> DEFINE bad == \/ leftover(wanted) # {} \/ Invalid(part(PackageTasks), PackageTasks)
                  \/ Invalid(part(FileTasks), FileTasks)
<1>7. PackageTasks \subseteq TaskName /\ FileTasks \subseteq TaskName
  BY <1>1
<1>8. bad <=> \/ \E x \in D \cup S \cup A \cup R : x \notin Known
              \/ \E g \in {PackageTasks, FileTasks} : \E x \in A \cap GroupAnswers(g) : x \notin g
              \/ \E g \in {PackageTasks, FileTasks} :
                     \E x \in S \cap GroupAnswers(g) : x = All \/ x \in g
  <2>1. leftover(wanted) # {} <=> \E x \in D \cup S \cup A \cup R : x \notin Known
    BY <1>5
  <2> QED
    BY <1>6, <1>7, <2>1
<1> HIDE DEF bad
<1>9. \A x : /\ x \in TaskName => x \in Known /\ x \notin TagsKnown
             /\ x \in TagsKnown => x \in Known /\ x # All
  BY <1>1, <1>3
<1>10. ASSUME bad PROVE ~(D \cup R \subseteq Known /\ A \subseteq TaskName /\ S \subseteq TagsKnown)
  <2>1. \A g \in {PackageTasks, FileTasks} : \A x \in GroupAnswers(g) : x \notin g => x \notin TaskName
    <3>1. PackageTasks \cap FileTasks = {}
      BY TokensAssumption
    <3> QED
      BY <1>1, <1>2, <3>1
  <2>2. \A g \in {PackageTasks, FileTasks} : \A x : (x = All \/ x \in g) => x \notin TagsKnown
    BY <1>7, <1>9
  <2> QED
    BY <1>8, <1>9, <1>10, <2>1, <2>2
<1>11. ASSUME ~bad PROVE D \cup R \subseteq Known /\ A \subseteq TaskName /\ S \subseteq TagsKnown
  <2>1. \A x \in Known : \E g \in {PackageTasks, FileTasks} : x \in GroupAnswers(g)
    BY <1>4
  <2>2. A \subseteq TaskName
    BY <1>7, <1>8, <1>11, <2>1
  <2>3. S \subseteq TagsKnown
    <3>1. \A x \in S : x \in Known
      BY <1>8, <1>11
    <3>2. All \notin S
      <4>1. All \in GroupAnswers(PackageTasks)
        BY <1>1, <1>2
      <4> QED
        BY <1>8, <1>11, <4>1
    <3>3. \A g \in {PackageTasks, FileTasks} : \A x \in g : x \notin S
      <4>1. \A g \in {PackageTasks, FileTasks} : \A x \in g : x \in GroupAnswers(g)
        BY <1>2
      <4> QED
        BY <1>8, <1>11, <4>1
    <3> QED
      BY <1>1, <1>3, <3>1, <3>2, <3>3
  <2>4. D \cup R \subseteq Known
    BY <1>8, <1>11
  <2> QED
    BY <2>2, <2>3, <2>4
<1> QED
  BY <1>10, <1>11 DEF bad

\* Splitting a request over the groups selects what was promised, and refuses what cannot be.
LEMMA SelectsPromised ==
    ASSUME NEW source, NEW r,
           r = [default |-> DefaultsOf(source), sub |-> SubSelected(source),
                add |-> ToSet(built.add), remove |-> Removed(source)]
    PROVE  SelectInGroups(r, built.persistent) = IF Refused(source) THEN Error ELSE Promised(source)
<1> DEFINE D == DefaultsOf(source)
           S == SubSelected(source)
           A == ToSet(built.add)
           R == Removed(source)
           files == FileTag \notin D /\ All \notin D /\ Default \notin D /\ FileTag \notin R /\ FileTasks # {}
           E == D \cup (IF files THEN {FileTag} ELSE {})
           wanted == ensureDefaultSelectionHasFiles(r)
           selected(g) == selectByExpressions(g, newSelectionWithTags(wanted, g))
           tasks == selected(PackageTasks) \cup selected(FileTasks) \cup built.persistent
           bad == \/ leftover(wanted) # {}
                  \/ Invalid(newSelectionWithTags(wanted, PackageTasks), PackageTasks)
                  \/ Invalid(newSelectionWithTags(wanted, FileTasks), FileTasks)
           ok == D \cup R \subseteq Known /\ A \subseteq TaskName /\ S \subseteq TagsKnown
<1>0. r = [default |-> D, sub |-> S, add |-> A, remove |-> R]
  OBVIOUS
<1>1. /\ SelectInGroups(r, built.persistent) = IF bad \/ tasks = {} THEN Error ELSE tasks
  <2>1. Groups[1] = PackageTasks /\ Groups[2] = FileTasks /\ DOMAIN Groups = {1, 2}
    BY DEF Groups
  <2> HIDE DEF wanted
  <2>2. \A f : UNION {selectByExpressions(Groups[g], newSelectionWithTags(wanted, Groups[g])) : g \in DOMAIN Groups}
                   = selected(PackageTasks) \cup selected(FileTasks)
    BY <2>1
  <2>3. (\E g \in DOMAIN Groups : Invalid(newSelectionWithTags(wanted, Groups[g]), Groups[g])) <=>
            \/ Invalid(newSelectionWithTags(wanted, PackageTasks), PackageTasks)
            \/ Invalid(newSelectionWithTags(wanted, FileTasks), FileTasks)
    BY <2>1
  <2> HIDE DEF selected
  <2> QED
    BY <2>2, <2>3 DEF SelectInGroups, selected, wanted
<1>2. Refused(source) <=> ~ok \/ Promised(source) = {}
  BY DEF Refused, Known, TagsKnown
<1> HIDE DEF D, S, A, R
<1>3. TaskName = PackageTasks \cup FileTasks /\ PackageTasks \cap FileTasks = {}
  BY TokensAssumption DEF TaskName
<1>4. wanted = [default |-> E, sub |-> S, add |-> A, remove |-> R]
  <2>1. (\E g \in DOMAIN Groups : FileTag \in GroupAnswers(Groups[g])) <=> FileTasks # {}
    <3>1. DOMAIN Groups = {1, 2} /\ Groups[1] = PackageTasks /\ Groups[2] = FileTasks
      BY DEF Groups
    <3>2. \A t \in PackageTasks : FileTag \notin Answers(t)
      BY <1>3, TokensAssumption, FileTagAssumption DEF Answers
    <3>3. FileTag \notin GroupAnswers(PackageTasks)
      BY <3>2, TokensAssumption DEF GroupAnswers
    <3>4. FileTag \in GroupAnswers(FileTasks) <=> FileTasks # {}
      BY FileTagAssumption, TokensAssumption DEF GroupAnswers, Answers
    <3> QED
      BY <3>1, <3>3, <3>4
  <2>2. ({FileTag, All, Default} \cap r.default = {} /\ FileTag \notin r.remove
          /\ \E g \in DOMAIN Groups : FileTag \in GroupAnswers(Groups[g])) <=> files
    BY <1>0, <2>1
  <2>3. [r EXCEPT !.default = @ \cup {FileTag}] = [default |-> D \cup {FileTag}, sub |-> S, add |-> A, remove |-> R]
    BY <1>0
  <2>4. ~files => E = D
    OBVIOUS
  <2>5. files => E = D \cup {FileTag}
    OBVIOUS
  <2> HIDE DEF files, E
  <2> QED
    BY <1>0, <2>2, <2>3, <2>4, <2>5 DEF ensureDefaultSelectionHasFiles
<1> HIDE DEF wanted
<1>5. FileTasks # {} => FileTag \in Known
  BY <1>3, FileTagAssumption DEF Known, Answers
<1>6. D \subseteq E /\ E \ Known = D \ Known
  BY <1>5
<1>7. bad <=> ~ok
  <2> HIDE DEF E
  <2> QED
    BY <1>4, <1>6, RefusedByGroups
<1>8. ASSUME ok PROVE tasks = Promised(source)
  <2> DEFINE taken(t) == t \in A \/ (Wanted(t, source) /\ ~Narrowed(t, source) /\ ~Matches(t, R))
           W == {t \in TaskName : taken(t)}
  <2>0. Promised(source) = W \cup built.persistent
    BY DEF Promised, A, R
  <2>1. ASSUME NEW g, NEW t \in g, g = IF t \in FileTasks THEN FileTasks ELSE PackageTasks, t \in TaskName
        PROVE  t \in selected(g) <=> t \in W
    <3>1. t \in selected(g) <=> \/ Matches(t, A)
                               \/ /\ Matches(t, E) /\ ~Matches(t, R)
                                  /\ S \cap GroupAnswers(g) = {} \/ Matches(t, S \cap GroupAnswers(g))
      <4> DEFINE q == newSelectionWithTags(wanted, g)
      <4>1. /\ q.default = E \cap GroupAnswers(g) /\ q.sub = S \cap GroupAnswers(g)
            /\ q.add = A \cap GroupAnswers(g) /\ q.remove = R \cap GroupAnswers(g)
        <5> HIDE DEF E
        <5> QED
          BY <1>4, PartOf
      <4> HIDE DEF q, E
      <4>2. t \in selectByExpressions(g, q) <=>
              \/ Matches(t, A)
              \/ /\ Matches(t, E) /\ ~Matches(t, R)
                 /\ S \cap GroupAnswers(g) = {} \/ Matches(t, S \cap GroupAnswers(g))
        BY <4>1, PickedOf
      <4> QED
        BY <4>2 DEF q
    <3>2. Matches(t, A) <=> t \in A
      <4>1. \A x \in A : x # All /\ x \notin Tags[t]
        BY <1>8, <2>1, TokensAssumption
      <4> QED
        BY <4>1 DEF Matches
    <3>3. Matches(t, E) /\ ~Matches(t, R) <=> Wanted(t, source) /\ ~Matches(t, R)
      <4>0. Wanted(t, source) <=> Matches(t, D) \/ t \in FileTasks
        BY DEF Wanted, D
      <4>1. CASE t \in FileTasks
        <5>1. \A X : FileTag \in X \/ All \in X => Matches(t, X)
          BY <4>1, FileTagAssumption DEF Matches
        <5>2. Default \notin D
          <6>1. Default \notin Known
            BY TokensAssumption DEF Known, Answers
          <6> QED
            BY <1>8, <6>1
        <5> QED
          BY <4>0, <4>1, <5>1, <5>2
      <4>2. CASE t \notin FileTasks
        <5>1. FileTag \notin {All, t} \cup Tags[t]
          BY <1>3, <2>1, <4>2, FileTagAssumption, TokensAssumption
        <5>2. Matches(t, E) <=> Matches(t, D)
          BY <5>1 DEF Matches
        <5> QED
          BY <4>0, <4>2, <5>2
      <4> QED
        BY <4>1, <4>2
    <3>4. Narrowed(t, source) <=> ~(S \cap GroupAnswers(g) = {} \/ Matches(t, S \cap GroupAnswers(g)))
      <4>1. {x \in S : \E u \in g : Matches(u, {x})} = S \cap GroupAnswers(g)
        BY SelectionAnswered
      <4> QED
        BY <2>1, <4>1 DEF Narrowed, S
    <3>5. t \in selected(g) <=> taken(t)
      <4> HIDE DEF selected
      <4> QED
        BY <3>1, <3>2, <3>3, <3>4
    <3> HIDE DEF taken, selected
    <3> QED
      BY <2>1, <3>5
  <2>2. \A g, t : t \in selected(g) => t \in g
    BY DEF selectByExpressions, selectedBy
  <2> HIDE DEF selected
  <2>3. \A t \in PackageTasks : t \in selected(PackageTasks) <=> t \in W
    BY <1>3, <2>1
  <2>4. \A t \in FileTasks : t \in selected(FileTasks) <=> t \in W
    BY <1>3, <2>1
  <2>5. W \subseteq TaskName
    OBVIOUS
  <2> HIDE DEF W
  <2>6. selected(PackageTasks) \cup selected(FileTasks) = W
    BY <1>3, <2>2, <2>3, <2>4, <2>5
  <2> QED
    BY <2>0, <2>6
<1> QED
  BY <1>1, <1>2, <1>7, <1>8

-------------------------------------------------------------------------------
(* Calls.                                                                      *)

Steady == ~(HasRoom(built.sub) \/ HasRoom(built.remove))
                /\ NamesDefaultOnce(built.sub) /\ NamesDefaultOnce(built.remove)

\* Where no array has room the configuration stays as it was built.
SelectionIInv ==
    /\ built \in Requests /\ calls \in Nat
    /\ calls = 0 \/ Steady => request = built
    /\ SelectionExact

LEMMA InitSelectionIInv == SelectionInit => SelectionIInv
BY DEF SelectionInit, SelectionIInv, SelectionExact, Called

LEMMA SelectForIInv ==
    ASSUME SelectionIInv, NEW source \in DOMAIN SourceTags, SelectFor(source)
    PROVE  SelectionIInv'
<1> DEFINE tags == SourceTags[source]
           isGiven == request.default # <<>>
           untouched(s) == [read |-> s, list |-> View(s)]
           rm == IF isGiven THEN untouched(request.remove)
                 ELSE replaceDefaultTagReferences(tags, request.remove)
           sb == IF isGiven THEN untouched(request.sub)
                 ELSE replaceDefaultTagReferences(tags, request.sub)
           r == [default |-> ToSet(IF isGiven THEN request.default ELSE tags),
                 sub |-> ToSet(sb.list), add |-> ToSet(request.add), remove |-> ToSet(rm.list)]
<1>1. /\ last' = [source |-> source, tasks |-> SelectInGroups(r, request.persistent)]
      /\ request' = [request EXCEPT !.remove = rm.read, !.sub = sb.read]
      /\ calls' = calls + 1 /\ built' = built
  BY DEF SelectFor
<1>2. built \in Requests /\ calls \in Nat /\ calls' \in Nat /\ calls' # 0 /\ (calls' = 1 => calls = 0)
  BY <1>1 DEF SelectionIInv
<1>3. /\ built = [default |-> built.default, sub |-> built.sub, add |-> built.add,
                 remove |-> built.remove, persistent |-> built.persistent]
      /\ IsSlice(built.sub) /\ IsSlice(built.remove)
  BY <1>2, RequestsAssumption
<1>4. ASSUME request = built, NEW s, IsSlice(s), NamesDefaultOnce(s),
             NEW w, w = IF isGiven THEN untouched(s) ELSE replaceDefaultTagReferences(tags, s)
      PROVE  /\ ToSet(w.list) = Meaning(View(s), source)
             /\ ~HasRoom(s) => w.read = s
  <2>1. Len(s.cells) \in Nat /\ s.len \in 0 .. Len(s.cells)
    BY <1>4, LenProperties DEF IsSlice, IsList
  <2>2. ~HasRoom(s) => s.len = Len(s.cells)
    BY <2>1 DEF HasRoom
  <2>3. CASE isGiven
    BY <1>4, <2>3 DEF Meaning
  <2>4. CASE ~isGiven
    <3>1. w = replaceDefaultTagReferences(tags, s)
      BY <1>4, <2>4
    <3>2. /\ ToSet(w.list) = IF Default \in ToSet(View(s))
                              THEN (ToSet(View(s)) \ {Default}) \cup ToSet(SourceTags[source])
                              ELSE ToSet(View(s))
          /\ s.len = Len(s.cells) => w.read = s
      BY <1>4, <3>1, MeaningOf
    <3> QED
      BY <1>4, <2>2, <2>4, <3>2 DEF Meaning
  <2> QED
    BY <2>3, <2>4
<1>5. Steady' <=> Steady
  BY <1>1 DEF Steady
<1>6. ASSUME Steady PROVE request' = built
  <2>1. request = built
    BY <1>6 DEF SelectionIInv
  <2>2. rm.read = built.remove /\ sb.read = built.sub
    BY <1>3, <1>4, <1>6, <2>1 DEF Steady
  <2> HIDE DEF rm, sb
  <2> QED
    BY <1>1, <1>3, <2>1, <2>2
<1>7. SelectionExact'
  <2> SUFFICES ASSUME calls' = 1 \/ ~(HasRoom(built.sub) \/ HasRoom(built.remove)),
                      NamesDefaultOnce(built.sub), NamesDefaultOnce(built.remove)
               PROVE  last'.tasks = IF Refused(source) THEN Error ELSE Promised(source)
    <3>1. last'.source = source
      BY <1>1
    <3>2. (Refused(source)' <=> Refused(source)) /\ Promised(source)' = Promised(source)
      BY <1>1 DEF Refused, Promised, Wanted, Narrowed, Removed, SubSelected, DefaultsOf, Meaning
    <3> QED
      BY <1>1, <3>1, <3>2 DEF SelectionExact
  <2>1. request = built
    BY <1>2 DEF Steady, SelectionIInv
  <2>2. ToSet(rm.list) = Removed(source) /\ ToSet(sb.list) = SubSelected(source)
    BY <1>3, <1>4, <2>1 DEF Removed, SubSelected
  <2>3. r = [default |-> DefaultsOf(source), sub |-> SubSelected(source),
             add |-> ToSet(built.add), remove |-> Removed(source)]
    <3>1. ToSet(IF isGiven THEN request.default ELSE tags) = DefaultsOf(source)
      BY <2>1 DEF DefaultsOf
    <3> HIDE DEF rm, sb
    <3> QED
      BY <2>1, <2>2, <3>1
  <2> HIDE DEF r
  <2>4. SelectInGroups(r, built.persistent) = IF Refused(source) THEN Error ELSE Promised(source)
    BY <2>3, SelectsPromised
  <2> QED
    BY <1>1, <2>1, <2>4
<1> QED
  BY <1>1, <1>2, <1>5, <1>6, <1>7 DEF SelectionIInv

\* The selection of catalogers: the split of a request over the groups of tasks, and
\* "default" replaced in place, run what the request asked for or refuse it.
THEOREM SelectionExactly == SelectionSpec => []SelectionExact
<1>1. SelectionInit => SelectionIInv
  BY InitSelectionIInv
<1>2. SelectionIInv /\ [SelectionNext]_selectionVars => SelectionIInv'
  <2> SUFFICES ASSUME SelectionIInv, [SelectionNext]_selectionVars PROVE SelectionIInv'
    OBVIOUS
  <2>1. CASE SelectionNext
    BY <2>1, SelectForIInv DEF SelectionNext
  <2>2. CASE UNCHANGED selectionVars
    <3>1. UNCHANGED <<built, request, last, calls>>
      BY <2>2 DEF selectionVars
    <3>2. (Steady' <=> Steady)
      BY <3>1 DEF Steady
    <3>3. \A source : (Refused(source)' <=> Refused(source)) /\ Promised(source)' = Promised(source)
      BY <3>1 DEF Refused, Promised, Wanted, Narrowed, Removed, SubSelected, DefaultsOf, Meaning
    <3> QED
      BY <3>1, <3>2, <3>3 DEF SelectionIInv, SelectionExact, Called
  <2> QED
    BY <2>1, <2>2
<1>3. SelectionIInv => SelectionExact
  BY DEF SelectionIInv
<1> QED
  BY <1>1, <1>2, <1>3, PTL DEF SelectionSpec

--------------------------------------------------------------------------------
(* The convert command.                                                       *)

\* The outputs of part are those at the places at of whole, each once.
Picks(part, at, whole) ==
    /\ at \in Seq(DOMAIN whole)
    /\ Len(part) = Len(at)
    /\ \A i \in 1 .. Len(at) : part[i] = whole[at[i]]
    /\ \A i, j \in 1 .. Len(at) : at[i] = at[j] => i = j

\* What is to be in a file, or on the report bus, for an output.
Asked(o) == IF Exact(o) THEN document ELSE Encoded(o.format)

\* The outputs u are yet to be copied, c to be opened and w to be written.
Stage(u, c, w) ==
    LET U == ToSet(u)  C == ToSet(c)  W == ToSet(w)
        all == DOMAIN outputs
    IN /\ Picks(unchanged, u, outputs) /\ Picks(converted, c, outputs) /\ Picks(writers, w, outputs)
       /\ U \cap C = {} /\ U \cap W = {} /\ C \cap W = {}
       /\ \A k \in U : Exact(outputs[k])
       /\ \A k \in C \cup W : ~Exact(outputs[k])
       /\ step = "partition" => U = {} /\ C = {} /\ W = {} /\ disk = before /\ reported = <<>>
       /\ step = "resolve" => C # {} /\ W = {} /\ U \cup C = all /\ disk = before /\ reported = <<>>
       /\ step = "open" => C # {} /\ U \cup C \cup W = all /\ reported = <<>>
       /\ step = "copy" => C = {} /\ \A k \in all : ~Exact(outputs[k]) => k \in W
       /\ step \in {"write", "write failing", "done"} => U = {} /\ C = {}
       /\ step = "done" => W = {}

\* What the files hold before a failure.
FilesSoFar(u, c, w) ==
    step \notin {"partition", "failed"} =>
        \A k \in {j \in DOMAIN outputs : outputs[j].path # Stdout} :
            /\ k \in ToSet(u) \cup ToSet(c) => disk[outputs[k].path] = before[outputs[k].path]
            /\ k \in ToSet(w) => disk[outputs[k].path] = Empty
            /\ k \notin ToSet(u) \cup ToSet(c) \cup ToSet(w) /\ step # "write failing" =>
                   disk[outputs[k].path] = Asked(outputs[k])

\* What was reported before a failure.
Served(u, c, w) ==
    {k \in DOMAIN outputs \ (ToSet(u) \cup ToSet(c) \cup ToSet(w)) : outputs[k].path = Stdout}
ReportsSoFar(u, c, w) ==
    step \notin {"partition", "write failing", "failed"} =>
        /\ Len(reported) = Cardinality(Served(u, c, w))
        /\ ToSet(reported) = {Asked(outputs[k]) : k \in Served(u, c, w)}

\* At any time a file holds what it did, nothing, or what was asked for.
Holds ==
    \A q \in Target : \/ disk[q] = before[q]
                      \/ \E o \in Values : o.path = q /\ disk[q] \in {Empty, document, Encoded(o.format)}

BadEnds ==
    (\E o \in Values : o.format \in Unsupported) =>
        disk = before /\ reported = <<>> /\ step \in {"partition", "resolve", "failed"}

\* What a file can hold, and what can be reported.
Held == Document \cup {Encoded(f) : f \in OutputFormat} \cup {Empty, Mixed, Older, Absent}

ConvertTypeOK ==
    /\ document \in Document /\ piped \in BOOLEAN /\ passthrough \in BOOLEAN
    /\ outputs \in Seq(Value)
    /\ before \in [Target -> Held] /\ before[InputPath] = document
    /\ disk \in [Target -> Held]
    /\ reported \in Seq(Held)
    /\ unchanged \in Seq(Value) /\ converted \in Seq(Value) /\ writers \in Seq(Value)
    /\ step \in {"partition", "resolve", "open", "copy", "write", "write failing", "done", "failed"}

Progress(u, c, w) ==
    /\ FilesSoFar(u, c, w)
    /\ ReportsSoFar(u, c, w)
    /\ Holds
    /\ ~piped => disk[InputPath] = document

ConvertIInv ==
    /\ ConvertTypeOK
    /\ BadEnds
    /\ \E u, c, w \in Seq(DOMAIN outputs) : Stage(u, c, w) /\ (Apart => Progress(u, c, w))

-------------------------------------------------------------------------------
(* Places of a sequence.                                                       *)

LEMMA PicksNone ==
    ASSUME NEW whole, NEW part, NEW at, Picks(part, at, whole), NEW T, part \in Seq(T)
    PROVE  part = <<>> <=> ToSet(at) = {}
<1>1. at \in Seq(DOMAIN whole) /\ Len(part) = Len(at)
  BY DEF Picks
<1>2. Len(at) \in Nat /\ DOMAIN at = 1 .. Len(at)
  BY <1>1, LenProperties
<1>3. part = <<>> <=> Len(part) = 0
  BY EmptySeq, LenProperties
<1>4. ToSet(at) = {} <=> 1 .. Len(at) = {}
  BY <1>2 DEF ToSet
<1> QED
  BY <1>1, <1>2, <1>3, <1>4

LEMMA PicksEmpty ==
    ASSUME NEW whole
    PROVE  Picks(<<>>, <<>>, whole) /\ ToSet(<<>>) = {}
BY DEF Picks, ToSet

LEMMA PicksRest ==
    ASSUME NEW whole, NEW part, NEW at, Picks(part, at, whole), NEW T, part \in Seq(T), part # <<>>
    PROVE  /\ Picks(Tail(part), Tail(at), whole)
           /\ Head(at) \in ToSet(at) /\ Head(at) \in DOMAIN whole /\ Head(part) = whole[Head(at)]
           /\ ToSet(Tail(at)) = ToSet(at) \ {Head(at)}
           /\ Tail(part) \in Seq(T) /\ Len(Tail(part)) = Len(part) - 1
<1>1. at \in Seq(DOMAIN whole) /\ Len(part) = Len(at)
  BY DEF Picks
<1>2. Len(at) \in Nat /\ DOMAIN at = 1 .. Len(at) /\ DOMAIN part = 1 .. Len(at) /\ Len(at) # 0
  BY <1>1, LenProperties, EmptySeq
<1>3. at # <<>>
  BY <1>2
<1>4. /\ Tail(at) \in Seq(DOMAIN whole) /\ Len(Tail(at)) = Len(at) - 1
      /\ \A i \in 1 .. Len(at) - 1 : Tail(at)[i] = at[i + 1]
  BY <1>1, <1>3, HeadTailProperties, LenProperties
<1>5. /\ Tail(part) \in Seq(T) /\ Len(Tail(part)) = Len(at) - 1
      /\ \A i \in 1 .. Len(at) - 1 : Tail(part)[i] = part[i + 1]
  BY <1>1, HeadTailProperties, LenProperties
<1>6. Head(at) = at[1] /\ Head(part) = part[1]
  BY <1>1, <1>3
<1>7. Picks(Tail(part), Tail(at), whole)
  <2>1. \A i \in 1 .. Len(at) - 1 : i + 1 \in 1 .. Len(at)
    BY <1>2
  <2>2. \A i \in 1 .. Len(at) - 1 : Tail(part)[i] = whole[Tail(at)[i]]
    BY <1>4, <1>5, <2>1 DEF Picks
  <2>3. \A i, j \in 1 .. Len(at) - 1 : Tail(at)[i] = Tail(at)[j] => i = j
    <3>1. \A i, j \in 1 .. Len(at) - 1 : Tail(at)[i] = Tail(at)[j] => i + 1 = j + 1
      BY <1>4, <2>1 DEF Picks
    <3> QED
      BY <1>2, <3>1
  <2> QED
    BY <1>4, <1>5, <2>2, <2>3 DEF Picks
<1>8. 1 \in 1 .. Len(at)
  BY <1>2
<1>9. Head(at) \in ToSet(at) /\ Head(at) \in DOMAIN whole /\ Head(part) = whole[Head(at)]
  BY <1>1, <1>2, <1>6, <1>8, ElementOfSeq DEF Picks, ToSet
<1>10. ToSet(Tail(at)) = ToSet(at) \ {Head(at)}
  <2>1. ToSet(Tail(at)) = {at[i + 1] : i \in 1 .. Len(at) - 1}
    <3>1. DOMAIN Tail(at) = 1 .. Len(at) - 1
      BY <1>4, LenProperties
    <3> QED
      BY <1>4, <3>1 DEF ToSet
  <2>2. ToSet(at) = {at[i] : i \in 1 .. Len(at)}
    BY <1>2 DEF ToSet
  <2>3. \A i \in 1 .. Len(at) - 1 : i + 1 \in 1 .. Len(at) /\ at[i + 1] # at[1]
    <3>1. \A i \in 1 .. Len(at) - 1 : i + 1 \in 1 .. Len(at) /\ i + 1 # 1
      BY <1>2
    <3> QED
      BY <1>8, <3>1 DEF Picks
  <2>4. \A i \in 1 .. Len(at) : i # 1 => i - 1 \in 1 .. Len(at) - 1 /\ at[(i - 1) + 1] = at[i]
    <3>1. \A i \in 1 .. Len(at) : i # 1 => i - 1 \in 1 .. Len(at) - 1 /\ (i - 1) + 1 = i
      BY <1>2
    <3> QED
      BY <3>1
  <2>5. \A x : x \in ToSet(Tail(at)) => x \in ToSet(at) /\ x # at[1]
    BY <2>1, <2>2, <2>3
  <2>6. ASSUME NEW x \in ToSet(at), x # at[1] PROVE x \in ToSet(Tail(at))
    <3>1. PICK i \in 1 .. Len(at) : x = at[i]
      BY <2>2
    <3>2. i # 1
      BY <2>6, <3>1
    <3> QED
      BY <2>1, <2>4, <3>1, <3>2
  <2> QED
    BY <1>6, <2>5, <2>6
<1> QED
  BY <1>1, <1>5, <1>7, <1>9, <1>10

LEMMA PicksMore ==
    ASSUME NEW whole, NEW part, NEW at, Picks(part, at, whole), NEW T, part \in Seq(T),
           NEW k \in DOMAIN whole, k \notin ToSet(at), whole[k] \in T
    PROVE  /\ Picks(Append(part, whole[k]), Append(at, k), whole)
           /\ ToSet(Append(at, k)) = ToSet(at) \cup {k}
           /\ Append(part, whole[k]) \in Seq(T) /\ Append(at, k) \in Seq(DOMAIN whole)
<1> DEFINE n == Len(at)
           p == Append(part, whole[k])
           a == Append(at, k)
<1>1. at \in Seq(DOMAIN whole) /\ Len(part) = n
  BY DEF Picks
<1>2. n \in Nat /\ DOMAIN at = 1 .. n
  BY <1>1, LenProperties
<1>3. /\ a \in Seq(DOMAIN whole) /\ Len(a) = n + 1
      /\ \A i \in 1 .. n : a[i] = at[i]
      /\ a[n + 1] = k
  BY <1>1, AppendProperties
<1>4. /\ p \in Seq(T) /\ Len(p) = n + 1
      /\ \A i \in 1 .. n : p[i] = part[i]
      /\ p[n + 1] = whole[k]
  BY <1>1, AppendProperties
<1> HIDE DEF a, p
<1>5. \A i \in 1 .. n + 1 : i \in 1 .. n \/ i = n + 1
  BY <1>2
<1>6. \A i \in 1 .. n : at[i] \in ToSet(at)
  BY <1>2 DEF ToSet
<1>7. \A i \in 1 .. n + 1 : p[i] = whole[a[i]]
  BY <1>3, <1>4, <1>5 DEF Picks
<1>8. \A i, j \in 1 .. n + 1 : a[i] = a[j] => i = j
  BY <1>3, <1>5, <1>6 DEF Picks
<1>9. Picks(p, a, whole)
  BY <1>3, <1>4, <1>7, <1>8 DEF Picks
<1>10. ToSet(a) = ToSet(at) \cup {k}
  <2>1. DOMAIN a = 1 .. n + 1
    BY <1>3, LenProperties
  <2>2. 1 .. n + 1 = (1 .. n) \cup {n + 1}
    BY <1>2
  <2> QED
    BY <1>2, <1>3, <2>1, <2>2 DEF ToSet
<1> QED
  BY <1>3, <1>4, <1>9, <1>10 DEF a, p

\* The partition keeps apart the outputs of a list, each once and where it belongs.
PartitionOf(T, s, same) ==
    LET parts == partitionOutputs(s, same)
    IN /\ parts.unchanged \in Seq(T) /\ parts.toConvert \in Seq(T)
       /\ \E u, c \in Seq(DOMAIN s) :
            /\ Picks(parts.unchanged, u, s) /\ Picks(parts.toConvert, c, s)
            /\ ToSet(u) = {k \in DOMAIN s : s[k] \in same}
            /\ ToSet(c) = {k \in DOMAIN s : s[k] \notin same}

LEMMA Partitioned ==
    ASSUME NEW T, NEW s \in Seq(T), NEW same
    PROVE  PartitionOf(T, s, same)
<1> DEFINE n == Len(s)
           X == [unchanged : Seq(T), toConvert : Seq(T)]
           base == [unchanged |-> <<>>, toConvert |-> <<>>]
           op(parts, o) == IF o \in same THEN [parts EXCEPT !.unchanged = Append(@, o)]
                           ELSE [parts EXCEPT !.toConvert = Append(@, o)]
           stp == [ix \in (1 .. n) \X X |-> op(ix[2], s[ix[1]])]
           it(f) == f = [v \in SUBSET DOMAIN s |->
                            IF v = {} THEN base ELSE LET x == Max(v) IN op(f[v \ {x}], s[x])]
           g == CHOOSE f : it(f)
<1>1. n \in Nat /\ DOMAIN s = 1 .. n /\ \A i \in 1 .. n : s[i] \in T
  BY LenProperties, ElementOfSeq
<1>2. base \in X
  OBVIOUS
<1>3. \A x \in X, o \in T : op(x, o) \in X
  <2> SUFFICES ASSUME NEW x \in X, NEW o \in T PROVE op(x, o) \in X
    OBVIOUS
  <2>1. Append(x.unchanged, o) \in Seq(T) /\ Append(x.toConvert, o) \in Seq(T)
    BY AppendProperties
  <2> QED
    BY <2>1
<1>4. partitionOutputs(s, same) = g[DOMAIN s]
  BY DEF partitionOutputs, FoldLeft, MapThenFoldSet
<1>5. \A x \in X, o \in T :
          /\ op(x, o).unchanged = IF o \in same THEN Append(x.unchanged, o) ELSE x.unchanged
          /\ op(x, o).toConvert = IF o \in same THEN x.toConvert ELSE Append(x.toConvert, o)
  OBVIOUS
<1>6. base.unchanged = <<>> /\ base.toConvert = <<>>
  OBVIOUS
<1> HIDE DEF op, base
<1>7. stp \in [(1 .. n) \X X -> X]
  BY <1>1, <1>3
<1> DEFINE Y == X
<1> HIDE DEF X
<1>8. PICK f : Iterates(f, n, X, base, stp)
  BY <1>1, <1>2, <1>7, Iterate
<1>9. it(f)
  <2>1. ASSUME NEW v \in SUBSET (1 .. n), v # {}
        PROVE  stp[<<Max(v), f[v \ {Max(v)}]>>] = op(f[v \ {Max(v)}], s[Max(v)])
    <3>1. Max(v) \in v
      BY <1>1, <2>1, MaxIn
    <3>2. Max(v) \in 1 .. n /\ f[v \ {Max(v)}] \in X
      BY <1>8, <3>1 DEF Iterates
    <3> QED
      BY <3>2
  <2> HIDE DEF stp
  <2> QED
    BY <1>1, <1>8, <2>1 DEF Iterates
<1>10. it(g)
  BY <1>9
<1> HIDE DEF g
<1>11. g[{}] = base
  BY <1>1, <1>10
<1>12. \A i \in 0 .. n - 1 : g[1 .. i + 1] = op(g[1 .. i], s[i + 1])
  <2> SUFFICES ASSUME NEW i \in 0 .. n - 1 PROVE g[1 .. i + 1] = op(g[1 .. i], s[i + 1])
    OBVIOUS
  <2>1. /\ 1 .. i + 1 # {} /\ 1 .. i + 1 \in SUBSET DOMAIN s
        /\ Max(1 .. i + 1) = i + 1 /\ (1 .. i + 1) \ {i + 1} = 1 .. i
    BY <1>1, Positions
  <2> HIDE DEF n
  <2> QED
    BY <1>10, <2>1
<1> DEFINE Kept(i) == {k \in 1 .. i : s[k] \in same}
           Left(i) == {k \in 1 .. i : s[k] \notin same}
           At(i) == /\ g[1 .. i] \in X
                    /\ \E u, c \in Seq(DOMAIN s) :
                        /\ Picks(g[1 .. i].unchanged, u, s) /\ Picks(g[1 .. i].toConvert, c, s)
                        /\ ToSet(u) = Kept(i) /\ ToSet(c) = Left(i)
           S == {i \in 0 .. n : At(i)}
<1>13. 0 \in S
  <2>1. Kept(0) = {} /\ Left(0) = {}
    BY Positions
  <2>2. g[1 .. 0] = base
    BY <1>1, <1>11, Positions
  <2>3. <<>> \in Seq(DOMAIN s)
    OBVIOUS
  <2> HIDE DEF Kept, Left
  <2>4. At(0)
    BY <1>2, <1>6, <2>1, <2>2, <2>3, PicksEmpty
  <2> QED
    BY <1>1, <2>4
<1>14. \A i \in 0 .. n - 1 : i \in S => i + 1 \in S
  <2> SUFFICES ASSUME NEW i \in 0 .. n - 1, i \in S PROVE i + 1 \in S
    OBVIOUS
  <2>1. i \in Nat /\ i + 1 \in 1 .. n /\ i + 1 \in 0 .. n /\ s[i + 1] \in T /\ i + 1 \in DOMAIN s
    BY <1>1
  <2>2. 1 .. i + 1 = (1 .. i) \cup {i + 1} /\ i + 1 \notin 1 .. i
    BY <2>1
  <2>3. g[1 .. i] \in X
    OBVIOUS
  <2>4. PICK u, c \in Seq(DOMAIN s) :
            /\ Picks(g[1 .. i].unchanged, u, s) /\ Picks(g[1 .. i].toConvert, c, s)
            /\ ToSet(u) = Kept(i) /\ ToSet(c) = Left(i)
    OBVIOUS
  <2>5. g[1 .. i].unchanged \in Seq(T) /\ g[1 .. i].toConvert \in Seq(T)
    BY <2>3 DEF X
  <2>6. i + 1 \notin Kept(i) /\ i + 1 \notin Left(i)
    BY <2>2
  <2>7. /\ Kept(i + 1) = IF s[i + 1] \in same THEN Kept(i) \cup {i + 1} ELSE Kept(i)
        /\ Left(i + 1) = IF s[i + 1] \in same THEN Left(i) ELSE Left(i) \cup {i + 1}
    BY <2>2
  <2> HIDE DEF Kept, Left
  <2>8. g[1 .. i + 1] \in X
    BY <1>3, <1>12, <2>1, <2>3
  <2>9. /\ g[1 .. i + 1].unchanged = IF s[i + 1] \in same THEN Append(g[1 .. i].unchanged, s[i + 1])
                                     ELSE g[1 .. i].unchanged
        /\ g[1 .. i + 1].toConvert = IF s[i + 1] \in same THEN g[1 .. i].toConvert
                                     ELSE Append(g[1 .. i].toConvert, s[i + 1])
    BY <1>5, <1>12, <2>1, <2>3
  <2>10. CASE s[i + 1] \in same
    <3> DEFINE v == Append(u, i + 1)
    <3>1. /\ Picks(Append(g[1 .. i].unchanged, s[i + 1]), v, s) /\ ToSet(v) = ToSet(u) \cup {i + 1}
          /\ v \in Seq(DOMAIN s)
      BY <2>1, <2>4, <2>5, <2>6, PicksMore
    <3> HIDE DEF v
    <3>2. At(i + 1)
      BY <2>4, <2>7, <2>8, <2>9, <2>10, <3>1
    <3> QED
      BY <2>1, <3>2
  <2>11. CASE s[i + 1] \notin same
    <3> DEFINE d == Append(c, i + 1)
    <3>1. /\ Picks(Append(g[1 .. i].toConvert, s[i + 1]), d, s) /\ ToSet(d) = ToSet(c) \cup {i + 1}
          /\ d \in Seq(DOMAIN s)
      BY <2>1, <2>4, <2>5, <2>6, PicksMore
    <3> HIDE DEF d
    <3>2. At(i + 1)
      BY <2>4, <2>7, <2>8, <2>9, <2>11, <3>1
    <3> QED
      BY <2>1, <3>2
  <2> QED
    BY <2>10, <2>11
<1> HIDE DEF S
<1>15. n \in S
  <2>1. \A i \in 0 .. n : i \in S
    BY <1>1, <1>13, <1>14, InductNat
  <2> QED
    BY <1>1, <2>1
<1>16. At(n)
  BY <1>15 DEF S
<1> QED
  BY <1>1, <1>4, <1>16 DEF X, PartitionOf

-------------------------------------------------------------------------------
(* Steps.                                                                      *)

\* The command's input does not change, nor does what is asked of it.
LEMMA SameInput ==
    ASSUME UNCHANGED input
    PROVE  /\ (Apart' <=> Apart) /\ Values' = Values
           /\ \A o : (Exact(o)' <=> Exact(o)) /\ Asked(o)' = Asked(o)
           /\ outputs' = outputs /\ document' = document /\ piped' = piped
           /\ passthrough' = passthrough /\ before' = before
<1>1. outputs' = outputs /\ document' = document /\ piped' = piped /\ passthrough' = passthrough /\ before' = before
  BY DEF input
<1> QED
  BY <1>1 DEF Apart, Values, Exact, Asked

LEMMA Shape ==
    ASSUME ConvertTypeOK
    PROVE  /\ Len(outputs) \in Nat /\ DOMAIN outputs = 1 .. Len(outputs)
           /\ \A k \in DOMAIN outputs : outputs[k] \in Value /\ outputs[k] \in Values
                                        /\ outputs[k].path \in Target \cup {Stdout}
                                        /\ outputs[k].format \in OutputFormat
           /\ \A o \in Values : \E k \in DOMAIN outputs : o = outputs[k]
           /\ IsFiniteSet(DOMAIN outputs)
           /\ document \in Held /\ \A o \in Value : Asked(o) \in Held
           /\ document # Empty /\ \A f : Encoded(f) # Empty
<1>1. outputs \in Seq(Value)
  BY DEF ConvertTypeOK
<1>2. Len(outputs) \in Nat /\ DOMAIN outputs = 1 .. Len(outputs) /\ \A k \in DOMAIN outputs : outputs[k] \in Value
  BY <1>1, LenProperties, ElementOfSeq
<1>3. \A o \in Value : o.path \in Target \cup {Stdout} /\ o.format \in OutputFormat
  BY DEF Value
<1>4. IsFiniteSet(DOMAIN outputs)
  BY <1>2, FS_Interval
<1>5. document \in Held /\ \A o \in Value : Asked(o) \in Held
  BY <1>3 DEF ConvertTypeOK, Held, Asked
<1>6. document # Empty /\ \A f : Encoded(f) # Empty
  <2>1. document.kind = "document"
    <3>1. PICK of \in {"syft-json", "other", "garbage"} : document = Content("document", of)
      BY DEF ConvertTypeOK, Document
    <3> QED
      BY <3>1 DEF Content
  <2>2. Empty.kind = "empty" /\ \A f : Encoded(f).kind = "encoded"
    BY DEF Empty, Encoded, Content
  <2>3. "empty" # "document" /\ "empty" # "encoded"
    OBVIOUS
  <2> QED
    BY <2>1, <2>2, <2>3
<1> QED
  BY <1>2, <1>3, <1>4, <1>5, <1>6 DEF Values

\* What is read is the document as long as no output goes over it.
LEMMA Reads ==
    ASSUME ~piped => disk[InputPath] = document
    PROVE  Reading = document
BY DEF Reading

\* What one more report adds.
LEMMA Reported ==
    ASSUME NEW T, NEW t \in Seq(T), NEW x \in T
    PROVE  Len(Append(t, x)) = Len(t) + 1 /\ ToSet(Append(t, x)) = ToSet(t) \cup {x}
<1> DEFINE a == Append(t, x)
<1>1. Len(t) \in Nat /\ DOMAIN t = 1 .. Len(t)
  BY LenProperties
<1>2. /\ a \in Seq(T) /\ Len(a) = Len(t) + 1
      /\ \A i \in 1 .. Len(t) : a[i] = t[i]
      /\ a[Len(t) + 1] = x
  BY AppendProperties
<1> HIDE DEF a
<1>3. DOMAIN a = (1 .. Len(t)) \cup {Len(t) + 1}
  BY <1>1, <1>2, LenProperties
<1> QED
  BY <1>1, <1>2, <1>3 DEF ToSet, a

LEMMA ReadingHeld ==
    ASSUME ConvertTypeOK
    PROVE  Reading \in Held
BY Shape, ConvertAssumption DEF ConvertTypeOK, Reading

LEMMA InitConvertIInv == ConvertInit => ConvertIInv
<1> SUFFICES ASSUME ConvertInit PROVE ConvertIInv
  OBVIOUS
<1>1. outputs \in Seq(Value)
  <2>1. PICK n \in 1 .. MaxOutputs : outputs \in [1 .. n -> Value]
    BY DEF ConvertInit
  <2>2. n \in Nat
    BY ConvertAssumption, <2>1
  <2> QED
    BY <2>1, <2>2
<1>2. before \in [Target -> Held] /\ before[InputPath] = document /\ disk \in [Target -> Held]
  <2>1. \A q \in Target : before[q] \in Held
    BY DEF ConvertInit, Held
  <2> QED
    BY <2>1, ConvertAssumption DEF ConvertInit
<1>3. ConvertTypeOK
  <2>1. <<>> \in Seq(Held) /\ <<>> \in Seq(Value)
    OBVIOUS
  <2> QED
    BY <1>1, <1>2, <2>1 DEF ConvertTypeOK, ConvertInit
<1>4. BadEnds
  BY DEF BadEnds, ConvertInit
<1>5. <<>> \in Seq(DOMAIN outputs)
  OBVIOUS
<1>6. Stage(<<>>, <<>>, <<>>)
  BY PicksEmpty DEF Stage, ConvertInit
<1>7. Progress(<<>>, <<>>, <<>>)
  BY <1>2 DEF Progress, FilesSoFar, ReportsSoFar, Holds, ConvertInit
<1> QED
  BY <1>3, <1>4, <1>5, <1>6, <1>7 DEF ConvertIInv

LEMMA PartitionIInv == ASSUME ConvertIInv, Partition PROVE ConvertIInv'
<1>0. ConvertTypeOK /\ BadEnds
  BY DEF ConvertIInv
<1>1. PICK u0, c0, w0 \in Seq(DOMAIN outputs) : Stage(u0, c0, w0) /\ (Apart => Progress(u0, c0, w0))
  BY DEF ConvertIInv
<1>2. step = "partition" /\ UNCHANGED <<input, disk, reported, writers>>
  BY DEF Partition
<1>3. disk = before /\ reported = <<>> /\ ToSet(w0) = {} /\ Picks(writers, w0, outputs)
  BY <1>1, <1>2 DEF Stage
<1> DEFINE same == {o \in Value : PassesThrough(o)}
           parts == partitionOutputs(outputs, same)
<1>4. \A o : PassesThrough(o) <=> Exact(o)
  <2>1. Reading = document
    BY <1>0, <1>3 DEF Reading, ConvertTypeOK
  <2>2. document = Content("document", "syft-json") <=> document.of = "syft-json"
    <3>1. PICK of \in {"syft-json", "other", "garbage"} : document = Content("document", of)
      BY <1>0 DEF ConvertTypeOK, Document
    <3>2. document.of = of
      BY <3>1 DEF Content
    <3>3. Content("document", "syft-json").of = "syft-json"
      BY DEF Content
    <3> QED
      BY <3>1, <3>2, <3>3
  <2> QED
    BY <2>1, <2>2 DEF PassesThrough, Exact
<1>5. unchanged' = parts.unchanged /\ converted' = parts.toConvert
      /\ step' = IF parts.toConvert = <<>> THEN "copy" ELSE "resolve"
  BY DEF Partition
<1>6. PICK u, c \in Seq(DOMAIN outputs) :
          /\ Picks(parts.unchanged, u, outputs) /\ Picks(parts.toConvert, c, outputs)
          /\ parts.unchanged \in Seq(Value) /\ parts.toConvert \in Seq(Value)
          /\ ToSet(u) = {k \in DOMAIN outputs : outputs[k] \in same}
          /\ ToSet(c) = {k \in DOMAIN outputs : outputs[k] \notin same}
  <2>1. outputs \in Seq(Value)
    BY <1>0 DEF ConvertTypeOK
  <2> HIDE DEF same, parts
  <2>2. PartitionOf(Value, outputs, same)
    BY <2>1, Partitioned
  <2> QED
    BY <2>2 DEF PartitionOf, parts
<1>7. \A k \in DOMAIN outputs : (k \in ToSet(u) <=> Exact(outputs[k])) /\ (k \in ToSet(c) <=> ~Exact(outputs[k]))
  BY <1>0, <1>4, <1>6, Shape
<1>8. ToSet(u) \subseteq DOMAIN outputs /\ ToSet(c) \subseteq DOMAIN outputs
  BY <1>6
<1> HIDE DEF same, parts
<1>9. parts.toConvert = <<>> <=> ToSet(c) = {}
  BY <1>6, PicksNone
<1>10. outputs' = outputs /\ document' = document /\ piped' = piped /\ disk' = disk /\ before' = before
       /\ reported' = reported /\ writers' = writers /\ passthrough' = passthrough
       /\ \A o : (Exact(o)' <=> Exact(o)) /\ Asked(o)' = Asked(o)
  BY <1>2, SameInput DEF input
<1>11. step' \in {"copy", "resolve"}
  BY <1>5
<1>12. ConvertTypeOK'
  BY <1>0, <1>5, <1>6, <1>10, <1>11 DEF ConvertTypeOK
<1>13. BadEnds'
  <2> SUFFICES ASSUME NEW o \in Values, o.format \in Unsupported PROVE step' = "resolve"
    BY <1>3, <1>10 DEF BadEnds, Values
  <2>1. PICK k \in DOMAIN outputs : o = outputs[k]
    BY DEF Values
  <2>2. ~Exact(o)
    BY ConvertAssumption DEF Exact
  <2> QED
    BY <1>5, <1>7, <1>9, <2>1, <2>2
<1>14. Stage(u, c, w0)'
  <2>1. Picks(unchanged', u, outputs) /\ Picks(converted', c, outputs)
    BY <1>5, <1>6
  <2>2. ToSet(u) \cap ToSet(c) = {} /\ ToSet(u) \cup ToSet(c) = DOMAIN outputs
    BY <1>7, <1>8
  <2>3. step' = "copy" => ToSet(c) = {} /\ \A k \in DOMAIN outputs : ~Exact(outputs[k]) => k \in ToSet(w0)
    BY <1>5, <1>7, <1>9
  <2>4. step' = "resolve" => ToSet(c) # {}
    BY <1>5, <1>9
  <2> QED
    BY <1>3, <1>7, <1>8, <1>10, <1>11, <2>1, <2>2, <2>3, <2>4 DEF Stage
<1>15. Apart' => Progress(u, c, w0)'
  <2>1. ToSet(u) \cup ToSet(c) = DOMAIN outputs
    BY <1>7, <1>8
  <2>2. FilesSoFar(u, c, w0)'
    BY <1>3, <1>10, <2>1 DEF FilesSoFar
  <2>3. ReportsSoFar(u, c, w0)'
    <3>1. Served(u, c, w0)' = {}
      BY <1>10, <2>1 DEF Served
    <3>2. Len(reported') = 0 /\ ToSet(reported') = {}
      BY <1>3, <1>10 DEF ToSet
    <3> QED
      BY <3>1, <3>2, FS_EmptySet DEF ReportsSoFar
  <2>4. Holds' /\ (~piped => disk[InputPath] = document)'
    BY <1>0, <1>3, <1>10 DEF Holds, ConvertTypeOK
  <2> QED
    BY <2>2, <2>3, <2>4 DEF Progress
<1> QED
  BY <1>6, <1>10, <1>12, <1>13, <1>14, <1>15 DEF ConvertIInv

LEMMA ResolveIInv == ASSUME ConvertIInv, ResolveFormats PROVE ConvertIInv'
<1>0. ConvertTypeOK /\ BadEnds
  BY DEF ConvertIInv
<1>1. PICK u, c, w \in Seq(DOMAIN outputs) : Stage(u, c, w) /\ (Apart => Progress(u, c, w))
  BY DEF ConvertIInv
<1>2. step = "resolve" /\ UNCHANGED <<input, disk, reported, unchanged, converted, writers>>
  BY DEF ResolveFormats
<1>3. outputs' = outputs /\ document' = document /\ piped' = piped /\ disk' = disk /\ before' = before
      /\ reported' = reported /\ writers' = writers /\ passthrough' = passthrough
      /\ unchanged' = unchanged /\ converted' = converted
      /\ (Apart' <=> Apart) /\ Values' = Values /\ \A o : (Exact(o)' <=> Exact(o)) /\ Asked(o)' = Asked(o)
  BY <1>2, SameInput DEF input
<1>4. step' \in {"failed", "open"}
  BY DEF ResolveFormats
<1>5. ConvertTypeOK'
  BY <1>0, <1>3, <1>4 DEF ConvertTypeOK
<1>6. BadEnds'
  <2> SUFFICES ASSUME NEW o \in Values, o.format \in Unsupported PROVE step' = "failed"
    BY <1>0, <1>3, <1>4 DEF BadEnds
  <2>1. PICK k \in DOMAIN outputs : o = outputs[k]
    BY DEF Values
  <2>2. ~Exact(o)
    BY ConvertAssumption DEF Exact
  <2>3. k \in ToSet(c)
    BY <1>1, <1>2, <2>1, <2>2 DEF Stage
  <2>4. PICK i \in DOMAIN c : k = c[i]
    BY <2>3 DEF ToSet
  <2>5. Picks(converted, c, outputs) /\ converted \in Seq(Value)
    BY <1>0, <1>1 DEF Stage, ConvertTypeOK
  <2>6. i \in DOMAIN converted /\ converted[i] = o
    BY <2>1, <2>4, <2>5, LenProperties DEF Picks
  <2> QED
    BY <2>6 DEF ResolveFormats
<1>7. Stage(u, c, w)'
  BY <1>1, <1>2, <1>3, <1>4 DEF Stage
<1>8. Apart' => Progress(u, c, w)'
  <2> SUFFICES ASSUME Apart PROVE Progress(u, c, w)'
    BY <1>3
  <2>1. FilesSoFar(u, c, w)'
    BY <1>1, <1>2, <1>3, <1>4 DEF FilesSoFar, Progress
  <2>2. ReportsSoFar(u, c, w)'
    BY <1>1, <1>2, <1>3, <1>4 DEF ReportsSoFar, Progress, Served
  <2>3. Holds' /\ (~piped => disk[InputPath] = document)'
    BY <1>1, <1>3 DEF Holds, Progress
  <2> QED
    BY <2>1, <2>2, <2>3 DEF Progress
<1> QED
  BY <1>1, <1>3, <1>5, <1>6, <1>7, <1>8 DEF ConvertIInv

\* A format that nothing answers to ends the command before anything else is done.
LEMMA GoodFormats ==
    ASSUME BadEnds, step \notin {"partition", "resolve", "failed"}, UNCHANGED input
    PROVE  BadEnds'
<1>1. ~\E o \in Values : o.format \in Unsupported
  BY DEF BadEnds
<1> QED
  BY <1>1, SameInput DEF BadEnds

\* Outputs that are written to different files.
LEMMA Elsewhere ==
    ASSUME Apart, NEW j \in DOMAIN outputs, NEW k \in DOMAIN outputs, j # k, outputs[k].path # Stdout
    PROVE  outputs[j].path # outputs[k].path
BY DEF Apart

LEMMA OpenIInv == ASSUME ConvertIInv, OpenOutput PROVE ConvertIInv'
<1>0. ConvertTypeOK /\ BadEnds
  BY DEF ConvertIInv
<1>1. PICK u, c, w \in Seq(DOMAIN outputs) : Stage(u, c, w) /\ (Apart => Progress(u, c, w))
  BY DEF ConvertIInv
<1>2. step = "open" /\ UNCHANGED <<input, reported, unchanged>>
  BY DEF OpenOutput
<1>3. outputs' = outputs /\ document' = document /\ piped' = piped /\ before' = before
      /\ reported' = reported /\ passthrough' = passthrough /\ unchanged' = unchanged
      /\ (Apart' <=> Apart) /\ Values' = Values /\ \A o : (Exact(o)' <=> Exact(o)) /\ Asked(o)' = Asked(o)
  BY <1>2, SameInput DEF input
<1>4. BadEnds'
  BY <1>0, <1>2, GoodFormats
<1>5. /\ Picks(unchanged, u, outputs) /\ Picks(converted, c, outputs) /\ Picks(writers, w, outputs)
      /\ converted \in Seq(Value) /\ writers \in Seq(Value) /\ converted # <<>>
  BY <1>0, <1>1, <1>2, PicksNone DEF Stage, ConvertTypeOK
<1> DEFINE o == Head(converted)
           k == Head(c)
<1>6. /\ Picks(Tail(converted), Tail(c), outputs)
      /\ k \in ToSet(c) /\ k \in DOMAIN outputs /\ o = outputs[k]
      /\ ToSet(Tail(c)) = ToSet(c) \ {k}
      /\ Tail(converted) \in Seq(Value) /\ Len(Tail(converted)) = Len(converted) - 1
  BY <1>5, PicksRest
<1> HIDE DEF k
<1>7. k \notin ToSet(w) /\ k \notin ToSet(u) /\ ~Exact(o) /\ o \in Value /\ o \in Values
  <2> HIDE DEF o
  <2>1. o \in Value /\ o \in Values
    BY <1>0, <1>6, Shape
  <2> QED
    BY <1>1, <1>6, <2>1 DEF Stage
<1>8. CASE o.path = BadPath
  <2>1. step' = "failed" /\ UNCHANGED <<disk, converted, writers>>
    BY <1>8 DEF OpenOutput, Fail
  <2>2. ConvertTypeOK'
    BY <1>0, <1>3, <2>1 DEF ConvertTypeOK
  <2>3. Stage(u, c, w)'
    BY <1>1, <1>3, <2>1 DEF Stage
  <2>4. Apart' => Progress(u, c, w)'
    BY <1>1, <1>3, <2>1 DEF Progress, FilesSoFar, ReportsSoFar, Holds
  <2> QED
    BY <1>1, <1>3, <1>4, <2>2, <2>3, <2>4 DEF ConvertIInv
<1>9. CASE o.path # BadPath
  <2> DEFINE d == Append(w, k)
  <2>1. /\ disk' = (IF o.path = Stdout THEN disk ELSE [disk EXCEPT ![o.path] = Empty])
        /\ writers' = Append(writers, o) /\ converted' = Tail(converted)
        /\ step' = (IF Len(converted) = 1 THEN "copy" ELSE "open")
    BY <1>9 DEF OpenOutput
  <2>2. /\ Picks(Append(writers, o), d, outputs) /\ ToSet(d) = ToSet(w) \cup {k}
        /\ Append(writers, o) \in Seq(Value) /\ d \in Seq(DOMAIN outputs)
    BY <1>5, <1>6, <1>7, PicksMore
  <2>3. Tail(c) \in Seq(DOMAIN outputs)
    BY <1>6 DEF Picks
  <2>4. step' \in {"copy", "open"} /\ (step' = "copy" <=> ToSet(Tail(c)) = {})
    <3>1. Tail(converted) = <<>> <=> Len(converted) = 1
      <4>1. Len(Tail(converted)) = 0 <=> Tail(converted) = <<>>
        BY <1>6, EmptySeq
      <4>2. Len(converted) \in Nat /\ Len(Tail(converted)) = Len(converted) - 1
        BY <1>5, <1>6, LenProperties
      <4> QED
        BY <4>1, <4>2
    <3>2. Tail(converted) = <<>> <=> ToSet(Tail(c)) = {}
      BY <1>6, PicksNone
    <3> QED
      BY <2>1, <3>1, <3>2
  <2> HIDE DEF d, o
  <2>5. o.path \in Target \cup {Stdout}
    BY <1>7 DEF Value
  <2>6. \A q \in Target : disk'[q] = IF q = o.path THEN Empty ELSE disk[q]
    BY <1>0, <2>1, <2>5, ConvertAssumption DEF ConvertTypeOK
  <2>7. ConvertTypeOK'
    <3>1. disk' \in [Target -> Held]
      BY <1>0, <2>1, <2>5 DEF ConvertTypeOK, Held
    <3> QED
      BY <1>0, <1>3, <1>6, <2>1, <2>2, <2>4, <3>1 DEF ConvertTypeOK
  <2>8. Stage(u, Tail(c), d)'
    <3>1. ToSet(u) \cup ToSet(Tail(c)) \cup ToSet(d) = DOMAIN outputs
      BY <1>1, <1>2, <1>6, <2>2 DEF Stage
    <3>2. step' = "copy" => \A j \in DOMAIN outputs : ~Exact(outputs[j]) => j \in ToSet(d)
      BY <1>1, <2>4, <3>1 DEF Stage
    <3>3. /\ ToSet(u) \cap ToSet(Tail(c)) = {} /\ ToSet(u) \cap ToSet(d) = {} /\ ToSet(Tail(c)) \cap ToSet(d) = {}
          /\ \A j \in ToSet(u) : Exact(outputs[j])
          /\ \A j \in ToSet(Tail(c)) \cup ToSet(d) : ~Exact(outputs[j])
      BY <1>1, <1>6, <1>7, <2>2 DEF Stage
    <3>4. Picks(unchanged', u, outputs) /\ Picks(converted', Tail(c), outputs) /\ Picks(writers', d, outputs)
      BY <1>3, <1>5, <1>6, <2>1, <2>2
    <3>5. reported' = <<>>
      BY <1>1, <1>2, <1>3 DEF Stage
    <3> QED
      BY <1>3, <2>4, <3>1, <3>2, <3>3, <3>4, <3>5 DEF Stage
  <2>9. Apart' => Progress(u, Tail(c), d)'
    <3> SUFFICES ASSUME Apart PROVE Progress(u, Tail(c), d)'
      BY <1>3
    <3>1. Progress(u, c, w)
      BY <1>1
    <3>2. FilesSoFar(u, Tail(c), d)'
      <4> SUFFICES ASSUME NEW j \in DOMAIN outputs, outputs[j].path # Stdout
                   PROVE  /\ j \in ToSet(u) \cup ToSet(Tail(c)) => disk'[outputs[j].path] = before[outputs[j].path]
                          /\ j \in ToSet(d) => disk'[outputs[j].path] = Empty
                          /\ j \notin ToSet(u) \cup ToSet(Tail(c)) \cup ToSet(d) =>
                                 disk'[outputs[j].path] = Asked(outputs[j])
        BY <1>3 DEF FilesSoFar
      <4>1. outputs[j].path \in Target
        BY <1>0, Shape
      <4>2. CASE j = k
        BY <1>6, <2>2, <2>6, <4>1, <4>2, <1>7 DEF o
      <4>3. CASE j # k
        <5>1. outputs[j].path # o.path
          BY <1>6, <4>3, Elsewhere DEF o
        <5>2. disk'[outputs[j].path] = disk[outputs[j].path]
          BY <2>6, <4>1, <5>1
        <5> QED
          BY <1>2, <1>6, <2>2, <3>1, <4>3, <5>2 DEF Progress, FilesSoFar
      <4> QED
        BY <4>2, <4>3
    <3>3. ReportsSoFar(u, Tail(c), d)'
      <4>1. Served(u, Tail(c), d)' = Served(u, c, w)
        BY <1>3, <1>6, <2>2 DEF Served
      <4> QED
        BY <1>2, <1>3, <3>1, <4>1 DEF Progress, ReportsSoFar
    <3>4. Holds'
      BY <1>3, <1>7, <2>6, <3>1 DEF Progress, Holds
    <3>5. (~piped => disk[InputPath] = document)'
      <4> SUFFICES ASSUME ~piped PROVE disk'[InputPath] = document
        BY <1>3
      <4>1. o.path # InputPath
        BY <1>7 DEF Apart
      <4> QED
        BY <2>6, <3>1, <4>1, ConvertAssumption DEF Progress
    <3> QED
      BY <3>2, <3>3, <3>4, <3>5 DEF Progress
  <2> QED
    BY <1>1, <1>3, <1>4, <2>2, <2>3, <2>7, <2>8, <2>9 DEF ConvertIInv
<1> QED
  BY <1>8, <1>9

LEMMA CopyIInv == ASSUME ConvertIInv, CopyUnchanged PROVE ConvertIInv'
<1>0. ConvertTypeOK /\ BadEnds
  BY DEF ConvertIInv
<1>1. PICK u, c, w \in Seq(DOMAIN outputs) : Stage(u, c, w) /\ (Apart => Progress(u, c, w))
  BY DEF ConvertIInv
<1>2. step = "copy" /\ unchanged # <<>> /\ unchanged' = Tail(unchanged) /\ UNCHANGED <<input, converted, writers>>
  BY DEF CopyUnchanged
<1>3. outputs' = outputs /\ document' = document /\ piped' = piped /\ before' = before
      /\ passthrough' = passthrough /\ converted' = converted /\ writers' = writers
      /\ (Apart' <=> Apart) /\ Values' = Values /\ \A o : (Exact(o)' <=> Exact(o)) /\ Asked(o)' = Asked(o)
  BY <1>2, SameInput DEF input
<1>4. BadEnds'
  BY <1>0, <1>2, GoodFormats
<1>5. /\ Picks(unchanged, u, outputs) /\ Picks(converted, c, outputs) /\ Picks(writers, w, outputs)
      /\ unchanged \in Seq(Value)
  BY <1>0, <1>1 DEF Stage, ConvertTypeOK
<1> DEFINE o == Head(unchanged)
           k == Head(u)
<1>6. /\ Picks(Tail(unchanged), Tail(u), outputs)
      /\ k \in ToSet(u) /\ k \in DOMAIN outputs /\ o = outputs[k]
      /\ ToSet(Tail(u)) = ToSet(u) \ {k}
      /\ Tail(unchanged) \in Seq(Value)
  BY <1>2, <1>5, PicksRest
<1> HIDE DEF k
<1>7. /\ k \notin ToSet(w) /\ k \notin ToSet(c) /\ Exact(o) /\ o \in Value /\ o \in Values
      /\ Tail(u) \in Seq(DOMAIN outputs) /\ Asked(o) = document
  <2> HIDE DEF o
  <2>1. o \in Value /\ o \in Values
    BY <1>0, <1>6, Shape
  <2>2. k \notin ToSet(w) /\ k \notin ToSet(c) /\ Exact(o)
    BY <1>1, <1>6 DEF Stage
  <2> QED
    BY <1>6, <2>1, <2>2 DEF Picks, Asked
<1>8. Reading \in Held /\ (Apart => Reading = document)
  BY <1>0, <1>1, ReadingHeld, Reads DEF Progress
<1>9. step' \in {"copy", "failed"} => Stage(Tail(u), c, w)'
  <2>1. /\ ToSet(Tail(u)) \cap ToSet(c) = {} /\ ToSet(Tail(u)) \cap ToSet(w) = {}
        /\ \A j \in ToSet(Tail(u)) : Exact(outputs[j])
    BY <1>1, <1>6 DEF Stage
  <2>2. Picks(unchanged', Tail(u), outputs)
    BY <1>2, <1>6
  <2> QED
    BY <1>1, <1>2, <1>3, <2>1, <2>2 DEF Stage
<1>10. CASE o.path = Stdout
  <2>1. reported' = Append(reported, Reading) /\ disk' = disk /\ step' = step
    BY <1>10, ConvertAssumption DEF CopyUnchanged
  <2>2. ConvertTypeOK'
    BY <1>0, <1>2, <1>3, <1>6, <1>8, <2>1 DEF ConvertTypeOK
  <2>3. Apart' => Progress(Tail(u), c, w)'
    <3> SUFFICES ASSUME Apart PROVE Progress(Tail(u), c, w)'
      BY <1>3
    <3>1. Progress(u, c, w)
      BY <1>1
    <3>2. FilesSoFar(Tail(u), c, w)'
      <4>1. \A j \in DOMAIN outputs : outputs[j].path # Stdout => j # k
        BY <1>6, <1>10
      <4> QED
        BY <1>2, <1>3, <1>6, <2>1, <3>1, <4>1 DEF Progress, FilesSoFar
    <3>3. ReportsSoFar(Tail(u), c, w)'
      <4>1. Served(Tail(u), c, w)' = Served(u, c, w) \cup {k} /\ k \notin Served(u, c, w)
        BY <1>3, <1>6, <1>7, <1>10 DEF Served
      <4>2. IsFiniteSet(Served(u, c, w))
        BY <1>0, Shape, FS_Subset DEF Served
      <4>3. Cardinality(Served(u, c, w) \cup {k}) = Cardinality(Served(u, c, w)) + 1
        BY <4>1, <4>2, FS_AddElement
      <4>4. Len(reported) = Cardinality(Served(u, c, w)) /\ ToSet(reported) = {Asked(outputs[j]) : j \in Served(u, c, w)}
        BY <1>2, <3>1 DEF Progress, ReportsSoFar
      <4>5. Len(reported') = Len(reported) + 1 /\ ToSet(reported') = ToSet(reported) \cup {document}
        <5>1. reported \in Seq(Held)
          BY <1>0 DEF ConvertTypeOK
        <5> QED
          BY <1>8, <2>1, <5>1, Reported
      <4>6. {Asked(outputs[j]) : j \in Served(u, c, w) \cup {k}} = ToSet(reported) \cup {document}
        BY <1>6, <1>7, <4>4
      <4> QED
        BY <1>3, <4>1, <4>3, <4>4, <4>5, <4>6 DEF ReportsSoFar
    <3>4. Holds' /\ (~piped => disk[InputPath] = document)'
      BY <1>3, <2>1, <3>1 DEF Progress, Holds
    <3> QED
      BY <3>2, <3>3, <3>4 DEF Progress
  <2> QED
    BY <1>1, <1>2, <1>3, <1>4, <1>7, <1>9, <2>1, <2>2, <2>3 DEF ConvertIInv
<1>11. CASE o.path # Stdout /\ o.path = BadPath
  <2>1. step' = "failed" /\ disk' = disk /\ reported' = reported
    BY <1>11, ConvertAssumption DEF CopyUnchanged, Fail
  <2>2. ConvertTypeOK'
    BY <1>0, <1>2, <1>3, <1>6, <2>1 DEF ConvertTypeOK
  <2>3. Apart' => Progress(Tail(u), c, w)'
    BY <1>1, <1>3, <2>1 DEF Progress, FilesSoFar, ReportsSoFar, Holds
  <2> QED
    BY <1>1, <1>2, <1>3, <1>4, <1>7, <1>9, <2>1, <2>2, <2>3 DEF ConvertIInv
<1>12. CASE o.path # Stdout /\ o.path # BadPath
  <2>1. disk' = [disk EXCEPT ![o.path] = Copied(o.path)] /\ reported' = reported /\ step' = step
    BY <1>12 DEF CopyUnchanged
  <2>2. o.path \in Target
    BY <1>7, <1>12 DEF Value
  <2>3. Copied(o.path) \in Held /\ (Apart => Copied(o.path) = document)
    BY <1>0, <1>1, <1>8, <2>2 DEF Copied, ConvertTypeOK, Progress
  <2> HIDE DEF o
  <2>4. \A q \in Target : disk'[q] = IF q = o.path THEN Copied(o.path) ELSE disk[q]
    BY <1>0, <2>1, <2>2 DEF ConvertTypeOK
  <2>5. ConvertTypeOK'
    <3>1. disk' \in [Target -> Held]
      BY <1>0, <2>1, <2>2, <2>3 DEF ConvertTypeOK
    <3> QED
      BY <1>0, <1>2, <1>3, <1>6, <2>1, <3>1 DEF ConvertTypeOK
  <2>6. Apart' => Progress(Tail(u), c, w)'
    <3> SUFFICES ASSUME Apart PROVE Progress(Tail(u), c, w)'
      BY <1>3
    <3>1. Progress(u, c, w)
      BY <1>1
    <3>2. FilesSoFar(Tail(u), c, w)'
      <4> SUFFICES ASSUME NEW j \in DOMAIN outputs, outputs[j].path # Stdout
                   PROVE  /\ j \in ToSet(Tail(u)) \cup ToSet(c) => disk'[outputs[j].path] = before[outputs[j].path]
                          /\ j \in ToSet(w) => disk'[outputs[j].path] = Empty
                          /\ j \notin ToSet(Tail(u)) \cup ToSet(c) \cup ToSet(w) =>
                                 disk'[outputs[j].path] = Asked(outputs[j])
        BY <1>3 DEF FilesSoFar
      <4>1. outputs[j].path \in Target
        BY <1>0, Shape
      <4>2. CASE j = k
        <5>1. disk'[outputs[j].path] = document /\ Asked(outputs[j]) = document
          BY <1>6, <1>7, <2>2, <2>3, <2>4, <4>2
        <5>2. j \notin ToSet(Tail(u)) \cup ToSet(c) /\ j \notin ToSet(w)
          BY <1>6, <1>7, <4>2
        <5> QED
          BY <5>1, <5>2
      <4>3. CASE j # k
        <5>1. outputs[j].path # o.path
          BY <1>6, <1>12, <4>3, Elsewhere
        <5>2. disk'[outputs[j].path] = disk[outputs[j].path]
          BY <2>4, <4>1, <5>1
        <5> QED
          BY <1>2, <1>6, <3>1, <4>3, <5>2 DEF Progress, FilesSoFar
      <4> QED
        BY <4>2, <4>3
    <3>3. ReportsSoFar(Tail(u), c, w)'
      <4>1. Served(Tail(u), c, w)' = Served(u, c, w)
        BY <1>3, <1>6, <1>12 DEF Served
      <4> QED
        BY <1>2, <1>3, <2>1, <3>1, <4>1 DEF Progress, ReportsSoFar
    <3>4. Holds'
      BY <1>3, <1>7, <2>3, <2>4, <3>1 DEF Progress, Holds
    <3>5. (~piped => disk[InputPath] = document)'
      BY <1>3, <2>3, <2>4, <3>1, ConvertAssumption DEF Progress
    <3> QED
      BY <3>2, <3>3, <3>4, <3>5 DEF Progress
  <2> QED
    BY <1>1, <1>2, <1>3, <1>4, <1>7, <1>9, <2>1, <2>5, <2>6 DEF ConvertIInv
<1> QED
  BY <1>10, <1>11, <1>12

LEMMA DecodeIInv == ASSUME ConvertIInv, DecodeDocument PROVE ConvertIInv'
<1>0. ConvertTypeOK /\ BadEnds
  BY DEF ConvertIInv
<1>1. PICK u, c, w \in Seq(DOMAIN outputs) : Stage(u, c, w) /\ (Apart => Progress(u, c, w))
  BY DEF ConvertIInv
<1>2. /\ step = "copy" /\ unchanged = <<>> /\ UNCHANGED <<input, disk, reported, unchanged, converted, writers>>
      /\ step' \in {"done", "write", "failed"} /\ (step' = "done" => writers = <<>>)
  BY DEF DecodeDocument
<1>3. outputs' = outputs /\ document' = document /\ piped' = piped /\ disk' = disk /\ before' = before
      /\ reported' = reported /\ writers' = writers /\ passthrough' = passthrough
      /\ unchanged' = unchanged /\ converted' = converted
      /\ (Apart' <=> Apart) /\ Values' = Values /\ \A o : (Exact(o)' <=> Exact(o)) /\ Asked(o)' = Asked(o)
  BY <1>2, SameInput DEF input
<1>4. BadEnds'
  BY <1>0, <1>2, GoodFormats
<1>5. ConvertTypeOK'
  BY <1>0, <1>2, <1>3 DEF ConvertTypeOK
<1>6. ToSet(u) = {} /\ ToSet(c) = {} /\ (step' = "done" => ToSet(w) = {})
  <2>1. unchanged \in Seq(Value) /\ writers \in Seq(Value)
    BY <1>0 DEF ConvertTypeOK
  <2> QED
    BY <1>1, <1>2, <2>1, PicksNone DEF Stage
<1>7. Stage(u, c, w)'
  BY <1>1, <1>2, <1>3, <1>6 DEF Stage
<1>8. Apart' => Progress(u, c, w)'
  <2> SUFFICES ASSUME Apart PROVE Progress(u, c, w)'
    BY <1>3
  <2>1. Progress(u, c, w)
    BY <1>1
  <2>2. FilesSoFar(u, c, w)'
    BY <1>2, <1>3, <2>1 DEF FilesSoFar, Progress
  <2>3. ReportsSoFar(u, c, w)'
    BY <1>2, <1>3, <2>1 DEF ReportsSoFar, Progress, Served
  <2>4. Holds' /\ (~piped => disk[InputPath] = document)'
    BY <1>3, <2>1 DEF Holds, Progress
  <2> QED
    BY <2>2, <2>3, <2>4 DEF Progress
<1> QED
  BY <1>1, <1>3, <1>4, <1>5, <1>7, <1>8 DEF ConvertIInv

LEMMA WriteIInv == ASSUME ConvertIInv, WriteSBOM PROVE ConvertIInv'
<1>0. ConvertTypeOK /\ BadEnds
  BY DEF ConvertIInv
<1>1. PICK u, c, w \in Seq(DOMAIN outputs) : Stage(u, c, w) /\ (Apart => Progress(u, c, w))
  BY DEF ConvertIInv
<1>2. /\ step \in {"write", "write failing"} /\ writers # <<>> /\ writers' = Tail(writers)
      /\ UNCHANGED <<input, unchanged, converted>>
  BY DEF WriteSBOM
<1>3. outputs' = outputs /\ document' = document /\ piped' = piped /\ before' = before
      /\ passthrough' = passthrough /\ converted' = converted /\ unchanged' = unchanged
      /\ (Apart' <=> Apart) /\ Values' = Values /\ \A o : (Exact(o)' <=> Exact(o)) /\ Asked(o)' = Asked(o)
  BY <1>2, SameInput DEF input
<1>4. BadEnds'
  BY <1>0, <1>2, GoodFormats
<1>5. /\ Picks(unchanged, u, outputs) /\ Picks(converted, c, outputs) /\ Picks(writers, w, outputs)
      /\ writers \in Seq(Value)
  BY <1>0, <1>1 DEF Stage, ConvertTypeOK
<1> DEFINE o == Head(writers)
           k == Head(w)
<1>6. /\ Picks(Tail(writers), Tail(w), outputs)
      /\ k \in ToSet(w) /\ k \in DOMAIN outputs /\ o = outputs[k]
      /\ ToSet(Tail(w)) = ToSet(w) \ {k}
      /\ Tail(writers) \in Seq(Value)
  BY <1>2, <1>5, PicksRest
<1> HIDE DEF k
<1>7. /\ k \notin ToSet(u) /\ k \notin ToSet(c) /\ ~Exact(o) /\ o \in Value /\ o \in Values
      /\ Tail(w) \in Seq(DOMAIN outputs) /\ Asked(o) = Encoded(o.format) /\ o.format \in OutputFormat
      /\ o.path \in Target \cup {Stdout}
  <2> HIDE DEF o
  <2>1. o \in Value /\ o \in Values /\ o.format \in OutputFormat /\ o.path \in Target \cup {Stdout}
    BY <1>0, <1>6, Shape
  <2>2. k \notin ToSet(u) /\ k \notin ToSet(c) /\ ~Exact(o)
    BY <1>1, <1>6 DEF Stage
  <2> QED
    BY <1>6, <2>1, <2>2 DEF Picks, Asked
<1>8. PICK encodes \in BOOLEAN :
        /\ IF o.path = Stdout
           THEN /\ reported' = IF encodes THEN Append(reported, Encoded(o.format)) ELSE reported
                /\ UNCHANGED disk
           ELSE /\ disk' = [disk EXCEPT ![o.path] =
                                IF disk[o.path] = Empty THEN IF encodes THEN Encoded(o.format) ELSE Empty
                                ELSE IF encodes THEN Mixed ELSE disk[o.path]]
                /\ UNCHANGED reported
        /\ step' = IF encodes THEN step ELSE "write failing"
  <2>1. \A e \in BOOLEAN : (IF e THEN (IF e THEN Encoded(o.format) ELSE Empty) ELSE 0) = (IF e THEN Encoded(o.format) ELSE 0)
    OBVIOUS
  <2>2. \E e \in BOOLEAN :
            /\ IF o.path = Stdout
               THEN /\ reported' = IF e THEN Append(reported, IF e THEN Encoded(o.format) ELSE Empty) ELSE reported
                    /\ UNCHANGED disk
               ELSE /\ disk' = [disk EXCEPT ![o.path] =
                                    IF disk[o.path] = Empty THEN IF e THEN Encoded(o.format) ELSE Empty
                                    ELSE IF e THEN Mixed ELSE disk[o.path]]
                    /\ UNCHANGED reported
            /\ step' = IF e THEN step ELSE "write failing"
    BY DEF WriteSBOM
  <2> HIDE DEF o
  <2> QED
    BY <2>2
<1> HIDE DEF o
<1>9. step' \in {"write", "write failing"} /\ (step' = "write" => step = "write" /\ encodes)
  BY <1>2, <1>8
<1>10. Stage(u, c, Tail(w))'
  <2>1. /\ ToSet(u) \cap ToSet(Tail(w)) = {} /\ ToSet(c) \cap ToSet(Tail(w)) = {}
        /\ \A j \in ToSet(c) \cup ToSet(Tail(w)) : ~Exact(outputs[j])
    BY <1>1, <1>6 DEF Stage
  <2>2. Picks(writers', Tail(w), outputs)
    BY <1>2, <1>6
  <2> QED
    BY <1>1, <1>2, <1>3, <1>9, <2>1, <2>2 DEF Stage
<1>11. CASE o.path = Stdout
  <2>1. reported' = (IF encodes THEN Append(reported, Encoded(o.format)) ELSE reported) /\ disk' = disk
    BY <1>8, <1>11
  <2>2. reported \in Seq(Held) /\ Encoded(o.format) \in Held
    BY <1>0, <1>7 DEF ConvertTypeOK, Held
  <2>3. ConvertTypeOK'
    <3>1. reported' \in Seq(Held)
      BY <2>1, <2>2
    <3> QED
      BY <1>0, <1>2, <1>3, <1>6, <1>9, <2>1, <3>1 DEF ConvertTypeOK
  <2>4. Apart' => Progress(u, c, Tail(w))'
    <3> SUFFICES ASSUME Apart PROVE Progress(u, c, Tail(w))'
      BY <1>3
    <3>1. Progress(u, c, w)
      BY <1>1
    <3>2. FilesSoFar(u, c, Tail(w))'
      <4>1. \A j \in DOMAIN outputs : outputs[j].path # Stdout => j # k
        BY <1>6, <1>11
      <4> QED
        BY <1>2, <1>3, <1>6, <1>9, <2>1, <3>1, <4>1 DEF Progress, FilesSoFar
    <3>3. ReportsSoFar(u, c, Tail(w))'
      <4> SUFFICES ASSUME step' = "write"
                   PROVE  /\ Len(reported') = Cardinality(Served(u, c, Tail(w))')
                          /\ ToSet(reported') = {Asked(outputs[j]) : j \in Served(u, c, Tail(w))'}
        BY <1>3, <1>9 DEF ReportsSoFar
      <4>1. Served(u, c, Tail(w))' = Served(u, c, w) \cup {k} /\ k \notin Served(u, c, w)
        BY <1>3, <1>6, <1>7, <1>11 DEF Served
      <4>2. IsFiniteSet(Served(u, c, w))
        BY <1>0, Shape, FS_Subset DEF Served
      <4>3. Cardinality(Served(u, c, w) \cup {k}) = Cardinality(Served(u, c, w)) + 1
        BY <4>1, <4>2, FS_AddElement
      <4>4. Len(reported) = Cardinality(Served(u, c, w)) /\ ToSet(reported) = {Asked(outputs[j]) : j \in Served(u, c, w)}
        BY <1>9, <3>1 DEF Progress, ReportsSoFar
      <4>5. Len(reported') = Len(reported) + 1 /\ ToSet(reported') = ToSet(reported) \cup {Encoded(o.format)}
        BY <1>9, <2>1, <2>2, Reported
      <4>6. {Asked(outputs[j]) : j \in Served(u, c, w) \cup {k}} = ToSet(reported) \cup {Encoded(o.format)}
        BY <1>6, <1>7, <4>4
      <4> QED
        BY <4>1, <4>3, <4>4, <4>5, <4>6
    <3>4. Holds' /\ (~piped => disk[InputPath] = document)'
      BY <1>3, <2>1, <3>1 DEF Progress, Holds
    <3> QED
      BY <3>2, <3>3, <3>4 DEF Progress
  <2> QED
    BY <1>1, <1>2, <1>3, <1>4, <1>7, <1>10, <2>3, <2>4 DEF ConvertIInv
<1>12. CASE o.path # Stdout
  <2> DEFINE new == IF disk[o.path] = Empty THEN IF encodes THEN Encoded(o.format) ELSE Empty
                    ELSE IF encodes THEN Mixed ELSE disk[o.path]
  <2>1. disk' = [disk EXCEPT ![o.path] = new] /\ reported' = reported
    BY <1>8, <1>12
  <2>2. o.path \in Target
    BY <1>7, <1>12
  <2>3. new \in Held
    BY <1>0, <1>7, <2>2 DEF ConvertTypeOK, Held
  <2>4. Apart => new = IF encodes THEN Asked(o) ELSE Empty
    <3>1. Apart => disk[o.path] = Empty
      BY <1>1, <1>2, <1>6, <1>12 DEF Progress, FilesSoFar
    <3> QED
      BY <1>7, <3>1
  <2> HIDE DEF new
  <2>5. \A q \in Target : disk'[q] = IF q = o.path THEN new ELSE disk[q]
    BY <1>0, <2>1, <2>2 DEF ConvertTypeOK
  <2>6. ConvertTypeOK'
    <3>1. disk' \in [Target -> Held]
      BY <1>0, <2>1, <2>2, <2>3 DEF ConvertTypeOK
    <3> QED
      BY <1>0, <1>2, <1>3, <1>6, <1>9, <2>1, <3>1 DEF ConvertTypeOK
  <2>7. Apart' => Progress(u, c, Tail(w))'
    <3> SUFFICES ASSUME Apart PROVE Progress(u, c, Tail(w))'
      BY <1>3
    <3>1. Progress(u, c, w)
      BY <1>1
    <3>2. FilesSoFar(u, c, Tail(w))'
      <4> SUFFICES ASSUME NEW j \in DOMAIN outputs, outputs[j].path # Stdout
                   PROVE  /\ j \in ToSet(u) \cup ToSet(c) => disk'[outputs[j].path] = before[outputs[j].path]
                          /\ j \in ToSet(Tail(w)) => disk'[outputs[j].path] = Empty
                          /\ j \notin ToSet(u) \cup ToSet(c) \cup ToSet(Tail(w)) /\ step' # "write failing" =>
                                 disk'[outputs[j].path] = Asked(outputs[j])
        BY <1>3 DEF FilesSoFar
      <4>1. outputs[j].path \in Target
        BY <1>0, Shape
      <4>2. CASE j = k
        <5>1. disk'[outputs[j].path] = IF encodes THEN Asked(outputs[j]) ELSE Empty
          BY <1>6, <2>2, <2>4, <2>5, <4>2
        <5>2. j \notin ToSet(Tail(w)) /\ j \notin ToSet(u) \cup ToSet(c)
          BY <1>6, <1>7, <4>2
        <5> QED
          BY <1>9, <5>1, <5>2
      <4>3. CASE j # k
        <5>1. outputs[j].path # o.path
          BY <1>6, <1>12, <4>3, Elsewhere
        <5>2. disk'[outputs[j].path] = disk[outputs[j].path]
          BY <2>5, <4>1, <5>1
        <5> QED
          BY <1>2, <1>6, <1>9, <3>1, <4>3, <5>2 DEF Progress, FilesSoFar
      <4> QED
        BY <4>2, <4>3
    <3>3. ReportsSoFar(u, c, Tail(w))'
      <4>1. Served(u, c, Tail(w))' = Served(u, c, w)
        BY <1>3, <1>6, <1>12 DEF Served
      <4> QED
        BY <1>3, <1>9, <2>1, <3>1, <4>1 DEF Progress, ReportsSoFar
    <3>4. Holds'
      BY <1>3, <1>7, <2>4, <2>5, <3>1 DEF Progress, Holds
    <3>5. (~piped => disk[InputPath] = document)'
      <4> SUFFICES ASSUME ~piped PROVE disk'[InputPath] = document
        BY <1>3
      <4>1. o.path # InputPath
        BY <1>7 DEF Apart
      <4> QED
        BY <2>5, <3>1, <4>1, ConvertAssumption DEF Progress
    <3> QED
      BY <3>2, <3>3, <3>4, <3>5 DEF Progress
  <2> QED
    BY <1>1, <1>2, <1>3, <1>4, <1>7, <1>10, <2>6, <2>7 DEF ConvertIInv
<1> QED
  BY <1>11, <1>12

LEMMA FinishIInv == ASSUME ConvertIInv, FinishWriting PROVE ConvertIInv'
<1>0. ConvertTypeOK /\ BadEnds
  BY DEF ConvertIInv
<1>1. PICK u, c, w \in Seq(DOMAIN outputs) : Stage(u, c, w) /\ (Apart => Progress(u, c, w))
  BY DEF ConvertIInv
<1>2. /\ step \in {"write", "write failing"} /\ writers = <<>>
      /\ UNCHANGED <<input, disk, reported, unchanged, converted, writers>>
      /\ step' \in {"done", "failed"} /\ (step' = "done" => step = "write")
  BY DEF FinishWriting
<1>3. outputs' = outputs /\ document' = document /\ piped' = piped /\ disk' = disk /\ before' = before
      /\ reported' = reported /\ writers' = writers /\ passthrough' = passthrough
      /\ unchanged' = unchanged /\ converted' = converted
      /\ (Apart' <=> Apart) /\ Values' = Values /\ \A o : (Exact(o)' <=> Exact(o)) /\ Asked(o)' = Asked(o)
  BY <1>2, SameInput DEF input
<1>4. BadEnds'
  BY <1>0, <1>2, GoodFormats
<1>5. ConvertTypeOK'
  BY <1>0, <1>2, <1>3 DEF ConvertTypeOK
<1>6. ToSet(w) = {}
  <2>1. writers \in Seq(Value)
    BY <1>0 DEF ConvertTypeOK
  <2> QED
    BY <1>1, <1>2, <2>1, PicksNone DEF Stage
<1>7. Stage(u, c, w)'
  BY <1>1, <1>2, <1>3, <1>6 DEF Stage
<1>8. Apart' => Progress(u, c, w)'
  <2> SUFFICES ASSUME Apart PROVE Progress(u, c, w)'
    BY <1>3
  <2>1. Progress(u, c, w)
    BY <1>1
  <2>2. FilesSoFar(u, c, w)'
    BY <1>2, <1>3, <2>1 DEF FilesSoFar, Progress
  <2>3. ReportsSoFar(u, c, w)'
    BY <1>2, <1>3, <2>1 DEF ReportsSoFar, Progress, Served
  <2>4. Holds' /\ (~piped => disk[InputPath] = document)'
    BY <1>3, <2>1 DEF Holds, Progress
  <2> QED
    BY <2>2, <2>3, <2>4 DEF Progress
<1> QED
  BY <1>1, <1>3, <1>4, <1>5, <1>7, <1>8 DEF ConvertIInv

LEMMA StutterIInv == ASSUME ConvertIInv, UNCHANGED convertVars PROVE ConvertIInv'
<1>1. /\ UNCHANGED input /\ outputs' = outputs /\ document' = document /\ piped' = piped /\ disk' = disk
      /\ before' = before /\ reported' = reported /\ writers' = writers /\ passthrough' = passthrough
      /\ unchanged' = unchanged /\ converted' = converted /\ step' = step
  BY DEF convertVars, input
<1>2. (Apart' <=> Apart) /\ Values' = Values /\ \A o : (Exact(o)' <=> Exact(o)) /\ Asked(o)' = Asked(o)
  BY <1>1, SameInput
<1>3. ConvertTypeOK' /\ BadEnds'
  BY <1>1, <1>2 DEF ConvertIInv, ConvertTypeOK, BadEnds
<1>4. PICK u, c, w \in Seq(DOMAIN outputs) : Stage(u, c, w) /\ (Apart => Progress(u, c, w))
  BY DEF ConvertIInv
<1>5. Stage(u, c, w)'
  BY <1>1, <1>2, <1>4 DEF Stage
<1>6. Apart' => Progress(u, c, w)'
  <2> SUFFICES ASSUME Apart PROVE Progress(u, c, w)'
    BY <1>2
  <2>1. Progress(u, c, w)
    BY <1>4
  <2>2. FilesSoFar(u, c, w)'
    BY <1>1, <1>2, <2>1 DEF FilesSoFar, Progress
  <2>3. ReportsSoFar(u, c, w)'
    BY <1>1, <1>2, <2>1 DEF ReportsSoFar, Progress, Served
  <2>4. Holds' /\ (~piped => disk[InputPath] = document)'
    BY <1>1, <1>2, <2>1 DEF Holds, Progress
  <2> QED
    BY <2>2, <2>3, <2>4 DEF Progress
<1> QED
  BY <1>1, <1>3, <1>4, <1>5, <1>6 DEF ConvertIInv

-------------------------------------------------------------------------------

LEMMA IInvFaithful == ConvertIInv => OutputsFaithful
<1> SUFFICES ASSUME ConvertIInv PROVE OutputsFaithful
  OBVIOUS
<1>0. ConvertTypeOK /\ BadEnds
  BY DEF ConvertIInv
<1>1. PICK u, c, w \in Seq(DOMAIN outputs) : Stage(u, c, w) /\ (Apart => Progress(u, c, w))
  BY DEF ConvertIInv
<1>2. BadFormatHarmless
  BY <1>0 DEF BadEnds, BadFormatHarmless
<1> SUFFICES ASSUME Apart
             PROVE  /\ \A q \in Target : disk[q] \in {before[q]} \cup
                         (IF q \in Files(Values)
                          THEN {Empty} \cup {Encoded(o.format) : o \in {o \in Values : o.path = q}} \cup {document}
                          ELSE {})
                    /\ step = "done" =>
                         /\ \A o \in Values : o.path # Stdout =>
                                disk[o.path] = IF Exact(o) THEN document ELSE Encoded(o.format)
                         /\ Len(reported) = Cardinality({k \in DOMAIN outputs : outputs[k].path = Stdout})
                         /\ {reported[k] : k \in DOMAIN reported} =
                                {IF Exact(o) THEN document ELSE Encoded(o.format) :
                                     o \in {o \in Values : o.path = Stdout}}
  BY <1>2 DEF OutputsFaithful
<1>3. Progress(u, c, w)
  BY <1>1
<1>4. ASSUME NEW q \in Target
      PROVE  disk[q] \in {before[q]} \cup
                 (IF q \in Files(Values)
                  THEN {Empty} \cup {Encoded(o.format) : o \in {o \in Values : o.path = q}} \cup {document}
                  ELSE {})
  <2>1. CASE disk[q] = before[q]
    BY <2>1
  <2>2. CASE \E o \in Values : o.path = q /\ disk[q] \in {Empty, document, Encoded(o.format)}
    <3>1. PICK o \in Values : o.path = q /\ disk[q] \in {Empty, document, Encoded(o.format)}
      BY <2>2
    <3>2. q \in Files(Values)
      BY <3>1, ConvertAssumption DEF Files
    <3> QED
      BY <3>1, <3>2
  <2> QED
    BY <1>3, <2>1, <2>2 DEF Progress, Holds
<1>5. ASSUME step = "done"
      PROVE  /\ \A o \in Values : o.path # Stdout => disk[o.path] = Asked(o)
             /\ Len(reported) = Cardinality({k \in DOMAIN outputs : outputs[k].path = Stdout})
             /\ ToSet(reported) = {Asked(o) : o \in {o \in Values : o.path = Stdout}}
  <2>1. ToSet(u) = {} /\ ToSet(c) = {} /\ ToSet(w) = {}
    BY <1>1, <1>5 DEF Stage
  <2>2. Served(u, c, w) = {k \in DOMAIN outputs : outputs[k].path = Stdout}
    BY <2>1 DEF Served
  <2>3. \A o \in Values : o.path # Stdout => disk[o.path] = Asked(o)
    BY <1>3, <1>5, <2>1 DEF Values, Progress, FilesSoFar
  <2>4. {Asked(o) : o \in {o \in Values : o.path = Stdout}} = {Asked(outputs[k]) : k \in Served(u, c, w)}
    BY <2>2 DEF Values
  <2> QED
    BY <1>3, <1>5, <2>2, <2>3, <2>4 DEF Progress, ReportsSoFar
<1>6. ToSet(reported) = {reported[k] : k \in DOMAIN reported}
  BY DEF ToSet
<1> QED
  BY <1>4, <1>5, <1>6 DEF Asked

\* The convert command: one that succeeds leaves in every file what was asked for there,
\* one that fails leaves nothing else, and a format that nothing answers to does no harm.
THEOREM OutputsFaithfully == ConvertSpec => []OutputsFaithful
<1>1. ConvertInit => ConvertIInv
  BY InitConvertIInv
<1>2. ConvertIInv /\ [ConvertNext \/ ConvertDone]_convertVars => ConvertIInv'
  <2> SUFFICES ASSUME ConvertIInv, [ConvertNext \/ ConvertDone]_convertVars PROVE ConvertIInv'
    OBVIOUS
  <2>1. CASE Partition
    BY <2>1, PartitionIInv
  <2>2. CASE ResolveFormats
    BY <2>2, ResolveIInv
  <2>3. CASE OpenOutput
    BY <2>3, OpenIInv
  <2>4. CASE CopyUnchanged
    BY <2>4, CopyIInv
  <2>5. CASE DecodeDocument
    BY <2>5, DecodeIInv
  <2>6. CASE WriteSBOM
    BY <2>6, WriteIInv
  <2>7. CASE FinishWriting
    BY <2>7, FinishIInv
  <2>8. CASE UNCHANGED convertVars
    BY <2>8, StutterIInv
  <2> QED
    BY <2>1, <2>2, <2>3, <2>5, <2>4, <2>6, <2>7, <2>8 DEF ConvertNext, ConvertDone
<1>3. ConvertIInv => OutputsFaithful
  BY IInvFaithful
<1> QED
  BY <1>1, <1>2, <1>3, PTL DEF ConvertSpec

--------------------------------------------------------------------------------
(* The views of an image.                                                     *)

\* The references of an image.
Reference(im) == (1 .. Len(im)) \X Path

\* What a tree refers to: entries of the image, each at its own path, links to a path.
IsTree(im, tree) ==
    /\ DOMAIN tree \subseteq Path
    /\ \A p \in DOMAIN tree :
        /\ tree[p] \in Reference(im) /\ tree[p] # NoRef /\ tree[p][2] = p
        /\ IsLink(im, tree[p]) => Entry(im, tree[p]).to \in Path

LEMMA LayersAre ==
    ASSUME NEW im \in Seq(Layer), NEW n \in 1 .. Len(im)
    PROVE  /\ DOMAIN im[n] \subseteq Path
           /\ \A p \in DOMAIN im[n] : im[n][p].kind = "link" => im[n][p].to \in Path
<1>1. im[n] \in Layer
  BY ElementOfSeq
<1>2. PICK D \in SUBSET Path : im[n] \in [D -> {Regular, Whiteout} \cup {Symlink(p) : p \in Path}]
  BY <1>1 DEF Layer
<1> QED
  BY <1>2 DEF Regular, Whiteout, Symlink

LEMMA LayerTreeIs ==
    ASSUME NEW im \in Seq(Layer), NEW n \in 1 .. Len(im)
    PROVE  IsTree(im, LayerTree(im, n))
<1>1. \A p : <<n, p>> # NoRef /\ <<n, p>>[1] = n /\ <<n, p>>[2] = p
  BY DEF NoRef
<1> QED
  BY <1>1, LayersAre DEF IsTree, LayerTree, IsLink, Entry, Reference

LEMMA SquashedTreeIs ==
    ASSUME NEW im \in Seq(Layer), NEW n \in 0 .. Len(im)
    PROVE  IsTree(im, SquashedTree(im, n))
<1>0. Len(im) \in Nat /\ n \in Nat
  BY LenProperties
<1>1. ASSUME NEW p, LastLayer(im, n, p) # 0
      PROVE  LastLayer(im, n, p) \in 1 .. Len(im) /\ p \in DOMAIN im[LastLayer(im, n, p)]
  <2> DEFINE S == {i \in 1 .. n : p \in DOMAIN im[i]}
  <2>1. S # {} /\ LastLayer(im, n, p) = CHOOSE i \in S : \A j \in S : j <= i
    BY <1>1 DEF LastLayer
  <2>2. Max(S) \in S /\ \A j \in S : Max(S) >= j
    BY <1>0, <2>1, MaxIn
  <2>3. \A j \in S : j <= Max(S)
    BY <2>2
  <2>4. LastLayer(im, n, p) \in S
    BY <2>1, <2>2, <2>3
  <2> QED
    BY <1>0, <2>4
<1>2. \A i, p : <<i, p>> # NoRef /\ <<i, p>>[1] = i /\ <<i, p>>[2] = p
  BY DEF NoRef
<1> QED
  BY <1>1, <1>2, LayersAre DEF IsTree, SquashedTree, IsLink, Entry, Reference

-------------------------------------------------------------------------------
(* Following links.                                                            *)

\* What a search that met the paths met finds at each path, from what it finds once
\* it has met one more.
Row(im, tree, keepDead, F, met) ==
    [p \in Path |->
        IF p \notin DOMAIN tree \/ p \in met THEN NoRef
        ELSE IF ~IsLink(im, tree[p]) THEN tree[p]
        ELSE LET next == F[met \cup {p}][Entry(im, tree[p]).to]
             IN IF next = NoRef /\ keepDead THEN tree[p] ELSE next]

Follows(im, tree, keepDead, F) ==
    F = [met \in SUBSET Path |-> Row(im, tree, keepDead, F, met)]

\* A path that was not met yet is one fewer to come.
LEMMA OneFewer ==
    ASSUME NEW met \in SUBSET Path, NEW p \in Path, p \notin met
    PROVE  /\ Cardinality(Path \ met) \in Nat /\ Cardinality(Path \ (met \cup {p})) \in Nat
           /\ Cardinality(Path \ (met \cup {p})) = Cardinality(Path \ met) - 1
<1>1. IsFiniteSet(Path \ met) /\ p \in Path \ met
  BY PathsAssumption, FS_Subset
<1>2. (Path \ met) \ {p} = Path \ (met \cup {p})
  OBVIOUS
<1> QED
  <2> DEFINE R == Path \ met
  <2>1. IsFiniteSet(R) /\ IsFiniteSet(R \ {p}) /\ Cardinality(R \ {p}) = Cardinality(R) - 1
    BY <1>1, FS_RemoveElement, FS_Subset
  <2>2. Cardinality(R) \in Nat /\ Cardinality(R \ {p}) \in Nat
    BY <2>1, FS_CardinalityType
  <2> HIDE DEF R
  <2> QED
    BY <1>2, <2>1, <2>2 DEF R

\* Then no path is left.
LEMMA NoneLeft ==
    ASSUME NEW met \in SUBSET Path, Cardinality(Path \ met) <= 0
    PROVE  met = Path
<1> DEFINE R == Path \ met
<1>1. IsFiniteSet(R) /\ Cardinality(R) <= 0
  BY PathsAssumption, FS_Subset
<1> HIDE DEF R
<1>2. R = {}
  BY <1>1, FS_CardinalityType, FS_EmptySet
<1> QED
  BY <1>2 DEF R

\* The search of links ends, as it meets no path twice.
LEMMA SearchEnds ==
    ASSUME NEW im, NEW tree, NEW keepDead
    PROVE  \E F : Follows(im, tree, keepDead, F)
<1> DEFINE N == Cardinality(Path)
           left(met) == Cardinality(Path \ met)
           row(F, met) == Row(im, tree, keepDead, F, met)
           upto(F, k) == \A met \in SUBSET Path : left(met) <= k => F[met] = row(F, met)
           S == {k \in 0 .. N : \E F : F = [met \in SUBSET Path |-> F[met]] /\ upto(F, k)}
<1>1. N \in Nat /\ \A met \in SUBSET Path : left(met) \in Nat /\ left(met) <= N
  BY PathsAssumption, FS_CardinalityType, FS_Subset
<1>2. ASSUME NEW F, NEW G, NEW met \in SUBSET Path,
             \A p \in Path : p \notin met => F[met \cup {p}] = G[met \cup {p}]
      PROVE  row(F, met) = row(G, met)
  BY <1>2 DEF Row
<1>3. 0 \in S
  <2> DEFINE F == [met \in SUBSET Path |-> [p \in Path |-> NoRef]]
  <2>1. ASSUME NEW met \in SUBSET Path, left(met) <= 0 PROVE F[met] = row(F, met)
    <3>1. met = Path
      BY <2>1, NoneLeft
    <3> QED
      BY <3>1 DEF Row
  <2>2. upto(F, 0)
    BY <2>1
  <2>3. F = [met \in SUBSET Path |-> F[met]]
    OBVIOUS
  <2> HIDE DEF F, upto
  <2> QED
    BY <1>1, <2>2, <2>3
<1>4. \A k \in 0 .. N - 1 : k \in S => k + 1 \in S
  <2> SUFFICES ASSUME NEW k \in 0 .. N - 1, k \in S PROVE k + 1 \in S
    OBVIOUS
  <2>1. PICK F : upto(F, k)
    OBVIOUS
  <2> DEFINE G == [met \in SUBSET Path |-> IF left(met) <= k THEN F[met] ELSE row(F, met)]
  <2>2. ASSUME NEW met \in SUBSET Path, left(met) <= k + 1
        PROVE  G[met] = row(G, met)
    <3>1. ASSUME NEW p \in Path, p \notin met
          PROVE  F[met \cup {p}] = G[met \cup {p}]
      <4>1. left(met \cup {p}) <= k
        BY <1>1, <2>2, <3>1, OneFewer
      <4> QED
        BY <4>1
    <3>2. G[met] = row(F, met)
      BY <2>1
    <3> HIDE DEF row, left, G
    <3>3. row(F, met) = row(G, met)
      BY <1>2, <3>1
    <3> QED
      BY <3>2, <3>3
  <2>3. upto(G, k + 1)
    BY <2>2
  <2>4. G = [met \in SUBSET Path |-> G[met]] /\ k + 1 \in 0 .. N
    BY <1>1
  <2> HIDE DEF G
  <2> QED
    BY <2>3, <2>4
<1> HIDE DEF S
<1>5. N \in S
  <2>1. \A k \in 0 .. N : k \in S
    BY <1>1, <1>3, <1>4, InductNat
  <2> QED
    BY <1>1, <2>1
<1>6. PICK F : F = [met \in SUBSET Path |-> F[met]] /\ upto(F, N)
  BY <1>5 DEF S
<1>7. \A met \in SUBSET Path : F[met] = row(F, met)
  BY <1>1, <1>6
<1> HIDE DEF row
<1>8. F = [met \in SUBSET Path |-> row(F, met)]
  BY <1>6, <1>7
<1> QED
  BY <1>8 DEF row, Follows

\* A search that keeps dead links finds what the other finds, and else a link.
Agree(im, tree, reached, held) ==
    /\ reached # NoRef => /\ held = reached
                          /\ \E x \in DOMAIN tree : reached = tree[x]
                          /\ ~IsLink(im, reached)
    /\ held # NoRef => /\ \E x \in DOMAIN tree : held = tree[x]
                       /\ ~IsLink(im, held) => reached = held

LEMMA SearchesAgree ==
    ASSUME NEW im, NEW tree, IsTree(im, tree), NEW p \in Path
    PROVE  /\ Agree(im, tree, SearchByPath(im, tree, p, FALSE), SearchByPath(im, tree, p, TRUE))
           /\ p \in DOMAIN tree /\ ~IsLink(im, tree[p]) =>
                  SearchByPath(im, tree, p, FALSE) = tree[p] /\ SearchByPath(im, tree, p, TRUE) = tree[p]
<1> DEFINE F == CHOOSE f : Follows(im, tree, FALSE, f)
           T == CHOOSE f : Follows(im, tree, TRUE, f)
           N == Cardinality(Path)
           left(met) == Cardinality(Path \ met)
           same(met) == \A q \in Path : Agree(im, tree, F[met][q], T[met][q])
           S == {k \in 0 .. N : \A met \in SUBSET Path : left(met) <= k => same(met)}
<1>1. Follows(im, tree, FALSE, F) /\ Follows(im, tree, TRUE, T)
  BY SearchEnds
<1>2. SearchByPath(im, tree, p, FALSE) = F[{}][p] /\ SearchByPath(im, tree, p, TRUE) = T[{}][p]
  BY DEF SearchByPath, Follows, Row
<1> HIDE DEF F, T
<1>3. \A met \in SUBSET Path : \A q \in Path :
          /\ F[met][q] = Row(im, tree, FALSE, F, met)[q]
          /\ T[met][q] = Row(im, tree, TRUE, T, met)[q]
  BY <1>1 DEF Follows
<1>4. ASSUME NEW met \in SUBSET Path, NEW q \in Path
      PROVE  /\ q \notin DOMAIN tree \/ q \in met => F[met][q] = NoRef /\ T[met][q] = NoRef
             /\ q \in DOMAIN tree /\ q \notin met /\ ~IsLink(im, tree[q]) =>
                    F[met][q] = tree[q] /\ T[met][q] = tree[q]
             /\ q \in DOMAIN tree /\ q \notin met /\ IsLink(im, tree[q]) =>
                    LET f == F[met \cup {q}][Entry(im, tree[q]).to]
                        t == T[met \cup {q}][Entry(im, tree[q]).to]
                    IN F[met][q] = f /\ T[met][q] = IF t = NoRef THEN tree[q] ELSE t
  <2>1. /\ F[met][q] = Row(im, tree, FALSE, F, met)[q]
        /\ T[met][q] = Row(im, tree, TRUE, T, met)[q]
    BY <1>3
  <2>2. CASE q \notin DOMAIN tree \/ q \in met
    BY <2>1, <2>2 DEF Row
  <2>3. CASE q \in DOMAIN tree /\ q \notin met /\ ~IsLink(im, tree[q])
    BY <2>1, <2>3 DEF Row
  <2>4. CASE q \in DOMAIN tree /\ q \notin met /\ IsLink(im, tree[q])
    BY <2>1, <2>4 DEF Row
  <2> QED
    BY <2>2, <2>3, <2>4
<1>5. N \in Nat /\ \A met \in SUBSET Path : left(met) \in Nat /\ left(met) <= N
  BY PathsAssumption, FS_CardinalityType, FS_Subset
<1>6. ASSUME NEW met \in SUBSET Path, \A q \in Path : q \notin met => same(met \cup {q})
      PROVE  same(met)
  <2> SUFFICES ASSUME NEW q \in Path PROVE Agree(im, tree, F[met][q], T[met][q])
    OBVIOUS
  <2>1. CASE q \notin DOMAIN tree \/ q \in met
    BY <1>4, <2>1 DEF Agree
  <2>2. CASE q \in DOMAIN tree /\ q \notin met /\ ~IsLink(im, tree[q])
    <3>1. F[met][q] = tree[q] /\ T[met][q] = tree[q]
      BY <1>4, <2>2
    <3>2. Agree(im, tree, tree[q], tree[q])
      BY <2>2 DEF Agree
    <3> QED
      BY <3>1, <3>2
  <2>3. CASE q \in DOMAIN tree /\ q \notin met /\ IsLink(im, tree[q])
    <3> DEFINE to == Entry(im, tree[q]).to
               f == F[met \cup {q}][to]
               t == T[met \cup {q}][to]
    <3>1. to \in Path /\ tree[q] # NoRef
      BY <2>3 DEF IsTree
    <3>2. Agree(im, tree, f, t)
      BY <1>6, <2>3, <3>1
    <3>3. F[met][q] = f /\ T[met][q] = IF t = NoRef THEN tree[q] ELSE t
      BY <1>4, <2>3
    <3> HIDE DEF f, t, to
    <3> QED
      BY <2>3, <3>1, <3>2, <3>3 DEF Agree
  <2> QED
    BY <2>1, <2>2, <2>3
<1> HIDE DEF same
<1>7. 0 \in S
  <2> SUFFICES ASSUME NEW met \in SUBSET Path, left(met) <= 0 PROVE same(met)
    BY <1>5
  <2>1. met = Path
    BY NoneLeft
  <2> QED
    BY <1>6, <2>1
<1>8. \A k \in 0 .. N - 1 : k \in S => k + 1 \in S
  <2> SUFFICES ASSUME NEW k \in 0 .. N - 1, k \in S PROVE k + 1 \in S
    OBVIOUS
  <2> SUFFICES ASSUME NEW met \in SUBSET Path, left(met) <= k + 1 PROVE same(met)
    BY <1>5
  <2>1. ASSUME NEW q \in Path, q \notin met PROVE same(met \cup {q})
    <3>1. left(met \cup {q}) <= k
      BY <1>5, <2>1, OneFewer
    <3> QED
      BY <3>1
  <2> QED
    BY <1>6, <2>1
<1> HIDE DEF S
<1>9. N \in S
  <2>1. \A k \in 0 .. N : k \in S
    BY <1>5, <1>7, <1>8, InductNat
  <2> QED
    BY <1>5, <2>1
<1>10. same({})
  BY <1>5, <1>9 DEF S
<1> QED
  BY <1>2, <1>4, <1>10 DEF same
-------------------------------------------------------------------------------
(* What the views list.                                                        *)

LEMMA HoldsMore ==
    ASSUME NEW K, NEW s \in Seq(K), NEW x \in K
    PROVE  Append(s, x) \in Seq(K) /\ ToSet(Append(s, x)) = ToSet(s) \cup {x}
<1>1. /\ DOMAIN s = 1 .. Len(s) /\ Len(s) \in Nat /\ DOMAIN Append(s, x) = 1 .. Len(s) + 1
      /\ \A i \in 1 .. Len(s) : Append(s, x)[i] = s[i]
      /\ Append(s, x)[Len(s) + 1] = x /\ Append(s, x) \in Seq(K)
  BY LenProperties, AppendProperties
<1>2. 1 .. Len(s) + 1 = (1 .. Len(s)) \cup {Len(s) + 1}
  BY <1>1
<1> QED
  BY <1>1, <1>2 DEF ToSet

LEMMA HoldsPlaces ==
    ASSUME NEW K, NEW s \in Seq(K)
    PROVE  /\ Len(s) \in Nat /\ DOMAIN s = 1 .. Len(s) /\ ToSet(s) = {s[i] : i \in 1 .. Len(s)}
           /\ \A i \in 1 .. Len(s) : s[i] \in K
           /\ ToSet(s) \subseteq K
BY LenProperties, ElementOfSeq DEF ToSet

\* The locations r hold those of results, and a reference of each of the others.
Adds(r, results, others) ==
    /\ ToSet(results) \subseteq ToSet(r)
    /\ \A l \in others : l.ref # NoRef => l.ref \in Refs(r)

LEMMA AddNewAdds ==
    ASSUME NEW K, NEW L, {l \in L : l.ref # NoRef} \subseteq K,
           NEW results \in Seq(K), NEW locations \in Seq(L)
    PROVE  AddNew(results, locations) \in Seq(K) /\ Adds(AddNew(results, locations), results, ToSet(locations))
<1> DEFINE s == locations
           n == Len(s)
           X == Seq(K)
           op(acc, l) == IF l.ref = NoRef \/ l.ref \in Refs(acc) THEN acc ELSE Append(acc, l)
           stp == [ix \in (1 .. n) \X X |-> op(ix[2], s[ix[1]])]
           it(f) == f = [u \in SUBSET DOMAIN s |->
                            IF u = {} THEN results ELSE LET x == Max(u) IN op(f[u \ {x}], s[x])]
           g == CHOOSE f : it(f)
<1>1. n \in Nat /\ DOMAIN s = 1 .. n /\ ToSet(s) = {s[i] : i \in 1 .. n} /\ \A i \in 1 .. n : s[i] \in L
  BY HoldsPlaces
<1>2. \A acc \in X, l \in L :
          /\ op(acc, l) \in X
          /\ ToSet(acc) \subseteq ToSet(op(acc, l))
          /\ l.ref # NoRef => l.ref \in Refs(op(acc, l))
  <2> SUFFICES ASSUME NEW acc \in X, NEW l \in L
               PROVE  /\ op(acc, l) \in X
                      /\ ToSet(acc) \subseteq ToSet(op(acc, l))
                      /\ l.ref # NoRef => l.ref \in Refs(op(acc, l))
    OBVIOUS
  <2>1. CASE l.ref = NoRef \/ l.ref \in Refs(acc)
    BY <2>1
  <2>2. CASE ~(l.ref = NoRef \/ l.ref \in Refs(acc))
    BY <2>2, HoldsMore DEF Refs
  <2> QED
    BY <2>1, <2>2
<1>3. AddNew(results, locations) = g[DOMAIN s]
  BY DEF AddNew, FoldLeft, MapThenFoldSet
<1> HIDE DEF op
<1>4. stp \in [(1 .. n) \X X -> X]
  BY <1>1, <1>2
<1>6. results \in X
  OBVIOUS
<1>7. PICK f : Iterates(f, n, X, results, stp)
  BY <1>1, <1>4, <1>6, Iterate
<1>8. it(f)
  <2>1. ASSUME NEW u \in SUBSET (1 .. n), u # {}
        PROVE  stp[<<Max(u), f[u \ {Max(u)}]>>] = op(f[u \ {Max(u)}], s[Max(u)])
    <3>1. Max(u) \in u
      BY <1>1, <2>1, MaxIn
    <3>2. Max(u) \in 1 .. n /\ f[u \ {Max(u)}] \in X
      BY <1>7, <3>1 DEF Iterates
    <3> QED
      BY <3>2
  <2> HIDE DEF stp
  <2> QED
    BY <1>1, <1>7, <2>1 DEF Iterates
<1>9. it(g)
  BY <1>8
<1> HIDE DEF g
<1>10. g[{}] = results /\ results \in X
  BY <1>1, <1>6, <1>9
<1>11. \A i \in 0 .. n - 1 : g[1 .. i + 1] = op(g[1 .. i], s[i + 1])
  <2> SUFFICES ASSUME NEW i \in 0 .. n - 1 PROVE g[1 .. i + 1] = op(g[1 .. i], s[i + 1])
    OBVIOUS
  <2>1. /\ 1 .. i + 1 # {} /\ 1 .. i + 1 \in SUBSET DOMAIN s
        /\ Max(1 .. i + 1) = i + 1 /\ (1 .. i + 1) \ {i + 1} = 1 .. i
    BY <1>1, Positions
  <2> HIDE DEF n
  <2> QED
    BY <1>9, <2>1
<1> DEFINE at(i) == /\ g[1 .. i] \in X
                    /\ ToSet(results) \subseteq ToSet(g[1 .. i])
                    /\ \A j \in 1 .. i : s[j].ref # NoRef => s[j].ref \in Refs(g[1 .. i])
<1>20. at(0)
  <2>1. 1 .. 0 = {}
    BY <1>1, Positions
  <2> HIDE DEF X
  <2> QED
    BY <1>10, <2>1
<1>21. ASSUME NEW i \in 0 .. n - 1, at(i) PROVE at(i + 1)
  <2>1. i + 1 \in 1 .. n /\ s[i + 1] \in L /\ \A j \in 1 .. i + 1 : j \in 1 .. i \/ j = i + 1
    BY <1>1
  <2> DEFINE acc == g[1 .. i]
             new == g[1 .. i + 1]
  <2>2. new = op(acc, s[i + 1]) /\ acc \in X
    BY <1>11, <1>21
  <2>3. new \in X /\ ToSet(acc) \subseteq ToSet(new) /\ (s[i + 1].ref # NoRef => s[i + 1].ref \in Refs(new))
    BY <1>2, <2>1, <2>2
  <2>4. Refs(acc) \subseteq Refs(new)
    BY <2>3 DEF Refs
  <2>5. ToSet(results) \subseteq ToSet(acc) /\ \A j \in 1 .. i : s[j].ref # NoRef => s[j].ref \in Refs(acc)
    BY <1>21
  <2> HIDE DEF acc, new
  <2>6. /\ ToSet(results) \subseteq ToSet(new)
        /\ \A j \in 1 .. i + 1 : s[j].ref # NoRef => s[j].ref \in Refs(new)
    BY <2>1, <2>3, <2>4, <2>5
  <2> QED
    BY <2>3, <2>6 DEF new
<1> DEFINE S == {i \in 0 .. n : at(i)}
<1>22. 0 \in S /\ \A i \in 0 .. n - 1 : i \in S => i + 1 \in S
  <2> HIDE DEF at
  <2> QED
    BY <1>1, <1>20, <1>21
<1>23. \A i \in 0 .. n : i \in S
  <2> HIDE DEF S
  <2> QED
    BY <1>1, <1>22, InductNat
<1>24. at(n)
  BY <1>1, <1>23
<1> QED
  BY <1>1, <1>3, <1>24 DEF Adds, at

-------------------------------------------------------------------------------
(* What each view may list: by path p, files that are no links.                *)

FilesOf(im) == {r \in Reference(im) : r # NoRef /\ ~IsLink(im, r)}

\* What the squashed tree leads to from the paths P.
SquashedFrom(im, P) ==
    {Location(p, SearchByPath(im, SquashedTree(im, Len(im)), p, FALSE)) :
        p \in {q \in P : SearchByPath(im, SquashedTree(im, Len(im)), q, FALSE) # NoRef}}

FoundFrom(im, P) == [access : P, ref : FilesOf(im)]

LEMMA SearchFinds ==
    ASSUME NEW im \in Seq(Layer), NEW n \in 0 .. Len(im), NEW p \in Path
    PROVE  /\ SearchByPath(im, SquashedTree(im, n), p, FALSE) \in FilesOf(im) \cup {NoRef}
           /\ SearchByPath(im, SquashedTree(im, n), p, TRUE) \in Reference(im) \cup {NoRef}
           /\ n # 0 => SearchByPath(im, LayerTree(im, n), p, TRUE) \in Reference(im) \cup {NoRef}
<1>0. Len(im) \in Nat
  BY LenProperties
<1>1. IsTree(im, SquashedTree(im, n)) /\ (n # 0 => IsTree(im, LayerTree(im, n)))
  BY <1>0, SquashedTreeIs, LayerTreeIs
<1>2. ASSUME NEW tree, IsTree(im, tree)
      PROVE  /\ SearchByPath(im, tree, p, FALSE) \in FilesOf(im) \cup {NoRef}
             /\ SearchByPath(im, tree, p, TRUE) \in Reference(im) \cup {NoRef}
  <2> DEFINE reached == SearchByPath(im, tree, p, FALSE)
             held == SearchByPath(im, tree, p, TRUE)
  <2>1. Agree(im, tree, reached, held)
    BY <1>2, SearchesAgree
  <2>2. \A x \in DOMAIN tree : tree[x] \in Reference(im) /\ tree[x] # NoRef
    BY <1>2 DEF IsTree
  <2> HIDE DEF reached, held
  <2>3. reached # NoRef => reached \in Reference(im) /\ ~IsLink(im, reached)
    BY <2>1, <2>2 DEF Agree
  <2>4. held # NoRef => held \in Reference(im)
    BY <2>1, <2>2 DEF Agree
  <2>5. reached \in FilesOf(im) \cup {NoRef}
    BY <2>3 DEF FilesOf
  <2> QED
    BY <2>4, <2>5 DEF reached, held
<1> QED
  BY <1>1, <1>2

LEMMA SquashedFilesAre ==
    ASSUME NEW im \in Seq(Layer), NEW p \in Path
    PROVE  LET r == SearchByPath(im, SquashedTree(im, Len(im)), p, FALSE)
           IN SquashedFiles(im, p) = IF r = NoRef THEN <<>> ELSE <<Location(p, r)>>
<1> DEFINE tree == SquashedTree(im, Len(im))
           r == SearchByPath(im, tree, p, FALSE)
<1>1. r \in FilesOf(im) \cup {NoRef}
  <2>1. Len(im) \in 0 .. Len(im)
    BY LenProperties
  <2> QED
    BY <2>1, SearchFinds
<1>2. r # NoRef => ResolveLink(im, tree, r) = r
  BY <1>1 DEF ResolveLink, FilesOf
<1> QED
  BY <1>2 DEF SquashedFiles

LEMMA SquashedGlobHolds ==
    ASSUME NEW im \in Seq(Layer), NEW matches \in Seq(Path)
    PROVE  SquashedGlob(im, matches) \in Seq(SquashedFrom(im, ToSet(matches)))
<1> DEFINE s == matches
           n == Len(s)
           K == SquashedFrom(im, ToSet(s))
           X == Seq(K)
           op(acc, p) == AddNew(acc, SquashedFiles(im, p))
           stp == [ix \in (1 .. n) \X X |-> op(ix[2], s[ix[1]])]
           it(f) == f = [u \in SUBSET DOMAIN s |->
                            IF u = {} THEN <<>> ELSE LET x == Max(u) IN op(f[u \ {x}], s[x])]
           g == CHOOSE f : it(f)
<1>1. n \in Nat /\ DOMAIN s = 1 .. n /\ ToSet(s) = {s[i] : i \in 1 .. n} /\ \A i \in 1 .. n : s[i] \in Path
  BY HoldsPlaces
<1>2. ASSUME NEW acc \in X, NEW i \in 1 .. n PROVE op(acc, s[i]) \in X
  <2>1. s[i] \in Path /\ s[i] \in ToSet(s)
    BY <1>1
  <2>2. SquashedFiles(im, s[i]) \in Seq(K)
    <3> DEFINE to == SearchByPath(im, SquashedTree(im, Len(im)), s[i], FALSE)
    <3>1. SquashedFiles(im, s[i]) = IF to = NoRef THEN <<>> ELSE <<Location(s[i], to)>>
      BY <2>1, SquashedFilesAre
    <3>2. to # NoRef => Location(s[i], to) \in K
      BY <2>1 DEF SquashedFrom
    <3> HIDE DEF to, K
    <3> QED
      BY <3>1, <3>2
  <2>3. {l \in K : l.ref # NoRef} \subseteq K
    OBVIOUS
  <2> HIDE DEF K
  <2> QED
    BY <2>2, <2>3, AddNewAdds
<1>3. SquashedGlob(im, matches) = g[DOMAIN s]
  BY DEF SquashedGlob, FoldLeft, MapThenFoldSet
<1> HIDE DEF op, K
<1>4. stp \in [(1 .. n) \X X -> X]
  BY <1>1, <1>2
<1>6. <<>> \in X
  OBVIOUS
<1>7. PICK f : Iterates(f, n, X, <<>>, stp)
  BY <1>1, <1>4, <1>6, Iterate
<1>8. it(f)
  <2>1. ASSUME NEW u \in SUBSET (1 .. n), u # {}
        PROVE  stp[<<Max(u), f[u \ {Max(u)}]>>] = op(f[u \ {Max(u)}], s[Max(u)])
    <3>1. Max(u) \in u
      BY <1>1, <2>1, MaxIn
    <3>2. Max(u) \in 1 .. n /\ f[u \ {Max(u)}] \in X
      BY <1>7, <3>1 DEF Iterates
    <3> QED
      BY <3>2
  <2> HIDE DEF stp
  <2> QED
    BY <1>1, <1>7, <2>1 DEF Iterates
<1>9. it(g)
  BY <1>8
<1> HIDE DEF g
<1>10. g[{}] = <<>> /\ <<>> \in X
  BY <1>1, <1>6, <1>9
<1>11. \A i \in 0 .. n - 1 : g[1 .. i + 1] = op(g[1 .. i], s[i + 1])
  <2> SUFFICES ASSUME NEW i \in 0 .. n - 1 PROVE g[1 .. i + 1] = op(g[1 .. i], s[i + 1])
    OBVIOUS
  <2>1. /\ 1 .. i + 1 # {} /\ 1 .. i + 1 \in SUBSET DOMAIN s
        /\ Max(1 .. i + 1) = i + 1 /\ (1 .. i + 1) \ {i + 1} = 1 .. i
    BY <1>1, Positions
  <2> HIDE DEF n
  <2> QED
    BY <1>9, <2>1
<1> DEFINE at(i) == g[1 .. i] \in X
<1>20. at(0)
  <2>1. 1 .. 0 = {}
    BY <1>1, Positions
  <2> HIDE DEF X
  <2> QED
    BY <1>10, <2>1
<1>21. ASSUME NEW i \in 0 .. n - 1, at(i) PROVE at(i + 1)
  <2>1. i + 1 \in 1 .. n
    BY <1>1
  <2> QED
    BY <1>2, <1>11, <1>21, <2>1
<1> DEFINE S == {i \in 0 .. n : at(i)}
<1>22. 0 \in S /\ \A i \in 0 .. n - 1 : i \in S => i + 1 \in S
  <2> HIDE DEF at
  <2> QED
    BY <1>1, <1>20, <1>21
<1>23. \A i \in 0 .. n : i \in S
  <2> HIDE DEF S
  <2> QED
    BY <1>1, <1>22, InductNat
<1>24. at(n)
  BY <1>1, <1>23
<1> QED
  BY <1>1, <1>3, <1>24 DEF K

\* What a reference leads to, asked for at p: itself, if it is no link.
LeadTo(im, ref, p, P, ls) ==
    /\ ls \in Seq([access : P, ref : FilesOf(im) \cup {NoRef}])
    /\ ~IsLink(im, ref) => ToSet(ls) = {Location(p, ref)}

LEMMA LocationsAre ==
    ASSUME NEW im \in Seq(Layer), NEW ref \in Reference(im), ref # NoRef, NEW layer \in 1 .. Len(im), NEW P, NEW p \in P
    PROVE  LeadTo(im, ref, p, P, LocationsByRef(im, ref, p, layer))
<1> USE DEF LeadTo
<1> DEFINE L == [access : P, ref : FilesOf(im) \cup {NoRef}]
           m == Len(im) - layer + 1
<1>0. Len(im) \in Nat /\ layer \in Nat /\ m \in Nat
  BY LenProperties
<1>1. CASE ~IsLink(im, ref)
  <2>1. Location(p, ref) \in L
    BY <1>1 DEF Location, FilesOf
  <2>2. LocationsByRef(im, ref, p, layer) = <<Location(p, ref)>>
    BY <1>1 DEF LocationsByRef
  <2> QED
    BY <2>1, <2>2 DEF ToSet
<1>2. CASE IsLink(im, ref)
  <2>1. ASSUME NEW i \in 1 .. m
        PROVE  Location(p, ResolveLink(im, SquashedTree(im, layer + i - 1), ref)) \in L
    <3> DEFINE k == layer + i - 1
    <3>1. k \in 0 .. Len(im) /\ ref[2] \in Path
      BY <1>0 DEF Reference
    <3> HIDE DEF k
    <3>2. ResolveLink(im, SquashedTree(im, k), ref) \in FilesOf(im) \cup {NoRef}
      BY <1>2, <3>1, SearchFinds DEF ResolveLink
    <3> QED
      BY <3>2 DEF Location, k
  <2>2. LocationsByRef(im, ref, p, layer) =
            [i \in 1 .. m |-> Location(p, ResolveLink(im, SquashedTree(im, layer + i - 1), ref))]
    BY <1>2 DEF LocationsByRef
  <2> HIDE DEF L, m
  <2>3. LocationsByRef(im, ref, p, layer) \in [1 .. m -> L]
    BY <2>1, <2>2
  <2>4. LocationsByRef(im, ref, p, layer) \in Seq(L)
    BY <1>0, <2>3, SeqDef
  <2> QED
    BY <1>2, <2>4 DEF L
<1> QED
  BY <1>1, <1>2

\* What is found for a reference is added to the locations.
LEMMA FoundAdds ==
    ASSUME NEW im \in Seq(Layer), NEW P, NEW p \in P, NEW layer \in 1 .. Len(im),
           NEW ref \in Reference(im), ref # NoRef, NEW acc \in Seq(FoundFrom(im, P))
    PROVE  LET r == AddNew(acc, LocationsByRef(im, ref, p, layer))
           IN /\ r \in Seq(FoundFrom(im, P)) /\ ToSet(acc) \subseteq ToSet(r)
              /\ ~IsLink(im, ref) => ref \in Refs(r)
<1> DEFINE L == [access : P, ref : FilesOf(im) \cup {NoRef}]
           K == FoundFrom(im, P)
           locations == LocationsByRef(im, ref, p, layer)
           r == AddNew(acc, locations)
<1>1. {l \in L : l.ref # NoRef} \subseteq K
  BY DEF FoundFrom
<1>2. locations \in Seq(L) /\ (~IsLink(im, ref) => ToSet(locations) = {Location(p, ref)})
  <2> HIDE DEF locations, K
  <2>1. LeadTo(im, ref, p, P, locations)
    BY LocationsAre DEF locations
  <2> QED
    BY <2>1 DEF LeadTo
<1> HIDE DEF L, K, locations
<1>3. r \in Seq(K) /\ Adds(r, acc, ToSet(locations))
  BY <1>1, <1>2, AddNewAdds DEF K
<1>4. Location(p, ref).ref = ref
  BY DEF Location
<1> HIDE DEF r
<1>5. ~IsLink(im, ref) => ref \in Refs(r)
  <2> SUFFICES ASSUME ~IsLink(im, ref) PROVE ref \in Refs(r)
    OBVIOUS
  <2>1. Location(p, ref) \in ToSet(locations)
    BY <1>2
  <2> QED
    BY <1>3, <1>4, <2>1 DEF Adds
<1> QED
  BY <1>3, <1>5 DEF Adds, K, r, locations

LEMMA AllLayersFilesHold ==
    ASSUME NEW im \in Seq(Layer), NEW p \in Path
    PROVE  AllLayersFiles(im, p) \in Seq(FoundFrom(im, {p}))
<1> DEFINE n == Len(im)
           s == [i \in 1 .. n |-> i]
           K == FoundFrom(im, {p})
           X == Seq(K)
           op(acc, layer) ==
               LET ref == SearchByPath(im, LayerTree(im, layer), p, TRUE)
               IN IF ref = NoRef THEN acc ELSE AddNew(acc, LocationsByRef(im, ref, p, layer))
           stp == [ix \in (1 .. n) \X X |-> op(ix[2], s[ix[1]])]
           it(f) == f = [u \in SUBSET DOMAIN s |->
                            IF u = {} THEN <<>> ELSE LET x == Max(u) IN op(f[u \ {x}], s[x])]
           g == CHOOSE f : it(f)
<1>1. n \in Nat /\ DOMAIN s = 1 .. n /\ \A i \in 1 .. n : s[i] = i
  BY LenProperties
<1>2. ASSUME NEW acc \in X, NEW i \in 1 .. n PROVE op(acc, s[i]) \in X
  <2> DEFINE ref == SearchByPath(im, LayerTree(im, i), p, TRUE)
  <2>1. i \in 0 .. n /\ i # 0
    BY <1>1
  <2>2. ref \in Reference(im) \cup {NoRef}
    BY <2>1, SearchFinds
  <2>3. op(acc, s[i]) = IF ref = NoRef THEN acc ELSE AddNew(acc, LocationsByRef(im, ref, p, i))
    BY <1>1
  <2>4. p \in {p}
    OBVIOUS
  <2> HIDE DEF ref, op
  <2>5. ref # NoRef => AddNew(acc, LocationsByRef(im, ref, p, i)) \in X
    BY <2>2, <2>4, FoundAdds
  <2> QED
    BY <2>3, <2>5
<1>3. AllLayersFiles(im, p) = g[DOMAIN s]
  BY DEF AllLayersFiles, FoldLeft, MapThenFoldSet
<1> HIDE DEF op, K, s
<1>4. stp \in [(1 .. n) \X X -> X]
  BY <1>1, <1>2
<1>6. <<>> \in X
  OBVIOUS
<1>7. PICK f : Iterates(f, n, X, <<>>, stp)
  BY <1>1, <1>4, <1>6, Iterate
<1>8. it(f)
  <2>1. ASSUME NEW u \in SUBSET (1 .. n), u # {}
        PROVE  stp[<<Max(u), f[u \ {Max(u)}]>>] = op(f[u \ {Max(u)}], s[Max(u)])
    <3>1. Max(u) \in u
      BY <1>1, <2>1, MaxIn
    <3>2. Max(u) \in 1 .. n /\ f[u \ {Max(u)}] \in X
      BY <1>7, <3>1 DEF Iterates
    <3> QED
      BY <3>2
  <2> HIDE DEF stp
  <2> QED
    BY <1>1, <1>7, <2>1 DEF Iterates
<1>9. it(g)
  BY <1>8
<1> HIDE DEF g
<1>10. g[{}] = <<>> /\ <<>> \in X
  BY <1>1, <1>6, <1>9
<1>11. \A i \in 0 .. n - 1 : g[1 .. i + 1] = op(g[1 .. i], s[i + 1])
  <2> SUFFICES ASSUME NEW i \in 0 .. n - 1 PROVE g[1 .. i + 1] = op(g[1 .. i], s[i + 1])
    OBVIOUS
  <2>1. /\ 1 .. i + 1 # {} /\ 1 .. i + 1 \in SUBSET DOMAIN s
        /\ Max(1 .. i + 1) = i + 1 /\ (1 .. i + 1) \ {i + 1} = 1 .. i
    BY <1>1, Positions
  <2> HIDE DEF n
  <2> QED
    BY <1>9, <2>1
<1> DEFINE at(i) == g[1 .. i] \in X
<1>20. at(0)
  <2>1. 1 .. 0 = {}
    BY <1>1, Positions
  <2> HIDE DEF X
  <2> QED
    BY <1>10, <2>1
<1>21. ASSUME NEW i \in 0 .. n - 1, at(i) PROVE at(i + 1)
  <2>1. i + 1 \in 1 .. n
    BY <1>1
  <2> QED
    BY <1>2, <1>11, <1>21, <2>1
<1> DEFINE S == {i \in 0 .. n : at(i)}
<1>22. 0 \in S /\ \A i \in 0 .. n - 1 : i \in S => i + 1 \in S
  <2> HIDE DEF at
  <2> QED
    BY <1>1, <1>20, <1>21
<1>23. \A i \in 0 .. n : i \in S
  <2> HIDE DEF S
  <2> QED
    BY <1>1, <1>22, InductNat
<1>24. at(n)
  BY <1>1, <1>23
<1> QED
  BY <1>1, <1>3, <1>24 DEF K

\* A layer adds what its squashed tree leads to from each match.
LEMMA LayerGlobAdds ==
    ASSUME NEW im \in Seq(Layer), NEW matches \in Seq(Path), NEW layer \in 1 .. Len(im),
           NEW results \in Seq(FoundFrom(im, ToSet(matches)))
    PROVE  LET r == LayerGlob(im, matches, layer, results)
           IN /\ r \in Seq(FoundFrom(im, ToSet(matches)))
              /\ \A p \in ToSet(matches) :
                     LET ref == SearchByPath(im, SquashedTree(im, layer), p, TRUE)
                     IN ref # NoRef /\ ~IsLink(im, ref) => ref \in Refs(r)
<1> DEFINE s == matches
           n == Len(s)
           K == FoundFrom(im, ToSet(s))
           X == Seq(K)
           to(p) == SearchByPath(im, SquashedTree(im, layer), p, TRUE)
           op(acc, p) ==
               LET ref == SearchByPath(im, SquashedTree(im, layer), p, TRUE)
               IN IF ref = NoRef THEN acc ELSE AddNew(acc, LocationsByRef(im, ref, p, layer))
           stp == [ix \in (1 .. n) \X X |-> op(ix[2], s[ix[1]])]
           it(f) == f = [u \in SUBSET DOMAIN s |->
                            IF u = {} THEN results ELSE LET x == Max(u) IN op(f[u \ {x}], s[x])]
           g == CHOOSE f : it(f)
           hit(p) == to(p) # NoRef /\ ~IsLink(im, to(p))
<1>1. n \in Nat /\ DOMAIN s = 1 .. n /\ ToSet(s) = {s[i] : i \in 1 .. n} /\ \A i \in 1 .. n : s[i] \in Path
  BY HoldsPlaces
<1>2. ASSUME NEW acc \in X, NEW i \in 1 .. n
      PROVE  /\ op(acc, s[i]) \in X /\ ToSet(acc) \subseteq ToSet(op(acc, s[i]))
             /\ hit(s[i]) => to(s[i]) \in Refs(op(acc, s[i]))
  <2>1. s[i] \in Path /\ s[i] \in ToSet(s) /\ layer \in 0 .. Len(im)
    BY <1>1
  <2>2. to(s[i]) \in Reference(im) \cup {NoRef}
    BY <2>1, SearchFinds
  <2>3. op(acc, s[i]) = IF to(s[i]) = NoRef THEN acc ELSE AddNew(acc, LocationsByRef(im, to(s[i]), s[i], layer))
    OBVIOUS
  <2> HIDE DEF to, op
  <2>4. to(s[i]) # NoRef =>
            LET r == AddNew(acc, LocationsByRef(im, to(s[i]), s[i], layer))
            IN r \in X /\ ToSet(acc) \subseteq ToSet(r) /\ (~IsLink(im, to(s[i])) => to(s[i]) \in Refs(r))
    BY <2>1, <2>2, FoundAdds
  <2> QED
    BY <2>3, <2>4
<1>3. LayerGlob(im, matches, layer, results) = g[DOMAIN s]
  BY DEF LayerGlob, FoldLeft, MapThenFoldSet
<1> HIDE DEF op, K, hit, to
<1>4. stp \in [(1 .. n) \X X -> X]
  BY <1>1, <1>2
<1>5. results \in X
  BY DEF K
<1>6. results \in X
  BY <1>5
<1>7. PICK f : Iterates(f, n, X, results, stp)
  BY <1>1, <1>4, <1>6, Iterate
<1>8. it(f)
  <2>1. ASSUME NEW u \in SUBSET (1 .. n), u # {}
        PROVE  stp[<<Max(u), f[u \ {Max(u)}]>>] = op(f[u \ {Max(u)}], s[Max(u)])
    <3>1. Max(u) \in u
      BY <1>1, <2>1, MaxIn
    <3>2. Max(u) \in 1 .. n /\ f[u \ {Max(u)}] \in X
      BY <1>7, <3>1 DEF Iterates
    <3> QED
      BY <3>2
  <2> HIDE DEF stp
  <2> QED
    BY <1>1, <1>7, <2>1 DEF Iterates
<1>9. it(g)
  BY <1>8
<1> HIDE DEF g
<1>10. g[{}] = results /\ results \in X
  BY <1>1, <1>6, <1>9
<1>11. \A i \in 0 .. n - 1 : g[1 .. i + 1] = op(g[1 .. i], s[i + 1])
  <2> SUFFICES ASSUME NEW i \in 0 .. n - 1 PROVE g[1 .. i + 1] = op(g[1 .. i], s[i + 1])
    OBVIOUS
  <2>1. /\ 1 .. i + 1 # {} /\ 1 .. i + 1 \in SUBSET DOMAIN s
        /\ Max(1 .. i + 1) = i + 1 /\ (1 .. i + 1) \ {i + 1} = 1 .. i
    BY <1>1, Positions
  <2> HIDE DEF n
  <2> QED
    BY <1>9, <2>1
<1> DEFINE at(i) == g[1 .. i] \in X /\ \A j \in 1 .. i : hit(s[j]) => to(s[j]) \in Refs(g[1 .. i])
<1>20. at(0)
  BY <1>1, <1>5, <1>10, Positions
<1>21. ASSUME NEW i \in 0 .. n - 1, at(i) PROVE at(i + 1)
  <2>1. i + 1 \in 1 .. n /\ \A j \in 1 .. i + 1 : j \in 1 .. i \/ j = i + 1
    BY <1>1
  <2> DEFINE acc == g[1 .. i]
             new == g[1 .. i + 1]
  <2>2. new = op(acc, s[i + 1]) /\ acc \in X /\ \A j \in 1 .. i : hit(s[j]) => to(s[j]) \in Refs(acc)
    BY <1>11, <1>21
  <2> HIDE DEF acc, new
  <2>3. new \in X /\ ToSet(acc) \subseteq ToSet(new) /\ (hit(s[i + 1]) => to(s[i + 1]) \in Refs(new))
    BY <1>2, <2>1, <2>2
  <2>4. Refs(acc) \subseteq Refs(new)
    BY <2>3 DEF Refs
  <2>5. new \in X /\ \A j \in 1 .. i + 1 : hit(s[j]) => to(s[j]) \in Refs(new)
    BY <2>1, <2>2, <2>3, <2>4
  <2> QED
    BY <2>5 DEF new
<1> DEFINE S == {i \in 0 .. n : at(i)}
<1>22. 0 \in S /\ \A i \in 0 .. n - 1 : i \in S => i + 1 \in S
  <2> HIDE DEF at
  <2> QED
    BY <1>1, <1>20, <1>21
<1>23. \A i \in 0 .. n : i \in S
  <2> HIDE DEF S
  <2> QED
    BY <1>1, <1>22, InductNat
<1>24. at(n)
  BY <1>1, <1>23
<1> DEFINE r == g[1 .. n]
<1>25. r \in X /\ (\A j \in 1 .. n : hit(s[j]) => to(s[j]) \in Refs(r)) /\ LayerGlob(im, matches, layer, results) = r
  BY <1>1, <1>3, <1>24
<1> HIDE DEF r
<1>26. \A p \in ToSet(s) : hit(p) => to(p) \in Refs(r)
  BY <1>1, <1>25
<1> QED
  BY <1>25, <1>26 DEF K, hit, to

LEMMA AllLayersGlobAdds ==
    ASSUME NEW im \in Seq(Layer), NEW matches \in Seq(Path)
    PROVE  LET r == AllLayersGlob(im, matches)
           IN /\ r \in Seq(FoundFrom(im, ToSet(matches)))
              /\ Len(im) > 0 => \A p \in ToSet(matches) :
                     LET ref == SearchByPath(im, SquashedTree(im, Len(im)), p, TRUE)
                     IN ref # NoRef /\ ~IsLink(im, ref) => ref \in Refs(r)
<1> DEFINE n == Len(im)
           s == [i \in 1 .. n |-> i]
           K == FoundFrom(im, ToSet(matches))
           X == Seq(K)
           op(acc, layer) == LayerGlob(im, matches, layer, acc)
           stp == [ix \in (1 .. n) \X X |-> op(ix[2], s[ix[1]])]
           it(f) == f = [u \in SUBSET DOMAIN s |->
                            IF u = {} THEN <<>> ELSE LET x == Max(u) IN op(f[u \ {x}], s[x])]
           g == CHOOSE f : it(f)
           covers(r, layer) ==
               \A p \in ToSet(matches) :
                     LET ref == SearchByPath(im, SquashedTree(im, layer), p, TRUE)
                     IN ref # NoRef /\ ~IsLink(im, ref) => ref \in Refs(r)
<1>1. n \in Nat /\ DOMAIN s = 1 .. n /\ \A i \in 1 .. n : s[i] = i
  BY LenProperties
<1>2. ASSUME NEW acc \in X, NEW i \in 1 .. n PROVE op(acc, s[i]) \in X /\ covers(op(acc, s[i]), i)
  BY <1>1, LayerGlobAdds
<1>3. AllLayersGlob(im, matches) = g[DOMAIN s]
  BY DEF AllLayersGlob, FoldLeft, MapThenFoldSet
<1> HIDE DEF op, K, s, covers
<1>4. stp \in [(1 .. n) \X X -> X]
  BY <1>1, <1>2
<1>6. <<>> \in X
  OBVIOUS
<1>7. PICK f : Iterates(f, n, X, <<>>, stp)
  BY <1>1, <1>4, <1>6, Iterate
<1>8. it(f)
  <2>1. ASSUME NEW u \in SUBSET (1 .. n), u # {}
        PROVE  stp[<<Max(u), f[u \ {Max(u)}]>>] = op(f[u \ {Max(u)}], s[Max(u)])
    <3>1. Max(u) \in u
      BY <1>1, <2>1, MaxIn
    <3>2. Max(u) \in 1 .. n /\ f[u \ {Max(u)}] \in X
      BY <1>7, <3>1 DEF Iterates
    <3> QED
      BY <3>2
  <2> HIDE DEF stp
  <2> QED
    BY <1>1, <1>7, <2>1 DEF Iterates
<1>9. it(g)
  BY <1>8
<1> HIDE DEF g
<1>10. g[{}] = <<>> /\ <<>> \in X
  BY <1>1, <1>6, <1>9
<1>11. \A i \in 0 .. n - 1 : g[1 .. i + 1] = op(g[1 .. i], s[i + 1])
  <2> SUFFICES ASSUME NEW i \in 0 .. n - 1 PROVE g[1 .. i + 1] = op(g[1 .. i], s[i + 1])
    OBVIOUS
  <2>1. /\ 1 .. i + 1 # {} /\ 1 .. i + 1 \in SUBSET DOMAIN s
        /\ Max(1 .. i + 1) = i + 1 /\ (1 .. i + 1) \ {i + 1} = 1 .. i
    BY <1>1, Positions
  <2> HIDE DEF n
  <2> QED
    BY <1>9, <2>1
<1> DEFINE at(i) == g[1 .. i] \in X /\ (i > 0 => covers(g[1 .. i], i))
<1>20. at(0)
  <2>1. 1 .. 0 = {}
    BY <1>1, Positions
  <2> HIDE DEF X
  <2> QED
    BY <1>10, <2>1
<1>21. ASSUME NEW i \in 0 .. n - 1, at(i) PROVE at(i + 1)
  <2>1. i + 1 \in 1 .. n /\ s[i + 1] = i + 1
    BY <1>1
  <2> QED
    BY <1>2, <1>11, <1>21, <2>1
<1> DEFINE S == {i \in 0 .. n : at(i)}
<1>22. 0 \in S /\ \A i \in 0 .. n - 1 : i \in S => i + 1 \in S
  <2> HIDE DEF at
  <2> QED
    BY <1>1, <1>20, <1>21
<1>23. \A i \in 0 .. n : i \in S
  <2> HIDE DEF S
  <2> QED
    BY <1>1, <1>22, InductNat
<1>24. at(n)
  BY <1>1, <1>23
<1> DEFINE r == g[1 .. n]
<1>25. r \in X /\ (n > 0 => covers(r, n)) /\ AllLayersGlob(im, matches) = r
  BY <1>1, <1>3, <1>24
<1> QED
  BY <1>25 DEF K, covers

-------------------------------------------------------------------------------
(* What the views say of one another.                                          *)

Keeps(im, p) == SearchByPath(im, SquashedTree(im, Len(im)), p, FALSE)

\* What the squashed image keeps at a path is no link, and found with keepDead too.
LEMMA KeptFound ==
    ASSUME NEW im \in Seq(Layer), NEW p \in Path, Keeps(im, p) # NoRef
    PROVE  /\ Keeps(im, p) \in FilesOf(im)
           /\ SearchByPath(im, SquashedTree(im, Len(im)), p, TRUE) = Keeps(im, p)
           /\ pathResolvesToRef(im, Keeps(im, p)[2], Keeps(im, p))
<1> DEFINE tree == SquashedTree(im, Len(im))
           reached == SearchByPath(im, tree, p, FALSE)
           held == SearchByPath(im, tree, p, TRUE)
<1>0. Len(im) \in 0 .. Len(im)
  BY LenProperties
<1>1. IsTree(im, tree) /\ reached \in FilesOf(im) \cup {NoRef}
  BY <1>0, SquashedTreeIs, SearchFinds
<1>2. Agree(im, tree, reached, held)
  BY <1>1, SearchesAgree
<1>3. reached # NoRef
  BY DEF Keeps
<1> HIDE DEF reached, held
<1>4. held = reached /\ ~IsLink(im, reached) /\ reached \in FilesOf(im) /\ \E x \in DOMAIN tree : reached = tree[x]
  BY <1>1, <1>2, <1>3 DEF Agree
<1>5. PICK x \in DOMAIN tree : reached = tree[x]
  BY <1>4
<1>6. x \in Path /\ reached[2] = x
  BY <1>1, <1>5 DEF IsTree
<1>7. ~IsLink(im, tree[x])
  BY <1>4, <1>5
<1>8. SearchByPath(im, tree, x, TRUE) = tree[x]
  <2> HIDE DEF tree
  <2> QED
    BY <1>1, <1>5, <1>6, <1>7, SearchesAgree
<1>9. pathResolvesToRef(im, reached[2], reached)
  BY <1>5, <1>6, <1>8 DEF pathResolvesToRef
<1> QED
  BY <1>4, <1>9 DEF Keeps, reached, held, tree

\* A location is visible exactly if the squashed image keeps its file at its path.
LEMMA VisibleExactly ==
    ASSUME NEW im \in Seq(Layer), NEW access \in Path, NEW ref \in FilesOf(im), NEW l,
           l.access = access, l.ref = ref
    PROVE  Visible(im, l) <=> ref = Keeps(im, access)
<1> DEFINE tree == SquashedTree(im, Len(im))
           reached == SearchByPath(im, tree, access, FALSE)
           held == SearchByPath(im, tree, access, TRUE)
<1>0. Len(im) \in 0 .. Len(im)
  BY LenProperties
<1>1. ref # NoRef /\ ~IsLink(im, ref)
  BY DEF FilesOf
<1>2. ASSUME Visible(im, l) PROVE ref = Keeps(im, access)
  <2>1. held = ref
    BY <1>2 DEF Visible, pathResolvesToRef
  <2>2. Agree(im, tree, reached, held)
    BY <1>0, SquashedTreeIs, SearchesAgree
  <2> HIDE DEF reached, held
  <2>3. reached = held
    BY <1>1, <2>1, <2>2 DEF Agree
  <2> QED
    BY <2>1, <2>3 DEF Keeps, reached
<1>3. ASSUME ref = Keeps(im, access) PROVE Visible(im, l)
  <2>1. Keeps(im, access) # NoRef
    BY <1>1, <1>3
  <2>2. held = ref /\ pathResolvesToRef(im, ref[2], ref)
    BY <1>3, <2>1, KeptFound
  <2> QED
    BY <2>2 DEF Visible, pathResolvesToRef
<1> QED
  BY <1>2, <1>3

LEMMA SquashedKeeps ==
    ASSUME NEW im \in Seq(Layer), NEW p \in Path
    PROVE  /\ Keeps(im, p) = NoRef => SquashedFiles(im, p) = <<>>
           /\ Keeps(im, p) # NoRef => SquashedFiles(im, p) = <<Location(p, Keeps(im, p))>>
BY SquashedFilesAre DEF Keeps

LEMMA SquashedRefs ==
    ASSUME NEW im \in Seq(Layer), NEW p \in Path, NEW r, r # NoRef
    PROVE  r \in Refs(SquashedFiles(im, p)) <=> r = Keeps(im, p)
<1>1. CASE Keeps(im, p) = NoRef
  <2>1. SquashedFiles(im, p) = <<>>
    BY <1>1, SquashedKeeps
  <2>2. Refs(<<>>) = {}
    BY DEF Refs, ToSet
  <2> QED
    BY <1>1, <2>1, <2>2
<1>2. CASE Keeps(im, p) # NoRef
  <2>1. SquashedFiles(im, p) = <<Location(p, Keeps(im, p))>>
    BY <1>2, SquashedKeeps
  <2>2. ASSUME NEW l PROVE ToSet(<<l>>) = {l}
    BY DEF ToSet
  <2>3. Refs(SquashedFiles(im, p)) = {Location(p, Keeps(im, p)).ref}
    BY <2>1, <2>2 DEF Refs
  <2> QED
    BY <2>3 DEF Location
<1> QED
  BY <1>1, <1>2

\* What the deep squash marks visible is, and what it does not mark is no squashed location.
LEMMA DeepTells ==
    ASSUME NEW im \in Seq(Layer), NEW P \in SUBSET Path,
           NEW squashed \in Seq(SquashedFrom(im, P)), NEW all \in Seq(FoundFrom(im, P)),
           NEW l \in mergeLocations(im, squashed, all)
    PROVE  /\ l.visible => Visible(im, l)
           /\ ~l.visible => /\ l.access \in P /\ l.ref \in FilesOf(im)
                            /\ Location(l.access, l.ref) \notin ToSet(squashed)
<1>1. ToSet(squashed) \subseteq SquashedFrom(im, P) /\ ToSet(all) \subseteq FoundFrom(im, P)
  BY HoldsPlaces
<1>2. \/ \E m \in ToSet(squashed) : l = Annotated(m, TRUE)
      \/ \E m \in ToSet(all) \ ToSet(squashed) : l = Annotated(m, FALSE)
  BY DEF mergeLocations
<1>3. ASSUME NEW m \in ToSet(squashed), l = Annotated(m, TRUE) PROVE l.visible = TRUE /\ Visible(im, l)
  <2>1. PICK p \in P : Keeps(im, p) # NoRef /\ m = Location(p, Keeps(im, p))
    BY <1>1 DEF SquashedFrom, Keeps
  <2>2. l.access = p /\ l.ref = Keeps(im, p) /\ l.visible = TRUE
    BY <1>3, <2>1 DEF Annotated, Location
  <2>3. Keeps(im, p) \in FilesOf(im)
    BY <2>1, KeptFound
  <2> QED
    BY <2>2, <2>3, VisibleExactly
<1>4. ASSUME NEW m \in ToSet(all) \ ToSet(squashed), l = Annotated(m, FALSE)
      PROVE  /\ l.visible = FALSE /\ l.access \in P /\ l.ref \in FilesOf(im)
             /\ Location(l.access, l.ref) \notin ToSet(squashed)
  <2>1. m \in [access : P, ref : FilesOf(im)]
    BY <1>1 DEF FoundFrom
  <2>2. l.access = m.access /\ l.ref = m.ref /\ l.visible = FALSE
    BY <1>4 DEF Annotated
  <2>3. Location(l.access, l.ref) = m
    BY <2>1, <2>2 DEF Location
  <2> QED
    BY <2>1, <2>2, <2>3
<1> QED
  BY <1>2, <1>3, <1>4

-------------------------------------------------------------------------------
(* The three views agree.                                                      *)

Answer(im, q) ==
    IF q.by = "path"
    THEN [squashed |-> SquashedFiles(im, q.paths[1]), all |-> AllLayersFiles(im, q.paths[1]),
          deep |-> DeepSquashFiles(im, q.paths[1])]
    ELSE [squashed |-> SquashedGlob(im, q.paths), all |-> AllLayersGlob(im, q.paths),
          deep |-> DeepSquashGlob(im, q.paths)]

ImageInv ==
    /\ img \in Seq(Layer)
    /\ asked \in [by : {"path", "glob"}, paths : Seq(Path)]
    /\ asked.by = "path" => Len(asked.paths) = 1
    /\ answers = <<>> \/ answers = <<Answer(img, asked)>>

\* What the views hold: kept files, and files of the image, at the paths asked for.
LEMMA AnswerHolds ==
    ASSUME NEW im \in Seq(Layer), NEW q \in [by : {"path", "glob"}, paths : Seq(Path)],
           q.by = "path" => Len(q.paths) = 1
    PROVE  /\ ToSet(q.paths) \in SUBSET Path
           /\ Answer(im, q).squashed \in Seq(SquashedFrom(im, ToSet(q.paths)))
           /\ Answer(im, q).all \in Seq(FoundFrom(im, ToSet(q.paths)))
           /\ Answer(im, q).deep = mergeLocations(im, Answer(im, q).squashed, Answer(im, q).all)
<1> DEFINE s == q.paths
           P == ToSet(s)
<1>0. s \in Seq(Path) /\ P \in SUBSET Path
  BY HoldsPlaces
<1>1. CASE q.by = "path"
  <2> DEFINE p == s[1]
             view == SquashedFiles(im, p)
  <2>1. p \in Path /\ P = {p}
    <3>1. Len(s) = 1 /\ P = {s[i] : i \in 1 .. Len(s)} /\ \A i \in 1 .. Len(s) : s[i] \in Path
      BY <1>0, <1>1, HoldsPlaces
    <3> QED
      BY <3>1
  <2>2. Answer(im, q) = [squashed |-> view, all |-> AllLayersFiles(im, p), deep |-> DeepSquashFiles(im, p)]
    BY <1>1 DEF Answer
  <2>3. AllLayersFiles(im, p) \in Seq(FoundFrom(im, {p}))
    BY <2>1, AllLayersFilesHold
  <2>4. view \in Seq(SquashedFrom(im, {p}))
    <3> DEFINE K == SquashedFrom(im, {p})
               l == Location(p, Keeps(im, p))
    <3>1. Keeps(im, p) # NoRef => l \in K
      BY DEF SquashedFrom, Keeps
    <3>2. view = <<>> \/ (Keeps(im, p) # NoRef /\ view = <<l>>)
      BY <2>1, SquashedKeeps
    <3> HIDE DEF view, K, l
    <3>4. <<>> \in Seq(K)
      OBVIOUS
    <3>5. l \in K => <<l>> \in Seq(K)
      OBVIOUS
    <3>3. view \in Seq(K)
      BY <3>1, <3>2, <3>4, <3>5
    <3> QED
      BY <3>3 DEF K
  <2>5. DeepSquashFiles(im, p) = mergeLocations(im, view, AllLayersFiles(im, p))
    BY DEF DeepSquashFiles
  <2> HIDE DEF view, p, P
  <2> QED
    BY <1>0, <2>1, <2>2, <2>3, <2>5, <2>4 DEF P
<1>2. CASE q.by = "glob"
  <2>1. Answer(im, q) = [squashed |-> SquashedGlob(im, s), all |-> AllLayersGlob(im, s), deep |-> DeepSquashGlob(im, s)]
    BY <1>2 DEF Answer
  <2>2. SquashedGlob(im, s) \in Seq(SquashedFrom(im, P))
    BY <1>0, SquashedGlobHolds
  <2>3. AllLayersGlob(im, s) \in Seq(FoundFrom(im, P))
    BY <1>0, AllLayersGlobAdds
  <2> QED
    BY <1>0, <2>1, <2>2, <2>3 DEF DeepSquashGlob
<1> QED
  BY <1>1, <1>2

LEMMA ImageInvAgrees == ImageInv => ScopesAgree
<1> SUFFICES ASSUME ImageInv, Answered PROVE ScopesAgree
  BY DEF ScopesAgree, VisibleIsSquashed, LayersCoverSquash, DeepIsVisible
<1> DEFINE s == asked.paths
           P == ToSet(s)
<1>1. img \in Seq(Layer) /\ asked \in [by : {"path", "glob"}, paths : Seq(Path)] /\ (asked.by = "path" => Len(s) = 1)
  BY DEF ImageInv
<1>2. answers[1] = Answer(img, asked)
  BY DEF ImageInv, Answered
<1>3. /\ P \in SUBSET Path /\ Squashed \in Seq(SquashedFrom(img, P)) /\ answers[1].all \in Seq(FoundFrom(img, P))
      /\ Deep = mergeLocations(img, Squashed, answers[1].all)
  BY <1>1, <1>2, AnswerHolds DEF Squashed, Deep
<1>4. \A l \in AllLayers : l.access \in Path /\ l.ref \in FilesOf(img)
  <2>1. AllLayers \subseteq FoundFrom(img, P)
    BY <1>3, HoldsPlaces DEF AllLayers
  <2> QED
    BY <1>3, <2>1 DEF FoundFrom
<1>5. VisibleIsSquashed
  <2> SUFFICES ASSUME NEW l \in AllLayers PROVE Visible(img, l) <=> l.ref \in Refs(SquashedFiles(img, l.access))
    BY DEF VisibleIsSquashed
  <2>1. Visible(img, l) <=> l.ref = Keeps(img, l.access)
    BY <1>1, <1>4, VisibleExactly
  <2>2. l.ref # NoRef
    BY <1>4 DEF FilesOf
  <2> QED
    BY <1>1, <1>4, <2>1, <2>2, SquashedRefs
<1>6. LayersCoverSquash
  <2> SUFFICES ASSUME asked.by = "glob", NEW r \in Refs(Squashed) PROVE \E l \in AllLayers : l.ref = r
    BY DEF LayersCoverSquash
  <2>1. ToSet(Squashed) \subseteq SquashedFrom(img, P)
    BY <1>3, HoldsPlaces
  <2>2. PICK p \in P : Keeps(img, p) # NoRef /\ r = Location(p, Keeps(img, p)).ref
    BY <2>1 DEF Refs, SquashedFrom, Keeps
  <2>3. p \in Path /\ r = Keeps(img, p)
    BY <1>3, <2>2 DEF Location
  <2>4. r \in FilesOf(img) /\ SearchByPath(img, SquashedTree(img, Len(img)), p, TRUE) = r
    BY <1>1, <2>2, <2>3, KeptFound
  <2>5. r # NoRef /\ ~IsLink(img, r) /\ Len(img) > 0
    <3>1. r \in (1 .. Len(img)) \X Path
      BY <2>4 DEF FilesOf, Reference
    <3>2. Len(img) \in Nat
      BY <1>1, LenProperties
    <3>3. 1 .. Len(img) # {}
      BY <3>1
    <3>4. Len(img) > 0
      BY <3>2, <3>3
    <3> QED
      BY <2>4, <3>4 DEF FilesOf
  <2>6. r \in Refs(AllLayersGlob(img, s))
    BY <1>1, <2>2, <2>4, <2>5, AllLayersGlobAdds
  <2>7. answers[1].all = AllLayersGlob(img, s)
    BY <1>2 DEF Answer
  <2> QED
    BY <2>6, <2>7 DEF Refs, AllLayers
<1>7. DeepIsVisible
  <2> SUFFICES ASSUME NEW l \in Deep
               PROVE  /\ l.visible => Visible(img, l)
                      /\ Visible(img, l) /\ asked.by = "path" => l.visible
    BY DEF DeepIsVisible
  <2>1. /\ l.visible => Visible(img, l)
        /\ ~l.visible => /\ l.access \in P /\ l.ref \in FilesOf(img)
                         /\ Location(l.access, l.ref) \notin ToSet(Squashed)
    BY <1>1, <1>3, DeepTells
  <2>2. ASSUME Visible(img, l), asked.by = "path", ~l.visible PROVE FALSE
    <3> DEFINE p == s[1]
    <3>1. p \in Path /\ P = {p}
      <4>1. Len(s) = 1 /\ P = {s[i] : i \in 1 .. Len(s)} /\ \A i \in 1 .. Len(s) : s[i] \in Path
        BY <1>1, <2>2, HoldsPlaces
      <4> QED
        BY <4>1
    <3>2. l.access = p /\ l.ref = Keeps(img, p) /\ l.ref # NoRef
      <4>1. l.access \in P /\ l.ref \in FilesOf(img)
        BY <2>1, <2>2
      <4>2. l.ref = Keeps(img, l.access)
        BY <1>1, <2>2, <3>1, <4>1, VisibleExactly
      <4> QED
        BY <3>1, <4>1, <4>2 DEF FilesOf
    <3>3. Squashed = <<Location(p, Keeps(img, p))>>
      <4>1. Squashed = SquashedFiles(img, p)
        BY <1>2, <2>2 DEF Squashed, Answer
      <4> QED
        BY <1>1, <3>1, <3>2, <4>1, SquashedKeeps
    <3>4. Location(p, Keeps(img, p)) \in ToSet(Squashed)
      BY <3>3 DEF ToSet
    <3> QED
      BY <2>1, <2>2, <3>2, <3>4
  <2> QED
    BY <2>1, <2>2
<1> QED
  BY <1>5, <1>6, <1>7 DEF ScopesAgree

\* For every image and every choice of paths: what the squashed view, the all-layers view
\* and the deep squash say of the files of an image fits together (container_image_*.go).
THEOREM ScopesAlwaysAgree == ImageSpec => []ScopesAgree
<1>1. ImageInit => ImageInv
  BY ImagesAssumption DEF ImageInit, ImageInv
<1>2. ImageInv /\ [ImageAsk]_imageVars => ImageInv'
  <2> SUFFICES ASSUME ImageInv, [ImageAsk]_imageVars PROVE ImageInv'
    OBVIOUS
  <2>1. CASE ImageAsk
    <3>1. img' = img /\ asked' = asked /\ answers' = <<Answer(img, asked)>>
      BY <2>1 DEF ImageAsk, Answer
    <3> QED
      BY <3>1 DEF ImageInv
  <2>2. CASE UNCHANGED imageVars
    BY <2>2 DEF imageVars, ImageInv
  <2> QED
    BY <2>1, <2>2
<1> QED
  BY <1>1, <1>2, ImageInvAgrees, PTL DEF ImageSpec
================================================================================
