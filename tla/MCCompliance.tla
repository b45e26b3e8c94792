---------------------------- MODULE MCCompliance ----------------------------
(* Compliance over every configuration, every result of up to MaxPkgs       *)
(* packages and every set of up to MaxRels relationships among them and a   *)
(* file.  The results are chosen first and processed in one step.           *)
EXTENDS Compliance, FiniteSets

CONSTANTS
    k1, k2, owned,
    Configs,
    CompliancePackages, RelatedFiles, \* what catalogers may return and relate packages to
    MaxPkgs, MaxRels

ASSUME ComplianceAssumption ==
    /\ Configs \subseteq ComplianceConfig
    /\ CompliancePackages \subseteq Package
    /\ MaxPkgs \in Nat /\ MaxRels \in Nat

AllConfigs == ComplianceConfig

\* DefaultComplianceConfig.
DefaultConfigs == {[name |-> "drop", version |-> "stub"]}

ComplianceKey == {k1, k2}
ComplianceFile == {owned}
ComplianceOwned(p) == IF p.key = k1 THEN {owned} ELSE {}

VARIABLES cfg, pkgs, rels, result

complianceVars == <<cfg, pkgs, rels, result>>

\* A second field left as it came keeps the instance small: k1 may miss either
\* or both, k2 may miss its version.
MCPackage ==
    [key : {k1}, name : {"given", "missing"}, version : {"given", "missing", "stub"}]
        \cup [key : {k2}, name : {"given"}, version : {"given", "missing"}]

PkgIDs(ps) == {ID(p) : p \in ToSet(ps)}

Among(ps) ==
    [type : {ContainsType}, from : PkgIDs(ps), to : PkgIDs(ps) \cup RelatedFiles]

ComplianceInit ==
    /\ cfg \in Configs
    /\ pkgs \in UNION {[1..n -> CompliancePackages] : n \in 0..MaxPkgs}
    /\ rels \in UNION {{R \in SUBSET Among(pkgs) : Cardinality(R) = n} : n \in 0..MaxRels}
    /\ result = <<>>

\* NewPackageTask: finalize, then apply the compliance rules.
Process ==
    /\ result = <<>>
    /\ \E owning \in BOOLEAN :
        LET all == finalizeResults(pkgs, rels, owning)
        IN result' = <<[pkgs |-> remaining(cfg, pkgs), input |-> all,
                        rels |-> remainingRelationships(cfg, pkgs, all)]>>
    /\ UNCHANGED <<cfg, pkgs, rels>>

ComplianceSpec == ComplianceInit /\ [][Process]_complianceVars

-------------------------------------------------------------------------------

Processed == result # <<>>
Output == result[1]
Dropped == {p \in ToSet(pkgs) : drops(cfg, p)}
DroppedAndStubbed == {p \in Dropped : stubbed(cfg, p) # p}

\* Replacing packages one after the other amounts to following every package to
\* its new fingerprint at once: no relationship between two stubbed packages is
\* lost or half renamed, whatever the order they were cataloged in.
Follow(id) ==
    IF id \in PkgIDs(pkgs)
    THEN ID(stubbed(cfg, CHOOSE p \in ToSet(pkgs) : ID(p) = id))
    ELSE id

RelationshipsFollow ==
    Processed /\ DroppedAndStubbed = {} =>
        Output.rels =
            {[type |-> e.type, from |-> Follow(e.from), to |-> Follow(e.to)] :
                e \in {f \in Output.input : {f.from, f.to} \cap {ID(p) : p \in Dropped} = {}}}

\* Relationships with an end that is not kept.
Dangling == {e \in Output.rels : ~({e.from, e.to} \subseteq PkgIDs(Output.pkgs) \cup File)}

\* "p2 should be dropped ... only r1 should remain (relationship involving p1)"
\* (package_task_factory_test.go:92-94): no relationship of a dropped package stays.
DroppedLeaveNoRelationships == Processed => Dangling = {}
===============================================================================
