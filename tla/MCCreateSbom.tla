----------------------------- MODULE MCCreateSbom -----------------------------
(* A container image with a distribution package that owns a program and a     *)
(* library, two binary packages at those files or at an application, the       *)
(* application's own ELF note, and a package that upper layers hide.           *)
EXTENDS CreateSbom

CONSTANTS
    os, bin, sig, elf, hid,              \* keys
    db, prog, lib, app, old,             \* files
    libname, other,                      \* basenames
    source, elsewhere, T1, T2            \* package catalogers

MCKey == {os, bin, sig, elf, hid}
MCFile == {db, prog, lib, app, old}
MCRelType == {"contains", "evident-by", "ownership-by-file-overlap", "dependency-of"}

\* Every location is a primary and visible one unless said otherwise.
At(type, meta, f) ==
    [type |-> type, meta |-> meta, ident |-> type, locs |-> {f}, links |-> {},
     primary |-> {f}, visible |-> {f}, hidden |-> {}, files |-> {}]

MCAttr == [k \in MCKey |->
    CASE k = os  -> [At("os", "other", db) EXCEPT !.files = {prog, lib, db}]
      [] k = bin -> At("binary", "none", prog)
      [] k = sig -> At("binary", "signature", app)
      [] k = elf -> At("binary", "elf", app)
      [] k = hid -> [At("os", "other", old) EXCEPT !.visible = {}, !.hidden = {old}]]

MCResolve == [f \in MCFile |-> {f}]
MCOwned(p) == UNION {MCResolve[f] : f \in MCAttr[p.key].files}
MCForbidden == {db}
MCLib == {libname, other}
MCImports == [f \in MCFile |-> IF f = app THEN {libname} ELSE {}]
MCExports == {lib}
MCGlob == [l \in MCLib |-> IF l = libname THEN {lib} ELSE {}]
MCBaseName == [f \in MCFile |-> IF f = lib THEN libname ELSE other]

Proper(k) == [key |-> k, name |-> "given", version |-> "given"]
Versionless(k) == [key |-> k, name |-> "given", version |-> "missing"]
Found(pkgs, rels, unknowns, fatal) ==
    [pkgs |-> pkgs, rels |-> rels, unknowns |-> unknowns, fatal |-> fatal]
DependencyOf(p, q) == [type |-> "dependency-of", from |-> ID(p), to |-> ID(q)]

\* The distribution's cataloger; it may find the hidden package too, whose file it
\* cannot read to the end, and what another SBOM said of its own packages.
Distro ==
    {Found(<<Proper(os)>>, {}, {}, FALSE),
     Found(<<Proper(os), Versionless(hid)>>,
           {DependencyOf(Versionless(hid), Proper(os)),
            [type |-> "contains", from |-> elsewhere, to |-> ID(Versionless(hid))],
            [type |-> "evident-by", from |-> ID(Proper(os)), to |-> app]}, {old}, FALSE)}

\* The binary catalogers; an error may come with results and unknowns.
Binaries ==
    {Found(<<Versionless(bin), Proper(sig), Proper(elf)>>,
           {DependencyOf(Versionless(bin), Proper(elf))}, {}, FALSE),
     Found(<<Versionless(bin)>>, {}, {lib}, TRUE),
     Found(<<Proper(elf), Proper(sig)>>, {}, {lib}, FALSE)}

MCResults(t) == IF t = T1 THEN Distro ELSE Binaries

MCCandidates == [t \in Artifacts |->
    CASE t = "executables" -> {prog, app}
      [] t = "contents" -> {db}
      [] OTHER -> MCFile]

DefaultFlags ==
    Flag \ {"Globs", "DeepSquashed"}

Default == [Selection |-> "owned", flags |-> DefaultFlags, Distribution |-> "ubuntu", Evidence |-> {},
            Compliance |-> [name |-> "drop", version |-> "stub"]]

MCConfigs ==
    {Default,
     [Default EXCEPT !.flags = @ \cup {"DeepSquashed"}],
     [Default EXCEPT !.Selection = "all", !.Distribution = "rhel", !.Evidence = {"EUS"}],
     [Default EXCEPT !.flags = @ \ {"ExcludeBinaries", "PackageFileOwnership"},
                     !.Compliance = [name |-> "keep", version |-> "drop"],
                     !.Distribution = "other", !.Evidence = {"EUS", "ESM"}],
     [Default EXCEPT !.Selection = "none", !.Distribution = "none"],
     [Default EXCEPT !.flags = @ \ {"PackageFileOwnershipOverlap"}]}

ESMKeys == {hid}
===============================================================================
