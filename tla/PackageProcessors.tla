--------------------------- MODULE PackageProcessors ---------------------------
(* What catalogers do to the packages and relationships of all their files before *)
(* they return them.  Files are parsed concurrently, so packages arrive in any    *)
(* order.                                                                         *)
(*                                                                                *)
(* A package has a name, a version, places (a tree and a role), metadata, and an  *)
(* identifier that is a function of these: lists count as sets in it, and so they *)
(* are sets here.                                                                 *)
EXTENDS DependencyResolver, UnknownErrors

CONSTANTS
    None,
    Perllocal,        \* entries of the perllocal.pod files: [module, into, version], in order
    PmVersion,        \* version that the main .pm of a packlist declares, None without the file
    ModelName,        \* directory -> name that its config.json or README gives, "" without one
    Venvs,            \* virtual environments: [site, system], system being the global site or None
    GoodVersions      \* Go versions a CPE can be made of

\* An identifier that has not been set.
NoID == <<>>

WithID(p) == [name |-> p.name, version |-> p.version, id |-> <<p.name, p.version, p.places, p.meta>>,
              foundBy |-> p.foundBy, places |-> p.places, meta |-> p.meta]

Result(pkgs, rels, err) == [pkgs |-> pkgs, rels |-> rels, err |-> err]

SetIDs(pkgs) == [i \in DOMAIN pkgs |-> IF pkgs[i].id = NoID THEN WithID(pkgs[i]) ELSE pkgs[i]]

\* Mutation: identifiers are set after the packages are related.
MutResolveDependencies(r) == Result(SetIDs(r.pkgs), r.rels \cup Resolve(r.pkgs), r.err)

\* dependency.Processor
ResolveDependencies(r) ==
    Result(SetIDs(r.pkgs), r.rels \cup Resolve(SetIDs(r.pkgs)), r.err)

denySelfReferences(r) ==
    Result(r.pkgs, {x \in r.rels : ~(x.type = "dependency-of" /\ x.from = x.to)}, r.err)

-------------------------------------------------------------------------------
(* CPAN distributions (syft/pkg/cataloger/perl).  The name of a packlist stands   *)
(* for the module it is made of.                                                  *)

fromInstallJSON(p) == p.meta.mainModule = None

\* The last entry of the longest library directory that holds the packlist.
perllocalVersion(p) ==
    LET fits == {i \in DOMAIN Perllocal :
                    /\ Perllocal[i].module = p.name
                    /\ Perllocal[i].version # ""
                    /\ IsPrefix(Perllocal[i].into, p.meta.tree)}
        better(i, j) == \/ Len(Perllocal[i].into) > Len(Perllocal[j].into)
                        \/ Len(Perllocal[i].into) = Len(Perllocal[j].into) /\ i >= j
    IN IF fits = {} THEN None ELSE Perllocal[CHOOSE i \in fits : \A j \in fits : better(i, j)].version

resolvePacklistVersions(r) ==
    LET versioned(p, version, place) ==
            WithID([p EXCEPT !.version = version,
                             !.places = @ \cup {[tree |-> <<>>, role |-> place]}])
        resolve(p) ==
            IF fromInstallJSON(p) \/ p.version # "" THEN p
            ELSE IF perllocalVersion(p) # None
                 THEN versioned(p, perllocalVersion(p), "perllocal.pod")
            ELSE IF PmVersion[p.name] # None THEN versioned(p, PmVersion[p.name], "pm")
            ELSE p
    IN Result([i \in DOMAIN r.pkgs |-> resolve(r.pkgs[i])], r.rels, r.err)

\* The distribution that install.json names wins, and takes the files of the packlist.
mergeInto(a, b) ==
    LET winner == IF ~fromInstallJSON(a) /\ fromInstallJSON(b) THEN b ELSE a
        loser == IF winner = a THEN b ELSE a
    IN [winner EXCEPT !.places = @ \cup loser.places, !.meta.files = @ \cup loser.meta.files]

FoldPackages(ordered) ==
    LET same(p, q) == p.meta.tree = q.meta.tree /\ p.name = q.name /\ p.version = q.version
        add(merged, p) ==
            LET keyed == {i \in DOMAIN merged : same(p, merged[i])}
                \* only the first to claim a module is asked
                providers == {i \in DOMAIN merged : p.meta.tree = merged[i].meta.tree
                                                     /\ p.name \in merged[i].meta.modules}
                provider == {i \in providers : \A j \in providers : i <= j}
                found == IF keyed # {} THEN keyed
                         ELSE {i \in provider : ~fromInstallJSON(p)
                                                /\ p.version \in {"", merged[i].version}}
            IN IF found = {} THEN Append(merged, p)
               ELSE LET i == CHOOSE i \in found : TRUE
                    IN [merged EXCEPT ![i] = mergeInto(@, p)]
    IN FoldLeft(add, <<>>, ordered)

\* Mutation: packages are folded in the order they arrive in.
MutMergeDistributions(r) ==
    LET merged == FoldPackages(r.pkgs)
    IN IF Len(r.pkgs) < 2 THEN r
       ELSE Result([i \in DOMAIN merged |-> WithID(merged[i])], r.rels, r.err)

mergeDistributions(r) ==
    LET ordered == SelectSeq(r.pkgs, fromInstallJSON)
                   \o SelectSeq(r.pkgs, LAMBDA p : ~fromInstallJSON(p))
        merged == FoldPackages(ordered)
    IN IF Len(r.pkgs) < 2 THEN r
       ELSE Result([i \in DOMAIN merged |-> WithID(merged[i])], r.rels, r.err)

-------------------------------------------------------------------------------
(* Models (syft/pkg/cataloger/ai).                                                *)

\* What the layers of a GGUF model that have no name say goes to the one that has.
ggufMergeProcessor(r) ==
    LET named == SelectSeq(r.pkgs, LAMBDA p : p.name # "")
        nameless == {p.meta : p \in {q \in ToSet(r.pkgs) : q.name = ""}}
        merged == IF Len(named) = 1 /\ nameless # {}
                  THEN <<[named[1] EXCEPT !.meta.parts = nameless]>> ELSE named
    IN IF r.pkgs = <<>> THEN r ELSE Result(merged, r.rels, r.err)

\* The members of one SafeTensors model: those with a hash are shards, the others
\* describe the whole.  What shards disagree on is taken from the first of them.
mergeSafeTensorsGroup(members) ==
    LET shards == SelectSeq(members, LAMBDA p : p.meta.hash # "")
        aggregates == SelectSeq(members, LAMBDA p : p.meta.hash = "")
        keys == UNION {DOMAIN shards[i].meta.user : i \in DOMAIN shards}
        firstWith(key) == CHOOSE i \in DOMAIN shards :
                            /\ key \in DOMAIN shards[i].meta.user
                            /\ \A j \in DOMAIN shards : key \in DOMAIN shards[j].meta.user => i <= j
        total == FoldLeft(LAMBDA n, p : n + p.meta.tensors, 0, shards)
        \* mergeAggregatesInto: the first of them that says something
        counted == SelectSeq(aggregates, LAMBDA p : p.meta.tensors # 0)
    IN [name |-> "", version |-> "", id |-> NoID, foundBy |-> members[1].foundBy,
        places |-> UNION {members[i].places : i \in DOMAIN members},
        meta |-> [kind |-> "safetensors",
                  dir |-> members[1].meta.dir,
                  hash |-> {shards[i].meta.hash : i \in DOMAIN shards},
                  tensors |-> IF counted # <<>> THEN counted[1].meta.tensors ELSE total,
                  user |-> [key \in keys |-> shards[firstWith(key)].meta.user[key]]]]

\* One model for a directory; one that nothing names is dropped.
safeTensorsMergeProcessor(r) ==
    LET isModel(p) == p.meta.kind = "safetensors"
        others == SelectSeq(r.pkgs, LAMBDA p : ~isModel(p))
        dirs == {p.meta.dir : p \in {q \in ToSet(r.pkgs) : isModel(q)}}
        model(d) == LET group == SelectSeq(r.pkgs, LAMBDA p : isModel(p) /\ p.meta.dir = d)
                    IN WithID([mergeSafeTensorsGroup(group) EXCEPT !.name = ModelName[d]])
        named == {d \in dirs : ModelName[d] # ""}
    IN IF dirs = {} THEN r
       ELSE Result(others \o SetToSeq({model(d) : d \in named}), r.rels, r.err)

-------------------------------------------------------------------------------
(* The standard library of Go binaries (syft/pkg/cataloger/golang): one for every *)
(* place, which the first package found there depends on.                         *)
stdlibProcessor(r) ==
    LET stdlib(p) == WithID([p EXCEPT !.name = "stdlib", !.version = p.meta.goVersion,
                                      !.meta = [kind |-> "go", goVersion |-> p.meta.goVersion]])
        add(acc, p) ==
            IF p.meta.kind # "go" \/ p.meta.goVersion \notin GoodVersions
               \/ p.places \subseteq acc.places
            THEN acc
            ELSE [pkgs |-> Append(acc.pkgs, stdlib(p)),
                  places |-> acc.places \cup p.places,
                  rels |-> acc.rels \cup
                    {[from |-> stdlib(p).id, to |-> p.id, type |-> "dependency-of"]}]
        made == FoldLeft(add, [pkgs |-> <<>>, places |-> {}, rels |-> {}], r.pkgs)
    IN Result(r.pkgs \o made.pkgs, r.rels \cup made.rels, r.err)

-------------------------------------------------------------------------------
(* Python packages (syft/pkg/cataloger/python): those of a site depend on one     *)
(* another, those of a virtual environment may also on those of the global site.  *)

\* The packages of the first site that has one of the name.
collectPackages(bySite, sites) ==
    LET names == UNION {DOMAIN bySite[s] : s \in ToSet(sites) \cap DOMAIN bySite}
        from(n) == CHOOSE i \in DOMAIN sites :
                    /\ sites[i] \in DOMAIN bySite /\ n \in DOMAIN bySite[sites[i]]
                    /\ \A j \in 1..(i - 1) : ~(sites[j] \in DOMAIN bySite /\ n \in DOMAIN bySite[sites[j]])
    IN SetToSeq({bySite[sites[from(n)]][n] : n \in names})

\* readable: whether the configuration of every virtual environment could be read.
wheelEggRelationships(r, readable) ==
    LET here(s) == {i \in DOMAIN r.pkgs : r.pkgs[i].meta.site = s}
        sites == {p.meta.site : p \in ToSet(r.pkgs)}
        last(s, n) == CHOOSE i \in here(s) : r.pkgs[i].name = n
                        /\ \A j \in here(s) : r.pkgs[j].name = n => j <= i
        bySite == [s \in sites |-> [n \in {r.pkgs[i].name : i \in here(s)} |-> r.pkgs[last(s, n)]]]
        global == sites \ {v.site : v \in Venvs}
        systemOf(v) == IF v.system \in global THEN <<v.site, v.system>> ELSE <<v.site>>
        reached == {<<s>> : s \in global}
                   \cup {IF v.system = None THEN <<v.site>> ELSE systemOf(v) : v \in Venvs}
    IN IF r.err # Nil THEN r
       ELSE IF ~readable THEN Result(<<>>, {}, Leaf("pyvenv.cfg"))
       ELSE Result(r.pkgs,
                   r.rels \cup UNION {Resolve(SetIDs(collectPackages(bySite, s))) : s \in reached},
                   r.err)
===============================================================================
