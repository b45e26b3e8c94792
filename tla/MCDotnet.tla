------------------------------- MODULE MCDotnet -------------------------------
(* The .NET cataloger for every application of a family: "given" is what it       *)
(* finds, "output" what it returns.                                               *)
EXTENDS DotnetPackages

CONSTANTS
    Applications,                    \* [family, docs, pes, config]
    application, libA, libB, libC,   \* libraries: the root and others
    claimed1, claimed2, claimed3, runtime, single, alone   \* executables

\* Documents have different paths.
ASSUME ApplicationsAssumption ==
    \A a \in Applications :
        /\ a.family = "dotnet" /\ a.pes \subseteq Executable /\ a.config \in DotnetConfig
        /\ \A doc \in a.docs :
              /\ doc.libs \subseteq Library /\ doc.bundled \in BOOLEAN
              /\ doc.dependsOn \in [Library -> SUBSET Library]
              /\ doc.claims \in [Library -> SUBSET Executable]
        /\ \A d, e \in a.docs : d.name = e.name => d = e

VARIABLES given, output

catalogVars == <<given, output>>
Ran(family) == output # <<>> /\ given.family = family

OtherLibs == {libA, libB, libC}
MCRuntimeVersion == [x \in Library \cup Executable |->
                        IF x \in {runtime, libC} THEN 8 ELSE Nothing]
ClaimOf(l) == CASE l = libA -> claimed1 [] l = libB -> claimed2 [] l = libC -> claimed3

Doc(doc, libs, dependsOn, claimants, kind, titled, bundled, carrier, libman) ==
    [name |-> doc, libs |-> libs, dependsOn |-> dependsOn,
     claims |-> [l \in Library |-> IF l \in claimants THEN {ClaimOf(l)} ELSE {}],
     kind |-> kind, titled |-> titled, bundled |-> bundled, carrier |-> carrier, libman |-> libman]

Plain == [l \in Library |-> IF l = application THEN "project" ELSE "package"]

\* Every graph over three libraries, one of which may be of a kind that is skipped.
GraphDocs ==
    {Doc("one", Library, [l \in Library |-> IF l = application THEN {libA, libB} ELSE g[l]],
         claimants, kind, {application}, FALSE, Nothing, FALSE) :
        g \in {f \in [OtherLibs -> SUBSET OtherLibs] : \A l \in OtherLibs : l \notin f[l]},
        claimants \in SUBSET OtherLibs,
        kind \in {[Plain EXCEPT ![libB] = k] : k \in {"package", "project", "reference"}}}

DotnetDefault == [mustHaveDLL |-> FALSE, mustClaimDLL |-> TRUE, propagate |-> TRUE,
                  relaxWhenBundled |-> TRUE, excludeProjects |-> TRUE]

DotnetConfigs == {DotnetDefault, [DotnetDefault EXCEPT !.propagate = FALSE],
                  [DotnetDefault EXCEPT !.mustHaveDLL = TRUE],
                  [DotnetDefault EXCEPT !.mustClaimDLL = FALSE, !.excludeProjects = FALSE]}

\* Documents in one directory or embedded in an executable, that share executables.
PairedDocs ==
    LET chain == [l \in Library |-> CASE l = application -> {libA} [] l = libA -> {libB} [] OTHER -> {}]
        docs(nm, libs, titled, carrier) ==
            {Doc(nm, libs, chain, claimants, kind, titled, bundled, carrier, titled # {}) :
                claimants \in SUBSET (libs \cap OtherLibs),
                kind \in {Plain, [Plain EXCEPT ![libA] = "project"]},
                bundled \in BOOLEAN}
    IN {{d} : d \in docs("one", {application, libA, libB}, {application}, Nothing)}
       \cup {{d, e} : d \in docs("one", {application, libA, libB}, {application, libA}, Nothing),
                      e \in docs("two", {libA, libC}, {}, single)}

MCApplications ==
    [family : {"dotnet"}, docs : {{d} : d \in GraphDocs}, pes : {{claimed1, claimed3}}, config : DotnetConfigs]
    \cup [family : {"dotnet"}, docs : PairedDocs, pes : {Executable, {claimed2, claimed3, single}}, config : DotnetConfigs]

DotnetRun ==
    \E root \in [{d.name : d \in given.docs} -> Library \cup {Nothing}] :
        /\ \A d \in given.docs : root[d.name] \in Roots(d)
        /\ output' = <<[result |-> Catalog(given.docs, given.pes, given.config, root,
                                           [n \in DOMAIN root |->
                                               LET d == CHOOSE e \in given.docs : e.name = n
                                               IN SetToSeq(d.libs)]),
                        root |-> root]>>

DotnetInit == given \in Applications /\ output = <<>>
DotnetNext == output = <<>> /\ DotnetRun /\ UNCHANGED given
DotnetSpec == DotnetInit /\ [][DotnetNext]_catalogVars

\* What can be reached from some libraries over others, as the least closed set.
Between(doc, from, over) ==
    {m \in over : \A S \in SUBSET over :
        (from \cap over \subseteq S /\ \A s \in S : doc.dependsOn[s] \cap over \subseteq S) => m \in S}

\* What the configuration asks to be kept of a document.
WantedOf(doc, pes, config, root, l) ==
    \/ l = root
    \/ /\ doc.kind[l] # "reference"
       /\ config.excludeProjects => doc.kind[l] # "project"
       /\ config.mustHaveDLL => doc.claims[l] \cap pes # {}
       /\ config.mustClaimDLL /\ ~(config.relaxWhenBundled /\ doc.bundled) =>
              \/ doc.claims[l] # {}
              \/ config.propagate /\ \E m \in Between(doc, doc.dependsOn[l], doc.libs) : doc.claims[m] # {}

\* A document gives the packages that the configuration wants, in whatever order its
\* flags are set, and one of them is a dependency of another exactly if a path of
\* libraries that are not wanted, or none, leads there, through cycles and undescribed
\* libraries.
DependenciesJumpSkipped ==
    Ran("dotnet") => \A doc \in considered(given.docs, given.pes, given.config) :
        LET out == output[1].result
            root == output[1].root[doc.name]
            wanted == {l \in doc.libs : WantedOf(doc, given.pes, given.config, root, l)}
            leads(p, d) == d \in doc.dependsOn[p] \cup
                UNION {doc.dependsOn[s] : s \in Between(doc, doc.dependsOn[p], doc.libs \ wanted)}
        IN /\ {l \in Library : Dependency(doc, l) \in out.packages} = wanted
           /\ \A p, d \in wanted :
                  [from |-> Dependency(doc, d), to |-> Dependency(doc, p), type |-> "dependency-of"]
                      \in out.relationships
                  <=> leads(p, d) \/ (p = root /\ RuntimeVersion[d] # Nothing)

\* An executable is a package of its own exactly if it is not evidence of a kept
\* library, not a part of a runtime that is a package, does not carry a document, and not
\* every library that claims it is left out as a project or a reference.
ExecutablesSpokenFor ==
    Ran("dotnet") => \A pe \in given.pes :
        LET out == output[1].result
            claimants == {c \in given.docs \X Library : c[2] \in c[1].libs /\ pe \in c[1].claims[c[2]]}
        IN Binary(pe) \in out.packages <=>
           ~ \/ \E p \in DOMAIN out.evidence : pe \in out.evidence[p]
             \/ RuntimeVersion[pe] # Nothing /\ \E p \in out.packages :
                    \/ p = Runtime(RuntimeVersion[pe])
                    \/ p.kind = "library" /\ RuntimeVersion[p.of[2]] = RuntimeVersion[pe]
             \/ \E doc \in given.docs : pe = doc.carrier
             \/ claimants # {} /\ \A c \in claimants :
                    \/ c[1].kind[c[2]] = "reference"
                    \/ given.config.excludeProjects /\ c[1].kind[c[2]] = "project"

\* "This applies to both the claims configuration and evidence-on-disk configurations"
\* (config.go): a library is kept for executables found for what is below it.
EvidencePropagates ==
    Ran("dotnet") => \A doc \in considered(given.docs, given.pes, given.config) :
        given.config.mustHaveDLL /\ given.config.propagate =>
            \A l \in {m \in doc.libs : doc.kind[m] = "package"} :
                (\E m \in Between(doc, doc.dependsOn[l], doc.libs) : doc.claims[m] \cap given.pes # {})
                    => Dependency(doc, l) \in output[1].result.packages

\* "create a relationship from every runtime package to every root package"
\* (deps_binary_cataloger.go): under the fingerprint that the package gets later.
RuntimesUnderRoots ==
    Ran("dotnet") => \A e \in output[1].result.relationships : e.from # NoID
===============================================================================
