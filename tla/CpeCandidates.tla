---------------------------- MODULE CpeCandidates ----------------------------
(***************************************************************************)
(* The CPEs of a package (syft/pkg/cataloger/internal/cpegenerate): those   *)
(* that a dictionary has, or every pair of a vendor and a product that its  *)
(* name and metadata suggest.                                               *)
(*                                                                         *)
(* Text is a sequence of words, numbers and separators.                     *)
(***************************************************************************)
EXTENDS Integers, FiniteSets, Sequences, SequencesExt

CONSTANTS
    Alphabet,        \* what text is made of, in its order
    Digits,          \* numbers
    Unparseable,     \* what makes a CPE invalid
    TopLevelDomains, \* domains
    Additions,       \* defaultCandidateAdditions: [type, name, vendor, vendors, products]
    Removals,        \* defaultCandidateRemovals: [type, name, vendors, products]
    Dictionary,      \* [type, name, vendor, product]
    ArtifactGroups,  \* known groups of artifacts
    SiteVendors,     \* urlPrefixToVendors: vendors of sites
    MaxCandidates,   \* maxCandidates
    MaxFieldLength        \* maxCandidateFieldLength

ASSUME CpeAssumption == MaxCandidates \in Nat \ {0} /\ MaxFieldLength \in Nat

-------------------------------------------------------------------------------
(* Text.                                                                      *)
Separators == {"-", "_"}
has(v, x) == x \in ToSet(v)
replaced(v, old, new) == [i \in DOMAIN v |-> IF v[i] \in old THEN new ELSE v[i]]
split(v, sep) ==
    FoldLeft(LAMBDA acc, x : IF x = sep THEN Append(acc, <<>>) ELSE [acc EXCEPT ![Len(acc)] = Append(@, x)],
             <<<<>>>>, v)
startsWith(v, w) == Len(w) <= Len(v) /\ SubSeq(v, 1, Len(w)) = w
endsWith(v, w) == Len(w) <= Len(v) /\ SubSeq(v, Len(v) - Len(w) + 1, Len(v)) = w
endsWithNumber(v) == v # <<>> /\ Last(v) \in Digits

normalizePersonName(v) ==
    LET w == replaced(v, {"-", " ", "."}, "_")
    IN IF startsWith(w, <<"the", "_">>) THEN SubSeq(w, 3, Len(w)) ELSE w
normalizeName(v) == SelectSeq(split(v, ",")[1], LAMBDA x : x # " ")
normalizeDotnet(v) ==
    replaced(IF endsWith(v, <<".", "dll">>) THEN SubSeq(v, 1, Len(v) - 2) ELSE v, {"-", " ", "."}, "_")

-------------------------------------------------------------------------------
(* fieldCandidate and the operations on sets of them.                         *)
candidate(v, subs, variations) == [value |-> v, subs |-> subs, variations |-> variations]
free(V) == {candidate(v, TRUE, TRUE) : v \in V}
whole(V) == {candidate(v, FALSE, TRUE) : v \in V}
fixed(V) == {candidate(v, FALSE, FALSE) : v \in V}
valuesOf(S) == {c.value : c \in S}
removeByValue(S, V) == {c \in S : c.value \notin V}
Wildcards == {<<>>, <<"*">>}

\* Mutation: candidates are varied whether they allow it or not.
MutAddDelimiterVariations(S) ==
    LET with(old, new) == {[c EXCEPT !.value = replaced(@, {old}, new)] : c \in {x \in S : has(x.value, old)}}
    IN S \cup with("-", "_") \cup with("_", "-")

addDelimiterVariations(S) ==
    LET varied == {c \in S : c.variations}
        with(old, new) == {[c EXCEPT !.value = replaced(@, {old}, new)] : c \in {x \in varied : has(x.value, old)}}
    IN S \cup with("-", "_") \cup with("_", "-")

\* Of separators in a row the last one counts, and none at either end.
generateSubSelections(v) ==
    LET start(i) == v[i] \notin Separators /\ (i = 1 \/ v[i - 1] \in Separators)
        push(acc, i) ==
            IF v[i] \in Separators THEN [acc EXCEPT !.sep = <<v[i]>>]
            ELSE IF ~start(i) THEN [acc EXCEPT !.results[Len(acc.results)] = Append(@, v[i])]
            ELSE [sep |-> <<>>,
                  results |-> Append(acc.results, IF acc.results = <<>> THEN <<v[i]>>
                                                  ELSE Last(acc.results) \o acc.sep \o <<v[i]>>)]
        found == FoldLeft(push, [sep |-> <<>>, results |-> <<>>], [i \in DOMAIN v |-> i]).results
    IN {found[i] : i \in {j \in DOMAIN found : j <= 10}}

addAllSubSelections(S) ==
    S \cup free(UNION {generateSubSelections(c.value) : c \in {x \in S : x.subs}})

\* Binary packages: Qt5 is also Qt.
addDigitVariations(S) ==
    S \cup free({Front(v) : v \in {w \in valuesOf(S) : endsWithNumber(w) /\ Len(w) > 1}})

-------------------------------------------------------------------------------
(* Known additions and removals: of entries for one key the last counts.      *)
lastOf(table, match(_)) ==
    LET at == {i \in DOMAIN table : match(table[i])}
    IN IF at = {} THEN {} ELSE {table[CHOOSE i \in at : \A j \in at : j <= i]}

additionFor(type, name, vendor) ==
    lastOf(Additions, LAMBDA a : a.type = type /\ a.name = name /\ a.vendor = vendor)
findAdditionalVendors(type, name, vendor) ==
    UNION {a.vendors : a \in additionFor(type, name, vendor) \cup additionFor(type, name, <<>>)
                             \cup additionFor(type, <<>>, vendor)}
findAdditionalProducts(type, name) == UNION {a.products : a \in additionFor(type, name, <<>>)}

removalFor(type, name) == lastOf(Removals, LAMBDA r : r.type = type /\ r.name = name)
findVendorsToRemove(type, name) == UNION {r.vendors : r \in removalFor(type, name)}
findProductsToRemove(type, name) == UNION {r.products : r \in removalFor(type, name)}

-------------------------------------------------------------------------------
(* Ecosystems.  A package is [type, name, language, kind, meta, cpes].        *)

\* The vendors that URLs tell: by the site, or by the owner of a repository.
candidateVendorsFromURL(urls) ==
    fixed({IF u.site \in DOMAIN SiteVendors THEN SiteVendors[u.site] ELSE u.owner :
               u \in {x \in urls : x.site \in DOMAIN SiteVendors \cup {"github", "gitlab"}}})

\* Go: the name is a host and a path.
goElements(name) == split(name, "/")
join(elements) == FoldLeft(LAMBDA acc, e : IF acc = <<>> THEN e ELSE acc \o <<"/">> \o e, <<>>, elements)
candidateProductForGo(name) ==
    LET host == Head(goElements(name))
        rest == Tail(goElements(name))
    IN IF host \in {<<"golang.org">>, <<"gopkg.in">>} THEN {join(rest)}
       ELSE IF host = <<"google.golang.org">> /\ rest # <<>> THEN {Head(rest)}
       ELSE IF Len(rest) < 2 THEN {} ELSE {join(Tail(rest))}
candidateVendorForGo(name) ==
    LET host == Head(goElements(name))
        rest == Tail(goElements(name))
    IN CASE host = <<"google.golang.org">> -> {<<"google">>}
         [] host = <<"golang.org">> -> {<<"golang">>}
         [] host = <<"gopkg.in">> -> {}
         [] OTHER -> IF Len(rest) < 2 THEN {} ELSE {Head(rest)}

\* Java: meta is [pom, projects, names, modules]: [group, artifact] of pom.properties and
\* of projects, and names in the manifest, those of modules if no other is a group.
startsWithTopLevelDomain(v) == v # <<>> /\ Head(v) \in TopLevelDomains
groupsOf(V) == {v \in V : startsWithTopLevelDomain(v)}
groupIDs(p) ==
    UNION {groupsOf({x.group}) \cup {v \in groupsOf({x.artifact}) : has(v, ".")} :
               x \in {p.meta.pom} \cup p.meta.projects}
    \cup (IF p.name \in DOMAIN ArtifactGroups THEN {ArtifactGroups[p.name]}
          ELSE IF groupsOf(p.meta.names) # {} THEN groupsOf(p.meta.names) ELSE groupsOf(p.meta.modules))
artifactID(p) == IF has(p.meta.pom.artifact, ".") THEN <<>> ELSE p.meta.pom.artifact
fieldsAfter(n, parts, forbidden) == ToSet(SubSeq(parts, n + 1, Len(parts))) \ ({<<>>} \cup forbidden)
productsFromArtifactAndGroupIDs(artifact, groups) ==
    LET fields(g) == fieldsAfter(2, split(g, "."), {<<"plugin">>, <<"plugins">>, <<"client">>})
        isPlugin(g) == has(artifact, "plugin") \/ has(g, "plugin")
    IN ({artifact} \ {<<>>}) \cup
       UNION {{f \in fields(g) : \/ artifact = <<>>
                                 \/ (startsWith(artifact, f) \/ endsWith(artifact, f)) /\ ~isPlugin(g)} :
                  g \in groups}
vendorsFromGroupIDs(groups) ==
    fixed(groups) \cup free(UNION {fieldsAfter(1, split(g, "."), {<<"plugin">>, <<"plugins">>}) : g \in groups})
productsForJava(p) == productsFromArtifactAndGroupIDs(artifactID(p), groupIDs(p))
vendorsForJava(p) ==
    vendorsFromGroupIDs(groupIDs(p))
        \cup whole({normalizePersonName(v) : v \in {w \in p.meta.names : ~startsWithTopLevelDomain(w)}})

\* Python: meta is [author, email].
additionalVendorsForPython(v) ==
    IF v # <<>> /\ Last(v) = "project" THEN {} ELSE {v \o <<"project">>, v \o <<"_", "project">>}
vendorsForPython(p) ==
    LET author == {normalizePersonName(v) : v \in p.meta.author}
        email == {normalizePersonName(v) : v \in p.meta.email}
    IN fixed(author) \cup whole(email) \cup fixed(UNION {additionalVendorsForPython(v) : v \in author \cup email})

\* .NET: meta is [titles, companies], of the entry and its executables.
productsForDotnet(p) ==
    fixed({normalizeDotnet(v) : v \in p.meta.titles}
          \cup {normalizeDotnet(v) \o <<"_", ".", "net">> :
                    v \in {w \in p.meta.titles : ~endsWith(w, <<"_", ".", "net">>)}})
vendorsForDotnet(p) == fixed({normalizeDotnet(v) : v \in p.meta.companies})

\* Alpine: the name without the version of a stream, and the ecosystem its prefix tells.
versionsOfStream(name) ==
    {i \in DOMAIN name : /\ i > 1 /\ name[i] \in Digits
                         /\ i < Len(name) => name[i + 1] = "-" /\ Len(name) > i + 1
                                             /\ name[i + 2] \notin Digits}
withoutVersion(name, i) ==
    SubSeq(name, 1, IF name[i - 1] = "-" THEN i - 2 ELSE i - 1) \o SubSeq(name, i + 1, Len(name))
upstreamName(name) ==
    IF versionsOfStream(name) = {} THEN name ELSE withoutVersion(name, Min(versionsOfStream(name)))
upstreamOf(name) ==
    LET of(type, prefix) == [type |-> type, name |-> SubSeq(name, Len(prefix) + 1, Len(name))]
    IN IF startsWith(name, <<"py", "-">>) /\ Len(name) > 2 THEN of("python", <<"py", "-">>)
       ELSE IF startsWith(name, <<"ruby", "-">>) /\ Len(name) > 2 THEN of("gem", <<"ruby", "-">>)
       ELSE of("apk", <<>>)
upstream(name) == upstreamOf(upstreamName(name))

\* The flags that are set at the end are set on copies and have no effect.
upstreamVendors(up) ==
    LET known(S, v) == (S \cup {v} \cup findAdditionalVendors(up.type, v, v)) \ findVendorsToRemove(up.type, v)
    IN FoldLeft(known, {}, <<up.name>> \o (IF up.type = "python" THEN SetToSeq(additionalVendorsForPython(up.name))
                                           ELSE <<>>))
upstreamProducts(up) ==
    ({up.name} \cup findAdditionalProducts(up.type, up.name)) \ findProductsToRemove(up.type, up.name)
vendorsForAPK(p) == free(upstreamVendors(upstream(p.name))) \cup candidateVendorsFromURL(p.meta.urls)
productsForAPK(p) == free(upstreamProducts(upstream(p.name)))

\* Executables of Windows: meta is [company, product, description].
isGit(meta) == meta.product = <<"git">> \/ meta.description = <<"git", " ", "setup">>
isGhostscript(meta) == has(meta.product, "ghostscript") \/ has(meta.description, "ghostscript")
vendorsForPE(meta) ==
    {v \in {<<"artifex">>} : isGhostscript(meta) \/ has(meta.company, "artifex")}
    \cup {v \in {<<"git", "_", "for", "_", "windows", "_", "project">>, <<"gitforwindows">>} :
              isGit(meta) \/ meta.company = <<"the", " ", "git", " ", "development", " ", "community">>}
productsForPE(meta) ==
    {v \in {<<"ghostscript">>} : isGhostscript(meta)}
    \cup {v \in {<<"git", "_", "for", "_", "windows">>, <<"git">>} : isGit(meta)}

vendorsByType(p, S) ==
    CASE p.kind = "dotnet" -> vendorsForDotnet(p)
      [] p.kind = "rpm" -> S \cup whole({normalizeName(v) : v \in p.meta.vendors})
      [] p.kind = "gem" -> S \cup whole({normalizePersonName(v) : v \in p.meta.authors}) 
                               \cup candidateVendorsFromURL(p.meta.urls)
      [] p.kind = "python" -> S \cup vendorsForPython(p)
      [] p.kind = "java" -> S \cup vendorsForJava(p)
      [] p.kind = "apk" -> S \cup vendorsForAPK(p)
      [] p.kind = "npm" -> S \cup candidateVendorsFromURL(p.meta.urls)
      [] p.kind = "pe" -> S \cup free(vendorsForPE(p.meta))
      [] p.kind = "wordpress" ->
             free(IF p.meta.authors = {} THEN {replaced(p.name, {" "}, "_") \o <<"_", "project">>} ELSE p.meta.authors)
      [] OTHER -> S

-------------------------------------------------------------------------------
(* Vendors and products.                                                      *)
productsByName(p) ==
    LET own == free({p.name})
    IN CASE p.language = "dotnet" -> productsForDotnet(p)
         [] p.language = "python" -> own \cup (IF p.name # <<>> /\ Head(p.name) = "python" THEN {}
                                                ELSE free({<<"python", "-">> \o p.name}))
         [] p.language = "java" -> own \cup free(productsForJava(p))
         [] p.language = "go" -> free(candidateProductForGo(p.name) \ {<<>>})
         [] p.type = "binary" /\ endsWithNumber(p.name) -> addDigitVariations(own)
         [] OTHER -> own

productsTold(p) ==
    CASE p.kind = "apk" -> productsByName(p) \cup productsForAPK(p)
      [] p.kind = "pe" -> productsByName(p) \cup free(productsForPE(p.meta))
      [] p.kind = "wordpress" -> free({replaced(v, {" "}, "_") : v \in {p.name, p.meta.directory}})
      [] OTHER -> productsByName(p)

candidateProductSet(p) ==
    removeByValue(addDelimiterVariations(removeByValue(productsTold(p), Wildcards))
                      \cup free(findAdditionalProducts(p.type, p.name)),
                  findProductsToRemove(p.type, p.name))

\* S are the products.
vendorsByLanguage(p, S) ==
    CASE p.language = "javascript" /\ p.name = <<"node", ".", "js">> -> S \cup free({<<"nodejs">>})
      [] p.language = "ruby" -> S \cup free({<<"ruby", "-", "lang">>})
      [] p.language = "go" -> free(candidateVendorForGo(p.name))
      [] OTHER -> S

withoutDigits(p, S) == IF p.type = "binary" /\ endsWithNumber(p.name) THEN addDigitVariations(S) ELSE S
rustProject(p) == IF p.language = "rust" THEN {p.name \o <<"_", "project">>} ELSE {}
knownVendor(V) == IF <<"apache">> \in V THEN {<<"apache">>} ELSE V

\* The additions and removals for vendors V.
amended(p, V) ==
    (V \cup UNION {findAdditionalVendors(p.type, p.name, v) : v \in V}) \ findVendorsToRemove(p.type, p.name)

candidateVendors(p) ==
    LET told(S) == withoutDigits(p, vendorsByType(p, vendorsByLanguage(p, S)))
        varied(S) == addDelimiterVariations(removeByValue(S, Wildcards)) \cup free(rustProject(p))
    IN knownVendor(amended(p, valuesOf(addAllSubSelections(varied(told(candidateProductSet(p)))))))

-------------------------------------------------------------------------------
(* CPEs.                                                                      *)
position(x) == CHOOSE i \in DOMAIN Alphabet : Alphabet[i] = x
precedes(v, w) ==
    \/ Len(v) < Len(w)
    \/ Len(v) = Len(w) /\ \E i \in DOMAIN v :
           position(v[i]) < position(w[i]) /\ \A j \in 1 .. i - 1 : v[j] = w[j]

\* At most so many, the shortest first.
boundCandidates(V) ==
    LET short == {v \in V : Len(v) <= MaxFieldLength}
    IN {v \in short : Cardinality({w \in short : precedes(w, v)}) < MaxCandidates}

CPE(product, vendor, target, source) ==
    [product |-> product, vendor |-> vendor, target |-> target, source |-> source]
candidateTargetSw(p) ==
    CASE p.type = "wordpress" -> "wordpress" [] p.language \in {"rust", "perl"} -> p.language [] OTHER -> "any"

\* cpeFilters
disallowed(c, p) ==
    \/ c.product = <<"jira">> /\ has(p.name, "client") /\ c.vendor \in {<<"jira">>, <<"atlassian">>}
    \/ /\ c.vendor = <<"apache">> /\ c.product = <<"tomcat">> /\ p.kind = "java"
       /\ p.meta.pom = [group |-> <<"org", ".", "apache", ".", "tomcat", ".", "embed">>,
                        artifact |-> <<"tomcat", "-", "embed", "-", "el">>]
    \/ p.type = "jenkins-plugin" /\ c.product = <<"jenkins">>
    \/ c.product = <<"jenkins">> /\ ~has(p.name, "jenkins") /\ c.vendor \in {<<"jenkins">>, <<"cloudbees">>}

valid(v) == ToSet(v) \cap Unparseable = {}

FromPackageAttributes(p) ==
    IF p.type = "model" \/ Len(p.name) > MaxFieldLength THEN {}
    ELSE {c \in {CPE(product, vendor, candidateTargetSw(p), "generated") :
                     product \in boundCandidates(valuesOf(candidateProductSet(p))),
                     vendor \in boundCandidates(candidateVendors(p))} :
              valid(c.product) /\ valid(c.vendor) /\ ~disallowed(c, p)}

\* An entry that does not parse is left out.
FromDictionaryFind(p) ==
    LET key == IF p.kind = "wordpress" THEN p.meta.directory ELSE p.name
    IN {CPE(e.product, e.vendor, "any", "dictionary") :
            e \in {d \in Dictionary : d.type = p.type /\ d.name = key /\ valid(d.product)}}

\* Where a cataloger knows the CPEs, or the dictionary has some, none are generated.
CPEsOf(p) ==
    IF \E c \in p.cpes : c.source # "generated" THEN p.cpes
    ELSE p.cpes \cup FromDictionaryFind(p)
             \cup (IF FromDictionaryFind(p) = {} THEN FromPackageAttributes(p) ELSE {})
===============================================================================
