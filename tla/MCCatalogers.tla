----------------------------- MODULE MCCatalogers -----------------------------
(* Catalogers that follow references between the files of an ecosystem, each for  *)
(* every input of a small family: "given" is what it finds, "output" what it      *)
(* returns.                                                                       *)
EXTENDS MCDotnet, MavenPoms, JavaArchives, Licenses, CpeCandidates

CONSTANT Family                \* the families of inputs

-------------------------------------------------------------------------------
(* Maven: a project with a parent and dependencies, its parent, and a repository. *)
Properties(set) == [x \in {p[1] : p \in set} |-> (CHOOSE p \in set : p[1] = x)[2]]

Pom(file, group, artifact, version, parent, properties, managed, dependencies, licenses) ==
    [file |-> file, located |-> FALSE, group |-> group, artifact |-> Text(artifact),
     version |-> version, parent |-> parent, properties |-> Properties(properties),
     managed |-> managed, dependencies |-> dependencies, licenses |-> licenses]

Element(artifact, version, import) ==
    [group |-> Text("g"), artifact |-> Text(artifact), version |-> version, import |-> import]
ParentElement(artifact, version, relative) ==
    <<[group |-> Text("g"), artifact |-> Text(artifact), version |-> version, relativePath |-> relative]>>

ParentPoms ==
    {Pom("parent", Text("g"), "p", IF <<"rev", Text("1")>> \in properties THEN Ref("rev") ELSE Text("1"),
         parent, properties, library[1], library[2], {}) :
        parent \in {<<>>, ParentElement("grand", Text("1"), None)},
        properties \in {{}, {<<"ver", Text("2")>>}, {<<"rev", Text("1")>>, <<"ver", Ref("rev")>>}},
        library \in {<<managed, direct>> : managed \in {<<>>, <<Element("lib", Ref("ver"), FALSE)>>},
                                          direct \in {<<>>, <<Element("lib", Text("8"), FALSE)>>}}}

ChildPoms ==
    {Pom("child", None, "c", own[1], ParentElement("p", property[1], own[2]), property[2], managed,
         <<Element("lib", wanted, FALSE), Element("p", Text("1"), FALSE)>>, {}) :
        own \in {<<None, None>>, <<None, Text("up")>>, <<Ref("rev"), Text("up")>>},
        property \in {<<Text("1"), {}>>, <<Text("1"), {<<"ver", Ref("loop")>>, <<"loop", Ref("ver")>>}>>,
                      <<Ref("rev"), {<<"rev", Text("1")>>}>>, <<Ref("rev"), {}>>},
        managed \in {<<>>, <<Element("lib", Ref("ver"), FALSE)>>, <<Element("bom", Text("1"), TRUE)>>},
        wanted \in {None, Ref("ver"), Ref("project.version")}}

GrandPom == Pom("grand", Text("g"), "grand", Text("1"), <<>>, {<<"ver", Text("3")>>, <<"rev", Text("1")>>},
                <<Element("lib", Text("4"), FALSE)>>, <<>>, {"Apache-2.0"})
BomPom == Pom("bom", Text("g"), "bom", Text("1"), <<>>, {<<"bom", Text("7")>>},
              <<Element("lib", Ref("bom"), FALSE)>>, <<>>, {})
LibPom(v) == Pom("lib" \o v, Text("g"), "lib", Text(v), <<>>, {}, <<>>, <<Element("util", Text("1"), FALSE)>>, {"MIT"})
UtilPom == Pom("util", Text("g"), "util", Text("1"), <<>>, {}, <<>>, <<Element("lib", Text("7"), FALSE)>>, {})

Artifacts(pairs) == [id \in {MavenID("g", p[1], p[2]) : p \in DOMAIN pairs} |-> pairs[<<id.artifact, id.version>>]]
LibVersions == {"1", "2", "7", "8"}
Repositories ==
    LET libs == [p \in {"lib"} \X LibVersions |-> LibPom(p[2])] @@ (<<"util", "1">> :> UtilPom)
    IN {Artifacts(libs @@ (<<"grand", "1">> :> GrandPom) @@ (<<"bom", "1">> :> BomPom)),
        Artifacts(libs @@ (<<"bom", "1">> :> BomPom)), Artifacts(libs)}

MavenInputs ==
    {[family |-> "maven", transitive |-> files[1] = "child", files |-> files,
      S |-> [poms |-> "child" :> child @@ "parent" :> parent,
             tree |-> (<<"child", "up">> :> "parent"),
             repository |-> repository, resolved |-> <<>>, maxDepth |-> 0]] :
        child \in ChildPoms, parent \in ParentPoms, repository \in Repositories,
        files \in {<<"child", "parent">>, <<"parent", "child">>}}

MavenRun ==
    LET pom == [given.S.poms["child"] EXCEPT !.located = TRUE]
        dependency(S) == ResolveDependencyID(S, pom, pom.dependencies[1]).v
    IN output' = With(CatalogPoms(given.S, given.files, given.transitive), LAMBDA st :
                     <<[result |-> st,
                        version |-> dependency(st.S).version,
                        id |-> ResolveID(st.S, pom).v,
                        licenses |-> resolveLicenses(st.S, pom, <<>>).v]>>)

\* The same by definition.  What a pom has for a parent:
TrueParent(S, pom) ==
    LET own == pom.properties
        declared == ParentOf(pom).version
        version == IF declared.kind = "text" THEN declared.of
                   ELSE IF declared.of \in DOMAIN own THEN own[declared.of].of ELSE ""
        named == [file |-> ParentOf(pom).artifact.of, version |-> version]
    IN IF <<pom.file, ParentOf(pom).relativePath.of>> \in DOMAIN S.tree
       THEN S.poms[S.tree[<<pom.file, ParentOf(pom).relativePath.of>>]]
       ELSE IF named = [file |-> "p", version |-> "1"] THEN S.poms["parent"]
       ELSE LET id == MavenID("g", named.file, version)
            IN IF id \in DOMAIN S.repository THEN S.repository[id] ELSE NoPom

RECURSIVE Line(_, _)
Line(S, pom) == IF pom = NoPom THEN <<>>
                ELSE <<pom>> \o IF HasParent(pom) THEN Line(S, TrueParent(S, pom)) ELSE <<>>

\* Nothing is missing: no parent, no import.
Complete(S, pom) ==
    LET line == Line(S, pom)
    IN /\ ~HasParent(Last(line))
       /\ \A i \in DOMAIN line : \A j \in DOMAIN line[i].managed :
              line[i].managed[j].import => MavenID("g", "bom", "1") \in DOMAIN S.repository

\* The value of an expression: of properties the first definition counts.
RECURSIVE ValueOf(_, _, _, _)
ValueOf(S, context, e, names) ==
    LET line == FlattenSeq([i \in DOMAIN context |-> Line(S, context[i])])
        defining == SelectSeq(line, LAMBDA p : e.of \in DOMAIN p.properties)
        pom == Last(context)
    IN IF e.kind # "ref" THEN e.of
       ELSE IF e.of \in names THEN ""
       ELSE IF e.of = "project.version"
       THEN ValueOf(S, context, IF pom.version = None THEN ParentOf(pom).version ELSE pom.version,
                    names \cup {e.of})
       ELSE IF defining = <<>> THEN ""
       ELSE ValueOf(S, context, defining[1].properties[e.of], names \cup {e.of})

\* Every version that some pom gives to the library, the nearest first.
RECURSIVE Offers(_, _, _)
Offers(S, context, pom) ==
    LET all == Append(context, pom)
        offered(deps) == FlattenSeq([i \in DOMAIN deps |->
            IF deps[i].artifact = Text("lib") THEN <<ValueOf(S, all, deps[i].version, {})>>
            ELSE IF deps[i].import /\ MavenID("g", "bom", "1") \in DOMAIN S.repository
            THEN Offers(S, all, S.repository[MavenID("g", "bom", "1")]) ELSE <<>>])
    IN offered(pom.managed)
       \o (IF HasParent(pom) /\ TrueParent(S, pom) # NoPom THEN Offers(S, all, TrueParent(S, pom)) ELSE <<>>)
       \o offered(pom.dependencies)

FirstOf(values) == LET known == SelectSeq(values, LAMBDA v : v # "") IN IF known = <<>> THEN "" ELSE known[1]

MavenChild == given.S.poms["child"]
TrueVersion ==
    FirstOf(<<ValueOf(given.S, <<MavenChild>>, MavenChild.dependencies[1].version, {})>>
            \o Offers(given.S, <<>>, MavenChild))

\* What a pom inherits is what the nearest pom gives that can be found, by whichever way
\* and in whatever order poms were found before: the version of a dependency, its own
\* version and its licenses.  Where a parent or an import is missing they may be unknown,
\* and the version that of a pom further away, if the nearer one gives it by a property
\* that is looked for past the missing parent; never one that no pom gives.
PomsInherit ==
    Ran("maven") =>
        LET line == Line(given.S, MavenChild)
            licensed == SelectSeq(line, LAMBDA p : p.licenses # {})
            version == ValueOf(given.S, <<MavenChild>>,
                IF MavenChild.version = None THEN ParentOf(MavenChild).version ELSE MavenChild.version, {})
            licenses == IF licensed = <<>> THEN {} ELSE licensed[1].licenses
            perhaps(value) == IF Complete(given.S, MavenChild) THEN {} ELSE {value}
        IN /\ output[1].version \in {TrueVersion} \cup perhaps("") \cup
                  (IF Complete(given.S, MavenChild) THEN {} ELSE ToSet(Offers(given.S, <<>>, MavenChild)))
           /\ output[1].id.version \in {version} \cup perhaps("")
           /\ output[1].licenses \in {licenses} \cup perhaps({})

\* Each dependency of a pom of the scan is a dependency of its package, if asked for also
\* those of the poms that a repository has for them; each ID is one package, whichever pom
\* names it first and through cycles, and nothing else is a package or related.
DependenciesRelated ==
    Ran("maven") /\ Complete(given.S, MavenChild) =>
        LET child == MavenID("g", "c", ValueOf(given.S, <<MavenChild>>,
                IF MavenChild.version = None THEN ParentOf(MavenChild).version ELSE MavenChild.version, {}))
            parent == MavenID("g", "p", "1")
            named(pom) == {MavenID("g", d.artifact.of, d.version.of) : d \in ToSet(pom.dependencies)}
            dependencies(id) ==
                CASE id = child -> {MavenID("g", "lib", TrueVersion), parent}
                  [] id = parent -> named(given.S.poms["parent"])
                  [] OTHER -> IF given.transitive /\ id \in DOMAIN given.S.repository
                              THEN named(given.S.repository[id]) ELSE {}
            RECURSIVE reached(_)
            reached(from) == LET more == from \cup UNION {dependencies(id) : id \in from}
                             IN IF more = from THEN from ELSE reached(more)
            ids == reached({child, parent})
            result == output[1].result
        IN /\ {p.id : p \in result.packages} = ids
           /\ Cardinality(result.packages) = Cardinality(ids)
           /\ result.relationships \subseteq [from : result.packages, to : result.packages]
           /\ {<<r.from.id, r.to.id>> : r \in result.relationships}
                  = UNION {{<<d, id>> : d \in dependencies(id)} : id \in ids}

-------------------------------------------------------------------------------
(* Java archives: one with every sequence of poms, and archives within archives.  *)
Gav(group, artifact, version) == [group |-> group, artifact |-> artifact, version |-> version]
PomEntry(pom, both) == [properties |-> <<pom>>, project |-> IF both THEN <<pom>> ELSE <<>>]
Archive(place, manifest, poms, nested, readable, extractable) ==
    [path |-> place, readable |-> readable, extractable |-> extractable, manifest |-> manifest,
     file |-> "core", alike |-> {"core", "core-x", "x", "g"}, named |-> "core", version |-> "0", group |-> "m",
     poms |-> poms, nested |-> nested]

PomEntries ==
    {PomEntry(Gav(group, artifact, "1"), both) :
        group \in {"g", "h"}, artifact \in {"core", "core-x", "x", "dep"}, both \in BOOLEAN}
    \cup {PomEntry(Gav("g", "core", ""), TRUE), PomEntry(Gav("h", "core", "3"), FALSE),
          [properties |-> <<>>, project |-> <<Gav("g", "core-x", "2")>>], [properties |-> <<>>, project |-> <<>>]}

SomePoms == {<<>>, <<PomEntry(Gav("g", "dep", "1"), FALSE)>>,
             <<PomEntry(Gav("g", "core", "1"), TRUE), PomEntry(Gav("g", "dep", "1"), FALSE)>>}
NestedArchives ==
    LET leaves == {Archive("leaf", manifest, poms, <<>>, readable, TRUE) :
                       manifest \in {"none", "several", "unusable", "good"}, poms \in SomePoms, readable \in BOOLEAN}
        inner == {Archive("inner", manifest, poms, <<leaf>>, TRUE, extractable) :
                       manifest \in {"none", "several", "good"}, poms \in SomePoms, leaf \in leaves,
                       extractable \in BOOLEAN}
        beside == Archive("beside", "good", <<PomEntry(Gav("g", "dep", "1"), TRUE)>>, <<>>, TRUE, TRUE)
    IN {Archive("outer", manifest, poms, <<beside, a>>, TRUE, extractable) :
            manifest \in {"none", "good"}, poms \in SomePoms, a \in inner, extractable \in BOOLEAN}

JavaInputs ==
    [family : {"java"}, wrapped : {FALSE},
     archive : {Archive("outer", "good", poms, <<>>, TRUE, TRUE) :
                    poms \in UNION {[1..n -> PomEntries] : n \in 1..3}}]
    \cup [family : {"java"}, wrapped : BOOLEAN, archive : NestedArchives]

JavaRun == output' = <<IF given.wrapped THEN parseWrapped(given.archive) ELSE parseJavaArchive(given.archive)>>

\* The archives that are heard of, each after the archives around it.  One that reports an
\* error is not heard of, nor what is in it, but for the outermost.
RECURSIVE Heard(_, _)
Heard(archive, around) ==
    IF \/ ~archive.readable
       \/ archive.manifest = "several" /\ ~(given.wrapped /\ around = <<>>)
       \/ ~archive.extractable /\ (around # <<>> \/ given.wrapped)
    THEN {}
    ELSE {Append(around, archive)} \cup
         (IF archive.extractable
          THEN UNION {Heard(a, Append(around, archive)) : a \in ToSet(archive.nested)} ELSE {})

HasMain(archive) == archive.manifest = "good" /\ ~(given.wrapped /\ archive = given.archive)

\* Every archive that is heard of and has a usable manifest gives one main package and one
\* for each other artifact in its poms; what is in an archive is related to the main
\* package of that archive, that to the main package of the archive around, with the
\* identities they have in the end, and each names as its parent the nearest main package
\* around.  The main package's name, version, properties and project are of one pom,
\* unless two poms are of one artifact.
ArchivesRelated ==
    Ran("java") =>
        LET heard == Heard(given.archive, <<>>)
            packages == output[1].packages
            main(archive) == CHOOSE p \in packages : p.at = archive.path /\ p.suffix = <<>>
            others(archive) == {p \in packages : p.at = archive.path /\ p.suffix # <<>>}
            ids == {Fingerprint(p) : p \in packages}
            distinct(archive) == \A e, f \in ToSet(Listed(archive)) :
                e.properties[1].artifact = f.properties[1].artifact => e = f
        IN /\ {p.at : p \in packages} = {Last(h).path : h \in {x \in heard : HasMain(Last(x))}}
           /\ \A h \in {x \in heard : HasMain(Last(x))} :
                  LET archive == Last(h)
                      p == main(archive)
                      above == SelectSeq(Front(h), HasMain)
                  IN /\ Cardinality({q \in packages : q.at = archive.path /\ q.suffix = <<>>}) = 1
                     /\ {q.suffix : q \in others(archive)} =
                            {<<e.properties[1].group, e.properties[1].artifact>> :
                                e \in {f \in ToSet(Listed(archive)) : f.properties[1].artifact # p.name}}
                     /\ \A q \in others(archive) : q.parent = <<Fingerprint(p)>>
                     /\ p.parent = IF above = <<>> THEN <<>> ELSE <<Fingerprint(main(Last(above)))>>
                     /\ p.properties = <<>> <=>
                            \A e \in ToSet(Listed(archive)) : e.properties[1].artifact # p.name
                     /\ distinct(archive) => \A pom \in ToSet(p.properties \o p.project) :
                            pom.artifact = p.name /\ pom.version \in {p.version, ""}
           /\ output[1].relationships =
                  UNION {{DependencyOf(q, main(Last(h))) : q \in others(Last(h))} :
                             h \in {x \in heard : HasMain(Last(x))}}
                  \cup {DependencyOf(main(Last(h)), main(Last(Front(h)))) :
                            h \in {x \in heard : Len(x) > 1 /\ HasMain(Last(x)) /\ HasMain(Last(Front(x)))}}

-------------------------------------------------------------------------------
(* Licenses: every sequence of up to three ways to tell them.                     *)
Page(of, form, id) == [of |-> of, form |-> form, id |-> id]
Pages == {Page("mit", "plain", "mit"), Page("gpl", "plain", "gpl2"), Page("gpl", "older", "gpl3"),
          Page("gpl", "newer", "gpl2")}
MCFound == [full |-> {SPDX("mit"), Symbol("name", "own", "plain")}, odd |-> {}, lost |-> {}]

Url(of, form) == Symbol("url", of, form)
Name(of, form) == Symbol("name", of, form)
FullText(of, form) == Symbol("text", of, form)
Ordered == <<"custom", "gpl", "mit", "own", "full", "odd">>
Forms == <<"plain", "older", "www", "file", "padded", "canonical", "">>
MCBefore(a, b) ==
    LET at(v) == <<SelectInSeq(Ordered, LAMBDA x : x = v.of), SelectInSeq(Forms, LAMBDA x : x = v.form)>>
    IN at(a)[1] < at(b)[1] \/ (at(a)[1] = at(b)[1] /\ at(a)[2] < at(b)[2])

Told(op, names, texts, urls, place, type) ==
    [op |-> op, values |-> names, texts |-> texts, urls |-> urls, locations |-> {place}, type |-> type]

LicenseCalls ==
    {Told("build", names, <<>>, urls, "db", "declared") :
        names \in {<<Name("mit", "plain")>>, <<Name("mit", "padded"), Name("custom", "plain")>>,
                   <<Url("mit", "older")>>, <<Url("gpl", "www")>>, <<Url("gpl", "older")>>, <<Url("mit", "file")>>},
        urls \in {{}, {Url("mit", "www")}}}
    \cup {Told("build", <<>>, <<text>>, {Url("mit", "plain")}, place, "concluded") :
        text \in {FullText("full", "plain"), FullText("odd", "padded"), FullText("lost", "unreadable")},
        place \in {"COPYING", "LICENSE"}}
    \cup {Told("build", <<NoValue>>, <<>>, {Url("gpl", "www"), Url("mit", "older")}, "db", "declared"),
          Told("fields", <<NoValue>>, <<>>, {Url("mit", "older")}, "pom", "declared"),
          Told("fields", <<Name("custom", "plain")>>, <<>>, {Url("mit", "invalid")}, "pom", "declared"),
          Told("beside", <<>>, <<FullText("full", "plain")>>, {}, "LICENSE", "concluded")}

LicenseInputs ==
    [family : {"licenses"}, calls : UNION {[1..n -> LicenseCalls] : n \in 1..3},
     pages : {SetToSeq(Pages)}, scanning : {TRUE}, include : {"all"}]
    \cup [family : {"licenses"}, calls : [1..1 -> LicenseCalls], pages : SetToSeqs(Pages),
          scanning : BOOLEAN, include : {"all", "unknown", "none"}]

LicensesRun ==
    LET told(S, call) ==
            CASE call.op = "build" -> AddTo(S, SetToSeq(Build(call, given.scanning, given.pages)))
              [] call.op = "fields" -> AddTo(S, SetToSeq(NewLicenseFromFields(call, given.scanning, given.pages)))
              [] call.op = "beside" -> RelativeToPackage(S, <<call>>, given.scanning, given.pages)
    IN output' = <<ContentRules(FoldLeft(told, {}, given.calls), given.include)>>

\* What a URL stands for, whatever the order of pages: its own page, or the license that
\* all forms of it agree on.
MeantByURL(u) ==
    LET own == {q.id : q \in {x \in Pages : x.of = u.of /\ x.form = u.form}}
        any == {q.id : q \in {x \in Pages : x.of = u.of}}
    IN IF own # {} THEN own ELSE IF Cardinality(any) = 1 THEN any ELSE {}
Meant(v) ==
    LET ids == CASE v.kind = "url" -> MeantByURL(trimFileSuffix(v)) [] v.of = "mit" -> {"mit"} [] OTHER -> {}
    IN IF ids = {} THEN NoValue ELSE SPDX(CHOOSE id \in ids : TRUE)

\* The licenses a call tells, with what they were found at.
TellsOf(call) ==
    LET urls == {u \in call.urls : u.form # "invalid"}
        fact(v, expression, at, text) == [identity |-> <<v, expression, call.type>>, urls |-> at,
                                          locations |-> call.locations, text |-> text]
        named == {fact(trimmed(v), Meant(v), urls, FALSE) : v \in ToSet(call.values) \ {NoValue}}
        read == {t \in ToSet(call.texts) : t.form # "unreadable"}
        found(t) == IF given.scanning THEN MCFound[t.of] ELSE {}
        hashed(t) == IF given.scanning THEN Symbol("hash", t.of, t.form) ELSE Symbol("hash", t.of, "plain")
        texts == UNION {IF found(t) = {} THEN {fact(hashed(t), NoValue, {}, TRUE)}
                        ELSE {fact(n, IF n = SPDX("mit") THEN n ELSE NoValue, {}, TRUE) : n \in found(t)} : t \in read}
        least == CHOOSE u \in urls : \A x \in urls : x = u \/ MCBefore(u, x)
    IN IF named \cup texts # {} THEN named \cup texts
       ELSE IF urls = {} THEN {} ELSE {fact(Meant(least), Meant(least), urls, FALSE)}

\* However licenses are told, spelled and found again, a package has one for each value,
\* meaning and kind of evidence, with exactly the files and URLs that were told for it;
\* files beside a package count only if nothing else was told before; and its text is that
\* of the first place it was told, kept as configured.
LicensesMerged ==
    Ran("licenses") =>
        LET calls == given.calls
            counts == {i \in DOMAIN calls : \/ calls[i].op # "beside"
                                            \/ \A j \in 1 .. i - 1 : TellsOf(calls[j]) = {}}
            facts == UNION {TellsOf(calls[i]) : i \in counts}
            about(l) == {f \in facts : f.identity = Identity(l)}
            earliest(l) == Min({i \in counts : \E f \in TellsOf(calls[i]) : f.identity = Identity(l)})
        IN /\ {Identity(l) : l \in output[1]} = {f.identity : f \in facts}
           /\ Cardinality(output[1]) = Cardinality({f.identity : f \in facts})
           /\ \A l \in output[1] :
                  /\ l.urls = UNION {f.urls : f \in about(l)}
                  /\ l.locations = UNION {f.locations : f \in about(l)}
                  /\ l.contents # NoValue <=>
                         /\ \E f \in TellsOf(calls[earliest(l)]) : f \in about(l) /\ f.text
                         /\ given.include = "all" \/ (given.include = "unknown" /\ l.expression = NoValue)

-------------------------------------------------------------------------------
(* CPEs: packages of every kind, over the names and texts of a small alphabet.    *)
MCAlphabet == <<"3", ",", "-", "_", ".", "/", " ", "*", "?", "a", "foo", "bar", "redis", "js", "py", "ruby", "node",
                "python", "project", "jenkins", "client", "jira", "git", "apache", "org", "the", "plugin",
                "golang.org", "gopkg.in", "google.golang.org", "github.com", "ghostscript", "artifex",
                "lang", "nodejs", "next", "elastic", "stack", "tomcat", "embed", "el", "setup", "for",
                "windows", "gitforwindows", "golang", "google", "dll", "net", "labs">>
Added(type, of, vendor, vendors, products) ==
    [type |-> type, name |-> of, vendor |-> vendor, vendors |-> vendors, products |-> products]
MCAdditions ==
    <<Added("binary", <<"node">>, <<>>, {<<"nodejs">>}, {<<"node", ".", "js">>}),
      Added("npm", <<"redis">>, <<>>, {<<"redis", ".", "js">>}, {}),
      Added("binary", <<"node">>, <<>>, {}, {<<"nodejs">>, <<"node", ".", "js">>}),
      Added("java", <<>>, <<"elastic">>, {<<"elastic", "-", "stack">>}, {}),
      Added("java", <<"foo">>, <<>>, {<<"apache">>}, {<<"foo", "_", "bar">>}),
      Added("apk", <<"foo">>, <<"foo">>, {<<"stack">>}, {})>>
Withheld(type, of, vendors, products) == [type |-> type, name |-> of, vendors |-> vendors, products |-> products]
MCRemovals ==
    <<Withheld("python", <<"redis">>, {<<"redis">>}, {}), Withheld("gem", <<"redis">>, {}, {<<"redis">>}),
      Withheld("npm", <<"redis">>, {<<"redis">>}, {}), Withheld("java", <<"foo", "-", "bar">>, {}, {<<"bar">>})>>
MCDictionary ==
    {[type |-> "npm", name |-> <<"next">>, vendor |-> <<"a">>, product |-> <<"next">>],
     [type |-> "npm", name |-> <<"next">>, vendor |-> <<"a">>, product |-> <<"?">>],
     [type |-> "gem", name |-> <<"bar">>, vendor |-> <<"bar">>, product |-> <<"?">>]}
MCArtifactGroups == (<<"elastic">> :> <<"org", ".", "elastic">>)
MCSiteVendors == ("ruby-lang.org" :> <<"ruby", "-", "lang">>)

Named(type, of, lang, kind, meta) ==
    [type |-> type, name |-> of, language |-> lang, kind |-> kind, meta |-> meta, cpes |-> {}]
Words == {"foo", "redis", "jenkins", "client", "jira", "3"}
PlainNames ==
    {<<>>, <<"*">>, <<"?">>, <<"next">>, <<"-", "foo", "-", "-", "bar", "_">>, <<"node">>, <<"node", ".", "js">>,
     <<"foo", "_", "bar", "-", "a", "_", "3", "-", "redis">>, <<"apache", "-", "foo">>, <<"elastic">>}
    \cup {<<w>> : w \in Words} \cup {<<w, "3">> : w \in Words}
    \cup {<<v, sep, w>> : v \in Words, sep \in Separators, w \in Words}
Persons == {{}, {<<"*">>}, {<<"the", " ", "foo", "-", "bar">>}, {<<"foo", " ", "project">>}, {<<"redis", ",", " ", "labs">>}}
Homepages == {{}, {[site |-> "github", owner |-> <<"foo", "_", "labs">>]},
           {[site |-> "ruby-lang.org", owner |-> <<>>], [site |-> "a", owner |-> <<"bar">>]}}
Gavs == {[group |-> g, artifact |-> a] :
             g \in {<<"org", ".", "apache", ".", "tomcat", ".", "embed">>, <<"org", ".", "bar", ".", "foo", "-", "a">>,
                    <<"foo">>},
             a \in {<<>>, <<"tomcat", "-", "embed", "-", "el">>, <<"org", ".", "foo">>, <<"foo", "-", "bar">>,
                    <<"foo", "-", "a", "-", "plugin">>}}
Vendored == {<<"org", ".", "foo", ".", "plugin">>, <<"the", " ", "bar">>}

PackagesOfKinds ==
    {Named(type, n, "", "none", <<>>) :
        type \in {"binary", "npm", "gem", "jenkins-plugin", "model", "other"}, n \in PlainNames}
    \cup {Named("other", n, lang, "none", <<>>) : lang \in {"ruby", "javascript", "perl", "rust"}, n \in PlainNames}
    \cup {Named("apk", pre \o n, "", "apk", [urls |-> u]) :
              pre \in {<<>>, <<"py", "3", "-">>, <<"ruby", "-">>}, n \in PlainNames \ {<<>>, <<"*">>}, u \in Homepages}
    \cup {Named("python", n, "python", "python", [author |-> x, email |-> y]) :
              n \in {<<"redis">>, <<"python", "-", "foo">>, <<"foo", "_", "bar">>}, x \in Persons, y \in Persons}
    \cup {Named("gem", n, "ruby", "gem", [authors |-> x, urls |-> u]) :
              n \in {<<"redis">>, <<"bar">>, <<"foo">>}, x \in Persons, u \in Homepages}
    \cup {Named("rpm", n, "", "rpm", [vendors |-> x]) : n \in {<<"foo">>, <<"redis", "-", "3">>}, x \in Persons}
    \cup {Named("npm", n, "javascript", "npm", [urls |-> u]) : n \in PlainNames, u \in Homepages}
    \cup {Named("java", n, "java", "java", [pom |-> x, projects |-> y, names |-> v, modules |-> m]) :
              n \in {<<"foo">>, <<"foo", "-", "bar">>, <<"elastic">>, <<"tomcat">>}, x \in Gavs,
              y \in {{}, {[group |-> <<"org", ".", "elastic">>, artifact |-> <<"foo">>]}},
              v \in SUBSET Vendored, m \in {{}, Vendored}}
    \cup {Named("go", <<h>> \o w, "go", "none", <<>>) :
              h \in {"golang.org", "gopkg.in", "google.golang.org", "github.com"},
              w \in {<<>>, <<"/", "foo">>, <<"/", "foo", "-", "a", "/", "bar">>, <<"/", "foo", "/", "bar", "/", "jenkins">>}}
    \cup {Named("dotnet", <<"foo">>, "dotnet", "dotnet", [titles |-> t, companies |-> x]) :
              t \in {{}, {<<"foo", ".", "bar", ".", "dll">>}, {<<"foo", "_", ".", "net">>, <<"bar", "-", "a">>}},
              x \in Persons}
    \cup {Named("binary", n, "", "pe", [company |-> c, product |-> x, description |-> d]) :
              n \in {<<"foo", "3">>, <<"git">>}, c \in {<<>>, <<"artifex">>},
              x \in {<<>>, <<"git">>, <<"a", " ", "ghostscript">>}, d \in {<<>>, <<"git", " ", "setup">>}}
    \cup {Named("wordpress", n, "", "wordpress", [authors |-> x, directory |-> d]) :
              n \in {<<"foo", " ", "bar">>, <<"redis">>}, x \in {{}, {<<"foo", "-", "bar">>}}, d \in {<<"a", "-", "3">>}}

KnownCPE(by) == CPE(<<"a">>, <<"a">>, "any", by)
CpeInputs ==
    [family : {"cpes"}, package : PackagesOfKinds]
    \cup [family : {"cpes"}, package : {[Named(type, n, "", "none", <<>>) EXCEPT !.cpes = known] :
              type \in {"npm", "gem"}, n \in PlainNames,
              known \in {{KnownCPE("generated")}, {KnownCPE("declared")}, {KnownCPE("generated"), KnownCPE("declared")}}}]

CpesRun == output' = <<CPEsOf(given.package)>>

\* The spellings of a candidate, and its beginnings up to the end of a word.
Spellings(c) ==
    {c.value} \cup (IF c.variations THEN {replaced(c.value, {"-"}, "_"), replaced(c.value, {"_"}, "-")} ELSE {})
Beginnings(v) ==
    LET word(i) == i \in DOMAIN v /\ v[i] \notin Separators
        shown == {i \in DOMAIN v : word(i) \/ (word(i + 1) /\ \E j \in 1 .. i : word(j))}
        ends == {i \in shown : word(i) /\ ~word(i + 1)}
        upTo(i) == LET at == SelectSeq([k \in DOMAIN v |-> k], LAMBDA k : k \in shown /\ k <= i)
                   IN [k \in DOMAIN at |-> v[at[k]]]
    IN {upTo(i) : i \in {e \in ends : Cardinality({x \in ends : x <= e}) <= 10}}

\* The vendors that a name and metadata tell.
TellVendors(S, projects) ==
    UNION {Spellings(c) \cup (IF c.subs THEN UNION {Beginnings(v) : v \in Spellings(c)} ELSE {}) :
               c \in {x \in S : x.value \notin Wildcards}}
    \cup projects \cup UNION {Beginnings(v) : v \in projects}
VendorsTold(p) ==
    LET byLanguage(S) ==
            (IF p.language = "go" THEN free(candidateVendorForGo(p.name)) ELSE S)
            \cup free(CASE p.language = "ruby" -> {<<"ruby", "-", "lang">>}
                        [] p.language = "javascript" /\ p.name = <<"node", ".", "js">> -> {<<"nodejs">>}
                        [] OTHER -> {})
        digits(S) == IF p.type = "binary" /\ endsWithNumber(p.name) THEN addDigitVariations(S) ELSE S
    IN TellVendors(digits(vendorsByType(p, byLanguage(candidateProductSet(p)))),
                   IF p.language = "rust" THEN {p.name \o <<"_", "project">>} ELSE {})

\* What a person's or an owner's name comes to, by itself or with a project.
Flat(v) == SelectSeq(v, LAMBDA x : x \notin Separators \cup {" ", "."})
WholeNames(p) ==
    LET people == CASE p.kind = "python" -> p.meta.author \cup p.meta.email
                    [] p.kind = "gem" -> p.meta.authors \cup {u.owner : u \in p.meta.urls} \cup {<<"ruby", "-", "lang">>}
        called == {Flat(IF Head(v) = "the" THEN Tail(v) ELSE v) : v \in people \ {<<>>}}
    IN called \cup {Append(v, "project") : v \in called}

\* The generated CPEs and their vendors and products.
PairsJustified(p, more, vendors, products) ==
    /\ vendors \cap Wildcards = {} /\ products \cap Wildcards = {}
    /\ \A r \in {x \in ToSet(MCRemovals) : x.type = p.type /\ x.name = p.name} :
           r.vendors \cap vendors = {} /\ r.products \cap products = {}
    /\ <<"apache">> \in vendors => vendors = {<<"apache">>}
    /\ Cardinality(vendors) <= MaxCandidates /\ Cardinality(products) <= MaxCandidates
    /\ \A v \in vendors, q \in products :
           CPE(q, v, candidateTargetSw(p), "generated") \in more \/ disallowed(CPE(q, v, "any", ""), p)
    /\ p.type = "jenkins-plugin" => <<"jenkins">> \notin products
    /\ has(p.name, "client") => \A c \in more : c.product # <<"jira">> \/ c.vendor # <<"jira">>

\* The additions of a package, the last where several have one key.
AdditionsOf(p, told) ==
    LET additions == {i \in DOMAIN MCAdditions :
                          /\ MCAdditions[i].type = p.type /\ MCAdditions[i].name \in {p.name, <<>>}
                          /\ MCAdditions[i].vendor \in {<<>>} \cup told}
        key(i) == <<MCAdditions[i].name, MCAdditions[i].vendor>>
    IN UNION {MCAdditions[i].vendors : i \in {x \in additions : \A j \in additions : j > x => key(j) # key(x)}}

\* The vendors are among those that are asked for, and of these only longer ones are missing.
VendorsJustified(p, vendors, told) ==
    LET asked == told \cup AdditionsOf(p, told)
        removed == UNION {r.vendors : r \in {x \in ToSet(MCRemovals) : x.type = p.type /\ x.name = p.name}}
    IN /\ vendors \subseteq asked
       /\ vendors # {} /\ <<"apache">> \notin vendors =>
              \A v \in asked \ removed :
                  v \in vendors \/ ~valid(v) \/ Len(v) > MaxFieldLength \/ \A w \in vendors : Len(w) <= Len(v)
       /\ p.kind \in {"python", "gem"} =>
              \A v \in vendors \ AdditionsOf(p, told) :
                  Flat(v) \in WholeNames(p) \/ v \in VendorsTold([p EXCEPT !.kind = "none"])

\* CPEs that a cataloger knows are all there are, those of the dictionary are used as they
\* are, and otherwise there is one for each vendor and product that the name and metadata
\* tell in some spelling or up to the end of a word, where names of persons, companies
\* and owners are never cut and only spelled otherwise where that is allowed; additions
\* are made and removals kept out, "apache" alone counts where it is one of the vendors, no
\* wildcard is a vendor or product, no plugin or client is Jenkins or Jira, and of too
\* many or too long candidates the shortest are taken.
CpesJustified ==
    Ran("cpes") =>
        LET p == given.package
            more == output[1] \ p.cpes
            known == {d \in MCDictionary : d.type = p.type /\ d.name = p.name /\ d.product # <<"?">>}
        IN /\ p.cpes \subseteq output[1]
           /\ (\E c \in p.cpes : c.source = "declared") => more = {}
           /\ ~(\E c \in p.cpes : c.source = "declared") /\ known # {} =>
                  more = {CPE(d.product, d.vendor, "any", "dictionary") : d \in known}
           /\ (\A c \in more : c.source = "generated") =>
                  /\ PairsJustified(p, more, {c.vendor : c \in more}, {c.product : c \in more})
                  /\ VendorsJustified(p, {c.vendor : c \in more}, VendorsTold(p))

\* Removals are for what is known to be wrong (generate_test.go, "python redis shadows normal
\* redis"), also for the Python package in a package of Alpine, where its vendor comes
\* back with the products.
KnownWrongStayOut ==
    Ran("cpes") /\ given.package.kind = "apk" =>
        LET up == upstream(given.package.name)
        IN \A c \in output[1] : c.vendor \notin findVendorsToRemove(up.type, up.name)

-------------------------------------------------------------------------------
CatalogInit ==
    /\ \/ "dotnet" \in Family /\ given \in Applications
       \/ "maven" \in Family /\ given \in MavenInputs
       \/ "java" \in Family /\ given \in JavaInputs
       \/ "licenses" \in Family /\ given \in LicenseInputs
       \/ "cpes" \in Family /\ given \in CpeInputs
    /\ output = <<>>
CatalogNext ==
    /\ output = <<>>
    /\ given.family = "dotnet" => DotnetRun
    /\ given.family = "maven" => MavenRun
    /\ given.family = "java" => JavaRun
    /\ given.family = "licenses" => LicensesRun
    /\ given.family = "cpes" => CpesRun
    /\ UNCHANGED given
CatalogSpec == CatalogInit /\ [][CatalogNext]_catalogVars
===============================================================================
