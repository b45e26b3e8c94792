----------------------------- MODULE JavaArchives -----------------------------
(* Packages in Java archives (syft/pkg/cataloger/java/archive_parser.go).  The   *)
(* manifest of an archive makes its main package, which takes its identity from  *)
(* a pom that fits the name of the file; the other poms in the archive are       *)
(* packages too, and so is what is found in archives inside it, all of them      *)
(* dependencies of the main package.                                             *)
(*                                                                               *)
(* An archive is a record: "path" tells archives apart; "readable": it and its   *)
(* poms and manifests can be read; "manifest": "none", "several", or one that is *)
(* "good" or "unusable", unparsable or of an instrumented jar; "file": the name  *)
(* of the file and "alike": the names that it begins or ends with, or holds;     *)
(* "named", "version" and "group": what file and manifest say otherwise; "poms": *)
(* for each directory in order, pom.properties and pom.xml if there, with group, *)
(* artifact and version; "nested": archives in it, "extractable": they can all   *)
(* be extracted.                                                                 *)
EXTENDS Naturals, Sequences, FiniteSets, SequencesExt

-------------------------------------------------------------------------------
(* The identity of the main package                                              *)

\* pomPropertiesByParentPath: without version or artifact they do not count.
Listed(archive) ==
    SelectSeq(archive.poms, LAMBDA e : e.properties # <<>>
                                       /\ "" \notin {e.properties[1].artifact, e.properties[1].version})

artifactsOf(archive) == {e.properties[1].artifact : e \in ToSet(Listed(archive))}

artifactIDMatchesFilename(archive, artifact) ==
    IF archive.file \in artifactsOf(archive) THEN artifact = archive.file ELSE artifact \in archive.alike

isExactMatch(archive, properties, project) ==
    project # <<>> /\ (properties.group \in archive.alike \/ properties.artifact = archive.file)

\* Keeps the first match, but for the first with a pom.xml and then one that is exact.
updateMatchIfBetter(archive, best, e) ==
    LET new == [properties |-> e.properties,
                project |-> IF e.project # <<>> THEN e.project ELSE best.project]
    IN IF \/ best.properties = <<>>
          \/ e.project # <<>> /\ (best.project = <<>> \/ isExactMatch(archive, e.properties[1], e.project))
       THEN new ELSE best

findBestPomMatch(archive) ==
    LET match(found, e) ==
            LET best == updateMatchIfBetter(archive, found.best, e)
            IN IF found.exact THEN found
               ELSE [best |-> best, exact |-> isExactMatch(archive, e.properties[1], best.project)]
    IN FoldLeft(match, [best |-> [properties |-> <<>>, project |-> <<>>], exact |-> FALSE],
                SelectSeq(Listed(archive),
                          LAMBDA e : artifactIDMatchesFilename(archive, e.properties[1].artifact))).best

\* discoverMainPackageFromPomInfo: a single pom.xml counts if there are no properties.
mainPom(archive) ==
    LET projects == SelectSeq(archive.poms, LAMBDA e : e.project # <<>>)
    IN IF Listed(archive) = <<>> /\ Len(projects) = 1
       THEN [properties |-> <<>>, project |-> projects[1].project]
       ELSE findBestPomMatch(archive)

\* discoverMainPackage: one package or none.
discoverMainPackage(archive) ==
    LET pom == mainPom(archive)
        known == pom.properties \o pom.project
        earliest(values, default) ==
            LET given == SelectSeq(values, LAMBDA v : v # "") IN IF given = <<>> THEN default ELSE given[1]
    IN IF archive.manifest # "good" THEN <<>>
       ELSE <<[at |-> archive.path, suffix |-> <<>>, group |-> archive.group,
               name |-> earliest([i \in DOMAIN known |-> known[i].artifact], archive.named),
               version |-> earliest([i \in DOMAIN known |-> known[i].version], archive.version),
               properties |-> <<>>, project |-> pom.project, parent |-> <<>>]>>

-------------------------------------------------------------------------------
(* The other poms                                                                *)

groupIDFromJavaMetadata(p) ==
    LET poms == SelectSeq(p.properties \o p.project, LAMBDA pom : pom.group # "")
    IN IF poms = <<>> THEN p.group ELSE poms[1].group

\* The "parent" of a package is left out of its fingerprint.
Fingerprint(p) == [p EXCEPT !.parent = <<>>]

\* newPackageFromMavenData, but for the end: the path says which package of the archive it
\* is, if not the main one.
pomPackage(archive, e, main) ==
    LET pom == e.properties[1]
        same == groupIDFromJavaMetadata(main) = pom.group /\ main.name = pom.artifact /\ main.version = pom.version
    IN [at |-> archive.path, suffix |-> IF same THEN <<>> ELSE <<pom.group, pom.artifact>>, group |-> "",
        name |-> pom.artifact, version |-> pom.version,
        properties |-> e.properties, project |-> e.project, parent |-> <<>>]

\* Mutation: a pom of the main package's name is another package if its version differs.
MutIdentitiesMatch(p, main) ==
    LET key(q) == <<groupIDFromJavaMetadata(q), q.name, q.version>>
    IN key(p) = key(main) \/ p.suffix = main.suffix

packageIdentitiesMatch(p, main) ==
    LET key(q) == <<groupIDFromJavaMetadata(q), q.name, q.version>>
    IN key(p) = key(main) \/ p.suffix = main.suffix \/ p.properties[1].artifact = main.name

updateParentPackage(p, main) ==
    [main EXCEPT !.name = p.name, !.version = p.version,
                 !.properties = IF @ = <<>> THEN p.properties ELSE @]

\* discoverPkgsFromAllMavenFiles: the main package changes along the way.
discoverPkgsFromAllMavenFiles(archive, main) ==
    LET discover(s, e) ==
            LET p == pomPackage(archive, e, s.main)
            IN IF packageIdentitiesMatch(p, s.main) THEN [s EXCEPT !.main = updateParentPackage(p, @)]
               ELSE [s EXCEPT !.others = @ \cup {p}]
    IN FoldLeft(discover, [main |-> main, others |-> {}], Listed(archive))

-------------------------------------------------------------------------------
(* The archive and what is nested in it                                          *)

RECURSIVE parse(_, _)

WithParent(p, to) == IF p.parent = <<>> THEN [p EXCEPT !.parent = to] ELSE p
DependencyOf(p, q) == [from |-> Fingerprint(p), to |-> Fingerprint(q)]

NoPackages == [packages |-> {}, relationships |-> {}]

joinNested(heard, to) ==
    [packages |-> UNION {{WithParent(p, to) : p \in r.packages} : r \in heard},
     relationships |-> UNION {r.relationships : r \in heard}]

\* discoverPkgsFromOpeners: an archive that reports any error gives nothing.
discoverPkgsFromOpeners(archive, to) ==
    joinNested({r \in {parse(a, to) : a \in ToSet(archive.nested)} : ~r.failed}, to)

\* The packages of an archive itself: the main one, if any, and those of other poms.
mainAndOthers(all) ==
    [main |-> {all.main},
     others |-> {[p EXCEPT !.parent = <<Fingerprint(all.main)>>] : p \in all.others}]

ownPackages(archive) ==
    LET found == discoverMainPackage(archive)
    IN IF found = <<>> THEN [main |-> {}, others |-> {}]
       ELSE mainAndOthers(discoverPkgsFromAllMavenFiles(archive, found[1]))

nestedIn(archive, main) ==
    IF archive.extractable
    THEN discoverPkgsFromOpeners(archive, SetToSeq({Fingerprint(p) : p \in main})) ELSE NoPackages

\* finalizePkgs: what is of other poms and what is nested belong to the main package.
finalizeArchive(archive, to, main, others, nested) ==
    [packages |-> main \cup others \cup nested.packages,
     relationships |-> {DependencyOf(p, q) : p \in main, q \in ToSet(to)}
                       \cup {DependencyOf(p, q) : p \in others, q \in main}
                       \cup nested.relationships,
     failed |-> ~archive.extractable \/ main \cup others \cup nested.packages = {}]

parseOwn(archive, to, of) ==
    finalizeArchive(archive, to, of.main, of.others, nestedIn(archive, of.main))

\* "to" is the fingerprint of the main package of the archive around, or nothing.
parse(archive, to) ==
    IF ~archive.readable \/ archive.manifest = "several"
    THEN [packages |-> {}, relationships |-> {}, failed |-> TRUE]
    ELSE parseOwn(archive, to, ownPackages(archive))

parseJavaArchive(archive) == parse(archive, <<>>)

\* parseTarWrappedJavaArchive, parseZipWrappedJavaArchive: a file that only holds archives.
parseWrapped(archive) ==
    IF archive.readable /\ archive.extractable THEN discoverPkgsFromOpeners(archive, <<>>)
    ELSE NoPackages
===============================================================================
