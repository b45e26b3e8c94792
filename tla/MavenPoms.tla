------------------------------ MODULE MavenPoms -------------------------------
(* Packages of Maven projects (syft/pkg/cataloger/java): what a pom leaves out or *)
(* writes as ${property} is looked for in itself, its parents and the poms it     *)
(* imports, which are found by relative path, among the poms of the scan and in   *)
(* repositories (internal/maven/resolver.go); then each pom is a package and its  *)
(* dependencies are (parse_pom_xml.go).                                           *)
(*                                                                                *)
(* An expression is a text, a reference to one property, or left out.  A pom is a *)
(* record: "file" tells poms apart, "located" says that the resolver knows where  *)
(* its file is.  A resolver is a record: "poms" are the files of the scan, "tree" *)
(* the files at the end of relative paths, "repository" the poms that a local or  *)
(* remote repository would give, "resolved" the poms found so far, by ID.         *)
(* Operators return their result "v", whether it is no error, "ok", and the       *)
(* resolver afterwards, "S".                                                      *)
EXTENDS Naturals, Sequences, SequencesExt, TLC

Text(value) == [kind |-> "text", of |-> value]
Ref(property) == [kind |-> "ref", of |-> property]
None == [kind |-> "none", of |-> ""]
Undefined == [kind |-> "undefined", of |-> ""]

NoPom == [file |-> "none"]
HasParent(pom) == pom.parent # <<>>
ParentOf(pom) == pom.parent[1]

MavenID(group, artifact, version) == [group |-> group, artifact |-> artifact, version |-> version]
Valid(id) == "" \notin {id.group, id.artifact, id.version}

Good(v, S) == [v |-> v, ok |-> TRUE, S |-> S]
Bad(v, S) == [v |-> v, ok |-> FALSE, S |-> S]
Known(S, id, pom) == [S EXCEPT !.resolved = (id :> pom) @@ @]
TooDeep(S, depth) == S.maxDepth > 0 /\ depth > S.maxDepth

\* What is made of a result.  (A LET would do, but that it is unfolded wherever it is used.)
With(r, use(_)) == use(r)

\* The result if it has a value, else what is tried next; an error ends it, or does not.
ElseTry(r, next(_)) == IF r.v # "" THEN r ELSE next(r.S)
ElseOnly(r, next(_)) == IF r.ok THEN ElseTry(r, next) ELSE r

RECURSIVE resolveProperty(_, _, _, _), searchProperties(_, _, _, _, _, _, _, _),
          resolveAll(_, _, _, _), resolveParent(_, _, _), resolveID(_, _, _)

-------------------------------------------------------------------------------
(* Properties.  "context" is the sequence of poms that are being resolved, the    *)
(* project first; "names" are the properties that are being resolved.             *)

resolveExpression(S, context, e, names) ==
    IF e.kind = "ref" THEN resolveProperty(S, context, e.of, names) ELSE Good(e.of, S)

\* One expression after the other: what each comes to, none being an error.
resolveAll(S, context, expressions, names) ==
    IF expressions = <<>> THEN Good(<<>>, S)
    ELSE With(resolveExpression(S, context, expressions[1], names), LAMBDA value :
         With(resolveAll(value.S, context, Tail(expressions), names), LAMBDA rest :
         Good(<<value.v>> \o rest.v, rest.S)))

IDOf(values) == MavenID(values[1], values[2], values[3])

\* resolveProjectProperty: of what a pom leaves out only the version is taken from its
\* parent; the case for the group compares with a tag that does not exist.
projectProperty(pom, name) ==
    LET defined(e) == IF e = None THEN Undefined ELSE e
    IN CASE name = "project.version" ->
              IF pom.version = None /\ HasParent(pom) THEN defined(ParentOf(pom).version)
              ELSE defined(pom.version)
         [] name = "project.groupId" -> defined(pom.group)
         [] name = "project.parent.version" ->
              IF HasParent(pom) THEN defined(ParentOf(pom).version) ELSE Undefined
         [] OTHER -> None

resolveProperty(S, context, name, names) ==
    LET own == projectProperty(Last(context), name)
    IN IF name \in names \/ own = Undefined THEN Bad("", S)
       ELSE ElseOnly(resolveExpression(S, context, own, names \cup {name}),
                     LAMBDA T : searchProperties(T, context, 1, context[1], 0, {}, name, names \cup {name}))

\* The first pom that has the property, from the i-th of the context through its parents
\* and then from the next.  A pom that was met before ends the way up.
searchProperties(S, context, i, current, depth, met, name, names) ==
    CASE current = NoPom \/ current \in met ->
           IF i = Len(context) THEN Bad("", S)
           ELSE searchProperties(S, context, i + 1, context[i + 1], 0, met, name, names)
      [] TooDeep(S, depth) -> Bad("", S)
      [] name \in DOMAIN current.properties ->
           resolveExpression(S, context, current.properties[name], names)
      [] OTHER ->
           With(resolveParent(S, current, names), LAMBDA parent :
               IF ~parent.ok THEN Bad("", parent.S)
               ELSE searchProperties(parent.S, context, i, parent.v, depth + 1, met \cup {current}, name, names))

-------------------------------------------------------------------------------
(* Poms                                                                           *)

FindPom(S, id) ==
    IF ~Valid(id) THEN Bad(NoPom, S)
    ELSE IF id \in DOMAIN S.resolved THEN Good(S.resolved[id], S)
    ELSE IF id \in DOMAIN S.repository THEN Good(S.repository[id], Known(S, id, S.repository[id]))
    ELSE Bad(NoPom, S)

\* The ID a pom gives its parent, by its own properties.
declaredID(S, pom, names) ==
    LET bare == <<[pom EXCEPT !.parent = <<>>]>>
        parent == ParentOf(pom)
    IN IDOf(resolveAll(S, bare, <<parent.group, parent.artifact, parent.version>>, names).v)

\* findParentPomByRelativePath: the pom is read again, and it is not known yet where it is
\* when its ID is compared, of which only the artifact counts.
byRelativePath(S, pom, id, names) ==
    LET compared(target, T) ==
            LET read == T.poms[T.tree[target]]
            IN With(resolveID(T, <<read>>, names), LAMBDA its :
                   IF its.v.artifact # id.artifact THEN Bad(NoPom, its.S)
                   ELSE LET parent == [read EXCEPT !.located = TRUE]
                        IN Good(parent, Known(its.S, id, parent)))
    IN IF ~pom.located THEN Bad(NoPom, S)
       ELSE With(resolveExpression(S, <<pom>>, ParentOf(pom).relativePath, names), LAMBDA relative :
                IF <<pom.file, relative.v>> \in DOMAIN S.tree
                THEN compared(<<pom.file, relative.v>>, relative.S) ELSE Bad(NoPom, relative.S))

resolveParent(S, pom, names) ==
    IF ~HasParent(pom) THEN Good(NoPom, S)
    ELSE With(declaredID(S, pom, names), LAMBDA id :
             IF id \in DOMAIN S.resolved THEN Good(S.resolved[id], S)
             ELSE With(byRelativePath(S, pom, id, names), LAMBDA found :
                      IF found.ok THEN found ELSE FindPom(found.S, id)))

\* The ID of the last pom of the context; group and version may come from its parent.
resolveID(S, context, names) ==
    LET pom == Last(context)
        orParents(own) ==
            IF ~HasParent(pom) THEN own
            ELSE resolveAll(own.S, context,
                     <<IF pom.group = None THEN ParentOf(pom).group ELSE Text(own.v[1]),
                       Text(own.v[2]),
                       IF pom.version = None THEN ParentOf(pom).version ELSE Text(own.v[3])>>, names)
    IN With(orParents(resolveAll(S, context, <<pom.group, pom.artifact, pom.version>>, names)),
            LAMBDA all : Good(IDOf(all.v), all.S))

ResolveID(S, pom) == resolveID(S, <<pom>>, {})

AddPom(S, file) ==
    LET pom == [S.poms[file] EXCEPT !.located = TRUE]
    IN With(ResolveID(S, pom), LAMBDA id :
           IF Valid(id.v) /\ id.v \notin DOMAIN id.S.resolved THEN Known(id.S, id.v, pom) ELSE id.S)

-------------------------------------------------------------------------------
(* Versions of dependencies                                                       *)

RECURSIVE resolveInheritedVersion(_, _, _, _), fromManaged(_, _, _, _), fromDirect(_, _, _, _)

\* Group and artifact of an element of a pom.
nameOf(S, context, dep) == resolveAll(S, context, <<dep.group, dep.artifact>>, {})

\* The version an element gives to the dependency "wanted", if it is that dependency.
versionFor(S, context, dep, wanted) ==
    With(nameOf(S, context, dep), LAMBDA its :
        IF its.v = wanted THEN resolveExpression(its.S, context, dep.version, {}) ELSE Good("", its.S))

\* The pom that an element imports.
imported(S, context, dep) ==
    With(resolveAll(S, context, <<dep.group, dep.artifact, dep.version>>, {}),
         LAMBDA id : FindPom(id.S, IDOf(id.v)))

\* "deps" are what is left of the managed dependencies of the last pom of the context.  A
\* pom that is imported is searched like a parent; one that is not found is passed over.
fromManaged(S, context, deps, wanted) ==
    LET fromImport(import) == IF import.ok THEN resolveInheritedVersion(import.S, context, import.v, wanted)
                              ELSE Good("", import.S)
        below(T) == IF deps[1].import THEN fromImport(imported(T, context, deps[1])) ELSE Good("", T)
    IN IF deps = <<>> THEN Good("", S)
       ELSE ElseTry(ElseTry(versionFor(S, context, deps[1], wanted), below),
                    LAMBDA T : fromManaged(T, context, Tail(deps), wanted))

fromDirect(S, context, deps, wanted) ==
    IF deps = <<>> THEN Good("", S)
    ELSE ElseTry(versionFor(S, context, deps[1], wanted),
                 LAMBDA T : fromDirect(T, context, Tail(deps), wanted))

\* Of the parent of a pom, if it has one that can be found.
fromParent(S, context, pom, wanted) ==
    With(resolveParent(S, pom, {}), LAMBDA parent :
        IF ~parent.ok THEN Bad("", parent.S)
        ELSE IF parent.v = NoPom THEN Good("", parent.S)
        ELSE resolveInheritedVersion(parent.S, context, parent.v, wanted))

\* Mutation: a pom's own dependencies are asked before its parents.
MutInheritedVersion(S, context, pom, wanted) ==
    LET all == Append(context, pom)
    IN IF TooDeep(S, Len(context)) \/ pom \in ToSet(context) THEN Bad("", S)
       ELSE ElseTry(fromManaged(S, all, pom.managed, wanted), LAMBDA T :
            ElseTry(fromDirect(T, all, pom.dependencies, wanted), LAMBDA U :
            fromParent(U, all, pom, wanted)))

\* What a pom manages, then what its parents give, then its own dependencies.
resolveInheritedVersion(S, context, pom, wanted) ==
    LET all == Append(context, pom)
    IN IF TooDeep(S, Len(context)) \/ pom \in ToSet(context) THEN Bad("", S)
       ELSE ElseTry(fromManaged(S, all, pom.managed, wanted), LAMBDA T :
            ElseOnly(fromParent(T, all, pom, wanted), LAMBDA U :
            fromDirect(U, all, pom.dependencies, wanted)))

ResolveDependencyID(S, pom, dep) ==
    With(nameOf(S, <<pom>>, dep), LAMBDA its :
    With(ElseTry(resolveExpression(its.S, <<pom>>, dep.version, {}),
                 LAMBDA T : resolveInheritedVersion(T, <<>>, pom, its.v)), LAMBDA version :
    Good(MavenID(its.v[1], its.v[2], version.v), version.S)))

-------------------------------------------------------------------------------
(* Licenses of the nearest pom that has any.                                      *)

RECURSIVE resolveLicenses(_, _, _)
resolveLicenses(S, pom, processing) ==
    With(ResolveID(S, pom), LAMBDA id :
        IF id.v \in ToSet(processing) \/ TooDeep(S, Len(processing)) THEN Bad({}, id.S)
        ELSE IF pom.licenses # {} THEN Good(pom.licenses, id.S)
        ELSE With(resolveParent(id.S, pom, {}), LAMBDA parent :
                 IF parent.v = NoPom THEN [parent EXCEPT !.v = {}]
                 ELSE resolveLicenses(parent.S, parent.v, Append(processing, id.v))))

-------------------------------------------------------------------------------
(* The pom cataloger                                                              *)

\* ResolveParent: an ID is made up for a parent that cannot be found.
parentID(S, pom) ==
    LET madeUp(T) ==
            LET values == resolveAll(T, <<pom>>, <<ParentOf(pom).group, ParentOf(pom).artifact,
                                                   ParentOf(pom).version, pom.group>>, {}).v
            IN IF "" \in {values[2], values[3]} THEN <<>>
               ELSE <<MavenID(IF values[1] = "" THEN values[4] ELSE values[1], values[2], values[3])>>
    IN IF ~HasParent(pom) THEN Good(<<>>, S)
       ELSE With(resolveParent(S, pom, {}), LAMBDA parent :
                IF parent.v = NoPom THEN Good(madeUp(parent.S), parent.S)
                ELSE With(ResolveID(parent.S, parent.v), LAMBDA id : Good(<<id.v>>, id.S)))

\* newPackageFromMavenPom
mainPackage(S, pom) ==
    With(ResolveID(S, pom), LAMBDA id :
    With(parentID(id.S, pom), LAMBDA parent :
    With(resolveLicenses(parent.S, pom, <<>>), LAMBDA licenses :
    Good([id |-> id.v, parent |-> parent.v, licenses |-> licenses.v, at |-> pom.file], licenses.S))))

\* newPackageFromDependency: licenses only if the pom of the dependency is found.
dependencyPackage(S, id, file) ==
    LET package(licenses) ==
            Good([id |-> id, parent |-> <<>>, licenses |-> licenses.v, at |-> file], licenses.S)
    IN With(FindPom(S, id), LAMBDA pom :
           package(IF pom.ok THEN resolveLicenses(pom.S, pom.v, <<>>) ELSE Good({}, pom.S)))

\* "st" holds the resolver, the packages by ID ("known") and the results; "to" is the package
\* that the pom belongs to, or nothing.
RECURSIVE collectDependencies(_, _, _, _, _)

\* Mutation: a dependency that is a package already is passed over.
MutCollect(st, to, pom, file, transitive) ==
    LET below(s, package, found) ==
            LET added == [s EXCEPT !.S = found.S, !.known = (package.id :> package) @@ @]
            IN IF transitive /\ found.ok
               THEN collectDependencies(added, <<package>>, found.v, file, transitive) ELSE added
        create(s, id) == With(dependencyPackage(id.S, id.v, file), LAMBDA new :
                             below(s, new.v, FindPom(new.S, id.v)))
        collect(s, dep) ==
            With(ResolveDependencyID(s.S, pom, dep), LAMBDA id :
            With(IF id.v \in DOMAIN s.known THEN s ELSE create(s, id), LAMBDA T :
            IF id.v \in DOMAIN s.known THEN T
            ELSE [T EXCEPT !.packages = @ \cup {T.known[id.v]},
                           !.relationships = @ \cup {[from |-> T.known[id.v], to |-> p] : p \in ToSet(to)}]))
    IN FoldLeft(collect, st, pom.dependencies)

collectDependencies(st, to, pom, file, transitive) ==
    LET below(s, package, found) ==
            LET added == [s EXCEPT !.S = found.S, !.known = (package.id :> package) @@ @]
            IN IF transitive /\ found.ok
               THEN collectDependencies(added, <<package>>, found.v, file, transitive) ELSE added
        create(s, id) == With(dependencyPackage(id.S, id.v, file), LAMBDA new :
                             below(s, new.v, FindPom(new.S, id.v)))
        collect(s, dep) ==
            With(ResolveDependencyID(s.S, pom, dep), LAMBDA id :
            With(IF id.v \in DOMAIN s.known THEN [s EXCEPT !.S = id.S] ELSE create(s, id), LAMBDA T :
            [T EXCEPT !.packages = @ \cup {T.known[id.v]},
                      !.relationships = @ \cup {[from |-> T.known[id.v], to |-> p] : p \in ToSet(to)}]))
    IN FoldLeft(collect, st, pom.dependencies)

\* Catalog: the main packages first, so that dependencies among the poms find them.
CatalogPoms(S, files, transitive) ==
    LET pomOf(file) == [S.poms[file] EXCEPT !.located = TRUE]
        main(st, file) ==
            With(mainPackage(st.S, pomOf(file)), LAMBDA package :
            [st EXCEPT !.S = package.S, !.known = (package.v.id :> package.v) @@ @,
                       !.packages = @ \cup {package.v}])
        depend(st, file) ==
            With(ResolveID(st.S, pomOf(file)), LAMBDA id :
            collectDependencies([st EXCEPT !.S = id.S],
                                IF id.v \in DOMAIN st.known THEN <<st.known[id.v]>> ELSE <<>>,
                                pomOf(file), file, transitive))
        start(T) == [S |-> T, known |-> <<>>, packages |-> {}, relationships |-> {}]
    IN With(FoldLeft(AddPom, S, files), LAMBDA T :
       With(FoldLeft(main, start(T), files), LAMBDA st : FoldLeft(depend, st, files)))
===============================================================================
