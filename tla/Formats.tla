------------------------------ MODULE Formats ------------------------------
(***************************************************************************)
(* The formats an SBOM can be written in and read back from, and what a    *)
(* sequence of conversions ("syft convert", or another tool reading and    *)
(* writing syft's documents) makes of one.  An SBOM is reduced to its      *)
(* packages, the coordinates its file maps know, its relationships and the *)
(* kind of its source; a document to its elements and the references       *)
(* between them.                                                           *)
(*                                                                         *)
(* Every decoder keeps the identifier it reads as the package's ID and     *)
(* every encoder derives an identifier from that ID, so an ID carries the  *)
(* marks of the formats it went through: it is a sequence whose last item  *)
(* is the fingerprint of the package, or of the file's coordinates.        *)
(***************************************************************************)
EXTENDS Naturals, Sequences, FiniteSets

CONSTANTS
    WithPurl,          \* the fingerprints of the packages that have a package URL
    MaxConversions     \* the bound on the length of a sequence of conversions

ASSUME MaxConversionsAssumption == MaxConversions \in Nat

VARIABLES
    original,          \* the SBOM the conversions start from
    sbom,              \* the SBOM in memory
    doc,               \* the document it was last written to, or NoDocument
    path               \* the formats written so far, in order

formatVars == <<original, sbom, doc, path>>

Format == {"spdx-2.2", "spdx-2.3", "cyclonedx", "syft-json"}
Spdx == {"spdx-2.2", "spdx-2.3"}
NoDocument == [format |-> "none"]

\* What a relationship can link.  A file is Coordinates in an SBOM syft
\* built, and a Location in one read from SPDX; "relative" paths have lost
\* their leading slash.
Pkg(id, of) == [kind |-> "package", id |-> id, of |-> of]
FileCoordinates(file, form) == [kind |-> "coordinates", of |-> file, form |-> form]
FileLocation(file, form) == [kind |-> "location", of |-> file, form |-> form]
SourceElement == [kind |-> "source", of |-> "source"]

IsFile(e) == e.kind \in {"coordinates", "location"}

Ident(e) == CASE e.kind = "package" -> e.id
           [] e.kind = "source" -> <<"source">>
           [] OTHER -> <<e.form, e.of>>

Relationship(type, from, to) == [type |-> type, from |-> from, to |-> to]

\* Every coordinate the file maps know or a relationship ends in; the type
\* switch misses Locations.
AllCoordinates(s) ==
    s.files \cup {e \in UNION {{r.from, r.to} : r \in s.relationships} : e.kind = "coordinates"}

-----------------------------------------------------------------------------
\* SPDX

\* A character SPDX does not allow in an element ID becomes a dash: of the
\* marks of the formats, a package URL's has some.
SanitizeElementID(id) == [i \in DOMAIN id |-> IF id[i] = "pkg:" THEN "pkg-" ELSE id[i]]

\* Only a package and a Coordinates get the prefix of their elements; a
\* Location falls through to its fingerprint.
toSPDXID(e) ==
    CASE e.kind = "package" ->
           SanitizeElementID(IF Head(e.id) = "Package-" THEN e.id ELSE <<"Package-">> \o e.id)
      [] e.kind = "coordinates" -> <<"File-">> \o Ident(e)
      [] OTHER -> Ident(e)

DocumentID == <<"DOCUMENT">>

\* What each type is written as; the comment tells the two OTHERs apart.
Lookup == [t \in {"contains", "dependency-of", "ownership-by-file-overlap", "evident-by"} |->
             CASE t = "contains" -> <<"CONTAINS", "">>
               [] t = "dependency-of" -> <<"DEPENDENCY_OF", "">>
               [] OTHER -> <<"OTHER", t>>]

SpdxRelationship(a, type, comment, b) == [a |-> a, type |-> type, comment |-> comment, b |-> b]

toSpdxRelationships(s) ==
    {SpdxRelationship(toSPDXID(r.from), Lookup[r.type][1], Lookup[r.type][2], toSPDXID(r.to)) :
        r \in {r \in s.relationships : r.type \in DOMAIN Lookup /\ r.from.kind = "package"}}

RootPrefix == [image |-> "Image", directory |-> "Directory", file |-> "File", snap |-> "Snap", none |-> "Unknown"]
RootPurpose(prefix) == CASE prefix \in {"Image", "Snap"} -> "CONTAINER"
                         [] prefix \in {"Directory", "File"} -> "FILE"
                         [] prefix = "Unknown" -> "OTHER"
                         [] OTHER -> ""

\* SPDX 2.1 and 2.2 have no purpose, and the conversion to them drops it.
toRootPackage(s, format) ==
    LET prefix == RootPrefix[s.source]
    IN  [id |-> <<"DocumentRoot-", prefix>>, of |-> "root",
         purpose |-> IF format = "spdx-2.2" THEN "" ELSE RootPurpose(prefix)]

toSpdxDocument(s, format) ==
    LET root == toRootPackage(s, format)
        packages == {[id |-> toSPDXID(p), of |-> p.of, purpose |-> ""] : p \in s.packages}
    IN  [format |-> format,
         packages |-> packages \cup {root},
         files |-> {[id |-> toSPDXID(c), of |-> c.of] : c \in AllCoordinates(s)},
         relationships |-> toSpdxRelationships(s)
             \cup {SpdxRelationship(root.id, "CONTAINS", "", p.id) : p \in packages}
             \cup {SpdxRelationship(DocumentID, "DESCRIBES", "", root.id)}]

findRootPackages(d) ==
    {p \in d.packages : \E r \in d.relationships :
        r.a = DocumentID /\ r.type = "DESCRIBES" /\ r.b = p.id}

SourceOfRoot(prefix) == CASE prefix \in {"Image", "Snap"} -> "image"
                          [] prefix = "Directory" -> "directory"
                          [] prefix = "File" -> "file"
                          [] OTHER -> "none"

\* Mutation: a root package without a purpose is not taken for the source.
MutRootPurposeOf(root, prefix) == root.purpose

\* The type syft puts in the root's ID stands for a purpose the version lacks.
RootPurposeOf(root, prefix) == IF root.purpose = "" THEN RootPurpose(prefix) ELSE root.purpose

\* The one package the document describes stands for the source: it leaves
\* the packages with every relationship it is in.
extractSource(d) ==
    LET roots == findRootPackages(d)
        root == CHOOSE p \in roots : TRUE
        prefix == IF root.id[1] = "DocumentRoot-" THEN root.id[2] ELSE ""
        purpose == RootPurposeOf(root, prefix)
    IN  IF Cardinality(roots) # 1 \/ purpose = "" \/ (purpose = "OTHER" /\ prefix # "Unknown")
        THEN [source |-> "none", doc |-> d]
        ELSE [source |-> SourceOfRoot(prefix),
              doc |-> [d EXCEPT !.packages = @ \ {root},
                                !.relationships = {r \in @ : root.id \notin {r.a, r.b}}]]

\* The types a relationship of two elements is read back as.
ReadAs(r, b) ==
    {t \in (IF IsFile(b) THEN {"contains", "evident-by"}
            ELSE {"contains", "dependency-of", "ownership-by-file-overlap"}) :
        <<r.type, r.comment>> = Lookup[t]}

ReadBetween(r, from, to) == {Relationship(t, from, to) : t \in ReadAs(r, to)}

fromSpdxDocument(document) ==
    LET extracted == extractSource(document)
        d == extracted.doc
        packages == {Pkg(p.id, p.of) : p \in d.packages}
        files == {[id |-> f.id, location |-> FileLocation(f.of, "relative")] : f \in d.files}
        Elements(id) == {p \in packages : p.id = id}
            \cup {f.location : f \in {f \in files : f.id = id}}
    IN  [packages |-> packages,
         files |-> {FileCoordinates(f.location.of, "relative") : f \in files},
         relationships |-> UNION {UNION {ReadBetween(r, from, to) :
             from \in Elements(r.a) \cap packages, to \in Elements(r.b)} : r \in d.relationships},
         source |-> extracted.source]

-----------------------------------------------------------------------------
\* CycloneDX

\* The package URL, with the ID as a qualifier, or the ID alone.
DeriveBomRef(p) == IF p.of \in WithPurl THEN <<"pkg:">> \o p.id ELSE p.id

\* Mutation: the ends of a dependency are swapped.
MutToDependencies(s) ==
    {[ref |-> DeriveBomRef(r.from), dependsOn |-> DeriveBomRef(r.to)] :
        r \in {r \in s.relationships : /\ r.type = "dependency-of"
                                       /\ r.from.kind = "package"
                                       /\ r.to.kind = "package"}}

\* Only dependencies between packages are expressible; a document's entry is
\* the element a dependency is of, with the dependency.
toDependencies(s) ==
    {[ref |-> DeriveBomRef(r.to), dependsOn |-> DeriveBomRef(r.from)] :
        r \in {r \in s.relationships : /\ r.type = "dependency-of"
                                       /\ r.from.kind = "package"
                                       /\ r.to.kind = "package"}}

\* The component of the metadata: a snap has none.
toBomDescriptorComponent(s) ==
    CASE s.source = "image" -> "container"
      [] s.source \in {"directory", "file"} -> "file"
      [] OTHER -> "none"

toCycloneDX(s) ==
    [format |-> "cyclonedx",
     components |-> {[ref |-> DeriveBomRef(p), of |-> p.of] : p \in s.packages},
     dependencies |-> toDependencies(s),
     component |-> toBomDescriptorComponent(s)]

\* Components for files carry nothing the decoder reads.
fromCycloneDX(d) ==
    LET packages == {Pkg(c.ref, c.of) : c \in d.components}
        At(ref) == {p \in packages : p.id = ref}
    IN  [packages |-> packages,
         files |-> {},
         relationships |-> UNION {{Relationship("dependency-of", from, to) :
             from \in At(e.dependsOn), to \in At(e.ref)} : e \in d.dependencies},
         source |-> CASE d.component = "container" -> "image"
                      [] d.component = "file" -> "file"
                      [] OTHER -> "none"]

-----------------------------------------------------------------------------
\* syft-json

toSyftJSON(s) ==
    [format |-> "syft-json",
     artifacts |-> {[id |-> Ident(p), of |-> p.of] : p \in s.packages},
     files |-> {[id |-> Ident(c), location |-> c] : c \in AllCoordinates(s)},
     relationships |-> {[parent |-> Ident(r.from), child |-> Ident(r.to), type |-> r.type] : r \in s.relationships},
     source |-> s.source]

\* The types the decoder knows: described-by, which the SBOM cataloger
\* makes, is not one of them.
KnownTypes == {"ownership-by-file-overlap", "contains", "dependency-of", "evident-by"}

fromSyftJSON(d) ==
    LET packages == {Pkg(a.id, a.of) : a \in d.artifacts}
        Elements(id) == {e \in packages \cup {SourceElement} \cup {f.location : f \in d.files} : Ident(e) = id}
    IN  [packages |-> packages,
         files |-> {f.location : f \in d.files},
         relationships |-> UNION {{Relationship(r.type, from, to) :
             from \in Elements(r.parent), to \in Elements(r.child)} :
                 r \in {r \in d.relationships : r.type \in KnownTypes}},
         source |-> d.source]

-----------------------------------------------------------------------------
Encode(format) ==
    /\ doc = NoDocument
    /\ Len(path) < MaxConversions
    /\ doc' = CASE format \in Spdx -> toSpdxDocument(sbom, format)
                [] format = "cyclonedx" -> toCycloneDX(sbom)
                [] OTHER -> toSyftJSON(sbom)
    /\ path' = Append(path, format)
    /\ UNCHANGED <<original, sbom>>

Decode ==
    /\ doc # NoDocument
    /\ sbom' = CASE doc.format \in Spdx -> fromSpdxDocument(doc)
                 [] doc.format = "cyclonedx" -> fromCycloneDX(doc)
                 [] OTHER -> fromSyftJSON(doc)
    /\ doc' = NoDocument
    /\ UNCHANGED <<original, path>>

FormatsNext == (\E format \in Format : Encode(format)) \/ Decode
=============================================================================
