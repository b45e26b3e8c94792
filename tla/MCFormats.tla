------------------------------ MODULE MCFormats ------------------------------
(* Every sequence of conversions of every small SBOM. *)
EXTENDS Formats

CONSTANTS
    Fingerprints,      \* of packages
    FileNames,
    Sboms              \* what the conversions start from

\* The fingerprints of packages, of coordinates and of the source differ, and none is a
\* mark that SPDX replaces.
ASSUME NamesAssumption ==
    /\ "pkg:" \notin Fingerprints
    /\ FileNames \cap Fingerprints = {}
    /\ "source" \notin Fingerprints \cup FileNames

Coordinates == {FileCoordinates(f, "absolute") : f \in FileNames}

\* An SBOM as the catalogers and tasks make it.
Made(s) ==
    /\ s.packages \subseteq {Pkg(<<f>>, f) : f \in Fingerprints} /\ IsFiniteSet(s.packages)
    /\ s.files \subseteq Coordinates
    /\ s.source \in DOMAIN RootPrefix
    /\ \A r \in s.relationships :
        /\ r = Relationship(r.type, r.from, r.to)
        /\ r.from \in s.packages \cup {SourceElement}
        /\ \/ r.to \in s.packages /\ r.type \in {"contains", "dependency-of", "ownership-by-file-overlap"}
           \/ r.to \in Coordinates /\ r.type \in {"contains", "evident-by", "described-by"}

ASSUME SbomsAssumption == \A s \in Sboms : Made(s)

MCWithPurl == {"p"}

One == Pkg(<<"p">>, "p")
Two == Pkg(<<"q">>, "q")
AFile == FileCoordinates("f", "absolute")

\* One relationship of each type and both directions of a dependency.
Candidates == {Relationship("contains", SourceElement, One), Relationship("contains", One, AFile),
               Relationship("evident-by", Two, AFile), Relationship("dependency-of", One, Two),
               Relationship("dependency-of", Two, One),
               Relationship("ownership-by-file-overlap", Two, One),
               Relationship("described-by", One, AFile)}

MCSboms == [packages : {{One, Two}}, files : SUBSET {AFile}, source : DOMAIN RootPrefix,
            relationships : {E \in SUBSET Candidates : Cardinality(E) <= 3}]

FormatsInit ==
    /\ original \in Sboms
    /\ sbom = original
    /\ doc = NoDocument
    /\ path = <<>>

FormatsDone == doc = NoDocument /\ Len(path) = MaxConversions /\ UNCHANGED formatVars

FormatsSpec == FormatsInit /\ [][FormatsNext \/ FormatsDone]_formatVars

-----------------------------------------------------------------------------
\* Every package of the original is in every SBOM read back, once and under
\* an ID of its own, and the element that stands for the source never becomes
\* one, whichever versions of the formats it went through.
PackagesKept ==
    doc = NoDocument =>
        /\ Cardinality(sbom.packages) = Cardinality(original.packages)
        /\ {e.of : e \in sbom.packages} = {e.of : e \in original.packages}
        /\ Cardinality({e.id : e \in sbom.packages}) = Cardinality(original.packages)

\* What the formats are to express of a relationship of the original.
Expresses(format, r) ==
    CASE format \in Spdx -> r.type # "described-by" /\ r.from.kind = "package"
      [] format = "cyclonedx" -> r.type = "dependency-of" /\ r.from.kind = "package" /\ r.to.kind = "package"
      [] OTHER -> r.type # "described-by"

\* A link to a file does not survive being read from SPDX and written to it
\* again, unless syft-json was written in between.
LinkLost(r) ==
    IsFile(r.to) /\ \E i, j \in DOMAIN path :
        /\ i < j
        /\ {path[i], path[j]} \subseteq Spdx
        /\ \A k \in i + 1 .. j - 1 : path[k] # "syft-json"

Facts(E) == {<<r.type, r.from.of, r.to.of>> : r \in E}

\* An SBOM read back holds the relationships of the original that every
\* format it went through expresses, in their direction and with their type,
\* and none that the original did not have.
RelationshipsExact ==
    doc = NoDocument =>
        Facts(sbom.relationships) =
            Facts({r \in original.relationships :
                      ~LinkLost(r) /\ \A i \in DOMAIN path : Expresses(path[i], r)})

\* Every reference of a document is to one of its elements, but for SPDX's
\* relationships to the files of an SBOM that was itself read from SPDX.
ReferencesResolve ==
    CASE doc.format \in Spdx ->
           \A r \in doc.relationships : {r.a, r.b} \subseteq
               {DocumentID} \cup {e.id : e \in doc.packages \cup doc.files}
                   \cup {Ident(r2.to) : r2 \in {r2 \in sbom.relationships : r2.to.kind = "location"}}
      [] doc.format = "cyclonedx" ->
           \A e \in doc.dependencies : {e.ref, e.dependsOn} \subseteq {c.ref : c \in doc.components}
      [] doc.format = "syft-json" ->
           \A r \in doc.relationships : {r.parent, r.child} \subseteq
               {Ident(SourceElement)} \cup {e.id : e \in doc.artifacts \cup doc.files}
      [] OTHER -> TRUE

\* An SBOM read back has the packages of the original and of its relationships those
\* that can be written, whatever formats it went through, and no document on the way
\* refers to what it does not have.
RoundTripExact == PackagesKept /\ RelationshipsExact /\ ReferencesResolve

-----------------------------------------------------------------------------
\* An encode-decode-encode loop through syft-json loses nothing
\* (cmd/syft/internal/test/integration/encode_decode_cycle_test.go:21-26).
SyftJSONLossless ==
    doc = NoDocument /\ (\A i \in DOMAIN path : path[i] = "syft-json") =>
        sbom.relationships = original.relationships
=============================================================================
