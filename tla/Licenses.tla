------------------------------- MODULE Licenses -------------------------------
(***************************************************************************)
(* The licenses of a package (syft/pkg/license.go, license_set.go): values, *)
(* texts and URLs become licenses, and licenses of one identity one, where  *)
(* files and URLs are evidence.                                             *)
(*                                                                         *)
(* What may stand for a license is [kind, of, form]: a name or a URL in one *)
(* of its spellings, a text, a digest of a text, or NoValue.                   *)
(***************************************************************************)
EXTENDS Sequences, SequencesExt

CONSTANTS
    LicenseIDs,      \* names that are SPDX IDs, however spelled
    Expressions,     \* other names that are valid expressions
    Found,         \* the names that the scanner finds in each text
    Before(_, _)     \* the order of values and URLs

Symbol(kind, of, form) == [kind |-> kind, of |-> of, form |-> form]
NoValue == Symbol("none", "", "")
SPDX(of) == Symbol("name", of, "canonical")

\* strings.TrimSpace
trimmed(v) == IF v.form = "padded" THEN [v EXCEPT !.form = "plain"] ELSE v

-------------------------------------------------------------------------------
(* SPDX.                                                                      *)

\* Pages are a sequence of [of, form, id], in the order of a map.  The forms of one of opensource.org count as one, unless they are of several licenses.
openSource(u) == u.form \in {"plain", "older", "newer", "www"}
indexed(index, page) ==
    IF ~openSource(page) \/ page.of \in index.ambiguous THEN index
    ELSE IF \E e \in index.known : e[1] = page.of /\ e[2] # page.id
    THEN [known |-> {e \in index.known : e[1] # page.of}, ambiguous |-> index.ambiguous \cup {page.of}]
    ELSE [index EXCEPT !.known = @ \cup {<<page.of, page.id>>}]
openSourceOrgURLToLicense(pages) == FoldLeft(indexed, [known |-> {}, ambiguous |-> {}], pages).known

\* The IDs for a URL, at most one.
LicenseByURL(pages, u) ==
    LET url == trimmed(u)
        exact == {page.id : page \in {q \in ToSet(pages) : q.of = url.of /\ q.form = url.form}}
    IN IF url.kind # "url" THEN {}
       ELSE IF exact # {} THEN exact
       ELSE {e[2] : e \in {x \in openSourceOrgURLToLicense(pages) : openSource(url) /\ x[1] = url.of}}

trimFileSuffix(v) == IF v.form = "file" THEN [v EXCEPT !.form = "plain"] ELSE v

\* The expression for a value, or NoValue.
ParseExpression(pages, v) ==
    LET found == LicenseByURL(pages, v)
        unsuffixed == LicenseByURL(pages, trimFileSuffix(v))
    IN IF v.kind = "name" /\ v.of \in LicenseIDs THEN SPDX(v.of)
       ELSE IF found # {} THEN SPDX(CHOOSE id \in found : TRUE)
       ELSE IF unsuffixed # {} THEN SPDX(CHOOSE id \in unsuffixed : TRUE)
       ELSE IF v.kind = "name" /\ v.of \in Expressions THEN v ELSE NoValue

-------------------------------------------------------------------------------
(* LicenseSet.                                                                *)

License(value, expression, type, contents, urls, locations) ==
    [value |-> value, expression |-> expression, type |-> type,
     contents |-> contents, urls |-> urls, locations |-> locations]

\* What artifact.IDByHash sees of a license.
Identity(l) == <<l.value, l.expression, l.type>>
EmptyLicense(l) == l.value = NoValue /\ l.expression = NoValue /\ l.contents = NoValue /\ l.urls = {}

\* Mutation: the URLs of the second are not taken over.
MutMerge(s, l) == [s EXCEPT !.locations = @ \cup l.locations]

Merge(s, l) == [s EXCEPT !.urls = @ \cup l.urls, !.locations = @ \cup l.locations]

put(S, l) ==
    IF EmptyLicense(l) THEN S
    ELSE IF \E s \in S : Identity(s) = Identity(l)
    THEN {IF Identity(s) = Identity(l) THEN Merge(s, l) ELSE s : s \in S}
    ELSE S \cup {l}

\* Add
AddTo(S, ls) == FoldLeft(put, S, ls)

\* The first of ToSlice: the constructors of single licenses take no other.
firstOf(S) == {l \in S : \A s \in S : s = l \/ Before(l.value, s.value)}

-------------------------------------------------------------------------------
(* licenseBuilder: [values, texts, urls, locations, type], texts as they are read. *)

excerpt(t, name) == [t EXCEPT !.form = name.of]
fromText(b, t) == License(Symbol("hash", t.of, t.form), NoValue, b.type, t, {}, b.locations)

\* A text that cannot be read gives nothing.  Without a scanner the digest is of the
\* trimmed text, and so are its contents.
buildFromContents(b, t, scanning, pages) ==
    IF t.form = "unreadable" THEN <<>>
    ELSE IF ~scanning THEN <<fromText(b, trimmed(t))>>
    ELSE IF Found[t.of] = {} THEN <<fromText(b, t)>>
    ELSE SetToSeq({License(name, ParseExpression(pages, name), b.type, excerpt(t, name), {}, b.locations) :
                       name \in Found[t.of]})

fromValue(b, v, pages) ==
    License(trimmed(v), ParseExpression(pages, v), b.type, NoValue, b.urls, b.locations)

\* From URLs alone: the first one may be that of a license.
fromURLs(b, pages) ==
    LET one == CHOOSE u \in b.urls : \A x \in b.urls : x = u \/ Before(u, x)
        ids == LicenseByURL(pages, one)
        id == IF ids = {} THEN NoValue ELSE SPDX(CHOOSE i \in ids : TRUE)
    IN License(id, id, b.type, NoValue, b.urls, b.locations)

\* A value of several lines is a text.  URLs count where nothing else gives a license.
Build(given, scanning, pages) ==
    LET b == [given EXCEPT !.urls = {trimmed(u) : u \in {x \in @ : x.form # "invalid"}}]
        isText(v) == v.kind = "text"
        named == SelectSeq(b.values, LAMBDA v : v # NoValue /\ ~isText(v))
        texts == b.texts \o SelectSeq(b.values, isText)
        S == AddTo({}, [i \in DOMAIN named |-> fromValue(b, named[i], pages)]
                       \o FlattenSeq([i \in DOMAIN texts |-> buildFromContents(b, texts[i], scanning, pages)]))
    IN IF S = {} /\ b.urls # {} THEN AddTo({}, <<fromURLs(b, pages)>>) ELSE S

\* NewLicenseFromFields: a URL may give the value that is missing.
NewLicenseFromFields(given, scanning, pages) ==
    LET ids == UNION {LicenseByURL(pages, u) : u \in given.urls}
    IN firstOf(Build(IF given.values = <<NoValue>> /\ ids # {}
                     THEN [given EXCEPT !.values = <<SPDX(CHOOSE id \in ids : TRUE)>>] ELSE given,
                     scanning, pages))

-------------------------------------------------------------------------------
(* The licenses of a package.                                                 *)

\* RelativeToPackage: license files beside a package count if it has no license.
RelativeToPackage(S, files, scanning, pages) ==
    IF S # {} THEN S
    ELSE AddTo({}, FlattenSeq([i \in DOMAIN files |-> SetToSeq(Build(files[i], scanning, pages))]))

\* applyLicenseContentRules
ContentRules(S, include) ==
    AddTo({}, SetToSeq({IF \/ include = "all"
                           \/ include = "unknown" /\ l.expression = NoValue
                        THEN l ELSE [l EXCEPT !.contents = NoValue] : l \in S}))
===============================================================================
