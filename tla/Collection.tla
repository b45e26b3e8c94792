------------------------------ MODULE Collection ------------------------------
(***************************************************************************)
(* pkg.Collection (syft/pkg/collection.go): the package catalog of an SBOM.*)
(* Packages are held by fingerprint (byID) beside three secondary indexes: *)
(* by name, by type and by path.  A secondary index maps a key to an       *)
(* orderedIDSet: a slice of IDs in insertion order which, once it has      *)
(* grown past a threshold, is shadowed by a hash set used for membership.  *)
(*                                                                         *)
(* Every exported operation runs under c.lock, so each is one action; the  *)
(* loop of Delete is unfolded into one step per ID, and `deleting` (the    *)
(* IDs the loop has still to visit) keeps every other writer out, as the   *)
(* held lock does.                                                         *)
(***************************************************************************)
EXTENDS Integers, Sequences, SequencesExt

CONSTANTS
    ID,           \* fingerprints (artifact.ID)
    NoID,         \* the empty fingerprint ""
    Name, Type,   \* package names and package types
    Path,         \* real and access paths
    NoPath,       \* the empty path ""
    Package,      \* the packages callers add
    Nil,          \* a map that has not been made
    Threshold,    \* orderedIDSetIndexThreshold (16 in the code)
    MaxDelete     \* bound: the most IDs one Delete call names

AnyID == ID \cup {NoID}
Location == [real : Path \cup {NoPath}, access : Path \cup {NoPath}]

\* What the collection looks at in a package: its fingerprint, the fingerprint
\* SetID would compute (NoID when hashing fails), and what it is indexed by.
PackageRecord == [id : AnyID, hash : AnyID, name : Name, type : Type,
                  locs : SUBSET Location]

ASSUME PackageAssumption == Package \subseteq PackageRecord
ASSUME ThresholdAssumption == Threshold \in Nat
ASSUME NilAssumption == \A S \in SUBSET AnyID : Nil # S

VARIABLES
    byID,                               \* fingerprint -> package, for stored ones
    idsByName, idsByType, idsByPath,    \* key -> orderedIDSet
    deleting                            \* IDs a running Delete has yet to visit

vars == <<byID, idsByName, idsByType, idsByPath, deleting>>

-------------------------------------------------------------------------------
(* orderedIDSet.  A key missing from a Go map reads as the zero value, so    *)
(* the maps are total and a missing key is Empty.                            *)

Empty == [slice |-> <<>>, index |-> Nil]

contains(s, id) == IF s.index # Nil THEN id \in s.index ELSE id \in ToSet(s.slice)

\* The index is built from the slice by the append that crosses the threshold.
add(s, id) ==
    IF contains(s, id) THEN s
    ELSE LET slice == Append(s.slice, id)
         IN [slice |-> slice,
             index |-> IF s.index # Nil THEN s.index \cup {id}
                       ELSE IF Len(slice) > Threshold THEN ToSet(slice)
                       ELSE Nil]

firstAt(slice, id) ==
    CHOOSE i \in DOMAIN slice : slice[i] = id /\ \A j \in 1..(i-1) : slice[j] # id

\* Mutations of delete: the hash set keeps the ID; the last ID takes its place.
MutDeleteKeepsIndex(s, id) ==
    IF id \notin ToSet(s.slice) THEN s
    ELSE [s EXCEPT !.slice = RemoveAt(s.slice, firstAt(s.slice, id))]

MutDeleteSwapsLast(s, id) ==
    IF id \notin ToSet(s.slice) THEN s
    ELSE [slice |-> Front([s.slice EXCEPT ![firstAt(s.slice, id)] = Last(s.slice)]),
          index |-> IF s.index = Nil THEN Nil ELSE s.index \ {id}]

\* The index survives a slice that shrinks below the threshold; it goes away
\* only with the key, when the slice is empty (delete...FromIndex).
delete(s, id) ==
    IF id \notin ToSet(s.slice) THEN s
    ELSE [slice |-> RemoveAt(s.slice, firstAt(s.slice, id)),
          index |-> IF s.index = Nil THEN Nil ELSE s.index \ {id}]

deleteFromIndex(s, id) ==
    IF delete(s, id).slice = <<>> THEN Empty ELSE delete(s, id)

PathsOf(locs) == (UNION {{l.real, l.access} : l \in locs}) \ {NoPath}

addPathsToIndex(p) ==
    [x \in Path |-> IF x \in PathsOf(p.locs) THEN add(idsByPath[x], p.id)
                    ELSE idsByPath[x]]

\* Mutation: a deletion forgets the access paths.
MutDeleteRealPathsOnly(p) ==
    [x \in Path |-> IF x \in {l.real : l \in p.locs} THEN deleteFromIndex(idsByPath[x], p.id)
                    ELSE idsByPath[x]]

deletePathsFromIndex(p) ==
    [x \in Path |-> IF x \in PathsOf(p.locs) THEN deleteFromIndex(idsByPath[x], p.id)
                    ELSE idsByPath[x]]

-------------------------------------------------------------------------------
Init ==
    /\ byID = <<>>
    /\ idsByName = [n \in Name |-> Empty]
    /\ idsByType = [t \in Type |-> Empty]
    /\ idsByPath = [x \in Path |-> Empty]
    /\ deleting = <<>>

\* add: a package without a fingerprint gets one; the caller's copy does not.
Identified(p) == [p EXCEPT !.id = IF p.id = NoID THEN p.hash ELSE p.id]

addToIndex(p) ==
    /\ p.id \notin DOMAIN byID
    /\ byID' = [id \in DOMAIN byID \cup {p.id} |-> IF id = p.id THEN p ELSE byID[id]]
    /\ idsByName' = [idsByName EXCEPT ![p.name] = add(@, p.id)]
    /\ idsByType' = [idsByType EXCEPT ![p.type] = add(@, p.id)]
    /\ idsByPath' = addPathsToIndex(p)

\* merge: the record already stored keeps its name and type, and gains locations.
\* Licenses, CPEs and PURL, which no index depends on, are left out.
mergePackage(p) ==
    /\ p.id \in DOMAIN byID
    /\ byID' = [byID EXCEPT ![p.id].locs = @ \cup p.locs]
    /\ idsByPath' = addPathsToIndex(p)
    /\ UNCHANGED <<idsByName, idsByType>>

Add(p) ==
    /\ deleting = <<>>
    /\ addToIndex(Identified(p)) \/ mergePackage(Identified(p))
    /\ UNCHANGED deleting

Delete(ids) ==
    /\ deleting = <<>>
    /\ deleting' = ids
    /\ UNCHANGED <<byID, idsByName, idsByType, idsByPath>>

\* One turn of Delete's loop, for an ID that is stored.
deleteStored ==
    /\ deleting # <<>>
    /\ Head(deleting) \in DOMAIN byID
    /\ LET p == byID[Head(deleting)] IN
        /\ byID' = [id \in DOMAIN byID \ {p.id} |-> byID[id]]
        /\ idsByName' = [idsByName EXCEPT ![p.name] = deleteFromIndex(@, p.id)]
        /\ idsByType' = [idsByType EXCEPT ![p.type] = deleteFromIndex(@, p.id)]
        /\ idsByPath' = deletePathsFromIndex(p)
    /\ deleting' = Tail(deleting)

\* An ID that is not stored makes Delete return: the IDs after it are kept.
deleteMissing ==
    /\ deleting # <<>>
    /\ Head(deleting) \notin DOMAIN byID
    /\ deleting' = <<>>
    /\ UNCHANGED <<byID, idsByName, idsByType, idsByPath>>

DeleteArgs == UNION {[1..n -> AnyID] : n \in 1..MaxDelete}

Next ==
    \/ \E p \in Package : Add(p)
    \/ \E ids \in DeleteArgs : Delete(ids)
    \/ deleteStored
    \/ deleteMissing

Spec == Init /\ [][Next]_vars

-------------------------------------------------------------------------------
(* Queries.                                                                  *)

packages(ids) ==
    LET known == SelectSeq(ids, LAMBDA i : i \in DOMAIN byID)
    IN [k \in DOMAIN known |-> byID[known[k]]]

PackagesByPath(x) == packages(idsByPath[x].slice)
PackagesByName(n) == packages(idsByName[n].slice)

-------------------------------------------------------------------------------
(* Properties.                                                               *)

OrderedIDSet == [slice : Seq(AnyID), index : (SUBSET AnyID) \cup {Nil}]

\* Type invariant.
TypeOK ==
    /\ byID = [id \in DOMAIN byID |-> byID[id]]
    /\ DOMAIN byID \subseteq AnyID
    /\ \A id \in DOMAIN byID : byID[id] \in PackageRecord /\ byID[id].id = id
    /\ idsByName \in [Name -> OrderedIDSet]
    /\ idsByType \in [Type -> OrderedIDSet]
    /\ idsByPath \in [Path -> OrderedIDSet]
    /\ deleting \in Seq(AnyID)

\* Slice and hash set of an orderedIDSet answer membership alike, and no ID is
\* listed twice: enumerating a set never yields a package twice.
WellFormed(s) ==
    /\ \A i, j \in DOMAIN s.slice : s.slice[i] = s.slice[j] => i = j
    /\ s.index # Nil => s.index = ToSet(s.slice)
    /\ s.index = Nil => Len(s.slice) <= Threshold

SetsWellFormed ==
    /\ \A n \in Name : WellFormed(idsByName[n])
    /\ \A t \in Type : WellFormed(idsByType[t])
    /\ \A x \in Path : WellFormed(idsByPath[x])

\* The secondary indexes list exactly the stored packages that carry the key,
\* through merges that add locations to a stored package and deletions that
\* find the keys of a package from its merged record.
IndexesAgree ==
    /\ \A n \in Name : ToSet(idsByName[n].slice) = {id \in DOMAIN byID : byID[id].name = n}
    /\ \A t \in Type : ToSet(idsByType[t].slice) = {id \in DOMAIN byID : byID[id].type = t}
    /\ \A x \in Path : ToSet(idsByPath[x].slice) = {id \in DOMAIN byID : x \in PathsOf(byID[id].locs)}

\* What callers rely on: a query by path or by name returns every package
\* stored under that key, once each.
QueriesComplete ==
    /\ \A x \in Path :
        LET found == PackagesByPath(x) IN
        /\ ToSet(found) = {p \in {byID[id] : id \in DOMAIN byID} : x \in PathsOf(p.locs)}
        /\ Len(found) = Len(idsByPath[x].slice)
    /\ \A n \in Name :
        ToSet(PackagesByName(n)) = {p \in {byID[id] : id \in DOMAIN byID} : p.name = n}

\* The order in which the by-path index reports two packages never changes while
\* both stay, whatever is deleted around them and whenever the hash set is built.
Before(s, a, b) == \E i, j \in DOMAIN s : i < j /\ s[i] = a /\ s[j] = b

OrderKept ==
    \A x \in Path : \A a, b \in AnyID :
        /\ Before(idsByPath[x].slice, a, b)
        /\ {a, b} \subseteq ToSet(idsByPath[x].slice')
        => Before(idsByPath[x].slice', a, b)

OrderStable == [][OrderKept]_vars
===============================================================================
