----------------------------- MODULE MCStructures -----------------------------
(* Two structures in memory, each for itself: "structure" picks the one that is *)
(* used, the other stays empty.                                                 *)
(*                                                                              *)
(* The collection holds three fingerprints, one of them given to two packages   *)
(* that differ in access path (they merge), one given to a package of another   *)
(* name (IDs overridden by a decoder); a package comes without a fingerprint.   *)
EXTENDS Collection, SpillBuf

CONSTANTS a, b, c, n1, n2, t1, t2, x, y

Loc(r, acc) == [real |-> r, access |-> acc]
Pkg(i, h, n, t, ls) == [id |-> i, hash |-> h, name |-> n, type |-> t, locs |-> ls]

MCPackage ==
    { Pkg(a, a, n1, t1, {Loc(x, NoPath)}),
      Pkg(a, a, n1, t1, {Loc(x, y)}),
      Pkg(a, b, n2, t2, {Loc(NoPath, y)}),
      Pkg(b, b, n1, t2, {Loc(x, x), Loc(y, x)}),
      Pkg(NoID, c, n1, t1, {Loc(y, NoPath)}),
      Pkg(NoID, NoID, n2, t2, {}) }

VARIABLE structure

structures == <<structure, vars, bufferVars>>

StructuresInit == structure \in {"collection", "buffer"} /\ Init /\ BufferInit

StructuresNext ==
    \/ structure = "collection" /\ Next /\ UNCHANGED <<structure, bufferVars>>
    \/ structure = "buffer" /\ BufferNext /\ UNCHANGED <<structure, vars>>

StructuresSpec == StructuresInit /\ [][StructuresNext]_structures
===============================================================================
