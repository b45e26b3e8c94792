--------------------------- MODULE MCBuilderLocks ---------------------------
(* A cataloger adds two packages, a cleanup deletes two others, two tasks       *)
(* enumerate while reading the SBOM and one while writing it.                  *)
EXTENDS BuilderLocks

CONSTANTS p1, p2, p3, p4, adder, deleter, selection, labeler, encoder

Item(op, p) == [op |-> op, package |-> p]

MCBatch == [w \in {adder, deleter} |->
    IF w = adder THEN <<Item("add", p1), Item("add", p2)>>
    ELSE <<Item("delete", p3), Item("delete", p4)>>]

\* The batches are of the kind that the proofs are about.
ASSUME MCBatchesApart == BatchesApart
===============================================================================
