----------------------------- MODULE SparseBuffer -----------------------------
(***************************************************************************)
(* What a spill buffer promises its caller (internal/spillbuf/buffer.go):  *)
(* bytes at the offsets they were written to and nothing anywhere else,    *)
(* until it is closed, and queries that tell so.  Where the bytes are kept *)
(* is not part of it, except that a call that fails may have changed bytes *)
(* past the memory limit that had been written before.                     *)
(***************************************************************************)
EXTENDS Integers

CONSTANTS
    MaxOffset,   \* math.MaxInt64
    MemLimit,
    Byte

VARIABLES content, open, failed,
          answers    \* what the queries return

vars == <<content, open, failed>>

Offset == 0 .. MaxOffset - 1

\* The first offset nobody wrote, and where size bytes within the bound are free.
End(f) == CHOOSE o \in 0 .. MaxOffset : o \notin DOMAIN f /\ 0 .. o - 1 \subseteq DOMAIN f
Gaps(f, size, within) == {at \in 0 .. within - size : (at .. at + size - 1) \cap DOMAIN f = {}}

\* Size is the end of what was written without a gap, reads return the bytes up to
\* there, and FirstGap the first gap that is large enough, if any.
Answers(f, isOpen) ==
    [size |-> End(f),
     read |-> [off \in 0 .. MaxOffset |-> [n \in 1 .. MaxOffset |->
                  [i \in 1 .. (IF off + n <= End(f) THEN n ELSE End(f) - off) |-> f[off + i - 1]]]],
     gap  |-> [size \in 1 .. MaxOffset |-> [within \in 0 .. MaxOffset |->
                  {at \in Gaps(f, size, within) :
                      isOpen /\ \A o \in Gaps(f, size, within) : at <= o}]]]

Init == content = <<>> /\ open = TRUE /\ failed = FALSE

\* The bytes of f where it is defined, those of g elsewhere.
Over(f, g) == [o \in DOMAIN f \cup DOMAIN g |-> IF o \in DOMAIN f THEN f[o] ELSE g[o]]

WriteAt ==
    /\ open /\ UNCHANGED open
    /\ failed' = FALSE
    /\ \E off \in Offset, b \in Byte : \E end \in off + 1 .. MaxOffset :
        content' = Over([o \in off .. end - 1 |-> b], content)

FailToWriteAt ==
    /\ UNCHANGED open
    /\ failed' = TRUE
    /\ \E from \in MemLimit .. MaxOffset, b \in Byte : \E to \in from .. MaxOffset :
        content' = [o \in DOMAIN content |-> IF o \in from .. to - 1 THEN b ELSE content[o]]

Close == open' = FALSE /\ content' = <<>> /\ failed' = FALSE

\* The queries answer for what is there at any time.
Spec == /\ Init
        /\ [][WriteAt \/ FailToWriteAt \/ Close]_vars
        /\ [](answers = Answers(content, open))
===============================================================================
