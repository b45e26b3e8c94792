------------------------------- MODULE SpillBuf -------------------------------
(***************************************************************************)
(* spillbuf.Buffer (internal/spillbuf/buffer.go): a sparse buffer in two   *)
(* tiers, bytes below MemLimit in mem and the others in a temporary file,  *)
(* with the sorted list of the ranges that were written.                   *)
(*                                                                         *)
(* A write repeats one byte: what is stored tells which write stored it.   *)
(***************************************************************************)
EXTENDS Integers, FiniteSets, Sequences, SequencesExt

CONSTANTS
    MaxOffset,   \* math.MaxInt64, the end no write can pass
    MemLimit,    \* memLimit
    MaxLength,   \* bound: the longest write
    Byte,
    Zero,        \* the byte of a region nobody wrote
    NoFile,      \* no spill file yet
    Failures     \* what may fail: "create" the file, "write" to it

ASSUME SpillBufAssumption ==
    /\ MaxOffset \in Nat /\ MemLimit \in 0 .. MaxOffset /\ MaxLength \in Nat \ {0}
    /\ Byte # {} /\ Zero \notin Byte
    /\ \A n \in 0 .. MaxOffset : NoFile \notin [0 .. n - 1 -> Byte \cup {Zero}]
    /\ Failures \subseteq {"create", "write"}

VARIABLES mem, file, written, closed,
          failed     \* whether the last call returned an error

bufferVars == <<mem, file, written, closed, failed>>

Minimum(a, b) == IF a < b THEN a ELSE b
Maximum(a, b) == IF a > b THEN a ELSE b

BufferInit ==
    /\ mem = <<>>
    /\ file = NoFile
    /\ written = <<>>
    /\ closed = FALSE
    /\ failed = FALSE

-------------------------------------------------------------------------------
(* Extents.                                                                   *)

extent(start, end) == [start |-> start, end |-> end]

mergeExtent(acc, cur) ==
    IF cur.start <= Last(acc).end
    THEN [acc EXCEPT ![Len(acc)].end = Maximum(@, cur.end)] ELSE Append(acc, cur)

\* What the binary search finds: the place after the ranges that start before e.
place(w, e) ==
    CHOOSE i \in 1 .. Len(w) + 1 : \A k \in DOMAIN w : w[k].start < e.start <=> k < i

\* record: inserted in its place, then merged.
record(w, e) ==
    LET s == InsertAt(w, place(w, e), e)
    IN FoldLeft(mergeExtent, <<Head(s)>>, Tail(s))

\* Size: the loop ends at the first range past what is covered.
Size ==
    FoldLeft(LAMBDA covered, e : IF e.start > covered THEN covered
                                 ELSE Maximum(covered, e.end), 0, written)

\* FirstGap: where the loop stands, and whether it goes on or returned, and with what.
gapStep(acc, e, size, within) ==
    IF acc.loop # "goes on" THEN acc
    ELSE IF acc.at >= within THEN [acc EXCEPT !.loop = "none"]
    ELSE LET end == Minimum(e.start, within)
         IN IF end > acc.at /\ end - acc.at >= size THEN [acc EXCEPT !.loop = "found"]
            ELSE [acc EXCEPT !.at = Maximum(@, e.end)]

gapLoop(size, within) ==
    FoldLeft(LAMBDA acc, e : gapStep(acc, e, size, within), [at |-> 0, loop |-> "goes on"], written)

\* The offset found, if any.
FirstGap(size, within) ==
    LET last == gapLoop(size, within)
        rest == last.at <= within /\ within - last.at >= size
    IN IF closed \/ size < 0 \/ within < 0 THEN {}
       ELSE IF last.loop = "found" \/ (last.loop = "goes on" /\ rest) THEN {last.at} ELSE {}

-------------------------------------------------------------------------------
(* Writing.                                                                   *)

\* split: how many of n bytes at off fall into memory.
inMem(off, n) == IF off >= MemLimit THEN 0 ELSE Minimum(n, MemLimit - off)

\* f with n cells, those it does not have as zeros.
grow(f, n) == [i \in 0 .. n - 1 |-> IF i \in DOMAIN f THEN f[i] ELSE Zero]
Length(f) == IF f = <<>> THEN 0 ELSE CHOOSE n \in 1 .. MaxOffset : DOMAIN f = 0 .. n - 1
stamp(f, off, n, b) == [i \in DOMAIN f |-> IF i \in off .. off + n - 1 THEN b ELSE f[i]]

writeMem(off, n, b) ==
    LET need == off + n
        len == IF Length(mem) < need THEN Minimum(MemLimit, Maximum(need, 2 * Length(mem)))
               ELSE Length(mem)
    IN stamp(grow(mem, len), off, n, b)

\* Mutation: the offset into the file is not the one past the limit.
MutWriteFile(off, n, b) ==
    LET f == IF file = NoFile THEN <<>> ELSE file
        at == off + MemLimit
    IN IF n = 0 THEN f ELSE stamp(grow(f, Maximum(Length(f), at + n)), at, n, b)

\* A file written past its end reads as zeros in between.
writeFile(off, n, b) ==
    LET f == IF file = NoFile THEN <<>> ELSE file
    IN IF n = 0 THEN f ELSE stamp(grow(f, Maximum(Length(f), off + n)), off, n, b)

Fails(off, n) == closed \/ off < 0 \/ off > MaxOffset - n

\* The file goes first.  Creating it may fail, and a write may fail half way.
WriteAt(off, n, b) ==
    LET m == inMem(off, n)
        at == off + m - MemLimit
    IN /\ ~Fails(off, n)
       /\ \/ /\ file' = IF m < n THEN writeFile(at, n - m, b) ELSE file
             /\ mem' = IF m > 0 THEN writeMem(off, m, b) ELSE mem
             /\ written' = record(written, extent(off, off + n))
             /\ failed' = FALSE
          \/ /\ m < n /\ file = NoFile
             /\ "create" \in Failures
             /\ UNCHANGED <<mem, file, written>>
             /\ failed' = TRUE
          \/ /\ m < n
             /\ "write" \in Failures
             /\ \E k \in 0 .. n - m - 1 : file' = writeFile(at, k, b)
             /\ UNCHANGED <<mem, written>>
             /\ failed' = TRUE
       /\ UNCHANGED closed

\* Closed, before the beginning or past what an offset can say.
RejectWrite(off, n) ==
    /\ Fails(off, n)
    /\ failed' = TRUE
    /\ UNCHANGED <<mem, file, written, closed>>

Close ==
    /\ mem' = <<>> /\ file' = NoFile /\ written' = <<>> /\ closed' = TRUE
    /\ failed' = FALSE

-------------------------------------------------------------------------------
(* Reading.                                                                   *)

\* The bytes ReadAt returns for n bytes at off; fewer than n is io.EOF.
ReadAt(off, n) ==
    LET want == Minimum(n, Size - off)
        m == inMem(off, want)
    IN IF off >= Size THEN <<>>
       ELSE [i \in 1 .. want |->
                IF i <= m THEN mem[off + i - 1] ELSE file[off + i - 1 - MemLimit]]

-------------------------------------------------------------------------------
BufferNext ==
    \/ \E off \in -1 .. MaxOffset, n \in 1 .. MaxLength :
        RejectWrite(off, n) \/ \E b \in Byte : WriteAt(off, n, b)
    \/ Close

BufferSpec == BufferInit /\ [][BufferNext]_bufferVars

-------------------------------------------------------------------------------
(* Properties.                                                                *)

Covered == UNION {written[i].start .. written[i].end - 1 : i \in DOMAIN written}

\* What the buffer holds at an offset that was written.
content == [o \in Covered |-> IF o < MemLimit THEN mem[o] ELSE file[o - MemLimit]]

\* What it answers.
queries ==
    [size |-> Size,
     read |-> [off \in 0 .. MaxOffset |-> [n \in 1 .. MaxOffset |-> ReadAt(off, n)]],
     gap  |-> [size \in 1 .. MaxOffset |-> [within \in 0 .. MaxOffset |-> FirstGap(size, within)]]]

\* The buffer keeps the promise of SparseBuffer: a write changes the bytes of its
\* range, in whichever tier, and no other; a failed one nothing in memory; and once
\* something is written, in whatever order, Size, reads and FirstGap answer for exactly
\* what was written.
Sparse == INSTANCE SparseBuffer WITH open <- ~closed, answers <- queries

SparseSpec == Sparse!Spec

\* "A write that fails leaves the buffer as it was." (internal/spillbuf/buffer.go:114)
FailedWriteChangesNothing == [][failed' => content' = content]_bufferVars
===============================================================================
