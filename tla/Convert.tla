------------------------------- MODULE Convert -------------------------------
(***************************************************************************)
(* "syft convert": one SBOM document is read and written to every -o       *)
(* output (cmd/syft/internal/commands/convert.go, and the writers it uses, *)
(* options/writer.go).  The files are opened, and emptied, before the      *)
(* document is decoded; with the pass-through option an output that asks   *)
(* for what the document already is gets a copy of it.                     *)
(***************************************************************************)
EXTENDS Naturals, Sequences, SequencesExt, FiniteSets

CONSTANTS
    Target,          \* the paths outputs may name, InputPath among them
    InputPath,     \* where the document is read from, unless it is piped
    BadPath,       \* a path that cannot be created
    OutputFormat,        \* the names -o can give
    Unsupported,   \* those no encoder answers to
    MaxOutputs     \* bound: the outputs of one command

Stdout == "stdout"    \* where an output without a path goes, the report bus

\* There is always an encoder for Syft's own format.
ASSUME ConvertAssumption ==
    /\ InputPath \in Target /\ BadPath \in Target \ {InputPath} /\ Stdout \notin Target
    /\ "syft-json" \notin Unsupported
    /\ MaxOutputs \in Nat

\* An -o value.
Value == [format : OutputFormat, path : Target \cup {Stdout}]

\* What a file holds: the document to convert, what an encoder wrote, two
\* documents written over one another, ...
Content(kind, of) == [kind |-> kind, of |-> of]
Encoded(format) == Content("encoded", format)
Empty == Content("empty", "")
Mixed == Content("mixed", "")
Older == Content("older", "")
Absent == Content("absent", "")

\* The document is of the exact format the pass-through is for, of another
\* one, or no SBOM.
Document == {Content("document", of) : of \in {"syft-json", "other", "garbage"}}

VARIABLES
    document,      \* the document to convert
    piped,         \* it comes from a pipe, and is kept in a spill buffer
    passthrough,   \* convert.passthrough-exact-format
    outputs,       \* the -o values: formats and where to write them
    before, disk,  \* the files as they were and as they are
    reported,      \* what has gone to the report bus
    unchanged, converted,  \* the outputs still to copy and to convert
    writers,       \* the outputs whose writers are made
    step           \* what RunConvert does next

input == <<document, piped, passthrough, outputs, before>>
convertVars == <<input, disk, reported, unchanged, converted, writers, step>>

\* A file is read where it is: what has been written over it is what is read.
Reading == IF piped THEN document ELSE disk[InputPath]

-----------------------------------------------------------------------------
Fail == step' = "failed"

\* Only a syft-json document of the current schema version is passed through.
PassesThrough(o) ==
    passthrough /\ Reading = Content("document", "syft-json") /\ o.format = "syft-json"

\* partitionOutputsBySourceFormat: one output after another.
partitionOutputs(list, same) ==
    LET place(parts, o) == IF o \in same THEN [parts EXCEPT !.unchanged = Append(@, o)]
                           ELSE [parts EXCEPT !.toConvert = Append(@, o)]
    IN FoldLeft(place, [unchanged |-> <<>>, toConvert |-> <<>>], list)

Partition ==
    /\ step = "partition"
    /\ LET parts == partitionOutputs(outputs, {o \in Value : PassesThrough(o)})
       IN  /\ unchanged' = parts.unchanged
           /\ converted' = parts.toConvert
           /\ step' = IF parts.toConvert = <<>> THEN "copy" ELSE "resolve"
    /\ UNCHANGED <<input, disk, reported, writers>>

\* Mutation: a format is resolved when its output is opened, but for the first.
MutResolveFormats ==
    /\ step = "resolve"
    /\ step' = IF converted[1].format \in Unsupported THEN "failed" ELSE "open"
    /\ UNCHANGED <<input, disk, reported, unchanged, converted, writers>>

\* parseSBOMOutputFlags: every format is resolved before any file is opened.
ResolveFormats ==
    /\ step = "resolve"
    /\ step' = IF \E k \in DOMAIN converted : converted[k].format \in Unsupported
               THEN "failed" ELSE "open"
    /\ UNCHANGED <<input, disk, reported, unchanged, converted, writers>>

\* newSBOMMultiWriter: one file after another, each emptied as it is opened.
OpenOutput ==
    /\ step = "open"
    /\ LET o == Head(converted)
       IN  IF o.path = BadPath
           THEN Fail /\ UNCHANGED <<disk, converted, writers>>
           ELSE /\ disk' = IF o.path = Stdout THEN disk ELSE [disk EXCEPT ![o.path] = Empty]
                /\ writers' = Append(writers, o)
                /\ converted' = Tail(converted)
                /\ step' = IF Len(converted) = 1 THEN "copy" ELSE "open"
    /\ UNCHANGED <<input, reported, unchanged>>

\* Mutation: the input is not recognised, and emptied before it is copied.
MutCopied(path) == IF path = InputPath /\ ~piped THEN Empty ELSE Reading

\* isSameFile: an output that is the input file is left alone.
Copied(path) == IF path = InputPath /\ ~piped THEN disk[path] ELSE Reading

\* writeUnchanged
CopyUnchanged ==
    /\ step = "copy"
    /\ unchanged # <<>>
    /\ LET path == Head(unchanged).path
       IN  CASE path = Stdout ->
                  reported' = Append(reported, Reading) /\ UNCHANGED <<disk, step>>
             [] path = BadPath ->
                  Fail /\ UNCHANGED <<disk, reported>>
             [] OTHER ->
                  disk' = [disk EXCEPT ![path] = Copied(path)] /\ UNCHANGED <<reported, step>>
    /\ unchanged' = Tail(unchanged)
    /\ UNCHANGED <<input, converted, writers>>

\* The document is decoded only now; without writers there is nothing to
\* decode it for.
DecodeDocument ==
    /\ step = "copy"
    /\ unchanged = <<>>
    /\ step' = CASE writers = <<>> -> "done"
                 [] Reading \in Document /\ Reading.of # "garbage" -> "write"
                 [] OTHER -> "failed"
    /\ UNCHANGED <<input, disk, reported, unchanged, converted, writers>>

\* sbomMultiWriter.Write: one encoder's failure does not stop the others.
\* Writing starts at the beginning of the file, over what may be there.
WriteSBOM ==
    /\ step \in {"write", "write failing"}
    /\ writers # <<>>
    /\ \E encodes \in BOOLEAN :
        LET o == Head(writers)
            content == IF encodes THEN Encoded(o.format) ELSE Empty
        IN  /\ IF o.path = Stdout
               THEN /\ reported' = IF encodes THEN Append(reported, content) ELSE reported
                    /\ UNCHANGED disk
               ELSE /\ disk' = [disk EXCEPT ![o.path] = IF @ = Empty THEN content
                                                        ELSE IF encodes THEN Mixed ELSE @]
                    /\ UNCHANGED reported
            /\ step' = IF encodes THEN step ELSE "write failing"
    /\ writers' = Tail(writers)
    /\ UNCHANGED <<input, unchanged, converted>>

FinishWriting ==
    /\ step \in {"write", "write failing"}
    /\ writers = <<>>
    /\ step' = IF step = "write" THEN "done" ELSE "failed"
    /\ UNCHANGED <<input, disk, reported, unchanged, converted, writers>>

ConvertNext ==
    \/ Partition \/ ResolveFormats \/ OpenOutput \/ CopyUnchanged
    \/ DecodeDocument \/ WriteSBOM \/ FinishWriting

-------------------------------------------------------------------------------
(* Every command with at most MaxOutputs outputs.                              *)

ConvertInit ==
    /\ document \in Document
    /\ piped \in BOOLEAN
    /\ passthrough \in BOOLEAN
    /\ outputs \in UNION {[1 .. n -> Value] : n \in 1 .. MaxOutputs}
    /\ before = [q \in Target |-> CASE q = InputPath -> document
                                  [] q = BadPath -> Absent
                                  [] OTHER -> Older]
    /\ disk = before
    /\ reported = <<>>
    /\ unchanged = <<>> /\ converted = <<>> /\ writers = <<>>
    /\ step = "partition"

ConvertDone == step \in {"done", "failed"} /\ UNCHANGED convertVars

ConvertSpec == ConvertInit /\ [][ConvertNext \/ ConvertDone]_convertVars

-----------------------------------------------------------------------------
Values == {outputs[k] : k \in DOMAIN outputs}
Files(S) == {o.path : o \in S} \ {Stdout}

\* Whether a value asks for what the document already is.
Exact(o) == passthrough /\ document.of = "syft-json" /\ o.format = "syft-json"

\* The values no two of which name one file, none of them the input unless
\* it asks for a copy of it or the document is piped.
Apart ==
    /\ \A j, k \in DOMAIN outputs : outputs[j].path = outputs[k].path /\ j # k => outputs[j].path = Stdout
    /\ \A o \in Values : o.path = InputPath => piped \/ Exact(o)

\* An output whose format no encoder knows fails the command before any
\* file is touched, wherever it comes in the list and whatever is passed
\* through.
BadFormatHarmless ==
    (\E o \in Values : o.format \in Unsupported) => disk = before /\ reported = <<>>

\* A command that succeeds has written to every file it names what was asked
\* for there, has reported the rest, and has touched no other file; one that
\* fails has written a document nowhere but where it was asked to, and nothing if a
\* format was bad.
OutputsFaithful ==
    /\ BadFormatHarmless
    /\ Apart =>
        /\ \A q \in Target : disk[q] \in {before[q]} \cup
               (IF q \in Files(Values) THEN {Empty} \cup {Encoded(o.format) : o \in {o \in Values : o.path = q}}
                                            \cup {document}
                ELSE {})
        /\ step = "done" =>
             /\ \A o \in Values : o.path # Stdout =>
                    disk[o.path] = IF Exact(o) THEN document ELSE Encoded(o.format)
             /\ Len(reported) = Cardinality({k \in DOMAIN outputs : outputs[k].path = Stdout})
             /\ {reported[k] : k \in DOMAIN reported} =
                    {IF Exact(o) THEN document ELSE Encoded(o.format) : o \in {o \in Values : o.path = Stdout}}

\* "a bad -o value fails the command without leaving partial results behind"
\* (cmd/syft/internal/commands/convert.go:107-108).
BadOutputHarmless ==
    step = "failed" /\ (\E o \in Values : ~Exact(o) /\ (o.format \in Unsupported \/ o.path = BadPath)) =>
        disk = before
==============================================================================
