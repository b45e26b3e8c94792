----------------------------- MODULE MCSequential -----------------------------
(* The components whose calls run one at a time, each checked for itself in one  *)
(* run: "part" picks the component, the others stay idle.                        *)
EXTENDS MCCompliance, MCSbomAnalysis, CatalogerSelection, MCImageResolvers,
        MCFormats, Convert, MCCatalogers

CONSTANT Parts

VARIABLE part

parts == <<part, complianceVars, analysisVars, selectionVars, imageVars, formatVars,
           convertVars, catalogVars>>

-------------------------------------------------------------------------------
(* Requests over two package tasks and two file tasks, for two sources.          *)
CONSTANTS
    dpkg, gomod, digests, contents, mine,            \* tasks
    image, directory, language, digest, unknown      \* tags, and a token of no task

MCPackageTasks == {dpkg, gomod}
MCFileTasks == {digests, contents}

MCTags == [t \in {dpkg, gomod, digests, contents} |->
    CASE t = dpkg -> {image}
      [] t = gomod -> {image, directory, language}
      [] t = digests -> {FileTag, digest}
      [] t = contents -> {FileTag}]

MCSourceTags == [source \in {"image", "directory"} |->
    IF source = "image" THEN <<image, FileTag>> ELSE <<directory, FileTag>>]

\* Lists of at most n tokens of T, none twice.
Lists(T, n) == {s \in BoundedSeq(T, n) : IsInjective(s)}

\* A list given at once has an array of its length, one appended to token by token
\* one whose length is the next power of two.
Doubled(n) == IF n = 3 THEN 4 ELSE n
Slice(s, cap) ==
    [len |-> Len(s), cells |-> [i \in 1..cap |-> IF i <= Len(s) THEN s[i] ELSE unknown]]

SmallRequests ==
    [default : Lists({image, FileTag, All, Default, unknown, digests}, 1),
     sub : {Slice(s, Len(s)) : s \in Lists({language, digest, Default, All, gomod}, 1)
                                 \cup {<<language, digest>>, <<Default, unknown>>,
                                       <<Default, Default>>}},
     add : Lists({dpkg, contents, language, unknown}, 1),
     remove : {Slice(s, Len(s)) :
                    s \in Lists({Default, FileTag, gomod, digest, All, unknown}, 2)},
     persistent : {{}, {mine}}]

\* Longer lists of removals, for which the array may have room.
LongRequests ==
    [default : {<<>>}, sub : {Slice(<<>>, 0)}, add : Lists({dpkg, contents}, 1),
     remove : {Slice(s, Doubled(Len(s))) :
                    s \in Lists({Default, FileTag, gomod, dpkg, digests, unknown}, 3)},
     persistent : {{mine}}]

MCRequests == SmallRequests \cup LongRequests

-------------------------------------------------------------------------------
(* The tasks share the shape of a package: both take theirs from one universe.   *)
SharedKey == ComplianceKey \cup AnalysisKey
SharedFile == ComplianceFile \cup AnalysisFile
SharedOwned(p) == IF p.key \in ComplianceKey THEN ComplianceOwned(p) ELSE AnalysisOwned(p)

-------------------------------------------------------------------------------
ComplianceIdle ==
    cfg = [name |-> "keep", version |-> "keep"] /\ pkgs = <<>> /\ rels = {} /\ result = <<>>

AnalysisIdle == deep = FALSE /\ found = {} /\ packages = {} /\ edges = {} /\ phase = "scope"

SelectionIdle == built = <<>> /\ request = built /\ last = NoCall /\ calls = 0

FormatsIdle ==
    /\ original = [packages |-> {}, files |-> {}, relationships |-> {}, source |-> "none"]
    /\ sbom = original /\ doc = NoDocument /\ path = <<>>

ConvertIdle ==
    /\ document = Content("document", "other")
    /\ piped = FALSE /\ passthrough = FALSE
    /\ outputs = <<>>
    /\ before = [q \in Target |-> Absent] /\ disk = before
    /\ reported = <<>>
    /\ unchanged = <<>> /\ converted = <<>> /\ writers = <<>>
    /\ step = "partition"

CatalogIdle == given = <<>> /\ output = <<>>

Init ==
    /\ part \in Parts
    /\ IF part = "compliance" THEN ComplianceInit ELSE ComplianceIdle
    /\ IF part = "analysis" THEN AnalysisInit ELSE AnalysisIdle
    /\ IF part = "selection" THEN SelectionInit ELSE SelectionIdle
    /\ IF part = "images" THEN ImageInit ELSE ImageIdle
    /\ IF part = "formats" THEN FormatsInit ELSE FormatsIdle
    /\ IF part = "convert" THEN ConvertInit ELSE ConvertIdle
    /\ IF part = "catalogers" THEN CatalogInit ELSE CatalogIdle

IdleBut(v) == UNCHANGED v /\ UNCHANGED part

Next ==
    \/ /\ part = "compliance" /\ Process
       /\ IdleBut(<<analysisVars, selectionVars, imageVars, formatVars, convertVars, catalogVars>>)
    \/ /\ part = "analysis" /\ (Scope \/ Elf \/ ExcludeNext)
       /\ IdleBut(<<complianceVars, selectionVars, imageVars, formatVars, convertVars, catalogVars>>)
    \/ /\ part = "selection" /\ SelectionNext
       /\ IdleBut(<<complianceVars, analysisVars, imageVars, formatVars, convertVars, catalogVars>>)
    \/ /\ part = "images" /\ ImageAsk
       /\ IdleBut(<<complianceVars, analysisVars, selectionVars, formatVars, convertVars, catalogVars>>)
    \/ /\ part = "formats" /\ FormatsNext
       /\ IdleBut(<<complianceVars, analysisVars, selectionVars, imageVars, convertVars, catalogVars>>)
    \/ /\ part = "convert" /\ ConvertNext
       /\ IdleBut(<<complianceVars, analysisVars, selectionVars, imageVars, formatVars, catalogVars>>)
    \/ /\ part = "catalogers" /\ CatalogNext
       /\ IdleBut(<<complianceVars, analysisVars, selectionVars, imageVars, formatVars, convertVars>>)

Spec == Init /\ [][Next]_parts
===============================================================================
