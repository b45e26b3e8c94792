-------------------------- MODULE CatalogerSelection --------------------------
(***************************************************************************)
(* Which catalogers a call of CreateSBOM runs: the request of a            *)
(* configuration, completed with the tags of the source                    *)
(* (syft/create_sbom_config.go), split over the group of the package tasks *)
(* and that of the file tasks, and evaluated in each                       *)
(* (internal/task/selection.go, internal/task/expression.go).              *)
(*                                                                         *)
(* A configuration may be used for many calls.  The lists of its request   *)
(* are slices, and a call works on copies that share their arrays.  The    *)
(* catalogers it holds that are always enabled are in persistent.          *)
(***************************************************************************)
EXTENDS Sequences, SequencesExt, FiniteSets, Naturals

CONSTANTS
    PackageTasks, FileTasks,  \* selectable tasks, each the token that names it
    Tags,                     \* task -> its tags
    SourceTags,               \* source -> the sequence of tags it selects by default
    All, Default, FileTag,    \* the tokens "all", "default" and "file"
    Requests,                 \* requests a configuration may be built with
    MaxCalls                  \* bound: calls made with one configuration

Groups == <<PackageTasks, FileTasks>>
TaskName == PackageTasks \cup FileTasks

\* Names and tags are distinct, and neither is one of the reserved words.
ASSUME TokensAssumption ==
    /\ \A t \in TaskName :
        Tags[t] \cap (TaskName \cup {All, Default}) = {}
    /\ TaskName \cap {All, Default, FileTag} = {}
    /\ All # Default /\ FileTag \notin {All, Default}
    /\ PackageTasks \cap FileTasks = {}
    /\ PackageTasks # {}    \* DefaultPackageTaskFactories

ASSUME FileTagAssumption ==
    /\ \A t \in FileTasks : FileTag \in Tags[t]
    /\ \A t \in PackageTasks : FileTag \notin Tags[t]

IsList(s) == s \in Seq(ToSet(s))

ASSUME SourceTagsAssumption ==
    \A source \in DOMAIN SourceTags :
        LET tags == SourceTags[source]
        IN IsList(tags) /\ Len(tags) > 1 /\ Default \notin ToSet(tags)

(* A slice: the cells of its array, of which the first len are seen.          *)
View(s) == SubSeq(s.cells, 1, s.len)
IsSlice(s) == /\ s = [cells |-> s.cells, len |-> s.len]
              /\ IsList(s.cells) /\ s.len \in 0 .. Len(s.cells)

ASSUME RequestsAssumption ==
    \A r \in Requests :
        /\ r = [default |-> r.default, sub |-> r.sub, add |-> r.add,
                remove |-> r.remove, persistent |-> r.persistent]
        /\ IsList(r.default) /\ IsList(r.add) /\ IsSlice(r.sub) /\ IsSlice(r.remove)

VARIABLES
    built,    \* the request the configuration was built with
    request,  \* the request it holds now
    last,     \* [source, tasks] of the latest call
    calls

selectionVars == <<built, request, last, calls>>

NoCall == [source |-> "none", tasks |-> {}]
Error == {"error"}

SelectionInit ==
    /\ built \in Requests
    /\ request = built
    /\ last = NoCall
    /\ calls = 0

-------------------------------------------------------------------------------
(* replaceDefaultTagReferences.  w.read is the slice as the caller sees it,    *)
(* w.list the list as it is so far, w.shared whether they share an array.     *)

\* append: in place where the array has room, into a new array otherwise.
Overwrite(s, list) ==
    IF Len(list) > Len(s.cells) THEN s
    ELSE [s EXCEPT !.cells = list \o SubSeq(@, Len(list) + 1, Len(@))]

replaceStep(tags, w, i) ==
    IF View(w.read)[i] # Default THEN w
    ELSE LET list == SubSeq(w.list, 1, i - 1) \o tags \o SubSeq(w.list, i + 1, Len(w.list))
         IN [list |-> list, shared |-> w.shared /\ Len(list) <= Len(w.read.cells),
             read |-> IF w.shared THEN Overwrite(w.read, list) ELSE w.read]

replaceDefaultTagReferences(tags, s) ==
    FoldLeft(LAMBDA w, i : replaceStep(tags, w, i),
             [read |-> s, list |-> View(s), shared |-> TRUE],
             [i \in 1..s.len |-> i])

-------------------------------------------------------------------------------
(* Selection in groups.  A request is now a record of sets of tokens.         *)

Answers(t) == Tags[t] \cup {t}
GroupAnswers(group) == (UNION {Answers(t) : t \in group}) \cup (IF group = {} THEN {} ELSE {All})

Tokens(r) == r.default \cup r.sub \cup r.add \cup r.remove

ensureDefaultSelectionHasFiles(r) ==
    IF {FileTag, All, Default} \cap r.default = {} /\ FileTag \notin r.remove
       /\ \E g \in DOMAIN Groups : FileTag \in GroupAnswers(Groups[g])
    THEN [r EXCEPT !.default = @ \cup {FileTag}] ELSE r

\* The part of a request that a group responds to.
newSelectionWithTags(r, group) ==
    [f \in DOMAIN r |-> r[f] \cap GroupAnswers(group)]

leftover(r) == (Tokens(r) \ UNION {GroupAnswers(Groups[g]) : g \in DOMAIN Groups}) \ {All}

Names(group) == group
TagsOf(group) == (UNION {Tags[t] : t \in group}) \cup {All}

\* newExpression: whether some token is of the wrong kind for its operation.
Invalid(r, group) ==
    \/ \E x \in r.default \cup r.remove : x \notin Names(group) \cup TagsOf(group)
    \/ \E x \in r.add : x \notin Names(group)
    \/ \E x \in r.sub : x = All \/ x \notin TagsOf(group)

isSelected(t, token) == token = All \/ token \in Answers(t)
selectedBy(group, tokens) == {t \in group : \E x \in tokens : isSelected(t, x)}

\* Mutation: removals are applied last.
MutSelectByExpressions(group, r) ==
    LET subSelected == selectedBy(group, r.sub)
        final == IF subSelected # {} THEN selectedBy(group, r.default) \cap subSelected
                 ELSE selectedBy(group, r.default)
    IN (final \cup selectedBy(group, r.add)) \ selectedBy(group, r.remove)

\* Set, then sub-select, then remove, then add.
selectByExpressions(group, r) ==
    LET subSelected == selectedBy(group, r.sub)
        final == IF subSelected # {} THEN selectedBy(group, r.default) \cap subSelected
                 ELSE selectedBy(group, r.default)
    IN (final \ selectedBy(group, r.remove)) \cup selectedBy(group, r.add)

\* SelectInGroups, and selectTasks that adds the persistent tasks.
SelectInGroups(r, persistent) ==
    LET asked == ensureDefaultSelectionHasFiles(r)
        part(g) == newSelectionWithTags(asked, Groups[g])
        tasks == (UNION {selectByExpressions(Groups[g], part(g)) : g \in DOMAIN Groups})
                    \cup persistent
    IN IF leftover(asked) # {} \/ (\E g \in DOMAIN Groups : Invalid(part(g), Groups[g]))
          \/ tasks = {}
       THEN Error ELSE tasks

\* finalTaskSelectionRequest: without defaults in the request those of the source.
SelectFor(source) ==
    /\ calls < MaxCalls
    /\ LET tags == SourceTags[source]
           given == request.default # <<>>
           untouched(s) == [read |-> s, list |-> View(s)]
           remove == IF given THEN untouched(request.remove)
                     ELSE replaceDefaultTagReferences(tags, request.remove)
           sub == IF given THEN untouched(request.sub)
                  ELSE replaceDefaultTagReferences(tags, request.sub)
           r == [default |-> ToSet(IF given THEN request.default ELSE tags),
                 sub |-> ToSet(sub.list), add |-> ToSet(request.add),
                 remove |-> ToSet(remove.list)]
       IN /\ last' = [source |-> source, tasks |-> SelectInGroups(r, request.persistent)]
          /\ request' = [request EXCEPT !.remove = remove.read, !.sub = sub.read]
    /\ calls' = calls + 1
    /\ UNCHANGED built

SelectionNext == \E source \in DOMAIN SourceTags : SelectFor(source)

SelectionSpec == SelectionInit /\ [][SelectionNext]_selectionVars

-------------------------------------------------------------------------------
(* Properties.                                                                *)

\* What a token stands for: "default" is what the source selects, unless the
\* request names its own defaults.
Meaning(s, source) ==
    LET tokens == ToSet(s)
    IN IF Default \in tokens /\ built.default = <<>>
       THEN (tokens \ {Default}) \cup ToSet(SourceTags[source]) ELSE tokens

DefaultsOf(source) ==
    IF built.default = <<>> THEN ToSet(SourceTags[source]) ELSE ToSet(built.default)
Removed(source) == Meaning(View(built.remove), source)
SubSelected(source) == Meaning(View(built.sub), source)

Matches(t, tokens) == \E x \in tokens : x \in {All, t} \cup Tags[t]

\* A sub-selection narrows the group of tasks that it speaks of, no other.
Narrowed(t, source) ==
    LET group == IF t \in FileTasks THEN FileTasks ELSE PackageTasks
        spoken == {x \in SubSelected(source) : \E u \in group : Matches(u, {x})}
    IN spoken # {} /\ ~Matches(t, spoken)

Wanted(t, source) ==
    Matches(t, DefaultsOf(source)) \/ t \in FileTasks

Promised(source) ==
    {t \in TaskName :
        \/ t \in ToSet(built.add)
        \/ Wanted(t, source) /\ ~Narrowed(t, source) /\ ~Matches(t, Removed(source))}
    \cup built.persistent

Refused(source) ==
    LET known == (UNION {Answers(t) : t \in TaskName}) \cup {All}
    IN \/ ~(DefaultsOf(source) \cup Removed(source) \subseteq known)
       \/ ~(ToSet(built.add) \subseteq TaskName)
       \/ ~(SubSelected(source) \subseteq UNION {Tags[t] : t \in TaskName})
       \/ Promised(source) = {}

Called == calls > 0
HasRoom(s) == s.len < Len(s.cells)
NamesDefaultOnce(s) ==
    \A i, j \in 1 .. s.len : s.cells[i] = Default /\ s.cells[j] = Default => i = j

\* A call, the first one with a configuration or a later one where no array of it has
\* room, with "default" at most once in a list, runs the tasks the configuration was
\* built to run for this source, and fails exactly if a token is unknown, of the wrong
\* kind, or nothing is left: splitting the request over the groups loses nothing, no
\* group is narrowed by a token of the other, and replacing "default" in place leaves
\* the tokens around it.
SelectionExact ==
    /\ Called /\ (calls = 1 \/ ~(HasRoom(built.sub) \/ HasRoom(built.remove)))
    /\ NamesDefaultOnce(built.sub) /\ NamesDefaultOnce(built.remove)
    =>
        last.tasks = IF Refused(last.source) THEN Error ELSE Promised(last.source)

\* "select package tasks (leave file tasks alone)" (internal/task/selection_test.go:479):
\* a request that neither narrows nor removes files leaves every file task selected,
\* and one that narrows and removes only files leaves the package tasks alone.
OtherGroupLeftAlone ==
    Called /\ last.tasks # Error =>
        LET said == SubSelected(last.source) \cup Removed(last.source)
            ofFiles == UNION {Answers(t) : t \in FileTasks}
        IN /\ said \cap (ofFiles \cup {All}) = {} => FileTasks \subseteq last.tasks
           /\ said \subseteq ofFiles =>
                    {t \in PackageTasks : Matches(t, DefaultsOf(last.source))} \subseteq last.tasks

\* "remove the default tag and add the individual tags" (syft/create_sbom_config.go:500):
\* what a removal of "default" stands for at the source of the call is removed in that
\* call, whatever the configuration was used for before.
DefaultsBySource ==
    Called /\ last.tasks # Error =>
        \A t \in last.tasks \ (built.persistent \cup ToSet(built.add)) :
            ~Matches(t, Removed(last.source))
===============================================================================
