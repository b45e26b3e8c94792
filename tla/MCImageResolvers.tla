--------------------------- MODULE MCImageResolvers ---------------------------
(* Each view is asked for each path and for each choice of paths, in any order, *)
(* of images of two layers over three paths and of three layers over two.       *)
EXTENDS ImageResolvers

CONSTANTS
    Images,      \* as lists of layers
    PathLists    \* what globs match, in the order of the search

ASSUME ImagesAssumption == Images \subseteq Seq(Layer) /\ PathLists \subseteq Seq(Path)

VARIABLES img, asked, answers

imageVars == <<img, asked, answers>>

Letters == {"a", "b", "c"}

LayersOver(P) ==
    UNION {{y \in [D -> {Regular, Whiteout} \cup {Symlink(q) : q \in P}] :
                \A p \in D : y[p].to # p} : D \in SUBSET P}

MCImages == [1..2 -> LayersOver(Letters)] \cup [1..3 -> LayersOver({"a", "b"})]

\* Images come in every naming of their paths.
MCPathLists == {SubSeq(<<"a", "b", "c">>, 1, n) : n \in 1..3}

ImageInit ==
    /\ img \in Images
    /\ asked \in [by : {"path"}, paths : {p \in PathLists : Len(p) = 1}]
                \cup [by : {"glob"}, paths : PathLists]
    /\ answers = <<>>

ImageIdle == img = <<>> /\ asked = [by |-> "path", paths |-> <<>>] /\ answers = <<>>

ImageAsk ==
    /\ answers = <<>>
    /\ img # <<>>
    /\ answers' = LET q == asked.paths IN
        IF asked.by = "path"
        THEN <<[squashed |-> SquashedFiles(img, q[1]), all |-> AllLayersFiles(img, q[1]),
                deep |-> DeepSquashFiles(img, q[1])]>>
        ELSE <<[squashed |-> SquashedGlob(img, q), all |-> AllLayersGlob(img, q),
                deep |-> DeepSquashGlob(img, q)]>>
    /\ UNCHANGED <<img, asked>>

ImageSpec == ImageInit /\ [][ImageAsk]_imageVars

-------------------------------------------------------------------------------
Answered == answers # <<>>
Squashed == answers[1].squashed
AllLayers == ToSet(answers[1].all)
Deep == answers[1].deep

\* A location of the all-layers view is marked visible exactly if the squashed image has
\* that file at the path it was asked for: older versions, removed files and links that
\* lead elsewhere by now are hidden.
VisibleIsSquashed ==
    Answered => \A l \in AllLayers :
        Visible(img, l) <=> l.ref \in Refs(SquashedFiles(img, l.access))

\* By patterns, every file of the squashed image is in all layers too, and is
\* visible there under one of its paths.
LayersCoverSquash ==
    Answered /\ asked.by = "glob" =>
        \A r \in Refs(Squashed) : \E l \in AllLayers : l.ref = r

\* Asked for a path, a deep squash marks a location visible exactly if the all-layers
\* view does, though the one compares locations and the other references.  By patterns
\* what it marks visible is visible.
DeepIsVisible ==
    Answered => \A l \in Deep :
        /\ l.visible => Visible(img, l)
        /\ Visible(img, l) /\ asked.by = "path" => l.visible

\* What the three views of an image say of its files fits together.
ScopesAgree == VisibleIsSquashed /\ LayersCoverSquash /\ DeepIsVisible

\* "this path + layer is already in the squashed tree results, skip it (deduplicate
\* location results)" (container_image_deep_squash.go:169): no file is both visible and
\* hidden, by patterns either.
NoneTwice ==
    Answered => \A l, m \in Deep : l.ref = m.ref => l.visible = m.visible

\* "we should search all possible resolutions within the valid source"
\* (container_image_all_layers.go:66-67): by path too, all layers have what the squashed
\* image has.
PathsCoverSquash == Answered => Refs(Squashed) \subseteq Refs(answers[1].all)
===============================================================================
