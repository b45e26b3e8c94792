---------------------------- MODULE UnknownErrors ----------------------------
(* Errors that carry the coordinates of the file they are about                  *)
(* (internal/unknown).  An error is a tree: a leaf, a reason at coordinates, an  *)
(* error wrapped in words, or several joined (errors.Join and multierror alike). *)
EXTENDS Naturals, Sequences, SequencesExt

Nil == [kind |-> "nil"]
Leaf(text) == [kind |-> "leaf", text |-> text]
CoordinateError(at, reason) == [kind |-> "coordinate", at |-> at, reason |-> reason]
Wrapped(err) == [kind |-> "wrapped", err |-> err]
Joined(errs) == [kind |-> "joined", errs |-> errs]

\* errors.Join leaves nils out, and is nil when nothing is left.
JoinErrs(errs) ==
    LET some == SelectSeq(errs, LAMBDA e : e # Nil)
    IN IF some = <<>> THEN Nil ELSE Joined(some)

\* What an error is made of, and everything it is made of in turn: errors are finite.
Parts(err) ==
    CASE err.kind = "wrapped" -> {err.err}
      [] err.kind = "coordinate" -> {err.reason}
      [] err.kind = "joined" -> ToSet(err.errs)
      [] OTHER -> {}
Subtrees(err) ==
    LET level[n \in Nat] == IF n = 0 THEN {err} ELSE UNION {Parts(e) : e \in level[n - 1]}
        from[n \in Nat] == IF level[n] = {} THEN {} ELSE level[n] \cup from[n + 1]
    IN from[0]

\* errors.As: the first coordinate error, a reason of one being out of its reach.
AsCoordinate(err) ==
    LET as[e \in Subtrees(err)] ==
            CASE e.kind = "coordinate" -> e
              [] e.kind = "wrapped" -> as[e.err]
              [] e.kind = "joined" ->
                    LET found == SelectSeq([i \in DOMAIN e.errs |-> as[e.errs[i]]], LAMBDA x : x # Nil)
                    IN IF found = <<>> THEN Nil ELSE Head(found)
              [] OTHER -> Nil
    IN as[err]

\* The coordinates of a reason that has some are kept in place of those given.
New(at, reason) ==
    IF reason = Nil THEN Nil
    ELSE IF AsCoordinate(reason) # Nil THEN AsCoordinate(reason)
    ELSE CoordinateError(at, reason)

\* Errors nested in a coordinate error become coordinate errors of their own.
flatten(err) ==
    LET flat[e \in Subtrees(err)] ==
            CASE e.kind = "nil" -> <<>>
              [] e.kind = "coordinate" ->
                    [i \in DOMAIN flat[e.reason] |-> New(e.at, flat[e.reason][i])]
              [] e.kind = "joined" -> FlattenSeq([i \in DOMAIN e.errs |-> flat[e.errs[i]]])
              [] OTHER -> <<e>>
    IN flat[err]

Join(errs) ==
    LET add(out, e) == IF e \in ToSet(out) THEN out ELSE Append(out, e)
        out == FoldLeft(add, <<>>, FlattenSeq([i \in DOMAIN errs |-> flatten(errs[i])]))
    IN IF Len(out) = 1 THEN Head(out) ELSE JoinErrs(out)

Append_(errs, at, reason) == Join(<<errs, New(at, reason)>>)

\* What is left of an error, and the coordinate errors that were in it, in order.
ExtractCoordinateErrors(err) ==
    LET extract[e \in Subtrees(err)] ==
            CASE e.kind = "coordinate" -> [coordinates |-> <<e>>, remaining |-> Nil]
              [] e.kind = "wrapped" ->
                    [coordinates |-> extract[e.err].coordinates,
                     remaining |-> IF extract[e.err].remaining = Nil THEN Nil
                                   ELSE Wrapped(extract[e.err].remaining)]
              [] e.kind = "joined" ->
                    [coordinates |-> FlattenSeq([i \in DOMAIN e.errs |-> extract[e.errs[i]].coordinates]),
                     remaining |-> JoinErrs([i \in DOMAIN e.errs |-> extract[e.errs[i]].remaining])]
              [] OTHER -> [coordinates |-> <<>>, remaining |-> e]
    IN extract[err]

\* Every place where a tree names coordinates, with the leaves it gives as reasons.
Reports(err) ==
    LET reports[e \in Subtrees(err)] ==
            CASE e.kind = "leaf" -> {<<"nowhere", e.text>>}
              [] e.kind = "wrapped" -> reports[e.err]
              [] e.kind = "joined" -> UNION {reports[e.errs[i]] : i \in DOMAIN e.errs}
              [] e.kind = "coordinate" ->
                    {<<IF r[1] = "nowhere" THEN e.at ELSE r[1], r[2]>> : r \in reports[e.reason]}
              [] OTHER -> {}
    IN reports[err]
===============================================================================
