---------------------------- MODULE MCContentCache ----------------------------
(* Two callers of one version of the program, one whose cache is bypassed, and    *)
(* one of a version whose result type has gained a field and that caches failures. *)
EXTENDS ContentCache

CONSTANTS a, b, c, d, k, plain, revised, found, other

MCCaller == {a, b, c, d}
MCTypeOf == [p \in MCCaller |-> IF p = c THEN revised ELSE plain]
Field(n) == [name |-> n, exported |-> TRUE, tagged |-> FALSE]
MCFields == [t \in {plain, revised} |->
    {Field("val"), [name |-> "lock", exported |-> FALSE, tagged |-> FALSE]}
        \cup IF t = revised THEN {Field("err")} ELSE {}]
MCContents == [i \in {plain, revised} \X {k} |->
    IF i[1] = plain THEN {found} ELSE {other, Failure}]
MCSize == [x \in {found, other, Failure} |-> 2]
===============================================================================
