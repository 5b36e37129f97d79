---------------------------- MODULE MCParserSage ----------------------------
(***************************************************************************)
(* Small files: an input of one share and a random one with up to three    *)
(* assignments; an input of two shares and a random one, or two inputs of  *)
(* two shares, with two; an input that is assigned and an output; more     *)
(* inputs than are supported, and a header that is not complete.           *)
(***************************************************************************)
EXTENDS ParserSage

MCHeader(d, ins, rnds, outs) ==
  [d |-> d, ins |-> ins, rnds |-> rnds, outs |-> outs, complete |-> TRUE]

r == <<"r">>
x == <<"x">>

Single == MCHeader(1, <<"a">>, <<r>>, <<"c">>)
Shared == MCHeader(2, <<"a">>, <<r>>, <<"c">>)
Double == MCHeader(2, <<"a", "b">>, <<>>, <<"c">>)
InPlace == MCHeader(2, <<"a">>, <<>>, <<"a">>)
Many == MCHeader(1, <<"a">>, [n \in 1 .. 5 |-> <<"r", "r", n>>], <<"a">>)

MCHeaders == {Single, Shared, Double, InPlace, Many, [Single EXCEPT !.complete = FALSE]}

Shares(h, names) == {Share(name, i) : name \in names, i \in 0 .. h.d - 1}

Locals(h) == IF h.d = 1 THEN {x} ELSE {}

MCAssigned(h) == Shares(h, ToSet(h.outs)) \cup Locals(h)

MCNames(h) ==
  MCAssigned(h) \cup Shares(h, ToSet(h.ins)) \cup {n \in ToSet(h.rnds) : n = r}

MCMaxAssignments(h) == IF h = Single THEN 3 ELSE 2
=============================================================================
