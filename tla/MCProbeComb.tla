---------------------------- MODULE MCProbeComb -----------------------------
(* Up to four distinct probes of up to three wires each, seven in total.   *)
EXTENDS ProbeComb

Multeplicities ==
  {<<>>, <<3>>} \cup UNION {[1 .. n -> 1 .. 3] : n \in 2 .. 3} \cup {<<1, 2, 1, 2>>, <<2, 1, 2, 2>>}

Shapes == {[probeMulteplicity |-> m, maxCoeff |-> c] : m \in Multeplicities, c \in 1 .. 5}

SmallShapes == {s \in Shapes : FoldFunction(+, 0, s.probeMulteplicity) <= 7}
=============================================================================
