----------------------------- MODULE MCWrapper ------------------------------
(* Gadgets for Wrapper, in words of four bits.                             *)
EXTENDS Wrapper

Shape(kind, outs, d, ins, mult, max, t, threads) ==
  [kind |-> kind, numOuts |-> outs, d |-> d, numIns |-> ins, numTotIns |-> d * ins,
   numTotOuts |-> outs * d + Len(mult), probeMulteplicity |-> mult,
   maxCoeff |-> max, t |-> t, threads |-> threads]

Vraps(t) == IF t = 0 THEN "rpsVraps" ELSE "rpcVraps"
Ones1(n) == [k \in 1 .. n |-> 1]

(* One word or full words; one output or two; every limit on the probes.   *)
Enumerations ==
  {Shape(Vraps(t), 1, 2, 1, Ones1(n), max, t, 0) : n \in {1, 2, 6}, max \in 1 .. 3, t \in 0 .. 1}
    \cup {Shape("rpcVraps", 1, 2, 1, <<1, 1>>, 0, 1, 0)}
    \cup {Shape("rpcVraps", 1, 4, 1, Ones1(4), 4, 1, 0), Shape("rpcVraps", 1, 4, 1, Ones1(4), 2, 3, 0)}
    \cup {Shape(Vraps(t), 2, 2, 1, Ones1(4), 2, t, 0) : t \in 0 .. 1}
    \cup {Shape("rpcVraps", 1, 3, 1, <<1>>, 1, 2, 0)}

(* The calculations: kind, t, shares, inputs, copies of the probes.        *)
Calculations ==
  {Shape("rpsVraps", 1, 1, 1, <<1, 2, 1>>, 3, 0, 2), Shape("rpsCor3", 1, 1, 1, <<1, 2, 1>>, 2, 0, 0),
   Shape("rpsCor2", 1, 1, 2, <<2, 1, 1>>, 3, 0, 0), Shape("rpsCor1", 1, 1, 2, <<1, 2, 1>>, 2, 0, 0),
   Shape("rpcVraps", 1, 2, 1, <<1, 2>>, 2, 1, 0), Shape("rpcVraps", 1, 2, 2, <<1, 1>>, 1, 1, 2),
   Shape("rpcVraps", 2, 2, 1, <<1, 1, 2, 1>>, 1, 1, 0), Shape("rpcCor2", 1, 2, 1, <<2, 1>>, 1, 1, 0),
   Shape("rpcCor1", 1, 2, 1, <<2>>, 2, 1, 0)}

(* The transforms of a row with correlation: one element, or all of them.  *)
Element(shape, at, v) == [k \in 0 .. 2^(shape.d * shape.numIns) - 1 |-> IF k \in at THEN v ELSE 0]

Transforms(shape) ==
  LET top == 2^(shape.d * shape.numIns) - 1
      full == 2^shape.numTotIns
  IN  IF shape.kind \in {"rpsVraps", "rpsCor3"} THEN {Element(shape, {top}, full)}
      ELSE IF shape.kind = "rpsCor2" THEN {Element(shape, {1}, 1), Element(shape, {2, 3}, -2), Element(shape, {3}, full)}
      ELSE IF shape.kind = "rpcVraps" /\ shape.numIns = 2 THEN {Element(shape, {k}, full) : k \in {1, 6, 12}}
      ELSE {Element(shape, {k}, full) : k \in 1 .. top} \cup {Element(shape, 1 .. top, full \div 2)}

InfoOf(shape, tr) ==
  CASE shape.kind \in {"rpsVraps", "rpsCor3"} -> hasCorr(shape.d, shape.numIns, tr)
    [] shape.kind \in {"rpcVraps", "rpcCor2"} -> arrayHasCoordWithCorr(shape.d, shape.numIns, tr)
    [] shape.kind = "rpsCor2" -> LET unit == 2^(shape.numTotIns + 1) IN
                                 sumCorr(shape.d, shape.numIns, unit - unit \div 2^shape.numIns, tr)
    [] shape.kind = "rpsCor1" -> rpsCor1Info(shape.d, shape.numIns, tr)
    [] shape.kind = "rpcCor1" -> rpcCor1Info(shape.d, shape.numIns, shape.t, tr)

AllShapes == Enumerations \cup Calculations

None == [shape \in AllShapes |-> InfoOf(shape, Element(shape, {}, 0))]
Some == [shape \in AllShapes |-> {InfoOf(shape, tr) : tr \in Transforms(shape)}]

(* How many rows may have correlation: all, where there is one kind of it; *)
(* two, or one, if there are more; none where only the enumeration is      *)
(* looked at.  The row of no wires never has.                              *)
MAX_CORRELATED(shape) ==
  IF shape \in Enumerations THEN 0
  ELSE IF Cardinality(Some[shape]) = 1 THEN 8
  ELSE IF shape.numOuts = 2 THEN 1 ELSE 2

MCInfos(shape, before, r) ==
  IF r # 0 /\ Cardinality({q \in DOMAIN before : before[q] # None[shape]}) < MAX_CORRELATED(shape)
  THEN Some[shape] \cup {None[shape]} ELSE {None[shape]}
=============================================================================
