------------------------------- MODULE Gadget -------------------------------
(***************************************************************************)
(* gadget.c: the two builders a description of a gadget is run with, as    *)
(* functions of their state, and the gadget made of what they collect.     *)
(* The first counts (basicGadgetInfo), the second numbers the wires and    *)
(* counts how often each is read (fnGenerator).  gadget_fromRaw keeps the  *)
(* wires that are read by somebody as probes, and repeats the operation of *)
(* each output, which is no probe itself.                                  *)
(* Wires and operations are numbered from 0, as in the code; the sequence  *)
(* op has wire w at w + 1.                                                 *)
(***************************************************************************)
EXTENDS Integers, Sequences, FiniteSets, SequencesExt

AtLeast(a, b) == IF a >= b THEN a ELSE b
-----------------------------------------------------------------------------
(* The first builder.                                                      *)
basicGadgetInfo_init ==
  [d |-> 0, numIns |-> 0, numRnds |-> 0, numOuts |-> 0, numOperations |-> 0]

basicGadgetInfo_rnd(i) == [i EXCEPT !.numRnds = @ + 1]

(* Mutant: the number of inputs is the last one's.                         *)
basicGadgetInfo_in_Last(i, numIn, numShare) ==
  [i EXCEPT !.numIns = AtLeast(@, numIn), !.d = AtLeast(@, numShare + 1)]

basicGadgetInfo_in(i, numIn, numShare) ==
  [i EXCEPT !.numIns = AtLeast(@, numIn + 1), !.d = AtLeast(@, numShare + 1)]

basicGadgetInfo_binary(i) == [i EXCEPT !.numOperations = @ + 1]

basicGadgetInfo_out(i, numOut, numShare) ==
  [i EXCEPT !.numOuts = AtLeast(@, numOut + 1), !.d = AtLeast(@, numShare + 1)]

numTotIns(i) == i.d * i.numIns + i.numRnds
-----------------------------------------------------------------------------
(* The second builder.  A wire read once needs no copy: mult is the number *)
(* of wires it stands for, itself and two for every further read, as each  *)
(* read but one is through a copy of one input and two outputs.            *)
Op(operation, inWire) == [operation |-> operation, inWire |-> inWire, mult |-> -1]

fnGenerator_alloc(i) ==
  [d |-> i.d, numIns |-> i.numIns, numOuts |-> i.numOuts, numAllocRnds |-> 0,
   op |-> [w \in 1 .. numTotIns(i) |-> Op("IN", <<w - 1, 0>>)],
   out2op |-> [o \in 0 .. i.d * i.numOuts - 1 |-> 0]]

Read(gen, v, n) == [gen EXCEPT !.op[v + 1].mult = @ + n]

(* Each function's new state, and its result if it has one.                *)
gen_rnd(gen) ==
  [gen |-> [gen EXCEPT !.numAllocRnds = @ + 1],
   ret |-> gen.numIns * gen.d + gen.numAllocRnds]

gen_in(gen, numIn, numShare) == [gen |-> gen, ret |-> numShare + gen.d * numIn]

gen_binary(gen, operation, v0, v1) ==
  [gen |-> [Read(Read(gen, v0, 2), v1, 2) EXCEPT !.op = Append(@, Op(operation, <<v0, v1>>))],
   ret |-> Len(gen.op)]

(* Mutant: an output is not counted as a read.                             *)
gen_out_NotRead(gen, v, numOut, numShare) ==
  [gen EXCEPT !.out2op[numOut * gen.d + numShare] = v]

gen_out(gen, v, numOut, numShare) ==
  [Read(gen, v, 1) EXCEPT !.out2op[numOut * gen.d + numShare] = v]
-----------------------------------------------------------------------------
(* The wires that are probes, in their order, and the number a wire gets   *)
(* when the wires before wire j have got theirs: 0, as allocated, if it    *)
(* has none.                                                               *)
IsProbe_Copied(gen, w) == gen.op[w + 1].mult > 1  \* mutant: only wires read twice

IsProbe(gen, w) == gen.op[w + 1].mult > 0

(* The members of a finite set of numbers in their order.                  *)
InOrder(S) == [n \in 1 .. Cardinality(S) |-> CHOOSE e \in S : Cardinality({l \in S : l <= e}) = n]

Probes(gen) == InOrder({w \in 0 .. Len(gen.op) - 1 : IsProbe(gen, w)})

opRelocator(gen, j, w) ==
  IF w < j /\ IsProbe(gen, w)
  THEN gen.d * gen.numOuts + Cardinality({v \in 0 .. w - 1 : IsProbe(gen, v)})
  ELSE 0

Relocated(gen, w, j, outWire) ==
  [operation |-> gen.op[w + 1].operation,
   inWire |-> IF gen.op[w + 1].operation = "IN" THEN gen.op[w + 1].inWire
              ELSE [k \in 1 .. 2 |-> opRelocator(gen, j, gen.op[w + 1].inWire[k])],
   outWire |-> outWire]

FromProbes(gen) ==
  [n \in 1 .. Len(Probes(gen)) |->
     Relocated(gen, Probes(gen)[n], Probes(gen)[n], n - 1 + gen.d * gen.numOuts)]

FromOuts(gen) ==
  [n \in 1 .. gen.d * gen.numOuts |->
     Relocated(gen, gen.out2op[n - 1], Len(gen.op), n - 1)]

gadget(i, gen) ==
  [d |-> i.d, numIns |-> i.numIns, numRnds |-> i.numRnds, numTotIns |-> numTotIns(i),
   numOuts |-> i.numOuts, numProbes |-> Len(Probes(gen)),
   numTotOuts |-> i.d * i.numOuts + Len(Probes(gen)),
   numTotProbes |->
     MapThenSumSet(LAMBDA n : gen.op[Probes(gen)[n] + 1].mult, 1 .. Len(Probes(gen))),
   probeMulteplicity |-> [n \in 1 .. Len(Probes(gen)) |-> gen.op[Probes(gen)[n] + 1].mult],
   op |-> FromProbes(gen) \o FromOuts(gen)]
=============================================================================
