----------------------------- MODULE ParserSage -----------------------------
(***************************************************************************)
(* parserSage.c and gadget_fromRaw: a file is read twice, calling one of   *)
(* the gadget's builders each time, and the gadget is made.                *)
(*                                                                         *)
(* A file is a header, the lines #SHARES, #IN, #RANDOMS and #OUT, and a    *)
(* body of assignments ret = v1 op v2.  Names are compared only for being  *)
(* equal.  The body is written by the first pass, as it reads it, and only *)
(* read by the second.                                                     *)
(***************************************************************************)
EXTENDS Gadget

CONSTANTS
  Headers,          \* [d, ins, rnds, outs, complete]: complete if no line is missing
  Names(_),         \* of a header: the names its body may use
  Assigned(_),      \* those of them it may assign
  MaxAssignments(_),\* bound on its body
  MAX_NUM_TOT_INS

(* The name of a share of an input or output: the number is appended.      *)
Share(name, i) == <<name, i>>

(* Names of the header are distinct; what the body uses has names.         *)
ASSUME HeadersAssumption ==
  /\ MAX_NUM_TOT_INS \in Nat
  /\ \A h \in Headers :
       /\ h.d \in Nat \ {0} /\ h.complete \in BOOLEAN
       /\ h.ins \in Seq(ToSet(h.ins)) /\ h.rnds \in Seq(ToSet(h.rnds)) /\ h.outs \in Seq(ToSet(h.outs))
       /\ IsInjective(h.ins) /\ IsInjective(h.rnds) /\ IsInjective(h.outs)
       /\ \A name \in ToSet(h.rnds) : name \notin ToSet(h.ins) \X Nat
       /\ Assigned(h) \subseteq Names(h) /\ MaxAssignments(h) \in Nat

VARIABLES
  pc,     \* what is read next, "done", or "failed" if the program has exited
  pass,   \* 1: basicGadgetInfo's builder, 2: fnGenerator's
  file,   \* header and body
  pos,    \* how much of the part that is read has been read
  wires,  \* wires_n and wires_v
  info,   \* of the first pass
  gen,    \* of the second
  g       \* the gadget

vars == <<pc, pass, file, pos, wires, info, gen, g>>
-----------------------------------------------------------------------------
Init ==
  /\ pc = "header" /\ pass = 1 /\ pos = 0 /\ wires = <<>>
  /\ file \in [header : Headers, body : {<<>>}]
  /\ info = basicGadgetInfo_init
  /\ gen = <<>> /\ g = <<>>

header == file.header
numMaskedIns == Len(header.ins) * header.d
numMaskedOuts == Len(header.outs) * header.d

Fail == pc' = "failed" /\ UNCHANGED <<pass, file, pos, wires, info, gen, g>>

findWire(name) == SelectInSeq(wires, LAMBDA w : w.name = name)
NotFound == 0

ReadHeader ==
  /\ pc = "header"
  /\ IF header.complete
     THEN /\ pc' = "ins" /\ pos' = 0
          /\ UNCHANGED <<pass, file, wires, info, gen, g>>
     ELSE Fail

(* One call of the builder in use: its new state, and its result.  The     *)
(* first builder's results are all 0.                                      *)
Call(first, second) ==
  IF pass = 1 THEN info' = first /\ UNCHANGED gen ELSE gen' = second.gen /\ UNCHANGED info

Returned(second) == IF pass = 1 THEN 0 ELSE second.ret

NewWire(name, v) == wires' = Append(wires, [name |-> name, v |-> v])

In ==
  /\ pc = "ins" /\ pos < numMaskedIns
  /\ LET numIn == pos \div header.d
         i == pos % header.d
         second == gen_in(gen, numIn, i)
     IN  /\ Call(basicGadgetInfo_in(info, numIn, i), second)
         /\ NewWire(Share(header.ins[numIn + 1], i), Returned(second))
  /\ pos' = pos + 1
  /\ UNCHANGED <<pc, pass, file, g>>

Rnd ==
  /\ pc = "ins" /\ pos \in numMaskedIns .. numMaskedIns + Len(header.rnds) - 1
  /\ Call(basicGadgetInfo_rnd(info), gen_rnd(gen))
  /\ NewWire(header.rnds[pos - numMaskedIns + 1], Returned(gen_rnd(gen)))
  /\ pos' = pos + 1
  /\ UNCHANGED <<pc, pass, file, g>>

EndOfHeader ==
  /\ pc = "ins" /\ pos = numMaskedIns + Len(header.rnds)
  /\ pc' = "body" /\ pos' = 0
  /\ UNCHANGED <<pass, file, wires, info, gen, g>>

(* The assignment at pos: in the first pass any, which is then the file's. *)
Lines ==
  IF pass = 2 THEN {file.body[n] : n \in {pos + 1} \cap DOMAIN file.body}
  ELSE IF pos = MaxAssignments(header) THEN {}
  ELSE [ret : Assigned(header), operation : {"XOR", "AND"},
        v1 : Names(header), v2 : Names(header)]

(* The name is looked up before the operands are, and gets its value after *)
(* them: assigned again, it is read as it was.                             *)
Assign ==
  /\ pc = "body"
  /\ \E line \in Lines :
       LET ret == findWire(line.ret)
           v1 == findWire(line.v1)
           v2 == findWire(line.v2)
           second == gen_binary(gen, line.operation, wires[v1].v, wires[v2].v)
       IN  IF v1 = NotFound \/ v2 = NotFound
           THEN Fail
           ELSE /\ Call(basicGadgetInfo_binary(info), second)
                /\ IF ret = NotFound THEN NewWire(line.ret, Returned(second))
                   ELSE wires' = [wires EXCEPT ![ret].v = Returned(second)]
                /\ file' = [file EXCEPT !.body = IF pass = 1 THEN Append(@, line) ELSE @]
                /\ pos' = pos + 1
                /\ UNCHANGED <<pc, pass, g>>

(* The arrays of the names have three places for each "=" of the file; what *)
(* a file with more names does is undefined, and there are none.           *)
maxNumTotOuts == 3 * Len(file.body)

EndOfBody ==
  /\ pc = "body" /\ pos = Len(file.body)
  /\ Len(wires) <= maxNumTotOuts /\ numMaskedOuts <= maxNumTotOuts
  /\ pc' = "outs" /\ pos' = 0
  /\ UNCHANGED <<pass, file, wires, info, gen, g>>

Out ==
  /\ pc = "outs" /\ pos < numMaskedOuts
  /\ LET numOut == pos \div header.d
         i == pos % header.d
         w == findWire(Share(header.outs[numOut + 1], i))
     IN  IF w = NotFound
         THEN Fail
         ELSE /\ IF pass = 1
                 THEN info' = basicGadgetInfo_out(info, numOut, i) /\ UNCHANGED gen
                 ELSE gen' = gen_out(gen, wires[w].v, numOut, i) /\ UNCHANGED info
              /\ pos' = pos + 1
              /\ UNCHANGED <<pc, pass, file, wires, g>>

(* gadget_fromRaw between the passes, and after them.                      *)
EndOfFirst ==
  /\ pc = "outs" /\ pos = numMaskedOuts /\ pass = 1
  /\ IF numTotIns(info) > MAX_NUM_TOT_INS
     THEN Fail
     ELSE /\ gen' = fnGenerator_alloc(info)
          /\ pc' = "header" /\ pass' = 2 /\ pos' = 0 /\ wires' = <<>>
          /\ UNCHANGED <<file, info, g>>

EndOfSecond ==
  /\ pc = "outs" /\ pos = numMaskedOuts /\ pass = 2
  /\ g' = gadget(info, gen)
  /\ pc' = "done"
  /\ UNCHANGED <<pass, file, pos, wires, info, gen>>

Next ==
  \/ ReadHeader \/ In \/ Rnd \/ EndOfHeader \/ Assign \/ EndOfBody \/ Out
  \/ EndOfFirst \/ EndOfSecond

Spec == Init /\ [][Next]_vars
-----------------------------------------------------------------------------
(* What the second pass uses lies within what was allocated after the      *)
(* first: random inputs, operations and outputs; and a wire a name stands  *)
(* for exists (fnGenerator_alloc and the builder's functions check none).  *)
(* A name the first pass found is found again.                             *)
SecondPassFits ==
  pass = 2 =>
    /\ pc # "failed"
    /\ gen.numAllocRnds <= info.numRnds
    /\ Len(gen.op) <= numTotIns(info) + info.numOperations
    /\ DOMAIN gen.out2op = 0 .. numMaskedOuts - 1
    /\ \A w \in Range(wires) : w.v < Len(gen.op)
    /\ pc = "done" =>
         /\ gen.numAllocRnds = info.numRnds
         /\ Len(gen.op) = numTotIns(info) + info.numOperations
         /\ header.ins # <<>> \/ header.outs # <<>> => info.d = header.d

(* What the file says, without wires: the definition, input or assignment, *)
(* a name stands for at assignment n is its last assignment, or the input. *)
InputNames ==
  [k \in 1 .. numMaskedIns |-> Share(header.ins[(k - 1) \div header.d + 1], (k - 1) % header.d)]
    \o header.rnds

Definitions == 1 .. Len(InputNames) + Len(file.body)

Stands(name, n) ==
  LET lines == {m \in 1 .. n - 1 : file.body[m].ret = name} IN
  IF lines = {}
  THEN CHOOSE k \in DOMAIN InputNames : InputNames[k] = name
  ELSE Len(InputNames) + CHOOSE m \in lines : \A l \in lines : l <= m

OutName(o) == Share(header.outs[o \div header.d + 1], o % header.d)

StandsForOut(o) == Stands(OutName(o), Len(file.body) + 1)

(* The values of the definitions when the inputs in X, numbered from 0,    *)
(* are true; the values of the gadget's wires, its operations done in      *)
(* their order.                                                            *)
Result(operation, a, b) == IF operation = "XOR" THEN a # b ELSE a /\ b

Described(X) ==
  LET val[def \in Definitions] ==
        IF def <= Len(InputNames) THEN def - 1 \in X
        ELSE LET n == def - Len(InputNames)
                 line == file.body[n]
             IN  Result(line.operation, val[Stands(line.v1, n)], val[Stands(line.v2, n)])
  IN  val

Computed(X) ==
  FoldLeft(LAMBDA val, op :
             [w \in DOMAIN val \cup {op.outWire} |->
                IF w # op.outWire THEN val[w]
                ELSE IF op.operation = "IN" THEN op.inWire[1] \in X
                ELSE Result(op.operation, val[op.inWire[1]], val[op.inWire[2]])],
           [w \in {} |-> FALSE], g.op)

(* An operation reads wires that an operation before it wrote: the         *)
(* transform and the printing go through the operations in their order.    *)
WrittenBeforeRead ==
  \A n \in DOMAIN g.op :
    g.op[n].operation = "IN" \/ Range(g.op[n].inWire) \subseteq {g.op[m].outWire : m \in 1 .. n - 1}

(* The gadget computes what the file says: every output has the value of   *)
(* the definition its name stands for at the end of the file, whatever the *)
(* inputs, however often names were assigned again and although            *)
(* assignments nobody reads are gone and wires have new numbers            *)
(* (gadget_fromRaw).                                                       *)
CircuitIsProgram ==
  pc = "done" =>
    /\ WrittenBeforeRead
    /\ {op.outWire : op \in Range(g.op)} = 0 .. g.numTotOuts - 1
    /\ \A X \in SUBSET (0 .. g.numTotIns - 1) :
         LET described == Described(X)
             computed == Computed(X)
         IN  \A o \in 0 .. numMaskedOuts - 1 : computed[o] = described[StandsForOut(o)]

(* The probes are the wires of the circuit in which a value read n times   *)
(* goes through n - 1 copies, each with one wire in and two out; the       *)
(* gadget's outputs themselves are no probes.  One probe stands for all    *)
(* the wires with the value of one definition.                             *)
Readers(def) ==
  {read \in (DOMAIN file.body) \X {"v1", "v2"} : Stands(file.body[read[1]][read[2]], read[1]) = def}

OutReaders(def) == {o \in 0 .. numMaskedOuts - 1 : StandsForOut(o) = def}

Copies(def) == Cardinality(Readers(def)) + Cardinality(OutReaders(def)) - 1

ProbesOf(def) == 1 + 2 * Copies(def) - Cardinality(OutReaders(def))

CopiesAreProbes ==
  pc = "done" =>
    LET probed == InOrder({def \in Definitions : ProbesOf(def) > 0})
    IN  /\ g.probeMulteplicity = [n \in 1 .. Len(probed) |-> ProbesOf(probed[n])]
        /\ g.numTotProbes = MapThenSumSet(LAMBDA n : ProbesOf(probed[n]), DOMAIN probed)
        /\ \A X \in SUBSET (0 .. g.numTotIns - 1) :
             LET described == Described(X)
                 computed == Computed(X)
             IN  \A n \in DOMAIN probed :
                   computed[numMaskedOuts + n - 1] = described[probed[n]]
-----------------------------------------------------------------------------

=============================================================================
