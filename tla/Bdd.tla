--------------------------------- MODULE Bdd ---------------------------------
(***************************************************************************)
(* addCore.c, addOp.h and bdd.c: Boolean functions of a gadget's inputs as *)
(* decision diagrams, and the Walsh-Hadamard transform of one.             *)
(*                                                                         *)
(* A pointer to a diagram is a record of the fields that addCore.c packs   *)
(* in 64 bits.  A storage is the sequence of its nodes, in the order of    *)
(* their handles (Intern).  What the caches of the operations return is    *)
(* what a calculation returned (HashCache), the same pointer or number as  *)
(* calculating it again: they are left out.                                *)
(***************************************************************************)
EXTENDS Integers, Sequences, SequencesExt

CONSTANTS
  NumMaskedIns,          \* the input shares come first,
  NumRnds,               \* the random inputs follow
  NUMBER_I_VALUE_BITS    \* bits of a limb of a number

ASSUME InputsAssumption ==
  NumMaskedIns \in Nat /\ NumRnds \in Nat /\ NUMBER_I_VALUE_BITS \in Nat \ {0}

NumTotIns == NumMaskedIns + NumRnds
-----------------------------------------------------------------------------
(* addCore.c                                                               *)

CONST_MAGIC_INPUT == NumTotIns  \* of a leaf: above every input

addCore_leaf(isPos) == [input |-> CONST_MAGIC_INPUT, isPos |-> isPos, hash |-> 0]
addCore_isLeafElseNode(p) == p.input = CONST_MAGIC_INPUT
addCore_neg(p) == [p EXCEPT !.isPos = ~@]

(* The sub-diagrams for the values 0 and 1 of a pointer's input.           *)
addCore_getNode(s, p) ==
  [b \in 0 .. 1 |-> IF p.isPos THEN s[p.hash][b] ELSE addCore_neg(s[p.hash][b])]

IndexOf(s, key) == SelectInSeq(s, LAMBDA k : k = key)

(* hashSet_add: a node is stored once.                                     *)
hashSet_add(s, key) == IF Contains(s, key) THEN s ELSE Append(s, key)

(* Mutant of addCore_node: the sub-diagram for 0 may have any sign.        *)
addCore_node_AnySign(s, inputBit, sub0, sub1) ==
  LET key == [b \in 0 .. 1 |-> IF b = 0 THEN sub0 ELSE sub1]
      new == hashSet_add(s, key)
  IN  IF sub0 = sub1 THEN [s |-> s, ret |-> sub0]
      ELSE [s |-> new, ret |-> [input |-> inputBit, isPos |-> TRUE, hash |-> IndexOf(new, key)]]

(* No node for equal sub-diagrams, and the one for 0 is always positive:   *)
(* if it is not, the node is made of the negations, and negated.           *)
addCore_node(s, inputBit, sub0, sub1) ==
  LET Pos(p) == IF sub0.isPos THEN p ELSE addCore_neg(p)
      key    == [b \in 0 .. 1 |-> IF b = 0 THEN Pos(sub0) ELSE Pos(sub1)]
      new    == hashSet_add(s, key)
  IN  IF sub0 = sub1 THEN [s |-> s, ret |-> sub0]
      ELSE [s |-> new, ret |-> [input |-> inputBit, isPos |-> sub0.isPos, hash |-> IndexOf(new, key)]]

(* flattenR: a function's values, input currDepth being the highest bit of *)
(* the index.                                                              *)
RECURSIVE flattenR(_, _, _)
flattenR(s, p, currDepth) ==
  IF addCore_isLeafElseNode(p) THEN [i \in 1 .. 2^(NumTotIns - currDepth) |-> p.isPos]
  ELSE LET opens == p.input = currDepth
           Half(b) == flattenR(s, IF opens THEN addCore_getNode(s, p)[b] ELSE p, currDepth + 1)
       IN  Half(0) \o Half(1)
-----------------------------------------------------------------------------
(* bdd.c: fn_and and fn_xor, by addOp_binary of addOp.h.                   *)

bdd_val_const(val) == addCore_leaf(val)

(* Mutant of fastLeaf: exclusive or with true does not negate.             *)
fastLeaf_Same(op, isPos, other) ==
  IF op = "and" /\ ~isPos THEN bdd_val_const(FALSE) ELSE other

(* A constant and another function; of the same function, and of opposite  *)
(* ones.  Two constants are the same or opposite: the fullLeaf operations  *)
(* are never called.                                                       *)
fastLeaf(op, isPos, other) ==
  IF op = "and" THEN IF isPos THEN other ELSE bdd_val_const(FALSE)
  ELSE IF isPos THEN addCore_neg(other) ELSE other

same_op(op, p) == IF op = "and" THEN p ELSE bdd_val_const(FALSE)
opposite_op(op) == bdd_val_const(op = "xor")

(* The lower input of two nodes.                                           *)
OpenAt(p0, p1) == IF p0.input <= p1.input THEN p0.input ELSE p1.input

RECURSIVE addOp_binary(_, _, _, _)
addOp_binary(s, op, p0, p1) ==
  IF p0 = p1 THEN [s |-> s, ret |-> same_op(op, p0)]
  ELSE IF p0 = addCore_neg(p1) THEN [s |-> s, ret |-> opposite_op(op)]
  ELSE IF addCore_isLeafElseNode(p0) THEN [s |-> s, ret |-> fastLeaf(op, p0.isPos, p1)]
  ELSE IF addCore_isLeafElseNode(p1) THEN [s |-> s, ret |-> fastLeaf(op, p1.isPos, p0)]
  ELSE LET in == OpenAt(p0, p1)
           Sub(p, b) == IF p.input = in THEN addCore_getNode(s, p)[b] ELSE p
           sub0 == addOp_binary(s, op, Sub(p0, 0), Sub(p1, 0))
           sub1 == addOp_binary(sub0.s, op, Sub(p0, 1), Sub(p1, 1))
       IN  addCore_node(sub1.s, in, sub0.ret, sub1.ret)

bdd_val_single(s, inputBit) == addCore_node(s, inputBit, bdd_val_const(FALSE), bdd_val_const(TRUE))
bdd_op_not(val) == addCore_neg(val)
bdd_op_and(s, val0, val1) == addOp_binary(s, "and", val0, val1)
bdd_op_xor(s, val0, val1) == addOp_binary(s, "xor", val0, val1)
-----------------------------------------------------------------------------
(* number.h: numbers of enough limbs for numTotIns + 3 bits, in two's      *)
(* complement.                                                             *)

NUMBER_SIZE(totBits) == (totBits + NUMBER_I_VALUE_BITS - 1) \div NUMBER_I_VALUE_BITS
Width == NUMBER_SIZE(NumTotIns + 3) * NUMBER_I_VALUE_BITS
Number(v) == v % 2^Width

number_gez(v) == v < 2^(Width - 1)

(* The shift and the "or" of number_gez into the highest bit.              *)
number_local_div2(v) == (v \div 2) + (IF number_gez(v) THEN 2^(Width - 1) ELSE 0)
-----------------------------------------------------------------------------
(* bdd.c: the sum of (-1)^F over the random inputs.  A diagram without the *)
(* highest ones counts as their average, in units of 2^numRnds.            *)
RECURSIVE sumRnd(_, _)
sumRnd(s, val) ==
  IF addCore_isLeafElseNode(val) THEN Number(IF val.isPos THEN -(2^NumRnds) ELSE 2^NumRnds)
  ELSE LET sub == addCore_getNode(s, val)
       IN  number_local_div2(Number(sumRnd(s, sub[0]) + sumRnd(s, sub[1])))

(* Mutant of Blocks: the block counts as one leaf.                         *)
Blocks_Unscaled(ret, lowest, input, in) ==
  [i \in DOMAIN ret |-> IF i % 2^input # lowest \/ i % 2^in = lowest THEN ret[i] ELSE 0]

(* doSubTransform_block for each block whose inputs from input to in - 1   *)
(* do not matter: the first element is the sum, the differences are zero.  *)
Blocks(ret, lowest, input, in) ==
  [i \in DOMAIN ret |->
     IF i % 2^input # lowest THEN ret[i]
     ELSE IF i % 2^in = lowest THEN Number(ret[i] * 2^(in - input)) ELSE 0]

(* The elements of ret whose lowest input bits are lowest get the          *)
(* transform of val by the other inputs.                                   *)
RECURSIVE doSubTransform(_, _, _, _, _)
doSubTransform(s, val, ret, lowest, input) ==
  IF addCore_isLeafElseNode(val) \/ val.input >= NumMaskedIns
  THEN Blocks([ret EXCEPT ![lowest] = sumRnd(s, val)], lowest, input, NumMaskedIns)
  ELSE LET in    == val.input
           a     == addCore_getNode(s, val)
           half  == doSubTransform(s, a[0], ret, lowest, in + 1)
           v     == doSubTransform(s, a[1], half, 2^in + lowest, in + 1)
           steps == [i \in DOMAIN ret |->
                      IF i % 2^in # lowest THEN v[i]
                      ELSE IF (i \div 2^in) % 2 = 0 THEN Number(v[i] + v[i + 2^in])
                      ELSE Number(v[i - 2^in] - v[i])]
       IN  Blocks(steps, lowest, input, in)

bdd_sumCached_transform(s, val) ==
  doSubTransform(s, val, [i \in 0 .. 2^NumMaskedIns - 1 |-> 0], 0, 0)
=============================================================================
