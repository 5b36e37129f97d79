------------------------- MODULE TransformGenerator -------------------------
(***************************************************************************)
(* transformGenerator.c: the functions of a gadget's wires, made operation *)
(* by operation, the functions of the rows (sums of wires), and the        *)
(* transform of each.  The gadget is not fixed: each step adds whatever    *)
(* operation on whatever earlier wires, up to a bound, its inputs first.   *)
(***************************************************************************)
EXTENDS Bdd, FiniteSets, FiniteSetsExt

CONSTANTS
  Ops,                \* of the gadget, GADGET_IN excepted
  MAX_OPS,            \* bounds on what is explored: operations
  MAX_ROWS,           \* and rows
  RandomsOnlyAdded    \* the gadget multiplies no wires that depend on randoms

BinaryOps == {"OR", "IMPLY", "XOR", "AND", "NOR", "NIMPLY", "XNOR", "NAND"}

ASSUME OpsAssumption ==
  /\ Ops \subseteq BinaryOps \cup {"NOT"}
  /\ MAX_OPS \in Nat /\ MAX_ROWS \in Nat /\ RandomsOnlyAdded \in BOOLEAN

VARIABLES
  g,            \* the operations: operation and inWire
  storage,      \* bddStorage
  x,            \* the functions that are one input
  core,         \* the functions of the wires
  rowIndex2bdd  \* the functions of the rows

vars == <<g, storage, x, core, rowIndex2bdd>>
-----------------------------------------------------------------------------
Init ==
  /\ g = <<>> /\ storage = <<>> /\ x = <<>> /\ core = <<>>
  /\ rowIndex2bdd = [row \in {} |-> 0]

Single ==
  /\ Len(x) < NumTotIns
  /\ LET node == bdd_val_single(storage, Len(x)) IN
     storage' = node.s /\ x' = Append(x, node.ret)
  /\ UNCHANGED <<g, core, rowIndex2bdd>>

Wire(operation, inWire, fn) ==
  /\ g' = Append(g, [operation |-> operation, inWire |-> inWire])
  /\ core' = Append(core, fn)
  /\ UNCHANGED <<x, rowIndex2bdd>>

In ==
  /\ Len(x) = NumTotIns /\ Len(g) < NumTotIns
  /\ Wire("IN", <<Len(g) + 1>>, x[Len(g) + 1])
  /\ UNCHANGED storage

MoreOps == Len(g) >= NumTotIns /\ Len(g) < NumTotIns + MAX_OPS /\ rowIndex2bdd = <<>>

Not ==
  /\ MoreOps /\ "NOT" \in Ops
  /\ \E w \in DOMAIN core : Wire("NOT", <<w>>, bdd_op_not(core[w]))
  /\ UNCHANGED storage

(* fnGenerator's switch.                                                   *)
Gate(operation, v0, v1) ==
  LET and == bdd_op_and(storage, v0, v1)
      xor == bdd_op_xor(storage, v0, v1)
      nor == bdd_op_and(storage, bdd_op_not(v0), bdd_op_not(v1))
      nimply == bdd_op_and(storage, v0, bdd_op_not(v1))
      Negated(fn) == [fn EXCEPT !.ret = bdd_op_not(@)]
  IN  CASE operation = "NOR" -> nor
        [] operation = "NIMPLY" -> nimply
        [] operation = "XOR" -> xor
        [] operation = "NAND" -> Negated(and)
        [] operation = "AND" -> and
        [] operation = "XNOR" -> Negated(xor)
        [] operation = "IMPLY" -> Negated(nimply)
        [] operation = "OR" -> Negated(nor)

(* The values of the wires for the inputs in set X.                        *)
Values(X) ==
  LET Op(operation, a, b) ==
        CASE operation = "OR" -> a \/ b
          [] operation = "NOR" -> ~(a \/ b)
          [] operation = "IMPLY" -> a => b
          [] operation = "NIMPLY" -> ~(a => b)
          [] operation = "XOR" -> a # b
          [] operation = "XNOR" -> a = b
          [] operation = "AND" -> a /\ b
          [] operation = "NAND" -> ~(a /\ b)
      val[w \in 1 .. Len(g)] ==
        CASE g[w].operation = "IN" -> g[w].inWire[1] - 1 \in X
          [] g[w].operation = "NOT" -> ~val[g[w].inWire[1]]
          [] OTHER -> Op(g[w].operation, val[g[w].inWire[1]], val[g[w].inWire[2]])
  IN  val

Inputs == SUBSET (0 .. NumTotIns - 1)

DependsOnRandoms(w) ==
  \E X \in Inputs, i \in NumMaskedIns .. NumTotIns - 1 : Values(X)[w] # Values(X \ {i})[w]

Binary ==
  /\ MoreOps
  /\ \E operation \in Ops \cap BinaryOps, w0, w1 \in DOMAIN core :
       /\ (RandomsOnlyAdded /\ operation \notin {"XOR", "XNOR"})
             => ~DependsOnRandoms(w0) /\ ~DependsOnRandoms(w1)
       /\ LET fn == Gate(operation, core[w0], core[w1]) IN
          Wire(operation, <<w0, w1>>, fn.ret) /\ storage' = fn.s

(* The function of a row: from the constant 0, the wires are added in      *)
(* their order.                                                            *)
AddWires(row) ==
  FoldLeft(LAMBDA fn, w : bdd_op_xor(fn.s, fn.ret, core[w]),
           [s |-> storage, ret |-> bdd_val_const(FALSE)], SetToSortSeq(row, <))

Row2Bdd ==
  /\ Len(g) >= NumTotIns /\ g # <<>>
  /\ Cardinality(DOMAIN rowIndex2bdd) < MAX_ROWS
  /\ \E row \in SUBSET (DOMAIN core) \ DOMAIN rowIndex2bdd :
       LET fn == AddWires(row) IN
       /\ storage' = fn.s
       /\ rowIndex2bdd' = [r \in DOMAIN rowIndex2bdd \cup {row} |->
                             IF r = row THEN fn.ret ELSE rowIndex2bdd[r]]
  /\ UNCHANGED <<g, x, core>>

getTransform(row) == bdd_sumCached_transform(storage, rowIndex2bdd[row])

Next == Single \/ In \/ Not \/ Binary \/ Row2Bdd

(* Steps of the main thread.                                               *)
Spec == Init /\ [][Next]_vars
-----------------------------------------------------------------------------
(* The row's sum of wires, for the inputs in X.                            *)
Sum(row, X) == Cardinality({w \in row : Values(X)[w]}) % 2 = 1

(* Index i of flattenR, from 1, as a set of inputs.                        *)
InputsAt(i) == {in \in 0 .. NumTotIns - 1 : ((i - 1) \div 2^(NumTotIns - 1 - in)) % 2 = 1}

(* What addCore_flattenR returns of a wire or row is its truth table.      *)
FlattenIsTheFunction ==
  /\ \A w \in DOMAIN core : LET flat == flattenR(storage, core[w], 0) IN
       \A i \in 1 .. 2^NumTotIns : flat[i] = Values(InputsAt(i))[w]
  /\ \A row \in DOMAIN rowIndex2bdd : LET flat == flattenR(storage, rowIndex2bdd[row], 0) IN
       \A i \in 1 .. 2^NumTotIns : flat[i] = Sum(row, InputsAt(i))

(* Functions are equal if and only if their pointers are: what the caches  *)
(* and the shortcuts of addOp_binary ("p0 == p1") go by.                   *)
OnePointerPerFunction ==
  LET fns == ToSet(x) \cup ToSet(core) \cup {rowIndex2bdd[row] : row \in DOMAIN rowIndex2bdd}
  IN  \A p, q \in fns : flattenR(storage, p, 0) = flattenR(storage, q, 0) => p = q

(* The elements are the sums, over all inputs, of (-1)^F(x) (-1)^(ii.x),   *)
(* as test/transform.sh calculates it: walsh=fwht(...) of the functions'   *)
(* signs.                                                                  *)
Walsh(row, ii) ==
  LET odd(X) == Sum(row, X) # (Cardinality({in \in X \ (NumMaskedIns .. NumTotIns - 1) : (ii \div 2^in) % 2 = 1}) % 2 = 1)
  IN  2^NumTotIns - 2 * Cardinality({X \in Inputs : odd(X)})

TransformIsWalsh ==
  \A row \in DOMAIN rowIndex2bdd :
    LET tr == getTransform(row) IN
    \A ii \in 0 .. 2^NumMaskedIns - 1 : tr[ii] = Number(Walsh(row, ii))
=============================================================================
