-------------------------------- MODULE Row ---------------------------------
(***************************************************************************)
(* row.c on the bit arrays of bitArray.h: the next row of an enumeration.  *)
(* A row is a set of wires: bit i is output share i below numOuts * d, and *)
(* a probe above.  A bit array of any number of words is written as the    *)
(* number its words make up, the first word the lowest.                    *)
(***************************************************************************)
EXTENDS Integers, Sequences, FiniteSets, FiniteSetsExt

CONSTANT BITARRAY_I_VALUE_BITS  \* bits of a word

ASSUME WordAssumption == BITARRAY_I_VALUE_BITS \in Nat \ {0}

BITARRAY_I_SIZE(bits) == (bits + BITARRAY_I_VALUE_BITS - 1) \div BITARRAY_I_VALUE_BITS

get(arr, i) == (arr \div 2^i) % 2 = 1

(* The ones of a row, those of the unused bits of the last word included.  *)
Ones(g, row) == {i \in 0 .. BITARRAY_I_SIZE(g.numTotOuts) * BITARRAY_I_VALUE_BITS - 1 : get(row, i)}

(* Mutant of localInc: nothing is said of an overflow.                     *)
localInc_Silent(bits, arr, fromBit) ==
  [row |-> (arr + 2^fromBit) % 2^(BITARRAY_I_SIZE(bits) * BITARRAY_I_VALUE_BITS),
   overflows |-> FALSE]

(* bitArray_localInc adds 2^fromBit, word by word until there is no carry. *)
(* It says that this overflows if the last word was reached and holds at   *)
(* least the mask of its used bits; or, if all its bits are used, by the   *)
(* carry out of it.                                                        *)
localInc(bits, arr, fromBit) ==
  LET words == BITARRAY_I_SIZE(bits)
      used  == bits % BITARRAY_I_VALUE_BITS
      sum   == arr + 2^fromBit
      new   == sum % 2^(words * BITARRAY_I_VALUE_BITS)
      last(a) == a \div 2^((words - 1) * BITARRAY_I_VALUE_BITS)
  IN  [row |-> new,
       overflows |-> IF used = 0 THEN sum # new
                     ELSE last(new) # last(arr) /\ last(new) >= 2^used - 1]
-----------------------------------------------------------------------------
(* A gadget's shape and the limits of the enumeration.                     *)
numMaskedOuts(g) == g.numOuts * g.d
OutBits(g, o) == o * g.d .. (o + 1) * g.d - 1

(* row_tryNextOut__i: the next combination of at most t shares of output o, *)
(* there is none if the highest t are set.                                 *)
AtTop(g, row, o) == \A i \in (o + 1) * g.d - g.t .. (o + 1) * g.d - 1 : get(row, i)

NextOut(g, row, o) ==
  LET ones == {i \in OutBits(g, o) : get(row, i)}
  IN  row + 2^(IF Cardinality(ones) < g.t THEN o * g.d ELSE Min(ones))

(* row_tryNext_outLeqT: the first output that has a next combination takes *)
(* it, those before it start again.                                        *)
outLeqT(g, row) ==
  LET open == {o \in 0 .. g.numOuts - 1 : ~AtTop(g, row, o)}
      ResetBelow(o) == row - (row % 2^(o * g.d))
  IN  IF open = {} THEN [row |-> ResetBelow(g.numOuts), more |-> FALSE]
      ELSE [row |-> NextOut(g, ResetBelow(Min(open)), Min(open)), more |-> TRUE]

Inc(g, row, fromBit) ==
  LET inc == localInc(g.numTotOuts, row, fromBit)
  IN  [row |-> inc.row, more |-> ~inc.overflows]

(* Mutant of probeLeqMaxCoeff: one probe less is allowed.                  *)
probeLeqMaxCoeff_Less(g, row) ==
  LET count == Cardinality(Ones(g, row)) IN
  IF count < g.maxCoeff - 1 THEN Inc(g, row, numMaskedOuts(g))
  ELSE IF g.maxCoeff = 0 \/ count = 0 THEN [row |-> row, more |-> FALSE]
  ELSE Inc(g, row, Min(Ones(g, row)))

(* row_tryNext_probeLeqMaxCoeff, of a row whose outputs are all zero.      *)
probeLeqMaxCoeff(g, row) ==
  IF Cardinality(Ones(g, row)) < g.maxCoeff THEN Inc(g, row, numMaskedOuts(g))
  ELSE IF g.maxCoeff = 0 THEN [row |-> row, more |-> FALSE]
  ELSE Inc(g, row, Min(Ones(g, row)))

(* Mutant of tryNext: the combinations of outputs are left out.           *)
tryNext_ProbesOnly(g, row) == probeLeqMaxCoeff(g, row)

(* wrapper.c's tryNext: RPS (t = 0) has no combinations of outputs.        *)
tryNext(g, row) ==
  IF g.t = 0 THEN probeLeqMaxCoeff(g, row)
  ELSE LET out == outLeqT(g, row)
       IN  IF out.more THEN out ELSE probeLeqMaxCoeff(g, out.row)

(* row_maxShares: of the outputs' shares, the most that are in the row.    *)
row_maxShares(g, row) ==
  Max({Cardinality(Ones(g, row) \cap OutBits(g, o)) : o \in 0 .. g.numOuts - 1})

(* bitArray_or                                                             *)
Or(g, row1, row2) == FoldSet(LAMBDA i, row : row + 2^i, 0, Ones(g, row1) \cup Ones(g, row2))

(* Mutant of tryNext_subrow: what is below the wire that is set stays.     *)
tryNext_subrow_NoReset(g, highestRow, curr) ==
  LET zeros == Ones(g, highestRow) \ Ones(g, curr) IN
  IF zeros = {} THEN [row |-> curr, more |-> FALSE]
  ELSE [row |-> curr + 2^Min(zeros), more |-> TRUE]

(* row_tryNext_subrow: the lowest wire that is missing is set, and those   *)
(* below it are reset.                                                     *)
tryNext_subrow(g, highestRow, curr) ==
  LET zeros == Ones(g, highestRow) \ Ones(g, curr)
      lowest0 == Min(zeros)
  IN  IF zeros = {} THEN [row |-> curr, more |-> FALSE]
      ELSE [row |-> curr - (curr % 2^lowest0) + 2^lowest0, more |-> TRUE]

(* ITERATE_OVER_SUB_ROWS: the subrows of a row, in the loop's order.       *)
SubRows(g, row) ==
  LET From[sub \in 0 .. row] ==
        LET next == tryNext_subrow(g, row, sub)
        IN  <<sub>> \o (IF next.more THEN From[next.row] ELSE <<>>)
  IN  From[0]
=============================================================================
