--------------------------- MODULE MCSubrowHashed ---------------------------
(* Gadgets for the passes alone, in words of four bits, the last of two    *)
(* words used in part.                                                     *)
EXTENDS SubrowHashed

PartlyUsed ==
  {[numOuts |-> 1, d |-> 2, numTotOuts |-> 5, maxCoeff |-> 2, t |-> 0],
   [numOuts |-> 1, d |-> 2, numTotOuts |-> 6, maxCoeff |-> 3, t |-> 1]}

SameInfo(shape, before, r) == {"i1"}
=============================================================================
