------------------------------ MODULE ProbeComb -----------------------------
(***************************************************************************)
(* probeComb.c: the loops over the combinations of probes, and what they   *)
(* add up.  A gadget's distinct probes each stand for as many equal wires  *)
(* as their multeplicity; a combination says how many of each are leaked.  *)
(* ITERATE_OVER_PROBES visits them all, up to maxCoeff wires in total;     *)
(* ITERATE_OVER_PROBES_WHOSE_IMAGE_IS those that leak some of exactly the  *)
(* probes of a row, for calcUtils_addTotProbeMulteplicity.                 *)
(***************************************************************************)
EXTENDS Integers, Sequences, FiniteSets, FiniteSetsExt, Functions, Combinatorics

CONSTANTS
  Gadgets,  \* records: probeMulteplicity (a sequence), maxCoeff
  All       \* instead of an image: every combination

(* With maxCoeff 0 the increment that finds no probe to put back would go  *)
(* past the end of the array.                                              *)
ASSUME GadgetsAssumption ==
  \A g \in Gadgets :
    /\ g.probeMulteplicity \in Seq(Nat \ {0})
    /\ g.maxCoeff \in Nat \ {0}

VARIABLES
  g,
  image,   \* the row whose combinations are visited, or All
  comb,    \* iterator_comb
  count,   \* iterator_count
  coeffs,  \* what the loop has added, by iterator_count
  going    \* the loop still runs

vars == <<g, image, comb, count, coeffs, going>>

Probes == DOMAIN g.probeMulteplicity
-----------------------------------------------------------------------------
(* probeComb_firstWhoseImageIs, or all zeros.  An image has no more probes *)
(* than maxCoeff: the code fails otherwise, and rows come from row.c.      *)
Init ==
  /\ g \in Gadgets
  /\ image \in {All} \cup UNION {kSubset(n, Probes) : n \in 0 .. g.maxCoeff}
  /\ comb = [i \in Probes |-> IF image # All /\ i \in image THEN 1 ELSE 0]
  /\ count = IF image = All THEN 0 ELSE Cardinality(image)
  /\ coeffs = [n \in 0 .. g.maxCoeff |-> 0]
  /\ going = TRUE

(* probeComb_getProbesMulteplicity: the ways to choose the leaking wires.  *)
getProbesMulteplicity ==
  FoldSet(LAMBDA i, ret : ret * choose(g.probeMulteplicity[i], comb[i]), 1, Probes)

(* What a probe starts again from, and the probes that may change: leaving *)
(* zero or going back to it would change the image.                        *)
Low == IF image = All THEN 0 ELSE 1
Movable == {i \in Probes : image = All \/ comb[i] > 0}

Lowered == {i \in Probes : comb[i] > Low}

(* Mutant of FirstToInc: the probes after the next one may change only.    *)
FirstToInc_Late == IF count < g.maxCoeff THEN 1 ELSE 2 + Min(Lowered)

(* Below the limit any probe may be increased; at it, the lowest one that  *)
(* can be lowered is, as if it had been full, and only those after it may. *)
FirstToInc == IF count < g.maxCoeff THEN 1 ELSE 1 + Min(Lowered)

(* The carry stops at probe to, those before it start again.               *)
Incremented(to) ==
  [i \in Probes |-> IF i \in Movable /\ i < to THEN Low
                    ELSE IF i = to THEN comb[i] + 1
                    ELSE comb[i]]

(* Mutant of CountOf: a probe that starts again is taken off in full.      *)
CountOf_Full(to) ==
  count + 1 - FoldSet(LAMBDA i, sum : sum + comb[i], 0, {i \in Movable : i < to})

CountOf(to) ==
  count + 1 - FoldSet(LAMBDA i, sum : sum + comb[i] - Low, 0, {i \in Movable : i < to})

(* Mutant of Visit: the ways to choose the wires are not multiplied in.    *)
Visit_Once == coeffs' = [coeffs EXCEPT ![count] = @ + 1]

Visit == coeffs' = [coeffs EXCEPT ![count] = @ + getProbesMulteplicity]

(* probeComb_nextWithSameImage's early return.                             *)
Stuck == count >= g.maxCoeff /\ Lowered = {}

(* Both functions, probeComb_tryIncrement and probeComb_nextWithSameImage. *)
Open ==
  IF Stuck THEN {}
  ELSE {i \in Movable : i >= FirstToInc /\ comb[i] < g.probeMulteplicity[i]}

Increment ==
  /\ going
  /\ Visit
  /\ Open # {}
  /\ comb' = Incremented(Min(Open))
  /\ count' = CountOf(Min(Open))
  /\ UNCHANGED <<g, image, going>>

(* Mutant of LoopBack: without the early return the function would write   *)
(* past the end of the array; no step is right there.                      *)
LoopBack_NoReturn ==
  /\ going
  /\ Visit
  /\ Open = {} /\ ~Stuck
  /\ going' = FALSE
  /\ UNCHANGED <<g, image, comb, count>>

(* The carry is left over, or nothing can be moved: the loop ends.         *)
LoopBack ==
  /\ going
  /\ Visit
  /\ Open = {}
  /\ going' = FALSE
  /\ UNCHANGED <<g, image, comb, count>>

Next == Increment \/ LoopBack

(* A loop of one thread.                                                   *)
Spec == Init /\ [][Next]_vars /\ WF_vars(Next)
-----------------------------------------------------------------------------
(* The wires a combination may leak: probe i as often as it says.          *)
Copies(c) == UNION {{i} \X (1 .. c[i]) : i \in Probes}

(* probeComb_getHighestRow: the probes of which some wire leaks.           *)
HighestRow == {i \in Probes : comb[i] > 0}

(* Mutant of getRowMulteplicity: all the leaking wires count.              *)
getRowMulteplicity_All == FoldFunction(+, 0, comb)

(* probeComb_getRowMulteplicity, a logarithm.                              *)
getRowMulteplicity == FoldSet(LAMBDA i, ret : ret + comb[i] - 1, 0, HighestRow)

(* The probes that an odd number of a set's wires are equal to: only these *)
(* are left of the wires' sum.                                             *)
Row(S) == {i \in Probes : Cardinality({w \in S : w[1] = i}) % 2 = 1}

(* The combinations a loop is to visit: no more than maxCoeff wires, no     *)
(* probe more often than it has wires, and just the probes of the image.   *)
Combinations ==
  {c \in [Probes -> 0 .. g.maxCoeff] :
    /\ \A i \in Probes : c[i] <= g.probeMulteplicity[i]
    /\ FoldFunction(+, 0, c) <= g.maxCoeff
    /\ image # All => {i \in Probes : c[i] > 0} = image}

(* The first probes change fastest: the last one that differs decides.     *)
Below(a, b) ==
  \E i \in Probes : a[i] < b[i] /\ \A j \in Probes : j > i => a[j] = b[j]

(* The count the loop keeps through carries is the sum of the combination; *)
(* it is within the limit (it is an index of coeffs), no probe leaks more  *)
(* often than it has wires, and the image the loop was asked for stays.    *)
CountIsSum == count = FoldFunction(+, 0, comb) /\ comb \in Combinations

(* A step goes to the next combination in that order, whatever the carries *)
(* skip, and the loop ends only at the last one.                           *)
VisitsInOrder ==
  [][/\ comb' # comb => /\ Below(comb, comb')
                        /\ \A c \in Combinations : ~ (Below(comb, c) /\ Below(c, comb'))
     /\ going # going' => \A c \in Combinations : ~ Below(comb, c)]_vars

(* What the loop adds up to: for each number of wires, the sets of so many *)
(* wires that leak exactly the probes of the image.  No combination was    *)
(* left out or visited twice.                                              *)
CoeffsCountTheSets ==
  ~going =>
    \A n \in 0 .. g.maxCoeff :
      coeffs[n] = Cardinality({S \in SUBSET Copies(g.probeMulteplicity) :
                     Cardinality(S) = n /\ (image # All => {w[1] : w \in S} = image)})

(* The comment of probeComb_getRowMulteplicity: summing over the subsets   *)
(* of the leaking wires, each row below the highest comes 2^ret times.     *)
EachRowComesAsOften ==
  \A R \in SUBSET HighestRow :
    Cardinality({S \in SUBSET Copies(comb) : Row(S) = R}) = 2^getRowMulteplicity

(* The loop ends.                                                          *)
LoopEnds == <>~going
=============================================================================
