----------------------------- MODULE CalcUtils ------------------------------
(***************************************************************************)
(* calcUtils.c and the getInfo functions of the calculations: what the     *)
(* transform of a row says of the gadget's inputs, and how two polynomials *)
(* of coefficients are merged.                                             *)
(*                                                                         *)
(* A coordinate of a transform, and an x that shares are multiplied with,  *)
(* is written as the set of its ones; the transform has the coordinate's   *)
(* number, Num, as the index.  Share j of input i is i * d + j.            *)
(***************************************************************************)
EXTENDS Integers, Sequences, FiniteSets, FiniteSetsExt, Functions

Num(S) == FoldSet(LAMBDA i, sum : sum + 2^i, 0, S)

Shares(d, numIns) == 0 .. d * numIns - 1

(* calcUtils_intExpandByD: the inputs I, in terms of all their shares.     *)
intExpandByD(d, I) == {i * d + j : i \in I, j \in 0 .. d - 1}

(* calcUtils_maxSharesIn: of the inputs' shares, the most that are in S.   *)
maxSharesIn(d, numIns, S) ==
  Max({0} \cup {Cardinality(S \cap intExpandByD(d, {i})) : i \in 0 .. numIns - 1})

(* ITERATE_II: the sets with at most t shares of each input.               *)
II(d, numIns, t) == {S \in SUBSET Shares(d, numIns) : maxSharesIn(d, numIns, S) <= t}

xor_of_and(S1, S2) == IF Cardinality(S1 \cap S2) % 2 = 0 THEN 1 ELSE -1

SumOver(S, Of(_)) == FoldSet(LAMBDA e, sum : sum + Of(e), 0, S)
-----------------------------------------------------------------------------
(* The coordinates of whole inputs, the empty one excluded.                *)
Inputs0(numIns) == SUBSET (0 .. numIns - 1) \ {{}}

(* getInfo of calc_rpsVraps.c.                                             *)
hasCorr(d, numIns, tr) == \E I \in Inputs0(numIns) : tr[Num(intExpandByD(d, I))] # 0

(* Mutant of arrayHasCoordWithCorr: coordinates of one share are left out. *)
arrayHasCoordWithCorr_Two(d, numIns, tr) ==
  {i \in Shares(d, numIns) :
     \E S \in SUBSET Shares(d, numIns) : i \in S /\ Cardinality(S) > 1 /\ tr[Num(S)] # 0}

(* getInfo of calc_rpcVraps.c: the shares in a coordinate with correlation. *)
arrayHasCoordWithCorr(d, numIns, tr) ==
  {i \in Shares(d, numIns) : \E S \in SUBSET Shares(d, numIns) : i \in S /\ tr[Num(S)] # 0}

(* getInfo of calc_rpsCor1.c and calc_rpcCor1.c, from elements as the code *)
(* reads them, an unsigned limb as it is.                                  *)
rpsCor1Info(d, numIns, tr) ==
  [x \in SUBSET (0 .. numIns - 1) |->
     SumOver(Inputs0(numIns), LAMBDA I : xor_of_and(I, x) * tr[Num(intExpandByD(d, I))])]

rpcCor1Info(d, numIns, t, tr) ==
  [ii \in II(d, numIns, t) |-> [x \in SUBSET Shares(d, numIns) |->
     SumOver({S \in SUBSET Shares(d, numIns) : ~(S \subseteq ii)},
             LAMBDA S : xor_of_and(S, x) * tr[Num(S)])]]

(* getInfo of calc_rpsCor2.c, in units of 2^(- numTotIns - 1).  The sum    *)
(* stops when it gets to sdMax, which it may not exceed.                   *)
sumCorr(d, numIns, max, tr) ==
  Min({max, SumOver(Inputs0(numIns), LAMBDA I : LET v == tr[Num(intExpandByD(d, I))]
                                                IN  IF v >= 0 THEN v ELSE -v)})
-----------------------------------------------------------------------------
(* Coefficients from 0 to maxCoeff, in units such that one is a number of  *)
(* them; calculateF at p = j / samples, times samples^maxCoeff.            *)
Deg(v) == Max(DOMAIN v)

calculateF(v, one, j, samples) ==
  LET pi(i) == IF i = 0 THEN 1 ELSE j^i
  IN  Min({one * samples^Deg(v),
           SumOver(DOMAIN v, LAMBDA i : v[i] * pi(i) * samples^(Deg(v) - i))})

(* calcUtils_coeffMaxIntoFirst: the first coefficients, or the second, if  *)
(* they are the greater everywhere, one by one or as functions, which is   *)
(* told by sampling them; the greater of each otherwise.                   *)
coeffMaxIntoFirst(v1, v2, one, samples) ==
  LET GE(a, b) == \A i \in DOMAIN v1 : a[i] >= b[i]
      FGE(a, b) == \A j \in 0 .. samples :
                     calculateF(a, one, j, samples) >= calculateF(b, one, j, samples)
  IN  IF GE(v1, v2) THEN v1 ELSE IF GE(v2, v1) THEN v2
      ELSE IF FGE(v1, v2) THEN v1 ELSE IF FGE(v2, v1) THEN v2
      ELSE [i \in DOMAIN v1 |-> Max({v1[i], v2[i]})]
=============================================================================
