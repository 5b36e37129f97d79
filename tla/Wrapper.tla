------------------------------ MODULE Wrapper -------------------------------
(***************************************************************************)
(* wrapper.c and the calculations, calc_*.c: after the passes over the     *)
(* rows (SubrowHashed), threads calculate a value for each class, from the *)
(* infos of all the subrows of one row of it; then the main thread looks   *)
(* up the value of each row by its class and adds up the coefficients, one *)
(* for each number of leaking wires, for each combination of outputs or    *)
(* value of the inputs, and keeps the greatest.                            *)
(*                                                                         *)
(* Real numbers are fractions of a power of two here: 1.0 is One units.    *)
(***************************************************************************)
EXTENDS SubrowHashed, Threads, CalcUtils, Combinatorics

CONSTANT SAMPLES  \* of coeffMaxIntoFirst: its steps FN_CMP_STEP to 1

RPC == {"rpcVraps", "rpcCor1", "rpcCor2"}
RPS == {"rpsVraps", "rpsCor1", "rpsCor2", "rpsCor3"}

(* What main takes for T: for RPC only, and below the shares.              *)
Arguments(shape) ==
  \/ shape.kind \in RPC /\ shape.t \in 0 .. shape.d - 1
  \/ shape.kind \in RPS /\ shape.t = 0

(* A gadget has also: kind, the calculation; numIns and numTotIns;         *)
(* probeMulteplicity, in the order of the probes; threads, NUM_THREADS.    *)
ASSUME CalculationsAssumption ==
  /\ SAMPLES \in Nat \ {0}
  /\ \A shape \in Gadgets :
       /\ shape.numIns \in Nat \ {0} /\ shape.numTotIns >= shape.d * shape.numIns
       /\ shape.probeMulteplicity \in Seq(Nat \ {0})
       /\ Len(shape.probeMulteplicity) = shape.numTotOuts - shape.numOuts * shape.d
       /\ Arguments(shape)
       /\ shape.kind = "rpsCor2" => shape.maxCoeff # 0   \* see ProbeComb
       /\ shape.threads \in Nat

VARIABLES
  index,       \* each thread's place in its share of the slots of the classes
  sdBySubrow,  \* the values of each class, alternative by alternative
  out, x,      \* the combination of outputs or inputs that is added up
  coeff_curr,  \* its coefficients
  ret_coeffs

calcVars == <<index, sdBySubrow, out, x, coeff_curr, ret_coeffs>>
vars == <<passVars, calcVars>>
-----------------------------------------------------------------------------
One == 2^(g.numTotIns + 1 + g.numOuts * g.t + g.maxCoeff)
sdMax(bits) == One - One \div 2^bits  \* 1 - ldexp(1.0, -bits)

(* rpsCor3 and rpcCor2 are the Vraps ones, and a factor.                   *)
IsVraps == g.kind \in {"rpsVraps", "rpsCor3", "rpcVraps", "rpcCor2"}
IsRpc == g.kind \in RPC

Mult(i) == g.probeMulteplicity[i - numMaskedOuts(g) + 1]
numTotProbes == FoldFunction(+, 0, g.probeMulteplicity)
Coeffs == 0 .. numTotProbes

(* numAlternativeSd: rpsCor1 has a value for each value of the inputs.     *)
Alternatives == IF g.kind = "rpsCor1" THEN 0 .. 2^g.numIns - 1 ELSE {0}
XOf(alt) == {i \in 0 .. g.numIns - 1 : get(alt, i)}

(* wrapper_getRowInfo of the subrows, in their order.                      *)
InfosOf(row) == FoldLeft(LAMBDA infos, sub : Append(infos, info[sub]), <<>>, SubRows(g, row))

(* The sums over i and j of calc_rpsCor1.c and calc_rpcCor1.c, with the    *)
(* places of the subrows instead of the subrows, scaled.                   *)
Outer(v) ==
  LET Bits(k) == {b \in 0 .. Len(v) - 1 : get(k - 1, b)}
      Inner(j) == SumOver(DOMAIN v, LAMBDA i : xor_of_and(Bits(i), Bits(j)) * v[i])
      Abs(n) == IF n >= 0 THEN n ELSE -n
  IN  SumOver(DOMAIN v, LAMBDA j : Abs(Inner(j))) * (One \div (2^(g.numTotIns + 1) * Len(v)))

(* iterateOverUniqueBySubrows of calc_rpsVraps.c, calc_rpcVraps.c,         *)
(* calc_rpsCor2.c, calc_rpsCor1.c and calc_rpcCor1.c, from the infos of a  *)
(* row's subrows.                                                          *)
SdRpsVraps(infos) == IF \E k \in DOMAIN infos : infos[k] THEN One ELSE 0

SdRpcVraps(infos) ==
  IF maxSharesIn(g.d, g.numIns, UNION Range(infos)) > g.t THEN One ELSE 0

SdRpsCor2(infos) ==
  Min({sdMax(g.numIns), SumOver(DOMAIN infos, LAMBDA k : infos[k]) * (One \div 2^(g.numTotIns + 1))})

SdRpsCor1(infos, alt) ==
  Min({sdMax(g.numIns), Outer([k \in DOMAIN infos |-> infos[k][XOf(alt)]])})

SdRpcCor1(infos) ==
  LET Greatest(ii) == Max({Outer([k \in DOMAIN infos |-> infos[k][ii][xs]])
                             : xs \in SUBSET Shares(g.d, g.numIns)})
  IN  Min({Min({sdMax(g.d * g.numIns - Cardinality(ii)), Greatest(ii)})
             : ii \in II(g.d, g.numIns, g.t)})

Sd(infos, alt) ==
  CASE g.kind \in {"rpsVraps", "rpsCor3"} -> SdRpsVraps(infos)
    [] g.kind \in {"rpcVraps", "rpcCor2"} -> SdRpcVraps(infos)
    [] g.kind = "rpsCor2" -> SdRpsCor2(infos)
    [] g.kind = "rpsCor1" -> SdRpsCor1(infos, alt)
    [] g.kind = "rpcCor1" -> SdRpcCor1(infos)

(* The slots of the classes' hash set: a power of two, the first unused.   *)
(* Which slot a class has is its hash's; here they are one after another.  *)
NumSlots == Min({2^k : k \in {k \in 1 .. Len(vals) + 1 : 2^k > Len(vals)}})

Thread == ThreadIds(g.threads)
-----------------------------------------------------------------------------
Init ==
  /\ PassesInit
  /\ index = <<>> /\ sdBySubrow = <<>>
  /\ out = 0 /\ x = 0
  /\ coeff_curr = [n \in Coeffs |-> 0] /\ ret_coeffs = [n \in Coeffs |-> 0]

(* The memory for the values, all 0.0, and multithread_thr_parallel.       *)
StartThreads ==
  /\ pc = "done"
  /\ sdBySubrow' = [slot \in 0 .. NumSlots - 1 |-> [alt \in Alternatives |-> 0]]
  /\ index' = [t \in Thread |-> From(g.threads, NumSlots, t)]
  /\ pc' = "threads"
  /\ UNCHANGED <<g, curr, rows, info, vals, class, subrow2row, out, x, coeff_curr, ret_coeffs>>

AtSlot(t) == index[t] < To(g.threads, NumSlots, t)

(* A thread goes on to the next slot of its share; wrapper_setSdOfRow for  *)
(* each alternative, if there is a class (wrapper_containsSubrow).         *)
CalculateClass(t) ==
  /\ pc = "threads" /\ AtSlot(t)
  /\ index' = [index EXCEPT ![t] = @ + 1]
  /\ IF index[t] \notin DOMAIN vals THEN UNCHANGED sdBySubrow
     ELSE \E infos \in {InfosOf(subrow2row[index[t]])} :
            sdBySubrow' = [sdBySubrow EXCEPT ![index[t]] = [alt \in Alternatives |-> Sd(infos, alt)]]
  /\ UNCHANGED <<passVars, out, x, coeff_curr, ret_coeffs>>

JoinThreads ==
  /\ pc = "threads" /\ \A t \in Thread : ~AtSlot(t)
  /\ pc' = "coeffs"
  /\ UNCHANGED <<g, curr, rows, info, vals, class, subrow2row, calcVars>>
-----------------------------------------------------------------------------
(* calcUtils_addTotProbeMulteplicity: sd, as often as there are sets of n  *)
(* wires that leak exactly the probes of a row, is added for each n: what  *)
(* the loop of ProbeComb adds up.                                          *)
Combinations(ones, n) ==
  {c \in [ones -> 1 .. n] : (\A i \in ones : c[i] <= Mult(i)) /\ FoldFunction(+, 0, c) = n}

ProbesMulteplicity(c) ==
  FoldSet(LAMBDA i, ret : ret * choose(Mult(i), c[i]), 1, DOMAIN c)

AddTotProbeMulteplicity(coeffs, sd, row) ==
  [n \in Coeffs |-> IF n > g.maxCoeff THEN coeffs[n]
                    ELSE coeffs[n] + sd * SumOver(Combinations(Ones(g, row), n), ProbesMulteplicity)]

(* wrapper_getRow2Subrow and wrapper_getSdOfRow.                           *)
SdOfRow(row, alt) == sdBySubrow[class[row]][alt]

LookedUp == Or(g, out, curr)

(* Combinations of outputs that calc_rpcVraps does not look at: one with   *)
(* more outputs leaks at least as much.                                    *)
Skipped == IsRpc /\ IsVraps /\ row_maxShares(g, out) # g.t

(* The loop over the combinations of outputs, or over x.                   *)
NextAlternative ==
  LET next == outLeqT(g, out) IN
  IF IsRpc /\ next.more THEN out' = next.row /\ pc' = "coeffs" /\ UNCHANGED x
  ELSE IF x + 1 \in Alternatives THEN x' = x + 1 /\ pc' = "coeffs" /\ UNCHANGED out
  ELSE pc' = "tail" /\ UNCHANGED <<out, x>>

SkipOutputs ==
  /\ pc = "coeffs" /\ Skipped
  /\ NextAlternative
  /\ UNCHANGED <<g, curr, rows, info, vals, class, subrow2row, index, sdBySubrow, coeff_curr, ret_coeffs>>

AddProbes ==
  /\ pc = "coeffs" /\ ~Skipped /\ g.kind # "rpsCor2"
  /\ coeff_curr' = AddTotProbeMulteplicity(coeff_curr, SdOfRow(LookedUp, x), curr)
  /\ LET next == probeLeqMaxCoeff(g, curr) IN
     IF next.more THEN curr' = next.row /\ UNCHANGED pc
     ELSE curr' = 0 /\ pc' = "merge"
  /\ UNCHANGED <<g, rows, info, vals, class, subrow2row, index, sdBySubrow, out, x, ret_coeffs>>

(* The end of an alternative.  The calculations that have only one add to  *)
(* ret_coeffs itself.                                                      *)
MergeAlternative ==
  /\ pc = "merge"
  /\ coeff_curr' = [n \in Coeffs |-> 0]
  /\ ret_coeffs' = IF g.kind \in {"rpsVraps", "rpsCor3"} THEN coeff_curr
                   ELSE coeffMaxIntoFirst(ret_coeffs, coeff_curr, One, SAMPLES)
  /\ NextAlternative
  /\ UNCHANGED <<g, curr, rows, info, vals, class, subrow2row, index, sdBySubrow>>

(* Mutant of Repeated: each row is counted once.                           *)
Repeated_Once(sd, c) == sd

(* A row below the highest is the sum of 2^shift sets of leaking wires.    *)
Repeated(sd, c) ==
  Min({sdMax(g.numIns), sd * 2^SumOver(DOMAIN c, LAMBDA i : c[i] - 1)})

(* calc_rpsCor2 visits the combinations of probes (ITERATE_OVER_PROBES).   *)
AddCombinations ==
  /\ pc = "coeffs" /\ g.kind = "rpsCor2"
  /\ LET Highest == SUBSET (numMaskedOuts(g) .. g.numTotOuts - 1)
         SumFor(ones, n) ==
           SumOver(Combinations(ones, n),
                   LAMBDA c : Repeated(SdOfRow(Num(ones), 0), c) * ProbesMulteplicity(c))
     IN  ret_coeffs' = [n \in Coeffs |->
           IF n > g.maxCoeff THEN 0
           ELSE SumOver({ones \in Highest : Cardinality(ones) <= n}, LAMBDA ones : SumFor(ones, n))]
  /\ pc' = "tail"
  /\ UNCHANGED <<g, curr, rows, info, vals, class, subrow2row, index, sdBySubrow, out, x, coeff_curr>>

(* What more than maxCoeff wires may leak at most: rpsCor3 and rpcCor2 are *)
(* the Vraps ones with every coefficient times sdMax.                      *)
Most ==
  CASE g.kind \in {"rpsVraps", "rpcVraps"} -> One
    [] g.kind \in {"rpsCor1", "rpsCor2", "rpsCor3"} -> sdMax(g.numIns)
    [] g.kind \in {"rpcCor1", "rpcCor2"} -> sdMax(g.numIns * (g.d - g.t))

AboveMaxCoeff ==
  /\ pc = "tail"
  /\ ret_coeffs' = [n \in Coeffs |->
       IF n > g.maxCoeff THEN choose(numTotProbes, n) * Most
       ELSE IF g.kind \in {"rpsCor3", "rpcCor2"} THEN (ret_coeffs[n] \div One) * Most
       ELSE ret_coeffs[n]]
  /\ pc' = "end"
  /\ UNCHANGED <<g, curr, rows, info, vals, class, subrow2row, index, sdBySubrow, out, x, coeff_curr>>

Main ==
  \/ Passes /\ UNCHANGED calcVars
  \/ StartThreads \/ JoinThreads
  \/ SkipOutputs \/ AddProbes \/ MergeAlternative \/ AddCombinations
  \/ AboveMaxCoeff

Next == Main \/ \E t \in Thread : CalculateClass(t)

AnyThread == UNION {ThreadIds(shape.threads) : shape \in Gadgets}

(* The loops of the main thread and of each thread go on.                  *)
Spec ==
  /\ Init /\ [][Next]_vars
  /\ WF_vars(Main)
  /\ \A t \in AnyThread : WF_vars(t \in Thread /\ CalculateClass(t))
-----------------------------------------------------------------------------
(* What is looked up is there, which rowHashed_hash asserts ("missing      *)
(* row"): the subrows of a row that a thread calculates for, and the rows  *)
(* that the coefficients are for; and the subrows are no more than the     *)
(* thread's array of pointers to their infos has places.                   *)
LookupsHit ==
  /\ pc = "done" =>
       \A c \in DOMAIN vals :
         LET subs == SubRows(g, subrow2row[c]) IN
         Range(subs) \subseteq rows /\ Len(subs) <= 2^(g.maxCoeff + g.t * g.numOuts)
  /\ pc = "coeffs" =>
       IF g.kind # "rpsCor2" THEN Skipped \/ LookedUp \in rows
       ELSE \A ones \in SUBSET (numMaskedOuts(g) .. g.numTotOuts - 1) :
              Cardinality(ones) <= g.maxCoeff => Num(ones) \in rows

(* The definition of what is calculated, without rows, classes or probes:  *)
(* the wires themselves leak, each of them as often as it has equal ones,  *)
(* and any subset of the leaking ones may be added.                        *)
Wires == {w \in (numMaskedOuts(g) .. g.numTotOuts - 1) \X (1 .. Max({0} \cup Range(g.probeMulteplicity))) :
            w[2] <= Mult(w[1])}

Outputs == {row \in Allowed : row < 2^numMaskedOuts(g)}

SumOf(S) == Num({i \in {w[1] : w \in S} : Cardinality({w \in S : w[1] = i}) % 2 = 1})

Leakage(leaking, alt) ==
  LET of == [S \in SUBSET leaking |-> info[SumOf(S)]]
      Abs(n) == IF n >= 0 THEN n ELSE -n
      Cor(v) == SumOver(SUBSET leaking, LAMBDA J :
                  Abs(SumOver(SUBSET leaking, LAMBDA S : xor_of_and(S, J) * v[S])))
                * (One \div (2^(g.numTotIns + 1) * 2^Cardinality(leaking)))
  IN  CASE g.kind \in {"rpsVraps", "rpsCor3"} -> IF \E S \in DOMAIN of : of[S] THEN Most ELSE 0
        [] g.kind \in {"rpcVraps", "rpcCor2"} ->
             IF maxSharesIn(g.d, g.numIns, UNION Range(of)) > g.t THEN Most ELSE 0
        [] g.kind = "rpsCor2" ->
             Min({Most, SumOver(DOMAIN of, LAMBDA S : of[S]) * (One \div 2^(g.numTotIns + 1))})
        [] g.kind = "rpsCor1" ->
             Min({Most, Cor([S \in DOMAIN of |-> of[S][XOf(alt)]])})
        [] g.kind = "rpcCor1" ->
             Min({Min({sdMax(g.d * g.numIns - Cardinality(ii)),
                       Max({Cor([S \in DOMAIN of |-> of[S][ii][xs]]) : xs \in SUBSET Shares(g.d, g.numIns)})})
                    : ii \in II(g.d, g.numIns, g.t)})

Coefficients(outs, alt) ==
  [n \in Coeffs |->
     IF n > g.maxCoeff THEN 0
     ELSE SumOver(kSubset(n, Wires), LAMBDA W : Leakage(W \cup (Ones(g, outs) \X {1}), alt))]

(* The result bounds the leakage: at every sample of the probability of a  *)
(* leak, the polynomial is at least that of every combination of outputs   *)
(* and every value of the inputs (those that were skipped, too), although  *)
(* it was calculated once per class, and merged alternative by alternative; *)
(* and no coefficient is greater than that of some alternative, or above   *)
(* maxCoeff than if every set of so many wires leaked all it could.        *)
CoeffsBoundTheLeakage ==
  pc = "end" =>
    LET kept == [n \in Coeffs |-> IF n <= g.maxCoeff THEN ret_coeffs[n] ELSE 0]
        one == IF g.kind \in {"rpsCor3", "rpcCor2"} THEN Most ELSE One
        alternatives == {Coefficients(outs, alt) : outs \in Outputs, alt \in Alternatives}
    IN  /\ alternatives \subseteq [Coeffs -> Nat]
        /\ \A v \in alternatives, j \in 0 .. SAMPLES :
             calculateF(kept, one, j, SAMPLES) >= calculateF(v, one, j, SAMPLES)
        /\ \A n \in Coeffs :
             IF n <= g.maxCoeff THEN \E v \in alternatives : ret_coeffs[n] = v[n]
             ELSE ret_coeffs[n] = Cardinality(kSubset(n, Wires)) * Most

(* The passes, the threads and the loops end.                              *)
CalculationEnds == <>(pc = "end")
=============================================================================
