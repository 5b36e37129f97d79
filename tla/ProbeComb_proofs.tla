-------------------------- MODULE ProbeComb_proofs --------------------------
(***************************************************************************)
(* Proofs about ProbeComb: what the loops over the combinations of probes  *)
(* keep, for all probes and all limits.                                    *)
(***************************************************************************)
EXTENDS ProbeComb, NumberLemmas

(* The invariant: combinations of natural numbers, and CountIsSum.         *)
TypeOK ==
  /\ g \in Gadgets
  /\ image = All \/ image \in SUBSET Probes
  /\ comb \in [Probes -> Nat]
  /\ count \in Int

IInv ==
  /\ TypeOK
  /\ count = Total(comb, Probes) /\ count <= g.maxCoeff
  /\ \A i \in Probes : comb[i] <= g.probeMulteplicity[i]
  /\ image # All => HighestRow = image
-----------------------------------------------------------------------------
(* A fold that adds a value for each member of the set is their sum.       *)
LEMMA FoldIsTotal ==
  ASSUME NEW S, IsFiniteSet(S), NEW w, NEW low, \A x \in S : w[x] - low \in Int /\ w[x] \in Int /\ low \in Int
  PROVE  FoldSet(LAMBDA i, sum : sum + w[i] - low, 0, S) = Total([x \in S |-> w[x] - low], S)
<1>. DEFINE v == [x \in S |-> w[x] - low]
            it == CHOOSE h : h = [s \in SUBSET S |->
                                    IF s = {} THEN 0
                                    ELSE h[s \ {Chosen(s)}] + w[Chosen(s)] - low]
<1>1. FoldSet(LAMBDA i, sum : sum + w[i] - low, 0, S) = it[S]
  BY DEF FoldSet, MapThenFoldSet, Chosen
<1>2. PICK h \in [SUBSET S -> Int] : IsSum(v, S, h) /\ Total(v, S) = h[S]  BY TotalIs
<1>3. h = [s \in SUBSET S |-> IF s = {} THEN 0
                              ELSE h[s \ {Chosen(s)}] + w[Chosen(s)] - low]
  <2>1. ASSUME NEW s \in SUBSET S
        PROVE  h[s] = IF s = {} THEN 0 ELSE h[s \ {Chosen(s)}] + w[Chosen(s)] - low
    <3>1. h[s] = SumStep(v, s, h)  BY <1>2 DEF IsSum
    <3>2. CASE s = {}  BY <3>1, <3>2 DEF SumStep
    <3>3. CASE s # {}
      <4>. DEFINE y == Chosen(s)
      <4>1. y \in s  BY <3>3 DEF Chosen
      <4>2. h[s] = v[y] + h[s \ {y}]  BY <3>1, <3>3 DEF SumStep
      <4>3. y \in S /\ h[s \ {y}] \in Int  BY <1>2, <4>1
      <4>. HIDE DEF y
      <4>4. h[s] = h[s \ {y}] + w[y] - low  BY <4>2, <4>3
      <4>. QED  BY <3>3, <4>4 DEF y
    <3>. QED  BY <3>2, <3>3
  <2>. QED  BY <1>2, <2>1
<1>4. it = [s \in SUBSET S |-> IF s = {} THEN 0
                               ELSE it[s \ {Chosen(s)}] + w[Chosen(s)] - low]
  <2>. DEFINE Eq(f) == f = [s \in SUBSET S |-> IF s = {} THEN 0
                                 ELSE f[s \ {Chosen(s)}] + w[Chosen(s)] - low]
  <2>1. Eq(h)  BY <1>3
  <2>2. it = CHOOSE f : Eq(f)  OBVIOUS
  <2>. HIDE DEF Eq, it
  <2>3. Eq(it)  BY <2>1, <2>2
  <2>. QED  BY <2>3 DEF Eq
<1>. HIDE DEF it
<1>5. IsSum(v, S, it)
  <2>. DEFINE Bad == {s \in SUBSET S : it[s] # h[s]}
  <2>1. Bad = {}
    <3>. SUFFICES ASSUME Bad # {} PROVE FALSE  OBVIOUS
    <3>1. PICK T \in Bad : \A x \in T : T \ {x} \notin Bad  BY SmallestSet
    <3>2. T # {}  BY <1>3, <1>4, <3>1
    <3>3. Chosen(T) \in T  BY <3>2 DEF Chosen
    <3>4. it[T \ {Chosen(T)}] = h[T \ {Chosen(T)}]  BY <3>1, <3>3
    <3>. QED  BY <1>3, <1>4, <3>1, <3>2, <3>4
  <2>2. \A s \in SUBSET S : it[s] = h[s]  BY <2>1
  <2>. QED
    <3>1. ASSUME NEW s \in SUBSET S PROVE it[s] = SumStep(v, s, it)
      BY <1>2, <2>2 DEF IsSum, SumStep
    <3>. QED  BY <3>1 DEF IsSum
<1>6. it[S] = h[S]
  <2>1. S \in SUBSET (S \cap S) /\ \A x \in S : v[x] = v[x]  OBVIOUS
  <2>. QED  BY <1>2, <1>5, <2>1, SumUnique
<1>. QED  BY <1>1, <1>2, <1>6

(* The count of the model's invariant is the sum of the combination.       *)
LEMMA FoldFunctionIsTotal ==
  ASSUME NEW f PROVE FoldFunction(+, 0, f) = Total(f, DOMAIN f)
BY DEF FoldFunction, FoldFunctionOnSet, Total, MapThenSumSet

(* The gadgets: finitely many probes, each of some wire, and a limit.      *)
LEMMA GadgetFacts ==
  ASSUME g \in Gadgets
  PROVE  /\ Probes \in SUBSET Nat /\ IsFiniteSet(Probes)
         /\ \A i \in Probes : g.probeMulteplicity[i] \in Nat \ {0}
         /\ g.maxCoeff \in Nat \ {0}
<1>. DEFINE m == g.probeMulteplicity
<1>1. m \in Seq(Nat \ {0}) /\ g.maxCoeff \in Nat \ {0}  BY GadgetsAssumption
<1>2. Probes = 1 .. Len(m) /\ Len(m) \in Nat  BY <1>1 DEF Probes
<1>3. IsFiniteSet(1 .. Len(m))  BY <1>2, FS_Interval
<1>4. \A i \in 1 .. Len(m) : m[i] \in Nat \ {0}  BY <1>1
<1>. QED  BY <1>1, <1>2, <1>3, <1>4
-----------------------------------------------------------------------------
(* The first combination: the image's probes once each, or none.           *)
LEMMA InitInv == Init => IInv
<1>. SUFFICES ASSUME Init PROVE IInv  OBVIOUS
<1>1. g \in Gadgets  BY DEF Init
<1>2. /\ Probes \in SUBSET Nat /\ IsFiniteSet(Probes)
      /\ \A i \in Probes : g.probeMulteplicity[i] \in Nat \ {0}
      /\ g.maxCoeff \in Nat \ {0}
  BY <1>1, GadgetFacts
<1>3. comb = [i \in Probes |-> IF image # All /\ i \in image THEN 1 ELSE 0]  BY DEF Init
<1>4. CASE image = All
  <2>1. count = 0 /\ \A i \in Probes : comb[i] = 0  BY <1>3, <1>4 DEF Init
  <2>2. Total(comb, Probes) = 0
    <3>1. \A x \in Probes : comb[x] \in Int  BY <2>1
    <3>2. Total(comb, Probes) = Total(comb, {}) /\ Total(comb, {}) = 0
      <4>1. IsFiniteSet({})  BY FS_EmptySet
      <4>2. \A x \in Probes \ {} : comb[x] = 0  BY <2>1
      <4>3. {} \in SUBSET Probes  OBVIOUS
      <4>4. Total(comb, Probes) = Total(comb, {})  BY <1>2, <3>1, <4>2, <4>3, SumSupport
      <4>5. \A x \in {} : comb[x] \in Int  OBVIOUS
      <4>. QED  BY <4>1, <4>4, <4>5, SumRemove
    <3>. QED  BY <3>2
  <2>. QED  BY <1>1, <1>2, <1>3, <1>4, <2>1, <2>2 DEF IInv, TypeOK
<1>5. CASE image # All
  <2>1. PICK n \in 0 .. g.maxCoeff : image \in kSubset(n, Probes)  BY <1>5 DEF Init
  <2>2. image \in SUBSET Probes /\ Cardinality(image) = n  BY <2>1 DEF kSubset
  <2>3. \A i \in Probes : comb[i] = IF i \in image THEN 1 ELSE 0  BY <1>3, <1>5
  <2>4. Total(comb, Probes) = Cardinality(image)
    <3>1. /\ \A x \in Probes : comb[x] \in Int
          /\ \A x \in Probes \ image : comb[x] = 0
      BY <2>3
    <3>2. Total(comb, Probes) = Total(comb, image)  BY <1>2, <2>2, <3>1, SumSupport
    <3>3. IsFiniteSet(image) /\ \A x \in image : comb[x] = 1  BY <1>2, <2>2, <2>3, FS_Subset
    <3>. QED  BY <3>2, <3>3, SumOnes
  <2>5. count = Cardinality(image)  BY <1>5 DEF Init
  <2>6. HighestRow = image  BY <2>2, <2>3 DEF HighestRow
  <2>. QED  BY <1>1, <1>2, <1>3, <1>5, <2>1, <2>2, <2>3, <2>4, <2>5, <2>6 DEF IInv, TypeOK
<1>. QED  BY <1>4, <1>5
-----------------------------------------------------------------------------
(* The probe an increment stops at, and what the increment adds up to.     *)
LEMMA IncrementStep ==
  ASSUME IInv, Increment
  PROVE  LET to == Min(Open)
         IN  /\ to \in Open /\ \A i \in Open : to <= i
             /\ comb' \in [Probes -> Nat]
             /\ count' \in Int /\ count' = Total(comb', Probes)
             /\ count' <= g.maxCoeff
             /\ g' = g /\ image' = image /\ Probes' = Probes
<1>1. /\ Probes \in SUBSET Nat /\ IsFiniteSet(Probes)
      /\ \A i \in Probes : g.probeMulteplicity[i] \in Nat \ {0}
      /\ g.maxCoeff \in Nat \ {0}
  BY GadgetFacts DEF IInv, TypeOK
<1>. DEFINE to == Min(Open)
            M == {i \in Movable : i < to}
<1>2. Open \in SUBSET Probes /\ Open # {} /\ Open \subseteq Movable /\ ~ Stuck
  BY DEF Increment, Open, Movable
<1>3. to \in Open /\ \A i \in Open : to <= i
  <2>1. Open \in SUBSET Nat  BY <1>1, <1>2
  <2>. QED  BY <1>2, <2>1, MinOfNaturals
<1>4. comb' = Incremented(to) /\ count' = CountOf(to) /\ g' = g /\ image' = image
  BY DEF Increment
<1>5. comb \in [Probes -> Nat] /\ count \in Int /\ Low \in {0, 1}  BY DEF IInv, TypeOK, Low
<1>. HIDE DEF to
<1>6. M \in SUBSET Probes /\ IsFiniteSet(M) /\ to \in Probes \ M /\ to \in Nat
  <2>1. M \in SUBSET Probes  BY DEF Movable
  <2>2. to \in Probes /\ to \in Nat  BY <1>1, <1>2, <1>3
  <2>. QED  BY <1>1, <2>1, <2>2, FS_Subset
<1>7. ASSUME NEW i \in M PROVE comb[i] - Low \in Nat
  <2>1. comb[i] \in Nat /\ (Low = 1 => comb[i] > 0)  BY <1>5, <1>6 DEF Movable, Low
  <2>. QED  BY <1>5, <2>1
<1>. DEFINE low == [i \in M |-> comb[i] - Low]
<1>8. count' = count + 1 - Total(low, M)
  <2>1. \A x \in M : comb[x] - Low \in Int /\ comb[x] \in Int /\ Low \in Int
    BY <1>5, <1>6
  <2>2. FoldSet(LAMBDA i, sum : sum + comb[i] - Low, 0, M) = Total(low, M)
    BY <1>6, <2>1, FoldIsTotal
  <2>. QED  BY <1>4, <2>2 DEF CountOf
<1>9. Total(low, M) \in Int /\ Total(low, M) >= 0
  <2>. DEFINE z == [i \in M |-> 0]
  <2>1. \A x \in M : z[x] \in Int /\ low[x] \in Int /\ z[x] <= low[x]  BY <1>7
  <2>2. Total(z, M) <= Total(low, M)  BY <1>6, <2>1, SumMonotone
  <2>3. Total(z, M) = 0  BY <1>6, SumZero
  <2>4. Total(low, M) \in Int
    <3>1. \A x \in M : low[x] \in Int  BY <1>7
    <3>. QED  BY <1>6, <3>1, SumRemove
  <2>. QED  BY <2>2, <2>3, <2>4
<1>10. ASSUME NEW i \in Probes
       PROVE  /\ comb'[i] = IF i \in M THEN Low ELSE IF i = to THEN comb[i] + 1 ELSE comb[i]
              /\ comb'[i] \in Nat
  BY <1>4, <1>5, <1>6 DEF Incremented
<1>11. comb' \in [Probes -> Nat]
  <2>1. comb' = [i \in Probes |-> comb'[i]]  BY <1>4 DEF Incremented
  <2>. QED  BY <1>10, <2>1
<1>12. count' = Total(comb', Probes)
  <2>. DEFINE next == comb'
              delta == [i \in Probes |-> next[i] - comb[i]]
              z == [i \in M |-> 0]
  <2>1. \A x \in Probes : /\ comb[x] \in Int /\ delta[x] \in Int
                          /\ next[x] = comb[x] + delta[x]
    BY <1>5, <1>10
  <2>2. delta[to] = 1 /\ \A x \in Probes \ {to} : x \notin M => delta[x] = 0
    BY <1>5, <1>6, <1>10
  <2>3. \A x \in M : z[x] = delta[x] + low[x] /\ delta[x] \in Int /\ low[x] \in Int
    BY <1>5, <1>6, <1>7, <1>10, <2>1
  <2>. HIDE DEF delta, next, low
  <2>4. Total(next, Probes) = Total(comb, Probes) + Total(delta, Probes)
    BY <1>1, <2>1, SumPlus
  <2>5. Total(delta, Probes) = 1 + Total(delta, Probes \ {to})
    <3>1. \A x \in Probes : delta[x] \in Int  BY <2>1
    <3>2. \A x \in Probes : Total(delta, Probes) = delta[x] + Total(delta, Probes \ {x})
      BY <1>1, <3>1, SumRemove
    <3>. QED  BY <1>6, <2>2, <3>2
  <2>6. Total(delta, Probes \ {to}) = Total(delta, M)
    <3>1. IsFiniteSet(Probes \ {to}) /\ M \in SUBSET (Probes \ {to})
      BY <1>1, <1>6, FS_Subset
    <3>2. /\ \A x \in Probes \ {to} : delta[x] \in Int
          /\ \A x \in (Probes \ {to}) \ M : delta[x] = 0
      BY <2>1, <2>2
    <3>. QED  BY <3>1, <3>2, SumSupport
  <2>7. Total(z, M) = Total(delta, M) + Total(low, M)
    <3>. HIDE DEF z, M
    <3>1. \A x \in M : delta[x] \in Int /\ low[x] \in Int /\ z[x] = delta[x] + low[x]
      BY <2>3
    <3>2. IsFiniteSet(M)  BY <1>6
    <3>. QED  BY <3>1, <3>2, SumPlus
  <2>8. Total(z, M) = 0  BY <1>6, SumZero
  <2>9. Total(delta, M) \in Int
    <3>1. \A x \in M : delta[x] \in Int  BY <2>3
    <3>. QED  BY <1>6, <3>1, SumRemove
  <2>10. count = Total(comb, Probes)  BY DEF IInv
  <2>11. Total(next, Probes) = count + 1 - Total(low, M)
    BY <1>5, <1>9, <2>4, <2>5, <2>6, <2>7, <2>8, <2>9, <2>10
  <2>. QED  BY <1>8, <2>11 DEF next
<1>13. count' \in Int /\ count' <= g.maxCoeff
  <2>1. count <= g.maxCoeff  BY DEF IInv
  <2>2. CASE count < g.maxCoeff
    <3>1. g.maxCoeff \in Int  BY <1>1
    <3>. QED  BY <1>5, <1>8, <1>9, <2>2, <3>1
  <2>3. CASE ~ (count < g.maxCoeff)
    <3>. DEFINE m == Min(Lowered)
    <3>1. count = g.maxCoeff  BY <1>1, <1>5, <2>1, <2>3
    <3>2. Lowered # {} /\ Lowered \in SUBSET Nat
      <4>1. count >= g.maxCoeff  BY <1>5, <3>1
      <4>2. Lowered # {}  BY <1>2, <4>1 DEF Stuck
      <4>. QED  BY <1>1, <4>2 DEF Lowered
    <3>3. m \in Lowered  BY <3>2, MinOfNaturals
    <3>4. to >= 1 + m  BY <1>3, <2>3 DEF Open, FirstToInc
    <3>5. m \in Nat /\ m \in Probes /\ comb[m] > Low /\ comb[m] \in Nat
      BY <1>5, <3>2, <3>3 DEF Lowered
    <3>. HIDE DEF m
    <3>6. m \in M  BY <1>5, <1>6, <3>4, <3>5 DEF Movable
    <3>7. Total(low, M) > 0
      <4>. DEFINE z == [i \in M |-> 0]
      <4>1. \A x \in M : z[x] \in Int /\ low[x] \in Int /\ z[x] <= low[x]  BY <1>7
      <4>2. z[m] < low[m]  BY <1>5, <3>5, <3>6
      <4>3. Total(z, M) < Total(low, M)  BY <1>6, <3>6, <4>1, <4>2, SumMonotone
      <4>4. Total(z, M) = 0  BY <1>6, SumZero
      <4>. QED  BY <4>3, <4>4
    <3>. HIDE DEF low
    <3>. QED  BY <1>5, <1>8, <1>9, <3>1, <3>7
  <2>. QED  BY <2>2, <2>3
<1>14. Probes' = Probes  BY <1>4 DEF Probes
<1>. QED  BY <1>3, <1>4, <1>11, <1>12, <1>13, <1>14 DEF to

(* What an increment makes of each probe, and why it may.                  *)
LEMMA IncrementValues ==
  ASSUME IInv, Increment, NEW i \in Probes
  PROVE  LET to == Min(Open)
         IN  /\ i > to => comb'[i] = comb[i]
             /\ i = to => comb'[i] = comb[i] + 1
             /\ i < to /\ comb[i] > 0 => comb'[i] = Low
             /\ i < to /\ comb[i] = 0 => comb'[i] = 0
             /\ Low = IF image = All THEN 0 ELSE 1
             /\ comb[to] < g.probeMulteplicity[to] /\ to \in Probes /\ to \in Movable
<1>1. Probes \in SUBSET Nat  BY GadgetFacts DEF IInv, TypeOK
<1>. DEFINE to == Min(Open)
<1>2. to \in Open  BY IncrementStep
<1>3. comb' = Incremented(to)  BY DEF Increment
<1>. HIDE DEF to
<1>4. to \in Movable /\ to \in Probes /\ comb[to] < g.probeMulteplicity[to]
  BY <1>2 DEF Open, Movable
<1>5. to \in Nat /\ i \in Nat /\ comb[i] \in Nat  BY <1>1, <1>4 DEF IInv, TypeOK
<1>6. comb'[i] = IF i \in Movable /\ i < to THEN Low
                 ELSE IF i = to THEN comb[i] + 1 ELSE comb[i]
  BY <1>3 DEF Incremented
<1>7. i \in Movable <=> image = All \/ comb[i] > 0  BY DEF Movable
<1>. QED  BY <1>4, <1>5, <1>6, <1>7 DEF to, Low

(* The invariant is inductive.                                             *)
LEMMA NextInv == IInv /\ [Next]_vars => IInv'
<1>. SUFFICES ASSUME IInv, [Next]_vars PROVE IInv'  OBVIOUS
<1>1. CASE Increment
  <2>. DEFINE to == Min(Open)
  <2>1. /\ comb' \in [Probes -> Nat] /\ count' \in Int /\ count' = Total(comb', Probes)
        /\ count' <= g.maxCoeff /\ g' = g /\ image' = image /\ Probes' = Probes
    BY <1>1, IncrementStep
  <2>2. /\ Probes \in SUBSET Nat
        /\ \A i \in Probes : g.probeMulteplicity[i] \in Nat \ {0}
    BY GadgetFacts DEF IInv, TypeOK
  <2>3. ASSUME NEW i \in Probes
        PROVE  comb'[i] <= g.probeMulteplicity[i] /\ (image # All => (comb'[i] > 0 <=> comb[i] > 0))
    <3>1. /\ i > to => comb'[i] = comb[i]
          /\ i = to => comb'[i] = comb[i] + 1
          /\ i < to /\ comb[i] > 0 => comb'[i] = Low
          /\ i < to /\ comb[i] = 0 => comb'[i] = 0
          /\ Low = IF image = All THEN 0 ELSE 1
          /\ comb[to] < g.probeMulteplicity[to] /\ to \in Probes /\ to \in Movable
      BY <1>1, IncrementValues
    <3>2. comb[i] \in Nat /\ comb[i] <= g.probeMulteplicity[i] /\ comb[to] \in Nat
      BY <3>1 DEF IInv, TypeOK
    <3>3. image # All => comb[to] > 0  BY <3>1 DEF Movable
    <3>4. i \in Nat /\ to \in Nat /\ g.probeMulteplicity[i] \in Nat \ {0}  BY <2>2, <3>1
    <3>. HIDE DEF to
    <3>5. CASE i > to  BY <3>1, <3>2, <3>5
    <3>6. CASE i = to  BY <3>1, <3>2, <3>3, <3>4, <3>6
    <3>7. CASE i < to  BY <3>1, <3>2, <3>4, <3>7
    <3>. QED  BY <3>4, <3>5, <3>6, <3>7
  <2>4. image # All => HighestRow' = HighestRow  BY <2>1, <2>3 DEF HighestRow
  <2>. QED  BY <2>1, <2>3, <2>4 DEF IInv, TypeOK
<1>2. CASE LoopBack  BY <1>2 DEF LoopBack, IInv, TypeOK, Probes, HighestRow
<1>3. CASE UNCHANGED vars  BY <1>3 DEF vars, IInv, TypeOK, Probes, HighestRow
<1>. QED  BY <1>1, <1>2, <1>3 DEF Next

(* The invariant holds in every state.                                     *)
THEOREM Invariance == Spec => []IInv
BY InitInv, NextInv, PTL DEF Spec

(* A combination is one of those to visit when its values are in bounds.   *)
LEMMA CombinationsAre ==
  ASSUME g \in Gadgets, NEW c
  PROVE  c \in Combinations <=>
           /\ c \in [Probes -> Nat]
           /\ \A i \in Probes : c[i] <= g.probeMulteplicity[i]
           /\ Total(c, Probes) <= g.maxCoeff
           /\ image # All => {i \in Probes : c[i] > 0} = image
<1>1. IsFiniteSet(Probes) /\ g.maxCoeff \in Nat \ {0}  BY GadgetFacts
<1>2. ASSUME c \in [Probes -> Nat], Total(c, Probes) <= g.maxCoeff
      PROVE  c \in [Probes -> 0 .. g.maxCoeff]
  <2>1. ASSUME NEW i \in Probes PROVE c[i] <= g.maxCoeff
    <3>. DEFINE z == [j \in Probes \ {i} |-> 0]
    <3>1. \A j \in Probes : c[j] \in Int  BY <1>2
    <3>2. /\ Total(c, Probes) \in Int
          /\ Total(c, Probes) = c[i] + Total(c, Probes \ {i})
      BY <1>1, <3>1, SumRemove
    <3>3. IsFiniteSet(Probes \ {i})  BY <1>1, FS_Subset
    <3>4. Total(z, Probes \ {i}) = 0  BY <3>3, SumZero
    <3>5. \A j \in Probes \ {i} : z[j] \in Int /\ c[j] \in Int /\ z[j] <= c[j]  BY <1>2
    <3>6. Total(z, Probes \ {i}) <= Total(c, Probes \ {i})  BY <3>3, <3>5, SumMonotone
    <3>7. Total(c, Probes \ {i}) \in Int  BY <3>1, <3>3, SumRemove
    <3>. QED  BY <1>1, <1>2, <3>1, <3>2, <3>4, <3>6, <3>7
  <2>. QED  BY <1>1, <1>2, <2>1
<1>3. ASSUME c \in [Probes -> Nat] \/ c \in [Probes -> 0 .. g.maxCoeff]
      PROVE  FoldFunction(+, 0, c) = Total(c, Probes)
  <2>1. DOMAIN c = Probes  BY <1>3
  <2>. QED  BY <2>1, FoldFunctionIsTotal
<1>4. c \in [Probes -> 0 .. g.maxCoeff] => c \in [Probes -> Nat]  BY <1>1
<1>. QED  BY <1>2, <1>3, <1>4 DEF Combinations

(* The count is the sum of the combination through all carries, and every  *)
(* combination reached is one of those to visit (probeComb.c:49-121).      *)
THEOREM CountCorrect == Spec => []CountIsSum
<1>1. IInv => CountIsSum
  <2>. SUFFICES ASSUME IInv PROVE CountIsSum  OBVIOUS
  <2>1. g \in Gadgets /\ DOMAIN comb = Probes  BY DEF IInv, TypeOK
  <2>2. FoldFunction(+, 0, comb) = Total(comb, Probes)  BY <2>1, FoldFunctionIsTotal
  <2>3. comb \in Combinations  BY <2>1, CombinationsAre DEF IInv, TypeOK, HighestRow
  <2>. QED  BY <2>2, <2>3 DEF CountIsSum, IInv
<1>. QED  BY <1>1, Invariance, PTL

(* A probe of which a later combination has more can be increased: if the  *)
(* limit kept the loop from it, that combination would be beyond the       *)
(* limit, as no probe before leaks more often than it must.                *)
LEMMA HighestRaised ==
  ASSUME IInv, NEW c \in Combinations, NEW i \in Probes, comb[i] < c[i],
         \A j \in Probes : j > i => comb[j] = c[j]
  PROVE  i \in Open
<1>1. /\ Probes \in SUBSET Nat /\ IsFiniteSet(Probes)
      /\ g.maxCoeff \in Nat \ {0}
      /\ \A j \in Probes : g.probeMulteplicity[j] \in Nat \ {0}
  BY GadgetFacts DEF IInv, TypeOK
<1>2. /\ comb \in [Probes -> Nat] /\ count \in Int /\ count = Total(comb, Probes)
      /\ count <= g.maxCoeff
  BY DEF IInv, TypeOK
<1>3. /\ c \in [Probes -> Nat]
      /\ c[i] <= g.probeMulteplicity[i]
      /\ Total(c, Probes) <= g.maxCoeff
      /\ image # All => {j \in Probes : c[j] > 0} = image
  BY CombinationsAre DEF IInv, TypeOK
<1>4. image # All => {j \in Probes : comb[j] > 0} = image  BY DEF IInv, HighestRow
<1>5. image # All => \A j \in Probes : (c[j] > 0 <=> comb[j] > 0)  BY <1>3, <1>4
<1>6. i \in Movable
  <2>1. c[i] > 0  BY <1>2, <1>3
  <2>. QED  BY <1>5, <2>1 DEF Movable
<1>7. comb[i] < g.probeMulteplicity[i]  BY <1>1, <1>2, <1>3
<1>8. i >= 1
  <2>1. g.probeMulteplicity \in Seq(Nat \ {0})  BY GadgetsAssumption DEF IInv, TypeOK
  <2>. QED  BY <2>1 DEF Probes
<1>9. SUFFICES ASSUME Stuck \/ ~ (i >= FirstToInc) PROVE FALSE
  BY <1>6, <1>7 DEF Open
<1>10. count = g.maxCoeff
  <2>1. count >= g.maxCoeff
    <3>1. CASE Stuck  BY <3>1 DEF Stuck
    <3>2. CASE ~ (i >= FirstToInc)  BY <1>1, <1>2, <1>8, <3>2 DEF FirstToInc
    <3>. QED  BY <1>9, <3>1, <3>2
  <2>. QED  BY <1>1, <1>2, <2>1
<1>11. \A j \in Probes : j < i => j \notin Lowered
  <2>1. CASE Stuck  BY <2>1 DEF Stuck
  <2>2. CASE ~ (i >= FirstToInc)
    <3>. DEFINE m == Min(Lowered)
    <3>1. FirstToInc = 1 + m  BY <1>1, <1>10, <2>2 DEF FirstToInc
    <3>2. ASSUME NEW j \in Lowered PROVE ~ (j < i)
      <4>1. Lowered \in SUBSET Nat /\ Lowered # {}  BY <1>1, <3>2 DEF Lowered
      <4>2. m \in Nat /\ m <= j /\ j \in Nat  BY <3>2, <4>1, MinOfNaturals
      <4>. HIDE DEF m
      <4>3. i \in Nat  BY <1>1
      <4>. QED  BY <2>2, <3>1, <4>2, <4>3
    <3>. QED  BY <3>2
  <2>. QED  BY <1>9, <2>1, <2>2
<1>12. ASSUME NEW j \in Probes PROVE comb[j] \in Int /\ c[j] \in Int /\ comb[j] <= c[j]
  <2>1. j \in Nat /\ i \in Nat /\ comb[j] \in Nat /\ c[j] \in Nat  BY <1>1, <1>2, <1>3
  <2>2. CASE j < i
    <3>1. ~ (comb[j] > Low)  BY <1>11, <2>2 DEF Lowered
    <3>2. CASE image = All  BY <2>1, <3>1, <3>2 DEF Low
    <3>3. CASE image # All
      <4>1. comb[j] <= 1 /\ (c[j] > 0 <=> comb[j] > 0)  BY <1>5, <2>1, <3>1, <3>3 DEF Low
      <4>. QED  BY <2>1, <4>1
    <3>. QED  BY <3>2, <3>3
  <2>. QED  BY <2>1, <2>2
<1>13. Total(comb, Probes) < Total(c, Probes)  BY <1>1, <1>12, SumMonotone
<1>14. Total(c, Probes) \in Int
  <2>1. \A j \in Probes : c[j] \in Int  BY <1>12
  <2>. QED  BY <1>1, <2>1, SumRemove
<1>. QED  BY <1>1, <1>2, <1>3, <1>10, <1>13, <1>14

(* No combination to visit lies between two the loop visits in a row.      *)
LEMMA NoneBetween ==
  ASSUME IInv, Increment, NEW c \in Combinations, Below(comb, c), Below(c, comb')
  PROVE  FALSE
<1>1. /\ Probes \in SUBSET Nat
      /\ comb \in [Probes -> Nat]
      /\ image # All => {j \in Probes : comb[j] > 0} = image
  BY GadgetFacts DEF IInv, TypeOK, HighestRow
<1>2. /\ c \in [Probes -> Nat]
      /\ image # All => {j \in Probes : c[j] > 0} = image
  BY CombinationsAre DEF IInv, TypeOK
<1>3. PICK i \in Probes : comb[i] < c[i] /\ \A k \in Probes : k > i => comb[k] = c[k]
  BY DEF Below
<1>4. PICK j \in Probes : c[j] < comb'[j] /\ \A k \in Probes : k > j => c[k] = comb'[k]
  BY DEF Below
<1>. DEFINE to == Min(Open)
<1>5. to \in Open /\ to \in Probes /\ to <= i
  <2>1. i \in Open  BY <1>3, HighestRaised
  <2>2. to \in Open /\ to <= i  BY <2>1, IncrementStep
  <2>. QED  BY <2>2 DEF Open, Movable
<1>6. ASSUME NEW k \in Probes
      PROVE  /\ k > to => comb'[k] = comb[k]
             /\ k = to => comb'[k] = comb[k] + 1
             /\ k < to /\ comb[k] > 0 => comb'[k] = Low
             /\ k < to /\ comb[k] = 0 => comb'[k] = 0
             /\ Low = IF image = All THEN 0 ELSE 1
  BY IncrementValues
<1>. HIDE DEF to
<1>7. i \in Nat /\ j \in Nat /\ to \in Nat  BY <1>1, <1>5
<1>8. /\ comb[i] \in Nat /\ comb[j] \in Nat /\ c[i] \in Nat /\ c[j] \in Nat
  BY <1>1, <1>2
<1>9. CASE i > to
  <2>1. comb'[i] = comb[i]  BY <1>6, <1>9
  <2>2. j >= i
    <3>. SUFFICES ASSUME i > j PROVE FALSE  BY <1>7
    <3>1. c[i] = comb'[i]  BY <1>4
    <3>. QED  BY <1>3, <1>8, <2>1, <3>1
  <2>3. j > i  BY <1>3, <1>4, <1>7, <1>8, <2>1, <2>2
  <2>4. c[j] = comb[j] /\ comb'[j] = comb[j]  BY <1>3, <1>6, <1>7, <1>9, <2>3
  <2>. QED  BY <1>4, <1>8, <2>4
<1>10. CASE i = to
  <2>1. CASE j > to
    <3>1. c[j] = comb[j] /\ comb'[j] = comb[j]  BY <1>3, <1>6, <1>10, <2>1
    <3>. QED  BY <1>4, <1>8, <3>1
  <2>2. CASE j = to
    <3>1. comb'[j] = comb[j] + 1 /\ comb[j] < c[j]  BY <1>3, <1>6, <1>10, <2>2
    <3>. QED  BY <1>4, <1>8, <3>1
  <2>3. CASE j < to
    <3>1. CASE comb[j] = 0
      <4>1. comb'[j] = 0  BY <1>6, <2>3, <3>1
      <4>. QED  BY <1>4, <1>8, <4>1
    <3>2. CASE comb[j] > 0
      <4>1. comb'[j] = IF image = All THEN 0 ELSE 1  BY <1>6, <2>3, <3>2
      <4>2. image # All => c[j] > 0  BY <1>1, <1>2, <3>2
      <4>. QED  BY <1>4, <1>8, <4>1, <4>2
    <3>. QED  BY <1>8, <3>1, <3>2
  <2>. QED  BY <1>7, <2>1, <2>2, <2>3
<1>. QED  BY <1>5, <1>7, <1>9, <1>10

(* The loop visits the combinations one after the other in their order and *)
(* ends at the last: each comes once, none is left out (probeComb.c).      *)
THEOREM InOrder == Spec => VisitsInOrder
<1>. DEFINE Step ==
       /\ comb' # comb => /\ Below(comb, comb')
                          /\ \A c \in Combinations : ~ (Below(comb, c) /\ Below(c, comb'))
       /\ going # going' => \A c \in Combinations : ~ Below(comb, c)
<1>1. IInv /\ [Next]_vars => Step
  <2>. SUFFICES ASSUME IInv, [Next]_vars PROVE Step  OBVIOUS
  <2>1. CASE Increment
    <3>. DEFINE to == Min(Open)
    <3>1. to \in Probes /\ Probes \in SUBSET Nat /\ comb \in [Probes -> Nat]
      <4>1. to \in Open  BY <2>1, IncrementStep
      <4>. QED  BY <4>1, GadgetFacts DEF Open, Movable, IInv, TypeOK
    <3>2. \A j \in Probes : /\ j > to => comb'[j] = comb[j]
                            /\ j = to => comb'[j] = comb[j] + 1
      BY <2>1, IncrementValues
    <3>. HIDE DEF to
    <3>3. comb[to] < comb'[to]  BY <3>1, <3>2
    <3>4. Below(comb, comb')  BY <3>1, <3>2, <3>3 DEF Below
    <3>5. \A c \in Combinations : ~ (Below(comb, c) /\ Below(c, comb'))
      BY <2>1, NoneBetween
    <3>. QED  BY <2>1, <3>4, <3>5 DEF Increment
  <2>2. CASE LoopBack
    <3>1. ASSUME NEW c \in Combinations, Below(comb, c) PROVE FALSE
      <4>1. PICK i \in Probes :
              comb[i] < c[i] /\ \A k \in Probes : k > i => comb[k] = c[k]
        BY <3>1 DEF Below
      <4>2. i \in Open  BY <4>1, HighestRaised
      <4>. QED  BY <2>2, <4>2 DEF LoopBack
    <3>. QED  BY <2>2, <3>1 DEF LoopBack
  <2>3. CASE UNCHANGED vars  BY <2>3 DEF vars
  <2>. QED  BY <2>1, <2>2, <2>3 DEF Next
<1>. QED  BY <1>1, Invariance, PTL DEF Spec, VisitsInOrder

(* No combination to visit comes before the one the loop starts from       *)
(* (probeComb_firstWhoseImageIs, and the zeros of ITERATE_OVER_PROBES).    *)
THEOREM StartsFirst == Init => \A c \in Combinations : ~ Below(c, comb)
<1>. SUFFICES ASSUME Init, NEW c \in Combinations, Below(c, comb) PROVE FALSE  OBVIOUS
<1>1. IInv  BY InitInv
<1>2. /\ c \in [Probes -> Nat]
      /\ image # All => {j \in Probes : c[j] > 0} = image
  BY <1>1, CombinationsAre DEF IInv, TypeOK
<1>3. PICK i \in Probes : c[i] < comb[i]  BY DEF Below
<1>4. comb[i] = IF image # All /\ i \in image THEN 1 ELSE 0  BY DEF Init
<1>5. image # All /\ i \in image => c[i] > 0  BY <1>2
<1>6. c[i] \in Nat  BY <1>2
<1>. QED  BY <1>3, <1>4, <1>5, <1>6
-----------------------------------------------------------------------------
(* The wires of a set that are equal to a probe, and the sets of wires of  *)
(* some probes that take for each of them what the probe allows.           *)
In(S, i) == {w \in S : w[1] = i}
Family(W, A, F) ==
  {S \in SUBSET {w \in W : w[1] \in A} : \A i \in A : In(S, i) \in F[i]}

(* No probe, and only the empty set.                                       *)
LEMMA FamilyEmpty ==
  ASSUME NEW W, NEW F
  PROVE  Family(W, {}, F) = {{}} /\ Cardinality(Family(W, {}, F)) = 1
<1>1. Family(W, {}, F) = {{}}  BY DEF Family
<1>. QED  BY <1>1, FS_Singleton

(* The probes choose their wires independently of each other.              *)
LEMMA FamilyStep ==
  ASSUME NEW W, IsFiniteSet(W), NEW A, NEW x \in A, NEW F,
         \A i \in A : F[i] \in SUBSET (SUBSET In(W, i))
  PROVE  /\ IsFiniteSet(Family(W, A, F)) /\ IsFiniteSet(F[x])
         /\ Cardinality(Family(W, A, F)) \in Nat /\ Cardinality(F[x]) \in Nat
         /\ Cardinality(Family(W, A, F)) =
              Cardinality(Family(W, A \ {x}, F)) * Cardinality(F[x])
<1>. DEFINE P == Family(W, A \ {x}, F)
            Q == Family(W, A, F)
            f == [p \in P \X F[x] |-> p[1] \cup p[2]]
<1>1. IsFiniteSet(P) /\ IsFiniteSet(F[x])
  <2>1. IsFiniteSet({w \in W : w[1] \in A \ {x}})  BY FS_Subset
  <2>2. IsFiniteSet(SUBSET {w \in W : w[1] \in A \ {x}})  BY <2>1, FS_SUBSET
  <2>3. P \in SUBSET (SUBSET {w \in W : w[1] \in A \ {x}})  BY DEF Family
  <2>4. IsFiniteSet(P)  BY <2>2, <2>3, FS_Subset
  <2>5. In(W, x) \in SUBSET W  BY DEF In
  <2>6. IsFiniteSet(In(W, x))  BY <2>5, FS_Subset
  <2>7. IsFiniteSet(SUBSET In(W, x))  BY <2>6, FS_SUBSET
  <2>8. IsFiniteSet(F[x])  BY <2>7, FS_Subset
  <2>. QED  BY <2>4, <2>8
<1>2. ASSUME NEW S \in P, NEW T \in F[x]
      PROVE  /\ S \cup T \in Q
             /\ {w \in S \cup T : w[1] # x} = S
             /\ In(S \cup T, x) = T
  <2>1. /\ S \in SUBSET {w \in W : w[1] \in A \ {x}}
        /\ \A i \in A \ {x} : In(S, i) \in F[i]
    BY DEF Family
  <2>2. T \in SUBSET W /\ \A w \in T : w[1] = x  BY DEF In
  <2>3. \A w \in S : w \in W /\ w[1] \in A /\ w[1] # x  BY <2>1
  <2>4. {w \in S \cup T : w[1] # x} = S  BY <2>2, <2>3
  <2>5. In(S \cup T, x) = T  BY <2>2, <2>3 DEF In
  <2>6. \A i \in A \ {x} : In(S \cup T, i) = In(S, i)  BY <2>2 DEF In
  <2>7. \A i \in A : In(S \cup T, i) \in F[i]  BY <2>1, <2>5, <2>6
  <2>8. S \cup T \in SUBSET {w \in W : w[1] \in A}  BY <2>2, <2>3
  <2>. QED  BY <2>4, <2>5, <2>7, <2>8 DEF Family
<1>3. ASSUME NEW U \in Q
      PROVE  /\ {w \in U : w[1] # x} \in P /\ In(U, x) \in F[x]
             /\ {w \in U : w[1] # x} \cup In(U, x) = U
  <2>1. U \in SUBSET {w \in W : w[1] \in A} /\ \A i \in A : In(U, i) \in F[i]
    BY DEF Family
  <2>2. \A i \in A \ {x} : In({w \in U : w[1] # x}, i) = In(U, i)  BY DEF In
  <2>3. {w \in U : w[1] # x} \in SUBSET {w \in W : w[1] \in A \ {x}}  BY <2>1
  <2>4. {w \in U : w[1] # x} \in P  BY <2>1, <2>2, <2>3 DEF Family
  <2>5. {w \in U : w[1] # x} \cup In(U, x) = U  BY DEF In
  <2>. QED  BY <2>1, <2>4, <2>5
<1>. HIDE DEF P, Q
<1>4. f \in Bijection(P \X F[x], Q)
  <2>1. \A p \in P \X F[x] : f[p] \in Q  BY <1>2
  <2>2. ASSUME NEW p \in P \X F[x], NEW q \in P \X F[x], f[p] = f[q] PROVE p = q
    <3>1. p[1] \cup p[2] = q[1] \cup q[2]  BY <2>2
    <3>2. {w \in p[1] \cup p[2] : w[1] # x} = p[1] /\ In(p[1] \cup p[2], x) = p[2]  BY <1>2
    <3>3. {w \in q[1] \cup q[2] : w[1] # x} = q[1] /\ In(q[1] \cup q[2], x) = q[2]  BY <1>2
    <3>4. p[1] = q[1] /\ p[2] = q[2]  BY <3>1, <3>2, <3>3
    <3>. QED  BY <3>4
  <2>3. ASSUME NEW U \in Q PROVE \E p \in P \X F[x] : f[p] = U
    <3>1. <<{w \in U : w[1] # x}, In(U, x)>> \in P \X F[x]  BY <1>3
    <3>2. f[<<{w \in U : w[1] # x}, In(U, x)>>] = U  BY <1>3, <3>1
    <3>. QED  BY <3>1, <3>2
  <2>. QED  BY <2>1, <2>2, <2>3 DEF Bijection, Injection, Surjection, IsInjective
<1>5. ExistsBijection(P \X F[x], Q)  BY <1>4 DEF ExistsBijection
<1>6. /\ IsFiniteSet(P \X F[x])
      /\ Cardinality(P \X F[x]) = Cardinality(P) * Cardinality(F[x])
  BY <1>1, FS_Product
<1>7. IsFiniteSet(Q) /\ Cardinality(Q) = Cardinality(P) * Cardinality(F[x])
  BY <1>5, <1>6, FS_Bijection
<1>8. Cardinality(Q) \in Nat /\ Cardinality(F[x]) \in Nat  BY <1>1, <1>7, FS_CardinalityType
<1>. QED  BY <1>1, <1>7, <1>8 DEF P, Q

Parity(T, b) == {S \in SUBSET T : Cardinality(S) % 2 = b}

(* As many subsets have an even number of members as an odd one.           *)
LEMMA SubsetsOfParity ==
  ASSUME NEW T, IsFiniteSet(T), T # {}, NEW b \in {0, 1}
  PROVE  Cardinality(Parity(T, b)) = 2^(Cardinality(T) - 1)
<1>1. PICK x \in T : TRUE  OBVIOUS
<1>. DEFINE R == T \ {x}
            P == SUBSET R
            Q == Parity(T, b)
            f == [S \in P |-> IF Cardinality(S) % 2 = b THEN S ELSE S \cup {x}]
<1>2. IsFiniteSet(R) /\ Cardinality(R) = Cardinality(T) - 1  BY <1>1, FS_RemoveElement
<1>3. IsFiniteSet(P) /\ Cardinality(P) = 2^(Cardinality(T) - 1)  BY <1>2, FS_SUBSET
<1>4. ASSUME NEW S \in P PROVE f[S] \in Q /\ f[S] \ {x} = S
  <2>1. IsFiniteSet(S) /\ Cardinality(S) \in Nat
    BY <1>2, FS_Subset, FS_CardinalityType
  <2>2. x \notin S  OBVIOUS
  <2>3. Cardinality(S \cup {x}) = Cardinality(S) + 1  BY <2>1, <2>2, FS_AddElement
  <2>4. \A n \in Nat : n % 2 # b => (n + 1) % 2 = b  OBVIOUS
  <2>5. Cardinality(S) % 2 # b => Cardinality(S \cup {x}) % 2 = b  BY <2>1, <2>3, <2>4
  <2>6. S \in SUBSET T /\ S \cup {x} \in SUBSET T  BY <1>1
  <2>7. f[S] \ {x} = S  BY <2>2
  <2>. QED  BY <2>5, <2>6, <2>7 DEF Parity
<1>5. ASSUME NEW U \in Q PROVE U \ {x} \in P /\ f[U \ {x}] = U
  <2>1. U \in SUBSET T /\ Cardinality(U) % 2 = b  BY DEF Parity
  <2>2. IsFiniteSet(U) /\ Cardinality(U) \in Nat  BY <2>1, FS_Subset, FS_CardinalityType
  <2>3. CASE x \in U
    <3>1. IsFiniteSet(U \ {x}) /\ Cardinality(U \ {x}) = Cardinality(U) - 1  BY <2>2, <2>3, FS_RemoveElement
    <3>2. Cardinality(U \ {x}) \in Nat  BY <3>1, FS_CardinalityType
    <3>3. \A n \in Nat : (n + 1) % 2 = b => n % 2 # b  OBVIOUS
    <3>4. Cardinality(U) = Cardinality(U \ {x}) + 1  BY <2>2, <3>1
    <3>5. Cardinality(U \ {x}) % 2 # b  BY <2>1, <3>2, <3>3, <3>4
    <3>6. U \ {x} \in P /\ (U \ {x}) \cup {x} = U  BY <2>1, <2>3
    <3>. QED  BY <3>5, <3>6
  <2>4. CASE x \notin U
    <3>1. U \ {x} = U /\ U \in P  BY <2>1, <2>4
    <3>. QED  BY <2>1, <3>1
  <2>. QED  BY <2>3, <2>4
<1>. HIDE DEF P, Q, f
<1>6. ExistsBijection(P, Q)
  <2>1. \A S \in P : f[S] \in Q  BY <1>4
  <2>2. \A S, U \in P : f[S] = f[U] => S = U  BY <1>4
  <2>3. \A U \in Q : \E S \in P : f[S] = U  BY <1>5
  <2>4. f = [S \in P |-> f[S]]  BY DEF f
  <2>5. f \in Bijection(P, Q)
    BY <2>1, <2>2, <2>3, <2>4 DEF Bijection, Injection, Surjection, IsInjective
  <2>. QED  BY <2>5 DEF ExistsBijection
<1>7. Cardinality(Q) = Cardinality(P)  BY <1>3, <1>6, FS_Bijection
<1>. QED  BY <1>3, <1>7 DEF Q

-----------------------------------------------------------------------------
(* The wires that a combination may leak, probe by probe.                  *)
LEMMA CopiesOf ==
  ASSUME g \in Gadgets, NEW c \in [Probes -> Nat]
  PROVE  /\ IsFiniteSet(Copies(c))
         /\ \A w \in Copies(c) : w[1] \in Probes /\ c[w[1]] > 0
         /\ \A i \in Probes : /\ IsFiniteSet(In(Copies(c), i))
                              /\ Cardinality(In(Copies(c), i)) = c[i]
<1>1. IsFiniteSet(Probes) /\ \A i \in Probes : c[i] \in Nat  BY GadgetFacts
<1>2. ASSUME NEW i \in Probes
      PROVE  IsFiniteSet({i} \X (1 .. c[i])) /\ Cardinality({i} \X (1 .. c[i])) = c[i]
  <2>1. c[i] \in Nat  BY <1>1
  <2>2. IsFiniteSet(1 .. c[i]) /\ Cardinality(1 .. c[i]) = c[i]
    <3>1. 1 \in Int /\ c[i] \in Int /\ (1 > c[i] => c[i] = 0) /\ c[i] - 1 + 1 = c[i]  BY <2>1
    <3>2. /\ IsFiniteSet(1 .. c[i])
          /\ Cardinality(1 .. c[i]) = IF 1 > c[i] THEN 0 ELSE c[i] - 1 + 1
      BY <3>1, FS_Interval
    <3>. QED  BY <3>1, <3>2
  <2>3. IsFiniteSet({i}) /\ Cardinality({i}) = 1  BY FS_Singleton
  <2>4. /\ IsFiniteSet({i} \X (1 .. c[i]))
        /\ Cardinality({i} \X (1 .. c[i])) = 1 * c[i]
    BY <2>2, <2>3, FS_Product
  <2>. QED  BY <2>1, <2>4
<1>3. ASSUME NEW i \in Probes PROVE In(Copies(c), i) = {i} \X (1 .. c[i])
  BY DEF In, Copies
<1>4. IsFiniteSet(Copies(c))
  <2>. DEFINE X == {{i} \X (1 .. c[i]) : i \in Probes}
  <2>1. IsFiniteSet(X)
    <3>. DEFINE f == [i \in Probes |-> {i} \X (1 .. c[i])]
    <3>1. f \in Surjection(Probes, X)  BY DEF Surjection
    <3>. QED  BY <1>1, <3>1, FS_Surjection
  <2>2. \A T \in X : IsFiniteSet(T)  BY <1>2
  <2>. QED  BY <2>1, <2>2, FS_UNION DEF Copies
<1>5. ASSUME NEW w \in Copies(c) PROVE w[1] \in Probes /\ c[w[1]] > 0
  <2>1. PICK i \in Probes : w \in {i} \X (1 .. c[i])  BY DEF Copies
  <2>2. w[1] = i /\ w[2] \in 1 .. c[i] /\ c[i] \in Nat  BY <1>1, <2>1
  <2>. QED  BY <2>2
<1>. QED  BY <1>2, <1>3, <1>4, <1>5

(* The sets of leaking wires that sum up to a row come as often as the     *)
(* wires beyond the first of each probe allow (probeComb_getRowMulteplicity*)
(* and its comment).                                                       *)
LEMMA RowComesAsOften == IInv => EachRowComesAsOften
<1>. SUFFICES ASSUME IInv, NEW R \in SUBSET HighestRow
     PROVE  Cardinality({S \in SUBSET Copies(comb) : Row(S) = R}) = 2^getRowMulteplicity
  BY DEF EachRowComesAsOften
<1>. DEFINE W == Copies(comb)
            H == HighestRow
            b(i) == IF i \in R THEN 1 ELSE 0
            F == [i \in H |-> Parity(In(W, i), b(i))]
            v == [i \in H |-> comb[i] - 1]
<1>1. /\ g \in Gadgets /\ comb \in [Probes -> Nat]
      /\ Probes \in SUBSET Nat /\ IsFiniteSet(Probes)
  BY GadgetFacts DEF IInv, TypeOK
<1>2. /\ IsFiniteSet(W)
      /\ \A w \in W : w[1] \in Probes /\ comb[w[1]] > 0
      /\ \A i \in Probes : IsFiniteSet(In(W, i)) /\ Cardinality(In(W, i)) = comb[i]
  BY <1>1, CopiesOf
<1>3. /\ H \in SUBSET Probes /\ IsFiniteSet(H)
      /\ \A i \in H : comb[i] \in Nat \ {0} /\ v[i] \in Nat
  <2>1. H \in SUBSET Probes /\ \A i \in H : comb[i] \in Nat /\ comb[i] > 0
    BY <1>1 DEF HighestRow
  <2>2. IsFiniteSet(H)  BY <1>1, <2>1, FS_Subset
  <2>. HIDE DEF H
  <2>3. \A n \in Nat : n > 0 => n \in Nat \ {0} /\ n - 1 \in Nat  OBVIOUS
  <2>. QED  BY <2>1, <2>2, <2>3
<1>4. getRowMulteplicity = Total(v, H)
  <2>1. \A i \in H : comb[i] - 1 \in Int /\ comb[i] \in Int /\ 1 \in Int  BY <1>3
  <2>2. FoldSet(LAMBDA i, sum : sum + comb[i] - 1, 0, H) = Total(v, H)
    BY <1>3, <2>1, FoldIsTotal
  <2>. QED  BY <2>2 DEF getRowMulteplicity
<1>5. {S \in SUBSET W : Row(S) = R} = Family(W, H, F)
  <2>1. \A w \in W : w[1] \in H  BY <1>2 DEF HighestRow
  <2>2. ASSUME NEW S \in SUBSET W
        PROVE  Row(S) = R <=> \A i \in H : In(S, i) \in F[i]
    <3>1. \A i \in Probes : i \in Row(S) <=> Cardinality(In(S, i)) % 2 = 1
      BY DEF Row, In
    <3>2. ASSUME NEW i \in Probes
          PROVE  /\ IsFiniteSet(In(S, i)) /\ Cardinality(In(S, i)) % 2 \in {0, 1}
                 /\ In(S, i) \in SUBSET In(W, i)
                 /\ i \notin H => ~ (Cardinality(In(S, i)) % 2 = 1)
      <4>1. In(S, i) \in SUBSET In(W, i)  BY DEF In
      <4>2. IsFiniteSet(In(S, i)) /\ Cardinality(In(S, i)) \in Nat
        BY <1>2, <4>1, FS_Subset, FS_CardinalityType
      <4>3. \A n \in Nat : n % 2 \in {0, 1}  OBVIOUS
      <4>4. i \notin H => In(S, i) = {}  BY <2>1 DEF In
      <4>5. i \notin H => Cardinality(In(S, i)) = 0  BY <4>4, FS_EmptySet
      <4>6. 0 % 2 = 0  OBVIOUS
      <4>. QED  BY <4>1, <4>2, <4>3, <4>5, <4>6
    <3>3. ASSUME NEW i \in H
          PROVE  In(S, i) \in F[i] <=> (Cardinality(In(S, i)) % 2 = 1 <=> i \in R)
      <4>1. In(S, i) \in F[i] <=> Cardinality(In(S, i)) % 2 = b(i)
        BY <1>3, <3>2 DEF Parity
      <4>. QED  BY <1>3, <3>2, <4>1
    <3>4. Row(S) \in SUBSET H  BY <3>1, <3>2 DEF Row
    <3>. HIDE DEF H, F
    <3>5. Row(S) = R <=> \A i \in H : (i \in Row(S) <=> i \in R)  BY <3>4 DEF H
    <3>. QED  BY <1>3, <3>1, <3>3, <3>5
  <2>3. {w \in W : w[1] \in H} = W  BY <2>1
  <2>. HIDE DEF W, H, F
  <2>. QED  BY <2>2, <2>3 DEF Family
<1>6. ASSUME NEW i \in H
      PROVE  /\ F[i] \in SUBSET (SUBSET In(W, i))
             /\ Cardinality(F[i]) = 2^v[i]
  <2>1. IsFiniteSet(In(W, i)) /\ Cardinality(In(W, i)) = comb[i]  BY <1>2, <1>3
  <2>2. In(W, i) # {}
    <3>1. Cardinality(In(W, i)) # 0  BY <1>3, <2>1
    <3>. QED  BY <3>1, FS_EmptySet
  <2>3. b(i) \in {0, 1}  OBVIOUS
  <2>4. Cardinality(Parity(In(W, i), b(i))) = 2^(comb[i] - 1)
    <3>. HIDE DEF W, b
    <3>. QED  BY <2>1, <2>2, <2>3, SubsetsOfParity
  <2>. QED  BY <2>4 DEF Parity
<1>. DEFINE Bad == {A \in SUBSET H : Cardinality(Family(W, A, F)) # 2^Total(v, A)}
<1>. HIDE DEF W, H, F, v
<1>7. Bad = {}
  <2>. SUFFICES ASSUME Bad # {} PROVE FALSE  OBVIOUS
  <2>1. PICK A \in Bad : \A x \in A : A \ {x} \notin Bad
    <3>1. Bad \in SUBSET (SUBSET H)  OBVIOUS
    <3>. HIDE DEF Bad
    <3>. QED  BY <1>3, <3>1, SmallestSet
  <2>2. IsFiniteSet(A) /\ \A i \in A : v[i] \in Nat  BY <1>3, FS_Subset
  <2>3. \A i \in A : v[i] \in Int  BY <2>2
  <2>4. /\ A = {} => Total(v, A) = 0
        /\ \A x \in A : Total(v, A) = v[x] + Total(v, A \ {x})
    BY <2>2, <2>3, SumRemove
  <2>5. CASE A = {}
    <3>1. Cardinality(Family(W, A, F)) = 1  BY <2>5, FamilyEmpty
    <3>2. 2^0 = 1  OBVIOUS
    <3>. QED  BY <2>1, <2>4, <2>5, <3>1, <3>2
  <2>6. CASE A # {}
    <3>1. PICK x \in A : TRUE  BY <2>6
    <3>2. Cardinality(Family(W, A, F)) =
            Cardinality(Family(W, A \ {x}, F)) * Cardinality(F[x])
      <4>1. \A i \in A : F[i] \in SUBSET (SUBSET In(W, i))  BY <1>6
      <4>. QED  BY <1>2, <4>1, FamilyStep
    <3>3. Cardinality(Family(W, A \ {x}, F)) = 2^Total(v, A \ {x})
      BY <2>1
    <3>4. Total(v, A \ {x}) \in Nat
      <4>. DEFINE B == A \ {x}
                  z == [i \in B |-> 0]
      <4>1. IsFiniteSet(B) /\ \A i \in B : v[i] \in Int  BY <2>2, FS_Subset
      <4>2. \A i \in B : z[i] \in Int /\ v[i] \in Int /\ z[i] <= v[i]  BY <2>2
      <4>3. Total(z, B) = 0  BY <4>1, SumZero
      <4>4. Total(z, B) <= Total(v, B)
        <5>. HIDE DEF B, z
        <5>. QED  BY <4>1, <4>2, SumMonotone
      <4>5. Total(v, B) \in Int
        <5>. HIDE DEF B
        <5>. QED  BY <4>1, SumRemove
      <4>. QED  BY <4>3, <4>4, <4>5
    <3>5. 2^(Total(v, A \ {x}) + v[x]) = 2^Total(v, A \ {x}) * 2^v[x]
      BY <2>2, <3>4, PowerAdd
    <3>6. Total(v, A) = Total(v, A \ {x}) + v[x]  BY <2>2, <2>4, <3>4
    <3>7. Cardinality(F[x]) = 2^v[x]  BY <1>6
    <3>8. Cardinality(Family(W, A, F)) = 2^Total(v, A)
      BY <3>2, <3>3, <3>5, <3>6, <3>7
    <3>. QED  BY <2>1, <3>8
  <2>. QED  BY <2>5, <2>6
<1>8. Cardinality(Family(W, H, F)) = 2^Total(v, H)  BY <1>7
<1>. QED  BY <1>4, <1>5, <1>8 DEF W

(* Each row below the highest comes as often as the comment says.          *)
THEOREM RowsComeAsOften == Spec => []EachRowComesAsOften
BY RowComesAsOften, Invariance, PTL

-----------------------------------------------------------------------------
FactStep(n, f) == IF n = 0 THEN 1 ELSE n * f[n - 1]

(* The factorial is the function its recursion says: there is one.         *)
LEMMA FactorialIs ==
  /\ factorial[0] = 1
  /\ \A n \in Nat : factorial[n] \in Nat \ {0} /\ factorial[n + 1] = (n + 1) * factorial[n]
<1>. DEFINE T == {n \in Nat : \E f \in [0 .. n -> Nat \ {0}] :
                                 \A k \in 0 .. n : f[k] = FactStep(k, f)}
            h == [n \in Nat |-> CHOOSE f \in [0 .. n -> Nat \ {0}] :
                                  \A k \in 0 .. n : f[k] = FactStep(k, f)]
            v == [n \in Nat |-> h[n][n]]
            Eq(f) == f = [n \in Nat |-> IF n = 0 THEN 1 ELSE n * f[n - 1]]
<1>1. T = Nat
  <2>1. 0 \in T
    <3>1. [k \in 0 .. 0 |-> 1] \in [0 .. 0 -> Nat \ {0}]  OBVIOUS
    <3>2. \A k \in 0 .. 0 : [j \in 0 .. 0 |-> 1][k] = FactStep(k, [j \in 0 .. 0 |-> 1])
      BY DEF FactStep
    <3>. QED  BY <3>1, <3>2
  <2>2. ASSUME NEW n \in T PROVE n + 1 \in T
    <3>1. PICK f \in [0 .. n -> Nat \ {0}] : \A k \in 0 .. n : f[k] = FactStep(k, f)
      BY <2>2
    <3>. DEFINE e == [k \in 0 .. n + 1 |-> IF k = n + 1 THEN (n + 1) * f[n] ELSE f[k]]
    <3>2. n \in Nat /\ n \in 0 .. n /\ n + 1 # 0 /\ (n + 1) - 1 = n  OBVIOUS
    <3>3. \A a, b \in Nat \ {0} : a * b \in Nat \ {0}  OBVIOUS
    <3>4. n + 1 \in Nat \ {0} /\ f[n] \in Nat \ {0}  BY <3>2
    <3>5. (n + 1) * f[n] \in Nat \ {0}
      <4>. HIDE DEF T
      <4>. QED  BY <3>3, <3>4
    <3>6. \A k \in 0 .. n + 1 : k = n + 1 \/ k \in 0 .. n  OBVIOUS
    <3>7. e \in [0 .. n + 1 -> Nat \ {0}]  BY <3>5, <3>6
    <3>8. \A k \in 0 .. n : e[k] = f[k]
      <4>1. \A k \in 0 .. n : k \in 0 .. n + 1 /\ k # n + 1  OBVIOUS
      <4>. QED  BY <4>1
    <3>9. e[n + 1] = (n + 1) * f[n]  OBVIOUS
    <3>. HIDE DEF e, T
    <3>10. ASSUME NEW k \in 0 .. n + 1 PROVE e[k] = FactStep(k, e)
      <4>1. CASE k = n + 1  BY <3>2, <3>8, <3>9, <4>1 DEF FactStep
      <4>2. CASE k # n + 1
        <5>1. k \in 0 .. n  BY <3>6, <4>2
        <5>2. k # 0 => k - 1 \in 0 .. n  BY <3>2, <5>1
        <5>. QED  BY <3>1, <3>8, <5>1, <5>2 DEF FactStep
      <4>. QED  BY <4>1, <4>2
    <3>. QED  BY <3>4, <3>7, <3>10 DEF T
  <2>3. T \in SUBSET Nat  OBVIOUS
  <2>. HIDE DEF T
  <2>. QED  BY <2>1, <2>2, <2>3, AllNaturals
<1>2. ASSUME NEW n \in Nat
      PROVE  /\ h[n] \in [0 .. n -> Nat \ {0}]
             /\ \A k \in 0 .. n : h[n][k] = FactStep(k, h[n])
  <2>1. n \in T  BY <1>1
  <2>. QED  BY <2>1
<1>. HIDE DEF h, T
<1>3. ASSUME NEW n \in Nat, NEW m \in Nat, n <= m PROVE h[m][n] = v[n]
  <2>. DEFINE U == {k \in Nat : k <= n => h[m][k] = h[n][k]}
  <2>1. U = Nat
    <3>1. 0 \in U
      <4>1. 0 \in 0 .. m /\ 0 \in 0 .. n  OBVIOUS
      <4>. QED  BY <1>2, <4>1 DEF FactStep
    <3>2. ASSUME NEW k \in U PROVE k + 1 \in U
      <4>1. SUFFICES ASSUME k + 1 <= n PROVE h[m][k + 1] = h[n][k + 1]  OBVIOUS
      <4>2. /\ k \in Nat /\ k + 1 \in 0 .. m /\ k + 1 \in 0 .. n /\ k + 1 # 0
            /\ (k + 1) - 1 = k /\ k <= n
        BY <1>3, <4>1
      <4>3. h[m][k] = h[n][k]  BY <4>2
      <4>. HIDE DEF U
      <4>. QED  BY <1>2, <4>2, <4>3 DEF FactStep
    <3>3. U \in SUBSET Nat  OBVIOUS
    <3>. HIDE DEF U
    <3>. QED  BY <3>1, <3>2, <3>3, AllNaturals
  <2>2. n \in U /\ n <= n  BY <2>1
  <2>3. h[m][n] = h[n][n]  BY <2>2
  <2>. QED  BY <2>3
<1>4. ASSUME NEW n \in Nat PROVE v[n] \in Nat \ {0} /\ v[n] = FactStep(n, v)
  <2>1. n \in 0 .. n /\ v[n] = h[n][n]  OBVIOUS
  <2>2. n # 0 => n - 1 \in Nat /\ n - 1 <= n  OBVIOUS
  <2>3. n # 0 => h[n][n - 1] = v[n - 1]  BY <1>3, <2>2
  <2>4. h[n][n] = FactStep(n, h[n]) /\ h[n][n] \in Nat \ {0}  BY <1>2, <2>1
  <2>. HIDE DEF v
  <2>. QED  BY <2>1, <2>3, <2>4 DEF FactStep
<1>5. Eq(v)
  <2>1. v = [n \in Nat |-> v[n]]  OBVIOUS
  <2>. HIDE DEF v
  <2>. QED  BY <1>4, <2>1 DEF FactStep
<1>6. factorial = CHOOSE f : Eq(f)  BY DEF factorial
<1>. HIDE DEF Eq
<1>7. Eq(factorial)  BY <1>5, <1>6
<1>8. \A n \in Nat : factorial[n] = FactStep(n, factorial)  BY <1>7 DEF Eq, FactStep
<1>. HIDE DEF v
<1>9. \A n \in Nat : factorial[n] = v[n]
  <2>. DEFINE U == {n \in Nat : factorial[n] = v[n]}
  <2>1. 0 \in U  BY <1>4, <1>8 DEF FactStep
  <2>2. ASSUME NEW n \in U PROVE n + 1 \in U
    <3>1. n \in Nat /\ n + 1 \in Nat /\ n + 1 # 0 /\ (n + 1) - 1 = n  OBVIOUS
    <3>. QED  BY <1>4, <1>8, <3>1 DEF FactStep
  <2>3. U \in SUBSET Nat  OBVIOUS
  <2>. HIDE DEF U
  <2>4. U = Nat  BY <2>1, <2>2, <2>3, AllNaturals
  <2>. QED  BY <2>4 DEF U
<1>10. ASSUME NEW n \in Nat PROVE factorial[n + 1] = (n + 1) * factorial[n]
  <2>1. n + 1 \in Nat /\ n + 1 # 0 /\ (n + 1) - 1 = n  OBVIOUS
  <2>. QED  BY <1>8, <2>1 DEF FactStep
<1>11. factorial[0] = 1  BY <1>8 DEF FactStep
<1>. QED  BY <1>4, <1>9, <1>10, <1>11

(* How many subsets of some size a set has.                                *)
LEMMA SubsetsOfSize ==
  ASSUME NEW T, IsFiniteSet(T), NEW x \in T, NEW k \in Nat \ {0}
  PROVE  /\ Cardinality(kSubset(k, T)) =
              Cardinality(kSubset(k, T \ {x})) + Cardinality(kSubset(k - 1, T \ {x}))
         /\ Cardinality(kSubset(k, T \ {x})) \in Nat
         /\ Cardinality(kSubset(k - 1, T \ {x})) \in Nat
<1>. DEFINE R == T \ {x}
            P == kSubset(k, R)
            Q == kSubset(k - 1, R)
            U == {S \in kSubset(k, T) : x \in S}
            f == [S \in Q |-> S \cup {x}]
<1>1. IsFiniteSet(R)  BY FS_RemoveElement
<1>2. \A j : IsFiniteSet(kSubset(j, R)) /\ Cardinality(kSubset(j, R)) \in Nat
  <2>1. IsFiniteSet(SUBSET R)  BY <1>1, FS_SUBSET
  <2>2. \A j : kSubset(j, R) \in SUBSET (SUBSET R)  BY DEF kSubset
  <2>3. \A j : IsFiniteSet(kSubset(j, R))
    <3>. HIDE DEF R
    <3>. QED  BY <2>1, <2>2, FS_Subset
  <2>. QED  BY <2>3, FS_CardinalityType
<1>3. \A S \in SUBSET T : IsFiniteSet(S) /\ Cardinality(S) \in Nat
  BY FS_Subset, FS_CardinalityType
<1>4. ASSUME NEW S \in Q PROVE f[S] \in U /\ f[S] \ {x} = S
  <2>1. S \in SUBSET R /\ Cardinality(S) = k - 1  BY DEF kSubset
  <2>2. IsFiniteSet(S) /\ x \notin S  BY <1>3, <2>1
  <2>3. Cardinality(S \cup {x}) = (k - 1) + 1  BY <2>1, <2>2, FS_AddElement
  <2>4. (k - 1) + 1 = k  OBVIOUS
  <2>5. S \cup {x} \in SUBSET T /\ (S \cup {x}) \ {x} = S  BY <2>1, <2>2
  <2>. QED  BY <2>3, <2>4, <2>5 DEF kSubset
<1>5. ASSUME NEW S \in U PROVE S \ {x} \in Q /\ f[S \ {x}] = S
  <2>1. S \in SUBSET T /\ Cardinality(S) = k /\ x \in S  BY DEF kSubset
  <2>2. Cardinality(S \ {x}) = k - 1  BY <1>3, <2>1, FS_RemoveElement
  <2>3. S \ {x} \in SUBSET R /\ (S \ {x}) \cup {x} = S  BY <2>1
  <2>4. S \ {x} \in Q  BY <2>2, <2>3 DEF kSubset
  <2>. QED  BY <2>3, <2>4
<1>6. kSubset(k, T) = P \cup U /\ P \cap U = {}
  BY DEF kSubset
<1>. HIDE DEF P, Q, U, f
<1>7. ExistsBijection(Q, U)
  <2>1. \A S \in Q : f[S] \in U  BY <1>4
  <2>2. \A S, V \in Q : f[S] = f[V] => S = V  BY <1>4
  <2>3. \A V \in U : \E S \in Q : f[S] = V  BY <1>5
  <2>4. f = [S \in Q |-> f[S]]  BY DEF f
  <2>5. f \in Bijection(Q, U)
    BY <2>1, <2>2, <2>3, <2>4 DEF Bijection, Injection, Surjection, IsInjective
  <2>. QED  BY <2>5 DEF ExistsBijection
<1>8. /\ IsFiniteSet(P) /\ Cardinality(P) \in Nat
      /\ IsFiniteSet(Q) /\ Cardinality(Q) \in Nat
  BY <1>2 DEF P, Q
<1>9. IsFiniteSet(U) /\ Cardinality(U) = Cardinality(Q)  BY <1>7, <1>8, FS_Bijection
<1>10. Cardinality(P \cup U) = Cardinality(P) + Cardinality(U) - Cardinality(P \cap U)
  BY <1>8, <1>9, FS_Union
<1>11. Cardinality(P \cap U) = 0  BY <1>6, FS_EmptySet
<1>12. Cardinality(kSubset(k, T)) = Cardinality(P) + Cardinality(Q)
  BY <1>6, <1>8, <1>9, <1>10, <1>11
<1>. QED  BY <1>8, <1>12 DEF P, Q

(* None, or all of the members.                                            *)
LEMMA SubsetsOfExtremeSize ==
  ASSUME NEW T, IsFiniteSet(T)
  PROVE  /\ Cardinality(kSubset(0, T)) = 1
         /\ Cardinality(kSubset(Cardinality(T), T)) = 1
<1>1. \A S \in SUBSET T : IsFiniteSet(S)  BY FS_Subset
<1>2. kSubset(0, T) = {{}}
  <2>1. \A S \in SUBSET T : Cardinality(S) = 0 <=> S = {}  BY <1>1, FS_EmptySet
  <2>. QED  BY <2>1 DEF kSubset
<1>3. kSubset(Cardinality(T), T) = {T}
  <2>1. \A S \in SUBSET T : Cardinality(S) = Cardinality(T) => S = T  BY FS_Subset
  <2>. QED  BY <2>1 DEF kSubset
<1>. QED  BY <1>2, <1>3, FS_Singleton

(* choose counts the subsets of a size, and divides without a remainder.   *)
LEMMA ChooseCounts ==
  ASSUME NEW T, IsFiniteSet(T), NEW k \in 0 .. Cardinality(T)
  PROVE  Cardinality(kSubset(k, T)) = choose(Cardinality(T), k)
<1>. DEFINE N(A, j) == Cardinality(kSubset(j, A))
            D(A, j) == factorial[j] * factorial[Cardinality(A) - j]
            Bad == {A \in SUBSET T :
                      ~ \A j \in 0 .. Cardinality(A) :
                          /\ N(A, j) \in Nat
                          /\ N(A, j) * D(A, j) = factorial[Cardinality(A)]}
<1>1. \A A \in SUBSET T : IsFiniteSet(A) /\ Cardinality(A) \in Nat
  BY FS_Subset, FS_CardinalityType
<1>2. Bad = {}
  <2>. SUFFICES ASSUME Bad # {} PROVE FALSE  OBVIOUS
  <2>1. PICK A \in Bad : \A x \in A : A \ {x} \notin Bad
    <3>1. Bad \in SUBSET (SUBSET T)  OBVIOUS
    <3>. HIDE DEF Bad
    <3>. QED  BY <3>1, SmallestSet
  <2>2. A \in SUBSET T /\ IsFiniteSet(A) /\ Cardinality(A) \in Nat  BY <1>1
  <2>. DEFINE n == Cardinality(A)
  <2>3. PICK j \in 0 .. n : ~ (N(A, j) \in Nat /\ N(A, j) * D(A, j) = factorial[n])
    BY <2>1
  <2>4. factorial[0] = 1 /\ \A m \in Nat : factorial[m] \in Nat \ {0}  BY FactorialIs
  <2>5. CASE j = 0
    <3>1. N(A, j) = 1  BY <2>2, <2>5, SubsetsOfExtremeSize
    <3>2. n - j = n /\ factorial[n] \in Nat  BY <2>2, <2>4, <2>5
    <3>3. D(A, j) = 1 * factorial[n]  BY <2>4, <2>5, <3>2
    <3>. HIDE DEF N, D
    <3>. QED  BY <2>3, <3>1, <3>2, <3>3
  <2>6. CASE j = n
    <3>1. N(A, j) = 1  BY <2>2, <2>6, SubsetsOfExtremeSize
    <3>2. n - j = 0 /\ factorial[n] \in Nat  BY <2>2, <2>4, <2>6
    <3>3. D(A, j) = factorial[n] * 1  BY <2>4, <2>6, <3>2
    <3>. HIDE DEF N, D
    <3>. QED  BY <2>3, <3>1, <3>2, <3>3
  <2>7. CASE j # 0 /\ j # n
    <3>1. j \in Nat \ {0} /\ j - 1 \in Nat /\ n - 1 \in Nat /\ n - 1 - j \in Nat
          /\ n - j \in Nat /\ n # 0 /\ n \in Nat
      BY <2>2, <2>3, <2>7
    <3>2. PICK x \in A : TRUE
      <4>1. A # {}  BY <2>2, <3>1, FS_EmptySet
      <4>. QED  BY <4>1
    <3>. DEFINE B == A \ {x}
    <3>3. B \in SUBSET T /\ IsFiniteSet(B) /\ Cardinality(B) = n - 1
      BY <1>1, <2>2, <3>2, FS_RemoveElement
    <3>4. \A i \in 0 .. n - 1 :
            /\ N(B, i) \in Nat
            /\ N(B, i) * D(B, i) = factorial[n - 1]
      BY <2>1, <3>2, <3>3
    <3>5. N(A, j) = N(B, j) + N(B, j - 1)  BY <2>2, <3>1, <3>2, SubsetsOfSize
    <3>. DEFINE a == factorial[j - 1]
                b == factorial[n - 1 - j]
                p == N(B, j)
                q == N(B, j - 1)
                e == factorial[n - 1]
    <3>6. j \in 0 .. n - 1 /\ j - 1 \in 0 .. n - 1  BY <2>2, <2>3, <2>7, <3>1
    <3>7. (j - 1) + 1 = j /\ (n - 1 - j) + 1 = n - j /\ (n - 1) + 1 = n /\ (n - 1) - (j - 1) = n - j
      BY <3>1
    <3>8. /\ factorial[j] = j * a
          /\ factorial[n - j] = (n - j) * b
          /\ factorial[n] = n * e
      <4>1. \A m \in Nat : factorial[m + 1] = (m + 1) * factorial[m]  BY FactorialIs
      <4>2. factorial[(j - 1) + 1] = ((j - 1) + 1) * a  BY <3>1, <4>1
      <4>3. factorial[(n - 1 - j) + 1] = ((n - 1 - j) + 1) * b  BY <3>1, <4>1
      <4>4. factorial[(n - 1) + 1] = ((n - 1) + 1) * e  BY <3>1, <4>1
      <4>. HIDE DEF a, b, e, n
      <4>. QED  BY <3>7, <4>2, <4>3, <4>4
    <3>9. a \in Nat /\ b \in Nat /\ e \in Nat /\ p \in Nat /\ q \in Nat
      BY <2>4, <3>1, <3>4, <3>6
    <3>10. p * ((j * a) * b) = e
      <4>1. p * D(B, j) = e  BY <3>4, <3>6
      <4>2. D(B, j) = (j * a) * b  BY <3>3, <3>8
      <4>. HIDE DEF p, D, e, a, b
      <4>. QED  BY <4>1, <4>2
    <3>11. q * (a * ((n - j) * b)) = e
      <4>1. q * D(B, j - 1) = e  BY <3>4, <3>6
      <4>2. D(B, j - 1) = a * ((n - j) * b)  BY <3>3, <3>7, <3>8
      <4>. HIDE DEF q, D, e, a, b
      <4>. QED  BY <4>1, <4>2
    <3>12. D(A, j) = (j * a) * ((n - j) * b)  BY <3>8
    <3>13. N(A, j) = p + q  BY <3>5
    <3>. HIDE DEF N, D, n, a, b, e, p, q, B
    <3>14. (p + q) * ((j * a) * ((n - j) * b)) = n * e
      <4>1. \A A1, B1, P1, Q1, J, M \in Nat :
              (P1 + Q1) * ((J * A1) * (M * B1)) =
                M * (P1 * ((J * A1) * B1)) + J * (Q1 * (A1 * (M * B1)))
        OBVIOUS
      <4>2. (p + q) * ((j * a) * ((n - j) * b)) = (n - j) * e + j * e
        BY <3>1, <3>9, <3>10, <3>11, <4>1
      <4>3. \A N1, J, E1 \in Nat : N1 - J \in Nat => (N1 - J) * E1 + J * E1 = N1 * E1
        OBVIOUS
      <4>. QED  BY <3>1, <3>9, <4>2, <4>3
    <3>15. N(A, j) \in Nat  BY <3>9, <3>13
    <3>. QED  BY <2>3, <3>8, <3>12, <3>13, <3>14, <3>15
  <2>. QED  BY <2>5, <2>6, <2>7
<1>. DEFINE n == Cardinality(T)
            d == D(T, k)
            c == N(T, k)
<1>3. c \in Nat /\ c * d = factorial[n]
  <2>1. T \notin Bad  BY <1>2
  <2>. QED  BY <2>1
<1>4. d \in Nat \ {0}
  <2>1. n \in Nat /\ k \in Nat /\ n - k \in Nat  BY <1>1
  <2>2. factorial[k] \in Nat \ {0} /\ factorial[n - k] \in Nat \ {0}  BY <2>1, FactorialIs
  <2>3. \A a, b \in Nat \ {0} : a * b \in Nat \ {0}  OBVIOUS
  <2>. QED  BY <2>2, <2>3
<1>5. choose(n, k) = factorial[n] \div d  BY DEF choose
<1>. HIDE DEF c, d, n
<1>6. factorial[n] = d * c + 0  BY <1>3, <1>4
<1>7. 0 \in 0 .. d - 1  BY <1>4
<1>8. (d * c + 0) \div d = c  BY <1>3, <1>4, <1>7, ModUnique
<1>. QED  BY <1>5, <1>6, <1>8 DEF c, n

-----------------------------------------------------------------------------
(* How many of the wires equal to each probe a set has.                    *)
Wires == Copies(g.probeMulteplicity)
Profile(S) == [i \in Probes |-> Cardinality(In(S, i))]

(* A set of wires has as many as its profile says in total, and no more of *)
(* a probe than there are.                                                 *)
LEMMA ProfileIs ==
  ASSUME g \in Gadgets, NEW S \in SUBSET Wires
  PROVE  /\ IsFiniteSet(S) /\ Cardinality(S) \in Nat
         /\ Profile(S) \in [Probes -> Nat]
         /\ \A i \in Probes : Profile(S)[i] <= g.probeMulteplicity[i]
         /\ {i \in Probes : Profile(S)[i] > 0} = {w[1] : w \in S}
         /\ Total(Profile(S), Probes) = Cardinality(S)
<1>. DEFINE m == g.probeMulteplicity
            p == Profile(S)
            L(A) == {w \in S : w[1] \in A}
            Bad == {A \in SUBSET Probes : Total(p, A) # Cardinality(L(A))}
<1>1. IsFiniteSet(Probes) /\ \A i \in Probes : m[i] \in Nat  BY GadgetFacts
<1>2. /\ IsFiniteSet(Wires)
      /\ \A w \in Wires : w[1] \in Probes
      /\ \A i \in Probes : IsFiniteSet(In(Wires, i)) /\ Cardinality(In(Wires, i)) = m[i]
  <2>1. DOMAIN m = Probes  BY DEF Probes
  <2>2. m \in [Probes -> Nat]
    <3>1. m \in Seq(Nat \ {0})  BY GadgetsAssumption
    <3>2. m = [i \in Probes |-> m[i]]  BY <2>1, <3>1
    <3>. HIDE DEF m
    <3>. QED  BY <1>1, <3>2
  <2>. QED  BY <2>2, CopiesOf DEF Wires
<1>3. \A A : IsFiniteSet(L(A)) /\ L(A) \in SUBSET S /\ Cardinality(L(A)) \in Nat
  <2>1. \A A : L(A) \in SUBSET Wires  OBVIOUS
  <2>. HIDE DEF L
  <2>2. \A A : IsFiniteSet(L(A))  BY <1>2, <2>1, FS_Subset
  <2>. QED  BY <2>2, FS_CardinalityType DEF L
<1>4. IsFiniteSet(S) /\ Cardinality(S) \in Nat  BY <1>2, FS_Subset, FS_CardinalityType
<1>5. ASSUME NEW i \in Probes
      PROVE  /\ IsFiniteSet(In(S, i)) /\ p[i] = Cardinality(In(S, i))
             /\ p[i] \in Nat /\ p[i] <= m[i]
             /\ p[i] > 0 <=> In(S, i) # {}
  <2>1. In(S, i) \in SUBSET In(Wires, i)  BY DEF In
  <2>2. IsFiniteSet(In(S, i)) /\ Cardinality(In(S, i)) <= m[i]  BY <1>2, <2>1, FS_Subset
  <2>3. Cardinality(In(S, i)) \in Nat /\ (Cardinality(In(S, i)) = 0 <=> In(S, i) = {})
    BY <2>2, FS_CardinalityType, FS_EmptySet
  <2>4. p[i] = Cardinality(In(S, i))  BY DEF Profile
  <2>. HIDE DEF p
  <2>. QED  BY <2>2, <2>3, <2>4
<1>6. p \in [Probes -> Nat]
  <2>1. p = [i \in Probes |-> p[i]]  BY DEF Profile
  <2>. HIDE DEF p
  <2>. QED  BY <1>5, <2>1
<1>7. {i \in Probes : p[i] > 0} = {w[1] : w \in S}
  <2>1. \A i \in Probes : p[i] > 0 <=> \E w \in S : w[1] = i  BY <1>5 DEF In
  <2>2. \A w \in S : w[1] \in Probes  BY <1>2
  <2>. HIDE DEF p
  <2>. QED  BY <2>1, <2>2
<1>. HIDE DEF p
<1>8. Bad = {}
  <2>. SUFFICES ASSUME Bad # {} PROVE FALSE  OBVIOUS
  <2>1. PICK A \in Bad : \A x \in A : A \ {x} \notin Bad
    <3>1. Bad \in SUBSET (SUBSET Probes)  OBVIOUS
    <3>. HIDE DEF Bad
    <3>. QED  BY <1>1, <3>1, SmallestSet
  <2>2. IsFiniteSet(A) /\ \A i \in A : p[i] \in Int  BY <1>1, <1>5, FS_Subset
  <2>3. /\ A = {} => Total(p, A) = 0
        /\ \A x \in A : Total(p, A) = p[x] + Total(p, A \ {x})
    BY <2>2, SumRemove
  <2>4. CASE A = {}
    <3>1. L(A) = {}  BY <2>4
    <3>2. Cardinality(L(A)) = 0  BY <3>1, FS_EmptySet
    <3>. QED  BY <2>1, <2>3, <2>4, <3>2
  <2>5. CASE A # {}
    <3>1. PICK x \in A : TRUE  BY <2>5
    <3>2. Total(p, A \ {x}) = Cardinality(L(A \ {x}))  BY <2>1, <3>1
    <3>3. L(A) = L(A \ {x}) \cup In(S, x) /\ L(A \ {x}) \cap In(S, x) = {}
      BY <3>1 DEF In
    <3>4. IsFiniteSet(In(S, x)) /\ p[x] = Cardinality(In(S, x)) /\ p[x] \in Nat
      BY <1>5, <3>1
    <3>5. IsFiniteSet(L(A \ {x})) /\ Cardinality(L(A \ {x})) \in Nat  BY <1>3
    <3>. HIDE DEF L
    <3>6. Cardinality(L(A)) = Cardinality(L(A \ {x})) + Cardinality(In(S, x)) - 0
      <4>1. Cardinality(L(A \ {x}) \cap In(S, x)) = 0  BY <3>3, FS_EmptySet
      <4>. QED  BY <3>3, <3>4, <3>5, <4>1, FS_Union
    <3>7. Total(p, A) = Cardinality(L(A))  BY <2>3, <3>1, <3>2, <3>4, <3>5, <3>6
    <3>. QED  BY <2>1, <3>7
  <2>. QED  BY <2>4, <2>5
<1>9. L(Probes) = S  BY <1>2
<1>10. Total(p, Probes) = Cardinality(S)  BY <1>8, <1>9
<1>. QED  BY <1>4, <1>5, <1>6, <1>7, <1>10 DEF p

(* probeComb_getProbesMulteplicity is the number of sets of wires of which *)
(* the combination is the profile.                                         *)
LEMMA MulteplicityIs ==
  ASSUME IInv
  PROVE  getProbesMulteplicity = Cardinality({S \in SUBSET Wires : Profile(S) = comb})
<1>. DEFINE m == g.probeMulteplicity
            W == Wires
            ways(i) == choose(m[i], comb[i])
            F == [i \in Probes |-> kSubset(comb[i], In(W, i))]
            Eq(f) == f = [s \in SUBSET Probes |->
                            IF s = {} THEN 1 ELSE f[s \ {Chosen(s)}] * ways(Chosen(s))]
            it == CHOOSE f : Eq(f)
            h == [s \in SUBSET Probes |-> Cardinality(Family(W, s, F))]
<1>1. /\ g \in Gadgets /\ IsFiniteSet(Probes)
      /\ comb \in [Probes -> Nat]
      /\ \A i \in Probes : m[i] \in Nat /\ comb[i] <= m[i]
  BY GadgetFacts DEF IInv, TypeOK
<1>2. /\ IsFiniteSet(W)
      /\ \A w \in W : w[1] \in Probes
      /\ \A i \in Probes : IsFiniteSet(In(W, i)) /\ Cardinality(In(W, i)) = m[i]
  <2>1. m \in [Probes -> Nat]
    <3>1. m \in Seq(Nat \ {0})  BY <1>1, GadgetsAssumption
    <3>2. m = [i \in Probes |-> m[i]]  BY <3>1 DEF Probes
    <3>. HIDE DEF m
    <3>. QED  BY <1>1, <3>2
  <2>. QED  BY <1>1, <2>1, CopiesOf DEF Wires
<1>3. getProbesMulteplicity = it[Probes]
  BY DEF getProbesMulteplicity, FoldSet, MapThenFoldSet, Chosen
<1>4. \A i \in Probes : /\ F[i] \in SUBSET (SUBSET In(W, i))
                        /\ Cardinality(F[i]) = ways(i)
  <2>1. ASSUME NEW i \in Probes
        PROVE  F[i] \in SUBSET (SUBSET In(W, i)) /\ Cardinality(F[i]) = ways(i)
    <3>1. IsFiniteSet(In(W, i)) /\ Cardinality(In(W, i)) = m[i]  BY <1>2
    <3>2. comb[i] \in 0 .. m[i]  BY <1>1
    <3>3. Cardinality(kSubset(comb[i], In(W, i))) = choose(m[i], comb[i])
      <4>. HIDE DEF W, m
      <4>. QED  BY <3>1, <3>2, ChooseCounts
    <3>4. kSubset(comb[i], In(W, i)) \in SUBSET (SUBSET In(W, i))  BY DEF kSubset
    <3>. HIDE DEF W, m
    <3>. QED  BY <3>3, <3>4
  <2>. QED  BY <2>1
<1>5. {S \in SUBSET W : Profile(S) = comb} = Family(W, Probes, F)
  <2>1. ASSUME NEW S \in SUBSET W
        PROVE  Profile(S) = comb <=> \A i \in Probes : In(S, i) \in F[i]
    <3>1. \A i \in Probes : In(S, i) \in SUBSET In(W, i)  BY DEF In
    <3>2. \A i \in Probes : In(S, i) \in F[i] <=> Profile(S)[i] = comb[i]
      <4>. HIDE DEF W
      <4>. QED  BY <3>1 DEF kSubset, Profile
    <3>3. Profile(S) = [i \in Probes |-> Profile(S)[i]] /\ comb = [i \in Probes |-> comb[i]]
      BY <1>1 DEF Profile
    <3>. HIDE DEF F
    <3>. QED  BY <3>2, <3>3
  <2>2. {w \in W : w[1] \in Probes} = W  BY <1>2
  <2>. HIDE DEF W, F
  <2>. QED  BY <2>1, <2>2 DEF Family
<1>. HIDE DEF W, F, ways
<1>6. Eq(h)
  <2>1. ASSUME NEW s \in SUBSET Probes
        PROVE  h[s] = IF s = {} THEN 1 ELSE h[s \ {Chosen(s)}] * ways(Chosen(s))
    <3>1. CASE s = {}  BY <3>1, FamilyEmpty
    <3>2. CASE s # {}
      <4>. DEFINE x == Chosen(s)
      <4>1. x \in s  BY <3>2 DEF Chosen
      <4>. HIDE DEF x
      <4>2. \A i \in s : F[i] \in SUBSET (SUBSET In(W, i))  BY <1>4
      <4>3. Cardinality(Family(W, s, F)) =
              Cardinality(Family(W, s \ {x}, F)) * Cardinality(F[x])
        <5>. HIDE DEF h, it, Eq
        <5>1. IsFiniteSet(W)  BY <1>2
        <5>. QED  BY <4>1, <4>2, <5>1, FamilyStep
      <4>4. Cardinality(F[x]) = ways(x) /\ s \ {x} \in SUBSET Probes  BY <1>4, <4>1
      <4>5. h[s] = h[s \ {x}] * ways(x)  BY <4>3, <4>4
      <4>. QED  BY <3>2, <4>5 DEF x
    <3>. QED  BY <3>1, <3>2
  <2>2. h = [s \in SUBSET Probes |-> h[s]]  OBVIOUS
  <2>. HIDE DEF h
  <2>. QED  BY <2>1, <2>2
<1>. HIDE DEF Eq
<1>7. Eq(it)  BY <1>6
<1>. HIDE DEF it
<1>. DEFINE Bad == {s \in SUBSET Probes : it[s] # h[s]}
<1>. HIDE DEF h
<1>8. Bad = {}
  <2>. SUFFICES ASSUME Bad # {} PROVE FALSE  OBVIOUS
  <2>1. PICK T \in Bad : \A x \in T : T \ {x} \notin Bad
    <3>1. Bad \in SUBSET (SUBSET Probes)  OBVIOUS
    <3>. HIDE DEF Bad
    <3>. QED  BY <1>1, <3>1, SmallestSet
  <2>2. /\ it[T] = IF T = {} THEN 1 ELSE it[T \ {Chosen(T)}] * ways(Chosen(T))
        /\ h[T] = IF T = {} THEN 1 ELSE h[T \ {Chosen(T)}] * ways(Chosen(T))
    BY <1>6, <1>7, <2>1 DEF Eq
  <2>3. T # {}  BY <2>1, <2>2
  <2>4. Chosen(T) \in T  BY <2>3 DEF Chosen
  <2>5. it[T \ {Chosen(T)}] = h[T \ {Chosen(T)}]  BY <2>1, <2>4
  <2>. QED  BY <2>1, <2>2, <2>5
<1>9. it[Probes] = Cardinality(Family(W, Probes, F))  BY <1>8 DEF h
<1>. QED  BY <1>3, <1>5, <1>9 DEF W

-----------------------------------------------------------------------------
(* The combinations the loop has added already, and the sets of wires they *)
(* stand for; the invariant says that these are what coeffs counts.        *)
Seen == {c \in Combinations : Below(c, comb) \/ (~going /\ c = comb)}
Counted(n) == {S \in SUBSET Wires : Cardinality(S) = n /\ Profile(S) \in Seen}

AddsUp ==
  /\ coeffs \in [0 .. g.maxCoeff -> Nat]
  /\ \A n \in 0 .. g.maxCoeff : coeffs[n] = Cardinality(Counted(n))
  /\ ~going => \A c \in Combinations : ~ Below(comb, c)

(* The order of the combinations is strict and total.                      *)
LEMMA BelowIsOrder ==
  ASSUME g \in Gadgets, NEW a \in [Probes -> Nat], NEW b \in [Probes -> Nat]
  PROVE  /\ a # b => Below(a, b) \/ Below(b, a)
         /\ ~ Below(a, a)
         /\ \A c \in [Probes -> Nat] : Below(a, b) /\ Below(b, c) => Below(a, c)
<1>1. Probes \in SUBSET Nat  BY GadgetFacts
<1>2. \A c, d \in [Probes -> Nat], i \in Probes : c[i] \in Nat /\ d[i] \in Nat  OBVIOUS
<1>3. ~ Below(a, a)
  <2>1. \A i \in Probes : ~ (a[i] < a[i])  BY <1>2
  <2>. QED  BY <2>1 DEF Below
<1>4. ASSUME NEW c \in [Probes -> Nat], Below(a, b), Below(b, c) PROVE Below(a, c)
  <2>1. PICK i \in Probes : a[i] < b[i] /\ \A j \in Probes : j > i => a[j] = b[j]
    BY <1>4 DEF Below
  <2>2. PICK k \in Probes : b[k] < c[k] /\ \A j \in Probes : j > k => b[j] = c[j]
    BY <1>4 DEF Below
  <2>3. /\ i \in Nat /\ k \in Nat
        /\ a[i] \in Nat /\ b[i] \in Nat /\ c[i] \in Nat
        /\ a[k] \in Nat /\ b[k] \in Nat /\ c[k] \in Nat
    BY <1>1, <1>2
  <2>4. \A j \in Probes : j \in Nat  BY <1>1
  <2>5. CASE i > k
    <3>1. a[i] < c[i]  BY <2>1, <2>2, <2>5
    <3>2. \A j \in Probes : j > i => a[j] = c[j]
      <4>1. \A j \in Probes : j > i => j > k  BY <2>3, <2>4, <2>5
      <4>. QED  BY <2>1, <2>2, <4>1
    <3>. QED  BY <3>1, <3>2 DEF Below
  <2>6. CASE i = k
    <3>1. a[i] < c[i]  BY <2>1, <2>2, <2>3, <2>6
    <3>2. \A j \in Probes : j > i => a[j] = c[j]  BY <2>1, <2>2, <2>6
    <3>. QED  BY <3>1, <3>2 DEF Below
  <2>7. CASE i < k
    <3>1. a[k] < c[k]  BY <2>1, <2>2, <2>3, <2>7
    <3>2. \A j \in Probes : j > k => a[j] = c[j]
      <4>1. \A j \in Probes : j > k => j > i  BY <2>3, <2>4, <2>7
      <4>. QED  BY <2>1, <2>2, <4>1
    <3>. QED  BY <3>1, <3>2 DEF Below
  <2>. QED  BY <2>3, <2>5, <2>6, <2>7
<1>5. ASSUME a # b PROVE Below(a, b) \/ Below(b, a)
  <2>. DEFINE l == Len(g.probeMulteplicity)
              D == {i \in Probes : a[i] # b[i]}
              T == {l - i : i \in D}
  <2>1. Probes = 1 .. l /\ l \in Nat
    <3>1. g.probeMulteplicity \in Seq(Nat \ {0})  BY GadgetsAssumption
    <3>. QED  BY <3>1 DEF Probes
  <2>2. D # {}
    <3>1. a = [i \in Probes |-> a[i]] /\ b = [i \in Probes |-> b[i]]  OBVIOUS
    <3>. QED  BY <1>5, <3>1
  <2>3. T \in SUBSET Nat /\ T # {}
    <3>1. \A n \in Nat : \A i \in 1 .. n : n - i \in Nat  OBVIOUS
    <3>2. D \in SUBSET (1 .. l)  BY <2>1
    <3>3. \A i \in D : l - i \in Nat
      <4>. HIDE DEF D, l
      <4>. QED  BY <2>1, <3>1, <3>2
    <3>. QED  BY <2>2, <3>3
  <2>4. PICK t \in T : \A u \in T : t <= u
    <3>. HIDE DEF T
    <3>. QED  BY <2>3, LeastNatural
  <2>5. PICK i \in D : t = l - i  BY <2>4
  <2>6. \A j \in Probes : j > i => a[j] = b[j]
    <3>1. ASSUME NEW j \in Probes, j > i, a[j] # b[j] PROVE FALSE
      <4>1. l - j \in T  BY <3>1
      <4>2. l - i <= l - j  BY <2>4, <2>5, <4>1
      <4>3. i \in Nat /\ j \in Nat  BY <1>1
      <4>. HIDE DEF T, D, l
      <4>. QED  BY <2>1, <3>1, <4>2, <4>3
    <3>. QED  BY <3>1
  <2>7. i \in Probes /\ a[i] # b[i] /\ a[i] \in Nat /\ b[i] \in Nat  BY <1>2
  <2>8. a[i] < b[i] \/ b[i] < a[i]  BY <2>7
  <2>. QED  BY <2>6, <2>7, <2>8 DEF Below
<1>. QED  BY <1>3, <1>4, <1>5

(* The combination of a state is one of those to visit.                    *)
LEMMA CombinationVisited == IInv => comb \in Combinations /\ g \in Gadgets
BY CombinationsAre DEF IInv, TypeOK, HighestRow

CombinationsOf(h, im) ==
  {c \in [DOMAIN h.probeMulteplicity -> 0 .. h.maxCoeff] :
    /\ \A i \in DOMAIN h.probeMulteplicity : c[i] <= h.probeMulteplicity[i]
    /\ FoldFunction(+, 0, c) <= h.maxCoeff
    /\ im # All => {i \in DOMAIN h.probeMulteplicity : c[i] > 0} = im}

(* The combinations to visit depend on the gadget and the image only.      *)
LEMMA CombinationsDepend == Combinations = CombinationsOf(g, image)
BY Zenon DEF Combinations, CombinationsOf, Probes

(* They stay the same as long as those do.                                 *)
LEMMA SameCombinations ==
  ASSUME g' = g, image' = image
  PROVE  Probes' = Probes /\ Combinations' = Combinations
<1>1. Combinations = CombinationsOf(g, image)  BY CombinationsDepend
<1>2. (Combinations = CombinationsOf(g, image))'  BY CombinationsDepend, PTL
<1>3. Combinations' = CombinationsOf(g', image')  BY <1>2
<1>. QED  BY <1>1, <1>3 DEF Probes

(* A step adds the combination it leaves to those seen.                    *)
LEMMA SeenGrows ==
  ASSUME IInv, Increment \/ LoopBack
  PROVE  /\ Seen' = Seen \cup {comb} /\ comb \notin Seen
         /\ going
         /\ ~going' => \A c \in Combinations' : ~ Below(comb, c)'
<1>1. /\ comb \in Combinations /\ comb \in [Probes -> Nat] /\ g \in Gadgets
      /\ going
  BY CombinationVisited DEF IInv, TypeOK, Increment, LoopBack
<1>2. \A c \in Combinations : c \in [Probes -> Nat]  BY <1>1, CombinationsAre
<1>3. Seen = {c \in Combinations : Below(c, comb)}  BY <1>1 DEF Seen
<1>4. comb \notin Seen  BY <1>1, <1>3, BelowIsOrder
<1>5. g' = g /\ image' = image /\ Probes' = Probes /\ Combinations' = Combinations
  <2>1. g' = g /\ image' = image  BY DEF Increment, LoopBack
  <2>. QED  BY <2>1, SameCombinations
<1>6. CASE Increment
  <2>. DEFINE next == comb'
  <2>1. going'  BY <1>6, <1>1 DEF Increment
  <2>2. next \in [Probes -> Nat]  BY <1>6, IncrementStep
  <2>3. Below(comb, next)
    <3>. DEFINE to == Min(Open)
    <3>1. to \in Probes /\ comb[to] \in Nat
      <4>1. to \in Open  BY <1>6, IncrementStep
      <4>. QED  BY <1>1, <4>1 DEF Open, Movable
    <3>2. \A j \in Probes : /\ j > to => comb'[j] = comb[j]
                            /\ j = to => comb'[j] = comb[j] + 1
      BY <1>6, IncrementValues
    <3>. HIDE DEF to
    <3>3. comb[to] < comb'[to]  BY <3>1, <3>2
    <3>. QED  BY <3>1, <3>2, <3>3 DEF Below
  <2>4. Seen' = {c \in Combinations : Below(c, next)}
    <3>1. \A c \in Combinations : Below(c, comb)' <=> Below(c, next)
      BY <1>5 DEF Below
    <3>. QED  BY <1>5, <2>1, <3>1 DEF Seen
  <2>5. \A c \in Combinations : Below(c, next) => Below(c, comb) \/ c = comb
    <3>1. ASSUME NEW c \in Combinations, Below(c, next), c # comb PROVE Below(c, comb)
      <4>1. Below(c, comb) \/ Below(comb, c)  BY <1>1, <1>2, <3>1, BelowIsOrder
      <4>2. ~ (Below(comb, c) /\ Below(c, comb'))  BY <1>6, NoneBetween
      <4>. QED  BY <3>1, <4>1, <4>2
    <3>. QED  BY <3>1
  <2>6. \A c \in Combinations : Below(c, comb) => Below(c, next)
    <3>. HIDE DEF next
    <3>. QED  BY <1>1, <1>2, <2>2, <2>3, BelowIsOrder
  <2>. HIDE DEF next
  <2>7. Seen' = Seen \cup {comb}  BY <1>1, <1>3, <2>3, <2>4, <2>5, <2>6
  <2>. QED  BY <1>1, <1>4, <2>1, <2>7
<1>7. CASE LoopBack
  <2>1. comb' = comb /\ ~going'  BY <1>7 DEF LoopBack
  <2>2. \A c \in Combinations : (Below(c, comb)' <=> Below(c, comb)) /\ (Below(comb, c)' <=> Below(comb, c))
    BY <1>5, <2>1 DEF Below
  <2>3. Seen' = Seen \cup {comb}
    <3>1. Seen' = {c \in Combinations : Below(c, comb) \/ c = comb}
      BY <1>5, <2>1, <2>2 DEF Seen
    <3>. QED  BY <1>1, <1>3, <3>1
  <2>4. ASSUME NEW c \in Combinations, Below(comb, c) PROVE FALSE
    <3>1. PICK i \in Probes :
            comb[i] < c[i] /\ \A k \in Probes : k > i => comb[k] = c[k]
      BY <2>4 DEF Below
    <3>2. i \in Open  BY <3>1, HighestRaised
    <3>. QED  BY <1>7, <3>2 DEF LoopBack
  <2>. QED  BY <1>1, <1>4, <1>5, <2>2, <2>3, <2>4
<1>. QED  BY <1>6, <1>7

(* Nothing has been added before the loop.                                 *)
LEMMA InitAdds == Init => AddsUp
<1>. SUFFICES ASSUME Init PROVE AddsUp  OBVIOUS
<1>1. coeffs = [n \in 0 .. g.maxCoeff |-> 0] /\ going  BY DEF Init
<1>2. Seen = {}  BY <1>1, StartsFirst DEF Seen
<1>3. \A n \in 0 .. g.maxCoeff : Counted(n) = {}  BY <1>2 DEF Counted
<1>. QED  BY <1>1, <1>3, FS_EmptySet DEF AddsUp

(* A step adds the sets of the combination it leaves, and to the number of *)
(* wires they have.                                                        *)
LEMMA NextAdds == IInv /\ AddsUp /\ [Next]_vars => AddsUp'
<1>. SUFFICES ASSUME IInv, AddsUp, [Next]_vars PROVE AddsUp'  OBVIOUS
<1>1. CASE Increment \/ LoopBack
  <2>. DEFINE now == {S \in SUBSET Wires : Profile(S) = comb}
              limit == g.maxCoeff
  <2>1. /\ Seen' = Seen \cup {comb} /\ comb \notin Seen
        /\ ~going' => \A c \in Combinations' : ~ Below(comb, c)'
    BY <1>1, SeenGrows
  <2>2. /\ g' = g /\ Probes' = Probes /\ Wires' = Wires
        /\ coeffs' = [coeffs EXCEPT ![count] = @ + getProbesMulteplicity]
    BY <1>1 DEF Increment, LoopBack, Visit, Probes, Wires, Copies
  <2>3. /\ g \in Gadgets /\ count \in Int /\ count = Total(comb, Probes) /\ count <= limit
    BY DEF IInv, TypeOK
  <2>4. getProbesMulteplicity = Cardinality(now)  BY MulteplicityIs
  <2>5. \A S \in SUBSET Wires :
          /\ IsFiniteSet(S) /\ Cardinality(S) \in Nat
          /\ Total(Profile(S), Probes) = Cardinality(S)
    BY <2>3, ProfileIs
  <2>6. \A S \in now : Cardinality(S) = count  BY <2>3, <2>5
  <2>7. IsFiniteSet(SUBSET Wires)
    <3>1. IsFiniteSet(Wires)  BY <2>5
    <3>. QED  BY <3>1, FS_SUBSET
  <2>8. IsFiniteSet(now) /\ Cardinality(now) \in Nat
    <3>1. IsFiniteSet(now)  BY <2>7, FS_Subset
    <3>. QED  BY <3>1, FS_CardinalityType
  <2>9. \A n : IsFiniteSet(Counted(n)) /\ Cardinality(Counted(n)) \in Nat
    <3>1. \A n : Counted(n) \in SUBSET (SUBSET Wires)  BY DEF Counted
    <3>2. \A n : IsFiniteSet(Counted(n))  BY <2>7, <3>1, FS_Subset
    <3>. QED  BY <3>2, FS_CardinalityType
  <2>10. \A S : Profile(S)' = Profile(S)  BY <2>2 DEF Profile
  <2>11. \A n : Counted(n)' = {S \in SUBSET Wires :
                                 Cardinality(S) = n /\ Profile(S) \in Seen \cup {comb}}
    BY <2>1, <2>2, <2>10 DEF Counted
  <2>12. \A n : n = count => /\ Counted(n)' = Counted(n) \cup now
                             /\ Counted(n) \cap now = {}
    BY <2>1, <2>6, <2>11 DEF Counted
  <2>13. \A n : n # count => Counted(n)' = Counted(n)
    BY <2>6, <2>11 DEF Counted
  <2>14. coeffs \in [0 .. limit -> Nat] /\ \A n \in 0 .. limit : coeffs[n] = Cardinality(Counted(n))
    BY DEF AddsUp
  <2>. HIDE DEF now
  <2>15. ASSUME NEW n \in 0 .. limit
         PROVE  coeffs'[n] \in Nat /\ coeffs'[n] = Cardinality(Counted(n)')
    <3>1. CASE n = count
      <4>1. coeffs'[n] = Cardinality(Counted(n)) + Cardinality(now)
        BY <2>2, <2>4, <2>14, <3>1
      <4>2. Cardinality(Counted(n) \cup now) =
              Cardinality(Counted(n)) + Cardinality(now) - Cardinality(Counted(n) \cap now)
        BY <2>8, <2>9, FS_Union
      <4>3. Cardinality(Counted(n) \cap now) = 0  BY <2>12, <3>1, FS_EmptySet
      <4>4. Counted(n)' = Counted(n) \cup now  BY <2>12, <3>1
      <4>. QED  BY <2>8, <2>9, <4>1, <4>2, <4>3, <4>4
    <3>2. CASE n # count
      <4>1. coeffs'[n] = coeffs[n] /\ Counted(n)' = Counted(n)
        BY <2>2, <2>13, <2>14, <3>2
      <4>. QED  BY <2>9, <2>14, <4>1
    <3>. QED  BY <3>1, <3>2
  <2>16. coeffs' = [n \in 0 .. limit |-> coeffs'[n]]  BY <2>2, <2>14
  <2>17. coeffs' \in [0 .. limit -> Nat]  BY <2>15, <2>16
  <2>. QED  BY <2>1, <2>2, <2>15, <2>17 DEF AddsUp
<1>2. CASE UNCHANGED vars
  <2>1. /\ g' = g /\ image' = image /\ comb' = comb /\ coeffs' = coeffs /\ going' = going
    BY <1>2 DEF vars
  <2>2. Probes' = Probes /\ Wires' = Wires /\ Combinations' = Combinations
    <3>1. Probes' = Probes /\ Combinations' = Combinations  BY <2>1, SameCombinations
    <3>. QED  BY <2>1, <3>1 DEF Wires, Copies
  <2>3. \A c, d : Below(c, d)' <=> Below(c, d)  BY <2>2 DEF Below
  <2>4. \A c : (Below(c, comb)' <=> Below(c, comb)) /\ (Below(comb, c)' <=> Below(comb, c))
    BY <2>1, <2>2 DEF Below
  <2>5. Seen' = Seen  BY <2>1, <2>2, <2>4 DEF Seen
  <2>6. \A S : Profile(S)' = Profile(S)  BY <2>2 DEF Profile
  <2>7. \A n : Counted(n)' = Counted(n)  BY <2>2, <2>5, <2>6 DEF Counted
  <2>. QED  BY <2>1, <2>2, <2>4, <2>7 DEF AddsUp
<1>. QED  BY <1>1, <1>2 DEF Next

(* When the loop has ended it has counted every set of as many wires as    *)
(* may leak, of exactly the image's probes: once each.                     *)
LEMMA AddedAll == IInv /\ AddsUp => CoeffsCountTheSets
<1>. SUFFICES ASSUME IInv, AddsUp, ~going, NEW n \in 0 .. g.maxCoeff
     PROVE  coeffs[n] = Cardinality({S \in SUBSET Copies(g.probeMulteplicity) :
                          Cardinality(S) = n /\ (image # All => {w[1] : w \in S} = image)})
  BY DEF CoeffsCountTheSets
<1>1. comb \in Combinations /\ comb \in [Probes -> Nat] /\ g \in Gadgets
  BY CombinationVisited DEF IInv, TypeOK
<1>2. \A c \in Combinations : c \in [Probes -> Nat]  BY <1>1, CombinationsAre
<1>3. Seen = Combinations
  <2>1. ASSUME NEW c \in Combinations PROVE Below(c, comb) \/ c = comb
    <3>1. ~ Below(comb, c)  BY DEF AddsUp
    <3>. QED  BY <1>1, <1>2, <3>1, BelowIsOrder
  <2>. QED  BY <2>1 DEF Seen
<1>4. ASSUME NEW S \in SUBSET Wires, Cardinality(S) = n
      PROVE  Profile(S) \in Combinations <=> (image # All => {w[1] : w \in S} = image)
  <2>1. /\ Profile(S) \in [Probes -> Nat]
        /\ \A i \in Probes : Profile(S)[i] <= g.probeMulteplicity[i]
        /\ {i \in Probes : Profile(S)[i] > 0} = {w[1] : w \in S}
        /\ Total(Profile(S), Probes) = n
    BY <1>1, <1>4, ProfileIs
  <2>2. n <= g.maxCoeff
    <3>1. g.maxCoeff \in Nat  BY <1>1, GadgetFacts
    <3>. QED  BY <3>1
  <2>. QED  BY <1>1, <2>1, <2>2, CombinationsAre
<1>5. Counted(n) = {S \in SUBSET Wires :
                      Cardinality(S) = n /\ (image # All => {w[1] : w \in S} = image)}
  BY <1>3, <1>4 DEF Counted
<1>6. coeffs[n] = Cardinality(Counted(n))  BY DEF AddsUp
<1>. QED  BY <1>5, <1>6 DEF Wires

(* What the loop adds up to is the number of sets of wires, by their size. *)
THEOREM CountsTheSets == Spec => []CoeffsCountTheSets
<1>1. Init => IInv /\ AddsUp  BY InitInv, InitAdds
<1>2. IInv /\ AddsUp /\ [Next]_vars => (IInv /\ AddsUp)'  BY NextInv, NextAdds
<1>3. IInv /\ AddsUp => CoeffsCountTheSets  BY AddedAll
<1>. QED  BY <1>1, <1>2, <1>3, PTL DEF Spec
=============================================================================
