--------------------------- MODULE Wrapper_proofs ---------------------------
(***************************************************************************)
(* Proofs about Wrapper and the passes of SubrowHashed in it: both passes  *)
(* over the rows take the same way up, so that a row's subrows have their  *)
(* classes before it, for words of any width and rows of any number of     *)
(* words, the last one used in full or in part; and, unless there are more *)
(* words and the last one is used in part, no row that is allowed is left  *)
(* out, what is looked up is there, and the rows of a class agree.         *)
(*                                                                         *)
(* EveryRowHashed is of one moment; AllSoFar says of each step of the pass *)
(* which rows were hashed before it.  That needs that the increment, of    *)
(* the outputs or by localInc of the probes, is the next allowed row: any  *)
(* row above is first greater in some bit, and with that bit there is no   *)
(* room for more ones than the increment leaves.  LookupsHit needs that a  *)
(* class has a row (ClassesHaveRows), and which rows the later loops reach *)
(* (OutAndProbes); ClassesAgree that a class keeps the value that its rows *)
(* were entered with (ClassesHaveValues), and then goes down from row to   *)
(* direct subrow.                                                          *)
(***************************************************************************)
EXTENDS Wrapper, NumberLemmas

(* The limits of a gadget are natural numbers, and there is a wire.        *)
LEMMA ShapeFacts ==
  ASSUME NEW shape \in Gadgets
  PROVE  /\ shape.numOuts \in Nat \ {0} /\ shape.d \in Nat \ {0}
         /\ shape.numTotOuts \in Nat \ {0}
         /\ numMaskedOuts(shape) \in Nat \ {0} /\ numMaskedOuts(shape) <= shape.numTotOuts
         /\ shape.maxCoeff \in Nat /\ shape.t \in 0 .. shape.d - 1
<1>1. /\ shape.numOuts \in Nat \ {0} /\ shape.d \in Nat \ {0}
      /\ shape.numTotOuts \in Nat /\ shape.numTotOuts >= shape.numOuts * shape.d
      /\ shape.maxCoeff \in Nat /\ shape.t \in 0 .. shape.d - 1
  BY GadgetsAssumption
<1>2. shape.numOuts * shape.d \in Nat \ {0}  BY <1>1
<1>. QED  BY <1>1, <1>2 DEF numMaskedOuts

(* An increment that is said not to overflow adds, and stays in the row,   *)
(* whether or not the last word is used in full.                           *)
LEMMA LocalIncRight ==
  ASSUME NEW n \in Nat \ {0}, NEW r \in 0 .. 2^n - 1, NEW from \in 0 .. n,
         ~ localInc(n, r, from).overflows
  PROVE  localInc(n, r, from).row = r + 2^from /\ r + 2^from < 2^n
<1>. DEFINE V == BITARRAY_I_VALUE_BITS
            q == n \div V
            used == n % V
            w == (n + V - 1) \div V
            sum == r + 2^from
            M == 2^(w * V)
            L == 2^((w - 1) * V)
<1>1. V \in Nat \ {0}  BY WordAssumption
<1>2. q \in Nat /\ used \in 0 .. V - 1 /\ n = V * q + used  BY <1>1, DivMod
<1>3. /\ localInc(n, r, from).row = sum % M
      /\ localInc(n, r, from).overflows =
           IF used = 0 THEN sum # sum % M
           ELSE (sum % M) \div L # r \div L /\ (sum % M) \div L >= 2^used - 1
  BY DEF localInc, BITARRAY_I_SIZE
<1>4. 2^n \in Nat \ {0} /\ 2^from \in Nat \ {0} /\ r \in Nat /\ from \in Nat /\ r < 2^n
  BY PowerStep
<1>5. sum \in Nat  BY <1>4
<1>. HIDE DEF used, q, V, sum
<1>6. CASE used = 0
  <2>1. n + V - 1 = V * q + (V - 1) /\ V - 1 \in 0 .. V - 1  BY <1>1, <1>2, <1>6
  <2>2. w = q  BY <1>1, <1>2, <2>1, ModUnique
  <2>3. w * V = n  BY <1>1, <1>2, <1>6, <2>2
  <2>. HIDE DEF w
  <2>4. M = 2^n  BY <2>3
  <2>5. sum = sum % M  BY <1>3, <1>6
  <2>. HIDE DEF M
  <2>6. sum % M \in 0 .. M - 1  BY <1>4, <1>5, <2>4, DivMod
  <2>7. sum < 2^n  BY <1>4, <1>5, <2>4, <2>5, <2>6
  <2>. QED  BY <1>3, <2>5, <2>7 DEF sum
<1>7. CASE used # 0
  <2>1. n + V - 1 = V * (q + 1) + (used - 1) /\ used - 1 \in 0 .. V - 1 /\ q + 1 \in Nat
    BY <1>1, <1>2, <1>7
  <2>2. w = q + 1  BY <1>1, <2>1, ModUnique
  <2>3. (w - 1) * V = V * q /\ w * V = V * q + V /\ V * q \in Nat  BY <1>1, <1>2, <2>2
  <2>. HIDE DEF w
  <2>4. n < w * V /\ w * V \in Nat  BY <1>1, <1>2, <2>3
  <2>5. 2 * 2^n <= M /\ M \in Nat \ {0}  BY <2>4, PowerMonotone, PowerStep
  <2>6. 2^from <= 2^n
    <3>1. CASE from < n
      <4>1. 2 * 2^from <= 2^n  BY <1>4, <3>1, PowerMonotone
      <4>. QED  BY <1>4, <4>1
    <3>2. CASE from = n  BY <1>4, <3>2
    <3>. QED  BY <3>1, <3>2
  <2>. HIDE DEF M
  <2>7. sum \in 0 .. M - 1
    <3>1. sum < 2 * 2^n  BY <1>4, <2>6 DEF sum
    <3>. QED  BY <1>4, <1>5, <2>5, <3>1
  <2>8. sum % M = sum
    <3>1. M * 0 + sum = sum  BY <1>5, <2>5
    <3>2. (M * 0 + sum) % M = sum  BY <2>5, <2>7, ModUnique
    <3>. QED  BY <3>1, <3>2
  <2>9. used \in Nat /\ 2^used \in Nat \ {0} /\ L \in Nat \ {0} /\ 2^n = L * 2^used
    <3>1. used \in Nat  BY <1>1, <1>2
    <3>2. L = 2^(V * q)  BY <2>3
    <3>3. 2^(V * q + used) = 2^(V * q) * 2^used  BY <2>3, <3>1, PowerAdd
    <3>. QED  BY <1>2, <2>3, <3>1, <3>2, <3>3, PowerStep
  <2>. HIDE DEF L
  <2>10. r \div L < 2^used  BY <1>4, <2>9, DivBelow
  <2>11. sum \div L < 2^used
    <3>1. sum \div L = r \div L \/ ~ (sum \div L >= 2^used - 1)  BY <1>3, <1>7, <2>8
    <3>2. sum \div L \in Nat  BY <1>5, <2>9, DivMod
    <3>. QED  BY <2>9, <2>10, <3>1, <3>2
  <2>12. sum < 2^n  BY <1>5, <2>9, <2>11, DivBelow
  <2>. QED  BY <1>3, <2>8, <2>12 DEF sum
<1>. QED  BY <1>6, <1>7

(* Resetting the bits below k leaves the quotients by higher powers.       *)
LEMMA ResetHigh ==
  ASSUME NEW r \in Nat, NEW k \in Nat, NEW j \in Nat, k <= j
  PROVE  (r - (r % 2^k)) \div 2^j = r \div 2^j
<1>1. 2^k \in Nat \ {0} /\ 2^j \in Nat \ {0} /\ 2^(j - k) \in Nat \ {0}
  <2>1. j - k \in Nat  OBVIOUS
  <2>. QED  BY <2>1, PowerStep
<1>2. 2^j = 2^k * 2^(j - k)
  <2>1. j - k \in Nat /\ k + (j - k) = j  OBVIOUS
  <2>. QED  BY <2>1, PowerAdd
<1>3. PICK K \in Nat \ {0}, J \in Nat \ {0}, D \in Nat \ {0} :
        K = 2^k /\ J = 2^j /\ D = 2^(j - k) /\ J = K * D
  BY <1>1, <1>2
<1>. DEFINE a == r \div J
            b == r % J
            u == b \div K
            c == b % K
<1>4. a \in Nat /\ b \in 0 .. J - 1 /\ r = J * a + b  BY <1>3, DivMod
<1>5. b \in Nat  BY <1>4
<1>6. u \in Nat /\ c \in 0 .. K - 1 /\ b = K * u + c  BY <1>3, <1>5, DivMod
<1>. HIDE DEF a, b, u, c
<1>7. r = K * (D * a + u) + c
  <2>1. J * a = K * (D * a)  BY <1>3, <1>4
  <2>2. D * a \in Nat  BY <1>3, <1>4
  <2>3. K * (D * a + u) = K * (D * a) + K * u  BY <1>3, <1>6, <2>2
  <2>. QED  BY <1>3, <1>4, <1>6, <2>1, <2>2, <2>3
<1>8. r % K = c
  <2>1. D * a + u \in Nat  BY <1>3, <1>4, <1>6
  <2>. QED  BY <1>3, <1>6, <1>7, <2>1, ModUnique
<1>9. r - c = J * a + (b - c) /\ b - c \in 0 .. J - 1
  <2>1. K * u \in Nat /\ J * a \in Nat  BY <1>3, <1>4, <1>6
  <2>. QED  BY <1>3, <1>4, <1>6, <2>1
<1>10. (r - c) \div J = a
  <2>1. (J * a + (b - c)) \div J = a  BY <1>3, <1>4, <1>9, ModUnique
  <2>. QED  BY <1>9, <2>1
<1>. QED  BY <1>3, <1>8, <1>10 DEF a

(* The carry of an increment stops at the first zero.                      *)
LEMMA CarryStops ==
  ASSUME NEW n \in Nat, NEW j \in 0 .. n - 1, NEW k \in 0 .. j,
         NEW r \in Nat, r < 2^n, ~ get(r, j)
  PROVE  r + 2^k < 2^n
<1>1. j \in Nat /\ k \in Nat /\ n - (j + 1) \in Nat /\ (j + 1) + (n - (j + 1)) = n  OBVIOUS
<1>2. /\ 2^j \in Nat \ {0} /\ 2^(j + 1) = 2 * 2^j
      /\ 2^(n - (j + 1)) \in Nat \ {0} /\ 2^n = 2^(j + 1) * 2^(n - (j + 1))
  <2>1. j + 1 \in Nat  BY <1>1
  <2>. QED  BY <1>1, <2>1, PowerAdd, PowerStep
<1>3. 2^k \in Nat /\ 2^k <= 2^j
  <2>1. CASE k < j
    <3>1. 2 * 2^k <= 2^j /\ 2^k \in Nat  BY <1>1, <2>1, PowerMonotone, PowerStep
    <3>. QED  BY <1>2, <3>1
  <2>2. CASE k = j  BY <1>2, <2>2
  <2>. QED  BY <2>1, <2>2
<1>. DEFINE a == r \div 2^j
            b == r % 2^j
<1>4. a \in Nat /\ b \in 0 .. 2^j - 1 /\ r = 2^j * a + b  BY <1>2, DivMod
<1>5. a % 2 # 1  BY DEF get
<1>. HIDE DEF a, b
<1>6. PICK h \in Nat : a = 2 * h
  <2>1. a \div 2 \in Nat /\ a = 2 * (a \div 2)  BY <1>4, <1>5
  <2>. QED  BY <2>1
<1>7. PICK J \in Nat \ {0}, m \in Nat \ {0} :
        J = 2^j /\ m = 2^(n - (j + 1)) /\ 2^n = (2 * J) * m
  BY <1>2
<1>8. r = (2 * J) * h + b  BY <1>4, <1>6, <1>7
<1>9. h < m
  <2>. SUFFICES ASSUME m <= h PROVE FALSE  BY <1>6, <1>7
  <2>1. CASE m = h
    <3>1. (2 * J) * h \in Nat  BY <1>6, <1>7
    <3>. QED  BY <1>4, <1>7, <1>8, <2>1, <3>1
  <2>2. CASE m < h
    <3>1. (2 * J) * m + 2 * J <= (2 * J) * h  BY <1>6, <1>7, <2>2, MulMonotone
    <3>2. (2 * J) * h \in Nat /\ (2 * J) * m \in Nat  BY <1>6, <1>7
    <3>. QED  BY <1>4, <1>7, <1>8, <3>1, <3>2
  <2>. QED  BY <1>6, <1>7, <2>1, <2>2
<1>10. (2 * J) * h + 2 * J <= (2 * J) * m  BY <1>6, <1>7, <1>9, MulMonotone
<1>11. (2 * J) * h \in Nat /\ (2 * J) * m \in Nat  BY <1>6, <1>7
<1>. QED  BY <1>3, <1>4, <1>7, <1>8, <1>10, <1>11

(* The next combination of outputs is a greater row.                       *)
LEMMA OutIncreases ==
  ASSUME NEW shape \in Gadgets, NEW r \in 0 .. 2^shape.numTotOuts - 1,
         shape.t # 0, outLeqT(shape, r).more
  PROVE  outLeqT(shape, r).row \in r + 1 .. 2^shape.numTotOuts - 1
<1>. DEFINE n == shape.numTotOuts
            d == shape.d
            t == shape.t
            open == {o \in 0 .. shape.numOuts - 1 : ~ AtTop(shape, r, o)}
            o == Min(open)
            k0 == o * d
            end == (o + 1) * d
            r0 == r - (r % 2^k0)
            ones == {i \in OutBits(shape, o) : get(r0, i)}
            k == IF Cardinality(ones) < t THEN k0 ELSE Min(ones)
<1>1. /\ shape.numOuts \in Nat \ {0} /\ d \in Nat \ {0} /\ n \in Nat \ {0}
      /\ shape.numOuts * d <= n /\ t \in 1 .. d - 1
  BY ShapeFacts DEF numMaskedOuts
<1>2. r \in Nat /\ r < 2^n /\ 2^n \in Nat  BY <1>1, PowerStep
<1>3. open # {}  BY DEF outLeqT
<1>4. o \in open /\ o \in Nat /\ o <= shape.numOuts - 1
  <2>1. open \in SUBSET Nat  BY <1>1
  <2>2. o \in open  BY <1>3, <2>1, MinOfNaturals
  <2>. QED  BY <1>1, <2>1, <2>2
<1>5. outLeqT(shape, r).row = r0 + 2^k  BY <1>3 DEF outLeqT, NextOut
<1>6. OutBits(shape, o) = k0 .. end - 1  BY DEF OutBits
<1>7. PICK j \in end - t .. end - 1 : ~ get(r, j)  BY <1>4 DEF AtTop
<1>. HIDE DEF o
<1>8. /\ k0 \in Nat /\ end = k0 + d /\ end <= n
      /\ end - t \in Nat /\ k0 <= end - t /\ j \in Nat /\ j < n /\ k0 <= j
  <2>1. k0 \in Nat /\ end = k0 + d  BY <1>1, <1>4
  <2>2. end <= shape.numOuts * d
    <3>1. CASE o + 1 = shape.numOuts  BY <1>1, <3>1
    <3>2. CASE o + 1 < shape.numOuts
      <4>1. d * (o + 1) + d <= d * shape.numOuts  BY <1>1, <1>4, <3>2, MulMonotone
      <4>2. d * (o + 1) = end /\ d * shape.numOuts = shape.numOuts * d  BY <1>1, <1>4
      <4>. QED  BY <1>1, <2>1, <4>1, <4>2
    <3>. QED  BY <1>1, <1>4, <3>1, <3>2
  <2>3. end \in Nat /\ end <= n
    <3>1. shape.numOuts * d \in Nat  BY <1>1
    <3>. QED  BY <1>1, <2>1, <2>2, <3>1
  <2>. HIDE DEF k0, end
  <2>. QED  BY <1>1, <1>7, <2>1, <2>3
<1>. HIDE DEF k0, end, d, t, n
<1>9. 2^k0 \in Nat \ {0} /\ r % 2^k0 \in 0 .. 2^k0 - 1 /\ r % 2^k0 <= r
  <2>1. 2^k0 \in Nat \ {0}  BY <1>8, PowerStep
  <2>2. r \div 2^k0 \in Nat /\ r % 2^k0 \in 0 .. 2^k0 - 1
        /\ r = 2^k0 * (r \div 2^k0) + (r % 2^k0)
    BY <1>2, <2>1, DivMod
  <2>3. 2^k0 * (r \div 2^k0) \in Nat  BY <2>1, <2>2
  <2>. QED  BY <2>1, <2>2, <2>3
<1>10. r0 \in Nat /\ r0 < 2^n  BY <1>2, <1>9
<1>11. ~ get(r0, j)
  <2>1. r0 \div 2^j = r \div 2^j  BY <1>2, <1>8, ResetHigh
  <2>. QED  BY <1>7, <2>1 DEF get
<1>. HIDE DEF r0
<1>12. k \in Nat /\ k0 <= k /\ k <= j
  <2>1. CASE Cardinality(ones) < t  BY <1>8, <2>1
  <2>2. CASE ~ (Cardinality(ones) < t)
    <3>1. ones \subseteq k0 .. end - 1 /\ IsFiniteSet(k0 .. end - 1)
      <4>1. k0 \in Int /\ end - 1 \in Int  BY <1>1, <1>8
      <4>2. IsFiniteSet(k0 .. end - 1)  BY <4>1, FS_Interval
      <4>. QED  BY <1>6, <4>2
    <3>2. IsFiniteSet(ones) /\ Cardinality(ones) \in Nat  BY <3>1, FS_Subset, FS_CardinalityType
    <3>3. ones # {} /\ ones \in SUBSET Nat
      <4>1. Cardinality(ones) # 0  BY <1>1, <2>2, <3>2
      <4>2. ones # {}  BY <3>2, <4>1, FS_EmptySet
      <4>. QED  BY <1>8, <3>1, <4>2
    <3>. DEFINE m == Min(ones)
    <3>4. m \in ones /\ \A i \in ones : m <= i  BY <3>3, MinOfNaturals
    <3>5. m \in Nat /\ k0 <= m  BY <1>8, <3>1, <3>4
    <3>6. ~ (j < m)
      <4>. SUFFICES ASSUME j < m PROVE FALSE  OBVIOUS
      <4>. DEFINE above == j + 1 .. end - 1
      <4>1. ones \subseteq above
        <5>. HIDE DEF ones, m
        <5>. QED  BY <1>8, <3>1, <3>4, <3>5
      <4>2. IsFiniteSet(above) /\ Cardinality(above) = IF j + 1 > end - 1 THEN 0 ELSE end - 1 - (j + 1) + 1
        <5>1. j + 1 \in Int /\ end - 1 \in Int  BY <1>1, <1>8
        <5>. QED  BY <5>1, FS_Interval
      <4>3. Cardinality(ones) <= Cardinality(above)  BY <4>1, <4>2, FS_Subset
      <4>4. Cardinality(above) < t
        <5>1. end - t <= j /\ end \in Nat  BY <1>1, <1>7, <1>8
        <5>. QED  BY <1>1, <1>8, <4>2, <5>1
      <4>5. Cardinality(above) \in Nat  BY <4>2, FS_CardinalityType
      <4>. HIDE DEF above, ones
      <4>. QED  BY <1>1, <2>2, <3>2, <4>3, <4>4, <4>5
    <3>. HIDE DEF m, ones
    <3>7. k = m  BY <2>2 DEF m
    <3>. QED  BY <1>8, <3>5, <3>6, <3>7
  <2>. QED  BY <2>1, <2>2
<1>. HIDE DEF k
<1>13. r0 + 2^k < 2^n
  <2>1. j \in 0 .. n - 1 /\ k \in 0 .. j /\ n \in Nat  BY <1>1, <1>8, <1>12
  <2>. QED  BY <1>10, <1>11, <2>1, CarryStops
<1>14. 2^k0 <= 2^k /\ 2^k \in Nat
  <2>1. CASE k0 < k
    <3>1. 2 * 2^k0 <= 2^k /\ 2^k \in Nat  BY <1>8, <1>12, <2>1, PowerMonotone, PowerStep
    <3>. QED  BY <1>9, <3>1
  <2>2. CASE k0 = k  BY <1>9, <2>2
  <2>. QED  BY <1>8, <1>12, <2>1, <2>2
<1>15. r < r0 + 2^k  BY <1>2, <1>9, <1>14 DEF r0
<1>16. r0 + 2^k \in r + 1 .. 2^n - 1  BY <1>2, <1>10, <1>13, <1>14, <1>15
<1>. QED  BY <1>5, <1>16 DEF n

(* The ones of a row of the gadget are wires of it.                        *)
LEMMA OnesBelow ==
  ASSUME NEW n \in Nat, NEW r \in Nat, r < 2^n, NEW i \in Nat, get(r, i)
  PROVE  i < n
<1>. SUFFICES ASSUME n <= i PROVE FALSE  OBVIOUS
<1>1. 2^n \in Nat \ {0} /\ 2^i \in Nat \ {0} /\ 2^n <= 2^i
  <2>1. CASE n < i
    <3>1. 2 * 2^n <= 2^i  BY <2>1, PowerMonotone
    <3>. QED  BY <3>1, PowerStep
  <2>2. CASE n = i  BY <2>2, PowerStep
  <2>. QED  BY <2>1, <2>2
<1>2. 2^i * 0 + r = r /\ r \in 0 .. 2^i - 1  BY <1>1
<1>3. (2^i * 0 + r) \div 2^i = 0  BY <1>1, <1>2, ModUnique
<1>. QED  BY <1>2, <1>3 DEF get

(* A multiple of a power of two has no ones below.                         *)
LEMMA OnesAbove ==
  ASSUME NEW k \in Nat, NEW m \in Nat, NEW i \in Nat, get(2^k * m, i)
  PROVE  k <= i
<1>. SUFFICES ASSUME i < k PROVE FALSE  OBVIOUS
<1>1. k - i - 1 \in Nat /\ (i + 1) + (k - i - 1) = k  OBVIOUS
<1>2. PICK I \in Nat \ {0}, D \in Nat \ {0} : I = 2^i /\ D = 2^(k - i - 1) /\ 2^k = (2 * I) * D
  <2>1. i + 1 \in Nat  OBVIOUS
  <2>2. 2^k = 2^(i + 1) * 2^(k - i - 1)  BY <1>1, <2>1, PowerAdd
  <2>3. 2^(i + 1) = 2 * 2^i /\ 2^i \in Nat \ {0} /\ 2^(k - i - 1) \in Nat \ {0}
    BY <1>1, PowerStep
  <2>. QED  BY <2>2, <2>3
<1>3. 2^k * m = I * (2 * (D * m)) + 0  BY <1>2
<1>4. D * m \in Nat /\ 2 * (D * m) \in Nat /\ 0 \in 0 .. I - 1  BY <1>2
<1>5. (2^k * m) \div 2^i = 2 * (D * m)
  <2>1. (I * (2 * (D * m)) + 0) \div I = 2 * (D * m)  BY <1>2, <1>4, ModUnique
  <2>. QED  BY <1>2, <1>3, <2>1
<1>6. (2 * (D * m)) % 2 = 0  BY <1>4
<1>7. ((2^k * m) \div 2^i) % 2 = 1  BY DEF get
<1>8. 0 # 1  OBVIOUS
<1>. QED  BY <1>5, <1>6, <1>7, <1>8, Zenon

(* The next combination of probes is a greater row, even than one with any *)
(* outputs if the row is without them.                                     *)
LEMMA ProbeIncreases ==
  ASSUME NEW shape \in Gadgets, NEW r \in 0 .. 2^shape.numTotOuts - 1,
         probeLeqMaxCoeff(shape, r).more
  PROVE  /\ probeLeqMaxCoeff(shape, r).row \in r + 1 .. 2^shape.numTotOuts - 1
         /\ \A m \in Nat : r = 2^numMaskedOuts(shape) * m =>
              r + 2^numMaskedOuts(shape) <= probeLeqMaxCoeff(shape, r).row
<1>. DEFINE n == shape.numTotOuts
            nm == numMaskedOuts(shape)
            ones == Ones(shape, r)
            from == IF Cardinality(ones) < shape.maxCoeff THEN nm ELSE Min(ones)
<1>1. n \in Nat \ {0} /\ nm \in Nat \ {0} /\ nm <= n /\ shape.maxCoeff \in Nat
  BY ShapeFacts
<1>2. r \in Nat /\ r < 2^n /\ 2^n \in Nat \ {0}  BY <1>1, PowerStep
<1>3. /\ probeLeqMaxCoeff(shape, r) = Inc(shape, r, from)
      /\ Cardinality(ones) < shape.maxCoeff \/ shape.maxCoeff # 0
  BY DEF probeLeqMaxCoeff
<1>4. /\ from \in 0 .. n
      /\ \A m \in Nat : r = 2^nm * m => nm <= from
  <2>1. CASE Cardinality(ones) < shape.maxCoeff  BY <1>1, <2>1
  <2>2. CASE ~ (Cardinality(ones) < shape.maxCoeff)
    <3>1. IsFiniteSet(ones) /\ ones \in SUBSET Nat
      <4>. DEFINE top == BITARRAY_I_SIZE(shape.numTotOuts) * BITARRAY_I_VALUE_BITS - 1
      <4>1. top \in Int
        <5>1. BITARRAY_I_VALUE_BITS \in Nat \ {0}  BY WordAssumption
        <5>2. n + BITARRAY_I_VALUE_BITS - 1 \in Nat  BY <1>1, <5>1
        <5>3. BITARRAY_I_SIZE(n) \in Nat  BY <5>1, <5>2, DivMod DEF BITARRAY_I_SIZE
        <5>. QED  BY <5>1, <5>3
      <4>2. ones \subseteq 0 .. top  BY DEF Ones
      <4>. HIDE DEF top, ones
      <4>3. IsFiniteSet(0 .. top)  BY <4>1, FS_Interval
      <4>4. 0 .. top \in SUBSET Nat  OBVIOUS
      <4>. QED  BY <4>2, <4>3, <4>4, FS_Subset
    <3>2. ones # {}
      <4>1. Cardinality({}) = 0  BY FS_EmptySet
      <4>. QED  BY <1>1, <1>3, <2>2, <4>1
    <3>3. Min(ones) \in ones  BY <3>1, <3>2, MinOfNaturals
    <3>4. from = Min(ones) /\ from \in Nat /\ get(r, from)
      <4>1. get(r, Min(ones))  BY <3>3 DEF Ones
      <4>. HIDE DEF ones
      <4>. QED  BY <2>2, <3>1, <3>3, <4>1
    <3>. HIDE DEF from
    <3>5. from < n  BY <1>1, <1>2, <3>4, OnesBelow
    <3>6. ASSUME NEW m \in Nat, r = 2^nm * m PROVE nm <= from
      BY <1>1, <3>4, <3>6, OnesAbove
    <3>. QED  BY <1>1, <3>4, <3>5, <3>6
  <2>. QED  BY <2>1, <2>2
<1>. HIDE DEF from
<1>5. ~ localInc(n, r, from).overflows /\ probeLeqMaxCoeff(shape, r).row = localInc(n, r, from).row
  <2>. DEFINE inc == localInc(n, r, from)
  <2>1. Inc(shape, r, from) = [row |-> inc.row, more |-> ~ inc.overflows]  BY DEF Inc
  <2>2. Inc(shape, r, from).more  BY <1>3
  <2>. HIDE DEF inc
  <2>3. Inc(shape, r, from).more = ~ inc.overflows /\ Inc(shape, r, from).row = inc.row
    BY <2>1
  <2>. QED  BY <1>3, <2>2, <2>3, Zenon DEF inc
<1>6. localInc(n, r, from).row = r + 2^from /\ r + 2^from < 2^n
  BY <1>1, <1>4, <1>5, LocalIncRight
<1>7. from \in Nat /\ 2^from \in Nat \ {0}  BY <1>1, <1>4, PowerStep
<1>8. probeLeqMaxCoeff(shape, r).row \in r + 1 .. 2^n - 1  BY <1>2, <1>5, <1>6, <1>7
<1>9. nm <= from => 2^nm <= 2^from
  <2>1. CASE nm < from
    <3>1. 2 * 2^nm <= 2^from /\ 2^nm \in Nat  BY <1>1, <1>7, <2>1, PowerMonotone, PowerStep
    <3>. QED  BY <1>7, <3>1
  <2>2. CASE nm = from  BY <1>7, <2>2
  <2>. QED  BY <1>1, <1>7, <2>1, <2>2
<1>10. ASSUME NEW m \in Nat, r = 2^nm * m
       PROVE  r + 2^nm <= probeLeqMaxCoeff(shape, r).row
  <2>1. 2^nm <= 2^from /\ 2^nm \in Nat  BY <1>1, <1>4, <1>9, <1>10, PowerStep
  <2>. QED  BY <1>2, <1>5, <1>6, <1>7, <2>1
<1>. QED  BY <1>8, <1>10 DEF n, nm

(* The loop over the rows goes up, and stays within the wires.             *)
LEMMA TryNextIncreases ==
  ASSUME NEW shape \in Gadgets, NEW r \in 0 .. 2^shape.numTotOuts - 1,
         tryNext(shape, r).more
  PROVE  tryNext(shape, r).row \in r + 1 .. 2^shape.numTotOuts - 1
<1>1. CASE shape.t = 0  BY <1>1, ProbeIncreases DEF tryNext
<1>2. CASE shape.t # 0 /\ outLeqT(shape, r).more  BY <1>2, OutIncreases DEF tryNext
<1>3. CASE shape.t # 0 /\ ~ outLeqT(shape, r).more
  <2>. DEFINE nm == numMaskedOuts(shape)
              r0 == r - (r % 2^nm)
              m == r \div 2^nm
              n == shape.numTotOuts
  <2>1. outLeqT(shape, r).row = r0  BY <1>3 DEF outLeqT, numMaskedOuts
  <2>2. tryNext(shape, r) = probeLeqMaxCoeff(shape, r0)  BY <1>3, <2>1 DEF tryNext
  <2>3. nm \in Nat /\ 2^nm \in Nat \ {0} /\ 2^n \in Nat /\ r \in Nat /\ r < 2^n
    BY ShapeFacts, PowerStep
  <2>4. m \in Nat /\ r % 2^nm \in 0 .. 2^nm - 1 /\ r = 2^nm * m + (r % 2^nm)
    BY <2>3, DivMod
  <2>. HIDE DEF nm, m
  <2>5. 2^nm * m \in Nat
    <3>1. \A u, v \in Nat : u * v \in Nat  OBVIOUS
    <3>. QED  BY <2>3, <2>4, <3>1
  <2>6. r0 = 2^nm * m /\ r0 \in 0 .. 2^n - 1  BY <2>3, <2>4, <2>5
  <2>7. /\ probeLeqMaxCoeff(shape, r0).row \in r0 + 1 .. 2^n - 1
        /\ r0 + 2^nm <= probeLeqMaxCoeff(shape, r0).row
    <3>1. r0 \in 0 .. 2^shape.numTotOuts - 1  BY <2>6
    <3>. HIDE DEF r0
    <3>. QED  BY <2>2, <2>4, <2>6, <3>1, ProbeIncreases DEF nm
  <2>8. r < r0 + 2^nm  BY <2>3, <2>4, <2>5
  <2>. QED  BY <2>2, <2>3, <2>4, <2>5, <2>6, <2>7, <2>8
<1>. QED  BY <1>1, <1>2, <1>3
-----------------------------------------------------------------------------
(* The invariant of the passes: what was visited goes from 0 from row to   *)
(* next row, with none between that was visited, too.                      *)
Wire(shape) == 0 .. 2^shape.numTotOuts - 1

NoneSkipped(S) ==
  \A r, q \in S : r < q => tryNext(g, r).more /\ tryNext(g, r).row <= q

Hashing ==
  LET seen == rows \cup {curr} IN
  /\ curr \in Wire(g) /\ 0 \in seen
  /\ \A r \in rows : r < curr /\ tryNext(g, r).more /\ tryNext(g, r).row \in seen
  /\ NoneSkipped(seen)

Hashed ==
  /\ 0 \in rows /\ NoneSkipped(rows)
  /\ \A r \in rows : tryNext(g, r).more => tryNext(g, r).row \in rows

ClassesOf(p) ==
  CASE p \in {"hash", "info"} -> {}
    [] p = "subrow" -> {r \in rows : r < curr}
    [] OTHER -> rows

RowsInv ==
  /\ g \in Gadgets
  /\ rows \in SUBSET Wire(g)
  /\ IF pc = "hash" THEN Hashing ELSE Hashed
  /\ pc = "info" => curr = 0
  /\ pc = "subrow" => curr \in rows
  /\ DOMAIN class = ClassesOf(pc)

(* The rows of a gadget are numbers, and 0 is one of them.                 *)
LEMMA WireFacts ==
  ASSUME NEW shape \in Gadgets
  PROVE  Wire(shape) \in SUBSET Nat /\ 0 \in Wire(shape)
<1>1. 2^shape.numTotOuts \in Nat \ {0}  BY ShapeFacts, PowerStep
<1>. QED  BY <1>1 DEF Wire

(* At first no row was visited.                                            *)
LEMMA InitRows == Init => RowsInv
<1>. SUFFICES ASSUME Init PROVE RowsInv  OBVIOUS
<1>1. g \in Gadgets /\ pc = "hash" /\ curr = 0 /\ rows = {} /\ class = [r \in {} |-> 0]
  BY DEF Init, PassesInit
<1>2. 0 \in Wire(g)  BY <1>1, WireFacts
<1>. QED  BY <1>1, <1>2 DEF RowsInv, Hashing, NoneSkipped, ClassesOf

(* Each row that is hashed is followed by a greater one, or is the last.   *)
LEMMA HashRowInv == RowsInv /\ HashRow => RowsInv'
<1>. SUFFICES ASSUME RowsInv, HashRow PROVE RowsInv'  OBVIOUS
<1>1. pc = "hash" /\ rows' = rows \cup {curr} /\ g' = g /\ class' = class /\ GoOn("info")
  BY DEF HashRow
<1>2. /\ g \in Gadgets /\ rows \in SUBSET Wire(g) /\ DOMAIN class = {}
      /\ curr \in Wire(g) /\ 0 \in rows' /\ NoneSkipped(rows')
      /\ \A r \in rows : r < curr /\ tryNext(g, r).more /\ tryNext(g, r).row \in rows'
  BY <1>1 DEF RowsInv, Hashing, ClassesOf, NoneSkipped
<1>3. Wire(g) \in SUBSET Nat /\ rows' \in SUBSET Wire(g)  BY <1>1, <1>2, WireFacts
<1>4. CASE tryNext(g, curr).more
  <2>1. curr' = tryNext(g, curr).row /\ pc' = "hash"  BY <1>1, <1>4 DEF GoOn
  <2>2. curr' \in Wire(g) /\ curr < curr'
    <3>1. curr' \in curr + 1 .. 2^g.numTotOuts - 1
      BY <1>2, <1>4, <2>1, TryNextIncreases DEF Wire
    <3>2. curr \in Nat /\ 2^g.numTotOuts \in Nat  BY <1>2, <1>3, ShapeFacts, PowerStep
    <3>. QED  BY <3>1, <3>2 DEF Wire
  <2>3. \A r \in rows' : r < curr' /\ r \in Nat /\ curr \in Nat /\ curr' \in Nat
    <3>1. ASSUME NEW r \in rows' PROVE r < curr'
      <4>1. r \in Nat /\ curr \in Nat /\ curr' \in Nat  BY <1>2, <1>3, <2>2
      <4>2. r = curr \/ r < curr  BY <1>1, <1>2
      <4>. QED  BY <2>2, <4>1, <4>2
    <3>. QED  BY <1>2, <1>3, <2>2, <3>1
  <2>4. \A r \in rows' : tryNext(g, r).more /\ tryNext(g, r).row \in rows' \cup {curr'}
    BY <1>1, <1>2, <1>4, <2>1
  <2>5. NoneSkipped(rows' \cup {curr'})
    <3>. SUFFICES ASSUME NEW r \in rows' \cup {curr'}, NEW q \in rows' \cup {curr'}, r < q
                  PROVE  tryNext(g, r).more /\ tryNext(g, r).row <= q
      BY DEF NoneSkipped
    <3>1. r \in rows'  BY <2>2, <2>3, <1>3
    <3>2. CASE q \in rows'  BY <1>2, <3>1, <3>2 DEF NoneSkipped
    <3>3. CASE q = curr'
      <4>1. CASE r = curr  BY <1>3, <1>4, <2>1, <2>2, <3>3, <4>1
      <4>2. CASE r # curr
        <5>1. r \in rows /\ r < curr /\ curr \in rows'  BY <1>1, <1>2, <3>1, <4>2
        <5>2. tryNext(g, r).more /\ tryNext(g, r).row <= curr  BY <1>2, <3>1, <5>1 DEF NoneSkipped
        <5>3. tryNext(g, r).row \in Nat  BY <1>2, <1>3, <5>1
        <5>. QED  BY <2>2, <2>3, <3>1, <3>3, <5>2, <5>3
      <4>. QED  BY <4>1, <4>2
    <3>. QED  BY <3>2, <3>3
  <2>6. Hashing'
    <3>1. \A r \in rows' : r < curr'  BY <2>3
    <3>. QED  BY <1>1, <1>2, <2>2, <2>4, <2>5, <3>1 DEF Hashing, NoneSkipped
  <2>. QED  BY <1>1, <1>2, <1>3, <2>1, <2>6 DEF RowsInv, ClassesOf
<1>5. CASE ~ tryNext(g, curr).more
  <2>1. curr' = 0 /\ pc' = "info"  BY <1>1, <1>5 DEF GoOn
  <2>2. Hashed'  BY <1>1, <1>2, <1>5 DEF Hashed, NoneSkipped
  <2>. QED  BY <1>1, <1>2, <1>3, <2>1, <2>2 DEF RowsInv, ClassesOf
<1>. QED  BY <1>4, <1>5

(* The classified rows are those before the row the pass is at: the second *)
(* pass takes the same way.                                                *)
LEMMA ClassifyRowInv == RowsInv /\ ClassifyRow => RowsInv'
<1>. SUFFICES ASSUME RowsInv, ClassifyRow PROVE RowsInv'  OBVIOUS
<1>1. pc = "subrow" /\ rows' = rows /\ g' = g /\ GoOn("maps") /\ AddClass(curr, Val(curr))
  BY DEF ClassifyRow
<1>2. /\ g \in Gadgets /\ rows \in SUBSET Wire(g) /\ Hashed /\ curr \in rows
      /\ DOMAIN class = {r \in rows : r < curr}
  BY <1>1 DEF RowsInv, ClassesOf
<1>3. Wire(g) \in SUBSET Nat  BY <1>2, WireFacts
<1>4. DOMAIN class' = {curr} \cup DOMAIN class
  <2>1. PICK handle : class' = Entered(class, curr, handle)  BY <1>1 DEF AddClass
  <2>. QED  BY <2>1 DEF Entered
<1>5. Hashed'  BY <1>1, <1>2 DEF Hashed, NoneSkipped
<1>6. CASE tryNext(g, curr).more
  <2>1. curr' = tryNext(g, curr).row /\ pc' = "subrow"  BY <1>1, <1>6 DEF GoOn
  <2>2. curr' \in rows  BY <1>2, <1>6, <2>1 DEF Hashed
  <2>3. curr < curr'
    <3>1. curr' \in curr + 1 .. 2^g.numTotOuts - 1
      <4>1. curr \in 0 .. 2^g.numTotOuts - 1  BY <1>2 DEF Wire
      <4>. QED  BY <1>2, <1>6, <2>1, <4>1, TryNextIncreases
    <3>2. curr \in Nat /\ curr' \in Nat  BY <1>2, <1>3, <2>2
    <3>. QED  BY <3>1, <3>2
  <2>4. ASSUME NEW r \in rows PROVE r < curr' <=> r < curr \/ r = curr
    <3>1. r \in Nat /\ curr \in Nat /\ curr' \in Nat  BY <1>2, <1>3, <2>2
    <3>2. curr < r => curr' <= r  BY <1>2, <2>1 DEF Hashed, NoneSkipped
    <3>. QED  BY <2>3, <3>1, <3>2
  <2>5. DOMAIN class' = {r \in rows : r < curr'}  BY <1>2, <1>4, <2>4
  <2>. QED  BY <1>1, <1>2, <1>5, <2>1, <2>2, <2>5 DEF RowsInv, ClassesOf
<1>7. CASE ~ tryNext(g, curr).more
  <2>1. curr' = 0 /\ pc' = "maps"  BY <1>1, <1>7 DEF GoOn
  <2>2. ASSUME NEW r \in rows PROVE r < curr \/ r = curr
    <3>1. r \in Nat /\ curr \in Nat  BY <1>2, <1>3
    <3>2. ~ (curr < r)  BY <1>2, <1>7 DEF Hashed, NoneSkipped
    <3>. QED  BY <3>1, <3>2
  <2>3. DOMAIN class' = rows  BY <1>2, <1>4, <2>2
  <2>. QED  BY <1>1, <1>2, <1>5, <2>1, <2>3 DEF RowsInv, ClassesOf
<1>. QED  BY <1>6, <1>7

(* The steps after the passes leave the rows and their classes alone.      *)
LEMMA LaterStep ==
  ASSUME RowsInv, pc \notin {"hash", "info", "subrow"}, pc' \notin {"hash", "info", "subrow"},
         g' = g, rows' = rows, class' = class
  PROVE  RowsInv'
<1>1. Hashed'  BY DEF RowsInv, Hashed, NoneSkipped
<1>. QED  BY <1>1 DEF RowsInv, ClassesOf

(* Every step of the program keeps the invariant of the passes.            *)
LEMMA NextRows == RowsInv /\ [Next]_vars => RowsInv'
<1>. SUFFICES ASSUME RowsInv, [Next]_vars PROVE RowsInv'  OBVIOUS
<1>1. CASE HashRow  BY <1>1, HashRowInv
<1>2. CASE GetInfo
  <2>1. /\ pc = "info" /\ pc' \in {"info", "subrow"}
        /\ g' = g /\ curr' = curr /\ rows' = rows /\ class' = class
    BY <1>2 DEF GetInfo
  <2>2. Hashed /\ Hashed' /\ curr = 0 /\ DOMAIN class = {} /\ g \in Gadgets
    BY <2>1 DEF RowsInv, ClassesOf, Hashed, NoneSkipped
  <2>3. \A r \in rows : ~ (r < 0)
    <3>1. \A r \in rows : r \in Nat  BY <2>2, WireFacts DEF RowsInv
    <3>. QED  BY <3>1
  <2>4. 0 \in rows  BY <2>2 DEF Hashed
  <2>5. {r \in rows : r < 0} = {}  BY <2>3
  <2>. QED  BY <2>1, <2>2, <2>4, <2>5 DEF RowsInv, ClassesOf
<1>3. CASE ClassifyRow  BY <1>3, ClassifyRowInv
<1>4. CASE FillMaps  BY <1>4, LaterStep DEF FillMaps
<1>5. CASE StartThreads  BY <1>5, LaterStep DEF StartThreads
<1>6. CASE \E t \in Thread : CalculateClass(t)
  BY <1>6, LaterStep DEF CalculateClass, passVars
<1>7. CASE JoinThreads  BY <1>7, LaterStep DEF JoinThreads
<1>8. CASE SkipOutputs  BY <1>8, LaterStep DEF SkipOutputs, NextAlternative
<1>9. CASE AddProbes  BY <1>9, LaterStep DEF AddProbes
<1>10. CASE MergeAlternative  BY <1>10, LaterStep DEF MergeAlternative, NextAlternative
<1>11. CASE AddCombinations  BY <1>11, LaterStep DEF AddCombinations
<1>12. CASE AboveMaxCoeff  BY <1>12, LaterStep DEF AboveMaxCoeff
<1>13. CASE UNCHANGED vars
  BY <1>13 DEF vars, passVars, RowsInv, Hashing, Hashed, NoneSkipped, ClassesOf
<1>. QED
  BY <1>1, <1>2, <1>3, <1>4, <1>5, <1>6, <1>7, <1>8, <1>9, <1>10, <1>11, <1>12, <1>13
  DEF Next, Main, Passes

(* Both passes visit the same rows, in increasing order, and every row has *)
(* a class when they are done.                                             *)
THEOREM PassesAgree == Spec => []RowsInv
BY InitRows, NextRows, PTL DEF Spec

(* When a row is classified its direct subrows have a class: what          *)
(* rowIndexedSet_row2valIndex asserts (subrowHashed.c, rowIndexedSet.c).   *)
THEOREM SubrowsAreFirst == Spec => []SubrowsFirst
<1>1. RowsInv => SubrowsFirst
  <2>. SUFFICES ASSUME RowsInv, NEW r \in DOMAIN class, NEW i \in Ones(g, r), r - 2^i \in rows
                PROVE  r - 2^i \in DOMAIN class
    BY DEF SubrowsFirst
  <2>1. g \in Gadgets /\ DOMAIN class = ClassesOf(pc) /\ rows \in SUBSET Nat
    BY WireFacts DEF RowsInv
  <2>2. CASE pc = "subrow"
    <3>1. r \in rows /\ r < curr /\ curr \in rows  BY <2>1, <2>2 DEF ClassesOf, RowsInv
    <3>2. i \in Nat  BY DEF Ones
    <3>3. 2^i \in Nat \ {0}  BY <3>2, PowerStep
    <3>4. PICK wire \in Nat \ {0} : wire = 2^i  BY <3>3
    <3>6. r \in Nat /\ curr \in Nat  BY <2>1, <3>1
    <3>5. r - wire < curr  BY <3>1, <3>4, <3>6
    <3>. QED  BY <2>1, <2>2, <3>4, <3>5 DEF ClassesOf
  <2>3. CASE pc # "subrow"  BY <2>1, <2>3 DEF ClassesOf
  <2>. QED  BY <2>2, <2>3
<1>. QED  BY <1>1, PassesAgree, PTL
-----------------------------------------------------------------------------
(* Numbers with the same quotient have the same bits from there on.        *)
LEMMA SameAbove ==
  ASSUME NEW r \in Nat, NEW q \in Nat, NEW k \in Nat, NEW j \in Nat, k <= j,
         q \div 2^k = r \div 2^k
  PROVE  get(q, j) <=> get(r, j)
<1>1. 2^k \in Nat \ {0} /\ 2^(j - k) \in Nat \ {0} /\ 2^j = 2^k * 2^(j - k)
  <2>1. j - k \in Nat /\ k + (j - k) = j  OBVIOUS
  <2>. QED  BY <2>1, PowerStep, PowerAdd
<1>2. PICK K \in Nat \ {0}, D \in Nat \ {0} : K = 2^k /\ D = 2^(j - k) /\ 2^j = K * D
  BY <1>1
<1>3. (q \div K) \div D = q \div (K * D) /\ (r \div K) \div D = r \div (K * D)
  BY <1>2, DivDiv
<1>4. q \div 2^j = r \div 2^j  BY <1>2, <1>3
<1>. QED  BY <1>4 DEF get

(* Of two numbers the greater has the highest bit in which they differ.    *)
LEMMA HighestDifference ==
  ASSUME NEW r \in Nat, NEW q \in Nat, r < q
  PROVE  \E i \in Nat :
           /\ get(q, i) /\ ~ get(r, i)
           /\ q \div 2^i = r \div 2^i + 1
           /\ \A j \in Nat : i < j => (get(q, j) <=> get(r, j))
<1>. DEFINE Same == {k \in Nat : q \div 2^k = r \div 2^k}
<1>1. Same # {}
  <2>1. PICK k \in Nat : q < 2^k
    <3>. DEFINE T == {k \in Nat : k < 2^k}
    <3>1. 0 \in T  BY PowerStep
    <3>2. ASSUME NEW k \in T PROVE k + 1 \in T
      <4>1. k + 1 \in Nat /\ k < 2^k /\ 2^k \in Nat /\ 2^(k + 1) = 2 * 2^k  BY PowerStep
      <4>2. k + 1 < 2^(k + 1)  BY <4>1
      <4>. QED  BY <4>1, <4>2
    <3>3. T = Nat
      <4>1. T \in SUBSET Nat  OBVIOUS
      <4>. HIDE DEF T
      <4>. QED  BY <3>1, <3>2, <4>1, AllNaturals
    <3>. QED  BY <3>3
  <2>2. 2^k \in Nat \ {0} /\ r < 2^k  BY <2>1, PowerStep
  <2>3. q \div 2^k = 0 /\ r \div 2^k = 0
    <3>1. q \in 0 .. 2^k - 1 /\ r \in 0 .. 2^k - 1  BY <2>1, <2>2
    <3>2. 2^k * 0 + q = q /\ 2^k * 0 + r = r  BY <2>2
    <3>3. (2^k * 0 + q) \div 2^k = 0 /\ (2^k * 0 + r) \div 2^k = 0
      BY <2>2, <3>1, ModUnique
    <3>. QED  BY <3>2, <3>3
  <2>. QED  BY <2>3
<1>2. PICK k \in Same : \A m \in Same : k <= m
  <2>1. Same \in SUBSET Nat  OBVIOUS
  <2>. HIDE DEF Same
  <2>. QED  BY <1>1, <2>1, LeastNatural
<1>3. k # 0
  <2>. SUFFICES ASSUME k = 0 PROVE FALSE  OBVIOUS
  <2>1. 2^0 = 1  BY PowerStep
  <2>2. q \div 1 = r \div 1  BY <1>2, <2>1
  <2>. QED  BY <2>2
<1>. DEFINE i == k - 1
<1>4. i \in Nat /\ i + 1 = k  BY <1>3
<1>5. q \div 2^i # r \div 2^i
  <2>1. i \notin Same  BY <1>2, <1>4
  <2>. QED  BY <1>4, <2>1
<1>. HIDE DEF i
<1>6. PICK I \in Nat \ {0} : I = 2^i  BY <1>4, PowerStep
<1>7. PICK a \in Nat, b \in Nat : a = q \div I /\ b = r \div I
  BY <1>6, DivMod
<1>8. a # b  BY <1>5, <1>6, <1>7
<1>9. a \div 2 = b \div 2
  <2>1. 2^k = I * 2  BY <1>4, <1>6, PowerStep
  <2>2. (q \div I) \div 2 = q \div (I * 2) /\ (r \div I) \div 2 = r \div (I * 2)
    BY <1>6, DivDiv
  <2>. QED  BY <1>2, <1>7, <2>1, <2>2
<1>10. ~ (a < b)
  <2>1. q = I * a + (q % I) /\ q % I \in 0 .. I - 1 /\ r = I * b + (r % I) /\ r % I \in 0 .. I - 1
    BY <1>6, <1>7, DivMod
  <2>. SUFFICES ASSUME a < b PROVE FALSE  OBVIOUS
  <2>2. I * a + I <= I * b  BY <1>6, <1>7, MulMonotone
  <2>3. I * a \in Nat /\ I * b \in Nat  BY <1>6, <1>7
  <2>. QED  BY <2>1, <2>2, <2>3
<1>11. a = b + 1 /\ a % 2 = 1 /\ b % 2 = 0
  <2>. DEFINE half(z) == z \div 2
              bit(z) == z % 2
  <2>1. 2 \in Nat \ {0}  OBVIOUS
  <2>2. \A z \in Nat : half(z) \in Nat /\ bit(z) \in 0 .. 2 - 1 /\ z = 2 * half(z) + bit(z)
    BY <2>1, DivMod
  <2>. HIDE DEF half, bit
  <2>3. a = 2 * half(a) + bit(a) /\ bit(a) \in 0 .. 1 /\ half(a) \in Nat  BY <1>7, <2>2
  <2>4. b = 2 * half(b) + bit(b) /\ bit(b) \in 0 .. 1 /\ half(b) \in Nat  BY <1>7, <2>2
  <2>5. half(a) = half(b)  BY <1>9 DEF half
  <2>6. a = b + 1 /\ bit(a) = 1 /\ bit(b) = 0  BY <1>7, <1>8, <1>10, <2>3, <2>4, <2>5
  <2>. QED  BY <2>6 DEF bit
<1>12. \A j \in Nat : i < j => (get(q, j) <=> get(r, j))
  <2>. SUFFICES ASSUME NEW j \in Nat, i < j PROVE get(q, j) <=> get(r, j)  OBVIOUS
  <2>1. k <= j /\ k \in Nat /\ q \div 2^k = r \div 2^k  BY <1>2, <1>4
  <2>. QED  BY <2>1, SameAbove
<1>. QED  BY <1>4, <1>6, <1>7, <1>11, <1>12 DEF get

(* The next multiple of a power of two is no greater than that of a higher *)
(* power of two.                                                           *)
LEMMA NextMultiple ==
  ASSUME NEW k \in Nat, NEW i \in Nat, k <= i, NEW m \in Nat, NEW r \in Nat, 2^k * m <= r
  PROVE  2^k * m + 2^k <= 2^i * (r \div 2^i + 1)
<1>1. 2^k \in Nat \ {0} /\ 2^(i - k) \in Nat \ {0} /\ 2^i = 2^k * 2^(i - k)
  <2>1. i - k \in Nat /\ k + (i - k) = i  OBVIOUS
  <2>. QED  BY <2>1, PowerStep, PowerAdd
<1>2. PICK K \in Nat \ {0}, D \in Nat \ {0} : K = 2^k /\ D = 2^(i - k) /\ 2^i = K * D  BY <1>1
<1>3. PICK c \in Nat : c = r \div (K * D)
  <2>1. K * D \in Nat \ {0}  BY <1>2
  <2>. QED  BY <2>1, DivMod
<1>4. r < (K * D) * (c + 1)
  <2>1. K * D \in Nat \ {0}  BY <1>2
  <2>2. r \div (K * D) < c + 1  BY <1>3
  <2>3. c + 1 \in Nat  BY <1>3
  <2>. QED  BY <2>1, <2>2, <2>3, DivBelow
<1>5. (K * D) * (c + 1) = K * (D * (c + 1)) /\ D * (c + 1) \in Nat  BY <1>2, <1>3
<1>6. PICK M \in Nat : M = D * (c + 1)  BY <1>5
<1>7. K * m < K * M
  <2>1. K * m \in Nat /\ K * M \in Nat  BY <1>2, <1>6
  <2>. QED  BY <1>2, <1>4, <1>5, <1>6, <2>1
<1>8. m < M
  <2>. SUFFICES ASSUME M <= m PROVE FALSE  BY <1>6
  <2>1. CASE M = m  BY <1>7, <1>2, <1>6, <2>1
  <2>2. CASE M < m
    <3>1. K * M + K <= K * m  BY <1>2, <1>6, <2>2, MulMonotone
    <3>2. K * m \in Nat /\ K * M \in Nat  BY <1>2, <1>6
    <3>. QED  BY <1>2, <1>7, <3>1, <3>2
  <2>. QED  BY <1>6, <2>1, <2>2
<1>9. K * m + K <= K * M  BY <1>2, <1>6, <1>8, MulMonotone
<1>. QED  BY <1>2, <1>3, <1>5, <1>6, <1>9

(* Adding 2^k to a multiple of it sets one bit, the lowest one from k on   *)
(* that is not set, clears those below, and leaves those above.            *)
LEMMA Carry ==
  ASSUME NEW k \in Nat, NEW m \in Nat, NEW a \in Nat, a = 2^k * m
  PROVE  \E i \in Nat :
           /\ k <= i /\ ~ get(a, i) /\ get(a + 2^k, i)
           /\ \A j \in Nat : j < i => ~ get(a + 2^k, j)
           /\ \A j \in Nat : i < j => (get(a + 2^k, j) <=> get(a, j))
           /\ \A j \in Nat : k <= j /\ ~ get(a, j) => i <= j
<1>1. 2^k \in Nat \ {0}  BY PowerStep
<1>. DEFINE b == a + 2^k
<1>2. b \in Nat /\ a < b  BY <1>1
<1>3. b = 2^k * (m + 1) /\ m + 1 \in Nat  BY <1>1
<1>. HIDE DEF b
<1>4. PICK i \in Nat : /\ get(b, i) /\ ~ get(a, i) /\ b \div 2^i = a \div 2^i + 1
                       /\ \A j \in Nat : i < j => (get(b, j) <=> get(a, j))
  BY <1>2, HighestDifference
<1>5. k <= i
  <2>1. get(2^k * (m + 1), i)  BY <1>3, <1>4
  <2>. QED  BY <1>3, <2>1, OnesAbove
<1>6. PICK I \in Nat \ {0} : I = 2^i  BY PowerStep
<1>7. PICK c \in Nat : c = b \div I  BY <1>2, <1>6, DivMod
<1>8. b = I * c
  <2>1. 2^k * m <= a  BY <1>1
  <2>2. 2^k * m + 2^k <= 2^i * (a \div 2^i + 1)  BY <1>5, <2>1, NextMultiple
  <2>3. b <= I * c  BY <1>4, <1>6, <1>7, <2>2 DEF b
  <2>4. b = I * c + (b % I) /\ b % I \in 0 .. I - 1  BY <1>2, <1>6, <1>7, DivMod
  <2>5. I * c \in Nat  BY <1>6, <1>7
  <2>. QED  BY <2>3, <2>4, <2>5
<1>9. ASSUME NEW j \in Nat, j < i, get(b, j) PROVE FALSE
  <2>1. get(2^i * c, j)  BY <1>6, <1>8, <1>9
  <2>2. i <= j  BY <1>7, <2>1, OnesAbove
  <2>. QED  BY <1>9, <2>2
<1>10. ASSUME NEW j \in Nat, k <= j, ~ get(a, j), ~ (i <= j) PROVE FALSE
  <2>1. PICK n \in Nat : (j + 1) + n = i
    <3>1. i - j - 1 \in Nat /\ (j + 1) + (i - j - 1) = i  BY <1>10
    <3>. QED  BY <3>1
  <2>2. 2^((j + 1) + n) = 2^(j + 1) * 2^n /\ 2^(j + 1) = 2 * 2^j
    <3>1. j + 1 \in Nat  OBVIOUS
    <3>. QED  BY <3>1, PowerAdd, PowerStep
  <2>3. PICK J \in Nat \ {0}, D \in Nat \ {0} : J = 2^j /\ D = 2^n /\ I = (2 * J) * D
    <3>1. 2^j \in Nat \ {0} /\ 2^n \in Nat \ {0}  BY PowerStep
    <3>. QED  BY <1>6, <2>1, <2>2, <3>1
  <2>4. PICK K \in Nat \ {0} : K = 2^k /\ K <= J
    <3>1. CASE k < j
      <4>1. 2 * 2^k <= 2^j  BY <3>1, PowerMonotone
      <4>. QED  BY <1>1, <2>3, <4>1
    <3>2. CASE k = j  BY <1>1, <2>3, <3>2
    <3>. QED  BY <1>10, <3>1, <3>2
  <2>5. c # 0
    <3>1. c = 0 => b = 0  BY <1>6, <1>7, <1>8
    <3>. QED  BY <1>1, <1>2, <3>1
  <2>6. D * c \in Nat \ {0}  BY <1>7, <2>3, <2>5
  <2>7. PICK e \in Nat : e = D * c - 1  BY <2>6
  <2>8. b = J * (2 * (D * c))  BY <1>7, <1>8, <2>3
  <2>9. b = J * (2 * e + 1) + J
    <3>1. 2 * (D * c) = (2 * e + 1) + 1  BY <2>6, <2>7
    <3>2. J * ((2 * e + 1) + 1) = J * (2 * e + 1) + J  BY <2>3, <2>7
    <3>. QED  BY <2>8, <3>1, <3>2
  <2>10. a = J * (2 * e + 1) + (J - K) /\ J - K \in 0 .. J - 1 /\ 2 * e + 1 \in Nat
    <3>1. b = a + K  BY <2>4 DEF b
    <3>2. J * (2 * e + 1) \in Nat  BY <2>3, <2>7
    <3>. QED  BY <2>3, <2>4, <2>7, <2>9, <3>1, <3>2
  <2>11. a \div J = 2 * e + 1  BY <2>3, <2>10, ModUnique
  <2>12. (2 * e + 1) % 2 = 1  BY <2>7
  <2>. QED  BY <1>10, <2>3, <2>11, <2>12 DEF get
<1>. QED  BY <1>4, <1>5, <1>9, <1>10 DEF b

(* The bits of a remainder are the low bits of the number.                 *)
LEMMA ModBits ==
  ASSUME NEW r \in Nat, NEW k \in Nat, NEW i \in Nat, i < k
  PROVE  get(r % 2^k, i) <=> get(r, i)
<1>1. PICK n \in Nat : (i + 1) + n = k
  <2>1. k - i - 1 \in Nat /\ (i + 1) + (k - i - 1) = k  OBVIOUS
  <2>. QED  BY <2>1
<1>2. PICK I \in Nat \ {0}, D \in Nat \ {0} : I = 2^i /\ D = 2^n /\ 2^k = (2 * I) * D
  <2>1. 2^((i + 1) + n) = 2^(i + 1) * 2^n /\ 2^(i + 1) = 2 * 2^i
        /\ 2^i \in Nat \ {0} /\ 2^n \in Nat \ {0}
    <3>1. i + 1 \in Nat  OBVIOUS
    <3>. QED  BY <3>1, PowerAdd, PowerStep
  <2>. QED  BY <1>1, <2>1
<1>3. PICK K \in Nat \ {0} : K = 2^k /\ K = (2 * I) * D  BY <1>2
<1>4. PICK a \in Nat, y \in Nat : a = r \div K /\ y = r % K /\ r = K * a + y
  <2>1. r \div K \in Nat /\ r % K \in 0 .. K - 1 /\ r = K * (r \div K) + (r % K)
    BY <1>3, DivMod
  <2>2. r % K \in Nat  BY <1>3, <2>1
  <2>. QED  BY <2>1, <2>2
<1>5. PICK u \in Nat, v \in 0 .. I - 1 : u = y \div I /\ y = I * u + v
  <2>1. y \div I \in Nat /\ y % I \in 0 .. I - 1 /\ y = I * (y \div I) + (y % I)
    BY <1>2, <1>4, DivMod
  <2>. QED  BY <2>1
<1>6. r = I * (2 * (D * a) + u) + v /\ 2 * (D * a) + u \in Nat
  <2>1. K * a = I * (2 * (D * a)) /\ D * a \in Nat  BY <1>2, <1>3, <1>4
  <2>2. I * (2 * (D * a) + u) = I * (2 * (D * a)) + I * u  BY <1>2, <1>5, <2>1
  <2>3. I * (2 * (D * a)) \in Nat /\ I * u \in Nat  BY <1>2, <1>5, <2>1
  <2>. QED  BY <1>4, <1>5, <2>1, <2>2, <2>3
<1>7. r \div I = 2 * (D * a) + u  BY <1>2, <1>5, <1>6, ModUnique
<1>8. (2 * (D * a) + u) % 2 = u % 2
  <2>1. PICK e \in Nat : e = D * a  BY <1>2, <1>4
  <2>2. (2 * e + u) % 2 = u % 2  BY <1>5, <2>1
  <2>. QED  BY <2>1, <2>2
<1>. QED  BY <1>2, <1>3, <1>4, <1>5, <1>7, <1>8 DEF get

(* A number with no ones below k is a multiple of 2^k.                     *)
LEMMA ZeroBelow ==
  ASSUME NEW r \in Nat, NEW k \in Nat, \A j \in Nat : j < k => ~ get(r, j)
  PROVE  r % 2^k = 0 /\ \E m \in Nat : r = 2^k * m
<1>1. PICK K \in Nat \ {0} : K = 2^k  BY PowerStep
<1>2. r \div K \in Nat /\ r % K \in 0 .. K - 1 /\ r = K * (r \div K) + (r % K)
  BY <1>1, DivMod
<1>3. r % K = 0
  <2>. SUFFICES ASSUME r % K # 0 PROVE FALSE  OBVIOUS
  <2>1. PICK y \in Nat : y = r % K /\ 0 < y /\ y < 2^k  BY <1>1, <1>2
  <2>2. PICK i \in Nat : get(y, i)  BY <2>1, HighestDifference
  <2>3. i < k  BY <2>1, <2>2, OnesBelow
  <2>. QED  BY <1>1, <2>1, <2>2, <2>3, ModBits
<1>4. r = 2^k * (r \div K) /\ r \div K \in Nat  BY <1>1, <1>2, <1>3
<1>. QED  BY <1>1, <1>3, <1>4
-----------------------------------------------------------------------------
(* How many of some bits are set.                                          *)
Count(r, B) == Cardinality({i \in B : get(r, i)})

(* The bits that are set of finitely many are finitely many.               *)
LEMMA CountFacts ==
  ASSUME NEW B, IsFiniteSet(B), NEW r
  PROVE  IsFiniteSet({i \in B : get(r, i)}) /\ Count(r, B) \in Nat
<1>1. {i \in B : get(r, i)} \in SUBSET B  OBVIOUS
<1>. QED  BY <1>1, FS_Subset, FS_CardinalityType DEF Count

(* A number with the same or fewer of the bits, and with one more.         *)
LEMMA CountLeq ==
  ASSUME NEW B, IsFiniteSet(B), NEW r, NEW q, \A i \in B : get(r, i) => get(q, i)
  PROVE  /\ Count(r, B) <= Count(q, B)
         /\ \A i \in B : get(q, i) /\ ~ get(r, i) => Count(r, B) < Count(q, B)
<1>. DEFINE R == {i \in B : get(r, i)}
            Q == {i \in B : get(q, i)}
<1>1. IsFiniteSet(R) /\ IsFiniteSet(Q) /\ Count(r, B) \in Nat /\ Count(q, B) \in Nat  BY CountFacts
<1>2. Count(r, B) = Cardinality(R) /\ Count(q, B) = Cardinality(Q)  BY DEF Count
<1>3. R \in SUBSET Q  OBVIOUS
<1>. HIDE DEF R, Q
<1>4. Cardinality(R) <= Cardinality(Q) /\ (Cardinality(Q) = Cardinality(R) => Q = R)
  BY <1>1, <1>3, FS_Subset
<1>5. ASSUME NEW i \in B, get(q, i), ~ get(r, i) PROVE Q # R  BY <1>5 DEF Q, R
<1>. QED  BY <1>1, <1>2, <1>4, <1>5

(* Adding 2^k sets at most one bit more, and none if bit k is set.         *)
LEMMA CarryCount ==
  ASSUME NEW B \in SUBSET Nat, IsFiniteSet(B),
         NEW k \in Nat, NEW m \in Nat, NEW a \in Nat, a = 2^k * m
  PROVE  /\ Count(a + 2^k, B) <= Count(a, B) + 1
         /\ k \in B /\ get(a, k) => Count(a + 2^k, B) <= Count(a, B)
<1>. DEFINE b == a + 2^k
<1>1. PICK i \in Nat : /\ k <= i /\ ~ get(a, i) /\ get(b, i)
                       /\ \A j \in Nat : j < i => ~ get(b, j)
                       /\ \A j \in Nat : i < j => (get(b, j) <=> get(a, j))
  BY Carry
<1>. HIDE DEF b
<1>. DEFINE A == {j \in B : get(a, j)}
            N == {j \in B : get(b, j)}
<1>2. IsFiniteSet(A) /\ Cardinality(A) \in Nat /\ IsFiniteSet(N) /\ Cardinality(N) \in Nat
  BY CountFacts DEF Count
<1>3. \A j \in N : j = i \/ j \in A
  <2>. SUFFICES ASSUME NEW j \in N, j # i, ~ (j < i) PROVE get(a, j)  BY <1>1
  <2>1. j \in Nat /\ i < j  OBVIOUS
  <2>. QED  BY <1>1, <2>1
<1>4. Cardinality(N) <= Cardinality(A) + 1
  <2>1. IsFiniteSet(A \cup {i}) /\ Cardinality(A \cup {i}) <= Cardinality(A) + 1
    <3>1. /\ IsFiniteSet(A \cup {i})
          /\ Cardinality(A \cup {i}) = IF i \in A THEN Cardinality(A) ELSE Cardinality(A) + 1
      BY <1>2, FS_AddElement
    <3>. HIDE DEF A
    <3>. QED  BY <1>2, <3>1
  <2>2. N \in SUBSET (A \cup {i})  BY <1>3
  <2>3. Cardinality(N) <= Cardinality(A \cup {i}) /\ Cardinality(A \cup {i}) \in Nat
    BY <2>1, <2>2, FS_Subset, FS_CardinalityType
  <2>. HIDE DEF A, N
  <2>. QED  BY <1>2, <2>1, <2>3
<1>5. ASSUME k \in B, get(a, k) PROVE Cardinality(N) <= Cardinality(A)
  <2>. DEFINE Rest == A \ {k}
  <2>1. k < i  BY <1>1, <1>5
  <2>2. k \notin N  BY <1>1, <2>1
  <2>3. IsFiniteSet(Rest) /\ Cardinality(Rest) = Cardinality(A) - 1
    BY <1>2, <1>5, FS_RemoveElement
  <2>4. IsFiniteSet(Rest \cup {i}) /\ Cardinality(Rest \cup {i}) <= Cardinality(A)
    <3>1. Cardinality(Rest \cup {i}) <= Cardinality(Rest) + 1
          /\ IsFiniteSet(Rest \cup {i})
      <4>. HIDE DEF Rest
      <4>1. Cardinality(Rest) \in Nat  BY <2>3, FS_CardinalityType
      <4>2. /\ IsFiniteSet(Rest \cup {i})
            /\ Cardinality(Rest \cup {i}) =
                 IF i \in Rest THEN Cardinality(Rest) ELSE Cardinality(Rest) + 1
        BY <2>3, FS_AddElement
      <4>. QED  BY <4>1, <4>2
    <3>2. Cardinality(Rest \cup {i}) \in Nat  BY <3>1, FS_CardinalityType
    <3>. HIDE DEF A, Rest
    <3>. QED  BY <1>2, <2>3, <3>1, <3>2
  <2>5. N \in SUBSET (Rest \cup {i})  BY <1>3, <2>2
  <2>6. Cardinality(N) <= Cardinality(Rest \cup {i}) /\ Cardinality(Rest \cup {i}) \in Nat
    BY <2>4, <2>5, FS_Subset, FS_CardinalityType
  <2>. HIDE DEF A, N, Rest
  <2>. QED  BY <1>2, <2>4, <2>6
<1>. QED  BY <1>4, <1>5 DEF Count, b

(* With a bit more below all of those that another number has, and the     *)
(* same above, there are more of them.                                     *)
LEMMA MoreBelow ==
  ASSUME NEW B \in SUBSET Nat, IsFiniteSet(B), NEW r, NEW q, NEW i \in B, NEW k \in Nat, i < k,
         get(q, i), \A j \in Nat : i < j => (get(q, j) <=> get(r, j)),
         \A j \in B : j < k => ~ get(r, j)
  PROVE  Count(r, B) < Count(q, B)
<1>1. ~ get(r, i)  OBVIOUS
<1>2. ASSUME NEW j \in B, get(r, j) PROVE get(q, j)
  <2>1. j \in Nat /\ ~ (j < k)  BY <1>2
  <2>. QED  BY <1>2, <2>1
<1>. QED  BY <1>1, <1>2, CountLeq
-----------------------------------------------------------------------------
(* The rows that may be hashed, of any gadget.                             *)
ProbeBits(shape) == numMaskedOuts(shape) .. shape.numTotOuts - 1

Fits(shape, r) ==
  /\ r \in 0 .. 2^shape.numTotOuts - 1
  /\ \A o \in 0 .. shape.numOuts - 1 : Count(r, OutBits(shape, o)) <= shape.t
  /\ Count(r, ProbeBits(shape)) <= shape.maxCoeff

(* The bits of the outputs, one after another, and those of the probes.    *)
LEMMA OutBitsFacts ==
  ASSUME NEW shape \in Gadgets, NEW o \in 0 .. shape.numOuts - 1
  PROVE  /\ o * shape.d \in Nat /\ (o + 1) * shape.d = o * shape.d + shape.d
         /\ (o + 1) * shape.d <= numMaskedOuts(shape)
         /\ OutBits(shape, o) \in SUBSET Nat /\ IsFiniteSet(OutBits(shape, o))
         /\ \A p \in 0 .. shape.numOuts - 1 : o < p => (o + 1) * shape.d <= p * shape.d
<1>1. /\ shape.numOuts \in Nat \ {0} /\ shape.d \in Nat \ {0}  BY ShapeFacts
<1>. DEFINE d == shape.d
<1>2. o \in Nat /\ o * d \in Nat /\ (o + 1) * d = o * d + d  BY <1>1
<1>3. ASSUME NEW p \in Nat, o < p PROVE (o + 1) * d <= p * d
  <2>1. d * o + d <= d * p  BY <1>1, <1>2, <1>3, MulMonotone
  <2>2. d * o = o * d /\ d * p = p * d  BY <1>1, <1>2, <1>3
  <2>. QED  BY <1>2, <2>1, <2>2
<1>4. (o + 1) * d <= numMaskedOuts(shape)
  <2>1. o < shape.numOuts /\ shape.numOuts \in Nat  BY <1>1
  <2>. QED  BY <1>3, <2>1 DEF numMaskedOuts
<1>5. OutBits(shape, o) = o * d .. (o + 1) * d - 1  BY DEF OutBits
<1>. HIDE DEF d
<1>6. o * d \in Int /\ (o + 1) * d - 1 \in Int  BY <1>1, <1>2 DEF d
<1>7. OutBits(shape, o) \in SUBSET Nat  BY <1>2, <1>5, <1>6
<1>8. IsFiniteSet(OutBits(shape, o))  BY <1>5, <1>6, FS_Interval
<1>9. \A p \in 0 .. shape.numOuts - 1 : p \in Nat  OBVIOUS
<1>. QED  BY <1>2, <1>3, <1>4, <1>7, <1>8, <1>9 DEF d

(* The bits of the probes are finitely many numbers.                       *)
LEMMA ProbeBitsFacts ==
  ASSUME NEW shape \in Gadgets
  PROVE  ProbeBits(shape) \in SUBSET Nat /\ IsFiniteSet(ProbeBits(shape))
<1>1. numMaskedOuts(shape) \in Nat /\ shape.numTotOuts - 1 \in Int  BY ShapeFacts
<1>. QED  BY <1>1, FS_Interval DEF ProbeBits

(* A bit below those of the probes is of some output.                      *)
LEMMA OutputOf ==
  ASSUME NEW shape \in Gadgets, NEW i \in Nat, i < numMaskedOuts(shape)
  PROVE  \E o \in 0 .. shape.numOuts - 1 : i \in OutBits(shape, o)
<1>1. shape.numOuts \in Nat \ {0} /\ shape.d \in Nat \ {0}  BY ShapeFacts
<1>. DEFINE d == shape.d
            o == i \div d
            s == i % d
<1>2. i \in 0 .. shape.numOuts * d - 1  BY <1>1 DEF numMaskedOuts
<1>3. o \in 0 .. shape.numOuts - 1  BY <1>1, <1>2, DivBound
<1>4. o \in Nat /\ s \in 0 .. d - 1 /\ i = d * o + s  BY <1>1, DivMod
<1>. HIDE DEF o, s
<1>5. i \in o * d .. (o + 1) * d - 1
  <2>1. d * o = o * d /\ (o + 1) * d = o * d + d /\ o * d \in Nat  BY <1>1, <1>4
  <2>. QED  BY <1>1, <1>4, <2>1
<1>. QED  BY <1>3, <1>5 DEF OutBits

(* An output at its last combination has no next one: a number that may be *)
(* hashed is not first greater in one of the output's bits.                *)
LEMMA NoneAboveTop ==
  ASSUME NEW shape \in Gadgets, NEW r, NEW q, NEW o \in 0 .. shape.numOuts - 1,
         AtTop(shape, r, o), Count(q, OutBits(shape, o)) <= shape.t,
         NEW i \in OutBits(shape, o), get(q, i), ~ get(r, i),
         \A j \in Nat : i < j => (get(q, j) <=> get(r, j))
  PROVE  FALSE
<1>. DEFINE t == shape.t
            end == (o + 1) * shape.d
            Top == end - t .. end - 1
            Q == {j \in OutBits(shape, o) : get(q, j)}
<1>1. t \in Nat /\ shape.d \in Nat \ {0} /\ t < shape.d
  <2>1. shape.t \in 0 .. shape.d - 1 /\ shape.d \in Nat \ {0}  BY ShapeFacts
  <2>. QED  BY <2>1
<1>2. o * shape.d \in Nat /\ end = o * shape.d + shape.d /\ OutBits(shape, o) = o * shape.d .. end - 1
      /\ OutBits(shape, o) \in SUBSET Nat /\ IsFiniteSet(OutBits(shape, o))
  BY OutBitsFacts DEF OutBits
<1>3. \A j \in Top : get(r, j)  BY DEF AtTop
<1>. HIDE DEF end, t
<1>4. i \notin Top  BY <1>3
<1>5. i < end - t /\ i \in Nat /\ end - t \in Nat /\ end - 1 \in Int  BY <1>1, <1>2, <1>4
<1>6. Top \cup {i} \in SUBSET Q
  <2>1. ASSUME NEW j \in Top PROVE j \in Q
    <3>1. j \in Nat /\ i < j /\ j \in OutBits(shape, o)  BY <1>1, <1>2, <1>5
    <3>. QED  BY <1>3, <3>1
  <2>2. i \in Q  OBVIOUS
  <2>. HIDE DEF Top, Q
  <2>. QED  BY <2>1, <2>2
<1>7. IsFiniteSet(Top) /\ Cardinality(Top) = t
  <2>1. end - t \in Int /\ end - 1 \in Int  BY <1>5
  <2>2. IsFiniteSet(Top) /\ Cardinality(Top) = IF end - t > end - 1 THEN 0 ELSE end - 1 - (end - t) + 1
    BY <2>1, FS_Interval
  <2>3. end \in Int  BY <1>1, <1>2
  <2>. QED  BY <1>1, <2>2, <2>3
<1>8. Cardinality(Top \cup {i}) = t + 1  BY <1>4, <1>7, FS_AddElement
<1>9. IsFiniteSet(Q) /\ Cardinality(Q) \in Nat /\ Cardinality(Q) <= t
  BY <1>2, CountFacts DEF Count, t
<1>10. Cardinality(Top \cup {i}) <= Cardinality(Q)  BY <1>6, <1>9, FS_Subset
<1>. HIDE DEF Top, Q
<1>. QED  BY <1>1, <1>8, <1>9, <1>10

(* What the next combination of outputs is: the first output that is not   *)
(* at its last combination takes its next one, by a carry that starts at   *)
(* its first bit, or its first one if it has as many as it may, and that   *)
(* stops within it; the outputs before it start again.                     *)
LEMMA OutNext ==
  ASSUME NEW shape \in Gadgets, NEW r \in Nat, outLeqT(shape, r).more
  PROVE  \E o \in 0 .. shape.numOuts - 1, k \in Nat, j \in Nat, m \in Nat, r0 \in Nat :
           /\ shape.t # 0
           /\ \A p \in 0 .. o - 1 : AtTop(shape, r, p)
           /\ k \in OutBits(shape, o) /\ j \in OutBits(shape, o) /\ k <= j /\ ~ get(r, j)
           /\ r0 = 2^k * m /\ r0 <= r /\ r - r0 < 2^(o * shape.d)
           /\ \A i \in Nat : i < o * shape.d => ~ get(r0, i)
           /\ \A i \in Nat : o * shape.d <= i => (get(r0, i) <=> get(r, i))
           /\ outLeqT(shape, r).row = r0 + 2^k
           /\ \/ Count(r, OutBits(shape, o)) < shape.t /\ k = o * shape.d
              \/ /\ Count(r, OutBits(shape, o)) >= shape.t /\ get(r, k)
                 /\ \A i \in OutBits(shape, o) : i < k => ~ get(r, i)
<1>. DEFINE d == shape.d
            t == shape.t
            open == {o \in 0 .. shape.numOuts - 1 : ~ AtTop(shape, r, o)}
            o == Min(open)
            k0 == o * d
            end == (o + 1) * d
            r0 == r - (r % 2^k0)
            ones == {i \in OutBits(shape, o) : get(r0, i)}
            k == IF Cardinality(ones) < t THEN k0 ELSE Min(ones)
<1>1. /\ shape.numOuts \in Nat \ {0} /\ d \in Nat \ {0} /\ t \in 0 .. d - 1 /\ t \in Nat
  BY ShapeFacts
<1>3. open # {}  BY DEF outLeqT
<1>4. o \in open /\ o \in 0 .. shape.numOuts - 1 /\ o \in Nat /\ \A p \in 0 .. o - 1 : AtTop(shape, r, p)
  <2>1. open \in SUBSET Nat  BY <1>1
  <2>2. o \in open /\ \A p \in open : o <= p  BY <1>3, <2>1, MinOfNaturals
  <2>3. o \in 0 .. shape.numOuts - 1 /\ o \in Nat  BY <2>1, <2>2
  <2>4. ASSUME NEW p \in 0 .. o - 1, ~ AtTop(shape, r, p) PROVE FALSE
    <3>1. p \in open /\ p < o /\ p \in Nat  BY <1>1, <2>3, <2>4
    <3>2. o <= p  BY <2>2, <3>1
    <3>. HIDE DEF o
    <3>. QED  BY <2>3, <3>1, <3>2
  <2>. QED  BY <2>2, <2>3, <2>4
<1>5. outLeqT(shape, r).row = r0 + 2^k  BY <1>3 DEF outLeqT, NextOut
<1>6. OutBits(shape, o) = k0 .. end - 1  BY DEF OutBits
<1>7. PICK j \in end - t .. end - 1 : ~ get(r, j)  BY <1>4 DEF AtTop
<1>. HIDE DEF o
<1>8. /\ k0 \in Nat /\ end = k0 + d /\ OutBits(shape, o) \in SUBSET Nat
      /\ IsFiniteSet(OutBits(shape, o))
  BY <1>4, OutBitsFacts
<1>9. t # 0 /\ j \in Nat /\ k0 <= j /\ j \in OutBits(shape, o) /\ k0 \in OutBits(shape, o)
  <2>. HIDE DEF d, t, k0, end
  <2>. QED  BY <1>1, <1>6, <1>7, <1>8
<1>. HIDE DEF k0, end, d, t
<1>10. 2^k0 \in Nat \ {0} /\ r % 2^k0 \in 0 .. 2^k0 - 1 /\ r % 2^k0 <= r
       /\ r0 = 2^k0 * (r \div 2^k0) /\ r \div 2^k0 \in Nat
  <2>1. PICK K \in Nat \ {0} : K = 2^k0  BY <1>8, PowerStep
  <2>2. r \div K \in Nat /\ r % K \in 0 .. K - 1 /\ r = K * (r \div K) + (r % K)
    BY <2>1, DivMod
  <2>3. PICK a \in Nat, b \in 0 .. K - 1 : a = r \div K /\ b = r % K /\ r = K * a + b
    BY <2>2
  <2>4. PICK P \in Nat : P = K * a
    <3>1. \A u, v \in Nat : u * v \in Nat  OBVIOUS
    <3>. QED  BY <2>1, <2>3, <3>1
  <2>5. r0 = r - b  BY <2>1, <2>3
  <2>. HIDE DEF r0
  <2>6. b \in Nat /\ r = P + b
    <3>1. \A z \in 0 .. K - 1 : z \in Nat  OBVIOUS
    <3>2. r = K * a + b  BY <2>3
    <3>. QED  BY <2>4, <3>1, <3>2, Zenon
  <2>7. b <= r /\ r0 = P  BY <2>4, <2>5, <2>6
  <2>. QED  BY <2>1, <2>3, <2>4, <2>7
<1>11. r0 \in Nat /\ r0 <= r /\ r - r0 < 2^k0  BY <1>10
<1>12. \A i \in Nat : k0 <= i => (get(r0, i) <=> get(r, i))
  BY <1>8, ResetHigh DEF get
<1>13. \A i \in Nat : i < k0 => ~ get(r0, i)
  <2>1. ASSUME NEW i \in Nat, get(r0, i) PROVE k0 <= i
    <3>1. get(2^k0 * (r \div 2^k0), i)  BY <1>10, <2>1
    <3>2. PICK q \in Nat : q = r \div 2^k0  BY <1>10
    <3>. QED  BY <1>8, <3>1, <3>2, OnesAbove
  <2>. QED  BY <1>8, <2>1
<1>. HIDE DEF r0
<1>14. ones = {i \in OutBits(shape, o) : get(r, i)}
  <2>1. \A i \in OutBits(shape, o) : i \in Nat /\ k0 <= i  BY <1>6, <1>8
  <2>. QED  BY <1>12, <2>1
<1>15. Cardinality(ones) = Count(r, OutBits(shape, o)) /\ Cardinality(ones) \in Nat
       /\ IsFiniteSet(ones)
  BY <1>8, <1>14, CountFacts DEF Count
<1>16. CASE Cardinality(ones) < t
  <2>1. k = k0 /\ k \in Nat  BY <1>8, <1>16
  <2>. HIDE DEF ones, k
  <2>2. \E m \in Nat : r0 = 2^k * m  BY <1>10, <2>1
  <2>. QED
    BY <1>4, <1>5, <1>7, <1>9, <1>11, <1>12, <1>13, <1>15, <1>16, <2>1, <2>2 DEF k0, d, t
<1>17. CASE ~ (Cardinality(ones) < t)
  <2>1. ones # {} /\ ones \in SUBSET Nat
    <3>1. Cardinality(ones) # 0  BY <1>1, <1>9, <1>15, <1>17
    <3>2. ones # {}  BY <1>15, <3>1, FS_EmptySet
    <3>. QED  BY <1>8, <3>2
  <2>2. k = Min(ones)  BY <1>17
  <2>3. k \in ones /\ \A i \in ones : k <= i  BY <2>1, <2>2, MinOfNaturals
  <2>4. k \in Nat /\ k \in OutBits(shape, o) /\ k0 <= k /\ get(r, k)
    BY <1>6, <1>8, <1>14, <2>3
  <2>. HIDE DEF k
  <2>5. \A i \in OutBits(shape, o) : i < k => ~ get(r, i)
    <3>. SUFFICES ASSUME NEW i \in OutBits(shape, o), i < k, get(r, i) PROVE FALSE  OBVIOUS
    <3>1. k <= i  BY <1>14, <2>3
    <3>2. i \in Nat  BY <1>8
    <3>. QED  BY <2>4, <3>1, <3>2
  <2>6. \E m \in Nat : r0 = 2^k * m
    <3>1. ASSUME NEW i \in Nat, i < k, get(r0, i) PROVE FALSE
      <4>1. k0 <= i  BY <1>8, <1>13, <3>1
      <4>2. i \in OutBits(shape, o)  BY <1>6, <1>8, <1>1, <2>4, <3>1, <4>1
      <4>. QED  BY <1>12, <2>5, <3>1, <4>1, <4>2
    <3>. QED  BY <1>11, <2>4, <3>1, ZeroBelow
  <2>7. k <= j
    <3>. SUFFICES ASSUME j < k PROVE FALSE  BY <1>9, <2>4
    <3>. DEFINE above == j + 1 .. end - 1
    <3>1. ones \subseteq above
      <4>1. ASSUME NEW i \in ones PROVE i \in above
        <5>1. i \in Nat /\ k <= i /\ i \in k0 .. end - 1  BY <1>6, <2>1, <2>3
        <5>. QED  BY <1>9, <2>4, <5>1
      <4>. QED  BY <4>1
    <3>2. end \in Nat /\ end - t <= j
      <4>1. end \in Nat  BY <1>1, <1>8
      <4>. QED  BY <1>1, <1>7, <4>1
    <3>3. IsFiniteSet(above) /\ Cardinality(above) = IF j + 1 > end - 1 THEN 0 ELSE end - 1 - (j + 1) + 1
      <4>1. j + 1 \in Int /\ end - 1 \in Int  BY <1>9, <3>2
      <4>. QED  BY <4>1, FS_Interval
    <3>4. Cardinality(ones) <= Cardinality(above) /\ Cardinality(above) \in Nat
      BY <3>1, <3>3, FS_Subset, FS_CardinalityType
    <3>5. Cardinality(above) < t  BY <1>1, <1>9, <3>2, <3>3
    <3>. HIDE DEF above, ones
    <3>. QED  BY <1>1, <1>15, <1>17, <3>4, <3>5
  <2>8. Count(r, OutBits(shape, o)) >= t
    <3>. HIDE DEF ones
    <3>. QED  BY <1>1, <1>15, <1>17
  <2>. HIDE DEF ones
  <2>. QED
    BY <1>4, <1>5, <1>7, <1>9, <1>11, <1>12, <1>13, <2>4, <2>5, <2>6, <2>7, <2>8 DEF k0, d, t
<1>. QED  BY <1>16, <1>17

(* An increment that does not leave the row is not said to overflow, if    *)
(* the last word is used in full, or if it is the only one and the lowest  *)
(* bit stays unset.                                                        *)
LEMMA LocalIncSilent ==
  ASSUME NEW n \in Nat \ {0},
         n % BITARRAY_I_VALUE_BITS = 0 \/ n <= BITARRAY_I_VALUE_BITS,
         NEW r \in Nat, NEW from \in Nat, r + 2^from < 2^n,
         NEW h \in Nat, r + 2^from = 2 * h
  PROVE  ~ localInc(n, r, from).overflows
<1>. DEFINE V == BITARRAY_I_VALUE_BITS
            used == n % V
            w == (n + V - 1) \div V
            sum == r + 2^from
            M == 2^(w * V)
            L == 2^((w - 1) * V)
<1>1. V \in Nat \ {0}  BY WordAssumption
<1>2. localInc(n, r, from).overflows =
        IF used = 0 THEN sum # sum % M
        ELSE (sum % M) \div L # r \div L /\ (sum % M) \div L >= 2^used - 1
  BY DEF localInc, BITARRAY_I_SIZE
<1>3. sum \in Nat /\ sum < 2^n /\ sum = 2 * h  BY PowerStep
<1>. HIDE DEF sum
<1>4. ASSUME NEW N \in Nat \ {0}, sum < N PROVE sum % N = sum
  <2>1. N * 0 + sum = sum /\ sum \in 0 .. N - 1  BY <1>3, <1>4
  <2>2. (N * 0 + sum) % N = sum  BY <2>1, ModUnique
  <2>. QED  BY <2>1, <2>2
<1>5. 2^n \in Nat \ {0}  BY PowerStep
<1>. HIDE DEF V
<1>6. CASE used = 0
  <2>1. PICK q \in Nat : n = V * q
    <3>1. n \div V \in Nat /\ n = V * (n \div V) + (n % V)  BY <1>1, DivMod
    <3>2. PICK q \in Nat : n = V * q + used  BY <3>1
    <3>. HIDE DEF used
    <3>3. n = V * q  BY <1>1, <1>6, <3>2
    <3>. QED  BY <3>3
  <2>2. n + V - 1 = V * q + (V - 1) /\ V - 1 \in 0 .. V - 1  BY <1>1, <2>1
  <2>3. w = q  BY <1>1, <2>1, <2>2, ModUnique
  <2>4. w * V = n  BY <1>1, <2>1, <2>3
  <2>5. M = 2^n  BY <2>4
  <2>6. sum % M = sum  BY <1>3, <1>4, <1>5, <2>5
  <2>. HIDE DEF used, M, L, w
  <2>. QED  BY <1>2, <1>6, <2>6
<1>7. CASE used # 0
  <2>1. n < V /\ used = n
    <3>1. n <= V  BY <1>7 DEF V
    <3>2. n # V
      <4>1. V * 1 + 0 = V /\ 0 \in 0 .. V - 1  BY <1>1
      <4>2. (V * 1 + 0) % V = 0  BY <1>1, <4>1, ModUnique
      <4>. QED  BY <1>7, <4>1, <4>2
    <3>3. V * 0 + n = n /\ n \in 0 .. V - 1  BY <1>1, <3>1, <3>2
    <3>4. (V * 0 + n) % V = n  BY <1>1, <3>3, ModUnique
    <3>. QED  BY <1>1, <3>1, <3>2, <3>3, <3>4
  <2>2. w = 1
    <3>1. n + V - 1 = V * 1 + (n - 1) /\ n - 1 \in 0 .. V - 1  BY <1>1, <2>1
    <3>. QED  BY <1>1, <3>1, ModUnique
  <2>3. w * V = V /\ (w - 1) * V = 0  BY <1>1, <2>2
  <2>4. M = 2^V /\ L = 1
    <3>1. 2^0 = 1  BY PowerStep
    <3>. QED  BY <2>3, <3>1
  <2>. HIDE DEF used, M, L, w
  <2>5. 2 * 2^n <= M /\ M \in Nat \ {0}  BY <1>1, <2>1, <2>4, PowerMonotone, PowerStep
  <2>6. sum % M = sum /\ sum \div L = sum  BY <1>3, <1>4, <1>5, <2>4, <2>5
  <2>7. PICK p \in Nat : n = p + 1
    <3>1. n - 1 \in Nat /\ n = (n - 1) + 1  OBVIOUS
    <3>. QED  BY <3>1
  <2>8. 2^n = 2 * 2^p /\ 2^p \in Nat  BY <2>7, PowerStep
  <2>9. PICK P \in Nat : P = 2^p /\ 2^n = 2 * P  BY <2>8
  <2>10. ~ (sum >= 2^n - 1)  BY <1>3, <2>9
  <2>. QED  BY <1>2, <1>7, <2>1, <2>6, <2>10
<1>. QED  BY <1>6, <1>7
-----------------------------------------------------------------------------
(* Numbers that agree on some bits have as many of them.                   *)
LEMMA CountSame ==
  ASSUME NEW B, NEW r, NEW q, \A i \in B : get(r, i) <=> get(q, i)
  PROVE  Count(r, B) = Count(q, B)
<1>1. {i \in B : get(r, i)} = {i \in B : get(q, i)}  OBVIOUS
<1>. QED  BY <1>1 DEF Count

(* No bit set, none counted.                                               *)
LEMMA CountNone ==
  ASSUME NEW B, NEW r, \A i \in B : ~ get(r, i)
  PROVE  Count(r, B) = 0
<1>1. {i \in B : get(r, i)} = {}  OBVIOUS
<1>. QED  BY <1>1, FS_EmptySet DEF Count

(* The next combination of outputs may be hashed, too, has the same probes, *)
(* and no row in between may be hashed.                                    *)
LEMMA OutStep ==
  ASSUME NEW shape \in Gadgets, NEW r, Fits(shape, r), outLeqT(shape, r).more
  PROVE  /\ Fits(shape, outLeqT(shape, r).row)
         /\ r < outLeqT(shape, r).row
         /\ \A i \in Nat : numMaskedOuts(shape) <= i => (get(outLeqT(shape, r).row, i) <=> get(r, i))
         /\ \A q : Fits(shape, q) /\ r < q => outLeqT(shape, r).row <= q
<1>0. PICK o \in 0 .. shape.numOuts - 1, k \in Nat, j \in Nat, m \in Nat, r0 \in Nat :
           /\ shape.t # 0
           /\ \A p \in 0 .. o - 1 : AtTop(shape, r, p)
           /\ k \in OutBits(shape, o) /\ j \in OutBits(shape, o) /\ k <= j /\ ~ get(r, j)
           /\ r0 = 2^k * m /\ r0 <= r /\ r - r0 < 2^(o * shape.d)
           /\ \A i \in Nat : i < o * shape.d => ~ get(r0, i)
           /\ \A i \in Nat : o * shape.d <= i => (get(r0, i) <=> get(r, i))
           /\ outLeqT(shape, r).row = r0 + 2^k
           /\ \/ Count(r, OutBits(shape, o)) < shape.t /\ k = o * shape.d
              \/ /\ Count(r, OutBits(shape, o)) >= shape.t /\ get(r, k)
                 /\ \A i \in OutBits(shape, o) : i < k => ~ get(r, i)
  <2>1. r \in Nat
    <3>1. 2^shape.numTotOuts \in Nat  BY ShapeFacts, PowerStep
    <3>. QED  BY <3>1 DEF Fits
  <2>. QED  BY <2>1, OutNext
<1>. DEFINE n == shape.numTotOuts
            d == shape.d
            t == shape.t
            nm == numMaskedOuts(shape)
            c == outLeqT(shape, r).row
<1>1. /\ shape.numOuts \in Nat \ {0} /\ d \in Nat \ {0} /\ n \in Nat \ {0} /\ nm \in Nat /\ nm <= n
      /\ t \in 0 .. d - 1 /\ t \in Nat
  BY ShapeFacts
<1>2. 2^n \in Nat /\ r \in 0 .. 2^n - 1 /\ r \in Nat /\ r < 2^n
  <2>1. 2^n \in Nat /\ r \in 0 .. 2^n - 1  BY <1>1, PowerStep DEF Fits
  <2>. QED  BY <2>1
<1>3. /\ t # 0
      /\ \A p \in 0 .. o - 1 : AtTop(shape, r, p)
      /\ k \in OutBits(shape, o) /\ j \in OutBits(shape, o) /\ k <= j /\ ~ get(r, j)
      /\ r0 = 2^k * m /\ r0 <= r /\ r - r0 < 2^(o * d)
      /\ \A i \in Nat : i < o * d => ~ get(r0, i)
      /\ \A i \in Nat : o * d <= i => (get(r0, i) <=> get(r, i))
      /\ c = r0 + 2^k
      /\ \/ Count(r, OutBits(shape, o)) < t /\ k = o * d
         \/ /\ Count(r, OutBits(shape, o)) >= t /\ get(r, k)
            /\ \A i \in OutBits(shape, o) : i < k => ~ get(r, i)
  BY <1>0
<1>4. c \in r + 1 .. 2^n - 1  BY <1>2, <1>3, OutIncreases
<1>. DEFINE low == o * d
            end == (o + 1) * d
            B == OutBits(shape, o)
<1>5. /\ low \in Nat /\ end = low + d /\ end <= nm /\ end \in Nat
      /\ B \in SUBSET Nat /\ IsFiniteSet(B) /\ B = low .. end - 1
      /\ \A p \in 0 .. shape.numOuts - 1 : o < p => end <= p * d
  <2>1. low + d \in Nat /\ low \in Nat  BY <1>1, OutBitsFacts
  <2>. QED  BY <1>1, <2>1, OutBitsFacts DEF OutBits
<1>6. \A p \in 0 .. shape.numOuts - 1 :
        /\ OutBits(shape, p) \in SUBSET Nat /\ IsFiniteSet(OutBits(shape, p))
        /\ OutBits(shape, p) = p * d .. (p + 1) * d - 1 /\ p * d \in Nat /\ (p + 1) * d \in Nat
        /\ p < o => (p + 1) * d <= low
  <2>. TAKE p \in 0 .. shape.numOuts - 1
  <2>1. /\ OutBits(shape, p) \in SUBSET Nat /\ IsFiniteSet(OutBits(shape, p))
        /\ p * d \in Nat /\ (p + 1) * d = p * d + d
        /\ p < o => (p + 1) * d <= low
    BY OutBitsFacts
  <2>2. p * d + d \in Nat  BY <1>1, <2>1
  <2>. QED  BY <2>1, <2>2 DEF OutBits
<1>. HIDE DEF n, d, t, nm, c, low, end, B
<1>7. PICK i \in Nat : /\ k <= i /\ ~ get(r0, i) /\ get(c, i)
                       /\ \A l \in Nat : l < i => ~ get(c, l)
                       /\ \A l \in Nat : i < l => (get(c, l) <=> get(r0, l))
                       /\ \A l \in Nat : k <= l /\ ~ get(r0, l) => i <= l
  <2>1. PICK i \in Nat : /\ k <= i /\ ~ get(r0, i) /\ get(r0 + 2^k, i)
                         /\ \A l \in Nat : l < i => ~ get(r0 + 2^k, l)
                         /\ \A l \in Nat : i < l => (get(r0 + 2^k, l) <=> get(r0, l))
                         /\ \A l \in Nat : k <= l /\ ~ get(r0, l) => i <= l
    <3>1. \A a \in Nat : a = 2^k * m =>
            \E i \in Nat : /\ k <= i /\ ~ get(a, i) /\ get(a + 2^k, i)
                           /\ \A l \in Nat : l < i => ~ get(a + 2^k, l)
                           /\ \A l \in Nat : i < l => (get(a + 2^k, l) <=> get(a, l))
                           /\ \A l \in Nat : k <= l /\ ~ get(a, l) => i <= l
      BY Carry
    <3>2. r0 = 2^k * m  BY <1>3
    <3>. QED  BY <3>1, <3>2, Zenon
  <2>2. c = r0 + 2^k  BY <1>3
  <2>. QED  BY <2>1, <2>2
<1>8. low <= k /\ k <= j /\ j < end /\ i <= j
  <2>1. low <= k /\ k <= j /\ j < end  BY <1>3, <1>5 DEF B
  <2>2. ~ get(r0, j)  BY <1>3, <1>5, <2>1 DEF low
  <2>. QED  BY <1>3, <1>7, <2>1, <2>2
<1>9. \A l \in Nat : end <= l => (get(c, l) <=> get(r, l))
  <2>. SUFFICES ASSUME NEW l \in Nat, end <= l PROVE get(c, l) <=> get(r, l)  OBVIOUS
  <2>1. i < l /\ low <= l  BY <1>3, <1>5, <1>7, <1>8
  <2>. QED  BY <1>3, <1>7, <2>1 DEF low
<1>10. Count(c, B) <= t
  <2>1. Count(r0, B) = Count(r, B)
    <3>1. \A l \in B : l \in Nat /\ low <= l  BY <1>5
    <3>2. \A l \in B : get(r0, l) <=> get(r, l)  BY <1>3, <3>1 DEF low
    <3>. QED  BY <3>2, CountSame
  <2>2. Count(r, B) \in Nat /\ Count(c, B) \in Nat /\ Count(r, B) <= t
    BY <1>5, CountFacts DEF Fits, B, t
  <2>3. CASE Count(r, B) < t
    <3>1. Count(c, B) <= Count(r0, B) + 1  BY <1>3, <1>5, CarryCount
    <3>. QED  BY <1>1, <2>1, <2>2, <2>3, <3>1
  <2>4. CASE ~ (Count(r, B) < t)
    <3>1. k \in B /\ get(r0, k)
      <4>1. get(r, k)  BY <1>3, <2>4 DEF B
      <4>. QED  BY <1>3, <1>8, <4>1 DEF low, B
    <3>2. Count(c, B) <= Count(r0, B)  BY <1>3, <1>5, <3>1, CarryCount
    <3>. QED  BY <1>1, <2>1, <2>2, <3>2
  <2>. QED  BY <2>3, <2>4
<1>11. Fits(shape, c)
  <2>1. c \in 0 .. 2^n - 1  BY <1>2, <1>4
  <2>2. ASSUME NEW p \in 0 .. shape.numOuts - 1 PROVE Count(c, OutBits(shape, p)) <= t
    <3>1. CASE p = o  BY <1>10, <3>1 DEF B
    <3>2. CASE p < o
      <4>1. ASSUME NEW l \in OutBits(shape, p) PROVE ~ get(c, l)
        <5>1. l \in Nat /\ l < low  BY <1>5, <1>6, <3>2
        <5>2. l < i  BY <1>3, <1>5, <1>7, <1>8, <5>1
        <5>. QED  BY <1>7, <5>1, <5>2
      <4>2. Count(c, OutBits(shape, p)) = 0  BY <4>1, CountNone
      <4>. QED  BY <1>1, <4>2
    <3>3. CASE o < p
      <4>1. ASSUME NEW l \in OutBits(shape, p) PROVE get(c, l) <=> get(r, l)
        <5>1. l \in Nat /\ p * d <= l /\ end <= p * d /\ p * d \in Nat  BY <1>5, <1>6, <3>3
        <5>2. end <= l  BY <1>5, <5>1
        <5>. QED  BY <1>9, <5>1, <5>2
      <4>2. Count(c, OutBits(shape, p)) = Count(r, OutBits(shape, p))  BY <4>1, CountSame
      <4>. QED  BY <4>2 DEF Fits, t
    <3>. QED  BY <3>1, <3>2, <3>3
  <2>3. Count(c, ProbeBits(shape)) <= shape.maxCoeff
    <3>1. ASSUME NEW l \in ProbeBits(shape) PROVE get(c, l) <=> get(r, l)
      <4>1. l \in Nat /\ nm <= l  BY <1>1, ProbeBitsFacts DEF ProbeBits, nm
      <4>2. end <= l  BY <1>1, <1>5, <4>1
      <4>. QED  BY <1>9, <4>1, <4>2
    <3>2. Count(c, ProbeBits(shape)) = Count(r, ProbeBits(shape))  BY <3>1, CountSame
    <3>. QED  BY <3>2 DEF Fits
  <2>. QED  BY <2>1, <2>2, <2>3 DEF Fits, n, t
<1>12. ASSUME NEW q, Fits(shape, q), r < q PROVE c <= q
  <2>1. q \in Nat
    <3>1. q \in 0 .. 2^n - 1  BY <1>12 DEF Fits, n
    <3>. QED  BY <3>1
  <2>2. PICK h \in Nat : /\ get(q, h) /\ ~ get(r, h) /\ q \div 2^h = r \div 2^h + 1
                         /\ \A l \in Nat : h < l => (get(q, l) <=> get(r, l))
    BY <1>2, <1>12, <2>1, HighestDifference
  <2>3. CASE k <= h
    <3>1. 2^k * m + 2^k <= 2^h * (r \div 2^h + 1)
      <4>1. 2^k * m <= r  BY <1>3
      <4>. QED  BY <1>2, <2>3, <4>1, NextMultiple
    <3>2. PICK H \in Nat \ {0}, K \in Nat : H = 2^h /\ K = 2^k  BY PowerStep
    <3>3. q \div H \in Nat /\ q % H \in 0 .. H - 1 /\ q = H * (q \div H) + (q % H)
      BY <2>1, <3>2, DivMod
    <3>4. PICK a \in Nat : a = q \div H  BY <3>3
    <3>5. PICK P \in Nat : P = H * a
      <4>1. \A u, v \in Nat : u * v \in Nat  OBVIOUS
      <4>. QED  BY <3>2, <3>4, <4>1
    <3>6. c <= P  BY <1>3, <2>2, <3>1, <3>2, <3>4, <3>5
    <3>7. P <= q
      <4>1. PICK b \in Nat : b = q % H  BY <3>3
      <4>2. q = P + b  BY <3>3, <3>4, <3>5, <4>1
      <4>. QED  BY <3>5, <4>2, <2>1
    <3>. QED  BY <1>2, <1>4, <2>1, <3>5, <3>6, <3>7
  <2>4. CASE h < k /\ low <= h
    <3>1. h \in B /\ k # low  BY <1>5, <1>8, <1>3, <2>4
    <3>2. Count(r, B) >= t /\ \A l \in B : l < k => ~ get(r, l)  BY <1>3, <3>1 DEF B, low
    <3>3. Count(r, B) < Count(q, B)  BY <1>5, <2>2, <2>4, <3>1, <3>2, MoreBelow
    <3>4. Count(q, B) <= t /\ Count(q, B) \in Nat /\ Count(r, B) \in Nat
      BY <1>5, <1>12, CountFacts DEF Fits, B, t
    <3>. QED  BY <1>1, <3>2, <3>3, <3>4
  <2>5. CASE h < low
    <3>1. h < nm  BY <1>1, <1>5, <2>5
    <3>2. PICK p \in 0 .. shape.numOuts - 1 : h \in OutBits(shape, p)  BY <3>1, OutputOf DEF nm
    <3>3. p < o
      <4>. SUFFICES ASSUME ~ (p < o) PROVE FALSE  OBVIOUS
      <4>1. p = o \/ o < p  OBVIOUS
      <4>2. low <= p * d
        <5>1. CASE p = o  BY <1>5, <5>1 DEF low
        <5>2. CASE o < p  BY <1>1, <1>5, <1>6, <5>2
        <5>. QED  BY <4>1, <5>1, <5>2
      <4>3. p * d <= h /\ p * d \in Nat  BY <1>6, <3>2
      <4>. QED  BY <1>5, <2>5, <4>2, <4>3
    <3>4. AtTop(shape, r, p)  BY <1>1, <1>3, <3>3
    <3>5. Count(q, OutBits(shape, p)) <= shape.t  BY <1>12 DEF Fits
    <3>. QED  BY <2>2, <3>2, <3>4, <3>5, NoneAboveTop
  <2>. QED  BY <1>3, <1>5, <2>3, <2>4, <2>5
<1>13. r < c  BY <1>2, <1>4
<1>14. \A l \in Nat : nm <= l => (get(c, l) <=> get(r, l))
  <2>. SUFFICES ASSUME NEW l \in Nat, nm <= l PROVE get(c, l) <=> get(r, l)  OBVIOUS
  <2>1. end <= l  BY <1>1, <1>5
  <2>. QED  BY <1>9, <2>1
<1>. QED  BY <1>11, <1>12, <1>13, <1>14 DEF c, nm

(* A number is not below the multiple that its quotient makes.             *)
LEMMA QuotientBelow ==
  ASSUME NEW q \in Nat, NEW h \in Nat
  PROVE  2^h * (q \div 2^h) \in Nat /\ 2^h * (q \div 2^h) <= q
<1>1. PICK H \in Nat \ {0} : H = 2^h  BY PowerStep
<1>2. q \div H \in Nat /\ q % H \in 0 .. H - 1 /\ q = H * (q \div H) + (q % H)  BY <1>1, DivMod
<1>3. PICK a \in Nat : a = q \div H  BY <1>2
<1>4. PICK P \in Nat : P = H * a
  <2>1. \A u, v \in Nat : u * v \in Nat  OBVIOUS
  <2>. QED  BY <1>1, <1>3, <2>1
<1>5. PICK b \in Nat : b = q % H  BY <1>2
<1>6. q = P + b  BY <1>2, <1>3, <1>4, <1>5
<1>7. P <= q  BY <1>4, <1>5, <1>6
<1>. QED  BY <1>1, <1>3, <1>4, <1>7

(* A number that is greater by 2^k than a multiple of 2^k is first greater *)
(* in a bit from k on.                                                     *)
LEMMA DifferenceFrom ==
  ASSUME NEW k \in Nat, NEW m \in Nat, NEW r \in Nat, r = 2^k * m, NEW q \in Nat, r + 2^k <= q
  PROVE  \E h \in Nat : /\ k <= h /\ get(q, h) /\ ~ get(r, h) /\ q \div 2^h = r \div 2^h + 1
                        /\ \A l \in Nat : h < l => (get(q, l) <=> get(r, l))
<1>. DEFINE Q == q - (q % 2^k)
<1>1. PICK K \in Nat \ {0} : K = 2^k  BY PowerStep
<1>2. q \div K \in Nat /\ q % K \in 0 .. K - 1 /\ q = K * (q \div K) + (q % K)  BY <1>1, DivMod
<1>3. PICK a \in Nat, b \in 0 .. K - 1 : a = q \div K /\ b = q % K /\ q = K * a + b  BY <1>2
<1>4. Q = K * a /\ Q \in Nat /\ r < Q
  <2>1. PICK P \in Nat : P = K * a
    <3>1. \A u, v \in Nat : u * v \in Nat  OBVIOUS
    <3>. QED  BY <1>1, <1>3, <3>1
  <2>2. b \in Nat /\ b < K /\ K \in Nat
    <3>1. \A z \in 0 .. K - 1 : z \in Nat /\ z < K  OBVIOUS
    <3>. QED  BY <3>1
  <2>3. q = P + b  BY <1>3, <2>1
  <2>4. Q = q - b  BY <1>1, <1>3
  <2>5. r + K <= q  BY <1>1
  <2>. HIDE DEF Q
  <2>6. Q = P /\ r < P  BY <2>1, <2>2, <2>3, <2>4, <2>5
  <2>. QED  BY <2>1, <2>6
<1>5. \A l \in Nat : k <= l => Q \div 2^l = q \div 2^l  BY ResetHigh
<1>. HIDE DEF Q
<1>6. PICK h \in Nat : /\ get(Q, h) /\ ~ get(r, h) /\ Q \div 2^h = r \div 2^h + 1
                       /\ \A l \in Nat : h < l => (get(Q, l) <=> get(r, l))
  <2>1. Q \in Nat /\ r < Q  BY <1>4
  <2>2. \A y, z \in Nat : y < z =>
          \E h \in Nat : /\ get(z, h) /\ ~ get(y, h) /\ z \div 2^h = y \div 2^h + 1
                         /\ \A l \in Nat : h < l => (get(z, l) <=> get(y, l))
    BY HighestDifference
  <2>3. r \in Nat  OBVIOUS
  <2>. QED  BY <2>1, <2>2, <2>3, ZenonT(30)
<1>7. k <= h
  <2>1. get(2^k * a, h)  BY <1>1, <1>4, <1>6
  <2>. QED  BY <1>3, <2>1, OnesAbove
<1>8. \A l \in Nat : k <= l => (get(Q, l) <=> get(q, l))  BY <1>5 DEF get
<1>9. get(q, h) /\ q \div 2^h = r \div 2^h + 1  BY <1>5, <1>6, <1>7, <1>8
<1>10. ASSUME NEW l \in Nat, h < l PROVE get(q, l) <=> get(r, l)
  <2>1. k <= l  BY <1>7, <1>10
  <2>. QED  BY <1>6, <1>8, <1>10, <2>1
<1>. QED  BY <1>6, <1>7, <1>9, <1>10

(* The words of a row have a place for each wire.                          *)
LEMMA WordsEnough ==
  ASSUME NEW n \in Nat
  PROVE  BITARRAY_I_SIZE(n) * BITARRAY_I_VALUE_BITS \in Nat
         /\ n <= BITARRAY_I_SIZE(n) * BITARRAY_I_VALUE_BITS
<1>1. PICK V \in Nat \ {0} : V = BITARRAY_I_VALUE_BITS  BY WordAssumption
<1>2. n + V - 1 \in Nat  BY <1>1
<1>3. PICK N \in Nat : N = n + V - 1  BY <1>2
<1>4. N \div V \in Nat /\ N % V \in 0 .. V - 1 /\ N = V * (N \div V) + (N % V)
  BY <1>1, <1>3, DivMod
<1>5. PICK w \in Nat, b \in 0 .. V - 1 : w = N \div V /\ N = V * w + b  BY <1>4
<1>6. PICK P \in Nat : P = V * w /\ P = w * V
  <2>1. V * w \in Nat /\ V * w = w * V  BY <1>1, <1>5
  <2>. QED  BY <2>1
<1>7. b \in Nat /\ b < V
  <2>1. \A z \in 0 .. V - 1 : z \in Nat /\ z < V  OBVIOUS
  <2>. QED  BY <2>1
<1>8. n <= P
  <2>1. N = P + b  BY <1>5, <1>6
  <2>. QED  BY <1>1, <1>3, <1>6, <1>7, <2>1
<1>9. BITARRAY_I_SIZE(n) = w  BY <1>1, <1>3, <1>5 DEF BITARRAY_I_SIZE
<1>. QED  BY <1>1, <1>6, <1>8, <1>9

(* The ones of a row are those of its wires.                               *)
LEMMA OnesAre ==
  ASSUME NEW shape \in Gadgets, NEW r \in 0 .. 2^shape.numTotOuts - 1
  PROVE  /\ Ones(shape, r) = {i \in 0 .. shape.numTotOuts - 1 : get(r, i)}
         /\ IsFiniteSet(Ones(shape, r)) /\ Ones(shape, r) \in SUBSET Nat
<1>. DEFINE n == shape.numTotOuts
            N == BITARRAY_I_SIZE(n) * BITARRAY_I_VALUE_BITS
<1>1. n \in Nat /\ 2^n \in Nat  BY ShapeFacts, PowerStep
<1>2. r \in Nat /\ r < 2^n
  <2>1. r \in 0 .. 2^n - 1  OBVIOUS
  <2>. HIDE DEF n
  <2>. QED  BY <1>1, <2>1
<1>3. N \in Nat /\ n <= N  BY <1>1, WordsEnough
<1>4. Ones(shape, r) = {i \in 0 .. N - 1 : get(r, i)}  BY DEF Ones
<1>. HIDE DEF n, N
<1>5. ASSUME NEW i \in 0 .. N - 1, get(r, i) PROVE i \in 0 .. n - 1
  <2>1. i \in Nat  BY <1>3
  <2>2. i < n  BY <1>1, <1>2, <1>5, <2>1, OnesBelow
  <2>. QED  BY <1>1, <2>1, <2>2
<1>6. 0 .. n - 1 \subseteq 0 .. N - 1  BY <1>1, <1>3
<1>7. Ones(shape, r) = {i \in 0 .. n - 1 : get(r, i)}  BY <1>4, <1>5, <1>6
<1>8. IsFiniteSet(0 .. n - 1) /\ 0 .. n - 1 \in SUBSET Nat
  <2>1. n - 1 \in Int  BY <1>1
  <2>. QED  BY <2>1, FS_Interval
<1>9. IsFiniteSet(Ones(shape, r)) /\ Ones(shape, r) \in SUBSET Nat
  <2>1. Ones(shape, r) \in SUBSET (0 .. n - 1)  BY <1>7
  <2>. QED  BY <1>8, <2>1, FS_Subset
<1>. QED  BY <1>7, <1>9 DEF n

(* Of a row without outputs they are the probes'.                          *)
LEMMA OnesAreProbes ==
  ASSUME NEW shape \in Gadgets, NEW r \in 0 .. 2^shape.numTotOuts - 1,
         NEW m \in Nat, r = 2^numMaskedOuts(shape) * m
  PROVE  /\ Ones(shape, r) = {i \in ProbeBits(shape) : get(r, i)}
         /\ Cardinality(Ones(shape, r)) = Count(r, ProbeBits(shape))
<1>. DEFINE n == shape.numTotOuts
            nm == numMaskedOuts(shape)
<1>1. n \in Nat /\ nm \in Nat /\ nm <= n  BY ShapeFacts
<1>2. ASSUME NEW i \in Nat, get(r, i) PROVE nm <= i
  BY <1>1, <1>2, OnesAbove
<1>3. ASSUME NEW i \in 0 .. n - 1, get(r, i) PROVE i \in nm .. n - 1
  <2>1. i \in Nat /\ i <= n - 1  BY <1>1
  <2>. QED  BY <1>1, <1>2, <1>3, <2>1
<1>4. nm .. n - 1 \subseteq 0 .. n - 1  BY <1>1
<1>5. {i \in 0 .. n - 1 : get(r, i)} = {i \in nm .. n - 1 : get(r, i)}  BY <1>3, <1>4
<1>6. Ones(shape, r) = {i \in ProbeBits(shape) : get(r, i)}  BY <1>5, OnesAre DEF ProbeBits
<1>. QED  BY <1>6 DEF Count

(* A gadget whose last word is full, or the only one: localInc then says   *)
(* that it overflows if it does.                                           *)
FullOrOneWord(shape) ==
  \/ shape.numTotOuts % BITARRAY_I_VALUE_BITS = 0
  \/ shape.numTotOuts <= BITARRAY_I_VALUE_BITS

(* Where the increment of a combination of probes starts, and that it is   *)
(* not said to overflow exactly if it stays in the row.                    *)
LEMMA ProbeNext ==
  ASSUME NEW shape \in Gadgets, FullOrOneWord(shape), NEW r \in 0 .. 2^shape.numTotOuts - 1,
         NEW m \in Nat, r = 2^numMaskedOuts(shape) * m,
         Count(r, ProbeBits(shape)) < shape.maxCoeff \/ shape.maxCoeff # 0
  PROVE  \E f \in Nat, a \in Nat :
           /\ numMaskedOuts(shape) <= f /\ r = 2^f * a
           /\ probeLeqMaxCoeff(shape, r).more <=> r + 2^f < 2^shape.numTotOuts
           /\ probeLeqMaxCoeff(shape, r).more => probeLeqMaxCoeff(shape, r).row = r + 2^f
           /\ \/ Count(r, ProbeBits(shape)) < shape.maxCoeff /\ f = numMaskedOuts(shape)
              \/ /\ Count(r, ProbeBits(shape)) >= shape.maxCoeff /\ get(r, f) /\ f \in ProbeBits(shape)
                 /\ \A i \in ProbeBits(shape) : i < f => ~ get(r, i)
<1>. DEFINE n == shape.numTotOuts
            nm == numMaskedOuts(shape)
            ones == Ones(shape, r)
            N == Count(r, ProbeBits(shape))
            from == IF N < shape.maxCoeff THEN nm ELSE Min(ones)
            Found(f, a) == /\ nm <= f /\ r = 2^f * a /\ f <= n
                           /\ \/ N < shape.maxCoeff /\ f = nm
                              \/ /\ N >= shape.maxCoeff /\ get(r, f) /\ f \in ProbeBits(shape)
                                 /\ \A i \in ProbeBits(shape) : i < f => ~ get(r, i)
<1>1. n \in Nat \ {0} /\ nm \in Nat \ {0} /\ nm <= n /\ shape.maxCoeff \in Nat
  BY ShapeFacts
<1>2. r \in Nat /\ r < 2^n /\ 2^n \in Nat \ {0}  BY <1>1, PowerStep
<1>3. /\ ones = {i \in ProbeBits(shape) : get(r, i)} /\ Cardinality(ones) = N
      /\ IsFiniteSet(ones) /\ ones \in SUBSET Nat /\ N \in Nat
  <2>1. ones = {i \in ProbeBits(shape) : get(r, i)} /\ Cardinality(ones) = N  BY OnesAreProbes
  <2>2. IsFiniteSet(ones) /\ ones \in SUBSET Nat  BY OnesAre
  <2>3. N \in Nat  BY ProbeBitsFacts, CountFacts
  <2>. QED  BY <2>1, <2>2, <2>3
<1>4. probeLeqMaxCoeff(shape, r) = Inc(shape, r, from)
  BY <1>3 DEF probeLeqMaxCoeff
<1>. HIDE DEF n, nm, ones, N
<1>5. from \in Nat /\ \E a \in Nat : Found(from, a)
  <2>1. CASE N < shape.maxCoeff
    <3>1. from = nm  BY <2>1
    <3>2. r = 2^nm * m  BY DEF nm
    <3>. QED  BY <1>1, <2>1, <3>1, <3>2
  <2>2. CASE ~ (N < shape.maxCoeff)
    <3>1. N # 0 /\ N >= shape.maxCoeff  BY <1>1, <1>3, <2>2 DEF N
    <3>2. ones # {}  BY <1>3, <3>1, FS_EmptySet
    <3>3. from = Min(ones)  BY <2>2
    <3>4. from \in ones /\ \A i \in ones : from <= i  BY <1>3, <3>2, <3>3, MinOfNaturals
    <3>. HIDE DEF from
    <3>5. from \in Nat /\ get(r, from) /\ from \in ProbeBits(shape)  BY <1>3, <3>4
    <3>6. nm <= from /\ from <= n  BY <1>1, <3>5 DEF ProbeBits, nm, n
    <3>7. ASSUME NEW i \in Nat, i < from, get(r, i) PROVE FALSE
      <4>1. get(2^nm * m, i)  BY <3>7 DEF nm
      <4>2. nm <= i  BY <1>1, <4>1, OnesAbove
      <4>3. i \in nm .. n - 1  BY <1>1, <3>5, <3>6, <3>7, <4>2
      <4>4. i \in ones  BY <1>3, <3>7, <4>3 DEF ProbeBits, nm, n
      <4>. QED  BY <3>4, <3>5, <3>7, <4>4
    <3>8. \E a \in Nat : r = 2^from * a  BY <1>2, <3>5, <3>7, ZeroBelow
    <3>9. \A i \in ProbeBits(shape) : i < from => ~ get(r, i)
      <4>1. \A i \in ProbeBits(shape) : i \in Nat  BY ProbeBitsFacts
      <4>. QED  BY <3>7, <4>1
    <3>. QED  BY <3>1, <3>5, <3>6, <3>8, <3>9
  <2>. QED  BY <2>1, <2>2
<1>. HIDE DEF from
<1>6. PICK a \in Nat : Found(from, a)  BY <1>5
<1>. DEFINE inc == localInc(n, r, from)
<1>7. probeLeqMaxCoeff(shape, r).more = ~ inc.overflows /\ probeLeqMaxCoeff(shape, r).row = inc.row
  <2>1. Inc(shape, r, from) = [row |-> inc.row, more |-> ~ inc.overflows]  BY DEF Inc, n
  <2>. HIDE DEF inc
  <2>. QED  BY <1>4, <2>1
<1>8. ~ inc.overflows => inc.row = r + 2^from /\ r + 2^from < 2^n
  <2>1. r \in 0 .. 2^n - 1 /\ from \in 0 .. n  BY <1>1, <1>2, <1>5, <1>6
  <2>. QED  BY <1>1, <2>1, LocalIncRight
<1>9. r + 2^from < 2^n => ~ inc.overflows
  <2>. SUFFICES ASSUME r + 2^from < 2^n PROVE ~ inc.overflows  OBVIOUS
  <2>1. PICK p \in Nat : from = p + 1
    <3>1. nm <= from  BY <1>6
    <3>2. from - 1 \in Nat /\ from = (from - 1) + 1  BY <1>1, <1>5, <3>1
    <3>. QED  BY <3>2
  <2>2. PICK P \in Nat : P = 2^p /\ 2^from = 2 * P  BY <2>1, PowerStep
  <2>3. r = (2 * P) * a  BY <1>6, <2>2
  <2>4. (2 * P) * a + 2 * P = 2 * (P * (a + 1)) /\ P * (a + 1) \in Nat  BY <2>2
  <2>5. PICK h \in Nat : r + 2^from = 2 * h  BY <2>2, <2>3, <2>4
  <2>6. n % BITARRAY_I_VALUE_BITS = 0 \/ n <= BITARRAY_I_VALUE_BITS  BY DEF FullOrOneWord, n
  <2>. QED  BY <1>1, <1>2, <1>5, <2>5, <2>6, LocalIncSilent
<1>. HIDE DEF inc
<1>10. probeLeqMaxCoeff(shape, r).more <=> r + 2^from < 2^n  BY <1>7, <1>8, <1>9
<1>11. probeLeqMaxCoeff(shape, r).more => probeLeqMaxCoeff(shape, r).row = r + 2^from
  BY <1>7, <1>8
<1>. QED  BY <1>5, <1>6, <1>10, <1>11 DEF n, nm, N

(* The next combination of probes, of a row whose outputs are zero, may be *)
(* hashed, too, and no row with more probes' bits does in between.  If     *)
(* there is none, then there is no such row at all.                        *)
LEMMA ProbeStep ==
  ASSUME NEW shape \in Gadgets, FullOrOneWord(shape), NEW r, Fits(shape, r),
         NEW m \in Nat, r = 2^numMaskedOuts(shape) * m
  PROVE  LET next == probeLeqMaxCoeff(shape, r)
             Above(q) == Fits(shape, q) /\ r + 2^numMaskedOuts(shape) <= q
         IN  /\ next.more => /\ Fits(shape, next.row)
                             /\ \E b \in Nat : next.row = 2^numMaskedOuts(shape) * b
                             /\ \A q : Above(q) => next.row <= q
             /\ ~ next.more => \A q : ~ Above(q)
<1>. DEFINE n == shape.numTotOuts
            nm == numMaskedOuts(shape)
            next == probeLeqMaxCoeff(shape, r)
            PB == ProbeBits(shape)
            N == Count(r, PB)
            Above(q) == Fits(shape, q) /\ r + 2^nm <= q
<1>1. n \in Nat \ {0} /\ nm \in Nat \ {0} /\ nm <= n /\ shape.maxCoeff \in Nat
  BY ShapeFacts
<1>2. 2^n \in Nat /\ r \in 0 .. 2^n - 1 /\ r \in Nat /\ r < 2^n
  <2>1. 2^n \in Nat /\ r \in 0 .. 2^n - 1  BY <1>1, PowerStep DEF Fits
  <2>. QED  BY <2>1
<1>3. r = 2^nm * m /\ N <= shape.maxCoeff  BY DEF Fits
<1>4. PB \in SUBSET Nat /\ IsFiniteSet(PB) /\ N \in Nat /\ PB = nm .. n - 1
  BY ProbeBitsFacts, CountFacts DEF ProbeBits
<1>5. \A q : Fits(shape, q) => q \in Nat /\ q < 2^n /\ Count(q, PB) \in Nat /\ Count(q, PB) <= shape.maxCoeff
  <2>. SUFFICES ASSUME NEW q, Fits(shape, q)
                PROVE q \in Nat /\ q < 2^n /\ Count(q, PB) \in Nat /\ Count(q, PB) <= shape.maxCoeff
    OBVIOUS
  <2>1. q \in 0 .. 2^n - 1 /\ Count(q, PB) <= shape.maxCoeff  BY DEF Fits
  <2>2. Count(q, PB) \in Nat  BY <1>4, CountFacts
  <2>. HIDE DEF n, PB
  <2>. QED  BY <1>2, <2>1, <2>2
<1>6. ~ (N < shape.maxCoeff) /\ shape.maxCoeff = 0 => ~ next.more
  <2>1. Cardinality(Ones(shape, r)) = N  BY <1>2, OnesAreProbes
  <2>. QED  BY <2>1 DEF probeLeqMaxCoeff
<1>. HIDE DEF n, nm, PB, N, next
(* The bit in which a row with more probes' bits is greater first.         *)
<1>7. ASSUME NEW q, Above(q)
      PROVE  \E h \in Nat : /\ nm <= h /\ get(q, h) /\ q \div 2^h = r \div 2^h + 1
                            /\ h \in PB
                            /\ \A l \in Nat : h < l => (get(q, l) <=> get(r, l))
  <2>1. q \in Nat /\ q < 2^n /\ r + 2^nm <= q  BY <1>5, <1>7
  <2>2. PICK h \in Nat : /\ nm <= h /\ get(q, h) /\ ~ get(r, h) /\ q \div 2^h = r \div 2^h + 1
                         /\ \A l \in Nat : h < l => (get(q, l) <=> get(r, l))
    BY <1>1, <1>2, <1>3, <2>1, DifferenceFrom
  <2>3. h < n  BY <1>1, <2>1, <2>2, OnesBelow
  <2>4. h \in PB  BY <1>1, <1>4, <2>2, <2>3
  <2>. QED  BY <2>2, <2>4
<1>8. CASE ~ (N < shape.maxCoeff) /\ shape.maxCoeff = 0
  <2>1. ASSUME NEW q, Above(q) PROVE FALSE
    <3>1. PICK h \in Nat : /\ get(q, h) /\ h \in PB
                           /\ \A l \in Nat : h < l => (get(q, l) <=> get(r, l))
      BY <1>7, <2>1
    <3>2. ASSUME NEW l \in PB PROVE ~ get(r, l)
      <4>. DEFINE R == {i \in PB : get(r, i)}
      <4>1. IsFiniteSet(R) /\ Cardinality(R) = N  BY <1>4, CountFacts DEF Count, N
      <4>2. N = 0  BY <1>1, <1>3, <1>4, <1>8
      <4>3. R = {}  BY <4>1, <4>2, FS_EmptySet
      <4>. QED  BY <4>3
    <3>3. \A l \in PB : get(r, l) => get(q, l)  BY <3>2
    <3>4. N < Count(q, PB)  BY <1>4, <3>1, <3>2, <3>3, CountLeq DEF N
    <3>. QED  BY <1>1, <1>4, <1>5, <1>8, <2>1, <3>4
  <2>. QED  BY <1>6, <1>8, <2>1 DEF next, nm
<1>9. CASE N < shape.maxCoeff \/ shape.maxCoeff # 0
  <2>1. PICK f \in Nat, a \in Nat :
           /\ nm <= f /\ r = 2^f * a
           /\ next.more <=> r + 2^f < 2^n
           /\ next.more => next.row = r + 2^f
           /\ \/ N < shape.maxCoeff /\ f = nm
              \/ /\ N >= shape.maxCoeff /\ get(r, f) /\ f \in PB
                 /\ \A i \in PB : i < f => ~ get(r, i)
    <3>1. \E f \in Nat, a \in Nat :
           /\ numMaskedOuts(shape) <= f /\ r = 2^f * a
           /\ probeLeqMaxCoeff(shape, r).more <=> r + 2^f < 2^shape.numTotOuts
           /\ probeLeqMaxCoeff(shape, r).more => probeLeqMaxCoeff(shape, r).row = r + 2^f
           /\ \/ Count(r, ProbeBits(shape)) < shape.maxCoeff /\ f = numMaskedOuts(shape)
              \/ /\ Count(r, ProbeBits(shape)) >= shape.maxCoeff /\ get(r, f) /\ f \in ProbeBits(shape)
                 /\ \A i \in ProbeBits(shape) : i < f => ~ get(r, i)
      <4>1. r \in 0 .. 2^shape.numTotOuts - 1  BY <1>2 DEF n
      <4>2. Count(r, ProbeBits(shape)) < shape.maxCoeff \/ shape.maxCoeff # 0  BY <1>9 DEF N, PB
      <4>. QED  BY <4>1, <4>2, ProbeNext
    <3>. QED  BY <3>1 DEF n, nm, N, PB, next
  <2>. DEFINE c == r + 2^f
  <2>2. 2^f \in Nat \ {0} /\ c \in Nat /\ c = 2^f * (a + 1)
    <3>1. PICK F \in Nat \ {0} : F = 2^f  BY PowerStep
    <3>2. F * a + F = F * (a + 1)  BY <3>1
    <3>. QED  BY <1>2, <2>1, <3>1, <3>2
  <2>. HIDE DEF c
  <2>3. ASSUME NEW q, Above(q) PROVE c <= q
    <3>1. PICK h \in Nat : /\ nm <= h /\ get(q, h) /\ q \div 2^h = r \div 2^h + 1
                           /\ h \in PB
                           /\ \A l \in Nat : h < l => (get(q, l) <=> get(r, l))
      BY <1>7, <2>3
    <3>2. q \in Nat /\ Count(q, PB) \in Nat /\ Count(q, PB) <= shape.maxCoeff  BY <1>5, <2>3
    <3>3. CASE f <= h
      <4>1. 2^f * a + 2^f <= 2^h * (r \div 2^h + 1)
        <5>1. 2^f * a <= r  BY <1>2, <2>1
        <5>. QED  BY <1>2, <3>3, <5>1, NextMultiple
      <4>2. c <= 2^h * (q \div 2^h)  BY <2>1, <3>1, <4>1 DEF c
      <4>3. PICK P \in Nat : P = 2^h * (q \div 2^h) /\ P <= q  BY <3>2, QuotientBelow
      <4>. QED  BY <2>2, <3>2, <4>2, <4>3
    <3>4. CASE h < f
      <4>1. N >= shape.maxCoeff /\ \A i \in PB : i < f => ~ get(r, i)
        BY <1>1, <2>1, <3>1, <3>4
      <4>2. N < Count(q, PB)  BY <1>4, <3>1, <3>4, <4>1, MoreBelow DEF N
      <4>. QED  BY <1>1, <1>4, <3>2, <4>1, <4>2
    <3>. QED  BY <3>3, <3>4
  <2>4. ASSUME c < 2^n PROVE Fits(shape, c)
    <3>1. PICK i \in Nat : /\ f <= i
                           /\ \A l \in Nat : l < i => ~ get(c, l)
      <4>1. \A y \in Nat : y = 2^f * a =>
              \E i \in Nat : f <= i /\ \A l \in Nat : l < i => ~ get(y + 2^f, l)
        BY Carry
      <4>2. r = 2^f * a /\ r \in Nat  BY <1>2, <2>1
      <4>. QED  BY <4>1, <4>2, Zenon DEF c
    <3>2. c \in 0 .. 2^n - 1  BY <1>2, <2>2, <2>4
    <3>3. ASSUME NEW o \in 0 .. shape.numOuts - 1 PROVE Count(c, OutBits(shape, o)) <= shape.t
      <4>1. ASSUME NEW l \in OutBits(shape, o) PROVE ~ get(c, l)
        <5>1. /\ o * shape.d \in Nat /\ (o + 1) * shape.d = o * shape.d + shape.d
              /\ (o + 1) * shape.d <= nm /\ OutBits(shape, o) \in SUBSET Nat
          BY OutBitsFacts DEF nm
        <5>2. l \in o * shape.d .. (o + 1) * shape.d - 1  BY DEF OutBits
        <5>3. shape.d \in Nat  BY ShapeFacts
        <5>4. l \in Nat /\ l < nm  BY <1>1, <5>1, <5>2, <5>3
        <5>5. l < i  BY <1>1, <2>1, <3>1, <5>4
        <5>. QED  BY <3>1, <5>4, <5>5
      <4>2. Count(c, OutBits(shape, o)) = 0  BY <4>1, CountNone
      <4>3. shape.t \in Nat
        <5>1. shape.t \in 0 .. shape.d - 1 /\ shape.d \in Nat  BY ShapeFacts
        <5>. QED  BY <5>1
      <4>. QED  BY <4>2, <4>3
    <3>4. Count(c, PB) <= shape.maxCoeff
      <4>1. \A y \in Nat : y = 2^f * a =>
              /\ Count(y + 2^f, PB) <= Count(y, PB) + 1
              /\ f \in PB /\ get(y, f) => Count(y + 2^f, PB) <= Count(y, PB)
        BY <1>4, CarryCount
      <4>2. r = 2^f * a /\ r \in Nat  BY <1>2, <2>1
      <4>3. /\ Count(c, PB) <= N + 1
            /\ f \in PB /\ get(r, f) => Count(c, PB) <= N
        BY <4>1, <4>2, Zenon DEF c, N
      <4>4. Count(c, PB) \in Nat  BY <1>4, CountFacts
      <4>. QED  BY <1>1, <1>3, <1>4, <2>1, <4>3, <4>4
    <3>. QED  BY <3>2, <3>3, <3>4 DEF Fits, n, PB
  <2>5. \E b \in Nat : c = 2^nm * b
    <3>1. f - nm \in Nat /\ nm + (f - nm) = f  BY <1>1, <2>1
    <3>2. PICK x1 \in Nat, x2 \in Nat : x1 = 2^nm /\ x2 = 2^(f - nm) /\ 2^f = x1 * x2
      BY <1>1, <3>1, PowerStep, PowerAdd
    <3>3. c = x1 * (x2 * (a + 1)) /\ x2 * (a + 1) \in Nat
      <4>1. c = (x1 * x2) * (a + 1)  BY <2>2, <3>2
      <4>. QED  BY <3>2, <4>1
    <3>. QED  BY <3>2, <3>3
  <2>6. next.more => c < 2^n /\ next.row = c  BY <2>1 DEF c
  <2>7. ASSUME ~ next.more, NEW q, Above(q) PROVE FALSE
    <3>1. ~ (c < 2^n)  BY <2>1, <2>7 DEF c
    <3>2. q \in Nat /\ q < 2^n /\ c <= q  BY <1>5, <2>3, <2>7
    <3>. QED  BY <1>2, <2>2, <3>1, <3>2
  <2>. QED  BY <2>3, <2>4, <2>5, <2>6, <2>7 DEF next, nm
<1>. QED  BY <1>8, <1>9
-----------------------------------------------------------------------------
(* A number without its low bits is a multiple, with the other bits.       *)
LEMMA ResetFacts ==
  ASSUME NEW r \in Nat, NEW k \in Nat
  PROVE  /\ r - (r % 2^k) \in Nat /\ r - (r % 2^k) <= r
         /\ \E m \in Nat : r - (r % 2^k) = 2^k * m
         /\ \A i \in Nat : i < k => ~ get(r - (r % 2^k), i)
         /\ \A i \in Nat : k <= i => (get(r - (r % 2^k), i) <=> get(r, i))
<1>. DEFINE r0 == r - (r % 2^k)
<1>1. PICK K \in Nat \ {0} : K = 2^k  BY PowerStep
<1>2. r \div K \in Nat /\ r % K \in 0 .. K - 1 /\ r = K * (r \div K) + (r % K)  BY <1>1, DivMod
<1>3. PICK a \in Nat : a = r \div K  BY <1>2
<1>4. PICK P \in Nat : P = K * a
  <2>1. \A u, v \in Nat : u * v \in Nat  OBVIOUS
  <2>. QED  BY <1>1, <1>3, <2>1
<1>5. PICK b \in Nat : b = r % K
  <2>1. \A z \in 0 .. K - 1 : z \in Nat  OBVIOUS
  <2>. QED  BY <1>2, <2>1
<1>6. r = P + b  BY <1>2, <1>3, <1>4, <1>5
<1>7. r0 = r - b  BY <1>1, <1>5
<1>8. \A i \in Nat : k <= i => (get(r0, i) <=> get(r, i))  BY ResetHigh DEF get
<1>. HIDE DEF r0
<1>9. r0 \in Nat /\ r0 <= r /\ r0 = P  BY <1>4, <1>5, <1>6, <1>7
<1>10. r0 = 2^k * a  BY <1>1, <1>4, <1>9
<1>11. \A i \in Nat : i < k => ~ get(r0, i)
  <2>1. ASSUME NEW i \in Nat, get(r0, i) PROVE k <= i
    <3>1. get(2^k * a, i)  BY <1>10, <2>1
    <3>. QED  BY <1>3, <3>1, OnesAbove
  <2>. QED  BY <2>1
<1>. QED  BY <1>3, <1>8, <1>9, <1>10, <1>11 DEF r0

(* A row that may be hashed, without its outputs.                          *)
LEMMA ResetOutputs ==
  ASSUME NEW shape \in Gadgets, NEW r, Fits(shape, r)
  PROVE  LET r0 == r - (r % 2^numMaskedOuts(shape)) IN
         /\ r \in Nat /\ Fits(shape, r0) /\ r0 <= r
         /\ \E m \in Nat : r0 = 2^numMaskedOuts(shape) * m
<1>. DEFINE n == shape.numTotOuts
            nm == numMaskedOuts(shape)
            r0 == r - (r % 2^nm)
<1>1. nm \in Nat /\ n \in Nat /\ shape.t \in Nat /\ shape.d \in Nat
  <2>1. shape.t \in 0 .. shape.d - 1  BY ShapeFacts
  <2>2. \A z \in 0 .. shape.d - 1 : z \in Nat  BY ShapeFacts
  <2>. QED  BY <2>1, <2>2, ShapeFacts
<1>2. 2^n \in Nat /\ r \in 0 .. 2^n - 1 /\ r \in Nat
  <2>1. 2^n \in Nat /\ r \in 0 .. 2^n - 1  BY <1>1, PowerStep DEF Fits
  <2>. QED  BY <2>1
<1>3. /\ r0 \in Nat /\ r0 <= r /\ \E m \in Nat : r0 = 2^nm * m
      /\ \A i \in Nat : i < nm => ~ get(r0, i)
      /\ \A i \in Nat : nm <= i => (get(r0, i) <=> get(r, i))
  BY <1>1, <1>2, ResetFacts
<1>. HIDE DEF r0, nm, n
<1>4. r0 \in 0 .. 2^n - 1  BY <1>2, <1>3
<1>5. ASSUME NEW o \in 0 .. shape.numOuts - 1 PROVE Count(r0, OutBits(shape, o)) <= shape.t
  <2>1. ASSUME NEW l \in OutBits(shape, o) PROVE ~ get(r0, l)
    <3>1. /\ o * shape.d \in Nat /\ (o + 1) * shape.d = o * shape.d + shape.d
          /\ (o + 1) * shape.d <= nm
      BY OutBitsFacts DEF nm
    <3>2. l \in o * shape.d .. (o + 1) * shape.d - 1  BY DEF OutBits
    <3>3. l \in Nat /\ l < nm  BY <1>1, <3>1, <3>2
    <3>. QED  BY <1>3, <3>3
  <2>2. Count(r0, OutBits(shape, o)) = 0  BY <2>1, CountNone
  <2>. QED  BY <1>1, <2>2
<1>6. Count(r0, ProbeBits(shape)) <= shape.maxCoeff
  <2>1. \A l \in ProbeBits(shape) : l \in Nat /\ nm <= l
    <3>1. ProbeBits(shape) \in SUBSET Nat  BY ProbeBitsFacts
    <3>2. ProbeBits(shape) = nm .. n - 1  BY DEF ProbeBits, nm, n
    <3>. QED  BY <1>1, <3>1, <3>2
  <2>2. \A l \in ProbeBits(shape) : get(r0, l) <=> get(r, l)  BY <1>3, <2>1
  <2>3. Count(r0, ProbeBits(shape)) = Count(r, ProbeBits(shape))  BY <2>2, CountSame
  <2>. QED  BY <2>3 DEF Fits
<1>7. Fits(shape, r0)  BY <1>4, <1>5, <1>6 DEF Fits, n
<1>. QED  BY <1>2, <1>3, <1>7 DEF r0, nm

(* If no output has a next combination, the next row that may be hashed is *)
(* at the next multiple or above.                                          *)
LEMMA OutputsAtTop ==
  ASSUME NEW shape \in Gadgets, NEW r, Fits(shape, r),
         \A o \in 0 .. shape.numOuts - 1 : AtTop(shape, r, o),
         NEW q, Fits(shape, q), r < q
  PROVE  (r - (r % 2^numMaskedOuts(shape))) + 2^numMaskedOuts(shape) <= q
<1>. DEFINE n == shape.numTotOuts
            nm == numMaskedOuts(shape)
            r0 == r - (r % 2^nm)
<1>1. nm \in Nat /\ r \in Nat /\ r0 <= r /\ r0 \in Nat
  <2>1. nm \in Nat  BY ShapeFacts
  <2>2. r \in Nat  BY ResetOutputs
  <2>. QED  BY <2>1, <2>2, ResetFacts
<1>2. q \in Nat  BY ResetOutputs
<1>3. PICK m \in Nat : r0 = 2^nm * m  BY <1>1, ResetFacts
<1>. HIDE DEF r0, nm
<1>4. PICK h \in Nat : /\ get(q, h) /\ ~ get(r, h) /\ q \div 2^h = r \div 2^h + 1
                       /\ \A l \in Nat : h < l => (get(q, l) <=> get(r, l))
  BY <1>1, <1>2, HighestDifference
<1>5. nm <= h
  <2>. SUFFICES ASSUME h < nm PROVE FALSE  BY <1>1
  <2>1. PICK o \in 0 .. shape.numOuts - 1 : h \in OutBits(shape, o)  BY OutputOf DEF nm
  <2>2. AtTop(shape, r, o)  OBVIOUS
  <2>3. Count(q, OutBits(shape, o)) <= shape.t  BY DEF Fits
  <2>. QED  BY <1>4, <2>1, <2>2, <2>3, NoneAboveTop
<1>6. 2^nm * m + 2^nm <= 2^h * (r \div 2^h + 1)
  <2>1. 2^nm * m <= r  BY <1>1, <1>3
  <2>. QED  BY <1>1, <1>5, <2>1, NextMultiple
<1>7. PICK P \in Nat : P = 2^h * (q \div 2^h) /\ P <= q  BY <1>2, QuotientBelow
<1>8. r0 + 2^nm <= P  BY <1>3, <1>4, <1>6, <1>7
<1>9. 2^nm \in Nat  BY <1>1, PowerStep
<1>10. r0 + 2^nm <= q  BY <1>1, <1>2, <1>7, <1>8, <1>9
<1>. QED  BY <1>10 DEF r0, nm

(* From one row that may be hashed the loop goes to the next one that may, *)
(* or ends at the last.                                                    *)
LEMMA NextAllowed ==
  ASSUME NEW shape \in Gadgets, FullOrOneWord(shape), NEW r, Fits(shape, r)
  PROVE  LET next == tryNext(shape, r)
         IN  /\ next.more => /\ Fits(shape, next.row)
                             /\ \A q : Fits(shape, q) /\ r < q => next.row <= q
             /\ ~ next.more => \A q : ~ (Fits(shape, q) /\ r < q)
<1>. DEFINE nm == numMaskedOuts(shape)
            r0 == r - (r % 2^nm)
            next == tryNext(shape, r)
<1>1. CASE shape.t # 0 /\ outLeqT(shape, r).more
  <2>1. next = outLeqT(shape, r)  BY <1>1 DEF tryNext
  <2>. HIDE DEF next
  <2>. QED  BY <1>1, <2>1, OutStep DEF next
<1>2. CASE ~ (shape.t # 0 /\ outLeqT(shape, r).more)
  <2>1. /\ \A o \in 0 .. shape.numOuts - 1 : AtTop(shape, r, o)
        /\ next = probeLeqMaxCoeff(shape, r0)
    <3>1. CASE shape.t = 0
      <4>1. ASSUME NEW o \in 0 .. shape.numOuts - 1 PROVE AtTop(shape, r, o)
        <5>1. (o + 1) * shape.d \in Int
          <6>1. o \in Int /\ shape.d \in Int  BY ShapeFacts
          <6>2. \A u, v \in Int : u * v \in Int  OBVIOUS
          <6>. QED  BY <6>1, <6>2
        <5>2. PICK e \in Int : e = (o + 1) * shape.d  BY <5>1
        <5>3. e - 0 .. e - 1 = {}  BY <5>2
        <5>. QED  BY <3>1, <5>2, <5>3 DEF AtTop
      <4>2. ASSUME NEW i \in Nat, i < nm, get(r, i) PROVE FALSE
        <5>1. PICK o \in 0 .. shape.numOuts - 1 : i \in OutBits(shape, o)  BY <4>2, OutputOf
        <5>2. IsFiniteSet(OutBits(shape, o))  BY OutBitsFacts
        <5>. DEFINE S == {j \in OutBits(shape, o) : get(r, j)}
        <5>3. IsFiniteSet(S) /\ Cardinality(S) \in Nat  BY <5>2, CountFacts DEF Count
        <5>4. Cardinality(S) <= 0  BY <3>1 DEF Fits, Count
        <5>5. i \in S  BY <4>2, <5>1
        <5>. HIDE DEF S
        <5>6. Cardinality(S) = 0  BY <5>3, <5>4
        <5>7. S = {}  BY <5>3, <5>6, FS_EmptySet
        <5>. QED  BY <5>5, <5>7
      <4>3. r \in Nat /\ nm \in Nat  BY ResetOutputs, ShapeFacts
      <4>4. r % 2^nm = 0  BY <4>2, <4>3, ZeroBelow
      <4>5. r0 = r
        <5>. HIDE DEF nm
        <5>. QED  BY <4>3, <4>4
      <4>6. next = probeLeqMaxCoeff(shape, r)  BY <3>1 DEF tryNext
      <4>. HIDE DEF r0, next
      <4>. QED  BY <4>1, <4>5, <4>6
    <3>2. CASE shape.t # 0 /\ ~ outLeqT(shape, r).more
      <4>. DEFINE open == {o \in 0 .. shape.numOuts - 1 : ~ AtTop(shape, r, o)}
      <4>1. open = {}  BY <3>2 DEF outLeqT
      <4>2. outLeqT(shape, r).row = r0  BY <4>1 DEF outLeqT, numMaskedOuts
      <4>3. next = probeLeqMaxCoeff(shape, r0)  BY <3>2, <4>2 DEF tryNext
      <4>. HIDE DEF r0, next
      <4>. QED  BY <4>1, <4>3
    <3>. QED  BY <1>2, <3>1, <3>2
  <2>. HIDE DEF next
  <2>2. /\ Fits(shape, r0)
        /\ \E m \in Nat : r0 = 2^nm * m
    BY ResetOutputs
  <2>3. \A q : Fits(shape, q) /\ r < q => r0 + 2^nm <= q  BY <2>1, OutputsAtTop
  <2>. HIDE DEF r0
  <2>4. PICK m \in Nat : r0 = 2^nm * m  BY <2>2
  <2>5. /\ next.more => /\ Fits(shape, next.row)
                        /\ \A q : Fits(shape, q) /\ r0 + 2^nm <= q => next.row <= q
        /\ ~ next.more => \A q : ~ (Fits(shape, q) /\ r0 + 2^nm <= q)
    BY <2>1, <2>2, <2>4, ProbeStep
  <2>. QED  BY <2>3, <2>5 DEF next
<1>. QED  BY <1>1, <1>2
-----------------------------------------------------------------------------
(* The rows that EveryRowHashed counts are those that may be hashed.       *)
LEMMA AllowedAre ==
  ASSUME g \in Gadgets
  PROVE  Allowed = {r \in Wire(g) : Fits(g, r)}
<1>1. ASSUME NEW r \in Wire(g)
      PROVE  {i \in Ones(g, r) : i >= numMaskedOuts(g)} = {i \in ProbeBits(g) : get(r, i)}
  <2>1. Ones(g, r) = {i \in 0 .. g.numTotOuts - 1 : get(r, i)}  BY OnesAre DEF Wire
  <2>2. numMaskedOuts(g) \in Nat /\ g.numTotOuts \in Nat  BY ShapeFacts
  <2>3. \A i \in 0 .. g.numTotOuts - 1 :
          i >= numMaskedOuts(g) <=> i \in numMaskedOuts(g) .. g.numTotOuts - 1
    BY <2>2
  <2>4. numMaskedOuts(g) .. g.numTotOuts - 1 \subseteq 0 .. g.numTotOuts - 1  BY <2>2
  <2>. QED  BY <2>1, <2>3, <2>4 DEF ProbeBits
<1>2. ASSUME NEW r \in Wire(g)
      PROVE  r \in Allowed <=> Fits(g, r)
  BY <1>1 DEF Allowed, Fits, Count, Wire
<1>3. Allowed \subseteq Wire(g)  BY DEF Allowed, Wire
<1>. QED  BY <1>2, <1>3

(* The row without wires may be hashed, and has neither outputs nor probes. *)
LEMMA ZeroFits ==
  ASSUME NEW shape \in Gadgets
  PROVE  /\ Fits(shape, 0) /\ \A i \in Nat : ~ get(0, i)
         /\ \E m \in Nat : 0 = 2^numMaskedOuts(shape) * m
<1>1. ASSUME NEW i \in Nat PROVE ~ get(0, i)
  <2>1. PICK I \in Nat \ {0} : I = 2^i  BY PowerStep
  <2>2. I * 0 + 0 = 0 /\ 0 \in 0 .. I - 1  BY <2>1
  <2>3. (I * 0 + 0) \div I = 0  BY <2>1, <2>2, ModUnique
  <2>4. 0 \div I = 0  BY <2>2, <2>3
  <2>. QED  BY <2>1, <2>4 DEF get
<1>2. ASSUME NEW o \in 0 .. shape.numOuts - 1 PROVE Count(0, OutBits(shape, o)) <= shape.t
  <2>1. OutBits(shape, o) \in SUBSET Nat  BY OutBitsFacts
  <2>2. Count(0, OutBits(shape, o)) = 0  BY <1>1, <2>1, CountNone
  <2>3. \A z \in 0 .. shape.d - 1 : 0 <= z  BY ShapeFacts
  <2>. QED  BY <2>2, <2>3, ShapeFacts
<1>3. Count(0, ProbeBits(shape)) <= shape.maxCoeff
  <2>1. Count(0, ProbeBits(shape)) = 0  BY <1>1, ProbeBitsFacts, CountNone
  <2>2. shape.maxCoeff \in Nat  BY ShapeFacts
  <2>. QED  BY <2>1, <2>2
<1>4. 0 \in 0 .. 2^shape.numTotOuts - 1  BY WireFacts DEF Wire
<1>5. 0 = 2^numMaskedOuts(shape) * 0
  <2>1. PICK N \in Nat : N = 2^numMaskedOuts(shape)  BY ShapeFacts, PowerStep
  <2>2. N * 0 = 0  OBVIOUS
  <2>. QED  BY <2>1, <2>2
<1>. QED  BY <1>1, <1>2, <1>3, <1>4, <1>5 DEF Fits

(* The rows that are hashed are all that may be, up to the one the first   *)
(* pass is at.                                                             *)
AllSoFar ==
  /\ pc = "hash" => Fits(g, curr)
  /\ rows = {r \in Wire(g) : Fits(g, r) /\ (pc = "hash" => r < curr)}

(* At first nothing is hashed.                                             *)
LEMMA InitAll == Init => AllSoFar
<1>. SUFFICES ASSUME Init PROVE AllSoFar  OBVIOUS
<1>1. g \in Gadgets /\ pc = "hash" /\ curr = 0 /\ rows = {}  BY DEF Init, PassesInit
<1>2. \A r \in Wire(g) : ~ (r < 0)
  <2>1. \A r \in Wire(g) : r \in Nat  BY <1>1, WireFacts
  <2>. QED  BY <2>1
<1>. QED  BY <1>1, <1>2, ZeroFits DEF AllSoFar

(* The step from a row to the next leaves none out that may be hashed.     *)
LEMMA HashRowAll ==
  ASSUME \A shape \in Gadgets : FullOrOneWord(shape)
  PROVE  RowsInv /\ AllSoFar /\ HashRow => AllSoFar'
<1>. SUFFICES ASSUME RowsInv, AllSoFar, HashRow PROVE AllSoFar'  OBVIOUS
<1>. DEFINE next == tryNext(g, curr)
<1>1. pc = "hash" /\ rows' = rows \cup {curr} /\ g' = g /\ GoOn("info")  BY DEF HashRow
<1>2. /\ g \in Gadgets /\ Fits(g, curr) /\ curr \in Wire(g)
      /\ rows = {r \in Wire(g) : Fits(g, r) /\ r < curr}
      /\ \A r \in Wire(g) : r \in Nat
  BY <1>1, WireFacts DEF RowsInv, AllSoFar, Hashing
<1>3. /\ next.more => /\ Fits(g, next.row)
                      /\ \A q : Fits(g, q) /\ curr < q => next.row <= q
      /\ ~ next.more => \A q : ~ (Fits(g, q) /\ curr < q)
  BY <1>2, NextAllowed
<1>4. CASE next.more
  <2>1. curr' = next.row /\ pc' = "hash"  BY <1>1, <1>4 DEF GoOn
  <2>2. curr < curr' /\ curr' \in Nat
    <3>1. curr' \in curr + 1 .. 2^g.numTotOuts - 1
      <4>1. curr \in 0 .. 2^g.numTotOuts - 1  BY <1>2 DEF Wire
      <4>. QED  BY <1>2, <1>4, <2>1, <4>1, TryNextIncreases
    <3>2. curr \in Nat  BY <1>2
    <3>. QED  BY <3>1, <3>2
  <2>. HIDE DEF next
  <2>3. ASSUME NEW r \in Wire(g), Fits(g, r) PROVE r < curr' <=> r < curr \/ r = curr
    <3>1. r \in Nat /\ curr \in Nat  BY <1>2
    <3>2. curr < r => curr' <= r  BY <1>3, <1>4, <2>1, <2>3
    <3>. QED  BY <2>2, <3>1, <3>2
  <2>4. rows' = {r \in Wire(g) : Fits(g, r) /\ r < curr'}  BY <1>1, <1>2, <2>3
  <2>5. Fits(g, curr')  BY <1>3, <1>4, <2>1
  <2>. QED  BY <1>1, <2>1, <2>4, <2>5 DEF AllSoFar, Fits, Wire, Count, OutBits, ProbeBits, numMaskedOuts
<1>5. CASE ~ next.more
  <2>1. pc' = "info"  BY <1>1, <1>5 DEF GoOn
  <2>. HIDE DEF next
  <2>2. ASSUME NEW r \in Wire(g), Fits(g, r) PROVE r < curr \/ r = curr
    <3>1. r \in Nat /\ curr \in Nat  BY <1>2
    <3>2. ~ (curr < r)  BY <1>3, <1>5, <2>2
    <3>. QED  BY <3>1, <3>2
  <2>3. rows' = {r \in Wire(g) : Fits(g, r)}  BY <1>1, <1>2, <2>2
  <2>. QED  BY <1>1, <2>1, <2>3 DEF AllSoFar, Fits, Wire, Count, OutBits, ProbeBits, numMaskedOuts
<1>. QED  BY <1>4, <1>5

(* No step after the first pass changes the rows.                          *)
LEMMA NextAll ==
  ASSUME \A shape \in Gadgets : FullOrOneWord(shape)
  PROVE  RowsInv /\ AllSoFar /\ [Next]_vars => AllSoFar'
<1>. SUFFICES ASSUME RowsInv, AllSoFar, [Next]_vars PROVE AllSoFar'  OBVIOUS
<1>1. CASE HashRow  BY <1>1, HashRowAll
<1>2. CASE UNCHANGED vars
  BY <1>2 DEF vars, passVars, AllSoFar, Fits, Wire, Count, OutBits, ProbeBits, numMaskedOuts
<1>3. CASE ~ HashRow /\ ~ UNCHANGED vars
  <2>1. g' = g /\ rows' = rows /\ pc # "hash" /\ pc' # "hash"
    <3>1. CASE GetInfo  BY <3>1 DEF GetInfo
    <3>2. CASE ClassifyRow  BY <3>2 DEF ClassifyRow, GoOn
    <3>3. CASE FillMaps  BY <3>3 DEF FillMaps
    <3>4. CASE StartThreads  BY <3>4 DEF StartThreads
    <3>5. CASE \E t \in Thread : CalculateClass(t)  BY <3>5 DEF CalculateClass, passVars
    <3>6. CASE JoinThreads  BY <3>6 DEF JoinThreads
    <3>7. CASE SkipOutputs  BY <3>7 DEF SkipOutputs, NextAlternative
    <3>8. CASE AddProbes  BY <3>8 DEF AddProbes
    <3>9. CASE MergeAlternative  BY <3>9 DEF MergeAlternative, NextAlternative
    <3>10. CASE AddCombinations  BY <3>10 DEF AddCombinations
    <3>11. CASE AboveMaxCoeff  BY <3>11 DEF AboveMaxCoeff
    <3>. QED
      BY <1>3, <3>1, <3>2, <3>3, <3>4, <3>5, <3>6, <3>7, <3>8, <3>9, <3>10, <3>11
      DEF Next, Main, Passes
  <2>. QED  BY <2>1 DEF AllSoFar, Fits, Wire, Count, OutBits, ProbeBits, numMaskedOuts
<1>. QED  BY <1>1, <1>2, <1>3

(* After the first pass exactly the rows are hashed that the definition of *)
(* the properties asks for (row.c, rowHashed.c), of a gadget with any      *)
(* number of wires that fills its last word or has only one.               *)
THEOREM AllRowsAreHashed ==
  ASSUME \A shape \in Gadgets : FullOrOneWord(shape)
  PROVE  Spec => []EveryRowHashed
<1>1. RowsInv /\ AllSoFar => EveryRowHashed
  <2>. SUFFICES ASSUME RowsInv, AllSoFar, pc = "info" PROVE rows = Allowed  BY DEF EveryRowHashed
  <2>1. g \in Gadgets /\ rows = {r \in Wire(g) : Fits(g, r)}  BY DEF RowsInv, AllSoFar
  <2>. QED  BY <2>1, AllowedAre
<1>2. RowsInv /\ AllSoFar /\ [Next]_vars => AllSoFar'  BY NextAll
<1>3. RowsInv /\ [Next]_vars => RowsInv'  BY NextRows
<1>. QED  BY <1>1, <1>2, <1>3, InitRows, InitAll, PTL DEF Spec
-----------------------------------------------------------------------------
(* The number with some bits is the sum of their values.                   *)
LEMMA NumSum ==
  ASSUME NEW S \in SUBSET Nat, IsFiniteSet(S)
  PROVE  Num(S) = Total([i \in Nat |-> 2^i], S)
<1>. DEFINE w == [i \in Nat |-> 2^i]
            it == CHOOSE h : h = [s \in SUBSET S |->
                    IF s = {} THEN 0 ELSE h[s \ {Chosen(s)}] + 2^Chosen(s)]
<1>1. \A i \in S : w[i] \in Int /\ w[i] = 2^i
  <2>. TAKE i \in S
  <2>1. 2^i \in Nat  BY PowerStep
  <2>. QED  BY <2>1
<1>. HIDE DEF w
<1>2. PICK f \in [SUBSET S -> Int] : IsSum(w, S, f) /\ Total(w, S) = f[S]  BY <1>1, TotalIs
<1>3. ASSUME NEW s \in SUBSET S, s # {}
      PROVE  f[s] = f[s \ {Chosen(s)}] + 2^Chosen(s)
  <2>1. Chosen(s) \in s /\ Chosen(s) \in S /\ s \ {Chosen(s)} \in SUBSET S  BY <1>3 DEF Chosen
  <2>2. f[s] = w[Chosen(s)] + f[s \ {Chosen(s)}]  BY <1>2, <1>3 DEF IsSum, SumStep
  <2>3. PICK y \in Int : y = f[s \ {Chosen(s)}]  BY <1>2, <2>1
  <2>4. PICK z \in Int : z = w[Chosen(s)] /\ z = 2^Chosen(s)  BY <1>1, <2>1
  <2>5. f[s] = z + y  BY <2>2, <2>3, <2>4
  <2>6. z + y = y + z  OBVIOUS
  <2>. QED  BY <2>3, <2>4, <2>5, <2>6, Zenon
<1>4. f[{}] = 0  BY <1>2 DEF IsSum, SumStep
<1>5. f = [s \in SUBSET S |-> IF s = {} THEN 0 ELSE f[s \ {Chosen(s)}] + 2^Chosen(s)]
  BY <1>2, <1>3, <1>4
<1>6. it = [s \in SUBSET S |-> IF s = {} THEN 0 ELSE it[s \ {Chosen(s)}] + 2^Chosen(s)]
  BY <1>5
<1>7. Num(S) = it[S]  BY DEF Num, FoldSet, MapThenFoldSet, Chosen
<1>. HIDE DEF it
<1>8. \A s \in SUBSET S : it[s] = IF s = {} THEN 0 ELSE it[s \ {Chosen(s)}] + 2^Chosen(s)
  BY <1>6, Zenon
<1>. DEFINE Bad == {s \in SUBSET S : it[s] # f[s]}
<1>9. Bad = {}
  <2>. SUFFICES ASSUME Bad # {} PROVE FALSE  OBVIOUS
  <2>1. PICK s \in Bad : \A x1 \in s : s \ {x1} \notin Bad  BY SmallestSet
  <2>2. s # {}  BY <1>4, <1>8
  <2>3. Chosen(s) \in s /\ s \ {Chosen(s)} \in SUBSET S  BY <2>2 DEF Chosen
  <2>4. it[s \ {Chosen(s)}] = f[s \ {Chosen(s)}]  BY <2>1, <2>3
  <2>. QED  BY <1>3, <1>8, <2>2, <2>4
<1>10. it[S] = f[S]  BY <1>9
<1>. QED  BY <1>2, <1>7, <1>10 DEF w

(* What has no bit from n on is below 2^n.                                 *)
LEMMA BitsBelow ==
  ASSUME NEW r \in Nat, NEW n \in Nat, \A i \in Nat : get(r, i) => i < n
  PROVE  r < 2^n
<1>1. PICK N \in Nat \ {0} : N = 2^n  BY PowerStep
<1>2. ASSUME N <= r PROVE FALSE
  <2>1. r \div N \in Nat /\ (r \div N < 1 <=> r < N * 1)
    BY <1>1, DivMod, DivBelow
  <2>2. PICK a \in Nat : a = r \div N /\ 0 < a  BY <1>1, <1>2, <2>1
  <2>3. PICK i \in Nat : get(a, i)  BY <2>2, HighestDifference
  <2>4. get(r, n + i)
    <3>1. PICK I \in Nat \ {0} : I = 2^i  BY PowerStep
    <3>2. 2^(n + i) = N * I  BY <1>1, <3>1, PowerAdd
    <3>3. (r \div N) \div I = r \div (N * I)  BY <1>1, <3>1, DivDiv
    <3>. QED  BY <2>2, <2>3, <3>1, <3>2, <3>3 DEF get
  <2>5. n + i < n  BY <2>4
  <2>. QED  BY <2>5
<1>. QED  BY <1>1, <1>2

(* And those bits are its ones.                                            *)
LEMMA NumBits ==
  ASSUME NEW S \in SUBSET Nat, IsFiniteSet(S)
  PROVE  Num(S) \in Nat /\ \A i \in Nat : get(Num(S), i) <=> i \in S
<1>. DEFINE w == [i \in Nat |-> 2^i]
            v(T) == Total(w, T)
            Good(T) == v(T) \in Nat /\ \A i \in Nat : get(v(T), i) <=> i \in T
            Bad == {T \in SUBSET S : ~ Good(T)}
<1>1. \A i \in Nat : w[i] \in Nat \ {0} /\ w[i] = 2^i
  <2>. TAKE i \in Nat
  <2>1. 2^i \in Nat \ {0}  BY PowerStep
  <2>. QED  BY <2>1
<1>. HIDE DEF w
<1>2. Bad = {}
  <2>. SUFFICES ASSUME Bad # {} PROVE FALSE  OBVIOUS
  <2>1. PICK T \in Bad : \A x1 \in T : T \ {x1} \notin Bad
    <3>. HIDE DEF Good
    <3>. QED  BY SmallestSet
  <2>2. T \in SUBSET S /\ IsFiniteSet(T) /\ T \in SUBSET Nat /\ ~ Good(T)
    <3>. HIDE DEF Good
    <3>. QED  BY <2>1, FS_Subset
  <2>3. /\ T = {} => v(T) = 0
        /\ \A x1 \in T : v(T) = w[x1] + v(T \ {x1})
    <3>1. \A i \in T : w[i] \in Int  BY <1>1, <2>2
    <3>. QED  BY <2>2, <3>1, SumRemove
  <2>. HIDE DEF v
  <2>4. CASE T = {}
    <3>1. ASSUME NEW i \in Nat PROVE ~ get(0, i)
      <4>1. PICK I \in Nat \ {0} : I = 2^i  BY PowerStep
      <4>2. I * 0 + 0 = 0 /\ 0 \in 0 .. I - 1  BY <4>1
      <4>3. (I * 0 + 0) \div I = 0  BY <4>1, <4>2, ModUnique
      <4>4. 0 \div I = 0  BY <4>2, <4>3
      <4>. QED  BY <4>1, <4>4 DEF get
    <3>. QED  BY <2>2, <2>3, <2>4, <3>1
  <2>5. CASE T # {}
    <3>. DEFINE k == Min(T)
    <3>1. k \in T /\ k \in Nat /\ \A i \in T : k <= i  BY <2>2, <2>5, MinOfNaturals
    <3>. HIDE DEF k
    <3>. DEFINE U == T \ {k}
    <3>2. Good(U)
      <4>1. U \in SUBSET S /\ U \notin Bad  BY <2>1, <2>2, <3>1
      <4>. HIDE DEF Good, U
      <4>. QED  BY <4>1
    <3>3. PICK R \in Nat : R = v(U) /\ v(T) = R + 2^k
      <4>1. v(T) = w[k] + v(U)  BY <2>3, <3>1
      <4>2. v(U) \in Nat  BY <3>2
      <4>. HIDE DEF U
      <4>3. w[k] = 2^k /\ w[k] \in Nat  BY <1>1, <3>1
      <4>. QED  BY <4>1, <4>2, <4>3
    <3>4. \A i \in Nat : get(R, i) <=> i \in U  BY <3>2, <3>3
    <3>5. PICK m \in Nat : R = 2^k * m
      <4>1. \A i \in Nat : i < k => ~ get(R, i)
        <5>. SUFFICES ASSUME NEW i \in Nat, i < k, i \in T PROVE FALSE  BY <3>4
        <5>. QED  BY <3>1
      <4>. QED  BY <3>1, <4>1, ZeroBelow
    <3>6. \A y \in Nat : y = 2^k * m =>
            \E i \in Nat : /\ k <= i /\ get(y + 2^k, i)
                           /\ \A l \in Nat : l < i => ~ get(y + 2^k, l)
                           /\ \A l \in Nat : i < l => (get(y + 2^k, l) <=> get(y, l))
                           /\ \A l \in Nat : k <= l /\ ~ get(y, l) => i <= l
      BY <3>1, Carry
    <3>7. PICK i \in Nat : /\ k <= i /\ get(R + 2^k, i)
                           /\ \A l \in Nat : l < i => ~ get(R + 2^k, l)
                           /\ \A l \in Nat : i < l => (get(R + 2^k, l) <=> get(R, l))
                           /\ \A l \in Nat : k <= l /\ ~ get(R, l) => i <= l
      <4>1. R \in Nat  OBVIOUS
      <4>. QED  BY <3>5, <3>6, <4>1, ZenonT(30)
    <3>8. i = k
      <4>1. ~ get(R, k)  BY <3>1, <3>4
      <4>. QED  BY <3>1, <3>7, <4>1
    <3>9. \A l \in Nat : get(v(T), l) <=> l \in T
      <4>. SUFFICES ASSUME NEW l \in Nat PROVE get(R + 2^k, l) <=> l \in T  BY <3>3
      <4>1. CASE l < k  BY <3>1, <3>7, <3>8, <4>1
      <4>2. CASE l = k  BY <3>1, <3>7, <3>8, <4>2
      <4>3. CASE k < l  BY <3>4, <3>7, <3>8, <4>3
      <4>. QED  BY <3>1, <4>1, <4>2, <4>3
    <3>10. v(T) \in Nat
      <4>1. 2^k \in Nat  BY <3>1, PowerStep
      <4>. QED  BY <3>3, <4>1
    <3>. QED  BY <2>2, <3>9, <3>10
  <2>. QED  BY <2>4, <2>5
<1>3. Good(S)
  <2>. HIDE DEF Good
  <2>. QED  BY <1>2
<1>4. Num(S) = v(S)  BY NumSum DEF w
<1>. HIDE DEF v
<1>. QED  BY <1>3, <1>4
-----------------------------------------------------------------------------
(* Numbers with the same bits are the same.                                *)
LEMMA SameBits ==
  ASSUME NEW r \in Nat, NEW q \in Nat, \A i \in Nat : get(r, i) <=> get(q, i)
  PROVE  r = q
<1>1. ~ (r < q)
  <2>. SUFFICES ASSUME r < q PROVE FALSE  OBVIOUS
  <2>1. PICK i \in Nat : get(q, i) /\ ~ get(r, i)  BY HighestDifference
  <2>. QED  BY <2>1
<1>2. ~ (q < r)
  <2>. SUFFICES ASSUME q < r PROVE FALSE  OBVIOUS
  <2>1. PICK i \in Nat : get(r, i) /\ ~ get(q, i)  BY HighestDifference
  <2>. QED  BY <2>1
<1>. QED  BY <1>1, <1>2

(* The subrows of a row.                                                   *)
Below(shape, row) == {s \in 0 .. row : Ones(shape, s) \subseteq Ones(shape, row)}

(* The loop over the subrows goes up, and from subrow to subrow.           *)
LEMMA SubrowNext ==
  ASSUME NEW shape \in Gadgets, NEW row \in Wire(shape), NEW sub \in 0 .. row,
         tryNext_subrow(shape, row, sub).more
  PROVE  /\ tryNext_subrow(shape, row, sub).row \in sub + 1 .. row
         /\ sub \in Below(shape, row) => tryNext_subrow(shape, row, sub).row \in Below(shape, row)
<1>. DEFINE n == shape.numTotOuts
            zeros == Ones(shape, row) \ Ones(shape, sub)
            l == Min(zeros)
            r0 == sub - (sub % 2^l)
            c == tryNext_subrow(shape, row, sub).row
<1>1. n \in Nat /\ 2^n \in Nat /\ row \in Nat /\ row < 2^n /\ sub \in Nat /\ sub <= row
  <2>1. n \in Nat /\ 2^n \in Nat  BY ShapeFacts, PowerStep
  <2>2. row \in 0 .. 2^n - 1  BY DEF Wire
  <2>. HIDE DEF n
  <2>. QED  BY <2>1, <2>2
<1>2. \A y \in 0 .. row : /\ Ones(shape, y) = {i \in 0 .. n - 1 : get(y, i)}
                          /\ Ones(shape, y) \in SUBSET Nat /\ y \in Nat
  <2>. SUFFICES ASSUME NEW y \in 0 .. row
                PROVE  /\ Ones(shape, y) = {i \in 0 .. n - 1 : get(y, i)}
                       /\ Ones(shape, y) \in SUBSET Nat /\ y \in Nat
    OBVIOUS
  <2>1. y \in 0 .. 2^shape.numTotOuts - 1 /\ y \in Nat  BY <1>1
  <2>. QED  BY <2>1, OnesAre
<1>3. zeros # {} /\ c = r0 + 2^l
  BY DEF tryNext_subrow
<1>4. zeros = {i \in 0 .. n - 1 : get(row, i) /\ ~ get(sub, i)} /\ zeros \in SUBSET Nat
  <2>1. row \in 0 .. row  BY <1>1
  <2>. QED  BY <1>2, <2>1
<1>. HIDE DEF zeros, n
<1>5. l \in Nat /\ l \in 0 .. n - 1 /\ get(row, l) /\ ~ get(sub, l) /\ \A i \in zeros : l <= i
  <2>1. l \in zeros /\ \A i \in zeros : l <= i  BY <1>3, <1>4, MinOfNaturals
  <2>. QED  BY <1>4, <2>1
<1>. HIDE DEF l
<1>6. /\ r0 \in Nat /\ r0 <= sub /\ \E m \in Nat : r0 = 2^l * m
      /\ \A i \in Nat : i < l => ~ get(r0, i)
      /\ \A i \in Nat : l <= i => (get(r0, i) <=> get(sub, i))
  BY <1>1, <1>5, ResetFacts
<1>7. sub < r0 + 2^l
  <2>1. PICK L \in Nat \ {0} : L = 2^l  BY <1>5, PowerStep
  <2>2. sub % L \in 0 .. L - 1  BY <1>1, <2>1, DivMod
  <2>. QED  BY <1>1, <2>1, <2>2
<1>. HIDE DEF r0
<1>8. PICK m \in Nat : r0 = 2^l * m  BY <1>6
<1>9. 2^l \in Nat  BY <1>5, PowerStep
<1>. HIDE DEF c
<1>10. c \in Nat /\ sub < c  BY <1>3, <1>6, <1>7, <1>9
<1>11. c <= row
  <2>1. sub < row  BY <1>1, <1>5
  <2>2. PICK h \in Nat : get(row, h) /\ ~ get(sub, h) /\ row \div 2^h = sub \div 2^h + 1
    BY <1>1, <2>1, HighestDifference
  <2>3. h < n  BY <1>1, <2>2, OnesBelow
  <2>4. l <= h
    <3>1. h \in zeros  BY <1>1, <1>4, <2>2, <2>3
    <3>. QED  BY <1>5, <3>1
  <2>5. 2^l * m + 2^l <= 2^h * (sub \div 2^h + 1)
    <3>1. 2^l * m <= sub  BY <1>6, <1>8
    <3>. QED  BY <1>1, <1>5, <2>4, <3>1, NextMultiple
  <2>6. PICK P \in Nat : P = 2^h * (row \div 2^h) /\ P <= row  BY <1>1, QuotientBelow
  <2>7. c <= P  BY <1>3, <1>8, <2>2, <2>5, <2>6
  <2>. QED  BY <1>1, <1>10, <2>6, <2>7
<1>12. ASSUME sub \in Below(shape, row) PROVE c \in Below(shape, row)
  <2>1. \A y \in Nat : y = 2^l * m =>
          \E i \in Nat : /\ l <= i
                         /\ \A k \in Nat : k < i => ~ get(y + 2^l, k)
                         /\ \A k \in Nat : i < k => (get(y + 2^l, k) <=> get(y, k))
                         /\ \A k \in Nat : l <= k /\ ~ get(y, k) => i <= k
    BY <1>5, Carry
  <2>2. r0 \in Nat  BY <1>6
  <2>3. PICK i \in Nat : /\ l <= i
                         /\ \A k \in Nat : k < i => ~ get(c, k)
                         /\ \A k \in Nat : i < k => (get(c, k) <=> get(r0, k))
                         /\ \A k \in Nat : l <= k /\ ~ get(r0, k) => i <= k
    BY <1>3, <1>8, <2>1, <2>2, ZenonT(30)
  <2>4. i = l
    <3>1. ~ get(r0, l)  BY <1>5, <1>6
    <3>. QED  BY <1>5, <2>3, <3>1
  <2>5. c \in 0 .. row /\ row \in 0 .. row  BY <1>1, <1>10, <1>11
  <2>6. ASSUME NEW k \in Ones(shape, c) PROVE k \in Ones(shape, row)
    <3>1. k \in 0 .. n - 1 /\ get(c, k)  BY <1>2, <2>5, <2>6
    <3>2. k \in Nat  BY <1>1, <3>1
    <3>3. CASE k = l  BY <1>2, <1>5, <2>5, <3>3
    <3>4. CASE k # l
      <4>1. ~ (k < i)  BY <2>3, <3>1, <3>2
      <4>2. l < k  BY <1>5, <2>4, <3>2, <3>4, <4>1
      <4>3. get(sub, k)  BY <1>6, <2>3, <2>4, <3>1, <3>2, <4>2, <1>5
      <4>4. k \in Ones(shape, sub)  BY <1>2, <3>1, <4>3
      <4>. QED  BY <1>12, <4>4 DEF Below
    <3>. QED  BY <3>3, <3>4
  <2>. QED  BY <2>5, <2>6 DEF Below
<1>13. c \in sub + 1 .. row  BY <1>1, <1>10, <1>11
<1>. QED  BY <1>12, <1>13 DEF c

(* The loop over the subrows, as the function of where it is.              *)
SubStep(shape, row, s, f) ==
  <<s>> \o (IF tryNext_subrow(shape, row, s).more THEN f[tryNext_subrow(shape, row, s).row] ELSE <<>>)

(* The loop is defined by itself.                                          *)
LEMMA SubRowsLoop ==
  ASSUME NEW shape \in Gadgets, NEW row \in Wire(shape)
  PROVE  \E f : /\ \A s \in 0 .. row : f[s] = SubStep(shape, row, s, f)
                /\ SubRows(shape, row) = f[0]
<1>. DEFINE More(s) == tryNext_subrow(shape, row, s).more
            Nx(s) == tryNext_subrow(shape, row, s).row
            Step(s, f) == SubStep(shape, row, s, f)
            D(k) == {s \in 0 .. row : row < s + k}
            T == {k \in Nat : \E f : f = [s \in D(k) |-> Step(s, f)]}
            Loop == CHOOSE f : f = [s \in 0 .. row |-> Step(s, f)]
<1>1. row \in Nat  BY WireFacts
<1>2. \A s \in 0 .. row : More(s) => Nx(s) \in s + 1 .. row  BY SubrowNext
<1>4. ASSUME NEW s, NEW f, NEW h, More(s) => f[Nx(s)] = h[Nx(s)] PROVE Step(s, f) = Step(s, h)
  BY <1>4 DEF SubStep
<1>5. SubRows(shape, row) = Loop[0]  BY DEF SubRows, SubStep
<1>. HIDE DEF More, Nx, Step
<1>6. 0 \in T
  <2>1. D(0) = {}  BY <1>1
  <2>. DEFINE f == [s \in {} |-> 0]
  <2>2. f = [s \in D(0) |-> Step(s, f)]  BY <2>1
  <2>. QED  BY <2>2
<1>7. ASSUME NEW k \in T PROVE k + 1 \in T
  <2>1. PICK f : f = [s \in D(k) |-> Step(s, f)]  OBVIOUS
  <2>. DEFINE h == [s \in D(k + 1) |-> IF s \in D(k) THEN f[s] ELSE Step(s, f)]
  <2>2. \A s \in D(k) : s \in D(k + 1)  BY <1>1
  <2>3. \A s \in D(k + 1) : More(s) => Nx(s) \in D(k)
    <3>. SUFFICES ASSUME NEW s \in D(k + 1), More(s) PROVE Nx(s) \in D(k)  OBVIOUS
    <3>1. Nx(s) \in s + 1 .. row  BY <1>2
    <3>. QED  BY <1>1, <3>1
  <2>4. \A s \in D(k + 1) : Step(s, h) = Step(s, f)
    <3>. SUFFICES ASSUME NEW s \in D(k + 1) PROVE Step(s, h) = Step(s, f)  OBVIOUS
    <3>1. More(s) => h[Nx(s)] = f[Nx(s)]  BY <2>2, <2>3
    <3>. QED  BY <1>4, <3>1
  <2>5. \A s \in D(k + 1) : h[s] = Step(s, h)
    <3>. SUFFICES ASSUME NEW s \in D(k + 1) PROVE h[s] = Step(s, h)  OBVIOUS
    <3>1. CASE s \in D(k)
      <4>1. f[s] = Step(s, f)  BY <2>1, <3>1
      <4>. QED  BY <2>4, <3>1, <4>1
    <3>2. CASE s \notin D(k)  BY <2>4, <3>2
    <3>. QED  BY <3>1, <3>2
  <2>6. h = [s \in D(k + 1) |-> Step(s, h)]  BY <2>5
  <2>. HIDE DEF h, D
  <2>7. \E e : e = [s \in D(k + 1) |-> Step(s, e)]  BY <2>6
  <2>8. k + 1 \in Nat  OBVIOUS
  <2>. QED  BY <2>7, <2>8
<1>8. row + 1 \in T
  <2>1. T \in SUBSET Nat  OBVIOUS
  <2>. HIDE DEF T
  <2>2. T = Nat  BY <1>6, <1>7, <2>1, AllNaturals
  <2>. QED  BY <1>1, <2>2
<1>9. D(row + 1) = 0 .. row  BY <1>1
<1>10. PICK f : f = [s \in 0 .. row |-> Step(s, f)]  BY <1>8, <1>9
<1>11. Loop = [s \in 0 .. row |-> Step(s, Loop)]  BY <1>10
<1>. HIDE DEF Loop
<1>12. \A s \in 0 .. row : Loop[s] = Step(s, Loop)  BY <1>11, Zenon
<1>. QED  BY <1>5, <1>12 DEF Step

(* It visits only subrows, and none twice.                                 *)
LEMMA SubRowsFacts ==
  ASSUME NEW shape \in Gadgets, NEW row \in Wire(shape)
  PROVE  /\ SubRows(shape, row) \in Seq(Below(shape, row))
         /\ IsFiniteSet(Below(shape, row))
         /\ Len(SubRows(shape, row)) <= Cardinality(Below(shape, row))
<1>. DEFINE B == Below(shape, row)
            More(s) == tryNext_subrow(shape, row, s).more
            Nx(s) == tryNext_subrow(shape, row, s).row
            Onward(s) == {y \in B : s <= y}
<1>1. PICK f : /\ \A s \in 0 .. row : f[s] = SubStep(shape, row, s, f)
               /\ SubRows(shape, row) = f[0]
  BY SubRowsLoop
<1>2. row \in Nat  BY WireFacts
<1>3. B \in SUBSET (0 .. row) /\ B \in SUBSET Nat /\ IsFiniteSet(B)
  <2>1. B \in SUBSET (0 .. row)  BY DEF Below
  <2>2. IsFiniteSet(0 .. row)  BY <1>2, FS_Interval
  <2>3. \A y \in 0 .. row : y \in Nat  OBVIOUS
  <2>. HIDE DEF B
  <2>. QED  BY <2>1, <2>2, <2>3, FS_Subset
<1>4. \A s \in 0 .. row : f[s] = <<s>> \o (IF More(s) THEN f[Nx(s)] ELSE <<>>)
  BY <1>1 DEF SubStep
<1>5. \A s \in B : More(s) => Nx(s) \in B /\ s < Nx(s)
  <2>. SUFFICES ASSUME NEW s \in B, More(s) PROVE Nx(s) \in B /\ s < Nx(s)  OBVIOUS
  <2>1. s \in 0 .. row /\ s \in Nat  BY <1>3
  <2>2. Nx(s) \in s + 1 .. row /\ Nx(s) \in B  BY <2>1, SubrowNext
  <2>. HIDE DEF B, Nx, More
  <2>. QED  BY <1>2, <2>1, <2>2
<1>. HIDE DEF B, More, Nx
<1>6. \A s \in B : IsFiniteSet(Onward(s)) /\ Cardinality(Onward(s)) \in Nat
  <2>. SUFFICES ASSUME NEW s \in B PROVE IsFiniteSet(Onward(s)) /\ Cardinality(Onward(s)) \in Nat
    OBVIOUS
  <2>1. Onward(s) \in SUBSET B  OBVIOUS
  <2>. HIDE DEF Onward
  <2>. QED  BY <1>3, <2>1, FS_Subset, FS_CardinalityType
<1>. DEFINE Right(s) == f[s] \in Seq(B) /\ Len(f[s]) <= Cardinality(Onward(s))
            T == {k \in Nat : \A s \in B : row < s + k => Right(s)}
<1>7. ASSUME NEW k \in Nat, \A s \in B : row < s + k => Right(s),
             NEW s \in B, row < s + (k + 1)
      PROVE  Right(s)
  <2>. DEFINE rest == IF More(s) THEN f[Nx(s)] ELSE <<>>
              After == {y \in B : s < y}
  <2>1. s \in Nat /\ s \in 0 .. row  BY <1>3
  <2>2. IsFiniteSet(After) /\ Cardinality(After) \in Nat
    <3>1. After \in SUBSET B  OBVIOUS
    <3>. HIDE DEF After
    <3>. QED  BY <1>3, <3>1, FS_Subset, FS_CardinalityType
  <2>3. rest \in Seq(B) /\ Len(rest) <= Cardinality(After)
    <3>1. CASE More(s)
      <4>1. Nx(s) \in B /\ s < Nx(s) /\ Nx(s) \in Nat  BY <1>3, <1>5, <3>1
      <4>2. row < Nx(s) + k  BY <1>2, <1>7, <2>1, <4>1
      <4>3. Right(Nx(s))
        <5>. HIDE DEF Right
        <5>. QED  BY <1>7, <4>1, <4>2
      <4>4. Onward(Nx(s)) \in SUBSET After
        <5>1. PICK z \in Nat : z = Nx(s) /\ s < z  BY <4>1
        <5>2. \A y \in B : y \in Nat  BY <1>3
        <5>3. \A y \in B : z <= y => s < y  BY <2>1, <5>1, <5>2
        <5>. QED  BY <5>1, <5>3
      <4>5. Cardinality(Onward(Nx(s))) <= Cardinality(After) /\ Cardinality(Onward(Nx(s))) \in Nat
        <5>. HIDE DEF After, Onward
        <5>. QED  BY <1>6, <2>2, <4>1, <4>4, FS_Subset
      <4>6. rest = f[Nx(s)]  BY <3>1
      <4>. HIDE DEF After, Onward, rest
      <4>7. Len(rest) \in Nat  BY <4>3, <4>6
      <4>. QED  BY <2>2, <4>3, <4>5, <4>6, <4>7
    <3>2. CASE ~ More(s)
      <4>1. rest = <<>>  BY <3>2
      <4>2. <<>> \in Seq(B) /\ Len(<<>>) = 0  OBVIOUS
      <4>. HIDE DEF After, rest
      <4>. QED  BY <2>2, <4>1, <4>2
    <3>. QED  BY <3>1, <3>2
  <2>4. f[s] = <<s>> \o rest  BY <1>4, <2>1
  <2>5. Onward(s) = After \cup {s} /\ s \notin After
    <3>1. \A y \in B : y \in Nat  BY <1>3
    <3>2. \A y \in B : s <= y <=> s < y \/ y = s  BY <2>1, <3>1
    <3>3. ~ (s < s)  BY <2>1
    <3>. QED  BY <3>2, <3>3
  <2>6. Cardinality(Onward(s)) = Cardinality(After) + 1
    <3>. HIDE DEF After, Onward
    <3>. QED  BY <2>2, <2>5, FS_AddElement
  <2>. HIDE DEF After, Onward, rest
  <2>7. <<s>> \o rest \in Seq(B) /\ Len(<<s>> \o rest) = 1 + Len(rest) /\ Len(rest) \in Nat
    BY <2>3
  <2>. QED  BY <2>2, <2>3, <2>4, <2>6, <2>7
<1>8. row + 1 \in T
  <2>1. 0 \in T
    <3>1. \A s \in B : ~ (row < s + 0)  BY <1>2, <1>3
    <3>. QED  BY <3>1
  <2>2. \A k \in T : k + 1 \in T
    <3>. HIDE DEF Right
    <3>. QED  BY <1>7
  <2>3. T \in SUBSET Nat  OBVIOUS
  <2>. HIDE DEF T
  <2>4. T = Nat  BY <2>1, <2>2, <2>3, AllNaturals
  <2>. QED  BY <1>2, <2>4
<1>9. 0 \in B
  <2>1. 0 \in 0 .. row  BY <1>2
  <2>2. Ones(shape, 0) = {}
    <3>1. 0 \in 0 .. 2^shape.numTotOuts - 1  BY WireFacts DEF Wire
    <3>2. Ones(shape, 0) = {i \in 0 .. shape.numTotOuts - 1 : get(0, i)}  BY <3>1, OnesAre
    <3>3. ASSUME NEW i \in Nat PROVE ~ get(0, i)
      <4>1. PICK I \in Nat \ {0} : I = 2^i  BY PowerStep
      <4>2. I * 0 + 0 = 0 /\ 0 \in 0 .. I - 1  BY <4>1
      <4>3. (I * 0 + 0) \div I = 0  BY <4>1, <4>2, ModUnique
      <4>4. 0 \div I = 0  BY <4>2, <4>3
      <4>. QED  BY <4>1, <4>4 DEF get
    <3>. QED  BY <3>2, <3>3
  <2>. QED  BY <2>1, <2>2 DEF Below, B
<1>10. Right(0)
  <2>1. row < 0 + (row + 1)  BY <1>2
  <2>. HIDE DEF Right
  <2>. QED  BY <1>8, <1>9, <2>1
<1>11. Onward(0) = B
  <2>1. \A y \in B : 0 <= y  BY <1>3
  <2>. QED  BY <2>1
<1>. QED  BY <1>1, <1>3, <1>10, <1>11 DEF B

(* A subrow of a row that may be hashed may be hashed.                     *)
LEMMA BelowFits ==
  ASSUME NEW shape \in Gadgets, NEW row, Fits(shape, row), NEW s \in Below(shape, row)
  PROVE  Fits(shape, s)
<1>. DEFINE n == shape.numTotOuts
<1>1. n \in Nat /\ numMaskedOuts(shape) \in Nat /\ numMaskedOuts(shape) <= n  BY ShapeFacts
<1>2. 2^n \in Nat /\ row \in 0 .. 2^n - 1 /\ row \in Nat
  <2>1. 2^n \in Nat /\ row \in 0 .. 2^n - 1  BY <1>1, PowerStep DEF Fits
  <2>. QED  BY <2>1
<1>3. s \in 0 .. row /\ Ones(shape, s) \subseteq Ones(shape, row)  BY DEF Below
<1>4. s \in 0 .. 2^n - 1
  <2>. HIDE DEF n
  <2>. QED  BY <1>2, <1>3
<1>5. \A i \in 0 .. n - 1 : get(s, i) => get(row, i)
  <2>1. Ones(shape, s) = {i \in 0 .. n - 1 : get(s, i)}  BY <1>4, OnesAre
  <2>2. Ones(shape, row) = {i \in 0 .. n - 1 : get(row, i)}  BY <1>2, OnesAre
  <2>. QED  BY <1>3, <2>1, <2>2
<1>. HIDE DEF n
<1>6. ASSUME NEW o \in 0 .. shape.numOuts - 1 PROVE Count(s, OutBits(shape, o)) <= shape.t
  <2>1. /\ o * shape.d \in Nat /\ (o + 1) * shape.d = o * shape.d + shape.d
        /\ (o + 1) * shape.d <= numMaskedOuts(shape)
        /\ OutBits(shape, o) \in SUBSET Nat /\ IsFiniteSet(OutBits(shape, o))
    BY OutBitsFacts
  <2>2. shape.d \in Nat /\ shape.t \in Int  BY ShapeFacts
  <2>3. \A i \in OutBits(shape, o) : i \in 0 .. n - 1  BY <1>1, <2>1, <2>2 DEF OutBits
  <2>4. \A i \in OutBits(shape, o) : get(s, i) => get(row, i)  BY <1>5, <2>3
  <2>5. Count(s, OutBits(shape, o)) <= Count(row, OutBits(shape, o))  BY <2>1, <2>4, CountLeq
  <2>6. Count(row, OutBits(shape, o)) <= shape.t  BY DEF Fits
  <2>7. Count(s, OutBits(shape, o)) \in Nat /\ Count(row, OutBits(shape, o)) \in Nat
    BY <2>1, CountFacts
  <2>. QED  BY <2>2, <2>5, <2>6, <2>7
<1>7. Count(s, ProbeBits(shape)) <= shape.maxCoeff
  <2>1. \A i \in ProbeBits(shape) : i \in 0 .. n - 1  BY <1>1 DEF ProbeBits, n
  <2>2. \A i \in ProbeBits(shape) : get(s, i) => get(row, i)  BY <1>5, <2>1
  <2>3. IsFiniteSet(ProbeBits(shape)) /\ shape.maxCoeff \in Nat  BY ProbeBitsFacts, ShapeFacts
  <2>4. Count(s, ProbeBits(shape)) <= Count(row, ProbeBits(shape))  BY <2>2, <2>3, CountLeq
  <2>5. Count(s, ProbeBits(shape)) \in Nat /\ Count(row, ProbeBits(shape)) \in Nat
    BY <2>3, CountFacts
  <2>6. Count(row, ProbeBits(shape)) <= shape.maxCoeff  BY DEF Fits
  <2>. QED  BY <2>3, <2>4, <2>5, <2>6
<1>. QED  BY <1>4, <1>6, <1>7 DEF Fits, n

(* A row that may be hashed has at most so many wires.                     *)
LEMMA OnesCount ==
  ASSUME NEW shape \in Gadgets, NEW r, Fits(shape, r)
  PROVE  Cardinality(Ones(shape, r)) <= shape.maxCoeff + shape.t * shape.numOuts
<1>. DEFINE n == shape.numTotOuts
            d == shape.d
            t == shape.t
            nm == numMaskedOuts(shape)
            L(o) == {i \in 0 .. o * d - 1 : get(r, i)}
            T == {o \in Nat : o <= shape.numOuts =>
                     IsFiniteSet(L(o)) /\ Cardinality(L(o)) \in Nat /\ Cardinality(L(o)) <= t * o}
<1>1. /\ n \in Nat /\ nm \in Nat /\ nm <= n /\ d \in Nat /\ t \in Nat /\ shape.numOuts \in Nat
      /\ shape.maxCoeff \in Nat /\ nm = shape.numOuts * d
  <2>1. shape.t \in 0 .. shape.d - 1 /\ shape.d \in Nat  BY ShapeFacts
  <2>2. shape.t \in Nat  BY <2>1
  <2>. QED  BY <2>2, ShapeFacts DEF numMaskedOuts
<1>2. r \in 0 .. 2^n - 1  BY DEF Fits
<1>3. 0 \in T
  <2>1. L(0) = {}  BY <1>1
  <2>2. Cardinality({}) = 0 /\ IsFiniteSet({})  BY FS_EmptySet
  <2>3. t * 0 = 0 /\ 0 \in Nat  BY <1>1
  <2>. HIDE DEF L, t
  <2>4. IsFiniteSet(L(0)) /\ Cardinality(L(0)) = 0  BY <2>1, <2>2
  <2>5. IsFiniteSet(L(0)) /\ Cardinality(L(0)) \in Nat /\ Cardinality(L(0)) <= t * 0
    BY <2>3, <2>4
  <2>. QED  BY <2>3, <2>5
<1>4. ASSUME NEW o \in T PROVE o + 1 \in T
  <2>. SUFFICES ASSUME o + 1 <= shape.numOuts
                PROVE  /\ IsFiniteSet(L(o + 1)) /\ Cardinality(L(o + 1)) \in Nat
                       /\ Cardinality(L(o + 1)) <= t * (o + 1)
    OBVIOUS
  <2>1. o \in Nat /\ o \in 0 .. shape.numOuts - 1  BY <1>1
  <2>2. IsFiniteSet(L(o)) /\ Cardinality(L(o)) \in Nat /\ Cardinality(L(o)) <= t * o
    BY <1>1, <2>1
  <2>. DEFINE O == {i \in OutBits(shape, o) : get(r, i)}
  <2>3. IsFiniteSet(O) /\ Cardinality(O) \in Nat /\ Cardinality(O) <= t
    <3>1. IsFiniteSet(OutBits(shape, o))  BY <2>1, OutBitsFacts
    <3>2. IsFiniteSet(O) /\ Cardinality(O) = Count(r, OutBits(shape, o)) /\ Cardinality(O) \in Nat
      BY <3>1, CountFacts DEF Count
    <3>3. Count(r, OutBits(shape, o)) <= t  BY <2>1 DEF Fits
    <3>. HIDE DEF O
    <3>. QED  BY <3>2, <3>3
  <2>4. L(o + 1) = L(o) \cup O
    <3>1. PICK a \in Nat, b \in Nat : a = o * d /\ b = (o + 1) * d /\ b = a + d
      <4>1. o * d \in Nat /\ (o + 1) * d = o * d + d  BY <2>1, OutBitsFacts
      <4>2. o * d + d \in Nat  BY <1>1, <4>1
      <4>. QED  BY <4>1, <4>2
    <3>2. \A i \in 0 .. a + d - 1 : i \in 0 .. a - 1 \/ i \in a .. a + d - 1  BY <1>1, <3>1
    <3>3. 0 .. a - 1 \subseteq 0 .. a + d - 1 /\ a .. a + d - 1 \subseteq 0 .. a + d - 1
      BY <1>1, <3>1
    <3>4. OutBits(shape, o) = a .. a + d - 1
      <4>1. OutBits(shape, o) = o * d .. (o + 1) * d - 1  BY DEF OutBits
      <4>2. OutBits(shape, o) = a .. b - 1  BY <3>1, <4>1
      <4>3. b = a + d  BY <3>1
      <4>. HIDE DEF d
      <4>. QED  BY <1>1, <4>2, <4>3
    <3>5. L(o + 1) = {i \in 0 .. a + d - 1 : get(r, i)} /\ L(o) = {i \in 0 .. a - 1 : get(r, i)}
      <4>1. L(o + 1) = {i \in 0 .. b - 1 : get(r, i)} /\ L(o) = {i \in 0 .. a - 1 : get(r, i)}
        BY <3>1
      <4>2. b = a + d  BY <3>1
      <4>. HIDE DEF L, d
      <4>. QED  BY <1>1, <4>1, <4>2
    <3>. HIDE DEF L, d
    <3>. QED  BY <3>2, <3>3, <3>4, <3>5
  <2>. HIDE DEF L, O
  <2>5. /\ IsFiniteSet(L(o) \cup O)
        /\ Cardinality(L(o) \cup O) = Cardinality(L(o)) + Cardinality(O) - Cardinality(L(o) \cap O)
    BY <2>2, <2>3, FS_Union
  <2>6. Cardinality(L(o) \cap O) \in Nat /\ Cardinality(L(o) \cup O) \in Nat
    <3>1. L(o) \cap O \in SUBSET O  OBVIOUS
    <3>. QED  BY <2>3, <2>5, <3>1, FS_Subset, FS_CardinalityType
  <2>7. PICK u \in Nat : u = t * o /\ t * (o + 1) = u + t
    <3>1. t * (o + 1) = t * o + t /\ t * o \in Nat  BY <1>1, <2>1
    <3>. QED  BY <3>1
  <2>8. Cardinality(L(o) \cup O) <= u + t  BY <1>1, <2>2, <2>3, <2>5, <2>6, <2>7
  <2>9. Cardinality(L(o + 1)) <= t * (o + 1)  BY <2>4, <2>7, <2>8
  <2>. QED  BY <2>4, <2>5, <2>6, <2>9
<1>. HIDE DEF L
<1>5. LET o == shape.numOuts IN
      IsFiniteSet(L(o)) /\ Cardinality(L(o)) \in Nat /\ Cardinality(L(o)) <= t * o
  <2>1. T \in SUBSET Nat  OBVIOUS
  <2>2. T = Nat
    <3>. HIDE DEF T
    <3>. QED  BY <1>3, <1>4, <2>1, AllNaturals
  <2>3. shape.numOuts \in T /\ shape.numOuts <= shape.numOuts  BY <1>1, <2>2
  <2>. QED  BY <2>3
<1>. DEFINE P == {i \in ProbeBits(shape) : get(r, i)}
            A == L(shape.numOuts)
<1>6. IsFiniteSet(P) /\ Cardinality(P) \in Nat /\ Cardinality(P) <= shape.maxCoeff
  <2>1. IsFiniteSet(P) /\ Cardinality(P) = Count(r, ProbeBits(shape)) /\ Cardinality(P) \in Nat
    BY ProbeBitsFacts, CountFacts DEF Count
  <2>2. Count(r, ProbeBits(shape)) <= shape.maxCoeff  BY DEF Fits
  <2>. HIDE DEF P
  <2>. QED  BY <2>1, <2>2
<1>7. Ones(shape, r) = A \cup P
  <2>1. Ones(shape, r) = {i \in 0 .. n - 1 : get(r, i)}  BY <1>2, OnesAre
  <2>2. A = {i \in 0 .. nm - 1 : get(r, i)}  BY <1>1 DEF L
  <2>3. ProbeBits(shape) = nm .. n - 1  BY DEF ProbeBits
  <2>. HIDE DEF nm, n, A
  <2>4. \A i \in 0 .. n - 1 : i \in 0 .. nm - 1 \/ i \in nm .. n - 1  BY <1>1
  <2>5. 0 .. nm - 1 \subseteq 0 .. n - 1 /\ nm .. n - 1 \subseteq 0 .. n - 1  BY <1>1
  <2>. QED  BY <2>1, <2>2, <2>3, <2>4, <2>5
<1>. HIDE DEF P
<1>8. IsFiniteSet(A) /\ Cardinality(A) \in Nat /\ Cardinality(A) <= t * shape.numOuts  BY <1>5
<1>. HIDE DEF A
<1>9. Cardinality(A \cup P) = Cardinality(A) + Cardinality(P) - Cardinality(A \cap P)
  BY <1>6, <1>8, FS_Union
<1>10. Cardinality(A \cap P) \in Nat
  <2>1. A \cap P \in SUBSET P  OBVIOUS
  <2>. QED  BY <1>6, <2>1, FS_Subset, FS_CardinalityType
<1>11. PICK u \in Nat : u = t * shape.numOuts  BY <1>1
<1>. QED  BY <1>1, <1>6, <1>7, <1>8, <1>9, <1>10, <1>11

(* A row has no more subrows than there are subsets of its wires.          *)
LEMMA BelowCount ==
  ASSUME NEW shape \in Gadgets, NEW row, Fits(shape, row)
  PROVE  Cardinality(Below(shape, row)) <= 2^(shape.maxCoeff + shape.t * shape.numOuts)
<1>. DEFINE B == Below(shape, row)
            S == Ones(shape, row)
            f == [s \in B |-> Ones(shape, s)]
            N == shape.maxCoeff + shape.t * shape.numOuts
<1>1. row \in 0 .. 2^shape.numTotOuts - 1 /\ row \in Wire(shape)  BY DEF Fits, Wire
<1>2. IsFiniteSet(S) /\ Cardinality(S) \in Nat  BY <1>1, OnesAre, FS_CardinalityType
<1>3. IsFiniteSet(B) /\ Cardinality(B) \in Nat  BY <1>1, SubRowsFacts, FS_CardinalityType
<1>4. IsFiniteSet(SUBSET S) /\ Cardinality(SUBSET S) = 2^Cardinality(S)  BY <1>2, FS_SUBSET
<1>5. f \in [B -> SUBSET S]  BY DEF Below
<1>6. ASSUME NEW x1 \in B, NEW x2 \in B, f[x1] = f[x2] PROVE x1 = x2
  <2>1. Fits(shape, x1) /\ Fits(shape, x2)  BY BelowFits
  <2>2. x1 \in 0 .. 2^shape.numTotOuts - 1 /\ x2 \in 0 .. 2^shape.numTotOuts - 1
    BY <2>1 DEF Fits
  <2>3. x1 \in Nat /\ x2 \in Nat /\ x1 < 2^shape.numTotOuts /\ x2 < 2^shape.numTotOuts
        /\ shape.numTotOuts \in Nat
    <3>1. shape.numTotOuts \in Nat  BY ShapeFacts
    <3>2. PICK z \in Nat : z = 2^shape.numTotOuts  BY <3>1, PowerStep
    <3>. QED  BY <2>2, <3>1, <3>2
  <2>4. Ones(shape, x1) = {i \in 0 .. shape.numTotOuts - 1 : get(x1, i)}  BY <2>2, OnesAre
  <2>5. Ones(shape, x2) = {i \in 0 .. shape.numTotOuts - 1 : get(x2, i)}  BY <2>2, OnesAre
  <2>6. Ones(shape, x1) = Ones(shape, x2)  BY <1>6
  <2>7. ASSUME NEW i \in Nat PROVE get(x1, i) <=> get(x2, i)
    <3>1. get(x1, i) \/ get(x2, i) => i \in 0 .. shape.numTotOuts - 1
      <4>1. get(x1, i) \/ get(x2, i) => i < shape.numTotOuts  BY <2>3, OnesBelow
      <4>. QED  BY <2>3, <4>1
    <3>. QED  BY <2>4, <2>5, <2>6, <3>1
  <2>. QED  BY <2>3, <2>7, SameBits
<1>. HIDE DEF B, S, f
<1>7. ~ (Cardinality(SUBSET S) < Cardinality(B))
  BY <1>3, <1>4, <1>5, <1>6, FS_PigeonHole
<1>8. Cardinality(S) <= N  BY OnesCount DEF S
<1>9. N \in Nat
  <2>1. shape.t \in 0 .. shape.d - 1 /\ shape.d \in Nat  BY ShapeFacts
  <2>2. shape.t \in Nat /\ shape.numOuts \in Nat /\ shape.maxCoeff \in Nat  BY <2>1, ShapeFacts
  <2>3. shape.t * shape.numOuts \in Nat  BY <2>2
  <2>. QED  BY <2>2, <2>3
<1>. HIDE DEF N
<1>10. 2^Cardinality(S) \in Nat /\ 2^N \in Nat /\ 2^Cardinality(S) <= 2^N
  <2>1. CASE Cardinality(S) < N
    <3>1. 2 * 2^Cardinality(S) <= 2^N  BY <1>2, <1>9, <2>1, PowerMonotone
    <3>. QED  BY <1>2, <1>9, <3>1, PowerStep
  <2>2. CASE Cardinality(S) = N  BY <1>9, <2>2, PowerStep
  <2>. QED  BY <1>2, <1>8, <1>9, <2>1, <2>2
<1>. QED  BY <1>3, <1>4, <1>7, <1>10 DEF B, N

(* A number of wires, with the outputs of one row that may be hashed and   *)
(* the probes of another, may be hashed.                                   *)
LEMMA NumFits ==
  ASSUME NEW shape \in Gadgets, NEW S \in SUBSET (0 .. shape.numTotOuts - 1),
         NEW r, Fits(shape, r), NEW q, Fits(shape, q),
         \A i \in 0 .. shape.numTotOuts - 1 :
           i \in S <=> IF i < numMaskedOuts(shape) THEN get(r, i) ELSE get(q, i)
  PROVE  Fits(shape, Num(S))
<1>. DEFINE n == shape.numTotOuts
            nm == numMaskedOuts(shape)
            v == Num(S)
<1>1. n \in Nat /\ nm \in Nat /\ nm <= n /\ n - 1 \in Int  BY ShapeFacts
<1>2. S \in SUBSET Nat /\ IsFiniteSet(S)
  <2>1. IsFiniteSet(0 .. n - 1)  BY <1>1, FS_Interval
  <2>2. \A i \in 0 .. n - 1 : i \in Nat  OBVIOUS
  <2>. QED  BY <2>1, <2>2, FS_Subset
<1>3. v \in Nat /\ \A i \in Nat : get(v, i) <=> i \in S  BY <1>2, NumBits
<1>. HIDE DEF v, nm, n
<1>4. v \in 0 .. 2^n - 1
  <2>1. \A i \in Nat : get(v, i) => i < n
    <3>1. \A i \in 0 .. n - 1 : i < n  BY <1>1
    <3>. QED  BY <1>3, <3>1 DEF n
  <2>2. v < 2^n  BY <1>1, <1>3, <2>1, BitsBelow
  <2>. QED  BY <1>1, <1>3, <2>2, PowerStep
<1>5. \A i \in 0 .. n - 1 : get(v, i) <=> IF i < nm THEN get(r, i) ELSE get(q, i)
  <2>1. \A i \in 0 .. n - 1 : i \in Nat  OBVIOUS
  <2>2. \A i \in 0 .. n - 1 : i \in S <=> IF i < nm THEN get(r, i) ELSE get(q, i)
    BY DEF n, nm
  <2>. QED  BY <1>3, <2>1, <2>2
<1>6. ASSUME NEW o \in 0 .. shape.numOuts - 1 PROVE Count(v, OutBits(shape, o)) <= shape.t
  <2>1. ASSUME NEW i \in OutBits(shape, o) PROVE get(v, i) <=> get(r, i)
    <3>1. /\ o * shape.d \in Nat /\ (o + 1) * shape.d = o * shape.d + shape.d
          /\ (o + 1) * shape.d <= nm
      BY OutBitsFacts DEF nm
    <3>2. i \in o * shape.d .. (o + 1) * shape.d - 1  BY DEF OutBits
    <3>3. i \in 0 .. n - 1 /\ i < nm  BY <1>1, <3>1, <3>2, ShapeFacts
    <3>. QED  BY <1>5, <3>3
  <2>2. Count(v, OutBits(shape, o)) = Count(r, OutBits(shape, o))  BY <2>1, CountSame
  <2>. QED  BY <2>2 DEF Fits
<1>7. Count(v, ProbeBits(shape)) <= shape.maxCoeff
  <2>1. ASSUME NEW i \in ProbeBits(shape) PROVE get(v, i) <=> get(q, i)
    <3>1. i \in 0 .. n - 1 /\ ~ (i < nm)  BY <1>1 DEF ProbeBits, nm, n
    <3>. QED  BY <1>5, <3>1
  <2>2. Count(v, ProbeBits(shape)) = Count(q, ProbeBits(shape))  BY <2>1, CountSame
  <2>. QED  BY <2>2 DEF Fits
<1>. QED  BY <1>4, <1>6, <1>7 DEF Fits, n, v

(* The row that is looked up for a combination of outputs and one of       *)
(* probes.                                                                 *)
LEMMA OrFits ==
  ASSUME NEW shape \in Gadgets, NEW r, Fits(shape, r), NEW q, Fits(shape, q),
         \A i \in Nat : numMaskedOuts(shape) <= i => ~ get(r, i),
         NEW m \in Nat, q = 2^numMaskedOuts(shape) * m
  PROVE  Fits(shape, Or(shape, r, q))
<1>. DEFINE n == shape.numTotOuts
            nm == numMaskedOuts(shape)
            S == Ones(shape, r) \cup Ones(shape, q)
<1>1. n \in Nat /\ nm \in Nat  BY ShapeFacts
<1>2. r \in 0 .. 2^n - 1 /\ q \in 0 .. 2^n - 1  BY DEF Fits
<1>3. Ones(shape, r) = {i \in 0 .. n - 1 : get(r, i)}  BY <1>2, OnesAre
<1>4. Ones(shape, q) = {i \in 0 .. n - 1 : get(q, i)}  BY <1>2, OnesAre
<1>5. S \in SUBSET (0 .. n - 1) /\ \A i \in 0 .. n - 1 : i \in S <=> get(r, i) \/ get(q, i)
  BY <1>3, <1>4
<1>6. \A i \in Nat : i < nm => ~ get(q, i)
  <2>1. \A i \in Nat : get(2^nm * m, i) => nm <= i  BY <1>1, OnesAbove
  <2>2. \A i \in Nat : get(q, i) => nm <= i  BY <2>1
  <2>. HIDE DEF nm
  <2>. QED  BY <1>1, <2>2
<1>7. Or(shape, r, q) = Num(S)  BY DEF Or, Num, FoldSet, MapThenFoldSet
<1>. HIDE DEF S
<1>8. \A i \in 0 .. n - 1 : i \in S <=> IF i < nm THEN get(r, i) ELSE get(q, i)
  <2>. SUFFICES ASSUME NEW i \in 0 .. n - 1
                PROVE  i \in S <=> IF i < nm THEN get(r, i) ELSE get(q, i)
    OBVIOUS
  <2>1. i \in Nat  OBVIOUS
  <2>2. CASE i < nm  BY <1>5, <1>6, <2>1, <2>2
  <2>3. CASE ~ (i < nm)
    <3>1. ~ get(r, i)  BY <1>1, <2>1, <2>3
    <3>. QED  BY <1>5, <2>3, <3>1
  <2>. QED  BY <2>2, <2>3
<1>9. Fits(shape, Num(S))  BY <1>5, <1>8, NumFits
<1>. QED  BY <1>7, <1>9

(* The row of a combination of probes.                                     *)
LEMMA ProbesFit ==
  ASSUME NEW shape \in Gadgets, NEW S \in SUBSET ProbeBits(shape),
         Cardinality(S) <= shape.maxCoeff
  PROVE  Fits(shape, Num(S))
<1>. DEFINE n == shape.numTotOuts
            nm == numMaskedOuts(shape)
            v == Num(S)
            PB == ProbeBits(shape)
<1>1. n \in Nat /\ nm \in Nat /\ nm <= n  BY ShapeFacts
<1>2. PB \in SUBSET Nat /\ IsFiniteSet(PB) /\ PB = nm .. n - 1
  BY ProbeBitsFacts DEF ProbeBits
<1>3. S \in SUBSET Nat /\ IsFiniteSet(S)
  <2>. HIDE DEF PB
  <2>. QED  BY <1>2, FS_Subset DEF PB
<1>4. v \in Nat /\ \A i \in Nat : get(v, i) <=> i \in S  BY <1>3, NumBits
<1>. HIDE DEF v, n, nm, PB
<1>5. \A i \in S : i \in Nat /\ nm <= i /\ i < n
  <2>1. S \subseteq PB  BY DEF PB
  <2>2. \A i \in nm .. n - 1 : i \in Nat /\ nm <= i /\ i < n  BY <1>1
  <2>. QED  BY <1>2, <2>1, <2>2
<1>6. v \in 0 .. 2^n - 1
  <2>1. v < 2^n  BY <1>1, <1>4, <1>5, BitsBelow
  <2>. QED  BY <1>1, <1>4, <2>1, PowerStep
<1>7. ASSUME NEW o \in 0 .. shape.numOuts - 1 PROVE Count(v, OutBits(shape, o)) <= shape.t
  <2>1. ASSUME NEW i \in OutBits(shape, o) PROVE ~ get(v, i)
    <3>1. /\ o * shape.d \in Nat /\ (o + 1) * shape.d = o * shape.d + shape.d
          /\ (o + 1) * shape.d <= nm
      BY OutBitsFacts DEF nm
    <3>2. i \in o * shape.d .. (o + 1) * shape.d - 1  BY DEF OutBits
    <3>3. i \in Nat /\ ~ (nm <= i)  BY <1>1, <3>1, <3>2, ShapeFacts
    <3>. QED  BY <1>4, <1>5, <3>3
  <2>2. Count(v, OutBits(shape, o)) = 0  BY <2>1, CountNone
  <2>3. \A z \in 0 .. shape.d - 1 : 0 <= z  BY ShapeFacts
  <2>. QED  BY <2>2, <2>3, ShapeFacts
<1>8. {i \in PB : get(v, i)} = S
  <2>1. S \subseteq PB  BY DEF PB
  <2>. QED  BY <1>2, <1>4, <2>1
<1>9. Count(v, PB) <= shape.maxCoeff  BY <1>8 DEF Count
<1>. QED  BY <1>6, <1>7, <1>9 DEF Fits, n, v, PB

(* Max picks the greatest member of a set of numbers up to some number.    *)
LEMMA MaxOfNaturals ==
  ASSUME NEW n \in Nat, NEW T \in SUBSET (0 .. n), T # {}
  PROVE  Max(T) \in T
<1>. DEFINE U == {k \in Nat : n - k \in T}
<1>1. U \in SUBSET Nat /\ U # {}
  <2>1. PICK y \in T : TRUE  OBVIOUS
  <2>2. y \in 0 .. n  BY <2>1
  <2>3. n - y \in Nat /\ n - (n - y) = y  BY <2>2
  <2>. QED  BY <2>1, <2>3
<1>2. PICK k \in U : \A j \in U : k <= j
  <2>. HIDE DEF U
  <2>. QED  BY <1>1, LeastNatural
<1>3. k \in Nat /\ n - k \in T  BY <1>2
<1>4. ASSUME NEW y \in T PROVE n - k >= y
  <2>1. y \in 0 .. n  OBVIOUS
  <2>2. n - y \in Nat /\ n - (n - y) = y  BY <2>1
  <2>3. n - y \in U  BY <1>4, <2>2
  <2>4. k <= n - y  BY <1>2, <2>3
  <2>. QED  BY <1>3, <2>1, <2>2, <2>4
<1>5. \E y \in T : \A z \in T : y >= z  BY <1>3, <1>4
<1>. QED  BY <1>5 DEF Max
-----------------------------------------------------------------------------
(* Every class has a row, and the row that stands for it is hashed.        *)
ClassesHaveRows ==
  /\ \E S : vals \in Seq(S)
  /\ \A r \in DOMAIN class : class[r] \in DOMAIN vals
  /\ \A c \in DOMAIN vals : \E r \in DOMAIN class : class[r] = c
  /\ pc \notin {"hash", "info", "subrow", "maps"} =>
       \A c \in DOMAIN vals : subrow2row[c] \in rows /\ class[subrow2row[c]] = c

(* A value that is new becomes the last class, with the row it is of.      *)
LEMMA AddClassRows ==
  ASSUME NEW S, vals \in Seq(S), NEW r, r \notin DOMAIN class, NEW v, AddClass(r, v),
         \A q \in DOMAIN class : class[q] \in DOMAIN vals,
         \A c \in DOMAIN vals : \E q \in DOMAIN class : class[q] = c
  PROVE  /\ \E T : vals' \in Seq(T)
         /\ \A q \in DOMAIN class' : class'[q] \in DOMAIN vals'
         /\ \A c \in DOMAIN vals' : \E q \in DOMAIN class' : class'[q] = c
         /\ DOMAIN class' = {r} \cup DOMAIN class /\ \A q \in DOMAIN class : class'[q] = class[q]
         /\ vals'[class'[r]] = v /\ \A c \in DOMAIN vals : vals'[c] = vals[c]
<1>. DEFINE h == CHOOSE i \in DOMAIN vals' : vals'[i] = v
<1>1. /\ vals' = IF Contains(vals, v) THEN vals ELSE Append(vals, v)
      /\ class' = Entered(class, r, h)
  BY DEF AddClass
<1>2. vals \in Seq(S \cup {v}) /\ Len(vals) \in Nat /\ DOMAIN vals = 1 .. Len(vals)  OBVIOUS
<1>3. vals' \in Seq(S \cup {v})  BY <1>1, <1>2
<1>4. /\ DOMAIN vals \subseteq DOMAIN vals'
      /\ \E i \in DOMAIN vals' : vals'[i] = v
      /\ \A c \in DOMAIN vals' \ DOMAIN vals : \A i \in DOMAIN vals' : vals'[i] = v => i = c
  <2>1. CASE Contains(vals, v)  BY <1>1, <1>2, <2>1 DEF Contains
  <2>2. CASE ~ Contains(vals, v)
    <3>1. vals' = Append(vals, v)  BY <1>1, <2>2
    <3>2. DOMAIN vals' = 1 .. Len(vals) + 1 /\ vals'[Len(vals) + 1] = v
      BY <1>2, <3>1
    <3>3. \A i \in 1 .. Len(vals) : vals'[i] = vals[i] /\ vals[i] # v
      BY <1>2, <2>2, <3>1 DEF Contains
    <3>. QED  BY <1>2, <3>2, <3>3
  <2>. QED  BY <2>1, <2>2
<1>5. h \in DOMAIN vals' /\ vals'[h] = v  BY <1>4
<1>. HIDE DEF h
<1>6. /\ DOMAIN class' = {r} \cup DOMAIN class /\ class'[r] = h
      /\ \A q \in DOMAIN class : class'[q] = class[q]
  BY <1>1 DEF Entered
<1>7. \A q \in DOMAIN class' : class'[q] \in DOMAIN vals'  BY <1>4, <1>5, <1>6
<1>8. ASSUME NEW c \in DOMAIN vals' PROVE \E q \in DOMAIN class' : class'[q] = c
  <2>1. CASE c \in DOMAIN vals  BY <1>6, <2>1
  <2>2. CASE c \notin DOMAIN vals
    <3>1. h = c  BY <1>4, <1>5, <2>2
    <3>. QED  BY <1>6, <3>1
  <2>. QED  BY <2>1, <2>2
<1>9. \A c \in DOMAIN vals : vals'[c] = vals[c]
  <2>1. CASE Contains(vals, v)  BY <1>1, <2>1
  <2>2. CASE ~ Contains(vals, v)
    <3>1. vals' = Append(vals, v)  BY <1>1, <2>2
    <3>. QED  BY <1>2, <3>1
  <2>. QED  BY <2>1, <2>2
<1>. QED  BY <1>3, <1>5, <1>6, <1>7, <1>8, <1>9

(* The pass over the rows, and the choice of a row for each class.         *)
LEMMA NextClasses == RowsInv /\ ClassesHaveRows /\ [Next]_vars => ClassesHaveRows'
<1>. SUFFICES ASSUME RowsInv, ClassesHaveRows, [Next]_vars PROVE ClassesHaveRows'  OBVIOUS
<1>. USE DEF ClassesHaveRows
<1>0. /\ g \in Gadgets /\ rows \in SUBSET Nat /\ rows \in SUBSET Wire(g)
      /\ DOMAIN class = ClassesOf(pc)
  BY WireFacts DEF RowsInv
<1>1. CASE HashRow  BY <1>1 DEF HashRow, GoOn
<1>2. CASE GetInfo  BY <1>2 DEF GetInfo
<1>3. CASE ClassifyRow
  <2>1. pc = "subrow" /\ pc' \in {"subrow", "maps"} /\ AddClass(curr, Val(curr))
    BY <1>3 DEF ClassifyRow, GoOn
  <2>2. curr \notin DOMAIN class
    <3>1. curr \in rows /\ DOMAIN class = {r \in rows : r < curr}
      BY <1>0, <2>1 DEF RowsInv, ClassesOf
    <3>2. curr \in Nat  BY <1>0, <3>1
    <3>. QED  BY <3>1, <3>2
  <2>3. PICK S : vals \in Seq(S)  OBVIOUS
  <2>. DEFINE v == Val(curr)
  <2>. HIDE DEF v
  <2>4. AddClass(curr, v)  BY <2>1 DEF v
  <2>5. /\ \E T : vals' \in Seq(T)
        /\ \A q \in DOMAIN class' : class'[q] \in DOMAIN vals'
        /\ \A c \in DOMAIN vals' : \E q \in DOMAIN class' : class'[q] = c
    BY <2>2, <2>3, <2>4, AddClassRows
  <2>. QED  BY <2>1, <2>5
<1>4. CASE FillMaps
  <2>. DEFINE Of(c) == {r \in DOMAIN class : class[r] = c}
  <2>1. /\ pc = "maps" /\ pc' = "done" /\ vals' = vals /\ class' = class /\ rows' = rows
        /\ \/ subrow2row' = [c \in DOMAIN vals |-> Min(Of(c))]
           \/ subrow2row' = [c \in DOMAIN vals |-> Max(Of(c))]
    BY <1>4 DEF FillMaps
  <2>2. DOMAIN class = rows  BY <1>0, <2>1 DEF ClassesOf
  <2>3. ASSUME NEW c \in DOMAIN vals PROVE Min(Of(c)) \in Of(c) /\ Max(Of(c)) \in Of(c)
    <3>1. Of(c) # {} /\ Of(c) \subseteq rows  BY <2>2
    <3>2. PICK n \in Nat : Wire(g) = 0 .. n
      <4>1. 2^g.numTotOuts \in Nat \ {0}  BY <1>0, ShapeFacts, PowerStep
      <4>2. 2^g.numTotOuts - 1 \in Nat  BY <4>1
      <4>. QED  BY <4>2 DEF Wire
    <3>. HIDE DEF Of
    <3>3. Min(Of(c)) \in Of(c)
      <4>1. Of(c) \in SUBSET Nat  BY <1>0, <3>1
      <4>. QED  BY <3>1, <4>1, MinOfNaturals
    <3>4. Max(Of(c)) \in Of(c)
      <4>1. Of(c) \in SUBSET (0 .. n)  BY <1>0, <3>1, <3>2
      <4>. QED  BY <3>1, <4>1, MaxOfNaturals
    <3>. QED  BY <3>1, <3>3, <3>4
  <2>4. \A c \in DOMAIN vals : \A r \in Of(c) : r \in rows /\ class[r] = c  BY <2>2
  <2>. HIDE DEF Of
  <2>. QED  BY <2>1, <2>3, <2>4
<1>5. CASE StartThreads  BY <1>5 DEF StartThreads
<1>6. CASE \E t \in Thread : CalculateClass(t)  BY <1>6 DEF CalculateClass, passVars
<1>7. CASE JoinThreads  BY <1>7 DEF JoinThreads
<1>8. CASE SkipOutputs  BY <1>8 DEF SkipOutputs, NextAlternative
<1>9. CASE AddProbes  BY <1>9 DEF AddProbes
<1>10. CASE MergeAlternative  BY <1>10 DEF MergeAlternative, NextAlternative
<1>11. CASE AddCombinations  BY <1>11 DEF AddCombinations
<1>12. CASE AboveMaxCoeff  BY <1>12 DEF AboveMaxCoeff
<1>13. CASE UNCHANGED vars  BY <1>13 DEF vars, passVars
<1>. QED
  BY <1>1, <1>2, <1>3, <1>4, <1>5, <1>6, <1>7, <1>8, <1>9, <1>10, <1>11, <1>12, <1>13
  DEF Next, Main, Passes

(* The combination of outputs that is added up has no probes, and the one  *)
(* of probes no outputs.                                                   *)
OutAndProbes ==
  /\ Fits(g, out) /\ \A i \in Nat : numMaskedOuts(g) <= i => ~ get(out, i)
  /\ pc \notin {"hash", "subrow"} =>
       Fits(g, curr) /\ \E m \in Nat : curr = 2^numMaskedOuts(g) * m

(* The next combination of outputs, if any, has no probes either.          *)
LEMMA NextOutputs ==
  ASSUME RowsInv, OutAndProbes, NextAlternative, g' = g
  PROVE  Fits(g, out') /\ \A i \in Nat : numMaskedOuts(g) <= i => ~ get(out', i)
<1>1. g \in Gadgets  BY DEF RowsInv
<1>2. CASE IsRpc /\ outLeqT(g, out).more
  <2>1. out' = outLeqT(g, out).row  BY <1>2 DEF NextAlternative
  <2>. QED  BY <1>1, <1>2, <2>1, OutStep DEF OutAndProbes
<1>3. CASE ~ (IsRpc /\ outLeqT(g, out).more)
  <2>1. out' = out  BY <1>3 DEF NextAlternative
  <2>. QED  BY <2>1 DEF OutAndProbes
<1>. QED  BY <1>2, <1>3

(* The loops over the outputs and the probes go on to such a combination.  *)
LEMMA NextOutAndProbes ==
  ASSUME \A shape \in Gadgets : FullOrOneWord(shape)
  PROVE  RowsInv /\ OutAndProbes /\ [Next]_vars => OutAndProbes'
<1>. SUFFICES ASSUME RowsInv, OutAndProbes, [Next]_vars PROVE OutAndProbes'  OBVIOUS
<1>. DEFINE Outs(r) == Fits(g, r) /\ \A i \in Nat : numMaskedOuts(g) <= i => ~ get(r, i)
            Prbs(r) == Fits(g, r) /\ \E m \in Nat : r = 2^numMaskedOuts(g) * m
<1>0. g \in Gadgets /\ Outs(out) /\ (pc \notin {"hash", "subrow"} => Prbs(curr))
  BY DEF RowsInv, OutAndProbes
<1>a. Prbs(0)  BY <1>0, ZeroFits
<1>b. g' = g
  BY DEF Next, Main, Passes, HashRow, GetInfo, ClassifyRow, FillMaps, StartThreads,
         CalculateClass, JoinThreads, SkipOutputs, AddProbes, MergeAlternative,
         AddCombinations, AboveMaxCoeff, vars, passVars
<1>c. ASSUME Outs(out'), pc' \notin {"hash", "subrow"} => Prbs(curr') PROVE OutAndProbes'
  BY <1>b, <1>c DEF OutAndProbes, Fits, Count, OutBits, ProbeBits, numMaskedOuts
<1>d. ASSUME NextAlternative PROVE Outs(out')  BY <1>b, <1>d, NextOutputs
<1>. HIDE DEF Outs, Prbs
<1>1. CASE HashRow \/ ClassifyRow
  <2>1. CASE HashRow /\ UNCHANGED calcVars
    BY <1>0, <1>a, <1>c, <2>1 DEF HashRow, GoOn, calcVars
  <2>2. CASE ClassifyRow /\ UNCHANGED calcVars
    BY <1>0, <1>a, <1>c, <2>2 DEF ClassifyRow, GoOn, calcVars
  <2>3. UNCHANGED calcVars
    BY <1>1 DEF Next, Main, Passes, HashRow, GetInfo, ClassifyRow, FillMaps, StartThreads,
         CalculateClass, JoinThreads, SkipOutputs, AddProbes, MergeAlternative,
         AddCombinations, AboveMaxCoeff, vars, passVars
  <2>. QED  BY <1>1, <2>1, <2>2, <2>3
<1>2. CASE GetInfo /\ UNCHANGED calcVars  BY <1>0, <1>c, <1>2 DEF GetInfo, calcVars
<1>4. CASE FillMaps /\ UNCHANGED calcVars  BY <1>0, <1>c, <1>4 DEF FillMaps, calcVars
<1>5. CASE StartThreads  BY <1>0, <1>c, <1>5 DEF StartThreads
<1>6. CASE \E t \in Thread : CalculateClass(t)
  BY <1>0, <1>c, <1>6 DEF CalculateClass, passVars
<1>7. CASE JoinThreads  BY <1>0, <1>c, <1>7 DEF JoinThreads, calcVars
<1>8. CASE SkipOutputs  BY <1>0, <1>c, <1>d, <1>8 DEF SkipOutputs
<1>9. CASE AddProbes
  <2>. DEFINE next == probeLeqMaxCoeff(g, curr)
  <2>1. /\ pc = "coeffs" /\ out' = out
        /\ IF next.more THEN curr' = next.row /\ pc' = pc ELSE curr' = 0
    BY <1>9 DEF AddProbes
  <2>2. next.more => Prbs(next.row)
    <3>1. Fits(g, curr) /\ \E m \in Nat : curr = 2^numMaskedOuts(g) * m
      BY <1>0, <2>1 DEF Prbs
    <3>. QED  BY <1>0, <3>1, ProbeStep DEF Prbs
  <2>. HIDE DEF next
  <2>. QED  BY <1>0, <1>a, <1>c, <2>1, <2>2
<1>10. CASE MergeAlternative  BY <1>0, <1>c, <1>d, <1>10 DEF MergeAlternative
<1>11. CASE AddCombinations  BY <1>0, <1>c, <1>11 DEF AddCombinations
<1>12. CASE AboveMaxCoeff  BY <1>0, <1>c, <1>12 DEF AboveMaxCoeff
<1>13. CASE UNCHANGED vars  BY <1>0, <1>c, <1>13 DEF vars, passVars, calcVars
<1>. QED
  BY <1>1, <1>2, <1>4, <1>5, <1>6, <1>7, <1>8, <1>9, <1>10, <1>11, <1>12, <1>13
  DEF Next, Main, Passes

(* At first there are no classes, and nothing is added up.                 *)
LEMMA InitLookups == Init => ClassesHaveRows /\ OutAndProbes
<1>. SUFFICES ASSUME Init PROVE ClassesHaveRows /\ OutAndProbes  OBVIOUS
<1>1. /\ g \in Gadgets /\ pc = "hash" /\ vals = <<>> /\ class = [r \in {} |-> 0] /\ out = 0
  BY DEF Init, PassesInit
<1>2. vals \in Seq({}) /\ DOMAIN vals = {} /\ DOMAIN class = {}  BY <1>1
<1>3. ClassesHaveRows  BY <1>1, <1>2 DEF ClassesHaveRows
<1>4. OutAndProbes  BY <1>1, ZeroFits DEF OutAndProbes
<1>. QED  BY <1>3, <1>4

(* The subrows that a thread gets the infos of are hashed, and the array   *)
(* of pointers to them has a place for each.                               *)
LEMMA SubrowsAreHashed ==
  ASSUME RowsInv, AllSoFar, ClassesHaveRows, pc = "done", NEW c \in DOMAIN vals
  PROVE  LET subs == SubRows(g, subrow2row[c]) IN
         Range(subs) \subseteq rows /\ Len(subs) <= 2^(g.maxCoeff + g.t * g.numOuts)
<1>. DEFINE row == subrow2row[c]
            subs == SubRows(g, row)
            B == Below(g, row)
            most == 2^(g.maxCoeff + g.t * g.numOuts)
<1>1. g \in Gadgets /\ rows = {r \in Wire(g) : Fits(g, r)}  BY DEF RowsInv, AllSoFar
<1>2. row \in rows  BY DEF ClassesHaveRows
<1>3. row \in Wire(g) /\ Fits(g, row)  BY <1>1, <1>2
<1>. HIDE DEF row
<1>4. subs \in Seq(B) /\ IsFiniteSet(B) /\ Len(subs) <= Cardinality(B)
  BY <1>1, <1>3, SubRowsFacts
<1>5. \A s \in B : s \in rows
  <2>1. \A s \in B : Fits(g, s)  BY <1>1, <1>3, BelowFits
  <2>. QED  BY <1>1, <2>1 DEF Fits, Wire
<1>6. Cardinality(B) <= most  BY <1>1, <1>3, BelowCount
<1>7. most \in Nat
  <2>1. g.t \in 0 .. g.d - 1 /\ g.d \in Nat /\ g.maxCoeff \in Nat /\ g.numOuts \in Nat
    BY <1>1, ShapeFacts
  <2>2. g.t * g.numOuts \in Nat  BY <2>1
  <2>3. g.maxCoeff + g.t * g.numOuts \in Nat  BY <2>1, <2>2
  <2>. QED  BY <2>3, PowerStep
<1>8. Cardinality(B) \in Nat  BY <1>4, FS_CardinalityType
<1>. HIDE DEF subs, B, most
<1>9. Len(subs) \in Nat /\ Range(subs) \subseteq B  BY <1>4 DEF Range
<1>10. Len(subs) <= most  BY <1>4, <1>6, <1>7, <1>8, <1>9
<1>. QED  BY <1>5, <1>9, <1>10 DEF subs, row, most

(* What is looked up is there: the subrows that a thread calculates with,  *)
(* and the row of every combination of outputs and probes that is added up *)
(* (wrapper.c, calc_*.c, the assertion of rowHashed_hash), of a gadget     *)
(* with any number of wires that fills its last word or has only one.      *)
THEOREM LookedUpIsThere ==
  ASSUME \A shape \in Gadgets : FullOrOneWord(shape)
  PROVE  Spec => []LookupsHit
<1>. DEFINE IInv == RowsInv /\ AllSoFar /\ ClassesHaveRows /\ OutAndProbes
<1>1. Init => IInv  BY InitRows, InitAll, InitLookups
<1>2. IInv /\ [Next]_vars => IInv'  BY NextRows, NextAll, NextClasses, NextOutAndProbes
<1>3. IInv => LookupsHit
  <2>. SUFFICES ASSUME IInv PROVE LookupsHit  OBVIOUS
  <2>0. g \in Gadgets  BY DEF RowsInv
  <2>1. pc = "coeffs" => rows = {r \in Wire(g) : Fits(g, r)}  BY DEF AllSoFar
  <2>2. ASSUME pc = "coeffs" PROVE LookedUp \in rows
    <3>1. Fits(g, out) /\ \A i \in Nat : numMaskedOuts(g) <= i => ~ get(out, i)
      BY DEF OutAndProbes
    <3>2. Fits(g, curr) /\ \E m \in Nat : curr = 2^numMaskedOuts(g) * m
      BY <2>2 DEF OutAndProbes
    <3>3. Fits(g, LookedUp)  BY <2>0, <3>1, <3>2, OrFits DEF LookedUp
    <3>. QED  BY <2>1, <2>2, <3>3 DEF Fits, Wire
  <2>3. ASSUME pc = "coeffs", NEW ones \in SUBSET (numMaskedOuts(g) .. g.numTotOuts - 1),
               Cardinality(ones) <= g.maxCoeff
        PROVE  Num(ones) \in rows
    <3>1. Fits(g, Num(ones))  BY <2>0, <2>3, ProbesFit DEF ProbeBits
    <3>. QED  BY <2>1, <2>3, <3>1 DEF Fits, Wire
  <2>. QED  BY <2>2, <2>3, SubrowsAreHashed DEF LookupsHit
<1>. QED  BY <1>1, <1>2, <1>3, PTL DEF Spec
-----------------------------------------------------------------------------

(* Without one member, those above it move down by one place.              *)
LEMMA RankWithout ==
  ASSUME NEW R \in SUBSET Nat, IsFiniteSet(R), NEW w \in R, NEW i \in R \ {w}
  PROVE  /\ Rank(R, i) \in Nat
         /\ Rank(R \ {w}, i) = IF i < w THEN Rank(R, i) ELSE Rank(R, i) - 1
<1>. DEFINE L == {j \in R : j <= i}
            M == {j \in R \ {w} : j <= i}
<1>1. L \in SUBSET R  OBVIOUS
<1>2. M = L \ {w} /\ (w \in L <=> ~ (i < w))
  <2>1. w \in Nat /\ i \in Nat  OBVIOUS
  <2>2. w <= i <=> ~ (i < w)  BY <2>1
  <2>. QED  BY <2>2
<1>. HIDE DEF L, M
<1>3. IsFiniteSet(L) /\ Cardinality(L) \in Nat  BY <1>1, FS_Subset, FS_CardinalityType
<1>4. Cardinality(L \ {w}) = IF w \in L THEN Cardinality(L) - 1 ELSE Cardinality(L)
  BY <1>3, FS_RemoveElement
<1>5. Rank(R, i) = Cardinality(L) /\ Rank(R \ {w}, i) = Cardinality(M)  BY DEF Rank, L, M
<1>6. Cardinality(M) = IF i < w THEN Cardinality(L) ELSE Cardinality(L) - 1
  BY <1>2, <1>4
<1>. QED  BY <1>3, <1>5, <1>6

(* The number of some wires of a row is a subrow of it.                    *)
LEMMA NumOfOnes ==
  ASSUME NEW shape \in Gadgets, NEW r \in Wire(shape), NEW S \in SUBSET Ones(shape, r)
  PROVE  /\ Num(S) \in Below(shape, r) /\ Ones(shape, Num(S)) = S
         /\ S = Ones(shape, r) => Num(S) = r
         /\ \A i \in S : Num(S \ {i}) = Num(S) - 2^i
<1>. DEFINE n == shape.numTotOuts
            s == Num(S)
<1>1. n \in Nat /\ r \in 0 .. 2^n - 1 /\ 2^n \in Nat  BY ShapeFacts, PowerStep DEF Wire
<1>2. r \in Nat /\ r < 2^n  BY <1>1
<1>3. /\ Ones(shape, r) = {i \in 0 .. n - 1 : get(r, i)}
      /\ IsFiniteSet(Ones(shape, r)) /\ Ones(shape, r) \in SUBSET Nat
  BY <1>1, OnesAre
<1>4. IsFiniteSet(S) /\ S \in SUBSET Nat  BY <1>3, FS_Subset
<1>5. s \in Nat /\ \A i \in Nat : get(s, i) <=> i \in S  BY <1>4, NumBits
<1>. HIDE DEF s, n
<1>6. \A i \in Nat : get(s, i) => get(r, i) /\ i < n
  <2>1. \A i \in 0 .. n - 1 : i < n  BY <1>1
  <2>. QED  BY <1>3, <1>5, <2>1
<1>7. s < 2^n  BY <1>1, <1>5, <1>6, BitsBelow
<1>8. s \in 0 .. 2^n - 1  BY <1>1, <1>5, <1>7
<1>9. ~ (r < s)
  <2>. SUFFICES ASSUME r < s PROVE FALSE  OBVIOUS
  <2>1. PICK i \in Nat : get(s, i) /\ ~ get(r, i)  BY <1>2, <1>5, HighestDifference
  <2>. QED  BY <1>6, <2>1
<1>10. Ones(shape, s) = S
  <2>1. Ones(shape, s) = {i \in 0 .. n - 1 : get(s, i)}  BY <1>8, OnesAre DEF n
  <2>2. \A i \in 0 .. n - 1 : get(s, i) <=> i \in S
    <3>1. \A i \in 0 .. n - 1 : i \in Nat  OBVIOUS
    <3>. QED  BY <1>5, <3>1
  <2>3. S \subseteq 0 .. n - 1  BY <1>3 DEF n
  <2>. QED  BY <2>1, <2>2, <2>3
<1>11. s \in 0 .. r  BY <1>2, <1>5, <1>9
<1>12. ASSUME S = Ones(shape, r) PROVE s = r
  <2>1. \A i \in Nat : get(r, i) => i < n  BY <1>1, <1>2, OnesBelow
  <2>2. \A i \in Nat : get(r, i) => i \in 0 .. n - 1
    <3>1. \A i \in Nat : i < n => i \in 0 .. n - 1  BY <1>1
    <3>. QED  BY <2>1, <3>1
  <2>3. \A i \in Nat : get(s, i) <=> get(r, i)  BY <1>3, <1>5, <1>12, <2>2
  <2>. QED  BY <1>2, <1>5, <2>3, SameBits
<1>13. ASSUME NEW i \in S PROVE Num(S \ {i}) = s - 2^i
  <2>. DEFINE w == [j \in Nat |-> 2^j]
  <2>1. \A j \in S : w[j] \in Int /\ w[j] = 2^j
    <3>1. \A j \in Nat : 2^j \in Int  BY PowerStep
    <3>. QED  BY <1>4, <3>1
  <2>2. s = Total(w, S)  BY <1>4, NumSum DEF s
  <2>3. S \ {i} \in SUBSET Nat /\ IsFiniteSet(S \ {i})  BY <1>4, FS_RemoveElement
  <2>4. Num(S \ {i}) = Total(w, S \ {i}) /\ Num(S \ {i}) \in Nat  BY <2>3, NumSum, NumBits
  <2>. HIDE DEF w
  <2>5. Total(w, S) = w[i] + Total(w, S \ {i})  BY <1>4, <2>1, SumRemove
  <2>6. PICK p \in Nat : p = 2^i  BY <1>4, PowerStep
  <2>7. s = p + Num(S \ {i})  BY <2>1, <2>2, <2>4, <2>5, <2>6
  <2>. QED  BY <2>4, <2>6, <2>7
<1>. QED  BY <1>10, <1>11, <1>12, <1>13 DEF Below, s

(* What the classes are made of, when all the rows have one.               *)
Classified ==
  /\ g \in Gadgets /\ rows = {r \in Wire(g) : Fits(g, r)} /\ DOMAIN class = rows
  /\ \E S : vals \in Seq(S)
  /\ \A r \in rows : class[r] \in DOMAIN vals /\ vals[class[r]] = Val(r)

(* The direct subrows of a row are hashed, too, one for each wire, and the *)
(* row's value has their classes and nothing else.                         *)
LEMMA DirectSubrows ==
  ASSUME Classified, NEW r \in rows
  PROVE  LET wires == Ones(g, r)
             W == Cardinality(wires)
             Sub(k) == r - 2^WireAt(r, k)
         IN  /\ wires \in SUBSET Nat /\ IsFiniteSet(wires) /\ W \in 0 .. g.numTotOuts
             /\ \A k \in 1 .. W :
                  /\ WireAt(r, k) \in wires /\ Rank(wires, WireAt(r, k)) = k
                  /\ Sub(k) \in rows /\ Ones(g, Sub(k)) = wires \ {WireAt(r, k)}
                  /\ Val(r).subs[k] = class[Sub(k)] /\ class[Sub(k)] # 0
             /\ \A k \in 1 .. g.numTotOuts : W < k => Val(r).subs[k] = 0
<1>. DEFINE n == g.numTotOuts
            wires == Ones(g, r)
            W == Cardinality(wires)
            Sub(k) == r - 2^WireAt(r, k)
<1>1. g \in Gadgets /\ r \in Wire(g) /\ Fits(g, r) /\ n \in Nat  BY ShapeFacts DEF Classified
<1>2. wires = {i \in 0 .. n - 1 : get(r, i)} /\ wires \in SUBSET Nat /\ IsFiniteSet(wires)
  BY <1>1, OnesAre DEF Wire
<1>3. W \in Nat /\ W <= n
  <2>1. wires \in SUBSET (0 .. n - 1)  BY <1>2
  <2>2. 0 \in Int /\ n - 1 \in Int  BY <1>1
  <2>3. IsFiniteSet(0 .. n - 1) /\ Cardinality(0 .. n - 1) = IF 0 > n - 1 THEN 0 ELSE n - 1 - 0 + 1
    BY <2>2, FS_Interval
  <2>. HIDE DEF wires, n
  <2>4. W \in Nat /\ W <= Cardinality(0 .. n - 1)  BY <1>2, <2>1, <2>3, FS_Subset, FS_CardinalityType
  <2>. QED  BY <1>1, <2>3, <2>4
<1>4. \A k \in 1 .. n : Val(r).subs[k] = IF k <= W /\ Sub(k) \in rows THEN ClassOf(Sub(k)) ELSE 0
  BY DEF Val
<1>5. ASSUME NEW k \in 1 .. W
      PROVE  /\ WireAt(r, k) \in wires /\ Rank(wires, WireAt(r, k)) = k
             /\ Sub(k) \in rows /\ Ones(g, Sub(k)) = wires \ {WireAt(r, k)}
             /\ Val(r).subs[k] = class[Sub(k)] /\ class[Sub(k)] # 0
  <2>. DEFINE i == WireAt(r, k)
  <2>1. i \in wires /\ Rank(wires, i) = k
    <3>1. \E j \in wires : Rank(wires, j) = k
      <4>. HIDE DEF wires
      <4>. QED  BY <1>2, Ranks
    <3>2. \E j \in Ones(g, r) : Place(r, j) = k  BY <3>1 DEF Rank, Place
    <3>3. i \in Ones(g, r) /\ Place(r, i) = k  BY <3>2 DEF WireAt
    <3>. QED  BY <3>3 DEF Rank, Place
  <2>. HIDE DEF i
  <2>. DEFINE S == wires \ {i}
  <2>2. /\ Num(S) = r - 2^i /\ Num(S) \in Below(g, r) /\ Ones(g, Num(S)) = S
    <3>1. wires \in SUBSET Ones(g, r) /\ S \in SUBSET Ones(g, r)  OBVIOUS
    <3>2. Num(wires) = r /\ Num(S) = Num(wires) - 2^i  BY <1>1, <2>1, <3>1, NumOfOnes
    <3>3. Num(S) \in Below(g, r) /\ Ones(g, Num(S)) = S  BY <1>1, <3>1, NumOfOnes
    <3>. QED  BY <3>2, <3>3
  <2>3. Sub(k) = Num(S)  BY <2>2 DEF i
  <2>. HIDE DEF S, Sub
  <2>4. Sub(k) \in rows
    <3>1. Fits(g, Num(S))  BY <1>1, <2>2, BelowFits
    <3>. QED  BY <2>3, <3>1 DEF Classified, Fits, Wire
  <2>5. Val(r).subs[k] = class[Sub(k)]
    <3>1. k \in 1 .. n /\ k <= W  BY <1>1, <1>3
    <3>2. ClassOf(Sub(k)) = class[Sub(k)]  BY <2>4 DEF ClassOf, Classified
    <3>. QED  BY <1>4, <2>4, <3>1, <3>2
  <2>6. class[Sub(k)] # 0
    <3>1. class[Sub(k)] \in DOMAIN vals  BY <2>4 DEF Classified
    <3>2. PICK T : vals \in Seq(T)  BY DEF Classified
    <3>3. DOMAIN vals = 1 .. Len(vals)  BY <3>2
    <3>. QED  BY <3>1, <3>3
  <2>. QED  BY <2>1, <2>2, <2>3, <2>4, <2>5, <2>6 DEF i, S
<1>6. \A k \in 1 .. n : W < k => Val(r).subs[k] = 0
  <2>. SUFFICES ASSUME NEW k \in 1 .. n, W < k PROVE Val(r).subs[k] = 0  OBVIOUS
  <2>1. ~ (k <= W)  BY <1>3
  <2>. QED  BY <1>4, <2>1
<1>7. W \in 0 .. n  BY <1>1, <1>3
<1>. HIDE DEF W, n
<1>. QED  BY <1>2, <1>5, <1>6, <1>7 DEF W, n

(* Two rows of the same class have the same value: as many wires, and in   *)
(* each place a direct subrow of the same class.                           *)
LEMMA SameClass ==
  ASSUME Classified, NEW r \in rows, NEW q \in rows, class[r] = class[q]
  PROVE  /\ info[r] = info[q] /\ Cardinality(Ones(g, r)) = Cardinality(Ones(g, q))
         /\ \A k \in 1 .. Cardinality(Ones(g, r)) :
              class[r - 2^WireAt(r, k)] = class[q - 2^WireAt(q, k)]
<1>. DEFINE n == g.numTotOuts
            W(s) == Cardinality(Ones(g, s))
            Sub(s, k) == s - 2^WireAt(s, k)
<1>1. Val(r) = Val(q)  BY DEF Classified
<1>2. info[r] = info[q]  BY <1>1 DEF Val
<1>3. \A s \in rows : /\ W(s) \in 0 .. n
                      /\ \A k \in 1 .. W(s) : Val(s).subs[k] = class[Sub(s, k)] /\ class[Sub(s, k)] # 0
                      /\ \A k \in 1 .. n : W(s) < k => Val(s).subs[k] = 0
  BY DirectSubrows
<1>4. n \in Nat  BY ShapeFacts DEF Classified
<1>. HIDE DEF n, W, Sub
<1>5. ASSUME NEW s \in rows, NEW u \in rows, Val(s) = Val(u) PROVE ~ (W(s) < W(u))
  <2>. SUFFICES ASSUME W(s) < W(u) PROVE FALSE  OBVIOUS
  <2>1. W(u) \in 1 .. W(u) /\ W(u) \in 1 .. n  BY <1>3, <1>4
  <2>2. Val(s).subs[W(u)] = 0  BY <1>3, <2>1
  <2>3. Val(u).subs[W(u)] # 0  BY <1>3, <2>1
  <2>. QED  BY <1>5, <2>2, <2>3
<1>6. W(r) = W(q)  BY <1>1, <1>3, <1>4, <1>5
<1>7. \A k \in 1 .. W(r) : class[Sub(r, k)] = class[Sub(q, k)]  BY <1>1, <1>3, <1>6
<1>. QED  BY <1>2, <1>6, <1>7 DEF W, Sub

(* The places that are left when one of them is taken away.                *)
Without(S, k, W) == {s \in 1 .. W - 1 : IF s < k THEN s \in S ELSE s + 1 \in S}

(* A subrow without the wire in place k is one of the direct subrow.       *)
LEMMA KeepWithout ==
  ASSUME Classified, NEW r \in rows, NEW S, NEW k \in 1 .. Cardinality(Ones(g, r)), k \notin S
  PROVE  Keep(r, S) = Keep(r - 2^WireAt(r, k), Without(S, k, Cardinality(Ones(g, r))))
<1>. DEFINE wires == Ones(g, r)
            W == Cardinality(wires)
            w == WireAt(r, k)
            sub == r - 2^w
            T == Without(S, k, W)
<1>1. /\ wires \in SUBSET Nat /\ IsFiniteSet(wires) /\ W \in Nat
      /\ w \in wires /\ Rank(wires, w) = k /\ Ones(g, sub) = wires \ {w}
  <2>1. wires \in SUBSET Nat /\ IsFiniteSet(wires) /\ W \in 0 .. g.numTotOuts  BY DirectSubrows
  <2>2. w \in wires /\ Rank(wires, w) = k /\ Ones(g, sub) = wires \ {w}  BY DirectSubrows
  <2>. QED  BY <2>1, <2>2
<1>. DEFINE A == {i \in wires : Rank(wires, i) \in S}
            B == {i \in wires \ {w} : Rank(wires \ {w}, i) \in T}
<1>2. Keep(r, S) = Num(A)  BY DEF Keep, Num, Place, Rank
<1>3. Keep(sub, T) = Num(B)
  <2>1. Keep(sub, T) = Num({i \in Ones(g, sub) : Rank(Ones(g, sub), i) \in T})
    BY DEF Keep, Num, Place, Rank
  <2>. QED  BY <1>1, <2>1
<1>4. k \in 1 .. W  OBVIOUS
<1>. HIDE DEF wires, w, W, T
<1>5. ASSUME NEW i \in wires \ {w} PROVE Rank(wires, i) \in S <=> Rank(wires \ {w}, i) \in T
  <2>1. /\ Rank(wires, i) \in 1 .. W /\ (i < w => Rank(wires, i) < k) /\ (w < i => k < Rank(wires, i))
    BY <1>1, Ranks DEF W
  <2>2. Rank(wires \ {w}, i) = IF i < w THEN Rank(wires, i) ELSE Rank(wires, i) - 1
    BY <1>1, RankWithout
  <2>3. PICK a \in 1 .. W : a = Rank(wires, i)  BY <2>1
  <2>4. (i < w \/ w < i) /\ (w < i => ~ (i < w))
    <3>1. i \in Nat /\ w \in Nat /\ i # w  BY <1>1
    <3>. QED  BY <3>1
  <2>5. CASE i < w
    <3>1. a < k /\ Rank(wires \ {w}, i) = a  BY <2>1, <2>2, <2>3, <2>5
    <3>2. a \in 1 .. W - 1  BY <1>1, <1>4, <2>3, <3>1
    <3>. QED  BY <2>3, <3>1, <3>2 DEF T, Without
  <2>6. CASE w < i
    <3>1. k < a /\ Rank(wires \ {w}, i) = a - 1  BY <2>1, <2>2, <2>3, <2>4, <2>6
    <3>2. a - 1 \in 1 .. W - 1 /\ ~ (a - 1 < k) /\ a - 1 + 1 = a  BY <1>1, <1>4, <2>3, <3>1
    <3>. QED  BY <2>3, <3>1, <3>2 DEF T, Without
  <2>. QED  BY <2>4, <2>5, <2>6
<1>6. A = B  BY <1>1, <1>5
<1>. HIDE DEF A, B
<1>7. Keep(r, S) = Keep(sub, T)  BY <1>2, <1>3, <1>6
<1>. QED  BY <1>7 DEF T, W, wires, w

(* Rows of one class agree in the infos of all their subrows.              *)
LEMMA SubrowsAgree ==
  ASSUME Classified
  PROVE  \A r, q \in rows : class[r] = class[q] =>
           \A S \in SUBSET (1 .. Cardinality(Ones(g, r))) : info[Keep(r, S)] = info[Keep(q, S)]
<1>. DEFINE W(r) == Cardinality(Ones(g, r))
            Sub(r, k) == r - 2^WireAt(r, k)
            Agree(n) == \A r, q \in rows : W(r) = n /\ class[r] = class[q] =>
                          \A S \in SUBSET (1 .. n) : info[Keep(r, S)] = info[Keep(q, S)]
            T == {n \in Nat : Agree(n)}
<1>1. ASSUME NEW r \in rows PROVE Keep(r, 1 .. W(r)) = r
  <2>1. Ones(g, r) \in SUBSET Nat /\ IsFiniteSet(Ones(g, r))  BY DirectSubrows
  <2>2. {i \in Ones(g, r) : Rank(Ones(g, r), i) \in 1 .. W(r)} = Ones(g, r)  BY <2>1, Ranks
  <2>3. Keep(r, 1 .. W(r)) = Num(Ones(g, r))  BY <2>2 DEF Keep, Num, Place, Rank
  <2>4. g \in Gadgets /\ r \in Wire(g)  BY DEF Classified
  <2>. QED  BY <2>3, <2>4, NumOfOnes
<1>2. ASSUME NEW n \in Nat, n # 0 => Agree(n - 1) PROVE Agree(n)
  <2>. SUFFICES ASSUME NEW r \in rows, NEW q \in rows, W(r) = n, class[r] = class[q],
                       NEW S \in SUBSET (1 .. n)
                PROVE  info[Keep(r, S)] = info[Keep(q, S)]
    OBVIOUS
  <2>1. /\ info[r] = info[q] /\ W(q) = n
        /\ \A k \in 1 .. n : class[Sub(r, k)] = class[Sub(q, k)]
    BY SameClass
  <2>2. CASE S = 1 .. n  BY <1>1, <2>1, <2>2
  <2>3. CASE S # 1 .. n
    <3>1. PICK k \in 1 .. n : k \notin S  BY <2>3
    <3>. DEFINE U == Without(S, k, n)
    <3>2. Keep(r, S) = Keep(Sub(r, k), U) /\ Keep(q, S) = Keep(Sub(q, k), U)
      BY <2>1, <3>1, KeepWithout
    <3>3. /\ Sub(r, k) \in rows /\ Sub(q, k) \in rows
          /\ Ones(g, Sub(r, k)) = Ones(g, r) \ {WireAt(r, k)} /\ WireAt(r, k) \in Ones(g, r)
          /\ IsFiniteSet(Ones(g, r))
      BY <2>1, DirectSubrows
    <3>4. W(Sub(r, k)) = n - 1
      <4>1. Cardinality(Ones(g, r) \ {WireAt(r, k)}) = Cardinality(Ones(g, r)) - 1
        BY <3>3, FS_RemoveElement
      <4>. QED  BY <3>3, <4>1
    <3>5. U \in SUBSET (1 .. n - 1)  BY DEF Without
    <3>6. n # 0  BY <3>1
    <3>. HIDE DEF U, W, Sub
    <3>. QED  BY <1>2, <2>1, <3>2, <3>3, <3>4, <3>5, <3>6
  <2>. QED  BY <2>2, <2>3
<1>. HIDE DEF Agree
<1>3. 0 \in T  BY <1>2
<1>4. ASSUME NEW n \in T PROVE n + 1 \in T
  <2>1. n \in Nat /\ n + 1 \in Nat /\ (n + 1) - 1 = n /\ Agree(n)  OBVIOUS
  <2>. QED  BY <1>2, <2>1
<1>5. T = Nat
  <2>1. T \in SUBSET Nat  OBVIOUS
  <2>. HIDE DEF T
  <2>. QED  BY <1>3, <1>4, <2>1, AllNaturals
<1>. SUFFICES ASSUME NEW r \in rows, NEW q \in rows, class[r] = class[q],
                     NEW S \in SUBSET (1 .. W(r))
              PROVE  info[Keep(r, S)] = info[Keep(q, S)]
  OBVIOUS
<1>6. W(r) \in Nat
  <2>1. W(r) \in 0 .. g.numTotOuts  BY DirectSubrows
  <2>. QED  BY <2>1
<1>7. Agree(W(r))  BY <1>5, <1>6
<1>. QED  BY <1>7 DEF Agree
-----------------------------------------------------------------------------
(* A class has the value of each of its rows, still when the classes of    *)
(* later rows are known.                                                   *)
ClassesHaveValues == \A r \in DOMAIN class : vals[class[r]] = Val(r)

(* The direct subrows of a row that is entered are before it, so that what *)
(* is entered later does not change their classes.                         *)
LEMMA NextValues ==
  RowsInv /\ ClassesHaveRows /\ ClassesHaveValues /\ [Next]_vars => ClassesHaveValues'
<1>. SUFFICES ASSUME RowsInv, ClassesHaveRows, ClassesHaveValues, [Next]_vars
              PROVE  ClassesHaveValues'
  OBVIOUS
<1>0. /\ g \in Gadgets /\ rows \in SUBSET Wire(g) /\ rows \in SUBSET Nat
      /\ DOMAIN class = ClassesOf(pc)
  BY WireFacts DEF RowsInv
<1>1. CASE ClassifyRow
  <2>1. /\ pc = "subrow" /\ g' = g /\ rows' = rows /\ info' = info
        /\ AddClass(curr, Val(curr))
    BY <1>1 DEF ClassifyRow
  <2>2. curr \in rows /\ DOMAIN class = {r \in rows : r < curr} /\ curr \notin DOMAIN class
    <3>1. curr \in rows /\ DOMAIN class = {r \in rows : r < curr}
      BY <1>0, <2>1 DEF RowsInv, ClassesOf
    <3>2. curr \in Nat  BY <1>0, <3>1
    <3>. QED  BY <3>1, <3>2
  <2>3. /\ DOMAIN class' = {curr} \cup DOMAIN class /\ \A q \in DOMAIN class : class'[q] = class[q]
        /\ vals'[class'[curr]] = Val(curr) /\ \A c \in DOMAIN vals : vals'[c] = vals[c]
    <3>. DEFINE v == Val(curr)
    <3>. HIDE DEF v
    <3>1. AddClass(curr, v)  BY <2>1 DEF v
    <3>2. PICK S : vals \in Seq(S)  BY DEF ClassesHaveRows
    <3>3. /\ DOMAIN class' = {curr} \cup DOMAIN class /\ \A q \in DOMAIN class : class'[q] = class[q]
          /\ vals'[class'[curr]] = v /\ \A c \in DOMAIN vals : vals'[c] = vals[c]
      BY <2>2, <3>1, <3>2, AddClassRows DEF ClassesHaveRows
    <3>. QED  BY <3>3 DEF v
  <2>4. ASSUME NEW r \in DOMAIN class' PROVE Val(r)' = Val(r)
    <3>. DEFINE wires == Ones(g, r)
    <3>1. r \in rows /\ r \in Nat /\ curr \in Nat /\ r <= curr  BY <1>0, <2>2, <2>3
    <3>2. wires \in SUBSET Nat /\ IsFiniteSet(wires)
      <4>1. r \in 0 .. 2^g.numTotOuts - 1  BY <1>0, <3>1 DEF Wire
      <4>. QED  BY <1>0, <4>1, OnesAre
    <3>3. ASSUME NEW k \in 1 .. g.numTotOuts, k <= Cardinality(wires)
          PROVE  r - 2^WireAt(r, k) # curr
      <4>. DEFINE i == WireAt(r, k)
      <4>1. \E j \in wires : Rank(wires, j) = k
        <5>. HIDE DEF wires
        <5>1. Cardinality(wires) \in Nat  BY <3>2, Ranks
        <5>2. k \in 1 .. Cardinality(wires)  BY <3>3, <5>1
        <5>. QED  BY <3>2, <5>2, Ranks
      <4>2. \E j \in Ones(g, r) : Place(r, j) = k  BY <4>1 DEF Rank, Place
      <4>3. i \in wires  BY <4>2 DEF WireAt
      <4>. HIDE DEF i
      <4>4. PICK p \in Nat \ {0} : p = 2^i  BY <3>2, <4>3, PowerStep
      <4>5. r - p # curr  BY <3>1, <4>4
      <4>. QED  BY <4>4, <4>5 DEF i
    <3>4. \A s : s # curr => ClassOf(s)' = ClassOf(s)  BY <2>3 DEF ClassOf
    <3>5. \A k : WireAt(r, k)' = WireAt(r, k)  BY <2>1 DEF WireAt, Place
    <3>. DEFINE E(k) == IF k <= Cardinality(wires) /\ r - 2^WireAt(r, k) \in rows
                        THEN ClassOf(r - 2^WireAt(r, k)) ELSE 0
    <3>6. ASSUME NEW k \in 1 .. g.numTotOuts PROVE E(k)' = E(k)
      <4>1. r - 2^(WireAt(r, k)') = r - 2^WireAt(r, k)  BY <3>5
      <4>2. Cardinality(wires)' = Cardinality(wires)  BY <2>1
      <4>3. CASE k <= Cardinality(wires)
        <5>1. ClassOf(r - 2^WireAt(r, k))' = ClassOf(r - 2^WireAt(r, k))
          <6>. DEFINE s == r - 2^WireAt(r, k)
          <6>1. s # curr  BY <3>3, <4>3
          <6>2. s' = s  BY <4>1
          <6>. HIDE DEF s
          <6>3. ClassOf(s)' = ClassOf(s)  BY <2>3, <6>1, <6>2 DEF ClassOf
          <6>. QED  BY <6>3 DEF s
        <5>. QED  BY <2>1, <4>1, <4>2, <5>1
      <4>4. CASE ~ (k <= Cardinality(wires))  BY <4>2, <4>4
      <4>. QED  BY <4>3, <4>4
    <3>7. Val(r) = [subs |-> [k \in 1 .. g.numTotOuts |-> E(k)], info |-> info[r]]  BY DEF Val
    <3>8. Val(r)' = [subs |-> [k \in 1 .. g.numTotOuts |-> E(k)'], info |-> info[r]]
      BY <2>1 DEF Val
    <3>. HIDE DEF E
    <3>. QED  BY <3>6, <3>7, <3>8
  <2>5. ASSUME NEW r \in DOMAIN class' PROVE vals'[class'[r]] = Val(r)
    <3>1. CASE r = curr  BY <2>3, <3>1
    <3>2. CASE r \in DOMAIN class
      BY <2>3, <3>2 DEF ClassesHaveRows, ClassesHaveValues
    <3>. QED  BY <2>3, <3>1, <3>2
  <2>6. \A r \in DOMAIN class' : vals'[class'[r]] = Val(r)'  BY <2>4, <2>5
  <2>. QED  BY <2>6 DEF ClassesHaveValues
<1>2. CASE ~ ClassifyRow
  <2>1. vals' = vals /\ class' = class /\ g' = g
        /\ (pc \notin {"hash", "info"} => rows' = rows /\ info' = info)
    BY <1>2 DEF Next, Main, Passes, HashRow, GetInfo, FillMaps, StartThreads, CalculateClass,
         JoinThreads, SkipOutputs, AddProbes, MergeAlternative, AddCombinations, AboveMaxCoeff,
         vars, passVars
  <2>2. CASE pc \in {"hash", "info"}
    <3>1. DOMAIN class' = {}  BY <1>0, <2>1, <2>2 DEF ClassesOf
    <3>. QED  BY <3>1 DEF ClassesHaveValues
  <2>3. CASE pc \notin {"hash", "info"}
    <3>1. rows' = rows /\ info' = info  BY <2>1, <2>3
    <3>2. \A r, k : WireAt(r, k)' = WireAt(r, k)  BY <2>1 DEF WireAt, Place
    <3>3. ASSUME NEW r PROVE Val(r)' = Val(r)  BY <2>1, <3>1, <3>2 DEF Val, ClassOf
    <3>. QED  BY <2>1, <3>3 DEF ClassesHaveValues
  <2>. QED  BY <2>2, <2>3
<1>. QED  BY <1>1, <1>2

(* The value that is calculated for one row of a class, from the infos of  *)
(* its subrows, is that of all of them: as many wires, and the same info   *)
(* for the subrows with the same places (subrowHashed.c: "they recursively *)
(* include the info of all subrows"), of a gadget with any number of wires *)
(* that fills its last word or has only one.                               *)
THEOREM RowsOfAClassAgree ==
  ASSUME \A shape \in Gadgets : FullOrOneWord(shape)
  PROVE  Spec => []ClassesAgree
<1>. DEFINE IInv == RowsInv /\ AllSoFar /\ ClassesHaveRows /\ ClassesHaveValues
<1>1. Init => IInv
  <2>1. Init => ClassesHaveValues  BY DEF Init, PassesInit, ClassesHaveValues
  <2>. QED  BY <2>1, InitRows, InitAll, InitLookups
<1>2. IInv /\ [Next]_vars => IInv'  BY NextRows, NextAll, NextClasses, NextValues
<1>3. IInv => ClassesAgree
  <2>. SUFFICES ASSUME IInv, pc = "done", NEW r \in rows
                PROVE  LET q == subrow2row[class[r]]
                           wires == Cardinality(Ones(g, r))
                       IN  /\ wires = Cardinality(Ones(g, q))
                           /\ \A S \in SUBSET (1 .. wires) : info[Keep(r, S)] = info[Keep(q, S)]
    BY DEF ClassesAgree
  <2>. DEFINE q == subrow2row[class[r]]
  <2>1. Classified
    BY DEF RowsInv, AllSoFar, ClassesHaveRows, ClassesHaveValues, Classified, ClassesOf
  <2>2. q \in rows /\ class[q] = class[r]
    BY <2>1 DEF Classified, ClassesHaveRows
  <2>. HIDE DEF q
  <2>. QED  BY <2>1, <2>2, SameClass, SubrowsAgree DEF q
<1>. QED  BY <1>1, <1>2, <1>3, PTL DEF Spec
=============================================================================
