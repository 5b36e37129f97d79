---------------------------- MODULE NumberLemmas ----------------------------
(***************************************************************************)
(* Facts about numbers and finite sets that the provers do not find by     *)
(* themselves: remainders and quotients of natural numbers by a divisor    *)
(* that is not a literal, powers of two, and the sums of FiniteSetsExt.    *)
(* The library's induction theorems take an operator as a parameter; here  *)
(* the least of the numbers, or a smallest of the sets, for which          *)
(* something fails leads to a contradiction.                               *)
(***************************************************************************)
EXTENDS Integers, FiniteSetsExt, FiniteSetTheorems, TLAPS

(* Multiplication by a natural number is monotone.                         *)
LEMMA MulMonotone ==
  ASSUME NEW n \in Nat, NEW x \in Nat, NEW y \in Nat, x < y
  PROVE  n * x + n <= n * y
<1>1. PICK d \in Nat : y = x + 1 + d
  <2>1. y - x - 1 \in Nat /\ y = x + 1 + (y - x - 1)  OBVIOUS
  <2>. QED  BY <2>1
<1>2. n * (x + 1 + d) = n * x + n + n * d  OBVIOUS
<1>3. n * d \in Nat  OBVIOUS
<1>. QED  BY <1>1, <1>2, <1>3

(* Quotient and remainder.                                                 *)
LEMMA DivMod ==
  ASSUME NEW n \in Nat \ {0}, NEW a \in Nat
  PROVE  /\ a \div n \in Nat
         /\ a % n \in 0 .. n - 1
         /\ a = n * (a \div n) + (a % n)
  OBVIOUS

(* They are the only ones.                                                 *)
LEMMA ModUnique ==
  ASSUME NEW n \in Nat \ {0}, NEW q \in Nat, NEW r \in 0 .. n - 1
  PROVE  /\ (n * q + r) % n = r
         /\ (n * q + r) \div n = q
<1>. DEFINE a == n * q + r
            x == a \div n
            s == a % n
<1>1. a \in Nat  OBVIOUS
<1>2. x \in Nat /\ s \in 0 .. n - 1 /\ a = n * x + s  BY <1>1, DivMod
<1>. HIDE DEF x, s
<1>3. ~ (x < q)
  <2>. SUFFICES ASSUME x < q PROVE FALSE  OBVIOUS
  <2>1. n * x + n <= n * q  BY <1>2, MulMonotone
  <2>. QED  BY <2>1, <1>2
<1>4. ~ (q < x)
  <2>. SUFFICES ASSUME q < x PROVE FALSE  OBVIOUS
  <2>1. n * q + n <= n * x  BY <1>2, MulMonotone
  <2>. QED  BY <2>1, <1>2
<1>5. x = q  BY <1>2, <1>3, <1>4
<1>6. s = r  BY <1>2, <1>5
<1>. QED  BY <1>5, <1>6 DEF x, s

(* The remainder of what is less than twice the divisor.                   *)
LEMMA WrapMod ==
  ASSUME NEW n \in Nat \ {0}, NEW x \in 0 .. 2 * n - 1
  PROVE  x % n = IF x < n THEN x ELSE x - n
<1>1. CASE x < n
  <2>1. n * 0 + x = x /\ x \in 0 .. n - 1  BY <1>1
  <2>2. (n * 0 + x) % n = x  BY <2>1, ModUnique
  <2>. QED  BY <1>1, <2>1, <2>2
<1>2. CASE ~ (x < n)
  <2>1. n * 1 + (x - n) = x /\ x - n \in 0 .. n - 1  BY <1>2
  <2>2. (n * 1 + (x - n)) % n = x - n  BY <2>1, ModUnique
  <2>. QED  BY <1>2, <2>1, <2>2
<1>. QED  BY <1>1, <1>2

(* Hashes that share a slot of a doubled table shared one before.          *)
LEMMA ModDouble ==
  ASSUME NEW n \in Nat \ {0}, NEW a \in Nat
  PROVE  (a % (2 * n)) % n = a % n
<1>. DEFINE m == 2 * n
            q == a \div m
            s == a % m
<1>1. m \in Nat \ {0}  OBVIOUS
<1>2. q \in Nat /\ s \in 0 .. m - 1 /\ a = m * q + s  BY <1>1, DivMod
<1>3. s \in Nat  BY <1>2
<1>. DEFINE u == s \div n
            t == s % n
<1>4. u \in Nat /\ t \in 0 .. n - 1 /\ s = n * u + t  BY <1>3, DivMod
<1>. HIDE DEF q, s, u, t
<1>5. a = n * (2 * q + u) + t
  <2>1. m * q = n * (2 * q)  BY <1>2
  <2>2. n * (2 * q + u) = n * (2 * q) + n * u  BY <1>2, <1>4
  <2>. QED  BY <1>2, <1>4, <2>1, <2>2
<1>6. 2 * q + u \in Nat  BY <1>2, <1>4
<1>7. a % n = t  BY <1>4, <1>5, <1>6, ModUnique
<1>. QED  BY <1>7 DEF s, t

(* Position p of a nested loop of a times c steps is in one of a rounds.   *)
LEMMA DivBound ==
  ASSUME NEW c \in Nat \ {0}, NEW a \in Nat, NEW p \in 0 .. a * c - 1
  PROVE  p \div c \in 0 .. a - 1
<1>1. a * c \in Nat  OBVIOUS
<1>2. p \in Nat /\ p < a * c  BY <1>1
<1>. DEFINE q == p \div c
            r == p % c
<1>3. q \in Nat /\ r \in 0 .. c - 1 /\ p = c * q + r  BY <1>2, DivMod
<1>. HIDE DEF q, r
<1>4. q < a
  <2>. SUFFICES ASSUME ~ (q < a) PROVE FALSE  OBVIOUS
  <2>1. q = a \/ a < q  BY <1>3
  <2>2. CASE q = a  BY <2>2, <1>2, <1>3
  <2>3. CASE a < q
    <3>1. c * a + c <= c * q  BY <2>3, <1>3, MulMonotone
    <3>2. c * a = a * c  OBVIOUS
    <3>. QED  BY <3>1, <3>2, <1>1, <1>2, <1>3
  <2>. QED  BY <2>1, <2>2, <2>3
<1>5. q \in 0 .. a - 1  BY <1>3, <1>4
<1>. QED  BY <1>5 DEF q

(* The quotient tells on which side of a multiple of the divisor a number is. *)
LEMMA DivBelow ==
  ASSUME NEW n \in Nat \ {0}, NEW a \in Nat, NEW k \in Nat
  PROVE  a \div n < k <=> a < n * k
<1>. DEFINE q == a \div n
            r == a % n
<1>1. q \in Nat /\ r \in 0 .. n - 1 /\ a = n * q + r  BY DivMod
<1>. HIDE DEF q, r
<1>2. ASSUME q < k PROVE a < n * k
  <2>1. n * q + n <= n * k  BY <1>1, <1>2, MulMonotone
  <2>2. n * q \in Nat /\ n * k \in Nat  BY <1>1
  <2>. QED  BY <1>1, <2>1, <2>2
<1>3. ASSUME k <= q PROVE n * k <= a
  <2>1. CASE k = q
    <3>1. n * q \in Nat  BY <1>1
    <3>. QED  BY <1>1, <2>1, <3>1
  <2>2. CASE k < q
    <3>1. n * k + n <= n * q  BY <1>1, <2>2, MulMonotone
    <3>2. n * q \in Nat /\ n * k \in Nat  BY <1>1
    <3>. QED  BY <1>1, <3>1, <3>2
  <2>. QED  BY <1>1, <1>3, <2>1, <2>2
<1>4. q < k <=> a < n * k
  <2>1. n * k \in Nat  OBVIOUS
  <2>. QED  BY <1>1, <1>2, <1>3, <2>1
<1>. QED  BY <1>4 DEF q

(* Replacing the low part of h, of c values, keeps it below a multiple of c. *)
LEMMA ReplaceLow ==
  ASSUME NEW c \in Nat \ {0}, NEW s \in Nat, s % c = 0,
         NEW h \in 0 .. s - 1, NEW i \in 0 .. c - 1
  PROVE  (h \div c) * c + i \in 0 .. s - 1
<1>. DEFINE q == h \div c
            m == s \div c
<1>0. h \in Nat  OBVIOUS
<1>1. q \in Nat /\ h % c \in 0 .. c - 1 /\ h = c * q + (h % c)  BY <1>0, DivMod
<1>2. m \in Nat /\ s = c * m  BY DivMod
<1>. HIDE DEF q, m
<1>3. q < m
  <2>. SUFFICES ASSUME ~ (q < m) PROVE FALSE  OBVIOUS
  <2>1. q = m \/ m < q  BY <1>1, <1>2
  <2>2. CASE q = m  BY <2>2, <1>1, <1>2
  <2>3. CASE m < q
    <3>1. c * m + c <= c * q  BY <2>3, <1>1, <1>2, MulMonotone
    <3>. QED  BY <3>1, <1>1, <1>2
  <2>. QED  BY <2>1, <2>2, <2>3
<1>4. c * q + c <= c * m  BY <1>1, <1>2, <1>3, MulMonotone
<1>5. c * q = q * c  BY <1>1
<1>6. q * c \in Nat  BY <1>1
<1>7. q * c + i \in 0 .. s - 1  BY <1>2, <1>4, <1>5, <1>6
<1>. QED  BY <1>7 DEF q

(* Dividing twice is dividing by the product.                              *)
LEMMA DivDiv ==
  ASSUME NEW a \in Nat, NEW m \in Nat \ {0}, NEW n \in Nat \ {0}
  PROVE  (a \div m) \div n = a \div (m * n)
<1>. DEFINE q == a \div m
            r == a % m
            p == q \div n
            s == q % n
<1>1. q \in Nat /\ r \in 0 .. m - 1 /\ a = m * q + r  BY DivMod
<1>2. p \in Nat /\ s \in 0 .. n - 1 /\ q = n * p + s  BY <1>1, DivMod
<1>. HIDE DEF q, r, p, s
<1>3. a = (m * n) * p + (m * s + r)
  <2>1. m * (n * p + s) = (m * n) * p + m * s  BY <1>2
  <2>2. m * s \in Nat /\ (m * n) * p \in Nat  BY <1>2
  <2>. QED  BY <1>1, <1>2, <2>1, <2>2
<1>4. m * s + r \in 0 .. m * n - 1 /\ m * n \in Nat \ {0}
  <2>1. s \in Nat /\ n \in Nat /\ s < n /\ m \in Nat  BY <1>2
  <2>2. m * s + m <= m * n  BY <2>1, MulMonotone
  <2>3. m * s \in Nat /\ m * n \in Nat  BY <2>1
  <2>. QED  BY <1>1, <2>2, <2>3
<1>5. ((m * n) * p + (m * s + r)) \div (m * n) = p  BY <1>2, <1>4, ModUnique
<1>. QED  BY <1>3, <1>5 DEF p, q
-----------------------------------------------------------------------------
(* Every set of natural numbers has a least element.                       *)
LEMMA LeastNatural ==
  ASSUME NEW T \in SUBSET Nat, T # {}
  PROVE  \E n \in T : \A m \in T : n <= m
<1>. DEFINE R == OpToRel(<, Nat)
<1>1. IsWellFoundedOn(R, Nat)  BY NatLessThanWellFounded
<1>. HIDE DEF R
<1>2. PICK n \in T : \A m \in T : ~ (<<m, n>> \in R)  BY <1>1, WFMin
<1>3. \A m \in T : m < n => <<m, n>> \in R  BY DEF R, OpToRel
<1>4. \A m \in T : m \in Nat  OBVIOUS
<1>5. \A m \in T : ~ (m < n)  BY <1>2, <1>3
<1>. QED  BY <1>4, <1>5

(* Min picks the least member of a set of natural numbers.                 *)
LEMMA MinOfNaturals ==
  ASSUME NEW T \in SUBSET Nat, T # {}
  PROVE  Min(T) \in T /\ \A n \in T : Min(T) <= n
BY LeastNatural DEF Min

(* A set that has 0, and with each number the next, has all of them.       *)
LEMMA AllNaturals ==
  ASSUME NEW T \in SUBSET Nat, 0 \in T, \A n \in T : n + 1 \in T
  PROVE  T = Nat
<1>. SUFFICES ASSUME Nat \ T # {} PROVE FALSE  OBVIOUS
<1>1. PICK n \in Nat \ T : \A m \in Nat \ T : n <= m  BY LeastNatural
<1>2. n # 0 /\ n - 1 \in Nat  BY <1>1
<1>3. n - 1 \in T  BY <1>1, <1>2
<1>. QED  BY <1>1, <1>2, <1>3

(* A family of subsets of a finite set has a member with none inside it.   *)
LEMMA SmallestSet ==
  ASSUME NEW S, IsFiniteSet(S), NEW B \in SUBSET (SUBSET S), B # {}
  PROVE  \E T \in B : \A x \in T : T \ {x} \notin B
<1>. DEFINE C == {Cardinality(T) : T \in B}
<1>1. \A T \in B : IsFiniteSet(T) /\ Cardinality(T) \in Nat  BY FS_Subset, FS_CardinalityType
<1>2. C \in SUBSET Nat /\ C # {}  BY <1>1
<1>3. PICK n \in C : \A m \in C : n <= m  BY <1>2, LeastNatural
<1>4. PICK T \in B : Cardinality(T) = n  BY <1>3
<1>5. ASSUME NEW x \in T, T \ {x} \in B PROVE FALSE
  <2>1. Cardinality(T \ {x}) = n - 1  BY <1>1, <1>4, FS_RemoveElement
  <2>2. n <= n - 1 /\ n \in Nat  BY <1>2, <1>3, <1>5, <2>1
  <2>. QED  BY <2>2
<1>. QED  BY <1>4, <1>5
-----------------------------------------------------------------------------
(* The sum of w over a set, and one step of the library's recursion.       *)
Total(w, S) == MapThenSumSet(LAMBDA x : w[x], S)
Chosen(s) == CHOOSE x \in s : TRUE
SumStep(w, s, g) == IF s = {} THEN 0 ELSE w[Chosen(s)] + g[s \ {Chosen(s)}]
IsSum(w, S, g) == \A s \in SUBSET S : g[s] = SumStep(w, s, g)

(* A function that sums up every subset of a finite set exists.            *)
LEMMA SumExists ==
  ASSUME NEW S, IsFiniteSet(S), NEW w, \A x \in S : w[x] \in Int
  PROVE  \E g \in [SUBSET S -> Int] : IsSum(w, S, g)
<1>. DEFINE D(n) == {s \in SUBSET S : Cardinality(s) <= n}
            T == {n \in Nat : \E g \in [D(n) -> Int] : \A s \in D(n) : g[s] = SumStep(w, s, g)}
<1>0. \A s \in SUBSET S : IsFiniteSet(s) /\ Cardinality(s) \in Nat
  BY FS_Subset, FS_CardinalityType
<1>1. 0 \in T
  <2>1. \A s \in D(0) : s = {}  BY <1>0, FS_EmptySet
  <2>2. [s \in D(0) |-> 0] \in [D(0) -> Int]
        /\ \A s \in D(0) : [u \in D(0) |-> 0][s] = SumStep(w, s, [u \in D(0) |-> 0])
    BY <2>1 DEF SumStep
  <2>. QED  BY <2>2
<1>2. ASSUME NEW n \in T PROVE n + 1 \in T
  <2>1. PICK g \in [D(n) -> Int] : \A s \in D(n) : g[s] = SumStep(w, s, g)  BY <1>2
  <2>. DEFINE h == [s \in D(n + 1) |-> SumStep(w, s, g)]
  <2>2. ASSUME NEW s \in D(n + 1), s # {}
        PROVE  s \ {Chosen(s)} \in D(n) /\ w[Chosen(s)] \in Int
    <3>1. Chosen(s) \in s  BY <2>2 DEF Chosen
    <3>2. Cardinality(s \ {Chosen(s)}) = Cardinality(s) - 1  BY <1>0, <3>1, FS_RemoveElement
    <3>. QED  BY <1>0, <3>1, <3>2
  <2>3. h \in [D(n + 1) -> Int]  BY <2>2 DEF SumStep
  <2>4. D(n) \subseteq D(n + 1)  BY <1>0
  <2>5. \A s \in D(n) : h[s] = g[s]  BY <2>1, <2>4
  <2>6. \A s \in D(n + 1) : h[s] = SumStep(w, s, h)
    <3>1. ASSUME NEW s \in D(n + 1) PROVE SumStep(w, s, g) = SumStep(w, s, h)
      BY <2>2, <2>5 DEF SumStep
    <3>. QED  BY <3>1
  <2>. HIDE DEF h, D
  <2>7. \E f \in [D(n + 1) -> Int] : \A s \in D(n + 1) : f[s] = SumStep(w, s, f)
    BY <2>3, <2>6
  <2>8. n + 1 \in Nat  BY <1>2
  <2>. QED  BY <2>7, <2>8
<1>3. T = Nat
  <2>. HIDE DEF T
  <2>1. T \in SUBSET Nat  BY DEF T
  <2>. QED  BY <1>1, <1>2, <2>1, AllNaturals
<1>4. Cardinality(S) \in T  BY <1>0, <1>3
<1>5. D(Cardinality(S)) = SUBSET S  BY FS_Subset
<1>. QED  BY <1>4, <1>5 DEF IsSum

(* Two such functions agree where both are defined.                        *)
LEMMA SumUnique ==
  ASSUME NEW A, IsFiniteSet(A), NEW B, NEW w, NEW v, NEW g, NEW h,
         IsSum(w, A, g), IsSum(v, B, h), NEW S \in SUBSET (A \cap B),
         \A x \in S : w[x] = v[x]
  PROVE  g[S] = h[S]
<1>. DEFINE Bad == {s \in SUBSET S : g[s] # h[s]}
<1>. SUFFICES ASSUME Bad # {} PROVE FALSE  OBVIOUS
<1>1. IsFiniteSet(S)  BY FS_Subset
<1>2. PICK T \in Bad : \A x \in T : T \ {x} \notin Bad  BY <1>1, SmallestSet
<1>3. g[T] = SumStep(w, T, g) /\ h[T] = SumStep(v, T, h)  BY DEF IsSum
<1>4. CASE T = {}  BY <1>2, <1>3, <1>4 DEF SumStep
<1>5. CASE T # {}
  <2>1. Chosen(T) \in T  BY <1>5 DEF Chosen
  <2>2. g[T \ {Chosen(T)}] = h[T \ {Chosen(T)}]  BY <1>2, <2>1
  <2>. QED  BY <1>2, <1>3, <1>5, <2>1, <2>2 DEF SumStep
<1>. QED  BY <1>4, <1>5

(* The library's sum is the value of such a function.                      *)
LEMMA TotalIs ==
  ASSUME NEW S, IsFiniteSet(S), NEW w, \A x \in S : w[x] \in Int
  PROVE  \E g \in [SUBSET S -> Int] : IsSum(w, S, g) /\ Total(w, S) = g[S]
<1>1. PICK g \in [SUBSET S -> Int] : IsSum(w, S, g)  BY SumExists
<1>2. g = [s \in SUBSET S |-> SumStep(w, s, g)]  BY <1>1 DEF IsSum
<1>. DEFINE it == CHOOSE h : h = [s \in SUBSET S |-> SumStep(w, s, h)]
<1>3. Total(w, S) = it[S]
  BY DEF Total, MapThenSumSet, MapThenFoldSet, SumStep, Chosen
<1>4. it = [s \in SUBSET S |-> SumStep(w, s, it)]  BY <1>2
<1>. HIDE DEF it
<1>5. IsSum(w, S, it)  BY <1>4, Zenon DEF IsSum
<1>6. \A x \in S : w[x] = w[x]  OBVIOUS
<1>7. S \in SUBSET (S \cap S)  OBVIOUS
<1>8. it[S] = g[S]  BY <1>1, <1>5, <1>6, <1>7, SumUnique
<1>. QED  BY <1>1, <1>3, <1>8

(* A sum is an integer, the sum of nothing is 0, and taking any one        *)
(* element out of the set takes its value out of the sum.                  *)
LEMMA SumRemove ==
  ASSUME NEW S, IsFiniteSet(S), NEW w, \A x \in S : w[x] \in Int
  PROVE  /\ Total(w, S) \in Int
         /\ S = {} => Total(w, S) = 0
         /\ \A x \in S : Total(w, S) = w[x] + Total(w, S \ {x})
<1>1. PICK g \in [SUBSET S -> Int] : IsSum(w, S, g) /\ Total(w, S) = g[S]  BY TotalIs
<1>2. \A T \in SUBSET S : IsFiniteSet(T)  BY FS_Subset
<1>3. ASSUME NEW T \in SUBSET S
      PROVE  Total(w, T) = g[T]
  <2>1. PICK h \in [SUBSET T -> Int] : IsSum(w, T, h) /\ Total(w, T) = h[T]
    BY <1>2, TotalIs
  <2>2. T \in SUBSET (S \cap T) /\ \A x \in T : w[x] = w[x]  OBVIOUS
  <2>3. g[T] = h[T]  BY <1>1, <2>1, <2>2, SumUnique
  <2>. QED  BY <2>1, <2>3
<1>. DEFINE Bad == {T \in SUBSET S : \E x \in T : g[T] # w[x] + g[T \ {x}]}
<1>4. Bad = {}
  <2>. SUFFICES ASSUME Bad # {} PROVE FALSE  OBVIOUS
  <2>1. PICK T \in Bad : \A x \in T : T \ {x} \notin Bad  BY SmallestSet
  <2>2. PICK x \in T : g[T] # w[x] + g[T \ {x}]  BY <2>1
  <2>. DEFINE y == Chosen(T)
  <2>3. y \in T  BY <2>2 DEF Chosen
  <2>4. g[T] = w[y] + g[T \ {y}]  BY <1>1, <2>2 DEF IsSum, SumStep
  <2>. HIDE DEF y
  <2>5. x # y  BY <2>2, <2>4
  <2>6. g[T \ {x}] = w[y] + g[(T \ {x}) \ {y}]
    <3>1. T \ {x} \notin Bad /\ y \in T \ {x}  BY <2>1, <2>2, <2>3, <2>5
    <3>. QED  BY <2>1, <3>1
  <2>7. g[T \ {y}] = w[x] + g[(T \ {y}) \ {x}]
    <3>1. T \ {y} \notin Bad /\ x \in T \ {y}  BY <2>1, <2>2, <2>3, <2>5
    <3>. QED  BY <2>1, <3>1
  <2>8. (T \ {x}) \ {y} = (T \ {y}) \ {x}  OBVIOUS
  <2>9. w[x] \in Int /\ w[y] \in Int /\ g[(T \ {x}) \ {y}] \in Int
    BY <1>1, <2>1, <2>2, <2>3
  <2>10. PICK a \in Int, b \in Int, c \in Int :
           /\ a = w[x] /\ b = w[y] /\ c = g[(T \ {x}) \ {y}]
    BY <2>9
  <2>11. g[T] = b + (a + c) /\ g[T \ {x}] = b + c  BY <2>4, <2>6, <2>7, <2>8, <2>10
  <2>12. b + (a + c) = a + (b + c)  BY <2>10
  <2>. QED  BY <2>2, <2>10, <2>11, <2>12
<1>5. ASSUME NEW x \in S PROVE Total(w, S) = w[x] + Total(w, S \ {x})
  <2>1. g[S] = w[x] + g[S \ {x}]  BY <1>4
  <2>. QED  BY <1>1, <1>3, <2>1
<1>6. S = {} => Total(w, S) = 0  BY <1>1 DEF IsSum, SumStep
<1>. QED  BY <1>1, <1>5, <1>6

(* The sum depends on the values in the set only.                          *)
LEMMA SumSame ==
  ASSUME NEW S, IsFiniteSet(S), NEW w, NEW v,
         \A x \in S : w[x] \in Int /\ w[x] = v[x]
  PROVE  Total(w, S) = Total(v, S)
<1>1. PICK g \in [SUBSET S -> Int] : IsSum(w, S, g) /\ Total(w, S) = g[S]  BY TotalIs
<1>2. PICK h \in [SUBSET S -> Int] : IsSum(v, S, h) /\ Total(v, S) = h[S]  BY TotalIs
<1>3. S \in SUBSET (S \cap S)  OBVIOUS
<1>. QED  BY <1>1, <1>2, <1>3, SumUnique

(* Sums are monotone, and strictly so where one term is less.              *)
LEMMA SumMonotone ==
  ASSUME NEW S, IsFiniteSet(S), NEW w, NEW v,
         \A x \in S : w[x] \in Int /\ v[x] \in Int /\ w[x] <= v[x]
  PROVE  /\ Total(w, S) <= Total(v, S)
         /\ \A x \in S : w[x] < v[x] => Total(w, S) < Total(v, S)
<1>. DEFINE Bad == {T \in SUBSET S : ~ (Total(w, T) <= Total(v, T))}
<1>1. \A T \in SUBSET S : IsFiniteSet(T)  BY FS_Subset
<1>2. ASSUME NEW T \in SUBSET S
      PROVE  /\ Total(w, T) \in Int
             /\ T = {} => Total(w, T) = 0
             /\ \A x \in T : Total(w, T) = w[x] + Total(w, T \ {x})
  <2>1. IsFiniteSet(T) /\ \A x \in T : w[x] \in Int  BY <1>1
  <2>. QED  BY <2>1, SumRemove
<1>3. ASSUME NEW T \in SUBSET S
      PROVE  /\ Total(v, T) \in Int
             /\ T = {} => Total(v, T) = 0
             /\ \A x \in T : Total(v, T) = v[x] + Total(v, T \ {x})
  <2>1. IsFiniteSet(T) /\ \A x \in T : v[x] \in Int  BY <1>1
  <2>. QED  BY <2>1, SumRemove
<1>4. Bad = {}
  <2>. SUFFICES ASSUME Bad # {} PROVE FALSE  OBVIOUS
  <2>1. PICK T \in Bad : \A x \in T : T \ {x} \notin Bad  BY SmallestSet
  <2>2. T # {}  BY <1>2, <1>3, <2>1
  <2>3. PICK x \in T : TRUE  BY <2>2
  <2>4. T \ {x} \in SUBSET S /\ Total(w, T \ {x}) <= Total(v, T \ {x})  BY <2>1, <2>3
  <2>5. /\ Total(w, T \ {x}) \in Int /\ Total(v, T \ {x}) \in Int
        /\ Total(w, T) = w[x] + Total(w, T \ {x})
        /\ Total(v, T) = v[x] + Total(v, T \ {x})
    BY <1>2, <1>3, <2>1, <2>3, <2>4
  <2>6. Total(w, T) <= Total(v, T)  BY <2>3, <2>4, <2>5
  <2>. QED  BY <2>1, <2>6
<1>5. \A T \in SUBSET S : Total(w, T) <= Total(v, T)  BY <1>4
<1>6. ASSUME NEW x \in S, w[x] < v[x]
      PROVE  Total(w, S) < Total(v, S)
  <2>1. S \in SUBSET S /\ S \ {x} \in SUBSET S  OBVIOUS
  <2>2. /\ Total(w, S \ {x}) \in Int /\ Total(v, S \ {x}) \in Int
        /\ Total(w, S) = w[x] + Total(w, S \ {x})
        /\ Total(v, S) = v[x] + Total(v, S \ {x})
    BY <1>2, <1>3, <2>1
  <2>3. Total(w, S \ {x}) <= Total(v, S \ {x})  BY <1>5, <2>1
  <2>. QED  BY <1>6, <2>2, <2>3
<1>. QED  BY <1>5, <1>6

(* The sum of sums.                                                        *)
LEMMA SumPlus ==
  ASSUME NEW S, IsFiniteSet(S), NEW w, NEW v, NEW u,
         \A x \in S : v[x] \in Int /\ u[x] \in Int /\ w[x] = v[x] + u[x]
  PROVE  Total(w, S) = Total(v, S) + Total(u, S)
<1>. DEFINE Bad == {T \in SUBSET S : Total(w, T) # Total(v, T) + Total(u, T)}
<1>. SUFFICES ASSUME Bad # {} PROVE FALSE  OBVIOUS
<1>1. PICK T \in Bad : \A x \in T : T \ {x} \notin Bad  BY SmallestSet
<1>2. IsFiniteSet(T) /\ \A x \in T : w[x] \in Int  BY FS_Subset
<1>3. \A x \in T : v[x] \in Int  OBVIOUS
<1>4. \A x \in T : u[x] \in Int  OBVIOUS
<1>5. /\ T = {} => Total(w, T) = 0
      /\ \A x \in T : Total(w, T) = w[x] + Total(w, T \ {x})
  BY <1>2, SumRemove
<1>6. /\ Total(v, T) \in Int
      /\ T = {} => Total(v, T) = 0
      /\ \A x \in T : Total(v, T) = v[x] + Total(v, T \ {x})
  BY <1>2, <1>3, SumRemove
<1>7. /\ Total(u, T) \in Int
      /\ T = {} => Total(u, T) = 0
      /\ \A x \in T : Total(u, T) = u[x] + Total(u, T \ {x})
  BY <1>2, <1>4, SumRemove
<1>8. PICK x \in T : TRUE
  <2>1. CASE T = {}
    <3>1. Total(w, T) = 0 /\ Total(v, T) = 0 /\ Total(u, T) = 0
      BY <1>5, <1>6, <1>7, <2>1
    <3>. QED  BY <1>1, <3>1
  <2>. QED  BY <2>1
<1>9. Total(w, T \ {x}) = Total(v, T \ {x}) + Total(u, T \ {x})
  BY <1>1, <1>8
<1>10. Total(v, T \ {x}) \in Int /\ Total(u, T \ {x}) \in Int
  <2>1. IsFiniteSet(T \ {x}) /\ \A y \in T \ {x} : v[y] \in Int  BY <1>2, FS_Subset
  <2>2. \A y \in T \ {x} : u[y] \in Int  OBVIOUS
  <2>. QED  BY <2>1, <2>2, SumRemove
<1>11. Total(w, T) = Total(v, T) + Total(u, T)
  <2>1. /\ Total(w, T) = w[x] + Total(w, T \ {x})
        /\ Total(v, T) = v[x] + Total(v, T \ {x})
        /\ Total(u, T) = u[x] + Total(u, T \ {x})
    BY <1>5, <1>6, <1>7, <1>8
  <2>2. v[x] \in Int /\ u[x] \in Int /\ w[x] = v[x] + u[x]  BY <1>8
  <2>. HIDE DEF Bad
  <2>. QED  BY <1>9, <1>10, <2>1, <2>2
<1>. QED  BY <1>1, <1>11

(* Terms that are 0 may be left out.                                       *)
LEMMA SumSupport ==
  ASSUME NEW S, IsFiniteSet(S), NEW w, NEW A \in SUBSET S,
         \A x \in S : w[x] \in Int, \A x \in S \ A : w[x] = 0
  PROVE  Total(w, S) = Total(w, A)
<1>. DEFINE Bad == {T \in SUBSET S : A \subseteq T /\ Total(w, T) # Total(w, A)}
<1>. SUFFICES ASSUME Bad # {} PROVE FALSE  OBVIOUS
<1>1. PICK T \in Bad : \A x \in T : T \ {x} \notin Bad
  <2>1. Bad \in SUBSET (SUBSET S)  OBVIOUS
  <2>. HIDE DEF Bad
  <2>. QED  BY <2>1, SmallestSet
<1>2. PICK x \in T : x \notin A  BY <1>1
<1>3. Total(w, T \ {x}) = Total(w, A)  BY <1>1, <1>2
<1>4. IsFiniteSet(T) /\ IsFiniteSet(A) /\ \A y \in T : w[y] \in Int  BY FS_Subset
<1>5. Total(w, T) = w[x] + Total(w, T \ {x})  BY <1>4, SumRemove
<1>6. Total(w, A) \in Int
  <2>1. \A y \in A : w[y] \in Int  OBVIOUS
  <2>. QED  BY <1>4, <2>1, SumRemove
<1>7. w[x] = 0  BY <1>2
<1>. QED  BY <1>1, <1>3, <1>5, <1>6, <1>7

(* A sum of zeros is 0.                                                    *)
LEMMA SumZero ==
  ASSUME NEW S, IsFiniteSet(S)
  PROVE  Total([x \in S |-> 0], S) = 0
<1>. DEFINE w == [x \in S |-> 0]
<1>1. \A x \in S : w[x] \in Int  OBVIOUS
<1>2. {} \in SUBSET S /\ \A x \in S \ {} : w[x] = 0  OBVIOUS
<1>3. Total(w, S) = Total(w, {})  BY <1>1, <1>2, SumSupport
<1>4. Total(w, {}) = 0
  <2>1. IsFiniteSet({}) /\ \A x \in {} : w[x] \in Int  BY FS_EmptySet
  <2>. QED  BY <2>1, SumRemove
<1>. QED  BY <1>3, <1>4

(* A sum of ones is a number of members.                                   *)
LEMMA SumOnes ==
  ASSUME NEW S, IsFiniteSet(S), NEW w, \A x \in S : w[x] = 1
  PROVE  Total(w, S) = Cardinality(S)
<1>. DEFINE Bad == {T \in SUBSET S : Total(w, T) # Cardinality(T)}
<1>. SUFFICES ASSUME Bad # {} PROVE FALSE  OBVIOUS
<1>1. PICK T \in Bad : \A x \in T : T \ {x} \notin Bad  BY SmallestSet
<1>2. IsFiniteSet(T) /\ Cardinality(T) \in Nat  BY FS_Subset, FS_CardinalityType
<1>3. \A x \in T : w[x] \in Int  OBVIOUS
<1>4. /\ T = {} => Total(w, T) = 0
      /\ \A x \in T : Total(w, T) = w[x] + Total(w, T \ {x})
  BY <1>2, <1>3, SumRemove
<1>5. PICK x \in T : TRUE  BY <1>1, <1>4, FS_EmptySet
<1>6. Cardinality(T \ {x}) = Cardinality(T) - 1  BY <1>2, <1>5, FS_RemoveElement
<1>7. Total(w, T \ {x}) = Cardinality(T \ {x})  BY <1>1, <1>5
<1>. QED  BY <1>1, <1>2, <1>4, <1>5, <1>6, <1>7
-----------------------------------------------------------------------------
(* Powers of two, by the number of subsets of a set.                       *)
LEMMA PowerStep ==
  ASSUME NEW n \in Nat
  PROVE  2^n \in Nat \ {0} /\ 2^(n + 1) = 2 * 2^n
<1>. DEFINE A == 1 .. n
            B == 1 .. n + 1
            P == SUBSET A
            Q == {s \in SUBSET B : n + 1 \in s}
<1>1. IsFiniteSet(A) /\ Cardinality(A) = n /\ IsFiniteSet(B) /\ Cardinality(B) = n + 1
  <2>1. n \in Int /\ n + 1 \in Int /\ 1 \in Int /\ ~ (1 > n + 1) /\ n + 1 - 1 + 1 = n + 1  OBVIOUS
  <2>2. Cardinality(A) = IF 1 > n THEN 0 ELSE n - 1 + 1  BY <2>1, FS_Interval
  <2>. QED  BY <2>1, <2>2, FS_Interval
<1>2. /\ Cardinality(P) = 2^n /\ IsFiniteSet(P)
      /\ Cardinality(SUBSET B) = 2^(n + 1) /\ IsFiniteSet(SUBSET B)
  BY <1>1, FS_SUBSET
<1>3. SUBSET B = P \cup Q /\ P \cap Q = {}
  <2>1. B = A \cup {n + 1} /\ n + 1 \notin A  OBVIOUS
  <2>. HIDE DEF A, B
  <2>. QED  BY <2>1
<1>4. IsFiniteSet(Q) /\ Cardinality(Q) = Cardinality(P)
  <2>. DEFINE f == [s \in P |-> s \cup {n + 1}]
  <2>1. B = A \cup {n + 1} /\ n + 1 \notin A  OBVIOUS
  <2>. HIDE DEF A, B
  <2>2. f \in Bijection(P, Q)
    <3>1. \A s \in P : f[s] \in Q  BY <2>1
    <3>2. \A s, t \in P : f[s] = f[t] => s = t
      <4>1. \A s \in P : f[s] \ {n + 1} = s  BY <2>1
      <4>. QED  BY <4>1
    <3>3. \A q \in Q : \E s \in P : f[s] = q
      <4>1. \A q \in Q : q \ {n + 1} \in P /\ f[q \ {n + 1}] = q  BY <2>1
      <4>. QED  BY <4>1
    <3>. QED  BY <3>1, <3>2, <3>3 DEF Bijection, Injection, Surjection, IsInjective
  <2>3. ExistsBijection(P, Q)  BY <2>2 DEF ExistsBijection
  <2>. QED  BY <1>2, <2>3, FS_Bijection
<1>5. Cardinality(P \cup Q) = Cardinality(P) + Cardinality(Q) - Cardinality(P \cap Q)
  BY <1>2, <1>4, FS_Union
<1>6. Cardinality(P) \in Nat /\ Cardinality(P \cap Q) = 0
  BY <1>2, <1>3, FS_CardinalityType, FS_EmptySet
<1>7. Cardinality(P) # 0  BY <1>2, FS_EmptySet
<1>8. 2^(n + 1) = 2 * Cardinality(P)
  <2>. HIDE DEF P, Q, B
  <2>1. Cardinality(SUBSET B) = Cardinality(P) + Cardinality(P) - 0
    BY <1>3, <1>4, <1>5, <1>6
  <2>2. 2^(n + 1) = Cardinality(SUBSET B)  BY <1>2
  <2>. QED  BY <1>6, <2>1, <2>2
<1>. HIDE DEF P
<1>. QED  BY <1>2, <1>6, <1>7, <1>8

(* The power of a sum is the product of the powers.                        *)
LEMMA PowerAdd ==
  ASSUME NEW a \in Nat, NEW b \in Nat
  PROVE  2^(a + b) = 2^a * 2^b
<1>. DEFINE T == {n \in Nat : 2^(a + n) = 2^a * 2^n}
<1>1. 0 \in T
  <2>1. a + 0 = a /\ 2^0 = 1 /\ 2^a \in Nat  BY PowerStep
  <2>. QED  BY <2>1
<1>2. ASSUME NEW n \in T PROVE n + 1 \in T
  <2>1. a + (n + 1) = (a + n) + 1 /\ a + n \in Nat  OBVIOUS
  <2>2. 2^(a + (n + 1)) = 2 * 2^(a + n)  BY <2>1, PowerStep
  <2>3. 2^(a + n) = 2^a * 2^n /\ 2^(n + 1) = 2 * 2^n  BY PowerStep
  <2>4. 2^a \in Nat /\ 2^n \in Nat  BY PowerStep
  <2>5. \A u, v \in Nat : 2 * (u * v) = u * (2 * v)  OBVIOUS
  <2>. QED  BY <2>2, <2>3, <2>4, <2>5
<1>3. T = Nat
  <2>1. T \in SUBSET Nat  OBVIOUS
  <2>. HIDE DEF T
  <2>. QED  BY <1>1, <1>2, <2>1, AllNaturals
<1>. QED  BY <1>3

(* A greater power is at least twice as much.                              *)
LEMMA PowerMonotone ==
  ASSUME NEW a \in Nat, NEW b \in Nat, a < b
  PROVE  2 * 2^a <= 2^b
<1>1. PICK c \in Nat : b = (a + 1) + c
  <2>1. b - a - 1 \in Nat /\ b = (a + 1) + (b - a - 1)  OBVIOUS
  <2>. QED  BY <2>1
<1>2. 2^b = (2 * 2^a) * 2^c
  <2>1. a + 1 \in Nat  OBVIOUS
  <2>2. 2^((a + 1) + c) = 2^(a + 1) * 2^c  BY <2>1, PowerAdd
  <2>3. 2^(a + 1) = 2 * 2^a  BY PowerStep
  <2>. QED  BY <1>1, <2>2, <2>3
<1>3. 2^a \in Nat /\ 2^c \in Nat \ {0}  BY PowerStep
<1>4. \A u \in Nat, v \in Nat \ {0} : u * v >= u
  <2>. TAKE u \in Nat, v \in Nat \ {0}
  <2>1. u * v = u * (v - 1) + u /\ v - 1 \in Nat  OBVIOUS
  <2>2. u * (v - 1) \in Nat  BY <2>1
  <2>. QED  BY <2>1, <2>2
<1>. QED  BY <1>2, <1>3, <1>4
-----------------------------------------------------------------------------
(* The place of a number in a set of them.                                 *)
Rank(R, i) == Cardinality({j \in R : j <= i})

(* The places of a finite set go up with its members, from 1 to their      *)
(* number, and none is left out.                                           *)
LEMMA Ranks ==
  ASSUME NEW R \in SUBSET Nat, IsFiniteSet(R)
  PROVE  /\ Cardinality(R) \in Nat
         /\ \A i \in R : Rank(R, i) \in 1 .. Cardinality(R)
         /\ \A i, j \in R : i < j => Rank(R, i) < Rank(R, j)
         /\ \A k \in 1 .. Cardinality(R) : \E i \in R : Rank(R, i) = k
<1>. DEFINE L(i) == {j \in R : j <= i}
<1>1. Cardinality(R) \in Nat  BY FS_CardinalityType
<1>2. \A i \in Nat : IsFiniteSet(L(i)) /\ Cardinality(L(i)) \in Nat /\ Cardinality(L(i)) <= Cardinality(R)
  <2>. SUFFICES ASSUME NEW i \in Nat
                PROVE  IsFiniteSet(L(i)) /\ Cardinality(L(i)) \in Nat
                       /\ Cardinality(L(i)) <= Cardinality(R)
    OBVIOUS
  <2>1. L(i) \in SUBSET R  OBVIOUS
  <2>. HIDE DEF L
  <2>. QED  BY <2>1, FS_Subset, FS_CardinalityType
<1>3. ASSUME NEW i \in R PROVE Cardinality(L(i)) # 0
  <2>1. i \in L(i)  OBVIOUS
  <2>2. IsFiniteSet(L(i))  BY <1>2
  <2>. HIDE DEF L
  <2>. QED  BY <2>1, <2>2, FS_EmptySet
<1>4. ASSUME NEW i \in R, NEW j \in R, i < j PROVE Cardinality(L(i)) < Cardinality(L(j))
  <2>1. L(i) \in SUBSET L(j) /\ j \in L(j) /\ j \notin L(i)
    <3>1. \A a \in R : a \in Nat  OBVIOUS
    <3>2. \A a \in R : a <= i => a <= j  BY <1>4, <3>1
    <3>3. j <= j /\ ~ (j <= i)  BY <1>4, <3>1
    <3>. QED  BY <3>2, <3>3
  <2>2. IsFiniteSet(L(j)) /\ Cardinality(L(i)) \in Nat /\ Cardinality(L(j)) \in Nat  BY <1>2
  <2>3. Cardinality(L(i)) <= Cardinality(L(j)) /\ Cardinality(L(i)) # Cardinality(L(j))
    <3>. HIDE DEF L
    <3>1. L(i) # L(j)  BY <2>1
    <3>2. /\ Cardinality(L(i)) <= Cardinality(L(j))
          /\ Cardinality(L(j)) = Cardinality(L(i)) => L(j) = L(i)
      BY <2>1, <2>2, FS_Subset
    <3>. QED  BY <3>1, <3>2
  <2>. QED  BY <2>2, <2>3
<1>5. ASSUME NEW k \in 1 .. Cardinality(R) PROVE \E i \in R : Cardinality(L(i)) = k
  <2>. SUFFICES ASSUME \A i \in R : Cardinality(L(i)) # k PROVE FALSE  OBVIOUS
  <2>. DEFINE T == (1 .. Cardinality(R)) \ {k}
              f == [i \in R |-> Cardinality(L(i))]
  <2>1. IsFiniteSet(1 .. Cardinality(R)) /\ Cardinality(1 .. Cardinality(R)) = Cardinality(R)
    <3>1. 1 \in Int /\ Cardinality(R) \in Int  BY <1>1
    <3>2. /\ IsFiniteSet(1 .. Cardinality(R))
          /\ Cardinality(1 .. Cardinality(R)) =
               IF 1 > Cardinality(R) THEN 0 ELSE Cardinality(R) - 1 + 1
      BY <3>1, FS_Interval
    <3>. QED  BY <1>1, <3>2
  <2>2. IsFiniteSet(T) /\ Cardinality(T) = Cardinality(R) - 1
    BY <2>1, FS_RemoveElement
  <2>3. f \in [R -> T]
    <3>. SUFFICES ASSUME NEW i \in R PROVE Cardinality(L(i)) \in T  OBVIOUS
    <3>1. Cardinality(L(i)) \in Nat /\ Cardinality(L(i)) <= Cardinality(R) /\ Cardinality(L(i)) # 0
      BY <1>2, <1>3
    <3>2. Cardinality(L(i)) # k  OBVIOUS
    <3>. HIDE DEF L
    <3>. QED  BY <1>1, <3>1, <3>2
  <2>4. Cardinality(T) < Cardinality(R)  BY <1>1, <2>2
  <2>. HIDE DEF T
  <2>5. PICK i \in R, j \in R : i # j /\ f[i] = f[j]
    <3>. HIDE DEF f
    <3>. QED  BY <2>2, <2>3, <2>4, FS_PigeonHole
  <2>6. Cardinality(L(i)) = Cardinality(L(j))  BY <2>5
  <2>7. i < j \/ j < i  BY <2>5
  <2>8. Cardinality(L(i)) \in Nat /\ Cardinality(L(j)) \in Nat  BY <1>2
  <2>9. Cardinality(L(i)) < Cardinality(L(j)) \/ Cardinality(L(j)) < Cardinality(L(i))
    BY <1>4, <2>7
  <2>. HIDE DEF L
  <2>. QED  BY <2>6, <2>8, <2>9
<1>. HIDE DEF L
<1>6. \A i \in R : Cardinality(L(i)) \in 1 .. Cardinality(R)
  <2>. SUFFICES ASSUME NEW i \in R PROVE Cardinality(L(i)) \in 1 .. Cardinality(R)  OBVIOUS
  <2>1. Cardinality(L(i)) \in Nat /\ Cardinality(L(i)) <= Cardinality(R) /\ Cardinality(L(i)) # 0
    BY <1>2, <1>3
  <2>. QED  BY <1>1, <2>1
<1>. QED  BY <1>1, <1>4, <1>5, <1>6 DEF Rank, L
=============================================================================
