-------------------------- MODULE ParserSage_proofs --------------------------
(***************************************************************************)
(* Proofs about ParserSage: for every file, however long, and every        *)
(* masking, the second pass stays within what the first one counted, and   *)
(* the gadget that gadget_fromRaw makes computes what the file says, with  *)
(* the probes of the circuit in which every further read is a copy.        *)
(*                                                                         *)
(* The invariant (IInv) relates wires_n and wires_v, where a name that is  *)
(* assigned again loses its value, to Stands, which says of any line what  *)
(* a name stands for there: the names of the wires are the known ones, and *)
(* in the second pass a wire's value is the number of its name's           *)
(* definition.  So an operation reads what its line says, mult counts the  *)
(* readers, and the second pass, which finds a name exactly if it is       *)
(* known, finds all that the first one found.                              *)
(*                                                                         *)
(* When it is done, both sides are recursive: the values of definitions    *)
(* follow the lines, and those of wires the gadget's operations.  They     *)
(* agree by induction over the operations, as each one reads wires that    *)
(* operations before it wrote, each with the value of the definition that  *)
(* the name in the line stands for.                                        *)
(***************************************************************************)
EXTENDS ParserSage, NumberLemmas

(* The lines and the files there are, and the number of their inputs.    *)
LineSet ==
  [ret : Assigned(header), operation : {"XOR", "AND"}, v1 : Names(header), v2 : Names(header)]

FileRight ==
  /\ file \in [header : Headers, body : Seq(LineSet)]
  /\ file = [header |-> header, body |-> file.body]

NI == numMaskedIns + Len(header.rnds)

(* What an assumption says of the header of the file.                    *)
LEMMA HeaderIs ==
  ASSUME FileRight
  PROVE  /\ header \in Headers
         /\ header.d \in Nat \ {0}
         /\ IsInjective(header.ins) /\ IsInjective(header.rnds)
         /\ header.ins \in Seq(ToSet(header.ins)) /\ header.rnds \in Seq(ToSet(header.rnds))
         /\ header.outs \in Seq(ToSet(header.outs))
         /\ \A name \in ToSet(header.rnds) : name \notin ToSet(header.ins) \X Nat
         /\ Assigned(header) \subseteq Names(header)
         /\ Len(header.ins) \in Nat /\ Len(header.rnds) \in Nat /\ Len(header.outs) \in Nat
         /\ numMaskedIns \in Nat /\ numMaskedOuts \in Nat /\ NI \in Nat
         /\ file.body \in Seq(LineSet) /\ Len(file.body) \in Nat
<1>1. header \in Headers /\ file.body \in Seq(LineSet)  BY DEF FileRight, header
<1>2. /\ header.d \in Nat \ {0}
      /\ IsInjective(header.ins) /\ IsInjective(header.rnds)
      /\ header.ins \in Seq(ToSet(header.ins)) /\ header.rnds \in Seq(ToSet(header.rnds))
      /\ header.outs \in Seq(ToSet(header.outs))
      /\ \A name \in ToSet(header.rnds) : name \notin ToSet(header.ins) \X Nat
      /\ Assigned(header) \subseteq Names(header)
  BY <1>1, HeadersAssumption
<1>3. Len(header.ins) \in Nat /\ Len(header.rnds) \in Nat /\ Len(header.outs) \in Nat
  BY <1>2
<1>4. \A u, v \in Nat : u * v \in Nat  OBVIOUS
<1>5. numMaskedIns \in Nat /\ numMaskedOuts \in Nat
  BY <1>2, <1>3, <1>4 DEF numMaskedIns, numMaskedOuts
<1>6. NI \in Nat  BY <1>3, <1>5 DEF NI
<1>. QED  BY <1>1, <1>2, <1>3, <1>5, <1>6

(* Quotient and remainder make up the number.                            *)
LEMMA SameDivMod ==
  ASSUME NEW n \in Nat \ {0}, NEW a \in Nat, NEW b \in Nat, a \div n = b \div n, a % n = b % n
  PROVE  a = b
<1>1. a = n * (a \div n) + (a % n)  BY DivMod
<1>2. b = n * (b \div n) + (b % n)  BY DivMod
<1>. DEFINE q == a \div n
            m == a % n
<1>3. a = n * q + m /\ b = n * q + m  BY <1>1, <1>2
<1>. HIDE DEF q, m
<1>. QED  BY <1>3

(* A share of an input has a place of its own.                           *)
InputName(k) ==
  IF k <= numMaskedIns
  THEN Share(header.ins[(k - 1) \div header.d + 1], (k - 1) % header.d)
  ELSE header.rnds[k - numMaskedIns]

(* The inputs in their order: the shares, input by input, and then the   *)
(* random inputs.                                                        *)
LEMMA InputNamesAre ==
  ASSUME FileRight
  PROVE  /\ Len(InputNames) = NI /\ DOMAIN InputNames = 1 .. NI
         /\ \A k \in 1 .. NI : InputNames[k] = InputName(k)
<1>. DEFINE h == [k \in 1 .. numMaskedIns |->
                    Share(header.ins[(k - 1) \div header.d + 1], (k - 1) % header.d)]
            S == {h[k] : k \in 1 .. numMaskedIns} \cup ToSet(header.rnds)
            t == header.rnds
<1>1. numMaskedIns \in Nat /\ t \in Seq(ToSet(header.rnds)) /\ Len(t) \in Nat  BY HeaderIs
<1>2. \A k \in 1 .. numMaskedIns : h[k] \in S  OBVIOUS
<1>3. h \in Seq(S) /\ Len(h) = numMaskedIns /\ DOMAIN h = 1 .. numMaskedIns
  <2>. HIDE DEF S
  <2>1. DOMAIN h = 1 .. numMaskedIns  OBVIOUS
  <2>2. h \in [1 .. numMaskedIns -> S]  BY <1>2
  <2>. HIDE DEF h
  <2>. QED  BY <1>1, <2>1, <2>2
<1>4. t \in Seq(S)
  <2>1. ToSet(header.rnds) \subseteq S  OBVIOUS
  <2>. HIDE DEF S
  <2>. QED  BY <1>1, <2>1
<1>5. InputNames = h \o t  BY DEF InputNames
<1>6. \A k \in 1 .. numMaskedIns :
        h[k] = Share(header.ins[(k - 1) \div header.d + 1], (k - 1) % header.d)
  OBVIOUS
<1>. HIDE DEF S, h
<1>7. /\ h \o t \in Seq(S) /\ Len(h \o t) = NI
      /\ \A k \in 1 .. NI : (h \o t)[k] = IF k <= numMaskedIns THEN h[k] ELSE t[k - numMaskedIns]
  BY <1>1, <1>3, <1>4 DEF NI
<1>8. DOMAIN (h \o t) = 1 .. NI
  <2>. DEFINE s == h \o t
  <2>1. s \in Seq(S) /\ Len(s) = NI  BY <1>7
  <2>. HIDE DEF s
  <2>2. DOMAIN s = 1 .. NI  BY <2>1
  <2>. QED  BY <2>2 DEF s
<1>9. ASSUME NEW k \in 1 .. NI PROVE InputNames[k] = InputName(k)
  <2>1. CASE k <= numMaskedIns
    <3>1. k \in 1 .. numMaskedIns  BY <2>1, <1>1
    <3>2. InputNames[k] = h[k]  BY <1>5, <1>7, <2>1
    <3>. QED  BY <1>6, <2>1, <3>1, <3>2 DEF InputName
  <2>2. CASE ~ (k <= numMaskedIns)
    <3>. QED  BY <1>5, <1>7, <2>2 DEF InputName
  <2>. QED  BY <2>1, <2>2
<1>. QED  BY <1>5, <1>7, <1>8, <1>9

(* The shares of the inputs, and of the outputs, are numbered without    *)
(* gaps.                                                                 *)
LEMMA SharePlace ==
  ASSUME FileRight, NEW n \in Nat, NEW k \in 0 .. n * header.d - 1
  PROVE  /\ k \div header.d \in 0 .. n - 1
         /\ k % header.d \in 0 .. header.d - 1
         /\ k = header.d * (k \div header.d) + (k % header.d)
<1>1. header.d \in Nat \ {0}  BY HeaderIs
<1>2. k \div header.d \in 0 .. n - 1  BY <1>1, DivBound
<1>3. k \in Nat  OBVIOUS
<1>4. k % header.d \in 0 .. header.d - 1 /\ k = header.d * (k \div header.d) + (k % header.d)
  BY <1>1, <1>3, DivMod
<1>. QED  BY <1>2, <1>4

(* No two inputs have the same name.                                     *)
LEMMA InputNamesDiffer ==
  ASSUME FileRight, NEW j \in 1 .. NI, NEW k \in 1 .. NI, InputNames[j] = InputNames[k]
  PROVE  j = k
<1>1. InputName(j) = InputName(k)  BY InputNamesAre
<1>. DEFINE d == header.d
            M == numMaskedIns
<1>2. M \in Nat /\ d \in Nat \ {0} /\ Len(header.ins) \in Nat /\ NI = M + Len(header.rnds)
  BY HeaderIs DEF NI
<1>3. \A i \in 1 .. NI : i <= M =>
        /\ (i - 1) \div d + 1 \in DOMAIN header.ins
        /\ (i - 1) % d \in Nat
        /\ i - 1 = d * ((i - 1) \div d) + ((i - 1) % d)
  <2>. SUFFICES ASSUME NEW i \in 1 .. NI, i <= M
                PROVE  /\ (i - 1) \div d + 1 \in DOMAIN header.ins
                       /\ (i - 1) % d \in Nat
                       /\ i - 1 = d * ((i - 1) \div d) + ((i - 1) % d)
    OBVIOUS
  <2>1. i - 1 \in 0 .. Len(header.ins) * header.d - 1  BY <1>2 DEF numMaskedIns
  <2>2. /\ (i - 1) \div d \in 0 .. Len(header.ins) - 1 /\ (i - 1) % d \in 0 .. d - 1
        /\ i - 1 = d * ((i - 1) \div d) + ((i - 1) % d)
    BY <1>2, <2>1, SharePlace
  <2>3. DOMAIN header.ins = 1 .. Len(header.ins)  BY HeaderIs
  <2>. HIDE DEF d
  <2>. QED  BY <1>2, <2>2, <2>3
<1>4. \A i \in 1 .. NI : ~ (i <= M) => i - M \in DOMAIN header.rnds
  BY <1>2, HeaderIs
<1>5. \A i \in 1 .. NI : i <= M => InputName(i) \in ToSet(header.ins) \X Nat
  BY <1>3 DEF InputName, ToSet, Share
<1>6. \A i \in 1 .. NI : ~ (i <= M) => InputName(i) \in ToSet(header.rnds)
  BY <1>4 DEF InputName, ToSet
<1>7. CASE j <= M /\ k <= M
  <2>1. /\ header.ins[(j - 1) \div d + 1] = header.ins[(k - 1) \div d + 1]
        /\ (j - 1) % d = (k - 1) % d
    BY <1>1, <1>7 DEF InputName, Share
  <2>2. (j - 1) \div d + 1 = (k - 1) \div d + 1
    BY <1>3, <1>7, <2>1, HeaderIs DEF IsInjective
  <2>3. (j - 1) \div d \in Int /\ (k - 1) \div d \in Int  BY <1>2
  <2>4. (j - 1) \div d = (k - 1) \div d  BY <2>2, <2>3
  <2>5. j - 1 \in Nat /\ k - 1 \in Nat  OBVIOUS
  <2>6. j - 1 = k - 1  BY <1>2, <2>1, <2>4, <2>5, SameDivMod
  <2>. QED  BY <2>6
<1>8. CASE ~ (j <= M) /\ ~ (k <= M)
  <2>1. header.rnds[j - M] = header.rnds[k - M]  BY <1>1, <1>8 DEF InputName
  <2>2. j - M = k - M  BY <1>4, <1>8, <2>1, HeaderIs DEF IsInjective
  <2>. QED  BY <1>2, <2>2
<1>9. CASE j <= M /\ ~ (k <= M)  BY <1>1, <1>5, <1>6, <1>9, HeaderIs
<1>10. CASE k <= M /\ ~ (j <= M)  BY <1>1, <1>5, <1>6, <1>10, HeaderIs
<1>. QED  BY <1>7, <1>8, <1>9, <1>10

(* The names and the wires there may be.                                 *)
NameSet == ToSet(InputNames) \cup Names(header)
WireSet == [name : NameSet, v : Nat]

(* findWire finds a wire with the name if there is one.                  *)
LEMMA Finds ==
  ASSUME NEW S, wires \in Seq(S), NEW name
  PROVE  /\ findWire(name) \in 0 .. Len(wires)
         /\ findWire(name) = NotFound => \A j \in 1 .. Len(wires) : wires[j].name # name
         /\ findWire(name) # NotFound =>
              findWire(name) \in 1 .. Len(wires) /\ wires[findWire(name)].name = name
<1>. DEFINE I == {j \in 1 .. Len(wires) : wires[j].name = name}
<1>1. findWire(name) = IF I # {} THEN Min(I) ELSE 0  BY DEF findWire, SelectInSeq
<1>2. I \in SUBSET Nat  OBVIOUS
<1>3. I # {} => Min(I) \in I  BY <1>2, MinOfNaturals
<1>4. I = {} => \A j \in 1 .. Len(wires) : wires[j].name # name  OBVIOUS
<1>5. \A j \in I : j \in 1 .. Len(wires) /\ j # 0 /\ wires[j].name = name  OBVIOUS
<1>6. Len(wires) \in Nat  OBVIOUS
<1>. HIDE DEF I
<1>7. CASE I # {}  BY <1>1, <1>3, <1>5, <1>7 DEF NotFound
<1>8. CASE I = {}  BY <1>1, <1>4, <1>6, <1>8 DEF NotFound
<1>. QED  BY <1>7, <1>8

(* The names there are before line n; the lines before it that assign a  *)
(* name.                                                                 *)
Known(n) == ToSet(InputNames) \cup {file.body[m].ret : m \in 1 .. n - 1}

LinesOf(name, n) == {m \in 1 .. n - 1 : file.body[m].ret = name}

(* Of the lines before n that assign a name one is the last.             *)
LEMMA LastLine ==
  ASSUME NEW n \in Nat, NEW name, LinesOf(name, n) # {}
  PROVE  LET m == CHOOSE m \in LinesOf(name, n) : \A l \in LinesOf(name, n) : l <= m
         IN  m \in LinesOf(name, n) /\ \A l \in LinesOf(name, n) : l <= m
<1>. DEFINE L == LinesOf(name, n)
            T == {n - m : m \in L}
<1>1. \A m \in L : m \in 1 .. n - 1  BY DEF LinesOf
<1>. HIDE DEF L
<1>2. T \in SUBSET Nat /\ T # {}  BY <1>1 DEF L
<1>3. PICK t \in T : \A s \in T : t <= s  BY <1>2, LeastNatural
<1>4. PICK m \in L : t = n - m  BY <1>3
<1>5. \A l \in L : l <= m
  <2>. SUFFICES ASSUME NEW l \in L PROVE l <= m  OBVIOUS
  <2>1. t <= n - l  BY <1>3
  <2>2. l \in Int /\ m \in Int  BY <1>1
  <2>. QED  BY <1>4, <2>1, <2>2
<1>. QED  BY <1>5 DEF L

(* A name stands for the last line that assigned it, or else for what it *)
(* stood for before the first line.                                      *)
LEMMA StandsIs ==
  ASSUME FileRight, NEW n \in 1 .. Len(file.body) + 1, NEW name
  PROVE  /\ LinesOf(name, n) # {} =>
              \E m \in LinesOf(name, n) :
                /\ \A l \in LinesOf(name, n) : l <= m
                /\ Stands(name, n) = NI + m
         /\ LinesOf(name, n) = {} => Stands(name, n) = Stands(name, 1)
<1>1. Stands(name, n) =
        IF LinesOf(name, n) = {}
        THEN CHOOSE k \in DOMAIN InputNames : InputNames[k] = name
        ELSE NI + CHOOSE m \in LinesOf(name, n) : \A l \in LinesOf(name, n) : l <= m
  BY InputNamesAre DEF Stands, LinesOf
<1>2. Stands(name, 1) = CHOOSE k \in DOMAIN InputNames : InputNames[k] = name
  BY DEF Stands
<1>3. n \in Nat  BY HeaderIs
<1>. QED  BY <1>1, <1>2, <1>3, LastLine

(* Before the first line the name of an input stands for the input.      *)
LEMMA StandsInput ==
  ASSUME FileRight, NEW k \in 1 .. NI
  PROVE  Stands(InputNames[k], 1) = k
<1>1. Stands(InputNames[k], 1) = CHOOSE j \in DOMAIN InputNames : InputNames[j] = InputNames[k]
  BY DEF Stands
<1>2. DOMAIN InputNames = 1 .. NI  BY InputNamesAre
<1>3. \A j \in 1 .. NI : InputNames[j] = InputNames[k] => j = k  BY InputNamesDiffer
<1>. QED  BY <1>1, <1>2, <1>3

(* A line changes what the name it assigns stands for, and no other.     *)
LEMMA StandsNext ==
  ASSUME FileRight, NEW n \in 1 .. Len(file.body), NEW name
  PROVE  Stands(name, n + 1) = IF file.body[n].ret = name THEN NI + n ELSE Stands(name, n)
<1>1. n \in Nat /\ n + 1 \in 1 .. Len(file.body) + 1 /\ n \in 1 .. Len(file.body) + 1
  BY HeaderIs
<1>2. \A m \in 1 .. n : m \in 1 .. n - 1 \/ m = n  OBVIOUS
<1>3. 1 .. (n + 1) - 1 = 1 .. n  BY <1>1
<1>4. \A m \in LinesOf(name, n + 1) : m \in LinesOf(name, n) \/ m = n
  BY <1>2, <1>3 DEF LinesOf
<1>5. CASE file.body[n].ret = name
  <2>1. n \in LinesOf(name, n + 1)  BY <1>1, <1>5 DEF LinesOf
  <2>2. PICK m \in LinesOf(name, n + 1) :
          (\A l \in LinesOf(name, n + 1) : l <= m) /\ Stands(name, n + 1) = NI + m
    BY <1>1, <2>1, StandsIs
  <2>3. m \in 1 .. n  BY <1>3 DEF LinesOf
  <2>4. n <= m  BY <2>1, <2>2
  <2>5. m = n  BY <2>3, <2>4
  <2>. QED  BY <1>5, <2>2, <2>5
<1>6. CASE file.body[n].ret # name
  <2>1. LinesOf(name, n + 1) = LinesOf(name, n)
    <3>1. n \notin LinesOf(name, n + 1)  BY <1>6 DEF LinesOf
    <3>2. \A m \in 1 .. n - 1 : m \in 1 .. n  OBVIOUS
    <3>3. \A m \in LinesOf(name, n) : m \in LinesOf(name, n + 1)  BY <1>3, <3>2 DEF LinesOf
    <3>. QED  BY <1>4, <3>1, <3>3
  <2>2. CASE LinesOf(name, n) = {}
    <3>. QED  BY <1>1, <1>6, <2>1, <2>2, StandsIs
  <2>3. CASE LinesOf(name, n) # {}
    <3>1. PICK m \in LinesOf(name, n) :
            (\A l \in LinesOf(name, n) : l <= m) /\ Stands(name, n) = NI + m
      BY <1>1, <2>3, StandsIs
    <3>2. PICK k \in LinesOf(name, n) :
            (\A l \in LinesOf(name, n) : l <= k) /\ Stands(name, n + 1) = NI + k
      BY <1>1, <2>1, <2>3, StandsIs
    <3>3. m <= k /\ k <= m /\ m \in Int /\ k \in Int  BY <3>1, <3>2 DEF LinesOf
    <3>4. m = k  BY <3>3
    <3>. QED  BY <1>6, <3>1, <3>2, <3>4
  <2>. QED  BY <2>2, <2>3
<1>. QED  BY <1>5, <1>6

(* A name that is known stands for an input or for a line before.        *)
LEMMA StandsKnown ==
  ASSUME FileRight, NEW n \in 1 .. Len(file.body) + 1, NEW name \in Known(n)
  PROVE  Stands(name, n) \in 1 .. NI + n - 1
<1>1. NI \in Nat /\ n \in Nat /\ Len(file.body) \in Nat  BY HeaderIs
<1>2. CASE LinesOf(name, n) # {}
  <2>1. PICK m \in LinesOf(name, n) : Stands(name, n) = NI + m  BY <1>2, StandsIs
  <2>2. m \in 1 .. n - 1  BY DEF LinesOf
  <2>. QED  BY <1>1, <2>1, <2>2
<1>3. CASE LinesOf(name, n) = {}
  <2>1. name \in ToSet(InputNames)  BY <1>3 DEF Known, LinesOf
  <2>2. PICK k \in 1 .. NI : name = InputNames[k]  BY <2>1, InputNamesAre DEF ToSet
  <2>3. Stands(name, n) = k  BY <1>3, <2>2, StandsIs, StandsInput
  <2>. QED  BY <1>1, <2>2, <2>3
<1>. QED  BY <1>2, <1>3

(* The number of names, and the width, after p shares were seen in their *)
(* order.                                                                *)
Counted(p) == IF p = 0 THEN 0 ELSE (p - 1) \div header.d + 1
Widest(p) == IF p >= header.d THEN header.d ELSE p

(* Both maxima of the first builder go on with the next share.           *)
LEMMA CountedNext ==
  ASSUME FileRight, NEW p \in Nat
  PROVE  /\ Counted(p) \in Nat /\ Widest(p) \in Nat /\ Widest(p) <= header.d
         /\ AtLeast(Counted(p), p \div header.d + 1) = Counted(p + 1)
         /\ AtLeast(Widest(p), (p % header.d) + 1) = Widest(p + 1)
<1>. DEFINE d == header.d
<1>1. d \in Nat \ {0}  BY HeaderIs
<1>. HIDE DEF d
<1>2. p \div d \in Nat /\ p % d \in 0 .. d - 1  BY <1>1, DivMod
<1>3. p > 0 => (p - 1) \div d \in Nat /\ (p - 1) \div d <= p \div d
  <2>. SUFFICES ASSUME p > 0 PROVE (p - 1) \div d \in Nat /\ (p - 1) \div d <= p \div d
    OBVIOUS
  <2>1. p - 1 \in Nat  OBVIOUS
  <2>. DEFINE q == p \div d
  <2>2. q \in Nat /\ (p - 1) \div d \in Nat  BY <1>1, <2>1, DivMod
  <2>3. (p - 1) \div d < q + 1 <=> p - 1 < d * (q + 1)  BY <1>1, <2>1, <2>2, DivBelow
  <2>4. p \div d < q + 1 <=> p < d * (q + 1)  BY <1>1, <2>2, DivBelow
  <2>5. d * (q + 1) \in Nat  BY <1>1, <2>2
  <2>6. p < d * (q + 1)  BY <2>2, <2>4
  <2>. HIDE DEF q
  <2>7. (p - 1) \div d < q + 1  BY <2>3, <2>5, <2>6
  <2>8. (p - 1) \div d <= q  BY <2>2, <2>7
  <2>. QED  BY <2>2, <2>8 DEF q
<1>4. Counted(p) \in Nat /\ Widest(p) \in Nat /\ Widest(p) <= d
  BY <1>1, <1>3 DEF Counted, Widest, d
<1>5. AtLeast(Counted(p), p \div d + 1) = Counted(p + 1)
  <2>1. Counted(p + 1) = p \div d + 1  BY DEF Counted, d
  <2>2. Counted(p) <= p \div d + 1
    <3>1. CASE p = 0  BY <1>2, <3>1 DEF Counted
    <3>2. CASE p > 0
      <4>1. Counted(p) = (p - 1) \div d + 1  BY <3>2 DEF Counted, d
      <4>. QED  BY <1>2, <1>3, <3>2, <4>1
    <3>. QED  BY <3>1, <3>2
  <2>. QED  BY <1>2, <1>4, <2>1, <2>2 DEF AtLeast
<1>6. AtLeast(Widest(p), (p % d) + 1) = Widest(p + 1)
  <2>1. CASE p < d
    <3>1. p % d = p
      <4>1. d * 0 + p = p /\ p \in 0 .. d - 1  BY <1>1, <2>1
      <4>. QED  BY <1>1, <4>1, ModUnique
    <3>. QED  BY <1>1, <2>1, <3>1 DEF AtLeast, Widest, d
  <2>2. CASE ~ (p < d)
    <3>1. Widest(p) = d /\ Widest(p + 1) = d  BY <1>1, <2>2 DEF Widest, d
    <3>. QED  BY <1>1, <1>2, <3>1 DEF AtLeast
  <2>. QED  BY <2>1, <2>2
<1>. QED  BY <1>4, <1>5, <1>6 DEF d

(* After all the shares of n names they are n and the width of the       *)
(* masking, 0 if there are no names.                                     *)
LEMMA CountedAll ==
  ASSUME FileRight, NEW n \in Nat
  PROVE  /\ n * header.d \in Nat
         /\ Counted(n * header.d) = n
         /\ Widest(n * header.d) = IF n = 0 THEN 0 ELSE header.d
<1>. DEFINE d == header.d
<1>1. d \in Nat \ {0}  BY HeaderIs
<1>. HIDE DEF d
<1>2. CASE n = 0
  <2>1. n * d = 0  BY <1>1, <1>2
  <2>. QED  BY <1>1, <1>2, <2>1 DEF Counted, Widest, d
<1>3. CASE n # 0
  <2>1. n - 1 \in Nat /\ n * d = d * (n - 1) + d /\ d * (n - 1) \in Nat  BY <1>1, <1>3
  <2>2. n * d - 1 = d * (n - 1) + (d - 1) /\ d - 1 \in 0 .. d - 1  BY <1>1, <2>1
  <2>3. (d * (n - 1) + (d - 1)) \div d = n - 1  BY <1>1, <2>1, <2>2, ModUnique
  <2>4. (n * d - 1) \div d = n - 1  BY <2>2, <2>3
  <2>5. n * d \in Nat /\ n * d # 0 /\ n * d >= d  BY <1>1, <2>1
  <2>6. Counted(n * d) = n  BY <2>4, <2>5 DEF Counted, d
  <2>. QED  BY <1>3, <2>5, <2>6 DEF Widest, d
<1>. QED  BY <1>2, <1>3

(* How much of the file pass p has read.                                 *)
NumLines ==
  IF pc \in {"header", "ins"} THEN 0 ELSE IF pc = "body" THEN pos ELSE Len(file.body)

InsRead(p) ==
  IF pass > p \/ pc \in {"body", "outs", "done"} THEN numMaskedIns
  ELSE IF pc = "ins" THEN (IF pos <= numMaskedIns THEN pos ELSE numMaskedIns) ELSE 0

RndsRead(p) ==
  IF pass > p \/ pc \in {"body", "outs", "done"} THEN Len(header.rnds)
  ELSE IF pc = "ins" /\ pos > numMaskedIns THEN pos - numMaskedIns ELSE 0

OutsRead(p) ==
  IF pass > p \/ pc = "done" THEN numMaskedOuts ELSE IF pc = "outs" THEN pos ELSE 0

(* What is read next, and what was read before it: the body is complete  *)
(* when the second pass starts, and the program goes on only with a      *)
(* complete header.                                                      *)
PlaceRight ==
  /\ pc \in {"header", "ins", "body", "outs", "done"} /\ pass \in {1, 2} /\ pos \in Nat
  /\ pc = "header" => pos = 0
  /\ pc = "ins" => pos <= NI
  /\ pc = "body" => pos <= Len(file.body) /\ (pass = 1 => pos = Len(file.body))
  /\ pc = "outs" => pos <= numMaskedOuts
  /\ pc = "done" => pass = 2
  /\ pass = 1 /\ pc \in {"header", "ins"} => file.body = <<>>
  /\ pc # "header" \/ pass = 2 => header.complete

(* What an assignment reads was known before it; the outputs that the    *)
(* first pass has found were known after all lines.                      *)
LinesRight ==
  /\ \A n \in 1 .. Len(file.body) : file.body[n].v1 \in Known(n) /\ file.body[n].v2 \in Known(n)
  /\ \A o \in 0 .. OutsRead(1) - 1 : OutName(o) \in Known(Len(file.body) + 1)

(* The wires of the body are the known names, each once; those of the    *)
(* header, while it is read, are its first inputs in their order.        *)
WiresRight ==
  /\ wires \in Seq(WireSet)
  /\ pc = "header" => wires = <<>>
  /\ pc = "ins" => Len(wires) = pos /\ \A j \in 1 .. pos : wires[j].name = InputNames[j]
  /\ pc \in {"body", "outs", "done"} =>
       /\ \A j, k \in 1 .. Len(wires) : wires[j].name = wires[k].name => j = k
       /\ {wires[j].name : j \in 1 .. Len(wires)} = Known(NumLines + 1)

(* In the second pass a wire's value is the number of the definition     *)
(* that its name stands for.                                             *)
ValuesRight ==
  pass = 2 => \A j \in 1 .. Len(wires) : wires[j].v = Stands(wires[j].name, NumLines + 1) - 1

(* The first builder has counted what was read.                          *)
InfoRight ==
  /\ info \in [d : Nat, numIns : Nat, numRnds : Nat, numOuts : Nat, numOperations : Nat]
  /\ info.numIns = Counted(InsRead(1)) /\ info.numOuts = Counted(OutsRead(1))
  /\ info.d = AtLeast(Widest(InsRead(1)), Widest(OutsRead(1)))
  /\ info.numRnds = RndsRead(1)
  /\ info.numOperations = Len(file.body)

(* The second builder has an operation for each input and each line      *)
(* read.                                                                 *)
OpSet == [operation : {"IN", "XOR", "AND"}, inWire : Nat \X Nat, mult : Int]

GenRight ==
  pass = 2 =>
    /\ gen \in [d : Nat, numIns : Nat, numOuts : Nat, numAllocRnds : Nat,
                op : Seq(OpSet), out2op : [0 .. numMaskedOuts - 1 -> Nat]]
    /\ gen.d = info.d /\ gen.numIns = info.numIns /\ gen.numOuts = info.numOuts
    /\ gen.numAllocRnds = RndsRead(2)
    /\ Len(gen.op) = NI + NumLines

(* An operation reads what the names in its line stand for there.        *)
OperationsRight ==
  pass = 2 =>
    /\ \A def \in 1 .. NI : gen.op[def].operation = "IN" /\ gen.op[def].inWire = <<def - 1, 0>>
    /\ \A n \in 1 .. NumLines :
         /\ gen.op[NI + n].operation = file.body[n].operation
         /\ gen.op[NI + n].inWire = <<Stands(file.body[n].v1, n) - 1, Stands(file.body[n].v2, n) - 1>>

(* An operation's mult counts the places that have read it so far.       *)
ReadersTo(def, n) == {read \in Readers(def) : read[1] <= n}
OutReadersTo(def, p) == {o \in OutReaders(def) : o < p}

CountsRight ==
  pass = 2 =>
    \A def \in 1 .. Len(gen.op) :
      gen.op[def].mult =
        2 * Cardinality(ReadersTo(def, NumLines)) + Cardinality(OutReadersTo(def, OutsRead(2))) - 1

(* The outputs found so far are what their names stand for in the end.   *)
OutsRight == pass = 2 => \A o \in 0 .. OutsRead(2) - 1 : gen.out2op[o] = StandsForOut(o) - 1

(* The gadget is made of both.                                           *)
GadgetRight == pc = "done" => g = gadget(info, gen)

(* All of this holds until the program exits, and that only the first    *)
(* pass does: the second finds every name that the first one found.      *)
Reading ==
  /\ PlaceRight /\ LinesRight /\ WiresRight /\ ValuesRight /\ InfoRight
  /\ GenRight /\ OperationsRight /\ CountsRight /\ OutsRight /\ GadgetRight

IInv ==
  /\ FileRight
  /\ pc = "failed" => pass = 1
  /\ pc # "failed" => Reading

(* What the file says stays the same when the file does.                 *)
LEMMA FileSame ==
  ASSUME FileRight, file' = file
  PROVE  /\ FileRight' /\ header' = header /\ InputNames' = InputNames
         /\ numMaskedIns' = numMaskedIns /\ numMaskedOuts' = numMaskedOuts /\ NI' = NI
         /\ WireSet' = WireSet
         /\ \A n : Known(n)' = Known(n)
         /\ \A name, n : Stands(name, n)' = Stands(name, n)
         /\ \A o : OutName(o)' = OutName(o) /\ StandsForOut(o)' = StandsForOut(o)
         /\ \A def : Readers(def)' = Readers(def) /\ OutReaders(def)' = OutReaders(def)
         /\ \A p : Counted(p)' = Counted(p) /\ Widest(p)' = Widest(p)
<1>1. header' = header  BY DEF header
<1>2. FileRight'  BY <1>1 DEF FileRight, LineSet
<1>3. numMaskedIns' = numMaskedIns /\ numMaskedOuts' = numMaskedOuts
  BY <1>1 DEF numMaskedIns, numMaskedOuts
<1>4. InputNames' = InputNames  BY <1>1, <1>3 DEF InputNames
<1>5. NI' = NI /\ WireSet' = WireSet  BY <1>1, <1>3, <1>4 DEF NI, WireSet, NameSet
<1>6. \A n : Known(n)' = Known(n)  BY <1>4 DEF Known
<1>7. \A name, n : Stands(name, n)' = Stands(name, n)  BY <1>4 DEF Stands
<1>8. \A o : OutName(o)' = OutName(o)  BY <1>1 DEF OutName
<1>9. \A o : StandsForOut(o)' = StandsForOut(o)  BY <1>7, <1>8 DEF StandsForOut
<1>10. \A def : Readers(def)' = Readers(def)  BY <1>7 DEF Readers
<1>11. \A def : OutReaders(def)' = OutReaders(def)  BY <1>3, <1>9 DEF OutReaders
<1>12. \A p : Counted(p)' = Counted(p) /\ Widest(p)' = Widest(p)
  BY <1>1 DEF Counted, Widest
<1>. QED
  BY <1>1, <1>2, <1>3, <1>4, <1>5, <1>6, <1>7, <1>8, <1>9, <1>10, <1>11, <1>12

(* Where nothing more is read, what was said of the file stays right,    *)
LEMMA LinesFrame ==
  ASSUME FileRight, LinesRight, file' = file, OutsRead(1)' = OutsRead(1)
  PROVE  LinesRight'
BY FileSame DEF LinesRight

(* and what was counted,                                                 *)
LEMMA InfoFrame ==
  ASSUME FileRight, InfoRight, file' = file, info' = info,
         InsRead(1)' = InsRead(1), OutsRead(1)' = OutsRead(1), RndsRead(1)' = RndsRead(1)
  PROVE  InfoRight'
BY FileSame DEF InfoRight

(* and the second builder.                                               *)
LEMMA GenFrame ==
  ASSUME FileRight, GenRight, OperationsRight, CountsRight, OutsRight, file' = file, pass' = pass,
         pass = 2 => /\ gen' = gen /\ info' = info
                     /\ RndsRead(2)' = RndsRead(2) /\ NumLines' = NumLines
                     /\ OutsRead(2)' = OutsRead(2)
  PROVE  GenRight' /\ OperationsRight' /\ CountsRight' /\ OutsRight'
<1>1. GenRight'  BY FileSame DEF GenRight
<1>2. OperationsRight'  BY FileSame DEF OperationsRight
<1>3. CountsRight'
  <2>2. pass = 2 => /\ \A def : ReadersTo(def, NumLines)' = ReadersTo(def, NumLines)
                    /\ \A def : OutReadersTo(def, OutsRead(2))' = OutReadersTo(def, OutsRead(2))
    BY FileSame DEF ReadersTo, OutReadersTo
  <2>. QED  BY <2>2 DEF CountsRight
<1>4. OutsRight'  BY FileSame DEF OutsRight
<1>. QED  BY <1>1, <1>2, <1>3, <1>4

(* When the first pass is over, the width times the numbers of names are *)
(* the numbers of shares, as all names have the same width.              *)
LEMMA InfoAll ==
  ASSUME FileRight, InfoRight, InsRead(1) = numMaskedIns, OutsRead(1) = numMaskedOuts,
         RndsRead(1) = Len(header.rnds)
  PROVE  /\ info.d * info.numIns = numMaskedIns
         /\ info.d * info.numOuts = numMaskedOuts
         /\ numTotIns(info) = NI
         /\ info.numIns * info.d + Len(header.rnds) = NI
         /\ header.ins # <<>> => info.d = header.d
         /\ header.outs # <<>> => info.d = header.d
<1>. DEFINE d == header.d
            a == Len(header.ins)
            b == Len(header.outs)
<1>1. d \in Nat \ {0} /\ a \in Nat /\ b \in Nat /\ Len(header.rnds) \in Nat  BY HeaderIs
<1>2. numMaskedIns = a * d /\ numMaskedOuts = b * d  BY DEF numMaskedIns, numMaskedOuts
<1>3. /\ Counted(a * d) = a /\ Widest(a * d) = IF a = 0 THEN 0 ELSE d
      /\ Counted(b * d) = b /\ Widest(b * d) = IF b = 0 THEN 0 ELSE d
  BY <1>1, CountedAll
<1>4. /\ info.numIns = a /\ info.numOuts = b
      /\ info.d = AtLeast(Widest(a * d), Widest(b * d)) /\ info.numRnds = Len(header.rnds)
  BY <1>2, <1>3 DEF InfoRight
<1>5. header.ins # <<>> => a # 0  BY HeaderIs
<1>6. header.outs # <<>> => b # 0  BY HeaderIs
<1>. HIDE DEF d, a, b
<1>7. info.d = IF a = 0 /\ b = 0 THEN 0 ELSE d
  BY <1>1, <1>3, <1>4 DEF AtLeast
<1>8. \A u, v \in Nat : u * v = v * u /\ 0 * u = 0  OBVIOUS
<1>9. d * a = a * d /\ d * b = b * d /\ 0 * d = 0 /\ d * 0 = 0  BY <1>1, <1>8
<1>10. info.d * info.numIns = numMaskedIns /\ info.d * info.numOuts = numMaskedOuts
  <2>1. CASE a = 0 /\ b = 0  BY <1>1, <1>2, <1>4, <1>7, <1>9, <2>1
  <2>2. CASE ~ (a = 0 /\ b = 0)  BY <1>1, <1>2, <1>4, <1>7, <1>9, <2>2
  <2>. QED  BY <2>1, <2>2
<1>11. info.d \in Nat /\ info.numIns \in Nat  BY DEF InfoRight
<1>12. info.numIns * info.d = info.d * info.numIns  BY <1>8, <1>11
<1>13. numTotIns(info) = NI /\ info.numIns * info.d + Len(header.rnds) = NI
  BY <1>4, <1>10, <1>12 DEF numTotIns, NI
<1>. QED  BY <1>5, <1>6, <1>7, <1>10, <1>13 DEF d

(* In the second pass the builder has the width and the numbers of names *)
(* of the whole file.                                                    *)
LEMMA SecondPass ==
  ASSUME FileRight, Reading, pass = 2
  PROVE  /\ InsRead(1) = numMaskedIns /\ OutsRead(1) = numMaskedOuts
         /\ RndsRead(1) = Len(header.rnds)
         /\ gen.d * gen.numIns = numMaskedIns
         /\ gen.d * gen.numOuts = numMaskedOuts
         /\ gen.numIns * gen.d + Len(header.rnds) = NI
         /\ header.ins # <<>> => gen.d = header.d
         /\ header.outs # <<>> => gen.d = header.d
<1>1. InsRead(1) = numMaskedIns /\ OutsRead(1) = numMaskedOuts /\ RndsRead(1) = Len(header.rnds)
  BY DEF InsRead, OutsRead, RndsRead
<1>2. GenRight /\ InfoRight  BY DEF Reading
<1>3. gen.d = info.d /\ gen.numIns = info.numIns /\ gen.numOuts = info.numOuts
  BY <1>2 DEF GenRight
<1>. QED  BY <1>1, <1>2, <1>3, InfoAll

(* A new input is one wire more.                                         *)
LEMMA NewInput ==
  ASSUME FileRight, WiresRight, ValuesRight, pc = "ins", pc' = pc, pass' = pass, file' = file,
         pos \in Nat, pos < NI, pos' = pos + 1,
         NEW v \in Nat, NEW name, name = InputNames[pos + 1],
         wires' = Append(wires, [name |-> name, v |-> v]), pass = 2 => v = pos
  PROVE  WiresRight' /\ ValuesRight'
<1>. DEFINE w == [name |-> name, v |-> v]
<1>1. NI \in Nat /\ pos + 1 \in 1 .. NI  BY HeaderIs
<1>2. wires \in Seq(WireSet) /\ Len(wires) = pos /\ \A j \in 1 .. pos : wires[j].name = InputNames[j]
  BY DEF WiresRight
<1>3. w \in WireSet
  <2>1. InputNames[pos + 1] \in ToSet(InputNames)  BY <1>1, InputNamesAre DEF ToSet
  <2>. QED  BY <2>1 DEF WireSet, NameSet
<1>4. w.name = InputNames[pos + 1] /\ w.v = v  OBVIOUS
<1>. HIDE DEF w
<1>5. /\ wires' \in Seq(WireSet) /\ Len(wires') = pos + 1
      /\ \A j \in 1 .. pos + 1 : wires'[j] = IF j <= pos THEN wires[j] ELSE w
  <2>1. wires' = Append(wires, w)  BY DEF w
  <2>. QED  BY <1>2, <1>3, <2>1
<1>6. \A j \in 1 .. pos + 1 : wires'[j].name = InputNames[j]
  <2>. SUFFICES ASSUME NEW j \in 1 .. pos + 1 PROVE wires'[j].name = InputNames[j]
    OBVIOUS
  <2>1. CASE j <= pos  BY <1>2, <1>5, <2>1
  <2>2. CASE j = pos + 1  BY <1>4, <1>5, <2>2
  <2>3. j <= pos \/ j = pos + 1  OBVIOUS
  <2>. QED  BY <2>1, <2>2, <2>3
<1>7. WiresRight'
  <2>1. wires' \in Seq(WireSet') /\ InputNames' = InputNames  BY <1>5, FileSame
  <2>. QED  BY <1>5, <1>6, <2>1 DEF WiresRight
<1>8. ValuesRight'
  <2>1. NumLines = 0 /\ NumLines' = 0  BY DEF NumLines
  <2>2. ASSUME pass = 2, NEW j \in 1 .. Len(wires')
        PROVE  wires'[j].v = Stands(wires'[j].name, 1) - 1
    <3>1. j \in 1 .. NI /\ wires'[j].name = InputNames[j]  BY <1>1, <1>5, <1>6
    <3>2. Stands(wires'[j].name, 1) = j  BY <3>1, StandsInput
    <3>3. CASE j <= pos
      <4>1. wires'[j] = wires[j] /\ j \in 1 .. Len(wires)  BY <1>2, <1>5, <3>3
      <4>2. wires[j].v = Stands(wires[j].name, NumLines + 1) - 1  BY <2>2, <4>1 DEF ValuesRight
      <4>. QED  BY <2>1, <3>1, <3>2, <4>1, <4>2
    <3>4. CASE j = pos + 1
      <4>1. wires'[j].v = pos  BY <1>4, <1>5, <2>2, <3>4
      <4>2. pos = (pos + 1) - 1  OBVIOUS
      <4>3. pos = j - 1  BY <3>4, <4>2
      <4>. QED  BY <3>2, <4>1, <4>3
    <3>5. j <= pos \/ j = pos + 1  BY <1>5
    <3>. QED  BY <3>3, <3>4, <3>5
  <2>3. \A word, n : Stands(word, n)' = Stands(word, n)  BY FileSame
  <2>. QED  BY <2>1, <2>2, <2>3 DEF ValuesRight
<1>. QED  BY <1>7, <1>8

(* The beginning of either pass keeps the invariant,                     *)
LEMMA ReadHeaderInv ==
  ASSUME IInv, ReadHeader
  PROVE  IInv'
<1>1. FileRight /\ Reading /\ pc = "header" /\ file' = file /\ pass' = pass /\ pos = 0
  BY DEF IInv, ReadHeader, Fail, Reading, PlaceRight
<1>2. CASE ~ header.complete
  <2>1. pc' = "failed" /\ pass = 1  BY <1>1, <1>2 DEF ReadHeader, Fail, Reading, PlaceRight
  <2>. QED  BY <1>1, <2>1, FileSame DEF IInv
<1>3. CASE header.complete
  <2>1. /\ pc' = "ins" /\ pos' = 0
        /\ UNCHANGED <<pass, file, wires, info, gen, g>>
    BY <1>3 DEF ReadHeader
  <2>2. PlaceRight'
    <3>1. (pass = 1 => file.body = <<>>) /\ pass \in {1, 2}  BY <1>1 DEF Reading, PlaceRight
    <3>2. NI' \in Nat /\ header' = header  BY <1>1, FileSame, HeaderIs
    <3>. QED  BY <1>1, <1>3, <2>1, <3>1, <3>2 DEF PlaceRight
  <2>3. numMaskedIns' = numMaskedIns /\ numMaskedOuts' = numMaskedOuts /\ header' = header
        /\ numMaskedIns \in Nat
    BY <1>1, FileSame, HeaderIs
  <2>4. /\ \A p : InsRead(p)' = InsRead(p) /\ RndsRead(p)' = RndsRead(p) /\ OutsRead(p)' = OutsRead(p)
        /\ NumLines' = NumLines
    BY <1>1, <2>1, <2>3 DEF InsRead, RndsRead, OutsRead, NumLines
  <2>5. LinesRight' /\ InfoRight'
    BY <1>1, <2>1, <2>4, LinesFrame, InfoFrame DEF Reading
  <2>6. GenRight' /\ OperationsRight' /\ CountsRight' /\ OutsRight'
    <3>1. GenRight /\ OperationsRight /\ CountsRight /\ OutsRight  BY <1>1 DEF Reading
    <3>. QED  BY <1>1, <2>1, <2>4, <3>1, GenFrame
  <2>7. WiresRight' /\ ValuesRight'
    <3>1. wires = <<>>  BY <1>1 DEF Reading, WiresRight
    <3>2. Len(wires') = 0 /\ wires' \in Seq(WireSet')  BY <2>1, <3>1
    <3>. QED  BY <2>1, <3>2 DEF WiresRight, ValuesRight
  <2>8. GadgetRight'  BY <2>1 DEF GadgetRight
  <2>. QED  BY <1>1, <2>1, <2>2, <2>5, <2>6, <2>7, <2>8, FileSame DEF IInv, Reading
<1>. QED  BY <1>2, <1>3

(* as does a share of an input, whose number in the second pass is its   *)
(* place among the inputs as the first pass counted them,                *)
LEMMA InInv ==
  ASSUME IInv, In
  PROVE  IInv'
<1>. DEFINE d == header.d
            numIn == pos \div header.d
            i == pos % header.d
            second == gen_in(gen, numIn, i)
            name == Share(header.ins[numIn + 1], i)
<1>1. /\ FileRight /\ Reading /\ pc = "ins" /\ pos < numMaskedIns
      /\ UNCHANGED <<pc, pass, file, g>> /\ pos' = pos + 1
      /\ pos \in Nat /\ pass \in {1, 2} /\ header.complete
      /\ wires' = Append(wires, [name |-> name, v |-> Returned(second)])
      /\ pass = 1 => info' = basicGadgetInfo_in(info, numIn, i)
      /\ pass = 2 => gen' = gen /\ info' = info
  <2>1. FileRight /\ Reading  BY DEF IInv, In
  <2>. QED  BY <2>1 DEF In, Reading, PlaceRight, Call, NewWire, gen_in
<1>2. d \in Nat \ {0} /\ NI \in Nat /\ numMaskedIns \in Nat /\ Len(header.rnds) \in Nat
      /\ Len(header.ins) \in Nat
  BY <1>1, HeaderIs
<1>3. pos < NI /\ pos + 1 \in 1 .. NI /\ pos + 1 <= numMaskedIns  BY <1>1, <1>2 DEF NI
<1>4. pos \in 0 .. Len(header.ins) * header.d - 1  BY <1>1, <1>2 DEF numMaskedIns
<1>5. numIn \in 0 .. Len(header.ins) - 1 /\ i \in 0 .. d - 1 /\ pos = d * numIn + i
  BY <1>1, <1>2, <1>4, SharePlace
<1>6. name = InputNames[pos + 1]
  <2>1. (pos + 1) - 1 = pos  BY <1>1
  <2>. QED  BY <1>1, <1>3, <2>1, InputNamesAre DEF InputName
<1>7. Returned(second) \in Nat /\ (pass = 2 => Returned(second) = pos)
  <2>1. CASE pass = 1  BY <2>1 DEF Returned
  <2>2. CASE pass = 2
    <3>1. header.ins # <<>>  BY <1>2, <1>5, HeaderIs
    <3>2. gen.d = d  BY <1>1, <2>2, <3>1, SecondPass
    <3>3. Returned(second) = i + d * numIn  BY <2>2, <3>2 DEF Returned, gen_in
    <3>. HIDE DEF i, numIn, d, second
    <3>4. d * numIn \in Nat  BY <1>2, <1>5
    <3>. QED  BY <1>1, <1>5, <3>3, <3>4
  <2>. QED  BY <1>1, <2>1, <2>2
<1>8. WiresRight' /\ ValuesRight'
  <2>1. WiresRight /\ ValuesRight  BY <1>1 DEF Reading
  <2>. HIDE DEF name, second
  <2>. QED  BY <1>1, <1>3, <1>6, <1>7, <2>1, NewInput
<1>9. numMaskedIns' = numMaskedIns /\ numMaskedOuts' = numMaskedOuts /\ header' = header /\ NI' = NI
  BY <1>1, FileSame
<1>10. PlaceRight'
  <2>1. PlaceRight  BY <1>1 DEF Reading
  <2>. QED  BY <1>1, <1>2, <1>3, <1>9, <2>1 DEF PlaceRight
<1>11. /\ \A p : OutsRead(p)' = OutsRead(p) /\ RndsRead(p)' = RndsRead(p)
       /\ NumLines' = NumLines
       /\ pass = 2 => InsRead(1)' = InsRead(1)
       /\ pass = 1 => InsRead(1) = pos /\ InsRead(1)' = pos + 1
  BY <1>1, <1>2, <1>3, <1>9 DEF OutsRead, RndsRead, NumLines, InsRead
<1>12. LinesRight'
  BY <1>1, <1>11, LinesFrame DEF Reading
<1>13. GenRight' /\ OperationsRight' /\ CountsRight' /\ OutsRight'
  <2>1. GenRight /\ OperationsRight /\ CountsRight /\ OutsRight  BY <1>1 DEF Reading
  <2>. HIDE DEF name, second
  <2>. QED  BY <1>1, <1>11, <2>1, GenFrame
<1>14. InfoRight'
  <2>1. CASE pass = 2
    <3>1. InfoRight /\ info' = info /\ file' = file  BY <1>1, <2>1 DEF Reading
    <3>. QED  BY <1>1, <1>11, <2>1, <3>1, InfoFrame
  <2>2. CASE pass = 1
    <3>1. InfoRight  BY <1>1 DEF Reading
    <3>2. info' = [info EXCEPT !.numIns = AtLeast(@, numIn + 1), !.d = AtLeast(@, i + 1)]
      BY <1>1, <2>2 DEF basicGadgetInfo_in
    <3>3. OutsRead(1) = 0 /\ OutsRead(1)' = 0  BY <1>1, <2>2 DEF OutsRead
    <3>4. Widest(0) = 0 /\ Counted(0) = 0  BY <1>2 DEF Widest, Counted
    <3>5. /\ Counted(pos) \in Nat /\ Widest(pos) \in Nat
          /\ Counted(pos + 1) \in Nat /\ Widest(pos + 1) \in Nat
          /\ AtLeast(Counted(pos), numIn + 1) = Counted(pos + 1)
          /\ AtLeast(Widest(pos), i + 1) = Widest(pos + 1)
      <4>1. pos \in Nat /\ pos + 1 \in Nat  BY <1>1
      <4>. QED  BY <1>1, <4>1, CountedNext
    <3>. HIDE DEF numIn, i, d, name, second
    <3>6. AtLeast(Widest(pos), 0) = Widest(pos) /\ AtLeast(Widest(pos + 1), 0) = Widest(pos + 1)
      BY <3>5 DEF AtLeast
    <3>7. info.numIns = Counted(pos) /\ info.d = Widest(pos)
      BY <1>11, <2>2, <3>1, <3>3, <3>4, <3>6 DEF InfoRight
    <3>8. /\ info' \in [d : Nat, numIns : Nat, numRnds : Nat, numOuts : Nat, numOperations : Nat]
          /\ info'.numIns = Counted(pos + 1) /\ info'.d = Widest(pos + 1)
          /\ info'.numRnds = info.numRnds /\ info'.numOuts = info.numOuts
          /\ info'.numOperations = info.numOperations
      BY <3>1, <3>2, <3>5, <3>7 DEF InfoRight
    <3>9. \A p : Counted(p)' = Counted(p) /\ Widest(p)' = Widest(p)  BY <1>1, FileSame
    <3>. QED  BY <1>1, <1>11, <2>2, <3>1, <3>3, <3>4, <3>6, <3>8, <3>9 DEF InfoRight
  <2>. QED  BY <1>1, <2>1, <2>2
<1>15. GadgetRight' /\ FileRight' /\ pc' # "failed"  BY <1>1, FileSame DEF GadgetRight
<1>. QED  BY <1>8, <1>10, <1>12, <1>13, <1>14, <1>15 DEF IInv, Reading

(* a random input, numbered after all shares,                            *)
LEMMA RndInv ==
  ASSUME IInv, Rnd
  PROVE  IInv'
<1>. DEFINE M == numMaskedIns
            k == pos - M + 1
            name == header.rnds[k]
            v == Returned(gen_rnd(gen))
<1>1. /\ FileRight /\ Reading /\ pc = "ins" /\ pos \in M .. M + Len(header.rnds) - 1
      /\ UNCHANGED <<pc, pass, file, g>> /\ pos' = pos + 1
      /\ pos \in Nat /\ pass \in {1, 2} /\ header.complete
      /\ wires' = Append(wires, [name |-> name, v |-> v])
      /\ pass = 1 => info' = basicGadgetInfo_rnd(info)
      /\ pass = 2 => gen' = gen_rnd(gen).gen /\ info' = info
  <2>1. FileRight /\ Reading  BY DEF IInv, Rnd
  <2>. QED  BY <2>1 DEF Rnd, Reading, PlaceRight, Call, NewWire
<1>2. NI \in Nat /\ M \in Nat /\ Len(header.rnds) \in Nat /\ NI = M + Len(header.rnds)
  BY <1>1, HeaderIs DEF NI
<1>3. pos < NI /\ pos + 1 \in 1 .. NI /\ pos >= M /\ ~ (pos + 1 <= M)  BY <1>1, <1>2
<1>4. name = InputNames[pos + 1]
  <2>1. (pos + 1) - M = k  BY <1>1, <1>2
  <2>. QED  BY <1>1, <1>3, <2>1, InputNamesAre DEF InputName
<1>5. numMaskedIns' = numMaskedIns /\ numMaskedOuts' = numMaskedOuts /\ header' = header /\ NI' = NI
  BY <1>1, FileSame
<1>6. /\ \A p : OutsRead(p)' = OutsRead(p)
      /\ NumLines' = NumLines
      /\ InsRead(1)' = InsRead(1)
      /\ pass = 2 => RndsRead(1)' = RndsRead(1)
      /\ \A p \in {1, 2} : pass = p => RndsRead(p) = pos - M /\ RndsRead(p)' = pos + 1 - M
  <2>1. \A p : OutsRead(p)' = OutsRead(p)  BY <1>1, <1>5 DEF OutsRead
  <2>2. NumLines' = NumLines  BY <1>1 DEF NumLines
  <2>3. InsRead(1)' = InsRead(1)  BY <1>1, <1>2, <1>3, <1>5 DEF InsRead
  <2>4. pass = 2 => RndsRead(1)' = RndsRead(1)  BY <1>1, <1>5 DEF RndsRead
  <2>5. \A p \in {1, 2} : pass = p => RndsRead(p) = pos - M /\ RndsRead(p)' = pos + 1 - M
    <3>. SUFFICES ASSUME NEW p \in {1, 2}, pass = p
                  PROVE  RndsRead(p) = pos - M /\ RndsRead(p)' = pos + 1 - M
      OBVIOUS
    <3>1. ~ (pass > p) /\ ~ (pass' > p)  BY <1>1
    <3>. QED  BY <1>1, <1>2, <1>3, <1>5, <3>1 DEF RndsRead
  <2>. QED  BY <2>1, <2>2, <2>3, <2>4, <2>5
<1>7. v \in Nat /\ (pass = 2 => v = pos)
  <2>1. CASE pass = 1  BY <2>1 DEF Returned
  <2>2. CASE pass = 2
    <3>1. gen.numIns * gen.d + Len(header.rnds) = NI  BY <1>1, <2>2, SecondPass
    <3>2. gen.numAllocRnds = pos - M  BY <1>1, <1>6, <2>2 DEF Reading, GenRight
    <3>3. v = gen.numIns * gen.d + gen.numAllocRnds  BY <2>2 DEF Returned, gen_rnd
    <3>4. gen.numIns \in Nat /\ gen.d \in Nat  BY <1>1, <2>2 DEF Reading, GenRight
    <3>5. \A a, b \in Nat : a * b \in Nat  OBVIOUS
    <3>. DEFINE q == gen.numIns * gen.d
    <3>6. q \in Nat  BY <3>4, <3>5
    <3>. HIDE DEF q, v, M
    <3>7. v = q + gen.numAllocRnds /\ q + Len(header.rnds) = NI  BY <3>1, <3>3 DEF q
    <3>. QED  BY <1>1, <1>2, <3>2, <3>6, <3>7
  <2>. QED  BY <1>1, <2>1, <2>2
<1>8. WiresRight' /\ ValuesRight'
  <2>1. WiresRight /\ ValuesRight  BY <1>1 DEF Reading
  <2>. HIDE DEF name, v
  <2>. QED  BY <1>1, <1>3, <1>4, <1>7, <2>1, NewInput
<1>9. PlaceRight'
  <2>1. PlaceRight  BY <1>1 DEF Reading
  <2>. QED  BY <1>1, <1>2, <1>3, <1>5, <2>1 DEF PlaceRight
<1>10. LinesRight'
  BY <1>1, <1>6, LinesFrame DEF Reading
<1>11. GenRight' /\ OperationsRight' /\ CountsRight' /\ OutsRight'
  <2>1. GenRight /\ OperationsRight /\ CountsRight /\ OutsRight  BY <1>1 DEF Reading
  <2>2. CASE pass = 1
    <3>. HIDE DEF name, v
    <3>. QED  BY <1>1, <2>1, <2>2, GenFrame
  <2>3. CASE pass = 2
    <3>1. gen' = [gen EXCEPT !.numAllocRnds = @ + 1]  BY <1>1, <2>3 DEF gen_rnd
    <3>2. /\ gen \in [d : Nat, numIns : Nat, numOuts : Nat, numAllocRnds : Nat,
                      op : Seq(OpSet), out2op : [0 .. numMaskedOuts - 1 -> Nat]]
          /\ gen.numAllocRnds = pos - M
      BY <1>6, <2>1, <2>3 DEF GenRight
    <3>3. /\ gen' \in [d : Nat, numIns : Nat, numOuts : Nat, numAllocRnds : Nat,
                       op : Seq(OpSet), out2op : [0 .. numMaskedOuts - 1 -> Nat]]
          /\ gen'.op = gen.op /\ gen'.out2op = gen.out2op /\ gen'.d = gen.d
          /\ gen'.numIns = gen.numIns /\ gen'.numOuts = gen.numOuts
          /\ gen'.numAllocRnds = pos + 1 - M
      <4>1. (pos - M) + 1 = pos + 1 - M /\ pos + 1 - M \in Nat
        <5>. HIDE DEF M
        <5>. QED  BY <1>1, <1>2
      <4>. DEFINE q == pos + 1 - M
      <4>2. gen' = [gen EXCEPT !.numAllocRnds = q] /\ q \in Nat  BY <3>1, <3>2, <4>1
      <4>. HIDE DEF q
      <4>3. /\ gen' \in [d : Nat, numIns : Nat, numOuts : Nat, numAllocRnds : Nat,
                          op : Seq(OpSet), out2op : [0 .. numMaskedOuts - 1 -> Nat]]
            /\ gen'.op = gen.op /\ gen'.out2op = gen.out2op /\ gen'.d = gen.d
            /\ gen'.numIns = gen.numIns /\ gen'.numOuts = gen.numOuts /\ gen'.numAllocRnds = q
        BY <3>2, <4>2
      <4>. QED  BY <4>3 DEF q
    <3>4. GenRight'
      <4>1. RndsRead(2)' = pos + 1 - M  BY <1>6, <2>3
      <4>. QED  BY <1>1, <1>5, <1>6, <2>1, <2>3, <3>3, <4>1 DEF GenRight
    <3>5. OperationsRight'
      BY <1>1, <1>5, <1>6, <2>1, <2>3, <3>3, FileSame DEF OperationsRight
    <3>6. CountsRight'
      <4>1. /\ \A def : ReadersTo(def, NumLines)' = ReadersTo(def, NumLines)
            /\ \A def : OutReadersTo(def, OutsRead(2))' = OutReadersTo(def, OutsRead(2))
        BY <1>1, <1>6, FileSame DEF ReadersTo, OutReadersTo
      <4>. QED  BY <1>1, <2>1, <2>3, <3>3, <4>1 DEF CountsRight
    <3>7. OutsRight'
      BY <1>1, <1>6, <2>1, <2>3, <3>3, FileSame DEF OutsRight
    <3>. QED  BY <3>4, <3>5, <3>6, <3>7
  <2>. QED  BY <1>1, <2>2, <2>3
<1>12. InfoRight'
  <2>1. InfoRight  BY <1>1 DEF Reading
  <2>2. CASE pass = 2
    <3>. HIDE DEF name, v
    <3>. QED  BY <1>1, <1>6, <2>1, <2>2, InfoFrame
  <2>3. CASE pass = 1
    <3>1. info' = [info EXCEPT !.numRnds = @ + 1]  BY <1>1, <2>3 DEF basicGadgetInfo_rnd
    <3>2. info.numRnds = pos - M /\ RndsRead(1)' = pos + 1 - M  BY <1>6, <2>1, <2>3 DEF InfoRight
    <3>3. /\ info' \in [d : Nat, numIns : Nat, numRnds : Nat, numOuts : Nat, numOperations : Nat]
          /\ info'.numIns = info.numIns /\ info'.d = info.d /\ info'.numOuts = info.numOuts
          /\ info'.numRnds = pos + 1 - M /\ info'.numOperations = info.numOperations
      <4>1. (pos - M) + 1 = pos + 1 - M /\ pos + 1 - M \in Nat
        <5>. HIDE DEF M
        <5>. QED  BY <1>1, <1>2
      <4>. DEFINE q == pos + 1 - M
      <4>2. info' = [info EXCEPT !.numRnds = q] /\ q \in Nat  BY <3>1, <3>2, <4>1
      <4>. HIDE DEF q
      <4>3. /\ info' \in [d : Nat, numIns : Nat, numRnds : Nat, numOuts : Nat, numOperations : Nat]
            /\ info'.numIns = info.numIns /\ info'.d = info.d /\ info'.numOuts = info.numOuts
            /\ info'.numRnds = q /\ info'.numOperations = info.numOperations
        BY <2>1, <4>2 DEF InfoRight
      <4>. QED  BY <4>3 DEF q
    <3>4. \A p : Counted(p)' = Counted(p) /\ Widest(p)' = Widest(p)  BY <1>1, FileSame
    <3>. QED  BY <1>1, <1>6, <2>1, <3>2, <3>3, <3>4 DEF InfoRight
  <2>. QED  BY <1>1, <2>2, <2>3
<1>13. GadgetRight' /\ FileRight' /\ pc' # "failed"  BY <1>1, FileSame DEF GadgetRight
<1>. QED  BY <1>8, <1>9, <1>10, <1>11, <1>12, <1>13 DEF IInv, Reading

(* the end of the inputs: with distinct names, the wires are what is     *)
(* known before the first line,                                          *)
LEMMA EndOfHeaderInv ==
  ASSUME IInv, EndOfHeader
  PROVE  IInv'
<1>1. /\ FileRight /\ Reading /\ pc = "ins" /\ pos = NI /\ pc' = "body" /\ pos' = 0
      /\ UNCHANGED <<pass, file, wires, info, gen, g>>
      /\ pass \in {1, 2} /\ header.complete
  <2>1. FileRight /\ Reading  BY DEF IInv, EndOfHeader
  <2>. QED  BY <2>1 DEF EndOfHeader, Reading, PlaceRight, NI
<1>2. NI \in Nat /\ numMaskedIns \in Nat /\ Len(header.rnds) \in Nat /\ NI = numMaskedIns + Len(header.rnds)
      /\ Len(file.body) \in Nat
  BY <1>1, HeaderIs DEF NI
<1>3. numMaskedIns' = numMaskedIns /\ numMaskedOuts' = numMaskedOuts /\ header' = header /\ NI' = NI
      /\ WireSet' = WireSet
  BY <1>1, FileSame
<1>4. /\ NumLines = 0 /\ NumLines' = 0
      /\ \A p : OutsRead(p)' = OutsRead(p) /\ InsRead(p)' = InsRead(p) /\ RndsRead(p)' = RndsRead(p)
  BY <1>1, <1>2, <1>3 DEF NumLines, OutsRead, InsRead, RndsRead
<1>5. PlaceRight'
  <2>1. PlaceRight  BY <1>1 DEF Reading
  <2>2. pass = 1 => Len(file.body) = 0  BY <1>1, <2>1 DEF PlaceRight
  <2>. QED  BY <1>1, <1>2, <1>3, <2>2 DEF PlaceRight
<1>6. LinesRight' /\ InfoRight'
  BY <1>1, <1>4, LinesFrame, InfoFrame DEF Reading
<1>7. GenRight' /\ OperationsRight' /\ CountsRight' /\ OutsRight'
  <2>1. GenRight /\ OperationsRight /\ CountsRight /\ OutsRight  BY <1>1 DEF Reading
  <2>. QED  BY <1>1, <1>4, <2>1, GenFrame
<1>8. WiresRight'
  <2>1. wires \in Seq(WireSet) /\ Len(wires) = NI /\ \A j \in 1 .. NI : wires[j].name = InputNames[j]
    BY <1>1 DEF Reading, WiresRight
  <2>2. \A j, k \in 1 .. Len(wires) : wires[j].name = wires[k].name => j = k
    BY <1>1, <2>1, InputNamesDiffer
  <2>3. Known(NumLines + 1)' = ToSet(InputNames)
    <3>1. Known(1)' = Known(1)  BY <1>1, FileSame
    <3>2. Known(1) = ToSet(InputNames)  BY DEF Known
    <3>. QED  BY <1>4, <3>1, <3>2
  <2>4. ToSet(InputNames) = {InputNames[j] : j \in 1 .. NI}  BY <1>1, InputNamesAre DEF ToSet
  <2>5. {wires[j].name : j \in 1 .. Len(wires)} = ToSet(InputNames)  BY <2>1, <2>4
  <2>. QED  BY <1>1, <1>3, <2>1, <2>2, <2>3, <2>5 DEF WiresRight
<1>9. ValuesRight'
  <2>1. \A word, n : Stands(word, n)' = Stands(word, n)  BY <1>1, FileSame
  <2>. QED  BY <1>1, <1>4, <2>1 DEF Reading, ValuesRight
<1>10. GadgetRight' /\ FileRight' /\ pc' # "failed"  BY <1>1, FileSame DEF GadgetRight
<1>. QED  BY <1>5, <1>6, <1>7, <1>8, <1>9, <1>10 DEF IInv, Reading

(* the end of the body,                                                  *)
LEMMA EndOfBodyInv ==
  ASSUME IInv, EndOfBody
  PROVE  IInv'
<1>1. /\ FileRight /\ Reading /\ pc = "body" /\ pos = Len(file.body) /\ pc' = "outs" /\ pos' = 0
      /\ UNCHANGED <<pass, file, wires, info, gen, g>>
      /\ pass \in {1, 2} /\ header.complete
  <2>1. FileRight /\ Reading  BY DEF IInv, EndOfBody
  <2>. QED  BY <2>1 DEF EndOfBody, Reading, PlaceRight
<1>2. Len(file.body) \in Nat /\ numMaskedOuts \in Nat  BY <1>1, HeaderIs
<1>3. numMaskedIns' = numMaskedIns /\ numMaskedOuts' = numMaskedOuts /\ header' = header /\ NI' = NI
      /\ WireSet' = WireSet
  BY <1>1, FileSame
<1>4. /\ NumLines' = NumLines
      /\ \A p : OutsRead(p)' = OutsRead(p) /\ InsRead(p)' = InsRead(p) /\ RndsRead(p)' = RndsRead(p)
  BY <1>1, <1>2, <1>3 DEF NumLines, OutsRead, InsRead, RndsRead
<1>5. PlaceRight'
  BY <1>1, <1>2, <1>3 DEF PlaceRight
<1>6. LinesRight' /\ InfoRight'
  BY <1>1, <1>4, LinesFrame, InfoFrame DEF Reading
<1>7. GenRight' /\ OperationsRight' /\ CountsRight' /\ OutsRight'
  <2>1. GenRight /\ OperationsRight /\ CountsRight /\ OutsRight  BY <1>1 DEF Reading
  <2>. QED  BY <1>1, <1>4, <2>1, GenFrame
<1>8. WiresRight'
  <2>1. \A n : Known(n)' = Known(n)  BY <1>1, FileSame
  <2>. QED  BY <1>1, <1>3, <1>4, <2>1 DEF Reading, WiresRight
<1>9. ValuesRight'
  <2>1. \A word, n : Stands(word, n)' = Stands(word, n)  BY <1>1, FileSame
  <2>. QED  BY <1>1, <1>4, <2>1 DEF Reading, ValuesRight
<1>10. GadgetRight' /\ FileRight' /\ pc' # "failed"  BY <1>1, FileSame DEF GadgetRight
<1>. QED  BY <1>5, <1>6, <1>7, <1>8, <1>9, <1>10 DEF IInv, Reading

(* the allocation after the first pass, with nothing read and no wires,  *)
LEMMA EndOfFirstInv ==
  ASSUME IInv, EndOfFirst
  PROVE  IInv'
<1>1. /\ FileRight /\ Reading /\ pc = "outs" /\ pos = numMaskedOuts /\ pass = 1 /\ file' = file
      /\ header.complete
  <2>1. FileRight /\ Reading  BY DEF IInv, EndOfFirst
  <2>. QED  BY <2>1 DEF EndOfFirst, Reading, PlaceRight, Fail
<1>2. CASE numTotIns(info) > MAX_NUM_TOT_INS
  <2>1. pc' = "failed" /\ pass' = 1  BY <1>1, <1>2 DEF EndOfFirst, Fail
  <2>. QED  BY <1>1, <2>1, FileSame DEF IInv
<1>3. CASE ~ (numTotIns(info) > MAX_NUM_TOT_INS)
  <2>1. /\ gen' = fnGenerator_alloc(info)
        /\ pc' = "header" /\ pass' = 2 /\ pos' = 0 /\ wires' = <<>>
        /\ UNCHANGED <<file, info, g>>
    BY <1>3 DEF EndOfFirst
  <2>2. numMaskedIns' = numMaskedIns /\ numMaskedOuts' = numMaskedOuts /\ header' = header /\ NI' = NI
        /\ WireSet' = WireSet /\ NI \in Nat /\ numMaskedIns \in Nat /\ numMaskedOuts \in Nat
    BY <1>1, FileSame, HeaderIs
  <2>3. /\ InsRead(1) = numMaskedIns /\ OutsRead(1) = numMaskedOuts /\ RndsRead(1) = Len(header.rnds)
        /\ InsRead(1)' = InsRead(1) /\ OutsRead(1)' = OutsRead(1) /\ RndsRead(1)' = RndsRead(1)
        /\ OutsRead(2)' = 0 /\ RndsRead(2)' = 0 /\ NumLines' = 0
    BY <1>1, <2>1, <2>2 DEF InsRead, OutsRead, RndsRead, NumLines
  <2>4. PlaceRight'
    BY <1>1, <2>1, <2>2 DEF PlaceRight
  <2>5. LinesRight' /\ InfoRight'
    BY <1>1, <2>1, <2>3, LinesFrame, InfoFrame DEF Reading
  <2>6. InfoRight  BY <1>1 DEF Reading
  <2>7. numTotIns(info) = NI /\ info.d * info.numOuts = numMaskedOuts
    BY <1>1, <2>3, <2>6, InfoAll
  <2>. DEFINE ops == [w \in 1 .. NI |-> Op("IN", <<w - 1, 0>>)]
              outs == [o \in 0 .. numMaskedOuts - 1 |-> 0]
  <2>8. gen' = [d |-> info.d, numIns |-> info.numIns, numOuts |-> info.numOuts, numAllocRnds |-> 0,
                op |-> ops, out2op |-> outs]
    BY <2>1, <2>7 DEF fnGenerator_alloc
  <2>9. /\ ops \in Seq(OpSet) /\ Len(ops) = NI
        /\ \A def \in 1 .. NI : ops[def].operation = "IN" /\ ops[def].inWire = <<def - 1, 0>>
                                /\ ops[def].mult = -1
    <3>1. \A w \in 1 .. NI : Op("IN", <<w - 1, 0>>) \in OpSet  BY DEF Op, OpSet
    <3>2. \A def \in 1 .. NI : ops[def].operation = "IN" /\ ops[def].inWire = <<def - 1, 0>>
                                /\ ops[def].mult = -1
      BY DEF Op
    <3>3. ops \in [1 .. NI -> OpSet] /\ DOMAIN ops = 1 .. NI  BY <3>1
    <3>. HIDE DEF ops
    <3>. QED  BY <2>2, <3>2, <3>3
  <2>10. outs \in [0 .. numMaskedOuts - 1 -> Nat]  OBVIOUS
  <2>. HIDE DEF ops, outs
  <2>11. /\ gen'.op = ops /\ gen'.out2op = outs /\ gen'.d = info.d /\ gen'.numIns = info.numIns
         /\ gen'.numOuts = info.numOuts /\ gen'.numAllocRnds = 0
    BY <2>8
  <2>12. GenRight'
    <3>1. info.d \in Nat /\ info.numIns \in Nat /\ info.numOuts \in Nat  BY <2>6 DEF InfoRight
    <3>2. gen' \in [d : Nat, numIns : Nat, numOuts : Nat, numAllocRnds : Nat,
                    op : Seq(OpSet), out2op : [0 .. numMaskedOuts - 1 -> Nat]]
      BY <2>8, <2>9, <2>10, <3>1
    <3>3. Len(gen'.op) = NI + 0  BY <2>2, <2>9, <2>11
    <3>. QED  BY <2>1, <2>2, <2>3, <2>11, <3>2, <3>3 DEF GenRight
  <2>13. OperationsRight'
    <3>1. 1 .. 0 = {}  OBVIOUS
    <3>. QED  BY <2>1, <2>2, <2>3, <2>9, <2>11, <3>1 DEF OperationsRight
  <2>14. CountsRight'
    <3>1. \A def : ReadersTo(def, 0)' = {} /\ OutReadersTo(def, 0)' = {}
      <4>1. \A def : ReadersTo(def, 0) = {}
        <5>1. \A def : \A read \in Readers(def) : read[1] \in DOMAIN file.body  BY DEF Readers
        <5>2. DOMAIN file.body = 1 .. Len(file.body)  BY <1>1, HeaderIs
        <5>. QED  BY <5>1, <5>2 DEF ReadersTo
      <4>2. \A def : OutReadersTo(def, 0) = {}  BY <2>2 DEF OutReadersTo, OutReaders
      <4>3. \A def : ReadersTo(def, 0)' = ReadersTo(def, 0) /\ OutReadersTo(def, 0)' = OutReadersTo(def, 0)
        BY <1>1, FileSame DEF ReadersTo, OutReadersTo
      <4>. QED  BY <4>1, <4>2, <4>3
    <3>2. \A def : Cardinality(ReadersTo(def, NumLines))' = 0
                   /\ Cardinality(OutReadersTo(def, OutsRead(2)))' = 0
      BY <2>3, <3>1, FS_EmptySet
    <3>3. \A def \in 1 .. Len(gen'.op) : gen'.op[def].mult = 2 * 0 + 0 - 1  BY <2>9, <2>11
    <3>. QED  BY <3>2, <3>3 DEF CountsRight
  <2>15. OutsRight'
    <3>1. 0 .. 0 - 1 = {}  OBVIOUS
    <3>. QED  BY <2>3, <3>1 DEF OutsRight
  <2>16. WiresRight' /\ ValuesRight'
    <3>1. Len(wires') = 0 /\ wires' \in Seq(WireSet')  BY <2>1
    <3>. QED  BY <2>1, <3>1 DEF WiresRight, ValuesRight
  <2>17. GadgetRight' /\ FileRight' /\ pc' # "failed"  BY <1>1, <2>1, FileSame DEF GadgetRight
  <2>. QED  BY <2>4, <2>5, <2>12, <2>13, <2>14, <2>15, <2>16, <2>17 DEF IInv, Reading
<1>. QED  BY <1>2, <1>3

(* and the end of the second pass.                                       *)
LEMMA EndOfSecondInv ==
  ASSUME IInv, EndOfSecond
  PROVE  IInv'
<1>1. /\ FileRight /\ Reading /\ pc = "outs" /\ pos = numMaskedOuts /\ pass = 2 /\ file' = file
      /\ header.complete /\ pc' = "done" /\ g' = gadget(info, gen)
      /\ UNCHANGED <<pass, file, pos, wires, info, gen>>
  <2>1. FileRight /\ Reading  BY DEF IInv, EndOfSecond
  <2>. QED  BY <2>1 DEF EndOfSecond, Reading, PlaceRight
<1>2. numMaskedIns' = numMaskedIns /\ numMaskedOuts' = numMaskedOuts /\ header' = header /\ NI' = NI
      /\ WireSet' = WireSet
  BY <1>1, FileSame
<1>3. /\ NumLines' = NumLines
      /\ \A p \in {1, 2} : OutsRead(p)' = OutsRead(p) /\ InsRead(p)' = InsRead(p)
                           /\ RndsRead(p)' = RndsRead(p)
  BY <1>1, <1>2 DEF NumLines, OutsRead, InsRead, RndsRead
<1>4. PlaceRight'
  BY <1>1, <1>2 DEF Reading, PlaceRight
<1>5. LinesRight' /\ InfoRight'
  BY <1>1, <1>3, LinesFrame, InfoFrame DEF Reading
<1>6. GenRight' /\ OperationsRight' /\ CountsRight' /\ OutsRight'
  <2>1. GenRight /\ OperationsRight /\ CountsRight /\ OutsRight  BY <1>1 DEF Reading
  <2>. QED  BY <1>1, <1>3, <2>1, GenFrame
<1>7. WiresRight'
  <2>1. WiresRight  BY <1>1 DEF Reading
  <2>2. wires' = wires /\ NumLines' = NumLines  BY <1>1, <1>3
  <2>3. \A n : Known(n)' = Known(n)  BY <1>1, FileSame
  <2>4. /\ \A j, k \in 1 .. Len(wires) : wires[j].name = wires[k].name => j = k
        /\ {wires[j].name : j \in 1 .. Len(wires)} = Known(NumLines + 1)
    BY <1>1, <2>1 DEF WiresRight
  <2>. QED  BY <1>1, <1>2, <2>1, <2>2, <2>3, <2>4 DEF WiresRight
<1>8. ValuesRight'
  <2>1. \A word, n : Stands(word, n)' = Stands(word, n)  BY <1>1, FileSame
  <2>. QED  BY <1>1, <1>3, <2>1 DEF Reading, ValuesRight
<1>9. GadgetRight' /\ FileRight' /\ pc' # "failed"  BY <1>1, FileSame DEF GadgetRight
<1>. QED  BY <1>4, <1>5, <1>6, <1>7, <1>8, <1>9 DEF IInv, Reading

(* In the body and for the outputs a wire is found exactly if the name   *)
(* is known.                                                             *)
LEMMA FindsKnown ==
  ASSUME FileRight, WiresRight, pc \in {"body", "outs"}, NEW name
  PROVE  /\ findWire(name) = NotFound <=> name \notin Known(NumLines + 1)
         /\ findWire(name) # NotFound =>
              findWire(name) \in 1 .. Len(wires) /\ wires[findWire(name)].name = name
<1>1. /\ wires \in Seq(WireSet)
      /\ {wires[j].name : j \in 1 .. Len(wires)} = Known(NumLines + 1)
  BY DEF WiresRight
<1>2. /\ findWire(name) = NotFound => \A j \in 1 .. Len(wires) : wires[j].name # name
      /\ findWire(name) # NotFound =>
              findWire(name) \in 1 .. Len(wires) /\ wires[findWire(name)].name = name
  BY <1>1, Finds
<1>. QED  BY <1>1, <1>2

(* The generators, with S for the functions of outputs.                  *)
GenSet(S) ==
  [d : Nat, numIns : Nat, numOuts : Nat, numAllocRnds : Nat, op : Seq(OpSet), out2op : S]

(* Reading a wire adds to its mult and changes nothing else.             *)
LEMMA ReadIs ==
  ASSUME NEW S, NEW t \in GenSet(S), NEW v \in 0 .. Len(t.op) - 1, NEW n \in Int
  PROVE  /\ Read(t, v, n) \in GenSet(S)
         /\ Read(t, v, n).d = t.d /\ Read(t, v, n).numIns = t.numIns
         /\ Read(t, v, n).numOuts = t.numOuts /\ Read(t, v, n).numAllocRnds = t.numAllocRnds
         /\ Read(t, v, n).out2op = t.out2op
         /\ Len(Read(t, v, n).op) = Len(t.op)
         /\ \A def \in 1 .. Len(t.op) :
              /\ Read(t, v, n).op[def].operation = t.op[def].operation
              /\ Read(t, v, n).op[def].inWire = t.op[def].inWire
              /\ Read(t, v, n).op[def].mult = t.op[def].mult + (IF def = v + 1 THEN n ELSE 0)
<1>. DEFINE o == [t.op[v + 1] EXCEPT !.mult = @ + n]
            ops == [t.op EXCEPT ![v + 1] = o]
<1>1. t.op \in Seq(OpSet) /\ v + 1 \in 1 .. Len(t.op)  BY DEF GenSet
<1>2. \A def \in 1 .. Len(t.op) : t.op[def] \in OpSet  BY <1>1
<1>3. o \in OpSet /\ o.operation = t.op[v + 1].operation /\ o.inWire = t.op[v + 1].inWire
      /\ o.mult = t.op[v + 1].mult + n
  <2>. DEFINE e == t.op[v + 1]
              m == e.mult + n
  <2>1. e \in OpSet  BY <1>1, <1>2
  <2>2. m \in Int  BY <2>1 DEF OpSet
  <2>3. o = [e EXCEPT !.mult = m]  OBVIOUS
  <2>. HIDE DEF e, m, o
  <2>4. o \in OpSet /\ o.operation = e.operation /\ o.inWire = e.inWire /\ o.mult = m
    BY <2>1, <2>2, <2>3 DEF OpSet
  <2>. QED  BY <2>4 DEF e, m
<1>4. \A def \in 1 .. Len(t.op) : t.op[def].mult + 0 = t.op[def].mult
  <2>1. \A def \in 1 .. Len(t.op) : t.op[def].mult \in Int  BY <1>2 DEF OpSet
  <2>. QED  BY <2>1
<1>5. Read(t, v, n) = [t EXCEPT !.op = ops]  BY DEF Read
<1>. HIDE DEF o
<1>6. ops \in Seq(OpSet) /\ Len(ops) = Len(t.op)
      /\ \A def \in 1 .. Len(t.op) : ops[def] = IF def = v + 1 THEN o ELSE t.op[def]
  BY <1>1, <1>3
<1>. HIDE DEF ops
<1>7. [t EXCEPT !.op = ops] \in GenSet(S) /\ [t EXCEPT !.op = ops].op = ops
      /\ [t EXCEPT !.op = ops].d = t.d /\ [t EXCEPT !.op = ops].numIns = t.numIns
      /\ [t EXCEPT !.op = ops].numOuts = t.numOuts
      /\ [t EXCEPT !.op = ops].numAllocRnds = t.numAllocRnds
      /\ [t EXCEPT !.op = ops].out2op = t.out2op
  BY <1>6 DEF GenSet
<1>8. \A def \in 1 .. Len(t.op) :
        /\ ops[def].operation = t.op[def].operation
        /\ ops[def].inWire = t.op[def].inWire
        /\ ops[def].mult = t.op[def].mult + (IF def = v + 1 THEN n ELSE 0)
  BY <1>3, <1>4, <1>6
<1>. QED  BY <1>5, <1>6, <1>7, <1>8

(* A definition has a finite number of readers.                          *)
LEMMA ReadersFinite ==
  ASSUME FileRight, NEW def, NEW n \in Nat
  PROVE  /\ IsFiniteSet(Readers(def)) /\ IsFiniteSet(ReadersTo(def, n))
         /\ IsFiniteSet(OutReaders(def)) /\ IsFiniteSet(OutReadersTo(def, n))
         /\ Cardinality(Readers(def)) \in Nat /\ Cardinality(ReadersTo(def, n)) \in Nat
         /\ Cardinality(OutReaders(def)) \in Nat /\ Cardinality(OutReadersTo(def, n)) \in Nat
<1>1. DOMAIN file.body = 1 .. Len(file.body) /\ Len(file.body) \in Nat /\ numMaskedOuts \in Nat
  BY HeaderIs
<1>2. IsFiniteSet(1 .. Len(file.body)) /\ IsFiniteSet(0 .. numMaskedOuts - 1)
  BY <1>1, FS_Interval
<1>3. IsFiniteSet({"v1", "v2"})
  <2>1. IsFiniteSet({} \cup {"v1"})  BY FS_EmptySet, FS_AddElement
  <2>2. IsFiniteSet(({} \cup {"v1"}) \cup {"v2"})  BY <2>1, FS_AddElement
  <2>3. {"v1", "v2"} = ({} \cup {"v1"}) \cup {"v2"}  OBVIOUS
  <2>. QED  BY <2>2, <2>3
<1>4. IsFiniteSet((DOMAIN file.body) \X {"v1", "v2"})  BY <1>1, <1>2, <1>3, FS_Product
<1>5. IsFiniteSet(Readers(def))  BY <1>4, FS_Subset DEF Readers
<1>6. IsFiniteSet(OutReaders(def))  BY <1>2, FS_Subset DEF OutReaders
<1>7. IsFiniteSet(ReadersTo(def, n))  BY <1>5, FS_Subset DEF ReadersTo
<1>8. IsFiniteSet(OutReadersTo(def, n))  BY <1>6, FS_Subset DEF OutReadersTo
<1>. QED  BY <1>5, <1>6, <1>7, <1>8, FS_CardinalityType

(* An output adds one to the mult of the wire it is, and the output to   *)
(* its readers.                                                          *)
LEMMA OutInv ==
  ASSUME IInv, Out
  PROVE  IInv'
<1>. DEFINE d == header.d
            numOut == pos \div header.d
            i == pos % header.d
            w == findWire(Share(header.outs[numOut + 1], i))
<1>1. /\ FileRight /\ Reading /\ pc = "outs" /\ pos < numMaskedOuts
      /\ file' = file /\ pos \in Nat /\ pass \in {1, 2} /\ header.complete
  <2>1. FileRight /\ Reading  BY DEF IInv, Out
  <2>. QED  BY <2>1 DEF Out, Reading, PlaceRight, Fail
<1>2. d \in Nat \ {0} /\ NI \in Nat /\ numMaskedIns \in Nat /\ numMaskedOuts \in Nat
      /\ Len(header.outs) \in Nat /\ Len(file.body) \in Nat
  BY <1>1, HeaderIs
<1>3. pos \in 0 .. Len(header.outs) * header.d - 1  BY <1>1, <1>2 DEF numMaskedOuts
<1>4. numOut \in 0 .. Len(header.outs) - 1 /\ i \in 0 .. d - 1 /\ pos = d * numOut + i
  BY <1>1, <1>2, <1>3, SharePlace
<1>5. OutName(pos) = Share(header.outs[numOut + 1], i)  BY DEF OutName
<1>6. NumLines = Len(file.body)  BY <1>1 DEF NumLines
<1>7. /\ w = NotFound <=> OutName(pos) \notin Known(Len(file.body) + 1)
      /\ w # NotFound => w \in 1 .. Len(wires) /\ wires[w].name = OutName(pos)
  <2>. HIDE DEF numOut, i
  <2>. QED  BY <1>1, <1>5, <1>6, FindsKnown DEF Reading
<1>8. pass = 2 => w # NotFound
  <2>. SUFFICES ASSUME pass = 2 PROVE OutName(pos) \in Known(Len(file.body) + 1)  BY <1>7
  <2>1. OutsRead(1) = numMaskedOuts  BY DEF OutsRead
  <2>2. pos \in 0 .. OutsRead(1) - 1  BY <1>1, <1>2, <2>1
  <2>. QED  BY <1>1, <2>2 DEF Reading, LinesRight
<1>9. CASE w = NotFound
  <2>1. pass = 1 /\ pc' = "failed" /\ pass' = pass  BY <1>1, <1>8, <1>9 DEF Out, Fail
  <2>. QED  BY <1>1, <2>1, FileSame DEF IInv
<1>10. CASE w # NotFound
  <2>1. /\ UNCHANGED <<pc, pass, file, wires, g>> /\ pos' = pos + 1
        /\ pass = 1 => info' = basicGadgetInfo_out(info, numOut, i)
        /\ pass = 2 => gen' = gen_out(gen, wires[w].v, numOut, i) /\ info' = info
    BY <1>1, <1>10 DEF Out
  <2>2. numMaskedIns' = numMaskedIns /\ numMaskedOuts' = numMaskedOuts /\ header' = header /\ NI' = NI
        /\ WireSet' = WireSet
    BY <1>1, FileSame
  <2>3. PlaceRight'
    <3>1. PlaceRight  BY <1>1 DEF Reading
    <3>. QED  BY <1>1, <1>2, <2>1, <2>2, <3>1 DEF PlaceRight
  <2>4. /\ NumLines' = NumLines
        /\ \A p : InsRead(p)' = InsRead(p) /\ RndsRead(p)' = RndsRead(p)
        /\ pass = 2 => OutsRead(1)' = OutsRead(1)
        /\ \A p \in {1, 2} : pass = p => OutsRead(p) = pos /\ OutsRead(p)' = pos + 1
    <3>1. NumLines' = NumLines  BY <1>1, <2>1 DEF NumLines
    <3>2. \A p : InsRead(p)' = InsRead(p) /\ RndsRead(p)' = RndsRead(p)
      BY <1>1, <2>1, <2>2 DEF InsRead, RndsRead
    <3>3. pass = 2 => OutsRead(1)' = OutsRead(1)  BY <2>1, <2>2 DEF OutsRead
    <3>4. ASSUME NEW p \in {1, 2}, pass = p PROVE OutsRead(p) = pos /\ OutsRead(p)' = pos + 1
      BY <1>1, <2>1, <3>4 DEF OutsRead
    <3>. QED  BY <3>1, <3>2, <3>3, <3>4
  <2>5. LinesRight'
    <3>1. LinesRight  BY <1>1 DEF Reading
    <3>2. CASE pass = 2  BY <1>1, <2>4, <3>1, <3>2, LinesFrame
    <3>3. CASE pass = 1
      <4>1. OutName(pos) \in Known(Len(file.body) + 1)  BY <1>7, <1>10
      <4>2. OutsRead(1) = pos /\ OutsRead(1)' = pos + 1  BY <2>4, <3>3
      <4>3. \A o \in 0 .. (pos + 1) - 1 : o \in 0 .. pos - 1 \/ o = pos  BY <1>1
      <4>4. \A o \in 0 .. (pos + 1) - 1 : OutName(o) \in Known(Len(file.body) + 1)
        BY <3>1, <4>1, <4>2, <4>3 DEF LinesRight
      <4>. QED  BY <1>1, <3>1, <4>2, <4>4, FileSame DEF LinesRight
    <3>. QED  BY <1>1, <3>2, <3>3
  <2>6. WiresRight'
    <3>1. \A n : Known(n)' = Known(n)  BY <1>1, FileSame
    <3>. QED  BY <1>1, <2>1, <2>2, <2>4, <3>1 DEF Reading, WiresRight
  <2>7. ValuesRight'
    <3>1. \A word, n : Stands(word, n)' = Stands(word, n)  BY <1>1, FileSame
    <3>. QED  BY <1>1, <2>1, <2>4, <3>1 DEF Reading, ValuesRight
  <2>8. InfoRight'
    <3>1. InfoRight  BY <1>1 DEF Reading
    <3>2. CASE pass = 2
      <4>. HIDE DEF numOut, i, w
      <4>. QED  BY <1>1, <2>1, <2>4, <3>1, <3>2, InfoFrame
    <3>3. CASE pass = 1
      <4>1. info' = [info EXCEPT !.numOuts = AtLeast(@, numOut + 1), !.d = AtLeast(@, i + 1)]
        BY <2>1, <3>3 DEF basicGadgetInfo_out
      <4>2. OutsRead(1) = pos /\ OutsRead(1)' = pos + 1  BY <2>4, <3>3
      <4>. DEFINE I == Widest(InsRead(1))
      <4>3. I \in Nat
        <5>1. InsRead(1) \in Nat  BY <1>1, <1>2 DEF InsRead
        <5>. QED  BY <1>1, <5>1, CountedNext
      <4>4. /\ Counted(pos) \in Nat /\ Widest(pos) \in Nat
            /\ Counted(pos + 1) \in Nat /\ Widest(pos + 1) \in Nat
            /\ AtLeast(Counted(pos), numOut + 1) = Counted(pos + 1)
            /\ AtLeast(Widest(pos), i + 1) = Widest(pos + 1)
        <5>1. pos \in Nat /\ pos + 1 \in Nat  BY <1>1
        <5>. QED  BY <1>1, <5>1, CountedNext
      <4>5. numOut \in Nat /\ i \in Nat  BY <1>4
      <4>. HIDE DEF numOut, i, d, w, I
      <4>6. AtLeast(AtLeast(I, Widest(pos)), i + 1) = AtLeast(I, Widest(pos + 1))
            /\ AtLeast(I, Widest(pos + 1)) \in Nat
        BY <4>3, <4>4, <4>5 DEF AtLeast
      <4>7. info.numOuts = Counted(pos) /\ info.d = AtLeast(I, Widest(pos))
        BY <3>1, <4>2 DEF InfoRight, I
      <4>8. /\ info' \in [d : Nat, numIns : Nat, numRnds : Nat, numOuts : Nat, numOperations : Nat]
            /\ info'.numOuts = Counted(pos + 1) /\ info'.d = AtLeast(I, Widest(pos + 1))
            /\ info'.numRnds = info.numRnds /\ info'.numIns = info.numIns
            /\ info'.numOperations = info.numOperations
        BY <3>1, <4>1, <4>4, <4>6, <4>7 DEF InfoRight
      <4>9. \A p : Counted(p)' = Counted(p) /\ Widest(p)' = Widest(p)  BY <1>1, FileSame
      <4>. QED  BY <1>1, <2>4, <3>1, <4>2, <4>8, <4>9 DEF InfoRight, I
    <3>. QED  BY <1>1, <3>2, <3>3
  <2>9. GenRight' /\ OperationsRight' /\ CountsRight' /\ OutsRight'
    <3>1. GenRight /\ OperationsRight /\ CountsRight /\ OutsRight  BY <1>1 DEF Reading
    <3>2. CASE pass = 1
      <4>. HIDE DEF numOut, i, w
      <4>. QED  BY <1>1, <2>1, <2>4, <3>1, <3>2, GenFrame
    <3>3. CASE pass = 2
      <4>. DEFINE v == wires[w].v
                  S == [0 .. numMaskedOuts - 1 -> Nat]
                  t == Read(gen, v, 1)
      <4>1. header.outs # <<>>  BY <1>2, <1>4, HeaderIs
      <4>2. gen.d = d  BY <1>1, <3>3, <4>1, SecondPass
      <4>3. v = StandsForOut(pos) - 1 /\ v + 1 = StandsForOut(pos) /\ v \in 0 .. Len(gen.op) - 1 /\ v \in Nat
        <5>1. v = Stands(OutName(pos), Len(file.body) + 1) - 1
          <6>1. w \in 1 .. Len(wires) /\ wires[w].name = OutName(pos)  BY <1>7, <1>10
          <6>. HIDE DEF w
          <6>. QED  BY <1>1, <1>6, <3>3, <6>1 DEF Reading, ValuesRight
        <5>2. OutName(pos) \in Known(Len(file.body) + 1)  BY <1>7, <1>10
        <5>3. Stands(OutName(pos), Len(file.body) + 1) \in 1 .. NI + (Len(file.body) + 1) - 1
          <6>1. Len(file.body) + 1 \in 1 .. Len(file.body) + 1  BY <1>2
          <6>. QED  BY <1>1, <5>2, <6>1, StandsKnown
        <5>4. Len(gen.op) = NI + Len(file.body)  BY <1>6, <3>1, <3>3 DEF GenRight
        <5>. HIDE DEF v
        <5>. QED  BY <1>2, <5>1, <5>3, <5>4 DEF StandsForOut
      <4>4. gen \in GenSet(S) /\ gen.out2op \in S  BY <3>1, <3>3 DEF GenRight, GenSet
      <4>5. numOut * gen.d + i = pos
        <5>. DEFINE q == d * numOut
        <5>1. numOut * d = q /\ q \in Nat /\ i \in Nat
          <6>1. \A x1, y1 \in Nat : x1 * y1 = y1 * x1 /\ x1 * y1 \in Nat  OBVIOUS
          <6>2. numOut \in Nat /\ d \in Nat /\ i \in Nat  BY <1>2, <1>4
          <6>. HIDE DEF numOut, d, i
          <6>. QED  BY <6>1, <6>2
        <5>2. pos = q + i  BY <1>4
        <5>. HIDE DEF numOut, d, i, q
        <5>. QED  BY <4>2, <5>1, <5>2
      <4>6. gen' = [t EXCEPT !.out2op[pos] = v]
        BY <2>1, <3>3, <4>5 DEF gen_out
      <4>. HIDE DEF v, numOut, i, w
      <4>7. /\ t \in GenSet(S) /\ t.d = gen.d /\ t.numIns = gen.numIns /\ t.numOuts = gen.numOuts
            /\ t.numAllocRnds = gen.numAllocRnds /\ t.out2op = gen.out2op /\ Len(t.op) = Len(gen.op)
            /\ \A def \in 1 .. Len(gen.op) :
                 /\ t.op[def].operation = gen.op[def].operation
                 /\ t.op[def].inWire = gen.op[def].inWire
                 /\ t.op[def].mult = gen.op[def].mult + (IF def = v + 1 THEN 1 ELSE 0)
        BY <4>3, <4>4, ReadIs
      <4>. HIDE DEF t
      <4>8. /\ gen' \in GenSet(S) /\ gen'.d = gen.d /\ gen'.numIns = gen.numIns
            /\ gen'.numOuts = gen.numOuts /\ gen'.numAllocRnds = gen.numAllocRnds
            /\ gen'.op = t.op /\ gen'.out2op = [gen.out2op EXCEPT ![pos] = v]
        <5>. DEFINE u == [gen.out2op EXCEPT ![pos] = v]
        <5>1. u \in S  BY <1>1, <1>2, <4>3, <4>4
        <5>2. gen' = [t EXCEPT !.out2op = u]  BY <4>6, <4>7
        <5>. HIDE DEF u, S
        <5>3. /\ gen' \in GenSet(S) /\ gen'.d = t.d /\ gen'.numIns = t.numIns
              /\ gen'.numOuts = t.numOuts /\ gen'.numAllocRnds = t.numAllocRnds
              /\ gen'.op = t.op /\ gen'.out2op = u
          BY <4>7, <5>1, <5>2 DEF GenSet
        <5>. QED  BY <4>7, <5>3 DEF u
      <4>9. GenRight'
        BY <1>1, <2>1, <2>2, <2>4, <3>1, <3>3, <4>7, <4>8 DEF GenRight, GenSet
      <4>10. OperationsRight'
        <5>1. /\ Len(gen.op) = NI + NumLines /\ NumLines \in Nat  BY <1>2, <1>6, <3>1, <3>3 DEF GenRight
        <5>2. \A def \in 1 .. NI : def \in 1 .. Len(gen.op)  BY <1>2, <5>1
        <5>3. \A n \in 1 .. NumLines : NI + n \in 1 .. Len(gen.op)  BY <1>2, <5>1
        <5>4. \A word, n : Stands(word, n)' = Stands(word, n)  BY <1>1, FileSame
        <5>. QED
          BY <1>1, <2>1, <2>2, <2>4, <3>1, <3>3, <4>7, <4>8, <5>2, <5>3, <5>4 DEF OperationsRight
      <4>11. CountsRight'
        <5>1. \A def : ReadersTo(def, NumLines)' = ReadersTo(def, NumLines)
          BY <1>1, <2>4, FileSame DEF ReadersTo
        <5>2. \A def : OutReadersTo(def, OutsRead(2))' = OutReadersTo(def, pos + 1)
          BY <1>1, <2>4, <3>3, FileSame DEF OutReadersTo
        <5>3. OutsRead(2) = pos  BY <2>4, <3>3
        <5>4. ASSUME NEW def
              PROVE  Cardinality(OutReadersTo(def, pos + 1)) =
                       Cardinality(OutReadersTo(def, pos)) + (IF def = v + 1 THEN 1 ELSE 0)
          <6>1. v + 1 = StandsForOut(pos)  BY <4>3
          <6>2. \A o \in OutReaders(def) : o \in Int /\ (o < pos + 1 <=> o < pos \/ o = pos)
            BY <1>1 DEF OutReaders
          <6>3. pos \in OutReaders(def) <=> def = v + 1
            BY <1>1, <1>2, <6>1 DEF OutReaders
          <6>4. pos \notin OutReadersTo(def, pos)  BY <1>1 DEF OutReadersTo
          <6>5. IsFiniteSet(OutReadersTo(def, pos)) /\ Cardinality(OutReadersTo(def, pos)) \in Nat
            BY <1>1, ReadersFinite
          <6>6. CASE def = v + 1
            <7>1. OutReadersTo(def, pos + 1) = OutReadersTo(def, pos) \cup {pos}
              BY <6>2, <6>3, <6>6 DEF OutReadersTo
            <7>. QED  BY <6>4, <6>5, <6>6, <7>1, FS_AddElement
          <6>7. CASE def # v + 1
            <7>1. OutReadersTo(def, pos + 1) = OutReadersTo(def, pos)
              BY <6>2, <6>3, <6>7 DEF OutReadersTo
            <7>. QED  BY <6>5, <6>7, <7>1
          <6>. QED  BY <6>6, <6>7
        <5>5. ASSUME NEW def \in 1 .. Len(gen.op)
              PROVE  gen'.op[def].mult = 2 * Cardinality(ReadersTo(def, NumLines))
                                         + Cardinality(OutReadersTo(def, pos + 1)) - 1
          <6>1. gen.op[def].mult = 2 * Cardinality(ReadersTo(def, NumLines))
                                   + Cardinality(OutReadersTo(def, pos)) - 1
            BY <3>1, <3>3, <5>3 DEF CountsRight
          <6>2. gen'.op[def].mult = gen.op[def].mult + (IF def = v + 1 THEN 1 ELSE 0)
            BY <4>7, <4>8
          <6>3. Cardinality(ReadersTo(def, NumLines)) \in Nat /\ Cardinality(OutReadersTo(def, pos)) \in Nat
            BY <1>1, <1>2, <1>6, ReadersFinite
          <6>. QED  BY <5>4, <6>1, <6>2, <6>3
        <5>6. Len(gen'.op) = Len(gen.op)  BY <4>7, <4>8
        <5>. QED  BY <5>1, <5>2, <5>5, <5>6 DEF CountsRight
      <4>12. OutsRight'
        <5>1. OutsRead(2)' = pos + 1 /\ OutsRead(2) = pos  BY <2>4, <3>3
        <5>2. \A o \in 0 .. (pos + 1) - 1 : o \in 0 .. pos - 1 \/ o = pos  BY <1>1
        <5>3. \A o \in 0 .. pos - 1 : gen.out2op[o] = StandsForOut(o) - 1 /\ o # pos
          BY <1>1, <3>1, <3>3, <5>1 DEF OutsRight
        <5>4. pos \in 0 .. numMaskedOuts - 1  BY <1>1, <1>2
        <5>5. \A o \in 0 .. pos - 1 : o \in 0 .. numMaskedOuts - 1  BY <1>1, <1>2
        <5>6. \A o \in 0 .. (pos + 1) - 1 : gen'.out2op[o] = StandsForOut(o) - 1
          <6>1. gen'.out2op[pos] = v  BY <4>4, <4>8, <5>4
          <6>2. \A o \in 0 .. pos - 1 : gen'.out2op[o] = gen.out2op[o]  BY <4>4, <4>8, <5>3, <5>5
          <6>. QED  BY <4>3, <5>2, <5>3, <6>1, <6>2
        <5>7. \A o : StandsForOut(o)' = StandsForOut(o)  BY <1>1, FileSame
        <5>. QED  BY <5>1, <5>6, <5>7 DEF OutsRight
      <4>. QED  BY <4>9, <4>10, <4>11, <4>12
    <3>. QED  BY <1>1, <3>2, <3>3
  <2>10. GadgetRight' /\ FileRight' /\ pc' # "failed"  BY <1>1, <2>1, FileSame DEF GadgetRight
  <2>. QED  BY <2>3, <2>5, <2>6, <2>7, <2>8, <2>9, <2>10 DEF IInv, Reading
<1>. QED  BY <1>9, <1>10

(* A line makes its name known: a new wire, or another value for the     *)
(* wire there was.                                                       *)
LEMMA NewName ==
  ASSUME FileRight, WiresRight, pc = "body", NEW name \in Names(header), NEW v \in Nat,
         IF findWire(name) = NotFound THEN wires' = Append(wires, [name |-> name, v |-> v])
         ELSE wires' = [wires EXCEPT ![findWire(name)].v = v]
  PROVE  /\ wires' \in Seq(WireSet)
         /\ \A j, k \in 1 .. Len(wires') : wires'[j].name = wires'[k].name => j = k
         /\ {wires'[j].name : j \in 1 .. Len(wires')} = Known(NumLines + 1) \cup {name}
         /\ \A j \in 1 .. Len(wires') :
              \/ wires'[j].name = name /\ wires'[j].v = v
              \/ wires'[j].name # name /\ j \in 1 .. Len(wires) /\ wires'[j] = wires[j]
<1>. DEFINE ret == findWire(name)
            w == [name |-> name, v |-> v]
<1>1. /\ wires \in Seq(WireSet) /\ Len(wires) \in Nat
      /\ \A j, k \in 1 .. Len(wires) : wires[j].name = wires[k].name => j = k
      /\ {wires[j].name : j \in 1 .. Len(wires)} = Known(NumLines + 1)
  BY DEF WiresRight
<1>2. \A j \in 1 .. Len(wires) : wires[j] \in WireSet  BY <1>1
<1>3. w \in WireSet /\ w.name = name /\ w.v = v  BY DEF WireSet, NameSet
<1>4. /\ ret = NotFound => \A j \in 1 .. Len(wires) : wires[j].name # name
      /\ ret # NotFound => ret \in 1 .. Len(wires) /\ wires[ret].name = name
  BY <1>1, Finds
<1>5. CASE ret = NotFound
  <2>1. wires' = Append(wires, w)  BY <1>5
  <2>. HIDE DEF w, ret
  <2>2. /\ wires' \in Seq(WireSet) /\ Len(wires') = Len(wires) + 1
        /\ \A j \in 1 .. Len(wires) + 1 : wires'[j] = IF j <= Len(wires) THEN wires[j] ELSE w
    BY <1>1, <1>3, <2>1
  <2>3. \A j \in 1 .. Len(wires) + 1 : j \in 1 .. Len(wires) \/ j = Len(wires) + 1  BY <1>1
  <2>4. \A j \in 1 .. Len(wires) : wires'[j] = wires[j] /\ wires'[j].name # name
                                   /\ j \in 1 .. Len(wires) + 1
    BY <1>1, <1>4, <1>5, <2>2
  <2>5. wires'[Len(wires) + 1] = w /\ Len(wires) + 1 \in 1 .. Len(wires) + 1  BY <1>1, <2>2
  <2>6. \A j, k \in 1 .. Len(wires') : wires'[j].name = wires'[k].name => j = k
    BY <1>1, <1>3, <2>2, <2>3, <2>4, <2>5
  <2>7. {wires'[j].name : j \in 1 .. Len(wires')} = Known(NumLines + 1) \cup {name}
    <3>1. \A j \in 1 .. Len(wires') : wires'[j].name \in {wires[k].name : k \in 1 .. Len(wires)} \cup {name}
      BY <1>3, <2>2, <2>3, <2>4, <2>5
    <3>2. \A k \in 1 .. Len(wires) : wires[k].name \in {wires'[j].name : j \in 1 .. Len(wires')}
      BY <2>2, <2>4
    <3>3. name \in {wires'[j].name : j \in 1 .. Len(wires')}
      BY <1>3, <2>2, <2>5
    <3>. DEFINE A == {wires'[j].name : j \in 1 .. Len(wires')}
                B == {wires[j].name : j \in 1 .. Len(wires)}
    <3>4. A \subseteq B \cup {name} /\ B \subseteq A /\ name \in A  BY <3>1, <3>2, <3>3
    <3>5. B = Known(NumLines + 1)  BY <1>1
    <3>. HIDE DEF A, B
    <3>6. A = Known(NumLines + 1) \cup {name}  BY <3>4, <3>5
    <3>. QED  BY <3>6 DEF A
  <2>8. \A j \in 1 .. Len(wires') :
          \/ wires'[j].name = name /\ wires'[j].v = v
          \/ wires'[j].name # name /\ j \in 1 .. Len(wires) /\ wires'[j] = wires[j]
    BY <1>3, <2>2, <2>3, <2>4, <2>5
  <2>. QED  BY <2>2, <2>6, <2>7, <2>8
<1>6. CASE ret # NotFound
  <2>. DEFINE u == [wires[ret] EXCEPT !.v = v]
  <2>1. wires' = [wires EXCEPT ![ret] = u]  BY <1>6
  <2>2. wires[ret] \in WireSet  BY <1>2, <1>4, <1>6
  <2>. DEFINE e == wires[ret]
  <2>3. u \in WireSet /\ u.name = wires[ret].name /\ u.v = v
    <3>1. u = [e EXCEPT !.v = v]  OBVIOUS
    <3>. HIDE DEF e, u
    <3>2. u \in WireSet /\ u.name = e.name /\ u.v = v  BY <2>2, <3>1 DEF WireSet, e
    <3>. QED  BY <3>2 DEF e
  <2>. HIDE DEF u, ret, w
  <2>4. /\ wires' \in Seq(WireSet) /\ Len(wires') = Len(wires)
        /\ \A j \in 1 .. Len(wires) : wires'[j] = IF j = ret THEN u ELSE wires[j]
    BY <1>1, <1>4, <1>6, <2>1, <2>3
  <2>5. \A j \in 1 .. Len(wires) : wires'[j].name = wires[j].name  BY <2>3, <2>4
  <2>6. \A j \in 1 .. Len(wires) : j # ret => wires[j].name # name
    BY <1>1, <1>4, <1>6
  <2>7. {wires'[j].name : j \in 1 .. Len(wires')} = {wires[j].name : j \in 1 .. Len(wires)}
    BY <2>4, <2>5
  <2>8. name \in {wires[j].name : j \in 1 .. Len(wires)}  BY <1>4, <1>6
  <2>9. \A j, k \in 1 .. Len(wires') : wires'[j].name = wires'[k].name => j = k
    BY <1>1, <2>4, <2>5
  <2>10. \A j \in 1 .. Len(wires') :
          \/ wires'[j].name = name /\ wires'[j].v = v
          \/ wires'[j].name # name /\ j \in 1 .. Len(wires) /\ wires'[j] = wires[j]
    BY <1>4, <1>6, <2>3, <2>4, <2>5, <2>6
  <2>11. {wires'[j].name : j \in 1 .. Len(wires')} = Known(NumLines + 1) \cup {name}
    BY <1>1, <2>7, <2>8
  <2>. QED  BY <2>4, <2>9, <2>10, <2>11
<1>. QED  BY <1>5, <1>6

(* An assignment of the first pass keeps the invariant: the line it adds *)
(* to the file reads known names only.                                   *)
LEMMA AssignFirst ==
  ASSUME IInv, Assign, pass = 1
  PROVE  IInv'
<1>1. FileRight /\ Reading /\ pc = "body"  BY DEF IInv, Assign
<1>2. PICK line \in Lines :
        LET ret == findWire(line.ret)
            v1 == findWire(line.v1)
            v2 == findWire(line.v2)
            second == gen_binary(gen, line.operation, wires[v1].v, wires[v2].v)
        IN  IF v1 = NotFound \/ v2 = NotFound
            THEN Fail
            ELSE /\ info' = basicGadgetInfo_binary(info) /\ UNCHANGED gen
                 /\ IF ret = NotFound THEN wires' = Append(wires, [name |-> line.ret, v |-> 0])
                    ELSE wires' = [wires EXCEPT ![ret].v = 0]
                 /\ file' = [file EXCEPT !.body = Append(@, line)]
                 /\ pos' = pos + 1
                 /\ UNCHANGED <<pc, pass, g>>
  BY DEF Assign, Call, NewWire, Returned
<1>3. CASE findWire(line.v1) = NotFound \/ findWire(line.v2) = NotFound
  <2>1. pc' = "failed" /\ pass' = 1 /\ file' = file  BY <1>2, <1>3 DEF Fail
  <2>. QED  BY <1>1, <2>1, FileSame DEF IInv
<1>4. CASE ~ (findWire(line.v1) = NotFound \/ findWire(line.v2) = NotFound)
  <2>. DEFINE L == Len(file.body)
              body == Append(file.body, line)
  <2>1. /\ info' = basicGadgetInfo_binary(info) /\ UNCHANGED gen
        /\ IF findWire(line.ret) = NotFound
           THEN wires' = Append(wires, [name |-> line.ret, v |-> 0])
           ELSE wires' = [wires EXCEPT ![findWire(line.ret)].v = 0]
        /\ file' = [file EXCEPT !.body = body]
        /\ pos' = pos + 1
        /\ UNCHANGED <<pc, pass, g>>
    BY <1>2, <1>4
  <2>2. line \in LineSet
    <3>1. Lines \subseteq LineSet  BY DEF Lines, LineSet
    <3>. QED  BY <3>1
  <2>3. L \in Nat /\ pos = L /\ header.complete /\ file.body \in Seq(LineSet)
    BY <1>1, HeaderIs DEF Reading, PlaceRight
  <2>4. line.v1 \in Known(L + 1) /\ line.v2 \in Known(L + 1)
    <3>1. NumLines = L  BY <1>1, <2>3 DEF NumLines
    <3>2. WiresRight  BY <1>1 DEF Reading
    <3>3. /\ findWire(line.v1) = NotFound <=> line.v1 \notin Known(NumLines + 1)
          /\ findWire(line.v2) = NotFound <=> line.v2 \notin Known(NumLines + 1)
      BY <1>1, <3>2, FindsKnown
    <3>. QED  BY <1>4, <3>1, <3>3
  <2>5. /\ body \in Seq(LineSet) /\ Len(body) = L + 1
        /\ \A m \in 1 .. L : body[m] = file.body[m]
        /\ body[L + 1] = line
    BY <2>2, <2>3
  <2>. HIDE DEF body
  <2>6. file'.body = body /\ header' = header
    BY <1>1, <2>1 DEF FileRight, header
  <2>7. FileRight'
    <3>1. LineSet' = LineSet  BY <2>6 DEF LineSet
    <3>2. file' \in [header : Headers, body : Seq(LineSet)]
          /\ file' = [header |-> file.header, body |-> body]
      <4>1. file \in [header : Headers, body : Seq(LineSet)]  BY <1>1 DEF FileRight
      <4>. HIDE DEF L
      <4>. QED  BY <2>1, <2>5, <4>1
    <3>3. file' = [header |-> header', body |-> file'.body]  BY <2>6, <3>2 DEF header
    <3>. QED  BY <3>1, <3>2, <3>3 DEF FileRight
  <2>8. /\ numMaskedIns' = numMaskedIns /\ numMaskedOuts' = numMaskedOuts
        /\ InputNames' = InputNames /\ NI' = NI /\ WireSet' = WireSet
        /\ \A p : Counted(p)' = Counted(p) /\ Widest(p)' = Widest(p)
        /\ \A o : OutName(o)' = OutName(o)
    <3>1. numMaskedIns' = numMaskedIns /\ numMaskedOuts' = numMaskedOuts
      BY <2>6 DEF numMaskedIns, numMaskedOuts
    <3>2. InputNames' = InputNames /\ NI' = NI  BY <2>6, <3>1 DEF InputNames, NI
    <3>3. WireSet' = WireSet  BY <2>6, <3>2 DEF WireSet, NameSet
    <3>. QED  BY <2>6, <3>1, <3>2, <3>3 DEF Counted, Widest, OutName
  <2>9. /\ \A n \in 1 .. L + 1 : Known(n)' = Known(n)
        /\ \A n : n = L + 2 => Known(n)' = Known(L + 1) \cup {line.ret}
    <3>1. \A n \in 1 .. L + 1 : \A m \in 1 .. n - 1 : m \in 1 .. L  BY <2>3
    <3>2. \A n \in 1 .. L + 1 : Known(n)' = Known(n)
      <4>. SUFFICES ASSUME NEW n \in 1 .. L + 1 PROVE Known(n)' = Known(n)  OBVIOUS
      <4>1. \A m \in 1 .. n - 1 : file'.body[m].ret = file.body[m].ret  BY <2>5, <2>6, <3>1
      <4>2. {file'.body[m].ret : m \in 1 .. n - 1} = {file.body[m].ret : m \in 1 .. n - 1}
        BY <4>1
      <4>. QED  BY <2>8, <4>2 DEF Known
    <3>3. \A n : n = L + 2 => Known(n)' = ToSet(InputNames) \cup {body[m].ret : m \in 1 .. L + 1}
      <4>1. (L + 2) - 1 = L + 1  BY <2>3
      <4>. HIDE DEF L
      <4>2. \A n : Known(n)' = ToSet(InputNames) \cup {body[m].ret : m \in 1 .. n - 1}
        BY <2>6, <2>8 DEF Known
      <4>. QED  BY <4>1, <4>2
    <3>4. \A m \in 1 .. L + 1 : m \in 1 .. L \/ m = L + 1  BY <2>3
    <3>5. \A m \in 1 .. L : m \in 1 .. L + 1  BY <2>3
    <3>6. L + 1 \in 1 .. L + 1 /\ (L + 1) - 1 = L  BY <2>3
    <3>. HIDE DEF L
    <3>7. {body[m].ret : m \in 1 .. L + 1} = {file.body[m].ret : m \in 1 .. L} \cup {line.ret}
      BY <2>5, <3>4, <3>5, <3>6
    <3>. QED  BY <3>2, <3>3, <3>6, <3>7 DEF Known
  <2>10. /\ NumLines = L /\ NumLines' = L + 1
         /\ OutsRead(1) = 0 /\ OutsRead(1)' = 0
         /\ InsRead(1)' = InsRead(1) /\ RndsRead(1)' = RndsRead(1)
    BY <1>1, <2>1, <2>3, <2>6, <2>8 DEF NumLines, OutsRead, InsRead, RndsRead
  <2>11. PlaceRight'
    BY <1>1, <2>1, <2>3, <2>5, <2>6 DEF PlaceRight
  <2>12. LinesRight'
    <3>1. \A n \in 1 .. L : file.body[n].v1 \in Known(n) /\ file.body[n].v2 \in Known(n)
      BY <1>1 DEF Reading, LinesRight
    <3>2. \A n \in 1 .. L + 1 : n \in 1 .. L \/ n = L + 1  BY <2>3
    <3>3. L + 1 \in 1 .. L + 1  BY <2>3
    <3>4. \A n \in 1 .. L + 1 : body[n].v1 \in Known(n) /\ body[n].v2 \in Known(n)
      BY <2>4, <2>5, <3>1, <3>2
    <3>5. \A n \in 1 .. L + 1 : file'.body[n].v1 \in Known(n)' /\ file'.body[n].v2 \in Known(n)'
      BY <2>6, <2>9, <3>4
    <3>6. 0 .. 0 - 1 = {}  OBVIOUS
    <3>. QED  BY <2>5, <2>6, <2>10, <3>5, <3>6 DEF LinesRight
  <2>13. WiresRight'
    <3>1. line.ret \in Names(header)  BY <1>1, <2>2, HeaderIs DEF LineSet
    <3>2. WiresRight  BY <1>1 DEF Reading
    <3>3. /\ wires' \in Seq(WireSet)
          /\ \A j, k \in 1 .. Len(wires') : wires'[j].name = wires'[k].name => j = k
          /\ {wires'[j].name : j \in 1 .. Len(wires')} = Known(NumLines + 1) \cup {line.ret}
      BY <1>1, <2>1, <3>1, <3>2, NewName
    <3>4. Known(NumLines + 1)' = Known(NumLines + 1) \cup {line.ret}
      <4>1. NumLines' + 1 = L + 2  BY <2>3, <2>10
      <4>. QED  BY <2>9, <2>10, <4>1
    <3>. QED  BY <1>1, <2>1, <2>8, <3>3, <3>4 DEF WiresRight
  <2>14. InfoRight'
    <3>1. InfoRight  BY <1>1 DEF Reading
    <3>2. /\ info' \in [d : Nat, numIns : Nat, numRnds : Nat, numOuts : Nat, numOperations : Nat]
          /\ info'.numIns = info.numIns /\ info'.d = info.d /\ info'.numOuts = info.numOuts
          /\ info'.numRnds = info.numRnds /\ info'.numOperations = L + 1
      BY <2>1, <2>3, <3>1 DEF InfoRight, basicGadgetInfo_binary
    <3>. QED  BY <2>5, <2>6, <2>8, <2>10, <3>1, <3>2 DEF InfoRight
  <2>15. /\ ValuesRight' /\ GenRight' /\ OperationsRight' /\ CountsRight' /\ OutsRight'
         /\ GadgetRight' /\ pc' # "failed"
    BY <1>1, <2>1 DEF ValuesRight, GenRight, OperationsRight, CountsRight, OutsRight, GadgetRight
  <2>. QED  BY <2>7, <2>11, <2>12, <2>13, <2>14, <2>15 DEF IInv, Reading
<1>. QED  BY <1>3, <1>4

(* How often the wires a and b are the wire of a definition.             *)
Times(def, a, b) == (IF def = a + 1 THEN 1 ELSE 0) + (IF def = b + 1 THEN 1 ELSE 0)

(* What an operation more makes of the generator t.                      *)
Extended(t, u, operation, a, b) ==
  /\ u.d = t.d /\ u.numIns = t.numIns /\ u.numOuts = t.numOuts
  /\ u.numAllocRnds = t.numAllocRnds /\ u.out2op = t.out2op
  /\ Len(u.op) = Len(t.op) + 1
  /\ \A def \in 1 .. Len(t.op) :
       /\ u.op[def].operation = t.op[def].operation
       /\ u.op[def].inWire = t.op[def].inWire
       /\ u.op[def].mult = t.op[def].mult + 2 * Times(def, a, b)
  /\ u.op[Len(t.op) + 1].operation = operation
  /\ u.op[Len(t.op) + 1].inWire = <<a, b>>
  /\ u.op[Len(t.op) + 1].mult = -1

(* The second builder appends the operation and adds 2 to the mult of    *)
(* each wire read, 4 to one read twice.                                  *)
LEMMA BinaryIs ==
  ASSUME NEW S, NEW t, NEW a, NEW b, NEW operation, NEW u,
         t \in GenSet(S), a \in 0 .. Len(t.op) - 1, b \in 0 .. Len(t.op) - 1,
         operation \in {"XOR", "AND"}, u = gen_binary(t, operation, a, b).gen
  PROVE  u \in GenSet(S) /\ Extended(t, u, operation, a, b)
<1>. DEFINE p == Read(t, a, 2)
            q == Read(p, b, 2)
            o == Op(operation, <<a, b>>)
            ops == Append(q.op, o)
            L == Len(t.op)
<1>1. L \in Nat /\ \A def \in 1 .. L : t.op[def].mult \in Int
  <2>1. t.op \in Seq(OpSet)  BY DEF GenSet
  <2>2. \A def \in 1 .. L : t.op[def] \in OpSet  BY <2>1
  <2>3. \A e \in OpSet : e.mult \in Int  BY DEF OpSet
  <2>. QED  BY <2>1, <2>2, <2>3
<1>2. /\ p \in GenSet(S) /\ p.d = t.d /\ p.numIns = t.numIns /\ p.numOuts = t.numOuts
      /\ p.numAllocRnds = t.numAllocRnds /\ p.out2op = t.out2op /\ Len(p.op) = L
      /\ \A def \in 1 .. L :
           /\ p.op[def].operation = t.op[def].operation
           /\ p.op[def].inWire = t.op[def].inWire
           /\ p.op[def].mult = t.op[def].mult + (IF def = a + 1 THEN 2 ELSE 0)
  BY ReadIs
<1>. HIDE DEF p
<1>3. b \in 0 .. Len(p.op) - 1  BY <1>2
<1>4. /\ q \in GenSet(S) /\ q.d = p.d /\ q.numIns = p.numIns /\ q.numOuts = p.numOuts
      /\ q.numAllocRnds = p.numAllocRnds /\ q.out2op = p.out2op /\ Len(q.op) = Len(p.op)
      /\ \A def \in 1 .. Len(p.op) :
           /\ q.op[def].operation = p.op[def].operation
           /\ q.op[def].inWire = p.op[def].inWire
           /\ q.op[def].mult = p.op[def].mult + (IF def = b + 1 THEN 2 ELSE 0)
  <2>1. p \in GenSet(S) /\ 2 \in Int  BY <1>2
  <2>. QED  BY <1>3, <2>1, ReadIs
<1>5. u = [q EXCEPT !.op = ops]  BY DEF gen_binary, p
<1>. HIDE DEF q
<1>6. o \in OpSet /\ o.operation = operation /\ o.inWire = <<a, b>> /\ o.mult = -1
  <2>1. a \in Nat /\ b \in Nat  BY <1>1
  <2>. QED  BY <2>1 DEF Op, OpSet
<1>. HIDE DEF o
<1>7. /\ ops \in Seq(OpSet) /\ Len(ops) = L + 1 /\ ops[L + 1] = o
      /\ \A def \in 1 .. L : ops[def] = q.op[def]
  <2>1. q.op \in Seq(OpSet) /\ Len(q.op) = L  BY <1>2, <1>4 DEF GenSet
  <2>. HIDE DEF L
  <2>. QED  BY <1>1, <1>6, <2>1
<1>. HIDE DEF ops
<1>8. /\ u \in GenSet(S) /\ u.d = q.d /\ u.numIns = q.numIns /\ u.numOuts = q.numOuts
      /\ u.numAllocRnds = q.numAllocRnds /\ u.out2op = q.out2op /\ u.op = ops
  BY <1>4, <1>5, <1>7 DEF GenSet
<1>9. ASSUME NEW def \in 1 .. L
      PROVE  /\ u.op[def].operation = t.op[def].operation
             /\ u.op[def].inWire = t.op[def].inWire
             /\ u.op[def].mult = t.op[def].mult + 2 * Times(def, a, b)
  <2>1. u.op[def] = q.op[def]  BY <1>7, <1>8
  <2>2. q.op[def].mult = (t.op[def].mult + (IF def = a + 1 THEN 2 ELSE 0)) + (IF def = b + 1 THEN 2 ELSE 0)
    BY <1>2, <1>4
  <2>3. t.op[def].mult \in Int  BY <1>1
  <2>4. u.op[def].mult = t.op[def].mult + 2 * Times(def, a, b)
    BY <2>1, <2>2, <2>3 DEF Times
  <2>. QED  BY <1>2, <1>4, <2>1, <2>4
<1>. HIDE DEF L
<1>10. /\ u.op[L + 1].operation = operation /\ u.op[L + 1].inWire = <<a, b>> /\ u.op[L + 1].mult = -1
       /\ Len(u.op) = L + 1
  BY <1>6, <1>7, <1>8
<1>11. /\ u.d = t.d /\ u.numIns = t.numIns /\ u.numOuts = t.numOuts
       /\ u.numAllocRnds = t.numAllocRnds /\ u.out2op = t.out2op
  BY <1>2, <1>4, <1>8
<1>. QED  BY <1>8, <1>9, <1>10, <1>11 DEF L, Extended

(* A line adds what it reads.                                            *)
LEMMA LineReads ==
  ASSUME FileRight, NEW n \in 1 .. Len(file.body), NEW def
  PROVE  LET line == file.body[n]
             a == Stands(line.v1, n)
             b == Stands(line.v2, n)
         IN  Cardinality(ReadersTo(def, n)) =
               Cardinality(ReadersTo(def, n - 1)) + ((IF def = a THEN 1 ELSE 0) + (IF def = b THEN 1 ELSE 0))
<1>. DEFINE line == file.body[n]
            a == Stands(line.v1, n)
            b == Stands(line.v2, n)
            F == ReadersTo(def, n - 1)
            A == {k \in {"v1", "v2"} : Stands(line[k], n) = def}
            x1 == <<n, "v1">>
            x2 == <<n, "v2">>
<1>1. DOMAIN file.body = 1 .. Len(file.body) /\ Len(file.body) \in Nat /\ line \in LineSet
  BY HeaderIs
<1>2. line["v1"] = line.v1 /\ line["v2"] = line.v2  BY <1>1 DEF LineSet
<1>3. /\ x1 \in Readers(def) <=> def = a
      /\ x2 \in Readers(def) <=> def = b
  <2>1. x1 \in (DOMAIN file.body) \X {"v1", "v2"} /\ x2 \in (DOMAIN file.body) \X {"v1", "v2"}
    BY <1>1
  <2>2. x1[1] = n /\ x1[2] = "v1" /\ x2[1] = n /\ x2[2] = "v2"  OBVIOUS
  <2>. HIDE DEF x1, x2
  <2>3. x1 \in Readers(def) <=> Stands(file.body[x1[1]][x1[2]], x1[1]) = def  BY <2>1 DEF Readers
  <2>4. x2 \in Readers(def) <=> Stands(file.body[x2[1]][x2[2]], x2[1]) = def  BY <2>1 DEF Readers
  <2>. QED  BY <1>2, <2>2, <2>3, <2>4
<1>4. \A read \in Readers(def) : read[1] \in Int /\ (read[1] = n => read = x1 \/ read = x2)
  BY <1>1 DEF Readers
<1>5. \A read \in Readers(def) : read[1] <= n <=> read[1] <= n - 1 \/ read = x1 \/ read = x2
  <2>1. x1[1] = n /\ x2[1] = n  OBVIOUS
  <2>2. \A read \in Readers(def) : read[1] <= n <=> read[1] <= n - 1 \/ read[1] = n  BY <1>4
  <2>. QED  BY <1>4, <2>1, <2>2
<1>6. x1 \notin F /\ x2 \notin F /\ x1 # x2
  <2>1. x1[1] = n /\ x2[1] = n  OBVIOUS
  <2>2. ~ (n <= n - 1)  OBVIOUS
  <2>. QED  BY <2>1, <2>2 DEF ReadersTo
<1>7. IsFiniteSet(F) /\ Cardinality(F) \in Nat
  <2>1. n - 1 \in Nat  OBVIOUS
  <2>. QED  BY <2>1, ReadersFinite
<1>8. ReadersTo(def, n) = (F \cup (IF def = a THEN {x1} ELSE {})) \cup (IF def = b THEN {x2} ELSE {})
  <2>. HIDE DEF x1, x2, a, b
  <2>1. \A read : read \in ReadersTo(def, n) <=>
          read \in F \/ (def = a /\ read = x1) \/ (def = b /\ read = x2)
    BY <1>3, <1>5 DEF ReadersTo
  <2>. QED  BY <2>1
<1>. HIDE DEF x1, x2, a, b, F
<1>. DEFINE G1 == F \cup (IF def = a THEN {x1} ELSE {})
<1>9. IsFiniteSet(G1) /\ Cardinality(G1) = Cardinality(F) + (IF def = a THEN 1 ELSE 0) /\ x2 \notin G1
  <2>1. CASE def = a
    <3>1. G1 = F \cup {x1}  BY <2>1
    <3>. QED  BY <1>6, <1>7, <2>1, <3>1, FS_AddElement
  <2>2. CASE def # a
    <3>1. G1 = F  BY <2>2
    <3>. QED  BY <1>6, <1>7, <2>2, <3>1
  <2>. QED  BY <2>1, <2>2
<1>10. ReadersTo(def, n) = G1 \cup (IF def = b THEN {x2} ELSE {})  BY <1>8
<1>. HIDE DEF G1
<1>11. Cardinality(ReadersTo(def, n)) = Cardinality(G1) + (IF def = b THEN 1 ELSE 0)
  <2>1. Cardinality(G1) \in Nat  BY <1>9, FS_CardinalityType
  <2>2. CASE def = b
    <3>1. ReadersTo(def, n) = G1 \cup {x2}  BY <1>10, <2>2
    <3>. QED  BY <1>9, <2>2, <3>1, FS_AddElement
  <2>3. CASE def # b
    <3>1. ReadersTo(def, n) = G1  BY <1>10, <2>3
    <3>. QED  BY <2>1, <2>3, <3>1
  <2>. QED  BY <2>2, <2>3
<1>12. Cardinality(ReadersTo(def, n)) =
         Cardinality(F) + ((IF def = a THEN 1 ELSE 0) + (IF def = b THEN 1 ELSE 0))
  BY <1>7, <1>9, <1>11
<1>. QED  BY <1>12 DEF F, a, b

(* An assignment of the second pass keeps the invariant: it finds its    *)
(* names, and the operation gets the line's number after the inputs.     *)
LEMMA AssignSecond ==
  ASSUME IInv, Assign, pass = 2
  PROVE  IInv'
<1>1. FileRight /\ Reading /\ pc = "body"  BY DEF IInv, Assign
<1>. DEFINE n == pos + 1
            line == file.body[n]
            L == Len(file.body)
<1>2. L \in Nat /\ pos \in Nat /\ pos <= L /\ header.complete /\ NI \in Nat
      /\ DOMAIN file.body = 1 .. L /\ file.body \in Seq(LineSet)
  BY <1>1, HeaderIs DEF Reading, PlaceRight
<1>. DEFINE ret == findWire(line.ret)
            v1 == findWire(line.v1)
            v2 == findWire(line.v2)
            a == wires[v1].v
            b == wires[v2].v
            second == gen_binary(gen, line.operation, a, b)
<1>3. /\ n \in 1 .. L
      /\ IF v1 = NotFound \/ v2 = NotFound
         THEN Fail
         ELSE /\ gen' = second.gen /\ UNCHANGED info
              /\ IF ret = NotFound
                 THEN wires' = Append(wires, [name |-> line.ret, v |-> second.ret])
                 ELSE wires' = [wires EXCEPT ![ret].v = second.ret]
              /\ file' = [file EXCEPT !.body = @]
              /\ pos' = pos + 1
              /\ UNCHANGED <<pc, pass, g>>
  <2>1. Lines = {file.body[m] : m \in {pos + 1} \cap DOMAIN file.body}  BY DEF Lines
  <2>2. n \in 1 .. L
    <3>1. Lines # {}  BY DEF Assign
    <3>. QED  BY <1>2, <2>1, <3>1
  <2>3. Lines = {line}  BY <1>2, <2>1, <2>2
  <2>. QED  BY <2>2, <2>3 DEF Assign, Call, NewWire, Returned
<1>4. n \in Nat /\ n - 1 = pos /\ n \in 1 .. L + 1 /\ line \in LineSet
  BY <1>2, <1>3
<1>5. NumLines = pos  BY <1>1 DEF NumLines
<1>6. line.v1 \in Known(n) /\ line.v2 \in Known(n)
  BY <1>1, <1>3 DEF Reading, LinesRight
<1>7. /\ v1 \in 1 .. Len(wires) /\ wires[v1].name = line.v1 /\ v1 # NotFound
      /\ v2 \in 1 .. Len(wires) /\ wires[v2].name = line.v2 /\ v2 # NotFound
  <2>1. WiresRight  BY <1>1 DEF Reading
  <2>2. Known(NumLines + 1) = Known(n)  BY <1>5
  <2>. HIDE DEF n, line
  <2>. QED  BY <1>1, <1>6, <2>1, <2>2, FindsKnown
<1>8. /\ gen' = second.gen /\ UNCHANGED info
      /\ IF ret = NotFound
         THEN wires' = Append(wires, [name |-> line.ret, v |-> second.ret])
         ELSE wires' = [wires EXCEPT ![ret].v = second.ret]
      /\ file' = file /\ pos' = pos + 1
      /\ UNCHANGED <<pc, pass, g>>
  <2>1. [file EXCEPT !.body = @] = file  BY <1>1 DEF FileRight
  <2>. HIDE DEF n, line, ret, v1, v2, second
  <2>. QED  BY <1>3, <1>7, <2>1
<1>9. /\ numMaskedIns' = numMaskedIns /\ numMaskedOuts' = numMaskedOuts /\ header' = header /\ NI' = NI
      /\ WireSet' = WireSet /\ (\A m : Known(m)' = Known(m))
      /\ \A word, m : Stands(word, m)' = Stands(word, m)
  BY <1>1, <1>8, FileSame
<1>10. a = Stands(line.v1, n) - 1 /\ b = Stands(line.v2, n) - 1
  <2>. HIDE DEF v1, v2, line
  <2>. QED  BY <1>1, <1>5, <1>7 DEF Reading, ValuesRight
<1>11. Stands(line.v1, n) \in 1 .. NI + pos /\ Stands(line.v2, n) \in 1 .. NI + pos
  <2>1. \A m \in 1 .. L + 1 : \A name \in Known(m) : Stands(name, m) \in 1 .. NI + m - 1
    BY <1>1, StandsKnown
  <2>2. NI + n - 1 = NI + pos  BY <1>2
  <2>3. Stands(line.v1, n) \in 1 .. NI + n - 1 /\ Stands(line.v2, n) \in 1 .. NI + n - 1
    BY <1>4, <1>6, <2>1
  <2>. QED  BY <2>2, <2>3
<1>. DEFINE S == [0 .. numMaskedOuts - 1 -> Nat]
<1>12. gen \in GenSet(S) /\ Len(gen.op) = NI + pos
  BY <1>1, <1>5 DEF Reading, GenRight, GenSet
<1>13. a \in 0 .. Len(gen.op) - 1 /\ b \in 0 .. Len(gen.op) - 1 /\ line.operation \in {"XOR", "AND"}
       /\ a + 1 = Stands(line.v1, n) /\ b + 1 = Stands(line.v2, n)
  <2>1. line.operation \in {"XOR", "AND"}  BY <1>4 DEF LineSet
  <2>. HIDE DEF a, b, line, n
  <2>. QED  BY <1>2, <1>10, <1>11, <1>12, <2>1
<1>14. second.ret = NI + pos  BY <1>12 DEF gen_binary
<1>15. /\ gen' \in GenSet(S)
       /\ gen'.d = gen.d /\ gen'.numIns = gen.numIns /\ gen'.numOuts = gen.numOuts
       /\ gen'.numAllocRnds = gen.numAllocRnds /\ gen'.out2op = gen.out2op
       /\ Len(gen'.op) = Len(gen.op) + 1
       /\ \A def \in 1 .. Len(gen.op) :
            /\ gen'.op[def].operation = gen.op[def].operation
            /\ gen'.op[def].inWire = gen.op[def].inWire
            /\ gen'.op[def].mult = gen.op[def].mult + 2 * Times(def, a, b)
       /\ gen'.op[Len(gen.op) + 1].operation = line.operation
       /\ gen'.op[Len(gen.op) + 1].inWire = <<a, b>>
       /\ gen'.op[Len(gen.op) + 1].mult = -1
  <2>. DEFINE u == gen_binary(gen, line.operation, a, b).gen
              o == line.operation
  <2>1. gen' = u  BY <1>8
  <2>2. gen \in GenSet(S) /\ a \in 0 .. Len(gen.op) - 1 /\ b \in 0 .. Len(gen.op) - 1
        /\ o \in {"XOR", "AND"} /\ u = gen_binary(gen, o, a, b).gen
    BY <1>12, <1>13
  <2>. HIDE DEF a, b, o, S, u
  <2>3. u \in GenSet(S) /\ Extended(gen, u, o, a, b)  BY <2>2, BinaryIs
  <2>. QED  BY <2>1, <2>3 DEF o, Extended
<1>16. /\ NumLines' = n /\ OutsRead(2) = 0 /\ OutsRead(2)' = 0
       /\ \A p : OutsRead(p)' = OutsRead(p) /\ InsRead(p)' = InsRead(p) /\ RndsRead(p)' = RndsRead(p)
  BY <1>1, <1>2, <1>8, <1>9 DEF NumLines, OutsRead, InsRead, RndsRead
<1>17. PlaceRight'
  BY <1>1, <1>2, <1>3, <1>8, <1>9 DEF PlaceRight
<1>18. LinesRight' /\ InfoRight'
  <2>. HIDE DEF n, ret, second, a, b, v1, v2, line
  <2>. QED  BY <1>1, <1>8, <1>16, LinesFrame, InfoFrame DEF Reading
<1>19. /\ wires' \in Seq(WireSet)
       /\ \A j, k \in 1 .. Len(wires') : wires'[j].name = wires'[k].name => j = k
       /\ {wires'[j].name : j \in 1 .. Len(wires')} = Known(NumLines + 1) \cup {line.ret}
       /\ \A j \in 1 .. Len(wires') :
            \/ wires'[j].name = line.ret /\ wires'[j].v = NI + pos
            \/ wires'[j].name # line.ret /\ j \in 1 .. Len(wires) /\ wires'[j] = wires[j]
  <2>1. line.ret \in Names(header)  BY <1>1, <1>4, HeaderIs DEF LineSet
  <2>2. WiresRight /\ NI + pos \in Nat  BY <1>1, <1>2 DEF Reading
  <2>3. IF ret = NotFound
        THEN wires' = Append(wires, [name |-> line.ret, v |-> NI + pos])
        ELSE wires' = [wires EXCEPT ![ret].v = NI + pos]
    <3>. HIDE DEF second
    <3>. QED  BY <1>8, <1>14
  <2>. HIDE DEF line
  <2>. QED  BY <1>1, <2>1, <2>2, <2>3, NewName
<1>20. WiresRight'
  <2>1. NumLines' + 1 = n + 1 /\ NumLines + 1 = n  BY <1>5, <1>16
  <2>2. Known(n) \cup {line.ret} = Known(n + 1)
    <3>1. Known(n + 1) = ToSet(InputNames) \cup {file.body[m].ret : m \in 1 .. n}
      <4>1. (n + 1) - 1 = n  BY <1>4
      <4>. HIDE DEF n
      <4>2. \A m : Known(m) = ToSet(InputNames) \cup {file.body[l].ret : l \in 1 .. m - 1}
        BY DEF Known
      <4>. QED  BY <4>1, <4>2
    <3>2. \A m \in 1 .. n : m \in 1 .. n - 1 \/ m = n  BY <1>4
    <3>3. n \in 1 .. n /\ \A m \in 1 .. n - 1 : m \in 1 .. n  BY <1>4
    <3>4. {file.body[m].ret : m \in 1 .. n} = {file.body[m].ret : m \in 1 .. n - 1} \cup {line.ret}
      <4>. DEFINE R == [m \in 1 .. n |-> file.body[m].ret]
      <4>. HIDE DEF n
      <4>. QED  BY <3>2, <3>3
    <3>. QED  BY <3>1, <3>4 DEF Known
  <2>3. \A m : m = n + 1 => Known(m)' = Known(n + 1)  BY <1>9
  <2>4. Known(NumLines + 1)' = Known(NumLines + 1) \cup {line.ret}
    <3>. HIDE DEF n, line
    <3>. QED  BY <2>1, <2>2, <2>3
  <2>. QED  BY <1>1, <1>8, <1>9, <1>19, <2>4 DEF WiresRight
<1>21. ValuesRight'
  <2>1. \A name : Stands(name, n + 1) = IF line.ret = name THEN NI + n ELSE Stands(name, n)
    BY <1>1, <1>3, StandsNext
  <2>2. \A j \in 1 .. Len(wires) : wires[j].v = Stands(wires[j].name, n) - 1
    BY <1>1, <1>5 DEF Reading, ValuesRight
  <2>3. NI + pos = NI + n - 1  BY <1>2
  <2>. HIDE DEF n, line
  <2>4. \A j \in 1 .. Len(wires') : wires'[j].v = Stands(wires'[j].name, n + 1) - 1
    <3>1. (NI + n) - 1 = NI + pos  BY <1>2, <1>4, <2>3
    <3>. SUFFICES ASSUME NEW j \in 1 .. Len(wires')
                  PROVE  wires'[j].v = Stands(wires'[j].name, n + 1) - 1
      OBVIOUS
    <3>2. CASE wires'[j].name = line.ret
      <4>1. Stands(wires'[j].name, n + 1) = NI + n  BY <2>1, <3>2
      <4>2. wires'[j].v = NI + pos  BY <1>19, <3>2
      <4>. QED  BY <3>1, <4>1, <4>2
    <3>3. CASE wires'[j].name # line.ret
      <4>1. Stands(wires'[j].name, n + 1) = Stands(wires'[j].name, n)  BY <2>1, <3>3
      <4>2. j \in 1 .. Len(wires) /\ wires'[j] = wires[j]  BY <1>19, <3>3
      <4>. QED  BY <2>2, <4>1, <4>2
    <3>. QED  BY <3>2, <3>3
  <2>. QED  BY <1>9, <1>16, <2>4 DEF ValuesRight
<1>22. GenRight'
  <2>1. Len(gen'.op) = NI + n  BY <1>2, <1>12, <1>15
  <2>2. /\ gen.d = info.d /\ gen.numIns = info.numIns /\ gen.numOuts = info.numOuts
        /\ gen.numAllocRnds = RndsRead(2)
    BY <1>1 DEF Reading, GenRight
  <2>. HIDE DEF n, line, a, b
  <2>. QED  BY <1>8, <1>9, <1>15, <1>16, <2>1, <2>2 DEF GenRight, GenSet
<1>23. OperationsRight'
  <2>1. /\ \A def \in 1 .. NI : gen.op[def].operation = "IN" /\ gen.op[def].inWire = <<def - 1, 0>>
        /\ \A m \in 1 .. pos :
             /\ gen.op[NI + m].operation = file.body[m].operation
             /\ gen.op[NI + m].inWire
                  = <<Stands(file.body[m].v1, m) - 1, Stands(file.body[m].v2, m) - 1>>
    BY <1>1, <1>5 DEF Reading, OperationsRight
  <2>2. \A def \in 1 .. NI : def \in 1 .. Len(gen.op)  BY <1>2, <1>12
  <2>3. \A m \in 1 .. pos : NI + m \in 1 .. Len(gen.op)  BY <1>2, <1>12
  <2>4. \A m \in 1 .. n : m \in 1 .. pos \/ m = n  BY <1>2
  <2>5. Len(gen.op) + 1 = NI + n  BY <1>2, <1>12
  <2>6. \A m \in 1 .. n :
          /\ gen'.op[NI + m].operation = file.body[m].operation
          /\ gen'.op[NI + m].inWire
               = <<Stands(file.body[m].v1, m) - 1, Stands(file.body[m].v2, m) - 1>>
    <3>. SUFFICES ASSUME NEW m \in 1 .. n
                  PROVE  /\ gen'.op[NI + m].operation = file.body[m].operation
                         /\ gen'.op[NI + m].inWire
                              = <<Stands(file.body[m].v1, m) - 1, Stands(file.body[m].v2, m) - 1>>
      OBVIOUS
    <3>1. CASE m \in 1 .. pos
      <4>. HIDE DEF n, a, b, line
      <4>. QED  BY <1>15, <2>1, <2>3, <3>1
    <3>2. CASE m = n
      <4>1. gen'.op[NI + n].operation = line.operation /\ gen'.op[NI + n].inWire = <<a, b>>
        <5>. HIDE DEF n, a, b, line
        <5>. QED  BY <1>15, <2>5
      <4>. HIDE DEF a, b
      <4>. QED  BY <1>10, <3>2, <4>1
    <3>. QED  BY <2>4, <3>1, <3>2
  <2>7. \A def \in 1 .. NI : gen'.op[def].operation = "IN" /\ gen'.op[def].inWire = <<def - 1, 0>>
    BY <1>15, <2>1, <2>2
  <2>. HIDE DEF n, line, a, b
  <2>. QED  BY <1>8, <1>9, <1>16, <2>6, <2>7 DEF OperationsRight
<1>24. CountsRight'
  <2>1. \A def : ReadersTo(def, NumLines)' = ReadersTo(def, n)
    BY <1>1, <1>8, <1>16, FileSame DEF ReadersTo
  <2>2. \A def : OutReadersTo(def, OutsRead(2))' = OutReadersTo(def, 0)
    BY <1>1, <1>8, <1>16, FileSame DEF OutReadersTo
  <2>3. ASSUME NEW def
        PROVE  /\ Cardinality(ReadersTo(def, n)) =
                    Cardinality(ReadersTo(def, pos)) + Times(def, a, b)
               /\ Cardinality(ReadersTo(def, pos)) \in Nat
               /\ Cardinality(OutReadersTo(def, 0)) = 0
    <3>1. Cardinality(ReadersTo(def, n)) =
            Cardinality(ReadersTo(def, n - 1)) + ((IF def = Stands(line.v1, n) THEN 1 ELSE 0)
                                                  + (IF def = Stands(line.v2, n) THEN 1 ELSE 0))
      BY <1>1, <1>3, LineReads
    <3>2. Cardinality(ReadersTo(def, pos)) \in Nat  BY <1>1, <1>2, ReadersFinite
    <3>3. OutReadersTo(def, 0) = {}
      <4>1. numMaskedOuts \in Nat  BY <1>1, HeaderIs
      <4>. QED  BY <4>1 DEF OutReadersTo, OutReaders
    <3>4. Cardinality(OutReadersTo(def, 0)) = 0  BY <3>3, FS_EmptySet
    <3>. HIDE DEF n, a, b, line
    <3>. QED  BY <1>4, <1>13, <3>1, <3>2, <3>4 DEF Times
  <2>4. Len(gen'.op) = Len(gen.op) + 1 /\ Len(gen.op) = NI + pos /\ Len(gen.op) \in Nat
    BY <1>2, <1>12, <1>15
  <2>5. ASSUME NEW def \in 1 .. Len(gen.op)
        PROVE  gen'.op[def].mult =
                 2 * Cardinality(ReadersTo(def, n)) + Cardinality(OutReadersTo(def, 0)) - 1
    <3>1. gen.op[def].mult =
            2 * Cardinality(ReadersTo(def, pos)) + Cardinality(OutReadersTo(def, 0)) - 1
      BY <1>1, <1>5, <1>16 DEF Reading, CountsRight
    <3>2. gen'.op[def].mult = gen.op[def].mult + 2 * Times(def, a, b)
      BY <1>15
    <3>. HIDE DEF n, a, b, line
    <3>3. Times(def, a, b) \in Int  BY DEF Times
    <3>. QED  BY <2>3, <3>1, <3>2, <3>3
  <2>6. ASSUME NEW def, def = Len(gen.op) + 1
        PROVE  gen'.op[def].mult =
                 2 * Cardinality(ReadersTo(def, n)) + Cardinality(OutReadersTo(def, 0)) - 1
    <3>1. gen'.op[def].mult = -1  BY <1>15, <2>6
    <3>2. Cardinality(ReadersTo(def, n)) = 0
      <4>1. \A m \in 1 .. n : \A k \in {"v1", "v2"} : Stands(file.body[m][k], m) < def
        <5>. SUFFICES ASSUME NEW m \in 1 .. n, NEW k \in {"v1", "v2"}
                      PROVE  Stands(file.body[m][k], m) < def
          OBVIOUS
        <5>1. m \in 1 .. L /\ m \in 1 .. L + 1  BY <1>2, <1>3
        <5>2. file.body[m] \in LineSet  BY <1>2, <5>1
        <5>3. file.body[m][k] \in Known(m)
          <6>1. file.body[m].v1 \in Known(m) /\ file.body[m].v2 \in Known(m)
            BY <1>1, <5>1 DEF Reading, LinesRight
          <6>2. file.body[m]["v1"] = file.body[m].v1 /\ file.body[m]["v2"] = file.body[m].v2
            BY <5>2 DEF LineSet
          <6>. QED  BY <6>1, <6>2
        <5>4. Stands(file.body[m][k], m) \in 1 .. NI + m - 1  BY <1>1, <5>1, <5>3, StandsKnown
        <5>. QED  BY <1>2, <2>4, <2>6, <5>4
      <4>2. \A read \in Readers(def) : ~ (read[1] <= n)
        <5>. SUFFICES ASSUME NEW read \in Readers(def), read[1] <= n PROVE FALSE  OBVIOUS
        <5>1. /\ read[1] \in 1 .. L /\ read[2] \in {"v1", "v2"}
              /\ Stands(file.body[read[1]][read[2]], read[1]) = def
          BY <1>2 DEF Readers
        <5>2. read[1] \in 1 .. n  BY <1>4, <5>1
        <5>3. def \in Int  BY <2>4, <2>6
        <5>. QED  BY <4>1, <5>1, <5>2, <5>3
      <4>3. ReadersTo(def, n) = {}  BY <4>2 DEF ReadersTo
      <4>. QED  BY <4>3, FS_EmptySet
    <3>. QED  BY <2>3, <3>1, <3>2
  <2>7. \A def \in 1 .. Len(gen'.op) :
          gen'.op[def].mult =
            2 * Cardinality(ReadersTo(def, n)) + Cardinality(OutReadersTo(def, 0)) - 1
    <3>1. \A def \in 1 .. Len(gen.op) + 1 : def \in 1 .. Len(gen.op) \/ def = Len(gen.op) + 1
      BY <2>4
    <3>. HIDE DEF n
    <3>. QED  BY <2>4, <2>5, <2>6, <3>1
  <2>. HIDE DEF n
  <2>. QED  BY <2>1, <2>2, <2>7 DEF CountsRight
<1>25. OutsRight'
  <2>1. 0 .. 0 - 1 = {}  OBVIOUS
  <2>. QED  BY <1>16, <2>1 DEF OutsRight
<1>26. GadgetRight' /\ FileRight' /\ pc' # "failed"  BY <1>1, <1>8, FileSame DEF GadgetRight
<1>. QED  BY <1>17, <1>18, <1>20, <1>21, <1>22, <1>23, <1>24, <1>25, <1>26 DEF IInv, Reading

(* The invariant holds before anything is read,                          *)
LEMMA InitInv ==
  ASSUME Init
  PROVE  IInv
<1>1. pc = "header" /\ pass = 1 /\ pos = 0 /\ wires = <<>> /\ file \in [header : Headers, body : {<<>>}]
      /\ info = [d |-> 0, numIns |-> 0, numRnds |-> 0, numOuts |-> 0, numOperations |-> 0]
  BY DEF Init, basicGadgetInfo_init
<1>2. header \in Headers /\ file.body = <<>> /\ file = [header |-> header, body |-> file.body]
  BY <1>1 DEF header
<1>3. FileRight
  <2>1. file.body \in Seq(LineSet)  BY <1>2
  <2>. QED  BY <1>1, <1>2, <2>1 DEF FileRight
<1>4. header.d \in Nat \ {0} /\ numMaskedIns \in Nat  BY <1>3, HeaderIs
<1>5. InsRead(1) = 0 /\ RndsRead(1) = 0 /\ OutsRead(1) = 0
  BY <1>1 DEF InsRead, RndsRead, OutsRead
<1>6. PlaceRight  BY <1>1, <1>2 DEF PlaceRight
<1>7. LinesRight
  <2>1. Len(file.body) = 0 /\ 1 .. 0 = {} /\ 0 .. 0 - 1 = {}  BY <1>2
  <2>. QED  BY <1>5, <2>1 DEF LinesRight
<1>8. WiresRight
  <2>1. wires \in Seq(WireSet)  BY <1>1
  <2>. QED  BY <1>1, <2>1 DEF WiresRight
<1>9. InfoRight
  <2>1. Counted(0) = 0 /\ Widest(0) = 0  BY <1>4 DEF Counted, Widest
  <2>2. AtLeast(0, 0) = 0 /\ Len(file.body) = 0  BY <1>2 DEF AtLeast
  <2>. QED  BY <1>1, <1>5, <2>1, <2>2 DEF InfoRight
<1>10. ValuesRight /\ GenRight /\ OperationsRight /\ CountsRight /\ OutsRight /\ GadgetRight
  BY <1>1 DEF ValuesRight, GenRight, OperationsRight, CountsRight, OutsRight, GadgetRight
<1>. QED  BY <1>1, <1>3, <1>6, <1>7, <1>8, <1>9, <1>10 DEF IInv, Reading

(* and every step of the parser keeps it.                                *)
LEMMA NextInv ==
  ASSUME IInv, [Next]_vars
  PROVE  IInv'
<1>1. CASE ReadHeader  BY <1>1, ReadHeaderInv
<1>2. CASE In  BY <1>2, InInv
<1>3. CASE Rnd  BY <1>3, RndInv
<1>4. CASE EndOfHeader  BY <1>4, EndOfHeaderInv
<1>5. CASE Assign
  <2>1. CASE pass = 1  BY <1>5, <2>1, AssignFirst
  <2>2. CASE pass = 2  BY <1>5, <2>2, AssignSecond
  <2>3. pass \in {1, 2}  BY <1>5 DEF Assign, IInv, Reading, PlaceRight
  <2>. QED  BY <2>1, <2>2, <2>3
<1>6. CASE EndOfBody  BY <1>6, EndOfBodyInv
<1>7. CASE Out  BY <1>7, OutInv
<1>8. CASE EndOfFirst  BY <1>8, EndOfFirstInv
<1>9. CASE EndOfSecond  BY <1>9, EndOfSecondInv
<1>10. CASE UNCHANGED vars
  <2>1. UNCHANGED <<pc, pass, file, pos, wires, info, gen, g>>  BY <1>10 DEF vars
  <2>2. FileRight  BY DEF IInv
  <2>3. FileRight' /\ header' = header /\ WireSet' = WireSet /\ NI' = NI
        /\ numMaskedIns' = numMaskedIns /\ numMaskedOuts' = numMaskedOuts
        /\ InputNames' = InputNames
        /\ (\A n : Known(n)' = Known(n))
        /\ \A word, m : Stands(word, m)' = Stands(word, m)
    BY <2>1, <2>2, FileSame
  <2>4. CASE pc = "failed"  BY <2>1, <2>3, <2>4 DEF IInv
  <2>5. CASE pc # "failed"
    <3>1. Reading  BY <2>5 DEF IInv
    <3>2. /\ NumLines' = NumLines
          /\ \A p : OutsRead(p)' = OutsRead(p) /\ InsRead(p)' = InsRead(p) /\ RndsRead(p)' = RndsRead(p)
      BY <2>1, <2>3 DEF NumLines, OutsRead, InsRead, RndsRead
    <3>3. PlaceRight'  BY <2>1, <2>3, <3>1 DEF Reading, PlaceRight
    <3>4. LinesRight' /\ InfoRight'
      BY <2>1, <2>2, <3>1, <3>2, LinesFrame, InfoFrame DEF Reading
    <3>5. GenRight' /\ OperationsRight' /\ CountsRight' /\ OutsRight'
      <4>1. GenRight /\ OperationsRight /\ CountsRight /\ OutsRight  BY <3>1 DEF Reading
      <4>. QED  BY <2>1, <2>2, <3>2, <4>1, GenFrame
    <3>6. WiresRight'  BY <2>1, <2>3, <3>1, <3>2 DEF Reading, WiresRight
    <3>7. ValuesRight'  BY <2>1, <2>3, <3>1, <3>2 DEF Reading, ValuesRight
    <3>8. GadgetRight'  BY <2>1, <3>1 DEF Reading, GadgetRight
    <3>. QED  BY <2>1, <2>3, <2>5, <3>3, <3>4, <3>5, <3>6, <3>7, <3>8 DEF IInv, Reading
  <2>. QED  BY <2>4, <2>5
<1>. QED  BY <1>1, <1>2, <1>3, <1>4, <1>5, <1>6, <1>7, <1>8, <1>9, <1>10 DEF Next

(* In every file and at every step of both passes: the second pass       *)
(* mirrors the first, its wires are what the names stand for, and mult   *)
(* counts readers.                                                       *)
THEOREM Inductive == Spec => []IInv
<1>1. Init => IInv  BY InitInv
<1>2. IInv /\ [Next]_vars => IInv'  BY NextInv
<1>. QED  BY <1>1, <1>2, PTL DEF Spec

(* A wire stands for a definition that there is.                         *)
LEMMA ValuesExist ==
  ASSUME FileRight, Reading, pass = 2, NEW j \in 1 .. Len(wires)
  PROVE  wires[j].v < Len(gen.op)
<1>1. /\ wires[j].v = Stands(wires[j].name, NumLines + 1) - 1 /\ Len(gen.op) = NI + NumLines
  BY DEF Reading, ValuesRight, GenRight
<1>2. NI \in Nat /\ Len(file.body) \in Nat /\ numMaskedOuts \in Nat  BY HeaderIs
<1>3. NumLines \in 0 .. Len(file.body)  BY <1>2 DEF NumLines, Reading, PlaceRight
<1>4. CASE pc = "header"
  <2>1. Len(wires) = 0  BY <1>4 DEF Reading, WiresRight
  <2>. QED  BY <2>1
<1>5. CASE pc = "ins"
  <2>1. NumLines = 0  BY <1>5 DEF NumLines
  <2>2. j \in 1 .. pos /\ pos \in Nat /\ pos <= NI /\ wires[j].name = InputNames[j]
    BY <1>5 DEF Reading, WiresRight, PlaceRight
  <2>3. j \in 1 .. NI  BY <1>2, <2>2
  <2>4. Stands(wires[j].name, 1) = j  BY <2>2, <2>3, StandsInput
  <2>. QED  BY <1>1, <1>2, <2>1, <2>3, <2>4
<1>6. CASE pc \in {"body", "outs", "done"}
  <2>1. wires[j].name \in Known(NumLines + 1)
    <3>1. {wires[k].name : k \in 1 .. Len(wires)} = Known(NumLines + 1)
      BY <1>6 DEF Reading, WiresRight
    <3>. QED  BY <3>1
  <2>2. NumLines + 1 \in 1 .. Len(file.body) + 1  BY <1>2, <1>3
  <2>3. Stands(wires[j].name, NumLines + 1) \in 1 .. NI + (NumLines + 1) - 1
    BY <2>1, <2>2, StandsKnown
  <2>. QED  BY <1>1, <1>2, <1>3, <2>3
<1>. QED  BY <1>4, <1>5, <1>6 DEF Reading, PlaceRight

(* The invariant implies SecondPassFits.                                 *)
LEMMA InvFits == IInv => SecondPassFits
<1>. SUFFICES ASSUME IInv, pass = 2 PROVE SecondPassFits  BY DEF SecondPassFits
<1>1. FileRight /\ Reading /\ pc # "failed"  BY DEF IInv
<1>2. InfoRight /\ GenRight /\ WiresRight  BY <1>1 DEF Reading
<1>3. InsRead(1) = numMaskedIns /\ OutsRead(1) = numMaskedOuts /\ RndsRead(1) = Len(header.rnds)
  BY DEF InsRead, OutsRead, RndsRead
<1>4. /\ numTotIns(info) = NI /\ info.numRnds = Len(header.rnds) /\ info.numOperations = Len(file.body)
      /\ header.ins # <<>> => info.d = header.d
      /\ header.outs # <<>> => info.d = header.d
  BY <1>1, <1>2, <1>3, InfoAll DEF InfoRight
<1>5. /\ NI \in Nat /\ Len(header.rnds) \in Nat /\ numMaskedIns \in Nat /\ Len(file.body) \in Nat
      /\ NI = numMaskedIns + Len(header.rnds)
  BY <1>1, HeaderIs DEF NI
<1>6. /\ gen.numAllocRnds = RndsRead(2) /\ Len(gen.op) = NI + NumLines
      /\ gen.out2op \in [0 .. numMaskedOuts - 1 -> Nat]
  BY <1>2 DEF GenRight
<1>7. RndsRead(2) <= Len(header.rnds) /\ (pc = "done" => RndsRead(2) = Len(header.rnds))
  BY <1>1, <1>5 DEF RndsRead, Reading, PlaceRight
<1>8. NumLines <= Len(file.body) /\ NumLines \in Nat /\ (pc = "done" => NumLines = Len(file.body))
  BY <1>1, <1>5 DEF NumLines, Reading, PlaceRight
<1>9. \A w \in Range(wires) : w.v < Len(gen.op)
  <2>1. wires \in Seq(WireSet)  BY <1>2 DEF WiresRight
  <2>2. \A w \in Range(wires) : \E j \in 1 .. Len(wires) : w = wires[j]
    BY <2>1 DEF Range
  <2>. QED  BY <1>1, <2>2, ValuesExist
<1>10. DOMAIN gen.out2op = 0 .. numMaskedOuts - 1  BY <1>6
<1>11. Len(gen.op) <= numTotIns(info) + info.numOperations
       /\ (pc = "done" => Len(gen.op) = numTotIns(info) + info.numOperations)
  <2>1. numTotIns(info) + info.numOperations = NI + Len(file.body)  BY <1>4
  <2>2. \A a, b, c \in Nat : b <= c => a + b <= a + c  OBVIOUS
  <2>3. NI + NumLines <= NI + Len(file.body)  BY <1>5, <1>8, <2>2
  <2>. QED  BY <1>6, <1>8, <2>1, <2>3
<1>. QED  BY <1>1, <1>4, <1>6, <1>7, <1>9, <1>10, <1>11 DEF SecondPassFits

(* What the second pass uses lies within what fnGenerator_alloc was      *)
(* given by the first: as many random inputs and operations, every       *)
(* output and every wire inside the arrays; and no name is missing then. *)
THEOREM PassesFit == Spec => []SecondPassFits
BY Inductive, InvFits, PTL

(* The values of the wires when one operation more is done, and the fold *)
(* of the operations with numbers in a set.                              *)
Done(X, val, op) ==
  [w \in DOMAIN val \cup {op.outWire} |->
     IF w # op.outWire THEN val[w]
     ELSE IF op.operation = "IN" THEN op.inWire[1] \in X
     ELSE Result(op.operation, val[op.inWire[1]], val[op.inWire[2]])]

NoValues == [w \in {} |-> FALSE]

DoneStep(X, ops, s, it) ==
  IF s = {} THEN NoValues ELSE Done(X, it[s \ {Max(s)}], ops[Max(s)])

IsDone(X, ops, n, it) == it = [s \in SUBSET (1 .. n) |-> DoneStep(X, ops, s, it)]

(* The library's fold does the operation with the largest number last.   *)
LEMMA LastIsMax ==
  ASSUME NEW n \in Nat, NEW s \in SUBSET (1 .. n + 1), n + 1 \in s
  PROVE  Max(s) = n + 1 /\ s \ {n + 1} \in SUBSET (1 .. n)
<1>1. \A y \in s : n + 1 >= y /\ y \in Int  OBVIOUS
<1>2. \A x \in s : (\A y \in s : x >= y) => x = n + 1
  <2>. SUFFICES ASSUME NEW x \in s, \A y \in s : x >= y PROVE x = n + 1  OBVIOUS
  <2>1. x >= n + 1 /\ n + 1 >= x /\ x \in Int  BY <1>1
  <2>. QED  BY <2>1
<1>3. Max(s) = n + 1  BY <1>1, <1>2 DEF Max
<1>4. \A y \in 1 .. n + 1 : y # n + 1 => y \in 1 .. n  OBVIOUS
<1>. QED  BY <1>3, <1>4

(* There is a function that does them in their order.                    *)
LEMMA FoldExists ==
  ASSUME NEW X, NEW ops, NEW N \in Nat
  PROVE  \E it : IsDone(X, ops, N, it)
<1>. DEFINE T == {n \in Nat : \E it : IsDone(X, ops, n, it)}
<1>1. 0 \in T
  <2>. DEFINE h == [s \in SUBSET (1 .. 0) |-> NoValues]
  <2>1. \A s \in SUBSET (1 .. 0) : DoneStep(X, ops, s, h) = NoValues
    <3>1. \A s \in SUBSET (1 .. 0) : s = {}  OBVIOUS
    <3>. QED  BY <3>1 DEF DoneStep
  <2>2. h = [s \in SUBSET (1 .. 0) |-> DoneStep(X, ops, s, h)]  BY <2>1
  <2>. HIDE DEF h
  <2>3. IsDone(X, ops, 0, h)  BY <2>2, Zenon DEF IsDone
  <2>. QED  BY <2>3
<1>2. ASSUME NEW n \in T PROVE n + 1 \in T
  <2>1. PICK f : IsDone(X, ops, n, f)  BY <1>2
  <2>. DEFINE h == [s \in SUBSET (1 .. n + 1) |->
                      IF n + 1 \in s THEN Done(X, f[s \ {n + 1}], ops[n + 1]) ELSE f[s]]
  <2>2. \A s \in SUBSET (1 .. n) : s \in SUBSET (1 .. n + 1) /\ n + 1 \notin s  OBVIOUS
  <2>3. \A s \in SUBSET (1 .. n) : h[s] = f[s]  BY <2>2
  <2>4. ASSUME NEW s \in SUBSET (1 .. n + 1) PROVE h[s] = DoneStep(X, ops, s, h)
    <3>1. CASE n + 1 \in s
      <4>1. Max(s) = n + 1 /\ s \ {n + 1} \in SUBSET (1 .. n)  BY <3>1, LastIsMax
      <4>2. h[s \ {n + 1}] = f[s \ {n + 1}]  BY <2>3, <4>1
      <4>3. h[s] = Done(X, f[s \ {n + 1}], ops[n + 1])  BY <3>1
      <4>. HIDE DEF h
      <4>. QED  BY <3>1, <4>1, <4>2, <4>3 DEF DoneStep
    <3>2. CASE n + 1 \notin s
      <4>1. s \in SUBSET (1 .. n) /\ s \ {Max(s)} \in SUBSET (1 .. n)
        <5>1. \A y \in 1 .. n + 1 : y # n + 1 => y \in 1 .. n  OBVIOUS
        <5>. QED  BY <3>2, <5>1
      <4>2. f[s] = DoneStep(X, ops, s, f)  BY <2>1, <4>1 DEF IsDone
      <4>3. h[s] = f[s] /\ h[s \ {Max(s)}] = f[s \ {Max(s)}]  BY <2>3, <4>1
      <4>. HIDE DEF h
      <4>. QED  BY <4>2, <4>3 DEF DoneStep
    <3>. QED  BY <3>1, <3>2
  <2>5. h = [s \in SUBSET (1 .. n + 1) |-> h[s]]  OBVIOUS
  <2>. HIDE DEF h
  <2>6. h = [s \in SUBSET (1 .. n + 1) |-> DoneStep(X, ops, s, h)]  BY <2>4, <2>5
  <2>7. IsDone(X, ops, n + 1, h)  BY <2>6, Zenon DEF IsDone
  <2>. QED  BY <2>7
<1>3. T = Nat
  <2>. HIDE DEF T
  <2>1. T \in SUBSET Nat  BY DEF T
  <2>. QED  BY <1>1, <1>2, <2>1, AllNaturals
<1>. QED  BY <1>3

(* The values after each operation of a sequence, and in the end.        *)
After(X, ops, n, val) ==
  /\ val[0] = NoValues
  /\ \A m \in 0 .. n - 1 : val[m + 1] = Done(X, val[m], ops[m + 1])

(* Computed folds the gadget's operations in their order.                *)
LEMMA ComputedSteps ==
  ASSUME NEW X, NEW N \in Nat, DOMAIN g.op = 1 .. N
  PROVE  \E val : After(X, g.op, N, val) /\ Computed(X) = val[N]
<1>. DEFINE it == CHOOSE h : IsDone(X, g.op, N, h)
            val == [n \in 0 .. N |-> it[1 .. n]]
<1>1. Computed(X) = it[1 .. N]
  BY DEF Computed, FoldLeft, MapThenFoldSet, IsDone, DoneStep, Done, NoValues
<1>2. IsDone(X, g.op, N, it)  BY FoldExists
<1>. HIDE DEF it
<1>3. \A s \in SUBSET (1 .. N) : it[s] = DoneStep(X, g.op, s, it)
  <2>1. it = [s \in SUBSET (1 .. N) |-> DoneStep(X, g.op, s, it)]  BY <1>2, Zenon DEF IsDone
  <2>. QED  BY <2>1
<1>4. val[0] = NoValues
  <2>1. val[0] = it[{}] /\ {} \in SUBSET (1 .. N)
    <3>1. 1 .. 0 = {} /\ 0 \in 0 .. N  OBVIOUS
    <3>. QED  BY <3>1
  <2>. QED  BY <1>3, <2>1 DEF DoneStep
<1>5. ASSUME NEW m \in 0 .. N - 1 PROVE val[m + 1] = Done(X, val[m], g.op[m + 1])
  <2>1. /\ m \in Nat /\ m \in 0 .. N /\ m + 1 \in 0 .. N
        /\ 1 .. m + 1 \in SUBSET (1 .. m + 1) /\ m + 1 \in 1 .. m + 1
        /\ 1 .. m + 1 \in SUBSET (1 .. N) /\ (1 .. m + 1) \ {m + 1} = 1 .. m
    OBVIOUS
  <2>2. Max(1 .. m + 1) = m + 1  BY <2>1, LastIsMax
  <2>3. it[1 .. m + 1] = DoneStep(X, g.op, 1 .. m + 1, it)  BY <1>3, <2>1
  <2>4. 1 .. m + 1 # {}  BY <2>1
  <2>5. it[1 .. m + 1] = Done(X, it[1 .. m], g.op[m + 1])
    BY <2>1, <2>2, <2>3, <2>4 DEF DoneStep
  <2>. QED  BY <2>1, <2>5
<1>6. val[N] = it[1 .. N]  OBVIOUS
<1>. HIDE DEF val
<1>7. After(X, g.op, N, val)  BY <1>4, <1>5 DEF After
<1>. QED  BY <1>1, <1>6, <1>7

(* What the file says a definition is, the ones before it known.         *)
Said(X, def, val) ==
  IF def <= Len(InputNames) THEN def - 1 \in X
  ELSE Result(file.body[def - Len(InputNames)].operation,
              val[Stands(file.body[def - Len(InputNames)].v1, def - Len(InputNames))],
              val[Stands(file.body[def - Len(InputNames)].v2, def - Len(InputNames))])

IsSaid(X, n, val) == val = [def \in 1 .. n |-> Said(X, def, val)]

(* An assignment uses what stands before it.                             *)
LEMMA LinesLookBack ==
  ASSUME FileRight, LinesRight, NEW n \in 1 .. Len(file.body)
  PROVE  /\ Stands(file.body[n].v1, n) \in 1 .. NI + n - 1
         /\ Stands(file.body[n].v2, n) \in 1 .. NI + n - 1
<1>1. n \in 1 .. Len(file.body) + 1  BY HeaderIs
<1>2. file.body[n].v1 \in Known(n) /\ file.body[n].v2 \in Known(n)  BY DEF LinesRight
<1>. QED  BY <1>1, <1>2, StandsKnown

(* As assignments look back only, the definitions have values.           *)
LEMMA SaidExists ==
  ASSUME FileRight, LinesRight, NEW X
  PROVE  \E val : IsSaid(X, NI + Len(file.body), val)
<1>. DEFINE N == NI + Len(file.body)
            T == {n \in Nat : n <= N => \E val : IsSaid(X, n, val)}
<1>0. NI \in Nat /\ Len(file.body) \in Nat /\ Len(InputNames) = NI  BY HeaderIs, InputNamesAre
<1>1. 0 \in T
  <2>. DEFINE h == [def \in 1 .. 0 |-> FALSE]
  <2>1. h = [def \in 1 .. 0 |-> Said(X, def, h)]
    <3>1. \A def \in 1 .. 0 : FALSE  OBVIOUS
    <3>. QED  BY <3>1
  <2>. HIDE DEF h
  <2>2. IsSaid(X, 0, h)  BY <2>1, Zenon DEF IsSaid
  <2>. QED  BY <2>2
<1>2. ASSUME NEW n \in T PROVE n + 1 \in T
  <2>. SUFFICES ASSUME n + 1 <= N PROVE \E val : IsSaid(X, n + 1, val)  OBVIOUS
  <2>0. n \in Nat /\ n <= N  BY <1>0
  <2>1. PICK f : IsSaid(X, n, f)  BY <2>0
  <2>. DEFINE h == [def \in 1 .. n + 1 |-> Said(X, def, f)]
  <2>2. \A def \in 1 .. n : h[def] = f[def]
    <3>1. \A def \in 1 .. n : def \in 1 .. n + 1 /\ f[def] = Said(X, def, f)
      BY <2>0, <2>1 DEF IsSaid
    <3>. QED  BY <3>1
  <2>3. ASSUME NEW def \in 1 .. n + 1 PROVE Said(X, def, f) = Said(X, def, h)
    <3>1. CASE def <= NI
      BY <1>0, <3>1 DEF Said
    <3>2. CASE ~ (def <= NI)
      <4>. DEFINE m == def - NI
      <4>1. m \in 1 .. Len(file.body) /\ NI + m - 1 <= n
        BY <1>0, <2>0, <3>2
      <4>2. /\ Stands(file.body[m].v1, m) \in 1 .. NI + m - 1
            /\ Stands(file.body[m].v2, m) \in 1 .. NI + m - 1
        BY <4>1, LinesLookBack
      <4>3. Stands(file.body[m].v1, m) \in 1 .. n /\ Stands(file.body[m].v2, m) \in 1 .. n
        <5>1. NI + m - 1 \in Int  BY <1>0, <4>1
        <5>. QED  BY <2>0, <4>1, <4>2, <5>1
      <4>4. /\ h[Stands(file.body[m].v1, m)] = f[Stands(file.body[m].v1, m)]
            /\ h[Stands(file.body[m].v2, m)] = f[Stands(file.body[m].v2, m)]
        BY <2>2, <4>3
      <4>. HIDE DEF h
      <4>. QED  BY <1>0, <3>2, <4>4 DEF Said
    <3>. QED  BY <3>1, <3>2
  <2>4. h = [def \in 1 .. n + 1 |-> Said(X, def, h)]
    <3>1. \A def \in 1 .. n + 1 : h[def] = Said(X, def, h)  BY <2>3
    <3>2. h = [def \in 1 .. n + 1 |-> h[def]]  OBVIOUS
    <3>. HIDE DEF h
    <3>. QED  BY <3>1, <3>2
  <2>. HIDE DEF h
  <2>5. IsSaid(X, n + 1, h)  BY <2>4, Zenon DEF IsSaid
  <2>. QED  BY <2>5
<1>3. T = Nat
  <2>. HIDE DEF T
  <2>1. T \in SUBSET Nat  BY DEF T
  <2>. QED  BY <1>1, <1>2, <2>1, AllNaturals
<1>4. N \in Nat  BY <1>0
<1>. HIDE DEF N
<1>5. N \in T /\ N <= N  BY <1>3, <1>4
<1>6. \E val : IsSaid(X, N, val)  BY <1>5
<1>. QED  BY <1>6 DEF N

(* The values of the file, definition by definition.                     *)
LEMMA DescribedIs ==
  ASSUME FileRight, LinesRight, NEW X, NEW def \in 1 .. NI + Len(file.body)
  PROVE  /\ def <= NI => Described(X)[def] = (def - 1 \in X)
         /\ ~ (def <= NI) =>
              Described(X)[def] =
                Result(file.body[def - NI].operation,
                       Described(X)[Stands(file.body[def - NI].v1, def - NI)],
                       Described(X)[Stands(file.body[def - NI].v2, def - NI)])
<1>. DEFINE val == CHOOSE h : IsSaid(X, NI + Len(file.body), h)
<1>1. Len(InputNames) = NI  BY InputNamesAre
<1>2. Described(X) = val
  BY <1>1 DEF Described, Definitions, IsSaid, Said
<1>3. IsSaid(X, NI + Len(file.body), val)  BY SaidExists
<1>. HIDE DEF val
<1>4. val = [e \in 1 .. NI + Len(file.body) |-> Said(X, e, val)]  BY <1>3, Zenon DEF IsSaid
<1>5. val[def] = Said(X, def, val)  BY <1>4
<1>. QED  BY <1>1, <1>2, <1>5 DEF Said

(* The members of a finite set of numbers are put in their order.        *)
LEMMA InOrderIs ==
  ASSUME NEW S \in SUBSET Nat, IsFiniteSet(S)
  PROVE  /\ Cardinality(S) \in Nat /\ DOMAIN InOrder(S) = 1 .. Cardinality(S)
         /\ Len(InOrder(S)) = Cardinality(S)
         /\ \A n \in 1 .. Cardinality(S) : InOrder(S)[n] \in S /\ Rank(S, InOrder(S)[n]) = n
         /\ \A e \in S : Rank(S, e) \in 1 .. Cardinality(S) /\ InOrder(S)[Rank(S, e)] = e
<1>. DEFINE K == Cardinality(S)
            f == [n \in 1 .. K |-> CHOOSE e \in S : Rank(S, e) = n]
<1>1. K \in Nat  BY Ranks
<1>2. InOrder(S) = f  BY DEF InOrder, Rank
<1>3. \A e, h \in S : Rank(S, e) = Rank(S, h) => e = h
  <2>. SUFFICES ASSUME NEW e \in S, NEW h \in S, Rank(S, e) = Rank(S, h) PROVE e = h  OBVIOUS
  <2>1. e \in Nat /\ h \in Nat /\ Rank(S, e) \in Int /\ Rank(S, h) \in Int
    <3>1. Rank(S, e) \in 1 .. K /\ Rank(S, h) \in 1 .. K  BY Ranks
    <3>. QED  BY <1>1, <3>1
  <2>2. ~ (e < h) /\ ~ (h < e)  BY <2>1, Ranks
  <2>. QED  BY <2>1, <2>2
<1>4. \A e \in S : Rank(S, e) \in 1 .. K  BY Ranks
<1>5. \A n \in 1 .. K : \E e \in S : Rank(S, e) = n  BY Ranks
<1>6. \A n \in 1 .. K : f[n] \in S /\ Rank(S, f[n]) = n  BY <1>5
<1>7. DOMAIN f = 1 .. K  OBVIOUS
<1>8. f \in Seq(S) /\ Len(f) = K
  <2>1. f \in [1 .. K -> S]  BY <1>6, <1>7
  <2>. HIDE DEF f, K
  <2>. QED  BY <1>1, <1>7, <2>1
<1>. HIDE DEF f
<1>9. \A e \in S : f[Rank(S, e)] = e  BY <1>3, <1>4, <1>6
<1>. QED  BY <1>1, <1>2, <1>4, <1>6, <1>7, <1>8, <1>9

(* When both passes are over.                                            *)
Finished ==
  /\ g = gadget(info, gen)
  /\ info.d * info.numOuts = numMaskedOuts /\ gen.d * gen.numOuts = numMaskedOuts
  /\ numTotIns(info) = NI
  /\ Len(gen.op) = NI + Len(file.body) /\ DOMAIN gen.op = 1 .. NI + Len(file.body)
  /\ \A def \in 1 .. NI : gen.op[def].operation = "IN" /\ gen.op[def].inWire = <<def - 1, 0>>
  /\ \A n \in 1 .. Len(file.body) :
       /\ gen.op[NI + n].operation = file.body[n].operation
       /\ gen.op[NI + n].inWire = <<Stands(file.body[n].v1, n) - 1, Stands(file.body[n].v2, n) - 1>>
       /\ file.body[n].operation # "IN"
  /\ \A o \in 0 .. numMaskedOuts - 1 :
       /\ gen.out2op[o] = StandsForOut(o) - 1
       /\ StandsForOut(o) \in 1 .. NI + Len(file.body)
  /\ \A def \in 1 .. NI + Len(file.body) : gen.op[def].mult = ProbesOf(def)

(* When both passes are over the invariant says this.                    *)
LEMMA IsFinished ==
  ASSUME IInv, pc = "done"
  PROVE  FileRight /\ LinesRight /\ Finished
<1>1. FileRight /\ Reading /\ pass = 2  BY DEF IInv, Reading, PlaceRight
<1>2. LinesRight /\ InfoRight /\ GenRight /\ OperationsRight /\ CountsRight /\ OutsRight /\ GadgetRight
  BY <1>1 DEF Reading
<1>3. /\ InsRead(1) = numMaskedIns /\ OutsRead(1) = numMaskedOuts /\ RndsRead(1) = Len(header.rnds)
      /\ OutsRead(2) = numMaskedOuts /\ NumLines = Len(file.body)
  BY DEF InsRead, OutsRead, RndsRead, NumLines
<1>4. /\ info.d * info.numOuts = numMaskedOuts /\ numTotIns(info) = NI
      /\ gen.d = info.d /\ gen.numOuts = info.numOuts
  BY <1>1, <1>2, <1>3, InfoAll DEF GenRight
<1>5. NI \in Nat /\ numMaskedOuts \in Nat /\ Len(file.body) \in Nat /\ file.body \in Seq(LineSet)
  BY <1>1, HeaderIs
<1>6. Len(gen.op) = NI + Len(file.body) /\ DOMAIN gen.op = 1 .. NI + Len(file.body)
  <2>1. Len(gen.op) = NI + Len(file.body) /\ gen.op \in Seq(OpSet)
    BY <1>1, <1>2, <1>3 DEF GenRight
  <2>. QED  BY <2>1
<1>7. \A n \in 1 .. Len(file.body) : file.body[n].operation # "IN"
  <2>1. \A n \in 1 .. Len(file.body) : file.body[n] \in LineSet  BY <1>5
  <2>. QED  BY <2>1 DEF LineSet
<1>8. \A o \in 0 .. numMaskedOuts - 1 : StandsForOut(o) \in 1 .. NI + Len(file.body)
  <2>. SUFFICES ASSUME NEW o \in 0 .. numMaskedOuts - 1
                PROVE  StandsForOut(o) \in 1 .. NI + Len(file.body)
    OBVIOUS
  <2>1. OutName(o) \in Known(Len(file.body) + 1)  BY <1>2, <1>3 DEF LinesRight
  <2>2. Len(file.body) + 1 \in 1 .. Len(file.body) + 1  BY <1>5
  <2>3. StandsForOut(o) \in 1 .. NI + (Len(file.body) + 1) - 1
    BY <1>1, <2>1, <2>2, StandsKnown DEF StandsForOut
  <2>. QED  BY <1>5, <2>3
<1>9. ASSUME NEW def \in 1 .. NI + Len(file.body) PROVE gen.op[def].mult = ProbesOf(def)
  <2>1. gen.op[def].mult =
          2 * Cardinality(ReadersTo(def, Len(file.body)))
            + Cardinality(OutReadersTo(def, numMaskedOuts)) - 1
    BY <1>1, <1>2, <1>3, <1>6 DEF CountsRight
  <2>2. ReadersTo(def, Len(file.body)) = Readers(def)
    <3>1. \A read \in Readers(def) : read[1] \in 1 .. Len(file.body)
      BY <1>5 DEF Readers
    <3>2. \A read \in Readers(def) : read[1] <= Len(file.body)  BY <1>5, <3>1
    <3>. QED  BY <3>2 DEF ReadersTo
  <2>3. OutReadersTo(def, numMaskedOuts) = OutReaders(def)
    <3>1. \A o \in OutReaders(def) : o \in 0 .. numMaskedOuts - 1  BY DEF OutReaders
    <3>2. \A o \in OutReaders(def) : o < numMaskedOuts  BY <1>5, <3>1
    <3>. QED  BY <3>2 DEF OutReadersTo
  <2>4. Cardinality(Readers(def)) \in Nat /\ Cardinality(OutReaders(def)) \in Nat
    BY <1>1, <1>5, ReadersFinite
  <2>. QED  BY <2>1, <2>2, <2>3, <2>4 DEF ProbesOf, Copies
<1>10. g = gadget(info, gen)  BY <1>2 DEF GadgetRight
<1>11. /\ \A def \in 1 .. NI : gen.op[def].operation = "IN" /\ gen.op[def].inWire = <<def - 1, 0>>
       /\ \A n \in 1 .. Len(file.body) :
            /\ gen.op[NI + n].operation = file.body[n].operation
            /\ gen.op[NI + n].inWire = <<Stands(file.body[n].v1, n) - 1, Stands(file.body[n].v2, n) - 1>>
  BY <1>1, <1>2, <1>3 DEF OperationsRight
<1>12. \A o \in 0 .. numMaskedOuts - 1 : gen.out2op[o] = StandsForOut(o) - 1
  BY <1>1, <1>2, <1>3 DEF OutsRight
<1>. QED
  BY <1>1, <1>2, <1>4, <1>6, <1>7, <1>8, <1>9, <1>10, <1>11, <1>12, Zenon DEF Finished

(* The wires that are probes; the definition an operation of the gadget  *)
(* computes.                                                             *)
Kept == {w \in 0 .. Len(gen.op) - 1 : IsProbe(gen, w)}

DefinitionOf(m) ==
  IF m <= Cardinality(Kept) THEN Probes(gen)[m] + 1 ELSE StandsForOut(m - Cardinality(Kept) - 1)

(* The wires that are kept are the definitions that have probes.         *)
LEMMA KeptIs ==
  ASSUME FileRight, Finished
  PROVE  /\ Kept \in SUBSET Nat /\ IsFiniteSet(Kept)
         /\ \A w \in Kept : w + 1 \in 1 .. NI + Len(file.body) /\ ProbesOf(w + 1) > 0
         /\ \A def \in 1 .. NI + Len(file.body) : ProbesOf(def) > 0 => def - 1 \in Kept
         /\ Probes(gen) = InOrder(Kept)
<1>1. /\ Len(gen.op) = NI + Len(file.body)
      /\ \A def \in 1 .. NI + Len(file.body) : gen.op[def].mult = ProbesOf(def)
  BY DEF Finished
<1>2. NI \in Nat /\ Len(file.body) \in Nat  BY HeaderIs
<1>. DEFINE N == NI + Len(file.body)
<1>3. N \in Nat /\ Len(gen.op) = N  BY <1>1, <1>2
<1>4. \A def \in 1 .. N : gen.op[def].mult = ProbesOf(def)  BY <1>1
<1>. HIDE DEF N
<1>5. Kept = {w \in 0 .. N - 1 : IsProbe(gen, w)}  BY <1>3 DEF Kept
<1>6. IsFiniteSet(Kept) /\ Kept \in SUBSET Nat
  <2>1. IsFiniteSet(0 .. N - 1)  BY <1>3, FS_Interval
  <2>2. Kept \in SUBSET (0 .. N - 1)  BY <1>5
  <2>3. \A w \in 0 .. N - 1 : w \in Nat  OBVIOUS
  <2>4. IsFiniteSet(Kept)  BY <2>1, <2>2, FS_Subset
  <2>5. Kept \in SUBSET Nat  BY <2>2, <2>3
  <2>. QED  BY <2>4, <2>5
<1>7. \A w \in 0 .. N - 1 : w + 1 \in 1 .. N /\ (w \in Kept <=> ProbesOf(w + 1) > 0)
  BY <1>3, <1>4, <1>5 DEF IsProbe
<1>8. \A w \in Kept : w + 1 \in 1 .. N /\ ProbesOf(w + 1) > 0
  <2>1. \A w \in Kept : w \in 0 .. N - 1  BY <1>5
  <2>. QED  BY <1>7, <2>1
<1>9. ASSUME NEW def \in 1 .. N, ProbesOf(def) > 0 PROVE def - 1 \in Kept
  <2>1. def - 1 \in 0 .. N - 1 /\ (def - 1) + 1 = def  BY <1>3
  <2>. QED  BY <1>7, <1>9, <2>1
<1>10. Probes(gen) = InOrder(Kept)  BY DEF Probes, Kept
<1>. QED  BY <1>6, <1>8, <1>9, <1>10 DEF N

(* What an assignment reads is a probe.                                  *)
LEMMA ReadAreKept ==
  ASSUME FileRight, LinesRight, Finished, NEW n \in 1 .. Len(file.body), NEW k \in {"v1", "v2"}
  PROVE  Stands(file.body[n][k], n) - 1 \in Kept /\ Stands(file.body[n][k], n) \in 1 .. NI + n - 1
<1>. DEFINE def == Stands(file.body[n][k], n)
<1>1. def \in 1 .. NI + n - 1  BY LinesLookBack
<1>2. NI \in Nat /\ Len(file.body) \in Nat /\ DOMAIN file.body = 1 .. Len(file.body)  BY HeaderIs
<1>3. def \in 1 .. NI + Len(file.body)
  <2>1. NI + n - 1 \in Int /\ NI + n - 1 <= NI + Len(file.body)  BY <1>2
  <2>. HIDE DEF def
  <2>. QED  BY <1>1, <1>2, <2>1
<1>4. <<n, k>> \in Readers(def)  BY <1>2 DEF Readers
<1>5. Cardinality(Readers(def)) \in Nat /\ IsFiniteSet(Readers(def)) /\ Cardinality(OutReaders(def)) \in Nat
  <2>1. 0 \in Nat  OBVIOUS
  <2>. QED  BY <2>1, ReadersFinite
<1>6. Cardinality(Readers(def)) # 0  BY <1>4, <1>5, FS_EmptySet
<1>7. ProbesOf(def) > 0  BY <1>5, <1>6 DEF ProbesOf, Copies
<1>. HIDE DEF def
<1>8. def - 1 \in Kept  BY <1>3, <1>7, KeptIs
<1>. QED  BY <1>1, <1>8 DEF def

(* The number a probe gets.                                              *)
LEMMA RelocatorIs ==
  ASSUME FileRight, Finished, NEW u \in Kept, NEW j \in Nat, u < j
  PROVE  opRelocator(gen, j, u) = numMaskedOuts + Rank(Kept, u) - 1
<1>. DEFINE U == {v \in 0 .. u - 1 : IsProbe(gen, v)}
            W == {l \in Kept : l <= u}
<1>1. Kept \in SUBSET Nat /\ IsFiniteSet(Kept)  BY KeptIs
<1>2. NI + Len(file.body) \in Nat /\ Len(gen.op) = NI + Len(file.body)  BY HeaderIs DEF Finished
<1>3. u \in 0 .. Len(gen.op) - 1 /\ IsProbe(gen, u)  BY DEF Kept
<1>4. U = W \ {u}
  <2>1. \A v \in 0 .. u - 1 : v \in 0 .. Len(gen.op) - 1 /\ v <= u /\ v # u  BY <1>2, <1>3
  <2>2. \A v \in Kept : v <= u /\ v # u => v \in 0 .. u - 1  BY <1>1
  <2>3. \A v \in Kept : IsProbe(gen, v)  BY DEF Kept
  <2>4. \A v \in 0 .. Len(gen.op) - 1 : IsProbe(gen, v) => v \in Kept  BY DEF Kept
  <2>. QED  BY <2>1, <2>2, <2>3, <2>4
<1>5. u \in W  BY <1>1
<1>6. IsFiniteSet(W)
  <2>1. W \in SUBSET Kept  OBVIOUS
  <2>. QED  BY <1>1, <2>1, FS_Subset
<1>7. Cardinality(U) = Rank(Kept, u) - 1
  <2>. HIDE DEF U, W
  <2>1. Cardinality(W \ {u}) = Cardinality(W) - 1  BY <1>5, <1>6, FS_RemoveElement
  <2>. QED  BY <1>4, <2>1 DEF W, Rank
<1>8. gen.d * gen.numOuts = numMaskedOuts  BY DEF Finished
<1>9. opRelocator(gen, j, u) = gen.d * gen.numOuts + Cardinality(U)
  BY <1>3 DEF opRelocator
<1>10. Rank(Kept, u) \in Int /\ numMaskedOuts \in Int
  BY <1>1, Ranks, HeaderIs
<1>. HIDE DEF U
<1>. QED  BY <1>7, <1>8, <1>9, <1>10

(* The numbers of the gadget's operations.                               *)
LEMMA GadgetIs ==
  ASSUME FileRight, Finished
  PROVE  LET K == Cardinality(Kept)
             N == K + numMaskedOuts
         IN  /\ K \in Nat /\ N \in Nat /\ numMaskedOuts \in Nat
             /\ DOMAIN g.op = 1 .. N /\ Len(g.op) = N
             /\ g.numTotOuts = N /\ g.numTotIns = NI
             /\ \A m \in 1 .. N :
                  /\ DefinitionOf(m) \in 1 .. NI + Len(file.body)
                  /\ g.op[m].outWire = IF m <= K THEN numMaskedOuts + m - 1 ELSE m - K - 1
                  /\ \E j \in Nat :
                       /\ DefinitionOf(m) - 1 <= j
                       /\ g.op[m] = Relocated(gen, DefinitionOf(m) - 1, j, g.op[m].outWire)
             /\ \A w \in Kept : Rank(Kept, w) \in 1 .. K /\ DefinitionOf(Rank(Kept, w)) = w + 1
             /\ \A m, n \in 1 .. N : m <= K /\ n <= K /\ m < n => DefinitionOf(m) < DefinitionOf(n)
<1>. DEFINE K == Cardinality(Kept)
            D == numMaskedOuts
            N == K + D
            a == FromProbes(gen)
            b == FromOuts(gen)
<1>1. /\ Kept \in SUBSET Nat /\ IsFiniteSet(Kept) /\ Probes(gen) = InOrder(Kept)
      /\ \A w \in Kept : w + 1 \in 1 .. NI + Len(file.body)
  BY KeptIs
<1>2. /\ K \in Nat /\ DOMAIN InOrder(Kept) = 1 .. K /\ Len(InOrder(Kept)) = K
      /\ \A n \in 1 .. K : InOrder(Kept)[n] \in Kept /\ Rank(Kept, InOrder(Kept)[n]) = n
      /\ \A e \in Kept : Rank(Kept, e) \in 1 .. K /\ InOrder(Kept)[Rank(Kept, e)] = e
  BY <1>1, InOrderIs
<1>3. D \in Nat /\ NI + Len(file.body) \in Nat  BY HeaderIs
<1>4. /\ g = gadget(info, gen) /\ info.d * info.numOuts = D /\ gen.d * gen.numOuts = D
      /\ numTotIns(info) = NI /\ Len(gen.op) = NI + Len(file.body)
      /\ \A o \in 0 .. D - 1 : gen.out2op[o] = StandsForOut(o) - 1
                               /\ StandsForOut(o) \in 1 .. NI + Len(file.body)
  BY DEF Finished
<1>5. g.op = a \o b /\ g.numTotOuts = D + K /\ g.numTotIns = NI
  BY <1>1, <1>2, <1>4 DEF gadget
<1>6. /\ a = [n \in 1 .. K |-> Relocated(gen, InOrder(Kept)[n], InOrder(Kept)[n], n - 1 + D)]
      /\ b = [n \in 1 .. D |-> Relocated(gen, gen.out2op[n - 1], Len(gen.op), n - 1)]
  BY <1>1, <1>2, <1>4 DEF FromProbes, FromOuts
<1>. HIDE DEF K, D, a, b
<1>7. /\ DOMAIN (a \o b) = 1 .. N /\ Len(a \o b) = N
      /\ \A m \in 1 .. N : (a \o b)[m] = IF m <= K THEN a[m] ELSE b[m - K]
  <2>. DEFINE S == {a[n] : n \in 1 .. K} \cup {b[n] : n \in 1 .. D}
  <2>1. DOMAIN a = 1 .. K /\ DOMAIN b = 1 .. D  BY <1>6
  <2>2. a \in [1 .. K -> S] /\ b \in [1 .. D -> S]  BY <1>6, <2>1
  <2>. HIDE DEF S
  <2>3. a \in Seq(S) /\ b \in Seq(S) /\ Len(a) = K /\ Len(b) = D  BY <1>2, <1>3, <2>1, <2>2
  <2>4. /\ Len(a \o b) = N /\ a \o b \in Seq(S)
        /\ \A m \in 1 .. N : (a \o b)[m] = IF m <= K THEN a[m] ELSE b[m - K]
    BY <1>2, <1>3, <2>3
  <2>. DEFINE c == a \o b
  <2>5. c \in Seq(S) /\ Len(c) = N  BY <2>4
  <2>. HIDE DEF c
  <2>6. DOMAIN c = 1 .. N  BY <2>5
  <2>. QED  BY <2>4, <2>6 DEF c
<1>8. \A m \in 1 .. K : a[m] = Relocated(gen, InOrder(Kept)[m], InOrder(Kept)[m], m - 1 + D)
  BY <1>6
<1>9. \A m \in 1 .. D : b[m] = Relocated(gen, gen.out2op[m - 1], Len(gen.op), m - 1)
  BY <1>6
<1>10. \A m \in 1 .. N : m <= K => m \in 1 .. K  BY <1>2, <1>3
<1>11. \A m \in 1 .. N : ~ (m <= K) => m - K \in 1 .. D /\ m - K - 1 \in 0 .. D - 1
  BY <1>2, <1>3
<1>12. \A m \in 1 .. N : m <= K =>
         /\ DefinitionOf(m) = InOrder(Kept)[m] + 1
         /\ InOrder(Kept)[m] \in Kept /\ Rank(Kept, InOrder(Kept)[m]) = m
  BY <1>1, <1>2, <1>10 DEF DefinitionOf, K
<1>13. \A m \in 1 .. N : ~ (m <= K) => DefinitionOf(m) = StandsForOut(m - K - 1)
  BY DEF DefinitionOf, K
<1>14. \A w \in Kept : w \in Nat /\ (w + 1) - 1 = w  BY <1>1
<1>15. ASSUME NEW m \in 1 .. N
       PROVE  /\ DefinitionOf(m) \in 1 .. NI + Len(file.body)
              /\ g.op[m].outWire = IF m <= K THEN D + m - 1 ELSE m - K - 1
              /\ \E j \in Nat :
                   /\ DefinitionOf(m) - 1 <= j
                   /\ g.op[m] = Relocated(gen, DefinitionOf(m) - 1, j, g.op[m].outWire)
  <2>1. CASE m <= K
    <3>. DEFINE w == InOrder(Kept)[m]
    <3>1. DefinitionOf(m) = w + 1 /\ w \in Kept  BY <1>12, <2>1
    <3>2. g.op[m] = Relocated(gen, w, w, m - 1 + D)  BY <1>5, <1>7, <1>8, <1>10, <2>1
    <3>. HIDE DEF w
    <3>3. w \in Nat /\ DefinitionOf(m) - 1 = w /\ w <= w  BY <1>14, <3>1
    <3>4. g.op[m].outWire = m - 1 + D  BY <3>2 DEF Relocated
    <3>5. m - 1 + D = D + m - 1  BY <1>3
    <3>. QED  BY <1>1, <2>1, <3>1, <3>2, <3>3, <3>4, <3>5
  <2>2. CASE ~ (m <= K)
    <3>1. /\ DefinitionOf(m) = StandsForOut(m - K - 1)
          /\ gen.out2op[m - K - 1] = StandsForOut(m - K - 1) - 1
          /\ StandsForOut(m - K - 1) \in 1 .. NI + Len(file.body)
      BY <1>4, <1>11, <1>13, <2>2
    <3>2. g.op[m] = Relocated(gen, gen.out2op[m - K - 1], Len(gen.op), m - K - 1)
      BY <1>5, <1>7, <1>9, <1>11, <2>2
    <3>3. g.op[m].outWire = m - K - 1  BY <3>2 DEF Relocated
    <3>. DEFINE e == StandsForOut(m - K - 1)
    <3>4. e \in 1 .. NI + Len(file.body)  BY <3>1
    <3>. HIDE DEF e
    <3>5. e - 1 <= Len(gen.op) /\ Len(gen.op) \in Nat  BY <1>3, <1>4, <3>4
    <3>. QED  BY <2>2, <3>1, <3>2, <3>3, <3>5 DEF e
  <2>. QED  BY <2>1, <2>2
<1>16. ASSUME NEW w \in Kept
       PROVE  Rank(Kept, w) \in 1 .. K /\ DefinitionOf(Rank(Kept, w)) = w + 1
  <2>1. Rank(Kept, w) \in 1 .. K  BY <1>2 DEF K
  <2>2. Rank(Kept, w) \in 1 .. N /\ Rank(Kept, w) <= K  BY <1>2, <1>3, <2>1
  <2>3. InOrder(Kept)[Rank(Kept, w)] = w  BY <1>2
  <2>. QED  BY <1>12, <2>1, <2>2, <2>3
<1>17. ASSUME NEW m \in 1 .. N, NEW n \in 1 .. N, m <= K, n <= K, m < n
       PROVE  DefinitionOf(m) < DefinitionOf(n)
  <2>. DEFINE u == InOrder(Kept)[m]
              v == InOrder(Kept)[n]
  <2>1. /\ DefinitionOf(m) = u + 1 /\ u \in Kept /\ Rank(Kept, u) = m
        /\ DefinitionOf(n) = v + 1 /\ v \in Kept /\ Rank(Kept, v) = n
    BY <1>12, <1>17
  <2>. HIDE DEF u, v
  <2>2. u \in Nat /\ v \in Nat  BY <1>1, <2>1
  <2>3. ~ (v < u)
    <3>1. v < u => n < m  BY <1>1, <2>1, Ranks
    <3>. QED  BY <1>17, <3>1
  <2>4. u # v  BY <1>17, <2>1
  <2>. QED  BY <2>1, <2>2, <2>3, <2>4
<1>18. N \in Nat /\ D + K = N  BY <1>2, <1>3
<1>. QED  BY <1>2, <1>3, <1>5, <1>7, <1>15, <1>16, <1>17, <1>18 DEF D, K

(* An operation computes its definition from the definitions that        *)
(* operations before it computed.                                        *)
ReadsBack(m, wire, name, n) ==
  \E x \in 1 .. m - 1 :
    /\ x <= Cardinality(Kept)
    /\ wire = g.op[x].outWire
    /\ DefinitionOf(x) = Stands(name, n)

(* A wire that a line reads is kept, and has its new number before it is *)
(* read (opRelocator).                                                   *)
LEMMA WireIs ==
  ASSUME FileRight, LinesRight, Finished, NEW m \in 1 .. Cardinality(Kept) + numMaskedOuts,
         NEW n \in 1 .. Len(file.body), DefinitionOf(m) = NI + n, NEW k \in {"v1", "v2"},
         NEW j \in Nat, DefinitionOf(m) - 1 <= j
  PROVE  ReadsBack(m, opRelocator(gen, j, Stands(file.body[n][k], n) - 1), file.body[n][k], n)
<1>. DEFINE K == Cardinality(Kept)
            N == K + numMaskedOuts
            s == Stands(file.body[n][k], n)
            u == s - 1
            x == Rank(Kept, u)
<1>1. u \in Kept /\ s \in 1 .. NI + n - 1  BY ReadAreKept
<1>2. /\ K \in Nat /\ N \in Nat /\ numMaskedOuts \in Nat
      /\ \A i \in 1 .. N : g.op[i].outWire = IF i <= K THEN numMaskedOuts + i - 1 ELSE i - K - 1
      /\ \A w \in Kept : Rank(Kept, w) \in 1 .. K /\ DefinitionOf(Rank(Kept, w)) = w + 1
      /\ \A i, h \in 1 .. N : i <= K /\ h <= K /\ i < h => DefinitionOf(i) < DefinitionOf(h)
  BY GadgetIs
<1>3. NI \in Nat /\ Len(file.body) \in Nat  BY HeaderIs
<1>. HIDE DEF s
<1>4. s \in Int /\ s < NI + n /\ u < j /\ u + 1 = s  BY <1>1, <1>3
<1>5. x \in 1 .. K /\ DefinitionOf(x) = s
  <2>. HIDE DEF u, K
  <2>. QED  BY <1>1, <1>2, <1>4
<1>. HIDE DEF u
<1>6. opRelocator(gen, j, u) = numMaskedOuts + x - 1  BY <1>1, <1>4, RelocatorIs
<1>7. x \in 1 .. N /\ x <= K /\ m \in 1 .. N  BY <1>2, <1>5
<1>8. x < m
  <2>1. CASE m <= K
    <3>1. ~ (m < x)
      <4>1. m < x => DefinitionOf(m) < DefinitionOf(x)  BY <1>2, <1>7, <2>1
      <4>. QED  BY <1>3, <1>4, <1>5, <4>1
    <3>2. m # x  BY <1>3, <1>4, <1>5
    <3>. QED  BY <1>7, <3>1, <3>2
  <2>2. CASE ~ (m <= K)  BY <1>2, <1>5, <1>7, <2>2
  <2>. QED  BY <2>1, <2>2
<1>. HIDE DEF x, N, K
<1>9. x \in 1 .. m - 1  BY <1>5, <1>7, <1>8, <1>2
<1>10. g.op[x].outWire = numMaskedOuts + x - 1  BY <1>2, <1>7
<1>11. opRelocator(gen, j, u) = g.op[x].outWire  BY <1>6, <1>10
<1>12. ReadsBack(m, opRelocator(gen, j, u), file.body[n][k], n)
  BY <1>5, <1>7, <1>9, <1>11 DEF ReadsBack, K, s
<1>. QED  BY <1>12 DEF u, s

(* An input's operation reads the input; any other reads two wires that  *)
(* operations before it wrote.                                           *)
LEMMA OperationIs ==
  ASSUME FileRight, LinesRight, Finished, NEW m \in 1 .. Cardinality(Kept) + numMaskedOuts
  PROVE  LET def == DefinitionOf(m)
             n == def - NI
             op == g.op[m]
         IN  /\ def \in 1 .. NI + Len(file.body)
             /\ def <= NI => op.operation = "IN" /\ op.inWire[1] = def - 1
             /\ ~ (def <= NI) =>
                  /\ n \in 1 .. Len(file.body)
                  /\ op.operation = file.body[n].operation /\ op.operation # "IN"
                  /\ DOMAIN op.inWire = 1 .. 2
                  /\ ReadsBack(m, op.inWire[1], file.body[n].v1, n)
                  /\ ReadsBack(m, op.inWire[2], file.body[n].v2, n)
<1>. DEFINE def == DefinitionOf(m)
            n == def - NI
            op == g.op[m]
<1>1. /\ def \in 1 .. NI + Len(file.body)
      /\ \E j \in Nat : def - 1 <= j /\ op = Relocated(gen, def - 1, j, op.outWire)
  BY GadgetIs
<1>2. PICK j \in Nat : def - 1 <= j /\ op = Relocated(gen, def - 1, j, op.outWire)  BY <1>1
<1>3. /\ NI \in Nat /\ Len(file.body) \in Nat
      /\ \A e \in 1 .. NI : gen.op[e].operation = "IN" /\ gen.op[e].inWire = <<e - 1, 0>>
      /\ \A i \in 1 .. Len(file.body) :
           /\ gen.op[NI + i].operation = file.body[i].operation
           /\ gen.op[NI + i].inWire = <<Stands(file.body[i].v1, i) - 1, Stands(file.body[i].v2, i) - 1>>
           /\ file.body[i].operation # "IN"
  BY HeaderIs DEF Finished
<1>. HIDE DEF def, op
<1>4. (def - 1) + 1 = def  BY <1>1, <1>3
<1>. DEFINE source == gen.op[def]
<1>5. /\ op.operation = source.operation
      /\ source.operation = "IN" => op.inWire = source.inWire
      /\ source.operation # "IN" => op.inWire = [k \in 1 .. 2 |-> opRelocator(gen, j, source.inWire[k])]
  <2>. DEFINE e == def - 1
              o == op.outWire
  <2>1. op = Relocated(gen, e, j, o) /\ e + 1 = def  BY <1>2, <1>4
  <2>. HIDE DEF e, o
  <2>2. Relocated(gen, e, j, o).operation = source.operation  BY <2>1 DEF Relocated
  <2>3. Relocated(gen, e, j, o).inWire =
          IF source.operation = "IN" THEN source.inWire
          ELSE [k \in 1 .. 2 |-> opRelocator(gen, j, source.inWire[k])]
    BY <2>1 DEF Relocated
  <2>. QED  BY <2>1, <2>2, <2>3
<1>6. def <= NI => op.operation = "IN" /\ op.inWire[1] = def - 1
  <2>. SUFFICES ASSUME def <= NI PROVE op.operation = "IN" /\ op.inWire[1] = def - 1  OBVIOUS
  <2>1. def \in 1 .. NI  BY <1>1, <1>3
  <2>2. source.operation = "IN" /\ source.inWire = <<def - 1, 0>>  BY <1>3, <2>1
  <2>. QED  BY <1>5, <2>2
<1>7. ASSUME ~ (def <= NI)
      PROVE  /\ n \in 1 .. Len(file.body)
             /\ op.operation = file.body[n].operation /\ op.operation # "IN"
             /\ DOMAIN op.inWire = 1 .. 2
             /\ ReadsBack(m, op.inWire[1], file.body[n].v1, n)
             /\ ReadsBack(m, op.inWire[2], file.body[n].v2, n)
  <2>1. n \in 1 .. Len(file.body) /\ NI + n = def  BY <1>1, <1>3, <1>7
  <2>. HIDE DEF n
  <2>2. /\ source.operation = file.body[n].operation /\ source.operation # "IN"
        /\ source.inWire = <<Stands(file.body[n].v1, n) - 1, Stands(file.body[n].v2, n) - 1>>
    BY <1>3, <2>1
  <2>3. /\ op.inWire = [k \in 1 .. 2 |-> opRelocator(gen, j, source.inWire[k])]
        /\ op.operation = file.body[n].operation /\ op.operation # "IN"
    BY <1>5, <2>2
  <2>4. /\ op.inWire[1] = opRelocator(gen, j, Stands(file.body[n].v1, n) - 1)
        /\ op.inWire[2] = opRelocator(gen, j, Stands(file.body[n].v2, n) - 1)
        /\ DOMAIN op.inWire = 1 .. 2
    <3>. HIDE DEF source
    <3>1. op.inWire[1] = opRelocator(gen, j, source.inWire[1])
          /\ op.inWire[2] = opRelocator(gen, j, source.inWire[2])
          /\ DOMAIN op.inWire = 1 .. 2
      BY <2>3
    <3>2. source.inWire[1] = Stands(file.body[n].v1, n) - 1
          /\ source.inWire[2] = Stands(file.body[n].v2, n) - 1
      BY <2>2
    <3>. QED  BY <3>1, <3>2
  <2>5. DefinitionOf(m) = NI + n /\ DefinitionOf(m) - 1 <= j  BY <1>2, <2>1 DEF def
  <2>6. ReadsBack(m, opRelocator(gen, j, Stands(file.body[n]["v1"], n) - 1), file.body[n]["v1"], n)
    BY <2>1, <2>5, WireIs
  <2>7. ReadsBack(m, opRelocator(gen, j, Stands(file.body[n]["v2"], n) - 1), file.body[n]["v2"], n)
    BY <2>1, <2>5, WireIs
  <2>. QED  BY <2>1, <2>3, <2>4, <2>6, <2>7
<1>. QED  BY <1>1, <1>6, <1>7 DEF def, op

(* After n operations, each of them has the value of its definition.     *)
Agree(X, vals, n) ==
  \A m \in 1 .. n : /\ g.op[m].outWire \in DOMAIN vals
                    /\ vals[g.op[m].outWire] = Described(X)[DefinitionOf(m)]

(* No two operations of the gadget write the same wire.                  *)
LEMMA OutWiresDiffer ==
  ASSUME FileRight, Finished, NEW m \in 1 .. Cardinality(Kept) + numMaskedOuts,
         NEW n \in 1 .. Cardinality(Kept) + numMaskedOuts, g.op[m].outWire = g.op[n].outWire
  PROVE  m = n
<1>. DEFINE K == Cardinality(Kept)
            N == K + numMaskedOuts
<1>1. /\ K \in Nat /\ numMaskedOuts \in Nat
      /\ \A i \in 1 .. N : g.op[i].outWire = IF i <= K THEN numMaskedOuts + i - 1 ELSE i - K - 1
  BY GadgetIs
<1>2. /\ g.op[m].outWire = IF m <= K THEN numMaskedOuts + m - 1 ELSE m - K - 1
      /\ g.op[n].outWire = IF n <= K THEN numMaskedOuts + n - 1 ELSE n - K - 1
  BY <1>1
<1>3. \A k, d \in Nat : \A a, b \in 1 .. k + d :
        (IF a <= k THEN d + a - 1 ELSE a - k - 1) = (IF b <= k THEN d + b - 1 ELSE b - k - 1) => a = b
  OBVIOUS
<1>. QED  BY <1>1, <1>2, <1>3

(* One operation more has the value of its definition too, and leaves    *)
(* the others alone.                                                     *)
LEMMA AgreeNext ==
  ASSUME FileRight, LinesRight, Finished, NEW X, NEW n \in Nat,
         n + 1 \in 1 .. Cardinality(Kept) + numMaskedOuts, NEW vals, Agree(X, vals, n)
  PROVE  Agree(X, Done(X, vals, g.op[n + 1]), n + 1)
<1>. DEFINE N == Cardinality(Kept) + numMaskedOuts
            op == g.op[n + 1]
            def == DefinitionOf(n + 1)
            i == def - NI
            out == op.outWire
            new == Done(X, vals, op)
<1>0. Cardinality(Kept) \in Nat /\ numMaskedOuts \in Nat  BY GadgetIs
<1>1. /\ def \in 1 .. NI + Len(file.body)
      /\ def <= NI => op.operation = "IN" /\ op.inWire[1] = def - 1
      /\ ~ (def <= NI) =>
           /\ i \in 1 .. Len(file.body)
           /\ op.operation = file.body[i].operation /\ op.operation # "IN"
           /\ ReadsBack(n + 1, op.inWire[1], file.body[i].v1, i)
           /\ ReadsBack(n + 1, op.inWire[2], file.body[i].v2, i)
  BY OperationIs
<1>2. /\ DOMAIN new = DOMAIN vals \cup {out}
      /\ \A w \in DOMAIN vals : w # out => new[w] = vals[w]
      /\ op.operation = "IN" => new[out] = (op.inWire[1] \in X)
      /\ op.operation # "IN" => new[out] = Result(op.operation, vals[op.inWire[1]], vals[op.inWire[2]])
  BY DEF Done
<1>. HIDE DEF new
<1>3. ASSUME NEW m \in 1 .. n
      PROVE  /\ g.op[m].outWire \in DOMAIN new
             /\ new[g.op[m].outWire] = Described(X)[DefinitionOf(m)]
  <2>1. m \in 1 .. N /\ m # n + 1 /\ n + 1 \in 1 .. N  BY <1>0
  <2>2. g.op[m].outWire # out  BY <2>1, OutWiresDiffer
  <2>3. /\ g.op[m].outWire \in DOMAIN vals
        /\ vals[g.op[m].outWire] = Described(X)[DefinitionOf(m)]
    BY DEF Agree
  <2>. QED  BY <1>2, <2>2, <2>3
<1>4. new[out] = Described(X)[def]
  <2>1. CASE def <= NI
    <3>1. Described(X)[def] = (def - 1 \in X)  BY <1>1, <2>1, DescribedIs
    <3>2. new[out] = (op.inWire[1] \in X) /\ op.inWire[1] = def - 1  BY <1>1, <1>2, <2>1
    <3>. QED  BY <3>1, <3>2
  <2>2. CASE ~ (def <= NI)
    <3>1. Described(X)[def] =
            Result(file.body[i].operation, Described(X)[Stands(file.body[i].v1, i)],
                   Described(X)[Stands(file.body[i].v2, i)])
      BY <1>1, <2>2, DescribedIs
    <3>2. new[out] = Result(file.body[i].operation, vals[op.inWire[1]], vals[op.inWire[2]])
      BY <1>1, <1>2, <2>2
    <3>3. \A wire, name : ReadsBack(n + 1, wire, name, i) => vals[wire] = Described(X)[Stands(name, i)]
      <4>. SUFFICES ASSUME NEW wire, NEW name, ReadsBack(n + 1, wire, name, i)
                    PROVE  vals[wire] = Described(X)[Stands(name, i)]
        OBVIOUS
      <4>1. PICK x \in 1 .. (n + 1) - 1 :
              wire = g.op[x].outWire /\ DefinitionOf(x) = Stands(name, i)
        BY Zenon DEF ReadsBack
      <4>2. x \in 1 .. n  OBVIOUS
      <4>3. vals[g.op[x].outWire] = Described(X)[DefinitionOf(x)]  BY <4>2 DEF Agree
      <4>. QED  BY <4>1, <4>3
    <3>4. /\ vals[op.inWire[1]] = Described(X)[Stands(file.body[i].v1, i)]
          /\ vals[op.inWire[2]] = Described(X)[Stands(file.body[i].v2, i)]
      BY <1>1, <2>2, <3>3
    <3>. QED  BY <3>1, <3>2, <3>4
  <2>. QED  BY <2>1, <2>2
<1>5. \A m \in 1 .. n + 1 : m \in 1 .. n \/ m = n + 1  OBVIOUS
<1>6. out \in DOMAIN new  BY <1>2
<1>. QED  BY <1>3, <1>4, <1>5, <1>6 DEF Agree, new, out, op, def

(* In the end all operations have the values of their definitions.       *)
LEMMA AgreeAll ==
  ASSUME FileRight, LinesRight, Finished, NEW X
  PROVE  Agree(X, Computed(X), Cardinality(Kept) + numMaskedOuts)
<1>. DEFINE N == Cardinality(Kept) + numMaskedOuts
<1>1. N \in Nat /\ DOMAIN g.op = 1 .. N  BY GadgetIs
<1>2. PICK val : After(X, g.op, N, val) /\ Computed(X) = val[N]  BY <1>1, ComputedSteps
<1>. DEFINE T == {n \in Nat : n <= N => Agree(X, val[n], n)}
<1>. HIDE DEF N
<1>3. 0 \in T
  <2>1. \A m \in 1 .. 0 : FALSE  OBVIOUS
  <2>. QED  BY <2>1 DEF Agree
<1>4. ASSUME NEW n \in T PROVE n + 1 \in T
  <2>. SUFFICES ASSUME n + 1 <= N PROVE Agree(X, val[n + 1], n + 1)  OBVIOUS
  <2>1. n \in Nat /\ n <= N /\ n + 1 \in 1 .. N /\ n \in 0 .. N - 1  BY <1>1
  <2>2. Agree(X, val[n], n)  BY <2>1
  <2>3. val[n + 1] = Done(X, val[n], g.op[n + 1])  BY <1>2, <2>1 DEF After
  <2>4. Agree(X, Done(X, val[n], g.op[n + 1]), n + 1)  BY <2>1, <2>2, AgreeNext DEF N
  <2>. QED  BY <2>3, <2>4
<1>5. T = Nat
  <2>. HIDE DEF T
  <2>1. T \in SUBSET Nat  BY DEF T
  <2>. QED  BY <1>3, <1>4, <2>1, AllNaturals
<1>6. N \in T /\ N <= N  BY <1>1, <1>5
<1>7. Agree(X, val[N], N)  BY <1>6
<1>. QED  BY <1>2, <1>7 DEF N

(* The gadget when it is finished.                                       *)
LEMMA FinishedComputes ==
  ASSUME FileRight, LinesRight, Finished
  PROVE  /\ WrittenBeforeRead
         /\ {op.outWire : op \in Range(g.op)} = 0 .. g.numTotOuts - 1
         /\ \A X : \A o \in 0 .. numMaskedOuts - 1 : Computed(X)[o] = Described(X)[StandsForOut(o)]
         /\ \A X : \A k \in 1 .. Cardinality(Kept) :
              Computed(X)[numMaskedOuts + k - 1] = Described(X)[Probes(gen)[k] + 1]
<1>. DEFINE K == Cardinality(Kept)
            D == numMaskedOuts
            N == K + D
<1>1. /\ K \in Nat /\ D \in Nat /\ N \in Nat /\ DOMAIN g.op = 1 .. N /\ g.numTotOuts = N
      /\ \A m \in 1 .. N : g.op[m].outWire = IF m <= K THEN D + m - 1 ELSE m - K - 1
  BY GadgetIs
<1>2. ASSUME NEW m \in 1 .. N
      PROVE  /\ g.op[m].operation = "IN"
                \/ Range(g.op[m].inWire) \subseteq {g.op[x].outWire : x \in 1 .. m - 1}
  <2>. DEFINE n == DefinitionOf(m) - NI
              op == g.op[m]
  <2>1. CASE DefinitionOf(m) <= NI  BY <2>1, OperationIs
  <2>2. CASE ~ (DefinitionOf(m) <= NI)
    <3>1. /\ DOMAIN op.inWire = 1 .. 2
          /\ ReadsBack(m, op.inWire[1], file.body[n].v1, n)
          /\ ReadsBack(m, op.inWire[2], file.body[n].v2, n)
      BY <2>2, OperationIs
    <3>2. \A wire, name : ReadsBack(m, wire, name, n) => wire \in {g.op[x].outWire : x \in 1 .. m - 1}
      BY DEF ReadsBack
    <3>3. \A k \in 1 .. 2 : k = 1 \/ k = 2  OBVIOUS
    <3>. HIDE DEF op, n
    <3>4. \A k \in DOMAIN op.inWire : op.inWire[k] \in {g.op[x].outWire : x \in 1 .. m - 1}
      BY <3>1, <3>2, <3>3
    <3>5. Range(op.inWire) \subseteq {g.op[x].outWire : x \in 1 .. m - 1}  BY <3>4 DEF Range
    <3>. QED  BY <3>5 DEF op
  <2>. QED  BY <2>1, <2>2
<1>3. WrittenBeforeRead  BY <1>1, <1>2 DEF WrittenBeforeRead
<1>. HIDE DEF K, D
<1>4. /\ \A m \in 1 .. N : g.op[m].outWire \in 0 .. N - 1
      /\ \A w \in 0 .. N - 1 : \E m \in 1 .. N : g.op[m].outWire = w
  <2>1. ASSUME NEW m \in 1 .. N PROVE g.op[m].outWire \in 0 .. N - 1
    <3>1. g.op[m].outWire = IF m <= K THEN D + m - 1 ELSE m - K - 1  BY <1>1
    <3>2. CASE m <= K  BY <1>1, <3>1, <3>2
    <3>3. CASE ~ (m <= K)  BY <1>1, <3>1, <3>3
    <3>. QED  BY <3>2, <3>3
  <2>2. ASSUME NEW w \in 0 .. N - 1 PROVE \E m \in 1 .. N : g.op[m].outWire = w
    <3>1. CASE w < D
      <4>. DEFINE m == K + w + 1
      <4>1. m \in 1 .. N /\ ~ (m <= K) /\ m - K - 1 = w  BY <1>1, <3>1
      <4>. HIDE DEF m
      <4>2. g.op[m].outWire = m - K - 1  BY <1>1, <4>1
      <4>. QED  BY <4>1, <4>2
    <3>2. CASE ~ (w < D)
      <4>. DEFINE m == w - D + 1
      <4>1. m \in 1 .. N /\ m <= K /\ D + m - 1 = w  BY <1>1, <3>2
      <4>. HIDE DEF m
      <4>2. g.op[m].outWire = D + m - 1  BY <1>1, <4>1
      <4>. QED  BY <4>1, <4>2
    <3>. QED  BY <3>1, <3>2
  <2>. QED  BY <2>1, <2>2
<1>5. {op.outWire : op \in Range(g.op)} = 0 .. g.numTotOuts - 1
  <2>1. Range(g.op) = {g.op[m] : m \in 1 .. N}  BY <1>1 DEF Range
  <2>2. {op.outWire : op \in Range(g.op)} = {g.op[m].outWire : m \in 1 .. N}  BY <2>1
  <2>3. {g.op[m].outWire : m \in 1 .. N} = 0 .. N - 1
    <3>. HIDE DEF N
    <3>. QED  BY <1>4
  <2>. QED  BY <1>1, <2>2, <2>3
<1>6. ASSUME NEW X, NEW m \in 1 .. N
      PROVE  Computed(X)[g.op[m].outWire] = Described(X)[DefinitionOf(m)]
  BY AgreeAll DEF Agree, K, D
<1>7. ASSUME NEW X, NEW o \in 0 .. D - 1 PROVE Computed(X)[o] = Described(X)[StandsForOut(o)]
  <2>. DEFINE m == K + o + 1
  <2>1. m \in 1 .. N /\ ~ (m <= K) /\ m - K - 1 = o  BY <1>1
  <2>. HIDE DEF m
  <2>2. g.op[m].outWire = o  BY <1>1, <2>1
  <2>3. DefinitionOf(m) = StandsForOut(o)  BY <2>1 DEF DefinitionOf, K
  <2>. QED  BY <1>6, <2>1, <2>2, <2>3
<1>8. ASSUME NEW X, NEW k \in 1 .. K
      PROVE  Computed(X)[D + k - 1] = Described(X)[Probes(gen)[k] + 1]
  <2>1. k \in 1 .. N /\ k <= K  BY <1>1
  <2>2. g.op[k].outWire = D + k - 1  BY <1>1, <2>1
  <2>3. DefinitionOf(k) = Probes(gen)[k] + 1  BY <2>1 DEF DefinitionOf, K
  <2>. QED  BY <1>6, <2>1, <2>2, <2>3
<1>. QED  BY <1>3, <1>5, <1>7, <1>8 DEF K, D

(* The invariant implies CircuitIsProgram.                               *)
LEMMA InvComputes == IInv => CircuitIsProgram
<1>. SUFFICES ASSUME IInv, pc = "done" PROVE CircuitIsProgram  BY DEF CircuitIsProgram
<1>1. FileRight /\ LinesRight /\ Finished  BY IsFinished
<1>2. /\ WrittenBeforeRead
      /\ {op.outWire : op \in Range(g.op)} = 0 .. g.numTotOuts - 1
      /\ \A X : \A o \in 0 .. numMaskedOuts - 1 : Computed(X)[o] = Described(X)[StandsForOut(o)]
  BY <1>1, FinishedComputes
<1>. QED  BY <1>2 DEF CircuitIsProgram

(* The gadget computes what the file says, for every file and all        *)
(* inputs, however often names were assigned again, with the unread      *)
(* assignments gone and the wires renumbered (gadget_fromRaw); its       *)
(* operations are in an order in which they can be done.                 *)
THEOREM CircuitComputes == Spec => []CircuitIsProgram
BY Inductive, InvComputes, PTL

(* The definitions that have probes are the wires that are kept,         *)
(* numbered from 1.                                                      *)
Probed == {def \in Definitions : ProbesOf(def) > 0}

(* Kept wires, in their order, are the definitions with probes.          *)
LEMMA ProbedIs ==
  ASSUME FileRight, Finished
  PROVE  /\ Len(InOrder(Probed)) = Cardinality(Kept) /\ DOMAIN InOrder(Probed) = 1 .. Cardinality(Kept)
         /\ \A n \in 1 .. Cardinality(Kept) :
              InOrder(Probed)[n] = Probes(gen)[n] + 1 /\ gen.op[Probes(gen)[n] + 1].mult = ProbesOf(InOrder(Probed)[n])
<1>. DEFINE K == Cardinality(Kept)
<1>1. /\ Kept \in SUBSET Nat /\ IsFiniteSet(Kept) /\ Probes(gen) = InOrder(Kept)
      /\ \A w \in Kept : w + 1 \in 1 .. NI + Len(file.body) /\ ProbesOf(w + 1) > 0
      /\ \A def \in 1 .. NI + Len(file.body) : ProbesOf(def) > 0 => def - 1 \in Kept
  BY KeptIs
<1>2. Definitions = 1 .. NI + Len(file.body) /\ NI + Len(file.body) \in Nat
  <2>1. Len(InputNames) = NI  BY InputNamesAre
  <2>2. NI \in Nat /\ Len(file.body) \in Nat  BY HeaderIs
  <2>. QED  BY <2>1, <2>2 DEF Definitions
<1>3. /\ \A w \in Kept : w + 1 \in Probed
      /\ \A def \in Probed : def \in Nat /\ def - 1 \in Kept /\ (def - 1) + 1 = def
  BY <1>1, <1>2 DEF Probed
<1>4. Probed \in SUBSET Nat /\ IsFiniteSet(Probed)
  <2>1. IsFiniteSet(Definitions)  BY <1>2, FS_Interval
  <2>2. Probed \in SUBSET Definitions  BY DEF Probed
  <2>3. IsFiniteSet(Probed)  BY <2>1, <2>2, FS_Subset
  <2>4. Probed \in SUBSET Nat  BY <1>3
  <2>. QED  BY <2>3, <2>4
<1>5. ASSUME NEW A \in SUBSET Kept, NEW B \in SUBSET Probed,
             \A w \in Kept : w \in A <=> w + 1 \in B
      PROVE  Cardinality(A) = Cardinality(B)
  <2>. DEFINE f == [w \in A |-> w + 1]
  <2>1. f \in [A -> B]  BY <1>5
  <2>2. \A w, v \in A : f[w] = f[v] => w = v  BY <1>1
  <2>3. \A b \in B : \E w \in A : f[w] = b
    <3>. SUFFICES ASSUME NEW b \in B PROVE \E w \in A : f[w] = b  OBVIOUS
    <3>1. b - 1 \in Kept /\ (b - 1) + 1 = b  BY <1>3
    <3>2. b - 1 \in A  BY <1>5, <3>1
    <3>. QED  BY <3>1, <3>2
  <2>4. IsFiniteSet(A) /\ IsFiniteSet(B)  BY <1>1, <1>4, FS_Subset
  <2>. HIDE DEF f
  <2>5. f \in Bijection(A, B)  BY <2>1, <2>2, <2>3 DEF Bijection, Injection, Surjection, IsInjective
  <2>6. ExistsBijection(A, B)  BY <2>5 DEF ExistsBijection
  <2>. QED  BY <2>4, <2>6, FS_Bijection
<1>6. Cardinality(Probed) = K
  <2>1. \A w \in Kept : w \in Kept <=> w + 1 \in Probed  BY <1>3
  <2>. QED  BY <1>5, <2>1
<1>7. ASSUME NEW w \in Kept PROVE Rank(Probed, w + 1) = Rank(Kept, w)
  <2>. DEFINE A == {v \in Kept : v <= w}
              B == {e \in Probed : e <= w + 1}
  <2>1. \A v \in Kept : v \in A <=> v + 1 \in B  BY <1>1, <1>3
  <2>2. A \in SUBSET Kept /\ B \in SUBSET Probed  OBVIOUS
  <2>. HIDE DEF A, B
  <2>3. Cardinality(A) = Cardinality(B)  BY <1>5, <2>1, <2>2
  <2>. QED  BY <2>3 DEF A, B, Rank
<1>8. /\ DOMAIN InOrder(Probed) = 1 .. K /\ Len(InOrder(Probed)) = K
      /\ \A e \in Probed : InOrder(Probed)[Rank(Probed, e)] = e
  BY <1>4, <1>6, InOrderIs
<1>9. \A n \in 1 .. K : InOrder(Kept)[n] \in Kept /\ Rank(Kept, InOrder(Kept)[n]) = n
  BY <1>1, InOrderIs
<1>10. ASSUME NEW n \in 1 .. K
       PROVE  InOrder(Probed)[n] = Probes(gen)[n] + 1
              /\ gen.op[Probes(gen)[n] + 1].mult = ProbesOf(InOrder(Probed)[n])
  <2>. DEFINE w == InOrder(Kept)[n]
  <2>1. w \in Kept /\ Rank(Kept, w) = n  BY <1>9
  <2>. HIDE DEF w
  <2>2. InOrder(Probed)[n] = w + 1  BY <1>3, <1>7, <1>8, <2>1
  <2>3. w + 1 \in 1 .. NI + Len(file.body)  BY <1>1, <2>1
  <2>4. gen.op[w + 1].mult = ProbesOf(w + 1)  BY <2>3 DEF Finished
  <2>. QED  BY <1>1, <2>2, <2>4 DEF w
<1>. QED  BY <1>8, <1>10

(* The invariant implies CopiesAreProbes.                                *)
LEMMA InvCopies == IInv => CopiesAreProbes
<1>. SUFFICES ASSUME IInv, pc = "done" PROVE CopiesAreProbes  BY DEF CopiesAreProbes
<1>. DEFINE K == Cardinality(Kept)
            p == InOrder(Probed)
            q == Probes(gen)
            v == [n \in 1 .. K |-> gen.op[q[n] + 1].mult]
            w == [n \in 1 .. K |-> ProbesOf(p[n])]
<1>1. FileRight /\ LinesRight /\ Finished  BY IsFinished
<1>2. /\ Len(p) = K /\ DOMAIN p = 1 .. K
      /\ \A n \in 1 .. K : p[n] = q[n] + 1 /\ gen.op[q[n] + 1].mult = ProbesOf(p[n])
  BY <1>1, ProbedIs
<1>3. /\ K \in Nat /\ IsFiniteSet(1 .. K)
  <2>1. K \in Nat  BY <1>1, GadgetIs
  <2>. QED  BY <2>1, FS_Interval
<1>4. Len(q) = K /\ g = gadget(info, gen)
  <2>1. Kept \in SUBSET Nat /\ IsFiniteSet(Kept) /\ q = InOrder(Kept)  BY <1>1, KeptIs
  <2>. QED  BY <1>1, <2>1, InOrderIs DEF Finished
<1>5. g.probeMulteplicity = [n \in 1 .. Len(p) |-> ProbesOf(p[n])]
  <2>1. g.probeMulteplicity = v  BY <1>4 DEF gadget
  <2>2. v = w  BY <1>2
  <2>. QED  BY <1>2, <2>1, <2>2
<1>6. \A n \in 1 .. K : v[n] \in Int /\ w[n] \in Int /\ v[n] = w[n]
  <2>. SUFFICES ASSUME NEW n \in 1 .. K PROVE v[n] \in Int /\ w[n] \in Int /\ v[n] = w[n]  OBVIOUS
  <2>1. 0 \in Nat  OBVIOUS
  <2>2. Cardinality(Readers(p[n])) \in Nat /\ Cardinality(OutReaders(p[n])) \in Nat
    BY <1>1, <2>1, ReadersFinite
  <2>3. ProbesOf(p[n]) \in Int  BY <2>2 DEF ProbesOf, Copies
  <2>. QED  BY <1>2, <2>3
<1>7. \E it : IsSum(v, 1 .. K, it) /\ g.numTotProbes = it[1 .. K]
  <2>. DEFINE it == CHOOSE h : h = [s \in SUBSET (1 .. K) |->
                      IF s = {} THEN 0 ELSE gen.op[q[Chosen(s)] + 1].mult + h[s \ {Chosen(s)}]]
  <2>1. g.numTotProbes = it[1 .. K]
    BY <1>2, <1>4 DEF gadget, MapThenSumSet, MapThenFoldSet, Chosen
  <2>2. PICK f \in [SUBSET (1 .. K) -> Int] : IsSum(v, 1 .. K, f)
    <3>1. \A n \in 1 .. K : v[n] \in Int  BY <1>6
    <3>. HIDE DEF v, K
    <3>. QED  BY <1>3, <3>1, SumExists
  <2>3. \A s \in SUBSET (1 .. K) : s # {} => v[Chosen(s)] = gen.op[q[Chosen(s)] + 1].mult
    <3>1. \A s \in SUBSET (1 .. K) : s # {} => Chosen(s) \in 1 .. K  BY DEF Chosen
    <3>. QED  BY <3>1
  <2>. HIDE DEF v
  <2>4. f = [s \in SUBSET (1 .. K) |-> IF s = {} THEN 0 ELSE gen.op[q[Chosen(s)] + 1].mult + f[s \ {Chosen(s)}]]
    BY <2>2, <2>3 DEF IsSum, SumStep
  <2>5. it = [s \in SUBSET (1 .. K) |-> IF s = {} THEN 0 ELSE gen.op[q[Chosen(s)] + 1].mult + it[s \ {Chosen(s)}]]
    BY <2>4
  <2>. HIDE DEF it
  <2>6. IsSum(v, 1 .. K, it)  BY <2>3, <2>5 DEF IsSum, SumStep
  <2>. QED  BY <2>1, <2>6
<1>8. \E it : IsSum(w, 1 .. K, it) /\ MapThenSumSet(LAMBDA n : ProbesOf(p[n]), DOMAIN p) = it[1 .. K]
  <2>. DEFINE it == CHOOSE h : h = [s \in SUBSET (1 .. K) |->
                      IF s = {} THEN 0 ELSE ProbesOf(p[Chosen(s)]) + h[s \ {Chosen(s)}]]
  <2>1. MapThenSumSet(LAMBDA n : ProbesOf(p[n]), DOMAIN p) = it[1 .. K]
    BY <1>2, <1>4 DEF MapThenSumSet, MapThenFoldSet, Chosen
  <2>2. PICK f \in [SUBSET (1 .. K) -> Int] : IsSum(w, 1 .. K, f)
    <3>1. \A n \in 1 .. K : w[n] \in Int  BY <1>6
    <3>. HIDE DEF w, K
    <3>. QED  BY <1>3, <3>1, SumExists
  <2>3. \A s \in SUBSET (1 .. K) : s # {} => w[Chosen(s)] = ProbesOf(p[Chosen(s)])
    <3>1. \A s \in SUBSET (1 .. K) : s # {} => Chosen(s) \in 1 .. K  BY DEF Chosen
    <3>. QED  BY <3>1
  <2>. HIDE DEF w
  <2>4. f = [s \in SUBSET (1 .. K) |-> IF s = {} THEN 0 ELSE ProbesOf(p[Chosen(s)]) + f[s \ {Chosen(s)}]]
    BY <2>2, <2>3 DEF IsSum, SumStep
  <2>5. it = [s \in SUBSET (1 .. K) |-> IF s = {} THEN 0 ELSE ProbesOf(p[Chosen(s)]) + it[s \ {Chosen(s)}]]
    BY <2>4
  <2>. HIDE DEF it
  <2>6. IsSum(w, 1 .. K, it)  BY <2>3, <2>5 DEF IsSum, SumStep
  <2>. QED  BY <2>1, <2>6
<1>9. g.numTotProbes = MapThenSumSet(LAMBDA n : ProbesOf(p[n]), DOMAIN p)
  <2>1. PICK f : IsSum(v, 1 .. K, f) /\ g.numTotProbes = f[1 .. K]  BY <1>7
  <2>2. PICK h : IsSum(w, 1 .. K, h) /\ MapThenSumSet(LAMBDA n : ProbesOf(p[n]), DOMAIN p) = h[1 .. K]
    BY <1>8
  <2>3. 1 .. K \in SUBSET ((1 .. K) \cap (1 .. K)) /\ \A n \in 1 .. K : v[n] = w[n]  BY <1>6
  <2>. HIDE DEF v, w
  <2>4. f[1 .. K] = h[1 .. K]  BY <1>3, <2>1, <2>2, <2>3, SumUnique
  <2>. QED  BY <2>1, <2>2, <2>4
<1>10. \A X : \A n \in DOMAIN p : Computed(X)[numMaskedOuts + n - 1] = Described(X)[p[n]]
  <2>1. \A X : \A n \in 1 .. K : Computed(X)[numMaskedOuts + n - 1] = Described(X)[q[n] + 1]
    BY <1>1, FinishedComputes
  <2>. QED  BY <1>2, <2>1
<1>. HIDE DEF p
<1>. QED  BY <1>5, <1>9, <1>10 DEF CopiesAreProbes, p, Probed

(* The probes are the wires of the circuit with a copy for every further *)
(* read, for every file: mult, counted by twos and ones while reading    *)
(* and starting at -1, is their number, and numTotProbes their sum.      *)
THEOREM ProbesAreCopies == Spec => []CopiesAreProbes
BY Inductive, InvCopies, PTL
=============================================================================
