--------------------------- MODULE HashMap_proofs ---------------------------
(***************************************************************************)
(* The handles of hashMap.c are permanent: for every number of keys,       *)
(* values, attempts, widths and sizes, and every hash function.            *)
(*                                                                         *)
(* HandlesResolve is not inductive: that probing finds a stored key again  *)
(* says nothing of where a doubled table will hold it.  IInv adds, for     *)
(* every stored key, which slot it has (SlotsIssued, HandlesPlaced) and    *)
(* that no earlier probe of the key reduces to that slot (FirstReach).     *)
(* A table of bits finds a key at the first probe that reduces to its      *)
(* slot; it was stored at the first free one; and two hashes that differ   *)
(* in the low bits of one size still do in all larger sizes.               *)
(***************************************************************************)
EXTENDS HashMap, NumberLemmas

FirstReach(k) ==
  \E p \in Probe :
    /\ It(k, p) = issued[k]
    /\ \A q \in Probe : q < p => REDUCE_HASH(It(k, q)) # REDUCE_HASH(issued[k])

SlotsIssued ==
  \A r \in Used :
    /\ table[r] \in Entry
    /\ table[r].key \in Stored
    /\ REDUCE_HASH(issued[table[r].key]) = r
    /\ saveHash => hashes[r] = issued[table[r].key]

HandlesPlaced ==
  \A k \in Stored :
    /\ REDUCE_HASH(issued[k]) \in Used
    /\ table[REDUCE_HASH(issued[k])].key = k
    /\ FirstReach(k)

(* A key whose hashMap_set has not returned yet is not in the table, and   *)
(* the table is only doubled, or given up, when the key has no free probe. *)
PendingNew == call # Idle => call.key \notin Stored
PendingBlocked ==
  call.op \in {"resize", "failed"} => \A p \in Probe : ~Free(call.key, p)

IInv == TypeOK /\ SlotsIssued /\ HandlesPlaced /\ PendingNew /\ PendingBlocked

(* The dictionary, told by what the callers hold.                          *)
DictOfHandles ==
  dict = [k \in Stored |-> [hash |-> issued[k],
                            value |-> table[REDUCE_HASH(issued[k])].value]]
-----------------------------------------------------------------------------
(* A full hash is reduced to a slot of the table.                          *)
LEMMA ReduceType ==
  ASSUME TypeOK, NEW h \in Hash
  PROVE  REDUCE_HASH(h) \in Slot
<1>1. h \in Nat /\ num_elem \in Nat \ {0}  BY SizesAssumption DEF TypeOK, Hash
<1>2. h % num_elem \in 0 .. num_elem - 1  BY <1>1, DivMod
<1>. QED  BY <1>2 DEF REDUCE_HASH, Slot

(* Every probe tries a full hash of the width of the others.               *)
LEMMA ItType ==
  ASSUME TypeOK, NEW k \in Key, NEW p \in Probe
  PROVE  It(k, p) \in Hash
<1>. DEFINE a == p \div CONTIGUOUS
            base == hash_calculate[k][a]
<1>1. CONTIGUOUS \in Nat \ {0} /\ HASHMAP_HASH_ATTEMPTS \in Nat /\ HASH_SPACE \in Nat
  BY SizesAssumption
<1>2. a \in Attempt  BY <1>1, DivBound DEF Probe, Attempt
<1>3. base \in Hash  BY <1>2, HashAssumption DEF TypeOK
<1>4. HASHMAP_HASH_ATTEMPTS * CONTIGUOUS \in Nat  BY <1>1
<1>5. p \in Nat  BY <1>4 DEF Probe
<1>6. p % CONTIGUOUS \in 0 .. CONTIGUOUS - 1  BY <1>1, <1>5, DivMod
<1>. HIDE DEF base
<1>7. (base \div CONTIGUOUS) * CONTIGUOUS + (p % CONTIGUOUS) \in 0 .. HASH_SPACE - 1
  BY <1>1, <1>3, <1>6, AlignedAssumption, ReplaceLow DEF Hash
<1>. QED  BY <1>7 DEF It, Hash, base

(* What a caller's handle is worth while the invariant holds: probing for  *)
(* a key finds it exactly when it was stored, under its handle.            *)
LEMMA FindStored ==
  ASSUME IInv, NEW k \in Key
  PROVE  /\ Contains(k) <=> k \in Stored
         /\ k \in Stored => GetPos(k) = issued[k]
<1>. USE DEF IInv
<1>1. ASSUME Contains(k) PROVE k \in Stored
  <2>1. PICK p \in Probe : Match(k, p)  BY <1>1 DEF Contains
  <2>2. REDUCE_HASH(It(k, p)) \in Used  BY <2>1, ItType, ReduceType DEF Match, Used
  <2>. QED  BY <2>1, <2>2 DEF Match, SlotsIssued
<1>2. ASSUME k \in Stored
      PROVE  Contains(k) /\ GetPos(k) = issued[k]
  <2>. DEFINE r == REDUCE_HASH(issued[k])
  <2>1. /\ r \in Used
        /\ table[r].key = k
        /\ FirstReach(k)
    BY <1>2 DEF HandlesPlaced
  <2>2. saveHash => hashes[r] = issued[k]  BY <2>1 DEF SlotsIssued
  <2>3. PICK p \in Probe : /\ It(k, p) = issued[k]
                           /\ \A q \in Probe : q < p => REDUCE_HASH(It(k, q)) # r
    BY <2>1 DEF FirstReach
  <2>4. Match(k, p)  BY <2>1, <2>2, <2>3 DEF Match, Used
  <2>5. \A q \in Probe : Match(k, q) => REDUCE_HASH(It(k, q)) = r
    <3>. SUFFICES ASSUME NEW q \in Probe, Match(k, q)
                  PROVE  REDUCE_HASH(It(k, q)) = r
      OBVIOUS
    <3>1. REDUCE_HASH(It(k, q)) \in Used  BY ItType, ReduceType DEF Match, Used
    <3>. QED  BY <3>1 DEF Match, SlotsIssued
  <2>6. FirstMatch(k, p)  BY <2>3, <2>4, <2>5 DEF FirstMatch
  <2>. DEFINE c == CHOOSE q \in Probe : FirstMatch(k, q)
  <2>7. c \in Probe /\ FirstMatch(k, c)  BY <2>6
  <2>. HIDE DEF c
  <2>8. c = p
    <3>1. Probe \subseteq Nat  BY SizesAssumption DEF Probe
    <3>2. ~ (c < p) /\ ~ (p < c)  BY <2>4, <2>6, <2>7 DEF FirstMatch
    <3>. QED  BY <2>7, <3>1, <3>2
  <2>. QED  BY <2>3, <2>4, <2>8 DEF Contains, GetPos, c
<1>. QED  BY <1>1, <1>2
-----------------------------------------------------------------------------
(* The table that hashMap_new creates.                                     *)
LEMMA InitInv == Init => IInv
<1>. SUFFICES ASSUME Init PROVE IInv  OBVIOUS
<1>1. 0 \in Hash  BY SizesAssumption DEF Hash
<1>2. TypeOK  BY <1>1, SizesAssumption DEF Init, TypeOK, Slot, Idle
<1>3. Used = {}  BY DEF Init, Used, isUsedR, Slot
<1>4. Stored = {}  BY DEF Init, Stored
<1>. QED  BY <1>2, <1>3, <1>4
     DEF IInv, SlotsIssued, HandlesPlaced, PendingNew, PendingBlocked, Init, Idle

(* A new key is stored at its first free probe.                            *)
LEMMA StoreInv ==
  ASSUME IInv, NEW k \in Key, NEW v \in Value, NEW p \in Probe,
         k \notin Stored, FirstFree(k, p), Store(k, v, It(k, p))
  PROVE  /\ IInv'
         /\ It(k, p) \in Hash \ {0}
         /\ REDUCE_HASH(It(k, p)) \notin Used
         /\ Stored' = Stored \cup {k}
         /\ issued' = [issued EXCEPT ![k] = It(k, p)]
         /\ table'[REDUCE_HASH(It(k, p))].value = v
         /\ \A x \in Stored :
              table'[REDUCE_HASH(issued[x])] = table[REDUCE_HASH(issued[x])]
<1>. DEFINE h == It(k, p)
            r == REDUCE_HASH(h)
            e == [key |-> k, value |-> v]
<1>. USE DEF IInv
<1>1. h \in Hash /\ r \in Slot  BY ItType, ReduceType
<1>2. r # 0 /\ ~ isUsedR(r)  BY DEF FirstFree, Free
<1>3. h # 0
  <2>1. num_elem \in Nat \ {0}  BY DEF TypeOK
  <2>2. 0 % num_elem = 0  BY <2>1, ModUnique
  <2>. QED  BY <1>2, <2>2 DEF REDUCE_HASH
<1>4. e \in Entry /\ e.key = k  BY DEF Entry
<1>5. /\ num_elem' = num_elem
      /\ hash_calculate' = hash_calculate /\ saveHash' = saveHash
      /\ table' = [table EXCEPT ![r] = e]
      /\ issued' = [issued EXCEPT ![k] = h]
      /\ hashes' = IF saveHash THEN [hashes EXCEPT ![r] = h] ELSE hashes
      /\ isPresent' = IF saveHash THEN isPresent ELSE isPresent \cup {r}
      /\ call' = Idle
      /\ num_curr_elem' = num_curr_elem + 1
  BY DEF Store
<1>. HIDE DEF h, r, e
<1>6. Slot' = Slot /\ Probe' = Probe /\ Hash' = Hash
  BY <1>5 DEF Slot
<1>7. TypeOK'
  BY <1>1, <1>4, <1>5, <1>6 DEF TypeOK
<1>8. \A x : REDUCE_HASH(x)' = REDUCE_HASH(x)  BY <1>5 DEF REDUCE_HASH
<1>9. \A x, q : It(x, q)' = It(x, q)  BY <1>5 DEF It
<1>10. Used' = Used \cup {r}
  BY <1>1, <1>2, <1>3, <1>5, <1>6 DEF Used, isUsedR, TypeOK
<1>11. Stored' = Stored \cup {k} /\ \A x \in Stored : issued'[x] = issued[x]
  BY <1>1, <1>3, <1>5 DEF Stored, TypeOK
<1>12. /\ table'[r] = e
       /\ \A s \in Used : table'[s] = table[s]
  BY <1>1, <1>2, <1>5 DEF Used, TypeOK
<1>13. issued'[k] = h  BY <1>5 DEF TypeOK
<1>14. SlotsIssued'
  <2>. SUFFICES ASSUME NEW s \in Used'
                PROVE  /\ table'[s] \in Entry
                       /\ table'[s].key \in Stored'
                       /\ REDUCE_HASH(issued'[table'[s].key]) = s
                       /\ saveHash => hashes'[s] = issued'[table'[s].key]
    BY <1>5, <1>8 DEF SlotsIssued
  <2>1. CASE s = r
    BY <2>1, <1>1, <1>4, <1>5, <1>11, <1>12, <1>13 DEF TypeOK, r
  <2>2. CASE s \in Used /\ s # r
    <3>1. saveHash => hashes'[s] = hashes[s]  BY <2>2, <1>5 DEF TypeOK, Used
    <3>. QED  BY <2>2, <3>1, <1>11, <1>12 DEF SlotsIssued
  <2>. QED  BY <2>1, <2>2, <1>10
<1>15. HandlesPlaced'
  <2>. SUFFICES ASSUME NEW x \in Stored'
                PROVE  /\ REDUCE_HASH(issued'[x]) \in Used'
                       /\ table'[REDUCE_HASH(issued'[x])].key = x
                       /\ \E q \in Probe :
                            /\ It(x, q) = issued'[x]
                            /\ \A u \in Probe : u < q =>
                                 REDUCE_HASH(It(x, u)) # REDUCE_HASH(issued'[x])
    BY <1>6, <1>8, <1>9 DEF HandlesPlaced, FirstReach
  <2>1. CASE x = k
    <3>1. \A u \in Probe : u < p => REDUCE_HASH(It(k, u)) # r
      BY <1>2 DEF FirstFree, Free
    <3>. QED  BY <2>1, <3>1, <1>4, <1>10, <1>12, <1>13 DEF r, h
  <2>2. CASE x \in Stored /\ x # k
    BY <2>2, <1>10, <1>11, <1>12 DEF HandlesPlaced, FirstReach
  <2>. QED  BY <2>1, <2>2, <1>11
<1>16. PendingNew' /\ PendingBlocked'
  BY <1>5 DEF PendingNew, PendingBlocked, Idle
<1>17. table'[r].value = v  BY <1>12 DEF e
<1>18. \A x \in Stored :
         table'[REDUCE_HASH(issued[x])] = table[REDUCE_HASH(issued[x])]
  BY <1>12 DEF HandlesPlaced
<1>. QED  BY <1>1, <1>2, <1>3, <1>5, <1>7, <1>11, <1>14, <1>15, <1>16, <1>17, <1>18
          DEF Used, h, r

(* A stored key keeps its slot and its handle, only the value changes.     *)
LEMMA SetPresentInv ==
  ASSUME IInv, NEW k \in Key, NEW v \in Value, SetPresent(k, v)
  PROVE  /\ IInv'
         /\ k \in Stored
         /\ issued' = issued
         /\ table' = [table EXCEPT ![REDUCE_HASH(issued[k])].value = v]
<1>. DEFINE r == REDUCE_HASH(issued[k])
<1>. USE DEF IInv
<1>1. k \in Stored /\ GetPos(k) = issued[k]  BY FindStored DEF SetPresent
<1>2. r \in Used /\ table[r].key = k  BY <1>1 DEF HandlesPlaced
<1>3. /\ UNCHANGED <<saveHash, hash_calculate, num_elem, hashes, isPresent, num_curr_elem, call>>
      /\ table' = [table EXCEPT ![r].value = v]
      /\ issued' = [issued EXCEPT ![k] = issued[k]]
  BY <1>1 DEF SetPresent
<1>. HIDE DEF r
<1>4. issued' = issued  BY <1>3 DEF TypeOK
<1>5. r \in Slot /\ table[r] \in Entry  BY <1>2 DEF Used, SlotsIssued
<1>6. table'[r] = [table[r] EXCEPT !.value = v]  BY <1>3, <1>5 DEF TypeOK
<1>7. table'[r] \in Entry /\ table'[r].key = table[r].key
  BY <1>5, <1>6 DEF Entry
<1>8. \A s \in Slot : s # r => table'[s] = table[s]  BY <1>3 DEF TypeOK
<1>9. Slot' = Slot /\ Used' = Used /\ Probe' = Probe /\ Stored' = Stored
  BY <1>3, <1>4 DEF Slot, Used, isUsedR, Stored
<1>10. \A x : REDUCE_HASH(x)' = REDUCE_HASH(x)  BY <1>3 DEF REDUCE_HASH
<1>11. \A x, q : It(x, q)' = It(x, q)  BY <1>3 DEF It
<1>12. table' \in [Slot -> Entry \cup {NoEntry}]
  <2>1. table' = [s \in Slot |-> IF s = r THEN table'[r] ELSE table[s]]
    BY <1>3, <1>5 DEF TypeOK
  <2>. QED  BY <2>1, <1>7 DEF TypeOK
<1>13. TypeOK'  BY <1>3, <1>4, <1>9, <1>12 DEF TypeOK
<1>14. \A s \in Used : table'[s] \in Entry /\ table'[s].key = table[s].key
  BY <1>7, <1>8 DEF Used, SlotsIssued
<1>15. SlotsIssued'
  BY <1>3, <1>4, <1>9, <1>10, <1>14 DEF SlotsIssued
<1>16. HandlesPlaced'
  BY <1>4, <1>9, <1>10, <1>11, <1>14 DEF HandlesPlaced, FirstReach
<1>17. PendingNew' /\ PendingBlocked'
  BY <1>3 DEF PendingNew, PendingBlocked, SetPresent, Idle
<1>. QED  BY <1>1, <1>3, <1>4, <1>13, <1>15, <1>16, <1>17 DEF r

(* Doubling the table moves every element to a slot of its own, the one    *)
(* its handle reduces to, and no probe that was not its own comes first.   *)
LEMMA ResizeInv ==
  ASSUME IInv, Resize
  PROVE  /\ IInv'
         /\ \A k \in Stored : table'[REDUCE_HASH(issued[k])'] = table[REDUCE_HASH(issued[k])]
<1>. USE DEF IInv
<1>. DEFINE n == 2 * num_elem
            new == 0 .. n - 1
            taken == {s \in new : MovesTo(s, n) # {}}
<1>1. /\ num_elem' = n
      /\ table' = [s \in new |->
                     IF s \in taken THEN table[Last(MovesTo(s, n))] ELSE NoEntry]
      /\ hashes' = [s \in new |->
                      IF saveHash /\ s \in taken
                      THEN hashes[Last(MovesTo(s, n))] ELSE 0]
      /\ isPresent' = IF saveHash THEN isPresent ELSE taken
      /\ UNCHANGED <<saveHash, hash_calculate, num_curr_elem, issued>>
      /\ call' = [call EXCEPT !.op = "retry"]
      /\ call.op = "resize"
      /\ n = NewSize
  BY DEF Resize, NewSize
<1>2. num_elem \in Nat \ {0} /\ n \in Nat \ {0} /\ \A s \in new : s \in Nat
  BY DEF TypeOK
<1>3. \A h \in Hash : h % n \in new /\ (h % n) % num_elem = REDUCE_HASH(h)
  <2>. SUFFICES ASSUME NEW h \in Hash
                PROVE  h % n \in new /\ (h % n) % num_elem = REDUCE_HASH(h)
    OBVIOUS
  <2>1. h \in Nat  BY SizesAssumption DEF Hash
  <2>2. h % n \in new  BY <1>2, <2>1, DivMod
  <2>3. (h % n) % num_elem = h % num_elem  BY <1>2, <2>1, ModDouble
  <2>. QED  BY <2>2, <2>3 DEF REDUCE_HASH
<1>4. \A r \in Used : /\ getHashOfPresent(r) = issued[table[r].key]
                      /\ getHashOfPresent(r) \in Hash
  BY FindStored DEF getHashOfPresent, SlotsIssued, Stored, TypeOK
<1>. HIDE DEF n, new
<1>5. \A s, r : r \in MovesTo(s, n) =>
                  r \in Used /\ issued[table[r].key] % n = s /\ r = s % num_elem
  BY <1>3, <1>4 DEF MovesTo, SlotsIssued
<1>6. \A s : \A r \in MovesTo(s, n) : MovesTo(s, n) = {r} /\ Last(MovesTo(s, n)) = r
  <2>. SUFFICES ASSUME NEW s, NEW r \in MovesTo(s, n)
                PROVE  MovesTo(s, n) = {r} /\ Last(MovesTo(s, n)) = r
    OBVIOUS
  <2>1. MovesTo(s, n) = {r}  BY <1>5
  <2>2. r \in Nat  BY <1>2, <1>5 DEF Used, Slot
  <2>3. \A q \in {r} : r <= q /\ q <= r  BY <2>2
  <2>. QED  BY <2>1, <2>3 DEF Last
<1>7. ASSUME NEW r \in Used
      PROVE  LET s == issued[table[r].key] % n IN
             /\ s \in taken
             /\ s # 0
             /\ Last(MovesTo(s, n)) = r
  <2>. DEFINE s == issued[table[r].key] % n
  <2>1. issued[table[r].key] \in Hash  BY <1>4
  <2>2. s \in new /\ s % num_elem = r  BY <2>1, <1>3 DEF SlotsIssued
  <2>3. r \in MovesTo(s, n)  BY <1>4 DEF MovesTo
  <2>4. r # 0 /\ 0 % num_elem = 0  BY <1>2, ModUnique DEF Used
  <2>. QED  BY <1>6, <2>2, <2>3, <2>4
<1>8. \A s \in taken : \E r \in Used :
        /\ s = issued[table[r].key] % n
        /\ s # 0
        /\ Last(MovesTo(s, n)) = r
  BY <1>5, <1>7
<1>. HIDE DEF taken
<1>9. taken \subseteq new  BY DEF taken
<1>10. Slot' = new /\ Probe' = Probe /\ Stored' = Stored
  BY <1>1 DEF Slot, new, Stored
<1>11. \A h : REDUCE_HASH(h)' = h % n  BY <1>1 DEF REDUCE_HASH
<1>12. \A k, p : It(k, p)' = It(k, p)  BY <1>1 DEF It
<1>13. \A s \in taken :
         LET r == Last(MovesTo(s, n)) IN
         /\ r \in Used
         /\ s = issued[table[r].key] % n
         /\ table'[s] = table[r]
         /\ table'[s] \in Entry
         /\ saveHash => hashes'[s] = hashes[r] /\ hashes'[s] = issued[table[r].key]
         /\ saveHash => hashes'[s] \in Hash \ {0}
  <2>. SUFFICES ASSUME NEW s \in taken
                PROVE  LET r == Last(MovesTo(s, n)) IN
                       /\ r \in Used
                       /\ s = issued[table[r].key] % n
                       /\ table'[s] = table[r]
                       /\ table'[s] \in Entry
                       /\ saveHash => /\ hashes'[s] = hashes[r]
                                       /\ hashes'[s] = issued[table[r].key]
                       /\ saveHash => hashes'[s] \in Hash \ {0}
    OBVIOUS
  <2>. DEFINE r == Last(MovesTo(s, n))
  <2>1. r \in Used /\ s = issued[table[r].key] % n  BY <1>8
  <2>. HIDE DEF r
  <2>2. table'[s] = table[r] /\ (saveHash => hashes'[s] = hashes[r])
    BY <1>1, <1>9 DEF r
  <2>3. /\ table[r] \in Entry /\ table[r].key \in Stored
        /\ saveHash => hashes[r] = issued[table[r].key]
    BY <2>1 DEF SlotsIssued
  <2>4. issued[table[r].key] \in Hash \ {0}  BY <2>3 DEF Stored, TypeOK
  <2>. QED  BY <2>1, <2>2, <2>3, <2>4 DEF r
<1>14. TypeOK'
  <2>1. table' \in [new -> Entry \cup {NoEntry}]
    BY <1>1, <1>13
  <2>2. 0 \in Hash  BY SizesAssumption DEF Hash
  <2>3. hashes' \in [new -> Hash]
    BY <1>1, <1>13, <2>2
  <2>4. isPresent' \subseteq new
    <3>1. CASE ~ saveHash  BY <3>1, <1>1, <1>9
    <3>2. CASE saveHash
      <4>1. Slot \subseteq new  BY <1>2 DEF Slot, new, n
      <4>. QED  BY <3>2, <4>1, <1>1 DEF TypeOK
    <3>. QED  BY <3>1, <3>2
  <2>5. call' \in {Idle} \cup Calls
    BY <1>1 DEF TypeOK, Calls, Idle
  <2>. QED  BY <1>1, <1>2, <1>10, <2>1, <2>3, <2>4, <2>5 DEF TypeOK
<1>15. Used' = taken
  <2>1. \A s \in new : s # 0 /\ isUsedR(s)' <=> s \in taken
    BY <1>1, <1>8, <1>9, <1>13, SizesAssumption DEF isUsedR
  <2>. QED  BY <2>1, <1>9, <1>10 DEF Used
<1>16. SlotsIssued'
  BY <1>1, <1>10, <1>11, <1>13, <1>15 DEF SlotsIssued
<1>17. \A k \in Stored :
         /\ issued[k] % n \in taken
         /\ table'[issued[k] % n] = table[REDUCE_HASH(issued[k])]
  <2>. SUFFICES ASSUME NEW k \in Stored
                PROVE  /\ issued[k] % n \in taken
                       /\ table'[issued[k] % n] = table[REDUCE_HASH(issued[k])]
    OBVIOUS
  <2>. DEFINE r == REDUCE_HASH(issued[k])
  <2>1. r \in Used /\ table[r].key = k  BY DEF HandlesPlaced
  <2>. QED  BY <2>1, <1>7, <1>13
<1>18. HandlesPlaced'
  <2>. SUFFICES ASSUME NEW k \in Stored
                PROVE  \E p \in Probe :
                         /\ It(k, p) = issued[k]
                         /\ \A q \in Probe : q < p => It(k, q) % n # issued[k] % n
    BY <1>1, <1>10, <1>11, <1>12, <1>15, <1>17 DEF HandlesPlaced, FirstReach
  <2>1. PICK p \in Probe :
          /\ It(k, p) = issued[k]
          /\ \A q \in Probe : q < p => REDUCE_HASH(It(k, q)) # REDUCE_HASH(issued[k])
    BY DEF HandlesPlaced, FirstReach
  <2>2. \A q \in Probe : It(k, q) \in Hash  BY ItType DEF Stored
  <2>3. issued[k] \in Hash  BY DEF Stored, TypeOK
  <2>4. \A q \in Probe : It(k, q) % n = issued[k] % n =>
                           REDUCE_HASH(It(k, q)) = REDUCE_HASH(issued[k])
    BY <2>2, <2>3, <1>3
  <2>. QED  BY <2>1, <2>4
<1>19. PendingNew' /\ PendingBlocked'
  BY <1>1, <1>10 DEF PendingNew, PendingBlocked, TypeOK, Calls, Idle
<1>. QED  BY <1>1, <1>11, <1>14, <1>16, <1>17, <1>18, <1>19

(* Every step keeps the invariant.                                         *)
LEMMA NextInv ==
  ASSUME IInv, [Next]_vars
  PROVE  IInv'
<1>1. CASE \E k \in Key, v \in Value : Set(k, v)
  <2>. SUFFICES ASSUME NEW k \in Key, NEW v \in Value, Set(k, v) PROVE IInv'
    BY <1>1
  <2>1. CASE SetPresent(k, v)  BY <2>1, SetPresentInv
  <2>2. CASE SetNew(k, v)
    <3>1. k \notin Stored  BY <2>2, FindStored DEF SetNew
    <3>2. PICK p \in Probe : FirstFree(k, p) /\ Store(k, v, It(k, p))
      BY <2>2 DEF SetNew
    <3>. QED  BY <3>1, <3>2, StoreInv
  <2>3. CASE SetBlocked(k, v)
    <3>1. k \notin Stored  BY <2>3, FindStored DEF SetBlocked
    <3>2. call' = [op |-> "resize", key |-> k, value |-> v]  BY <2>3 DEF SetBlocked
    <3>3. UNCHANGED <<saveHash, hash_calculate, num_elem, hashes, isPresent, table,
                      num_curr_elem, issued>>
      BY <2>3 DEF SetBlocked, tableVars
    <3>4. \A p \in Probe : ~ Free(k, p)  BY <2>3 DEF SetBlocked
    <3>5. TypeOK'  BY <3>2, <3>3 DEF IInv, TypeOK, Calls, Slot
    <3>6. SlotsIssued' /\ HandlesPlaced'
      BY <3>3 DEF IInv, SlotsIssued, HandlesPlaced, FirstReach, Used, isUsedR,
                  Stored, Slot, REDUCE_HASH, It
    <3>7. PendingNew' /\ PendingBlocked'
      BY <3>1, <3>2, <3>3, <3>4
         DEF PendingNew, PendingBlocked, Stored, Free, It, REDUCE_HASH, isUsedR
    <3>. QED  BY <3>5, <3>6, <3>7 DEF IInv
  <2>. QED  BY <2>1, <2>2, <2>3 DEF Set
<1>2. CASE Resize  BY <1>2, ResizeInv
<1>3. CASE RetryStore
  <2>1. call \in Calls /\ call # Idle  BY <1>3 DEF RetryStore, IInv, TypeOK, Idle
  <2>2. call.key \in Key /\ call.value \in Value /\ call.key \notin Stored
    BY <2>1 DEF Calls, IInv, PendingNew
  <2>3. PICK p \in Probe : /\ FirstFree(call.key, p)
                           /\ Store(call.key, call.value, It(call.key, p))
    BY <1>3 DEF RetryStore
  <2>. QED  BY <2>2, <2>3, StoreInv
<1>4. CASE RetryBlocked \/ AllocFail
  <2>1. /\ call # Idle
        /\ call \in Calls
        /\ \A p \in Probe : ~ Free(call.key, p)
    BY <1>4 DEF RetryBlocked, AllocFail, IInv, PendingBlocked, TypeOK, Idle
  <2>2. /\ call' = [call EXCEPT !.op = "resize"] \/ call' = [call EXCEPT !.op = "failed"]
        /\ UNCHANGED <<saveHash, hash_calculate, num_elem, hashes, isPresent, table,
                       num_curr_elem, issued>>
    BY <1>4 DEF RetryBlocked, AllocFail, tableVars
  <2>3. call' \in Calls /\ call'.key = call.key  BY <2>1, <2>2 DEF Calls
  <2>4. TypeOK'  BY <2>2, <2>3 DEF IInv, TypeOK, Slot
  <2>5. SlotsIssued' /\ HandlesPlaced'
    BY <2>2 DEF IInv, SlotsIssued, HandlesPlaced, FirstReach, Used, isUsedR,
                Stored, Slot, REDUCE_HASH, It
  <2>6. PendingNew' /\ PendingBlocked'
    BY <2>1, <2>2, <2>3
       DEF IInv, PendingNew, PendingBlocked, Stored, Free, It, REDUCE_HASH, isUsedR
  <2>. QED  BY <2>4, <2>5, <2>6 DEF IInv
<1>5. CASE UNCHANGED vars
  BY <1>5 DEF vars, tableVars, IInv, TypeOK, SlotsIssued, HandlesPlaced, FirstReach,
              PendingNew, PendingBlocked, Used, isUsedR, Stored, Slot, REDUCE_HASH,
              It, Free
<1>. QED  BY <1>1, <1>2, <1>3, <1>4, <1>5 DEF Next, Loop, Exited

(* The inductive invariant holds throughout.                               *)
THEOREM Invariance == Spec => []IInv
<1>. QED  BY InitInv, NextInv, PTL DEF Spec

(* The three arrays of the table keep one length and hold what they should. *)
THEOREM TypeCorrect == Spec => []TypeOK
<1>1. IInv => TypeOK  BY DEF IInv
<1>. QED  BY <1>1, Invariance, PTL
-----------------------------------------------------------------------------
(* What IInv says of the handles at one moment.                            *)
LEMMA InvHandles == IInv => HandlesResolve
<1>. SUFFICES ASSUME IInv, NEW k \in Stored
              PROVE  LET r == REDUCE_HASH(issued[k]) IN
                     /\ r # 0
                     /\ containsHashFast(issued[k])
                     /\ table[r].key = k
                     /\ Contains(k)
                     /\ GetPos(k) = issued[k]
  BY DEF HandlesResolve
<1>1. k \in Key  BY DEF Stored
<1>2. Contains(k) /\ GetPos(k) = issued[k]  BY <1>1, FindStored
<1>3. REDUCE_HASH(issued[k]) \in Used /\ table[REDUCE_HASH(issued[k])].key = k
  BY DEF IInv, HandlesPlaced
<1>. QED  BY <1>2, <1>3 DEF IInv, SlotsIssued, Used, isUsedR, containsHashFast

(* Every handle ever returned leads to its key for as long as the table    *)
(* lives, and probing for the key returns it again.                        *)
THEOREM HandlesPermanent == Spec => []HandlesResolve
<1>. QED  BY InvHandles, Invariance, PTL

(* hashMap_set fails for no key that has a free probe at the last size.    *)
THEOREM NoEarlyFailure == Spec => []FailsOnlyWhenBlocked
<1>1. IInv => FailsOnlyWhenBlocked
  <2>. SUFFICES ASSUME IInv, call.op = "failed", NEW a \in Attempt,
                       NEW i \in 0 .. CONTIGUOUS - 1,
                       (hash_calculate[call.key][a] - (hash_calculate[call.key][a] % CONTIGUOUS) + i)
                         % num_elem # 0
                PROVE  \E k \in Stored \ {call.key} :
                         issued[k] % num_elem =
                           (hash_calculate[call.key][a] - (hash_calculate[call.key][a] % CONTIGUOUS) + i)
                             % num_elem
    BY DEF FailsOnlyWhenBlocked
  <2>. DEFINE base == hash_calculate[call.key][a]
              C == CONTIGUOUS
              p == C * a + i
  <2>1. C \in Nat \ {0} /\ a \in Nat /\ i \in Nat /\ HASHMAP_HASH_ATTEMPTS \in Nat
    BY SizesAssumption DEF Attempt
  <2>2. call # Idle /\ call \in Calls /\ call.key \in Key
    BY DEF IInv, TypeOK, Idle, Calls
  <2>3. base \in Nat  BY <2>2, HashAssumption, SizesAssumption DEF IInv, TypeOK, Hash
  <2>. HIDE DEF base
  <2>4. p \div C = a /\ p % C = i  BY <2>1, ModUnique
  <2>5. p \in Probe
    <3>1. a < HASHMAP_HASH_ATTEMPTS  BY <2>1 DEF Attempt
    <3>2. C * a + C <= C * HASHMAP_HASH_ATTEMPTS  BY <2>1, <3>1, MulMonotone
    <3>3. C * HASHMAP_HASH_ATTEMPTS = HASHMAP_HASH_ATTEMPTS * C  BY <2>1
    <3>4. C * a \in Nat /\ HASHMAP_HASH_ATTEMPTS * C \in Nat  BY <2>1
    <3>. QED  BY <2>1, <3>2, <3>3, <3>4 DEF Probe
  <2>6. It(call.key, p) = base - (base % C) + i
    <3>0. /\ base = C * (base \div C) + (base % C)
          /\ base \div C \in Nat
          /\ base % C \in 0 .. C - 1
      BY <2>1, <2>3, DivMod
    <3>1. base % C \in Nat  BY <2>1, <3>0
    <3>2. C * (base \div C) = (base \div C) * C  BY <2>1, <3>0
    <3>3. (base \div C) * C \in Nat  BY <2>1, <3>0
    <3>4. It(call.key, p) = (base \div C) * C + i  BY <2>4 DEF It, base
    <3>. QED  BY <2>1, <2>3, <3>0, <3>1, <3>2, <3>3, <3>4
  <2>. DEFINE r == REDUCE_HASH(It(call.key, p))
  <2>7. r # 0 /\ r \in Slot
    BY <2>2, <2>5, <2>6, ItType, ReduceType DEF IInv, REDUCE_HASH, base
  <2>8. isUsedR(r)  BY <2>5, <2>7 DEF IInv, PendingBlocked, Free
  <2>9. r \in Used  BY <2>7, <2>8 DEF Used
  <2>10. /\ table[r].key \in Stored
         /\ REDUCE_HASH(issued[table[r].key]) = r
    BY <2>9 DEF IInv, SlotsIssued
  <2>11. call.key \notin Stored  BY <2>2 DEF IInv, PendingNew
  <2>12. issued[table[r].key] % num_elem = (base - (base % C) + i) % num_elem
    BY <2>6, <2>10 DEF REDUCE_HASH
  <2>. QED  BY <2>10, <2>11, <2>12 DEF base
<1>. QED  BY <1>1, Invariance, PTL
-----------------------------------------------------------------------------
(* hashMap_getPos finds the handles, so the dictionary is that of handles.  *)
LEMMA DictView == IInv => DictOfHandles
<1>. SUFFICES ASSUME IInv PROVE DictOfHandles  OBVIOUS
<1>1. {table[r].key : r \in Used} = Stored
  BY DEF IInv, SlotsIssued, HandlesPlaced
<1>2. \A k \in Stored : GetPos(k) = issued[k]  BY FindStored DEF Stored
<1>. QED  BY <1>1, <1>2 DEF dict, DictOfHandles

(* Storing a new key inserts it under a handle no other key has.           *)
LEMMA StoreInserts ==
  ASSUME IInv, DictOfHandles, DictOfHandles',
         NEW k \in Key, NEW v \in Value, NEW p \in Probe,
         k \notin Stored, FirstFree(k, p), Store(k, v, It(k, p))
  PROVE  Abs!Insert(k, v)
<1>. DEFINE h == It(k, p)
<1>1. /\ h \in Hash \ {0}
      /\ REDUCE_HASH(h) \notin Used
      /\ Stored' = Stored \cup {k}
      /\ issued' = [issued EXCEPT ![k] = h]
      /\ table'[REDUCE_HASH(h)].value = v
      /\ \A x \in Stored :
           table'[REDUCE_HASH(issued[x])] = table[REDUCE_HASH(issued[x])]
  BY StoreInv
<1>. HIDE DEF h
<1>2. DOMAIN dict = Stored /\ \A x \in Stored : dict[x].hash = issued[x]
  BY DEF DictOfHandles
<1>3. h \in (Hash \ {0}) \ Abs!Bound
  <2>1. \A x \in Stored : issued[x] # h  BY <1>1 DEF IInv, HandlesPlaced
  <2>. QED  BY <1>1, <1>2, <2>1 DEF Abs!Bound
<1>4. \A x : REDUCE_HASH(x)' = REDUCE_HASH(x)
  BY DEF Store, REDUCE_HASH
<1>5. issued'[k] = h /\ \A x \in Stored : issued'[x] = issued[x]
  BY <1>1 DEF IInv, TypeOK
<1>6. dict' = [x \in DOMAIN dict \cup {k} |->
                 IF x = k THEN [hash |-> h, value |-> v] ELSE dict[x]]
  <2>1. dict' = [x \in Stored \cup {k} |->
                   [hash |-> issued'[x], value |-> table'[REDUCE_HASH(issued'[x])].value]]
    BY <1>1, <1>4 DEF DictOfHandles
  <2>2. \A x \in Stored : dict[x] = [hash |-> issued'[x],
                                     value |-> table'[REDUCE_HASH(issued'[x])].value]
    BY <1>1, <1>5 DEF DictOfHandles
  <2>. QED  BY <1>1, <1>2, <1>5, <2>1, <2>2
<1>. QED  BY <1>2, <1>3, <1>6 DEF Abs!Insert

(* Every step of the table is a step of the dictionary, or none.           *)
LEMMA StepSimulation ==
  ASSUME IInv, DictOfHandles, DictOfHandles', [Next]_vars
  PROVE  [Abs!Next]_dict
<1>1. ASSUME NEW k \in Key, NEW v \in Value, SetPresent(k, v)
      PROVE  Abs!Overwrite(k, v)
  <2>1. /\ k \in Stored
        /\ issued' = issued
        /\ table' = [table EXCEPT ![REDUCE_HASH(issued[k])].value = v]
    BY <1>1, SetPresentInv
  <2>2. \A x : REDUCE_HASH(x)' = REDUCE_HASH(x)
    BY <1>1 DEF SetPresent, REDUCE_HASH
  <2>3. Stored' = Stored  BY <2>1 DEF Stored
  <2>4. \A x \in Stored : REDUCE_HASH(issued[x]) \in Used
                          /\ table[REDUCE_HASH(issued[x])].key = x
    BY DEF IInv, HandlesPlaced
  <2>5. /\ table'[REDUCE_HASH(issued[k])].value = v
        /\ \A x \in Stored \ {k} :
             table'[REDUCE_HASH(issued[x])] = table[REDUCE_HASH(issued[x])]
    <3>1. REDUCE_HASH(issued[k]) \in Slot
          /\ table[REDUCE_HASH(issued[k])] \in Entry
      BY <2>1, <2>4 DEF Used, IInv, SlotsIssued
    <3>2. \A x \in Stored \ {k} : REDUCE_HASH(issued[x]) # REDUCE_HASH(issued[k])
      BY <2>1, <2>4
    <3>3. \A x \in Stored : REDUCE_HASH(issued[x]) \in Slot  BY <2>4 DEF Used
    <3>. QED  BY <2>1, <3>1, <3>2, <3>3 DEF IInv, TypeOK, Entry
  <2>6. dict' = [x \in Stored |->
                   [hash |-> issued[x], value |-> table'[REDUCE_HASH(issued[x])].value]]
    BY <2>1, <2>2, <2>3 DEF DictOfHandles
  <2>7. dict = [x \in Stored |->
                  [hash |-> issued[x], value |-> table[REDUCE_HASH(issued[x])].value]]
    BY DEF DictOfHandles
  <2>8. dict' = [dict EXCEPT ![k].value = v]
    BY <2>1, <2>5, <2>6, <2>7
  <2>. QED  BY <2>1, <2>7, <2>8 DEF Abs!Overwrite
<1>2. ASSUME NEW k \in Key, NEW v \in Value, SetNew(k, v)
      PROVE  Abs!Insert(k, v)
  <2>1. k \notin Stored  BY <1>2, FindStored DEF SetNew
  <2>2. PICK p \in Probe : FirstFree(k, p) /\ Store(k, v, It(k, p))
    BY <1>2 DEF SetNew
  <2>. QED  BY <2>1, <2>2, StoreInserts
<1>3. ASSUME RetryStore
      PROVE  \E k \in Key, v \in Value : Abs!Insert(k, v)
  <2>1. call.key \in Key /\ call.value \in Value /\ call.key \notin Stored
    BY <1>3 DEF RetryStore, IInv, TypeOK, Idle, Calls, PendingNew
  <2>2. PICK p \in Probe : /\ FirstFree(call.key, p)
                           /\ Store(call.key, call.value, It(call.key, p))
    BY <1>3 DEF RetryStore
  <2>. QED  BY <2>1, <2>2, StoreInserts
<1>4. ASSUME Resize PROVE dict' = dict
  <2>1. \A k \in Stored :
          table'[REDUCE_HASH(issued[k])'] = table[REDUCE_HASH(issued[k])]
    BY <1>4, ResizeInv
  <2>2. issued' = issued /\ Stored' = Stored  BY <1>4 DEF Resize, Stored
  <2>3. \A k \in Stored :
          table'[issued'[k] % num_elem'] = table[issued[k] % num_elem]
    BY <2>1 DEF REDUCE_HASH
  <2>. QED  BY <2>2, <2>3 DEF DictOfHandles, REDUCE_HASH
<1>5. ASSUME UNCHANGED <<saveHash, hash_calculate, tableVars, issued>>
      PROVE  dict' = dict
  BY <1>5 DEF tableVars, DictOfHandles, Stored, REDUCE_HASH
<1>. QED  BY <1>1, <1>2, <1>3, <1>4, <1>5
     DEF Next, Set, Loop, SetBlocked, RetryBlocked, AllocFail, Exited, vars, Abs!Next

(* hashMap.c implements the dictionary of permanent handles: resizes are   *)
(* invisible to the callers.                                               *)
THEOREM Refinement == Spec => ImplementsIntern
<1>1. Init => Abs!Init
  <2>. SUFFICES ASSUME Init PROVE Abs!Init  OBVIOUS
  <2>1. Stored = {} /\ DictOfHandles  BY InitInv, DictView DEF Init, Stored
  <2>2. dict = [k \in {} |-> [hash |-> k, value |-> k]]
    BY <2>1 DEF DictOfHandles
  <2>. QED  BY <2>2 DEF Abs!Init
<1>. QED  BY <1>1, Invariance, DictView, StepSimulation, PTL
     DEF Spec, ImplementsIntern, Abs!Spec
-----------------------------------------------------------------------------
(* num_curr_elem goes up exactly when a key is stored.                     *)
CountInv == IsFiniteSet(Stored) /\ Cardinality(Stored) = num_curr_elem

(* A value that is stored is one more used slot.                           *)
LEMMA CountStore ==
  ASSUME IInv, CountInv, NEW k \in Key, NEW v \in Value, NEW p \in Probe,
         k \notin Stored, FirstFree(k, p), Store(k, v, It(k, p))
  PROVE  CountInv'
<1>1. Stored' = Stored \cup {k}  BY StoreInv
<1>2. /\ IsFiniteSet(Stored \cup {k})
      /\ Cardinality(Stored \cup {k}) = Cardinality(Stored) + 1
  BY FS_AddElement DEF CountInv
<1>3. num_curr_elem' = num_curr_elem + 1  BY DEF Store
<1>. QED  BY <1>1, <1>2, <1>3 DEF CountInv

(* Every step keeps the count.                                             *)
LEMMA CountNext ==
  ASSUME IInv, CountInv, [Next]_vars
  PROVE  CountInv'
<1>1. ASSUME NEW k \in Key, NEW v \in Value, SetPresent(k, v)
      PROVE  CountInv'
  BY <1>1, SetPresentInv DEF CountInv, Stored, SetPresent
<1>2. ASSUME NEW k \in Key, NEW v \in Value, SetNew(k, v)
      PROVE  CountInv'
  <2>1. k \notin Stored  BY <1>2, FindStored DEF SetNew
  <2>2. PICK p \in Probe : FirstFree(k, p) /\ Store(k, v, It(k, p))
    BY <1>2 DEF SetNew
  <2>. QED  BY <2>1, <2>2, CountStore
<1>3. ASSUME RetryStore PROVE CountInv'
  <2>1. call.key \in Key /\ call.value \in Value /\ call.key \notin Stored
    BY <1>3 DEF RetryStore, IInv, TypeOK, Idle, Calls, PendingNew
  <2>2. PICK p \in Probe : /\ FirstFree(call.key, p)
                           /\ Store(call.key, call.value, It(call.key, p))
    BY <1>3 DEF RetryStore
  <2>. QED  BY <2>1, <2>2, CountStore
<1>4. ASSUME UNCHANGED <<num_curr_elem, issued>> PROVE CountInv'
  BY <1>4 DEF CountInv, Stored
<1>. QED  BY <1>1, <1>2, <1>3, <1>4
     DEF Next, Set, Loop, SetBlocked, Resize, RetryBlocked, AllocFail, Exited,
         vars, tableVars

(* Each stored key has one slot and each used slot a stored key, so the    *)
(* two are as many.                                                        *)
LEMMA CountSlots ==
  ASSUME IInv, CountInv
  PROVE  ExactlyTheStoredKeys
<1>. DEFINE f == [k \in Stored |-> REDUCE_HASH(issued[k])]
<1>1. \A k \in Stored : f[k] \in Used /\ table[f[k]].key = k
  BY DEF IInv, HandlesPlaced
<1>2. \A r \in Used : table[r].key \in Stored /\ f[table[r].key] = r
  BY DEF IInv, SlotsIssued
<1>3. f \in [Stored -> Used]  BY <1>1
<1>. HIDE DEF f
<1>4. f \in Bijection(Stored, Used)
  BY <1>1, <1>2, <1>3 DEF Bijection, Injection, Surjection, IsInjective
<1>5. Cardinality(Used) = Cardinality(Stored)
  BY <1>4, FS_Bijection DEF ExistsBijection, CountInv
<1>6. {table[r].key : r \in Used} = Stored  BY <1>1, <1>2
<1>. QED  BY <1>5, <1>6 DEF ExactlyTheStoredKeys, CountInv

(* The table holds what was set, once each: hashMap_find never misses a    *)
(* stored key and resize neither loses nor doubles one.                    *)
THEOREM NothingLostOrDoubled == Spec => []ExactlyTheStoredKeys
<1>1. Init => CountInv
  <2>1. Init => Stored = {} /\ num_curr_elem = 0  BY DEF Init, Stored
  <2>. QED  BY <2>1, FS_EmptySet DEF CountInv
<1>. QED  BY <1>1, CountNext, CountSlots, Invariance, PTL DEF Spec
=============================================================================
