------------------------------ MODULE HashMap -------------------------------
(***************************************************************************)
(* hashMap.c: an open addressed hash table that hands out its full hashes  *)
(* as permanent handles.  A key is tried at HASHMAP_HASH_ATTEMPTS runs of  *)
(* CONTIGUOUS (2^HASHMAP_CONTIGUOUS_BITS) consecutive full hashes; a full  *)
(* hash is reduced to a slot of the table by its low bits, slot 0 is never *)
(* used, and a table with no room at any probe of a key is doubled.        *)
(*                                                                         *)
(* The table remembers which slots are used in one of two ways, fixed when *)
(* it is created: by the full hash of each slot (saveHash), or by a bit   *)
(* per slot; in the second the full hash of a stored key must be found     *)
(* again by probing when the table is doubled.                             *)
(***************************************************************************)
EXTENDS Naturals, FiniteSets

CONSTANTS
  Key, Value,             \* the byte strings of size_k and size_v
  NoEntry,                \* the content of a slot just calloc'ed
  HASHMAP_HASH_ATTEMPTS,
  CONTIGUOUS,             \* 2^HASHMAP_CONTIGUOUS_BITS
  INITIAL_ELEM,           \* 2^HASHMAP_INITIAL_BITS
  HASH_SPACE,             \* 2^HASH_WIDTH: full hashes are 0 .. HASH_SPACE-1
  MAX_ELEM,               \* bound: mem_calloc fails for a larger table
  SaveHash,               \* the storages that tables may have
  HashFns                 \* the functions hash_calculate may be

Attempt == 0 .. HASHMAP_HASH_ATTEMPTS - 1
Hash    == 0 .. HASH_SPACE - 1
Entry   == [key : Key, value : Value]

ASSUME SizesAssumption ==
  /\ HASHMAP_HASH_ATTEMPTS \in Nat
  /\ CONTIGUOUS \in Nat \ {0}
  /\ INITIAL_ELEM \in Nat \ {0}
  /\ HASH_SPACE \in Nat \ {0}
  /\ MAX_ELEM \in Nat
  /\ SaveHash \subseteq BOOLEAN
(* Runs of CONTIGUOUS hashes, all of one width: the last run does not wrap. *)
ASSUME AlignedAssumption == HASH_SPACE % CONTIGUOUS = 0
ASSUME HashAssumption == HashFns \subseteq [Key -> [Attempt -> Hash]]
ASSUME NoEntryAssumption == NoEntry \notin Entry

VARIABLES
  saveHash,        \* which storage this table has, constant
  hash_calculate,  \* the hash function of this build, constant
  num_elem,        \* number of slots, slot 0 included
  hashes,          \* saveHash: full hash of each slot, 0 if it is free
  isPresent,       \* ~saveHash: the set of used slots
  table,           \* the key and value of each slot
  num_curr_elem,
  call,            \* the hashMap_set that is running, or "idle"
  issued           \* what callers hold: last handle returned for a key, or 0

tableVars == <<num_elem, hashes, isPresent, table, num_curr_elem>>
vars == <<saveHash, hash_calculate, tableVars, call, issued>>
-----------------------------------------------------------------------------
(***************************************************************************)
(* Probing.                                                                *)
(***************************************************************************)
Slot == 0 .. num_elem - 1

(* The positions of the two nested loops of hashMap_find, in their order.  *)
Probe == 0 .. HASHMAP_HASH_ATTEMPTS * CONTIGUOUS - 1

(* Mutant of It: the index is not reduced to the run.                      *)
It_Continues(k, p) == (hash_calculate[k][p \div CONTIGUOUS] \div CONTIGUOUS) * CONTIGUOUS + p

(* The full hash tried at probe p: the low bits of the hash of the attempt *)
(* are replaced by the index inside the run.                               *)
It(k, p) ==
  LET base == hash_calculate[k][p \div CONTIGUOUS]
  IN  (base \div CONTIGUOUS) * CONTIGUOUS + (p % CONTIGUOUS)

(* num_elem is a power of two: its low bits are the remainder.             *)
REDUCE_HASH(h) == h % num_elem

isUsedR(r) == IF saveHash THEN hashes[r] # 0 ELSE r \in isPresent

Used == {r \in Slot : r # 0 /\ isUsedR(r)}

(* Probe p of k hits k's own slot.                                         *)
Match(k, p) ==
  LET h == It(k, p)
      r == REDUCE_HASH(h)
  IN
  /\ r # 0
  /\ isUsedR(r)
  /\ saveHash => hashes[r] = h
  /\ table[r].key = k

(* Mutant of Free: the last slot of the table is passed over.              *)
Free_SkipLast(k, p) ==
  LET r == REDUCE_HASH(It(k, p)) IN r # 0 /\ r # num_elem - 1 /\ ~isUsedR(r)

(* Probe p of k hits a free slot that k may take.                          *)
Free(k, p) ==
  LET r == REDUCE_HASH(It(k, p)) IN r # 0 /\ ~isUsedR(r)

FirstMatch(k, p) == Match(k, p) /\ \A q \in Probe : q < p => ~Match(k, q)
FirstFree(k, p)  == Free(k, p)  /\ \A q \in Probe : q < p => ~Free(k, q)

(* Mutant of Contains: the search for a stored key stops at a free slot.   *)
Contains_StopAtEmpty(k) ==
  \E p \in Probe : Match(k, p) /\ \A q \in Probe : q < p => ~Free(k, q)

Contains(k) == \E p \in Probe : Match(k, p)

(* hashMap_getPos, and hashMap_find's result when the key is stored.       *)
GetPos(k) == It(k, CHOOSE p \in Probe : FirstMatch(k, p))

containsHashFast(h) ==
  LET r == REDUCE_HASH(h) IN
  IF saveHash THEN hashes[r] = h ELSE r \in isPresent

getHashOfPresent(r) == IF saveHash THEN hashes[r] ELSE GetPos(table[r].key)
-----------------------------------------------------------------------------
Idle == [op |-> "idle"]
Calls == [op : {"resize", "retry", "failed"}, key : Key, value : Value]

Init ==
  /\ saveHash \in SaveHash
  /\ hash_calculate \in HashFns
  /\ num_elem = INITIAL_ELEM
  /\ hashes = [r \in 0 .. INITIAL_ELEM - 1 |-> 0]
  /\ isPresent = {}
  /\ table = [r \in 0 .. INITIAL_ELEM - 1 |-> NoEntry]
  /\ num_curr_elem = 0
  /\ call = Idle
  /\ issued = [k \in Key |-> 0]

(* Write a new key in the free slot of full hash h, and return h.          *)
Store(k, v, h) ==
  LET r == REDUCE_HASH(h) IN
  /\ num_curr_elem' = num_curr_elem + 1
  /\ hashes' = IF saveHash THEN [hashes EXCEPT ![r] = h] ELSE hashes
  /\ isPresent' = IF saveHash THEN isPresent ELSE isPresent \cup {r}
  /\ table' = [table EXCEPT ![r] = [key |-> k, value |-> v]]
  /\ issued' = [issued EXCEPT ![k] = h]
  /\ call' = Idle
  /\ UNCHANGED <<saveHash, hash_calculate, num_elem>>

(* hashMap_set of a stored key.                                            *)
SetPresent(k, v) ==
  /\ call = Idle
  /\ Contains(k)
  /\ table' = [table EXCEPT ![REDUCE_HASH(GetPos(k))].value = v]
  /\ issued' = [issued EXCEPT ![k] = GetPos(k)]
  /\ UNCHANGED <<saveHash, hash_calculate, num_elem, hashes, isPresent, num_curr_elem, call>>

(* hashMap_set of a new key that has a free probe.                         *)
SetNew(k, v) ==
  /\ call = Idle
  /\ ~Contains(k)
  /\ \E p \in Probe : FirstFree(k, p) /\ Store(k, v, It(k, p))

(* hashMap_set of a new key all of whose probes are taken: enter the loop. *)
SetBlocked(k, v) ==
  /\ call = Idle
  /\ ~Contains(k)
  /\ \A p \in Probe : ~Free(k, p)
  /\ call' = [op |-> "resize", key |-> k, value |-> v]
  /\ UNCHANGED <<saveHash, hash_calculate, tableVars, issued>>

(* Mutant of MovesTo: the full hash is reduced by the old size.            *)
MovesTo_OldSize(s, n) == {r \in Used : getHashOfPresent(r) % (n \div 2) = s}

(* Mutant of MovesTo: the iteration over the old table stops one early.    *)
MovesTo_SkipLast(s, n) == {r \in Used \ {num_elem - 1} : getHashOfPresent(r) % n = s}

(* The used slots whose element goes to slot s of a table of n slots.      *)
MovesTo(s, n) == {r \in Used : getHashOfPresent(r) % n = s}

(* resize: the elements are moved in the order of their slots, so the last *)
(* one that is moved to a slot is the one that stays there.                *)
Last(S) == CHOOSE r \in S : \A q \in S : q <= r

(* Mutant of NewSize: the new table is as small as the old one.            *)
NewSize_Same == num_elem

NewSize == 2 * num_elem

Resize ==
  /\ call.op = "resize"
  /\ NewSize <= MAX_ELEM
  /\ LET n == NewSize
         new == 0 .. n - 1
         taken == {s \in new : MovesTo(s, n) # {}}
     IN  /\ num_elem' = n
         /\ table' = [s \in new |->
                        IF s \in taken THEN table[Last(MovesTo(s, n))] ELSE NoEntry]
         /\ hashes' = [s \in new |->
                        IF saveHash /\ s \in taken
                        THEN hashes[Last(MovesTo(s, n))] ELSE 0]
         /\ isPresent' = IF saveHash THEN isPresent ELSE taken
  /\ call' = [call EXCEPT !.op = "retry"]
  /\ UNCHANGED <<saveHash, hash_calculate, num_curr_elem, issued>>

(* The hashMap_find after a resize stops at the first free probe.          *)
RetryStore ==
  /\ call.op = "retry"
  /\ \E p \in Probe : /\ FirstFree(call.key, p)
                      /\ Store(call.key, call.value, It(call.key, p))

RetryBlocked ==
  /\ call.op = "retry"
  /\ \A p \in Probe : ~Free(call.key, p)
  /\ call' = [call EXCEPT !.op = "resize"]
  /\ UNCHANGED <<saveHash, hash_calculate, tableVars, issued>>

(* mem_calloc of the doubled table fails, and the program exits.           *)
AllocFail ==
  /\ call.op = "resize"
  /\ NewSize > MAX_ELEM
  /\ call' = [call EXCEPT !.op = "failed"]
  /\ UNCHANGED <<saveHash, hash_calculate, tableVars, issued>>

Exited == call.op = "failed" /\ UNCHANGED vars

Set(k, v) == SetPresent(k, v) \/ SetNew(k, v) \/ SetBlocked(k, v)
Loop == Resize \/ RetryStore \/ RetryBlocked \/ AllocFail

Next == (\E k \in Key, v \in Value : Set(k, v)) \/ Loop \/ Exited

(* A call that has started runs on: it is a loop of one thread.            *)
Spec == Init /\ [][Next]_vars /\ WF_vars(Loop)
-----------------------------------------------------------------------------
(* Types of the variables; the table's three arrays have one length.       *)
TypeOK ==
  /\ saveHash \in SaveHash
  /\ hash_calculate \in HashFns
  /\ num_elem \in Nat \ {0}
  /\ hashes \in [Slot -> Hash]
  /\ isPresent \subseteq Slot
  /\ table \in [Slot -> Entry \cup {NoEntry}]
  /\ num_curr_elem \in Nat
  /\ call \in {Idle} \cup Calls
  /\ issued \in [Key -> Hash]

Stored == {k \in Key : issued[k] # 0}

(***************************************************************************)
(* A handle that was ever returned for a key still leads to that key, in   *)
(* constant time and whatever was set and resized since (hashMap_getKey,   *)
(* as addCore_getNode and rowIndexedSet_getVal use it), and probing for    *)
(* the key still returns the same handle (hashMap_getPos, as               *)
(* rowHashed_hash uses it).  These are the assertions at the end of        *)
(* hashMap_set, for all the keys and at all times instead of the one key   *)
(* just set.                                                               *)
(***************************************************************************)
HandlesResolve ==
  \A k \in Stored :
    LET r == REDUCE_HASH(issued[k]) IN
    /\ r # 0
    /\ containsHashFast(issued[k])
    /\ table[r].key = k
    /\ Contains(k)
    /\ GetPos(k) = issued[k]

(* The table holds nothing but what was set, once each: num_curr_elem, the *)
(* used slots and the keys with a handle are as many (hashMap_find did not *)
(* miss a stored key, and resize lost and doubled none).                   *)
ExactlyTheStoredKeys ==
  /\ {table[r].key : r \in Used} = Stored
  /\ Cardinality(Used) = num_curr_elem
  /\ Cardinality(Stored) = num_curr_elem

(* The program gives up only when every probe of the key, at the largest   *)
(* table, is slot 0 or belongs to another key: hashMap_set grows the table *)
(* for no other reason, and does not pass over a free slot.                *)
FailsOnlyWhenBlocked ==
  call.op = "failed" =>
    \A a \in Attempt, i \in 0 .. CONTIGUOUS - 1 :
      LET base == hash_calculate[call.key][a]
          r == (base - (base % CONTIGUOUS) + i) % num_elem
      IN  r # 0 => \E k \in Stored \ {call.key} : issued[k] % num_elem = r

(* Every hashMap_set ends: the loop that doubles the table either finds    *)
(* room for the key or runs out of memory.                                 *)
SetReturns == (call.op \in {"resize", "retry"}) ~> (call.op \in {"idle", "failed"})

(* The dictionary that the table stands for, read through hashMap_getPos   *)
(* and hashMap_getValue.                                                   *)
dict == [k \in {table[r].key : r \in Used} |->
           LET h == GetPos(k) IN [hash |-> h, value |-> table[REDUCE_HASH(h)].value]]

Abs == INSTANCE Intern WITH Handle <- Hash \ {0}, dict <- dict

(* The table implements the dictionary of permanent, distinct handles:     *)
(* hashMap_set inserts or overwrites one key, and a resize changes nothing *)
(* that a caller can see.                                                  *)
ImplementsIntern == Abs!Spec
=============================================================================
