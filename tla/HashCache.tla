----------------------------- MODULE HashCache ------------------------------
(***************************************************************************)
(* hashCache.c: a cache of results that threads share.  Every key has one  *)
(* bucket, a ring of HASHCACHE_WAYS entries; the buckets are split into    *)
(* parts, each with a mutex.  The clients are the calculations of addOp.h  *)
(* and bdd.c (ADDOP__CACHE_ADD, CACHE_SUM_ADD): look the key up, if it is  *)
(* missing calculate it by the same calculation on its sub-diagrams, with  *)
(* no lock held, and set it.  Two threads may calculate one key at once,   *)
(* and a result may be evicted between any two steps.                      *)
(***************************************************************************)
EXTENDS Integers, Sequences

CONSTANTS
  Thread,
  Key,            \* the nodes: what is cached
  Leaf,           \* the leaves: their result is known
  Sub,            \* the sequence of sub-diagrams of each node
  Value,
  Combine(_, _),  \* the result of a node, from those of its sub-diagrams
  Result,         \* the result of each node and leaf
  Split,          \* the parts of the table
  Bucket,
  BucketOf,       \* the bucket of each key: the low bits of its hash
  SplitOf,        \* the part of each bucket: the lowest of those bits
  HASHCACHE_WAYS,
  CALLS,          \* bound: calculations each thread starts
  NoEntry,        \* the bytes of an entry just calloc'ed
  None

ASSUME HashCacheAssumption ==
  /\ HASHCACHE_WAYS \in Nat \ {0}
  /\ CALLS \in Nat
  /\ Key \cap Leaf = {}
  /\ Sub \in [Key -> Seq(Key \cup Leaf)]
  /\ Result \in [Key \cup Leaf -> Value]
  /\ BucketOf \in [Key -> Bucket]
  /\ SplitOf \in [Bucket -> Split]
  /\ None \notin Thread
  /\ NoEntry \notin Key \cup Value
(* The calculation is a function of the diagram: nodes are never changed.  *)
ASSUME ResultAssumption ==
  \A k \in Key : Combine(k, [i \in 1 .. Len(Sub[k]) |-> Result[Sub[k][i]]]) = Result[k]

Way == 0 .. HASHCACHE_WAYS - 1
Entry == [key : Key, value : Value]

VARIABLES
  table,       \* the ring of each bucket
  next, size,  \* valInfo of each bucket
  mtx,         \* who holds the mutex of each part
  pc,
  stack,       \* each thread's calls: the diagram and the results of its subs
  ret,         \* the result that is being set or returned
  calls        \* calculations each thread has still to start

cacheVars == <<table, next, size>>
vars == <<cacheVars, mtx, pc, stack, ret, calls>>
-----------------------------------------------------------------------------
Top(t) == stack[t][Len(stack[t])]
MutexOf(t) == SplitOf[BucketOf[Top(t).p]]
Goto(t, l) == pc' = [pc EXCEPT ![t] = l]

(* Mutant of Hits: the scan stops one entry before the end.                *)
Hits_SkipLast(b, k) == {i \in Way : i < size[b] - 1 /\ table[b][i].key = k}

Hits(b, k) == {i \in Way : i < size[b] /\ table[b][i].key = k}
FirstHit(b, k) == CHOOSE i \in Hits(b, k) : \A j \in Hits(b, k) : i <= j

Init ==
  /\ table = [b \in Bucket |-> [i \in Way |-> [key |-> NoEntry, value |-> NoEntry]]]
  /\ next = [b \in Bucket |-> 0]
  /\ size = [b \in Bucket |-> 0]
  /\ mtx = [s \in Split |-> None]
  /\ pc = [t \in Thread |-> "idle"]
  /\ stack = [t \in Thread |-> <<>>]
  /\ ret = [t \in Thread |-> None]
  /\ calls = [t \in Thread |-> CALLS]

(* A calculation starts on some node.                                      *)
Start(t, k) ==
  /\ pc[t] = "idle"
  /\ calls[t] > 0
  /\ calls' = [calls EXCEPT ![t] = @ - 1]
  /\ stack' = [stack EXCEPT ![t] = <<[p |-> k, subs |-> <<>>]>>]
  /\ Goto(t, "enter")
  /\ UNCHANGED <<cacheVars, mtx, ret>>

EnterLeaf(t) ==
  /\ pc[t] = "enter"
  /\ Top(t).p \in Leaf
  /\ ret' = [ret EXCEPT ![t] = Result[Top(t).p]]
  /\ Goto(t, "return")
  /\ UNCHANGED <<cacheVars, mtx, stack, calls>>

EnterNode(t) ==
  /\ pc[t] = "enter"
  /\ Top(t).p \in Key
  /\ Goto(t, "getLock")
  /\ UNCHANGED <<cacheVars, mtx, stack, ret, calls>>

(* Mutant of CanLock: the mutex excludes no one.                           *)
CanLock_Always(t) == TRUE

CanLock(t) == mtx[MutexOf(t)] = None

(* hashCache_getValue and hashCache_set both start by taking the mutex.    *)
Lock(t) ==
  /\ pc[t] \in {"getLock", "setLock"}
  /\ CanLock(t)
  /\ mtx' = [mtx EXCEPT ![MutexOf(t)] = t]
  /\ Goto(t, IF pc[t] = "getLock" THEN "getScan" ELSE "setScan")
  /\ UNCHANGED <<cacheVars, stack, ret, calls>>

GetHit(t) ==
  LET k == Top(t).p
      b == BucketOf[k]
  IN  /\ pc[t] = "getScan"
      /\ Hits(b, k) # {}
      /\ ret' = [ret EXCEPT ![t] = table[b][FirstHit(b, k)].value]
      /\ Goto(t, "hitUnlock")
      /\ UNCHANGED <<cacheVars, mtx, stack, calls>>

GetMiss(t) ==
  /\ pc[t] = "getScan"
  /\ Hits(BucketOf[Top(t).p], Top(t).p) = {}
  /\ Goto(t, "missUnlock")
  /\ UNCHANGED <<cacheVars, mtx, stack, ret, calls>>

(* Every way out unlocks, then goes on.                                    *)
AfterUnlock == [hitUnlock |-> "return", missUnlock |-> "calculate",
                presentUnlock |-> "return", setUnlock |-> "return"]

(* Mutant of Unlock: one way out of hashCache_set keeps the mutex.         *)
Unlock_NotIfPresent(t) ==
  /\ pc[t] \in DOMAIN AfterUnlock
  /\ mtx' = IF pc[t] = "presentUnlock" THEN mtx ELSE [mtx EXCEPT ![MutexOf(t)] = None]
  /\ Goto(t, AfterUnlock[pc[t]])
  /\ UNCHANGED <<cacheVars, stack, ret, calls>>

Unlock(t) ==
  /\ pc[t] \in DOMAIN AfterUnlock
  /\ mtx' = [mtx EXCEPT ![MutexOf(t)] = None]
  /\ Goto(t, AfterUnlock[pc[t]])
  /\ UNCHANGED <<cacheVars, stack, ret, calls>>

(* The recursion of the calculation: one sub-diagram after the other.      *)
Recur(t) ==
  LET f == Top(t) IN
  /\ pc[t] = "calculate"
  /\ Len(f.subs) < Len(Sub[f.p])
  /\ stack' = [stack EXCEPT ![t] = Append(@, [p |-> Sub[f.p][Len(f.subs) + 1],
                                             subs |-> <<>>])]
  /\ Goto(t, "enter")
  /\ UNCHANGED <<cacheVars, mtx, ret, calls>>

Calculate(t) ==
  /\ pc[t] = "calculate"
  /\ Len(Top(t).subs) = Len(Sub[Top(t).p])
  /\ ret' = [ret EXCEPT ![t] = Combine(Top(t).p, Top(t).subs)]
  /\ Goto(t, "setLock")
  /\ UNCHANGED <<cacheVars, mtx, stack, calls>>

(* hashCache_set does nothing if another thread has set the key meanwhile. *)
SetPresent(t) ==
  /\ pc[t] = "setScan"
  /\ Hits(BucketOf[Top(t).p], Top(t).p) # {}
  /\ Goto(t, "presentUnlock")
  /\ UNCHANGED <<cacheVars, mtx, stack, ret, calls>>

(* Otherwise it writes the key, then the value, in the ring's next entry.  *)
SetKey(t) ==
  LET k == Top(t).p
      b == BucketOf[k]
  IN  /\ pc[t] = "setScan"
      /\ Hits(b, k) = {}
      /\ table' = [table EXCEPT ![b][next[b]].key = k]
      /\ Goto(t, "setValue")
      /\ UNCHANGED <<next, size, mtx, stack, ret, calls>>

(* Mutants of NextAfter: the ring has one entry more, or does not turn.    *)
NextAfter_OneMore(n) == (n + 1) % (HASHCACHE_WAYS + 1)
NextAfter_StaysAtEnd(n) == IF n + 1 < HASHCACHE_WAYS THEN n + 1 ELSE n

SizeAfter(n) == IF n + 1 <= HASHCACHE_WAYS THEN n + 1 ELSE HASHCACHE_WAYS
NextAfter(n) == (n + 1) % HASHCACHE_WAYS

SetValue(t) ==
  LET b == BucketOf[Top(t).p] IN
  /\ pc[t] = "setValue"
  /\ table' = [table EXCEPT ![b][next[b]].value = ret[t]]
  /\ next' = [next EXCEPT ![b] = NextAfter(@)]
  /\ size' = [size EXCEPT ![b] = SizeAfter(@)]
  /\ Goto(t, "setUnlock")
  /\ UNCHANGED <<mtx, stack, ret, calls>>

(* Return to the calculation of the diagram above, or to the caller.       *)
Return(t) ==
  LET n == Len(stack[t])
      rest == SubSeq(stack[t], 1, n - 1)
  IN  /\ pc[t] = "return"
      /\ IF n = 1
         THEN stack' = [stack EXCEPT ![t] = <<>>] /\ Goto(t, "idle")
         ELSE /\ stack' = [stack EXCEPT ![t] =
                             [rest EXCEPT ![n - 1].subs = Append(@, ret[t])]]
              /\ Goto(t, "calculate")
      /\ UNCHANGED <<cacheVars, mtx, ret, calls>>

Step(t) ==
  \/ EnterLeaf(t) \/ EnterNode(t) \/ Lock(t) \/ GetHit(t) \/ GetMiss(t) \/ Unlock(t)
  \/ Recur(t) \/ Calculate(t) \/ SetPresent(t) \/ SetKey(t) \/ SetValue(t) \/ Return(t)

Next == \E t \in Thread : Step(t) \/ \E k \in Key : Start(t, k)

(* A running thread goes on.  That is enough for its wait for a mutex too: *)
(* the calculations are finite, and so are the times others overtake it.   *)
Fairness == \A t \in Thread : WF_vars(Step(t))

Spec == Init /\ [][Next]_vars /\ Fairness
-----------------------------------------------------------------------------
(* Types of the variables.                                                 *)
TypeOK ==
  /\ table \in [Bucket -> [Way -> [key : Key \cup {NoEntry}, value : Value \cup {NoEntry}]]]
  /\ next \in [Bucket -> Way]
  /\ size \in [Bucket -> 0 .. HASHCACHE_WAYS]
  /\ mtx \in [Split -> Thread \cup {None}]
  /\ pc \in [Thread -> {"idle", "enter", "getLock", "getScan", "hitUnlock", "missUnlock",
                        "calculate", "setLock", "setScan", "presentUnlock", "setValue", "setUnlock", "return"}]
  /\ stack \in [Thread -> Seq([p : Key \cup Leaf, subs : Seq(Value)])]
  /\ ret \in [Thread -> Value \cup {None}]
  /\ calls \in [Thread -> 0 .. CALLS]

(* An entry is being written: by the holder of the mutex of its part.      *)
Writing(b) == \E t \in Thread : pc[t] = "setValue" /\ BucketOf[Top(t).p] = b

(* Whatever the threads did at once, an entry that a lookup may find has   *)
(* the result of its key, and no key is there twice.                       *)
EntriesRight ==
  \A b \in Bucket : ~Writing(b) =>
    \A i \in Way : i < size[b] =>
      LET e == table[b][i] IN
      /\ e \in Entry
      /\ BucketOf[e.key] = b
      /\ e.value = Result[e.key]
      /\ \A j \in Way : j < size[b] /\ table[b][j].key = e.key => i = j

(* Every calculation, and every one inside it, returns the result of its   *)
(* diagram, although its entries come and go while it runs.                *)
ReturnsResult ==
  \A t \in Thread : pc[t] \in {"return", "hitUnlock", "setLock"} => ret[t] = Result[Top(t).p]

(* The entries of a bucket, the oldest first.  The oldest of a full ring   *)
(* is gone once the next key is written over it.                           *)
RingOf(b) ==
  LET kept == IF Writing(b) /\ size[b] = HASHCACHE_WAYS THEN size[b] - 1 ELSE size[b]
  IN  [i \in 1 .. kept |-> table[b][(next[b] + HASHCACHE_WAYS - kept + i - 1) % HASHCACHE_WAYS]]

(* The ring is a first-in first-out memory: only the oldest entry of a     *)
(* full bucket goes, only a key that is not there comes, with its result.  *)
Abs == INSTANCE Fifo WITH fifo <- [b \in Bucket |-> RingOf(b)], WAYS <- HASHCACHE_WAYS
ImplementsFifo == Abs!Spec

(* A thread that started a calculation ends it, whatever is evicted.       *)
CalculationEnds == \A t \in Thread : pc[t] # "idle" ~> pc[t] = "idle"
=============================================================================
