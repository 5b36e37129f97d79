-------------------------- MODULE HashCache_proofs --------------------------
(***************************************************************************)
(* Proofs about HashCache.tla: every entry a lookup may find is right,     *)
(* every calculation returns the result of its diagram, and the ring is    *)
(* the first-in first-out memory of Fifo.tla.                              *)
(*                                                                         *)
(* None of these is inductive alone.  A calculation is right if the        *)
(* results it has collected are, and a result is collected in the right    *)
(* place if the call above still waits for it: that is StackRight.  A hit  *)
(* is right if the entries are, and if nobody is writing the one that is   *)
(* found: that needs HolderHasMutex.  And an entry stays right if, between *)
(* its two writes, its key is in no other place of the ring: that is       *)
(* WriterRight.  IInv is their conjunction.                                *)
(***************************************************************************)
EXTENDS HashCache, NumberLemmas, SequenceTheorems

(* Where a thread has a mutex, where its call is of a node, and where it   *)
(* has the result of its call.                                             *)
Holding ==
  {"getScan", "hitUnlock", "missUnlock", "setScan", "presentUnlock", "setValue", "setUnlock"}
AtNode == {"getLock", "calculate", "setLock"} \cup Holding
HasResult ==
  {"hitUnlock", "setLock", "setScan", "presentUnlock", "setValue", "setUnlock", "return"}

(* What a call has collected are the results of its first sub-diagrams.    *)
FrameRight(f) ==
  f.p \in Key =>
    /\ Len(f.subs) <= Len(Sub[f.p])
    /\ \A j \in 1 .. Len(f.subs) : f.subs[j] = Result[Sub[f.p][j]]

(* The next sub-diagram that the call f waits for is p.                    *)
Awaits(f, p) ==
  /\ f.p \in Key
  /\ Len(f.subs) < Len(Sub[f.p])
  /\ Sub[f.p][Len(f.subs) + 1] = p

(* A thread's calls are nested as the diagrams are, and its result is of   *)
(* the innermost of them.                                                  *)
StackRight(t) ==
  /\ pc[t] = "idle" <=> stack[t] = <<>>
  /\ \A n \in 1 .. Len(stack[t]) : FrameRight(stack[t][n])
  /\ \A n \in 1 .. Len(stack[t]) - 1 : Awaits(stack[t][n], stack[t][n + 1].p)
  /\ pc[t] \in AtNode => Top(t).p \in Key
  /\ pc[t] \in HasResult => ret[t] = Result[Top(t).p]

(* Mutual exclusion: whoever is inside a part of the table has its mutex.  *)
HolderHasMutex == \A t \in Thread : pc[t] \in Holding => mtx[MutexOf(t)] = t

(* The keys of a bucket's entries are its own, and all different.          *)
KeysRight(b) ==
  /\ size[b] < HASHCACHE_WAYS => next[b] = size[b]
  /\ \A i \in Way : i < size[b] =>
       /\ table[b][i].key \in Key
       /\ BucketOf[table[b][i].key] = b
       /\ \A j \in Way : j < size[b] /\ table[b][j].key = table[b][i].key => i = j

(* They have their results, but for the entry that is being written.       *)
ValuesRight(b) ==
  \A i \in Way : i < size[b] =>
    table[b][i].value = Result[table[b][i].key] \/ (Writing(b) /\ i = next[b])

(* The entry that is being written has the writer's key, no other has it.  *)
WriterRight(t) ==
  pc[t] = "setValue" =>
    LET k == Top(t).p
        b == BucketOf[k]
    IN  /\ table[b][next[b]].key = k
        /\ \A i \in Way : i < size[b] /\ i # next[b] => table[b][i].key # k

(* The inductive invariant.                                                *)
IInv ==
  /\ TypeOK
  /\ \A t \in Thread : StackRight(t) /\ WriterRight(t)
  /\ HolderHasMutex
  /\ \A b \in Bucket : KeysRight(b) /\ ValuesRight(b)
-----------------------------------------------------------------------------
(* What is in the places of a ring, and on the stack of a thread.          *)
Slots == [key : Key \cup {NoEntry}, value : Value \cup {NoEntry}]
Frame == [p : Key \cup Leaf, subs : Seq(Value)]

(* The call a thread is in.                                                *)
LEMMA TopType ==
  ASSUME TypeOK, NEW t \in Thread, stack[t] # <<>>
  PROVE  /\ Len(stack[t]) \in Nat \ {0}
         /\ Top(t) \in Frame
<1>1. stack[t] \in Seq(Frame)  BY DEF TypeOK, Frame
<1>2. Len(stack[t]) \in Nat \ {0}  BY <1>1, EmptySeq
<1>. QED  BY <1>1, <1>2 DEF Top

(* The call of a thread that is at work: its node has a bucket and a part. *)
LEMMA StackedTop ==
  ASSUME TypeOK, NEW t \in Thread, StackRight(t), pc[t] # "idle"
  PROVE  /\ stack[t] # <<>>
         /\ Len(stack[t]) \in Nat \ {0}
         /\ Top(t) \in Frame
         /\ pc[t] \in AtNode =>
              /\ Top(t).p \in Key
              /\ BucketOf[Top(t).p] \in Bucket
              /\ MutexOf(t) \in Split
<1>1. stack[t] # <<>>  BY DEF StackRight
<1>. QED  BY <1>1, TopType, HashCacheAssumption DEF StackRight, MutexOf

(* The empty cache satisfies the invariant.                                *)
LEMMA InitInv == Init => IInv
<1>. SUFFICES ASSUME Init PROVE IInv  OBVIOUS
<1>1. TypeOK
  BY HashCacheAssumption DEF Init, TypeOK, Way
<1>2. \A t \in Thread : StackRight(t) /\ WriterRight(t)
  <2>1. \A t \in Thread : pc[t] = "idle" /\ stack[t] = <<>>
    BY DEF Init
  <2>0. \A t \in Thread : Len(stack[t]) = 0
    <3>1. Len(<<>>) = 0  BY EmptySeq
    <3>. QED  BY <2>1, <3>1, Zenon
  <2>2. \A t \in Thread : 1 .. Len(stack[t]) = {} /\ 1 .. Len(stack[t]) - 1 = {}
    <3>1. 1 .. 0 = {} /\ 1 .. 0 - 1 = {}  OBVIOUS
    <3>. QED  BY <2>0, <3>1, Zenon
  <2>3. \A t \in Thread : StackRight(t)
    BY <2>1, <2>2 DEF StackRight, AtNode, Holding, HasResult
  <2>4. \A t \in Thread : WriterRight(t)  BY <2>1 DEF WriterRight
  <2>. QED  BY <2>3, <2>4
<1>3. HolderHasMutex  BY DEF Init, HolderHasMutex, Holding
<1>4. \A b \in Bucket : KeysRight(b) /\ ValuesRight(b)
  BY HashCacheAssumption DEF Init, KeysRight, ValuesRight, Way
<1>. QED  BY <1>1, <1>2, <1>3, <1>4 DEF IInv

(* No two threads are inside one part of the table.                        *)
LEMMA Exclusion ==
  ASSUME IInv, NEW t \in Thread, NEW u \in Thread,
         pc[t] \in Holding, pc[u] \in Holding, MutexOf(t) = MutexOf(u)
  PROVE  t = u
BY DEF IInv, HolderHasMutex

(* A lookup that hits finds the key's one entry, and nobody is writing it. *)
LEMMA HitRight ==
  ASSUME IInv, NEW t \in Thread, GetHit(t)
  PROVE  ret' = [ret EXCEPT ![t] = Result[Top(t).p]]
<1>. DEFINE k == Top(t).p
            b == BucketOf[k]
            i == FirstHit(b, k)
<1>1. pc[t] = "getScan" /\ Hits(b, k) # {}  BY DEF GetHit
<1>2. b \in Bucket /\ k \in Key
  BY <1>1, StackedTop DEF IInv, AtNode, Holding
<1>3. ~ Writing(b)
  <2>. SUFFICES ASSUME NEW u \in Thread, pc[u] = "setValue", BucketOf[Top(u).p] = b
                PROVE  FALSE
    BY DEF Writing
  <2>1. MutexOf(t) = MutexOf(u)  BY DEF MutexOf
  <2>. QED  BY <1>1, <2>1, Exclusion DEF Holding
<1>4. \A j, m \in Hits(b, k) : j = m
  BY <1>2 DEF IInv, KeysRight, Hits
<1>5. PICK j \in Hits(b, k) : TRUE  BY <1>1
<1>6. j \in Nat  BY HashCacheAssumption DEF Hits, Way
<1>7. \A m \in Hits(b, k) : j <= m  BY <1>4, <1>5, <1>6
<1>8. i \in Hits(b, k)  BY <1>5, <1>7 DEF FirstHit
<1>9. table[b][i].value = Result[k]
  BY <1>2, <1>3, <1>8 DEF IInv, ValuesRight, Hits
<1>. QED  BY <1>9 DEF GetHit

(* A node's result is calculated from those of all its sub-diagrams.       *)
LEMMA CalculateRight ==
  ASSUME IInv, NEW t \in Thread, Calculate(t)
  PROVE  ret' = [ret EXCEPT ![t] = Result[Top(t).p]]
<1>. DEFINE f == Top(t)
            s == stack[t]
<1>1. f \in Frame /\ f.p \in Key /\ Len(s) \in Nat \ {0} /\ StackRight(t)
  BY StackedTop DEF IInv, Calculate, AtNode
<1>2. FrameRight(f)  BY <1>1 DEF StackRight, Top
<1>3. Len(f.subs) = Len(Sub[f.p])  BY DEF Calculate
<1>4. f.subs \in Seq(Value)  BY <1>1 DEF Frame
<1>5. f.subs = [j \in 1 .. Len(Sub[f.p]) |-> Result[Sub[f.p][j]]]
  BY <1>1, <1>2, <1>3, <1>4 DEF FrameRight
<1>6. Combine(f.p, f.subs) = Result[f.p]  BY <1>1, <1>5, ResultAssumption
<1>. QED  BY <1>6 DEF Calculate

(* A result is collected by the call that waits for it.                    *)
LEMMA ReturnStack ==
  ASSUME IInv, NEW t \in Thread, Return(t), Len(stack[t]) # 1
  PROVE  LET n == Len(stack[t])
             s == stack'[t]
         IN  /\ n - 1 \in Nat \ {0}
             /\ stack' = [stack EXCEPT ![t] = s]
             /\ s \in Seq(Frame)
             /\ Len(s) = n - 1
             /\ \A m \in 1 .. n - 2 : s[m] = stack[t][m]
             /\ s[n - 1] = [p |-> stack[t][n - 1].p,
                            subs |-> Append(stack[t][n - 1].subs, Result[Top(t).p])]
<1>. DEFINE n == Len(stack[t])
            old == stack[t]
            rest == SubSeq(old, 1, n - 1)
            f == [old[n - 1] EXCEPT !.subs = Append(@, ret[t])]
<1>1. pc[t] = "return" /\ StackRight(t)  BY DEF IInv, Return
<1>2. old \in Seq(Frame) /\ n \in Nat \ {0} /\ Top(t) \in Frame
  BY <1>1, StackedTop DEF IInv, TypeOK, Frame
<1>3. n - 1 \in Nat \ {0} /\ n - 1 \in 1 .. n
  <2>1. n \in Nat \ {0, 1}  BY <1>2
  <2>. HIDE DEF n
  <2>. QED  BY <2>1
<1>4. ret[t] = Result[Top(t).p] /\ ret[t] \in Value
  BY <1>1, <1>2, HashCacheAssumption DEF StackRight, HasResult, Frame
<1>5. old[n - 1] \in Frame  BY <1>2, <1>3
<1>6. f = [p |-> old[n - 1].p, subs |-> Append(old[n - 1].subs, ret[t])]
  <2>. DEFINE o == old[n - 1]
  <2>1. o \in Frame  BY <1>5
  <2>. HIDE DEF o
  <2>2. [o EXCEPT !.subs = Append(@, ret[t])] = [p |-> o.p, subs |-> Append(o.subs, ret[t])]
    BY <2>1 DEF Frame
  <2>. QED  BY <2>2 DEF o
<1>7. f \in Frame
  <2>1. Append(old[n - 1].subs, ret[t]) \in Seq(Value)
    BY <1>4, <1>5, AppendProperties DEF Frame
  <2>. QED  BY <1>5, <1>6, <2>1 DEF Frame
<1>8. rest = [m \in 1 .. n - 1 |-> old[m]]
  BY <1>2, <1>3, SubSeqProperties
<1>9. rest \in Seq(Frame) /\ Len(rest) = n - 1
  BY <1>2, <1>3, SubSeqProperties
<1>. DEFINE new == [rest EXCEPT ![n - 1] = f]
<1>10. stack' = [stack EXCEPT ![t] = new]
  <2>1. rest[n - 1] = old[n - 1]  BY <1>3, <1>8
  <2>. QED  BY <2>1 DEF Return
<1>11. stack'[t] = new  BY <1>10 DEF IInv, TypeOK
<1>12. new \in Seq(Frame) /\ Len(new) = n - 1
  BY <1>3, <1>7, <1>9, ExceptSeq
<1>13. new[n - 1] = f /\ \A m \in 1 .. n - 2 : new[m] = old[m]
  <2>. HIDE DEF n, old, rest, f
  <2>1. n - 1 \in 1 .. n - 1 /\ \A m \in 1 .. n - 2 : m \in 1 .. n - 1 /\ m # n - 1
    BY <1>2, <1>3
  <2>. QED  BY <2>1, <1>8
<1>. QED  BY <1>3, <1>4, <1>6, <1>10, <1>11, <1>12, <1>13

(* Where a way out that unlocks goes on.                                   *)
LEMMA UnlockPlaces ==
  ASSUME NEW t \in Thread, Unlock(t)
  PROVE  /\ pc[t] \in {"hitUnlock", "missUnlock", "presentUnlock", "setUnlock"}
         /\ AfterUnlock[pc[t]] = IF pc[t] = "missUnlock" THEN "calculate" ELSE "return"
<1>1. pc[t] \in {"hitUnlock", "missUnlock", "presentUnlock", "setUnlock"}
  BY DEF Unlock, AfterUnlock
<1>. QED  BY <1>1 DEF AfterUnlock

(* Every step keeps the types.                                             *)
LEMMA TypeNext ==
  ASSUME IInv, [Next]_vars
  PROVE  TypeOK'
<1>. USE DEF IInv
<1>1. ASSUME NEW t \in Thread, NEW k \in Key, Start(t, k)
      PROVE  TypeOK'
  <2>1. <<[p |-> k, subs |-> <<>>]>> \in Seq(Frame)  BY DEF Frame
  <2>2. stack' \in [Thread -> Seq(Frame)]  BY <1>1, <2>1 DEF Start, TypeOK, Frame
  <2>3. calls' \in [Thread -> 0 .. CALLS]  BY <1>1, HashCacheAssumption DEF Start, TypeOK
  <2>4. pc' \in [Thread -> {"idle", "enter", "getLock", "getScan", "hitUnlock", "missUnlock",
                        "calculate", "setLock", "setScan", "presentUnlock", "setValue", "setUnlock", "return"}]
   BY <1>1 DEF Start, TypeOK, Goto
  <2>. QED  BY <1>1, <2>2, <2>3, <2>4 DEF Start, TypeOK, cacheVars, Frame
<1>2. ASSUME NEW t \in Thread, EnterLeaf(t)
      PROVE  TypeOK'
  <2>1. Result[Top(t).p] \in Value  BY <1>2, HashCacheAssumption DEF EnterLeaf
  <2>. QED BY <1>2, <2>1 DEF EnterLeaf, TypeOK, Goto, cacheVars
<1>3. ASSUME NEW t \in Thread, EnterNode(t) \/ GetMiss(t) \/ SetPresent(t)
      PROVE  TypeOK'
  BY <1>3 DEF EnterNode, GetMiss, SetPresent, TypeOK, Goto, cacheVars
<1>4. ASSUME NEW t \in Thread, Lock(t)
      PROVE  TypeOK'
  BY <1>4 DEF Lock, TypeOK, Goto, cacheVars
<1>5. ASSUME NEW t \in Thread, GetHit(t) \/ Calculate(t)
      PROVE  TypeOK'
  <2>1. Result[Top(t).p] \in Value
    BY <1>5, StackedTop, HashCacheAssumption DEF GetHit, Calculate, AtNode, Holding
  <2>2. ret' = [ret EXCEPT ![t] = Result[Top(t).p]]
    BY <1>5, HitRight, CalculateRight
  <2>. QED  BY <1>5, <2>1, <2>2 DEF GetHit, Calculate, TypeOK, Goto, cacheVars
<1>6. ASSUME NEW t \in Thread, Unlock(t)
      PROVE  TypeOK'
  BY <1>6, UnlockPlaces DEF Unlock, TypeOK, Goto, cacheVars
<1>7. ASSUME NEW t \in Thread, Recur(t)
      PROVE  TypeOK'
  <2>. DEFINE f == Top(t)
              c == [p |-> Sub[f.p][Len(f.subs) + 1], subs |-> <<>>]
  <2>1. f \in Frame /\ f.p \in Key
    BY <1>7, StackedTop DEF Recur, AtNode
  <2>2. Sub[f.p] \in Seq(Key \cup Leaf)  BY <2>1, HashCacheAssumption
  <2>3. Len(f.subs) + 1 \in 1 .. Len(Sub[f.p])
    BY <1>7, <2>1, <2>2 DEF Recur, Frame
  <2>4. c \in Frame  BY <2>2, <2>3 DEF Frame
  <2>5. stack' = [stack EXCEPT ![t] = Append(stack[t], c)]  BY <1>7 DEF Recur
  <2>. HIDE DEF c, f
  <2>6. stack[t] \in Seq(Frame)  BY DEF TypeOK, Frame
  <2>7. Append(stack[t], c) \in Seq(Frame)  BY <2>4, <2>6, AppendProperties
  <2>8. stack' \in [Thread -> Seq(Frame)]  BY <2>5, <2>7 DEF TypeOK, Frame
  <2>. QED  BY <1>7, <2>8 DEF Recur, TypeOK, Goto, cacheVars, Frame
<1>9. ASSUME NEW t \in Thread, SetKey(t)
      PROVE  TypeOK'
  <2>. DEFINE k == Top(t).p
              b == BucketOf[k]
  <2>1. b \in Bucket /\ k \in Key  BY <1>9, StackedTop DEF SetKey, AtNode, Holding
  <2>2. table' = [table EXCEPT ![b][next[b]].key = k]  BY <1>9 DEF SetKey
  <2>. HIDE DEF b, k
  <2>3. next[b] \in Way /\ table[b] \in [Way -> Slots]  BY <2>1 DEF TypeOK, Slots
  <2>4. [table[b][next[b]] EXCEPT !.key = k] \in Slots  BY <2>1, <2>3 DEF Slots
  <2>5. table' \in [Bucket -> [Way -> Slots]]  BY <2>1, <2>2, <2>3, <2>4 DEF TypeOK, Slots
  <2>. QED  BY <1>9, <2>5 DEF SetKey, TypeOK, Goto, Slots
<1>10. ASSUME NEW t \in Thread, SetValue(t)
      PROVE  TypeOK'
  <2>. DEFINE k == Top(t).p
              b == BucketOf[k]
  <2>1. b \in Bucket  BY <1>10, StackedTop DEF SetValue, AtNode, Holding
  <2>2. ret[t] \in Value  BY <1>10, StackedTop, HashCacheAssumption DEF SetValue, StackRight, HasResult, AtNode, Holding
  <2>3. table' = [table EXCEPT ![b][next[b]].value = ret[t]]
        /\ next' = [next EXCEPT ![b] = NextAfter(next[b])]
        /\ size' = [size EXCEPT ![b] = SizeAfter(size[b])]
     BY <1>10 DEF SetValue
  <2>. HIDE DEF b, k
  <2>4. table' \in [Bucket -> [Way -> Slots]]
    <3>1. next[b] \in Way /\ table[b] \in [Way -> Slots]  BY <2>1 DEF TypeOK, Slots
    <3>2. [table[b][next[b]] EXCEPT !.value = ret[t]] \in Slots  BY <2>2, <3>1 DEF Slots
    <3>. QED  BY <2>1, <2>3, <3>1, <3>2 DEF TypeOK, Slots
  <2>5. next' \in [Bucket -> Way]
    <3>1. next[b] + 1 \in Nat  BY <2>1, HashCacheAssumption DEF TypeOK, Way
    <3>2. NextAfter(next[b]) \in Way  BY <3>1, DivMod, HashCacheAssumption DEF Way, NextAfter
    <3>. QED  BY <2>3, <3>2 DEF TypeOK
  <2>6. size' \in [Bucket -> 0 .. HASHCACHE_WAYS]
    BY <2>1, <2>3, HashCacheAssumption DEF TypeOK, SizeAfter
  <2>. QED  BY <1>10, <2>4, <2>5, <2>6 DEF SetValue, TypeOK, Goto, Slots
<1>11. ASSUME NEW t \in Thread, Return(t)
       PROVE  TypeOK'
  <2>1. stack' \in [Thread -> Seq(Frame)]
    <3>1. CASE Len(stack[t]) = 1
      <4>1. stack' = [stack EXCEPT ![t] = <<>>]  BY <1>11, <3>1 DEF Return
      <4>2. <<>> \in Seq(Frame)  OBVIOUS
      <4>. QED  BY <4>1, <4>2 DEF TypeOK, Frame
    <3>2. CASE Len(stack[t]) # 1
      BY <1>11, <3>2, ReturnStack DEF TypeOK, Frame
    <3>. QED  BY <3>1, <3>2
  <2>2. pc' = [pc EXCEPT ![t] = "idle"] \/ pc' = [pc EXCEPT ![t] = "calculate"]
    BY <1>11 DEF Return, Goto
  <2>. QED  BY <1>11, <2>1, <2>2 DEF Return, TypeOK, cacheVars, Frame
<1>12. CASE UNCHANGED vars  BY <1>12 DEF vars, cacheVars, TypeOK
<1>. QED  BY <1>1, <1>2, <1>3, <1>4, <1>5, <1>6, <1>7, <1>9, <1>10, <1>11, <1>12
     DEF Next, Step
-----------------------------------------------------------------------------
(* A thread whose place, calls and result stay.                            *)
LEMMA OtherStack ==
  ASSUME NEW t \in Thread, StackRight(t), pc'[t] = pc[t],
         stack'[t] = stack[t], ret'[t] = ret[t]
  PROVE  StackRight(t)'
BY DEF StackRight, Top

(* A thread that goes on inside its call.                                  *)
LEMMA SameStack ==
  ASSUME NEW t \in Thread, StackRight(t), pc[t] # "idle", stack'[t] = stack[t],
         pc'[t] # "idle",
         pc'[t] \in AtNode => Top(t).p \in Key,
         pc'[t] \in HasResult => ret'[t] = Result[Top(t).p]
  PROVE  StackRight(t)'
BY DEF StackRight, Top

(* The calls of each thread stay right: a sub-diagram is worked on as long *)
(* as the call above it waits.                                             *)
LEMMA StackNext ==
  ASSUME IInv, [Next]_vars, NEW u \in Thread
  PROVE  StackRight(u)'
<1>. USE DEF IInv
<1>1. ASSUME NEW t \in Thread, NEW k \in Key, Start(t, k)
      PROVE  StackRight(u)'
  <2>1. CASE u # t
    BY <1>1, <2>1, OtherStack DEF Start, Goto, TypeOK
  <2>2. CASE u = t
    <3>1. pc'[t] = "enter" /\ stack'[t] = <<[p |-> k, subs |-> <<>>]>>
      BY <1>1 DEF Start, Goto, TypeOK
    <3>2. stack'[t] # <<>> /\ Len(stack'[t]) = 1 /\ stack'[t][1] = [p |-> k, subs |-> <<>>]
      BY <3>1
    <3>3. FrameRight([p |-> k, subs |-> <<>>])
      <4>1. Len(Sub[k]) \in Nat  BY HashCacheAssumption
      <4>2. Len(<<>>) = 0 /\ 1 .. 0 = {}  BY EmptySeq
      <4>. QED  BY <4>1, <4>2 DEF FrameRight
    <3>4. 1 .. 1 = {1} /\ 1 .. 1 - 1 = {}  OBVIOUS
    <3>. QED  BY <2>2, <3>1, <3>2, <3>3, <3>4 DEF StackRight, AtNode, Holding, HasResult
  <2>. QED  BY <2>1, <2>2
<1>2. ASSUME NEW t \in Thread, EnterLeaf(t)
      PROVE  StackRight(u)'
  BY <1>2, OtherStack, SameStack DEF EnterLeaf, Goto, TypeOK, AtNode, Holding, HasResult
<1>3. ASSUME NEW t \in Thread, EnterNode(t)
      PROVE  StackRight(u)'
  BY <1>3, OtherStack, SameStack DEF EnterNode, Goto, TypeOK, AtNode, Holding, HasResult
<1>4. ASSUME NEW t \in Thread, Lock(t)
      PROVE  StackRight(u)'
  <2>1. StackRight(t) /\ Top(t).p \in Key /\ (pc[t] = "setLock" => ret[t] = Result[Top(t).p])
    BY <1>4 DEF Lock, StackRight, AtNode, HasResult
  <2>. QED  BY <1>4, <2>1, OtherStack, SameStack DEF Lock, Goto, TypeOK, AtNode, Holding, HasResult
<1>5. ASSUME NEW t \in Thread, GetHit(t) \/ Calculate(t)
      PROVE  StackRight(u)'
  <2>1. StackRight(t) /\ Top(t).p \in Key
    BY <1>5 DEF GetHit, Calculate, StackRight, AtNode, Holding
  <2>2. ret' = [ret EXCEPT ![t] = Result[Top(t).p]]
    BY <1>5, HitRight, CalculateRight
  <2>. QED  BY <1>5, <2>1, <2>2, OtherStack, SameStack
            DEF GetHit, Calculate, Goto, TypeOK, AtNode, Holding, HasResult
<1>6. ASSUME NEW t \in Thread, GetMiss(t)
      PROVE  StackRight(u)'
  <2>1. StackRight(t) /\ Top(t).p \in Key
    BY <1>6 DEF GetMiss, StackRight, AtNode, Holding
  <2>. QED  BY <1>6, <2>1, OtherStack, SameStack
            DEF GetMiss, Goto, TypeOK, AtNode, Holding, HasResult
<1>7. ASSUME NEW t \in Thread, Unlock(t)
      PROVE  StackRight(u)'
  <2>1. /\ StackRight(t) /\ Top(t).p \in Key
        /\ pc[t] # "missUnlock" => ret[t] = Result[Top(t).p]
    BY <1>7, UnlockPlaces DEF StackRight, AtNode, Holding, HasResult
  <2>2. pc' = [pc EXCEPT ![t] = IF pc[t] = "missUnlock" THEN "calculate" ELSE "return"]
    BY <1>7, UnlockPlaces DEF Unlock, Goto
  <2>3. pc[t] # "idle"  BY <1>7, UnlockPlaces
  <2>. QED  BY <1>7, <2>1, <2>2, <2>3, OtherStack, SameStack
            DEF Unlock, TypeOK, AtNode, Holding, HasResult
<1>8. ASSUME NEW t \in Thread, SetPresent(t) \/ SetKey(t) \/ SetValue(t)
      PROVE  StackRight(u)'
  <2>1. StackRight(t) /\ Top(t).p \in Key /\ ret[t] = Result[Top(t).p]
    BY <1>8 DEF SetPresent, SetKey, SetValue, StackRight, AtNode, Holding, HasResult
  <2>. QED  BY <1>8, <2>1, OtherStack, SameStack
            DEF SetPresent, SetKey, SetValue, Goto, TypeOK, AtNode, Holding, HasResult
<1>9. ASSUME NEW t \in Thread, Recur(t)
      PROVE  StackRight(u)'
  <2>1. CASE u # t
    BY <1>9, <2>1, OtherStack DEF Recur, Goto, TypeOK
  <2>2. CASE u = t
    <3>. DEFINE n == Len(stack[t])
                f == Top(t)
                c == [p |-> Sub[f.p][Len(f.subs) + 1], subs |-> <<>>]
    <3>1. /\ StackRight(t) /\ stack[t] \in Seq(Frame) /\ n \in Nat \ {0}
          /\ f \in Frame /\ f.p \in Key
      BY <1>9, StackedTop DEF Recur, AtNode, TypeOK, Frame
    <3>2. Awaits(f, c.p)  BY <1>9, <3>1 DEF Recur, Awaits
    <3>3. c \in Frame /\ FrameRight(c)
      <4>1. Sub[f.p] \in Seq(Key \cup Leaf)  BY <3>1, HashCacheAssumption
      <4>2. Len(f.subs) + 1 \in 1 .. Len(Sub[f.p])  BY <1>9, <3>1, <4>1 DEF Recur, Frame
      <4>3. c \in Frame  BY <4>1, <4>2 DEF Frame
      <4>4. \A k \in Key : Len(Sub[k]) \in Nat  BY HashCacheAssumption
      <4>5. Len(<<>>) = 0 /\ 1 .. 0 = {}  BY EmptySeq
      <4>. QED  BY <4>3, <4>4, <4>5 DEF FrameRight
    <3>4. stack'[t] = Append(stack[t], c) /\ pc'[t] = "enter"
      BY <1>9 DEF Recur, TypeOK, Goto
    <3>. HIDE DEF c, f
    <3>5. /\ Len(stack'[t]) = n + 1
          /\ stack'[t][n + 1] = c
          /\ \A m \in 1 .. n : stack'[t][m] = stack[t][m]
      BY <3>1, <3>3, <3>4, AppendProperties
    <3>6. stack[t][n] = f  BY DEF f, Top
    <3>. DEFINE s == stack'[t]
    <3>. HIDE DEF s, n
    <3>7. s # <<>>
      <4>1. n + 1 # 0  BY <3>1
      <4>. QED  BY <3>5, <4>1, EmptySeq DEF s
    <3>8. \A m \in 1 .. n + 1 : FrameRight(s[m])
      <4>1. \A m \in 1 .. n + 1 : m \in 1 .. n \/ m = n + 1  BY <3>1
      <4>. QED  BY <3>1, <3>3, <3>5, <4>1 DEF StackRight, s, n
    <3>9. \A m \in 1 .. (n + 1) - 1 : Awaits(s[m], s[m + 1].p)
      <4>1. \A m \in 1 .. (n + 1) - 1 : m \in 1 .. n /\ (m = n \/ (m \in 1 .. n - 1 /\ m + 1 \in 1 .. n))  BY <3>1
      <4>. QED  BY <3>1, <3>2, <3>5, <3>6, <4>1 DEF StackRight, s, n
    <3>. QED  BY <2>2, <3>4, <3>5, <3>7, <3>8, <3>9 DEF StackRight, AtNode, Holding, HasResult, s
  <2>. QED  BY <2>1, <2>2
<1>10. ASSUME NEW t \in Thread, Return(t)
       PROVE  StackRight(u)'
  <2>1. CASE u # t
    BY <1>10, <2>1, OtherStack DEF Return, Goto, TypeOK
  <2>2. CASE u = t /\ Len(stack[t]) = 1
    <3>1. stack'[t] = <<>> /\ pc'[t] = "idle"
      BY <1>10, <2>2 DEF Return, Goto, TypeOK
    <3>2. Len(stack'[t]) = 0  BY <3>1, EmptySeq, Zenon
    <3>3. 1 .. 0 = {} /\ 1 .. 0 - 1 = {}  OBVIOUS
    <3>. QED  BY <2>2, <3>1, <3>2, <3>3 DEF StackRight, AtNode, Holding, HasResult
  <2>3. CASE u = t /\ Len(stack[t]) # 1
    <3>. DEFINE n == Len(stack[t])
                s == stack'[t]
                q == Result[Top(t).p]
                f == stack[t][n - 1]
    <3>1. /\ n - 1 \in Nat \ {0}
          /\ Len(s) = n - 1
          /\ \A m \in 1 .. n - 2 : s[m] = stack[t][m]
          /\ s[n - 1] = [p |-> f.p, subs |-> Append(f.subs, q)]
      BY <1>10, <2>3, ReturnStack
    <3>2. /\ StackRight(t) /\ stack[t] \in Seq(Frame) /\ n \in Nat \ {0} /\ Top(t) \in Frame
          /\ Top(t) = stack[t][n]
      BY <1>10, StackedTop DEF Return, TypeOK, Frame, Top
    <3>3. pc'[t] = "calculate"
      BY <1>10, <2>3 DEF Return, Goto, TypeOK
    <3>. HIDE DEF n, s, q
    <3>4. n - 1 \in 1 .. n /\ n - 1 \in 1 .. n - 1 /\ (n - 1) + 1 = n  BY <3>1, <3>2
    <3>5. f \in Frame /\ FrameRight(f) /\ Awaits(f, Top(t).p)
      BY <3>2, <3>4 DEF StackRight, n
    <3>. HIDE DEF f
    <3>6. FrameRight(s[n - 1])
      <4>. DEFINE l == Len(f.subs)
                  subs == Append(f.subs, q)
      <4>1. q \in Value  BY <3>2, HashCacheAssumption DEF q, Frame
      <4>2. f.subs \in Seq(Value) /\ l \in Nat  BY <3>5 DEF Frame
      <4>3. Len(subs) = l + 1 /\ subs[l + 1] = q /\ \A j \in 1 .. l : subs[j] = f.subs[j]
        BY <4>1, <4>2, AppendProperties
      <4>4. f.p \in Key /\ Len(Sub[f.p]) \in Nat  BY <3>5, HashCacheAssumption DEF Awaits
      <4>5. l < Len(Sub[f.p]) /\ Sub[f.p][l + 1] = Top(t).p  BY <3>5 DEF Awaits
      <4>6. \A j \in 1 .. l : f.subs[j] = Result[Sub[f.p][j]]  BY <3>5, <4>4 DEF FrameRight
      <4>. HIDE DEF l, subs
      <4>7. \A j \in 1 .. l + 1 : j \in 1 .. l \/ j = l + 1  BY <4>2
      <4>8. \A j \in 1 .. l + 1 : subs[j] = Result[Sub[f.p][j]]
        BY <4>3, <4>5, <4>6, <4>7 DEF q
      <4>9. l + 1 <= Len(Sub[f.p])  BY <4>2, <4>4, <4>5
      <4>. QED  BY <3>1, <4>3, <4>8, <4>9 DEF FrameRight, subs
    <3>7. \A m \in 1 .. n - 1 : m \in 1 .. n /\ (m = n - 1 \/ m \in 1 .. n - 2)
      BY <3>2
    <3>8. \A m \in 1 .. n - 1 : FrameRight(s[m])
      BY <3>1, <3>2, <3>6, <3>7 DEF StackRight, n
    <3>9. \A m \in 1 .. n - 1 : s[m].p = stack[t][m].p
      BY <3>1, <3>7 DEF f
    <3>10. \A m \in 1 .. (n - 1) - 1 : /\ m \in 1 .. n - 2
                                      /\ m \in 1 .. n - 1
                                      /\ m + 1 \in 1 .. n - 1
      BY <3>2
    <3>11. \A m \in 1 .. (n - 1) - 1 : Awaits(s[m], s[m + 1].p)
      BY <3>1, <3>2, <3>9, <3>10 DEF StackRight, n
    <3>12. s[n - 1].p \in Key  BY <3>1, <3>5 DEF Awaits
    <3>13. s # <<>>  BY <3>1, EmptySeq
    <3>14. Top(t)' = s[n - 1]  BY <3>1 DEF Top, s
    <3>. QED  BY <2>3, <3>1, <3>3, <3>8, <3>11, <3>12, <3>13, <3>14
              DEF StackRight, AtNode, Holding, HasResult, s
  <2>. QED  BY <2>1, <2>2, <2>3
<1>11. CASE UNCHANGED vars  BY <1>11, OtherStack DEF vars, cacheVars
<1>. QED  BY <1>1, <1>2, <1>3, <1>4, <1>5, <1>6, <1>7, <1>8, <1>9, <1>10, <1>11
     DEF Next, Step
-----------------------------------------------------------------------------
(* Steps of a thread that do not write an entry.                           *)
Aside(t) ==
  \/ EnterLeaf(t) \/ EnterNode(t) \/ Lock(t) \/ GetHit(t) \/ GetMiss(t) \/ Unlock(t)
  \/ Recur(t) \/ Calculate(t) \/ SetPresent(t) \/ Return(t) \/ \E k \in Key : Start(t, k)

(* They leave the buckets alone, and no writer comes or goes.              *)
LEMMA AsideFrame ==
  ASSUME TypeOK, NEW t \in Thread, Aside(t)
  PROVE  /\ UNCHANGED cacheVars
         /\ pc[t] # "setValue" /\ pc'[t] # "setValue"
         /\ \A u \in Thread \ {t} : pc'[u] = pc[u] /\ stack'[u] = stack[u]
<1>1. CASE Unlock(t)
  BY <1>1, UnlockPlaces DEF Unlock, Goto, TypeOK
<1>2. CASE Return(t)
  BY <1>2 DEF Return, Goto, TypeOK
<1>3. CASE \E k \in Key : Start(t, k)
  BY <1>3 DEF Start, Goto, TypeOK
<1>4. CASE EnterLeaf(t) \/ EnterNode(t) \/ Lock(t) \/ GetHit(t) \/ GetMiss(t)
  BY <1>4 DEF EnterLeaf, EnterNode, Lock, GetHit, GetMiss, Goto, TypeOK
<1>5. CASE Recur(t) \/ Calculate(t) \/ SetPresent(t)
  BY <1>5 DEF Recur, Calculate, SetPresent, Goto, TypeOK
<1>. QED  BY <1>1, <1>2, <1>3, <1>4, <1>5 DEF Aside

(* Every step keeps mutual exclusion.                                      *)
LEMMA MutexNext ==
  ASSUME IInv, [Next]_vars
  PROVE  HolderHasMutex'
<1>. USE DEF IInv
<1>1. ASSUME NEW t \in Thread, Lock(t)
      PROVE  HolderHasMutex'
  <2>. SUFFICES ASSUME NEW u \in Thread, pc'[u] \in Holding
                PROVE  mtx'[MutexOf(u)'] = u
    BY DEF HolderHasMutex
  <2>1. MutexOf(u)' = MutexOf(u)  BY <1>1 DEF Lock, MutexOf, Top
  <2>2. MutexOf(t) \in Split  BY <1>1, StackedTop DEF Lock, AtNode
  <2>3. mtx[MutexOf(t)] = None /\ mtx' = [mtx EXCEPT ![MutexOf(t)] = t]
    BY <1>1 DEF Lock, CanLock
  <2>4. CASE u = t  BY <2>1, <2>2, <2>3, <2>4 DEF TypeOK
  <2>5. CASE u # t
    <3>1. pc[u] \in Holding  BY <2>5, <1>1 DEF Lock, Goto, TypeOK
    <3>2. mtx[MutexOf(u)] = u  BY <3>1 DEF HolderHasMutex
    <3>3. u # None  BY HashCacheAssumption
    <3>. QED  BY <2>1, <2>3, <3>2, <3>3 DEF TypeOK
  <2>. QED  BY <2>4, <2>5
<1>2. ASSUME NEW t \in Thread, Unlock(t)
      PROVE  HolderHasMutex'
  <2>. SUFFICES ASSUME NEW u \in Thread, pc'[u] \in Holding
                PROVE  mtx'[MutexOf(u)'] = u
    BY DEF HolderHasMutex
  <2>1. MutexOf(u)' = MutexOf(u)  BY <1>2 DEF Unlock, MutexOf, Top
  <2>2. pc[t] \in Holding /\ pc'[t] \notin Holding
    BY <1>2, UnlockPlaces DEF Unlock, Goto, TypeOK, Holding
  <2>3. u # t /\ pc[u] \in Holding  BY <1>2, <2>2 DEF Unlock, Goto, TypeOK
  <2>4. MutexOf(u) # MutexOf(t)  BY <2>2, <2>3, Exclusion
  <2>. QED  BY <1>2, <2>1, <2>3, <2>4 DEF Unlock, HolderHasMutex, TypeOK
<1>3. ASSUME NEW t \in Thread,
             mtx' = mtx, pc[t] \in Holding \/ pc'[t] \notin Holding,
             \A u \in Thread : pc'[u] \in Holding => stack'[u] = stack[u],
             \A u \in Thread \ {t} : pc'[u] = pc[u]
      PROVE  HolderHasMutex'
  BY <1>3 DEF HolderHasMutex, MutexOf, Top
<1>4. ASSUME NEW t \in Thread, GetHit(t) \/ GetMiss(t) \/ SetPresent(t) \/ SetKey(t) \/ SetValue(t)
      PROVE  HolderHasMutex'
  BY <1>3, <1>4 DEF GetHit, GetMiss, SetPresent, SetKey, SetValue, Goto, TypeOK, Holding
<1>5. ASSUME NEW t \in Thread, EnterLeaf(t) \/ EnterNode(t) \/ Calculate(t)
      PROVE  HolderHasMutex'
  BY <1>3, <1>5 DEF EnterLeaf, EnterNode, Calculate, Goto, TypeOK, Holding
<1>6. ASSUME NEW t \in Thread, Recur(t) \/ Return(t) \/ \E k \in Key : Start(t, k)
      PROVE  HolderHasMutex'
  <2>1. mtx' = mtx /\ pc'[t] \notin Holding
    BY <1>6 DEF Recur, Return, Start, Goto, TypeOK, Holding
  <2>2. \A u \in Thread \ {t} : pc'[u] = pc[u] /\ stack'[u] = stack[u]
    BY <1>6, AsideFrame DEF Aside
  <2>. QED  BY <1>3, <2>1, <2>2
<1>7. CASE UNCHANGED vars  BY <1>7 DEF vars, cacheVars, HolderHasMutex, MutexOf, Top
<1>. QED  BY <1>1, <1>2, <1>4, <1>5, <1>6, <1>7 DEF Next, Step

(* The buckets, and what their writers have done so far.                   *)
CacheRight ==
  /\ \A t \in Thread : WriterRight(t)
  /\ \A b \in Bucket : KeysRight(b) /\ ValuesRight(b)

(* A key that is missing is written over the next entry of its bucket.     *)
LEMMA SetKeyFacts ==
  ASSUME IInv, NEW t \in Thread, SetKey(t)
  PROVE  LET k == Top(t).p
             b == BucketOf[k]
             n == next[b]
         IN  /\ k \in Key /\ b \in Bucket /\ n \in Way
             /\ pc[t] = "setScan" /\ pc' = [pc EXCEPT ![t] = "setValue"]
             /\ UNCHANGED <<next, size, stack, ret>>
             /\ ~ Writing(b)
             /\ \A c \in Bucket \ {b} : table'[c] = table[c]
             /\ \A i \in Way \ {n} : table'[b][i] = table[b][i]
             /\ table'[b][n].key = k
             /\ \A i \in Way : i < size[b] => table[b][i].key # k
             /\ \A c \in Bucket : Writing(c)' <=> c = b \/ Writing(c)
<1>. USE DEF IInv
<1>. DEFINE k == Top(t).p
            b == BucketOf[k]
            n == next[b]
<1>1. pc[t] = "setScan" /\ pc' = [pc EXCEPT ![t] = "setValue"]
      /\ UNCHANGED <<next, size, stack, ret>>
      /\ table' = [table EXCEPT ![b][n].key = k]
      /\ Hits(b, k) = {}
  BY DEF SetKey, Goto
<1>2. k \in Key /\ b \in Bucket /\ n \in Way
  BY <1>1, StackedTop DEF AtNode, Holding, TypeOK
<1>3. ~ Writing(b)
  <2>. SUFFICES ASSUME NEW u \in Thread, pc[u] = "setValue", BucketOf[Top(u).p] = b
                PROVE  FALSE
    BY DEF Writing
  <2>1. MutexOf(t) = MutexOf(u)  BY DEF MutexOf
  <2>. QED  BY <1>1, <2>1, Exclusion DEF Holding
<1>4. table[b] \in [Way -> Slots] /\ table \in [Bucket -> [Way -> Slots]]
  BY <1>2 DEF TypeOK, Slots
<1>5. /\ \A c \in Bucket \ {b} : table'[c] = table[c]
      /\ \A i \in Way \ {n} : table'[b][i] = table[b][i]
      /\ table'[b][n].key = k
  <2>. HIDE DEF k, b, n
  <2>. QED  BY <1>1, <1>2, <1>4 DEF Slots
<1>6. \A i \in Way : i < size[b] => table[b][i].key # k
  BY <1>1 DEF Hits
<1>7. \A c \in Bucket : Writing(c)' <=> c = b \/ Writing(c)
  <2>. SUFFICES ASSUME NEW c \in Bucket
                PROVE  Writing(c)' <=> c = b \/ Writing(c)
    OBVIOUS
  <2>1. \A u \in Thread : Top(u)' = Top(u)  BY <1>1 DEF Top
  <2>2. \A u \in Thread : pc'[u] = "setValue" <=> u = t \/ pc[u] = "setValue"
    BY <1>1 DEF TypeOK
  <2>. QED  BY <2>1, <2>2 DEF Writing
<1>. QED  BY <1>1, <1>2, <1>3, <1>5, <1>6, <1>7

(* Then its value is, and the ring turns.                                  *)
LEMMA SetValueFacts ==
  ASSUME IInv, NEW t \in Thread, SetValue(t)
  PROVE  LET k == Top(t).p
             b == BucketOf[k]
             n == next[b]
         IN  /\ k \in Key /\ b \in Bucket /\ n \in Way
             /\ pc[t] = "setValue" /\ pc' = [pc EXCEPT ![t] = "setUnlock"]
             /\ UNCHANGED <<stack, ret>>
             /\ Writing(b)
             /\ table[b][n].key = k
             /\ \A c \in Bucket \ {b} : table'[c] = table[c] /\ next'[c] = next[c] /\ size'[c] = size[c]
             /\ \A i \in Way \ {n} : table'[b][i] = table[b][i]
             /\ table'[b][n] = [key |-> k, value |-> Result[k]]
             /\ next'[b] = NextAfter(n)
             /\ size'[b] = SizeAfter(size[b])
             /\ \A c \in Bucket : Writing(c)' <=> c # b /\ Writing(c)
             /\ \A u \in Thread \ {t} : pc[u] = "setValue" => BucketOf[Top(u).p] # b
<1>. USE DEF IInv
<1>. DEFINE k == Top(t).p
            b == BucketOf[k]
            n == next[b]
<1>1. pc[t] = "setValue" /\ pc' = [pc EXCEPT ![t] = "setUnlock"]
      /\ UNCHANGED <<stack, ret>>
      /\ table' = [table EXCEPT ![b][n].value = ret[t]]
      /\ next' = [next EXCEPT ![b] = NextAfter(n)]
      /\ size' = [size EXCEPT ![b] = SizeAfter(size[b])]
  BY DEF SetValue, Goto
<1>2. k \in Key /\ b \in Bucket /\ n \in Way
  BY <1>1, StackedTop DEF AtNode, Holding, TypeOK
<1>3. Writing(b) /\ table[b][n].key = k /\ ret[t] = Result[k]
  BY <1>1 DEF Writing, WriterRight, StackRight, HasResult
<1>4. table[b] \in [Way -> Slots] /\ table \in [Bucket -> [Way -> Slots]]
  BY <1>2 DEF TypeOK, Slots
<1>5. /\ \A c \in Bucket \ {b} : table'[c] = table[c]
      /\ \A i \in Way \ {n} : table'[b][i] = table[b][i]
      /\ table'[b][n] = [key |-> k, value |-> Result[k]]
  <2>. HIDE DEF k, b, n
  <2>. QED  BY <1>1, <1>2, <1>3, <1>4 DEF Slots
<1>6. /\ \A c \in Bucket \ {b} : next'[c] = next[c] /\ size'[c] = size[c]
      /\ next'[b] = NextAfter(n)
      /\ size'[b] = SizeAfter(size[b])
  BY <1>1, <1>2 DEF TypeOK
<1>7. \A u \in Thread \ {t} : pc[u] = "setValue" => BucketOf[Top(u).p] # b
  <2>. SUFFICES ASSUME NEW u \in Thread \ {t}, pc[u] = "setValue", BucketOf[Top(u).p] = b
                PROVE  FALSE
    OBVIOUS
  <2>1. MutexOf(t) = MutexOf(u)  BY DEF MutexOf
  <2>. QED  BY <1>1, <2>1, Exclusion DEF Holding
<1>8. \A c \in Bucket : Writing(c)' <=> c # b /\ Writing(c)
  <2>. SUFFICES ASSUME NEW c \in Bucket
                PROVE  Writing(c)' <=> c # b /\ Writing(c)
    OBVIOUS
  <2>1. \A u \in Thread : Top(u)' = Top(u)  BY <1>1 DEF Top
  <2>2. \A u \in Thread : pc'[u] = "setValue" <=> u # t /\ pc[u] = "setValue"
    BY <1>1 DEF TypeOK
  <2>. QED  BY <2>1, <2>2, <1>7 DEF Writing
<1>. QED  BY <1>1, <1>2, <1>3, <1>5, <1>6, <1>7, <1>8

(* Every step keeps what is said of the entries and of their writers.      *)
LEMMA CacheNext ==
  ASSUME IInv, [Next]_vars
  PROVE  CacheRight'
<1>. USE DEF IInv
<1>1. ASSUME NEW t \in Thread, Aside(t)
      PROVE  CacheRight'
  <2>1. /\ table' = table /\ next' = next /\ size' = size
        /\ pc[t] # "setValue" /\ pc'[t] # "setValue"
        /\ \A u \in Thread \ {t} : pc'[u] = pc[u] /\ stack'[u] = stack[u]
    BY <1>1, AsideFrame DEF cacheVars
  <2>2. \A u \in Thread : pc'[u] = "setValue" <=> pc[u] = "setValue"
    BY <2>1
  <2>3. \A u \in Thread : pc[u] = "setValue" => Top(u)' = Top(u)
    BY <2>1 DEF Top
  <2>4. \A b \in Bucket : Writing(b)' <=> Writing(b)  BY <2>2, <2>3 DEF Writing
  <2>5. \A u \in Thread : WriterRight(u)'  BY <2>1, <2>2, <2>3 DEF WriterRight
  <2>6. \A b \in Bucket : KeysRight(b)'  BY <2>1 DEF KeysRight
  <2>7. \A b \in Bucket : ValuesRight(b)'  BY <2>1, <2>4 DEF ValuesRight
  <2>. QED  BY <2>5, <2>6, <2>7 DEF CacheRight
<1>2. ASSUME NEW t \in Thread, SetKey(t)
      PROVE  CacheRight'
  <2>1. PICK k \in Key, b \in Bucket, n \in Way :
        /\ k = Top(t).p /\ b = BucketOf[k] /\ n = next[b]
        /\ pc[t] = "setScan" /\ pc' = [pc EXCEPT ![t] = "setValue"]
        /\ next' = next /\ size' = size /\ stack' = stack
        /\ ~ Writing(b)
        /\ \A c \in Bucket \ {b} : table'[c] = table[c]
        /\ \A i \in Way \ {n} : table'[b][i] = table[b][i]
        /\ table'[b][n].key = k
        /\ \A i \in Way : i < size[b] => table[b][i].key # k
        /\ \A c \in Bucket : Writing(c)' <=> c = b \/ Writing(c)
    BY <1>2, SetKeyFacts
  <2>2. \A u \in Thread : Top(u)' = Top(u)  BY <2>1 DEF Top
  <2>3. \A u \in Thread : pc'[u] = "setValue" <=> u = t \/ pc[u] = "setValue"
    BY <2>1 DEF TypeOK
  <2>4. \A u \in Thread : u # t /\ pc[u] = "setValue" => BucketOf[Top(u).p] # b
    BY <2>1 DEF Writing
  <2>5. ASSUME NEW u \in Thread PROVE WriterRight(u)'
    <3>1. CASE u = t
      <4>1. WriterRight(t)' <=> /\ table'[b][n].key = k
                                /\ \A i \in Way : i < size[b] /\ i # n => table'[b][i].key # k
        BY <2>1, <2>2, <2>3 DEF WriterRight
      <4>. QED  BY <3>1, <4>1, <2>1
    <3>2. CASE u # t /\ pc[u] = "setValue"
      <4>1. Top(u).p \in Key  BY <3>2 DEF StackRight, AtNode, Holding
      <4>2. BucketOf[Top(u).p] \in Bucket \ {b}
        BY <3>2, <4>1, <2>4, HashCacheAssumption
      <4>. QED  BY <3>2, <4>2, <2>1, <2>2 DEF WriterRight
    <3>3. CASE u # t /\ pc[u] # "setValue"  BY <3>3, <2>3 DEF WriterRight
    <3>. QED  BY <3>1, <3>2, <3>3
  <2>6. ASSUME NEW c \in Bucket PROVE KeysRight(c)' /\ ValuesRight(c)'
    <3>1. CASE c # b
      BY <3>1, <2>1 DEF KeysRight, ValuesRight
    <3>2. CASE c = b
      <4>1. BucketOf[k] = b  BY <2>1
      <4>2. KeysRight(b)'
        <5>1. ASSUME NEW i \in Way, i < size[b]
              PROVE  /\ table'[b][i].key \in Key
                     /\ BucketOf[table'[b][i].key] = b
                     /\ \A j \in Way : j < size[b] /\ table'[b][j].key = table'[b][i].key => i = j
          <6>1. CASE i = n  BY <5>1, <6>1, <4>1, <2>1
          <6>2. CASE i # n
            <7>1. table'[b][i] = table[b][i] /\ table[b][i].key # k  BY <5>1, <6>2, <2>1
            <7>. QED  BY <5>1, <7>1, <2>1 DEF KeysRight
          <6>. QED  BY <6>1, <6>2
        <5>. QED  BY <5>1, <2>1 DEF KeysRight
      <4>3. ValuesRight(b)'
        BY <2>1 DEF ValuesRight
      <4>. QED  BY <3>2, <4>2, <4>3
    <3>. QED  BY <3>1, <3>2
  <2>. QED  BY <2>5, <2>6 DEF CacheRight
<1>3. ASSUME NEW t \in Thread, SetValue(t)
      PROVE  CacheRight'
  <2>1. PICK k \in Key, b \in Bucket, n \in Way :
        /\ k = Top(t).p /\ b = BucketOf[k] /\ n = next[b]
        /\ pc[t] = "setValue" /\ pc' = [pc EXCEPT ![t] = "setUnlock"]
        /\ stack' = stack
        /\ Writing(b)
        /\ table[b][n].key = k
        /\ \A c \in Bucket \ {b} : table'[c] = table[c] /\ next'[c] = next[c] /\ size'[c] = size[c]
        /\ \A i \in Way \ {n} : table'[b][i] = table[b][i]
        /\ table'[b][n] = [key |-> k, value |-> Result[k]]
        /\ next'[b] = NextAfter(n)
        /\ size'[b] = SizeAfter(size[b])
        /\ \A c \in Bucket : Writing(c)' <=> c # b /\ Writing(c)
        /\ \A u \in Thread \ {t} : pc[u] = "setValue" => BucketOf[Top(u).p] # b
    BY <1>3, SetValueFacts
  <2>2. \A u \in Thread : Top(u)' = Top(u)  BY <2>1 DEF Top
  <2>3. \A u \in Thread : pc'[u] = "setValue" <=> u # t /\ pc[u] = "setValue"
    BY <2>1 DEF TypeOK
  <2>4. \A i \in Way : i < size[b] /\ i # n => table[b][i].key # k
    BY <2>1 DEF WriterRight
  <2>5. ASSUME NEW u \in Thread PROVE WriterRight(u)'
    <3>1. CASE u # t /\ pc[u] = "setValue"
      <4>1. Top(u).p \in Key  BY <3>1 DEF StackRight, AtNode, Holding
      <4>2. BucketOf[Top(u).p] \in Bucket \ {b}
        BY <3>1, <4>1, <2>1, HashCacheAssumption
      <4>. QED  BY <3>1, <4>2, <2>1, <2>2 DEF WriterRight
    <3>2. CASE ~ (u # t /\ pc[u] = "setValue")  BY <3>2, <2>3 DEF WriterRight
    <3>. QED  BY <3>1, <3>2
  <2>6. ASSUME NEW c \in Bucket PROVE KeysRight(c)' /\ ValuesRight(c)'
    <3>1. CASE c # b
      BY <3>1, <2>1 DEF KeysRight, ValuesRight
    <3>2. CASE c = b
      <4>. DEFINE W == HASHCACHE_WAYS
                  s == size[b]
      <4>1. W \in Nat \ {0} /\ n \in 0 .. W - 1 /\ s \in 0 .. W
        BY <2>1, HashCacheAssumption DEF TypeOK, Way
      <4>2. s < W => n = s  BY <2>1 DEF KeysRight
      <4>3. \A i \in Way : i < size'[b] <=> i < s \/ i = n
        BY <4>1, <4>2, <2>1 DEF SizeAfter, Way
      <4>4. size'[b] < W => next'[b] = size'[b]
        <5>1. size'[b] < W => s < W /\ size'[b] = s + 1  BY <4>1, <2>1 DEF SizeAfter
        <5>2. n + 1 \in 0 .. W - 1 => (n + 1) % W = n + 1
          <6>1. W * 0 + (n + 1) = n + 1  BY <4>1
          <6>. QED  BY <6>1, <4>1, ModUnique
        <5>. QED  BY <5>1, <5>2, <4>1, <4>2, <2>1 DEF NextAfter
      <4>. HIDE DEF W, s
      <4>5. BucketOf[k] = b  BY <2>1
      <4>6. KeysRight(b)'
        <5>1. ASSUME NEW i \in Way, i < s \/ i = n
              PROVE  /\ table'[b][i].key \in Key
                     /\ BucketOf[table'[b][i].key] = b
                     /\ \A j \in Way : (j < s \/ j = n) /\ table'[b][j].key = table'[b][i].key => i = j
          <6>1. CASE i = n  BY <5>1, <6>1, <4>5, <2>1, <2>4 DEF s
          <6>2. CASE i # n
            <7>1. table'[b][i] = table[b][i] /\ table[b][i].key # k /\ i < s
              BY <5>1, <6>2, <2>1, <2>4 DEF s
            <7>. QED  BY <5>1, <7>1, <2>1 DEF KeysRight, s
          <6>. QED  BY <6>1, <6>2
        <5>. QED  BY <5>1, <4>3, <4>4 DEF KeysRight, W
      <4>7. ValuesRight(b)'
        <5>1. ASSUME NEW i \in Way, i < s \/ i = n
              PROVE  table'[b][i].value = Result[table'[b][i].key]
          <6>1. CASE i = n  BY <6>1, <2>1
          <6>2. CASE i # n  BY <6>2, <5>1, <2>1 DEF ValuesRight, s
          <6>. QED  BY <6>1, <6>2
        <5>. QED  BY <5>1, <4>3 DEF ValuesRight
      <4>. QED  BY <3>2, <4>6, <4>7
    <3>. QED  BY <3>1, <3>2
  <2>. QED  BY <2>5, <2>6 DEF CacheRight
<1>4. CASE UNCHANGED vars
  BY <1>4 DEF vars, cacheVars, CacheRight, WriterRight, KeysRight, ValuesRight, Writing, Top
<1>. QED  BY <1>1, <1>2, <1>3, <1>4 DEF Next, Step, Aside
-----------------------------------------------------------------------------
(* The inductive invariant holds of every state.                           *)
THEOREM Invariance == Spec => []IInv
<1>1. IInv /\ [Next]_vars => IInv'
  BY TypeNext, StackNext, MutexNext, CacheNext DEF CacheRight, IInv
<1>. QED  BY InitInv, <1>1, PTL DEF Spec

(* The variables keep their types: the ring's index and size stay in it.   *)
THEOREM TypeCorrect == Spec => []TypeOK
<1>1. IInv => TypeOK  BY DEF IInv
<1>. QED  BY <1>1, Invariance, PTL

(* An entry that a lookup may find is right.                               *)
THEOREM EntriesStayRight == Spec => []EntriesRight
<1>1. ASSUME IInv PROVE EntriesRight
  <2>. SUFFICES ASSUME NEW b \in Bucket, ~ Writing(b), NEW i \in Way, i < size[b]
                PROVE  /\ table[b][i] \in Entry
                       /\ BucketOf[table[b][i].key] = b
                       /\ table[b][i].value = Result[table[b][i].key]
                       /\ \A j \in Way : j < size[b] /\ table[b][j].key = table[b][i].key => i = j
    BY DEF EntriesRight
  <2>1. KeysRight(b) /\ ValuesRight(b) /\ table[b][i] \in Slots  BY <1>1 DEF IInv, TypeOK, Slots
  <2>2. table[b][i].key \in Key /\ table[b][i].value = Result[table[b][i].key]
    BY <2>1 DEF KeysRight, ValuesRight
  <2>3. table[b][i].value \in Value  BY <2>2, HashCacheAssumption
  <2>4. table[b][i] \in Entry  BY <2>1, <2>2, <2>3 DEF Entry, Slots
  <2>. QED  BY <2>1, <2>2, <2>4 DEF KeysRight
<1>. QED  BY <1>1, Invariance, PTL

(* Every calculation returns the result of its diagram.                    *)
THEOREM ResultsRight == Spec => []ReturnsResult
<1>1. IInv => ReturnsResult  BY DEF IInv, ReturnsResult, StackRight, HasResult
<1>. QED  BY <1>1, Invariance, PTL
-----------------------------------------------------------------------------
(* The ring as a function of its row, of the place that is written next    *)
(* and of how many of its entries are kept.                                *)
Kept(b) == IF Writing(b) /\ size[b] = HASHCACHE_WAYS THEN size[b] - 1 ELSE size[b]
RingIndex(n, kept, i) == (n + HASHCACHE_WAYS - kept + i - 1) % HASHCACHE_WAYS
Ring(row, n, kept) == [i \in 1 .. kept |-> row[RingIndex(n, kept, i)]]
Rows == [Way -> Slots]

(* The place of the i-th oldest of kept entries, when n is written next.   *)
LEMMA RingIndexIs ==
  ASSUME NEW n \in Way, NEW kept \in 0 .. HASHCACHE_WAYS, NEW i \in 1 .. kept
  PROVE  /\ RingIndex(n, kept, i) =
              IF n + i - 1 < kept THEN n + i - 1 - kept + HASHCACHE_WAYS ELSE n + i - 1 - kept
         /\ RingIndex(n, kept, i) \in Way
<1>. DEFINE W == HASHCACHE_WAYS
            x == n + W - kept + i - 1
<1>1. W \in Nat \ {0} /\ n \in 0 .. W - 1  BY HashCacheAssumption DEF Way
<1>2. x \in 0 .. 2 * W - 1  BY <1>1
<1>3. x % W = IF x < W THEN x ELSE x - W  BY <1>1, <1>2, WrapMod
<1>. QED  BY <1>1, <1>3 DEF RingIndex, Way

(* Turning the ring moves no entry but the one that is written next.       *)
LEMMA RingTurns ==
  ASSUME NEW n \in Way, NEW kept \in 0 .. HASHCACHE_WAYS - 1
  PROVE  /\ \A i \in 1 .. kept :
              /\ RingIndex(NextAfter(n), kept + 1, i) = RingIndex(n, kept, i)
              /\ RingIndex(n, kept, i) # n
              /\ RingIndex(n, kept + 1, i + 1) = RingIndex(n, kept, i)
         /\ RingIndex(NextAfter(n), kept + 1, kept + 1) = n
<1>1. HASHCACHE_WAYS \in Nat \ {0} /\ n \in 0 .. HASHCACHE_WAYS - 1
  BY HashCacheAssumption DEF Way
<1>2. NextAfter(n) = IF n + 1 < HASHCACHE_WAYS THEN n + 1 ELSE 0
  <2>1. PICK x \in 0 .. 2 * HASHCACHE_WAYS - 1 : x = n + 1  BY <1>1
  <2>2. NextAfter(n) = x % HASHCACHE_WAYS  BY <2>1 DEF NextAfter
  <2>3. x % HASHCACHE_WAYS = IF x < HASHCACHE_WAYS THEN x ELSE x - HASHCACHE_WAYS
    BY <1>1, WrapMod
  <2>4. ~ (x < HASHCACHE_WAYS) => x - HASHCACHE_WAYS = 0  BY <1>1, <2>1
  <2>. QED  BY <2>1, <2>2, <2>3, <2>4
<1>3. PICK m \in Way : m = NextAfter(n)  BY <1>1, <1>2 DEF Way
<1>4. /\ m \in 0 .. HASHCACHE_WAYS - 1
      /\ m = IF n + 1 < HASHCACHE_WAYS THEN n + 1 ELSE 0
  BY <1>2, <1>3 DEF Way
<1>5. kept + 1 \in 0 .. HASHCACHE_WAYS /\ kept \in 0 .. HASHCACHE_WAYS  BY <1>1
<1>6. ASSUME NEW i \in 1 .. kept
      PROVE  /\ RingIndex(m, kept + 1, i) = RingIndex(n, kept, i)
             /\ RingIndex(n, kept, i) # n
             /\ RingIndex(n, kept + 1, i + 1) = RingIndex(n, kept, i)
  <2>1. i \in 1 .. kept + 1 /\ i + 1 \in 1 .. kept + 1  BY <1>1
  <2>2. RingIndex(n, kept, i) =
          IF n + i - 1 < kept THEN n + i - 1 - kept + HASHCACHE_WAYS ELSE n + i - 1 - kept
    BY <1>5, RingIndexIs
  <2>3. RingIndex(m, kept + 1, i) =
          IF m + i - 1 < kept + 1 THEN m + i - 1 - (kept + 1) + HASHCACHE_WAYS
          ELSE m + i - 1 - (kept + 1)
    BY <1>3, <1>5, <2>1, RingIndexIs
  <2>4. RingIndex(n, kept + 1, i + 1) =
          IF n + (i + 1) - 1 < kept + 1 THEN n + (i + 1) - 1 - (kept + 1) + HASHCACHE_WAYS
          ELSE n + (i + 1) - 1 - (kept + 1)
    BY <1>5, <2>1, RingIndexIs
  <2>5. CASE n + 1 < HASHCACHE_WAYS
    <3>1. m = n + 1  BY <1>4, <2>5
    <3>. QED  BY <1>1, <3>1, <2>2, <2>3, <2>4
  <2>6. CASE ~ (n + 1 < HASHCACHE_WAYS)
    <3>1. m = 0 /\ n = HASHCACHE_WAYS - 1  BY <1>1, <1>4, <2>6
    <3>. QED  BY <1>1, <3>1, <2>2, <2>3, <2>4
  <2>. QED  BY <2>5, <2>6
<1>7. RingIndex(m, kept + 1, kept + 1) = n
  <2>1. kept + 1 \in 1 .. kept + 1  BY <1>1
  <2>2. RingIndex(m, kept + 1, kept + 1) =
          IF m + (kept + 1) - 1 < kept + 1 THEN m + (kept + 1) - 1 - (kept + 1) + HASHCACHE_WAYS
          ELSE m + (kept + 1) - 1 - (kept + 1)
    BY <1>3, <1>5, <2>1, RingIndexIs
  <2>. QED  BY <1>1, <1>4, <2>2
<1>. QED  BY <1>3, <1>6, <1>7

(* A ring is a sequence of as many entries as are kept.                    *)
LEMMA RingType ==
  ASSUME NEW row \in Rows, NEW n \in Way, NEW kept \in 0 .. HASHCACHE_WAYS
  PROVE  Ring(row, n, kept) \in Seq(Slots) /\ Len(Ring(row, n, kept)) = kept
<1>1. kept \in Nat  BY HashCacheAssumption
<1>2. Ring(row, n, kept) \in [1 .. kept -> Slots]  BY RingIndexIs DEF Ring, Rows
<1>3. Ring(row, n, kept) \in Seq(Slots)  BY <1>1, <1>2, IsASeq
<1>. QED  BY <1>1, <1>2, <1>3, LenProperties

(* Writing in the next place of a full ring loses the oldest entry.        *)
LEMMA RingForgets ==
  ASSUME NEW row \in Rows, NEW new \in Rows, NEW n \in Way,
         \A i \in Way \ {n} : new[i] = row[i]
  PROVE  Ring(new, n, HASHCACHE_WAYS - 1) = Tail(Ring(row, n, HASHCACHE_WAYS))
<1>1. PICK kept \in 0 .. HASHCACHE_WAYS - 1 : kept = HASHCACHE_WAYS - 1
  BY HashCacheAssumption
<1>2. kept \in 0 .. HASHCACHE_WAYS /\ kept + 1 = HASHCACHE_WAYS /\ kept \in Nat
      /\ HASHCACHE_WAYS \in 0 .. HASHCACHE_WAYS
  BY <1>1, HashCacheAssumption
<1>3. Ring(row, n, kept + 1) \in Seq(Slots) /\ Len(Ring(row, n, kept + 1)) = kept + 1
  BY <1>2, RingType
<1>4. Ring(new, n, kept) \in Seq(Slots) /\ Len(Ring(new, n, kept)) = kept
  BY <1>2, RingType
<1>5. kept + 1 # 0 /\ kept + 1 - 1 = kept  BY <1>2
<1>6. Ring(row, n, kept + 1) # <<>>  BY <1>3, <1>5, EmptySeq
<1>7. /\ Tail(Ring(row, n, kept + 1)) \in Seq(Slots)
      /\ Len(Tail(Ring(row, n, kept + 1))) = kept
      /\ \A i \in 1 .. kept : Tail(Ring(row, n, kept + 1))[i] = Ring(row, n, kept + 1)[i + 1]
  BY <1>3, <1>5, <1>6, HeadTailProperties
<1>8. ASSUME NEW i \in 1 .. kept
      PROVE  Ring(new, n, kept)[i] = Ring(row, n, kept + 1)[i + 1]
  <2>1. i + 1 \in 1 .. kept + 1  BY <1>2
  <2>2. /\ RingIndex(n, kept + 1, i + 1) = RingIndex(n, kept, i)
        /\ RingIndex(n, kept, i) \in Way \ {n}
    BY <1>2, RingTurns, RingIndexIs
  <2>. QED  BY <2>1, <2>2 DEF Ring
<1>9. Ring(new, n, kept) = Tail(Ring(row, n, kept + 1))
  BY <1>4, <1>7, <1>8, SeqEqual
<1>. QED  BY <1>1, <1>2, <1>9

(* In a ring that is not full it loses none.                               *)
LEMMA RingKeeps ==
  ASSUME NEW row \in Rows, NEW new \in Rows, NEW n \in Way,
         NEW kept \in 0 .. HASHCACHE_WAYS - 1,
         \A i \in Way \ {n} : new[i] = row[i]
  PROVE  Ring(new, n, kept) = Ring(row, n, kept)
<1>1. kept \in 0 .. HASHCACHE_WAYS  BY HashCacheAssumption
<1>2. \A i \in 1 .. kept : RingIndex(n, kept, i) \in Way \ {n}
  BY <1>1, RingTurns, RingIndexIs
<1>. QED  BY <1>2 DEF Ring

(* And once it turns, what was written is the youngest of its entries.     *)
LEMMA RingAdds ==
  ASSUME NEW row \in Rows, NEW new \in Rows, NEW n \in Way,
         NEW kept \in 0 .. HASHCACHE_WAYS - 1,
         \A i \in Way \ {n} : new[i] = row[i]
  PROVE  Ring(new, NextAfter(n), kept + 1) = Append(Ring(row, n, kept), new[n])
<1>1. kept \in 0 .. HASHCACHE_WAYS /\ kept + 1 \in 0 .. HASHCACHE_WAYS /\ kept \in Nat
  BY HashCacheAssumption
<1>2. n + 1 \in Nat  BY HashCacheAssumption DEF Way
<1>3. NextAfter(n) \in Way  BY <1>2, DivMod, HashCacheAssumption DEF Way, NextAfter
<1>4. Ring(row, n, kept) \in Seq(Slots) /\ Len(Ring(row, n, kept)) = kept
  BY <1>1, RingType
<1>5. new[n] \in Slots  BY DEF Rows
<1>6. /\ Append(Ring(row, n, kept), new[n]) \in Seq(Slots)
      /\ Len(Append(Ring(row, n, kept), new[n])) = kept + 1
      /\ \A i \in 1 .. kept : Append(Ring(row, n, kept), new[n])[i] = Ring(row, n, kept)[i]
      /\ Append(Ring(row, n, kept), new[n])[kept + 1] = new[n]
  BY <1>4, <1>5, AppendProperties
<1>7. Ring(new, NextAfter(n), kept + 1) \in Seq(Slots)
      /\ Len(Ring(new, NextAfter(n), kept + 1)) = kept + 1
  BY <1>1, <1>3, RingType
<1>8. ASSUME NEW i \in 1 .. kept + 1
      PROVE  Ring(new, NextAfter(n), kept + 1)[i] = Append(Ring(row, n, kept), new[n])[i]
  <2>1. CASE i = kept + 1  BY <1>6, <2>1, RingTurns DEF Ring
  <2>2. CASE i # kept + 1
    <3>1. i \in 1 .. kept  BY <1>1, <2>2
    <3>2. RingIndex(NextAfter(n), kept + 1, i) = RingIndex(n, kept, i)
          /\ RingIndex(n, kept, i) \in Way \ {n}
      BY <1>1, <3>1, RingTurns, RingIndexIs
    <3>. QED  BY <1>6, <3>1, <3>2 DEF Ring
  <2>. QED  BY <2>1, <2>2
<1>. QED  BY <1>6, <1>7, <1>8, SeqEqual
-----------------------------------------------------------------------------
(* Refinement: what each step does to the memory that Fifo.tla describes.  *)

(* The key is written: a full ring forgets its oldest entry.               *)
LEMMA SetKeyRefines ==
  ASSUME IInv, TypeOK', NEW t \in Thread, SetKey(t)
  PROVE  \E b \in Bucket :
           /\ \A c \in Bucket \ {b} : RingOf(c)' = RingOf(c)
           /\ \/ RingOf(b)' = RingOf(b)
              \/ Len(RingOf(b)) = HASHCACHE_WAYS /\ RingOf(b)' = Tail(RingOf(b))
<1>1. PICK k \in Key, b \in Bucket, n \in Way :
        /\ n = next[b] /\ UNCHANGED <<next, size>>
        /\ ~ Writing(b)
        /\ \A c \in Bucket \ {b} : table'[c] = table[c]
        /\ \A i \in Way \ {n} : table'[b][i] = table[b][i]
        /\ \A c \in Bucket : Writing(c)' <=> c = b \/ Writing(c)
  BY SetKeyFacts
<1>2. ASSUME NEW c \in Bucket \ {b}
      PROVE  RingOf(c)' = RingOf(c)
  BY <1>1 DEF RingOf
<1>3. table[b] \in Rows /\ table'[b] \in Rows /\ size[b] \in 0 .. HASHCACHE_WAYS
  BY <1>1 DEF IInv, TypeOK, Rows, Slots
<1>4. RingOf(b) = Ring(table[b], n, size[b])
  BY <1>1 DEF RingOf, Ring, RingIndex
<1>5. CASE size[b] = HASHCACHE_WAYS
  <2>1. RingOf(b)' = Ring(table'[b], n, HASHCACHE_WAYS - 1)
    BY <1>1, <1>5 DEF RingOf, Ring, RingIndex
  <2>2. RingOf(b)' = Tail(RingOf(b))  BY <1>1, <1>3, <1>4, <1>5, <2>1, RingForgets
  <2>3. Len(RingOf(b)) = HASHCACHE_WAYS  BY <1>3, <1>4, <1>5, RingType
  <2>. QED  BY <1>2, <2>2, <2>3
<1>6. CASE size[b] # HASHCACHE_WAYS
  <2>1. RingOf(b)' = Ring(table'[b], n, size[b])
    BY <1>1, <1>6 DEF RingOf, Ring, RingIndex
  <2>2. size[b] \in 0 .. HASHCACHE_WAYS - 1  BY <1>3, <1>6, HashCacheAssumption
  <2>3. RingOf(b)' = RingOf(b)  BY <1>1, <1>3, <1>4, <2>1, <2>2, RingKeeps
  <2>. QED  BY <1>2, <2>3
<1>. QED  BY <1>5, <1>6

(* The value is written: the entry comes, of a key that was not there.     *)
LEMMA SetValueRefines ==
  ASSUME IInv, TypeOK', NEW t \in Thread, SetValue(t)
  PROVE  \E k \in Key :
           LET b == BucketOf[k] IN
           /\ b \in Bucket
           /\ \A c \in Bucket \ {b} : RingOf(c)' = RingOf(c)
           /\ \A i \in 1 .. Len(RingOf(b)) : RingOf(b)[i].key # k
           /\ Len(RingOf(b)) \in 0 .. HASHCACHE_WAYS - 1
           /\ RingOf(b)' = Append(RingOf(b), [key |-> k, value |-> Result[k]])
<1>1. PICK k \in Key, b \in Bucket, n \in Way :
        /\ b = BucketOf[k] /\ n = next[b] /\ k = Top(t).p
        /\ pc[t] = "setValue"
        /\ Writing(b)
        /\ \A c \in Bucket \ {b} : table'[c] = table[c] /\ next'[c] = next[c] /\ size'[c] = size[c]
        /\ \A i \in Way \ {n} : table'[b][i] = table[b][i]
        /\ table'[b][n] = [key |-> k, value |-> Result[k]]
        /\ next'[b] = NextAfter(n)
        /\ size'[b] = SizeAfter(size[b])
        /\ \A c \in Bucket : Writing(c)' <=> c # b /\ Writing(c)
  BY SetValueFacts
<1>2. ASSUME NEW c \in Bucket \ {b}
      PROVE  RingOf(c)' = RingOf(c)
  BY <1>1 DEF RingOf
<1>3. table[b] \in Rows /\ table'[b] \in Rows /\ size[b] \in 0 .. HASHCACHE_WAYS
  BY <1>1 DEF IInv, TypeOK, Rows, Slots
<1>4. PICK kept \in 0 .. HASHCACHE_WAYS - 1 :
        /\ kept = IF size[b] = HASHCACHE_WAYS THEN size[b] - 1 ELSE size[b]
        /\ SizeAfter(size[b]) = kept + 1
  BY <1>3, HashCacheAssumption DEF SizeAfter
<1>5. RingOf(b) = Ring(table[b], n, kept)
  BY <1>1, <1>4 DEF RingOf, Ring, RingIndex
<1>6. RingOf(b)' = Ring(table'[b], NextAfter(n), kept + 1)
  BY <1>1, <1>4 DEF RingOf, Ring, RingIndex
<1>7. RingOf(b)' = Append(RingOf(b), [key |-> k, value |-> Result[k]])
  <2>. DEFINE old == table[b]
              new == table'[b]
  <2>1. old \in Rows /\ new \in Rows /\ \A i \in Way \ {n} : new[i] = old[i]
    BY <1>1, <1>3
  <2>2. Ring(new, NextAfter(n), kept + 1) = Append(Ring(old, n, kept), new[n])
    <3>. HIDE DEF old, new
    <3>. QED  BY <2>1, RingAdds
  <2>. QED  BY <1>1, <1>5, <1>6, <2>2
<1>8. kept \in 0 .. HASHCACHE_WAYS  BY HashCacheAssumption
<1>9. Len(RingOf(b)) = kept  BY <1>3, <1>5, <1>8, RingType
<1>10. ASSUME NEW i \in 1 .. kept
       PROVE  RingOf(b)[i].key # k
  <2>1. RingIndex(n, kept, i) \in Way \ {n}  BY <1>8, RingIndexIs, RingTurns
  <2>2. RingIndex(n, kept, i) < size[b]
    <3>1. CASE size[b] = HASHCACHE_WAYS  BY <2>1, <3>1, HashCacheAssumption DEF Way
    <3>2. CASE size[b] # HASHCACHE_WAYS
      <4>1. n = kept /\ size[b] = kept
        BY <1>1, <1>3, <1>4, <3>2, HashCacheAssumption DEF IInv, KeysRight
      <4>2. RingIndex(n, kept, i) = n + i - 1 - kept
        BY <1>8, <4>1, RingIndexIs
      <4>. QED  BY <4>1, <4>2
    <3>. QED  BY <3>1, <3>2
  <2>3. table[b][RingIndex(n, kept, i)].key # k
    BY <1>1, <2>1, <2>2 DEF IInv, WriterRight
  <2>. QED  BY <1>5, <2>3 DEF Ring
<1>. QED  BY <1>1, <1>2, <1>4, <1>7, <1>9, <1>10

(* Every other step leaves the memory alone.                               *)
LEMMA OtherRefines ==
  ASSUME TypeOK, NEW c \in Bucket,
         (\E t \in Thread : Aside(t)) \/ UNCHANGED vars
  PROVE  RingOf(c)' = RingOf(c)
<1>1. CASE UNCHANGED vars
  BY <1>1 DEF vars, cacheVars, RingOf, Writing, Top
<1>2. ASSUME NEW t \in Thread, Aside(t)
      PROVE  RingOf(c)' = RingOf(c)
  <2>1. /\ UNCHANGED cacheVars
        /\ pc[t] # "setValue" /\ pc'[t] # "setValue"
        /\ \A u \in Thread \ {t} : pc'[u] = pc[u] /\ stack'[u] = stack[u]
    BY <1>2, AsideFrame
  <2>2. \A u \in Thread : pc'[u] = "setValue" <=> pc[u] = "setValue"  BY <2>1
  <2>3. \A u \in Thread : pc[u] = "setValue" => Top(u)' = Top(u)  BY <2>1 DEF Top
  <2>4. Writing(c)' <=> Writing(c)  BY <2>2, <2>3 DEF Writing
  <2>. QED  BY <2>1, <2>4 DEF RingOf, cacheVars
<1>. QED  BY <1>1, <1>2

(* The cache is the first-in first-out memory that Fifo.tla specifies: it  *)
(* forgets only the oldest entry of a full bucket, and takes only a key    *)
(* that is not there, with its result.                                     *)
THEOREM Refinement == Spec => ImplementsFifo
<1>1. Init => Abs!Init
  <2>. SUFFICES ASSUME Init PROVE Abs!Init  OBVIOUS
  <2>1. \A b \in Bucket : ~ Writing(b)  BY DEF Init, Writing
  <2>2. \A b \in Bucket : RingOf(b) = <<>>
    <3>. SUFFICES ASSUME NEW b \in Bucket PROVE RingOf(b) = <<>>  OBVIOUS
    <3>1. size[b] = 0  BY DEF Init
    <3>2. TypeOK  BY InitInv DEF IInv
    <3>3. RingOf(b) = Ring(table[b], next[b], 0)
      BY <2>1, <3>1 DEF RingOf, Ring, RingIndex
    <3>4. table[b] \in Rows /\ next[b] \in Way /\ 0 \in 0 .. HASHCACHE_WAYS
      BY <3>2, HashCacheAssumption DEF TypeOK, Rows, Slots
    <3>. QED  BY <3>3, <3>4, RingType, EmptySeq
  <2>. QED  BY <2>2 DEF Abs!Init
<1>2. ASSUME IInv, [Next]_vars
      PROVE  [Abs!Next]_[b \in Bucket |-> RingOf(b)]
  <2>. DEFINE fifo == [b \in Bucket |-> RingOf(b)]
  <2>1. TypeOK /\ TypeOK'  BY <1>2, TypeNext DEF IInv
  <2>2. ASSUME NEW t \in Thread, SetKey(t)
        PROVE  [Abs!Next]_fifo
    <3>1. PICK b \in Bucket :
            /\ \A c \in Bucket \ {b} : RingOf(c)' = RingOf(c)
            /\ \/ RingOf(b)' = RingOf(b)
               \/ Len(RingOf(b)) = HASHCACHE_WAYS /\ RingOf(b)' = Tail(RingOf(b))
      BY <1>2, <2>1, <2>2, SetKeyRefines
    <3>2. CASE RingOf(b)' = RingOf(b)  BY <3>1, <3>2
    <3>3. CASE Len(RingOf(b)) = HASHCACHE_WAYS /\ RingOf(b)' = Tail(RingOf(b))
      <4>1. fifo' = [fifo EXCEPT ![b] = Tail(@)]  BY <3>1, <3>3
      <4>2. Abs!Forget(b)  BY <3>3, <4>1 DEF Abs!Forget
      <4>. QED  BY <4>2 DEF Abs!Next
    <3>. QED  BY <3>1, <3>2, <3>3
  <2>3. ASSUME NEW t \in Thread, SetValue(t)
        PROVE  [Abs!Next]_fifo
    <3>1. PICK k \in Key :
           LET b == BucketOf[k] IN
           /\ b \in Bucket
           /\ \A c \in Bucket \ {b} : RingOf(c)' = RingOf(c)
           /\ \A i \in 1 .. Len(RingOf(b)) : RingOf(b)[i].key # k
           /\ Len(RingOf(b)) \in 0 .. HASHCACHE_WAYS - 1
           /\ RingOf(b)' = Append(RingOf(b), [key |-> k, value |-> Result[k]])
      BY <1>2, <2>1, <2>3, SetValueRefines
    <3>. DEFINE b == BucketOf[k]
    <3>2. fifo' = [fifo EXCEPT ![b] = Append(@, [key |-> k, value |-> Result[k]])]
      BY <3>1
    <3>3. k \notin Abs!Keys(b)  BY <3>1 DEF Abs!Keys
    <3>4. Len(fifo[b]) < HASHCACHE_WAYS  BY <3>1, HashCacheAssumption
    <3>5. Abs!Add(k)  BY <3>2, <3>3, <3>4 DEF Abs!Add
    <3>. QED  BY <3>5 DEF Abs!Next
  <2>4. CASE (\E t \in Thread : Aside(t)) \/ UNCHANGED vars
    BY <2>1, <2>4, OtherRefines
  <2>. QED  BY <1>2, <2>2, <2>3, <2>4 DEF Next, Step, Aside
<1>. QED  BY <1>1, <1>2, Invariance, PTL DEF Spec, ImplementsFifo, Abs!Spec
=============================================================================
