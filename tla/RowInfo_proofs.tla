--------------------------- MODULE RowInfo_proofs ---------------------------
(***************************************************************************)
(* Proofs about RowInfo.tla: whatever the number of threads, rows with the *)
(* same value get the same handle, no value is added once the second round *)
(* reads them, and, if the number of threads divides the sizes of the      *)
(* tables, every row leads to its own info.                                *)
(*                                                                         *)
(* That is not inductive: it speaks of the end of the build only.  IInv    *)
(* adds where each thread may be while the main thread creates and joins   *)
(* them (PlaceRight), that the handle a thread has found is still the one  *)
(* of its value (the mutex), that a noted handle is the one of the row's   *)
(* value (HandlesRight), and how far each thread has come: all it has gone *)
(* over is noted, or has its info (WorkDone).                              *)
(***************************************************************************)
EXTENDS RowInfo, NumberLemmas

(* Where a thread is at a row, and where it has the mutex.                 *)
Inside == {"find", "store", "unlock"}
AtRow == {"lock"} \cup Inside

(* The place of a thread in the loops of thr_parallel, and whether the     *)
(* first of them has passed it in this round.                              *)
Number(t) == IF t = MAIN THEN 0 ELSE t
Created(t) == main.op # "create" \/ Number(t) < main.i

(* Threads that are not created yet, or are joined, are not in the loop;   *)
(* one at a row has a row of the enumeration, and the mutex from the       *)
(* lookup to the unlock; one that has exited has come to the end of its    *)
(* share.                                                                  *)
PlaceRight(t) ==
  /\ ~Created(t) => pc[t] = IF phase = "value" THEN "none" ELSE "exited"
  /\ Created(t) => pc[t] # "none"
  /\ main.op = "join" /\ Number(t) < main.i => pc[t] = "exited"
  /\ main.op = "built" => pc[t] = "exited"
  /\ pc[t] \in AtRow => phase = "value" /\ index[t] \in rows
  /\ pc[t] \in Inside => mtx = t
  /\ pc[t] = "store" => found[t] = vals[RowVal(t)]
  /\ pc[t] = "unlock" => hashed2valIndex[index[t]] # 0
  /\ Created(t) /\ phase # "ready" =>
       /\ From(NUM_THREADS, Size, t) <= index[t]
       /\ pc[t] = "exited" => To(NUM_THREADS, Size, t) <= index[t]

(* Only the transforms need the second round.                              *)
RoundsRight ==
  /\ main.op = "built" <=> phase = "ready"
  /\ phase = "info" => ~IS_DIRECT

(* No two values have one handle, and the handle noted for a row is the    *)
(* one of its value.                                                       *)
HandlesRight ==
  /\ \A x, y \in Val : vals[x] = vals[y] /\ vals[x] # 0 => x = y
  /\ \A r \in rows : hashed2valIndex[r] # 0 => hashed2valIndex[r] = vals[ValOf(transform[r])]

(* The rows and the slots from the start of a thread's share to before n.  *)
Noted(t, n) ==
  \A r \in rows : From(NUM_THREADS, NUM_ROWS, t) <= r /\ r < n => hashed2valIndex[r] # 0
Filled(t, n) ==
  \A x \in Val :
    vals[x] # 0 /\ From(NUM_THREADS, VALS_SIZE, t) <= vals[x] /\ vals[x] < n =>
      tr2info[Number(t)][vals[x] - From(NUM_THREADS, VALS_SIZE, t)] = GetInfo[x]

(* The work a thread has done in the round that runs, and the one all have *)
(* done in the rounds before.                                              *)
WorkDone(t) ==
  /\ phase = "value" /\ Created(t) => Noted(t, index[t])
  /\ phase # "value" => Noted(t, To(NUM_THREADS, NUM_ROWS, t))
  /\ phase = "info" /\ Created(t) => Filled(t, index[t])
  /\ phase = "ready" /\ ~IS_DIRECT => Filled(t, To(NUM_THREADS, VALS_SIZE, t))

(* The inductive invariant.                                                *)
IInv ==
  /\ TypeOK
  /\ RoundsRight
  /\ HandlesRight
  /\ \A t \in Thread : PlaceRight(t) /\ WorkDone(t)
-----------------------------------------------------------------------------
(* The share of a thread is as long as every other.                        *)
LEMMA ShareIs ==
  ASSUME NEW n \in Nat, NEW s \in Nat, NEW t \in ThreadIds(n)
  PROVE  /\ From(n, s, t) \in Nat /\ To(n, s, t) \in Nat
         /\ To(n, s, t) = From(n, s, t) + (IF n = 0 THEN s ELSE s \div n)
<1>1. CASE n = 0  BY <1>1 DEF ThreadIds, From, To, MAIN
<1>2. CASE n # 0
  <2>1. t \in Nat /\ t # MAIN  BY <1>2 DEF ThreadIds, MAIN
  <2>. DEFINE c == s \div n
  <2>2. c \in Nat  BY <1>2, DivMod
  <2>. HIDE DEF c
  <2>3. c * t \in Nat /\ c * (t + 1) = c * t + c  BY <2>1, <2>2
  <2>4. From(n, s, t) = c * t /\ To(n, s, t) = c * (t + 1)  BY <2>1 DEF From, To, c
  <2>. QED  BY <1>2, <2>2, <2>3, <2>4 DEF c
<1>. QED  BY <1>1, <1>2

(* The threads and their places in the loops of thr_parallel.              *)
LEMMA Numbers ==
  ASSUME TypeOK
  PROVE  /\ NUM_THREADS \in Nat /\ NumCreated \in Nat \ {0}
         /\ \A t \in Thread : Number(t) \in Array /\ ThreadAt(Number(t)) = t
         /\ \A i \in Array : ThreadAt(i) \in Thread /\ Number(ThreadAt(i)) = i
<1>1. NUM_THREADS \in Nat  BY RowInfoAssumption DEF TypeOK, NUM_THREADS
<1>. QED  BY <1>1 DEF NumCreated, Array, Thread, ThreadIds, ThreadAt, Number, MAIN

(* The share of a thread in the round that runs.                           *)
LEMMA Shares ==
  ASSUME TypeOK, NEW t \in Thread
  PROVE  /\ Size \in Nat
         /\ \A s \in {NUM_ROWS, VALS_SIZE, Size} :
              /\ From(NUM_THREADS, s, t) \in Nat /\ To(NUM_THREADS, s, t) \in Nat
              /\ From(NUM_THREADS, s, t) <= To(NUM_THREADS, s, t)
<1>1. NUM_THREADS \in Nat  BY Numbers
<1>2. Size \in Nat /\ NUM_ROWS \in Nat /\ VALS_SIZE \in Nat  BY RowInfoAssumption DEF Size
<1>3. ASSUME NEW s \in Nat
      PROVE  /\ From(NUM_THREADS, s, t) \in Nat /\ To(NUM_THREADS, s, t) \in Nat
             /\ From(NUM_THREADS, s, t) <= To(NUM_THREADS, s, t)
  <2>1. (IF NUM_THREADS = 0 THEN s ELSE s \div NUM_THREADS) \in Nat  BY <1>1, DivMod
  <2>. QED  BY <1>1, <2>1, ShareIs DEF Thread
<1>. QED  BY <1>2, <1>3

(* The value of a row is one that the set of values may hold.              *)
LEMMA ValType ==
  ASSUME TypeOK, NEW r \in rows
  PROVE  ValOf(transform[r]) \in Val
BY RowInfoAssumption DEF TypeOK, ValOf, Val, rows

(* The options and the enumeration are fixed.                              *)
LEMMA Stays ==
  ASSUME [Next]_vars
  PROVE  /\ build' = build /\ transform' = transform
         /\ NUM_THREADS' = NUM_THREADS /\ IS_DIRECT' = IS_DIRECT
         /\ Thread' = Thread /\ Val' = Val /\ rows' = rows /\ Array' = Array
         /\ ArraySize' = ArraySize /\ NumCreated' = NumCreated
<1>1. build' = build /\ transform' = transform
  BY DEF Next, vars, Create, Join, Step, Built, Exit, Skip, Compute, Lock, Find, Store, Unlock, WriteInfo
<1>. QED
  BY <1>1 DEF NUM_THREADS, IS_DIRECT, Thread, Val, rows, Array, ArraySize, NumCreated

(* A step of a thread moves no other.                                      *)
LEMMA StepFrame ==
  ASSUME TypeOK, NEW t \in Thread, Step(t)
  PROVE  /\ UNCHANGED <<build, transform, phase, main>>
         /\ \A u \in Thread \ {t} : pc'[u] = pc[u] /\ index'[u] = index[u] /\ found'[u] = found[u]
BY DEF TypeOK, Step, Exit, Skip, Compute, Lock, Find, Store, Unlock, WriteInfo, Goto, NextIndex
-----------------------------------------------------------------------------
(* Types.                                                                  *)

(* The build starts with the types right.                                  *)
LEMMA InitType == Init => TypeOK
<1>. SUFFICES ASSUME Init PROVE TypeOK  OBVIOUS
<1>1. build \in [threads : NumThreads, direct : BOOLEAN]  BY DEF Init
<1>2. NUM_THREADS \in Nat  BY <1>1, RowInfoAssumption DEF NUM_THREADS
<1>3. rows \subseteq Row /\ transform \in [rows -> Transform]  BY DEF Init, rows
<1>4. main \in [op : {"create", "join", "built"}, i : 0 .. NumCreated - 1]
  BY <1>2 DEF Init, NumCreated
<1>. QED  BY <1>1, <1>3, <1>4 DEF Init, TypeOK

(* Every step keeps the types.                                             *)
LEMMA TypeNext ==
  ASSUME IInv, [Next]_vars
  PROVE  TypeOK'
<1>. USE DEF IInv
<1>0. /\ build' = build /\ transform' = transform
      /\ NUM_THREADS' = NUM_THREADS /\ IS_DIRECT' = IS_DIRECT
      /\ Thread' = Thread /\ Val' = Val /\ rows' = rows /\ Array' = Array
      /\ ArraySize' = ArraySize /\ NumCreated' = NumCreated
  BY Stays
<1>1. CASE Create
  <2>1. main.i \in Array /\ ThreadAt(main.i) \in Thread
    BY Numbers DEF TypeOK, Array
  <2>2. From(NUM_THREADS, Size, ThreadAt(main.i)) \in Nat  BY <2>1, Shares
  <2>3. index' \in [Thread -> Nat]  BY <1>1, <2>2 DEF Create, TypeOK
  <2>4. pc' \in [Thread -> {"none", "loop", "lock", "find", "store", "unlock", "exited"}]
    BY <1>1 DEF Create, TypeOK
  <2>5. main' \in [op : {"create", "join", "built"}, i : 0 .. NumCreated - 1]
    <3>1. NumCreated \in Nat \ {0}  BY Numbers
    <3>2. main.i + 1 < NumCreated => main.i + 1 \in 0 .. NumCreated - 1  BY <3>1 DEF TypeOK
    <3>3. CASE main.i + 1 < NumCreated
      <4>1. main' = [main EXCEPT !.i = main.i + 1]  BY <1>1, <3>3 DEF Create
      <4>. QED  BY <3>2, <3>3, <4>1 DEF TypeOK
    <3>4. CASE ~ (main.i + 1 < NumCreated)
      BY <1>1, <3>1, <3>4 DEF Create
    <3>. QED  BY <3>3, <3>4
  <2>. QED  BY <1>0, <1>1, <2>3, <2>4, <2>5 DEF Create, TypeOK
<1>2. CASE Join
  <2>1. NumCreated \in Nat \ {0}  BY Numbers
  <2>2. main' \in [op : {"create", "join", "built"}, i : 0 .. NumCreated - 1]
    <3>1. CASE ~ LastJoined
      <4>1. main' = [main EXCEPT !.i = main.i + 1]  BY <1>2, <3>1 DEF Join
      <4>2. main.i + 1 \in 0 .. NumCreated - 1  BY <2>1, <3>1 DEF TypeOK, LastJoined
      <4>. QED  BY <4>1, <4>2 DEF TypeOK
    <3>2. CASE LastJoined
      <4>1. main'.op \in {"create", "built"} /\ main' = [op |-> main'.op, i |-> 0]
        BY <1>2, <3>2 DEF Join
      <4>. QED  BY <2>1, <4>1
    <3>. QED  BY <3>1, <3>2
  <2>3. phase' \in {"value", "info", "ready"}  BY <1>2 DEF Join, TypeOK
  <2>. QED  BY <1>0, <1>2, <2>2, <2>3 DEF Join, TypeOK
<1>3. ASSUME NEW t \in Thread, Exit(t) \/ Compute(t)
      PROVE  TypeOK'
  BY <1>0, <1>3 DEF Exit, Compute, Goto, TypeOK
<1>4. ASSUME NEW t \in Thread, Skip(t) \/ Unlock(t)
      PROVE  TypeOK'
  <2>1. index' \in [Thread -> Nat]  BY <1>4 DEF Skip, Unlock, NextIndex, TypeOK
  <2>2. pc' \in [Thread -> {"none", "loop", "lock", "find", "store", "unlock", "exited"}]
    BY <1>4 DEF Skip, Unlock, Goto, TypeOK
  <2>3. mtx' \in Thread \cup {None}  BY <1>4 DEF Skip, Unlock, TypeOK
  <2>. QED  BY <1>0, <1>4, <2>1, <2>2, <2>3 DEF Skip, Unlock, TypeOK
<1>5. ASSUME NEW t \in Thread, Lock(t)
      PROVE  TypeOK'
  BY <1>0, <1>5 DEF Lock, Goto, TypeOK
<1>6. ASSUME NEW t \in Thread, Find(t)
      PROVE  TypeOK'
  <2>1. found' \in [Thread -> {0} \cup Slot]
    <3>1. RowVal(t) \in Val  BY <1>6, ValType DEF Find, PlaceRight, AtRow, Inside, RowVal
    <3>. QED  BY <1>6, <3>1 DEF Find, TypeOK
  <2>. QED  BY <1>0, <1>6, <2>1 DEF Find, Goto, TypeOK
<1>7. ASSUME NEW t \in Thread, Store(t)
      PROVE  TypeOK'
  <2>1. vals' \in [Val -> {0} \cup Slot]
    BY <1>7 DEF Store, TypeOK, FreeSlot
  <2>2. hashed2valIndex' \in [0 .. NUM_ROWS - 1 -> {0} \cup Slot]
    BY <1>7 DEF Store, TypeOK, FreeSlot
  <2>. QED  BY <1>0, <1>7, <2>1, <2>2 DEF Store, Goto, TypeOK
<1>8. ASSUME NEW t \in Thread, WriteInfo(t)
      PROVE  TypeOK'
  <2>1. index' \in [Thread -> Nat]  BY <1>8 DEF WriteInfo, NextIndex, TypeOK
  <2>2. tr2info' \in [Array -> [0 .. ArraySize - 1 -> Info \cup {NoInfo}]]
    <3>1. PICK x \in Val, a \in Array, j \in Int : tr2info' = [tr2info EXCEPT ![a][j] = GetInfo[x]]
      <4>1. Number(t) \in Array  BY Numbers
      <4>2. index[t] - From(NUM_THREADS, VALS_SIZE, t) \in Int  BY Shares DEF TypeOK
      <4>. QED  BY <1>8, <4>1, <4>2 DEF WriteInfo, Number
    <3>2. GetInfo[x] \in Info
      BY <1>8, <3>1, RowInfoAssumption DEF WriteInfo, RoundsRight, Val
    <3>3. tr2info[a] \in [0 .. ArraySize - 1 -> Info \cup {NoInfo}]  BY DEF TypeOK
    <3>4. [tr2info[a] EXCEPT ![j] = GetInfo[x]] \in [0 .. ArraySize - 1 -> Info \cup {NoInfo}]
      BY <3>2, <3>3
    <3>. QED  BY <3>1, <3>4 DEF TypeOK
  <2>. QED  BY <1>0, <1>8, <2>1, <2>2 DEF WriteInfo, TypeOK
<1>9. CASE UNCHANGED vars  BY <1>0, <1>9 DEF vars, TypeOK
<1>. QED  BY <1>1, <1>2, <1>3, <1>4, <1>5, <1>6, <1>7, <1>8, <1>9 DEF Next, Step, Built
-----------------------------------------------------------------------------
(* When the last thread is joined, all have exited.                        *)
LEMMA AllExited ==
  ASSUME IInv, Join, LastJoined, NEW t \in Thread
  PROVE  pc[t] = "exited"
<1>1. /\ Number(t) \in 0 .. NumCreated - 1 /\ ThreadAt(Number(t)) = t
      /\ NumCreated \in Nat \ {0} /\ main.i = NumCreated - 1
  BY Numbers DEF IInv, Array, LastJoined
<1>2. CASE Number(t) = main.i  BY <1>1, <1>2 DEF Join
<1>3. CASE Number(t) # main.i
  <2>1. Number(t) < main.i  BY <1>1, <1>3
  <2>. QED  BY <2>1 DEF IInv, PlaceRight, Join
<1>. QED  BY <1>2, <1>3

(* Every step leaves the threads where the rounds have them.               *)
LEMMA PlaceNext ==
  ASSUME IInv, [Next]_vars, NEW u \in Thread
  PROVE  PlaceRight(u)' /\ RoundsRight'
<1>. USE DEF IInv
<1>0. /\ build' = build /\ transform' = transform
      /\ NUM_THREADS' = NUM_THREADS /\ IS_DIRECT' = IS_DIRECT
      /\ Thread' = Thread /\ rows' = rows /\ NumCreated' = NumCreated
  BY Stays
<1>. DEFINE n == Number(u)
<1>1. n \in 0 .. NumCreated - 1 /\ ThreadAt(n) = u /\ NumCreated \in Nat \ {0}
      /\ \A i \in 0 .. NumCreated - 1 : ThreadAt(i) = u => i = n
  BY Numbers DEF Array
<1>2. CASE Create
  <2>1. /\ main.op = "create" /\ main.i \in 0 .. NumCreated - 1
        /\ pc' = [pc EXCEPT ![ThreadAt(main.i)] = "loop"]
        /\ index' = [index EXCEPT ![ThreadAt(main.i)] = From(NUM_THREADS, Size, ThreadAt(main.i))]
        /\ UNCHANGED <<phase, found, mtx, vals, hashed2valIndex>>
        /\ main' = IF main.i + 1 < NumCreated THEN [main EXCEPT !.i = main.i + 1]
                   ELSE [op |-> "join", i |-> 0]
    BY <1>2 DEF Create, TypeOK
  <2>2. phase # "ready"  BY <2>1 DEF RoundsRight
  <2>3. main'.op \in {"create", "join"} /\ Created(u)' <=> Created(u) \/ n = main.i
    <3>1. CASE main.i + 1 < NumCreated
      <4>1. main'.op = "create" /\ main'.i = main.i + 1  BY <2>1, <3>1 DEF TypeOK
      <4>. QED  BY <1>1, <2>1, <4>1 DEF Created
    <3>2. CASE ~ (main.i + 1 < NumCreated)
      <4>1. main'.op = "join"  BY <2>1, <3>2
      <4>2. n <= main.i  BY <1>1, <2>1, <3>2
      <4>. QED  BY <1>1, <2>1, <4>1, <4>2 DEF Created
    <3>. QED  BY <3>1, <3>2
  <2>4. main'.op \in {"create", "join"} /\ ~ (main'.op = "join" /\ n < main'.i)
    BY <1>1, <2>1 DEF TypeOK
  <2>5. RoundsRight'  BY <1>0, <2>1, <2>2, <2>4 DEF RoundsRight
  <2>6. CASE n = main.i
    <3>1. ThreadAt(main.i) = u  BY <1>1, <2>6
    <3>2. pc'[u] = "loop" /\ index'[u] = From(NUM_THREADS, Size, u)
      BY <2>1, <3>1 DEF TypeOK
    <3>3. From(NUM_THREADS, Size, u) <= index'[u] /\ Size' = Size
      BY <2>1, <3>2, Shares DEF Size
    <3>. QED  BY <1>0, <2>1, <2>3, <2>4, <2>5, <2>6, <3>2, <3>3 DEF PlaceRight, AtRow, Inside
  <2>7. CASE n # main.i
    <3>1. ThreadAt(main.i) # u  BY <1>1, <2>1, <2>7
    <3>2. pc'[u] = pc[u] /\ index'[u] = index[u]  BY <2>1, <3>1 DEF TypeOK
    <3>3. Size' = Size /\ RowVal(u)' = RowVal(u)
      BY <1>0, <2>1, <3>2 DEF Size, RowVal, ValOf
    <3>. QED  BY <1>0, <2>1, <2>3, <2>4, <2>5, <2>7, <3>2, <3>3 DEF PlaceRight
  <2>. QED  BY <2>6, <2>7
<1>3. CASE Join
  <2>1. UNCHANGED <<pc, index, found, mtx, vals, hashed2valIndex>>  BY <1>3 DEF Join
  <2>2. CASE ~ LastJoined
    <3>1. /\ main.op = "join" /\ main'.op = "join" /\ main'.i = main.i + 1 /\ phase' = phase
          /\ pc[ThreadAt(main.i)] = "exited" /\ main.i \in 0 .. NumCreated - 1
      BY <1>3, <2>2 DEF Join, TypeOK
    <3>2. n < main'.i => n < main.i \/ n = main.i  BY <1>1, <3>1
    <3>3. n < main'.i => pc[u] = "exited"  BY <1>1, <3>1, <3>2 DEF PlaceRight
    <3>4. Created(u) /\ Created(u)' /\ Size' = Size /\ RowVal(u)' = RowVal(u)
      BY <1>0, <2>1, <3>1 DEF Created, Size, RowVal, ValOf
    <3>5. RoundsRight'  BY <1>0, <3>1 DEF RoundsRight
    <3>. QED  BY <1>0, <2>1, <3>1, <3>3, <3>4, <3>5 DEF PlaceRight
  <2>3. CASE LastJoined
    <3>1. pc[u] = "exited"  BY <1>3, <2>3, AllExited
    <3>2. \/ phase' = "info" /\ ~ IS_DIRECT /\ main' = [op |-> "create", i |-> 0]
          \/ phase' = "ready" /\ main' = [op |-> "built", i |-> 0]
      BY <1>3, <2>3 DEF Join
    <3>3. phase' = "info" => ~ Created(u)'  BY <1>1, <3>2 DEF Created
    <3>4. RoundsRight'  BY <1>0, <3>2 DEF RoundsRight
    <3>. QED  BY <2>1, <3>1, <3>2, <3>3, <3>4 DEF PlaceRight, AtRow, Inside
  <2>. QED  BY <2>2, <2>3
<1>4. ASSUME NEW t \in Thread, Step(t)
      PROVE  PlaceRight(u)' /\ RoundsRight'
  <2>1. /\ UNCHANGED <<phase, main>>
        /\ u # t => pc'[u] = pc[u] /\ index'[u] = index[u] /\ found'[u] = found[u]
    BY <1>4, StepFrame
  <2>2. (Created(u)' <=> Created(u)) /\ Size' = Size  BY <2>1 DEF Created, Size
  <2>3. RoundsRight'  BY <1>0, <2>1 DEF RoundsRight
  <2>4. index'[u] = index[u] => RowVal(u)' = RowVal(u)
    BY <1>0 DEF RowVal, ValOf
  <2>5. Created(t) /\ pc[t] # "exited" /\ main.op # "built"
    BY <1>4 DEF Step, Exit, Skip, Compute, Lock, Find, Store, Unlock, WriteInfo, AtElement, PlaceRight
  <2>6. phase # "ready"  BY <2>5 DEF RoundsRight
  <2>7. index[t] \in Nat /\ From(NUM_THREADS, Size, t) \in Nat /\ To(NUM_THREADS, Size, t) \in Nat
        /\ From(NUM_THREADS, Size, t) <= index[t]
    BY <2>5, <2>6, Shares DEF TypeOK, PlaceRight
  <2>8. CASE Exit(t)
    BY <1>0, <2>1, <2>2, <2>3, <2>4, <2>5, <2>6, <2>7, <2>8
       DEF Exit, Goto, PlaceRight, TypeOK, AtRow, Inside
  <2>9. CASE Skip(t) \/ WriteInfo(t)
    <3>1. pc' = pc /\ index' = [index EXCEPT ![t] = index[t] + 1] /\ pc[t] = "loop"
          /\ UNCHANGED <<found, mtx, vals, hashed2valIndex>>
      BY <2>9 DEF Skip, WriteInfo, NextIndex, AtElement
    <3>. QED  BY <1>0, <2>1, <2>2, <2>3, <2>4, <2>5, <2>6, <2>7, <3>1
         DEF PlaceRight, TypeOK, AtRow, Inside
  <2>10. CASE Compute(t)
    BY <1>0, <2>1, <2>2, <2>3, <2>4, <2>5, <2>6, <2>7, <2>10
       DEF Compute, AtElement, IsUsed, Goto, PlaceRight, TypeOK, AtRow, Inside
  <2>11. CASE Lock(t)
    <3>1. mtx = None /\ None \notin Thread
      BY <2>11, Numbers, NoneAssumption DEF Lock, CanLock, Thread, ThreadIds, MAIN
    <3>. QED  BY <1>0, <2>1, <2>2, <2>3, <2>4, <2>5, <2>6, <2>7, <2>11, <3>1
         DEF Lock, Goto, PlaceRight, TypeOK, AtRow, Inside
  <2>12. CASE Find(t)
    <3>1. vals[RowVal(t)] = found'[t] /\ index' = index /\ UNCHANGED <<mtx, vals, hashed2valIndex>>
          /\ pc[t] = "find" /\ pc' = [pc EXCEPT ![t] = "store"]
      BY <2>12 DEF Find, Goto, TypeOK
    <3>. QED  BY <1>0, <2>1, <2>2, <2>3, <2>4, <2>5, <2>6, <2>7, <3>1
         DEF PlaceRight, TypeOK, AtRow, Inside
  <2>13. CASE Store(t)
    <3>1. /\ index' = index /\ mtx' = mtx
          /\ pc[t] = "store" /\ pc' = [pc EXCEPT ![t] = "unlock"]
          /\ mtx = t /\ index[t] \in rows
      BY <2>13 DEF Store, Goto, PlaceRight, AtRow, Inside
    <3>2. PICK s \in Slot : hashed2valIndex' = [hashed2valIndex EXCEPT ![index[t]] = s]
      BY <2>13 DEF Store, FreeSlot, TypeOK
    <3>3. index[t] \in 0 .. NUM_ROWS - 1 /\ s # 0
      BY <3>1, RowInfoAssumption DEF TypeOK, Row, Slot
    <3>4. hashed2valIndex'[index[t]] # 0  BY <3>2, <3>3 DEF TypeOK
    <3>5. u # t => pc[u] \notin Inside  BY <3>1 DEF PlaceRight
    <3>. QED  BY <1>0, <2>1, <2>2, <2>3, <2>4, <2>5, <2>6, <2>7, <3>1, <3>4, <3>5
         DEF PlaceRight, TypeOK, AtRow, Inside
  <2>14. CASE Unlock(t)
    <3>1. /\ index' = [index EXCEPT ![t] = index[t] + 1] /\ mtx' = None
          /\ pc[t] = "unlock" /\ pc' = [pc EXCEPT ![t] = "loop"]
          /\ UNCHANGED <<found, vals, hashed2valIndex>> /\ mtx = t
      BY <2>14 DEF Unlock, Goto, NextIndex, PlaceRight, Inside
    <3>2. u # t => pc[u] \notin Inside  BY <3>1 DEF PlaceRight
    <3>. QED  BY <1>0, <2>1, <2>2, <2>3, <2>4, <2>5, <2>6, <2>7, <3>1, <3>2
         DEF PlaceRight, TypeOK, AtRow, Inside
  <2>. QED  BY <1>4, <2>8, <2>9, <2>10, <2>11, <2>12, <2>13, <2>14 DEF Step
<1>5. CASE UNCHANGED vars
  <2>1. Size' = Size /\ RowVal(u)' = RowVal(u)  BY <1>5 DEF vars, Size, RowVal, ValOf, IS_DIRECT
  <2>. QED  BY <1>0, <1>5, <2>1 DEF vars, PlaceRight, RoundsRight, Created
<1>. QED  BY <1>2, <1>3, <1>4, <1>5 DEF Next, Built
-----------------------------------------------------------------------------
(* Only rowIndexedSet_add changes the handles: it notes, for the row, the  *)
(* slot of its value, which is a new one if the value had none.            *)
LEMMA StoreFacts ==
  ASSUME IInv, NEW t \in Thread, Store(t)
  PROVE  \E r \in rows, s \in Slot :
           LET v == ValOf(transform[r]) IN
           /\ r = index[t] /\ r \in 0 .. NUM_ROWS - 1 /\ v \in Val /\ s # 0
           /\ phase = "value" /\ pc[t] = "store" /\ index' = index
           /\ tr2info' = tr2info /\ pc' = [pc EXCEPT ![t] = "unlock"]
           /\ hashed2valIndex' = [hashed2valIndex EXCEPT ![r] = s]
           /\ \/ vals' = vals /\ vals[v] = s
              \/ /\ vals' = [vals EXCEPT ![v] = s]
                 /\ vals[v] = 0
                 /\ \A x \in Val : vals[x] # s
<1>. DEFINE r == index[t]
            v == ValOf(transform[r])
<1>1. /\ pc[t] = "store" /\ phase = "value" /\ r \in rows /\ found[t] = vals[v]
      /\ index' = index /\ tr2info' = tr2info /\ pc' = [pc EXCEPT ![t] = "unlock"]
  BY DEF IInv, Store, Goto, PlaceRight, AtRow, Inside, RowVal
<1>2. r \in 0 .. NUM_ROWS - 1 /\ v \in Val
  BY <1>1, ValType, RowInfoAssumption DEF IInv, TypeOK, Row
<1>3. \A s \in Slot : s # 0  BY RowInfoAssumption DEF Slot
<1>4. \A x \in Val : vals[x] \in {0} \cup Slot  BY DEF IInv, TypeOK
<1>5. CASE found[t] # 0
  <2>1. vals[v] \in Slot  BY <1>1, <1>2, <1>4, <1>5
  <2>2. hashed2valIndex' = [hashed2valIndex EXCEPT ![r] = vals[v]] /\ vals' = vals
    BY <1>1, <1>5 DEF Store
  <2>. QED  BY <1>1, <1>2, <1>3, <2>1, <2>2
<1>6. CASE found[t] = 0
  <2>1. PICK s \in FreeSlot : /\ vals' = [vals EXCEPT ![v] = s]
                              /\ hashed2valIndex' = [hashed2valIndex EXCEPT ![r] = s]
    BY <1>6 DEF Store, RowVal
  <2>2. s \in Slot /\ \A x \in Val : vals[x] # s  BY <2>1 DEF FreeSlot
  <2>. QED  BY <1>1, <1>2, <1>3, <1>6, <2>1, <2>2
<1>. QED  BY <1>5, <1>6

(* No other step changes the handles.                                      *)
LEMMA OtherHandles ==
  ASSUME [Next]_vars, ~ \E t \in Thread : Store(t)
  PROVE  UNCHANGED <<vals, hashed2valIndex>>
BY DEF Next, vars, Create, Join, Step, Built, Exit, Skip, Compute, Lock, Find, Unlock, WriteInfo

(* Every step keeps the handles right.                                     *)
LEMMA HandlesNext ==
  ASSUME IInv, [Next]_vars
  PROVE  HandlesRight'
<1>. USE DEF IInv
<1>0. transform' = transform /\ IS_DIRECT' = IS_DIRECT /\ Val' = Val /\ rows' = rows
  BY Stays
<1>1. \A r \in rows : ValOf(transform[r])' = ValOf(transform[r]) /\ ValOf(transform[r]) \in Val
  BY <1>0, ValType DEF ValOf
<1>2. ASSUME NEW t \in Thread, Store(t)
      PROVE  HandlesRight'
  <2>1. PICK r \in rows, s \in Slot :
           /\ r \in 0 .. NUM_ROWS - 1 /\ s # 0
           /\ hashed2valIndex' = [hashed2valIndex EXCEPT ![r] = s]
           /\ \/ vals' = vals /\ vals[ValOf(transform[r])] = s
              \/ /\ vals' = [vals EXCEPT ![ValOf(transform[r])] = s]
                 /\ vals[ValOf(transform[r])] = 0
                 /\ \A x \in Val : vals[x] # s
    BY <1>2, StoreFacts
  <2>2. PICK v \in Val : v = ValOf(transform[r])  BY <1>1
  <2>3. \A q \in rows : hashed2valIndex'[q] = IF q = r THEN s ELSE hashed2valIndex[q]
    BY <2>1, RowInfoAssumption DEF TypeOK, Row
  <2>4. CASE vals' = vals /\ vals[v] = s
    BY <1>0, <1>1, <2>2, <2>3, <2>4 DEF HandlesRight
  <2>5. CASE /\ vals' = [vals EXCEPT ![v] = s]
             /\ vals[v] = 0
             /\ \A x \in Val : vals[x] # s
    <3>1. \A x \in Val : vals'[x] = IF x = v THEN s ELSE vals[x]  BY <2>5 DEF TypeOK
    <3>. QED  BY <1>0, <1>1, <2>1, <2>2, <2>3, <2>5, <3>1 DEF HandlesRight
  <2>. QED  BY <2>1, <2>2, <2>4, <2>5
<1>3. CASE ~ \E t \in Thread : Store(t)
  <2>1. UNCHANGED <<vals, hashed2valIndex>>  BY <1>3, OtherHandles
  <2>. QED  BY <1>0, <1>1, <2>1 DEF HandlesRight
<1>. QED  BY <1>2, <1>3

(* Every step keeps what the threads have done, and adds what they do.     *)
LEMMA WorkNext ==
  ASSUME IInv, [Next]_vars, NEW u \in Thread
  PROVE  WorkDone(u)'
<1>. USE DEF IInv
<1>0. /\ build' = build /\ transform' = transform
      /\ NUM_THREADS' = NUM_THREADS /\ IS_DIRECT' = IS_DIRECT /\ Val' = Val
      /\ Thread' = Thread /\ rows' = rows /\ NumCreated' = NumCreated
  BY Stays
<1>. DEFINE n == Number(u)
<1>1. n \in 0 .. NumCreated - 1 /\ ThreadAt(n) = u /\ NumCreated \in Nat \ {0}
      /\ \A i \in 0 .. NumCreated - 1 : ThreadAt(i) = u => i = n
  BY Numbers DEF Array
<1>2. rows \subseteq Nat /\ \A x \in Val : vals[x] \in Nat
  BY RowInfoAssumption DEF TypeOK, Row, Slot
<1>3. CASE Create
  <2>1. /\ main.op = "create" /\ main.i \in 0 .. NumCreated - 1
        /\ index' = [index EXCEPT ![ThreadAt(main.i)] = From(NUM_THREADS, Size, ThreadAt(main.i))]
        /\ UNCHANGED <<phase, vals, hashed2valIndex, tr2info>>
        /\ main' = IF main.i + 1 < NumCreated THEN [main EXCEPT !.i = main.i + 1]
                   ELSE [op |-> "join", i |-> 0]
    BY <1>3 DEF Create, TypeOK
  <2>2. phase # "ready"  BY <2>1 DEF RoundsRight
  <2>3. CASE n = main.i
    <3>1. ThreadAt(main.i) = u  BY <1>1, <2>3
    <3>2. index'[u] = From(NUM_THREADS, Size, u) /\ From(NUM_THREADS, Size, u) \in Nat
      BY <2>1, <3>1, Shares DEF TypeOK
    <3>3. phase = "value" => Noted(u, index[u])'
      BY <1>0, <1>2, <2>1, <3>2 DEF Noted, Size
    <3>4. phase = "info" => Filled(u, index[u])'
      BY <1>0, <1>2, <2>1, <3>2 DEF Filled, Size
    <3>5. phase # "value" => Noted(u, To(NUM_THREADS, NUM_ROWS, u))'
      BY <1>0, <2>1 DEF WorkDone, Noted
    <3>. QED  BY <1>0, <2>1, <2>2, <3>3, <3>4, <3>5 DEF WorkDone
  <2>4. CASE n # main.i
    <3>1. ThreadAt(main.i) # u  BY <1>1, <2>1, <2>4
    <3>2. index'[u] = index[u]  BY <2>1, <3>1 DEF TypeOK
    <3>3. Created(u)' => Created(u)
      <4>1. CASE main.i + 1 < NumCreated
        <5>1. main'.op = "create" /\ main'.i = main.i + 1  BY <2>1, <4>1 DEF TypeOK
        <5>. QED  BY <1>1, <2>1, <2>4, <5>1 DEF Created
      <4>2. CASE ~ (main.i + 1 < NumCreated)  BY <1>1, <2>1, <2>4, <4>2 DEF Created
      <4>. QED  BY <4>1, <4>2
    <3>. QED  BY <1>0, <2>1, <2>2, <3>2, <3>3 DEF WorkDone, Noted, Filled
  <2>. QED  BY <2>3, <2>4
<1>4. CASE Join
  <2>1. UNCHANGED <<pc, index, vals, hashed2valIndex, tr2info>>  BY <1>4 DEF Join
  <2>2. CASE ~ LastJoined
    <3>1. main.op = "join" /\ main'.op = "join" /\ phase' = phase
      BY <1>4, <2>2 DEF Join, TypeOK
    <3>. QED  BY <1>0, <2>1, <3>1 DEF WorkDone, Noted, Filled, Created
  <2>3. CASE LastJoined
    <3>1. pc[u] = "exited" /\ Created(u)  BY <1>4, <2>3, AllExited DEF Join, Created
    <3>2. phase # "ready"  BY <1>4 DEF Join, RoundsRight
    <3>3. To(NUM_THREADS, Size, u) <= index[u] /\ index[u] \in Nat /\ To(NUM_THREADS, Size, u) \in Nat
      BY <3>1, <3>2, Shares DEF PlaceRight, TypeOK
    <3>4. Noted(u, To(NUM_THREADS, NUM_ROWS, u))
      <4>1. CASE phase = "value"
        BY <1>2, <3>1, <3>3, <4>1 DEF WorkDone, Noted, Size
      <4>. QED  BY <4>1 DEF WorkDone
    <3>5. phase = "info" => Filled(u, To(NUM_THREADS, VALS_SIZE, u))
      BY <1>2, <3>1, <3>3 DEF WorkDone, Filled, Size
    <3>6. \/ phase' = "info" /\ ~ IS_DIRECT /\ main' = [op |-> "create", i |-> 0]
          \/ phase' = "ready" /\ main' = [op |-> "built", i |-> 0] /\ (phase = "value" => IS_DIRECT)
      BY <1>4, <2>3 DEF Join
    <3>7. phase' = "info" => ~ Created(u)'  BY <1>1, <3>6 DEF Created
    <3>8. phase = "value" \/ phase = "info"  BY <3>2 DEF TypeOK
    <3>. QED  BY <1>0, <2>1, <3>4, <3>5, <3>6, <3>7, <3>8 DEF WorkDone, Noted, Filled
  <2>. QED  BY <2>2, <2>3
<1>5. ASSUME NEW t \in Thread, Step(t)
      PROVE  WorkDone(u)'
  <2>1. /\ UNCHANGED <<phase, main>>
        /\ u # t => index'[u] = index[u]
    BY <1>5, StepFrame
  <2>2. (Created(u)' <=> Created(u)) /\ Size' = Size  BY <2>1 DEF Created, Size
  <2>3. CASE Store(t)
    <3>1. PICK r \in rows, s \in Slot :
             /\ r \in 0 .. NUM_ROWS - 1 /\ s # 0 /\ phase = "value" /\ index' = index
             /\ hashed2valIndex' = [hashed2valIndex EXCEPT ![r] = s]
      BY <2>3, StoreFacts
    <3>2. \A q \in rows : hashed2valIndex'[q] = IF q = r THEN s ELSE hashed2valIndex[q]
      BY <3>1, RowInfoAssumption DEF TypeOK, Row
    <3>. QED  BY <1>0, <2>1, <2>2, <3>1, <3>2 DEF WorkDone, Noted
  <2>4. CASE Exit(t) \/ Compute(t) \/ Lock(t) \/ Find(t)
    <3>1. UNCHANGED <<index, vals, hashed2valIndex, tr2info>>
      BY <2>4 DEF Exit, Compute, Lock, Find
    <3>. QED  BY <1>0, <2>1, <2>2, <3>1 DEF WorkDone, Noted, Filled
  <2>5. CASE Skip(t)
    <3>1. /\ index' = [index EXCEPT ![t] = index[t] + 1] /\ ~ IsUsed(index[t])
          /\ UNCHANGED <<vals, hashed2valIndex, tr2info>>
      BY <2>5 DEF Skip, NextIndex
    <3>2. CASE u # t  BY <1>0, <2>1, <2>2, <3>1, <3>2 DEF WorkDone, Noted, Filled
    <3>3. CASE u = t
      <4>1. index[u] \in Nat /\ index'[u] = index[u] + 1  BY <3>1, <3>3 DEF TypeOK
      <4>2. phase = "value" /\ Noted(u, index[u]) => Noted(u, index'[u])
        <5>1. phase = "value" => index[u] \notin rows  BY <3>1, <3>3 DEF IsUsed
        <5>2. \A r \in rows : r < index[u] + 1 => r < index[u] \/ r = index[u]
          BY <1>2, <4>1
        <5>. QED  BY <4>1, <5>1, <5>2 DEF Noted
      <4>3. phase = "info" /\ Filled(u, index[u]) => Filled(u, index'[u])
        <5>1. phase = "info" => \A x \in Val : vals[x] # 0 => vals[x] # index[u]
          BY <3>1, <3>3 DEF IsUsed
        <5>2. \A x \in Val : vals[x] < index[u] + 1 => vals[x] < index[u] \/ vals[x] = index[u]
          BY <1>2, <4>1
        <5>. QED  BY <4>1, <5>1, <5>2 DEF Filled
      <4>. QED  BY <1>0, <2>1, <2>2, <3>1, <4>2, <4>3 DEF WorkDone, Noted, Filled
    <3>. QED  BY <3>2, <3>3
  <2>6. CASE Unlock(t)
    <3>1. /\ index' = [index EXCEPT ![t] = index[t] + 1] /\ hashed2valIndex[index[t]] # 0
          /\ phase = "value" /\ hashed2valIndex' = hashed2valIndex
      BY <2>6 DEF Unlock, NextIndex, PlaceRight, AtRow, Inside
    <3>2. CASE u # t  BY <1>0, <2>1, <2>2, <3>1, <3>2 DEF WorkDone, Noted
    <3>3. CASE u = t
      <4>1. index[u] \in Nat /\ index'[u] = index[u] + 1  BY <3>1, <3>3 DEF TypeOK
      <4>2. \A r \in rows : r < index[u] + 1 => r < index[u] \/ r = index[u]
        BY <1>2, <4>1
      <4>. QED  BY <1>0, <2>1, <2>2, <3>1, <3>3, <4>1, <4>2 DEF WorkDone, Noted
    <3>. QED  BY <3>2, <3>3
  <2>7. CASE WriteInfo(t)
    <3>. DEFINE base == From(NUM_THREADS, VALS_SIZE, t)
                i == index[t]
    <3>1. PICK x \in Val :
            /\ vals[x] = i /\ i # 0 /\ phase = "info"
            /\ tr2info' = [tr2info EXCEPT ![Number(t)][i - base] = GetInfo[x]]
            /\ index' = [index EXCEPT ![t] = i + 1]
            /\ pc[t] = "loop" /\ i < To(NUM_THREADS, VALS_SIZE, t)
            /\ UNCHANGED <<vals, hashed2valIndex>>
      BY <2>7 DEF WriteInfo, NextIndex, AtElement, Number, Size
    <3>2. Number(t) \in Array  BY Numbers
    <3>3. CASE u # t
      <4>1. Number(u) # Number(t)  BY <3>3, Numbers
      <4>2. tr2info'[Number(u)] = tr2info[Number(u)]  BY <3>1, <4>1 DEF TypeOK
      <4>. QED  BY <1>0, <2>1, <2>2, <3>1, <3>3, <4>2 DEF WorkDone, Noted, Filled
    <3>4. CASE u = t
      <4>1. Created(t)  BY <3>1 DEF PlaceRight
      <4>2. base \in Nat /\ i \in Nat /\ base <= i
        BY <3>1, <4>1, Shares DEF PlaceRight, TypeOK, Size
      <4>3. i - base \in 0 .. ArraySize - 1 /\ ArraySize \in Int
        <5>1. NUM_THREADS \in Nat  BY Numbers
        <5>2. To(NUM_THREADS, VALS_SIZE, t) =
                base + (IF NUM_THREADS = 0 THEN VALS_SIZE ELSE VALS_SIZE \div NUM_THREADS)
              /\ To(NUM_THREADS, VALS_SIZE, t) \in Nat
          BY <5>1, ShareIs, RowInfoAssumption DEF Thread
        <5>3. NUM_THREADS # 0 => VALS_SIZE \div NUM_THREADS \in Nat
          BY <5>1, RowInfoAssumption, DivMod
        <5>. HIDE DEF base, i
        <5>. QED  BY <3>1, <4>2, <5>1, <5>2, <5>3, RowInfoAssumption DEF ArraySize
      <4>4. tr2info[Number(t)] \in [0 .. ArraySize - 1 -> Info \cup {NoInfo}]
        BY <3>2 DEF TypeOK
      <4>5. tr2info'[Number(t)] = [tr2info[Number(t)] EXCEPT ![i - base] = GetInfo[x]]
        BY <3>1, <3>2 DEF TypeOK
      <4>6. Filled(t, i)  BY <3>1, <4>1 DEF WorkDone
      <4>7. ASSUME NEW y \in Val, vals[y] # 0, base <= vals[y], vals[y] < i + 1
            PROVE  tr2info'[Number(t)][vals[y] - base] = GetInfo[y]
        <5>1. CASE vals[y] = i
          <6>1. y = x  BY <3>1, <5>1 DEF HandlesRight
          <6>. QED  BY <4>3, <4>4, <4>5, <5>1, <6>1
        <5>2. CASE vals[y] # i
          <6>1. vals[y] \in Nat /\ vals[y] < i /\ vals[y] - base # i - base
            BY <1>2, <4>2, <4>7, <5>2
          <6>2. tr2info[Number(t)][vals[y] - base] = GetInfo[y]
            BY <4>6, <4>7, <6>1 DEF Filled
          <6>3. vals[y] - base \in 0 .. ArraySize - 1
            <7>. HIDE DEF base, i
            <7>. QED  BY <1>2, <4>2, <4>3, <4>7, <6>1
          <6>. QED  BY <4>4, <4>5, <6>1, <6>2, <6>3
        <5>. QED  BY <5>1, <5>2
      <4>8. Filled(u, index[u])'
        <5>1. index'[u] = i + 1  BY <3>1, <3>4 DEF TypeOK
        <5>. QED  BY <1>0, <3>1, <3>4, <4>7, <5>1 DEF Filled
      <4>. QED  BY <1>0, <2>1, <2>2, <3>1, <4>8 DEF WorkDone, Noted
    <3>. QED  BY <3>3, <3>4
  <2>. QED  BY <1>5, <2>3, <2>4, <2>5, <2>6, <2>7 DEF Step
<1>6. CASE UNCHANGED vars
  BY <1>0, <1>6 DEF vars, WorkDone, Noted, Filled, Created
<1>. QED  BY <1>3, <1>4, <1>5, <1>6 DEF Next, Built
-----------------------------------------------------------------------------
(* The inductive invariant holds of every state.                           *)
THEOREM Invariance == Spec => []IInv
<1>1. Init => IInv
  <2>. SUFFICES ASSUME Init PROVE IInv  OBVIOUS
  <2>1. TypeOK  BY InitType
  <2>2. RoundsRight  BY DEF Init, RoundsRight
  <2>3. HandlesRight
    <3>1. \A r \in rows : r \in 0 .. NUM_ROWS - 1
      BY <2>1, RowInfoAssumption DEF TypeOK, Row
    <3>. QED  BY <3>1 DEF Init, HandlesRight
  <2>4. ASSUME NEW t \in Thread
        PROVE  PlaceRight(t) /\ WorkDone(t)
    <3>1. Number(t) \in Nat /\ main.i = 0 /\ main.op = "create"
      BY <2>1, Numbers DEF Init, Array
    <3>2. ~ Created(t)  BY <3>1 DEF Created
    <3>. QED  BY <3>1, <3>2, <2>4 DEF Init, PlaceRight, WorkDone, AtRow, Inside
  <2>. QED  BY <2>1, <2>2, <2>3, <2>4 DEF IInv
<1>2. ASSUME IInv, [Next]_vars
      PROVE  IInv'
  <2>1. Thread' = Thread  BY <1>2, Stays
  <2>2. Thread # {}  BY Numbers, <1>2 DEF IInv, Array
  <2>3. RoundsRight'  BY <1>2, <2>2, PlaceNext
  <2>4. \A t \in Thread : PlaceRight(t)' /\ WorkDone(t)'  BY <1>2, PlaceNext, WorkNext
  <2>. QED  BY <1>2, <2>1, <2>3, <2>4, TypeNext, HandlesNext DEF IInv
<1>. QED  BY <1>1, <1>2, PTL DEF Spec

(* The variables keep their types: no index leaves its array, no handle    *)
(* its table.                                                              *)
THEOREM TypeCorrect == Spec => []TypeOK
<1>1. IInv => TypeOK  BY DEF IInv
<1>. QED  BY <1>1, Invariance, PTL

(* Rows have the same handle exactly when they have the same value.        *)
THEOREM HandlesAreValues == Spec => []SameHandleSameValue
<1>1. ASSUME IInv PROVE SameHandleSameValue
  <2>. SUFFICES ASSUME NEW r \in rows, NEW s \in rows, hashed2valIndex[r] # 0, hashed2valIndex[s] # 0
                PROVE  hashed2valIndex[r] = hashed2valIndex[s] <=> ValOf(transform[r]) = ValOf(transform[s])
    BY DEF SameHandleSameValue
  <2>1. ValOf(transform[r]) \in Val /\ ValOf(transform[s]) \in Val  BY <1>1, ValType DEF IInv
  <2>. QED  BY <1>1, <2>1 DEF IInv, HandlesRight
<1>. QED  BY <1>1, Invariance, PTL

(* No thread adds a value once the first round is over.                    *)
THEOREM AddsEnd == Spec => NoLateAdd
<1>1. ASSUME IInv, [Next]_vars
      PROVE  phase # "value" => UNCHANGED <<vals, hashed2valIndex>>
  <2>1. ASSUME NEW t \in Thread, Store(t) PROVE phase = "value"
    BY <1>1, <2>1, StoreFacts
  <2>. QED  BY <1>1, <2>1, OtherHandles
<1>. QED  BY <1>1, Invariance, PTL DEF Spec, NoLateAdd
-----------------------------------------------------------------------------
(* The number of threads divides the sizes of both tables.  The code does  *)
(* not make sure of it: the run that violates NoRowIsMissing shows what is *)
(* lost otherwise.                                                         *)
SharesCoverAll == \A n \in NumThreads \ {0} : NUM_ROWS % n = 0 /\ VALS_SIZE % n = 0

(* Then every index is in the share of the thread that it is divided by.   *)
LEMMA ShareOf ==
  ASSUME NEW n \in Nat \ {0}, NEW s \in Nat \ {0}, s % n = 0, NEW i \in 0 .. s - 1
  PROVE  LET c == s \div n
             a == i \div c
         IN  /\ c \in Nat /\ a \in 0 .. n - 1
             /\ c * a <= i /\ i < c * (a + 1)
<1>. DEFINE c == s \div n
            a == i \div c
<1>1. c \in Nat /\ s = n * c  BY DivMod
<1>2. c # 0  BY <1>1
<1>3. i \in Nat /\ i \in 0 .. n * c - 1  BY <1>1
<1>. HIDE DEF c
<1>4. i % c \in 0 .. c - 1 /\ a \in Nat /\ i = c * a + (i % c)  BY <1>1, <1>2, <1>3, DivMod
<1>5. a \in 0 .. n - 1  BY <1>1, <1>2, <1>3, DivBound
<1>. HIDE DEF a
<1>6. c * (a + 1) = c * a + c  BY <1>1, <1>4
<1>7. c * a \in Nat  BY <1>1, <1>4
<1>8. c * a <= i /\ i < c * (a + 1)  BY <1>1, <1>3, <1>4, <1>6, <1>7
<1>. QED  BY <1>1, <1>5, <1>8 DEF a, c

(* A row's thread has noted its handle, which is the one of its value.     *)
LEMMA ReadyRow ==
  ASSUME SharesCoverAll, IInv, phase = "ready", NEW r \in rows
  PROVE  /\ hashed2valIndex[r] # 0
         /\ hashed2valIndex[r] = vals[ValOf(transform[r])]
<1>. USE DEF IInv
<1>1. NUM_THREADS \in NumThreads /\ NUM_THREADS \in Nat  BY Numbers DEF TypeOK, NUM_THREADS
<1>2. r \in 0 .. NUM_ROWS - 1 /\ NUM_ROWS \in Nat \ {0}  BY RowInfoAssumption DEF TypeOK, Row
<1>3. PICK t \in Thread : /\ From(NUM_THREADS, NUM_ROWS, t) <= r
                          /\ r < To(NUM_THREADS, NUM_ROWS, t)
  <2>1. CASE NUM_THREADS = 0
    BY <1>2, <2>1 DEF Thread, ThreadIds, From, To
  <2>2. CASE NUM_THREADS # 0
    <3>. DEFINE c == NUM_ROWS \div NUM_THREADS
                a == r \div c
    <3>1. NUM_ROWS % NUM_THREADS = 0  BY <1>1, <2>2 DEF SharesCoverAll
    <3>2. a \in 0 .. NUM_THREADS - 1 /\ c * a <= r /\ r < c * (a + 1)
      BY <1>1, <1>2, <2>2, <3>1, ShareOf
    <3>. HIDE DEF c, a
    <3>3. a \in Thread /\ a # MAIN  BY <1>1, <2>2, <3>2 DEF Thread, ThreadIds, MAIN
    <3>. QED  BY <3>2, <3>3 DEF From, To, c
  <2>. QED  BY <2>1, <2>2
<1>4. hashed2valIndex[r] # 0  BY <1>3 DEF WorkDone, Noted
<1>. QED  BY <1>4 DEF HandlesRight

(* And the info of a value is where rowInfo_row2info looks for it.         *)
LEMMA ReadyInfo ==
  ASSUME SharesCoverAll, IInv, phase = "ready", ~ IS_DIRECT, NUM_THREADS # 0,
         NEW x \in Val, vals[x] # 0
  PROVE  LET i == vals[x] IN
         tr2info[ArrayOf(i)][i - ArrayOf(i) * (VALS_SIZE \div NUM_THREADS)] = GetInfo[x]
<1>. USE DEF IInv
<1>. DEFINE i == vals[x]
            c == VALS_SIZE \div NUM_THREADS
            a == i \div c
<1>1. NUM_THREADS \in NumThreads /\ NUM_THREADS \in Nat  BY Numbers DEF TypeOK, NUM_THREADS
<1>2. i \in 0 .. VALS_SIZE - 1 /\ VALS_SIZE \in Nat \ {0}
  BY RowInfoAssumption DEF TypeOK, Slot
<1>3. VALS_SIZE % NUM_THREADS = 0  BY <1>1 DEF SharesCoverAll
<1>4. c \in Nat /\ a \in 0 .. NUM_THREADS - 1 /\ c * a <= i /\ i < c * (a + 1)
  BY <1>1, <1>2, <1>3, ShareOf
<1>5. ArrayOf(i) = a
  <2>1. a # NUM_THREADS  BY <1>1, <1>4
  <2>. QED  BY <2>1 DEF ArrayOf
<1>. HIDE DEF c, a
<1>6. a \in Thread /\ a # MAIN  BY <1>1, <1>4 DEF Thread, ThreadIds, MAIN
<1>7. From(NUM_THREADS, VALS_SIZE, a) = c * a /\ To(NUM_THREADS, VALS_SIZE, a) = c * (a + 1)
  BY <1>6 DEF From, To, c
<1>8. tr2info[Number(a)][i - c * a] = GetInfo[x]
  BY <1>4, <1>6, <1>7 DEF WorkDone, Filled
<1>9. Number(a) = a  BY <1>6 DEF Number
<1>10. c * a = a * c  BY <1>4
<1>. QED  BY <1>5, <1>8, <1>9, <1>10 DEF c

(* If the number of threads divides the sizes, the assertion of            *)
(* rowIndexedSet_row2valIndex holds for every row.                         *)
THEOREM NoneMissing == SharesCoverAll => (Spec => []NoRowIsMissing)
<1>. SUFFICES ASSUME SharesCoverAll PROVE Spec => []NoRowIsMissing  OBVIOUS
<1>1. IInv => NoRowIsMissing  BY ReadyRow DEF NoRowIsMissing
<1>. QED  BY <1>1, Invariance, PTL

(* And every row leads to its own info, whichever thread computed it.      *)
THEOREM InfosRight == SharesCoverAll => (Spec => []EveryRowHasItsInfo)
<1>. SUFFICES ASSUME SharesCoverAll PROVE Spec => []EveryRowHasItsInfo  OBVIOUS
<1>1. ASSUME IInv PROVE EveryRowHasItsInfo
  <2>. SUFFICES ASSUME phase = "ready", NEW r \in rows
                PROVE  Row2Info(r) = GetInfo[transform[r]]
    BY DEF EveryRowHasItsInfo
  <2>1. PICK v \in Val : v = ValOf(transform[r])  BY <1>1, ValType DEF IInv
  <2>2. hashed2valIndex[r] = vals[v] /\ vals[v] # 0  BY <1>1, <2>1, ReadyRow
  <2>3. transform[r] \in Transform  BY <1>1 DEF IInv, TypeOK
  <2>4. CASE IS_DIRECT
    <3>1. v = GetInfo[transform[r]]  BY <2>1, <2>4 DEF ValOf
    <3>2. \A x \in Val : vals[x] = vals[v] => x = v  BY <1>1, <2>2 DEF IInv, HandlesRight
    <3>3. (CHOOSE x \in Val : vals[x] = vals[v]) = v  BY <3>2
    <3>. QED  BY <2>2, <2>4, <3>1, <3>3 DEF Row2Info
  <2>5. CASE ~ IS_DIRECT
    <3>1. GetInfo[v] = GetInfo[transform[r]]  BY <2>1, <2>3, <2>5, MaskAssumption DEF ValOf
    <3>2. CASE NUM_THREADS = 0
      <4>1. MAIN \in Thread /\ Number(MAIN) = 0  BY <3>2 DEF Thread, ThreadIds, Number
      <4>2. From(NUM_THREADS, VALS_SIZE, MAIN) = 0 /\ To(NUM_THREADS, VALS_SIZE, MAIN) = VALS_SIZE
        BY DEF From, To
      <4>3. vals[v] \in 0 .. VALS_SIZE - 1 /\ vals[v] - 0 = vals[v]
        BY <1>1, RowInfoAssumption DEF IInv, TypeOK, Slot
      <4>4. tr2info[0][vals[v]] = GetInfo[v]
        BY <1>1, <2>2, <2>5, <4>1, <4>2, <4>3, RowInfoAssumption DEF IInv, WorkDone, Filled
      <4>. QED  BY <2>2, <2>5, <3>1, <3>2, <4>4 DEF Row2Info
    <3>3. CASE NUM_THREADS # 0
      BY <1>1, <2>2, <2>5, <3>1, <3>3, ReadyInfo DEF Row2Info
    <3>. QED  BY <3>2, <3>3
  <2>. QED  BY <2>4, <2>5
<1>. QED  BY <1>1, Invariance, PTL
=============================================================================
