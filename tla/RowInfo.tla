------------------------------ MODULE RowInfo -------------------------------
(***************************************************************************)
(* rowInfo.c with rowIndexedSet.c, the loops of types.h and rowHashed.h    *)
(* that split an index range over the threads, and thr_parallel of         *)
(* multithread.h: the parallel computation of the info of every row.       *)
(*                                                                         *)
(* In a first round every thread goes over its share of the row indexes,   *)
(* computes the value of each row there (its info, or its transform) and,  *)
(* under a mutex, adds it to a hash set and notes its handle for the row.  *)
(* If the value is the transform, a second round goes over the slots of    *)
(* that set and computes the info of each distinct transform, each thread  *)
(* in an array of its own, with no lock.                                   *)
(*                                                                         *)
(* The set of values is the dictionary of Intern, which HashMap implements: *)
(* its handles are permanent, so a handle is written here as what it is    *)
(* used for once the set is complete, the slot it reduces to.              *)
(***************************************************************************)
EXTENDS Threads, FiniteSets

CONSTANTS
  NumThreads,   \* what NUM_THREADS may be; 0: no threads, the main thread
                \* runs the function itself
  NUM_ROWS,     \* rowHashed_getSize: row indexes are below it, 0 is not used
  VALS_SIZE,    \* slots of the set of values when it is complete
  Transform, Info,
  Mask,         \* a transform with the positions getInfo does not use at zero
  GetInfo,      \* gen.getInfo, from a transform
  NoInfo,       \* memory just calloc'ed
  None

ASSUME RowInfoAssumption ==
  /\ NumThreads \subseteq Nat
  /\ NUM_ROWS \in Nat \ {0}
  /\ VALS_SIZE \in Nat \ {0}
  /\ Mask \in [Transform -> Transform]
  /\ GetInfo \in [Transform -> Info]
(* hashTheTransforms_usingPositions covers the positions getInfo uses.     *)
ASSUME MaskAssumption == \A x \in Transform : GetInfo[Mask[x]] = GetInfo[x]
ASSUME NoInfoAssumption == NoInfo \notin Info
(* multithread_thr_getId is -1 in the main thread.                         *)
ASSUME NoneAssumption == None \notin Int

VARIABLES
  build,            \* NUM_THREADS, and whether the values are the infos: gen has
                    \* no positions to hash by
  transform,        \* the transform of each row of the enumeration (row hash set)
  phase,            \* the round that runs: "value", "info", then "ready"
  main,             \* thr_parallel: creating or joining thread main.i
  pc, index,        \* each thread's place in its loop
  found,            \* the handle hashSet_add found, inside the mutex
  mtx,
  vals,             \* the set of values: its slot for each value, 0 if absent
  hashed2valIndex,  \* handle of the value of each row, 0 if none was added
  tr2info           \* for each thread, the infos it wrote

NUM_THREADS == build.threads
IS_DIRECT   == build.direct

Thread == ThreadIds(NUM_THREADS)
NumCreated == IF NUM_THREADS = 0 THEN 1 ELSE NUM_THREADS
ThreadAt(i) == IF NUM_THREADS = 0 THEN MAIN ELSE i

Row  == 1 .. NUM_ROWS - 1
Slot == 1 .. VALS_SIZE - 1
Val  == IF IS_DIRECT THEN Info ELSE Transform

vars == <<build, transform, phase, main, pc, index, found, mtx, vals, hashed2valIndex, tr2info>>
rows == DOMAIN transform
-----------------------------------------------------------------------------
Size == IF phase = "value" THEN NUM_ROWS ELSE VALS_SIZE

(* The infos are in arrays of the threads' shares, NUM_THREADS longer.     *)
Array == 0 .. NumCreated - 1
ArraySize == IF NUM_THREADS = 0 THEN VALS_SIZE
             ELSE VALS_SIZE \div NUM_THREADS + NUM_THREADS

ValOf(x) == IF IS_DIRECT THEN GetInfo[x] ELSE Mask[x]

Init ==
  /\ build \in [threads : NumThreads, direct : BOOLEAN]
  /\ \E R \in SUBSET Row : transform \in [R -> Transform]
  /\ phase = "value"
  /\ main = [op |-> "create", i |-> 0]
  /\ pc = [t \in Thread |-> "none"]
  /\ index = [t \in Thread |-> 0]
  /\ found = [t \in Thread |-> 0]
  /\ mtx = None
  /\ vals = [x \in Val |-> 0]
  /\ hashed2valIndex = [r \in 0 .. NUM_ROWS - 1 |-> 0]
  /\ tr2info = [a \in Array |-> [j \in 0 .. ArraySize - 1 |-> NoInfo]]

(* thrd_create: the thread may run before the next one is created.         *)
Create ==
  /\ main.op = "create"
  /\ LET t == ThreadAt(main.i) IN
     /\ pc' = [pc EXCEPT ![t] = "loop"]
     /\ index' = [index EXCEPT ![t] = From(NUM_THREADS, Size, t)]
  /\ main' = IF main.i + 1 < NumCreated THEN [main EXCEPT !.i = @ + 1]
             ELSE [op |-> "join", i |-> 0]
  /\ UNCHANGED <<build, transform, phase, found, mtx, vals, hashed2valIndex, tr2info>>

(* Mutant of LastJoined: the last thread is not waited for.                *)
LastJoined_Early == main.i >= NumCreated - 2

(* thrd_join of one thread after another; then the next round, if any.     *)
LastJoined == main.i = NumCreated - 1

Join ==
  /\ main.op = "join"
  /\ pc[ThreadAt(main.i)] = "exited"
  /\ IF ~LastJoined THEN main' = [main EXCEPT !.i = @ + 1] /\ UNCHANGED phase
     ELSE IF phase = "value" /\ ~IS_DIRECT
          THEN phase' = "info" /\ main' = [op |-> "create", i |-> 0]
          ELSE phase' = "ready" /\ main' = [op |-> "built", i |-> 0]
  /\ UNCHANGED <<build, transform, pc, index, found, mtx, vals, hashed2valIndex, tr2info>>

(* Mutant of NextIndex: the loop does not go on.                           *)
NextIndex_Stays(t) == index' = index

Goto(t, l) == pc' = [pc EXCEPT ![t] = l]
NextIndex(t) == index' = [index EXCEPT ![t] = @ + 1]

Exit(t) ==
  /\ pc[t] = "loop"
  /\ index[t] >= To(NUM_THREADS, Size, t)
  /\ Goto(t, "exited")
  /\ UNCHANGED <<build, transform, phase, main, index, found, mtx, vals, hashed2valIndex, tr2info>>

AtElement(t) == pc[t] = "loop" /\ index[t] < To(NUM_THREADS, Size, t)
IsUsed(i) == IF phase = "value" THEN i \in rows
             ELSE \E x \in Val : vals[x] = i /\ i # 0

Skip(t) ==
  /\ AtElement(t)
  /\ ~IsUsed(index[t])
  /\ NextIndex(t)
  /\ UNCHANGED <<build, transform, phase, main, pc, found, mtx, vals, hashed2valIndex, tr2info>>

(* The transform of the row is computed without the lock.                  *)
Compute(t) ==
  /\ phase = "value"
  /\ AtElement(t)
  /\ IsUsed(index[t])
  /\ Goto(t, "lock")
  /\ UNCHANGED <<build, transform, phase, main, index, found, mtx, vals, hashed2valIndex, tr2info>>

(* Mutant of CanLock: the mutex excludes no one.                           *)
CanLock_Always == TRUE

CanLock == mtx = None

Lock(t) ==
  /\ pc[t] = "lock"
  /\ CanLock
  /\ mtx' = t
  /\ Goto(t, "find")
  /\ UNCHANGED <<build, transform, phase, main, index, found, vals, hashed2valIndex, tr2info>>

(* rowIndexedSet_add: hashSet_add looks for the value ...                  *)
RowVal(t) == ValOf(transform[index[t]])

Find(t) ==
  /\ pc[t] = "find"
  /\ found' = [found EXCEPT ![t] = vals[RowVal(t)]]
  /\ Goto(t, "store")
  /\ UNCHANGED <<build, transform, phase, main, index, mtx, vals, hashed2valIndex, tr2info>>

FreeSlot == {s \in Slot : \A x \in Val : vals[x] # s}

(* ... and gives a new one a slot; the handle is noted for the row.        *)
Store(t) ==
  /\ pc[t] = "store"
  /\ \/ /\ found[t] # 0
        /\ hashed2valIndex' = [hashed2valIndex EXCEPT ![index[t]] = found[t]]
        /\ UNCHANGED vals
     \/ /\ found[t] = 0
        /\ \E s \in FreeSlot :
             /\ vals' = [vals EXCEPT ![RowVal(t)] = s]
             /\ hashed2valIndex' = [hashed2valIndex EXCEPT ![index[t]] = s]
  /\ Goto(t, "unlock")
  /\ UNCHANGED <<build, transform, phase, main, index, found, mtx, tr2info>>

Unlock(t) ==
  /\ pc[t] = "unlock"
  /\ mtx' = None
  /\ NextIndex(t)
  /\ Goto(t, "loop")
  /\ UNCHANGED <<build, transform, phase, main, found, vals, hashed2valIndex, tr2info>>

(* fn_tr2info: the info of the transform in slot index[t], in t's array.   *)
WriteInfo(t) ==
  /\ phase = "info"
  /\ AtElement(t)
  /\ \E x \in Val :
       /\ vals[x] = index[t] /\ index[t] # 0
       /\ LET a == IF t = MAIN THEN 0 ELSE t
              j == index[t] - From(NUM_THREADS, VALS_SIZE, t)
          IN  tr2info' = [tr2info EXCEPT ![a][j] = GetInfo[x]]
  /\ NextIndex(t)
  /\ UNCHANGED <<build, transform, phase, main, pc, found, mtx, vals, hashed2valIndex>>

Step(t) ==
  \/ Exit(t) \/ Skip(t) \/ Compute(t) \/ Lock(t) \/ Find(t) \/ Store(t)
  \/ Unlock(t) \/ WriteInfo(t)

Built == phase = "ready" /\ UNCHANGED vars

Next == Create \/ Join \/ (\E t \in Thread : Step(t)) \/ Built

(* The main thread and every created thread are scheduled again and again; *)
(* a thread takes the mutex at most once per row, so weak fairness is      *)
(* enough.                                                                 *)
Fairness ==
  /\ WF_vars(Create \/ Join)
  /\ \A t \in {MAIN} \cup UNION {0 .. n - 1 : n \in NumThreads} : WF_vars(t \in Thread /\ Step(t))

Spec == Init /\ [][Next]_vars /\ Fairness
-----------------------------------------------------------------------------
(* rowInfo_row2info: the info of a row as the later steps read it.         *)
ArrayOf(i) ==
  LET a == i \div (VALS_SIZE \div NUM_THREADS) IN
  IF a = NUM_THREADS THEN a - 1 ELSE a

Row2Info(row) ==
  LET i == hashed2valIndex[row] IN
  IF IS_DIRECT
  THEN IF i = 0 THEN NoInfo ELSE CHOOSE x \in Val : vals[x] = i
  ELSE IF NUM_THREADS = 0 THEN tr2info[0][i]
       ELSE tr2info[ArrayOf(i)][i - ArrayOf(i) * (VALS_SIZE \div NUM_THREADS)]
-----------------------------------------------------------------------------
(* Types of the variables.                                                 *)
TypeOK ==
  /\ build \in [threads : NumThreads, direct : BOOLEAN]
  /\ rows \subseteq Row /\ transform \in [rows -> Transform]
  /\ phase \in {"value", "info", "ready"}
  /\ main \in [op : {"create", "join", "built"}, i : 0 .. NumCreated - 1]
  /\ pc \in [Thread -> {"none", "loop", "lock", "find", "store", "unlock", "exited"}]
  /\ index \in [Thread -> Nat]
  /\ found \in [Thread -> {0} \cup Slot]
  /\ mtx \in Thread \cup {None}
  /\ vals \in [Val -> {0} \cup Slot]
  /\ hashed2valIndex \in [0 .. NUM_ROWS - 1 -> {0} \cup Slot]
  /\ tr2info \in [Array -> [0 .. ArraySize - 1 -> Info \cup {NoInfo}]]

(* When the rounds are over, every row of the enumeration leads to its own *)
(* info, whichever thread computed it and in whatever order the values     *)
(* were added (rowInfo_row2info).                                          *)
EveryRowHasItsInfo ==
  phase = "ready" => \A r \in rows : Row2Info(r) = GetInfo[transform[r]]

(* The assertion of rowIndexedSet_row2valIndex ("Trying to get the missing *)
(* row"), for all rows: a complete build added every one of them.          *)
NoRowIsMissing ==
  phase = "ready" => \A r \in rows : hashed2valIndex[r] # 0

(* Rows have the same handle exactly when they have the same value: what   *)
(* rowInfo_row2hashInfo's callers compare instead of the values.  Threads  *)
(* that add the same value at once must not give it two handles.           *)
SameHandleSameValue ==
  \A r, s \in {r \in rows : hashed2valIndex[r] # 0} :
    hashed2valIndex[r] = hashed2valIndex[s] <=> ValOf(transform[r]) = ValOf(transform[s])

(* The second round, and all that follows it, reads a set of values that   *)
(* no thread still adds to.                                                *)
NoLateAdd == [][phase # "value" => UNCHANGED <<vals, hashed2valIndex>>]_vars

(* The build ends.                                                         *)
BuildEnds == <>(phase = "ready")
=============================================================================
