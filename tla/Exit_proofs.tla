---------------------------- MODULE Exit_proofs -----------------------------
(***************************************************************************)
(* Proofs about Exit.tla: for every number of threads and of blocks, the   *)
(* program exits once, no result is printed that a thread did not finish,  *)
(* the accounts of mem.c match the memory whenever nobody is inside it,    *)
(* and the status tells whether anything failed.                           *)
(*                                                                         *)
(* The properties need one another.  A thread that is gone was not the     *)
(* first to fail, so the first is at the destructors, and the main thread  *)
(* waits for it for ever: that is JoinsRight.  The program that has done   *)
(* all its work finds a balance of 0 because every block of memory has one *)
(* owner, that frees it (OwnersRight), and because the entries and the sum *)
(* are right before and after each call of mem.c (AccountsRight).          *)
(***************************************************************************)
EXTENDS Exit, NumberLemmas

(* How many exit, and why.                                                 *)
ExitsRight ==
  /\ \A p, q \in Process : Exiting(p) /\ Exiting(q) => p = q
  /\ isExiting => \E p \in Process : Exiting(p)
  /\ \A p \in Process : Exiting(p) => isExiting \/ (p = MAIN /\ main.op = "end")
  /\ \A p \in Process : pc[p] = "gone" => isExiting
  /\ main.op = "end" => pc[MAIN] = "dtors"

(* Which threads are there yet, which have ended, and what the main thread *)
(* is in the middle of.                                                    *)
JoinsRight ==
  /\ main.op = "start" => \A t \in Thread : pc[t] = "none"
  /\ main.op = "create" => \A t \in Thread : t >= main.i => pc[t] = "none"
  /\ main.op = "join" => \A t \in Thread : t < main.i => pc[t] \in {"returned", "gone"}
  /\ main.op \in {"free", "result", "end"} => \A t \in Thread : pc[t] = "returned"
  /\ pc[MAIN] = "resultPrint" => main.op = "result"
  /\ pc[MAIN] \in {"calloc", "callocIn", "callocInfo", "callocUnlock"} => main.op = "start"

(* Inside mem.c, under its mutex, and where a process has its argument.    *)
InMem == {"callocIn", "callocInfo", "callocUnlock", "freeIn", "freeHeap", "freeUnlock"}
Flight == {"callocInfo", "callocUnlock", "free", "freeIn", "freeHeap"}

(* The blocks of a process, and whether the table has one.                 *)
Holdings(p) == mine[p] \cup (IF pc[p] \in Flight THEN {arg[p].mem} ELSE {})
TableLive == main.op \in {"create", "join", "free"}

(* Every block has one owner, and none but a process that fails loses one. *)
OwnersRight ==
  /\ \A p \in Process : Holdings(p) \subseteq heap
  /\ \A p, q \in Process : p # q => Holdings(p) \cap Holdings(q) = {}
  /\ \A p \in Process : \A a, b \in mine[p] : a = b
  /\ \A p \in Process : pc[p] \in Flight \cup {"calloc", "callocIn"} => mine[p] = {}
  /\ TableLive => tableMem \in heap /\ \A p \in Process : tableMem \notin Holdings(p)
  /\ \A t \in Thread : pc[t] = "returned" => mine[t] = {}
  /\ main.op # "start" => mine[MAIN] = {}
  /\ \A a \in heap :
       \/ \E p \in Process : a \in Holdings(p)
       \/ TableLive /\ a = tableMem
       \/ \E p \in Process : Failed(p) /\ a = arg[p].mem

(* There is an entry for each of these blocks, and no other.               *)
Entries(blocks) ==
  /\ {info[i].mem : i \in UsedInfo} = blocks
  /\ \A i, j \in UsedInfo : info[i].mem = info[j].mem => i = j
Accounts == Entries(heap) /\ checkConsistency(info, allocated)

AccountsRight ==
  /\ mutex["mem"] \in {Free, Destroyed} => Accounts
  /\ \A p \in Process : pc[p] \in InMem => mutex["mem"] = p
  /\ \A p \in Process : mutex["mem"] = p => pc[p] \in InMem \/ Failed(p)
  /\ \A p \in Process :
       /\ pc[p] \in {"callocIn", "callocUnlock", "freeIn", "freeUnlock"} => Accounts
       /\ pc[p] = "callocInfo" =>
            Entries(heap \ {arg[p].mem}) /\ checkConsistency(info, allocated - arg[p].s)
       /\ pc[p] = "freeHeap" =>
            Entries(heap \ {arg[p].mem}) /\ checkConsistency(info, allocated)

(* The inductive invariant.                                                *)
IInv == TypeOK /\ ExitsRight /\ JoinsRight /\ OwnersRight /\ AccountsRight /\ StatusIsRight
-----------------------------------------------------------------------------
(* Types.                                                                  *)

(* Every step keeps the types.                                             *)
LEMMA TypeNext ==
  ASSUME IInv, [Next]_vars
  PROVE  TypeOK'
<1>. USE DEF IInv, At, Goto, FAIL
<1>0. MAIN \in Process /\ MAIN \notin Thread /\ NULL \notin Addr
      /\ NUM_THREADS \in Nat \ {0} /\ Size \subseteq Nat
  BY ExitAssumption, NullAssumption DEF Process, MAIN, Thread
<1>1. ASSUME NEW p \in Process, Mem(p)
      PROVE  TypeOK'
  <2>1. CASE CallocLock(p)  BY <2>1 DEF CallocLock, Lock, CanLock, TypeOK, Places, memVars, Mutex
  <2>2. CASE CallocIn(p)
    <3>1. arg' \in [Process -> Block] /\ allocated' \in Int /\ heap' \subseteq Addr
      BY <1>0, <2>2 DEF CallocIn, TypeOK, Block
    <3>2. pc' \in [Process -> Places]  BY <2>2 DEF CallocIn, TypeOK, Places
    <3>. QED  BY <2>2, <3>1, <3>2 DEF CallocIn, TypeOK
  <2>3. CASE CallocInfo(p)
    <3>1. info' \in [InfoSlot -> Block]  BY <2>3 DEF CallocInfo, TypeOK
    <3>2. pc' \in [Process -> Places]  BY <2>3 DEF CallocInfo, TypeOK, Places
    <3>. QED  BY <2>3, <3>1, <3>2 DEF CallocInfo, TypeOK
  <2>4. CASE CallocUnlock(p)
    <3>1. arg[p].mem \in Addr
      BY <2>4 DEF CallocUnlock, OwnersRight, Holdings, Flight, TypeOK
    <3>2. mine' \in [Process -> SUBSET Addr]
      BY <2>4, <3>1 DEF CallocUnlock, TypeOK
    <3>3. pc' \in [Process -> Places] /\ mutex' \in [Mutex -> Process \cup {Free, Destroyed}]
      BY <2>4 DEF CallocUnlock, Unlock, TypeOK, Places
    <3>. QED  BY <2>4, <3>2, <3>3 DEF CallocUnlock, TypeOK
  <2>5. CASE FreeLock(p)  BY <2>5 DEF FreeLock, Lock, CanLock, TypeOK, Places, memVars, Mutex
  <2>6. CASE FreeIn(p)
    <3>1. EntryOf(p) # {} => Min(EntryOf(p)) \in InfoSlot
      <4>1. EntryOf(p) \subseteq InfoSlot /\ InfoSlot \subseteq Nat
        BY ExitAssumption DEF EntryOf, InfoSlot
      <4>2. EntryOf(p) # {} => \E i \in EntryOf(p) : \A j \in EntryOf(p) : i <= j
        BY <4>1, LeastNatural
      <4>. QED  BY <4>1, <4>2 DEF Min
    <3>2. allocated' \in Int /\ info' \in [InfoSlot -> Block]
      <4>1. CASE checkConsistency(info, allocated) /\ EntryOf(p) # {}
        <5>1. PICK i \in InfoSlot : allocated' = allocated - info[i].s /\ info' = [info EXCEPT ![i].mem = NULL]
          BY <2>6, <3>1, <4>1 DEF FreeIn
        <5>2. info[i] \in Block /\ [info[i] EXCEPT !.mem = NULL] \in Block  BY DEF TypeOK, Block
        <5>. QED  BY <5>1, <5>2 DEF TypeOK, Block
      <4>2. CASE ~ (checkConsistency(info, allocated) /\ EntryOf(p) # {})
        BY <2>6, <4>2 DEF FreeIn, TypeOK
      <4>. QED  BY <4>1, <4>2
    <3>3. pc' \in [Process -> Places]  BY <2>6 DEF FreeIn, TypeOK, Places
    <3>. QED  BY <2>6, <3>2, <3>3 DEF FreeIn, TypeOK
  <2>7. CASE FreeHeap(p)  BY <2>7 DEF FreeHeap, TypeOK, Places
  <2>8. CASE FreeUnlock(p)  BY <2>8 DEF FreeUnlock, Unlock, TypeOK, Places, memVars, Mutex
  <2>. QED  BY <1>1, <2>1, <2>2, <2>3, <2>4, <2>5, <2>6, <2>7, <2>8 DEF Mem
<1>2. ASSUME NEW p \in Process, Types(p)
      PROVE  TypeOK'
  <2>1. CASE PrintErr(p) \/ PrintBalance(p)
    <3>1. mutex' \in [Mutex -> Process \cup {Free, Destroyed}]
      BY <2>1 DEF PrintErr, PrintBalance, Lock, TypeOK
    <3>2. pc' \in [Process -> Places]
      BY <2>1 DEF PrintErr, PrintBalance, Lock, TypeOK, Places
    <3>3. status' \in {"running", "success", "failure", "aborted"}
      BY <2>1 DEF PrintErr, PrintBalance, Lock, Abort, TypeOK
    <3>. QED  BY <2>1, <3>1, <3>2, <3>3 DEF PrintErr, PrintBalance, TypeOK, memVars
  <2>2. CASE ErrPrinted(p) \/ BalancePrinted(p)
    BY <2>2 DEF ErrPrinted, BalancePrinted, Unlock, TypeOK, Places, memVars, Mutex
  <2>3. CASE types_exit(p)  BY <2>3 DEF types_exit, TypeOK, Places, memVars
  <2>4. CASE TypesDeinit(p) \/ MemDeinit(p)
    <3>1. mutex' \in [Mutex -> Process \cup {Free, Destroyed}]
      BY <2>4 DEF TypesDeinit, MemDeinit, Destroy, TypeOK
    <3>2. pc' \in [Process -> Places]  BY <2>4 DEF TypesDeinit, MemDeinit, TypeOK, Places
    <3>3. left' \subseteq {"types", "mem"}  BY <2>4 DEF TypesDeinit, MemDeinit, TypeOK
    <3>. QED  BY <2>4, <3>1, <3>2, <3>3 DEF TypesDeinit, MemDeinit, TypeOK, memVars
  <2>5. CASE End(p)  BY <2>5 DEF End, TypeOK, memVars
  <2>. QED  BY <1>2, <2>1, <2>2, <2>3, <2>4, <2>5 DEF Types
<1>3. ASSUME NEW p \in Process, Work(p)
      PROVE  TypeOK'
  <2>1. CASE LockShared(p)  BY <2>1 DEF LockShared, Lock, CanLock, TypeOK, Places, Mutex
  <2>2. CASE UnlockShared(p) \/ Return(p)
    BY <2>2 DEF UnlockShared, Return, Unlock, TypeOK, Places, memVars, Mutex
  <2>3. CASE Calloc(p)  BY <2>3 DEF Calloc, CallCalloc, TypeOK, Places
  <2>4. CASE Replace(p)
    <3>1. PICK a \in mine[p] : tableMem' = a /\ mine' = [mine EXCEPT ![p] = @ \ {a}]
                               /\ CallFree(p, tableMem) /\ UNCHANGED main
      BY <2>4 DEF Replace
    <3>2. a \in Addr  BY <3>1 DEF TypeOK
    <3>. QED  BY <3>1, <3>2 DEF CallFree, TypeOK, Places, Block
  <2>5. CASE FreeScratch(p)
    <3>1. PICK a \in mine[p] : mine' = [mine EXCEPT ![p] = @ \ {a}] /\ CallFree(p, a)
                               /\ UNCHANGED <<main, tableMem>>
      BY <2>5 DEF FreeScratch
    <3>2. a \in Addr  BY <3>1 DEF TypeOK
    <3>. QED  BY <3>1, <3>2 DEF CallFree, TypeOK, Places, Block
  <2>. QED  BY <1>3, <2>1, <2>2, <2>3, <2>4, <2>5 DEF Work
<1>4. CASE Main
  <2>1. CASE MainCalloc
    <3>1. CASE mine[MAIN] = {}
      <4>1. CallCalloc(MAIN) /\ UNCHANGED main
        BY <2>1, <3>1 DEF MainCalloc, CallCalloc
      <4>2. calls' \in [Process -> Nat] /\ pc' \in [Process -> Places]
        BY <1>0, <4>1 DEF CallCalloc, TypeOK, Places
      <4>. QED  BY <4>1, <4>2 DEF CallCalloc, TypeOK
    <3>2. CASE mine[MAIN] # {}
      <4>1. 0 \in 0 .. NUM_THREADS - 1  BY <1>0
      <4>2. main' = [op |-> "create", i |-> 0] /\ tableMem' \in mine[MAIN]
            /\ mine' = [mine EXCEPT ![MAIN] = {}]
            /\ UNCHANGED <<pc, mutex, isExiting, status, left, calls, arg, heap, info, allocated>>
        BY <2>1, <3>2 DEF MainCalloc, MainGoes
      <4>. QED  BY <1>0, <4>1, <4>2 DEF TypeOK
    <3>. QED  BY <3>1, <3>2
  <2>2. CASE Create \/ Join
    <3>1. main' \in [op : {"start", "create", "join", "free", "result", "end"}, i : 0 .. NUM_THREADS - 1]
      <4>1. main.i \in 0 .. NUM_THREADS - 1  BY DEF TypeOK
      <4>2. main.i + 1 < NUM_THREADS => main.i + 1 \in 0 .. NUM_THREADS - 1  BY <1>0, <4>1
      <4>. QED  BY <1>0, <2>2, <4>2 DEF Create, Join, MoreThreads, MainGoes, TypeOK
    <3>2. pc' \in [Process -> Places]
      BY <2>2 DEF Create, Join, TypeOK, Places
    <3>. QED  BY <2>2, <3>1, <3>2 DEF Create, Join, TypeOK, memVars
  <2>3. CASE MainFree
    BY <1>0, <2>3 DEF MainFree, MainAt, MainGoes, CallFree, TypeOK, Places, Block
  <2>4. CASE PrintResult \/ ResultPrinted
    <3>1. mutex' \in [Mutex -> Process \cup {Free, Destroyed}]
      BY <1>0, <2>4 DEF PrintResult, ResultPrinted, Lock, Unlock, TypeOK
    <3>2. pc' \in [Process -> Places]
      BY <2>4 DEF PrintResult, ResultPrinted, Lock, Unlock, TypeOK, Places
    <3>3. 0 \in 0 .. NUM_THREADS - 1  BY <1>0
    <3>4. CASE PrintResult
      BY <3>1, <3>2, <3>4 DEF PrintResult, Lock, TypeOK, memVars
    <3>5. CASE ResultPrinted
      BY <3>1, <3>2, <3>3, <3>5 DEF ResultPrinted, MainGoes, TypeOK, memVars
    <3>. QED  BY <2>4, <3>4, <3>5
  <2>. QED  BY <1>4, <2>1, <2>2, <2>3, <2>4 DEF Main
<1>5. CASE UNCHANGED vars  BY <1>5 DEF vars, progVars, memVars, TypeOK
<1>. QED  BY <1>1, <1>2, <1>3, <1>4, <1>5 DEF Next, Step
-----------------------------------------------------------------------------
(* A step of p that does not create or join a thread, nor ends one that    *)
(* failed, nor brings the main thread to its end.                          *)
Ordinary(p) ==
  /\ \A q \in Process \ {p} : pc'[q] = pc[q]
  /\ pc[p] \notin {"none", "returned", "gone"}
  /\ pc'[p] \notin {"none", "gone"}
  /\ pc'[p] = "returned" => p \in Thread
  /\ pc'[p] \in {"dtors", "balance", "balancePrint"} <=> Exiting(p)
  /\ allocated = 0 /\ pc[p] = "dtors" => pc'[p] = "dtors"
  /\ isExiting' = isExiting
  /\ \/ main' = main
     \/ /\ p = MAIN /\ pc[p] = "work" /\ pc'[p] \in {"work", "free"}
        /\ <<main.op, main'.op>> \in {<<"start", "create">>, <<"free", "result">>}
  /\ p = MAIN =>
       /\ pc'[p] = "resultPrint" => main'.op = "result"
       /\ pc'[p] \in {"calloc", "callocIn", "callocInfo", "callocUnlock"} => main'.op = "start"

(* All steps are like that, but for four kinds.                            *)
LEMMA OrdinaryStep ==
  ASSUME IInv, NEW p \in Process, Step(p)
  PROVE  \/ Ordinary(p)
         \/ types_exit(p)
         \/ p = MAIN /\ (Create \/ Join \/ ResultPrinted)
<1>. USE DEF At, Goto, FAIL, Exiting
<1>0. MAIN \in Process /\ MAIN \notin Thread /\ Process = Thread \cup {MAIN}
  BY ExitAssumption DEF Process, MAIN, Thread
<1>1. DOMAIN pc = Process /\ JoinsRight /\ pc \in [Process -> Places]  BY DEF IInv, TypeOK
<1>2. CASE Mem(p)
  <2>1. main' = main /\ isExiting' = isExiting
    BY <1>2 DEF Mem, CallocLock, CallocIn, CallocInfo, CallocUnlock, FreeLock, FreeIn, FreeHeap, FreeUnlock, memVars
  <2>2. \/ CallocLock(p) /\ pc[p] = "calloc" /\ pc' \in {[pc EXCEPT ![p] = l] : l \in {"callocIn", "fail"}}
        \/ CallocIn(p) /\ pc[p] = "callocIn" /\ pc' \in {[pc EXCEPT ![p] = l] : l \in {"callocInfo", "fail"}}
        \/ CallocInfo(p) /\ pc[p] = "callocInfo" /\ pc' \in {[pc EXCEPT ![p] = l] : l \in {"callocUnlock", "fail"}}
        \/ CallocUnlock(p) /\ pc[p] = "callocUnlock" /\ pc' = [pc EXCEPT ![p] = "work"]
        \/ pc[p] \in {"free", "freeIn", "freeHeap", "freeUnlock"}
           /\ pc' \in {[pc EXCEPT ![p] = l] : l \in {"fail", "freeIn", "freeHeap", "freeUnlock", "work"}}
    BY <1>2 DEF Mem, CallocLock, CallocIn, CallocInfo, CallocUnlock, FreeLock, FreeIn, FreeHeap, FreeUnlock, Lock, Unlock
  <2>. QED  BY <1>1, <2>1, <2>2 DEF Ordinary, JoinsRight
<1>3. CASE Types(p)
  <2>1. types_exit(p) \/ (main' = main /\ isExiting' = isExiting)
    BY <1>3 DEF Types, PrintErr, ErrPrinted, TypesDeinit, MemDeinit, PrintBalance, BalancePrinted, End, memVars
  <2>2. \/ types_exit(p)
        \/ pc[p] = "fail" /\ pc' \in {pc, [pc EXCEPT ![p] = "failPrint"]}
        \/ pc[p] = "failPrint" /\ pc' = [pc EXCEPT ![p] = "exit"]
        \/ pc[p] = "dtors" /\ pc' \in {pc, [pc EXCEPT ![p] = "balance"]} /\ (allocated = 0 => pc' = pc)
        \/ pc[p] = "balance" /\ pc' \in {pc, [pc EXCEPT ![p] = "balancePrint"]}
        \/ pc[p] = "balancePrint" /\ pc' = [pc EXCEPT ![p] = "dtors"]
    BY <1>3 DEF Types, PrintErr, ErrPrinted, TypesDeinit, MemDeinit, PrintBalance, BalancePrinted, End, Lock, Unlock
  <2>. QED  BY <1>1, <2>1, <2>2 DEF Ordinary
<1>4. CASE p # MAIN /\ Work(p)
  <2>1. main' = main /\ isExiting' = isExiting
    BY <1>4 DEF Work, LockShared, UnlockShared, Calloc, CallCalloc, Replace, FreeScratch, CallFree, Return
  <2>2. pc[p] = "work" /\ pc' \in {[pc EXCEPT ![p] = l] : l \in {"work", "calloc", "free", "returned"}}
    BY <1>4 DEF Work, LockShared, UnlockShared, Calloc, CallCalloc, Replace, FreeScratch, CallFree, Return, Lock, Unlock
  <2>. QED  BY <1>0, <1>1, <1>4, <2>1, <2>2 DEF Ordinary
<1>5. CASE p = MAIN /\ MainCalloc
  <2>1. pc[p] = "work" /\ main.op = "start" /\ isExiting' = isExiting
    BY <1>5 DEF MainCalloc, MainAt, CallCalloc
  <2>2. \/ pc' = [pc EXCEPT ![p] = "calloc"] /\ main' = main
        \/ pc' = pc /\ main'.op = "create"
    BY <1>5 DEF MainCalloc, MainGoes, CallCalloc
  <2>. QED  BY <1>1, <1>5, <2>1, <2>2 DEF Ordinary
<1>6. CASE p = MAIN /\ MainFree
  <2>1. pc[p] = "work" /\ main.op = "free" /\ isExiting' = isExiting /\ main'.op = "result"
        /\ pc' = [pc EXCEPT ![p] = "free"]
    BY <1>6 DEF MainFree, MainAt, MainGoes, CallFree
  <2>. QED  BY <1>1, <1>6, <2>1 DEF Ordinary
<1>7. CASE p = MAIN /\ PrintResult
  <2>1. pc[p] = "work" /\ main.op = "result" /\ isExiting' = isExiting /\ main' = main
        /\ pc' = [pc EXCEPT ![p] = "resultPrint"]
    BY <1>7 DEF PrintResult, MainAt, Lock, memVars
  <2>. QED  BY <1>1, <1>7, <2>1 DEF Ordinary
<1>. QED  BY <1>2, <1>3, <1>4, <1>5, <1>6, <1>7 DEF Step, Main
-----------------------------------------------------------------------------
(* Who exits, and who is joined.                                           *)

(* The processes, and the mutexes that have a name.                        *)
LEMMA ProcessFacts ==
  /\ MAIN \in Process /\ MAIN \notin Thread /\ Process = Thread \cup {MAIN}
  /\ Thread \subseteq Nat /\ NUM_THREADS \in Nat \ {0} /\ NULL \notin Addr
  /\ "mem" \in Mutex /\ "print" \in Mutex /\ "shared" \in Mutex
BY ExitAssumption, NullAssumption DEF Process, MAIN, Thread, Mutex

(* The sum of checkConsistency is the total of a function.                 *)
Sizes(entries) == [i \in InfoSlot |-> entries[i].s]

(* They are the same.                                                      *)
LEMMA SumOfSizes ==
  ASSUME NEW entries, NEW S \in SUBSET InfoSlot, IsFiniteSet(S),
         \A i \in S : entries[i].s \in Int
  PROVE  MapThenSumSet(LAMBDA i : entries[i].s, S) = Total(Sizes(entries), S)
<1>. DEFINE w == Sizes(entries)
            it == CHOOSE h : h = [s \in SUBSET S |->
                    IF s = {} THEN 0 ELSE entries[Chosen(s)].s + h[s \ {Chosen(s)}]]
<1>1. \A i \in S : w[i] = entries[i].s  BY DEF Sizes
<1>. HIDE DEF w
<1>2. PICK g \in [SUBSET S -> Int] : IsSum(w, S, g) /\ Total(w, S) = g[S]
  <2>1. \A i \in S : w[i] \in Int  BY <1>1
  <2>. QED  BY <2>1, TotalIs
<1>3. \A s \in SUBSET S : s # {} => Chosen(s) \in S  BY DEF Chosen
<1>4. g = [s \in SUBSET S |->
             IF s = {} THEN 0 ELSE entries[Chosen(s)].s + g[s \ {Chosen(s)}]]
  BY <1>1, <1>2, <1>3 DEF IsSum, SumStep
<1>5. MapThenSumSet(LAMBDA i : entries[i].s, S) = it[S]
  BY DEF MapThenSumSet, MapThenFoldSet, Chosen
<1>6. it = [s \in SUBSET S |->
              IF s = {} THEN 0 ELSE entries[Chosen(s)].s + it[s \ {Chosen(s)}]]
  BY <1>4
<1>. HIDE DEF it
<1>7. IsSum(w, S, it)  BY <1>1, <1>3, <1>6 DEF IsSum, SumStep
<1>8. S \in SUBSET (S \cap S) /\ \A i \in S : w[i] = w[i]  OBVIOUS
<1>9. it[S] = g[S]  BY <1>2, <1>7, <1>8, SumUnique
<1>. QED  BY <1>2, <1>5, <1>9 DEF w

(* When the main thread has done all its work, nothing is allocated: every *)
(* block would be in the hands of somebody, and nobody holds one.          *)
LEMMA BalanceZero ==
  ASSUME IInv, main.op = "end"
  PROVE  heap = {} /\ allocated = 0
<1>1. (\A t \in Thread : pc[t] = "returned" /\ mine[t] = {}) /\ pc[MAIN] = "dtors" /\ mine[MAIN] = {}
  BY DEF IInv, ExitsRight, JoinsRight, OwnersRight
<1>2. \A p \in Process : Holdings(p) = {} /\ ~ Failed(p) /\ pc[p] \notin InMem
  BY <1>1, ProcessFacts DEF Holdings, Flight, Failed, Exiting, InMem
<1>3. heap = {}  BY <1>2 DEF IInv, OwnersRight, TableLive
<1>4. Accounts
  <2>1. mutex["mem"] \in Process \cup {Free, Destroyed}  BY ProcessFacts DEF IInv, TypeOK
  <2>. QED  BY <1>2, <2>1 DEF IInv, AccountsRight
<1>5. UsedInfo = {}  BY <1>3, <1>4 DEF Accounts, Entries
<1>6. MapThenSumSet(LAMBDA i : info[i].s, {}) = 0
  <2>1. Total(Sizes(info), {}) = 0  BY FS_EmptySet, SumRemove
  <2>2. IsFiniteSet({}) /\ {} \in SUBSET InfoSlot /\ \A i \in {} : info[i].s \in Int
    BY FS_EmptySet
  <2>. QED  BY <2>1, <2>2, SumOfSizes
<1>. QED  BY <1>3, <1>4, <1>5, <1>6 DEF Accounts, checkConsistency, UsedInfo

(* exit is called once.                                                    *)
LEMMA ExitsNext ==
  ASSUME IInv, [Next]_vars
  PROVE  ExitsRight'
<1>0. main.op = "end" => allocated = 0  BY BalanceZero
<1>1. ExitsRight /\ JoinsRight /\ TypeOK  BY DEF IInv
<1>2. ASSUME NEW p \in Process, Ordinary(p)
      PROVE  ExitsRight'
  <2>1. \A q \in Process : Exiting(q)' <=> Exiting(q)
    BY <1>2 DEF Ordinary, Exiting
  <2>2. main'.op = "end" <=> main.op = "end"  BY <1>2 DEF Ordinary
  <2>3. \A q \in Process : pc'[q] = "gone" => pc[q] = "gone"  BY <1>2 DEF Ordinary
  <2>4. main.op = "end" => pc'[MAIN] = "dtors"
    BY <1>0, <1>1, <1>2, ProcessFacts DEF Ordinary, ExitsRight
  <2>5. isExiting' = isExiting  BY <1>2 DEF Ordinary
  <2>. QED  BY <1>1, <2>1, <2>2, <2>3, <2>4, <2>5 DEF ExitsRight
<1>3. ASSUME NEW p \in Process, types_exit(p)
      PROVE  ExitsRight'
  <2>1. pc[p] = "exit" /\ isExiting' = TRUE /\ main' = main
        /\ pc' = [pc EXCEPT ![p] = IF isExiting THEN "gone" ELSE "dtors"]
    BY <1>3 DEF types_exit, At, Goto, ExitOthers
  <2>2. main.op # "end"
    BY <1>1, <2>1, ProcessFacts DEF ExitsRight, JoinsRight
  <2>3. \A q \in Process : q # p => pc'[q] = pc[q]  BY <1>1, <2>1 DEF TypeOK
  <2>4. pc'[p] = IF isExiting THEN "gone" ELSE "dtors"  BY <1>1, <2>1 DEF TypeOK
  <2>5. CASE isExiting
    <3>1. \A q \in Process : Exiting(q)' <=> Exiting(q)
      BY <2>1, <2>3, <2>4, <2>5 DEF Exiting
    <3>. QED  BY <1>1, <2>1, <2>2, <2>5, <3>1 DEF ExitsRight
  <2>6. CASE ~ isExiting
    <3>1. \A q \in Process : Exiting(q)' <=> q = p
      BY <1>1, <2>2, <2>3, <2>4, <2>6 DEF ExitsRight, Exiting
    <3>. QED  BY <1>1, <2>1, <2>2, <3>1 DEF ExitsRight
  <2>. QED  BY <2>5, <2>6
<1>4. CASE Create
  <2>1. pc[MAIN] = "work" /\ main.op = "create" /\ isExiting' = isExiting /\ main'.op # "end"
    BY <1>4 DEF Create, MainAt, At, MainGoes
  <2>2. pc' \in {[pc EXCEPT ![MAIN] = "fail"], [pc EXCEPT ![main.i] = "work"]}
    BY <1>4 DEF Create, Goto, FAIL
  <2>3. main.i \in Thread /\ pc[main.i] = "none"
    BY <1>1, <2>1 DEF TypeOK, Thread, JoinsRight
  <2>4. \A q \in Process : /\ Exiting(q)' <=> Exiting(q)
                           /\ pc'[q] = "gone" => pc[q] = "gone"
    BY <1>1, <2>1, <2>2, <2>3, ProcessFacts DEF TypeOK, Exiting
  <2>. QED  BY <1>1, <2>1, <2>4 DEF ExitsRight
<1>5. CASE Join
  <2>1. main.op = "join" /\ isExiting' = isExiting /\ main'.op # "end" /\ pc' = pc
    BY <1>5 DEF Join, MainAt, At, MainGoes
  <2>. QED  BY <1>1, <2>1 DEF ExitsRight, Exiting
<1>6. CASE ResultPrinted
  <2>1. pc[MAIN] = "resultPrint" /\ isExiting' = isExiting /\ main'.op = "end"
        /\ pc' = [pc EXCEPT ![MAIN] = "dtors"]
    BY <1>6 DEF ResultPrinted, At, MainGoes, Unlock, Goto
  <2>2. \A t \in Thread : pc[t] = "returned"
    BY <1>1, <2>1 DEF JoinsRight
  <2>3. \A p \in Process : ~ Exiting(p)  BY <2>1, <2>2, ProcessFacts DEF Exiting
  <2>4. \A p \in Process : /\ Exiting(p)' <=> p = MAIN
                           /\ pc'[p] # "gone"
    BY <1>1, <2>1, <2>2, ProcessFacts DEF TypeOK, Exiting
  <2>5. pc'[MAIN] = "dtors"  BY <1>1, <2>1, ProcessFacts DEF TypeOK
  <2>. QED  BY <1>1, <2>1, <2>3, <2>4, <2>5 DEF ExitsRight
<1>7. CASE UNCHANGED vars  BY <1>1, <1>7 DEF vars, progVars, ExitsRight, Exiting
<1>. QED  BY <1>2, <1>3, <1>4, <1>5, <1>6, <1>7, OrdinaryStep DEF Next

(* The main thread goes on only when every thread has returned.            *)
LEMMA JoinsNext ==
  ASSUME IInv, [Next]_vars
  PROVE  JoinsRight'
<1>1. ExitsRight /\ JoinsRight /\ TypeOK  BY DEF IInv
<1>2. ASSUME NEW p \in Process, Ordinary(p)
      PROVE  JoinsRight'
  <2>1. \A t \in Thread : pc[t] \in {"none", "returned", "gone"} => pc'[t] = pc[t]
    BY <1>2, ProcessFacts DEF Ordinary
  <2>2. p # MAIN => main' = main /\ pc'[MAIN] = pc[MAIN]
    BY <1>2, ProcessFacts DEF Ordinary
  <2>3. CASE main' = main  BY <1>1, <1>2, <2>1, <2>2, <2>3 DEF JoinsRight, Ordinary
  <2>4. CASE main' # main
    <3>1. p = MAIN /\ pc'[p] \in {"work", "free"}
          /\ <<main.op, main'.op>> \in {<<"start", "create">>, <<"free", "result">>}
      BY <1>2, <2>4 DEF Ordinary
    <3>. QED  BY <1>1, <2>1, <3>1 DEF JoinsRight
  <2>. QED  BY <2>3, <2>4
<1>3. ASSUME NEW p \in Process, types_exit(p)
      PROVE  JoinsRight'
  <2>1. pc[p] = "exit" /\ main' = main
        /\ pc' = [pc EXCEPT ![p] = IF isExiting THEN "gone" ELSE "dtors"]
    BY <1>3 DEF types_exit, At, Goto, ExitOthers
  <2>2. \A q \in Process : pc'[q] = pc[q] \/ pc'[q] \in {"gone", "dtors"}
    BY <1>1, <2>1 DEF TypeOK
  <2>3. \A t \in Thread : pc[t] \in {"none", "returned", "gone"} => pc'[t] = pc[t]
    BY <1>1, <2>1, ProcessFacts DEF TypeOK
  <2>. QED  BY <1>1, <2>1, <2>2, <2>3, ProcessFacts DEF JoinsRight
<1>4. CASE Create
  <2>1. pc[MAIN] = "work" /\ main.op = "create"
    BY <1>4 DEF Create, MainAt, At
  <2>2. main.i \in Thread /\ pc[main.i] = "none" /\ main.i \in Nat
    BY <1>1, <2>1 DEF TypeOK, Thread, JoinsRight
  <2>3. CASE pc' = [pc EXCEPT ![MAIN] = "fail"] /\ main' = main
    <3>1. pc'[MAIN] = "fail" /\ \A t \in Thread : pc'[t] = pc[t]
      BY <1>1, <2>3, ProcessFacts DEF TypeOK
    <3>. QED  BY <1>1, <2>3, <3>1 DEF JoinsRight
  <2>4. CASE /\ pc' = [pc EXCEPT ![main.i] = "work"]
             /\ main' \in {[op |-> "create", i |-> main.i + 1], [op |-> "join", i |-> 0]}
    <3>1. pc'[MAIN] = "work" /\ \A t \in Thread : t # main.i => pc'[t] = pc[t]
      BY <1>1, <2>1, <2>2, <2>4, ProcessFacts DEF TypeOK
    <3>2. CASE main' = [op |-> "create", i |-> main.i + 1]
      <4>1. \A t \in Thread : t >= main'.i => t > main.i
        BY <2>2, <3>2, ProcessFacts
      <4>2. \A t \in Thread : t > main.i => t # main.i /\ t >= main.i
        BY <2>2, ProcessFacts
      <4>3. main'.op = "create"  BY <3>2
      <4>. QED  BY <1>1, <2>1, <3>1, <4>1, <4>2, <4>3 DEF JoinsRight
    <3>3. CASE main' = [op |-> "join", i |-> 0]
      <4>1. \A t \in Thread : ~ (t < main'.i)  BY <3>3, ProcessFacts
      <4>2. main'.op = "join"  BY <3>3
      <4>. QED  BY <3>1, <4>1, <4>2 DEF JoinsRight
    <3>. QED  BY <2>4, <3>2, <3>3
  <2>. QED  BY <1>4, <2>3, <2>4 DEF Create, Goto, FAIL, MainGoes
<1>5. CASE Join
  <2>1. main.op = "join" /\ pc' = pc /\ pc[MAIN] = "work" /\ Ended(main.i)
    BY <1>5 DEF Join, MainAt, At
  <2>2. main.i \in Nat /\ main.i < NUM_THREADS  BY <1>1, ProcessFacts DEF TypeOK
  <2>3. CASE MoreThreads(main.i)
    <3>1. main' = [op |-> "join", i |-> main.i + 1]  BY <1>5, <2>3 DEF Join, MainGoes
    <3>2. \A t \in Thread : t < main'.i => t < main.i \/ t = main.i
      BY <2>2, <3>1, ProcessFacts
    <3>3. main'.op = "join"  BY <3>1
    <3>. QED  BY <1>1, <2>1, <3>2, <3>3 DEF JoinsRight, Ended
  <2>4. CASE ~ MoreThreads(main.i)
    <3>1. main'.op = "free"  BY <1>5, <2>4 DEF Join, MainGoes
    <3>2. \A t \in Thread : t < main.i \/ t = main.i
      BY <2>2, <2>4, ProcessFacts DEF MoreThreads, Thread
    <3>3. \A t \in Thread : pc[t] \in {"returned", "gone"}
      BY <1>1, <2>1, <3>2 DEF JoinsRight, Ended
    <3>4. \A p \in Process : ~ Exiting(p)  BY <2>1, <3>3, ProcessFacts DEF Exiting
    <3>5. \A t \in Thread : pc[t] = "returned"
      BY <1>1, <3>3, <3>4, ProcessFacts DEF ExitsRight
    <3>. QED  BY <2>1, <3>1, <3>5 DEF JoinsRight
  <2>. QED  BY <2>3, <2>4
<1>6. CASE ResultPrinted
  <2>1. pc[MAIN] = "resultPrint" /\ main'.op = "end" /\ pc' = [pc EXCEPT ![MAIN] = "dtors"]
    BY <1>6 DEF ResultPrinted, At, MainGoes, Unlock, Goto
  <2>2. pc'[MAIN] = "dtors" /\ \A t \in Thread : pc'[t] = pc[t]
    BY <1>1, <2>1, ProcessFacts DEF TypeOK
  <2>. QED  BY <1>1, <2>1, <2>2 DEF JoinsRight
<1>7. CASE UNCHANGED vars  BY <1>1, <1>7 DEF vars, progVars, JoinsRight
<1>. QED  BY <1>2, <1>3, <1>4, <1>5, <1>6, <1>7, OrdinaryStep DEF Next
-----------------------------------------------------------------------------
(* A process that failed stays one that failed, with the block it was at.  *)
LEMMA FailedNext ==
  ASSUME IInv, [Next]_vars, NEW p \in Process, Failed(p)
  PROVE  Failed(p)' /\ arg'[p] = arg[p]
<1>0. main.op = "end" => pc[MAIN] = "dtors" /\ allocated = 0
  BY BalanceZero DEF IInv, ExitsRight
<1>1. ExitsRight /\ JoinsRight /\ TypeOK  BY DEF IInv
<1>2. pc[p] \in {"fail", "failPrint", "exit", "gone", "dtors", "balance", "balancePrint"}
      /\ ~ (p = MAIN /\ main.op = "end")
  BY <1>0 DEF Failed, Exiting
<1>3. ASSUME NEW q \in Process, Step(q)
      PROVE  arg'[p] = arg[p]
  <2>1. CASE Mem(q)
    <3>1. arg' = arg \/ (pc[q] = "callocIn" /\ \E b : arg' = [arg EXCEPT ![q] = b])
      BY <2>1 DEF Mem, CallocLock, CallocIn, CallocInfo, CallocUnlock, FreeLock, FreeIn, FreeHeap, FreeUnlock, memVars, At
    <3>. QED  BY <1>1, <1>2, <3>1 DEF TypeOK
  <2>2. CASE Types(q)
    BY <2>2 DEF Types, PrintErr, ErrPrinted, types_exit, TypesDeinit, MemDeinit, PrintBalance, BalancePrinted, End, memVars
  <2>3. CASE Work(q)
    <3>1. arg' = arg \/ (pc[q] = "work" /\ \E b : arg' = [arg EXCEPT ![q] = b])
      BY <2>3 DEF Work, LockShared, UnlockShared, Calloc, CallCalloc, Replace, FreeScratch, CallFree, Return, memVars, At
    <3>. QED  BY <1>1, <1>2, <3>1 DEF TypeOK
  <2>4. CASE q = MAIN /\ Main
    <3>1. arg' = arg \/ (pc[q] = "work" /\ \E b : arg' = [arg EXCEPT ![q] = b])
      BY <2>4 DEF Main, MainCalloc, CallCalloc, Create, Join, MainFree, CallFree, PrintResult, ResultPrinted, memVars, MainAt, At
    <3>. QED  BY <1>1, <1>2, <3>1 DEF TypeOK
  <2>. QED  BY <1>3, <2>1, <2>2, <2>3, <2>4 DEF Step
<1>4. ASSUME NEW q \in Process, Step(q), q # p
      PROVE  pc'[p] = pc[p]
  <2>1. CASE Ordinary(q)  BY <1>4, <2>1 DEF Ordinary
  <2>2. CASE types_exit(q)  BY <1>1, <1>4, <2>2 DEF types_exit, Goto, TypeOK
  <2>3. CASE q = MAIN /\ Create
    <3>1. pc' = [pc EXCEPT ![main.i] = "work"] \/ pc' = [pc EXCEPT ![q] = "fail"]
      BY <2>3 DEF Create, Goto, FAIL
    <3>2. main.i \in Thread /\ pc[main.i] = "none"
      BY <1>1, <2>3 DEF TypeOK, Thread, JoinsRight, Create, MainAt
    <3>. QED  BY <1>1, <1>2, <1>4, <3>1, <3>2 DEF TypeOK
  <2>4. CASE q = MAIN /\ (Join \/ ResultPrinted)
    BY <1>1, <1>4, <2>4 DEF Join, ResultPrinted, Unlock, Goto, TypeOK
  <2>. QED  BY <1>4, <2>1, <2>2, <2>3, <2>4, OrdinaryStep
<1>5. ASSUME Step(p)
      PROVE  pc'[p] \in {"fail", "failPrint", "exit", "gone", "dtors", "balance", "balancePrint"}
             /\ main' = main
  <2>1. Types(p)
    <3>1. ~ Mem(p)
      BY <1>2 DEF Mem, CallocLock, CallocIn, CallocInfo, CallocUnlock, FreeLock, FreeIn, FreeHeap, FreeUnlock, At
    <3>2. ~ Work(p)
      BY <1>2 DEF Work, LockShared, UnlockShared, Calloc, Replace, FreeScratch, Return, At
    <3>3. p = MAIN => ~ Main
      BY <1>2 DEF Main, MainCalloc, Create, Join, MainFree, PrintResult, ResultPrinted, MainAt, At
    <3>. QED  BY <1>5, <3>1, <3>2, <3>3 DEF Step
  <2>2. main' = main
    BY <2>1 DEF Types, PrintErr, ErrPrinted, types_exit, TypesDeinit, MemDeinit, PrintBalance, BalancePrinted, End
  <2>3. pc' = pc \/ pc' \in {[pc EXCEPT ![p] = l] :
          l \in {"failPrint", "exit", "gone", "dtors", "balance", "balancePrint"}}
    BY <2>1 DEF Types, PrintErr, ErrPrinted, types_exit, TypesDeinit, MemDeinit, PrintBalance, BalancePrinted, End, Lock, Unlock, Goto
  <2>. QED  BY <1>1, <1>2, <2>2, <2>3 DEF TypeOK
<1>6. ASSUME NEW q \in Process, Step(q), q # p
      PROVE  ~ (p = MAIN /\ main'.op = "end")
  <2>1. p = MAIN => main' = main
    BY <1>6, OrdinaryStep DEF Ordinary, types_exit
  <2>. QED  BY <1>2, <2>1
<1>7. CASE \E q \in Process : Step(q) /\ q # p
  BY <1>2, <1>3, <1>4, <1>6, <1>7 DEF Failed, Exiting
<1>8. CASE Step(p)  BY <1>2, <1>3, <1>5, <1>8 DEF Failed, Exiting
<1>9. CASE UNCHANGED vars  BY <1>9 DEF vars, progVars, memVars, Failed, Exiting
<1>. QED  BY <1>7, <1>8, <1>9 DEF Next

(* The program succeeds when nobody failed.                                *)
LEMMA StatusNext ==
  ASSUME IInv, [Next]_vars
  PROVE  StatusIsRight'
<1>1. ExitsRight /\ JoinsRight /\ TypeOK /\ StatusIsRight  BY DEF IInv
<1>2. ASSUME NEW p \in Process, Step(p)
      PROVE  /\ status = "running"
             /\ \/ status' = "running"
                \/ PrintErr(p) /\ status' = "aborted"
                \/ PrintBalance(p) /\ status' = "aborted"
                \/ End(p)
  <2>1. CASE Mem(p)
    BY <2>1 DEF Mem, CallocLock, CallocIn, CallocInfo, CallocUnlock, FreeLock, FreeIn, FreeHeap, FreeUnlock, Lock, At
  <2>2. CASE Types(p)
    BY <2>2 DEF Types, PrintErr, ErrPrinted, types_exit, TypesDeinit, MemDeinit, PrintBalance, BalancePrinted, Lock, Abort, At, End
  <2>3. CASE Work(p)
    BY <2>3 DEF Work, LockShared, UnlockShared, Calloc, CallCalloc, Replace, FreeScratch, CallFree, Return, Lock, At
  <2>4. CASE Main
    BY <2>4 DEF Main, MainCalloc, CallCalloc, Create, Join, MainFree, CallFree, PrintResult, ResultPrinted, Lock, MainAt, At
  <2>. QED  BY <1>2, <2>1, <2>2, <2>3, <2>4 DEF Step
<1>3. ASSUME NEW p \in Process, PrintErr(p) \/ PrintBalance(p), status' = "aborted"
      PROVE  StatusIsRight'
  <2>1. Failed(p)
    BY <1>1, <1>3 DEF PrintErr, PrintBalance, At, Failed, Exiting, ExitsRight
  <2>2. Failed(p)'
    BY <1>3, <2>1, FailedNext DEF Next, Step, Types
  <2>. QED  BY <1>3, <2>2 DEF StatusIsRight
<1>4. ASSUME NEW p \in Process, End(p)
      PROVE  StatusIsRight'
  <2>1. pc' = pc /\ main' = main /\ pc[p] = "dtors"
        /\ status' = IF main.op = "end" THEN "success" ELSE "failure"
    BY <1>4 DEF End, At
  <2>2. CASE main.op = "end"
    <3>1. \A q \in Process : ~ Failed(q)
      BY <1>1, <2>2, ProcessFacts DEF ExitsRight, JoinsRight, Failed, Exiting
    <3>. QED  BY <2>1, <2>2, <3>1 DEF StatusIsRight, Failed, Exiting
  <2>3. CASE main.op # "end"
    <3>1. Failed(p)'  BY <2>1, <2>3 DEF Failed, Exiting
    <3>. QED  BY <2>1, <2>3, <3>1 DEF StatusIsRight
  <2>. QED  BY <2>2, <2>3
<1>5. CASE Next  BY <1>2, <1>3, <1>4, <1>5 DEF Next, StatusIsRight
<1>6. CASE UNCHANGED vars  BY <1>1, <1>6 DEF vars, progVars, StatusIsRight, Failed, Exiting
<1>. QED  BY <1>5, <1>6
-----------------------------------------------------------------------------
(* Every block has one owner.                                              *)

(* A step of p that moves no block, though p may lose its argument.        *)
Keeps(p) ==
  /\ mine' = mine /\ heap' = heap /\ tableMem' = tableMem /\ arg' = arg
  /\ \A q \in Process \ {p} : pc'[q] = pc[q] \/ (pc[q] = "none" /\ pc'[q] = "work")
  /\ pc'[p] \in Flight => pc[p] \in Flight
  /\ pc[p] \in Flight => pc'[p] \in Flight \/ Failed(p)'
  /\ pc'[p] \in {"calloc", "callocIn"} => mine[p] = {}
  /\ pc'[p] = "returned" => mine[p] = {}
  /\ TableLive' <=> TableLive
  /\ main'.op = "start" <=> main.op = "start"

(* Such a step leaves every block with its owner, or with one that fails.  *)
LEMMA OwnersKept ==
  ASSUME IInv, [Next]_vars, NEW p \in Process, Keeps(p)
  PROVE  OwnersRight'
<1>0. OwnersRight  BY DEF IInv
<1>1. \A q \in Process : q # p => Holdings(q)' = Holdings(q)
  BY DEF Keeps, Holdings, Flight
<1>2. Holdings(p)' \subseteq Holdings(p)
      /\ \A a \in Holdings(p) : a \in Holdings(p)' \/ (Failed(p)' /\ a = arg'[p].mem)
  BY DEF Keeps, Holdings
<1>3. \A q \in Process : Holdings(q)' \subseteq Holdings(q)  BY <1>1, <1>2
<1>4. \A q \in Process : Failed(q) => Failed(q)'  BY FailedNext
<1>5. \A q \in Process : pc'[q] \in Flight \cup {"calloc", "callocIn"} => mine[q] = {}
  BY <1>0 DEF Keeps, OwnersRight, Flight
<1>6. \A t \in Thread : pc'[t] = "returned" => mine[t] = {}
  BY <1>0, ProcessFacts DEF Keeps, OwnersRight
<1>7. mine' = mine /\ heap' = heap /\ tableMem' = tableMem /\ arg' = arg
      /\ (TableLive' <=> TableLive) /\ (main'.op = "start" <=> main.op = "start")
  BY DEF Keeps
<1>8. \A a \in heap : \/ \E q \in Process : a \in Holdings(q)'
                      \/ TableLive /\ a = tableMem
                      \/ \E q \in Process : Failed(q)' /\ a = arg'[q].mem
  <2>. SUFFICES ASSUME NEW a \in heap
                PROVE  \/ \E q \in Process : a \in Holdings(q)'
                       \/ TableLive /\ a = tableMem
                       \/ \E q \in Process : Failed(q)' /\ a = arg'[q].mem
    OBVIOUS
  <2>1. CASE \E q \in Process : a \in Holdings(q)  BY <1>1, <1>2, <2>1
  <2>2. CASE \E q \in Process : Failed(q) /\ a = arg[q].mem  BY <1>4, <1>7, <2>2
  <2>. QED  BY <1>0, <2>1, <2>2 DEF OwnersRight
<1>9. /\ \A q \in Process : Holdings(q)' \subseteq heap
      /\ \A q, r \in Process : q # r => Holdings(q)' \cap Holdings(r)' = {}
      /\ TableLive => tableMem \in heap /\ \A q \in Process : tableMem \notin Holdings(q)'
  <2>1. \A q \in Process : Holdings(q) \subseteq heap  BY <1>0 DEF OwnersRight
  <2>2. \A q, r \in Process : q # r => Holdings(q) \cap Holdings(r) = {}
    BY <1>0 DEF OwnersRight
  <2>3. TableLive => tableMem \in heap /\ \A q \in Process : tableMem \notin Holdings(q)
    BY <1>0 DEF OwnersRight
  <2>. QED  BY <1>3, <2>1, <2>2, <2>3, Zenon
<1>. QED  BY <1>0, <1>5, <1>6, <1>7, <1>8, <1>9 DEF OwnersRight

(* Which steps move no block.                                              *)
LEMMA KeepsStep ==
  ASSUME IInv, NEW p \in Process, Step(p)
  PROVE  \/ Keeps(p)
         \/ CallocIn(p) /\ heap' # heap
         \/ CallocUnlock(p) \/ FreeHeap(p)
         \/ p \in Thread /\ (Replace(p) \/ FreeScratch(p))
         \/ p = MAIN /\ MainCalloc /\ mine[MAIN] # {}
         \/ p = MAIN /\ MainFree
<1>. USE DEF At, Goto, FAIL
<1>0. TypeOK /\ JoinsRight /\ OwnersRight  BY DEF IInv
<1>1. CASE Mem(p)
  <2>. SUFFICES ASSUME ~ CallocUnlock(p), ~ FreeHeap(p), ~ (CallocIn(p) /\ heap' # heap)
                PROVE  Keeps(p)
    OBVIOUS
  <2>1. mine' = mine /\ heap' = heap /\ tableMem' = tableMem /\ arg' = arg /\ main' = main
    <3>1. CASE CallocIn(p)
      <4>1. \A a \in Addr \ heap : heap \cup {a} # heap  OBVIOUS
      <4>. QED  BY <3>1, <4>1 DEF CallocIn
    <3>2. CASE ~ CallocIn(p)
      BY <1>1, <3>2 DEF Mem, CallocLock, CallocInfo, FreeLock, FreeIn, FreeUnlock, memVars
    <3>. QED  BY <3>1, <3>2
  <2>2. \/ pc[p] = "calloc" /\ pc' \in {[pc EXCEPT ![p] = l] : l \in {"callocIn", "fail"}}
        \/ pc[p] = "callocIn" /\ pc' = [pc EXCEPT ![p] = "fail"]
        \/ pc[p] = "callocInfo" /\ pc' \in {[pc EXCEPT ![p] = l] : l \in {"callocUnlock", "fail"}}
        \/ pc[p] = "free" /\ pc' \in {[pc EXCEPT ![p] = l] : l \in {"freeIn", "fail"}}
        \/ pc[p] = "freeIn" /\ pc' \in {[pc EXCEPT ![p] = l] : l \in {"freeHeap", "fail"}}
        \/ pc[p] = "freeUnlock" /\ pc' = [pc EXCEPT ![p] = "work"]
    <3>1. CASE CallocIn(p)
      <4>1. \A a \in Addr \ heap : heap \cup {a} # heap  OBVIOUS
      <4>. QED  BY <2>1, <3>1, <4>1 DEF CallocIn
    <3>2. CASE ~ CallocIn(p)
      BY <1>1, <3>2 DEF Mem, CallocLock, CallocInfo, FreeLock, FreeIn, FreeUnlock, Lock, Unlock
    <3>. QED  BY <3>1, <3>2
  <2>3. pc[p] \in {"calloc", "callocIn"} => mine[p] = {}  BY <1>0 DEF OwnersRight, Flight
  <2>. QED  BY <1>0, <2>1, <2>2, <2>3 DEF Keeps, TypeOK, Flight, Failed, TableLive
<1>2. CASE Types(p)
  <2>1. mine' = mine /\ heap' = heap /\ tableMem' = tableMem /\ arg' = arg /\ main' = main
    BY <1>2 DEF Types, PrintErr, ErrPrinted, types_exit, TypesDeinit, MemDeinit, PrintBalance, BalancePrinted, End, memVars
  <2>2. pc[p] \in {"fail", "failPrint", "exit", "dtors", "balance", "balancePrint"}
        /\ (pc' = pc \/ pc' \in {[pc EXCEPT ![p] = l] :
             l \in {"failPrint", "exit", "gone", "dtors", "balance", "balancePrint"}})
    BY <1>2 DEF Types, PrintErr, ErrPrinted, types_exit, TypesDeinit, MemDeinit, PrintBalance, BalancePrinted, End, Lock, Unlock
  <2>. QED  BY <1>0, <2>1, <2>2 DEF Keeps, TypeOK, Flight, TableLive
<1>3. CASE p # MAIN /\ Work(p)
  <2>. SUFFICES ASSUME ~ Replace(p), ~ FreeScratch(p)  PROVE Keeps(p)
    BY <1>3, ProcessFacts
  <2>1. mine' = mine /\ heap' = heap /\ tableMem' = tableMem /\ arg' = arg /\ main' = main
    BY <1>3 DEF Work, LockShared, UnlockShared, Calloc, CallCalloc, Return, memVars
  <2>2. pc[p] = "work"
        /\ pc' \in {[pc EXCEPT ![p] = l] : l \in {"work", "calloc", "returned"}}
    BY <1>3 DEF Work, LockShared, UnlockShared, Calloc, CallCalloc, Return, Lock, Unlock
  <2>3. pc' # [pc EXCEPT ![p] = "work"] => mine[p] = {}
    BY <1>3 DEF Work, LockShared, UnlockShared, Calloc, CallCalloc, Return, Lock, Unlock
  <2>. QED  BY <1>0, <2>1, <2>2, <2>3 DEF Keeps, TypeOK, Flight, TableLive
<1>4. CASE p = MAIN /\ MainCalloc /\ mine[MAIN] = {}
  <2>1. mine' = mine /\ heap' = heap /\ tableMem' = tableMem /\ arg' = arg /\ main' = main
        /\ pc[p] = "work" /\ pc' = [pc EXCEPT ![p] = "calloc"]
    BY <1>4 DEF MainCalloc, CallCalloc, MainAt
  <2>. QED  BY <1>0, <1>4, <2>1 DEF Keeps, TypeOK, Flight, TableLive
<1>5. CASE p = MAIN /\ Create
  <2>1. mine' = mine /\ heap' = heap /\ tableMem' = tableMem /\ arg' = arg
        /\ pc[MAIN] = "work" /\ main.op = "create" /\ main'.op \in {"create", "join"}
    BY <1>5 DEF Create, MainAt, MainGoes, memVars
  <2>2. main.i \in Thread /\ pc[main.i] = "none"
    BY <1>0, <2>1 DEF TypeOK, Thread, JoinsRight
  <2>3. pc' \in {[pc EXCEPT ![MAIN] = "fail"], [pc EXCEPT ![main.i] = "work"]}
    BY <1>5 DEF Create
  <2>4. pc'[MAIN] \in {"fail", "work"}
        /\ \A q \in Process \ {MAIN} : pc'[q] = pc[q] \/ (pc[q] = "none" /\ pc'[q] = "work")
    BY <1>0, <2>1, <2>2, <2>3, ProcessFacts DEF TypeOK
  <2>. QED  BY <1>5, <2>1, <2>4 DEF Keeps, Flight, TableLive
<1>6. CASE p = MAIN /\ (Join \/ PrintResult \/ ResultPrinted)
  <2>1. mine' = mine /\ heap' = heap /\ tableMem' = tableMem /\ arg' = arg
    BY <1>6 DEF Join, PrintResult, ResultPrinted, memVars
  <2>2. /\ pc[p] \in {"work", "resultPrint"}
        /\ pc' = pc \/ pc' \in {[pc EXCEPT ![p] = l] : l \in {"resultPrint", "dtors"}}
    BY <1>6 DEF Join, PrintResult, ResultPrinted, MainAt, Lock, Unlock
  <2>3. /\ TableLive' <=> TableLive
        /\ main'.op = "start" <=> main.op = "start"
    <3>1. CASE Join
      <4>1. main.op = "join" /\ main'.op \in {"join", "free"}
        BY <3>1 DEF Join, MainAt, MainGoes
      <4>. QED  BY <4>1 DEF TableLive
    <3>2. CASE PrintResult
      <4>1. main' = main  BY <3>2 DEF PrintResult
      <4>. QED  BY <4>1 DEF TableLive
    <3>3. CASE ResultPrinted
      <4>1. main.op = "result" /\ main'.op = "end"
        BY <1>0, <3>3 DEF ResultPrinted, MainGoes, JoinsRight
      <4>. QED  BY <4>1 DEF TableLive
    <3>. QED  BY <1>6, <3>1, <3>2, <3>3
  <2>. QED  BY <1>0, <2>1, <2>2, <2>3 DEF Keeps, TypeOK, Flight
<1>. QED  BY <1>1, <1>2, <1>3, <1>4, <1>5, <1>6, ProcessFacts DEF Step, Main

(* Every step leaves every block with one owner.                           *)
LEMMA OwnersNext ==
  ASSUME IInv, [Next]_vars
  PROVE  OwnersRight'
<1>. USE DEF At, Goto, FAIL
<1>0. TypeOK /\ JoinsRight /\ OwnersRight  BY DEF IInv
<1>1. \A q \in Process : Failed(q) => Failed(q)' /\ arg'[q] = arg[q]  BY FailedNext
<1>2. ASSUME NEW p \in Process, CallocIn(p), heap' # heap
      PROVE  OwnersRight'
  <2>1. PICK a \in Addr \ heap : heap' = heap \cup {a} /\ \E s \in Size : arg' = [arg EXCEPT ![p] = [mem |-> a, s |-> s]]
    BY <1>2 DEF CallocIn
  <2>2. pc[p] = "callocIn" /\ pc' = [pc EXCEPT ![p] = "callocInfo"] /\ main' = main /\ mine' = mine /\ tableMem' = tableMem
    BY <1>2 DEF CallocIn
  <2>3. mine[p] = {}  BY <1>0, <2>2 DEF OwnersRight
  <2>4. pc'[p] = "callocInfo" /\ arg'[p].mem = a  BY <1>0, <2>1, <2>2 DEF TypeOK
  <2>5. \A q \in Process : q # p => pc'[q] = pc[q] /\ arg'[q] = arg[q]
    BY <1>0, <2>1, <2>2 DEF TypeOK
  <2>6. Holdings(p)' = {a}  BY <2>2, <2>3, <2>4 DEF Holdings, Flight
  <2>7. \A q \in Process : q # p => Holdings(q)' = Holdings(q)  BY <2>2, <2>5 DEF Holdings
  <2>8. Holdings(p) = {}  BY <2>2, <2>3 DEF Holdings, Flight
  <2>9. TableLive' <=> TableLive  BY <2>2 DEF TableLive
  <2>10. /\ \A q \in Process : Holdings(q)' \subseteq heap'
         /\ \A q, r \in Process : q # r => Holdings(q)' \cap Holdings(r)' = {}
         /\ TableLive => tableMem \in heap' /\ \A q \in Process : tableMem \notin Holdings(q)'
    BY <1>0, <2>1, <2>6, <2>7 DEF OwnersRight
  <2>11. \A b \in heap' : \/ \E q \in Process : b \in Holdings(q)'
                          \/ TableLive /\ b = tableMem
                          \/ \E q \in Process : Failed(q)' /\ b = arg'[q].mem
    BY <1>0, <1>1, <2>1, <2>6, <2>7, <2>8 DEF OwnersRight
  <2>12. /\ \A q \in Process : pc'[q] \in Flight \cup {"calloc", "callocIn"} => mine[q] = {}
         /\ \A t \in Thread : pc'[t] = "returned" => mine[t] = {}
    BY <1>0, <2>3, <2>4, <2>5, ProcessFacts DEF OwnersRight
  <2>. QED  BY <1>0, <2>2, <2>9, <2>10, <2>11, <2>12 DEF OwnersRight
<1>3. ASSUME NEW p \in Process, CallocUnlock(p)
      PROVE  OwnersRight'
  <2>1. /\ pc[p] = "callocUnlock" /\ pc' = [pc EXCEPT ![p] = "work"]
        /\ mine' = [mine EXCEPT ![p] = @ \cup {arg[p].mem}]
        /\ main' = main /\ heap' = heap /\ arg' = arg /\ tableMem' = tableMem
    BY <1>3 DEF CallocUnlock, Unlock
  <2>2. mine[p] = {} /\ Holdings(p) = {arg[p].mem}
    BY <1>0, <2>1 DEF OwnersRight, Flight, Holdings
  <2>3. pc'[p] = "work" /\ mine'[p] = {arg[p].mem}  BY <1>0, <2>1, <2>2 DEF TypeOK
  <2>4. \A q \in Process : q # p => pc'[q] = pc[q] /\ mine'[q] = mine[q]
    BY <1>0, <2>1 DEF TypeOK
  <2>5. \A q \in Process : Holdings(q)' = Holdings(q)
    BY <2>1, <2>2, <2>3, <2>4 DEF Holdings, Flight
  <2>6. TableLive' <=> TableLive  BY <2>1 DEF TableLive
  <2>7. /\ \A q \in Process : \A a, b \in mine'[q] : a = b
        /\ \A q \in Process : pc'[q] \in Flight \cup {"calloc", "callocIn"} => mine'[q] = {}
        /\ \A t \in Thread : pc'[t] = "returned" => mine'[t] = {}
    BY <1>0, <2>3, <2>4, ProcessFacts DEF OwnersRight, Flight
  <2>8. main.op # "start" => mine'[MAIN] = {}
    BY <1>0, <2>1, <2>4, ProcessFacts DEF OwnersRight, JoinsRight
  <2>. QED  BY <1>0, <1>1, <2>1, <2>5, <2>6, <2>7, <2>8 DEF OwnersRight
<1>4. ASSUME NEW p \in Process, FreeHeap(p)
      PROVE  OwnersRight'
  <2>1. /\ pc[p] = "freeHeap" /\ pc' = [pc EXCEPT ![p] = "freeUnlock"]
        /\ heap' = heap \ {arg[p].mem}
        /\ main' = main /\ mine' = mine /\ arg' = arg /\ tableMem' = tableMem
    BY <1>4 DEF FreeHeap
  <2>2. mine[p] = {} /\ Holdings(p) = {arg[p].mem}
    BY <1>0, <2>1 DEF OwnersRight, Flight, Holdings
  <2>3. pc'[p] = "freeUnlock"  BY <1>0, <2>1 DEF TypeOK
  <2>4. \A q \in Process : q # p => pc'[q] = pc[q]  BY <1>0, <2>1 DEF TypeOK
  <2>5. Holdings(p)' = {}  BY <2>1, <2>2, <2>3 DEF Holdings, Flight
  <2>6. \A q \in Process : q # p => Holdings(q)' = Holdings(q)
    BY <2>1, <2>4 DEF Holdings
  <2>7. TableLive' <=> TableLive  BY <2>1 DEF TableLive
  <2>8. /\ \A q \in Process : Holdings(q)' \subseteq heap'
        /\ \A q, r \in Process : q # r => Holdings(q)' \cap Holdings(r)' = {}
        /\ TableLive => tableMem \in heap' /\ \A q \in Process : tableMem \notin Holdings(q)'
    BY <1>0, <2>1, <2>2, <2>5, <2>6 DEF OwnersRight
  <2>9. \A b \in heap' : \/ \E q \in Process : b \in Holdings(q)'
                         \/ TableLive /\ b = tableMem
                         \/ \E q \in Process : Failed(q)' /\ b = arg'[q].mem
    BY <1>0, <1>1, <2>1, <2>2, <2>6 DEF OwnersRight
  <2>10. /\ \A q \in Process : pc'[q] \in Flight \cup {"calloc", "callocIn"} => mine[q] = {}
         /\ \A t \in Thread : pc'[t] = "returned" => mine[t] = {}
    BY <1>0, <2>2, <2>4, ProcessFacts DEF OwnersRight
  <2>. QED  BY <1>0, <2>1, <2>7, <2>8, <2>9, <2>10 DEF OwnersRight
<1>5. ASSUME NEW t \in Thread, Replace(t)
      PROVE  OwnersRight'
  <2>0. t \in Process /\ t # MAIN  BY ProcessFacts
  <2>1. PICK a \in mine[t] : tableMem' = a /\ mine' = [mine EXCEPT ![t] = @ \ {a}]
    BY <1>5 DEF Replace
  <2>2. /\ pc[t] = "work" /\ pc' = [pc EXCEPT ![t] = "free"]
        /\ arg' = [arg EXCEPT ![t] = [mem |-> tableMem, s |-> 0]]
        /\ main' = main /\ heap' = heap
    BY <1>5 DEF Replace, CallFree
  <2>3. TableLive
    <3>1. main.op \in {"start", "create", "join", "free", "result", "end"}  BY <1>0 DEF TypeOK
    <3>. QED  BY <1>0, <2>2, <3>1 DEF JoinsRight, TableLive
  <2>4. mine[t] = {a} /\ Holdings(t) = {a}
    BY <1>0, <2>0, <2>1, <2>2 DEF OwnersRight, Holdings, Flight
  <2>5. pc'[t] = "free" /\ mine'[t] = {} /\ arg'[t].mem = tableMem
    BY <1>0, <2>0, <2>1, <2>2, <2>4 DEF TypeOK
  <2>6. \A q \in Process : q # t => pc'[q] = pc[q] /\ mine'[q] = mine[q] /\ arg'[q] = arg[q]
    BY <1>0, <2>1, <2>2 DEF TypeOK
  <2>7. Holdings(t)' = {tableMem}  BY <2>5 DEF Holdings, Flight
  <2>8. \A q \in Process : q # t => Holdings(q)' = Holdings(q)  BY <2>6 DEF Holdings
  <2>9. TableLive'  BY <2>2, <2>3 DEF TableLive
  <2>10. /\ \A q \in Process : Holdings(q)' \subseteq heap
         /\ \A q, r \in Process : q # r => Holdings(q)' \cap Holdings(r)' = {}
         /\ a \in heap /\ \A q \in Process : a \notin Holdings(q)'
    BY <1>0, <2>0, <2>3, <2>4, <2>7, <2>8 DEF OwnersRight
  <2>11. \A b \in heap : \/ \E q \in Process : b \in Holdings(q)'
                         \/ b = a
                         \/ \E q \in Process : Failed(q)' /\ b = arg'[q].mem
    BY <1>0, <1>1, <2>0, <2>4, <2>7, <2>8 DEF OwnersRight
  <2>12. /\ \A q \in Process : pc'[q] \in Flight \cup {"calloc", "callocIn"} => mine'[q] = {}
         /\ \A q \in Process : \A b, c \in mine'[q] : b = c
         /\ \A r \in Thread : pc'[r] = "returned" => mine'[r] = {}
         /\ main.op # "start" => mine'[MAIN] = {}
    BY <1>0, <2>0, <2>5, <2>6, ProcessFacts DEF OwnersRight
  <2>. QED  BY <2>1, <2>2, <2>9, <2>10, <2>11, <2>12 DEF OwnersRight
<1>6. ASSUME NEW t \in Thread, FreeScratch(t)
      PROVE  OwnersRight'
  <2>0. t \in Process /\ t # MAIN  BY ProcessFacts
  <2>1. PICK a \in mine[t] : mine' = [mine EXCEPT ![t] = @ \ {a}] /\ CallFree(t, a)
    BY <1>6 DEF FreeScratch
  <2>2. /\ pc[t] = "work" /\ pc' = [pc EXCEPT ![t] = "free"]
        /\ arg' = [arg EXCEPT ![t] = [mem |-> a, s |-> 0]]
        /\ main' = main /\ heap' = heap /\ tableMem' = tableMem
    BY <1>6, <2>1 DEF FreeScratch, CallFree
  <2>3. mine[t] = {a} /\ Holdings(t) = {a}
    BY <1>0, <2>0, <2>1, <2>2 DEF OwnersRight, Holdings, Flight
  <2>4. pc'[t] = "free" /\ mine'[t] = {} /\ arg'[t].mem = a
    BY <1>0, <2>0, <2>1, <2>2, <2>3 DEF TypeOK
  <2>5. \A q \in Process : q # t => pc'[q] = pc[q] /\ mine'[q] = mine[q] /\ arg'[q] = arg[q]
    BY <1>0, <2>1, <2>2 DEF TypeOK
  <2>6. \A q \in Process : Holdings(q)' = Holdings(q)
    BY <2>3, <2>4, <2>5 DEF Holdings, Flight
  <2>7. TableLive' <=> TableLive  BY <2>2 DEF TableLive
  <2>8. \A b \in heap : \/ \E q \in Process : b \in Holdings(q)
                        \/ TableLive /\ b = tableMem
                        \/ \E q \in Process : Failed(q)' /\ b = arg'[q].mem
    BY <1>0, <1>1 DEF OwnersRight
  <2>9. /\ \A q \in Process : pc'[q] \in Flight \cup {"calloc", "callocIn"} => mine'[q] = {}
        /\ \A q \in Process : \A b, c \in mine'[q] : b = c
        /\ \A r \in Thread : pc'[r] = "returned" => mine'[r] = {}
        /\ main.op # "start" => mine'[MAIN] = {}
    BY <1>0, <2>0, <2>4, <2>5, ProcessFacts DEF OwnersRight
  <2>. QED  BY <1>0, <2>2, <2>6, <2>7, <2>8, <2>9 DEF OwnersRight
<1>7. CASE MainCalloc /\ mine[MAIN] # {}
  <2>1. /\ pc[MAIN] = "work" /\ main.op = "start" /\ pc' = pc /\ arg' = arg /\ heap' = heap
        /\ tableMem' \in mine[MAIN] /\ mine' = [mine EXCEPT ![MAIN] = {}] /\ main'.op = "create"
    BY <1>7 DEF MainCalloc, MainAt, MainGoes
  <2>2. mine[MAIN] = {tableMem'} /\ Holdings(MAIN) = {tableMem'}
    BY <1>0, <2>1, ProcessFacts DEF OwnersRight, Holdings, Flight
  <2>3. mine'[MAIN] = {} /\ \A q \in Process : q # MAIN => mine'[q] = mine[q]
    BY <1>0, <2>1, ProcessFacts DEF TypeOK
  <2>4. Holdings(MAIN)' = {}  BY <2>1, <2>3 DEF Holdings, Flight
  <2>5. \A q \in Process : q # MAIN => Holdings(q)' = Holdings(q)
    BY <2>1, <2>3 DEF Holdings
  <2>6. ~ TableLive /\ TableLive'  BY <2>1 DEF TableLive
  <2>7. /\ \A q \in Process : Holdings(q)' \subseteq heap
        /\ \A q, r \in Process : q # r => Holdings(q)' \cap Holdings(r)' = {}
        /\ tableMem' \in heap /\ \A q \in Process : tableMem' \notin Holdings(q)'
    BY <1>0, <2>2, <2>4, <2>5, ProcessFacts DEF OwnersRight
  <2>8. \A b \in heap : \/ \E q \in Process : b \in Holdings(q)'
                        \/ b = tableMem'
                        \/ \E q \in Process : Failed(q)' /\ b = arg'[q].mem
    BY <1>0, <1>1, <2>2, <2>5, <2>6 DEF OwnersRight
  <2>9. /\ \A q \in Process : pc'[q] \in Flight \cup {"calloc", "callocIn"} => mine'[q] = {}
        /\ \A q \in Process : \A b, c \in mine'[q] : b = c
        /\ \A r \in Thread : pc'[r] = "returned" => mine'[r] = {}
    BY <1>0, <2>1, <2>3, ProcessFacts DEF OwnersRight
  <2>. QED  BY <2>1, <2>3, <2>6, <2>7, <2>8, <2>9 DEF OwnersRight
<1>8. CASE MainFree
  <2>1. /\ pc[MAIN] = "work" /\ main.op = "free" /\ main'.op = "result"
        /\ pc' = [pc EXCEPT ![MAIN] = "free"]
        /\ arg' = [arg EXCEPT ![MAIN] = [mem |-> tableMem, s |-> 0]]
        /\ heap' = heap /\ mine' = mine /\ tableMem' = tableMem
    BY <1>8 DEF MainFree, MainAt, MainGoes, CallFree
  <2>2. mine[MAIN] = {} /\ Holdings(MAIN) = {} /\ TableLive /\ ~ TableLive'
    BY <1>0, <2>1 DEF OwnersRight, Holdings, Flight, TableLive
  <2>3. pc'[MAIN] = "free" /\ arg'[MAIN].mem = tableMem
    BY <1>0, <2>1, ProcessFacts DEF TypeOK
  <2>4. \A q \in Process : q # MAIN => pc'[q] = pc[q] /\ arg'[q] = arg[q]
    BY <1>0, <2>1, ProcessFacts DEF TypeOK
  <2>5. Holdings(MAIN)' = {tableMem}  BY <2>1, <2>2, <2>3 DEF Holdings, Flight
  <2>6. \A q \in Process : q # MAIN => Holdings(q)' = Holdings(q)
    BY <2>1, <2>4 DEF Holdings
  <2>7. /\ \A q \in Process : Holdings(q)' \subseteq heap
        /\ \A q, r \in Process : q # r => Holdings(q)' \cap Holdings(r)' = {}
    BY <1>0, <2>2, <2>5, <2>6 DEF OwnersRight
  <2>8. \A b \in heap : \/ \E q \in Process : b \in Holdings(q)'
                        \/ \E q \in Process : Failed(q)' /\ b = arg'[q].mem
    BY <1>0, <1>1, <2>2, <2>5, <2>6, ProcessFacts DEF OwnersRight
  <2>9. /\ \A q \in Process : pc'[q] \in Flight \cup {"calloc", "callocIn"} => mine[q] = {}
        /\ \A r \in Thread : pc'[r] = "returned" => mine[r] = {}
    BY <1>0, <2>2, <2>4, ProcessFacts DEF OwnersRight
  <2>. QED  BY <1>0, <2>1, <2>2, <2>7, <2>8, <2>9 DEF OwnersRight
<1>9. CASE UNCHANGED vars
  <2>1. pc' = pc /\ main' = main /\ mine' = mine /\ arg' = arg /\ heap' = heap /\ tableMem' = tableMem
    BY <1>9 DEF vars, progVars, memVars
  <2>. QED  BY <1>0, <2>1 DEF OwnersRight, Holdings, TableLive, Failed, Exiting
<1>. QED  BY <1>2, <1>3, <1>4, <1>5, <1>6, <1>7, <1>8, <1>9, KeepsStep, OwnersKept DEF Next
-----------------------------------------------------------------------------
(* The accounts.                                                           *)

(* The smallest member of a set of entries, as CallocInfo and FreeIn use.  *)
LEMMA MinEntry ==
  ASSUME NEW S \in SUBSET InfoSlot, S # {}
  PROVE  Min(S) \in S
<1>1. S \in SUBSET Nat  BY ExitAssumption DEF InfoSlot
<1>2. \E i \in S : \A j \in S : i <= j  BY <1>1, LeastNatural
<1>. QED  BY <1>2 DEF Min

(* A step of p outside mem.c, which may destroy its mutex.                 *)
Away(p) ==
  /\ info' = info /\ heap' = heap /\ allocated' = allocated
  /\ \A q \in Process \ {p} : arg'[q] = arg[q]
  /\ \A q \in Process \ {p} : pc'[q] = pc[q] \/ (pc[q] = "none" /\ pc'[q] = "work")
  /\ pc[p] \notin InMem /\ pc'[p] \notin InMem
  /\ mutex'["mem"] = mutex["mem"] \/ (mutex["mem"] = Free /\ mutex'["mem"] = Destroyed)

(* A step of p with the mutex of mem.c, or that takes it.                  *)
Inside(p) ==
  /\ mutex["mem"] \in {p, Free}
  /\ \A q \in Process \ {p} : pc'[q] = pc[q]
  /\ \/ mutex'["mem"] = p /\ (pc'[p] \in InMem \/ Failed(p)')
     \/ mutex'["mem"] = Free /\ pc'[p] \notin InMem /\ Accounts'
  /\ pc'[p] \in {"callocIn", "callocUnlock", "freeIn", "freeUnlock"} => Accounts'
  /\ pc'[p] = "callocInfo" =>
       Entries(heap \ {arg[p].mem})' /\ checkConsistency(info, allocated - arg[p].s)'
  /\ pc'[p] = "freeHeap" =>
       Entries(heap \ {arg[p].mem})' /\ checkConsistency(info, allocated)'

(* Steps outside leave the accounts right.                                 *)
LEMMA AccountsAway ==
  ASSUME IInv, [Next]_vars, NEW p \in Process, Away(p)
  PROVE  AccountsRight'
<1>0. AccountsRight /\ Free \notin Process /\ Destroyed \notin Process
  BY ExitAssumption DEF IInv
<1>1. \A q \in Process : Failed(q) => Failed(q)'  BY FailedNext
<1>2. Accounts' <=> Accounts
  BY DEF Away, Accounts, Entries, UsedInfo, UsedIn
<1>3. \A q \in Process : pc'[q] \in InMem => q # p /\ pc[q] = pc'[q]
  BY DEF Away, InMem
<1>4. \A q \in Process : pc[q] \in InMem => pc'[q] = pc[q]  BY DEF Away, InMem
<1>5. mutex'["mem"] \in {Free, Destroyed} => Accounts'
  BY <1>0, <1>2 DEF Away, AccountsRight
<1>6. \A q \in Process : pc'[q] \in InMem => mutex'["mem"] = q
  BY <1>0, <1>3 DEF Away, AccountsRight
<1>7. \A q \in Process : mutex'["mem"] = q => pc'[q] \in InMem \/ Failed(q)'
  BY <1>0, <1>1, <1>4 DEF Away, AccountsRight
<1>8. ASSUME NEW q \in Process
      PROVE  /\ pc'[q] \in {"callocIn", "callocUnlock", "freeIn", "freeUnlock"} => Accounts'
             /\ pc'[q] = "callocInfo" =>
                  Entries(heap \ {arg[q].mem})' /\ checkConsistency(info, allocated - arg[q].s)'
             /\ pc'[q] = "freeHeap" =>
                  Entries(heap \ {arg[q].mem})' /\ checkConsistency(info, allocated)'
  <2>1. CASE pc'[q] \in InMem
    <3>1. q # p /\ pc[q] = pc'[q] /\ arg'[q] = arg[q]  BY <1>3, <2>1 DEF Away
    <3>2. info' = info /\ heap' = heap /\ allocated' = allocated  BY DEF Away
    <3>3. /\ Entries(heap \ {arg[q].mem})' <=> Entries(heap \ {arg[q].mem})
          /\ checkConsistency(info, allocated - arg[q].s)' <=> checkConsistency(info, allocated - arg[q].s)
          /\ checkConsistency(info, allocated)' <=> checkConsistency(info, allocated)
      BY <3>1, <3>2 DEF Entries, UsedInfo, UsedIn
    <3>. QED  BY <1>0, <1>2, <3>1, <3>3 DEF AccountsRight
  <2>2. CASE pc'[q] \notin InMem  BY <2>2 DEF InMem
  <2>. QED  BY <2>1, <2>2
<1>. QED  BY <1>5, <1>6, <1>7, <1>8 DEF AccountsRight

(* And so do steps inside, which exclude one another.                      *)
LEMMA AccountsInside ==
  ASSUME IInv, [Next]_vars, NEW p \in Process, Inside(p)
  PROVE  AccountsRight'
<1>0. AccountsRight /\ Free \notin Process /\ Destroyed \notin Process /\ Free # Destroyed
  BY ExitAssumption DEF IInv
<1>1. \A q \in Process : q # p => pc'[q] \notin InMem
  BY <1>0 DEF Inside, AccountsRight
<1>2. mutex'["mem"] \in {Free, Destroyed} => Accounts'  BY <1>0 DEF Inside
<1>3. \A q \in Process : pc'[q] \in InMem => mutex'["mem"] = q  BY <1>1 DEF Inside
<1>4. \A q \in Process : mutex'["mem"] = q => pc'[q] \in InMem \/ Failed(q)'
  BY <1>0 DEF Inside
<1>5. ASSUME NEW q \in Process
      PROVE  /\ pc'[q] \in {"callocIn", "callocUnlock", "freeIn", "freeUnlock"} => Accounts'
             /\ pc'[q] = "callocInfo" =>
                  Entries(heap \ {arg[q].mem})' /\ checkConsistency(info, allocated - arg[q].s)'
             /\ pc'[q] = "freeHeap" =>
                  Entries(heap \ {arg[q].mem})' /\ checkConsistency(info, allocated)'
  <2>1. CASE q = p  BY <2>1 DEF Inside
  <2>2. CASE q # p  BY <1>1, <2>2 DEF InMem
  <2>. QED  BY <2>1, <2>2
<1>. QED  BY <1>2, <1>3, <1>4, <1>5 DEF AccountsRight

(* What the processes do elsewhere is outside.                             *)
LEMMA AwayStep ==
  ASSUME IInv, NEW p \in Process, Types(p) \/ (p # MAIN /\ Work(p)) \/ (p = MAIN /\ Main)
  PROVE  Away(p)
<1>. USE DEF At, Goto, FAIL
<1>0. TypeOK /\ JoinsRight  BY DEF IInv
<1>1. CASE Types(p)
  <2>1. info' = info /\ heap' = heap /\ allocated' = allocated /\ arg' = arg
    BY <1>1 DEF Types, PrintErr, ErrPrinted, types_exit, TypesDeinit, MemDeinit, PrintBalance, BalancePrinted, End, memVars
  <2>2. /\ pc[p] \in {"fail", "failPrint", "exit", "dtors", "balance", "balancePrint"}
        /\ pc' = pc \/ pc' \in {[pc EXCEPT ![p] = l] :
             l \in {"failPrint", "exit", "gone", "dtors", "balance", "balancePrint"}}
    BY <1>1 DEF Types, PrintErr, ErrPrinted, types_exit, TypesDeinit, MemDeinit, PrintBalance, BalancePrinted, End, Lock, Unlock
  <2>3. \/ mutex' = mutex
        \/ mutex' \in {[mutex EXCEPT !["print"] = o] : o \in {p, Free}}
        \/ \E m \in Mutex : mutex' = [mutex EXCEPT ![m] = IF @ = Free THEN Destroyed ELSE @]
    BY <1>1 DEF Types, PrintErr, ErrPrinted, types_exit, TypesDeinit, MemDeinit, PrintBalance, BalancePrinted, End, Lock, Unlock, Destroy, Mutex
  <2>4. mutex'["mem"] = mutex["mem"] \/ (mutex["mem"] = Free /\ mutex'["mem"] = Destroyed)
    BY <1>0, <2>3, ProcessFacts DEF TypeOK
  <2>. QED  BY <1>0, <2>1, <2>2, <2>4 DEF Away, TypeOK, InMem
<1>2. CASE p # MAIN /\ Work(p)
  <2>1. info' = info /\ heap' = heap /\ allocated' = allocated
    BY <1>2 DEF Work, LockShared, UnlockShared, Calloc, CallCalloc, Replace, FreeScratch, CallFree, Return, memVars
  <2>2. arg' = arg \/ \E b : arg' = [arg EXCEPT ![p] = b]
    BY <1>2 DEF Work, LockShared, UnlockShared, Calloc, CallCalloc, Replace, FreeScratch, CallFree, Return, memVars
  <2>3. pc[p] = "work"
        /\ pc' \in {[pc EXCEPT ![p] = l] : l \in {"work", "calloc", "free", "returned"}}
    BY <1>2 DEF Work, LockShared, UnlockShared, Calloc, CallCalloc, Replace, FreeScratch, CallFree, Return, Lock, Unlock
  <2>4. mutex' = mutex \/ mutex' \in {[mutex EXCEPT !["shared"] = o] : o \in {p, Free}}
    BY <1>2 DEF Work, LockShared, UnlockShared, Calloc, CallCalloc, Replace, FreeScratch, CallFree, Return, Lock, Unlock
  <2>. QED  BY <1>0, <2>1, <2>2, <2>3, <2>4, ProcessFacts DEF Away, TypeOK, InMem
<1>3. CASE p = MAIN /\ Main
  <2>1. info' = info /\ heap' = heap /\ allocated' = allocated
    BY <1>3 DEF Main, MainCalloc, CallCalloc, Create, Join, MainFree, CallFree, PrintResult, ResultPrinted, memVars
  <2>2. arg' = arg \/ \E b : arg' = [arg EXCEPT ![p] = b]
    BY <1>3 DEF Main, MainCalloc, CallCalloc, Create, Join, MainFree, CallFree, PrintResult, ResultPrinted, memVars
  <2>3. pc[p] \in {"work", "resultPrint"}
    BY <1>3 DEF Main, MainCalloc, Create, Join, MainFree, PrintResult, ResultPrinted, MainAt
  <2>4. \/ pc' = pc
        \/ pc' \in {[pc EXCEPT ![p] = l] : l \in {"calloc", "fail", "free", "resultPrint", "dtors"}}
        \/ Create /\ pc' = [pc EXCEPT ![main.i] = "work"]
    BY <1>3 DEF Main, MainCalloc, CallCalloc, Create, Join, MainFree, CallFree, PrintResult, ResultPrinted, Lock, Unlock
  <2>5. mutex' = mutex \/ mutex' \in {[mutex EXCEPT !["print"] = o] : o \in {p, Free}}
    BY <1>3 DEF Main, MainCalloc, CallCalloc, Create, Join, MainFree, CallFree, PrintResult, ResultPrinted, Lock, Unlock
  <2>6. Create => main.i \in Thread /\ pc[main.i] = "none"
    BY <1>0 DEF TypeOK, Thread, JoinsRight, Create, MainAt
  <2>. QED  BY <1>0, <1>3, <2>1, <2>2, <2>3, <2>4, <2>5, <2>6, ProcessFacts DEF Away, TypeOK, InMem
<1>. QED  BY <1>1, <1>2, <1>3

(* What a call of mem.c finds in its table, and leaves there.              *)
LEMMA EntriesNext ==
  ASSUME IInv, NEW p \in Process
  PROVE  /\ CallocInfo(p) /\ info' # info => Entries(heap)'
         /\ FreeIn(p) /\ info' # info => Entries(heap \ {arg[p].mem})'
<1>. USE DEF At
<1>0. TypeOK /\ OwnersRight /\ AccountsRight /\ NULL \notin Addr
  BY NullAssumption DEF IInv
<1>1. ASSUME CallocInfo(p), info' # info
      PROVE  Entries(heap)'
  <2>. DEFINE j == Min(InfoSlot \ UsedInfo)
  <2>1. pc[p] = "callocInfo" /\ UsedInfo # InfoSlot /\ info' = [info EXCEPT ![j] = arg[p]] /\ heap' = heap
    BY <1>1 DEF CallocInfo
  <2>2. j \in InfoSlot /\ j \notin UsedInfo
    <3>1. InfoSlot \ UsedInfo # {}  BY <2>1 DEF UsedInfo, UsedIn
    <3>. QED  BY <3>1, MinEntry
  <2>. HIDE DEF j
  <2>3. arg[p].mem \in heap /\ arg[p].mem # NULL
    <3>1. arg[p].mem \in Holdings(p)  BY <2>1 DEF Holdings, Flight
    <3>. QED  BY <1>0, <3>1 DEF OwnersRight, TypeOK
  <2>4. Entries(heap \ {arg[p].mem})  BY <1>0, <2>1 DEF AccountsRight
  <2>5. info'[j] = arg[p] /\ \A i \in InfoSlot : i # j => info'[i] = info[i]
    BY <1>0, <2>1, <2>2 DEF TypeOK
  <2>6. UsedIn(info') = UsedInfo \cup {j}
    BY <2>2, <2>3, <2>5 DEF UsedInfo, UsedIn
  <2>7. UsedInfo \subseteq InfoSlot  BY DEF UsedInfo, UsedIn
  <2>8. {info'[i].mem : i \in UsedIn(info')} = {info[i].mem : i \in UsedInfo} \cup {arg[p].mem}
    BY <2>2, <2>5, <2>6, <2>7
  <2>9. {info'[i].mem : i \in UsedIn(info')} = heap'
    BY <2>1, <2>3, <2>4, <2>8 DEF Entries
  <2>10. \A i \in UsedInfo : info[i].mem # arg[p].mem  BY <2>4 DEF Entries
  <2>11. \A i, k \in UsedIn(info') : info'[i].mem = info'[k].mem => i = k
    BY <2>2, <2>4, <2>5, <2>6, <2>7, <2>10 DEF Entries
  <2>. QED  BY <2>9, <2>11 DEF Entries, UsedInfo
<1>2. ASSUME FreeIn(p), info' # info
      PROVE  Entries(heap \ {arg[p].mem})'
  <2>. DEFINE j == Min(EntryOf(p))
  <2>1. pc[p] = "freeIn" /\ EntryOf(p) # {} /\ info' = [info EXCEPT ![j].mem = NULL] /\ heap' = heap /\ arg' = arg
    BY <1>2 DEF FreeIn
  <2>2. j \in InfoSlot /\ info[j].mem = arg[p].mem
    <3>1. j \in EntryOf(p)
      <4>1. EntryOf(p) \in SUBSET InfoSlot  BY DEF EntryOf
      <4>. QED  BY <2>1, <4>1, MinEntry
    <3>. QED  BY <3>1 DEF EntryOf
  <2>. HIDE DEF j
  <2>3. arg[p].mem \in heap /\ arg[p].mem # NULL
    <3>1. arg[p].mem \in Holdings(p)  BY <2>1 DEF Holdings, Flight
    <3>. QED  BY <1>0, <3>1 DEF OwnersRight, TypeOK
  <2>4. Entries(heap)  BY <1>0, <2>1 DEF AccountsRight, Accounts
  <2>5. info'[j].mem = NULL /\ \A i \in InfoSlot : i # j => info'[i] = info[i]
    BY <1>0, <2>1, <2>2 DEF TypeOK, Block
  <2>6. UsedIn(info') = UsedInfo \ {j} /\ j \in UsedInfo
    BY <2>2, <2>3, <2>5 DEF UsedInfo, UsedIn
  <2>7. UsedInfo \subseteq InfoSlot  BY DEF UsedInfo, UsedIn
  <2>8. \A i \in UsedInfo : info[i].mem = arg[p].mem => i = j
    BY <2>2, <2>4, <2>6 DEF Entries
  <2>9. {info'[i].mem : i \in UsedIn(info')} = {info[i].mem : i \in UsedInfo} \ {arg[p].mem}
    BY <2>2, <2>5, <2>6, <2>7, <2>8
  <2>10. {info'[i].mem : i \in UsedIn(info')} = heap' \ {arg'[p].mem}
    BY <2>1, <2>4, <2>9 DEF Entries
  <2>11. \A i, k \in UsedIn(info') : info'[i].mem = info'[k].mem => i = k
    BY <2>4, <2>5, <2>6, <2>7 DEF Entries
  <2>. QED  BY <2>10, <2>11 DEF Entries, UsedInfo
<1>. QED  BY <1>1, <1>2

(* The calls of mem.c are inside, but for a lock that fails.               *)
LEMMA InsideStep ==
  ASSUME IInv, NEW p \in Process, Mem(p)
  PROVE  Inside(p) \/ Away(p)
<1>. USE DEF At, Goto, FAIL
<1>0. TypeOK /\ AccountsRight /\ OwnersRight  BY DEF IInv
<1>1. ASSUME pc[p] \in InMem
      PROVE  mutex["mem"] = p
  BY <1>0, <1>1 DEF AccountsRight
<1>2. CASE CallocLock(p) \/ FreeLock(p)
  <2>1. info' = info /\ heap' = heap /\ allocated' = allocated /\ arg' = arg
        /\ pc[p] \in {"calloc", "free"}
    BY <1>2 DEF CallocLock, FreeLock, memVars
  <2>2. CASE pc' = [pc EXCEPT ![p] = "fail"] /\ mutex' = mutex
    BY <1>0, <2>1, <2>2 DEF Away, TypeOK, InMem
  <2>3. CASE /\ mutex["mem"] = Free /\ mutex' = [mutex EXCEPT !["mem"] = p]
             /\ pc' \in {[pc EXCEPT ![p] = l] : l \in {"callocIn", "freeIn"}}
    <3>1. Accounts  BY <1>0, <2>3 DEF AccountsRight
    <3>2. Accounts'  BY <2>1, <3>1 DEF Accounts, Entries, UsedInfo, UsedIn
    <3>. QED  BY <1>0, <2>1, <2>3, <3>2, ProcessFacts DEF Inside, TypeOK, InMem
  <2>. QED  BY <1>2, <2>2, <2>3 DEF CallocLock, FreeLock, Lock, CanLock
<1>3. CASE CallocIn(p)
  <2>1. pc[p] = "callocIn" /\ info' = info /\ mutex' = mutex  BY <1>3 DEF CallocIn
  <2>2. mutex["mem"] = p /\ Accounts  BY <1>0, <1>1, <2>1 DEF AccountsRight, InMem
  <2>3. CASE pc' = [pc EXCEPT ![p] = "fail"]
    BY <1>0, <2>1, <2>2, <2>3 DEF Inside, TypeOK, InMem, Failed
  <2>4. CASE pc' # [pc EXCEPT ![p] = "fail"]
    <3>1. PICK a \in Addr \ heap, s \in Size :
            /\ heap' = heap \cup {a}
            /\ arg' = [arg EXCEPT ![p] = [mem |-> a, s |-> s]]
            /\ allocated' = allocated + s
      BY <1>3, <2>4 DEF CallocIn
    <3>2. pc' = [pc EXCEPT ![p] = "callocInfo"]  BY <1>3, <2>4 DEF CallocIn
    <3>3. arg'[p] = [mem |-> a, s |-> s] /\ s \in Nat /\ allocated \in Int
      BY <1>0, <3>1, ExitAssumption DEF TypeOK
    <3>4. heap' \ {arg'[p].mem} = heap /\ allocated' - arg'[p].s = allocated
      BY <3>1, <3>3
    <3>5. Entries(heap \ {arg[p].mem})' /\ checkConsistency(info, allocated - arg[p].s)'
      BY <2>1, <2>2, <3>4 DEF Accounts, Entries, UsedInfo, UsedIn
    <3>. QED  BY <1>0, <2>1, <2>2, <3>2, <3>5 DEF Inside, TypeOK, InMem
  <2>. QED  BY <2>3, <2>4
<1>4. CASE CallocInfo(p)
  <2>1. /\ pc[p] = "callocInfo" /\ mutex' = mutex /\ heap' = heap /\ allocated' = allocated
        /\ pc' \in {[pc EXCEPT ![p] = l] : l \in {"callocUnlock", "fail"}}
    BY <1>4 DEF CallocInfo
  <2>2. mutex["mem"] = p  BY <1>1, <2>1 DEF InMem
  <2>3. pc'[p] = "callocUnlock" => checkConsistency(info, allocated)' /\ info' # info
    <3>. SUFFICES ASSUME pc'[p] = "callocUnlock"
                  PROVE  checkConsistency(info, allocated)' /\ info' # info
      OBVIOUS
    <3>1. pc' # [pc EXCEPT ![p] = "fail"]  BY <1>0 DEF TypeOK
    <3>2. checkConsistency(info', allocated)
          /\ info' = [info EXCEPT ![Min(InfoSlot \ UsedInfo)] = arg[p]] /\ UsedInfo # InfoSlot
      BY <1>4, <3>1 DEF CallocInfo
    <3>3. checkConsistency(info, allocated)'  BY <2>1, <3>2
    <3>4. InfoSlot \ UsedInfo # {}  BY <3>2 DEF UsedInfo, UsedIn
    <3>5. Min(InfoSlot \ UsedInfo) \in InfoSlot \ UsedInfo  BY <3>4, MinEntry
    <3>6. arg[p].mem # NULL
      <4>1. arg[p].mem \in Holdings(p)  BY <2>1 DEF Holdings, Flight
      <4>. QED  BY <1>0, <4>1, NullAssumption DEF OwnersRight, TypeOK
    <3>7. info[Min(InfoSlot \ UsedInfo)].mem = NULL  BY <3>5 DEF UsedInfo, UsedIn
    <3>8. info' # info  BY <1>0, <3>2, <3>5, <3>6, <3>7 DEF TypeOK
    <3>. QED  BY <3>3, <3>8
  <2>4. pc'[p] = "callocUnlock" => Accounts'  BY <1>4, <2>3, EntriesNext DEF Accounts
  <2>. QED  BY <1>0, <2>1, <2>2, <2>4 DEF Inside, TypeOK, InMem, Failed
<1>5. CASE CallocUnlock(p) \/ FreeUnlock(p)
  <2>1. /\ pc[p] \in {"callocUnlock", "freeUnlock"} /\ mutex' = [mutex EXCEPT !["mem"] = Free]
        /\ heap' = heap /\ allocated' = allocated /\ info' = info
        /\ pc' = [pc EXCEPT ![p] = "work"]
    BY <1>5 DEF CallocUnlock, FreeUnlock, Unlock, memVars
  <2>2. mutex["mem"] = p /\ Accounts  BY <1>0, <1>1, <2>1 DEF AccountsRight, InMem
  <2>3. Accounts'  BY <2>1, <2>2 DEF Accounts, Entries, UsedInfo, UsedIn
  <2>. QED  BY <1>0, <2>1, <2>2, <2>3, ProcessFacts DEF Inside, TypeOK, InMem
<1>6. CASE FreeIn(p)
  <2>1. /\ pc[p] = "freeIn" /\ mutex' = mutex /\ heap' = heap
        /\ pc' \in {[pc EXCEPT ![p] = l] : l \in {"freeHeap", "fail"}}
    BY <1>6 DEF FreeIn
  <2>2. mutex["mem"] = p  BY <1>1, <2>1 DEF InMem
  <2>3. pc'[p] = "freeHeap" => checkConsistency(info, allocated)' /\ info' # info
    <3>. SUFFICES ASSUME pc'[p] = "freeHeap"
                  PROVE  checkConsistency(info, allocated)' /\ info' # info
      OBVIOUS
    <3>1. pc' # [pc EXCEPT ![p] = "fail"]  BY <1>0 DEF TypeOK
    <3>2. checkConsistency(info', allocated')
          /\ info' = [info EXCEPT ![Min(EntryOf(p))].mem = NULL] /\ EntryOf(p) # {}
      BY <1>6, <3>1 DEF FreeIn
    <3>3. Min(EntryOf(p)) \in EntryOf(p)
      <4>1. EntryOf(p) \in SUBSET InfoSlot  BY DEF EntryOf
      <4>. QED  BY <3>2, <4>1, MinEntry
    <3>4. arg[p].mem # NULL
      <4>1. arg[p].mem \in Holdings(p)  BY <2>1 DEF Holdings, Flight
      <4>. QED  BY <1>0, <4>1, NullAssumption DEF OwnersRight, TypeOK
    <3>5. Min(EntryOf(p)) \in InfoSlot /\ info[Min(EntryOf(p))].mem # NULL
      BY <3>3, <3>4 DEF EntryOf
    <3>6. info' # info  BY <1>0, <3>2, <3>5 DEF TypeOK, Block
    <3>. QED  BY <3>2, <3>6
  <2>4. pc'[p] = "freeHeap" => Entries(heap \ {arg[p].mem})'  BY <1>6, <2>3, EntriesNext
  <2>. QED  BY <1>0, <2>1, <2>2, <2>3, <2>4 DEF Inside, TypeOK, InMem, Failed
<1>7. CASE FreeHeap(p)
  <2>1. /\ pc[p] = "freeHeap" /\ mutex' = mutex /\ heap' = heap \ {arg[p].mem}
        /\ allocated' = allocated /\ info' = info /\ pc' = [pc EXCEPT ![p] = "freeUnlock"]
    BY <1>7 DEF FreeHeap
  <2>2. mutex["mem"] = p  BY <1>1, <2>1 DEF InMem
  <2>3. Entries(heap \ {arg[p].mem}) /\ checkConsistency(info, allocated)
    BY <1>0, <2>1 DEF AccountsRight
  <2>4. Accounts'  BY <2>1, <2>3 DEF Accounts, Entries, UsedInfo, UsedIn
  <2>. QED  BY <1>0, <2>1, <2>2, <2>4 DEF Inside, TypeOK, InMem
<1>. QED  BY <1>2, <1>3, <1>4, <1>5, <1>6, <1>7 DEF Mem

(* Every step leaves the accounts right.                                   *)
LEMMA AccountsNext ==
  ASSUME IInv, [Next]_vars
  PROVE  AccountsRight'
<1>1. CASE Next
  <2>1. PICK p \in Process : Step(p)  BY <1>1 DEF Next
  <2>2. Inside(p) \/ Away(p)  BY <2>1, InsideStep, AwayStep DEF Step
  <2>. QED  BY <2>2, AccountsInside, AccountsAway
<1>2. CASE UNCHANGED vars
  <2>1. /\ pc' = pc /\ mutex' = mutex /\ info' = info /\ heap' = heap
        /\ allocated' = allocated /\ arg' = arg /\ main' = main
    BY <1>2 DEF vars, progVars, memVars
  <2>. QED  BY <2>1 DEF IInv, AccountsRight, Accounts, Entries, UsedInfo, UsedIn, Failed, Exiting
<1>. QED  BY <1>1, <1>2
-----------------------------------------------------------------------------
(* The check of mem.c as a total of the sizes.                             *)
LEMMA ConsistencyIs ==
  ASSUME NEW entries \in [InfoSlot -> Block], NEW sum, NEW S, S = UsedIn(entries)
  PROVE  /\ IsFiniteSet(S) /\ S \in SUBSET InfoSlot
         /\ \A i \in S : Sizes(entries)[i] \in Int
         /\ checkConsistency(entries, sum) <=> Total(Sizes(entries), S) = sum
<1>1. S \in SUBSET InfoSlot  BY DEF UsedIn
<1>2. IsFiniteSet(S)
  <2>1. IsFiniteSet(InfoSlot)  BY ExitAssumption, FS_Interval DEF InfoSlot
  <2>. QED  BY <1>1, <2>1, FS_Subset
<1>3. \A i \in S : entries[i].s \in Int  BY <1>1 DEF Block
<1>4. \A i \in S : Sizes(entries)[i] \in Int  BY <1>1, <1>3 DEF Sizes
<1>5. MapThenSumSet(LAMBDA i : entries[i].s, S) = Total(Sizes(entries), S)
  BY <1>1, <1>2, <1>3, SumOfSizes
<1>. QED  BY <1>1, <1>2, <1>4, <1>5 DEF checkConsistency

(* The invariant holds at the start.                                       *)
LEMMA InitInv ==
  Init => IInv
<1>. SUFFICES ASSUME Init PROVE IInv  OBVIOUS
<1>. USE DEF Init
<1>1. TypeOK
  <2>1. 0 \in 0 .. NUM_THREADS - 1  BY ProcessFacts
  <2>2. NoBlock \in Block  BY DEF NoBlock, Block
  <2>3. arg \in [Process -> Block] /\ info \in [InfoSlot -> Block]  BY <2>2
  <2>4. main \in [op : {"start", "create", "join", "free", "result", "end"}, i : 0 .. NUM_THREADS - 1]
    BY <2>1
  <2>5. pc \in [Process -> Places]  BY DEF Places
  <2>6. /\ mutex \in [Mutex -> Process \cup {Free, Destroyed}]
        /\ calls \in [Process -> Nat] /\ mine \in [Process -> SUBSET Addr]
    OBVIOUS
  <2>7. isExiting = FALSE  OBVIOUS
  <2>8. /\ status \in {"running", "success", "failure", "aborted"}
        /\ left \subseteq {"types", "mem"} /\ tableMem \in Addr \cup {NULL}
        /\ heap \subseteq Addr /\ allocated \in Int
    OBVIOUS
  <2>. HIDE DEF Init
  <2>9. isExiting \in BOOLEAN  BY <2>7
  <2>. QED  BY <2>3, <2>4, <2>5, <2>6, <2>8, <2>9 DEF TypeOK
<1>2. \A p \in Process : pc[p] \in {"work", "none"} /\ mine[p] = {}  OBVIOUS
<1>3. \A t \in Thread : pc[t] = "none"  BY ProcessFacts
<1>4. ExitsRight  BY <1>2 DEF ExitsRight, Exiting
<1>5. JoinsRight  BY <1>2, <1>3, ProcessFacts DEF JoinsRight
<1>6. OwnersRight
  <2>1. \A p \in Process : Holdings(p) = {}  BY <1>2 DEF Holdings, Flight
  <2>. QED  BY <1>2, <2>1, ProcessFacts DEF OwnersRight, Flight, TableLive
<1>7. AccountsRight
  <2>1. UsedInfo = {}  BY DEF UsedInfo, UsedIn, NoBlock
  <2>2. checkConsistency(info, 0)
    <3>1. info \in [InfoSlot -> Block] /\ {} = UsedIn(info)  BY <1>1, <2>1 DEF TypeOK, UsedInfo
    <3>2. Total(Sizes(info), {}) = 0  BY FS_EmptySet, SumRemove
    <3>. QED  BY <3>1, <3>2, ConsistencyIs
  <2>3. Accounts  BY <2>1, <2>2 DEF Accounts, Entries
  <2>4. mutex["mem"] = Free /\ Free \notin Process  BY ProcessFacts, ExitAssumption
  <2>. QED  BY <1>2, <2>3, <2>4 DEF AccountsRight, InMem
<1>8. StatusIsRight  BY DEF StatusIsRight
<1>. QED  BY <1>1, <1>4, <1>5, <1>6, <1>7, <1>8 DEF IInv

(* The inductive invariant is an invariant.                                *)
THEOREM Invariance == Spec => []IInv
<1>1. Init => IInv  BY InitInv
<1>2. IInv /\ [Next]_vars => IInv'
  BY TypeNext, ExitsNext, JoinsNext, OwnersNext, AccountsNext, StatusNext DEF IInv
<1>. QED  BY <1>1, <1>2, PTL DEF Spec

(* The variables have their types.                                         *)
THEOREM TypeCorrect == Spec => []TypeOK
<1>1. IInv => TypeOK  BY DEF IInv
<1>. QED  BY <1>1, Invariance, PTL

(* exit is called once, whichever threads fail at the same time, in a      *)
(* program of any number of threads (types_exit).                          *)
THEOREM ExitedOnce == Spec => []ExitsOnce
<1>1. ASSUME IInv PROVE ExitsOnce
  <2>. DEFINE S == {p \in Process : Exiting(p)}
  <2>1. CASE S = {}  BY <2>1, FS_EmptySet DEF ExitsOnce
  <2>2. CASE S # {}
    <3>1. PICK p : p \in S  BY <2>2
    <3>2. S = {p}  BY <1>1, <3>1 DEF IInv, ExitsRight
    <3>. QED  BY <3>2, FS_Singleton DEF ExitsOnce
  <2>. QED  BY <2>1, <2>2
<1>. QED  BY <1>1, Invariance, PTL

(* The main thread frees the table and prints the result only when every   *)
(* thread has done all of its work, though a thread that failed is joined  *)
(* like the others (thr_parallel).                                         *)
THEOREM ResultsComplete == Spec => []NoPartialResult
<1>1. IInv => NoPartialResult  BY DEF IInv, JoinsRight, NoPartialResult
<1>. QED  BY <1>1, Invariance, PTL

(* The status is that of a success exactly when nothing failed, in         *)
(* whatever order the destructors run (types_deinit and mem_deinit).       *)
THEOREM StatusCorrect == Spec => []StatusIsRight
<1>1. IInv => StatusIsRight  BY DEF IInv
<1>. QED  BY <1>1, Invariance, PTL

(* Nothing is allocated any more when the result has been printed: there   *)
(* is no leak that mem_deinit could report (mem.c).                        *)
THEOREM NoLeak == Spec => [](main.op = "end" => heap = {} /\ allocated = 0)
<1>1. IInv => (main.op = "end" => heap = {} /\ allocated = 0)  BY BalanceZero
<1>. QED  BY <1>1, Invariance, PTL

(* Whenever nobody is inside mem.c, its entries are the allocated blocks,  *)
(* once each, and the sum is that of their sizes, for any number of        *)
(* threads, entries and blocks.                                            *)
THEOREM AccountsCorrect == Spec => []AccountsMatch
<1>1. ASSUME IInv PROVE AccountsMatch
  <2>0. TypeOK /\ AccountsRight /\ OwnersRight  BY <1>1 DEF IInv
  <2>1. ASSUME mutex["mem"] \in {Free, Destroyed}
        PROVE  /\ {info[i].mem : i \in UsedInfo} = heap
               /\ Cardinality(UsedInfo) = Cardinality(heap)
               /\ checkConsistency(info, allocated)
    <3>1. Accounts  BY <2>0, <2>1 DEF AccountsRight
    <3>. DEFINE f == [i \in UsedInfo |-> info[i].mem]
    <3>2. f \in Bijection(UsedInfo, heap)
      BY <3>1 DEF Accounts, Entries, Bijection, Injection, Surjection, IsInjective
    <3>3. IsFiniteSet(UsedInfo)
      <4>1. info \in [InfoSlot -> Block] /\ UsedInfo = UsedIn(info)
        BY <2>0 DEF TypeOK, UsedInfo
      <4>. QED  BY <4>1, ConsistencyIs
    <3>4. Cardinality(UsedInfo) = Cardinality(heap)
      BY <3>2, <3>3, FS_Bijection DEF ExistsBijection
    <3>. QED  BY <3>1, <3>4 DEF Accounts, Entries
  <2>2. ASSUME NEW p \in Process, pc[p] = "freeIn"
        PROVE  EntryOf(p) # {}
    <3>1. arg[p].mem \in heap
      BY <2>0, <2>2 DEF OwnersRight, Holdings, Flight
    <3>2. {info[i].mem : i \in UsedInfo} = heap
      BY <2>0, <2>2 DEF AccountsRight, Accounts, Entries
    <3>. QED  BY <3>1, <3>2 DEF EntryOf, UsedInfo, UsedIn
  <2>. QED  BY <2>0, <2>1, <2>2 DEF AccountsMatch, AccountsRight, Accounts
<1>. QED  BY <1>1, Invariance, PTL

(* What mem.c checks of its own table is true whenever it checks it: the   *)
(* entry that is added or taken away is the difference of the sums.        *)
THEOREM ChecksPass == Spec => NoFalseAlarm
<1>. DEFINE A == \A p \in Process :
                   /\ CallocInfo(p) /\ pc'[p] = "fail" => UsedInfo = InfoSlot
                   /\ FreeIn(p) => pc'[p] = "freeHeap"
<1>1. ASSUME IInv, IInv', NEW p \in Process, CallocInfo(p), UsedInfo # InfoSlot
      PROVE  pc'[p] # "fail"
  <2>. DEFINE j == Min(InfoSlot \ UsedInfo)
              S == UsedInfo \cup {j}
  <2>1. /\ info' = [info EXCEPT ![j] = arg[p]] /\ pc[p] = "callocInfo"
        /\ checkConsistency(info', allocated) => pc' = [pc EXCEPT ![p] = "callocUnlock"]
    BY <1>1 DEF CallocInfo, At, Goto
  <2>2. /\ TypeOK /\ info' \in [InfoSlot -> Block]
        /\ checkConsistency(info, allocated - arg[p].s)
    BY <1>1, <2>1 DEF IInv, TypeOK, AccountsRight
  <2>3. j \in InfoSlot /\ j \notin UsedInfo
    <3>1. InfoSlot \ UsedInfo # {}  BY <1>1 DEF UsedInfo, UsedIn
    <3>. QED  BY <3>1, MinEntry
  <2>. HIDE DEF j
  <2>4. arg[p].mem # NULL
    <3>1. arg[p].mem \in Holdings(p)  BY <2>1 DEF Holdings, Flight
    <3>. QED  BY <1>1, <3>1, NullAssumption DEF IInv, OwnersRight, TypeOK
  <2>5. info'[j] = arg[p] /\ \A i \in InfoSlot : i # j => info'[i] = info[i]
    BY <2>1, <2>2, <2>3 DEF TypeOK
  <2>6. UsedIn(info') = S /\ UsedInfo = UsedIn(info)
    BY <2>3, <2>4, <2>5 DEF UsedInfo, UsedIn
  <2>. HIDE DEF S
  <2>7. /\ IsFiniteSet(S) /\ S \in SUBSET InfoSlot
        /\ \A i \in S : Sizes(info')[i] \in Int
        /\ checkConsistency(info', allocated) <=> Total(Sizes(info'), S) = allocated
    BY <2>2, <2>6, ConsistencyIs
  <2>8. /\ IsFiniteSet(UsedInfo) /\ UsedInfo \in SUBSET InfoSlot
        /\ \A i \in UsedInfo : Sizes(info)[i] \in Int
        /\ checkConsistency(info, allocated - arg[p].s)
              <=> Total(Sizes(info), UsedInfo) = allocated - arg[p].s
    <3>1. info \in [InfoSlot -> Block]  BY <2>2 DEF TypeOK
    <3>. QED  BY <2>6, <3>1, ConsistencyIs
  <2>9. Total(Sizes(info'), S) = Sizes(info')[j] + Total(Sizes(info'), S \ {j})
    <3>1. j \in S  BY DEF S
    <3>. QED  BY <2>7, <3>1, SumRemove
  <2>10. S \ {j} = UsedInfo  BY <2>3 DEF S
  <2>11. Total(Sizes(info), UsedInfo) = Total(Sizes(info'), UsedInfo)
    <3>1. \A i \in UsedInfo : Sizes(info)[i] = Sizes(info')[i]
      BY <2>3, <2>5, <2>8 DEF Sizes
    <3>. QED  BY <2>8, <3>1, SumSame
  <2>12. Sizes(info')[j] = arg[p].s  BY <2>3, <2>5 DEF Sizes
  <2>13. arg[p].s \in Int /\ allocated \in Int  BY <2>2 DEF TypeOK, Block
  <2>14. Total(Sizes(info'), S) = allocated
    <3>1. Total(Sizes(info'), S) = arg[p].s + Total(Sizes(info'), UsedInfo)
      BY <2>9, <2>10, <2>12
    <3>2. Total(Sizes(info'), UsedInfo) = allocated - arg[p].s  BY <2>2, <2>8, <2>11
    <3>. QED  BY <2>13, <3>1, <3>2
  <2>15. pc' = [pc EXCEPT ![p] = "callocUnlock"]  BY <2>1, <2>7, <2>14
  <2>. QED  BY <2>2, <2>15 DEF TypeOK
<1>2. ASSUME IInv, IInv', NEW p \in Process, FreeIn(p)
      PROVE  pc'[p] = "freeHeap"
  <2>. DEFINE j == Min(EntryOf(p))
  <2>1. pc[p] = "freeIn"  BY <1>2 DEF FreeIn, At
  <2>2. checkConsistency(info, allocated) /\ Entries(heap) /\ TypeOK
        /\ info' \in [InfoSlot -> Block]
    BY <1>2, <2>1 DEF IInv, AccountsRight, Accounts, TypeOK
  <2>3. arg[p].mem \in heap /\ arg[p].mem # NULL
    <3>1. arg[p].mem \in Holdings(p)  BY <2>1 DEF Holdings, Flight
    <3>. QED  BY <1>2, <3>1, NullAssumption DEF IInv, OwnersRight, TypeOK
  <2>4. EntryOf(p) # {} /\ EntryOf(p) \in SUBSET InfoSlot
    BY <2>2, <2>3 DEF Entries, EntryOf, UsedInfo, UsedIn
  <2>5. j \in EntryOf(p)  BY <2>4, MinEntry
  <2>6. /\ allocated' = allocated - info[j].s /\ info' = [info EXCEPT ![j].mem = NULL]
        /\ checkConsistency(info', allocated') => pc' = [pc EXCEPT ![p] = "freeHeap"]
    BY <1>2, <2>2, <2>4 DEF FreeIn, Goto
  <2>. HIDE DEF j
  <2>7. j \in InfoSlot /\ info[j].mem = arg[p].mem  BY <2>5 DEF EntryOf
  <2>8. info'[j].mem = NULL /\ \A i \in InfoSlot : i # j => info'[i] = info[i]
    BY <2>2, <2>6, <2>7 DEF TypeOK, Block
  <2>9. UsedIn(info') = UsedInfo \ {j} /\ UsedInfo = UsedIn(info) /\ j \in UsedInfo
    BY <2>3, <2>7, <2>8 DEF UsedInfo, UsedIn
  <2>10. /\ IsFiniteSet(UsedInfo) /\ UsedInfo \in SUBSET InfoSlot
         /\ \A i \in UsedInfo : Sizes(info)[i] \in Int
         /\ Total(Sizes(info), UsedInfo) = allocated
    <3>1. info \in [InfoSlot -> Block]  BY <2>2 DEF TypeOK
    <3>. QED  BY <2>2, <2>9, <3>1, ConsistencyIs
  <2>11. /\ IsFiniteSet(UsedInfo \ {j}) /\ UsedInfo \ {j} \in SUBSET InfoSlot
         /\ \A i \in UsedInfo \ {j} : Sizes(info')[i] \in Int
         /\ checkConsistency(info', allocated') <=> Total(Sizes(info'), UsedInfo \ {j}) = allocated'
    BY <2>2, <2>9, ConsistencyIs
  <2>12. Total(Sizes(info), UsedInfo) = Sizes(info)[j] + Total(Sizes(info), UsedInfo \ {j})
    BY <2>9, <2>10, SumRemove
  <2>13. Total(Sizes(info'), UsedInfo \ {j}) = Total(Sizes(info), UsedInfo \ {j})
    <3>1. \A i \in UsedInfo \ {j} : Sizes(info')[i] = Sizes(info)[i]
      BY <2>8, <2>10 DEF Sizes
    <3>. QED  BY <2>11, <3>1, SumSame
  <2>14. Total(Sizes(info), UsedInfo \ {j}) \in Int
    <3>1. \A i \in UsedInfo \ {j} : Sizes(info)[i] \in Int  BY <2>10
    <3>. QED  BY <2>11, <3>1, SumRemove
  <2>15. Sizes(info)[j] = info[j].s /\ info[j].s \in Int
    BY <2>2, <2>7 DEF Sizes, TypeOK, Block
  <2>16. pc' = [pc EXCEPT ![p] = "freeHeap"]
    BY <2>6, <2>10, <2>11, <2>12, <2>13, <2>14, <2>15
  <2>. QED  BY <2>2, <2>16 DEF TypeOK
<1>3. IInv /\ IInv' => A  BY <1>1, <1>2
<1>. QED  BY <1>3, Invariance, PTL DEF NoFalseAlarm
=============================================================================
