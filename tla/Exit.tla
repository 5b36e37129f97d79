-------------------------------- MODULE Exit --------------------------------
(***************************************************************************)
(* How the program ends: types_exit of types.c when several threads FAIL,  *)
(* thr_parallel of multithread.h, which joins them, the destructors, and   *)
(* mem.c, whose mem_calloc is what fails and whose mutex is held when it   *)
(* does.                                                                   *)
(*                                                                         *)
(* A thread works with a scratch block of its own, or takes the mutex of a *)
(* shared table and replaces its memory by a larger block, as hashMap.c    *)
(* does.  The accounts of mem.c are kept, as in a build with --check.      *)
(*                                                                         *)
(* A mutex holds its owner.  Using a destroyed one is undefined behaviour: *)
(* here, as in glibc, locking it returns an error, and destroying it while *)
(* it is locked does nothing.                                              *)
(***************************************************************************)
EXTENDS Integers, FiniteSets, FiniteSetsExt

CONSTANTS
  NUM_THREADS, MEM_NUM_ALLOCS,
  Addr, Size,       \* of blocks; when all addresses are taken, calloc fails
  CALLS,            \* bound: calls of mem_calloc and uses of the table by each
  Free, Destroyed,  \* mutexes that nobody holds
  NULL

MAIN == -1
Thread == 0 .. NUM_THREADS - 1
Process == Thread \cup {MAIN}
Mutex == {"shared", "mem", "print"}

ASSUME ExitAssumption ==
  /\ NUM_THREADS \in Nat \ {0} /\ MEM_NUM_ALLOCS \in Nat /\ CALLS \in Nat
  /\ Size \subseteq Nat \ {0}
  /\ Free # Destroyed /\ Free \notin Process /\ Destroyed \notin Process
ASSUME NullAssumption == NULL \notin Addr

VARIABLES
  pc,          \* each process's place; threads that do not exist are at "none"
  main,        \* what the main thread is at, and with which thread
  mutex,
  isExiting,
  status,      \* "running", or the status the program ended with
  left,        \* destructors that exit has not run yet
  calls,       \* made by each process, up to CALLS
  arg,         \* the block mem_calloc or mem_free is at
  mine,        \* the blocks each process holds
  tableMem,    \* the memory of the shared table
  heap, info, allocated   \* libc's blocks; mem.c's table of them and sum

progVars == <<pc, main, mutex, isExiting, status, left>>
memVars == <<calls, arg, mine, tableMem, heap, info, allocated>>
vars == <<progVars, memVars>>
-----------------------------------------------------------------------------
NoBlock == [mem |-> NULL, s |-> 0]
InfoSlot == 1 .. MEM_NUM_ALLOCS

Init ==
  /\ pc = [p \in Process |-> IF p = MAIN THEN "work" ELSE "none"]
  /\ main = [op |-> "start", i |-> 0]
  /\ mutex = [m \in Mutex |-> Free]
  /\ isExiting = FALSE
  /\ status = "running"
  /\ left = {"types", "mem"}
  /\ calls = [p \in Process |-> 0]
  /\ arg = [p \in Process |-> NoBlock]
  /\ mine = [p \in Process |-> {}]
  /\ tableMem = NULL
  /\ heap = {}
  /\ info = [i \in InfoSlot |-> NoBlock]
  /\ allocated = 0

At(p, l) == status = "running" /\ pc[p] = l
Goto(p, l) == pc' = [pc EXCEPT ![p] = l]

(* FAIL: print the message, then types_exit.                               *)
FAIL(p) == Goto(p, "fail")

(* Mutant of CanLock: a mutex excludes no one.                             *)
CanLock_Always(m) == mutex[m] # Destroyed

CanLock(m) == mutex[m] = Free

(* multithread_mtx_lock, and what follows when it returns an error.        *)
Lock(p, m, next, error) ==
  \/ /\ CanLock(m)
     /\ mutex' = [mutex EXCEPT ![m] = p]
     /\ Goto(p, next)
     /\ UNCHANGED status
  \/ /\ mutex[m] = Destroyed
     /\ error
     /\ UNCHANGED mutex

Unlock(p, m, next) ==
  /\ mutex' = [mutex EXCEPT ![m] = Free]
  /\ Goto(p, next)
-----------------------------------------------------------------------------
(* mem.c                                                                   *)

UsedIn(entries) == {i \in InfoSlot : entries[i].mem # NULL}
UsedInfo == UsedIn(info)

checkConsistency(entries, sum) ==
  MapThenSumSet(LAMBDA i : entries[i].s, UsedIn(entries)) = sum

CallocLock(p) ==
  /\ At(p, "calloc")
  /\ Lock(p, "mem", "callocIn", FAIL(p) /\ UNCHANGED status)
  /\ UNCHANGED <<main, isExiting, left, memVars>>

(* calloc may return NULL at any time.                                     *)
CallocIn(p) ==
  /\ At(p, "callocIn")
  /\ \/ FAIL(p) /\ UNCHANGED <<arg, heap, allocated>>
     \/ /\ checkConsistency(info, allocated)
        /\ \E a \in Addr \ heap, s \in Size :
             /\ heap' = heap \cup {a}
             /\ arg' = [arg EXCEPT ![p] = [mem |-> a, s |-> s]]
             /\ allocated' = allocated + s
        /\ Goto(p, "callocInfo")
  /\ UNCHANGED <<main, mutex, isExiting, status, left, calls, mine, tableMem, info>>

(* The first unused entry; without one, or if the check fails, FAIL.       *)
CallocInfo(p) ==
  /\ At(p, "callocInfo")
  /\ \/ /\ UsedInfo # InfoSlot
        /\ info' = [info EXCEPT ![Min(InfoSlot \ UsedInfo)] = arg[p]]
        /\ IF checkConsistency(info', allocated) THEN Goto(p, "callocUnlock") ELSE FAIL(p)
     \/ /\ UsedInfo = InfoSlot
        /\ FAIL(p)
        /\ UNCHANGED info
  /\ UNCHANGED <<main, mutex, isExiting, status, left, calls, arg, mine, tableMem, heap, allocated>>

CallocUnlock(p) ==
  /\ At(p, "callocUnlock")
  /\ Unlock(p, "mem", "work")
  /\ mine' = [mine EXCEPT ![p] = @ \cup {arg[p].mem}]
  /\ UNCHANGED <<main, isExiting, status, left, calls, arg, tableMem, heap, info, allocated>>

FreeLock(p) ==
  /\ At(p, "free")
  /\ Lock(p, "mem", "freeIn", FAIL(p) /\ UNCHANGED status)
  /\ UNCHANGED <<main, isExiting, left, memVars>>

(* The entries of the block that is freed: one, or the check fails.        *)
EntryOf(p) == {i \in InfoSlot : info[i].mem = arg[p].mem}

FreeIn(p) ==
  /\ At(p, "freeIn")
  /\ IF checkConsistency(info, allocated) /\ EntryOf(p) # {}
     THEN LET i == Min(EntryOf(p)) IN
          /\ allocated' = allocated - info[i].s
          /\ info' = [info EXCEPT ![i].mem = NULL]
          /\ IF checkConsistency(info', allocated') THEN Goto(p, "freeHeap") ELSE FAIL(p)
     ELSE FAIL(p) /\ UNCHANGED <<allocated, info>>
  /\ UNCHANGED <<main, mutex, isExiting, status, left, calls, arg, mine, tableMem, heap>>

FreeHeap(p) ==
  /\ At(p, "freeHeap")
  /\ heap' = heap \ {arg[p].mem}
  /\ Goto(p, "freeUnlock")
  /\ UNCHANGED <<main, mutex, isExiting, status, left, calls, arg, mine, tableMem, info, allocated>>

FreeUnlock(p) ==
  /\ At(p, "freeUnlock")
  /\ Unlock(p, "mem", "work")
  /\ UNCHANGED <<main, isExiting, status, left, memVars>>
-----------------------------------------------------------------------------
(* What threads do.                                                        *)

CallCalloc(p) ==
  /\ calls[p] < CALLS
  /\ calls' = [calls EXCEPT ![p] = @ + 1]
  /\ Goto(p, "calloc")
  /\ UNCHANGED <<main, mutex, isExiting, status, left, arg, mine, tableMem, heap, info, allocated>>

CallFree(p, a) ==
  /\ arg' = [arg EXCEPT ![p] = [mem |-> a, s |-> 0]]
  /\ Goto(p, "free")
  /\ UNCHANGED <<mutex, isExiting, status, left, calls, heap, info, allocated>>

(* rowIndexedSet_add is called under a mutex.                              *)
LockShared(t) ==
  /\ At(t, "work") /\ mine[t] = {} /\ calls[t] < CALLS
  /\ Lock(t, "shared", "work", FALSE)
  /\ calls' = [calls EXCEPT ![t] = @ + 1]
  /\ UNCHANGED <<main, isExiting, left, arg, mine, tableMem, heap, info, allocated>>

UnlockShared(t) ==
  /\ At(t, "work") /\ mutex["shared"] = t /\ mine[t] = {}
  /\ Unlock(t, "shared", "work")
  /\ UNCHANGED <<main, isExiting, status, left, memVars>>

Calloc(t) == At(t, "work") /\ mine[t] = {} /\ CallCalloc(t)

(* hashMap.c's resize: the new memory takes the place of the old.          *)
Replace(t) ==
  /\ At(t, "work") /\ mutex["shared"] = t
  /\ \E a \in mine[t] :
       /\ tableMem' = a
       /\ mine' = [mine EXCEPT ![t] = @ \ {a}]
  /\ CallFree(t, tableMem)
  /\ UNCHANGED main

(* calc_rpsCor1.c and calc_rpcCor1.c: a scratch block for each thread.     *)
FreeScratch(t) ==
  /\ At(t, "work") /\ mutex["shared"] # t
  /\ \E a \in mine[t] : mine' = [mine EXCEPT ![t] = @ \ {a}] /\ CallFree(t, a)
  /\ UNCHANGED <<main, tableMem>>

Return(t) ==
  /\ At(t, "work") /\ mutex["shared"] # t /\ mine[t] = {}
  /\ Goto(t, "returned")
  /\ UNCHANGED <<main, mutex, isExiting, status, left, memVars>>
-----------------------------------------------------------------------------
(* What the main thread does: allocate the table, create and join the      *)
(* threads, free the table, print the result and return.                   *)

MainAt(op) == At(MAIN, "work") /\ main.op = op
MainGoes(op, i) == main' = [op |-> op, i |-> i]

MainCalloc ==
  /\ MainAt("start")
  /\ IF mine[MAIN] = {} THEN CallCalloc(MAIN)
     ELSE /\ tableMem' \in mine[MAIN]
          /\ mine' = [mine EXCEPT ![MAIN] = {}]
          /\ MainGoes("create", 0)
          /\ UNCHANGED <<pc, mutex, isExiting, status, left, calls, arg, heap, info, allocated>>

(* The bound of both loops of thr_parallel.                                *)
MoreThreads(i) == i + 1 < NUM_THREADS

Create ==
  /\ MainAt("create")
  /\ \/ FAIL(MAIN) /\ UNCHANGED main
     \/ /\ Goto(main.i, "work")
        /\ IF MoreThreads(main.i) THEN MainGoes("create", main.i + 1) ELSE MainGoes("join", 0)
  /\ UNCHANGED <<mutex, isExiting, status, left, memVars>>

(* Mutant of Ended: the last thread is not waited for.                     *)
Ended_NotLast(t) == t = NUM_THREADS - 1 \/ pc[t] \in {"returned", "gone"}

(* thrd_join waits for a thread to end, and its result is not asked for.   *)
Ended(t) == pc[t] \in {"returned", "gone"}

Join ==
  /\ MainAt("join")
  /\ Ended(main.i)
  /\ IF MoreThreads(main.i) THEN MainGoes("join", main.i + 1) ELSE MainGoes("free", 0)
  /\ UNCHANGED <<pc, mutex, isExiting, status, left, memVars>>

MainFree ==
  /\ MainAt("free")
  /\ MainGoes("result", 0)
  /\ CallFree(MAIN, tableMem)
  /\ UNCHANGED <<mine, tableMem>>

(* printf of the result.                                                   *)
PrintResult ==
  /\ MainAt("result")
  /\ Lock(MAIN, "print", "resultPrint", FALSE)
  /\ UNCHANGED <<main, isExiting, left, memVars>>

ResultPrinted ==
  /\ At(MAIN, "resultPrint")
  /\ Unlock(MAIN, "print", "dtors")
  /\ MainGoes("end", 0)
  /\ UNCHANGED <<isExiting, status, left, memVars>>
-----------------------------------------------------------------------------
(* types.c                                                                 *)

Abort == status' = "aborted"

PrintErr(p) ==
  /\ At(p, "fail")
  /\ Lock(p, "print", "failPrint", Abort /\ UNCHANGED pc)
  /\ UNCHANGED <<main, isExiting, left, memVars>>

ErrPrinted(p) ==
  /\ At(p, "failPrint")
  /\ Unlock(p, "print", "exit")
  /\ UNCHANGED <<main, isExiting, status, left, memVars>>

(* Mutant of ExitOthers: every thread that fails exits the program.        *)
ExitOthers_Never == FALSE
(* Mutant of ExitOthers: isExiting is set from the start.                  *)
ExitOthers_Always == TRUE

(* The old value that multithread_bool_exchange returns.                   *)
ExitOthers == isExiting

(* types_exit: the first one calls exit(1), the others end their thread.   *)
types_exit(p) ==
  /\ At(p, "exit")
  /\ isExiting' = TRUE
  /\ Goto(p, IF ExitOthers THEN "gone" ELSE "dtors")
  /\ UNCHANGED <<main, mutex, status, left, memVars>>

(* exit runs the destructors, in an order the linker chose, while other    *)
(* threads go on.                                                          *)
Destroy(m) == mutex' = [mutex EXCEPT ![m] = IF @ = Free THEN Destroyed ELSE @]

TypesDeinit(p) ==
  /\ At(p, "dtors") /\ "types" \in left
  /\ left' = left \ {"types"}
  /\ Destroy("print")
  /\ UNCHANGED <<pc, main, isExiting, status, memVars>>

(* mem_deinit reports a balance that is not 0.                             *)
MemDeinit(p) ==
  /\ At(p, "dtors") /\ "mem" \in left
  /\ left' = left \ {"mem"}
  /\ Destroy("mem")
  /\ IF allocated # 0 THEN Goto(p, "balance") ELSE UNCHANGED pc
  /\ UNCHANGED <<main, isExiting, status, memVars>>

PrintBalance(p) ==
  /\ At(p, "balance")
  /\ Lock(p, "print", "balancePrint", Abort /\ UNCHANGED pc)
  /\ UNCHANGED <<main, isExiting, left, memVars>>

BalancePrinted(p) ==
  /\ At(p, "balancePrint")
  /\ Unlock(p, "print", "dtors")
  /\ UNCHANGED <<main, isExiting, status, left, memVars>>

End(p) ==
  /\ At(p, "dtors") /\ left = {}
  /\ status' = IF main.op = "end" THEN "success" ELSE "failure"
  /\ UNCHANGED <<pc, main, mutex, isExiting, left, memVars>>
-----------------------------------------------------------------------------
Mem(p) ==
  \/ CallocLock(p) \/ CallocIn(p) \/ CallocInfo(p) \/ CallocUnlock(p)
  \/ FreeLock(p) \/ FreeIn(p) \/ FreeHeap(p) \/ FreeUnlock(p)
Types(p) ==
  \/ PrintErr(p) \/ ErrPrinted(p) \/ types_exit(p) \/ TypesDeinit(p)
  \/ MemDeinit(p) \/ PrintBalance(p) \/ BalancePrinted(p) \/ End(p)
Work(t) ==
  \/ LockShared(t) \/ UnlockShared(t) \/ Calloc(t) \/ Replace(t)
  \/ FreeScratch(t) \/ Return(t)
Main ==
  \/ MainCalloc \/ Create \/ Join \/ MainFree \/ PrintResult \/ ResultPrinted

Step(p) == Mem(p) \/ Types(p) \/ (IF p = MAIN THEN Main ELSE Work(p))

Next == \E p \in Process : Step(p)

(* Every thread that can go on is scheduled again and again.  Each takes a *)
(* mutex finitely often, so none is overtaken for ever.                    *)
Spec == Init /\ [][Next]_vars /\ \A p \in Process : WF_vars(Step(p))
-----------------------------------------------------------------------------
Places ==
  {"none", "work", "calloc", "callocIn", "callocInfo", "callocUnlock", "free", "freeIn",
   "freeHeap", "freeUnlock", "returned", "fail", "failPrint", "exit", "gone",
   "resultPrint", "dtors", "balance", "balancePrint"}
Block == [mem : Addr \cup {NULL}, s : Nat]

(* Types of the variables.                                                 *)
TypeOK ==
  /\ pc \in [Process -> Places]
  /\ main \in [op : {"start", "create", "join", "free", "result", "end"}, i : 0 .. NUM_THREADS - 1]
  /\ mutex \in [Mutex -> Process \cup {Free, Destroyed}]
  /\ isExiting \in BOOLEAN
  /\ status \in {"running", "success", "failure", "aborted"}
  /\ left \subseteq {"types", "mem"}
  /\ calls \in [Process -> Nat]
  /\ arg \in [Process -> Block]
  /\ mine \in [Process -> SUBSET Addr]
  /\ tableMem \in Addr \cup {NULL}
  /\ heap \subseteq Addr
  /\ info \in [InfoSlot -> Block]
  /\ allocated \in Int

Exiting(p) == pc[p] \in {"dtors", "balance", "balancePrint"}
Failed(p) ==
  \/ pc[p] \in {"fail", "failPrint", "exit", "gone"}
  \/ Exiting(p) /\ ~(p = MAIN /\ main.op = "end")

(* exit is called once, whichever threads fail at the same time and        *)
(* whatever the main thread does: a second call, from another thread, is   *)
(* undefined behaviour (types_exit).                                       *)
ExitsOnce == Cardinality({p \in Process : Exiting(p)}) <= 1

(* The main thread goes on after its joins only if every thread has done   *)
(* all of its work: a thread that failed is not taken for one that ended,  *)
(* though thrd_join is not asked for its result.                           *)
NoPartialResult ==
  main.op \in {"free", "result", "end"} => \A t \in Thread : pc[t] = "returned"

(* The status tells whether anything failed, with the destructors in any   *)
(* order: a program that has done all its work does not abort by printing  *)
(* under a destroyed mutex, because its balance of memory is 0.            *)
StatusIsRight ==
  status # "running" => (status = "success" <=> \A p \in Process : ~Failed(p))

(* Whenever nobody is inside mem.c, its entries are the blocks that are    *)
(* allocated, once each, and their sizes make up the sum; and so they do   *)
(* when a call that has locked its mutex looks at them first.              *)
AccountsMatch ==
  /\ mutex["mem"] \in {Free, Destroyed} =>
       /\ {info[i].mem : i \in UsedInfo} = heap
       /\ Cardinality(UsedInfo) = Cardinality(heap)
       /\ checkConsistency(info, allocated)
  /\ \A p \in Process :
       /\ pc[p] = "callocIn" => checkConsistency(info, allocated)
       /\ pc[p] = "freeIn" => checkConsistency(info, allocated) /\ EntryOf(p) # {}

(* What mem.c checks of its own table before it unlocks it is true: there  *)
(* is no false alarm.  A call of mem_calloc that has its memory fails only *)
(* for want of an entry, and a call of mem_free never fails.               *)
NoFalseAlarm ==
  [][\A p \in Process :
       /\ CallocInfo(p) /\ pc'[p] = "fail" => UsedInfo = InfoSlot
       /\ FreeIn(p) => pc'[p] = "freeHeap"]_vars

(* The program ends, though a thread that fails keeps its locks for ever:  *)
(* printing the message and exiting need none of them.                     *)
ProgramEnds == <>(status # "running")
=============================================================================
