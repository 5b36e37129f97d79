------------------------------ MODULE Threads -------------------------------
(***************************************************************************)
(* The threads of multithread_thr_parallel, and TYPES_ITERATE_TH of        *)
(* types.h, by which each of them takes its share of a range of indexes.   *)
(***************************************************************************)
EXTENDS Integers

MAIN == -1  \* multithread_thr_getId in the main thread

(* Without threads the main thread runs the function itself.               *)
ThreadIds(numThreads) == IF numThreads = 0 THEN {MAIN} ELSE 0 .. numThreads - 1

(* Mutant of To: the loop stops one before the end of the share.           *)
To_OneLess(numThreads, size, t) ==
  IF t = MAIN THEN size - 1 ELSE (size \div numThreads) * (t + 1) - 1

(* The share of thread t is from From to before To.  The end that the last *)
(* thread was given, size, is overwritten by the line after it.            *)
From(numThreads, size, t) == IF t = MAIN THEN 0 ELSE (size \div numThreads) * t
To(numThreads, size, t)   == IF t = MAIN THEN size ELSE (size \div numThreads) * (t + 1)
=============================================================================
