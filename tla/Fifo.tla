-------------------------------- MODULE Fifo --------------------------------
(***************************************************************************)
(* What hashCache.c promises: every bucket remembers the results of the    *)
(* last WAYS keys that were new to it when they were set, but for one that *)
(* it may forget a moment before it has the next.                          *)
(***************************************************************************)
EXTENDS Naturals, Sequences

CONSTANTS Key, Result, Bucket, BucketOf, WAYS

VARIABLE fifo   \* for each bucket, its entries, the oldest first

Keys(b) == {fifo[b][i].key : i \in 1 .. Len(fifo[b])}

Init == fifo = [b \in Bucket |-> <<>>]

(* A full bucket forgets its oldest entry, and no other.                   *)
Forget(b) ==
  /\ Len(fifo[b]) = WAYS
  /\ fifo' = [fifo EXCEPT ![b] = Tail(@)]

(* A key that is there is not set again.                                   *)
Add(k) ==
  LET b == BucketOf[k] IN
  /\ k \notin Keys(b)
  /\ Len(fifo[b]) < WAYS
  /\ fifo' = [fifo EXCEPT ![b] = Append(@, [key |-> k, value |-> Result[k]])]

Next == (\E b \in Bucket : Forget(b)) \/ (\E k \in Key : Add(k))

Spec == Init /\ [][Next]_fifo
=============================================================================
