---------------------------- MODULE MCHashCache -----------------------------
(* Four diagrams that share their parts, in two buckets of two ways.       *)
EXTENDS HashCache, TLC

CONSTANTS A, B, C, D, l0, l1, b1, b2, s1, s2

MCSub == B :> <<l0, l1>> @@ C :> <<B, l1>> @@ A :> <<B, C>> @@ D :> <<C, l0>>
MCCombine(k, s) == (s[1] + 2 * s[2] + 3) % 11
MCResult == l0 :> 0 @@ l1 :> 1 @@ B :> 5 @@ C :> 10 @@ A :> 6 @@ D :> 2
MCBucketOf == A :> b1 @@ B :> b1 @@ C :> b1 @@ D :> b2
MCSplitOf == b1 :> s1 @@ b2 :> s2
=============================================================================
