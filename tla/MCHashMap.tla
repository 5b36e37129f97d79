----------------------------- MODULE MCHashMap ------------------------------
(* Instances of HashMap for TLC.  The keys are numbers and there are two   *)
(* attempts.                                                               *)
EXTENDS HashMap

(* The low bits of a hash are replaced by the index in the run, so the     *)
(* multiples of CONTIGUOUS are all the hashes that can be told apart.      *)
Bases == {h \in Hash : h % CONTIGUOUS = 0}

(* The hash functions from keys and attempts to Bases, up to a renaming of *)
(* the keys: TLC sets them in every order, so only the multiset of the     *)
(* keys' probe sequences matters.  Either the attempts of every key try    *)
(* different runs, or those of every key the same run, so that keys are    *)
(* left without a probe at the largest table.                              *)
Code(f, k) == f[k][0] * HASH_SPACE + f[k][1]
AllHashFns ==
  {f \in [Key -> [Attempt -> Bases]] :
     /\ \A j, k \in Key : j < k => Code(f, j) <= Code(f, k)
     /\ \A j, k \in Key : f[j][0] = f[j][1] <=> f[k][0] = f[k][1]}
=============================================================================
