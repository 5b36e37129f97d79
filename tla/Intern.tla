------------------------------- MODULE Intern -------------------------------
(***************************************************************************)
(* What the users of hashMap.c rely on, without the table: a dictionary    *)
(* that gives every key, when it is first set, a handle (a hash_t) that no *)
(* other key has, and that never takes it back.  addCore.c puts the handle *)
(* in every BDD pointer, rowIndexedSet.c in hashed2valIndex, rowHashed.c   *)
(* derives the row index from it; none of them can be told that it moved.  *)
(***************************************************************************)
CONSTANTS Key, Value, Handle

VARIABLE dict   \* stored key -> [hash: its handle, value: the last value set]

Bound == {dict[k].hash : k \in DOMAIN dict}

Init == dict = [k \in {} |-> [hash |-> k, value |-> k]]

(* A key that is not stored gets a handle that no stored key has.          *)
Insert(k, v) ==
  /\ k \notin DOMAIN dict
  /\ \E h \in Handle \ Bound :
       dict' = [x \in DOMAIN dict \cup {k} |->
                  IF x = k THEN [hash |-> h, value |-> v] ELSE dict[x]]

(* Setting a stored key replaces its value; the handle stays.              *)
Overwrite(k, v) ==
  /\ k \in DOMAIN dict
  /\ dict' = [dict EXCEPT ![k].value = v]

Next == \E k \in Key, v \in Value : Insert(k, v) \/ Overwrite(k, v)

Spec == Init /\ [][Next]_dict
=============================================================================
