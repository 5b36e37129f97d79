---------------------------- MODULE SubrowHashed ----------------------------
(***************************************************************************)
(* The two passes over all rows in wrapper_new: rowHashed_alloc puts every *)
(* row of the enumeration in a hash set; subrowHashed_new then classifies  *)
(* the rows by their info and by the classes of their direct subrows (the  *)
(* row without one of its wires), which must have been classified before.  *)
(* The later steps calculate once per class, for one row of it.            *)
(*                                                                         *)
(* The class of a row is the handle its value has in a hash set, written   *)
(* as the number of values that were new up to it; 0 is no handle.         *)
(***************************************************************************)
EXTENDS Row, Sequences, SequencesExt

CONSTANTS
  Gadgets,        \* the gadgets and limits: numOuts, d, numTotOuts, maxCoeff, t
  Infos(_, _, _)  \* what the info of a gadget's row may be, after those before

ASSUME GadgetsAssumption ==
  \A g \in Gadgets :
    /\ g.numOuts \in Nat \ {0} /\ g.d \in Nat \ {0}
    /\ g.numTotOuts \in Nat /\ g.numTotOuts >= g.numOuts * g.d
    /\ g.maxCoeff \in Nat
    /\ g.t \in 0 .. g.d - 1

VARIABLES
  g,
  pc,          \* "hash", "info", "subrow", "maps", "done"
  curr,        \* the row the pass is at
  rows,        \* rowHashed's set
  info,        \* the info of each row, from rowInfo_build
  vals,        \* the values of the classes, in the order of their handles
  class,       \* hashed2valIndex: the class of each row
  subrow2row   \* one row of each class

passVars == <<g, pc, curr, rows, info, vals, class, subrow2row>>
-----------------------------------------------------------------------------
PassesInit ==
  /\ g \in Gadgets
  /\ pc = "hash"
  /\ curr = 0
  /\ rows = {}
  /\ info = [r \in {} |-> 0]
  /\ vals = <<>>
  /\ class = [r \in {} |-> 0]
  /\ subrow2row = <<>>

(* BITARRAY_ITERATE: after a row, the next one, or on to another step.     *)
GoOn(next) ==
  LET n == tryNext(g, curr)
  IN  IF n.more THEN curr' = n.row /\ UNCHANGED pc
      ELSE curr' = 0 /\ pc' = next

HashRow ==
  /\ pc = "hash"
  /\ rows' = rows \cup {curr}
  /\ GoOn("info")
  /\ UNCHANGED <<g, info, vals, class, subrow2row>>

(* An array indexed by row, with the row's element written.                *)
Entered(array, r, v) == [q \in {r} \cup DOMAIN array |-> IF q = r THEN v ELSE array[q]]

(* rowInfo_build, in a module of its own: each row gets its info.          *)
GetInfo ==
  /\ pc = "info"
  /\ LET r == Min(rows \ DOMAIN info) IN
     \E i \in Infos(g, info, r) : info' = Entered(info, r, i)
  /\ pc' = IF DOMAIN info' = rows THEN "subrow" ELSE "info"
  /\ UNCHANGED <<g, curr, rows, vals, class, subrow2row>>

ClassOf(r) == IF r \in DOMAIN class THEN class[r] ELSE 0

(* Mutant of Val: the subrows are left out of the value.                   *)
Val_InfoOnly(r) == [subs |-> <<>>, info |-> info[r]]

(* The wires of a row in the order of the loop over its direct subrows.    *)
Place(r, i) == Cardinality({j \in Ones(g, r) : j <= i})
WireAt(r, k) == CHOOSE i \in Ones(g, r) : Place(r, i) = k

(* What a row is classified by: its info, and the class of each direct     *)
(* subrow, in the order of the wires.  There are zeros for a subrow that   *)
(* is not hashed and after the last one.                                   *)
Val(r) ==
  LET Sub(k) == r - 2^WireAt(r, k) IN
  [subs |-> [k \in 1 .. g.numTotOuts |->
               IF k <= Cardinality(Ones(g, r)) /\ Sub(k) \in rows THEN ClassOf(Sub(k)) ELSE 0],
   info |-> info[r]]

(* Mutant of AddClass: a row whose value is there already is not entered. *)
AddClass_NewOnly(r, v) ==
  /\ vals' = IF Contains(vals, v) THEN vals ELSE Append(vals, v)
  /\ class' = IF Contains(vals, v) THEN class ELSE Entered(class, r, Len(vals) + 1)

(* rowIndexedSet_add.                                                      *)
AddClass(r, v) ==
  /\ vals' = IF Contains(vals, v) THEN vals ELSE Append(vals, v)
  /\ class' = Entered(class, r, CHOOSE i \in DOMAIN vals' : vals'[i] = v)

ClassifyRow ==
  /\ pc = "subrow"
  /\ AddClass(curr, Val(curr))
  /\ GoOn("maps")
  /\ UNCHANGED <<g, rows, info, subrow2row>>

(* The last row of a class in the order of rowHashed's slots stays.  That  *)
(* order is the hashes': the row may be any, here one end or the other.    *)
FillMaps ==
  /\ pc = "maps"
  /\ LET Of(c) == {r \in DOMAIN class : class[r] = c} IN
     \/ subrow2row' = [c \in DOMAIN vals |-> Min(Of(c))]
     \/ subrow2row' = [c \in DOMAIN vals |-> Max(Of(c))]
  /\ pc' = "done"
  /\ UNCHANGED <<g, curr, rows, info, vals, class>>

Passes == HashRow \/ GetInfo \/ ClassifyRow \/ FillMaps

PassesSpec == PassesInit /\ [][Passes]_passVars
-----------------------------------------------------------------------------
(* The rows a property checker has to look at: at most t shares of every   *)
(* output and at most maxCoeff probes.                                     *)
Allowed ==
  {r \in 0 .. 2^g.numTotOuts - 1 :
     /\ \A o \in 0 .. g.numOuts - 1 : Cardinality({i \in OutBits(g, o) : get(r, i)}) <= g.t
     /\ Cardinality({i \in Ones(g, r) : i >= numMaskedOuts(g)}) <= g.maxCoeff}

(* The increments by words and by counts of ones leave out no row, and     *)
(* make none that is not allowed.                                          *)
EveryRowHashed == pc = "info" => rows = Allowed

(* When a row is classified, so are its direct subrows: the assertion of   *)
(* rowIndexedSet_row2valIndex, which subrowHashed_new relies on, and what  *)
(* makes "they recursively include the info of all subrows" true.          *)
SubrowsFirst ==
  \A r \in DOMAIN class : \A i \in Ones(g, r) :
    r - 2^i \in rows => r - 2^i \in DOMAIN class

(* The subrow that has the wires of a row whose places are in S.           *)
Keep(r, S) == FoldSet(LAMBDA i, sum : sum + 2^i, 0, {i \in Ones(g, r) : Place(r, i) \in S})

(* Calculating for the row that stands for a class is as good as for any   *)
(* row of the class: their subrows, at any depth, have the same infos.     *)
ClassesAgree ==
  pc = "done" =>
    \A r \in rows :
      LET q == subrow2row[class[r]]
          wires == Cardinality(Ones(g, r))
      IN  /\ wires = Cardinality(Ones(g, q))
          /\ \A S \in SUBSET (1 .. wires) : info[Keep(r, S)] = info[Keep(q, S)]

(* The comment of bitArray_localInc, "returns if it overflows", for the    *)
(* increments that row_tryNext_probeLeqMaxCoeff asks for.                  *)
IncReturnsIfItOverflows ==
  LET ones == Ones(g, curr)
      from == IF Cardinality(ones) < g.maxCoeff THEN numMaskedOuts(g) ELSE Min(ones)
  IN  curr % 2^numMaskedOuts(g) = 0 =>
        (localInc(g.numTotOuts, curr, from).overflows <=> curr + 2^from >= 2^g.numTotOuts)
=============================================================================
