------------------------------ MODULE Leakage -------------------------------
(***************************************************************************)
(* What the transforms of the wires (TransformGenerator) and the infos     *)
(* that the calculations take from them (CalcUtils) are for: to tell       *)
(* whether wires that are looked at together tell anything of the secrets. *)
(***************************************************************************)
EXTENDS TransformGenerator, CalcUtils

(* The transforms of all sums of wires of a row.                           *)
Transforms(row) ==
  {LET fn == AddWires(sub) IN bdd_sumCached_transform(fn.s, fn.ret) : sub \in SUBSET row}

(* The wires of a row that are 1, for the inputs in X.                     *)
Seen(row, X) == {w \in row : Values(X)[w]}

(* How often each view of the wires comes, given what is held fixed.       *)
Views(row, Fixed(_)) ==
  LET seen == [X \in Inputs |-> Seen(row, X)]
  IN  [f \in {Fixed(X) : X \in Inputs}, view \in SUBSET row |->
         Cardinality({X \in Inputs : Fixed(X) = f /\ seen[X] = view})]

Secrets(d, X) ==
  {i \in 0 .. NumMaskedIns \div d - 1 : Cardinality(X \cap i * d .. i * d + d - 1) % 2 = 1}

(* For any number of shares: some sum of a row's wires has correlation     *)
(* (calc_rpsVraps.c) if and only if the joint distribution of the wires    *)
(* depends on the inputs that are shared; and the shares that the sums'    *)
(* coordinates are made of (calc_rpcVraps.c) are those it depends on.      *)
(* This is what the calculations take the infos of the subrows for.        *)
VrapsIsIndependence ==
  \A row \in DOMAIN rowIndex2bdd, d \in 1 .. NumMaskedIns :
    NumMaskedIns % d = 0 =>
      LET numIns  == NumMaskedIns \div d
          masked  == 0 .. NumMaskedIns - 1
          trs     == Transforms(row)
          secrets == Views(row, LAMBDA X : Secrets(d, X))
          shares  == Views(row, LAMBDA X : X \cap masked)
          Flip(A, i) == IF i \in A THEN A \ {i} ELSE A \cup {i}
      IN  /\ (\E tr \in trs : hasCorr(d, numIns, tr))
               <=> \E view \in SUBSET row, A, B \in SUBSET (0 .. numIns - 1) :
                     secrets[A, view] # secrets[B, view]
          /\ UNION {arrayHasCoordWithCorr(d, numIns, tr) : tr \in trs}
               = {i \in masked : \E view \in SUBSET row, A \in SUBSET masked :
                    shares[A, view] # shares[Flip(A, i), view]}
=============================================================================
