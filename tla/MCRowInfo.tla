----------------------------- MODULE MCRowInfo ------------------------------
(* Instances of RowInfo for TLC: three transforms, two of which getInfo    *)
(* cannot tell apart, one of them because it differs in a masked position. *)
EXTENDS RowInfo

Transforms == {"x", "x2", "y"}
Infos == {"ix", "iy"}
MaskX2 == [x \in Transforms |-> IF x = "x2" THEN "x" ELSE x]
InfoOf == [x \in Transforms |-> IF x = "y" THEN "iy" ELSE "ix"]
=============================================================================
