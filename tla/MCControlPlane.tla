--------------------------- MODULE MCControlPlane ---------------------------
(* Instances of ControlPlane for TLC; each .cfg gives the small sets.      *)
EXTENDS ControlPlane

CONSTANTS w1, s1

One == [w \in Wallets |-> 1]
Two == [w \in Wallets |-> 2]
\* The user signs s1; any other signature is a stranger's.
PaidByUser == [s \in Sigs |-> IF s = s1 THEN w1 ELSE None]
=============================================================================
