----------------------------- MODULE MCBuyback -----------------------------
(* Instances of Buyback for TLC.                                           *)
EXTENDS Buyback
=============================================================================
