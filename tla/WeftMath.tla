------------------------------ MODULE WeftMath ------------------------------
(***************************************************************************)
(* Integer arithmetic of the Weft protocol that the on-chain program uses: *)
(* the 70/20/10 split of a traffic payment, the bound on a slash and the   *)
(* reputation penalty (crates/weft-primitives and programs/weft).  Ratios  *)
(* are basis points.  The Rust code widens to u128 before it multiplies,   *)
(* so no product is reduced modulo 2^64.                                   *)
(***************************************************************************)
EXTENDS Integers

BPS == 10000
SPLIT_NODES_BPS == 7000
SPLIT_BURN_BPS == 2000
MAX_SLASH_BPS == 2500
REPUTATION_MIN_BPS == 5000
MAX_TREE_DEPTH == 30

Smaller(a, b) == IF a <= b THEN a ELSE b
Larger(a, b) == IF a >= b THEN a ELSE b

\* u64::saturating_sub
SaturatingSub(a, b) == IF a >= b THEN a - b ELSE 0

\* split_payment: the node and burn shares round down, the treasury takes
\* the remainder.
SplitFloored(amount) ==
  LET part(bps) == (amount * bps) \div BPS
  IN  [nodes |-> part(SPLIT_NODES_BPS), burn |-> part(SPLIT_BURN_BPS),
       treasury |-> part(BPS - SPLIT_NODES_BPS - SPLIT_BURN_BPS)]
SplitPayment(amount) ==
  LET nodes == (amount * SPLIT_NODES_BPS) \div BPS
      burn  == (amount * SPLIT_BURN_BPS) \div BPS
  IN  [nodes |-> nodes, burn |-> burn, treasury |-> amount - nodes - burn]

\* The stake one dispute takes from a position of `staked` when it asks for
\* `wanted`: bounded by the position and by MAX_SLASH_BPS of it.
SlashedUnbounded(staked, wanted) == wanted
Slashed(staked, wanted) ==
  Smaller(Smaller(wanted, staked), (staked * MAX_SLASH_BPS) \div BPS)

\* Reputation after a dispute of the given severity: half the severity is
\* taken off, never below the floor.
Penalized(reputation, severity) ==
  Larger(SaturatingSub(reputation, Smaller(severity, BPS) \div 2),
         REPUTATION_MIN_BPS)
=============================================================================
