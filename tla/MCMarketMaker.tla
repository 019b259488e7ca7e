--------------------------- MODULE MCMarketMaker ---------------------------
(***************************************************************************)
(* An instance of MarketMaker for TLC: two swaps that need the wallet on   *)
(* BCH, a large and a small one, and one that pays into it.                *)
(***************************************************************************)
EXTENDS MarketMaker

CONSTANTS b1, s1, s2

MCValue == [s \in {b1, s1, s2} |-> IF s = s1 THEN 6 ELSE 2]

\* The large swap needs both outputs, the small one either: the fee may be
\* more than the reserve, change may be dust, and there may be no output left.
MCWallet == <<6, 5>>

=============================================================================
