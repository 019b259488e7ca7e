------------------------- MODULE AtomicSwap_proofs -------------------------
(***************************************************************************)
(* The abstract swap keeps its promise.  A specification that implements   *)
(* AtomicSwap!Spec under a refinement mapping inherits it.                 *)
(***************************************************************************)
EXTENDS AtomicSwap, TLAPS

Inv == LegsOK /\ Atomic

\* Nothing is locked at first.
LEMMA InitInv == Init => Inv
  BY DEF Init, Inv, LegsOK, Atomic, LegStates

\* A leg that is claimed stays so, and the user's leg is claimed after the
\* bot's only.
LEMMA StepInv == Inv /\ [Next]_legs => Inv'
<1> SUFFICES ASSUME Inv, [Next]_legs
             PROVE  Inv'
  OBVIOUS
<1>1. CASE UNCHANGED legs
  BY <1>1 DEF legs, Inv, LegsOK, Atomic
<1>2. ASSUME NEW s \in Swaps,
             \/ UserLocks(s) \/ UserRefunds(s) \/ BotClaims(s)
      PROVE  Inv'
  BY <1>2 DEF UserLocks, UserRefunds, BotClaims, MoveUserLeg, Inv, LegsOK,
              Atomic, LegStates
<1>3. ASSUME NEW s \in Swaps,
             \/ BotLocks(s) \/ BotRefunds(s) \/ UserClaims(s)
      PROVE  Inv'
  BY <1>3 DEF BotLocks, BotRefunds, UserClaims, MoveBotLeg, Inv, LegsOK,
              Atomic, LegStates
<1> QED
  BY <1>1, <1>2, <1>3 DEF Next

\* The bot gets the user's coins only if the user has got the bot's, and the
\* legs take no other states than those of an HTLC.
THEOREM SwapIsAtomic == Spec => [](LegsOK /\ Atomic)
<1>1. Spec => []Inv
  BY InitInv, StepInv, PTL DEF Spec
<1> QED
  BY <1>1 DEF Inv

=============================================================================
