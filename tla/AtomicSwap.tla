---------------------------- MODULE AtomicSwap ----------------------------
(***************************************************************************)
(* What a swap through two hash time locked outputs promises, whichever    *)
(* coin is swapped for which: the user locks first (userLeg), the bot      *)
(* locks second under the same hash (botLeg), and only the user knows the  *)
(* secret until the user claims the bot's leg with it.                     *)
(***************************************************************************)
CONSTANT Swaps

VARIABLES userLeg, botLeg

legs == <<userLeg, botLeg>>

LegStates == {"none", "locked", "claimed", "refunded"}

LegsOK ==
  /\ userLeg \in [Swaps -> LegStates]
  /\ botLeg \in [Swaps -> LegStates]

Init ==
  /\ userLeg = [s \in Swaps |-> "none"]
  /\ botLeg = [s \in Swaps |-> "none"]

MoveUserLeg(s, from, to) ==
  /\ userLeg[s] = from
  /\ userLeg' = [userLeg EXCEPT ![s] = to]
  /\ UNCHANGED botLeg

MoveBotLeg(s, from, to) ==
  /\ botLeg[s] = from
  /\ botLeg' = [botLeg EXCEPT ![s] = to]
  /\ UNCHANGED userLeg

UserLocks(s) == MoveUserLeg(s, "none", "locked")
UserRefunds(s) == MoveUserLeg(s, "locked", "refunded")
BotLocks(s) == userLeg[s] # "none" /\ MoveBotLeg(s, "none", "locked")
BotRefunds(s) == MoveBotLeg(s, "locked", "refunded")

\* the claim puts the secret on the chain
UserClaims(s) == MoveBotLeg(s, "locked", "claimed")
BotClaims(s) == botLeg[s] = "claimed" /\ MoveUserLeg(s, "locked", "claimed")

Next ==
  \E s \in Swaps :
    \/ UserLocks(s) \/ UserRefunds(s) \/ UserClaims(s)
    \/ BotLocks(s) \/ BotRefunds(s) \/ BotClaims(s)

Spec == Init /\ [][Next]_legs

-----------------------------------------------------------------------------

\* The bot has the user's coins only if the user has the bot's.
Atomic ==
  \A s \in Swaps : userLeg[s] = "claimed" => botLeg[s] = "claimed"

=============================================================================
