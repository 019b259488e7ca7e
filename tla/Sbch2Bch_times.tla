---------------------------- MODULE Sbch2Bch_times ----------------------------
(***************************************************************************)
(* What the time locks of Sbch2Bch are good for.  The two chains' clocks   *)
(* may be apart by Drift, and a lock transaction, a refund and a claim     *)
(* happen at times of one chain that are to be compared with times of the  *)
(* other.  The theorems of this module say how far apart the clocks may    *)
(* be for the swap to be atomic, and for the bot not to lose coins, and    *)
(* that the slaves leave the work to a master that is there.               *)
(***************************************************************************)
EXTENDS Sbch2Bch_proofs

(***************************************************************************)
(* Times.  None of this depends on the bots being prompt or on the absence *)
(* of faults.                                                              *)
(***************************************************************************)
ClocksClose ==
  /\ 2 * bchHeight <= sbchNow + Drift
  /\ sbchNow <= 2 * bchHeight + Drift

SwapsTimed ==
  \A s \in Swaps :
    /\ swapTime[s] <= sbchNow
    /\ swap[s] = "Refunded" => sbchNow >= swapTime[s] + TimeLock

\* A lock transaction is sent while the user's deposit is neither in the
\* future nor too old, and goes back to the bot when it has had enough
\* confirmations.
LockTimed(i) ==
  LET sent == 2 * (locks[i].height - 1)
      deposit == swapTime[locks[i].swap]
  IN  /\ locks[i].height <= bchHeight + 1
      /\ deposit <= sent + Drift
      /\ sent <= deposit + TimeLock \div 3 + Drift
      /\ locks[i].spent # "no" => locks[i].spentAt <= bchHeight + 1
      /\ locks[i].spent = "bot" => bchHeight >= locks[i].height + BchTimeLock

LocksTimed == \A i \in DOMAIN locks : LockTimed(i)

Times == ClocksClose /\ SwapsTimed /\ LocksTimed

TimedInv == IInv /\ Times

\* Nothing has happened at time 0.
LEMMA TimesAtFirst == Init => Times
  BY TimesAssumption
  DEF Init, Times, ClocksClose, SwapsTimed, LocksTimed, LockTimed

\* The parts of a lock transaction have their types.
LEMMA LockParts ==
  ASSUME ChainsOK, NEW i \in DOMAIN locks
  PROVE  /\ locks[i].swap \in Swaps /\ locks[i].height \in Nat
         /\ locks[i].spent \in {"no", "user", "bot"}
         /\ locks[i].spentAt \in Nat
  <1>1. locks[i] \in LockTxs
    BY DEF ChainsOK
  <1>. QED BY <1>1 DEF LockTxs

\* The constants that are times.
LEMMA TimeTypes ==
  /\ TimeLock \in Nat /\ TimeLock \div 3 \in Nat
  /\ BchTimeLock \in Nat /\ Drift \in Nat /\ Confirmations \in Nat
  BY TimesAssumption DEF BchTimeLock

\* A lock transaction that is spent keeps its swap and its height.
LEMMA SpendTimes ==
  ASSUME ChainsOK, NEW i \in DOMAIN locks, NEW who \in {"user", "bot"},
         Spend(i, who)
  PROVE  /\ locks'[i].swap = locks[i].swap
         /\ locks'[i].height = locks[i].height
         /\ locks'[i].spent = who /\ locks'[i].spentAt = bchHeight + 1
  <1>1. locks[i] \in LockTxs
    BY DEF ChainsOK
  <1>. QED BY <1>1 DEF Spend, LockTxs, ChainsOK

\* Spending an output keeps the times if a bot does so late enough.
LEMMA SpendTimed ==
  ASSUME TypeOK, LocksTimed, NEW i \in DOMAIN locks,
         NEW who \in {"user", "bot"}, Spend(i, who),
         UNCHANGED <<clocks, swapTime>>,
         who = "bot" => bchHeight >= locks[i].height + BchTimeLock
  PROVE  LocksTimed'
  <1>1. /\ ChainsOK /\ bchHeight \in Nat /\ UNCHANGED <<bchHeight, swapTime>>
    BY DEF TypeOK, ChainsOK, clocks
  <1>2. LockTimed(i)'
    BY <1>1, SpendTimes DEF LocksTimed, LockTimed, BchTimeLock
  <1>3. ASSUME NEW j \in DOMAIN locks, j # i PROVE LockTimed(j)'
    <2>1. locks'[j] = locks[j]
      BY <1>1, <1>3, SpendFacts
    <2>. QED BY <1>1, <1>3, <2>1 DEF LocksTimed, LockTimed, BchTimeLock
  <1>4. DOMAIN locks' = DOMAIN locks
    BY <1>1, SpendFacts
  <1>. QED BY <1>2, <1>3, <1>4 DEF LocksTimed

\* The chains' times and the users' deposits change in these steps only.
Untimed == UNCHANGED <<clocks, swap, swapTime, locks>>

\* Which steps change a lock transaction, a swap or a clock.
LEMMA TimedSteps ==
  ASSUME [Next]_vars
  PROVE  \/ Untimed
         \/ \E b \in Bots, s \in Swaps : RefundBch(b, s) \/ LockBch(b, s)
         \/ UserStep \/ Mine \/ TickBch \/ TickSbch
  <1>. USE DEF Untimed, chains, vars
  <1>1. ASSUME NEW b \in Bots, BotStep(b) \/ Crash(b)
        PROVE  \/ Untimed
               \/ \E s \in Swaps : RefundBch(b, s) \/ LockBch(b, s)
    BY <1>1
    DEF BotStep, Crash, Start, UpdatePrices, EndStage, HandleBchBlock,
      SaveBchHeight, BchBlockFails, HandleSbchLockEventS2B, SaveSbchHeight,
      SkipRefund, PriceChanged, TooLateToLockBch, WaitForOther, UnlockSbch,
      UnlockSbchFails, RpcFails, SaveResult, CallFails
  <1>. QED BY <1>1 DEF Next

\* What a bot takes back or locks.
LEMMA RefundBchFacts ==
  ASSUME IInv, NEW b \in Bots, NEW s \in Swaps, RefundBch(b, s)
  PROVE  LET i == lockTx[b][s] IN
         /\ i \in DOMAIN locks /\ locks[i].swap = s
         /\ bchHeight >= locks[i].height + BchTimeLock
         /\ \/ locks[i].spent = "no" /\ Spend(i, "bot")
            \/ locks[i].spent # "no" /\ UNCHANGED locks
  <1>. DEFINE i == lockTx[b][s]
  <1>1. i # 0
    BY DEF RefundBch, Handling, IInv, TodoBacked
  <1>2. i \in DOMAIN locks /\ locks[i].swap = s
    BY <1>1 DEF IInv, LockTxBacked, IsLockOf
  <1>3. locks[i].height \in Nat /\ bchHeight \in Nat /\ BchTimeLock \in Nat
    BY <1>2, LockParts, TimeTypes DEF IInv, TypeOK, ChainsOK
  <1>4. bchHeight >= locks[i].height + BchTimeLock
    BY <1>3 DEF RefundBch, RefundDue, TxConfirmations, ExtraBlocks
  <1>. QED BY <1>2, <1>4 DEF RefundBch

\* The users' steps and the miners' keep the times.
LEMMA UserStepTimed ==
  ASSUME IInv, Times, UserStep \/ Mine
  PROVE  Times'
  <1>. USE DEF Times, IInv
  <1>1. CASE \E s \in Swaps, p \in Prices : UserLockSbch(s, p)
    <2>1. PICK s \in Swaps, p \in Prices : UserLockSbch(s, p)
      BY <1>1
    <2>2. /\ UNCHANGED <<clocks, locks>>
          /\ \A t \in Swaps : t # s => /\ swapTime'[t] = swapTime[t]
                                       /\ swap'[t] = swap[t]
          /\ swapTime'[s] = sbchNow /\ swap'[s] = "Locked"
      BY <2>1 DEF UserLockSbch, TypeOK, ChainsOK
    <2>3. \A i \in DOMAIN locks : locks[i].swap \in Swaps \ {s}
      BY <2>1, LockParts DEF UserLockSbch, LocksBacked, TypeOK
    <2>4. ClocksClose' /\ SwapsTimed'
      BY <2>2 DEF clocks, ClocksClose, SwapsTimed, TypeOK, ChainsOK
    <2>5. LocksTimed'
      BY <2>2, <2>3 DEF clocks, LocksTimed, LockTimed, BchTimeLock
    <2>. QED BY <2>4, <2>5
  <1>2. CASE \E s \in Swaps : UserRefundSbch(s)
    <2>1. PICK s \in Swaps : UserRefundSbch(s)
      BY <1>2
    <2>2. /\ UNCHANGED <<clocks, swapTime, locks>>
          /\ \A t \in Swaps : t # s => swap'[t] = swap[t]
          /\ sbchNow >= swapTime[s] + TimeLock
      BY <2>1 DEF UserRefundSbch, TypeOK, ChainsOK
    <2>. QED
      BY <2>2
      DEF clocks, ClocksClose, SwapsTimed, LocksTimed, LockTimed, BchTimeLock
  <1>3. CASE \E i \in DOMAIN locks : UserUnlockBch(i)
    <2>1. PICK i \in DOMAIN locks : UserUnlockBch(i)
      BY <1>3
    <2>2. Spend(i, "user") /\ UNCHANGED <<clocks, swap, swapTime>>
      BY <2>1 DEF UserUnlockBch
    <2>3. ClocksClose' /\ SwapsTimed'
      BY <2>2 DEF clocks, ClocksClose, SwapsTimed
    <2>4. LocksTimed'
      BY <2>2, SpendTimed
    <2>. QED BY <2>3, <2>4
  <1>4. CASE Mine
    <2>1. PICK tx \in sbchPool : MineSbchTx(tx)
      BY <1>4 DEF Mine
    <2>2. /\ UNCHANGED <<clocks, swapTime, locks>>
          /\ \A t \in Swaps : swap'[t] = swap[t] \/ swap'[t] = "Unlocked"
      BY <2>1 DEF MineSbchTx, TypeOK, ChainsOK
    <2>. QED
      BY <2>2
      DEF clocks, ClocksClose, SwapsTimed, LocksTimed, LockTimed, BchTimeLock
  <1>. QED BY <1>1, <1>2, <1>3, <1>4 DEF UserStep

\* The bots' steps keep the times.
LEMMA SendTimed ==
  ASSUME IInv, Times, NEW b \in Bots, NEW s \in Swaps,
         RefundBch(b, s) \/ LockBch(b, s)
  PROVE  Times'
  <1>. USE DEF Times, IInv
  <1>1. UNCHANGED <<clocks, swap, swapTime>>
    BY DEF RefundBch, LockBch
  <1>2. ClocksClose' /\ SwapsTimed'
    BY <1>1 DEF clocks, ClocksClose, SwapsTimed
  <1>3. CASE RefundBch(b, s)
    <2>. DEFINE i == lockTx[b][s]
    <2>1. /\ i \in DOMAIN locks
          /\ bchHeight >= locks[i].height + BchTimeLock
          /\ Spend(i, "bot") \/ UNCHANGED locks
      BY <1>3, RefundBchFacts
    <2>. HIDE DEF i
    <2>2. CASE UNCHANGED locks
      BY <1>1, <1>2, <2>2 DEF clocks, LocksTimed, LockTimed, BchTimeLock
    <2>3. CASE Spend(i, "bot")
      BY <1>1, <1>2, <2>1, <2>3, SpendTimed
    <2>. QED BY <2>1, <2>2, <2>3
  <1>4. CASE LockBch(b, s)
    <2>0. PICK n \in Nat : n = Len(locks)
      BY DEF TypeOK, ChainsOK
    <2>1. /\ DOMAIN locks = 1..n /\ DOMAIN locks' = 1..(n + 1)
          /\ \A j \in 1..n : locks'[j] = locks[j]
          /\ locks'[n + 1] = [swap |-> s, height |-> bchHeight + 1,
                              spent |-> "no", spentAt |-> 0]
      BY <1>4, <2>0 DEF LockBch, TypeOK, ChainsOK
    <2>2. sbchNow - swapTime[s] <= TimeLock \div 3
      BY <1>4, TimesAssumption DEF LockBch, TooLate, TypeOK, ChainsOK
    <2>3. LockTimed(n + 1)'
      <3>. DEFINE new == locks'[n + 1]
      <3>1. /\ swapTime[s] \in Nat /\ sbchNow \in Nat /\ bchHeight \in Nat
            /\ swapTime[s] <= sbchNow
        BY DEF TypeOK, ChainsOK, SwapsTimed
      <3>2. /\ new.swap = s /\ new.height = bchHeight + 1
            /\ new.spent = "no" /\ new.spentAt = 0
        BY <2>1
      <3>3. /\ swapTime[s] <= 2 * bchHeight + Drift
            /\ 2 * bchHeight <= swapTime[s] + TimeLock \div 3 + Drift
        BY <2>2, <3>1, TimeTypes DEF ClocksClose
      <3>4. new.height - 1 = bchHeight
        BY <3>1, <3>2
      <3>. HIDE DEF new
      <3>5. UNCHANGED <<bchHeight, swapTime>>
        BY <1>1 DEF clocks
      <3>. QED
        BY <3>1, <3>2, <3>3, <3>4, <3>5 DEF LockTimed, new
    <2>4. ASSUME NEW j \in 1..n PROVE LockTimed(j)'
      BY <1>1, <2>1, <2>4 DEF clocks, LocksTimed, LockTimed, BchTimeLock
    <2>5. ASSUME NEW j \in 1..(n + 1) PROVE LockTimed(j)'
      <3>1. j \in 1..n \/ j = n + 1
        BY <2>1
      <3>. QED BY <2>3, <2>4, <3>1
    <2>6. LocksTimed'
      BY <2>1, <2>5 DEF LocksTimed
    <2>. QED BY <1>2, <2>6
  <1>. QED BY <1>3, <1>4

\* The times are invariant, whatever fails and however late the bots are.
LEMMA TimesStep == IInv /\ Times /\ [Next]_vars => Times'
  <1>. SUFFICES ASSUME IInv, Times, [Next]_vars PROVE Times'
    OBVIOUS
  <1>1. CASE Untimed
    BY <1>1
    DEF Untimed, clocks, Times, ClocksClose, SwapsTimed, LocksTimed, LockTimed,
      BchTimeLock
  <1>2. CASE TickBch \/ TickSbch
    <2>1. UNCHANGED <<swap, swapTime, locks>>
      BY <1>2 DEF TickBch, TickSbch, Tick, chains
    <2>2. /\ bchHeight' \in Nat /\ sbchNow' \in Nat
          /\ bchHeight' >= bchHeight /\ sbchNow' >= sbchNow
          /\ ClocksClose'
      BY <1>2, TimesAssumption
      DEF TickBch, TickSbch, IInv, TypeOK, ChainsOK, Times, ClocksClose
    <2>3. SwapsTimed'
      BY <2>1, <2>2, TimesAssumption
      DEF Times, SwapsTimed, IInv, TypeOK, ChainsOK
    <2>4. ASSUME NEW i \in DOMAIN locks PROVE LockTimed(i)'
      <3>1. /\ locks[i].height \in Nat /\ locks[i].spentAt \in Nat
            /\ bchHeight \in Nat
        BY LockParts DEF IInv, TypeOK, ChainsOK
      <3>2. LockTimed(i)
        BY DEF Times, LocksTimed
      <3>3. BchTimeLock' = BchTimeLock
        BY DEF BchTimeLock
      <3>. QED
        BY <2>1, <2>2, <3>1, <3>2, <3>3, TimeTypes DEF LockTimed
    <2>. QED BY <2>1, <2>2, <2>3, <2>4 DEF Times, LocksTimed
  <1>. QED
    BY <1>1, <1>2, TimedSteps, UserStepTimed, SendTimed

\* The chains' clocks, the users' deposits and the bots' lock transactions
\* are where the time locks put them.
THEOREM TimesInvariant == Spec => []TimedInv
  <1>1. Init => TimedInv
    BY InitIInv, TimesAtFirst DEF TimedInv
  <1>2. TimedInv /\ [Next]_vars => TimedInv'
    BY IInvStep, TimesStep DEF TimedInv
  <1>. QED BY <1>1, <1>2, PTL DEF Spec

-----------------------------------------------------------------------------
(* Sbch2Bch implements AtomicSwap if the clocks are not too far apart.     *)

\* What a bot has taken back at the BCH time lock, however early it locked
\* it, it has taken back when it is too late to lock it again.  Without this
\* a bot that lost its record could lock a second time, after a refund.
SmallDrift == TimeLock \div 3 + 2 * Drift < 2 * BchTimeLock + 2

\* No lock transaction follows a refund for the same swap.
LEMMA NoLockAfterRefund ==
  ASSUME SmallDrift, TimedInv, NEW s \in Swaps, ~TooLate(s),
         NEW i \in DOMAIN locks, locks[i].swap = s
  PROVE  locks[i].spent # "bot"
  <1>1. /\ bchHeight \in Nat /\ sbchNow \in Nat /\ swapTime[s] \in Nat
        /\ locks[i].height \in Nat
    BY LockParts DEF TimedInv, IInv, TypeOK, ChainsOK
  <1>2. /\ 2 * bchHeight <= sbchNow + Drift
        /\ sbchNow - swapTime[s] <= TimeLock \div 3
    BY <1>1, TimeTypes DEF TimedInv, Times, ClocksClose, TooLate
  <1>3. /\ swapTime[s] <= 2 * (locks[i].height - 1) + Drift
        /\ locks[i].spent = "bot" => bchHeight >= locks[i].height + BchTimeLock
    BY DEF TimedInv, Times, LocksTimed, LockTimed
  <1>. QED BY <1>1, <1>2, <1>3, TimeTypes DEF SmallDrift

\* all the bots have locked for a swap
LocksFor(s) == {i \in DOMAIN locks : locks[i].swap = s}
SpentFor(s) == {locks[i].spent : i \in LocksFor(s)}

\* The bots' leg of one swap.
LEMMA BotLegOf ==
  ASSUME NEW s \in Swaps
  PROVE  BotLeg[s] = IF SpentFor(s) = {} THEN "none"
                     ELSE IF "user" \in SpentFor(s) THEN "claimed"
                     ELSE IF "no" \in SpentFor(s) THEN "locked"
                     ELSE "refunded"
  BY DEF BotLeg, SpentFor, LocksFor

\* What each state of the bots' leg means.
LEMMA BotLegMeans ==
  ASSUME ChainsOK, NEW s \in Swaps
  PROVE  /\ BotLeg[s] = "none" <=> LocksFor(s) = {}
         /\ BotLeg[s] = "claimed" <=> Taken(s)
         /\ BotLeg[s] = "locked" <=>
              ~Taken(s) /\ \E i \in LocksFor(s) : locks[i].spent = "no"
         /\ BotLeg[s] = "refunded" <=>
              /\ LocksFor(s) # {}
              /\ \A i \in LocksFor(s) : locks[i].spent = "bot"
  <1>1. SpentFor(s) = {} <=> LocksFor(s) = {}
    BY DEF SpentFor
  <1>2. "user" \in SpentFor(s) <=> Taken(s)
    BY DEF SpentFor, LocksFor, Taken
  <1>3. \A x : x \in SpentFor(s) <=> \E i \in LocksFor(s) : locks[i].spent = x
    BY DEF SpentFor
  <1>4. \A i \in LocksFor(s) : locks[i].spent \in {"no", "user", "bot"}
    BY LockParts DEF LocksFor
  <1>5. SpentFor(s) \subseteq {"no", "user", "bot"}
    BY <1>3, <1>4
  <1>6. BotLeg[s] = "refunded" <=> SpentFor(s) = {"bot"}
    BY <1>5, BotLegOf
  <1>7. SpentFor(s) = {"bot"} <=>
          /\ LocksFor(s) # {}
          /\ \A i \in LocksFor(s) : locks[i].spent = "bot"
    BY <1>3
  <1>8. BotLeg[s] = "locked" <=>
          "no" \in SpentFor(s) /\ ~("user" \in SpentFor(s))
    BY BotLegOf
  <1>9. /\ BotLeg[s] = "none" <=> SpentFor(s) = {}
        /\ BotLeg[s] = "claimed" <=> "user" \in SpentFor(s)
    BY BotLegOf
  <1>. QED BY <1>1, <1>2, <1>3, <1>6, <1>7, <1>8, <1>9

\* The bots' leg of one swap after a step.
LEMMA BotLegAfter ==
  ASSUME NEW s \in Swaps
  PROVE  BotLeg'[s] = IF SpentFor(s)' = {} THEN "none"
                      ELSE IF "user" \in SpentFor(s)' THEN "claimed"
                      ELSE IF "no" \in SpentFor(s)' THEN "locked"
                      ELSE "refunded"
  BY DEF BotLeg, SpentFor, LocksFor

\* The lock transactions of the other swaps do not matter to a swap's leg.
LEMMA BotLegSame ==
  ASSUME NEW s \in Swaps, LocksFor(s)' = LocksFor(s),
         \A i \in LocksFor(s) : locks'[i] = locks[i]
  PROVE  BotLeg'[s] = BotLeg[s]
  <1>1. SpentFor(s)' = SpentFor(s)
    BY DEF SpentFor
  <1>. QED BY <1>1, BotLegOf, BotLegAfter

\* A step that moves one swap's leg.
LEMMA BotLegMoves ==
  ASSUME NEW s \in Swaps, \A t \in Swaps \ {s} : BotLeg'[t] = BotLeg[t]
  PROVE  BotLeg' = [BotLeg EXCEPT ![s] = BotLeg'[s]]
  <1>1. /\ BotLeg = [t \in Swaps |-> BotLeg[t]]
        /\ BotLeg' = [t \in Swaps |-> BotLeg'[t]]
    BY DEF BotLeg
  <1>. QED BY <1>1

\* A step that changes neither coin is a stutter of the abstract swap.
LEMMA LegsStutter ==
  ASSUME UNCHANGED <<swap, locks>>
  PROVE  UNCHANGED Swap!legs
  BY DEF Swap!legs, UserLeg, BotLeg

\* How a change of one swap of the contract is seen.
LEMMA UserLegMoves ==
  ASSUME ChainsOK, NEW s \in Swaps,
         NEW x \in {"Locked", "Unlocked", "Refunded"},
         swap' = [swap EXCEPT ![s] = x]
  PROVE  UserLeg' = [UserLeg EXCEPT ![s] = IF x = "Locked" THEN "locked"
                                           ELSE IF x = "Unlocked" THEN "claimed"
                                           ELSE "refunded"]
  BY DEF UserLeg, ChainsOK

\* A spent output is UserClaims, BotRefunds or, when another output of the
\* swap is still there or the user has taken one, a stutter.
LEMMA SpendImplements ==
  ASSUME TimedInv, NEW i \in DOMAIN locks, NEW who \in {"user", "bot"},
         locks[i].spent = "no", Spend(i, who), UNCHANGED swap
  PROVE  [Swap!Next]_Swap!legs
  <1>1. PICK s \in Swaps : s = locks[i].swap
    BY LockParts DEF TimedInv, IInv, TypeOK
  <1>2. ChainsOK
    BY DEF TimedInv, IInv, TypeOK
  <1>3. /\ DOMAIN locks' = DOMAIN locks
        /\ locks'[i].swap = s /\ locks'[i].spent = who
        /\ \A j \in DOMAIN locks : j # i => locks'[j] = locks[j]
    BY <1>1, <1>2, SpendFacts
  <1>4. /\ \A t \in Swaps : LocksFor(t)' = LocksFor(t)
        /\ i \in LocksFor(s)
    BY <1>1, <1>3 DEF LocksFor
  <1>5. ASSUME NEW t \in Swaps, t # s PROVE BotLeg'[t] = BotLeg[t]
    <2>1. \A j \in LocksFor(t) : locks'[j] = locks[j]
      BY <1>1, <1>3, <1>5 DEF LocksFor
    <2>. QED BY <1>4, <2>1, BotLegSame
  <1>6. UNCHANGED UserLeg
    BY DEF UserLeg
  <1>7. BotLeg[s] \in {"locked", "claimed"}
    BY <1>2, <1>4, BotLegMeans
  <1>8. BotLeg' = [BotLeg EXCEPT ![s] = BotLeg'[s]]
    BY <1>5, BotLegMoves
  <1>9. \A j \in LocksFor(s) : locks'[j].spent \in SpentFor(s)'
    BY <1>4 DEF SpentFor
  <1>10. CASE Taken(s)
    <2>1. PICK j \in LocksFor(s) : locks[j].spent = "user"
      BY <1>10 DEF Taken, LocksFor
    <2>2. "user" \in SpentFor(s)'
      BY <1>3, <1>9, <2>1 DEF LocksFor
    <2>3. BotLeg[s] = "claimed" /\ BotLeg'[s] = "claimed"
      BY <1>2, <1>10, <2>2, BotLegMeans, BotLegAfter
    <2>4. BotLeg' = BotLeg
      BY <1>8, <2>3 DEF BotLeg
    <2>. QED BY <1>6, <2>4 DEF Swap!legs
  <1>11. CASE ~Taken(s)
    <2>1. BotLeg[s] = "locked"
      BY <1>2, <1>7, <1>11, BotLegMeans
    <2>2. CASE who = "user"
      <3>1. "user" \in SpentFor(s)'
        BY <1>3, <1>4, <1>9, <2>2
      <3>2. BotLeg'[s] = "claimed"
        BY <3>1, BotLegAfter
      <3>. QED
        BY <1>6, <1>8, <2>1, <3>2
        DEF Swap!Next, Swap!UserClaims, Swap!MoveBotLeg
    <2>3. CASE who = "bot"
      <3>1. ASSUME NEW x \in SpentFor(s)' PROVE x \in {"no", "bot"}
        <4>1. PICK j \in LocksFor(s) : x = locks'[j].spent
          BY <1>4 DEF SpentFor
        <4>2. CASE j = i
          BY <1>3, <2>3, <4>1, <4>2
        <4>3. CASE j # i
          BY <1>2, <1>3, <1>11, <4>1, <4>3, LockParts DEF LocksFor, Taken
        <4>. QED BY <4>2, <4>3
      <3>2. BotLeg'[s] \in {"locked", "refunded"}
        BY <1>4, <1>9, <3>1, BotLegAfter
      <3>3. CASE BotLeg'[s] = "refunded"
        BY <1>6, <1>8, <2>1, <3>3
        DEF Swap!Next, Swap!BotRefunds, Swap!MoveBotLeg
      <3>4. CASE BotLeg'[s] = "locked"
        <4>1. BotLeg' = BotLeg
          BY <1>8, <2>1, <3>4 DEF BotLeg
        <4>. QED BY <1>6, <4>1 DEF Swap!legs
      <3>. QED BY <3>2, <3>3, <3>4
    <2>. QED BY <2>2, <2>3
  <1>. QED BY <1>10, <1>11

\* A lock transaction is BotLocks, or a stutter when there is one already.
LEMMA LockImplements ==
  ASSUME SmallDrift, TimedInv, NEW b \in Bots, NEW s \in Swaps, LockBch(b, s)
  PROVE  [Swap!Next]_Swap!legs
  <1>1. PICK n \in Nat : n = Len(locks)
    BY DEF TimedInv, IInv, TypeOK, ChainsOK
  <1>2. /\ DOMAIN locks = 1..n /\ DOMAIN locks' = 1..(n + 1)
        /\ \A j \in 1..n : locks'[j] = locks[j]
        /\ locks'[n + 1].swap = s /\ locks'[n + 1].spent = "no"
    BY <1>1 DEF LockBch, TimedInv, IInv, TypeOK, ChainsOK
  <1>3. /\ \A t \in Swaps : t # s => LocksFor(t)' = LocksFor(t)
        /\ LocksFor(s)' = LocksFor(s) \cup {n + 1}
    BY <1>2 DEF LocksFor
  <1>4. ASSUME NEW t \in Swaps, t # s PROVE BotLeg'[t] = BotLeg[t]
    <2>1. \A j \in LocksFor(t) : locks'[j] = locks[j]
      BY <1>2 DEF LocksFor
    <2>. QED BY <1>3, <1>4, <2>1, BotLegSame
  <1>5. BotLeg' = [BotLeg EXCEPT ![s] = BotLeg'[s]]
    BY <1>4, BotLegMoves
  <1>6. UNCHANGED UserLeg /\ UserLeg[s] # "none"
    BY DEF LockBch, Handling, TimedInv, IInv, TodoBacked, UserLeg
  <1>7. SpentFor(s)' = SpentFor(s) \cup {"no"}
    BY <1>2, <1>3 DEF SpentFor, LocksFor
  <1>8. BotLeg[s] # "refunded"
    <2>1. ~TooLate(s) /\ ChainsOK
      BY DEF LockBch, TimedInv, IInv, TypeOK
    <2>2. \A i \in LocksFor(s) : locks[i].spent # "bot"
      BY <2>1, NoLockAfterRefund DEF LocksFor
    <2>. QED BY <2>1, <2>2, BotLegMeans
  <1>9. CASE BotLeg[s] = "none"
    <2>1. BotLeg'[s] = "locked"
      BY <1>7, <1>9, BotLegOf, BotLegAfter
    <2>. QED
      BY <1>5, <1>6, <1>9, <2>1
      DEF Swap!Next, Swap!BotLocks, Swap!MoveBotLeg
  <1>10. CASE BotLeg[s] # "none"
    <2>1. BotLeg'[s] = BotLeg[s]
      BY <1>7, <1>8, <1>10, BotLegOf, BotLegAfter
    <2>2. BotLeg' = BotLeg
      BY <1>5, <2>1 DEF BotLeg
    <2>. QED BY <1>6, <2>2 DEF Swap!legs
  <1>. QED BY <1>9, <1>10

\* A refund is BotRefunds or a stutter.
LEMMA RefundImplements ==
  ASSUME TimedInv, NEW b \in Bots, NEW s \in Swaps, RefundBch(b, s)
  PROVE  [Swap!Next]_Swap!legs
  <1>1. UNCHANGED swap
    BY DEF RefundBch
  <1>2. CASE UNCHANGED locks
    BY <1>1, <1>2, LegsStutter
  <1>3. CASE ~ UNCHANGED locks
    BY <1>1, <1>3, RefundBchFacts, SpendImplements DEF TimedInv
  <1>. QED BY <1>2, <1>3

\* A mined unlock is BotClaims: the secret was public before it was sent.
LEMMA MineImplements ==
  ASSUME TimedInv, NEW tx \in sbchPool, MineSbchTx(tx)
  PROVE  [Swap!Next]_Swap!legs
  <1>1. ChainsOK /\ tx.swap \in Swaps /\ Taken(tx.swap)
    BY DEF TimedInv, IInv, PoolBacked, TypeOK, ChainsOK, SbchTxs
  <1>2. UNCHANGED locks /\ UNCHANGED BotLeg
    BY DEF MineSbchTx, BotLeg
  <1>3. CASE UNCHANGED swap
    BY <1>2, <1>3, LegsStutter
  <1>4. CASE /\ swap[tx.swap] = "Locked"
             /\ swap' = [swap EXCEPT ![tx.swap] = "Unlocked"]
    <2>1. UserLeg' = [UserLeg EXCEPT ![tx.swap] = "claimed"]
      BY <1>1, <1>4, UserLegMoves
    <2>2. UserLeg[tx.swap] = "locked" /\ BotLeg[tx.swap] = "claimed"
      BY <1>1, <1>4, BotLegMeans DEF UserLeg
    <2>. QED
      BY <1>1, <1>2, <2>1, <2>2
      DEF Swap!Next, Swap!BotClaims, Swap!MoveUserLeg
  <1>. QED BY <1>3, <1>4 DEF MineSbchTx

\* A user's step is UserLocks, UserRefunds, UserClaims or, when the bot has
\* locked twice and the user takes both, a stutter.
LEMMA UserStepImplements ==
  ASSUME TimedInv, UserStep
  PROVE  [Swap!Next]_Swap!legs
  <1>. USE DEF TimedInv, IInv, TypeOK
  <1>1. CASE \E s \in Swaps, p \in Prices : UserLockSbch(s, p)
    <2>1. PICK s \in Swaps, p \in Prices : UserLockSbch(s, p)
      BY <1>1
    <2>2. UserLeg' = [UserLeg EXCEPT ![s] = "locked"]
      BY <2>1, UserLegMoves DEF UserLockSbch
    <2>3. UserLeg[s] = "none" /\ UNCHANGED BotLeg
      BY <2>1 DEF UserLockSbch, UserLeg, BotLeg
    <2>. QED BY <2>2, <2>3 DEF Swap!Next, Swap!UserLocks, Swap!MoveUserLeg
  <1>2. CASE \E s \in Swaps : UserRefundSbch(s)
    <2>1. PICK s \in Swaps : UserRefundSbch(s)
      BY <1>2
    <2>2. UserLeg' = [UserLeg EXCEPT ![s] = "refunded"]
      BY <2>1, UserLegMoves DEF UserRefundSbch
    <2>3. UserLeg[s] = "locked" /\ UNCHANGED BotLeg
      BY <2>1 DEF UserRefundSbch, UserLeg, BotLeg
    <2>. QED BY <2>2, <2>3 DEF Swap!Next, Swap!UserRefunds, Swap!MoveUserLeg
  <1>3. CASE \E i \in DOMAIN locks : UserUnlockBch(i)
    BY <1>3, SpendImplements DEF UserUnlockBch
  <1>. QED BY <1>1, <1>2, <1>3 DEF UserStep

\* Seen from the two chains, the bots, the users and their faults never do
\* more than an atomic swap, although a bot that has lost its record locks the
\* BCH twice: every step is one of AtomicSwap's or a stutter.
THEOREM ImplementsAtomicSwap ==
  ASSUME SmallDrift PROVE Spec => IsAtomicSwap
  <1>1. Init => Swap!Init
    BY DEF Init, UserLeg, BotLeg, Swap!Init
  <1>2. TimedInv /\ [Next]_vars => [Swap!Next]_Swap!legs
    <2>. SUFFICES ASSUME TimedInv, [Next]_vars PROVE [Swap!Next]_Swap!legs
      OBVIOUS
    <2>1. CASE Untimed \/ TickBch \/ TickSbch
      BY <2>1, LegsStutter DEF Untimed, TickBch, TickSbch, Tick, chains
    <2>. QED
      BY <2>1, TimedSteps, LockImplements, RefundImplements, MineImplements,
        UserStepImplements
      DEF Mine
  <1>. QED
    BY <1>1, <1>2, TimesInvariant, PTL DEF Spec, IsAtomicSwap, Swap!Spec

-----------------------------------------------------------------------------
(***************************************************************************)
(* A prompt master acts before the others and does not lose.  With one     *)
(* master, any slaves and time that waits for the bots, the slaves only    *)
(* watch for as long as nothing fails; and no user ends up with both coins *)
(* if nothing fails at all and the time lock has room for: the third of it *)
(* in which the bot may lock, the BCH time lock, the confirmations of the  *)
(* block with the secret, and twice the drift of the clocks.               *)
(*                                                                         *)
(* The invariant follows the master m through its loop: what the chains    *)
(* held when it last looked, it has acted on, and it has looked since the  *)
(* last tick when the next one comes.  A slave adds a block or two units   *)
(* to every time at which it acts, and by then the master has acted.       *)
(***************************************************************************)
Depth == IF Confirmations > 0 THEN Confirmations ELSE 1

Margin == TimeLock \div 3 + 2 * BchTimeLock + 2 * Depth + 2 * Drift < TimeLock

Calm == Prompt /\ ~LazyMaster

FaultFree == FaultKinds = {} \/ MaxFaults = 0

\* a block has its confirmations when a lock transaction in it may go back
Shallow == Depth <= BchTimeLock + 1

RefundAt(i) == locks[i].height + BchTimeLock

SlavesDoNotLock ==
  \A b \in Slaves : pc[b] = "handleSbchUserDeposits" => todo[b] = {}

\* the last block of BCH that m has handled
Scanned(m) == IF pc[m] = "scanBchBlocks" THEN pos[m] ELSE lastBch[m]

ScanOK(m) ==
  /\ strayTx[m] = 0
  /\ lastBch[m] = 0 \/ lastBch[m] <= SafeHeight
  /\ pc[m] = "scanBchBlocks" =>
       /\ mark[m] <= SafeHeight
       /\ lastBch[m] <= pos[m]
       /\ pos[m] = lastBch[m] \/ pos[m] <= mark[m]
       /\ gotNewBlocks[m] \/ (pos[m] = lastBch[m] /\ pos[m] >= mark[m])

\* lap counts the iterations that ended since the last tick: the one after
\* the first sees all there is, and the next one finds nothing left to do
CaughtUp(m) ==
  /\ pc[m] = "down" => lap[m] = 0 /\ DOMAIN locks = {}
  /\ lap[m] > 0 /\ pc[m] = "scanBchBlocks" => mark[m] = SafeHeight
  /\ lap[m] > 0 /\ pc[m] \notin {"updatePrices", "scanBchBlocks"} =>
       lastBch[m] >= SafeHeight
  /\ lap[m] > 1 =>
       /\ lastBch[m] >= SafeHeight
       /\ pc[m] \in {"scanBchBlocks", "refundLockedBCH"} => ~gotNewBlocks[m]
       /\ \A s \in Swaps :
            status[m][s] = "SecretRevealed" => swap[s] # "Locked"

CallsOK(m) ==
  /\ \A c, d \in calls : c.bot = m /\ d.bot = m => c = d
  /\ \A c \in calls : c.bot = m =>
       /\ c.swap \in todo[m]
       /\ c.kind = "lock" => status[m][c.swap] = "New" /\ c.res = "ok"
       /\ c.res = "reverted" => swap[c.swap] # "Locked"
  /\ \A tx \in sbchPool : tx.bot = m =>
       \E c \in calls : /\ c.bot = m /\ c.kind = "unlock"
                        /\ c.swap = tx.swap /\ c.res = "pending"

WorkOK(m) ==
  /\ pc[m] = "handleSbchUserDeposits" =>
       \A s \in todo[m] : status[m][s] = "New"
  /\ pc[m] = "refundLockedBCH" =>
       /\ \A s \in todo[m] : status[m][s] = "BchLocked"
       /\ gotNewBlocks[m] \/ todo[m] = {}
  /\ pc[m] = "unlockSbchUserDeposits" =>
       \A s \in Swaps :
         /\ status[m][s] = "SecretRevealed" =>
              s \in todo[m] \/ swap[s] # "Locked"
         /\ revealedAt[m][s] <= mark[m]
  /\ \A s \in Swaps : revealedAt[m][s] <= sbchNow

\* m knows each lock transaction, or is about to save it
Locking(m, s, i) ==
  \E c \in calls : c.bot = m /\ c.kind = "lock" /\ c.swap = s /\ c.tx = i

Recorded(m, i) ==
  LET s == locks[i].swap IN
  \/ /\ lockTx[m][s] = i
     /\ status[m][s] \in {"BchLocked", "SecretRevealed", "SbchUnlocked",
                          "BchRefunded"}
  \/ status[m][s] = "New" /\ Locking(m, s, i)

LocksRecorded(m) == \A i \in DOMAIN locks : Recorded(m, i)

SecretsSeen(m) ==
  \A i \in DOMAIN locks :
    locks[i].spent = "user" /\ locks[i].spentAt <= Scanned(m) =>
      status[m][locks[i].swap] \in {"SecretRevealed", "SbchUnlocked"}

RefundsSeen(m) ==
  \A i \in DOMAIN locks : locks[i].spent = "no" =>
    \/ lastBch[m] + Depth <= RefundAt(i)
    \/ pc[m] = "scanBchBlocks" /\ gotNewBlocks[m]
    \/ pc[m] = "refundLockedBCH" /\ locks[i].swap \in todo[m]

\* no lock transaction is left alone when it may be refunded, and no secret
\* in a block with enough confirmations
Deadline(i) ==
  /\ locks[i].height > 0
  /\ locks[i].spent = "no" => bchHeight <= RefundAt(i)
  /\ locks[i].spent = "user" =>
       /\ locks[i].spentAt <= RefundAt(i) + 1
       /\ swap[locks[i].swap] = "Locked" =>
            \/ bchHeight + 1 < locks[i].spentAt + Depth
            \/ /\ bchHeight + 1 = locks[i].spentAt + Depth
               /\ sbchNow <= 2 * (bchHeight - 1) + Drift

Deadlines == \A i \in DOMAIN locks : Deadline(i)

Loop(m) == ScanOK(m) /\ CaughtUp(m) /\ CallsOK(m) /\ WorkOK(m)
Seen(m) == LocksRecorded(m) /\ SecretsSeen(m) /\ RefundsSeen(m)

\* Slave b has read no block too early and no time in the future, its secrets
\* are those of blocks with enough confirmations, and it has found those that
\* can still be used since the last tick.
ReadsOK(b) ==
  /\ pc[b] = "scanBchBlocks" => mark[b] <= SafeHeight
  /\ pc[b] = "unlockSbchUserDeposits" =>
       mark[b] <= sbchNow /\ \A s \in todo[b] : status[b][s] = "SecretRevealed"

KnowsOK(b) ==
  \A s \in Swaps : status[b][s] = "SecretRevealed" =>
    /\ locks[lockTx[b][s]].spentAt + Depth <= bchHeight + 1
    /\ swap[s] = "Locked" => revealedAt[b][s] = sbchNow

SlavesWatch ==
  /\ \A tx \in sbchPool : tx.bot \notin Slaves
  /\ \A b \in Slaves : ReadsOK(b) /\ KnowsOK(b)

PromptInv(m) ==
  /\ TimedInv /\ SlavesDoNotLock /\ Loop(m) /\ Seen(m)
  /\ Deadlines /\ SlavesWatch

\* the one master, in the conditions of this section
Master(m) == m \in Bots /\ Slaves = Bots \ {m} /\ Calm

\* The types of what the master keeps.
LEMMA MasterTypes ==
  ASSUME TypeOK, NEW m \in Bots
  PROVE  /\ mark[m] \in Int /\ pos[m] \in Nat /\ lastBch[m] \in Nat
         /\ gotNewBlocks[m] \in BOOLEAN /\ lap[m] \in 0..3
         /\ pc[m] \in Stages /\ todo[m] \subseteq Swaps
         /\ status[m] \in [Swaps -> Statuses]
         /\ lockTx[m] \in [Swaps -> Nat] /\ revealedAt[m] \in [Swaps -> Nat]
         /\ bchHeight \in Nat /\ sbchNow \in Nat
  BY DEF TypeOK, ChainsOK, RecordsOK, LoopsOK

\* scanBchBlocks acts on blocks with Depth confirmations.
LEMMA DepthFacts ==
  ASSUME bchHeight \in Nat
  PROVE  Depth \in Nat /\ Depth >= 1 /\ SafeHeight = bchHeight - Depth + 1
  BY TimeTypes DEF Depth, SafeHeight

\* Nothing fails.
LEMMA NoFault ==
  ASSUME TypeOK, faults' = 0, NEW kind
  PROVE  ~Fault(kind)
  BY DEF Fault, TypeOK, LoopsOK

\* When time goes on, the master has acted on all it can see.
LEMMA TickReady ==
  ASSUME NEW m, Master(m), PromptInv(m), MayTick, NEW i \in DOMAIN locks
  PROVE  /\ locks[i].spent = "no" => bchHeight < RefundAt(i)
         /\ locks[i].spent = "user" /\ swap[locks[i].swap] = "Locked" =>
              bchHeight + 1 < locks[i].spentAt + Depth
  <1>1. /\ TypeOK /\ RecordsBacked /\ ScanOK(m) /\ CaughtUp(m) /\ WorkOK(m)
        /\ SecretsSeen(m) /\ RefundsSeen(m) /\ m \in Bots
    BY DEF PromptInv, TimedInv, IInv, Loop, Seen, Master
  <1>2. lap[m] = 3
    BY <1>1 DEF MayTick, Master, Calm, CaughtUp
  <1>3. /\ lastBch[m] \in Nat /\ pos[m] \in Nat /\ bchHeight \in Nat
        /\ Depth \in Nat /\ SafeHeight = bchHeight - Depth + 1
        /\ BchTimeLock \in Nat /\ locks[i].height \in Nat
        /\ locks[i].spentAt \in Nat /\ locks[i].swap \in Swaps
    BY <1>1, MasterTypes, DepthFacts, TimeTypes, LockParts DEF TypeOK
  <1>4. lastBch[m] >= bchHeight - Depth + 1
    BY <1>2, <1>1, <1>3 DEF CaughtUp
  <1>5. ASSUME locks[i].spent = "no" PROVE bchHeight < RefundAt(i)
    <2>1. /\ pc[m] \in {"scanBchBlocks", "refundLockedBCH"} => ~gotNewBlocks[m]
          /\ pc[m] = "refundLockedBCH" => gotNewBlocks[m] \/ todo[m] = {}
      BY <1>1, <1>2 DEF CaughtUp, WorkOK
    <2>2. lastBch[m] + Depth <= RefundAt(i)
      BY <1>1, <1>5, <2>1 DEF RefundsSeen
    <2>. QED BY <1>3, <1>4, <2>2 DEF RefundAt
  <1>6. ASSUME locks[i].spent = "user", swap[locks[i].swap] = "Locked"
        PROVE  bchHeight + 1 < locks[i].spentAt + Depth
    <2>1. /\ status[m][locks[i].swap] # "SecretRevealed"
          /\ status[m][locks[i].swap] # "SbchUnlocked"
      BY <1>1, <1>2, <1>3, <1>6 DEF CaughtUp, RecordsBacked, Backed
    <2>2. ~(locks[i].spentAt <= Scanned(m))
      BY <1>1, <1>6, <2>1 DEF SecretsSeen
    <2>3. Scanned(m) >= lastBch[m] /\ Scanned(m) \in Nat
      BY <1>1, <1>3 DEF Scanned, ScanOK
    <2>. QED BY <1>3, <1>4, <2>2, <2>3
  <1>. QED BY <1>5, <1>6

\* A lock transaction that is old enough to be refunded is within the time
\* lock of the deposit, with room for the confirmations.
LEMMA WithinTimeLock ==
  ASSUME Margin, TimedInv, NEW i \in DOMAIN locks
  PROVE  2 * (RefundAt(i) + Depth - 1) + Drift
           < swapTime[locks[i].swap] + TimeLock
  <1>1. /\ locks[i].height \in Nat /\ swapTime[locks[i].swap] \in Nat
        /\ bchHeight \in Nat
    BY LockParts DEF TimedInv, IInv, TypeOK, ChainsOK
  <1>2. 2 * (locks[i].height - 1)
          <= swapTime[locks[i].swap] + TimeLock \div 3 + Drift
    BY DEF TimedInv, Times, LocksTimed, LockTimed
  <1>3. Depth \in Nat
    BY <1>1, DepthFacts
  <1>. QED BY <1>1, <1>2, <1>3, TimeTypes DEF Margin, RefundAt

\* A lock transaction that a step leaves alone meets its deadline.
LEMMA DeadlineKept ==
  ASSUME NEW i \in DOMAIN locks, Deadline(i), UNCHANGED clocks,
         locks'[i] = locks[i],
         swap'[locks[i].swap] = "Locked" => swap[locks[i].swap] = "Locked"
  PROVE  Deadline(i)'
  BY DEF Deadline, RefundAt, BchTimeLock, clocks

\* So does one that is spent before it.
LEMMA SpendMeetsDeadline ==
  ASSUME TypeOK, Deadlines, NEW i \in DOMAIN locks,
         NEW who \in {"user", "bot"}, locks[i].spent = "no", Spend(i, who),
         UNCHANGED <<clocks, swap>>
  PROVE  Deadlines'
  <1>1. /\ ChainsOK /\ bchHeight \in Nat /\ locks[i].height \in Nat
        /\ Depth \in Nat /\ Depth >= 1 /\ BchTimeLock \in Nat
    BY DepthFacts, TimeTypes, LockParts DEF TypeOK, ChainsOK
  <1>2. Deadline(i)'
    <2>1. bchHeight <= locks[i].height + BchTimeLock /\ locks[i].height > 0
      BY DEF Deadlines, Deadline, RefundAt
    <2>2. /\ locks'[i].spent = who /\ locks'[i].spentAt = bchHeight + 1
          /\ locks'[i].height = locks[i].height
      BY <1>1, SpendTimes
    <2>3. RefundAt(i)' = locks[i].height + BchTimeLock
      BY <2>2 DEF RefundAt, BchTimeLock
    <2>4. UNCHANGED bchHeight /\ Depth' = Depth
      BY DEF clocks, Depth
    <2>. QED BY <1>1, <2>1, <2>2, <2>3, <2>4 DEF Deadline
  <1>3. ASSUME NEW j \in DOMAIN locks, j # i PROVE Deadline(j)'
    <2>1. locks'[j] = locks[j]
      BY <1>1, <1>3, SpendFacts
    <2>. QED BY <1>3, <2>1, DeadlineKept DEF Deadlines
  <1>4. DOMAIN locks' = DOMAIN locks
    BY <1>1, SpendFacts
  <1>. QED BY <1>2, <1>3, <1>4 DEF Deadlines

\* The deadlines are met in every step.
LEMMA DeadlinesMet ==
  ASSUME NEW m, Master(m), PromptInv(m), [Next]_vars
  PROVE  Deadlines'
  <1>1. /\ TypeOK /\ ChainsOK /\ LocksBacked /\ Deadlines
        /\ IInv /\ TimedInv /\ ClocksClose
        /\ bchHeight \in Nat /\ sbchNow \in Nat /\ Depth \in Nat /\ Depth >= 1
    BY DepthFacts DEF PromptInv, TimedInv, Times, IInv, TypeOK, ChainsOK
  <1>2. CASE Untimed
    BY <1>1, <1>2
    DEF Untimed, clocks, Deadlines, Deadline, RefundAt, BchTimeLock
  <1>3. CASE TickBch \/ TickSbch
    <2>1. /\ UNCHANGED <<swap, locks>> /\ MayTick
          /\ \/ bchHeight' = bchHeight + 1 /\ UNCHANGED sbchNow
             \/ UNCHANGED bchHeight
      BY <1>3 DEF TickBch, TickSbch, Tick, chains
    <2>2. ASSUME NEW i \in DOMAIN locks PROVE Deadline(i)'
      <3>1. /\ locks[i].spent = "no" => bchHeight < RefundAt(i)
            /\ locks[i].spent = "user" /\ swap[locks[i].swap] = "Locked" =>
                 bchHeight + 1 < locks[i].spentAt + Depth
        BY <2>1, TickReady
      <3>2. Deadline(i) /\ sbchNow <= 2 * bchHeight + Drift
        BY <1>1 DEF Deadlines, ClocksClose
      <3>3. RefundAt(i)' = RefundAt(i) /\ Depth' = Depth
        BY <2>1 DEF RefundAt, BchTimeLock, Depth
      <3>4. RefundAt(i) \in Nat /\ locks[i].spentAt \in Nat
        BY <1>1, LockParts, TimeTypes DEF RefundAt
      <3>. QED
        BY <1>1, <2>1, <3>1, <3>2, <3>3, <3>4, TimeTypes DEF Deadline
    <2>. QED BY <2>1, <2>2 DEF Deadlines
  <1>4. ASSUME NEW b \in Bots, NEW s \in Swaps, RefundBch(b, s)
        PROVE  Deadlines'
    <2>1. UNCHANGED <<clocks, swap>>
      BY <1>4 DEF RefundBch
    <2>2. PICK i \in DOMAIN locks : \/ locks[i].spent = "no" /\ Spend(i, "bot")
                                   \/ UNCHANGED locks
      BY <1>1, <1>4, RefundBchFacts
    <2>3. CASE UNCHANGED locks
      BY <1>1, <2>1, <2>3
      DEF clocks, Deadlines, Deadline, RefundAt, BchTimeLock
    <2>4. CASE locks[i].spent = "no" /\ Spend(i, "bot")
      BY <1>1, <2>1, <2>4, SpendMeetsDeadline
    <2>. QED BY <2>2, <2>3, <2>4
  <1>5. ASSUME NEW b \in Bots, NEW s \in Swaps, LockBch(b, s)
        PROVE  Deadlines'
    <2>1. UNCHANGED <<clocks, swap>>
      BY <1>5 DEF LockBch
    <2>2. PICK n \in Nat : n = Len(locks)
      BY <1>1 DEF ChainsOK
    <2>3. /\ DOMAIN locks = 1..n /\ DOMAIN locks' = 1..(n + 1)
          /\ \A j \in 1..n : locks'[j] = locks[j]
          /\ locks'[n + 1].spent = "no"
          /\ locks'[n + 1].height = bchHeight + 1
      BY <1>1, <1>5, <2>2 DEF LockBch, ChainsOK
    <2>4. Deadline(n + 1)'
      <3>1. RefundAt(n + 1)' = bchHeight + 1 + BchTimeLock
        BY <2>3 DEF RefundAt, BchTimeLock
      <3>2. UNCHANGED bchHeight
        BY <2>1 DEF clocks
      <3>. QED BY <1>1, <2>3, <3>1, <3>2, TimeTypes DEF Deadline
    <2>5. ASSUME NEW j \in 1..n PROVE Deadline(j)'
      BY <1>1, <2>1, <2>3, DeadlineKept DEF Deadlines
    <2>6. ASSUME NEW j \in 1..(n + 1) PROVE Deadline(j)'
      <3>1. j \in 1..n \/ j = n + 1
        BY <2>2
      <3>. QED BY <2>4, <2>5, <3>1
    <2>. QED BY <2>3, <2>6 DEF Deadlines
  <1>6. ASSUME NEW s \in Swaps, NEW p \in Prices, UserLockSbch(s, p)
        PROVE  Deadlines'
    <2>1. /\ UNCHANGED <<clocks, locks>> /\ swap[s] = "Invalid"
          /\ \A t \in Swaps : t # s => swap'[t] = swap[t]
      BY <1>1, <1>6 DEF UserLockSbch, ChainsOK
    <2>2. \A i \in DOMAIN locks : locks[i].swap \in Swaps \ {s}
      BY <1>1, <2>1, LockParts DEF LocksBacked
    <2>. QED
      BY <1>1, <2>1, <2>2, DeadlineKept DEF Deadlines
  <1>7. ASSUME NEW s \in Swaps, UserRefundSbch(s)
        PROVE  Deadlines'
    <2>1. /\ UNCHANGED <<clocks, locks>> /\ swap'[s] = "Refunded"
          /\ \A t \in Swaps : t # s => swap'[t] = swap[t]
      BY <1>1, <1>7 DEF UserRefundSbch, ChainsOK
    <2>2. \A i \in DOMAIN locks : swap'[locks[i].swap] = "Locked" =>
                                    swap[locks[i].swap] = "Locked"
      BY <1>1, <2>1, LockParts
    <2>. QED
      BY <1>1, <2>1, <2>2, DeadlineKept DEF Deadlines
  <1>8. ASSUME NEW i \in DOMAIN locks, UserUnlockBch(i)
        PROVE  Deadlines'
    BY <1>1, <1>8, SpendMeetsDeadline DEF UserUnlockBch
  <1>9. ASSUME NEW tx \in sbchPool, MineSbchTx(tx)
        PROVE  Deadlines'
    <2>1. /\ UNCHANGED <<clocks, locks>>
          /\ \A t \in Swaps : swap'[t] = swap[t] \/ swap'[t] = "Unlocked"
      BY <1>1, <1>9 DEF MineSbchTx, ChainsOK
    <2>2. \A i \in DOMAIN locks : swap'[locks[i].swap] = "Locked" =>
                                    swap[locks[i].swap] = "Locked"
      BY <1>1, <2>1, LockParts
    <2>. QED
      BY <1>1, <2>1, <2>2, DeadlineKept DEF Deadlines
  <1>. QED
    BY <1>2, <1>3, <1>4, <1>5, <1>6, <1>7, <1>8, <1>9, TimedSteps
    DEF UserStep, Mine

\* A step takes BCH for a user or gives a user sBCH back, or it does neither.
LEMMA TakenStep ==
  ASSUME IInv, [Next]_vars, NEW s \in Swaps,
         ~UserRefundSbch(s),
         \A i \in DOMAIN locks : locks[i].swap = s => ~UserUnlockBch(i)
  PROVE  /\ swap'[s] = "Refunded" => swap[s] = "Refunded"
         /\ Taken(s)' => Taken(s)
  <1>1. ChainsOK
    BY DEF IInv, TypeOK
  <1>2. swap'[s] = "Refunded" => swap[s] = "Refunded"
    BY <1>1, TimedSteps
    DEF Untimed, RefundBch, LockBch, UserStep, UserLockSbch, UserRefundSbch,
      UserUnlockBch, Mine, MineSbchTx, TickBch, TickSbch, Tick, chains, ChainsOK
  <1>3. CASE UNCHANGED locks
    BY <1>2, <1>3 DEF Taken
  <1>4. ASSUME NEW i \in DOMAIN locks, NEW who \in {"user", "bot"},
               Spend(i, who), who = "user" => locks[i].swap # s
        PROVE  Taken(s)' => Taken(s)
    <2>1. ASSUME NEW j \in DOMAIN locks', locks'[j].spent = "user",
                 locks'[j].swap = s
          PROVE  j \in DOMAIN locks /\ locks'[j] = locks[j]
      <3>1. j # i
        BY <1>1, <1>4, <2>1, SpendTimes
      <3>. QED BY <1>1, <1>4, <2>1, <3>1, SpendFacts
    <2>. QED BY <2>1 DEF Taken
  <1>5. ASSUME NEW b \in Bots, NEW t \in Swaps, RefundBch(b, t)
        PROVE  Taken(s)' => Taken(s)
    BY <1>3, <1>4, <1>5, RefundBchFacts
  <1>6. ASSUME NEW b \in Bots, NEW t \in Swaps, LockBch(b, t)
        PROVE  Taken(s)' => Taken(s)
    <2>1. PICK n \in Nat : n = Len(locks)
      BY <1>1 DEF ChainsOK
    <2>2. /\ DOMAIN locks = 1..n /\ DOMAIN locks' = 1..(n + 1)
          /\ \A j \in 1..n : locks'[j] = locks[j]
          /\ locks'[n + 1].spent = "no"
      BY <1>1, <1>6, <2>1 DEF LockBch, ChainsOK
    <2>3. ASSUME NEW j \in DOMAIN locks', locks'[j].spent = "user"
          PROVE  j \in DOMAIN locks /\ locks'[j] = locks[j]
      <3>1. j \in 1..n \/ j = n + 1
        BY <2>1, <2>2
      <3>. QED BY <2>2, <2>3, <3>1
    <2>. QED BY <2>3 DEF Taken
  <1>7. ASSUME NEW i \in DOMAIN locks, UserUnlockBch(i)
        PROVE  Taken(s)' => Taken(s)
    BY <1>4, <1>7 DEF UserUnlockBch
  <1>. QED
    BY <1>2, <1>3, <1>5, <1>6, <1>7, TimedSteps
    DEF Untimed, UserStep, UserLockSbch, UserRefundSbch, Mine, MineSbchTx,
      TickBch, TickSbch, Tick, chains

\* The bot keeps its coins in every step, if the Margin is left.
LEMMA CoinsKept ==
  ASSUME Margin, NEW m, Master(m), PromptInv(m), BotNotCheated, [Next]_vars
  PROVE  BotNotCheated'
  <1>1. /\ TypeOK /\ ChainsOK /\ Deadlines /\ BotNotCheated
        /\ IInv /\ TimedInv /\ SwapsTimed /\ sbchNow <= 2 * bchHeight + Drift
        /\ bchHeight \in Nat /\ sbchNow \in Nat /\ Depth \in Nat /\ Depth >= 1
    BY DepthFacts
    DEF PromptInv, TimedInv, Times, ClocksClose, IInv, TypeOK, ChainsOK
  <1>2. ASSUME NEW s \in Swaps, UserRefundSbch(s), Taken(s)'
        PROVE  FALSE
    <2>1. /\ UNCHANGED locks /\ swap[s] = "Locked"
          /\ sbchNow >= swapTime[s] + TimeLock
      BY <1>2 DEF UserRefundSbch
    <2>2. PICK i \in DOMAIN locks : locks[i].swap = s /\ locks[i].spent = "user"
      BY <1>2, <2>1 DEF Taken
    <2>3. /\ locks[i].spentAt <= RefundAt(i) + 1
          /\ \/ bchHeight + 1 < locks[i].spentAt + Depth
             \/ /\ bchHeight + 1 = locks[i].spentAt + Depth
                /\ sbchNow <= 2 * (bchHeight - 1) + Drift
      BY <1>1, <2>1, <2>2 DEF Deadlines, Deadline
    <2>4. /\ RefundAt(i) \in Nat /\ locks[i].spentAt \in Nat
          /\ swapTime[s] \in Nat
      BY <1>1, LockParts, TimeTypes DEF RefundAt, ChainsOK
    <2>5. 2 * (RefundAt(i) + Depth - 1) + Drift < swapTime[s] + TimeLock
      BY <1>1, <2>2, WithinTimeLock
    <2>. QED BY <1>1, <2>1, <2>3, <2>4, <2>5, TimeTypes
  <1>3. ASSUME NEW i \in DOMAIN locks, UserUnlockBch(i),
               swap'[locks[i].swap] = "Refunded"
        PROVE  FALSE
    <2>1. swap[locks[i].swap] = "Refunded" /\ locks[i].spent = "no"
      BY <1>3 DEF UserUnlockBch
    <2>2. bchHeight <= RefundAt(i)
      BY <1>1, <2>1 DEF Deadlines, Deadline
    <2>3. /\ RefundAt(i) \in Nat /\ locks[i].swap \in Swaps
          /\ swapTime[locks[i].swap] \in Nat
      BY <1>1, LockParts, TimeTypes DEF RefundAt, ChainsOK
    <2>4. 2 * (RefundAt(i) + Depth - 1) + Drift
            < swapTime[locks[i].swap] + TimeLock
      BY <1>1, WithinTimeLock
    <2>5. sbchNow < swapTime[locks[i].swap] + TimeLock
      BY <1>1, <2>2, <2>3, <2>4, TimeTypes
    <2>. QED BY <1>1, <2>1, <2>3, <2>5, TimeTypes DEF SwapsTimed
  <1>4. ASSUME NEW s \in Swaps, swap'[s] = "Refunded", Taken(s)'
        PROVE  FALSE
    BY <1>1, <1>2, <1>3, <1>4, TakenStep DEF BotNotCheated
  <1>. QED BY <1>4 DEF BotNotCheated

\* handleSbchUserDeposits returns at once in slave mode.
LEMMA SlavesDoNotLockStep ==
  ASSUME TypeOK, SlavesDoNotLock, [Next]_vars
  PROVE  SlavesDoNotLock'
  <1>1. ASSUME NEW b \in Slaves, pc'[b] = "handleSbchUserDeposits"
        PROVE  todo'[b] = {}
    <2>1. b \in Bots /\ (pc[b] = "handleSbchUserDeposits" => todo[b] = {})
      BY BotsAssumption DEF SlavesDoNotLock
    <2>2. ASSUME NEW stage \in Stages,
                 Enter(b, stage) \/ EnterInVain(b, stage)
          PROVE  todo'[b] = {}
      <3>1. stage = "handleSbchUserDeposits"
        BY <1>1, <2>1, <2>2 DEF Enter, EnterInVain, TypeOK, LoopsOK
      <3>. QED
        BY <2>1, <2>2, <3>1 DEF Enter, EnterInVain, Query, TypeOK, LoopsOK
    <2>3. ASSUME NEW stage \in Stages, NEW b2 \in Bots, b2 # b,
                 Enter(b2, stage) \/ EnterInVain(b2, stage)
          PROVE  pc'[b] = pc[b] /\ todo'[b] = todo[b]
      BY <2>1, <2>3 DEF Enter, EnterInVain, TypeOK, LoopsOK
    <2>4. ASSUME NEW b2 \in Bots, NEW s, Handled(b2, s)
          PROVE  pc'[b] = pc[b] /\ todo'[b] \subseteq todo[b]
      BY <2>1, <2>4 DEF Handled, TypeOK, LoopsOK
    <2>5. CASE UNCHANGED <<pc, todo>>
      BY <1>1, <2>1, <2>5
    <2>6. ASSUME NEW b2 \in Bots, UpdatePrices(b2) \/ EndStage(b2)
          PROVE  todo'[b] = {}
      <3>1. PICK stage \in Stages : Enter(b2, stage) \/ EnterInVain(b2, stage)
        BY <2>6 DEF UpdatePrices, EndStage, Stages
      <3>. QED BY <1>1, <2>1, <2>2, <2>3, <3>1
    <2>7. ASSUME NEW b2 \in Bots, Start(b2) \/ Crash(b2)
          PROVE  todo'[b] = {}
      BY <1>1, <2>1, <2>7 DEF Start, Crash, TypeOK, LoopsOK
    <2>8. ASSUME NEW b2 \in Bots, BotStep(b2), ~Start(b2), ~UpdatePrices(b2),
                 ~EndStage(b2), ~ UNCHANGED <<pc, todo>>
          PROVE  \E s : Handled(b2, s)
      BY <2>8
      DEF BotStep, HandleBchBlock, SaveBchHeight, BchBlockFails,
        HandleSbchLockEventS2B, SaveSbchHeight, SkipRefund, RefundBch,
        PriceChanged, TooLateToLockBch, LockBch, WaitForOther, UnlockSbch,
        UnlockSbchFails, RpcFails, SaveResult, CallFails, loop
    <2>9. ASSUME UserStep \/ Mine \/ TickBch \/ TickSbch \/ UNCHANGED vars
          PROVE  UNCHANGED <<pc, todo>>
      BY <2>9
      DEF UserStep, UserLockSbch, UserRefundSbch, UserUnlockBch, Mine,
        MineSbchTx, TickBch, TickSbch, Tick, vars, loop
    <2>. QED
      BY <1>1, <2>1, <2>4, <2>5, <2>6, <2>7, <2>8, <2>9 DEF Next
  <1>. QED BY <1>1 DEF SlavesDoNotLock

-----------------------------------------------------------------------------
(* The steps of the others: what the master carries through its loop stays *)
(* true when slaves, users, miners and the clocks act.                     *)

\* what the master keeps itself, but for its calls
Locals(m) == <<pc[m], todo[m], mark[m], pos[m], gotNewBlocks[m], status[m],
               lockTx[m], revealedAt[m], strayTx[m], lastBch[m]>>

OwnCallsKept(m) ==
  /\ \A c \in calls' : c.bot = m => c \in calls
  /\ \A c \in calls : c.bot = m => c \in calls'
  /\ \A tx \in sbchPool' : tx.bot = m => tx \in sbchPool

\* no swap is locked again, and only an output that is there can be spent
SwapsKept ==
  \A s \in Swaps : swap'[s] = "Locked" => swap[s] \in {"Locked", "Invalid"}

LocksKept ==
  /\ DOMAIN locks' = DOMAIN locks
  /\ \A i \in DOMAIN locks :
       /\ locks'[i].swap = locks[i].swap /\ locks'[i].height = locks[i].height
       /\ locks'[i].spent = "no" => locks[i].spent = "no"
       /\ locks'[i].spent = "user" =>
            \/ /\ locks[i].spent = "user"
               /\ locks'[i].spentAt = locks[i].spentAt
            \/ locks'[i].spentAt = bchHeight + 1

\* The blocks handled are blocks of the chain.
LEMMA ScannedExists ==
  ASSUME TypeOK, NEW m \in Bots, ScanOK(m)
  PROVE  Scanned(m) \in Nat /\ Scanned(m) <= bchHeight /\ lastBch[m] <= bchHeight
         /\ lastBch[m] <= Scanned(m)
  BY MasterTypes, DepthFacts DEF ScanOK, Scanned

\* A step that leaves the master where it is.
LEMMA LocalsKept ==
  ASSUME NEW m, Master(m), PromptInv(m), UNCHANGED <<Locals(m), clocks>>,
         lap'[m] = lap[m], SwapsKept, LocksKept
  PROVE  /\ ScanOK(m)' /\ CaughtUp(m)' /\ WorkOK(m)'
         /\ SecretsSeen(m)' /\ RefundsSeen(m)'
  <1>1. /\ TypeOK /\ RecordsBacked /\ ScanOK(m) /\ CaughtUp(m) /\ WorkOK(m)
        /\ SecretsSeen(m) /\ RefundsSeen(m) /\ m \in Bots
    BY DEF PromptInv, TimedInv, IInv, Loop, Seen, Master
  <1>2. /\ UNCHANGED <<pc[m], todo[m], mark[m], pos[m], gotNewBlocks[m],
                       status[m], lockTx[m], revealedAt[m], strayTx[m],
                       lastBch[m]>>
        /\ UNCHANGED <<bchHeight, sbchNow>> /\ SafeHeight' = SafeHeight
        /\ Scanned(m)' = Scanned(m)
    BY DEF Locals, clocks, SafeHeight, Scanned
  <1>3. ScanOK(m)'
    BY <1>1, <1>2 DEF ScanOK
  <1>4. \A s \in Swaps : status[m][s] = "SecretRevealed" =>
                            (swap'[s] = "Locked" => swap[s] = "Locked")
    BY <1>1 DEF SwapsKept, RecordsBacked, Backed
  <1>5. CaughtUp(m)'
    BY <1>1, <1>2, <1>4 DEF CaughtUp, LocksKept
  <1>6. WorkOK(m)'
    BY <1>1, <1>2, <1>4 DEF WorkOK
  <1>7. SecretsSeen(m)'
    <2>1. \A i \in DOMAIN locks : bchHeight + 1 <= Scanned(m) => FALSE
      BY <1>1, ScannedExists, MasterTypes
    <2>. QED BY <1>1, <1>2, <2>1 DEF SecretsSeen, LocksKept
  <1>8. RefundsSeen(m)'
    <2>1. Depth' = Depth /\ BchTimeLock' = BchTimeLock
      BY DEF Depth, BchTimeLock
    <2>. QED BY <1>1, <1>2, <2>1 DEF RefundsSeen, LocksKept, RefundAt
  <1>. QED BY <1>3, <1>5, <1>6, <1>7, <1>8

\* A step that leaves the master's calls where they are.
LEMMA CallsKept ==
  ASSUME NEW m, Master(m), PromptInv(m), UNCHANGED Locals(m), OwnCallsKept(m),
         SwapsKept, LocksKept
  PROVE  CallsOK(m)' /\ LocksRecorded(m)'
  <1>1. /\ TypeOK /\ CallsBacked /\ CallsOK(m) /\ LocksRecorded(m) /\ m \in Bots
    BY DEF PromptInv, TimedInv, IInv, Loop, Seen, Master
  <1>2. UNCHANGED <<todo[m], status[m], lockTx[m]>>
    BY DEF Locals
  <1>3. \A c \in calls : swap'[c.swap] = "Locked" => swap[c.swap] = "Locked"
    BY <1>1 DEF CallsBacked, CallBacked, SwapsKept, TypeOK, LoopsOK, Calls
  <1>4. CallsOK(m)'
    BY <1>1, <1>2, <1>3 DEF CallsOK, OwnCallsKept
  <1>5. ASSUME NEW i \in DOMAIN locks' PROVE Recorded(m, i)'
    <2>1. i \in DOMAIN locks /\ locks'[i].swap = locks[i].swap /\ Recorded(m, i)
      BY <1>1, <1>5 DEF LocksKept, LocksRecorded
    <2>2. \A s : Locking(m, s, i) => Locking(m, s, i)'
      BY DEF Locking, OwnCallsKept
    <2>. QED BY <1>2, <2>1, <2>2 DEF Recorded
  <1>. QED BY <1>4, <1>5 DEF LocksRecorded

\* What spending an output leaves.
LEMMA SpendLeaves ==
  ASSUME ChainsOK, NEW i \in DOMAIN locks, NEW who \in {"user", "bot"},
         locks[i].spent = "no", Spend(i, who)
  PROVE  LocksKept
  <1>1. /\ locks'[i].swap = locks[i].swap /\ locks'[i].height = locks[i].height
        /\ locks'[i].spent = who /\ locks'[i].spentAt = bchHeight + 1
        /\ DOMAIN locks' = DOMAIN locks
    BY SpendFacts, SpendTimes
  <1>2. ASSUME NEW j \in DOMAIN locks
        PROVE  /\ locks'[j].swap = locks[j].swap
               /\ locks'[j].height = locks[j].height
               /\ locks'[j].spent = "no" => locks[j].spent = "no"
               /\ locks'[j].spent = "user" =>
                    \/ /\ locks[j].spent = "user"
                       /\ locks'[j].spentAt = locks[j].spentAt
                    \/ locks'[j].spentAt = bchHeight + 1
    <2>1. CASE j = i
      BY <1>1, <2>1
    <2>2. CASE j # i
      <3>1. locks'[j] = locks[j]
        BY <2>2, SpendFacts
      <3>. QED BY <3>1
    <2>. QED BY <2>1, <2>2
  <1>. QED BY <1>1, <1>2 DEF LocksKept

\* A bot's step moves no clock and leaves the contract alone.
LEMMA BotsKeepTime ==
  ASSUME NEW b \in Bots, BotStep(b) \/ Crash(b)
  PROVE  UNCHANGED <<clocks, swap, swapTime>>
  BY DEF BotStep, Crash, Start, UpdatePrices, EndStage, HandleBchBlock,
    SaveBchHeight, BchBlockFails, HandleSbchLockEventS2B, SaveSbchHeight,
    SkipRefund, RefundBch, PriceChanged, TooLateToLockBch, LockBch,
    WaitForOther, UnlockSbch, UnlockSbchFails, RpcFails, SaveResult,
    CallFails, chains

\* A bot's step leaves what the others keep.
LEMMA OthersKept ==
  ASSUME TypeOK, NEW b \in Bots, NEW d \in Bots, b # d, BotStep(b) \/ Crash(b)
  PROVE  UNCHANGED Locals(d)
  <1>1. UNCHANGED <<pc[d], todo[d], mark[d], pos[d], gotNewBlocks[d]>>
    BY DEF BotStep, Crash, Start, UpdatePrices, EndStage, HandleBchBlock,
      SaveBchHeight, BchBlockFails, HandleSbchLockEventS2B, SaveSbchHeight,
      SkipRefund, RefundBch, PriceChanged, TooLateToLockBch, LockBch,
      WaitForOther, UnlockSbch, UnlockSbchFails, RpcFails, SaveResult,
      CallFails, Enter, EnterInVain, Handled, TypeOK, LoopsOK, loop
  <1>2. UNCHANGED status[d]
    BY DEF BotStep, Crash, Start, UpdatePrices, EndStage, HandleBchBlock,
      SaveBchHeight, BchBlockFails, HandleSbchLockEventS2B, SaveSbchHeight,
      SkipRefund, RefundBch, PriceChanged, TooLateToLockBch, LockBch,
      WaitForOther, UnlockSbch, UnlockSbchFails, RpcFails, SaveResult,
      CallFails, SetStatus, CheckUnlocked, records, TypeOK, RecordsOK
  <1>3. UNCHANGED <<lockTx[d], revealedAt[d], strayTx[d], lastBch[d]>>
    BY DEF BotStep, Crash, Start, UpdatePrices, EndStage, HandleBchBlock,
      SaveBchHeight, BchBlockFails, HandleSbchLockEventS2B, SaveSbchHeight,
      SkipRefund, RefundBch, PriceChanged, TooLateToLockBch, LockBch,
      WaitForOther, UnlockSbch, UnlockSbchFails, RpcFails, SaveResult,
      CallFails, SetLockTx, records, heights, TypeOK, RecordsOK
  <1>. QED BY <1>1, <1>2, <1>3 DEF Locals

\* A slave's step.
LEMMA SlaveSteps ==
  ASSUME NEW m, Master(m), PromptInv(m), NEW b \in Bots, b # m,
         BotStep(b) \/ Crash(b)
  PROVE  Loop(m)' /\ Seen(m)'
  <1>1. /\ TypeOK /\ IInv /\ m \in Bots /\ b \in Slaves /\ ChainsOK
        /\ pc[b] = "handleSbchUserDeposits" => todo[b] = {}
    BY DEF PromptInv, TimedInv, IInv, TypeOK, Master, SlavesDoNotLock
  <1>2. ASSUME NEW s \in Swaps PROVE ~LockBch(b, s)
    BY <1>1 DEF LockBch, Handling
  <1>3. UNCHANGED <<clocks, swap>> /\ SwapsKept
    BY BotsKeepTime DEF SwapsKept
  <1>4. LocksKept
    <2>1. CASE \E s \in Swaps : RefundBch(b, s)
      <3>1. PICK i \in DOMAIN locks : \/ locks[i].spent = "no" /\ Spend(i, "bot")
                                     \/ UNCHANGED locks
        BY <1>1, <2>1, RefundBchFacts
      <3>2. CASE locks[i].spent = "no" /\ Spend(i, "bot")
        BY <1>1, <3>2, SpendLeaves
      <3>3. CASE UNCHANGED locks
        BY <3>3 DEF LocksKept
      <3>. QED BY <3>1, <3>2, <3>3
    <2>2. CASE ~ \E s \in Swaps : RefundBch(b, s)
      <3>1. UNCHANGED locks
        BY <1>2, <2>2
        DEF BotStep, Crash, Start, UpdatePrices, EndStage, HandleBchBlock,
          SaveBchHeight, BchBlockFails, HandleSbchLockEventS2B, SaveSbchHeight,
          SkipRefund, PriceChanged, TooLateToLockBch,
          WaitForOther, UnlockSbch, UnlockSbchFails, RpcFails, SaveResult,
          CallFails, chains
      <3>. QED BY <3>1 DEF LocksKept
    <2>. QED BY <2>1, <2>2
  <1>5. UNCHANGED Locals(m)
    BY <1>1, OthersKept
  <1>6. lap'[m] = lap[m]
    BY <1>1 DEF BotStep, Crash, Start, UpdatePrices, EndStage, HandleBchBlock,
      SaveBchHeight, BchBlockFails, HandleSbchLockEventS2B, SaveSbchHeight,
      SkipRefund, RefundBch, PriceChanged, TooLateToLockBch, LockBch,
      WaitForOther, UnlockSbch, UnlockSbchFails, RpcFails, SaveResult,
      CallFails, TypeOK, LoopsOK
  <1>7. OwnCallsKept(m)
    <2>1. CASE \E s \in Swaps : RefundBch(b, s) \/ UnlockSbch(b, s)
      BY <2>1 DEF RefundBch, UnlockSbch, OwnCallsKept
    <2>2. CASE \E c \in calls : SaveResult(b, c) \/ CallFails(b, c)
      BY <2>2 DEF SaveResult, CallFails, OwnCallsKept, chains
    <2>3. CASE Crash(b)
      BY <2>3 DEF Crash, OwnCallsKept, chains
    <2>4. CASE UNCHANGED <<calls, sbchPool>>
      BY <2>4 DEF OwnCallsKept
    <2>5. ASSUME \A s \in Swaps : ~RefundBch(b, s) /\ ~UnlockSbch(b, s),
                 \A c \in calls : ~SaveResult(b, c) /\ ~CallFails(b, c),
                 ~Crash(b)
          PROVE  UNCHANGED <<calls, sbchPool>>
      BY <1>2, <2>5
      DEF BotStep, Start, UpdatePrices, EndStage, HandleBchBlock,
        SaveBchHeight, BchBlockFails, HandleSbchLockEventS2B, SaveSbchHeight,
        SkipRefund, PriceChanged, TooLateToLockBch, WaitForOther,
        UnlockSbchFails, RpcFails, loop, chains
    <2>. QED BY <2>1, <2>2, <2>3, <2>4, <2>5
  <1>. QED
    BY <1>3, <1>4, <1>5, <1>6, <1>7, LocalsKept, CallsKept DEF Loop, Seen

\* A user's step.
LEMMA UserSteps ==
  ASSUME NEW m, Master(m), PromptInv(m), UserStep
  PROVE  Loop(m)' /\ Seen(m)'
  <1>1. ChainsOK
    BY DEF PromptInv, TimedInv, IInv, TypeOK
  <1>2. /\ UNCHANGED <<Locals(m), clocks>> /\ lap'[m] = lap[m]
        /\ UNCHANGED <<calls, sbchPool>>
    BY DEF UserStep, UserLockSbch, UserRefundSbch, UserUnlockBch, Locals,
      records, heights, loop
  <1>3. SwapsKept
    BY <1>1 DEF UserStep, UserLockSbch, UserRefundSbch, UserUnlockBch,
      SwapsKept, ChainsOK
  <1>4. LocksKept
    <2>1. CASE UNCHANGED locks
      BY <2>1 DEF LocksKept
    <2>2. CASE \E i \in DOMAIN locks : UserUnlockBch(i)
      BY <1>1, <2>2, SpendLeaves DEF UserUnlockBch
    <2>. QED BY <2>1, <2>2 DEF UserStep, UserLockSbch, UserRefundSbch
  <1>5. OwnCallsKept(m)
    BY <1>2 DEF OwnCallsKept
  <1>. QED
    BY <1>2, <1>3, <1>4, <1>5, LocalsKept, CallsKept DEF Loop, Seen

\* A transaction gets into a block: the call of the bot that sent it has its
\* outcome.
LEMMA MineSteps ==
  ASSUME NEW m, Master(m), PromptInv(m), NEW tx \in sbchPool, MineSbchTx(tx)
  PROVE  Loop(m)' /\ Seen(m)'
  <1>1. /\ TypeOK /\ ChainsOK /\ CallsBacked /\ CallsOK(m) /\ LocksRecorded(m)
        /\ m \in Bots /\ tx.swap \in Swaps
    BY DEF PromptInv, TimedInv, IInv, Loop, Seen, TypeOK, ChainsOK, SbchTxs,
      Master
  <1>2. /\ UNCHANGED <<Locals(m), clocks>> /\ lap'[m] = lap[m]
        /\ UNCHANGED locks /\ sbchPool' = sbchPool \ {tx}
    BY DEF MineSbchTx, Locals, records, heights
  <1>3. SwapsKept /\ LocksKept
    BY <1>1, <1>2 DEF MineSbchTx, SwapsKept, LocksKept, ChainsOK
  <1>4. PICK res \in {"ok", "reverted"} :
          /\ calls' = Receipts(tx, res)
          /\ res = "reverted" => swap'[tx.swap] # "Locked"
    BY DEF MineSbchTx
  <1>. DEFINE Hit(c) == c.bot = tx.bot /\ c.kind = "unlock" /\ c.swap = tx.swap
              After(c) == IF Hit(c)
                            THEN [c EXCEPT !.res = IF @ = "pending" THEN res
                                                   ELSE @]
                            ELSE c
  <1>5. calls' = {After(c) : c \in calls}
    BY <1>4 DEF Receipts
  <1>6. ASSUME NEW c \in calls
        PROVE  /\ After(c).bot = c.bot /\ After(c).kind = c.kind
               /\ After(c).swap = c.swap /\ After(c).tx = c.tx
               /\ After(c).res = IF Hit(c) /\ c.res = "pending" THEN res
                                 ELSE c.res
    BY <1>1 DEF TypeOK, LoopsOK, Calls
  <1>. HIDE DEF After
  <1>7. CallsOK(m)'
    <2>1. UNCHANGED <<todo[m], status[m]>>
      BY <1>2 DEF Locals
    <2>2. ASSUME NEW c \in calls', NEW d \in calls', c.bot = m, d.bot = m
          PROVE  c = d
      <3>1. PICK c0 \in calls, d0 \in calls : c = After(c0) /\ d = After(d0)
        BY <1>5
      <3>2. c0.bot = m /\ d0.bot = m
        BY <1>6, <2>2, <3>1
      <3>. QED BY <1>1, <3>1, <3>2 DEF CallsOK
    <2>3. ASSUME NEW c \in calls', c.bot = m
          PROVE  /\ c.swap \in todo'[m]
                 /\ c.kind = "lock" => status'[m][c.swap] = "New" /\ c.res = "ok"
                 /\ c.res = "reverted" => swap'[c.swap] # "Locked"
      <3>1. PICK c0 \in calls : c = After(c0)
        BY <1>5
      <3>2. /\ c.swap = c0.swap /\ c.kind = c0.kind /\ c0.bot = m
            /\ c.res = IF Hit(c0) /\ c0.res = "pending" THEN res ELSE c0.res
        BY <1>6, <2>3, <3>1
      <3>3. /\ c0.swap \in todo[m]
            /\ c0.kind = "lock" => status[m][c0.swap] = "New" /\ c0.res = "ok"
            /\ c0.res = "reverted" => swap[c0.swap] # "Locked"
        BY <1>1, <3>2 DEF CallsOK
      <3>4. c0.swap \in Swaps /\ swap[c0.swap] # "Invalid"
        BY <1>1 DEF CallsBacked, CallBacked, TypeOK, LoopsOK, Calls
      <3>5. c0.res = "reverted" => swap'[c0.swap] # "Locked"
        BY <1>3, <3>3, <3>4 DEF SwapsKept
      <3>. QED BY <1>4, <2>1, <3>2, <3>3, <3>5
    <2>4. ASSUME NEW tx2 \in sbchPool', tx2.bot = m
          PROVE  \E c \in calls' : /\ c.bot = m /\ c.kind = "unlock"
                                   /\ c.swap = tx2.swap /\ c.res = "pending"
      <3>1. tx2 \in sbchPool /\ tx2 # tx
        BY <1>2
      <3>2. PICK c \in calls : /\ c.bot = m /\ c.kind = "unlock"
                               /\ c.swap = tx2.swap /\ c.res = "pending"
        BY <1>1, <2>4, <3>1 DEF CallsOK
      <3>3. ~Hit(c)
        <4>1. tx \in SbchTxs /\ tx2 \in SbchTxs
          BY <1>1, <3>1 DEF ChainsOK
        <4>. QED BY <2>4, <3>1, <3>2, <4>1 DEF SbchTxs
      <3>4. /\ After(c).bot = m /\ After(c).kind = "unlock"
            /\ After(c).swap = tx2.swap /\ After(c).res = "pending"
        BY <1>6, <3>2, <3>3
      <3>. QED BY <1>5, <3>4
    <2>. QED BY <2>2, <2>3, <2>4 DEF CallsOK
  <1>8. ASSUME NEW i \in DOMAIN locks PROVE Recorded(m, i)'
    <2>1. UNCHANGED <<status[m], lockTx[m]>>
      BY <1>2 DEF Locals
    <2>2. ASSUME NEW s, Locking(m, s, i) PROVE Locking(m, s, i)'
      <3>1. PICK c \in calls : /\ c.bot = m /\ c.kind = "lock"
                               /\ c.swap = s /\ c.tx = i
        BY <2>2 DEF Locking
      <3>2. /\ After(c).bot = m /\ After(c).kind = "lock"
            /\ After(c).swap = s /\ After(c).tx = i
        BY <1>6, <3>1
      <3>. QED BY <1>5, <3>2 DEF Locking
    <2>. QED BY <1>1, <1>2, <2>1, <2>2 DEF LocksRecorded, Recorded
  <1>9. LocksRecorded(m)'
    BY <1>2, <1>8 DEF LocksRecorded
  <1>. QED
    BY <1>2, <1>3, <1>7, <1>9, LocalsKept DEF Loop, Seen

\* More blocks have their confirmations when there are more blocks.
LEMMA SafeHeightGrows ==
  ASSUME bchHeight \in Nat, bchHeight' \in Nat, bchHeight' >= bchHeight
  PROVE  /\ SafeHeight \in Int /\ SafeHeight' \in Int
         /\ SafeHeight' >= SafeHeight
  <1>1. PICK h \in Nat : h = bchHeight' /\ h >= bchHeight
    OBVIOUS
  <1>2. SafeHeight = bchHeight - Depth + 1 /\ Depth \in Nat
    BY DepthFacts
  <1>3. SafeHeight' = h - Depth + 1
    <2>1. CASE Confirmations > 0
      <3>1. SafeHeight' = bchHeight' - Confirmations + 1
        BY <2>1 DEF SafeHeight
      <3>. QED BY <1>1, <2>1, <3>1 DEF Depth
    <2>2. CASE ~(Confirmations > 0)
      <3>1. SafeHeight' = bchHeight'
        BY <2>2 DEF SafeHeight
      <3>2. Depth = 1 /\ h = h - 1 + 1
        BY <2>2 DEF Depth
      <3>. QED BY <1>1, <3>1, <3>2, Zenon
    <2>. QED BY <2>1, <2>2
  <1>4. \A n, k, d \in Nat : /\ n - d + 1 \in Int
                            /\ n >= k => n - d + 1 >= k - d + 1
    OBVIOUS
  <1>5. PICK n \in Nat : n = bchHeight
    OBVIOUS
  <1>6. PICK d \in Nat : d = Depth
    BY <1>2
  <1>7. SafeHeight = n - d + 1 /\ SafeHeight' = h - d + 1 /\ h >= n
    BY <1>1, <1>2, <1>3, <1>5, <1>6, Zenon
  <1>. QED BY <1>4, <1>7

\* A tick: another iteration has to see what there is now.
LEMMA TickSteps ==
  ASSUME NEW m, Master(m), PromptInv(m), TickBch \/ TickSbch
  PROVE  Loop(m)' /\ Seen(m)'
  <1>1. /\ TypeOK /\ ScanOK(m) /\ CaughtUp(m) /\ CallsOK(m) /\ WorkOK(m)
        /\ LocksRecorded(m) /\ SecretsSeen(m) /\ RefundsSeen(m) /\ m \in Bots
    BY DEF PromptInv, TimedInv, IInv, Loop, Seen, Master
  <1>2. /\ UNCHANGED <<pc, todo, mark, pos, calls, gotNewBlocks>>
        /\ UNCHANGED <<status, lockTx, revealedAt, strayTx, lastBch>>
        /\ UNCHANGED <<swap, locks, sbchPool>> /\ lap'[m] = 0
    BY <1>1
    DEF TickBch, TickSbch, Tick, chains, records, heights, loop
  <1>3. /\ bchHeight \in Nat /\ bchHeight' \in Nat /\ bchHeight' >= bchHeight
        /\ sbchNow \in Nat /\ sbchNow' \in Nat /\ sbchNow' >= sbchNow
    BY <1>1 DEF TickBch, TickSbch, TypeOK, ChainsOK
  <1>4. /\ SafeHeight \in Int /\ SafeHeight' \in Int
        /\ SafeHeight' >= SafeHeight
    BY <1>3, SafeHeightGrows
  <1>5. ScanOK(m)'
    BY <1>1, <1>2, <1>4, MasterTypes DEF ScanOK
  <1>6. CaughtUp(m)'
    BY <1>1, <1>2 DEF CaughtUp
  <1>7. CallsOK(m)' /\ LocksRecorded(m)'
    BY <1>1, <1>2 DEF CallsOK, LocksRecorded, Recorded, Locking
  <1>8. WorkOK(m)'
    <2>1. \A s \in Swaps : revealedAt[m][s] \in Nat
      BY <1>1, MasterTypes
    <2>. QED BY <1>1, <1>2, <1>3, <2>1 DEF WorkOK
  <1>9. SecretsSeen(m)' /\ RefundsSeen(m)'
    BY <1>1, <1>2
    DEF SecretsSeen, Scanned, RefundsSeen, RefundAt, Depth, BchTimeLock
  <1>. QED BY <1>5, <1>6, <1>7, <1>8, <1>9 DEF Loop, Seen

-----------------------------------------------------------------------------
(* The master's own steps.                                                 *)

\* What is known of the master before a step.
LEMMA MasterFacts ==
  ASSUME NEW m, Master(m), PromptInv(m)
  PROVE  /\ IInv /\ TypeOK /\ ChainsOK /\ CallsBacked /\ RecordsBacked
         /\ m \in Bots /\ m \notin Slaves
         /\ ScanOK(m) /\ CaughtUp(m) /\ CallsOK(m) /\ WorkOK(m)
         /\ LocksRecorded(m) /\ SecretsSeen(m) /\ RefundsSeen(m)
         /\ ExtraBlocks(m) = 0 /\ Delay(m) = 0 /\ Prompt
  BY DEF PromptInv, TimedInv, IInv, TypeOK, Loop, Seen, Master, Calm,
    ExtraBlocks, Delay

\* The master has sent no unlock that it does not wait for.
LEMMA IdleSends ==
  ASSUME NEW m, CallsOK(m), Idle(m)
  PROVE  \A tx \in sbchPool : tx.bot # m
  BY DEF CallsOK, Idle

\* In these stages it sends nothing.
LEMMA CallsHaveStages ==
  ASSUME NEW m, CallsBacked, TypeOK,
         pc[m] \in {"down", "updatePrices", "scanBchBlocks", "scanSbchEvents"}
  PROVE  Idle(m)
  <1>1. SUFFICES ASSUME NEW c \in calls, c.bot = m PROVE FALSE
    BY DEF Idle
  <1>2. pc[m] = CallStage(c.kind)
    BY <1>1 DEF CallsBacked, CallBacked
  <1>. QED BY <1>2 DEF CallStage

\* An idle master has saved every lock transaction, and knows of each that
\* nobody has spent that it is locked.
LEMMA IdleRecords ==
  ASSUME NEW m, Master(m), PromptInv(m), Idle(m), NEW i \in DOMAIN locks
  PROVE  /\ locks[i].swap \in Swaps /\ lockTx[m][locks[i].swap] = i
         /\ status[m][locks[i].swap] \in {"BchLocked", "SecretRevealed",
                                          "SbchUnlocked", "BchRefunded"}
         /\ locks[i].spent = "no" => status[m][locks[i].swap] = "BchLocked"
  <1>1. /\ \A j \in DOMAIN locks :
             /\ lockTx[m][locks[j].swap] = j
             /\ status[m][locks[j].swap] \in {"BchLocked", "SecretRevealed",
                                              "SbchUnlocked", "BchRefunded"}
        /\ locks[i].swap \in Swaps
    BY MasterFacts, LockParts DEF LocksRecorded, Recorded, Locking, Idle
  <1>2. ASSUME locks[i].spent = "no"
        PROVE  status[m][locks[i].swap] = "BchLocked"
    <2>. DEFINE s == locks[i].swap
    <2>1. Backed(status[m][s], i, s)
      BY <1>1, MasterFacts DEF RecordsBacked
    <2>2. status[m][s] # "SbchUnlocked"
      <3>1. SUFFICES ASSUME status[m][s] = "SbchUnlocked" PROVE FALSE
        OBVIOUS
      <3>2. Taken(s)
        BY <1>1, <2>1, <3>1, MasterFacts DEF Backed, IInv, UserNotCheated
      <3>3. PICK j \in DOMAIN locks : locks[j].swap = s /\ locks[j].spent = "user"
        BY <3>2 DEF Taken
      <3>. QED BY <1>1, <1>2, <3>3
    <2>. QED BY <1>1, <1>2, <2>1, <2>2 DEF Backed
  <1>. QED BY <1>1, <1>2

\* An idle master has no call to account for.
LEMMA IdleCalls ==
  ASSUME NEW m, CallsOK(m), Idle(m), UNCHANGED <<calls, sbchPool>>
  PROVE  CallsOK(m)'
  BY DEF CallsOK, Idle

\* Loop starts.
LEMMA StartStep ==
  ASSUME NEW m, Master(m), PromptInv(m), Start(m)
  PROVE  Loop(m)' /\ Seen(m)'
  <1>1. /\ pc[m] = "down" /\ pc'[m] = "updatePrices"
        /\ UNCHANGED <<bchHeight, sbchNow, swap, locks, sbchPool, calls, status,
                       lockTx, revealedAt, strayTx, lastBch, lap>>
        /\ DOMAIN locks = {} /\ lap[m] = 0
    BY MasterFacts
    DEF Start, TypeOK, LoopsOK, clocks, chains, records, heights, CaughtUp
  <1>2. CallsOK(m)'
    BY <1>1, CallsHaveStages, IdleCalls, MasterFacts
  <1>3. ScanOK(m)' /\ CaughtUp(m)' /\ WorkOK(m)'
    BY <1>1, MasterFacts DEF ScanOK, SafeHeight, CaughtUp, WorkOK
  <1>4. Seen(m)'
    BY <1>1 DEF Seen, LocksRecorded, SecretsSeen, RefundsSeen
  <1>. QED BY <1>2, <1>3, <1>4 DEF Loop

\* A new iteration: scanBchBlocks finds new blocks or not.
LEMMA UpdatePricesStep ==
  ASSUME NEW m, Master(m), PromptInv(m), faults' = 0, UpdatePrices(m)
  PROVE  Loop(m)' /\ Seen(m)'
  <1>1. /\ pc[m] = "updatePrices" /\ pc'[m] = "scanBchBlocks"
        /\ mark'[m] = SafeHeight /\ pos'[m] = lastBch[m]
        /\ gotNewBlocks'[m] = (SafeHeight > lastBch[m])
    <2>1. Enter(m, "scanBchBlocks") /\ pc[m] = "updatePrices"
      BY NoFault, MasterFacts DEF UpdatePrices
    <2>. QED
      BY <2>1, MasterFacts DEF Enter, Reading, Cursor, TypeOK, LoopsOK
  <1>2. UNCHANGED <<bchHeight, sbchNow, swap, locks, sbchPool, calls, status,
                    lockTx, revealedAt, strayTx, lastBch, lap>>
    BY DEF UpdatePrices, clocks, chains, records, heights
  <1>3. /\ SafeHeight' = SafeHeight /\ SafeHeight \in Int
        /\ lastBch[m] \in Nat
        /\ gotNewBlocks'[m] \/ lastBch[m] >= SafeHeight
        /\ lastBch[m] >= SafeHeight => ~gotNewBlocks'[m]
    <2>1. /\ SafeHeight' = SafeHeight /\ SafeHeight \in Int
          /\ lastBch[m] \in Nat
      BY <1>2, MasterFacts, MasterTypes, DepthFacts DEF SafeHeight
    <2>2. CASE SafeHeight > lastBch[m]
      <3>1. gotNewBlocks'[m]
        BY <1>1, <2>2, Zenon
      <3>. QED BY <2>1, <2>2, <3>1
    <2>3. CASE ~(SafeHeight > lastBch[m])
      <3>1. ~gotNewBlocks'[m]
        BY <1>1, <2>3, Zenon
      <3>. QED BY <2>1, <2>3, <3>1
    <2>. QED BY <2>2, <2>3
  <1>4. CallsOK(m)'
    BY <1>1, <1>2, CallsHaveStages, IdleCalls, MasterFacts
  <1>5. ScanOK(m)' /\ WorkOK(m)'
    BY <1>1, <1>2, <1>3, MasterFacts DEF ScanOK, WorkOK
  <1>6. CaughtUp(m)'
    BY <1>1, <1>2, <1>3, MasterFacts DEF CaughtUp
  <1>7. LocksRecorded(m)'
    BY <1>2, MasterFacts DEF LocksRecorded, Recorded, Locking
  <1>8. SecretsSeen(m)' /\ RefundsSeen(m)'
    BY <1>1, <1>2, MasterFacts
    DEF SecretsSeen, Scanned, RefundsSeen, RefundAt, Depth, BchTimeLock
  <1>. QED BY <1>4, <1>5, <1>6, <1>7, <1>8 DEF Loop, Seen

\* A call of the loop body ends and the next one starts.
LEMMA EndStageStep ==
  ASSUME NEW m, Master(m), PromptInv(m), faults' = 0, EndStage(m)
  PROVE  Loop(m)' /\ Seen(m)'
  <1>1. PICK stage \in Stages :
          <<pc[m], stage>> \in Successor /\ Enter(m, stage)
    BY NoFault, MasterFacts DEF EndStage, Master
  <1>2. /\ pc'[m] = stage /\ todo'[m] = Query(m, stage)
        /\ mark'[m] = Reading(stage)
        /\ stage # "scanBchBlocks" /\ stage # "down"
        /\ gotNewBlocks'[m] = gotNewBlocks[m]
    <2>1. stage # "scanBchBlocks" /\ stage # "down"
      BY <1>1 DEF Successor
    <2>2. gotNewBlocks' = [gotNewBlocks EXCEPT ![m] = @]
      BY <1>1, <2>1 DEF Enter
    <2>. QED
      BY <1>1, <2>1, <2>2, MasterFacts DEF Enter, TypeOK, LoopsOK
  <1>3. UNCHANGED <<bchHeight, sbchNow, swap, locks, sbchPool, calls, status,
                    lockTx, revealedAt, strayTx, lastBch>>
    BY DEF EndStage, clocks, chains, records, heights
  <1>4. /\ Idle(m) /\ todo[m] = {}
        /\ pc[m] = "scanBchBlocks" => pos[m] >= mark[m] /\ pos[m] = lastBch[m]
    BY DEF EndStage, Finished, Cursor
  <1>5. /\ pc[m] # "unlockSbchUserDeposits" => lap'[m] = lap[m]
        /\ pc[m] = "unlockSbchUserDeposits" => (lap'[m] > 1 => lap[m] > 0)
    <2>1. lap[m] \in 0..3 /\ m \in Bots
      BY MasterFacts, MasterTypes
    <2>2. \/ lap' = lap
          \/ /\ pc[m] = "unlockSbchUserDeposits"
             /\ lap' = [lap EXCEPT ![m] = @ + 1]
      BY DEF EndStage
    <2>3. lap' = [lap EXCEPT ![m] = @ + 1] => lap'[m] = lap[m] + 1
      BY MasterFacts DEF TypeOK, LoopsOK
    <2>. QED BY <2>1, <2>2, <2>3
  <1>6. CallsOK(m)' /\ LocksRecorded(m)'
    BY <1>3, <1>4, IdleCalls, MasterFacts
    DEF LocksRecorded, Recorded, Locking
  <1>7. SafeHeight' = SafeHeight /\ SafeHeight \in Int
    BY <1>3, MasterFacts, MasterTypes, DepthFacts DEF SafeHeight
  <1>8. ScanOK(m)'
    BY <1>2, <1>3, <1>7, MasterFacts DEF ScanOK
  <1>9. Scanned(m)' = Scanned(m)
    BY <1>2, <1>3, <1>4 DEF Scanned
  <1>10. SecretsSeen(m)'
    BY <1>3, <1>9, MasterFacts DEF SecretsSeen
  <1>11. CASE pc[m] = "scanBchBlocks"
    <2>1. stage = "refundLockedBCH"
      BY <1>1, <1>11 DEF Successor
    <2>2. todo'[m] = {s \in Swaps : gotNewBlocks[m] /\ status[m][s] = "BchLocked"}
      BY <1>2, <2>1 DEF Query
    <2>3. CaughtUp(m)'
      BY <1>2, <1>3, <1>4, <1>5, <1>7, <1>11, <2>1, MasterFacts DEF CaughtUp
    <2>4. WorkOK(m)'
      BY <1>2, <1>3, <2>1, <2>2, MasterFacts DEF WorkOK
    <2>5. RefundsSeen(m)'
      <3>1. ASSUME NEW i \in DOMAIN locks, locks[i].spent = "no",
                   gotNewBlocks[m]
            PROVE  locks[i].swap \in todo'[m]
        BY <1>4, <2>2, <3>1, IdleRecords
      <3>. QED
        BY <1>2, <1>3, <1>4, <1>11, <2>1, <3>1, MasterFacts
        DEF RefundsSeen, RefundAt, Depth, BchTimeLock
    <2>. QED BY <1>6, <1>8, <1>10, <2>3, <2>4, <2>5 DEF Loop, Seen
  <1>12. CASE pc[m] # "scanBchBlocks"
    <2>1. stage # "refundLockedBCH"
      BY <1>1, <1>12 DEF Successor
    <2>2. CaughtUp(m)'
      <3>1. pc[m] \notin {"down", "updatePrices", "scanBchBlocks"}
        BY <1>1, <1>12 DEF Successor
      <3>2. CASE pc[m] = "unlockSbchUserDeposits"
        <4>1. stage = "updatePrices"
          BY <1>1, <3>2 DEF Successor
        <4>2. lap'[m] > 1 =>
                /\ lastBch[m] >= SafeHeight
                /\ \A s \in Swaps :
                     status[m][s] = "SecretRevealed" => swap[s] # "Locked"
          BY <1>4, <1>5, <3>1, <3>2, MasterFacts DEF CaughtUp, WorkOK
        <4>. QED BY <1>2, <1>3, <1>7, <4>1, <4>2 DEF CaughtUp
      <3>3. CASE pc[m] # "unlockSbchUserDeposits"
        BY <1>2, <1>3, <1>5, <1>7, <2>1, <3>1, <3>3, MasterFacts DEF CaughtUp
      <3>. QED BY <3>2, <3>3
    <2>3. WorkOK(m)'
      <3>1. stage = "handleSbchUserDeposits" =>
              \A s \in todo'[m] : status[m][s] = "New"
        BY <1>2 DEF Query
      <3>2. stage = "unlockSbchUserDeposits" =>
              /\ mark'[m] = sbchNow
              /\ \A s \in Swaps :
                   status[m][s] = "SecretRevealed" => s \in todo'[m]
        BY <1>2 DEF Query, Reading
      <3>. QED
        BY <1>2, <1>3, <2>1, <3>1, <3>2, MasterFacts DEF WorkOK
    <2>4. RefundsSeen(m)'
      BY <1>2, <1>3, <1>4, <1>12, MasterFacts
      DEF RefundsSeen, RefundAt, Depth, BchTimeLock
    <2>. QED BY <1>6, <1>8, <1>10, <2>2, <2>3, <2>4 DEF Loop, Seen
  <1>. QED BY <1>11, <1>12

\* scanBchBlocks handles the next block: the master sees every secret in it.
LEMMA HandleBchBlockStep ==
  ASSUME NEW m, Master(m), PromptInv(m), faults' = 0, HandleBchBlock(m)
  PROVE  Loop(m)' /\ Seen(m)'
  <1>. DEFINE got == {s \in Swaps : Received(m, pos[m] + 1, s, lockTx[m][s], 0)}
  <1>1. /\ pc[m] = "scanBchBlocks" /\ pos[m] < mark[m] /\ pos[m] = lastBch[m]
        /\ UNCHANGED <<bchHeight, sbchNow, swap, locks, sbchPool, calls, pc,
                       todo, mark, gotNewBlocks, lastBch, lap>>
        /\ pos'[m] = pos[m] + 1 /\ Idle(m)
    BY MasterFacts, CallsHaveStages
    DEF HandleBchBlock, clocks, chains, heights, TypeOK, LoopsOK
  <1>2. /\ strayTx'[m] = 0
        /\ \A s \in Swaps :
             /\ lockTx'[m][s] = lockTx[m][s]
             /\ status'[m][s] = IF s \in got THEN "SecretRevealed"
                                ELSE status[m][s]
             /\ revealedAt'[m][s] = IF s \in got THEN sbchNow
                                    ELSE revealedAt[m][s]
    <2>1. PICK tx \in [Swaps -> 0..Len(locks)], stray \in 0..Len(locks) :
            LET found == {s \in Swaps : Received(m, pos[m] + 1, s,
                                          LockTxAfter(m, tx, s), stray)} IN
            /\ stray \in StraysAfter(m, tx)
            /\ strayTx' = [strayTx EXCEPT ![m] = stray]
            /\ lockTx' = [lockTx EXCEPT ![m] =
                            [s \in Swaps |-> LockTxAfter(m, tx, s)]]
            /\ status' = [status EXCEPT ![m] = [s \in Swaps |->
                 IF s \in found THEN "SecretRevealed"
                 ELSE IF Follows(m, tx, s) THEN "BchLocked" ELSE @[s]]]
            /\ revealedAt' = [revealedAt EXCEPT ![m] = [s \in Swaps |->
                 IF s \in found THEN sbchNow ELSE @[s]]]
      BY MasterFacts, NoFault DEF HandleBchBlock, Master
    <2>2. /\ \A s : ~Follows(m, tx, s)
          /\ \A s : LockTxAfter(m, tx, s) = lockTx[m][s]
          /\ stray = 0
      BY <2>1, MasterFacts DEF Follows, LockTxAfter, StraysAfter, ScanOK
    <2>. QED BY <2>1, <2>2, MasterFacts DEF TypeOK, RecordsOK
  <1>3. /\ SafeHeight' = SafeHeight /\ SafeHeight \in Int
        /\ pos[m] \in Nat /\ mark[m] \in Int /\ lastBch[m] \in Nat
        /\ sbchNow \in Nat /\ \A s \in Swaps : revealedAt[m][s] \in Nat
    BY <1>1, MasterFacts, MasterTypes, DepthFacts DEF SafeHeight
  <1>4. gotNewBlocks[m] /\ mark[m] <= SafeHeight
    BY <1>1, <1>3, MasterFacts DEF ScanOK
  <1>5. ScanOK(m)'
    BY <1>1, <1>2, <1>3, <1>4, MasterFacts DEF ScanOK
  <1>6. CaughtUp(m)'
    <2>1. ~(lap[m] > 1)
      BY <1>1, <1>3, <1>4, MasterFacts DEF CaughtUp
    <2>. QED BY <1>1, <1>3, <2>1, MasterFacts DEF CaughtUp
  <1>7. CallsOK(m)'
    BY <1>1, IdleCalls, MasterFacts
  <1>8. WorkOK(m)'
    BY <1>1, <1>2, <1>3, MasterFacts DEF WorkOK
  <1>9. ASSUME NEW i \in DOMAIN locks
        PROVE  /\ Recorded(m, i)'
               /\ locks[i].spent = "user" /\ locks[i].spentAt <= pos[m] + 1 =>
                    status'[m][locks[i].swap] \in {"SecretRevealed",
                                                   "SbchUnlocked"}
    <2>1. /\ locks[i].swap \in Swaps /\ lockTx[m][locks[i].swap] = i
          /\ status[m][locks[i].swap] \in {"BchLocked", "SecretRevealed",
                                           "SbchUnlocked", "BchRefunded"}
      BY <1>1, IdleRecords
    <2>2. Recorded(m, i)'
      BY <1>1, <1>2, <2>1 DEF Recorded
    <2>3. ASSUME locks[i].spent = "user", locks[i].spentAt <= pos[m] + 1
          PROVE  status'[m][locks[i].swap] \in {"SecretRevealed", "SbchUnlocked"}
      <3>1. locks[i].spentAt \in Nat /\ i # 0
        BY MasterFacts, LockParts DEF ChainsOK
      <3>2. CASE locks[i].spentAt = pos[m] + 1
        <4>1. locks[i].swap \in got
          BY <2>1, <2>3, <3>1, <3>2 DEF Received
        <4>. QED BY <1>2, <2>1, <4>1
      <3>3. CASE locks[i].spentAt # pos[m] + 1
        <4>1. locks[i].spentAt <= Scanned(m)
          BY <1>1, <1>3, <2>3, <3>1, <3>3 DEF Scanned
        <4>2. status[m][locks[i].swap] \in {"SecretRevealed", "SbchUnlocked"}
          BY <2>3, <4>1, MasterFacts DEF SecretsSeen
        <4>. QED BY <1>2, <2>1, <4>2
      <3>. QED BY <3>2, <3>3
    <2>. QED BY <2>2, <2>3
  <1>10. LocksRecorded(m)' /\ SecretsSeen(m)'
    BY <1>1, <1>9 DEF LocksRecorded, SecretsSeen, Scanned
  <1>11. RefundsSeen(m)'
    BY <1>1, <1>4 DEF RefundsSeen
  <1>. QED BY <1>5, <1>6, <1>7, <1>8, <1>10, <1>11 DEF Loop, Seen

\* The height of the handled block is saved.
LEMMA SaveBchHeightStep ==
  ASSUME NEW m, Master(m), PromptInv(m), SaveBchHeight(m)
  PROVE  Loop(m)' /\ Seen(m)'
  <1>1. /\ pc[m] = "scanBchBlocks" /\ pos[m] > lastBch[m]
        /\ UNCHANGED <<bchHeight, sbchNow, swap, locks, sbchPool, calls, pc,
                       todo, mark, pos, gotNewBlocks, status, lockTx,
                       revealedAt, strayTx, lap>>
        /\ lastBch'[m] = pos[m] /\ Idle(m)
    BY MasterFacts, CallsHaveStages
    DEF SaveBchHeight, clocks, chains, records, loop, TypeOK, RecordsOK
  <1>2. /\ SafeHeight' = SafeHeight /\ SafeHeight \in Int
        /\ pos[m] \in Nat /\ mark[m] \in Int /\ lastBch[m] \in Nat
    BY <1>1, MasterFacts, MasterTypes, DepthFacts DEF SafeHeight
  <1>3. /\ gotNewBlocks[m] /\ mark[m] <= SafeHeight /\ pos[m] <= mark[m]
    BY <1>1, <1>2, MasterFacts DEF ScanOK
  <1>4. ScanOK(m)'
    BY <1>1, <1>2, <1>3, MasterFacts DEF ScanOK
  <1>5. CaughtUp(m)'
    <2>1. ~(lap[m] > 1)
      BY <1>1, <1>2, <1>3, MasterFacts DEF CaughtUp
    <2>. QED BY <1>1, <1>2, <2>1, MasterFacts DEF CaughtUp
  <1>6. CallsOK(m)' /\ WorkOK(m)'
    BY <1>1, IdleCalls, MasterFacts DEF WorkOK
  <1>7. LocksRecorded(m)' /\ SecretsSeen(m)' /\ RefundsSeen(m)'
    BY <1>1, <1>3, MasterFacts
    DEF LocksRecorded, Recorded, Locking, SecretsSeen, Scanned, RefundsSeen
  <1>. QED BY <1>4, <1>5, <1>6, <1>7 DEF Loop, Seen

\* scanSbchEvents: a new record is one of a swap the master has not locked
\* BCH for.
LEMMA ScanSbchSteps ==
  ASSUME NEW m, Master(m), PromptInv(m), faults' = 0,
         HandleSbchLockEventS2B(m) \/ SaveSbchHeight(m)
  PROVE  Loop(m)' /\ Seen(m)'
  <1>1. /\ pc[m] = "scanSbchEvents"
        /\ UNCHANGED <<bchHeight, sbchNow, swap, locks, sbchPool, calls, pc,
                       todo, mark, gotNewBlocks, lockTx, revealedAt,
                       strayTx, lastBch, lap>>
        /\ Idle(m) /\ SafeHeight' = SafeHeight
    BY MasterFacts, CallsHaveStages
    DEF HandleSbchLockEventS2B, SaveSbchHeight, clocks, chains, heights,
      records, loop, SafeHeight
  <1>2. ASSUME NEW s \in Swaps
        PROVE  \/ status'[m][s] = status[m][s]
               \/ status[m][s] = "none" /\ status'[m][s] = "New"
    <2>1. \/ UNCHANGED status
          \/ \E t \in Swaps : status[m][t] = "none" /\ SetStatus(m, t, "New")
      BY MasterFacts, NextLogType
      DEF HandleSbchLockEventS2B, SaveSbchHeight, NewRecord, records, IInv
    <2>. QED BY <2>1, MasterFacts DEF SetStatus, TypeOK, RecordsOK
  <1>3. ScanOK(m)' /\ CaughtUp(m)' /\ WorkOK(m)'
    BY <1>1, <1>2, MasterFacts DEF ScanOK, CaughtUp, WorkOK
  <1>4. CallsOK(m)'
    BY <1>1, IdleCalls, MasterFacts
  <1>5. ASSUME NEW i \in DOMAIN locks
        PROVE  /\ locks[i].swap \in Swaps /\ Recorded(m, i)'
               /\ status'[m][locks[i].swap] = status[m][locks[i].swap]
    <2>1. /\ locks[i].swap \in Swaps /\ lockTx[m][locks[i].swap] = i
          /\ status[m][locks[i].swap] \in {"BchLocked", "SecretRevealed",
                                           "SbchUnlocked", "BchRefunded"}
      BY <1>1, IdleRecords
    <2>2. status'[m][locks[i].swap] = status[m][locks[i].swap]
      BY <1>2, <2>1
    <2>. QED BY <1>1, <2>1, <2>2 DEF Recorded
  <1>6. LocksRecorded(m)' /\ SecretsSeen(m)' /\ RefundsSeen(m)'
    BY <1>1, <1>5, MasterFacts
    DEF LocksRecorded, SecretsSeen, Scanned, RefundsSeen, RefundAt, Depth,
      BchTimeLock
  <1>. QED BY <1>3, <1>4, <1>6 DEF Loop, Seen

\* The Margin leaves no room for more confirmations than that.
LEMMA MarginIsShallow ==
  ASSUME Margin, bchHeight \in Nat
  PROVE  Shallow
  <1>1. Depth \in Nat /\ Depth >= 1
    BY DepthFacts
  <1>2. TimeLock <= 4 * BchTimeLock + 3
    BY TimesAssumption DEF BchTimeLock
  <1>3. SUFFICES ASSUME Depth >= BchTimeLock + 1 PROVE FALSE
    BY <1>1, TimeTypes DEF Shallow
  <1>4. TimeLock \div 3 + 2 * BchTimeLock + 2 * (BchTimeLock + 1) < TimeLock
    BY <1>1, <1>3, TimeTypes DEF Margin
  <1>5. TimeLock \div 3 = 0
    BY <1>2, <1>4, TimeTypes
  <1>6. TimeLock < 3 /\ 2 < TimeLock
    BY <1>4, <1>5, TimeTypes, TimesAssumption
  <1>. QED BY <1>6, TimeTypes

\* What the master will not take back yet it will see again.
LEMMA NotYetDue ==
  ASSUME NEW m, Master(m), PromptInv(m), Shallow, NEW h \in Nat, h > 0,
         bchHeight + 1 <= h + BchTimeLock
  PROVE  lastBch[m] + Depth <= h + BchTimeLock
  <1>1. /\ bchHeight \in Nat /\ lastBch[m] \in Nat /\ BchTimeLock \in Nat
        /\ Depth \in Nat /\ SafeHeight = bchHeight - Depth + 1
    BY MasterFacts, MasterTypes, DepthFacts, TimeTypes
  <1>2. CASE lastBch[m] = 0
    BY <1>1, <1>2 DEF Shallow
  <1>3. CASE lastBch[m] # 0
    BY <1>1, <1>3, MasterFacts DEF ScanOK
  <1>. QED BY <1>2, <1>3

\* The end of a record's turn: no call is in progress any more, and if there
\* are lock transactions for the swap, the record is right about them.
LEMMA RecordDone ==
  ASSUME NEW m, Master(m), PromptInv(m), NEW s \in Swaps, Handled(m, s),
         pc[m] \in {"refundLockedBCH", "handleSbchUserDeposits",
                    "unlockSbchUserDeposits"},
         UNCHANGED <<clocks, chains, revealedAt, strayTx, heights, lap>>,
         \A c \in calls' : c.bot # m, \A tx \in sbchPool : tx.bot # m,
         \A c \in calls : c.bot = m => c.swap = s,
         \A t \in Swaps : t # s => /\ status'[m][t] = status[m][t]
                                   /\ lockTx'[m][t] = lockTx[m][t],
         \A i \in DOMAIN locks : locks[i].swap = s =>
           /\ lockTx'[m][s] = i
           /\ status'[m][s] \in {"BchLocked", "SecretRevealed",
                                 "SbchUnlocked", "BchRefunded"}
           /\ locks[i].spent = "user" /\ locks[i].spentAt <= Scanned(m) =>
                status'[m][s] \in {"SecretRevealed", "SbchUnlocked"}
           /\ pc[m] = "refundLockedBCH" /\ locks[i].spent = "no" =>
                lastBch[m] + Depth <= RefundAt(i),
         status'[m][s] = "SecretRevealed" => swap[s] # "Locked"
  PROVE  Loop(m)' /\ Seen(m)'
  <1>1. /\ UNCHANGED <<bchHeight, sbchNow, swap, locks, sbchPool, pc,
                       mark, gotNewBlocks, revealedAt, strayTx, lastBch, lap>>
        /\ todo'[m] = todo[m] \ {s} /\ SafeHeight' = SafeHeight
    BY MasterFacts
    DEF Handled, clocks, chains, heights, SafeHeight, TypeOK, LoopsOK
  <1>2. ScanOK(m)'
    BY <1>1, MasterFacts DEF ScanOK
  <1>3. CaughtUp(m)'
    BY <1>1, MasterFacts DEF CaughtUp
  <1>4. CallsOK(m)'
    BY <1>1 DEF CallsOK
  <1>5. WorkOK(m)'
    <2>1. todo[m] \subseteq Swaps
      BY MasterFacts, MasterTypes
    <2>. QED BY <1>1, <2>1, MasterFacts DEF WorkOK
  <1>6. ASSUME NEW i \in DOMAIN locks
        PROVE  /\ Recorded(m, i)'
               /\ locks[i].spent = "user" /\ locks[i].spentAt <= Scanned(m) =>
                    status'[m][locks[i].swap] \in {"SecretRevealed",
                                                   "SbchUnlocked"}
               /\ locks[i].spent = "no" =>
                    \/ lastBch[m] + Depth <= RefundAt(i)
                    \/ /\ pc[m] = "refundLockedBCH"
                       /\ locks[i].swap \in todo[m] \ {s}
    <2>1. locks[i].swap \in Swaps
      BY MasterFacts, LockParts
    <2>2. CASE locks[i].swap = s
      <3>1. Recorded(m, i)'
        BY <1>1, <2>2 DEF Recorded
      <3>2. locks[i].spent = "no" => lastBch[m] + Depth <= RefundAt(i)
        BY <2>2, MasterFacts DEF RefundsSeen
      <3>. QED BY <2>2, <3>1, <3>2
    <2>3. CASE locks[i].swap # s
      <3>1. ~Locking(m, locks[i].swap, i)
        BY <2>3 DEF Locking
      <3>2. Recorded(m, i)'
        BY <1>1, <2>1, <2>3, <3>1, MasterFacts DEF LocksRecorded, Recorded
      <3>3. locks[i].spent = "user" /\ locks[i].spentAt <= Scanned(m) =>
              status'[m][locks[i].swap] \in {"SecretRevealed", "SbchUnlocked"}
        BY <2>1, <2>3, MasterFacts DEF SecretsSeen
      <3>4. locks[i].spent = "no" =>
              \/ lastBch[m] + Depth <= RefundAt(i)
              \/ /\ pc[m] = "refundLockedBCH"
                 /\ locks[i].swap \in todo[m] \ {s}
        BY <2>3, MasterFacts DEF RefundsSeen
      <3>. QED BY <3>2, <3>3, <3>4
    <2>. QED BY <2>2, <2>3
  <1>7. LocksRecorded(m)' /\ SecretsSeen(m)'
    BY <1>1, <1>6 DEF LocksRecorded, SecretsSeen, Scanned
  <1>8. RefundsSeen(m)'
    BY <1>1, <1>6 DEF RefundsSeen, RefundAt, Depth, BchTimeLock
  <1>. QED BY <1>2, <1>3, <1>4, <1>5, <1>7, <1>8 DEF Loop, Seen

\* What writing the status of one record leaves.
LEMMA OneStatus ==
  ASSUME TypeOK, NEW m \in Bots, NEW s \in Swaps, NEW st, SetStatus(m, s, st)
  PROVE  /\ status'[m][s] = st
         /\ \A t \in Swaps : t # s => status'[m][t] = status[m][t]
  BY DEF SetStatus, TypeOK, RecordsOK

\* Records that are left alone: what is locked for them is not due yet.
LEMMA SkipRefundStep ==
  ASSUME NEW m, Master(m), PromptInv(m), Shallow, NEW s \in Swaps,
         SkipRefund(m, s)
  PROVE  Loop(m)' /\ Seen(m)'
  <1>1. /\ pc[m] = "refundLockedBCH" /\ s \in todo[m] /\ Idle(m)
        /\ ~RefundDue(m, s) /\ Handled(m, s)
        /\ UNCHANGED <<clocks, chains, revealedAt, strayTx, heights, lap>>
        /\ UNCHANGED <<status, lockTx, calls>>
    BY DEF SkipRefund, Handling, records
  <1>2. status[m][s] = "BchLocked"
    BY <1>1, MasterFacts DEF WorkOK
  <1>3. ASSUME NEW i \in DOMAIN locks, locks[i].swap = s
        PROVE  /\ lockTx[m][s] = i
               /\ locks[i].spent = "user" /\ locks[i].spentAt <= Scanned(m) =>
                    status[m][s] \in {"SecretRevealed", "SbchUnlocked"}
               /\ lastBch[m] + Depth <= RefundAt(i)
    <2>1. lockTx[m][s] = i
      BY <1>1, <1>3, IdleRecords
    <2>2. /\ locks[i].height \in Nat /\ bchHeight \in Nat
          /\ BchTimeLock \in Nat
      BY MasterFacts, MasterTypes, LockParts, TimeTypes
    <2>3. bchHeight + 1 <= locks[i].height + BchTimeLock
      BY <1>1, <2>1, <2>2, MasterFacts DEF RefundDue, TxConfirmations
    <2>4. lastBch[m] + Depth <= RefundAt(i)
      BY <2>2, <2>3, NotYetDue
      DEF RefundAt, PromptInv, Deadlines, Deadline
    <2>. QED BY <1>3, <2>1, <2>4, MasterFacts DEF SecretsSeen
  <1>4. \A c \in calls' : c.bot # m
    BY <1>1 DEF Idle
  <1>5. \A tx \in sbchPool : tx.bot # m
    BY <1>1, IdleSends, MasterFacts
  <1>. QED
    BY <1>1, <1>2, <1>3, <1>4, <1>5, RecordDone DEF Idle

\* Records of deposits the master does not accept: it has locked no BCH.
LEMMA RejectStep ==
  ASSUME NEW m, Master(m), PromptInv(m), faults' = 0, NEW s \in Swaps,
         PriceChanged(m, s) \/ TooLateToLockBch(m, s)
  PROVE  Loop(m)' /\ Seen(m)'
  <1>1. /\ pc[m] = "handleSbchUserDeposits" /\ s \in todo[m] /\ Idle(m)
        /\ Handled(m, s)
        /\ UNCHANGED <<clocks, chains, revealedAt, strayTx, heights, lap>>
        /\ UNCHANGED <<lockTx, calls>>
        /\ \/ SetStatus(m, s, "PriceChanged")
           \/ SetStatus(m, s, "TooLateToLockBch")
    BY NoFault, MasterFacts
    DEF PriceChanged, TooLateToLockBch, Handling, Master
  <1>2. status[m][s] = "New"
    BY <1>1, MasterFacts DEF WorkOK
  <1>3. \A i \in DOMAIN locks : locks[i].swap # s
    BY <1>1, <1>2, IdleRecords
  <1>4. \A c \in calls' : c.bot # m
    BY <1>1 DEF Idle
  <1>5. \A tx \in sbchPool : tx.bot # m
    BY <1>1, IdleSends, MasterFacts
  <1>6. /\ \A t \in Swaps : t # s => status'[m][t] = status[m][t]
        /\ status'[m][s] # "SecretRevealed"
    BY <1>1, OneStatus, MasterFacts
  <1>. QED
    BY <1>1, <1>3, <1>4, <1>5, <1>6, RecordDone DEF Idle

\* The failed unlock of an idle master finds the deposit gone.
LEMMA UnlockSbchFailsStep ==
  ASSUME NEW m, Master(m), PromptInv(m), faults' = 0, NEW s \in Swaps,
         UnlockSbchFails(m, s)
  PROVE  Loop(m)' /\ Seen(m)'
  <1>1. /\ pc[m] = "unlockSbchUserDeposits" /\ s \in todo[m] /\ Idle(m)
        /\ Handled(m, s) /\ ~CanUnlock(m, s) /\ CheckUnlocked(m, s)
        /\ UNCHANGED <<clocks, chains, revealedAt, strayTx, heights, lap>>
        /\ UNCHANGED <<lockTx, calls>>
    BY NoFault, MasterFacts DEF UnlockSbchFails, Handling, Master
  <1>2. \A tx \in sbchPool : tx.bot # m
    BY <1>1, IdleSends, MasterFacts
  <1>3. swap[s] # "Locked"
    BY <1>1, <1>2 DEF CanUnlock
  <1>4. /\ \A t \in Swaps : t # s => status'[m][t] = status[m][t]
        /\ status'[m][s] = status[m][s] \/ status'[m][s] = "SbchUnlocked"
    BY <1>1, OneStatus, MasterFacts DEF CheckUnlocked
  <1>5. ASSUME NEW i \in DOMAIN locks, locks[i].swap = s
        PROVE  /\ lockTx[m][s] = i
               /\ status'[m][s] \in {"BchLocked", "SecretRevealed",
                                     "SbchUnlocked", "BchRefunded"}
               /\ locks[i].spent = "user" /\ locks[i].spentAt <= Scanned(m) =>
                    status'[m][s] \in {"SecretRevealed", "SbchUnlocked"}
    <2>1. /\ lockTx[m][s] = i
          /\ status[m][s] \in {"BchLocked", "SecretRevealed",
                               "SbchUnlocked", "BchRefunded"}
      BY <1>1, <1>5, IdleRecords
    <2>2. locks[i].spent = "user" /\ locks[i].spentAt <= Scanned(m) =>
            status[m][s] \in {"SecretRevealed", "SbchUnlocked"}
      BY <1>5, MasterFacts DEF SecretsSeen
    <2>. QED BY <1>4, <2>1, <2>2
  <1>6. \A c \in calls' : c.bot # m
    BY <1>1 DEF Idle
  <1>. QED
    BY <1>1, <1>2, <1>3, <1>4, <1>5, <1>6, RecordDone DEF Idle

\* A prompt master without faults takes none of these steps.
LEMMA NeverTaken ==
  ASSUME NEW m, Master(m), PromptInv(m), faults' = 0
  PROVE  /\ ~BchBlockFails(m) /\ ~Crash(m)
         /\ \A s \in Swaps : ~WaitForOther(m, s) /\ ~RpcFails(m, s)
  <1>1. ~BchBlockFails(m) /\ ~Crash(m) /\ \A s \in Swaps : ~RpcFails(m, s)
    BY NoFault, MasterFacts DEF BchBlockFails, Crash, RpcFails, Master
  <1>2. ASSUME NEW s \in Swaps, WaitForOther(m, s) PROVE FALSE
    <2>1. revealedAt[m][s] <= mark[m] /\ mark[m] - revealedAt[m][s] < 0
      BY <1>2, MasterFacts DEF WaitForOther, Handling, WorkOK
    <2>2. revealedAt[m][s] \in Nat /\ mark[m] \in Int
      BY MasterFacts, MasterTypes
    <2>. QED BY <2>1, <2>2
  <1>. QED BY <1>1, <1>2

\* The only call of the master has come back.
LEMMA CallDone ==
  ASSUME NEW m, Master(m), PromptInv(m), NEW c \in calls, c.bot = m,
         c.res # "pending", calls' = calls \ {c}
  PROVE  /\ c.swap \in Swaps /\ c.swap \in todo[m]
         /\ pc[m] = CallStage(c.kind) /\ c.kind \in {"lock", "refund", "unlock"}
         /\ \A d \in calls' : d.bot # m
         /\ \A d \in calls : d.bot = m => d = c
         /\ \A tx \in sbchPool : tx.bot # m
         /\ c.kind # "lock" => \A i \in DOMAIN locks :
              locks[i].swap = c.swap =>
                /\ lockTx[m][c.swap] = i
                /\ status[m][c.swap] \in {"BchLocked", "SecretRevealed",
                                          "SbchUnlocked", "BchRefunded"}
                /\ locks[i].spent = "user" /\ locks[i].spentAt <= Scanned(m) =>
                     status[m][c.swap] \in {"SecretRevealed", "SbchUnlocked"}
                /\ pc[m] = "refundLockedBCH" => locks[i].spent # "no"
  <1>1. \A d \in calls : d.bot = m => d = c
    BY MasterFacts DEF CallsOK
  <1>2. /\ c.swap \in todo[m] /\ CallBacked(c) /\ c \in Calls
        /\ \A tx \in sbchPool : tx.bot # m
    BY <1>1, MasterFacts DEF CallsOK, CallsBacked, TypeOK, LoopsOK
  <1>3. /\ c.swap \in Swaps /\ c.kind \in {"lock", "refund", "unlock"}
        /\ pc[m] = CallStage(c.kind)
    BY <1>2 DEF Calls, CallBacked
  <1>4. ASSUME c.kind # "lock", NEW i \in DOMAIN locks, locks[i].swap = c.swap
        PROVE  /\ lockTx[m][c.swap] = i
               /\ status[m][c.swap] \in {"BchLocked", "SecretRevealed",
                                         "SbchUnlocked", "BchRefunded"}
               /\ locks[i].spent = "user" /\ locks[i].spentAt <= Scanned(m) =>
                    status[m][c.swap] \in {"SecretRevealed", "SbchUnlocked"}
               /\ pc[m] = "refundLockedBCH" => locks[i].spent # "no"
    <2>1. ~Locking(m, c.swap, i)
      BY <1>1, <1>4 DEF Locking
    <2>2. /\ lockTx[m][c.swap] = i
          /\ status[m][c.swap] \in {"BchLocked", "SecretRevealed",
                                    "SbchUnlocked", "BchRefunded"}
      BY <1>4, <2>1, MasterFacts DEF LocksRecorded, Recorded
    <2>3. pc[m] = "refundLockedBCH" => c.kind = "refund"
      BY <1>3 DEF CallStage
    <2>. QED
      BY <1>2, <1>4, <2>2, <2>3, MasterFacts DEF CallBacked, SecretsSeen
  <1>. QED BY <1>1, <1>2, <1>3, <1>4

\* A call that went well is saved: BchLocked with the lock transaction,
\* BchRefunded or SbchUnlocked.
LEMMA SaveResultStep ==
  ASSUME NEW m, Master(m), PromptInv(m), faults' = 0, NEW c \in calls,
         SaveResult(m, c)
  PROVE  Loop(m)' /\ Seen(m)'
  <1>. DEFINE s == c.swap
  <1>1. /\ c.bot = m /\ c.res = "ok" /\ calls' = calls \ {c} /\ Handled(m, s)
        /\ UNCHANGED <<clocks, chains, revealedAt, strayTx, heights, lap>>
    BY DEF SaveResult
  <1>2. /\ s \in Swaps /\ s \in todo[m] /\ pc[m] = CallStage(c.kind)
        /\ c.kind \in {"lock", "refund", "unlock"}
        /\ \A d \in calls' : d.bot # m
        /\ \A d \in calls : d.bot = m => d = c
        /\ \A tx \in sbchPool : tx.bot # m
    BY <1>1, CallDone
  <1>3. pc[m] \in {"refundLockedBCH", "handleSbchUserDeposits",
                   "unlockSbchUserDeposits"}
    BY <1>2 DEF CallStage
  <1>4. CASE c.kind = "lock"
    <2>1. SetStatus(m, s, "BchLocked") /\ SetLockTx(m, s, c.tx)
      BY <1>4, NoFault, MasterFacts DEF SaveResult, Master
    <2>2. /\ status'[m][s] = "BchLocked" /\ lockTx'[m][s] = c.tx
          /\ \A t \in Swaps : t # s => /\ status'[m][t] = status[m][t]
                                       /\ lockTx'[m][t] = lockTx[m][t]
      BY <1>2, <2>1, OneStatus, MasterFacts DEF SetLockTx, TypeOK, RecordsOK
    <2>3. status[m][s] = "New" /\ pc[m] = "handleSbchUserDeposits"
      BY <1>1, <1>2, <1>4, MasterFacts DEF CallsOK, CallStage
    <2>4. ASSUME NEW i \in DOMAIN locks, locks[i].swap = s
          PROVE  /\ c.tx = i
                 /\ ~(locks[i].spent = "user" /\ locks[i].spentAt <= Scanned(m))
      <3>1. Locking(m, s, i)
        BY <2>3, <2>4, MasterFacts DEF LocksRecorded, Recorded
      <3>2. c.tx = i
        BY <1>2, <3>1 DEF Locking
      <3>. QED BY <2>3, <2>4, <3>2, MasterFacts DEF SecretsSeen
    <2>. HIDE DEF s
    <2>. QED
      BY <1>1, <1>2, <1>3, <2>2, <2>3, <2>4, RecordDone DEF s
  <1>5. CASE c.kind # "lock"
    <2>1. PICK st \in {"BchRefunded", "SbchUnlocked"} :
            /\ SetStatus(m, s, st) /\ UNCHANGED lockTx
            /\ st = "BchRefunded" => c.kind = "refund"
      BY <1>5, NoFault, MasterFacts DEF SaveResult, Master
    <2>2. /\ status'[m][s] = st
          /\ \A t \in Swaps : t # s => status'[m][t] = status[m][t]
      BY <1>2, <2>1, OneStatus, MasterFacts
    <2>3. ASSUME NEW i \in DOMAIN locks, locks[i].swap = s
          PROVE  /\ lockTx[m][s] = i
                 /\ locks[i].spent = "user" /\ locks[i].spentAt <= Scanned(m) =>
                      st = "SbchUnlocked"
                 /\ pc[m] = "refundLockedBCH" => locks[i].spent # "no"
      <3>1. /\ lockTx[m][s] = i
            /\ locks[i].spent = "user" /\ locks[i].spentAt <= Scanned(m) =>
                 status[m][s] \in {"SecretRevealed", "SbchUnlocked"}
            /\ pc[m] = "refundLockedBCH" => locks[i].spent # "no"
        BY <1>1, <1>5, <2>3, CallDone
      <3>2. st = "BchRefunded" => status[m][s] = "BchLocked"
        BY <1>2, <2>1, MasterFacts DEF WorkOK, CallStage
      <3>. QED BY <2>1, <3>1, <3>2
    <2>. HIDE DEF s
    <2>. QED
      BY <1>1, <1>2, <1>3, <2>1, <2>2, <2>3, RecordDone DEF s
  <1>. QED BY <1>4, <1>5

\* A reverted unlock finds the deposit gone.
LEMMA CallFailsStep ==
  ASSUME NEW m, Master(m), PromptInv(m), faults' = 0, NEW c \in calls,
         CallFails(m, c)
  PROVE  Loop(m)' /\ Seen(m)'
  <1>. DEFINE s == c.swap
  <1>1. /\ c.bot = m /\ c.res = "reverted" /\ calls' = calls \ {c}
        /\ Handled(m, s) /\ UNCHANGED lockTx
        /\ UNCHANGED <<clocks, chains, revealedAt, strayTx, heights, lap>>
        /\ CheckUnlocked(m, s) \/ UNCHANGED status
    BY NoFault, MasterFacts DEF CallFails, Master
  <1>2. /\ s \in Swaps /\ pc[m] = CallStage(c.kind)
        /\ c.kind \in {"lock", "refund", "unlock"}
        /\ \A d \in calls' : d.bot # m
        /\ \A d \in calls : d.bot = m => d = c
        /\ \A tx \in sbchPool : tx.bot # m
    BY <1>1, CallDone
  <1>3. c.kind # "lock" /\ swap[s] # "Locked"
    BY <1>1, MasterFacts DEF CallsOK
  <1>4. pc[m] \in {"refundLockedBCH", "unlockSbchUserDeposits"}
    BY <1>2, <1>3 DEF CallStage
  <1>5. /\ \A t \in Swaps : t # s => status'[m][t] = status[m][t]
        /\ status'[m][s] = status[m][s] \/ status'[m][s] = "SbchUnlocked"
    BY <1>1, <1>2, OneStatus, MasterFacts DEF CheckUnlocked
  <1>6. ASSUME NEW i \in DOMAIN locks, locks[i].swap = s
        PROVE  /\ lockTx[m][s] = i
               /\ status'[m][s] \in {"BchLocked", "SecretRevealed",
                                     "SbchUnlocked", "BchRefunded"}
               /\ locks[i].spent = "user" /\ locks[i].spentAt <= Scanned(m) =>
                    status'[m][s] \in {"SecretRevealed", "SbchUnlocked"}
               /\ pc[m] = "refundLockedBCH" => locks[i].spent # "no"
    BY <1>1, <1>3, <1>5, <1>6, CallDone
  <1>. HIDE DEF s
  <1>. QED
    BY <1>1, <1>2, <1>3, <1>4, <1>5, <1>6, RecordDone DEF s

\* A transaction is sent that takes back BCH or unlocks sBCH.
LEMMA SendSteps ==
  ASSUME NEW m, Master(m), PromptInv(m), NEW s \in Swaps,
         RefundBch(m, s) \/ UnlockSbch(m, s)
  PROVE  Loop(m)' /\ Seen(m)'
  <1>1. /\ s \in todo[m] /\ Idle(m) /\ UNCHANGED swap
        /\ UNCHANGED <<Locals(m), clocks>> /\ lap'[m] = lap[m]
        /\ UNCHANGED <<todo[m], status[m], lockTx[m]>>
    BY DEF RefundBch, UnlockSbch, Handling, Locals, records, heights
  <1>2. SwapsKept
    BY <1>1 DEF SwapsKept
  <1>3. LocksKept
    <2>1. CASE RefundBch(m, s)
      <3>1. PICK i \in DOMAIN locks : \/ locks[i].spent = "no" /\ Spend(i, "bot")
                                     \/ UNCHANGED locks
        BY <2>1, RefundBchFacts, MasterFacts
      <3>2. CASE locks[i].spent = "no" /\ Spend(i, "bot")
        BY <3>2, SpendLeaves, MasterFacts
      <3>3. CASE UNCHANGED locks
        BY <3>3 DEF LocksKept
      <3>. QED BY <3>1, <3>2, <3>3
    <2>2. CASE UnlockSbch(m, s)
      BY <2>2 DEF UnlockSbch, LocksKept
    <2>. QED BY <2>1, <2>2
  <1>4. PICK c : /\ calls' = calls \cup {c} /\ c.bot = m /\ c.swap = s
                 /\ c.kind \in {"refund", "unlock"} /\ c.res # "reverted"
                 /\ \A tx \in sbchPool' :
                      \/ tx \in sbchPool
                      \/ /\ tx.swap = s /\ c.kind = "unlock"
                         /\ c.res = "pending"
    <2>1. CASE RefundBch(m, s)
      <3>. DEFINE c == [bot |-> m, kind |-> "refund", swap |-> s,
                        tx |-> lockTx[m][s], res |-> "ok"]
      <3>1. calls' = calls \cup {c} /\ UNCHANGED sbchPool
        BY <2>1 DEF RefundBch
      <3>2. /\ c.bot = m /\ c.swap = s /\ c.kind = "refund" /\ c.res = "ok"
        OBVIOUS
      <3>. HIDE DEF c
      <3>. QED BY <3>1, <3>2
    <2>2. CASE UnlockSbch(m, s)
      <3>. DEFINE c == [bot |-> m, kind |-> "unlock", swap |-> s,
                        tx |-> 0, res |-> "pending"]
      <3>1. /\ calls' = calls \cup {c}
            /\ sbchPool' = sbchPool \cup {[bot |-> m, swap |-> s]}
        BY <2>2 DEF UnlockSbch
      <3>2. /\ c.bot = m /\ c.swap = s /\ c.kind = "unlock"
            /\ c.res = "pending"
        OBVIOUS
      <3>. HIDE DEF c
      <3>. QED BY <3>1, <3>2
    <2>. QED BY <2>1, <2>2
  <1>5. \A d \in calls' : d.bot = m => d = c
    BY <1>1, <1>4 DEF Idle
  <1>6. CallsOK(m)'
    <2>1. ASSUME NEW tx \in sbchPool', tx.bot = m
          PROVE  \E d \in calls' : /\ d.bot = m /\ d.kind = "unlock"
                                   /\ d.swap = tx.swap /\ d.res = "pending"
      BY <1>1, <1>4, <2>1, IdleSends, MasterFacts
    <2>. QED BY <1>1, <1>4, <1>5, <2>1 DEF CallsOK
  <1>7. ASSUME NEW i \in DOMAIN locks' PROVE Recorded(m, i)'
    <2>1. i \in DOMAIN locks /\ locks'[i].swap = locks[i].swap
      BY <1>3, <1>7 DEF LocksKept
    <2>. QED BY <1>1, <2>1, IdleRecords DEF Recorded
  <1>8. LocksRecorded(m)'
    BY <1>7 DEF LocksRecorded
  <1>. QED BY <1>1, <1>2, <1>3, <1>6, <1>8, LocalsKept DEF Loop, Seen

\* BCH is locked: the new output cannot be refunded before the master has
\* scanned as many blocks again.
LEMMA LockBchStep ==
  ASSUME NEW m, Master(m), PromptInv(m), Shallow, NEW s \in Swaps, LockBch(m, s)
  PROVE  Loop(m)' /\ Seen(m)'
  <1>1. /\ pc[m] = "handleSbchUserDeposits" /\ s \in todo[m] /\ Idle(m)
        /\ UNCHANGED <<bchHeight, sbchNow, swap, sbchPool, pc, todo, mark, pos,
                       gotNewBlocks, status, lockTx, revealedAt, strayTx,
                       lastBch, lap>>
        /\ SafeHeight' = SafeHeight
    BY DEF LockBch, Handling, clocks, records, heights, SafeHeight
  <1>2. status[m][s] = "New"
    BY <1>1, MasterFacts DEF WorkOK
  <1>3. PICK n \in Nat : n = Len(locks)
    BY MasterFacts DEF ChainsOK
  <1>4. /\ DOMAIN locks = 1..n /\ DOMAIN locks' = 1..(n + 1)
        /\ \A j \in 1..n : locks'[j] = locks[j]
        /\ locks'[n + 1].swap = s /\ locks'[n + 1].spent = "no"
        /\ locks'[n + 1].height = bchHeight + 1
    BY <1>3, MasterFacts DEF LockBch, ChainsOK
  <1>5. PICK c : /\ calls' = calls \cup {c} /\ c.bot = m /\ c.kind = "lock"
                 /\ c.swap = s /\ c.tx = n + 1 /\ c.res = "ok"
    <2>. DEFINE c == [bot |-> m, kind |-> "lock", swap |-> s,
                      tx |-> Len(locks) + 1, res |-> "ok"]
    <2>1. calls' = calls \cup {c}
      BY DEF LockBch
    <2>2. /\ c.bot = m /\ c.swap = s /\ c.kind = "lock" /\ c.res = "ok"
          /\ c.tx = n + 1
      BY <1>3
    <2>. HIDE DEF c
    <2>. QED BY <2>1, <2>2
  <1>6. \A i \in DOMAIN locks' : i \in 1..n \/ i = n + 1
    BY <1>3, <1>4
  <1>7. ScanOK(m)' /\ CaughtUp(m)' /\ WorkOK(m)'
    BY <1>1, MasterFacts DEF ScanOK, CaughtUp, WorkOK
  <1>8. CallsOK(m)'
    <2>1. \A d \in calls' : d.bot = m => d = c
      BY <1>1, <1>5 DEF Idle
    <2>2. \A tx \in sbchPool' : tx.bot # m
      BY <1>1, IdleSends, MasterFacts
    <2>. QED BY <1>1, <1>2, <1>5, <2>1, <2>2 DEF CallsOK
  <1>9. Recorded(m, n + 1)'
    BY <1>1, <1>2, <1>4, <1>5 DEF Recorded, Locking
  <1>10. ASSUME NEW i \in 1..n PROVE Recorded(m, i)'
    BY <1>1, <1>4, <1>10, IdleRecords DEF Recorded
  <1>11. LocksRecorded(m)'
    <2>1. ASSUME NEW i \in DOMAIN locks' PROVE Recorded(m, i)'
      <3>1. CASE i = n + 1
        BY <1>9, <3>1
      <3>2. CASE i \in 1..n
        BY <1>10, <3>2
      <3>. QED BY <1>6, <3>1, <3>2
    <2>. QED BY <2>1 DEF LocksRecorded
  <1>12. SecretsSeen(m)'
    <2>1. ASSUME NEW i \in DOMAIN locks', locks'[i].spent = "user"
          PROVE  i \in DOMAIN locks /\ locks'[i] = locks[i]
      BY <1>4, <1>6, <2>1
    <2>. QED BY <1>1, <2>1, MasterFacts DEF SecretsSeen, Scanned
  <1>13. RefundsSeen(m)'
    <2>1. lastBch[m] + Depth <= bchHeight + 1 + BchTimeLock
      <3>1. /\ bchHeight \in Nat /\ bchHeight + 1 \in Nat /\ BchTimeLock \in Nat
            /\ bchHeight + 1 > 0
        BY MasterFacts, MasterTypes, TimeTypes
      <3>2. bchHeight + 1 <= bchHeight + 1 + BchTimeLock
        BY <3>1
      <3>. QED BY <3>1, <3>2, NotYetDue
    <2>2. Depth' = Depth /\ BchTimeLock' = BchTimeLock
      BY DEF Depth, BchTimeLock
    <2>3. ASSUME NEW i \in DOMAIN locks', locks'[i].spent = "no"
          PROVE  lastBch[m] + Depth <= RefundAt(i)'
      <3>1. CASE i = n + 1
        BY <1>4, <2>1, <2>2, <3>1 DEF RefundAt
      <3>2. CASE i \in 1..n
        <4>1. lastBch[m] + Depth <= RefundAt(i)
          BY <1>1, <1>4, <2>3, <3>2, MasterFacts DEF RefundsSeen
        <4>. QED BY <1>4, <2>2, <3>2, <4>1 DEF RefundAt
      <3>. QED BY <1>6, <3>1, <3>2
    <2>. QED BY <1>1, <2>2, <2>3 DEF RefundsSeen
  <1>. QED BY <1>7, <1>8, <1>11, <1>12, <1>13 DEF Loop, Seen

\* All of them.
LEMMA MasterSteps ==
  ASSUME NEW m, Master(m), PromptInv(m), Shallow, faults' = 0,
         BotStep(m) \/ Crash(m)
  PROVE  Loop(m)' /\ Seen(m)'
  BY NeverTaken, StartStep, UpdatePricesStep, EndStageStep, HandleBchBlockStep,
    SaveBchHeightStep, ScanSbchSteps, SkipRefundStep, RejectStep,
    UnlockSbchFailsStep, SaveResultStep, CallFailsStep, SendSteps, LockBchStep
  DEF BotStep

-----------------------------------------------------------------------------
(* The slaves' steps.                                                      *)

\* What is known of a slave before a step.
LEMMA SlaveFacts ==
  ASSUME NEW m, Master(m), PromptInv(m), NEW b \in Slaves
  PROVE  /\ b \in Bots /\ b # m /\ ExtraBlocks(b) = 1 /\ Delay(b) = 2
         /\ ReadsOK(b) /\ KnowsOK(b) /\ sbchNow \in Nat /\ bchHeight \in Nat
         /\ mark[b] \in Int /\ pos[b] \in Nat /\ todo[b] \subseteq Swaps
         /\ \A s \in Swaps : /\ Backed(status[b][s], lockTx[b][s], s)
                             /\ revealedAt[b][s] \in Nat
  <1>1. b \in Bots /\ b # m /\ ExtraBlocks(b) = 1 /\ Delay(b) = 2
    BY MasterFacts, BotsAssumption DEF ExtraBlocks, Delay
  <1>. QED
    BY <1>1, MasterFacts, MasterTypes DEF PromptInv, SlavesWatch, RecordsBacked

\* What a slave takes back is not there any more.
LEMMA SlaveTakesNothing ==
  ASSUME NEW m, Master(m), PromptInv(m), NEW b \in Slaves, NEW s \in Swaps,
         RefundBch(b, s)
  PROVE  locks[lockTx[b][s]].spent # "no"
  <1>. DEFINE i == lockTx[b][s]
  <1>1. i \in DOMAIN locks /\ RefundDue(b, s)
    BY RefundBchFacts, SlaveFacts, MasterFacts DEF RefundBch
  <1>2. bchHeight - locks[i].height + 1 > BchTimeLock + 1
    BY <1>1, SlaveFacts DEF RefundDue, TxConfirmations
  <1>3. locks[i].height \in Nat /\ bchHeight \in Nat /\ BchTimeLock \in Nat
    BY <1>1, LockParts, SlaveFacts, MasterFacts, TimeTypes
  <1>4. locks[i].spent = "no" => bchHeight <= locks[i].height + BchTimeLock
    BY <1>1 DEF PromptInv, Deadlines, Deadline, RefundAt
  <1>. QED BY <1>2, <1>3, <1>4

\* A slave unlocks no sBCH: the master has used every secret that is old
\* enough for it.
LEMMA SlaveUnlocksNothing ==
  ASSUME NEW m, Master(m), PromptInv(m), NEW b \in Slaves, NEW s \in Swaps
  PROVE  ~UnlockSbch(b, s)
  <1>1. SUFFICES ASSUME UnlockSbch(b, s) PROVE FALSE
    OBVIOUS
  <1>2. /\ pc[b] = "unlockSbchUserDeposits" /\ s \in todo[b]
        /\ mark[b] - revealedAt[b][s] >= Delay(b) /\ swap[s] = "Locked"
    BY <1>1 DEF UnlockSbch, Handling, CanUnlock
  <1>3. mark[b] <= sbchNow /\ revealedAt[b][s] = sbchNow
    BY <1>2, SlaveFacts DEF ReadsOK, KnowsOK
  <1>. QED BY <1>2, <1>3, SlaveFacts

\* What a bot takes back is taken back by a bot that is not a slave.
LEMMA MasterTakesBack ==
  ASSUME NEW m, Master(m), PromptInv(m), [Next]_vars, NEW i \in DOMAIN locks,
         locks[i].spent = "no", locks'[i].spent = "bot",
         NEW c \in calls' \ calls
  PROVE  c.bot \notin Slaves
  <1>1. ChainsOK /\ IInv
    BY MasterFacts
  <1>2. ~ UNCHANGED locks
    OBVIOUS
  <1>3. ASSUME NEW b \in Bots, NEW s \in Swaps, LockBch(b, s) PROVE FALSE
    <2>1. PICK n \in Nat : n = Len(locks)
      BY <1>1 DEF ChainsOK
    <2>2. i \in 1..n /\ locks' = Append(locks, [swap |-> s,
            height |-> bchHeight + 1, spent |-> "no", spentAt |-> 0])
      BY <1>1, <1>3, <2>1 DEF LockBch, ChainsOK
    <2>3. locks'[i] = locks[i]
      BY <1>1, <2>1, <2>2 DEF ChainsOK
    <2>. QED BY <2>3
  <1>4. ASSUME NEW j \in DOMAIN locks, UserUnlockBch(j) PROVE FALSE
    <2>1. Spend(j, "user")
      BY <1>4 DEF UserUnlockBch
    <2>2. CASE j = i
      BY <1>1, <2>1, <2>2, SpendTimes
    <2>3. CASE j # i
      BY <1>1, <2>1, <2>3, SpendFacts
    <2>. QED BY <2>2, <2>3
  <1>5. PICK b \in Bots, s \in Swaps : RefundBch(b, s)
    BY <1>2, <1>3, <1>4, TimedSteps
    DEF Untimed, UserStep, UserLockSbch, UserRefundSbch, Mine, MineSbchTx,
      TickBch, TickSbch, Tick, chains
  <1>6. c.bot = b
    BY <1>5 DEF RefundBch
  <1>7. b \notin Slaves
    BY <1>2, <1>5, SlaveTakesNothing DEF RefundBch
  <1>. QED BY <1>6, <1>7

\* An output that is spent stays as it is.
LEMMA SpentStays ==
  ASSUME IInv, [Next]_vars, NEW i \in DOMAIN locks, locks[i].spent # "no"
  PROVE  locks'[i] = locks[i]
  <1>1. ChainsOK
    BY DEF IInv, TypeOK
  <1>2. ASSUME NEW j \in DOMAIN locks, NEW who \in {"user", "bot"},
               Spend(j, who), locks[j].spent = "no"
        PROVE  locks'[i] = locks[i]
    BY <1>1, <1>2, SpendFacts
  <1>3. ASSUME NEW b \in Bots, NEW s \in Swaps, LockBch(b, s)
        PROVE  locks'[i] = locks[i]
    BY <1>1, <1>3 DEF LockBch, ChainsOK
  <1>4. ASSUME NEW b \in Bots, NEW s \in Swaps, RefundBch(b, s)
        PROVE  locks'[i] = locks[i]
    BY <1>2, <1>4, RefundBchFacts
  <1>. QED
    BY <1>2, <1>3, <1>4, TimedSteps
    DEF Untimed, UserStep, UserLockSbch, UserRefundSbch, UserUnlockBch, Mine,
      MineSbchTx, TickBch, TickSbch, Tick, chains

\* What a slave has read stays what its table says.
LEMMA ReadsStep ==
  ASSUME NEW m, Master(m), PromptInv(m), faults' = 0, NEW b \in Slaves,
         BotStep(b) \/ Crash(b)
  PROVE  ReadsOK(b)'
  <1>1. /\ b \in Bots /\ TypeOK /\ ReadsOK(b)
        /\ UNCHANGED <<sbchNow, bchHeight>> /\ sbchNow \in Nat
        /\ SafeHeight' = SafeHeight
    BY SlaveFacts, MasterFacts, BotsKeepTime DEF clocks, SafeHeight
  <1>2. ASSUME NEW stage \in Stages, Enter(b, stage), UNCHANGED status
        PROVE  ReadsOK(b)'
    <2>1. /\ pc'[b] = stage /\ todo'[b] = Query(b, stage)
          /\ mark'[b] = Reading(stage)
      BY <1>1, <1>2 DEF Enter, TypeOK, LoopsOK
    <2>2. SafeHeight \in Int
      BY <1>1, SlaveFacts, DepthFacts
    <2>. QED BY <1>1, <1>2, <2>1, <2>2 DEF ReadsOK, Query, Reading
  <1>3. ASSUME NEW stage \in Stages \ {"scanBchBlocks"}, EnterInVain(b, stage)
        PROVE  ReadsOK(b)'
    <2>1. /\ pc'[b] = stage /\ todo'[b] = {}
          /\ mark'[b] = Cursor(b, stage)
      BY <1>1, <1>3 DEF EnterInVain, TypeOK, LoopsOK
    <2>. QED BY <1>1, <1>3, <2>1 DEF ReadsOK, Cursor
  <1>4. CASE UpdatePrices(b) \/ EndStage(b)
    <2>1. UpdatePrices(b) => Enter(b, "scanBchBlocks") /\ UNCHANGED status
      BY <1>1, NoFault DEF UpdatePrices, records
    <2>2. EndStage(b) =>
            /\ UNCHANGED status
            /\ \E stage \in Stages \ {"scanBchBlocks"} :
                 Enter(b, stage) \/ EnterInVain(b, stage)
      BY DEF EndStage, Successor, records
    <2>. QED BY <1>2, <1>3, <1>4, <2>1, <2>2 DEF Stages
  <1>5. ASSUME NEW s \in Swaps, Handled(b, s),
               UNCHANGED status \/ \E st : SetStatus(b, s, st)
        PROVE  ReadsOK(b)'
    <2>1. /\ pc'[b] = pc[b] /\ mark'[b] = mark[b] /\ todo'[b] = todo[b] \ {s}
          /\ todo[b] \subseteq Swaps
      BY <1>1, <1>5 DEF Handled, TypeOK, LoopsOK
    <2>2. \A t \in Swaps : t # s => status'[b][t] = status[b][t]
      BY <1>1, <1>5, OneStatus
    <2>. QED BY <1>1, <2>1, <2>2 DEF ReadsOK
  <1>6. ASSUME UNCHANGED <<pc, todo, mark, status>>
        PROVE  ReadsOK(b)'
    BY <1>1, <1>6 DEF ReadsOK
  <1>7. CASE Start(b) \/ Crash(b) \/ HandleSbchLockEventS2B(b)
    <2>1. pc'[b] \in {"down", "updatePrices", "scanSbchEvents"}
      BY <1>1, <1>7 DEF Start, Crash, HandleSbchLockEventS2B, TypeOK, LoopsOK
    <2>. QED BY <2>1 DEF ReadsOK
  <1>8. CASE HandleBchBlock(b) \/ BchBlockFails(b)
    <2>1. /\ pc[b] = "scanBchBlocks" /\ pc'[b] = "scanBchBlocks"
          /\ mark'[b] \in {mark[b], pos[b]} /\ pos[b] < mark[b]
      BY <1>1, <1>8 DEF HandleBchBlock, BchBlockFails, TypeOK, LoopsOK
    <2>2. mark[b] <= SafeHeight /\ SafeHeight \in Int
      BY <1>1, <2>1, SlaveFacts, DepthFacts DEF ReadsOK
    <2>3. mark'[b] <= SafeHeight'
      BY <1>1, <2>1, <2>2, SlaveFacts
    <2>. QED BY <2>1, <2>3 DEF ReadsOK
  <1>9. CASE SaveBchHeight(b) \/ SaveSbchHeight(b)
    BY <1>6, <1>9 DEF SaveBchHeight, SaveSbchHeight, records, loop
  <1>10. ASSUME NEW s \in Swaps,
                RefundBch(b, s) \/ LockBch(b, s) \/ UnlockSbch(b, s)
         PROVE  ReadsOK(b)'
    BY <1>6, <1>10 DEF RefundBch, LockBch, UnlockSbch, records
  <1>11. ASSUME NEW s \in Swaps,
                \/ SkipRefund(b, s) \/ PriceChanged(b, s)
                \/ TooLateToLockBch(b, s) \/ WaitForOther(b, s)
                \/ UnlockSbchFails(b, s) \/ RpcFails(b, s)
         PROVE  ReadsOK(b)'
    BY <1>5, <1>11
    DEF SkipRefund, PriceChanged, TooLateToLockBch, WaitForOther,
      UnlockSbchFails, RpcFails, CheckUnlocked, records
  <1>12. ASSUME NEW c \in calls, SaveResult(b, c) \/ CallFails(b, c)
         PROVE  ReadsOK(b)'
    <2>1. c.swap \in Swaps
      BY <1>1 DEF TypeOK, LoopsOK, Calls
    <2>2. /\ Handled(b, c.swap)
          /\ UNCHANGED status \/ \E st : SetStatus(b, c.swap, st)
      BY <1>12 DEF SaveResult, CallFails, CheckUnlocked
    <2>. QED BY <1>5, <2>1, <2>2
  <1>. QED
    BY <1>4, <1>7, <1>8, <1>9, <1>10, <1>11, <1>12 DEF BotStep

\* A bot that gets to know a secret has found it in the block at hand.
LEMMA OwnRecord ==
  ASSUME TypeOK, NEW b \in Bots, NEW s \in Swaps, BotStep(b) \/ Crash(b),
         status'[b][s] = "SecretRevealed"
  PROVE  \/ /\ status[b][s] = "SecretRevealed"
            /\ UNCHANGED <<lockTx[b][s], revealedAt[b][s]>>
         \/ /\ pc[b] = "scanBchBlocks" /\ pos[b] < mark[b] /\ UNCHANGED locks
            /\ locks[lockTx'[b][s]].spentAt = pos[b] + 1
            /\ revealedAt'[b][s] = sbchNow
  <1>1. CASE HandleBchBlock(b)
    <2>1. CASE UNCHANGED records
      BY <2>1 DEF records
    <2>2. CASE ~ UNCHANGED records
      <3>1. PICK tx \in [Swaps -> 0..Len(locks)], stray \in 0..Len(locks) :
              LET got == {x \in Swaps : Received(b, pos[b] + 1, x,
                                          LockTxAfter(b, tx, x), stray)} IN
              /\ lockTx' = [lockTx EXCEPT ![b] =
                              [x \in Swaps |-> LockTxAfter(b, tx, x)]]
              /\ status' = [status EXCEPT ![b] = [x \in Swaps |->
                   IF x \in got THEN "SecretRevealed"
                   ELSE IF Follows(b, tx, x) THEN "BchLocked" ELSE @[x]]]
              /\ revealedAt' = [revealedAt EXCEPT ![b] = [x \in Swaps |->
                   IF x \in got THEN sbchNow ELSE @[x]]]
        BY <1>1, <2>2 DEF HandleBchBlock
      <3>. DEFINE got == {x \in Swaps : Received(b, pos[b] + 1, x,
                                          LockTxAfter(b, tx, x), stray)}
      <3>2. /\ lockTx'[b][s] = LockTxAfter(b, tx, s)
            /\ status'[b][s] = IF s \in got THEN "SecretRevealed"
                               ELSE IF Follows(b, tx, s) THEN "BchLocked"
                               ELSE status[b][s]
            /\ revealedAt'[b][s] = IF s \in got THEN sbchNow
                                   ELSE revealedAt[b][s]
        BY <3>1 DEF TypeOK, RecordsOK
      <3>3. s \in got => locks[LockTxAfter(b, tx, s)].spentAt = pos[b] + 1
        BY DEF Received
      <3>4. pc[b] = "scanBchBlocks" /\ pos[b] < mark[b] /\ UNCHANGED locks
        BY <1>1 DEF HandleBchBlock, chains
      <3>. HIDE DEF got
      <3>5. CASE s \in got
        BY <3>2, <3>3, <3>4, <3>5
      <3>6. CASE s \notin got
        BY <3>2, <3>6 DEF LockTxAfter
      <3>. QED BY <3>5, <3>6
    <2>. QED BY <2>1, <2>2
  <1>2. ASSUME NEW t, NEW st, st # "SecretRevealed", SetStatus(b, t, st),
               UNCHANGED revealedAt, t # s => lockTx'[b][s] = lockTx[b][s]
        PROVE  /\ status[b][s] = "SecretRevealed"
               /\ UNCHANGED <<lockTx[b][s], revealedAt[b][s]>>
    BY <1>2 DEF SetStatus, TypeOK, RecordsOK
  <1>3. CASE UNCHANGED <<status, lockTx, revealedAt>>
    BY <1>3
  <1>4. CASE \E c \in calls : SaveResult(b, c) \/ CallFails(b, c)
    <2>1. PICK c \in calls : SaveResult(b, c) \/ CallFails(b, c)
      BY <1>4
    <2>2. c.swap # s => lockTx'[b][s] = lockTx[b][s]
      BY <2>1 DEF SaveResult, CallFails, SetLockTx, TypeOK, RecordsOK
    <2>3. /\ UNCHANGED revealedAt
          /\ \/ UNCHANGED <<status, lockTx>>
             \/ \E st : st # "SecretRevealed" /\ SetStatus(b, c.swap, st)
      BY <2>1 DEF SaveResult, CallFails, CheckUnlocked
    <2>. QED BY <1>2, <1>3, <2>2, <2>3
  <1>5. ASSUME ~HandleBchBlock(b),
               \A c \in calls : ~SaveResult(b, c) /\ ~CallFails(b, c)
        PROVE  /\ UNCHANGED <<lockTx, revealedAt>>
               /\ \/ UNCHANGED status
                  \/ \E t, st : st # "SecretRevealed" /\ SetStatus(b, t, st)
    BY <1>5
    DEF BotStep, Crash, Start, UpdatePrices, EndStage, SaveBchHeight,
      BchBlockFails, HandleSbchLockEventS2B, SaveSbchHeight, SkipRefund,
      RefundBch, PriceChanged, TooLateToLockBch, LockBch, WaitForOther,
      UnlockSbch, UnlockSbchFails, RpcFails, CheckUnlocked, records
  <1>. QED BY <1>1, <1>2, <1>3, <1>4, <1>5

\* What a slave knows of the secrets stays right when it acts.
LEMMA KnowsStep ==
  ASSUME NEW m, Master(m), PromptInv(m), NEW b \in Slaves,
         BotStep(b) \/ Crash(b)
  PROVE  KnowsOK(b)'
  <1>1. /\ IInv /\ TypeOK /\ b \in Bots /\ ReadsOK(b) /\ KnowsOK(b)
        /\ UNCHANGED <<bchHeight, sbchNow, swap>>
        /\ [Next]_vars /\ Depth' = Depth
    BY SlaveFacts, MasterFacts, BotsKeepTime DEF clocks, Next, Depth
  <1>2. ASSUME NEW s \in Swaps, status'[b][s] = "SecretRevealed"
        PROVE  /\ locks'[lockTx'[b][s]].spentAt + Depth <= bchHeight + 1
               /\ swap[s] = "Locked" => revealedAt'[b][s] = sbchNow
    <2>1. CASE /\ status[b][s] = "SecretRevealed"
               /\ UNCHANGED <<lockTx[b][s], revealedAt[b][s]>>
      <3>1. /\ lockTx[b][s] \in DOMAIN locks
            /\ locks[lockTx[b][s]].spent # "no"
        BY <2>1, SlaveFacts DEF Backed
      <3>2. locks'[lockTx[b][s]] = locks[lockTx[b][s]]
        BY <1>1, <3>1, SpentStays
      <3>. QED BY <1>1, <2>1, <3>2 DEF KnowsOK
    <2>2. CASE /\ pc[b] = "scanBchBlocks" /\ pos[b] < mark[b]
               /\ UNCHANGED locks
               /\ locks[lockTx'[b][s]].spentAt = pos[b] + 1
               /\ revealedAt'[b][s] = sbchNow
      <3>1. /\ mark[b] <= SafeHeight /\ SafeHeight = bchHeight - Depth + 1
            /\ Depth \in Nat
        BY <1>1, <2>2, SlaveFacts, DepthFacts DEF ReadsOK
      <3>2. pos[b] + 1 + Depth <= bchHeight + 1
        BY <2>2, <3>1, SlaveFacts
      <3>. QED BY <2>2, <3>2
    <2>. QED BY <1>1, <1>2, <2>1, <2>2, OwnRecord
  <1>. QED BY <1>1, <1>2 DEF KnowsOK

\* Time goes on: every secret that a slave knows has been used.
LEMMA SlavesTick ==
  ASSUME NEW m, Master(m), PromptInv(m), TickBch \/ TickSbch, NEW b \in Slaves
  PROVE  ReadsOK(b)' /\ KnowsOK(b)'
  <1>1. /\ UNCHANGED <<pc, todo, mark, status, lockTx, revealedAt>>
        /\ UNCHANGED <<locks, swap>> /\ MayTick
    BY DEF TickBch, TickSbch, Tick, chains, records, loop
  <1>2. /\ bchHeight \in Nat /\ bchHeight' \in Nat /\ bchHeight' >= bchHeight
        /\ sbchNow \in Nat /\ sbchNow' \in Nat /\ sbchNow' >= sbchNow
        /\ ReadsOK(b) /\ KnowsOK(b) /\ mark[b] \in Int
    BY SlaveFacts DEF TickBch, TickSbch
  <1>3. ReadsOK(b)'
    <2>1. mark[b] <= sbchNow => mark[b] <= sbchNow'
      BY <1>2
    <2>2. mark[b] <= SafeHeight => mark[b] <= SafeHeight'
      BY <1>2, SafeHeightGrows
    <2>. QED BY <1>1, <1>2, <2>1, <2>2 DEF ReadsOK
  <1>4. ASSUME NEW s \in Swaps, status[b][s] = "SecretRevealed"
        PROVE  /\ locks[lockTx[b][s]].spentAt + Depth <= bchHeight' + 1
               /\ swap[s] # "Locked"
    <2>. DEFINE i == lockTx[b][s]
    <2>1. /\ i \in DOMAIN locks /\ locks[i].swap = s
          /\ locks[i].spent = "user"
          /\ locks[i].spentAt + Depth <= bchHeight + 1
      BY <1>2, <1>4, SlaveFacts DEF Backed, KnowsOK
    <2>2. locks[i].spentAt \in Nat /\ Depth \in Nat
      BY <1>2, <2>1, LockParts, MasterFacts, DepthFacts
    <2>3. swap[s] = "Locked" => bchHeight + 1 < locks[i].spentAt + Depth
      BY <1>1, <2>1, TickReady
    <2>. QED BY <1>2, <2>1, <2>2, <2>3
  <1>5. Depth' = Depth
    BY DEF Depth
  <1>. QED BY <1>1, <1>3, <1>4, <1>5 DEF KnowsOK

\* A slave that does not act still knows what it knew.
LEMMA KnowsKept ==
  ASSUME NEW m, Master(m), PromptInv(m), [Next]_vars, ~TickBch, ~TickSbch,
         NEW b \in Slaves, UNCHANGED Locals(b)
  PROVE  ReadsOK(b)' /\ KnowsOK(b)'
  <1>1. /\ UNCHANGED <<pc[b], todo[b], mark[b], status[b], lockTx[b],
                       revealedAt[b]>>
        /\ IInv /\ ChainsOK /\ Depth' = Depth
    BY MasterFacts DEF Locals, Depth
  <1>2. UNCHANGED <<bchHeight, sbchNow>> /\ SafeHeight' = SafeHeight
    BY TimedSteps
    DEF Untimed, RefundBch, LockBch, UserStep, UserLockSbch, UserRefundSbch,
      UserUnlockBch, Mine, MineSbchTx, clocks, SafeHeight
  <1>3. \A s \in Swaps : swap'[s] = "Locked" => swap[s] \in {"Locked", "Invalid"}
    BY <1>1, TimedSteps
    DEF Untimed, RefundBch, LockBch, UserStep, UserLockSbch, UserRefundSbch,
      UserUnlockBch, Mine, MineSbchTx, TickBch, TickSbch, Tick, chains, ChainsOK
  <1>4. ASSUME NEW s \in Swaps, status[b][s] = "SecretRevealed"
        PROVE  /\ locks'[lockTx[b][s]] = locks[lockTx[b][s]]
               /\ swap'[s] = "Locked" => swap[s] = "Locked"
    <2>1. /\ lockTx[b][s] \in DOMAIN locks
          /\ locks[lockTx[b][s]].spent # "no" /\ swap[s] # "Invalid"
      BY <1>4, SlaveFacts DEF Backed
    <2>. QED BY <1>1, <1>3, <2>1, SpentStays
  <1>. QED
    BY <1>1, <1>2, <1>4, SlaveFacts DEF ReadsOK, KnowsOK

\* The slaves go on watching.
LEMMA SlavesWatchStep ==
  ASSUME NEW m, Master(m), PromptInv(m), [Next]_vars, faults' = 0
  PROVE  SlavesWatch'
  <1>1. TypeOK /\ Slaves \subseteq Bots /\ SlavesWatch
    BY MasterFacts, BotsAssumption DEF PromptInv
  <1>2. ASSUME NEW tx \in sbchPool' PROVE tx.bot \notin Slaves
    <2>1. CASE tx \in sbchPool
      BY <1>1, <2>1 DEF SlavesWatch
    <2>2. CASE tx \notin sbchPool
      <3>1. PICK b \in Bots, s \in Swaps : UnlockSbch(b, s)
        <4>1. ASSUME NEW b \in Bots, BotStep(b) \/ Crash(b),
                     \A s \in Swaps : ~UnlockSbch(b, s)
              PROVE  UNCHANGED sbchPool
          BY <4>1
          DEF BotStep, Crash, Start, UpdatePrices, EndStage, HandleBchBlock,
            SaveBchHeight, BchBlockFails, HandleSbchLockEventS2B,
            SaveSbchHeight, SkipRefund, RefundBch, PriceChanged,
            TooLateToLockBch, LockBch, WaitForOther, UnlockSbchFails, RpcFails,
            SaveResult, CallFails, chains
        <4>2. ASSUME UserStep \/ TickBch \/ TickSbch \/ UNCHANGED vars
              PROVE  UNCHANGED sbchPool
          BY <4>2
          DEF UserStep, UserLockSbch, UserRefundSbch, UserUnlockBch, TickBch,
            TickSbch, Tick, chains, vars
        <4>3. Mine => sbchPool' \subseteq sbchPool
          BY DEF Mine, MineSbchTx
        <4>. QED BY <2>2, <4>1, <4>2, <4>3 DEF Next
      <3>2. tx.bot = b
        BY <2>2, <3>1 DEF UnlockSbch
      <3>. QED BY <3>1, <3>2, SlaveUnlocksNothing
    <2>. QED BY <2>1, <2>2
  <1>3. ASSUME NEW b \in Slaves PROVE ReadsOK(b)' /\ KnowsOK(b)'
    <2>1. CASE TickBch \/ TickSbch
      BY <2>1, SlavesTick
    <2>2. CASE BotStep(b) \/ Crash(b)
      BY <2>2, ReadsStep, KnowsStep
    <2>3. CASE ~(TickBch \/ TickSbch) /\ ~(BotStep(b) \/ Crash(b))
      <3>1. CASE \E d \in Bots : BotStep(d) \/ Crash(d)
        BY <1>1, <2>3, <3>1, OthersKept, KnowsKept
      <3>2. CASE UserStep \/ Mine \/ UNCHANGED vars
        <4>1. UNCHANGED Locals(b)
          BY <3>2
          DEF UserStep, UserLockSbch, UserRefundSbch, UserUnlockBch, Mine,
            MineSbchTx, Locals, records, heights, loop, vars
        <4>. QED BY <2>3, <4>1, KnowsKept
      <3>. QED BY <2>3, <3>1, <3>2 DEF Next
    <2>. QED BY <2>1, <2>2, <2>3
  <1>. QED BY <1>2, <1>3 DEF SlavesWatch

-----------------------------------------------------------------------------
\* Nothing has happened yet, and every bot that runs starts an iteration.
LEMMA PromptInvAtFirst ==
  ASSUME NEW m, Master(m), Init
  PROVE  PromptInv(m)
  <1>1. IInv /\ TimedInv /\ m \in Bots
    BY InitIInv, TimesAtFirst DEF TimedInv, Master
  <1>2. /\ locks = <<>> /\ calls = {} /\ sbchPool = {} /\ strayTx[m] = 0
        /\ lastBch[m] = 0 /\ lap[m] = 0 /\ sbchNow = 0
        /\ \A s \in Swaps : revealedAt[m][s] = 0 /\ swap[s] = "Invalid"
        /\ \A b \in Bots : pc[b] \in {"down", "updatePrices"}
    BY <1>1 DEF Init
  <1>3. Loop(m)
    BY <1>1, <1>2 DEF Loop, ScanOK, CaughtUp, CallsOK, WorkOK
  <1>4. Seen(m) /\ Deadlines
    BY <1>2 DEF Seen, LocksRecorded, SecretsSeen, RefundsSeen, Deadlines
  <1>5. SlavesDoNotLock
    BY <1>2, BotsAssumption DEF SlavesDoNotLock
  <1>6. SlavesWatch
    BY <1>2, BotsAssumption DEF Init, SlavesWatch, ReadsOK, KnowsOK
  <1>. QED BY <1>1, <1>3, <1>4, <1>5, <1>6 DEF PromptInv

\* What the master knows stays true in every step without a fault.
LEMMA PromptInvStep ==
  ASSUME NEW m, Master(m), Shallow, PromptInv(m), [Next]_vars, faults' = 0
  PROVE  PromptInv(m)'
  <1>1. TimedInv' /\ SlavesDoNotLock'
    BY IInvStep, TimesStep, SlavesDoNotLockStep, MasterFacts
    DEF PromptInv, TimedInv
  <1>2. Deadlines' /\ SlavesWatch'
    BY DeadlinesMet, SlavesWatchStep
  <1>3. Loop(m)' /\ Seen(m)'
    <2>1. CASE UNCHANGED vars
      <3>1. /\ UNCHANGED <<Locals(m), clocks, swap, locks, calls, sbchPool>>
            /\ lap'[m] = lap[m]
        BY <2>1 DEF vars, Locals, chains, records, heights, loop
      <3>2. SwapsKept /\ LocksKept /\ OwnCallsKept(m)
        BY <3>1 DEF SwapsKept, LocksKept, OwnCallsKept
      <3>. QED BY <3>1, <3>2, LocalsKept, CallsKept DEF Loop, Seen
    <2>2. ASSUME NEW b \in Bots, BotStep(b) \/ Crash(b)
          PROVE  Loop(m)' /\ Seen(m)'
      BY <2>2, SlaveSteps, MasterSteps
    <2>. QED
      BY <2>1, <2>2, UserSteps, MineSteps, TickSteps DEF Next, Mine
  <1>. QED BY <1>1, <1>2, <1>3 DEF PromptInv

\* The count of faults changes in faults only.
LEMMA FaultSteps ==
  ASSUME [Next]_vars
  PROVE  faults' = faults \/ \E kind : Fault(kind)
  <1>1. ASSUME NEW b \in Bots, BotStep(b) \/ Crash(b)
        PROVE  Fine \/ \E kind : Fault(kind)
    <2>1. CASE \E c \in calls : SaveResult(b, c) \/ CallFails(b, c)
      BY <2>1 DEF SaveResult, CallFails
    <2>2. CASE HandleBchBlock(b) \/ HandleSbchLockEventS2B(b)
      BY <2>2 DEF HandleBchBlock, HandleSbchLockEventS2B
    <2>3. CASE \/ Crash(b) \/ Start(b) \/ UpdatePrices(b) \/ EndStage(b)
               \/ SaveBchHeight(b) \/ BchBlockFails(b) \/ SaveSbchHeight(b)
      BY <2>3
      DEF Crash, Start, UpdatePrices, EndStage, SaveBchHeight, BchBlockFails,
        SaveSbchHeight
    <2>4. ASSUME NEW s \in Swaps,
                 \/ SkipRefund(b, s) \/ RefundBch(b, s)
                 \/ PriceChanged(b, s) \/ TooLateToLockBch(b, s)
                 \/ LockBch(b, s) \/ WaitForOther(b, s)
                 \/ UnlockSbch(b, s) \/ UnlockSbchFails(b, s)
                 \/ RpcFails(b, s)
          PROVE  Fine \/ \E kind : Fault(kind)
      BY <2>4
      DEF SkipRefund, RefundBch, PriceChanged, TooLateToLockBch, LockBch,
        WaitForOther, UnlockSbch, UnlockSbchFails, RpcFails
    <2>. QED BY <1>1, <2>1, <2>2, <2>3, <2>4 DEF BotStep
  <1>2. ASSUME UserStep \/ Mine \/ TickBch \/ TickSbch \/ UNCHANGED vars
        PROVE  UNCHANGED faults
    BY <1>2
    DEF UserStep, UserLockSbch, UserRefundSbch, UserUnlockBch, Mine, MineSbchTx,
      TickBch, TickSbch, Tick, vars
  <1>. QED BY <1>1, <1>2 DEF Next, Fine

\* While nothing fails a prompt master acts before every slave: slaves send
\* no transaction to sBCH, and it is not a slave that takes BCH back.
THEOREM MasterIsFirst ==
  ASSUME Calm, Shallow, NEW CONSTANT m \in Bots, Slaves = Bots \ {m}
  PROVE  Spec => MasterActsFirst
  <1>. DEFINE Inv == IInv /\ (faults = 0 => PromptInv(m))
  <1>. Master(m)
    BY DEF Master
  <1>1. Init => Inv
    BY PromptInvAtFirst, InitIInv
  <1>2. ASSUME Inv, [Next]_vars
        PROVE  IInv' /\ (faults' = 0 => PromptInv(m) /\ PromptInv(m)')
    <2>1. IInv'
      BY <1>2, IInvStep
    <2>2. faults' = 0 => faults = 0
      BY <1>2, FaultSteps, NoFault DEF IInv
    <2>. QED BY <1>2, <2>1, <2>2, PromptInvStep
  <1>3. Inv /\ [Next]_vars => Inv'
    BY <1>2
  <1>4. ASSUME Inv, [Next]_vars
        PROVE  [faults' = 0 =>
                  /\ \A tx \in sbchPool' : tx.bot \notin Slaves
                  /\ \A i \in DOMAIN locks :
                       locks[i].spent = "no" /\ locks'[i].spent = "bot" =>
                         \A c \in calls' \ calls : c.bot \notin Slaves]_vars
    <2>1. ASSUME faults' = 0, NEW i \in DOMAIN locks,
                 locks[i].spent = "no", locks'[i].spent = "bot",
                 NEW c \in calls' \ calls
          PROVE  c.bot \notin Slaves
      BY <1>2, <1>4, <2>1, MasterTakesBack
    <2>. QED BY <1>2, <1>4, <2>1 DEF PromptInv, SlavesWatch
  <1>. HIDE DEF Inv
  <1>. QED BY <1>1, <1>3, <1>4, PTL DEF Spec, MasterActsFirst

\* A prompt master that nothing fails does not lose its coins: no user gets
\* the sBCH back after taking the BCH, if the time lock leaves the Margin.
THEOREM BotNeverCheated ==
  ASSUME Calm, FaultFree, Margin, NEW CONSTANT m \in Bots, Slaves = Bots \ {m}
  PROVE  Spec => []BotNotCheated
  <1>. DEFINE Inv == PromptInv(m) /\ BotNotCheated /\ faults = 0
  <1>. Master(m)
    BY DEF Master
  <1>1. Init => Inv
    BY PromptInvAtFirst DEF Init, BotNotCheated, Taken
  <1>2. ASSUME Inv, [Next]_vars PROVE Inv'
    <2>1. \A kind : ~Fault(kind)
      BY <1>2, TimesAssumption DEF FaultFree, Fault
    <2>2. faults' = 0
      BY <1>2, <2>1, FaultSteps
    <2>3. Shallow
      BY <1>2, MarginIsShallow, MasterFacts DEF ChainsOK
    <2>. QED BY <1>2, <2>2, <2>3, PromptInvStep, CoinsKept
  <1>3. Inv => BotNotCheated
    OBVIOUS
  <1>. HIDE DEF Inv
  <1>. QED BY <1>1, <1>2, <1>3, PTL DEF Spec

=============================================================================
