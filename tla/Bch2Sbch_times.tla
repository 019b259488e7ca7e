---------------------------- MODULE Bch2Sbch_times ----------------------------
(***************************************************************************)
(* A prompt master of Bch2Sbch acts before the others and does not lose.   *)
(* With one master, any slaves and time that waits for the bots, the       *)
(* slaves only watch for as long as nothing fails; and no user ends up     *)
(* with both coins if the time lock has room for twice the third of it in  *)
(* which the bot may lock (once on either chain) and twice the drift of    *)
(* the clocks.                                                             *)
(*                                                                         *)
(* The invariant follows the master m through its loop: what is to be      *)
(* refunded when an iteration starts is refunded before it scans, what the *)
(* users have taken by then it sees in that scan, and it uses the secrets  *)
(* in the next iteration.  A slave adds a delay of two units to every      *)
(* time at which it acts, and by then the master has acted.                *)
(***************************************************************************)
EXTENDS Bch2Sbch_proofs

Margin == 2 * (TimeLock \div 3) + 2 * Drift < TimeLock

Calm == Prompt /\ ~LazyMaster

FaultFree == FaultKinds = {} \/ MaxFaults = 0

\* the master of these theorems, the only bot that is not a slave
Master(m) == m \in Bots /\ Slaves = Bots \ {m} /\ Calm

SlavesDoNotLock ==
  \A b \in Slaves : pc[b] = "handleBchUserDeposits" => todo[b] = {}

-----------------------------------------------------------------------------
(* Times.                                                                  *)

ClocksClose ==
  /\ 2 * bchHeight <= sbchNow + Drift
  /\ sbchNow <= 2 * bchHeight + Drift

\* the last time at which sBCH may be locked for s
LastLock(s) == 2 * (depositHeight[s] - 1 + TimeLock \div 3) + Drift

SwapsTimed ==
  \A s \in Swaps :
    /\ swap[s] # "Invalid" => swapTime[s] <= sbchNow /\ swapTime[s] <= LastLock(s)
    /\ utxo[s] = "refunded" => TxConfirmations(s) >= TimeLock

\* what is in the pool has been checked at this very time
PoolTimed(m) ==
  \A tx \in sbchPool :
    /\ tx.kind = "lock" => tx.bot = m /\ ~TooLate(tx.swap)
    /\ tx.kind = "refund" => /\ swap[tx.swap] # "Invalid"
                             /\ sbchNow >= swapTime[tx.swap] + SbchTimeLock

\* the contract's time lock is over, the master refunds
Due(s) == sbchNow > swapTime[s] + SbchTimeLock

\* a slave has known the secret of s since before the last tick
KnownTo(b, s) == status[b][s] = "SecretRevealed" /\ revealedAt[b][s] < sbchNow

\* the master has to know what there is to know of s
Late(s) == Due(s) \/ \E b \in Slaves : KnownTo(b, s)

\* somebody still has to act, the user, the master or both
Open(s) == swap[s] = "Locked" \/ (swap[s] = "Unlocked" /\ utxo[s] = "locked")

Deadlines ==
  \A s \in Swaps : Open(s) =>
    /\ sbchNow <= swapTime[s] + SbchTimeLock + 1
    /\ 2 * bchHeight <= swapTime[s] + SbchTimeLock + Drift

-----------------------------------------------------------------------------
(* The master's loop.                                                      *)

UnlockOf(s) == [event |-> "Unlock", swap |-> s]

\* the last event that m has handled
Scanned(m) == IF pc[m] = "scanSbchEvents" THEN pos[m] ELSE lastSbch[m]

RefundsDone(m) ==
  /\ pc[m] = "down" => lap[m] = 0 /\ \A s \in Swaps : swap[s] = "Invalid"
  /\ lap[m] > 0 /\ pc[m] = "refundLockedSbch" =>
       /\ mark[m] = sbchNow
       /\ \A s \in Swaps : Due(s) /\ swap[s] = "Locked" => s \in todo[m]
  /\ \/ lap[m] > 0 /\ pc[m] \notin {"updatePrices", "refundLockedSbch"}
     \/ lap[m] > 1
     => \A s \in Swaps : Due(s) => swap[s] # "Locked"

SecretsUsed(m) ==
  \A s \in Swaps : Late(s) /\ swap[s] = "Unlocked" =>
    /\ lap[m] > 0 /\ pc[m] = "scanSbchEvents" =>
         \E i \in 1..mark[m] : sbchLog[i] = UnlockOf(s)
    /\ lap[m] > 1 => status[m][s] \in {"SecretRevealed", "BchUnlocked"}
    /\ lap[m] > 1 /\ pc[m] = "unlockBchUserDeposits" =>
         s \in todo[m] \/ utxo[s] # "locked"
    /\ lap[m] > 2 \/ (lap[m] > 1 /\ pc[m] = "scanSbchEvents") =>
         utxo[s] # "locked"

CallsOK(m) ==
  /\ \A c, d \in calls : c.bot = m /\ d.bot = m => c = d
  /\ \A c \in calls : c.bot = m =>
       /\ c.swap \in todo[m]
       /\ c.kind = "lock" => /\ pc[m] = "handleBchUserDeposits"
                             /\ status[m][c.swap] = "New"
                             /\ c.res \in {"pending", "ok"}
                             /\ c.res = "pending" => swap[c.swap] = "Invalid"
       /\ c.kind = "refund" => /\ pc[m] = "refundLockedSbch"
                               /\ c.res = "reverted" => swap[c.swap] # "Locked"
       /\ c.kind = "unlock" => /\ pc[m] = "unlockBchUserDeposits"
                               /\ c.res = "ok"
  /\ \A tx \in sbchPool : tx.bot = m =>
       \E c \in calls : /\ c.bot = m /\ c.kind = tx.kind
                        /\ c.swap = tx.swap /\ c.res = "pending"

WorkOK(m) ==
  /\ pc[m] = "handleBchUserDeposits" =>
       \A s \in todo[m] : status[m][s] = "New"
  /\ pc[m] = "refundLockedSbch" =>
       \A s \in todo[m] : status[m][s] = "SbchLocked"
  /\ pc[m] = "unlockBchUserDeposits" =>
       \A s \in Swaps : revealedAt[m][s] <= mark[m]
  /\ \A s \in Swaps : revealedAt[m][s] <= sbchNow
  /\ pc[m] = "scanSbchEvents" => pos[m] <= Len(sbchLog)

\* m knows each swap in the contract, or is about to save it
Locking(m, s) ==
  \E c \in calls : c.bot = m /\ c.kind = "lock" /\ c.swap = s /\ c.res = "ok"

Recorded(m, s) ==
  \/ /\ status[m][s] \in {"SbchLocked", "SecretRevealed", "BchUnlocked"}
     /\ lockTime[m][s] = swapTime[s]
  \/ status[m][s] = "New" /\ Locking(m, s)

SwapsRecorded(m) ==
  \A s \in Swaps : swap[s] \in {"Locked", "Unlocked"} => Recorded(m, s)

SecretsSeen(m) ==
  /\ \A s \in Swaps : swap[s] = "Unlocked" =>
       \E i \in 1..Len(sbchLog) : sbchLog[i] = UnlockOf(s)
  /\ \A i \in 1..Len(sbchLog) :
       sbchLog[i].event = "Unlock" /\ i <= Scanned(m) =>
         status[m][sbchLog[i].swap] \in {"SecretRevealed", "BchUnlocked"}

-----------------------------------------------------------------------------
(* The slaves.                                                             *)

\* what slave b has read is what its table says, and no newer than now
ReadsOK(b) ==
  /\ pc[b] = "refundLockedSbch" =>
       mark[b] <= sbchNow /\ \A s \in todo[b] : status[b][s] = "SbchLocked"
  /\ pc[b] = "unlockBchUserDeposits" =>
       mark[b] <= sbchNow /\ \A s \in todo[b] : status[b][s] = "SecretRevealed"

\* a secret that it has known for two ticks has been used
KnowsOK(b) ==
  \A s \in Swaps :
    /\ status[b][s] = "SbchLocked" => lockTime[b][s] = swapTime[s]
    /\ status[b][s] = "SecretRevealed" /\ revealedAt[b][s] + 1 < sbchNow =>
         utxo[s] # "locked"

SlavesWatch ==
  /\ \A tx \in sbchPool : tx.bot \notin Slaves
  /\ \A b \in Slaves : ReadsOK(b) /\ KnowsOK(b)

-----------------------------------------------------------------------------
Times(m) == ClocksClose /\ SwapsTimed /\ PoolTimed(m)

Loop(m) == RefundsDone(m) /\ SecretsUsed(m) /\ CallsOK(m) /\ WorkOK(m)

Seen(m) == SwapsRecorded(m) /\ SecretsSeen(m)

PromptInv(m) ==
  /\ IInv /\ SlavesDoNotLock /\ Times(m) /\ Loop(m) /\ Seen(m)
  /\ Deadlines /\ SlavesWatch

-----------------------------------------------------------------------------
(* Facts about the parts.                                                  *)

\* The constants that are times.
LEMMA TimeTypes ==
  /\ TimeLock \in Nat /\ TimeLock \div 3 \in Nat /\ SbchTimeLock = TimeLock
  /\ Drift \in Nat /\ Confirmations \in Nat
  BY TimesAssumption DEF SbchTimeLock

\* The times of the chains.
LEMMA ChainTypes ==
  ASSUME TypeOK, NEW s \in Swaps
  PROVE  /\ bchHeight \in Nat /\ sbchNow \in Nat /\ depositHeight[s] \in Nat
         /\ swapTime[s] \in Nat
         /\ swap[s] \in {"Invalid", "Locked", "Unlocked", "Refunded"}
         /\ utxo[s] \in {"none", "locked", "unlocked", "refunded"}
  BY DEF TypeOK, ChainsOK

\* The types of what the master keeps.
LEMMA MasterTypes ==
  ASSUME TypeOK, NEW m \in Bots
  PROVE  /\ mark[m] \in Int /\ pos[m] \in Nat /\ lastSbch[m] \in Nat
         /\ lap[m] \in 0..3 /\ pc[m] \in Stages /\ todo[m] \subseteq Swaps
         /\ status[m] \in [Swaps -> Statuses]
         /\ lockTime[m] \in [Swaps -> Nat] /\ revealedAt[m] \in [Swaps -> Nat]
         /\ bchHeight \in Nat /\ sbchNow \in Nat
  BY DEF TypeOK, ChainsOK, RecordsOK, LoopsOK

\* Nothing fails.
LEMMA NoFault ==
  ASSUME TypeOK, faults' = 0, NEW kind
  PROVE  ~Fault(kind)
  BY DEF Fault, TypeOK, LoopsOK

\* What is known of the master before a step.
LEMMA MasterFacts ==
  ASSUME NEW m, Master(m), PromptInv(m)
  PROVE  /\ IInv /\ TypeOK /\ ChainsOK /\ SwapsBacked /\ LogBacked
         /\ PoolBacked /\ CallsBacked /\ LogRead /\ RecordsBacked
         /\ m \in Bots /\ m \notin Slaves /\ SlavesDoNotLock
         /\ ClocksClose /\ SwapsTimed /\ PoolTimed(m)
         /\ RefundsDone(m) /\ SecretsUsed(m) /\ CallsOK(m) /\ WorkOK(m)
         /\ SwapsRecorded(m) /\ SecretsSeen(m)
         /\ Deadlines /\ SlavesWatch /\ Delay(m) = 0 /\ Prompt /\ Calm
  BY DEF PromptInv, IInv, TypeOK, Times, Loop, Seen, Master, Calm, Delay

\* When time goes on, the master has refunded what was due and has used
\* what it could know of.
LEMMA TickReady ==
  ASSUME NEW m, Master(m), PromptInv(m), MayTick, NEW s \in Swaps, Open(s)
  PROVE  ~Late(s)
  <1>1. lap[m] = 3 \/ \A t \in Swaps : swap[t] = "Invalid"
    BY MasterFacts DEF MayTick, RefundsDone
  <1>2. lap[m] = 3
    BY <1>1 DEF Open
  <1>3. swap[s] = "Locked" => ~Due(s)
    BY <1>2, MasterFacts DEF RefundsDone
  <1>4. swap[s] = "Locked" => \A b \in Slaves : ~KnownTo(b, s)
    BY BotsAssumption, MasterFacts DEF KnownTo, RecordsBacked, Backed
  <1>5. ~(Late(s) /\ swap[s] = "Unlocked" /\ utxo[s] = "locked")
    BY <1>2, MasterFacts DEF SecretsUsed
  <1>. QED BY <1>3, <1>4, <1>5 DEF Late, Open

\* A swap that is open is within the user's time lock.
LEMMA OpenIsEarly ==
  ASSUME Margin, NEW m, Master(m), PromptInv(m), NEW s \in Swaps, Open(s)
  PROVE  TxConfirmations(s) < TimeLock /\ utxo[s] \in {"locked", "unlocked"}
  <1>1. /\ bchHeight \in Nat /\ depositHeight[s] \in Nat /\ swapTime[s] \in Nat
        /\ utxo[s] \in {"none", "locked", "unlocked", "refunded"}
    BY ChainTypes, MasterFacts
  <1>2. swap[s] # "Invalid"
    BY DEF Open
  <1>3. 2 * bchHeight <= swapTime[s] + TimeLock + Drift
    BY TimeTypes, MasterFacts DEF Deadlines
  <1>4. swapTime[s] <= 2 * (depositHeight[s] - 1 + TimeLock \div 3) + Drift
    BY <1>2, MasterFacts DEF SwapsTimed, LastLock
  <1>5. TxConfirmations(s) < TimeLock
    BY <1>1, <1>3, <1>4, TimeTypes DEF TxConfirmations, Margin
  <1>6. TxConfirmations(s) \in Int
    BY <1>1 DEF TxConfirmations
  <1>7. utxo[s] # "refunded"
    BY <1>5, <1>6, TimeTypes, MasterFacts DEF SwapsTimed
  <1>. QED BY <1>1, <1>2, <1>5, <1>7, MasterFacts DEF SwapsBacked

-----------------------------------------------------------------------------
(* The chains in one step.                                                 *)

\* The chains change in these steps only.
Untimed ==
  UNCHANGED <<clocks, utxo, depositHeight, swap, swapTime, sbchPool, sbchLog>>

\* Which steps change a clock, a swap, an output or the pool.
LEMMA TimedSteps ==
  ASSUME [Next]_vars
  PROVE  \/ Untimed
         \/ \E b \in Bots, s \in Swaps :
              RefundSbch(b, s) \/ LockSbch(b, s) \/ UnlockBch(b, s)
         \/ \E s \in Swaps : UserStep(s)
         \/ Mine \/ TickBch \/ TickSbch
  <1>. USE DEF Untimed, chains, vars
  <1>1. ASSUME NEW b \in Bots, BotStep(b) \/ Crash(b)
        PROVE  \/ Untimed
               \/ \E s \in Swaps :
                    RefundSbch(b, s) \/ LockSbch(b, s) \/ UnlockBch(b, s)
    BY <1>1
    DEF BotStep, Crash, Start, UpdatePrices, EndStage, HandleBchBlock,
      SaveBchHeight, BchBlockFails, HandleSbchLockEventB2S,
      HandleSbchUnlockEvent, SaveSbchHeight, NextLogHandled, SkipRefund,
      RefundSbchFails, PriceChanged, TooLateToLockSbch, LockSbchFails,
      WaitForOther, RpcFails, SaveResult, CallFails
  <1>. QED BY <1>1 DEF Next

\* Only the master locks.
LEMMA MasterLocks ==
  ASSUME NEW m, Master(m), PromptInv(m), NEW b \in Bots, NEW s \in Swaps,
         LockSbch(b, s)
  PROVE  b = m
  BY MasterFacts DEF LockSbch, Handling, SlavesDoNotLock, Master

\* What each step does to the contract and the outputs, while time stands
\* still.
Moved(s) ==
  /\ Kept(s)
  /\ \/ UNCHANGED <<swap[s], swapTime[s]>>
     \/ swap[s] = "Invalid" /\ swap'[s] = "Locked" /\ swapTime'[s] = sbchNow
     \/ /\ swap[s] = "Locked" /\ swap'[s] \in {"Unlocked", "Refunded"}
        /\ UNCHANGED swapTime[s]
  /\ swap[s] # "Invalid" => UNCHANGED depositHeight[s]

\* Every step but the clocks' moves the swaps this way.
LEMMA SwapsMove ==
  ASSUME IInv, [Next]_vars, ~TickBch, ~TickSbch, NEW s \in Swaps
  PROVE  Moved(s)
  <1>1. ChainsOK /\ SwapsBacked
    BY DEF IInv, TypeOK
  <1>. USE DEF Moved, Kept, ChainsOK
  <1>2. CASE Untimed
    BY <1>2 DEF Untimed
  <1>3. ASSUME NEW b \in Bots, NEW t \in Swaps,
               RefundSbch(b, t) \/ LockSbch(b, t) \/ UnlockBch(b, t)
        PROVE  Moved(s)
    BY <1>1, <1>3 DEF RefundSbch, LockSbch, SendTx, UnlockBch
  <1>4. ASSUME NEW t \in Swaps, UserStep(t) PROVE Moved(s)
    BY <1>1, <1>4
    DEF UserStep, UserLockBch, UserUnlockSbch, UserRefundBch, SwapsBacked
  <1>5. ASSUME NEW tx \in sbchPool, MineSbchTx(tx) PROVE Moved(s)
    <2>1. tx.swap \in Swaps
      BY <1>1 DEF SbchTxs
    <2>. QED
      BY <1>1, <1>5, <2>1
      DEF MineSbchTx, MineLock, MineRefund, MineReverted, Accepts
  <1>. QED BY <1>2, <1>3, <1>4, <1>5, TimedSteps DEF Mine

\* What a bot sends it has checked at this very time; the others' steps do
\* not change what has been checked.
LEMMA PoolStep ==
  ASSUME NEW m, Master(m), PromptInv(m), [Next]_vars, ~TickBch, ~TickSbch
  PROVE  PoolTimed(m)'
  <1>1. /\ IInv /\ ChainsOK /\ PoolTimed(m) /\ PoolBacked /\ SwapsBacked
    BY MasterFacts
  <1>2. ASSUME NEW tx \in sbchPool', tx \in sbchPool,
               UNCHANGED <<bchHeight, sbchNow, depositHeight[tx.swap]>>
        PROVE  /\ tx.kind = "lock" => tx.bot = m /\ ~TooLate(tx.swap)'
               /\ tx.kind = "refund" =>
                    /\ swap'[tx.swap] # "Invalid"
                    /\ sbchNow' >= swapTime'[tx.swap] + SbchTimeLock'
    <2>1. tx.swap \in Swaps /\ Moved(tx.swap)
      BY <1>1, <1>2, SwapsMove DEF ChainsOK, SbchTxs
    <2>2. SbchTimeLock' = SbchTimeLock
      BY DEF SbchTimeLock
    <2>. QED
      BY <1>1, <1>2, <2>1, <2>2
      DEF PoolTimed, Moved, Kept, TooLate, TxConfirmations
  <1>3. CASE Untimed
    BY <1>2, <1>3 DEF Untimed, clocks, PoolTimed
  <1>4. ASSUME NEW s \in Swaps, UserStep(s) PROVE PoolTimed(m)'
    <2>1. UNCHANGED <<bchHeight, sbchNow, sbchPool>>
      BY <1>4 DEF UserStep, UserLockBch, UserUnlockSbch, UserRefundBch, clocks
    <2>2. ASSUME NEW tx \in sbchPool PROVE UNCHANGED depositHeight[tx.swap]
      <3>1. tx.swap \in Swaps /\ utxo[tx.swap] # "none"
        BY <1>1 DEF ChainsOK, SbchTxs, PoolBacked
      <3>. QED
        BY <1>1, <1>4, <3>1
        DEF UserStep, UserLockBch, UserUnlockSbch, UserRefundBch, ChainsOK
    <2>. QED BY <1>2, <2>1, <2>2 DEF PoolTimed
  <1>5. CASE Mine
    <2>1. PICK tx \in sbchPool : MineSbchTx(tx)
      BY <1>5 DEF Mine
    <2>2. /\ UNCHANGED <<bchHeight, sbchNow, depositHeight>>
          /\ sbchPool' \subseteq sbchPool
      BY <2>1 DEF MineSbchTx, clocks
    <2>. QED BY <1>2, <2>2 DEF PoolTimed
  <1>6. ASSUME NEW b \in Bots, NEW s \in Swaps,
               RefundSbch(b, s) \/ LockSbch(b, s) \/ UnlockBch(b, s)
        PROVE  PoolTimed(m)'
    <2>1. UNCHANGED <<bchHeight, sbchNow, depositHeight, swap, swapTime>>
      BY <1>6 DEF RefundSbch, LockSbch, SendTx, UnlockBch, clocks
    <2>2. ASSUME NEW tx \in sbchPool', tx \notin sbchPool
          PROVE  /\ tx.kind = "lock" => tx.bot = m /\ ~TooLate(tx.swap)
                 /\ tx.kind = "refund" =>
                      /\ swap[tx.swap] # "Invalid"
                      /\ sbchNow >= swapTime[tx.swap] + SbchTimeLock
      <3>1. CASE LockSbch(b, s)
        <4>1. tx.kind = "lock" /\ tx.bot = b /\ tx.swap = s
          BY <2>2, <3>1 DEF LockSbch, SendTx
        <4>. QED BY <3>1, <4>1, MasterLocks DEF LockSbch
      <3>2. CASE RefundSbch(b, s)
        <4>1. tx.kind = "refund" /\ tx.swap = s
          BY <2>2, <3>2 DEF RefundSbch, SendTx
        <4>. QED
          BY <3>2, <4>1 DEF RefundSbch, SendTx, CanSend, Accepts
      <3>3. CASE UnlockBch(b, s)
        BY <2>2, <3>3 DEF UnlockBch
      <3>. QED BY <1>6, <3>1, <3>2, <3>3
    <2>3. ASSUME NEW tx \in sbchPool' PROVE TooLate(tx.swap)' = TooLate(tx.swap)
      BY <2>1 DEF TooLate, TxConfirmations
    <2>4. SbchTimeLock' = SbchTimeLock
      BY DEF SbchTimeLock
    <2>. QED BY <1>2, <2>1, <2>2, <2>3, <2>4 DEF PoolTimed
  <1>. QED BY <1>3, <1>4, <1>5, <1>6, TimedSteps

\* sBCH is locked before the time to lock is over, and BCH is taken back
\* after its time lock.
LEMMA SwapsTimedStep ==
  ASSUME NEW m, Master(m), PromptInv(m), [Next]_vars, ~TickBch, ~TickSbch
  PROVE  ClocksClose' /\ SwapsTimed'
  <1>1. /\ IInv /\ TypeOK /\ ChainsOK /\ ClocksClose /\ SwapsTimed
        /\ PoolTimed(m) /\ SwapsBacked /\ PoolBacked
    BY MasterFacts
  <1>2. UNCHANGED <<bchHeight, sbchNow>>
    BY TimedSteps
    DEF Untimed, RefundSbch, LockSbch, SendTx, UnlockBch, UserStep,
      UserLockBch, UserUnlockSbch, UserRefundBch, Mine, MineSbchTx, clocks
  <1>3. ASSUME NEW s \in Swaps
        PROVE  /\ swap'[s] # "Invalid" =>
                    swapTime'[s] <= sbchNow /\ swapTime'[s] <= LastLock(s)'
               /\ utxo'[s] = "refunded" => TxConfirmations(s)' >= TimeLock
    <2>1. Moved(s)
      BY <1>1, <1>3, SwapsMove
    <2>2. CASE UNCHANGED depositHeight[s] /\
               ~(swap[s] = "Invalid" /\ swap'[s] = "Locked")
      <3>1. LastLock(s)' = LastLock(s) /\ TxConfirmations(s)' = TxConfirmations(s)
        BY <1>2, <2>2 DEF LastLock, TxConfirmations
      <3>2. swap'[s] # "Invalid" =>
              swapTime'[s] <= sbchNow /\ swapTime'[s] <= LastLock(s)
        BY <1>1, <2>1, <2>2 DEF Moved, SwapsTimed
      <3>3. ASSUME utxo'[s] = "refunded", utxo[s] # "refunded"
            PROVE  TxConfirmations(s) >= TimeLock
        <4>1. UserRefundBch(s)
          BY <1>1, <3>3, TimedSteps
          DEF Untimed, RefundSbch, LockSbch, SendTx, UnlockBch, UserStep,
            UserLockBch, UserUnlockSbch, UserRefundBch, Mine, MineSbchTx,
            ChainsOK
        <4>. QED BY <4>1 DEF UserRefundBch
      <3>. QED BY <1>1, <3>1, <3>2, <3>3 DEF SwapsTimed
    <2>3. CASE swap[s] = "Invalid" /\ swap'[s] = "Locked"
      <3>1. PICK tx \in sbchPool : MineSbchTx(tx) /\ MineLock(tx) /\ tx.swap = s
        <4>1. PICK tx \in sbchPool : MineSbchTx(tx)
          BY <1>1, <2>3, TimedSteps
          DEF Untimed, RefundSbch, LockSbch, SendTx, UnlockBch, UserStep,
            UserLockBch, UserUnlockSbch, UserRefundBch, Mine, ChainsOK
        <4>2. MineLock(tx) /\ tx.swap = s
          BY <1>1, <2>3, <4>1
          DEF MineSbchTx, MineLock, MineRefund, MineReverted, ChainsOK
        <4>. QED BY <4>1, <4>2
      <3>2. ~TooLate(s) /\ swapTime'[s] = sbchNow
            /\ UNCHANGED <<utxo, depositHeight>>
        BY <1>1, <3>1 DEF MineLock, MineSbchTx, PoolTimed, ChainsOK
      <3>3. /\ bchHeight \in Nat /\ sbchNow \in Nat /\ depositHeight[s] \in Nat
            /\ sbchNow <= 2 * bchHeight + Drift
        BY <1>1, ChainTypes DEF ClocksClose
      <3>4. bchHeight <= depositHeight[s] - 1 + TimeLock \div 3
        BY <3>2, <3>3, TimeTypes DEF TooLate, TxConfirmations
      <3>5. sbchNow <= LastLock(s)
        BY <3>3, <3>4, TimeTypes DEF LastLock
      <3>6. LastLock(s)' = LastLock(s) /\ TxConfirmations(s)' = TxConfirmations(s)
        BY <1>2, <3>2 DEF LastLock, TxConfirmations
      <3>. QED BY <1>1, <3>2, <3>3, <3>5, <3>6 DEF SwapsTimed
    <2>4. CASE ~ UNCHANGED depositHeight[s]
      <3>1. swap[s] = "Invalid" /\ \E p \in Prices : UserLockBch(s, p)
        BY <1>1, <2>4, TimedSteps
        DEF Untimed, RefundSbch, LockSbch, SendTx, UnlockBch, UserStep,
          UserLockBch, UserUnlockSbch, UserRefundBch, Mine, MineSbchTx,
          ChainsOK, SwapsBacked
      <3>2. swap'[s] = "Invalid" /\ utxo'[s] = "locked"
        BY <1>1, <3>1 DEF UserLockBch, ChainsOK
      <3>. QED BY <3>2
    <2>. QED BY <2>2, <2>3, <2>4
  <1>. QED BY <1>1, <1>2, <1>3 DEF ClocksClose, SwapsTimed

\* Time goes on when the pool is empty.
LEMMA TickTimes ==
  ASSUME NEW m, Master(m), PromptInv(m), TickBch \/ TickSbch
  PROVE  Times(m)'
  <1>1. /\ TypeOK /\ ClocksClose /\ SwapsTimed /\ sbchPool = {}
        /\ UNCHANGED <<utxo, depositHeight, swap, swapTime, sbchPool>>
    BY MasterFacts DEF TickBch, TickSbch, Tick, MayTick, chains
  <1>2. /\ bchHeight \in Nat /\ bchHeight' \in Nat /\ bchHeight' >= bchHeight
        /\ sbchNow \in Nat /\ sbchNow' \in Nat /\ sbchNow' >= sbchNow
        /\ ClocksClose'
    BY <1>1, TimeTypes
    DEF TickBch, TickSbch, TypeOK, ChainsOK, ClocksClose
  <1>3. ASSUME NEW s \in Swaps
        PROVE  /\ swap[s] # "Invalid" =>
                    swapTime[s] <= sbchNow' /\ swapTime[s] <= LastLock(s)
               /\ utxo[s] = "refunded" => TxConfirmations(s)' >= TimeLock
               /\ LastLock(s)' = LastLock(s)
    <2>1. swapTime[s] \in Nat /\ depositHeight[s] \in Nat
      BY <1>1, ChainTypes
    <2>2. LastLock(s)' = LastLock(s)
      BY <1>1 DEF LastLock
    <2>3. utxo[s] = "refunded" => TxConfirmations(s)' >= TimeLock
      <3>1. PICK h \in Nat : h = bchHeight' /\ h >= bchHeight
        BY <1>2
      <3>2. TxConfirmations(s)' = h - depositHeight[s] + 1
        BY <1>1, <3>1 DEF TxConfirmations
      <3>3. utxo[s] = "refunded" => bchHeight - depositHeight[s] + 1 >= TimeLock
        BY <1>1 DEF SwapsTimed, TxConfirmations
      <3>. QED BY <1>2, <2>1, <3>1, <3>2, <3>3, TimeTypes
    <2>4. swap[s] # "Invalid" =>
            swapTime[s] <= sbchNow' /\ swapTime[s] <= LastLock(s)
      BY <1>1, <1>2, <2>1 DEF SwapsTimed
    <2>. QED BY <2>2, <2>3, <2>4
  <1>4. SwapsTimed'
    BY <1>1, <1>3 DEF SwapsTimed
  <1>. QED BY <1>1, <1>2, <1>4 DEF Times, PoolTimed

\* The times of the swaps and of the pool stay right.
LEMMA TimesStep ==
  ASSUME NEW m, Master(m), PromptInv(m), [Next]_vars
  PROVE  Times(m)'
  BY PoolStep, SwapsTimedStep, TickTimes DEF Times

\* The deadlines are met in every step.
LEMMA DeadlinesMet ==
  ASSUME NEW m, Master(m), PromptInv(m), [Next]_vars
  PROVE  Deadlines'
  <1>1. /\ IInv /\ TypeOK /\ ChainsOK /\ ClocksClose /\ Deadlines
        /\ SwapsBacked
        /\ bchHeight \in Nat /\ sbchNow \in Nat
    BY MasterFacts DEF ChainsOK
  <1>2. CASE TickBch \/ TickSbch
    <2>1. UNCHANGED <<utxo, swap, swapTime>> /\ MayTick
      BY <1>2 DEF TickBch, TickSbch, Tick, chains
    <2>2. ASSUME NEW s \in Swaps, Open(s)'
          PROVE  /\ sbchNow' <= swapTime'[s] + SbchTimeLock' + 1
                 /\ 2 * bchHeight' <= swapTime'[s] + SbchTimeLock' + Drift
      <3>1. Open(s) /\ SbchTimeLock' = TimeLock /\ swapTime[s] \in Nat
        BY <1>1, <2>1, <2>2, ChainTypes DEF Open, SbchTimeLock
      <3>2. /\ sbchNow <= swapTime[s] + TimeLock
            /\ 2 * bchHeight <= swapTime[s] + TimeLock + Drift
        BY <1>1, <2>1, <3>1, TickReady, TimeTypes DEF Late, Due, Deadlines
      <3>3. CASE TickSbch
        BY <1>1, <2>1, <3>1, <3>2, <3>3, TimeTypes DEF TickSbch
      <3>4. CASE TickBch
        BY <1>1, <2>1, <3>1, <3>2, <3>4, TimeTypes DEF TickBch
      <3>. QED BY <1>2, <3>3, <3>4
    <2>. QED BY <2>2 DEF Deadlines
  <1>3. CASE ~TickBch /\ ~TickSbch
    <2>1. UNCHANGED <<bchHeight, sbchNow>>
      BY <1>3, TimedSteps
      DEF Untimed, RefundSbch, LockSbch, SendTx, UnlockBch, UserStep,
        UserLockBch, UserUnlockSbch, UserRefundBch, Mine, MineSbchTx, clocks
    <2>2. ASSUME NEW s \in Swaps PROVE Moved(s)
      BY <1>1, <1>3, <2>2, SwapsMove
    <2>3. ASSUME NEW s \in Swaps, Open(s)'
          PROVE  /\ sbchNow <= swapTime'[s] + SbchTimeLock + 1
                 /\ 2 * bchHeight <= swapTime'[s] + SbchTimeLock + Drift
      <3>1. CASE swap[s] = "Invalid"
        <4>1. swapTime'[s] = sbchNow
          BY <2>2, <2>3, <3>1 DEF Moved, Open
        <4>. QED BY <1>1, <4>1, TimeTypes DEF ClocksClose
      <3>2. CASE swap[s] # "Invalid"
        <4>1. Open(s) /\ swapTime'[s] = swapTime[s]
          BY <1>1, <2>2, <2>3, <3>2, ChainTypes DEF Moved, Kept, Open, SwapsBacked
        <4>. QED BY <1>1, <4>1 DEF Deadlines
      <3>. QED BY <3>1, <3>2
    <2>4. SbchTimeLock' = SbchTimeLock
      BY DEF SbchTimeLock
    <2>. QED BY <2>1, <2>3, <2>4 DEF Deadlines
  <1>. QED BY <1>2, <1>3

\* The bot keeps its coins in every step, if the Margin is left.
LEMMA CoinsKept ==
  ASSUME Margin, NEW m, Master(m), PromptInv(m), BotNotCheated, [Next]_vars
  PROVE  BotNotCheated'
  <1>1. IInv /\ TypeOK /\ ChainsOK
    BY MasterFacts
  <1>2. CASE TickBch \/ TickSbch
    BY <1>2 DEF TickBch, TickSbch, Tick, chains, BotNotCheated
  <1>3. ASSUME ~TickBch, ~TickSbch,
               NEW s \in Swaps, swap'[s] = "Unlocked", utxo'[s] = "refunded"
        PROVE  FALSE
    <2>1. CASE UserRefundBch(s)
      <3>1. utxo[s] = "locked" /\ swap[s] = "Unlocked"
            /\ TxConfirmations(s) >= TimeLock
        BY <1>3, <2>1 DEF UserRefundBch
      <3>2. TxConfirmations(s) < TimeLock /\ TxConfirmations(s) \in Int
        BY <1>1, <3>1, OpenIsEarly, ChainTypes DEF Open, TxConfirmations
      <3>. QED BY <3>1, <3>2, TimeTypes
    <2>2. CASE ~UserRefundBch(s)
      <3>1. utxo[s] = "refunded"
        BY <1>1, <1>3, <2>2, TimedSteps
        DEF Untimed, RefundSbch, LockSbch, SendTx, UnlockBch, UserStep,
          UserLockBch, UserUnlockSbch, UserRefundBch, Mine, MineSbchTx,
          ChainsOK
      <3>2. Moved(s)
        BY <1>1, <1>3, SwapsMove
      <3>3. swap[s] = "Locked"
        BY <1>1, <1>3, <3>1, <3>2 DEF Moved, BotNotCheated
      <3>. QED BY <3>1, <3>3, OpenIsEarly DEF Open
    <2>. QED BY <2>1, <2>2
  <1>. QED BY <1>2, <1>3 DEF BotNotCheated

\* handleBchUserDeposits returns at once in slave mode.
LEMMA SlavesDoNotLockStep ==
  ASSUME TypeOK, SlavesDoNotLock, [Next]_vars
  PROVE  SlavesDoNotLock'
  <1>1. ASSUME NEW b \in Slaves, pc'[b] = "handleBchUserDeposits"
        PROVE  todo'[b] = {}
    <2>1. b \in Bots /\ (pc[b] = "handleBchUserDeposits" => todo[b] = {})
      BY BotsAssumption DEF SlavesDoNotLock
    <2>2. ASSUME NEW stage \in Stages,
                 Enter(b, stage) \/ EnterInVain(b, stage)
          PROVE  todo'[b] = {}
      <3>1. stage = "handleBchUserDeposits"
        BY <1>1, <2>1, <2>2 DEF Enter, EnterInVain, TypeOK, LoopsOK
      <3>. QED
        BY <2>1, <2>2, <3>1 DEF Enter, EnterInVain, Query, TypeOK, LoopsOK
    <2>3. ASSUME NEW stage \in Stages, NEW b2 \in Bots, b2 # b,
                 Enter(b2, stage) \/ EnterInVain(b2, stage)
          PROVE  pc'[b] = pc[b] /\ todo'[b] = todo[b]
      BY <2>1, <2>3 DEF Enter, EnterInVain, TypeOK, LoopsOK
    <2>4. ASSUME NEW b2 \in Bots, NEW s, Handled(b2, s)
          PROVE  pc'[b] = pc[b] /\ todo'[b] \subseteq todo[b]
      BY <2>1, <2>4 DEF Handled, TypeOK, LoopsOK
    <2>5. CASE UNCHANGED <<pc, todo>>
      BY <1>1, <2>1, <2>5
    <2>6. ASSUME NEW b2 \in Bots, UpdatePrices(b2) \/ EndStage(b2)
          PROVE  todo'[b] = {}
      <3>1. PICK stage \in Stages : Enter(b2, stage) \/ EnterInVain(b2, stage)
        BY <2>6 DEF UpdatePrices, EndStage, Stages
      <3>. QED BY <1>1, <2>1, <2>2, <2>3, <3>1
    <2>7. ASSUME NEW b2 \in Bots, Start(b2) \/ Crash(b2)
          PROVE  todo'[b] = {}
      BY <1>1, <2>1, <2>7 DEF Start, Crash, TypeOK, LoopsOK
    <2>8. ASSUME NEW b2 \in Bots, BotStep(b2), ~Start(b2), ~UpdatePrices(b2),
                 ~EndStage(b2), ~ UNCHANGED <<pc, todo>>
          PROVE  \E s : Handled(b2, s)
      BY <2>8
      DEF BotStep, HandleBchBlock, SaveBchHeight, BchBlockFails,
        HandleSbchLockEventB2S, HandleSbchUnlockEvent, NextLogHandled,
        SaveSbchHeight, SkipRefund, RefundSbch, RefundSbchFails, PriceChanged,
        TooLateToLockSbch, LockSbch, LockSbchFails, SendTx, WaitForOther,
        UnlockBch, RpcFails, SaveResult, CallFails, loop
    <2>9. ASSUME \/ \E s \in Swaps : UserStep(s)
                 \/ Mine \/ TickBch \/ TickSbch \/ UNCHANGED vars
          PROVE  UNCHANGED <<pc, todo>>
      BY <2>9
      DEF UserStep, UserLockBch, UserUnlockSbch, UserRefundBch, Mine,
        MineSbchTx, TickBch, TickSbch, Tick, vars, loop
    <2>. QED
      BY <1>1, <2>1, <2>4, <2>5, <2>6, <2>7, <2>8, <2>9 DEF Next
  <1>. QED BY <1>1 DEF SlavesDoNotLock

-----------------------------------------------------------------------------
(* The steps of the others: what the master carries through its loop stays *)
(* true when slaves, users, miners and the clocks act.                     *)

\* what the master keeps itself, but for its calls
Locals(m) == <<pc[m], todo[m], mark[m], pos[m], status[m], lockTime[m],
               revealedAt[m], lastSbch[m]>>

OwnCallsKept(m) ==
  /\ \A c \in calls' : c.bot = m => c \in calls
  /\ \A c \in calls : c.bot = m => c \in calls'
  /\ \A tx \in sbchPool' : tx.bot = m => tx \in sbchPool

\* the log grows at its end, and has an event for each secret
LogGrows ==
  /\ Len(sbchLog') >= Len(sbchLog)
  /\ \A i \in 1..Len(sbchLog) : sbchLog'[i] = sbchLog[i]
  /\ \A s \in Swaps : swap'[s] = "Unlocked" =>
       \/ swap[s] = "Unlocked"
       \/ Len(sbchLog') > 0 /\ sbchLog'[Len(sbchLog')] = UnlockOf(s)

\* A bot's step moves neither clock, contract nor log.
LEMMA BotsKeepTime ==
  ASSUME NEW b \in Bots, BotStep(b) \/ Crash(b)
  PROVE  UNCHANGED <<clocks, swap, swapTime, depositHeight, sbchLog>>
  BY DEF BotStep, Crash, Start, UpdatePrices, EndStage, HandleBchBlock,
    SaveBchHeight, BchBlockFails, HandleSbchLockEventB2S,
    HandleSbchUnlockEvent, NextLogHandled, SaveSbchHeight, SkipRefund,
    RefundSbch, RefundSbchFails, PriceChanged, TooLateToLockSbch, LockSbch,
    LockSbchFails, SendTx, WaitForOther, UnlockBch, RpcFails, SaveResult,
    CallFails, chains

\* A bot's step leaves what the others keep.
LEMMA OthersKept ==
  ASSUME TypeOK, NEW b \in Bots, NEW d \in Bots, b # d, BotStep(b) \/ Crash(b)
  PROVE  UNCHANGED Locals(d)
  <1>1. UNCHANGED <<pc[d], todo[d], mark[d], pos[d]>>
    BY DEF BotStep, Crash, Start, UpdatePrices, EndStage, HandleBchBlock,
      SaveBchHeight, BchBlockFails, HandleSbchLockEventB2S,
      HandleSbchUnlockEvent, NextLogHandled, SaveSbchHeight, SkipRefund,
      RefundSbch, RefundSbchFails, PriceChanged, TooLateToLockSbch, LockSbch,
      LockSbchFails, SendTx, WaitForOther, UnlockBch, RpcFails, SaveResult,
      CallFails, Enter, EnterInVain, Handled, TypeOK, LoopsOK, loop
  <1>2. UNCHANGED status[d]
    BY DEF BotStep, Crash, Start, UpdatePrices, EndStage, HandleBchBlock,
      SaveBchHeight, BchBlockFails, HandleSbchLockEventB2S,
      HandleSbchUnlockEvent, NextLogHandled, SaveSbchHeight, SkipRefund,
      RefundSbch, RefundSbchFails, PriceChanged, TooLateToLockSbch, LockSbch,
      LockSbchFails, SendTx, WaitForOther, UnlockBch, RpcFails, SaveResult,
      CallFails, SetStatus, CheckRefunded, records, TypeOK, RecordsOK
  <1>3. UNCHANGED <<lockTime[d], revealedAt[d], lastSbch[d]>>
    BY DEF BotStep, Crash, Start, UpdatePrices, EndStage, HandleBchBlock,
      SaveBchHeight, BchBlockFails, HandleSbchLockEventB2S,
      HandleSbchUnlockEvent, NextLogHandled, SaveSbchHeight, SkipRefund,
      RefundSbch, RefundSbchFails, PriceChanged, TooLateToLockSbch, LockSbch,
      LockSbchFails, SendTx, WaitForOther, UnlockBch, RpcFails, SaveResult,
      CallFails, LockTimeOf, records, heights, TypeOK, RecordsOK
  <1>. QED BY <1>1, <1>2, <1>3 DEF Locals

\* What a bot's step may write about a secret: that it is known from now on,
\* or something else.
LEMMA OwnRecord ==
  ASSUME TypeOK, NEW b \in Bots, NEW s \in Swaps, BotStep(b) \/ Crash(b)
  PROVE  \/ UNCHANGED <<status[b][s], revealedAt[b][s]>>
         \/ status'[b][s] # "SecretRevealed"
         \/ revealedAt'[b][s] = sbchNow
  <1>1. CASE HandleSbchUnlockEvent(b)
    <2>. DEFINE t == NextLog(b).swap
    <2>1. \/ UNCHANGED <<status, revealedAt>>
          \/ /\ status' = [status EXCEPT ![b][t] = "SecretRevealed"]
             /\ revealedAt' = [revealedAt EXCEPT ![b][t] = sbchNow]
      BY <1>1 DEF HandleSbchUnlockEvent, SetStatus
    <2>. HIDE DEF t
    <2>. QED BY <2>1 DEF TypeOK, RecordsOK
  <1>2. ASSUME NEW t, NEW st, st # "SecretRevealed", SetStatus(b, t, st)
        PROVE  status'[b][s] = status[b][s] \/ status'[b][s] # "SecretRevealed"
    BY <1>2 DEF SetStatus, TypeOK, RecordsOK
  <1>3. ASSUME ~HandleSbchUnlockEvent(b) PROVE UNCHANGED revealedAt
    BY <1>3
    DEF BotStep, Crash, Start, UpdatePrices, EndStage, HandleBchBlock,
      SaveBchHeight, BchBlockFails, HandleSbchLockEventB2S, SaveSbchHeight,
      SkipRefund, RefundSbch, RefundSbchFails, PriceChanged, TooLateToLockSbch,
      LockSbch, LockSbchFails, SendTx, WaitForOther, UnlockBch, RpcFails,
      SaveResult, CallFails, records
  <1>4. CASE HandleBchBlock(b)
    BY <1>3, <1>4 DEF HandleBchBlock, HandleSbchUnlockEvent, HandlingLog,
      TypeOK, RecordsOK
  <1>5. ASSUME ~HandleSbchUnlockEvent(b), ~HandleBchBlock(b)
        PROVE  \/ UNCHANGED status
               \/ \E t, st : st # "SecretRevealed" /\ SetStatus(b, t, st)
    BY <1>5
    DEF BotStep, Crash, Start, UpdatePrices, EndStage,
      SaveBchHeight, BchBlockFails, HandleSbchLockEventB2S, SaveSbchHeight,
      SkipRefund, RefundSbch, RefundSbchFails, PriceChanged, TooLateToLockSbch,
      LockSbch, LockSbchFails, SendTx, WaitForOther, UnlockBch, RpcFails,
      SaveResult, CallFails, CheckRefunded, records
  <1>. QED BY <1>1, <1>2, <1>3, <1>4, <1>5

\* What the master has to know of a swap while time stands still.
LEMMA LateStep ==
  ASSUME NEW m, Master(m), PromptInv(m), [Next]_vars, ~TickBch, ~TickSbch,
         NEW s \in Swaps, Late(s)'
  PROVE  Due(s)' \/ Late(s)
  <1>1. TypeOK /\ UNCHANGED sbchNow /\ sbchNow \in Nat
    BY TimedSteps, MasterFacts
    DEF Untimed, RefundSbch, LockSbch, SendTx, UnlockBch, UserStep,
      UserLockBch, UserUnlockSbch, UserRefundBch, Mine, MineSbchTx, clocks,
      ChainsOK
  <1>2. SUFFICES ASSUME NEW b \in Slaves, KnownTo(b, s)'
                 PROVE  KnownTo(b, s)
    BY DEF Late
  <1>3. b \in Bots
    BY BotsAssumption
  <1>4. CASE \E d \in Bots : BotStep(d) \/ Crash(d)
    <2>1. PICK d \in Bots : BotStep(d) \/ Crash(d)
      BY <1>4
    <2>2. CASE d = b
      BY <1>1, <1>2, <1>3, <2>1, <2>2, OwnRecord DEF KnownTo
    <2>3. CASE d # b
      BY <1>1, <1>2, <1>3, <2>1, <2>3, OthersKept DEF KnownTo, Locals
    <2>. QED BY <2>2, <2>3
  <1>5. CASE UNCHANGED <<status, revealedAt>>
    BY <1>1, <1>2, <1>5 DEF KnownTo
  <1>. QED
    BY <1>4, <1>5
    DEF Next, UserStep, UserLockBch, UserUnlockSbch, UserRefundBch, Mine,
      MineSbchTx, records, vars

\* The swap of an event.
LEMMA LogParts ==
  ASSUME ChainsOK, NEW i \in 1..Len(sbchLog)
  PROVE  sbchLog[i].swap \in Swaps
  <1>1. sbchLog[i] \in Events
    BY DEF ChainsOK
  <1>. QED BY <1>1 DEF Events

\* The events handled are events of the log.
LEMMA ScannedExists ==
  ASSUME NEW m, Master(m), PromptInv(m)
  PROVE  /\ Scanned(m) \in Nat /\ Scanned(m) <= Len(sbchLog)
         /\ Len(sbchLog) \in Nat
         /\ pc[m] = "scanSbchEvents" => mark[m] <= Len(sbchLog)
  <1>1. Len(sbchLog) \in Nat
    BY MasterFacts DEF ChainsOK
  <1>. QED BY <1>1, MasterFacts, MasterTypes DEF Scanned, WorkOK, LogRead

\* A step that leaves the master where it is.
LEMMA LocalsKept ==
  ASSUME NEW m, Master(m), PromptInv(m), UNCHANGED <<Locals(m), clocks>>,
         lap'[m] = lap[m], LogGrows, ChainsOK',
         \A s \in Swaps : Moved(s) /\ (Late(s)' => Due(s)' \/ Late(s)),
         pc[m] = "down" => UNCHANGED swap
  PROVE  RefundsDone(m)' /\ SecretsUsed(m)' /\ WorkOK(m)' /\ SecretsSeen(m)'
  <1>1. /\ UNCHANGED <<pc[m], todo[m], mark[m], pos[m], status[m], lockTime[m],
                       revealedAt[m], lastSbch[m]>>
        /\ UNCHANGED <<bchHeight, sbchNow>> /\ SbchTimeLock' = SbchTimeLock
        /\ Scanned(m)' = Scanned(m)
    BY DEF Locals, clocks, Scanned, SbchTimeLock
  <1>2. /\ Len(sbchLog') \in Nat /\ Len(sbchLog) \in Nat
        /\ Len(sbchLog') >= Len(sbchLog)
    BY ScannedExists DEF ChainsOK, LogGrows
  <1>3. ASSUME NEW s \in Swaps, Due(s)', swap'[s] = "Locked"
        PROVE  Due(s) /\ swap[s] = "Locked"
    <2>1. /\ sbchNow \in Nat /\ swapTime'[s] # sbchNow
      BY <1>1, <1>3, MasterFacts, ChainTypes, TimeTypes DEF Due
    <2>. QED BY <1>1, <1>3, <2>1 DEF Moved, Due
  <1>4. RefundsDone(m)'
    BY <1>1, <1>3, MasterFacts DEF RefundsDone
  <1>5. ASSUME NEW s \in Swaps, Late(s)', swap'[s] = "Unlocked"
        PROVE  /\ Late(s)
               /\ \/ swap[s] = "Unlocked"
                  \/ swap[s] = "Locked" /\ lap[m] <= 1
                     /\ (lap[m] > 0 => pc[m] # "scanSbchEvents")
    <2>1. Late(s) /\ swap[s] \in {"Locked", "Unlocked"}
      BY <1>1, <1>5 DEF Moved, Late, Due
    <2>2. lap[m] \in 0..3
      BY MasterFacts, MasterTypes
    <2>3. swap[s] = "Locked" => Due(s)
      BY <2>1, BotsAssumption, MasterFacts DEF Late, KnownTo, RecordsBacked, Backed
    <2>. QED BY <2>1, <2>2, <2>3, MasterFacts DEF RefundsDone
  <1>6. SecretsUsed(m)'
    <2>1. ASSUME NEW s \in Swaps, Late(s)', swap'[s] = "Unlocked"
          PROVE  /\ lap[m] > 0 /\ pc[m] = "scanSbchEvents" =>
                      \E i \in 1..mark[m] : sbchLog'[i] = UnlockOf(s)
                 /\ lap[m] > 1 => status[m][s] \in {"SecretRevealed",
                                                    "BchUnlocked"}
                 /\ lap[m] > 1 /\ pc[m] = "unlockBchUserDeposits" =>
                      s \in todo[m] \/ utxo'[s] # "locked"
                 /\ lap[m] > 2 \/ (lap[m] > 1 /\ pc[m] = "scanSbchEvents") =>
                      utxo'[s] # "locked"
      <3>1. CASE swap[s] = "Unlocked"
        <4>1. ASSUME lap[m] > 0, pc[m] = "scanSbchEvents"
              PROVE  \E i \in 1..mark[m] : sbchLog'[i] = UnlockOf(s)
          <5>1. PICK i \in 1..mark[m] : sbchLog[i] = UnlockOf(s)
            BY <1>5, <2>1, <3>1, <4>1, MasterFacts DEF SecretsUsed
          <5>2. i \in 1..Len(sbchLog)
            BY <1>2, <4>1, ScannedExists, MasterFacts, MasterTypes
          <5>. QED BY <5>1, <5>2 DEF LogGrows
        <4>2. utxo'[s] = "locked" => utxo[s] = "locked"
          BY <3>1, MasterFacts, ChainTypes DEF Moved, Kept, SwapsBacked
        <4>. QED
          BY <1>5, <2>1, <3>1, <4>1, <4>2, MasterFacts DEF SecretsUsed
      <3>2. CASE swap[s] # "Unlocked"
        <4>1. lap[m] \in 0..3
          BY MasterFacts, MasterTypes
        <4>. QED BY <1>5, <2>1, <3>2, <4>1
      <3>. QED BY <3>1, <3>2
    <2>. QED BY <1>1, <2>1 DEF SecretsUsed, UnlockOf
  <1>7. WorkOK(m)'
    <2>1. pc[m] = "scanSbchEvents" => pos[m] <= Len(sbchLog')
      BY <1>2, MasterFacts, MasterTypes DEF WorkOK
    <2>. QED BY <1>1, <2>1, MasterFacts DEF WorkOK
  <1>8. SecretsSeen(m)'
    <2>1. ASSUME NEW s \in Swaps, swap'[s] = "Unlocked"
          PROVE  \E i \in 1..Len(sbchLog') : sbchLog'[i] = UnlockOf(s)
      <3>1. CASE swap[s] = "Unlocked"
        <4>1. PICK i \in 1..Len(sbchLog) : sbchLog[i] = UnlockOf(s)
          BY <3>1, MasterFacts DEF SecretsSeen
        <4>2. i \in 1..Len(sbchLog')
          BY <1>2
        <4>. QED BY <4>1, <4>2 DEF LogGrows
      <3>2. CASE swap[s] # "Unlocked"
        BY <1>2, <2>1, <3>2 DEF LogGrows
      <3>. QED BY <3>1, <3>2
    <2>2. ASSUME NEW i \in 1..Len(sbchLog'), sbchLog'[i].event = "Unlock",
                 i <= Scanned(m)
          PROVE  status[m][sbchLog'[i].swap] \in {"SecretRevealed",
                                                  "BchUnlocked"}
      <3>1. i \in 1..Len(sbchLog)
        BY <1>2, <2>2, ScannedExists
      <3>2. sbchLog'[i] = sbchLog[i]
        BY <3>1 DEF LogGrows
      <3>. QED BY <2>2, <3>1, <3>2, MasterFacts DEF SecretsSeen
    <2>. QED BY <1>1, <2>1, <2>2 DEF SecretsSeen, UnlockOf
  <1>. QED BY <1>4, <1>6, <1>7, <1>8

\* A step that leaves the master's calls where they are and locks no sBCH.
LEMMA CallsKept ==
  ASSUME NEW m, Master(m), PromptInv(m), UNCHANGED Locals(m), OwnCallsKept(m),
         \A s \in Swaps : Moved(s) /\ (swap[s] = "Invalid" => UNCHANGED swap[s])
  PROVE  CallsOK(m)' /\ SwapsRecorded(m)'
  <1>1. UNCHANGED <<pc[m], todo[m], status[m], lockTime[m]>>
    BY DEF Locals
  <1>2. \A c \in calls : c.swap \in Swaps
    BY MasterFacts DEF TypeOK, LoopsOK, Calls
  <1>3. ASSUME NEW s \in Swaps
        PROVE  /\ swap[s] = "Invalid" => swap'[s] = "Invalid"
               /\ swap'[s] = "Locked" => swap[s] = "Locked"
               /\ swap'[s] \in {"Locked", "Unlocked"} =>
                    /\ swap[s] \in {"Locked", "Unlocked"}
                    /\ swapTime'[s] = swapTime[s]
    BY <1>3 DEF Moved
  <1>4. CallsOK(m)'
    <2>1. ASSUME NEW c \in calls', c.bot = m
          PROVE  /\ c.swap \in todo'[m]
                 /\ c.kind = "lock" => /\ pc'[m] = "handleBchUserDeposits"
                                       /\ status'[m][c.swap] = "New"
                                       /\ c.res \in {"pending", "ok"}
                                       /\ c.res = "pending" =>
                                            swap'[c.swap] = "Invalid"
                 /\ c.kind = "refund" => /\ pc'[m] = "refundLockedSbch"
                                         /\ c.res = "reverted" =>
                                              swap'[c.swap] # "Locked"
                 /\ c.kind = "unlock" => /\ pc'[m] = "unlockBchUserDeposits"
                                         /\ c.res = "ok"
      <3>1. c \in calls /\ c.swap \in Swaps
        BY <1>2, <2>1 DEF OwnCallsKept
      <3>. QED BY <1>1, <1>3, <2>1, <3>1, MasterFacts DEF CallsOK
    <2>2. ASSUME NEW tx \in sbchPool', tx.bot = m
          PROVE  \E c \in calls' : /\ c.bot = m /\ c.kind = tx.kind
                                   /\ c.swap = tx.swap /\ c.res = "pending"
      BY <2>2, MasterFacts DEF CallsOK, OwnCallsKept
    <2>3. \A c, d \in calls' : c.bot = m /\ d.bot = m => c = d
      BY MasterFacts DEF CallsOK, OwnCallsKept
    <2>. QED BY <2>1, <2>2, <2>3 DEF CallsOK
  <1>5. ASSUME NEW s \in Swaps, swap'[s] \in {"Locked", "Unlocked"}
        PROVE  Recorded(m, s)'
    <2>1. Recorded(m, s) /\ swapTime'[s] = swapTime[s]
      BY <1>3, <1>5, MasterFacts DEF SwapsRecorded
    <2>2. Locking(m, s) => Locking(m, s)'
      BY DEF Locking, OwnCallsKept
    <2>. QED BY <1>1, <2>1, <2>2 DEF Recorded
  <1>. QED BY <1>4, <1>5 DEF SwapsRecorded

\* A step that does not touch the log or the swaps.
LEMMA LogKept ==
  ASSUME ChainsOK, UNCHANGED <<sbchLog, swap>>
  PROVE  LogGrows
  <1>1. PICK n \in Nat : n = Len(sbchLog)
    BY DEF ChainsOK
  <1>2. Len(sbchLog') = n /\ n >= n
    BY <1>1
  <1>3. Len(sbchLog') >= Len(sbchLog)
    BY <1>1, <1>2
  <1>. QED BY <1>3 DEF LogGrows

\* A slave's step.
LEMMA SlaveSteps ==
  ASSUME NEW m, Master(m), PromptInv(m), IInv', NEW b \in Bots, b # m,
         BotStep(b) \/ Crash(b)
  PROVE  Loop(m)' /\ Seen(m)'
  <1>1. /\ TypeOK /\ IInv /\ ChainsOK /\ ChainsOK' /\ m \in Bots
    BY MasterFacts DEF IInv, TypeOK
  <1>2. ASSUME NEW s \in Swaps PROVE ~LockSbch(b, s)
    BY MasterLocks
  <1>3. UNCHANGED <<clocks, swap, swapTime, depositHeight, sbchLog>>
    BY BotsKeepTime
  <1>4. /\ \A s \in Swaps : Moved(s) /\ (Late(s)' => Due(s)' \/ Late(s))
        /\ LogGrows
    <2>1. ~TickBch /\ ~TickSbch
      BY <1>1, <1>3, TimeTypes DEF TickBch, TickSbch, clocks, ChainsOK
    <2>2. [Next]_vars
      BY DEF Next
    <2>. QED BY <1>1, <1>3, <2>1, <2>2, SwapsMove, LateStep, LogKept
  <1>5. UNCHANGED Locals(m)
    BY <1>1, OthersKept
  <1>6. lap'[m] = lap[m]
    BY <1>1
    DEF BotStep, Crash, Start, UpdatePrices, EndStage, HandleBchBlock,
      SaveBchHeight, BchBlockFails, HandleSbchLockEventB2S,
      HandleSbchUnlockEvent, NextLogHandled, SaveSbchHeight, SkipRefund,
      RefundSbch, RefundSbchFails, PriceChanged, TooLateToLockSbch, LockSbch,
      LockSbchFails, SendTx, WaitForOther, UnlockBch, RpcFails, SaveResult,
      CallFails, TypeOK, LoopsOK
  <1>7. OwnCallsKept(m)
    <2>1. CASE \E s \in Swaps : RefundSbch(b, s) \/ UnlockBch(b, s)
      BY <2>1 DEF RefundSbch, SendTx, UnlockBch, OwnCallsKept
    <2>2. CASE \E c \in calls : SaveResult(b, c) \/ CallFails(b, c)
      BY <2>2 DEF SaveResult, CallFails, OwnCallsKept, chains
    <2>3. CASE Crash(b)
      BY <2>3 DEF Crash, OwnCallsKept, chains
    <2>4. CASE UNCHANGED <<calls, sbchPool>>
      BY <2>4 DEF OwnCallsKept
    <2>5. ASSUME \A s \in Swaps : ~RefundSbch(b, s) /\ ~UnlockBch(b, s),
                 \A c \in calls : ~SaveResult(b, c) /\ ~CallFails(b, c),
                 ~Crash(b)
          PROVE  UNCHANGED <<calls, sbchPool>>
      BY <1>2, <2>5
      DEF BotStep, Start, UpdatePrices, EndStage, HandleBchBlock,
        SaveBchHeight, BchBlockFails, HandleSbchLockEventB2S,
        HandleSbchUnlockEvent, NextLogHandled, SaveSbchHeight, SkipRefund,
        RefundSbchFails, PriceChanged, TooLateToLockSbch, LockSbchFails,
        WaitForOther, RpcFails, loop, chains
    <2>. QED BY <2>1, <2>2, <2>3, <2>4, <2>5
  <1>. QED
    BY <1>1, <1>3, <1>4, <1>5, <1>6, <1>7, LocalsKept, CallsKept
    DEF Loop, Seen

\* A user's step.
LEMMA UserSteps ==
  ASSUME NEW m, Master(m), PromptInv(m), IInv', NEW s \in Swaps, UserStep(s)
  PROVE  Loop(m)' /\ Seen(m)'
  <1>1. /\ TypeOK /\ IInv /\ ChainsOK /\ ChainsOK' /\ m \in Bots
    BY MasterFacts DEF IInv, TypeOK
  <1>2. /\ UNCHANGED <<Locals(m), clocks>> /\ lap'[m] = lap[m]
        /\ UNCHANGED <<calls, sbchPool>>
    BY DEF UserStep, UserLockBch, UserUnlockSbch, UserRefundBch, Locals,
      records, heights, loop
  <1>3. \A t \in Swaps : Moved(t) /\ (Late(t)' => Due(t)' \/ Late(t))
    <2>1. ~TickBch /\ ~TickSbch
      BY <1>1, <1>2, TimeTypes DEF TickBch, TickSbch, clocks, ChainsOK
    <2>2. [Next]_vars
      BY DEF Next
    <2>. QED BY <1>1, <2>1, <2>2, SwapsMove, LateStep
  <1>4. \A t \in Swaps : swap[t] = "Invalid" => UNCHANGED swap[t]
    BY <1>1 DEF UserStep, UserLockBch, UserUnlockSbch, UserRefundBch, ChainsOK
  <1>5. LogGrows
    <2>1. CASE UserUnlockSbch(s)
      <3>1. PICK n \in Nat : n = Len(sbchLog)
        BY <1>1 DEF ChainsOK
      <3>2. /\ Len(sbchLog') = n + 1 /\ sbchLog'[n + 1] = UnlockOf(s)
            /\ \A i \in 1..n : sbchLog'[i] = sbchLog[i]
        BY <1>1, <2>1, <3>1 DEF UserUnlockSbch, ChainsOK, UnlockOf
      <3>3. \A t \in Swaps : t # s => UNCHANGED swap[t]
        BY <1>1, <2>1 DEF UserUnlockSbch, ChainsOK
      <3>. QED BY <3>1, <3>2, <3>3 DEF LogGrows
    <2>2. CASE ~UserUnlockSbch(s)
      <3>1. UNCHANGED <<swap, sbchLog>>
        BY <2>2 DEF UserStep, UserLockBch, UserRefundBch
      <3>. QED BY <1>1, <3>1, LogKept
    <2>. QED BY <2>1, <2>2
  <1>6. OwnCallsKept(m)
    BY <1>2 DEF OwnCallsKept
  <1>7. pc[m] = "down" => UNCHANGED swap
    <2>1. ASSUME pc[m] = "down" PROVE ~UserUnlockSbch(s)
      BY <2>1, MasterFacts DEF RefundsDone, UserUnlockSbch
    <2>. QED BY <2>1 DEF UserStep, UserLockBch, UserRefundBch
  <1>. QED
    BY <1>1, <1>2, <1>3, <1>4, <1>5, <1>6, <1>7, LocalsKept, CallsKept
    DEF Loop, Seen

\* A pending transaction that locks is the master's, which waits for it.
LEMMA PendingLock ==
  ASSUME NEW m, Master(m), PromptInv(m), NEW tx \in sbchPool, tx.kind = "lock"
  PROVE  /\ tx.bot = m /\ pc[m] = "handleBchUserDeposits"
         /\ \E c \in calls : /\ c.bot = m /\ c.kind = "lock"
                             /\ c.swap = tx.swap /\ c.res = "pending"
  <1>1. tx.bot = m
    BY MasterFacts DEF PoolTimed
  <1>. QED BY <1>1, MasterFacts DEF CallsOK

\* A transaction gets into a block: the call of the bot that sent it has its
\* outcome.
LEMMA MineSteps ==
  ASSUME NEW m, Master(m), PromptInv(m), IInv', NEW tx \in sbchPool,
         MineSbchTx(tx)
  PROVE  Loop(m)' /\ Seen(m)'
  <1>1. /\ TypeOK /\ IInv /\ ChainsOK /\ ChainsOK' /\ m \in Bots
        /\ tx \in SbchTxs /\ tx.swap \in Swaps /\ tx.kind \in {"lock", "refund"}
    BY MasterFacts DEF IInv, TypeOK, ChainsOK, SbchTxs
  <1>2. /\ UNCHANGED <<Locals(m), clocks>> /\ lap'[m] = lap[m]
        /\ sbchPool' = sbchPool \ {tx} /\ UNCHANGED sbchNow
        /\ UNCHANGED <<pc[m], todo[m], status[m], lockTime[m]>>
    BY DEF MineSbchTx, Locals, records, heights, clocks
  <1>3. \A s \in Swaps : Moved(s) /\ (Late(s)' => Due(s)' \/ Late(s))
    <2>1. ~TickBch /\ ~TickSbch
      BY <1>1, <1>2, TimeTypes DEF TickBch, TickSbch, clocks, ChainsOK
    <2>2. [Next]_vars
      BY DEF Next, Mine
    <2>. QED BY <1>1, <2>1, <2>2, SwapsMove, LateStep
  <1>4. LogGrows
    <2>1. PICK n \in Nat : n = Len(sbchLog)
      BY <1>1 DEF ChainsOK
    <2>. DEFINE Longer == /\ Len(sbchLog') >= Len(sbchLog)
                          /\ \A i \in 1..Len(sbchLog) : sbchLog'[i] = sbchLog[i]
    <2>2. \/ sbchLog' = sbchLog
          \/ sbchLog' = Append(sbchLog, [event |-> "Lock", swap |-> tx.swap])
      BY DEF MineSbchTx, MineLock, MineRefund, MineReverted
    <2>3. ASSUME sbchLog' = sbchLog PROVE Longer
      <3>1. n >= n
        OBVIOUS
      <3>. QED BY <2>1, <2>3, <3>1
    <2>4. ASSUME sbchLog' = Append(sbchLog, [event |-> "Lock", swap |-> tx.swap])
          PROVE  Longer
      <3>1. /\ Len(sbchLog') = n + 1
            /\ \A i \in 1..n : sbchLog'[i] = sbchLog[i]
        BY <1>1, <2>1, <2>4 DEF ChainsOK
      <3>. QED BY <2>1, <3>1
    <2>5. \A s \in Swaps : swap'[s] = "Unlocked" => swap[s] = "Unlocked"
      BY <1>1 DEF MineSbchTx, MineLock, MineRefund, MineReverted, ChainsOK
    <2>. QED BY <2>2, <2>3, <2>4, <2>5 DEF LogGrows
  <1>5. PICK res \in {"ok", "reverted"} :
          /\ calls' = Receipts(tx, res)
          /\ \A s \in Swaps : s # tx.swap => UNCHANGED swap[s]
          /\ res = "reverted" => ~Accepts(tx.kind, tx.swap) /\ UNCHANGED swap
          /\ tx.kind = "refund" /\ res = "ok" => /\ swap[tx.swap] = "Locked"
                                                 /\ swap'[tx.swap] = "Refunded"
    BY <1>1 DEF MineSbchTx, MineLock, MineRefund, MineReverted, Accepts, ChainsOK
  <1>. DEFINE Hit(c) == c.bot = tx.bot /\ c.kind = tx.kind /\ c.swap = tx.swap
              After(c) == IF Hit(c)
                            THEN [c EXCEPT !.res = IF @ = "pending" THEN res
                                                   ELSE @]
                            ELSE c
  <1>6. calls' = {After(c) : c \in calls}
    BY <1>5 DEF Receipts
  <1>7. ASSUME NEW c \in calls
        PROVE  /\ After(c).bot = c.bot /\ After(c).kind = c.kind
               /\ After(c).swap = c.swap
               /\ After(c).res = IF Hit(c) /\ c.res = "pending" THEN res
                                 ELSE c.res
    BY <1>1 DEF TypeOK, LoopsOK, Calls
  <1>. HIDE DEF After
  <1>8. \A c \in calls : c.swap \in Swaps
    BY <1>1 DEF TypeOK, LoopsOK, Calls
  <1>9. ASSUME NEW c \in calls, c.bot = m, tx.kind = "lock"
        PROVE  Hit(c) /\ c.res = "pending"
    BY <1>9, PendingLock, MasterFacts DEF CallsOK
  <1>10. CallsOK(m)'
    <2>1. ASSUME NEW c \in calls', NEW d \in calls', c.bot = m, d.bot = m
          PROVE  c = d
      <3>1. PICK c0 \in calls, d0 \in calls : c = After(c0) /\ d = After(d0)
        BY <1>6
      <3>2. c0.bot = m /\ d0.bot = m
        BY <1>7, <2>1, <3>1
      <3>. QED BY <3>1, <3>2, MasterFacts DEF CallsOK
    <2>2. ASSUME NEW c \in calls, c.bot = m
          PROVE  /\ After(c).swap \in todo[m]
                 /\ c.kind = "lock" =>
                      /\ pc[m] = "handleBchUserDeposits"
                      /\ status[m][c.swap] = "New"
                      /\ After(c).res \in {"pending", "ok"}
                      /\ After(c).res = "pending" => swap'[c.swap] = "Invalid"
                 /\ c.kind = "refund" => /\ pc[m] = "refundLockedSbch"
                                         /\ After(c).res = "reverted" =>
                                              swap'[c.swap] # "Locked"
                 /\ c.kind = "unlock" => /\ pc[m] = "unlockBchUserDeposits"
                                         /\ After(c).res = "ok"
      <3>1. /\ c.swap \in todo[m] /\ c.swap \in Swaps
            /\ c.kind = "lock" => /\ pc[m] = "handleBchUserDeposits"
                                  /\ status[m][c.swap] = "New"
                                  /\ c.res \in {"pending", "ok"}
                                  /\ c.res = "pending" =>
                                       swap[c.swap] = "Invalid"
            /\ c.kind = "refund" => /\ pc[m] = "refundLockedSbch"
                                    /\ c.res = "reverted" =>
                                         swap[c.swap] # "Locked"
            /\ c.kind = "unlock" => /\ pc[m] = "unlockBchUserDeposits"
                                    /\ c.res = "ok"
        BY <1>8, <2>2, MasterFacts DEF CallsOK
      <3>2. After(c).swap = c.swap
            /\ After(c).res = IF Hit(c) /\ c.res = "pending" THEN res
                              ELSE c.res
        BY <1>7
      <3>3. CASE Hit(c) /\ c.res = "pending"
        <4>1. c.kind = "lock" => res = "ok"
          BY <1>5, <3>1, <3>3 DEF Accepts
        <4>2. c.kind = "refund" /\ res = "reverted" => swap'[c.swap] # "Locked"
          <5>1. ASSUME c.kind = "refund", res = "reverted"
                PROVE  swap[c.swap] # "Locked"
            BY <1>5, <3>3, <5>1, MasterFacts DEF Accepts, PoolTimed
          <5>. QED BY <1>5, <5>1
        <4>. QED BY <3>1, <3>2, <3>3, <4>1, <4>2
      <3>4. CASE ~(Hit(c) /\ c.res = "pending")
        <4>1. tx.kind = "refund"
          BY <1>1, <1>9, <2>2, <3>4
        <4>2. /\ swap[c.swap] = "Invalid" => swap'[c.swap] = "Invalid"
              /\ swap[c.swap] # "Locked" => swap'[c.swap] # "Locked"
          BY <1>5, <3>1, <4>1
        <4>. QED BY <3>1, <3>2, <3>4, <4>2
      <3>. QED BY <3>3, <3>4
    <2>3. ASSUME NEW c \in calls', c.bot = m
          PROVE  /\ c.swap \in todo'[m]
                 /\ c.kind = "lock" => /\ pc'[m] = "handleBchUserDeposits"
                                       /\ status'[m][c.swap] = "New"
                                       /\ c.res \in {"pending", "ok"}
                                       /\ c.res = "pending" =>
                                            swap'[c.swap] = "Invalid"
                 /\ c.kind = "refund" => /\ pc'[m] = "refundLockedSbch"
                                         /\ c.res = "reverted" =>
                                              swap'[c.swap] # "Locked"
                 /\ c.kind = "unlock" => /\ pc'[m] = "unlockBchUserDeposits"
                                         /\ c.res = "ok"
      <3>1. PICK c0 \in calls : c = After(c0)
        BY <1>6
      <3>2. c.swap = c0.swap /\ c.kind = c0.kind /\ c0.bot = m
        BY <1>7, <2>3, <3>1
      <3>. QED BY <1>2, <2>2, <3>1, <3>2
    <2>4. ASSUME NEW tx2 \in sbchPool', tx2.bot = m
          PROVE  \E c \in calls' : /\ c.bot = m /\ c.kind = tx2.kind
                                   /\ c.swap = tx2.swap /\ c.res = "pending"
      <3>1. tx2 \in sbchPool /\ tx2 # tx
        BY <1>2
      <3>2. PICK c \in calls : /\ c.bot = m /\ c.kind = tx2.kind
                               /\ c.swap = tx2.swap /\ c.res = "pending"
        BY <2>4, <3>1, MasterFacts DEF CallsOK
      <3>3. ~Hit(c)
        <4>1. tx2 \in SbchTxs
          BY <1>1, <3>1 DEF ChainsOK
        <4>. QED BY <1>1, <2>4, <3>1, <3>2, <4>1 DEF SbchTxs
      <3>4. /\ After(c).bot = m /\ After(c).kind = tx2.kind
            /\ After(c).swap = tx2.swap /\ After(c).res = "pending"
        BY <1>7, <3>2, <3>3
      <3>. QED BY <1>6, <3>4
    <2>. QED BY <2>1, <2>3, <2>4 DEF CallsOK
  <1>11. ASSUME NEW s \in Swaps, swap'[s] \in {"Locked", "Unlocked"}
         PROVE  Recorded(m, s)'
    <2>1. CASE swap[s] = "Invalid"
      <3>1. swap'[s] = "Locked" /\ tx.kind = "lock" /\ tx.swap = s /\ res = "ok"
        BY <1>1, <1>3, <1>5, <1>11, <2>1 DEF Moved
      <3>2. PICK c \in calls : /\ c.bot = m /\ c.kind = "lock"
                               /\ c.swap = s /\ c.res = "pending"
        BY <3>1, PendingLock
      <3>3. Hit(c)
        BY <1>9, <3>1, <3>2
      <3>4. /\ After(c).bot = m /\ After(c).kind = "lock"
            /\ After(c).swap = s /\ After(c).res = "ok"
        BY <1>7, <3>1, <3>2, <3>3
      <3>5. Locking(m, s)'
        BY <1>6, <3>4 DEF Locking
      <3>6. status[m][s] = "New"
        BY <3>2, MasterFacts DEF CallsOK
      <3>. QED BY <1>2, <3>5, <3>6 DEF Recorded
    <2>2. CASE swap[s] # "Invalid"
      <3>1. swap[s] \in {"Locked", "Unlocked"} /\ swapTime'[s] = swapTime[s]
        BY <1>3, <1>11, <2>2 DEF Moved
      <3>2. Recorded(m, s)
        BY <3>1, MasterFacts DEF SwapsRecorded
      <3>3. ASSUME Locking(m, s) PROVE Locking(m, s)'
        <4>1. PICK c \in calls : /\ c.bot = m /\ c.kind = "lock"
                                 /\ c.swap = s /\ c.res = "ok"
          BY <3>3 DEF Locking
        <4>2. /\ After(c).bot = m /\ After(c).kind = "lock"
              /\ After(c).swap = s /\ After(c).res = "ok"
          BY <1>7, <4>1
        <4>. QED BY <1>6, <4>2 DEF Locking
      <3>. QED BY <1>2, <3>1, <3>2, <3>3 DEF Recorded
    <2>. QED BY <2>1, <2>2
  <1>12. SwapsRecorded(m)'
    BY <1>11 DEF SwapsRecorded
  <1>13. pc[m] = "down" => UNCHANGED swap
    <2>1. ASSUME pc[m] = "down" PROVE MineReverted(tx)
      <3>1. tx.kind # "lock" /\ swap[tx.swap] = "Invalid"
        BY <1>1, <2>1, PendingLock, MasterFacts DEF RefundsDone
      <3>. QED BY <3>1 DEF MineSbchTx, MineLock, MineRefund, Accepts
    <2>. QED BY <2>1 DEF MineReverted
  <1>. QED
    BY <1>1, <1>2, <1>3, <1>4, <1>10, <1>12, <1>13, LocalsKept DEF Loop, Seen

\* A tick: another iteration has to see what there is now.
LEMMA TickSteps ==
  ASSUME NEW m, Master(m), PromptInv(m), TickBch \/ TickSbch
  PROVE  Loop(m)' /\ Seen(m)'
  <1>1. /\ UNCHANGED <<pc, todo, mark, pos, calls, status, lockTime>>
        /\ UNCHANGED <<revealedAt, lastSbch, utxo, swap, swapTime>>
        /\ UNCHANGED <<sbchPool, sbchLog>> /\ lap'[m] = 0
    BY MasterFacts
    DEF TickBch, TickSbch, Tick, chains, records, heights, loop
  <1>2. sbchNow \in Nat /\ sbchNow' \in Nat /\ sbchNow' >= sbchNow
    BY MasterFacts DEF TickBch, TickSbch, ChainsOK
  <1>3. RefundsDone(m)' /\ SecretsUsed(m)'
    BY <1>1, MasterFacts DEF RefundsDone, SecretsUsed
  <1>4. CallsOK(m)'
    BY <1>1, MasterFacts DEF CallsOK
  <1>5. WorkOK(m)'
    <2>1. \A s \in Swaps : revealedAt[m][s] \in Nat
      BY MasterFacts, MasterTypes
    <2>. QED BY <1>1, <1>2, <2>1, MasterFacts DEF WorkOK
  <1>6. SwapsRecorded(m)'
    BY <1>1, MasterFacts DEF SwapsRecorded, Recorded, Locking
  <1>7. SecretsSeen(m)'
    BY <1>1, MasterFacts DEF SecretsSeen, Scanned, UnlockOf
  <1>. QED BY <1>3, <1>4, <1>5, <1>6, <1>7 DEF Loop, Seen

-----------------------------------------------------------------------------
(* The master's own steps.                                                 *)

\* The master has sent nothing that it does not wait for.
LEMMA IdleSends ==
  ASSUME NEW m, CallsOK(m), Idle(m)
  PROVE  \A tx \in sbchPool : tx.bot # m
  BY DEF CallsOK, Idle

\* In these stages it sends nothing.
LEMMA CallsHaveStages ==
  ASSUME NEW m, CallsOK(m), TypeOK,
         pc[m] \in {"down", "updatePrices", "scanBchBlocks", "scanSbchEvents"}
  PROVE  Idle(m)
  <1>1. \A c \in calls : c.kind \in {"lock", "refund", "unlock"}
    BY DEF TypeOK, LoopsOK, Calls, CallKinds
  <1>. QED BY <1>1 DEF CallsOK, Idle

\* An idle master has no call to account for.
LEMMA IdleCalls ==
  ASSUME NEW m, CallsOK(m), Idle(m), UNCHANGED <<calls, sbchPool>>
  PROVE  CallsOK(m)'
  BY DEF CallsOK, Idle

\* An idle master has saved every swap that is locked or unlocked.
LEMMA IdleRecords ==
  ASSUME NEW m, Master(m), PromptInv(m), Idle(m), NEW s \in Swaps,
         swap[s] \in {"Locked", "Unlocked"}
  PROVE  /\ status[m][s] \in {"SbchLocked", "SecretRevealed", "BchUnlocked"}
         /\ lockTime[m][s] = swapTime[s]
         /\ swap[s] = "Locked" => status[m][s] = "SbchLocked"
  <1>1. /\ status[m][s] \in {"SbchLocked", "SecretRevealed", "BchUnlocked"}
        /\ lockTime[m][s] = swapTime[s]
    BY MasterFacts DEF SwapsRecorded, Recorded, Locking, Idle
  <1>2. Backed(status[m][s], s)
    BY MasterFacts DEF RecordsBacked
  <1>. QED BY <1>1, <1>2 DEF Backed

\* The master's own steps give it nothing new to know of.
LEMMA MasterLate ==
  ASSUME NEW m, Master(m), PromptInv(m), BotStep(m), NEW s \in Swaps, Late(s)'
  PROVE  Late(s)
  <1>1. UNCHANGED <<clocks, swapTime>>
    BY BotsKeepTime, MasterFacts
  <1>2. ~TickBch /\ ~TickSbch
    BY <1>1, MasterFacts, TimeTypes DEF TickBch, TickSbch, ChainsOK, clocks
  <1>3. [Next]_vars
    BY MasterFacts DEF Next
  <1>4. Due(s)' => Due(s)
    BY <1>1 DEF Due, SbchTimeLock, clocks
  <1>. QED BY <1>2, <1>3, <1>4, LateStep DEF Late

\* Loop starts.
LEMMA StartStep ==
  ASSUME NEW m, Master(m), PromptInv(m), Start(m)
  PROVE  Loop(m)' /\ Seen(m)'
  <1>1. /\ pc[m] = "down" /\ pc'[m] = "updatePrices" /\ lap[m] = 0
        /\ UNCHANGED <<sbchNow, utxo, swap, swapTime, sbchPool, sbchLog, calls,
                       status, lockTime, revealedAt, lastSbch, lap>>
    BY MasterFacts
    DEF Start, TypeOK, LoopsOK, clocks, chains, records, heights, RefundsDone
  <1>2. CallsOK(m)'
    BY <1>1, CallsHaveStages, IdleCalls, MasterFacts
  <1>3. RefundsDone(m)' /\ SecretsUsed(m)' /\ WorkOK(m)'
    BY <1>1, MasterFacts DEF RefundsDone, SecretsUsed, WorkOK
  <1>4. SwapsRecorded(m)' /\ SecretsSeen(m)'
    BY <1>1, MasterFacts
    DEF SwapsRecorded, Recorded, Locking, SecretsSeen, Scanned, UnlockOf
  <1>. QED BY <1>2, <1>3, <1>4 DEF Loop, Seen

\* A new iteration: refundLockedSbch reads what is locked.
LEMMA UpdatePricesStep ==
  ASSUME NEW m, Master(m), PromptInv(m), faults' = 0, UpdatePrices(m)
  PROVE  Loop(m)' /\ Seen(m)'
  <1>1. /\ pc[m] = "updatePrices" /\ pc'[m] = "refundLockedSbch"
        /\ mark'[m] = sbchNow
        /\ todo'[m] = {s \in Swaps : status[m][s] = "SbchLocked"}
    <2>1. Enter(m, "refundLockedSbch") /\ pc[m] = "updatePrices"
      BY NoFault, MasterFacts DEF UpdatePrices
    <2>2. Query(m, "refundLockedSbch")
            = {s \in Swaps : status[m][s] = "SbchLocked"}
      BY DEF Query
    <2>. QED
      BY <2>1, <2>2, MasterFacts DEF Enter, Reading, TypeOK, LoopsOK
  <1>2. UNCHANGED <<sbchNow, utxo, swap, swapTime, sbchPool, sbchLog, calls,
                    status, lockTime, revealedAt, lastSbch, lap>>
    BY DEF UpdatePrices, clocks, chains, records, heights
  <1>3. Idle(m) /\ CallsOK(m)'
    BY <1>1, <1>2, CallsHaveStages, IdleCalls, MasterFacts
  <1>4. RefundsDone(m)'
    <2>1. \A s \in Swaps : swap[s] = "Locked" => s \in todo'[m]
      BY <1>1, <1>3, IdleRecords
    <2>2. \A s \in Swaps : Due(s)' <=> Due(s)
      BY <1>2 DEF Due, SbchTimeLock
    <2>. QED BY <1>1, <1>2, <2>1, <2>2, MasterFacts DEF RefundsDone
  <1>5. SecretsUsed(m)'
    <2>1. \A s \in Swaps : Late(s)' => Late(s)
      BY MasterLate DEF BotStep
    <2>. QED BY <1>1, <1>2, <2>1, MasterFacts DEF SecretsUsed
  <1>6. WorkOK(m)'
    BY <1>1, <1>2, MasterFacts DEF WorkOK
  <1>7. SwapsRecorded(m)' /\ SecretsSeen(m)'
    BY <1>1, <1>2, MasterFacts
    DEF SwapsRecorded, Recorded, Locking, SecretsSeen, Scanned, UnlockOf
  <1>. QED BY <1>3, <1>4, <1>5, <1>6, <1>7 DEF Loop, Seen

\* A call of the loop body ends and the next one starts: nothing that is due
\* is locked after refundLockedSbch, and every secret known by then has been
\* scanned after scanSbchEvents and used after unlockBchUserDeposits.
LEMMA EndStageStep ==
  ASSUME NEW m, Master(m), PromptInv(m), faults' = 0, EndStage(m)
  PROVE  Loop(m)' /\ Seen(m)'
  <1>1. PICK stage \in Stages :
          <<pc[m], stage>> \in Successor /\ Enter(m, stage)
    BY NoFault, MasterFacts DEF EndStage
  <1>2. /\ pc'[m] = stage /\ todo'[m] = Query(m, stage)
        /\ mark'[m] = Reading(stage) /\ pos'[m] = Cursor(m, stage)
        /\ stage # "refundLockedSbch" /\ stage # "down"
        /\ pc[m] # "down" /\ pc[m] # "updatePrices"
    <2>1. /\ stage # "refundLockedSbch" /\ stage # "down"
          /\ pc[m] # "down" /\ pc[m] # "updatePrices"
      BY <1>1 DEF Successor
    <2>. QED
      BY <1>1, <2>1, MasterFacts DEF Enter, TypeOK, LoopsOK
  <1>3. UNCHANGED <<sbchNow, utxo, swap, swapTime, sbchPool, sbchLog, calls,
                    status, lockTime, revealedAt, lastSbch>>
    BY DEF EndStage, clocks, chains, records, heights
  <1>4. /\ Idle(m) /\ todo[m] = {}
        /\ pc[m] = "scanSbchEvents" => pos[m] >= mark[m] /\ pos[m] = lastSbch[m]
    BY DEF EndStage, Finished, Cursor
  <1>5. /\ lap'[m] \in Int /\ lap[m] \in Int
        /\ pc[m] # "scanSbchEvents" => lap'[m] = lap[m]
        /\ pc[m] = "scanSbchEvents" =>
             (lap'[m] > 1 => lap[m] > 0) /\ (lap'[m] > 2 => lap[m] > 1)
    <2>1. lap[m] \in 0..3 /\ m \in Bots
      BY MasterFacts, MasterTypes
    <2>2. \/ lap' = lap
          \/ /\ pc[m] = "scanSbchEvents"
             /\ lap' = [lap EXCEPT ![m] = @ + 1]
      BY DEF EndStage
    <2>3. lap' = [lap EXCEPT ![m] = @ + 1] => lap'[m] = lap[m] + 1
      BY MasterFacts DEF TypeOK, LoopsOK
    <2>. QED BY <2>1, <2>2, <2>3
  <1>6. CallsOK(m)' /\ SwapsRecorded(m)'
    BY <1>3, <1>4, IdleCalls, MasterFacts
    DEF SwapsRecorded, Recorded, Locking
  <1>7. Scanned(m)' = Scanned(m)
    BY <1>2, <1>3, <1>4 DEF Scanned, Cursor
  <1>8. SecretsSeen(m)'
    BY <1>3, <1>7, MasterFacts DEF SecretsSeen, UnlockOf
  <1>9. \A s \in Swaps : (Due(s)' <=> Due(s)) /\ (Late(s)' => Late(s))
    BY <1>3, MasterLate DEF Due, SbchTimeLock, BotStep
  <1>10. WorkOK(m)'
    <2>1. stage = "handleBchUserDeposits" =>
            \A s \in todo'[m] : status[m][s] = "New"
      BY <1>2 DEF Query
    <2>2. stage = "unlockBchUserDeposits" => mark'[m] = sbchNow
      BY <1>2 DEF Reading
    <2>3. stage = "scanSbchEvents" => pos'[m] <= Len(sbchLog)
      BY <1>2, MasterFacts DEF Cursor, LogRead
    <2>. QED
      BY <1>2, <1>3, <2>1, <2>2, <2>3, MasterFacts DEF WorkOK
  <1>11. RefundsDone(m)'
    <2>1. ASSUME lap[m] > 0, NEW s \in Swaps, Due(s) PROVE swap[s] # "Locked"
      BY <1>2, <1>4, <2>1, MasterFacts DEF RefundsDone
    <2>2. lap'[m] > 1 => lap[m] > 0
      BY <1>5
    <2>3. stage # "updatePrices" => pc[m] # "scanSbchEvents"
      BY <1>1 DEF Successor
    <2>. QED BY <1>2, <1>3, <1>5, <1>9, <2>1, <2>2, <2>3 DEF RefundsDone
  <1>12. SecretsUsed(m)'
    <2>1. ASSUME NEW s \in Swaps, Late(s), swap[s] = "Unlocked"
          PROVE  /\ lap'[m] > 0 /\ stage = "scanSbchEvents" =>
                      \E i \in 1..mark'[m] : sbchLog[i] = UnlockOf(s)
                 /\ lap'[m] > 1 => status[m][s] \in {"SecretRevealed",
                                                     "BchUnlocked"}
                 /\ lap'[m] > 1 /\ stage = "unlockBchUserDeposits" =>
                      s \in todo'[m] \/ utxo[s] # "locked"
                 /\ lap'[m] > 2 \/ (lap'[m] > 1 /\ stage = "scanSbchEvents") =>
                      utxo[s] # "locked"
      <3>1. stage = "scanSbchEvents" =>
              \E i \in 1..mark'[m] : sbchLog[i] = UnlockOf(s)
        BY <1>2, <2>1, MasterFacts DEF Reading, SecretsSeen
      <3>2. ASSUME lap'[m] > 1
            PROVE  status[m][s] \in {"SecretRevealed", "BchUnlocked"}
        <4>1. CASE pc[m] = "scanSbchEvents"
          <5>1. PICK i \in 1..mark[m] : sbchLog[i] = UnlockOf(s)
            BY <1>5, <2>1, <3>2, <4>1, MasterFacts DEF SecretsUsed
          <5>2. i \in 1..Len(sbchLog) /\ i <= Scanned(m)
            BY <1>4, <4>1, ScannedExists, MasterFacts, MasterTypes DEF Scanned
          <5>. QED BY <5>1, <5>2, MasterFacts DEF SecretsSeen, UnlockOf
        <4>2. CASE pc[m] # "scanSbchEvents"
          BY <1>5, <2>1, <3>2, <4>2, MasterFacts DEF SecretsUsed
        <4>. QED BY <4>1, <4>2
      <3>3. ASSUME lap'[m] > 1, stage = "unlockBchUserDeposits"
            PROVE  s \in todo'[m] \/ utxo[s] # "locked"
        <4>1. CASE status[m][s] = "SecretRevealed"
          BY <1>2, <3>3, <4>1 DEF Query
        <4>2. CASE status[m][s] = "BchUnlocked"
          BY <4>2, MasterFacts DEF RecordsBacked, Backed
        <4>. QED BY <3>2, <3>3, <4>1, <4>2
      <3>4. ASSUME lap'[m] > 2 \/ (lap'[m] > 1 /\ stage = "scanSbchEvents")
            PROVE  utxo[s] # "locked"
        <4>1. CASE stage = "scanSbchEvents"
          <5>1. pc[m] = "unlockBchUserDeposits" /\ lap[m] > 1
            BY <1>1, <1>5, <3>4, <4>1 DEF Successor
          <5>. QED BY <1>4, <2>1, <5>1, MasterFacts DEF SecretsUsed
        <4>2. CASE stage # "scanSbchEvents" /\ pc[m] = "scanSbchEvents"
          <5>1. lap[m] > 1
            BY <1>5, <3>4, <4>2
          <5>. QED BY <2>1, <4>2, <5>1, MasterFacts DEF SecretsUsed
        <4>3. CASE stage # "scanSbchEvents" /\ pc[m] # "scanSbchEvents"
          <5>1. lap[m] > 2
            BY <1>5, <3>4, <4>3
          <5>. QED BY <2>1, <5>1, MasterFacts DEF SecretsUsed
        <4>. QED BY <4>1, <4>2, <4>3
      <3>. QED BY <3>1, <3>2, <3>3, <3>4
    <2>. QED BY <1>2, <1>3, <1>9, <2>1 DEF SecretsUsed, UnlockOf
  <1>. QED BY <1>6, <1>8, <1>10, <1>11, <1>12 DEF Loop, Seen

\* scanBchBlocks: a new record is one of a swap that is not locked.
LEMMA ScanBchSteps ==
  ASSUME NEW m, Master(m), PromptInv(m), HandleBchBlock(m) \/ SaveBchHeight(m)
  PROVE  Loop(m)' /\ Seen(m)'
  <1>1. /\ pc[m] = "scanBchBlocks"
        /\ UNCHANGED <<sbchNow, utxo, swap, swapTime, sbchPool, sbchLog, calls,
                       lockTime, revealedAt, lastSbch, lap, pc, todo, mark>>
        /\ Idle(m)
    BY MasterFacts, CallsHaveStages
    DEF HandleBchBlock, SaveBchHeight, clocks, chains, heights, records, loop
  <1>2. ASSUME NEW s \in Swaps
        PROVE  \/ status'[m][s] = status[m][s]
               \/ status[m][s] = "none" /\ status'[m][s] = "New"
    <2>1. \/ UNCHANGED status
          \/ status' = [status EXCEPT ![m] =
               [t \in Swaps |-> IF t \in NewDeposits(m, pos[m] + 1)
                                  THEN "New" ELSE @[t]]]
      BY DEF HandleBchBlock, SaveBchHeight, records
    <2>. QED BY <2>1, MasterFacts DEF NewDeposits, TypeOK, RecordsOK
  <1>3. \A s \in Swaps : (Due(s)' <=> Due(s)) /\ (Late(s)' => Late(s))
    BY <1>1, MasterLate DEF Due, SbchTimeLock, BotStep
  <1>4. RefundsDone(m)'
    BY <1>1, <1>3, MasterFacts DEF RefundsDone
  <1>5. \A s \in Swaps : status[m][s] \in {"SecretRevealed", "BchUnlocked"}
                           => status'[m][s] = status[m][s]
    BY <1>2
  <1>6. SecretsUsed(m)'
    BY <1>1, <1>3, <1>5, MasterFacts DEF SecretsUsed
  <1>7. CallsOK(m)' /\ WorkOK(m)'
    BY <1>1, IdleCalls, MasterFacts DEF WorkOK
  <1>8. SwapsRecorded(m)'
    <2>1. ASSUME NEW s \in Swaps, swap[s] \in {"Locked", "Unlocked"}
          PROVE  Recorded(m, s)'
      <3>1. /\ status[m][s] \in {"SbchLocked", "SecretRevealed", "BchUnlocked"}
            /\ lockTime[m][s] = swapTime[s]
        BY <1>1, <2>1, IdleRecords
      <3>2. status'[m][s] = status[m][s]
        BY <1>2, <3>1
      <3>. QED BY <1>1, <3>1, <3>2 DEF Recorded
    <2>. QED BY <1>1, <2>1 DEF SwapsRecorded
  <1>9. SecretsSeen(m)'
    <2>1. \A i \in 1..Len(sbchLog) : sbchLog[i].swap \in Swaps
      BY MasterFacts, LogParts
    <2>. QED
      BY <1>1, <1>5, <2>1, MasterFacts DEF SecretsSeen, Scanned, UnlockOf
  <1>. QED BY <1>4, <1>6, <1>7, <1>8, <1>9 DEF Loop, Seen

\* scanSbchEvents: the master knows of the swap whose secret it sees.
LEMMA ScanSbchSteps ==
  ASSUME NEW m, Master(m), PromptInv(m), faults' = 0,
         \/ HandleSbchLockEventB2S(m) \/ HandleSbchUnlockEvent(m)
         \/ SaveSbchHeight(m)
  PROVE  Loop(m)' /\ Seen(m)'
  <1>1. /\ pc[m] = "scanSbchEvents"
        /\ UNCHANGED <<sbchNow, utxo, swap, swapTime, sbchPool, sbchLog, calls,
                       lap, pc, todo, mark>>
        /\ UNCHANGED lockTime[m]
        /\ Idle(m)
    <2>1. pc[m] = "scanSbchEvents"
      BY DEF HandleSbchLockEventB2S, HandleSbchUnlockEvent, HandlingLog,
        SaveSbchHeight
    <2>2. UNCHANGED lockTime[m]
      BY MasterFacts DEF HandleSbchLockEventB2S, HandleSbchUnlockEvent,
        SaveSbchHeight, records
    <2>. QED
      BY <2>1, <2>2, MasterFacts, CallsHaveStages
      DEF HandleSbchLockEventB2S, HandleSbchUnlockEvent, NextLogHandled,
        SaveSbchHeight, clocks, chains, heights, records, loop
  <1>2. /\ pos'[m] \in Nat /\ pos'[m] <= Len(sbchLog)
        /\ pos'[m] = pos[m] \/ (pos'[m] = pos[m] + 1 /\ ~SaveSbchHeight(m))
    <2>1. /\ pos[m] \in Nat /\ mark[m] \in Int /\ Len(sbchLog) \in Nat
          /\ pos[m] <= Len(sbchLog) /\ mark[m] <= Len(sbchLog)
      BY <1>1, MasterFacts, MasterTypes, ScannedExists DEF WorkOK
    <2>2. \/ pos'[m] = pos[m]
          \/ pos'[m] = pos[m] + 1 /\ pos[m] < mark[m] /\ ~SaveSbchHeight(m)
      <3>1. CASE SaveSbchHeight(m)
        BY <3>1 DEF SaveSbchHeight, loop
      <3>2. CASE ~SaveSbchHeight(m)
        BY <3>2, MasterFacts
        DEF HandleSbchLockEventB2S, HandleSbchUnlockEvent, HandlingLog,
          NextLogHandled, TypeOK, LoopsOK
      <3>. QED BY <3>1, <3>2
    <2>. QED BY <2>1, <2>2
  <1>3. ASSUME NEW s \in Swaps
        PROVE  /\ \/ UNCHANGED <<status[m][s], revealedAt[m][s]>>
                  \/ /\ status[m][s] = "SbchLocked"
                     /\ status'[m][s] = "SecretRevealed"
                     /\ revealedAt'[m][s] = sbchNow
    <2>1. CASE HandleSbchUnlockEvent(m)
      <3>. DEFINE t == NextLog(m).swap
      <3>1. \/ UNCHANGED <<status, revealedAt>>
            \/ /\ status[m][t] = "SbchLocked"
               /\ status' = [status EXCEPT ![m][t] = "SecretRevealed"]
               /\ revealedAt' = [revealedAt EXCEPT ![m][t] = sbchNow]
        BY <2>1, NoFault, MasterFacts DEF HandleSbchUnlockEvent, SetStatus
      <3>. HIDE DEF t
      <3>2. /\ m \in Bots /\ DOMAIN status = Bots /\ DOMAIN revealedAt = Bots
            /\ DOMAIN status[m] = Swaps /\ DOMAIN revealedAt[m] = Swaps
        BY MasterFacts DEF TypeOK, RecordsOK
      <3>3. CASE s = t
        BY <3>1, <3>2, <3>3
      <3>4. CASE s # t
        BY <3>1, <3>2, <3>4
      <3>. QED BY <3>3, <3>4
    <2>2. CASE ~HandleSbchUnlockEvent(m)
      BY <2>2, MasterFacts DEF HandleSbchLockEventB2S, SaveSbchHeight, records
    <2>. QED BY <2>1, <2>2
  <1>4. \A s \in Swaps : (Due(s)' <=> Due(s)) /\ (Late(s)' => Late(s))
    BY <1>1, MasterLate DEF Due, SbchTimeLock, BotStep
  <1>5. RefundsDone(m)'
    BY <1>1, <1>4, MasterFacts DEF RefundsDone
  <1>6. \A s \in Swaps :
          /\ status[m][s] \in {"SecretRevealed", "BchUnlocked"} =>
               status'[m][s] \in {"SecretRevealed", "BchUnlocked"}
          /\ status[m][s] \in {"SbchLocked", "SecretRevealed", "BchUnlocked"} =>
               status'[m][s] \in {"SbchLocked", "SecretRevealed", "BchUnlocked"}
    BY <1>3
  <1>7. SecretsUsed(m)'
    BY <1>1, <1>4, <1>6, MasterFacts DEF SecretsUsed, UnlockOf
  <1>8. CallsOK(m)'
    BY <1>1, IdleCalls, MasterFacts
  <1>9. WorkOK(m)'
    <2>1. \A s \in Swaps : revealedAt'[m][s] <= sbchNow
      <3>1. sbchNow \in Nat
        BY MasterFacts, MasterTypes
      <3>. QED BY <1>3, <3>1, MasterFacts DEF WorkOK
    <2>. QED BY <1>1, <1>2, <2>1 DEF WorkOK
  <1>10. SwapsRecorded(m)'
    <2>1. ASSUME NEW s \in Swaps, swap[s] \in {"Locked", "Unlocked"}
          PROVE  Recorded(m, s)'
      <3>1. /\ status[m][s] \in {"SbchLocked", "SecretRevealed", "BchUnlocked"}
            /\ lockTime[m][s] = swapTime[s]
        BY <1>1, <2>1, IdleRecords
      <3>. QED BY <1>1, <1>6, <3>1 DEF Recorded
    <2>. QED BY <1>1, <2>1 DEF SwapsRecorded
  <1>11. SecretsSeen(m)'
    <2>1. ASSUME NEW i \in 1..Len(sbchLog), sbchLog[i].event = "Unlock",
                 i <= pos'[m]
          PROVE  status'[m][sbchLog[i].swap] \in {"SecretRevealed",
                                                  "BchUnlocked"}
      <3>1. /\ sbchLog[i].swap \in Swaps /\ swap[sbchLog[i].swap] = "Unlocked"
        BY <2>1, MasterFacts, LogParts DEF LogBacked
      <3>2. CASE i <= pos[m]
        <4>1. Scanned(m) = pos[m]
          BY <1>1 DEF Scanned
        <4>. QED BY <1>6, <2>1, <3>1, <3>2, <4>1, MasterFacts DEF SecretsSeen
      <3>3. CASE ~(i <= pos[m])
        <4>1. i = pos[m] + 1 /\ ~SaveSbchHeight(m)
          BY <1>2, <2>1, <3>3, MasterFacts, MasterTypes
        <4>2. NextLog(m) = sbchLog[i]
          BY <4>1 DEF NextLog
        <4>3. HandleSbchUnlockEvent(m)
          BY <2>1, <4>1, <4>2 DEF HandleSbchLockEventB2S, HandlingLog
        <4>4. status[m][sbchLog[i].swap] \in
                {"SbchLocked", "SecretRevealed", "BchUnlocked"}
          BY <1>1, <3>1, IdleRecords
        <4>5. status[m][sbchLog[i].swap] = "SbchLocked" =>
                SetStatus(m, sbchLog[i].swap, "SecretRevealed")
          BY <4>2, <4>3, NoFault, MasterFacts DEF HandleSbchUnlockEvent
        <4>6. SetStatus(m, sbchLog[i].swap, "SecretRevealed") =>
                status'[m][sbchLog[i].swap] = "SecretRevealed"
          BY <3>1, MasterFacts DEF SetStatus, TypeOK, RecordsOK
        <4>. QED BY <1>6, <3>1, <4>4, <4>5, <4>6
      <3>. QED BY <3>2, <3>3
    <2>2. Scanned(m)' = pos'[m]
      BY <1>1 DEF Scanned
    <2>. QED BY <1>1, <2>1, <2>2, MasterFacts DEF SecretsSeen, UnlockOf
  <1>. QED BY <1>5, <1>7, <1>8, <1>9, <1>10, <1>11 DEF Loop, Seen

\* The end of a record's turn: no call is in progress any more, and the
\* record is right about its swap.
LEMMA RecordDone ==
  ASSUME NEW m, Master(m), PromptInv(m), BotStep(m), NEW s \in Swaps,
         Handled(m, s),
         pc[m] \in {"refundLockedSbch", "handleBchUserDeposits",
                    "unlockBchUserDeposits"},
         UNCHANGED <<clocks, chains, revealedAt, heights, lap>>,
         \A c \in calls' : c.bot # m, \A tx \in sbchPool : tx.bot # m,
         \A c \in calls : c.bot = m => c.swap = s,
         \A t \in Swaps : t # s => /\ status'[m][t] = status[m][t]
                                   /\ lockTime'[m][t] = lockTime[m][t],
         swap[s] \in {"Locked", "Unlocked"} =>
           /\ status'[m][s] \in {"SbchLocked", "SecretRevealed", "BchUnlocked"}
           /\ lockTime'[m][s] = swapTime[s],
         status[m][s] \in {"SecretRevealed", "BchUnlocked"} =>
           status'[m][s] \in {"SecretRevealed", "BchUnlocked"},
         pc[m] = "refundLockedSbch" /\ lap[m] > 0 /\ Due(s) =>
           swap[s] # "Locked",
         pc[m] = "unlockBchUserDeposits" => utxo[s] # "locked"
  PROVE  Loop(m)' /\ Seen(m)'
  <1>1. /\ UNCHANGED <<bchHeight, sbchNow, utxo, swap, swapTime, sbchPool,
                       sbchLog, pc, mark, pos, revealedAt, lastSbch, lap>>
        /\ todo'[m] = todo[m] \ {s} /\ todo[m] \subseteq Swaps
    BY MasterFacts, MasterTypes
    DEF Handled, clocks, chains, heights, TypeOK, LoopsOK
  <1>2. \A t \in Swaps : (Due(t)' <=> Due(t)) /\ (Late(t)' => Late(t))
    BY <1>1, MasterLate DEF Due, SbchTimeLock
  <1>3. RefundsDone(m)'
    BY <1>1, <1>2, MasterFacts DEF RefundsDone
  <1>4. \A t \in Swaps : status[m][t] \in {"SecretRevealed", "BchUnlocked"} =>
                           status'[m][t] \in {"SecretRevealed", "BchUnlocked"}
    OBVIOUS
  <1>5. SecretsUsed(m)'
    BY <1>1, <1>2, <1>4, MasterFacts DEF SecretsUsed, UnlockOf
  <1>6. CallsOK(m)'
    BY <1>1 DEF CallsOK
  <1>7. WorkOK(m)'
    BY <1>1, MasterFacts DEF WorkOK
  <1>8. SwapsRecorded(m)'
    <2>1. ASSUME NEW t \in Swaps, swap[t] \in {"Locked", "Unlocked"}
          PROVE  Recorded(m, t)'
      <3>1. CASE t = s
        BY <1>1, <2>1, <3>1 DEF Recorded
      <3>2. CASE t # s
        <4>1. ~Locking(m, t)
          BY <3>2 DEF Locking
        <4>2. /\ status[m][t] \in {"SbchLocked", "SecretRevealed",
                                   "BchUnlocked"}
              /\ lockTime[m][t] = swapTime[t]
          BY <2>1, <4>1, MasterFacts DEF SwapsRecorded, Recorded
        <4>. QED BY <1>1, <3>2, <4>2 DEF Recorded
      <3>. QED BY <3>1, <3>2
    <2>. QED BY <1>1, <2>1 DEF SwapsRecorded
  <1>9. SecretsSeen(m)'
    <2>1. \A i \in 1..Len(sbchLog) : sbchLog[i].swap \in Swaps
      BY MasterFacts, LogParts
    <2>. QED
      BY <1>1, <1>4, <2>1, MasterFacts DEF SecretsSeen, Scanned, UnlockOf
  <1>. QED BY <1>3, <1>5, <1>6, <1>7, <1>8, <1>9 DEF Loop, Seen

\* What writing the status of one record leaves.
LEMMA OneStatus ==
  ASSUME TypeOK, NEW m \in Bots, NEW s \in Swaps, NEW st, SetStatus(m, s, st)
  PROVE  /\ status'[m][s] = st
         /\ \A t \in Swaps : t # s => status'[m][t] = status[m][t]
  BY DEF SetStatus, TypeOK, RecordsOK

\* A record of refundLockedSbch that is left alone is not due, and one that
\* cannot be refunded is not locked any more.
LEMMA NoRefundSteps ==
  ASSUME NEW m, Master(m), PromptInv(m), faults' = 0, NEW s \in Swaps,
         SkipRefund(m, s) \/ RefundSbchFails(m, s)
  PROVE  Loop(m)' /\ Seen(m)'
  <1>1. /\ pc[m] = "refundLockedSbch" /\ s \in todo[m] /\ Idle(m)
        /\ Handled(m, s)
        /\ UNCHANGED <<clocks, chains, revealedAt, heights, lap>>
        /\ UNCHANGED <<lockTime, calls>>
        /\ CheckRefunded(m, s) \/ UNCHANGED status
    BY NoFault, MasterFacts
    DEF SkipRefund, RefundSbchFails, Handling, records
  <1>2. /\ status[m][s] = "SbchLocked" /\ \A tx \in sbchPool : tx.bot # m
        /\ \A c \in calls' : c.bot # m
    BY <1>1, IdleSends, MasterFacts DEF WorkOK, Idle
  <1>3. ASSUME lap[m] > 0, Due(s) PROVE swap[s] # "Locked"
    <2>1. SUFFICES ASSUME swap[s] = "Locked" PROVE FALSE
      OBVIOUS
    <2>2. mark[m] = sbchNow /\ lockTime[m][s] = swapTime[s]
      BY <1>1, <1>3, <2>1, IdleRecords, MasterFacts DEF RefundsDone
    <2>3. /\ sbchNow \in Nat /\ swapTime[s] \in Nat
          /\ RefundTime(m, s) = swapTime[s] + TimeLock
      BY <2>2, MasterFacts, ChainTypes, TimeTypes DEF RefundTime
    <2>4. sbchNow > swapTime[s] + TimeLock
      BY <1>3, TimeTypes DEF Due
    <2>5. CASE SkipRefund(m, s)
      BY <2>2, <2>3, <2>4, <2>5, TimeTypes DEF SkipRefund
    <2>6. CASE RefundSbchFails(m, s)
      <3>1. ~Accepts("refund", s)
        BY <1>2, <2>6 DEF RefundSbchFails, CanSend
      <3>. QED BY <2>1, <2>3, <2>4, <3>1, TimeTypes DEF Accepts
    <2>. QED BY <2>5, <2>6
  <1>4. /\ \A t \in Swaps : t # s => status'[m][t] = status[m][t]
        /\ swap[s] # "Refunded" => status'[m][s] = status[m][s]
    BY <1>1, OneStatus, MasterFacts DEF CheckRefunded
  <1>5. swap[s] \in {"Locked", "Unlocked"} =>
          /\ status'[m][s] \in {"SbchLocked", "SecretRevealed", "BchUnlocked"}
          /\ lockTime[m][s] = swapTime[s]
    BY <1>1, <1>4, IdleRecords
  <1>. QED
    BY <1>1, <1>2, <1>3, <1>4, <1>5, RecordDone DEF Idle, BotStep

\* Records of deposits for which the master locks nothing: nothing of theirs
\* is locked.
LEMMA RejectSteps ==
  ASSUME NEW m, Master(m), PromptInv(m), faults' = 0, NEW s \in Swaps,
         \/ PriceChanged(m, s) \/ TooLateToLockSbch(m, s)
         \/ LockSbchFails(m, s)
  PROVE  Loop(m)' /\ Seen(m)'
  <1>1. /\ pc[m] = "handleBchUserDeposits" /\ s \in todo[m] /\ Idle(m)
        /\ Handled(m, s)
        /\ UNCHANGED <<clocks, chains, revealedAt, heights, lap>>
        /\ UNCHANGED <<lockTime, calls>>
        /\ \/ SetStatus(m, s, "PriceChanged")
           \/ SetStatus(m, s, "TooLateToLockSbch")
           \/ UNCHANGED status
    BY NoFault, MasterFacts
    DEF PriceChanged, TooLateToLockSbch, LockSbchFails, Handling, records
  <1>2. /\ status[m][s] = "New" /\ \A tx \in sbchPool : tx.bot # m
        /\ \A c \in calls' : c.bot # m
    BY <1>1, IdleSends, MasterFacts DEF WorkOK, Idle
  <1>3. swap[s] \notin {"Locked", "Unlocked"}
    BY <1>1, <1>2, IdleRecords
  <1>4. \A t \in Swaps : t # s => status'[m][t] = status[m][t]
    BY <1>1, OneStatus, MasterFacts
  <1>. QED
    BY <1>1, <1>2, <1>3, <1>4, RecordDone DEF Idle, BotStep

\* A prompt master without faults takes none of these steps.
LEMMA NeverTaken ==
  ASSUME NEW m, Master(m), PromptInv(m), faults' = 0
  PROVE  /\ ~BchBlockFails(m) /\ ~Crash(m)
         /\ \A s \in Swaps : ~WaitForOther(m, s) /\ ~RpcFails(m, s)
  <1>1. ~BchBlockFails(m) /\ ~Crash(m) /\ \A s \in Swaps : ~RpcFails(m, s)
    BY NoFault, MasterFacts DEF BchBlockFails, Crash, RpcFails
  <1>2. ASSUME NEW s \in Swaps, WaitForOther(m, s) PROVE FALSE
    <2>1. revealedAt[m][s] <= mark[m] /\ mark[m] - revealedAt[m][s] < 0
      BY <1>2, MasterFacts DEF WaitForOther, Handling, WorkOK
    <2>2. revealedAt[m][s] \in Nat /\ mark[m] \in Int
      BY MasterFacts, MasterTypes
    <2>. QED BY <2>1, <2>2
  <1>. QED BY <1>1, <1>2

\* The only call of the master has come back.
LEMMA CallDone ==
  ASSUME NEW m, Master(m), PromptInv(m), NEW c \in calls, c.bot = m,
         c.res # "pending", calls' = calls \ {c}
  PROVE  /\ c.swap \in Swaps /\ c.swap \in todo[m]
         /\ c.kind \in {"lock", "refund", "unlock"}
         /\ c.kind = "lock" => pc[m] = "handleBchUserDeposits"
                               /\ status[m][c.swap] = "New"
         /\ c.kind = "refund" => pc[m] = "refundLockedSbch"
                                 /\ status[m][c.swap] = "SbchLocked"
         /\ c.kind = "unlock" => pc[m] = "unlockBchUserDeposits"
         /\ \A d \in calls' : d.bot # m
         /\ \A d \in calls : d.bot = m => d = c
         /\ \A tx \in sbchPool : tx.bot # m
         /\ c.kind # "lock" /\ swap[c.swap] \in {"Locked", "Unlocked"} =>
              /\ status[m][c.swap] \in {"SbchLocked", "SecretRevealed",
                                        "BchUnlocked"}
              /\ lockTime[m][c.swap] = swapTime[c.swap]
  <1>1. \A d \in calls : d.bot = m => d = c
    BY MasterFacts DEF CallsOK
  <1>2. /\ c.swap \in todo[m] /\ c.swap \in Swaps
        /\ c.kind \in {"lock", "refund", "unlock"}
        /\ \A tx \in sbchPool : tx.bot # m
    BY <1>1, MasterFacts DEF CallsOK, TypeOK, LoopsOK, Calls, CallKinds
  <1>3. /\ c.kind = "lock" => pc[m] = "handleBchUserDeposits"
                              /\ status[m][c.swap] = "New"
        /\ c.kind = "refund" => pc[m] = "refundLockedSbch"
                                /\ status[m][c.swap] = "SbchLocked"
        /\ c.kind = "unlock" => pc[m] = "unlockBchUserDeposits"
    BY <1>2, MasterFacts DEF CallsOK, WorkOK
  <1>4. ASSUME c.kind # "lock", swap[c.swap] \in {"Locked", "Unlocked"}
        PROVE  /\ status[m][c.swap] \in {"SbchLocked", "SecretRevealed",
                                         "BchUnlocked"}
               /\ lockTime[m][c.swap] = swapTime[c.swap]
    <2>1. ~Locking(m, c.swap)
      BY <1>1, <1>4 DEF Locking
    <2>. QED BY <1>2, <1>4, <2>1, MasterFacts DEF SwapsRecorded, Recorded
  <1>. QED BY <1>1, <1>2, <1>3, <1>4

\* A call that went well is saved: SbchLocked with the time of the lock,
\* SbchRefunded or BchUnlocked.
LEMMA SaveResultStep ==
  ASSUME NEW m, Master(m), PromptInv(m), faults' = 0, NEW c \in calls, SaveResult(m, c)
  PROVE  Loop(m)' /\ Seen(m)'
  <1>. DEFINE s == c.swap
  <1>0. BotStep(m)
    BY DEF BotStep
  <1>1. /\ c.bot = m /\ c.res = "ok" /\ calls' = calls \ {c} /\ Handled(m, s)
        /\ UNCHANGED <<clocks, chains, revealedAt, heights, lap>>
    BY DEF SaveResult
  <1>2. /\ s \in Swaps
        /\ c.kind \in {"lock", "refund", "unlock"}
        /\ c.kind = "lock" => pc[m] = "handleBchUserDeposits"
                              /\ status[m][s] = "New"
        /\ c.kind = "refund" => pc[m] = "refundLockedSbch"
                                /\ status[m][s] = "SbchLocked"
        /\ c.kind = "unlock" => pc[m] = "unlockBchUserDeposits"
        /\ \A d \in calls' : d.bot # m
        /\ \A d \in calls : d.bot = m => d = c
        /\ \A tx \in sbchPool : tx.bot # m
        /\ c.kind # "lock" /\ swap[s] \in {"Locked", "Unlocked"} =>
              /\ status[m][s] \in {"SbchLocked", "SecretRevealed",
                                   "BchUnlocked"}
              /\ lockTime[m][s] = swapTime[s]
    BY <1>1, CallDone
  <1>3. CallBacked(c)
    BY MasterFacts DEF CallsBacked
  <1>4. CASE c.kind = "lock"
    <2>1. /\ SetStatus(m, s, "SbchLocked")
          /\ lockTime' = [lockTime EXCEPT ![m][s] = swapTime[s]]
      BY <1>4, NoFault, MasterFacts DEF SaveResult, LockTimeOf
    <2>2. /\ status'[m][s] = "SbchLocked" /\ lockTime'[m][s] = swapTime[s]
          /\ \A t \in Swaps : t # s => /\ status'[m][t] = status[m][t]
                                       /\ lockTime'[m][t] = lockTime[m][t]
      BY <1>2, <2>1, OneStatus, MasterFacts DEF TypeOK, RecordsOK
    <2>. HIDE DEF s
    <2>. QED BY <1>0, <1>1, <1>2, <1>4, <2>2, RecordDone DEF s
  <1>5. CASE c.kind = "refund"
    <2>1. SetStatus(m, s, "SbchRefunded") /\ UNCHANGED lockTime
      BY <1>5, NoFault, MasterFacts DEF SaveResult
    <2>2. \A t \in Swaps : t # s => status'[m][t] = status[m][t]
      BY <1>2, <2>1, OneStatus, MasterFacts
    <2>3. swap[s] = "Refunded"
      BY <1>1, <1>3, <1>5 DEF CallBacked
    <2>. HIDE DEF s
    <2>. QED BY <1>0, <1>1, <1>2, <1>5, <2>1, <2>2, <2>3, RecordDone DEF s
  <1>6. CASE c.kind = "unlock"
    <2>1. SetStatus(m, s, "BchUnlocked") /\ UNCHANGED lockTime
      BY <1>6, NoFault, MasterFacts DEF SaveResult
    <2>2. /\ status'[m][s] = "BchUnlocked"
          /\ \A t \in Swaps : t # s => status'[m][t] = status[m][t]
      BY <1>2, <2>1, OneStatus, MasterFacts
    <2>3. utxo[s] # "locked"
      BY <1>3, <1>6 DEF CallBacked
    <2>. HIDE DEF s
    <2>. QED BY <1>0, <1>1, <1>2, <1>6, <2>1, <2>2, <2>3, RecordDone DEF s
  <1>. QED BY <1>2, <1>4, <1>5, <1>6

\* A reverted refund finds the sBCH taken, or refunded by another bot.
LEMMA CallFailsStep ==
  ASSUME NEW m, Master(m), PromptInv(m), faults' = 0, NEW c \in calls, CallFails(m, c)
  PROVE  Loop(m)' /\ Seen(m)'
  <1>. DEFINE s == c.swap
  <1>0. BotStep(m)
    BY DEF BotStep
  <1>1. /\ c.bot = m /\ c.res = "reverted" /\ calls' = calls \ {c}
        /\ Handled(m, s) /\ UNCHANGED lockTime
        /\ UNCHANGED <<clocks, chains, revealedAt, heights, lap>>
        /\ CheckRefunded(m, s) \/ UNCHANGED status
    BY NoFault, MasterFacts DEF CallFails
  <1>2. c.kind = "refund" /\ swap[s] # "Locked"
    <2>1. c.kind \in {"lock", "refund", "unlock"}
      BY <1>1, CallDone
    <2>. QED BY <1>1, <2>1, MasterFacts DEF CallsOK
  <1>3. /\ s \in Swaps /\ pc[m] = "refundLockedSbch"
        /\ status[m][s] = "SbchLocked"
        /\ \A d \in calls' : d.bot # m
        /\ \A d \in calls : d.bot = m => d = c
        /\ \A tx \in sbchPool : tx.bot # m
        /\ swap[s] \in {"Locked", "Unlocked"} =>
              /\ status[m][s] \in {"SbchLocked", "SecretRevealed",
                                   "BchUnlocked"}
              /\ lockTime[m][s] = swapTime[s]
    BY <1>1, <1>2, CallDone
  <1>4. /\ \A t \in Swaps : t # s => status'[m][t] = status[m][t]
        /\ swap[s] # "Refunded" => status'[m][s] = status[m][s]
    BY <1>1, <1>3, OneStatus, MasterFacts DEF CheckRefunded
  <1>. HIDE DEF s
  <1>. QED BY <1>0, <1>1, <1>2, <1>3, <1>4, RecordDone DEF s

\* The master sends a transaction: it takes back sBCH, locks some or spends
\* a user's BCH.
LEMMA SendSteps ==
  ASSUME NEW m, Master(m), PromptInv(m), IInv', NEW s \in Swaps,
         RefundSbch(m, s) \/ LockSbch(m, s) \/ UnlockBch(m, s)
  PROVE  Loop(m)' /\ Seen(m)'
  <1>1. /\ s \in todo[m] /\ Idle(m) /\ ChainsOK /\ ChainsOK'
        /\ UNCHANGED <<clocks, swap, swapTime, sbchLog, pc, todo, mark, pos>>
        /\ UNCHANGED <<status, lockTime, revealedAt, lastSbch, lap>>
    BY MasterFacts DEF RefundSbch, LockSbch, SendTx, UnlockBch, Handling,
      records, heights, IInv, TypeOK
  <1>2. UNCHANGED Locals(m) /\ LogGrows /\ lap'[m] = lap[m]
    BY <1>1, LogKept DEF Locals
  <1>3. \A t \in Swaps : Moved(t) /\ (Late(t)' => Due(t)' \/ Late(t))
    <2>1. ~TickBch /\ ~TickSbch
      BY <1>1, TimeTypes DEF TickBch, TickSbch, clocks, ChainsOK
    <2>2. [Next]_vars
      BY MasterFacts DEF Next, BotStep
    <2>. QED BY <2>1, <2>2, SwapsMove, LateStep, MasterFacts
  <1>4. PICK c : /\ calls' = calls \cup {c} /\ c.bot = m /\ c.swap = s
                 /\ \/ /\ c.kind = "refund" /\ c.res = "pending"
                       /\ pc[m] = "refundLockedSbch"
                    \/ /\ c.kind = "lock" /\ c.res = "pending"
                       /\ pc[m] = "handleBchUserDeposits"
                       /\ swap[s] = "Invalid"
                    \/ /\ c.kind = "unlock" /\ c.res = "ok"
                       /\ pc[m] = "unlockBchUserDeposits"
                 /\ \A tx \in sbchPool' :
                      \/ tx \in sbchPool
                      \/ /\ tx.swap = s /\ tx.kind = c.kind
                         /\ c.res = "pending"
    <2>1. CASE RefundSbch(m, s)
      <3>. DEFINE c == [bot |-> m, kind |-> "refund", swap |-> s,
                        res |-> "pending"]
      <3>1. /\ calls' = calls \cup {c} /\ pc[m] = "refundLockedSbch"
            /\ sbchPool' = sbchPool \cup
                 {[bot |-> m, kind |-> "refund", swap |-> s]}
        BY <2>1 DEF RefundSbch, SendTx, Handling
      <3>2. /\ c.bot = m /\ c.swap = s /\ c.kind = "refund"
            /\ c.res = "pending"
        OBVIOUS
      <3>. HIDE DEF c
      <3>. QED BY <3>1, <3>2
    <2>2. CASE LockSbch(m, s)
      <3>. DEFINE c == [bot |-> m, kind |-> "lock", swap |-> s,
                        res |-> "pending"]
      <3>1. /\ calls' = calls \cup {c} /\ pc[m] = "handleBchUserDeposits"
            /\ sbchPool' = sbchPool \cup
                 {[bot |-> m, kind |-> "lock", swap |-> s]}
            /\ swap[s] = "Invalid"
        BY <2>2 DEF LockSbch, SendTx, CanSend, Accepts, Handling
      <3>2. /\ c.bot = m /\ c.swap = s /\ c.kind = "lock"
            /\ c.res = "pending"
        OBVIOUS
      <3>. HIDE DEF c
      <3>. QED BY <3>1, <3>2
    <2>3. CASE UnlockBch(m, s)
      <3>. DEFINE c == [bot |-> m, kind |-> "unlock", swap |-> s,
                        res |-> "ok"]
      <3>1. /\ calls' = calls \cup {c} /\ pc[m] = "unlockBchUserDeposits"
            /\ UNCHANGED sbchPool
        BY <2>3 DEF UnlockBch, Handling
      <3>2. c.bot = m /\ c.swap = s /\ c.kind = "unlock" /\ c.res = "ok"
        OBVIOUS
      <3>. HIDE DEF c
      <3>. QED BY <3>1, <3>2
    <2>. QED BY <2>1, <2>2, <2>3
  <1>5. \A d \in calls' : d.bot = m => d = c
    BY <1>1, <1>4 DEF Idle
  <1>6. CallsOK(m)'
    <2>1. ASSUME NEW tx \in sbchPool', tx.bot = m
          PROVE  \E d \in calls' : /\ d.bot = m /\ d.kind = tx.kind
                                   /\ d.swap = tx.swap /\ d.res = "pending"
      <3>1. tx.swap = s /\ tx.kind = c.kind /\ c.res = "pending"
        BY <1>1, <1>4, <2>1, IdleSends, MasterFacts
      <3>. QED BY <1>4, <3>1
    <2>2. pc[m] = "handleBchUserDeposits" => status[m][s] = "New"
      BY <1>1, MasterFacts DEF WorkOK
    <2>. QED BY <1>1, <1>4, <1>5, <2>1, <2>2 DEF CallsOK
  <1>7. SwapsRecorded(m)'
    <2>1. ASSUME NEW t \in Swaps, swap[t] \in {"Locked", "Unlocked"}
          PROVE  Recorded(m, t)'
      BY <1>1, <2>1, IdleRecords DEF Recorded
    <2>. QED BY <1>1, <2>1 DEF SwapsRecorded
  <1>. QED
    BY <1>1, <1>2, <1>3, <1>6, <1>7, LocalsKept DEF Loop, Seen

\* All of them.
LEMMA MasterSteps ==
  ASSUME NEW m, Master(m), PromptInv(m), faults' = 0, IInv', BotStep(m) \/ Crash(m)
  PROVE  Loop(m)' /\ Seen(m)'
  BY NeverTaken, StartStep, UpdatePricesStep, EndStageStep, ScanBchSteps,
    ScanSbchSteps, NoRefundSteps, RejectSteps, SaveResultStep, CallFailsStep,
    SendSteps
  DEF BotStep

-----------------------------------------------------------------------------
(* The slaves' steps.                                                      *)

\* What is known of a slave before a step.
LEMMA SlaveFacts ==
  ASSUME NEW m, Master(m), PromptInv(m), NEW b \in Slaves
  PROVE  /\ b \in Bots /\ b # m /\ Delay(b) = 2 /\ TypeOK
         /\ ReadsOK(b) /\ KnowsOK(b) /\ sbchNow \in Nat
         /\ mark[b] \in Int /\ todo[b] \subseteq Swaps
         /\ \A s \in Swaps : /\ Backed(status[b][s], s)
                             /\ lockTime[b][s] \in Nat /\ swapTime[s] \in Nat
                             /\ revealedAt[b][s] \in Nat
  <1>1. b \in Bots /\ b # m /\ Delay(b) = 2 /\ TypeOK
    BY MasterFacts, BotsAssumption DEF Delay
  <1>. QED
    BY <1>1, MasterFacts, MasterTypes, ChainTypes DEF SlavesWatch, RecordsBacked

\* A slave has nothing to refund: what it might refund is not locked any more.
LEMMA SlaveRefundsNothing ==
  ASSUME NEW m, Master(m), PromptInv(m), NEW b \in Slaves, NEW s \in Swaps
  PROVE  ~RefundSbch(b, s)
  <1>1. SUFFICES ASSUME RefundSbch(b, s) PROVE FALSE
    OBVIOUS
  <1>2. /\ pc[b] = "refundLockedSbch" /\ s \in todo[b]
        /\ mark[b] > RefundTime(b, s) /\ swap[s] = "Locked"
    BY <1>1 DEF RefundSbch, Handling, SendTx, CanSend, Accepts
  <1>3. mark[b] <= sbchNow /\ lockTime[b][s] = swapTime[s]
    BY <1>2, SlaveFacts DEF ReadsOK, KnowsOK
  <1>4. sbchNow <= swapTime[s] + TimeLock + 1
    BY <1>2, MasterFacts, TimeTypes DEF Deadlines, Open
  <1>5. mark[b] > swapTime[s] + TimeLock + 2
    BY <1>2, <1>3, SlaveFacts, TimeTypes DEF RefundTime
  <1>. QED BY <1>3, <1>4, <1>5, SlaveFacts, TimeTypes

\* A slave spends no output: the master has used every secret that is old
\* enough for it.
LEMMA SlaveSpendsNothing ==
  ASSUME NEW m, Master(m), PromptInv(m), NEW b \in Slaves, NEW s \in Swaps,
         UnlockBch(b, s)
  PROVE  utxo[s] # "locked"
  <1>1. /\ pc[b] = "unlockBchUserDeposits" /\ s \in todo[b]
        /\ mark[b] - revealedAt[b][s] >= Delay(b)
    BY DEF UnlockBch, Handling
  <1>2. mark[b] <= sbchNow /\ status[b][s] = "SecretRevealed"
    BY <1>1, SlaveFacts DEF ReadsOK
  <1>3. revealedAt[b][s] + 1 < sbchNow
    BY <1>1, <1>2, SlaveFacts
  <1>. QED BY <1>2, <1>3, SlaveFacts DEF KnowsOK

\* An output is spent by the call of a bot that is not a slave.
LEMMA MasterSpends ==
  ASSUME NEW m, Master(m), PromptInv(m), [Next]_vars, NEW s \in Swaps,
         utxo[s] = "locked", utxo'[s] = "unlocked", NEW c \in calls' \ calls
  PROVE  c.bot \notin Slaves
  <1>1. PICK b \in Bots, t \in Swaps : UnlockBch(b, t)
    BY TimedSteps, MasterFacts
    DEF Untimed, RefundSbch, LockSbch, SendTx, UserStep, UserLockBch,
      UserUnlockSbch, UserRefundBch, Mine, MineSbchTx, TickBch, TickSbch, Tick,
      chains, ChainsOK
  <1>2. t = s /\ c.bot = b
    BY <1>1, MasterFacts DEF UnlockBch, ChainsOK
  <1>. QED BY <1>1, <1>2, SlaveSpendsNothing

\* What a slave has read stays what its table says.
LEMMA ReadsStep ==
  ASSUME NEW m, Master(m), PromptInv(m), NEW b \in Slaves,
         BotStep(b) \/ Crash(b)
  PROVE  ReadsOK(b)'
  <1>1. b \in Bots /\ TypeOK /\ ReadsOK(b) /\ UNCHANGED sbchNow /\ sbchNow \in Nat
    BY SlaveFacts, BotsKeepTime DEF clocks
  <1>2. ASSUME NEW stage \in Stages, Enter(b, stage), UNCHANGED status
        PROVE  ReadsOK(b)'
    <2>1. /\ pc'[b] = stage /\ todo'[b] = Query(b, stage)
          /\ mark'[b] = Reading(stage)
      BY <1>1, <1>2 DEF Enter, TypeOK, LoopsOK
    <2>. QED BY <1>1, <1>2, <2>1 DEF ReadsOK, Query, Reading
  <1>3. ASSUME NEW stage \in Stages, EnterInVain(b, stage)
        PROVE  ReadsOK(b)'
    <2>1. /\ pc'[b] = stage /\ todo'[b] = {}
          /\ mark'[b] = Cursor(b, stage)
      BY <1>1, <1>3 DEF EnterInVain, TypeOK, LoopsOK
    <2>. QED BY <1>1, <2>1 DEF ReadsOK, Cursor
  <1>4. CASE UpdatePrices(b) \/ EndStage(b)
    <2>1. PICK stage \in Stages : /\ Enter(b, stage) \/ EnterInVain(b, stage)
                                  /\ UNCHANGED status
      BY <1>4 DEF UpdatePrices, EndStage, Stages, records
    <2>. QED BY <1>2, <1>3, <2>1
  <1>5. ASSUME NEW s \in Swaps, Handled(b, s),
               UNCHANGED status \/ \E st : SetStatus(b, s, st)
        PROVE  ReadsOK(b)'
    <2>1. /\ pc'[b] = pc[b] /\ mark'[b] = mark[b] /\ todo'[b] = todo[b] \ {s}
          /\ todo[b] \subseteq Swaps
      BY <1>1, <1>5 DEF Handled, TypeOK, LoopsOK
    <2>2. \A t \in Swaps : t # s => status'[b][t] = status[b][t]
      BY <1>1, <1>5, OneStatus
    <2>. QED BY <1>1, <2>1, <2>2 DEF ReadsOK
  <1>6. ASSUME UNCHANGED <<pc, todo, mark, status>>
        PROVE  ReadsOK(b)'
    BY <1>1, <1>6 DEF ReadsOK
  <1>7. ASSUME \/ Start(b) \/ Crash(b) \/ HandleBchBlock(b) \/ BchBlockFails(b)
               \/ HandleSbchLockEventB2S(b) \/ HandleSbchUnlockEvent(b)
        PROVE  ReadsOK(b)'
    <2>1. pc'[b] \in {"down", "updatePrices", "scanBchBlocks", "scanSbchEvents"}
      BY <1>1, <1>7
      DEF Start, Crash, HandleBchBlock, BchBlockFails, HandleSbchLockEventB2S,
        HandleSbchUnlockEvent, HandlingLog, NextLogHandled, TypeOK, LoopsOK
    <2>. QED BY <2>1 DEF ReadsOK
  <1>8. ASSUME SaveBchHeight(b) \/ SaveSbchHeight(b)
        PROVE  ReadsOK(b)'
    BY <1>6, <1>8 DEF SaveBchHeight, SaveSbchHeight, records, loop
  <1>9. ASSUME NEW s \in Swaps,
               RefundSbch(b, s) \/ LockSbch(b, s) \/ UnlockBch(b, s)
        PROVE  ReadsOK(b)'
    BY <1>6, <1>9 DEF RefundSbch, LockSbch, SendTx, UnlockBch, records
  <1>10. ASSUME NEW s \in Swaps,
                \/ SkipRefund(b, s) \/ RefundSbchFails(b, s)
                \/ PriceChanged(b, s) \/ TooLateToLockSbch(b, s)
                \/ LockSbchFails(b, s) \/ WaitForOther(b, s) \/ RpcFails(b, s)
         PROVE  ReadsOK(b)'
    BY <1>5, <1>10
    DEF SkipRefund, RefundSbchFails, PriceChanged, TooLateToLockSbch,
      LockSbchFails, WaitForOther, RpcFails, CheckRefunded, records
  <1>11. ASSUME NEW c \in calls, SaveResult(b, c) \/ CallFails(b, c)
         PROVE  ReadsOK(b)'
    <2>1. c.swap \in Swaps
      BY <1>1 DEF TypeOK, LoopsOK, Calls
    <2>2. /\ Handled(b, c.swap)
          /\ UNCHANGED status \/ \E st : SetStatus(b, c.swap, st)
      BY <1>11 DEF SaveResult, CallFails, CheckRefunded
    <2>. QED BY <1>5, <2>1, <2>2
  <1>. QED BY <1>4, <1>7, <1>8, <1>9, <1>10, <1>11 DEF BotStep

\* A slave's record of a lock has the time of the contract.
LEMMA LockTimesStep ==
  ASSUME NEW m, Master(m), PromptInv(m), faults' = 0, NEW b \in Slaves,
         BotStep(b) \/ Crash(b), NEW s \in Swaps, status'[b][s] = "SbchLocked"
  PROVE  lockTime'[b][s] = swapTime[s]
  <1>1. /\ b \in Bots /\ TypeOK
        /\ status[b][s] = "SbchLocked" => lockTime[b][s] = swapTime[s]
    BY SlaveFacts DEF KnowsOK
  <1>2. ASSUME NEW t \in Swaps, LockTimeOf(b, t),
               SetStatus(b, t, "SbchLocked")
        PROVE  lockTime'[b][s] = swapTime[s]
    BY <1>1, <1>2, NoFault DEF LockTimeOf, SetStatus, TypeOK, RecordsOK
  <1>3. ASSUME NEW t, NEW st, st # "SbchLocked", SetStatus(b, t, st),
               UNCHANGED lockTime
        PROVE  lockTime'[b][s] = swapTime[s]
    BY <1>1, <1>3 DEF SetStatus, TypeOK, RecordsOK
  <1>4. CASE UNCHANGED <<status, lockTime>>
    BY <1>1, <1>4
  <1>5. CASE HandleBchBlock(b)
    BY <1>1, <1>5 DEF HandleBchBlock, TypeOK, RecordsOK
  <1>6. CASE HandleSbchLockEventB2S(b)
    <2>1. NextLog(b).swap \in Swaps
      BY <1>1, <1>6, NextLogType, MasterFacts
      DEF HandleSbchLockEventB2S, HandlingLog
    <2>. QED
      BY <1>2, <1>4, <1>6, <2>1, NoFault, <1>1 DEF HandleSbchLockEventB2S
  <1>7. CASE HandleSbchUnlockEvent(b)
    BY <1>3, <1>4, <1>7 DEF HandleSbchUnlockEvent
  <1>8. CASE \E c \in calls : SaveResult(b, c) \/ CallFails(b, c)
    <2>1. PICK c \in calls : SaveResult(b, c) \/ CallFails(b, c)
      BY <1>8
    <2>2. c.swap \in Swaps
      BY <1>1 DEF TypeOK, LoopsOK, Calls
    <2>. QED
      BY <1>2, <1>3, <1>4, <2>1, <2>2
      DEF SaveResult, CallFails, CheckRefunded
  <1>9. ASSUME ~HandleBchBlock(b), ~HandleSbchLockEventB2S(b),
               ~HandleSbchUnlockEvent(b),
               \A c \in calls : ~SaveResult(b, c) /\ ~CallFails(b, c)
        PROVE  /\ UNCHANGED lockTime
               /\ \/ UNCHANGED status
                  \/ \E t, st : st # "SbchLocked" /\ SetStatus(b, t, st)
    BY <1>9
    DEF BotStep, Crash, Start, UpdatePrices, EndStage, SaveBchHeight,
      BchBlockFails, SaveSbchHeight, SkipRefund, RefundSbch, RefundSbchFails,
      PriceChanged, TooLateToLockSbch, LockSbch, LockSbchFails, SendTx,
      WaitForOther, UnlockBch, RpcFails, CheckRefunded, records
  <1>. QED BY <1>3, <1>4, <1>5, <1>6, <1>7, <1>8, <1>9

\* Time goes on: what a slave has known for one tick has been used.
LEMMA SlavesTick ==
  ASSUME NEW m, Master(m), PromptInv(m), TickBch \/ TickSbch, NEW b \in Slaves
  PROVE  ReadsOK(b)' /\ KnowsOK(b)'
  <1>1. /\ UNCHANGED <<pc, todo, mark, status, lockTime, revealedAt>>
        /\ UNCHANGED <<utxo, swap, swapTime>> /\ MayTick
    BY DEF TickBch, TickSbch, Tick, chains, records, loop
  <1>2. /\ sbchNow \in Nat /\ sbchNow' \in {sbchNow, sbchNow + 1}
        /\ ReadsOK(b) /\ KnowsOK(b) /\ mark[b] \in Int
    BY SlaveFacts DEF TickBch, TickSbch
  <1>3. ReadsOK(b)'
    <2>1. mark[b] <= sbchNow => mark[b] <= sbchNow'
      BY <1>2
    <2>. QED BY <1>1, <1>2, <2>1 DEF ReadsOK
  <1>4. ASSUME NEW s \in Swaps, status[b][s] = "SecretRevealed",
               revealedAt[b][s] + 1 < sbchNow'
        PROVE  utxo[s] # "locked"
    <2>1. revealedAt[b][s] < sbchNow
      BY <1>2, <1>4, SlaveFacts
    <2>2. Late(s) /\ swap[s] = "Unlocked"
      BY <1>4, <2>1, SlaveFacts DEF Late, KnownTo, Backed
    <2>. QED BY <1>1, <2>2, TickReady DEF Open
  <1>. QED BY <1>1, <1>2, <1>3, <1>4 DEF KnowsOK

\* The slaves go on watching in every step without a fault.
LEMMA SlavesWatchStep ==
  ASSUME NEW m, Master(m), PromptInv(m), [Next]_vars, faults' = 0
  PROVE  SlavesWatch'
  <1>1. /\ IInv /\ TypeOK /\ ChainsOK /\ SwapsBacked /\ SlavesWatch
        /\ Slaves \subseteq Bots
    BY MasterFacts, BotsAssumption
  <1>2. ASSUME NEW tx \in sbchPool' PROVE tx.bot \notin Slaves
    <2>1. CASE tx \in sbchPool
      BY <1>1, <2>1 DEF SlavesWatch
    <2>2. CASE tx \notin sbchPool
      <3>1. PICK b \in Bots, s \in Swaps : RefundSbch(b, s) \/ LockSbch(b, s)
        BY <2>2, TimedSteps
        DEF Untimed, UnlockBch, UserStep, UserLockBch, UserUnlockSbch,
          UserRefundBch, Mine, MineSbchTx, TickBch, TickSbch, Tick, chains
      <3>2. tx.bot = b
        BY <2>2, <3>1 DEF RefundSbch, LockSbch, SendTx
      <3>3. b \notin Slaves
        BY <3>1, SlaveRefundsNothing, MasterLocks, MasterFacts
      <3>. QED BY <3>2, <3>3
    <2>. QED BY <2>1, <2>2
  <1>3. ASSUME NEW b \in Slaves PROVE ReadsOK(b)' /\ KnowsOK(b)'
    <2>1. CASE TickBch \/ TickSbch
      BY <2>1, SlavesTick
    <2>2. CASE ~TickBch /\ ~TickSbch
      <3>1. UNCHANGED sbchNow /\ sbchNow \in Nat
        BY <1>1, <2>2, TimedSteps
        DEF Untimed, RefundSbch, LockSbch, SendTx, UnlockBch, UserStep,
          UserLockBch, UserUnlockSbch, UserRefundBch, Mine, MineSbchTx, clocks,
          ChainsOK
      <3>2. \/ BotStep(b) \/ Crash(b)
            \/ UNCHANGED <<pc[b], todo[b], mark[b], status[b], lockTime[b],
                           revealedAt[b]>>
        <4>1. CASE \E d \in Bots : BotStep(d) \/ Crash(d)
          BY <1>1, <4>1, OthersKept DEF Locals
        <4>. QED
          BY <2>2, <4>1
          DEF Next, UserStep, UserLockBch, UserUnlockSbch, UserRefundBch, Mine,
            MineSbchTx, records, loop, vars
      <3>3. ReadsOK(b)'
        BY <3>1, <3>2, ReadsStep, SlaveFacts DEF ReadsOK
      <3>4. ASSUME NEW s \in Swaps, status'[b][s] = "SbchLocked"
            PROVE  lockTime'[b][s] = swapTime'[s]
        <4>1. lockTime'[b][s] = swapTime[s]
          BY <3>2, <3>4, LockTimesStep, SlaveFacts DEF KnowsOK
        <4>2. swapTime'[s] = swapTime[s]
          <5>1. CASE BotStep(b) \/ Crash(b)
            BY <1>1, <5>1, BotsKeepTime
          <5>2. CASE ~(BotStep(b) \/ Crash(b))
            BY <1>1, <2>2, <3>2, <3>4, <5>2, SwapsMove, SlaveFacts
            DEF Backed, Moved
          <5>. QED BY <5>1, <5>2
        <4>. QED BY <4>1, <4>2
      <3>5. ASSUME NEW s \in Swaps, status'[b][s] = "SecretRevealed",
                   revealedAt'[b][s] + 1 < sbchNow'
            PROVE  utxo'[s] # "locked"
        <4>1. KnownTo(b, s) /\ revealedAt[b][s] + 1 < sbchNow
          BY <1>1, <3>1, <3>2, <3>5, OwnRecord, SlaveFacts DEF KnownTo
        <4>2. utxo[s] # "locked" /\ swap[s] = "Unlocked"
          BY <4>1, SlaveFacts DEF KnownTo, KnowsOK, Backed
        <4>. QED
          BY <1>1, <2>2, <4>2, SwapsMove, ChainTypes DEF Moved, Kept, SwapsBacked
      <3>. QED BY <3>3, <3>4, <3>5 DEF KnowsOK
    <2>. QED BY <2>1, <2>2
  <1>. QED BY <1>2, <1>3 DEF SlavesWatch

-----------------------------------------------------------------------------
\* Nothing has happened yet, and every bot that runs starts an iteration.
LEMMA PromptInvAtFirst ==
  ASSUME NEW m, Master(m), Init
  PROVE  PromptInv(m)
  <1>1. IInv /\ m \in Bots
    BY InitIInv DEF Master
  <1>2. /\ calls = {} /\ sbchPool = {} /\ sbchLog = <<>>
        /\ lastSbch[m] = 0 /\ lap[m] = 0 /\ sbchNow = 0 /\ bchHeight = 0
        /\ \A s \in Swaps : /\ revealedAt[m][s] = 0 /\ swap[s] = "Invalid"
                            /\ utxo[s] = "none"
        /\ \A b \in Bots : pc[b] \in {"down", "updatePrices"}
    BY <1>1 DEF Init
  <1>3. Loop(m)
    BY <1>1, <1>2 DEF Loop, RefundsDone, SecretsUsed, CallsOK, WorkOK
  <1>4. Seen(m) /\ Deadlines
    BY <1>2 DEF Seen, SwapsRecorded, SecretsSeen, Deadlines, Open
  <1>5. Times(m)
    BY <1>2, TimeTypes DEF Times, ClocksClose, SwapsTimed, PoolTimed
  <1>6. SlavesDoNotLock
    BY <1>2, BotsAssumption DEF SlavesDoNotLock
  <1>7. SlavesWatch
    BY <1>2, BotsAssumption DEF Init, SlavesWatch, ReadsOK, KnowsOK
  <1>. QED BY <1>1, <1>3, <1>4, <1>5, <1>6, <1>7 DEF PromptInv

\* What the master knows stays true in every step.
LEMMA PromptInvStep ==
  ASSUME NEW m, Master(m), PromptInv(m), [Next]_vars, faults' = 0
  PROVE  PromptInv(m)'
  <1>1. IInv' /\ SlavesDoNotLock'
    BY IInvStep, SlavesDoNotLockStep, MasterFacts
  <1>2. Times(m)' /\ Deadlines' /\ SlavesWatch'
    BY TimesStep, DeadlinesMet, SlavesWatchStep
  <1>3. Loop(m)' /\ Seen(m)'
    <2>1. CASE UNCHANGED vars
      <3>1. /\ UNCHANGED <<Locals(m), clocks, swap, sbchLog, calls, sbchPool>>
            /\ lap'[m] = lap[m] /\ ~TickBch /\ ~TickSbch
        BY <2>1, MasterFacts, TimeTypes
        DEF vars, clocks, Locals, chains, records, heights, loop, TickBch,
          TickSbch, ChainsOK
      <3>2. /\ LogGrows /\ OwnCallsKept(m)
            /\ \A s \in Swaps : Moved(s) /\ (Late(s)' => Due(s)' \/ Late(s))
        BY <3>1, LogKept, SwapsMove, LateStep, MasterFacts DEF OwnCallsKept
      <3>3. ChainsOK'
        BY <1>1 DEF IInv, TypeOK
      <3>. QED
        BY <3>1, <3>2, <3>3, LocalsKept, CallsKept DEF Loop, Seen
    <2>2. ASSUME NEW b \in Bots, BotStep(b) \/ Crash(b)
          PROVE  Loop(m)' /\ Seen(m)'
      BY <1>1, <2>2, SlaveSteps, MasterSteps
    <2>. QED
      BY <1>1, <2>1, <2>2, UserSteps, MineSteps, TickSteps DEF Next, Mine
  <1>. QED BY <1>1, <1>2, <1>3 DEF PromptInv

\* The count of faults changes in faults only.
LEMMA FaultSteps ==
  ASSUME [Next]_vars
  PROVE  faults' = faults \/ \E kind : Fault(kind)
  <1>1. ASSUME NEW b \in Bots, BotStep(b) \/ Crash(b)
        PROVE  Fine \/ \E kind : Fault(kind)
    <2>1. CASE \E c \in calls : SaveResult(b, c) \/ CallFails(b, c)
      BY <2>1 DEF SaveResult, CallFails, LockTimeOf
    <2>2. CASE \/ HandleBchBlock(b) \/ HandleSbchLockEventB2S(b)
               \/ HandleSbchUnlockEvent(b)
      BY <2>2
      DEF HandleBchBlock, HandleSbchLockEventB2S, HandleSbchUnlockEvent,
        LockTimeOf
    <2>3. CASE \/ Crash(b) \/ Start(b) \/ UpdatePrices(b) \/ EndStage(b)
               \/ SaveBchHeight(b) \/ BchBlockFails(b) \/ SaveSbchHeight(b)
      BY <2>3
      DEF Crash, Start, UpdatePrices, EndStage, SaveBchHeight, BchBlockFails,
        SaveSbchHeight
    <2>4. ASSUME NEW s \in Swaps,
                 \/ SkipRefund(b, s) \/ RefundSbch(b, s)
                 \/ RefundSbchFails(b, s) \/ PriceChanged(b, s)
                 \/ TooLateToLockSbch(b, s) \/ LockSbch(b, s)
                 \/ LockSbchFails(b, s) \/ WaitForOther(b, s)
                 \/ UnlockBch(b, s) \/ RpcFails(b, s)
          PROVE  Fine \/ \E kind : Fault(kind)
      BY <2>4
      DEF SkipRefund, RefundSbch, RefundSbchFails, PriceChanged,
        TooLateToLockSbch, LockSbch, LockSbchFails, SendTx, WaitForOther,
        UnlockBch, RpcFails
    <2>. QED BY <1>1, <2>1, <2>2, <2>3, <2>4 DEF BotStep
  <1>2. ASSUME \/ \E s \in Swaps : UserStep(s)
               \/ Mine \/ TickBch \/ TickSbch \/ UNCHANGED vars
        PROVE  UNCHANGED faults
    BY <1>2
    DEF UserStep, UserLockBch, UserUnlockSbch, UserRefundBch, Mine, MineSbchTx,
      TickBch, TickSbch, Tick, vars
  <1>. QED BY <1>1, <1>2 DEF Next, Fine

\* While nothing fails a prompt master acts before every slave: slaves send
\* no transaction to sBCH, and it is not a slave that spends a user's BCH.
THEOREM MasterIsFirst ==
  ASSUME Calm, NEW CONSTANT m \in Bots, Slaves = Bots \ {m}
  PROVE  Spec => MasterActsFirst
  <1>. DEFINE Inv == IInv /\ (faults = 0 => PromptInv(m))
  <1>. Master(m)
    BY DEF Master
  <1>1. Init => Inv
    BY PromptInvAtFirst, InitIInv
  <1>2. ASSUME Inv, [Next]_vars
        PROVE  IInv' /\ (faults' = 0 => PromptInv(m) /\ PromptInv(m)')
    <2>1. IInv'
      BY <1>2, IInvStep
    <2>2. faults' = 0 => faults = 0
      BY <1>2, FaultSteps, NoFault DEF IInv
    <2>. QED BY <1>2, <2>1, <2>2, PromptInvStep
  <1>3. Inv /\ [Next]_vars => Inv'
    BY <1>2
  <1>4. ASSUME Inv, [Next]_vars
        PROVE  [faults' = 0 =>
                  /\ \A tx \in sbchPool' : tx.bot \notin Slaves
                  /\ \A s \in Swaps :
                       utxo[s] = "locked" /\ utxo'[s] = "unlocked" =>
                         \A c \in calls' \ calls : c.bot \notin Slaves]_vars
    <2>1. ASSUME faults' = 0, NEW s \in Swaps,
                 utxo[s] = "locked", utxo'[s] = "unlocked",
                 NEW c \in calls' \ calls
          PROVE  c.bot \notin Slaves
      BY <1>2, <1>4, <2>1, MasterSpends
    <2>. QED BY <1>2, <1>4, <2>1 DEF PromptInv, SlavesWatch
  <1>. HIDE DEF Inv
  <1>. QED BY <1>1, <1>3, <1>4, PTL DEF Spec, MasterActsFirst

\* A prompt master that nothing fails does not lose its coins: no user takes
\* the sBCH and gets the BCH back as well, if the time lock leaves the Margin.
THEOREM BotNeverCheated ==
  ASSUME Calm, FaultFree, Margin, NEW CONSTANT m \in Bots, Slaves = Bots \ {m}
  PROVE  Spec => []BotNotCheated
  <1>. DEFINE Inv == PromptInv(m) /\ BotNotCheated /\ faults = 0
  <1>. Master(m)
    BY DEF Master
  <1>1. Init => Inv
    BY PromptInvAtFirst DEF Init, BotNotCheated
  <1>2. ASSUME Inv, [Next]_vars PROVE Inv'
    <2>1. \A kind : ~Fault(kind)
      BY <1>2, TimesAssumption DEF FaultFree, Fault
    <2>2. faults' = 0
      BY <1>2, <2>1, FaultSteps
    <2>. QED BY <1>2, <2>2, PromptInvStep, CoinsKept
  <1>3. Inv => BotNotCheated
    OBVIOUS
  <1>. HIDE DEF Inv
  <1>. QED BY <1>1, <1>2, <1>3, PTL DEF Spec

===============================================================================
