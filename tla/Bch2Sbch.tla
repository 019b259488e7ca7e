------------------------------ MODULE Bch2Sbch ------------------------------
(***************************************************************************)
(* A swap of BCH for sBCH.  A user locks BCH in an HTLC output that the    *)
(* bot can spend with a secret; the master bot locks sBCH for the user in  *)
(* the HTLC contract under the same hash lock; the user takes the sBCH and *)
(* thereby reveals the secret; a bot spends the BCH output with it.  A     *)
(* slave bot with its own database watches both chains and steps in when   *)
(* the master does not.                                                    *)
(*                                                                         *)
(* One bot is the single goroutine of MarketMakerBot.Loop: pc says which   *)
(* call of the loop body it is in, todo the records that call has read and *)
(* not handled yet.  What is in the database (status, lockTime,            *)
(* revealedAt, lastBch, lastSbch) survives a crash; the rest does not.     *)
(*                                                                         *)
(* BCH time is counted in blocks, one every 600 s; sBCH time (and the      *)
(* bots' own clocks) in units of 300 s, so that half a BCH time lock of n  *)
(* blocks is n units.                                                      *)
(***************************************************************************)
EXTENDS Integers, Sequences

CONSTANTS
  Bots, Slaves,     \* all bots, and those that run in slave mode
  LazyMaster,       \* the master's debug flag lazyMaster
  Swaps,            \* one element per hash lock
  Prices,           \* BCH prices, of deposits and of the market maker
  TimeLock,         \* bchTimeLock, in blocks
  Confirmations,    \* bchConfirmations
  MaxHeight,        \* bound: the last height of BCH
  LastDeposit,      \* bound: users lock BCH at this height or earlier
  Drift,            \* bound: how far the two clocks may be apart, in units
  Prompt,           \* TRUE: time waits for the bots and the sBCH miners
  DownAtFirst,      \* the bots that are down in the initial state
  FaultKinds,       \* which faults happen: "crash", "rpc", "timeout", "db"
  MaxFaults         \* bound: how many of them

ASSUME BotsAssumption == Slaves \subseteq Bots /\ DownAtFirst \subseteq Bots
ASSUME TimesAssumption ==
  /\ TimeLock \in Nat /\ Confirmations \in Nat /\ Drift \in Nat
  /\ MaxHeight \in Nat /\ LastDeposit \in Nat /\ MaxFaults \in Nat
ASSUME FlagsAssumption ==
  /\ Prompt \in BOOLEAN /\ LazyMaster \in BOOLEAN
ASSUME PricesAssumption == Prices \subseteq Nat

VARIABLES
  bchHeight, sbchNow,               \* the heights of BCH and time of sBCH
  utxo, depositHeight, price,       \* the users' BCH HTLC outputs
  swap, swapTime,                   \* the HTLC contract: state, lock time
  sbchPool, sbchLog,                \* sBCH: pending transactions, events
  status, lockTime, revealedAt,     \* each bot's bch2sbch records
  lastBch, lastSbch,                \* each bot's last heights
  pc, todo, mark, pos, calls,       \* each bot's progress through its loop
  bchPrice,                         \* each bot's copy of the BCH price
  lap,                              \* iterations since the last tick
  faults                            \* faults so far

clocks == <<bchHeight, sbchNow>>
chains == <<utxo, depositHeight, price, swap, swapTime, sbchPool, sbchLog>>
records == <<status, lockTime, revealedAt>>
heights == <<lastBch, lastSbch>>
loop == <<pc, todo, mark, pos, calls, bchPrice>>
vars == <<clocks, chains, records, heights, loop, lap, faults>>

Statuses == {"none", "New", "SbchLocked", "SecretRevealed", "BchUnlocked",
             "SbchRefunded", "TooLateToLockSbch", "PriceChanged"}
Stages == {"down", "updatePrices", "refundLockedSbch", "scanBchBlocks",
           "handleBchUserDeposits", "unlockBchUserDeposits",
           "scanSbchEvents"}
CallKinds == {"lock", "refund", "unlock"}
Calls == [bot: Bots, kind: CallKinds, swap: Swaps,
          res: {"pending", "ok", "reverted"}]
SbchTxs == [bot: Bots, kind: {"lock", "refund"}, swap: Swaps]
Events == [event: {"Lock", "Unlock"}, swap: Swaps]

ChainsOK ==
  /\ bchHeight \in Nat /\ sbchNow \in Nat
  /\ utxo \in [Swaps -> {"none", "locked", "unlocked", "refunded"}]
  /\ depositHeight \in [Swaps -> Nat]
  /\ price \in [Swaps -> Prices \cup {0}]
  /\ swap \in [Swaps -> {"Invalid", "Locked", "Unlocked", "Refunded"}]
  /\ swapTime \in [Swaps -> Nat]
  /\ sbchPool \subseteq SbchTxs
  /\ sbchLog \in Seq(Events)

RecordsOK ==
  /\ status \in [Bots -> [Swaps -> Statuses]]
  /\ lockTime \in [Bots -> [Swaps -> Nat]]
  /\ revealedAt \in [Bots -> [Swaps -> Nat]]
  /\ lastBch \in [Bots -> Nat] /\ lastSbch \in [Bots -> Nat]

LoopsOK ==
  /\ pc \in [Bots -> Stages]
  /\ todo \in [Bots -> SUBSET Swaps]
  /\ mark \in [Bots -> Int] /\ pos \in [Bots -> Nat]
  /\ calls \subseteq Calls
  /\ bchPrice \in [Bots -> Prices]
  /\ lap \in [Bots -> 0..3]
  /\ faults \in 0..MaxFaults

TypeOK == ChainsOK /\ RecordsOK /\ LoopsOK

Init ==
  /\ bchHeight = 0 /\ sbchNow = 0
  /\ utxo = [s \in Swaps |-> "none"]
  /\ depositHeight = [s \in Swaps |-> 0]
  /\ price = [s \in Swaps |-> 0]
  /\ swap = [s \in Swaps |-> "Invalid"]
  /\ swapTime = [s \in Swaps |-> 0]
  /\ sbchPool = {} /\ sbchLog = <<>>
  /\ status = [b \in Bots |-> [s \in Swaps |-> "none"]]
  /\ lockTime = [b \in Bots |-> [s \in Swaps |-> 0]]
  /\ revealedAt = [b \in Bots |-> [s \in Swaps |-> 0]]
  /\ lastBch = [b \in Bots |-> 0] /\ lastSbch = [b \in Bots |-> 0]
  /\ pc = [b \in Bots |-> IF b \in DownAtFirst THEN "down" ELSE "updatePrices"]
  /\ todo = [b \in Bots |-> {}]
  /\ mark = [b \in Bots |-> 0] /\ pos = [b \in Bots |-> 0]
  /\ calls = {}
  /\ bchPrice \in [Bots -> Prices]
  /\ lap = [b \in Bots |-> 0]
  /\ faults = 0

-----------------------------------------------------------------------------
(* Times.                                                                  *)

\* GetTxConfirmations of the user's BCH lock transaction
TxConfirmations(s) == bchHeight - depositHeight[s] + 1

\* bchTimeLockToSeconds(TimeLock) / 2, in units of 300 s
SbchTimeLock == TimeLock

\* Mutant: nobody gives the other bot time.
NoDelay(b) == 0

\* slaveDelaySeconds for a slave, twice that for a lazy master
Delay(b) == IF b \in Slaves THEN 2 ELSE IF LazyMaster THEN 4 ELSE 0

\* Mutant: the user's whole time lock counts as early enough.
TooLateAtExpiry(s) == TxConfirmations(s) > TimeLock

\* "do not send sBCH to user if it's too late!"
TooLate(s) == TxConfirmations(s) > TimeLock \div 3

\* Mutant: the whole BCH time lock instead of half of it.
RefundTimeNotHalved(b, s) == lockTime[b][s] + 2 * SbchTimeLock + Delay(b)

\* bot b does not ask for the refund of s before this time has passed
RefundTime(b, s) == lockTime[b][s] + SbchTimeLock + Delay(b)

-----------------------------------------------------------------------------
(* Helpers of the bots' steps.                                             *)

Fault(kind) ==
  /\ kind \in FaultKinds /\ faults < MaxFaults
  /\ faults' = faults + 1

Fine == UNCHANGED faults

Idle(b) == \A c \in calls : c.bot # b

\* Mutant: unlockBchUserDeposits does not wait for the secret.
QueryLocked(b, stage) ==
  {s \in Swaps :
     \/ stage = "refundLockedSbch" /\ status[b][s] = "SbchLocked"
     \/ /\ stage = "handleBchUserDeposits" /\ b \notin Slaves
        /\ status[b][s] = "New"
     \/ /\ stage = "unlockBchUserDeposits"
        /\ status[b][s] \in {"SbchLocked", "SecretRevealed"}}

\* what the call reads from its table when it starts
Query(b, stage) ==
  {s \in Swaps :
     \/ stage = "refundLockedSbch" /\ status[b][s] = "SbchLocked"
     \/ /\ stage = "handleBchUserDeposits" /\ b \notin Slaves
        /\ status[b][s] = "New"
     \/ stage = "unlockBchUserDeposits" /\ status[b][s] = "SecretRevealed"}

\* scanBchBlocks handles blocks with bchConfirmations confirmations
SafeHeight ==
  IF Confirmations > 0 THEN bchHeight - Confirmations + 1 ELSE bchHeight

\* the height or the time it reads once and uses throughout
Reading(stage) ==
  IF stage = "scanBchBlocks" THEN SafeHeight
  ELSE IF stage = "scanSbchEvents" THEN Len(sbchLog)
  ELSE IF stage \in {"refundLockedSbch", "unlockBchUserDeposits"} THEN sbchNow
  ELSE 0

\* Mutant: after a failure the events are scanned from the tip on.
CursorAtTip(b, stage) ==
  IF stage = "scanBchBlocks" THEN lastBch[b]
  ELSE IF stage = "scanSbchEvents"
    THEN IF faults > 0 THEN Len(sbchLog) ELSE lastSbch[b]
  ELSE 0

\* the saved height from which a scan resumes
Cursor(b, stage) ==
  IF stage = "scanBchBlocks" THEN lastBch[b]
  ELSE IF stage = "scanSbchEvents" THEN lastSbch[b]
  ELSE 0

Enter(b, stage) ==
  /\ pc' = [pc EXCEPT ![b] = stage]
  /\ todo' = [todo EXCEPT ![b] = Query(b, stage)]
  /\ mark' = [mark EXCEPT ![b] = Reading(stage)]
  /\ pos' = [pos EXCEPT ![b] = Cursor(b, stage)]

\* the call's first query or RPC fails and it returns at once
EnterInVain(b, stage) ==
  /\ pc' = [pc EXCEPT ![b] = stage]
  /\ todo' = [todo EXCEPT ![b] = {}]
  /\ mark' = [mark EXCEPT ![b] = Cursor(b, stage)]
  /\ pos' = [pos EXCEPT ![b] = Cursor(b, stage)]

Handling(b, stage, s) == pc[b] = stage /\ s \in todo[b] /\ Idle(b)

Handled(b, s) ==
  /\ todo' = [todo EXCEPT ![b] = @ \ {s}]
  /\ UNCHANGED <<pc, mark, pos, bchPrice>>

SetStatus(b, s, st) == status' = [status EXCEPT ![b][s] = st]

\* getTxTime of the lock transaction, or the local time if the RPC fails
LockTimeOf(b, s) ==
  \/ /\ Fine
     /\ lockTime' = [lockTime EXCEPT ![b][s] = swapTime[s]]
  \/ /\ Fault("rpc")
     /\ lockTime' = [lockTime EXCEPT ![b][s] = sbchNow]

-----------------------------------------------------------------------------
(* The sBCH chain: the HTLC contract and the transactions of the bots.     *)

\* whether the contract accepts the call now; estimateGas tells a bot
Accepts(kind, s) ==
  \/ kind = "lock" /\ swap[s] = "Invalid"
  \/ /\ kind = "refund" /\ swap[s] = "Locked"
     /\ sbchNow >= swapTime[s] + SbchTimeLock

\* NonceAt counts mined transactions only: one pending transaction per bot
CanSend(b, kind, s) ==
  Accepts(kind, s) /\ \A tx \in sbchPool : tx.bot # b

\* callHtlc up to waitTxReceipt
SendTx(b, kind, s) ==
  /\ CanSend(b, kind, s)
  /\ sbchPool' = sbchPool \cup {[bot |-> b, kind |-> kind, swap |-> s]}
  /\ calls' = calls \cup
       {[bot |-> b, kind |-> kind, swap |-> s, res |-> "pending"]}
  /\ Fine
  /\ UNCHANGED <<clocks, utxo, depositHeight, price, swap, swapTime, sbchLog,
                 records, heights, pc, todo, mark, pos, bchPrice, lap>>

\* the sender's call, if it still waits, finds the receipt
Receipts(tx, res) ==
  {IF c.bot = tx.bot /\ c.kind = tx.kind /\ c.swap = tx.swap
      THEN [c EXCEPT !.res = IF @ = "pending" THEN res ELSE @]
      ELSE c : c \in calls}

MineLock(tx) ==
  /\ tx.kind = "lock" /\ Accepts("lock", tx.swap)
  /\ swap' = [swap EXCEPT ![tx.swap] = "Locked"]
  /\ swapTime' = [swapTime EXCEPT ![tx.swap] = sbchNow]
  /\ sbchLog' = Append(sbchLog, [event |-> "Lock", swap |-> tx.swap])
  /\ calls' = Receipts(tx, "ok")

MineRefund(tx) ==
  /\ tx.kind = "refund" /\ Accepts("refund", tx.swap)
  /\ swap' = [swap EXCEPT ![tx.swap] = "Refunded"]
  /\ calls' = Receipts(tx, "ok")
  /\ UNCHANGED <<swapTime, sbchLog>>

MineReverted(tx) ==
  /\ ~Accepts(tx.kind, tx.swap)
  /\ calls' = Receipts(tx, "reverted")
  /\ UNCHANGED <<swap, swapTime, sbchLog>>

MineSbchTx(tx) ==
  /\ tx \in sbchPool
  /\ sbchPool' = sbchPool \ {tx}
  /\ MineLock(tx) \/ MineRefund(tx) \/ MineReverted(tx)
  /\ UNCHANGED <<clocks, utxo, depositHeight, price, records, heights,
                 pc, todo, mark, pos, bchPrice, lap, faults>>

-----------------------------------------------------------------------------
(* The users.                                                              *)

\* a user's lock transaction for swap s is in the next BCH block
UserLockBch(s, p) ==
  /\ utxo[s] = "none" /\ bchHeight < LastDeposit
  /\ utxo' = [utxo EXCEPT ![s] = "locked"]
  /\ depositHeight' = [depositHeight EXCEPT ![s] = bchHeight + 1]
  /\ price' = [price EXCEPT ![s] = p]
  /\ UNCHANGED <<clocks, swap, swapTime, sbchPool, sbchLog, records, heights,
                 loop, lap, faults>>

\* the user takes the sBCH: the secret is public from here on
UserUnlockSbch(s) ==
  /\ swap[s] = "Locked"
  /\ swap' = [swap EXCEPT ![s] = "Unlocked"]
  /\ sbchLog' = Append(sbchLog, [event |-> "Unlock", swap |-> s])
  /\ UNCHANGED <<clocks, utxo, depositHeight, price, swapTime, sbchPool,
                 records, heights, loop, lap, faults>>

\* the HTLC output's relative time lock has passed
UserRefundBch(s) ==
  /\ utxo[s] = "locked" /\ TxConfirmations(s) >= TimeLock
  /\ utxo' = [utxo EXCEPT ![s] = "refunded"]
  /\ UNCHANGED <<clocks, depositHeight, price, swap, swapTime, sbchPool,
                 sbchLog, records, heights, loop, lap, faults>>

-----------------------------------------------------------------------------
(* The loop of bot b, one call after the other.                            *)

\* getMarketMakerInfo may fail, or the last update may be too recent
UpdatePrices(b) ==
  /\ pc[b] = "updatePrices"
  /\ bchPrice' \in {[bchPrice EXCEPT ![b] = p] : p \in Prices}
  /\ \/ Fine /\ Enter(b, "refundLockedSbch")
     \/ Fault("rpc") /\ EnterInVain(b, "refundLockedSbch")
  /\ UNCHANGED <<clocks, chains, records, heights, calls, lap>>

\* the calls of the loop body, in their order
Successor ==
  {<<"refundLockedSbch", "scanBchBlocks">>,
   <<"scanBchBlocks", "handleBchUserDeposits">>,
   <<"handleBchUserDeposits", "unlockBchUserDeposits">>,
   <<"unlockBchUserDeposits", "scanSbchEvents">>,
   <<"scanSbchEvents", "updatePrices">>}

Finished(b) ==
  /\ todo[b] = {} /\ Idle(b)
  /\ pc[b] \in {"scanBchBlocks", "scanSbchEvents"} =>
       pos[b] >= mark[b] /\ pos[b] = Cursor(b, pc[b])

EndStage(b) ==
  /\ Finished(b)
  /\ \E stage \in Stages :
       /\ <<pc[b], stage>> \in Successor
       /\ \/ Fine /\ Enter(b, stage)
          \/ /\ stage # "updatePrices" /\ Fault("rpc")
             /\ EnterInVain(b, stage)
  /\ lap' = IF Prompt /\ pc[b] = "scanSbchEvents" /\ lap[b] < 3
              THEN [lap EXCEPT ![b] = @ + 1] ELSE lap
  /\ UNCHANGED <<clocks, chains, records, heights, calls, bchPrice>>

\* refundLockedSbch, one record
SkipRefund(b, s) ==
  /\ Handling(b, "refundLockedSbch", s)
  /\ mark[b] <= RefundTime(b, s)
  /\ Handled(b, s) /\ Fine
  /\ UNCHANGED <<clocks, chains, records, heights, calls, lap>>

RefundSbch(b, s) ==
  /\ Handling(b, "refundLockedSbch", s)
  /\ mark[b] > RefundTime(b, s)
  /\ SendTx(b, "refund", s)

\* Mutant: any failure is taken for a refund by the other bot.
AssumeRefunded(b, s) == SetStatus(b, s, "SbchRefunded")

\* the refund failed: getSwapState tells whether the other bot was faster
CheckRefunded(b, s) ==
  IF swap[s] = "Refunded" THEN SetStatus(b, s, "SbchRefunded")
                          ELSE UNCHANGED status

RefundSbchFails(b, s) ==
  /\ Handling(b, "refundLockedSbch", s)
  /\ mark[b] > RefundTime(b, s)
  /\ ~CanSend(b, "refund", s)
  /\ \/ Fine /\ CheckRefunded(b, s)
     \/ Fault("db") /\ UNCHANGED status
  /\ Handled(b, s)
  /\ UNCHANGED <<clocks, chains, lockTime, revealedAt, heights, calls, lap>>

\* scanBchBlocks: handleBchDepositTxB2S for every deposit in the next block
NewDeposits(b, h) ==
  {s \in Swaps : /\ utxo[s] # "none" /\ depositHeight[s] = h
                 /\ price[s] <= bchPrice[b]
                 /\ status[b][s] = "none"}

HandleBchBlock(b) ==
  /\ pc[b] = "scanBchBlocks" /\ pos[b] < mark[b] /\ pos[b] = lastBch[b]
  /\ \/ Fine /\ status' = [status EXCEPT ![b] =
           [s \in Swaps |-> IF s \in NewDeposits(b, pos[b] + 1)
                              THEN "New" ELSE @[s]]]
     \/ Fault("db") /\ UNCHANGED status
  /\ pos' = [pos EXCEPT ![b] = @ + 1]
  /\ UNCHANGED <<clocks, chains, lockTime, revealedAt, heights,
                 pc, todo, mark, calls, bchPrice, lap>>

\* Mutant: the last two blocks are to be scanned again.
SaveBchHeightBack(b) ==
  /\ pc[b] = "scanBchBlocks" /\ pos[b] > lastBch[b]
  /\ lastBch' = [lastBch EXCEPT ![b] = pos[b] - 2]
  /\ Fine
  /\ UNCHANGED <<clocks, chains, records, lastSbch, loop, lap>>

SaveBchHeight(b) ==
  /\ pc[b] = "scanBchBlocks" /\ pos[b] > lastBch[b]
  /\ lastBch' = [lastBch EXCEPT ![b] = pos[b]]
  /\ Fine
  /\ UNCHANGED <<clocks, chains, records, lastSbch, loop, lap>>

\* GetBlock fails: the scan ends early
BchBlockFails(b) ==
  /\ pc[b] = "scanBchBlocks" /\ pos[b] < mark[b] /\ pos[b] = lastBch[b]
  /\ Fault("rpc")
  /\ mark' = [mark EXCEPT ![b] = pos[b]]
  /\ UNCHANGED <<clocks, chains, records, heights, pc, todo, pos, calls,
                 bchPrice, lap>>

\* handleBchUserDeposits, one record
PriceChanged(b, s) ==
  /\ Handling(b, "handleBchUserDeposits", s)
  /\ price[s] > bchPrice[b]
  /\ \/ Fine /\ SetStatus(b, s, "PriceChanged")
     \/ Fault("db") /\ UNCHANGED status
  /\ Handled(b, s)
  /\ UNCHANGED <<clocks, chains, lockTime, revealedAt, heights, calls, lap>>

TooLateToLockSbch(b, s) ==
  /\ Handling(b, "handleBchUserDeposits", s)
  /\ price[s] <= bchPrice[b] /\ TooLate(s)
  /\ \/ Fine /\ SetStatus(b, s, "TooLateToLockSbch")
     \/ Fault("db") /\ UNCHANGED status
  /\ Handled(b, s)
  /\ UNCHANGED <<clocks, chains, lockTime, revealedAt, heights, calls, lap>>

LockSbch(b, s) ==
  /\ Handling(b, "handleBchUserDeposits", s)
  /\ price[s] <= bchPrice[b] /\ ~TooLate(s)
  /\ SendTx(b, "lock", s)

LockSbchFails(b, s) ==
  /\ Handling(b, "handleBchUserDeposits", s)
  /\ price[s] <= bchPrice[b] /\ ~TooLate(s)
  /\ ~CanSend(b, "lock", s)
  /\ Handled(b, s) /\ Fine
  /\ UNCHANGED <<clocks, chains, records, heights, calls, lap>>

\* unlockBchUserDeposits, one record
WaitForOther(b, s) ==
  /\ Handling(b, "unlockBchUserDeposits", s)
  /\ mark[b] - revealedAt[b][s] < Delay(b)
  /\ Handled(b, s) /\ Fine
  /\ UNCHANGED <<clocks, chains, records, heights, calls, lap>>

\* an output that is spent already counts as unlocked (isUtxoSpentErr)
UnlockBch(b, s) ==
  /\ Handling(b, "unlockBchUserDeposits", s)
  /\ mark[b] - revealedAt[b][s] >= Delay(b)
  /\ utxo' = [utxo EXCEPT ![s] = IF @ = "locked" THEN "unlocked" ELSE @]
  /\ calls' = calls \cup
       {[bot |-> b, kind |-> "unlock", swap |-> s, res |-> "ok"]}
  /\ Fine
  /\ UNCHANGED <<clocks, depositHeight, price, swap, swapTime, sbchPool,
                 sbchLog, records, heights, pc, todo, mark, pos, bchPrice,
                 lap>>

\* an RPC fails before a transaction is sent: the record is left as it is
RpcFails(b, s) ==
  /\ \/ /\ Handling(b, "refundLockedSbch", s)
        /\ mark[b] > RefundTime(b, s)
     \/ /\ Handling(b, "handleBchUserDeposits", s)
        /\ price[s] <= bchPrice[b]
     \/ /\ Handling(b, "unlockBchUserDeposits", s)
        /\ mark[b] - revealedAt[b][s] >= Delay(b)
  /\ Fault("rpc")
  /\ Handled(b, s)
  /\ UNCHANGED <<clocks, chains, records, heights, calls, lap>>

\* the transaction of call c went through: the record is saved
SaveResult(b, c) ==
  /\ c \in calls /\ c.bot = b /\ c.res = "ok"
  /\ \/ /\ c.kind = "lock" /\ SetStatus(b, c.swap, "SbchLocked")
        /\ LockTimeOf(b, c.swap)
     \/ /\ c.kind = "refund" /\ SetStatus(b, c.swap, "SbchRefunded")
        /\ Fine /\ UNCHANGED lockTime
     \/ /\ c.kind = "unlock" /\ SetStatus(b, c.swap, "BchUnlocked")
        /\ Fine /\ UNCHANGED lockTime
     \/ Fault("db") /\ UNCHANGED <<status, lockTime>>
  /\ calls' = calls \ {c}
  /\ Handled(b, c.swap)
  /\ UNCHANGED <<clocks, chains, revealedAt, heights, lap>>

\* It was reverted, or the answer to a transaction that was sent is lost or
\* does not come in time.  The question for the state of the swap may fail as
\* well, and the save that would follow it.
CallFails(b, c) ==
  /\ c \in calls /\ c.bot = b
  /\ \/ c.res = "reverted" /\ Fine
     \/ /\ c.res = "reverted" /\ c.kind = "refund"
        /\ Fault("rpc") \/ Fault("db")
     \/ c.res # "reverted" /\ Fault("timeout")
  /\ \/ c.kind = "refund" /\ CheckRefunded(b, c.swap)
     \/ (c.kind # "refund" \/ faults' # faults) /\ UNCHANGED status
  /\ calls' = calls \ {c}
  /\ Handled(b, c.swap)
  /\ UNCHANGED <<clocks, chains, lockTime, revealedAt, heights, lap>>

\* scanSbchEvents: the next log of the batch
NextLog(b) == sbchLog[pos[b] + 1]

HandlingLog(b, event) ==
  /\ pc[b] = "scanSbchEvents" /\ pos[b] < mark[b]
  /\ NextLog(b).event = event

NextLogHandled(b) ==
  /\ pos' = [pos EXCEPT ![b] = @ + 1]
  /\ UNCHANGED <<clocks, chains, heights, pc, todo, mark, calls, bchPrice,
                 lap>>

\* handleSbchLockEventB2S
HandleSbchLockEventB2S(b) ==
  /\ HandlingLog(b, "Lock")
  /\ LET s == NextLog(b).swap IN
     IF b \in Slaves /\ status[b][s] = "New"
       THEN \/ SetStatus(b, s, "SbchLocked") /\ LockTimeOf(b, s)
            \/ Fault("db") /\ UNCHANGED <<status, lockTime>>
       ELSE Fine /\ UNCHANGED <<status, lockTime>>
  /\ UNCHANGED revealedAt
  /\ NextLogHandled(b)

HandleSbchUnlockEvent(b) ==
  /\ HandlingLog(b, "Unlock")
  /\ LET s == NextLog(b).swap IN
     IF status[b][s] = "SbchLocked"
       THEN \/ /\ SetStatus(b, s, "SecretRevealed") /\ Fine
               /\ revealedAt' = [revealedAt EXCEPT ![b][s] = sbchNow]
            \/ Fault("db") /\ UNCHANGED <<status, revealedAt>>
       ELSE Fine /\ UNCHANGED <<status, revealedAt>>
  /\ UNCHANGED lockTime
  /\ NextLogHandled(b)

SaveSbchHeight(b) ==
  /\ pc[b] = "scanSbchEvents" /\ pos[b] = mark[b] /\ pos[b] > lastSbch[b]
  /\ lastSbch' = [lastSbch EXCEPT ![b] = pos[b]]
  /\ Fine
  /\ UNCHANGED <<clocks, chains, records, lastBch, loop, lap>>

\* the bot stops at any point, and starts again with its database only
Start(b) ==
  /\ pc[b] = "down"
  /\ pc' = [pc EXCEPT ![b] = "updatePrices"]
  /\ Fine
  /\ UNCHANGED <<clocks, chains, records, heights, todo, mark, pos, calls,
                 bchPrice, lap>>

Crash(b) ==
  /\ pc[b] # "down" /\ Fault("crash")
  /\ pc' = [pc EXCEPT ![b] = "down"]
  /\ todo' = [todo EXCEPT ![b] = {}]
  /\ mark' = [mark EXCEPT ![b] = 0] /\ pos' = [pos EXCEPT ![b] = 0]
  /\ calls' = {c \in calls : c.bot # b}
  /\ lap' = [lap EXCEPT ![b] = 0]
  /\ UNCHANGED <<clocks, chains, records, heights, bchPrice>>

-----------------------------------------------------------------------------
(* Time.  When Prompt, time does not pass before every bot has ended three  *)
(* iterations since the last tick and every transaction of theirs is mined *)
(* (one may have begun before the tick, one scans, the next one acts).     *)
(* It does not wait for a bot that is down.                                *)

MayTick ==
  Prompt => sbchPool = {} /\ \A b \in Bots : lap[b] = 3 \/ pc[b] = "down"

Tick ==
  /\ lap' = [b \in Bots |-> 0]
  /\ UNCHANGED <<chains, records, heights, loop, faults>>

TickBch ==
  /\ bchHeight < MaxHeight /\ 2 * bchHeight + 2 <= sbchNow + Drift /\ MayTick
  /\ bchHeight' = bchHeight + 1
  /\ Tick /\ UNCHANGED sbchNow

TickSbch ==
  /\ sbchNow < 2 * MaxHeight /\ sbchNow < 2 * bchHeight + Drift /\ MayTick
  /\ sbchNow' = sbchNow + 1
  /\ Tick /\ UNCHANGED bchHeight

-----------------------------------------------------------------------------

BotStep(b) ==
  \/ Start(b) \/ UpdatePrices(b) \/ EndStage(b)
  \/ HandleBchBlock(b) \/ SaveBchHeight(b) \/ BchBlockFails(b)
  \/ HandleSbchLockEventB2S(b) \/ HandleSbchUnlockEvent(b)
  \/ SaveSbchHeight(b)
  \/ \E s \in Swaps :
       \/ SkipRefund(b, s) \/ RefundSbch(b, s) \/ RefundSbchFails(b, s)
       \/ PriceChanged(b, s) \/ TooLateToLockSbch(b, s)
       \/ LockSbch(b, s) \/ LockSbchFails(b, s)
       \/ WaitForOther(b, s) \/ UnlockBch(b, s)
       \/ RpcFails(b, s)
  \/ \E c \in calls : SaveResult(b, c) \/ CallFails(b, c)

UserStep(s) ==
  \/ \E p \in Prices : UserLockBch(s, p)
  \/ UserUnlockSbch(s) \/ UserRefundBch(s)

Mine == \E tx \in sbchPool : MineSbchTx(tx)

Next ==
  \/ \E b \in Bots : BotStep(b) \/ Crash(b)
  \/ \E s \in Swaps : UserStep(s)
  \/ Mine \/ TickBch \/ TickSbch

Spec == Init /\ [][Next]_vars

\* Loop never returns, both chains go on, sBCH transactions get mined;
\* nothing obliges a user to act.
Fairness ==
  /\ \A b \in Bots : WF_vars(BotStep(b))
  /\ WF_vars(Mine) /\ WF_vars(TickBch) /\ WF_vars(TickSbch)

FairSpec == Spec /\ Fairness

-----------------------------------------------------------------------------
(* Properties.                                                             *)

\* What a bot's record says is true of the chains: sBCH was locked, the user
\* took it, the BCH output is spent, the sBCH came back.
Backed(st, s) ==
  /\ st # "none" => utxo[s] # "none"
  /\ st = "SbchLocked" => swap[s] # "Invalid"
  /\ st \in {"SecretRevealed", "BchUnlocked"} => swap[s] = "Unlocked"
  /\ st = "BchUnlocked" => utxo[s] \in {"unlocked", "refunded"}
  /\ st = "SbchRefunded" => swap[s] = "Refunded"

RecordsBacked == \A b \in Bots, s \in Swaps : Backed(status[b][s], s)

\* No bot spends a user's BCH unless the user has taken the sBCH.
UserNotCheated == \A s \in Swaps : utxo[s] = "unlocked" => swap[s] = "Unlocked"

\* The two locks of each swap behave like an atomic swap: the user's leg is
\* the BCH output, the bots' leg the contract's swap.
UserLeg == [s \in Swaps |-> IF utxo[s] = "unlocked" THEN "claimed" ELSE utxo[s]]
BotLeg == [s \in Swaps |-> IF swap[s] = "Invalid" THEN "none"
                           ELSE IF swap[s] = "Locked" THEN "locked"
                           ELSE IF swap[s] = "Unlocked" THEN "claimed"
                           ELSE "refunded"]

Swap == INSTANCE AtomicSwap WITH userLeg <- UserLeg, botLeg <- BotLeg

IsAtomicSwap == Swap!Spec

\* No user ends up with both coins.
BotNotCheated ==
  \A s \in Swaps : ~(swap[s] = "Unlocked" /\ utxo[s] = "refunded")

\* While the master is prompt and nothing fails, a slave only watches: it
\* sends nothing to sBCH, and the output a bot spends is spent by the master.
MasterActsFirst ==
  [][faults' = 0 =>
     /\ \A tx \in sbchPool' : tx.bot \notin Slaves
     /\ \A s \in Swaps : utxo[s] = "locked" /\ utxo'[s] = "unlocked" =>
          \A c \in calls' \ calls : c.bot \notin Slaves]_vars

\* sBCH that a bot knows to be locked is taken by the user or comes back, if
\* the bounded clock reaches the time of the refund.
LockedSbchSettles ==
  \A b \in Bots, s \in Swaps :
    (/\ status[b][s] = "SbchLocked"
     /\ lockTime[b][s] + SbchTimeLock + Delay(b) < 2 * MaxHeight)
      ~> swap[s] \in {"Unlocked", "Refunded"}

\* Once the user has taken the sBCH that a bot knows to be locked, the user's
\* BCH does not stay unspent, whatever single steps fail or crash.
RevealedDepositSpent ==
  \A b \in Bots, s \in Swaps :
    swap[s] = "Unlocked" /\ status[b][s] \in {"SbchLocked", "SecretRevealed"}
      ~> utxo[s] # "locked"

\* The table's "too late" path: nothing is locked for a late deposit.
NothingLockedTooLate ==
  \A b \in Bots, s \in Swaps :
    status[b][s] = "TooLateToLockSbch" => swap[s] = "Invalid"

\* The table's handleSbchLockEventB2S row: a slave that has scanned the Lock
\* event of a swap it has a record of does not keep it as New.
SlaveFollowsLock ==
  \A b \in Slaves, s \in Swaps :
    (\E i \in 1..lastSbch[b] : sbchLog[i] = [event |-> "Lock", swap |-> s])
      => status[b][s] # "New"

=============================================================================
