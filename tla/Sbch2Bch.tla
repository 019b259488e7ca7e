------------------------------ MODULE Sbch2Bch ------------------------------
(***************************************************************************)
(* A swap of sBCH for BCH, the other direction of Bch2Sbch.  A user locks  *)
(* sBCH in the HTLC contract; the master bot sends a BCH transaction whose *)
(* HTLC output is under the same hash lock; the user spends that output    *)
(* and thereby reveals the secret; a bot finds the spending transaction in *)
(* a block and unlocks the sBCH with the secret.                           *)
(*                                                                         *)
(* Time, the bots' loop, their databases and the faults are as in          *)
(* Bch2Sbch.  A BCH transaction is in the mempool until the next block.    *)
(* The chain does not keep a bot from sending two lock transactions for    *)
(* one hash lock, so the locks are a sequence; a record and a call refer   *)
(* to a lock transaction (BchLockTxHash) by its place in it, 0 is none.    *)
(***************************************************************************)
EXTENDS Integers, Sequences

CONSTANTS
  Bots, Slaves,     \* all bots, and those that run in slave mode
  LazyMaster,       \* the master's debug flag lazyMaster
  Swaps,            \* one element per hash lock
  Prices,           \* sBCH prices, of deposits and of the market maker
  TimeLock,         \* sbchTimeLock, in units of 300 s
  Confirmations,    \* bchConfirmations
  MaxHeight,        \* bound: the last height of BCH
  LastDeposit,      \* bound: users lock sBCH at this time or earlier
  Drift,            \* bound: how far the two clocks may be apart, in units
  Prompt,           \* TRUE: time waits for the bots and the sBCH miners
  DownAtFirst,      \* the bots that are down in the initial state
  FaultKinds,       \* which faults happen: "crash", "rpc", "timeout", "db"
  MaxFaults         \* bound: how many of them

ASSUME BotsAssumption == Slaves \subseteq Bots /\ DownAtFirst \subseteq Bots
ASSUME TimesAssumption ==
  /\ TimeLock \in Nat /\ Confirmations \in Nat /\ Drift \in Nat
  /\ MaxHeight \in Nat /\ LastDeposit \in Nat /\ MaxFaults \in Nat
ASSUME FlagsAssumption ==
  /\ Prompt \in BOOLEAN /\ LazyMaster \in BOOLEAN
ASSUME PricesAssumption == Prices \subseteq Nat

VARIABLES
  bchHeight, sbchNow,               \* the heights of BCH and time of sBCH
  swap, swapTime, price,            \* the users' swaps in the HTLC contract
  locks,                            \* the bots' BCH lock transactions
  sbchPool, sbchLog,                \* sBCH: pending unlocks, Lock events
  status, lockTx, revealedAt,       \* each bot's sbch2bch records
  strayTx,                          \* its record without a hash lock, if any
  lastBch, lastSbch,                \* each bot's last heights
  pc, todo, mark, pos, calls,       \* each bot's progress through its loop
  gotNewBlocks, sbchPrice,          \* locals of Loop and of the bot
  lap,                              \* iterations since the last tick
  faults                            \* faults so far

clocks == <<bchHeight, sbchNow>>
chains == <<swap, swapTime, price, locks, sbchPool, sbchLog>>
records == <<status, lockTx, revealedAt, strayTx>>
heights == <<lastBch, lastSbch>>
loop == <<pc, todo, mark, pos, calls, gotNewBlocks, sbchPrice>>
vars == <<clocks, chains, records, heights, loop, lap, faults>>

Statuses == {"none", "New", "BchLocked", "SecretRevealed", "SbchUnlocked",
             "BchRefunded", "TooLateToLockBch", "PriceChanged"}
Stages == {"down", "updatePrices", "scanBchBlocks", "refundLockedBCH",
           "scanSbchEvents", "handleSbchUserDeposits",
           "unlockSbchUserDeposits"}
LockTxs == [swap: Swaps, height: Nat, spent: {"no", "user", "bot"},
            spentAt: Nat]
SbchTxs == [bot: Bots, swap: Swaps]
Calls == [bot: Bots, kind: {"lock", "refund", "unlock"}, swap: Swaps,
          tx: Nat, res: {"pending", "ok", "reverted"}]

ChainsOK ==
  /\ bchHeight \in Nat /\ sbchNow \in Nat
  /\ swap \in [Swaps -> {"Invalid", "Locked", "Unlocked", "Refunded"}]
  /\ swapTime \in [Swaps -> Nat]
  /\ price \in [Swaps -> Prices \cup {0}]
  /\ locks \in Seq(LockTxs)
  /\ sbchPool \subseteq SbchTxs
  /\ sbchLog \in Seq(Swaps)

RecordsOK ==
  /\ status \in [Bots -> [Swaps -> Statuses]]
  /\ lockTx \in [Bots -> [Swaps -> Nat]]
  /\ revealedAt \in [Bots -> [Swaps -> Nat]]
  /\ strayTx \in [Bots -> Nat]
  /\ lastBch \in [Bots -> Nat] /\ lastSbch \in [Bots -> Nat]

LoopsOK ==
  /\ pc \in [Bots -> Stages]
  /\ todo \in [Bots -> SUBSET Swaps]
  /\ mark \in [Bots -> Int] /\ pos \in [Bots -> Nat]
  /\ calls \subseteq Calls
  /\ gotNewBlocks \in [Bots -> BOOLEAN]
  /\ sbchPrice \in [Bots -> Prices]
  /\ lap \in [Bots -> 0..3]
  /\ faults \in 0..MaxFaults

TypeOK == ChainsOK /\ RecordsOK /\ LoopsOK

Init ==
  /\ bchHeight = 0 /\ sbchNow = 0
  /\ swap = [s \in Swaps |-> "Invalid"]
  /\ swapTime = [s \in Swaps |-> 0]
  /\ price = [s \in Swaps |-> 0]
  /\ locks = <<>> /\ sbchPool = {} /\ sbchLog = <<>>
  /\ status = [b \in Bots |-> [s \in Swaps |-> "none"]]
  /\ lockTx = [b \in Bots |-> [s \in Swaps |-> 0]]
  /\ revealedAt = [b \in Bots |-> [s \in Swaps |-> 0]]
  /\ strayTx = [b \in Bots |-> 0]
  /\ lastBch = [b \in Bots |-> 0] /\ lastSbch = [b \in Bots |-> 0]
  /\ pc = [b \in Bots |-> IF b \in DownAtFirst THEN "down" ELSE "updatePrices"]
  /\ todo = [b \in Bots |-> {}]
  /\ mark = [b \in Bots |-> 0] /\ pos = [b \in Bots |-> 0]
  /\ calls = {}
  /\ gotNewBlocks = [b \in Bots |-> FALSE]
  /\ sbchPrice \in [Bots -> Prices]
  /\ lap = [b \in Bots |-> 0]
  /\ faults = 0

-----------------------------------------------------------------------------
(* Times.                                                                  *)

\* sbchTimeLockToBlocks(TimeLock) / 2: integer division, twice
BchTimeLock == (TimeLock \div 2) \div 2

\* GetTxConfirmations of a lock transaction; 0 while it is in the mempool
TxConfirmations(i) == bchHeight - locks[i].height + 1

\* Mutant: nobody gives the other bot time.
NoExtraBlocks(b) == 0

\* slaveDelayBchBlocks for a slave, twice that for a lazy master
ExtraBlocks(b) == IF b \in Slaves THEN 1 ELSE IF LazyMaster THEN 2 ELSE 0

\* slaveDelaySeconds for a slave, twice that for a lazy master
Delay(b) == IF b \in Slaves THEN 2 ELSE IF LazyMaster THEN 4 ELSE 0

\* Mutant: the user's whole time lock counts as early enough.
TooLateAtExpiry(s) == sbchNow - swapTime[s] > TimeLock

\* "do not send BCH to user if its too late!"
TooLate(s) == sbchNow - swapTime[s] > TimeLock \div 3

\* Mutant: the time lock in seconds taken for one in blocks.
RefundDueInUnits(b, s) ==
  TxConfirmations(lockTx[b][s]) > 2 * TimeLock + ExtraBlocks(b)

\* whether bot b takes back what it locked for s
RefundDue(b, s) ==
  TxConfirmations(lockTx[b][s]) > BchTimeLock + ExtraBlocks(b)

-----------------------------------------------------------------------------
(* Helpers of the bots' steps.                                             *)

Fault(kind) ==
  /\ kind \in FaultKinds /\ faults < MaxFaults
  /\ faults' = faults + 1

Fine == UNCHANGED faults

Idle(b) == \A c \in calls : c.bot # b

\* Mutant: unlockSbchUserDeposits does not wait for the secret.
QueryLocked(b, stage) ==
  {s \in Swaps :
     \/ /\ stage = "refundLockedBCH" /\ gotNewBlocks[b]
        /\ status[b][s] = "BchLocked"
     \/ /\ stage = "handleSbchUserDeposits" /\ b \notin Slaves
        /\ status[b][s] = "New"
     \/ /\ stage = "unlockSbchUserDeposits"
        /\ status[b][s] \in {"BchLocked", "SecretRevealed"}}

\* what the call reads from its table when it starts
Query(b, stage) ==
  {s \in Swaps :
     \/ /\ stage = "refundLockedBCH" /\ gotNewBlocks[b]
        /\ status[b][s] = "BchLocked"
     \/ /\ stage = "handleSbchUserDeposits" /\ b \notin Slaves
        /\ status[b][s] = "New"
     \/ stage = "unlockSbchUserDeposits" /\ status[b][s] = "SecretRevealed"}

\* scanBchBlocks handles blocks with bchConfirmations confirmations
SafeHeight ==
  IF Confirmations > 0 THEN bchHeight - Confirmations + 1 ELSE bchHeight

\* the height or the time it reads once and uses throughout
Reading(stage) ==
  IF stage = "scanBchBlocks" THEN SafeHeight
  ELSE IF stage = "scanSbchEvents" THEN Len(sbchLog)
  ELSE IF stage = "unlockSbchUserDeposits" THEN sbchNow
  ELSE 0

\* the saved height from which a scan resumes
Cursor(b, stage) ==
  IF stage = "scanBchBlocks" THEN lastBch[b]
  ELSE IF stage = "scanSbchEvents" THEN lastSbch[b]
  ELSE 0

Enter(b, stage) ==
  /\ pc' = [pc EXCEPT ![b] = stage]
  /\ todo' = [todo EXCEPT ![b] = Query(b, stage)]
  /\ mark' = [mark EXCEPT ![b] = Reading(stage)]
  /\ pos' = [pos EXCEPT ![b] = Cursor(b, stage)]
  /\ gotNewBlocks' = [gotNewBlocks EXCEPT ![b] =
       IF stage = "scanBchBlocks" THEN SafeHeight > lastBch[b] ELSE @]

\* the call's first query or RPC fails and it returns at once
EnterInVain(b, stage) ==
  /\ pc' = [pc EXCEPT ![b] = stage]
  /\ todo' = [todo EXCEPT ![b] = {}]
  /\ mark' = [mark EXCEPT ![b] = Cursor(b, stage)]
  /\ pos' = [pos EXCEPT ![b] = Cursor(b, stage)]
  /\ gotNewBlocks' = [gotNewBlocks EXCEPT ![b] =
       @ /\ stage # "scanBchBlocks"]

Handling(b, stage, s) == pc[b] = stage /\ s \in todo[b] /\ Idle(b)

Handled(b, s) ==
  /\ todo' = [todo EXCEPT ![b] = @ \ {s}]
  /\ UNCHANGED <<pc, mark, pos, gotNewBlocks, sbchPrice>>

SetStatus(b, s, st) == status' = [status EXCEPT ![b][s] = st]

SetLockTx(b, s, i) == lockTx' = [lockTx EXCEPT ![b][s] = i]

-----------------------------------------------------------------------------
(* The sBCH chain.                                                         *)

\* NonceAt counts mined transactions only: one pending transaction per bot
CanUnlock(b, s) == swap[s] = "Locked" /\ \A tx \in sbchPool : tx.bot # b

Receipts(tx, res) ==
  {IF c.bot = tx.bot /\ c.kind = "unlock" /\ c.swap = tx.swap
      THEN [c EXCEPT !.res = IF @ = "pending" THEN res ELSE @]
      ELSE c : c \in calls}

MineSbchTx(tx) ==
  /\ tx \in sbchPool
  /\ sbchPool' = sbchPool \ {tx}
  /\ \/ /\ swap[tx.swap] = "Locked"
        /\ swap' = [swap EXCEPT ![tx.swap] = "Unlocked"]
        /\ calls' = Receipts(tx, "ok")
     \/ /\ swap[tx.swap] # "Locked"
        /\ calls' = Receipts(tx, "reverted")
        /\ UNCHANGED swap
  /\ UNCHANGED <<clocks, swapTime, price, locks, sbchLog, records, heights,
                 pc, todo, mark, pos, gotNewBlocks, sbchPrice, lap, faults>>

-----------------------------------------------------------------------------
(* The users.                                                              *)

UserLockSbch(s, p) ==
  /\ swap[s] = "Invalid" /\ sbchNow <= LastDeposit
  /\ swap' = [swap EXCEPT ![s] = "Locked"]
  /\ swapTime' = [swapTime EXCEPT ![s] = sbchNow]
  /\ price' = [price EXCEPT ![s] = p]
  /\ sbchLog' = Append(sbchLog, s)
  /\ UNCHANGED <<clocks, locks, sbchPool, records, heights, loop, lap, faults>>

\* what was locked at the contract's time lock ago goes back
UserRefundSbch(s) ==
  /\ swap[s] = "Locked" /\ sbchNow >= swapTime[s] + TimeLock
  /\ swap' = [swap EXCEPT ![s] = "Refunded"]
  /\ UNCHANGED <<clocks, swapTime, price, locks, sbchPool, sbchLog, records,
                 heights, loop, lap, faults>>

\* an output is spent at most once; the transaction is in the next block
Spend(i, who) ==
  locks' = [locks EXCEPT ![i].spent = who, ![i].spentAt = bchHeight + 1]

\* the user takes the BCH: the secret is public from here on
UserUnlockBch(i) ==
  /\ locks[i].spent = "no"
  /\ Spend(i, "user")
  /\ UNCHANGED <<clocks, swap, swapTime, price, sbchPool, sbchLog, records,
                 heights, loop, lap, faults>>

-----------------------------------------------------------------------------
(* The loop of bot b, one call after the other.                            *)

\* getMarketMakerInfo may fail, or the last update may be too recent
UpdatePrices(b) ==
  /\ pc[b] = "updatePrices"
  /\ sbchPrice' \in {[sbchPrice EXCEPT ![b] = p] : p \in Prices}
  /\ \/ Fine /\ Enter(b, "scanBchBlocks")
     \/ Fault("rpc") /\ EnterInVain(b, "scanBchBlocks")
  /\ UNCHANGED <<clocks, chains, records, heights, calls, lap>>

\* the calls of the loop body, in their order
Successor ==
  {<<"scanBchBlocks", "refundLockedBCH">>,
   <<"refundLockedBCH", "scanSbchEvents">>,
   <<"scanSbchEvents", "handleSbchUserDeposits">>,
   <<"handleSbchUserDeposits", "unlockSbchUserDeposits">>,
   <<"unlockSbchUserDeposits", "updatePrices">>}

Finished(b) ==
  /\ todo[b] = {} /\ Idle(b)
  /\ pc[b] \in {"scanBchBlocks", "scanSbchEvents"} =>
       pos[b] >= mark[b] /\ pos[b] = Cursor(b, pc[b])

EndStage(b) ==
  /\ Finished(b)
  /\ \E stage \in Stages :
       /\ <<pc[b], stage>> \in Successor
       /\ \/ Fine /\ Enter(b, stage)
          \/ /\ stage # "updatePrices" /\ Fault("rpc")
             /\ EnterInVain(b, stage)
  /\ lap' = IF Prompt /\ pc[b] = "unlockSbchUserDeposits" /\ lap[b] < 3
              THEN [lap EXCEPT ![b] = @ + 1] ELSE lap
  /\ UNCHANGED <<clocks, chains, records, heights, calls, sbchPrice>>

\* handleBchDepositTxS2B, slaves only: tx[s] is the last lock transaction
\* for s in block h, 0 if there is none.  There is no check of the status.
LastDeposits(h, tx) ==
  \A s \in Swaps :
    LET found == {i \in DOMAIN locks : locks[i].swap = s /\ locks[i].height = h}
    IN  tx[s] \in found \/ (found = {} /\ tx[s] = 0)

Follows(b, tx, s) == b \in Slaves /\ tx[s] # 0 /\ status[b][s] # "none"

LockTxAfter(b, tx, s) == IF Follows(b, tx, s) THEN tx[s] ELSE lockTx[b][s]

\* a deposit without a record is saved as a record without a hash lock; the
\* unique columns admit one of them
StraysAfter(b, tx) ==
  LET strays == {tx[s] : s \in {x \in Swaps : /\ tx[x] # 0
                                               /\ status[b][x] = "none"}}
  IN  IF b \notin Slaves \/ strayTx[b] # 0 \/ strays = {}
        THEN {strayTx[b]} ELSE strays

\* Mutant: the check that is commented out.
ReceivedIfBchLocked(b, h, s, i, stray) ==
  /\ status[b][s] = "BchLocked"
  /\ i # 0 /\ i # stray
  /\ locks[i].spent = "user" /\ locks[i].spentAt = h

\* handleBchReceiptTx finds the record by its lock transaction; the record
\* without a hash lock comes first.  There is no check of the status.
Received(b, h, s, i, stray) ==
  /\ i # 0 /\ i # stray
  /\ locks[i].spent = "user" /\ locks[i].spentAt = h

\* handleBchBlock: the deposits of the next block, then its receipts
HandleBchBlock(b) ==
  /\ pc[b] = "scanBchBlocks" /\ pos[b] < mark[b] /\ pos[b] = lastBch[b]
  /\ \/ /\ Fine
        /\ \E tx \in [Swaps -> 0..Len(locks)], stray \in 0..Len(locks) :
             LET got == {s \in Swaps : Received(b, pos[b] + 1, s,
                                         LockTxAfter(b, tx, s), stray)} IN
             /\ LastDeposits(pos[b] + 1, tx)
             /\ stray \in StraysAfter(b, tx)
             /\ strayTx' = [strayTx EXCEPT ![b] = stray]
             /\ lockTx' = [lockTx EXCEPT ![b] =
                             [s \in Swaps |-> LockTxAfter(b, tx, s)]]
             /\ status' = [status EXCEPT ![b] = [s \in Swaps |->
                  IF s \in got THEN "SecretRevealed"
                  ELSE IF Follows(b, tx, s) THEN "BchLocked" ELSE @[s]]]
             /\ revealedAt' = [revealedAt EXCEPT ![b] = [s \in Swaps |->
                  IF s \in got THEN sbchNow ELSE @[s]]]
     \/ Fault("db") /\ UNCHANGED records
  /\ pos' = [pos EXCEPT ![b] = @ + 1]
  /\ UNCHANGED <<clocks, chains, heights, pc, todo, mark, calls, gotNewBlocks,
                 sbchPrice, lap>>

\* Mutant: the last two blocks are to be scanned again.
SaveBchHeightBack(b) ==
  /\ pc[b] = "scanBchBlocks" /\ pos[b] > lastBch[b]
  /\ lastBch' = [lastBch EXCEPT ![b] = pos[b] - 2]
  /\ Fine
  /\ UNCHANGED <<clocks, chains, records, lastSbch, loop, lap>>

SaveBchHeight(b) ==
  /\ pc[b] = "scanBchBlocks" /\ pos[b] > lastBch[b]
  /\ lastBch' = [lastBch EXCEPT ![b] = pos[b]]
  /\ Fine
  /\ UNCHANGED <<clocks, chains, records, lastSbch, loop, lap>>

\* GetBlock fails: the scan ends early
BchBlockFails(b) ==
  /\ pc[b] = "scanBchBlocks" /\ pos[b] < mark[b] /\ pos[b] = lastBch[b]
  /\ Fault("rpc")
  /\ mark' = [mark EXCEPT ![b] = pos[b]]
  /\ UNCHANGED <<clocks, chains, records, heights, pc, todo, pos, calls,
                 gotNewBlocks, sbchPrice, lap>>

\* refundLockedBCH, one record
SkipRefund(b, s) ==
  /\ Handling(b, "refundLockedBCH", s) /\ ~RefundDue(b, s)
  /\ Handled(b, s) /\ Fine
  /\ UNCHANGED <<clocks, chains, records, heights, calls, lap>>

\* an output that is spent already counts as refunded (isUtxoSpentErr)
RefundBch(b, s) ==
  /\ Handling(b, "refundLockedBCH", s) /\ RefundDue(b, s)
  /\ IF locks[lockTx[b][s]].spent = "no" THEN Spend(lockTx[b][s], "bot")
                                         ELSE UNCHANGED locks
  /\ calls' = calls \cup {[bot |-> b, kind |-> "refund", swap |-> s,
                           tx |-> lockTx[b][s], res |-> "ok"]}
  /\ Fine
  /\ UNCHANGED <<clocks, swap, swapTime, price, sbchPool, sbchLog, records,
                 heights, pc, todo, mark, pos, gotNewBlocks, sbchPrice, lap>>

\* scanSbchEvents: handleSbchLockEventS2B for the next log of the batch
NewRecord(b, s) == status[b][s] = "none" /\ price[s] <= sbchPrice[b]

HandleSbchLockEventS2B(b) ==
  /\ pc[b] = "scanSbchEvents" /\ pos[b] < mark[b]
  /\ LET s == sbchLog[pos[b] + 1] IN
     IF NewRecord(b, s)
       THEN \/ Fine /\ SetStatus(b, s, "New")
            \/ Fault("db") /\ UNCHANGED status
       ELSE Fine /\ UNCHANGED status
  /\ pos' = [pos EXCEPT ![b] = @ + 1]
  /\ UNCHANGED <<clocks, chains, lockTx, revealedAt, strayTx, heights, pc,
                 todo, mark, calls, gotNewBlocks, sbchPrice, lap>>

SaveSbchHeight(b) ==
  /\ pc[b] = "scanSbchEvents" /\ pos[b] = mark[b] /\ pos[b] > lastSbch[b]
  /\ lastSbch' = [lastSbch EXCEPT ![b] = pos[b]]
  /\ Fine
  /\ UNCHANGED <<clocks, chains, records, lastBch, loop, lap>>

\* handleSbchUserDeposits, one record
PriceChanged(b, s) ==
  /\ Handling(b, "handleSbchUserDeposits", s)
  /\ price[s] > sbchPrice[b]
  /\ \/ Fine /\ SetStatus(b, s, "PriceChanged")
     \/ Fault("db") /\ UNCHANGED status
  /\ Handled(b, s)
  /\ UNCHANGED <<clocks, chains, lockTx, revealedAt, strayTx, heights, calls,
                 lap>>

TooLateToLockBch(b, s) ==
  /\ Handling(b, "handleSbchUserDeposits", s)
  /\ price[s] <= sbchPrice[b] /\ TooLate(s)
  /\ \/ Fine /\ SetStatus(b, s, "TooLateToLockBch")
     \/ Fault("db") /\ UNCHANGED status
  /\ Handled(b, s)
  /\ UNCHANGED <<clocks, chains, lockTx, revealedAt, strayTx, heights, calls,
                 lap>>

\* nothing but the record's status keeps the bot from locking twice
LockBch(b, s) ==
  /\ Handling(b, "handleSbchUserDeposits", s)
  /\ price[s] <= sbchPrice[b] /\ ~TooLate(s)
  /\ locks' = Append(locks, [swap |-> s, height |-> bchHeight + 1,
                             spent |-> "no", spentAt |-> 0])
  /\ calls' = calls \cup {[bot |-> b, kind |-> "lock", swap |-> s,
                           tx |-> Len(locks) + 1, res |-> "ok"]}
  /\ Fine
  /\ UNCHANGED <<clocks, swap, swapTime, price, sbchPool, sbchLog, records,
                 heights, pc, todo, mark, pos, gotNewBlocks, sbchPrice, lap>>

\* unlockSbchUserDeposits, one record
WaitForOther(b, s) ==
  /\ Handling(b, "unlockSbchUserDeposits", s)
  /\ mark[b] - revealedAt[b][s] < Delay(b)
  /\ Handled(b, s) /\ Fine
  /\ UNCHANGED <<clocks, chains, records, heights, calls, lap>>

\* callHtlc up to waitTxReceipt
UnlockSbch(b, s) ==
  /\ Handling(b, "unlockSbchUserDeposits", s)
  /\ mark[b] - revealedAt[b][s] >= Delay(b)
  /\ CanUnlock(b, s)
  /\ sbchPool' = sbchPool \cup {[bot |-> b, swap |-> s]}
  /\ calls' = calls \cup {[bot |-> b, kind |-> "unlock", swap |-> s,
                           tx |-> 0, res |-> "pending"]}
  /\ Fine
  /\ UNCHANGED <<clocks, swap, swapTime, price, locks, sbchLog, records,
                 heights, pc, todo, mark, pos, gotNewBlocks, sbchPrice, lap>>

\* Mutant: any failure is taken for an unlock by the other bot.
AssumeUnlocked(b, s) == SetStatus(b, s, "SbchUnlocked")

\* the unlock failed: getSwapState tells whether the other bot was faster
CheckUnlocked(b, s) ==
  IF swap[s] = "Unlocked" THEN SetStatus(b, s, "SbchUnlocked")
                          ELSE UNCHANGED status

UnlockSbchFails(b, s) ==
  /\ Handling(b, "unlockSbchUserDeposits", s)
  /\ mark[b] - revealedAt[b][s] >= Delay(b)
  /\ ~CanUnlock(b, s)
  /\ \/ Fine /\ CheckUnlocked(b, s)
     \/ Fault("db") /\ UNCHANGED status
  /\ Handled(b, s)
  /\ UNCHANGED <<clocks, chains, lockTx, revealedAt, strayTx, heights, calls,
                 lap>>

\* an RPC fails before a transaction is sent: the record is left as it is
RpcFails(b, s) ==
  /\ \/ Handling(b, "refundLockedBCH", s)
     \/ /\ Handling(b, "handleSbchUserDeposits", s)
        /\ price[s] <= sbchPrice[b]
     \/ /\ Handling(b, "unlockSbchUserDeposits", s)
        /\ mark[b] - revealedAt[b][s] >= Delay(b)
  /\ Fault("rpc")
  /\ Handled(b, s)
  /\ UNCHANGED <<clocks, chains, records, heights, calls, lap>>

\* the transaction of call c went through: the record is saved
SaveResult(b, c) ==
  /\ c \in calls /\ c.bot = b /\ c.res = "ok"
  /\ \/ /\ c.kind = "lock" /\ SetStatus(b, c.swap, "BchLocked")
        /\ SetLockTx(b, c.swap, c.tx) /\ Fine
     \/ /\ c.kind = "refund" /\ SetStatus(b, c.swap, "BchRefunded")
        /\ Fine /\ UNCHANGED lockTx
     \/ /\ c.kind = "unlock" /\ SetStatus(b, c.swap, "SbchUnlocked")
        /\ Fine /\ UNCHANGED lockTx
     \/ Fault("db") /\ UNCHANGED <<status, lockTx>>
  /\ calls' = calls \ {c}
  /\ Handled(b, c.swap)
  /\ UNCHANGED <<clocks, chains, revealedAt, strayTx, heights, lap>>

\* It was reverted, or the answer to a transaction that was sent is lost or
\* does not come in time.  The question for the state of the swap may fail as
\* well, and the save that would follow it.
CallFails(b, c) ==
  /\ c \in calls /\ c.bot = b
  /\ \/ c.res = "reverted" /\ Fine
     \/ /\ c.res = "reverted" /\ c.kind = "unlock"
        /\ Fault("rpc") \/ Fault("db")
     \/ c.res # "reverted" /\ Fault("timeout")
  /\ \/ c.kind = "unlock" /\ CheckUnlocked(b, c.swap)
     \/ (c.kind # "unlock" \/ faults' # faults) /\ UNCHANGED status
  /\ calls' = calls \ {c}
  /\ Handled(b, c.swap)
  /\ UNCHANGED <<clocks, chains, lockTx, revealedAt, strayTx, heights, lap>>

Start(b) ==
  /\ pc[b] = "down"
  /\ pc' = [pc EXCEPT ![b] = "updatePrices"]
  /\ Fine
  /\ UNCHANGED <<clocks, chains, records, heights, todo, mark, pos, calls,
                 gotNewBlocks, sbchPrice, lap>>

\* the bot stops at any point, and starts again with its database only
Crash(b) ==
  /\ pc[b] # "down" /\ Fault("crash")
  /\ pc' = [pc EXCEPT ![b] = "down"]
  /\ todo' = [todo EXCEPT ![b] = {}]
  /\ mark' = [mark EXCEPT ![b] = 0] /\ pos' = [pos EXCEPT ![b] = 0]
  /\ calls' = {c \in calls : c.bot # b}
  /\ gotNewBlocks' = [gotNewBlocks EXCEPT ![b] = FALSE]
  /\ lap' = [lap EXCEPT ![b] = 0]
  /\ UNCHANGED <<clocks, chains, records, heights, sbchPrice>>

-----------------------------------------------------------------------------
(* Time, as in Bch2Sbch.                                                   *)

MayTick ==
  Prompt => sbchPool = {} /\ \A b \in Bots : lap[b] = 3 \/ pc[b] = "down"

Tick ==
  /\ lap' = [b \in Bots |-> 0]
  /\ UNCHANGED <<chains, records, heights, loop, faults>>

TickBch ==
  /\ bchHeight < MaxHeight /\ 2 * bchHeight + 2 <= sbchNow + Drift /\ MayTick
  /\ bchHeight' = bchHeight + 1
  /\ Tick /\ UNCHANGED sbchNow

TickSbch ==
  /\ sbchNow < 2 * MaxHeight /\ sbchNow < 2 * bchHeight + Drift /\ MayTick
  /\ sbchNow' = sbchNow + 1
  /\ Tick /\ UNCHANGED bchHeight

-----------------------------------------------------------------------------

BotStep(b) ==
  \/ Start(b) \/ UpdatePrices(b) \/ EndStage(b)
  \/ HandleBchBlock(b) \/ SaveBchHeight(b) \/ BchBlockFails(b)
  \/ HandleSbchLockEventS2B(b) \/ SaveSbchHeight(b)
  \/ \E s \in Swaps :
       \/ SkipRefund(b, s) \/ RefundBch(b, s)
       \/ PriceChanged(b, s) \/ TooLateToLockBch(b, s) \/ LockBch(b, s)
       \/ WaitForOther(b, s) \/ UnlockSbch(b, s) \/ UnlockSbchFails(b, s)
       \/ RpcFails(b, s)
  \/ \E c \in calls : SaveResult(b, c) \/ CallFails(b, c)

UserStep ==
  \/ \E s \in Swaps : \/ \E p \in Prices : UserLockSbch(s, p)
                      \/ UserRefundSbch(s)
  \/ \E i \in DOMAIN locks : UserUnlockBch(i)

Mine == \E tx \in sbchPool : MineSbchTx(tx)

Next ==
  \/ \E b \in Bots : BotStep(b) \/ Crash(b)
  \/ UserStep \/ Mine \/ TickBch \/ TickSbch

Spec == Init /\ [][Next]_vars

\* Loop never returns, both chains go on, sBCH transactions get mined;
\* nothing obliges a user to act.
Fairness ==
  /\ \A b \in Bots : WF_vars(BotStep(b))
  /\ WF_vars(Mine) /\ WF_vars(TickBch) /\ WF_vars(TickSbch)

FairSpec == Spec /\ Fairness

-----------------------------------------------------------------------------
(* Properties.                                                             *)

\* What a bot's record says is true of the chains: the user locked sBCH, the
\* lock transaction is one for this swap, the user has spent it, the bot has
\* taken the sBCH, nobody can spend the BCH any more.
Backed(st, i, s) ==
  /\ st # "none" => swap[s] # "Invalid"
  /\ st \in {"BchLocked", "SecretRevealed", "SbchUnlocked", "BchRefunded"} =>
       i \in DOMAIN locks /\ locks[i].swap = s
  /\ st = "SecretRevealed" => locks[i].spent = "user"
  /\ st = "SbchUnlocked" => swap[s] = "Unlocked"
  /\ st = "BchRefunded" => locks[i].spent # "no"

RecordsBacked ==
  \A b \in Bots, s \in Swaps : Backed(status[b][s], lockTx[b][s], s)

Taken(s) == \E i \in DOMAIN locks : locks[i].swap = s /\ locks[i].spent = "user"

\* No bot takes a user's sBCH unless the user has taken BCH for it.
UserNotCheated == \A s \in Swaps : swap[s] = "Unlocked" => Taken(s)

\* No user ends up with both coins.
BotNotCheated == \A s \in Swaps : ~(swap[s] = "Refunded" /\ Taken(s))

\* Each swap behaves like an atomic swap: the user's leg is the contract's
\* swap, the bots' leg all they have locked for it.
UserLeg == [s \in Swaps |-> IF swap[s] = "Invalid" THEN "none"
                            ELSE IF swap[s] = "Locked" THEN "locked"
                            ELSE IF swap[s] = "Unlocked" THEN "claimed"
                            ELSE "refunded"]
BotLeg == [s \in Swaps |->
             LET spent == {locks[i].spent :
                             i \in {j \in DOMAIN locks : locks[j].swap = s}}
             IN  IF spent = {} THEN "none"
                 ELSE IF "user" \in spent THEN "claimed"
                 ELSE IF "no" \in spent THEN "locked"
                 ELSE "refunded"]

Swap == INSTANCE AtomicSwap WITH userLeg <- UserLeg, botLeg <- BotLeg

IsAtomicSwap == Swap!Spec

\* While the master is prompt and nothing fails, a slave only watches: it
\* sends nothing to sBCH, and what a bot takes back the master takes back.
MasterActsFirst ==
  [][faults' = 0 =>
     /\ \A tx \in sbchPool' : tx.bot \notin Slaves
     /\ \A i \in DOMAIN locks :
          locks[i].spent = "no" /\ locks'[i].spent = "bot" =>
            \A c \in calls' \ calls : c.bot \notin Slaves]_vars

\* the lock transaction bot b's record of s refers to
NoLock == [height |-> 0, spent |-> "no", spentAt |-> 0]
LockOf(b, s) ==
  IF lockTx[b][s] \in DOMAIN locks THEN locks[lockTx[b][s]] ELSE NoLock

\* After the last fault, BCH that a bot knows to be locked is taken by the user
\* or comes back, if the block that makes the refund due is still to be
\* scanned (refundLockedBCH acts on new blocks only).
RefundHeight(b, s) == LockOf(b, s).height + BchTimeLock + ExtraBlocks(b)

LockedBchSettles ==
  \A b \in Bots, s \in Swaps :
    (/\ status[b][s] = "BchLocked" /\ faults = MaxFaults
     /\ lastBch[b] < RefundHeight(b, s)
     /\ RefundHeight(b, s) + Confirmations <= MaxHeight + 1)
      ~> LockOf(b, s).spent # "no"

\* Once the user has spent the output a bot's record knows, and the block can
\* still be scanned, the bots use the secret, or the user has gone first.  It
\* holds although the bot may believe that it has taken the output back.
RevealedSecretUsed ==
  \A b \in Bots, s \in Swaps :
    (/\ LockOf(b, s).spent = "user"
     /\ LockOf(b, s).spentAt + Confirmations <= MaxHeight)
      ~> swap[s] # "Locked"

\* The diagram of the normal flow: one BCH lock transaction for each swap.
OneLockPerSwap ==
  \A i, j \in DOMAIN locks : locks[i].swap = locks[j].swap => i = j

\* handleBchReceiptTx: "change status from BchLocked to SecretRevealed".
RevealedFromBchLocked ==
  [][\A b \in Bots, s \in Swaps :
       status'[b][s] = "SecretRevealed" =>
         status[b][s] \in {"BchLocked", "SecretRevealed"}]_vars

=============================================================================
