-------------------------- MODULE Sbch2Bch_proofs --------------------------
(***************************************************************************)
(* Theorems about Sbch2Bch, for any number of bots and swaps, any prices,  *)
(* time locks and bounds, and with every kind of fault.                    *)
(***************************************************************************)
EXTENDS Sbch2Bch, TLAPS

(***************************************************************************)
(* The inductive invariant.  A record is saved from what the bot carries   *)
(* through its loop, and what it knows of the secret it reads from a block *)
(* through a reference to a lock transaction.  So RecordsBacked needs the  *)
(* references, the Lock events, the pending unlocks, the calls in progress *)
(* and the work lists to agree with the chains too.                        *)
(***************************************************************************)
IsLockOf(i, s) == i \in DOMAIN locks /\ locks[i].swap = s

LocksBacked == \A i \in DOMAIN locks : swap[locks[i].swap] # "Invalid"

LogBacked == \A i \in 1..Len(sbchLog) : swap[sbchLog[i]] # "Invalid"

\* a secret is public before a bot sends it
PoolBacked == \A tx \in sbchPool : Taken(tx.swap)

LockTxBacked ==
  \A b \in Bots, s \in Swaps : lockTx[b][s] # 0 => IsLockOf(lockTx[b][s], s)

CallStage(kind) == IF kind = "lock" THEN "handleSbchUserDeposits"
                   ELSE IF kind = "refund" THEN "refundLockedBCH"
                   ELSE "unlockSbchUserDeposits"

\* what a call in progress is going to save
CallBacked(c) ==
  /\ swap[c.swap] # "Invalid"
  /\ pc[c.bot] = CallStage(c.kind)
  /\ c.kind = "lock" => IsLockOf(c.tx, c.swap)
  /\ c.kind # "lock" => lockTx[c.bot][c.swap] # 0
  /\ c.kind = "refund" => locks[lockTx[c.bot][c.swap]].spent # "no"
  /\ c.kind = "unlock" => Taken(c.swap)
  /\ c.kind = "unlock" /\ c.res = "ok" => swap[c.swap] = "Unlocked"

CallsBacked == \A c \in calls : CallBacked(c)

TodoBacked ==
  \A b \in Bots : \A s \in todo[b] :
    /\ swap[s] # "Invalid"
    /\ pc[b] \in {"refundLockedBCH", "unlockSbchUserDeposits"} =>
         lockTx[b][s] # 0
    /\ pc[b] = "unlockSbchUserDeposits" => Taken(s)

\* a bot never reads past the end of the log
LogRead ==
  \A b \in Bots :
    /\ lastSbch[b] <= Len(sbchLog)
    /\ pc[b] = "scanSbchEvents" => mark[b] <= Len(sbchLog)

IInv ==
  /\ TypeOK /\ LocksBacked /\ LogBacked /\ PoolBacked /\ LockTxBacked
  /\ CallsBacked /\ TodoBacked /\ LogRead /\ RecordsBacked /\ UserNotCheated

\* No record, call or transaction exists at first.
THEOREM InitIInv == Init => IInv
  <1>1. Init => TypeOK
    BY BotsAssumption, TimesAssumption, FlagsAssumption, PricesAssumption
    DEF Init, TypeOK, ChainsOK, RecordsOK, LoopsOK, Statuses, Stages,
      Calls, SbchTxs, LockTxs
  <1>2. Init => /\ LocksBacked /\ LogBacked /\ PoolBacked /\ LockTxBacked
                /\ CallsBacked /\ TodoBacked /\ LogRead /\ RecordsBacked
                /\ UserNotCheated
    BY DEF Init, LocksBacked, LogBacked, PoolBacked, LockTxBacked, CallsBacked,
      TodoBacked, LogRead, RecordsBacked, Backed, UserNotCheated
  <1>. QED BY <1>1, <1>2 DEF IInv

-----------------------------------------------------------------------------
(* Type correctness.                                                       *)

\* A record's status is one of its table's (db.go).
LEMMA StatusType ==
  ASSUME RecordsOK, NEW b \in Bots, NEW s \in Swaps, NEW st \in Statuses,
         SetStatus(b, s, st)
  PROVE  status' \in [Bots -> [Swaps -> Statuses]]
  <1>1. status[b] \in [Swaps -> Statuses]
    BY DEF RecordsOK
  <1>2. [status[b] EXCEPT ![s] = st] \in [Swaps -> Statuses]
    BY <1>1
  <1>3. status' = [status EXCEPT ![b] = [status[b] EXCEPT ![s] = st]]
    BY DEF SetStatus
  <1>. QED BY <1>2, <1>3 DEF RecordsOK

\* BchLockTxHash refers to a place in the sequence of lock transactions.
LEMMA LockTxType ==
  ASSUME RecordsOK, NEW b \in Bots, NEW s \in Swaps, NEW i \in Nat,
         SetLockTx(b, s, i)
  PROVE  lockTx' \in [Bots -> [Swaps -> Nat]]
  <1>1. [lockTx[b] EXCEPT ![s] = i] \in [Swaps -> Nat]
    BY DEF RecordsOK
  <1>2. lockTx' = [lockTx EXCEPT ![b] = [lockTx[b] EXCEPT ![s] = i]]
    BY DEF SetLockTx
  <1>. QED BY <1>1, <1>2 DEF RecordsOK

\* The failed unlock writes a status of the table or none.
LEMMA CheckUnlockedType ==
  ASSUME RecordsOK, NEW b \in Bots, NEW s \in Swaps, CheckUnlocked(b, s)
  PROVE  status' \in [Bots -> [Swaps -> Statuses]]
  <1>1. CASE swap[s] = "Unlocked"
    BY <1>1, StatusType DEF CheckUnlocked, Statuses
  <1>2. CASE swap[s] # "Unlocked"
    BY <1>2 DEF CheckUnlocked, RecordsOK
  <1>. QED BY <1>1, <1>2

\* The fault counter stays within its bound.
LEMMA FaultType ==
  ASSUME faults \in 0..MaxFaults,
         Fine \/ \E kind \in {"crash", "rpc", "timeout", "db"} : Fault(kind)
  PROVE  faults' \in 0..MaxFaults
  BY TimesAssumption DEF Fine, Fault

\* The start of a call, successful or not, keeps the types.
LEMMA EnterType ==
  ASSUME TypeOK, NEW b \in Bots, NEW stage \in Stages,
         Enter(b, stage) \/ EnterInVain(b, stage)
  PROVE  /\ pc' \in [Bots -> Stages] /\ todo' \in [Bots -> SUBSET Swaps]
         /\ mark' \in [Bots -> Int] /\ pos' \in [Bots -> Nat]
         /\ gotNewBlocks' \in [Bots -> BOOLEAN]
  <1>1. Reading(stage) \in Int
    BY TimesAssumption DEF Reading, SafeHeight, TypeOK, ChainsOK
  <1>2. Cursor(b, stage) \in Nat
    BY DEF Cursor, TypeOK, RecordsOK
  <1>3. Query(b, stage) \subseteq Swaps
    BY DEF Query
  <1>4. /\ pc' \in [Bots -> Stages] /\ todo' \in [Bots -> SUBSET Swaps]
        /\ mark' \in [Bots -> Int] /\ pos' \in [Bots -> Nat]
    BY <1>1, <1>2, <1>3 DEF Enter, EnterInVain, TypeOK, LoopsOK
  <1>5. gotNewBlocks' \in [Bots -> BOOLEAN]
    <2>1. ASSUME NEW x \in BOOLEAN,
                 gotNewBlocks' = [gotNewBlocks EXCEPT ![b] = x]
          PROVE  gotNewBlocks' \in [Bots -> BOOLEAN]
      BY <2>1 DEF TypeOK, LoopsOK
    <2>2. gotNewBlocks[b] \in BOOLEAN
      BY DEF TypeOK, LoopsOK
    <2>3. CASE Enter(b, stage)
      <3>1. /\ (SafeHeight > lastBch[b]) \in BOOLEAN
            /\ gotNewBlocks' = [gotNewBlocks EXCEPT ![b] =
                 IF stage = "scanBchBlocks" THEN SafeHeight > lastBch[b]
                 ELSE gotNewBlocks[b]]
        BY <2>3 DEF Enter
      <3>. QED BY <2>1, <2>2, <3>1, Zenon
    <2>4. CASE EnterInVain(b, stage)
      BY <2>1, <2>2, <2>4, Zenon DEF EnterInVain
    <2>. QED BY <2>3, <2>4
  <1>. QED BY <1>4, <1>5

\* The end of a record's turn keeps the types.
LEMMA HandledType ==
  ASSUME LoopsOK, NEW b \in Bots, NEW s \in Swaps, Handled(b, s)
  PROVE  /\ pc' \in [Bots -> Stages] /\ todo' \in [Bots -> SUBSET Swaps]
         /\ mark' \in [Bots -> Int] /\ pos' \in [Bots -> Nat]
         /\ gotNewBlocks' \in [Bots -> BOOLEAN]
         /\ sbchPrice' \in [Bots -> Prices]
  BY DEF Handled, LoopsOK

\* Spending an output changes this output only, and its swap never.
LEMMA SpendFacts ==
  ASSUME ChainsOK, NEW i \in DOMAIN locks, NEW who \in {"user", "bot"},
         Spend(i, who)
  PROVE  /\ locks' \in Seq(LockTxs) /\ DOMAIN locks' = DOMAIN locks
         /\ Len(locks') = Len(locks)
         /\ locks'[i].swap = locks[i].swap /\ locks'[i].spent = who
         /\ \A j \in DOMAIN locks : j # i => locks'[j] = locks[j]
  <1>. DEFINE new == [swap |-> locks[i].swap, height |-> locks[i].height,
                      spent |-> who, spentAt |-> bchHeight + 1]
  <1>1. locks[i] \in LockTxs
    BY DEF ChainsOK
  <1>2. /\ new \in LockTxs
        /\ new.swap = locks[i].swap /\ new.spent = who
    BY <1>1 DEF LockTxs, ChainsOK
  <1>3. locks' = [locks EXCEPT ![i] = new]
    <2>. DEFINE one == [swap |-> locks[i].swap, height |-> locks[i].height,
                        spent |-> who, spentAt |-> locks[i].spentAt]
    <2>1. [locks[i] EXCEPT !.spent = who] = one
      BY <1>1 DEF LockTxs
    <2>2. [one EXCEPT !.spentAt = bchHeight + 1] = new
      OBVIOUS
    <2>3. locks' = [[locks EXCEPT ![i] = [locks[i] EXCEPT !.spent = who]]
                      EXCEPT ![i] = [@ EXCEPT !.spentAt = bchHeight + 1]]
      BY DEF Spend
    <2>. HIDE DEF one, new
    <2>. QED BY <2>1, <2>2, <2>3 DEF ChainsOK
  <1>. HIDE DEF new
  <1>. QED BY <1>2, <1>3 DEF ChainsOK

\* The scan never passes the end of the log.
LEMMA NextLogType ==
  ASSUME TypeOK, LogRead, NEW b \in Bots,
         pc[b] = "scanSbchEvents", pos[b] < mark[b]
  PROVE  pos[b] + 1 \in 1..Len(sbchLog) /\ sbchLog[pos[b] + 1] \in Swaps
  <1>1. pos[b] + 1 \in 1..Len(sbchLog)
    BY DEF LogRead, TypeOK, ChainsOK, LoopsOK
  <1>. QED BY <1>1 DEF TypeOK, ChainsOK

\* What handleBchDepositTxS2B saves is a lock transaction of the swap.
LEMMA LockTxAfterType ==
  ASSUME TypeOK, LockTxBacked, NEW b \in Bots, NEW h,
         NEW tx \in [Swaps -> 0..Len(locks)], LastDeposits(h, tx),
         NEW s \in Swaps
  PROVE  /\ LockTxAfter(b, tx, s) \in Nat
         /\ LockTxAfter(b, tx, s) # 0 => IsLockOf(LockTxAfter(b, tx, s), s)
         /\ Follows(b, tx, s) => LockTxAfter(b, tx, s) # 0
  <1>1. tx[s] \in Nat /\ (tx[s] # 0 => IsLockOf(tx[s], s))
    BY DEF LastDeposits, IsLockOf, TypeOK, ChainsOK
  <1>. QED
    BY <1>1 DEF LockTxAfter, Follows, LockTxBacked, TypeOK, RecordsOK

\* A step of bot b that neither handles a record nor ends a call.
LEMMA LoopStepTypes ==
  ASSUME IInv, NEW b \in Bots,
         \/ Start(b) \/ UpdatePrices(b) \/ EndStage(b) \/ HandleBchBlock(b)
         \/ SaveBchHeight(b) \/ BchBlockFails(b) \/ HandleSbchLockEventS2B(b)
         \/ SaveSbchHeight(b) \/ Crash(b)
  PROVE  TypeOK'
  <1>. USE DEF IInv, TypeOK, clocks, chains, records, heights, loop
  <1>1. CASE Start(b)
    BY <1>1 DEF Start, Fine, ChainsOK, RecordsOK, LoopsOK, Stages
  <1>2. CASE UpdatePrices(b)
    <2>1. /\ pc' \in [Bots -> Stages] /\ todo' \in [Bots -> SUBSET Swaps]
          /\ mark' \in [Bots -> Int] /\ pos' \in [Bots -> Nat]
          /\ gotNewBlocks' \in [Bots -> BOOLEAN]
      BY <1>2, EnterType DEF UpdatePrices, Stages
    <2>2. faults' \in 0..MaxFaults
      BY <1>2, FaultType DEF UpdatePrices, LoopsOK
    <2>. QED
      BY <1>2, <2>1, <2>2 DEF UpdatePrices, ChainsOK, RecordsOK, LoopsOK
  <1>3. CASE EndStage(b)
    <2>1. /\ pc' \in [Bots -> Stages] /\ todo' \in [Bots -> SUBSET Swaps]
          /\ mark' \in [Bots -> Int] /\ pos' \in [Bots -> Nat]
          /\ gotNewBlocks' \in [Bots -> BOOLEAN]
      BY <1>3, EnterType DEF EndStage
    <2>2. faults' \in 0..MaxFaults
      BY <1>3, FaultType DEF EndStage, LoopsOK
    <2>3. lap' \in [Bots -> 0..3]
      BY <1>3 DEF EndStage, LoopsOK
    <2>. QED
      BY <1>3, <2>1, <2>2, <2>3 DEF EndStage, ChainsOK, RecordsOK, LoopsOK
  <1>4. CASE HandleBchBlock(b)
    <2>1. faults' \in 0..MaxFaults
      BY <1>4, FaultType DEF HandleBchBlock, LoopsOK
    <2>2. RecordsOK'
      <3>1. CASE UNCHANGED records
        BY <1>4, <3>1 DEF HandleBchBlock, RecordsOK
      <3>2. CASE ~ UNCHANGED records
        <4>1. PICK tx \in [Swaps -> 0..Len(locks)], stray \in 0..Len(locks) :
                LET got == {s \in Swaps : Received(b, pos[b] + 1, s,
                                            LockTxAfter(b, tx, s), stray)} IN
                /\ LastDeposits(pos[b] + 1, tx)
                /\ strayTx' = [strayTx EXCEPT ![b] = stray]
                /\ lockTx' = [lockTx EXCEPT ![b] =
                                [s \in Swaps |-> LockTxAfter(b, tx, s)]]
                /\ status' = [status EXCEPT ![b] = [s \in Swaps |->
                     IF s \in got THEN "SecretRevealed"
                     ELSE IF Follows(b, tx, s) THEN "BchLocked"
                     ELSE status[b][s]]]
                /\ revealedAt' = [revealedAt EXCEPT ![b] = [s \in Swaps |->
                     IF s \in got THEN sbchNow ELSE revealedAt[b][s]]]
          BY <1>4, <3>2 DEF HandleBchBlock
        <4>2. lockTx' \in [Bots -> [Swaps -> Nat]]
          BY <4>1, LockTxAfterType DEF RecordsOK
        <4>3. strayTx' \in [Bots -> Nat]
          BY <4>1 DEF RecordsOK, ChainsOK
        <4>4. /\ status' \in [Bots -> [Swaps -> Statuses]]
              /\ revealedAt' \in [Bots -> [Swaps -> Nat]]
          BY <4>1 DEF RecordsOK, ChainsOK, Statuses
        <4>. QED
          BY <1>4, <4>2, <4>3, <4>4 DEF HandleBchBlock, RecordsOK
      <3>. QED BY <3>1, <3>2
    <2>3. pos' \in [Bots -> Nat]
      BY <1>4 DEF HandleBchBlock, LoopsOK
    <2>. QED
      BY <1>4, <2>1, <2>2, <2>3 DEF HandleBchBlock, ChainsOK, LoopsOK
  <1>5. CASE SaveBchHeight(b)
    BY <1>5 DEF SaveBchHeight, Fine, ChainsOK, RecordsOK, LoopsOK
  <1>6. CASE BchBlockFails(b)
    BY <1>6, FaultType DEF BchBlockFails, ChainsOK, RecordsOK, LoopsOK
  <1>7. CASE HandleSbchLockEventS2B(b)
    <2>1. sbchLog[pos[b] + 1] \in Swaps
      BY <1>7, NextLogType DEF HandleSbchLockEventS2B
    <2>2. status' \in [Bots -> [Swaps -> Statuses]]
      BY <1>7, <2>1, StatusType
      DEF HandleSbchLockEventS2B, RecordsOK, Statuses
    <2>3. faults' \in 0..MaxFaults
      BY <1>7, FaultType DEF HandleSbchLockEventS2B, LoopsOK
    <2>4. pos' \in [Bots -> Nat]
      BY <1>7 DEF HandleSbchLockEventS2B, LoopsOK
    <2>. QED
      BY <1>7, <2>2, <2>3, <2>4
      DEF HandleSbchLockEventS2B, ChainsOK, RecordsOK, LoopsOK
  <1>8. CASE SaveSbchHeight(b)
    BY <1>8 DEF SaveSbchHeight, Fine, ChainsOK, RecordsOK, LoopsOK
  <1>9. CASE Crash(b)
    BY <1>9, FaultType DEF Crash, ChainsOK, RecordsOK, LoopsOK, Stages
  <1>. QED BY <1>1, <1>2, <1>3, <1>4, <1>5, <1>6, <1>7, <1>8, <1>9

\* A step of bot b in the handling of the record of swap s.
LEMMA RecordStepTypes ==
  ASSUME IInv, NEW b \in Bots, NEW s \in Swaps,
         \/ SkipRefund(b, s) \/ RefundBch(b, s)
         \/ PriceChanged(b, s) \/ TooLateToLockBch(b, s) \/ LockBch(b, s)
         \/ WaitForOther(b, s) \/ UnlockSbch(b, s) \/ UnlockSbchFails(b, s)
         \/ RpcFails(b, s)
  PROVE  TypeOK'
  <1>. USE DEF IInv, TypeOK, clocks, chains, records, heights
  <1>1. CASE RefundBch(b, s)
    <2>1. lockTx[b][s] \in DOMAIN locks
      BY <1>1 DEF RefundBch, Handling, TodoBacked, LockTxBacked, IsLockOf
    <2>2. locks' \in Seq(LockTxs)
      BY <1>1, <2>1, SpendFacts DEF RefundBch, ChainsOK
    <2>3. calls' \subseteq Calls
      BY <1>1 DEF RefundBch, LoopsOK, RecordsOK, Calls
    <2>. QED
      BY <1>1, <2>2, <2>3 DEF RefundBch, Fine, ChainsOK, RecordsOK, LoopsOK
  <1>2. CASE LockBch(b, s)
    <2>1. locks' \in Seq(LockTxs)
      BY <1>2 DEF LockBch, ChainsOK, LockTxs
    <2>2. calls' \subseteq Calls
      BY <1>2 DEF LockBch, ChainsOK, LoopsOK, Calls
    <2>. QED
      BY <1>2, <2>1, <2>2 DEF LockBch, Fine, ChainsOK, RecordsOK, LoopsOK
  <1>3. CASE UnlockSbch(b, s)
    <2>1. sbchPool' \subseteq SbchTxs
      BY <1>3 DEF UnlockSbch, ChainsOK, SbchTxs
    <2>2. calls' \subseteq Calls
      BY <1>3 DEF UnlockSbch, LoopsOK, Calls
    <2>. QED
      BY <1>3, <2>1, <2>2 DEF UnlockSbch, Fine, ChainsOK, RecordsOK, LoopsOK
  <1>4. CASE ~(RefundBch(b, s) \/ LockBch(b, s) \/ UnlockSbch(b, s))
    <2>1. Handled(b, s)
      BY <1>4 DEF SkipRefund, PriceChanged, TooLateToLockBch, WaitForOther,
        UnlockSbchFails, RpcFails
    <2>2. status' \in [Bots -> [Swaps -> Statuses]]
      BY <1>4, StatusType, CheckUnlockedType
      DEF SkipRefund, PriceChanged, TooLateToLockBch, WaitForOther,
        UnlockSbchFails, RpcFails, RecordsOK, Statuses
    <2>3. faults' \in 0..MaxFaults
      BY <1>4, FaultType
      DEF SkipRefund, PriceChanged, TooLateToLockBch, WaitForOther,
        UnlockSbchFails, RpcFails, LoopsOK
    <2>4. UNCHANGED <<clocks, chains, lockTx, revealedAt, strayTx, heights,
                      calls, lap>>
      BY <1>4 DEF SkipRefund, PriceChanged, TooLateToLockBch, WaitForOther,
        UnlockSbchFails, RpcFails
    <2>. QED
      BY <2>1, <2>2, <2>3, <2>4, HandledType DEF ChainsOK, RecordsOK, LoopsOK
  <1>. QED BY <1>1, <1>2, <1>3, <1>4

\* The end of a call of bot b.
LEMMA CallStepTypes ==
  ASSUME IInv, NEW b \in Bots, NEW c \in calls,
         SaveResult(b, c) \/ CallFails(b, c)
  PROVE  TypeOK'
  <1>. USE DEF IInv, TypeOK, clocks, chains, records, heights
  <1>1. c.swap \in Swaps /\ c.tx \in Nat
    BY DEF LoopsOK, Calls
  <1>2. Handled(b, c.swap)
    BY DEF SaveResult, CallFails
  <1>3. status' \in [Bots -> [Swaps -> Statuses]]
    BY <1>1, StatusType, CheckUnlockedType
    DEF SaveResult, CallFails, RecordsOK, Statuses
  <1>4. lockTx' \in [Bots -> [Swaps -> Nat]]
    BY <1>1, LockTxType DEF SaveResult, CallFails, RecordsOK
  <1>5. faults' \in 0..MaxFaults
    BY FaultType DEF SaveResult, CallFails, LoopsOK
  <1>6. /\ calls' \subseteq Calls
        /\ UNCHANGED <<clocks, chains, revealedAt, strayTx, heights, lap>>
    BY DEF SaveResult, CallFails, LoopsOK
  <1>. QED
    BY <1>1, <1>2, <1>3, <1>4, <1>5, <1>6, HandledType
    DEF ChainsOK, RecordsOK, LoopsOK

\* The chains, the users and the clocks.
LEMMA WorldStepTypes ==
  ASSUME IInv, Mine \/ UserStep \/ TickBch \/ TickSbch
  PROVE  TypeOK'
  <1>. USE DEF IInv, TypeOK, clocks, chains, records, heights, loop
  <1>1. ASSUME NEW tx \in sbchPool, MineSbchTx(tx) PROVE TypeOK'
    <2>1. calls' \subseteq Calls
      <3>1. PICK res \in {"ok", "reverted"} : calls' = Receipts(tx, res)
        BY <1>1 DEF MineSbchTx
      <3>2. ASSUME NEW c \in Calls
            PROVE  [c EXCEPT !.res = IF @ = "pending" THEN res ELSE @] \in Calls
        BY DEF Calls
      <3>. QED BY <3>1, <3>2 DEF Receipts, LoopsOK
    <2>2. swap' \in [Swaps -> {"Invalid", "Locked", "Unlocked", "Refunded"}]
      BY <1>1 DEF MineSbchTx, ChainsOK
    <2>. QED
      BY <1>1, <2>1, <2>2 DEF MineSbchTx, ChainsOK, RecordsOK, LoopsOK
  <1>2. ASSUME NEW s \in Swaps, NEW p \in Prices, UserLockSbch(s, p)
        PROVE  TypeOK'
    BY <1>2 DEF UserLockSbch, ChainsOK, RecordsOK, LoopsOK
  <1>3. ASSUME NEW s \in Swaps, UserRefundSbch(s) PROVE TypeOK'
    BY <1>3 DEF UserRefundSbch, ChainsOK, RecordsOK, LoopsOK
  <1>4. ASSUME NEW i \in DOMAIN locks, UserUnlockBch(i) PROVE TypeOK'
    BY <1>4, SpendFacts DEF UserUnlockBch, ChainsOK, RecordsOK, LoopsOK
  <1>5. CASE TickBch \/ TickSbch
    BY <1>5 DEF TickBch, TickSbch, Tick, ChainsOK, RecordsOK, LoopsOK
  <1>. QED BY <1>1, <1>2, <1>3, <1>4, <1>5 DEF Mine, UserStep

\* Every step keeps the types.
LEMMA TypeStep == IInv /\ [Next]_vars => TypeOK'
  <1>. SUFFICES ASSUME IInv, [Next]_vars PROVE TypeOK'
    OBVIOUS
  <1>1. ASSUME NEW b \in Bots, BotStep(b) PROVE TypeOK'
    BY <1>1, LoopStepTypes, RecordStepTypes, CallStepTypes DEF BotStep
  <1>2. ASSUME NEW b \in Bots, Crash(b) PROVE TypeOK'
    BY <1>2, LoopStepTypes
  <1>3. CASE UNCHANGED vars
    BY <1>3 DEF vars, clocks, chains, records, heights, loop, IInv, TypeOK,
      ChainsOK, RecordsOK, LoopsOK
  <1>. QED BY <1>1, <1>2, <1>3, WorldStepTypes DEF Next

-----------------------------------------------------------------------------
(* Safety.                                                                 *)

\* What the chains have done they do not undo.
Kept ==
  /\ \A s \in Swaps : /\ swap[s] # "Invalid" => swap'[s] # "Invalid"
                      /\ swap[s] = "Unlocked" => swap'[s] = "Unlocked"
  /\ \A i \in DOMAIN locks :
       /\ i \in DOMAIN locks' /\ locks'[i].swap = locks[i].swap
       /\ locks[i].spent # "no" => locks'[i].spent = locks[i].spent

\* A step that only moves a bot on through its loop.
Quiet == UNCHANGED <<swap, locks, sbchPool, sbchLog>>

\* A spent output stays spent by the same side.
LEMMA KeptTaken ==
  ASSUME Kept, NEW s, Taken(s)
  PROVE  Taken(s)'
  <1>1. PICK i \in DOMAIN locks : locks[i].swap = s /\ locks[i].spent = "user"
    BY DEF Taken
  <1>2. /\ i \in DOMAIN locks'
        /\ locks'[i].swap = s /\ locks'[i].spent = "user"
    BY <1>1 DEF Kept
  <1>. QED BY <1>2 DEF Taken

\* Facts whose carriers stay in place survive what the chains do.
LEMMA KeptFacts ==
  ASSUME IInv, Kept, UNCHANGED <<records, heights, pc, todo, mark>>,
         Len(sbchLog') >= Len(sbchLog)
  PROVE  /\ RecordsBacked' /\ LockTxBacked' /\ TodoBacked' /\ LogRead'
         /\ \A c \in calls : CallBacked(c)'
         /\ \A tx \in sbchPool : Taken(tx.swap)'
         /\ \A i \in 1..Len(sbchLog) : swap'[sbchLog[i]] # "Invalid"
  <1>. USE DEF IInv, records, heights
  <1>1. RecordsBacked'
    BY DEF RecordsBacked, Backed, Kept
  <1>2. LockTxBacked'
    BY DEF LockTxBacked, IsLockOf, Kept
  <1>3. TodoBacked'
    <2>1. ASSUME NEW b \in Bots, NEW s \in todo[b]
          PROVE  /\ swap'[s] # "Invalid"
                 /\ pc[b] = "unlockSbchUserDeposits" => Taken(s)'
      BY KeptTaken DEF TodoBacked, TypeOK, LoopsOK, Kept
    <2>. QED BY <2>1 DEF TodoBacked
  <1>4. LogRead'
    BY DEF LogRead, TypeOK, ChainsOK, RecordsOK, LoopsOK
  <1>5. ASSUME NEW c \in calls PROVE CallBacked(c)'
    <2>1. c.swap \in Swaps /\ c.bot \in Bots /\ CallBacked(c)
      BY DEF TypeOK, LoopsOK, Calls, CallsBacked
    <2>2. /\ swap'[c.swap] # "Invalid"
          /\ swap[c.swap] = "Unlocked" => swap'[c.swap] = "Unlocked"
          /\ Taken(c.swap) => Taken(c.swap)'
      BY <2>1, KeptTaken DEF CallBacked, Kept
    <2>3. IsLockOf(c.tx, c.swap) => IsLockOf(c.tx, c.swap)'
      BY DEF IsLockOf, Kept
    <2>4. c.kind = "refund" => locks'[lockTx[c.bot][c.swap]].spent # "no"
      BY <2>1 DEF CallBacked, LockTxBacked, IsLockOf, Kept
    <2>. QED BY <2>1, <2>2, <2>3, <2>4 DEF CallBacked
  <1>6. ASSUME NEW tx \in sbchPool PROVE Taken(tx.swap)'
    BY KeptTaken DEF PoolBacked
  <1>7. ASSUME NEW i \in 1..Len(sbchLog) PROVE swap'[sbchLog[i]] # "Invalid"
    <2>1. sbchLog[i] \in Swaps
      BY DEF TypeOK, ChainsOK
    <2>. QED BY <2>1 DEF LogBacked, Kept
  <1>. QED BY <1>1, <1>2, <1>3, <1>4, <1>5, <1>6, <1>7

\* What remains to be shown of a step on the chains.
LEMMA ChainStepSafe ==
  ASSUME IInv, TypeOK', Kept, UNCHANGED <<records, heights, pc, todo, mark>>,
         \/ sbchLog' = sbchLog
         \/ \E s \in Swaps : sbchLog' = Append(sbchLog, s) /\ swap'[s] # "Invalid",
         LocksBacked', UserNotCheated',
         \A c \in calls' \ calls : CallBacked(c)',
         \A tx \in sbchPool' \ sbchPool : Taken(tx.swap)'
  PROVE  IInv'
  <1>1. Len(sbchLog') >= Len(sbchLog)
    BY DEF IInv, TypeOK, ChainsOK
  <1>2. /\ RecordsBacked' /\ LockTxBacked' /\ TodoBacked' /\ LogRead'
        /\ \A c \in calls : CallBacked(c)'
        /\ \A tx \in sbchPool : Taken(tx.swap)'
        /\ \A i \in 1..Len(sbchLog) : swap'[sbchLog[i]] # "Invalid"
    BY <1>1, KeptFacts
  <1>3. CallsBacked' /\ PoolBacked'
    BY <1>2 DEF CallsBacked, PoolBacked
  <1>4. LogBacked'
    <2>1. ASSUME NEW i \in 1..Len(sbchLog')
          PROVE  swap'[sbchLog'[i]] # "Invalid"
      <3>1. CASE sbchLog' = sbchLog
        BY <1>2, <3>1
      <3>2. CASE sbchLog' # sbchLog
        <4>1. PICK s \in Swaps :
                sbchLog' = Append(sbchLog, s) /\ swap'[s] # "Invalid"
          BY <3>2
        <4>2. \/ i \in 1..Len(sbchLog) /\ sbchLog'[i] = sbchLog[i]
              \/ sbchLog'[i] = s
          BY <4>1 DEF IInv, TypeOK, ChainsOK
        <4>. QED BY <1>2, <4>1, <4>2
      <3>. QED BY <3>1, <3>2
    <2>. QED BY <2>1 DEF LogBacked
  <1>. QED BY <1>2, <1>3, <1>4 DEF IInv

\* What a bot or a user spends was not spent before.
LEMMA SpendKept ==
  ASSUME IInv, TypeOK', NEW i \in DOMAIN locks, NEW who \in {"user", "bot"},
         locks[i].spent = "no", Spend(i, who), UNCHANGED swap
  PROVE  Kept /\ LocksBacked' /\ UserNotCheated'
  <1>1. /\ DOMAIN locks' = DOMAIN locks
        /\ locks'[i].swap = locks[i].swap /\ locks'[i].spent = who
        /\ \A j \in DOMAIN locks : j # i => locks'[j] = locks[j]
    BY SpendFacts DEF IInv, TypeOK
  <1>2. Kept
    BY <1>1 DEF Kept
  <1>3. LocksBacked'
    BY <1>1 DEF IInv, LocksBacked
  <1>4. UserNotCheated'
    BY <1>2, KeptTaken DEF IInv, UserNotCheated
  <1>. QED BY <1>2, <1>3, <1>4

\* The users keep the invariant.
LEMMA UserStepSafe ==
  ASSUME IInv, TypeOK', UserStep
  PROVE  IInv'
  <1>1. ASSUME NEW s \in Swaps, NEW p \in Prices, UserLockSbch(s, p)
        PROVE  IInv'
    <2>. USE <1>1 DEF UserLockSbch, records, heights, loop
    <2>1. Kept
      BY DEF Kept, IInv, TypeOK, ChainsOK
    <2>2. LocksBacked' /\ UserNotCheated'
      BY DEF IInv, LocksBacked, UserNotCheated, Taken, TypeOK, ChainsOK
    <2>3. sbchLog' = Append(sbchLog, s) /\ swap'[s] # "Invalid"
      BY DEF IInv, TypeOK, ChainsOK
    <2>. QED BY <2>1, <2>2, <2>3, ChainStepSafe
  <1>2. ASSUME NEW s \in Swaps, UserRefundSbch(s) PROVE IInv'
    <2>. USE <1>2 DEF UserRefundSbch, records, heights, loop
    <2>1. Kept
      BY DEF Kept, IInv, TypeOK, ChainsOK
    <2>2. LocksBacked' /\ UserNotCheated'
      BY DEF IInv, LocksBacked, UserNotCheated, Taken, TypeOK, ChainsOK
    <2>. QED BY <2>1, <2>2, ChainStepSafe
  <1>3. ASSUME NEW i \in DOMAIN locks, UserUnlockBch(i) PROVE IInv'
    <2>. USE <1>3 DEF UserUnlockBch, records, heights, loop
    <2>1. Kept /\ LocksBacked' /\ UserNotCheated'
      BY SpendKept
    <2>. QED BY <2>1, ChainStepSafe
  <1>. QED BY <1>1, <1>2, <1>3 DEF UserStep

\* A mined unlock keeps the invariant: its secret was public.
LEMMA MineSafe ==
  ASSUME IInv, TypeOK', NEW tx \in sbchPool, MineSbchTx(tx)
  PROVE  IInv'
  <1>. USE DEF MineSbchTx, records, heights
  <1>1. tx.swap \in Swaps /\ Taken(tx.swap)
    BY DEF IInv, PoolBacked, TypeOK, ChainsOK, SbchTxs
  <1>2. Kept
    BY <1>1 DEF Kept, IInv, TypeOK, ChainsOK
  <1>3. LocksBacked' /\ UserNotCheated'
    <2>1. ASSUME NEW i \in DOMAIN locks PROVE swap'[locks[i].swap] # "Invalid"
      <3>1. locks[i] \in LockTxs
        BY DEF IInv, TypeOK, ChainsOK
      <3>2. locks[i].swap \in Swaps
        BY <3>1 DEF LockTxs
      <3>. QED BY <1>2, <3>2 DEF IInv, LocksBacked, Kept
    <2>2. ASSUME NEW s \in Swaps, swap'[s] = "Unlocked"
          PROVE  Taken(s)'
      <3>1. s = tx.swap \/ swap[s] = "Unlocked"
        BY <1>1, <2>2 DEF IInv, TypeOK, ChainsOK
      <3>2. Taken(s)
        BY <1>1, <3>1 DEF IInv, UserNotCheated
      <3>. QED BY <1>2, <3>2, KeptTaken
    <2>. QED BY <2>1, <2>2 DEF LocksBacked, UserNotCheated
  <1>4. PICK res \in {"ok", "reverted"} :
          /\ calls' = Receipts(tx, res)
          /\ res = "ok" => swap'[tx.swap] = "Unlocked"
    BY <1>1 DEF IInv, TypeOK, ChainsOK
  <1>5. ASSUME NEW c \in calls' \ calls PROVE CallBacked(c)'
    <2>1. PICK d \in calls :
            c = IF d.bot = tx.bot /\ d.kind = "unlock" /\ d.swap = tx.swap
                  THEN [d EXCEPT !.res = IF @ = "pending" THEN res ELSE @]
                  ELSE d
      BY <1>4 DEF Receipts
    <2>2. d \in Calls /\ CallBacked(d)'
      BY <1>2, KeptFacts DEF IInv, TypeOK, LoopsOK
    <2>3. d.kind = "unlock" /\ d.swap = tx.swap
      BY <2>1
    <2>4. [d EXCEPT !.res = d.res] = d
      BY <2>2 DEF Calls
    <2>5. c = [d EXCEPT !.res = res]
      BY <2>1, <2>4
    <2>6. /\ c.bot = d.bot /\ c.kind = d.kind /\ c.swap = d.swap
          /\ c.res = res
      BY <2>2, <2>5 DEF Calls
    <2>. QED BY <1>4, <2>2, <2>3, <2>6 DEF CallBacked
  <1>. QED BY <1>2, <1>3, <1>5, ChainStepSafe

\* The loop steps that touch the chains keep the invariant: a lock, a refund
\* and an unlock.
LEMMA SendSafe ==
  ASSUME IInv, TypeOK', NEW b \in Bots, NEW s \in Swaps,
         RefundBch(b, s) \/ LockBch(b, s) \/ UnlockSbch(b, s)
  PROVE  IInv'
  <1>. USE DEF records, heights
  <1>1. s \in todo[b] /\ swap[s] # "Invalid"
    BY DEF RefundBch, LockBch, UnlockSbch, Handling, IInv, TodoBacked
  <1>2. CASE RefundBch(b, s)
    <2>. DEFINE i == lockTx[b][s]
    <2>1. /\ pc[b] = "refundLockedBCH" /\ i # 0 /\ IsLockOf(i, s)
      BY <1>1, <1>2
      DEF RefundBch, Handling, IInv, TodoBacked, LockTxBacked
    <2>2. Kept /\ LocksBacked' /\ UserNotCheated' /\ locks'[i].spent # "no"
      <3>1. CASE locks[i].spent = "no"
        <4>1. i \in DOMAIN locks /\ Spend(i, "bot") /\ UNCHANGED swap
          BY <1>2, <2>1, <3>1 DEF RefundBch, IsLockOf
        <4>. HIDE DEF i
        <4>. QED BY <3>1, <4>1, SpendKept, SpendFacts DEF IInv, TypeOK
      <3>2. CASE locks[i].spent # "no"
        BY <1>2, <3>2
        DEF RefundBch, Kept, IInv, LocksBacked, UserNotCheated, Taken
      <3>. QED BY <3>1, <3>2
    <2>3. ASSUME NEW c \in calls' \ calls PROVE CallBacked(c)'
      <3>1. c = [bot |-> b, kind |-> "refund", swap |-> s, tx |-> i,
                 res |-> "ok"]
        BY <1>2, <2>3 DEF RefundBch
      <3>. QED
        BY <1>1, <1>2, <2>1, <2>2, <3>1
        DEF RefundBch, CallBacked, CallStage
    <2>. QED BY <1>2, <2>2, <2>3, ChainStepSafe DEF RefundBch
  <1>3. CASE LockBch(b, s)
    <2>. DEFINE new == [swap |-> s, height |-> bchHeight + 1,
                        spent |-> "no", spentAt |-> 0]
    <2>1. /\ locks' = Append(locks, new) /\ UNCHANGED swap
          /\ pc[b] = "handleSbchUserDeposits"
      BY <1>3 DEF LockBch, Handling
    <2>2. /\ DOMAIN locks' = DOMAIN locks \cup {Len(locks) + 1}
          /\ \A i \in DOMAIN locks : locks'[i] = locks[i]
          /\ locks'[Len(locks) + 1] = new
      BY <2>1 DEF IInv, TypeOK, ChainsOK
    <2>3. Kept
      BY <2>1, <2>2 DEF Kept
    <2>4. LocksBacked' /\ UserNotCheated'
      <3>1. LocksBacked'
        BY <1>1, <2>1, <2>2 DEF IInv, LocksBacked
      <3>2. UserNotCheated'
        BY <2>1, <2>3, KeptTaken DEF IInv, UserNotCheated
      <3>. QED BY <3>1, <3>2
    <2>5. ASSUME NEW c \in calls' \ calls PROVE CallBacked(c)'
      <3>1. c = [bot |-> b, kind |-> "lock", swap |-> s, tx |-> Len(locks) + 1,
                 res |-> "ok"]
        BY <1>3, <2>5 DEF LockBch
      <3>2. IsLockOf(c.tx, c.swap)'
        BY <2>2, <3>1 DEF IsLockOf
      <3>3. pc' = pc /\ swap' = swap
        BY <1>3 DEF LockBch
      <3>. QED
        BY <1>1, <2>1, <3>1, <3>2, <3>3 DEF CallBacked, CallStage
    <2>. QED BY <1>3, <2>3, <2>4, <2>5, ChainStepSafe DEF LockBch
  <1>4. CASE UnlockSbch(b, s)
    <2>1. /\ pc[b] = "unlockSbchUserDeposits" /\ lockTx[b][s] # 0 /\ Taken(s)
      BY <1>1, <1>4 DEF UnlockSbch, Handling, IInv, TodoBacked
    <2>2. Kept /\ LocksBacked' /\ UserNotCheated'
      BY <1>4 DEF UnlockSbch, Kept, IInv, LocksBacked, UserNotCheated, Taken
    <2>3. Taken(s)'
      BY <2>1, <2>2, KeptTaken
    <2>4. ASSUME NEW c \in calls' \ calls PROVE CallBacked(c)'
      <3>1. c = [bot |-> b, kind |-> "unlock", swap |-> s, tx |-> 0,
                 res |-> "pending"]
        BY <1>4, <2>4 DEF UnlockSbch
      <3>. QED
        BY <1>1, <1>4, <2>1, <2>3, <3>1
        DEF UnlockSbch, CallBacked, CallStage
    <2>5. \A tx \in sbchPool' \ sbchPool : Taken(tx.swap)'
      BY <1>4, <2>3 DEF UnlockSbch
    <2>. QED BY <1>4, <2>2, <2>4, <2>5, ChainStepSafe DEF UnlockSbch
  <1>. QED BY <1>2, <1>3, <1>4

\* A step that leaves the chains alone, and does not move a bot that waits for
\* a call, keeps what is known of the chains.
LEMMA QuietStep ==
  ASSUME IInv, Quiet, calls' \subseteq calls,
         \A c \in calls' : /\ pc'[c.bot] = pc[c.bot]
                           /\ lockTx'[c.bot] = lockTx[c.bot] \/ c.kind = "lock"
  PROVE  /\ LocksBacked' /\ LogBacked' /\ PoolBacked' /\ CallsBacked'
         /\ UserNotCheated'
  <1>1. /\ LocksBacked' /\ LogBacked' /\ PoolBacked' /\ UserNotCheated'
    BY DEF IInv, Quiet, LocksBacked, LogBacked, PoolBacked, UserNotCheated,
      Taken
  <1>2. ASSUME NEW c \in calls' PROVE CallBacked(c)'
    <2>1. CallBacked(c)
      BY DEF IInv, CallsBacked
    <2>. QED BY <2>1 DEF Quiet, CallBacked, IsLockOf, Taken
  <1>. QED BY <1>1, <1>2 DEF CallsBacked

\* A bot that scans, or is between two calls, waits for nothing.
LEMMA NoCallsOutside ==
  ASSUME IInv, NEW b \in Bots,
         \/ Idle(b)
         \/ pc[b] \in {"down", "updatePrices", "scanBchBlocks", "scanSbchEvents"}
  PROVE  \A c \in calls : c.bot # b
  BY DEF Idle, IInv, CallsBacked, CallBacked, CallStage

\* A new status that is true of the chains keeps all records true.
LEMMA SetStatusBacked ==
  ASSUME TypeOK, RecordsBacked, NEW b \in Bots, NEW s \in Swaps,
         NEW st \in Statuses, SetStatus(b, s, st), Backed(st, lockTx[b][s], s),
         UNCHANGED <<lockTx, swap, locks>>
  PROVE  RecordsBacked'
  <1>1. ASSUME NEW b2 \in Bots, NEW s2 \in Swaps
        PROVE  \/ status'[b2][s2] = st /\ b2 = b /\ s2 = s
               \/ status'[b2][s2] = status[b2][s2]
    BY DEF SetStatus, TypeOK, RecordsOK
  <1>. QED BY <1>1 DEF RecordsBacked, Backed

\* So does a step that changes neither records nor chains.
LEMMA SameStatusBacked ==
  ASSUME RecordsBacked, UNCHANGED <<lockTx, swap, locks, status>>
  PROVE  RecordsBacked'
  BY DEF RecordsBacked, Backed

\* The failed unlock believes getSwapState, and rightly.
LEMMA CheckUnlockedBacked ==
  ASSUME IInv, NEW b \in Bots, NEW s \in Swaps, CheckUnlocked(b, s),
         lockTx[b][s] # 0, UNCHANGED <<lockTx, swap, locks>>
  PROVE  RecordsBacked'
  <1>1. CASE swap[s] = "Unlocked"
    <2>1. Backed("SbchUnlocked", lockTx[b][s], s)
      BY <1>1 DEF IInv, LockTxBacked, IsLockOf, Backed
    <2>. QED
      BY <1>1, <2>1, SetStatusBacked DEF CheckUnlocked, IInv, Statuses
  <1>2. CASE swap[s] # "Unlocked"
    BY <1>2, SameStatusBacked DEF CheckUnlocked, IInv
  <1>. QED BY <1>1, <1>2

\* What a call reads from its table is what it relies on.
LEMMA EnterBacked ==
  ASSUME IInv, NEW b \in Bots, NEW stage \in Stages, Quiet,
         Enter(b, stage) \/ EnterInVain(b, stage),
         UNCHANGED <<status, lockTx, lastSbch>>
  PROVE  TodoBacked' /\ LogRead'
  <1>. USE DEF IInv, TypeOK, LoopsOK, RecordsOK, Quiet
  <1>1. TodoBacked'
    <2>1. ASSUME NEW s \in Query(b, stage)
          PROVE  /\ swap[s] # "Invalid"
                 /\ stage \in {"refundLockedBCH", "unlockSbchUserDeposits"} =>
                      lockTx[b][s] # 0
                 /\ stage = "unlockSbchUserDeposits" => Taken(s)
      <3>1. s \in Swaps /\ Backed(status[b][s], lockTx[b][s], s)
        BY DEF Query, RecordsBacked
      <3>2. 0 \notin DOMAIN locks
        BY DEF ChainsOK
      <3>. QED BY <3>1, <3>2 DEF Query, Backed, Taken
    <2>2. /\ pc'[b] = stage /\ todo'[b] \subseteq Query(b, stage)
          /\ \A b2 \in Bots : b2 # b => /\ pc'[b2] = pc[b2]
                                      /\ todo'[b2] = todo[b2]
      BY DEF Enter, EnterInVain
    <2>3. \A s : Taken(s) => Taken(s)'
      BY DEF Taken
    <2>4. ASSUME NEW b2 \in Bots, NEW s \in todo'[b2]
          PROVE  /\ swap[s] # "Invalid"
                 /\ pc'[b2] \in {"refundLockedBCH", "unlockSbchUserDeposits"} =>
                      lockTx[b2][s] # 0
                 /\ pc'[b2] = "unlockSbchUserDeposits" => Taken(s)
      BY <2>1, <2>2 DEF TodoBacked
    <2>. QED BY <2>3, <2>4 DEF TodoBacked
  <1>2. LogRead'
    <2>1. /\ Reading("scanSbchEvents") = Len(sbchLog)
          /\ Cursor(b, "scanSbchEvents") <= Len(sbchLog)
      BY DEF Reading, Cursor, LogRead
    <2>2. stage = "scanSbchEvents" => mark'[b] <= Len(sbchLog)
      BY <2>1 DEF Enter, EnterInVain, ChainsOK
    <2>. HIDE DEF Quiet
    <2>. QED BY <2>2 DEF Enter, EnterInVain, LogRead, Quiet
  <1>. QED BY <1>1, <1>2

\* Dropping a record from the work list keeps the rest of the list true.
LEMMA HandledBacked ==
  ASSUME IInv, NEW b \in Bots, NEW s \in Swaps, Quiet, Handled(b, s),
         \A b2 \in Bots, s2 \in Swaps :
           lockTx[b2][s2] # 0 => lockTx'[b2][s2] # 0,
         UNCHANGED lastSbch
  PROVE  TodoBacked' /\ LogRead'
  <1>1. ASSUME NEW b2 \in Bots, NEW s2 \in todo'[b2]
        PROVE  s2 \in todo[b2] /\ s2 \in Swaps
    BY DEF Handled, IInv, TypeOK, LoopsOK
  <1>2. TodoBacked'
    BY <1>1 DEF IInv, Quiet, Handled, TodoBacked, Taken
  <1>3. LogRead'
    BY DEF IInv, Quiet, Handled, LogRead
  <1>. QED BY <1>2, <1>3

\* The events of the next block make records that are true of the chains:
\* what handleBchReceiptTx finds through BchLockTxHash is a claim of the swap.
LEMMA HandleBchBlockSafe ==
  ASSUME IInv, NEW b \in Bots, HandleBchBlock(b)
  PROVE  RecordsBacked' /\ LockTxBacked'
  <1>. USE DEF chains, records
  <1>1. CASE UNCHANGED records
    BY <1>1, SameStatusBacked
    DEF HandleBchBlock, IInv, LockTxBacked, IsLockOf
  <1>2. CASE ~ UNCHANGED records
    <2>1. PICK tx \in [Swaps -> 0..Len(locks)], stray \in 0..Len(locks) :
            LET got == {s \in Swaps : Received(b, pos[b] + 1, s,
                                        LockTxAfter(b, tx, s), stray)} IN
            /\ LastDeposits(pos[b] + 1, tx)
            /\ lockTx' = [lockTx EXCEPT ![b] =
                            [s \in Swaps |-> LockTxAfter(b, tx, s)]]
            /\ status' = [status EXCEPT ![b] = [s \in Swaps |->
                 IF s \in got THEN "SecretRevealed"
                 ELSE IF Follows(b, tx, s) THEN "BchLocked"
                 ELSE status[b][s]]]
      BY <1>2 DEF HandleBchBlock
    <2>2. UNCHANGED <<swap, locks>>
      BY DEF HandleBchBlock
    <2>3. ASSUME NEW s \in Swaps
          PROVE  /\ lockTx'[b][s] # 0 => IsLockOf(lockTx'[b][s], s)
                 /\ Backed(status'[b][s], lockTx'[b][s], s)
      <3>. DEFINE i == LockTxAfter(b, tx, s)
                  got == Received(b, pos[b] + 1, s, i, stray)
      <3>1. /\ lockTx'[b][s] = i
            /\ status'[b][s] = IF got THEN "SecretRevealed"
                               ELSE IF Follows(b, tx, s) THEN "BchLocked"
                               ELSE status[b][s]
        BY <2>1 DEF IInv, TypeOK, RecordsOK
      <3>2. i # 0 => IsLockOf(i, s)
        BY <2>1, LockTxAfterType DEF IInv
      <3>3. CASE got
        <4>1. IsLockOf(i, s) /\ locks[i].spent = "user" /\ swap[s] # "Invalid"
          BY <3>2, <3>3 DEF Received, IsLockOf, IInv, LocksBacked
        <4>. QED BY <3>1, <3>2, <3>3, <4>1 DEF Backed, IsLockOf
      <3>4. CASE ~got /\ Follows(b, tx, s)
        <4>1. IsLockOf(i, s) /\ swap[s] # "Invalid"
          BY <2>1, <3>2, <3>4, LockTxAfterType
          DEF IsLockOf, IInv, LocksBacked
        <4>. QED BY <3>1, <3>2, <3>4, <4>1 DEF Backed, IsLockOf
      <3>5. CASE ~got /\ ~Follows(b, tx, s)
        <4>1. i = lockTx[b][s]
          BY <3>5 DEF LockTxAfter
        <4>2. Backed(status[b][s], i, s)
          BY <4>1 DEF IInv, RecordsBacked
        <4>. QED BY <3>1, <3>2, <3>5, <4>2
      <3>. QED BY <3>3, <3>4, <3>5
    <2>4. ASSUME NEW b2 \in Bots, b2 # b
          PROVE  status'[b2] = status[b2] /\ lockTx'[b2] = lockTx[b2]
      BY <2>1, <2>4
    <2>5. ASSUME NEW b2 \in Bots, NEW s \in Swaps
          PROVE  /\ lockTx'[b2][s] # 0 => IsLockOf(lockTx'[b2][s], s)
                 /\ Backed(status'[b2][s], lockTx'[b2][s], s)
      BY <2>3, <2>4 DEF IInv, RecordsBacked, LockTxBacked
    <2>. QED BY <2>2, <2>5 DEF RecordsBacked, LockTxBacked, Backed, IsLockOf
  <1>. QED BY <1>1, <1>2

\* Scanning, and going from call to call, keeps the invariant.
LEMMA LoopStepSafe ==
  ASSUME IInv, TypeOK', NEW b \in Bots,
         \/ Start(b) \/ UpdatePrices(b) \/ EndStage(b) \/ HandleBchBlock(b)
         \/ SaveBchHeight(b) \/ BchBlockFails(b) \/ HandleSbchLockEventS2B(b)
         \/ SaveSbchHeight(b) \/ Crash(b)
  PROVE  IInv'
  <1>. USE DEF chains, records, heights, loop
  <1>1. /\ Quiet /\ calls' \subseteq calls
        /\ \A b2 \in Bots : b2 # b => /\ pc'[b2] = pc[b2]
                                    /\ lockTx'[b2] = lockTx[b2]
    <2>1. Quiet /\ calls' \subseteq calls
      BY DEF Start, UpdatePrices, EndStage, HandleBchBlock, SaveBchHeight,
        BchBlockFails, HandleSbchLockEventS2B, SaveSbchHeight, Crash, Quiet
    <2>2. \A b2 \in Bots : b2 # b => pc'[b2] = pc[b2]
      BY DEF Start, UpdatePrices, EndStage, HandleBchBlock, SaveBchHeight,
        BchBlockFails, HandleSbchLockEventS2B, SaveSbchHeight, Crash, Enter,
        EnterInVain, IInv, TypeOK, LoopsOK
    <2>3. \A b2 \in Bots : b2 # b => lockTx'[b2] = lockTx[b2]
      <3>1. \/ UNCHANGED lockTx
            \/ \E f : lockTx' = [lockTx EXCEPT ![b] = f]
        BY DEF Start, UpdatePrices, EndStage, HandleBchBlock, SaveBchHeight,
          BchBlockFails, HandleSbchLockEventS2B, SaveSbchHeight, Crash
      <3>. QED BY <3>1 DEF IInv, TypeOK, RecordsOK
    <2>. QED BY <2>1, <2>2, <2>3
  <1>2. \A c \in calls' : c.bot # b
    <2>1. CASE Crash(b)
      BY <2>1 DEF Crash
    <2>2. CASE ~Crash(b)
      <3>1. \/ Idle(b)
            \/ pc[b] \in {"down", "updatePrices", "scanBchBlocks",
                         "scanSbchEvents"}
        BY <2>2 DEF Start, UpdatePrices, EndStage, Finished, HandleBchBlock,
          SaveBchHeight, BchBlockFails, HandleSbchLockEventS2B,
          SaveSbchHeight
      <3>. QED BY <1>1, <3>1, NoCallsOutside
    <2>. QED BY <2>1, <2>2
  <1>3. /\ LocksBacked' /\ LogBacked' /\ PoolBacked' /\ CallsBacked'
        /\ UserNotCheated'
    <2>1. \A c \in calls' : c.bot \in Bots
      BY DEF TypeOK, LoopsOK, Calls
    <2>. QED BY <1>1, <1>2, <2>1, QuietStep
  <1>4. SUFFICES TodoBacked' /\ LogRead' /\ RecordsBacked' /\ LockTxBacked'
    BY <1>3 DEF IInv
  <1>5. ASSUME UNCHANGED lockTx PROVE LockTxBacked'
    BY <1>1, <1>5 DEF Quiet, IInv, LockTxBacked, IsLockOf
  <1>6. CASE Start(b)
    BY <1>5, <1>6, SameStatusBacked
    DEF Start, IInv, TypeOK, LoopsOK, TodoBacked, LogRead, Taken
  <1>7. CASE UpdatePrices(b)
    BY <1>1, <1>5, <1>7, EnterBacked, SameStatusBacked
    DEF UpdatePrices, IInv, Stages
  <1>8. CASE EndStage(b)
    BY <1>1, <1>5, <1>8, EnterBacked, SameStatusBacked DEF EndStage, IInv
  <1>9. CASE HandleBchBlock(b)
    <2>1. LogRead'
      BY <1>9 DEF HandleBchBlock, IInv, LogRead
    <2>2. TodoBacked'
      <3>1. \A s : Taken(s) => Taken(s)'
        BY <1>1 DEF Quiet, Taken
      <3>2. ASSUME NEW b2 \in Bots, NEW s \in todo'[b2]
            PROVE  /\ swap'[s] # "Invalid"
                   /\ pc'[b2] \in {"refundLockedBCH",
                                   "unlockSbchUserDeposits"} =>
                        lockTx'[b2][s] # 0
                   /\ pc'[b2] = "unlockSbchUserDeposits" => Taken(s)
        BY <1>1, <1>9 DEF HandleBchBlock, Quiet, IInv, TodoBacked
      <3>. QED BY <3>1, <3>2 DEF TodoBacked
    <2>. QED BY <1>9, <2>1, <2>2, HandleBchBlockSafe
  <1>10. CASE SaveBchHeight(b)
    BY <1>5, <1>10, SameStatusBacked
    DEF SaveBchHeight, IInv, TodoBacked, LogRead, Taken
  <1>11. CASE BchBlockFails(b)
    BY <1>5, <1>11, SameStatusBacked
    DEF BchBlockFails, IInv, TypeOK, LoopsOK, TodoBacked, LogRead, Taken
  <1>12. CASE HandleSbchLockEventS2B(b)
    <2>. DEFINE s == sbchLog[pos[b] + 1]
    <2>1. s \in Swaps /\ swap[s] # "Invalid"
      BY <1>12, NextLogType DEF HandleSbchLockEventS2B, IInv, LogBacked
    <2>2. SetStatus(b, s, "New") \/ UNCHANGED status
      BY <1>12 DEF HandleSbchLockEventS2B
    <2>3. UNCHANGED <<lockTx, swap, locks>>
      BY <1>12 DEF HandleSbchLockEventS2B
    <2>4. RecordsBacked'
      <3>1. Backed("New", lockTx[b][s], s)
        BY <2>1 DEF Backed
      <3>. HIDE DEF s
      <3>. QED
        BY <2>1, <2>2, <2>3, <3>1, SetStatusBacked, SameStatusBacked
        DEF IInv, Statuses
    <2>. QED
      BY <1>5, <1>12, <2>4
      DEF HandleSbchLockEventS2B, IInv, TodoBacked, LogRead, Taken
  <1>13. CASE SaveSbchHeight(b)
    BY <1>5, <1>13, SameStatusBacked
    DEF SaveSbchHeight, IInv, TypeOK, RecordsOK, TodoBacked, LogRead, Taken
  <1>14. CASE Crash(b)
    BY <1>5, <1>14, SameStatusBacked
    DEF Crash, IInv, TypeOK, LoopsOK, TodoBacked, LogRead, Taken
  <1>. QED
    BY <1>6, <1>7, <1>8, <1>9, <1>10, <1>11, <1>12, <1>13, <1>14

\* Handling one record keeps the invariant.
LEMMA RecordStepSafe ==
  ASSUME IInv, TypeOK', NEW b \in Bots, NEW s \in Swaps,
         \/ SkipRefund(b, s) \/ RefundBch(b, s)
         \/ PriceChanged(b, s) \/ TooLateToLockBch(b, s) \/ LockBch(b, s)
         \/ WaitForOther(b, s) \/ UnlockSbch(b, s) \/ UnlockSbchFails(b, s)
         \/ RpcFails(b, s)
  PROVE  IInv'
  <1>. USE DEF chains, records, heights
  <1>1. CASE RefundBch(b, s) \/ LockBch(b, s) \/ UnlockSbch(b, s)
    BY <1>1, SendSafe
  <1>2. CASE ~(RefundBch(b, s) \/ LockBch(b, s) \/ UnlockSbch(b, s))
    <2>1. /\ Quiet /\ UNCHANGED <<calls, lockTx, lastSbch>> /\ Handled(b, s)
          /\ s \in todo[b]
      BY <1>2 DEF SkipRefund, PriceChanged, TooLateToLockBch, WaitForOther,
        UnlockSbchFails, RpcFails, Handling, Quiet
    <2>2. UNCHANGED pc
      BY <2>1 DEF Handled
    <2>3. /\ LocksBacked' /\ LogBacked' /\ PoolBacked' /\ CallsBacked'
          /\ UserNotCheated'
      BY <2>1, <2>2, QuietStep
    <2>4. TodoBacked' /\ LogRead'
      BY <2>1, HandledBacked
    <2>5. LockTxBacked'
      BY <2>1 DEF Quiet, IInv, LockTxBacked, IsLockOf
    <2>6. \/ UNCHANGED status
          \/ \E st \in {"PriceChanged", "TooLateToLockBch"} : SetStatus(b, s, st)
          \/ pc[b] = "unlockSbchUserDeposits" /\ CheckUnlocked(b, s)
      BY <1>2 DEF SkipRefund, PriceChanged, TooLateToLockBch, WaitForOther,
        UnlockSbchFails, RpcFails, Handling
    <2>7. RecordsBacked'
      <3>1. \A st \in {"PriceChanged", "TooLateToLockBch"} :
               st \in Statuses /\ Backed(st, lockTx[b][s], s)
        BY <2>1 DEF Backed, Statuses, IInv, TodoBacked
      <3>2. CASE UNCHANGED status
        BY <2>1, <3>2, SameStatusBacked DEF Quiet, IInv
      <3>3. CASE \E st \in {"PriceChanged", "TooLateToLockBch"} :
                   SetStatus(b, s, st)
        BY <2>1, <3>1, <3>3, SetStatusBacked DEF Quiet, IInv
      <3>4. CASE pc[b] = "unlockSbchUserDeposits" /\ CheckUnlocked(b, s)
        BY <2>1, <3>4, CheckUnlockedBacked DEF Quiet, IInv, TodoBacked
      <3>. QED BY <2>6, <3>2, <3>3, <3>4
    <2>. QED BY <2>3, <2>4, <2>5, <2>7 DEF IInv
  <1>. QED BY <1>1, <1>2

\* Saving or losing the outcome of a call keeps the invariant.
LEMMA CallStepSafe ==
  ASSUME IInv, TypeOK', NEW b \in Bots, NEW c \in calls,
         SaveResult(b, c) \/ CallFails(b, c)
  PROVE  IInv'
  <1>. USE DEF chains, records, heights
  <1>1. c.swap \in Swaps /\ c.bot = b /\ c.tx \in Nat /\ CallBacked(c)
    BY DEF SaveResult, CallFails, IInv, TypeOK, LoopsOK, Calls, CallsBacked
  <1>2. /\ Quiet /\ calls' \subseteq calls /\ UNCHANGED lastSbch
        /\ Handled(b, c.swap)
    BY DEF SaveResult, CallFails, Quiet
  <1>3. UNCHANGED pc
    BY <1>2 DEF Handled
  <1>4. \/ UNCHANGED lockTx
        \/ /\ c.kind = "lock" /\ c.res = "ok"
           /\ SetStatus(b, c.swap, "BchLocked") /\ SetLockTx(b, c.swap, c.tx)
    BY DEF SaveResult, CallFails
  <1>5. CASE UNCHANGED lockTx
    <2>1. /\ LocksBacked' /\ LogBacked' /\ PoolBacked' /\ CallsBacked'
          /\ UserNotCheated'
      BY <1>2, <1>3, <1>5, QuietStep
    <2>2. TodoBacked' /\ LogRead'
      BY <1>1, <1>2, <1>5, HandledBacked
    <2>3. LockTxBacked'
      BY <1>2, <1>5 DEF Quiet, IInv, LockTxBacked, IsLockOf
    <2>4. RecordsBacked'
      <3>1. \/ UNCHANGED status
            \/ c.kind = "lock" /\ SetStatus(b, c.swap, "BchLocked")
               /\ SetLockTx(b, c.swap, c.tx)
            \/ c.kind = "refund" /\ SetStatus(b, c.swap, "BchRefunded")
            \/ /\ c.kind = "unlock" /\ c.res = "ok"
               /\ SetStatus(b, c.swap, "SbchUnlocked")
            \/ c.kind = "unlock" /\ CheckUnlocked(b, c.swap)
        BY DEF SaveResult, CallFails
      <3>2. CASE UNCHANGED status
        BY <1>2, <1>5, <3>2, SameStatusBacked DEF Quiet, IInv
      <3>3. CASE c.kind = "lock" /\ SetStatus(b, c.swap, "BchLocked")
                 /\ SetLockTx(b, c.swap, c.tx)
        <4>1. lockTx[b][c.swap] = c.tx
          BY <1>1, <1>5, <3>3 DEF SetLockTx, IInv, TypeOK, RecordsOK
        <4>2. Backed("BchLocked", c.tx, c.swap)
          BY <1>1, <3>3 DEF CallBacked, Backed, IsLockOf
        <4>. QED
          BY <1>1, <1>2, <1>5, <3>3, <4>1, <4>2, SetStatusBacked
          DEF Quiet, IInv, Statuses
      <3>4. CASE c.kind = "refund" /\ SetStatus(b, c.swap, "BchRefunded")
        <4>1. Backed("BchRefunded", lockTx[b][c.swap], c.swap)
          BY <1>1, <3>4 DEF CallBacked, Backed, IInv, LockTxBacked, IsLockOf
        <4>. QED
          BY <1>1, <1>2, <1>5, <3>4, <4>1, SetStatusBacked
          DEF Quiet, IInv, Statuses
      <3>5. CASE /\ c.kind = "unlock" /\ c.res = "ok"
                 /\ SetStatus(b, c.swap, "SbchUnlocked")
        <4>1. Backed("SbchUnlocked", lockTx[b][c.swap], c.swap)
          BY <1>1, <3>5 DEF CallBacked, Backed, IInv, LockTxBacked, IsLockOf
        <4>. QED
          BY <1>1, <1>2, <1>5, <3>5, <4>1, SetStatusBacked
          DEF Quiet, IInv, Statuses
      <3>6. CASE c.kind = "unlock" /\ CheckUnlocked(b, c.swap)
        BY <1>1, <1>2, <1>5, <3>6, CheckUnlockedBacked DEF Quiet, CallBacked
      <3>. QED BY <3>1, <3>2, <3>3, <3>4, <3>5, <3>6
    <2>. QED BY <2>1, <2>2, <2>3, <2>4 DEF IInv
  <1>6. CASE /\ c.kind = "lock" /\ c.res = "ok"
             /\ SetStatus(b, c.swap, "BchLocked") /\ SetLockTx(b, c.swap, c.tx)
    <2>1. IsLockOf(c.tx, c.swap) /\ c.tx # 0
      BY <1>1, <1>6 DEF CallBacked, IsLockOf, IInv, TypeOK, ChainsOK
    <2>2. ASSUME NEW b2 \in Bots, NEW s2 \in Swaps
          PROVE  \/ /\ b2 = b /\ s2 = c.swap
                    /\ status'[b2][s2] = "BchLocked"
                    /\ lockTx'[b2][s2] = c.tx
                 \/ /\ status'[b2][s2] = status[b2][s2]
                    /\ lockTx'[b2][s2] = lockTx[b2][s2]
      BY <1>1, <1>6 DEF SetStatus, SetLockTx, IInv, TypeOK, RecordsOK
    <2>3. ASSUME NEW d \in calls'
          PROVE  lockTx'[d.bot] = lockTx[d.bot] \/ d.kind = "lock"
      <3>1. d \in calls /\ d.bot \in Bots /\ CallBacked(d)
        BY <1>2 DEF IInv, TypeOK, LoopsOK, Calls, CallsBacked
      <3>2. CASE d.bot = b
        BY <1>1, <1>6, <3>1, <3>2 DEF CallBacked, CallStage
      <3>3. CASE d.bot # b
        BY <1>6, <3>1, <3>3 DEF SetLockTx, IInv, TypeOK, RecordsOK
      <3>. QED BY <3>2, <3>3
    <2>4. /\ LocksBacked' /\ LogBacked' /\ PoolBacked' /\ CallsBacked'
          /\ UserNotCheated'
      BY <1>2, <1>3, <2>3, QuietStep
    <2>5. TodoBacked' /\ LogRead'
      BY <1>1, <1>2, <2>1, <2>2, HandledBacked
    <2>6. LockTxBacked'
      BY <1>2, <2>1, <2>2 DEF Quiet, IInv, LockTxBacked, IsLockOf
    <2>7. RecordsBacked'
      <3>1. Backed("BchLocked", c.tx, c.swap)
        BY <1>1, <2>1 DEF CallBacked, Backed, IsLockOf
      <3>. QED BY <1>2, <2>2, <3>1 DEF Quiet, IInv, RecordsBacked, Backed
    <2>. QED BY <2>4, <2>5, <2>6, <2>7 DEF IInv
  <1>. QED BY <1>4, <1>5, <1>6

\* The invariant is inductive.
LEMMA IInvStep == IInv /\ [Next]_vars => IInv'
  <1>. SUFFICES ASSUME IInv, [Next]_vars PROVE IInv'
    OBVIOUS
  <1>1. TypeOK'
    BY TypeStep
  <1>2. ASSUME NEW b \in Bots, BotStep(b) \/ Crash(b) PROVE IInv'
    BY <1>1, <1>2, LoopStepSafe, RecordStepSafe, CallStepSafe DEF BotStep
  <1>3. CASE TickBch \/ TickSbch \/ UNCHANGED vars
    <2>1. /\ UNCHANGED <<chains, records, heights, pc, todo, mark, calls>>
      BY <1>3 DEF TickBch, TickSbch, Tick, vars, loop
    <2>2. Kept /\ LocksBacked' /\ UserNotCheated'
      BY <2>1 DEF chains, Kept, IInv, LocksBacked, UserNotCheated, Taken
    <2>. QED BY <1>1, <2>1, <2>2, ChainStepSafe DEF chains
  <1>. QED
    BY <1>1, <1>2, <1>3, MineSafe, UserStepSafe DEF Next, Mine

-----------------------------------------------------------------------------
(* The theorems.                                                           *)

\* The inductive invariant: records, references to lock transactions, pending
\* unlocks, calls, work lists and logs agree with the chains at every moment.
THEOREM Invariance == Spec => []IInv
  BY InitIInv, IInvStep, PTL DEF Spec

\* Every variable keeps its type, whatever fails and in whatever order the
\* bots, the chains and the users act; no bot spends an output that does not
\* exist or reads past the end of the log.
THEOREM TypeCorrect == Spec => []TypeOK
  <1>1. IInv => TypeOK
    BY DEF IInv
  <1>. QED BY Invariance, <1>1, PTL

\* A record never says of the chains what is not so, however often a swap is
\* locked twice, whoever spends first and wherever a bot crashes.
THEOREM RecordsAlwaysBacked == Spec => []RecordsBacked
  <1>1. IInv => RecordsBacked
    BY DEF IInv
  <1>. QED BY Invariance, <1>1, PTL

\* No bot takes a user's sBCH unless the user has taken BCH for it.
THEOREM UserNeverCheated == Spec => []UserNotCheated
  <1>1. IInv => UserNotCheated
    BY DEF IInv
  <1>. QED BY Invariance, <1>1, PTL

=============================================================================
