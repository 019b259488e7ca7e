-------------------------- MODULE Bch2Sbch_proofs --------------------------
(***************************************************************************)
(* Theorems about Bch2Sbch, for any number of bots and swaps, any prices,  *)
(* time locks and bounds, and with every kind of fault.                    *)
(***************************************************************************)
EXTENDS Bch2Sbch, TLAPS

(***************************************************************************)
(* The inductive invariant.  RecordsBacked alone is not inductive: a       *)
(* record is saved from what the bot carries through its loop.  So every   *)
(* carrier of a fact between a chain and a record must be backed by the    *)
(* chain too: the events, the pending transactions, the calls in progress  *)
(* and the records a call of the loop has read.                            *)
(***************************************************************************)
SwapsBacked == \A s \in Swaps : swap[s] # "Invalid" => utxo[s] # "none"

LogBacked ==
  \A i \in 1..Len(sbchLog) :
    /\ swap[sbchLog[i].swap] # "Invalid"
    /\ sbchLog[i].event = "Unlock" => swap[sbchLog[i].swap] = "Unlocked"

PoolBacked == \A tx \in sbchPool : utxo[tx.swap] # "none"

CallBacked(c) ==
  /\ utxo[c.swap] # "none"
  /\ c.kind = "lock" /\ c.res = "ok" => swap[c.swap] # "Invalid"
  /\ c.kind = "refund" /\ c.res = "ok" => swap[c.swap] = "Refunded"
  /\ c.kind = "unlock" => /\ swap[c.swap] = "Unlocked"
                          /\ utxo[c.swap] \in {"unlocked", "refunded"}

CallsBacked == \A c \in calls : CallBacked(c)

TodoBacked ==
  \A b \in Bots : \A s \in todo[b] :
    /\ utxo[s] # "none"
    /\ pc[b] = "unlockBchUserDeposits" => swap[s] = "Unlocked"

\* a bot never reads past the end of the log
LogRead ==
  \A b \in Bots :
    /\ lastSbch[b] <= Len(sbchLog)
    /\ pc[b] = "scanSbchEvents" => mark[b] <= Len(sbchLog)

IInv ==
  /\ TypeOK /\ SwapsBacked /\ LogBacked /\ PoolBacked /\ CallsBacked
  /\ TodoBacked /\ LogRead /\ RecordsBacked /\ UserNotCheated

\* No record, call or transaction exists at first.
THEOREM InitIInv == Init => IInv
  <1>1. Init => TypeOK
    BY BotsAssumption, TimesAssumption, FlagsAssumption, PricesAssumption
    DEF Init, TypeOK, ChainsOK, RecordsOK, LoopsOK, Statuses, Stages,
      Calls, SbchTxs, Events
  <1>2. Init => /\ SwapsBacked /\ LogBacked /\ PoolBacked /\ CallsBacked
                /\ TodoBacked /\ LogRead /\ RecordsBacked /\ UserNotCheated
    BY DEF Init, SwapsBacked, LogBacked, PoolBacked, CallsBacked, CallBacked,
      TodoBacked, LogRead, RecordsBacked, Backed, UserNotCheated
  <1>. QED BY <1>1, <1>2 DEF IInv

-----------------------------------------------------------------------------
(* Type correctness.                                                       *)

\* A record's status is one of its table's (db.go).
LEMMA StatusType ==
  ASSUME RecordsOK, NEW b \in Bots, NEW s \in Swaps, NEW st \in Statuses,
         SetStatus(b, s, st)
  PROVE  status' \in [Bots -> [Swaps -> Statuses]]
  <1>1. status[b] \in [Swaps -> Statuses]
    BY DEF RecordsOK
  <1>2. [status[b] EXCEPT ![s] = st] \in [Swaps -> Statuses]
    BY <1>1
  <1>3. status' = [status EXCEPT ![b] = [status[b] EXCEPT ![s] = st]]
    BY DEF SetStatus
  <1>. QED BY <1>2, <1>3 DEF RecordsOK

\* SbchLockTxTime is a time, of the contract or of the local clock.
LEMMA LockTimeType ==
  ASSUME ChainsOK, RecordsOK, NEW b \in Bots, NEW s \in Swaps, LockTimeOf(b, s)
  PROVE  lockTime' \in [Bots -> [Swaps -> Nat]]
  <1>1. PICK t \in Nat : lockTime' = [lockTime EXCEPT ![b][s] = t]
    BY DEF LockTimeOf, ChainsOK
  <1>2. [lockTime[b] EXCEPT ![s] = t] \in [Swaps -> Nat]
    BY DEF RecordsOK
  <1>3. lockTime' = [lockTime EXCEPT ![b] = [lockTime[b] EXCEPT ![s] = t]]
    BY <1>1
  <1>. QED BY <1>2, <1>3 DEF RecordsOK

\* The failed refund writes a status of the table or none.
LEMMA CheckRefundedType ==
  ASSUME RecordsOK, NEW b \in Bots, NEW s \in Swaps, CheckRefunded(b, s)
  PROVE  status' \in [Bots -> [Swaps -> Statuses]]
  <1>1. CASE swap[s] = "Refunded"
    BY <1>1, StatusType DEF CheckRefunded, Statuses
  <1>2. CASE swap[s] # "Refunded"
    BY <1>2 DEF CheckRefunded, RecordsOK
  <1>. QED BY <1>1, <1>2

\* The fault counter stays within its bound.
LEMMA FaultType ==
  ASSUME faults \in 0..MaxFaults,
         Fine \/ \E kind \in {"crash", "rpc", "timeout", "db"} : Fault(kind)
  PROVE  faults' \in 0..MaxFaults
  BY TimesAssumption DEF Fine, Fault

\* The start of a call, successful or not, keeps the types.
LEMMA EnterType ==
  ASSUME TypeOK, NEW b \in Bots, NEW stage \in Stages,
         Enter(b, stage) \/ EnterInVain(b, stage)
  PROVE  /\ pc' \in [Bots -> Stages] /\ todo' \in [Bots -> SUBSET Swaps]
         /\ mark' \in [Bots -> Int] /\ pos' \in [Bots -> Nat]
  <1>1. Reading(stage) \in Int
    BY TimesAssumption DEF Reading, SafeHeight, TypeOK, ChainsOK
  <1>2. Cursor(b, stage) \in Nat
    BY DEF Cursor, TypeOK, RecordsOK
  <1>3. Query(b, stage) \subseteq Swaps
    BY DEF Query
  <1>. QED BY <1>1, <1>2, <1>3 DEF Enter, EnterInVain, TypeOK, LoopsOK

\* The end of a record's turn keeps the types.
LEMMA HandledType ==
  ASSUME LoopsOK, NEW b \in Bots, NEW s \in Swaps, Handled(b, s)
  PROVE  /\ pc' \in [Bots -> Stages] /\ todo' \in [Bots -> SUBSET Swaps]
         /\ mark' \in [Bots -> Int] /\ pos' \in [Bots -> Nat]
         /\ bchPrice' \in [Bots -> Prices]
  BY DEF Handled, LoopsOK

\* callHtlc puts one transaction into the pool and waits for it.
LEMMA SendTxType ==
  ASSUME TypeOK, NEW b \in Bots, NEW s \in Swaps, NEW kind \in {"lock", "refund"},
         SendTx(b, kind, s)
  PROVE  TypeOK'
  <1>. USE DEF SendTx, clocks, chains, records, heights, Fine
  <1>1. ChainsOK' BY DEF TypeOK, ChainsOK, SbchTxs
  <1>2. RecordsOK' BY DEF TypeOK, RecordsOK
  <1>3. LoopsOK' BY DEF TypeOK, LoopsOK, Calls, CallKinds
  <1>. QED BY <1>1, <1>2, <1>3 DEF TypeOK

\* The scan never passes the end of the log.
LEMMA NextLogType ==
  ASSUME TypeOK, LogRead, NEW b \in Bots,
         pc[b] = "scanSbchEvents", pos[b] < mark[b]
  PROVE  pos[b] + 1 \in 1..Len(sbchLog) /\ NextLog(b).swap \in Swaps
  <1>1. pos[b] + 1 \in 1..Len(sbchLog)
    BY DEF LogRead, TypeOK, ChainsOK, LoopsOK
  <1>2. NextLog(b) \in Events
    BY <1>1 DEF NextLog, TypeOK, ChainsOK
  <1>. QED BY <1>1, <1>2 DEF Events

\* A step of bot b that neither handles a record nor ends a call.
LEMMA LoopStepTypes ==
  ASSUME TypeOK, LogRead, NEW b \in Bots,
         \/ Start(b) \/ UpdatePrices(b) \/ EndStage(b) \/ HandleBchBlock(b)
         \/ SaveBchHeight(b) \/ BchBlockFails(b) \/ HandleSbchLockEventB2S(b)
         \/ HandleSbchUnlockEvent(b) \/ SaveSbchHeight(b) \/ Crash(b)
  PROVE  TypeOK'
  <1>. USE DEF TypeOK, clocks, chains, records, heights, loop
  <1>1. CASE Start(b)
    BY <1>1 DEF Start, Fine, ChainsOK, RecordsOK, LoopsOK, Stages
  <1>2. CASE UpdatePrices(b)
    <2>1. /\ pc' \in [Bots -> Stages] /\ todo' \in [Bots -> SUBSET Swaps]
          /\ mark' \in [Bots -> Int] /\ pos' \in [Bots -> Nat]
      BY <1>2, EnterType DEF UpdatePrices, Stages
    <2>2. faults' \in 0..MaxFaults
      BY <1>2, FaultType DEF UpdatePrices, LoopsOK
    <2>. QED
      BY <1>2, <2>1, <2>2 DEF UpdatePrices, ChainsOK, RecordsOK, LoopsOK
  <1>3. CASE EndStage(b)
    <2>1. /\ pc' \in [Bots -> Stages] /\ todo' \in [Bots -> SUBSET Swaps]
          /\ mark' \in [Bots -> Int] /\ pos' \in [Bots -> Nat]
      BY <1>3, EnterType DEF EndStage
    <2>2. faults' \in 0..MaxFaults
      BY <1>3, FaultType DEF EndStage, LoopsOK
    <2>3. lap' \in [Bots -> 0..3]
      BY <1>3 DEF EndStage, LoopsOK
    <2>. QED
      BY <1>3, <2>1, <2>2, <2>3 DEF EndStage, ChainsOK, RecordsOK, LoopsOK
  <1>4. CASE HandleBchBlock(b)
    <2>1. faults' \in 0..MaxFaults
      BY <1>4, FaultType DEF HandleBchBlock, LoopsOK
    <2>2. status' \in [Bots -> [Swaps -> Statuses]]
      BY <1>4 DEF HandleBchBlock, RecordsOK, Statuses
    <2>3. pos' \in [Bots -> Nat]
      BY <1>4 DEF HandleBchBlock, LoopsOK
    <2>. QED
      BY <1>4, <2>1, <2>2, <2>3
      DEF HandleBchBlock, ChainsOK, RecordsOK, LoopsOK
  <1>5. CASE SaveBchHeight(b)
    BY <1>5 DEF SaveBchHeight, Fine, ChainsOK, RecordsOK, LoopsOK
  <1>6. CASE BchBlockFails(b)
    BY <1>6, FaultType DEF BchBlockFails, ChainsOK, RecordsOK, LoopsOK
  <1>7. CASE HandleSbchLockEventB2S(b)
    <2>. DEFINE s == NextLog(b).swap
    <2>1. s \in Swaps
      BY <1>7, NextLogType DEF HandleSbchLockEventB2S, HandlingLog
    <2>2. /\ status' \in [Bots -> [Swaps -> Statuses]]
          /\ lockTime' \in [Bots -> [Swaps -> Nat]]
      BY <1>7, <2>1, StatusType, LockTimeType
      DEF HandleSbchLockEventB2S, RecordsOK, Statuses
    <2>3. faults' \in 0..MaxFaults
      BY <1>7, FaultType DEF HandleSbchLockEventB2S, LockTimeOf, LoopsOK
    <2>4. NextLogHandled(b) /\ UNCHANGED revealedAt
      BY <1>7 DEF HandleSbchLockEventB2S
    <2>. QED
      BY <2>2, <2>3, <2>4 DEF NextLogHandled, ChainsOK, RecordsOK, LoopsOK
  <1>8. CASE HandleSbchUnlockEvent(b)
    <2>. DEFINE s == NextLog(b).swap
    <2>1. s \in Swaps
      BY <1>8, NextLogType DEF HandleSbchUnlockEvent, HandlingLog
    <2>2. status' \in [Bots -> [Swaps -> Statuses]]
      BY <1>8, <2>1, StatusType DEF HandleSbchUnlockEvent, RecordsOK, Statuses
    <2>3. revealedAt' \in [Bots -> [Swaps -> Nat]]
      <3>1. [revealedAt[b] EXCEPT ![s] = sbchNow] \in [Swaps -> Nat]
        BY DEF RecordsOK, ChainsOK
      <3>2. \/ revealedAt' =
                 [revealedAt EXCEPT ![b] = [revealedAt[b] EXCEPT ![s] = sbchNow]]
            \/ revealedAt' = revealedAt
        BY <1>8 DEF HandleSbchUnlockEvent
      <3>. HIDE DEF s
      <3>. QED BY <3>1, <3>2 DEF RecordsOK
    <2>4. faults' \in 0..MaxFaults
      BY <1>8, FaultType DEF HandleSbchUnlockEvent, LoopsOK
    <2>5. NextLogHandled(b) /\ UNCHANGED lockTime
      BY <1>8 DEF HandleSbchUnlockEvent
    <2>. QED
      BY <2>2, <2>3, <2>4, <2>5 DEF NextLogHandled, ChainsOK, RecordsOK, LoopsOK
  <1>9. CASE SaveSbchHeight(b)
    BY <1>9 DEF SaveSbchHeight, Fine, ChainsOK, RecordsOK, LoopsOK
  <1>10. CASE Crash(b)
    BY <1>10, FaultType DEF Crash, ChainsOK, RecordsOK, LoopsOK, Stages
  <1>. QED
    BY <1>1, <1>2, <1>3, <1>4, <1>5, <1>6, <1>7, <1>8, <1>9, <1>10

\* A step of bot b in the handling of the record of swap s.
LEMMA RecordStepTypes ==
  ASSUME TypeOK, NEW b \in Bots, NEW s \in Swaps,
         \/ SkipRefund(b, s) \/ RefundSbch(b, s) \/ RefundSbchFails(b, s)
         \/ PriceChanged(b, s) \/ TooLateToLockSbch(b, s)
         \/ LockSbch(b, s) \/ LockSbchFails(b, s)
         \/ WaitForOther(b, s) \/ UnlockBch(b, s) \/ RpcFails(b, s)
  PROVE  TypeOK'
  <1>. USE DEF TypeOK, clocks, chains, records, heights
  <1>1. CASE RefundSbch(b, s) \/ LockSbch(b, s)
    BY <1>1, SendTxType DEF RefundSbch, LockSbch
  <1>2. CASE UnlockBch(b, s)
    <2>1. utxo' \in [Swaps -> {"none", "locked", "unlocked", "refunded"}]
      BY <1>2 DEF UnlockBch, ChainsOK
    <2>2. calls' \subseteq Calls
      BY <1>2 DEF UnlockBch, LoopsOK, Calls, CallKinds
    <2>. QED
      BY <1>2, <2>1, <2>2 DEF UnlockBch, Fine, ChainsOK, RecordsOK, LoopsOK
  <1>3. CASE ~(RefundSbch(b, s) \/ LockSbch(b, s) \/ UnlockBch(b, s))
    <2>1. Handled(b, s)
      BY <1>3 DEF SkipRefund, RefundSbchFails, PriceChanged,
        TooLateToLockSbch, LockSbchFails, WaitForOther, RpcFails
    <2>2. status' \in [Bots -> [Swaps -> Statuses]]
      BY <1>3, StatusType, CheckRefundedType
      DEF SkipRefund, RefundSbchFails, PriceChanged, TooLateToLockSbch,
        LockSbchFails, WaitForOther, RpcFails, RecordsOK, Statuses
    <2>3. faults' \in 0..MaxFaults
      BY <1>3, FaultType
      DEF SkipRefund, RefundSbchFails, PriceChanged, TooLateToLockSbch,
        LockSbchFails, WaitForOther, RpcFails, LoopsOK
    <2>4. UNCHANGED <<clocks, chains, lockTime, revealedAt, heights, calls, lap>>
      BY <1>3 DEF SkipRefund, RefundSbchFails, PriceChanged,
        TooLateToLockSbch, LockSbchFails, WaitForOther, RpcFails
    <2>. QED
      BY <2>1, <2>2, <2>3, <2>4, HandledType DEF ChainsOK, RecordsOK, LoopsOK
  <1>. QED BY <1>1, <1>2, <1>3

\* The end of a call of bot b.
LEMMA CallStepTypes ==
  ASSUME TypeOK, NEW b \in Bots, NEW c \in calls,
         SaveResult(b, c) \/ CallFails(b, c)
  PROVE  TypeOK'
  <1>. USE DEF TypeOK, clocks, chains, records, heights
  <1>1. c.swap \in Swaps
    BY DEF LoopsOK, Calls
  <1>2. Handled(b, c.swap)
    BY DEF SaveResult, CallFails
  <1>3. status' \in [Bots -> [Swaps -> Statuses]]
    BY <1>1, StatusType, CheckRefundedType
    DEF SaveResult, CallFails, RecordsOK, Statuses
  <1>4. lockTime' \in [Bots -> [Swaps -> Nat]]
    BY <1>1, LockTimeType DEF SaveResult, CallFails, RecordsOK
  <1>5. faults' \in 0..MaxFaults
    BY FaultType DEF SaveResult, CallFails, LockTimeOf, LoopsOK
  <1>6. /\ calls' \subseteq Calls
        /\ UNCHANGED <<clocks, chains, revealedAt, heights, lap>>
    BY DEF SaveResult, CallFails, LoopsOK
  <1>. QED
    BY <1>1, <1>2, <1>3, <1>4, <1>5, <1>6, HandledType
    DEF ChainsOK, RecordsOK, LoopsOK

\* The chains, the users and the clocks.
LEMMA WorldStepTypes ==
  ASSUME TypeOK,
         Mine \/ (\E s \in Swaps : UserStep(s)) \/ TickBch \/ TickSbch
  PROVE  TypeOK'
  <1>. USE DEF TypeOK, clocks, chains, records, heights, loop
  <1>1. ASSUME NEW tx \in sbchPool, MineSbchTx(tx) PROVE TypeOK'
    <2>1. tx \in SbchTxs
      BY DEF ChainsOK
    <2>2. calls' \subseteq Calls
      <3>1. PICK res \in {"ok", "reverted"} : calls' = Receipts(tx, res)
        BY <1>1 DEF MineSbchTx, MineLock, MineRefund, MineReverted
      <3>2. ASSUME NEW c \in Calls
            PROVE  [c EXCEPT !.res = IF @ = "pending" THEN res ELSE @] \in Calls
        BY DEF Calls
      <3>. QED BY <3>1, <3>2 DEF Receipts, LoopsOK
    <2>3. /\ swap' \in [Swaps -> {"Invalid", "Locked", "Unlocked", "Refunded"}]
          /\ swapTime' \in [Swaps -> Nat]
          /\ sbchLog' \in Seq(Events)
          /\ sbchPool' \subseteq SbchTxs
      <3>1. tx.swap \in Swaps
        BY <2>1 DEF SbchTxs
      <3>2. [event |-> "Lock", swap |-> tx.swap] \in Events
        BY <3>1 DEF Events
      <3>3. /\ swap' \in [Swaps -> {"Invalid", "Locked", "Unlocked", "Refunded"}]
            /\ swapTime' \in [Swaps -> Nat]
        BY <1>1, <3>1
        DEF MineSbchTx, MineLock, MineRefund, MineReverted, ChainsOK
      <3>4. sbchLog' \in Seq(Events)
        <4>1. \/ sbchLog' = sbchLog
              \/ sbchLog' = Append(sbchLog, [event |-> "Lock", swap |-> tx.swap])
          BY <1>1 DEF MineSbchTx, MineLock, MineRefund, MineReverted
        <4>2. Append(sbchLog, [event |-> "Lock", swap |-> tx.swap]) \in Seq(Events)
          BY <3>2 DEF ChainsOK
        <4>. QED BY <4>1, <4>2 DEF ChainsOK
      <3>. QED BY <1>1, <3>3, <3>4 DEF MineSbchTx, ChainsOK
    <2>. QED
      BY <1>1, <2>2, <2>3 DEF MineSbchTx, ChainsOK, RecordsOK, LoopsOK
  <1>2. ASSUME NEW s \in Swaps, UserStep(s) PROVE TypeOK'
    <2>1. ASSUME NEW p \in Prices, UserLockBch(s, p) PROVE TypeOK'
      BY <2>1 DEF UserLockBch, ChainsOK, RecordsOK, LoopsOK
    <2>2. CASE UserUnlockSbch(s)
      BY <2>2 DEF UserUnlockSbch, ChainsOK, RecordsOK, LoopsOK, Events
    <2>3. CASE UserRefundBch(s)
      BY <2>3 DEF UserRefundBch, ChainsOK, RecordsOK, LoopsOK
    <2>. QED BY <1>2, <2>1, <2>2, <2>3 DEF UserStep
  <1>3. CASE TickBch \/ TickSbch
    BY <1>3 DEF TickBch, TickSbch, Tick, ChainsOK, RecordsOK, LoopsOK
  <1>. QED BY <1>1, <1>2, <1>3 DEF Mine

\* Every step keeps the types.
LEMMA TypeStep == TypeOK /\ LogRead /\ [Next]_vars => TypeOK'
  <1>. SUFFICES ASSUME TypeOK, LogRead, [Next]_vars PROVE TypeOK'
    OBVIOUS
  <1>1. ASSUME NEW b \in Bots, BotStep(b) PROVE TypeOK'
    BY <1>1, LoopStepTypes, RecordStepTypes, CallStepTypes DEF BotStep
  <1>2. ASSUME NEW b \in Bots, Crash(b) PROVE TypeOK'
    BY <1>2, LoopStepTypes
  <1>3. CASE UNCHANGED vars
    BY <1>3 DEF vars, clocks, chains, records, heights, loop, TypeOK,
      ChainsOK, RecordsOK, LoopsOK
  <1>. QED BY <1>1, <1>2, <1>3, WorldStepTypes DEF Next

-----------------------------------------------------------------------------
(* Safety.                                                                 *)

\* What the chains have done they do not undo.
Kept(s) ==
  /\ utxo[s] # "none" => utxo'[s] # "none"
  /\ utxo[s] \in {"unlocked", "refunded"} => utxo'[s] = utxo[s]
  /\ swap[s] # "Invalid" => swap'[s] # "Invalid"
  /\ swap[s] \in {"Unlocked", "Refunded"} => swap'[s] = swap[s]

\* A step that only moves bot b on through its loop.
Quiet == UNCHANGED <<utxo, swap, sbchPool, sbchLog>> /\ calls' \subseteq calls

\* A step that leaves the chains alone, or only ends calls, keeps what is
\* known of the chains.
LEMMA QuietStep ==
  ASSUME IInv, Quiet
  PROVE  /\ SwapsBacked' /\ LogBacked' /\ PoolBacked' /\ CallsBacked'
         /\ UserNotCheated'
  BY DEF IInv, Quiet, SwapsBacked, LogBacked, PoolBacked, CallsBacked,
    CallBacked, UserNotCheated

\* A new status that is true of the chains keeps all records true.
LEMMA SetStatusBacked ==
  ASSUME TypeOK, RecordsBacked, NEW b \in Bots, NEW s \in Swaps,
         NEW st \in Statuses, SetStatus(b, s, st), Backed(st, s),
         UNCHANGED <<utxo, swap>>
  PROVE  RecordsBacked'
  <1>1. ASSUME NEW b2 \in Bots, NEW s2 \in Swaps
        PROVE  (status'[b2][s2] = st /\ s2 = s) \/ status'[b2][s2] = status[b2][s2]
    BY DEF SetStatus, TypeOK, RecordsOK
  <1>. QED BY <1>1 DEF RecordsBacked, Backed

\* So does a step that changes neither records nor chains.
LEMMA SameStatusBacked ==
  ASSUME RecordsBacked, UNCHANGED <<utxo, swap, status>>
  PROVE  RecordsBacked'
  BY DEF RecordsBacked, Backed

\* The failed refund believes getSwapState, and rightly.
LEMMA CheckRefundedBacked ==
  ASSUME TypeOK, RecordsBacked, NEW b \in Bots, NEW s \in Swaps,
         CheckRefunded(b, s), utxo[s] # "none", UNCHANGED <<utxo, swap>>
  PROVE  RecordsBacked'
  <1>1. CASE swap[s] = "Refunded"
    BY <1>1, SetStatusBacked DEF CheckRefunded, Backed, Statuses
  <1>2. CASE swap[s] # "Refunded"
    BY <1>2, SameStatusBacked DEF CheckRefunded
  <1>. QED BY <1>1, <1>2

\* What a call reads from its table is what it relies on.
LEMMA EnterBacked ==
  ASSUME IInv, NEW b \in Bots, NEW stage \in Stages, Quiet,
         Enter(b, stage) \/ EnterInVain(b, stage),
         UNCHANGED <<status, lastSbch>>
  PROVE  TodoBacked' /\ LogRead'
  <1>. USE DEF IInv, TypeOK, LoopsOK, RecordsOK, Quiet
  <1>1. TodoBacked'
    <2>1. ASSUME NEW s \in Query(b, stage)
          PROVE  /\ utxo[s] # "none"
                 /\ stage = "unlockBchUserDeposits" => swap[s] = "Unlocked"
      BY DEF Query, RecordsBacked, Backed
    <2>. QED BY <2>1 DEF Enter, EnterInVain, TodoBacked
  <1>2. LogRead'
    <2>1. /\ Reading("scanSbchEvents") = Len(sbchLog)
          /\ Cursor(b, "scanSbchEvents") <= Len(sbchLog)
      BY DEF Reading, Cursor, LogRead
    <2>2. stage = "scanSbchEvents" => mark'[b] <= Len(sbchLog)
      BY <2>1 DEF Enter, EnterInVain, ChainsOK
    <2>. HIDE DEF Quiet
    <2>. QED BY <2>2 DEF Enter, EnterInVain, LogRead, Quiet
  <1>. QED BY <1>1, <1>2

\* Dropping a record from the work list keeps the rest of the list true.
LEMMA HandledBacked ==
  ASSUME IInv, NEW b \in Bots, NEW s \in Swaps, Quiet, Handled(b, s),
         UNCHANGED <<lastSbch>>
  PROVE  TodoBacked' /\ LogRead'
  BY DEF IInv, TypeOK, LoopsOK, RecordsOK, Quiet, Handled, TodoBacked, LogRead

\* Scanning, and going from call to call, keeps the invariant.
LEMMA LoopStepSafe ==
  ASSUME IInv, TypeOK', NEW b \in Bots,
         \/ Start(b) \/ UpdatePrices(b) \/ EndStage(b) \/ HandleBchBlock(b)
         \/ SaveBchHeight(b) \/ BchBlockFails(b) \/ HandleSbchLockEventB2S(b)
         \/ HandleSbchUnlockEvent(b) \/ SaveSbchHeight(b) \/ Crash(b)
  PROVE  IInv'
  <1>1. Quiet
    BY DEF Start, UpdatePrices, EndStage, HandleBchBlock, SaveBchHeight,
      BchBlockFails, HandleSbchLockEventB2S, HandleSbchUnlockEvent,
      NextLogHandled, SaveSbchHeight, Crash, chains, loop, Quiet
  <1>2. SUFFICES TodoBacked' /\ LogRead' /\ RecordsBacked'
    BY <1>1, QuietStep DEF IInv
  <1>. USE DEF chains, records, heights, loop
  <1>3. CASE Start(b)
    BY <1>3, SameStatusBacked
    DEF Start, IInv, TypeOK, LoopsOK, TodoBacked, LogRead
  <1>4. CASE UpdatePrices(b)
    BY <1>1, <1>4, EnterBacked, SameStatusBacked DEF UpdatePrices, IInv, Stages
  <1>5. CASE EndStage(b)
    BY <1>1, <1>5, EnterBacked, SameStatusBacked DEF EndStage, IInv
  <1>6. CASE HandleBchBlock(b)
    <2>1. TodoBacked' /\ LogRead'
      BY <1>6 DEF HandleBchBlock, IInv, TodoBacked, LogRead
    <2>2. ASSUME NEW b2 \in Bots, NEW s \in Swaps
          PROVE  \/ status'[b2][s] = status[b2][s]
                 \/ status'[b2][s] = "New" /\ utxo[s] # "none"
      BY <1>6 DEF HandleBchBlock, NewDeposits, IInv, TypeOK, RecordsOK
    <2>. QED BY <1>6, <2>1, <2>2 DEF HandleBchBlock, IInv, RecordsBacked, Backed
  <1>7. CASE SaveBchHeight(b)
    BY <1>7, SameStatusBacked DEF SaveBchHeight, IInv, TodoBacked, LogRead
  <1>8. CASE BchBlockFails(b)
    BY <1>8, SameStatusBacked
    DEF BchBlockFails, IInv, TypeOK, LoopsOK, TodoBacked, LogRead
  <1>9. CASE HandleSbchLockEventB2S(b)
    <2>. DEFINE s == NextLog(b).swap
    <2>1. /\ s \in Swaps /\ swap[s] # "Invalid"
      BY <1>9, NextLogType
      DEF HandleSbchLockEventB2S, HandlingLog, NextLog, IInv, LogBacked
    <2>2. \/ status[b][s] = "New" /\ SetStatus(b, s, "SbchLocked")
          \/ UNCHANGED status
      BY <1>9 DEF HandleSbchLockEventB2S
    <2>3. NextLogHandled(b)
      BY <1>9 DEF HandleSbchLockEventB2S
    <2>4. RecordsBacked'
      <3>1. status[b][s] = "New" => Backed("SbchLocked", s)
        BY <2>1 DEF IInv, RecordsBacked, Backed
      <3>. HIDE DEF s
      <3>. QED
        BY <2>1, <2>2, <2>3, <3>1, SetStatusBacked, SameStatusBacked
        DEF NextLogHandled, IInv, Statuses
    <2>. QED BY <2>3, <2>4 DEF NextLogHandled, IInv, TodoBacked, LogRead
  <1>10. CASE HandleSbchUnlockEvent(b)
    <2>. DEFINE s == NextLog(b).swap
    <2>1. /\ s \in Swaps /\ swap[s] = "Unlocked"
      BY <1>10, NextLogType
      DEF HandleSbchUnlockEvent, HandlingLog, NextLog, IInv, LogBacked
    <2>2. \/ status[b][s] = "SbchLocked" /\ SetStatus(b, s, "SecretRevealed")
          \/ UNCHANGED status
      BY <1>10 DEF HandleSbchUnlockEvent
    <2>3. NextLogHandled(b)
      BY <1>10 DEF HandleSbchUnlockEvent
    <2>4. RecordsBacked'
      <3>1. status[b][s] = "SbchLocked" => Backed("SecretRevealed", s)
        BY <2>1 DEF IInv, RecordsBacked, Backed
      <3>. HIDE DEF s
      <3>. QED
        BY <2>1, <2>2, <2>3, <3>1, SetStatusBacked, SameStatusBacked
        DEF NextLogHandled, IInv, Statuses
    <2>. QED BY <2>3, <2>4 DEF NextLogHandled, IInv, TodoBacked, LogRead
  <1>11. CASE SaveSbchHeight(b)
    BY <1>11, SameStatusBacked
    DEF SaveSbchHeight, IInv, TypeOK, RecordsOK, TodoBacked, LogRead
  <1>12. CASE Crash(b)
    BY <1>12, SameStatusBacked
    DEF Crash, IInv, TypeOK, LoopsOK, TodoBacked, LogRead
  <1>. QED
    BY <1>3, <1>4, <1>5, <1>6, <1>7, <1>8, <1>9, <1>10, <1>11, <1>12

\* Handling one record keeps the invariant.
LEMMA RecordStepSafe ==
  ASSUME IInv, TypeOK', NEW b \in Bots, NEW s \in Swaps,
         \/ SkipRefund(b, s) \/ RefundSbch(b, s) \/ RefundSbchFails(b, s)
         \/ PriceChanged(b, s) \/ TooLateToLockSbch(b, s)
         \/ LockSbch(b, s) \/ LockSbchFails(b, s)
         \/ WaitForOther(b, s) \/ UnlockBch(b, s) \/ RpcFails(b, s)
  PROVE  IInv'
  <1>. USE DEF chains, records, heights
  <1>1. s \in todo[b] /\ utxo[s] # "none"
    BY DEF SkipRefund, RefundSbch, RefundSbchFails, PriceChanged,
      TooLateToLockSbch, LockSbch, LockSbchFails, WaitForOther, UnlockBch,
      RpcFails, Handling, IInv, TodoBacked
  <1>2. CASE RefundSbch(b, s) \/ LockSbch(b, s)
    <2>1. PICK kind \in {"lock", "refund"} : SendTx(b, kind, s)
      BY <1>2 DEF RefundSbch, LockSbch
    <2>. USE DEF SendTx, IInv
    <2>2. SwapsBacked' /\ LogBacked' /\ UserNotCheated'
      BY <2>1 DEF SwapsBacked, LogBacked, UserNotCheated
    <2>3. PoolBacked' /\ CallsBacked'
      BY <1>1, <2>1 DEF PoolBacked, CallsBacked, CallBacked
    <2>4. TodoBacked' /\ LogRead'
      BY <2>1 DEF TodoBacked, LogRead
    <2>5. RecordsBacked'
      BY <2>1, SameStatusBacked
    <2>. QED BY <2>2, <2>3, <2>4, <2>5
  <1>3. CASE UnlockBch(b, s)
    <2>1. swap[s] = "Unlocked"
      BY <1>1, <1>3 DEF UnlockBch, Handling, IInv, TodoBacked
    <2>2. /\ utxo'[s] \in {"unlocked", "refunded"}
          /\ \A s2 \in Swaps : s2 # s => utxo'[s2] = utxo[s2]
      BY <1>1, <1>3 DEF UnlockBch, IInv, TypeOK, ChainsOK
    <2>. USE DEF UnlockBch, IInv
    <2>3. SwapsBacked' /\ LogBacked' /\ UserNotCheated'
      BY <1>3, <2>1, <2>2 DEF SwapsBacked, LogBacked, UserNotCheated
    <2>4. PoolBacked'
      BY <1>3, <2>2 DEF PoolBacked, TypeOK, ChainsOK, SbchTxs
    <2>5. CallsBacked'
      BY <1>3, <2>1, <2>2
      DEF CallsBacked, CallBacked, TypeOK, LoopsOK, Calls, CallKinds
    <2>6. TodoBacked' /\ LogRead'
      BY <1>3, <2>2 DEF TodoBacked, LogRead, TypeOK, LoopsOK
    <2>7. RecordsBacked'
      BY <1>3, <2>1, <2>2 DEF RecordsBacked, Backed
    <2>. QED BY <2>3, <2>4, <2>5, <2>6, <2>7
  <1>4. CASE ~(RefundSbch(b, s) \/ LockSbch(b, s) \/ UnlockBch(b, s))
    <2>1. Quiet /\ UNCHANGED lastSbch
      BY <1>4
      DEF SkipRefund, RefundSbchFails, PriceChanged, TooLateToLockSbch,
        LockSbchFails, WaitForOther, RpcFails, Quiet
    <2>2. Handled(b, s)
      BY <1>4 DEF SkipRefund, RefundSbchFails, PriceChanged,
        TooLateToLockSbch, LockSbchFails, WaitForOther, RpcFails
    <2>3. \/ CheckRefunded(b, s) \/ UNCHANGED status
          \/ \E st \in {"PriceChanged", "TooLateToLockSbch"} : SetStatus(b, s, st)
      BY <1>4 DEF SkipRefund, RefundSbchFails, PriceChanged,
        TooLateToLockSbch, LockSbchFails, WaitForOther, RpcFails
    <2>4. \A st \in {"PriceChanged", "TooLateToLockSbch"} :
             st \in Statuses /\ Backed(st, s)
      BY <1>1 DEF Backed, Statuses
    <2>5. RecordsBacked'
      BY <1>1, <2>1, <2>3, <2>4, SetStatusBacked, SameStatusBacked,
        CheckRefundedBacked DEF IInv, Quiet
    <2>. QED BY <2>1, <2>2, <2>5, QuietStep, HandledBacked DEF IInv
  <1>. QED BY <1>2, <1>3, <1>4

\* Saving or losing the outcome of a call keeps the invariant.
LEMMA CallStepSafe ==
  ASSUME IInv, TypeOK', NEW b \in Bots, NEW c \in calls,
         SaveResult(b, c) \/ CallFails(b, c)
  PROVE  IInv'
  <1>. USE DEF chains, records, heights
  <1>1. c.swap \in Swaps /\ CallBacked(c)
    BY DEF IInv, TypeOK, LoopsOK, Calls, CallsBacked
  <1>2. Quiet /\ UNCHANGED lastSbch /\ Handled(b, c.swap)
    BY DEF SaveResult, CallFails, Quiet
  <1>3. RecordsBacked'
    <2>1. CASE SaveResult(b, c)
      <3>1. \/ UNCHANGED status
            \/ c.kind = "lock" /\ SetStatus(b, c.swap, "SbchLocked")
            \/ c.kind = "refund" /\ SetStatus(b, c.swap, "SbchRefunded")
            \/ c.kind = "unlock" /\ SetStatus(b, c.swap, "BchUnlocked")
        BY <2>1 DEF SaveResult
      <3>2. /\ c.kind = "lock" => Backed("SbchLocked", c.swap)
            /\ c.kind = "refund" => Backed("SbchRefunded", c.swap)
            /\ c.kind = "unlock" => Backed("BchUnlocked", c.swap)
        BY <1>1, <2>1 DEF SaveResult, CallBacked, Backed
      <3>. QED
        BY <1>1, <1>2, <3>1, <3>2, SetStatusBacked, SameStatusBacked
        DEF IInv, Quiet, Statuses
    <2>2. CASE CallFails(b, c)
      BY <1>1, <1>2, <2>2, CheckRefundedBacked, SameStatusBacked
      DEF CallFails, CallBacked, IInv, Quiet
    <2>. QED BY <2>1, <2>2
  <1>. QED BY <1>1, <1>2, <1>3, QuietStep, HandledBacked DEF IInv

\* Facts whose carriers stay in place survive what the chains do.
LEMMA KeptFacts ==
  ASSUME IInv, TypeOK, \A s \in Swaps : Kept(s), UNCHANGED <<records, heights>>,
         UNCHANGED <<pc, todo, mark>>, Len(sbchLog') >= Len(sbchLog)
  PROVE  /\ RecordsBacked' /\ TodoBacked' /\ LogRead'
         /\ \A c \in calls : CallBacked(c)'
         /\ \A i \in 1..Len(sbchLog) :
              /\ swap'[sbchLog[i].swap] # "Invalid"
              /\ sbchLog[i].event = "Unlock" =>
                   swap'[sbchLog[i].swap] = "Unlocked"
  <1>. USE DEF Kept, IInv, records, heights
  <1>1. RecordsBacked'
    BY DEF RecordsBacked, Backed, TypeOK, ChainsOK
  <1>2. TodoBacked'
    BY DEF TodoBacked, TypeOK, LoopsOK
  <1>3. LogRead'
    BY DEF LogRead, TypeOK, ChainsOK, RecordsOK, LoopsOK
  <1>4. ASSUME NEW c \in calls PROVE CallBacked(c)'
    BY DEF CallsBacked, CallBacked, TypeOK, ChainsOK, LoopsOK, Calls
  <1>5. ASSUME NEW i \in 1..Len(sbchLog)
        PROVE  /\ swap'[sbchLog[i].swap] # "Invalid"
               /\ sbchLog[i].event = "Unlock" =>
                    swap'[sbchLog[i].swap] = "Unlocked"
    <2>1. sbchLog[i].swap \in Swaps
      <3>1. sbchLog[i] \in Events
        BY DEF TypeOK, ChainsOK
      <3>. QED BY <3>1 DEF Events
    <2>. QED BY <2>1 DEF LogBacked
  <1>. QED BY <1>1, <1>2, <1>3, <1>4, <1>5

\* A mined transaction keeps the invariant.
LEMMA MineSafe ==
  ASSUME IInv, TypeOK', NEW tx \in sbchPool, MineSbchTx(tx)
  PROVE  IInv'
  <1>. DEFINE s == tx.swap
  <1>1. s \in Swaps /\ utxo[s] # "none"
    BY DEF IInv, PoolBacked, TypeOK, ChainsOK, SbchTxs
  <1>2. \A s2 \in Swaps : Kept(s2)
    BY <1>1 DEF MineSbchTx, MineLock, MineRefund, MineReverted, Accepts, Kept,
      IInv, TypeOK, ChainsOK
  <1>3. \/ sbchLog' = sbchLog
        \/ /\ sbchLog' = Append(sbchLog, [event |-> "Lock", swap |-> s])
           /\ swap'[s] = "Locked"
    BY <1>1 DEF MineSbchTx, MineLock, MineRefund, MineReverted, IInv, TypeOK,
      ChainsOK
  <1>4. Len(sbchLog') >= Len(sbchLog)
    BY <1>3 DEF IInv, TypeOK, ChainsOK
  <1>5. /\ RecordsBacked' /\ TodoBacked' /\ LogRead'
        /\ \A c \in calls : CallBacked(c)'
        /\ \A i \in 1..Len(sbchLog) :
             /\ swap'[sbchLog[i].swap] # "Invalid"
             /\ sbchLog[i].event = "Unlock" =>
                  swap'[sbchLog[i].swap] = "Unlocked"
    BY <1>2, <1>4, KeptFacts DEF MineSbchTx, IInv
  <1>6. LogBacked'
    <2>1. CASE sbchLog' = sbchLog
      BY <1>5, <2>1 DEF LogBacked
    <2>2. CASE /\ sbchLog' = Append(sbchLog, [event |-> "Lock", swap |-> s])
               /\ swap'[s] = "Locked"
      <3>1. ASSUME NEW i \in 1..Len(sbchLog')
            PROVE  \/ i \in 1..Len(sbchLog) /\ sbchLog'[i] = sbchLog[i]
                   \/ sbchLog'[i] = [event |-> "Lock", swap |-> s]
        BY <2>2 DEF IInv, TypeOK, ChainsOK
      <3>. QED BY <1>5, <2>2, <3>1 DEF LogBacked
    <2>. QED BY <1>3, <2>1, <2>2
  <1>7. SwapsBacked'
    BY <1>1 DEF MineSbchTx, MineLock, MineRefund, MineReverted, IInv,
      SwapsBacked, TypeOK, ChainsOK
  <1>8. PoolBacked' /\ UserNotCheated'
    BY <1>2 DEF MineSbchTx, IInv, PoolBacked, UserNotCheated, Kept
  <1>9. CallsBacked'
    <2>1. PICK res \in {"ok", "reverted"} :
            /\ calls' = Receipts(tx, res)
            /\ res = "ok" => \/ tx.kind = "lock" /\ swap'[s] # "Invalid"
                             \/ tx.kind = "refund" /\ swap'[s] = "Refunded"
      BY <1>1 DEF MineSbchTx, MineLock, MineRefund, MineReverted, IInv, TypeOK,
        ChainsOK
    <2>2. ASSUME NEW c \in calls, c.kind = tx.kind, c.swap = s, c.res = "pending"
          PROVE  CallBacked([c EXCEPT !.res = res])'
      <3>1. /\ [c EXCEPT !.res = res].kind = c.kind
            /\ [c EXCEPT !.res = res].swap = c.swap
            /\ [c EXCEPT !.res = res].res = res
        BY DEF IInv, TypeOK, LoopsOK, Calls
      <3>2. tx.kind \in {"lock", "refund"}
        BY DEF IInv, TypeOK, ChainsOK, SbchTxs
      <3>. QED BY <1>1, <1>2, <2>1, <2>2, <3>1, <3>2 DEF CallBacked, Kept
    <2>3. ASSUME NEW c \in calls'
          PROVE  \/ c \in calls
                 \/ \E d \in calls : /\ d.kind = tx.kind /\ d.swap = s
                                     /\ d.res = "pending"
                                     /\ c = [d EXCEPT !.res = res]
      <3>1. PICK d \in calls :
              c = IF d.bot = tx.bot /\ d.kind = tx.kind /\ d.swap = tx.swap
                    THEN [d EXCEPT !.res = IF @ = "pending" THEN res ELSE @]
                    ELSE d
        BY <2>1 DEF Receipts
      <3>2. d.res # "pending" => [d EXCEPT !.res = d.res] = d
        BY DEF IInv, TypeOK, LoopsOK, Calls
      <3>. QED BY <3>1, <3>2
    <2>. QED BY <1>5, <2>2, <2>3 DEF CallsBacked
  <1>. QED BY <1>5, <1>6, <1>7, <1>8, <1>9 DEF IInv

\* What a user does keeps the invariant.
LEMMA UserStepSafe ==
  ASSUME IInv, TypeOK', NEW s \in Swaps, UserStep(s)
  PROVE  IInv'
  <1>. USE DEF UserStep, UserLockBch, UserUnlockSbch, UserRefundBch
  <1>1. \A s2 \in Swaps : Kept(s2)
    BY DEF Kept, IInv, TypeOK, ChainsOK
  <1>2. \/ sbchLog' = sbchLog
        \/ /\ sbchLog' = Append(sbchLog, [event |-> "Unlock", swap |-> s])
           /\ swap'[s] = "Unlocked"
    BY DEF IInv, TypeOK, ChainsOK
  <1>3. Len(sbchLog') >= Len(sbchLog)
    BY <1>2 DEF IInv, TypeOK, ChainsOK
  <1>4. UNCHANGED <<records, heights, pc, todo, mark, calls, sbchPool>>
    BY DEF loop
  <1>5. /\ RecordsBacked' /\ TodoBacked' /\ LogRead'
        /\ \A c \in calls : CallBacked(c)'
        /\ \A i \in 1..Len(sbchLog) :
             /\ swap'[sbchLog[i].swap] # "Invalid"
             /\ sbchLog[i].event = "Unlock" =>
                  swap'[sbchLog[i].swap] = "Unlocked"
    BY <1>1, <1>3, <1>4, KeptFacts DEF IInv
  <1>6. LogBacked'
    <2>1. CASE sbchLog' = sbchLog
      BY <1>5, <2>1 DEF LogBacked
    <2>2. CASE /\ sbchLog' = Append(sbchLog, [event |-> "Unlock", swap |-> s])
               /\ swap'[s] = "Unlocked"
      <3>1. ASSUME NEW i \in 1..Len(sbchLog')
            PROVE  \/ i \in 1..Len(sbchLog) /\ sbchLog'[i] = sbchLog[i]
                   \/ sbchLog'[i] = [event |-> "Unlock", swap |-> s]
        BY <2>2 DEF IInv, TypeOK, ChainsOK
      <3>. QED BY <1>5, <2>2, <3>1 DEF LogBacked
    <2>. QED BY <1>2, <2>1, <2>2
  <1>7. SwapsBacked' /\ UserNotCheated'
    BY DEF IInv, SwapsBacked, UserNotCheated, TypeOK, ChainsOK
  <1>8. PoolBacked'
    BY <1>1, <1>4 DEF IInv, PoolBacked, Kept, TypeOK, ChainsOK, SbchTxs
  <1>9. CallsBacked'
    BY <1>4, <1>5 DEF CallsBacked
  <1>. QED BY <1>5, <1>6, <1>7, <1>8, <1>9 DEF IInv

\* The invariant is inductive.
LEMMA IInvStep == IInv /\ [Next]_vars => IInv'
  <1>. SUFFICES ASSUME IInv, [Next]_vars PROVE IInv'
    OBVIOUS
  <1>1. TypeOK'
    BY TypeStep DEF IInv
  <1>2. ASSUME NEW b \in Bots, BotStep(b) \/ Crash(b) PROVE IInv'
    BY <1>1, <1>2, LoopStepSafe, RecordStepSafe, CallStepSafe DEF BotStep
  <1>3. CASE TickBch \/ TickSbch \/ UNCHANGED vars
    <2>1. Quiet /\ UNCHANGED <<status, lastSbch, todo, pc, mark>>
      BY <1>3 DEF TickBch, TickSbch, Tick, vars, chains, records, heights,
        loop, Quiet
    <2>2. TodoBacked' /\ LogRead' /\ RecordsBacked'
      BY <2>1, SameStatusBacked DEF Quiet, IInv, TodoBacked, LogRead
    <2>. QED BY <1>1, <2>1, <2>2, QuietStep DEF IInv
  <1>. QED
    BY <1>1, <1>2, <1>3, MineSafe, UserStepSafe DEF Next, Mine

-----------------------------------------------------------------------------
(* The theorems.                                                           *)

\* The inductive invariant: records, pending transactions, calls in progress,
\* work lists and logs all agree with the chains at every moment.
THEOREM Invariance == Spec => []IInv
  BY InitIInv, IInvStep, PTL DEF Spec

\* Every variable keeps its type, whatever fails and in whatever order the
\* bots, the chains and the users act; no bot reads past the end of the log.
THEOREM TypeCorrect == Spec => []TypeOK
  <1>1. IInv => TypeOK
    BY DEF IInv
  <1>. QED BY Invariance, <1>1, PTL

\* A record never says of the chains what is not so, however many bots race
\* for the same swap and wherever they crash.
THEOREM RecordsAlwaysBacked == Spec => []RecordsBacked
  <1>1. IInv => RecordsBacked
    BY DEF IInv
  <1>. QED BY Invariance, <1>1, PTL

\* No bot spends a user's BCH unless the user has taken the sBCH.
THEOREM UserNeverCheated == Spec => []UserNotCheated
  <1>1. IInv => UserNotCheated
    BY DEF IInv
  <1>. QED BY Invariance, <1>1, PTL

-----------------------------------------------------------------------------
(* Bch2Sbch implements AtomicSwap.                                         *)

\* Neither leg is locked at first.
LEMMA LegsAtFirst == Init => Swap!Init
  BY DEF Init, UserLeg, BotLeg, Swap!Init

\* A step that changes neither coin is a stutter of the abstract swap.
LEMMA LegsStutter ==
  ASSUME UNCHANGED <<utxo, swap>>
  PROVE  UNCHANGED Swap!legs
  BY DEF Swap!legs, UserLeg, BotLeg

\* How a change of one output, or of one swap of the contract, is seen.
LEMMA UserLegMoves ==
  ASSUME TypeOK, NEW s \in Swaps, NEW x, utxo' = [utxo EXCEPT ![s] = x]
  PROVE  UserLeg' = [UserLeg EXCEPT ![s] =
                       IF x = "unlocked" THEN "claimed" ELSE x]
  BY DEF UserLeg, TypeOK, ChainsOK

\* How a change of one swap of the contract is seen.
LEMMA BotLegMoves ==
  ASSUME TypeOK, NEW s \in Swaps,
         NEW x \in {"Locked", "Unlocked", "Refunded"},
         swap' = [swap EXCEPT ![s] = x]
  PROVE  BotLeg' = [BotLeg EXCEPT ![s] = IF x = "Locked" THEN "locked"
                                         ELSE IF x = "Unlocked" THEN "claimed"
                                         ELSE "refunded"]
  BY DEF BotLeg, TypeOK, ChainsOK

\* A bot's step spends an unlocked output (BotClaims) or is a stutter.
LEMMA BotStepsImplement ==
  ASSUME IInv, NEW b \in Bots, BotStep(b) \/ Crash(b)
  PROVE  [Swap!Next]_Swap!legs
  <1>. USE DEF chains
  <1>1. CASE \E s \in Swaps : UnlockBch(b, s)
    <2>1. PICK s \in Swaps : UnlockBch(b, s)
      BY <1>1
    <2>2. swap[s] = "Unlocked"
      BY <2>1 DEF UnlockBch, Handling, IInv, TodoBacked
    <2>3. CASE utxo[s] = "locked"
      <3>1. utxo' = [utxo EXCEPT ![s] = "unlocked"] /\ UNCHANGED swap
        BY <2>1, <2>3 DEF UnlockBch
      <3>2. UserLeg' = [UserLeg EXCEPT ![s] = "claimed"]
        BY <3>1, UserLegMoves DEF IInv
      <3>3. /\ UNCHANGED BotLeg
            /\ UserLeg[s] = "locked" /\ BotLeg[s] = "claimed"
        BY <2>2, <2>3, <3>1 DEF UserLeg, BotLeg
      <3>. QED
        BY <3>2, <3>3 DEF Swap!Next, Swap!BotClaims, Swap!MoveUserLeg
    <2>4. CASE utxo[s] # "locked"
      <3>1. UNCHANGED <<utxo, swap>>
        BY <2>1, <2>4 DEF UnlockBch, IInv, TypeOK, ChainsOK
      <3>. QED BY <3>1, LegsStutter
    <2>. QED BY <2>3, <2>4
  <1>2. CASE ~ \E s \in Swaps : UnlockBch(b, s)
    <2>1. UNCHANGED <<utxo, swap>>
      BY <1>2 DEF BotStep, Crash, Start, UpdatePrices, EndStage,
        HandleBchBlock, SaveBchHeight, BchBlockFails, HandleSbchLockEventB2S,
        HandleSbchUnlockEvent, SaveSbchHeight, NextLogHandled, SkipRefund,
        RefundSbch, RefundSbchFails, PriceChanged, TooLateToLockSbch,
        LockSbch, LockSbchFails, WaitForOther, RpcFails, SendTx, SaveResult,
        CallFails
    <2>. QED BY <2>1, LegsStutter
  <1>. QED BY <1>1, <1>2

\* A mined transaction is BotLocks, BotRefunds or a stutter.
LEMMA MineImplements ==
  ASSUME IInv, NEW tx \in sbchPool, MineSbchTx(tx)
  PROVE  [Swap!Next]_Swap!legs
  <1>1. tx.swap \in Swaps /\ utxo[tx.swap] # "none"
    BY DEF IInv, PoolBacked, TypeOK, ChainsOK, SbchTxs
  <1>2. UNCHANGED utxo /\ UNCHANGED UserLeg
    BY DEF MineSbchTx, UserLeg
  <1>3. CASE MineLock(tx)
    <2>1. BotLeg' = [BotLeg EXCEPT ![tx.swap] = "locked"]
      BY <1>1, <1>3, BotLegMoves DEF MineLock, IInv
    <2>2. BotLeg[tx.swap] = "none" /\ UserLeg[tx.swap] # "none"
      BY <1>1, <1>3 DEF MineLock, Accepts, BotLeg, UserLeg
    <2>. QED
      BY <1>1, <1>2, <2>1, <2>2
      DEF Swap!Next, Swap!BotLocks, Swap!MoveBotLeg
  <1>4. CASE MineRefund(tx)
    <2>1. BotLeg' = [BotLeg EXCEPT ![tx.swap] = "refunded"]
      BY <1>1, <1>4, BotLegMoves DEF MineRefund, IInv
    <2>2. BotLeg[tx.swap] = "locked"
      BY <1>1, <1>4 DEF MineRefund, Accepts, BotLeg
    <2>. QED
      BY <1>1, <1>2, <2>1, <2>2
      DEF Swap!Next, Swap!BotRefunds, Swap!MoveBotLeg
  <1>5. CASE MineReverted(tx)
    BY <1>2, <1>5, LegsStutter DEF MineReverted
  <1>. QED BY <1>3, <1>4, <1>5 DEF MineSbchTx

\* A user's step is UserLocks, UserClaims or UserRefunds.
LEMMA UserStepsImplement ==
  ASSUME IInv, NEW s \in Swaps, UserStep(s)
  PROVE  [Swap!Next]_Swap!legs
  <1>1. CASE \E p \in Prices : UserLockBch(s, p)
    <2>1. UserLeg' = [UserLeg EXCEPT ![s] = "locked"]
      BY <1>1, UserLegMoves DEF UserLockBch, IInv
    <2>2. UserLeg[s] = "none" /\ UNCHANGED BotLeg
      BY <1>1 DEF UserLockBch, UserLeg, BotLeg
    <2>. QED BY <2>1, <2>2 DEF Swap!Next, Swap!UserLocks, Swap!MoveUserLeg
  <1>2. CASE UserUnlockSbch(s)
    <2>1. BotLeg' = [BotLeg EXCEPT ![s] = "claimed"]
      BY <1>2, BotLegMoves DEF UserUnlockSbch, IInv
    <2>2. BotLeg[s] = "locked" /\ UNCHANGED UserLeg
      BY <1>2 DEF UserUnlockSbch, UserLeg, BotLeg
    <2>. QED BY <2>1, <2>2 DEF Swap!Next, Swap!UserClaims, Swap!MoveBotLeg
  <1>3. CASE UserRefundBch(s)
    <2>1. UserLeg' = [UserLeg EXCEPT ![s] = "refunded"]
      BY <1>3, UserLegMoves DEF UserRefundBch, IInv
    <2>2. UserLeg[s] = "locked" /\ UNCHANGED BotLeg
      BY <1>3 DEF UserRefundBch, UserLeg, BotLeg
    <2>. QED BY <2>1, <2>2 DEF Swap!Next, Swap!UserRefunds, Swap!MoveUserLeg
  <1>. QED BY <1>1, <1>2, <1>3 DEF UserStep

\* Seen from the two chains, the bots, the users and their faults never do
\* more than an atomic swap: every step is one of AtomicSwap's or a stutter.
THEOREM ImplementsAtomicSwap == Spec => IsAtomicSwap
  <1>1. IInv /\ [Next]_vars => [Swap!Next]_Swap!legs
    <2>. SUFFICES ASSUME IInv, [Next]_vars PROVE [Swap!Next]_Swap!legs
      OBVIOUS
    <2>1. CASE TickBch \/ TickSbch \/ UNCHANGED vars
      BY <2>1, LegsStutter DEF TickBch, TickSbch, Tick, vars, chains
    <2>. QED
      BY <2>1, BotStepsImplement, MineImplements, UserStepsImplement
      DEF Next, Mine
  <1>. QED
    BY LegsAtFirst, Invariance, <1>1, PTL DEF Spec, IsAtomicSwap, Swap!Spec

=============================================================================
