---------------------------- MODULE MarketMaker ----------------------------
(***************************************************************************)
(* One market maker (a master) with several swaps in both directions.      *)
(* Bch2Sbch and Sbch2Bch look at the steps of one swap; here it is what    *)
(* the swaps share: the loop, the two tables and the order in which a      *)
(* query with a limit returns their records, the account on sBCH and the   *)
(* wallet on BCH.  /info reads the tables while the loop changes them.     *)
(*                                                                         *)
(* Statuses have one name for both tables: "Locked" is SbchLocked in       *)
(* bch2sbch and BchLocked in sbch2bch, "Unlocked" BchUnlocked and          *)
(* SbchUnlocked, "Refunded" SbchRefunded and BchRefunded.  Amounts are     *)
(* small numbers, BCH and sBCH are of one price.  A transaction and the    *)
(* save that follows it are two steps: in between the process may stop,    *)
(* the node's answer may get lost or the save may fail.                    *)
(***************************************************************************)
EXTENDS Integers, FiniteSets, SequencesExt

CONSTANTS
  B2S, S2B,         \* the swaps of either direction
  QueryLimit,       \* dbQueryLimit
  Value,            \* what each swap is worth
  FirstWallet,      \* what the wallet holds at first
  MaxInputs,        \* maxCount in GetUTXOs, 10 in the code
  Reserve,          \* added to the value for the fee, 5000 in the code
  Dust,             \* dustAmt, and the least penalty
  PenaltyBPS,       \* the penalty for a refund, in 1/10000 of the value
  MaxFaults         \* bound: crashes, failed requests and saves, lost answers

Swaps == B2S \cup S2B

ASSUME SwapsAssumption ==
  /\ IsFiniteSet(B2S) /\ IsFiniteSet(S2B) /\ B2S \cap S2B = {}
  /\ \A s \in Swaps : Value[s] \in Nat /\ Value[s] > 1
  /\ DOMAIN Value = Swaps

ASSUME WalletAssumption ==
  /\ FirstWallet \in Seq(Nat \ {0})
  /\ \A i, j \in DOMAIN FirstWallet : i < j => FirstWallet[i] >= FirstWallet[j]
  /\ MaxInputs \in Nat \ {0} /\ Reserve \in Nat /\ Dust \in Nat \ {0}
  /\ PenaltyBPS \in Nat

ASSUME BoundsAssumption ==
  QueryLimit \in Nat \ {0} /\ MaxFaults \in Nat

Tables == {"bch2sbch", "sbch2bch"}
TableOf(s) == IF s \in B2S THEN "bch2sbch" ELSE "sbch2bch"

VARIABLES
  userLeg, botLeg,        \* each swap on the chains; if the bot has locked BCH
                          \* for it more than once, the last lock
  orphans,                \* how many locks before that one there are: no record
                          \* has their transaction, so nobody returns them
  expired,                \* the swaps whose time is up
  pending,                \* the bot's pending sBCH transactions
  wallet,                 \* the outputs of the bot on BCH, largest first
  unseen,                 \* for each chain, the swaps whose event on it is
                          \* still to be scanned; each has one on either
  status, table,          \* records, and either table by updated_at
  pc, todo, call,         \* the call of the loop, its list, and how far it is
                          \* with a transaction for the first record of that
  asked, due,             \* /info: queries made, and a record they did not
                          \* return though active since the first of them
  faults                  \* faults so far

chains == <<userLeg, botLeg, orphans, expired, pending, wallet, unseen>>
records == <<status, table>>
loop == <<pc, todo, call>>
info == <<asked, due>>
vars == <<chains, records, loop, info, faults>>

Statuses == {"none", "New", "Locked", "Revealed", "Unlocked", "Refunded",
             "TooLate"}
Active == {"New", "Locked", "Revealed"}

\* the calls of the loop body, with the table and the status they query and
\* the status they save when their transaction is sent
Stages ==
  LET Call(name, of, from, to) ==
        [name |-> name, of |-> of, status |-> from, done |-> to]
  IN  <<Call("refundLockedSbch", "bch2sbch", "Locked", "Refunded"),
        Call("scanBchBlocks", "BCH", "none", "none"),
        Call("refundLockedBCH", "sbch2bch", "Locked", "Refunded"),
        Call("handleBchUserDeposits", "bch2sbch", "New", "Locked"),
        Call("unlockBchUserDeposits", "bch2sbch", "Revealed", "Unlocked"),
        Call("scanSbchEvents", "sBCH", "none", "none"),
        Call("handleSbchUserDeposits", "sbch2bch", "New", "Locked"),
        Call("unlockSbchUserDeposits", "sbch2bch", "Revealed", "Unlocked")>>

\* Mutant: the order in which the statuses are reported.
LastFirst == <<"Revealed", "Locked", "New">>

\* the queries of getBotInfo for either table, one after the other
Queries == <<"New", "Locked", "Revealed">>

TypeOK ==
  /\ userLeg \in [Swaps -> {"none", "locked", "taken", "refunded"}]
  /\ botLeg \in [Swaps -> {"none", "locked", "claimed", "refunded"}]
  /\ orphans \in [Swaps -> Nat]
  /\ expired \subseteq Swaps
  /\ pending \subseteq {"lock", "refund", "unlock"} \X Swaps
  /\ Cardinality(pending) <= 1
  /\ wallet \in Seq(Nat \ {0})
  /\ \A i, j \in DOMAIN wallet : i < j => wallet[i] >= wallet[j]
  /\ unseen \in [{"BCH", "sBCH"} -> SUBSET Swaps]
  /\ status \in [Swaps -> Statuses]
  /\ \A t \in Tables :
       /\ IsInjective(table[t])
       /\ ToSet(table[t]) = {s \in Swaps : TableOf(s) = t /\ status[s] # "none"}
  /\ pc \in DOMAIN Stages
  /\ ToSet(todo) \subseteq Swaps /\ IsInjective(todo)
  /\ call \in {"none", "waiting", "ok", "reverted"}
  /\ asked \in 0..Len(Queries) /\ due \subseteq Swaps
  /\ Cardinality(due) <= 1 /\ (due = {} <=> asked = 0)
  /\ faults \in 0..MaxFaults

Init ==
  /\ userLeg = [s \in Swaps |-> "none"] /\ botLeg = [s \in Swaps |-> "none"]
  /\ orphans = [s \in Swaps |-> 0]
  /\ expired = {} /\ pending = {}
  /\ wallet = FirstWallet
  /\ unseen = [c \in {"BCH", "sBCH"} |-> {}]
  /\ status = [s \in Swaps |-> "none"] /\ table = [t \in Tables |-> <<>>]
  /\ pc = 1 /\ todo = <<>> /\ call = "none"
  /\ asked = 0 /\ due = {}
  /\ faults = 0

-----------------------------------------------------------------------------
(* The tables.                                                             *)

\* the elements of seq at the places in I, in their order
At(seq, I) ==
  [n \in 1..Cardinality(I) |->
     seq[CHOOSE i \in I : Cardinality(I \cap 1..i) = n]]

First(n, seq) == IF Len(seq) <= n THEN seq ELSE SubSeq(seq, 1, n)

\* Mutant: the limit comes before the condition.
QueryFirstOfAll(t, st, limit) ==
  LET head == First(limit, table[t])
  IN  At(head, {i \in DOMAIN head : status[head[i]] = st})

\* the records with a status, least recently saved first, up to the limit
Query(t, st, limit) ==
  First(limit, At(table[t], {i \in DOMAIN table[t] : status[table[t][i]] = st}))

\* Mutant: a record that is saved again gets another row.
SaveAsNewRow(s, st) ==
  /\ status' = [status EXCEPT ![s] = st]
  /\ table' = [table EXCEPT ![TableOf(s)] = Append(@, s)]
  /\ due' = IF st \in Active THEN due ELSE due \ {s}
  /\ asked' = IF due' = {} THEN 0 ELSE asked

\* a save sets updated_at and thereby moves the record to the end
Save(s, st) ==
  /\ status' = [status EXCEPT ![s] = st]
  /\ table' = [table EXCEPT ![TableOf(s)] =
                 Append(At(@, {i \in DOMAIN @ : @[i] # s}), s)]
  /\ due' = IF st \in Active THEN due ELSE due \ {s}
  /\ asked' = IF due' = {} THEN 0 ELSE asked

NoSave == UNCHANGED <<records, info>>

-----------------------------------------------------------------------------
(* The wallet.                                                             *)

\* the fee of a lock transaction grows with its inputs; others have one
Fee(inputs) == 1 + inputs
SpendFee == 1

Amount(I) == SumFunctionOnSet(wallet, I)

\* Mutant: the smallest outputs first.
SmallestFirst(minVal) ==
  {I \in {n..Len(wallet) : n \in DOMAIN wallet} :
     Amount(I) >= minVal /\ Amount(I \ {Len(wallet) - Cardinality(I) + 1}) < minVal}

\* the largest outputs that are enough together
Greedy(minVal) ==
  {I \in {1..n : n \in DOMAIN wallet} :
     Amount(I) >= minVal /\ Amount(I \ {Cardinality(I)}) < minVal}

\* what findUTXOs may return: an output that is enough by itself (the first
\* one in the node's order), else the largest ones, unless they are too many
findUTXOs(minVal) ==
  LET one == {{i} : i \in {j \in DOMAIN wallet : wallet[j] >= minVal}}
  IN  IF one # {} THEN one
      ELSE {I \in Greedy(minVal) : Cardinality(I) <= MaxInputs}

\* what handleSbchUserDeposits would spend for s
Inputs(s) == findUTXOs(Value[s] + Reserve)

Change(s, I) == Amount(I) - Value[s] - Fee(Cardinality(I))

\* what makeRefundTx pays to the bot when the user takes BCH back
Penalty(s) ==
  LET part == (Value[s] * PenaltyBPS) \div 10000
  IN  IF PenaltyBPS = 0 THEN 0 ELSE IF part < Dust THEN Dust ELSE part

\* a sequence of outputs with one more, the wallet without those of I
Received(seq, amount) ==
  InsertAt(seq, 1 + Cardinality({i \in DOMAIN seq : seq[i] >= amount}), amount)
Spent(I) == At(wallet, DOMAIN wallet \ I)

\* Mutant: no change.
KeepNoChange(s, I) == Spent(I)

\* the wallet after MakeLockTx: change that is dust goes to the miner
WalletAfter(s, I) ==
  IF Change(s, I) > Dust THEN Received(Spent(I), Change(s, I)) ELSE Spent(I)

-----------------------------------------------------------------------------
(* The users and the chains.                                               *)

CoinsOn(s) == IF s \in B2S THEN "BCH" ELSE "sBCH"
Other(c) == IF c = "BCH" THEN "sBCH" ELSE "BCH"

Appears(s, c) == unseen' = [unseen EXCEPT ![c] = @ \cup {s}]

UserLocks(s) ==
  /\ userLeg[s] = "none"
  /\ userLeg' = [userLeg EXCEPT ![s] = "locked"]
  /\ Appears(s, CoinsOn(s))
  /\ UNCHANGED <<botLeg, orphans, expired, pending, wallet, records, loop, info,
                 faults>>

\* The user takes the bot's coins and reveals the secret.  (The user may take
\* orphans with it, too, but the bot does not notice.)
UserClaims(s) ==
  /\ botLeg[s] = "locked"
  /\ botLeg' = [botLeg EXCEPT ![s] = "claimed"]
  /\ Appears(s, Other(CoinsOn(s)))
  /\ UNCHANGED <<userLeg, orphans, expired, pending, wallet, records, loop, info,
                 faults>>

\* a refund of BCH may cost the user a penalty
UserRefunds(s) ==
  /\ userLeg[s] = "locked" /\ s \in expired
  /\ userLeg' = [userLeg EXCEPT ![s] = "refunded"]
  /\ wallet' = IF s \in B2S /\ PenaltyBPS # 0 THEN Received(wallet, Penalty(s))
               ELSE wallet
  /\ UNCHANGED <<botLeg, orphans, expired, pending, unseen, records, loop, info,
                 faults>>

\* all of the time locks of s; what is in between is in the other modules
TimePasses(s) ==
  /\ userLeg[s] # "none" /\ s \notin expired
  /\ expired' = {x \in Swaps : userLeg[x] # "none"}
  /\ UNCHANGED <<userLeg, botLeg, orphans, pending, wallet, unseen, records, loop,
                 info, faults>>

\* what the HTLC contract accepts
Accepts(kind, s) ==
  \/ kind = "lock" /\ botLeg[s] = "none"
  \/ kind = "refund" /\ botLeg[s] = "locked" /\ s \in expired
  \/ kind = "unlock" /\ userLeg[s] = "locked"

Mine ==
  \E tx \in pending :
    LET kind == tx[1]  s == tx[2] IN
    /\ pending' = pending \ {tx}
    /\ IF Accepts(kind, s)
         THEN /\ botLeg' = [botLeg EXCEPT ![s] = IF kind = "lock" THEN "locked"
                              ELSE IF kind = "refund" THEN "refunded" ELSE @]
              /\ userLeg' = [userLeg EXCEPT ![s] =
                               IF kind = "unlock" THEN "taken" ELSE @]
         ELSE UNCHANGED <<botLeg, userLeg>>
    /\ call' = IF call # "waiting" THEN call
               ELSE IF Accepts(kind, s) THEN "ok" ELSE "reverted"
    /\ UNCHANGED <<orphans, expired, wallet, unseen, records, pc, todo, info,
                   faults>>

-----------------------------------------------------------------------------
(* The loop.                                                               *)

\* Bound: no fault while /info is at work, and no request after one.
Fault == faults < MaxFaults /\ faults' = faults + 1 /\ asked = 0

\* a scan handles what has appeared by now, any other call what it queries
List(n) ==
  IF Stages[n].of \in DOMAIN unseen THEN SetToSeq(unseen[Stages[n].of])
  ELSE Query(Stages[n].of, Stages[n].status, QueryLimit)

\* the calls between the one at hand and the n-th, round and round
Between(n) == (n - pc - 1) % Len(Stages)

\* On to the next call that finds something to do.  The calls in between found
\* nothing; refundLockedBCH is made only after new blocks.
EndStage ==
  /\ todo = <<>>
  /\ UNCHANGED <<chains, records, call, info, faults>>
  /\ \E n \in DOMAIN Stages :
       /\ List(n) # <<>>
       /\ \A m \in DOMAIN Stages :
            Between(m) < Between(n) =>
              Stages[m].name = "refundLockedBCH" \/ List(m) = <<>>
       /\ pc' = n /\ todo' = List(n)

\* a pass in which no call finds anything
IdlePass ==
  /\ todo = <<>> /\ UNCHANGED vars
  /\ \A n \in DOMAIN Stages : List(n) = <<>>

Handling(stage, s) ==
  /\ Stages[pc].name = stage /\ todo # <<>> /\ s = Head(todo) /\ call = "none"

Done == todo' = Tail(todo) /\ call' = "none" /\ UNCHANGED pc

\* The status an event leads to: a deposit makes a record, a secret is kept if
\* the lock is in the record (on BCH even if it was believed to be refunded).
StatusAfter(s, c) ==
  IF c = CoinsOn(s) THEN "New"
  ELSE IF status[s] = "Locked" \/ (status[s] = "Refunded" /\ s \in S2B)
    THEN "Revealed"
  ELSE status[s]

HandleEvent(s) ==
  /\ Stages[pc].of \in DOMAIN unseen /\ todo # <<>> /\ s = Head(todo)
  /\ LET c == Stages[pc].of  st == StatusAfter(s, c) IN
     /\ unseen' = [unseen EXCEPT ![c] = @ \ {s}]
     /\ IF st = status[s] THEN NoSave ELSE Save(s, st)
  /\ Done
  /\ UNCHANGED <<userLeg, botLeg, orphans, expired, pending, wallet, faults>>

\* refundLockedSbch and refundLockedBCH: not yet
SkipRefund(s) ==
  /\ Handling("refundLockedSbch", s) \/ Handling("refundLockedBCH", s)
  /\ s \notin expired
  /\ Done /\ NoSave
  /\ UNCHANGED <<chains, faults>>

\* a BCH transaction is sent, or its output is spent already
Sent == call' = "ok" /\ UNCHANGED <<expired, pending, records, pc, todo, info, faults>>

RefundBch(s) ==
  /\ Handling("refundLockedBCH", s) /\ s \in expired
  /\ IF botLeg[s] = "locked"
       THEN /\ botLeg' = [botLeg EXCEPT ![s] = "refunded"]
            /\ wallet' = Received(wallet, Value[s] - SpendFee)
       ELSE UNCHANGED <<botLeg, wallet>>
  /\ Sent
  /\ UNCHANGED <<userLeg, orphans, unseen>>

UnlockBch(s) ==
  /\ Handling("unlockBchUserDeposits", s)
  /\ IF userLeg[s] = "locked"
       THEN /\ userLeg' = [userLeg EXCEPT ![s] = "taken"]
            /\ wallet' = Received(wallet, Value[s] - SpendFee)
       ELSE UNCHANGED <<userLeg, wallet>>
  /\ Sent
  /\ UNCHANGED <<botLeg, orphans, unseen>>

\* handleBchUserDeposits and handleSbchUserDeposits; the latter looks for
\* outputs first, and does not look at the time when there are none
TooLateToLock(s) ==
  /\ \/ Handling("handleBchUserDeposits", s)
     \/ Handling("handleSbchUserDeposits", s) /\ Inputs(s) # {}
  /\ s \in expired
  /\ Save(s, "TooLate") /\ Done
  /\ UNCHANGED <<chains, faults>>

\* If a lock was sent before, its result was lost: it has no record from now on,
\* nor has the receipt for it if the user has taken it.
LockBch(s) ==
  /\ Handling("handleSbchUserDeposits", s) /\ s \notin expired
  /\ \E I \in Inputs(s) :
       /\ Change(s, I) >= 0
       /\ wallet' = WalletAfter(s, I)
  /\ botLeg' = [botLeg EXCEPT ![s] = "locked"]
  /\ orphans' = [orphans EXCEPT ![s] = IF botLeg[s] = "none" THEN @ ELSE @ + 1]
  /\ unseen' = [unseen EXCEPT !["BCH"] = @ \ {s}]
  /\ Sent
  /\ UNCHANGED userLeg

NoInputs(s) ==
  /\ Handling("handleSbchUserDeposits", s)
  /\ \/ Inputs(s) = {}
     \/ s \notin expired /\ \E I \in Inputs(s) : Change(s, I) < 0

\* the record stays as it is and where it is, the next one is handled
LockBchFails(s) ==
  /\ NoInputs(s)
  /\ Done /\ NoSave
  /\ UNCHANGED <<chains, faults>>

\* the call of the HTLC contract for the record at hand
SbchCall(s) ==
  IF Handling("refundLockedSbch", s) /\ s \in expired THEN {"refund"}
  ELSE IF Handling("handleBchUserDeposits", s) /\ s \notin expired THEN {"lock"}
  ELSE IF Handling("unlockSbchUserDeposits", s) THEN {"unlock"}
  ELSE {}

\* one account for both directions: NonceAt counts mined transactions only
CanSend(kind, s) == pending = {} /\ Accepts(kind, s)

SendSbchTx(s) ==
  /\ \E kind \in SbchCall(s) :
       CanSend(kind, s) /\ pending' = pending \cup {<<kind, s>>}
  /\ call' = "waiting"
  /\ UNCHANGED <<userLeg, botLeg, orphans, expired, wallet, unseen, records, pc,
                 todo, info, faults>>

\* the kind of the call that waits
Waiting == IF Stages[pc].name = "refundLockedSbch" THEN "refund"
           ELSE IF Stages[pc].name = "handleBchUserDeposits" THEN "lock"
           ELSE "unlock"

\* a call that failed: getSwapState may tell that it is done already
Settle(kind, s) ==
  IF kind = "refund" /\ botLeg[s] = "refunded" THEN Save(s, "Refunded")
  ELSE IF kind = "unlock" /\ userLeg[s] = "taken" THEN Save(s, "Unlocked")
  ELSE NoSave

SendFails(s) ==
  /\ \E kind \in SbchCall(s) : ~CanSend(kind, s) /\ Settle(kind, s)
  /\ Done
  /\ UNCHANGED <<chains, faults>>

\* Mutant: the new status is set in a copy of the record.
SaveOldStatus ==
  /\ call = "ok"
  /\ Save(Head(todo), Stages[pc].status) /\ Done
  /\ UNCHANGED <<chains, faults>>

\* the status after the transaction, for each of the six calls that send one
SaveResult ==
  /\ call = "ok"
  /\ Save(Head(todo), Stages[pc].done) /\ Done
  /\ UNCHANGED <<chains, faults>>

\* The answer of SendTx or getSwapState gets lost, or the save fails: the record
\* stays as it is, whatever the transaction has done.
LoseResult ==
  /\ call \in {"ok", "reverted"} /\ Fault
  /\ Done /\ NoSave
  /\ UNCHANGED chains

\* a request or a save that fails before there is a transaction
RpcFails(s) ==
  /\ \E n \in DOMAIN Stages : Handling(Stages[n].name, s)
  /\ Fault
  /\ Done /\ NoSave
  /\ UNCHANGED chains

\* it was reverted, or there is no receipt in time (it may be mined later)
CallFails ==
  /\ \/ call = "reverted" /\ UNCHANGED faults
     \/ call = "waiting" /\ Fault
  /\ Settle(Waiting, Head(todo)) /\ Done
  /\ UNCHANGED chains

\* the process ends while it handles a list, and starts again
Crash ==
  /\ Fault /\ todo # <<>>
  /\ pc' = Len(Stages) /\ todo' = <<>> /\ call' = "none"
  /\ UNCHANGED <<chains, records, info>>

-----------------------------------------------------------------------------
(* /info, beside the loop.                                                 *)

\* The next query of a request that has not returned the record yet, or the
\* first one of the record's table, whatever record is active at that moment.
InfoQuery ==
  /\ faults = 0 /\ asked < Len(Queries)
  /\ \E s \in IF asked > 0 THEN due ELSE {x \in Swaps : status[x] \in Active} :
       due' = {s} \ ToSet(Query(TableOf(s), Queries[asked + 1], 500))
  /\ asked' = IF due' = {} THEN 0 ELSE asked + 1
  /\ UNCHANGED <<chains, records, loop, faults>>

-----------------------------------------------------------------------------

LoopStep ==
  \/ EndStage \/ IdlePass \/ SaveResult \/ LoseResult \/ CallFails
  \/ \E s \in Swaps :
       \/ HandleEvent(s) \/ SkipRefund(s) \/ RefundBch(s) \/ UnlockBch(s)
       \/ TooLateToLock(s) \/ LockBch(s) \/ LockBchFails(s)
       \/ SendSbchTx(s) \/ SendFails(s) \/ RpcFails(s)

UserStep ==
  \E s \in Swaps : UserLocks(s) \/ UserClaims(s) \/ UserRefunds(s) \/ TimePasses(s)

Next == LoopStep \/ Mine \/ UserStep \/ Crash \/ InfoQuery

\* The loop never returns and transactions are mined; users and requests are
\* free, and nothing depends on time passing.
Spec == Init /\ [][Next]_vars /\ WF_vars(LoopStep) /\ WF_vars(Mine)

-----------------------------------------------------------------------------
(* Properties.                                                             *)

\* findUTXOs finds outputs exactly if there are some that are enough and not
\* too many, and what it finds is enough and not too many.
FindsOutputs ==
  LET few == {I \in SUBSET DOMAIN wallet : Cardinality(I) <= MaxInputs}
      amount == [I \in few |-> Amount(I)]
  IN  \A v \in 1..(SumFunction(wallet) + 1) :
        /\ \A I \in findUTXOs(v) : I \in few /\ amount[I] >= v
        /\ (\E I \in few : amount[I] >= v) => findUTXOs(v) # {}

\* What a swap has cost the wallet when each of its lock transactions took fee:
\* the locks, less what the bot took back, or what the user's BCH brought.
LocksOf(s) == orphans[s] + (IF botLeg[s] = "none" THEN 0 ELSE 1)

Cost(s, fee) ==
  IF s \in S2B
    THEN LocksOf(s) * (Value[s] + fee)
           - (IF botLeg[s] = "refunded" THEN Value[s] - SpendFee ELSE 0)
  ELSE IF userLeg[s] = "taken" THEN SpendFee - Value[s]
  ELSE IF userLeg[s] = "refunded" THEN 0 - Penalty(s)
  ELSE 0

TotalCost(fee) == SumFunction([s \in Swaps |-> Cost(s, fee)])

\* Through all locks, the second ones for one swap included, refunds, unlocked
\* deposits and penalties the wallet loses what these cost, up to the fees: no
\* change or payment is lost, none is counted twice.
WalletBalanced ==
  LET lost == SumFunction(FirstWallet) - SumFunction(wallet)
  IN  TotalCost(Fee(1)) <= lost /\ lost <= TotalCost(Fee(MaxInputs) + Dust)

\* Every lock beyond the first one for a swap has a fault of its own between a
\* SendTx and its save: nothing else makes the bot lock twice.
SecondLocksAreFaults == SumFunction(orphans) <= faults

\* A record that is active all the while /info queries the tables is in the
\* answer, however the loop moves it from one status to the next meanwhile.
NothingActiveMissed == asked = Len(Queries) => due = {}

\* Records that fail without a save, and so stay in front of each query.
Stuck(s) ==
  \/ status[s] = "New" /\ s \in B2S /\ botLeg[s] # "none"
  \/ status[s] = "New" /\ s \in S2B
       /\ (Inputs(s) = {} \/ \E I \in Inputs(s) : Change(s, I) < 0)
  \/ status[s] = "Revealed" /\ s \in S2B /\ userLeg[s] = "refunded"

\* enough of them to fill the query
Crowded(s) ==
  Cardinality({x \in Swaps : TableOf(x) = TableOf(s) /\ status[x] = status[s]
                               /\ Stuck(x)}) >= QueryLimit

\* a record the loop has to handle and can, if a query returns it
Waits(s) == status[s] \in {"New", "Revealed"} /\ ~Stuck(s) /\ ~Crowded(s)

\* A record waits for the loop only as long as the query is full of records
\* that cannot be handled: with fewer of those than dbQueryLimit, with the
\* other direction's calls in between and a lost receipt, its turn comes.
\* (Each swap has an end, so the loop has caught up with all of them at last.)
NoneStarves == []<>(\A s \in Swaps : ~Waits(s))

=============================================================================
