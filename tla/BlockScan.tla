----------------------------- MODULE BlockScan -----------------------------
(***************************************************************************)
(* The bot's scans of both chains and the heights it keeps in its          *)
(* database.  A scan reads the saved height and the node's height once,    *)
(* handles what lies between (BCH block by block and only blocks with      *)
(* bchConfirmations confirmations, sBCH in batches of 200 blocks) and      *)
(* saves the height after each block or batch.  A saved height of 0 means  *)
(* that nothing was scanned yet: the scan then begins with the newest      *)
(* block.  Heights are int64 and uint64 in turn and may wrap around.       *)
(*                                                                         *)
(* What the handlers do with a block is in Bch2Sbch and Sbch2Bch; here a   *)
(* block is handled or not.  BCH blocks may be replaced by others of a     *)
(* longer branch; a block is its height and its branch.                    *)
(***************************************************************************)
EXTENDS Integers, Sequences

CONSTANTS
  Confirmations,  \* bchConfirmations
  BatchSize,      \* blockBatch, 200 in the code
  WordRange,      \* 2^64: the values of a uint64, less for TLC
  MaxReorg,       \* the most blocks of BCH that are replaced at a time
  MaxHeight,      \* bound: the last height of either chain
  MaxBranches,    \* bound: how often blocks are replaced
  MaxFaults       \* bound: how many crashes and failed requests

\* A reorganisation replaces fewer blocks than the bot waits for.  (With 0
\* or 1 confirmations, as in the README's example, none is assumed.)
ASSUME ReorgAssumption ==
  /\ Confirmations \in Nat /\ MaxReorg \in Nat
  /\ MaxReorg = 0 \/ MaxReorg < Confirmations
ASSUME WordAssumption ==
  /\ WordRange \in Nat /\ MaxHeight \in Nat /\ BatchSize \in Nat \ {0}
  /\ 2 * (MaxHeight + Confirmations + BatchSize) < WordRange
ASSUME BoundsAssumption == MaxBranches \in Nat /\ MaxFaults \in Nat

VARIABLES
  bchChain,       \* the branch of each block of BCH; block 0 is of branch 0
  branch,         \* the branch that grows
  sbchTip,        \* height of sBCH
  table,          \* the table LastHeights: "none", "empty" or "ready"
  lastBch, lastSbch,
  pc,             \* where the bot is
  from, upTo,     \* locals of a scan: the next height, the last one
  handledBch,     \* history: the blocks handled, as <<height, branch>>
  handledSbch,    \* history: the heights of sBCH whose events were handled
  faults          \* faults so far

chains == <<bchChain, branch, sbchTip>>
heights == <<table, lastBch, lastSbch>>
locals == <<from, upTo>>
handled == <<handledBch, handledSbch>>
scanVars == <<chains, heights, pc, locals, handled, faults>>

PCs == {"down", "prepareDB", "startBch", "scanBch", "saveBch",
        "startSbch", "scanSbch", "saveSbch"}

Heights == 0..MaxHeight

TypeOK ==
  /\ bchChain \in Seq(0..MaxBranches) /\ Len(bchChain) \in Heights
  /\ branch \in 0..MaxBranches /\ sbchTip \in Heights
  /\ table \in {"none", "empty", "ready"}
  /\ lastBch \in Heights /\ lastSbch \in Heights
  /\ pc \in PCs
  /\ from \in Int /\ upTo \in Int
  /\ handledBch \subseteq Heights \X (0..MaxBranches)
  /\ handledSbch \subseteq Heights
  /\ faults \in 0..MaxFaults

Init ==
  /\ \E n \in Heights : bchChain = [h \in 1..n |-> 0]
  /\ branch = 0 /\ sbchTip \in Heights
  /\ table = "none" /\ lastBch = 0 /\ lastSbch = 0
  /\ pc = "down" /\ from = 0 /\ upTo = 0
  /\ handledBch = {} /\ handledSbch = {}
  /\ faults = 0

-----------------------------------------------------------------------------
(* Integers of 64 bits.  No operation here wraps around more than once.    *)

ToUint64(n) == IF n < 0 THEN n + WordRange
               ELSE IF n >= WordRange THEN n - WordRange ELSE n

ToInt64(n) == IF 2 * n >= WordRange THEN n - WordRange ELSE n

\* Mutant: a block with one confirmation too few is safe.
SafeHeightTooHigh == Len(bchChain) - Confirmations + 2

\* safeNewBlockNum, an int64: negative on a chain that is too short
SafeHeight ==
  IF Confirmations > 0 THEN Len(bchChain) - Confirmations + 1
                       ELSE Len(bchChain)

\* lastBlockNum of scanBchBlocks and of scanSbchEvents, both uint64
FirstBch == IF lastBch = 0 THEN ToUint64(ToUint64(SafeHeight) - 1) ELSE lastBch
FirstSbch == IF lastSbch = 0 THEN ToUint64(sbchTip - 1) ELSE lastSbch

\* Mutant: a last batch that is not full is taken for a full one.
BatchEndFull == ToUint64(from + BatchSize - 1)

\* toH, the end of the batch that begins at from
BatchEnd ==
  LET toH == ToUint64(from + BatchSize - 1)
  IN  IF toH > upTo THEN upTo ELSE toH

\* the branch of the block GetBlock(h) returns
BlockAt(h) == IF h = 0 THEN 0 ELSE bchChain[h]

\* the locals of a scan are gone when it returns
Return == from' = 0 /\ upTo' = 0

Fault == faults < MaxFaults /\ faults' = faults + 1

-----------------------------------------------------------------------------
(* Start.  PrepareDB makes the tables and then the row with the heights.   *)

Start ==
  /\ pc = "down"
  /\ \/ /\ table = "none"
        /\ table' = "empty" /\ pc' = "prepareDB"
     \/ /\ table # "none"
        /\ pc' = "startBch" /\ UNCHANGED table
  /\ UNCHANGED <<chains, lastBch, lastSbch, locals, handled, faults>>

InitLastHeights ==
  /\ pc = "prepareDB"
  /\ table' = "ready" /\ lastBch' = 0 /\ lastSbch' = 0
  /\ pc' = "startBch"
  /\ UNCHANGED <<chains, locals, handled, faults>>

\* getLastBchHeight finds the table without a row: log.Fatal
NoHeights ==
  /\ pc = "startBch" /\ table = "empty"
  /\ pc' = "down"
  /\ UNCHANGED <<chains, heights, locals, handled, faults>>

-----------------------------------------------------------------------------
(* scanBchBlocks and handleBchBlock.                                       *)

StartBch ==
  /\ pc = "startBch" /\ table = "ready"
  /\ from' = ToInt64(FirstBch) + 1 /\ upTo' = SafeHeight
  /\ pc' = "scanBch"
  /\ UNCHANGED <<chains, heights, handled, faults>>

HandleBchBlock ==
  /\ pc = "scanBch" /\ from <= upTo /\ from >= 0
  /\ handledBch' = handledBch \cup {<<from, BlockAt(from)>>}
  /\ pc' = "saveBch"
  /\ UNCHANGED <<chains, heights, locals, handledSbch, faults>>

SaveBch ==
  /\ pc = "saveBch"
  /\ lastBch' = from /\ from' = from + 1
  /\ pc' = "scanBch"
  /\ UNCHANGED <<chains, table, lastSbch, upTo, handled, faults>>

\* Mutant: BCH is scanned again before the rest of the loop.
EndBchAgain ==
  /\ pc = "scanBch" /\ from > upTo
  /\ pc' = "startBch"
  /\ Return
  /\ UNCHANGED <<chains, heights, handled, faults>>

EndBch ==
  /\ pc = "scanBch" /\ from > upTo
  /\ pc' = "startSbch"
  /\ Return
  /\ UNCHANGED <<chains, heights, handled, faults>>

\* Mutant: the height of a block the node does not return is saved as well.
BchScanFailsOn ==
  /\ pc = "scanBch" /\ from <= upTo /\ Fault
  /\ pc' = "saveBch"
  /\ UNCHANGED <<chains, heights, locals, handled>>

\* no height from the node, no block, or no block of a negative height
BchScanFails ==
  /\ \/ pc = "startBch" /\ table = "ready" /\ Fault
     \/ pc = "scanBch" /\ from <= upTo /\ Fault
     \/ pc = "scanBch" /\ from <= upTo /\ from < 0 /\ UNCHANGED faults
  /\ pc' = "startSbch"
  /\ Return
  /\ UNCHANGED <<chains, heights, handled>>

-----------------------------------------------------------------------------
(* scanSbchEvents and handleSbchEvents.                                    *)

StartSbch ==
  /\ pc = "startSbch"
  /\ from' = ToUint64(FirstSbch + 1) /\ upTo' = sbchTip
  /\ pc' = "scanSbch"
  /\ UNCHANGED <<chains, heights, handled, faults>>

HandleSbchEvents ==
  /\ pc = "scanSbch" /\ from <= upTo
  /\ handledSbch' = handledSbch \cup from..BatchEnd
  /\ pc' = "saveSbch"
  /\ UNCHANGED <<chains, heights, locals, handledBch, faults>>

SaveSbch ==
  /\ pc = "saveSbch"
  /\ lastSbch' = BatchEnd /\ from' = ToUint64(from + BatchSize)
  /\ pc' = "scanSbch"
  /\ UNCHANGED <<chains, table, lastBch, upTo, handled, faults>>

EndSbch ==
  /\ pc = "scanSbch" /\ from > upTo
  /\ pc' = "startBch"
  /\ Return
  /\ UNCHANGED <<chains, heights, handled, faults>>

SbchScanFails ==
  /\ pc = "startSbch" \/ (pc = "scanSbch" /\ from <= upTo)
  /\ Fault
  /\ pc' = "startBch"
  /\ Return
  /\ UNCHANGED <<chains, heights, handled>>

\* The process stops anywhere; log.Fatal where a height cannot be read or
\* saved is one such case.
Crash ==
  /\ pc # "down" /\ Fault
  /\ pc' = "down"
  /\ Return
  /\ UNCHANGED <<chains, heights, handled>>

-----------------------------------------------------------------------------
(* The chains.                                                             *)

MineBch ==
  /\ Len(bchChain) < MaxHeight
  /\ bchChain' = Append(bchChain, branch)
  /\ UNCHANGED <<branch, sbchTip, heights, pc, locals, handled, faults>>

\* the last d blocks are replaced by d + 1 others
Reorganise(d) ==
  /\ d <= Len(bchChain) /\ Len(bchChain) < MaxHeight /\ branch < MaxBranches
  /\ branch' = branch + 1
  /\ bchChain' = [h \in 1..(Len(bchChain) + 1) |->
                    IF h > Len(bchChain) - d THEN branch + 1 ELSE bchChain[h]]
  /\ UNCHANGED <<sbchTip, heights, pc, locals, handled, faults>>

MineSbch ==
  /\ sbchTip < MaxHeight
  /\ sbchTip' = sbchTip + 1
  /\ UNCHANGED <<bchChain, branch, heights, pc, locals, handled, faults>>

ChainStep == MineBch \/ MineSbch \/ \E d \in 1..MaxReorg : Reorganise(d)

\* a request that fails is logged, see BotProcess
RpcFails == BchScanFails \/ SbchScanFails

ScanStep ==
  \/ Start \/ InitLastHeights
  \/ StartBch \/ HandleBchBlock \/ SaveBch \/ EndBch
  \/ StartSbch \/ HandleSbchEvents \/ SaveSbch \/ EndSbch

ScanNext == ScanStep \/ RpcFails \/ NoHeights \/ Crash \/ ChainStep

ScanSpec == Init /\ [][ScanNext]_scanVars

-----------------------------------------------------------------------------
(* Properties.                                                             *)

\* No block the bot has acted upon is ever replaced: what it has saved from a
\* deposit or a receipt stays on the chain.
HandledBlocksAreFinal ==
  \A b \in handledBch : b[1] <= Len(bchChain) /\ b[2] = BlockAt(b[1])

\* The blocks of the chain as it is now that were handled.
SeenBch == {h \in Heights : h <= Len(bchChain) /\ <<h, BlockAt(h)>> \in handledBch}

Cursor(last) == IF last = 0 THEN 0 ELSE last + 1

BchFeed == INSTANCE OrderedFeed WITH next <- Cursor(lastBch), seen <- SeenBch
SbchFeed == INSTANCE OrderedFeed
              WITH next <- Cursor(lastSbch), seen <- handledSbch

\* From the first block that was handled and saved on, every block of the
\* final chain is handled, in order, whatever crashes, fails or is replaced.
BchBlocksInOrder == BchFeed!Spec

\* The same for the blocks of sBCH, handled in batches.
SbchEventsInOrder == SbchFeed!Spec

\* Once the row with the heights exists, the scans catch up with both chains,
\* however many blocks came while the bot was down.
ScansCatchUp ==
  \A h \in 1..MaxHeight :
    /\ (table = "ready" /\ h <= SafeHeight) ~> lastBch >= h
    /\ (table = "ready" /\ h <= sbchTip) ~> lastSbch >= h

=============================================================================
