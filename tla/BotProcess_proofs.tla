------------------------- MODULE BotProcess_proofs -------------------------
(***************************************************************************)
(* The scans of both chains implement OrderedFeed, act only upon blocks    *)
(* that stay, and the log queue keeps the newest entries: for all heights, *)
(* confirmations, batches, limits and numbers of faults.                   *)
(***************************************************************************)
EXTENDS BotProcess, TLAPS

USE DEF Heights

\* A scan of BCH is at the block after the saved one, and does not go beyond
\* what was safe when it began.
BchScanOK ==
  /\ pc \in {"scanBch", "saveBch"} =>
       upTo <= SafeHeight /\ (lastBch > 0 => from = lastBch + 1)
  /\ pc = "saveBch" =>
       from >= 0 /\ from <= upTo /\ <<from, BlockAt(from)>> \in handledBch

\* A scan of sBCH is at the block after the saved one, or at the tip when
\* nothing was saved, or at its end.
SbchScanOK ==
  /\ pc \in {"scanSbch", "saveSbch"} =>
       /\ upTo \in Heights /\ upTo <= sbchTip
       /\ from >= 0 /\ from <= MaxHeight + BatchSize
       /\ from <= upTo => IF lastSbch = 0 THEN from = upTo ELSE from = lastSbch + 1
  /\ pc = "saveSbch" => from <= upTo /\ from..BatchEnd \subseteq handledSbch

\* The blocks acted upon are safe.
HandledSafe == \A b \in handledBch : b[1] <= SafeHeight /\ b[2] = BlockAt(b[1])

ScanInv == TypeOK /\ BchScanOK /\ SbchScanOK /\ HandledSafe

-----------------------------------------------------------------------------
(* Heights.                                                                *)

USE ReorgAssumption, WordAssumption, BoundsAssumption

\* The safe height never exceeds the height of the chain.
LEMMA SafeHeightRange ==
  ASSUME TypeOK
  PROVE  /\ SafeHeight \in Int /\ SafeHeight <= Len(bchChain)
         /\ SafeHeight <= MaxHeight /\ SafeHeight > -Confirmations - 1
  BY DEF TypeOK, SafeHeight

\* Wherever the safe height lies, the first scan begins with it: the
\* conversions to uint64 and back take nothing away.
LEMMA FirstIsSafe ==
  ASSUME TypeOK
  PROVE  ToInt64(FirstBch) + 1 = IF lastBch = 0 THEN SafeHeight ELSE lastBch + 1
<1>1. SafeHeight \in Int /\ SafeHeight <= MaxHeight /\ SafeHeight > -Confirmations - 1
  BY SafeHeightRange
<1>2. CASE lastBch = 0 /\ SafeHeight > 0
  BY <1>1, <1>2 DEF FirstBch, ToInt64, ToUint64
<1>3. CASE lastBch = 0 /\ SafeHeight <= 0
  BY <1>1, <1>3 DEF FirstBch, ToInt64, ToUint64
<1>4. CASE lastBch # 0
  BY <1>4 DEF FirstBch, ToInt64, TypeOK
<1> QED
  BY <1>1, <1>2, <1>3, <1>4 DEF TypeOK

LEMMA FirstIsTip ==
  ASSUME TypeOK
  PROVE  ToUint64(FirstSbch + 1) = IF lastSbch = 0 THEN sbchTip ELSE lastSbch + 1
  BY DEF TypeOK, FirstSbch, ToUint64

\* The end of a batch does not wrap around.
LEMMA BatchEndRange ==
  ASSUME from \in Nat, from <= MaxHeight, upTo \in Heights, from <= upTo
  PROVE  /\ BatchEnd \in Heights /\ from <= BatchEnd /\ BatchEnd <= upTo
         /\ ToUint64(from + BatchSize) = from + BatchSize
         /\ from + BatchSize <= upTo => BatchEnd = from + BatchSize - 1
  BY DEF BatchEnd, ToUint64

-----------------------------------------------------------------------------
(* The invariant of the scans.                                             *)

\* Nothing is scanned at first.
LEMMA ScanInit == Init => ScanInv
<1> SUFFICES ASSUME Init PROVE ScanInv
  OBVIOUS
<1>1. PICK n \in Heights : bchChain = [h \in 1..n |-> 0]
  BY DEF Init
<1>2. bchChain \in Seq(0..MaxBranches) /\ Len(bchChain) = n
  BY <1>1
<1>3. TypeOK
  BY <1>2 DEF Init, TypeOK, PCs
<1> QED
  BY <1>3 DEF Init, ScanInv, BchScanOK, SbchScanOK, HandledSafe

\* Where the bot is not in a scan, the invariant is about what is saved.
LEMMA OutsideScan ==
  ASSUME ScanInv, UNCHANGED <<chains, handled>>, TypeOK',
         pc' \notin {"scanBch", "saveBch", "scanSbch", "saveSbch"}
  PROVE  ScanInv'
<1>1. SafeHeight' = SafeHeight /\ \A h : BlockAt(h)' = BlockAt(h)
  BY DEF chains, SafeHeight, BlockAt
<1>2. HandledSafe'
  BY <1>1 DEF ScanInv, HandledSafe, handled
<1> QED
  BY <1>2 DEF ScanInv, BchScanOK, SbchScanOK

\* The start reads the heights and handles nothing.
LEMMA StartSafe == ScanInv /\ (Start \/ InitLastHeights \/ NoHeights) => ScanInv'
<1> SUFFICES ASSUME ScanInv, Start \/ InitLastHeights \/ NoHeights
             PROVE  ScanInv'
  OBVIOUS
<1>1. /\ TypeOK'
      /\ pc' \in {"prepareDB", "startBch", "down"}
      /\ UNCHANGED <<chains, handled>>
  <2>1. CASE Start
    BY <2>1 DEF Start, ScanInv, TypeOK, PCs, chains, locals, handled
  <2>2. CASE InitLastHeights
    BY <2>2 DEF InitLastHeights, ScanInv, TypeOK, PCs, chains, locals, handled
  <2>3. CASE NoHeights
    BY <2>3 DEF NoHeights, ScanInv, TypeOK, PCs, chains, heights, locals, handled
  <2> QED
    BY <2>1, <2>2, <2>3
<1> QED
  BY <1>1, OutsideScan

\* What a scan of BCH reads is what its next steps rely on.
LEMMA BchScanSafe ==
  ScanInv /\ (StartBch \/ HandleBchBlock \/ SaveBch \/ EndBch) => ScanInv'
<1> SUFFICES ASSUME ScanInv, StartBch \/ HandleBchBlock \/ SaveBch \/ EndBch
             PROVE  ScanInv'
  OBVIOUS
<1> USE DEF ScanInv, TypeOK, BchScanOK, SbchScanOK, HandledSafe, PCs, chains,
            heights, locals, handled
<1>1. /\ SafeHeight \in Int /\ SafeHeight <= Len(bchChain)
      /\ SafeHeight <= MaxHeight
  BY SafeHeightRange
<1>2. CASE StartBch
  <2>1. from' = IF lastBch = 0 THEN SafeHeight ELSE lastBch + 1
    BY <1>2, FirstIsSafe DEF StartBch
  <2> QED
    BY <1>1, <1>2, <2>1 DEF StartBch, SafeHeight, BlockAt
<1>3. CASE HandleBchBlock
  <2>1. from \in Heights /\ from <= Len(bchChain) /\ from <= SafeHeight
    BY <1>1, <1>3 DEF HandleBchBlock
  <2>2. BlockAt(from) \in 0..MaxBranches
    BY <2>1 DEF BlockAt
  <2>3. SafeHeight' = SafeHeight /\ \A h : BlockAt(h)' = BlockAt(h)
    BY <1>3 DEF HandleBchBlock, SafeHeight, BlockAt
  <2> QED
    BY <1>3, <2>1, <2>2, <2>3 DEF HandleBchBlock
<1>4. CASE SaveBch
  <2>1. SafeHeight' = SafeHeight /\ \A h : BlockAt(h)' = BlockAt(h)
    BY <1>4 DEF SaveBch, SafeHeight, BlockAt
  <2> QED
    BY <1>1, <1>4, <2>1 DEF SaveBch
<1>5. CASE EndBch
  BY <1>5 DEF EndBch, Return, SafeHeight, BlockAt
<1> QED
  BY <1>2, <1>3, <1>4, <1>5

\* The same for a scan of sBCH.
LEMMA SbchScanSafe ==
  ScanInv /\ (StartSbch \/ HandleSbchEvents \/ SaveSbch \/ EndSbch) => ScanInv'
<1> SUFFICES ASSUME ScanInv, StartSbch \/ HandleSbchEvents \/ SaveSbch \/ EndSbch
             PROVE  ScanInv'
  OBVIOUS
<1> USE DEF ScanInv, TypeOK, BchScanOK, SbchScanOK, HandledSafe, PCs, chains,
            heights, locals, handled
<1>1. CASE StartSbch
  <2>1. from' = IF lastSbch = 0 THEN sbchTip ELSE lastSbch + 1
    BY <1>1, FirstIsTip DEF StartSbch
  <2> QED
    BY <1>1, <2>1 DEF StartSbch, SafeHeight, BlockAt
<1>2. CASE HandleSbchEvents
  <2>1. BatchEnd \in Heights
    BY <1>2, BatchEndRange DEF HandleSbchEvents
  <2>2. BatchEnd' = BatchEnd
    BY <1>2 DEF HandleSbchEvents, BatchEnd
  <2> QED
    BY <1>2, <2>1, <2>2 DEF HandleSbchEvents, SafeHeight, BlockAt
<1>3. CASE SaveSbch
  <2>1. /\ BatchEnd \in Heights /\ ToUint64(from + BatchSize) = from + BatchSize
        /\ from + BatchSize <= upTo => BatchEnd = from + BatchSize - 1
        /\ from <= BatchEnd /\ BatchEnd <= upTo
    BY <1>3, BatchEndRange DEF SaveSbch
  <2>2. TypeOK'
    BY <1>3, <2>1 DEF SaveSbch
  <2>4. /\ from' = from + BatchSize /\ lastSbch' = BatchEnd /\ upTo' = upTo
        /\ pc' = "scanSbch" /\ sbchTip' = sbchTip
    BY <1>3, <2>1 DEF SaveSbch
  <2>5. from' <= upTo => BatchEnd = from + BatchSize - 1 /\ from > 0
    BY <1>3, <2>1, <2>4 DEF SaveSbch
  <2>6. /\ from \in Nat /\ from <= MaxHeight /\ upTo \in Heights
        /\ upTo <= sbchTip /\ BatchSize \in Nat /\ MaxHeight \in Nat
    BY <1>3 DEF SaveSbch
  <2>7. SbchScanOK' /\ BchScanOK'
    <3> HIDE DEF ScanInv, TypeOK, HandledSafe, PCs
    <3> QED
      BY <2>1, <2>4, <2>5, <2>6
  <2>3. HandledSafe'
    BY <1>3 DEF SaveSbch, SafeHeight, BlockAt
  <2> QED
    BY <2>2, <2>3, <2>7
<1>4. CASE EndSbch
  BY <1>4 DEF EndSbch, Return, SafeHeight, BlockAt
<1> QED
  BY <1>1, <1>2, <1>3, <1>4

\* A scan that fails, or a crash, keeps what was saved.
LEMMA FaultSafe == ScanInv /\ (RpcFails \/ Crash) => ScanInv'
<1> SUFFICES ASSUME ScanInv, RpcFails \/ Crash
             PROVE  ScanInv'
  OBVIOUS
<1>1. /\ faults' \in 0..MaxFaults /\ Return
      /\ pc' \in {"startBch", "startSbch", "down"}
      /\ UNCHANGED <<chains, heights, handled>>
  BY DEF RpcFails, BchScanFails, SbchScanFails, Crash, Fault, ScanInv, TypeOK
<1>2. TypeOK'
  BY <1>1 DEF ScanInv, TypeOK, PCs, Return, chains, heights, handled
<1> QED
  BY <1>1, <1>2, OutsideScan

\* A longer chain takes nothing away that is safe: fewer blocks are replaced
\* than the bot waits for.
LEMMA ChainKept ==
  ASSUME ScanInv, ChainStep
  PROVE  /\ bchChain' \in Seq(0..MaxBranches) /\ Len(bchChain') \in Heights
         /\ branch' \in 0..MaxBranches /\ sbchTip' \in Heights
         /\ sbchTip <= sbchTip' /\ SafeHeight <= SafeHeight'
         /\ SafeHeight \in Int /\ SafeHeight <= Len(bchChain) /\ SafeHeight' \in Int
         /\ \A h \in Nat : h <= SafeHeight => BlockAt(h)' = BlockAt(h)
         /\ Len(bchChain) <= Len(bchChain')
<1>1. SafeHeight \in Int /\ SafeHeight <= Len(bchChain)
  BY SafeHeightRange DEF ScanInv
<1>2. CASE MineBch
  <2>1. /\ bchChain' = Append(bchChain, branch)
        /\ bchChain' \in Seq(0..MaxBranches) /\ Len(bchChain') = Len(bchChain) + 1
        /\ \A h \in 1..Len(bchChain) : bchChain'[h] = bchChain[h]
    BY <1>2 DEF MineBch, ScanInv, TypeOK
  <2> QED
    BY <1>1, <1>2, <2>1 DEF MineBch, ScanInv, TypeOK, SafeHeight, BlockAt
<1>3. CASE MineSbch
  BY <1>1, <1>3 DEF MineSbch, ScanInv, TypeOK, SafeHeight, BlockAt
<1>4. ASSUME NEW d \in 1..MaxReorg, Reorganise(d)
      PROVE  /\ bchChain' \in Seq(0..MaxBranches)
             /\ Len(bchChain') = Len(bchChain) + 1
             /\ \A h \in 1..(Len(bchChain) - d) : bchChain'[h] = bchChain[h]
             /\ Confirmations > d
  <2> DEFINE c == [h \in 1..(Len(bchChain) + 1) |->
                     IF h > Len(bchChain) - d THEN branch + 1 ELSE bchChain[h]]
  <2>1. /\ Len(bchChain) \in Nat /\ branch + 1 \in 0..MaxBranches
        /\ \A h \in 1..Len(bchChain) : bchChain[h] \in 0..MaxBranches
        /\ bchChain' = c
    BY <1>4 DEF Reorganise, ScanInv, TypeOK
  <2>2. \A h \in 1..(Len(bchChain) + 1) : c[h] \in 0..MaxBranches
    BY <2>1
  <2>3. c \in Seq(0..MaxBranches) /\ Len(c) = Len(bchChain) + 1
    <3> HIDE DEF c
    <3>1. c \in [1..(Len(bchChain) + 1) -> 0..MaxBranches]
      BY <2>1 DEF c
    <3> QED
      BY <3>1, <2>1
  <2>4. \A h \in 1..(Len(bchChain) - d) : c[h] = bchChain[h]
    BY <2>1
  <2> QED
    BY <2>1, <2>3, <2>4
<1>5. ASSUME NEW d \in 1..MaxReorg, Reorganise(d)
      PROVE  /\ SafeHeight' = SafeHeight + 1 /\ SafeHeight <= Len(bchChain) - d
             /\ branch' \in 0..MaxBranches /\ sbchTip' = sbchTip
             /\ Len(bchChain) < MaxHeight
  BY <1>4, <1>5 DEF Reorganise, SafeHeight, ScanInv, TypeOK
<1>6. CASE \E d \in 1..MaxReorg : Reorganise(d)
  <2>1. PICK d \in 1..MaxReorg : Reorganise(d)
    BY <1>6
  <2>2. Len(bchChain') = Len(bchChain) + 1 /\ Len(bchChain) < MaxHeight
    BY <2>1, <1>4, <1>5
  <2>3. \A h \in Nat : h <= SafeHeight => BlockAt(h)' = BlockAt(h)
    BY <1>1, <1>4, <1>5, <2>1 DEF BlockAt, ScanInv, TypeOK
  <2>4. Len(bchChain) \in Nat /\ sbchTip \in Nat /\ sbchTip \in Heights /\ MaxHeight \in Nat
    BY DEF ScanInv, TypeOK
  <2>5. bchChain' \in Seq(0..MaxBranches) /\ branch' \in 0..MaxBranches
    BY <1>4, <1>5, <2>1
  <2>6. sbchTip' = sbchTip /\ SafeHeight' = SafeHeight + 1
    BY <1>5, <2>1
  <2>7. Len(bchChain') \in Heights /\ Len(bchChain) <= Len(bchChain')
    BY <2>2, <2>4
  <2>8. sbchTip' \in Heights /\ sbchTip <= sbchTip'
    BY <2>4, <2>6
  <2>9. SafeHeight <= SafeHeight' /\ SafeHeight' \in Int
    BY <1>1, <2>6
  <2> QED
    BY <1>1, <2>3, <2>5, <2>7, <2>8, <2>9
<1> QED
  BY <1>2, <1>3, <1>6 DEF ChainStep

LEMMA ChainSafe == ScanInv /\ ChainStep => ScanInv'
<1> SUFFICES ASSUME ScanInv, ChainStep PROVE ScanInv'
  OBVIOUS
<1>1. UNCHANGED <<heights, pc, locals, handled, faults>>
  BY DEF ChainStep, MineBch, MineSbch, Reorganise
<1>2. TypeOK'
  BY <1>1, ChainKept DEF ScanInv, TypeOK, heights, locals, handled
<1>3. HandledSafe'
  BY <1>1, ChainKept DEF ScanInv, TypeOK, HandledSafe, handled
<1>4. BchScanOK'
  <2>1. pc = "saveBch" => BlockAt(from)' = BlockAt(from)
    BY <1>1, ChainKept DEF ScanInv, TypeOK, BchScanOK, BlockAt, locals
  <2>2. pc = "saveBch" => (<<from, BlockAt(from)>> \in handledBch)'
    BY <1>1, <2>1 DEF ScanInv, BchScanOK, locals, handled
  <2>3. pc \in {"scanBch", "saveBch"} => upTo <= SafeHeight'
    BY ChainKept DEF ScanInv, TypeOK, BchScanOK
  <2> QED
    BY <1>1, <2>2, <2>3 DEF ScanInv, TypeOK, BchScanOK, heights, locals, handled
<1>5. SbchScanOK'
  <2>1. BatchEnd' = BatchEnd
    BY <1>1 DEF BatchEnd, locals
  <2> QED
    BY <1>1, <2>1, ChainKept DEF ScanInv, TypeOK, SbchScanOK, heights, locals, handled
<1> QED
  BY <1>2, <1>3, <1>4, <1>5 DEF ScanInv

\* The invariant is kept by every step.
LEMMA ScanInvStep == ScanInv /\ [ScanNext]_scanVars => ScanInv'
<1>1. ScanInv /\ UNCHANGED scanVars => ScanInv'
  BY DEF scanVars, chains, heights, locals, handled, ScanInv, TypeOK, BchScanOK,
         SbchScanOK, HandledSafe, SafeHeight, BlockAt, BatchEnd
<1> QED
  BY <1>1, StartSafe, BchScanSafe, SbchScanSafe, FaultSafe, ChainSafe
  DEF ScanNext, ScanStep

-----------------------------------------------------------------------------
(* The feeds.                                                              *)

\* There are no heights before their row is made.
TableOK ==
  /\ table # "ready" => lastBch = 0 /\ lastSbch = 0
  /\ pc = "prepareDB" => table = "empty"
  /\ pc \notin {"down", "prepareDB", "startBch"} => table = "ready"

LEMMA TableInit == Init => TableOK
  BY DEF Init, TableOK

LEMMA TableStep == TypeOK /\ TableOK /\ [ScanNext]_scanVars => TableOK'
<1> SUFFICES ASSUME TypeOK, TableOK, [ScanNext]_scanVars PROVE TableOK'
  OBVIOUS
<1> USE DEF TableOK, heights
<1>1. CASE ScanStep
  BY <1>1 DEF ScanStep, Start, InitLastHeights, StartBch, HandleBchBlock, SaveBch,
              EndBch, StartSbch, HandleSbchEvents, SaveSbch, EndSbch
<1>2. CASE RpcFails \/ NoHeights \/ Crash
  BY <1>2 DEF RpcFails, BchScanFails, SbchScanFails, NoHeights, Crash
<1>3. CASE ChainStep \/ UNCHANGED scanVars
  BY <1>3 DEF ChainStep, MineBch, MineSbch, Reorganise, scanVars
<1> QED
  BY <1>1, <1>2, <1>3 DEF ScanNext

\* What is neither handled nor saved is a stutter of both feeds.
QuietFeeds == UNCHANGED <<bchChain, lastBch, lastSbch, handled>>

LEMMA QuietStep ==
  ASSUME TableOK,
         \/ Start \/ InitLastHeights \/ NoHeights \/ StartBch \/ EndBch
         \/ StartSbch \/ EndSbch \/ RpcFails \/ Crash \/ UNCHANGED scanVars
  PROVE  QuietFeeds
  BY DEF TableOK, QuietFeeds, Start, InitLastHeights, NoHeights, StartBch, EndBch,
         StartSbch, EndSbch, RpcFails, BchScanFails, SbchScanFails, Crash, scanVars,
         chains, heights, handled

\* The blocks handled are the same ones in the chain as it becomes.
LEMMA SeenKept == ASSUME ScanInv, ChainStep PROVE SeenBch' = SeenBch
<1>1. handledBch' = handledBch
  BY DEF ChainStep, MineBch, MineSbch, Reorganise, handled
<1>2. ASSUME NEW h \in Heights, NEW v, <<h, v>> \in handledBch
      PROVE  h <= SafeHeight /\ h <= Len(bchChain) /\ h <= Len(bchChain')
             /\ BlockAt(h)' = BlockAt(h)
  <2>1. h <= SafeHeight
    BY <1>2 DEF ScanInv, HandledSafe
  <2> QED
    BY <2>1, ChainKept DEF ScanInv, TypeOK
<1> QED
  BY <1>1, <1>2 DEF SeenBch

LEMMA BchFeedInit == Init => BchFeed!Init
  BY DEF Init, BchFeed!Init, Cursor, SeenBch

LEMMA BchFeedStep ==
  ScanInv /\ TableOK /\ [ScanNext]_scanVars => [BchFeed!Next]_(BchFeed!feed)
<1> SUFFICES ASSUME ScanInv, TableOK, [ScanNext]_scanVars
             PROVE  BchFeed!Next \/ UNCHANGED BchFeed!feed
  BY DEF BchFeed!feed
<1>1. CASE HandleBchBlock
  <2>1. /\ from \in Heights /\ from <= Len(bchChain) /\ from >= Cursor(lastBch) - 1
        /\ lastBch > 0 => Cursor(lastBch) = from /\ from > 0
        /\ lastBch = 0 => Cursor(lastBch) = 0
    BY <1>1, SafeHeightRange
    DEF ScanInv, TypeOK, BchScanOK, HandleBchBlock, Cursor
  <2>2. SeenBch' = SeenBch \cup {from} /\ lastBch' = lastBch
    BY <1>1, <2>1 DEF HandleBchBlock, SeenBch, BlockAt, chains, heights
  <2>3. CASE lastBch = 0
    BY <2>1, <2>2, <2>3 DEF BchFeed!Next, BchFeed!Deliver, Cursor
  <2>4. CASE lastBch > 0
    <3>1. from..from = {from}
      BY <2>1
    <3> QED
      BY <2>1, <2>2, <2>4, <3>1 DEF BchFeed!Next, BchFeed!Deliver, Cursor
  <2> QED
    BY <2>3, <2>4 DEF ScanInv, TypeOK
<1>2. CASE SaveBch
  <2>1. /\ from \in Heights /\ from \in SeenBch
        /\ lastBch > 0 => Cursor(lastBch) = from /\ from > 0
        /\ lastBch = 0 => Cursor(lastBch) = 0
    BY <1>2, SafeHeightRange
    DEF ScanInv, TypeOK, BchScanOK, SaveBch, Cursor, SeenBch
  <2>2. SeenBch' = SeenBch /\ lastBch' = from
    BY <1>2 DEF SaveBch, SeenBch, BlockAt, chains, handled
  <2>3. CASE from = 0
    BY <2>1, <2>2, <2>3 DEF BchFeed!feed, Cursor, ScanInv, TypeOK
  <2>4. CASE from > 0
    <3>1. from..from = {from}
      BY <2>1
    <3> QED
      BY <2>1, <2>2, <2>4, <3>1 DEF BchFeed!Next, BchFeed!Commit, Cursor, ScanInv, TypeOK
  <2> QED
    BY <2>1, <2>3, <2>4
<1>3. CASE ChainStep
  <2>1. lastBch' = lastBch
    BY <1>3 DEF ChainStep, MineBch, MineSbch, Reorganise, heights
  <2> QED
    BY <1>3, <2>1, SeenKept DEF BchFeed!feed, Cursor
<1>4. ASSUME QuietFeeds PROVE UNCHANGED BchFeed!feed
  BY <1>4 DEF QuietFeeds, BchFeed!feed, Cursor, SeenBch, BlockAt, handled
<1>5. CASE HandleSbchEvents \/ SaveSbch
  BY <1>5 DEF HandleSbchEvents, SaveSbch, BchFeed!feed, Cursor, SeenBch, BlockAt,
              chains, heights, handled
<1> QED
  BY <1>1, <1>2, <1>3, <1>4, <1>5, QuietStep DEF ScanNext, ScanStep

LEMMA SbchFeedInit == Init => SbchFeed!Init
  BY DEF Init, SbchFeed!Init, Cursor

LEMMA SbchFeedStep ==
  ScanInv /\ TableOK /\ [ScanNext]_scanVars => [SbchFeed!Next]_(SbchFeed!feed)
<1> SUFFICES ASSUME ScanInv, TableOK, [ScanNext]_scanVars
             PROVE  SbchFeed!Next \/ UNCHANGED SbchFeed!feed
  BY DEF SbchFeed!feed
<1>1. ASSUME HandleSbchEvents \/ SaveSbch
      PROVE  /\ from \in Heights /\ from <= BatchEnd /\ BatchEnd \in Heights
             /\ lastSbch = 0 => Cursor(lastSbch) = 0 /\ BatchEnd = from
             /\ lastSbch > 0 => Cursor(lastSbch) = from /\ from > 0
  BY <1>1, BatchEndRange
  DEF ScanInv, TypeOK, SbchScanOK, HandleSbchEvents, SaveSbch, Cursor
<1>2. CASE HandleSbchEvents
  <2>1. /\ handledSbch' = handledSbch \cup from..BatchEnd
        /\ lastSbch' = lastSbch
    BY <1>2 DEF HandleSbchEvents, heights
  <2>2. CASE lastSbch = 0
    <3>1. from..BatchEnd = {from}
      BY <1>1, <1>2, <2>2
    <3> QED
      BY <1>1, <1>2, <2>1, <2>2, <3>1 DEF SbchFeed!Next, SbchFeed!Deliver, Cursor
  <2>3. CASE lastSbch > 0
    BY <1>1, <1>2, <2>1, <2>3 DEF SbchFeed!Next, SbchFeed!Deliver, Cursor
  <2> QED
    BY <2>2, <2>3 DEF ScanInv, TypeOK
<1>3. CASE SaveSbch
  <2>1. /\ handledSbch' = handledSbch /\ from..BatchEnd \subseteq handledSbch
        /\ lastSbch' = BatchEnd
    BY <1>3 DEF SaveSbch, ScanInv, SbchScanOK, handled
  <2>2. CASE BatchEnd = 0
    BY <1>1, <1>3, <2>1, <2>2 DEF SbchFeed!feed, Cursor, ScanInv, TypeOK
  <2>3. CASE BatchEnd > 0
    BY <1>1, <1>3, <2>1, <2>3
    DEF SbchFeed!Next, SbchFeed!Commit, Cursor, ScanInv, TypeOK
  <2> QED
    BY <1>1, <1>3, <2>2, <2>3
<1>4. ASSUME QuietFeeds PROVE UNCHANGED SbchFeed!feed
  BY <1>4 DEF QuietFeeds, SbchFeed!feed, Cursor, handled
<1>5. CASE HandleBchBlock \/ SaveBch \/ ChainStep
  BY <1>5 DEF HandleBchBlock, SaveBch, ChainStep, MineBch, MineSbch, Reorganise,
              SbchFeed!feed, Cursor, heights, handled
<1> QED
  BY <1>2, <1>3, <1>4, <1>5, QuietStep DEF ScanNext, ScanStep

-----------------------------------------------------------------------------
(* The log queue.                                                          *)

QueueInv == QueueOK /\ NewestLogsKept

LEMMA EmptyQueue == QueueInit => QueueInv
  BY QueueAssumption DEF QueueInit, QueueInv, QueueOK, NewestLogsKept

\* Dropping the k oldest entries leaves the newest ones.
LEMMA DropOldest ==
  ASSUME QueueInv, NEW k \in Nat, k <= Len(errLogQueue)
  PROVE  /\ Dequeued(k) \in Seq(Nat) /\ Len(Dequeued(k)) = Len(errLogQueue) - k
         /\ \A i \in 1..Len(Dequeued(k)) :
              Dequeued(k)[i] = recorded - Len(Dequeued(k)) + i
<1> DEFINE n == Len(errLogQueue)
           q == Dequeued(k)
<1>1. n \in Nat /\ errLogQueue \in Seq(Nat) /\ recorded \in Nat
  BY DEF QueueInv, QueueOK
<1>2. q = SubSeq(errLogQueue, k + 1, n)
  BY DEF Dequeued
<1>3. q \in Seq(Nat) /\ Len(q) = n - k
  BY <1>1, <1>2
<1>4. ASSUME NEW i \in 1..(n - k)
      PROVE  q[i] = recorded - (n - k) + i
  <2>1. q[i] = errLogQueue[k + i]
    BY <1>1, <1>2
  <2>2. k + i \in 1..n
    BY <1>1
  <2>3. errLogQueue[k + i] = recorded - n + (k + i)
    BY <2>2 DEF QueueInv, NewestLogsKept
  <2> QED
    BY <1>1, <2>1, <2>3
<1> HIDE DEF q
<1>5. \A i \in 1..Len(q) : q[i] = recorded - Len(q) + i
  BY <1>3, <1>4
<1> QED
  BY <1>3, <1>5 DEF q

\* Whether there was room or not, the new entry is the last of the newest.
LEMMA RecordKeeps == QueueInv /\ recordErrLog => QueueInv'
<1> SUFFICES ASSUME QueueInv, recordErrLog PROVE QueueInv'
  OBVIOUS
<1> DEFINE n == Len(errLogQueue)
           m == Len(Trimmed)
<1>1. /\ n \in Nat /\ errLogQueue \in Seq(Nat) /\ recorded \in Nat
      /\ gone \in 0..recorded
  BY DEF QueueInv, QueueOK
<1>2. /\ Trimmed \in Seq(Nat) /\ m \in Nat
      /\ m = IF n >= Limit THEN n - DropCount ELSE n
      /\ \A i \in 1..m : Trimmed[i] = recorded - m + i
  <2>1. CASE n >= Limit
    <3>1. Trimmed = Dequeued(DropCount) /\ DropCount \in Nat /\ DropCount <= n
      BY <1>1, <2>1, QueueAssumption DEF Trimmed
    <3> QED
      <4> HIDE DEF n
      <4>1. /\ Trimmed \in Seq(Nat) /\ m = n - DropCount
            /\ \A i \in 1..m : Trimmed[i] = recorded - m + i
        BY <3>1, DropOldest DEF n
      <4> QED
        BY <1>1, <2>1, <3>1, <4>1
  <2>2. CASE n < Limit
    <3>1. Trimmed = errLogQueue
      BY <1>1, <2>2, QueueAssumption DEF Trimmed
    <3> QED
      BY <1>1, <2>2, <3>1, QueueAssumption DEF QueueInv, NewestLogsKept
  <2> QED
    BY <1>1, <2>1, <2>2, QueueAssumption
<1>3. /\ errLogQueue' = Append(Trimmed, recorded + 1)
      /\ recorded' = recorded + 1 /\ gone' = gone
  BY DEF recordErrLog
<1> HIDE DEF m
<1>4. /\ errLogQueue' \in Seq(Nat) /\ Len(errLogQueue') = m + 1
      /\ errLogQueue'[m + 1] = recorded + 1
      /\ \A i \in 1..m : errLogQueue'[i] = Trimmed[i]
  BY <1>1, <1>2, <1>3 DEF m
<1>5. ASSUME NEW i \in 1..(m + 1)
      PROVE  errLogQueue'[i] = recorded' - (m + 1) + i
  <2>3. m \in Nat /\ recorded \in Nat /\ recorded' = recorded + 1
    BY <1>1, <1>2, <1>3
  <2>1. CASE i = m + 1
    <3>1. errLogQueue'[i] = recorded + 1
      BY <1>4, <2>1
    <3> QED
      BY <2>3, <2>1, <3>1
  <2>2. CASE i \in 1..m
    <3>1. errLogQueue'[i] = recorded - m + i
      BY <1>2, <1>4, <2>2
    <3> QED
      BY <2>3, <2>2, <3>1
  <2> QED
    BY <1>2, <2>1, <2>2
<1>6. /\ m + 1 <= Limit /\ gone' <= recorded' - (m + 1)
      /\ m + 1 < recorded' - gone' => m + 1 > Limit - DropCount
  <2>1. n <= Limit /\ gone <= recorded - n /\ (n < recorded - gone => n > Limit - DropCount)
    BY DEF QueueInv, NewestLogsKept
  <2> HIDE DEF n
  <2> QED
    BY <1>1, <1>2, <1>3, <2>1, QueueAssumption
<1> QED
  BY <1>1, <1>3, <1>4, <1>5, <1>6 DEF QueueInv, QueueOK, NewestLogsKept

\* What a request takes are the oldest.
LEMMA RemoveKeeps ==
  ASSUME QueueInv, NEW m \in Nat, removeErrLogs(m)
  PROVE  QueueInv'
<1> DEFINE n == Len(errLogQueue)
           k == IF m < n THEN m ELSE n
<1>1. /\ n \in Nat /\ k \in Nat /\ k <= n /\ errLogQueue \in Seq(Nat)
      /\ recorded \in Nat /\ gone \in 0..recorded
  BY DEF QueueInv, QueueOK
<1>2. /\ errLogQueue' = Dequeued(k) /\ recorded' = recorded
      /\ gone' = IF k = 0 THEN gone ELSE errLogQueue[k]
  BY DEF removeErrLogs
<1> HIDE DEF k
<1>3. /\ errLogQueue' \in Seq(Nat) /\ Len(errLogQueue') = n - k
      /\ \A i \in 1..(n - k) : errLogQueue'[i] = recorded' - (n - k) + i
  BY <1>1, <1>2, DropOldest
<1>4. gone' = IF k = 0 THEN gone ELSE recorded - n + k
  BY <1>1, <1>2 DEF QueueInv, NewestLogsKept
<1>5. /\ n <= Limit /\ gone <= recorded - n
      /\ n < recorded - gone => n > Limit - DropCount
  BY DEF QueueInv, NewestLogsKept
<1>6. /\ n - k <= Limit /\ gone' <= recorded' - (n - k) /\ gone' \in 0..recorded'
      /\ n - k < recorded' - gone' => n - k > Limit - DropCount
  BY <1>1, <1>2, <1>4, <1>5, QueueAssumption
<1> QED
  BY <1>1, <1>2, <1>3, <1>6 DEF QueueInv, QueueOK, NewestLogsKept

-----------------------------------------------------------------------------
(* The process.                                                            *)

\* Beside the loop, the process does nothing to the heights.
LEMMA StepScans == [ProcessNext]_processVars => [ScanNext]_scanVars
  BY DEF ProcessNext, LoopStep, ProcessCrash, HandleLogs, ScanNext, processVars

LEMMA StepQueues == QueueInv /\ [ProcessNext]_processVars => QueueInv'
<1> SUFFICES ASSUME QueueInv, [ProcessNext]_processVars PROVE QueueInv'
  OBVIOUS
<1>1. CASE recordErrLog
  BY <1>1, RecordKeeps
<1>2. CASE QueueLost
  BY <1>2, QueueAssumption DEF QueueLost, QueueInv, QueueOK, NewestLogsKept
<1>3. CASE HandleLogs
  BY <1>3, RemoveKeeps, RequestsAssumption DEF HandleLogs
<1>4. CASE UNCHANGED queueVars
  BY <1>4 DEF queueVars, QueueInv, QueueOK, NewestLogsKept
<1> QED
  BY <1>1, <1>2, <1>3, <1>4 DEF ProcessNext, LoopStep, ProcessCrash, logError, processVars

\* The invariant of the whole process.
ProcessInv == ScanInv /\ TableOK /\ QueueInv

LEMMA ProcessInvHolds == ProcessSpec => []ProcessInv
<1>1. ProcessInit => ProcessInv
  BY ScanInit, TableInit, EmptyQueue DEF ProcessInit, ProcessInv
<1>2. ProcessInv /\ [ProcessNext]_processVars => ProcessInv'
  BY StepScans, StepQueues, ScanInvStep, TableStep DEF ProcessInv, ScanInv
<1> QED
  BY <1>1, <1>2, PTL DEF ProcessSpec

\* The heights of the database stay within the chains' and no scan leaves the
\* int64 range, whatever is saved, mined, replaced or lost.
THEOREM ScanTypeCorrect == ProcessSpec => []TypeOK
<1>1. ProcessInv => TypeOK
  BY DEF ProcessInv, ScanInv
<1> QED
  BY <1>1, ProcessInvHolds, PTL

\* The bot acts only upon blocks that stay: none with bchConfirmations
\* confirmations is replaced while fewer blocks are replaced at a time.
THEOREM HandledStay == ProcessSpec => []HandledBlocksAreFinal
<1>1. ProcessInv => HandledBlocksAreFinal
  BY SafeHeightRange DEF ProcessInv, ScanInv, HandledSafe, HandledBlocksAreFinal, TypeOK
<1> QED
  BY <1>1, ProcessInvHolds, PTL

\* The scan of BCH is an in-order feed that skips no block, with every crash,
\* failed request, reorganisation and wrap of a height.
THEOREM BchScanImplementsFeed == ProcessSpec => BchBlocksInOrder
<1>1. ProcessInit => BchFeed!Init
  BY BchFeedInit DEF ProcessInit
<1>2. ProcessInv /\ [ProcessNext]_processVars => [BchFeed!Next]_(BchFeed!feed)
  BY StepScans, BchFeedStep DEF ProcessInv
<1> QED
  BY <1>1, <1>2, ProcessInvHolds, PTL DEF ProcessSpec, BchBlocksInOrder, BchFeed!Spec

\* So is the scan of sBCH, whose batches are saved by their last height.
THEOREM SbchScanImplementsFeed == ProcessSpec => SbchEventsInOrder
<1>1. ProcessInit => SbchFeed!Init
  BY SbchFeedInit DEF ProcessInit
<1>2. ProcessInv /\ [ProcessNext]_processVars => [SbchFeed!Next]_(SbchFeed!feed)
  BY StepScans, SbchFeedStep DEF ProcessInv
<1> QED
  BY <1>1, <1>2, ProcessInvHolds, PTL DEF ProcessSpec, SbchEventsInOrder, SbchFeed!Spec

\* Between two heights that are saved nothing is left out, and nothing that was
\* handled is taken back: what the feeds promise to the handlers.
THEOREM NothingIsSkipped ==
  ProcessSpec => BchFeed!NothingSkipped /\ SbchFeed!NothingSkipped
<1>1. ASSUME ProcessInv, [ProcessNext]_processVars
      PROVE  [/\ SeenBch \subseteq SeenBch' /\ Cursor(lastBch)' >= Cursor(lastBch)
              /\ Cursor(lastBch) > 0 =>
                   Cursor(lastBch)..(Cursor(lastBch)' - 1) \subseteq SeenBch']_(BchFeed!feed)
  <2>1. [BchFeed!Next]_(BchFeed!feed) /\ Cursor(lastBch) \in Nat
    BY <1>1, StepScans, BchFeedStep DEF ProcessInv, ScanInv, TypeOK, Cursor
  <2>2. CASE BchFeed!Deliver
    BY <2>1, <2>2 DEF BchFeed!Deliver
  <2>3. CASE BchFeed!Commit
    BY <2>1, <2>3 DEF BchFeed!Commit
  <2> QED
    BY <2>1, <2>2, <2>3 DEF BchFeed!Next
<1>2. ASSUME ProcessInv, [ProcessNext]_processVars
      PROVE  [/\ handledSbch \subseteq handledSbch' /\ Cursor(lastSbch)' >= Cursor(lastSbch)
              /\ Cursor(lastSbch) > 0 =>
                   Cursor(lastSbch)..(Cursor(lastSbch)' - 1) \subseteq handledSbch']_(SbchFeed!feed)
  <2>1. [SbchFeed!Next]_(SbchFeed!feed) /\ Cursor(lastSbch) \in Nat
    BY <1>2, StepScans, SbchFeedStep DEF ProcessInv, ScanInv, TypeOK, Cursor
  <2>2. CASE SbchFeed!Deliver
    BY <2>1, <2>2 DEF SbchFeed!Deliver
  <2>3. CASE SbchFeed!Commit
    BY <2>1, <2>3 DEF SbchFeed!Commit
  <2> QED
    BY <2>1, <2>2, <2>3 DEF SbchFeed!Next
<1> QED
  BY <1>1, <1>2, ProcessInvHolds, PTL
  DEF ProcessSpec, BchFeed!NothingSkipped, SbchFeed!NothingSkipped

\* The log queue is bounded and holds the newest entries that were not read.
THEOREM NewestLogsStay == ProcessSpec => []NewestLogsKept
<1>1. ProcessInv => NewestLogsKept
  BY DEF ProcessInv, QueueInv
<1> QED
  BY <1>1, ProcessInvHolds, PTL

=============================================================================
