---------------------------- MODULE BotProcess ----------------------------
(***************************************************************************)
(* The process of one bot: the loop that scans both chains (BlockScan) and *)
(* the HTTP server beside it, which hands out the errors of the loop       *)
(* (ErrLogQueue).  A request of a scan that fails is logged in the same    *)
(* step; when the process ends the queue is lost, the heights are not.     *)
(***************************************************************************)
EXTENDS BlockScan, ErrLogQueue

CONSTANTS
  LogRequests,   \* the numbers n in requests of /logs?n=...
  MaxLogs        \* bound: how many errors are recorded

ASSUME RequestsAssumption == LogRequests \subseteq Nat /\ MaxLogs \in Nat

processVars == <<scanVars, queueVars>>

ProcessInit == Init /\ QueueInit

\* logError, up to the bound
logError ==
  IF recorded < MaxLogs THEN recordErrLog ELSE UNCHANGED queueVars

\* one step of the loop; log.Fatal adds nothing to the queue
LoopStep ==
  \/ ScanStep /\ UNCHANGED queueVars
  \/ RpcFails /\ logError
  \/ NoHeights /\ QueueLost

ProcessCrash == Crash /\ QueueLost

\* an HTTP handler runs beside the loop
HandleLogs ==
  /\ pc \notin {"down", "prepareDB"}
  /\ \E n \in LogRequests : removeErrLogs(n)
  /\ UNCHANGED scanVars

ProcessNext ==
  \/ LoopStep \/ ProcessCrash \/ HandleLogs
  \/ ChainStep /\ UNCHANGED queueVars

\* The loop never returns, and the process is started again when it has ended.
ProcessSpec == ProcessInit /\ [][ProcessNext]_processVars
                 /\ WF_processVars(LoopStep)

=============================================================================
