---------------------------- MODULE ErrLogQueue ----------------------------
(***************************************************************************)
(* The queue of errors and warnings a bot keeps for /logs.  The loop adds  *)
(* to it, HTTP handlers take from it, under one mutex, so each operation   *)
(* is a step.  The queue is in memory only.  An entry is its number.       *)
(***************************************************************************)
EXTENDS Integers, Sequences

CONSTANTS
  Limit,      \* errLogLimit, 5000 in the code
  DropCount   \* how many entries make room at the limit, 500 in the code

ASSUME QueueAssumption ==
  Limit \in Nat \ {0} /\ DropCount \in Nat \ {0} /\ DropCount <= Limit

VARIABLES
  errLogQueue,  \* the entries, oldest first
  recorded,     \* history: how many were recorded
  gone          \* history: the last one that was read or lost in a restart

queueVars == <<errLogQueue, recorded, gone>>

QueueOK ==
  /\ errLogQueue \in Seq(Nat) /\ recorded \in Nat /\ gone \in 0..recorded

QueueInit == errLogQueue = <<>> /\ recorded = 0 /\ gone = 0

\* what n calls of TryDequeue leave
Dequeued(n) == SubSeq(errLogQueue, n + 1, Len(errLogQueue))

\* Mutant: the limit may be exceeded by one.
TrimmedLate == IF Len(errLogQueue) > Limit THEN Dequeued(DropCount) ELSE errLogQueue

\* room for one more entry
Trimmed == IF Len(errLogQueue) >= Limit THEN Dequeued(DropCount) ELSE errLogQueue

recordErrLog ==
  /\ recorded' = recorded + 1
  /\ errLogQueue' = Append(Trimmed, recorded + 1)
  /\ UNCHANGED gone

\* the handler of /logs takes n entries, or all there are
removeErrLogs(n) ==
  /\ errLogQueue # <<>>
  /\ LET k == IF n < Len(errLogQueue) THEN n ELSE Len(errLogQueue)
     IN  /\ gone' = IF k = 0 THEN gone ELSE errLogQueue[k]
         /\ errLogQueue' = Dequeued(k)
  /\ UNCHANGED recorded

\* the process ends and the queue with it
QueueLost ==
  /\ errLogQueue' = <<>> /\ gone' = recorded
  /\ UNCHANGED recorded

-----------------------------------------------------------------------------

\* The queue is bounded, and holds the newest entries without a gap and in
\* their order; none of them was read before; and of those that were not, as
\* many are kept as there is room for after the oldest are dropped.
NewestLogsKept ==
  LET n == Len(errLogQueue) IN
  /\ n <= Limit
  /\ \A i \in 1..n : errLogQueue[i] = recorded - n + i
  /\ gone <= recorded - n
  /\ n < recorded - gone => n > Limit - DropCount

=============================================================================
