---------------------------- MODULE OrderedFeed ----------------------------
(***************************************************************************)
(* What a scan of a chain promises to the handlers: once it has begun,     *)
(* every height is delivered at least once and in order.  A height may be  *)
(* delivered again as long as the cursor has not been moved past it; the   *)
(* cursor never moves past a height that has not been delivered.           *)
(***************************************************************************)
EXTENDS Integers

CONSTANT MaxHeight   \* no height is beyond it

VARIABLES
  next,   \* the cursor: the next height to be delivered, 0 before the first
  seen    \* the heights delivered so far

feed == <<next, seen>>

Init == next = 0 /\ seen = {}

\* the next heights, or any while the feed has no cursor yet
Deliver ==
  /\ \/ \E k \in 0..MaxHeight : next > 0 /\ k >= next /\ seen' = seen \cup next..k
     \/ \E k \in 0..MaxHeight : next = 0 /\ seen' = seen \cup {k}
  /\ UNCHANGED next

\* the feed begins at any height that was delivered, and goes on without gaps
Commit ==
  /\ \E k \in 0..MaxHeight :
       /\ k >= next /\ k > 0
       /\ IF next = 0 THEN k \in seen ELSE next..k \subseteq seen
       /\ next' = k + 1
  /\ UNCHANGED seen

Next == Deliver \/ Commit

Spec == Init /\ [][Next]_feed

-----------------------------------------------------------------------------

\* The cursor leaves no height behind that was not delivered, and nothing
\* that was delivered is taken back.
NothingSkipped ==
  [][/\ seen \subseteq seen' /\ next' >= next
     /\ next > 0 => next..(next' - 1) \subseteq seen']_feed

=============================================================================
