---------------------------- MODULE BoundedFifo ----------------------------
(***************************************************************************)
(* What a bounded, non-blocking queue handle promises its callers: every   *)
(* call returns at once, a full queue hands the newest item back, a closed *)
(* queue refuses pushes but may still be drained, and cancelling empties   *)
(* it in one event.  ProcessRing implements this with head/len arithmetic  *)
(* over preallocated slots.                                                *)
(***************************************************************************)
EXTENDS Naturals, Sequences

CONSTANTS
  Item,      \* what callers push
  None,      \* the absence of an item in a reply
  Capacity   \* how many items the queue holds

VARIABLES
  queue,     \* the buffered items, oldest first
  closed,    \* pushes are refused
  reply      \* what the last finished call returned

fifoVars == <<queue, closed, reply>>

Reply(tag, item) == [tag |-> tag, item |-> item]
Done == Reply("done", None)

FifoInit ==
  /\ queue = <<>>
  /\ closed = FALSE
  /\ reply = Done

Accept(item) ==
  /\ ~closed
  /\ Len(queue) < Capacity
  /\ queue' = Append(queue, item)
  /\ reply' = Reply("accepted", None)
  /\ UNCHANGED closed

HandBack(item) ==
  /\ ~closed
  /\ Len(queue) = Capacity
  /\ reply' = Reply("dropped_newest", item)
  /\ UNCHANGED <<queue, closed>>

Refuse(item) ==
  /\ closed
  /\ reply' = Reply("closed", item)
  /\ UNCHANGED <<queue, closed>>

Yield ==
  /\ queue # <<>>
  /\ queue' = Tail(queue)
  /\ reply' = Reply("popped", Head(queue))
  /\ UNCHANGED closed

YieldNothing ==
  /\ queue = <<>>
  /\ reply' = Reply("empty", None)
  /\ UNCHANGED <<queue, closed>>

CloseFifo ==
  /\ closed' = TRUE
  /\ reply' = Done
  /\ UNCHANGED queue

CancelFifo ==
  /\ queue' = <<>>
  /\ closed' = TRUE
  /\ reply' = Done

FifoNext ==
  \/ \E item \in Item : Accept(item) \/ HandBack(item) \/ Refuse(item)
  \/ Yield
  \/ YieldNothing
  \/ CloseFifo
  \/ CancelFifo

FifoSpec == FifoInit /\ [][FifoNext]_fifoVars

=============================================================================
