---------------------------- MODULE ProcessRing ----------------------------
(***************************************************************************)
(* ProcessSharedRing<T> of src/ring.rs: a ring over preallocated slots at  *)
(* a process-site boundary.  Calls take the ring by unique reference, so   *)
(* each is one step; only cancel, which loops over try_pop until that      *)
(* returns None, is taken one iteration at a time, because the loop ends   *)
(* at the first None and not when len reaches zero.                        *)
(*                                                                         *)
(* Counters are the code's saturating ones: StatMax stands for u64::MAX.   *)
(***************************************************************************)
EXTENDS Naturals, Sequences

CONSTANTS
  Item,      \* the values producers push
  None,      \* an empty slot
  Capacity,  \* number of slots
  StatMax    \* where the statistics saturate

ASSUME RingAssumption ==
  /\ None \notin Item
  /\ Capacity \in Nat \ {0}
  /\ StatMax \in Nat \ {0}

VARIABLES
  slots,       \* Vec<Option<T>>
  head,        \* index of the oldest item
  len,         \* number of buffered items
  closed,      \* the ring's own flag
  stats,       \* StreamStats
  cancelling,  \* cancel() is inside its draining loop
  reply        \* what the last finished call returned

vars == <<slots, head, len, closed, stats, cancelling, reply>>

Index == 0 .. Capacity - 1

Reply(tag, item) == [tag |-> tag, item |-> item]
Done == Reply("done", None)

Saturating(n) == IF n < StatMax THEN n + 1 ELSE n

Init ==
  /\ slots = [i \in Index |-> None]
  /\ head = 0
  /\ len = 0
  /\ closed = FALSE
  /\ stats = [pushed |-> 0, accepted |-> 0, dropped_newest |-> 0, yielded |-> 0,
              closed |-> FALSE, cancelled |-> FALSE]
  /\ cancelling = FALSE
  /\ reply = Done

-----------------------------------------------------------------------------
(* try_push: one action for each of its three returns.                     *)

PushClosed(item) ==
  /\ ~cancelling
  /\ closed
  /\ stats' = [stats EXCEPT !.pushed = Saturating(@), !.closed = TRUE]
  /\ reply' = Reply("closed", item)
  /\ UNCHANGED <<slots, head, len, closed, cancelling>>

PushFull(item) ==
  /\ ~cancelling
  /\ ~closed
  /\ len = Capacity
  /\ stats' = [stats EXCEPT !.pushed = Saturating(@), !.dropped_newest = Saturating(@)]
  /\ reply' = Reply("dropped_newest", item)
  /\ UNCHANGED <<slots, head, len, closed, cancelling>>

\* Fault: the tail is computed from the last buffered item.
TailOffByOne == (head + len + 1) % Capacity

TailIndex == (head + len) % Capacity

PushAccepted(item) ==
  /\ ~cancelling
  /\ ~closed
  /\ len # Capacity
  /\ slots' = [slots EXCEPT ![TailIndex] = item]
  /\ len' = len + 1
  /\ stats' = [stats EXCEPT !.pushed = Saturating(@), !.accepted = Saturating(@)]
  /\ reply' = Reply("accepted", None)
  /\ UNCHANGED <<head, closed, cancelling>>

TryPush(item) == PushClosed(item) \/ PushFull(item) \/ PushAccepted(item)

-----------------------------------------------------------------------------
(* try_pop *)

\* Fault: the item is copied out and stays in its slot.
TakeHeadByCopy ==
  /\ len # 0
  /\ slots' = slots
  /\ head' = (head + 1) % Capacity
  /\ len' = len - 1
  /\ stats' = [stats EXCEPT !.yielded = IF slots[head] # None THEN Saturating(@) ELSE @]

\* Fault: a popped item is not counted.
TakeHeadUncounted ==
  /\ len # 0
  /\ slots' = [slots EXCEPT ![head] = None]
  /\ head' = (head + 1) % Capacity
  /\ len' = len - 1
  /\ UNCHANGED stats

\* The part of try_pop past its early return; the taken value is slots[head].
TakeHead ==
  /\ len # 0
  /\ slots' = [slots EXCEPT ![head] = None]
  /\ head' = (head + 1) % Capacity
  /\ len' = len - 1
  /\ stats' = [stats EXCEPT !.yielded = IF slots[head] # None THEN Saturating(@) ELSE @]

PopTaken ==
  /\ ~cancelling
  /\ TakeHead
  /\ reply' = Reply(IF slots[head] # None THEN "popped" ELSE "empty", slots[head])
  /\ UNCHANGED <<closed, cancelling>>

PopEmpty ==
  /\ ~cancelling
  /\ len = 0
  /\ reply' = Reply("empty", None)
  /\ UNCHANGED <<slots, head, len, closed, stats, cancelling>>

TryPop == PopTaken \/ PopEmpty

-----------------------------------------------------------------------------
(* close and cancel *)

Close ==
  /\ ~cancelling
  /\ closed' = TRUE
  /\ stats' = [stats EXCEPT !.closed = TRUE]
  /\ reply' = Done
  /\ UNCHANGED <<slots, head, len, cancelling>>

CancelBegin ==
  /\ ~cancelling
  /\ cancelling' = TRUE
  /\ UNCHANGED <<slots, head, len, closed, stats, reply>>

\* `while self.try_pop().is_some() {}`: an iteration that took an item.
CancelPop ==
  /\ cancelling
  /\ TakeHead
  /\ slots[head] # None
  /\ UNCHANGED <<closed, cancelling, reply>>

\* The iteration whose try_pop returned None ends the loop: the ring was
\* empty, or (were the window to hold a hole) the slot taken was None.
CancelEnd ==
  /\ cancelling
  /\ len = 0 \/ slots[head] = None
  /\ head' = IF len = 0 THEN head ELSE (head + 1) % Capacity
  /\ len' = IF len = 0 THEN len ELSE len - 1
  /\ closed' = TRUE
  /\ stats' = [stats EXCEPT !.closed = TRUE, !.cancelled = TRUE]
  /\ cancelling' = FALSE
  /\ reply' = Done
  /\ UNCHANGED slots

Cancel == CancelBegin \/ CancelPop \/ CancelEnd

Next ==
  \/ \E item \in Item : TryPush(item)
  \/ TryPop
  \/ Close
  \/ Cancel

\* cancel() is a loop in one call: once entered it keeps running.
Spec == Init /\ [][Next]_vars /\ WF_vars(CancelPop \/ CancelEnd)

-----------------------------------------------------------------------------
(* Properties *)

\* Every slot index stays inside the allocation, the length never exceeds the
\* capacity and every counter stays below its saturation point.
TypeOK ==
  /\ slots \in [Index -> Item \cup {None}]
  /\ head \in Index
  /\ len \in 0 .. Capacity
  /\ closed \in BOOLEAN
  /\ stats \in [pushed : 0 .. StatMax, accepted : 0 .. StatMax,
                dropped_newest : 0 .. StatMax, yielded : 0 .. StatMax,
                closed : BOOLEAN, cancelled : BOOLEAN]
  /\ cancelling \in BOOLEAN
  /\ reply \in [tag : {"accepted", "dropped_newest", "closed", "popped", "empty", "done"},
                item : Item \cup {None}]

\* How far slot i lies behind the head, going round the ring.
Offset(i) == IF i >= head THEN i - head ELSE (i + Capacity) - head

\* The slots that hold an item are exactly the len slots from head on: no hole
\* that would end cancel's loop early or make try_pop return None on a
\* non-empty ring, and no item kept alive outside the window.
WindowFilled == \A i \in Index : slots[i] # None <=> Offset(i) < len

\* Until a counter saturates every accepted item was popped or is still
\* buffered, and while the ring is open every push was accepted or handed back.
Conservation ==
  /\ stats.accepted < StatMax => stats.accepted = stats.yielded + len
  /\ ~stats.closed /\ stats.pushed < StatMax =>
        stats.pushed = stats.accepted + stats.dropped_newest

\* The buffered items, oldest first.
Contents == [k \in 1 .. len |-> slots[(head + k - 1) % Capacity]]

\* The ring implements the bounded FIFO.  While cancel() drains, the FIFO is
\* already empty and closed: the loop is one event of the specification.
Fifo == INSTANCE BoundedFifo WITH
  queue  <- IF cancelling THEN <<>> ELSE Contents,
  closed <- closed \/ cancelling,
  reply  <- IF cancelling THEN Done ELSE reply

ImplementsFifo == Fifo!FifoSpec

\* cancel() returns, and returns with nothing buffered.
CancelDrains == cancelling ~> (~cancelling /\ closed /\ len = 0)

=============================================================================
