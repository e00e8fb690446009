------------------------- MODULE ProcessRing_proofs -------------------------
(***************************************************************************)
(* Proofs about ProcessRing for every capacity, item set and saturation    *)
(* point: its inductive invariant, and that it implements BoundedFifo.     *)
(***************************************************************************)
EXTENDS ProcessRing, SequenceTheorems, TLAPS

\* The inductive invariant: the conjunction of the checked invariants.  The
\* window is what makes a pop return an item; the types bound the arithmetic.
IInv == TypeOK /\ WindowFilled /\ Conservation

-----------------------------------------------------------------------------
(* Index arithmetic *)

\* An index that ran past the last slot at most once wraps to its remainder:
\* the only use src/ring.rs makes of `%`.
LEMMA WrapOnce ==
  ASSUME NEW x \in Nat, x < 2 * Capacity
  PROVE  x % Capacity = IF x < Capacity THEN x ELSE x - Capacity
BY RingAssumption, SMT

\* The slot k behind the head is a slot, and lies at offset k.
LEMMA SlotAtOffset ==
  ASSUME head \in Index, NEW k \in 0 .. Capacity - 1
  PROVE  /\ (head + k) % Capacity \in Index
         /\ Offset((head + k) % Capacity) = k
<1>1. head \in Nat /\ k \in Nat /\ head + k \in Nat /\ head + k < 2 * Capacity
  BY RingAssumption DEF Index
<1>2. (head + k) % Capacity = IF head + k < Capacity THEN head + k ELSE (head + k) - Capacity
  BY <1>1, WrapOnce
<1> QED BY <1>1, <1>2, RingAssumption DEF Index, Offset

\* Two slots at the same offset are the same slot.
LEMMA OffsetInjective ==
  ASSUME head \in Index, NEW i \in Index, NEW j \in Index, Offset(i) = Offset(j)
  PROVE  i = j
BY RingAssumption DEF Index, Offset

\* The slot a push fills is a slot outside the window.
LEMMA TailOutsideWindow ==
  ASSUME TypeOK, len # Capacity
  PROVE  TailIndex \in Index /\ Offset(TailIndex) = len
<1>1. len \in 0 .. Capacity - 1
  BY RingAssumption DEF TypeOK
<1> QED BY <1>1, SlotAtOffset DEF TypeOK, TailIndex

\* The head slot of a non-empty ring holds an item.
LEMMA HeadFilled ==
  ASSUME TypeOK, WindowFilled, len # 0
  PROVE  slots[head] \in Item /\ slots[head] # None
<1>1. head \in Index /\ Offset(head) = 0 /\ 0 < len
  BY RingAssumption DEF TypeOK, Offset, Index
<1> QED BY <1>1, RingAssumption DEF WindowFilled, TypeOK

\* A saturating counter stays in its range and moves unless it is saturated.
LEMMA SaturatingBounds ==
  ASSUME NEW n \in 0 .. StatMax
  PROVE  /\ Saturating(n) \in 0 .. StatMax
         /\ n < StatMax => Saturating(n) = n + 1
BY RingAssumption DEF Saturating

-----------------------------------------------------------------------------
(* What each part of a step does to the invariant *)

\* try_push's accepting path keeps the types and the window.
LEMMA AcceptKeeps ==
  ASSUME IInv, NEW item \in Item, PushAccepted(item)
  PROVE  IInv'
<1> USE RingAssumption
<1>1. TailIndex \in Index /\ Offset(TailIndex) = len /\ len \in 0 .. Capacity - 1
  BY TailOutsideWindow DEF IInv, TypeOK, PushAccepted
<1>2. TypeOK'
  <2>1. slots' \in [Index -> Item \cup {None}]
    BY <1>1 DEF IInv, TypeOK, PushAccepted
  <2>2. stats' \in [pushed : 0 .. StatMax, accepted : 0 .. StatMax,
                    dropped_newest : 0 .. StatMax, yielded : 0 .. StatMax,
                    closed : BOOLEAN, cancelled : BOOLEAN]
    <3>1. /\ Saturating(stats.pushed) \in 0 .. StatMax
          /\ Saturating(stats.accepted) \in 0 .. StatMax
      BY SaturatingBounds DEF IInv, TypeOK
    <3> QED BY <3>1 DEF IInv, TypeOK, PushAccepted
  <2> QED BY <1>1, <2>1, <2>2 DEF IInv, TypeOK, PushAccepted, Reply
<1>3. WindowFilled'
  <2> SUFFICES ASSUME NEW i \in Index PROVE slots'[i] # None <=> Offset(i)' < len'
    BY DEF WindowFilled
  <2>1. Offset(i)' = Offset(i)
    BY DEF Offset, PushAccepted
  <2>2. CASE i = TailIndex
    BY <1>1, <2>1, <2>2 DEF IInv, TypeOK, PushAccepted
  <2>3. CASE i # TailIndex
    <3>1. Offset(i) # len
      BY <1>1, <2>3, OffsetInjective DEF IInv, TypeOK
    <3>2. slots'[i] = slots[i] /\ len' = len + 1 /\ Offset(i) \in Nat
      BY <2>3 DEF IInv, TypeOK, PushAccepted, Offset, Index
    <3> QED BY <1>1, <2>1, <3>1, <3>2 DEF IInv, WindowFilled
  <2> QED BY <2>2, <2>3
<1>4. Conservation'
  BY <1>1 DEF IInv, TypeOK, Conservation, PushAccepted, Saturating
<1> QED BY <1>2, <1>3, <1>4 DEF IInv

\* Taking the head item keeps the types, the window and the balance.
LEMMA TakeKeeps ==
  ASSUME IInv, TakeHead
  PROVE  /\ slots' \in [Index -> Item \cup {None}]
         /\ head' \in Index
         /\ len' \in 0 .. Capacity
         /\ stats' \in [pushed : 0 .. StatMax, accepted : 0 .. StatMax,
                        dropped_newest : 0 .. StatMax, yielded : 0 .. StatMax,
                        closed : BOOLEAN, cancelled : BOOLEAN]
         /\ WindowFilled'
         /\ Conservation'
<1> USE RingAssumption
<1>1. slots[head] \in Item /\ slots[head] # None /\ head \in Index /\ len \in 1 .. Capacity
  BY HeadFilled DEF IInv, TypeOK, TakeHead
<1>2. head + 1 \in Nat /\ head + 1 < 2 * Capacity
  BY <1>1 DEF Index
<1>3. head' = IF head + 1 < Capacity THEN head + 1 ELSE (head + 1) - Capacity
  BY <1>2, WrapOnce DEF TakeHead
<1>4. head' \in Index
  BY <1>1, <1>3 DEF Index
<1>5. slots' \in [Index -> Item \cup {None}] /\ len' \in 0 .. Capacity
  BY <1>1 DEF IInv, TypeOK, TakeHead
<1>6. stats' = [stats EXCEPT !.yielded = Saturating(stats.yielded)]
  BY <1>1 DEF TakeHead
<1>7. stats' \in [pushed : 0 .. StatMax, accepted : 0 .. StatMax,
                  dropped_newest : 0 .. StatMax, yielded : 0 .. StatMax,
                  closed : BOOLEAN, cancelled : BOOLEAN]
  <2>1. Saturating(stats.yielded) \in 0 .. StatMax
    BY SaturatingBounds DEF IInv, TypeOK
  <2> QED BY <1>6, <2>1 DEF IInv, TypeOK
<1>8. WindowFilled'
  <2> SUFFICES ASSUME NEW i \in Index PROVE slots'[i] # None <=> Offset(i)' < len'
    BY DEF WindowFilled
  <2>1. CASE i = head
    <3>1. slots'[i] = None
      BY <2>1, <1>1 DEF TakeHead, IInv, TypeOK
    <3>2. Offset(i)' = Capacity - 1
      BY <1>1, <1>3, <2>1 DEF Offset, Index
    <3> QED BY <3>1, <3>2, <1>1 DEF TakeHead
  <2>2. CASE i # head
    <3>1. slots'[i] = slots[i]
      BY <2>2 DEF TakeHead, IInv, TypeOK
    <3>2. Offset(i)' = Offset(i) - 1 /\ Offset(i) \in Nat
      BY <1>1, <1>3, <2>2 DEF Offset, Index
    <3> QED BY <3>1, <3>2, <1>1 DEF TakeHead, IInv, WindowFilled
  <2> QED BY <2>1, <2>2
<1>9. Conservation'
  BY <1>1, <1>6 DEF IInv, TypeOK, Conservation, TakeHead, Saturating
<1> QED BY <1>4, <1>5, <1>7, <1>8, <1>9

-----------------------------------------------------------------------------
(* The invariant *)

\* A new ring is empty, so its slots, length and counters satisfy the invariant.
LEMMA InitInv == Init => IInv
<1> SUFFICES ASSUME Init PROVE IInv
  OBVIOUS
<1> USE RingAssumption
<1>1. TypeOK
  <2>1. 0 \in Index /\ 0 \in 0 .. Capacity /\ 0 \in 0 .. StatMax
    BY DEF Index
  <2>2. slots \in [Index -> Item \cup {None}]
    BY DEF Init
  <2>3. stats \in [pushed : 0 .. StatMax, accepted : 0 .. StatMax,
                   dropped_newest : 0 .. StatMax, yielded : 0 .. StatMax,
                   closed : BOOLEAN, cancelled : BOOLEAN]
    BY <2>1 DEF Init
  <2> QED BY <2>1, <2>2, <2>3 DEF Init, TypeOK, Reply, Done
<1>2. WindowFilled
  BY DEF Init, WindowFilled, Offset, Index
<1>3. Conservation
  BY DEF Init, Conservation
<1> QED BY <1>1, <1>2, <1>3 DEF IInv

\* Every call, and every iteration of cancel's loop, preserves the invariant.
LEMMA StepInv == IInv /\ [Next]_vars => IInv'
<1> SUFFICES ASSUME IInv, [Next]_vars PROVE IInv'
  OBVIOUS
<1> USE RingAssumption
<1>1. ASSUME NEW item \in Item, PushClosed(item) PROVE IInv'
  <2>1. Saturating(stats.pushed) \in 0 .. StatMax
    BY SaturatingBounds DEF IInv, TypeOK
  <2>2. TypeOK'
    BY <1>1, <2>1 DEF IInv, TypeOK, PushClosed, Reply
  <2>3. WindowFilled'
    BY <1>1 DEF IInv, WindowFilled, Offset, PushClosed
  <2>4. Conservation'
    BY <1>1 DEF IInv, TypeOK, Conservation, PushClosed
  <2> QED BY <2>2, <2>3, <2>4 DEF IInv
<1>2. ASSUME NEW item \in Item, PushFull(item) PROVE IInv'
  <2>1. /\ Saturating(stats.pushed) \in 0 .. StatMax
        /\ Saturating(stats.dropped_newest) \in 0 .. StatMax
    BY SaturatingBounds DEF IInv, TypeOK
  <2>2. TypeOK'
    BY <1>2, <2>1 DEF IInv, TypeOK, PushFull, Reply
  <2>3. WindowFilled'
    BY <1>2 DEF IInv, WindowFilled, Offset, PushFull
  <2>4. Conservation'
    BY <1>2 DEF IInv, TypeOK, Conservation, PushFull, Saturating
  <2> QED BY <2>2, <2>3, <2>4 DEF IInv
<1>3. ASSUME NEW item \in Item, PushAccepted(item) PROVE IInv'
  BY <1>3, AcceptKeeps
<1>4. CASE PopTaken
  BY <1>4, TakeKeeps, HeadFilled DEF IInv, TypeOK, PopTaken, TakeHead, Reply
<1>5. CASE PopEmpty
  <2>1. TypeOK'
    BY <1>5 DEF IInv, TypeOK, PopEmpty, Reply
  <2> QED BY <1>5, <2>1 DEF IInv, WindowFilled, Offset, Conservation, PopEmpty
<1>6. CASE Close
  <2>1. TypeOK'
    BY <1>6 DEF IInv, TypeOK, Close, Done, Reply
  <2>2. WindowFilled'
    BY <1>6 DEF IInv, WindowFilled, Offset, Close
  <2>3. Conservation'
    BY <1>6 DEF IInv, TypeOK, Conservation, Close
  <2> QED BY <2>1, <2>2, <2>3 DEF IInv
<1>7. CASE CancelBegin
  BY <1>7 DEF IInv, TypeOK, WindowFilled, Offset, Conservation, CancelBegin
<1>8. CASE CancelPop
  BY <1>8, TakeKeeps DEF IInv, TypeOK, CancelPop
<1>9. CASE CancelEnd
  <2>1. len = 0
    BY <1>9, HeadFilled DEF IInv, CancelEnd
  <2>2. TypeOK'
    BY <1>9, <2>1 DEF IInv, TypeOK, CancelEnd, Done, Reply
  <2>3. WindowFilled'
    BY <1>9, <2>1 DEF IInv, WindowFilled, Offset, CancelEnd
  <2>4. Conservation'
    BY <1>9, <2>1 DEF IInv, TypeOK, Conservation, CancelEnd
  <2> QED BY <2>2, <2>3, <2>4 DEF IInv
<1>10. CASE UNCHANGED vars
  BY <1>10 DEF vars, IInv, TypeOK, WindowFilled, Offset, Conservation
<1> QED
  BY <1>1, <1>2, <1>3, <1>4, <1>5, <1>6, <1>7, <1>8, <1>9, <1>10
     DEF Next, TryPush, TryPop, Cancel

\* In every reachable state of a ring of any capacity the indices are in
\* bounds, the window holds exactly the buffered items and no item is lost
\* from the statistics.
THEOREM RingInvariant == Spec => [](TypeOK /\ WindowFilled /\ Conservation)
<1>1. Init => IInv
  BY InitInv
<1>2. IInv /\ [Next]_vars => IInv'
  BY StepInv
<1>3. IInv => TypeOK /\ WindowFilled /\ Conservation
  BY DEF IInv
<1> QED BY <1>1, <1>2, <1>3, PTL DEF Spec

\* The statistics account for every item that try_push was given and every
\* item that try_pop and cancel took, until a counter saturates.
THEOREM RingAccounts == Spec => []Conservation
BY RingInvariant, PTL

-----------------------------------------------------------------------------
(* The ring implements the bounded FIFO *)

\* Contents as a sequence: the len items from the head on.
ContentsOK ==
  /\ Contents \in Seq(Item)
  /\ Len(Contents) = len
  /\ \A k \in 1 .. len : Contents[k] = slots[(head + k - 1) % Capacity]

\* Under the invariant the window reads as a sequence of items.
LEMMA ContentsIsSeq == IInv => ContentsOK
<1> SUFFICES ASSUME TypeOK, WindowFilled PROVE ContentsOK
  BY DEF IInv
<1> USE RingAssumption
<1>1. \A k \in 1 .. len : slots[(head + k - 1) % Capacity] \in Item
  <2> TAKE k \in 1 .. len
  <2>1. k - 1 \in 0 .. Capacity - 1 /\ k - 1 < len /\ head \in Index
    BY DEF TypeOK
  <2>2. head + k - 1 = head + (k - 1)
    BY <2>1 DEF Index
  <2>3. /\ (head + (k - 1)) % Capacity \in Index
        /\ Offset((head + (k - 1)) % Capacity) = k - 1
    BY <2>1, SlotAtOffset
  <2> QED BY <2>1, <2>2, <2>3 DEF WindowFilled, TypeOK
<1>2. Contents \in [1 .. len -> Item] /\ len \in Nat
  BY <1>1 DEF Contents, TypeOK
<1>3. Contents \in Seq(Item)
  BY <1>2, SeqDef
<1>4. Len(Contents) = len
  BY <1>2, <1>3, LenProperties
<1> QED BY <1>3, <1>4 DEF Contents, ContentsOK

\* Accepting an item appends it to the contents.
LEMMA AcceptAppends ==
  ASSUME IInv, NEW item \in Item, PushAccepted(item)
  PROVE  Contents' = Append(Contents, item)
<1> USE RingAssumption
<1>1. IInv'
  BY AcceptKeeps
<1>2. /\ Contents' \in Seq(Item)
      /\ Len(Contents') = len + 1
      /\ \A k \in 1 .. len + 1 : Contents'[k] = slots'[(head + k - 1) % Capacity]
  <2>1. IInv' => ContentsOK'
    BY ContentsIsSeq, PTL
  <2> QED BY <1>1, <2>1 DEF PushAccepted, ContentsOK
<1>3. /\ Contents \in Seq(Item)
      /\ Len(Contents) = len
      /\ \A k \in 1 .. len : Contents[k] = slots[(head + k - 1) % Capacity]
  BY ContentsIsSeq DEF ContentsOK
<1>4. TailIndex \in Index /\ len \in 0 .. Capacity - 1 /\ head \in Index
  BY TailOutsideWindow DEF IInv, TypeOK, PushAccepted
<1>5. \A k \in 1 .. len + 1 :
        slots'[(head + k - 1) % Capacity] =
          IF k = len + 1 THEN item ELSE slots[(head + k - 1) % Capacity]
  <2> TAKE k \in 1 .. len + 1
  <2>1. k - 1 \in 0 .. Capacity - 1 /\ head + k - 1 = head + (k - 1)
    BY <1>4 DEF Index
  <2>2. /\ (head + (k - 1)) % Capacity \in Index
        /\ Offset((head + (k - 1)) % Capacity) = k - 1
    BY <1>4, <2>1, SlotAtOffset
  <2>3. k # len + 1 => (head + (k - 1)) % Capacity # TailIndex
    BY <1>4, <2>1, <2>2, TailOutsideWindow DEF IInv, TypeOK, PushAccepted
  <2>4. k = len + 1 => (head + (k - 1)) % Capacity = TailIndex
    BY <1>4, <2>1 DEF TailIndex
  <2> QED BY <2>1, <2>2, <2>3, <2>4, <1>4 DEF IInv, TypeOK, PushAccepted
<1>6. Append(Contents, item) \in Seq(Item) /\ Len(Append(Contents, item)) = len + 1
  BY <1>3, <1>4
<1>7. /\ \A k \in 1 .. len : Append(Contents, item)[k] = Contents[k]
      /\ Append(Contents, item)[len + 1] = item
  BY <1>3, <1>4
<1>8. ASSUME NEW k \in 1 .. len + 1 PROVE Contents'[k] = Append(Contents, item)[k]
  <2>1. Contents'[k] = slots'[(head + k - 1) % Capacity]
    BY <1>2
  <2>2. CASE k = len + 1
    BY <2>1, <2>2, <1>5, <1>7
  <2>3. CASE k # len + 1
    <3>1. k \in 1 .. len
      BY <2>3, <1>4
    <3>2. slots'[(head + k - 1) % Capacity] = slots[(head + k - 1) % Capacity]
      BY <2>3, <1>5
    <3> QED BY <2>1, <3>1, <3>2, <1>3, <1>7
  <2> QED BY <2>2, <2>3
<1>9. \A k \in 1 .. len + 1 : Contents'[k] = Append(Contents, item)[k]
  BY <1>8
<1> QED BY <1>2, <1>6, <1>9, SeqEqual

\* Taking the head item takes the first of the contents.
LEMMA TakeTails ==
  ASSUME IInv, TakeHead, UNCHANGED closed
  PROVE  /\ Contents # <<>>
         /\ Head(Contents) = slots[head]
         /\ Contents' = Tail(Contents)
<1> USE RingAssumption
<1>1. /\ slots' \in [Index -> Item \cup {None}] /\ head' \in Index
      /\ len' \in 0 .. Capacity /\ WindowFilled'
  BY TakeKeeps
<1>2. /\ Contents \in Seq(Item)
      /\ Len(Contents) = len
      /\ \A k \in 1 .. len : Contents[k] = slots[(head + k - 1) % Capacity]
  BY ContentsIsSeq DEF ContentsOK
<1>3. len \in 1 .. Capacity /\ head \in Index /\ len' = len - 1
  BY DEF IInv, TypeOK, TakeHead
<1>4. Contents # <<>>
  BY <1>2, <1>3
<1>5. Head(Contents) = slots[head]
  <2>1. (head + 1 - 1) % Capacity = head
    BY <1>3, WrapOnce DEF Index
  <2> QED BY <1>2, <1>3, <1>4, <2>1
<1>6. \A k \in 1 .. len - 1 :
        slots'[(head' + k - 1) % Capacity] = slots[(head + (k + 1) - 1) % Capacity]
  <2> TAKE k \in 1 .. len - 1
  <2>1. k \in 0 .. Capacity - 1 /\ k # 0 /\ k - 1 \in 0 .. Capacity - 1
    BY <1>3
  <2>2. /\ (head + k) % Capacity \in Index
        /\ Offset((head + k) % Capacity) = k
    BY <1>3, <2>1, SlotAtOffset
  <2>3. (head + k) % Capacity # head
    BY <1>3, <2>1, <2>2 DEF Offset, Index
  <2>4. head' = IF head + 1 < Capacity THEN head + 1 ELSE 0
    <3>1. head + 1 \in Nat /\ head + 1 < 2 * Capacity /\ head < Capacity
      BY <1>3 DEF Index
    <3>2. (head + 1) % Capacity =
            IF head + 1 < Capacity THEN head + 1 ELSE (head + 1) - Capacity
      BY <3>1, WrapOnce
    <3>3. head + 1 < Capacity \/ head + 1 = Capacity
      BY <1>3 DEF Index
    <3> QED BY <1>3, <3>2, <3>3 DEF TakeHead, Index
  <2>5. (head' + k - 1) % Capacity = (head + k) % Capacity
    <3>1. head + k \in Nat /\ head + k < 2 * Capacity
      BY <1>3, <2>1 DEF Index
    <3>2. (head + k) % Capacity = IF head + k < Capacity THEN head + k ELSE (head + k) - Capacity
      BY <3>1, WrapOnce
    <3>3. head' + k - 1 \in Nat /\ head' + k - 1 < 2 * Capacity
      BY <1>3, <2>1, <2>4 DEF Index
    <3>4. (head' + k - 1) % Capacity =
            IF head' + k - 1 < Capacity THEN head' + k - 1 ELSE (head' + k - 1) - Capacity
      BY <3>3, WrapOnce
    <3> QED BY <3>2, <3>4, <2>4, <2>1, <1>3 DEF Index
  <2>6. head + (k + 1) - 1 = head + k
    BY <1>3, <2>1 DEF Index
  <2> QED BY <2>2, <2>3, <2>5, <2>6 DEF TakeHead, IInv, TypeOK
<1>7. /\ Tail(Contents) \in Seq(Item)
      /\ Len(Tail(Contents)) = len - 1
      /\ \A k \in 1 .. len - 1 : Tail(Contents)[k] = Contents[k + 1]
  BY <1>2, <1>3, <1>4, HeadTailProperties
<1>8. /\ Contents' \in Seq(Item)
      /\ Len(Contents') = len - 1
      /\ \A k \in 1 .. len - 1 : Contents'[k] = slots'[(head' + k - 1) % Capacity]
  <2>1. \A k \in 1 .. len' : slots'[(head' + k - 1) % Capacity] \in Item
    <3> TAKE k \in 1 .. len'
    <3>1. k \in 1 .. len - 1 /\ k + 1 \in 1 .. len
      BY <1>3
    <3>2. slots'[(head' + k - 1) % Capacity] = Contents[k + 1]
      BY <1>2, <1>6, <3>1
    <3> QED BY <1>2, <3>1, <3>2, ElementOfSeq
  <2>2. Contents' \in [1 .. len' -> Item] /\ len' \in Nat
    BY <1>1, <2>1 DEF Contents
  <2>3. Contents' \in Seq(Item)
    BY <2>2, SeqDef
  <2> QED BY <1>3, <2>2, <2>3, LenProperties DEF Contents
<1>9. Contents' = Tail(Contents)
  <2>1. \A k \in 1 .. len - 1 : Contents'[k] = Tail(Contents)[k]
    <3> TAKE k \in 1 .. len - 1
    <3>1. k + 1 \in 1 .. len
      BY <1>3
    <3> QED BY <1>2, <1>6, <1>7, <1>8, <3>1
  <2> QED BY <1>7, <1>8, <2>1, SeqEqual
<1> QED BY <1>4, <1>5, <1>9

\* An empty ring has empty contents.
LEMMA EmptyContents ==
  ASSUME IInv, len = 0
  PROVE  Contents = <<>>
BY ContentsIsSeq, EmptySeq DEF ContentsOK

\* A new ring is an empty, open FIFO.
LEMMA InitRefines == Init => Fifo!FifoInit
<1> SUFFICES ASSUME Init PROVE Fifo!FifoInit
  OBVIOUS
<1>1. Contents = <<>>
  BY InitInv, EmptyContents DEF Init
<1> QED BY <1>1 DEF Init, Fifo!FifoInit, Fifo!Done, Fifo!Reply, Done, Reply

\* Every step of the ring is a step of the FIFO or leaves it as it is; cancel's
\* loop becomes one step.
LEMMA StepRefines == IInv /\ [Next]_vars => [Fifo!FifoNext]_(Fifo!fifoVars)
<1> SUFFICES ASSUME IInv, [Next]_vars PROVE [Fifo!FifoNext]_(Fifo!fifoVars)
  OBVIOUS
<1> USE RingAssumption DEF Fifo!Reply, Fifo!Done, Reply, Done
<1>1. /\ Contents \in Seq(Item)
      /\ Len(Contents) = len
  BY ContentsIsSeq DEF ContentsOK
<1>2. ASSUME NEW item \in Item, PushClosed(item) PROVE Fifo!Refuse(item)
  BY <1>2 DEF PushClosed, Fifo!Refuse, Contents
<1>3. ASSUME NEW item \in Item, PushFull(item) PROVE Fifo!HandBack(item)
  BY <1>1, <1>3 DEF PushFull, Fifo!HandBack, Contents
<1>4. ASSUME NEW item \in Item, PushAccepted(item) PROVE Fifo!Accept(item)
  <2>1. Contents' = Append(Contents, item)
    BY <1>4, AcceptAppends
  <2>2. Len(Contents) < Capacity
    BY <1>1, <1>4 DEF PushAccepted, IInv, TypeOK
  <2> QED BY <1>4, <2>1, <2>2 DEF PushAccepted, Fifo!Accept
<1>5. CASE PopTaken
  <2>1. Contents # <<>> /\ Head(Contents) = slots[head] /\ Contents' = Tail(Contents)
    BY <1>5, TakeTails DEF PopTaken
  <2>2. slots[head] # None
    BY <1>5, HeadFilled DEF IInv, PopTaken, TakeHead
  <2>3. Fifo!Yield
    BY <1>5, <2>1, <2>2 DEF PopTaken, Fifo!Yield
  <2> QED BY <2>3 DEF Fifo!FifoNext
<1>6. CASE PopEmpty
  <2>1. Contents = <<>> /\ Contents' = Contents
    BY <1>6, EmptyContents DEF PopEmpty, Contents
  <2>2. Fifo!YieldNothing
    BY <1>6, <2>1 DEF PopEmpty, Fifo!YieldNothing
  <2> QED BY <2>2 DEF Fifo!FifoNext
<1>7. CASE Close
  <2>1. Fifo!CloseFifo
    BY <1>7 DEF Close, Fifo!CloseFifo, Contents
  <2> QED BY <2>1 DEF Fifo!FifoNext
<1>8. CASE CancelBegin
  <2>1. Fifo!CancelFifo
    BY <1>8 DEF CancelBegin, Fifo!CancelFifo
  <2> QED BY <2>1 DEF Fifo!FifoNext
<1>9. CASE CancelPop
  BY <1>9 DEF CancelPop, Fifo!fifoVars
<1>10. CASE CancelEnd
  <2>1. len = 0
    BY <1>10, HeadFilled DEF IInv, CancelEnd
  <2>2. Contents = <<>> /\ Contents' = Contents
    BY <1>10, <2>1, EmptyContents DEF CancelEnd, Contents
  <2> QED BY <1>10, <2>2 DEF CancelEnd, Fifo!fifoVars
<1>11. CASE UNCHANGED vars
  BY <1>11 DEF vars, Contents, Fifo!fifoVars
<1> QED
  BY <1>2, <1>3, <1>4, <1>5, <1>6, <1>7, <1>8, <1>9, <1>10, <1>11
     DEF Next, TryPush, TryPop, Cancel, Fifo!FifoNext

\* A ring of any capacity behaves, call by call and reply by reply, as the
\* bounded FIFO: order kept, newest handed back when full, refusal once
\* closed, and cancel() as one emptying event.
THEOREM RingImplementsFifo == Spec => ImplementsFifo
<1>1. Init => Fifo!FifoInit
  BY InitRefines
<1>2. IInv /\ [Next]_vars => [Fifo!FifoNext]_(Fifo!fifoVars)
  BY StepRefines
<1>3. Spec => []IInv
  BY InitInv, StepInv, PTL DEF Spec
<1> QED BY <1>1, <1>2, <1>3, PTL DEF Spec, ImplementsFifo, Fifo!FifoSpec

=============================================================================
