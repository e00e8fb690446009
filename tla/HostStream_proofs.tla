-------------------------- MODULE HostStream_proofs --------------------------
(***************************************************************************)
(* How a host stream shuts down and in which order it delivers, for every  *)
(* number of callback threads and handles, every capacity and every        *)
(* cassette.                                                               *)
(*                                                                         *)
(* Neither ShutdownOnce nor QuietBeforeShutdown is inductive.  What carries *)
(* both is that the flag counts the one shutdown, and that the queue was   *)
(* closed on every way to the driver, and is never opened again.           *)
(*                                                                         *)
(* DeliveredInOrder needs to know the queue: what was delivered and what   *)
(* is queued are one sequence in which the numbers of each producer rise,  *)
(* below the number that producer hands in next.                           *)
(*                                                                         *)
(* ReplayReportExact is about sums over outcomes and a set of packets: the *)
(* induction needs that no packet of the cassette beyond those replayed    *)
(* has been in the queue, so that the next one counts as new.              *)
(***************************************************************************)
EXTENDS HostStream, FiniteSetTheorems, WellFoundedInduction, TLAPS

\* The flag of HostDriverHandle is set exactly when the driver was asked.
FlagCounts == flag \in BOOLEAN /\ shutdowns = IF flag THEN 1 ELSE 0

\* Whoever is on the way to the driver, or has been there, closed the queue.
ClosedFirst == call.stage \in {"driver", "stopping"} \/ flag => qclosed = TRUE

IInv == FlagCounts /\ ClosedFirst /\ OkMeansShutdownTried

-----------------------------------------------------------------------------

\* A closed queue takes no packet and stays closed.
LEMMA ClosedPush ==
  ASSUME NEW p, PushPacket(p)
  PROVE  qclosed' = qclosed /\ (qclosed => entered' = entered)
<1>1. qclosed => PushOutcome = "closed"
  BY DEF PushOutcome
<1> QED BY <1>1 DEF PushPacket

\* What a callback, a port, the consumer, a replay or a holder of the queue
\* does leaves the handles' side alone and never opens the queue.
LEMMA DataStep ==
  ASSUME CallbackNext \/ QueueNext \/ ReplayNext
  PROVE  /\ UNCHANGED hostVars
         /\ qclosed => qclosed' = qclosed /\ entered' = entered
<1> USE DEF queueVars
<1>1. ASSUME NEW c \in Callback, NEW media \in BOOLEAN, CallbackPacket(c, media)
      PROVE  UNCHANGED hostVars /\ (qclosed => qclosed' = qclosed /\ entered' = entered)
  BY <1>1, ClosedPush DEF CallbackPacket
<1>2. ASSUME NEW c \in Callback, ReceivePacket(c)
      PROVE  UNCHANGED hostVars /\ (qclosed => qclosed' = qclosed /\ entered' = entered)
  BY <1>2, ClosedPush DEF ReceivePacket
<1>3. ASSUME NEW limit \in 1 .. Capacity, Drain(limit)
      PROVE  UNCHANGED <<hostVars, qclosed, entered>>
  BY <1>3 DEF Drain
<1>4. CASE QueueClose
  BY <1>4 DEF QueueClose
<1>5. CASE QueueCancel
  BY <1>5 DEF QueueCancel
<1>6. CASE ReplayBegin
  BY <1>6 DEF ReplayBegin
<1>7. CASE ReplayItem
  BY <1>7, ClosedPush DEF ReplayItem
<1>8. CASE ReplayEnd
  BY <1>8 DEF ReplayEnd
<1> QED
  BY <1>1, <1>2, <1>3, <1>4, <1>5, <1>6, <1>7, <1>8 DEF CallbackNext, QueueNext, ReplayNext

-----------------------------------------------------------------------------
(* The invariant *)

\* No driver has been asked when a stream is being built.
LEMMA InitInv == Init => IInv
<1> SUFFICES ASSUME Init PROVE IInv
  OBVIOUS
<1>1. flag = FALSE /\ shutdowns = 0 /\ result = "none" /\ call.stage = "none"
  BY DEF Init, Idle
<1> QED BY <1>1 DEF IInv, FlagCounts, ClosedFirst, OkMeansShutdownTried

\* Every step of every thread preserves the invariant.
LEMMA StepInv == IInv /\ [Next]_vars => IInv'
<1> SUFFICES ASSUME IInv, [Next]_vars PROVE IInv'
  OBVIOUS
<1> USE DEF IInv, FlagCounts, ClosedFirst, OkMeansShutdownTried, queueVars, Idle
<1>1. CASE CallbackNext \/ QueueNext \/ ReplayNext
  <2>1. UNCHANGED hostVars /\ (qclosed => qclosed' = qclosed)
    BY <1>1, DataStep
  <2> QED BY <2>1 DEF hostVars
<1>2. CASE OpenFails
  BY <1>2 DEF OpenFails
<1>3. ASSUME NEW h \in Handle, OpenSucceeds(h) PROVE IInv'
  BY <1>3 DEF OpenSucceeds
<1>4. ASSUME NEW h \in Handle, CloneHandle(h) PROVE IInv'
  BY <1>4 DEF CloneHandle
<1>5. ASSUME NEW h \in Handle, DropHandle(h) PROVE IInv'
  BY <1>5 DEF DropHandle
<1>6. ASSUME NEW h \in Handle, CloseBegin(h) PROVE IInv'
  BY <1>6 DEF CloseBegin
<1>7. ASSUME NEW h \in Handle, CancelBegin(h) PROVE IInv'
  BY <1>7 DEF CancelBegin
<1>8. ASSUME NEW h \in Handle, CallFails(h) PROVE IInv'
  BY <1>8 DEF CallFails
<1>9. CASE ShutdownDriver
  <2>1. qclosed = TRUE /\ qclosed' = qclosed /\ driver' = driver
    BY <1>9 DEF ShutdownDriver
  <2>2. CASE driver = "none" \/ flag
    BY <1>9, <2>1, <2>2 DEF ShutdownDriver
  <2>3. CASE ~(driver = "none" \/ flag)
    <3>1. flag = FALSE /\ flag' = TRUE /\ shutdowns' = shutdowns + 1
      BY <1>9, <2>3 DEF ShutdownDriver
    <3> QED BY <2>1, <3>1
  <2> QED BY <2>2, <2>3
<1>10. CASE DriverStops
  BY <1>10 DEF DriverStops
<1>11. CASE DriverFails
  BY <1>11 DEF DriverFails
<1>12. CASE UNCHANGED vars
  BY <1>12 DEF vars, hostVars
<1> QED
  BY <1>1, <1>2, <1>3, <1>4, <1>5, <1>6, <1>7, <1>8, <1>9, <1>10, <1>11, <1>12
  DEF Next, HostNext

\* Whatever clones close and cancel, and however the driver answers, it is
\* asked to shut down at most once, and an Ok means that it was asked.
THEOREM ShutdownInvariant == Spec => [](ShutdownOnce /\ OkMeansShutdownTried)
<1>1. IInv => ShutdownOnce /\ OkMeansShutdownTried
  BY DEF IInv, FlagCounts, ShutdownOnce
<1> QED BY InitInv, StepInv, <1>1, PTL DEF Spec

\* Once the driver was asked to stop, no step lets a packet into the queue.
LEMMA StepQuiet == IInv /\ [Next]_vars => [shutdowns > 0 => UNCHANGED entered]_vars
<1> SUFFICES ASSUME IInv, Next, shutdowns > 0 PROVE entered' = entered
  OBVIOUS
<1>1. flag /\ qclosed
  BY DEF IInv, FlagCounts, ClosedFirst
<1>2. CASE CallbackNext \/ QueueNext \/ ReplayNext
  BY <1>1, <1>2, DataStep
<1>3. CASE HostNext
  BY <1>3 DEF HostNext, OpenFails, OpenSucceeds, CloneHandle, DropHandle, CloseBegin,
     CancelBegin, CallFails, ShutdownDriver, DriverStops, DriverFails, dataVars
<1> QED BY <1>2, <1>3 DEF Next

\* From the moment the driver is asked to stop, no callback that is still in
\* flight and no replay gets a packet into the queue.
THEOREM ShutdownIsQuiet == Spec => QuietBeforeShutdown
BY InitInv, StepInv, StepQuiet, PTL DEF Spec, QuietBeforeShutdown

-----------------------------------------------------------------------------
(* Delivery.  What was delivered and what is queued are one sequence: it   *)
(* only grows at the end, by a packet with a number no earlier packet of   *)
(* its producer has, and loses packets anywhere.                           *)

Packet == (Callback \cup {"tape"}) \X Nat

\* Packets of one producer have increasing numbers.
Increasing(s) ==
  \A i, j \in 1 .. Len(s) : i < j /\ s[i][1] = s[j][1] => s[i][2] < s[j][2]

\* Every packet of s has a lower number than those of its producer in t.
Before(s, t) ==
  \A i \in 1 .. Len(s), j \in 1 .. Len(t) : s[i][1] = t[j][1] => s[i][2] < t[j][2]

\* The number the next packet of a producer has.
Upcoming(producer) == IF producer = "tape" THEN replay.done + 1 ELSE pushed[producer]

\* A packet that somebody has handed in already.
HandedIn(s) == \A i \in 1 .. Len(s) : s[i][2] < Upcoming(s[i][1])

Typed ==
  /\ queue \in Seq(Packet) /\ delivered \in Seq(Packet)
  /\ pushed \in [Callback -> Nat]
  /\ {"status", "done", "report"} \subseteq DOMAIN replay /\ replay.done \in Nat
  /\ Capacity \in Nat \ {0}

InOrder ==
  /\ Increasing(delivered) /\ Increasing(queue) /\ Before(delivered, queue)
  /\ HandedIn(delivered) /\ HandedIn(queue)

OrderInv == Typed /\ InOrder

\* A part of an increasing sequence is increasing.
LEMMA IncreasingPart ==
  ASSUME NEW s \in Seq(Packet), Increasing(s), NEW m \in 1 .. Len(s) + 1, NEW n \in 0 .. Len(s)
  PROVE  /\ SubSeq(s, m, n) \in Seq(Packet)
         /\ Increasing(SubSeq(s, m, n))
         /\ \A i \in 1 .. Len(SubSeq(s, m, n)) : \E j \in 1 .. Len(s) : SubSeq(s, m, n)[i] = s[j]
<1>1. /\ SubSeq(s, m, n) \in Seq(Packet)
      /\ Len(SubSeq(s, m, n)) = IF m <= n THEN n - m + 1 ELSE 0
      /\ \A i \in 1 .. Len(SubSeq(s, m, n)) : SubSeq(s, m, n)[i] = s[m + i - 1]
  OBVIOUS
<1>2. Len(s) \in Nat
  OBVIOUS
<1> DEFINE t == SubSeq(s, m, n)
<1> HIDE DEF t
<1>3. Increasing(t)
  BY <1>1, <1>2 DEF Increasing, t
<1>4. \A i \in 1 .. Len(t) : m + i - 1 \in 1 .. Len(s)
  BY <1>1, <1>2 DEF t
<1> QED BY <1>1, <1>3, <1>4 DEF t

\* An increasing sequence goes on with a higher number of the same producer.
LEMMA IncreasingAppend ==
  ASSUME NEW s \in Seq(Packet), Increasing(s), NEW p \in Packet,
         \A i \in 1 .. Len(s) : s[i][1] = p[1] => s[i][2] < p[2]
  PROVE  /\ Append(s, p) \in Seq(Packet)
         /\ Increasing(Append(s, p))
         /\ \A i \in 1 .. Len(Append(s, p)) :
              Append(s, p)[i] = p \/ \E j \in 1 .. Len(s) : Append(s, p)[i] = s[j]
<1> DEFINE t == Append(s, p)
<1>1. /\ t \in Seq(Packet) /\ Len(s) \in Nat /\ Len(t) = Len(s) + 1
      /\ \A i \in 1 .. Len(s) : t[i] = s[i]
      /\ t[Len(s) + 1] = p
  OBVIOUS
<1> HIDE DEF t
<1>2. Increasing(t)
  <2> SUFFICES ASSUME NEW i \in 1 .. Len(t), NEW j \in 1 .. Len(t), i < j, t[i][1] = t[j][1]
      PROVE  t[i][2] < t[j][2]
    BY DEF Increasing
  <2>1. i \in 1 .. Len(s)
    BY <1>1
  <2>2. CASE j \in 1 .. Len(s)
    BY <1>1, <2>1, <2>2 DEF Increasing
  <2>3. CASE j = Len(s) + 1
    BY <1>1, <2>1, <2>3
  <2> QED BY <1>1, <2>2, <2>3
<1>3. \A i \in 1 .. Len(t) : t[i] = p \/ \E j \in 1 .. Len(s) : t[i] = s[j]
  BY <1>1
<1> QED BY <1>1, <1>2, <1>3 DEF t

\* A packet with its producer's upcoming number goes behind whatever the queue
\* keeps, whether or not an older one is dropped for it.
LEMMA PushInOrder ==
  ASSUME OrderInv, NEW p \in Packet, p[2] = Upcoming(p[1]), PushPacket(p)
  PROVE  /\ queue' \in Seq(Packet) /\ Increasing(queue') /\ Before(delivered, queue')
         /\ \A i \in 1 .. Len(queue') :
              queue'[i] = p \/ \E j \in 1 .. Len(queue) : queue'[i] = queue[j]
<1>1. /\ queue \in Seq(Packet) /\ Increasing(queue) /\ Capacity \in Nat \ {0}
      /\ \A j \in 1 .. Len(queue) : queue[j][1] = p[1] => queue[j][2] < p[2]
      /\ \A j \in 1 .. Len(delivered) : delivered[j][1] = p[1] => delivered[j][2] < p[2]
  BY DEF OrderInv, Typed, InOrder, HandedIn
<1>2. /\ queue' \in Seq(Packet) /\ Increasing(queue')
      /\ \A i \in 1 .. Len(queue') :
           queue'[i] = p \/ \E j \in 1 .. Len(queue) : queue'[i] = queue[j]
  <2>1. CASE queue' = queue
    BY <1>1, <2>1
  <2>2. CASE queue' = Append(queue, p)
    BY <1>1, <2>2, IncreasingAppend
  <2>3. CASE Len(queue) >= Capacity /\ queue' = Append(Tail(queue), p)
    <3> DEFINE t == SubSeq(queue, 2, Len(queue))
    <3>1. Tail(queue) = t /\ 2 \in 1 .. Len(queue) + 1 /\ Len(queue) \in 0 .. Len(queue)
      BY <1>1, <2>3
    <3>2. /\ t \in Seq(Packet) /\ Increasing(t)
          /\ \A i \in 1 .. Len(t) : \E j \in 1 .. Len(queue) : t[i] = queue[j]
      BY <1>1, <3>1, IncreasingPart
    <3> HIDE DEF t
    <3>3. \A i \in 1 .. Len(t) : t[i][1] = p[1] => t[i][2] < p[2]
      BY <1>1, <3>2
    <3>4. /\ Append(t, p) \in Seq(Packet) /\ Increasing(Append(t, p))
          /\ \A i \in 1 .. Len(Append(t, p)) :
               Append(t, p)[i] = p \/ \E j \in 1 .. Len(t) : Append(t, p)[i] = t[j]
      BY <3>2, <3>3, IncreasingAppend
    <3>5. queue' = Append(t, p)
      BY <2>3, <3>1
    <3> QED BY <3>2, <3>4, <3>5
  <2>4. \/ queue' = queue \/ queue' = Append(queue, p)
        \/ Len(queue) >= Capacity /\ queue' = Append(Tail(queue), p)
    BY <1>1 DEF PushPacket, PushOutcome
  <2> QED BY <2>1, <2>2, <2>3, <2>4
<1>3. Before(delivered, queue')
  BY <1>1, <1>2 DEF OrderInv, InOrder, Before
<1> QED BY <1>2, <1>3

\* Both sequences are still in order and consist of the packets they had.
Moved(d, q, d2, q2) ==
  /\ d2 \in Seq(Packet) /\ Increasing(d2)
  /\ q2 \in Seq(Packet) /\ Increasing(q2) /\ Before(d2, q2)
  /\ \A i \in 1 .. Len(d2) : \/ \E j \in 1 .. Len(d) : d2[i] = d[j]
                            \/ \E j \in 1 .. Len(q) : d2[i] = q[j]
  /\ \A i \in 1 .. Len(q2) : \E j \in 1 .. Len(q) : q2[i] = q[j]

\* The front of one sequence moves to the end of the other.
LEMMA FrontMoved ==
  ASSUME NEW d \in Seq(Packet), NEW q \in Seq(Packet), NEW n \in 0 .. Len(q),
         Increasing(d), Increasing(q), Before(d, q),
         NEW d2, d2 = d \o SubSeq(q, 1, n), NEW q2, q2 = SubSeq(q, n + 1, Len(q))
  PROVE  Moved(d, q, d2, q2)
<1>1. /\ q2 \in Seq(Packet) /\ Len(q2) = Len(q) - n
      /\ \A i \in 1 .. Len(q2) : q2[i] = q[n + i]
  OBVIOUS
<1>2. /\ SubSeq(q, 1, n) \in Seq(Packet) /\ Len(SubSeq(q, 1, n)) = n
      /\ \A i \in 1 .. n : SubSeq(q, 1, n)[i] = q[i]
  OBVIOUS
<1> DEFINE f == SubSeq(q, 1, n)
<1> HIDE DEF f
<1>3. /\ d2 \in Seq(Packet) /\ Len(d2) = Len(d) + n
      /\ \A i \in 1 .. Len(d) : d2[i] = d[i]
      /\ \A i \in 1 .. n : d2[Len(d) + i] = f[i]
  BY <1>2 DEF f
<1>4. Len(q) \in Nat /\ Len(d) \in Nat
  OBVIOUS
<1>5. \A i \in 1 .. Len(d2) :
        \/ i \in 1 .. Len(d) /\ d2[i] = d[i]
        \/ i - Len(d) \in 1 .. n /\ d2[i] = q[i - Len(d)]
  <2> TAKE i \in 1 .. Len(d2)
  <2>1. CASE i <= Len(d)
    BY <1>3, <1>4, <2>1
  <2>2. CASE i > Len(d)
    <3>1. i - Len(d) \in 1 .. n /\ i = Len(d) + (i - Len(d))
      BY <1>3, <1>4, <2>2
    <3>2. d2[i] = f[i - Len(d)]
      BY <1>3, <3>1
    <3> QED BY <1>2, <3>1, <3>2 DEF f
  <2> QED BY <1>3, <1>4, <2>1, <2>2
<1>6. Increasing(q2)
  BY <1>1, <1>4 DEF Increasing
<1>7. ASSUME NEW i \in 1 .. Len(d2), NEW j \in 1 .. Len(d2), i < j, d2[i][1] = d2[j][1]
      PROVE  d2[i][2] < d2[j][2]
  <2>1. CASE j \in 1 .. Len(d)
    <3>1. i \in 1 .. Len(d)
      BY <1>3, <1>4, <1>7, <2>1
    <3> QED BY <1>3, <1>7, <2>1, <3>1 DEF Increasing
  <2>2. CASE j \notin 1 .. Len(d) /\ i \in 1 .. Len(d)
    <3>1. j - Len(d) \in 1 .. Len(q) /\ d2[j] = q[j - Len(d)] /\ d2[i] = d[i]
      BY <1>3, <1>4, <1>5, <2>2
    <3> QED BY <1>7, <2>2, <3>1 DEF Before
  <2>3. CASE j \notin 1 .. Len(d) /\ i \notin 1 .. Len(d)
    <3>1. /\ i - Len(d) \in 1 .. Len(q) /\ d2[i] = q[i - Len(d)]
          /\ j - Len(d) \in 1 .. Len(q) /\ d2[j] = q[j - Len(d)]
          /\ i - Len(d) < j - Len(d)
      BY <1>3, <1>4, <1>5, <1>7, <2>3
    <3> QED BY <1>7, <3>1 DEF Increasing
  <2> QED BY <2>1, <2>2, <2>3
<1>8. ASSUME NEW i \in 1 .. Len(d2), NEW j \in 1 .. Len(q2), d2[i][1] = q2[j][1]
      PROVE  d2[i][2] < q2[j][2]
  <2>1. n + j \in 1 .. Len(q) /\ q2[j] = q[n + j]
    BY <1>1, <1>4
  <2>2. CASE i \in 1 .. Len(d)
    BY <1>3, <1>8, <2>1, <2>2 DEF Before
  <2>3. CASE i \notin 1 .. Len(d)
    <3>1. i - Len(d) \in 1 .. n /\ d2[i] = q[i - Len(d)]
      BY <1>5, <2>3
    <3>2. n \in Nat /\ n <= Len(q) /\ j \in Nat \ {0}
      BY <1>1, <1>4
    <3>3. i - Len(d) \in 1 .. Len(q) /\ i - Len(d) < n + j
      BY <1>4, <3>1, <3>2
    <3> QED BY <1>8, <2>1, <3>1, <3>3 DEF Increasing
  <2> QED BY <2>2, <2>3
<1>9. Increasing(d2) /\ Before(d2, q2)
  BY <1>7, <1>8 DEF Increasing, Before
<1>10. \A i \in 1 .. Len(q2) : \E j \in 1 .. Len(q) : q2[i] = q[j]
  <2> TAKE i \in 1 .. Len(q2)
  <2>1. n + i \in 1 .. Len(q) /\ q2[i] = q[n + i]
    BY <1>1, <1>4
  <2> QED BY <2>1
<1>11. \A i \in 1 .. Len(d2) : \/ \E j \in 1 .. Len(d) : d2[i] = d[j]
                              \/ \E j \in 1 .. Len(q) : d2[i] = q[j]
  <2> TAKE i \in 1 .. Len(d2)
  <2>1. 1 .. n \subseteq 1 .. Len(q)
    BY <1>4
  <2> QED BY <1>5, <2>1
<1> QED BY <1>1, <1>3, <1>6, <1>9, <1>10, <1>11 DEF Moved

\* Draining moves the front of the queue to the end of what was delivered.
LEMMA DrainInOrder ==
  ASSUME OrderInv, NEW limit \in 1 .. Capacity, Drain(limit)
  PROVE  OrderInv'
<1>1. queue \in Seq(Packet) /\ delivered \in Seq(Packet) /\ limit \in Nat
  BY StreamAssumption DEF OrderInv, Typed
<1>2. \E n \in 0 .. Len(queue) :
        /\ delivered' = delivered \o SubSeq(queue, 1, n)
        /\ queue' = SubSeq(queue, n + 1, Len(queue))
  <2> DEFINE n == IF limit < Len(queue) THEN limit ELSE Len(queue)
  <2>1. n \in 0 .. Len(queue)
    BY <1>1
  <2>2. /\ delivered' = delivered \o SubSeq(queue, 1, n)
        /\ queue' = SubSeq(queue, n + 1, Len(queue))
    BY DEF Drain
  <2> HIDE DEF n
  <2> QED BY <2>1, <2>2
<1>3. PICK n \in 0 .. Len(queue) : /\ delivered' = delivered \o SubSeq(queue, 1, n)
                                   /\ queue' = SubSeq(queue, n + 1, Len(queue))
  BY <1>2
<1>4. Moved(delivered, queue, delivered', queue')
  <2>1. Increasing(delivered) /\ Increasing(queue) /\ Before(delivered, queue)
    BY DEF OrderInv, InOrder
  <2> QED BY <1>1, <1>3, <2>1, FrontMoved, Zenon
<1>5. UNCHANGED <<pushed, replay>>
  BY DEF Drain
<1>6. \A producer : Upcoming(producer)' = Upcoming(producer)
  BY <1>5 DEF Upcoming
<1>7. HandedIn(delivered) /\ HandedIn(queue)
  BY DEF OrderInv, InOrder
<1>8. HandedIn(queue)'
  BY <1>4, <1>6, <1>7 DEF HandedIn, Moved
<1>9. HandedIn(delivered)'
  BY <1>4, <1>6, <1>7 DEF HandedIn, Moved
<1>10. Typed'
  BY <1>4, <1>5 DEF OrderInv, Typed, Moved
<1> QED BY <1>4, <1>8, <1>9, <1>10 DEF OrderInv, InOrder, Moved

\* Steps that push nothing: the queue keeps its packets or loses them all, and
\* no producer's number goes back.
LEMMA QuietKeepsOrder ==
  ASSUME OrderInv, queue' = queue \/ queue' = <<>>, UNCHANGED <<delivered, pushed>>,
         {"status", "done", "report"} \subseteq DOMAIN replay', replay'.done = replay.done
  PROVE  OrderInv'
<1>1. Typed'
  <2>1. queue' \in Seq(Packet)
    <3>1. queue \in Seq(Packet) /\ << >> \in Seq(Packet)
      BY DEF OrderInv, Typed
    <3> QED BY <3>1
  <2> QED BY <2>1 DEF OrderInv, Typed
<1>2. \A producer : Upcoming(producer)' = Upcoming(producer)
  BY DEF Upcoming
<1>3. HandedIn(delivered)'
  BY <1>2 DEF OrderInv, InOrder, HandedIn
<1>4. HandedIn(queue)' /\ Increasing(queue)' /\ Before(delivered, queue)'
  <2>1. CASE queue' = queue
    BY <1>2, <2>1 DEF OrderInv, InOrder, HandedIn
  <2>2. CASE queue' = <<>>
    BY <2>2 DEF HandedIn, Increasing, Before
  <2> QED BY <2>1, <2>2
<1> QED BY <1>1, <1>3, <1>4 DEF OrderInv, InOrder

\* Steps that push a packet with its producer's upcoming number.
LEMMA PushKeepsOrder ==
  ASSUME OrderInv, NEW p \in Packet, p[2] = Upcoming(p[1]), PushPacket(p),
         UNCHANGED delivered, Typed',
         \A producer \in Callback \cup {"tape"} :
           Upcoming(producer)' = Upcoming(producer) + (IF producer = p[1] THEN 1 ELSE 0)
  PROVE  OrderInv'
<1>1. /\ queue' \in Seq(Packet) /\ Increasing(queue') /\ Before(delivered, queue')
      /\ \A i \in 1 .. Len(queue') :
           queue'[i] = p \/ \E j \in 1 .. Len(queue) : queue'[i] = queue[j]
  BY PushInOrder
<1>2. \A producer \in Callback \cup {"tape"} : Upcoming(producer) \in Nat
  BY DEF OrderInv, Typed, Upcoming
<1>3. /\ \A i \in 1 .. Len(delivered) : delivered[i] \in Packet
      /\ \A i \in 1 .. Len(queue) : queue[i] \in Packet
  BY DEF OrderInv, Typed
<1>4. \A e \in Packet : e[2] < Upcoming(e[1]) \/ e = p => e[2] < Upcoming(e[1])'
  BY <1>2 DEF Packet
<1>5. HandedIn(delivered)' /\ HandedIn(queue)'
  BY <1>1, <1>3, <1>4 DEF OrderInv, InOrder, HandedIn
<1> QED BY <1>1, <1>5 DEF OrderInv, InOrder

\* A callback thread hands in its next packet, or one that is refused.
LEMMA CallbackKeepsOrder ==
  ASSUME OrderInv, NEW c \in Callback,
         \/ \E media \in BOOLEAN : CallbackPacket(c, media)
         \/ ReceivePacket(c)
  PROVE  OrderInv'
<1> DEFINE p == <<c, pushed[c]>>
<1>1. /\ pushed' = [pushed EXCEPT ![c] = @ + 1] /\ UNCHANGED <<delivered, replay>>
      /\ PushPacket(p) \/ UNCHANGED queue
  BY DEF CallbackPacket, ReceivePacket, queueVars
<1>2. pushed \in [Callback -> Nat] /\ pushed' \in [Callback -> Nat] /\ c # "tape"
  BY <1>1, StreamAssumption DEF OrderInv, Typed
<1>3. p \in Packet /\ p[1] = c /\ p[2] = pushed[c]
  BY <1>2 DEF Packet
<1>4. \A producer \in Callback \cup {"tape"} :
        Upcoming(producer)' = Upcoming(producer) + (IF producer = c THEN 1 ELSE 0)
  BY <1>1, <1>2 DEF OrderInv, Typed, Upcoming
<1> HIDE DEF p
<1>5. CASE PushPacket(p)
  <2>1. p[2] = Upcoming(p[1])
    BY <1>2, <1>3 DEF Upcoming
  <2>2. queue' \in Seq(Packet)
    BY <1>3, <1>5, <2>1, PushInOrder
  <2>3. Typed'
    BY <1>1, <1>2, <2>2 DEF OrderInv, Typed
  <2> QED BY <1>1, <1>3, <1>4, <1>5, <2>1, <2>3, PushKeepsOrder
<1>6. CASE UNCHANGED queue
  <2>1. Typed'
    BY <1>1, <1>2, <1>6 DEF OrderInv, Typed
  <2>2. \A producer \in Callback \cup {"tape"} :
          Upcoming(producer) \in Nat /\ Upcoming(producer) <= Upcoming(producer)'
    BY <1>1, <1>2, <1>4 DEF OrderInv, Typed, Upcoming
  <2>3. /\ \A i \in 1 .. Len(delivered) : delivered[i] \in Packet
        /\ \A i \in 1 .. Len(queue) : queue[i] \in Packet
    BY DEF OrderInv, Typed
  <2>4. \A e \in Packet : e[2] < Upcoming(e[1]) => e[2] < Upcoming(e[1])'
    BY <2>2, <1>4 DEF Packet
  <2>5. HandedIn(delivered)' /\ HandedIn(queue)'
    BY <1>1, <1>6, <2>3, <2>4 DEF OrderInv, InOrder, HandedIn
  <2> QED BY <1>1, <1>6, <2>1, <2>5 DEF OrderInv, InOrder
<1> QED BY <1>1, <1>5, <1>6

\* The cassette hands in its next item, or ends.
LEMMA ReplayKeepsOrder ==
  ASSUME OrderInv, ReplayNext
  PROVE  OrderInv'
<1>1. CASE ReplayBegin \/ ReplayEnd
  BY <1>1, QuietKeepsOrder DEF OrderInv, Typed, ReplayBegin, ReplayEnd, queueVars
<1>2. CASE ReplayItem /\ ~CallbackAdmits(tape[replay.done + 1])
  BY <1>2, QuietKeepsOrder DEF OrderInv, Typed, ReplayItem, queueVars
<1>3. CASE ReplayItem /\ CallbackAdmits(tape[replay.done + 1])
  <2> DEFINE p == <<"tape", replay.done + 1>>
  <2>1. /\ PushPacket(p) /\ UNCHANGED <<delivered, pushed>>
        /\ replay' = [replay EXCEPT !.done = replay.done + 1,
                                   !.report = Record(@, PushOutcome)]
    BY <1>3 DEF ReplayItem
  <2>2. /\ {"status", "done", "report"} \subseteq DOMAIN replay'
        /\ replay'.done = replay.done + 1 /\ replay.done \in Nat
    BY <2>1 DEF OrderInv, Typed
  <2>3. p \in Packet /\ p[1] = "tape" /\ p[2] = Upcoming(p[1])
    BY <2>2 DEF Packet, Upcoming
  <2> HIDE DEF p
  <2>4. \A producer \in Callback \cup {"tape"} :
          Upcoming(producer)' = Upcoming(producer) + (IF producer = "tape" THEN 1 ELSE 0)
    BY <2>1, <2>2, StreamAssumption DEF OrderInv, Typed, Upcoming
  <2>5. queue' \in Seq(Packet)
    BY <2>1, <2>3, PushInOrder
  <2>6. Typed'
    BY <2>1, <2>2, <2>5 DEF OrderInv, Typed
  <2> QED BY <2>1, <2>3, <2>4, <2>6, PushKeepsOrder
<1> QED BY <1>1, <1>2, <1>3 DEF ReplayNext

\* Whatever is dropped, closed or cancelled on the way, the packets of one
\* producer arrive in the order in which they were handed in, and none twice.
THEOREM DeliveryInOrder == Spec => []DeliveredInOrder
<1>1. Init => OrderInv
  BY StreamAssumption
     DEF Init, OrderInv, Typed, InOrder, Increasing, Before, HandedIn
<1>2. OrderInv /\ [Next]_vars => OrderInv'
  <2> SUFFICES ASSUME OrderInv, [Next]_vars PROVE OrderInv'
    OBVIOUS
  <2>1. CASE CallbackNext
    BY <2>1, CallbackKeepsOrder DEF CallbackNext
  <2>2. CASE ReplayNext
    BY <2>2, ReplayKeepsOrder
  <2>3. ASSUME NEW limit \in 1 .. Capacity, Drain(limit) PROVE OrderInv'
    BY <2>3, DrainInOrder
  <2>4. CASE QueueClose \/ QueueCancel
    BY <2>4, QuietKeepsOrder DEF OrderInv, Typed, QueueClose, QueueCancel
  <2>5. CASE HostNext
    <3>1. (queue' = queue \/ queue' = <<>>) /\ UNCHANGED <<delivered, pushed, replay>>
      BY <2>5 DEF HostNext, OpenFails, OpenSucceeds, CloneHandle, DropHandle, CloseBegin,
         CancelBegin, CallFails, ShutdownDriver, DriverStops, DriverFails, dataVars, queueVars
    <3> QED BY <3>1, QuietKeepsOrder DEF OrderInv, Typed
  <2>6. CASE UNCHANGED vars
    BY <2>6, QuietKeepsOrder DEF OrderInv, Typed, vars, queueVars
  <2> QED BY <2>1, <2>2, <2>3, <2>4, <2>5, <2>6 DEF Next, QueueNext
<1>3. OrderInv => DeliveredInOrder
  BY DEF OrderInv, InOrder, Increasing, DeliveredInOrder
<1> QED BY <1>1, <1>2, <1>3, PTL DEF Spec

-----------------------------------------------------------------------------
(* The replay report.  It counts the replayed items outcome by outcome, and *)
(* no item of the cassette that was in the queue has a number above those  *)
(* replayed: the next one is new to it.                                    *)

\* What a report accounts for.
Total(r) ==
  r["accepted"] + r["dropped_newest"] + r["dropped_oldest"] + r["rejected"] + r["closed"]

\* What a report accounts for among some outcomes.
Part(r, T) ==
  LET counted(o) == IF o \in T THEN r[o] ELSE 0
  IN  counted("accepted") + counted("dropped_newest") + counted("dropped_oldest")
        + counted("rejected") + counted("closed")

\* One outcome more.
LEMMA PartGrows ==
  ASSUME NEW r \in [Outcomes -> Nat], NEW T \in SUBSET Outcomes, NEW x \in T
  PROVE  Part(r, T) = r[x] + Part(r, T \ {x})
<1>1. \A o \in Outcomes : r[o] \in Nat
  OBVIOUS
<1>2. x \in {"accepted", "dropped_newest", "dropped_oldest", "rejected", "closed"}
  BY DEF Outcomes
<1>3. CASE x = "accepted"
  BY <1>1, <1>3 DEF Part, Outcomes
<1>4. CASE x = "dropped_newest"
  BY <1>1, <1>4 DEF Part, Outcomes
<1>5. CASE x = "dropped_oldest"
  BY <1>1, <1>5 DEF Part, Outcomes
<1>6. CASE x = "rejected"
  BY <1>1, <1>6 DEF Part, Outcomes
<1>7. CASE x = "closed"
  BY <1>1, <1>7 DEF Part, Outcomes
<1> QED BY <1>2, <1>3, <1>4, <1>5, <1>6, <1>7

\* The sum over the outcomes, in whatever order they are chosen.
LEMMA SumIsTotal ==
  ASSUME NEW r \in [Outcomes -> Nat]
  PROVE  MapThenSumSet(LAMBDA o : r[o], Outcomes) = Total(r)
<1> DEFINE Outcome(T) == CHOOSE x \in T : TRUE
           Folded(iter) ==
             iter = [T \in SUBSET Outcomes |->
                       IF T = {} THEN 0 ELSE r[Outcome(T)] + iter[T \ {Outcome(T)}]]
           c == CHOOSE iter : Folded(iter)
           part == [T \in SUBSET Outcomes |-> Part(r, T)]
<1>1. MapThenSumSet(LAMBDA o : r[o], Outcomes) = c[Outcomes]
  BY DEF MapThenSumSet, MapThenFoldSet
<1>2. \A T : T # {} => Outcome(T) \in T
  OBVIOUS
<1> HIDE DEF Outcome
<1>3. Folded(part)
  <2>1. Part(r, {}) = 0
    BY DEF Part
  <2>2. \A T \in SUBSET Outcomes : T # {} =>
          Part(r, T) = r[Outcome(T)] + Part(r, T \ {Outcome(T)})
    BY <1>2, PartGrows
  <2>3. \A T \in SUBSET Outcomes : T \ {Outcome(T)} \in SUBSET Outcomes
    OBVIOUS
  <2>4. \A T \in SUBSET Outcomes :
          part[T] = IF T = {} THEN 0 ELSE r[Outcome(T)] + part[T \ {Outcome(T)}]
    BY <2>1, <2>2, <2>3
  <2> QED BY <2>4
<1>4. Folded(c)
  <2> HIDE DEF Folded, part
  <2> QED BY <1>3, Zenon
<1> HIDE DEF c
<1> DEFINE Bad == {T \in SUBSET Outcomes : c[T] # Part(r, T)}
<1>5. Bad = {}
  <2> SUFFICES ASSUME Bad # {} PROVE FALSE
    OBVIOUS
  <2>1. IsFiniteSet(Outcomes)
    <3>0. IsFiniteSet({"accepted"})
      BY FS_Singleton
    <3>1. /\ IsFiniteSet({"accepted"} \cup {"dropped_newest"})
          /\ IsFiniteSet(({"accepted"} \cup {"dropped_newest"}) \cup {"dropped_oldest"})
      BY <3>0, FS_AddElement
    <3>2. /\ IsFiniteSet((({"accepted"} \cup {"dropped_newest"}) \cup {"dropped_oldest"})
                           \cup {"rejected"})
          /\ IsFiniteSet(((({"accepted"} \cup {"dropped_newest"}) \cup {"dropped_oldest"})
                           \cup {"rejected"}) \cup {"closed"})
      BY <3>1, FS_AddElement
    <3>3. Outcomes = ((({"accepted"} \cup {"dropped_newest"}) \cup {"dropped_oldest"})
                           \cup {"rejected"}) \cup {"closed"}
      BY DEF Outcomes
    <3> QED BY <3>2, <3>3
  <2>2. FiniteSubsetsOf(Outcomes) = SUBSET Outcomes
    BY <2>1, FS_FiniteSubsetsOfFinite
  <2>3. IsWellFoundedOn(StrictSubsetOrdering(Outcomes), SUBSET Outcomes)
    BY <2>2, FS_StrictSubsetOrderingWellFounded
  <2>4. Bad \in SUBSET (SUBSET Outcomes)
    OBVIOUS
  <2>5. PICK T \in Bad : \A U \in Bad : <<U, T>> \notin StrictSubsetOrdering(Outcomes)
    <3> HIDE DEF Bad
    <3> QED BY <2>3, <2>4, WFMin
  <2>6. T \in SUBSET Outcomes /\ c[T] # Part(r, T)
    BY <2>5
  <2>7. T # {}
    <3>1. {} \in SUBSET Outcomes /\ Part(r, {}) = 0
      BY DEF Part
    <3>2. c[{}] = 0
      BY <1>4, <3>1
    <3> QED BY <2>6, <3>1, <3>2
  <2> DEFINE x == Outcome(T)
             U == T \ {x}
  <2>8. x \in T /\ U \in SUBSET Outcomes /\ U \subseteq T /\ U # T
    BY <1>2, <2>6, <2>7
  <2>9. U \notin Bad
    <3>1. <<U, T>> \in StrictSubsetOrdering(Outcomes)
      BY <2>6, <2>8 DEF StrictSubsetOrdering
    <3> QED BY <2>5, <3>1
  <2>10. c[U] = Part(r, U)
    BY <2>8, <2>9
  <2>11. c[T] = r[x] + c[U]
    BY <1>4, <2>6, <2>7
  <2>12. Part(r, T) = r[x] + Part(r, U)
    BY <2>6, <2>8, PartGrows
  <2> QED BY <2>6, <2>10, <2>11, <2>12
<1>6. c[Outcomes] = Part(r, Outcomes)
  BY <1>5
<1>7. Part(r, Outcomes) = Total(r)
  BY DEF Part, Total, Outcomes
<1> QED BY <1>1, <1>6, <1>7

\* The packets of the cassette that ever were in the queue.
TapeEntered == {p \in entered : p[1] = "tape"}

Statuses == {"idle", "running", "ok", "error"}

ReportTyped ==
  /\ policy \in {"dropped_newest", "dropped_oldest", "rejected"}
  /\ replay \in [status : Statuses, done : Nat, report : [Outcomes -> Nat]]

\* No number above those replayed was in the queue, so that the next is new.
TapeBelow == \A p \in TapeEntered : p[2] \in Nat /\ p[2] <= replay.done

Counted ==
  /\ IsFiniteSet(TapeEntered)
  /\ Cardinality(TapeEntered) = replay.report["accepted"] + replay.report["dropped_oldest"]
  /\ Total(replay.report) = replay.done

ReportInv == ReportTyped /\ TapeBelow /\ Counted

\* A step without a replayed item.
LEMMA ReportUntouched ==
  ASSUME ReportInv, TapeEntered' = TapeEntered, policy' = policy,
         \/ replay' = replay
         \/ \E status \in Statuses : replay' = [replay EXCEPT !.status = status]
  PROVE  ReportInv'
<1>1. /\ replay' \in [status : Statuses, done : Nat, report : [Outcomes -> Nat]]
      /\ replay'.done = replay.done /\ replay'.report = replay.report
  BY DEF ReportInv, ReportTyped
<1>2. ReportTyped'
  BY <1>1 DEF ReportInv, ReportTyped
<1>3. TapeBelow'
  BY <1>1 DEF ReportInv, TapeBelow
<1>4. Counted'
  BY <1>1 DEF ReportInv, Counted, Total
<1> QED BY <1>2, <1>3, <1>4 DEF ReportInv

\* A packet of a callback thread is none of the cassette's.
LEMMA ForeignPush ==
  ASSUME NEW c \in Callback, NEW n, PushPacket(<<c, n>>)
  PROVE  TapeEntered' = TapeEntered
<1> DEFINE p == <<c, n>>
<1>1. p[1] # "tape"
  BY StreamAssumption
<1>2. entered' = entered \/ entered' = entered \cup {p}
  BY DEF PushPacket
<1> HIDE DEF p
<1> QED BY <1>1, <1>2 DEF TapeEntered

\* One replayed item: one count more, and one packet more if it was stored.
LEMMA ItemReported ==
  ASSUME ReportInv, ReplayItem, CallbackAdmits(tape[replay.done + 1])
  PROVE  ReportInv'
<1> DEFINE p == <<"tape", replay.done + 1>>
           stored == PushOutcome \in {"accepted", "dropped_oldest"}
           d == replay.done
           r == replay.report
           r2 == replay'.report
           o == PushOutcome
<1>1. /\ PushPacket(p) /\ policy' = policy
      /\ replay' = [replay EXCEPT !.done = d + 1, !.report = Record(@, o)]
  BY DEF ReplayItem, config
<1>2. o \in Outcomes
  BY DEF ReportInv, ReportTyped, PushOutcome, Outcomes
<1>3. d \in Nat /\ r \in [Outcomes -> Nat]
  BY DEF ReportInv, ReportTyped
<1>4. /\ replay'.done = d + 1 /\ r2 = [r EXCEPT ![o] = @ + 1]
      /\ replay'.status = replay.status /\ replay.status \in Statuses
      /\ replay' = [status |-> replay.status, done |-> d + 1, report |-> Record(r, o)]
  BY <1>1 DEF ReportInv, ReportTyped, Record
<1>5. entered' = IF stored THEN entered \cup {p} ELSE entered
  BY <1>1 DEF PushPacket
<1>6. p[1] = "tape" /\ p[2] = d + 1
  OBVIOUS
<1>7. /\ IsFiniteSet(TapeEntered) /\ Cardinality(TapeEntered) = r["accepted"] + r["dropped_oldest"]
      /\ Total(r) = d
      /\ \A q \in TapeEntered : q[2] \in Nat /\ q[2] <= d
  BY DEF ReportInv, Counted, TapeBelow
<1> HIDE DEF p, d, r, r2, o
<1>8. p \notin TapeEntered
  BY <1>3, <1>6, <1>7
<1>9. TapeEntered' = IF stored THEN TapeEntered \cup {p} ELSE TapeEntered
  BY <1>5, <1>6 DEF TapeEntered
<1>10. /\ IsFiniteSet(TapeEntered')
       /\ Cardinality(TapeEntered') = Cardinality(TapeEntered) + (IF stored THEN 1 ELSE 0)
  <2>1. CASE stored
    BY <1>7, <1>8, <1>9, <2>1, FS_AddElement
  <2>2. CASE ~stored
    <3>1. Cardinality(TapeEntered) \in Nat
      BY <1>7, FS_CardinalityType
    <3> QED BY <1>7, <1>9, <2>2, <3>1
  <2> QED BY <2>1, <2>2
<1>11. /\ r2 \in [Outcomes -> Nat]
       /\ r2["accepted"] + r2["dropped_oldest"]
            = r["accepted"] + r["dropped_oldest"]
                + (IF o \in {"accepted", "dropped_oldest"} THEN 1 ELSE 0)
       /\ Total(r2) = Total(r) + 1
  <2>1. \A x \in Outcomes : r[x] \in Nat /\ r2[x] = IF x = o THEN r[x] + 1 ELSE r[x]
    BY <1>2, <1>3, <1>4
  <2>2. r2 \in [Outcomes -> Nat]
    BY <1>2, <1>3, <1>4
  <2> QED BY <1>2, <2>1, <2>2 DEF Total, Outcomes
<1>12. Counted'
  BY <1>4, <1>7, <1>10, <1>11 DEF Counted, r2, o
<1>13. TapeBelow'
  BY <1>3, <1>4, <1>6, <1>7, <1>9 DEF TapeBelow
<1>14. ReportTyped'
  BY <1>1, <1>3, <1>4, <1>11 DEF ReportInv, ReportTyped, Record
<1> QED BY <1>12, <1>13, <1>14 DEF ReportInv

\* Every step of every thread keeps the report's books.
LEMMA StepReported == ReportInv /\ [Next]_vars => ReportInv'
<1> SUFFICES ASSUME ReportInv, [Next]_vars PROVE ReportInv'
  OBVIOUS
<1>1. ASSUME NEW c \in Callback,
             (\E media \in BOOLEAN : CallbackPacket(c, media)) \/ ReceivePacket(c)
      PROVE  ReportInv'
  <2>1. PushPacket(<<c, pushed[c]>>) \/ entered' = entered
    BY <1>1 DEF CallbackPacket, ReceivePacket
  <2>2. TapeEntered' = TapeEntered
    BY <2>1, ForeignPush DEF TapeEntered
  <2>3. policy' = policy /\ replay' = replay
    BY <1>1 DEF CallbackPacket, ReceivePacket, config
  <2> QED BY <2>2, <2>3, ReportUntouched
<1>2. CASE ReplayBegin \/ ReplayEnd \/ (ReplayItem /\ ~CallbackAdmits(tape[replay.done + 1]))
  <2>1. entered' = entered /\ policy' = policy
    BY <1>2 DEF ReplayBegin, ReplayEnd, ReplayItem, config
  <2>2. \E status \in Statuses : replay' = [replay EXCEPT !.status = status]
    BY <1>2 DEF ReplayBegin, ReplayEnd, ReplayItem, Statuses
  <2>3. TapeEntered' = TapeEntered
    BY <2>1 DEF TapeEntered
  <2> QED BY <2>1, <2>2, <2>3, ReportUntouched
<1>3. CASE ReplayItem /\ CallbackAdmits(tape[replay.done + 1])
  BY <1>3, ItemReported
<1>4. CASE QueueNext \/ HostNext \/ UNCHANGED vars
  <2>1. UNCHANGED <<entered, policy, replay>>
    BY <1>4 DEF QueueNext, Drain, QueueClose, QueueCancel, HostNext, OpenFails, OpenSucceeds,
       CloneHandle, DropHandle, CloseBegin, CancelBegin, CallFails, ShutdownDriver,
       DriverStops, DriverFails, dataVars, config, vars
  <2>2. TapeEntered' = TapeEntered
    BY <2>1 DEF TapeEntered
  <2> QED BY <2>1, <2>2, ReportUntouched
<1>5. CASE CallbackNext
  BY <1>1, <1>5 DEF CallbackNext
<1>6. CASE ReplayNext
  <2>1. \/ ReplayBegin \/ ReplayEnd
        \/ ReplayItem /\ ~CallbackAdmits(tape[replay.done + 1])
        \/ ReplayItem /\ CallbackAdmits(tape[replay.done + 1])
    BY <1>6 DEF ReplayNext
  <2> QED BY <1>2, <1>3, <2>1
<1> QED BY <1>4, <1>5, <1>6 DEF Next

\* Whatever the callbacks and the consumer do to the queue meanwhile, a replay
\* reports every item once, and as stored exactly those that entered.
THEOREM ReplayIsAccounted == Spec => []ReplayReportExact
<1>1. Init => ReportInv
  <2> SUFFICES ASSUME Init PROVE ReportInv
    OBVIOUS
  <2>1. TapeEntered = {}
    BY DEF Init, TapeEntered
  <2>2. replay = [status |-> "idle", done |-> 0, report |-> EmptyReport]
    BY DEF Init
  <2>3. /\ EmptyReport \in [Outcomes -> Nat]
        /\ \A o \in Outcomes : EmptyReport[o] = 0
    BY DEF EmptyReport
  <2>4. ReportTyped
    BY <2>2, <2>3 DEF Init, ReportTyped, Statuses
  <2>5. Counted
    BY <2>1, <2>2, <2>3, FS_EmptySet DEF Counted, Total, Outcomes
  <2> QED BY <2>1, <2>4, <2>5 DEF ReportInv, TapeBelow
<1>2. ReportInv => ReplayReportExact
  <2> SUFFICES ASSUME ReportInv PROVE ReplayReportExact
    OBVIOUS
  <2>1. replay.report \in [Outcomes -> Nat]
    BY DEF ReportInv, ReportTyped
  <2>2. MapThenSumSet(LAMBDA o : replay.report[o], Outcomes) = Total(replay.report)
    BY <2>1, SumIsTotal
  <2> QED BY <2>2 DEF ReportInv, Counted, TapeEntered, ReplayReportExact
<1> QED BY <1>1, <1>2, StepReported, PTL DEF Spec

=============================================================================
