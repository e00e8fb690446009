----------------------------- MODULE HostStream -----------------------------
(***************************************************************************)
(* An opened host stream: the callback queue of src/queue.rs, the handle   *)
(* and driver of src/backend.rs, cassette replay of src/cassette.rs and    *)
(* the RTP-MIDI port of src/rtp_midi.rs that wraps the same queue.         *)
(*                                                                         *)
(* Who runs when.  Callback threads hold clones of the queue and push at   *)
(* any moment, also while the driver is being built and while it is being  *)
(* shut down.  HostOpenStream holds an Rc, so its clones all live on one   *)
(* host thread: one close, cancel or replay runs at a time there, step by  *)
(* step, with callbacks in between.  The StreamValue behind the queue is   *)
(* an external crate; its calls are atomic.                                *)
(***************************************************************************)
EXTENDS Naturals, Sequences, FiniteSets, SequencesExt

CONSTANTS
  Callback,    \* callback threads
  Handle,      \* clones of HostOpenStream the host thread may hold
  Capacity,    \* capacity of the stream's buffer policy
  MaxPackets,  \* bound: packets each callback thread pushes
  Tapes        \* recorded cassettes: for each item, whether its media matches

ASSUME StreamAssumption ==
  /\ Capacity \in Nat \ {0}
  /\ MaxPackets \in Nat
  /\ Tapes \subseteq Seq(BOOLEAN)
  /\ "tape" \notin Callback

VARIABLES
  phase,      \* the open: "building", "open" or "refused"
  direction,  \* StreamDirection of the metadata
  policy,     \* what the external queue does when full
  tape,       \* the cassette that will be replayed
  queue,      \* packets buffered in the StreamValue
  qclosed,    \* its push side is closed
  driver,     \* the attached native resource
  flag,       \* HostDriverHandle.closed
  handles,    \* live clones of the opened stream
  call,       \* the call running on the host thread
  result,     \* what the last finished close or cancel returned
  replay,     \* the cassette replay: status, items done, report so far
  pushed,     \* callback thread -> packets handed in so far
  reply,      \* callback thread -> what its last call returned
  entered,    \* history: packets that ever were in the queue
  delivered,  \* history: packets drained, in order
  shutdowns   \* history: calls of HostStreamDriver::shutdown

queueVars == <<queue, qclosed>>
config == <<direction, policy, tape>>
hostVars == <<phase, driver, flag, handles, call, result, shutdowns>>
vars == <<hostVars, queueVars, config, replay, pushed, reply, entered, delivered>>

Outcomes == {"accepted", "dropped_newest", "dropped_oldest", "rejected", "closed"}
EmptyReport == [o \in Outcomes |-> 0]
Idle == [op |-> "idle", stage |-> "none"]

Init ==
  /\ phase = "building"
  /\ direction \in {"source", "sink", "duplex"}
  /\ policy \in {"dropped_newest", "dropped_oldest", "rejected"}
  /\ tape \in Tapes
  /\ queue = <<>>
  /\ qclosed = FALSE
  /\ driver \in {"none", "running"}
  /\ flag = FALSE
  /\ handles = {}
  /\ call = Idle
  /\ result = "none"
  /\ replay = [status |-> "idle", done |-> 0, report |-> EmptyReport]
  /\ pushed = [c \in Callback |-> 0]
  /\ reply = [c \in Callback |-> "none"]
  /\ entered = {}
  /\ delivered = <<>>
  /\ shutdowns = 0

-----------------------------------------------------------------------------
(* The external StreamValue: push_packet, take_packets, close_push, cancel *)

PushOutcome ==
  IF qclosed THEN "closed"
  ELSE IF Len(queue) < Capacity THEN "accepted"
  ELSE policy

PushPacket(p) ==
  /\ queue' = CASE PushOutcome = "accepted" -> Append(queue, p)
                [] PushOutcome = "dropped_oldest" -> Append(Tail(queue), p)
                [] OTHER -> queue
  /\ entered' = IF PushOutcome \in {"accepted", "dropped_oldest"}
                THEN entered \cup {p} ELSE entered
  /\ UNCHANGED qclosed

-----------------------------------------------------------------------------
(* Callbacks *)

\* ensure_callback_input and ensure_media: neither can change after the open.
CallbackAdmits(media) == direction # "sink" /\ media

\* callback_packet and callback_item, from a callback thread.
CallbackPacket(c, media) ==
  /\ pushed[c] < MaxPackets
  /\ pushed' = [pushed EXCEPT ![c] = @ + 1]
  /\ IF CallbackAdmits(media)
     THEN /\ PushPacket(<<c, pushed[c]>>)
          /\ reply' = [reply EXCEPT ![c] = PushOutcome]
     ELSE /\ reply' = [reply EXCEPT ![c] = "error"]
          /\ UNCHANGED <<queueVars, entered>>
  /\ UNCHANGED <<hostVars, config, replay, delivered>>

\* receive_packet_from_callback and receive_envelope_from_callback of a port,
\* which has a queue and no driver: the push outcome is not returned.
ReceivePacket(c) ==
  /\ driver = "none"
  /\ pushed[c] < MaxPackets
  /\ CallbackAdmits(TRUE)
  /\ pushed' = [pushed EXCEPT ![c] = @ + 1]
  /\ PushPacket(<<c, pushed[c]>>)
  /\ reply' = [reply EXCEPT ![c] = "ok"]
  /\ UNCHANGED <<hostVars, config, replay, delivered>>

\* The graph side takes up to `limit` packets.
Drain(limit) ==
  /\ queue # <<>>
  /\ LET n == IF limit < Len(queue) THEN limit ELSE Len(queue)
     IN  /\ delivered' = delivered \o SubSeq(queue, 1, n)
         /\ queue' = SubSeq(queue, n + 1, Len(queue))
  /\ UNCHANGED <<hostVars, config, replay, pushed, reply, entered, qclosed>>

\* A holder of the queue, or of the StreamValue, closes or cancels it alone.
QueueClose ==
  /\ qclosed' = TRUE
  /\ UNCHANGED <<hostVars, config, replay, pushed, reply, entered, delivered, queue>>

QueueCancel ==
  /\ qclosed' = TRUE
  /\ queue' = <<>>
  /\ UNCHANGED <<hostVars, config, replay, pushed, reply, entered, delivered>>

-----------------------------------------------------------------------------
(* Cassette replay, on a thread of its own, once per behaviour             *)

\* Fault: a packet that pushed an older one out is reported as dropped itself.
RecordMerged(report, outcome) ==
  [report EXCEPT ![IF outcome = "dropped_oldest" THEN "dropped_newest" ELSE outcome] = @ + 1]

Record(report, outcome) == [report EXCEPT ![outcome] = @ + 1]

ReplayBegin ==
  /\ replay.status = "idle"
  /\ replay' = [replay EXCEPT !.status = "running"]
  /\ UNCHANGED <<hostVars, queueVars, config, pushed, reply, entered, delivered>>

\* Fault: items are replayed from the last to the first.
ReplayItemBackwards ==
  /\ replay.status = "running"
  /\ replay.done < Len(tape)
  /\ LET i == Len(tape) - replay.done
     IN  IF CallbackAdmits(tape[i])
         THEN /\ PushPacket(<<"tape", i>>)
              /\ replay' = [replay EXCEPT !.done = @ + 1, !.report = Record(@, PushOutcome)]
         ELSE /\ replay' = [replay EXCEPT !.status = "error"]
              /\ UNCHANGED <<queueVars, entered>>
  /\ UNCHANGED <<hostVars, config, pushed, reply, delivered>>

\* One iteration of the loop; the first error ends it and loses the report.
ReplayItem ==
  /\ replay.status = "running"
  /\ replay.done < Len(tape)
  /\ LET i == replay.done + 1
     IN  IF CallbackAdmits(tape[i])
         THEN /\ PushPacket(<<"tape", i>>)
              /\ replay' = [replay EXCEPT !.done = i, !.report = Record(@, PushOutcome)]
         ELSE /\ replay' = [replay EXCEPT !.status = "error"]
              /\ UNCHANGED <<queueVars, entered>>
  /\ UNCHANGED <<hostVars, config, pushed, reply, delivered>>

ReplayEnd ==
  /\ replay.status = "running"
  /\ replay.done = Len(tape)
  /\ replay' = [replay EXCEPT !.status = "ok"]
  /\ UNCHANGED <<hostVars, queueVars, config, pushed, reply, entered, delivered>>

-----------------------------------------------------------------------------
(* The opened stream's handles, on the host thread                         *)

dataVars == <<config, replay, pushed, reply, entered, delivered>>

\* new, new_with_driver, try_new_with_driver: the handle exists once the
\* driver could be built from the queue; callbacks may already be pushing.
OpenSucceeds(h) ==
  /\ phase = "building"
  /\ phase' = "open"
  /\ handles' = {h}
  /\ UNCHANGED <<driver, flag, call, result, shutdowns, queueVars, dataVars>>

\* build_driver returned an error: no handle, and the queue stays as it is.
OpenFails ==
  /\ phase = "building"
  /\ phase' = "refused"
  /\ driver' = "none"
  /\ UNCHANGED <<flag, handles, call, result, shutdowns, queueVars, dataVars>>

CloneHandle(h) ==
  /\ call = Idle
  /\ handles # {}
  /\ h \notin handles
  /\ handles' = handles \cup {h}
  /\ UNCHANGED <<phase, driver, flag, call, result, shutdowns, queueVars, dataVars>>

\* Dropping the last handle drops the driver, which releases its resource.
DropHandle(h) ==
  /\ call = Idle
  /\ h \in handles
  /\ handles' = handles \ {h}
  /\ driver' = IF handles = {h} /\ driver = "running" THEN "released" ELSE driver
  /\ UNCHANGED <<phase, flag, call, result, shutdowns, queueVars, dataVars>>

\* Fault: the native driver is stopped before the queue is closed.
CloseBeginDriverFirst(h) ==
  /\ call = Idle
  /\ h \in handles
  /\ call' = [op |-> "close", stage |-> "driver"]
  /\ UNCHANGED <<queueVars, phase, driver, flag, handles, result, shutdowns, dataVars>>

\* close: the queue first.
CloseBegin(h) ==
  /\ call = Idle
  /\ h \in handles
  /\ qclosed' = TRUE
  /\ call' = [op |-> "close", stage |-> "driver"]
  /\ UNCHANGED <<queue, phase, driver, flag, handles, result, shutdowns, dataVars>>

\* cancel: the queue first, dropping what it holds.
CancelBegin(h) ==
  /\ call = Idle
  /\ h \in handles
  /\ qclosed' = TRUE
  /\ queue' = <<>>
  /\ call' = [op |-> "cancel", stage |-> "driver"]
  /\ UNCHANGED <<phase, driver, flag, handles, result, shutdowns, dataVars>>

\* close or cancel whose queue call failed returns before it reaches the driver.
CallFails(h) ==
  /\ call = Idle
  /\ h \in handles
  /\ result' = "error"
  /\ UNCHANGED <<phase, driver, flag, handles, call, shutdowns, queueVars, dataVars>>

\* Fault: the flag is not consulted.
ShutdownDriverAgain ==
  /\ call.stage = "driver"
  /\ IF driver = "none"
     THEN /\ result' = "ok"
          /\ call' = Idle
          /\ UNCHANGED <<flag, shutdowns>>
     ELSE /\ flag' = TRUE
          /\ shutdowns' = shutdowns + 1
          /\ call' = [call EXCEPT !.stage = "stopping"]
          /\ UNCHANGED result
  /\ UNCHANGED <<phase, driver, handles, queueVars, dataVars>>

\* shutdown_driver and shutdown_once: the flag is set before the driver is
\* asked, and a handle that finds it set returns Ok.
ShutdownDriver ==
  /\ call.stage = "driver"
  /\ IF driver = "none" \/ flag
     THEN /\ result' = "ok"
          /\ call' = Idle
          /\ UNCHANGED <<flag, shutdowns>>
     ELSE /\ flag' = TRUE
          /\ shutdowns' = shutdowns + 1
          /\ call' = [call EXCEPT !.stage = "stopping"]
          /\ UNCHANGED result
  /\ UNCHANGED <<phase, driver, handles, queueVars, dataVars>>

\* The native driver stopped, or reported that it could not.
DriverStops ==
  /\ call.stage = "stopping"
  /\ driver' = "stopped"
  /\ result' = "ok"
  /\ call' = Idle
  /\ UNCHANGED <<phase, flag, handles, shutdowns, queueVars, dataVars>>

DriverFails ==
  /\ call.stage = "stopping"
  /\ result' = "error"
  /\ call' = Idle
  /\ UNCHANGED <<phase, driver, flag, handles, shutdowns, queueVars, dataVars>>

-----------------------------------------------------------------------------

CallbackNext ==
  \/ \E c \in Callback, media \in BOOLEAN : CallbackPacket(c, media)
  \/ \E c \in Callback : ReceivePacket(c)

QueueNext ==
  \/ \E limit \in 1 .. Capacity : Drain(limit)
  \/ QueueClose
  \/ QueueCancel

ReplayNext == ReplayBegin \/ ReplayItem \/ ReplayEnd

HostNext ==
  \/ OpenFails
  \/ \E h \in Handle : \/ OpenSucceeds(h) \/ CloneHandle(h) \/ DropHandle(h)
                       \/ CloseBegin(h) \/ CancelBegin(h) \/ CallFails(h)
  \/ ShutdownDriver \/ DriverStops \/ DriverFails

Next == CallbackNext \/ QueueNext \/ ReplayNext \/ HostNext

Spec == Init /\ [][Next]_vars

-----------------------------------------------------------------------------
(* Properties *)

\* However many clones close and cancel, in whatever order and with whatever
\* outcome, the native driver is asked to shut down at most once.
ShutdownOnce == shutdowns <= 1

\* From the moment the driver is asked to stop, no callback that is still in
\* flight, and no replay, gets a packet into the queue.
QuietBeforeShutdown == [][shutdowns > 0 => UNCHANGED entered]_vars

\* close() or cancel() that returned Ok has reached the driver: if the driver
\* still runs, that is because its one shutdown was tried and failed.
OkMeansShutdownTried == result = "ok" /\ driver = "running" => shutdowns = 1

\* At every moment of a replay, whatever the other callbacks and the consumer
\* do to the queue, the report accounts for each replayed item exactly once
\* and names as stored exactly the items that entered the queue.
ReplayReportExact ==
  /\ MapThenSumSet(LAMBDA o : replay.report[o], Outcomes) = replay.done
  /\ Cardinality({p \in entered : p[1] = "tape"}) =
        replay.report["accepted"] + replay.report["dropped_oldest"]

\* Packets of one callback thread, and of the cassette, are delivered in the
\* order in which they were handed in, and none twice.
DeliveredInOrder ==
  \A i, j \in 1 .. Len(delivered) :
    i < j /\ delivered[i][1] = delivered[j][1] => delivered[i][2] < delivered[j][2]

\* "Closing or canceling the host stream calls HostStreamDriver::shutdown",
\* which "Stops the external stream resource": a close or cancel that returned
\* Ok leaves no driver running.
OkMeansStopped == result = "ok" => driver # "running"

=============================================================================
