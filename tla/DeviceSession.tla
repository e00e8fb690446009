---------------------------- MODULE DeviceSession ----------------------------
(***************************************************************************)
(* The wrist and VITURE device sessions and the observation cassette:      *)
(* opening under the bring-up guard, polling, raw or decoded, starting,    *)
(* stopping and invoking effects, of crates/sim-lib-stream-wristbridge,    *)
(* crates/sim-lib-stream-viture and device.rs.                             *)
(*                                                                         *)
(* One provider with one route opens several sessions, side by side or one *)
(* after the other.  A call takes &mut self and is one step; behind it may *)
(* be a physical session (external), which can refuse every request, and   *)
(* may have acted on one it reports as failed.  A call that returns an     *)
(* error before it changed anything is no step.                            *)
(***************************************************************************)
EXTENDS Naturals, Sequences, FiniteSets

CONSTANTS
  Session,    \* sessions one provider may open
  Scripts,    \* wrist events or poses recorded for a route: sequences of numbers
  Imports,    \* export files: [format, lines], a line by what the parser sees in it
  Payloads,   \* payloads callers hand to invoke
  MaxSeq,     \* stands for the largest u64
  MaxSigned,  \* stands for the largest i64
  Foreign,    \* recorded samples of another kind than their poller decodes
  MaxPolls,   \* bound: samples one session delivers
  MaxCalls    \* bound: commands invoked

Lines == {"blank", "header", "row", "trkpt", "value", "trackpoint"}

\* A command expression, by what its validation looks at: the number is a
\* level, a rate or a repeat count.
Payload ==
  [command : {"imu-reports", "imu-rate", "display-3d", "brightness", "privacy-film",
              "notify", "haptic", "set-face-slot", "set-alarm", "privacy-mode", "unknown"},
   fields : {"exact", "extra", "missing"}, typed : BOOLEAN, number : Nat, steps : Nat]

\* The lines of a file that become worn events.
EventLines(file) ==
  {i \in DOMAIN file.lines :
     CASE file.format \in {"csv", "zepp"} -> file.lines[i] \notin {"blank", "header"}
       [] file.format = "gpx" -> file.lines[i] = "trkpt"
       [] file.format = "tcx" -> file.lines[i] \in {"value", "trackpoint"}}

\* No file has so many events that their number would leave the i64.
ASSUME DeviceAssumption ==
  /\ MaxSeq \in Nat /\ MaxSigned \in 0 .. MaxSeq
  /\ Foreign \subseteq 0 .. MaxSeq
  /\ Payloads \subseteq Payload
  /\ MaxPolls \in Nat
  /\ MaxCalls \in Nat
  /\ Scripts \subseteq Seq(0 .. MaxSeq)
  /\ Imports \subseteq [format : {"csv", "zepp", "gpx", "tcx"}, lines : Seq(Lines)]
  /\ \A file \in Imports : Cardinality(EventLines(file)) <= MaxSigned + 1

\* A hardware route of the wrist stands for BLE, relay and Zepp bridge alike.
PhysicalRoutes == {"carina", "legacy"}
VitureRoutes == PhysicalRoutes \cup {"scripted"}

VARIABLES
  provider,  \* the route, its proof in the bring-up ledger, and what it replays
  session,   \* Session -> the session value
  device,    \* Session -> its physical session; "stray" is one that runs although
             \* its start was reported as failed
  applied,   \* history: commands each physical session acted on
  polled,    \* history: samples each session took from its route, in order
  shown,     \* history: camera frames each session delivered
  receipts,  \* history: receipts of the provider's sessions, in order
  calls      \* bound counter: also numbers the commands

vars == <<provider, session, device, applied, polled, shown, receipts, calls>>

Unopened == [phase |-> "unopened", started |-> FALSE, seq |-> 0,
             samples |-> <<>>, frames |-> <<>>, sent |-> <<>>]

\* WatchProvider, VitureProvider and ObservationCassette, with whatever route
\* they are built for.
Init ==
  /\ provider \in
       LET replaying(routes, proofs, frames) ==
             [route : routes, proven : proofs, samples : Scripts, frames : frames, file : {"none"}]
           live(routes, files) ==
             [route : routes, proven : {FALSE}, samples : {<<>>}, frames : {<<>>}, file : files]
       IN  replaying({"hardware"}, BOOLEAN, {<<>>}) \cup replaying({"cassette"}, {FALSE}, {<<>>})
             \cup replaying({"scripted"}, {FALSE}, Scripts)
             \cup live(PhysicalRoutes, {"none"}) \cup live({"import"}, Imports)
  /\ session = [s \in Session |-> Unopened]
  /\ device = [s \in Session |-> "off"]
  /\ applied = [s \in Session |-> <<>>]
  /\ polled = [s \in Session |-> <<>>]
  /\ shown = [s \in Session |-> <<>>]
  /\ receipts = <<>>
  /\ calls = 0

-----------------------------------------------------------------------------
(* Opening                                                                 *)

\* ImportSource::events numbers the events it keeps.
Events(file) == [i \in 1 .. Cardinality(EventLines(file)) |-> i - 1]

\* An empty Zepp export is an error, any other empty file is not.
Imported(file) == file.format = "zepp" => EventLines(file) # {}

\* RouteEnableGuard: a hardware route of the wrist needs its proof.
Opens ==
  /\ provider.route = "hardware" => provider.proven
  /\ provider.route = "import" => Imported(provider.file)

Replayed(route) ==
  CASE route = "import" -> Events(provider.file)
    [] route \in {"hardware", "scripted", "cassette"} -> provider.samples
    [] OTHER -> <<>>

\* open_session: a session of its own, with a copy of what the route replays.
\* Stub routes and the StubProvider never open.
OpenSession(s) ==
  /\ session[s].phase = "unopened"
  /\ Opens
  /\ session' = [session EXCEPT ![s] =
       [Unopened EXCEPT !.phase = "open",
                        !.samples = Replayed(provider.route),
                        !.frames = IF provider.route = "scripted"
                                   THEN provider.frames ELSE <<>>]]
  /\ UNCHANGED <<provider, device, applied, polled, shown, receipts, calls>>

\* The owner drops the session; a physical one is released with it.
DropSession(s) ==
  /\ session[s].phase = "open"
  /\ session' = [session EXCEPT ![s].phase = "dropped", ![s].started = FALSE]
  /\ device' = [device EXCEPT ![s] = "closed"]
  /\ UNCHANGED <<provider, applied, polled, shown, receipts, calls>>

-----------------------------------------------------------------------------
(* Starting and stopping                                                   *)

Physical == provider.route \in PhysicalRoutes

\* start: a VITURE session counts as started once its device is; a wrist
\* session keeps no such flag.  A device that reports an error may run astray.
Start(s, ok) ==
  /\ session[s].phase = "open"
  /\ provider.route \in VitureRoutes
  /\ ~Physical => ok
  /\ session' = IF ok THEN [session EXCEPT ![s].started = TRUE] ELSE session
  /\ device' = CASE ~Physical -> device
                  [] Physical /\ ok -> [device EXCEPT ![s] = "running"]
                  [] OTHER -> [device EXCEPT ![s] = IF @ = "running" THEN @ ELSE "stray"]
  /\ UNCHANGED <<provider, applied, polled, shown, receipts, calls>>

\* Fault: the flag is cleared before the device is asked to close.
StopFlagFirst(s, ok, after) ==
  /\ session[s].phase = "open"
  /\ provider.route \in VitureRoutes
  /\ session' = [session EXCEPT ![s].started = FALSE]
  /\ device' = IF Physical THEN [device EXCEPT ![s] = IF ok THEN "closed" ELSE after]
                           ELSE device
  /\ UNCHANGED <<provider, applied, polled, shown, receipts, calls>>

\* stop: an error of the device leaves the flag set, whether or not the
\* device is still running.
Stop(s, ok, after) ==
  /\ session[s].phase = "open"
  /\ provider.route \in VitureRoutes
  /\ ~Physical => ok
  /\ session' = IF ok THEN [session EXCEPT ![s].started = FALSE] ELSE session
  /\ device' = IF Physical THEN [device EXCEPT ![s] = IF ok THEN "closed" ELSE after]
                           ELSE device
  /\ UNCHANGED <<provider, applied, polled, shown, receipts, calls>>

-----------------------------------------------------------------------------
(* Polling                                                                 *)

\* Fault: the counter advances although the device had no pose.
NextSeqAlways(seq, delivered) == IF seq < MaxSeq THEN seq + 1 ELSE seq

\* seq.saturating_add(1), after a sample was made.
NextSeq(seq, delivered) == IF delivered /\ seq < MaxSeq THEN seq + 1 ELSE seq

\* poll of poses on a physical route: the Carina device has a pose or not, the
\* IMU route makes one up; neither looks at `started`.  A Carina pose that
\* carina_pose_sample refuses is gone from the device, which is outside of this
\* module; the session is as if there had been none, so it is not delivered.
PollPhysical(s, delivered) ==
  /\ session[s].phase = "open"
  /\ Physical
  /\ provider.route = "legacy" => delivered
  /\ Len(polled[s]) < MaxPolls
  /\ session' = [session EXCEPT ![s].seq = NextSeq(@, delivered)]
  /\ polled' = IF delivered
               THEN [polled EXCEPT ![s] = Append(@, [kind |-> "sample", seq |-> session[s].seq])]
               ELSE polled
  /\ UNCHANGED <<provider, device, applied, shown, receipts, calls>>

\* DeviceSample::from_expr: a worn event's number is parsed as an i64, and a
\* cassette hands out whatever was recorded next.
Decodes(number) ==
  CASE provider.route \in {"hardware", "import"} -> number <= MaxSigned
    [] provider.route = "cassette" -> number \notin Foreign
    [] OTHER -> TRUE

\* poll of a queue: the wrist's worn events, scripted poses, a cassette's
\* samples.  poll_device_sample decodes what it has taken: a sample that does
\* not decode is an error to the caller, and gone.
PollSample(s, decoded) ==
  /\ session[s].phase = "open"
  /\ session[s].samples # <<>>
  /\ LET number == Head(session[s].samples)
         kind == IF decoded /\ ~Decodes(number) THEN "lost" ELSE "sample"
     IN  polled' = [polled EXCEPT ![s] = Append(@, [kind |-> kind, seq |-> number])]
  /\ session' = [session EXCEPT ![s].samples = Tail(@)]
  /\ UNCHANGED <<provider, device, applied, shown, receipts, calls>>

\* poll of scripted camera frames.
PollFrame(s) ==
  /\ session[s].phase = "open"
  /\ session[s].frames # <<>>
  /\ session' = [session EXCEPT ![s].frames = Tail(@)]
  /\ shown' = [shown EXCEPT ![s] = Append(@, Head(session[s].frames))]
  /\ UNCHANGED <<provider, device, applied, polled, receipts, calls>>

-----------------------------------------------------------------------------
(* Invoking effects                                                        *)

DeviceCommands == {"imu-reports", "imu-rate", "display-3d"}

\* encode_viture_command
EncodesViture(payload) ==
  /\ payload.fields = "exact" /\ payload.typed
  /\ \/ payload.command \in {"imu-reports", "display-3d"}
     \/ payload.command = "imu-rate" /\ payload.number > 0
     \/ payload.command \in {"brightness", "privacy-film"} /\ payload.number <= 100

\* encode_watch_command
EncodesWatch(payload) ==
  /\ payload.fields = "exact" /\ payload.typed
  /\ \/ payload.command \in {"notify", "set-face-slot", "set-alarm", "privacy-mode"}
     \/ payload.command = "haptic" /\ payload.steps > 0 /\ payload.number > 0

Encodes(payload) ==
  IF provider.route \in VitureRoutes THEN EncodesViture(payload) ELSE EncodesWatch(payload)

\* apply_control_packet: IMU and 3D commands go to a physical session;
\* brightness and privacy film, and all commands of other routes, do not.
NeedsDevice(command) == Physical /\ command.name \in DeviceCommands

\* Fault: the command is recorded before it is applied.
RecordsEarly(command, ok) == TRUE

\* A failed send returns before the command is recorded.
Records(command, ok) == NeedsDevice(command) => ok

\* invoke of an authorized request: encode, apply, record, acknowledge.  A
\* device that reports an error may have acted all the same.  A cassette's
\* session has no effect surface.
Invoke(s, payload, ok, acted) ==
  /\ session[s].phase = "open"
  /\ provider.route # "cassette"
  /\ Encodes(payload)
  /\ calls < MaxCalls
  /\ ok => acted
  /\ LET command == [id |-> calls, name |-> payload.command, number |-> payload.number]
         sent == IF Records(command, ok) THEN Append(session[s].sent, command)
                                         ELSE session[s].sent
     IN  /\ session' = [session EXCEPT ![s].sent = sent]
         /\ applied' = IF NeedsDevice(command) /\ acted
                       THEN [applied EXCEPT ![s] = Append(@, command)] ELSE applied
         /\ receipts' = IF NeedsDevice(command) => ok
                        THEN Append(receipts, [session |-> s, command |-> command,
                                               sequence |-> Len(sent)])
                        ELSE receipts
  /\ calls' = calls + 1
  /\ UNCHANGED <<provider, device, polled, shown>>

-----------------------------------------------------------------------------

Next ==
  \E s \in Session :
    \/ OpenSession(s) \/ DropSession(s)
    \/ \E ok \in BOOLEAN : Start(s, ok)
    \/ \E ok \in BOOLEAN, after \in {device[s], "closed"} : Stop(s, ok, after)
    \/ \E delivered \in BOOLEAN : PollPhysical(s, delivered)
    \/ \E decoded \in BOOLEAN : PollSample(s, decoded)
    \/ PollFrame(s)
    \/ \E payload \in Payloads, ok, acted \in BOOLEAN : Invoke(s, payload, ok, acted)

Spec == Init /\ [][Next]_vars

-----------------------------------------------------------------------------
(* Properties                                                              *)

Numbers(s) == [i \in DOMAIN polled[s] |-> polled[s][i].seq]

\* What a session lists as sent are exactly the commands it acknowledged, each
\* under the number on its receipt and in the order of the receipts, and those
\* of them a device has acted on are the ones meant for it, each once and in
\* that order, although the device may fail at any time and also act on
\* commands it refused.
SentIsAcknowledged ==
  \A s \in Session :
    LET sent == session[s].sent
        mine == {k \in DOMAIN receipts : receipts[k].session = s}
    IN  /\ \A i \in DOMAIN sent : \E k \in mine : receipts[k].sequence = i
        /\ \A k \in mine : /\ receipts[k].sequence \in DOMAIN sent
                           /\ receipts[k].command = sent[receipts[k].sequence]
        /\ \A j, k \in mine : j < k => receipts[j].sequence < receipts[k].sequence
        /\ \A i \in DOMAIN sent :
             NeedsDevice(sent[i]) <=> \E n \in DOMAIN applied[s] : applied[s][n] = sent[i]
        /\ \A i, j \in DOMAIN sent, m, n \in DOMAIN applied[s] :
             sent[i] = applied[s][m] /\ sent[j] = applied[s][n] => (i < j <=> m < n)

\* Samples are numbered or replayed without a gap and without a repetition,
\* through empty polls, failed starts, stops and restarts, however polls of
\* two kinds alternate; sessions of one provider do not share their samples.
\* Only a poll that decodes can take a sample without delivering it, and only
\* from a cassette or a worn event beyond the largest i64.
PolledWithoutGap ==
  \A s \in Session : session[s].phase # "unopened" =>
    IF Physical
    THEN \A i \in DOMAIN polled[s] :
           polled[s][i] = [kind |-> "sample", seq |-> IF i - 1 < MaxSeq THEN i - 1 ELSE MaxSeq]
    ELSE /\ provider.route = "import" =>
              \A i \in DOMAIN polled[s] : polled[s][i] = [kind |-> "sample", seq |-> i - 1]
         /\ provider.route # "import" =>
              Numbers(s) \o session[s].samples = provider.samples
         /\ provider.route = "scripted" =>
              /\ \A i \in DOMAIN polled[s] : polled[s][i].kind = "sample"
              /\ shown[s] \o session[s].frames = provider.frames
         /\ \A i \in DOMAIN polled[s] :
              polled[s][i].kind = "lost" => ~Decodes(polled[s][i].seq)

\* A device whose start was acknowledged and that still runs always belongs to a
\* session that says it is started, also after a later start or stop that
\* failed, so that its owner can tell and stop it again.
RunningIsStarted ==
  \A s \in Session : device[s] = "running" => session[s].started

=============================================================================
