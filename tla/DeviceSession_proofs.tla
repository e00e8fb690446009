------------------------ MODULE DeviceSession_proofs ------------------------
(***************************************************************************)
(* Three results for any number of sessions, commands and polls, any       *)
(* recordings and any failures of the physical session.                    *)
(*                                                                         *)
(* A device that runs belongs to a session that says so.  By itself this   *)
(* does not survive the opening of a session, which starts with the flag   *)
(* cleared: the induction needs that a session not opened yet has no       *)
(* device, and that a route without devices runs none.                     *)
(*                                                                         *)
(* What a session lists as sent is what it acknowledged.  The induction    *)
(* needs that commands are numbered by attempt, so that the latest is none *)
(* of the earlier ones.                                                    *)
(*                                                                         *)
(* Polls skip nothing.  The induction needs the counter of a physical      *)
(* session and what is left of an import, which say what the next poll     *)
(* will hand out.                                                          *)
(***************************************************************************)
EXTENDS DeviceSession, FiniteSetTheorems, TLAPS

\* Every session has its value, with the fields the proof looks at.
Shape ==
  /\ DOMAIN session = Session /\ DOMAIN device = Session
  /\ \A s \in Session : {"phase", "started"} \subseteq DOMAIN session[s]

\* A session that is not open has no device that was told to run.
ClosedHasNone == \A s \in Session : session[s].phase # "open" => device[s] # "running"

\* Only a physical route has devices.
OnlyPhysicalRuns == \A s \in Session : device[s] = "running" => Physical

RunningInv == Shape /\ ClosedHasNone /\ OnlyPhysicalRuns /\ RunningIsStarted

\* Steps that leave the devices, the phases and the flags alone.
LEMMA Untouched ==
  ASSUME RunningInv, UNCHANGED <<provider, device>>, Shape',
         \A s \in Session : /\ session'[s].phase = session[s].phase
                            /\ session'[s].started = session[s].started
  PROVE  RunningInv'
BY DEF RunningInv, ClosedHasNone, OnlyPhysicalRuns, Physical, RunningIsStarted

\* A session is opened with no device.
LEMMA OpenKeeps ==
  ASSUME RunningInv, NEW s \in Session, OpenSession(s)
  PROVE  RunningInv'
<1> DEFINE value == [Unopened EXCEPT !.phase = "open",
                       !.samples = Replayed(provider.route),
                       !.frames = IF provider.route = "scripted"
                                  THEN provider.frames ELSE <<>>]
<1>1. /\ session[s].phase = "unopened"
      /\ session' = [session EXCEPT ![s] = value] /\ device' = device
      /\ provider' = provider
  BY DEF OpenSession
<1>2. value.phase = "open" /\ {"phase", "started"} \subseteq DOMAIN value
  BY DEF Unopened
<1> HIDE DEF value
<1>3. Shape'
  BY <1>1, <1>2 DEF RunningInv, Shape
<1>4. device[s] # "running"
  BY <1>1 DEF RunningInv, ClosedHasNone
<1>5. ClosedHasNone' /\ RunningIsStarted'
  BY <1>1, <1>2, <1>4 DEF RunningInv, Shape, ClosedHasNone, RunningIsStarted
<1>6. OnlyPhysicalRuns'
  BY <1>1 DEF RunningInv, OnlyPhysicalRuns, Physical
<1> QED BY <1>3, <1>5, <1>6 DEF RunningInv

\* Dropping a session closes its device with it.
LEMMA DropKeeps ==
  ASSUME RunningInv, NEW s \in Session, DropSession(s)
  PROVE  RunningInv'
<1>1. Shape'
  BY DEF RunningInv, Shape, DropSession
<1>2. ClosedHasNone'
  BY DEF RunningInv, Shape, ClosedHasNone, DropSession
<1>3. RunningIsStarted'
  BY DEF RunningInv, Shape, RunningIsStarted, DropSession
<1>4. OnlyPhysicalRuns'
  BY DEF RunningInv, Shape, OnlyPhysicalRuns, Physical, DropSession
<1> QED BY <1>1, <1>2, <1>3, <1>4 DEF RunningInv

\* A start is told to the device first; one that fails leaves a device that
\* runs as it was.
LEMMA StartKeeps ==
  ASSUME RunningInv, NEW s \in Session, NEW ok \in BOOLEAN, Start(s, ok)
  PROVE  RunningInv'
<1>1. Shape'
  BY DEF RunningInv, Shape, Start
<1>2. /\ session[s].phase = "open"
      /\ \A t \in Session : session'[t].phase = session[t].phase
      /\ \A t \in Session : session[t].started => session'[t].started
      /\ \A t \in Session \ {s} : device'[t] = device[t]
  BY DEF RunningInv, Shape, Start
<1>3. device'[s] = "running" => session'[s].started \/ device[s] = "running"
  BY DEF RunningInv, Shape, Start
<1>4. ClosedHasNone'
  BY <1>2 DEF RunningInv, ClosedHasNone
<1>5. RunningIsStarted'
  BY <1>2, <1>3 DEF RunningInv, RunningIsStarted
<1>6. OnlyPhysicalRuns'
  BY DEF RunningInv, Shape, OnlyPhysicalRuns, Physical, Start
<1> QED BY <1>1, <1>4, <1>5, <1>6 DEF RunningInv

\* The flag is cleared only for a device that has closed.
LEMMA StopKeeps ==
  ASSUME RunningInv, NEW s \in Session, NEW ok \in BOOLEAN,
         NEW after \in {device[s], "closed"}, Stop(s, ok, after)
  PROVE  RunningInv'
<1>1. Shape'
  BY DEF RunningInv, Shape, Stop
<1>2. /\ session[s].phase = "open"
      /\ \A t \in Session : session'[t].phase = session[t].phase
      /\ \A t \in Session \ {s} : /\ device'[t] = device[t]
                                  /\ session'[t].started = session[t].started
  BY DEF RunningInv, Shape, Stop
<1>3. ClosedHasNone'
  BY <1>2 DEF RunningInv, ClosedHasNone
<1>4. device'[s] = "running" => session'[s].started
  BY DEF RunningInv, Shape, OnlyPhysicalRuns, RunningIsStarted, Stop
<1>5. RunningIsStarted'
  BY <1>2, <1>4 DEF RunningInv, RunningIsStarted
<1>6. OnlyPhysicalRuns'
  BY DEF RunningInv, Shape, OnlyPhysicalRuns, Physical, Stop
<1> QED BY <1>1, <1>3, <1>5, <1>6 DEF RunningInv

\* A poll takes from the session's queues or advances its number.
LEMMA PollsKeep ==
  ASSUME RunningInv, NEW s \in Session,
         \/ \E delivered \in BOOLEAN : PollPhysical(s, delivered)
         \/ \E decoded \in BOOLEAN : PollSample(s, decoded)
         \/ PollFrame(s)
  PROVE  RunningInv'
<1>1. /\ Shape'
      /\ \A t \in Session : /\ session'[t].phase = session[t].phase
                             /\ session'[t].started = session[t].started
  <2>1. CASE \E delivered \in BOOLEAN : PollPhysical(s, delivered)
    BY <2>1 DEF RunningInv, Shape, PollPhysical
  <2>2. CASE \E decoded \in BOOLEAN : PollSample(s, decoded)
    BY <2>2 DEF RunningInv, Shape, PollSample
  <2>3. CASE PollFrame(s)
    BY <2>3 DEF RunningInv, Shape, PollFrame
  <2> QED BY <2>1, <2>2, <2>3
<1>2. UNCHANGED <<provider, device>>
  BY DEF PollPhysical, PollSample, PollFrame
<1> QED BY <1>1, <1>2, Untouched

\* A command changes what the session lists as sent.
LEMMA InvokeKeeps ==
  ASSUME RunningInv, NEW s \in Session, NEW payload, NEW ok, NEW acted,
         Invoke(s, payload, ok, acted)
  PROVE  RunningInv'
<1>1. \E sent : session' = [session EXCEPT ![s].sent = sent]
  BY DEF Invoke
<1>2. /\ Shape'
      /\ \A t \in Session : /\ session'[t].phase = session[t].phase
                             /\ session'[t].started = session[t].started
  BY <1>1 DEF RunningInv, Shape, Invoke
<1>3. UNCHANGED <<provider, device>>
  BY DEF Invoke
<1> QED BY <1>2, <1>3, Untouched

\* A device whose start was acknowledged never runs behind the back of its
\* session: its owner can tell, and stop it again.
THEOREM RunningInvariant == Spec => []RunningIsStarted
<1>1. Init => RunningInv
  BY DEF Init, Unopened, RunningInv, Shape, ClosedHasNone, OnlyPhysicalRuns, RunningIsStarted
<1>2. RunningInv /\ [Next]_vars => RunningInv'
  <2> SUFFICES ASSUME RunningInv, [Next]_vars PROVE RunningInv'
    OBVIOUS
  <2>1. ASSUME NEW s \in Session, OpenSession(s) PROVE RunningInv'
    BY <2>1, OpenKeeps
  <2>2. ASSUME NEW s \in Session, DropSession(s) PROVE RunningInv'
    BY <2>2, DropKeeps
  <2>3. ASSUME NEW s \in Session, NEW ok \in BOOLEAN, Start(s, ok) PROVE RunningInv'
    BY <2>3, StartKeeps
  <2>4. ASSUME NEW s \in Session, NEW ok \in BOOLEAN, NEW after \in {device[s], "closed"},
               Stop(s, ok, after)
        PROVE RunningInv'
    BY <2>4, StopKeeps
  <2>5. ASSUME NEW s \in Session,
               \/ \E delivered \in BOOLEAN : PollPhysical(s, delivered)
               \/ \E decoded \in BOOLEAN : PollSample(s, decoded)
               \/ PollFrame(s)
        PROVE RunningInv'
    BY <2>5, PollsKeep
  <2>6. ASSUME NEW s \in Session, NEW payload \in Payloads, NEW ok \in BOOLEAN,
               NEW acted \in BOOLEAN, Invoke(s, payload, ok, acted)
        PROVE RunningInv'
    BY <2>6, InvokeKeeps
  <2>7. CASE UNCHANGED vars
    BY <2>7 DEF vars, RunningInv, Shape, ClosedHasNone, OnlyPhysicalRuns, Physical,
                RunningIsStarted
  <2> QED BY <2>1, <2>2, <2>3, <2>4, <2>5, <2>6, <2>7 DEF Next
<1>3. RunningInv => RunningIsStarted
  BY DEF RunningInv
<1> QED BY <1>1, <1>2, <1>3, PTL DEF Spec

-----------------------------------------------------------------------------
(* Types                                                                   *)

Phases == {"unopened", "open", "dropped"}
Number == 0 .. MaxSeq
Command == [id : Nat, name : {p.command : p \in Payloads}, number : Nat]
Receipt == [session : Session, command : Command, sequence : Nat]
Sample == [kind : {"sample", "lost"}, seq : Number]
Value == [phase : Phases, started : BOOLEAN, seq : Number, samples : Seq(Number),
          frames : Seq(Number), sent : Seq(Command)]

ProviderTyped ==
  /\ provider.samples \in Seq(Number) /\ provider.frames \in Seq(Number)
  /\ provider.route \in {"hardware", "cassette", "import"} \cup VitureRoutes
  /\ provider.route = "import" => provider.file \in Imports

Typed ==
  /\ ProviderTyped
  /\ session \in [Session -> Value]
  /\ applied \in [Session -> Seq(Command)]
  /\ polled \in [Session -> Seq(Sample)]
  /\ shown \in [Session -> Seq(Number)]
  /\ receipts \in Seq(Receipt)
  /\ calls \in Nat

\* The events of a file are numbered from zero, and their numbers fit an i64.
LEMMA EventsNumbered ==
  ASSUME NEW file \in Imports
  PROVE  /\ Cardinality(EventLines(file)) \in Nat
         /\ Events(file) \in Seq(Number)
         /\ Len(Events(file)) = Cardinality(EventLines(file))
         /\ \A i \in 1 .. Len(Events(file)) :
              Events(file)[i] = i - 1 /\ Events(file)[i] <= MaxSigned
<1> DEFINE n == Cardinality(EventLines(file))
<1>1. file.lines \in Seq(Lines)
  BY DeviceAssumption
<1>2. IsFiniteSet(EventLines(file))
  <2>1. IsFiniteSet(1 .. Len(file.lines))
    BY <1>1, FS_Interval
  <2>2. DOMAIN file.lines = 1 .. Len(file.lines)
    BY <1>1
  <2>3. EventLines(file) \subseteq DOMAIN file.lines
    BY Zenon DEF EventLines
  <2> QED BY <2>1, <2>2, <2>3, FS_Subset
<1>3. n \in Nat
  BY <1>2, FS_CardinalityType
<1>4. n <= MaxSigned + 1 /\ MaxSigned \in 0 .. MaxSeq /\ MaxSeq \in Nat
  BY DeviceAssumption
<1>5. Events(file) = [i \in 1 .. n |-> i - 1]
  BY DEF Events
<1> HIDE DEF n
<1>6. \A i \in 1 .. n : i - 1 \in Number /\ i - 1 <= MaxSigned
  BY <1>3, <1>4 DEF Number
<1>7. Events(file) \in Seq(Number) /\ Len(Events(file)) = n
  BY <1>3, <1>5, <1>6
<1> QED BY <1>3, <1>5, <1>6, <1>7 DEF n

\* A provider is built once, for one route.
LEMMA InitTyped == Init => Typed
<1> SUFFICES ASSUME Init PROVE Typed
  OBVIOUS
<1>1. ProviderTyped
  <2> DEFINE Recorded == Scripts \cup {<<>>}
             Routes == {"hardware", "cassette", "import", "carina", "legacy", "scripted"}
  <2>1. \A x \in Recorded : x \in Seq(Number)
    <3>1. <<>> \in Seq(Number)
      OBVIOUS
    <3>2. Scripts \subseteq Seq(Number)
      BY DeviceAssumption, Zenon DEF Number
    <3> QED BY <3>1, <3>2
  <2>2. /\ provider.route \in Routes /\ provider.samples \in Recorded
        /\ provider.frames \in Recorded
        /\ provider.route = "import" => provider.file \in Imports
    BY DEF Init, PhysicalRoutes
  <2>3. Routes = {"hardware", "cassette", "import"} \cup VitureRoutes
    BY DEF VitureRoutes, PhysicalRoutes
  <2> QED BY <2>1, <2>2, <2>3 DEF ProviderTyped
<1>2. session \in [Session -> Value]
  BY DeviceAssumption DEF Init, Unopened, Value, Phases, Number
<1> QED BY <1>1, <1>2 DEF Init, Typed

\* The record of a session opened to replay the samples q and the frames f.
OpenedWith(q, f) == [Unopened EXCEPT !.phase = "open", !.samples = q, !.frames = f]

\* A session that is opened has what it will replay, and has done nothing.
LEMMA OpenedValue ==
  ASSUME NEW q \in Seq(Number), NEW f \in Seq(Number)
  PROVE  /\ OpenedWith(q, f) \in Value
         /\ OpenedWith(q, f).phase = "open"
         /\ OpenedWith(q, f).samples = q /\ OpenedWith(q, f).frames = f
         /\ OpenedWith(q, f).seq = 0 /\ OpenedWith(q, f).sent = <<>>
<1> DEFINE u == [Unopened EXCEPT !.phase = "open"]
           v == [u EXCEPT !.samples = q]
           w == [v EXCEPT !.frames = f]
<1>1. Unopened \in Value /\ Unopened.seq = 0 /\ Unopened.sent = <<>>
  BY DeviceAssumption DEF Unopened, Value, Phases, Number
<1>2. u \in Value /\ u.phase = "open" /\ u.seq = 0 /\ u.sent = <<>>
  BY <1>1 DEF Value, Phases
<1> HIDE DEF u
<1>3. v \in Value /\ v.phase = "open" /\ v.samples = q /\ v.seq = 0 /\ v.sent = <<>>
  BY <1>2 DEF Value
<1> HIDE DEF v
<1>4. /\ w \in Value /\ w.phase = "open" /\ w.samples = q /\ w.frames = f
      /\ w.seq = 0 /\ w.sent = <<>>
  BY <1>3 DEF Value
<1>5. w = OpenedWith(q, f)
  BY DEF u, v, OpenedWith
<1> HIDE DEF w
<1> QED BY <1>4, <1>5

\* What a session is opened with.
LEMMA OpenedTyped ==
  ASSUME ProviderTyped, Opens
  PROVE  Replayed(provider.route) \in Seq(Number)
<1>1. CASE provider.route = "import"
  BY <1>1, EventsNumbered DEF ProviderTyped, Replayed
<1>2. CASE provider.route # "import"
  BY <1>2 DEF ProviderTyped, Replayed
<1> QED BY <1>1, <1>2

\* Opening gives one session a fresh value.
LEMMA OpenedSession ==
  ASSUME Typed, NEW s \in Session, OpenSession(s)
  PROVE  /\ session' \in [Session -> Value]
         /\ \A t \in Session \ {s} : session'[t] = session[t]
         /\ session'[s].phase = "open"
         /\ session'[s].samples = Replayed(provider.route)
         /\ session'[s].frames = IF provider.route = "scripted" THEN provider.frames ELSE <<>>
         /\ session'[s].seq = 0 /\ session'[s].sent = <<>>
<1> DEFINE q == Replayed(provider.route)
           f == IF provider.route = "scripted" THEN provider.frames ELSE <<>>
           v == OpenedWith(q, f)
<1>1. q \in Seq(Number)
  <2>1. ProviderTyped /\ Opens
    BY DEF OpenSession, Typed
  <2> QED BY <2>1, OpenedTyped
<1>2. f \in Seq(Number)
  <2>1. provider.frames \in Seq(Number) /\ <<>> \in Seq(Number)
    BY DEF Typed, ProviderTyped
  <2> QED BY <2>1
<1>3. session' = [session EXCEPT ![s] = v]
  BY Zenon DEF OpenSession, OpenedWith
<1> HIDE DEF f, q
<1>4. /\ v \in Value /\ v.phase = "open" /\ v.samples = q /\ v.frames = f
      /\ v.seq = 0 /\ v.sent = <<>>
  BY <1>1, <1>2, OpenedValue
<1>5. session \in [Session -> Value]
  BY DEF Typed
<1> HIDE DEF v
<1>6. session' \in [Session -> Value] /\ session'[s] = v
      /\ \A t \in Session \ {s} : session'[t] = session[t]
  BY <1>3, <1>4, <1>5
<1> QED BY <1>4, <1>6 DEF q, f

\* What a command carries.
LEMMA CommandTyped ==
  ASSUME NEW payload \in Payloads, NEW n \in Nat
  PROVE  [id |-> n, name |-> payload.command, number |-> payload.number] \in Command
BY DeviceAssumption DEF Command, Payload

\* The route, and what it replays, stay those the provider was built for.
LEMMA ProviderFixed ==
  ASSUME [Next]_vars
  PROVE  provider' = provider
<1>1. ASSUME NEW s \in Session, OpenSession(s) \/ DropSession(s)
      PROVE  provider' = provider
  BY <1>1 DEF OpenSession, DropSession
<1>2. ASSUME NEW s, NEW ok, NEW after, Start(s, ok) \/ Stop(s, ok, after)
      PROVE  provider' = provider
  BY <1>2 DEF Start, Stop
<1>3. ASSUME NEW s, NEW b, PollPhysical(s, b) \/ PollSample(s, b) \/ PollFrame(s)
      PROVE  provider' = provider
  BY <1>3 DEF PollPhysical, PollSample, PollFrame
<1>4. ASSUME NEW s, NEW payload, NEW ok, NEW acted, Invoke(s, payload, ok, acted)
      PROVE  provider' = provider
  BY <1>4 DEF Invoke
<1>5. CASE UNCHANGED vars
  BY <1>5 DEF vars
<1> QED BY <1>1, <1>2, <1>3, <1>4, <1>5 DEF Next

\* Every call leaves the values it works on well-formed.
LEMMA StepTyped == Typed /\ [Next]_vars => Typed'
<1> SUFFICES ASSUME Typed, [Next]_vars PROVE Typed'
  OBVIOUS
<1> USE DEF Typed
<1>1. provider' = provider
  BY ProviderFixed
<1>2. ProviderTyped'
  BY <1>1 DEF ProviderTyped
<1>3. ASSUME NEW s \in Session, OpenSession(s) PROVE Typed'
  BY <1>2, <1>3, OpenedSession DEF OpenSession
<1>4. ASSUME NEW s \in Session, DropSession(s) PROVE Typed'
  <2>1. session' \in [Session -> Value]
    <3>1. \A v \in Value : [v EXCEPT !.phase = "dropped", !.started = FALSE] \in Value
      BY DEF Value, Phases
    <3>2. session' = [session EXCEPT ![s] = [session[s] EXCEPT !.phase = "dropped",
                                                               !.started = FALSE]]
      BY <1>4 DEF DropSession
    <3> HIDE DEF Typed
    <3>3. session \in [Session -> Value]
      BY DEF Typed
    <3> QED BY <3>1, <3>2, <3>3
  <2> QED BY <1>2, <1>4, <2>1 DEF DropSession
<1>5. ASSUME NEW s \in Session, NEW ok \in BOOLEAN, Start(s, ok) PROVE Typed'
  <2>1. session' \in [Session -> Value]
    BY <1>5 DEF Start, Value
  <2> QED BY <1>2, <1>5, <2>1 DEF Start
<1>6. ASSUME NEW s \in Session, NEW ok \in BOOLEAN, NEW after, Stop(s, ok, after) PROVE Typed'
  <2>1. session' \in [Session -> Value]
    BY <1>6 DEF Stop, Value
  <2> QED BY <1>2, <1>6, <2>1 DEF Stop
<1>7. ASSUME NEW s \in Session, NEW delivered \in BOOLEAN, PollPhysical(s, delivered)
      PROVE  Typed'
  <2>1. session[s].seq \in Number /\ NextSeq(session[s].seq, delivered) \in Number
    BY DeviceAssumption DEF Value, Number, NextSeq
  <2>2. session' \in [Session -> Value]
    BY <1>7, <2>1 DEF PollPhysical, Value
  <2>3. [kind |-> "sample", seq |-> session[s].seq] \in Sample
    BY <2>1 DEF Sample
  <2>4. polled' \in [Session -> Seq(Sample)]
    BY <1>7, <2>3 DEF PollPhysical
  <2> QED BY <1>2, <1>7, <2>2, <2>4 DEF PollPhysical
<1>8. ASSUME NEW s \in Session, NEW decoded \in BOOLEAN, PollSample(s, decoded) PROVE Typed'
  <2> DEFINE q == session[s].samples
             x == [kind |-> IF decoded /\ ~Decodes(Head(q)) THEN "lost" ELSE "sample",
                   seq |-> Head(q)]
  <2>1. q \in Seq(Number) /\ q # <<>>
    BY <1>8 DEF PollSample, Value
  <2>2. Head(q) \in Number /\ Tail(q) \in Seq(Number)
    <3> HIDE DEF q
    <3> QED BY <2>1
  <2>3. /\ session' = [session EXCEPT ![s].samples = Tail(q)]
        /\ polled' = [polled EXCEPT ![s] = Append(@, x)]
    BY <1>8 DEF PollSample
  <2>4. x \in Sample
    BY <2>2 DEF Sample
  <2> HIDE DEF x, q
  <2>5. session' \in [Session -> Value]
    BY <2>2, <2>3 DEF Value
  <2>6. polled' \in [Session -> Seq(Sample)]
    BY <2>3, <2>4
  <2> QED BY <1>2, <1>8, <2>5, <2>6 DEF PollSample
<1>9. ASSUME NEW s \in Session, PollFrame(s) PROVE Typed'
  <2> DEFINE q == session[s].frames
  <2>1. q \in Seq(Number) /\ q # <<>>
    BY <1>9 DEF PollFrame, Value
  <2>2. Head(q) \in Number /\ Tail(q) \in Seq(Number)
    <3> HIDE DEF q
    <3> QED BY <2>1
  <2>3. /\ session' = [session EXCEPT ![s].frames = Tail(q)]
        /\ shown' = [shown EXCEPT ![s] = Append(@, Head(q))]
    BY <1>9 DEF PollFrame
  <2> HIDE DEF q
  <2>4. session' \in [Session -> Value]
    BY <2>2, <2>3 DEF Value
  <2> DEFINE x == Head(q)
  <2>5. x \in Number /\ shown' = [shown EXCEPT ![s] = Append(@, x)]
    BY <2>2, <2>3
  <2> HIDE DEF x
  <2>6. shown' \in [Session -> Seq(Number)]
    BY <2>5
  <2> QED BY <1>2, <1>9, <2>4, <2>6 DEF PollFrame
<1>10. ASSUME NEW s \in Session, NEW payload \in Payloads, NEW ok \in BOOLEAN,
              NEW acted \in BOOLEAN, Invoke(s, payload, ok, acted)
       PROVE  Typed'
  <2> DEFINE c == [id |-> calls, name |-> payload.command, number |-> payload.number]
             sent == IF Records(c, ok) THEN Append(session[s].sent, c) ELSE session[s].sent
             r == [session |-> s, command |-> c, sequence |-> Len(sent)]
  <2>1. c \in Command
    BY CommandTyped
  <2>2. /\ session' = [session EXCEPT ![s].sent = sent]
        /\ applied' = IF NeedsDevice(c) /\ acted
                      THEN [applied EXCEPT ![s] = Append(@, c)] ELSE applied
        /\ receipts' = IF NeedsDevice(c) => ok THEN Append(receipts, r) ELSE receipts
        /\ calls' = calls + 1 /\ UNCHANGED <<polled, shown>>
    BY <1>10 DEF Invoke
  <2> HIDE DEF c
  <2>3. session[s].sent \in Seq(Command)
    BY DEF Value
  <2>4. sent \in Seq(Command)
    BY <2>1, <2>3
  <2> HIDE DEF sent
  <2>5. session' \in [Session -> Value]
    BY <2>2, <2>4 DEF Value
  <2>6. r \in Receipt
    BY <2>1, <2>4 DEF Receipt
  <2> HIDE DEF r
  <2>7. applied' \in [Session -> Seq(Command)] /\ receipts' \in Seq(Receipt)
    BY <2>1, <2>2, <2>6
  <2> QED BY <1>2, <2>2, <2>5, <2>7
<1>11. CASE UNCHANGED vars
  BY <1>2, <1>11 DEF vars
<1> QED BY <1>3, <1>4, <1>5, <1>6, <1>7, <1>8, <1>9, <1>10, <1>11 DEF Next

-----------------------------------------------------------------------------
(* What was sent, what was acknowledged and what a device acted on.  A     *)
(* command carries the number of its call, and those numbers rise in all   *)
(* three lists: so the order in one is the order in the others.            *)

\* The receipts of a session number its commands, in order.
Answered(sent, rs, s) ==
  LET mine == {k \in DOMAIN rs : rs[k].session = s}
  IN  /\ \A i \in DOMAIN sent : \E k \in mine : rs[k].sequence = i
      /\ \A k \in mine : /\ rs[k].sequence \in DOMAIN sent
                         /\ rs[k].command = sent[rs[k].sequence]
      /\ \A j, k \in mine : j < k => rs[j].sequence < rs[k].sequence

Rising(commands) ==
  \A i, j \in DOMAIN commands : i < j => commands[i].id < commands[j].id

Older(commands, n) == \A i \in DOMAIN commands : commands[i].id < n

\* Of the commands a session lists, a device has acted on those meant for it.
ActedOn(sent, done) ==
  \A i \in DOMAIN sent : NeedsDevice(sent[i]) <=> \E n \in DOMAIN done : done[n] = sent[i]

Acknowledged(s) ==
  /\ Answered(session[s].sent, receipts, s)
  /\ ActedOn(session[s].sent, applied[s])
  /\ Rising(session[s].sent) /\ Older(session[s].sent, calls)
  /\ Rising(applied[s]) /\ Older(applied[s], calls)
  /\ session[s].phase = "unopened" => session[s].sent = <<>>

AckInv == Typed /\ \A s \in Session : Acknowledged(s)

\* One command and its receipt more.
LEMMA AnsweredMore ==
  ASSUME NEW s, NEW sent \in Seq(Command), NEW rs \in Seq(Receipt), Answered(sent, rs, s),
         NEW c \in Command, NEW r \in Receipt,
         r.session = s, r.command = c, r.sequence = Len(sent) + 1
  PROVE  Answered(Append(sent, c), Append(rs, r), s)
<1> DEFINE t == Append(sent, c)
           u == Append(rs, r)
           m == Len(sent)
           n == Len(rs)
           mine == {k \in DOMAIN rs : rs[k].session = s}
           now == {k \in DOMAIN u : u[k].session = s}
<1>1. /\ m \in Nat /\ DOMAIN sent = 1 .. m /\ DOMAIN t = 1 .. (m + 1) /\ t[m + 1] = c
      /\ \A i \in 1 .. m : t[i] = sent[i]
  OBVIOUS
<1>2. /\ n \in Nat /\ DOMAIN rs = 1 .. n /\ DOMAIN u = 1 .. (n + 1) /\ u[n + 1] = r
      /\ \A k \in 1 .. n : u[k] = rs[k]
  OBVIOUS
<1>3. /\ \A i \in DOMAIN sent : \E k \in mine : rs[k].sequence = i
      /\ \A k \in mine : /\ rs[k].sequence \in DOMAIN sent
                         /\ rs[k].command = sent[rs[k].sequence]
      /\ \A j, k \in mine : j < k => rs[j].sequence < rs[k].sequence
  BY DEF Answered
<1> HIDE DEF t, u, m, n
<1>4. r.sequence = m + 1
  BY DEF m
<1>5. now = mine \cup {n + 1} /\ mine \subseteq 1 .. n
  BY <1>2
<1> HIDE DEF mine, now
<1>6. \A i \in DOMAIN t : \E k \in now : u[k].sequence = i
  BY <1>1, <1>2, <1>3, <1>4, <1>5
<1>7. \A k \in now : /\ u[k].sequence \in DOMAIN t
                     /\ u[k].command = t[u[k].sequence]
  BY <1>1, <1>2, <1>3, <1>4, <1>5
<1>8. \A j, k \in now : j < k => u[j].sequence < u[k].sequence
  BY <1>1, <1>2, <1>3, <1>4, <1>5
<1>9. Answered(t, u, s)
  BY <1>6, <1>7, <1>8 DEF Answered, now
<1> QED BY <1>9 DEF t, u

\* A receipt of another session.
LEMMA AnsweredOther ==
  ASSUME NEW s, NEW sent, NEW rs \in Seq(Receipt), Answered(sent, rs, s),
         NEW r \in Receipt, r.session # s
  PROVE  Answered(sent, Append(rs, r), s)
<1> DEFINE u == Append(rs, r)
           n == Len(rs)
           mine == {k \in DOMAIN rs : rs[k].session = s}
           now == {k \in DOMAIN u : u[k].session = s}
<1>1. /\ n \in Nat /\ DOMAIN rs = 1 .. n /\ DOMAIN u = 1 .. (n + 1) /\ u[n + 1] = r
      /\ \A k \in 1 .. n : u[k] = rs[k]
  OBVIOUS
<1> HIDE DEF u, n
<1>2. now = mine /\ mine \subseteq 1 .. n
  BY <1>1
<1>3. \A k \in mine : u[k] = rs[k]
  BY <1>1, <1>2
<1>4. /\ \A i \in DOMAIN sent : \E k \in mine : rs[k].sequence = i
      /\ \A k \in mine : /\ rs[k].sequence \in DOMAIN sent
                         /\ rs[k].command = sent[rs[k].sequence]
      /\ \A j, k \in mine : j < k => rs[j].sequence < rs[k].sequence
  BY DEF Answered
<1> HIDE DEF mine, now
<1>5. /\ \A i \in DOMAIN sent : \E k \in mine : u[k].sequence = i
      /\ \A k \in mine : /\ u[k].sequence \in DOMAIN sent
                         /\ u[k].command = sent[u[k].sequence]
      /\ \A j, k \in mine : j < k => u[j].sequence < u[k].sequence
  BY <1>3, <1>4
<1>6. Answered(sent, u, s)
  BY <1>2, <1>5 DEF Answered, now
<1> QED BY <1>6 DEF u

\* Every command in a list has a number.
LEMMA CommandsNumbered ==
  ASSUME NEW q \in Seq(Command)
  PROVE  \A i \in DOMAIN q : q[i] \in Command /\ q[i].id \in Nat
<1>1. \A i \in DOMAIN q : q[i] \in Command
  OBVIOUS
<1>2. \A x \in Command : x.id \in Nat
  BY DEF Command
<1> QED BY <1>1, <1>2

\* A list goes on with the command of the current call.
LEMMA RisingMore ==
  ASSUME NEW q \in Seq(Command), NEW n \in Nat, Rising(q), Older(q, n),
         NEW c \in Command, c.id = n
  PROVE  Rising(Append(q, c)) /\ Older(Append(q, c), n + 1)
<1> DEFINE t == Append(q, c)
           m == Len(q)
<1>1. /\ m \in Nat /\ DOMAIN q = 1 .. m /\ DOMAIN t = 1 .. (m + 1) /\ t[m + 1] = c
      /\ \A i \in 1 .. m : t[i] = q[i]
  OBVIOUS
<1>2. \A i \in 1 .. m : q[i].id \in Nat /\ q[i].id < n
  BY <1>1, CommandsNumbered DEF Older
<1> HIDE DEF t, m
<1>3. Rising(t)
  BY <1>1, <1>2 DEF Rising
<1>4. Older(t, n + 1)
  BY <1>1, <1>2 DEF Older
<1> QED BY <1>3, <1>4 DEF t

\* A list that does not go on.
LEMMA OlderStill ==
  ASSUME NEW q \in Seq(Command), NEW n \in Nat, Older(q, n)
  PROVE  Older(q, n + 1)
<1>1. \A i \in DOMAIN q : q[i].id \in Nat
  BY CommandsNumbered
<1> QED BY <1>1 DEF Older

\* A call other than invoke leaves the lists alone.
LEMMA AckUntouched ==
  ASSUME AckInv, Typed', provider' = provider, UNCHANGED <<applied, receipts, calls>>,
         \A s \in Session :
           /\ session'[s].sent = session[s].sent
           /\ session'[s].phase = "unopened" => session[s].phase = "unopened"
  PROVE  AckInv'
<1> SUFFICES ASSUME NEW s \in Session PROVE Acknowledged(s)'
  BY DEF AckInv
<1>1. Acknowledged(s)
  BY DEF AckInv
<1>2. session'[s].sent = session[s].sent
  OBVIOUS
<1> DEFINE sent == session[s].sent
<1>3. Answered(sent, receipts, s)' /\ Rising(sent)' /\ Older(sent, calls)'
  BY <1>1, <1>2 DEF Acknowledged, Answered, Rising, Older
<1>4. Rising(applied[s])' /\ Older(applied[s], calls)'
  BY <1>1 DEF Acknowledged, Rising, Older
<1>5. ActedOn(sent, applied[s])'
  BY <1>1, <1>2 DEF Acknowledged, ActedOn, NeedsDevice, Physical
<1> QED BY <1>1, <1>2, <1>3, <1>4, <1>5 DEF Acknowledged

\* A command that a device did not acknowledge is in no list but perhaps that
\* of what it acted on; any other is in the lists it belongs in.
LEMMA InvokeActs ==
  ASSUME NEW sent \in Seq(Command), NEW done \in Seq(Command), NEW n \in Nat,
         ActedOn(sent, done), Older(sent, n), Older(done, n),
         NEW c \in Command, c.id = n,
         NEW sent2, NEW done2,
         \/ sent2 = sent /\ done2 = done
         \/ sent2 = sent /\ done2 = Append(done, c)
         \/ sent2 = Append(sent, c) /\ done2 = Append(done, c) /\ NeedsDevice(c)
         \/ sent2 = Append(sent, c) /\ done2 = done /\ ~NeedsDevice(c)
  PROVE  ActedOn(sent2, done2)
<1> DEFINE m == Len(sent)
           k == Len(done)
           t == Append(sent, c)
           d == Append(done, c)
           Acted(x, q) == \E i \in DOMAIN q : q[i] = x
<1>1. /\ m \in Nat /\ DOMAIN sent = 1 .. m /\ DOMAIN t = 1 .. (m + 1) /\ t[m + 1] = c
      /\ \A i \in 1 .. m : t[i] = sent[i]
  OBVIOUS
<1>2. /\ k \in Nat /\ DOMAIN done = 1 .. k /\ DOMAIN d = 1 .. (k + 1) /\ d[k + 1] = c
      /\ \A i \in 1 .. k : d[i] = done[i]
  OBVIOUS
<1>3. /\ \A i \in DOMAIN sent : sent[i].id \in Nat /\ sent[i].id < n
      /\ \A i \in DOMAIN done : done[i].id \in Nat /\ done[i].id < n
  BY CommandsNumbered DEF Older
<1>4. /\ \A i \in DOMAIN sent : sent[i] # c
      /\ ~Acted(c, done)
  BY <1>3
<1> HIDE DEF m, k, t, d
<1>5. \A x : Acted(x, d) <=> Acted(x, done) \/ x = c
  BY <1>2
<1>6. \A i \in DOMAIN sent : NeedsDevice(sent[i]) <=> Acted(sent[i], done)
  BY DEF ActedOn
<1>7. \A i \in DOMAIN sent : Acted(sent[i], d) <=> Acted(sent[i], done)
  BY <1>4, <1>5
<1> HIDE DEF Acted
<1>8. ActedOn(sent, d)
  <2>1. \A i \in DOMAIN sent : NeedsDevice(sent[i]) <=> Acted(sent[i], d)
    BY <1>6, <1>7
  <2> QED BY <2>1 DEF ActedOn, Acted
<1>9. ASSUME NEW q, \A i \in DOMAIN sent : NeedsDevice(sent[i]) <=> Acted(sent[i], q),
             NeedsDevice(c) <=> Acted(c, q)
      PROVE  ActedOn(t, q)
  <2>1. \A i \in DOMAIN t : t[i] = c \/ \E j \in DOMAIN sent : t[i] = sent[j]
    BY <1>1
  <2>2. \A i \in DOMAIN t : NeedsDevice(t[i]) <=> Acted(t[i], q)
    BY <1>9, <2>1
  <2> QED BY <2>2 DEF ActedOn, Acted
<1>10. NeedsDevice(c) => ActedOn(t, d)
  BY <1>5, <1>6, <1>7, <1>9
<1>11. ~NeedsDevice(c) => ActedOn(t, done)
  BY <1>4, <1>6, <1>9
<1> QED BY <1>8, <1>10, <1>11 DEF t, d

\* A command is applied, listed and acknowledged, or fails on its way.
LEMMA InvokeAcknowledged ==
  ASSUME AckInv, Typed', NEW s \in Session, NEW payload \in Payloads, NEW ok \in BOOLEAN,
         NEW acted \in BOOLEAN, Invoke(s, payload, ok, acted)
  PROVE  AckInv'
<1> DEFINE c == [id |-> calls, name |-> payload.command, number |-> payload.number]
           sent == session[s].sent
           sent2 == IF Records(c, ok) THEN Append(sent, c) ELSE sent
           r == [session |-> s, command |-> c, sequence |-> Len(sent2)]
           done == applied[s]
           done2 == applied'[s]
<1>1. /\ session' = [session EXCEPT ![s].sent = sent2]
      /\ applied' = IF NeedsDevice(c) /\ acted
                    THEN [applied EXCEPT ![s] = Append(@, c)] ELSE applied
      /\ receipts' = IF NeedsDevice(c) => ok THEN Append(receipts, r) ELSE receipts
      /\ calls' = calls + 1 /\ provider' = provider
      /\ ok => acted
      /\ session[s].phase = "open"
  BY DEF Invoke
<1>2. /\ session \in [Session -> Value] /\ applied \in [Session -> Seq(Command)]
      /\ receipts \in Seq(Receipt) /\ calls \in Nat
      /\ sent \in Seq(Command) /\ done \in Seq(Command)
  BY DEF AckInv, Typed, Value
<1>3. c \in Command /\ c.id = calls
  BY <1>2, CommandTyped
<1>4. r.session = s /\ r.command = c /\ r.sequence = Len(sent2)
  OBVIOUS
<1>5. Records(c, ok) <=> (NeedsDevice(c) => ok)
  BY DEF Records
<1> HIDE DEF c
<1>6. sent2 \in Seq(Command) /\ r \in Receipt
  <2>1. sent2 \in Seq(Command)
    BY <1>2, <1>3
  <2> QED BY <1>3, <2>1 DEF Receipt
<1>7. \A x : NeedsDevice(x)' <=> NeedsDevice(x')
  BY <1>1 DEF NeedsDevice, Physical
<1>8. session'[s].sent = sent2 /\ session'[s].phase = "open"
  BY <1>1, <1>2 DEF Value
<1>9. ASSUME NEW x \in Session, x # s
      PROVE  session'[x] = session[x] /\ applied'[x] = applied[x]
  BY <1>1, <1>2, <1>9
<1> HIDE DEF r, sent2
<1>10. ASSUME NEW x \in Session, x # s PROVE Acknowledged(x)'
  <2>1. Acknowledged(x) /\ session[x].sent \in Seq(Command) /\ applied[x] \in Seq(Command)
    BY <1>2 DEF AckInv, Value
  <2>2. Answered(session[x].sent, receipts', x)
    <3>1. Answered(session[x].sent, receipts, x)
      BY <2>1 DEF Acknowledged
    <3>2. CASE receipts' = receipts
      BY <3>1, <3>2
    <3>3. CASE receipts' = Append(receipts, r)
      BY <1>2, <1>4, <1>6, <1>10, <3>1, <3>3, AnsweredOther
    <3> QED BY <1>1, <3>2, <3>3
  <2>3. /\ Rising(session[x].sent) /\ Older(session[x].sent, calls')
        /\ Rising(applied[x]) /\ Older(applied[x], calls')
    BY <1>1, <1>2, <2>1, OlderStill DEF Acknowledged
  <2>4. ActedOn(session[x].sent, applied[x])'
    BY <1>7, <1>9, <1>10, <2>1 DEF Acknowledged, ActedOn
  <2> QED BY <1>9, <1>10, <2>1, <2>2, <2>3, <2>4 DEF Acknowledged
<1>11. /\ Answered(sent, receipts, s) /\ ActedOn(sent, done)
       /\ Rising(sent) /\ Older(sent, calls) /\ Rising(done) /\ Older(done, calls)
  BY DEF AckInv, Acknowledged
<1>12. done2 = IF NeedsDevice(c) /\ acted THEN Append(done, c) ELSE done
  BY <1>1, <1>2
<1> HIDE DEF sent, done, done2
<1>13. /\ Answered(sent2, receipts', s) /\ ActedOn(sent2, done2)
       /\ Rising(sent2) /\ Older(sent2, calls') /\ Rising(done2) /\ Older(done2, calls')
  <2>1. Rising(done2) /\ Older(done2, calls')
    BY <1>1, <1>2, <1>3, <1>11, <1>12, RisingMore, OlderStill
  <2>2. CASE Records(c, ok)
    <3>1. sent2 = Append(sent, c) /\ receipts' = Append(receipts, r)
      BY <1>1, <1>5, <2>2 DEF sent2
    <3>2. r.sequence = Len(sent) + 1
      BY <1>2, <1>3, <1>4, <3>1
    <3>3. Answered(sent2, receipts', s)
      BY <1>2, <1>3, <1>4, <1>6, <1>11, <3>1, <3>2, AnsweredMore
    <3>4. Rising(sent2) /\ Older(sent2, calls')
      BY <1>1, <1>2, <1>3, <1>11, <3>1, RisingMore
    <3>5. \/ done2 = Append(done, c) /\ NeedsDevice(c)
          \/ done2 = done /\ ~NeedsDevice(c)
      BY <1>1, <1>5, <1>12, <2>2
    <3>6. ActedOn(sent2, done2)
      BY <1>2, <1>3, <1>11, <3>1, <3>5, InvokeActs
    <3> QED BY <2>1, <3>3, <3>4, <3>6
  <2>3. CASE ~Records(c, ok)
    <3>1. sent2 = sent /\ receipts' = receipts
      BY <1>1, <1>5, <2>3 DEF sent2
    <3>2. done2 = done \/ done2 = Append(done, c)
      BY <1>12
    <3>3. ActedOn(sent2, done2)
      BY <1>2, <1>3, <1>11, <3>1, <3>2, InvokeActs
    <3>4. Older(sent2, calls')
      BY <1>1, <1>2, <1>11, <3>1, OlderStill
    <3> QED BY <1>11, <2>1, <3>1, <3>3, <3>4
  <2> QED BY <2>2, <2>3
<1>14. ActedOn(session'[s].sent, applied'[s])
  BY <1>8, <1>13 DEF done2
<1>15. ActedOn(session[s].sent, applied[s])'
  BY <1>7, <1>14 DEF ActedOn
<1>16. Acknowledged(s)'
  BY <1>8, <1>13, <1>15 DEF Acknowledged, done2
<1> QED BY <1>10, <1>16 DEF AckInv

\* Every call keeps the lists in step.
LEMMA StepAcknowledged == AckInv /\ [Next]_vars => AckInv'
<1> SUFFICES ASSUME AckInv, [Next]_vars PROVE AckInv'
  OBVIOUS
<1>1. Typed /\ Typed' /\ provider' = provider
  BY StepTyped, ProviderFixed DEF AckInv
<1>2. /\ DOMAIN session = Session
      /\ \A x \in Session : DOMAIN session[x] =
           {"phase", "started", "seq", "samples", "frames", "sent"}
  BY <1>1 DEF Typed, Value
<1>3. ASSUME NEW s \in Session, OpenSession(s) PROVE AckInv'
  <2>1. session[s].sent = <<>>
    BY <1>3 DEF AckInv, Acknowledged, OpenSession
  <2>2. \A x \in Session : /\ session'[x].sent = session[x].sent
                           /\ session'[x].phase = "unopened" => session[x].phase = "unopened"
    BY <1>1, <1>3, <2>1, OpenedSession
  <2> QED BY <1>1, <1>3, <2>2, AckUntouched DEF OpenSession
<1>4. ASSUME NEW s \in Session,
             \/ DropSession(s)
             \/ \E ok \in BOOLEAN : Start(s, ok)
             \/ \E ok \in BOOLEAN, after \in {device[s], "closed"} : Stop(s, ok, after)
      PROVE  AckInv'
  <2>1. /\ UNCHANGED <<applied, receipts, calls>>
        /\ \/ session' = session
           \/ session' = [session EXCEPT ![s].phase = "dropped", ![s].started = FALSE]
           \/ \E b \in BOOLEAN : session' = [session EXCEPT ![s].started = b]
    BY <1>4 DEF DropSession, Start, Stop
  <2>2. \A x \in Session : /\ session'[x].sent = session[x].sent
                           /\ session'[x].phase = "unopened" => session[x].phase = "unopened"
    BY <1>2, <2>1
  <2> QED BY <1>1, <2>1, <2>2, AckUntouched
<1>5. ASSUME NEW s \in Session,
             \/ \E delivered \in BOOLEAN : PollPhysical(s, delivered)
             \/ \E decoded \in BOOLEAN : PollSample(s, decoded)
             \/ PollFrame(s)
      PROVE  AckInv'
  <2>1. /\ UNCHANGED <<applied, receipts, calls>>
        /\ \/ \E n : session' = [session EXCEPT ![s].seq = n]
           \/ \E q : session' = [session EXCEPT ![s].samples = q]
           \/ \E q : session' = [session EXCEPT ![s].frames = q]
    BY <1>5 DEF PollPhysical, PollSample, PollFrame
  <2>2. \A x \in Session : /\ session'[x].sent = session[x].sent
                           /\ session'[x].phase = "unopened" => session[x].phase = "unopened"
    BY <1>2, <2>1
  <2> QED BY <1>1, <2>1, <2>2, AckUntouched
<1>6. ASSUME NEW s \in Session, NEW payload \in Payloads, NEW ok \in BOOLEAN,
             NEW acted \in BOOLEAN, Invoke(s, payload, ok, acted)
      PROVE  AckInv'
  BY <1>1, <1>6, InvokeAcknowledged
<1>7. CASE UNCHANGED vars
  BY <1>1, <1>7, AckUntouched DEF vars
<1> QED BY <1>3, <1>4, <1>5, <1>6, <1>7 DEF Next

\* What a session lists as sent is what it acknowledged, and a device has acted
\* on those commands it was meant for, each once and in that order.
THEOREM ListedIsAcknowledged == Spec => []SentIsAcknowledged
<1>1. Init => AckInv
  <2> SUFFICES ASSUME Init, NEW s \in Session PROVE Acknowledged(s)
    BY InitTyped DEF AckInv
  <2>1. session[s].sent = <<>> /\ applied[s] = <<>> /\ receipts = <<>>
    BY DEF Init, Unopened
  <2> QED BY <2>1 DEF Acknowledged, Answered, ActedOn, Rising, Older
<1>2. AckInv => SentIsAcknowledged
  <2> SUFFICES ASSUME AckInv, NEW s \in Session
               PROVE  LET sent == session[s].sent
                          mine == {k \in DOMAIN receipts : receipts[k].session = s}
                      IN  /\ \A i \in DOMAIN sent : \E k \in mine : receipts[k].sequence = i
                          /\ \A k \in mine :
                               /\ receipts[k].sequence \in DOMAIN sent
                               /\ receipts[k].command = sent[receipts[k].sequence]
                          /\ \A j, k \in mine :
                               j < k => receipts[j].sequence < receipts[k].sequence
                          /\ \A i \in DOMAIN sent :
                               NeedsDevice(sent[i])
                                 <=> \E n \in DOMAIN applied[s] : applied[s][n] = sent[i]
                          /\ \A i, j \in DOMAIN sent, m, n \in DOMAIN applied[s] :
                               sent[i] = applied[s][m] /\ sent[j] = applied[s][n]
                                 => (i < j <=> m < n)
    BY DEF SentIsAcknowledged
  <2> DEFINE sent == session[s].sent
             done == applied[s]
  <2>1. /\ Answered(sent, receipts, s) /\ ActedOn(sent, done)
        /\ Rising(sent) /\ Rising(done)
        /\ sent \in Seq(Command) /\ done \in Seq(Command)
    BY DEF AckInv, Acknowledged, Typed, Value
  <2> HIDE DEF sent, done
  <2>2. ASSUME NEW i \in DOMAIN sent, NEW j \in DOMAIN sent,
               NEW m \in DOMAIN done, NEW n \in DOMAIN done,
               sent[i] = done[m], sent[j] = done[n]
        PROVE  i < j <=> m < n
    <3>1. i \in Nat /\ j \in Nat /\ m \in Nat /\ n \in Nat
      BY <2>1
    <3>2. sent[i].id \in Nat /\ sent[j].id \in Nat
      BY <2>1, CommandsNumbered
    <3>3. /\ i < j => sent[i].id < sent[j].id
          /\ j < i => sent[j].id < sent[i].id
          /\ m < n => sent[i].id < sent[j].id
          /\ n < m => sent[j].id < sent[i].id
      BY <2>1, <2>2 DEF Rising
    <3> QED BY <2>2, <3>1, <3>2, <3>3
  <2>3. \A i \in DOMAIN sent :
          NeedsDevice(sent[i]) <=> \E n \in DOMAIN done : done[n] = sent[i]
    BY <2>1 DEF ActedOn
  <2> QED BY <2>1, <2>2, <2>3 DEF Answered, sent, done
<1> QED BY <1>1, <1>2, StepAcknowledged, PTL DEF Spec

-----------------------------------------------------------------------------
(* What was polled.  A queue loses its first entry to the end of what was  *)
(* handed out; together they stay what the route replays.                  *)

\* One sequence after another.
LEMMA Concatenated ==
  ASSUME NEW S, NEW b \in Seq(S), NEW r \in Seq(S)
  PROVE  /\ b \o r \in Seq(S) /\ Len(b \o r) = Len(b) + Len(r)
         /\ \A i \in 1 .. Len(b) : (b \o r)[i] = b[i]
         /\ \A i \in 1 .. Len(r) : (b \o r)[Len(b) + i] = r[i]
OBVIOUS

\* The front of a queue moves to the end of what was handed out.
LEMMA HeadMoved ==
  ASSUME NEW S, NEW a \in Seq(S), NEW q \in Seq(S), q # <<>>
  PROVE  Append(a, Head(q)) \o Tail(q) = a \o q
<1> SUFFICES ASSUME NEW b \in Seq(S), NEW r \in Seq(S), b = Append(a, Head(q)), r = Tail(q)
             PROVE  b \o r = a \o q
  <2>1. Append(a, Head(q)) \in Seq(S) /\ Tail(q) \in Seq(S)
    OBVIOUS
  <2> QED BY <2>1
<1> DEFINE x == b \o r
           y == a \o q
           n == Len(a)
           m == Len(q)
<1>1. n \in Nat /\ m \in Nat /\ m > 0 /\ Head(q) \in S /\ Head(q) = q[1]
  OBVIOUS
<1>2. /\ b \in Seq(S) /\ Len(b) = n + 1 /\ b[n + 1] = q[1]
      /\ \A i \in 1 .. n : b[i] = a[i]
  BY <1>1
<1>3. /\ r \in Seq(S) /\ Len(r) = m - 1
      /\ \A i \in 1 .. (m - 1) : r[i] = q[i + 1]
  OBVIOUS
<1>4. /\ x \in Seq(S) /\ Len(x) = (n + 1) + (m - 1)
      /\ \A i \in 1 .. (n + 1) : x[i] = b[i]
      /\ \A i \in 1 .. (m - 1) : x[(n + 1) + i] = r[i]
  <2>1. /\ x \in Seq(S) /\ Len(x) = Len(b) + Len(r)
        /\ \A i \in 1 .. Len(b) : x[i] = b[i]
        /\ \A i \in 1 .. Len(r) : x[Len(b) + i] = r[i]
    BY Concatenated
  <2> HIDE DEF x
  <2> QED BY <1>2, <1>3, <2>1
<1>5. /\ y \in Seq(S) /\ Len(y) = n + m
      /\ \A i \in 1 .. n : y[i] = a[i]
      /\ \A i \in 1 .. m : y[n + i] = q[i]
  BY Concatenated
<1> HIDE DEF x, y, n, m
<1>6. Len(x) = Len(y)
  BY <1>1, <1>4, <1>5
<1>7. ASSUME NEW i \in 1 .. Len(y) PROVE x[i] = y[i]
  <2>1. CASE i <= n
    BY <1>1, <1>2, <1>4, <1>5, <2>1
  <2>2. CASE i = n + 1
    <3>1. 1 \in 1 .. m /\ n + 1 \in 1 .. (n + 1)
      BY <1>1
    <3>2. y[n + 1] = q[1]
      BY <1>5, <3>1
    <3>3. x[n + 1] = q[1]
      BY <1>2, <1>4, <3>1
    <3> QED BY <2>2, <3>2, <3>3
  <2>3. CASE i > n + 1
    <3> DEFINE k == i - (n + 1)
    <3>1. /\ k \in 1 .. (m - 1) /\ k + 1 \in 1 .. m
          /\ i = (n + 1) + k /\ i = n + (k + 1)
      BY <1>1, <1>5, <2>3
    <3> HIDE DEF k
    <3>2. x[i] = r[k] /\ r[k] = q[k + 1]
      BY <1>3, <1>4, <3>1
    <3>3. y[i] = q[k + 1]
      BY <1>5, <3>1
    <3> QED BY <3>2, <3>3
  <2>4. i \in Nat
    BY <1>1, <1>5
  <2> QED BY <1>1, <2>1, <2>2, <2>3, <2>4
<1>8. x = y
  <2>1. x = [i \in 1 .. Len(x) |-> x[i]] /\ y = [i \in 1 .. Len(y) |-> y[i]]
    BY <1>4, <1>5
  <2> QED BY <1>6, <1>7, <2>1
<1> QED BY <1>8 DEF x, y

\* The numbers of samples.
Seqs(p) == [i \in DOMAIN p |-> p[i].seq]

\* The numbers of samples, one sample more.
LEMMA SeqsMore ==
  ASSUME NEW p \in Seq(Sample), NEW x \in Sample
  PROVE  /\ Seqs(p) \in Seq(Number) /\ x.seq \in Number
         /\ Seqs(Append(p, x)) = Append(Seqs(p), x.seq)
<1> DEFINE n == Len(p)
           t == Append(p, x)
           u == Append(Seqs(p), x.seq)
<1>1. /\ n \in Nat /\ DOMAIN p = 1 .. n /\ DOMAIN t = 1 .. (n + 1)
      /\ \A i \in 1 .. n : t[i] = p[i]
      /\ t[n + 1] = x
  OBVIOUS
<1>2. \A e \in Sample : e.seq \in Number
  BY DEF Sample
<1>3. \A i \in 1 .. n : p[i].seq \in Number
  BY <1>1, <1>2
<1>4. Seqs(p) = [i \in 1 .. n |-> p[i].seq]
  BY <1>1 DEF Seqs
<1> HIDE DEF n, t
<1>5. Seqs(p) \in Seq(Number) /\ Len(Seqs(p)) = n
  BY <1>1, <1>3, <1>4
<1>6. /\ u \in Seq(Number) /\ Len(u) = n + 1 /\ DOMAIN u = 1 .. (n + 1)
      /\ \A i \in 1 .. n : u[i] = Seqs(p)[i]
      /\ u[n + 1] = x.seq
  BY <1>1, <1>2, <1>5
<1> HIDE DEF u
<1>7. \A i \in 1 .. (n + 1) : u[i] = t[i].seq
  BY <1>1, <1>4, <1>6
<1>8. Seqs(t) = u
  <2>1. Seqs(t) = [i \in 1 .. (n + 1) |-> t[i].seq]
    BY <1>1 DEF Seqs
  <2>2. u = [i \in 1 .. (n + 1) |-> u[i]]
    BY <1>6
  <2> QED BY <1>7, <2>1, <2>2
<1> QED BY <1>2, <1>5, <1>8 DEF t, u

Saturated(n) == IF n < MaxSeq THEN n ELSE MaxSeq

\* What a session has handed out, and what it still holds.
Exact(s) ==
  /\ Physical =>
       /\ session[s].seq = Saturated(Len(polled[s])) /\ session[s].samples = <<>>
       /\ \A i \in DOMAIN polled[s] :
            polled[s][i] = [kind |-> "sample", seq |-> Saturated(i - 1)]
  /\ provider.route = "import" =>
       /\ \A i \in DOMAIN polled[s] : polled[s][i] = [kind |-> "sample", seq |-> i - 1]
       /\ \A i \in DOMAIN session[s].samples :
            /\ session[s].samples[i] = Len(polled[s]) + i - 1
            /\ session[s].samples[i] <= MaxSigned
  /\ ~Physical /\ provider.route # "import" =>
       Seqs(polled[s]) \o session[s].samples = provider.samples
  /\ provider.route = "scripted" => shown[s] \o session[s].frames = provider.frames
  /\ \A i \in DOMAIN polled[s] : polled[s][i].kind = "lost" => ~Decodes(polled[s][i].seq)

Polling(s) ==
  IF session[s].phase = "unopened"
  THEN polled[s] = <<>> /\ shown[s] = <<>>
  ELSE Exact(s)

PollInv == Typed /\ \A s \in Session : Polling(s)

\* A session that nobody polls or opens.
LEMMA PollStays ==
  ASSUME provider' = provider, NEW s \in Session, Polling(s),
         polled'[s] = polled[s], shown'[s] = shown[s],
         session'[s].seq = session[s].seq, session'[s].samples = session[s].samples,
         session'[s].frames = session[s].frames,
         session'[s].phase = "unopened" <=> session[s].phase = "unopened"
  PROVE  Polling(s)'
<1>1. CASE session[s].phase = "unopened"
  BY <1>1 DEF Polling
<1>2. CASE session[s].phase # "unopened"
  <2>1. Exact(s)
    BY <1>2 DEF Polling
  <2>2. (Physical' <=> Physical) /\ \A n : Decodes(n)' <=> Decodes(n')
    BY DEF Physical, Decodes
  <2>3. Exact(s)'
    BY <2>1, <2>2 DEF Exact, Seqs, Saturated
  <2> QED BY <1>2, <2>3 DEF Polling
<1> QED BY <1>1, <1>2

\* Nothing has been handed out when a session opens.
LEMMA OpenPolls ==
  ASSUME PollInv, NEW s \in Session, OpenSession(s)
  PROVE  Polling(s)'
<1>1. /\ Typed /\ provider' = provider /\ polled'[s] = <<>> /\ shown'[s] = <<>>
  BY DEF PollInv, Polling, OpenSession
<1>2. /\ session'[s].phase = "open" /\ session'[s].seq = 0
      /\ session'[s].samples = Replayed(provider.route)
      /\ session'[s].frames = IF provider.route = "scripted" THEN provider.frames ELSE <<>>
  BY <1>1, OpenedSession
<1>3. ProviderTyped
  BY <1>1 DEF Typed
<1>4. Physical' => session'[s].seq = Saturated(Len(polled'[s])) /\ session'[s].samples = <<>>
  <2>1. Saturated(0) = 0 /\ Len(<<>>) = 0
    BY DeviceAssumption DEF Saturated
  <2>2. Physical' => provider.route \in {"carina", "legacy"}
    BY <1>1 DEF Physical, PhysicalRoutes
  <2>3. Physical' => Replayed(provider.route) = <<>>
    BY <2>2 DEF Replayed
  <2> QED BY <1>1, <1>2, <2>1, <2>3
<1>5. ASSUME provider'.route = "import"
      PROVE  \A i \in DOMAIN session'[s].samples :
               /\ session'[s].samples[i] = Len(polled'[s]) + i - 1
               /\ session'[s].samples[i] <= MaxSigned
  <2> DEFINE e == Events(provider.file)
  <2>1. session'[s].samples = e /\ provider.file \in Imports
    BY <1>1, <1>2, <1>3, <1>5 DEF Replayed, ProviderTyped
  <2>2. e \in Seq(Number) /\ \A i \in 1 .. Len(e) : e[i] = i - 1 /\ e[i] <= MaxSigned
    BY <2>1, EventsNumbered
  <2> HIDE DEF e
  <2>3. DOMAIN e = 1 .. Len(e) /\ Len(polled'[s]) = 0
    BY <1>1, <2>2
  <2> QED BY <2>1, <2>2, <2>3
<1>6. ASSUME ~Physical', provider'.route # "import"
      PROVE  Seqs(polled'[s]) \o session'[s].samples = provider.samples
  <2>1. session'[s].samples = provider.samples
    BY <1>1, <1>2, <1>3, <1>6
    DEF Replayed, ProviderTyped, Physical, VitureRoutes, PhysicalRoutes
  <2>2. Seqs(polled'[s]) = <<>>
    BY <1>1 DEF Seqs
  <2> QED BY <1>3, <2>1, <2>2 DEF ProviderTyped
<1>7. provider'.route = "scripted" => shown'[s] \o session'[s].frames = provider'.frames
  BY <1>1, <1>2, <1>3 DEF ProviderTyped
<1>8. Exact(s)'
  BY <1>1, <1>4, <1>5, <1>6, <1>7 DEF Exact
<1> QED BY <1>2, <1>8 DEF Polling

\* A numbered pose, or none.
LEMMA PhysicalPolls ==
  ASSUME PollInv, Typed', NEW s \in Session, NEW delivered \in BOOLEAN,
         PollPhysical(s, delivered)
  PROVE  Polling(s)'
<1> DEFINE p == polled[s]
           n == session[s].seq
           x == [kind |-> "sample", seq |-> n]
<1>1. /\ Physical /\ provider' = provider /\ session[s].phase = "open"
      /\ session' = [session EXCEPT ![s].seq = NextSeq(n, delivered)]
      /\ polled' = IF delivered THEN [polled EXCEPT ![s] = Append(@, x)] ELSE polled
  BY DEF PollPhysical
<1>2. Typed /\ Exact(s)
  BY <1>1 DEF PollInv, Polling
<1>3. /\ session \in [Session -> Value] /\ polled \in [Session -> Seq(Sample)]
      /\ p \in Seq(Sample)
  BY <1>2 DEF Typed
<1>4. /\ session'[s].phase = "open" /\ session'[s].seq = NextSeq(n, delivered)
      /\ session'[s].samples = session[s].samples
      /\ polled'[s] = IF delivered THEN Append(p, x) ELSE p
  BY <1>1, <1>3 DEF Value
<1>5. /\ n = Saturated(Len(p)) /\ session[s].samples = <<>>
      /\ \A i \in DOMAIN p : p[i] = [kind |-> "sample", seq |-> Saturated(i - 1)]
  BY <1>1, <1>2 DEF Exact
<1>6. provider.route \in {"carina", "legacy"} /\ Physical'
  BY <1>1 DEF Physical, PhysicalRoutes
<1> DEFINE q == polled'[s]
<1> HIDE DEF n, p, q
<1>7. /\ session'[s].seq = Saturated(Len(q))
      /\ \A i \in DOMAIN q : q[i] = [kind |-> "sample", seq |-> Saturated(i - 1)]
  <2>1. Len(p) \in Nat /\ DOMAIN p = 1 .. Len(p) /\ MaxSeq \in Nat
    BY <1>3, DeviceAssumption
  <2>2. CASE ~delivered
    <3>1. NextSeq(n, delivered) = n /\ q = p
      BY <1>4, <2>2 DEF NextSeq, q
    <3> QED BY <1>4, <1>5, <3>1
  <2>3. CASE delivered
    <3>1. /\ q = Append(p, x) /\ x = [kind |-> "sample", seq |-> n]
      BY <1>4, <2>3 DEF q
    <3> HIDE DEF x
    <3>2. /\ Len(q) = Len(p) + 1 /\ DOMAIN q = 1 .. (Len(p) + 1)
          /\ q[Len(p) + 1] = x /\ \A i \in 1 .. Len(p) : q[i] = p[i]
      BY <1>3, <3>1
    <3>3. Saturated(Len(p) + 1) = NextSeq(Saturated(Len(p)), TRUE)
      BY <2>1 DEF Saturated, NextSeq
    <3>4. NextSeq(n, delivered) = Saturated(Len(p) + 1)
      BY <1>5, <2>3, <3>3 DEF NextSeq
    <3>5. ASSUME NEW i \in DOMAIN q
          PROVE  q[i] = [kind |-> "sample", seq |-> Saturated(i - 1)]
      <4>1. CASE i \in DOMAIN p
        BY <1>5, <2>1, <3>2, <4>1
      <4>2. CASE i = Len(p) + 1
        <5>1. i - 1 = Len(p)
          BY <2>1, <4>2
        <5> QED BY <1>5, <3>1, <3>2, <4>2, <5>1
      <4> QED BY <2>1, <3>2, <4>1, <4>2
    <3> QED BY <1>4, <3>2, <3>4, <3>5
  <2> QED BY <2>2, <2>3
<1>8. \A i \in DOMAIN q : q[i].kind # "lost"
  BY <1>7
<1>9. Exact(s)'
  BY <1>1, <1>4, <1>5, <1>6, <1>7, <1>8 DEF Exact, q
<1> QED BY <1>4, <1>9 DEF Polling

\* The next recorded sample, lost if it is decoded and does not decode.
LEMMA SamplePolls ==
  ASSUME PollInv, Typed', NEW s \in Session, NEW decoded \in BOOLEAN, PollSample(s, decoded)
  PROVE  Polling(s)'
<1> DEFINE p == polled[s]
           q == session[s].samples
           number == Head(q)
           kind == IF decoded /\ ~Decodes(number) THEN "lost" ELSE "sample"
           x == [kind |-> kind, seq |-> number]
           n == Len(p)
<1>1. /\ provider' = provider /\ session[s].phase = "open" /\ q # <<>>
      /\ session' = [session EXCEPT ![s].samples = Tail(@)]
      /\ polled' = [polled EXCEPT ![s] = Append(@, x)] /\ shown' = shown
  BY DEF PollSample
<1>2. Typed /\ Exact(s)
  BY <1>1 DEF PollInv, Polling
<1>3. /\ session \in [Session -> Value] /\ polled \in [Session -> Seq(Sample)]
      /\ p \in Seq(Sample) /\ q \in Seq(Number)
  BY <1>2 DEF Typed, Value
<1>4. /\ session'[s].phase = "open" /\ session'[s].seq = session[s].seq
      /\ session'[s].samples = Tail(q) /\ session'[s].frames = session[s].frames
      /\ polled'[s] = Append(p, x)
  BY <1>1, <1>3 DEF Value
<1>5. ~Physical /\ ~Physical'
  BY <1>1, <1>2 DEF Exact, Physical
<1> HIDE DEF q, p
<1>6. number \in Number /\ Tail(q) \in Seq(Number) /\ number = q[1]
  BY <1>1, <1>3
<1>7. x \in Sample /\ x.seq = number /\ x.kind = kind
  BY <1>6 DEF Sample
<1> DEFINE t == Append(p, x)
<1>8. /\ n \in Nat /\ DOMAIN p = 1 .. n /\ DOMAIN t = 1 .. (n + 1) /\ Len(t) = n + 1
      /\ \A i \in 1 .. n : t[i] = p[i]
      /\ t[n + 1] = x
  BY <1>3, <1>7
<1> HIDE DEF number, kind, t, n
<1>9. ~Physical' /\ provider'.route # "import" =>
        Seqs(t) \o Tail(q) = provider.samples
  <2> SUFFICES ASSUME provider.route # "import"
               PROVE  Seqs(t) \o Tail(q) = provider.samples
    BY <1>1
  <2>1. Seqs(p) \in Seq(Number) /\ Seqs(t) = Append(Seqs(p), number)
    BY <1>3, <1>7, SeqsMore DEF t
  <2>2. Append(Seqs(p), number) \o Tail(q) = Seqs(p) \o q
    BY <1>1, <1>3, <2>1, HeadMoved DEF number
  <2>3. Seqs(p) \o q = provider.samples
    BY <1>2, <1>5 DEF Exact, p, q
  <2> QED BY <2>1, <2>2, <2>3
<1>10. ASSUME provider.route = "import"
       PROVE  /\ \A i \in DOMAIN t : t[i] = [kind |-> "sample", seq |-> i - 1]
              /\ \A i \in DOMAIN Tail(q) : /\ Tail(q)[i] = Len(t) + i - 1
                                           /\ Tail(q)[i] <= MaxSigned
  <2>1. /\ \A i \in DOMAIN p : p[i] = [kind |-> "sample", seq |-> i - 1]
        /\ \A i \in DOMAIN q : q[i] = n + i - 1 /\ q[i] <= MaxSigned
    BY <1>2, <1>10 DEF Exact, p, q, n
  <2>2. number = n /\ number <= MaxSigned
    <3>1. 1 \in DOMAIN q
      BY <1>1, <1>3
    <3> QED BY <1>6, <1>8, <2>1, <3>1
  <2>3. Decodes(number)
    BY <1>10, <2>2 DEF Decodes
  <2>4. x = [kind |-> "sample", seq |-> n]
    BY <2>2, <2>3 DEF kind
  <2>5. ASSUME NEW i \in DOMAIN t PROVE t[i] = [kind |-> "sample", seq |-> i - 1]
    <3>1. CASE i \in 1 .. n
      BY <1>8, <2>1, <3>1
    <3>2. CASE i = n + 1
      <4>1. i - 1 = n
        BY <1>8, <3>2
      <4> QED BY <1>8, <2>4, <3>2, <4>1
    <3> QED BY <1>8, <3>1, <3>2
  <2>6. ASSUME NEW i \in DOMAIN Tail(q)
        PROVE  Tail(q)[i] = Len(t) + i - 1 /\ Tail(q)[i] <= MaxSigned
    <3>1. /\ i \in Nat /\ i + 1 \in DOMAIN q /\ Tail(q)[i] = q[i + 1]
      BY <1>1, <1>3
    <3> QED BY <1>8, <2>1, <3>1
  <2> QED BY <2>5, <2>6
<1>11. \A i \in DOMAIN t : t[i].kind = "lost" => ~Decodes(t[i].seq)
  <2>1. \A i \in 1 .. n : p[i].kind = "lost" => ~Decodes(p[i].seq)
    BY <1>2, <1>8 DEF Exact, p
  <2>2. x.kind = "lost" => ~Decodes(x.seq)
    BY <1>7 DEF kind
  <2> HIDE DEF x
  <2> QED BY <1>8, <2>1, <2>2
<1>12. \A e : Decodes(e)' <=> Decodes(e')
  BY <1>1 DEF Decodes
<1>13. provider'.route = "scripted" => shown'[s] \o session'[s].frames = provider'.frames
  BY <1>1, <1>2, <1>4 DEF Exact
<1>14. polled'[s] = t /\ session'[s].samples = Tail(q)
  BY <1>4 DEF t
<1>15. Exact(s)'
  BY <1>1, <1>5, <1>9, <1>10, <1>11, <1>12, <1>13, <1>14 DEF Exact
<1> QED BY <1>4, <1>15 DEF Polling

\* The next scripted camera frame.
LEMMA FramePolls ==
  ASSUME PollInv, NEW s \in Session, PollFrame(s)
  PROVE  Polling(s)'
<1> DEFINE q == session[s].frames
           a == shown[s]
<1>1. /\ provider' = provider /\ session[s].phase = "open" /\ q # <<>>
      /\ session' = [session EXCEPT ![s].frames = Tail(@)]
      /\ shown' = [shown EXCEPT ![s] = Append(@, Head(q))] /\ polled' = polled
  BY DEF PollFrame
<1>2. Typed /\ Exact(s)
  BY <1>1 DEF PollInv, Polling
<1>3. /\ session \in [Session -> Value] /\ shown \in [Session -> Seq(Number)]
      /\ a \in Seq(Number) /\ q \in Seq(Number)
  BY <1>2 DEF Typed, Value
<1>4. /\ session'[s].phase = "open" /\ session'[s].seq = session[s].seq
      /\ session'[s].samples = session[s].samples /\ session'[s].frames = Tail(q)
      /\ shown'[s] = Append(a, Head(q))
  BY <1>1, <1>3 DEF Value
<1>5. Append(a, Head(q)) \o Tail(q) = a \o q
  <2> HIDE DEF q, a
  <2> QED BY <1>1, <1>3, HeadMoved, Zenon
<1>6. provider'.route = "scripted" => shown'[s] \o session'[s].frames = provider'.frames
  BY <1>1, <1>2, <1>4, <1>5 DEF Exact
<1>7. (Physical' <=> Physical) /\ \A n : Decodes(n)' <=> Decodes(n')
  BY <1>1 DEF Physical, Decodes
<1>8. Exact(s)'
  BY <1>1, <1>2, <1>4, <1>6, <1>7 DEF Exact
<1> QED BY <1>4, <1>8 DEF Polling

\* Every call keeps what was polled and what is left in step.
LEMMA StepPolls == PollInv /\ [Next]_vars => PollInv'
<1> SUFFICES ASSUME PollInv, [Next]_vars PROVE PollInv'
  OBVIOUS
<1>1. Typed /\ Typed' /\ provider' = provider
  BY StepTyped, ProviderFixed DEF PollInv
<1>2. /\ DOMAIN session = Session
      /\ \A x \in Session : DOMAIN session[x] =
           {"phase", "started", "seq", "samples", "frames", "sent"}
      /\ DOMAIN polled = Session /\ DOMAIN shown = Session
  BY <1>1 DEF Typed, Value
<1>3. ASSUME NEW s \in Session, Polling(s)',
             \A x \in Session \ {s} : /\ session'[x] = session[x]
                                      /\ polled'[x] = polled[x] /\ shown'[x] = shown[x]
      PROVE  PollInv'
  <2> SUFFICES ASSUME NEW x \in Session, x # s PROVE Polling(x)'
    BY <1>1, <1>3 DEF PollInv
  <2>1. Polling(x)
    BY DEF PollInv
  <2>2. session'[x] = session[x] /\ polled'[x] = polled[x] /\ shown'[x] = shown[x]
    BY <1>3
  <2> QED BY <1>1, <2>1, <2>2, PollStays
<1>4. ASSUME UNCHANGED <<polled, shown>>,
             \A x \in Session :
               /\ session'[x].seq = session[x].seq
               /\ session'[x].samples = session[x].samples
               /\ session'[x].frames = session[x].frames
               /\ session'[x].phase = "unopened" <=> session[x].phase = "unopened"
      PROVE  PollInv'
  <2> SUFFICES ASSUME NEW x \in Session PROVE Polling(x)'
    BY <1>1 DEF PollInv
  <2>1. Polling(x)
    BY DEF PollInv
  <2> QED BY <1>1, <1>4, <2>1, PollStays
<1>5. ASSUME NEW s \in Session, OpenSession(s) PROVE PollInv'
  <2>1. Polling(s)'
    BY <1>5, OpenPolls
  <2>2. \A x \in Session \ {s} : session'[x] = session[x]
    BY <1>1, <1>5, OpenedSession
  <2>3. UNCHANGED <<polled, shown>>
    BY <1>5 DEF OpenSession
  <2> QED BY <1>3, <2>1, <2>2, <2>3
<1>6. ASSUME NEW s \in Session,
             \/ DropSession(s)
             \/ \E ok \in BOOLEAN : Start(s, ok)
             \/ \E ok \in BOOLEAN, after \in {device[s], "closed"} : Stop(s, ok, after)
             \/ \E payload \in Payloads, ok, acted \in BOOLEAN : Invoke(s, payload, ok, acted)
      PROVE  PollInv'
  <2>1. /\ UNCHANGED <<polled, shown>> /\ session[s].phase = "open"
        /\ \/ session' = session
           \/ session' = [session EXCEPT ![s].phase = "dropped", ![s].started = FALSE]
           \/ \E b \in BOOLEAN : session' = [session EXCEPT ![s].started = b]
           \/ \E q : session' = [session EXCEPT ![s].sent = q]
    <3>1. CASE DropSession(s)
      BY <3>1 DEF DropSession
    <3>2. CASE \E ok \in BOOLEAN : Start(s, ok)
      BY <3>2 DEF Start
    <3>3. CASE \E ok \in BOOLEAN, after \in {device[s], "closed"} : Stop(s, ok, after)
      BY <3>3 DEF Stop
    <3>4. CASE \E payload \in Payloads, ok, acted \in BOOLEAN : Invoke(s, payload, ok, acted)
      BY <3>4 DEF Invoke
    <3> QED BY <1>6, <3>1, <3>2, <3>3, <3>4
  <2>2. \A x \in Session :
          /\ session'[x].seq = session[x].seq
          /\ session'[x].samples = session[x].samples
          /\ session'[x].frames = session[x].frames
          /\ session'[x].phase = "unopened" <=> session[x].phase = "unopened"
    BY <1>2, <2>1
  <2> QED BY <1>4, <2>1, <2>2
<1>7. ASSUME NEW s \in Session, NEW delivered \in BOOLEAN, PollPhysical(s, delivered)
      PROVE  PollInv'
  <2>1. Polling(s)'
    BY <1>1, <1>7, PhysicalPolls
  <2>2. \A x \in Session \ {s} : /\ session'[x] = session[x] /\ polled'[x] = polled[x]
                                 /\ shown'[x] = shown[x]
    BY <1>2, <1>7 DEF PollPhysical
  <2> QED BY <1>3, <2>1, <2>2
<1>8. ASSUME NEW s \in Session, NEW decoded \in BOOLEAN, PollSample(s, decoded)
      PROVE  PollInv'
  <2>1. Polling(s)'
    BY <1>1, <1>8, SamplePolls
  <2>2. \A x \in Session \ {s} : /\ session'[x] = session[x] /\ polled'[x] = polled[x]
                                 /\ shown'[x] = shown[x]
    BY <1>2, <1>8 DEF PollSample
  <2> QED BY <1>3, <2>1, <2>2
<1>9. ASSUME NEW s \in Session, PollFrame(s) PROVE PollInv'
  <2>1. Polling(s)'
    BY <1>9, FramePolls
  <2>2. \A x \in Session \ {s} : /\ session'[x] = session[x] /\ polled'[x] = polled[x]
                                 /\ shown'[x] = shown[x]
    BY <1>2, <1>9 DEF PollFrame
  <2> QED BY <1>3, <2>1, <2>2
<1>10. CASE UNCHANGED vars
  BY <1>4, <1>10 DEF vars
<1> QED BY <1>5, <1>6, <1>7, <1>8, <1>9, <1>10 DEF Next

\* Whatever is started, stopped, dropped or polled in between: what a session
\* handed out and what it still holds are what its route replays, or numbers
\* without a gap, and only a sample that does not decode is lost.
THEOREM NothingIsSkipped == Spec => []PolledWithoutGap
<1>1. Init => PollInv
  <2> SUFFICES ASSUME Init, NEW s \in Session PROVE Polling(s)
    BY InitTyped DEF PollInv
  <2> QED BY DEF Init, Unopened, Polling
<1>2. PollInv => PolledWithoutGap
  <2> SUFFICES ASSUME PollInv, NEW s \in Session, session[s].phase # "unopened"
               PROVE  IF Physical
                      THEN \A i \in DOMAIN polled[s] :
                             polled[s][i] = [kind |-> "sample",
                                             seq |-> IF i - 1 < MaxSeq THEN i - 1 ELSE MaxSeq]
                      ELSE /\ provider.route = "import" =>
                                \A i \in DOMAIN polled[s] :
                                  polled[s][i] = [kind |-> "sample", seq |-> i - 1]
                           /\ provider.route # "import" =>
                                Numbers(s) \o session[s].samples = provider.samples
                           /\ provider.route = "scripted" =>
                                /\ \A i \in DOMAIN polled[s] : polled[s][i].kind = "sample"
                                /\ shown[s] \o session[s].frames = provider.frames
                           /\ \A i \in DOMAIN polled[s] :
                                polled[s][i].kind = "lost" => ~Decodes(polled[s][i].seq)
    BY DEF PolledWithoutGap
  <2>1. Exact(s) /\ polled[s] \in Seq(Sample)
    BY DEF PollInv, Polling, Typed
  <2>2. \A i \in DOMAIN polled[s] : polled[s][i].kind \in {"sample", "lost"}
    <3>1. \A x \in Sample : x.kind \in {"sample", "lost"}
      BY DEF Sample
    <3> QED BY <2>1, <3>1
  <2>3. Numbers(s) = Seqs(polled[s])
    BY DEF Numbers, Seqs
  <2>4. provider.route = "scripted" => \A i \in DOMAIN polled[s] : polled[s][i].kind = "sample"
    <3>1. provider.route = "scripted" => \A n : Decodes(n)
      BY DEF Decodes
    <3> QED BY <2>1, <2>2, <3>1 DEF Exact
  <2> QED BY <2>1, <2>3, <2>4 DEF Exact, Saturated
<1> QED BY <1>1, <1>2, StepPolls, PTL DEF Spec

=============================================================================
