------------------------ MODULE HostPolicies_proofs ------------------------
(***************************************************************************)
(* The stateless decisions.  Placement on a LAN peer is settled for every  *)
(* width of the integers, every number of beats in a bar and every         *)
(* envelope: a bar delay saturates once if at all, never for a mode of a   *)
(* constructor, and is exact to the millisecond below that, and a pinned   *)
(* sample fragment is never placed in silence.  A registry resolves every  *)
(* id it knows, however many descriptors it was made of.                   *)
(*                                                                         *)
(* Each decision leaves its call and answer behind and nothing else, so    *)
(* each fact holds after any step for the inputs of that step alone.       *)
(***************************************************************************)
EXTENDS HostPolicies, FiniteSetTheorems, TLAPS

-----------------------------------------------------------------------------
(* The bar delay                                                           *)

\* Multiplication by a natural number is monotone.
LEMMA TimesMonotone ==
  ASSUME NEW a \in Nat, NEW b \in Nat, NEW c \in Nat, a <= b
  PROVE  a * c <= b * c
OBVIOUS

\* Products of natural numbers are natural numbers.
LEMMA TimesNat ==
  ASSUME NEW a \in Nat, NEW b \in Nat
  PROVE  a * b \in Nat
OBVIOUS

\* A factor of at least one does not make a product smaller.
LEMMA TimesGrows ==
  ASSUME NEW a \in Nat, NEW b \in Nat \ {0}
  PROVE  a <= a * b
<1>1. 1 * a <= b * a
  BY TimesMonotone
<1> QED BY <1>1

\* Rounding down is exact to less than one divisor.
LEMMA DivideExact ==
  ASSUME NEW t \in Nat, NEW d \in Nat \ {0}
  PROVE  /\ t \div d \in Nat
         /\ (t \div d) * d <= t
         /\ t < (t \div d + 1) * d
OBVIOUS

\* A bar-delay mode with any numbers in its fields.
BarMode(mode) ==
  /\ mode.bars \in Count /\ mode.beats_per_bar \in Count /\ mode.tempo_bpm \in Count

TimeOf(mode) == mode.bars * mode.beats_per_bar * MinuteMillis
Capped(n) == IF n > WordMax THEN WordMax ELSE n

\* The two multiplications saturate where the product of the three would.
LEMMA SaturatesOnce ==
  ASSUME NEW mode, BarMode(mode)
  PROVE  /\ TimeOf(mode) \in Nat
         /\ SaturatingMul(SaturatingMul(mode.bars, mode.beats_per_bar), MinuteMillis)
              = Capped(TimeOf(mode))
<1> DEFINE beats == mode.bars * mode.beats_per_bar
<1>1. /\ WordMax \in Nat /\ MinuteMillis \in Nat \ {0}
      /\ mode.bars \in Nat /\ mode.beats_per_bar \in Nat
  BY LanAssumption DEF BarMode, Count
<1>2. beats \in Nat
  BY <1>1, TimesNat
<1>3. beats <= beats * MinuteMillis /\ beats * MinuteMillis \in Nat
  <2> HIDE DEF beats
  <2> QED BY <1>1, <1>2, TimesGrows, TimesNat
<1>4. WordMax <= WordMax * MinuteMillis /\ WordMax * MinuteMillis \in Nat
  BY <1>1, TimesGrows, TimesNat
<1>5. SaturatingMul(mode.bars, mode.beats_per_bar) = Capped(beats)
  BY DEF SaturatingMul, Capped
<1>6. TimeOf(mode) = beats * MinuteMillis
  BY DEF TimeOf
<1>7. SaturatingMul(Capped(beats), MinuteMillis) = Capped(beats * MinuteMillis)
  <2> HIDE DEF beats
  <2>1. CASE beats > WordMax
    <3>1. Capped(beats) = WordMax /\ beats * MinuteMillis > WordMax
      BY <1>1, <1>2, <1>3, <2>1 DEF Capped
    <3> DEFINE most == WordMax * MinuteMillis
    <3>2. SaturatingMul(WordMax, MinuteMillis) = WordMax
      <4>1. most > WordMax \/ most = WordMax
        BY <1>1, <1>4
      <4> QED BY <4>1 DEF SaturatingMul
    <3>3. Capped(beats * MinuteMillis) = WordMax
      BY <3>1 DEF Capped
    <3> QED BY <3>1, <3>2, <3>3
  <2>2. CASE ~(beats > WordMax)
    BY <2>2 DEF Capped, SaturatingMul
  <2> QED BY <2>1, <2>2
<1> QED BY <1>3, <1>5, <1>6, <1>7

\* With the beats of the constructor nothing saturates, whatever the bars.
LEMMA NeverSaturates ==
  ASSUME NEW mode, BarMode(mode), mode.beats_per_bar = BeatsPerBar
  PROVE  TimeOf(mode) <= WordMax
<1> DEFINE beats == mode.bars * BeatsPerBar
           most == CountMax * BeatsPerBar
<1>1. /\ CountMax \in Nat /\ WordMax \in Nat
      /\ BeatsPerBar \in Nat /\ MinuteMillis \in Nat
      /\ CountMax * BeatsPerBar * MinuteMillis <= WordMax
  BY LanAssumption
<1>2. mode.bars \in Nat /\ mode.bars <= CountMax
  BY <1>1 DEF BarMode, Count
<1>3. beats \in Nat /\ most \in Nat /\ beats <= most
  BY <1>1, <1>2, TimesNat, TimesMonotone
<1>4. /\ beats * MinuteMillis \in Nat /\ most * MinuteMillis \in Nat
      /\ beats * MinuteMillis <= most * MinuteMillis
  <2> HIDE DEF beats, most
  <2> QED BY <1>1, <1>3, TimesMonotone, TimesNat
<1>5. most * MinuteMillis <= WordMax
  BY <1>1
<1>6. TimeOf(mode) = beats * MinuteMillis
  BY DEF TimeOf
<1> HIDE DEF beats, most
<1> QED BY <1>1, <1>4, <1>5, <1>6

\* The one delay is the capped time rounded down once; at a tempo of zero there
\* is none.
LEMMA DelayRoundsOnce ==
  ASSUME NEW mode, BarMode(mode)
  PROVE  /\ mode.tempo_bpm # 0 => DelayOf(mode) # {}
         /\ \A delay \in DelayOf(mode) :
              /\ delay * mode.tempo_bpm <= Capped(TimeOf(mode))
              /\ Capped(TimeOf(mode)) < (delay + 1) * mode.tempo_bpm
<1> DEFINE capped == Capped(TimeOf(mode))
<1>1. DelayOf(mode) = {capped \div tempo : tempo \in {mode.tempo_bpm} \ {0}}
  BY SaturatesOnce DEF DelayOf
<1>2. capped \in Nat
  BY SaturatesOnce, LanAssumption DEF Capped
<1>3. mode.tempo_bpm \in Nat
  BY LanAssumption DEF BarMode, Count
<1> HIDE DEF capped
<1>4. ASSUME NEW delay \in DelayOf(mode)
      PROVE  delay * mode.tempo_bpm <= capped /\ capped < (delay + 1) * mode.tempo_bpm
  <2>1. mode.tempo_bpm \in Nat \ {0} /\ delay = capped \div mode.tempo_bpm
    BY <1>1, <1>3
  <2> QED BY <1>2, <2>1, DivideExact
<1> QED BY <1>1, <1>4 DEF capped

-----------------------------------------------------------------------------
(* Plans                                                                   *)

\* A request to plan, with a mode of any numbers.
PlanRequest(request) ==
  /\ request.op = "plan"
  /\ request.mode.kind \in {"jitter-buffered", "bar-delay"}
  /\ request.mode.kind = "bar-delay" => BarMode(request.mode)
  /\ request.mode.jitter_packets \in Nat /\ request.mode.latency_comp_frames \in Nat
  /\ request.envelopes \in Seq([sequence : Nat, class : STRING, diagnostics : Seq(STRING)])

\* What DelayExact says of a mode and the delays reported for it.
DelaysFit(mode, delays) ==
  /\ \A delay \in delays :
       /\ delay * mode.tempo_bpm <= TimeOf(mode)
       /\ delay * mode.tempo_bpm <= WordMax
       /\ \/ TimeOf(mode) < (delay + 1) * mode.tempo_bpm
          \/ ~Constructed(mode) /\ WordMax < (delay + 1) * mode.tempo_bpm
  /\ Constructed(mode) \/ mode.tempo_bpm # 0 => delays # {}

\* A constructor's mode has its beats and a tempo.
LEMMA ConstructedBars ==
  ASSUME NEW mode, mode.kind = "bar-delay", Constructed(mode)
  PROVE  mode.beats_per_bar = BeatsPerBar /\ mode.tempo_bpm # 0
<1>1. mode \notin JitterBuffered(mode.jitter_packets, mode.latency_comp_frames)
  <2> SUFFICES ASSUME mode \in JitterBuffered(mode.jitter_packets, mode.latency_comp_frames)
               PROVE  FALSE
    OBVIOUS
  <2>1. mode.kind = "jitter-buffered"
    BY DEF JitterBuffered
  <2> QED BY <2>1
<1>2. mode \in BarDelay(mode.bars, mode.tempo_bpm, mode.jitter_packets,
                        mode.latency_comp_frames)
  BY <1>1 DEF Constructed
<1>3. PICK bars, tempo, packets, frames :
        /\ mode = [kind |-> "bar-delay", bars |-> bars, beats_per_bar |-> BeatsPerBar,
                   tempo_bpm |-> tempo, jitter_packets |-> packets,
                   latency_comp_frames |-> frames]
        /\ tempo # 0
  BY <1>2 DEF BarDelay
<1> QED BY <1>3

\* The delays of a bar mode fit it.
LEMMA DelaysOfBars ==
  ASSUME NEW mode, mode.kind = "bar-delay", BarMode(mode)
  PROVE  DelaysFit(mode, DelayOf(mode))
<1>1. TimeOf(mode) \in Nat /\ WordMax \in Nat
  BY SaturatesOnce, LanAssumption
<1>2. ASSUME NEW delay \in DelayOf(mode)
      PROVE  /\ delay * mode.tempo_bpm <= TimeOf(mode)
             /\ delay * mode.tempo_bpm <= WordMax
             /\ \/ TimeOf(mode) < (delay + 1) * mode.tempo_bpm
                \/ ~Constructed(mode) /\ WordMax < (delay + 1) * mode.tempo_bpm
  <2> DEFINE low == delay * mode.tempo_bpm
             high == (delay + 1) * mode.tempo_bpm
  <2>1. low <= Capped(TimeOf(mode)) /\ Capped(TimeOf(mode)) < high
    BY DelayRoundsOnce
  <2>2. low \in Int
    <3>1. mode.tempo_bpm \in Nat \ {0}
      BY LanAssumption DEF BarMode, Count, DelayOf
    <3>2. delay = Capped(TimeOf(mode)) \div mode.tempo_bpm /\ Capped(TimeOf(mode)) \in Nat
      BY <1>1, SaturatesOnce DEF DelayOf, Capped
    <3>3. delay \in Nat
      BY <3>1, <3>2, DivideExact
    <3> QED BY <3>1, <3>3, TimesNat
  <2>3. Constructed(mode) => TimeOf(mode) <= WordMax
    BY ConstructedBars, NeverSaturates
  <2> HIDE DEF low, high
  <2>4. CASE TimeOf(mode) <= WordMax
    <3>1. Capped(TimeOf(mode)) = TimeOf(mode)
      BY <1>1, <2>4 DEF Capped
    <3>2. low <= WordMax
      BY <1>1, <2>1, <2>2, <2>4, <3>1
    <3> QED BY <2>1, <3>1, <3>2 DEF low, high
  <2>5. CASE ~(TimeOf(mode) <= WordMax)
    <3>1. Capped(TimeOf(mode)) = WordMax
      BY <1>1, <2>5 DEF Capped
    <3>2. low <= TimeOf(mode)
      BY <1>1, <2>1, <2>2, <2>5, <3>1
    <3> QED BY <2>1, <2>3, <2>5, <3>1, <3>2 DEF low, high
  <2> QED BY <2>4, <2>5
<1>3. Constructed(mode) \/ mode.tempo_bpm # 0 => DelayOf(mode) # {}
  BY ConstructedBars, DelayRoundsOnce
<1> QED BY <1>2, <1>3 DEF DelaysFit

\* DelayExact and PinnedNeverSilent, of a call and its answer.
Exact(request, result) ==
  \A report \in result : request.op = "plan" =>
    /\ report.latency = [packets |-> request.mode.jitter_packets,
                         frames |-> request.mode.latency_comp_frames]
    /\ request.mode.kind = "bar-delay" => DelaysFit(request.mode, report.delay)

\* What a plan answers has the delay and the latency that was asked for.
LEMMA PlanExact ==
  ASSUME NEW request, PlanRequest(request)
  PROVE  Exact(request, Plan(request))
<1> SUFFICES ASSUME NEW report \in Plan(request)
    PROVE  /\ report.latency = [packets |-> request.mode.jitter_packets,
                                frames |-> request.mode.latency_comp_frames]
           /\ request.mode.kind = "bar-delay" => DelaysFit(request.mode, report.delay)
  BY DEF Exact
<1>1. report.latency = AddedLatency(Bridges(request.mode))
  BY DEF Plan
<1>2. report.latency = [packets |-> request.mode.jitter_packets,
                        frames |-> request.mode.latency_comp_frames]
  BY <1>1 DEF AddedLatency, Bridges, PlanRequest
<1>3. request.mode.kind = "bar-delay" => report.delay = DelayOf(request.mode)
  BY DEF Plan
<1> QED BY <1>2, <1>3, DelaysOfBars DEF PlanRequest

\* Appending a sequence keeps what was there as a prefix.
LEMMA AppendedLast ==
  ASSUME NEW S, NEW s \in Seq(S), NEW x \in S
  PROVE  /\ IsPrefix(s, s \o <<x>>) /\ Len(s \o <<x>>) = Len(s) + 1
         /\ Last(s \o <<x>>) = x
<1>1. /\ s \o <<x>> \in Seq(S) /\ Len(s \o <<x>>) = Len(s) + 1
      /\ \A i \in 1 .. Len(s) : (s \o <<x>>)[i] = s[i]
      /\ (s \o <<x>>)[Len(s) + 1] = x
  OBVIOUS
<1>2. IsPrefix(s, s \o <<x>>)
  BY <1>1 DEF IsPrefix
<1>3. Last(s \o <<x>>) = x
  BY <1>1 DEF Last
<1> QED BY <1>1, <1>2, <1>3

\* And so does appending nothing.
LEMMA AppendedNothing ==
  ASSUME NEW S, NEW s \in Seq(S)
  PROVE  IsPrefix(s, s \o <<>>) /\ s \o <<>> = s
<1>1. s \o <<>> = s
  OBVIOUS
<1>2. IsPrefix(s, s)
  BY DEF IsPrefix
<1> QED BY <1>1, <1>2

\* The envelopes are rewritten one by one, in their places.
LEMMA Rewritten ==
  ASSUME NEW S, NEW s \in Seq(S), NEW class, NEW diagnostics
  PROVE  /\ DOMAIN RemoteEnvelopes(s, class, diagnostics) = 1 .. Len(s)
         /\ Len(RemoteEnvelopes(s, class, diagnostics)) = Len(s)
         /\ \A i \in 1 .. Len(s) :
              /\ s[i] \in S
              /\ RemoteEnvelopes(s, class, diagnostics)[i] =
                   RemoteEnvelope(s[i], class, diagnostics)
<1> DEFINE t == RemoteEnvelopes(s, class, diagnostics)
<1>1. DOMAIN s = 1 .. Len(s) /\ Len(s) \in Nat /\ \A i \in 1 .. Len(s) : s[i] \in S
  OBVIOUS
<1>2. /\ DOMAIN t = 1 .. Len(s)
      /\ \A i \in 1 .. Len(s) : t[i] = RemoteEnvelope(s[i], class, diagnostics)
  BY <1>1 DEF RemoteEnvelopes
<1>3. t \in Seq({RemoteEnvelope(s[i], class, diagnostics) : i \in DOMAIN s})
  BY <1>1 DEF RemoteEnvelopes
<1> HIDE DEF t
<1>4. Len(t) = Len(s)
  BY <1>1, <1>2, <1>3
<1> QED BY <1>1, <1>2, <1>4 DEF t

\* What one envelope becomes.
MarkedEnvelope(was, is, class, pinned) ==
  /\ is.sequence = was.sequence /\ is.class = class
  /\ IsPrefix(was.diagnostics, is.diagnostics)
  /\ Len(is.diagnostics) = Len(was.diagnostics) + (IF pinned THEN 1 ELSE 0)
  /\ pinned => Last(is.diagnostics) = Experimental

\* An envelope keeps what it said and says last that the sample was pinned.
LEMMA OneMarked ==
  ASSUME NEW was \in [sequence : Nat, class : STRING, diagnostics : Seq(STRING)],
         NEW class, NEW request
  PROVE  MarkedEnvelope(was,
           RemoteEnvelope(was, class, Diagnostics(request)), class, PinnedSample(request))
<1> DEFINE is == RemoteEnvelope(was, class, Diagnostics(request))
<1>1. /\ is.sequence = was.sequence /\ is.class = class
      /\ is.diagnostics = was.diagnostics \o Diagnostics(request)
      /\ was.diagnostics \in Seq(STRING)
  BY DEF RemoteEnvelope
<1> HIDE DEF is
<1>2. CASE PinnedSample(request)
  <2>1. Diagnostics(request) = <<Experimental>>
    BY <1>2 DEF Diagnostics
  <2> DEFINE S == STRING \cup {Experimental}
  <2>2. was.diagnostics \in Seq(S)
    BY <1>1
  <2>3. /\ IsPrefix(was.diagnostics, is.diagnostics)
        /\ Len(is.diagnostics) = Len(was.diagnostics) + 1
        /\ Last(is.diagnostics) = Experimental
    <3>1. Experimental \in S
      OBVIOUS
    <3> HIDE DEF S
    <3> QED BY <1>1, <2>1, <2>2, <3>1, AppendedLast
  <2>4. MarkedEnvelope(was, is, class, PinnedSample(request))
    BY <1>1, <1>2, <2>3 DEF MarkedEnvelope
  <2> QED BY <2>4 DEF is
<1>3. CASE ~PinnedSample(request)
  <2>1. Diagnostics(request) = <<>>
    BY <1>3 DEF Diagnostics
  <2>2. IsPrefix(was.diagnostics, is.diagnostics) /\ is.diagnostics = was.diagnostics
    BY <1>1, <2>1, AppendedNothing
  <2>3. Len(is.diagnostics) = Len(was.diagnostics) + 0
    BY <1>1, <2>2
  <2>4. MarkedEnvelope(was, is, class, PinnedSample(request))
    BY <1>1, <1>3, <2>2, <2>3 DEF MarkedEnvelope
  <2> QED BY <2>4 DEF is
<1> QED BY <1>2, <1>3

\* PinnedNeverSilent, of a call and its answer.
Marked(request, result) ==
  \A report \in result : request.op = "plan" =>
    /\ PinnedSample(request) => RemoteSample \in request.capabilities
    /\ Len(report.envelopes) = Len(request.envelopes)
    /\ \A i \in DOMAIN report.envelopes :
         MarkedEnvelope(request.envelopes[i], report.envelopes[i], report.class,
                        PinnedSample(request))

\* What a plan answers says of a pinned sample fragment what it is.
LEMMA PlanMarked ==
  ASSUME NEW request, PlanRequest(request)
  PROVE  Marked(request, Plan(request))
<1> DEFINE Envelope == [sequence : Nat, class : STRING, diagnostics : Seq(STRING)]
<1> SUFFICES ASSUME NEW report \in Plan(request)
    PROVE  /\ PinnedSample(request) => RemoteSample \in request.capabilities
           /\ Len(report.envelopes) = Len(request.envelopes)
           /\ \A i \in DOMAIN report.envelopes :
                MarkedEnvelope(request.envelopes[i], report.envelopes[i], report.class,
                               PinnedSample(request))
  BY DEF Marked
<1>1. /\ ~Refused(request)
      /\ report.class = LatencyClass(request.mode)
      /\ report.envelopes = RemoteEnvelopes(request.envelopes, LatencyClass(request.mode),
                                            Diagnostics(request))
  BY DEF Plan
<1>2. PinnedSample(request) => RemoteSample \in request.capabilities
  BY <1>1 DEF Refused
<1>3. request.envelopes \in Seq(Envelope)
  BY DEF PlanRequest
<1>4. /\ DOMAIN report.envelopes = 1 .. Len(request.envelopes)
      /\ Len(report.envelopes) = Len(request.envelopes)
      /\ \A i \in 1 .. Len(request.envelopes) :
           /\ request.envelopes[i] \in Envelope
           /\ report.envelopes[i] = RemoteEnvelope(request.envelopes[i],
                                      LatencyClass(request.mode), Diagnostics(request))
  <2> HIDE DEF Envelope
  <2> QED BY <1>1, <1>3, Rewritten
<1>5. ASSUME NEW i \in DOMAIN report.envelopes
      PROVE  MarkedEnvelope(request.envelopes[i], report.envelopes[i], report.class,
                            PinnedSample(request))
  BY <1>1, <1>4, OneMarked
<1> QED BY <1>2, <1>4, <1>5

-----------------------------------------------------------------------------
(* The theorems                                                            *)

\* What a step is asked tells which decision it takes.
LEMMA StepsAsk ==
  ASSUME Next
  PROVE  /\ call'.op = "plan" => PlanLan
         /\ call'.op = "shape" => ShapeStream
         /\ call'.op = "ingest" => IngestWorn
         /\ call'.op = "declare" => DeclareProvider
         /\ call'.op = "glasses" => PlaceGlasses
<1>1. PlanLan => call'.op = "plan"
  BY DEF PlanLan, Answer
<1>2. ShapeStream => call'.op = "shape"
  BY DEF ShapeStream, Answer
<1>3. IngestWorn => call'.op = "ingest"
  BY DEF IngestWorn, Answer
<1>4. DeclareProvider => call'.op = "declare"
  BY DEF DeclareProvider, Declare, Answer
<1>5. PlaceGlasses => call'.op = "glasses"
  BY DEF PlaceGlasses, Answer
<1> QED BY <1>1, <1>2, <1>3, <1>4, <1>5 DEF Next

\* A plan is one of a well-formed request.
LEMMA StepPlans ==
  ASSUME Next, call'.op = "plan"
  PROVE  \E request : PlanRequest(request) /\ call' = request /\ answer' = Plan(request)
<1>1. PICK mode \in Modes({0, 2}, {0, 3}),
           domains \in SUBSET {"sample", "control"}, envelopes \in OutputEnvelopes,
           pinned \in BOOLEAN, capabilities \in SUBSET {RemoteSample, "stream.other"} :
          LET request == [op |-> "plan", mode |-> mode, domains |-> domains, pinned |-> pinned,
                          envelopes |-> envelopes, capabilities |-> capabilities]
          IN  Answer(request, Plan(request))
  BY StepsAsk DEF PlanLan
<1> DEFINE request == [op |-> "plan", mode |-> mode, domains |-> domains, pinned |-> pinned,
                       envelopes |-> envelopes, capabilities |-> capabilities]
<1>3. /\ mode.kind \in {"jitter-buffered", "bar-delay"}
      /\ mode.kind = "bar-delay" => BarMode(mode)
      /\ mode.jitter_packets \in Nat /\ mode.latency_comp_frames \in Nat
  BY DEF Modes, BarMode
<1>4. envelopes \in Seq([sequence : Nat, class : STRING, diagnostics : Seq(STRING)])
  BY EnvelopesAssumption
<1>5. PlanRequest(request)
  BY <1>3, <1>4 DEF PlanRequest
<1>6. call' = request /\ answer' = Plan(request)
  BY <1>1 DEF Answer
<1> QED BY <1>5, <1>6

\* A bar delay is the length of its bars, capped by the word, rounded down once
\* to a millisecond; a constructor's mode always has one and is never capped; for
\* every width of the integers.  The bridges add the latency asked for.
THEOREM DelayInvariant == Spec => []DelayExact
<1>1. Init => DelayExact
  BY DEF Init, DelayExact
<1>2. DelayExact /\ [Next]_vars => DelayExact'
  <2> SUFFICES ASSUME DelayExact, [Next]_vars PROVE DelayExact'
    OBVIOUS
  <2>1. CASE Next
    <3>1. CASE call'.op = "plan"
      <4>1. Exact(call', answer')
        BY <2>1, <3>1, StepPlans, PlanExact
      <4> QED BY <4>1 DEF Exact, DelaysFit, TimeOf, DelayExact
    <3>2. CASE call'.op # "plan"
      BY <3>2 DEF DelayExact
    <3> QED BY <3>1, <3>2
  <2>2. CASE UNCHANGED vars
    BY <2>2 DEF vars, DelayExact
  <2> QED BY <2>1, <2>2
<1> QED BY <1>1, <1>2, PTL DEF Spec

\* A pinned sample fragment is placed only under the experimental capability
\* and with its mark on every envelope, whatever the envelopes said before.
THEOREM PinnedInvariant == Spec => []PinnedNeverSilent
<1>1. Init => PinnedNeverSilent
  BY DEF Init, PinnedNeverSilent
<1>2. PinnedNeverSilent /\ [Next]_vars => PinnedNeverSilent'
  <2> SUFFICES ASSUME PinnedNeverSilent, [Next]_vars PROVE PinnedNeverSilent'
    OBVIOUS
  <2>1. CASE Next
    <3>1. CASE call'.op = "plan"
      <4>1. Marked(call', answer')
        BY <2>1, <3>1, StepPlans, PlanMarked
      <4> QED
        BY <4>1 DEF Marked, MarkedEnvelope, PinnedSample, HasSampleDomain, PinnedNeverSilent
    <3>2. CASE call'.op # "plan"
      BY <3>2 DEF PinnedNeverSilent
    <3> QED BY <3>1, <3>2
  <2>2. CASE UNCHANGED vars
    BY <2>2 DEF vars, PinnedNeverSilent
  <2> QED BY <2>1, <2>2
<1> QED BY <1>1, <1>2, PTL DEF Spec

-----------------------------------------------------------------------------
(* Shapes of streams                                                       *)

\* Which shapes a configuration passes for.
LEMMA ShapesAre ==
  ASSUME NEW config
  PROVE  /\ Shapes(config) \subseteq {"realtime", "lan-midi", "lan-preview"}
         /\ "realtime" \in Shapes(config) <=> RealtimeLocalAudio(config)
         /\ "lan-midi" \in Shapes(config) <=> LanMidiControl(config)
         /\ "lan-preview" \in Shapes(config) <=> LanBufferedPreview(config)
BY DEF Shapes

\* What passes for realtime audio passes for its preview over a LAN, and what
\* passes for MIDI passes for nothing else.
THEOREM ShapesInvariant == Spec => []ShapesConsistent
<1>1. Init => ShapesConsistent
  BY DEF Init, ShapesConsistent
<1>2. ShapesConsistent /\ [Next]_vars => ShapesConsistent'
  <2> SUFFICES ASSUME ShapesConsistent, [Next]_vars PROVE ShapesConsistent'
    OBVIOUS
  <2>1. CASE Next
    <3>1. CASE call'.op = "shape"
      <4> PICK config \in Config : answer' = Shapes(config)
        BY <2>1, <3>1, StepsAsk DEF ShapeStream, Answer
      <4>1. RealtimeLocalAudio(config) => LanBufferedPreview(config)
        BY DEF RealtimeLocalAudio, LanBufferedPreview
      <4>2. LanMidiControl(config) => ~RealtimeLocalAudio(config) /\ ~LanBufferedPreview(config)
        BY DEF RealtimeLocalAudio, LanBufferedPreview, LanMidiControl
      <4> QED BY <4>1, <4>2, ShapesAre DEF ShapesConsistent
    <3>2. CASE call'.op # "shape"
      BY <3>2 DEF ShapesConsistent
    <3> QED BY <3>1, <3>2
  <2>2. CASE UNCHANGED vars
    BY <2>2 DEF vars, ShapesConsistent
  <2> QED BY <2>1, <2>2
<1> QED BY <1>1, <1>2, PTL DEF Spec

-----------------------------------------------------------------------------
(* Manifests                                                               *)

\* Descriptors with as many ids as there are descriptors, at any length: no two
\* of them share one.
LEMMA IdsDiffer ==
  ASSUME NEW S, NEW ds \in Seq(S), Cardinality(IdsOf(ds)) = Len(ds)
  PROVE  \A i, j \in 1 .. Len(ds) : ds[i].id = ds[j].id => i = j
<1> DEFINE n == Len(ds)
           T == {ds[i].id : i \in 1 .. n}
           f == [i \in 1 .. n |-> ds[i].id]
<1>1. n \in Nat /\ DOMAIN ds = 1 .. n
  OBVIOUS
<1>2. IdsOf(ds) = T
  BY <1>1 DEF IdsOf, ToSet
<1>3. f \in Surjection(1 .. n, T)
  BY DEF Surjection
<1>4. IsFiniteSet(1 .. n) /\ Cardinality(1 .. n) = n
  <2> HIDE DEF f, T, n
  <2>1. 1 \in Int /\ n \in Int
    BY <1>1
  <2>2. /\ IsFiniteSet(1 .. n)
        /\ Cardinality(1 .. n) = IF 1 > n THEN 0 ELSE n - 1 + 1
    BY <2>1, FS_Interval
  <2> QED BY <1>1, <2>2
<1>5. f \in Injection(1 .. n, T)
  <2> HIDE DEF f, T, n
  <2> QED BY <1>2, <1>3, <1>4, FS_SurjSameCardinalityImpliesInj DEF n
<1>6. \A i, j \in 1 .. n : f[i] = f[j] => i = j
  <2>1. DOMAIN f = 1 .. n
    OBVIOUS
  <2> HIDE DEF f, T, n
  <2> QED BY <1>5, <2>1 DEF Injection, IsInjective
<1> QED BY <1>6

\* The last place of an id is one of its places.
LastPlaceOf(ds, id) == SelectLastInSeq(ds, LAMBDA d : d.id = id)

\* In a registry the last place of an id is a place of the id.
LEMMA LastPlace ==
  ASSUME NEW S, NEW ds \in Seq(S), NEW id \in IdsOf(ds),
         Cardinality(IdsOf(ds)) = Len(ds)
  PROVE  LastPlaceOf(ds, id) \in 1 .. Len(ds) /\ ds[LastPlaceOf(ds, id)].id = id
<1> DEFINE places == {i \in 1 .. Len(ds) : ds[i].id = id}
<1>1. DOMAIN ds = 1 .. Len(ds)
  OBVIOUS
<1>2. PICK i \in 1 .. Len(ds) : ds[i].id = id
  BY <1>1 DEF IdsOf, ToSet
<1>3. places = {i}
  BY <1>2, IdsDiffer
<1>4. Max(places) = i
  BY <1>2, <1>3 DEF Max
<1>5. LastPlaceOf(ds, id) = i
  BY <1>3, <1>4 DEF SelectLastInSeq, LastPlaceOf
<1> QED BY <1>2, <1>5

\* What a registry says of an id is the only descriptor offered under it, and
\* it was reviewed.
LEMMA RegistryResolves ==
  ASSUME NEW S, NEW ds \in Seq(S), NEW registry \in Registry(ds), NEW id \in DOMAIN registry
  PROVE  {d \in ToSet(ds) : d.id = id} = {registry[id]} /\ Reviewed(registry[id])
<1> DEFINE i == LastPlaceOf(ds, id)
<1>1. /\ \A d \in ToSet(ds) : Reviewed(d)
      /\ Cardinality(IdsOf(ds)) = Len(ds)
      /\ id \in IdsOf(ds) /\ registry[id] = ds[i]
  BY DEF Registry, LastPlaceOf
<1>2. i \in 1 .. Len(ds) /\ ds[i].id = id
  BY <1>1, LastPlace
<1>3. DOMAIN ds = 1 .. Len(ds)
  OBVIOUS
<1> HIDE DEF i
<1>4. \A j \in 1 .. Len(ds) : ds[j].id = id => j = i
  BY <1>1, <1>2, IdsDiffer
<1>5. {d \in ToSet(ds) : d.id = id} = {ds[i]}
  BY <1>2, <1>3, <1>4 DEF ToSet
<1> QED BY <1>1, <1>5

\* The music vertical's descriptors, spelled out.
LEMMA MusicIs ==
  /\ DOMAIN MusicDescriptors = 1 .. 4 /\ Len(MusicDescriptors) = 4
  /\ \A i \in 1 .. 4 : /\ MusicDescriptors[i].complete
                       /\ MusicDescriptors[i].stop = "emergency-stop"
                       /\ MusicDescriptors[i].reversal \in {"irreversible", "route-close"}
                       /\ MusicDescriptors[i].reversal # MusicDescriptors[i].id
  /\ MusicDescriptors[1].id = "midi-send" /\ MusicDescriptors[2].id = "route-open"
  /\ MusicDescriptors[3].id = "route-close" /\ MusicDescriptors[4].id = "emergency-stop"
  /\ \E S : MusicDescriptors \in Seq(S)
<1> DEFINE music(id, reversal) == [id |-> id, complete |-> TRUE, reversal |-> reversal,
                                   stop |-> "emergency-stop"]
           a == music("midi-send", "irreversible")
           b == music("route-open", "route-close")
           c == music("route-close", "irreversible")
           d == music("emergency-stop", "irreversible")
<1>1. MusicDescriptors = <<a, b, c, d>>
  BY DEF MusicDescriptors
<1>2. \A x \in {a, b, c, d} : /\ x.complete /\ x.stop = "emergency-stop"
                              /\ x.reversal \in {"irreversible", "route-close"}
                              /\ x.reversal # x.id
  OBVIOUS
<1>3. /\ a.id = "midi-send" /\ b.id = "route-open" /\ c.id = "route-close"
      /\ d.id = "emergency-stop"
  OBVIOUS
<1> HIDE DEF a, b, c, d
<1>4. /\ DOMAIN <<a, b, c, d>> = 1 .. 4 /\ Len(<<a, b, c, d>>) = 4
      /\ <<a, b, c, d>> \in Seq({a, b, c, d})
      /\ <<a, b, c, d>>[1] = a /\ <<a, b, c, d>>[2] = b
      /\ <<a, b, c, d>>[3] = c /\ <<a, b, c, d>>[4] = d
  OBVIOUS
<1>5. \A i \in 1 .. 4 : <<a, b, c, d>>[i] \in {a, b, c, d}
  BY <1>4
<1> QED BY <1>1, <1>2, <1>3, <1>4, <1>5

\* Four descriptors, four ids.
LEMMA MusicIds ==
  /\ IdsOf(MusicDescriptors) = {"midi-send", "route-open", "route-close", "emergency-stop"}
  /\ Cardinality(IdsOf(MusicDescriptors)) = 4
<1> DEFINE ids == {"midi-send", "route-open", "route-close"}
<1>1. IdsOf(MusicDescriptors) = {"midi-send", "route-open", "route-close", "emergency-stop"}
  <2>1. DOMAIN MusicDescriptors = 1 .. 4
    BY MusicIs
  <2> QED BY <2>1, MusicIs DEF IdsOf, ToSet
<1>2. IsFiniteSet({"midi-send"}) /\ Cardinality({"midi-send"}) = 1
  BY FS_Singleton
<1>3. /\ IsFiniteSet({"midi-send"} \cup {"route-open"})
      /\ Cardinality({"midi-send"} \cup {"route-open"}) = 2
  BY <1>2, FS_AddElement
<1>4. /\ IsFiniteSet({"midi-send", "route-open"} \cup {"route-close"})
      /\ Cardinality({"midi-send", "route-open"} \cup {"route-close"}) = 3
  <2>1. {"midi-send"} \cup {"route-open"} = {"midi-send", "route-open"}
    OBVIOUS
  <2> QED BY <1>3, <2>1, FS_AddElement
<1>5. Cardinality(ids \cup {"emergency-stop"}) = 4
  <2>1. {"midi-send", "route-open"} \cup {"route-close"} = ids
    OBVIOUS
  <2>2. "emergency-stop" \notin ids
    OBVIOUS
  <2> HIDE DEF ids
  <2> QED BY <1>4, <2>1, <2>2, FS_AddElement
<1>6. ids \cup {"emergency-stop"} = {"midi-send", "route-open", "route-close", "emergency-stop"}
  OBVIOUS
<1> QED BY <1>1, <1>5, <1>6

\* The music vertical can be declared, and its registry knows what undoes or
\* stops each of its effects.
MusicDeclarable ==
  \E registry \in Registry(MusicDescriptors) : \A id \in DOMAIN registry :
    {registry[id].reversal, registry[id].stop} \subseteq DOMAIN registry \cup {"irreversible"}

\* It can, and it is complete.
LEMMA MusicResolves == MusicDeclarable
<1> DEFINE ds == MusicDescriptors
           registry == [id \in IdsOf(ds) |-> ds[LastPlaceOf(ds, id)]]
<1>1. DOMAIN ds = 1 .. 4 /\ Len(ds) = 4
  BY MusicIs
<1>2. \A d \in ToSet(ds) : Reviewed(d)
  BY <1>1, MusicIs DEF ToSet, Reviewed
<1>3. registry \in Registry(ds)
  BY <1>1, <1>2, MusicIds DEF Registry, LastPlaceOf
<1>4. ASSUME NEW id \in DOMAIN registry
      PROVE  {registry[id].reversal, registry[id].stop}
               \subseteq DOMAIN registry \cup {"irreversible"}
  <2>1. id \in IdsOf(ds) /\ DOMAIN registry = IdsOf(ds)
    OBVIOUS
  <2>2. LastPlaceOf(ds, id) \in 1 .. 4
    <3>1. PICK S : ds \in Seq(S)
      BY MusicIs
    <3>2. Cardinality(IdsOf(ds)) = Len(ds)
      BY <1>1, MusicIds
    <3> HIDE DEF ds, registry
    <3> QED BY <1>1, <2>1, <3>1, <3>2, LastPlace
  <2>3. registry[id] = ds[LastPlaceOf(ds, id)]
    BY <2>1
  <2>4. \A i \in 1 .. 4 : /\ ds[i].reversal \in {"irreversible", "route-close"}
                          /\ ds[i].stop = "emergency-stop"
    BY MusicIs
  <2> HIDE DEF registry
  <2> QED BY <2>1, <2>2, <2>3, <2>4, MusicIds
<1> QED BY <1>3, <1>4 DEF MusicDeclarable

\* Every effect of an accepted manifest leads to its reviewed descriptor, and
\* the music vertical is complete.
THEOREM ManifestInvariant == Spec => []ManifestResolves
<1>1. Init => ManifestResolves
  BY DEF Init, ManifestResolves
<1>2. ManifestResolves /\ [Next]_vars => ManifestResolves'
  <2> SUFFICES ASSUME ManifestResolves, [Next]_vars PROVE ManifestResolves'
    OBVIOUS
  <2>1. CASE Next
    <3>1. CASE call'.op = "declare"
      <4>1. PICK descriptors, manifest :
              /\ descriptors \in BoundedSeq(EffectDescriptor, 2) \cup {MusicDescriptors}
              /\ Declare(descriptors, manifest)
        BY <2>1, <3>1, StepsAsk DEF DeclareProvider
      <4>2. \E S : descriptors \in Seq(S)
        <5>1. CASE descriptors \in BoundedSeq(EffectDescriptor, 2)
          <6>1. PICK m \in 0 .. 2 : descriptors \in [1 .. m -> EffectDescriptor]
            BY <5>1 DEF BoundedSeq, SeqOf
          <6>2. descriptors \in Seq(EffectDescriptor)
            BY <6>1
          <6> QED BY <6>2
        <5>2. CASE descriptors = MusicDescriptors
          BY <5>2, MusicIs
        <5> QED BY <4>1, <5>1, <5>2
      <4>3. /\ call'.descriptors = descriptors /\ call'.manifest = manifest
            /\ \A r \in answer' : r \in Registry(descriptors) /\ Declared(manifest, r)
        BY <4>1 DEF Declare, Answer
      <4>4. \A r \in answer' : \A id \in manifest.effects :
              {d \in ToSet(descriptors) : d.id = id} = {r[id]} /\ Reviewed(r[id])
        <5> SUFFICES ASSUME NEW r \in answer', NEW id \in manifest.effects
            PROVE  {d \in ToSet(descriptors) : d.id = id} = {r[id]} /\ Reviewed(r[id])
          OBVIOUS
        <5>1. id \in DOMAIN r /\ r \in Registry(descriptors)
          BY <4>3 DEF Declared
        <5> QED BY <4>2, <5>1, RegistryResolves
      <4>5. call'.descriptors = MusicDescriptors =>
              \E registry \in Registry(call'.descriptors) : \A id \in DOMAIN registry :
                {registry[id].reversal, registry[id].stop}
                  \subseteq DOMAIN registry \cup {"irreversible"}
        BY MusicResolves DEF MusicDeclarable
      <4> QED BY <4>3, <4>4, <4>5 DEF ManifestResolves
    <3>2. CASE call'.op # "declare"
      BY <3>2 DEF ManifestResolves
    <3> QED BY <3>1, <3>2
  <2>2. CASE UNCHANGED vars
    BY <2>2 DEF vars, ManifestResolves
  <2> QED BY <2>1, <2>2
<1> QED BY <1>1, <1>2, PTL DEF Spec

=============================================================================
