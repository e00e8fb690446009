---------------------------- MODULE LanPlacement ----------------------------
(***************************************************************************)
(* Placing a stream fragment on a LAN peer: src/placement/lan.rs.  Pure    *)
(* decisions over one request; a Result is the set of its Ok values, so an *)
(* error is the empty set.                                                 *)
(*                                                                         *)
(* u32 and u64 are cut down to CountMax and WordMax.                       *)
(***************************************************************************)
EXTENDS Naturals, Sequences, FiniteSets, SequencesExt

CONSTANTS
  CountMax,      \* largest u32
  WordMax,       \* largest u64
  BeatsPerBar,   \* DEFAULT_BEATS_PER_BAR
  MinuteMillis   \* milliseconds in a minute

\* The widths leave room for the beats the constructor takes: a u32 of bars, in
\* milliseconds at one beat per minute, is still a u64.  For other beats they
\* need not.
ASSUME LanAssumption ==
  /\ CountMax \in Nat /\ WordMax \in Nat
  /\ BeatsPerBar \in 1 .. CountMax
  /\ MinuteMillis \in Nat \ {0}
  /\ CountMax * BeatsPerBar * MinuteMillis <= WordMax

Count == 0 .. CountMax
Word == 0 .. WordMax

\* LanPlacementMode: its variants and their fields are public, so any value can
\* be given without a constructor, zero too.
Modes(packets, frames) ==
  [kind : {"jitter-buffered"}, jitter_packets : packets, latency_comp_frames : frames]
    \cup [kind : {"bar-delay"}, bars : Count, beats_per_bar : Count, tempo_bpm : Count,
          jitter_packets : packets, latency_comp_frames : frames]

\* LanPlacementMode::jitter_buffered
JitterBuffered(jitter_packets, latency_comp_frames) ==
  {m \in {[kind |-> "jitter-buffered", jitter_packets |-> jitter_packets,
           latency_comp_frames |-> latency_comp_frames]} : jitter_packets # 0}

\* LanPlacementMode::bar_delay
BarDelay(bars, tempo_bpm, jitter_packets, latency_comp_frames) ==
  {m \in {[kind |-> "bar-delay", bars |-> bars, beats_per_bar |-> BeatsPerBar,
           tempo_bpm |-> tempo_bpm, jitter_packets |-> jitter_packets,
           latency_comp_frames |-> latency_comp_frames]} :
     bars # 0 /\ tempo_bpm # 0 /\ jitter_packets # 0}

SaturatingMul(a, b) == IF a * b > WordMax THEN WordMax ELSE a * b

\* Fault: the length of a beat is rounded before the beats are counted.
DelayOfRoundedBeats(mode) ==
  {SaturatingMul(SaturatingMul(mode.bars, mode.beats_per_bar), MinuteMillis \div tempo) :
     tempo \in {mode.tempo_bpm} \ {0}}

\* bar_delay_millis, for a bar-delay mode.  It divides by the tempo: for a tempo
\* of zero there is no value, the call panics.
DelayOf(mode) ==
  {SaturatingMul(SaturatingMul(mode.bars, mode.beats_per_bar), MinuteMillis) \div tempo :
     tempo \in {mode.tempo_bpm} \ {0}}

LatencyClass(mode) ==
  IF mode.kind = "bar-delay" THEN "collab-bar-delay" ELSE "buffered-preview"

\* bridges: what stands between the peer and the graph.
Bridges(mode) ==
  << [kind |-> "jitter-buffer", packets |-> mode.jitter_packets, frames |-> 0],
     [kind |-> "latency-comp", packets |-> 0, frames |-> mode.latency_comp_frames] >>

\* added_bridge_latency, over the two bridges.
AddedLatency(bridges) ==
  [packets |-> bridges[1].packets + bridges[2].packets,
   frames |-> bridges[1].frames + bridges[2].frames]

-----------------------------------------------------------------------------
(* Requests: [domains, envelopes, mode, pinned, capabilities]              *)

RemoteSample == "stream.lan.experimental-remote-sample"
Experimental == "pinned-sample-remote-experimental"

\* fragment_has_sample_domain, over input and output edges.
HasSampleDomain(request) == "sample" \in request.domains

PinnedSample(request) == request.pinned /\ HasSampleDomain(request)

\* plan refuses a pinned sample fragment without the experimental capability.
Refused(request) == PinnedSample(request) /\ RemoteSample \notin request.capabilities

Diagnostics(request) == IF PinnedSample(request) THEN <<Experimental>> ELSE <<>>

\* Fault: the placement's diagnostics take the place of the envelope's own.
RemoteEnvelopeForgetful(envelope, class, diagnostics) ==
  [envelope EXCEPT !.class = class, !.diagnostics = diagnostics]

\* An envelope gets the peer's profile, and the placement's diagnostics after
\* its own.
RemoteEnvelope(envelope, class, diagnostics) ==
  [envelope EXCEPT !.class = class, !.diagnostics = @ \o diagnostics]

\* remote_output_envelopes
RemoteEnvelopes(envelopes, class, diagnostics) ==
  [i \in DOMAIN envelopes |-> RemoteEnvelope(envelopes[i], class, diagnostics)]

\* LanPlacementRequest::plan, with the report's derived fields; `delay` is the
\* set of what bar_delay_millis may return, where None counts as 0.  plan itself
\* looks at no number of the mode.
Plan(request) ==
  {report \in {[class |-> LatencyClass(request.mode),
                delay |-> IF request.mode.kind = "bar-delay" THEN DelayOf(request.mode) ELSE {0},
                latency |-> AddedLatency(Bridges(request.mode)),
                diagnostics |-> Diagnostics(request),
                envelopes |-> RemoteEnvelopes(request.envelopes, LatencyClass(request.mode),
                                              Diagnostics(request))]} :
     ~Refused(request)}

=============================================================================
