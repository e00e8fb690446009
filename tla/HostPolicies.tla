---------------------------- MODULE HostPolicies ----------------------------
(***************************************************************************)
(* The host's stateless decisions: placing a fragment on a LAN peer        *)
(* (LanPlacement), shaping a stream by its constructor (config.rs,         *)
(* backend.rs), admitting a worn event (watch.rs), declaring a provider    *)
(* against an effect registry (device.rs) and placing glasses              *)
(* (glasses_placement.rs).                                                 *)
(*                                                                         *)
(* None keeps anything from one call to the next, so a behaviour is one    *)
(* call with any inputs, and its answer: the set of the Ok values, empty   *)
(* for an error.                                                           *)
(***************************************************************************)
EXTENDS LanPlacement

CONSTANT OutputEnvelopes  \* envelopes a fragment may have, some tagged before

ASSUME EnvelopesAssumption ==
  OutputEnvelopes \subseteq
    Seq([sequence : Nat, class : STRING, diagnostics : Seq(STRING)])

VARIABLES call, answer

vars == <<call, answer>>

Init == call = [op |-> "none"] /\ answer = {}

Idle == call.op = "none"
Answer(input, result) == call' = input /\ answer' = result

-----------------------------------------------------------------------------
(* Placement on a LAN peer                                                 *)

PlanLan ==
  /\ Idle
  /\ \E mode \in Modes({0, 2}, {0, 3}),
        domains \in SUBSET {"sample", "control"}, envelopes \in OutputEnvelopes,
        pinned \in BOOLEAN, capabilities \in SUBSET {RemoteSample, "stream.other"} :
       LET request == [op |-> "plan", mode |-> mode, domains |-> domains, pinned |-> pinned,
                       envelopes |-> envelopes, capabilities |-> capabilities]
       IN  Answer(request, Plan(request))

-----------------------------------------------------------------------------
(* Constructors that check the shape of a stream                           *)

Config == [media : {"pcm", "midi", "data"},
           clock : {"sample", "midi-tick", "control", "server-frame", "unknown"},
           capacity : {0, 1}]

\* Fault: the realtime constructor trusts the sample clock to mean audio.
RealtimeByClock(config) == config.clock = "sample" /\ config.capacity # 0

\* validate_realtime_local_audio
RealtimeLocalAudio(config) ==
  config.media = "pcm" /\ config.clock = "sample" /\ config.capacity # 0

\* validate_lan_midi_control
LanMidiControl(config) ==
  config.media = "midi" /\ config.clock \in {"midi-tick", "control"} /\ config.capacity # 0

\* validate_lan_buffered_audio_preview
LanBufferedPreview(config) == config.media = "pcm" /\ config.capacity # 0

\* The shapes a configuration passes for, one constructor each.
Shapes(config) ==
  {s \in {"realtime", "lan-midi", "lan-preview"} :
     CASE s = "realtime" -> RealtimeLocalAudio(config)
       [] s = "lan-midi" -> LanMidiControl(config)
       [] s = "lan-preview" -> LanBufferedPreview(config)}

ShapeStream ==
  /\ Idle
  /\ \E config \in Config : Answer([op |-> "shape", config |-> config], Shapes(config))

-----------------------------------------------------------------------------
(* Consent for worn events                                                 *)

WatchCapability == {"watch/health", "watch/location", "watch/mic", "watch/vendor-report"}

\* A worn-event expression: a field may be missing or hold another value.
WornEvent == [sample : {"worn-event", "other", "missing"},
              namespace : {"worn-sensor", "other", "missing"},
              sensor : {"gps", "route", "mic-audio", "heart-rate"}]

\* watch_capability_for_worn_event
CapabilityFor(event) ==
  {c \in {CASE event.sensor \in {"gps", "route"} -> "watch/location"
            [] event.sensor = "mic-audio" -> "watch/mic"
            [] OTHER -> "watch/health"} :
     event.sample = "worn-event" /\ event.namespace = "worn-sensor"}

\* require_watch_consent: kernel authority, the session's own receipt, and
\* the visible grant.
WatchConsented(capability, authority, grants, receiptSession, session) ==
  capability \in authority /\ receiptSession = session /\ capability \in grants

\* require_watch_worn_ingest
IngestWorn ==
  /\ Idle
  /\ \E event \in WornEvent, authority, grants \in SUBSET WatchCapability,
        receiptSession, session \in {"ours", "theirs"} :
       Answer([op |-> "ingest", event |-> event, authority |-> authority, grants |-> grants,
               receiptSession |-> receiptSession, session |-> session],
              {c \in CapabilityFor(event) :
                 WatchConsented(c, authority, grants, receiptSession, session)})

-----------------------------------------------------------------------------
(* Effect registries and provider manifests                                *)

Ids == {"send", "undo"}

\* EffectDescriptor: `complete` when no mandatory field is empty or zero.
EffectDescriptor ==
  [id : Ids, complete : BOOLEAN, reversal : Ids \cup {"irreversible"}, stop : {"undo"}]

\* EffectDescriptor::validate
Reviewed(d) == d.complete /\ d.reversal # d.id

\* MusicEffect::descriptor, in the order of music_effect_registry.
MusicDescriptors ==
  LET music(id, reversal) == [id |-> id, complete |-> TRUE, reversal |-> reversal,
                              stop |-> "emergency-stop"]
  IN  << music("midi-send", "irreversible"), music("route-open", "route-close"),
         music("route-close", "irreversible"), music("emergency-stop", "irreversible") >>

IdsOf(descriptors) == {d.id : d \in ToSet(descriptors)}

\* Fault: a later descriptor takes the place of an earlier one.
RegistryOverwriting(descriptors) ==
  {r \in {[id \in IdsOf(descriptors) |-> descriptors[SelectLastInSeq(descriptors, LAMBDA d : d.id = id)]]} :
     \A d \in ToSet(descriptors) : Reviewed(d)}

\* EffectRegistry::new: one bad or repeated descriptor refuses them all.
Registry(descriptors) ==
  {r \in {[id \in IdsOf(descriptors) |-> descriptors[SelectLastInSeq(descriptors, LAMBDA d : d.id = id)]]} :
     /\ \A d \in ToSet(descriptors) : Reviewed(d)
     /\ Cardinality(IdsOf(descriptors)) = Len(descriptors)}

\* A content reference is judged by its text; what it names is not opened.
Manifest(ids) ==
  [version : {1, 2}, stale_after : {0, 1}, profile : {"digest", "secret", ""},
   cassette : {"digest", "secret", ""}, effects : SUBSET ids]

\* ProviderManifest::validate
Declared(manifest, registry) ==
  /\ manifest.version = 1 /\ manifest.stale_after # 0
  /\ manifest.profile = "digest" /\ manifest.cassette = "digest"
  /\ manifest.effects \subseteq DOMAIN registry

Declare(descriptors, manifest) ==
  Answer([op |-> "declare", descriptors |-> descriptors, manifest |-> manifest],
         {r \in Registry(descriptors) : Declared(manifest, r)})

DeclareProvider ==
  /\ Idle
  /\ \/ \E descriptors \in BoundedSeq(EffectDescriptor, 2), manifest \in Manifest(Ids) :
          Declare(descriptors, manifest)
     \/ \E manifest \in Manifest(IdsOf(MusicDescriptors)) : Declare(MusicDescriptors, manifest)

-----------------------------------------------------------------------------
(* Placement of glasses                                                    *)

\* resolve_glasses_placement: where a route's encoder runs, and its adapter.
RouteTable ==
  {[route |-> row[1], locality |-> row[2], adapter |-> row[3]] : row \in {
     <<"direct-linux", "host-local", "reprojector">>,
     <<"android-usb", "host-local", "reprojector">>,
     <<"neckband-local", "edge-local", "reprojector">>,
     <<"neckband-relay", "remote", "reprojector">>,
     <<"mobile-dock-display", "host-local", "mirror">>,
     <<"ble-direct", "host-local", "glance">>,
     <<"web-bluetooth", "host-local", "glance">>,
     <<"phone-relay", "remote", "glance">>,
     <<"controller-hid", "host-local", "controller-intent">>}}

\* GlassesAdapterKind::surface_codec_id
Codec(adapter) ==
  CASE adapter = "reprojector" -> "scene-spatial"
    [] adapter = "glance" -> "scene-glance"
    [] adapter = "mirror" -> "scene-mirror"
    [] adapter = "controller-intent" -> "intent"

\* DeviceSite::edge_local, whatever the encoder's locality.
AdapterSite(adapter, encoderLocality) ==
  [site |-> adapter, codec |-> Codec(adapter), locality |-> "edge-local"]

\* GlassesPlacementRequest::resolve, with DevicePlacement::validate.
Resolve(route, encoderLocality, adapter) ==
  {p \in {[encoder |-> [site |-> <<route, "encoder">>, codec |-> Codec(adapter),
                        locality |-> encoderLocality],
           adapter |-> AdapterSite(adapter, encoderLocality)]} :
     p.adapter.locality = "edge-local"}

PlaceGlasses ==
  /\ Idle
  /\ \E namespace \in {"device/route", "other"},
        route \in {row.route : row \in RouteTable} \cup {"unknown"} :
       LET rows == {row \in RouteTable : namespace = "device/route" /\ row.route = route}
       IN  Answer([op |-> "glasses", namespace |-> namespace, route |-> route],
                  UNION {Resolve(row.route, row.locality, row.adapter) : row \in rows})

-----------------------------------------------------------------------------

Next == PlanLan \/ ShapeStream \/ IngestWorn \/ DeclareProvider \/ PlaceGlasses

Spec == Init /\ [][Next]_vars

-----------------------------------------------------------------------------
(* Properties                                                              *)

\* A pinned sample fragment crosses the LAN only under the experimental
\* capability, and then nobody can miss it: every envelope it sends says so
\* last.  What an envelope said before, its place and its number are kept, and
\* all envelopes have the class the report announces.
PinnedNeverSilent ==
  \A report \in answer : call.op = "plan" =>
    LET pinned == call.pinned /\ "sample" \in call.domains
    IN  /\ pinned => RemoteSample \in call.capabilities
        /\ Len(report.envelopes) = Len(call.envelopes)
        /\ \A i \in DOMAIN report.envelopes :
             LET was == call.envelopes[i]
                 is == report.envelopes[i]
             IN  /\ is.sequence = was.sequence /\ is.class = report.class
                 /\ IsPrefix(was.diagnostics, is.diagnostics)
                 /\ Len(is.diagnostics) = Len(was.diagnostics) + (IF pinned THEN 1 ELSE 0)
                 /\ pinned => Last(is.diagnostics) = Experimental

\* The mode is one that a constructor made, or could have made.
Constructed(mode) ==
  \/ mode \in JitterBuffered(mode.jitter_packets, mode.latency_comp_frames)
  \/ mode.kind = "bar-delay" /\ mode \in BarDelay(mode.bars, mode.tempo_bpm,
                                    mode.jitter_packets, mode.latency_comp_frames)

\* A bar delay is the length of its bars, as far as a u64 of beat-milliseconds
\* can tell it, rounded down to a millisecond once.  A mode of a constructor
\* always has one, and it falls short of the musical time by less than one
\* millisecond at any tempo: nothing saturates on the way.  The bridges add the
\* latency the mode asked for and no other.
DelayExact ==
  \A report \in answer : call.op = "plan" =>
    /\ report.latency = [packets |-> call.mode.jitter_packets,
                         frames |-> call.mode.latency_comp_frames]
    /\ call.mode.kind = "bar-delay" =>
         LET time == call.mode.bars * call.mode.beats_per_bar * MinuteMillis
         IN  /\ \A delay \in report.delay :
                  /\ delay * call.mode.tempo_bpm <= time
                  /\ delay * call.mode.tempo_bpm <= WordMax
                  /\ \/ time < (delay + 1) * call.mode.tempo_bpm
                     \/ ~Constructed(call.mode) /\ WordMax < (delay + 1) * call.mode.tempo_bpm
             /\ Constructed(call.mode) \/ call.mode.tempo_bpm # 0 => report.delay # {}

\* A configuration good for realtime audio is good for its preview over a LAN,
\* so that a stream can be moved there; none is good for audio and for MIDI.
ShapesConsistent ==
  call.op = "shape" =>
    /\ "realtime" \in answer => "lan-preview" \in answer
    /\ "lan-midi" \in answer => answer = {"lan-midi"}

\* Every effect an accepted manifest names leads to the one descriptor that was
\* reviewed under that name, among all that were offered.  The music vertical
\* can always be declared, and what undoes or stops one of its effects is
\* registered with it.
ManifestResolves ==
  call.op = "declare" =>
    /\ \A registry \in answer : \A id \in call.manifest.effects :
         /\ {d \in ToSet(call.descriptors) : d.id = id} = {registry[id]}
         /\ Reviewed(registry[id])
    /\ call.descriptors = MusicDescriptors =>
         \E registry \in Registry(call.descriptors) : \A id \in DOMAIN registry :
           {registry[id].reversal, registry[id].stop} \subseteq DOMAIN registry \cup {"irreversible"}

=============================================================================
