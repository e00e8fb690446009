---------------------------- MODULE DeviceCatalog ----------------------------
(***************************************************************************)
(* The device catalog beside the audio router: src/catalog.rs with its     *)
(* record providers, the evaluation sites it opens, live MIDI sites        *)
(* (src/midi_live_eval_site.rs), placement opens through the router, and   *)
(* the configuration probe (src/config_probe.rs).                          *)
(*                                                                         *)
(* The catalog keeps copies of what the router and the registry held when  *)
(* it was told to look; providers load, reload and unload behind it, so    *)
(* one id may be listed by several providers, with different cards.  A     *)
(* call borrows catalog and router, so each call is one step; selecting a  *)
(* placement and opening it are two calls.                                 *)
(***************************************************************************)
EXTENDS AudioRouter

CONSTANTS
  IdOrder,       \* every device id, in the order the texts sort
  NameOf,        \* symbol of a transport -> the name part of it
  CardOf,        \* build -> the card of that site value
  Registries,    \* what a registry may export: sets of [symbol, site, valid]
  NativeMidi,    \* the rows of a native MIDI provider
  MaxAdded,      \* bound: providers added to the catalog
  MaxHandles     \* bound: sites and placements opened

Modeled == "modeled"
Direction == {"input", "output", "duplex"}
Id == ToSet(IdOrder)
Record == [id : Id, kind : {"audio", "midi"}, direction : Direction,
           transport : DOMAIN NameOf \cup {Modeled}]
Card == [channels_in : Nat, channels_out : Nat, hardware : BOOLEAN]

\* A transport whose name is the word of the fallback would be taken for it.
ASSUME CatalogAssumption ==
  /\ IdOrder \in Seq(Id)
  /\ Key \cup {"midi-in-0", "midi-out-0", "stereo-0"} \subseteq Id
  /\ \A t \in DOMAIN NameOf : NameOf[t] # Modeled
  /\ Owner \cup Key \subseteq DOMAIN NameOf
  /\ \A b \in 0 .. MaxBuilds - 1 : CardOf[b] \in Card
  /\ Registries \subseteq SUBSET [symbol : Key, site : BOOLEAN, valid : BOOLEAN]
  /\ NativeMidi \in Seq(Record)

VARIABLES
  catalog,    \* the providers, each the sequence of records it enumerates
  selected,   \* the site a caller selected for a placement, or none
  handles,    \* sites opened through the catalog
  placed      \* streams opened through the router: [chosen, row]

\* A call that leaves the router alone.
RouterIdle == load' = NoLoad /\ UNCHANGED <<sites, native, builds>>

allVars == <<vars, catalog, selected, handles, placed>>

-----------------------------------------------------------------------------
(* Records                                                                 *)

\* audio_from_card: a card with no channel at all counts as an output.
CardDirection(card) ==
  IF card.channels_in = 0 THEN "output"
  ELSE IF card.channels_out > 0 THEN "duplex" ELSE "input"

AudioFromCard(id, card, transport) ==
  [id |-> id, kind |-> "audio", direction |-> CardDirection(card), transport |-> transport]

\* ModeledMidiProvider and ModeledAudioProvider
ModeledMidiRows ==
  << [id |-> "midi-in-0", kind |-> "midi", direction |-> "input", transport |-> Modeled],
     [id |-> "midi-out-0", kind |-> "midi", direction |-> "output", transport |-> Modeled] >>

ModeledAudioRows ==
  << AudioFromCard("stereo-0",
                   [channels_in |-> 2, channels_out |-> 2, hardware |-> FALSE], Modeled) >>

\* Ids in the order their texts sort: sort_by_key, then dedup_by_key.
Ordered(ids) ==
  FoldLeft(LAMBDA acc, id : IF id \in ids THEN Append(acc, id) ELSE acc, <<>>, IdOrder)

\* ProviderAudioSites::from_router: the router's rows now, by id.
FromRouter ==
  LET ids == Ordered(DOMAIN sites)
  IN  [i \in DOMAIN ids |->
         LET row == sites[ids[i]]
             card == CardOf[row.build]
         IN  AudioFromCard(ids[i], card, IF card.hardware THEN row.owner ELSE Modeled)]

\* registry_audio_site_record: an export that is an audio site and valid.
AudioSiteExport(export) == export.site /\ export.valid

\* RegistryAudioDevices::from_registry: one row per id, whichever libs export it.
FromRegistry(registry) ==
  LET exported == {export.symbol : export \in {e \in registry : AudioSiteExport(e)}}
      ids == Ordered(exported)
  IN  [i \in DOMAIN ids |-> [id |-> ids[i], kind |-> "audio", direction |-> "duplex",
                             transport |-> ids[i]]]

\* new, or default_modeled
CatalogInit ==
  /\ Init
  /\ catalog \in {<<>>, <<ModeledMidiRows, ModeledAudioRows>>}
  /\ selected = {}
  /\ handles = <<>>
  /\ placed = {}

Added == {i \in DOMAIN catalog : catalog[i] \notin {ModeledMidiRows, ModeledAudioRows}}

AddProvider(rows) ==
  /\ Cardinality(Added) < MaxAdded
  /\ catalog' = Append(catalog, rows)
  /\ RouterIdle
  /\ UNCHANGED <<selected, handles, placed>>

\* register_provider_sites, register_registry_audio_devices: nothing for no rows.
RegisterProviderSites == FromRouter # <<>> /\ AddProvider(FromRouter)
RegisterRegistryDevices(registry) ==
  FromRegistry(registry) # <<>> /\ AddProvider(FromRegistry(registry))

\* with_native_midi
RegisterNativeMidi == NativeMidi \notin ToSet(catalog) /\ AddProvider(NativeMidi)

-----------------------------------------------------------------------------
(* Opening through the catalog                                             *)

Lists(rows, id) == \E i \in DOMAIN rows : rows[i].id = id

First(rows, id) == rows[SelectInSeq(rows, LAMBDA record : record.id = id)]

\* enumerate: every provider's records, in registration order.
Enumerate == FlattenSeq(catalog)

\* Fault: the provider registered last opens the device.
OpenerLast(id) ==
  CHOOSE i \in DOMAIN catalog :
    Lists(catalog[i], id) /\ \A j \in DOMAIN catalog : Lists(catalog[j], id) => j <= i

\* open: the first provider that lists the id opens it.
Opener(id) ==
  CHOOSE i \in DOMAIN catalog :
    Lists(catalog[i], id) /\ \A j \in DOMAIN catalog : Lists(catalog[j], id) => i <= j

\* DeviceDirection::effect_kinds
EffectKinds(direction) ==
  CASE direction = "input" -> {"read"}
    [] direction = "output" -> {"write"}
    [] direction = "duplex" -> {"read", "write"}

\* DeviceRecord::open_plan: what enforce checks and records.
OpenPlan(record) ==
  [backend |-> record.transport, device |-> record.id, kinds |-> EffectKinds(record.direction)]

\* open_checked: the first record with the id is planned and enforced, then
\* open looks again.  The site that comes back carries its provider's record.
\* A refusal (no capability, an effect that does not resolve, a provider's
\* error) leaves all of this as it was.
OpenChecked(id, handle) ==
  /\ Len(handles) + Cardinality(placed) < MaxHandles
  /\ Lists(Enumerate, id)
  /\ handles' = Append(handles, handle)
  /\ RouterIdle
  /\ UNCHANGED <<catalog, selected, placed>>

Opened(id) == First(catalog[Opener(id)], id)

\* What a caller gets: the site, and what became of it until it was handed out.
Handle(id, live, fate) ==
  [record |-> Opened(id), plan |-> OpenPlan(First(Enumerate, id)), live |-> live,
   session |-> fate.session, site |-> fate.site, held |-> fate.held, broken |-> fate.broken]

OpenSite(id) ==
  OpenChecked(id, Handle(id, FALSE, [session |-> "none", site |-> "open",
                                     held |-> TRUE, broken |-> FALSE]))

-----------------------------------------------------------------------------
(* Live MIDI sites                                                         *)

Session == {"source", "sink", "duplex"}

\* live_direction
LiveDirection(direction) ==
  CASE direction = "input" -> "source"
    [] direction = "output" -> "sink"
    [] direction = "duplex" -> "duplex"

\* Only a site of a native provider brings a session of its own, or an error.
Offers(record) == IF record \in ToSet(NativeMidi) THEN Session \cup {"error", "none"} ELSE {"none"}

\* Fault: a session of the wrong direction is refused, and the site forgotten.
AdoptForgetful(record, offered, ok) ==
  LET wanted == LiveDirection(record.direction)
      Refuse(session) == [session |-> session, site |-> IF ok THEN "closed" ELSE "failed",
                          held |-> FALSE, broken |-> FALSE]
  IN  IF record.kind # "midi" \/ offered = "error" THEN Refuse("none")
      ELSE IF offered = "none" /\ ~ok
      THEN [session |-> "none", site |-> "dropped", held |-> FALSE, broken |-> TRUE]
      ELSE IF offered \notin {"none", wanted}
      THEN [session |-> "dropped", site |-> "dropped", held |-> FALSE, broken |-> FALSE]
      ELSE [session |-> wanted, site |-> "open", held |-> TRUE, broken |-> FALSE]

\* from_eval_site: what becomes of an opened site.  A refusal closes it (and
\* the close may fail); when no modeled session can be built it is dropped.
Adopt(record, offered, ok) ==
  LET wanted == LiveDirection(record.direction)
      Refuse(session) == [session |-> session, site |-> IF ok THEN "closed" ELSE "failed",
                          held |-> FALSE, broken |-> FALSE]
  IN  IF record.kind # "midi" \/ offered = "error" THEN Refuse("none")
      ELSE IF offered = "none" /\ ~ok
      THEN [session |-> "none", site |-> "dropped", held |-> FALSE, broken |-> TRUE]
      ELSE IF offered \notin {"none", wanted} THEN Refuse("dropped")
      ELSE [session |-> wanted, site |-> "open", held |-> TRUE, broken |-> FALSE]

\* open_live_checked.  Closing an audio row of the catalog cannot fail.
OpenLive(id, ok) ==
  /\ Lists(Enumerate, id)
  /\ ok \/ Opened(id).kind = "midi"
  /\ \E offered \in Offers(Opened(id)) :
       OpenChecked(id, Handle(id, TRUE, Adopt(Opened(id), offered, ok)))

\* close of a live site closes its session first; when that fails the site is
\* dropped with its evaluation site.
Closed(h, sessionOk, siteOk) ==
  IF h.live /\ ~sessionOk
  THEN [h EXCEPT !.session = "failed", !.site = "dropped", !.held = FALSE, !.broken = TRUE]
  ELSE [h EXCEPT !.session = IF @ = "none" THEN @ ELSE "closed",
                 !.site = IF siteOk THEN "closed" ELSE "failed", !.held = FALSE]

\* StreamEvalSite::close takes the site.
CloseHandle(n, sessionOk, siteOk) ==
  /\ handles[n].held
  /\ siteOk \/ handles[n].record \in ToSet(NativeMidi)
  /\ handles' = [handles EXCEPT ![n] = Closed(@, sessionOk, siteOk)]
  /\ RouterIdle
  /\ UNCHANGED <<catalog, selected, placed>>

-----------------------------------------------------------------------------
(* Placements through the router                                           *)

\* The key a caller keeps, with the row it had then; freed: history, whether the
\* key was free at some moment since.
Choice(key) ==
  [key |-> key, owner |-> sites[key].owner, build |-> sites[key].build, freed |-> FALSE]

\* resolve_or_modeled: the key, or the fallback's, or an error.
ResolveOrModeled(key, modeled) ==
  /\ {key, modeled} \cap DOMAIN sites # {}
  /\ selected' = {Choice(IF key \in DOMAIN sites THEN key ELSE modeled)}
  /\ RouterIdle
  /\ UNCHANGED <<catalog, handles, placed>>

\* sites_by_capability: the caller takes one of the keys that fit.
SelectByCapability(min_channels_out) ==
  /\ \E key \in DOMAIN sites :
       /\ CardOf[sites[key].build].channels_out >= min_channels_out
       /\ selected' = {Choice(key)}
  /\ RouterIdle
  /\ UNCHANGED <<catalog, handles, placed>>

\* open_placement_checked: the key must still be registered; then the
\* request's plan is enforced and whichever site has the key opens the stream.
OpenPlacement(choice) ==
  /\ Len(handles) + Cardinality(placed) < MaxHandles
  /\ choice.key \in DOMAIN sites
  /\ placed' = placed \cup {[chosen |-> choice, row |-> sites[choice.key]]}
  /\ selected' = {}
  /\ RouterIdle
  /\ UNCHANGED <<catalog, handles>>

-----------------------------------------------------------------------------
(* Backend names and the configuration probe                               *)

\* push_unique
PushUnique(names, name) == IF name \in ToSet(names) THEN names ELSE Append(names, name)

\* One row in the loop of backend_names.
ListName(kind, acc, record) ==
  IF record.kind # kind THEN acc
  ELSE IF record.transport = Modeled THEN [acc EXCEPT !.modeled = TRUE]
  ELSE [acc EXCEPT !.names = PushUnique(@, NameOf[record.transport])]

Listing(kind) ==
  FoldLeft(LAMBDA acc, record : ListName(kind, acc, record),
           [names |-> <<>>, modeled |-> FALSE], Enumerate)

\* Fault: the fallback is offered beside hardware only when a row is modeled.
BackendNamesStrict(kind, fallback) ==
  LET listing == Listing(kind)
  IN  IF fallback /\ listing.modeled THEN PushUnique(listing.names, Modeled) ELSE listing.names

\* backend_names: one name for each hardware transport, in the order of the
\* rows, and the fallback when a row is modeled or there is no hardware.
BackendNames(kind, fallback) ==
  LET listing == Listing(kind)
  IN  IF fallback /\ (listing.modeled \/ listing.names = <<>>)
      THEN PushUnique(listing.names, Modeled) ELSE listing.names

\* candidate_regex, with its escapes: the names it accepts.
Accepts(names) == ToSet(names)

ProbeRequest == [lib : {"stream-host", "other"}, mode : {"modeled", "real"},
                 hardware_inventory : BOOLEAN]

ProbeStatus(request) ==
  IF request.lib # "stream-host" THEN "skipped"
  ELSE IF request.mode = "real" /\ ~request.hardware_inventory THEN "denied"
  ELSE "applied"

\* HostStreamConfigProbe::probe: its layer, kind -> accepted backend names,
\* which is there only when the status is applied.
Probe(request) ==
  [kind \in IF ProbeStatus(request) = "applied" THEN {"audio", "midi"} ELSE {} |->
     Accepts(IF request.mode = "modeled" THEN <<Modeled>> ELSE BackendNames(kind, FALSE))]

-----------------------------------------------------------------------------

\* A call of the router, between the two of a placement too.
RouterStep ==
  /\ Next
  /\ selected' = {[choice EXCEPT !.freed = @ \/ choice.key \notin DOMAIN sites'] :
                    choice \in selected}
  /\ UNCHANGED <<catalog, handles, placed>>

CatalogNext ==
  \/ RouterStep
  \/ RegisterProviderSites
  \/ \E registry \in Registries : RegisterRegistryDevices(registry)
  \/ RegisterNativeMidi
  \/ \E id \in Id : OpenSite(id) \/ \E ok \in BOOLEAN : OpenLive(id, ok)
  \/ \E n \in DOMAIN handles, sessionOk, siteOk \in BOOLEAN : CloseHandle(n, sessionOk, siteOk)
  \/ \E key, modeled \in Key : ResolveOrModeled(key, modeled)
  \/ \E n \in 0 .. 1 : SelectByCapability(n)
  \/ \E choice \in selected : OpenPlacement(choice)

CatalogSpec == CatalogInit /\ [][CatalogNext]_allVars

-----------------------------------------------------------------------------
(* Properties                                                              *)

\* What a device with this direction does to the host.
Performs(direction) ==
  {kind \in {"read", "write"} :
     (kind = "read" /\ direction # "output") \/ (kind = "write" /\ direction # "input")}

\* open_checked enforces the plan of one enumeration and opens from another:
\* also when the modeled rows, stale copies of the router and the registry list
\* an id with different cards, the site that comes back is the device whose
\* backend and effects were authorized, and no other.
OpenedIsPlanned ==
  \A n \in DOMAIN handles :
    handles[n].plan = [backend |-> handles[n].record.transport,
                       device |-> handles[n].record.id,
                       kinds |-> Performs(handles[n].record.direction)]

\* Through every refusal and failure of opening and closing a live MIDI site,
\* the evaluation site under it has been told to close when nobody holds it any
\* more, unless its session could not be built or not be closed; and the one a
\* caller holds has a session of the direction the catalog lists.
SitesReleased ==
  \A n \in DOMAIN handles :
    LET h == handles[n]
    IN  /\ ~h.held => \/ h.site \in {"closed", "failed"}
                      \/ h.site = "dropped" /\ h.broken
        /\ h.held => /\ h.site = "open"
                     /\ h.live => /\ h.record.kind = "midi"
                                  /\ (h.session = "source") = (Performs(h.record.direction) = {"read"})
                                  /\ (h.session = "sink") = (Performs(h.record.direction) = {"write"})

\* Whatever is loaded, reloaded and unloaded between the selection of a key and
\* the open, a placement reaches a site of the owner it was selected from unless
\* the key was free in between, and never an older site than the one selected.
PlacedAsChosen ==
  \A p \in placed :
    /\ p.row.owner = p.chosen.owner \/ p.chosen.freed
    /\ p.row.build >= p.chosen.build

HardwareNames(kind) ==
  {NameOf[record.transport] :
     record \in {r \in UNION {ToSet(catalog[i]) : i \in DOMAIN catalog} :
                   r.kind = kind /\ r.transport # Modeled}}

\* However many providers list a transport, a listing offers each hardware name
\* once and the modeled fallback, if at all, last; it is never empty.  A real
\* probe accepts exactly the hardware names of the catalog, which may be none,
\* and only a caller that may see the hardware learns them.
CandidatesExact ==
  /\ \A kind \in {"audio", "midi"} :
       LET names == BackendNames(kind, TRUE)
       IN  /\ names # <<>>
           /\ \A i, j \in DOMAIN names : names[i] = names[j] => i = j
           /\ ToSet(names) \ {Modeled} = HardwareNames(kind)
           /\ \A i \in DOMAIN names : names[i] = Modeled => i = Len(names)
  /\ \A request \in ProbeRequest :
       \A kind \in DOMAIN Probe(request) :
         Probe(request)[kind] =
           IF request.mode = "real" /\ request.hardware_inventory
           THEN HardwareNames(kind) ELSE {Modeled}

=============================================================================
