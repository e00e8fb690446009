---------------------------- MODULE ContentStore ----------------------------
(***************************************************************************)
(* Camera frames kept by reference: BoundedContentStore of                 *)
(* src/store_evict.rs, the glasses consent gate and retention windows of   *)
(* src/glasses.rs, and the Halo and VITURE camera pulls that feed it.      *)
(*                                                                         *)
(* Every call takes &mut of the store, so calls are atomic.  What is not   *)
(* atomic is consent: receipts are granted, narrowed and withdrawn between *)
(* the calls, a caller may present a receipt it got earlier, a sweep is    *)
(* given whatever slice of receipts its caller holds by then, and frames   *)
(* and sweeps carry ticks the caller chose.                                *)
(***************************************************************************)
EXTENDS EvictionOrder

CONSTANTS
  Session,     \* edge sessions
  Key,         \* frame references
  Receipts,    \* consent receipts ever granted: [session, seq, grants, retain]
  MaxBytes,    \* the store's bound
  WordMax,     \* the largest u64, and the largest usize
  Sizes,       \* frame sizes pulled
  Ticks,       \* bound: ticks that frames and sweeps carry
  Rates,       \* values of adapt_hz passed to a sweep
  MaxVisible   \* bound: receipts in the slice passed to a sweep

\* A bound below the largest usize: a sum that saturates exceeds it as well.
ASSUME StoreAssumption ==
  /\ MaxBytes \in Nat \ {0}
  /\ WordMax \in Nat
  /\ MaxBytes < WordMax
  /\ MaxVisible \in Nat
  /\ Sizes \subseteq Nat
  /\ Ticks \subseteq Nat
  /\ Rates \subseteq Nat
  /\ Receipts \subseteq [session : Session, seq : Nat,
                         grants : SUBSET {"camera", "pose", "watch"}, retain : Nat]

VARIABLES
  store,      \* [used, entries, order] of BoundedContentStore
  authority,  \* the runtime holds the glasses camera capability
  mirror,     \* history: the keys an observer of returned evictions believes in
  puller      \* history: the session whose call stored a held frame

vars == <<store, authority, mirror, puller>>

\* BoundedContentStore::new
Init ==
  /\ store = [used |-> 0, entries |-> <<>>, order |-> <<>>]
  /\ authority \in BOOLEAN
  /\ mirror = {}
  /\ puller = <<>>

Monus(a, b) == IF a >= b THEN a - b ELSE 0
Held == DOMAIN store.entries
SizeOf(entries) == [k \in DOMAIN entries |-> entries[k].size]

-----------------------------------------------------------------------------
(* BoundedContentStore                                                     *)

\* Fault: a removed frame's key stays in the eviction order.
RemoveExistingKeepsOrder(s, key) ==
  IF key \notin DOMAIN s.entries THEN s
  ELSE [used |-> Monus(s.used, s.entries[key].size),
        entries |-> [k \in DOMAIN s.entries \ {key} |-> s.entries[k]],
        order |-> s.order]

RemoveExisting(s, key) ==
  IF key \notin DOMAIN s.entries THEN s
  ELSE [used |-> Monus(s.used, s.entries[key].size),
        entries |-> [k \in DOMAIN s.entries \ {key} |-> s.entries[k]],
        order |-> Without(s.order, {key})]

\* One turn of the loops in insert and evict_oldest: a key leaves the order,
\* and the store if it still names a frame; m.evicted is what insert returns.
EvictOldest(m) ==
  LET key == Head(m.s.order)
      popped == [m.s EXCEPT !.order = Tail(@)]
  IN  [s |-> RemoveExisting(popped, key),
       evicted |-> m.evicted \cup (DOMAIN m.s.entries \cap {key})]

\* Fault: one frame more than needed makes way.
MakeRoomEager(m, size) ==
  FoldLeft(LAMBDA n, k : IF n.s.used + size >= MaxBytes THEN EvictOldest(n) ELSE n,
           m, m.s.order)

\* The while loop of insert: every turn takes one key off the order.
MakeRoom(m, size) ==
  FoldLeft(LAMBDA n, k : IF n.s.used + size > MaxBytes THEN EvictOldest(n) ELSE n,
           m, m.s.order)

\* Fault: only a replaced frame is reported, the evicted ones are not.
InsertUnreported(key, frame) ==
  LET m == MakeRoom([s |-> RemoveExisting(store, key), evicted |-> {}], frame.size)
  IN  [s |-> [used |-> m.s.used + frame.size,
              entries |-> [k \in DOMAIN m.s.entries \cup {key} |->
                             IF k = key THEN frame ELSE m.s.entries[k]],
              order |-> Append(m.s.order, key)],
       evicted |-> Held \cap {key}]

\* insert: replace, make room, append; with the keys reported as gone.
Insert(key, frame) ==
  LET m == MakeRoom([s |-> RemoveExisting(store, key),
                     evicted |-> Held \cap {key}], frame.size)
  IN  [s |-> [used |-> m.s.used + frame.size,
              entries |-> [k \in DOMAIN m.s.entries \cup {key} |->
                             IF k = key THEN frame ELSE m.s.entries[k]],
              order |-> Append(m.s.order, key)],
       evicted |-> m.evicted]

-----------------------------------------------------------------------------
(* Retention                                                               *)

\* u64::saturating_mul
SaturatingProduct(a, b) == IF a * b > WordMax THEN WordMax ELSE a * b

\* Fault: milliseconds per tick are rounded before they are multiplied.
ElapsedMsEarlyDivision(now, then, hz) ==
  SaturatingProduct(Monus(now, then), 1000 \div (IF hz = 0 THEN 1 ELSE hz))

\* elapsed_ms: whole milliseconds, from a product that stops at the largest
\* word; a rate of zero counts as one.
ElapsedMs(now, then, hz) ==
  SaturatingProduct(Monus(now, then), 1000) \div (IF hz = 0 THEN 1 ELSE hz)

GlassesGrants == {"camera", "pose"}

\* glasses_retention_windows: the positions of the receipts it keeps, for which
\* any glasses grant will do.
Windows(receipts) ==
  {i \in DOMAIN receipts : receipts[i].grants \cap GlassesGrants # {}}

\* The filter of sweep_retention: find gives the first window of the frame's
\* session and sequence; without one, or when it has elapsed, the frame goes.
Expired(frame, receipts, now, hz) ==
  LET ours == {i \in Windows(receipts) : /\ receipts[i].session = frame.session
                                         /\ receipts[i].seq = frame.seq}
  IN  ours # {} => ElapsedMs(now, frame.tick, hz) > receipts[Min(ours)].retain

\* sweep_retention: every expired frame is removed, and reported as gone.
SweepRetention(receipts, now, hz) ==
  LET expired == {k \in Held : Expired(store.entries[k], receipts, now, hz)}
  IN  [s |-> FoldLeft(RemoveExisting, store, SetToSeq(expired)), evicted |-> expired]

-----------------------------------------------------------------------------
(* Operations                                                              *)

\* Fault: another session's receipt is good enough.
ConsentedAnySession(session, receipt) == authority /\ "camera" \in receipt.grants

\* require_glasses_consent for a camera frame; the check itself is external.
Consented(session, receipt) ==
  /\ authority
  /\ "camera" \in receipt.grants
  /\ receipt.session = session

\* pull_halo_camera_once and store_viture_camera_frame: consent, then the
\* oversize check, then the insert; any refusal leaves the store as it is.
PullFrame(session, receipt, key, size, tick) ==
  /\ IF Consented(session, receipt) /\ size \in 1 .. MaxBytes
     THEN LET frame == [session |-> receipt.session, seq |-> receipt.seq,
                        tick |-> tick, size |-> size]
              next == Insert(key, frame)
          IN  /\ store' = next.s
              /\ mirror' = (mirror \ next.evicted) \cup {key}
              /\ puller' = [k \in DOMAIN next.s.entries |->
                              IF k = key THEN session ELSE puller[k]]
     ELSE UNCHANGED <<store, mirror, puller>>
  /\ UNCHANGED authority

\* sweep_glasses_retention, with the slice of receipts of its caller: some may
\* have been withdrawn or narrowed since the pull, some may share a sequence.
Sweep(receipts, now, hz) ==
  LET next == SweepRetention(receipts, now, hz)
  IN  /\ store' = next.s
      /\ mirror' = mirror \ next.evicted
      /\ puller' = [k \in DOMAIN next.s.entries |-> puller[k]]
      /\ UNCHANGED authority

\* The runtime is given the capability.
GrantAuthority ==
  /\ authority' = TRUE
  /\ UNCHANGED <<store, mirror, puller>>

Next ==
  \/ \E session \in Session, receipt \in Receipts, size \in Sizes :
        \E key \in Key, tick \in Ticks :
          PullFrame(session, receipt, key, size, tick)
  \/ \E receipts \in BoundedSeq(Receipts, MaxVisible), now \in Ticks, hz \in Rates :
        Sweep(receipts, now, hz)
  \/ GrantAuthority

Spec == Init /\ [][Next]_vars

-----------------------------------------------------------------------------
(* Properties                                                              *)

\* The three books of the store agree after any history of inserts,
\* replacements, evictions and sweeps: the eviction order lists every held
\* key exactly once, and the counter is the sum of the frames it lists and
\* stays within the bound.
BooksBalance ==
  /\ store.used <= MaxBytes
  /\ store.used = Bytes(store.order, SizeOf(store.entries))
  /\ ToSet(store.order) = Held
  /\ Len(store.order) = Cardinality(Held)

\* Whoever replays the keys returned by insert and sweep_retention knows
\* exactly what the store holds: no frame leaves unreported.
MirrorExact == mirror = Held

\* No session's frames are held under another session's receipt, nor without
\* a receipt that granted the camera while the runtime had the authority.
HeldUnderConsent ==
  \A k \in Held :
    /\ authority
    /\ puller[k] = store.entries[k].session
    /\ \E r \in Receipts : /\ r.session = puller[k]
                            /\ r.seq = store.entries[k].seq
                            /\ "camera" \in r.grants

\* A frame may stay while, of the first glasses receipt with its session and
\* sequence, fewer than retain + 1 milliseconds have passed, or that many are
\* more than the clock's word can count.
Governs(receipt, frame) ==
  /\ receipt.session = frame.session /\ receipt.seq = frame.seq
  /\ receipt.grants \cap {"camera", "pose"} # {}

MayStay(receipts, frame, now, hz) ==
  \E i \in DOMAIN receipts :
    /\ Governs(receipts[i], frame)
    /\ \A j \in DOMAIN receipts : Governs(receipts[j], frame) => i <= j
    /\ LET passed == (receipts[i].retain + 1) * (IF hz = 0 THEN 1 ELSE hz)
       IN  (now - frame.tick) * 1000 < passed \/ WordMax < passed

\* Whenever a sweep comes, with whatever receipts, it forgets exactly the frames
\* whose receipt was withdrawn, replaced by one without glasses grants, or whose
\* window has elapsed, and reports those; the frames that may stay keep their
\* place in the eviction order.
SweepExact ==
  \A receipts \in BoundedSeq(Receipts, MaxVisible), now \in Ticks, hz \in Rates :
    LET next == SweepRetention(receipts, now, hz)
        gone == {k \in Held : ~MayStay(receipts, store.entries[k], now, hz)}
    IN  next.s.order = Without(store.order, gone) /\ next.evicted = gone

\* Frames leave oldest first, only as far as the new one needs the room, and
\* never for a frame that is refused.
AgeStore == INSTANCE AgeBoundedStore WITH
  order <- store.order, size <- SizeOf(store.entries)

ImplementsAgeStore == AgeStore!AgeSpec

=============================================================================
