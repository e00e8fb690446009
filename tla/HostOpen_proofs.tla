--------------------------- MODULE HostOpen_proofs ---------------------------
(***************************************************************************)
(* A stream that was opened has on record what its device performs, for    *)
(* any number of backends, devices, opens and moves.                       *)
(*                                                                         *)
(* The property is about streams already open; the induction needs the     *)
(* same of the open in progress, whose effects are partly recorded and     *)
(* partly pending, and that an attempt's records are its own.              *)
(***************************************************************************)
EXTENDS HostOpen, WellFoundedInduction, TLAPS

\* The kinds the open in progress declared when it was planned; for the
\* catalog, as long as no device has moved since.
Planned(kinds) ==
  /\ attempt.path = "registry" => kinds = EffectKinds(attempt.row.direction)
  /\ attempt.path = "catalog" /\ settled =>
       /\ FirstOffer(attempt.device) \in Offers(attempt.device)
       /\ \A j \in Offers(attempt.device) : FirstOffer(attempt.device) <= j
       /\ kinds = EffectKinds(
                    rows[Backends[FirstOffer(attempt.device)]][attempt.device].direction)

\* Nothing is on record for attempts that have not begun.
RecordsPast == \A f \in ledger : f.attempt <= attempts

\* An attempt that is still in progress has opened nothing.
OpenedPast ==
  \A o \in opened : o.attempt <= attempts /\ (attempt # Idle => o.attempt # attempts)

\* An attempt in progress has a number.
Started == attempt # Idle => attempts # 0

\* What the attempt has recorded and what is pending are what was planned;
\* nothing is pending once it is enforced.
InProgress ==
  attempt # Idle =>
    /\ Planned(Recorded(attempts, attempt.device) \cup attempt.pending)
    /\ attempt.stage # "enforce" => attempt.pending = {}

OpenInv ==
  TypeOK /\ RecordsPast /\ OpenedPast /\ Started /\ InProgress /\ OpenedAsRecorded

-----------------------------------------------------------------------------
(* Lemmas                                                                  *)

\* The plan's table of effects says what the directions perform.
LEMMA KindsPerformed ==
  ASSUME NEW direction \in Direction
  PROVE  EffectKinds(direction) = Performs(direction) /\ EffectKinds(direction) \subseteq {"read", "write"}
BY DEF Direction, EffectKinds, Performs

\* A record of one kind is added to those of its attempt and its device, and
\* to no other attempt's.
LEMMA RecordAdded ==
  ASSUME NEW a, NEW d, NEW kind,
         ledger' = ledger \cup {[attempt |-> a, device |-> d, kind |-> kind]}
  PROVE  /\ Recorded(a, d)' = Recorded(a, d) \cup {kind}
         /\ \A b, e : b # a => Recorded(b, e)' = Recorded(b, e)
<1> DEFINE r == [attempt |-> a, device |-> d, kind |-> kind]
<1>1. r.attempt = a /\ r.device = d /\ r.kind = kind
  OBVIOUS
<1> HIDE DEF r
<1>2. Recorded(a, d)' = Recorded(a, d) \cup {kind}
  BY <1>1 DEF Recorded, r
<1>3. ASSUME NEW b, NEW e, b # a PROVE Recorded(b, e)' = Recorded(b, e)
  BY <1>1, <1>3 DEF Recorded, r
<1> QED BY <1>2, <1>3

\* An attempt that has not begun has nothing on record.
LEMMA NothingRecorded ==
  ASSUME TypeOK, RecordsPast, NEW d
  PROVE  Recorded(attempts + 1, d) = {}
BY OpenAssumption DEF TypeOK, RecordsPast, Recorded

\* A device somebody offers is offered first by somebody.
LEMMA FirstOfferIsFirst ==
  ASSUME NEW d, Offers(d) # {}
  PROVE  /\ FirstOffer(d) \in Offers(d)
         /\ \A j \in Offers(d) : FirstOffer(d) <= j
<1> DEFINE Below == OpToRel(<, Nat)
<1>1. \A i, j \in Nat : <<i, j>> \in Below <=> i < j
  BY DEF OpToRel
<1>2. IsWellFoundedOn(Below, Nat)
  BY NatLessThanWellFounded
<1>3. Offers(d) \subseteq Nat
  BY OpenAssumption DEF Offers
<1> HIDE DEF Below
<1>4. PICK i \in Offers(d) : \A j \in Offers(d) : <<j, i>> \notin Below
  BY <1>2, <1>3, WFMin
<1>5. ASSUME NEW j \in Offers(d) PROVE i <= j
  <2>1. i \in Nat /\ j \in Nat
    BY <1>3
  <2>2. ~(j < i)
    BY <1>1, <1>4, <2>1, Zenon
  <2> QED BY <2>1, <2>2
<1> QED BY <1>4, <1>5 DEF FirstOffer

-----------------------------------------------------------------------------
(* The steps                                                               *)

\* A step that keeps the records, what is open and the attempts' count, and
\* ends the attempt or leaves its plan alone, keeps the invariant.
LEMMA Kept ==
  ASSUME OpenInv, UNCHANGED <<attempts, ledger, opened>>, TypeOK',
         \/ attempt' = Idle
         \/ attempt # Idle /\ InProgress'
  PROVE  OpenInv'
<1>1. \A a, d : Recorded(a, d)' = Recorded(a, d)
  BY DEF Recorded
<1>2. RecordsPast' /\ OpenedPast'
  BY DEF OpenInv, RecordsPast, OpenedPast
<1>3. OpenedAsRecorded'
  BY <1>1 DEF OpenInv, OpenedAsRecorded
<1>4. InProgress'
  BY DEF InProgress
<1>5. Started'
  BY DEF OpenInv, Started
<1> QED BY <1>2, <1>3, <1>4, <1>5 DEF OpenInv

\* A failed open ends.
LEMMA FailKeeps ==
  ASSUME OpenInv, Fail
  PROVE  OpenInv'
<1>1. TypeOK'
  BY DEF OpenInv, TypeOK, Fail, Attempt
<1> QED BY <1>1, Kept DEF Fail

\* A device that moves unsettles the attempt, so that only the registry still
\* answers for it, and its plan is from its request.
LEMMA MoveKeeps ==
  ASSUME OpenInv, NEW b \in Backend, NEW d \in Device, NEW row \in Row \cup {Absent},
         Move(b, d, row)
  PROVE  OpenInv'
<1>1. TypeOK'
  <2>1. moves' \in 0 .. MaxMoves
    BY OpenAssumption DEF OpenInv, TypeOK, Move
  <2>2. rows' \in [Backend -> [Device -> Row \cup {Absent}]]
    <3>1. [rows[b] EXCEPT ![d] = row] \in [Device -> Row \cup {Absent}]
      BY DEF OpenInv, TypeOK
    <3>2. rows' = [rows EXCEPT ![b] = [rows[b] EXCEPT ![d] = row]]
      BY DEF OpenInv, TypeOK, Move
    <3> QED BY <3>1, <3>2 DEF OpenInv, TypeOK
  <2>3. settled' = FALSE
    BY DEF Move
  <2> QED BY <2>1, <2>2, <2>3 DEF OpenInv, TypeOK, Move
<1>2. CASE attempt = Idle
  BY <1>1, <1>2, Kept DEF Move
<1>3. CASE attempt # Idle
  <2>1. Recorded(attempts, attempt.device)' = Recorded(attempts, attempt.device)
    BY DEF Move, Recorded
  <2>2. InProgress'
    BY <1>3, <2>1 DEF OpenInv, InProgress, Planned, Move
  <2> QED BY <1>1, <1>3, <2>2, Kept DEF Move
<1> QED BY <1>2, <1>3

\* Authority comes and goes between opens.
LEMMA AuthorityKeeps ==
  ASSUME OpenInv, ChangeAuthority
  PROVE  OpenInv'
<1>1. TypeOK'
  BY DEF OpenInv, TypeOK, ChangeAuthority
<1> QED BY <1>1, Kept DEF ChangeAuthority

\* An attempt that begins has nothing on record and nothing open.
LEMMA BeginKeeps ==
  ASSUME OpenInv, NEW path, NEW d, Begin(path, d), attempt' \in Attempt,
         attempt' # Idle =>
           Planned(attempt.pending)' /\ attempt'.stage = "enforce"
  PROVE  OpenInv'
<1>1. attempts \in Nat /\ attempts' = attempts + 1
  BY OpenAssumption DEF OpenInv, TypeOK, Begin
<1>2. TypeOK'
  BY <1>1, OpenAssumption DEF OpenInv, TypeOK, Begin
<1>3. \A f \in ledger : f.attempt \in Nat
  BY OpenAssumption DEF OpenInv, TypeOK
<1>4. \A o \in opened : o.attempt \in Nat
  BY OpenAssumption DEF OpenInv, TypeOK
<1>5. RecordsPast'
  BY <1>1, <1>3 DEF OpenInv, RecordsPast, Begin
<1>6. OpenedPast'
  BY <1>1, <1>4 DEF OpenInv, OpenedPast, Begin
<1>7. \A a, e : Recorded(a, e)' = Recorded(a, e)
  BY DEF Begin, Recorded
<1>8. OpenedAsRecorded'
  BY <1>7 DEF OpenInv, OpenedAsRecorded, Begin
<1>9. ASSUME attempt' # Idle PROVE InProgress'
  <2>1. Recorded(attempts, attempt.device)' = {}
    <3>1. Recorded(attempts + 1, attempt'.device) = {}
      BY NothingRecorded DEF OpenInv
    <3> QED BY <1>1, <1>7, <3>1
  <2> QED BY <1>9, <2>1 DEF InProgress
<1>10. InProgress'
  BY <1>9 DEF InProgress
<1>11. Started'
  BY <1>1 DEF Started
<1> QED BY <1>2, <1>5, <1>6, <1>8, <1>10, <1>11 DEF OpenInv

\* The registry plans the row it was asked for.
LEMMA OpenRegistryKeeps ==
  ASSUME OpenInv, NEW b \in Backend, NEW d \in Device, NEW row \in Row, OpenRegistry(b, d, row)
  PROVE  OpenInv'
<1> DEFINE request == [backend |-> b, device |-> d, row |-> row]
           begun == [path |-> "registry", stage |-> "enforce", device |-> d,
                     backend |-> b, row |-> row,
                     pending |-> EffectKinds(rows[b][d].direction)]
<1>1. attempt' = Idle \/ (Plans(request) /\ attempt' = begun)
  BY DEF OpenRegistry
<1>2. CASE attempt' = Idle
  BY <1>2, BeginKeeps DEF OpenRegistry, Attempt
<1>3. CASE Plans(request) /\ attempt' = begun
  <2>1. rows[b][d] = row
    BY <1>3 DEF Plans
  <2>2. EffectKinds(row.direction) \subseteq {"read", "write"}
    BY KindsPerformed DEF Row
  <2>3. begun \in Attempt
    BY <2>1, <2>2 DEF Attempt
  <2>4. attempt'.path = "registry" /\ attempt'.stage = "enforce" /\ attempt'.row = row
        /\ attempt'.pending = EffectKinds(row.direction)
    BY <1>3, <2>1
  <2>5. Planned(attempt.pending)'
    BY <2>4 DEF Planned
  <2> QED BY <1>3, <2>3, <2>4, <2>5, BeginKeeps DEF OpenRegistry
<1> QED BY <1>1, <1>2, <1>3

\* The catalog plans the row of the first provider that lists the device.
LEMMA OpenCatalogKeeps ==
  ASSUME OpenInv, NEW d \in Device, OpenCatalog(d)
  PROVE  OpenInv'
<1> DEFINE row == rows[Backends[FirstOffer(d)]][d]
           begun == [path |-> "catalog", stage |-> "enforce", device |-> d,
                     pending |-> EffectKinds(row.direction)]
<1>1. CASE Offers(d) = {}
  BY <1>1, BeginKeeps DEF OpenCatalog, Attempt
<1>2. CASE Offers(d) # {}
  <2>1. /\ FirstOffer(d) \in Offers(d)
        /\ \A j \in Offers(d) : FirstOffer(d) <= j
    BY <1>2, FirstOfferIsFirst
  <2>2. row \in Row
    BY <2>1 DEF OpenInv, TypeOK, Offers, Backend
  <2>3. EffectKinds(row.direction) \subseteq {"read", "write"}
    BY <2>2, KindsPerformed DEF Row
  <2>4. attempt' = begun
    BY <1>2 DEF OpenCatalog
  <2>5. /\ attempt'.path = "catalog" /\ attempt'.stage = "enforce" /\ attempt'.device = d
        /\ attempt'.pending = EffectKinds(row.direction)
    BY <2>4
  <2>6. begun \in Attempt
    BY <2>3 DEF Attempt
  <2>7. Planned(attempt.pending)'
    <3>1. rows' = rows
      BY DEF OpenCatalog, Begin
    <3>2. Offers(d)' = Offers(d) /\ FirstOffer(d)' = FirstOffer(d)
      BY <3>1 DEF Offers, FirstOffer
    <3> QED BY <2>1, <2>5, <3>1, <3>2 DEF Planned
  <2> QED BY <2>4, <2>5, <2>6, <2>7, BeginKeeps DEF OpenCatalog
<1> QED BY <1>1, <1>2

\* A kind that was pending is on record; streams already open are not
\* touched, because this attempt has opened none.
LEMMA EnforceRecordsKeeps ==
  ASSUME OpenInv, NEW kind \in {"read", "write"}, EnforceRecords(kind)
  PROVE  OpenInv'
<1> DEFINE r == [attempt |-> attempts, device |-> attempt.device, kind |-> kind]
<1>1. attempt # Idle /\ attempt.stage = "enforce" /\ kind \in attempt.pending
  BY DEF EnforceRecords, Idle
<1>2. /\ attempt'.path = attempt.path /\ attempt'.stage = "enforce"
      /\ attempt'.device = attempt.device /\ attempt'.pending = attempt.pending \ {kind}
      /\ attempt.path = "registry" => attempt'.row = attempt.row
      /\ attempt' \in Attempt /\ attempt.device \in Device
  BY <1>1 DEF OpenInv, TypeOK, EnforceRecords, Attempt
<1>3. attempts \in 1 .. MaxAttempts \/ attempts = 0
  BY OpenAssumption DEF OpenInv, TypeOK
<1>4. attempts # 0
  BY <1>1 DEF OpenInv, Started
<1>5. TypeOK'
  BY <1>2, <1>3, <1>4 DEF OpenInv, TypeOK, EnforceRecords
<1>6. RecordsPast' /\ OpenedPast'
  BY <1>1, <1>2, OpenAssumption
     DEF OpenInv, RecordsPast, OpenedPast, EnforceRecords, TypeOK
<1>7. /\ Recorded(attempts, attempt.device)' = Recorded(attempts, attempt.device) \cup {kind}
      /\ \A b, e : b # attempts => Recorded(b, e)' = Recorded(b, e)
  <2>1. PICK a, d : a = attempts /\ d = attempt.device
    OBVIOUS
  <2>2. ledger' = ledger \cup {[attempt |-> a, device |-> d, kind |-> kind]}
    BY <2>1 DEF EnforceRecords
  <2>3. /\ Recorded(a, d)' = Recorded(a, d) \cup {kind}
        /\ \A b, e : b # a => Recorded(b, e)' = Recorded(b, e)
    BY <2>2, RecordAdded
  <2>4. attempts' = a /\ attempt'.device = d
    BY <1>2, <2>1 DEF EnforceRecords
  <2>5. Recorded(attempts, attempt.device)' = Recorded(a, d)'
    BY <2>4 DEF Recorded
  <2> QED BY <2>1, <2>3, <2>5
<1>8. OpenedAsRecorded'
  BY <1>1, <1>7 DEF OpenInv, OpenedAsRecorded, OpenedPast, EnforceRecords
<1>9. InProgress'
  <2>1. (Recorded(attempts, attempt.device) \cup attempt.pending)'
          = Recorded(attempts, attempt.device) \cup attempt.pending
    BY <1>1, <1>2, <1>7
  <2>2. rows' = rows /\ settled' = settled /\ Backends' = Backends
    BY DEF EnforceRecords
  <2>3. Offers(attempt.device)' = Offers(attempt.device)
        /\ FirstOffer(attempt.device)' = FirstOffer(attempt.device)
    BY <1>2, <2>2 DEF Offers, FirstOffer
  <2> QED BY <1>1, <1>2, <2>1, <2>2, <2>3 DEF OpenInv, InProgress, Planned
<1>10. Started'
  BY <1>4 DEF Started, EnforceRecords
<1> QED BY <1>5, <1>6, <1>8, <1>9, <1>10 DEF OpenInv

\* The next stage comes only when nothing is pending.
LEMMA StageKeeps ==
  ASSUME OpenInv, NEW stage, attempt # Idle, attempt.pending = {},
         attempt' = [attempt EXCEPT !.stage = stage], attempt' \in Attempt,
         UNCHANGED <<rows, moves, capability, attempts, ledger, opened, settled>>
  PROVE  OpenInv'
<1>1. TypeOK'
  BY DEF OpenInv, TypeOK
<1>2. /\ attempt'.path = attempt.path /\ attempt'.device = attempt.device
      /\ attempt'.pending = attempt.pending
      /\ attempt.path = "registry" => attempt'.row = attempt.row
  BY DEF OpenInv, TypeOK, Attempt
<1>3. Offers(attempt.device)' = Offers(attempt.device)
      /\ FirstOffer(attempt.device)' = FirstOffer(attempt.device)
      /\ Recorded(attempts, attempt.device)' = Recorded(attempts, attempt.device)
  BY <1>2 DEF Offers, FirstOffer, Recorded
<1>4. InProgress'
  BY <1>2, <1>3 DEF OpenInv, InProgress, Planned
<1> QED BY <1>1, <1>4, Kept

\* Every planned effect is recorded.
LEMMA EnforceDoneKeeps ==
  ASSUME OpenInv, EnforceDone
  PROVE  OpenInv'
<1>1. attempt # Idle /\ attempt.pending = {}
  BY DEF EnforceDone, Idle
<1>2. attempt' = [attempt EXCEPT !.stage = "enforced"]
  BY DEF EnforceDone
<1>3. attempt' \in Attempt
  BY <1>1, <1>2 DEF OpenInv, TypeOK, Attempt
<1> QED BY <1>1, <1>2, <1>3, StageKeeps DEF EnforceDone

\* The second plan, made from the devices as they are then.
LEMMA ReplanKeeps ==
  ASSUME OpenInv, Replan
  PROVE  OpenInv'
<1>1. CASE Plans(attempt)
  <2>1. attempt # Idle /\ attempt.stage = "enforced" /\ attempt.path = "registry"
    BY DEF Replan, Idle
  <2>2. attempt' = [attempt EXCEPT !.stage = "backend"]
    BY <1>1 DEF Replan
  <2>3. attempt' \in Attempt
    BY <2>1, <2>2 DEF OpenInv, TypeOK, Attempt
  <2>4. attempt.pending = {}
    BY <2>1 DEF OpenInv, InProgress
  <2> QED BY <1>1, <2>1, <2>2, <2>3, <2>4, StageKeeps DEF Replan
<1>2. CASE ~Plans(attempt)
  BY <1>2, FailKeeps DEF Replan
<1> QED BY <1>1, <1>2

\* What an enforced attempt opens has on record what its row performs.
LEMMA OpensKeeps ==
  ASSUME OpenInv, NEW o, opened' = opened \cup {o}, attempt # Idle, attempt' = Idle,
         UNCHANGED <<rows, moves, capability, attempts, ledger, settled>>,
         o \in [attempt : {attempts}, path : {"registry", "catalog"}, device : Device,
                row : Row, settled : BOOLEAN],
         o.path = "registry" \/ o.settled =>
           Recorded(attempts, o.device) = Performs(o.row.direction)
  PROVE  OpenInv'
<1>1. attempts \in 1 .. MaxAttempts
  BY OpenAssumption DEF OpenInv, TypeOK, Started
<1>2. o \in [attempt : 1 .. MaxAttempts, path : {"registry", "catalog"}, device : Device,
             row : Row, settled : BOOLEAN] /\ o.attempt = attempts
  BY <1>1
<1>3. TypeOK'
  BY <1>2 DEF OpenInv, TypeOK, Attempt
<1>4. RecordsPast' /\ OpenedPast' /\ Started' /\ InProgress'
  BY <1>1, <1>2 DEF OpenInv, RecordsPast, OpenedPast, Started, InProgress
<1>5. \A a, d : Recorded(a, d)' = Recorded(a, d)
  BY DEF Recorded
<1>6. OpenedAsRecorded'
  BY <1>2, <1>5 DEF OpenInv, OpenedAsRecorded
<1> QED BY <1>3, <1>4, <1>6 DEF OpenInv

\* The registry's backend opens a row that is still the row that was planned.
LEMMA BackendOpensKeeps ==
  ASSUME OpenInv, BackendOpens
  PROVE  OpenInv'
<1> DEFINE o == [attempt |-> attempts, path |-> "registry", device |-> attempt.device,
                 row |-> attempt.row, settled |-> settled]
<1>1. attempt # Idle /\ attempt.path = "registry" /\ attempt.stage = "backend"
  BY DEF BackendOpens, Idle
<1>2. attempt.device \in Device /\ attempt.row \in Row /\ settled \in BOOLEAN
  BY <1>1 DEF OpenInv, TypeOK, Attempt
<1>3. attempt.pending = {}
  BY <1>1 DEF OpenInv, InProgress
<1>4. Recorded(attempts, attempt.device) = EffectKinds(attempt.row.direction)
  BY <1>1, <1>3 DEF OpenInv, InProgress, Planned
<1>5. EffectKinds(attempt.row.direction) = Performs(attempt.row.direction)
  BY <1>2, KindsPerformed DEF Row
<1>6. o \in [attempt : {attempts}, path : {"registry", "catalog"}, device : Device,
             row : Row, settled : BOOLEAN]
  BY <1>2
<1>7. /\ opened' = opened \cup {o} /\ attempt' = Idle
      /\ UNCHANGED <<rows, moves, capability, attempts, ledger, settled>>
  BY DEF BackendOpens
<1>8. Recorded(attempts, o.device) = Performs(o.row.direction)
  BY <1>4, <1>5
<1> HIDE DEF o
<1> QED BY <1>1, <1>6, <1>7, <1>8, OpensKeeps

\* The catalog's provider opens what it lists now: what was planned, if no
\* device has moved.
LEMMA ProviderOpensKeeps ==
  ASSUME OpenInv, NEW i \in DOMAIN Backends, ProviderOpens(i)
  PROVE  OpenInv'
<1> DEFINE row == rows[Backends[i]][attempt.device]
           o == [attempt |-> attempts, path |-> "catalog", device |-> attempt.device,
                 row |-> row, settled |-> settled]
<1>1. attempt # Idle /\ attempt.path = "catalog" /\ attempt.stage = "enforced"
  BY DEF ProviderOpens, Idle
<1>2. attempt.device \in Device /\ settled \in BOOLEAN
  BY <1>1 DEF OpenInv, TypeOK, Attempt
<1>3. i \in Offers(attempt.device) /\ \A j \in Offers(attempt.device) : i <= j
  BY DEF ProviderOpens
<1>4. row \in Row
  BY <1>2, <1>3 DEF OpenInv, TypeOK, Offers, Backend
<1>5. attempt.pending = {}
  BY <1>1 DEF OpenInv, InProgress
<1>6. ASSUME settled
      PROVE  Recorded(attempts, attempt.device) = EffectKinds(row.direction)
  <2>1. /\ FirstOffer(attempt.device) \in Offers(attempt.device)
        /\ \A j \in Offers(attempt.device) : FirstOffer(attempt.device) <= j
        /\ Recorded(attempts, attempt.device) \cup attempt.pending = EffectKinds(
                    rows[Backends[FirstOffer(attempt.device)]][attempt.device].direction)
    BY <1>1, <1>6 DEF OpenInv, InProgress, Planned
  <2>2. Offers(attempt.device) \subseteq Nat
    BY OpenAssumption DEF Offers
  <2>3. FirstOffer(attempt.device) = i
    BY <1>3, <2>1, <2>2
  <2> QED BY <1>5, <2>1, <2>3
<1>7. EffectKinds(row.direction) = Performs(row.direction)
  BY <1>4, KindsPerformed DEF Row
<1>8. o \in [attempt : {attempts}, path : {"registry", "catalog"}, device : Device,
             row : Row, settled : BOOLEAN]
  BY <1>2, <1>4
<1>9. /\ opened' = opened \cup {o} /\ attempt' = Idle
      /\ UNCHANGED <<rows, moves, capability, attempts, ledger, settled>>
  BY DEF ProviderOpens
<1>10. o.path = "registry" \/ o.settled =>
         Recorded(attempts, o.device) = Performs(o.row.direction)
  BY <1>6, <1>7
<1> HIDE DEF o
<1> QED BY <1>1, <1>8, <1>9, <1>10, OpensKeeps

-----------------------------------------------------------------------------
(* The theorem                                                             *)

\* Whatever is opened, through the registry or a catalog nobody disturbs, has
\* exactly the effects on record that its device performs.
THEOREM OpenInvariant == Spec => []OpenedAsRecorded
<1>1. Init => OpenInv
  <2> SUFFICES ASSUME Init PROVE OpenInv
    OBVIOUS
  <2>1. TypeOK
    BY OpenAssumption DEF Init, TypeOK, Attempt
  <2>2. RecordsPast /\ OpenedPast /\ Started /\ InProgress /\ OpenedAsRecorded
    BY DEF Init, RecordsPast, OpenedPast, Started, InProgress, OpenedAsRecorded
  <2> QED BY <2>1, <2>2 DEF OpenInv
<1>2. OpenInv /\ [Next]_vars => OpenInv'
  <2> SUFFICES ASSUME OpenInv, [Next]_vars PROVE OpenInv'
    OBVIOUS
  <2>1. CASE \E b \in Backend, d \in Device, row \in Row \cup {Absent} : Move(b, d, row)
    BY <2>1, MoveKeeps
  <2>2. CASE ChangeAuthority
    BY <2>2, AuthorityKeeps
  <2>3. CASE \E kind \in {"read", "write"} : EnforceRecords(kind)
    BY <2>3, EnforceRecordsKeeps
  <2>4. CASE EnforceDone
    BY <2>4, EnforceDoneKeeps
  <2>5. CASE EnforceFails \/ BackendRefuses \/ ProviderRefuses
    BY <2>5, FailKeeps DEF EnforceFails, BackendRefuses, ProviderRefuses
  <2>6. CASE \E b \in Backend, d \in Device, row \in Row : OpenRegistry(b, d, row)
    BY <2>6, OpenRegistryKeeps
  <2>7. CASE Replan
    BY <2>7, ReplanKeeps
  <2>8. CASE BackendOpens
    BY <2>8, BackendOpensKeeps
  <2>9. CASE \E d \in Device : OpenCatalog(d)
    BY <2>9, OpenCatalogKeeps
  <2>10. CASE \E i \in DOMAIN Backends : ProviderOpens(i)
    BY <2>10, ProviderOpensKeeps
  <2>11. CASE UNCHANGED vars
    <3>1. TypeOK' /\ RecordsPast' /\ OpenedPast' /\ Started' /\ OpenedAsRecorded'
      BY <2>11 DEF vars, OpenInv, TypeOK, RecordsPast, OpenedPast, Started, OpenedAsRecorded,
                   Recorded
    <3>2. InProgress'
      BY <2>11 DEF vars, OpenInv, InProgress, Planned, Recorded, Offers, FirstOffer
    <3> QED BY <3>1, <3>2 DEF OpenInv
  <2> QED BY <2>1, <2>2, <2>3, <2>4, <2>5, <2>6, <2>7, <2>8, <2>9, <2>10, <2>11 DEF Next
<1>3. OpenInv => OpenedAsRecorded
  BY DEF OpenInv
<1> QED BY <1>1, <1>2, <1>3, PTL DEF Spec

=============================================================================
