------------------------------ MODULE HostOpen ------------------------------
(***************************************************************************)
(* Opening a device: the backend registry (src/registry.rs) and the device *)
(* catalog (src/catalog.rs), with the open plan of src/model.rs that       *)
(* checks authority and records device effects before anything is opened.  *)
(*                                                                         *)
(* One host thread runs an open at a time, but an open asks the backends   *)
(* for their devices again and again: to plan, to plan once more, and to   *)
(* open.  Between two of those calls a device may be unplugged, or come    *)
(* back with another media or direction.                                   *)
(***************************************************************************)
EXTENDS Naturals, Sequences, FiniteSets

CONSTANTS
  Backends,     \* backends and catalog providers, in registration order
  Device,       \* device ids, shared by all of them
  Media,        \* stream media
  Start,        \* the devices at the start: backend -> device -> row
  Absent,       \* the row of a device that is not there
  MaxAttempts,  \* bound: opens tried
  MaxMoves      \* bound: times a device is plugged, unplugged or changed

Direction == {"input", "output", "duplex"}
Row == [media : Media, direction : Direction]
Backend == {Backends[i] : i \in DOMAIN Backends}

ASSUME OpenAssumption ==
  /\ Backends \in Seq(Backend)
  /\ Start \in [Backend -> [Device -> Row \cup {Absent}]]
  /\ MaxAttempts \in Nat
  /\ MaxMoves \in Nat

VARIABLES
  rows,       \* what a backend would enumerate now
  moves,      \* bound counter
  capability, \* the context holds the stream host capability
  attempt,    \* the open in progress
  attempts,   \* opens begun so far
  ledger,     \* effects recorded in the context: [attempt, device, kind]
  opened,     \* history: what was opened: [attempt, path, device, row, settled]
  settled     \* history: no device has moved since the attempt began

vars == <<rows, moves, capability, attempt, attempts, ledger, opened, settled>>

Idle == [path |-> "none", stage |-> "idle"]

\* The open in progress: where it is, what it opens and what it still records.
Attempt ==
  {Idle}
    \cup [path : {"registry"}, stage : {"enforce", "enforced", "backend"}, device : Device,
          backend : Backend, row : Row, pending : SUBSET {"read", "write"}]
    \cup [path : {"catalog"}, stage : {"enforce", "enforced"}, device : Device,
          pending : SUBSET {"read", "write"}]

Init ==
  /\ rows = Start
  /\ moves = 0
  /\ capability \in BOOLEAN
  /\ attempt = Idle
  /\ attempts = 0
  /\ ledger = {}
  /\ opened = {}
  /\ settled = TRUE

\* A device is plugged in, unplugged or reconfigured (external).
Move(b, d, row) ==
  /\ moves < MaxMoves
  /\ rows[b][d] # row
  /\ moves' = moves + 1
  /\ rows' = [rows EXCEPT ![b][d] = row]
  /\ settled' = FALSE
  /\ UNCHANGED <<capability, attempt, attempts, ledger, opened>>

\* The context an open runs in holds the capability or not.
ChangeAuthority ==
  /\ attempt = Idle
  /\ capability' = ~capability
  /\ UNCHANGED <<rows, moves, attempt, attempts, ledger, opened, settled>>

-----------------------------------------------------------------------------
(* The open plan                                                           *)

\* Fault: a duplex open is planned as if it only read.
EffectKindsReadOnly(direction) == IF direction = "output" THEN {"write"} ELSE {"read"}

\* HostDirection::effect_kinds and the catalog record's counterpart.
EffectKinds(direction) ==
  CASE direction = "input" -> {"read"}
    [] direction = "output" -> {"write"}
    [] direction = "duplex" -> {"read", "write"}

Fail ==
  /\ attempt' = Idle
  /\ UNCHANGED <<rows, moves, capability, attempts, ledger, opened, settled>>

\* HostOpenPlan::enforce records the declared effects one by one; the
\* capability is required first, and resolving an effect may fail half-way.
EnforceRecords(kind) ==
  /\ attempt.stage = "enforce"
  /\ capability
  /\ kind \in attempt.pending
  /\ ledger' = ledger \cup {[attempt |-> attempts, device |-> attempt.device, kind |-> kind]}
  /\ attempt' = [attempt EXCEPT !.pending = @ \ {kind}]
  /\ UNCHANGED <<rows, moves, capability, attempts, opened, settled>>

EnforceDone ==
  /\ attempt.stage = "enforce"
  /\ attempt.pending = {}
  /\ attempt' = [attempt EXCEPT !.stage = "enforced"]
  /\ UNCHANGED <<rows, moves, capability, attempts, ledger, opened, settled>>

EnforceFails ==
  /\ attempt.stage = "enforce"
  /\ attempt.pending # {}
  /\ Fail

-----------------------------------------------------------------------------
(* HostBackendRegistry::open_checked                                        *)

\* Fault: the device only has to be there.
PlansPresent(request) == rows[request.backend][request.device] # Absent

\* plan_open: the device is there, with the media and direction asked for.
Plans(request) == rows[request.backend][request.device] = request.row

Begin(path, device) ==
  /\ attempt = Idle
  /\ attempts < MaxAttempts
  /\ attempts' = attempts + 1
  /\ settled' = TRUE
  /\ UNCHANGED <<rows, moves, capability, ledger, opened>>

\* The first plan.
OpenRegistry(b, d, row) ==
  /\ Begin("registry", d)
  /\ LET request == [backend |-> b, device |-> d, row |-> row]
     IN  attempt' = IF Plans(request)
                    THEN [path |-> "registry", stage |-> "enforce", device |-> d,
                          backend |-> b, row |-> row,
                          pending |-> EffectKinds(rows[b][d].direction)]
                    ELSE Idle

\* open plans again before it hands the request to the backend.
Replan ==
  /\ attempt.path = "registry"
  /\ attempt.stage = "enforced"
  /\ IF Plans(attempt)
     THEN /\ attempt' = [attempt EXCEPT !.stage = "backend"]
          /\ UNCHANGED <<rows, moves, capability, attempts, ledger, opened, settled>>
     ELSE Fail

\* HostBackend::open of the fake and the RTP-MIDI backend: the device must
\* still match the request.
BackendOpens ==
  /\ attempt.path = "registry"
  /\ attempt.stage = "backend"
  /\ rows[attempt.backend][attempt.device] = attempt.row
  /\ opened' = opened \cup {[attempt |-> attempts, path |-> "registry",
                             device |-> attempt.device, row |-> attempt.row,
                             settled |-> settled]}
  /\ attempt' = Idle
  /\ UNCHANGED <<rows, moves, capability, attempts, ledger, settled>>

\* It does not match any more, or the native open fails.
BackendRefuses ==
  /\ attempt.path = "registry"
  /\ attempt.stage = "backend"
  /\ Fail

-----------------------------------------------------------------------------
(* DeviceCatalog::open_checked                                             *)

Offers(d) == {i \in DOMAIN Backends : rows[Backends[i]][d] # Absent}

\* Fault: the provider registered last wins.
FirstOfferLast(d) == CHOOSE i \in Offers(d) : \A j \in Offers(d) : j <= i

\* The provider whose record comes first in the enumeration.
FirstOffer(d) == CHOOSE i \in Offers(d) : \A j \in Offers(d) : i <= j

\* The caller names only the device: the first record with that id is planned.
OpenCatalog(d) ==
  /\ Begin("catalog", d)
  /\ attempt' =
       IF Offers(d) = {} THEN Idle
       ELSE [path |-> "catalog", stage |-> "enforce", device |-> d,
             pending |-> EffectKinds(rows[Backends[FirstOffer(d)]][d].direction)]

\* open asks the providers again, one after the other; the first that lists
\* the device opens it.
ProviderOpens(i) ==
  /\ attempt.path = "catalog"
  /\ attempt.stage = "enforced"
  /\ i \in Offers(attempt.device)
  /\ \A j \in Offers(attempt.device) : i <= j
  /\ opened' = opened \cup {[attempt |-> attempts, path |-> "catalog",
                             device |-> attempt.device,
                             row |-> rows[Backends[i]][attempt.device],
                             settled |-> settled]}
  /\ attempt' = Idle
  /\ UNCHANGED <<rows, moves, capability, attempts, ledger, settled>>

\* No provider lists it any more, or its open fails.
ProviderRefuses ==
  /\ attempt.path = "catalog"
  /\ attempt.stage = "enforced"
  /\ Fail

-----------------------------------------------------------------------------

Next ==
  \/ \E b \in Backend, d \in Device, row \in Row \cup {Absent} : Move(b, d, row)
  \/ ChangeAuthority
  \/ \E kind \in {"read", "write"} : EnforceRecords(kind)
  \/ EnforceDone \/ EnforceFails
  \/ \E b \in Backend, d \in Device, row \in Row : OpenRegistry(b, d, row)
  \/ Replan \/ BackendOpens \/ BackendRefuses
  \/ \E d \in Device : OpenCatalog(d)
  \/ \E i \in DOMAIN Backends : ProviderOpens(i)
  \/ ProviderRefuses

Spec == Init /\ [][Next]_vars

-----------------------------------------------------------------------------
(* Properties                                                              *)

Recorded(a, d) == {e.kind : e \in {f \in ledger : f.attempt = a /\ f.device = d}}

\* Every field has its type.
TypeOK ==
  /\ rows \in [Backend -> [Device -> Row \cup {Absent}]]
  /\ moves \in 0 .. MaxMoves
  /\ capability \in BOOLEAN
  /\ attempt \in Attempt
  /\ attempts \in 0 .. MaxAttempts
  /\ ledger \subseteq [attempt : 1 .. MaxAttempts, device : Device, kind : {"read", "write"}]
  /\ opened \subseteq [attempt : 1 .. MaxAttempts, path : {"registry", "catalog"},
                       device : Device, row : Row, settled : BOOLEAN]
  /\ settled \in BOOLEAN

\* What a device with this direction does to the host.
Performs(direction) ==
  {kind \in {"read", "write"} :
     (kind = "read" /\ direction # "output") \/ (kind = "write" /\ direction # "input")}

\* Every stream opened has exactly the effects on record that its device
\* performs, as the device was when it was opened, although the plan was made
\* from an earlier enumeration: through the registry whatever devices move
\* meanwhile, through the catalog as long as none does, even when several
\* providers list the same id.
OpenedAsRecorded ==
  \A o \in opened :
    o.path = "registry" \/ o.settled =>
      Recorded(o.attempt, o.device) = Performs(o.row.direction)

=============================================================================
