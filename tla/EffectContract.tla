--------------------------- MODULE EffectContract ---------------------------
(***************************************************************************)
(* The authority contract every effect session applies before it acts:     *)
(* EffectDescriptor of src/device.rs.  A request is checked against its    *)
(* descriptor alone; nothing here remembers earlier requests.              *)
(***************************************************************************)
EXTENDS Naturals

CONSTANTS
  Effect,       \* ids of registered effect descriptors
  Key,          \* idempotence keys callers make up
  NoKey,        \* a request without a key
  Descriptor    \* effect -> [expires, max, arm, idempotence]

\* EffectDescriptor::validate, for what the model keeps of a descriptor.
DescriptorType ==
  [expires : Nat \ {0}, max : Nat \ {0}, arm : BOOLEAN,
   idempotence : {"idempotent", "keyed", "at_most_once"}]

ASSUME ContractAssumption ==
  /\ NoKey \notin Key
  /\ Descriptor \in [Effect -> DescriptorType]

\* An arm is good from the moment it was given up to expires, inclusive.
ArmExpired(request, now) ==
  now < request.armedAt \/ now - request.armedAt > Descriptor[request.effect].expires

\* EffectDescriptor::authorize: capability, arm, expiry, key and size.
Authorized(request, now) ==
  /\ request.granted
  /\ Descriptor[request.effect].arm => request.armed
  /\ ~ArmExpired(request, now)
  /\ Descriptor[request.effect].idempotence = "keyed" => request.key # NoKey
  /\ request.fits

=============================================================================
