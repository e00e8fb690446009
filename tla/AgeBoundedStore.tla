-------------------------- MODULE AgeBoundedStore --------------------------
(***************************************************************************)
(* What a size-bounded frame store promises: frames leave oldest first and *)
(* only as far as the newest one needs the room, a frame stored again      *)
(* counts as new, and an expiry takes exactly the frames it names.         *)
(***************************************************************************)
EXTENDS EvictionOrder

CONSTANTS
  Key,       \* content references
  MaxBytes   \* the size bound

VARIABLES
  order,     \* the keys of the frames held, oldest first
  size       \* key -> bytes of its frame

heldVars == <<order, size>>

\* How many of the oldest keys may go for the others to leave this room.
Fitting(keys, bytes) ==
  {n \in 0 .. Len(keys) : Bytes(SubSeq(keys, n + 1, Len(keys)), size) + bytes <= MaxBytes}

AgeInit == order = <<>> /\ size = <<>>

\* As many old frames go as must, and not one more.
Admit(key, bytes) ==
  /\ bytes <= MaxBytes
  /\ LET rest == Without(order, {key})
         gone == Min(Fitting(rest, bytes))
     IN  order' = Append(SubSeq(rest, gone + 1, Len(rest)), key)
  /\ size' = [k \in ToSet(order') |-> IF k = key THEN bytes ELSE size[k]]

Expire(keys) ==
  /\ order' = Without(order, keys)
  /\ size' = [k \in ToSet(order') |-> size[k]]

AgeNext ==
  \/ \E key \in Key, bytes \in 0 .. MaxBytes : Admit(key, bytes)
  \/ \E keys \in SUBSET Key : Expire(keys)

AgeSpec == AgeInit /\ [][AgeNext]_heldVars

=============================================================================
