---------------------------- MODULE EvictionOrder ----------------------------
(***************************************************************************)
(* Keys in the order their frames were stored, oldest first: what the      *)
(* store of src/store_evict.rs and its specification both speak of.        *)
(***************************************************************************)
EXTENDS Naturals, Sequences, FiniteSets, SequencesExt

\* retain: the keys that stay keep their places.
Without(order, keys) ==
  FoldLeft(LAMBDA kept, k : IF k \in keys THEN kept ELSE Append(kept, k), <<>>, order)

\* The bytes of the frames with these keys; size gives those of each.
Bytes(order, size) == FoldLeft(LAMBDA sum, k : sum + size[k], 0, order)

=============================================================================
