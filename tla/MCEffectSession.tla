-------------------------- MODULE MCEffectSession --------------------------
EXTENDS EffectSession, TLC

\* A keyed effect and one that takes a request without key, each at most twice.
MCDescriptor ==
  [e \in Effect |->
     IF e = "send"
     THEN [expires |-> 1, max |-> 2, arm |-> TRUE, idempotence |-> "keyed"]
     ELSE [expires |-> 2, max |-> 2, arm |-> FALSE, idempotence |-> "idempotent"]]

MCSymmetry == Permutations(Caller) \cup Permutations(Key)

=============================================================================
