----------------------------- MODULE MCHostOpen -----------------------------
EXTENDS HostOpen

\* Two providers that list the same id with different directions.
MCBackends == <<"b1", "b2">>
MCStart ==
  [b \in Backend |-> [d \in Device |->
     IF b = "b1" THEN [media |-> "midi", direction |-> "input"]
                 ELSE [media |-> "midi", direction |-> "duplex"]]]

=============================================================================
