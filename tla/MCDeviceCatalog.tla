--------------------------- MODULE MCDeviceCatalog ---------------------------
EXTENDS DeviceCatalog

\* Two providers that both want k1; the registry exports it too.
MCDeclared == [p \in Provider |-> IF p = "p1" THEN {"k1", "k2"} ELSE {"k1"}]

MCEntries == { <<"k1">>, <<"k2", "k1">>, <<"k1", "k2">> }

MCIdOrder == <<"k1", "k2", "midi-in-0", "midi-native", "midi-out-0", "stereo-0">>

\* Two transports of one name, and one of another.
MCNameOf ==
  [t \in {"local", "p1", "p2", "k1", "k2", "alsa"} |->
     CASE t \in {"p1", "k1"} -> "jack" [] t = "alsa" -> "alsa-seq" [] OTHER -> t]

\* Site values that are hardware that only plays, and modeled ones that only
\* record, in turn.
MCCardOf ==
  [b \in 0 .. MaxBuilds - 1 |->
     [channels_in |-> b % 2, channels_out |-> (b + 1) % 2, hardware |-> b % 2 = 0]]

\* A registry of two libs that both export k1, one of them invalid.
MCRegistries ==
  { {[symbol |-> "k1", site |-> TRUE, valid |-> TRUE],
     [symbol |-> "k1", site |-> TRUE, valid |-> FALSE],
     [symbol |-> "k2", site |-> FALSE, valid |-> TRUE]} }

\* A native port under the id of a modeled one, and one of its own.
MCNativeMidi ==
  << [id |-> "midi-in-0", kind |-> "midi", direction |-> "duplex", transport |-> "alsa"],
     [id |-> "midi-native", kind |-> "midi", direction |-> "input", transport |-> "alsa"] >>

=============================================================================
