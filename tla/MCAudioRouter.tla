--------------------------- MODULE MCAudioRouter ---------------------------
EXTENDS AudioRouter

\* Two providers that both want k1, and one that declares nothing.
MCDeclared ==
  [p \in Provider |-> CASE p = "p1" -> {"k1", "k2"}
                        [] p = "p2" -> {"k1", "k3"}
                        [] p = "p3" -> {}]

\* Every entry offers a key at most once.
MCEntries ==
  { <<>>, <<"k1">>, <<"k2", "k1">>, <<"k3", "k1">>, <<"k1", "k3", "k2">>,
    <<"k1", "k2">> }

=============================================================================
