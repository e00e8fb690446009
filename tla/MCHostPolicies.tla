--------------------------- MODULE MCHostPolicies ---------------------------
EXTENDS HostPolicies

\* None, a plain one, and one that was tagged, also by an earlier placement.
MCOutputEnvelopes ==
  LET plain == [sequence |-> 0, class |-> "realtime", diagnostics |-> <<>>]
      tagged == [sequence |-> 1, class |-> "realtime", diagnostics |-> <<"late", Experimental>>]
  IN  { <<>>, <<plain>>, <<plain, tagged>>, <<tagged, plain>> }
=============================================================================
