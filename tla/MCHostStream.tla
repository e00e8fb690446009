---------------------------- MODULE MCHostStream ----------------------------
(* Values that a configuration file cannot write, for model checking. *)
EXTENDS HostStream, TLC

\* Two items, so that order and overflow during a replay show; in the second
\* cassette the last one has another media, which ends the replay in an error.
MCTapes == {<<TRUE, TRUE>>, <<TRUE, FALSE>>}

\* Callback threads are interchangeable, and so are handles.
MCSymmetry == Permutations(Callback) \cup Permutations(Handle)
=============================================================================
