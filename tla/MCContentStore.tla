--------------------------- MODULE MCContentStore ---------------------------
EXTENDS ContentStore

\* Three receipts of one session with the same sequence: two with windows, so
\* that the first in a slice matters, and one narrowed to a watch, which governs
\* no frame however long its window; and another session's.
MCReceipts ==
  { [session |-> "s1", seq |-> 1, grants |-> {"camera"}, retain |-> 4],
    [session |-> "s1", seq |-> 1, grants |-> {"pose"}, retain |-> 6],
    [session |-> "s1", seq |-> 1, grants |-> {"watch"}, retain |-> 9],
    [session |-> "s2", seq |-> 1, grants |-> {"camera"}, retain |-> 6] }

MCSizes == {1, 2, 4}

\* 400 Hz: a tick is 2.5 ms, so two ticks are 5 ms and not 4.  Three ticks are
\* 7 ms, but 3000 is more than the word of 2600 holds, so 6 are counted.
MCRates == {0, 400}

=============================================================================
