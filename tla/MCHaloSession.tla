--------------------------- MODULE MCHaloSession ---------------------------
EXTENDS HaloSession

Look(g, p) == [glyph |-> g, priority |-> p]

\* An empty frame, a calm one, an urgent one that differs in every cell and
\* drops the last, a warrant whose first cell never fits, and the calm one
\* with other priorities only.
MCFrames ==
  { <<>>,
    <<Look("a", 3), Look("a", 3), Look("a", 2)>>,
    <<Look("b", 3), Look("b", 2)>>,
    <<Look("wide", 1), Look("a", 1), Look("b", 1)>>,
    <<Look("a", 1), Look("a", 1), Look("a", 1)>> }

\* With a budget of 6: two of these fit, or one and a clearing, or one alone.
MCSize ==
  [c \in Cell |-> [g \in Glyph \cup {Blank} |->
     CASE g = Blank -> 2 [] g = "a" -> 3 [] g = "b" -> 5 + (c % 2) [] g = "wide" -> 7]]

Sample(kind, seq) == [kind |-> kind, seq |-> seq]
MCScripts ==
  { <<Sample("motion", 1), Sample("tap", 5), Sample("motion", 2)>>,
    <<Sample("motion", 2), Sample("tap", 5), Sample("motion", 1)>>,
    <<Sample("tap", 3), Sample("camera", 1), Sample("tap", 3)>>,
    <<Sample("camera", 1), Sample("camera", 2)>> }

=============================================================================
