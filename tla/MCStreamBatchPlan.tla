---------------------------- MODULE MCStreamBatchPlan ----------------------------
EXTENDS StreamBatchPlan

Lane(g, r, c) == [group |-> g, row |-> r, chunk |-> c]
Lanes == [group : 1 .. 2, row : 0 .. 1, chunk : 0 .. 2]

\* Lanes that are apart, a gap in a segment, a shard the planner refuses.
Segments ==
    { << Lane(2, 0, 1), Lane(1, 0, 0), Lane(2, 0, 2), Lane(1, 0, 2),
         Lane(1, 0, 3) >>,
      << Lane(1, 0, 0), Lane(2, 0, 1), Lane(3, 1, 2), Lane(3, 1, 3) >> }

\* Any three records, also such that name no lane or one lane twice.
MCForeign == Segments \cup [1 .. 3 -> Lanes \cup {Nothing}]
=============================================================================
