---------------------------- MODULE MCWindowShards ----------------------------
\* Two windows: the reservation proves too small at the second, or at the first before
\* a window that fails.
EXTENDS WindowShards

MCScenarios ==
  {[needs |-> <<1, 2>>, faulty |-> {}, first |-> 1],
   [needs |-> <<2, 1>>, faulty |-> {2}, first |-> 1]}
==============================================================================
