----------------------------- MODULE MCStreamTable -----------------------------
(* The stream table for TLC.                                               *)
EXTENDS StreamTable

\* A stream of each end is written, closed and collected, and late frames may
\* bring it back; both ends cancel its directions; the connection is closed
\* at any point.
TablePlans ==
  {[uses |-> {"Write", "Expire"}, callers |-> Callers,
    scripts |-> {{"fin"}}, lives |-> 2],
   [uses |-> {"Write", "Cancel", "Expire"}, callers |-> {},
    scripts |-> {{"data", "reset", "stop"}, {"fin", "stop"}, {"data", "fin"}},
    lives |-> 2],
   [uses |-> {"Write", "Close"}, callers |-> Callers,
    scripts |-> {{"data", "fin"}}, lives |-> 1]}

\* The peer's streams end while callers wait for their slots.
WaitPlans ==
  {[uses |-> {}, callers |-> Callers, scripts |-> {{"fin"}}, lives |-> 1]}
===============================================================================
