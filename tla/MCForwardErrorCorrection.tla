----------------------- MODULE MCForwardErrorCorrection -----------------------
(* Forward error correction for TLC.                                       *)
EXTENDS ForwardErrorCorrection

Plan(g, twoD, skip, frames, short, maxBuf, cap) ==
  [g |-> g, twoD |-> twoD, skip |-> skip, frames |-> frames, short |-> short,
   maxBuf |-> maxBuf, pendingCap |-> cap]

\* Columns and rows past a sweep; a single place for pending parities; groups
\* of three; both dimensions with little room.
RecoverPlans ==
  {Plan(2, TRUE, 8, 13, {12}, 99, 9),
   Plan(2, FALSE, 4, 10, {6}, 99, 1),
   Plan(3, FALSE, 0, 9, {5}, 99, 9),
   Plan(3, TRUE, 0, 6, {5}, 99, 9),
   Plan(2, TRUE, 0, 5, {1}, 4, 9)}

\* sendDataFrame may fail.
ErrorPlans == {Plan(2, FALSE, 0, 5, {}, 99, 9)}
===============================================================================
