---------------------------- MODULE MCSendPipeline ----------------------------
(* The send pipeline for TLC.                                              *)
EXTENDS SendPipeline, TLC

CONSTANTS d1, d2, r1

Mode(uring, pack, paced, size, frames, uses) ==
  [uring |-> uring, gsoMaxFrames |-> pack, paced |-> paced, batchSize |-> size,
   frames |-> frames, uses |-> uses]

BatchModes ==
  {Mode(FALSE, 2, TRUE, 2, {d1, d2}, {"resend", "control"}),
   Mode(TRUE, 1, FALSE, 1, {d1, d2}, {"resend"}),
   Mode(FALSE, 1, TRUE, 2, {d1, d2}, {"control", "close"}),
   Mode(TRUE, 2, TRUE, 2, {d1, d2}, {"control", "close"}),
   Mode(TRUE, 2, FALSE, 2, {d1, r1}, {"purge", "control"})}

BufferSymmetry == Permutations(Bufs)
===============================================================================
