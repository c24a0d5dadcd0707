------------------------------- MODULE BytePipe -------------------------------
(***************************************************************************)
(* What one direction of a stream promises its two applications: the       *)
(* reader gets the writer's chunks in order and once, sees a clean end only*)
(* after all of them, and sees a reset only if one side asked for it.      *)
(***************************************************************************)
EXTENDS Integers, Sequences

VARIABLES
  sent,      \* chunks accepted from the writer
  wstate,    \* "open", "fin" or "reset"
  got,       \* chunks handed to the reader's buffer
  taken,     \* bytes the reader has taken
  rstate,    \* "nil", "EOF" or "reset"
  canceled   \* the reader gave up

vars == <<sent, wstate, got, taken, rstate, canceled>>

\* Bytes in a sequence of contiguous chunks.
Bytes(s) == IF s = <<>> THEN 0 ELSE s[Len(s)].from + s[Len(s)].len

Init ==
  /\ sent = <<>>
  /\ wstate = "open"
  /\ got = <<>>
  /\ taken = 0
  /\ rstate = "nil"
  /\ canceled = FALSE

Send ==
  /\ wstate = "open"
  /\ Len(sent') = Len(sent) + 1
  /\ \A i \in 1..Len(sent) : sent'[i] = sent[i]
  /\ sent'[Len(sent')].from = Bytes(sent)
  /\ UNCHANGED <<wstate, got, taken, rstate, canceled>>

Finish ==
  /\ wstate = "open"
  /\ wstate' = "fin"
  /\ UNCHANGED <<sent, got, taken, rstate, canceled>>

Abort ==
  /\ wstate = "open"
  /\ wstate' = "reset"
  /\ UNCHANGED <<sent, got, taken, rstate, canceled>>

\* More chunks reach the buffer and bytes leave it; the end is reported
\* when the writer has finished and nothing is missing.
Advance ==
  /\ rstate = "nil" \/ (got' = got /\ rstate' = rstate)
  /\ Len(got) <= Len(got')
  /\ Len(got') <= Len(sent)
  /\ \A i \in 1..Len(got') : got'[i] = sent[i]
  /\ taken <= taken'
  /\ taken' <= Bytes(got)
  /\ \/ rstate' = rstate
     \/ rstate' = "EOF" /\ wstate = "fin" /\ Len(got') = Len(sent)
  /\ UNCHANGED <<sent, wstate, canceled>>

\* The writer's reset reaches the reader.
Fail ==
  /\ wstate = "reset"
  /\ rstate' = IF rstate = "nil" THEN "reset" ELSE rstate
  /\ UNCHANGED <<sent, wstate, got, taken, canceled>>

Cancel ==
  /\ canceled' = TRUE
  /\ rstate' = IF rstate = "nil" THEN "reset" ELSE rstate
  /\ UNCHANGED <<sent, wstate, got, taken>>

Next == Send \/ Finish \/ Abort \/ Advance \/ Fail \/ Cancel

Spec == Init /\ [][Next]_vars
===============================================================================
