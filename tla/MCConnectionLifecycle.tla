------------------------ MODULE MCConnectionLifecycle ------------------------
(* Connection lifecycle for TLC.                                           *)
EXTENDS ConnectionLifecycle, TLC
===============================================================================
