--------------------------- MODULE MCStreamTransfer ---------------------------
(* The instances TLC checks: the configurations give the constants values. *)
EXTENDS StreamTransferTheorems
===============================================================================
