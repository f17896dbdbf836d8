-------------------------------- MODULE MCLink ---------------------------------
(***************************************************************************)
(* One connection and its chunks, racing every fault.                      *)
(***************************************************************************)
EXTENDS Link

AllFaults == {"pass", "delay", "drop", "reset", "refuse"}
=============================================================================
