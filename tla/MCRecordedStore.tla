--------------------------- MODULE MCRecordedStore ---------------------------
(***************************************************************************)
(* Small runs of the measuring apparatus: a few operations on one          *)
(* register, a clock whose step spans two instants of true time.           *)
(***************************************************************************)
EXTENDS RecordedStore, TLC

CONSTANTS o1, o2, o3

Ask(kind, value, from, to) ==
  [kind |-> kind, key |-> "k", value |-> value, from |-> from, to |-> to]

MCRegisters == {"k"}
MCRequests  == {Ask("read", 0, 0, 0), Ask("write", 1, 0, 0), Ask("cas", 0, 1, 2)}
ReadWrite   == {Ask("read", 0, 0, 0), Ask("write", 1, 0, 0)}
MCOps       == {o1, o2, o3}
MCProcesses == 1..3
Symmetric   == Permutations(Ops)
=============================================================================
