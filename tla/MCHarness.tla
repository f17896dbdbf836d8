------------------------------- MODULE MCHarness -------------------------------
(***************************************************************************)
(* Schedules of every kind for one node, two and three, in units such that *)
(* an eighth of the run is two: a node-level cut of three nodes leaves     *)
(* somebody isolated with somebody else.  Runs of one node and of two,     *)
(* short enough for one phase, two clients and a cap of two operations or  *)
(* one.                                                                    *)
(***************************************************************************)
EXTENDS Harness

Laying(faults, nodes, duration) ==
  [command |-> "schedule", faults |-> faults, nodes |-> nodes, duration |-> duration,
   clients |-> 6, maxOps |-> 0, quiesce |-> 1]

Running(faults, nodes, duration, maxOps, quiesce) ==
  [command |-> "run", faults |-> faults, nodes |-> nodes, duration |-> duration,
   clients |-> 2, maxOps |-> maxOps, quiesce |-> quiesce]

MCConfigs ==
  {Laying("partition", 1, 16), Laying("partition", 3, 16), Laying("refuse", 2, 16)}
    \cup {Laying(f, n, 12) : f \in {"flaky", "chaos"}, n \in {1, 2}}
    \cup {Running("partition", 2, 3, 1, 1), Running("chaos", 1, 3, 2, 1), Running("flaky", 2, 3, 1, 1)}
    \cup {Running("none", 2, 3, 2, 0), Running("partition", 3, 3, 2, 1), Running("typo", 2, 3, 2, 1)}

Two == 0..1
=============================================================================
