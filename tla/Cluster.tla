-------------------------------- MODULE Cluster --------------------------------
(***************************************************************************)
(* The processes of one experiment: internal/campaign/campaign.go starts   *)
(* them through internal/cluster/cluster.go, configures them, uses them    *)
(* and stops them, whatever fails on the way, and each of them is          *)
(* internal/kv/server.go's Run, which stops when its stdin ends.           *)
(*                                                                         *)
(* A process may crash, and it may wedge: from then on it does nothing,    *)
(* and only a kill ends it.  Every wait of the supervisor that has a time  *)
(* limit may end at any time.                                              *)
(***************************************************************************)
EXTENDS Integers

CONSTANTS N  \* how many processes the target needs

ASSUME ClusterAssumption == N \in Nat \ {0}

VARIABLES
  sup,      \* Once: where it is, and the process it is at
  nodes,    \* c.nodes: how many have been appended
  proc,     \* each process
  wedged,   \* the processes that no longer do anything
  stdin,    \* the processes whose stdin is open
  err,      \* whether Once will report an error
  acked     \* history variable: the processes that have taken a configuration

clusterVars == <<sup, nodes, proc, wedged, stdin, err, acked>>

Procs    == 1..N
Alive(n) == proc[n] \notin {"none", "exited"}
Goto(pc, i) == sup' = [pc |-> pc, at |-> i]

ClusterInit ==
  /\ sup = [pc |-> "launch", at |-> 1] /\ nodes = 0
  /\ proc = [n \in Procs |-> "none"]
  /\ wedged = {} /\ stdin = {} /\ err = FALSE /\ acked = {}

-----------------------------------------------------------------------------
(***************************************************************************)
(* Start: one process after another is launched, announces its address and *)
(* answers a health check; the first that does not is killed, and Close    *)
(* stops those before it.                                                  *)
(***************************************************************************)
(* Where Close begins: with the first of c.nodes.                          *)
Fail        == err' = TRUE /\ Goto("stop", 1)

NotKilled(n) == UNCHANGED proc  \* mutant: the process that failed to start is left to itself
Killed(n)    == proc' = IF Alive(n) THEN [proc EXCEPT ![n] = "killed"] ELSE proc

Launch ==
  /\ sup.pc = "launch" /\ sup.at <= N
  /\ \/ /\ proc' = [proc EXCEPT ![sup.at] = "booting"]
        /\ stdin' = stdin \cup {sup.at}
        /\ Goto("announce", sup.at) /\ UNCHANGED err
     \/ Fail /\ UNCHANGED <<proc, stdin>>
  /\ UNCHANGED <<nodes, wedged, acked>>

Announced ==
  /\ sup.pc = "announce" /\ proc[sup.at] \in {"announced", "serving", "stopping"}
  /\ Goto("health", sup.at)
  /\ UNCHANGED <<nodes, proc, wedged, stdin, err, acked>>

Appended      == nodes' = nodes + 1

AnswersHealth ==
  /\ sup.pc = "health" /\ proc[sup.at] = "serving" /\ sup.at \notin wedged
  /\ Appended
  /\ Goto("launch", sup.at + 1)
  /\ UNCHANGED <<proc, wedged, stdin, err, acked>>

StartFails ==
  /\ sup.pc \in {"announce", "health"}
  /\ Killed(sup.at) /\ Fail
  /\ UNCHANGED <<nodes, wedged, stdin, acked>>

(* The proxies in front of every process are up, or could not be put up.  *)
ClusterUp ==
  /\ sup.pc = "launch" /\ sup.at = N + 1
  /\ (Goto("configure", 1) /\ UNCHANGED err) \/ Fail
  /\ UNCHANGED <<nodes, proc, wedged, stdin, acked>>

Configure ==
  /\ sup.pc = "configure" /\ sup.at <= N
  /\ proc[sup.at] = "serving" /\ sup.at \notin wedged
  /\ acked' = acked \cup {sup.at}
  /\ Goto("configure", sup.at + 1)
  /\ UNCHANGED <<nodes, proc, wedged, stdin, err>>

ConfigureFails ==
  /\ sup.pc = "configure" /\ sup.at <= N /\ Fail
  /\ UNCHANGED <<nodes, proc, wedged, stdin, acked>>

(* The run and the check, which may fail too.                              *)
Experiment ==
  /\ sup.pc = "configure" /\ sup.at = N + 1
  /\ (Goto("stop", 1) /\ UNCHANGED err) \/ Fail
  /\ UNCHANGED <<nodes, proc, wedged, stdin, acked>>

-----------------------------------------------------------------------------
(***************************************************************************)
(* Close: each of c.nodes is asked to exit by closing its stdin, waited    *)
(* for, killed if it takes too long, and waited for again.                 *)
(***************************************************************************)
Ask ==
  /\ sup.pc = "stop" /\ sup.at <= nodes
  /\ stdin' = stdin \ {sup.at}
  /\ Goto("wait", sup.at)
  /\ UNCHANGED <<nodes, proc, wedged, err, acked>>

Exited ==
  /\ sup.pc \in {"wait", "waitkilled"} /\ ~Alive(sup.at)
  /\ Goto("stop", sup.at + 1)
  /\ UNCHANGED <<nodes, proc, wedged, stdin, err, acked>>

Patience ==
  /\ sup.pc = "wait"
  /\ Killed(sup.at)
  /\ Goto("waitkilled", sup.at)
  /\ UNCHANGED <<nodes, wedged, stdin, err, acked>>

Closed ==
  /\ sup.pc = "stop" /\ sup.at > nodes
  /\ Goto("closed", 0)
  /\ UNCHANGED <<nodes, proc, wedged, stdin, err, acked>>

(* The supervisor itself dies: the system closes its pipes.                *)
Dies ==
  /\ sup.pc \notin {"closed", "dead"}
  /\ Goto("dead", 0) /\ stdin' = {}
  /\ UNCHANGED <<nodes, proc, wedged, err, acked>>

-----------------------------------------------------------------------------
(***************************************************************************)
(* A process: listen, watch stdin, announce, serve, shut down.  Shutdown   *)
(* is bounded by its grace and the store's Close.                          *)
(***************************************************************************)
Step(n, from, to) ==
  /\ proc[n] = from /\ n \notin wedged
  /\ proc' = [proc EXCEPT ![n] = to]
  /\ UNCHANGED <<sup, nodes, wedged, stdin, err, acked>>

EndsLate(n)  == n \notin stdin /\ n <= nodes  \* mutant: stdin is watched only once the node is known healthy
StdinEnds(n) == n \notin stdin

Boot(n)     == Step(n, "booting", "watching") \/ Step(n, "booting", "exited")
Announce(n) == Step(n, "watching", "announced")
Serve(n)    == Step(n, "announced", "serving")
ShutDown(n) == StdinEnds(n) /\ Step(n, "serving", "stopping")
Exit(n)     == Step(n, "stopping", "exited")

Killing(n) ==
  /\ proc[n] = "killed"
  /\ proc' = [proc EXCEPT ![n] = "exited"]
  /\ UNCHANGED <<sup, nodes, wedged, stdin, err, acked>>

Crash(n) ==
  /\ Alive(n) /\ proc[n] # "killed"
  /\ proc' = [proc EXCEPT ![n] = "exited"]
  /\ UNCHANGED <<sup, nodes, wedged, stdin, err, acked>>

Wedge(n) ==
  /\ Alive(n) /\ proc[n] # "killed" /\ wedged' = wedged \cup {n}
  /\ UNCHANGED <<sup, nodes, proc, stdin, err, acked>>

-----------------------------------------------------------------------------
Supervise ==
  \/ Launch \/ Announced \/ AnswersHealth \/ StartFails \/ ClusterUp \/ Configure \/ ConfigureFails
  \/ Experiment \/ Ask \/ Exited \/ Patience \/ Closed

Process(n) == Boot(n) \/ Announce(n) \/ Serve(n) \/ ShutDown(n) \/ Exit(n) \/ Killing(n)

ClusterNext == Supervise \/ Dies \/ \E n \in Procs : Process(n) \/ Crash(n) \/ Wedge(n)

ClusterSpec == ClusterInit /\ [][ClusterNext]_clusterVars

-----------------------------------------------------------------------------
TypeOK ==
  /\ sup.at \in 0..(N + 1) /\ nodes \in 0..N
  /\ proc \in [Procs -> {"none", "booting", "watching", "announced", "serving", "stopping", "killed", "exited"}]
  /\ wedged \subseteq Procs /\ stdin \subseteq Procs /\ err \in BOOLEAN /\ acked \subseteq Procs

(* Whatever failed, and however far it had come, Once leaves no process    *)
(* behind it but one that has been killed, and after an experiment that    *)
(* succeeded not even that: the next seed of a sweep starts among none     *)
(* (cluster.go:180-189, 310-333, 490-534; campaign.go:56-79).              *)
NoneLeftBehind ==
  sup.pc = "closed" => \A n \in Procs : ~Alive(n) \/ (err /\ proc[n] = "killed")

(* The experiment is only ever run on processes that have all announced    *)
(* themselves, answered and been configured, and an error is never lost    *)
(* (cluster.go:163-168, 420-458).                                          *)
RunsOnWholeCluster ==
  /\ sup.pc = "configure" => nodes = N
  /\ sup.pc = "closed" /\ ~err => acked = Procs

(* When the supervisor has gone, cleanly or not, so in the end have its    *)
(* processes, unless they wedged when nobody was left to kill them         *)
(* (server.go:344-348, 371-374).                                           *)
NoOrphans ==
  \A n \in Procs : (sup.pc \in {"closed", "dead"}) ~> (~Alive(n) \/ (sup.pc = "dead" /\ n \in wedged))

=============================================================================
