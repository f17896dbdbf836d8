-------------------------------- MODULE Harness --------------------------------
(***************************************************************************)
(* One campaign (internal/harness/harness.go, Run): its schedule is laid   *)
(* out (module Timeline) and lived through, by the nemesis that breaks the *)
(* network (internal/faultnet/nemesis.go) and by the clients' loops; when  *)
(* all of these are over, the main goroutine makes the final reads.  The   *)
(* schedule command lays one out and prints it.                            *)
(*                                                                         *)
(* A link is the fault it is in; what an operation meets on the way is an  *)
(* outcome it may have at any time, and its timeout is the certainty that  *)
(* it has one.  Thinking is the time a client may take before it goes on,  *)
(* and the nemesis's waiting the time its events may take.                 *)
(***************************************************************************)
EXTENDS Timeline

CONSTANTS
  ClientIds,  \* 0..c-1 for the most clients there may be
  Registers   \* how many final reads each node is asked

ASSUME HarnessAssumption ==
  /\ \A c \in Configs : /\ c.command \in {"schedule", "run"}
                        /\ c.maxOps \in Nat /\ c.quiesce \in Nat
                        /\ c.command = "run" => 0..(c.clients - 1) \subseteq ClientIds
  /\ Registers \in Nat \ {0}

VARIABLES
  link,      \* the fault each link is in
  nemesis,   \* Nemesis.Run: the next group, its links whose events have come,
             \* and the links the event at hand has yet to set
  applied,   \* how many events are recorded as applied
  over,      \* runCtx is done
  client,    \* each client's loop
  opCount,
  nextProc,
  nodeOf,    \* processNodes: a function on the identifiers set so far
  rec,       \* the recorder
  main,      \* the main goroutine: where it is, and the final read it is at
  begun      \* history variable: operations begun

loops == <<client, opCount, nextProc, nodeOf, rec, begun>>
net   == <<link, nemesis, applied, over>>
vars  == <<timeline, net, loops, main>>

Clients  == 0..(config.clients - 1)
Outcomes == {"ok", "fail", "info"}
At(pc)   == main' = [main EXCEPT !.pc = pc]

(* Client i of a run talks to node i modulo the number of nodes.           *)
NodeFor(i) == i % config.nodes

FirstFresh == config.clients

Init ==
  /\ Blank
  /\ main = [pc |-> "asked", node |-> 0, key |-> 0, proc |-> 0, todo |-> {}]
  /\ link = [l \in Links |-> "pass"]
  /\ nemesis = [pc |-> "wait", next |-> 1, come |-> {}, todo |-> {}]
  /\ applied = 0 /\ over = FALSE
  /\ client = [i \in Clients |-> [pc |-> "loop", proc |-> i]]
  /\ opCount = 0 /\ nextProc = FirstFresh
  /\ nodeOf = [i \in Clients |-> NodeFor(i)]
  /\ rec = <<>> /\ begun = 0

-----------------------------------------------------------------------------
(***************************************************************************)
(* BuildSchedule, and before it what Run refuses: a node that no client    *)
(* would talk to.                                                          *)
(***************************************************************************)
AnyClients == TRUE  \* mutant: clients need not reach every node
EnoughClients == config.clients >= config.nodes

Accepted == Known /\ (config.command = "run" => EnoughClients)

Accept == main.pc = "asked" /\ Accepted /\ At("build") /\ UNCHANGED <<timeline, net, loops>>
Refuse == main.pc = "asked" /\ ~Accepted /\ At("refused") /\ UNCHANGED <<timeline, net, loops>>

LayOut == main.pc = "build" /\ Lay /\ UNCHANGED <<net, loops, main>>

(* The schedule is printed, or the nemesis and the clients are started.    *)
Begin ==
  /\ main.pc = "build" /\ laid
  /\ At(IF config.command = "run" THEN "clients" ELSE "printed")
  /\ UNCHANGED <<timeline, net, loops>>

Started == main.pc \in {"clients", "nemesis"}

-----------------------------------------------------------------------------
(***************************************************************************)
(* Nemesis.Run: each event in its turn unless the context is done first;   *)
(* at the end, however it comes, every link is set to pass.  An event for  *)
(* all links, like the heal, is one Set after another; every other event   *)
(* is for one link.                                                        *)
(***************************************************************************)
ForAll(g)  == LinkLevel /\ g.links = Links /\ g.fault = "pass"
EventsOf(g) == IF ForAll(g) THEN {g.links} ELSE {{l} : l \in g.links \ nemesis.come}

(* A wait that is not over yet may end by either; one that is over, for an *)
(* event of the same instant, looks at the context only.                   *)
NemesisEvent ==
  /\ Started /\ nemesis.pc = "wait" /\ nemesis.next <= Len(groups)
  /\ nemesis.come # {} => ~over
  /\ \E e \in EventsOf(groups[nemesis.next]) :
       nemesis' = [nemesis EXCEPT !.pc = "apply", !.come = @ \cup e, !.todo = e]
  /\ UNCHANGED <<timeline, link, applied, over, loops, main>>

NemesisSet(l) ==
  /\ nemesis.pc \in {"apply", "heal"} /\ l \in nemesis.todo
  /\ link' = [link EXCEPT ![l] = IF nemesis.pc = "heal" THEN "pass" ELSE groups[nemesis.next].fault]
  /\ nemesis' = [nemesis EXCEPT !.todo = @ \ {l}]
  /\ UNCHANGED <<timeline, applied, over, loops, main>>

GroupDone == nemesis.come = groups[nemesis.next].links

NemesisApplied ==
  /\ nemesis.pc = "apply" /\ nemesis.todo = {}
  /\ applied' = applied + 1
  /\ nemesis' = IF GroupDone THEN [nemesis EXCEPT !.pc = "wait", !.next = @ + 1, !.come = {}]
                ELSE [nemesis EXCEPT !.pc = "wait"]
  /\ UNCHANGED <<timeline, link, over, loops, main>>

(* The schedule has lasted as long as it says, or the context is done.     *)
NemesisHeal ==
  /\ Started /\ nemesis.pc = "wait" /\ (nemesis.next > Len(groups) \/ over)
  /\ nemesis' = [nemesis EXCEPT !.pc = "heal", !.todo = Links]
  /\ UNCHANGED <<timeline, link, applied, over, loops, main>>

NemesisDone ==
  /\ nemesis.pc = "heal" /\ nemesis.todo = {}
  /\ nemesis' = [nemesis EXCEPT !.pc = "done"]
  /\ applied' = applied + 1
  /\ UNCHANGED <<timeline, link, over, loops, main>>

TimeIsUp ==
  /\ Started /\ ~over /\ over' = TRUE
  /\ UNCHANGED <<timeline, link, nemesis, applied, loops, main>>

-----------------------------------------------------------------------------
(***************************************************************************)
(* A client's loop: look at the context and the count, count, operate,     *)
(* record, and after an indeterminate outcome take a fresh identifier.     *)
(***************************************************************************)
Capped == config.maxOps > 0 /\ opCount >= config.maxOps

Look(i) ==
  /\ main.pc = "clients" /\ i \in Clients /\ client[i].pc = "loop"
  /\ client' = [client EXCEPT ![i].pc = IF over \/ Capped THEN "done" ELSE "count"]
  /\ UNCHANGED <<timeline, net, opCount, nextProc, nodeOf, rec, begun, main>>

Count(i) ==
  /\ i \in Clients /\ client[i].pc = "count"
  /\ opCount' = opCount + 1 /\ begun' = begun + 1
  /\ client' = [client EXCEPT ![i].pc = "do"]
  /\ UNCHANGED <<timeline, net, nextProc, nodeOf, rec, main>>

Record(p, n, outcome, final) == [proc |-> p, node |-> n, outcome |-> outcome, final |-> final]

Do(i) ==
  /\ i \in Clients /\ client[i].pc = "do"
  /\ \E outcome \in Outcomes :
       /\ rec' = Append(rec, Record(client[i].proc, NodeFor(i), outcome, FALSE))
       /\ client' = [client EXCEPT ![i].pc = IF outcome = "info" THEN "retire" ELSE "loop"]
  /\ UNCHANGED <<timeline, net, opCount, nextProc, nodeOf, begun, main>>

(* nextProc.Add(1), and processNodes.set.                                  *)
Kept(p)       == p  \* mutant: an indeterminate operation does not retire its process
Fresh(p)      == nextProc + 1
Named(p, n)   == [q \in DOMAIN nodeOf \cup {p} |-> IF q = p THEN n ELSE nodeOf[q]]

Retire(i) ==
  /\ i \in Clients /\ client[i].pc = "retire"
  /\ LET p == Fresh(client[i].proc)
     IN  /\ nextProc' = nextProc + 1
         /\ client' = [client EXCEPT ![i] = [pc |-> "loop", proc |-> p]]
         /\ nodeOf' = Named(p, NodeFor(i))
  /\ UNCHANGED <<timeline, net, opCount, rec, begun, main>>

-----------------------------------------------------------------------------
(***************************************************************************)
(* The main goroutine: wait for the clients, cancel, wait for the nemesis, *)
(* heal again, and read every register from every node.                    *)
(***************************************************************************)
ClientsEnded == \A i \in Clients : client[i].pc = "done"

ClientsDone ==
  /\ main.pc = "clients" /\ ClientsEnded
  /\ over' = TRUE
  /\ main' = [main EXCEPT !.pc = "nemesis"]
  /\ UNCHANGED <<timeline, link, nemesis, applied, loops>>

NotWaited   == TRUE  \* mutant: Run does not wait for the nemesis
Exhausted   == nemesis.pc = "done" /\ nemesis.next > Len(groups)  \* mutant: for all of the schedule
NemesisOver == nemesis.pc = "done"

AwaitNemesis ==
  /\ main.pc = "nemesis" /\ NemesisOver
  /\ main' = [main EXCEPT !.pc = "heal", !.todo = Links]
  /\ UNCHANGED <<timeline, net, loops>>

MainHeal(l) ==
  /\ main.pc = "heal" /\ l \in main.todo
  /\ link' = [link EXCEPT ![l] = "pass"]
  /\ main' = [main EXCEPT !.todo = @ \ {l}]
  /\ UNCHANGED <<timeline, nemesis, applied, over, loops>>

(* FinalNode(n): a fresh identifier for the reads from node n.             *)
FinalNode(n) ==
  /\ nextProc' = nextProc + 1
  /\ nodeOf' = Named(nextProc + 1, n)
  /\ main' = [main EXCEPT !.pc = "read", !.node = n, !.key = 1, !.proc = nextProc + 1]

(* A run asked to settle for no time at all reads nothing.                 *)
Settled ==
  /\ main.pc = "heal" /\ main.todo = {}
  /\ applied' = applied + 1
  /\ IF config.quiesce > 0 THEN FinalNode(0)
     ELSE At("returned") /\ UNCHANGED <<nextProc, nodeOf>>
  /\ UNCHANGED <<timeline, link, nemesis, over, client, opCount, rec, begun>>

FinalRead ==
  /\ main.pc = "read" /\ main.key <= Registers
  /\ begun' = begun + 1
  /\ \E outcome \in Outcomes :
       /\ rec' = Append(rec, Record(main.proc, main.node, outcome, TRUE))
       /\ IF outcome = "info"
            THEN /\ nextProc' = nextProc + 1
                 /\ nodeOf' = Named(nextProc + 1, main.node)
                 /\ main' = [main EXCEPT !.key = @ + 1, !.proc = nextProc + 1]
            ELSE main' = [main EXCEPT !.key = @ + 1] /\ UNCHANGED <<nextProc, nodeOf>>
  /\ UNCHANGED <<timeline, net, client, opCount>>

NextNode ==
  /\ main.pc = "read" /\ main.key > Registers /\ main.node + 1 \in Nodes
  /\ FinalNode(main.node + 1)
  /\ UNCHANGED <<timeline, net, client, opCount, rec, begun>>

Return ==
  /\ main.pc = "read" /\ main.key > Registers /\ main.node + 1 \notin Nodes
  /\ main' = [main EXCEPT !.pc = "returned"]
  /\ UNCHANGED <<timeline, net, loops>>

-----------------------------------------------------------------------------
Nemesis ==
  \/ NemesisEvent \/ NemesisApplied \/ NemesisHeal \/ NemesisDone
  \/ \E l \in Links : NemesisSet(l)

Client(i) == Look(i) \/ Count(i) \/ Do(i) \/ Retire(i)

Main ==
  \/ Accept \/ Refuse \/ LayOut \/ Begin
  \/ ClientsDone \/ AwaitNemesis \/ Settled \/ FinalRead \/ NextNode \/ Return
  \/ \E l \in Links : MainHeal(l)

Next == Nemesis \/ TimeIsUp \/ Main \/ \E i \in ClientIds : Client(i)

Spec == Init /\ [][Next]_vars

(***************************************************************************)
(* Every goroutine is scheduled and every operation times out.  The        *)
(* nemesis need not finish its schedule, only notice that it is over.      *)
(***************************************************************************)
FairSpec ==
  /\ Spec /\ WF_vars(TimeIsUp) /\ WF_vars(Nemesis) /\ WF_vars(Main)
  /\ \A i \in ClientIds : WF_vars(Client(i))

-----------------------------------------------------------------------------
(* Every timeline ends with the network whole, and a node-level one leaves *)
(* the last eighth of the run clean.  As it is laid it is in order and     *)
(* inside the run, as NewNamedSchedule demands, so its sort moves nothing  *)
(* (topology.go:193-196, 208-211, 251-258, schedule.go:71-102, 212-219).   *)
EndsWhole ==
  main.pc = "build" =>
    /\ \A i \in DOMAIN groups : groups[i].at \in 0..Duration
    /\ \A i, j \in DOMAIN groups : i < j => groups[i].at <= groups[j].at
    /\ laid => Down(Duration) = {}
    /\ laid /\ NodeLevel => \A t \in (Duration - Tail8)..Duration : Down(t) = {}

(* A cut is something to see and somebody to see it.  At every instant a   *)
(* node-level timeline is whole or split in exactly two, and on either     *)
(* side is a node whose clients, dealt out round-robin if there is a run,  *)
(* still reach it (topology.go:130-142, 224-234, harness.go:262-274, 312); *)
(* the others never take every link at once, nor two in any other way than *)
(* a partition does (schedule.go:174-197, 212-219).                        *)
Asked(n, down) ==
  <<n>> \notin down /\ (config.command = "run" => \E i \in Clients : NodeFor(i) = n)

SplitInTwo(down) ==
  \E side \in StrictSubsets(Nodes) :
    /\ down \cap PeerLinks = Crossing(side)
    /\ \E n \in side, m \in Nodes \ side : Asked(n, down) /\ Asked(m, down)

SomeServe ==
  main.pc = "build" /\ laid => \A t \in 0..Duration :
    LET down == Down(t) IN
    IF NodeLevel
      THEN down # {} /\ config.nodes >= 2 => SplitInTwo(down)
      ELSE /\ Cardinality(Links) >= 2 => down # Links
           /\ Cardinality(down) >= 2 => \A l \in down : FaultAt(l, t) = "drop"

(* "The network whole, no other load": while the final reads are made no   *)
(* link is in a fault, no client is at work, nothing will break a link     *)
(* again, and every operation begun so far has been recorded               *)
(* (harness.go:366-395, nemesis.go:30-38).                                 *)
FinalReadsUndisturbed ==
  main.pc \in {"read", "returned"} =>
    /\ \A l \in Links : link[l] = "pass"
    /\ ClientsEnded
    /\ Len(rec) = begun

(* No identifier is used by two goroutines, or again after an              *)
(* indeterminate operation: that is what the history's validator demands.  *)
(* And it always says to which node its operations were sent               *)
(* (harness.go:300-306, 345-350, 376-390; history.go:439-522).             *)
ProcessesAreSequential ==
  /\ \A i, j \in DOMAIN rec : i < j /\ rec[i].proc = rec[j].proc =>
       rec[i].outcome # "info" /\ rec[i].node = rec[j].node /\ rec[i].final = rec[j].final
  /\ \A i, j \in Clients : client[i].proc = client[j].proc => i = j
  /\ \A i \in DOMAIN rec : rec[i].proc \in DOMAIN nodeOf /\ nodeOf[rec[i].proc] = rec[i].node

(* A campaign ends, whatever the network does to its operations, and       *)
(* laying out a schedule does (harness.go:366-406, schedule.go:235-285).   *)
RunReturns == <>(main.pc \in {"returned", "refused", "printed"})

=============================================================================
