------------------------------- MODULE Timeline --------------------------------
(***************************************************************************)
(* How a fault schedule is laid out: phase by phase, by the generators of  *)
(* internal/faultnet/schedule.go over links they know only by name, and by *)
(* internal/harness/topology.go over nodes, whose cuts take down exactly   *)
(* the peer links that cross a boundary.                                   *)
(*                                                                         *)
(* Every draw of the seeded generator is a choice here, time is counted in *)
(* units, and events that share an instant and a fault are one group.      *)
(* Module Harness lays a schedule out, and then lives through it.          *)
(***************************************************************************)
EXTENDS Integers, Sequences, FiniteSets

CONSTANTS
  Configs,    \* what may be asked for: at least [faults, nodes, clients, duration]
  CutFor,     \* how long a node-level cut may last
  Pause,      \* how long the network is left whole after one
  Shortest,   \* the least length of a phase, if the run is long enough
  Longest     \* the greatest

ASSUME TimelineAssumption ==
  /\ \A c \in Configs : c.nodes \in Nat \ {0} /\ c.clients \in Nat /\ c.duration \in Nat \ {0}
  /\ CutFor \subseteq Nat \ {0} /\ Pause \subseteq Nat \ {0}
  /\ Shortest \in Nat \ {0} /\ Longest \in Nat /\ Longest >= Shortest

VARIABLES
  config,  \* what was asked for
  now,     \* where the generator is in the run, until it is done
  groups,  \* what it has laid out: [at, links, fault]
  laid     \* whether it has finished

timeline == <<config, now, groups, laid>>

Nodes    == 0..(config.nodes - 1)
Duration == config.duration

(* What -faults may say: no faults, a boundary between nodes cut in one of *)
(* two ways, or a generator that knows links by name only.                 *)
Healthy   == {"none", "healthy"}
NodeLevel == config.faults \in {"partition", "refuse"}
LinkLevel == config.faults \in {"flaky", "chaos"}
Known     == config.faults \in Healthy \/ NodeLevel \/ LinkLevel

(* Client links are named by their node, peer links by the pair.           *)
ClientLinks == {<<n>> : n \in Nodes}
PeerLinks   == {<<n, m>> : n, m \in Nodes} \ {<<n, n>> : n \in Nodes}
Links       == ClientLinks \cup PeerLinks
Group(at, links, fault) == [at |-> at, links |-> links, fault |-> fault]

StrictSubsets(S) == (SUBSET S) \ {{}, S}

Tail8 == Duration \div 8

Blank ==
  /\ config \in Configs
  /\ now = IF NodeLevel THEN Tail8 ELSE 0
  /\ groups = <<>> /\ laid = (config.faults \in Healthy)

-----------------------------------------------------------------------------
(***************************************************************************)
(* PartitionSchedule and singleNodeSchedule: cuts, each with its heal,     *)
(* between the first and the last eighth of the run.                       *)
(***************************************************************************)
Crossing(isolated) == {l \in PeerLinks : (l[1] \in isolated) # (l[2] \in isolated)}

CutEnd(at, for)    == IF at + for > Duration - Tail8 THEN Duration - Tail8 ELSE at + for

MayStrand(isolated)  == Cardinality(isolated) >= 2

(* What one phase takes down: a boundary, perhaps with the first isolated  *)
(* node's clients; or the only link there is.                              *)
FirstOf(S) == CHOOSE n \in S : \A m \in S : n <= m

NodeCut ==
  IF config.nodes < 2 THEN {ClientLinks}
  ELSE {Crossing(s) : s \in StrictSubsets(Nodes)}
         \cup {Crossing(s) \cup {<<FirstOf(s)>>} : s \in {r \in StrictSubsets(Nodes) : MayStrand(r)}}

WithinRun == now < Duration  \* mutant: phases may begin in the last eighth
MayCut    == now < Duration - Tail8

CutFault == IF config.faults = "refuse" THEN "refuse" ELSE "drop"

NodePhase ==
  /\ NodeLevel /\ ~laid /\ MayCut
  /\ \E cut \in NodeCut, for \in CutFor, pause \in Pause :
       /\ groups' = groups \o <<Group(now, cut, CutFault), Group(CutEnd(now, for), Links, "pass")>>
       /\ now' = CutEnd(now, for) + pause
  /\ UNCHANGED <<config, laid>>

NodeEnd ==
  /\ NodeLevel /\ ~laid /\ ~MayCut
  /\ groups' = Append(groups, Group(Duration - Tail8, Links, "pass"))
  /\ laid' = TRUE /\ now' = 0
  /\ UNCHANGED config

-----------------------------------------------------------------------------
(***************************************************************************)
(* generate: a pause, then a fault and its heal; a phase that would run    *)
(* past the end is dropped and ends the timeline.                          *)
(***************************************************************************)
(* phaseBounds, blip and between, in the smallest unit of time.            *)
Lesser(a, b)     == IF a < b THEN a ELSE b
Positive(n)      == IF n > 1 THEN n ELSE 1
High             == Positive(Lesser(Longest, Duration \div 4))
Low              == Lesser(Shortest, High)
Between(lo, hi)  == IF hi <= lo THEN {lo} ELSE lo..(hi - 1)
Bounds           == Between(Low, High)
Blips            == Between(Positive(Low \div 3), Positive(High \div 3))

Cuts(S)      == StrictSubsets(S)

(* A phase: what goes down, how, for how long, and what is healed.         *)
CutPhase(for)  == {[links |-> s, fault |-> "drop", for |-> for, healed |-> Links] : s \in Cuts(Links)}
Blip(for)      == {[links |-> {l}, fault |-> f, for |-> for, healed |-> {l}] :
                     l \in Links, f \in {"reset", "refuse", "delay"}}

(* Chaos mixes cuts with the blips of a flaky network.                      *)
CutLengths == IF config.faults = "chaos" THEN Bounds ELSE {}
Phases     ==
  (UNION {CutPhase(for) : for \in CutLengths}) \cup (UNION {Blip(for) : for \in Blips})

Fits(end) == end <= Duration

GeneratePhase ==
  /\ LinkLevel /\ ~laid
  /\ \E pause \in Bounds, p \in Phases :
       LET at == now + pause IN
       /\ at < Duration /\ Fits(at + p.for)
       /\ groups' = groups \o <<Group(at, p.links, p.fault), Group(at + p.for, p.healed, "pass")>>
       /\ now' = at + p.for
  /\ UNCHANGED <<config, laid>>

Spent(pause)   == now + pause

(* A lone link has no strict subset to cut: the pause alone is spent.      *)
GenerateNothing ==
  /\ config.faults = "chaos" /\ ~laid /\ Cardinality(Links) < 2
  /\ \E pause, for \in Bounds :
       now + pause < Duration /\ Fits(now + pause + for) /\ now' = Spent(pause)
  /\ UNCHANGED <<config, groups, laid>>

GenerateEnd ==
  /\ LinkLevel /\ ~laid
  /\ \E pause \in Bounds :
       \/ now + pause >= Duration
       \/ \E for \in CutLengths \cup Blips : ~Fits(now + pause + for)
  /\ laid' = TRUE /\ now' = 0
  /\ UNCHANGED <<config, groups>>

Lay == NodePhase \/ NodeEnd \/ GeneratePhase \/ GenerateNothing \/ GenerateEnd

-----------------------------------------------------------------------------
(* The fault a link is in at an instant: the schedule is sorted by time,    *)
(* events of one instant staying in the order they were laid out.          *)
FaultAt(l, t) ==
  LET past == {i \in DOMAIN groups : groups[i].at <= t /\ l \in groups[i].links}
      Later(i, j) == groups[i].at > groups[j].at \/ (groups[i].at = groups[j].at /\ i >= j)
  IN  IF past = {} THEN "pass" ELSE groups[CHOOSE i \in past : \A j \in past : Later(i, j)].fault

Down(t) == {l \in Links : FaultAt(l, t) # "pass"}

=============================================================================
