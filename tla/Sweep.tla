--------------------------------- MODULE Sweep ---------------------------------
(***************************************************************************)
(* splitbrain sweep (cmd/splitbrain/main.go): one experiment after         *)
(* another, each campaign.Once with processes of its own, one seed each,   *)
(* and a tally of their verdicts that the exit status is read from.        *)
(*                                                                         *)
(* Cluster is the experiment; its processes are used up when Once returns, *)
(* and the next seed starts others.                                        *)
(***************************************************************************)
EXTENDS Cluster, ExitStatus, Sequences, FiniteSets

CONSTANTS
  Expectations,   \* what -expect may have been given
  SeedArgs        \* what -seeds may have been given: one number, or two with a dash between

Garbled == -1     \* what is not a number

ASSUME SweepAssumption ==
  /\ Expectations \subseteq STRING
  /\ \A a \in SeedArgs : a \in Seq(Nat \cup {Garbled}) /\ Len(a) \in {1, 2}

VARIABLES
  expect, stopEarly,  \* the flags
  range,              \* what -seeds came to
  seed,               \* the seed being run
  tally,              \* what the last line of the sweep prints
  said,               \* history variable: the verdict on each seed run
  exit                \* the exit status, Running until there is one

sweepVars == <<expect, stopEarly, range, seed, tally, said, exit>>
allVars   == <<clusterVars, sweepVars>>

Running == 3   \* not a status the command exits with

(***************************************************************************)
(* parseRange: both ends are included, and the first is not the later one. *)
(***************************************************************************)
ParseRange(arg) ==
  LET lo == arg[1]
      hi == arg[Len(arg)]
  IN  [lo |-> lo, hi |-> hi, ok |-> lo # Garbled /\ hi # Garbled /\ lo <= hi]

SweepInit ==
  /\ ClusterInit
  /\ \E a \in SeedArgs : range = ParseRange(a)
  /\ expect \in Expectations /\ stopEarly \in BOOLEAN
  /\ seed = range.lo /\ said = <<>> /\ exit = Running
  /\ tally = [linearizable |-> 0, notLinearizable |-> 0, unknown |-> 0, mismatches |-> 0]

Seeding == range.ok /\ seed <= range.hi

(* Once for this seed, from the launch of its processes to Close, and the  *)
(* processes themselves, for as long as they live.                         *)
Once ==
  /\ exit = Running /\ Seeding
  /\ Supervise \/ Dies
  /\ UNCHANGED sweepVars

Lives(n) == (Process(n) \/ Crash(n) \/ Wedge(n)) /\ UNCHANGED sweepVars

RefuseSeeds ==
  /\ exit = Running /\ ~range.ok
  /\ exit' = ExitFor("other")
  /\ UNCHANGED <<clusterVars, expect, stopEarly, range, seed, tally, said>>

(* An experiment that failed ends the sweep, whatever the seeds before it  *)
(* have shown, and so does an interrupt before the next one, or a flag     *)
(* refused before the first.                                               *)
SeedFails ==
  /\ exit = Running /\ Seeding /\ sup.pc = "closed" /\ err
  /\ exit' = ExitFor("other")
  /\ UNCHANGED <<clusterVars, expect, stopEarly, range, seed, tally, said>>

Interrupted ==
  /\ exit = Running /\ Seeding /\ sup = [pc |-> "launch", at |-> 1]
  /\ exit' = ExitFor("other")
  /\ UNCHANGED <<clusterVars, expect, stopEarly, range, seed, tally, said>>

(***************************************************************************)
(* The verdict on a seed is counted once by what it is and once more when  *)
(* it contradicts what was expected; an undecided one contradicts nothing. *)
(***************************************************************************)
CountsAll(e) == e # "nil"  \* mutant: an undecided seed is a mismatch as well
CountsAsMismatch(e) == e \notin {"nil", "noVerdict"}

Counted(v, e) ==
  [tally EXCEPT !.linearizable    = IF v = "linearizable" THEN @ + 1 ELSE @,
                !.notLinearizable = IF v = "not linearizable" THEN @ + 1 ELSE @,
                !.unknown         = IF v = "unknown" THEN @ + 1 ELSE @,
                !.mismatches      = IF CountsAsMismatch(e) THEN @ + 1 ELSE @]

Judge(v) ==
  LET e == CheckExpectation(expect, v)
  IN  /\ exit = Running /\ Seeding /\ sup.pc = "closed" /\ ~err
      /\ said' = Append(said, v)
      /\ tally' = Counted(v, e)
      /\ IF e # "nil" /\ stopEarly
           THEN exit' = ExitFor(e) /\ UNCHANGED <<clusterVars, seed>>
           ELSE /\ seed' = seed + 1
                /\ sup' = [pc |-> "launch", at |-> 1] /\ nodes' = 0
                /\ proc' = [n \in Procs |-> "none"]
                /\ wedged' = {} /\ stdin' = {} /\ err' = FALSE /\ acked' = {}
                /\ UNCHANGED exit
      /\ UNCHANGED <<expect, stopEarly, range>>

(***************************************************************************)
(* sweepOutcome: undecided seeds are answered for first.                   *)
(***************************************************************************)
MismatchesFirst(t) ==  \* mutant: a mismatch outweighs an undecided seed
  IF t.mismatches > 0 THEN "expectationFailed" ELSE IF t.unknown > 0 THEN "noVerdict" ELSE "nil"

SweepOutcome(t) ==
  IF t.unknown > 0 THEN "noVerdict" ELSE IF t.mismatches > 0 THEN "expectationFailed" ELSE "nil"

Finish ==
  /\ exit = Running /\ range.ok /\ seed > range.hi
  /\ exit' = ExitFor(SweepOutcome(tally))
  /\ UNCHANGED <<clusterVars, expect, stopEarly, range, seed, tally, said>>

Command == RefuseSeeds \/ SeedFails \/ Finish \/ \E v \in Verdicts : Judge(v)

SweepNext == Once \/ Interrupted \/ Command \/ \E n \in Procs : Lives(n)

SweepSpec == SweepInit /\ [][SweepNext]_allVars

(* The sweep goes on, and so do the supervisor and the processes.          *)
FairSweep ==
  /\ SweepSpec
  /\ WF_allVars(Command)
  /\ WF_allVars(Supervise /\ Once)
  /\ \A n \in Procs : WF_allVars(Process(n) /\ Lives(n))

-----------------------------------------------------------------------------
(* The exit status says of all the seeds what it says of one (main.go:5-7, *)
(* 42-48, 516-525): 0 only when every seed was decided and none            *)
(* contradicted what was expected; 1 only when one did and nothing was     *)
(* left undecided; and 2 only when something was, or an experiment failed  *)
(* or was interrupted.                                                     *)
Total          == range.hi - range.lo + 1
Undecided(v)   == v \notin Decided
Contradicts(v) == v \in Decided /\ expect \in Expected /\ ~Meets(expect, v)

ExitIsVerdict ==
  expect \in Expected =>
    /\ exit = 0 => Len(said) = Total /\ \A i \in DOMAIN said : ~Undecided(said[i]) /\ ~Contradicts(said[i])
    /\ exit = 1 => /\ \E i \in DOMAIN said : Contradicts(said[i])
                   /\ \A i \in DOMAIN said : ~Undecided(said[i])
    /\ exit = 2 => Len(said) < Total \/ ~range.ok \/ \E i \in DOMAIN said : Undecided(said[i])

(* What is printed is what happened: each seed is tallied once, and only a *)
(* seed that was decided the other way is a mismatch (main.go:487-507).    *)
CountOf(P) == Cardinality({i \in DOMAIN said : said[i] \in P})

TallyIsTrue ==
  /\ tally.linearizable = CountOf({"linearizable"})
  /\ tally.notLinearizable = CountOf({"not linearizable"})
  /\ tally.unknown = CountOf({"unknown"})
  /\ expect \in Expected => tally.mismatches = CountOf({v \in Decided : ~Meets(expect, v)})

(* "1  it did not": a status of 1 is a verdict, reached and not the one    *)
(* expected (main.go:42-45, 95-97).                                        *)
OneIsContradiction ==
  exit = 1 => \E i \in DOMAIN said : Contradicts(said[i])

(* Every sweep comes to an exit status, whatever its experiments and       *)
(* their processes do, unless it is killed itself: Start gives up, Close   *)
(* returns even for processes that are wedged, and the seeds run out.      *)
SweepEnds == <>(exit # Running \/ sup.pc = "dead")

=============================================================================
