------------------------------- MODULE Minimise -------------------------------
(***************************************************************************)
(* How a violation is cut down to the earliest moment at which it had      *)
(* become unavoidable: a binary search over the times at which anything    *)
(* happened, each probe a whole search of the history as it stood then     *)
(* (internal/checker/checker.go).                                          *)
(*                                                                         *)
(* A probe is the search WingGong models; here it is its verdict, exact or *)
(* unknown when it may run out of budget.  times is counted from 0, as the *)
(* slice is.                                                               *)
(***************************************************************************)
EXTENDS Linearizability

CONSTANTS
  Budgeted,   \* whether a probe may run out of budget
  ScaleCap    \* bound: scale is doubled up to here

ASSUME ProbeAssumption == Budgeted \in BOOLEAN /\ ScaleCap \in Nat

VARIABLES
  ops,        \* the refused history, as its key's slice holds it
  cuts,       \* the truncation at each of its times, in time order
  lo, hi,     \* the interval of times still in question
  scale,      \* history variable: doubled by every search of the history
  phase,      \* "idle", "looking", "found", or "gave up"
  trunc,      \* the truncation reported, <<>> until there is one
  culprit     \* the operation reported with it, as a sequence of at most one

vars == <<ops, cuts, lo, hi, scale, phase, trunc, culprit>>

-----------------------------------------------------------------------------
(***************************************************************************)
(* eventTimes: every distinct instant, and one past the last that keeps    *)
(* everything.                                                             *)
(***************************************************************************)
Heard(h) == {h[i].complete : i \in {j \in DOMAIN h : h[j].complete # Pending}}
Instants(h) == {h[i].invoke : i \in DOMAIN h} \cup Heard(h)

Past(h) == 1 + CHOOSE t \in Instants(h) \cup {0} : \A u \in Instants(h) \cup {0} : u <= t

EventTimes(h) == Instants(h) \cup {Past(h)}

(* times[i]: the instant with i earlier ones.                              *)
TimeAt(h, i) == CHOOSE t \in EventTimes(h) : Cardinality({u \in EventTimes(h) : u < t}) = i
Final(h)     == Cardinality(EventTimes(h)) - 1

(***************************************************************************)
(* truncateAt: what had been invoked before t, and what had not been heard *)
(* of by then is indeterminate.                                            *)
(***************************************************************************)
AsOfFailed(op, t) ==  \* mutant: what nobody has heard of yet has failed
  IF op.complete >= t THEN [op EXCEPT !.outcome = "fail"] ELSE op

AsOf(op, t) ==
  IF op.complete >= t THEN [op EXCEPT !.outcome = "info", !.complete = Pending] ELSE op

TruncateAt(h, t) ==
  LET kept == Kept(h, {i \in DOMAIN h : h[i].invoke < t})
  IN  [i \in DOMAIN kept |-> AsOf(kept[i], t)]

SortedTruncation(h, t) == SortByInvoke(TruncateAt(h, t))

(* What each probe searches; the code computes a truncation when it probes.*)
Truncations(h) == [i \in 0..Final(h) |-> SortedTruncation(h, TimeAt(h, i))]

(***************************************************************************)
(* searchKey's verdict on one key.                                         *)
(***************************************************************************)
Exact(h) == IF Linearizable(h) THEN "linearizable" ELSE "not linearizable"
VerdictsOn(h) == {Exact(h)} \cup (IF Budgeted THEN {"unknown"} ELSE {})

-----------------------------------------------------------------------------
Init ==
  /\ ops = <<>> /\ cuts = Truncations(<<>>)
  /\ lo = 0 /\ hi = Final(<<>>) /\ scale = 1
  /\ phase = "idle" /\ trunc = <<>> /\ culprit = <<>>

Holding(h, at) ==
  /\ ops' = h /\ cuts' = Truncations(h)
  /\ lo' = 0 /\ hi' = Final(h) /\ scale' = 1
  /\ phase' = at /\ trunc' = <<>> /\ culprit' = <<>>

(* What attachDetail hands over: the operations of the key just refused.   *)
Begin(refused) == Holding(refused, "looking")

Mid == (lo + hi) \div 2

AboveByTwo(mid) == mid + 2  \* mutant: one time too many is ruled out
Above(mid) == mid + 1

Probe(verdict) ==
  /\ phase = "looking"
  /\ lo < hi
  /\ verdict \in VerdictsOn(cuts[Mid])
  /\ scale' = IF scale < ScaleCap THEN 2 * scale ELSE scale
  /\ UNCHANGED <<ops, cuts, trunc, culprit>>

Fails  == Probe("not linearizable") /\ hi' = Mid /\ UNCHANGED <<lo, phase>>
Passes == Probe("linearizable") /\ lo' = Above(Mid) /\ UNCHANGED <<hi, phase>>

(* An undecided probe leaves nothing honest to report.                     *)
Undecided == Probe("unknown") /\ phase' = "gave up" /\ UNCHANGED <<lo, hi>>

(* attachDetail reports the truncation with the operation invoked last.    *)
Report ==
  /\ phase = "looking"
  /\ lo >= hi
  /\ phase' = "found"
  /\ trunc' = cuts[lo]
  /\ culprit' = IF trunc' = <<>> THEN <<>> ELSE <<trunc'[Len(trunc')]>>
  /\ UNCHANGED <<ops, cuts, lo, hi, scale>>

Minimising == Fails \/ Passes \/ Undecided \/ Report

-----------------------------------------------------------------------------
(* The binary search is entitled to its conclusions: everything it has     *)
(* ruled out linearizes and the top of what is left does not, at times it  *)
(* never probed as well; and the interval halves with every search of the  *)
(* history, so that their number is logarithmic (checker.go:881-884).      *)
Bracketed ==
  phase # "idle" =>
    /\ \A i \in 0..(lo - 1) : Linearizable(cuts[i])
    /\ \A i \in hi..Final(ops) : ~Linearizable(cuts[i])
    /\ phase # "gave up" => (hi - lo) * scale <= Final(ops)

=============================================================================
