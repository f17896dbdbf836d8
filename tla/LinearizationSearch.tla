------------------------- MODULE LinearizationSearch -------------------------
(***************************************************************************)
(* What a linearizability search is allowed to do, whatever its data       *)
(* structures: build a partial linearization one legal operation at a      *)
(* time, take operations back, and conclude.  It may give up at any        *)
(* moment, but only with "unknown".  WingGong is shown to implement this.  *)
(***************************************************************************)
EXTENDS Linearizability

VARIABLES
  hist,      \* the operations to linearize, sorted by invocation
  witness,   \* the partial linearization built so far, as frames
  value,     \* what the register holds after it
  verdict    \* "none" until the search concludes

searchVars == <<hist, witness, value, verdict>>

Verdicts == {"none", "linearizable", "not linearizable", "unknown"}

Init ==
  /\ hist \in Seq(Operation)
  /\ witness = <<>>
  /\ value = InitialValue
  /\ verdict = "none"

(***************************************************************************)
(* An unplaced operation may come next when nothing unplaced precedes it.  *)
(***************************************************************************)
Minimal(i) ==
  \A j \in DOMAIN hist \ Placed(witness) : j # i => ~Precedes(hist[j], hist[i])

Place(i) ==
  /\ verdict = "none"
  /\ i \notin Placed(witness)
  /\ Minimal(i)
  /\ Fits(value, hist[i])
  /\ witness' = Append(witness, [op |-> i, state |-> value])
  /\ value' = After(value, hist[i])
  /\ UNCHANGED <<hist, verdict>>

(***************************************************************************)
(* Take back the operations from position k on.                            *)
(***************************************************************************)
Withdraw(k) ==
  /\ verdict = "none"
  /\ witness' = SubSeq(witness, 1, k - 1)
  /\ value' = witness[k].state
  /\ UNCHANGED <<hist, verdict>>

Accept ==
  /\ verdict = "none"
  /\ Placed(witness) = DOMAIN hist
  /\ verdict' = "linearizable"
  /\ UNCHANGED <<hist, witness, value>>

Refuse ==
  /\ verdict = "none"
  /\ ~Linearizable(hist)
  /\ verdict' = "not linearizable"
  /\ UNCHANGED <<hist, witness, value>>

GiveUp ==
  /\ verdict = "none"
  /\ verdict' = "unknown"
  /\ UNCHANGED <<hist, witness, value>>

Next ==
  \/ \E i \in DOMAIN hist : Place(i)
  \/ \E k \in DOMAIN witness : Withdraw(k)
  \/ Accept
  \/ Refuse
  \/ GiveUp

Spec == Init /\ [][Next]_searchVars

-----------------------------------------------------------------------------
TypeOK ==
  /\ hist \in Seq(Operation)
  /\ witness \in Seq([op : Nat, state : Int])
  /\ value \in Int
  /\ verdict \in Verdicts

(* The frames on the stack are always a legal beginning of a linearization *)
(* (internal/checker/checker.go, the calls stack of searchFull).           *)
WitnessLegal == IsPartialLinearization(hist, witness, value)

(* The search never says "linearizable" without a linearization in hand.   *)
PassHasWitness ==
  verdict = "linearizable" => IsLinearization(hist, witness, value)

=============================================================================
