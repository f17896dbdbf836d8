------------------------------- MODULE History -------------------------------
(***************************************************************************)
(* What a run records and what the checker is allowed to assume about it   *)
(* (internal/history/history.go).  A history is a sequence of operations;  *)
(* its order carries no meaning, the timestamps do.                        *)
(***************************************************************************)
EXTENDS RegisterModel, Sequences, SequencesExt, FiniteSets

CONSTANT Pending    \* the completion time of an operation that never completed

(***************************************************************************)
(* Pending is math.MaxInt64: later than any timestamp a run produces.      *)
(***************************************************************************)
ASSUME PendingAssumption == Pending \in Nat

(***************************************************************************)
(* history.Op, without the error text only humans read.                    *)
(***************************************************************************)
Operation == [process : Int, key : STRING, kind : Kinds,
              value : Int, from : Int, to : Int,
              observed : Int, swapped : BOOLEAN,
              outcome : Outcomes, invoke : Int, complete : Int]

(***************************************************************************)
(* The real-time order every part of the checker uses: A precedes B when A *)
(* completes at or before B is invoked.                                    *)
(***************************************************************************)
Precedes(o, p) == o.complete <= p.invoke

(***************************************************************************)
(* The operations of h at the positions S, in the order h holds them.      *)
(***************************************************************************)
Kept(h, S) ==
  [k \in 1..Cardinality(S) |-> h[CHOOSE i \in S : 1 + Cardinality({j \in S : j < i}) = k]]

(***************************************************************************)
(* DropFailed removes what definitely never took effect; info stays.       *)
(***************************************************************************)
DropFailed(h) == Kept(h, {i \in DOMAIN h : h[i].outcome # "fail"})

(***************************************************************************)
(* SortByInvoke: by invocation, ties by process, and stable.               *)
(***************************************************************************)
InvokeLess(o, p) ==
  \/ o.invoke < p.invoke
  \/ o.invoke = p.invoke /\ o.process < p.process

SortByInvoke(h) ==
  LET Before(i, j) == InvokeLess(h[i], h[j]) \/ (~InvokeLess(h[j], h[i]) /\ i < j)
      Place(i)     == 1 + Cardinality({j \in DOMAIN h : Before(j, i)})
  IN  [k \in DOMAIN h |-> h[CHOOSE i \in DOMAIN h : Place(i) = k]]

(***************************************************************************)
(* ByKey: one register's operations, in the order the history holds them.  *)
(***************************************************************************)
Keys(h)     == {h[i].key : i \in DOMAIN h}
ByKey(h, k) == Kept(h, {i \in DOMAIN h : h[i].key = k})

-----------------------------------------------------------------------------
(***************************************************************************)
(* Validate, one conjunct per rule.                                        *)
(***************************************************************************)

(* Each operation on its own.                                              *)
ValidOpAnyKey(op) ==  \* mutant: an operation may name no register
  /\ op.invoke >= 0
  /\ op.outcome \in Outcomes
  /\ op.outcome = "info" => op.complete = Pending
  /\ op.outcome # "info" => op.complete # Pending /\ op.complete >= op.invoke
  /\ op.kind = "cas" => op.from # op.to

ValidOp(op) ==
  /\ op.invoke >= 0
  /\ op.key # ""
  /\ op.outcome \in Outcomes
  /\ op.outcome = "info" => op.complete = Pending
  /\ op.outcome # "info" => op.complete # Pending /\ op.complete >= op.invoke
  /\ op.kind = "cas" => op.from # op.to

ZeroWidth(op) == op.outcome # "info" /\ op.complete = op.invoke

(* Two zero-width operations on one key at one instant each precede the    *)
(* other, so no order respects real time.                                  *)
NoTwinInstants(h) ==
  \A i, j \in DOMAIN h :
    /\ i # j
    /\ ZeroWidth(h[i]) /\ ZeroWidth(h[j])
    /\ h[i].key = h[j].key
    => h[i].invoke # h[j].invoke

(* One process, one request at a time, and none after one it never heard   *)
(* back from.  Per process the operations are read in the order of their   *)
(* invocation and then of their completion.                                *)
SequentialProcesses(h) ==
  \A i, j \in DOMAIN h :
    /\ i # j
    /\ h[i].process = h[j].process
    /\ \/ h[i].invoke < h[j].invoke
       \/ h[i].invoke = h[j].invoke /\ h[i].complete < h[j].complete
       \/ h[i].invoke = h[j].invoke /\ h[i].complete = h[j].complete /\ i < j
    => h[i].outcome # "info" /\ h[i].complete <= h[j].invoke

Validate(h) ==
  /\ \A i \in DOMAIN h : ValidOp(h[i])
  /\ NoTwinInstants(h)
  /\ SequentialProcesses(h)

=============================================================================
