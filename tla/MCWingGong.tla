------------------------------ MODULE MCWingGong ------------------------------
(***************************************************************************)
(* Bounded inputs for the search, as Validate accepts them and             *)
(* SortByInvoke leaves them: every short history of anything a client may  *)
(* record, and longer ones of the few operations that make them hard.      *)
(***************************************************************************)
EXTENDS CrossCheck

CONSTANTS
  MCMaxTime,            \* bound: times are 0..MCMaxTime
  MCShortest, MCShapes, \* bound: up to so many operations, of these shapes
  MCLongest, MCFew      \* bound: or up to so many, of these

Blank == [kind |-> "read", process |-> 0, key |-> "k",
          value |-> 0, from |-> 0, to |-> 0, observed |-> 0, swapped |-> FALSE,
          outcome |-> "ok", invoke |-> 0, complete |-> 0]

ReadOf(v)      == [Blank EXCEPT !.observed = v]
WriteOf(v)     == [Blank EXCEPT !.kind = "write", !.value = v]
CasOf(f, t, s) == [Blank EXCEPT !.kind = "cas", !.from = f, !.to = t, !.swapped = s]
Unheard(op)    == [op EXCEPT !.outcome = "info", !.complete = Pending]

(* Everything a client of a two-valued register can record.                *)
AllShapes ==
  LET heard == {ReadOf(0), ReadOf(1), WriteOf(1)}
                 \cup {CasOf(f, 1 - f, s) : f \in {0, 1}, s \in BOOLEAN}
  IN  heard \cup {Unheard(WriteOf(1)), Unheard(CasOf(0, 1, FALSE)), Unheard(CasOf(1, 0, FALSE))}

(* The few that make long histories interesting.                           *)
FewShapes == {ReadOf(0), ReadOf(1), CasOf(0, 1, TRUE), Unheard(CasOf(1, 0, FALSE))}

(* Enough for the probe to succeed, to fail and to run out of its share.   *)
LimitShapes == FewShapes \cup {Unheard(WriteOf(1))}

Timed(op) ==
  IF op.outcome = "info"
    THEN {[op EXCEPT !.invoke = t] : t \in 0..MCMaxTime}
    ELSE {[op EXCEPT !.invoke = t[1], !.complete = t[2]] :
            t \in {u \in (0..MCMaxTime) \X (0..MCMaxTime) : u[1] <= u[2]}}

SortedHistories(n, shapes) ==
  LET timed == UNION {Timed(op) : op \in shapes}
  IN  {h \in [1..n -> timed] : \A i \in 1..(n-1) : h[i].invoke <= h[i+1].invoke}

OneProcessEach(h) == [i \in DOMAIN h |-> [h[i] EXCEPT !.process = i]]

MCHistories ==
  LET sorted == UNION {SortedHistories(n, MCShapes) : n \in 0..MCShortest}
                  \cup UNION {SortedHistories(n, MCFew) : n \in 0..MCLongest}
  IN  {h \in {OneProcessEach(g) : g \in sorted} : Validate(h)}

Unlimited == {[maxVisits |-> 0, maxCache |-> 0, timeout |-> FALSE]}
Limited   == [maxVisits : {0, 2, 4}, maxCache : {0, 2}, timeout : BOOLEAN]

MCLimits == {2, MCLongest}
=============================================================================
