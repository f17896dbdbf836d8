---------------------------- MODULE MCCommandLine ----------------------------
(***************************************************************************)
(* A run may come back with any history of two operations, or with one of  *)
(* three that no order explains, of a few shapes, by two clients, on one   *)
(* key; or with one of three on two keys.  A file by hand has two lines,   *)
(* the second of which may leave fields out and name another key.          *)
(***************************************************************************)
EXTENDS CommandLine

CONSTANT MCMaxTime

Blank == [kind |-> "read", process |-> 1, key |-> "k",
          value |-> 0, from |-> 0, to |-> 0, observed |-> 0, swapped |-> FALSE,
          outcome |-> "ok", invoke |-> 0, complete |-> 0]

Contentious == {[Blank EXCEPT !.observed = 1],
                [Blank EXCEPT !.kind = "write", !.value = 1],
                [Blank EXCEPT !.kind = "cas", !.to = 1, !.swapped = TRUE]}
Others      == {Blank, [Blank EXCEPT !.kind = "cas", !.from = 1, !.swapped = FALSE],
                [Blank EXCEPT !.kind = "write", !.value = 1, !.outcome = "fail"],
                [Blank EXCEPT !.outcome = "fail"]}
Unheards    == {[Blank EXCEPT !.kind = "cas", !.from = 1, !.outcome = "info", !.complete = Pending]}

Spans == {u \in (0..MCMaxTime) \X (0..MCMaxTime) : u[1] <= u[2]}

Timed(shapes) ==
  {[op EXCEPT !.process = p, !.invoke = u[1], !.complete = u[2]] : op \in shapes, p \in {1, 2}, u \in Spans}
TimedUnheards ==
  {[op EXCEPT !.process = p, !.invoke = t] : op \in Unheards, p \in {1, 2}, t \in 0..MCMaxTime}

Histories(n, operations) ==
  {h \in [1..n -> operations] : h[1].process = 1 /\ Validate(h) /\ h = SortByInvoke(h)}

(* Two operations on one key and one on another that sorts before it or    *)
(* after it, and is fine, refused or not there once failures are dropped.  *)
Alone == {[op EXCEPT !.process = 3, !.key = k, !.complete = 1] :
            op \in {Blank, [Blank EXCEPT !.observed = 1], [Blank EXCEPT !.outcome = "fail"]},
            k \in {"j", "m"}}

MCRecorded ==
  {<<>>} \cup Histories(2, Timed(Contentious \cup Others) \cup TimedUnheards)
    \cup {h \in Histories(3, Timed(Contentious) \cup TimedUnheards) : ~Linearizable(h)}
    \cup {Append(h, op) : h \in Histories(2, Timed(Contentious)), op \in Alone}

(* The empty key comes first, and is a key only of lines that name none.   *)
MCKeyOrder == <<"", "j", "k", "m">>

-----------------------------------------------------------------------------
(* A write of 1 and a read or compare-and-swap beside it, on its key or on *)
(* another, as a run would have written them, with any two of their fields *)
(* left out.                                                               *)
Said == {ToWire([op EXCEPT !.process = 1, !.key = k, !.complete = 1]) :
           op \in Contentious \cup Others, k \in {"j", "k"}}
          \cup {ToWire([op EXCEPT !.key = k]) : op \in Unheards, k \in {"j", "k"}}

Fields == {"process", "key", "value", "from", "to", "observed", "swapped", "invoke", "complete"}

Absent(field) == IF field = "key" THEN "" ELSE {}

LeftOut(line) ==
  {[f \in DOMAIN line |-> IF f \in {a, b} THEN Absent(f) ELSE line[f]] : a, b \in Fields}

Before == [ToWire([Blank EXCEPT !.kind = "write", !.value = 1]) EXCEPT !.process = {0}, !.complete = {0}]

MCHandWritten ==
  {<<Before, line>> : line \in UNION {LeftOut(line) : line \in Said}}
    \cup {<<line, Garbage>> : line \in Said} \cup {<<>>}

MCExpectations == {"any", "linearizable", "linearisable"}
=============================================================================
