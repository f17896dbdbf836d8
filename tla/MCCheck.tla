------------------------------- MODULE MCCheck -------------------------------
(***************************************************************************)
(* Two families of histories: a few operations on two keys at every        *)
(* combination of times, for what splitting by key means, and one          *)
(* operation on each of several keys, for the pool of goroutines.          *)
(***************************************************************************)
EXTENDS Check

Blank == [kind |-> "read", process |-> 0, key |-> "a",
          value |-> 0, from |-> 0, to |-> 0, observed |-> 0, swapped |-> FALSE,
          outcome |-> "ok", invoke |-> 0, complete |-> 0]

WriteOne == [Blank EXCEPT !.kind = "write", !.value = 1]
Unheard(op) == [op EXCEPT !.outcome = "info", !.complete = Pending]

Spans == {<<0, 1>>, <<0, 3>>, <<1, 1>>, <<1, 2>>, <<2, 3>>}

(* What one client may have seen of key k.                                 *)
Seen1(k) ==
  {[op EXCEPT !.key = k, !.invoke = u[1], !.complete = u[2]] :
     op \in {Blank, [Blank EXCEPT !.observed = 1], WriteOne}, u \in Spans}

Perhaps(k) ==
  {[WriteOne EXCEPT !.key = k, !.outcome = "fail", !.complete = 3]}
    \cup {[Unheard(WriteOne) EXCEPT !.key = k, !.invoke = t] : t \in {0, 1}}

ByClient(s) == [i \in DOMAIN s |-> [s[i] EXCEPT !.process = i]]

(* Laid out with the keys mixed, by four clients, or by one client that    *)
(* issues two operations, in either order.                                 *)
MCTwoKeys ==
  {ByClient(<<y, x, p, q>>) : x \in Seen1("a"), y \in Seen1("b"),
                              p \in Seen1("a") \cup Perhaps("a"), q \in {o \in Seen1("b") : o.invoke > 0}}
    \cup {<<[x EXCEPT !.process = 1], [y EXCEPT !.process = 1]>> : x \in Seen1("a"), y \in Seen1("b")}

ThreeKeyOrder == <<"a", "b", "c">>

(* Each key is absent, fine, refused, or only definitely failed.           *)
OneEach(k) ==
  {<<>>, <<[Blank EXCEPT !.key = k]>>, <<[Blank EXCEPT !.key = k, !.observed = 1]>>,
   <<[WriteOne EXCEPT !.key = k, !.outcome = "fail"]>>}

MCThreeKeys ==
  {ByClient(c \o a \o b) : a \in OneEach("a"), b \in OneEach("b"), c \in OneEach("c")}
    \cup {<<[Unheard(WriteOne) EXCEPT !.process = 1], [Blank EXCEPT !.process = 1, !.invoke = 2, !.complete = 3]>>}

MCHistories == MCTwoKeys \cup MCThreeKeys
=============================================================================
