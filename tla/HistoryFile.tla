----------------------------- MODULE HistoryFile -----------------------------
(***************************************************************************)
(* A history on disk, one line per operation (internal/history/history.go: *)
(* wireOp, Save, Load).  A line is a record of what it names: an optional  *)
(* field is the set of the value it gives, empty when the line leaves it   *)
(* out, since absent and zero are different things.  A line that is no     *)
(* JSON names no kind.                                                     *)
(***************************************************************************)
EXTENDS History

Garbage ==
  [process |-> {}, key |-> "", kind |-> "", outcome |-> "", value |-> {}, from |-> {}, to |-> {},
   observed |-> {}, swapped |-> {}, invoke |-> {}, complete |-> {}]

(* What a line may name: a word that is no kind or no outcome is as good   *)
(* as none, and Pending is the largest number a time can be.               *)
Line ==
  {Garbage} \cup
    [process : SUBSET Int, key : STRING, kind : Kinds \cup {""}, outcome : Outcomes \cup {""},
     value : SUBSET Int, from : SUBSET Int, to : SUBSET Int,
     observed : SUBSET Int, swapped : SUBSET BOOLEAN,
     invoke : SUBSET Int, complete : SUBSET {t \in Int : t <= Pending}]

Optional(condition, value) == IF condition THEN {value} ELSE {}

(***************************************************************************)
(* toWire: what an operation's kind and outcome give a meaning to is       *)
(* written, and nothing else.                                              *)
(***************************************************************************)
ToWireOmitsZero(op) ==  \* mutant: a read that observed zero is written without it
  [process  |-> {op.process},
   key      |-> op.key, kind |-> op.kind, outcome |-> op.outcome,
   value    |-> Optional(op.kind = "write", op.value),
   from     |-> Optional(op.kind = "cas", op.from),
   to       |-> Optional(op.kind = "cas", op.to),
   observed |-> Optional(op.kind = "read" /\ op.outcome = "ok" /\ op.observed # 0, op.observed),
   swapped  |-> Optional(op.kind = "cas" /\ op.outcome = "ok", op.swapped),
   invoke   |-> {op.invoke},
   complete |-> Optional(op.outcome # "info", op.complete)]

ToWire(op) ==
  [process  |-> {op.process},
   key      |-> op.key, kind |-> op.kind, outcome |-> op.outcome,
   value    |-> Optional(op.kind = "write", op.value),
   from     |-> Optional(op.kind = "cas", op.from),
   to       |-> Optional(op.kind = "cas", op.to),
   observed |-> Optional(op.kind = "read" /\ op.outcome = "ok", op.observed),
   swapped  |-> Optional(op.kind = "cas" /\ op.outcome = "ok", op.swapped),
   invoke   |-> {op.invoke},
   complete |-> Optional(op.outcome # "info", op.complete)]

(***************************************************************************)
(* complete, which finds a line wanting, and toOp's own rule for an        *)
(* operation that was heard of.                                            *)
(***************************************************************************)
LacksButForACas(line) ==  \* mutant: what a compare-and-swap was told may be missing
  \/ line.process = {} \/ line.invoke = {}
  \/ line.kind = "write" /\ line.value = {}
  \/ line.kind = "cas" /\ (line.from = {} \/ line.to = {})
  \/ line.kind = "read" /\ line.outcome = "ok" /\ line.observed = {}

Lacks(line) ==
  \/ line.process = {} \/ line.invoke = {}
  \/ line.kind = "write" /\ line.value = {}
  \/ line.kind = "cas" /\ (line.from = {} \/ line.to = {})
  \/ line.kind = "read" /\ line.outcome = "ok" /\ line.observed = {}
  \/ line.kind = "cas" /\ line.outcome = "ok" /\ line.swapped = {}

Parses(line) ==
  /\ line.kind \in Kinds /\ line.outcome \in Outcomes
  /\ ~Lacks(line)
  /\ line.outcome # "info" => line.complete # {}

(* toOp: what a line leaves out is zero, or Pending for its completion.    *)
Given(field, default) == IF field = {} THEN default ELSE CHOOSE x \in field : TRUE

ToOp(line) ==
  [process  |-> Given(line.process, 0),
   key      |-> line.key, kind |-> line.kind, outcome |-> line.outcome,
   value    |-> Given(line.value, 0), from |-> Given(line.from, 0), to |-> Given(line.to, 0),
   observed |-> Given(line.observed, 0), swapped |-> Given(line.swapped, FALSE),
   invoke   |-> Given(line.invoke, 0), complete |-> Given(line.complete, Pending)]

(***************************************************************************)
(* Save writes in the order of invocation; Load reads what is there, and   *)
(* one line it cannot read is an error and never skipped.                  *)
(***************************************************************************)
Save(h) == LET sorted == SortByInvoke(h) IN [i \in DOMAIN h |-> ToWire(sorted[i])]

Loads(lines) == \A i \in DOMAIN lines : Parses(lines[i])
Load(lines)  == [i \in DOMAIN lines |-> ToOp(lines[i])]

=============================================================================
