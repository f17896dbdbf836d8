-------------------------------- MODULE Check --------------------------------
(***************************************************************************)
(* One call of Check (or CheckKey): the history is validated, split by     *)
(* key, each key searched by a pool of goroutines that take the next key   *)
(* from a shared counter, and one key reported (internal/checker/          *)
(* checker.go).                                                            *)
(*                                                                         *)
(* A key's search is the one WingGong models; here it is its verdict,      *)
(* exact, or unknown when the call has a budget.                           *)
(***************************************************************************)
EXTENDS Linearizability

CONSTANTS
  KeyOrder,     \* every key, in the order sort.Strings puts them
  Histories,    \* the histories a caller may give
  Parallelism,  \* what Options.Parallelism may ask for, at least 1
  Budgets       \* whether the call may have a budget that a search can exhaust

ASSUME CheckAssumption ==
  /\ KeyOrder \in Seq(STRING)
  /\ Parallelism \subseteq Nat \ {0}
  /\ Budgets \subseteq BOOLEAN

(***************************************************************************)
(* Every operation is of a known key and was invoked before Pending, the   *)
(* time no run reaches.                                                    *)
(***************************************************************************)
ASSUME HistoriesAssumption ==
  \A g \in Histories :
    /\ g \in Seq(Operation)
    /\ \A i \in DOMAIN g : g[i].invoke < Pending /\ \E p \in DOMAIN KeyOrder : KeyOrder[p] = g[i].key

VARIABLES
  call,     \* the entry point
  h,        \* the history given
  keys,     \* the keys of what is left after DropFailed, sorted
  byKey,    \* each key's operations, by position in keys
  asked,    \* the parallelism asked for
  limited,  \* whether there is a budget
  phase,    \* "given", "searching", "reported" or "refused"
  next,     \* the shared counter: keys handed out so far
  job,      \* the key each goroutine is searching, 0 between keys
  back,     \* the goroutines that have returned
  results,  \* one slot per key
  filled,   \* history variable: the slots that have been written
  report    \* the verdict and the key reported, 0 for none

vars == <<call, h, keys, byKey, asked, limited, phase, next, job, back, results, filled, report>>

Verdicts == {"linearizable", "not linearizable", "unknown"}
NoReport == [verdict |-> "none", key |-> 0]

-----------------------------------------------------------------------------
(***************************************************************************)
(* Only what definitely never happened is dropped.                         *)
(***************************************************************************)
LiveAll(g) == g  \* mutant: failed operations are searched as well
Live(g)    == DropFailed(g)

(* The keys of g, in order.                                                *)
SortedKeys(g) == Kept(KeyOrder, {p \in DOMAIN KeyOrder : KeyOrder[p] \in Keys(g)})

(* CheckKey looks at the keys before anything is dropped.                  *)
Split(g) == IF call = "Check" THEN SortedKeys(Live(g)) ELSE SortedKeys(g)

Refused(g) == ~Validate(g) \/ (call = "CheckKey" /\ Cardinality(Keys(g)) > 1)

(* Never more goroutines than keys.                                        *)
Pool(n)      == 1..(IF asked < n THEN asked ELSE n)
Workers == Pool(Len(keys))

(* searchOne sorts first, so that the layout of the slice does not matter. *)
Exactly(g) ==
  IF Linearizable(SortByInvoke(g)) THEN "linearizable" ELSE "not linearizable"
Searched(g) == {Exactly(g)} \cup (IF limited THEN {"unknown"} ELSE {})

Init ==
  /\ call \in {"Check", "CheckKey"} /\ h \in Histories /\ asked \in Parallelism /\ limited \in Budgets
  /\ keys = <<>> /\ byKey = <<>> /\ phase = "given"
  /\ next = 0 /\ job = <<>> /\ back = {} /\ results = <<>> /\ filled = {} /\ report = NoReport

(***************************************************************************)
(* A malformed history is refused, as is one of several keys by CheckKey.  *)
(***************************************************************************)
Refuse ==
  /\ phase = "given" /\ Refused(h)
  /\ phase' = "refused"
  /\ report' = [verdict |-> "unknown", key |-> 0]
  /\ UNCHANGED <<call, h, keys, byKey, asked, limited, next, job, back, results, filled>>

(* A slot starts as the zero keyResult, whose verdict is linearizable.     *)
Start ==
  /\ phase = "given" /\ ~Refused(h)
  /\ phase' = "searching"
  /\ keys' = Split(h)
  /\ byKey' = [i \in DOMAIN keys' |-> ByKey(Live(h), keys'[i])]
  /\ job' = [w \in Pool(Len(keys')) |-> 0]
  /\ results' = [i \in DOMAIN keys' |-> "linearizable"]
  /\ UNCHANGED <<call, h, asked, limited, next, back, filled, report>>

-----------------------------------------------------------------------------
(***************************************************************************)
(* A goroutine takes the next key, or finds that there is none and         *)
(* returns.  The counter is advanced in one atomic step.                   *)
(***************************************************************************)
Handed(n)      == n + 1

Take(w) ==
  /\ phase = "searching" /\ w \notin back /\ job[w] = 0
  /\ next' = next + 1
  /\ IF Handed(next) \in DOMAIN keys
       THEN job' = [job EXCEPT ![w] = Handed(next)] /\ UNCHANGED back
       ELSE back' = back \cup {w} /\ UNCHANGED job
  /\ UNCHANGED <<call, h, keys, byKey, asked, limited, phase, results, filled, report>>

(* The search ends and its outcome goes into that key's own slot.          *)
Fill(w) ==
  /\ phase = "searching" /\ w \notin back /\ job[w] # 0
  /\ \E v \in Searched(byKey[job[w]]) : results' = [results EXCEPT ![job[w]] = v]
  /\ filled' = filled \cup {job[w]}
  /\ job' = [job EXCEPT ![w] = 0]
  /\ UNCHANGED <<call, h, keys, byKey, asked, limited, phase, next, back, report>>

(***************************************************************************)
(* wg.Wait, then the report: a violation before an unknown, and the first  *)
(* key in sorted order among equals.                                       *)
(***************************************************************************)
AllBack    == back = Workers

UnknownFirst == <<"unknown", "not linearizable">>  \* mutant: what ran out comes first
WorstFirst   == <<"not linearizable", "unknown">>

LastWith(v) ==  \* mutant: the last key of its kind
  CHOOSE i \in DOMAIN keys : results[i] = v /\ \A j \in DOMAIN keys : results[j] = v => j <= i
FirstWith(v) ==
  CHOOSE i \in DOMAIN keys : results[i] = v /\ \A j \in DOMAIN keys : results[j] = v => i <= j

Seen(v) == \E i \in DOMAIN keys : results[i] = v

Summary ==
  IF Seen(WorstFirst[1]) THEN [verdict |-> WorstFirst[1], key |-> FirstWith(WorstFirst[1])]
  ELSE IF Seen(WorstFirst[2]) THEN [verdict |-> WorstFirst[2], key |-> FirstWith(WorstFirst[2])]
  ELSE [verdict |-> "linearizable", key |-> 0]

Report ==
  /\ phase = "searching" /\ AllBack
  /\ phase' = "reported"
  /\ report' = Summary
  /\ UNCHANGED <<call, h, keys, byKey, asked, limited, next, job, back, results, filled>>

Work(w) == Take(w) \/ Fill(w)

Next == Refuse \/ Start \/ Report \/ \E w \in Workers : Work(w)

Spec == Init /\ [][Next]_vars

-----------------------------------------------------------------------------
(* Types, and a goroutine that has returned is searching nothing.          *)
TypeOK ==
  /\ phase \in {"given", "searching", "reported", "refused"}
  /\ next \in Nat
  /\ phase \in {"searching", "reported"} =>
       /\ Workers \subseteq 1..Len(keys)
       /\ job \in [Workers -> 0..Len(keys)] /\ back \subseteq Workers
       /\ results \in [1..Len(keys) -> Verdicts] /\ filled \subseteq 1..Len(keys)
       /\ \A w \in back : job[w] = 0
  /\ report = NoReport \/ report \in [verdict : Verdicts, key : 0..Len(keys)]

(***************************************************************************)
(* A whole history has a linearization: one order of all its operations,   *)
(* over every key at once, that respects real time across keys and that    *)
(* each register replays.                                                  *)
(***************************************************************************)
InOrder(g, p) == [i \in DOMAIN g |-> g[p[i]]]

ReplaysAsIs(g) ==
  LET f == Frames(g, [i \in DOMAIN g |-> i]) IN Replays(g, f.frames, f.final)

LinearizableAcrossKeys(g) ==
  \E p \in Orders(g) :
    LET o == InOrder(g, p)
    IN  /\ \A i, j \in DOMAIN g : i < j => ~Precedes(o[j], o[i])
        /\ \A k \in Keys(g) : ReplaysAsIs(ByKey(o, k))

(* Two instantaneous operations at one instant on different keys: each     *)
(* precedes the other, so no order of the whole history exists, and the    *)
(* code deliberately lets them be (history.go:426-429).                    *)
Entangled(g) ==
  \E i, j \in DOMAIN g :
    g[i].key # g[j].key /\ ZeroWidth(g[i]) /\ ZeroWidth(g[j]) /\ g[i].invoke = g[j].invoke

(***************************************************************************)
(* Splitting by key is exact (history.go:384-389: "it is not an            *)
(* approximation, it is the same answer"): what Check reports of the keys  *)
(* one by one is what the definition says of the whole history, whichever  *)
(* goroutine searched which key and whether or not a budget was set.       *)
(***************************************************************************)
WholeHistoryJudged ==
  phase = "reported" /\ report.verdict # "unknown" /\ ~Entangled(DropFailed(h)) =>
    report.verdict =
      IF LinearizableAcrossKeys(DropFailed(h)) THEN "linearizable" ELSE "not linearizable"

(***************************************************************************)
(* "Nothing about the answer depends on which key finished first"          *)
(* (checker.go:170-175): without a budget the report is the one a single   *)
(* loop over the sorted keys gives, the first key that fails.              *)
(***************************************************************************)
Failing == {i \in DOMAIN keys : Exactly(byKey[i]) = "not linearizable"}

ScheduleFree ==
  phase = "reported" /\ ~limited =>
    report = IF Failing = {} THEN [verdict |-> "linearizable", key |-> 0]
             ELSE [verdict |-> "not linearizable",
                   key |-> CHOOSE i \in Failing : \A j \in Failing : i <= j]

(***************************************************************************)
(* A key that ran out of budget hides no violation another key's search    *)
(* found, and never turns into a pass: every slot has been written when it *)
(* is read - one that had not would read as a pass - and the report is the *)
(* worst of them, at the first key that has it (checker.go:175-199).       *)
(***************************************************************************)
NothingHidden ==
  phase = "reported" =>
    /\ filled = DOMAIN keys
    /\ report.verdict = "unknown" => \A i \in DOMAIN keys : results[i] # "not linearizable"
    /\ report.verdict = "linearizable" => \A i \in DOMAIN keys : results[i] = "linearizable"
    /\ report.key # 0 =>
         /\ results[report.key] = report.verdict
         /\ \A i \in 1..(report.key - 1) : results[i] # report.verdict

(***************************************************************************)
(* "Each goroutine touches one key's operations and one slot"              *)
(* (checker.go:216-219): two goroutines never search the same key, whose   *)
(* operations the search sorts in place, and a key is searched once.       *)
(***************************************************************************)
SearchedOnce ==
  phase = "searching" =>
    /\ \A v, w \in Workers : v # w /\ job[v] # 0 => job[v] # job[w]
    /\ \A w \in Workers : job[w] # 0 => job[w] \notin filled

=============================================================================
