------------------------------- MODULE WingGong -------------------------------
(***************************************************************************)
(* The search that decides one key (internal/checker/checker.go): the      *)
(* Wing-Gong walk over a doubly linked list of call and return entries,    *)
(* with a cache of explored configurations and a stack to backtrack, and   *)
(* before it the cheap probe that places every indeterminate operation     *)
(* last.  One behaviour is one call of searchKey.                          *)
(***************************************************************************)
EXTENDS Linearizability, FiniteSets

CONSTANTS
  Histories,               \* the sorted histories searchKey may be given
  OptionSets,              \* the Options a caller may pass
  IndeterminateLastVisits, \* transitions per operation the probe may spend
  DeadlineCheckEvery       \* loop iterations between two looks at the clock

ASSUME OptionsAssumption ==
  /\ OptionSets \subseteq [maxVisits : Nat, maxCache : Nat, timeout : BOOLEAN]
  /\ IndeterminateLastVisits \in Nat \ {0}
  /\ DeadlineCheckEvery \in Nat \ {0}

(***************************************************************************)
(* What Validate has accepted and ByKey has split, in a run that ends      *)
(* before math.MaxInt64.                                                   *)
(***************************************************************************)
ASSUME HistoriesAssumption ==
  \A h \in Histories :
    /\ h \in Seq(Operation)
    /\ \A i \in DOMAIN h : ValidOp(h[i]) /\ h[i].invoke < Pending
    /\ NoTwinInstants(h) /\ \A i, j \in DOMAIN h : h[i].key = h[j].key

VARIABLES
  hist,      \* the key's operations, sorted by invocation; ids are indices
  opt,       \* the caller's limits; zero is no limit
  expired,   \* whether the deadline has passed
  phase,     \* where searchKey is
  scope,     \* the ids the running searchFull was given
  list,      \* the entry list: the next and prev pointers of every entry
  cursor,    \* e, the entry the walk is looking at
  lin,       \* the bitset of placed operations
  value,     \* the model state
  seen,      \* the cache of <<placed set, state>> configurations
  calls,     \* the stack of frames; the probe's tail is put on it too, as history
  best,      \* the deepest refusal met: depth, model state and operation
  visits,    \* model transitions spent by the running searchFull
  iters,     \* iterations of its loop since the deadline was last looked at
  spent,     \* transitions the probe spent before the real search began
  verdict

walk  == <<list, cursor, lin, value, seen, calls, best, visits, iters>>
input == <<hist, opt>>
vars  == <<hist, opt, expired, phase, scope, walk, spent, verdict>>

Phases   == {"enter", "probe", "append", "full", "done"}
Verdicts == {"none", "linearizable", "not linearizable", "unknown"}

-----------------------------------------------------------------------------
(***************************************************************************)
(* The entry list.                                                         *)
(***************************************************************************)
Call(i)  == [id |-> i, isReturn |-> FALSE]
Ret(i)   == [id |-> i, isReturn |-> TRUE]
Match(e) == IF e.isReturn THEN Call(e.id) ELSE Ret(e.id)
Sentinel == [id |-> 0, isReturn |-> FALSE]     \* the sentinel
Nil      == [id |-> -1, isReturn |-> FALSE]    \* the nil pointer

Entries(S) == {Call(i) : i \in S} \cup {Ret(i) : i \in S}

(***************************************************************************)
(* The sort key of an entry.  At one instant returns come before calls,    *)
(* and an operation of zero width is a call and a return between the two.  *)
(***************************************************************************)
Instant(e) == hist[e.id].complete = hist[e.id].invoke
Time(e)    == IF e.isReturn THEN hist[e.id].complete ELSE hist[e.id].invoke
RankCallsFirst(e) ==  \* mutant: calls sort before returns at one instant
  IF Instant(e) THEN 1 ELSE IF e.isReturn THEN 2 ELSE 0
Rank(e)    == IF Instant(e) THEN 1 ELSE IF e.isReturn THEN 0 ELSE 2

EntryLess(a, b) ==
  \/ Time(a) < Time(b)
  \/ Time(a) = Time(b) /\ Rank(a) < Rank(b)
  \/ Time(a) = Time(b) /\ Rank(a) = Rank(b) /\ a.id < b.id
  \/ Time(a) = Time(b) /\ Rank(a) = Rank(b) /\ a.id = b.id
       /\ ~a.isReturn /\ b.isReturn

First(T) ==
  LET least == {a \in T : \A b \in T \ {a} : EntryLess(a, b)}
  IN  IF least = {} THEN Nil ELSE CHOOSE a \in least : TRUE

Final(T) ==
  LET greatest == {a \in T : \A b \in T \ {a} : EntryLess(b, a)}
  IN  IF greatest = {} THEN Sentinel ELSE CHOOSE a \in greatest : TRUE

(* The list of S's entries in that order, behind the sentinel.             *)
BuildEntries(S) ==
  LET Beyond(e) == {x \in Entries(S) : e = Sentinel \/ EntryLess(e, x)}
      Ahead(e)  == {x \in Entries(S) : EntryLess(x, e)}
      here      == {Sentinel} \cup Entries(S)
  IN  [next |-> [e \in here |-> First(Beyond(e))],
       prev |-> [e \in here |-> IF e = Sentinel THEN Nil ELSE Final(Ahead(e))]]

(***************************************************************************)
(* lift takes a call and its return out, the call first; both keep their   *)
(* own pointers, which is all unlift needs to put them back.               *)
(***************************************************************************)
Splice(l, e) ==
  [next |-> [l.next EXCEPT ![l.prev[e]] = l.next[e]],
   prev |-> IF l.next[e] = Nil THEN l.prev
            ELSE [l.prev EXCEPT ![l.next[e]] = l.prev[e]]]

Rejoin(l, e) ==
  [next |-> [l.next EXCEPT ![l.prev[e]] = e],
   prev |-> IF l.next[e] = Nil THEN l.prev
            ELSE [l.prev EXCEPT ![l.next[e]] = e]]

Lift(l, e)   == Splice(Splice(l, e), Match(e))

UnliftCall(l, e) == Rejoin(l, e)  \* mutant: the return stays out
Unlift(l, e) == Rejoin(Rejoin(l, Match(e)), e)

-----------------------------------------------------------------------------
(***************************************************************************)
(* searchFull starts over the operations S.                                *)
(***************************************************************************)
Load(S) ==
  /\ scope' = S
  /\ list' = BuildEntries(S)
  /\ cursor' = BuildEntries(S).next[Sentinel]
  /\ lin' = {} /\ seen' = {} /\ calls' = <<>>
  /\ value' = InitialValue
  /\ best' = [depth |-> -1, state |-> InitialValue, op |-> 0]
  /\ visits' = 0 /\ iters' = 0

Returned == {i \in DOMAIN hist : hist[i].outcome # "info"}

Budget ==
  IF phase = "probe"
    THEN LET share == IndeterminateLastVisits * Len(hist)
         IN  IF opt.maxVisits > 0 /\ opt.maxVisits < share THEN opt.maxVisits ELSE share
    ELSE IF opt.maxVisits > 0 THEN opt.maxVisits - spent ELSE 0

OverVisits == Budget > 0 /\ visits >= Budget
OverTime   == expired /\ iters = 0
OverMemory == opt.maxCache > 0 /\ Cardinality(seen) >= opt.maxCache

(***************************************************************************)
(* searchKey on a key with no operations, and its way into the probe: the  *)
(* probe needs something indeterminate to move to the end.                 *)
(***************************************************************************)
EnterEmpty ==
  /\ phase = "enter" /\ hist = <<>>
  /\ phase' = "done" /\ verdict' = "linearizable"
  /\ UNCHANGED <<input, expired, scope, walk, spent>>

EnterProbe ==
  /\ phase = "enter" /\ hist # <<>> /\ Returned # DOMAIN hist
  /\ phase' = "probe"
  /\ Load(Returned)
  /\ UNCHANGED <<input, expired, spent, verdict>>

EnterFull ==
  /\ phase = "enter" /\ hist # <<>> /\ Returned = DOMAIN hist
  /\ phase' = "full"
  /\ Load(DOMAIN hist)
  /\ UNCHANGED <<input, expired, spent, verdict>>

(***************************************************************************)
(* The probe failed after used transitions: the real search gets what is   *)
(* left of the caller's budget, or nothing is left and the key is unknown. *)
(***************************************************************************)
FallBackReturned(used) ==  \* mutant: the real search is given the probe's operations
  /\ spent' = used
  /\ phase' = "full"
  /\ Load(Returned)
  /\ UNCHANGED <<input, expired, verdict>>

FallBack(used) ==
  /\ spent' = used
  /\ IF opt.maxVisits > 0 /\ used >= opt.maxVisits
       THEN /\ phase' = "done" /\ verdict' = "unknown"
            /\ visits' = 0
            /\ UNCHANGED <<scope, list, cursor, lin, value, seen, calls, best, iters>>
       ELSE /\ phase' = "full" /\ UNCHANGED verdict
            /\ Load(DOMAIN hist)
  /\ UNCHANGED <<input, expired>>

(***************************************************************************)
(* What searchFull's answer leads to.                                      *)
(***************************************************************************)
ConcludeProbe(v) ==  \* mutant: the probe's failure becomes the verdict
  /\ IF phase = "probe" /\ v = "linearizable"
       THEN phase' = "append" /\ UNCHANGED verdict
       ELSE phase' = "done" /\ verdict' = v
  /\ UNCHANGED <<input, expired, scope, walk, spent>>

Conclude(v) ==
  IF phase = "full"
    THEN /\ phase' = "done" /\ verdict' = v
         /\ UNCHANGED <<input, expired, scope, walk, spent>>
    ELSE IF v = "linearizable"
           THEN /\ phase' = "append"
                /\ UNCHANGED <<input, expired, scope, walk, spent, verdict>>
           ELSE FallBack(visits)

-----------------------------------------------------------------------------
(***************************************************************************)
(* The loop of searchFull.  Its guards are looked at in the order they are *)
(* written here: the empty list, then the three budgets, then the entry.   *)
(***************************************************************************)
Searching == phase \in {"probe", "full"}
Looping   == Searching /\ list.next[Sentinel] # Nil
InBudget  == ~OverVisits /\ ~OverTime /\ ~OverMemory

(* Every operation has been placed.                                        *)
Solved == Searching /\ list.next[Sentinel] = Nil /\ Conclude("linearizable")

(* A budget has run out, or the walk fell off the end of the list, which   *)
(* the code calls a bug in the checker and never reads as a pass.          *)
FailClosedLate == Looping /\ cursor = Nil /\ Conclude("unknown")  \* mutant: no budgets
FailClosed == Looping /\ (InBudget => cursor = Nil) /\ Conclude("unknown")

AtEntry(isReturn) ==
  /\ Looping /\ InBudget
  /\ cursor # Nil /\ cursor.isReturn = isReturn
  /\ iters' = (iters + 1) % DeadlineCheckEvery

NextValue == After(value, hist[cursor.id])
Explored  == <<lin \cup {cursor.id}, NextValue>>

(* Where the walk goes after placing a call, and after taking one back.    *)
FrontEntry(l)    == l.next[Sentinel]

Resume(l, i) == l.next[Call(i)]

(* The call fits and leads somewhere new: place it and start over from the *)
(* front of what is left.                                                  *)
PlaceCall ==
  /\ AtEntry(FALSE)
  /\ Fits(value, hist[cursor.id])
  /\ Explored \notin seen
  /\ visits' = visits + 1
  /\ lin' = lin \cup {cursor.id}
  /\ seen' = seen \cup {Explored}
  /\ calls' = Append(calls, [op |-> cursor.id, state |-> value])
  /\ value' = NextValue
  /\ list' = Lift(list, cursor)
  /\ cursor' = FrontEntry(list')
  /\ UNCHANGED <<input, expired, phase, scope, best, spent, verdict>>

(* The call fits but the configuration has been explored: step over it.    *)
SkipSeen ==
  /\ AtEntry(FALSE)
  /\ Fits(value, hist[cursor.id])
  /\ Explored \in seen
  /\ visits' = visits + 1
  /\ cursor' = list.next[cursor]
  /\ UNCHANGED <<input, expired, phase, scope, list, lin, value, seen, calls, best,
                 spent, verdict>>

DeeperByTwo == Len(calls) > best.depth + 1  \* mutant: off by one
Deeper      == Len(calls) > best.depth

(* The model refuses the call here: remember the deepest such refusal.     *)
SkipRefused ==
  /\ AtEntry(FALSE)
  /\ ~Fits(value, hist[cursor.id])
  /\ visits' = visits + 1
  /\ best' = IF Deeper
               THEN [depth |-> Len(calls), state |-> value, op |-> cursor.id]
               ELSE best
  /\ cursor' = list.next[cursor]
  /\ UNCHANGED <<input, expired, phase, scope, list, lin, value, seen, calls,
                 spent, verdict>>

TopKeepingState == [Last(calls) EXCEPT !.state = value]  \* mutant: state not restored
Top             == Last(calls)

CanTakeBack == calls # <<>>

(* A return whose call is still in the list: the last choice was wrong.    *)
Backtrack ==
  /\ AtEntry(TRUE)
  /\ CanTakeBack
  /\ value' = Top.state
  /\ lin' = lin \ {Top.op}
  /\ list' = Unlift(list, Call(Top.op))
  /\ cursor' = Resume(list', Top.op)
  /\ calls' = Front(calls)
  /\ UNCHANGED <<input, expired, phase, scope, seen, best, visits, spent, verdict>>

(* The same with nothing to take back: no order works.  The probe treats   *)
(* it like any other failure to find its one shape.                        *)
NoOrder ==
  /\ Looping /\ InBudget
  /\ cursor # Nil /\ cursor.isReturn
  /\ calls = <<>>
  /\ Conclude("not linearizable")

(***************************************************************************)
(* indeterminateLast after its search: the indeterminate operations are    *)
(* applied one after another in invocation order.                          *)
(***************************************************************************)
Unappended == DOMAIN hist \ (Returned \cup Placed(calls))
NextUp     == CHOOSE i \in Unappended : \A j \in Unappended : i <= j

TailFits == Fits(value, hist[NextUp])

AppendNext ==
  /\ phase = "append" /\ Unappended # {}
  /\ TailFits
  /\ visits' = visits + 1
  /\ calls' = Append(calls, [op |-> NextUp, state |-> value])
  /\ value' = After(value, hist[NextUp])
  /\ UNCHANGED <<input, expired, phase, scope, list, cursor, lin, seen, best,
                 iters, spent, verdict>>

AppendRefused ==
  /\ phase = "append" /\ Unappended # {}
  /\ ~TailFits
  /\ FallBack(visits + 1)

AppendDone ==
  /\ phase = "append" /\ Unappended = {}
  /\ phase' = "done" /\ verdict' = "linearizable"
  /\ UNCHANGED <<input, expired, scope, walk, spent>>

(***************************************************************************)
(* The deadline the whole Check call shares passes while a key is searched.*)
(***************************************************************************)
DeadlinePasses ==
  /\ opt.timeout /\ ~expired /\ phase # "done"
  /\ expired' = TRUE
  /\ UNCHANGED <<input, phase, scope, walk, spent, verdict>>

-----------------------------------------------------------------------------
Init ==
  /\ hist \in Histories /\ opt \in OptionSets
  /\ expired = FALSE
  /\ phase = "enter" /\ verdict = "none"
  /\ scope = {} /\ lin = {} /\ seen = {}
  /\ calls = <<>>
  /\ list = BuildEntries({}) /\ cursor = Nil
  /\ value = InitialValue
  /\ best = [depth |-> -1, state |-> InitialValue, op |-> 0]
  /\ visits = 0 /\ iters = 0 /\ spent = 0

Step ==
  \/ EnterEmpty \/ EnterProbe \/ EnterFull
  \/ Solved \/ FailClosed
  \/ PlaceCall \/ SkipSeen \/ SkipRefused \/ Backtrack \/ NoOrder
  \/ AppendNext \/ AppendRefused \/ AppendDone

Next == Step \/ DeadlinePasses

(***************************************************************************)
(* The goroutine that searches a key keeps running.                        *)
(***************************************************************************)
Spec == Init /\ [][Next]_vars /\ WF_vars(Step)

-----------------------------------------------------------------------------
Ids     == DOMAIN hist
Frame   == [op : Ids, state : Int]

(* The shape of a list over the entries of S: nothing points forward to    *)
(* the sentinel.                                                           *)
Lists(S) ==
  LET here == {Sentinel} \cup Entries(S)
  IN  [next : [here -> Entries(S) \cup {Nil}],
       prev : [here -> Entries(S) \cup {Sentinel, Nil}]]

TypeOK ==
  /\ hist \in Seq(Operation) /\ opt \in OptionSets
  /\ expired \in BOOLEAN
  /\ phase \in Phases /\ verdict \in Verdicts
  /\ scope \subseteq Ids /\ lin \subseteq Ids
  /\ list \in Lists(scope)
  /\ cursor \in Entries(scope) \cup {Nil}
  /\ value \in Int
  /\ seen \subseteq (SUBSET Ids) \X Int
  /\ calls \in Seq(Frame)
  /\ best \in [depth : Nat \cup {-1}, state : Int, op : Ids \cup {0}]
  /\ visits \in Nat /\ iters \in Nat /\ spent \in Nat

(* The frames always replay: whatever was placed, skipped and taken back,  *)
(* the state the search goes on with is the one the operations still on    *)
(* the stack lead to (checker.go:752-791), the probe's tail included       *)
(* (checker.go:673-683).                                                   *)
FramesReplay == Replays(hist, calls, value)

(* The list is exactly the entries still to be placed, in timeline order   *)
(* and linked both ways, whatever sequence of lifts and unlifts led here,  *)
(* and the walk is on it: the branch checker.go:742 calls unreachable is   *)
(* (checker.go:469-492: the wrong order "leaves the list looking plausible *)
(* and the verdicts wrong").                                               *)
ListIntact ==
  /\ Looping => cursor \in Entries(scope \ lin)
  /\ Searching =>
       LET fresh == BuildEntries(scope \ lin)
       IN  \A e \in {Sentinel} \cup Entries(scope \ lin) :
             list.next[e] = fresh.next[e] /\ list.prev[e] = fresh.prev[e]

(* A verdict is the truth: "linearizable" only of a history some order of  *)
(* which is legal and respects real time, "not linearizable" only when     *)
(* none does, and "unknown" only when a limit the caller set was hit       *)
(* (checker.go:688-805 against the definition, 725-744).                   *)
VerdictExact ==
  /\ verdict = "linearizable"     => Linearizable(hist)
  /\ verdict = "not linearizable" => ~Linearizable(hist)
  /\ verdict = "unknown" => opt.maxVisits > 0 \/ opt.maxCache > 0 \/ expired

(* A refusal always comes with a culprit, and the model really refuses the *)
(* culprit in the state the report explains it with (checker.go:711-715,   *)
(* 756-759, 779-785).                                                      *)
CulpritRefused ==
  verdict = "not linearizable" =>
    best.op \in Ids /\ ~Fits(best.state, hist[best.op])

(* Every search ends, with or without limits.                              *)
Terminates == <>(phase = "done")

(* The walk, the cache, the stack and the probe together do nothing a      *)
(* linearization search may not do.                                        *)
Search == INSTANCE LinearizationSearch
            WITH witness <- calls
ImplementsSearch == Search!Spec

=============================================================================
