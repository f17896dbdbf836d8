------------------------------ MODULE CheckProofs -----------------------------
(***************************************************************************)
(* For every history, number of keys and parallelism: each key is searched *)
(* once, by one goroutine, the report is made of every slot, and judging   *)
(* the keys one by one is judging the whole.  And of what is judged: what  *)
(* is recorded of a consistent store is never convicted.                   *)
(***************************************************************************)
EXTENDS RecordedStore, Check, LinearizabilityProofs

-----------------------------------------------------------------------------
(* Nothing of its kind lies before the first of its kind.                  *)
LEMMA BeforeFirst ==
  ASSUME NEW n \in Nat, NEW f, NEW v, NEW m \in 1..n, \A j \in 1..n : f[j] = v => m <= j
  PROVE  m \in 0..n /\ \A i \in 1..(m - 1) : f[i] # v
OBVIOUS

(* The keys of a history are a sequence, and each is there.                *)
LEMMA SortedKeysType ==
  ASSUME NEW g
  PROVE  /\ Len(SortedKeys(g)) \in Nat /\ DOMAIN SortedKeys(g) = 1..Len(SortedKeys(g))
         /\ \A p \in DOMAIN KeyOrder : KeyOrder[p] \in Keys(g) =>
              \E i \in DOMAIN SortedKeys(g) : SortedKeys(g)[i] = KeyOrder[p]
<1> DEFINE places == {p \in DOMAIN KeyOrder : KeyOrder[p] \in Keys(g)}
<1>1. DOMAIN KeyOrder = 1..Len(KeyOrder) /\ Len(KeyOrder) \in Nat
  BY CheckAssumption
<1>2. places \in SUBSET DOMAIN KeyOrder
  OBVIOUS
<1>3. SortedKeys(g) = Kept(KeyOrder, places)
  BY DEF SortedKeys
<1>4. \A p \in DOMAIN KeyOrder : KeyOrder[p] \in Keys(g) => p \in places
  OBVIOUS
<1> HIDE DEF places
<1>5. IsFiniteSet(DOMAIN KeyOrder)
  BY <1>1, Numbered
<1>6. IsFiniteSet(places)
  BY <1>2, <1>5, FS_Subset
<1>7. places \in SUBSET Nat
  BY <1>1, <1>2
<1>8. \E n \in Nat : \E f \in [1..n -> places] :
           /\ \A j, k \in 1..n : j < k => f[j] < f[k]
           /\ \A i \in places : \E k \in 1..n : f[k] = i
           /\ Kept(KeyOrder, places) = LaidOut(KeyOrder, f, n)
           /\ n = Cardinality(places)
  BY <1>6, <1>7, KeptLaysOut
<1>9. PICK n \in Nat : \E f \in [1..n -> places] :
           /\ \A i \in places : \E k \in 1..n : f[k] = i
           /\ Kept(KeyOrder, places) = LaidOut(KeyOrder, f, n)
  BY <1>8
<1>10. PICK f \in [1..n -> places] :
           /\ \A i \in places : \E k \in 1..n : f[k] = i
           /\ Kept(KeyOrder, places) = LaidOut(KeyOrder, f, n)
  BY <1>9
<1> DEFINE X == {KeyOrder[f[k]] : k \in 1..n}
<1>11. \A k \in 1..n : KeyOrder[f[k]] \in X
  OBVIOUS
<1> HIDE DEF X
<1>12. List(SortedKeys(g), n)
  BY <1>3, <1>10, <1>11, LaidOutList
<1>13. \A k \in 1..n : SortedKeys(g)[k] = KeyOrder[f[k]]
  BY <1>3, <1>10 DEF LaidOut
<1>14. ASSUME NEW p \in DOMAIN KeyOrder, KeyOrder[p] \in Keys(g)
       PROVE  \E i \in DOMAIN SortedKeys(g) : SortedKeys(g)[i] = KeyOrder[p]
  <2>1. PICK k \in 1..n : f[k] = p
    BY <1>4, <1>10, <1>14
  <2> QED BY <1>12, <1>13, <2>1 DEF List
<1> QED BY <1>12, <1>14 DEF List

-----------------------------------------------------------------------------
(***************************************************************************)
(* The inductive invariant.  Beyond the types: the keys handed out are     *)
(* those up to the counter, each is either being searched or done with,    *)
(* and a goroutine returns only once they have all been handed out.        *)
(***************************************************************************)
Given == keys = <<>> /\ next = 0 /\ back = {} /\ filled = {} /\ report = NoReport

Underway ==
  /\ next \in Nat
  /\ asked \in Nat \ {0}
  /\ Len(keys) \in Nat
  /\ DOMAIN keys = 1..Len(keys)
  /\ job \in [Workers -> 0..Len(keys)]
  /\ back \subseteq Workers
  /\ \A w \in back : job[w] = 0
  /\ results \in [1..Len(keys) -> Verdicts]
  /\ filled \subseteq 1..Len(keys)

Ledger ==
  /\ \A w \in Workers : job[w] # 0 => job[w] <= next /\ job[w] \notin filled
  /\ \A v, w \in Workers : v # w /\ job[v] # 0 => job[v] # job[w]
  /\ \A i \in filled : i <= next
  /\ \A i \in 1..Len(keys) : i <= next => i \in filled \/ \E w \in Workers : job[w] = i
  /\ back # {} => Len(keys) < next

Searching ==
  /\ phase \in {"given", "searching", "reported", "refused"}
  /\ asked \in Nat \ {0}
  /\ phase = "given" => Given
  /\ phase = "refused" => keys = <<>> /\ next = 0 /\ report = [verdict |-> "unknown", key |-> 0]
  /\ phase = "searching" => Underway /\ Ledger /\ report = NoReport
  /\ phase = "reported" =>
       /\ Underway /\ report \in [verdict : Verdicts, key : 0..Len(keys)]
       /\ NothingHidden

LEMMA PoolType ==
  ASSUME NEW n \in Nat, asked \in Nat \ {0}
  PROVE  Pool(n) \subseteq 1..n /\ (n # 0 => Pool(n) # {})
BY DEF Pool

LEMMA SearchingInit == Init => Searching
BY CheckAssumption DEF Init, Searching, Given

LEMMA SearchingTypes == Searching => TypeOK
<1> SUFFICES ASSUME Searching PROVE TypeOK
  OBVIOUS
<1>1. CASE phase = "given"
  BY <1>1 DEF Searching, Given, TypeOK
<1>2. CASE phase = "refused"
  <2>1. next = 0 /\ report = [verdict |-> "unknown", key |-> 0] /\ Len(keys) = 0
    BY <1>2 DEF Searching
  <2> QED BY <1>2, <2>1 DEF TypeOK, Verdicts
<1>3. CASE phase \in {"searching", "reported"}
  <2>1. Underway
    BY <1>3 DEF Searching
  <2>2. Workers \subseteq 1..Len(keys)
    BY <2>1, PoolType DEF Workers, Underway
  <2>3. report = NoReport \/ report \in [verdict : Verdicts, key : 0..Len(keys)]
    BY <1>3 DEF Searching
  <2> QED BY <1>3, <2>1, <2>2, <2>3 DEF TypeOK, Underway
<1> QED BY <1>1, <1>2, <1>3 DEF Searching

LEMMA SearchingSuffices == Searching => SearchedOnce /\ NothingHidden
BY DEF Searching, SearchedOnce, Ledger, NothingHidden

-----------------------------------------------------------------------------
(* What is under way depends on nothing else.                              *)
LEMMA PhasesKept ==
  ASSUME Searching, UNCHANGED <<asked, phase, keys, next, job, back, results, filled, report>>
  PROVE  Searching'
<1>1. Workers' = Workers
  BY DEF Workers, Pool
<1>2. Underway' = Underway /\ Ledger' = Ledger
  BY <1>1 DEF Underway, Ledger
<1>3. NothingHidden' = NothingHidden /\ Given' = Given
  BY DEF NothingHidden, Given
<1> QED BY <1>2, <1>3 DEF Searching

LEMMA StartSearching ==
  ASSUME Searching, Start
  PROVE  Searching'
<1>1. /\ phase' = "searching" /\ next = 0 /\ next' = 0 /\ back' = {} /\ filled' = {}
      /\ report' = NoReport /\ asked \in Nat \ {0} /\ asked' = asked
  BY DEF Start, Searching, Given
<1>2. Len(keys') \in Nat /\ DOMAIN keys' = 1..Len(keys')
  <2>1. keys' = Split(h)
    BY DEF Start
  <2>2. \E g : Split(h) = SortedKeys(g)
    BY DEF Split
  <2> QED BY <2>1, <2>2, SortedKeysType
<1>3. Workers' = Pool(Len(keys'))
  BY <1>1 DEF Workers, Pool
<1>4. job' = [w \in Workers' |-> 0]
  BY <1>3 DEF Start
<1>5. results' \in [1..Len(keys') -> Verdicts]
  BY <1>2 DEF Start, Verdicts
<1>6. Underway'
  BY <1>1, <1>2, <1>4, <1>5 DEF Underway
<1>7. Ledger'
  BY <1>1, <1>2, <1>4 DEF Ledger
<1> QED BY <1>1, <1>6, <1>7 DEF Searching

LEMMA TakeSearching ==
  ASSUME Searching, NEW w \in Workers, Take(w)
  PROVE  Searching'
<1>1. /\ phase = "searching" /\ Underway /\ Ledger /\ report = NoReport
      /\ job[w] = 0 /\ w \notin back /\ next' = next + 1
  BY DEF Take, Searching
<1>2. /\ UNCHANGED <<asked, keys, phase, results, filled, report>> /\ Workers' = Workers
  BY DEF Take, Workers, Pool
<1>3. CASE Handed(next) \in DOMAIN keys
  <2>1. job' = [job EXCEPT ![w] = next + 1] /\ back' = back /\ next + 1 \in 1..Len(keys)
    BY <1>1, <1>3 DEF Take, Handed, Underway
  <2>2. job'[w] = next + 1 /\ \A v \in Workers \ {w} : job'[v] = job[v]
    BY <1>1, <2>1 DEF Underway
  <2>3. Underway'
    BY <1>1, <1>2, <2>1, <2>2 DEF Underway
  <2>4. Ledger'
    <3>1. next + 1 \notin filled /\ \A v \in Workers : job[v] # next + 1
      BY <1>1 DEF Ledger, Underway
    <3>2. back = {}
      BY <1>1, <2>1 DEF Ledger, Underway
    <3>3. \A v \in Workers : job'[v] # 0 => job'[v] <= next' /\ job'[v] \notin filled'
      BY <1>1, <1>2, <2>1, <2>2, <3>1 DEF Ledger, Underway
    <3>4. \A v, u \in Workers : v # u /\ job'[v] # 0 => job'[v] # job'[u]
      BY <1>1, <2>1, <2>2, <3>1 DEF Ledger, Underway
    <3>5. \A i \in filled' : i <= next'
      BY <1>1, <1>2 DEF Ledger, Underway
    <3>6. ASSUME NEW i \in 1..Len(keys'), i <= next'
          PROVE  i \in filled' \/ \E v \in Workers : job'[v] = i
      <4>1. CASE i = next + 1
        BY <2>2, <4>1
      <4>2. CASE i # next + 1
        <5>1. i \in filled \/ \E v \in Workers : job[v] = i
          BY <1>1, <1>2, <3>6, <4>2 DEF Ledger, Underway
        <5> QED BY <1>1, <1>2, <2>2, <5>1
      <4> QED BY <4>1, <4>2
    <3> QED BY <1>2, <2>1, <3>2, <3>3, <3>4, <3>5, <3>6 DEF Ledger
  <2> QED BY <1>1, <1>2, <2>3, <2>4 DEF Searching
<1>4. CASE Handed(next) \notin DOMAIN keys
  <2>1. job' = job /\ back' = back \cup {w} /\ Len(keys) < next + 1
    BY <1>1, <1>4 DEF Take, Handed, Underway
  <2>2. Underway'
    BY <1>1, <1>2, <2>1 DEF Underway
  <2>3. Ledger'
    <3>1. ASSUME NEW i \in 1..Len(keys) PROVE i \in filled \/ \E v \in Workers : job[v] = i
      BY <1>1, <2>1, <3>1 DEF Ledger, Underway
    <3>2. \A v \in Workers : job[v] # 0 => job[v] <= next + 1 /\ job[v] \notin filled
      BY <1>1 DEF Ledger, Underway
    <3>3. \A i \in filled : i <= next + 1
      BY <1>1 DEF Ledger, Underway
    <3> QED BY <1>1, <1>2, <2>1, <3>1, <3>2, <3>3 DEF Ledger
  <2> QED BY <1>1, <1>2, <2>2, <2>3 DEF Searching
<1> QED BY <1>3, <1>4

LEMMA FillSearching ==
  ASSUME Searching, NEW w \in Workers, Fill(w)
  PROVE  Searching'
<1>1. /\ phase = "searching" /\ Underway /\ Ledger /\ report = NoReport
      /\ job[w] # 0 /\ w \notin back /\ job[w] \in 1..Len(keys)
  BY DEF Fill, Searching, Underway
<1>2. /\ UNCHANGED <<asked, keys, phase, next, back, report>> /\ Workers' = Workers
      /\ job' = [job EXCEPT ![w] = 0] /\ filled' = filled \cup {job[w]}
  BY DEF Fill, Workers, Pool
<1>3. results' \in [1..Len(keys) -> Verdicts]
  <2>1. PICK v \in Searched(byKey[job[w]]) : results' = [results EXCEPT ![job[w]] = v]
    BY DEF Fill
  <2>2. v \in Verdicts
    BY <2>1 DEF Searched, Exactly, Verdicts
  <2> QED BY <1>1, <2>1, <2>2 DEF Underway
<1>4. job'[w] = 0 /\ \A v \in Workers \ {w} : job'[v] = job[v]
  BY <1>1, <1>2 DEF Underway
<1>5. Underway'
  <2>1. job' \in [Workers -> 0..Len(keys)]
    BY <1>1, <1>2 DEF Underway
  <2>2. \A v \in back : job'[v] = 0
    BY <1>1, <1>4 DEF Underway
  <2>3. filled' \subseteq 1..Len(keys)
    BY <1>1, <1>2 DEF Underway
  <2> QED BY <1>1, <1>2, <1>3, <2>1, <2>2, <2>3 DEF Underway
<1>6. Ledger'
  <2>1. \A v \in Workers : job'[v] # 0 => job'[v] <= next /\ job'[v] \notin filled'
    BY <1>1, <1>2, <1>4 DEF Ledger
  <2>2. \A v, u \in Workers : v # u /\ job'[v] # 0 => job'[v] # job'[u]
    BY <1>1, <1>4 DEF Ledger
  <2>3. \A i \in filled' : i <= next
    BY <1>1, <1>2 DEF Ledger
  <2>4. ASSUME NEW i \in 1..Len(keys), i <= next
        PROVE  i \in filled' \/ \E v \in Workers : job'[v] = i
    <3>1. i \in filled \/ \E v \in Workers : job[v] = i
      BY <1>1, <2>4 DEF Ledger
    <3> QED BY <1>2, <1>4, <3>1
  <2> QED BY <1>1, <1>2, <2>1, <2>2, <2>3, <2>4 DEF Ledger
<1> QED BY <1>1, <1>2, <1>5, <1>6 DEF Searching

(* When every goroutine is back, every slot has been written.              *)
LEMMA AllFilled ==
  ASSUME Underway, Ledger, AllBack
  PROVE  filled = 1..Len(keys)
<1>1. ASSUME NEW i \in 1..Len(keys) PROVE i \in filled
  <2>1. Workers # {}
    BY <1>1, PoolType DEF Workers, Underway
  <2>2. Len(keys) < next /\ \A w \in Workers : job[w] = 0
    BY <2>1 DEF AllBack, Ledger, Underway
  <2> QED BY <1>1, <2>2 DEF Ledger, Underway
<1> QED BY <1>1 DEF Underway

LEMMA FirstWithIs ==
  ASSUME Underway, NEW v, Seen(v)
  PROVE  /\ FirstWith(v) \in DOMAIN keys /\ results[FirstWith(v)] = v
         /\ \A j \in DOMAIN keys : results[j] = v => FirstWith(v) <= j
<1> DEFINE S == {i \in DOMAIN keys : results[i] = v}
<1>1. S \in SUBSET Nat /\ S # {}
  BY DEF Seen, Underway
<1>2. PICK m \in S : \A k \in S : m <= k
  BY <1>1, LeastNumber
<1>3. m \in DOMAIN keys /\ results[m] = v /\ \A j \in DOMAIN keys : results[j] = v => m <= j
  BY <1>2
<1> QED BY <1>3 DEF FirstWith

LEMMA ReportSearching ==
  ASSUME Searching, Report
  PROVE  Searching'
<1>1. /\ phase = "searching" /\ phase' = "reported" /\ Underway /\ Ledger /\ AllBack
      /\ report' = Summary
      /\ UNCHANGED <<asked, keys, next, job, back, results, filled>>
  BY DEF Report, Searching
<1>2. Underway'
  BY <1>1 DEF Underway, Workers, Pool
<1>3. filled = DOMAIN keys /\ DOMAIN keys = 1..Len(keys) /\ Len(keys) \in Nat
  BY <1>1, AllFilled DEF Underway
<1> DEFINE r == report'
<1>4. /\ r \in [verdict : Verdicts, key : 0..Len(keys)]
      /\ r.verdict = "unknown" => \A i \in DOMAIN keys : results[i] # "not linearizable"
      /\ r.verdict = "linearizable" => \A i \in DOMAIN keys : results[i] = "linearizable"
      /\ r.key # 0 =>
           /\ results[r.key] = r.verdict
           /\ \A i \in 1..(r.key - 1) : results[i] # r.verdict
  <2>1. ASSUME NEW v \in {"not linearizable", "unknown"}, Seen(v),
               r = [verdict |-> v, key |-> FirstWith(v)]
        PROVE  /\ r \in [verdict : Verdicts, key : 0..Len(keys)]
               /\ r.verdict = v
               /\ results[r.key] = r.verdict
               /\ \A i \in 1..(r.key - 1) : results[i] # r.verdict
    <3>1. /\ FirstWith(v) \in 1..Len(keys) /\ results[FirstWith(v)] = v
          /\ \A j \in 1..Len(keys) : results[j] = v => FirstWith(v) <= j
      BY <1>1, <1>3, <2>1, FirstWithIs
    <3>2. r.verdict = v /\ r.key = FirstWith(v)
      BY <2>1
    <3>3. /\ FirstWith(v) \in 0..Len(keys)
          /\ \A i \in 1..(FirstWith(v) - 1) : results[i] # v
      BY <1>3, <3>1, BeforeFirst
    <3>4. v \in Verdicts
      BY <2>1 DEF Verdicts
    <3>5. r \in [verdict : Verdicts, key : 0..Len(keys)]
      BY <2>1, <3>3, <3>4
    <3> QED BY <3>1, <3>2, <3>3, <3>5
  <2>2. CASE Seen("not linearizable")
    BY <1>1, <2>1, <2>2 DEF Summary, WorstFirst
  <2>3. CASE ~ Seen("not linearizable") /\ Seen("unknown")
    <3>1. r = [verdict |-> "unknown", key |-> FirstWith("unknown")]
      BY <1>1, <2>3 DEF Summary, WorstFirst
    <3> QED BY <2>1, <2>3, <3>1 DEF Seen
  <2>4. CASE ~ Seen("not linearizable") /\ ~ Seen("unknown")
    <3>1. r = [verdict |-> "linearizable", key |-> 0]
      BY <1>1, <2>4 DEF Summary, WorstFirst
    <3>2. \A i \in DOMAIN keys : results[i] = "linearizable"
      BY <1>1, <1>3, <2>4 DEF Seen, Underway, Verdicts
    <3> QED BY <1>3, <3>1, <3>2 DEF Verdicts
  <2> QED BY <2>2, <2>3, <2>4
<1>5. NothingHidden'
  BY <1>1, <1>3, <1>4 DEF NothingHidden
<1> QED BY <1>1, <1>2, <1>4, <1>5 DEF Searching, Underway

LEMMA SearchingNext == Searching /\ [Next]_vars => Searching'
<1> SUFFICES ASSUME Searching, [Next]_vars PROVE Searching'
  OBVIOUS
<1>1. CASE Refuse
  BY <1>1 DEF Refuse, Searching, Given
<1>2. CASE Start
  BY <1>2, StartSearching
<1>3. CASE Report
  BY <1>3, ReportSearching
<1>4. ASSUME NEW w \in Workers, Work(w) PROVE Searching'
  BY <1>4, TakeSearching, FillSearching DEF Work
<1>5. CASE UNCHANGED vars
  BY <1>5, PhasesKept DEF vars
<1> QED BY <1>1, <1>2, <1>3, <1>4, <1>5 DEF Next

(* There are never more goroutines than keys, and each index they hold is  *)
(* one of a slot (checker.go:229-235, 246-256).                            *)
THEOREM CheckTypes == Spec => []TypeOK
<1> QED BY SearchingInit, SearchingNext, SearchingTypes, PTL DEF Spec

(* Two goroutines never search the same key, whose operations each search  *)
(* sorts in place, and none is searched twice (checker.go:216-219,         *)
(* 246-256).                                                               *)
THEOREM KeysSearchedOnce == Spec => []SearchedOnce
<1> QED BY SearchingInit, SearchingNext, SearchingSuffices, PTL DEF Spec

(* Whatever finished first, every slot is written before any is read, and  *)
(* the report is the worst of them at its first key (checker.go:175-199).  *)
THEOREM ReportHidesNothing == Spec => []NothingHidden
<1> QED BY SearchingInit, SearchingNext, SearchingSuffices, PTL DEF Spec

-----------------------------------------------------------------------------
(***************************************************************************)
(* Nothing depends on which key finished first.  Beyond Searching: a slot  *)
(* that has been written holds a verdict of the search of its own key, and *)
(* the report is made of the slots and of nothing else.                    *)
(***************************************************************************)
SlotsTrue ==
  /\ \A i \in filled : results[i] \in Searched(byKey[i])
  /\ phase = "reported" => report = Summary

Reporting == Searching /\ SlotsTrue

LEMMA ReportingInit == Init => Reporting
<1> SUFFICES ASSUME Init PROVE SlotsTrue
  BY SearchingInit DEF Reporting
<1>1. filled = {} /\ phase = "given"
  BY DEF Init
<1> QED BY <1>1 DEF SlotsTrue

LEMMA FillKeepsSlots ==
  ASSUME Reporting, NEW w \in Workers, Fill(w)
  PROVE  SlotsTrue'
<1>1. /\ phase = "searching" /\ phase' = phase /\ Underway /\ Ledger
      /\ limited' = limited /\ byKey' = byKey /\ job[w] \in 1..Len(keys)
      /\ filled' = filled \cup {job[w]} /\ job[w] \notin filled
      /\ \A i \in filled : results[i] \in Searched(byKey[i])
  BY DEF Fill, Reporting, SlotsTrue, Searching, Underway, Ledger
<1>2. PICK v \in Searched(byKey[job[w]]) : results' = [results EXCEPT ![job[w]] = v]
  BY DEF Fill
<1>3. results'[job[w]] = v /\ \A i \in filled : results'[i] = results[i]
  BY <1>1, <1>2 DEF Underway
<1>4. \A i \in filled' : results'[i] \in Searched(byKey[i])
  BY <1>1, <1>2, <1>3
<1> QED BY <1>1, <1>4 DEF SlotsTrue, Searched

LEMMA ReportingNext == Reporting /\ [Next]_vars => Reporting'
<1> SUFFICES ASSUME Reporting, [Next]_vars PROVE SlotsTrue'
  BY SearchingNext DEF Reporting
<1>1. Searching /\ SlotsTrue
  BY DEF Reporting
<1>2. CASE Refuse
  BY <1>1, <1>2 DEF Refuse, Searching, Given, SlotsTrue
<1>3. CASE Start
  BY <1>1, <1>3 DEF Start, Searching, Given, SlotsTrue
<1>4. CASE Report
  <2>1. /\ phase' = "reported" /\ report' = Summary
        /\ UNCHANGED <<keys, byKey, limited, results, filled>>
    BY <1>4 DEF Report
  <2>2. Summary' = Summary
    BY <2>1 DEF Summary, Seen, FirstWith
  <2> QED BY <1>1, <2>1, <2>2 DEF SlotsTrue, Searched
<1>5. ASSUME NEW w \in Workers, Take(w) PROVE SlotsTrue'
  <2>1. /\ phase = "searching" /\ phase' = phase
        /\ UNCHANGED <<byKey, limited, results, filled>>
    BY <1>5 DEF Take
  <2> QED BY <1>1, <2>1 DEF SlotsTrue, Searched
<1>6. ASSUME NEW w \in Workers, Fill(w) PROVE SlotsTrue'
  BY <1>6, FillKeepsSlots
<1>7. CASE UNCHANGED vars
  <2>1. UNCHANGED <<phase, keys, byKey, limited, results, filled, report>>
    BY <1>7 DEF vars
  <2>2. Summary' = Summary
    BY <2>1 DEF Summary, Seen, FirstWith
  <2> QED BY <1>1, <2>1, <2>2 DEF SlotsTrue, Searched
<1> QED BY <1>2, <1>3, <1>4, <1>5, <1>6, <1>7 DEF Next, Work

(* Without a budget each slot holds the one answer there is for its key,   *)
(* so the slots, and with them the report, are those of a single loop.     *)
LEMMA ReportingSuffices == Reporting => ScheduleFree
<1> SUFFICES ASSUME Reporting, phase = "reported", ~limited
             PROVE  report = IF Failing = {} THEN [verdict |-> "linearizable", key |-> 0]
                             ELSE [verdict |-> "not linearizable",
                                   key |-> CHOOSE i \in Failing : \A j \in Failing : i <= j]
  BY DEF ScheduleFree
<1>1. Underway /\ filled = DOMAIN keys /\ DOMAIN keys = 1..Len(keys) /\ Len(keys) \in Nat
  BY DEF Reporting, Searching, NothingHidden, Underway
<1>2. \A i \in DOMAIN keys : results[i] = Exactly(byKey[i])
  BY <1>1 DEF Reporting, SlotsTrue, Searched
<1>3. \A i \in DOMAIN keys : results[i] \in {"linearizable", "not linearizable"}
  BY <1>2 DEF Exactly
<1>4. Failing = {i \in DOMAIN keys : results[i] = "not linearizable"}
  BY <1>2 DEF Failing
<1>5. report = Summary
  BY DEF Reporting, SlotsTrue
<1>6. CASE Failing = {}
  <2>1. ~ Seen("not linearizable") /\ ~ Seen("unknown")
    BY <1>3, <1>4, <1>6 DEF Seen
  <2> QED BY <1>5, <1>6, <2>1 DEF Summary, WorstFirst
<1>7. CASE Failing # {}
  <2> DEFINE first == CHOOSE i \in Failing : \A j \in Failing : i <= j
  <2>1. Seen("not linearizable")
    BY <1>4, <1>7 DEF Seen
  <2>2. \A i \in Failing : i \in 1..Len(keys)
    BY <1>1, <1>4
  <2>3. \A i \in Failing : i \in Nat
    BY <1>1, <2>2
  <2>4. \E m \in Failing : \A k \in Failing : m <= k
    BY <1>7, <2>3, LeastNumber
  <2>5. first \in Failing /\ \A j \in Failing : first <= j
    BY <2>4
  <2> DEFINE other == FirstWith("not linearizable")
  <2>6. other \in Failing /\ \A j \in Failing : other <= j
    BY <1>1, <1>4, <2>1, FirstWithIs
  <2> HIDE DEF first, other
  <2>7. other = first
    BY <2>3, <2>5, <2>6
  <2>8. FirstWith("not linearizable") = first
    BY <2>7 DEF other
  <2>9. report = [verdict |-> "not linearizable", key |-> first]
    BY <1>5, <2>1, <2>8 DEF Summary, WorstFirst
  <2> QED BY <1>7, <2>9 DEF first
<1> QED BY <1>6, <1>7

(* "Nothing about the answer depends on which key finished first": without *)
(* a budget, whatever the number of goroutines and however they are        *)
(* scheduled, the report is that of one loop over the sorted keys          *)
(* (checker.go:170-175).                                                   *)
THEOREM AnswerIsScheduleFree == Spec => []ScheduleFree
<1> QED BY ReportingInit, ReportingNext, ReportingSuffices, PTL DEF Spec

-----------------------------------------------------------------------------
(***************************************************************************)
(* Splitting by key.  How one register's operations are served: q names    *)
(* them in an order that respects real time, c the values between them.    *)
(***************************************************************************)
Serves(g, n, k, m, q, c) ==
  /\ m \in Nat
  /\ q \in [1..m -> 1..n]
  /\ \A i \in 1..m : g[q[i]].key = k
  /\ \A i, j \in 1..m : q[i] = q[j] => i = j
  /\ \A a \in 1..n : g[a].key = k => \E i \in 1..m : q[i] = a
  /\ \A i, j \in 1..m : i < j => ~Precedes(g[q[j]], g[q[i]])
  /\ Chain(g, m, q, c)

Served(g, n, k) == \E m, q, c : Serves(g, n, k, m, q, c)

(* One register's operations, where they lie in the history.               *)
Lies(g, n, k, m, f) ==
  /\ m \in Nat
  /\ f \in [1..m -> 1..n]
  /\ \A i \in 1..m : g[f[i]].key = k
  /\ \A i, j \in 1..m : i < j => f[i] < f[j]
  /\ \A i, j \in 1..m : f[i] = f[j] => i = j
  /\ \A a \in 1..n : g[a].key = k => \E i \in 1..m : f[i] = a

Copies(L, g, m, f) == List(L, m) /\ \A i \in 1..m : L[i] = g[f[i]]

LEMMA ByKeyLies ==
  ASSUME NEW g, NEW n, List(g, n), NEW k
  PROVE  \E m, f : Lies(g, n, k, m, f) /\ Copies(ByKey(g, k), g, m, f)
<1> DEFINE S == {i \in DOMAIN g : g[i].key = k}
<1>1. n \in Nat /\ DOMAIN g = 1..n
  BY DEF List
<1>2. S \in SUBSET (1..n) /\ IsFiniteSet(1..n)
  BY <1>1, Numbered
<1>3. \A i \in S : g[i].key = k
  OBVIOUS
<1>4. \A a \in 1..n : g[a].key = k => a \in S
  BY <1>1
<1>5. ByKey(g, k) = Kept(g, S)
  BY DEF ByKey
<1> HIDE DEF S
<1>6. S \in SUBSET Nat /\ IsFiniteSet(S)
  <2>1. S \in SUBSET Nat
    BY <1>1, <1>2
  <2>2. IsFiniteSet(S)
    BY <1>2, FS_Subset
  <2> QED BY <2>1, <2>2
<1>7. \E m \in Nat : \E f \in [1..m -> S] :
           /\ \A j, i \in 1..m : j < i => f[j] < f[i]
           /\ \A i \in S : \E j \in 1..m : f[j] = i
           /\ Kept(g, S) = LaidOut(g, f, m)
           /\ m = Cardinality(S)
  BY <1>6, KeptLaysOut
<1>8. PICK m \in Nat : \E f \in [1..m -> S] :
           /\ \A j, i \in 1..m : j < i => f[j] < f[i]
           /\ \A i \in S : \E j \in 1..m : f[j] = i
           /\ Kept(g, S) = LaidOut(g, f, m)
  BY <1>7
<1>9. PICK f \in [1..m -> S] :
           /\ \A j, i \in 1..m : j < i => f[j] < f[i]
           /\ \A i \in S : \E j \in 1..m : f[j] = i
           /\ Kept(g, S) = LaidOut(g, f, m)
  BY <1>8
<1>10. \A i \in 1..m : f[i] \in S /\ f[i] \in 1..n /\ f[i] \in Nat
  <2>1. \A i \in 1..m : f[i] \in S
    BY <1>9
  <2>2. \A i \in 1..m : f[i] \in 1..n
    BY <1>2, <2>1
  <2>3. \A i \in 1..m : f[i] \in Nat
    BY <1>6, <2>1
  <2> QED BY <2>1, <2>2, <2>3
<1>11. f \in [1..m -> 1..n]
  BY <1>9, <1>10
<1>12. \A i, j \in 1..m : f[i] = f[j] => i = j
  <2> SUFFICES ASSUME NEW i \in 1..m, NEW j \in 1..m, f[i] = f[j] PROVE i = j
    OBVIOUS
  <2>1. ~ (f[i] < f[j]) /\ ~ (f[j] < f[i])
    BY <1>10
  <2>2. ~ (i < j) /\ ~ (j < i)
    BY <1>9, <2>1
  <2> QED BY <2>2
<1>13. Lies(g, n, k, m, f)
  <2>1. \A i \in 1..m : g[f[i]].key = k
    BY <1>3, <1>10
  <2>2. \A a \in 1..n : g[a].key = k => \E i \in 1..m : f[i] = a
    BY <1>4, <1>9
  <2>3. m \in Nat
    BY <1>8
  <2>4. \A i, j \in 1..m : i < j => f[i] < f[j]
    BY <1>9
  <2> QED BY <2>3, <2>4, <1>11, <1>12, <2>1, <2>2 DEF Lies
<1>14. List(ByKey(g, k), m)
  <2> DEFINE X == {g[f[i]] : i \in 1..m}
  <2>1. \A i \in 1..m : g[f[i]] \in X
    OBVIOUS
  <2> HIDE DEF X
  <2>2. List(LaidOut(g, f, m), m)
    BY <2>1, LaidOutList
  <2> QED BY <1>5, <1>9, <2>2
<1>15. \A i \in 1..m : ByKey(g, k)[i] = g[f[i]]
  BY <1>5, <1>9 DEF LaidOut
<1>16. Copies(ByKey(g, k), g, m, f)
  BY <1>14, <1>15 DEF Copies
<1> QED BY <1>13, <1>16

(* A register's operations have a linearization just when it can be served. *)
LEMMA ServedIs ==
  ASSUME NEW g, NEW n, List(g, n), NEW k
  PROVE  Linearizable(ByKey(g, k)) <=> Served(g, n, k)
<1> DEFINE L == ByKey(g, k)
<1>0. PICK m, f : Lies(g, n, k, m, f) /\ Copies(L, g, m, f)
  BY ByKeyLies
<1>1. Lies(g, n, k, m, f) /\ List(L, m) /\ \A i \in 1..m : L[i] = g[f[i]]
  BY <1>0 DEF Copies
<1> HIDE DEF L
<1>2. m \in Nat
  BY <1>1 DEF Lies
<1>3. ASSUME Linearizable(L) PROVE Served(g, n, k)
  <2>1. PICK p, c : Once(m, p) /\ InTime(L, m, p) /\ Chain(L, m, p, c)
    BY <1>1, <1>3, LinearizableIff
  <2>2. \A i \in 1..m : \E j \in 1..m : p[j] = i
    BY <1>2, <2>1, OnceOnto
  <2>3. p \in [1..m -> 1..m] /\ \A i, j \in 1..m : p[i] = p[j] => i = j
    BY <2>1 DEF Once
  <2> DEFINE q == [i \in 1..m |-> f[p[i]]]
  <2>4. \A i \in 1..m : q[i] = f[p[i]] /\ p[i] \in 1..m /\ L[p[i]] = g[q[i]]
    <3>1. \A i \in 1..m : q[i] = f[p[i]] /\ p[i] \in 1..m
      BY <2>3
    <3> HIDE DEF q
    <3> QED BY <1>1, <3>1
  <2>5. q \in [1..m -> 1..n]
    <3>1. \A i \in 1..m : f[p[i]] \in 1..n
      BY <1>1, <2>3 DEF Lies
    <3> QED BY <3>1
  <2> HIDE DEF q
  <2>6. \A i \in 1..m : g[q[i]].key = k
    BY <1>1, <2>4 DEF Lies
  <2>7. \A i, j \in 1..m : q[i] = q[j] => i = j
    BY <1>1, <2>3, <2>4 DEF Lies
  <2>8. ASSUME NEW a \in 1..n, g[a].key = k PROVE \E i \in 1..m : q[i] = a
    <3>1. PICK b \in 1..m : f[b] = a
      BY <1>1, <2>8 DEF Lies
    <3>2. PICK i \in 1..m : p[i] = b
      BY <2>2
    <3> QED BY <2>4, <3>1, <3>2
  <2>9. \A i, j \in 1..m : i < j => ~Precedes(g[q[j]], g[q[i]])
    BY <2>1, <2>4 DEF InTime
  <2>10. Chain(g, m, q, c)
    BY <2>1, <2>4 DEF Chain
  <2>11. Serves(g, n, k, m, q, c)
    BY <1>2, <2>5, <2>6, <2>7, <2>8, <2>9, <2>10 DEF Serves
  <2> QED BY <2>11 DEF Served
<1>4. ASSUME Served(g, n, k) PROVE Linearizable(L)
  <2>1. PICK l, q, c : Serves(g, n, k, l, q, c)
    BY <1>4 DEF Served
  <2>2. l \in Nat /\ q \in [1..l -> 1..n]
    BY <2>1 DEF Serves
  <2>3. \A i \in 1..l : \E j \in 1..m : f[j] = q[i]
    BY <1>1, <2>1, <2>2 DEF Lies, Serves
  <2> DEFINE p == [i \in 1..l |-> CHOOSE j \in 1..m : f[j] = q[i]]
  <2>4. p \in [1..l -> 1..m] /\ \A i \in 1..l : p[i] \in 1..m /\ f[p[i]] = q[i]
    BY <2>3
  <2> HIDE DEF p
  <2>5. \A i, j \in 1..l : p[i] = p[j] => i = j
    BY <2>1, <2>4 DEF Serves
  <2>6. ASSUME NEW j \in 1..m PROVE \E i \in 1..l : p[i] = j
    <3>1. f[j] \in 1..n /\ g[f[j]].key = k
      BY <1>1, <2>6 DEF Lies
    <3>2. PICK i \in 1..l : q[i] = f[j]
      BY <2>1, <3>1 DEF Serves
    <3>3. f[p[i]] = f[j] /\ p[i] \in 1..m
      BY <2>4, <3>2
    <3> QED BY <1>1, <3>3 DEF Lies
  <2>7. Renumbers(p, l, m)
    BY <2>4, <2>5, <2>6 DEF Renumbers
  <2>8. l = m
    BY <1>2, <2>2, <2>7, SameLength
  <2>9. Once(m, p)
    BY <2>4, <2>5, <2>8 DEF Once
  <2>10. \A i \in 1..m : L[p[i]] = g[q[i]]
    BY <1>1, <2>4, <2>8
  <2>11. InTime(L, m, p)
    BY <2>1, <2>8, <2>10 DEF InTime, Serves
  <2>12. Chain(L, m, p, c)
    BY <2>1, <2>8, <2>10 DEF Chain, Serves
  <2> QED BY <1>1, <2>9, <2>11, <2>12, LinearizableIff
<1> QED BY <1>3, <1>4 DEF L

(* A register nothing was asked of is served by doing nothing.             *)
LEMMA IdleServed ==
  ASSUME NEW g, NEW n, List(g, n), NEW k, k \notin Keys(g)
  PROVE  Served(g, n, k)
<1> DEFINE q == [i \in 1..0 |-> 1]
           c == [i \in {1} |-> InitialValue]
<1>1. 1..0 = {} /\ 0 \in Nat /\ c[1] = InitialValue
  OBVIOUS
<1>2. \A a \in 1..n : g[a].key # k
  BY DEF List, Keys
<1>3. q \in [1..0 -> 1..n]
  BY <1>1
<1> HIDE DEF q, c
<1>4. Chain(g, 0, q, c)
  BY <1>1 DEF Chain
<1>5. Serves(g, n, k, 0, q, c)
  BY <1>1, <1>2, <1>3, <1>4 DEF Serves
<1> QED BY <1>5 DEF Served

-----------------------------------------------------------------------------
(* A list that replays as it lies.                                         *)
Runs(L, m, c) ==
  /\ c[1] = InitialValue
  /\ \A i \in 1..m : Fits(c[i], L[i]) /\ c[i+1] = After(c[i], L[i])

LEMMA AsItLies ==
  ASSUME NEW L, NEW m, List(L, m)
  PROVE  ReplaysAsIs(L) <=> \E c : Runs(L, m, c)
<1> DEFINE p == [i \in DOMAIN L |-> i]
<1>1. m \in Nat /\ DOMAIN L = 1..m /\ \A i \in 1..m : p[i] = i
  BY DEF List
<1>2. ReplaysAsIs(L) <=> Replays(L, Frames(L, p).frames, Frames(L, p).final)
  BY DEF ReplaysAsIs
<1> HIDE DEF p
<1>3. \A c : Chain(L, m, p, c) <=> Runs(L, m, c)
  BY <1>1 DEF Chain, Runs
<1>4. Replays(L, Frames(L, p).frames, Frames(L, p).final) => \E c : Chain(L, m, p, c)
  BY ReplayGivesChain
<1>5. (\E c : Chain(L, m, p, c)) => Replays(L, Frames(L, p).frames, Frames(L, p).final)
  BY ChainReplays
<1> QED BY <1>2, <1>3, <1>4, <1>5

(* One order of the whole history serves every register.                   *)
LEMMA WholeServesEach ==
  ASSUME NEW g, NEW n, List(g, n), LinearizableAcrossKeys(g), NEW k \in Keys(g)
  PROVE  Served(g, n, k)
<1>1. n \in Nat /\ DOMAIN g = 1..n
  BY DEF List
<1>2. PICK p \in Orders(g) :
        /\ \A i, j \in DOMAIN g : i < j => ~Precedes(InOrder(g, p)[j], InOrder(g, p)[i])
        /\ ReplaysAsIs(ByKey(InOrder(g, p), k))
  BY DEF LinearizableAcrossKeys
<1> DEFINE o == InOrder(g, p)
<1>3. Once(n, p)
  BY <1>1, <1>2 DEF Orders, Once
<1>4. \A i \in 1..n : p[i] \in 1..n
  BY <1>3 DEF Once
<1>5. List(o, n) /\ \A i \in 1..n : o[i] = g[p[i]]
  <2> DEFINE X == {g[p[i]] : i \in 1..n}
  <2>1. DOMAIN o = 1..n /\ o = [i \in 1..n |-> o[i]] /\ \A i \in 1..n : o[i] = g[p[i]] /\ o[i] \in X
    BY <1>1 DEF InOrder
  <2> HIDE DEF o, X
  <2>2. List(o, n)
    BY <1>1, <2>1, MadeList
  <2> QED BY <2>1, <2>2
<1>6. \A a \in 1..n : \E i \in 1..n : p[i] = a
  BY <1>1, <1>3, OnceOnto
<1>7. (\A i, j \in 1..n : i < j => ~Precedes(o[j], o[i])) /\ ReplaysAsIs(ByKey(o, k))
  BY <1>1, <1>2
<1> HIDE DEF o
<1> DEFINE L == ByKey(o, k)
<1>8. PICK m, f : Lies(o, n, k, m, f) /\ Copies(L, o, m, f)
  BY <1>5, ByKeyLies
<1>9. ReplaysAsIs(L)
  BY <1>7
<1> HIDE DEF L
<1>10. m \in Nat /\ List(L, m) /\ \A i \in 1..m : L[i] = o[f[i]] /\ f[i] \in 1..n
  BY <1>8 DEF Lies, Copies
<1>11. PICK c : Runs(L, m, c)
  BY <1>9, <1>10, AsItLies
<1> DEFINE q == [i \in 1..m |-> p[f[i]]]
<1>12. \A i \in 1..m : q[i] = p[f[i]]
  OBVIOUS
<1>13. q \in [1..m -> 1..n]
  <2>1. \A i \in 1..m : p[f[i]] \in 1..n
    BY <1>4, <1>10
  <2> QED BY <2>1
<1> HIDE DEF q
<1>14. \A i \in 1..m : g[q[i]] = L[i] /\ g[q[i]] = o[f[i]]
  BY <1>5, <1>10, <1>12
<1>15. \A i \in 1..m : g[q[i]].key = k
  BY <1>8, <1>14 DEF Lies
<1>16. \A i, j \in 1..m : q[i] = q[j] => i = j
  BY <1>3, <1>8, <1>10, <1>12 DEF Once, Lies
<1>17. ASSUME NEW a \in 1..n, g[a].key = k PROVE \E i \in 1..m : q[i] = a
  <2>1. PICK b \in 1..n : p[b] = a
    BY <1>6
  <2>2. o[b].key = k
    BY <1>5, <1>17, <2>1
  <2>3. PICK i \in 1..m : f[i] = b
    BY <1>8, <2>2 DEF Lies
  <2> QED BY <1>12, <2>1, <2>3
<1>18. \A i, j \in 1..m : i < j => ~Precedes(g[q[j]], g[q[i]])
  BY <1>7, <1>8, <1>10, <1>14 DEF Lies
<1>19. Chain(g, m, q, c)
  BY <1>11, <1>14 DEF Chain, Runs
<1>20. Serves(g, n, k, m, q, c)
  BY <1>10, <1>13, <1>15, <1>16, <1>17, <1>18, <1>19 DEF Serves
<1> QED BY <1>20 DEF Served

-----------------------------------------------------------------------------
(* A list of m numbers up to m, each larger than the one before.           *)
LEMMA Climbing ==
  ASSUME NEW m \in Nat, NEW u \in [1..m -> 1..m], \A i, j \in 1..m : i < j => u[i] < u[j]
  PROVE  \A i \in 1..m : u[i] = i
<1>1. \A i \in 1..m : u[i] \in 1..m /\ u[i] \in Nat
  OBVIOUS
<1>2. ASSUME NEW w, \A i \in 1..m : w[i] \in 1..m, \A i, j \in 1..m : i < j => w[i] < w[j]
      PROVE  \A i \in 1..m : i <= w[i]
  <2> DEFINE T == {i \in 1..m : ~ (i <= w[i])}
  <2> SUFFICES ASSUME T # {} PROVE FALSE
    OBVIOUS
  <2>1. T \in SUBSET Nat
    OBVIOUS
  <2>2. PICK i \in T : \A j \in T : i <= j
    BY <2>1, LeastNumber
  <2>3. i \in 1..m /\ ~ (i <= w[i]) /\ w[i] \in 1..m
    BY <1>2, <2>2
  <2>4. i - 1 \in 1..m /\ i - 1 < i /\ ~ (i <= i - 1)
    BY <2>3
  <2>5. i - 1 <= w[i - 1]
    BY <2>2, <2>4
  <2>6. w[i - 1] < w[i] /\ w[i - 1] \in 1..m
    BY <1>2, <2>3, <2>4
  <2> HIDE DEF T
  <2>7. \A a, b, d \in Int : a - 1 <= b /\ b < d => a <= d
    OBVIOUS
  <2>8. i \in Int /\ w[i - 1] \in Int /\ w[i] \in Int
    <3>1. \A a \in 1..m : a \in Int
      OBVIOUS
    <3> QED BY <2>3, <2>6, <3>1
  <2> QED BY <2>3, <2>5, <2>6, <2>7, <2>8
<1>3. \A i \in 1..m : i <= u[i]
  BY <1>1, <1>2
<1> DEFINE v == [i \in 1..m |-> m + 1 - u[m + 1 - i]]
<1>4. ASSUME NEW i \in 1..m PROVE v[i] = m + 1 - u[m + 1 - i] /\ v[i] \in 1..m /\ m + 1 - i \in 1..m
  <2>1. m + 1 - i \in 1..m
    OBVIOUS
  <2>2. u[m + 1 - i] \in 1..m
    BY <1>1, <2>1
  <2>3. v[i] = m + 1 - u[m + 1 - i]
    OBVIOUS
  <2> QED BY <2>1, <2>2, <2>3
<1> HIDE DEF v
<1>5. ASSUME NEW i \in 1..m, NEW j \in 1..m, i < j PROVE v[i] < v[j]
  <2>1. m + 1 - j < m + 1 - i /\ m + 1 - j \in 1..m /\ m + 1 - i \in 1..m
    BY <1>5
  <2>2. u[m + 1 - j] < u[m + 1 - i] /\ u[m + 1 - j] \in Nat /\ u[m + 1 - i] \in Nat
    BY <1>1, <2>1
  <2> QED BY <1>4, <2>2
<1>6. \A i \in 1..m : i <= v[i]
  BY <1>2, <1>4, <1>5
<1> TAKE i \in 1..m
<1>7. m + 1 - i \in 1..m /\ m + 1 - (m + 1 - i) = i
  OBVIOUS
<1>8. m + 1 - i <= m + 1 - u[i]
  <2>1. m + 1 - i <= v[m + 1 - i]
    BY <1>6, <1>7
  <2>2. v[m + 1 - i] = m + 1 - u[m + 1 - (m + 1 - i)]
    BY <1>4, <1>7
  <2> QED BY <1>7, <2>1, <2>2
<1> QED BY <1>1, <1>3, <1>8

(* Among the first of some numbers there is a largest.                     *)
LEMMA LargestSoFar ==
  ASSUME NEW n \in Nat, NEW x, \A i \in 1..n : x[i] \in Int
  PROVE  \A i \in 1..n : \E j \in 1..i : \A l \in 1..i : x[l] <= x[j]
<1> DEFINE T == {i \in 1..n : ~ \E j \in 1..i : \A l \in 1..i : x[l] <= x[j]}
<1> SUFFICES ASSUME T # {} PROVE FALSE
  OBVIOUS
<1>1. T \in SUBSET Nat
  OBVIOUS
<1>2. PICK i \in T : \A j \in T : i <= j
  BY <1>1, LeastNumber
<1>3. i \in 1..n /\ i \in 1..i /\ x[i] \in Int /\ x[i] <= x[i]
  BY <1>2
<1>4. ~ \E j \in 1..i : \A l \in 1..i : x[l] <= x[j]
  BY <1>2
<1>5. i # 1
  <2> SUFFICES ASSUME i = 1 PROVE FALSE
    OBVIOUS
  <2>1. \A l \in 1..i : l = i
    OBVIOUS
  <2> QED BY <1>3, <1>4, <2>1
<1>6. i - 1 \in 1..n /\ ~ (i <= i - 1) /\ \A l \in 1..i : l = i \/ l \in 1..(i - 1)
  BY <1>3, <1>5
<1>7. i - 1 \notin T
  BY <1>2, <1>6
<1>8. PICK j \in 1..(i - 1) : \A l \in 1..(i - 1) : x[l] <= x[j]
  BY <1>6, <1>7
<1> HIDE DEF T
<1>9. j \in 1..i /\ j \in 1..n /\ x[j] \in Int
  BY <1>3, <1>6, <1>8
<1>10. CASE x[i] <= x[j]
  BY <1>4, <1>6, <1>8, <1>9, <1>10
<1>11. CASE ~ (x[i] <= x[j])
  <2>1. ASSUME NEW l \in 1..i PROVE x[l] <= x[i]
    <3>1. CASE l = i
      BY <1>3, <3>1
    <3>2. CASE l # i
      <4>1. l \in 1..(i - 1) /\ l \in 1..n
        BY <1>3, <1>6, <3>2
      <4>2. x[l] <= x[j] /\ x[l] \in Int
        BY <1>8, <4>1
      <4> QED BY <1>3, <1>9, <1>11, <4>2
    <3> QED BY <3>1, <3>2
  <2> QED BY <1>3, <1>4, <2>1
<1> QED BY <1>10, <1>11

-----------------------------------------------------------------------------
(***************************************************************************)
(* Putting the registers' orders together.  Each operation is given a      *)
(* point in time: the latest invocation up to it in its register's order.  *)
(* It lies between the operation's invocation and its completion, and      *)
(* never falls along the order.                                            *)
(***************************************************************************)
Timely(g, n) ==
  \A a \in 1..n :
    /\ g[a].invoke \in Int /\ g[a].complete \in Int
    /\ g[a].invoke <= g[a].complete
    /\ g[a].invoke = g[a].complete => ZeroWidth(g[a])

Untied(g, n) ==
  \A a, b \in 1..n :
    a # b /\ ZeroWidth(g[a]) /\ ZeroWidth(g[b]) => g[a].invoke # g[b].invoke

Pointed(g, m, q, t) ==
  /\ \A i \in 1..m : /\ t[i] \in Int /\ g[q[i]].invoke <= t[i] /\ t[i] <= g[q[i]].complete
                     /\ t[i] = g[q[i]].complete => ZeroWidth(g[q[i]])
  /\ \A i, j \in 1..m : i < j => t[i] <= t[j] /\ (t[i] = t[j] => ~ZeroWidth(g[q[j]]))

LEMMA PointsExist ==
  ASSUME NEW g, NEW n, List(g, n), Timely(g, n), NEW k, NEW m, NEW q, NEW c,
         Serves(g, n, k, m, q, c)
  PROVE  \E t : Pointed(g, m, q, t)
<1>1. m \in Nat /\ \A i \in 1..m : q[i] \in 1..n
  BY DEF Serves
<1> DEFINE x == [i \in 1..m |-> g[q[i]].invoke]
           y == [i \in 1..m |-> g[q[i]].complete]
<1>2. \A i \in 1..m : /\ x[i] \in Int /\ y[i] \in Int /\ x[i] <= y[i]
                      /\ x[i] = y[i] => ZeroWidth(g[q[i]])
                      /\ x[i] = g[q[i]].invoke /\ y[i] = g[q[i]].complete
  BY <1>1 DEF Timely
<1>3. \A i, j \in 1..m : i < j => ~ (y[j] <= x[i])
  BY DEF Serves, Precedes
<1> HIDE DEF x, y
<1>4. \A i \in 1..m : \E j \in 1..i : \A l \in 1..i : x[l] <= x[j]
  BY <1>1, <1>2, LargestSoFar
<1> DEFINE last(i) == CHOOSE j \in 1..i : \A l \in 1..i : x[l] <= x[j]
           t == [i \in 1..m |-> x[last(i)]]
<1>5. \A i \in 1..m : last(i) \in 1..i /\ \A l \in 1..i : x[l] <= x[last(i)]
  BY <1>4
<1>6. \A i \in 1..m : t[i] = x[last(i)]
  OBVIOUS
<1> HIDE DEF last, t
<1>7. \A i \in 1..m : \A l \in 1..i : l \in 1..m
  BY <1>1
<1>8. \A i \in 1..m : last(i) \in 1..m /\ t[i] \in Int
  BY <1>2, <1>5, <1>6, <1>7
<1>9. ASSUME NEW i \in 1..m
      PROVE  x[i] <= t[i] /\ t[i] <= y[i] /\ (t[i] = y[i] => ZeroWidth(g[q[i]]))
  <2>1. i \in 1..i
    OBVIOUS
  <2>2. x[i] <= t[i]
    BY <1>5, <1>6, <2>1
  <2>3. CASE last(i) = i
    <3>1. t[i] = x[i]
      BY <1>6, <2>3
    <3> QED BY <1>2, <2>2, <3>1
  <2>4. CASE last(i) # i
    <3>1. last(i) < i /\ last(i) \in 1..m
      BY <1>5, <1>8, <2>4
    <3>2. ~ (y[i] <= t[i])
      BY <1>3, <1>6, <3>1
    <3> QED BY <1>2, <1>8, <2>2, <3>2
  <2> QED BY <2>3, <2>4
<1>10. ASSUME NEW i \in 1..m, NEW j \in 1..m, i < j
       PROVE  t[i] <= t[j] /\ (t[i] = t[j] => ~ZeroWidth(g[q[j]]))
  <2>1. last(i) \in 1..j
    BY <1>5, <1>10
  <2>2. t[i] <= t[j]
    BY <1>5, <1>6, <2>1
  <2>3. ASSUME t[i] = t[j], ZeroWidth(g[q[j]]) PROVE FALSE
    <3>1. x[j] = y[j]
      BY <1>2, <2>3 DEF ZeroWidth
    <3>2. t[i] = y[j]
      BY <1>2, <1>8, <1>9, <2>3, <3>1
    <3>3. last(i) < j /\ last(i) \in 1..m
      BY <1>5, <1>8, <1>10
    <3>4. ~ (y[j] <= t[i])
      BY <1>3, <1>6, <3>3
    <3> QED BY <1>2, <3>2, <3>4
  <2> QED BY <2>2, <2>3
<1>11. Pointed(g, m, q, t)
  BY <1>2, <1>8, <1>9, <1>10 DEF Pointed
<1> QED BY <1>11

(* A register's order with its values and its points.                      *)
IsPlan(g, n, k, w) == Serves(g, n, k, w.m, w.q, w.c) /\ Pointed(g, w.m, w.q, w.t)

Plan(g, n, k) == CHOOSE w : IsPlan(g, n, k, w)

LEMMA PlansExist ==
  ASSUME NEW g, NEW n, List(g, n), Timely(g, n), NEW k, Served(g, n, k)
  PROVE  IsPlan(g, n, k, Plan(g, n, k))
<1>1. PICK m, q, c : Serves(g, n, k, m, q, c)
  BY DEF Served
<1>2. PICK t : Pointed(g, m, q, t)
  BY <1>1, PointsExist
<1> DEFINE w == [m |-> m, q |-> q, c |-> c, t |-> t]
<1>3. w.m = m /\ w.q = q /\ w.c = c /\ w.t = t
  OBVIOUS
<1> HIDE DEF w
<1>4. IsPlan(g, n, k, w)
  BY <1>1, <1>2, <1>3 DEF IsPlan
<1> QED BY <1>4 DEF Plan

(* An operation's place in its register's order, its point, and whether it *)
(* has a width.                                                            *)
Placing(g, n, y, pos, t) ==
  \A a, b \in 1..n :
    /\ pos[a] \in Nat /\ t[a] \in Int /\ y[a] \in Int
    /\ y[a] = y[b] <=> g[a].key = g[b].key
    /\ g[a].invoke <= t[a] /\ t[a] <= g[a].complete
    /\ t[a] = g[a].complete => ZeroWidth(g[a])
    /\ g[a].key = g[b].key =>
         /\ pos[a] = pos[b] => a = b
         /\ pos[a] < pos[b] => t[a] <= t[b] /\ (t[a] = t[b] => ~ZeroWidth(g[b]))

Width(o) == IF ZeroWidth(o) THEN 0 ELSE 1

Earlier(t, z, y, pos, a, b) ==
  \/ t[a] < t[b]
  \/ t[a] = t[b] /\ z[a] < z[b]
  \/ t[a] = t[b] /\ z[a] = z[b] /\ y[a] < y[b]
  \/ t[a] = t[b] /\ z[a] = z[b] /\ y[a] = y[b] /\ pos[a] < pos[b]

Together(n, t, z, y, pos) ==
  {e \in (1..n) \X (1..n) : Earlier(t, z, y, pos, e[1], e[2])}

LEMMA TogetherIs ==
  ASSUME NEW n, NEW t, NEW z, NEW y, NEW pos, NEW a \in 1..n, NEW b \in 1..n
  PROVE  <<a, b>> \in Together(n, t, z, y, pos) <=> Earlier(t, z, y, pos, a, b)
BY DEF Together

LEMMA WidthIs == ASSUME NEW o PROVE Width(o) \in {0, 1} /\ (Width(o) = 0 <=> ZeroWidth(o))
BY DEF Width

(* The operations in the order of their points, at one point the           *)
(* instantaneous one first: an order that keeps every register's own and   *)
(* real time.                                                              *)
LEMMA TogetherOrders ==
  ASSUME NEW g, NEW n \in Nat, NEW y, NEW pos, NEW t,
         Timely(g, n), Untied(g, n), Placing(g, n, y, pos, t)
  PROVE  LET z == [a \in 1..n |-> Width(g[a])]
             R == Together(n, t, z, y, pos)
         IN  /\ Orders2(R, 1..n)
             /\ \A a, b \in 1..n : g[a].key = g[b].key /\ pos[a] < pos[b] => <<a, b>> \in R
             /\ \A a, b \in 1..n : a # b /\ Precedes(g[a], g[b]) => <<a, b>> \in R
<1> DEFINE z == [a \in 1..n |-> Width(g[a])]
           R == Together(n, t, z, y, pos)
<1>1. \A a \in 1..n : /\ pos[a] \in Int /\ t[a] \in Int /\ y[a] \in Int
                      /\ z[a] \in {0, 1} /\ (z[a] = 0 <=> ZeroWidth(g[a]))
  <2>1. \A a \in 1..n : z[a] = Width(g[a])
    OBVIOUS
  <2>2. \A a \in 1..n : pos[a] \in Int /\ t[a] \in Int /\ y[a] \in Int
    BY DEF Placing
  <2> QED BY <2>1, <2>2, WidthIs
<1>2. \A a, b \in 1..n : <<a, b>> \in R <=>
           \/ t[a] < t[b]
           \/ t[a] = t[b] /\ z[a] < z[b]
           \/ t[a] = t[b] /\ z[a] = z[b] /\ y[a] < y[b]
           \/ t[a] = t[b] /\ z[a] = z[b] /\ y[a] = y[b] /\ pos[a] < pos[b]
  <2> HIDE DEF z
  <2>1. \A a, b \in 1..n : <<a, b>> \in R <=> Earlier(t, z, y, pos, a, b)
    BY TogetherIs
  <2> QED BY <2>1 DEF Earlier
<1> HIDE DEF R, z
<1>3. \A a \in 1..n : z[a] \in Int
  BY <1>1
<1>4. \A a, b \in 1..n : y[a] = y[b] /\ pos[a] = pos[b] => a = b
  BY DEF Placing
<1>5. Orders2(R, 1..n)
  <2>1. \A a \in 1..n : <<a, a>> \notin R
    BY <1>1, <1>2, <1>3
  <2>2. ASSUME NEW a \in 1..n, NEW b \in 1..n, NEW d \in 1..n, <<a, b>> \in R, <<b, d>> \in R
        PROVE  <<a, d>> \in R
    <3>1. t[a] \in Int /\ t[b] \in Int /\ t[d] \in Int /\ z[a] \in Int /\ z[b] \in Int /\ z[d] \in Int
      BY <1>1, <1>3
    <3>2. y[a] \in Int /\ y[b] \in Int /\ y[d] \in Int /\ pos[a] \in Int /\ pos[b] \in Int /\ pos[d] \in Int
      BY <1>1
    <3> QED BY <1>2, <2>2, <3>1, <3>2
  <2>3. ASSUME NEW a \in 1..n, NEW b \in 1..n, a # b
        PROVE  <<a, b>> \in R \/ <<b, a>> \in R
    <3>1. t[a] \in Int /\ t[b] \in Int /\ z[a] \in Int /\ z[b] \in Int
      BY <1>1, <1>3
    <3>2. y[a] \in Int /\ y[b] \in Int /\ pos[a] \in Int /\ pos[b] \in Int
      BY <1>1
    <3>3. ~ (y[a] = y[b] /\ pos[a] = pos[b])
      BY <1>4, <2>3
    <3> QED BY <1>2, <3>1, <3>2, <3>3
  <2> QED BY <2>1, <2>2, <2>3 DEF Orders2
<1>6. ASSUME NEW a \in 1..n, NEW b \in 1..n, g[a].key = g[b].key, pos[a] < pos[b]
      PROVE  <<a, b>> \in R
  <2>1. t[a] <= t[b] /\ (t[a] = t[b] => ~ZeroWidth(g[b])) /\ y[a] = y[b]
    BY <1>6 DEF Placing
  <2>2. t[a] \in Int /\ t[b] \in Int /\ z[a] \in {0, 1} /\ z[b] \in {0, 1}
        /\ (z[b] = 0 => ZeroWidth(g[b]))
    BY <1>1
  <2> QED BY <1>2, <1>6, <2>1, <2>2
<1>7. ASSUME NEW a \in 1..n, NEW b \in 1..n, a # b, Precedes(g[a], g[b])
      PROVE  <<a, b>> \in R
  <2>1. g[a].complete <= g[b].invoke
    BY <1>7 DEF Precedes
  <2>2. /\ g[a].invoke \in Int /\ g[a].complete \in Int /\ g[b].invoke \in Int
        /\ g[b].complete \in Int
    BY DEF Timely
  <2>3. t[a] <= g[a].complete /\ g[b].invoke <= t[b] /\ t[a] \in Int /\ t[b] \in Int
    BY DEF Placing
  <2>4. CASE t[a] # t[b]
    <3>1. t[a] < t[b]
      BY <2>1, <2>2, <2>3, <2>4
    <3> QED BY <1>2, <3>1
  <2>5. CASE t[a] = t[b]
    <3>1. t[a] = g[a].complete /\ g[a].complete = g[b].invoke
      BY <2>1, <2>2, <2>3, <2>5
    <3>2. ZeroWidth(g[a])
      BY <3>1 DEF Placing
    <3>3. ~ ZeroWidth(g[b])
      <4>1. ZeroWidth(g[b]) => g[a].invoke # g[b].invoke
        BY <1>7, <3>2 DEF Untied
      <4> QED BY <3>1, <3>2, <4>1 DEF ZeroWidth
    <3>4. z[a] = 0 /\ z[b] = 1
      BY <1>1, <3>2, <3>3
    <3> QED BY <1>2, <2>5, <3>4
  <2> QED BY <2>4, <2>5
<1> QED BY <1>5, <1>6, <1>7 DEF R, z

(* The plans of the registers give every operation its place and point.    *)
Planned(g, n, pos, t) ==
  \A a \in 1..n :
    LET w == Plan(g, n, g[a].key)
    IN  pos[a] \in 1..w.m /\ w.q[pos[a]] = a /\ t[a] = w.t[pos[a]]

LEMMA PlansPlace ==
  ASSUME NEW g, NEW n, List(g, n), NEW y, NEW pos, NEW t, Planned(g, n, pos, t),
         \A a \in 1..n : IsPlan(g, n, g[a].key, Plan(g, n, g[a].key)),
         \A a, b \in 1..n : y[a] \in Int /\ (y[a] = y[b] <=> g[a].key = g[b].key)
  PROVE  Placing(g, n, y, pos, t)
<1> SUFFICES ASSUME NEW a \in 1..n, NEW b \in 1..n
             PROVE  /\ pos[a] \in Nat /\ t[a] \in Int /\ y[a] \in Int
                    /\ y[a] = y[b] <=> g[a].key = g[b].key
                    /\ g[a].invoke <= t[a] /\ t[a] <= g[a].complete
                    /\ t[a] = g[a].complete => ZeroWidth(g[a])
                    /\ g[a].key = g[b].key =>
                         /\ pos[a] = pos[b] => a = b
                         /\ pos[a] < pos[b] => t[a] <= t[b] /\ (t[a] = t[b] => ~ZeroWidth(g[b]))
  BY DEF Placing
<1>1. PICK w : w = Plan(g, n, g[a].key)
  OBVIOUS
<1>2. w.m \in Nat /\ Pointed(g, w.m, w.q, w.t)
  BY <1>1 DEF IsPlan, Serves
<1>3. pos[a] \in 1..w.m /\ w.q[pos[a]] = a /\ t[a] = w.t[pos[a]]
  BY <1>1 DEF Planned
<1>4. /\ t[a] \in Int /\ g[a].invoke <= t[a] /\ t[a] <= g[a].complete
      /\ t[a] = g[a].complete => ZeroWidth(g[a])
  BY <1>2, <1>3 DEF Pointed
<1>5. pos[a] \in Nat
  BY <1>2, <1>3
<1>6. ASSUME g[a].key = g[b].key
      PROVE  /\ pos[a] = pos[b] => a = b
             /\ pos[a] < pos[b] => t[a] <= t[b] /\ (t[a] = t[b] => ~ZeroWidth(g[b]))
  <2>1. pos[b] \in 1..w.m /\ w.q[pos[b]] = b /\ t[b] = w.t[pos[b]]
    BY <1>1, <1>6 DEF Planned
  <2> QED BY <1>2, <1>3, <2>1 DEF Pointed
<1> QED BY <1>4, <1>5, <1>6

(* The order of the whole history serves a register as its own plan does.  *)
LEMMA WholeReplaysKey ==
  ASSUME NEW g, NEW n, List(g, n), NEW p, Once(n, p), NEW k, NEW w, IsPlan(g, n, k, w), NEW pos,
         \A a \in 1..n : g[a].key = k => pos[a] \in 1..w.m /\ w.q[pos[a]] = a,
         \A i, j \in 1..n : i < j /\ g[p[i]].key = k /\ g[p[j]].key = k => pos[p[i]] < pos[p[j]]
  PROVE  ReplaysAsIs(ByKey(InOrder(g, p), k))
<1> DEFINE o == InOrder(g, p)
<1>1. n \in Nat /\ DOMAIN g = 1..n
  BY DEF List
<1>2. \A i \in 1..n : p[i] \in 1..n
  BY DEF Once
<1>3. List(o, n) /\ \A i \in 1..n : o[i] = g[p[i]]
  <2> DEFINE X == {g[p[i]] : i \in 1..n}
  <2>1. DOMAIN o = 1..n /\ o = [i \in 1..n |-> o[i]] /\ \A i \in 1..n : o[i] = g[p[i]] /\ o[i] \in X
    BY <1>1 DEF InOrder
  <2> HIDE DEF o, X
  <2>2. List(o, n)
    BY <1>1, <2>1, MadeList
  <2> QED BY <2>1, <2>2
<1>4. \A a \in 1..n : \E i \in 1..n : p[i] = a
  BY <1>1, OnceOnto
<1> HIDE DEF o
<1> DEFINE L == ByKey(o, k)
<1>5. PICK m, f : Lies(o, n, k, m, f) /\ Copies(L, o, m, f)
  BY <1>3, ByKeyLies
<1> HIDE DEF L
<1>6. m \in Nat /\ List(L, m) /\ \A i \in 1..m : L[i] = o[f[i]] /\ f[i] \in 1..n
  BY <1>5 DEF Lies, Copies
<1>7. Serves(g, n, k, w.m, w.q, w.c)
  BY DEF IsPlan
<1>8. \A i \in 1..m : g[p[f[i]]].key = k /\ p[f[i]] \in 1..n
  <2>1. \A i \in 1..m : o[f[i]].key = k
    BY <1>5 DEF Lies
  <2> QED BY <1>2, <1>3, <1>6, <2>1
<1> DEFINE u == [i \in 1..m |-> pos[p[f[i]]]]
<1>9. \A i \in 1..m : u[i] = pos[p[f[i]]]
  OBVIOUS
<1>10. u \in [1..m -> 1..w.m]
  <2>1. \A i \in 1..m : pos[p[f[i]]] \in 1..w.m
    BY <1>8
  <2> QED BY <2>1
<1> HIDE DEF u
<1>11. w.m \in Nat /\ \A i \in 1..m : u[i] \in Nat
  BY <1>7, <1>10 DEF Serves
<1>12. \A i, j \in 1..m : i < j => u[i] < u[j]
  <2> SUFFICES ASSUME NEW i \in 1..m, NEW j \in 1..m, i < j PROVE u[i] < u[j]
    OBVIOUS
  <2>1. f[i] < f[j] /\ f[i] \in 1..n /\ f[j] \in 1..n
    BY <1>5, <1>6 DEF Lies
  <2>2. pos[p[f[i]]] < pos[p[f[j]]]
    BY <1>8, <2>1
  <2> QED BY <1>9, <2>2
<1>13. \A i, j \in 1..m : u[i] = u[j] => i = j
  <2> SUFFICES ASSUME NEW i \in 1..m, NEW j \in 1..m, u[i] = u[j] PROVE i = j
    OBVIOUS
  <2>1. ~ (u[i] < u[j]) /\ ~ (u[j] < u[i])
    BY <1>11
  <2>2. ~ (i < j) /\ ~ (j < i)
    BY <1>12, <2>1
  <2> QED BY <2>2
<1>14. ASSUME NEW i \in 1..w.m PROVE \E j \in 1..m : u[j] = i
  <2>1. w.q[i] \in 1..n /\ g[w.q[i]].key = k
    BY <1>7 DEF Serves
  <2>2. pos[w.q[i]] \in 1..w.m /\ w.q[pos[w.q[i]]] = w.q[i]
    BY <2>1
  <2>3. pos[w.q[i]] = i
    BY <1>7, <2>2 DEF Serves
  <2>4. PICK b \in 1..n : p[b] = w.q[i]
    BY <1>4, <2>1
  <2>5. o[b].key = k
    BY <1>3, <2>1, <2>4
  <2>6. PICK j \in 1..m : f[j] = b
    BY <1>5, <2>5 DEF Lies
  <2> QED BY <1>9, <2>3, <2>4, <2>6
<1>15. m = w.m
  <2>1. Renumbers(u, m, w.m)
    BY <1>10, <1>13, <1>14 DEF Renumbers
  <2> QED BY <1>6, <1>11, <2>1, SameLength
<1>16. \A i \in 1..m : u[i] = i
  BY <1>6, <1>10, <1>12, <1>15, Climbing
<1>17. \A i \in 1..m : L[i] = g[w.q[i]]
  <2> TAKE i \in 1..m
  <2>1. w.q[u[i]] = p[f[i]]
    BY <1>8, <1>9
  <2> QED BY <1>3, <1>6, <1>16, <2>1
<1>18. Runs(L, m, w.c)
  BY <1>7, <1>15, <1>17 DEF Runs, Serves, Chain
<1>19. ReplaysAsIs(L)
  BY <1>6, <1>18, AsItLies
<1> QED BY <1>19 DEF L, o

(* Orders of the registers one by one make an order of the whole.          *)
LEMMA EachServesWhole ==
  ASSUME NEW g, NEW n, List(g, n), Timely(g, n), Untied(g, n),
         \A k \in Keys(g) : Served(g, n, k),
         NEW y, \A a, b \in 1..n : y[a] \in Int /\ (y[a] = y[b] <=> g[a].key = g[b].key)
  PROVE  LinearizableAcrossKeys(g)
<1>1. n \in Nat /\ DOMAIN g = 1..n
  BY DEF List
<1>2. \A k \in Keys(g) : IsPlan(g, n, k, Plan(g, n, k))
  BY PlansExist
<1>3. \A a \in 1..n : g[a].key \in Keys(g)
  BY <1>1 DEF Keys
<1> DEFINE at(a) == CHOOSE i \in 1..Plan(g, n, g[a].key).m : Plan(g, n, g[a].key).q[i] = a
           pos == [a \in 1..n |-> at(a)]
           t == [a \in 1..n |-> Plan(g, n, g[a].key).t[at(a)]]
<1>4. Planned(g, n, pos, t)
  <2> SUFFICES ASSUME NEW a \in 1..n, NEW w, w = Plan(g, n, g[a].key)
               PROVE  pos[a] \in 1..w.m /\ w.q[pos[a]] = a /\ t[a] = w.t[pos[a]]
    BY DEF Planned
  <2>1. Serves(g, n, g[a].key, w.m, w.q, w.c)
    BY <1>2, <1>3 DEF IsPlan
  <2>2. \E i \in 1..w.m : w.q[i] = a
    BY <2>1 DEF Serves
  <2>3. at(a) \in 1..w.m /\ w.q[at(a)] = a
    BY <2>2
  <2> HIDE DEF at
  <2>4. pos[a] = at(a) /\ t[a] = w.t[at(a)]
    OBVIOUS
  <2> QED BY <2>3, <2>4
<1> HIDE DEF at, pos, t
<1>5. Placing(g, n, y, pos, t)
  BY <1>2, <1>3, <1>4, PlansPlace
<1> DEFINE z == [a \in 1..n |-> Width(g[a])]
           R == Together(n, t, z, y, pos)
<1>6. /\ Orders2(R, 1..n)
      /\ \A a, b \in 1..n : g[a].key = g[b].key /\ pos[a] < pos[b] => <<a, b>> \in R
      /\ \A a, b \in 1..n : a # b /\ Precedes(g[a], g[b]) => <<a, b>> \in R
  BY <1>1, <1>5, TogetherOrders
<1> HIDE DEF R, z
<1> DEFINE p == Unranked(R, 1..n)
<1>7. IsFiniteSet(1..n) /\ Cardinality(1..n) = n
  BY <1>1, Numbered
<1>8. /\ p \in [1..n -> 1..n]
      /\ \A i, j \in 1..n : p[i] = p[j] => i = j
      /\ \A i, j \in 1..n : i < j => <<p[i], p[j]>> \in R
  BY <1>6, <1>7, UnrankedOrders
<1> HIDE DEF p
<1>9. Once(n, p) /\ p \in Orders(g)
  BY <1>1, <1>8 DEF Once, Orders
<1>10. \A i, j \in 1..n : i < j => <<p[j], p[i]>> \notin R /\ p[i] # p[j] /\ p[i] \in 1..n /\ p[j] \in 1..n
  BY <1>6, <1>8 DEF Orders2
<1>11. \A i, j \in 1..n : i < j => ~Precedes(g[p[j]], g[p[i]])
  BY <1>6, <1>10
<1>12. \A i, j \in DOMAIN g : i < j => ~Precedes(InOrder(g, p)[j], InOrder(g, p)[i])
  <2>1. \A i \in 1..n : InOrder(g, p)[i] = g[p[i]]
    BY <1>1 DEF InOrder
  <2> QED BY <1>1, <1>11, <2>1
<1>13. ASSUME NEW k \in Keys(g) PROVE ReplaysAsIs(ByKey(InOrder(g, p), k))
  <2>1. PICK w : w = Plan(g, n, k)
    OBVIOUS
  <2>2. IsPlan(g, n, k, w)
    BY <1>2, <2>1
  <2>3. \A a \in 1..n : g[a].key = k => pos[a] \in 1..w.m /\ w.q[pos[a]] = a
    BY <1>4, <2>1 DEF Planned
  <2>4. w.m \in Nat
    BY <2>2 DEF IsPlan, Serves
  <2>5. ASSUME NEW i \in 1..n, NEW j \in 1..n, i < j, g[p[i]].key = k, g[p[j]].key = k
        PROVE  pos[p[i]] < pos[p[j]]
    <3>1. /\ <<p[j], p[i]>> \notin R /\ p[i] # p[j] /\ p[i] \in 1..n /\ p[j] \in 1..n
      BY <1>10, <2>5
    <3>2. ~ (pos[p[j]] < pos[p[i]])
      BY <1>6, <2>5, <3>1
    <3>3. pos[p[i]] # pos[p[j]]
      BY <2>3, <2>5, <3>1
    <3>4. pos[p[i]] \in Nat /\ pos[p[j]] \in Nat
      BY <2>3, <2>4, <2>5, <3>1
    <3> QED BY <3>2, <3>3, <3>4
  <2> QED BY <1>9, <2>2, <2>3, <2>5, WholeReplaysKey
<1> QED BY <1>9, <1>12, <1>13 DEF LinearizableAcrossKeys

-----------------------------------------------------------------------------
(***************************************************************************)
(* What is searched is the history given, one register at a time.  Beyond  *)
(* Reporting: the history was valid, and each key's operations are those   *)
(* of what is left of it.                                                  *)
(***************************************************************************)
Splitting ==
  /\ h \in Histories
  /\ phase \in {"searching", "reported"} =>
       /\ Validate(h)
       /\ keys = Split(h)
       /\ byKey = [i \in DOMAIN keys |-> ByKey(Live(h), keys[i])]

LEMMA SplittingInit == Init => Splitting
BY DEF Init, Splitting

LEMMA SplittingNext == Splitting /\ [Next]_vars => Splitting'
<1> SUFFICES ASSUME Splitting, [Next]_vars PROVE Splitting'
  OBVIOUS
<1>1. ASSUME UNCHANGED <<call, h, keys, byKey>>, phase' \in {"searching", "reported"} => phase \in {"searching", "reported"}
      PROVE  Splitting'
  BY <1>1 DEF Splitting, Split
<1>2. CASE Refuse
  BY <1>1, <1>2 DEF Refuse
<1>3. CASE Start
  <2>1. /\ phase = "given" /\ ~Refused(h) /\ h' = h /\ call' = call
        /\ keys' = Split(h) /\ byKey' = [i \in DOMAIN keys' |-> ByKey(Live(h), keys'[i])]
    BY <1>3 DEF Start
  <2>2. Validate(h) /\ Split(h)' = Split(h)
    BY <2>1 DEF Refused, Split
  <2> QED BY <2>1, <2>2 DEF Splitting
<1>4. CASE Report
  BY <1>1, <1>4 DEF Report
<1>5. ASSUME NEW w \in Workers, Work(w) PROVE Splitting'
  BY <1>1, <1>5 DEF Work, Take, Fill
<1>6. CASE UNCHANGED vars
  BY <1>1, <1>6 DEF vars
<1> QED BY <1>2, <1>3, <1>4, <1>5, <1>6 DEF Next

(* What is left of a valid history, and what validity says of it.          *)
LEMMA LiveIs ==
  ASSUME NEW g \in Histories, Validate(g)
  PROVE  \E n \in Nat : /\ List(Live(g), n)
                        /\ Keys(Live(g)) \subseteq Keys(g)
                        /\ Timely(Live(g), n)
                        /\ Timed(Live(g))
                        /\ ~Entangled(Live(g)) => Untied(Live(g), n)
                        /\ \A a \in 1..n : \E p \in DOMAIN KeyOrder : KeyOrder[p] = Live(g)[a].key
<1> DEFINE S == {i \in DOMAIN g : g[i].outcome # "fail"}
<1>1. Len(g) \in Nat /\ DOMAIN g = 1..Len(g) /\ \A i \in DOMAIN g : g[i] \in Operation
  BY HistoriesAssumption
<1>2. S \in SUBSET DOMAIN g /\ Live(g) = Kept(g, S)
  BY DEF Live, DropFailed
<1> HIDE DEF S
<1>3. IsFiniteSet(DOMAIN g)
  BY <1>1, Numbered
<1>4. IsFiniteSet(S)
  BY <1>2, <1>3, FS_Subset
<1>5. S \in SUBSET Nat
  BY <1>1, <1>2
<1>6. \E n \in Nat : \E f \in [1..n -> S] :
           /\ \A j, k \in 1..n : j < k => f[j] < f[k]
           /\ \A i \in S : \E k \in 1..n : f[k] = i
           /\ Kept(g, S) = LaidOut(g, f, n)
           /\ n = Cardinality(S)
  BY <1>4, <1>5, KeptLaysOut
<1>7. PICK n \in Nat : \E f \in [1..n -> S] :
           /\ \A j, k \in 1..n : j < k => f[j] < f[k]
           /\ Kept(g, S) = LaidOut(g, f, n)
  BY <1>6
<1>8. PICK f \in [1..n -> S] :
           /\ \A j, k \in 1..n : j < k => f[j] < f[k]
           /\ Kept(g, S) = LaidOut(g, f, n)
  BY <1>7
<1> DEFINE l == Live(g)
<1>9. \A a \in 1..n : f[a] \in DOMAIN g /\ f[a] \in Nat
  <2>1. \A a \in 1..n : f[a] \in S
    BY <1>8
  <2>2. \A a \in 1..n : f[a] \in DOMAIN g
    BY <1>2, <2>1
  <2>3. \A a \in 1..n : f[a] \in Nat
    BY <1>5, <2>1
  <2> QED BY <2>2, <2>3
<1>10. \A a, b \in 1..n : a # b => f[a] # f[b]
  <2> SUFFICES ASSUME NEW a \in 1..n, NEW b \in 1..n, f[a] = f[b] PROVE a = b
    OBVIOUS
  <2>1. ~ (f[a] < f[b]) /\ ~ (f[b] < f[a])
    BY <1>9
  <2>2. ~ (a < b) /\ ~ (b < a)
    BY <1>8, <2>1
  <2> QED BY <2>2
<1>11. List(l, n)
  <2>1. \A a \in 1..n : g[f[a]] \in Operation
    BY <1>1, <1>9
  <2> QED BY <1>2, <1>8, <2>1, LaidOutList
<1>12. \A a \in 1..n : l[a] = g[f[a]] /\ l[a] \in Operation
  BY <1>1, <1>2, <1>8, <1>9 DEF LaidOut
<1> HIDE DEF l
<1>13. DOMAIN l = 1..n
  BY <1>11 DEF List
<1>14. \A a \in 1..n : /\ l[a].invoke \in Int /\ l[a].complete \in Int /\ l[a].process \in Int
                       /\ ValidOp(l[a]) /\ l[a].invoke < Pending
  <2> TAKE a \in 1..n
  <2>1. ValidOp(g[f[a]]) /\ g[f[a]].invoke < Pending
    BY <1>9, HistoriesAssumption DEF Validate
  <2>2. l[a].invoke \in Int /\ l[a].complete \in Int /\ l[a].process \in Int
    BY <1>12 DEF Operation
  <2> QED BY <1>12, <2>1, <2>2
<1>15. Timely(l, n)
  <2> SUFFICES ASSUME NEW a \in 1..n
               PROVE  /\ l[a].invoke <= l[a].complete
                      /\ l[a].invoke = l[a].complete => ZeroWidth(l[a])
    BY <1>14 DEF Timely
  <2>1. /\ l[a].invoke \in Int /\ l[a].complete \in Int
        /\ ValidOp(l[a]) /\ l[a].invoke < Pending /\ Pending \in Int
    BY <1>14, PendingAssumption
  <2>2. CASE l[a].outcome = "info"
    <3>1. l[a].complete = Pending
      BY <2>1, <2>2 DEF ValidOp
    <3> QED BY <2>1, <3>1
  <2>3. CASE l[a].outcome # "info"
    <3>1. l[a].complete >= l[a].invoke
      BY <2>1, <2>3 DEF ValidOp
    <3> QED BY <2>1, <2>3, <3>1 DEF ZeroWidth
  <2> QED BY <2>2, <2>3
<1>16. Timed(l)
  BY <1>13, <1>14 DEF Timed
<1>17. ASSUME ~Entangled(l) PROVE Untied(l, n)
  <2> SUFFICES ASSUME NEW a \in 1..n, NEW b \in 1..n, a # b, ZeroWidth(l[a]), ZeroWidth(l[b])
               PROVE  l[a].invoke # l[b].invoke
    BY DEF Untied
  <2>1. CASE l[a].key = l[b].key
    <3>1. f[a] \in DOMAIN g /\ f[b] \in DOMAIN g /\ f[a] # f[b] /\ l[a] = g[f[a]] /\ l[b] = g[f[b]]
      BY <1>9, <1>10, <1>12
    <3>2. NoTwinInstants(g)
      BY DEF Validate
    <3> QED BY <2>1, <3>1, <3>2 DEF NoTwinInstants
  <2>2. CASE l[a].key # l[b].key
    BY <1>13, <1>17, <2>2 DEF Entangled
  <2> QED BY <2>1, <2>2
<1>18. Keys(l) \subseteq Keys(g)
  BY <1>9, <1>12, <1>13 DEF Keys
<1>19. \A a \in 1..n : \E p \in DOMAIN KeyOrder : KeyOrder[p] = l[a].key
  <2> TAKE a \in 1..n
  <2>1. \E p \in DOMAIN KeyOrder : KeyOrder[p] = g[f[a]].key
    BY <1>9, HistoriesAssumption
  <2> QED BY <1>12, <2>1
<1> QED BY <1>11, <1>15, <1>16, <1>17, <1>18, <1>19 DEF l

(* The verdict on a key is whether its register can be served.             *)
LEMMA ExactlyServed ==
  ASSUME NEW g, NEW n, List(g, n), Timed(g), NEW k
  PROVE  /\ Served(g, n, k) => Exactly(ByKey(g, k)) = "linearizable"
         /\ ~Served(g, n, k) => Exactly(ByKey(g, k)) = "not linearizable"
<1> DEFINE L == ByKey(g, k)
<1>1. PICK m, f : Lies(g, n, k, m, f) /\ Copies(L, g, m, f)
  BY ByKeyLies
<1>2. Linearizable(L) <=> Served(g, n, k)
  BY ServedIs
<1> HIDE DEF L
<1>3. List(L, m) /\ \A i \in 1..m : L[i] = g[f[i]] /\ f[i] \in 1..n
  BY <1>1 DEF Lies, Copies
<1>4. Timed(L)
  <2>1. DOMAIN g = 1..n /\ DOMAIN L = 1..m
    BY <1>3 DEF List
  <2> QED BY <1>3, <2>1 DEF Timed
<1>5. Linearizable(SortByInvoke(L)) <=> Linearizable(L)
  BY <1>3, <1>4, SortedSame
<1> QED BY <1>2, <1>5 DEF Exactly, L

LEMMA WholeIsJudged == Reporting /\ Splitting => WholeHistoryJudged
<1> SUFFICES ASSUME Reporting, Splitting,
                    phase = "reported", report.verdict # "unknown", ~Entangled(DropFailed(h))
             PROVE  report.verdict =
                      IF LinearizableAcrossKeys(DropFailed(h)) THEN "linearizable" ELSE "not linearizable"
  BY DEF WholeHistoryJudged
<1> DEFINE g == DropFailed(h)
<1>1. h \in Histories /\ Validate(h) /\ keys = Split(h)
      /\ \A i \in DOMAIN keys : byKey[i] = ByKey(g, keys[i])
  BY DEF Splitting, Live
<1>2. PICK n \in Nat : /\ List(g, n) /\ Keys(g) \subseteq Keys(h)
                       /\ Timely(g, n) /\ Timed(g) /\ Untied(g, n)
                       /\ \A a \in 1..n : \E p \in DOMAIN KeyOrder : KeyOrder[p] = g[a].key
  BY <1>1, LiveIs DEF Live
<1>3. /\ filled = DOMAIN keys /\ report \in [verdict : Verdicts, key : 0..Len(keys)]
      /\ Len(keys) \in Nat /\ DOMAIN keys = 1..Len(keys)
      /\ \A i \in DOMAIN keys : results[i] \in Searched(byKey[i])
      /\ report = Summary
  BY DEF Reporting, SlotsTrue, Searching, NothingHidden, Underway
<1>4. Split(h) = SortedKeys(g) \/ Split(h) = SortedKeys(h)
  BY DEF Split, Live
<1> HIDE DEF g
<1>5. \A k \in Keys(g) : \E i \in DOMAIN keys : keys[i] = k
  <2> TAKE k \in Keys(g)
  <2>1. PICK a \in 1..n : g[a].key = k
    BY <1>2 DEF Keys, List
  <2>2. PICK p \in DOMAIN KeyOrder : KeyOrder[p] = k
    BY <1>2, <2>1
  <2>3. k \in Keys(h)
    BY <1>2
  <2> QED BY <1>1, <1>4, <2>2, <2>3, SortedKeysType
<1>6. \A i \in DOMAIN keys : results[i] = "not linearizable" => ~Served(g, n, keys[i])
  <2> SUFFICES ASSUME NEW i \in DOMAIN keys, results[i] = "not linearizable", Served(g, n, keys[i])
               PROVE  FALSE
    OBVIOUS
  <2>1. Exactly(ByKey(g, keys[i])) = "linearizable"
    BY <1>2, ExactlyServed
  <2>2. results[i] \in {"linearizable", "unknown"}
    BY <1>1, <1>3, <2>1 DEF Searched
  <2> QED BY <2>2
<1>7. \A i \in DOMAIN keys : results[i] = "linearizable" => Served(g, n, keys[i])
  <2> SUFFICES ASSUME NEW i \in DOMAIN keys, results[i] = "linearizable", ~Served(g, n, keys[i])
               PROVE  FALSE
    OBVIOUS
  <2>1. Exactly(ByKey(g, keys[i])) = "not linearizable"
    BY <1>2, ExactlyServed
  <2>2. results[i] \in {"not linearizable", "unknown"}
    BY <1>1, <1>3, <2>1 DEF Searched
  <2> QED BY <2>2
<1>8. CASE Seen("not linearizable")
  <2>1. PICK i \in DOMAIN keys : results[i] = "not linearizable"
    BY <1>8 DEF Seen
  <2>2. ~Served(g, n, keys[i])
    BY <1>6, <2>1
  <2>3. keys[i] \in Keys(g)
    BY <1>2, <2>2, IdleServed
  <2>4. ~LinearizableAcrossKeys(g)
    BY <1>2, <2>2, <2>3, WholeServesEach
  <2>5. report.verdict = "not linearizable"
    BY <1>3, <1>8 DEF Summary, WorstFirst
  <2> QED BY <2>4, <2>5 DEF g
<1>9. CASE ~Seen("not linearizable")
  <2>1. ~Seen("unknown")
    BY <1>3, <1>9 DEF Summary, WorstFirst
  <2>2. report.verdict = "linearizable"
    BY <1>3, <1>9, <2>1 DEF Summary, WorstFirst
  <2>3. \A i \in DOMAIN keys : results[i] = "linearizable"
    <3>1. \A i \in DOMAIN keys : results[i] \in Verdicts
      BY <1>3 DEF Searched, Exactly, Verdicts
    <3> QED BY <1>9, <2>1, <3>1 DEF Seen, Verdicts
  <2>4. \A k \in Keys(g) : Served(g, n, k)
    BY <1>5, <1>7, <2>3
  <2> DEFINE y == [a \in 1..n |-> CHOOSE p \in DOMAIN KeyOrder : KeyOrder[p] = g[a].key]
  <2>5. \A a, b \in 1..n : y[a] \in Int /\ (y[a] = y[b] <=> g[a].key = g[b].key)
    <3> DEFINE at(k) == CHOOSE p \in DOMAIN KeyOrder : KeyOrder[p] = k
    <3>1. \A a \in 1..n : at(g[a].key) \in DOMAIN KeyOrder /\ KeyOrder[at(g[a].key)] = g[a].key
      BY <1>2
    <3>2. \A a \in 1..n : y[a] = at(g[a].key)
      OBVIOUS
    <3> HIDE DEF at, y
    <3>3. \A p \in DOMAIN KeyOrder : p \in Int
      BY CheckAssumption
    <3> QED BY <3>1, <3>2, <3>3
  <2> HIDE DEF y
  <2>6. LinearizableAcrossKeys(g)
    BY <1>2, <2>4, <2>5, EachServesWhole
  <2> QED BY <2>2, <2>6 DEF g
<1> QED BY <1>8, <1>9

(* "It is not an approximation, it is the same answer": whatever number of *)
(* keys and operations, and however the goroutines are scheduled, what     *)
(* Check reports of the keys one by one is what the definition says of the *)
(* whole history (history.go:384-389).                                     *)
THEOREM SplittingByKeyIsExact == Spec => []WholeHistoryJudged
<1> QED BY ReportingInit, ReportingNext, SplittingInit, SplittingNext, WholeIsJudged, PTL DEF Spec

-----------------------------------------------------------------------------
(***************************************************************************)
(* Recording.  However many clients, operations and registers, however     *)
(* coarse the clock: what is recorded of a store that keeps its promise is *)
(* linearizable, register by register.                                     *)
(***************************************************************************)
Replies == [observed : Int, swapped : BOOLEAN]

Shapes ==
  /\ reg \in [Registers -> Int]
  /\ request \in [Ops -> Requests \cup {None}]
  /\ outcome \in [Ops -> {"idle", "open", "ok", "fail", "info"}]
  /\ effect \in [Ops -> Replies \cup {None}]
  /\ answer \in [Ops -> Replies \cup {None}]
  /\ now \in 0..MaxNow
  /\ process \in [Ops -> Processes \cup {None}]
  /\ invoked \in [Ops -> Nat]
  /\ completed \in [Ops -> Nat]
  /\ recorded \in Seq(Ops)

(* What each outcome says of an operation.                                 *)
Honest ==
  \A o \in Ops :
    /\ outcome[o] # "idle" => request[o] \in Requests /\ process[o] \in Processes /\ invoked[o] <= now
    /\ outcome[o] \in {"idle", "fail"} => effect[o] = None
    /\ outcome[o] = "ok" => effect[o] # None /\ answer[o] = effect[o]
    /\ outcome[o] = "info" => completed[o] = Pending

(* The recorder holds each operation that has ended, once.                 *)
Ended(o) == outcome[o] \in {"ok", "fail", "info"}

Complete ==
  /\ \A i, j \in DOMAIN recorded : recorded[i] = recorded[j] => i = j
  /\ \A i \in DOMAIN recorded : Ended(recorded[i])
  /\ \A o \in Ops : Ended(o) => \E i \in DOMAIN recorded : recorded[i] = o

(* The operation as the store carried it out.                              *)
AsDone(o) == Store!AsOp(request[o], effect[o])

Happened(o, k) == effect[o] # None /\ request[o].key = k

(***************************************************************************)
(* w orders the operations that took effect on register k so that its      *)
(* values run from the initial one to the present one, and none completed  *)
(* before one that w puts earlier was invoked.                             *)
(***************************************************************************)
Line(k, m, w, g) ==
  /\ m \in Nat /\ w \in [1..m -> Ops]
  /\ \A i, j \in 1..m : w[i] = w[j] => i = j
  /\ \A i \in 1..m : Happened(w[i], k)
  /\ \A o \in Ops : Happened(o, k) => \E i \in 1..m : w[i] = o
  /\ g[1] = InitialValue /\ g[m+1] = reg[k]
  /\ \A i \in 1..m : Fits(g[i], AsDone(w[i])) /\ g[i+1] = After(g[i], AsDone(w[i]))
  /\ \A i, j \in 1..m : i < j /\ Ended(w[j]) => invoked[w[i]] < completed[w[j]]

InLine == \A k \in Registers : \E m, w, g : Line(k, m, w, g)

Faithful == Shapes /\ Honest /\ Complete /\ InLine

-----------------------------------------------------------------------------
LEMMA StoreModel ==
  ASSUME NEW v, NEW op
  PROVE  (Store!Fits(v, op) <=> Fits(v, op)) /\ Store!After(v, op) = After(v, op)
BY DEF Store!Fits, Store!After, Store!Models, Store!Known, Store!Kinds, Fits, After, Models, Known, Kinds

(* What the clock reads is not in the future, and one step more is.        *)
LEMMA NanosReads ==
  ASSUME now \in Nat
  PROVE  Nanos \in Nat /\ Nanos <= now /\ now < Nanos + Granularity
<1>1. Granularity \in Nat /\ Granularity > 0
  BY ClockAssumption
<1> QED BY <1>1 DEF Nanos

LEMMA CompletionReads ==
  ASSUME now \in Nat, NEW i \in Nat
  PROVE  Completion(i, Nanos) \in Nat /\ now < Completion(i, Nanos)
<1>1. Granularity \in Nat /\ Granularity > 0
  BY ClockAssumption
<1>2. Nanos \in Nat /\ now < Nanos + Granularity
  BY NanosReads
<1> QED BY <1>1, <1>2 DEF Completion

LEMMA FaithfulInit == RecorderInit => Faithful
<1> SUFFICES ASSUME RecorderInit PROVE Faithful
  OBVIOUS
<1>1. /\ reg = [k \in Registers |-> InitialValue]
      /\ request = [o \in Ops |-> None] /\ outcome = [o \in Ops |-> "idle"]
      /\ effect = [o \in Ops |-> None] /\ answer = [o \in Ops |-> None]
  BY DEF RecorderInit, Store!Init, Store!InitialValue, InitialValue
<1>2. Shapes
  BY <1>1, ClockAssumption DEF RecorderInit, Shapes, InitialValue
<1>3. Honest
  BY <1>1 DEF Honest
<1>4. Complete
  BY <1>1 DEF RecorderInit, Complete, Ended
<1>5. ASSUME NEW k \in Registers PROVE \E m, w, g : Line(k, m, w, g)
  <2> DEFINE w == [i \in 1..0 |-> CHOOSE o \in Ops : TRUE]
             g == [i \in 1..1 |-> InitialValue]
  <2>1. w \in [1..0 -> Ops] /\ g[1] = InitialValue /\ reg[k] = InitialValue
    BY <1>1
  <2>2. \A o \in Ops : ~ Happened(o, k)
    BY <1>1 DEF Happened
  <2> HIDE DEF w, g
  <2>3. Line(k, 0, w, g)
    BY <2>1, <2>2 DEF Line
  <2> QED BY <2>3
<1> QED BY <1>2, <1>3, <1>4, <1>5 DEF Faithful, InLine

(* A step in which nothing takes effect keeps every line, if what ends in  *)
(* it completes after now.                                                 *)
LEMMA LinesStay ==
  ASSUME Faithful, effect' = effect, reg' = reg,
         \A o \in Ops : effect[o] # None => request'[o] = request[o] /\ invoked'[o] = invoked[o],
         \A o \in Ops : effect[o] # None /\ Ended(o)' =>
           (Ended(o) /\ completed'[o] = completed[o]) \/ now < completed'[o],
         completed' \in [Ops -> Nat]
  PROVE  InLine'
<1> SUFFICES ASSUME NEW k \in Registers PROVE (\E m, w, g : Line(k, m, w, g))'
  BY DEF InLine
<1>1. PICK m, w, g : Line(k, m, w, g)
  BY DEF Faithful, InLine
<1>2. m \in Nat /\ w \in [1..m -> Ops] /\ \A i \in 1..m : w[i] \in Ops /\ effect[w[i]] # None
  BY <1>1 DEF Line, Happened
<1>3. \A o \in Ops : Happened(o, k)' <=> Happened(o, k)
  BY DEF Happened
<1>4. \A i \in 1..m : AsDone(w[i])' = AsDone(w[i])
  BY <1>2 DEF AsDone, Store!AsOp
<1>5. ASSUME NEW i \in 1..m, NEW j \in 1..m, i < j, Ended(w[j])'
      PROVE  invoked'[w[i]] < completed'[w[j]]
  <2>1. w[i] \in Ops /\ w[j] \in Ops /\ effect[w[i]] # None /\ effect[w[j]] # None
    BY <1>2
  <2>2. invoked'[w[i]] = invoked[w[i]]
    BY <2>1
  <2>3. invoked[w[i]] <= now
    <3>1. outcome[w[i]] # "idle"
      BY <2>1 DEF Faithful, Honest
    <3> QED BY <2>1, <3>1 DEF Faithful, Honest
  <2>4. invoked[w[i]] \in Nat /\ now \in Nat /\ completed'[w[j]] \in Nat
    BY <2>1, ClockAssumption DEF Faithful, Shapes
  <2>5. CASE Ended(w[j]) /\ completed'[w[j]] = completed[w[j]]
    <3>1. invoked[w[i]] < completed[w[j]]
      BY <1>1, <1>5, <2>5 DEF Line
    <3> QED BY <2>2, <2>5, <3>1
  <2>6. CASE now < completed'[w[j]]
    BY <2>2, <2>3, <2>4, <2>6
  <2> QED BY <1>5, <2>1, <2>5, <2>6
<1>6. (Line(k, m, w, g))'
  <2>1. (\A i \in 1..m : Happened(w[i], k))' /\ (\A o \in Ops : Happened(o, k) => \E i \in 1..m : w[i] = o)'
    BY <1>1, <1>2, <1>3 DEF Line
  <2>2. g[1] = InitialValue /\ g[m+1] = reg'[k] /\ \A i, j \in 1..m : w[i] = w[j] => i = j
    BY <1>1 DEF Line
  <2>3. (\A i \in 1..m : Fits(g[i], AsDone(w[i])) /\ g[i+1] = After(g[i], AsDone(w[i])))'
    BY <1>1, <1>4 DEF Line
  <2> QED BY <1>2, <1>5, <2>1, <2>2, <2>3 DEF Line
<1> QED BY <1>6

LEMMA BeginFaithful ==
  ASSUME Faithful, NEW o \in Ops, NEW p \in Processes, NEW r \in Requests, Begin(o, p, r)
  PROVE  Faithful'
<1> USE DEF Faithful
<1>1. /\ outcome[o] = "idle" /\ effect[o] = None
      /\ request' = [request EXCEPT ![o] = r] /\ outcome' = [outcome EXCEPT ![o] = "open"]
      /\ process' = [process EXCEPT ![o] = p] /\ invoked' = [invoked EXCEPT ![o] = Nanos]
      /\ UNCHANGED <<reg, effect, answer, now, completed, recorded>>
  BY DEF Begin, Store!Issue, Honest
<1>2. now \in Nat /\ Nanos \in Nat /\ Nanos <= now
  BY NanosReads, ClockAssumption DEF Shapes
<1>3. \A q \in Ops \ {o} : /\ request'[q] = request[q] /\ outcome'[q] = outcome[q]
                           /\ process'[q] = process[q] /\ invoked'[q] = invoked[q]
  BY <1>1 DEF Shapes
<1>4. request'[o] = r /\ outcome'[o] = "open" /\ process'[o] = p /\ invoked'[o] = Nanos
  BY <1>1 DEF Shapes
<1>5. Shapes'
  BY <1>1, <1>2 DEF Shapes
<1>6. Honest'
  <2> SUFFICES ASSUME NEW q \in Ops
               PROVE  (/\ outcome[q] # "idle" => request[q] \in Requests /\ process[q] \in Processes /\ invoked[q] <= now
                       /\ outcome[q] \in {"idle", "fail"} => effect[q] = None
                       /\ outcome[q] = "ok" => effect[q] # None /\ answer[q] = effect[q]
                       /\ outcome[q] = "info" => completed[q] = Pending)'
    BY DEF Honest
  <2>1. CASE q = o
    BY <1>1, <1>2, <1>4, <2>1
  <2>2. CASE q # o
    BY <1>1, <1>3, <2>2 DEF Honest
  <2> QED BY <2>1, <2>2
<1>7. \A q \in Ops : Ended(q)' <=> Ended(q)
  BY <1>1, <1>3, <1>4 DEF Ended
<1>8. Complete'
  <2>1. \A i \in DOMAIN recorded : recorded[i] \in Ops
    BY DEF Shapes
  <2> QED BY <1>1, <1>7, <2>1 DEF Complete
<1>9. InLine'
  <2>1. \A q \in Ops : effect[q] # None => request'[q] = request[q] /\ invoked'[q] = invoked[q]
    BY <1>1, <1>3
  <2>2. \A q \in Ops : effect[q] # None /\ Ended(q)' =>
           (Ended(q) /\ completed'[q] = completed[q]) \/ now < completed'[q]
    BY <1>1, <1>7
  <2>3. completed' \in [Ops -> Nat]
    BY <1>5 DEF Shapes
  <2> QED BY <1>1, <2>1, <2>2, <2>3, LinesStay
<1> QED BY <1>5, <1>6, <1>8, <1>9

LEMMA TickFaithful ==
  ASSUME Faithful, Tick
  PROVE  Faithful'
<1> USE DEF Faithful
<1>1. now' = now + 1 /\ now < MaxNow /\ UNCHANGED <<storeVars, process, invoked, completed, recorded>>
  BY DEF Tick
<1>2. now \in Nat /\ MaxNow \in Nat
  BY ClockAssumption DEF Shapes
<1>3. Shapes'
  BY <1>1, <1>2 DEF Shapes, storeVars
<1>4. Honest'
  <2>1. \A o \in Ops : invoked[o] \in Nat
    BY DEF Shapes
  <2> QED BY <1>1, <1>2, <2>1 DEF Honest, storeVars
<1>5. Complete'
  BY <1>1 DEF Complete, Ended, storeVars
<1>6. InLine'
  <2>1. effect' = effect /\ reg' = reg /\ request' = request /\ invoked' = invoked
        /\ completed' = completed /\ outcome' = outcome
    BY <1>1 DEF storeVars
  <2>2. \A o \in Ops : Ended(o)' <=> Ended(o)
    BY <2>1 DEF Ended
  <2>3. completed' \in [Ops -> Nat]
    BY <2>1 DEF Shapes
  <2> QED BY <2>1, <2>2, <2>3, LinesStay
<1> QED BY <1>3, <1>4, <1>5, <1>6

LEMMA FinishFaithful ==
  ASSUME Faithful, NEW o \in Ops, Finish(o)
  PROVE  Faithful'
<1> USE DEF Faithful
<1>1. /\ outcome[o] = "open"
      /\ UNCHANGED <<reg, request, effect, now, process, invoked>>
      /\ recorded' = Append(recorded, o)
      /\ completed' = [completed EXCEPT ![o] =
                         IF outcome'[o] = "info" THEN Pending ELSE Completion(invoked[o], Nanos)]
  BY DEF Finish, Store!Succeed, Store!Decline, Store!Abandon
<1>2. \/ /\ effect[o] # None /\ outcome' = [outcome EXCEPT ![o] = "ok"]
         /\ answer' = [answer EXCEPT ![o] = effect[o]]
      \/ effect[o] = None /\ outcome' = [outcome EXCEPT ![o] = "fail"] /\ answer' = answer
      \/ outcome' = [outcome EXCEPT ![o] = "info"] /\ answer' = answer
  BY DEF Finish, Store!Succeed, Store!Decline, Store!Abandon
<1>3. now \in Nat /\ invoked[o] \in Nat /\ now <= MaxNow
  BY ClockAssumption DEF Shapes
<1>4. Completion(invoked[o], Nanos) \in Nat /\ now < Completion(invoked[o], Nanos)
  BY <1>3, CompletionReads
<1>5. Pending \in Nat /\ now < Pending
  BY <1>3, PendingAssumption, RecorderAssumption, ClockAssumption
<1>6. completed'[o] \in Nat /\ now < completed'[o] /\ (outcome'[o] = "info" => completed'[o] = Pending)
  BY <1>1, <1>4, <1>5 DEF Shapes
<1>7. \A q \in Ops \ {o} : outcome'[q] = outcome[q] /\ answer'[q] = answer[q] /\ completed'[q] = completed[q]
  BY <1>1, <1>2 DEF Shapes
<1>8. outcome'[o] \in {"ok", "fail", "info"} /\ effect[o] \in Replies \cup {None}
  BY <1>2 DEF Shapes
<1>9. Shapes'
  <2>1. outcome' \in [Ops -> {"idle", "open", "ok", "fail", "info"}]
    BY <1>2 DEF Shapes
  <2>2. answer' \in [Ops -> Replies \cup {None}]
    BY <1>2, <1>8 DEF Shapes
  <2>3. completed' \in [Ops -> Nat]
    BY <1>1, <1>4, <1>5 DEF Shapes
  <2>4. recorded' \in Seq(Ops)
    BY <1>1 DEF Shapes
  <2> QED BY <1>1, <2>1, <2>2, <2>3, <2>4 DEF Shapes
<1>10. Honest'
  <2> SUFFICES ASSUME NEW q \in Ops
               PROVE  (/\ outcome[q] # "idle" => request[q] \in Requests /\ process[q] \in Processes /\ invoked[q] <= now
                       /\ outcome[q] \in {"idle", "fail"} => effect[q] = None
                       /\ outcome[q] = "ok" => effect[q] # None /\ answer[q] = effect[q]
                       /\ outcome[q] = "info" => completed[q] = Pending)'
    BY DEF Honest
  <2>1. CASE q = o
    <3>1. request[o] \in Requests /\ process[o] \in Processes /\ invoked[o] <= now
      BY <1>1 DEF Honest
    <3>2. outcome'[o] = "fail" => effect[o] = None
      BY <1>2 DEF Shapes
    <3>3. outcome'[o] = "ok" => effect[o] # None /\ answer'[o] = effect[o]
      BY <1>2 DEF Shapes
    <3> QED BY <1>1, <1>6, <1>8, <2>1, <3>1, <3>2, <3>3
  <2>2. CASE q # o
    BY <1>1, <1>7, <2>2 DEF Honest
  <2> QED BY <2>1, <2>2
<1>11. ~ Ended(o) /\ Ended(o)' /\ \A q \in Ops \ {o} : Ended(q)' <=> Ended(q)
  BY <1>1, <1>7, <1>8 DEF Ended
<1>12. Complete'
  <2> DEFINE n == Len(recorded)
  <2>1. /\ n \in Nat /\ DOMAIN recorded = 1..n /\ DOMAIN recorded' = 1..(n + 1)
        /\ recorded'[n + 1] = o /\ \A i \in 1..n : recorded'[i] = recorded[i] /\ recorded[i] \in Ops
    BY <1>1 DEF Shapes
  <2>2. \A i \in 1..n : recorded[i] # o
    BY <1>11, <2>1 DEF Complete
  <2>3. \A i \in 1..(n + 1) : i = n + 1 \/ i \in 1..n
    BY <2>1
  <2>4. \A i, j \in 1..(n + 1) : recorded'[i] = recorded'[j] => i = j
    BY <2>1, <2>2, <2>3 DEF Complete
  <2>5. \A i \in 1..(n + 1) : Ended(recorded[i])'
    <3> TAKE i \in 1..(n + 1)
    <3>1. CASE i = n + 1
      BY <1>11, <2>1, <3>1 DEF Ended
    <3>2. CASE i \in 1..n
      <4>1. recorded'[i] \in Ops \ {o} /\ Ended(recorded[i]) /\ recorded'[i] = recorded[i]
        BY <2>1, <2>2, <3>2 DEF Complete
      <4> QED BY <1>7, <4>1 DEF Ended
    <3> QED BY <2>3, <3>1, <3>2
  <2>6. ASSUME NEW q \in Ops, Ended(q)' PROVE \E i \in 1..(n + 1) : recorded'[i] = q
    <3>1. CASE q = o
      <4>1. n + 1 \in 1..(n + 1)
        BY <2>1
      <4> QED BY <2>1, <3>1, <4>1
    <3>2. CASE q # o
      <4>1. PICK i \in 1..n : recorded[i] = q
        BY <1>11, <2>1, <2>6, <3>2 DEF Complete
      <4>2. i \in 1..(n + 1)
        BY <2>1
      <4> QED BY <2>1, <4>1, <4>2
    <3> QED BY <3>1, <3>2
  <2> QED BY <2>1, <2>4, <2>5, <2>6 DEF Complete
<1>13. InLine'
  <2>1. \A q \in Ops : Ended(q)' => (Ended(q) /\ completed'[q] = completed[q]) \/ now < completed'[q]
    BY <1>6, <1>7, <1>11
  <2>2. completed' \in [Ops -> Nat]
    BY <1>9 DEF Shapes
  <2> QED BY <1>1, <2>1, <2>2, LinesStay
<1> QED BY <1>9, <1>10, <1>12, <1>13

(* What takes effect goes to the end of its register's line.               *)
LEMMA HappenFaithful ==
  ASSUME Faithful, NEW o \in Ops, Happen(o)
  PROVE  Faithful'
<1> USE DEF Faithful
<1> DEFINE r == request[o]
           key == r.key
<1>1. /\ outcome[o] \in {"open", "info"} /\ effect[o] = None
      /\ UNCHANGED <<request, outcome, answer, now, process, invoked, completed, recorded>>
  BY DEF Happen, Store!TakeEffect
<1>2. PICK a \in Store!Answers(reg[key], r) :
           /\ effect' = [effect EXCEPT ![o] = a]
           /\ reg' = [reg EXCEPT ![key] = Store!After(reg[key], Store!AsOp(r, a))]
  BY DEF Happen, Store!TakeEffect
<1>3. /\ r \in Requests /\ key \in Registers /\ r.value \in Int /\ r.from \in Int /\ r.to \in Int
      /\ r.kind \in Kinds
  BY <1>1, RecorderAssumption DEF Honest
<1>4. reg[key] \in Int
  BY <1>3 DEF Shapes
<1>5. a \in Replies /\ a # None /\ Store!Fits(reg[key], Store!AsOp(r, a))
  <2>1. PICK u \in {Store!InitialValue, reg[key]}, s \in BOOLEAN : a = Store!Reply(u, s)
    BY DEF Store!Answers
  <2>2. u \in Int
    BY <1>4, <2>1 DEF Store!InitialValue
  <2>3. a \in Replies
    BY <2>1, <2>2 DEF Store!Reply, Replies
  <2>4. Store!Fits(reg[key], Store!AsOp(r, a))
    BY DEF Store!Answers
  <2> QED BY <2>3, <2>4, RecorderAssumption DEF Replies
<1> DEFINE op == Store!AsOp(r, a)
<1>6. Fits(reg[key], op) /\ reg' = [reg EXCEPT ![key] = After(reg[key], op)]
  BY <1>2, <1>5, StoreModel
<1>7. After(reg[key], op) \in Int
  BY <1>3, <1>4 DEF After, Store!AsOp
<1>8. effect'[o] = a /\ \A q \in Ops \ {o} : effect'[q] = effect[q]
  BY <1>2 DEF Shapes
<1>9. reg'[key] = After(reg[key], op) /\ \A k \in Registers \ {key} : reg'[k] = reg[k]
  <2> HIDE DEF op, r
  <2> QED BY <1>3, <1>6 DEF Shapes
<1>10. Shapes'
  <2>1. effect' \in [Ops -> Replies \cup {None}]
    BY <1>2, <1>5 DEF Shapes
  <2>2. reg' \in [Registers -> Int]
    <3> HIDE DEF op, r
    <3> QED BY <1>3, <1>6, <1>7 DEF Shapes
  <2> QED BY <1>1, <2>1, <2>2 DEF Shapes
<1>11. Honest'
  <2> SUFFICES ASSUME NEW q \in Ops
               PROVE  (/\ outcome[q] # "idle" => request[q] \in Requests /\ process[q] \in Processes /\ invoked[q] <= now
                       /\ outcome[q] \in {"idle", "fail"} => effect[q] = None
                       /\ outcome[q] = "ok" => effect[q] # None /\ answer[q] = effect[q]
                       /\ outcome[q] = "info" => completed[q] = Pending)'
    BY DEF Honest
  <2>1. CASE q = o
    BY <1>1, <2>1 DEF Honest
  <2>2. CASE q # o
    BY <1>1, <1>8, <2>2 DEF Honest
  <2> QED BY <2>1, <2>2
<1>12. Complete'
  BY <1>1 DEF Complete, Ended
<1>13. \A q \in Ops : Ended(q)' <=> Ended(q)
  BY <1>1 DEF Ended
<1>14. \A q \in Ops \ {o} : AsDone(q)' = AsDone(q) /\ \A k : Happened(q, k)' <=> Happened(q, k)
  BY <1>1, <1>8 DEF AsDone, Store!AsOp, Happened
<1>15. AsDone(o)' = op /\ \A k : ~ Happened(o, k) /\ (Happened(o, k)' <=> k = key)
  BY <1>1, <1>5, <1>8 DEF AsDone, Store!AsOp, Happened
<1> HIDE DEF op, r
<1>16. ASSUME NEW k \in Registers PROVE (\E m, w, g : Line(k, m, w, g))'
  <2>1. PICK m, w, g : Line(k, m, w, g)
    BY DEF InLine
  <2>2. /\ m \in Nat /\ w \in [1..m -> Ops] /\ \A i \in 1..m : w[i] \in Ops \ {o} /\ Happened(w[i], k)
    BY <1>15, <2>1 DEF Line
  <2>3. CASE k # key
    <3>1. reg'[k] = reg[k]
      BY <1>9, <2>3
    <3>2. (\A i \in 1..m : Happened(w[i], k))'
      BY <1>14, <2>2
    <3>3. (\A q \in Ops : Happened(q, k) => \E i \in 1..m : w[i] = q)'
      BY <1>14, <1>15, <2>1, <2>3 DEF Line
    <3>4. (\A i \in 1..m : Fits(g[i], AsDone(w[i])) /\ g[i+1] = After(g[i], AsDone(w[i])))'
      BY <1>14, <2>1, <2>2 DEF Line
    <3>5. (\A i, j \in 1..m : i < j /\ Ended(w[j]) => invoked[w[i]] < completed[w[j]])'
      BY <1>1, <1>13, <2>1, <2>2 DEF Line
    <3>6. (Line(k, m, w, g))'
      BY <2>1, <2>2, <3>1, <3>2, <3>3, <3>4, <3>5 DEF Line
    <3> QED BY <3>6
  <2>4. CASE k = key
    <3> DEFINE n == m + 1
               x == [i \in 1..n |-> IF i = n THEN o ELSE w[i]]
    <3> PICK d : d = [i \in 1..(n + 1) |-> IF i = n + 1 THEN reg'[k] ELSE g[i]]
      OBVIOUS
    <3>1. /\ n \in Nat /\ \A i \in 1..n : i = n \/ i \in 1..m
          /\ 1..m \subseteq 1..n /\ n \in 1..n /\ n \notin 1..m
      BY <2>2
    <3>2. x[n] = o /\ \A i \in 1..m : x[i] = w[i]
      BY <3>1
    <3>3. x \in [1..n -> Ops]
      BY <2>2, <3>1
    <3>4. d[n+1] = reg'[k] /\ d[n] = reg[k] /\ d[1] = InitialValue /\ \A i \in 1..m : d[i] = g[i] /\ d[i+1] = g[i+1]
      <4>1. g[m+1] = reg[k] /\ g[1] = InitialValue
        BY <2>1 DEF Line
      <4> QED BY <2>2, <4>1
    <3> HIDE DEF x
    <3>5. \A i, j \in 1..n : x[i] = x[j] => i = j
      BY <2>1, <2>2, <3>1, <3>2 DEF Line
    <3>6. (\A i \in 1..n : Happened(x[i], k))'
      <4> SUFFICES ASSUME NEW i \in 1..n PROVE Happened(x[i], k)'
        OBVIOUS
      <4>1. CASE i = n
        <5>1. Happened(o, k)'
          BY <1>15, <2>4
        <5> QED BY <3>2, <4>1, <5>1
      <4>2. CASE i \in 1..m
        <5>1. Happened(w[i], k)'
          BY <1>14, <2>2, <4>2
        <5> QED BY <3>2, <4>2, <5>1
      <4> QED BY <3>1, <4>1, <4>2
    <3>7. ASSUME NEW q \in Ops, Happened(q, k)' PROVE \E i \in 1..n : x[i] = q
      <4>1. CASE q = o
        BY <3>1, <3>2, <4>1
      <4>2. CASE q # o
        <5>1. PICK i \in 1..m : w[i] = q
          BY <1>14, <2>1, <3>7, <4>2 DEF Line
        <5> QED BY <3>1, <3>2, <5>1
      <4> QED BY <4>1, <4>2
    <3>8. ASSUME NEW i \in 1..n
          PROVE  Fits(d[i], AsDone(x[i])') /\ d[i+1] = After(d[i], AsDone(x[i])')
      <4>1. CASE i = n
        <5>1. AsDone(x[i])' = op /\ d[i] = reg[key]
          BY <1>15, <2>4, <3>2, <3>4, <4>1
        <5>2. d[i+1] = reg'[key]
          BY <2>4, <3>4, <4>1
        <5> QED BY <1>6, <1>9, <5>1, <5>2
      <4>2. CASE i \in 1..m
        <5>1. AsDone(x[i])' = AsDone(w[i])
          BY <1>14, <2>2, <3>2, <4>2
        <5>2. Fits(g[i], AsDone(w[i])) /\ g[i+1] = After(g[i], AsDone(w[i]))
          BY <2>1, <4>2 DEF Line
        <5> QED BY <3>4, <4>2, <5>1, <5>2
      <4> QED BY <3>1, <4>1, <4>2
    <3>9. ASSUME NEW i \in 1..n, NEW j \in 1..n, i < j, Ended(x[j])'
          PROVE  invoked[x[i]] < completed[x[j]]
      <4>1. i \in 1..m
        BY <3>1, <3>9
      <4>2. CASE j = n
        <5>1. outcome[o] = "info" /\ completed[o] = Pending
          BY <1>1, <1>13, <3>2, <3>9, <4>2 DEF Ended, Honest
        <5>2. w[i] \in Ops /\ effect[w[i]] # None /\ x[i] = w[i]
          BY <2>2, <3>2, <4>1 DEF Happened
        <5>3. invoked[w[i]] <= now /\ invoked[w[i]] \in Nat
          <6>1. outcome[w[i]] # "idle"
            BY <5>2 DEF Honest
          <6> QED BY <5>2, <6>1 DEF Honest, Shapes
        <5>4. now < Pending /\ now \in Nat /\ Pending \in Nat
          <6>1. now \in Nat /\ now <= MaxNow
            BY ClockAssumption DEF Shapes
          <6> QED BY <6>1, PendingAssumption, RecorderAssumption, ClockAssumption
        <5> QED BY <3>2, <4>2, <5>1, <5>2, <5>3, <5>4
      <4>3. CASE j \in 1..m
        <5>1. x[j] = w[j] /\ x[i] = w[i] /\ Ended(w[j])
          BY <1>13, <2>2, <3>2, <3>9, <4>1, <4>3
        <5> QED BY <2>1, <3>9, <4>1, <4>3, <5>1 DEF Line
      <4> QED BY <3>1, <4>2, <4>3
    <3>10. (Line(k, n, x, d))'
      <4>1. (\A i, j \in 1..n : i < j /\ Ended(x[j]) => invoked[x[i]] < completed[x[j]])'
        BY <1>1, <3>9
      <4>2. (\A i \in 1..n : Fits(d[i], AsDone(x[i])) /\ d[i+1] = After(d[i], AsDone(x[i])))'
        BY <3>8
      <4>3. (\A q \in Ops : Happened(q, k) => \E i \in 1..n : x[i] = q)'
        BY <3>7
      <4> QED BY <3>1, <3>3, <3>4, <3>5, <3>6, <4>1, <4>2, <4>3 DEF Line
    <3> QED BY <3>10
  <2> QED BY <2>3, <2>4
<1> QED BY <1>10, <1>11, <1>12, <1>16 DEF InLine

LEMMA FaithfulNext == Faithful /\ [RecorderNext]_recorderVars => Faithful'
<1> SUFFICES ASSUME Faithful, [RecorderNext]_recorderVars PROVE Faithful'
  OBVIOUS
<1>1. ASSUME NEW o \in Ops, NEW p \in Processes, NEW r \in Requests, Begin(o, p, r) PROVE Faithful'
  BY <1>1, BeginFaithful
<1>2. ASSUME NEW o \in Ops, Happen(o) PROVE Faithful'
  BY <1>2, HappenFaithful
<1>3. ASSUME NEW o \in Ops, Finish(o) PROVE Faithful'
  BY <1>3, FinishFaithful
<1>4. CASE Tick
  BY <1>4, TickFaithful
<1>5. CASE UNCHANGED recorderVars
  <2>1. UNCHANGED <<reg, request, outcome, effect, answer, now, process, invoked, completed, recorded>>
    BY <1>5 DEF recorderVars, storeVars
  <2>2. Shapes' /\ Honest' /\ Complete'
    BY <2>1 DEF Faithful, Shapes, Honest, Complete, Ended
  <2>3. InLine'
    <3>1. \A o \in Ops : Ended(o)' <=> Ended(o)
      BY <2>1 DEF Ended
    <3>2. completed' \in [Ops -> Nat]
      BY <2>2 DEF Shapes
    <3> QED BY <2>1, <3>1, <3>2, LinesStay
  <2> QED BY <2>2, <2>3 DEF Faithful
<1> QED BY <1>1, <1>2, <1>3, <1>4, <1>5 DEF RecorderNext

-----------------------------------------------------------------------------
(* What is judged on a register: the operations on it that may have taken  *)
(* effect, each once.                                                      *)
Judged(k) == DropFailed(ByKey(RunHistory, k))

OnRecord(o, k) == Ended(o) /\ outcome[o] # "fail" /\ request[o].key = k

LEMMA JudgedIs ==
  ASSUME Faithful, NEW k
  PROVE  \E n \in Nat : \E e \in [1..n -> Ops] :
           /\ List(Judged(k), n)
           /\ \A j \in 1..n : Judged(k)[j] = OpOf(e[j]) /\ OnRecord(e[j], k)
           /\ \A i, j \in 1..n : e[i] = e[j] => i = j
           /\ \A o \in Ops : OnRecord(o, k) => \E j \in 1..n : e[j] = o
<1> DEFINE n0 == Len(recorded)
           raw == [i \in DOMAIN recorded |-> OpOf(recorded[i])]
           X == {OpOf(o) : o \in Ops}
<1>1. n0 \in Nat /\ DOMAIN recorded = 1..n0 /\ \A i \in 1..n0 : recorded[i] \in Ops
  BY DEF Faithful, Shapes
<1>2. List(raw, n0) /\ \A i \in 1..n0 : raw[i] = OpOf(recorded[i])
  <2>1. DOMAIN raw = 1..n0 /\ raw = [i \in 1..n0 |-> raw[i]] /\ \A i \in 1..n0 : raw[i] \in X
    BY <1>1
  <2>2. \A i \in 1..n0 : raw[i] = OpOf(recorded[i])
    BY <1>1
  <2> HIDE DEF raw, n0, X
  <2>3. List(raw, n0)
    BY <1>1, <2>1, MadeList
  <2> QED BY <2>2, <2>3
<1>3. Timed(raw)
  <2> HIDE DEF raw, n0, X
  <2>0. DOMAIN raw = 1..n0
    BY <1>2 DEF List
  <2> SUFFICES ASSUME NEW i \in 1..n0 PROVE raw[i].invoke \in Int /\ raw[i].process \in Int
    BY <2>0 DEF Timed
  <2>1. recorded[i] \in Ops /\ Ended(recorded[i])
    BY <1>1 DEF Faithful, Complete
  <2>2. process[recorded[i]] \in Int /\ invoked[recorded[i]] \in Int
    <3>1. outcome[recorded[i]] # "idle"
      BY <2>1 DEF Ended
    <3>2. process[recorded[i]] \in Processes
      BY <2>1, <3>1 DEF Faithful, Honest
    <3>3. invoked[recorded[i]] \in Nat
      BY <2>1 DEF Faithful, Shapes
    <3>4. process[recorded[i]] \in Int
      BY <3>2, RecorderAssumption
    <3>5. invoked[recorded[i]] \in Int
      BY <3>3
    <3> QED BY <3>4, <3>5
  <2>3. raw[i] = OpOf(recorded[i])
    BY <1>2
  <2>4. OpOf(recorded[i]).invoke = invoked[recorded[i]] /\ OpOf(recorded[i]).process = process[recorded[i]]
    BY DEF OpOf
  <2> QED BY <2>2, <2>3, <2>4
<1>4. PICK f \in [1..n0 -> 1..n0] :
           /\ \A i, j \in 1..n0 : f[i] = f[j] => i = j
           /\ \A i \in 1..n0 : \E j \in 1..n0 : f[j] = i
           /\ SortByInvoke(raw) = LaidOut(raw, f, n0)
  <2> HIDE DEF raw, n0
  <2> QED BY <1>2, <1>3, SortLaysOut
<1> DEFINE d == RunHistory
<1>5. DOMAIN d = 1..n0 /\ \A i \in 1..n0 : d[i] = OpOf(recorded[f[i]])
  <2>1. d = SortByInvoke(raw)
    BY DEF RunHistory
  <2> HIDE DEF d, raw, n0
  <2> QED BY <1>2, <1>4, <2>1 DEF LaidOut
<1> HIDE DEF d, raw, n0
<1> DEFINE S == {i \in DOMAIN d : d[i].key = k}
<1>6. S \in SUBSET Nat /\ IsFiniteSet(S) /\ S \subseteq 1..n0
  <2>1. S \in SUBSET (1..n0) /\ IsFiniteSet(1..n0)
    BY <1>1, <1>5, Numbered
  <2> HIDE DEF S
  <2>2. IsFiniteSet(S)
    BY <2>1, FS_Subset
  <2> QED BY <1>1, <2>1, <2>2
<1>7. PICK n1 \in Nat : \E a \in [1..n1 -> S] :
           /\ \A i, j \in 1..n1 : i < j => a[i] < a[j]
           /\ \A i \in S : \E j \in 1..n1 : a[j] = i
           /\ Kept(d, S) = LaidOut(d, a, n1)
  <2> HIDE DEF S
  <2> QED BY <1>6, KeptLaysOut
<1>8. PICK a \in [1..n1 -> S] :
           /\ \A i, j \in 1..n1 : i < j => a[i] < a[j]
           /\ \A i \in S : \E j \in 1..n1 : a[j] = i
           /\ Kept(d, S) = LaidOut(d, a, n1)
  BY <1>7
<1> DEFINE b == ByKey(d, k)
<1>9. DOMAIN b = 1..n1 /\ \A i \in 1..n1 : b[i] = OpOf(recorded[f[a[i]]])
  <2>1. b = LaidOut(d, a, n1)
    BY <1>8 DEF ByKey
  <2>2. \A i \in 1..n1 : a[i] \in 1..n0
    BY <1>6, <1>8
  <2> HIDE DEF b
  <2> QED BY <1>5, <2>1, <2>2 DEF LaidOut
<1> DEFINE T == {i \in DOMAIN b : b[i].outcome # "fail"}
<1> HIDE DEF b
<1>10. T \in SUBSET Nat /\ IsFiniteSet(T) /\ T \subseteq 1..n1
  <2>1. T \in SUBSET (1..n1) /\ IsFiniteSet(1..n1)
    BY <1>9, Numbered
  <2> HIDE DEF T
  <2>2. IsFiniteSet(T)
    BY <2>1, FS_Subset
  <2> QED BY <2>1, <2>2
<1>11. PICK n \in Nat : \E c \in [1..n -> T] :
           /\ \A i, j \in 1..n : i < j => c[i] < c[j]
           /\ \A i \in T : \E j \in 1..n : c[j] = i
           /\ Kept(b, T) = LaidOut(b, c, n)
  <2> HIDE DEF T
  <2>1. T \in SUBSET Nat /\ IsFiniteSet(T)
    BY <1>10
  <2> QED BY <2>1, KeptLaysOut
<1>12. PICK c \in [1..n -> T] :
           /\ \A i, j \in 1..n : i < j => c[i] < c[j]
           /\ \A i \in T : \E j \in 1..n : c[j] = i
           /\ Kept(b, T) = LaidOut(b, c, n)
  BY <1>11
<1>13. Judged(k) = LaidOut(b, c, n)
  BY <1>12 DEF Judged, DropFailed, b, d
<1> DEFINE e == [j \in 1..n |-> recorded[f[a[c[j]]]]]
<1>14. \A j \in 1..n : /\ c[j] \in 1..n1 /\ a[c[j]] \in 1..n0 /\ f[a[c[j]]] \in 1..n0
                        /\ b[c[j]].outcome # "fail" /\ d[a[c[j]]].key = k
                        /\ b[c[j]] = OpOf(e[j]) /\ d[a[c[j]]] = OpOf(e[j])
  <2> TAKE j \in 1..n
  <2>1. c[j] \in T /\ c[j] \in 1..n1
    BY <1>10, <1>12
  <2>2. a[c[j]] \in S /\ a[c[j]] \in 1..n0
    BY <1>6, <1>8, <2>1
  <2>3. f[a[c[j]]] \in 1..n0
    BY <1>4, <2>2
  <2> QED BY <1>5, <1>9, <2>1, <2>2, <2>3
<1>15. e \in [1..n -> Ops]
  BY <1>1, <1>14
<1>16. \A o : OpOf(o).key = request[o].key /\ OpOf(o).outcome = outcome[o]
  BY DEF OpOf
<1>17. ASSUME NEW j \in 1..n PROVE Judged(k)[j] = OpOf(e[j]) /\ OnRecord(e[j], k)
  <2>1. Judged(k)[j] = b[c[j]]
    BY <1>13 DEF LaidOut
  <2>2. Ended(e[j])
    BY <1>1, <1>14 DEF Faithful, Complete
  <2>3. outcome[e[j]] # "fail" /\ request[e[j]].key = k
    <3> HIDE DEF e
    <3> QED BY <1>14, <1>16
  <2> QED BY <1>14, <2>1, <2>2, <2>3 DEF OnRecord
<1>18. ASSUME NEW i \in 1..n, NEW j \in 1..n, e[i] = e[j] PROVE i = j
  <2>1. f[a[c[i]]] = f[a[c[j]]]
    BY <1>1, <1>14, <1>18 DEF Faithful, Complete
  <2>2. a[c[i]] = a[c[j]]
    BY <1>4, <1>14, <2>1
  <2>3. c[i] = c[j]
    <3>1. c[i] \in 1..n1 /\ c[j] \in 1..n1
      BY <1>14
    <3>2. c[i] = c[j] \/ c[i] < c[j] \/ c[j] < c[i]
      BY <3>1
    <3>3. a[c[i]] \in Nat
      BY <1>1, <1>14
    <3> QED BY <1>8, <2>2, <3>1, <3>2, <3>3
  <2>4. c[i] \in Nat
    BY <1>14
  <2>5. i = j \/ i < j \/ j < i
    OBVIOUS
  <2> QED BY <1>12, <2>3, <2>4, <2>5
<1>19. ASSUME NEW o \in Ops, OnRecord(o, k) PROVE \E j \in 1..n : e[j] = o
  <2>1. PICK x \in 1..n0 : recorded[x] = o
    BY <1>1, <1>19 DEF OnRecord, Faithful, Complete
  <2>2. PICK y \in 1..n0 : f[y] = x
    BY <1>4
  <2>3. d[y] = OpOf(o)
    BY <1>5, <2>1, <2>2
  <2>4. y \in S
    BY <1>5, <1>16, <1>19, <2>3 DEF OnRecord
  <2>5. PICK z \in 1..n1 : a[z] = y
    BY <1>8, <2>4
  <2>6. b[z] = OpOf(o)
    BY <1>9, <2>1, <2>2, <2>5
  <2>7. z \in T
    BY <1>9, <1>16, <1>19, <2>6 DEF OnRecord
  <2>8. PICK j \in 1..n : c[j] = z
    BY <1>12, <2>7
  <2>9. e[j] = o
    BY <2>1, <2>2, <2>5, <2>8
  <2> QED BY <2>9
<1>20. List(Judged(k), n)
  <2>1. \A j \in 1..n : b[c[j]] \in X
    BY <1>14, <1>15
  <2> HIDE DEF X, e
  <2>2. List(LaidOut(b, c, n), n)
    BY <2>1, LaidOutList
  <2> QED BY <1>13, <2>2
<1> HIDE DEF e
<1> QED BY <1>15, <1>17, <1>18, <1>19, <1>20

(* What was answered is what happened, and what was not answered may have  *)
(* happened or not.                                                        *)
LEMMA RecordedFits ==
  ASSUME Faithful, NEW o \in Ops, Ended(o), outcome[o] # "fail"
  PROVE  /\ \A v : effect[o] # None /\ Fits(v, AsDone(o)) => Fits(v, OpOf(o))
         /\ \A v : After(v, OpOf(o)) = After(v, AsDone(o))
         /\ effect[o] = None => outcome[o] = "info" /\ \A v : Fits(v, OpOf(o))
<1> DEFINE r == request[o]
           p == OpOf(o)
           q == AsDone(o)
<1>1. outcome[o] \in {"ok", "info"}
  BY DEF Ended
<1>2. p.kind = r.kind /\ p.value = r.value /\ p.from = r.from /\ p.to = r.to /\ p.outcome = outcome[o]
  BY DEF OpOf
<1>3. p.outcome = "ok" => p.observed = answer[o].observed /\ p.swapped = answer[o].swapped
  <2>1. p.swapped = (outcome[o] = "ok" /\ answer[o].swapped)
    BY DEF OpOf
  <2>2. outcome[o] = "ok" => answer[o] \in Replies
    <3>1. outcome[o] = "ok" => answer[o] # None
      BY DEF Faithful, Honest
    <3> QED BY <3>1 DEF Faithful, Shapes
  <2>3. outcome[o] = "ok" => answer[o].swapped \in BOOLEAN
    BY <2>2 DEF Replies
  <2>4. outcome[o] = "ok" => p.swapped = answer[o].swapped
    <3> HIDE DEF p
    <3> QED BY <2>1, <2>3
  <2>5. outcome[o] = "ok" => p.observed = answer[o].observed
    BY DEF OpOf
  <2> QED BY <1>2, <2>4, <2>5
<1>4. q.kind = r.kind /\ q.value = r.value /\ q.from = r.from /\ q.to = r.to /\ q.outcome = "ok"
      /\ q.observed = effect[o].observed /\ q.swapped = effect[o].swapped
  BY DEF AsDone, Store!AsOp
<1>5. outcome[o] = "ok" => answer[o] = effect[o] /\ effect[o] # None
  BY DEF Faithful, Honest
<1>6. Models(p)
  <2>1. r \in Requests
    BY <1>1 DEF Faithful, Honest
  <2>2. Models(r)
    BY <2>1, RecorderAssumption
  <2> QED BY <1>2, <2>2 DEF Models
<1> HIDE DEF p, q, r
<1>7. ASSUME NEW v, Fits(v, q) PROVE Fits(v, p)
  <2>1. p.outcome = "ok" => p.observed = q.observed /\ p.swapped = q.swapped
    BY <1>2, <1>3, <1>4, <1>5
  <2> QED BY <1>2, <1>4, <1>6, <1>7, <2>1 DEF Fits, Known
<1>8. \A v : After(v, p) = After(v, q)
  BY <1>2, <1>4 DEF After
<1>9. outcome[o] = "info" => \A v : Fits(v, p)
  BY <1>2, <1>6 DEF Fits, Known
<1> QED BY <1>1, <1>5, <1>7, <1>8, <1>9 DEF p, q

LEMMA NeverConvictedHolds == Faithful => NeverConvicted
<1> SUFFICES ASSUME Faithful, Over, NEW k \in Registers PROVE Linearizable(Judged(k))
  BY DEF NeverConvicted, Judged
<1> DEFINE H == Judged(k)
<1>1. PICK n \in Nat : \E e \in [1..n -> Ops] :
           /\ List(H, n)
           /\ \A j \in 1..n : H[j] = OpOf(e[j]) /\ OnRecord(e[j], k)
           /\ \A i, j \in 1..n : e[i] = e[j] => i = j
           /\ \A o \in Ops : OnRecord(o, k) => \E j \in 1..n : e[j] = o
  BY JudgedIs
<1>2. PICK e \in [1..n -> Ops] :
           /\ List(H, n)
           /\ \A j \in 1..n : H[j] = OpOf(e[j]) /\ OnRecord(e[j], k)
           /\ \A i, j \in 1..n : e[i] = e[j] => i = j
           /\ \A o \in Ops : OnRecord(o, k) => \E j \in 1..n : e[j] = o
  BY <1>1
<1> HIDE DEF H
<1>3. PICK m, w, g : Line(k, m, w, g)
  BY DEF Faithful, InLine
<1>4. /\ m \in Nat /\ w \in [1..m -> Ops]
      /\ \A i, j \in 1..m : w[i] = w[j] => i = j
      /\ \A i \in 1..m : Happened(w[i], k)
      /\ \A o \in Ops : Happened(o, k) => \E i \in 1..m : w[i] = o
  BY <1>3 DEF Line
<1>5. ASSUME NEW o \in Ops, Happened(o, k) PROVE OnRecord(o, k)
  <2>1. effect[o] # None /\ request[o].key = k
    BY <1>5 DEF Happened
  <2>2. outcome[o] \notin {"idle", "fail"}
    BY <2>1 DEF Faithful, Honest
  <2>3. outcome[o] \in {"idle", "open", "ok", "fail", "info"} /\ outcome[o] # "open"
    BY DEF Faithful, Shapes, Over
  <2> QED BY <2>1, <2>2, <2>3 DEF OnRecord, Ended
<1>6. PICK x \in [1..m -> 1..n] : \A i \in 1..m : e[x[i]] = w[i]
  <2> DEFINE x == [i \in 1..m |-> CHOOSE j \in 1..n : e[j] = w[i]]
  <2>1. \A i \in 1..m : x[i] \in 1..n /\ e[x[i]] = w[i]
    <3> TAKE i \in 1..m
    <3>1. \E j \in 1..n : e[j] = w[i]
      BY <1>2, <1>4, <1>5
    <3> QED BY <3>1
  <2>2. x \in [1..m -> 1..n]
    BY <2>1
  <2> HIDE DEF x
  <2> QED BY <2>1, <2>2
<1> DEFINE S == {j \in 1..n : effect[e[j]] = None}
<1>7. S \in SUBSET Nat /\ IsFiniteSet(S)
  <2>1. S \in SUBSET (1..n) /\ IsFiniteSet(1..n)
    BY Numbered
  <2> HIDE DEF S
  <2>2. IsFiniteSet(S)
    BY <2>1, FS_Subset
  <2> QED BY <2>1, <2>2
<1>8. PICK l \in Nat : \E y \in [1..l -> S] :
           /\ \A i, j \in 1..l : i < j => y[i] < y[j]
           /\ \A i \in S : \E j \in 1..l : y[j] = i
  <2> HIDE DEF S
  <2>1. \E l \in Nat : \E y \in [1..l -> S] :
           /\ \A i, j \in 1..l : i < j => y[i] < y[j]
           /\ \A i \in S : \E j \in 1..l : y[j] = i
           /\ Kept(H, S) = LaidOut(H, y, l)
           /\ l = Cardinality(S)
    BY <1>7, KeptLaysOut
  <2> QED BY <2>1
<1>9. PICK y \in [1..l -> S] :
           /\ \A i, j \in 1..l : i < j => y[i] < y[j]
           /\ \A i \in S : \E j \in 1..l : y[j] = i
  BY <1>8
<1>10. \A i \in 1..l : y[i] \in 1..n /\ effect[e[y[i]]] = None
  BY <1>9
<1>11. \A i \in 1..n : effect[e[i]] = None => \E j \in 1..l : y[j] = i
  BY <1>9
<1>12. \A i, j \in 1..l : y[i] = y[j] => i = j
  <2> TAKE i, j \in 1..l
  <2>1. i = j \/ i < j \/ j < i
    OBVIOUS
  <2>2. y[i] \in Nat /\ y[j] \in Nat
    BY <1>10
  <2> QED BY <1>9, <2>1, <2>2
<1> HIDE DEF S
(* First what happened, in the order it did, then the rest.                *)
<1> DEFINE q == [i \in 1..(m + l) |-> IF i <= m THEN x[i] ELSE y[i - m]]
<1>13. \A i \in 1..(m + l) : /\ i <= m => i \in 1..m /\ q[i] = x[i]
                             /\ ~ (i <= m) => i - m \in 1..l /\ q[i] = y[i - m]
  BY <1>4
<1>14. /\ \A i \in 1..m : i \in 1..(m + l) /\ q[i] = x[i]
       /\ \A i \in 1..l : i + m \in 1..(m + l) /\ q[i + m] = y[i]
  BY <1>4
<1>15. q \in [1..(m + l) -> 1..n]
  <2>1. \A i \in 1..(m + l) : q[i] \in 1..n
    <3> TAKE i \in 1..(m + l)
    <3> HIDE DEF q
    <3>1. CASE i <= m
      BY <1>6, <1>13, <3>1
    <3>2. CASE ~ (i <= m)
      BY <1>10, <1>13, <3>2
    <3> QED BY <3>1, <3>2
  <2> QED BY <2>1
<1> HIDE DEF q
<1>16. \A i \in 1..(m + l) : (effect[e[q[i]]] # None) <=> i <= m
  <2> TAKE i \in 1..(m + l)
  <2>1. CASE i <= m
    <3>1. i \in 1..m /\ e[q[i]] = w[i]
      BY <1>6, <1>13, <2>1
    <3>2. effect[w[i]] # None
      BY <1>4, <3>1 DEF Happened
    <3> QED BY <2>1, <3>1, <3>2
  <2>2. CASE ~ (i <= m)
    BY <1>10, <1>13, <2>2
  <2> QED BY <2>1, <2>2
<1>17. \A i, j \in 1..(m + l) : q[i] = q[j] => i = j
  <2> SUFFICES ASSUME NEW i \in 1..(m + l), NEW j \in 1..(m + l), q[i] = q[j] PROVE i = j
    OBVIOUS
  <2>1. i <= m <=> j <= m
    BY <1>16
  <2>2. CASE i <= m
    <3>1. i \in 1..m /\ j \in 1..m /\ x[i] = x[j]
      BY <1>13, <2>1, <2>2
    <3>2. w[i] = w[j]
      BY <1>6, <3>1
    <3> QED BY <1>4, <3>1, <3>2
  <2>3. CASE ~ (i <= m)
    <3>1. i - m \in 1..l /\ j - m \in 1..l /\ y[i - m] = y[j - m]
      BY <1>13, <2>1, <2>3
    <3>2. i - m = j - m
      BY <1>12, <3>1
    <3> QED BY <1>4, <3>2
  <2> QED BY <2>2, <2>3
<1>18. \A a \in 1..n : \E i \in 1..(m + l) : q[i] = a
  <2> TAKE a \in 1..n
  <2>1. CASE effect[e[a]] = None
    BY <1>11, <1>14, <2>1
  <2>2. CASE effect[e[a]] # None
    <3>1. e[a] \in Ops /\ Happened(e[a], k)
      BY <1>2, <2>2 DEF OnRecord, Happened
    <3>2. PICK i \in 1..m : w[i] = e[a]
      BY <1>4, <3>1
    <3>3. x[i] = a
      BY <1>2, <1>6, <3>2
    <3> QED BY <1>14, <3>3
  <2> QED BY <2>1, <2>2
<1>19. m + l = n
  <2> DEFINE t == m + l
  <2>1. t \in Nat
    BY <1>4
  <2>2. Renumbers(q, t, n)
    BY <1>15, <1>17, <1>18 DEF Renumbers
  <2>3. n \in Nat
    BY <1>2
  <2> HIDE DEF t
  <2>4. t = n
    BY <2>1, <2>2, <2>3, SameLength
  <2> QED BY <2>4 DEF t
<1>20. Once(n, q)
  BY <1>15, <1>17, <1>19 DEF Once
<1>21. /\ \A i \in 1..n : q[i] \in 1..n /\ e[q[i]] \in Ops /\ H[q[i]] = OpOf(e[q[i]])
                        /\ Ended(e[q[i]]) /\ outcome[e[q[i]]] # "fail"
       /\ \A i \in 1..n : (effect[e[q[i]]] # None) <=> i <= m
       /\ \A i \in 1..n : i <= m => i \in 1..m /\ e[q[i]] = w[i]
  BY <1>2, <1>6, <1>13, <1>15, <1>16, <1>19 DEF OnRecord
<1>22. PICK c : Yields(H, q, n, c)
  BY ValuesExist
<1>23. m <= n
  BY <1>4, <1>19
<1>24. \A i \in 1..m : After(c[i], H[q[i]]) = After(c[i], AsDone(w[i]))
  <2> TAKE i \in 1..m
  <2>1. i \in 1..n /\ i <= m
    BY <1>4, <1>23
  <2> QED BY <1>21, <2>1, RecordedFits
<1>25. \A i \in 1..(m + 1) : c[i] = g[i]
  <2> DEFINE T == {i \in 1..(m + 1) : c[i] # g[i]}
  <2> SUFFICES ASSUME T # {} PROVE FALSE
    OBVIOUS
  <2>1. T \in SUBSET Nat
    OBVIOUS
  <2>2. PICK i \in T : \A j \in T : i <= j
    BY <2>1, LeastNumber
  <2>3. i \in 1..(m + 1) /\ c[i] # g[i] /\ i # 1
    BY <1>3, <1>22, <2>2 DEF Yields, Line
  <2>4. i - 1 \in 1..m /\ i - 1 \in 1..(m + 1) /\ ~ (i <= i - 1) /\ (i - 1) + 1 = i /\ i - 1 \in 1..n
    BY <1>4, <1>23, <2>3
  <2>5. c[i - 1] = g[i - 1]
    BY <2>2, <2>4
  <2>6. c[i] = After(c[i - 1], H[q[i - 1]])
    BY <1>22, <2>4 DEF Yields
  <2>7. g[i] = After(g[i - 1], AsDone(w[i - 1]))
    BY <1>3, <2>4 DEF Line
  <2> QED BY <1>24, <2>3, <2>4, <2>5, <2>6, <2>7
<1>26. ASSUME NEW i \in 1..n PROVE Fits(c[i], H[q[i]])
  <2>1. CASE i <= m
    <3>1. i \in 1..m /\ i \in 1..(m + 1) /\ e[q[i]] = w[i]
      BY <1>4, <1>21, <2>1
    <3>2. Fits(c[i], AsDone(w[i]))
      BY <1>3, <1>25, <3>1 DEF Line
    <3> QED BY <1>21, <2>1, <3>1, <3>2, RecordedFits
  <2>2. CASE ~ (i <= m)
    BY <1>21, <2>2, RecordedFits
  <2> QED BY <2>1, <2>2
<1>27. Chain(H, n, q, c)
  BY <1>22, <1>26 DEF Chain, Yields
<1>28. InTime(H, n, q)
  <2> SUFFICES ASSUME NEW i \in 1..n, NEW j \in 1..n, i < j, Precedes(H[q[j]], H[q[i]]) PROVE FALSE
    BY DEF InTime
  <2> DEFINE a == e[q[i]]
             b == e[q[j]]
  <2>1. a \in Ops /\ b \in Ops /\ Ended(a) /\ Ended(b) /\ completed[b] <= invoked[a]
    <3>1. H[q[j]] = OpOf(b) /\ H[q[i]] = OpOf(a)
      BY <1>21
    <3>2. OpOf(b).complete = completed[b] /\ OpOf(a).invoke = invoked[a]
      BY DEF OpOf
    <3> QED BY <1>21, <3>1, <3>2 DEF Precedes
  <2>2. invoked[a] \in Nat /\ completed[b] \in Nat /\ invoked[a] <= now /\ now \in Nat /\ now < Pending
    <3>1. now \in Nat /\ now <= MaxNow
      BY ClockAssumption DEF Faithful, Shapes
    <3>2. now < Pending
      BY <3>1, PendingAssumption, RecorderAssumption, ClockAssumption
    <3>3. outcome[a] # "idle"
      BY <2>1 DEF Ended
    <3> HIDE DEF a, b
    <3> QED BY <2>1, <3>1, <3>2, <3>3 DEF Faithful, Honest, Shapes
  <2>3. CASE j <= m
    <3>1. i \in 1..m /\ j \in 1..m /\ a = w[i] /\ b = w[j]
      BY <1>4, <1>21, <2>3
    <3>2. invoked[w[i]] < completed[w[j]]
      BY <1>3, <2>1, <3>1 DEF Line
    <3> QED BY <2>1, <2>2, <3>1, <3>2
  <2>4. CASE ~ (j <= m)
    <3>1. outcome[b] = "info"
      BY <1>21, <2>4, RecordedFits
    <3>2. completed[b] = Pending
      BY <2>1, <3>1 DEF Faithful, Honest
    <3> QED BY <2>1, <2>2, <3>2, PendingAssumption
  <2> QED BY <2>3, <2>4
<1>29. Linearizable(H)
  BY <1>2, <1>20, <1>27, <1>28, LinearizableIff
<1> QED BY <1>29 DEF H

(* A store that keeps its promise is never convicted: however coarse the   *)
(* clock, however late an effect and however many replies are lost, what   *)
(* is recorded of it on each register is linearizable (clock.go:11-29,     *)
(* single.go:11-19).                                                       *)
THEOREM ConsistentStoreNeverConvicted == RecorderSpec => []NeverConvicted
<1> QED BY FaithfulInit, FaithfulNext, NeverConvictedHolds, PTL DEF RecorderSpec
=============================================================================
