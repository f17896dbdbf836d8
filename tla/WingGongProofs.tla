---------------------------- MODULE WingGongProofs ----------------------------
(***************************************************************************)
(* For every history, model and budget: the search keeps its types, the    *)
(* frames on its stack always replay, its list is exactly what is left to  *)
(* place, its verdict is the truth, a refusal has a culprit, and it        *)
(* implements the abstract LinearizationSearch; and the reference it is    *)
(* tested against decides what the definition does.                        *)
(***************************************************************************)
EXTENDS CrossCheck, LinearizabilityProofs

-----------------------------------------------------------------------------
(***************************************************************************)
(* Whatever the pointers hold, building, lifting and unlifting keep every  *)
(* pointer inside the list.                                                *)
(***************************************************************************)
LEMMA FirstType == ASSUME NEW T PROVE First(T) \in T \cup {Nil}
  BY DEF First

LEMMA FinalType == ASSUME NEW T PROVE Final(T) \in T \cup {Sentinel}
  BY DEF Final

LEMMA BuildEntriesType == ASSUME NEW S PROVE BuildEntries(S) \in Lists(S)
<1> DEFINE Beyond(e) == {x \in Entries(S) : e = Sentinel \/ EntryLess(e, x)}
           Ahead(e)  == {x \in Entries(S) : EntryLess(x, e)}
           here      == {Sentinel} \cup Entries(S)
<1>1. \A e \in here : First(Beyond(e)) \in Entries(S) \cup {Nil}
  <2> SUFFICES ASSUME NEW e \in here PROVE First(Beyond(e)) \in Entries(S) \cup {Nil}
    OBVIOUS
  <2>1. First(Beyond(e)) \in Beyond(e) \cup {Nil}
    BY FirstType
  <2> QED  BY <2>1
<1>2. \A e \in here : Final(Ahead(e)) \in Entries(S) \cup {Sentinel}
  <2> SUFFICES ASSUME NEW e \in here PROVE Final(Ahead(e)) \in Entries(S) \cup {Sentinel}
    OBVIOUS
  <2>1. Final(Ahead(e)) \in Ahead(e) \cup {Sentinel}
    BY FinalType
  <2> QED  BY <2>1
<1>3. [e \in here |-> First(Beyond(e))] \in [here -> Entries(S) \cup {Nil}]
  BY <1>1
<1>4. [e \in here |-> IF e = Sentinel THEN Nil ELSE Final(Ahead(e))]
        \in [here -> Entries(S) \cup {Sentinel, Nil}]
  BY <1>2
<1> QED  BY <1>3, <1>4 DEF BuildEntries, Lists

LEMMA SpliceType ==
  ASSUME NEW S, NEW l \in Lists(S), NEW e \in Entries(S)
  PROVE  Splice(l, e) \in Lists(S)
<1>1. l.next[e] \in Entries(S) \cup {Nil} /\ l.prev[e] \in Entries(S) \cup {Sentinel, Nil}
  BY DEF Lists
<1>2. [l.next EXCEPT ![l.prev[e]] = l.next[e]]
        \in [{Sentinel} \cup Entries(S) -> Entries(S) \cup {Nil}]
  BY <1>1 DEF Lists
<1>3. [l.prev EXCEPT ![l.next[e]] = l.prev[e]]
        \in [{Sentinel} \cup Entries(S) -> Entries(S) \cup {Sentinel, Nil}]
  BY <1>1 DEF Lists
<1> QED  BY <1>2, <1>3 DEF Splice, Lists

LEMMA RejoinType ==
  ASSUME NEW S, NEW l \in Lists(S), NEW e \in Entries(S)
  PROVE  Rejoin(l, e) \in Lists(S)
<1>1. [l.next EXCEPT ![l.prev[e]] = e]
        \in [{Sentinel} \cup Entries(S) -> Entries(S) \cup {Nil}]
  BY DEF Lists
<1>2. [l.prev EXCEPT ![l.next[e]] = e]
        \in [{Sentinel} \cup Entries(S) -> Entries(S) \cup {Sentinel, Nil}]
  BY DEF Lists
<1> QED  BY <1>1, <1>2 DEF Rejoin, Lists

LEMMA MatchType == ASSUME NEW S, NEW e \in Entries(S) PROVE Match(e) \in Entries(S)
<1>1. PICK i \in S : e = Call(i) \/ e = Ret(i)
  BY DEF Entries
<1>2. CASE e = Call(i)
  BY <1>2 DEF Entries, Match, Call
<1>3. CASE e = Ret(i)
  BY <1>3 DEF Entries, Match, Ret
<1> QED  BY <1>1, <1>2, <1>3

LEMMA LiftType ==
  ASSUME NEW S, NEW l \in Lists(S), NEW e \in Entries(S)
  PROVE  Lift(l, e) \in Lists(S) /\ Unlift(l, e) \in Lists(S)
<1>1. Match(e) \in Entries(S)
  BY MatchType
<1>2. Splice(l, e) \in Lists(S) /\ Rejoin(l, Match(e)) \in Lists(S)
  BY <1>1, SpliceType, RejoinType
<1> QED  BY <1>1, <1>2, SpliceType, RejoinType DEF Lift, Unlift

(***************************************************************************)
(* The entries of S are those of its operations, and none is a sentinel.   *)
(***************************************************************************)
LEMMA EntryId ==
  ASSUME hist \in Seq(Operation), NEW S \in SUBSET Ids, NEW e \in Entries(S)
  PROVE  e.id \in S /\ e.isReturn \in BOOLEAN /\ e # Nil
<1>1. PICK i \in S : e = Call(i) \/ e = Ret(i)
  BY DEF Entries
<1>2. i \in Nat \ {0}
  BY DEF Ids
<1>3. e.id = i /\ e.isReturn \in BOOLEAN
  <2>1. CASE e = Call(i)
    BY <2>1 DEF Call
  <2>2. CASE e = Ret(i)
    BY <2>2 DEF Ret
  <2> QED  BY <1>1, <2>1, <2>2
<1>4. Nil.id = -1
  BY DEF Nil
<1> QED  BY <1>2, <1>3, <1>4

(***************************************************************************)
(* Replaying is undisturbed by one more frame that fits, and by taking the *)
(* last frame back.                                                        *)
(***************************************************************************)
LEMMA AfterType ==
  ASSUME NEW v \in Int, NEW op \in Operation
  PROVE  After(v, op) \in Int
  BY DEF After, Operation

LEMMA ReplayOneMore ==
  ASSUME NEW F, NEW w \in Seq(F), NEW v,
         Replays(hist, w, v), NEW i, Fits(v, hist[i])
  PROVE  Replays(hist, Append(w, [op |-> i, state |-> v]), After(v, hist[i]))
<1> DEFINE f == [op |-> i, state |-> v]
           x == Append(w, f)
           n == Len(w)
<1>1. n \in Nat /\ DOMAIN w = 1..n /\ Len(w) = n /\ (n = 0 <=> w = <<>>)
  OBVIOUS
<1>2. Len(x) = n + 1 /\ DOMAIN x = 1..(n+1)
  OBVIOUS
<1>3. x[n+1] = f /\ \A k \in 1..n : x[k] = w[k]
  OBVIOUS
<1>4. f.op = i /\ f.state = v
  OBVIOUS
<1>0. x # <<>>
  BY <1>1, <1>2
<1> HIDE DEF x, f, n
<1>5. x # <<>> /\ x[1].state = InitialValue
  <2>1. CASE w = <<>>
    <3>1. n = 0
      BY <1>1, <2>1
    <3>2. v = InitialValue
      BY <2>1, Zenon DEF Replays
    <3> QED  BY <1>0, <1>3, <1>4, <3>1, <3>2
  <2>2. CASE w # <<>>
    <3>1. 1 \in 1..n
      BY <1>1, <2>2
    <3>2. w[1].state = InitialValue
      BY <2>2, Zenon DEF Replays
    <3> QED  BY <1>0, <1>3, <3>1, <3>2
  <2> QED  BY <1>0, <2>1, <2>2
<1>6. ASSUME NEW k \in 1..(n+1)
      PROVE  /\ Fits(x[k].state, hist[x[k].op])
             /\ After(x[k].state, hist[x[k].op])
                  = IF k = n + 1 THEN After(v, hist[i]) ELSE x[k+1].state
  <2>1. CASE k = n + 1
    BY <1>3, <1>4, <2>1
  <2>2. CASE k \in 1..n
    <3>1. Fits(w[k].state, hist[w[k].op])
      BY <1>1, <2>2 DEF Replays
    <3>2. After(w[k].state, hist[w[k].op]) = IF k = n THEN v ELSE w[k+1].state
      BY <1>1, <2>2 DEF Replays
    <3>3. x[k] = w[k] /\ k # n + 1
      BY <1>1, <1>3, <2>2
    <3>4. x[k+1].state = IF k = n THEN v ELSE w[k+1].state
      <4>1. CASE k = n
        BY <1>3, <1>4, <4>1
      <4>2. CASE k # n
        <5>1. k + 1 \in 1..n
          BY <1>1, <2>2, <4>2
        <5> QED  BY <1>3, <4>2, <5>1
      <4> QED  BY <4>1, <4>2
    <3> QED  BY <3>1, <3>2, <3>3, <3>4
  <2> QED  BY <1>1, <2>1, <2>2
<1>7. Replays(hist, x, After(v, hist[i]))
  BY <1>2, <1>5, <1>6 DEF Replays
<1> QED  BY <1>7 DEF x, f

LEMMA ReplayOneLess ==
  ASSUME NEW F, NEW w \in Seq(F), NEW v,
         Replays(hist, w, v), w # <<>>
  PROVE  /\ Replays(hist, Front(w), Last(w).state)
         /\ Front(w) \in Seq(F)
         /\ Last(w) \in F
<1> DEFINE n == Len(w)
           x == SubSeq(w, 1, n - 1)
<1>1. n \in Nat /\ n >= 1 /\ DOMAIN w = 1..n /\ Len(w) = n
  OBVIOUS
<1>2. Last(w) = w[n] /\ Front(w) = x
  BY DEF Last, Front
<1>3. x \in Seq(F) /\ Len(x) = n - 1 /\ DOMAIN x = 1..(n-1)
  BY <1>1
<1>4. \A k \in 1..(n-1) : x[k] = w[k]
  BY <1>1
<1>0. w[n] \in F
  BY <1>1
<1> HIDE DEF x, n
<1>5. w[1].state = InitialValue
  BY DEF Replays
<1>6. IF x = <<>> THEN w[n].state = InitialValue ELSE x[1].state = InitialValue
  <2>1. CASE n = 1
    BY <1>3, <1>5, <2>1
  <2>2. CASE n # 1
    <3>1. 1 \in 1..(n-1)
      BY <1>1, <2>2
    <3> QED  BY <1>3, <1>4, <1>5, <3>1
  <2> QED  BY <2>1, <2>2
<1>7. ASSUME NEW k \in 1..(n-1)
      PROVE  /\ Fits(x[k].state, hist[x[k].op])
             /\ After(x[k].state, hist[x[k].op])
                  = IF k = n - 1 THEN w[n].state ELSE x[k+1].state
  <2>1. k \in 1..n /\ k # n
    BY <1>1
  <2>2. Fits(w[k].state, hist[w[k].op]) /\ After(w[k].state, hist[w[k].op]) = w[k+1].state
    BY <1>1, <2>1 DEF Replays
  <2>3. CASE k = n - 1
    BY <1>1, <1>4, <2>2, <2>3
  <2>4. CASE k # n - 1
    <3>1. k + 1 \in 1..(n-1)
      BY <1>1, <2>4
    <3> QED  BY <1>4, <2>2, <2>4, <3>1
  <2> QED  BY <2>3, <2>4
<1>8. Replays(hist, x, w[n].state)
  BY <1>3, <1>6, <1>7 DEF Replays
<1> QED  BY <1>0, <1>2, <1>3, <1>8

-----------------------------------------------------------------------------
(***************************************************************************)
(* While a search runs, what is on its stack is among the operations it    *)
(* was given, so unlifting a frame touches only entries of this list.      *)
(***************************************************************************)
StackInScope == Searching => \A k \in DOMAIN calls : calls[k].op \in scope

(***************************************************************************)
(* The invariant: the types, the frames that replay, and the scope.        *)
(***************************************************************************)
WalkInv == TypeOK /\ FramesReplay /\ StackInScope

LEMMA StackKept ==
  ASSUME StackInScope, UNCHANGED <<calls, scope>>, Searching' => Searching
  PROVE  StackInScope'
  BY DEF StackInScope

LEMMA StackEmptied == ASSUME calls' = <<>> PROVE StackInScope'
  BY DEF StackInScope

LEMMA WalkInvInit == Init => WalkInv
<1> SUFFICES ASSUME Init PROVE WalkInv
  OBVIOUS
<1>1. hist \in Seq(Operation)
  BY HistoriesAssumption DEF Init
<1>2. list \in Lists(scope)
  BY BuildEntriesType DEF Init
<1>3. calls \in Seq(Frame)
  BY DEF Init
<1>4. best \in [depth : Nat \cup {-1}, state : Int, op : Ids \cup {0}]
  BY DEF Init, InitialValue
<1>5. TypeOK
  BY <1>1, <1>2, <1>3, <1>4 DEF Init, TypeOK, Phases, Verdicts, InitialValue
<1>6. FramesReplay
  BY DEF Init, FramesReplay, Replays
<1>7. StackInScope
  BY DEF Init, StackInScope
<1> QED  BY <1>5, <1>6, <1>7 DEF WalkInv

(***************************************************************************)
(* Starting a search over some of the operations sets everything up.       *)
(***************************************************************************)
LoadedOK ==
  /\ scope \subseteq Ids /\ lin \subseteq Ids
  /\ list \in Lists(scope)
  /\ cursor \in Entries(scope) \cup {Nil}
  /\ value \in Int
  /\ seen \subseteq (SUBSET Ids) \X Int
  /\ calls \in Seq(Frame)
  /\ best \in [depth : Nat \cup {-1}, state : Int, op : Ids \cup {0}]
  /\ visits \in Nat /\ iters \in Nat
  /\ FramesReplay

LEMMA LoadOK ==
  ASSUME TypeOK, UNCHANGED hist, NEW S \in SUBSET Ids, Load(S)
  PROVE  LoadedOK'
<1>1. BuildEntries(S) \in Lists(S)
  BY BuildEntriesType
<1>2. BuildEntries(S).next[Sentinel] \in Entries(S) \cup {Nil}
  BY <1>1 DEF Lists
<1>3. list' \in Lists(scope') /\ cursor' \in Entries(scope') \cup {Nil}
  BY <1>1, <1>2 DEF Load
<1>4. calls' \in Seq(Frame')
  BY DEF Load
<1>5. best' \in [depth : Nat \cup {-1}, state : Int, op : Ids' \cup {0}]
  BY DEF Load, InitialValue, Ids
<1>6. FramesReplay'
  BY DEF Load, FramesReplay, Replays
<1>7. scope' \subseteq Ids' /\ lin' \subseteq Ids' /\ seen' \subseteq (SUBSET Ids') \X Int
  BY DEF Load, Ids
<1> QED  BY <1>3, <1>4, <1>5, <1>6, <1>7 DEF Load, LoadedOK, InitialValue, Lists, Entries, Call, Ret

LEMMA FallBackOK ==
  ASSUME WalkInv, NEW used \in Nat, FallBack(used)
  PROVE  WalkInv'
<1> USE DEF WalkInv
<1>1. CASE opt.maxVisits > 0 /\ used >= opt.maxVisits
  <2>1. /\ UNCHANGED <<hist, opt, expired, scope, list, cursor, lin, value, seen, calls,
                       best, iters>>
        /\ phase' = "done" /\ verdict' = "unknown" /\ visits' = 0 /\ spent' = used
    BY <1>1 DEF FallBack, input
  <2>2. TypeOK'
    BY <2>1 DEF TypeOK, Phases, Verdicts, Ids, Frame
  <2>3. FramesReplay'
    BY <2>1 DEF FramesReplay
  <2>4. StackInScope'
    BY <2>1 DEF StackInScope, Searching
  <2> QED  BY <2>2, <2>3, <2>4
<1>2. CASE ~(opt.maxVisits > 0 /\ used >= opt.maxVisits)
  <2>1. LoadedOK'
    BY <1>2, LoadOK DEF FallBack, input, Ids
  <2>2. StackInScope'
    BY <1>2, StackEmptied DEF FallBack, Load
  <2> QED  BY <1>2, <2>1, <2>2 DEF FallBack, TypeOK, LoadedOK, Phases, Verdicts, input
<1> QED  BY <1>1, <1>2

LEMMA ConcludeOK ==
  ASSUME WalkInv, NEW v \in Verdicts, Conclude(v)
  PROVE  WalkInv'
<1> USE DEF WalkInv
<1>1. CASE phase = "full"
  <2>1. TypeOK' /\ FramesReplay'
    BY <1>1 DEF Conclude, TypeOK, FramesReplay, Phases, input, walk, Ids, Frame
  <2>2. StackInScope'
    BY <1>1, StackKept DEF Conclude, Searching, walk
  <2> QED  BY <2>1, <2>2
<1>2. CASE phase # "full" /\ v = "linearizable"
  <2>1. TypeOK' /\ FramesReplay'
    BY <1>2 DEF Conclude, TypeOK, FramesReplay, Phases, input, walk, Ids, Frame
  <2>2. StackInScope'
    BY <1>2, StackKept DEF Conclude, Searching, walk
  <2> QED  BY <2>1, <2>2
<1>3. CASE phase # "full" /\ v # "linearizable"
  <2>1. visits \in Nat /\ FallBack(visits)
    BY <1>3 DEF Conclude, TypeOK
  <2> QED  BY <2>1, FallBackOK
<1> QED  BY <1>1, <1>2, <1>3

(***************************************************************************)
(* The least indeterminate operation not yet appended is one of them.      *)
(***************************************************************************)
LEMMA NextUpType ==
  ASSUME hist \in Seq(Operation), Unappended # {}
  PROVE  NextUp \in Unappended /\ NextUp \in Ids
<1>1. Unappended \in SUBSET Nat
  BY DEF Unappended
<1>2. \E i \in Unappended : \A j \in Unappended : i <= j
  BY <1>1, LeastNumber
<1> QED  BY <1>2 DEF NextUp, Unappended, Ids

LEMMA WalkInvNext == WalkInv /\ [Next]_vars => WalkInv'
<1> SUFFICES ASSUME WalkInv, [Next]_vars PROVE WalkInv'
  OBVIOUS
<1>0. TypeOK /\ FramesReplay /\ StackInScope /\ hist \in Seq(Operation)
  BY DEF WalkInv, TypeOK
<1>1. CASE EnterEmpty
  <2>1. TypeOK' /\ FramesReplay'
    BY <1>0, <1>1 DEF EnterEmpty, TypeOK, FramesReplay, Phases, Verdicts, input, walk, Ids, Frame
  <2>2. StackInScope'
    BY <1>0, <1>1, StackKept DEF EnterEmpty, Searching, walk
  <2> QED  BY <2>1, <2>2 DEF WalkInv
<1>2. CASE EnterProbe
  <2>1. LoadedOK'
    BY <1>0, <1>2, LoadOK DEF EnterProbe, Returned, input, Ids
  <2>2. StackInScope'
    BY <1>2, StackEmptied DEF EnterProbe, Load
  <2> QED  BY <1>0, <1>2, <2>1, <2>2 DEF EnterProbe, WalkInv, TypeOK, LoadedOK, Phases, input
<1>3. CASE EnterFull
  <2>1. LoadedOK'
    BY <1>0, <1>3, LoadOK DEF EnterFull, input, Ids
  <2>2. StackInScope'
    BY <1>3, StackEmptied DEF EnterFull, Load
  <2> QED  BY <1>0, <1>3, <2>1, <2>2 DEF EnterFull, WalkInv, TypeOK, LoadedOK, Phases, input
<1>4. CASE Solved
  BY <1>4, ConcludeOK DEF Solved, Verdicts
<1>5. CASE FailClosed
  BY <1>5, ConcludeOK DEF FailClosed, Verdicts
<1>6. CASE NoOrder
  BY <1>6, ConcludeOK DEF NoOrder, Verdicts
<1>7. ASSUME AtEntry(FALSE)
      PROVE  /\ cursor \in Entries(scope) /\ cursor.id \in Ids
             /\ hist[cursor.id] \in Operation
             /\ NextValue \in Int
             /\ list.next[cursor] \in Entries(scope) \cup {Nil}
             /\ iters' \in Nat
  <2>1. cursor \in Entries(scope) /\ scope \in SUBSET Ids
    BY <1>0, <1>7 DEF AtEntry, TypeOK
  <2>2. cursor.id \in Ids
    BY <1>0, <2>1, EntryId
  <2>3. hist[cursor.id] \in Operation
    BY <1>0, <2>2 DEF Ids
  <2>4. NextValue \in Int
    BY <1>0, <2>3, AfterType DEF NextValue, TypeOK
  <2>5. list.next[cursor] \in Entries(scope) \cup {Nil}
    BY <1>0, <2>1 DEF TypeOK, Lists
  <2>6. iters' \in Nat
    <3>1. iters \in Nat /\ DeadlineCheckEvery \in Nat \ {0}
      BY <1>0, OptionsAssumption DEF TypeOK
    <3> QED  BY <1>7, <3>1 DEF AtEntry
  <2> QED  BY <2>1, <2>2, <2>3, <2>4, <2>5, <2>6
<1>8. CASE PlaceCall
  <2>1. AtEntry(FALSE) /\ UNCHANGED <<hist, opt, expired, phase, scope, best, spent, verdict>>
    BY <1>8 DEF PlaceCall, input
  <2>2. list' \in Lists(scope) /\ cursor' \in Entries(scope) \cup {Nil}
    <3>1. list' \in Lists(scope)
      BY <1>0, <1>7, <1>8, <2>1, LiftType DEF PlaceCall, TypeOK
    <3> QED  BY <1>8, <3>1 DEF PlaceCall, FrontEntry, Lists
  <2>3. [op |-> cursor.id, state |-> value] \in Frame
    BY <1>0, <1>7, <2>1 DEF Frame, TypeOK
  <2>4. calls' \in Seq(Frame)
    BY <1>0, <1>8, <2>3 DEF PlaceCall, TypeOK
  <2>5. Explored \in (SUBSET Ids) \X Int
    BY <1>0, <1>7, <2>1 DEF Explored, TypeOK
  <2>6. TypeOK'
    BY <1>0, <1>7, <1>8, <2>1, <2>2, <2>4, <2>5 DEF PlaceCall, TypeOK, Ids, Frame
  <2>7. Replays(hist, calls', value')
    BY <1>0, <1>8, ReplayOneMore DEF PlaceCall, FramesReplay, NextValue, TypeOK
  <2>8. StackInScope'
    <3>1. cursor.id \in scope
      BY <1>0, <1>7, <2>1, EntryId DEF TypeOK
    <3>2. Searching
      BY <2>1 DEF AtEntry, Looping
    <3>3. \A k \in DOMAIN calls' : calls'[k].op \in scope
      <4> DEFINE f == [op |-> cursor.id, state |-> value]
      <4>1. f.op \in scope /\ calls' = Append(calls, f) /\ calls \in Seq(Frame)
        BY <1>0, <1>8, <3>1 DEF PlaceCall, TypeOK
      <4>2. \A k \in DOMAIN calls : calls[k].op \in scope
        BY <1>0, <3>2 DEF StackInScope
      <4> HIDE DEF f
      <4> QED  BY <4>1, <4>2
    <3> QED  BY <2>1, <3>3 DEF StackInScope
  <2> QED  BY <2>1, <2>6, <2>7, <2>8 DEF FramesReplay, WalkInv
<1>9. CASE SkipSeen
  <2>1. TypeOK' /\ FramesReplay'
    BY <1>0, <1>7, <1>9 DEF SkipSeen, TypeOK, FramesReplay, input, Ids, Frame
  <2>2. StackInScope'
    BY <1>0, <1>9, StackKept DEF SkipSeen, Searching
  <2> QED  BY <2>1, <2>2 DEF WalkInv
<1>10. CASE SkipRefused
  <2>0. calls \in Seq(Frame)
    BY <1>0 DEF TypeOK
  <2>1. AtEntry(FALSE) /\ Len(calls) \in Nat
    <3>1. AtEntry(FALSE)
      BY <1>10 DEF SkipRefused
    <3>2. Len(calls) \in Nat
      BY <2>0
    <3> QED  BY <3>1, <3>2
  <2>2. best' \in [depth : Nat \cup {-1}, state : Int, op : Ids \cup {0}]
    BY <1>0, <1>7, <1>10, <2>1 DEF SkipRefused, Deeper, TypeOK
  <2>3. TypeOK' /\ FramesReplay'
    BY <1>0, <1>7, <1>10, <2>1, <2>2 DEF SkipRefused, TypeOK, FramesReplay, input, Ids, Frame
  <2>4. StackInScope'
    BY <1>0, <1>10, StackKept DEF SkipRefused, Searching
  <2> QED  BY <2>3, <2>4 DEF WalkInv
<1>11. CASE Backtrack
  <2> DEFINE top == Last(calls)
             n   == Len(calls)
  <2>0. calls \in Seq(Frame) /\ calls # <<>> /\ Searching
    BY <1>0, <1>11 DEF Backtrack, CanTakeBack, AtEntry, Looping, TypeOK
  <2>1. /\ Replays(hist, Front(calls), top.state)
        /\ Front(calls) \in Seq(Frame)
        /\ top \in Frame
    BY <1>0, <2>0, ReplayOneLess DEF FramesReplay
  <2>2. /\ calls' = Front(calls) /\ value' = top.state
        /\ lin' = lin \ {top.op}
        /\ list' = Unlift(list, Call(top.op))
        /\ cursor' = Resume(list', top.op)
        /\ iters' = (iters + 1) % DeadlineCheckEvery
        /\ UNCHANGED <<hist, opt, expired, phase, scope, seen, best, visits, spent, verdict>>
    BY <1>11 DEF Backtrack, Top, AtEntry, input
  <2>3. n \in Nat /\ n >= 1 /\ DOMAIN calls = 1..n /\ top = calls[n]
    BY <2>0 DEF Last
  <2>4. \A k \in 1..n : calls[k].op \in scope
    BY <1>0, <2>0, <2>3 DEF StackInScope
  <2>5. Call(top.op) \in Entries(scope)
    BY <2>3, <2>4 DEF Entries
  <2>6. list' \in Lists(scope)
    BY <1>0, <2>2, <2>5, LiftType DEF TypeOK
  <2>7. cursor' \in Entries(scope) \cup {Nil}
    BY <2>2, <2>5, <2>6 DEF Resume, Lists
  <2>8. top.state \in Int
    BY <2>1 DEF Frame
  <2>14. iters' \in Nat
    BY <1>0, <2>2, OptionsAssumption DEF TypeOK
  <2>9. TypeOK'
    BY <1>0, <2>14, <2>1, <2>2, <2>6, <2>7, <2>8 DEF TypeOK, Ids, Frame
  <2>10. FramesReplay'
    BY <2>1, <2>2 DEF FramesReplay
  <2>11. \A k \in DOMAIN Front(calls) : Front(calls)[k].op \in scope
    <3>1. Front(calls) = SubSeq(calls, 1, n - 1)
      BY DEF Front
    <3>2. DOMAIN Front(calls) = 1..(n-1) /\ \A k \in 1..(n-1) : Front(calls)[k] = calls[k]
      BY <2>0, <2>3, <3>1
    <3> HIDE DEF n
    <3> QED  BY <2>3, <2>4, <3>2
  <2>12. StackInScope'
    BY <2>2, <2>11 DEF StackInScope
  <2> QED  BY <2>9, <2>10, <2>12 DEF WalkInv
<1>12. CASE AppendNext
  <2>1. NextUp \in Ids /\ hist[NextUp] \in Operation
    BY <1>0, <1>12, NextUpType DEF AppendNext, Ids
  <2>2. value' \in Int
    BY <1>0, <1>12, <2>1, AfterType DEF AppendNext, TypeOK
  <2>3. [op |-> NextUp, state |-> value] \in Frame
    BY <1>0, <2>1 DEF Frame, TypeOK
  <2>4. calls' \in Seq(Frame)
    BY <1>0, <1>12, <2>3 DEF AppendNext, TypeOK
  <2>5. TypeOK'
    BY <1>0, <1>12, <2>2, <2>4 DEF AppendNext, TypeOK, input, Ids, Frame
  <2>6. Replays(hist, calls', value')
    BY <1>0, <1>12, ReplayOneMore DEF AppendNext, TailFits, FramesReplay, TypeOK
  <2>7. StackInScope'
    BY <1>12 DEF AppendNext, StackInScope, Searching
  <2> QED  BY <1>12, <2>5, <2>6, <2>7 DEF AppendNext, FramesReplay, WalkInv, input
<1>13. CASE AppendRefused
  <2>1. visits + 1 \in Nat
    BY <1>0 DEF TypeOK
  <2> QED  BY <1>13, <2>1, FallBackOK DEF AppendRefused
<1>14. CASE AppendDone
  <2>1. TypeOK' /\ FramesReplay'
    BY <1>0, <1>14 DEF AppendDone, TypeOK, FramesReplay, Phases, Verdicts, input, walk, Ids, Frame
  <2>2. StackInScope'
    BY <1>0, <1>14, StackKept DEF AppendDone, Searching, walk
  <2> QED  BY <2>1, <2>2 DEF WalkInv
<1>15. CASE DeadlinePasses
  <2>1. TypeOK' /\ FramesReplay'
    BY <1>0, <1>15 DEF DeadlinePasses, TypeOK, FramesReplay, input, walk, Ids, Frame
  <2>2. StackInScope'
    BY <1>0, <1>15, StackKept DEF DeadlinePasses, Searching, walk
  <2> QED  BY <2>1, <2>2 DEF WalkInv
<1>16. CASE UNCHANGED vars
  <2>1. TypeOK' /\ FramesReplay'
    BY <1>0, <1>16 DEF vars, TypeOK, FramesReplay, input, walk, Ids, Frame
  <2>2. StackInScope'
    BY <1>0, <1>16, StackKept DEF vars, Searching, walk
  <2> QED  BY <2>1, <2>2 DEF WalkInv
<1> QED
  BY <1>1, <1>2, <1>3, <1>4, <1>5, <1>6, <1>8, <1>9, <1>10, <1>11, <1>12, <1>13, <1>14,
     <1>15, <1>16 DEF Next, Step

(***************************************************************************)
(* Type correctness of the walk, its pointers included: no sequence of     *)
(* lifts, unlifts and restarts leaves a pointer outside the entry list.    *)
(***************************************************************************)
THEOREM WalkTypes == Spec => []TypeOK
<1>1. WalkInv => TypeOK
  BY DEF WalkInv
<1> QED  BY <1>1, WalkInvInit, WalkInvNext, PTL DEF Spec

(***************************************************************************)
(* Backtracking is exact: in every reachable state the operations on the   *)
(* stack, replayed from the initial value, all fit and lead to the state   *)
(* the search goes on with - so a pass comes with operations that replay.  *)
(***************************************************************************)
THEOREM WalkFramesReplay == Spec => []FramesReplay
<1>1. WalkInv => FramesReplay
  BY DEF WalkInv
<1> QED  BY <1>1, WalkInvInit, WalkInvNext, PTL DEF Spec

-----------------------------------------------------------------------------
(***************************************************************************)
(* The order of entries.                                                   *)
(***************************************************************************)

(* What the proofs need of a history: valid operations, invoked before the *)
(* end of time, and no two that each precede the other.                    *)
HistOK ==
  /\ hist \in Seq(Operation)
  /\ \A i \in Ids : ValidOp(hist[i]) /\ hist[i].invoke < Pending
  /\ \A i, j \in Ids : i # j /\ Precedes(hist[i], hist[j]) => ~Precedes(hist[j], hist[i])

(* Every history searchKey can be given is one: Validate has refused twin  *)
(* instants and ByKey has left one key (history.go:187-240).               *)
LEMMA InputOK == ASSUME hist \in Histories PROVE HistOK
<1>1. /\ hist \in Seq(Operation)
      /\ \A i \in Ids : ValidOp(hist[i]) /\ hist[i].invoke < Pending
      /\ NoTwinInstants(hist) /\ \A i, j \in Ids : hist[i].key = hist[j].key
  BY HistoriesAssumption DEF Ids
<1>2. ASSUME NEW i \in Ids, NEW j \in Ids, i # j,
             Precedes(hist[i], hist[j]), Precedes(hist[j], hist[i])
      PROVE  FALSE
  <2>1. hist[i] \in Operation /\ hist[j] \in Operation
    BY <1>1 DEF Ids
  <2>2. /\ hist[i].invoke \in Int /\ hist[i].complete \in Int
        /\ hist[j].invoke \in Int /\ hist[j].complete \in Int
    BY <2>1 DEF Operation
  <2>3. /\ hist[i].outcome # "info" => hist[i].complete >= hist[i].invoke
        /\ hist[j].outcome # "info" => hist[j].complete >= hist[j].invoke
        /\ hist[i].outcome = "info" => hist[i].complete = Pending
        /\ hist[j].outcome = "info" => hist[j].complete = Pending
        /\ hist[i].invoke < Pending /\ hist[j].invoke < Pending
    BY <1>1 DEF ValidOp
  <2>4. /\ hist[i].complete <= hist[j].invoke /\ hist[j].complete <= hist[i].invoke
    BY <1>2 DEF Precedes
  <2>5. /\ hist[i].outcome # "info" /\ hist[j].outcome # "info"
        /\ hist[i].invoke = hist[j].invoke
        /\ hist[i].complete = hist[i].invoke /\ hist[j].complete = hist[j].invoke
    BY <2>2, <2>3, <2>4, PendingAssumption
  <2> QED  BY <1>1, <1>2, <2>5 DEF NoTwinInstants, ZeroWidth, Ids
<1> QED  BY <1>1, <1>2 DEF HistOK

(* All the call and return entries of the history.                         *)
Everything == Entries(Ids)

(* An entry is the call or the return of one operation, and no sentinel.   *)
LEMMA EntryParts ==
  ASSUME HistOK, NEW e \in Everything
  PROVE  /\ e.id \in Ids /\ e.id \in Nat /\ e.id # 0
         /\ (e = Call(e.id) /\ ~e.isReturn) \/ (e = Ret(e.id) /\ e.isReturn)
         /\ Time(e) \in Int /\ Rank(e) \in {0, 1, 2}
         /\ e # Sentinel /\ e # Nil
<1>1. PICK i \in Ids : e = Call(i) \/ e = Ret(i)
  BY DEF Everything, Entries
<1>2. i \in Nat /\ i # 0 /\ hist[i] \in Operation
  BY DEF HistOK, Ids
<1>3. hist[i].invoke \in Int /\ hist[i].complete \in Int
  BY <1>2 DEF Operation
<1>4. Rank(e) \in {0, 1, 2}
  BY DEF Rank
<1>5. CASE e = Call(i)
  BY <1>2, <1>3, <1>4, <1>5 DEF Call, Time, Sentinel, Nil
<1>6. CASE e = Ret(i)
  BY <1>2, <1>3, <1>4, <1>6 DEF Ret, Time, Sentinel, Nil
<1> QED  BY <1>1, <1>5, <1>6

(* entryLess is a strict total order on the entries (checker.go:391-445).  *)
LEMMA OrderTotal ==
  ASSUME HistOK, NEW a \in Everything, NEW b \in Everything
  PROVE  /\ a = b \/ EntryLess(a, b) \/ EntryLess(b, a)
         /\ ~(EntryLess(a, b) /\ EntryLess(b, a))
         /\ ~EntryLess(a, a)
<1>1. /\ a.id \in Nat /\ b.id \in Nat
      /\ (a = Call(a.id) /\ ~a.isReturn) \/ (a = Ret(a.id) /\ a.isReturn)
      /\ (b = Call(b.id) /\ ~b.isReturn) \/ (b = Ret(b.id) /\ b.isReturn)
      /\ Time(a) \in Int /\ Rank(a) \in Int /\ Time(b) \in Int /\ Rank(b) \in Int
  BY EntryParts
<1>2. a.id = b.id /\ (a.isReturn <=> b.isReturn) => a = b
  BY <1>1
<1> QED  BY <1>1, <1>2 DEF EntryLess

(* And it is transitive.                                                   *)
LEMMA OrderTransitive ==
  ASSUME HistOK, NEW a \in Everything, NEW b \in Everything, NEW c \in Everything,
         EntryLess(a, b), EntryLess(b, c)
  PROVE  EntryLess(a, c)
<1>1. /\ a.id \in Nat /\ b.id \in Nat /\ c.id \in Nat
      /\ Time(a) \in Int /\ Rank(a) \in Int /\ Time(b) \in Int /\ Rank(b) \in Int
      /\ Time(c) \in Int /\ Rank(c) \in Int
  BY EntryParts
<1> QED  BY <1>1 DEF EntryLess

(* An operation's call comes before its return, zero-width ones included.  *)
LEMMA CallBeforeRet ==
  ASSUME HistOK, NEW i \in Ids
  PROVE  EntryLess(Call(i), Ret(i))
<1>1. hist[i] \in Operation /\ ValidOp(hist[i]) /\ hist[i].invoke < Pending
  BY DEF HistOK, Ids
<1>2. /\ hist[i].invoke \in Int /\ hist[i].complete \in Int
      /\ hist[i].invoke <= hist[i].complete
  <2>1. /\ hist[i].outcome = "info" => hist[i].complete = Pending
        /\ hist[i].outcome # "info" => hist[i].complete >= hist[i].invoke
    BY <1>1 DEF ValidOp
  <2> QED BY <1>1, <2>1, PendingAssumption DEF Operation
<1> QED  BY <1>2 DEF EntryLess, Call, Ret, Time, Rank, Instant

(* A return is before another operation's call exactly when the one        *)
(* operation precedes the other: the list says what real time says.        *)
LEMMA RetBeforeCall ==
  ASSUME HistOK, NEW i \in Ids, NEW j \in Ids, i # j
  PROVE  EntryLess(Ret(i), Call(j)) <=> Precedes(hist[i], hist[j])
<1>1. hist[i] \in Operation /\ hist[j] \in Operation
  BY DEF HistOK, Ids
<1>2. /\ hist[i].invoke \in Int /\ hist[i].complete \in Int
      /\ hist[j].invoke \in Int /\ hist[j].complete \in Int
  BY <1>1 DEF Operation
<1>3. Precedes(hist[i], hist[j]) => ~Precedes(hist[j], hist[i])
  BY DEF HistOK
<1> QED  BY <1>2, <1>3 DEF EntryLess, Call, Ret, Time, Rank, Instant, Precedes

-----------------------------------------------------------------------------
(***************************************************************************)
(* Where the pointers of a list must go.                                   *)
(***************************************************************************)

(* There are finitely many entries.                                        *)
LEMMA EverythingFinite == ASSUME HistOK PROVE IsFiniteSet(Everything)
<1>1. IsFiniteSet(Ids)
  <2>1. Len(hist) \in Nat /\ Ids = 1..Len(hist)
    BY DEF HistOK, Ids
  <2> QED  BY <2>1, FS_Interval
<1> DEFINE CS == {Call(i) : i \in Ids}
           RS == {Ret(i) : i \in Ids}
<1>2. IsFiniteSet(CS)
  <2>1. CS = {Call(i) : i \in Ids} OBVIOUS
  <2>2. PICK f : f = [i \in Ids |-> Call(i)] OBVIOUS
  <2>3. f \in Surjection(Ids, CS)
    BY <2>2 DEF Surjection
  <2> QED  BY <1>1, <2>3, FS_Surjection
<1>3. IsFiniteSet(RS)
  <2>2. PICK f : f = [i \in Ids |-> Ret(i)] OBVIOUS
  <2>3. f \in Surjection(Ids, RS)
    BY <2>2 DEF Surjection
  <2> QED  BY <1>1, <2>3, FS_Surjection
<1>4. Everything = CS \cup RS
  BY DEF Everything, Entries
<1> HIDE DEF CS, RS
<1> QED  BY <1>2, <1>3, <1>4, FS_Union

(* What comes before an entry; how many there are is its position.         *)
Before(e) == {x \in Everything : EntryLess(x, e)}

(* A later entry has a larger position.                                    *)
LEMMA PositionGrows ==
  ASSUME HistOK, NEW a \in Everything, NEW b \in Everything, EntryLess(a, b)
  PROVE  /\ Cardinality(Before(a)) \in Nat /\ Cardinality(Before(b)) \in Nat
         /\ Cardinality(Before(a)) < Cardinality(Before(b))
         /\ Cardinality(Before(b)) <= Cardinality(Everything)
         /\ Cardinality(Everything) \in Nat
<1>1. Before(a) \subseteq Before(b)
  <2> SUFFICES ASSUME NEW x \in Before(a) PROVE x \in Before(b)
    OBVIOUS
  <2>1. x \in Everything /\ EntryLess(x, a)
    BY DEF Before
  <2>2. EntryLess(x, b)
    BY <2>1, OrderTransitive
  <2> QED  BY <2>1, <2>2 DEF Before
<1>2. a \in Before(b) /\ a \notin Before(a)
  BY OrderTotal DEF Before
<1>3. IsFiniteSet(Everything) /\ Before(b) \subseteq Everything
  BY EverythingFinite DEF Before
<1>4. IsFiniteSet(Before(b))
  BY <1>3, FS_Subset
<1>5. Before(a) # Before(b)
  BY <1>2
<1>6. Cardinality(Before(a)) < Cardinality(Before(b))
  <2>1. IsFiniteSet(Before(a)) /\ Cardinality(Before(a)) <= Cardinality(Before(b))
    BY <1>1, <1>4, FS_Subset
  <2>2. Cardinality(Before(a)) # Cardinality(Before(b))
    BY <1>1, <1>4, <1>5, FS_Subset
  <2>3. Cardinality(Before(a)) \in Nat /\ Cardinality(Before(b)) \in Nat
    BY <1>4, <2>1, FS_CardinalityType
  <2> QED  BY <2>1, <2>2, <2>3
<1> QED  BY <1>1, <1>3, <1>4, <1>6, FS_Subset, FS_CardinalityType

(* A non-empty set of entries has a first one.                             *)
LEMMA FirstExists ==
  ASSUME HistOK, NEW T \in SUBSET Everything, T # {}
  PROVE  First(T) \in T /\ \A b \in T \ {First(T)} : EntryLess(First(T), b)
<1> DEFINE places == {Cardinality(Before(e)) : e \in T}
<1>0. \A e \in T : Cardinality(Before(e)) \in Nat
  <2> TAKE e \in T
  <2>1. IsFiniteSet(Everything) /\ Before(e) \subseteq Everything
    BY EverythingFinite DEF Before
  <2> QED  BY <2>1, FS_Subset, FS_CardinalityType
<1>1. places \subseteq Nat /\ places # {}
  BY <1>0
<1>2. PICK n \in places : \A m \in places : n <= m
  <2> HIDE DEF places
  <2> QED  BY <1>1, LeastNumber
<1>3. PICK a \in T : n = Cardinality(Before(a))
  BY <1>2
<1>4. ASSUME NEW b \in T \ {a} PROVE EntryLess(a, b)
  <2>1. Cardinality(Before(a)) <= Cardinality(Before(b))
    BY <1>2, <1>3
  <2>2. CASE EntryLess(b, a)
    <3>1. /\ Cardinality(Before(a)) \in Nat /\ Cardinality(Before(b)) \in Nat
          /\ Cardinality(Before(b)) < Cardinality(Before(a))
      BY <2>2, PositionGrows
    <3> QED  BY <2>1, <3>1
  <2> QED  BY <2>2, OrderTotal
<1> DEFINE least == {x \in T : \A b \in T \ {x} : EntryLess(x, b)}
<1>5. a \in least
  BY <1>4
<1>6. First(T) = CHOOSE x \in least : TRUE
  BY <1>5 DEF First
<1>7. First(T) \in least
  BY <1>5, <1>6
<1> QED  BY <1>7

(* And a last one.                                                         *)
LEMMA FinalExists ==
  ASSUME HistOK, NEW T \in SUBSET Everything, T # {}
  PROVE  Final(T) \in T /\ \A b \in T \ {Final(T)} : EntryLess(b, Final(T))
<1> DEFINE N == Cardinality(Everything)
           left(e) == N - Cardinality(Before(e))
           places == {left(e) : e \in T}
<1>0. \A e \in T : left(e) \in Nat
  <2> TAKE e \in T
  <2>1. IsFiniteSet(Everything) /\ Before(e) \subseteq Everything
    BY EverythingFinite DEF Before
  <2>2. N \in Nat /\ Cardinality(Before(e)) \in Nat /\ Cardinality(Before(e)) <= N
    BY <2>1, FS_Subset, FS_CardinalityType
  <2> QED  BY <2>2
<1>1. places \subseteq Nat /\ places # {}
  BY <1>0
<1>2. PICK n \in places : \A m \in places : n <= m
  <2> HIDE DEF places
  <2> QED  BY <1>1, LeastNumber
<1>3. PICK a \in T : n = left(a)
  BY <1>2
<1>4. ASSUME NEW b \in T \ {a} PROVE EntryLess(b, a)
  <2>1. left(a) <= left(b)
    BY <1>2, <1>3
  <2>2. CASE EntryLess(a, b)
    <3>1. /\ Cardinality(Before(a)) \in Nat /\ Cardinality(Before(b)) \in Nat
          /\ Cardinality(Before(a)) < Cardinality(Before(b)) /\ N \in Nat
      BY <2>2, PositionGrows
    <3> QED  BY <2>1, <3>1
  <2> QED  BY <2>2, OrderTotal
<1> DEFINE greatest == {x \in T : \A b \in T \ {x} : EntryLess(b, x)}
<1>5. a \in greatest
  BY <1>4
<1>6. Final(T) = CHOOSE x \in greatest : TRUE
  BY <1>5 DEF Final
<1>7. Final(T) \in greatest
  BY <1>5, <1>6
<1> QED  BY <1>7

-----------------------------------------------------------------------------

(* What of T is past e, what is ahead of it, and its two neighbours: where *)
(* a list of exactly T must point.                                         *)
Past(T, e)  == {x \in T : e = Sentinel \/ EntryLess(e, x)}
Ahead(T, e) == {x \in T : EntryLess(x, e)}
Succ(T, e)  == First(Past(T, e))
Pred(T, e)  == IF e = Sentinel THEN Nil ELSE Final(Ahead(T, e))

(* The sentinel and the nil pointer are no entries.                        *)
Apart == Sentinel # Nil /\ Sentinel \notin Everything /\ Nil \notin Everything

(* The sentinel and the nil pointer are never taken for an entry.          *)
LEMMA Strangers == ASSUME HistOK PROVE Apart
  BY EntryParts DEF Apart, Sentinel, Nil

(* The next entry of a list of T: the least past e, or none.               *)
LEMMA SuccIs ==
  ASSUME HistOK, NEW T \in SUBSET Everything, NEW e \in Everything \cup {Sentinel}
  PROVE  \/ Succ(T, e) = Nil /\ Past(T, e) = {}
         \/ /\ Succ(T, e) \in Past(T, e)
            /\ \A x \in Past(T, e) : x = Succ(T, e) \/ EntryLess(Succ(T, e), x)
<1>1. Past(T, e) \in SUBSET Everything
  BY DEF Past
<1>2. CASE Past(T, e) = {}
  BY <1>2 DEF Succ, First
<1>3. CASE Past(T, e) # {}
  BY <1>1, <1>3, FirstExists DEF Succ
<1> QED  BY <1>2, <1>3

(* With nothing past e there is no next entry.                             *)
LEMMA SuccNil ==
  ASSUME NEW T, NEW e, Past(T, e) = {}
  PROVE  Succ(T, e) = Nil
  BY DEF Succ, First

(* The least entry past e is the next one.                                 *)
LEMMA SuccSome ==
  ASSUME HistOK, NEW T \in SUBSET Everything, NEW e \in Everything \cup {Sentinel},
         NEW s \in Past(T, e), \A x \in Past(T, e) : x = s \/ EntryLess(s, x)
  PROVE  Succ(T, e) = s
<1>1. /\ Succ(T, e) \in Past(T, e)
      /\ \A x \in Past(T, e) : x = Succ(T, e) \/ EntryLess(Succ(T, e), x)
  BY SuccIs
<1>2. s \in Everything /\ Succ(T, e) \in Everything
  BY <1>1 DEF Past
<1> QED  BY <1>1, <1>2, OrderTotal

(* The previous entry: the greatest ahead of e, or the sentinel.           *)
LEMMA PredIs ==
  ASSUME HistOK, NEW T \in SUBSET Everything, NEW e \in Everything
  PROVE  \/ Pred(T, e) = Sentinel /\ Ahead(T, e) = {}
         \/ /\ Pred(T, e) \in Ahead(T, e)
            /\ \A x \in Ahead(T, e) : x = Pred(T, e) \/ EntryLess(x, Pred(T, e))
<1>0. e # Sentinel
  BY EntryParts
<1>1. Ahead(T, e) \in SUBSET Everything
  BY DEF Ahead
<1>2. CASE Ahead(T, e) = {}
  BY <1>0, <1>2 DEF Pred, Final
<1>3. CASE Ahead(T, e) # {}
  BY <1>0, <1>1, <1>3, FinalExists DEF Pred
<1> QED  BY <1>2, <1>3

(* With nothing ahead of e the sentinel is the previous entry.             *)
LEMMA PredNone ==
  ASSUME HistOK, NEW T, NEW e \in Everything, Ahead(T, e) = {}
  PROVE  Pred(T, e) = Sentinel
<1>0. e # Sentinel
  BY EntryParts
<1> QED  BY <1>0 DEF Pred, Final

(* The greatest entry ahead of e is the previous one.                      *)
LEMMA PredSome ==
  ASSUME HistOK, NEW T \in SUBSET Everything, NEW e \in Everything,
         NEW p \in Ahead(T, e), \A x \in Ahead(T, e) : x = p \/ EntryLess(x, p)
  PROVE  Pred(T, e) = p
<1>1. /\ Pred(T, e) \in Ahead(T, e)
      /\ \A x \in Ahead(T, e) : x = Pred(T, e) \/ EntryLess(x, Pred(T, e))
  BY PredIs
<1>2. p \in Everything /\ Pred(T, e) \in Everything
  BY <1>1 DEF Ahead
<1> QED  BY <1>1, <1>2, OrderTotal

(***************************************************************************)
(* How the neighbours in T and in T with e as well differ.                 *)
(***************************************************************************)
LEMMA Neighbours ==
  ASSUME HistOK, NEW T \in SUBSET Everything, NEW e \in Everything \ T
  PROVE  LET U == T \cup {e}
             p == Pred(T, e)
             s == Succ(T, e)
         IN  /\ p \in T \cup {Sentinel} /\ s \in T \cup {Nil}
             /\ Succ(U, p) = e /\ Succ(T, p) = s
             /\ \A x \in T \cup {Sentinel} : x # p => Succ(U, x) = Succ(T, x)
             /\ Succ(U, e) = s /\ Pred(U, e) = p
             /\ s # Nil => Pred(U, s) = e /\ Pred(T, s) = p
             /\ \A x \in T : x # s => Pred(U, x) = Pred(T, x)
<1> DEFINE U == T \cup {e}
           p == Pred(T, e)
           s == Succ(T, e)
<1>0. Apart /\ U \in SUBSET Everything /\ e \in Everything
  BY Strangers
<1>1. \/ p = Sentinel /\ Ahead(T, e) = {}
      \/ p \in Ahead(T, e) /\ \A x \in Ahead(T, e) : x = p \/ EntryLess(x, p)
  BY PredIs
<1>2. \/ s = Nil /\ Past(T, e) = {}
      \/ s \in Past(T, e) /\ \A x \in Past(T, e) : x = s \/ EntryLess(s, x)
  BY SuccIs
<1> HIDE DEF p, s
<1>3. p \in T \cup {Sentinel} /\ s \in T \cup {Nil}
  BY <1>1, <1>2 DEF Ahead, Past
<1>4. /\ p # Sentinel => p \in Everything /\ EntryLess(p, e)
      /\ s # Nil => s \in Everything /\ EntryLess(e, s) /\ s # Sentinel
  BY <1>0, <1>1, <1>2, <1>3 DEF Ahead, Past, Apart
<1>5. \A x \in T : \/ EntryLess(e, x) /\ s # Nil /\ (x = s \/ EntryLess(s, x))
                   \/ EntryLess(x, e) /\ p # Sentinel /\ (x = p \/ EntryLess(x, p))
  <2> TAKE x \in T
  <2>1. x # e /\ x \in Everything
    OBVIOUS
  <2>2. CASE EntryLess(e, x)
    <3>1. x \in Past(T, e)
      BY <2>2 DEF Past
    <3>2. s \in Past(T, e) /\ (x = s \/ EntryLess(s, x))
      BY <1>2, <3>1
    <3>3. s \in Everything
      BY <3>2 DEF Past
    <3> QED  BY <1>0, <2>2, <3>2, <3>3 DEF Apart
  <2>3. CASE EntryLess(x, e)
    <3>1. x \in Ahead(T, e)
      BY <2>3 DEF Ahead
    <3> QED  BY <1>0, <1>1, <2>3, <3>1 DEF Apart, Ahead
  <2> QED  BY <2>1, <2>2, <2>3, <1>0, OrderTotal
<1>6. Succ(U, p) = e
  <2>1. e \in Past(U, p)
    BY <1>4 DEF Past
  <2>2. ASSUME NEW x \in Past(U, p) PROVE x = e \/ EntryLess(e, x)
    <3>1. x \in U /\ (p = Sentinel \/ EntryLess(p, x))
      BY DEF Past
    <3>2. CASE x # e
      BY <1>0, <1>4, <1>5, <3>1, <3>2, OrderTotal
    <3> QED  BY <3>2
  <2>3. p \in Everything \cup {Sentinel}
    BY <1>4
  <2> QED  BY <1>0, <2>1, <2>2, <2>3, SuccSome
<1>7. Succ(T, p) = s
  <2>0. p \in Everything \cup {Sentinel}
    BY <1>4
  <2>1. CASE s = Nil
    <3>1. Past(T, p) = {}
      <4> SUFFICES ASSUME NEW x \in Past(T, p) PROVE FALSE
        OBVIOUS
      <4>1. x \in T /\ (p = Sentinel \/ EntryLess(p, x))
        BY DEF Past
      <4> QED  BY <1>0, <1>4, <1>5, <2>1, <4>1, OrderTotal
    <3> QED  BY <2>1, <3>1, SuccNil
  <2>2. CASE s # Nil
    <3>1. s \in Past(T, p)
      BY <1>3, <1>4, <1>0, <2>2, OrderTransitive DEF Past
    <3>2. ASSUME NEW x \in Past(T, p) PROVE x = s \/ EntryLess(s, x)
      <4>1. x \in T /\ (p = Sentinel \/ EntryLess(p, x))
        BY DEF Past
      <4> QED  BY <1>0, <1>4, <1>5, <4>1, OrderTotal
    <3> QED  BY <2>0, <3>1, <3>2, SuccSome
  <2> QED  BY <2>1, <2>2
<1>8. ASSUME NEW x \in T \cup {Sentinel}, x # p
      PROVE  Succ(U, x) = Succ(T, x)
  <2>1. x \in Everything \cup {Sentinel}
    OBVIOUS
  <2>2. CASE EntryLess(e, x) /\ x # Sentinel
    <3>1. Past(U, x) = Past(T, x)
      BY <1>0, <2>2, <2>1, OrderTotal DEF Past
    <3> QED  BY <3>1 DEF Succ
  <2>3. CASE x = Sentinel \/ EntryLess(x, e)
    <3>0. p # Sentinel
      BY <1>0, <1>8, <1>5, <2>3, OrderTotal DEF Apart
    <3>1. p \in T /\ p \in Everything /\ EntryLess(p, e) /\ (x = Sentinel \/ EntryLess(x, p))
      BY <1>0, <1>3, <1>4, <1>5, <1>8, <2>3, <3>0, OrderTotal
    <3>2. p \in Past(T, x)
      BY <3>1 DEF Past
    <3>3. Succ(T, x) \in Past(T, x)
          /\ \A y \in Past(T, x) : y = Succ(T, x) \/ EntryLess(Succ(T, x), y)
      BY <2>1, <3>2, SuccIs
    <3>4. Succ(T, x) \in Everything /\ Succ(T, x) \in Past(U, x)
      BY <3>3 DEF Past
    <3>5. EntryLess(Succ(T, x), e)
      BY <1>0, <3>1, <3>2, <3>3, <3>4, OrderTransitive
    <3>6. \A y \in Past(U, x) : y = Succ(T, x) \/ EntryLess(Succ(T, x), y)
      BY <3>3, <3>5 DEF Past
    <3> QED  BY <1>0, <2>1, <3>4, <3>6, SuccSome
  <2> QED  BY <1>0, <1>5, <2>2, <2>3 DEF Apart
<1>9. Succ(U, e) = s
  <2>1. Past(U, e) = Past(T, e)
    BY <1>0, OrderTotal, EntryParts DEF Past
  <2> QED  BY <2>1 DEF Succ, s
<1>10. Pred(U, e) = p
  <2>1. Ahead(U, e) = Ahead(T, e)
    BY <1>0, OrderTotal DEF Ahead
  <2> QED  BY <2>1 DEF Pred, p
<1>11. ASSUME s # Nil PROVE Pred(U, s) = e /\ Pred(T, s) = p
  <2>1. s \in Everything /\ s \in T /\ EntryLess(e, s)
    BY <1>3, <1>4, <1>11
  <2>0. \A x \in T : EntryLess(x, s) =>
           p # Sentinel /\ (x = p \/ EntryLess(x, p)) /\ EntryLess(x, e)
    <3> SUFFICES ASSUME NEW x \in T, EntryLess(x, s)
                 PROVE  p # Sentinel /\ (x = p \/ EntryLess(x, p)) /\ EntryLess(x, e)
      OBVIOUS
    <3>1. x # s /\ ~EntryLess(s, x)
      BY <2>1, OrderTotal
    <3> QED  BY <1>5, <3>1
  <2>2. e \in Ahead(U, s)
    BY <2>1 DEF Ahead
  <2>3. ASSUME NEW x \in Ahead(U, s) PROVE x = e \/ EntryLess(x, e)
    <3>1. x \in U /\ EntryLess(x, s)
      BY DEF Ahead
    <3> QED  BY <2>0, <3>1
  <2>4. Pred(U, s) = e
    BY <1>0, <2>1, <2>2, <2>3, PredSome
  <2>5. CASE p = Sentinel
    <3>1. Ahead(T, s) = {}
      <4> SUFFICES ASSUME NEW x \in Ahead(T, s) PROVE FALSE
        OBVIOUS
      <4>1. x \in T /\ EntryLess(x, s)
        BY DEF Ahead
      <4> QED  BY <2>0, <2>5, <4>1
    <3> QED  BY <2>1, <2>4, <2>5, <3>1, PredNone
  <2>6. CASE p # Sentinel
    <3>1. p \in Ahead(T, s)
      BY <1>0, <1>3, <1>4, <2>1, <2>6, OrderTransitive DEF Ahead
    <3>2. ASSUME NEW x \in Ahead(T, s) PROVE x = p \/ EntryLess(x, p)
      <4>1. x \in T /\ EntryLess(x, s)
        BY DEF Ahead
      <4> QED  BY <2>0, <4>1
    <3> QED  BY <2>1, <2>4, <3>1, <3>2, PredSome
  <2> QED  BY <2>4, <2>5, <2>6
<1>12. ASSUME NEW x \in T, x # s PROVE Pred(U, x) = Pred(T, x)
  <2>0. x \in Everything /\ x # Sentinel
    BY <1>0 DEF Apart
  <2>1. CASE EntryLess(x, e)
    <3>1. Ahead(U, x) = Ahead(T, x)
      BY <1>0, <2>0, <2>1, OrderTotal DEF Ahead
    <3> QED  BY <3>1 DEF Pred
  <2>2. CASE EntryLess(e, x)
    <3>1. s # Nil /\ s \in T /\ s \in Everything /\ EntryLess(s, x) /\ EntryLess(e, s)
      BY <1>0, <1>3, <1>4, <1>5, <1>12, <2>0, <2>2, OrderTotal
    <3>2. s \in Ahead(T, x)
      BY <3>1 DEF Ahead
    <3>3. Pred(T, x) \in Ahead(T, x)
          /\ \A y \in Ahead(T, x) : y = Pred(T, x) \/ EntryLess(y, Pred(T, x))
      BY <2>0, <3>2, PredIs
    <3>4. Pred(T, x) \in Everything /\ Pred(T, x) \in Ahead(U, x)
      BY <3>3 DEF Ahead
    <3>5. EntryLess(e, Pred(T, x))
      BY <1>0, <3>1, <3>2, <3>3, <3>4, OrderTransitive
    <3>6. \A y \in Ahead(U, x) : y = Pred(T, x) \/ EntryLess(y, Pred(T, x))
      BY <3>3, <3>5 DEF Ahead
    <3> QED  BY <1>0, <2>0, <3>4, <3>6, PredSome
  <2> QED  BY <1>5, <2>1, <2>2
<1> QED
  BY <1>3, <1>6, <1>7, <1>8, <1>9, <1>10, <1>11, <1>12 DEF p, s

-----------------------------------------------------------------------------
(***************************************************************************)
(* lift and unlift are exact inverses.                                     *)
(***************************************************************************)

(* The list l links exactly the entries of T, both ways, in order.         *)
Holds(l, T) ==
  \A e \in {Sentinel} \cup T : l.next[e] = Succ(T, e) /\ l.prev[e] = Pred(T, e)

(* l and m have the same pointers at the entries of X.                     *)
Same(l, m, X) == \A x \in X : m.next[x] = l.next[x] /\ m.prev[x] = l.prev[x]

(* Nothing is before the sentinel.                                         *)
LEMMA PredSentinel == \A T : Pred(T, Sentinel) = Nil
  BY DEF Pred

(* The entries of some operations are entries of the history.              *)
LEMMA EntriesWithin == ASSUME NEW S \in SUBSET Ids PROVE Entries(S) \in SUBSET Everything
  BY DEF Everything, Entries

(* Taking one entry out leaves a list of the others, and no pointer        *)
(* outside it changes (checker.go:469-476).                                *)
LEMMA SpliceHolds ==
  ASSUME HistOK, NEW S \in SUBSET Ids, NEW l \in Lists(S), NEW T \in SUBSET Entries(S),
         NEW e \in T, Holds(l, T)
  PROVE  /\ Holds(Splice(l, e), T \ {e})
         /\ Same(l, Splice(l, e), Entries(S) \ (T \ {e}))
<1> DEFINE R == T \ {e}
           p == Pred(R, e)
           s == Succ(R, e)
           m == Splice(l, e)
<1>0. Apart /\ T \in SUBSET Everything /\ R \in SUBSET Everything /\ e \in Everything \ R
      /\ R \cup {e} = T /\ R \in SUBSET Entries(S) /\ e \in Entries(S)
  BY Strangers, EntriesWithin
<1>1. /\ p \in R \cup {Sentinel} /\ s \in R \cup {Nil}
      /\ Succ(T, p) = e /\ Succ(R, p) = s
      /\ \A x \in R \cup {Sentinel} : x # p => Succ(T, x) = Succ(R, x)
      /\ Succ(T, e) = s /\ Pred(T, e) = p
      /\ s # Nil => Pred(T, s) = e /\ Pred(R, s) = p
      /\ \A x \in R : x # s => Pred(T, x) = Pred(R, x)
  <2> HIDE DEF R
  <2> DEFINE U == R \cup {e}
  <2>1. /\ p \in R \cup {Sentinel} /\ s \in R \cup {Nil}
        /\ Succ(U, p) = e /\ Succ(R, p) = s
        /\ \A x \in R \cup {Sentinel} : x # p => Succ(U, x) = Succ(R, x)
        /\ Succ(U, e) = s /\ Pred(U, e) = p
        /\ s # Nil => Pred(U, s) = e /\ Pred(R, s) = p
        /\ \A x \in R : x # s => Pred(U, x) = Pred(R, x)
    BY <1>0, Neighbours
  <2>2. U = T
    BY <1>0
  <2> HIDE DEF U
  <2> QED  BY <2>1, <2>2
<1>2. l.next[e] = s /\ l.prev[e] = p
  BY <1>0, <1>1 DEF Holds
<1> HIDE DEF R, p, s
<1>3. /\ DOMAIN l.next = {Sentinel} \cup Entries(S)
      /\ DOMAIN l.prev = {Sentinel} \cup Entries(S)
  BY DEF Lists
<1>4. /\ m.next = [l.next EXCEPT ![p] = s]
      /\ m.prev = IF s = Nil THEN l.prev ELSE [l.prev EXCEPT ![s] = p]
  BY <1>2 DEF Splice
<1> HIDE DEF m
<1>5. \A x \in {Sentinel} \cup R :
         x \in DOMAIN l.next /\ x \in DOMAIN l.prev /\ x \in {Sentinel} \cup T
  BY <1>0, <1>3
<1>6. \A x \in {Sentinel} \cup R : m.next[x] = Succ(R, x)
  BY <1>0, <1>1, <1>4, <1>5 DEF Holds
<1>7. \A x \in {Sentinel} \cup R : m.prev[x] = Pred(R, x)
  <2> TAKE x \in {Sentinel} \cup R
  <2>1. l.prev[x] = Pred(T, x)
    BY <1>5 DEF Holds
  <2>2. CASE x = s
    BY <1>0, <1>1, <1>4, <1>5, <2>2 DEF Apart
  <2>3. CASE x = Sentinel /\ x # s
    BY <1>4, <1>5, <2>1, <2>3, PredSentinel
  <2>4. CASE x \in R /\ x # s
    BY <1>1, <1>4, <1>5, <2>1, <2>4
  <2> QED  BY <2>2, <2>3, <2>4
<1>8. \A x \in Entries(S) \ R : x # p /\ x # s /\ x \in DOMAIN l.next /\ x \in DOMAIN l.prev
  <2> TAKE x \in Entries(S) \ R
  <2>1. x \in Everything
    BY EntriesWithin
  <2> QED  BY <1>0, <1>1, <1>3, <2>1 DEF Apart
<1>9. Same(l, m, Entries(S) \ R)
  BY <1>4, <1>8 DEF Same
<1> QED  BY <1>6, <1>7, <1>9 DEF Holds, R, m

(* Putting one entry back where its own pointers say gives the list it was *)
(* taken from.                                                             *)
LEMMA RejoinHolds ==
  ASSUME HistOK, NEW S \in SUBSET Ids, NEW l \in Lists(S), NEW R \in SUBSET Entries(S),
         NEW e \in Entries(S) \ R, Holds(l, R),
         l.next[e] = Succ(R, e), l.prev[e] = Pred(R, e)
  PROVE  /\ Holds(Rejoin(l, e), R \cup {e})
         /\ Same(l, Rejoin(l, e), Entries(S) \ R)
<1> DEFINE T == R \cup {e}
           p == Pred(R, e)
           s == Succ(R, e)
           m == Rejoin(l, e)
<1>0. Apart /\ R \in SUBSET Everything /\ e \in Everything \ R /\ e \in Entries(S)
  BY Strangers, EntriesWithin
<1>1. /\ p \in R \cup {Sentinel} /\ s \in R \cup {Nil}
      /\ Succ(T, p) = e /\ Succ(R, p) = s
      /\ \A x \in R \cup {Sentinel} : x # p => Succ(T, x) = Succ(R, x)
      /\ Succ(T, e) = s /\ Pred(T, e) = p
      /\ s # Nil => Pred(T, s) = e /\ Pred(R, s) = p
      /\ \A x \in R : x # s => Pred(T, x) = Pred(R, x)
  BY <1>0, Neighbours
<1>2. l.next[e] = s /\ l.prev[e] = p
  OBVIOUS
<1> HIDE DEF p, s
<1>3. /\ DOMAIN l.next = {Sentinel} \cup Entries(S)
      /\ DOMAIN l.prev = {Sentinel} \cup Entries(S)
  BY DEF Lists
<1>4. /\ m.next = [l.next EXCEPT ![p] = e]
      /\ m.prev = IF s = Nil THEN l.prev ELSE [l.prev EXCEPT ![s] = e]
  BY <1>2 DEF Rejoin
<1> HIDE DEF m
<1>5. \A x \in {Sentinel} \cup T : x \in DOMAIN l.next /\ x \in DOMAIN l.prev
  BY <1>0, <1>3
<1>6. \A x \in {Sentinel} \cup T : m.next[x] = Succ(T, x)
  <2> TAKE x \in {Sentinel} \cup T
  <2>1. CASE x = e
    <3>1. e # p
      BY <1>0, <1>1 DEF Apart
    <3> QED  BY <1>1, <1>2, <1>4, <1>5, <2>1, <3>1
  <2>2. CASE x # e
    <3>1. x \in {Sentinel} \cup R /\ l.next[x] = Succ(R, x)
      BY <2>2 DEF Holds
    <3> QED  BY <1>1, <1>4, <1>5, <3>1
  <2> QED  BY <2>1, <2>2
<1>7. \A x \in {Sentinel} \cup T : m.prev[x] = Pred(T, x)
  <2> TAKE x \in {Sentinel} \cup T
  <2>1. CASE x = e
    <3>1. e # s
      BY <1>0, <1>1 DEF Apart
    <3> QED  BY <1>1, <1>2, <1>4, <1>5, <2>1, <3>1
  <2>2. CASE x = s /\ x # e
    <3>1. s # Nil
      BY <1>0, <2>2 DEF Apart
    <3> QED  BY <1>1, <1>4, <1>5, <2>2, <3>1
  <2>3. CASE x = Sentinel /\ x # s
    BY <1>4, <1>5, <2>3, PredSentinel DEF Holds
  <2>4. CASE x \in R /\ x # s
    <3>1. l.prev[x] = Pred(R, x)
      BY <2>4 DEF Holds
    <3> QED  BY <1>1, <1>4, <1>5, <2>4, <3>1
  <2> QED  BY <2>1, <2>2, <2>3, <2>4
<1>8. \A x \in Entries(S) \ R : x # p /\ x # s /\ x \in DOMAIN l.next /\ x \in DOMAIN l.prev
  <2> TAKE x \in Entries(S) \ R
  <2>1. x \in Everything
    BY EntriesWithin
  <2> QED  BY <1>0, <1>1, <1>3, <2>1 DEF Apart
<1>9. Same(l, m, Entries(S) \ R)
  BY <1>4, <1>8 DEF Same
<1> QED  BY <1>6, <1>7, <1>9 DEF Holds, m

(***************************************************************************)
(* What the pointers of an operation that has been taken out remember: Q   *)
(* are the operations that were in the list, its own among them.           *)
(***************************************************************************)
Remembers(l, Q, i) ==
  LET T == Entries(Q)
      R == T \ {Call(i)}
  IN  /\ l.next[Call(i)] = Succ(T, Call(i)) /\ l.prev[Call(i)] = Pred(T, Call(i))
      /\ l.next[Ret(i)] = Succ(R, Ret(i)) /\ l.prev[Ret(i)] = Pred(R, Ret(i))

(* An operation has two entries, and the others keep theirs.               *)
LEMMA EntriesLess ==
  ASSUME NEW Q, NEW i \in Q
  PROVE  /\ Call(i) \in Entries(Q) /\ Ret(i) \in Entries(Q)
         /\ Call(i) # Ret(i) /\ Match(Call(i)) = Ret(i)
         /\ (Entries(Q) \ {Call(i)}) \ {Ret(i)} = Entries(Q \ {i})
<1>1. Match(Call(i)) = Ret(i) /\ Call(i) # Ret(i)
  BY DEF Match, Call, Ret
<1>2. \A j : (Call(j) = Call(i) => j = i) /\ (Ret(j) = Ret(i) => j = i)
             /\ Call(j) # Ret(i) /\ Ret(j) # Call(i)
  BY DEF Call, Ret
<1> QED  BY <1>1, <1>2 DEF Entries

(* lift takes exactly one operation out of the list, and leaves it with    *)
(* the pointers unlift needs (checker.go:469-481).                         *)
LEMMA LiftHolds ==
  ASSUME HistOK, NEW S \in SUBSET Ids, NEW l \in Lists(S), NEW Q \in SUBSET S,
         NEW i \in Q, Holds(l, Entries(Q))
  PROVE  LET m == Lift(l, Call(i))
         IN  /\ Holds(m, Entries(Q \ {i})) /\ Remembers(m, Q, i)
             /\ Same(l, m, Entries(S) \ Entries(Q))
<1> DEFINE T == Entries(Q)
           k == Splice(l, Call(i))
           m == Splice(k, Ret(i))
<1>1. /\ Call(i) \in T /\ Ret(i) \in T /\ Call(i) # Ret(i)
      /\ (T \ {Call(i)}) \ {Ret(i)} = Entries(Q \ {i}) /\ T \in SUBSET Entries(S)
      /\ m = Lift(l, Call(i))
  BY EntriesLess DEF Lift, Entries
<1> HIDE DEF T
<1>2. k \in Lists(S) /\ Holds(k, T \ {Call(i)}) /\ Same(l, k, Entries(S) \ (T \ {Call(i)}))
  BY <1>1, SpliceType, SpliceHolds DEF T
<1> HIDE DEF k
<1>3. /\ Holds(m, (T \ {Call(i)}) \ {Ret(i)})
      /\ Same(k, m, Entries(S) \ ((T \ {Call(i)}) \ {Ret(i)}))
  BY <1>1, <1>2, SpliceHolds
<1> HIDE DEF m
<1>4. /\ m.next[Call(i)] = Succ(T, Call(i)) /\ m.prev[Call(i)] = Pred(T, Call(i))
  <2>1. l.next[Call(i)] = Succ(T, Call(i)) /\ l.prev[Call(i)] = Pred(T, Call(i))
    BY <1>1 DEF Holds, T
  <2> QED  BY <1>1, <1>2, <1>3, <2>1 DEF Same
<1>5. /\ m.next[Ret(i)] = Succ(T \ {Call(i)}, Ret(i))
      /\ m.prev[Ret(i)] = Pred(T \ {Call(i)}, Ret(i))
  <2>1. /\ k.next[Ret(i)] = Succ(T \ {Call(i)}, Ret(i))
        /\ k.prev[Ret(i)] = Pred(T \ {Call(i)}, Ret(i))
    BY <1>1, <1>2 DEF Holds
  <2> QED  BY <1>1, <1>3, <2>1 DEF Same
<1>6. Same(l, m, Entries(S) \ T)
  BY <1>2, <1>3 DEF Same
<1> QED  BY <1>1, <1>3, <1>4, <1>5, <1>6 DEF Remembers, T

(* unlift gives back the list that lift was given (checker.go:483-492).    *)
LEMMA UnliftHolds ==
  ASSUME HistOK, NEW S \in SUBSET Ids, NEW l \in Lists(S), NEW Q \in SUBSET S,
         NEW i \in Q, Holds(l, Entries(Q \ {i})), Remembers(l, Q, i)
  PROVE  LET m == Unlift(l, Call(i))
         IN  Holds(m, Entries(Q)) /\ Same(l, m, Entries(S) \ Entries(Q))
<1> DEFINE T == Entries(Q)
           C == T \ {Call(i)}
           R == C \ {Ret(i)}
           k == Rejoin(l, Ret(i))
           m == Rejoin(k, Call(i))
<1>1. /\ Call(i) \in T /\ Ret(i) \in T /\ Call(i) # Ret(i)
      /\ R = Entries(Q \ {i}) /\ T \in SUBSET Entries(S)
      /\ m = Unlift(l, Call(i))
  BY EntriesLess DEF Unlift, Entries
<1> HIDE DEF T
<1>2. /\ R \in SUBSET Everything /\ Ret(i) \in Everything \ R /\ R \cup {Ret(i)} = C
      /\ C \in SUBSET Everything /\ Call(i) \in Everything \ C /\ C \cup {Call(i)} = T
      /\ R \in SUBSET Entries(S) /\ Ret(i) \in Entries(S) \ R
      /\ C \in SUBSET Entries(S) /\ Call(i) \in Entries(S) \ C
  BY <1>1, EntriesWithin
<1> HIDE DEF C, R
<1>3. /\ Succ(C, Ret(i)) = Succ(R, Ret(i)) /\ Pred(C, Ret(i)) = Pred(R, Ret(i))
      /\ Succ(T, Call(i)) = Succ(C, Call(i)) /\ Pred(T, Call(i)) = Pred(C, Call(i))
  <2>1. /\ Succ(R \cup {Ret(i)}, Ret(i)) = Succ(R, Ret(i))
        /\ Pred(R \cup {Ret(i)}, Ret(i)) = Pred(R, Ret(i))
    BY <1>2, Neighbours
  <2>2. /\ Succ(C \cup {Call(i)}, Call(i)) = Succ(C, Call(i))
        /\ Pred(C \cup {Call(i)}, Call(i)) = Pred(C, Call(i))
    BY <1>2, Neighbours
  <2> QED  BY <1>2, <2>1, <2>2
<1>4. /\ l.next[Call(i)] = Succ(C, Call(i)) /\ l.prev[Call(i)] = Pred(C, Call(i))
      /\ l.next[Ret(i)] = Succ(R, Ret(i)) /\ l.prev[Ret(i)] = Pred(R, Ret(i))
  BY <1>3 DEF Remembers, T, C
<1>5. k \in Lists(S) /\ Holds(k, C) /\ Same(l, k, Entries(S) \ R)
  BY <1>1, <1>2, <1>4, RejoinType, RejoinHolds
<1> HIDE DEF k
<1>6. k.next[Call(i)] = Succ(C, Call(i)) /\ k.prev[Call(i)] = Pred(C, Call(i))
  <2>1. Call(i) \in Entries(S) \ R
    BY <1>2
  <2> QED  BY <1>4, <1>5, <2>1 DEF Same
<1>7. Holds(m, T) /\ Same(k, m, Entries(S) \ C)
  BY <1>2, <1>5, <1>6, RejoinHolds
<1> HIDE DEF m
<1>8. Same(l, m, Entries(S) \ T)
  BY <1>2, <1>5, <1>7 DEF Same
<1> QED  BY <1>1, <1>7, <1>8 DEF T

(* buildEntries links exactly the entries it was given.                    *)
LEMMA BuildHolds == ASSUME NEW S PROVE Holds(BuildEntries(S), Entries(S))
<1> DEFINE here == {Sentinel} \cup Entries(S)
<1>1. \A e \in here : BuildEntries(S).next[e] = Succ(Entries(S), e)
  BY DEF BuildEntries, Succ, Past
<1>2. \A e \in here : BuildEntries(S).prev[e] = Pred(Entries(S), e)
  BY DEF BuildEntries, Pred, Ahead
<1> QED  BY <1>1, <1>2 DEF Holds

-----------------------------------------------------------------------------
(***************************************************************************)
(* The walk and the stack.                                                 *)
(***************************************************************************)

(* Some member of S.                                                       *)
AnyOf(S)     == CHOOSE a \in S : TRUE
Least(T)    == {a \in T : \A b \in T \ {a} : EntryLess(a, b)}
Greatest(T) == {a \in T : \A b \in T \ {a} : EntryLess(b, a)}

(* The order of entries depends on the history alone.                      *)
LEMMA OrderKept ==
  ASSUME UNCHANGED hist
  PROVE  /\ \A a, b : EntryLess(a, b)' <=> EntryLess(a, b)
         /\ \A T, e : Succ(T, e)' = Succ(T, e) /\ Pred(T, e)' = Pred(T, e)
<1>1. ASSUME NEW a, NEW b PROVE EntryLess(a, b)' <=> EntryLess(a, b)
  BY DEF EntryLess, Time, Rank, Instant
<1>2. ASSUME NEW T PROVE First(T)' = First(T)
  <2>1. Least(T)' = Least(T)
    BY <1>1 DEF Least
  <2>2. First(T) = IF Least(T) = {} THEN Nil ELSE AnyOf(Least(T))
    BY DEF First, Least, AnyOf
  <2>3. First(T)' = IF Least(T)' = {} THEN Nil ELSE AnyOf(Least(T)')
    BY DEF First, Least, AnyOf, Nil
  <2> QED  BY <2>1, <2>2, <2>3
<1>3. ASSUME NEW T PROVE Final(T)' = Final(T)
  <2>1. Greatest(T)' = Greatest(T)
    BY <1>1 DEF Greatest
  <2>2. Final(T) = IF Greatest(T) = {} THEN Sentinel ELSE AnyOf(Greatest(T))
    BY DEF Final, Greatest, AnyOf
  <2>3. Final(T)' = IF Greatest(T)' = {} THEN Sentinel ELSE AnyOf(Greatest(T)')
    BY DEF Final, Greatest, AnyOf, Sentinel
  <2> QED  BY <2>1, <2>2, <2>3
<1>4. ASSUME NEW T, NEW e PROVE Past(T, e)' = Past(T, e)
  BY <1>1 DEF Past, Sentinel
<1>5. ASSUME NEW T, NEW e PROVE Ahead(T, e)' = Ahead(T, e)
  BY <1>1 DEF Ahead, Sentinel
<1>6. ASSUME NEW T, NEW e PROVE Succ(T, e)' = Succ(T, e)
  BY <1>2, <1>4 DEF Succ
<1>7. ASSUME NEW T, NEW e PROVE Pred(T, e)' = Pred(T, e)
  BY <1>3, <1>5 DEF Pred, Sentinel, Nil
<1> QED BY <1>1, <1>6, <1>7

-----------------------------------------------------------------------------
(***************************************************************************)
(* The walk is at an entry of the list, and has passed over calls only.    *)
(***************************************************************************)
OnWalk(T, c) ==
  /\ c \in T \cup {Nil}
  /\ c = Nil => T = {}
  /\ \A x \in T : c # Nil /\ EntryLess(x, c) => ~x.isReturn

(* What is said of a list stays said while the history stays.              *)
LEMMA Rigid ==
  ASSUME UNCHANGED hist
  PROVE  /\ \A l, T : Holds(l, T)' <=> Holds(l, T)
         /\ \A l, Q, i : Remembers(l, Q, i)' <=> Remembers(l, Q, i)
         /\ \A T, c : OnWalk(T, c)' <=> OnWalk(T, c)
<1>1. \A l, T : Holds(l, T)' <=> Holds(l, T)
  BY OrderKept DEF Holds, Sentinel
<1>2. \A l, Q, i : Remembers(l, Q, i)' <=> Remembers(l, Q, i)
  BY OrderKept DEF Remembers, Call, Ret, Entries
<1>3. \A T, c : OnWalk(T, c)' <=> OnWalk(T, c)
  BY OrderKept DEF OnWalk, Nil
<1> QED  BY <1>1, <1>2, <1>3

(* At the front of a list the walk has passed nothing.                     *)
LEMMA FrontOnWalk ==
  ASSUME HistOK, NEW T \in SUBSET Everything
  PROVE  OnWalk(T, Succ(T, Sentinel))
<1> DEFINE s == Succ(T, Sentinel)
<1>1. Past(T, Sentinel) = T
  BY DEF Past
<1>2. \/ s = Nil /\ T = {}
      \/ s \in T /\ \A x \in T : x = s \/ EntryLess(s, x)
  BY <1>1, SuccIs
<1> HIDE DEF s
<1>3. CASE T = {}
  BY <1>2, <1>3 DEF OnWalk, s
<1>4. CASE T # {}
  <2>1. s \in T /\ s # Nil /\ \A x \in T : x = s \/ EntryLess(s, x)
    BY <1>2, <1>4, Strangers DEF Apart
  <2>2. \A x \in T : ~EntryLess(x, s)
    BY <2>1, OrderTotal
  <2>3. OnWalk(T, s)
    BY <2>1, <2>2 DEF OnWalk
  <2> QED  BY <2>3 DEF s
<1> QED  BY <1>3, <1>4

(* Stepping over a call whose return is still ahead stays on the list.     *)
LEMMA NextOnWalk ==
  ASSUME HistOK, NEW T \in SUBSET Everything, NEW c \in T, ~c.isReturn,
         \A x \in T : EntryLess(x, c) => ~x.isReturn,
         NEW y \in T, EntryLess(c, y)
  PROVE  OnWalk(T, Succ(T, c))
<1> DEFINE s == Succ(T, c)
<1>1. c \in Everything /\ y \in Past(T, c)
  BY DEF Past
<1>2. s \in Past(T, c) /\ \A x \in Past(T, c) : x = s \/ EntryLess(s, x)
  BY <1>1, SuccIs
<1> HIDE DEF s
<1>3. s \in T /\ s # Nil
  BY <1>2, Strangers DEF Past, Apart
<1>4. ASSUME NEW x \in T, EntryLess(x, s) PROVE ~x.isReturn
  <2>1. x \notin Past(T, c)
    BY <1>2, <1>3, <1>4, OrderTotal
  <2>2. ~EntryLess(c, x)
    BY <2>1 DEF Past
  <2> QED  BY <1>1, <2>2, OrderTotal
<1> QED  BY <1>3, <1>4 DEF OnWalk, s

-----------------------------------------------------------------------------
(***************************************************************************)
(* One more frame, and one less.                                           *)
(***************************************************************************)
Below(w, k) == {w[j].op : j \in 1..(k - 1)}

(* A stack with one more frame.                                            *)
LEMMA OneMoreFrame ==
  ASSUME NEW F, NEW w \in Seq(F), NEW f \in F
  PROVE  LET x == Append(w, f)
             n == Len(w)
         IN  /\ n \in Nat /\ DOMAIN w = 1..n
             /\ Len(x) = n + 1 /\ DOMAIN x = 1..(n + 1)
             /\ x[n + 1] = f /\ \A k \in 1..n : x[k] = w[k]
             /\ Placed(x) = Placed(w) \cup {f.op}
             /\ \A k \in 1..n : Below(x, k) = Below(w, k)
             /\ Below(x, n + 1) = Placed(w)
<1> DEFINE x == Append(w, f)
           n == Len(w)
<1>1. /\ n \in Nat /\ DOMAIN w = 1..n
      /\ Len(x) = n + 1 /\ DOMAIN x = 1..(n + 1)
      /\ x[n + 1] = f /\ \A k \in 1..n : x[k] = w[k]
  OBVIOUS
<1> HIDE DEF x, n
<1>2. Placed(x) = Placed(w) \cup {f.op}
  <2>1. 1..(n + 1) = (1..n) \cup {n + 1}
    BY <1>1
  <2> QED  BY <1>1, <2>1 DEF Placed
<1>3. \A k \in 1..n : Below(x, k) = Below(w, k)
  <2> TAKE k \in 1..n
  <2>1. \A j \in 1..(k - 1) : j \in 1..n
    BY <1>1
  <2> QED  BY <1>1, <2>1 DEF Below
<1>4. Below(x, n + 1) = Placed(w)
  <2>1. 1..(n + 1 - 1) = 1..n
    BY <1>1
  <2> QED  BY <1>1, <2>1 DEF Below, Placed
<1> QED  BY <1>1, <1>2, <1>3, <1>4 DEF x, n

(* A stack with its last frame taken off.                                  *)
LEMMA OneLessFrame ==
  ASSUME NEW F, NEW w \in Seq(F), w # <<>>
  PROVE  LET x == Front(w)
             n == Len(w)
         IN  /\ n \in Nat /\ n >= 1 /\ DOMAIN w = 1..n /\ Last(w) = w[n]
             /\ Len(x) = n - 1 /\ DOMAIN x = 1..(n - 1)
             /\ \A k \in 1..(n - 1) : x[k] = w[k]
             /\ Placed(x) = Below(w, n)
             /\ Placed(w) = Below(w, n) \cup {w[n].op}
             /\ \A k \in 1..(n - 1) : Below(x, k) = Below(w, k)
<1> DEFINE x == Front(w)
           n == Len(w)
<1>1. /\ n \in Nat /\ n >= 1 /\ DOMAIN w = 1..n
  OBVIOUS
<1>2. /\ Len(x) = n - 1 /\ DOMAIN x = 1..(n - 1)
      /\ \A k \in 1..(n - 1) : x[k] = w[k]
  BY <1>1 DEF Front
<1>3. Last(w) = w[n]
  BY DEF Last
<1> HIDE DEF x, n
<1>4. Placed(x) = Below(w, n)
  BY <1>1, <1>2 DEF Below, Placed
<1>5. Placed(w) = Below(w, n) \cup {w[n].op}
  <2>1. 1..n = (1..(n - 1)) \cup {n}
    BY <1>1
  <2> QED  BY <1>1, <2>1 DEF Below, Placed
<1>6. \A k \in 1..(n - 1) : Below(x, k) = Below(w, k)
  <2> TAKE k \in 1..(n - 1)
  <2>1. \A j \in 1..(k - 1) : j \in 1..(n - 1)
    BY <1>1
  <2> QED  BY <1>2, <2>1 DEF Below
<1> QED  BY <1>1, <1>2, <1>3, <1>4, <1>5, <1>6 DEF x, n

(* The operations on the stack are placed once each, and in real time.     *)
Legal(w) == PlacedOnce(w) /\ RespectsRealTime(hist, w)

(* Placing an operation nothing unplaced precedes keeps the stack legal.   *)
LEMMA PlaceLegal ==
  ASSUME hist \in Seq(Operation), NEW w \in Seq(Frame), Legal(w), NEW v \in Int,
         NEW i \in Ids, i \notin Placed(w),
         \A j \in Ids \ Placed(w) : j # i => ~Precedes(hist[j], hist[i])
  PROVE  Legal(Append(w, [op |-> i, state |-> v]))
<1> DEFINE f == [op |-> i, state |-> v]
           x == Append(w, f)
           n == Len(w)
<1>1. f \in Frame /\ f.op = i
  BY DEF Frame
<1>2. /\ n \in Nat /\ DOMAIN w = 1..n
      /\ DOMAIN x = 1..(n + 1)
      /\ x[n + 1].op = i /\ \A k \in 1..n : x[k] = w[k]
  BY <1>1, OneMoreFrame
<1> HIDE DEF x, n, f
<1>3. PlacedOnce(x)
  <2> SUFFICES ASSUME NEW j \in 1..(n+1), NEW k \in 1..(n+1), x[j].op = x[k].op
               PROVE  j = k
    BY <1>2 DEF PlacedOnce
  <2>1. \A m \in 1..n : x[m].op # i
    BY <1>2 DEF Placed
  <2>2. CASE j \in 1..n /\ k \in 1..n
    BY <1>2, <2>2 DEF Legal, PlacedOnce
  <2>3. CASE j = n + 1 \/ k = n + 1
    BY <1>2, <2>1, <2>3
  <2> QED  BY <1>2, <2>2, <2>3
<1>4. RespectsRealTime(hist, x)
  <2> SUFFICES ASSUME NEW k \in DOMAIN x, NEW j \in DOMAIN hist,
                      j # x[k].op /\ Precedes(hist[j], hist[x[k].op])
               PROVE  \E m \in DOMAIN x : m < k /\ x[m].op = j
    BY Zenon DEF RespectsRealTime
  <2>1. CASE k = n + 1
    <3>1. j \in Placed(w)
      BY <1>2, <2>1 DEF Ids
    <3>2. PICK m \in 1..n : w[m].op = j
      BY <1>2, <3>1 DEF Placed
    <3> QED  BY <1>2, <2>1, <3>2
  <2>2. CASE k \in 1..n
    <3>1. PICK m \in 1..n : m < k /\ w[m].op = j
      BY <1>2, <2>2 DEF Legal, RespectsRealTime
    <3> QED  BY <1>2, <3>1
  <2> QED  BY <1>2, <2>1, <2>2
<1> QED  BY <1>3, <1>4 DEF Legal, x, f

(* So does taking the last one back.                                       *)
LEMMA TakeBackLegal ==
  ASSUME NEW w \in Seq(Frame), w # <<>>, Legal(w)
  PROVE  /\ Legal(Front(w))
         /\ Last(w).op \notin Below(w, Len(w))
<1> DEFINE x == Front(w)
           n == Len(w)
<1>1. /\ n \in Nat /\ n >= 1 /\ DOMAIN w = 1..n /\ Last(w) = w[n]
      /\ DOMAIN x = 1..(n - 1) /\ \A k \in 1..(n - 1) : x[k] = w[k]
  BY OneLessFrame
<1> HIDE DEF x, n
<1>2. \A k \in 1..(n - 1) : k \in 1..n /\ k # n
  BY <1>1
<1>3. PlacedOnce(x)
  BY <1>1, <1>2 DEF Legal, PlacedOnce
<1>4. RespectsRealTime(hist, x)
  <2> SUFFICES ASSUME NEW m \in 1..(n - 1), NEW j \in DOMAIN hist,
                      j # x[m].op, Precedes(hist[j], hist[x[m].op])
               PROVE  \E l \in 1..(n - 1) : l < m /\ x[l].op = j
    BY <1>1, Zenon DEF RespectsRealTime
  <2>1. PICK l \in 1..n : l < m /\ w[l].op = j
    BY <1>1, <1>2 DEF Legal, RespectsRealTime
  <2> QED  BY <1>1, <2>1
<1>5. w[n].op \notin Below(w, n)
  BY <1>1, <1>2 DEF Legal, PlacedOnce, Below
<1> QED  BY <1>1, <1>3, <1>4, <1>5 DEF Legal, x, n

-----------------------------------------------------------------------------
(***************************************************************************)
(* The list, the stack and the walk stay in step.                          *)
(***************************************************************************)

(* The entries still in the list.                                          *)
Left == Entries(scope \ lin)

(* The bitset, the stack and the list agree: the stack's operations are    *)
(* out, the list is exactly the rest, every lifted operation still knows   *)
(* where it was, and the cursor is on the list.                            *)
Linked ==
  /\ lin = Placed(calls)
  /\ Holds(list, Left)
  /\ \A k \in DOMAIN calls : Remembers(list, scope \ Below(calls, k), calls[k].op)
  /\ OnWalk(Left, cursor)

(* A limit the caller set has been hit.                                    *)
CallerLimit == opt.maxVisits > 0 \/ opt.maxCache > 0 \/ expired

(* Which operations the running search was given, and what a verdict       *)
(* means.                                                                  *)
StageInv ==
  /\ phase \in {"probe", "append"} => scope = Returned
  /\ phase = "full" => scope = Ids
  /\ phase = "append" => Returned \subseteq Placed(calls)
  /\ phase # "done" => verdict = "none"
  /\ verdict = "linearizable" => Placed(calls) = Ids
  /\ verdict = "unknown" => CallerLimit

(* The invariant that makes the walk exact.                                *)
Ordered  == (Searching => Linked) /\ Legal(calls) /\ StageInv
ExactInv == WalkInv /\ HistOK /\ Ordered

(* Linked in the next state, from facts about the new values.              *)
LEMMA LinkedNow ==
  ASSUME UNCHANGED hist, lin' = Placed(calls'),
         Holds(list', Entries(scope' \ lin')),
         \A k \in DOMAIN calls' : Remembers(list', scope' \ Below(calls', k), calls'[k].op),
         OnWalk(Entries(scope' \ lin'), cursor')
  PROVE  Linked'
<1>1. Holds(list, Left)'
  BY Rigid DEF Left, Entries
<1>2. OnWalk(Left, cursor)'
  BY Rigid DEF Left, Entries
<1>3. \A k \in DOMAIN calls' : Remembers(list, scope \ Below(calls, k), calls[k].op)'
  BY Rigid DEF Below
<1>4. (lin = Placed(calls))'
  BY DEF Placed
<1> QED  BY <1>1, <1>2, <1>3, <1>4 DEF Linked

(* An untouched entry remembers what it did.                               *)
LEMMA RemembersSame ==
  ASSUME NEW l, NEW m, NEW Q, NEW i, NEW X, Remembers(l, Q, i), Same(l, m, X),
         Call(i) \in X, Ret(i) \in X
  PROVE  Remembers(m, Q, i)
  BY DEF Remembers, Same

(* The empty stack is legal.                                               *)
LEMMA EmptyLegal == Legal(<<>>)
  BY DEF Legal, PlacedOnce, RespectsRealTime

(* A stack stays legal while the history stays.                            *)
LEMMA LegalKept == ASSUME UNCHANGED hist PROVE \A w : Legal(w)' <=> Legal(w)
  BY DEF Legal, RespectsRealTime, Precedes

(* A good history stays one.                                               *)
LEMMA HistKept == ASSUME HistOK, UNCHANGED hist PROVE HistOK'
  BY DEF HistOK, Ids

(* A fresh search is linked.                                               *)
LEMMA LoadLinked ==
  ASSUME HistOK, UNCHANGED hist, NEW S \in SUBSET Ids, Load(S)
  PROVE  Linked' /\ Legal(calls)'
<1>1. /\ scope' = S /\ list' = BuildEntries(S) /\ lin' = {} /\ calls' = <<>>
      /\ cursor' = BuildEntries(S).next[Sentinel]
  BY DEF Load
<1>2. Holds(BuildEntries(S), Entries(S))
  BY BuildHolds
<1>3. cursor' = Succ(Entries(S), Sentinel)
  BY <1>1, <1>2 DEF Holds
<1>4. OnWalk(Entries(S), cursor')
  BY <1>3, FrontOnWalk, EntriesWithin
<1>5. S \ {} = S /\ Placed(<<>>) = {}
  BY DEF Placed
<1>6. Linked'
  BY <1>1, <1>2, <1>4, <1>5, LinkedNow
<1> QED  BY <1>1, <1>6, EmptyLegal, LegalKept

-----------------------------------------------------------------------------

(* At a call entry: its operation is unplaced, and only calls are before   *)
(* it.                                                                     *)
LEMMA AtCall ==
  ASSUME ExactInv, AtEntry(FALSE)
  PROVE  /\ Searching /\ Linked /\ cursor \in Left
         /\ cursor.id \in scope \ lin /\ cursor.id \in Ids /\ cursor = Call(cursor.id)
         /\ \A x \in Left : EntryLess(x, cursor) => ~x.isReturn
<1>1. Searching /\ Linked /\ cursor # Nil /\ ~cursor.isReturn /\ TypeOK
  BY DEF ExactInv, Ordered, WalkInv, AtEntry, Looping
<1>2. scope \ lin \in SUBSET Ids
  BY <1>1 DEF TypeOK
<1>3. cursor \in Left /\ \A x \in Left : EntryLess(x, cursor) => ~x.isReturn
  BY <1>1 DEF Linked, OnWalk
<1>4. PICK i \in scope \ lin : cursor = Call(i) \/ cursor = Ret(i)
  BY <1>3 DEF Left, Entries
<1>5. cursor = Call(i) /\ cursor.id = i
  BY <1>1, <1>4 DEF Call, Ret
<1> QED  BY <1>1, <1>2, <1>3, <1>4, <1>5

(* An operation that never completed precedes nothing.                     *)
LEMMA InfoPrecedesNothing ==
  ASSUME HistOK, NEW i \in Ids, NEW j \in Ids, hist[j].outcome = "info"
  PROVE  ~Precedes(hist[j], hist[i])
<1>1. hist[j].complete = Pending /\ hist[i].invoke < Pending /\ hist[i] \in Operation
  <2>1. ValidOp(hist[j]) /\ hist[i].invoke < Pending /\ hist[i] \in Operation
    BY DEF HistOK, Ids
  <2> QED BY <2>1 DEF ValidOp
<1> QED  BY <1>1, PendingAssumption DEF Precedes, Operation

(* The walk looks at a call only while nothing unplaced precedes its       *)
(* operation: the property the Wing-Gong search stands on                  *)
(* (checker.go:752-791).                                                   *)
LEMMA MinimalHere ==
  ASSUME ExactInv, AtEntry(FALSE)
  PROVE  \A j \in Ids \ Placed(calls) :
           j # cursor.id => ~Precedes(hist[j], hist[cursor.id])
<1> DEFINE i == cursor.id
<1>1. /\ Searching /\ Linked /\ i \in scope \ lin /\ i \in Ids /\ cursor = Call(i)
      /\ \A x \in Left : EntryLess(x, cursor) => ~x.isReturn
  BY AtCall
<1>2. HistOK /\ StageInv /\ lin = Placed(calls)
  BY <1>1 DEF ExactInv, Ordered, Linked
<1> HIDE DEF i
<1> SUFFICES ASSUME NEW j \in Ids \ Placed(calls), j # i, Precedes(hist[j], hist[i])
             PROVE  FALSE
  BY DEF i
<1>3. CASE j \in scope
  <2>1. Ret(j) \in Left /\ Ret(j).isReturn
    BY <1>2, <1>3 DEF Left, Entries, Ret
  <2>2. EntryLess(Ret(j), Call(i))
    BY <1>1, <1>2, RetBeforeCall
  <2> QED  BY <1>1, <2>1, <2>2
<1>4. CASE j \notin scope
  <2>1. hist[j].outcome = "info"
    BY <1>1, <1>2, <1>4 DEF StageInv, Searching, Returned, Ids
  <2> QED  BY <1>1, <1>2, <2>1, InfoPrecedesNothing
<1> QED  BY <1>3, <1>4

(* After stepping over a call the walk is still on the list: its return is *)
(* ahead, so checker.go:742 is not reached.                                *)
LEMMA SkipOnWalk ==
  ASSUME ExactInv, AtEntry(FALSE)
  PROVE  OnWalk(Left, list.next[cursor]) /\ list.next[cursor] = Succ(Left, cursor)
<1> DEFINE i == cursor.id
           T == Left
<1>1. /\ Linked /\ cursor \in T /\ i \in scope \ lin /\ i \in Ids /\ cursor = Call(i)
      /\ \A x \in T : EntryLess(x, cursor) => ~x.isReturn
  BY AtCall
<1>2. HistOK /\ T \in SUBSET Everything /\ Ret(i) \in T /\ ~cursor.isReturn
  <2>1. HistOK /\ scope \ lin \in SUBSET Ids
    BY DEF ExactInv, Ordered, WalkInv, TypeOK
  <2>2. T \in SUBSET Everything
    BY <2>1, EntriesWithin DEF Left
  <2>3. Ret(i) \in T /\ ~Call(i).isReturn
    BY <1>1 DEF Left, Entries, Call
  <2> QED  BY <1>1, <2>1, <2>2, <2>3
<1>3. EntryLess(cursor, Ret(i))
  BY <1>1, <1>2, CallBeforeRet
<1>4. list.next[cursor] = Succ(T, cursor)
  BY <1>1 DEF Linked, Holds
<1> HIDE DEF T
<1>5. OnWalk(T, Succ(T, cursor))
  BY <1>1, <1>2, <1>3, NextOnWalk
<1> QED  BY <1>4, <1>5 DEF T

(* Stepping over a call leaves everything linked.                          *)
LEMMA SkipLinked ==
  ASSUME ExactInv, AtEntry(FALSE), cursor' = list.next[cursor],
         UNCHANGED <<hist, scope, list, lin, calls>>
  PROVE  Linked'
<1>1. Linked /\ OnWalk(Left, cursor')
  BY AtCall, SkipOnWalk
<1>2. /\ lin' = Placed(calls') /\ Holds(list', Entries(scope' \ lin'))
      /\ \A k \in DOMAIN calls' : Remembers(list', scope' \ Below(calls', k), calls'[k].op)
  BY <1>1 DEF Linked, Left
<1>3. OnWalk(Entries(scope' \ lin'), cursor')
  BY <1>1 DEF Left
<1> QED  BY <1>2, <1>3, LinkedNow

(* Placing a call keeps everything linked, and the stack legal.            *)
LEMMA PlaceLinked ==
  ASSUME ExactInv, PlaceCall
  PROVE  /\ Linked' /\ Legal(calls)'
         /\ cursor' = Succ(Entries(scope' \ lin'), Sentinel)
<1> DEFINE i == cursor.id
           f == [op |-> i, state |-> value]
           n == Len(calls)
           Q == scope \ lin
           w == Append(calls, f)
           m == Lift(list, Call(i))
<1>1. /\ AtEntry(FALSE) /\ lin' = lin \cup {i} /\ calls' = w
      /\ list' = Lift(list, cursor) /\ cursor' = list'.next[Sentinel]
      /\ UNCHANGED <<hist, scope>>
  BY DEF PlaceCall, FrontEntry, input
<1>2. /\ Linked /\ i \in Q /\ i \in Ids /\ cursor = Call(i)
  BY <1>1, AtCall
<1>3. /\ HistOK /\ scope \in SUBSET Ids /\ list \in Lists(scope) /\ calls \in Seq(Frame)
      /\ hist \in Seq(Operation) /\ value \in Int /\ Legal(calls) /\ lin = Placed(calls)
  BY <1>2 DEF ExactInv, Ordered, WalkInv, TypeOK, Linked
<1>4. f \in Frame /\ f.op = i
  BY <1>2, <1>3 DEF Frame
<1> HIDE DEF f, i
<1>5. /\ n \in Nat /\ DOMAIN calls = 1..n
      /\ DOMAIN w = 1..(n + 1)
      /\ w[n + 1] = f /\ \A k \in 1..n : w[k] = calls[k]
      /\ Placed(w) = Placed(calls) \cup {i}
      /\ \A k \in 1..n : Below(w, k) = Below(calls, k)
      /\ Below(w, n + 1) = Placed(calls)
  BY <1>3, <1>4, OneMoreFrame
<1> HIDE DEF w, n
<1>6. Q \ {i} = scope' \ lin' /\ Q \in SUBSET scope /\ list' = m
  BY <1>1, <1>2
<1>7. /\ Holds(m, Entries(Q \ {i})) /\ Remembers(m, Q, i)
      /\ Same(list, m, Entries(scope) \ Entries(Q))
  <2>1. Holds(list, Entries(Q))
    BY <1>2 DEF Linked, Left
  <2> HIDE DEF Q
  <2> QED  BY <1>2, <1>3, <1>6, <2>1, LiftHolds
<1> HIDE DEF m
<1>8. ASSUME NEW k \in 1..(n + 1)
      PROVE  Remembers(m, scope \ Below(w, k), w[k].op)
  <2>1. CASE k = n + 1
    BY <1>3, <1>4, <1>5, <1>7, <2>1
  <2>2. CASE k \in 1..n
    <3>1. Remembers(list, scope \ Below(calls, k), calls[k].op)
      BY <1>2, <1>5, <2>2 DEF Linked
    <3>2. calls[k].op \in lin /\ calls[k].op \in scope
      BY <1>1, <1>2, <1>3, <1>5, <2>2 DEF Placed, ExactInv, Ordered, WalkInv, StackInScope,
         AtEntry, Looping
    <3>3. \A j : (Call(j) \in Entries(Q) \/ Ret(j) \in Entries(Q)) => j \in Q
      BY DEF Entries, Call, Ret
    <3>4. /\ Call(calls[k].op) \in Entries(scope) \ Entries(Q)
          /\ Ret(calls[k].op) \in Entries(scope) \ Entries(Q)
      BY <3>2, <3>3 DEF Entries
    <3>5. Remembers(m, scope \ Below(calls, k), calls[k].op)
      BY <1>7, <3>1, <3>4, RemembersSame
    <3> QED  BY <1>5, <2>2, <3>5
  <2> QED  BY <1>5, <2>1, <2>2
<1>9. cursor' = Succ(Entries(Q \ {i}), Sentinel)
  BY <1>1, <1>6, <1>7 DEF Holds
<1>10. OnWalk(Entries(Q \ {i}), cursor')
  <2>1. Q \ {i} \in SUBSET Ids
    BY <1>3
  <2> QED  BY <1>3, <1>9, <2>1, FrontOnWalk, EntriesWithin
<1>11. Linked'
  BY <1>1, <1>3, <1>5, <1>6, <1>7, <1>8, <1>10, LinkedNow
<1>12. Legal(w)
  BY <1>1, <1>2, <1>3, PlaceLegal, MinimalHere DEF w, f, i
<1> QED  BY <1>1, <1>6, <1>9, <1>11, <1>12, LegalKept

-----------------------------------------------------------------------------

(* The same at a return entry.                                             *)
LEMMA AtReturn ==
  ASSUME ExactInv, Looping, cursor # Nil, cursor.isReturn
  PROVE  /\ Searching /\ Linked /\ cursor \in Left
         /\ cursor.id \in scope \ lin /\ cursor.id \in Ids /\ cursor = Ret(cursor.id)
         /\ \A x \in Left : EntryLess(x, cursor) => ~x.isReturn
<1>1. Searching /\ Linked /\ TypeOK
  BY DEF ExactInv, Ordered, WalkInv, Looping
<1>2. scope \ lin \in SUBSET Ids
  BY <1>1 DEF TypeOK
<1>3. cursor \in Left /\ \A x \in Left : EntryLess(x, cursor) => ~x.isReturn
  BY <1>1 DEF Linked, OnWalk
<1>4. PICK i \in scope \ lin : cursor = Call(i) \/ cursor = Ret(i)
  BY <1>3 DEF Left, Entries
<1>5. cursor = Ret(i) /\ cursor.id = i
  BY <1>1, <1>4 DEF Call, Ret
<1> QED  BY <1>1, <1>2, <1>3, <1>4, <1>5

(* Before the call of an operation on the stack there were only calls.     *)
LEMMA BeforeTaken ==
  ASSUME HistOK, NEW w \in Seq(Frame), Legal(w), NEW S \in SUBSET Ids,
         NEW k \in DOMAIN w, w[k].op \in S,
         NEW x \in Entries(S \ Below(w, k)), EntryLess(x, Call(w[k].op))
  PROVE  ~x.isReturn
<1> SUFFICES ASSUME x.isReturn PROVE FALSE
  OBVIOUS
<1> DEFINE i == w[k].op
<1>0. k \in 1..Len(w) /\ DOMAIN w = 1..Len(w) /\ Len(w) \in Nat
  OBVIOUS
<1>1. PICK j \in S \ Below(w, k) : x = Ret(j)
  BY DEF Entries, Call
<1>2. i \in Ids /\ j \in Ids
  OBVIOUS
<1> HIDE DEF i
<1>3. CASE j = i
  <2>1. Call(i) \in Everything /\ Ret(i) \in Everything
    BY <1>2 DEF Everything, Entries
  <2> QED  BY <1>1, <1>2, <1>3, <2>1, CallBeforeRet, OrderTotal DEF i
<1>4. CASE j # i
  <2>1. Precedes(hist[j], hist[i])
    BY <1>1, <1>2, <1>4, RetBeforeCall DEF i
  <2>2. PICK m \in DOMAIN w : m < k /\ w[m].op = j
    BY <1>2, <1>4, <2>1 DEF Legal, RespectsRealTime, i, Ids
  <2>3. m \in 1..(k - 1)
    BY <1>0, <2>2
  <2> QED  BY <1>1, <2>2, <2>3 DEF Below
<1> QED  BY <1>3, <1>4

(* Taking the last operation back relinks the list as it was before.       *)
LEMMA BacktrackLinked ==
  ASSUME ExactInv, Backtrack
  PROVE  /\ Linked' /\ Legal(calls)'
         /\ cursor' = Succ(Entries(scope' \ lin'), Call(Last(calls).op))
<1> DEFINE n == Len(calls)
           i == calls[n].op
           Q == scope \ Below(calls, n)
           w == Front(calls)
           m == Unlift(list, Call(i))
<1>1. /\ calls # <<>> /\ Searching /\ Linked
      /\ value' = Top.state /\ lin' = lin \ {Top.op} /\ calls' = w
      /\ list' = Unlift(list, Call(Top.op)) /\ cursor' = list'.next[Call(Top.op)]
      /\ UNCHANGED <<hist, scope>>
  BY DEF Backtrack, CanTakeBack, Resume, input, AtEntry, Looping, ExactInv, Ordered
<1>2. /\ HistOK /\ scope \in SUBSET Ids /\ list \in Lists(scope) /\ calls \in Seq(Frame)
      /\ hist \in Seq(Operation) /\ Legal(calls) /\ lin = Placed(calls)
  BY <1>1 DEF ExactInv, Ordered, WalkInv, TypeOK, Linked
<1>3. /\ n \in Nat /\ n >= 1 /\ DOMAIN calls = 1..n /\ Last(calls) = calls[n]
      /\ DOMAIN w = 1..(n - 1)
      /\ \A k \in 1..(n - 1) : w[k] = calls[k]
      /\ Placed(w) = Below(calls, n)
      /\ Placed(calls) = Below(calls, n) \cup {i}
      /\ \A k \in 1..(n - 1) : Below(w, k) = Below(calls, k)
  BY <1>1, <1>2, OneLessFrame
<1>4. i \notin Below(calls, n) /\ Legal(w)
  BY <1>1, <1>2, <1>3, TakeBackLegal
<1>5. n \in DOMAIN calls /\ i \in scope /\ i \in Ids
  BY <1>1, <1>2, <1>3 DEF ExactInv, Ordered, WalkInv, StackInScope
<1> HIDE DEF w, i, n
<1>6. Top.op = i
  BY <1>3 DEF Top, i
<1>7. lin' = Below(calls, n) /\ Q = scope' \ lin' /\ Q \ {i} = scope \ lin
  BY <1>1, <1>2, <1>3, <1>4, <1>6
<1>8. Q \in SUBSET scope /\ Q \in SUBSET Ids /\ i \in Q
  BY <1>2, <1>4, <1>5
<1>9. Holds(list, Entries(Q \ {i})) /\ Remembers(list, Q, i)
  BY <1>1, <1>5, <1>7 DEF Linked, Left, i
<1>10. \A x \in Entries(Q) : EntryLess(x, Call(i)) => ~x.isReturn
  BY <1>2, <1>5, BeforeTaken DEF i
<1>11. \A k \in 1..(n - 1) : calls[k].op \in Below(calls, n) /\ calls[k].op \in scope
  <2> SUFFICES ASSUME NEW k \in 1..(n - 1)
               PROVE  calls[k].op \in Below(calls, n) /\ calls[k].op \in scope
    OBVIOUS
  <2>1. k \in 1..n
    BY <1>3
  <2> QED  BY <1>1, <1>3, <2>1 DEF Below, ExactInv, Ordered, WalkInv, StackInScope
<1>12. \A k \in 1..(n - 1) : /\ Call(calls[k].op) \in Entries(scope) \ Entries(Q)
                             /\ Ret(calls[k].op) \in Entries(scope) \ Entries(Q)
  <2>1. \A j : (Call(j) \in Entries(Q) \/ Ret(j) \in Entries(Q)) => j \in Q
    BY DEF Entries, Call, Ret
  <2> QED  BY <1>11, <2>1 DEF Entries
<1> HIDE DEF Q
<1>13. Holds(m, Entries(Q)) /\ Same(list, m, Entries(scope) \ Entries(Q))
  BY <1>2, <1>8, <1>9, UnliftHolds
<1>14. list' = m
  BY <1>1, <1>6
<1> HIDE DEF m
<1>15. ASSUME NEW k \in 1..(n - 1)
       PROVE  Remembers(m, scope \ Below(w, k), w[k].op)
  <2>1. k \in DOMAIN calls
    BY <1>3
  <2>2. Remembers(list, scope \ Below(calls, k), calls[k].op)
    BY <1>1, <2>1 DEF Linked
  <2>3. Remembers(m, scope \ Below(calls, k), calls[k].op)
    BY <1>12, <1>13, <2>2, RemembersSame
  <2> QED  BY <1>3, <2>3
<1>16. /\ Entries(Q) \in SUBSET Everything /\ Call(i) \in Entries(Q) /\ Ret(i) \in Entries(Q)
       /\ ~Call(i).isReturn
  BY <1>8, EntriesWithin DEF Entries, Call
<1>17. cursor' = Succ(Entries(Q), Call(i))
  BY <1>1, <1>6, <1>13, <1>14, <1>16 DEF Holds
<1>18. OnWalk(Entries(Q), Succ(Entries(Q), Call(i)))
  <2>1. EntryLess(Call(i), Ret(i))
    BY <1>2, <1>5, CallBeforeRet
  <2> QED  BY <1>2, <1>10, <1>16, <2>1, NextOnWalk
<1>19. Linked'
  BY <1>1, <1>3, <1>7, <1>13, <1>14, <1>15, <1>17, <1>18, LinkedNow
<1>20. Last(calls).op = i
  BY <1>3 DEF i
<1> QED  BY <1>1, <1>4, <1>7, <1>17, <1>19, <1>20, LegalKept

-----------------------------------------------------------------------------

(* A step that leaves the walk alone leaves it linked.                     *)
LEMMA LinkedStays ==
  ASSUME UNCHANGED <<hist, scope, list, lin, calls, cursor>>, Linked
  PROVE  Linked'
<1>1. /\ lin' = Placed(calls') /\ Holds(list', Entries(scope' \ lin'))
      /\ \A k \in DOMAIN calls' : Remembers(list', scope' \ Below(calls', k), calls'[k].op)
      /\ OnWalk(Entries(scope' \ lin'), cursor')
  BY DEF Linked, Left
<1> QED  BY <1>1, LinkedNow

(* The list is empty exactly when everything has been placed, and the walk *)
(* does not fall off a list that is not.                                   *)
LEMMA EmptyList ==
  ASSUME ExactInv, Searching
  PROVE  /\ list.next[Sentinel] = Nil <=> Left = {}
         /\ Left = {} <=> scope \subseteq lin
         /\ Looping => cursor # Nil
<1>1. Linked /\ HistOK /\ Left \in SUBSET Everything
  BY EntriesWithin DEF ExactInv, Ordered, WalkInv, TypeOK, Left
<1>2. list.next[Sentinel] = Succ(Left, Sentinel)
  BY <1>1 DEF Linked, Holds
<1>3. Past(Left, Sentinel) = Left
  BY DEF Past
<1>4. Succ(Left, Sentinel) = Nil <=> Left = {}
  BY <1>1, <1>3, SuccIs, Strangers DEF Apart
<1>5. Left = {} <=> scope \subseteq lin
  BY DEF Left, Entries
<1>6. cursor = Nil => Left = {}
  BY <1>1 DEF Linked, OnWalk
<1> QED  BY <1>2, <1>4, <1>5, <1>6 DEF Looping

(* Falling back from the probe starts in order, or ends for a caller's     *)
(* limit.                                                                  *)
LEMMA FallBackOrdered ==
  ASSUME ExactInv, verdict = "none", NEW used, FallBack(used)
  PROVE  Ordered'
<1>1. HistOK /\ Legal(calls) /\ UNCHANGED hist
  BY DEF ExactInv, Ordered, FallBack, input
<1>2. CASE opt.maxVisits > 0 /\ used >= opt.maxVisits
  <2>1. phase' = "done" /\ verdict' = "unknown" /\ UNCHANGED <<opt, calls>>
    BY <1>2 DEF FallBack, input
  <2>2. Legal(calls)'
    BY <1>1, <2>1, LegalKept
  <2> QED  BY <1>2, <2>1, <2>2 DEF Ordered, Searching, StageInv, CallerLimit
<1>3. CASE ~(opt.maxVisits > 0 /\ used >= opt.maxVisits)
  <2>1. phase' = "full" /\ verdict' = verdict /\ Load(Ids)
    BY <1>3 DEF FallBack, Ids
  <2>2. Linked' /\ Legal(calls)'
    BY <1>1, <2>1, LoadLinked
  <2>3. scope' = Ids'
    BY <1>1, <2>1 DEF Load, Ids
  <2> QED  BY <2>1, <2>2, <2>3 DEF Ordered, StageInv
<1> QED  BY <1>2, <1>3

(* So does every conclusion.                                               *)
LEMMA ConcludeOrdered ==
  ASSUME ExactInv, Searching, NEW v \in Verdicts, Conclude(v),
         v = "linearizable" => scope \subseteq Placed(calls),
         v = "unknown" /\ phase = "full" => CallerLimit
  PROVE  Ordered'
<1>1. /\ HistOK /\ Legal(calls) /\ Linked /\ StageInv /\ verdict = "none"
      /\ Placed(calls) \subseteq Ids
  BY DEF ExactInv, Ordered, WalkInv, TypeOK, Linked, StageInv, Searching
<1>2. CASE phase = "full"
  <2>1. phase' = "done" /\ verdict' = v /\ UNCHANGED <<hist, opt, expired, calls>>
    BY <1>2 DEF Conclude, input, walk
  <2>2. v = "linearizable" => Placed(calls) = Ids
    BY <1>1, <1>2 DEF StageInv
  <2>3. (verdict = "linearizable" => Placed(calls) = Ids)'
    BY <2>1, <2>2 DEF Ids
  <2>4. (verdict = "unknown" => CallerLimit)'
    BY <1>2, <2>1 DEF CallerLimit
  <2>5. Legal(calls)'
    BY <1>1, <2>1, LegalKept
  <2> QED  BY <2>1, <2>3, <2>4, <2>5 DEF Ordered, StageInv, Searching
<1>3. CASE phase # "full" /\ v = "linearizable"
  <2>1. phase = "probe" /\ phase' = "append" /\ UNCHANGED <<hist, opt, scope, calls, verdict>>
    BY <1>3 DEF Conclude, input, walk, Searching
  <2>2. scope = Returned /\ Returned \subseteq Placed(calls)
    BY <1>1, <1>3, <2>1 DEF StageInv
  <2>3. (scope = Returned /\ Returned \subseteq Placed(calls))'
    BY <2>1, <2>2 DEF Returned
  <2>4. Legal(calls)'
    BY <1>1, <2>1, LegalKept
  <2> QED  BY <1>1, <2>1, <2>3, <2>4 DEF Ordered, StageInv, Searching
<1>4. CASE phase # "full" /\ v # "linearizable"
  <2>1. FallBack(visits)
    BY <1>4 DEF Conclude
  <2> QED  BY <1>1, <2>1, FallBackOrdered
<1> QED  BY <1>2, <1>3, <1>4

(* A step inside a stage keeps what the stage knows.                       *)
LEMMA StageStays ==
  ASSUME StageInv, UNCHANGED <<hist, opt, phase, scope, verdict>>, expired => expired',
         phase = "append" => Placed(calls) \subseteq Placed(calls'),
         verdict = "linearizable" => UNCHANGED calls
  PROVE  StageInv'
  BY DEF StageInv, Returned, Ids, CallerLimit

(* The search begins in order.                                             *)
LEMMA ExactInit == Init => ExactInv
<1> SUFFICES ASSUME Init PROVE ExactInv
  OBVIOUS
<1>1. WalkInv /\ HistOK
  BY WalkInvInit, InputOK DEF Init
<1>2. phase = "enter" /\ verdict = "none" /\ calls = <<>>
  BY DEF Init
<1> QED  BY <1>1, <1>2, EmptyLegal DEF ExactInv, Ordered, Searching, StageInv

(* Every step keeps the order.                                             *)
LEMMA ExactNext == ExactInv /\ [Next]_vars => ExactInv'
<1> SUFFICES ASSUME ExactInv, [Next]_vars PROVE Ordered'
  BY WalkInvNext, HistKept DEF ExactInv, Next, Step, vars, EnterEmpty, EnterProbe,
     EnterFull, Solved, FailClosed, PlaceCall, SkipSeen, SkipRefused, Backtrack, NoOrder,
     AppendNext, AppendRefused, AppendDone, DeadlinePasses, Conclude, FallBack, input
<1>0. /\ TypeOK /\ HistOK /\ Legal(calls) /\ StageInv /\ (Searching => Linked)
      /\ phase # "done" => verdict = "none"
  BY DEF ExactInv, Ordered, WalkInv, StageInv
<1>1. CASE EnterEmpty
  <2>1. /\ hist = <<>> /\ phase' = "done" /\ verdict' = "linearizable"
        /\ UNCHANGED <<hist, calls>>
    BY <1>1 DEF EnterEmpty, input, walk
  <2>2. Placed(calls) = Ids
    BY <1>0, <2>1 DEF TypeOK, Ids, Frame, Placed
  <2>3. (Placed(calls) = Ids)' /\ Legal(calls)'
    BY <1>0, <2>1, <2>2, LegalKept DEF Ids
  <2> QED  BY <2>1, <2>3 DEF Ordered, Searching, StageInv
<1>2. CASE EnterProbe
  <2>1. phase' = "probe" /\ verdict' = verdict /\ UNCHANGED hist /\ Load(Returned)
        /\ verdict = "none" /\ Returned \in SUBSET Ids
    BY <1>0, <1>2 DEF EnterProbe, input, Returned, Ids
  <2>2. Linked' /\ Legal(calls)'
    BY <1>0, <2>1, LoadLinked
  <2>3. scope' = Returned'
    BY <2>1 DEF Load, Returned
  <2> QED  BY <2>1, <2>2, <2>3 DEF Ordered, StageInv
<1>3. CASE EnterFull
  <2>1. phase' = "full" /\ verdict' = verdict /\ UNCHANGED hist /\ Load(Ids)
        /\ verdict = "none"
    BY <1>0, <1>3 DEF EnterFull, input, Ids
  <2>2. Linked' /\ Legal(calls)'
    BY <1>0, <2>1, LoadLinked
  <2>3. scope' = Ids'
    BY <2>1 DEF Load, Ids
  <2> QED  BY <2>1, <2>2, <2>3 DEF Ordered, StageInv
<1>4. CASE Solved
  <2>1. Searching /\ list.next[Sentinel] = Nil /\ Conclude("linearizable")
    BY <1>4 DEF Solved
  <2>2. scope \subseteq Placed(calls)
    BY <1>0, <2>1, EmptyList DEF Linked
  <2> QED  BY <2>1, <2>2, ConcludeOrdered DEF Verdicts
<1>5. CASE FailClosed
  <2>1. Looping /\ Searching /\ ~InBudget /\ Conclude("unknown")
    BY <1>5, EmptyList DEF FailClosed, Looping
  <2>2. phase = "full" => CallerLimit
    BY <2>1 DEF InBudget, OverVisits, OverTime, OverMemory, Budget, CallerLimit
  <2> QED  BY <2>1, <2>2, ConcludeOrdered DEF Verdicts
<1>6. CASE PlaceCall
  <2>1. Linked' /\ Legal(calls)'
    BY <1>6, PlaceLinked
  <2>2. Searching /\ UNCHANGED <<hist, opt, expired, phase, scope, verdict>>
    BY <1>6 DEF PlaceCall, AtEntry, Looping, input
  <2>3. StageInv'
    BY <1>0, <2>2, StageStays DEF Searching
  <2> QED  BY <2>1, <2>3 DEF Ordered
<1>7. CASE SkipSeen \/ SkipRefused
  <2>1. /\ AtEntry(FALSE) /\ cursor' = list.next[cursor]
        /\ UNCHANGED <<hist, opt, expired, phase, scope, list, lin, calls, verdict>>
    BY <1>7 DEF SkipSeen, SkipRefused, input
  <2>2. Linked' /\ Legal(calls)'
    BY <1>0, <2>1, SkipLinked, LegalKept
  <2>3. StageInv'
    BY <1>0, <2>1, StageStays
  <2> QED  BY <2>2, <2>3 DEF Ordered
<1>8. CASE Backtrack
  <2>1. Linked' /\ Legal(calls)'
    BY <1>8, BacktrackLinked
  <2>2. Searching /\ UNCHANGED <<hist, opt, expired, phase, scope, verdict>>
    BY <1>8 DEF Backtrack, AtEntry, Looping, input
  <2>3. StageInv'
    BY <1>0, <2>2, StageStays DEF Searching
  <2> QED  BY <2>1, <2>3 DEF Ordered
<1>9. CASE NoOrder
  <2>1. Searching /\ Conclude("not linearizable")
    BY <1>9 DEF NoOrder, Looping
  <2> QED  BY <2>1, ConcludeOrdered DEF Verdicts
<1>10. CASE AppendNext
  <2>1. /\ phase = "append" /\ Unappended # {}
        /\ calls' = Append(calls, [op |-> NextUp, state |-> value])
        /\ UNCHANGED <<hist, opt, expired, phase, scope, verdict>>
    BY <1>10 DEF AppendNext, input
  <2>2. /\ NextUp \in Ids /\ NextUp \notin Placed(calls) /\ value \in Int /\ calls \in Seq(Frame)
        /\ hist \in Seq(Operation)
    BY <1>0, <2>1, NextUpType DEF Unappended, TypeOK
  <2>3. \A j \in Ids \ Placed(calls) : ~Precedes(hist[j], hist[NextUp])
    <3> TAKE j \in Ids \ Placed(calls)
    <3>1. hist[j].outcome = "info"
      BY <1>0, <2>1 DEF StageInv, Returned, Ids
    <3> QED  BY <1>0, <2>2, <3>1, InfoPrecedesNothing
  <2>4. Legal(calls')
    BY <1>0, <2>1, <2>2, <2>3, PlaceLegal
  <2>5. Placed(calls) \subseteq Placed(calls')
    <3>1. [op |-> NextUp, state |-> value] \in Frame
      BY <2>2 DEF Frame
    <3> QED  BY <2>1, <2>2, <3>1, OneMoreFrame
  <2>6. StageInv'
    BY <1>0, <2>1, <2>5, StageStays
  <2> QED  BY <2>1, <2>4, <2>6, LegalKept DEF Ordered, Searching
<1>11. CASE AppendRefused
  BY <1>0, <1>11, FallBackOrdered DEF AppendRefused
<1>12. CASE AppendDone
  <2>1. /\ phase = "append" /\ phase' = "done" /\ verdict' = "linearizable" /\ Unappended = {}
        /\ UNCHANGED <<hist, calls>>
    BY <1>12 DEF AppendDone, input, walk
  <2>2. Placed(calls) = Ids
    <3>1. calls \in Seq(Frame)
      BY <1>0 DEF TypeOK
    <3>4. Returned \subseteq Placed(calls)
      BY <1>0, <2>1 DEF StageInv
    <3>2. \A k \in DOMAIN calls : calls[k].op \in Ids
      <4> TAKE k \in DOMAIN calls
      <4>1. calls[k] \in Frame
        BY <3>1
      <4> QED  BY <4>1 DEF Frame
    <3>3. Placed(calls) \subseteq Ids
      BY <3>2 DEF Placed
    <3> QED  BY <2>1, <3>4, <3>3 DEF Unappended, Ids
  <2>3. (Placed(calls) = Ids)' /\ Legal(calls)'
    BY <1>0, <2>1, <2>2, LegalKept DEF Ids
  <2> QED  BY <2>1, <2>3 DEF Ordered, Searching, StageInv
<1>13. CASE DeadlinePasses \/ UNCHANGED vars
  <2>1. /\ UNCHANGED <<hist, opt, phase, scope, list, lin, calls, cursor, verdict>>
        /\ expired => expired'
    BY <1>13 DEF DeadlinePasses, vars, input, walk
  <2>2. Legal(calls)' /\ StageInv'
    BY <1>0, <2>1, LegalKept, StageStays
  <2>3. Searching' => Linked'
    BY <1>0, <2>1, LinkedStays DEF Searching
  <2> QED  BY <2>2, <2>3 DEF Ordered
<1> QED
  BY <1>1, <1>2, <1>3, <1>4, <1>5, <1>6, <1>7, <1>8, <1>9, <1>10, <1>11, <1>12, <1>13
     DEF Next, Step

(***************************************************************************)
(* For every history, model and budget, whatever sequence of lifts and     *)
(* unlifts led here, the list is exactly the entries still to be placed,   *)
(* linked both ways in timeline order, and the walk is on it: the branch   *)
(* checker.go:742 calls unreachable is.                                    *)
(***************************************************************************)
THEOREM WalkListIntact == Spec => []ListIntact
<1>1. ExactInv => ListIntact
  <2> SUFFICES ASSUME ExactInv, Searching PROVE ListIntact
    BY DEF ListIntact, Looping
  <2>1. Linked
    BY DEF ExactInv, Ordered
  <2>2. Looping => cursor \in Left
    BY <2>1, EmptyList DEF Linked, OnWalk
  <2>3. Holds(BuildEntries(scope \ lin), Left)
    BY BuildHolds DEF Left
  <2> QED  BY <2>1, <2>2, <2>3 DEF ListIntact, Linked, Holds, Left
<1> QED  BY <1>1, ExactInit, ExactNext, PTL DEF Spec

-----------------------------------------------------------------------------
(***************************************************************************)
(* A pass is sound.                                                        *)
(***************************************************************************)

(* The frames of a replaying stack are the frames the definition computes  *)
(* from its operations.                                                    *)
LEMMA BeforeStates ==
  ASSUME hist \in Seq(Operation), NEW w \in Seq(Frame), NEW v,
         Replays(hist, w, v), Len(w) = Len(hist)
  PROVE  LET p == [k \in DOMAIN hist |-> w[k].op]
         IN  /\ \A k \in DOMAIN hist : Frames(hist, p).frames[k] = [op |-> w[k].op, state |-> w[k].state]
             /\ Frames(hist, p).frames = w
             /\ Frames(hist, p).final = v
<1> DEFINE N == Len(hist)
           p == [k \in DOMAIN hist |-> w[k].op]
           D == 1..(N + 1)
           body(f) == [k \in D |-> IF k = 1 THEN InitialValue ELSE After(f[k-1], hist[p[k-1]])]
           b == CHOOSE f : f = body(f)
           g == [k \in D |-> IF k = N + 1 THEN v ELSE w[k].state]
<1>0. N \in Nat /\ DOMAIN hist = 1..N /\ DOMAIN w = 1..N
  OBVIOUS
<1>1. Frames(hist, p) = [frames |-> [k \in DOMAIN hist |-> [op |-> p[k], state |-> b[k]]],
                         final |-> b[N + 1]]
  BY DEF Frames
<1>2. g = body(g)
  <2> SUFFICES ASSUME NEW k \in D
               PROVE  g[k] = IF k = 1 THEN InitialValue ELSE After(g[k-1], hist[p[k-1]])
    OBVIOUS
  <2>1. CASE k = 1
    <3>1. CASE N = 0
      <4>1. w = <<>>
        BY <3>1
      <4> QED  BY <1>0, <2>1, <3>1, <4>1 DEF Replays
    <3>2. CASE N # 0
      <4>1. w # <<>> /\ k # N + 1
        BY <1>0, <2>1, <3>2
      <4> QED  BY <1>0, <2>1, <4>1 DEF Replays
    <3> QED  BY <3>1, <3>2
  <2>2. CASE k # 1
    <3>1. k - 1 \in 1..N /\ k - 1 \in D /\ k - 1 # N + 1 /\ (k - 1) + 1 = k
      BY <1>0, <2>2
    <3>2. After(w[k-1].state, hist[w[k-1].op]) = IF k - 1 = N THEN v ELSE w[k].state
      BY <1>0, <3>1 DEF Replays
    <3>3. g[k-1] = w[k-1].state /\ p[k-1] = w[k-1].op
      BY <1>0, <3>1
    <3>4. g[k] = IF k - 1 = N THEN v ELSE w[k].state
      BY <1>0, <3>1
    <3> QED  BY <2>2, <3>2, <3>3, <3>4
  <2> QED  BY <2>1, <2>2
<1>3. b = body(b)
  <2> HIDE DEF body
  <2> QED  BY <1>2
<1> HIDE DEF b, g
<1>4. \A k \in D : b[k] = IF k = 1 THEN InitialValue ELSE After(b[k-1], hist[p[k-1]])
  BY <1>3
<1>5. \A k \in D : g[k] = IF k = 1 THEN InitialValue ELSE After(g[k-1], hist[p[k-1]])
  BY <1>2
<1> HIDE DEF body, p
<1>6. \A k \in D : b[k] = g[k]
  <2> DEFINE T == {k \in D : b[k] # g[k]}
  <2> SUFFICES ASSUME T # {} PROVE FALSE
    OBVIOUS
  <2>1. T \in SUBSET Nat
    BY <1>0
  <2>2. PICK k \in T : \A j \in T : k <= j
    BY <2>1, LeastNumber
  <2>3. k # 1
    BY <1>4, <1>5, <2>2
  <2>4. k - 1 \in D /\ ~(k <= k - 1)
    BY <1>0, <2>2, <2>3
  <2>5. b[k-1] = g[k-1]
    BY <2>2, <2>4
  <2> QED  BY <1>4, <1>5, <2>2, <2>3, <2>5
<1>7. \A k \in 1..N : b[k] = w[k].state
  BY <1>0, <1>6 DEF g
<1>8. b[N + 1] = v
  BY <1>0, <1>6 DEF g
<1>9. \A k \in 1..N : w[k] = [op |-> w[k].op, state |-> w[k].state]
  <2> TAKE k \in 1..N
  <2>1. w[k] \in Frame
    BY <1>0
  <2> QED  BY <2>1 DEF Frame
<1>10. w = [k \in 1..N |-> w[k]]
  <2> HIDE DEF N
  <2>1. w \in [1..Len(w) -> Frame] /\ Len(w) = N
    BY DEF N
  <2> QED  BY <2>1
<1>11. Frames(hist, p).frames = [k \in 1..N |-> [op |-> w[k].op, state |-> w[k].state]]
  <2>1. \A k \in 1..N : p[k] = w[k].op
    BY <1>0 DEF p
  <2>2. Frames(hist, p).frames = [k \in 1..N |-> [op |-> p[k], state |-> b[k]]]
    BY <1>0, <1>1
  <2> HIDE DEF N
  <2>3. [k \in 1..N |-> [op |-> p[k], state |-> b[k]]]
          = [k \in 1..N |-> [op |-> w[k].op, state |-> w[k].state]]
    BY <1>7, <2>1
  <2> QED  BY <2>2, <2>3
<1>12. Frames(hist, p).frames = w
  <2> HIDE DEF N
  <2>1. [k \in 1..N |-> [op |-> w[k].op, state |-> w[k].state]] = [k \in 1..N |-> w[k]]
    BY <1>9
  <2> QED  BY <1>10, <1>11, <2>1
<1>13. Frames(hist, p).final = v
  BY <1>1, <1>8
<1>14. \A k \in DOMAIN hist : Frames(hist, p).frames[k] = [op |-> w[k].op, state |-> w[k].state]
  BY <1>0, <1>11
<1> QED  BY <1>12, <1>13, <1>14 DEF p

(* A stack with everything placed once has one frame per operation.        *)
LEMMA EveryOpPlaced ==
  ASSUME hist \in Seq(Operation), NEW w \in Seq(Frame), PlacedOnce(w), Placed(w) = Ids
  PROVE  Len(w) = Len(hist)
<1> DEFINE N == Len(hist)
           M == Len(w)
           f == [k \in 1..M |-> w[k].op]
<1>1. N \in Nat /\ M \in Nat /\ Ids = 1..N /\ DOMAIN w = 1..M
  BY DEF Ids
<1>2. \A k \in 1..M : w[k].op \in Ids
  BY <1>1 DEF Placed
<1>3. f \in [1..M -> 1..N]
  BY <1>1, <1>2
<1>4. \A j, k \in 1..M : f[j] = f[k] => j = k
  BY <1>1 DEF PlacedOnce
<1>5. \A i \in 1..N : \E k \in 1..M : f[k] = i
  BY <1>1 DEF Placed
<1> HIDE DEF f
<1>6. f \in Injection(1..M, 1..N) /\ f \in Surjection(1..M, 1..N)
  BY <1>3, <1>4, <1>5 DEF Injection, Surjection, IsInjective
<1>7. /\ IsFiniteSet(1..M) /\ IsFiniteSet(1..N)
      /\ Cardinality(1..M) = M /\ Cardinality(1..N) = N
  <2>1. \A n \in Nat : IsFiniteSet(1..n) /\ Cardinality(1..n) = n
    <3> TAKE n \in Nat
    <3>1. Cardinality(1..n) = (IF 1 > n THEN 0 ELSE n - 1 + 1) /\ IsFiniteSet(1..n)
      BY FS_Interval
    <3> QED  BY <3>1
  <2> QED  BY <1>1, <2>1
<1> HIDE DEF M, N
<1>8. Cardinality(1..N) <= Cardinality(1..M)
  BY <1>6, <1>7, FS_Surjection
<1>9. Cardinality(1..M) <= Cardinality(1..N)
  BY <1>6, <1>7, FS_Injection
<1>10. M = N
  BY <1>1, <1>7, <1>8, <1>9
<1> QED  BY <1>10 DEF M, N

(* Soundness: a legal stack with everything placed is a linearization.     *)
LEMMA WitnessLinearizes ==
  ASSUME hist \in Seq(Operation), NEW w \in Seq(Frame), NEW v,
         Replays(hist, w, v), Legal(w), Placed(w) = Ids
  PROVE  Linearizable(hist)
<1> DEFINE N == Len(hist)
           p == [k \in DOMAIN hist |-> w[k].op]
<1>1. Len(w) = N
  BY EveryOpPlaced DEF Legal
<1>2. N \in Nat /\ DOMAIN hist = 1..N /\ DOMAIN w = 1..N
  BY <1>1
<1>3. \A k \in 1..N : w[k].op \in DOMAIN hist
  BY <1>2 DEF Placed, Ids
<1>4. \A i, j \in 1..N : w[i].op = w[j].op => i = j
  BY <1>2 DEF Legal, PlacedOnce
<1>5. p \in Orders(hist)
  BY <1>2, <1>3, <1>4 DEF Orders
<1>6. ASSUME NEW i \in 1..N, NEW j \in 1..N, i < j, Precedes(hist[p[j]], hist[p[i]])
      PROVE  FALSE
  <2>1. w[j].op # w[i].op /\ w[j].op \in DOMAIN hist /\ i \in Nat /\ j \in Nat
    BY <1>3, <1>4, <1>6
  <2>2. Precedes(hist[w[j].op], hist[w[i].op])
    BY <1>2, <1>6
  <2>3. PICK m \in 1..N : m < i /\ w[m].op = w[j].op
    BY <1>2, <2>1, <2>2, Zenon DEF Legal, RespectsRealTime
  <2>4. m = j
    BY <1>4, <2>3
  <2> QED  BY <1>6, <2>1, <2>3, <2>4
<1>7. Frames(hist, p).frames = w /\ Frames(hist, p).final = v
  BY <1>1, BeforeStates
<1> HIDE DEF p
<1>8. \A i, j \in DOMAIN hist : i < j => ~Precedes(hist[p[j]], hist[p[i]])
  BY <1>2, <1>6
<1> QED  BY <1>5, <1>7, <1>8 DEF Linearizable

-----------------------------------------------------------------------------
(***************************************************************************)
(* What a linearization offers the search.                                 *)
(***************************************************************************)

(* w orders the operations outside S so that they are legal from value v   *)
(* on and respect real time among themselves.                              *)
Completion(w, S, v) ==
  /\ PlacedOnce(w) /\ Placed(w) = Ids \ S
  /\ \A k \in DOMAIN w : Fits(w[k].state, hist[w[k].op])
  /\ w # <<>> => w[1].state = v
  /\ \A k \in DOMAIN w : k < Len(w) => w[k+1].state = After(w[k].state, hist[w[k].op])
  /\ \A j, k \in DOMAIN w : j < k => ~Precedes(hist[w[k].op], hist[w[j].op])

(* There is such an order.                                                 *)
Completable(S, v) == \E w \in Seq(Frame) : Completion(w, S, v)

(* A linearization is an order of everything from the initial value.       *)
LEMMA LinearizableCompletable ==
  ASSUME hist \in Seq(Operation), Linearizable(hist)
  PROVE  Completable({}, InitialValue)
<1> DEFINE N == Len(hist)
<1>0. N \in Nat /\ DOMAIN hist = 1..N /\ Ids = 1..N /\ \A i \in 1..N : hist[i] \in Operation
  BY DEF Ids
<1> HIDE DEF N
<1>1. PICK p \in Orders(hist) :
        /\ \A i, j \in DOMAIN hist : i < j => ~Precedes(hist[p[j]], hist[p[i]])
        /\ Replays(hist, Frames(hist, p).frames, Frames(hist, p).final)
  BY DEF Linearizable
<1> DEFINE w == Frames(hist, p).frames
           s == [k \in 1..N |-> w[k].state]
<1>2. \E g : Frames(hist, p).frames = [k \in DOMAIN hist |-> [op |-> p[k], state |-> g[k]]]
  BY Zenon DEF Frames
<1>3. PICK g : w = [k \in 1..N |-> [op |-> p[k], state |-> g[k]]]
  BY <1>0, <1>2
<1>4. /\ DOMAIN w = 1..N
      /\ \A k \in 1..N : w[k].op = p[k] /\ w[k] = [op |-> p[k], state |-> w[k].state]
      /\ Replays(hist, w, Frames(hist, p).final)
  BY <1>1, <1>3
<1> HIDE DEF w
<1>5. /\ p \in [1..N -> 1..N] /\ \A i, j \in 1..N : p[i] = p[j] => i = j
  BY <1>0, <1>1 DEF Orders
<1>6. Len(w) = N
  <2>1. w \in [1..N -> {w[k] : k \in 1..N}]
    BY <1>3, <1>4 DEF w
  <2>2. w \in Seq({w[k] : k \in 1..N})
    BY <1>0, <2>1
  <2> QED  BY <1>0, <1>4, <2>2
<1>7. N # 0 => w # <<>> /\ w[1].state = InitialValue
  <2> SUFFICES ASSUME N # 0 PROVE w # <<>> /\ w[1].state = InitialValue
    OBVIOUS
  <2>1. 1 \in DOMAIN w
    BY <1>0, <1>4
  <2>2. w # <<>>
    BY <2>1
  <2> QED  BY <1>4, <2>2 DEF Replays
<1>8. \A k \in 1..N : k < N => w[k+1].state = After(w[k].state, hist[w[k].op])
  BY <1>0, <1>4, <1>6 DEF Replays
<1>9. \A k \in 1..N : w[k].state \in Int
  <2> DEFINE T == {k \in 1..N : w[k].state \notin Int}
  <2> SUFFICES ASSUME T # {} PROVE FALSE
    OBVIOUS
  <2>1. T \in SUBSET Nat
    OBVIOUS
  <2>2. PICK k \in T : \A j \in T : k <= j
    BY <2>1, LeastNumber
  <2>3. k \in 1..N /\ w[k].state \notin Int
    BY <2>2
  <2>4. k # 1
    BY <1>0, <1>7, <2>3 DEF InitialValue
  <2>5. k - 1 \in 1..N /\ k - 1 < N /\ (k - 1) + 1 = k /\ ~(k <= k - 1)
    BY <1>0, <2>3, <2>4
  <2>6. w[k-1].state \in Int
    BY <2>2, <2>5
  <2>7. hist[w[k-1].op] \in Operation
    BY <1>0, <1>4, <1>5, <2>5
  <2>8. w[k].state = After(w[k-1].state, hist[w[k-1].op])
    BY <1>8, <2>5
  <2> QED  BY <2>3, <2>6, <2>7, <2>8, AfterType
<1>10. w \in Seq(Frame)
  <2>1. \A k \in 1..N : w[k] \in Frame
    <3> TAKE k \in 1..N
    <3>1. p[k] \in Ids /\ w[k].state \in Int /\ w[k] = [op |-> p[k], state |-> w[k].state]
      BY <1>0, <1>4, <1>5, <1>9
    <3> QED  BY <3>1 DEF Frame
  <2>2. w = [k \in 1..N |-> w[k]]
    BY <1>3, <1>4 DEF w
  <2>3. w \in [1..N -> Frame]
    BY <2>1, <2>2
  <2> QED  BY <1>0, <2>3
<1>11. \A i \in 1..N : \E k \in 1..N : p[k] = i
  <2>1. p \in Injection(1..N, 1..N)
    BY <1>5 DEF Injection, IsInjective
  <2>2. IsFiniteSet(1..N)
    BY <1>0, FS_Interval
  <2>3. p \in Surjection(1..N, 1..N)
    BY <2>1, <2>2, FS_Injection
  <2> QED  BY <2>3 DEF Surjection
<1>12. Placed(w) = Ids \ {}
  BY <1>0, <1>4, <1>5, <1>11 DEF Placed
<1>13. PlacedOnce(w)
  BY <1>4, <1>5 DEF PlacedOnce
<1>14. \A k \in DOMAIN w : Fits(w[k].state, hist[w[k].op])
  BY <1>4 DEF Replays
<1>15. w # <<>> => w[1].state = InitialValue
  BY <1>4 DEF Replays
<1>16. \A j, k \in DOMAIN w : j < k => ~Precedes(hist[w[k].op], hist[w[j].op])
  BY <1>0, <1>1, <1>4
<1>17. Completion(w, {}, InitialValue)
  BY <1>4, <1>6, <1>8, <1>12, <1>13, <1>14, <1>15, <1>16 DEF Completion
<1> QED  BY <1>10, <1>17 DEF Completable

(* The first operation of such an order is one nothing unplaced precedes,  *)
(* it fits, and the rest can be completed.                                 *)
LEMMA CompletableNext ==
  ASSUME hist \in Seq(Operation), NEW S \in SUBSET Ids, Ids \ S # {}, NEW v,
         Completable(S, v)
  PROVE  \E i \in Ids \ S :
           /\ \A j \in Ids \ S : j # i => ~Precedes(hist[j], hist[i])
           /\ Fits(v, hist[i])
           /\ Completable(S \cup {i}, After(v, hist[i]))
<1>1. PICK w \in Seq(Frame) : Completion(w, S, v)
  BY DEF Completable
<1> DEFINE n == Len(w)
           i == w[1].op
           x == Tail(w)
<1>2. w # <<>>
  <2> SUFFICES ASSUME w = <<>> PROVE FALSE
    OBVIOUS
  <2>1. Placed(w) = {}
    BY DEF Placed
  <2> QED  BY <1>1, <2>1 DEF Completion
<1>3. /\ n \in Nat /\ n >= 1 /\ DOMAIN w = 1..n
      /\ x \in Seq(Frame) /\ Len(x) = n - 1 /\ DOMAIN x = 1..(n - 1)
      /\ \A k \in 1..(n - 1) : x[k] = w[k+1]
  BY <1>2
<1> HIDE DEF n, x
<1>4. /\ PlacedOnce(w) /\ Placed(w) = Ids \ S
      /\ \A k \in 1..n : Fits(w[k].state, hist[w[k].op])
      /\ w[1].state = v
      /\ \A k \in 1..n : k < n => w[k+1].state = After(w[k].state, hist[w[k].op])
      /\ \A j, k \in 1..n : j < k => ~Precedes(hist[w[k].op], hist[w[j].op])
  BY <1>1, <1>2, <1>3 DEF Completion, n
<1>5. 1 \in 1..n /\ \A k \in 1..(n - 1) : k + 1 \in 1..n /\ k + 1 # 1
  BY <1>3
<1>6. i \in Ids \ S /\ Fits(v, hist[i])
  BY <1>3, <1>4, <1>5 DEF Placed
<1>7. ASSUME NEW j \in Ids \ S, j # i PROVE ~Precedes(hist[j], hist[i])
  <2>1. PICK k \in 1..n : w[k].op = j
    BY <1>3, <1>4 DEF Placed
  <2>2. 1 < k
    BY <1>3, <1>7, <2>1
  <2> QED  BY <1>4, <1>5, <2>1, <2>2
<1>8. Placed(x) = Ids \ (S \cup {i})
  <2>1. \A k \in 1..(n - 1) : x[k].op \in Placed(w) /\ x[k].op # i
    <3> TAKE k \in 1..(n - 1)
    <3>1. k + 1 \in 1..n /\ 1 \in 1..n /\ k + 1 # 1 /\ x[k] = w[k+1]
      BY <1>3, <1>5
    <3>2. w[k+1].op \in Placed(w)
      BY <1>3, <3>1 DEF Placed
    <3>3. w[k+1].op # w[1].op
      BY <1>3, <1>4, <3>1 DEF PlacedOnce
    <3> QED  BY <3>1, <3>2, <3>3
  <2>2. ASSUME NEW j \in Placed(w), j # i PROVE j \in Placed(x)
    <3>1. PICK k \in 1..n : w[k].op = j
      BY <1>3 DEF Placed
    <3>2. k - 1 \in 1..(n - 1) /\ (k - 1) + 1 = k
      BY <1>3, <2>2, <3>1
    <3>3. x[k-1].op = j
      BY <1>3, <3>1, <3>2
    <3> QED  BY <1>3, <3>2, <3>3 DEF Placed
  <2>3. Placed(x) \subseteq Placed(w) \ {i}
    BY <1>3, <2>1 DEF Placed
  <2> HIDE DEF i
  <2> QED  BY <1>4, <2>2, <2>3
<1>9. PlacedOnce(x)
  <2> SUFFICES ASSUME NEW j \in 1..(n - 1), NEW k \in 1..(n - 1), x[j].op = x[k].op
               PROVE  j = k
    BY <1>3 DEF PlacedOnce
  <2>1. w[j+1].op = w[k+1].op /\ j + 1 \in 1..n /\ k + 1 \in 1..n
    BY <1>3, <1>5
  <2>2. j + 1 = k + 1
    BY <1>3, <1>4, <2>1 DEF PlacedOnce
  <2> QED  BY <2>2
<1>10. \A k \in 1..(n - 1) : Fits(x[k].state, hist[x[k].op])
  BY <1>3, <1>4, <1>5
<1>11. x # <<>> => x[1].state = After(v, hist[i])
  <2> SUFFICES ASSUME x # <<>> PROVE x[1].state = After(v, hist[i])
    OBVIOUS
  <2>1. n - 1 >= 1
    BY <1>3
  <2>2. 1 \in 1..(n - 1) /\ 1 \in 1..n /\ 1 < n /\ x[1] = w[1 + 1]
    BY <1>3, <2>1
  <2> QED  BY <1>4, <2>2
<1>12. \A k \in 1..(n - 1) : k < n - 1 => x[k+1].state = After(x[k].state, hist[x[k].op])
  <2> SUFFICES ASSUME NEW k \in 1..(n - 1), k < n - 1
               PROVE  x[k+1].state = After(x[k].state, hist[x[k].op])
    OBVIOUS
  <2>1. k + 1 \in 1..(n - 1) /\ k + 1 \in 1..n /\ k + 1 < n
    BY <1>3
  <2>2. x[k] = w[k+1] /\ x[k+1] = w[(k+1)+1]
    BY <1>3, <2>1
  <2> QED  BY <1>4, <2>1, <2>2
<1>13. \A j, k \in 1..(n - 1) : j < k => ~Precedes(hist[x[k].op], hist[x[j].op])
  <2> SUFFICES ASSUME NEW j \in 1..(n - 1), NEW k \in 1..(n - 1), j < k
               PROVE  ~Precedes(hist[x[k].op], hist[x[j].op])
    OBVIOUS
  <2>1. j + 1 \in 1..n /\ k + 1 \in 1..n /\ j + 1 < k + 1
    BY <1>3
  <2>2. x[j] = w[j+1] /\ x[k] = w[k+1]
    BY <1>3
  <2> QED  BY <1>4, <2>1, <2>2
<1>14. Completion(x, S \cup {i}, After(v, hist[i]))
  BY <1>3, <1>8, <1>9, <1>10, <1>11, <1>12, <1>13 DEF Completion
<1>15. Completable(S \cup {i}, After(v, hist[i]))
  BY <1>3, <1>14 DEF Completable
<1> QED  BY <1>6, <1>7, <1>15

-----------------------------------------------------------------------------
(***************************************************************************)
(* What the search has given up leads nowhere.                             *)
(***************************************************************************)

(* Placing j next leads nowhere.                                           *)
Barren(S, v, j) == ~(Fits(v, hist[j]) /\ Completable(S \cup {j}, After(v, hist[j])))

(* The value the register held before the k-th frame, or holds now.        *)
StateAt(w, v, k) == IF k = Len(w) + 1 THEN v ELSE w[k].state

(* Configuration c is one the stack passes through.                        *)
OnPath(w, v, c)  == \E k \in 2..(Len(w) + 1) : c = <<Below(w, k), StateAt(w, v, k)>>

(* Everything in the cache that is not on the stack's own path leads       *)
(* nowhere.                                                                *)
Dead(w, v, X)  == \A c \in X : Completable(c[1], c[2]) => OnPath(w, v, c)

(* Every operation whose call is before e leads nowhere.                   *)
Tried(S, v, e) == \A j \in Ids \ S : EntryLess(Call(j), e) => Barren(S, v, j)

(* At every level of the stack, the choices before the one taken lead      *)
(* nowhere.                                                                *)
TriedBelow(w)  == \A k \in DOMAIN w : Tried(Below(w, k), w[k].state, Call(w[k].op))

(* What has been explored and given up really leads nowhere: the cache,    *)
(* the calls before the cursor, and those before each frame.               *)
Exhausted ==
  /\ Dead(calls, value, seen)
  /\ cursor # Nil => Tried(lin, value, cursor)
  /\ TriedBelow(calls)

(* A refusal rests on that.                                                *)
RefuseInv ==
  /\ phase = "full" => Exhausted
  /\ verdict = "not linearizable" => ~Linearizable(hist)

(* These say something of the history alone.                               *)
LEMMA RigidOrders ==
  ASSUME UNCHANGED hist
  PROVE  /\ \A S, v : Completable(S, v)' <=> Completable(S, v)
         /\ \A w, v, X : Dead(w, v, X)' <=> Dead(w, v, X)
         /\ \A S, v, e : Tried(S, v, e)' <=> Tried(S, v, e)
         /\ \A w : TriedBelow(w)' <=> TriedBelow(w)
         /\ Linearizable(hist)' <=> Linearizable(hist)
<1>1. \A S, v : Completable(S, v)' <=> Completable(S, v)
  BY DEF Completable, Completion, Ids, Frame
<1>2. \A S, v, j : Barren(S, v, j)' <=> Barren(S, v, j)
  BY <1>1 DEF Barren
<1>3. \A w, v, X : Dead(w, v, X)' <=> Dead(w, v, X)
  BY <1>1 DEF Dead
<1>4. \A S, v, e : Tried(S, v, e)' <=> Tried(S, v, e)
  BY <1>2, OrderKept DEF Tried, Ids, Call
<1>5. \A w : TriedBelow(w)' <=> TriedBelow(w)
  BY <1>4 DEF TriedBelow, Call
<1> QED  BY <1>1, <1>3, <1>4, <1>5

(* Exhausted in the next state, from facts about the new values.           *)
LEMMA ExhaustedNow ==
  ASSUME UNCHANGED hist, Dead(calls', value', seen'), TriedBelow(calls'),
         cursor' # Nil => Tried(lin', value', cursor')
  PROVE  Exhausted'
<1>1. Dead(calls, value, seen)' /\ TriedBelow(calls)'
  BY RigidOrders
<1>2. (cursor # Nil => Tried(lin, value, cursor))'
  BY RigidOrders DEF Nil
<1> QED  BY <1>1, <1>2 DEF Exhausted

(* Below the top of the stack is all of it.                                *)
LEMMA BelowAll ==
  ASSUME NEW F, NEW w \in Seq(F)
  PROVE  Below(w, Len(w) + 1) = Placed(w)
<1>1. 1..(Len(w) + 1 - 1) = DOMAIN w
  OBVIOUS
<1> QED  BY <1>1 DEF Below, Placed

(* What is below a frame is placed.                                        *)
LEMMA BelowPlaced ==
  ASSUME NEW F, NEW w \in Seq(F), NEW k \in 1..(Len(w) + 1)
  PROVE  Below(w, k) \subseteq Placed(w)
<1>1. \A j \in 1..(k - 1) : j \in DOMAIN w
  OBVIOUS
<1> QED  BY <1>1 DEF Below, Placed

(* Placing an operation puts its new configuration on the path.            *)
LEMMA DeadOneMore ==
  ASSUME NEW w \in Seq(Frame), NEW v, NEW X, Dead(w, v, X), NEW u,
         NEW f \in Frame, f.state = v
  PROVE  Dead(Append(w, f), u, X \cup {<<Placed(w) \cup {f.op}, u>>})
<1> DEFINE x == Append(w, f)
           n == Len(w)
<1>1. /\ n \in Nat /\ DOMAIN w = 1..n
      /\ Len(x) = n + 1 /\ x[n + 1] = f /\ \A k \in 1..n : x[k] = w[k]
      /\ Placed(x) = Placed(w) \cup {f.op}
      /\ \A k \in 1..n : Below(x, k) = Below(w, k)
      /\ Below(x, n + 1) = Placed(w)
      /\ x \in Seq(Frame)
  BY OneMoreFrame
<1>2. Below(w, n + 1) = Placed(w) /\ Below(x, Len(x) + 1) = Placed(x)
  BY <1>1, BelowAll
<1> HIDE DEF x, n
<1>3. ASSUME NEW c \in X, Completable(c[1], c[2]) PROVE OnPath(x, u, c)
  <2>1. PICK k \in 2..(n + 1) : c = <<Below(w, k), StateAt(w, v, k)>>
    BY <1>3 DEF Dead, OnPath, n
  <2>2. CASE k = n + 1
    <3>1. Below(x, k) = Below(w, k) /\ StateAt(x, u, k) = v /\ StateAt(w, v, k) = v
      BY <1>1, <1>2, <2>2 DEF StateAt, n
    <3>2. k \in 2..(Len(x) + 1)
      BY <1>1
    <3> QED  BY <2>1, <3>1, <3>2 DEF OnPath
  <2>3. CASE k # n + 1
    <3>1. k \in 1..n /\ k # Len(x) + 1
      BY <1>1, <2>3
    <3>2. StateAt(x, u, k) = w[k].state /\ StateAt(w, v, k) = w[k].state
      BY <1>1, <2>3, <3>1 DEF StateAt, n
    <3>3. k \in 2..(Len(x) + 1)
      BY <1>1
    <3> QED  BY <1>1, <2>1, <3>1, <3>2, <3>3 DEF OnPath
  <2> QED  BY <2>2, <2>3
<1>4. OnPath(x, u, <<Placed(w) \cup {f.op}, u>>)
  <2>1. Len(x) + 1 \in 2..(Len(x) + 1)
    BY <1>1
  <2>2. StateAt(x, u, Len(x) + 1) = u
    BY DEF StateAt
  <2> QED  BY <1>1, <1>2, <2>1, <2>2 DEF OnPath
<1> QED  BY <1>3, <1>4 DEF Dead, x

(* Taking it back takes off only a configuration that leads nowhere.       *)
LEMMA DeadOneLess ==
  ASSUME NEW w \in Seq(Frame), w # <<>>, NEW v, NEW X, Dead(w, v, X),
         ~Completable(Placed(w), v)
  PROVE  Dead(Front(w), w[Len(w)].state, X)
<1> DEFINE x == Front(w)
           n == Len(w)
           u == w[n].state
<1>1. /\ n \in Nat /\ n >= 1
      /\ Len(x) = n - 1 /\ \A k \in 1..(n - 1) : x[k] = w[k]
      /\ Placed(x) = Below(w, n)
      /\ \A k \in 1..(n - 1) : Below(x, k) = Below(w, k)
  BY OneLessFrame
<1>2. x \in Seq(Frame)
  BY DEF Front
<1>3. Below(w, n + 1) = Placed(w) /\ Below(x, Len(x) + 1) = Placed(x)
  BY <1>2, BelowAll
<1> HIDE DEF x, u, n
<1> SUFFICES ASSUME NEW c \in X, Completable(c[1], c[2]) PROVE OnPath(x, u, c)
  BY DEF Dead, x, u, n
<1>4. PICK k \in 2..(n + 1) : c = <<Below(w, k), StateAt(w, v, k)>>
  BY DEF Dead, OnPath, n
<1>5. k # n + 1
  <2> SUFFICES ASSUME k = n + 1 PROVE FALSE
    OBVIOUS
  <2>1. StateAt(w, v, k) = v
    BY DEF StateAt, n
  <2> QED  BY <1>3, <1>4, <2>1
<1>6. k \in 2..n /\ Len(x) + 1 = n
  BY <1>1, <1>5
<1>7. Below(x, k) = Below(w, k)
  <2>1. CASE k = n
    BY <1>1, <1>3, <1>6, <2>1
  <2>2. CASE k # n
    <3>1. k \in 1..(n - 1)
      BY <1>1, <1>6, <2>2
    <3> QED  BY <1>1, <3>1
  <2> QED  BY <2>1, <2>2
<1>8. StateAt(w, v, k) = w[k].state
  BY <1>5 DEF StateAt, n
<1>9. StateAt(x, u, k) = w[k].state
  <2>1. CASE k = n
    BY <1>6, <2>1 DEF StateAt, u
  <2>2. CASE k # n
    <3>1. k \in 1..(n - 1)
      BY <1>1, <1>6, <2>2
    <3> QED  BY <1>1, <1>6, <2>2, <3>1 DEF StateAt
  <2> QED  BY <2>1, <2>2
<1> QED  BY <1>4, <1>6, <1>7, <1>8, <1>9 DEF OnPath

-----------------------------------------------------------------------------

(* At the front nothing has been passed over.                              *)
LEMMA FrontTried ==
  ASSUME HistOK, NEW S \in SUBSET Ids, NEW v, NEW c,
         c = Succ(Entries(Ids \ S), Sentinel), c # Nil
  PROVE  Tried(S, v, c)
<1> DEFINE T == Entries(Ids \ S)
<1>1. T \in SUBSET Everything
  BY EntriesWithin
<1>2. \A j \in Ids \ S : Call(j) \in T
  BY DEF Entries
<1> HIDE DEF T
<1>3. Past(T, Sentinel) = T
  BY DEF Past
<1>4. c \in T /\ \A x \in T : x = c \/ EntryLess(c, x)
  BY <1>1, <1>3, SuccIs DEF T
<1>5. \A x \in T : ~EntryLess(x, c)
  BY <1>1, <1>4, OrderTotal
<1> QED  BY <1>2, <1>5 DEF Tried

(* Stepping over a barren call.                                            *)
LEMMA NextTried ==
  ASSUME HistOK, NEW S \in SUBSET Ids, NEW v, NEW i \in Ids \ S,
         Tried(S, v, Call(i)), Barren(S, v, i), NEW c,
         c = Succ(Entries(Ids \ S), Call(i)), c # Nil
  PROVE  Tried(S, v, c)
<1> DEFINE T == Entries(Ids \ S)
<1>1. T \in SUBSET Everything
  BY EntriesWithin
<1>2. \A j \in Ids \ S : Call(j) \in T
  BY DEF Entries
<1>3. \A j : Call(j) = Call(i) => j = i
  BY DEF Call
<1> HIDE DEF T
<1>4. Call(i) \in Everything
  BY <1>1, <1>2
<1>5. c \in Past(T, Call(i)) /\ \A x \in Past(T, Call(i)) : x = c \/ EntryLess(c, x)
  BY <1>1, <1>4, SuccIs DEF T
<1>6. c \in T
  BY <1>5 DEF Past
<1> SUFFICES ASSUME NEW j \in Ids \ S, EntryLess(Call(j), c) PROVE Barren(S, v, j)
  BY DEF Tried
<1>7. Call(j) \notin Past(T, Call(i))
  BY <1>1, <1>2, <1>5, <1>6, OrderTotal
<1>8. ~EntryLess(Call(i), Call(j))
  BY <1>2, <1>7 DEF Past
<1>9. Call(j) = Call(i) \/ EntryLess(Call(j), Call(i))
  BY <1>1, <1>2, <1>4, <1>8, OrderTotal
<1> QED  BY <1>3, <1>9 DEF Tried

(* At a return nothing can come next: whatever could is before it, and has *)
(* been tried.                                                             *)
LEMMA Stuck ==
  ASSUME HistOK, NEW S \in SUBSET Ids, NEW v, NEW c \in Ids \ S, Tried(S, v, Ret(c))
  PROVE  ~Completable(S, v)
<1> SUFFICES ASSUME Completable(S, v) PROVE FALSE
  OBVIOUS
<1>1. hist \in Seq(Operation) /\ Ids \ S # {}
  BY DEF HistOK
<1>2. PICK i \in Ids \ S :
        /\ \A j \in Ids \ S : j # i => ~Precedes(hist[j], hist[i])
        /\ Fits(v, hist[i])
        /\ Completable(S \cup {i}, After(v, hist[i]))
  BY <1>1, CompletableNext
<1>3. ~EntryLess(Call(i), Ret(c))
  BY <1>2 DEF Tried, Barren
<1>4. i \in Ids /\ c \in Ids /\ Call(i) \in Everything /\ Ret(c) \in Everything
  BY DEF Everything, Entries
<1>5. i # c
  BY <1>3, <1>4, CallBeforeRet
<1>6. Call(i) # Ret(c)
  BY DEF Call, Ret
<1>7. EntryLess(Ret(c), Call(i))
  BY <1>3, <1>4, <1>6, OrderTotal
<1>8. Precedes(hist[c], hist[i])
  BY <1>4, <1>5, <1>7, RetBeforeCall
<1> QED  BY <1>2, <1>5, <1>8

(* So the walk, at a return, is in a configuration that leads nowhere.     *)
LEMMA StuckHere ==
  ASSUME ExactInv, phase = "full", Exhausted, Looping, cursor # Nil, cursor.isReturn
  PROVE  ~Completable(lin, value)
<1>1. cursor.id \in scope \ lin /\ cursor = Ret(cursor.id)
  BY AtReturn
<1>2. HistOK /\ lin \in SUBSET Ids /\ scope = Ids
  BY DEF ExactInv, Ordered, WalkInv, TypeOK, StageInv
<1>3. Tried(lin, value, Ret(cursor.id))
  BY <1>1 DEF Exhausted
<1> QED  BY <1>1, <1>2, <1>3, Stuck

(* A fresh search has given nothing up.                                    *)
LEMMA LoadExhausted ==
  ASSUME HistOK, UNCHANGED hist, Load(Ids)
  PROVE  Exhausted'
<1>1. /\ cursor' = BuildEntries(Ids).next[Sentinel] /\ lin' = {} /\ seen' = {} /\ calls' = <<>>
  BY DEF Load
<1>2. cursor' = Succ(Entries(Ids \ {}), Sentinel)
  <2>1. Holds(BuildEntries(Ids), Entries(Ids)) /\ Ids \ {} = Ids
    BY BuildHolds
  <2> QED  BY <1>1, <2>1 DEF Holds
<1>3. cursor' # Nil => Tried(lin', value', cursor')
  BY <1>1, <1>2, FrontTried
<1>4. Dead(calls', value', seen') /\ TriedBelow(calls')
  BY <1>1 DEF Dead, TriedBelow
<1> QED  BY <1>3, <1>4, ExhaustedNow

(* Stepping over a barren call gives up nothing that leads anywhere.       *)
LEMMA SkipExhausted ==
  ASSUME ExactInv, phase = "full", Exhausted, AtEntry(FALSE),
         Barren(lin, value, cursor.id), cursor' = list.next[cursor],
         UNCHANGED <<hist, value, seen, calls, lin>>
  PROVE  Exhausted'
<1> DEFINE i == cursor.id
<1>1. /\ Searching /\ Linked /\ cursor \in Left
      /\ i \in scope \ lin /\ i \in Ids /\ cursor = Call(i)
  BY AtCall
<1>2. HistOK /\ lin \in SUBSET Ids /\ scope = Ids
  BY DEF ExactInv, Ordered, WalkInv, TypeOK, StageInv
<1>3. cursor' = Succ(Entries(Ids \ lin), Call(i))
  BY <1>1, <1>2, SkipOnWalk DEF Left
<1>4. Tried(lin, value, Call(i)) /\ Barren(lin, value, i)
  BY <1>1, <1>2, EntryId DEF Exhausted, AtEntry
<1> HIDE DEF i
<1>5. cursor' # Nil => Tried(lin, value, cursor')
  BY <1>1, <1>2, <1>3, <1>4, NextTried
<1> QED  BY <1>5, ExhaustedNow DEF Exhausted

(* Nor does placing a call.                                                *)
LEMMA PlaceExhausted ==
  ASSUME ExactInv, phase = "full", Exhausted, PlaceCall
  PROVE  Exhausted'
<1> DEFINE i == cursor.id
           f == [op |-> i, state |-> value]
           n == Len(calls)
           x == Append(calls, f)
<1>1. /\ AtEntry(FALSE) /\ lin' = lin \cup {i} /\ calls' = x
      /\ seen' = seen \cup {<<lin \cup {i}, value'>>}
      /\ UNCHANGED <<hist, scope>>
  BY DEF PlaceCall, Explored, input
<1>2. Linked /\ i \in scope \ lin /\ i \in Ids /\ cursor = Call(i)
  BY <1>1, AtCall
<1>3. /\ HistOK /\ lin \in SUBSET Ids /\ scope = Ids /\ calls \in Seq(Frame) /\ value \in Int
      /\ lin = Placed(calls)
  BY <1>2 DEF ExactInv, Ordered, WalkInv, TypeOK, StageInv, Linked
<1>4. f \in Frame /\ f.op = i /\ f.state = value
  BY <1>2, <1>3 DEF Frame
<1>5. cursor' = Succ(Entries(Ids \ lin'), Sentinel)
  BY <1>1, <1>3, PlaceLinked
<1> HIDE DEF f, i
<1>6. Dead(calls', value', seen')
  BY <1>1, <1>3, <1>4, DeadOneMore DEF Exhausted
<1>7. cursor' # Nil => Tried(lin', value', cursor')
  BY <1>1, <1>2, <1>3, <1>5, FrontTried
<1>8. TriedBelow(calls')
  <2>1. /\ n \in Nat /\ DOMAIN calls = 1..n
        /\ DOMAIN x = 1..(n + 1)
        /\ x[n + 1] = f /\ \A k \in 1..n : x[k] = calls[k]
        /\ \A k \in 1..n : Below(x, k) = Below(calls, k)
        /\ Below(x, n + 1) = Placed(calls)
    BY <1>3, <1>4, OneMoreFrame
  <2> HIDE DEF x, n
  <2>2. Tried(lin, value, Call(i))
    BY <1>1, <1>2 DEF Exhausted, AtEntry
  <2> SUFFICES ASSUME NEW k \in 1..(n + 1) PROVE Tried(Below(x, k), x[k].state, Call(x[k].op))
    BY <1>1, <2>1 DEF TriedBelow
  <2>3. CASE k = n + 1
    BY <1>3, <1>4, <2>1, <2>2, <2>3
  <2>4. CASE k \in 1..n
    BY <2>1, <2>4 DEF Exhausted, TriedBelow
  <2> QED  BY <2>1, <2>3, <2>4
<1> QED  BY <1>1, <1>6, <1>7, <1>8, ExhaustedNow

(* Nor does taking one back.                                               *)
LEMMA BacktrackExhausted ==
  ASSUME ExactInv, phase = "full", Exhausted, Backtrack
  PROVE  Exhausted'
<1> DEFINE n == Len(calls)
           i == calls[n].op
           u == calls[n].state
           x == Front(calls)
           S == Below(calls, n)
<1>1. /\ AtEntry(TRUE) /\ calls # <<>> /\ calls' = x
      /\ lin' = lin \ {Last(calls).op} /\ value' = Last(calls).state
      /\ UNCHANGED <<hist, scope, seen>>
  BY DEF Backtrack, CanTakeBack, Top, input
<1>2. Searching /\ Looping /\ cursor # Nil /\ cursor.isReturn
  BY <1>1 DEF AtEntry, Looping
<1>3. /\ HistOK /\ lin \in SUBSET Ids /\ scope = Ids /\ calls \in Seq(Frame)
      /\ lin = Placed(calls) /\ Legal(calls) /\ Replays(hist, calls, value)
  BY <1>2 DEF ExactInv, Ordered, WalkInv, TypeOK, StageInv, Linked, FramesReplay
<1>4. /\ n \in Nat /\ n >= 1 /\ DOMAIN calls = 1..n /\ Last(calls) = calls[n]
      /\ DOMAIN x = 1..(n - 1)
      /\ \A k \in 1..(n - 1) : x[k] = calls[k]
      /\ Placed(calls) = S \cup {i}
      /\ \A k \in 1..(n - 1) : Below(x, k) = Below(calls, k)
  BY <1>1, <1>3, OneLessFrame
<1>5. i \notin S
  BY <1>1, <1>3, <1>4, TakeBackLegal
<1>6. n \in DOMAIN calls /\ i \in Ids
  <2>1. n \in DOMAIN calls
    BY <1>4
  <2>2. calls[n] \in Frame
    BY <1>3, <2>1
  <2> QED  BY <2>1, <2>2 DEF Frame
<1>7. cursor' = Succ(Entries(scope' \ lin'), Call(Last(calls).op))
  BY BacktrackLinked
<1>8. ~Completable(lin, value)
  BY <1>2, StuckHere
<1>9. Fits(u, hist[i]) /\ After(u, hist[i]) = value
  BY <1>3, <1>6 DEF Replays
<1>10. Tried(S, u, Call(i))
  BY <1>6 DEF Exhausted, TriedBelow
<1> HIDE DEF x, i, u, S
<1>11. /\ lin' = S /\ value' = u /\ S \in SUBSET Ids /\ i \in Ids \ S
       /\ cursor' = Succ(Entries(Ids \ S), Call(i))
  BY <1>1, <1>3, <1>4, <1>5, <1>6, <1>7 DEF i, u
<1>12. Barren(S, u, i)
  BY <1>3, <1>4, <1>8, <1>9 DEF Barren
<1>13. cursor' # Nil => Tried(lin', value', cursor')
  BY <1>3, <1>10, <1>11, <1>12, NextTried
<1>14. Dead(calls', value', seen')
  <2>1. Dead(Front(calls), calls[Len(calls)].state, seen)
    BY <1>1, <1>3, <1>8, DeadOneLess DEF Exhausted
  <2> QED  BY <1>1, <1>11, <2>1 DEF x, u
<1>15. TriedBelow(calls')
  <2> SUFFICES ASSUME NEW k \in 1..(n - 1) PROVE Tried(Below(x, k), x[k].state, Call(x[k].op))
    BY <1>1, <1>4 DEF TriedBelow
  <2>1. k \in 1..n
    BY <1>4
  <2>2. Tried(Below(calls, k), calls[k].state, Call(calls[k].op))
    BY <1>4, <2>1 DEF Exhausted, TriedBelow
  <2> QED  BY <1>4, <2>2
<1> QED  BY <1>1, <1>13, <1>14, <1>15, ExhaustedNow

-----------------------------------------------------------------------------
(***************************************************************************)
(* The verdict, and its culprit.                                           *)
(***************************************************************************)

(* A step that refuses nothing keeps the refusal invariant.                *)
LEMMA RefuseKept ==
  ASSUME RefuseInv, UNCHANGED hist, phase' = "full" => Exhausted',
         verdict' = "not linearizable" => verdict = "not linearizable"
  PROVE  RefuseInv'
  BY RigidOrders DEF RefuseInv

(* A step that leaves the walk alone gives nothing up.                     *)
LEMMA ExhaustedStays ==
  ASSUME Exhausted, UNCHANGED <<hist, cursor, lin, value, seen, calls>>
  PROVE  Exhausted'
<1>1. Dead(calls', value', seen') /\ TriedBelow(calls')
  BY DEF Exhausted
<1>2. cursor' # Nil => Tried(lin', value', cursor')
  BY DEF Exhausted
<1> QED  BY <1>1, <1>2, ExhaustedNow

(* The probe's failure refuses nothing.                                    *)
LEMMA FallBackRefuse ==
  ASSUME ExactInv, RefuseInv, NEW used, FallBack(used)
  PROVE  RefuseInv'
<1>1. HistOK /\ UNCHANGED hist
  BY DEF ExactInv, FallBack, input
<1>2. CASE opt.maxVisits > 0 /\ used >= opt.maxVisits
  BY <1>1, <1>2, RefuseKept DEF FallBack
<1>3. CASE ~(opt.maxVisits > 0 /\ used >= opt.maxVisits)
  <2>1. verdict' = verdict /\ Load(Ids)
    BY <1>3 DEF FallBack, Ids
  <2> QED  BY <1>1, <2>1, LoadExhausted, RefuseKept
<1> QED  BY <1>2, <1>3

(* A conclusion refuses only what has no linearization.                    *)
LEMMA ConcludeRefuse ==
  ASSUME ExactInv, RefuseInv, Searching, NEW v, Conclude(v),
         v = "not linearizable" /\ phase = "full" => ~Linearizable(hist)
  PROVE  RefuseInv'
<1>1. CASE phase = "full"
  <2>1. phase' = "done" /\ verdict' = v /\ UNCHANGED hist
    BY <1>1 DEF Conclude, input
  <2> QED  BY <1>1, <2>1, RigidOrders DEF RefuseInv
<1>2. CASE phase # "full" /\ v = "linearizable"
  <2>1. phase' = "append" /\ UNCHANGED <<hist, verdict>>
    BY <1>2 DEF Conclude, input
  <2> QED  BY <2>1, RefuseKept
<1>3. CASE phase # "full" /\ v # "linearizable"
  BY <1>3, FallBackRefuse DEF Conclude
<1> QED  BY <1>1, <1>2, <1>3

(* Nothing is refused at the start.                                        *)
LEMMA RefuseInit == Init => RefuseInv
  BY DEF Init, RefuseInv

(* A configuration met again leads nowhere: the cache never prunes the     *)
(* only way through (checker.go:760-770).                                  *)
LEMMA SeenBarren ==
  ASSUME ExactInv, phase = "full", Exhausted, AtEntry(FALSE), Explored \in seen
  PROVE  Barren(lin, value, cursor.id)
<1> DEFINE i == cursor.id
<1>1. Linked /\ i \in scope \ lin
  BY AtCall
<1>2. calls \in Seq(Frame) /\ lin = Placed(calls)
  BY <1>1 DEF ExactInv, WalkInv, TypeOK, Linked
<1> SUFFICES ASSUME Completable(lin \cup {i}, After(value, hist[i])) PROVE FALSE
  BY DEF Barren
<1>3. Explored = <<lin \cup {i}, After(value, hist[i])>>
  BY DEF Explored, NextValue
<1>4. OnPath(calls, value, Explored)
  BY <1>3 DEF Exhausted, Dead
<1>5. PICK k \in 2..(Len(calls) + 1) : lin \cup {i} = Below(calls, k)
  BY <1>3, <1>4 DEF OnPath
<1>6. Below(calls, k) \subseteq Placed(calls)
  <2>1. k \in 1..(Len(calls) + 1)
    BY <1>2
  <2> QED  BY <1>2, <2>1, BelowPlaced
<1> QED  BY <1>1, <1>2, <1>5, <1>6

(* At a return with an empty stack there is no linearization.              *)
LEMMA NothingLeft ==
  ASSUME ExactInv, RefuseInv, phase = "full", Looping, cursor # Nil, cursor.isReturn,
         calls = <<>>
  PROVE  ~Linearizable(hist)
<1>1. ~Completable(lin, value)
  BY StuckHere DEF RefuseInv
<1>2. lin = Placed(calls) /\ Replays(hist, calls, value) /\ hist \in Seq(Operation)
  BY DEF ExactInv, Ordered, Linked, WalkInv, FramesReplay, TypeOK, Looping
<1>3. value = InitialValue
  BY <1>2 DEF Replays
<1>4. Placed(<<>>) = {}
  BY DEF Placed
<1> QED  BY <1>1, <1>2, <1>3, <1>4, LinearizableCompletable

(* Every step keeps the refusal invariant.                                 *)
LEMMA RefuseNext == ExactInv /\ RefuseInv /\ [Next]_vars => RefuseInv'
<1> SUFFICES ASSUME ExactInv, RefuseInv, [Next]_vars PROVE RefuseInv'
  OBVIOUS
<1>0. HistOK
  BY DEF ExactInv
<1>1. CASE EnterEmpty \/ EnterProbe \/ AppendDone
  BY <1>1, RefuseKept DEF EnterEmpty, EnterProbe, AppendDone, input
<1>2. CASE EnterFull
  <2>1. UNCHANGED <<hist, verdict>> /\ Load(Ids)
    BY <1>2 DEF EnterFull, Ids, input
  <2> QED  BY <1>0, <2>1, LoadExhausted, RefuseKept
<1>3. CASE Solved
  BY <1>3, ConcludeRefuse DEF Solved
<1>4. CASE FailClosed
  BY <1>4, ConcludeRefuse DEF FailClosed, Looping
<1>5. CASE PlaceCall
  <2>1. UNCHANGED <<hist, phase, verdict>>
    BY <1>5 DEF PlaceCall, input
  <2> QED  BY <1>5, <2>1, PlaceExhausted, RefuseKept DEF RefuseInv
<1>6. CASE SkipSeen
  <2>1. /\ AtEntry(FALSE) /\ Explored \in seen /\ cursor' = list.next[cursor]
        /\ UNCHANGED <<hist, phase, verdict, value, seen, calls, lin>>
    BY <1>6 DEF SkipSeen, input
  <2>2. phase' = "full" => Exhausted'
    BY <2>1, SeenBarren, SkipExhausted DEF RefuseInv
  <2> QED  BY <2>1, <2>2, RefuseKept
<1>7. CASE SkipRefused
  <2>1. /\ AtEntry(FALSE) /\ ~Fits(value, hist[cursor.id]) /\ cursor' = list.next[cursor]
        /\ UNCHANGED <<hist, phase, verdict, value, seen, calls, lin>>
    BY <1>7 DEF SkipRefused, input
  <2>2. Barren(lin, value, cursor.id)
    BY <2>1 DEF Barren
  <2>3. phase' = "full" => Exhausted'
    BY <2>1, <2>2, SkipExhausted DEF RefuseInv
  <2> QED  BY <2>1, <2>3, RefuseKept
<1>8. CASE Backtrack
  <2>1. UNCHANGED <<hist, phase, verdict>>
    BY <1>8 DEF Backtrack, input
  <2> QED  BY <1>8, <2>1, BacktrackExhausted, RefuseKept DEF RefuseInv
<1>9. CASE NoOrder
  <2>1. Looping /\ Searching /\ cursor # Nil /\ cursor.isReturn /\ calls = <<>>
        /\ Conclude("not linearizable")
    BY <1>9 DEF NoOrder, Looping
  <2>2. phase = "full" => ~Linearizable(hist)
    BY <2>1, NothingLeft
  <2> QED  BY <2>1, <2>2, ConcludeRefuse
<1>10. CASE AppendNext
  <2>1. phase' = "append" /\ UNCHANGED <<hist, verdict>>
    BY <1>10 DEF AppendNext, input
  <2> QED  BY <2>1, RefuseKept
<1>11. CASE AppendRefused
  BY <1>11, FallBackRefuse DEF AppendRefused
<1>12. CASE DeadlinePasses \/ UNCHANGED vars
  <2>1. UNCHANGED <<hist, phase, verdict, cursor, lin, value, seen, calls>>
    BY <1>12 DEF DeadlinePasses, vars, input, walk
  <2> QED  BY <2>1, ExhaustedStays, RefuseKept DEF RefuseInv
<1> QED
  BY <1>1, <1>2, <1>3, <1>4, <1>5, <1>6, <1>7, <1>8, <1>9, <1>10, <1>11, <1>12
     DEF Next, Step

(***************************************************************************)
(* For every history, model and budget the verdict is the truth:           *)
(* "linearizable" only of a history that has a linearization, "not         *)
(* linearizable" only of one that has none, and "unknown" only when a      *)
(* limit the caller set was hit (checker.go:688-805).                      *)
(***************************************************************************)
THEOREM WalkVerdictExact == Spec => []VerdictExact
<1>1. ExactInv /\ RefuseInv => VerdictExact
  <2> SUFFICES ASSUME ExactInv, RefuseInv PROVE VerdictExact
    OBVIOUS
  <2>1. StageInv /\ Legal(calls) /\ Replays(hist, calls, value)
        /\ hist \in Seq(Operation) /\ calls \in Seq(Frame)
    BY DEF ExactInv, Ordered, WalkInv, FramesReplay, TypeOK
  <2>2. verdict = "linearizable" => Linearizable(hist)
    BY <2>1, WitnessLinearizes DEF StageInv
  <2> QED  BY <2>1, <2>2 DEF VerdictExact, RefuseInv, StageInv, CallerLimit
<1> QED  BY <1>1, ExactInit, ExactNext, RefuseInit, RefuseNext, PTL DEF Spec

-----------------------------------------------------------------------------

(* The culprit is an operation the model refuses in the recorded state.    *)
Excused == best.op \in Ids /\ ~Fits(best.state, hist[best.op])

(* No refusal yet: then the walk is at the front of its list and every     *)
(* configuration in the cache is on the way here.                          *)
Untouched ==
  /\ best.op = 0 /\ best.depth = -1
  /\ cursor = Succ(Left, Sentinel)
  /\ \A c \in seen : c[1] \subseteq lin

(* A refusal is recorded before anything is taken back.                    *)
CulpritInv ==
  /\ Searching => Excused \/ Untouched
  /\ verdict = "not linearizable" => Excused

(* A culprit stays one.                                                    *)
LEMMA ExcusedKept == ASSUME Excused, UNCHANGED <<hist, best>> PROVE Excused'
  BY DEF Excused, Ids

(* A fresh search has refused nothing.                                     *)
LEMMA LoadUntouched ==
  ASSUME UNCHANGED hist, NEW S, Load(S)
  PROVE  Untouched'
<1>1. cursor' = BuildEntries(S).next[Sentinel] /\ scope' = S /\ lin' = {} /\ seen' = {}
      /\ best'.op = 0 /\ best'.depth = -1
  BY DEF Load
<1>2. cursor' = Succ(Entries(scope' \ lin'), Sentinel)
  <2>1. Holds(BuildEntries(S), Entries(S)) /\ S \ {} = S
    BY BuildHolds
  <2> QED  BY <1>1, <2>1 DEF Holds
<1>3. (cursor = Succ(Left, Sentinel))'
  BY <1>2, OrderKept DEF Left, Entries, Sentinel
<1> QED  BY <1>1, <1>3 DEF Untouched

(* Falling back starts afresh.                                             *)
LEMMA FallBackCulprit ==
  ASSUME CulpritInv, verdict = "none", NEW used, FallBack(used)
  PROVE  CulpritInv'
<1>1. CASE opt.maxVisits > 0 /\ used >= opt.maxVisits
  BY <1>1 DEF FallBack, CulpritInv, Searching
<1>2. CASE ~(opt.maxVisits > 0 /\ used >= opt.maxVisits)
  <2>1. verdict' = verdict /\ Load(Ids) /\ UNCHANGED hist
    BY <1>2 DEF FallBack, Ids, input
  <2> QED  BY <2>1, LoadUntouched DEF CulpritInv
<1> QED  BY <1>1, <1>2

(* A conclusion keeps its culprit.                                         *)
LEMMA ConcludeCulprit ==
  ASSUME CulpritInv, verdict = "none", Searching, NEW v, Conclude(v),
         v = "not linearizable" => Excused
  PROVE  CulpritInv'
<1>1. CASE phase = "full"
  <2>1. phase' = "done" /\ verdict' = v /\ UNCHANGED <<hist, best>>
    BY <1>1 DEF Conclude, input, walk
  <2> QED  BY <2>1, ExcusedKept DEF CulpritInv, Searching
<1>2. CASE phase # "full" /\ v = "linearizable"
  <2>1. phase' = "append" /\ UNCHANGED verdict
    BY <1>2 DEF Conclude
  <2> QED  BY <2>1 DEF CulpritInv, Searching
<1>3. CASE phase # "full" /\ v # "linearizable"
  BY <1>3, FallBackCulprit DEF Conclude
<1> QED  BY <1>1, <1>2, <1>3

(* At a return something has been refused: with no refusal the walk would  *)
(* be at a call.                                                           *)
LEMMA ReturnExcused ==
  ASSUME ExactInv, CulpritInv, Looping, cursor # Nil, cursor.isReturn
  PROVE  Excused
<1> DEFINE c == cursor.id
<1>1. /\ Searching /\ cursor \in Left /\ c \in scope \ lin /\ c \in Ids /\ cursor = Ret(c)
  BY AtReturn
<1>2. HistOK /\ Left \in SUBSET Everything /\ Call(c) \in Left /\ Ret(c) \in Left
  <2>1. HistOK /\ scope \ lin \in SUBSET Ids
    BY DEF ExactInv, WalkInv, TypeOK
  <2> QED  BY <1>1, <2>1, EntriesWithin DEF Left, Entries
<1> SUFFICES ASSUME Untouched PROVE FALSE
  BY <1>1 DEF CulpritInv
<1> HIDE DEF c
<1>3. Past(Left, Sentinel) = Left
  BY DEF Past
<1>4. \A x \in Left : x = cursor \/ EntryLess(cursor, x)
  BY <1>1, <1>2, <1>3, SuccIs DEF Untouched
<1>5. EntryLess(Call(c), Ret(c)) /\ Call(c) # Ret(c)
  BY <1>1, <1>2, CallBeforeRet DEF Call, Ret
<1> QED  BY <1>1, <1>2, <1>4, <1>5, OrderTotal

(* At the start there is no verdict to explain.                            *)
LEMMA CulpritInit == Init => CulpritInv
  BY DEF Init, CulpritInv, Searching

(* Every step keeps the culprit invariant.                                 *)
LEMMA CulpritNext == ExactInv /\ CulpritInv /\ [Next]_vars => CulpritInv'
<1> SUFFICES ASSUME ExactInv, CulpritInv, [Next]_vars PROVE CulpritInv'
  OBVIOUS
<1>0. HistOK /\ TypeOK /\ (phase # "done" => verdict = "none")
  BY DEF ExactInv, Ordered, WalkInv, StageInv
<1>1. CASE EnterEmpty \/ AppendDone
  BY <1>1 DEF EnterEmpty, AppendDone, CulpritInv, Searching
<1>2. CASE EnterProbe \/ EnterFull
  <2>1. /\ UNCHANGED <<hist, verdict>> /\ verdict = "none" /\ (Load(Returned) \/ Load(Ids))
    BY <1>0, <1>2 DEF EnterProbe, EnterFull, input, Ids
  <2> QED  BY <2>1, LoadUntouched DEF CulpritInv
<1>3. CASE Solved
  BY <1>0, <1>3, ConcludeCulprit DEF Solved, Searching
<1>4. CASE FailClosed
  BY <1>0, <1>4, ConcludeCulprit DEF FailClosed, Looping, Searching
<1>5. CASE PlaceCall
  <2>1. /\ UNCHANGED <<hist, scope, phase, verdict, best>> /\ AtEntry(FALSE) /\ Searching
        /\ lin' = lin \cup {cursor.id} /\ seen' = seen \cup {Explored} /\ verdict = "none"
    BY <1>0, <1>5 DEF PlaceCall, input, AtEntry, Looping, Searching
  <2>2. CASE Excused
    BY <2>1, <2>2, ExcusedKept DEF CulpritInv
  <2>3. CASE Untouched
    <3>1. cursor' = Succ(Entries(scope' \ lin'), Sentinel)
      BY <1>5, PlaceLinked
    <3>2. (cursor = Succ(Left, Sentinel))'
      BY <2>1, <3>1, OrderKept DEF Left, Entries, Sentinel
    <3>3. \A c \in seen' : c[1] \subseteq lin'
      BY <2>1, <2>3 DEF Untouched, Explored
    <3> QED  BY <2>1, <2>3, <3>2, <3>3 DEF CulpritInv, Untouched
  <2> QED  BY <2>1, <2>2, <2>3 DEF CulpritInv
<1>6. CASE SkipSeen
  <2>1. /\ UNCHANGED <<hist, phase, verdict, best>> /\ AtEntry(FALSE) /\ Searching
        /\ Explored \in seen /\ verdict = "none"
    BY <1>0, <1>6 DEF SkipSeen, input, AtEntry, Looping, Searching
  <2>2. cursor.id \notin lin
    BY <2>1, AtCall
  <2>3. ~Untouched
    BY <2>1, <2>2 DEF Untouched, Explored
  <2> QED  BY <2>1, <2>3, ExcusedKept DEF CulpritInv
<1>7. CASE SkipRefused
  <2>1. /\ UNCHANGED <<hist, phase, verdict>> /\ AtEntry(FALSE) /\ Searching
        /\ ~Fits(value, hist[cursor.id]) /\ verdict = "none"
        /\ best' = IF Deeper
                     THEN [depth |-> Len(calls), state |-> value, op |-> cursor.id]
                     ELSE best
    BY <1>0, <1>7 DEF SkipRefused, input, AtEntry, Looping, Searching
  <2>2. cursor.id \in Ids
    BY <2>1, AtCall
  <2>3. CASE Deeper
    BY <2>1, <2>2, <2>3 DEF CulpritInv, Excused, Ids
  <2>4. CASE ~Deeper
    <3>1. Len(calls) \in Nat
      BY <1>0 DEF TypeOK
    <3>2. ~Untouched
      BY <2>4, <3>1 DEF Untouched, Deeper
    <3> QED  BY <2>1, <2>4, <3>2, ExcusedKept DEF CulpritInv
  <2> QED  BY <2>3, <2>4
<1>8. CASE Backtrack
  <2>1. Looping /\ cursor # Nil /\ cursor.isReturn /\ UNCHANGED <<hist, phase, verdict, best>>
    BY <1>8 DEF Backtrack, AtEntry, input
  <2> QED  BY <2>1, ReturnExcused, ExcusedKept DEF CulpritInv
<1>9. CASE NoOrder
  <2>1. /\ Looping /\ Searching /\ verdict = "none" /\ cursor # Nil /\ cursor.isReturn
        /\ Conclude("not linearizable")
    BY <1>0, <1>9 DEF NoOrder, Looping, Searching
  <2> QED  BY <2>1, ReturnExcused, ConcludeCulprit
<1>10. CASE AppendNext
  BY <1>0, <1>10 DEF AppendNext, CulpritInv, Searching
<1>11. CASE AppendRefused
  BY <1>0, <1>11, FallBackCulprit DEF AppendRefused
<1>12. CASE DeadlinePasses \/ UNCHANGED vars
  <2>1. UNCHANGED <<hist, phase, verdict, best, cursor, scope, lin, seen>>
    BY <1>12 DEF DeadlinePasses, vars, input, walk
  <2>2. Excused => Excused'
    BY <2>1, ExcusedKept
  <2>3. Untouched => Untouched'
    BY <2>1, OrderKept DEF Untouched, Left, Entries, Sentinel
  <2> QED  BY <2>1, <2>2, <2>3 DEF CulpritInv, Searching
<1> QED
  BY <1>1, <1>2, <1>3, <1>4, <1>5, <1>6, <1>7, <1>8, <1>9, <1>10, <1>11, <1>12
     DEF Next, Step

(***************************************************************************)
(* A refusal always comes with an operation that the model refuses in the  *)
(* recorded state, so the counterexample explains something                *)
(* (checker.go:711-715, 756-759, 779-785).                                 *)
(***************************************************************************)
THEOREM WalkCulpritRefused == Spec => []CulpritRefused
<1>1. CulpritInv => CulpritRefused
  BY DEF CulpritInv, Excused, CulpritRefused
<1> QED  BY <1>1, ExactInit, ExactNext, CulpritInit, CulpritNext, PTL DEF Spec

-----------------------------------------------------------------------------
(***************************************************************************)
(* The walk implements the abstract search.                                *)
(***************************************************************************)

(* The operators of the abstract search are those of the walk.             *)
LEMMA SameOperators ==
  /\ \A v, op : Search!Fits(v, op) <=> Fits(v, op)
  /\ \A v, op : Search!After(v, op) = After(v, op)
  /\ \A w : Search!Placed(w) = Placed(w)
  /\ \A o, p : Search!Precedes(o, p) <=> Precedes(o, p)
  /\ Search!Operation = Operation
  /\ Search!InitialValue = InitialValue
<1>1. \A v, op : Search!Fits(v, op) <=> Fits(v, op)
  BY DEF Search!Fits, Search!Models, Search!Known, Search!Kinds, Fits, Models, Known, Kinds
<1>2. \A v, op : Search!After(v, op) = After(v, op)
  BY DEF Search!After, After
<1>3. \A w : Search!Placed(w) = Placed(w)
  BY DEF Search!Placed, Placed
<1>4. \A o, p : Search!Precedes(o, p) <=> Precedes(o, p)
  BY DEF Search!Precedes, Precedes
<1>5. Search!Operation = Operation
  BY DEF Search!Operation, Operation, Search!Kinds, Kinds, Search!Outcomes, Outcomes
<1>6. Search!InitialValue = InitialValue
  BY DEF Search!InitialValue, InitialValue
<1> QED  BY <1>1, <1>2, <1>3, <1>4, <1>5, <1>6

(* And so is the definition of linearizability.                            *)
LEMMA SameVerdict == Search!Linearizable(hist) <=> Linearizable(hist)
  BY DEF Search!Linearizable, Search!Orders, Search!Frames, Search!Replays, Search!Precedes,
     Search!Fits, Search!Models, Search!Known, Search!Kinds, Search!After, Search!InitialValue,
     Linearizable, Orders, Frames, Replays, Precedes, Fits, Models, Known, Kinds, After,
     InitialValue

(* Before the search begins the stack is empty.                            *)
FreshInv == phase = "enter" => calls = <<>> /\ hist \in Histories

(* No step goes back to before the beginning.                              *)
LEMMA FreshNext == ExactInv /\ FreshInv /\ [Next]_vars => FreshInv'
<1> SUFFICES ASSUME FreshInv, [Next]_vars, phase' = "enter"
             PROVE  UNCHANGED <<phase, calls, hist>>
  BY DEF FreshInv
<1>1. ASSUME NEW used PROVE ~FallBack(used)
  BY DEF FallBack
<1>2. ASSUME NEW v, phase = "full" \/ phase = "probe" PROVE ~Conclude(v)
  BY <1>1, <1>2 DEF Conclude
<1>3. Searching <=> phase = "full" \/ phase = "probe"
  BY DEF Searching
<1>4. ~EnterEmpty /\ ~EnterProbe /\ ~EnterFull /\ ~AppendNext /\ ~AppendRefused /\ ~AppendDone
  BY <1>1 DEF EnterEmpty, EnterProbe, EnterFull, AppendNext, AppendRefused, AppendDone
<1>5. ~Solved /\ ~FailClosed /\ ~NoOrder
  BY <1>2, <1>3 DEF Solved, FailClosed, NoOrder, Looping
<1>6. ~PlaceCall /\ ~SkipSeen /\ ~SkipRefused /\ ~Backtrack
  BY <1>3 DEF PlaceCall, SkipSeen, SkipRefused, Backtrack, AtEntry, Looping
<1>7. DeadlinePasses \/ UNCHANGED vars
  BY <1>4, <1>5, <1>6 DEF Next, Step
<1> QED  BY <1>7 DEF DeadlinePasses, vars, walk, input

(* The walk begins as the abstract search does.                            *)
LEMMA SearchInit == Init => Search!Init
<1> SUFFICES ASSUME Init PROVE Search!Init
  OBVIOUS
<1>1. hist \in Seq(Operation)
  BY InputOK DEF Init, HistOK
<1> QED  BY <1>1, SameOperators DEF Init, Search!Init

(* A step of the abstract search, or none.                                 *)
SearchStep == Search!Next \/ UNCHANGED <<hist, calls, value, verdict>>

(* Starting over is taking everything back.                                *)
LEMMA SearchRestarts ==
  ASSUME ExactInv, verdict = "none", UNCHANGED <<hist, verdict>>,
         calls' = <<>>, value' = InitialValue
  PROVE  SearchStep
<1>1. Replays(hist, calls, value) /\ calls \in Seq(Frame)
  BY DEF ExactInv, WalkInv, FramesReplay, TypeOK
<1>2. CASE calls = <<>>
  BY <1>1, <1>2 DEF Replays, SearchStep
<1>3. CASE calls # <<>>
  <2>1. 1 \in DOMAIN calls /\ SubSeq(calls, 1, 1 - 1) = <<>>
    BY <1>1, <1>3
  <2>2. calls[1].state = InitialValue
    BY <1>1, <1>3 DEF Replays
  <2>3. Search!Withdraw(1)
    BY <2>1, <2>2 DEF Search!Withdraw
  <2> QED  BY <2>1, <2>3 DEF Search!Next, SearchStep
<1> QED  BY <1>2, <1>3

(* Falling back from the probe is taking everything back, or giving up.    *)
LEMMA SearchFallsBack ==
  ASSUME ExactInv, verdict = "none", NEW used, FallBack(used)
  PROVE  SearchStep
<1>1. CASE opt.maxVisits > 0 /\ used >= opt.maxVisits
  <2>1. Search!GiveUp
    BY <1>1 DEF FallBack, Search!GiveUp, input
  <2> QED  BY <2>1 DEF Search!Next, SearchStep
<1>2. CASE ~(opt.maxVisits > 0 /\ used >= opt.maxVisits)
  <2>1. UNCHANGED <<hist, verdict>> /\ calls' = <<>> /\ value' = InitialValue
    BY <1>2 DEF FallBack, Load, input
  <2> QED  BY <2>1, SearchRestarts
<1> QED  BY <1>1, <1>2

(* A conclusion is an acceptance, a refusal, giving up, or none yet.       *)
LEMMA SearchConcludes ==
  ASSUME ExactInv, verdict = "none", Searching, NEW v \in Verdicts \ {"none"}, Conclude(v),
         phase = "full" /\ v = "linearizable" => Placed(calls) = Ids,
         phase = "full" /\ v = "not linearizable" => ~Linearizable(hist)
  PROVE  SearchStep
<1>1. CASE phase = "full"
  <2>1. verdict' = v /\ UNCHANGED <<hist, calls, value>>
    BY <1>1 DEF Conclude, input, walk
  <2>2. CASE v = "linearizable"
    <3>1. Search!Accept
      BY <1>1, <2>1, <2>2, SameOperators DEF Search!Accept, Ids
    <3> QED  BY <3>1 DEF Search!Next, SearchStep
  <2>3. CASE v = "not linearizable"
    <3>1. Search!Refuse
      BY <1>1, <2>1, <2>3, SameVerdict DEF Search!Refuse
    <3> QED  BY <3>1 DEF Search!Next, SearchStep
  <2>4. CASE v = "unknown"
    <3>1. Search!GiveUp
      BY <2>1, <2>4 DEF Search!GiveUp
    <3> QED  BY <3>1 DEF Search!Next, SearchStep
  <2> QED  BY <2>2, <2>3, <2>4 DEF Verdicts
<1>2. CASE phase # "full" /\ v = "linearizable"
  BY <1>2 DEF Conclude, input, walk, SearchStep
<1>3. CASE phase # "full" /\ v # "linearizable"
  BY <1>3, SearchFallsBack DEF Conclude
<1> QED  BY <1>1, <1>2, <1>3

(* Placing an operation nothing unplaced precedes is a Place.              *)
LEMMA SearchPlaces ==
  ASSUME verdict = "none", NEW i \in Ids, i \notin Placed(calls),
         \A j \in Ids \ Placed(calls) : j # i => ~Precedes(hist[j], hist[i]),
         Fits(value, hist[i]),
         calls' = Append(calls, [op |-> i, state |-> value]),
         value' = After(value, hist[i]), UNCHANGED <<hist, verdict>>
  PROVE  SearchStep
<1>1. Search!Minimal(i)
  BY SameOperators DEF Search!Minimal, Ids
<1>2. Search!Place(i)
  BY <1>1, SameOperators DEF Search!Place
<1>3. i \in DOMAIN hist
  BY DEF Ids
<1> QED  BY <1>2, <1>3 DEF Search!Next, SearchStep

(* Every step of the walk is a step of the abstract search, or none.       *)
LEMMA SearchNext == ExactInv /\ RefuseInv /\ FreshInv /\ [Next]_vars => SearchStep
<1> SUFFICES ASSUME ExactInv, RefuseInv, FreshInv, [Next]_vars PROVE SearchStep
  OBVIOUS
<1>0. HistOK /\ TypeOK /\ StageInv /\ (phase # "done" => verdict = "none")
  BY DEF ExactInv, Ordered, WalkInv, StageInv
<1>1. CASE EnterEmpty
  <2>1. /\ verdict = "none" /\ verdict' = "linearizable" /\ hist = <<>> /\ calls = <<>>
        /\ UNCHANGED <<hist, calls, value>>
    BY <1>0, <1>1 DEF EnterEmpty, FreshInv, input, walk
  <2>2. Placed(<<>>) = {} /\ DOMAIN hist = {}
    BY <2>1 DEF Placed
  <2>3. Search!Accept
    BY <2>1, <2>2, SameOperators DEF Search!Accept
  <2> QED  BY <2>3 DEF Search!Next, SearchStep
<1>2. CASE EnterProbe \/ EnterFull
  <2>1. verdict = "none" /\ UNCHANGED <<hist, verdict>> /\ calls' = <<>> /\ value' = InitialValue
    BY <1>0, <1>2 DEF EnterProbe, EnterFull, Load, input
  <2> QED  BY <2>1, SearchRestarts
<1>3. CASE Solved
  <2>1. Searching /\ list.next[Sentinel] = Nil /\ Conclude("linearizable") /\ verdict = "none"
    BY <1>0, <1>3 DEF Solved, Searching
  <2>2. scope \subseteq Placed(calls) /\ Placed(calls) \subseteq Ids
    BY <1>0, <2>1, EmptyList DEF ExactInv, Ordered, Linked, TypeOK
  <2>3. phase = "full" => Placed(calls) = Ids
    BY <1>0, <2>2 DEF StageInv
  <2> QED  BY <2>1, <2>3, SearchConcludes DEF Verdicts
<1>4. CASE FailClosed
  <2>1. Searching /\ Conclude("unknown") /\ verdict = "none"
    BY <1>0, <1>4 DEF FailClosed, Looping, Searching
  <2> QED  BY <2>1, SearchConcludes DEF Verdicts
<1>5. CASE PlaceCall
  <2>1. /\ AtEntry(FALSE) /\ verdict = "none" /\ Fits(value, hist[cursor.id])
        /\ calls' = Append(calls, [op |-> cursor.id, state |-> value])
        /\ value' = After(value, hist[cursor.id]) /\ UNCHANGED <<hist, verdict>>
    BY <1>0, <1>5 DEF PlaceCall, AtEntry, Looping, Searching, NextValue, input
  <2>2. cursor.id \in Ids /\ cursor.id \notin Placed(calls)
    BY <2>1, AtCall DEF Linked
  <2>3. \A j \in Ids \ Placed(calls) :
          j # cursor.id => ~Precedes(hist[j], hist[cursor.id])
    BY <2>1, MinimalHere
  <2> QED  BY <2>1, <2>2, <2>3, SearchPlaces
<1>6. CASE SkipSeen \/ SkipRefused
  BY <1>6 DEF SkipSeen, SkipRefused, input, SearchStep
<1>7. CASE Backtrack
  <2> DEFINE n == Len(calls)
  <2>1. /\ verdict = "none" /\ calls # <<>> /\ calls \in Seq(Frame)
        /\ calls' = SubSeq(calls, 1, n - 1) /\ value' = calls[n].state
        /\ UNCHANGED <<hist, verdict>>
    BY <1>0, <1>7 DEF Backtrack, CanTakeBack, Top, Last, Front, AtEntry, Looping, Searching,
       input, TypeOK
  <2>2. n \in DOMAIN calls
    BY <2>1
  <2>3. Search!Withdraw(n)
    BY <2>1 DEF Search!Withdraw
  <2> QED  BY <2>2, <2>3 DEF Search!Next, SearchStep
<1>8. CASE NoOrder
  <2>1. /\ Looping /\ Searching /\ verdict = "none" /\ cursor # Nil /\ cursor.isReturn
        /\ calls = <<>> /\ Conclude("not linearizable")
    BY <1>0, <1>8 DEF NoOrder, Looping, Searching
  <2>2. phase = "full" => ~Linearizable(hist)
    BY <2>1, NothingLeft
  <2> QED  BY <2>1, <2>2, SearchConcludes DEF Verdicts
<1>9. CASE AppendNext
  <2>1. /\ phase = "append" /\ Unappended # {} /\ Fits(value, hist[NextUp]) /\ verdict = "none"
        /\ calls' = Append(calls, [op |-> NextUp, state |-> value])
        /\ value' = After(value, hist[NextUp]) /\ UNCHANGED <<hist, verdict>>
    BY <1>0, <1>9 DEF AppendNext, TailFits, input
  <2>2. NextUp \in Ids /\ NextUp \notin Placed(calls)
    BY <1>0, <2>1, NextUpType DEF Unappended, TypeOK
  <2>3. \A j \in Ids \ Placed(calls) : ~Precedes(hist[j], hist[NextUp])
    <3> TAKE j \in Ids \ Placed(calls)
    <3>1. hist[j].outcome = "info"
      BY <1>0, <2>1 DEF StageInv, Returned, Ids
    <3> QED  BY <1>0, <2>2, <3>1, InfoPrecedesNothing
  <2> QED  BY <2>1, <2>2, <2>3, SearchPlaces
<1>10. CASE AppendRefused
  BY <1>0, <1>10, SearchFallsBack DEF AppendRefused
<1>11. CASE AppendDone
  <2>1. /\ verdict = "none" /\ verdict' = "linearizable" /\ UNCHANGED <<hist, calls, value>>
    BY <1>0, <1>11 DEF AppendDone, input, walk
  <2>2. ExactInv'
    BY <1>11, ExactNext DEF Next, Step
  <2>3. Placed(calls) = DOMAIN hist
    BY <2>1, <2>2 DEF ExactInv, Ordered, StageInv, Ids
  <2>4. Search!Accept
    BY <2>1, <2>3, SameOperators DEF Search!Accept
  <2> QED  BY <2>4 DEF Search!Next, SearchStep
<1>12. CASE DeadlinePasses \/ UNCHANGED vars
  BY <1>12 DEF DeadlinePasses, vars, input, walk, SearchStep
<1> QED
  BY <1>1, <1>2, <1>3, <1>4, <1>5, <1>6, <1>7, <1>8, <1>9, <1>10, <1>11, <1>12
     DEF Next, Step

(***************************************************************************)
(* The walk, the cache, the stack and the probe together implement the     *)
(* abstract linearization search: every step is a Place, a Withdraw, an    *)
(* Accept, a Refuse, a GiveUp or a stutter, so nothing the optimisations   *)
(* do is anything a search may not do.                                     *)
(***************************************************************************)
THEOREM WalkImplementsSearch == Spec => ImplementsSearch
<1>1. Init => FreshInv
  BY DEF Init, FreshInv
<1>2. ExactInv /\ RefuseInv /\ FreshInv /\ [Next]_vars => [Search!Next]_(Search!searchVars)
  BY SearchNext DEF SearchStep, Search!searchVars
<1> QED
  BY <1>1, <1>2, SearchInit, ExactInit, ExactNext, RefuseInit, RefuseNext, FreshNext, PTL
     DEF Spec, ImplementsSearch, Search!Spec

-----------------------------------------------------------------------------
(***************************************************************************)
(* The abstract search itself, calls standing for its witness and the walk *)
(* forgotten: any search that keeps to LinearizationSearch holds, at every *)
(* moment, a legal beginning of a linearization, and says "linearizable"   *)
(* only with a whole one in hand.                                          *)
(***************************************************************************)
LFrame == [op : Nat, state : Int]

(* Whatever is applied, the register holds an integer.                     *)
LEMMA SearchAfterType ==
  ASSUME NEW v \in Int, NEW op \in Search!Operation
  PROVE  Search!After(v, op) \in Int
  BY DEF Search!After, Search!Operation

(***************************************************************************)
(* Placing a minimal operation that fits extends a partial linearization.  *)
(***************************************************************************)
LEMMA PlaceExtends ==
  ASSUME NEW h \in Seq(Search!Operation), NEW w \in Seq(LFrame), NEW v \in Int,
         Search!IsPartialLinearization(h, w, v),
         NEW i \in DOMAIN h, i \notin Search!Placed(w),
         \A j \in DOMAIN h \ Search!Placed(w) : j # i => ~Search!Precedes(h[j], h[i]),
         Search!Fits(v, h[i])
  PROVE  Search!IsPartialLinearization(h, Append(w, [op |-> i, state |-> v]), Search!After(v, h[i]))
<1> DEFINE f == [op |-> i, state |-> v]
           x == Append(w, f)
           n == Len(w)
<1>1. i \in Nat /\ f \in LFrame
  BY DEF LFrame
<1>2. /\ n \in Nat
      /\ Len(x) = n + 1
      /\ DOMAIN w = 1..n
      /\ DOMAIN x = 1..(n+1)
      /\ x[n+1] = f
      /\ \A k \in 1..n : x[k] = w[k]
  BY <1>1
<1> HIDE DEF x
<1> USE DEF Search!IsPartialLinearization
<1>3. Search!Placed(x) \subseteq DOMAIN h
  <2>1. \A k \in 1..(n+1) : x[k].op \in DOMAIN h
    <3> SUFFICES ASSUME NEW k \in 1..(n+1) PROVE x[k].op \in DOMAIN h
      OBVIOUS
    <3>1. CASE k = n + 1
      BY <1>2, <3>1
    <3>2. CASE k # n + 1
      <4>1. k \in 1..n
        BY <1>2, <3>2
      <4> QED  BY <1>2, <4>1 DEF Search!Placed
    <3> QED  BY <3>1, <3>2
  <2> QED  BY <1>2, <2>1 DEF Search!Placed
<1>4. Search!PlacedOnce(x)
  <2> SUFFICES ASSUME NEW j \in 1..(n+1), NEW k \in 1..(n+1), x[j].op = x[k].op
               PROVE  j = k
    BY <1>2 DEF Search!PlacedOnce
  <2>1. \A m \in 1..n : x[m].op # i
    BY <1>2 DEF Search!Placed
  <2>2. x[n+1].op = i
    BY <1>2
  <2>3. CASE j \in 1..n /\ k \in 1..n
    BY <1>2, <2>3 DEF Search!PlacedOnce
  <2>4. CASE j = n + 1 \/ k = n + 1
    BY <1>2, <2>1, <2>2, <2>4
  <2> QED  BY <1>2, <2>3, <2>4
<1>5. Search!Replays(h, x, Search!After(v, h[i]))
  <2>1. x # <<>>
    BY <1>2
  <2>2. x[1].state = Search!InitialValue
    <3>1. CASE w = <<>>
      <4>1. n = 0 /\ v = Search!InitialValue
        BY <3>1 DEF Search!Replays
      <4> QED  BY <1>2, <4>1
    <3>2. CASE w # <<>>
      <4>1. 1 \in 1..n
        BY <1>2, <3>2
      <4> QED  BY <1>2, <3>2, <4>1 DEF Search!Replays
    <3> QED  BY <3>1, <3>2
  <2>3. ASSUME NEW k \in 1..(n+1)
        PROVE  /\ Search!Fits(x[k].state, h[x[k].op])
               /\ Search!After(x[k].state, h[x[k].op])
                    = IF k = n + 1 THEN Search!After(v, h[i]) ELSE x[k+1].state
    <3>1. CASE k = n + 1
      BY <1>2, <3>1
    <3>2. CASE k \in 1..n
      <4>1. Search!Fits(w[k].state, h[w[k].op])
        BY <1>2, <3>2 DEF Search!Replays
      <4>2. Search!After(w[k].state, h[w[k].op]) = IF k = n THEN v ELSE w[k+1].state
        BY <1>2, <3>2 DEF Search!Replays
      <4>3. CASE k = n
        <5>1. x[k] = w[k] /\ k # n + 1
          BY <1>2, <3>2
        <5>2. x[k+1].state = v
          BY <1>2, <4>3
        <5> QED  BY <4>1, <4>2, <4>3, <5>1, <5>2
      <4>4. CASE k # n
        <5>1. k + 1 \in 1..n /\ k # n + 1
          BY <1>2, <3>2, <4>4
        <5> QED  BY <1>2, <3>2, <4>1, <4>2, <4>4, <5>1
      <4> QED  BY <4>3, <4>4
    <3> QED  BY <1>2, <3>1, <3>2
  <2> QED  BY <1>2, <2>1, <2>2, <2>3 DEF Search!Replays
<1>6. Search!RespectsRealTime(h, x)
  <2> SUFFICES ASSUME NEW k \in DOMAIN x, NEW j \in DOMAIN h,
                      j # x[k].op /\ Search!Precedes(h[j], h[x[k].op])
               PROVE  \E m \in DOMAIN x : m < k /\ x[m].op = j
    BY Zenon DEF Search!RespectsRealTime
  <2>1. CASE k = n + 1
    <3>1. j \in Search!Placed(w)
      BY <1>2, <2>1
    <3>2. PICK m \in 1..n : w[m].op = j
      BY <1>2, <3>1 DEF Search!Placed
    <3> QED  BY <1>2, <2>1, <3>2
  <2>2. CASE k \in 1..n
    <3>1. PICK m \in 1..n : m < k /\ w[m].op = j
      BY <1>2, <2>2 DEF Search!RespectsRealTime
    <3> QED  BY <1>2, <3>1
  <2> QED  BY <1>2, <2>1, <2>2
<1> QED  BY <1>3, <1>4, <1>5, <1>6 DEF x

(***************************************************************************)
(* Taking back a suffix leaves a partial linearization, and the register   *)
(* holds what the first frame taken back remembers.                        *)
(***************************************************************************)
LEMMA PrefixStands ==
  ASSUME NEW h \in Seq(Search!Operation), NEW w \in Seq(LFrame), NEW v \in Int,
         Search!IsPartialLinearization(h, w, v),
         NEW k \in DOMAIN w
  PROVE  Search!IsPartialLinearization(h, SubSeq(w, 1, k - 1), w[k].state)
<1> DEFINE x == SubSeq(w, 1, k - 1)
           n == Len(w)
<1>1. /\ n \in Nat /\ k \in 1..n
      /\ DOMAIN w = 1..n
      /\ Len(x) = k - 1
      /\ DOMAIN x = 1..(k-1)
      /\ \A m \in 1..(k-1) : m \in 1..n /\ x[m] = w[m]
  OBVIOUS
<1> HIDE DEF x
<1> USE DEF Search!IsPartialLinearization
<1>2. Search!Placed(x) \subseteq DOMAIN h
  BY <1>1 DEF Search!Placed
<1>3. Search!PlacedOnce(x)
  BY <1>1 DEF Search!PlacedOnce
<1>4. Search!Replays(h, x, w[k].state)
  <2>0. w # <<>>
    BY <1>1
  <2>1. w[1].state = Search!InitialValue
    BY <2>0 DEF Search!Replays
  <2>2. IF x = <<>> THEN w[k].state = Search!InitialValue ELSE x[1].state = Search!InitialValue
    <3>1. CASE k = 1
      BY <1>1, <2>1, <3>1
    <3>2. CASE k # 1
      <4>1. 1 \in 1..(k-1) /\ x # <<>>
        BY <1>1, <3>2
      <4> QED  BY <1>1, <2>1, <4>1
    <3> QED  BY <3>1, <3>2
  <2>3. ASSUME NEW m \in 1..(k-1)
        PROVE  /\ Search!Fits(x[m].state, h[x[m].op])
               /\ Search!After(x[m].state, h[x[m].op])
                    = IF m = k - 1 THEN w[k].state ELSE x[m+1].state
    <3>0. m \in 1..n /\ x[m] = w[m]
      BY <1>1
    <3>1. m # n
      <4>1. n \in Nat /\ k \in Nat /\ k <= n
        BY <1>1
      <4>2. m \in Int /\ m <= k - 1
        BY <4>1
      <4> QED  BY <4>1, <4>2
    <3>2. Search!Fits(w[m].state, h[w[m].op]) /\ Search!After(w[m].state, h[w[m].op]) = w[m+1].state
      BY <1>1, <3>0, <3>1 DEF Search!Replays
    <3>3. CASE m = k - 1
      BY <1>1, <3>0, <3>1, <3>2, <3>3
    <3>4. CASE m # k - 1
      <4>1. m + 1 \in 1..(k-1)
        BY <1>1, <3>4
      <4> QED  BY <1>1, <3>0, <3>1, <3>2, <3>4, <4>1
    <3> QED  BY <3>3, <3>4
  <2> QED  BY <1>1, <2>2, <2>3 DEF Search!Replays
<1>5. Search!RespectsRealTime(h, x)
  <2>0. DOMAIN x = 1..(k-1)
    BY <1>1
  <2> SUFFICES ASSUME NEW m \in 1..(k-1), NEW j \in DOMAIN h,
                      j # x[m].op, Search!Precedes(h[j], h[x[m].op])
               PROVE  \E l \in 1..(k-1) : l < m /\ x[l].op = j
    BY <2>0, Zenon DEF Search!RespectsRealTime
  <2>1. PICK l \in 1..n : l < m /\ w[l].op = j
    BY <1>1 DEF Search!RespectsRealTime
  <2> QED  BY <1>1, <2>1
<1> QED  BY <1>2, <1>3, <1>4, <1>5 DEF x

-----------------------------------------------------------------------------
(***************************************************************************)
(* The inductive invariant: the types, the legal stack, and that nothing   *)
(* was left out when the search passed a history.                          *)
(***************************************************************************)
AbstractInv ==
  /\ Search!TypeOK
  /\ Search!WitnessLegal
  /\ verdict = "linearizable" => Search!Placed(calls) = DOMAIN hist

LEMMA AbstractInvInit == Search!Init => AbstractInv
<1> SUFFICES ASSUME Search!Init PROVE AbstractInv
  OBVIOUS
<1>1. Search!TypeOK
  BY DEF Search!Init, Search!TypeOK, Search!Verdicts, Search!InitialValue
<1>2. Search!Placed(calls) = {} /\ Search!PlacedOnce(calls) /\ Search!RespectsRealTime(hist, calls)
  BY DEF Search!Init, Search!Placed, Search!PlacedOnce, Search!RespectsRealTime
<1>3. Search!Replays(hist, calls, value)
  BY DEF Search!Init, Search!Replays
<1>4. Search!WitnessLegal
  BY <1>2, <1>3 DEF Search!WitnessLegal, Search!IsPartialLinearization
<1> QED  BY <1>1, <1>4 DEF Search!Init, AbstractInv

LEMMA AbstractInvNext == AbstractInv /\ [Search!Next]_(Search!searchVars) => AbstractInv'
<1> SUFFICES ASSUME AbstractInv, [Search!Next]_(Search!searchVars) PROVE AbstractInv'
  OBVIOUS
<1> USE DEF AbstractInv
<1>0. hist \in Seq(Search!Operation) /\ calls \in Seq(LFrame) /\ value \in Int
  BY DEF Search!TypeOK, LFrame
<1>1. ASSUME NEW i \in DOMAIN hist, Search!Place(i) PROVE AbstractInv'
  <2>1. hist[i] \in Search!Operation /\ i \in Nat
    BY <1>0
  <2>2. Search!After(value, hist[i]) \in Int
    BY <1>0, <2>1, SearchAfterType
  <2>3. [op |-> i, state |-> value] \in LFrame
    BY <1>0, <2>1 DEF LFrame
  <2>4. calls' \in Seq(LFrame)
    BY <1>0, <1>1, <2>3 DEF Search!Place
  <2>5. Search!TypeOK'
    BY <1>1, <2>2, <2>4 DEF Search!TypeOK, Search!Place, LFrame
  <2>6. Search!IsPartialLinearization(hist, Append(calls, [op |-> i, state |-> value]),
                               Search!After(value, hist[i]))
    BY <1>0, <1>1, PlaceExtends DEF Search!Place, Search!Minimal, Search!WitnessLegal
  <2>7. Search!WitnessLegal'
    BY <1>1, <2>6 DEF Search!Place, Search!WitnessLegal
  <2> QED  BY <1>1, <2>5, <2>7 DEF Search!Place
<1>2. ASSUME NEW k \in DOMAIN calls, Search!Withdraw(k) PROVE AbstractInv'
  <2>1. calls[k] \in LFrame /\ k \in 1..Len(calls)
    BY <1>0
  <2>2. SubSeq(calls, 1, k - 1) \in Seq(LFrame)
    BY <1>0, <2>1
  <2>3. Search!TypeOK'
    BY <1>2, <2>1, <2>2 DEF Search!TypeOK, Search!Withdraw, LFrame
  <2>4. Search!IsPartialLinearization(hist, SubSeq(calls, 1, k - 1), calls[k].state)
    BY <1>0, PrefixStands DEF Search!WitnessLegal
  <2>5. Search!WitnessLegal'
    BY <1>2, <2>4 DEF Search!Withdraw, Search!WitnessLegal
  <2> QED  BY <1>2, <2>3, <2>5 DEF Search!Withdraw
<1>3. CASE Search!Accept
  <2>1. Search!TypeOK' /\ Search!WitnessLegal'
    BY <1>3 DEF Search!Accept, Search!TypeOK, Search!Verdicts, Search!WitnessLegal
  <2> QED  BY <1>3, <2>1 DEF Search!Accept
<1>4. CASE Search!Refuse
  <2>1. Search!TypeOK' /\ Search!WitnessLegal'
    BY <1>4 DEF Search!Refuse, Search!TypeOK, Search!Verdicts, Search!WitnessLegal
  <2> QED  BY <1>4, <2>1 DEF Search!Refuse
<1>5. CASE Search!GiveUp
  <2>1. Search!TypeOK' /\ Search!WitnessLegal'
    BY <1>5 DEF Search!GiveUp, Search!TypeOK, Search!Verdicts, Search!WitnessLegal
  <2> QED  BY <1>5, <2>1 DEF Search!GiveUp
<1>6. CASE UNCHANGED Search!searchVars
  BY <1>6 DEF Search!searchVars, Search!TypeOK, Search!WitnessLegal
<1> QED  BY <1>1, <1>2, <1>3, <1>4, <1>5, <1>6 DEF Search!Next

(***************************************************************************)
(* The stack of frames is a legal beginning of a linearization in every    *)
(* reachable state: what backtracking restores is never out of step with   *)
(* the operations still placed.                                            *)
(***************************************************************************)
THEOREM SearchHoldsLegalWitness == Search!Spec => []Search!WitnessLegal
<1>1. AbstractInv => Search!WitnessLegal
  BY DEF AbstractInv
<1> QED  BY <1>1, AbstractInvInit, AbstractInvNext, PTL DEF Search!Spec

(***************************************************************************)
(* A pass is never a guess: when the search says "linearizable" its frames *)
(* are a linearization of the whole history.                               *)
(***************************************************************************)
THEOREM SearchPassHasWitness == Search!Spec => []Search!PassHasWitness
<1>1. AbstractInv => Search!PassHasWitness
  BY DEF AbstractInv, Search!PassHasWitness, Search!WitnessLegal, Search!IsLinearization
<1> QED  BY <1>1, AbstractInvInit, AbstractInvNext, PTL DEF Search!Spec

(***************************************************************************)
(* And so does the walk: whatever searchFull and the probe have on the     *)
(* stack, tail included, is at every moment a beginning of a linearization *)
(* that respects real time, and a pass leaves a whole one behind           *)
(* (checker.go:661-685, 688-805).                                          *)
(***************************************************************************)
THEOREM WalkHoldsLegalWitness == Spec => [](Search!WitnessLegal /\ Search!PassHasWitness)
BY WalkImplementsSearch, SearchHoldsLegalWitness, SearchPassHasWitness, PTL DEF ImplementsSearch

-----------------------------------------------------------------------------
(***************************************************************************)
(* The reference.  What its search computes, without the search: whether   *)
(* the operations outside P, those not placed yet, have an order r with    *)
(* the values g between them, from v on.                                   *)
(***************************************************************************)
RestBy(h, P, v, m, r, g) ==
  /\ m \in Nat
  /\ r \in [1..m -> DOMAIN h \ P]
  /\ \A i, j \in 1..m : r[i] = r[j] => i = j
  /\ \A a \in DOMAIN h \ P : \E i \in 1..m : r[i] = a
  /\ \A i, j \in 1..m : i < j => ~Precedes(h[r[j]], h[r[i]])
  /\ g[1] = v
  /\ \A k \in 1..m : Fits(g[k], h[r[k]]) /\ g[k+1] = After(g[k], h[r[k]])

Rest(h, P, v) == \E m, r, g : RestBy(h, P, v, m, r, g)

LEMMA NothingRests ==
  ASSUME NEW h, NEW v
  PROVE  Rest(h, DOMAIN h, v)
<1> DEFINE r == [k \in 1..0 |-> CHOOSE a \in DOMAIN h \ DOMAIN h : TRUE]
           g == [k \in 1..1 |-> v]
<1>1. r \in [1..0 -> DOMAIN h \ DOMAIN h] /\ g[1] = v /\ 1..0 = {}
  OBVIOUS
<1> HIDE DEF r, g
<1>2. RestBy(h, DOMAIN h, v, 0, r, g)
  BY <1>1 DEF RestBy
<1> QED BY <1>2 DEF Rest

(* The first of the rest is one the reference may place next, and leaves   *)
(* the others to follow it.                                                *)
LEMMA RestBegins ==
  ASSUME NEW h, NEW P, NEW v, Rest(h, P, v), DOMAIN h \ P # {}
  PROVE  \E i \in DOMAIN h \ P :
           Minimal(h, P, i) /\ Fits(v, h[i]) /\ Rest(h, P \cup {i}, After(v, h[i]))
<1>1. PICK m, r, g : RestBy(h, P, v, m, r, g)
  BY DEF Rest
<1>2. /\ m \in Nat /\ r \in [1..m -> DOMAIN h \ P]
      /\ \A i, j \in 1..m : r[i] = r[j] => i = j
      /\ \A a \in DOMAIN h \ P : \E i \in 1..m : r[i] = a
      /\ \A i, j \in 1..m : i < j => ~Precedes(h[r[j]], h[r[i]])
      /\ g[1] = v
      /\ \A k \in 1..m : Fits(g[k], h[r[k]]) /\ g[k+1] = After(g[k], h[r[k]])
  BY <1>1 DEF RestBy
<1>3. m # 0 /\ 1 \in 1..m /\ m - 1 \in Nat
  BY <1>2
<1> DEFINE a == r[1]
           s == [k \in 1..(m-1) |-> r[k+1]]
           f == [k \in 1..m |-> g[k+1]]
<1>4. a \in DOMAIN h \ P
  BY <1>2, <1>3
<1>5. \A b \in DOMAIN h \ (P \cup {a}) : \E k \in 1..m : k # 1 /\ r[k] = b
  BY <1>2
<1>6. Minimal(h, P, a)
  <2> SUFFICES ASSUME NEW b \in DOMAIN h \ (P \cup {a}) PROVE ~Precedes(h[b], h[a])
    BY DEF Minimal
  <2>1. PICK k \in 1..m : k # 1 /\ r[k] = b
    BY <1>5
  <2>2. 1 < k
    BY <1>2, <2>1
  <2> QED BY <1>2, <1>3, <2>1, <2>2
<1>7. Fits(v, h[a]) /\ g[2] = After(v, h[a])
  <2>1. Fits(g[1], h[r[1]]) /\ g[1+1] = After(g[1], h[r[1]])
    BY <1>2, <1>3
  <2>2. 1 + 1 = 2
    OBVIOUS
  <2> QED BY <1>2, <2>1, <2>2
<1>8. \A k \in 1..(m-1) : k \in 1..m /\ k + 1 \in 1..m /\ k + 1 # 1 /\ s[k] = r[k+1] /\ f[k] = g[k+1]
  BY <1>2
<1>9. s \in [1..(m-1) -> DOMAIN h \ (P \cup {a})]
  <2>1. \A k \in 1..(m-1) : s[k] \in DOMAIN h \ P /\ s[k] # a
    BY <1>2, <1>3, <1>8
  <2> QED BY <2>1
<1>10. f[1] = After(v, h[a]) /\ \A k \in 1..(m-1) : f[k+1] = g[(k+1)+1]
  <2>1. f[1] = g[1+1] /\ \A k \in 1..(m-1) : f[k+1] = g[(k+1)+1]
    BY <1>3, <1>8
  <2>2. 1 + 1 = 2
    OBVIOUS
  <2> QED BY <1>7, <2>1, <2>2
<1> HIDE DEF s, f, a
<1>11. \A i, j \in 1..(m-1) : s[i] = s[j] => i = j
  <2> SUFFICES ASSUME NEW i \in 1..(m-1), NEW j \in 1..(m-1), s[i] = s[j] PROVE i = j
    OBVIOUS
  <2>1. i + 1 = j + 1 /\ i \in Int /\ j \in Int
    BY <1>2, <1>8
  <2> QED BY <2>1
<1>12. \A b \in DOMAIN h \ (P \cup {a}) : \E k \in 1..(m-1) : s[k] = b
  <2> TAKE b \in DOMAIN h \ (P \cup {a})
  <2>1. PICK k \in 1..m : k # 1 /\ r[k] = b
    BY <1>5
  <2>2. k - 1 \in 1..(m-1) /\ (k - 1) + 1 = k
    BY <1>2, <2>1
  <2> QED BY <1>8, <2>1, <2>2
<1>13. \A i, j \in 1..(m-1) : i < j => ~Precedes(h[s[j]], h[s[i]])
  <2> SUFFICES ASSUME NEW i \in 1..(m-1), NEW j \in 1..(m-1), i < j
               PROVE  ~Precedes(h[s[j]], h[s[i]])
    OBVIOUS
  <2>1. i + 1 \in 1..m /\ j + 1 \in 1..m /\ s[i] = r[i+1] /\ s[j] = r[j+1]
    BY <1>8
  <2>2. i + 1 < j + 1
    BY <1>2
  <2>3. ~Precedes(h[r[j+1]], h[r[i+1]])
    BY <1>2, <2>1, <2>2
  <2> QED BY <2>1, <2>3
<1>14. \A k \in 1..(m-1) : Fits(f[k], h[s[k]]) /\ f[k+1] = After(f[k], h[s[k]])
  BY <1>2, <1>8, <1>10
<1>15. RestBy(h, P \cup {a}, After(v, h[a]), m - 1, s, f)
  BY <1>3, <1>9, <1>10, <1>11, <1>12, <1>13, <1>14 DEF RestBy
<1> QED BY <1>4, <1>6, <1>7, <1>15 DEF Rest

(* What may be placed next, followed by an order of the others.            *)
LEMMA RestPrepends ==
  ASSUME NEW h, NEW P, NEW v, NEW a \in DOMAIN h \ P,
         Minimal(h, P, a), Fits(v, h[a]), Rest(h, P \cup {a}, After(v, h[a]))
  PROVE  Rest(h, P, v)
<1>1. PICK m, s, f : RestBy(h, P \cup {a}, After(v, h[a]), m, s, f)
  BY DEF Rest
<1>2. /\ m \in Nat /\ s \in [1..m -> DOMAIN h \ (P \cup {a})]
      /\ \A i, j \in 1..m : s[i] = s[j] => i = j
      /\ \A b \in DOMAIN h \ (P \cup {a}) : \E i \in 1..m : s[i] = b
      /\ \A i, j \in 1..m : i < j => ~Precedes(h[s[j]], h[s[i]])
      /\ f[1] = After(v, h[a])
      /\ \A k \in 1..m : Fits(f[k], h[s[k]]) /\ f[k+1] = After(f[k], h[s[k]])
  BY <1>1 DEF RestBy
<1> DEFINE n == m + 1
           r == [k \in 1..n |-> IF k = 1 THEN a ELSE s[k-1]]
           g == [k \in 1..(n+1) |-> IF k = 1 THEN v ELSE f[k-1]]
<1>3. n \in Nat /\ 1 \in 1..n /\ 1 \in 1..(n+1) /\ r[1] = a /\ g[1] = v
  BY <1>2
<1>4. \A k \in 1..n : k # 1 => k - 1 \in 1..m /\ r[k] = s[k-1]
  BY <1>2
<1>5. \A k \in 1..(n+1) : k # 1 => g[k] = f[k-1]
  BY <1>2
<1>6. DOMAIN r = 1..n /\ r = [k \in 1..n |-> r[k]]
  OBVIOUS
<1> HIDE DEF r, g
<1>7. \A k \in 1..n : r[k] \in DOMAIN h \ P /\ (k # 1 => r[k] # a)
  BY <1>2, <1>3, <1>4
<1>8. r \in [1..n -> DOMAIN h \ P]
  BY <1>6, <1>7
<1>9. \A i, j \in 1..n : r[i] = r[j] => i = j
  <2> SUFFICES ASSUME NEW i \in 1..n, NEW j \in 1..n, r[i] = r[j] PROVE i = j
    OBVIOUS
  <2>1. CASE i = 1 \/ j = 1
    BY <1>3, <1>7, <2>1
  <2>2. CASE i # 1 /\ j # 1
    <3>1. i - 1 = j - 1 /\ i \in Int /\ j \in Int
      BY <1>2, <1>4, <2>2
    <3> QED BY <3>1
  <2> QED BY <2>1, <2>2
<1>10. \A b \in DOMAIN h \ P : \E k \in 1..n : r[k] = b
  <2> TAKE b \in DOMAIN h \ P
  <2>1. CASE b = a
    BY <1>3, <2>1
  <2>2. CASE b # a
    <3>1. PICK i \in 1..m : s[i] = b
      BY <1>2, <2>2
    <3>2. i + 1 \in 1..n /\ i + 1 # 1 /\ (i + 1) - 1 = i
      BY <1>2
    <3> QED BY <1>4, <3>1, <3>2
  <2> QED BY <2>1, <2>2
<1>11. ASSUME NEW i \in 1..n, NEW j \in 1..n, i < j
       PROVE  ~Precedes(h[r[j]], h[r[i]])
  <2>1. j # 1 /\ i \in Int /\ j \in Int
    BY <1>2, <1>11
  <2>2. CASE i = 1
    <3>1. r[j] \in DOMAIN h \ (P \cup {a}) /\ r[i] = a
      BY <1>3, <1>7, <2>1, <2>2
    <3> QED BY <3>1 DEF Minimal
  <2>3. CASE i # 1
    <3>1. i - 1 \in 1..m /\ j - 1 \in 1..m /\ i - 1 < j - 1 /\ r[i] = s[i-1] /\ r[j] = s[j-1]
      BY <1>4, <1>11, <2>1, <2>3
    <3> QED BY <1>2, <3>1
  <2> QED BY <2>2, <2>3
<1>12. ASSUME NEW k \in 1..n PROVE Fits(g[k], h[r[k]]) /\ g[k+1] = After(g[k], h[r[k]])
  <2>1. k \in 1..(n+1) /\ k + 1 \in 1..(n+1) /\ k + 1 # 1 /\ (k + 1) - 1 = k
    BY <1>2
  <2>2. g[k+1] = f[k]
    BY <1>5, <2>1
  <2>3. CASE k = 1
    BY <1>2, <1>3, <2>2, <2>3
  <2>4. CASE k # 1
    <3>1. k - 1 \in 1..m /\ (k - 1) + 1 = k /\ r[k] = s[k-1] /\ g[k] = f[k-1]
      BY <1>4, <1>5, <2>1, <2>4
    <3>2. Fits(f[k-1], h[s[k-1]]) /\ f[(k-1)+1] = After(f[k-1], h[s[k-1]])
      BY <1>2, <3>1
    <3> QED BY <2>2, <3>1, <3>2
  <2> QED BY <2>3, <2>4
<1> HIDE DEF n
<1>13. RestBy(h, P, v, n, r, g)
  BY <1>3, <1>8, <1>9, <1>10, <1>11, <1>12 DEF RestBy
<1> QED BY <1>13 DEF Rest

(* The order of all of them is a linearization.                            *)
LEMMA RestOfAll ==
  ASSUME NEW h, NEW n, List(h, n)
  PROVE  Rest(h, {}, InitialValue) <=> Linearizable(h)
<1>0. n \in Nat /\ DOMAIN h = 1..n
  BY DEF List
<1>1. ASSUME Rest(h, {}, InitialValue)
      PROVE  Linearizable(h)
  <2>1. PICK m, r, g : RestBy(h, {}, InitialValue, m, r, g)
    BY <1>1 DEF Rest
  <2>2. Renumbers(r, m, n) /\ m \in Nat
    BY <1>0, <2>1 DEF RestBy, Renumbers
  <2>3. m = n
    BY <1>0, <2>2, SameLength
  <2>4. Once(n, r) /\ InTime(h, n, r) /\ Chain(h, n, r, g)
    BY <1>0, <2>1, <2>3 DEF RestBy, Once, InTime, Chain
  <2> QED BY <2>4, LinearizableIff
<1>2. ASSUME Linearizable(h)
      PROVE  Rest(h, {}, InitialValue)
  <2>1. PICK p, g : Once(n, p) /\ InTime(h, n, p) /\ Chain(h, n, p, g)
    BY <1>2, LinearizableIff
  <2>2. \A i \in 1..n : \E k \in 1..n : p[k] = i
    BY <1>0, <2>1, OnceOnto
  <2>3. DOMAIN h \ {} = 1..n
    BY <1>0
  <2>4. RestBy(h, {}, InitialValue, n, p, g)
    BY <1>0, <2>1, <2>2, <2>3 DEF RestBy, Once, InTime, Chain
  <2> QED BY <2>4 DEF Rest
<1> QED BY <1>1, <1>2

(***************************************************************************)
(* The search of the reference is a recursive function of what is placed   *)
(* and what the register holds.  Rest solves its equation, so there is     *)
(* such a function; and whatever solves it is Rest, or a first place where *)
(* the two differ would have to be decided by one with less to place.      *)
(***************************************************************************)
States(h) == (SUBSET DOMAIN h) \X Values(h)

Decided(h, f, c) ==
  \/ c[1] = DOMAIN h
  \/ \E i \in DOMAIN h \ c[1] :
       Minimal(h, c[1], i) /\ Fits(c[2], h[i]) /\ f[<<c[1] \cup {i}, After(c[2], h[i])>>]

Found(h) == CHOOSE f : f = [c \in States(h) |-> Decided(h, f, c)]

LEMMA CanFinishIs == ASSUME NEW h PROVE CanFinish(h) <=> Found(h)[<<{}, InitialValue>>]
BY DEF CanFinish, Found, States, Decided

LEMMA AfterIsValue ==
  ASSUME NEW h, NEW v \in Values(h), NEW i \in DOMAIN h
  PROVE  After(v, h[i]) \in Values(h)
<1>1. h[i].value \in Values(h) /\ h[i].to \in Values(h)
  BY DEF Values
<1> QED BY <1>1 DEF After

LEMMA RestSolves ==
  ASSUME NEW h, NEW P \in SUBSET DOMAIN h, NEW v
  PROVE  Rest(h, P, v) <=> (\/ P = DOMAIN h
                            \/ \E i \in DOMAIN h \ P :
                                 Minimal(h, P, i) /\ Fits(v, h[i]) /\ Rest(h, P \cup {i}, After(v, h[i])))
<1>1. CASE P = DOMAIN h
  BY <1>1, NothingRests
<1>2. CASE P # DOMAIN h
  <2>1. DOMAIN h \ P # {}
    BY <1>2
  <2> QED BY <1>2, <2>1, RestBegins, RestPrepends
<1> QED BY <1>1, <1>2

LEMMA FoundSolves ==
  ASSUME NEW h
  PROVE  \A c \in States(h) : Found(h)[c] = Decided(h, Found(h), c)
<1> DEFINE g == [c \in States(h) |-> Rest(h, c[1], c[2])]
<1>1. ASSUME NEW c \in States(h) PROVE g[c] = Decided(h, g, c)
  <2>1. c[1] \in SUBSET DOMAIN h /\ c[2] \in Values(h)
    BY DEF States
  <2>2. g[c] = Rest(h, c[1], c[2])
    OBVIOUS
  <2>3. ASSUME NEW i \in DOMAIN h \ c[1]
        PROVE  g[<<c[1] \cup {i}, After(c[2], h[i])>>] = Rest(h, c[1] \cup {i}, After(c[2], h[i]))
    <3>1. <<c[1] \cup {i}, After(c[2], h[i])>> \in States(h)
      BY <2>1, AfterIsValue DEF States
    <3> QED BY <3>1
  <2> HIDE DEF g
  <2> DEFINE P == c[1]
             v == c[2]
  <2>6. Rest(h, P, v) <=>
          (\/ P = DOMAIN h
           \/ \E i \in DOMAIN h \ P :
                Minimal(h, P, i) /\ Fits(v, h[i]) /\ Rest(h, P \cup {i}, After(v, h[i])))
    BY <2>1, RestSolves
  <2>7. Decided(h, g, c) <=>
          (\/ P = DOMAIN h
           \/ \E i \in DOMAIN h \ P :
                Minimal(h, P, i) /\ Fits(v, h[i]) /\ g[<<P \cup {i}, After(v, h[i])>>])
    BY DEF Decided
  <2>8. \A i \in DOMAIN h \ P : g[<<P \cup {i}, After(v, h[i])>>] = Rest(h, P \cup {i}, After(v, h[i]))
    BY <2>3
  <2>4. g[c] <=> Decided(h, g, c)
    <3> HIDE DEF P, v
    <3> QED BY <2>2, <2>6, <2>7, <2>8 DEF P, v
  <2>5. g[c] \in BOOLEAN /\ Decided(h, g, c) \in BOOLEAN
    BY <2>2 DEF Rest, Decided
  <2> QED BY <2>4, <2>5
<1>2. g = [c \in States(h) |-> Decided(h, g, c)]
  <2>1. g = [c \in States(h) |-> g[c]]
    OBVIOUS
  <2> HIDE DEF g
  <2> QED BY <1>1, <2>1
<1> HIDE DEF g
<1>3. Found(h) = [c \in States(h) |-> Decided(h, Found(h), c)]
  BY <1>2, Zenon DEF Found
<1> QED BY <1>3

LEMMA FoundIsRest ==
  ASSUME NEW h, NEW n, List(h, n), NEW P \in SUBSET DOMAIN h, NEW v \in Values(h)
  PROVE  Found(h)[<<P, v>>] <=> Rest(h, P, v)
<1> DEFINE Todo(Q) == Cardinality(DOMAIN h \ Q)
           Differ(Q) == \E u \in Values(h) : ~(Found(h)[<<Q, u>>] <=> Rest(h, Q, u))
           T == {k \in Nat : \E Q \in SUBSET DOMAIN h : Todo(Q) = k /\ Differ(Q)}
<1>0. IsFiniteSet(DOMAIN h)
  BY FS_Interval DEF List
<1>1. \A Q \in SUBSET DOMAIN h : Todo(Q) \in Nat
  BY <1>0, FS_Subset, FS_CardinalityType
<1>2. T = {}
  <2> SUFFICES ASSUME T # {} PROVE FALSE
    OBVIOUS
  <2>1. T \in SUBSET Nat
    OBVIOUS
  <2> HIDE DEF T
  <2>2. PICK k \in T : \A j \in T : k <= j
    BY <2>1, LeastNumber
  <2> USE DEF T
  <2>3. PICK Q \in SUBSET DOMAIN h : Todo(Q) = k /\ Differ(Q)
    OBVIOUS
  <2>4. \A R \in SUBSET DOMAIN h : Todo(R) < k => ~Differ(R)
    <3> SUFFICES ASSUME NEW R \in SUBSET DOMAIN h, Todo(R) < k, Differ(R) PROVE FALSE
      OBVIOUS
    <3>1. Todo(R) \in T
      BY <1>1
    <3> HIDE DEF T, Todo
    <3>2. k <= Todo(R) /\ k \in Nat /\ Todo(R) \in Nat
      BY <1>1, <2>1, <2>2, <3>1
    <3> QED BY <3>2
  <2> HIDE DEF T
  <2>5. \A i \in DOMAIN h \ Q : Todo(Q \cup {i}) < k
    <3> TAKE i \in DOMAIN h \ Q
    <3>1. DOMAIN h \ (Q \cup {i}) = (DOMAIN h \ Q) \ {i} /\ i \in DOMAIN h \ Q
      OBVIOUS
    <3>2. IsFiniteSet(DOMAIN h \ Q)
      BY <1>0, FS_Subset
    <3>3. Cardinality((DOMAIN h \ Q) \ {i}) = Cardinality(DOMAIN h \ Q) - 1
      BY <3>1, <3>2, FS_RemoveElement
    <3>4. Todo(Q \cup {i}) = k - 1 /\ k \in Nat
      BY <1>1, <2>3, <3>1, <3>3
    <3> HIDE DEF Todo
    <3> QED BY <3>4
  <2>6. PICK u \in Values(h) : ~(Found(h)[<<Q, u>>] <=> Rest(h, Q, u))
    BY <2>3
  <2>7. ASSUME NEW i \in DOMAIN h \ Q
        PROVE  Found(h)[<<Q \cup {i}, After(u, h[i])>>] <=> Rest(h, Q \cup {i}, After(u, h[i]))
    <3>1. Q \cup {i} \in SUBSET DOMAIN h /\ After(u, h[i]) \in Values(h)
      BY AfterIsValue
    <3>2. ~Differ(Q \cup {i})
      BY <2>4, <2>5, <3>1
    <3> QED BY <3>1, <3>2
  <2>8. <<Q, u>> \in States(h)
    BY DEF States
  <2> DEFINE F == Found(h)
  <2>9. F[<<Q, u>>] = Decided(h, F, <<Q, u>>)
    BY <2>8, FoundSolves
  <2> HIDE DEF F
  <2>10. Decided(h, F, <<Q, u>>) <=>
           (\/ Q = DOMAIN h
            \/ \E i \in DOMAIN h \ Q :
                 Minimal(h, Q, i) /\ Fits(u, h[i]) /\ F[<<Q \cup {i}, After(u, h[i])>>])
    BY DEF Decided
  <2>11. F[<<Q, u>>] <=> Rest(h, Q, u)
    BY <2>7, <2>9, <2>10, RestSolves DEF F
  <2> QED BY <2>6, <2>11 DEF F
<1>3. Todo(P) \in Nat /\ Todo(P) \notin T
  BY <1>1, <1>2
<1> QED BY <1>3

-----------------------------------------------------------------------------
(* What is left of a history is a history.                                 *)
LEMMA DroppedList ==
  ASSUME NEW h \in Seq(Operation)
  PROVE  \E n : List(DropFailed(h), n)
<1> DEFINE S == {i \in DOMAIN h : h[i].outcome # "fail"}
<1>1. S \in SUBSET Nat /\ IsFiniteSet(S)
  <2>1. DOMAIN h = 1..Len(h) /\ Len(h) \in Nat
    OBVIOUS
  <2>2. S \subseteq 1..Len(h)
    BY <2>1
  <2>3. IsFiniteSet(1..Len(h)) /\ 1..Len(h) \subseteq Nat
    BY <2>1, FS_Interval
  <2> HIDE DEF S
  <2> QED BY <2>2, <2>3, FS_Subset
<1>2. \A i \in S : h[i] \in Operation
  OBVIOUS
<1> HIDE DEF S
<1>3. PICK n \in Nat : \E f \in [1..n -> S] : Kept(h, S) = LaidOut(h, f, n)
  BY <1>1, KeptLaysOut
<1>4. PICK f \in [1..n -> S] : Kept(h, S) = LaidOut(h, f, n)
  BY <1>3
<1>5. List(LaidOut(h, f, n), n)
  BY <1>2, LaidOutList
<1> QED BY <1>4, <1>5 DEF DropFailed, S

LEMMA ReferenceDecides ==
  ASSUME NEW h \in Seq(Operation)
  PROVE  CanFinish(DropFailed(h)) <=> Linearizable(DropFailed(h))
<1> DEFINE g == DropFailed(h)
<1>1. PICK n : List(g, n)
  BY DroppedList
<1> HIDE DEF g
<1>2. InitialValue \in Values(g) /\ {} \in SUBSET DOMAIN g
  BY DEF Values
<1>3. Found(g)[<<{}, InitialValue>>] <=> Rest(g, {}, InitialValue)
  BY <1>1, <1>2, FoundIsRest
<1>4. CanFinish(g) <=> Linearizable(g)
  BY <1>1, <1>3, CanFinishIs, RestOfAll
<1> QED BY <1>4 DEF g

(***************************************************************************)
(* The reference the search is tested against is right about every         *)
(* history, of any length: it refuses what is over its limit, and of the   *)
(* rest it says what the definition says (brute.go:11-32).                 *)
(***************************************************************************)
THEOREM ReferenceIsExact == Spec => []ReferenceExact
<1>1. TypeOK => ReferenceExact
  BY ReferenceDecides DEF TypeOK, ReferenceExact, Reference
<1> QED BY <1>1, WalkTypes, PTL

=============================================================================
