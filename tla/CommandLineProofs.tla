-------------------------- MODULE CommandLineProofs --------------------------
(***************************************************************************)
(* For histories of every length: a violation cut down to the first moment *)
(* at which it had become unavoidable stays one, in the file it is written *)
(* to and when that file is checked again.                                 *)
(***************************************************************************)
EXTENDS CommandLine, LinearizabilityProofs

-----------------------------------------------------------------------------
(***************************************************************************)
(* What a linearization depends on: which operations there are, and not    *)
(* how they are laid out.  w names them, P is those there are, and L shows *)
(* them when each is somewhere in it, alike but for what has no meaning.   *)
(***************************************************************************)
TakenBy(w, P, m, q, c) ==
  /\ m \in Nat
  /\ q \in [1..m -> P]
  /\ \A i, j \in 1..m : q[i] = q[j] => i = j
  /\ \A a \in P : \E i \in 1..m : q[i] = a
  /\ \A i, j \in 1..m : i < j => ~Precedes(w[q[j]], w[q[i]])
  /\ Chain(w, m, q, c)

Takes(w, P) == \E m, q, c : TakenBy(w, P, m, q, c)

Same(o, p) == Alike(o, p) /\ o.process = p.process /\ o.key = p.key

ShownBy(L, m, w, P, f) ==
  /\ List(L, m)
  /\ f \in [1..m -> P]
  /\ \A i, j \in 1..m : f[i] = f[j] => i = j
  /\ \A a \in P : \E i \in 1..m : f[i] = a
  /\ \A i \in 1..m : Same(L[i], w[f[i]])

Shows(L, w, P) == \E m, f : ShownBy(L, m, w, P, f)

LEMMA AlikeFits ==
  ASSUME NEW o, NEW p, Alike(o, p), NEW v
  PROVE  (Fits(v, o) <=> Fits(v, p)) /\ After(v, o) = After(v, p)
<1>1. Alike(p, o)
  BY AlikeBack
<1> QED BY <1>1, AlikeSteps

LEMMA ShownTakes ==
  ASSUME NEW L, NEW m, NEW w, NEW P, NEW f, ShownBy(L, m, w, P, f)
  PROVE  Linearizable(L) <=> Takes(w, P)
<1>1. List(L, m) /\ m \in Nat
  BY DEF ShownBy, List
<1>2. /\ \A i \in 1..m : f[i] \in P
      /\ \A i, j \in 1..m : f[i] = f[j] => i = j
      /\ \A a \in P : \E i \in 1..m : f[i] = a
      /\ \A i \in 1..m : Alike(L[i], w[f[i]])
  BY DEF ShownBy, Same
<1>3. \A i \in 1..m : \A v : (Fits(v, L[i]) <=> Fits(v, w[f[i]])) /\ After(v, L[i]) = After(v, w[f[i]])
  BY <1>2, AlikeFits
<1>4. \A i, j \in 1..m : Precedes(L[i], L[j]) <=> Precedes(w[f[i]], w[f[j]])
  BY <1>2 DEF Alike, Precedes
<1>5. ASSUME Linearizable(L) PROVE Takes(w, P)
  <2>1. PICK p, c : Once(m, p) /\ InTime(L, m, p) /\ Chain(L, m, p, c)
    BY <1>1, <1>5, LinearizableIff
  <2>2. \A i \in 1..m : \E j \in 1..m : p[j] = i
    BY <1>1, <2>1, OnceOnto
  <2>3. (\A i \in 1..m : p[i] \in 1..m) /\ \A i, j \in 1..m : p[i] = p[j] => i = j
    BY <2>1 DEF Once
  <2> DEFINE q == [i \in 1..m |-> f[p[i]]]
  <2>4. \A i \in 1..m : q[i] = f[p[i]]
    OBVIOUS
  <2>5. q \in [1..m -> P]
    <3>1. \A i \in 1..m : f[p[i]] \in P
      BY <1>2, <2>3
    <3> QED BY <3>1
  <2> HIDE DEF q
  <2>6. \A i, j \in 1..m : q[i] = q[j] => i = j
    BY <1>2, <2>3, <2>4
  <2>7. ASSUME NEW a \in P PROVE \E i \in 1..m : q[i] = a
    <3>1. PICK b \in 1..m : f[b] = a
      BY <1>2
    <3>2. PICK i \in 1..m : p[i] = b
      BY <2>2
    <3> QED BY <2>4, <3>1, <3>2
  <2>8. \A i, j \in 1..m : i < j => ~Precedes(w[q[j]], w[q[i]])
    BY <1>4, <2>1, <2>3, <2>4 DEF InTime
  <2>9. Chain(w, m, q, c)
    <3>1. c[1] = InitialValue /\ \A i \in 1..m : Fits(c[i], L[p[i]]) /\ c[i+1] = After(c[i], L[p[i]])
      BY <2>1 DEF Chain
    <3>2. \A i \in 1..m : Fits(c[i], w[q[i]]) /\ c[i+1] = After(c[i], w[q[i]])
      BY <1>3, <2>3, <2>4, <3>1
    <3> QED BY <3>1, <3>2 DEF Chain
  <2>10. TakenBy(w, P, m, q, c)
    BY <1>1, <2>5, <2>6, <2>7, <2>8, <2>9 DEF TakenBy
  <2> QED BY <2>10 DEF Takes
<1>6. ASSUME Takes(w, P) PROVE Linearizable(L)
  <2>1. PICK l, q, c : TakenBy(w, P, l, q, c)
    BY <1>6 DEF Takes
  <2>2. /\ l \in Nat /\ \A i \in 1..l : q[i] \in P
        /\ \A i, j \in 1..l : q[i] = q[j] => i = j
        /\ \A a \in P : \E i \in 1..l : q[i] = a
    BY <2>1 DEF TakenBy
  <2>3. \A i \in 1..l : \E j \in 1..m : f[j] = q[i]
    BY <1>2, <2>2
  <2> DEFINE p == [i \in 1..l |-> CHOOSE j \in 1..m : f[j] = q[i]]
  <2>4. p \in [1..l -> 1..m] /\ \A i \in 1..l : p[i] \in 1..m /\ f[p[i]] = q[i]
    BY <2>3
  <2> HIDE DEF p
  <2>5. \A i, j \in 1..l : p[i] = p[j] => i = j
    BY <2>2, <2>4
  <2>6. ASSUME NEW j \in 1..m PROVE \E i \in 1..l : p[i] = j
    <3>1. f[j] \in P
      BY <1>2
    <3>2. PICK i \in 1..l : q[i] = f[j]
      BY <2>2, <3>1
    <3>3. f[p[i]] = f[j] /\ p[i] \in 1..m
      BY <2>4, <3>2
    <3> QED BY <1>2, <3>3
  <2>7. Renumbers(p, l, m)
    BY <2>4, <2>5, <2>6 DEF Renumbers
  <2>8. l = m
    BY <1>1, <2>2, <2>7, SameLength
  <2>9. Once(m, p)
    BY <2>4, <2>5, <2>8 DEF Once
  <2>10. \A i \in 1..m : f[p[i]] = q[i] /\ p[i] \in 1..m
    BY <2>4, <2>8
  <2>11. InTime(L, m, p)
    BY <1>4, <2>1, <2>8, <2>10 DEF InTime, TakenBy
  <2>12. Chain(L, m, p, c)
    <3>1. c[1] = InitialValue /\ \A i \in 1..m : Fits(c[i], w[q[i]]) /\ c[i+1] = After(c[i], w[q[i]])
      BY <2>1, <2>8 DEF TakenBy, Chain
    <3>2. ASSUME NEW i \in 1..m PROVE Fits(c[i], L[p[i]]) /\ c[i+1] = After(c[i], L[p[i]])
      <4>1. p[i] \in 1..m /\ f[p[i]] = q[i]
        BY <2>10
      <4>2. (Fits(c[i], L[p[i]]) <=> Fits(c[i], w[q[i]])) /\ After(c[i], L[p[i]]) = After(c[i], w[q[i]])
        BY <1>3, <4>1
      <4> QED BY <3>1, <4>2
    <3> QED BY <3>1, <3>2 DEF Chain
  <2> QED BY <1>1, <2>9, <2>11, <2>12, LinearizableIff
<1> QED BY <1>5, <1>6

LEMMA ShowsTakes ==
  ASSUME NEW L, NEW w, NEW P, Shows(L, w, P)
  PROVE  Linearizable(L) <=> Takes(w, P)
BY ShownTakes DEF Shows

LEMMA SameItself == ASSUME NEW o PROVE Same(o, o)
BY AlikeItself DEF Same

LEMMA SameTwice == ASSUME NEW o, NEW p, NEW r, Same(o, p), Same(p, r) PROVE Same(o, r)
BY DEF Same, Alike

(* A list shows itself.                                                    *)
LEMMA ShowsItself ==
  ASSUME NEW h, NEW n, List(h, n)
  PROVE  Shows(h, h, 1..n)
<1> DEFINE f == [i \in 1..n |-> i]
<1>1. f \in [1..n -> 1..n] /\ \A i \in 1..n : f[i] = i
  OBVIOUS
<1> HIDE DEF f
<1>2. ShownBy(h, n, h, 1..n, f)
  BY <1>1, SameItself DEF ShownBy
<1> QED BY <1>2 DEF Shows

(* Sorting shows the same operations, each the same.                       *)
LEMMA SortShows ==
  ASSUME NEW L, NEW w, NEW P, Shows(L, w, P), Timed(L)
  PROVE  Shows(SortByInvoke(L), w, P)
<1>1. PICK m, f : ShownBy(L, m, w, P, f)
  BY DEF Shows
<1>2. /\ List(L, m) /\ m \in Nat /\ DOMAIN L = 1..m
      /\ \A i \in 1..m : f[i] \in P
      /\ \A i, j \in 1..m : f[i] = f[j] => i = j
      /\ \A a \in P : \E i \in 1..m : f[i] = a
      /\ \A i \in 1..m : Same(L[i], w[f[i]])
  BY <1>1 DEF ShownBy, List
<1>3. PICK e \in [1..m -> 1..m] :
           /\ \A j, k \in 1..m : e[j] = e[k] => j = k
           /\ \A i \in 1..m : \E k \in 1..m : e[k] = i
           /\ SortByInvoke(L) = LaidOut(L, e, m)
  BY <1>2, SortLaysOut
<1> DEFINE S == SortByInvoke(L)
           X == {L[i] : i \in 1..m}
<1>4. \A k \in 1..m : e[k] \in 1..m /\ L[e[k]] \in X
  BY <1>3
<1> HIDE DEF X
<1>5. List(S, m) /\ \A k \in 1..m : S[k] = L[e[k]]
  <2>1. List(LaidOut(L, e, m), m)
    BY <1>2, <1>4, LaidOutList
  <2> QED BY <1>3, <2>1 DEF LaidOut
<1> HIDE DEF S
<1> DEFINE d == [k \in 1..m |-> f[e[k]]]
<1>6. \A k \in 1..m : d[k] = f[e[k]]
  OBVIOUS
<1>7. d \in [1..m -> P]
  <2>1. \A k \in 1..m : f[e[k]] \in P
    BY <1>2, <1>4
  <2> QED BY <2>1
<1> HIDE DEF d
<1>8. \A j, k \in 1..m : d[j] = d[k] => j = k
  <2> SUFFICES ASSUME NEW j \in 1..m, NEW k \in 1..m, d[j] = d[k] PROVE j = k
    OBVIOUS
  <2>1. e[j] \in 1..m /\ e[k] \in 1..m /\ f[e[j]] = f[e[k]]
    BY <1>4, <1>6
  <2>2. e[j] = e[k]
    BY <1>2, <2>1
  <2> QED BY <1>3, <2>2
<1>9. ASSUME NEW a \in P PROVE \E k \in 1..m : d[k] = a
  <2>1. PICK i \in 1..m : f[i] = a
    BY <1>2
  <2>2. PICK k \in 1..m : e[k] = i
    BY <1>3
  <2> QED BY <1>6, <2>1, <2>2
<1>10. \A k \in 1..m : Same(S[k], w[d[k]])
  BY <1>2, <1>4, <1>5, <1>6
<1>11. ShownBy(S, m, w, P, d)
  BY <1>5, <1>7, <1>8, <1>9, <1>10 DEF ShownBy
<1> QED BY <1>11 DEF Shows, S

(* Selecting shows what is selected.                                       *)
LEMMA KeptShows ==
  ASSUME NEW L, NEW w, NEW P, NEW m, NEW f, ShownBy(L, m, w, P, f),
         NEW S \in SUBSET DOMAIN L, NEW T \in SUBSET P,
         \A i \in 1..m : i \in S <=> f[i] \in T
  PROVE  /\ Shows(Kept(L, S), w, T)
         /\ \A i \in DOMAIN Kept(L, S) : \E j \in S : Kept(L, S)[i] = L[j]
<1>2. /\ List(L, m) /\ m \in Nat /\ DOMAIN L = 1..m
      /\ \A i \in 1..m : f[i] \in P
      /\ \A i, j \in 1..m : f[i] = f[j] => i = j
      /\ \A a \in P : \E i \in 1..m : f[i] = a
      /\ \A i \in 1..m : Same(L[i], w[f[i]])
  BY DEF ShownBy, List
<1>3. IsFiniteSet(S) /\ S \in SUBSET Nat
  <2>1. IsFiniteSet(DOMAIN L)
    BY <1>2, Numbered
  <2>2. IsFiniteSet(S)
    BY <2>1, FS_Subset
  <2>3. S \in SUBSET Nat
    BY <1>2
  <2> QED BY <2>2, <2>3
<1>4. \E n \in Nat : \E e \in [1..n -> S] :
           /\ \A j, k \in 1..n : j < k => e[j] < e[k]
           /\ \A i \in S : \E k \in 1..n : e[k] = i
           /\ Kept(L, S) = LaidOut(L, e, n)
           /\ n = Cardinality(S)
  BY <1>3, KeptLaysOut
<1>5. PICK n \in Nat : \E e \in [1..n -> S] :
           /\ \A j, k \in 1..n : j < k => e[j] < e[k]
           /\ \A i \in S : \E k \in 1..n : e[k] = i
           /\ Kept(L, S) = LaidOut(L, e, n)
  BY <1>4
<1>6. PICK e \in [1..n -> S] :
           /\ \A j, k \in 1..n : j < k => e[j] < e[k]
           /\ \A i \in S : \E k \in 1..n : e[k] = i
           /\ Kept(L, S) = LaidOut(L, e, n)
  BY <1>5
<1> DEFINE K == Kept(L, S)
           X == {L[i] : i \in S}
<1>7. \A k \in 1..n : e[k] \in S /\ L[e[k]] \in X
  BY <1>6
<1>8. \A k \in 1..n : e[k] \in 1..m /\ e[k] \in Nat
  <2>1. \A i \in S : i \in 1..m /\ i \in Nat
    BY <1>2, <1>3
  <2> QED BY <1>7, <2>1
<1> HIDE DEF X
<1>9. List(K, n) /\ \A k \in 1..n : K[k] = L[e[k]]
  <2>1. List(LaidOut(L, e, n), n)
    BY <1>7, LaidOutList
  <2> QED BY <1>6, <2>1 DEF LaidOut
<1> HIDE DEF K
<1>10. \A j, k \in 1..n : e[j] = e[k] => j = k
  <2> SUFFICES ASSUME NEW j \in 1..n, NEW k \in 1..n, e[j] = e[k] PROVE j = k
    OBVIOUS
  <2>1. ~ (e[j] < e[k]) /\ ~ (e[k] < e[j])
    BY <1>8
  <2>2. ~ (j < k) /\ ~ (k < j)
    BY <1>6, <2>1
  <2> QED BY <2>2
<1> DEFINE d == [k \in 1..n |-> f[e[k]]]
<1>11. \A k \in 1..n : d[k] = f[e[k]]
  OBVIOUS
<1>12. d \in [1..n -> T]
  <2>1. \A k \in 1..n : f[e[k]] \in T
    BY <1>7, <1>8
  <2> QED BY <2>1
<1> HIDE DEF d
<1>13. \A j, k \in 1..n : d[j] = d[k] => j = k
  BY <1>2, <1>8, <1>10, <1>11
<1>14. ASSUME NEW a \in T PROVE \E k \in 1..n : d[k] = a
  <2>1. PICK i \in 1..m : f[i] = a
    BY <1>2
  <2>2. i \in S
    BY <2>1
  <2>3. PICK k \in 1..n : e[k] = i
    BY <1>6, <2>2
  <2> QED BY <1>11, <2>1, <2>3
<1>15. \A k \in 1..n : Same(K[k], w[d[k]])
  BY <1>2, <1>8, <1>9, <1>11
<1>16. ShownBy(K, n, w, T, d)
  BY <1>9, <1>12, <1>13, <1>14, <1>15 DEF ShownBy
<1>17. \A i \in DOMAIN K : \E j \in S : K[i] = L[j]
  BY <1>7, <1>9 DEF List
<1> QED BY <1>16, <1>17 DEF Shows, K

-----------------------------------------------------------------------------
(***************************************************************************)
(* Truncation: what w was at time t.                                       *)
(***************************************************************************)
Cut(w, t)       == [a \in DOMAIN w |-> AsOf(w[a], t)]
Begun(w, P, t)  == {a \in P : w[a].invoke < t}

LEMMA AsOfIs ==
  ASSUME NEW op \in Operation, NEW t \in Int
  PROVE  /\ AsOf(op, t) \in Operation
         /\ AsOf(op, t).invoke = op.invoke /\ AsOf(op, t).kind = op.kind
         /\ AsOf(op, t).process = op.process /\ AsOf(op, t).key = op.key
         /\ AsOf(op, t).value = op.value /\ AsOf(op, t).from = op.from /\ AsOf(op, t).to = op.to
         /\ AsOf(op, t).observed = op.observed /\ AsOf(op, t).swapped = op.swapped
         /\ op.complete >= t => AsOf(op, t).outcome = "info" /\ AsOf(op, t).complete = Pending
         /\ op.complete < t => AsOf(op, t) = op
<1>1. op.complete \in Int /\ Pending \in Int /\ "info" \in Outcomes
  BY PendingAssumption DEF Operation, Outcomes
<1>2. CASE op.complete >= t
  <2>1. AsOf(op, t) = [op EXCEPT !.outcome = "info", !.complete = Pending]
    BY <1>2 DEF AsOf
  <2>2. ~ (op.complete < t)
    BY <1>1, <1>2
  <2> QED BY <1>1, <1>2, <2>1, <2>2 DEF Operation
<1>3. CASE ~ (op.complete >= t)
  <2>1. AsOf(op, t) = op
    BY <1>3 DEF AsOf
  <2> QED BY <1>3, <2>1
<1> QED BY <1>2, <1>3

LEMMA SameAsOf ==
  ASSUME NEW o \in Operation, NEW p \in Operation, Same(o, p), NEW t \in Int
  PROVE  Same(AsOf(o, t), AsOf(p, t))
<1>1. o.complete = p.complete /\ o.complete \in Int
  BY DEF Same, Alike, Operation
<1>2. CASE o.complete < t
  <2>1. AsOf(o, t) = o /\ AsOf(p, t) = p
    BY <1>1, <1>2, AsOfIs
  <2> QED BY <2>1
<1>3. CASE o.complete >= t
  <2>1. /\ AsOf(o, t).outcome = "info" /\ AsOf(o, t).complete = Pending
        /\ AsOf(p, t).outcome = "info" /\ AsOf(p, t).complete = Pending
    BY <1>1, <1>3, AsOfIs
  <2>2. /\ AsOf(o, t).invoke = AsOf(p, t).invoke /\ AsOf(o, t).kind = AsOf(p, t).kind
        /\ AsOf(o, t).process = AsOf(p, t).process /\ AsOf(o, t).key = AsOf(p, t).key
    BY AsOfIs DEF Same, Alike
  <2>3. /\ o.kind = "write" => AsOf(o, t).value = AsOf(p, t).value
        /\ o.kind = "cas" => AsOf(o, t).from = AsOf(p, t).from /\ AsOf(o, t).to = AsOf(p, t).to
    BY AsOfIs DEF Same, Alike
  <2>4. AsOf(o, t).kind = o.kind
    BY AsOfIs
  <2> QED BY <2>1, <2>2, <2>3, <2>4 DEF Same, Alike
<1> QED BY <1>1, <1>2, <1>3

(* DropFailed shows what did not fail.                                     *)
LEMMA DropShows ==
  ASSUME NEW L, NEW w, NEW P, Shows(L, w, P)
  PROVE  /\ Shows(DropFailed(L), w, {a \in P : w[a].outcome # "fail"})
         /\ \A i \in DOMAIN DropFailed(L) : \E j \in DOMAIN L :
              DropFailed(L)[i] = L[j] /\ L[j].outcome # "fail"
<1>1. PICK m, f : ShownBy(L, m, w, P, f)
  BY DEF Shows
<1> DEFINE S == {i \in DOMAIN L : L[i].outcome # "fail"}
           T == {a \in P : w[a].outcome # "fail"}
<1>2. S \in SUBSET DOMAIN L /\ T \in SUBSET P
  OBVIOUS
<1>3. ASSUME NEW i \in 1..m PROVE i \in S <=> f[i] \in T
  <2>1. i \in DOMAIN L /\ f[i] \in P /\ L[i].outcome = w[f[i]].outcome
    BY <1>1 DEF ShownBy, List, Same, Alike
  <2> QED BY <2>1
<1>4. \A i \in S : i \in DOMAIN L /\ L[i].outcome # "fail"
  OBVIOUS
<1>5. DropFailed(L) = Kept(L, S)
  BY DEF DropFailed
<1> HIDE DEF S
<1>6. /\ Shows(Kept(L, S), w, T)
      /\ \A i \in DOMAIN Kept(L, S) : \E j \in S : Kept(L, S)[i] = L[j]
  <2> HIDE DEF T
  <2> QED BY <1>1, <1>2, <1>3, KeptShows
<1> QED BY <1>4, <1>5, <1>6


(* So does truncating, of what had begun by then as it was then.           *)
LEMMA TruncateShows ==
  ASSUME NEW L \in Seq(Operation), NEW w, NEW P \in SUBSET DOMAIN w, \A a \in P : w[a] \in Operation,
         Shows(L, w, P), NEW t \in Int
  PROVE  /\ Shows(TruncateAt(L, t), Cut(w, t), Begun(w, P, t))
         /\ TruncateAt(L, t) \in Seq(Operation)
<1>1. PICK m, f : ShownBy(L, m, w, P, f)
  BY DEF Shows
<1> DEFINE S == {i \in DOMAIN L : L[i].invoke < t}
           T == Begun(w, P, t)
           K == Kept(L, S)
           M == TruncateAt(L, t)
<1>2. S \in SUBSET DOMAIN L /\ T \in SUBSET P
  BY DEF Begun
<1>3. ASSUME NEW i \in 1..m PROVE i \in S <=> f[i] \in T
  <2>1. i \in DOMAIN L /\ f[i] \in P /\ L[i].invoke = w[f[i]].invoke
    BY <1>1 DEF ShownBy, List, Same, Alike
  <2> QED BY <2>1 DEF Begun
<1>4. M = [i \in DOMAIN K |-> AsOf(K[i], t)]
  BY DEF TruncateAt
<1>5. \A i \in S : L[i] \in Operation
  <2>1. \A i \in DOMAIN L : L[i] \in Operation
    BY SeqList
  <2> QED BY <2>1
<1> HIDE DEF S, M
<1>6. /\ Shows(K, w, T)
      /\ \A i \in DOMAIN K : \E j \in S : K[i] = L[j]
  <2> HIDE DEF T
  <2> QED BY <1>1, <1>2, <1>3, KeptShows
<1> HIDE DEF T, K
<1>7. PICK n, e : ShownBy(K, n, w, T, e)
  BY <1>6 DEF Shows
<1>8. n \in Nat /\ DOMAIN K = 1..n /\ \A i \in 1..n : e[i] \in T /\ Same(K[i], w[e[i]])
  BY <1>7 DEF ShownBy, List
<1>9. \A i \in 1..n : K[i] \in Operation /\ M[i] = AsOf(K[i], t) /\ M[i] \in Operation
  <2> TAKE i \in 1..n
  <2>1. K[i] \in Operation /\ M[i] = AsOf(K[i], t)
    BY <1>4, <1>5, <1>6, <1>8
  <2> QED BY <2>1, AsOfIs
<1>10. List(M, n) /\ M \in Seq(Operation)
  <2>1. DOMAIN M = 1..n /\ M = [i \in 1..n |-> M[i]]
    BY <1>4, <1>8
  <2> QED BY <1>8, <1>9, <2>1, MadeList
<1>11. \A i \in 1..n : Same(M[i], Cut(w, t)[e[i]])
  <2> TAKE i \in 1..n
  <2>1. e[i] \in DOMAIN w /\ w[e[i]] \in Operation
    BY <1>2, <1>8
  <2>2. Cut(w, t)[e[i]] = AsOf(w[e[i]], t)
    BY <2>1 DEF Cut
  <2> QED BY <1>8, <1>9, <2>1, <2>2, SameAsOf
<1>12. ShownBy(M, n, Cut(w, t), T, e)
  BY <1>7, <1>10, <1>11 DEF ShownBy
<1> QED BY <1>10, <1>12 DEF Shows, M, T

-----------------------------------------------------------------------------
(* An operation as it was earlier: what had not been heard of then is      *)
(* indeterminate, the rest is as it was later.                             *)
LEMMA EarlierFits ==
  ASSUME NEW op \in Operation, NEW s \in Int, NEW t \in Int, s <= t, NEW v
  PROVE  /\ After(v, AsOf(op, s)) = After(v, AsOf(op, t))
         /\ op.complete >= s /\ Models(AsOf(op, t)) => Fits(v, AsOf(op, s))
         /\ op.complete < s => AsOf(op, s) = AsOf(op, t)
         /\ Models(AsOf(op, t)) <=> Models(AsOf(op, s))
<1>1. /\ AsOf(op, s).kind = AsOf(op, t).kind /\ AsOf(op, s).value = AsOf(op, t).value
      /\ AsOf(op, s).from = AsOf(op, t).from /\ AsOf(op, s).to = AsOf(op, t).to
  BY AsOfIs
<1>2. After(v, AsOf(op, s)) = After(v, AsOf(op, t))
  BY <1>1 DEF After
<1>3. Models(AsOf(op, t)) <=> Models(AsOf(op, s))
  BY <1>1 DEF Models
<1>4. op.complete >= s /\ Models(AsOf(op, t)) => Fits(v, AsOf(op, s))
  BY <1>3, AsOfIs DEF Fits, Known
<1>5. op.complete < s => AsOf(op, s) = AsOf(op, t)
  <2>1. op.complete \in Int
    BY DEF Operation
  <2>2. op.complete < s => op.complete < t
    BY <2>1
  <2> QED BY <2>2, AsOfIs
<1> QED BY <1>2, <1>3, <1>4, <1>5

(* What linearizes at t did at every earlier s.                            *)
LEMMA EarlierTakes ==
  ASSUME NEW w, NEW P \in SUBSET DOMAIN w, \A a \in P : w[a] \in Operation /\ w[a].complete <= Pending,
         NEW s \in Int, NEW t \in Int, s <= t,
         Takes(Cut(w, t), Begun(w, P, t))
  PROVE  Takes(Cut(w, s), Begun(w, P, s))
<1>1. PICK m, q, c : TakenBy(Cut(w, t), Begun(w, P, t), m, q, c)
  BY DEF Takes
<1> DEFINE ws == Cut(w, s)
           wt == Cut(w, t)
           K  == {i \in 1..m : w[q[i]].invoke < s}
<1>2. /\ m \in Nat
      /\ \A i \in 1..m : q[i] \in Begun(w, P, t)
      /\ \A i, j \in 1..m : q[i] = q[j] => i = j
      /\ \A a \in Begun(w, P, t) : \E i \in 1..m : q[i] = a
      /\ \A i, j \in 1..m : i < j => ~Precedes(wt[q[j]], wt[q[i]])
      /\ c[1] = InitialValue
      /\ \A i \in 1..m : Fits(c[i], wt[q[i]]) /\ c[i+1] = After(c[i], wt[q[i]])
  BY <1>1 DEF TakenBy, Chain
<1>3. \A a \in P : /\ w[a] \in Operation /\ w[a].complete <= Pending
                   /\ w[a].invoke \in Int /\ w[a].complete \in Int
                   /\ ws[a] = AsOf(w[a], s) /\ wt[a] = AsOf(w[a], t)
  BY DEF Cut, Operation
<1>4. \A i \in 1..m : q[i] \in P
  BY <1>2 DEF Begun
<1>5. Begun(w, P, s) \in SUBSET Begun(w, P, t)
  BY <1>3 DEF Begun
<1> HIDE DEF ws, wt
<1>6. /\ IsFiniteSet(K) /\ K \in SUBSET Nat /\ K \in SUBSET (1..m)
      /\ \A i \in K : i \in 1..m /\ w[q[i]].invoke < s
      /\ \A i \in 1..m : w[q[i]].invoke < s => i \in K
  <2>1. IsFiniteSet(1..m) /\ K \in SUBSET (1..m)
    BY <1>2, Numbered
  <2>2. IsFiniteSet(K)
    <3> HIDE DEF K
    <3> QED BY <2>1, FS_Subset
  <2> QED BY <1>2, <2>1, <2>2
<1> HIDE DEF K
<1>7. \E l \in Nat : \E f \in [1..l -> K] :
           /\ \A j, k \in 1..l : j < k => f[j] < f[k]
           /\ \A i \in K : \E k \in 1..l : f[k] = i
           /\ Kept(w, K) = LaidOut(w, f, l)
           /\ l = Cardinality(K)
  BY <1>6, KeptLaysOut
<1>8. PICK l \in Nat : \E f \in [1..l -> K] :
           /\ \A j, k \in 1..l : j < k => f[j] < f[k]
           /\ \A i \in K : \E k \in 1..l : f[k] = i
  BY <1>7
<1>9. PICK f \in [1..l -> K] :
           /\ \A j, k \in 1..l : j < k => f[j] < f[k]
           /\ \A i \in K : \E k \in 1..l : f[k] = i
  BY <1>8
<1>10. \A k \in 1..l : f[k] \in 1..m /\ f[k] \in Nat /\ f[k] \in K
  BY <1>6, <1>9
<1>11. \A j, k \in 1..l : f[j] = f[k] => j = k
  <2> SUFFICES ASSUME NEW j \in 1..l, NEW k \in 1..l, f[j] = f[k] PROVE j = k
    OBVIOUS
  <2>1. ~ (f[j] < f[k]) /\ ~ (f[k] < f[j])
    BY <1>10
  <2>2. ~ (j < k) /\ ~ (k < j)
    BY <1>9, <2>1
  <2> QED BY <2>2
<1> DEFINE r == [k \in 1..l |-> q[f[k]]]
<1>12. r \in [1..l -> Begun(w, P, s)] /\ \A k \in 1..l : r[k] = q[f[k]] /\ r[k] \in P
  <2>1. \A k \in 1..l : q[f[k]] \in P /\ w[q[f[k]]].invoke < s
    BY <1>4, <1>6, <1>10
  <2>2. \A k \in 1..l : q[f[k]] \in Begun(w, P, s)
    BY <2>1 DEF Begun
  <2> QED BY <2>1, <2>2
<1> HIDE DEF r
<1>13. \A j, k \in 1..l : r[j] = r[k] => j = k
  <2> SUFFICES ASSUME NEW j \in 1..l, NEW k \in 1..l, r[j] = r[k] PROVE j = k
    OBVIOUS
  <2>1. f[j] \in 1..m /\ f[k] \in 1..m /\ q[f[j]] = q[f[k]]
    BY <1>10, <1>12
  <2>2. f[j] = f[k]
    BY <1>2, <2>1
  <2> QED BY <1>11, <2>2
<1>14. ASSUME NEW a \in Begun(w, P, s) PROVE \E k \in 1..l : r[k] = a
  <2>1. PICK i \in 1..m : q[i] = a
    BY <1>2, <1>5
  <2>2. w[q[i]].invoke < s
    BY <2>1 DEF Begun
  <2>3. i \in K
    BY <1>6, <2>2
  <2>4. PICK k \in 1..l : f[k] = i
    BY <1>9, <2>3
  <2> QED BY <1>12, <2>1, <2>4
<1>15. ASSUME NEW i \in 1..l, NEW j \in 1..l, i < j, Precedes(ws[r[j]], ws[r[i]]) PROVE FALSE
  <2>1. /\ w[r[i]] \in Operation /\ w[r[j]] \in Operation /\ r[i] \in P /\ r[j] \in P
        /\ w[r[i]].invoke < s /\ w[r[j]].complete <= Pending
        /\ w[r[i]].invoke \in Int /\ w[r[j]].complete \in Int
    BY <1>3, <1>6, <1>10, <1>12
  <2>2. AsOf(w[r[j]], s).complete <= w[r[i]].invoke
    <3>1. AsOf(w[r[i]], s).invoke = w[r[i]].invoke
      BY <2>1, AsOfIs
    <3> QED BY <1>3, <1>15, <2>1, <3>1 DEF Precedes
  <2>3. w[r[j]].complete < s
    <3> SUFFICES ASSUME w[r[j]].complete >= s PROVE FALSE
      BY <2>1
    <3>1. AsOf(w[r[j]], s).complete = Pending
      BY <2>1, AsOfIs
    <3> QED BY <2>1, <2>2, <3>1, PendingAssumption
  <2>4. AsOf(w[r[j]], s) = w[r[j]] /\ AsOf(w[r[j]], t) = w[r[j]]
    <3>1. w[r[j]].complete < t
      BY <2>1, <2>3
    <3> QED BY <2>1, <2>3, <3>1, AsOfIs
  <2>5. AsOf(w[r[i]], t).invoke = w[r[i]].invoke
    BY <2>1, AsOfIs
  <2>6. Precedes(wt[r[j]], wt[r[i]])
    BY <1>3, <2>1, <2>2, <2>4, <2>5 DEF Precedes
  <2>7. f[i] < f[j]
    BY <1>9, <1>15
  <2>8. f[i] \in 1..m /\ f[j] \in 1..m /\ r[i] = q[f[i]] /\ r[j] = q[f[j]]
    BY <1>10, <1>12
  <2>9. ~ Precedes(wt[q[f[j]]], wt[q[f[i]]])
    BY <1>2, <2>7, <2>8
  <2> QED BY <2>6, <2>8, <2>9
<1>16. PICK d : Yields(ws, r, l, d)
  BY ValuesExist
<1>17. d[1] = InitialValue /\ \A k \in 1..l : d[k+1] = After(d[k], ws[r[k]])
  BY <1>16 DEF Yields
(* Before an operation whose answer was heard by s nothing was dropped.    *)
<1>18. ASSUME NEW i \in 1..l, w[r[i]].complete < s
       PROVE  f[i] = i /\ \A k \in 1..i : f[k] = k /\ r[k] = q[k]
  <2>1. ASSUME NEW j \in 1..f[i] PROVE j \in K
    <3>0. f[i] \in 1..m /\ f[i] \in Nat
      BY <1>10
    <3>1. f[i] \in 1..m /\ j \in 1..m /\ j \in Int
      BY <1>2, <3>0
    <3> SUFFICES ASSUME ~ (w[q[j]].invoke < s) PROVE FALSE
      BY <1>6, <3>1
    <3>2. j # f[i]
      BY <1>6, <1>10
    <3>3. j < f[i]
      BY <1>10, <3>1, <3>2
    <3>4. /\ q[j] \in P /\ r[i] \in P /\ r[i] = q[f[i]] /\ w[q[j]] \in Operation
          /\ w[r[i]] \in Operation /\ w[q[j]].invoke \in Int /\ w[r[i]].complete \in Int
      BY <1>3, <1>4, <1>12, <3>1
    <3>5. AsOf(w[r[i]], t) = w[r[i]]
      <4>1. w[r[i]].complete < t
        BY <1>18, <3>4
      <4> QED BY <3>4, <4>1, AsOfIs
    <3>6. AsOf(w[q[j]], t).invoke = w[q[j]].invoke
      BY <3>4, AsOfIs
    <3>7. w[r[i]].complete <= w[q[j]].invoke
      BY <1>18, <3>4
    <3>8. Precedes(wt[q[f[i]]], wt[q[j]])
      BY <1>3, <3>4, <3>5, <3>6, <3>7 DEF Precedes
    <3> QED BY <1>2, <3>1, <3>3, <3>8
  <2>2. ASSUME NEW k \in 1..i PROVE f[k] = k /\ k \in 1..l
    <3>1. k \in 1..l /\ k \in Nat /\ f[k] \in Nat /\ f[k] \in 1..m /\ f[i] \in Nat
      BY <1>10
    <3>2. k = i \/ k < i
      OBVIOUS
    <3>3. f[k] <= f[i]
      BY <1>9, <3>1, <3>2
    <3>4. ASSUME NEW b \in 1..f[k] PROVE \E j \in 1..k : f[j] = b
      <4>1. b \in 1..f[i] /\ b \in Int
        BY <3>1, <3>3
      <4>2. b \in K
        BY <2>1, <4>1
      <4>3. PICK j \in 1..l : f[j] = b
        BY <1>9, <4>2
      <4>4. ~ (k < j)
        BY <1>9, <3>1, <4>1, <4>3
      <4> QED BY <3>1, <4>3, <4>4
    <3>5. ASSUME NEW j \in 1..k PROVE j \in 1..l /\ f[j] \in 1..f[k]
      <4>1. j \in 1..l /\ (j = k \/ j < k)
        BY <3>1
      <4>2. f[j] \in 1..m /\ f[j] <= f[k]
        BY <1>9, <1>10, <3>1, <4>1
      <4> QED BY <3>1, <4>1, <4>2
    <3> DEFINE e == [j \in 1..k |-> f[j]]
    <3>6. e \in [1..k -> 1..f[k]] /\ \A j \in 1..k : e[j] = f[j]
      BY <3>5
    <3> HIDE DEF e
    <3>7. Renumbers(e, k, f[k])
      BY <1>11, <3>4, <3>5, <3>6 DEF Renumbers
    <3>8. k = f[k]
      BY <3>1, <3>7, SameLength
    <3> QED BY <3>1, <3>8
  <2>3. \A k \in 1..i : r[k] = q[k]
    BY <1>12, <2>2
  <2>4. i \in 1..i
    OBVIOUS
  <2> QED BY <2>2, <2>3, <2>4
<1>19. ASSUME NEW i \in 1..l, w[r[i]].complete < s PROVE d[i] = c[i]
  <2> DEFINE T == {k \in 1..i : d[k] # c[k]}
  <2> SUFFICES ASSUME T # {} PROVE FALSE
    OBVIOUS
  <2>1. T \in SUBSET Nat
    OBVIOUS
  <2>2. PICK k \in T : \A j \in T : k <= j
    BY <2>1, LeastNumber
  <2>3. k # 1
    BY <1>2, <1>17, <2>2
  <2>4. k - 1 \in 1..i /\ ~(k <= k - 1) /\ (k - 1) + 1 = k /\ k - 1 \in 1..l /\ k - 1 \in 1..m
    <3>1. i \in 1..m
      BY <1>10, <1>18, <1>19
    <3>2. k \in 1..i /\ i \in 1..l /\ i \in Int /\ k \in Int /\ m \in Int /\ l \in Int
      BY <1>2, <2>2
    <3> QED BY <2>3, <3>1, <3>2
  <2>5. d[k-1] = c[k-1]
    BY <2>2, <2>4
  <2>6. r[k-1] = q[k-1] /\ r[k-1] \in P
    BY <1>12, <1>18, <1>19, <2>4
  <2>7. d[k] = After(d[k-1], ws[r[k-1]]) /\ c[k] = After(c[k-1], wt[q[k-1]])
    BY <1>2, <1>17, <2>4
  <2>8. After(d[k-1], ws[r[k-1]]) = After(d[k-1], wt[r[k-1]])
    BY <1>3, <2>6, EarlierFits
  <2> QED BY <2>2, <2>5, <2>6, <2>7, <2>8
<1>20. ASSUME NEW i \in 1..l PROVE Fits(d[i], ws[r[i]])
  <2>1. /\ r[i] \in P /\ w[r[i]] \in Operation /\ w[r[i]].complete \in Int
        /\ ws[r[i]] = AsOf(w[r[i]], s) /\ wt[r[i]] = AsOf(w[r[i]], t)
    BY <1>3, <1>12
  <2>2. Fits(c[f[i]], wt[r[i]])
    BY <1>2, <1>10, <1>12
  <2>3. CASE w[r[i]].complete >= s
    <3>1. Models(AsOf(w[r[i]], t))
      BY <2>1, <2>2 DEF Fits
    <3> QED BY <2>1, <2>3, <3>1, EarlierFits
  <2>4. CASE w[r[i]].complete < s
    <3>1. ws[r[i]] = wt[r[i]]
      BY <2>1, <2>4, EarlierFits
    <3>2. d[i] = c[i] /\ f[i] = i
      BY <1>18, <1>19, <2>4
    <3> QED BY <2>2, <3>1, <3>2
  <2> QED BY <2>1, <2>3, <2>4
<1>21. Chain(ws, l, r, d)
  BY <1>17, <1>20 DEF Chain
<1>22. TakenBy(ws, Begun(w, P, s), l, r, d)
  BY <1>12, <1>13, <1>14, <1>15, <1>21 DEF TakenBy
<1> QED BY <1>22 DEF Takes, ws

-----------------------------------------------------------------------------
(***************************************************************************)
(* The times of a history, in their order.                                 *)
(***************************************************************************)
Up(E) == {ab \in E \X E : ab[1] < ab[2]}

LEMMA UpOrders ==
  ASSUME NEW E \in SUBSET Int
  PROVE  /\ \A a, b \in E : <<a, b>> \in Up(E) <=> a < b
         /\ Orders2(Up(E), E)
<1>1. \A a, b \in E : <<a, b>> \in Up(E) <=> a < b
  BY DEF Up
<1>2. \A a \in E : a \in Int
  OBVIOUS
<1>3. \A a \in E : <<a, a>> \notin Up(E)
  BY <1>1, <1>2
<1>4. \A a, b, d \in E : <<a, b>> \in Up(E) /\ <<b, d>> \in Up(E) => <<a, d>> \in Up(E)
  BY <1>1, <1>2
<1>5. \A a, b \in E : a # b => <<a, b>> \in Up(E) \/ <<b, a>> \in Up(E)
  BY <1>1, <1>2
<1> QED BY <1>1, <1>3, <1>4, <1>5 DEF Orders2

LEMMA GreatestNumber ==
  ASSUME NEW E \in SUBSET Int, IsFiniteSet(E), E # {}
  PROVE  \E a \in E : \A b \in E : b <= a
<1> DEFINE f == Unranked(Up(E), E)
           n == Cardinality(E)
<1>1. Orders2(Up(E), E) /\ \A a, b \in E : <<a, b>> \in Up(E) <=> a < b
  BY UpOrders
<1>2. /\ n \in Nat /\ f \in [1..n -> E]
      /\ \A i \in E : \E k \in 1..n : f[k] = i
      /\ \A j, k \in 1..n : j < k => <<f[j], f[k]>> \in Up(E)
  BY <1>1, UnrankedOrders
<1> HIDE DEF f, n
<1>3. PICK e \in E : TRUE
  OBVIOUS
<1>4. n \in 1..n
  <2>1. \E k \in 1..n : TRUE
    BY <1>2, <1>3
  <2> QED BY <1>2, <2>1
<1>5. f[n] \in E
  BY <1>2, <1>4
<1>6. ASSUME NEW b \in E PROVE b <= f[n]
  <2>1. PICK k \in 1..n : f[k] = b
    BY <1>2
  <2>2. CASE k = n
    BY <1>5, <2>1, <2>2
  <2>3. CASE k # n
    <3>1. k < n
      BY <1>2, <2>3
    <3>2. <<f[k], f[n]>> \in Up(E)
      BY <1>2, <1>4, <3>1
    <3>3. b < f[n]
      BY <1>1, <1>5, <2>1, <3>2
    <3>4. b \in Int /\ f[n] \in Int
      BY <1>5
    <3> QED BY <3>3, <3>4
  <2> QED BY <2>2, <2>3
<1> QED BY <1>5, <1>6

LEMMA InstantsAre ==
  ASSUME NEW h \in Seq(Operation)
  PROVE  /\ Instants(h) \in SUBSET Int /\ IsFiniteSet(Instants(h))
         /\ EventTimes(h) \in SUBSET Int /\ IsFiniteSet(EventTimes(h))
         /\ Past(h) \in Int /\ Past(h) \in EventTimes(h) /\ 0 < Past(h)
         /\ \A t \in Instants(h) : t < Past(h)
         /\ \E t \in Instants(h) \cup {0} : Past(h) = 1 + t
<1> DEFINE n == Len(h)
           H == {j \in DOMAIN h : h[j].complete # Pending}
           A == {h[i].invoke : i \in DOMAIN h}
           B == {h[i].complete : i \in H}
           I == Instants(h)
           J == I \cup {0}
<1>1. List(h, n) /\ \A i \in DOMAIN h : h[i] \in Operation
  BY SeqList
<1>2. \A i \in DOMAIN h : h[i].invoke \in Int /\ h[i].complete \in Int
  BY <1>1 DEF Operation
<1>3. IsFiniteSet(DOMAIN h) /\ IsFiniteSet(H)
  <2>1. IsFiniteSet(DOMAIN h)
    BY <1>1, Numbered DEF List
  <2>2. H \in SUBSET DOMAIN h
    OBVIOUS
  <2> HIDE DEF H
  <2> QED BY <2>1, <2>2, FS_Subset
<1>4. IsFiniteSet(A) /\ IsFiniteSet(B)
  <2> DEFINE a == [i \in DOMAIN h |-> h[i].invoke]
             b == [i \in H |-> h[i].complete]
  <2>1. a \in Surjection(DOMAIN h, A)
    BY DEF Surjection
  <2>2. b \in Surjection(H, B)
    <3> HIDE DEF H
    <3> QED BY DEF Surjection
  <2> HIDE DEF a, b, A, B, H
  <2>3. IsFiniteSet(A) /\ IsFiniteSet(B)
    BY <1>3, <2>1, <2>2, FS_Surjection
  <2> QED BY <2>3
<1>5. I = A \cup B
  BY DEF Instants, Heard
<1>6. A \in SUBSET Int /\ B \in SUBSET Int
  BY <1>2
<1> HIDE DEF A, B, H, I
<1>7. I \in SUBSET Int /\ IsFiniteSet(I)
  BY <1>4, <1>5, <1>6, FS_Union
<1>8. J \in SUBSET Int /\ IsFiniteSet(J) /\ J # {} /\ 0 \in J
  <2>1. IsFiniteSet(J)
    BY <1>7, FS_AddElement
  <2> QED BY <1>7, <2>1
<1>9. \E t \in J : \A u \in J : u <= t
  <2> HIDE DEF J
  <2> QED BY <1>8, GreatestNumber
<1> DEFINE x == CHOOSE t \in J : \A u \in J : u <= t
<1>10. x \in J /\ \A u \in J : u <= x
  <2> HIDE DEF J
  <2> QED BY <1>9
<1>11. Past(h) = 1 + x
  BY DEF Past, I
<1> HIDE DEF x
<1>12. x \in Int /\ Past(h) \in Int /\ 0 < Past(h) /\ \A t \in I : t < Past(h)
  <2>1. x \in Int /\ 0 <= x
    BY <1>8, <1>10
  <2>2. \A t \in I : t <= x /\ t \in Int
    BY <1>7, <1>10
  <2> QED BY <1>11, <2>1, <2>2
<1>13. EventTimes(h) = I \cup {Past(h)}
  BY DEF EventTimes, I
<1>14. IsFiniteSet(EventTimes(h)) /\ EventTimes(h) \in SUBSET Int
  <2>1. IsFiniteSet({Past(h)})
    BY FS_Singleton
  <2> QED BY <1>7, <1>12, <1>13, <2>1, FS_Union
<1> QED BY <1>7, <1>10, <1>11, <1>12, <1>13, <1>14 DEF I

(* TimeAt counts the times from 0, in order and leaving none out.          *)
LEMMA TimesInOrder ==
  ASSUME NEW h \in Seq(Operation)
  PROVE  /\ Final(h) \in Nat
         /\ \A i \in 0..Final(h) : TimeAt(h, i) \in EventTimes(h) /\ TimeAt(h, i) \in Int
         /\ \A i, j \in 0..Final(h) : i < j => TimeAt(h, i) < TimeAt(h, j)
         /\ \A t \in EventTimes(h) : \E i \in 0..Final(h) : TimeAt(h, i) = t
         /\ TimeAt(h, Final(h)) = Past(h)
<1> DEFINE E == EventTimes(h)
           f == Unranked(Up(E), E)
           n == Cardinality(E)
<1>1. E \in SUBSET Int /\ IsFiniteSet(E) /\ Past(h) \in E /\ \A t \in E : t <= Past(h)
  <2>1. /\ E \in SUBSET Int /\ IsFiniteSet(E) /\ Past(h) \in E /\ Past(h) \in Int
        /\ Instants(h) \in SUBSET Int /\ \A t \in Instants(h) : t < Past(h)
    BY InstantsAre
  <2>2. \A t \in E : t \in Instants(h) \/ t = Past(h)
    BY DEF EventTimes
  <2> HIDE DEF E
  <2>3. \A t \in E : t <= Past(h)
    <3> TAKE t \in E
    <3>1. t \in Int /\ (t \in Instants(h) => t < Past(h))
      BY <2>1
    <3> QED BY <2>1, <2>2, <3>1
  <2> QED BY <2>1, <2>3
<1>2. Final(h) = n - 1
  BY DEF Final
<1>3. \A i : TimeAt(h, i) = CHOOSE t \in E : Cardinality({u \in E : u < t}) = i
  BY DEF TimeAt
<1> HIDE DEF E
<1>4. Orders2(Up(E), E) /\ \A a, b \in E : <<a, b>> \in Up(E) <=> a < b
  BY <1>1, UpOrders
<1>5. /\ n \in Nat /\ f \in [1..n -> E]
      /\ \A i \in E : \E k \in 1..n : f[k] = i
      /\ \A j, k \in 1..n : j < k => <<f[j], f[k]>> \in Up(E)
  BY <1>1, <1>4, UnrankedOrders
<1>6. \A t \in E : {u \in E : <<u, t>> \in Up(E)} = {u \in E : u < t}
  BY <1>4
<1>7. \A t \in E : Cardinality({u \in E : u < t}) \in Nat
  <2> TAKE t \in E
  <2>1. {u \in E : u < t} \in SUBSET E
    OBVIOUS
  <2> QED BY <1>1, <2>1, FS_Subset, FS_CardinalityType
<1>8. ASSUME NEW k \in 1..n PROVE f[k] = TimeAt(h, k - 1)
  <2>1. f[k] = CHOOSE t \in E : Standing(Up(E), E, t) = k
    BY DEF Unranked
  <2>2. \A t \in E : Standing(Up(E), E, t) = 1 + Cardinality({u \in E : u < t})
    BY <1>6 DEF Standing
  <2>3. k \in Int
    OBVIOUS
  <2>4. \A t \in E : (Standing(Up(E), E, t) = k) <=> (Cardinality({u \in E : u < t}) = k - 1)
    BY <1>7, <2>2, <2>3
  <2> QED BY <1>3, <2>1, <2>4
<1> HIDE DEF f, n
<1>9. n \in Nat \ {0} /\ Final(h) \in Nat /\ \A i \in 0..Final(h) : i + 1 \in 1..n /\ f[i+1] = TimeAt(h, i)
  <2>1. PICK k \in 1..n : f[k] = Past(h)
    BY <1>1, <1>5
  <2>2. n # 0
    BY <1>5, <2>1
  <2>3. ASSUME NEW i \in 0..Final(h) PROVE i + 1 \in 1..n /\ f[i+1] = TimeAt(h, i)
    <3>1. i + 1 \in 1..n /\ (i + 1) - 1 = i
      BY <1>2, <1>5, <2>2
    <3>2. f[i+1] = TimeAt(h, (i + 1) - 1)
      BY <1>8, <3>1
    <3> QED BY <3>1, <3>2
  <2> QED BY <1>2, <1>5, <2>2, <2>3
<1>10. \A i \in 0..Final(h) : TimeAt(h, i) \in E /\ TimeAt(h, i) \in Int
  BY <1>1, <1>5, <1>9
<1>11. ASSUME NEW i \in 0..Final(h), NEW j \in 0..Final(h), i < j PROVE TimeAt(h, i) < TimeAt(h, j)
  <2>1. i + 1 \in 1..n /\ j + 1 \in 1..n /\ i + 1 < j + 1
    BY <1>9, <1>11
  <2>2. <<f[i+1], f[j+1]>> \in Up(E)
    BY <1>5, <2>1
  <2> QED BY <1>4, <1>9, <1>10, <2>2
<1>12. ASSUME NEW t \in E PROVE \E i \in 0..Final(h) : TimeAt(h, i) = t
  <2>1. PICK k \in 1..n : f[k] = t
    BY <1>5
  <2>2. k - 1 \in 0..Final(h)
    BY <1>2, <1>5
  <2> QED BY <1>8, <2>1, <2>2
<1>13. TimeAt(h, Final(h)) = Past(h)
  <2>1. PICK i \in 0..Final(h) : TimeAt(h, i) = Past(h)
    BY <1>1, <1>12
  <2>2. Final(h) \in 0..Final(h)
    BY <1>9
  <2>3. TimeAt(h, Final(h)) <= Past(h) /\ Past(h) \in Int /\ TimeAt(h, Final(h)) \in Int
    BY <1>1, <1>10, <2>2
  <2>4. i < Final(h) => TimeAt(h, i) < TimeAt(h, Final(h))
    BY <1>11, <2>2
  <2>5. i = Final(h)
    BY <1>9, <2>1, <2>3, <2>4
  <2> QED BY <2>1, <2>5
<1> QED BY <1>9, <1>10, <1>11, <1>12, <1>13 DEF E

-----------------------------------------------------------------------------
(***************************************************************************)
(* The truncations of a history.                                           *)
(***************************************************************************)
LEMMA OperationsTimed ==
  ASSUME NEW L \in Seq(Operation)
  PROVE  Timed(L) /\ List(L, Len(L)) /\ \A i \in DOMAIN L : L[i] \in Operation
<1>1. List(L, Len(L)) /\ \A i \in DOMAIN L : L[i] \in Operation
  BY SeqList
<1> QED BY <1>1 DEF Timed, Operation

LEMMA SortTyped ==
  ASSUME NEW L \in Seq(Operation)
  PROVE  /\ SortByInvoke(L) \in Seq(Operation) /\ DOMAIN SortByInvoke(L) = DOMAIN L
         /\ \A i \in DOMAIN L : \E j \in DOMAIN L : SortByInvoke(L)[i] = L[j]
<1> DEFINE n == Len(L)
<1>1. List(L, n) /\ Timed(L) /\ \A i \in DOMAIN L : L[i] \in Operation
  BY OperationsTimed
<1>2. DOMAIN L = 1..n /\ n \in Nat
  BY <1>1 DEF List
<1>3. PICK f \in [1..n -> 1..n] : SortByInvoke(L) = LaidOut(L, f, n)
  BY <1>1, SortLaysOut
<1>4. \A k \in 1..n : f[k] \in 1..n /\ L[f[k]] \in Operation
  BY <1>1, <1>2, <1>3
<1>5. SortByInvoke(L) \in Seq(Operation) /\ DOMAIN SortByInvoke(L) = 1..n
  <2>1. List(LaidOut(L, f, n), n) /\ LaidOut(L, f, n) \in Seq(Operation)
    BY <1>2, <1>4, LaidOutList
  <2> QED BY <1>3, <2>1 DEF List
<1>6. \A i \in 1..n : SortByInvoke(L)[i] = L[f[i]]
  BY <1>3 DEF LaidOut
<1> QED BY <1>2, <1>4, <1>5, <1>6

LEMMA SortedTruncationShows ==
  ASSUME NEW L \in Seq(Operation), NEW w, NEW P \in SUBSET DOMAIN w, \A a \in P : w[a] \in Operation,
         Shows(L, w, P), NEW t \in Int
  PROVE  /\ Shows(SortedTruncation(L, t), Cut(w, t), Begun(w, P, t))
         /\ SortedTruncation(L, t) \in Seq(Operation)
         /\ Linearizable(SortedTruncation(L, t)) <=> Takes(Cut(w, t), Begun(w, P, t))
<1>1. Shows(TruncateAt(L, t), Cut(w, t), Begun(w, P, t)) /\ TruncateAt(L, t) \in Seq(Operation)
  BY TruncateShows
<1>2. Timed(TruncateAt(L, t))
  BY <1>1, OperationsTimed
<1>3. Shows(SortedTruncation(L, t), Cut(w, t), Begun(w, P, t))
  BY <1>1, <1>2, SortShows DEF SortedTruncation
<1>4. SortedTruncation(L, t) \in Seq(Operation)
  BY <1>1, SortTyped DEF SortedTruncation
<1> QED BY <1>3, <1>4, ShowsTakes

(* Nothing completes after Pending, and only what never completed then.    *)
Settled(h) ==
  /\ h \in Seq(Operation)
  /\ \A i \in DOMAIN h : h[i].complete <= Pending /\ (h[i].complete = Pending <=> h[i].outcome = "info")

(* A truncation that linearizes does so at every earlier time.             *)
LEMMA EarlierTruncation ==
  ASSUME NEW h, Settled(h), NEW s \in Int, NEW t \in Int, s <= t,
         Linearizable(SortedTruncation(h, t))
  PROVE  Linearizable(SortedTruncation(h, s))
<1>1. /\ h \in Seq(Operation) /\ List(h, Len(h)) /\ DOMAIN h = 1..Len(h)
      /\ \A a \in DOMAIN h : h[a] \in Operation /\ h[a].complete <= Pending
  BY OperationsTimed DEF Settled, List
<1>2. Shows(h, h, DOMAIN h)
  BY <1>1, ShowsItself
<1>3. Takes(Cut(h, t), Begun(h, DOMAIN h, t))
  BY <1>1, <1>2, SortedTruncationShows
<1>4. Takes(Cut(h, s), Begun(h, DOMAIN h, s))
  <2> DEFINE P == DOMAIN h
  <2>1. P \in SUBSET DOMAIN h /\ \A a \in P : h[a] \in Operation /\ h[a].complete <= Pending
    BY <1>1
  <2>2. Takes(Cut(h, t), Begun(h, P, t))
    BY <1>3
  <2> HIDE DEF P
  <2>3. Takes(Cut(h, s), Begun(h, P, s))
    BY <2>1, <2>2, EarlierTakes
  <2> QED BY <2>3 DEF P
<1> QED BY <1>1, <1>2, <1>4, SortedTruncationShows

LEMMA KeptWhole ==
  ASSUME NEW n \in Nat, NEW h, List(h, n), h = [k \in 1..n |-> h[k]]
  PROVE  Kept(h, 1..n) = h
<1>1. IsFiniteSet(1..n) /\ Cardinality(1..n) = n
  BY Numbered
<1>2. ASSUME NEW i \in 1..n PROVE 1 + Cardinality({j \in 1..n : j < i}) = i
  <2>1. i - 1 \in Nat /\ {j \in 1..n : j < i} = 1..(i - 1) /\ i \in Int
    OBVIOUS
  <2>2. Cardinality(1..(i - 1)) = i - 1
    BY <2>1, Numbered
  <2> DEFINE B == {j \in 1..n : j < i}
  <2>3. B = 1..(i - 1)
    BY <2>1
  <2> HIDE DEF B
  <2>4. Cardinality(B) = i - 1
    BY <2>2, <2>3
  <2>5. 1 + Cardinality(B) = i
    BY <2>1, <2>4
  <2> QED BY <2>5 DEF B
<1>3. Kept(h, 1..n) = [k \in 1..n |-> h[CHOOSE i \in 1..n : 1 + Cardinality({j \in 1..n : j < i}) = k]]
  BY <1>1 DEF Kept
<1>4. \A k \in 1..n : (CHOOSE i \in 1..n : 1 + Cardinality({j \in 1..n : j < i}) = k) = k
  BY <1>2
<1> QED BY <1>3, <1>4

(* Past everything there is nothing to cut off.                            *)
LEMMA PastIsWhole ==
  ASSUME NEW h, Settled(h)
  PROVE  SortedTruncation(h, Past(h)) = SortByInvoke(h)
<1> DEFINE n == Len(h)
           t == Past(h)
<1>1. /\ h \in Seq(Operation) /\ List(h, n) /\ DOMAIN h = 1..n /\ n \in Nat
      /\ \A a \in DOMAIN h : h[a] \in Operation
  BY OperationsTimed DEF Settled, List
<1>2. t \in Int /\ \A u \in Instants(h) : u < t
  BY <1>1, InstantsAre
<1>3. ASSUME NEW i \in 1..n PROVE h[i].invoke < t /\ AsOf(h[i], t) = h[i]
  <2>1. h[i].invoke \in Instants(h)
    BY <1>1 DEF Instants
  <2>2. h[i] \in Operation /\ h[i].complete \in Int
    BY <1>1 DEF Operation
  <2>3. CASE h[i].complete # Pending
    <3>1. h[i].complete \in Instants(h)
      BY <1>1, <2>3 DEF Instants, Heard
    <3>2. h[i].complete < t
      BY <1>2, <3>1
    <3> QED BY <1>2, <2>1, <2>2, <3>2, AsOfIs
  <2>4. CASE h[i].complete = Pending
    <3>1. h[i].outcome = "info"
      BY <1>1, <2>4 DEF Settled
    <3>2. [h[i] EXCEPT !.outcome = "info", !.complete = Pending] = h[i]
      BY <2>2, <2>4, <3>1 DEF Operation
    <3> QED BY <1>2, <2>1, <3>2 DEF AsOf
  <2> QED BY <2>3, <2>4
<1> HIDE DEF t
<1>4. {i \in DOMAIN h : h[i].invoke < t} = 1..n
  BY <1>1, <1>3
<1>5. h = [k \in 1..n |-> h[k]]
  BY <1>1
<1>6. Kept(h, {i \in DOMAIN h : h[i].invoke < t}) = h
  <2> HIDE DEF n
  <2>1. Kept(h, 1..n) = h
    BY <1>1, <1>5, KeptWhole
  <2> QED BY <1>4, <2>1
<1>7. TruncateAt(h, t) = [i \in DOMAIN h |-> AsOf(h[i], t)]
  BY <1>6 DEF TruncateAt
<1>8. TruncateAt(h, t) = h
  <2> HIDE DEF n
  <2> QED BY <1>1, <1>3, <1>5, <1>7
<1> QED BY <1>8 DEF SortedTruncation, t

LEMMA SortSame ==
  ASSUME NEW L \in Seq(Operation)
  PROVE  Linearizable(SortByInvoke(L)) <=> Linearizable(L)
BY OperationsTimed, SortedSame

(* What the binary search relies on.                                       *)
LEMMA TruncationsJudged ==
  ASSUME NEW h, Settled(h)
  PROVE  /\ Final(h) \in Nat
         /\ \A i \in 0..Final(h) : Truncations(h)[i] = SortedTruncation(h, TimeAt(h, i))
         /\ \A i, j \in 0..Final(h) :
              i <= j /\ Linearizable(Truncations(h)[j]) => Linearizable(Truncations(h)[i])
         /\ Truncations(h)[Final(h)] = SortByInvoke(h)
         /\ Linearizable(Truncations(h)[Final(h)]) <=> Linearizable(h)
<1>1. h \in Seq(Operation)
  BY DEF Settled
<1>2. /\ Final(h) \in Nat
      /\ \A i \in 0..Final(h) : TimeAt(h, i) \in Int
      /\ \A i, j \in 0..Final(h) : i < j => TimeAt(h, i) < TimeAt(h, j)
      /\ TimeAt(h, Final(h)) = Past(h)
  BY <1>1, TimesInOrder
<1>3. \A i \in 0..Final(h) : Truncations(h)[i] = SortedTruncation(h, TimeAt(h, i))
  BY DEF Truncations
<1>4. ASSUME NEW i \in 0..Final(h), NEW j \in 0..Final(h), i <= j, Linearizable(Truncations(h)[j])
      PROVE  Linearizable(Truncations(h)[i])
  <2>1. i < j \/ i = j
    BY <1>2, <1>4
  <2>2. TimeAt(h, i) <= TimeAt(h, j) /\ TimeAt(h, i) \in Int /\ TimeAt(h, j) \in Int
    BY <1>2, <2>1
  <2> QED BY <1>3, <1>4, <2>2, EarlierTruncation
<1>5. Truncations(h)[Final(h)] = SortByInvoke(h)
  <2>1. Final(h) \in 0..Final(h)
    BY <1>2
  <2> QED BY <1>2, <1>3, <2>1, PastIsWhole
<1> QED BY <1>1, <1>2, <1>3, <1>4, <1>5, SortSame

-----------------------------------------------------------------------------
(***************************************************************************)
(* The binary search.                                                      *)
(***************************************************************************)
Interval ==
  /\ lo \in Nat /\ hi \in Nat /\ lo <= hi /\ hi <= Final(ops) /\ Final(ops) \in Nat
  /\ scale \in Nat

Outcome ==
  /\ phase \in {"idle", "looking", "found", "gave up"}
  /\ phase = "found" => lo = hi /\ trunc = cuts[lo]
  /\ phase # "found" => trunc = <<>>

Cutting ==
  /\ Settled(ops) /\ cuts = Truncations(ops)
  /\ Interval
  /\ Outcome
  /\ Bracketed

LEMMA HoldingCuts ==
  ASSUME NEW h, Settled(h), NEW at \in {"idle", "looking"}, at = "looking" => ~Linearizable(h),
         Holding(h, at)
  PROVE  Cutting'
<1>1. /\ ops' = h /\ cuts' = Truncations(h) /\ lo' = 0 /\ hi' = Final(h) /\ scale' = 1
      /\ phase' = at /\ trunc' = <<>>
  BY DEF Holding
<1>2. /\ Final(h) \in Nat
      /\ Linearizable(Truncations(h)[Final(h)]) <=> Linearizable(h)
  BY TruncationsJudged
<1>3. Interval'
  BY <1>1, <1>2 DEF Interval
<1>4. Outcome'
  BY <1>1 DEF Outcome
<1>5. Bracketed'
  <2> SUFFICES ASSUME phase' # "idle"
               PROVE  /\ \A i \in 0..(lo' - 1) : Linearizable(cuts'[i])
                      /\ \A i \in hi'..Final(ops') : ~Linearizable(cuts'[i])
                      /\ phase' # "gave up" => (hi' - lo') * scale' <= Final(ops')
    BY DEF Bracketed
  <2>1. ~Linearizable(h)
    BY <1>1
  <2>2. \A i \in 0..(lo' - 1) : FALSE
    BY <1>1
  <2>3. \A i \in hi'..Final(ops') : i = Final(h)
    BY <1>1, <1>2
  <2>4. (hi' - lo') * scale' <= Final(ops')
    BY <1>1, <1>2
  <2> QED BY <1>1, <1>2, <2>1, <2>2, <2>3, <2>4
<1> QED BY <1>1, <1>3, <1>4, <1>5 DEF Cutting

LEMMA Halving ==
  ASSUME NEW a \in Int, NEW b \in Int, NEW d \in Nat, NEW n \in Int, 2 * a <= b, b * d <= n
  PROVE  a * (2 * d) <= n /\ (0 <= a => a * d <= n)
<1>1. a * (2 * d) = (2 * a) * d
  OBVIOUS
<1>2. \A x, y \in Int : x <= y => x * d <= y * d
  OBVIOUS
<1>3. (2 * a) * d <= b * d /\ 2 * a \in Int
  BY <1>2
<1>4. (2 * a) * d <= n
  BY <1>3
<1>5. 0 <= a => a * d <= (2 * a) * d
  <2>1. 0 <= a => a <= 2 * a
    OBVIOUS
  <2> QED BY <1>2, <1>3, <2>1
<1> QED BY <1>1, <1>4, <1>5

LEMMA MiddleIs ==
  ASSUME NEW x \in Nat, NEW y \in Nat, x < y
  PROVE  LET z == (x + y) \div 2
         IN  /\ z \in Nat /\ x <= z /\ z < y
             /\ 2 * (z - x) <= y - x /\ 2 * (y - (z + 1)) <= y - x
OBVIOUS

LEMMA MinimisingCuts ==
  ASSUME Cutting, Minimising
  PROVE  Cutting'
<1>1. /\ Settled(ops) /\ cuts = Truncations(ops) /\ Interval /\ Outcome /\ Bracketed
  BY DEF Cutting
<1>2. /\ \A i, j \in 0..Final(ops) :
              i <= j /\ Linearizable(cuts[j]) => Linearizable(cuts[i])
      /\ Final(ops) \in Nat
  BY <1>1, TruncationsJudged
<1>3. CASE Report
  <2>1. /\ phase = "looking" /\ lo >= hi /\ phase' = "found" /\ trunc' = cuts[lo]
        /\ UNCHANGED <<ops, cuts, lo, hi, scale>>
    BY <1>3 DEF Report
  <2>2. Interval'
    BY <1>1, <2>1 DEF Interval
  <2>3. lo = hi
    BY <1>1, <2>1 DEF Interval
  <2>4. Outcome'
    BY <2>1, <2>3 DEF Outcome
  <2>5. Bracketed'
    BY <1>1, <2>1 DEF Bracketed
  <2> QED BY <1>1, <2>1, <2>2, <2>4, <2>5 DEF Cutting
<1>4. ASSUME NEW v, Probe(v)
      PROVE  /\ phase = "looking" /\ lo < hi
             /\ v = "not linearizable" => ~Linearizable(cuts[Mid])
             /\ v = "linearizable" => Linearizable(cuts[Mid])
             /\ scale' = scale \/ scale' = 2 * scale
             /\ UNCHANGED <<ops, cuts, trunc>>
             /\ Mid \in Nat /\ lo <= Mid /\ Mid < hi
             /\ 2 * (Mid - lo) <= hi - lo /\ 2 * (hi - (Mid + 1)) <= hi - lo
  <2>1. /\ phase = "looking" /\ lo < hi /\ v \in VerdictsOn(cuts[Mid])
        /\ scale' = (IF scale < ScaleCap THEN 2 * scale ELSE scale)
        /\ UNCHANGED <<ops, cuts, trunc>>
    BY <1>4 DEF Probe
  <2>2. v = "not linearizable" => ~Linearizable(cuts[Mid])
    BY <2>1 DEF VerdictsOn, Exact
  <2>3. v = "linearizable" => Linearizable(cuts[Mid])
    BY <2>1 DEF VerdictsOn, Exact
  <2>4. lo \in Nat /\ hi \in Nat
    BY <1>1 DEF Interval
  <2>5. /\ Mid \in Nat /\ lo <= Mid /\ Mid < hi
        /\ 2 * (Mid - lo) <= hi - lo /\ 2 * (hi - (Mid + 1)) <= hi - lo
    BY <2>1, <2>4, MiddleIs DEF Mid
  <2> QED BY <2>1, <2>2, <2>3, <2>5
<1>5. /\ lo \in Nat /\ hi \in Nat /\ lo <= hi /\ hi <= Final(ops) /\ scale \in Nat
  BY <1>1 DEF Interval
<1>6. phase = "looking" =>
        /\ \A i \in 0..(lo - 1) : Linearizable(cuts[i])
        /\ \A i \in hi..Final(ops) : ~Linearizable(cuts[i])
        /\ (hi - lo) * scale <= Final(ops)
  BY <1>1 DEF Bracketed
<1>7. CASE Fails
  <2> DEFINE z == Mid
  <2>1. /\ phase = "looking" /\ phase' = "looking" /\ hi' = z /\ lo' = lo /\ ~Linearizable(cuts[z])
        /\ scale' = scale \/ scale' = 2 * scale
        /\ ops' = ops /\ cuts' = cuts /\ trunc' = trunc
        /\ z \in Nat /\ lo <= z /\ z < hi /\ 2 * (z - lo) <= hi - lo
    BY <1>4, <1>7 DEF Fails
  <2> HIDE DEF z
  <2>2. Interval'
    <3>1. scale' \in Nat
      BY <1>5, <2>1
    <3> QED BY <1>2, <1>5, <2>1, <3>1 DEF Interval
  <2>3. Outcome'
    BY <1>1, <2>1 DEF Outcome
  <2>4. \A i \in z..Final(ops) : ~Linearizable(cuts[i])
    <3> TAKE i \in z..Final(ops)
    <3>1. i \in 0..Final(ops) /\ z \in 0..Final(ops) /\ z <= i
      BY <1>2, <1>5, <2>1
    <3> QED BY <1>2, <2>1, <3>1
  <2>5. (z - lo) * scale' <= Final(ops)
    <3>1. (z - lo) * (2 * scale) <= Final(ops) /\ (z - lo) * scale <= Final(ops)
      <4>1. z - lo \in Int /\ hi - lo \in Int /\ 0 <= z - lo /\ Final(ops) \in Int
        BY <1>2, <1>5, <2>1
      <4>2. (hi - lo) * scale <= Final(ops) /\ 2 * (z - lo) <= hi - lo
        BY <1>6, <2>1
      <4> QED BY <1>5, <4>1, <4>2, Halving
    <3> QED BY <2>1, <3>1
  <2>6. Bracketed'
    BY <1>6, <2>1, <2>4, <2>5 DEF Bracketed
  <2> QED BY <1>1, <2>1, <2>2, <2>3, <2>6 DEF Cutting
<1>8. CASE Passes
  <2> DEFINE z == Mid
  <2>1. /\ phase = "looking" /\ phase' = "looking" /\ lo' = z + 1 /\ hi' = hi /\ Linearizable(cuts[z])
        /\ scale' = scale \/ scale' = 2 * scale
        /\ ops' = ops /\ cuts' = cuts /\ trunc' = trunc
        /\ z \in Nat /\ lo <= z /\ z < hi /\ 2 * (hi - (z + 1)) <= hi - lo
    BY <1>4, <1>8 DEF Passes, Above
  <2> HIDE DEF z
  <2>2. Interval'
    <3>1. scale' \in Nat
      BY <1>5, <2>1
    <3> QED BY <1>2, <1>5, <2>1, <3>1 DEF Interval
  <2>3. Outcome'
    BY <1>1, <2>1 DEF Outcome
  <2>4. \A i \in 0..((z + 1) - 1) : Linearizable(cuts[i])
    <3> TAKE i \in 0..((z + 1) - 1)
    <3>1. i \in 0..Final(ops) /\ z \in 0..Final(ops) /\ i <= z
      BY <1>2, <1>5, <2>1
    <3> QED BY <1>2, <2>1, <3>1
  <2>5. (hi - (z + 1)) * scale' <= Final(ops)
    <3>1. (hi - (z + 1)) * (2 * scale) <= Final(ops) /\ (hi - (z + 1)) * scale <= Final(ops)
      <4>1. hi - (z + 1) \in Int /\ hi - lo \in Int /\ 0 <= hi - (z + 1) /\ Final(ops) \in Int
        BY <1>2, <1>5, <2>1
      <4>2. (hi - lo) * scale <= Final(ops) /\ 2 * (hi - (z + 1)) <= hi - lo
        BY <1>6, <2>1
      <4> QED BY <1>5, <4>1, <4>2, Halving
    <3> QED BY <2>1, <3>1
  <2>6. Bracketed'
    BY <1>6, <2>1, <2>4, <2>5 DEF Bracketed
  <2> QED BY <1>1, <2>1, <2>2, <2>3, <2>6 DEF Cutting
<1>9. CASE Undecided
  <2>1. /\ phase = "looking" /\ phase' = "gave up" /\ lo' = lo /\ hi' = hi
        /\ scale' = scale \/ scale' = 2 * scale
        /\ ops' = ops /\ cuts' = cuts /\ trunc' = trunc
    BY <1>4, <1>9 DEF Undecided
  <2>2. Interval'
    <3>1. scale' \in Nat
      <4>1. scale \in Nat /\ (scale' = scale \/ scale' = 2 * scale)
        BY <1>5, <2>1, Zenon
      <4> QED BY <4>1
    <3> QED BY <1>2, <1>5, <2>1, <3>1 DEF Interval
  <2>3. Outcome'
    BY <1>1, <2>1 DEF Outcome
  <2>4. Bracketed'
    BY <1>6, <2>1 DEF Bracketed
  <2> QED BY <1>1, <2>1, <2>2, <2>3, <2>4 DEF Cutting
<1> QED BY <1>3, <1>7, <1>8, <1>9 DEF Minimising

LEMMA StillCuts ==
  ASSUME Cutting, UNCHANGED vars
  PROVE  Cutting'
BY DEF Cutting, Interval, Outcome, Bracketed, vars

-----------------------------------------------------------------------------
(***************************************************************************)
(* A file and what is read from it.                                        *)
(***************************************************************************)
LEMMA GivenIs ==
  ASSUME NEW d
  PROVE  /\ Given({}, d) = d
         /\ \A x : Given({x}, d) = x
         /\ \A X : \A F \in SUBSET X : d \in X => Given(F, d) \in X
<1>1. Given({}, d) = d
  BY DEF Given
<1>2. ASSUME NEW x PROVE Given({x}, d) = x
  BY DEF Given
<1>3. ASSUME NEW X, NEW F \in SUBSET X, d \in X PROVE Given(F, d) \in X
  <2>1. CASE F = {}
    BY <1>3, <2>1 DEF Given
  <2>2. CASE F # {}
    <3>1. (CHOOSE x \in F : TRUE) \in F
      BY <2>2
    <3> QED BY <2>2, <3>1 DEF Given
  <2> QED BY <2>1, <2>2
<1> QED BY <1>1, <1>2, <1>3

LEMMA GarbageIsALine == Garbage \in Line
BY DEF Line

LEMMA LineReads ==
  ASSUME NEW line \in Line, Parses(line)
  PROVE  ToOp(line) \in Operation /\ ToOp(line).complete <= Pending
<1>1. /\ line.process \in SUBSET Int /\ line.key \in STRING
      /\ line.value \in SUBSET Int /\ line.from \in SUBSET Int /\ line.to \in SUBSET Int
      /\ line.observed \in SUBSET Int /\ line.swapped \in SUBSET BOOLEAN
      /\ line.invoke \in SUBSET Int /\ line.complete \in SUBSET {t \in Int : t <= Pending}
  <2>1. line # Garbage
    <3>1. Garbage.kind = "" /\ "" \notin Kinds
      BY DEF Garbage, Kinds
    <3>2. line.kind \in Kinds
      BY DEF Parses
    <3> QED BY <3>1, <3>2
  <2> QED BY <2>1 DEF Line
<1>2. line.kind \in Kinds /\ line.outcome \in Outcomes
  BY DEF Parses
<1>3. /\ Given(line.process, 0) \in Int /\ Given(line.value, 0) \in Int /\ Given(line.from, 0) \in Int
      /\ Given(line.to, 0) \in Int /\ Given(line.observed, 0) \in Int /\ Given(line.invoke, 0) \in Int
  <2>1. 0 \in Int
    OBVIOUS
  <2> QED BY <1>1, <2>1, GivenIs
<1>4. Given(line.swapped, FALSE) \in BOOLEAN
  <2>1. FALSE \in BOOLEAN
    OBVIOUS
  <2> QED BY <1>1, <2>1, GivenIs
<1>5. Given(line.complete, Pending) \in {t \in Int : t <= Pending}
  <2> DEFINE X == {t \in Int : t <= Pending}
  <2>1. Pending \in X
    BY PendingAssumption
  <2> HIDE DEF X
  <2>2. line.complete \in SUBSET X
    BY <1>1 DEF X
  <2>3. Given(line.complete, Pending) \in X
    BY <2>1, <2>2, GivenIs
  <2> QED BY <2>3 DEF X
<1>6. ToOp(line) \in Operation
  BY <1>1, <1>2, <1>3, <1>4, <1>5 DEF ToOp, Operation
<1>7. ToOp(line).complete = Given(line.complete, Pending)
  BY DEF ToOp
<1> QED BY <1>5, <1>6, <1>7

(* One operation that is written and read back.                            *)
LEMMA WrittenReads ==
  ASSUME NEW op \in Operation, op.complete <= Pending, op.complete = Pending <=> op.outcome = "info"
  PROVE  /\ ToWire(op) \in Line /\ Parses(ToWire(op))
         /\ Same(ToOp(ToWire(op)), op)
<1> DEFINE line == ToWire(op)
           back == ToOp(line)
<1>1. /\ op.process \in Int /\ op.key \in STRING /\ op.kind \in Kinds /\ op.value \in Int
      /\ op.from \in Int /\ op.to \in Int /\ op.observed \in Int /\ op.swapped \in BOOLEAN
      /\ op.outcome \in Outcomes /\ op.invoke \in Int /\ op.complete \in Int
  BY DEF Operation
<1>3. /\ line.process = {op.process} /\ line.key = op.key /\ line.kind = op.kind
      /\ line.outcome = op.outcome /\ line.invoke = {op.invoke}
      /\ line.value = Optional(op.kind = "write", op.value)
      /\ line.from = Optional(op.kind = "cas", op.from)
      /\ line.to = Optional(op.kind = "cas", op.to)
      /\ line.observed = Optional(op.kind = "read" /\ op.outcome = "ok", op.observed)
      /\ line.swapped = Optional(op.kind = "cas" /\ op.outcome = "ok", op.swapped)
      /\ line.complete = Optional(op.outcome # "info", op.complete)
  BY DEF ToWire
<1>4. line \in Line
  <2>1. /\ Optional(op.kind = "write", op.value) \in SUBSET Int
        /\ Optional(op.kind = "cas", op.from) \in SUBSET Int
        /\ Optional(op.kind = "cas", op.to) \in SUBSET Int
        /\ Optional(op.kind = "read" /\ op.outcome = "ok", op.observed) \in SUBSET Int
        /\ Optional(op.kind = "cas" /\ op.outcome = "ok", op.swapped) \in SUBSET BOOLEAN
        /\ Optional(op.outcome # "info", op.complete) \in SUBSET {t \in Int : t <= Pending}
    BY <1>1 DEF Optional
  <2>2. {op.process} \in SUBSET Int /\ {op.invoke} \in SUBSET Int
    BY <1>1
  <2> QED BY <1>1, <2>1, <2>2 DEF ToWire, Line
<1> HIDE DEF line
<1>5. Parses(line)
  <2>1. ~Lacks(line)
    BY <1>3 DEF Lacks, Optional
  <2>2. line.outcome # "info" => line.complete # {}
    BY <1>3 DEF Optional
  <2> QED BY <1>1, <1>3, <2>1, <2>2 DEF Parses
<1>6. /\ back.process = Given(line.process, 0) /\ back.invoke = Given(line.invoke, 0)
      /\ back.value = Given(line.value, 0) /\ back.from = Given(line.from, 0)
      /\ back.to = Given(line.to, 0) /\ back.observed = Given(line.observed, 0)
      /\ back.swapped = Given(line.swapped, FALSE) /\ back.complete = Given(line.complete, Pending)
      /\ back.key = op.key /\ back.kind = op.kind /\ back.outcome = op.outcome
  BY <1>3 DEF ToOp
<1> HIDE DEF back
<1>13. \A x, d : Given({x}, d) = x
  BY GivenIs
<1>14. Given({}, Pending) = Pending
  BY GivenIs
<1>7. back.complete = op.complete
  <2>1. CASE op.outcome = "info"
    <3>1. line.complete = {}
      BY <1>3, <2>1 DEF Optional
    <3> QED BY <1>6, <1>14, <2>1, <3>1
  <2>2. CASE op.outcome # "info"
    <3>1. line.complete = {op.complete}
      BY <1>3, <2>2 DEF Optional
    <3> QED BY <1>6, <1>13, <3>1
  <2> QED BY <2>1, <2>2
<1>8. op.kind = "write" => back.value = op.value
  <2>1. op.kind = "write" => line.value = {op.value}
    BY <1>3 DEF Optional
  <2> QED BY <1>6, <1>13, <2>1
<1>9. op.kind = "cas" => back.from = op.from /\ back.to = op.to
  <2>1. op.kind = "cas" => line.from = {op.from} /\ line.to = {op.to}
    BY <1>3 DEF Optional
  <2> QED BY <1>6, <1>13, <2>1
<1>10. op.kind = "read" /\ op.outcome = "ok" => back.observed = op.observed
  <2>1. op.kind = "read" /\ op.outcome = "ok" => line.observed = {op.observed}
    BY <1>3 DEF Optional
  <2> QED BY <1>6, <1>13, <2>1
<1>11. op.kind = "cas" /\ op.outcome = "ok" => back.swapped = op.swapped
  <2>1. op.kind = "cas" /\ op.outcome = "ok" => line.swapped = {op.swapped}
    BY <1>3 DEF Optional
  <2> QED BY <1>6, <1>13, <2>1
<1>15. back.process = op.process /\ back.invoke = op.invoke
  <2>1. back.process = Given({op.process}, 0) /\ back.invoke = Given({op.invoke}, 0)
    BY <1>3, <1>6
  <2> QED BY <1>13, <2>1
<1>12. Same(back, op)
  BY <1>6, <1>7, <1>8, <1>9, <1>10, <1>11, <1>15 DEF Same, Alike
<1> QED BY <1>4, <1>5, <1>12 DEF line, back

(* A whole history, saved and loaded.                                      *)
LEMMA SavedReads ==
  ASSUME NEW L, Settled(L), NEW w, NEW P, Shows(L, w, P)
  PROVE  /\ Save(L) \in Seq(Line) /\ Loads(Save(L))
         /\ Shows(Load(Save(L)), w, P)
<1> DEFINE n == Len(L)
           G == SortByInvoke(L)
           V == Save(L)
           B == Load(V)
<1>1. /\ L \in Seq(Operation) /\ List(L, n) /\ DOMAIN L = 1..n /\ n \in Nat
  BY OperationsTimed DEF Settled, List
<1>2. G \in Seq(Operation) /\ DOMAIN G = 1..n /\ \A i \in 1..n : \E j \in 1..n : G[i] = L[j]
  <2>1. /\ G \in Seq(Operation) /\ DOMAIN G = DOMAIN L
        /\ \A i \in DOMAIN L : \E j \in DOMAIN L : G[i] = L[j]
    BY <1>1, SortTyped
  <2> HIDE DEF G, n
  <2> QED BY <1>1, <2>1
<1>3. \A i \in 1..n : G[i].complete <= Pending /\ (G[i].complete = Pending <=> G[i].outcome = "info")
  <2>1. \A j \in 1..n : L[j].complete <= Pending /\ (L[j].complete = Pending <=> L[j].outcome = "info")
    BY <1>1 DEF Settled
  <2> HIDE DEF G, n
  <2> QED BY <1>2, <2>1
<1>4. \A i \in 1..n : G[i] \in Operation
  BY <1>2, SeqList
<1>5. V = [i \in 1..n |-> ToWire(G[i])]
  BY <1>1 DEF Save
<1>6. Shows(G, w, P)
  BY <1>1, OperationsTimed, SortShows
<1> HIDE DEF G, V
<1>7. DOMAIN V = 1..n /\ \A i \in 1..n : V[i] = ToWire(G[i]) /\ V[i] \in Line /\ Parses(V[i]) /\ Same(ToOp(V[i]), G[i])
  <2>1. DOMAIN V = 1..n /\ \A i \in 1..n : V[i] = ToWire(G[i])
    BY <1>5
  <2>2. ASSUME NEW i \in 1..n PROVE V[i] \in Line /\ Parses(V[i]) /\ Same(ToOp(V[i]), G[i])
    BY <1>3, <1>4, <2>1, WrittenReads
  <2> QED BY <2>1, <2>2
<1>8. V \in Seq(Line) /\ List(V, n)
  <2>1. V = [i \in 1..n |-> V[i]]
    BY <1>5
  <2> QED BY <1>1, <1>7, <2>1, MadeList
<1>9. Loads(V)
  BY <1>7 DEF Loads
<1>10. B = [i \in 1..n |-> ToOp(V[i])]
  BY <1>7 DEF Load
<1> HIDE DEF B
<1>11. List(B, n) /\ \A i \in 1..n : B[i] = ToOp(V[i])
  <2> DEFINE X == {ToOp(V[i]) : i \in 1..n}
  <2>1. DOMAIN B = 1..n /\ B = [i \in 1..n |-> B[i]] /\ \A i \in 1..n : B[i] = ToOp(V[i]) /\ B[i] \in X
    BY <1>10
  <2> HIDE DEF X
  <2>2. List(B, n)
    BY <1>1, <2>1, MadeList
  <2> QED BY <2>1, <2>2
<1>12. PICK m, f : ShownBy(G, m, w, P, f)
  BY <1>6 DEF Shows
<1>13. m = n
  <2>1. List(G, m) /\ List(G, n)
    BY <1>2, <1>12, SeqList DEF ShownBy, List
  <2> QED BY <2>1 DEF List
<1>14. \A i \in 1..m : Same(B[i], w[f[i]])
  <2> TAKE i \in 1..m
  <2>1. Same(B[i], G[i])
    BY <1>7, <1>11, <1>13
  <2>2. Same(G[i], w[f[i]])
    BY <1>12 DEF ShownBy
  <2> QED BY <2>1, <2>2, SameTwice
<1>15. ShownBy(B, m, w, P, f)
  BY <1>11, <1>12, <1>13, <1>14 DEF ShownBy
<1>16. Shows(B, w, P)
  BY <1>15 DEF Shows
<1> QED BY <1>8, <1>9, <1>16 DEF V, B

LEMMA LoadTyped ==
  ASSUME NEW lines \in Seq(Line), Loads(lines)
  PROVE  Load(lines) \in Seq(Operation) /\ \A i \in DOMAIN Load(lines) : Load(lines)[i].complete <= Pending
<1> DEFINE n == Len(lines)
           B == Load(lines)
<1>1. List(lines, n) /\ n \in Nat /\ DOMAIN lines = 1..n /\ \A i \in 1..n : lines[i] \in Line
  BY SeqList DEF List
<1>2. \A i \in 1..n : Parses(lines[i])
  BY <1>1 DEF Loads
<1>3. B = [i \in 1..n |-> ToOp(lines[i])]
  BY <1>1 DEF Load
<1> HIDE DEF B
<1>4. \A i \in 1..n : B[i] = ToOp(lines[i]) /\ B[i] \in Operation /\ B[i].complete <= Pending
  BY <1>1, <1>2, <1>3, LineReads
<1>5. B \in Seq(Operation) /\ DOMAIN B = 1..n
  <2>1. DOMAIN B = 1..n /\ B = [i \in 1..n |-> B[i]]
    BY <1>3
  <2> QED BY <1>1, <1>4, <2>1, MadeList
<1> QED BY <1>4, <1>5 DEF B

LEMMA ValidIsSettled ==
  ASSUME NEW h \in Seq(Operation), Validate(h), \A i \in DOMAIN h : h[i].complete <= Pending
  PROVE  Settled(h)
BY DEF Settled, Validate, ValidOp

(* What can be read, and passes for a history, is one.                     *)
LEMMA ReadIsSettled ==
  ASSUME NEW lines \in Seq(Line), Loads(lines), Validate(Load(lines))
  PROVE  Settled(Load(lines))
BY LoadTyped, ValidIsSettled

LEMMA DropSettled ==
  ASSUME NEW h, Settled(h)
  PROVE  Settled(DropFailed(h))
<1> DEFINE D == DropFailed(h)
<1>1. h \in Seq(Operation) /\ List(h, Len(h)) /\ DOMAIN h = 1..Len(h) /\ \A i \in DOMAIN h : h[i] \in Operation
  BY OperationsTimed DEF Settled, List
<1>2. Shows(h, h, 1..Len(h))
  BY <1>1, ShowsItself
<1>3. /\ \E m, f : ShownBy(D, m, h, {a \in 1..Len(h) : h[a].outcome # "fail"}, f)
      /\ \A i \in DOMAIN D : \E j \in DOMAIN h : D[i] = h[j]
  BY <1>2, DropShows DEF Shows
<1>4. D = [k \in DOMAIN D |-> D[k]]
  BY DEF DropFailed, Kept
<1> HIDE DEF D
<1>5. PICK m : List(D, m)
  BY <1>3 DEF ShownBy
<1>6. D \in Seq(Operation)
  <2>1. m \in Nat /\ DOMAIN D = 1..m /\ \A k \in 1..m : D[k] \in Operation
    BY <1>1, <1>3, <1>5 DEF List
  <2> QED BY <1>4, <2>1, MadeList
<1>7. Settled(D)
  BY <1>3, <1>6 DEF Settled
<1> QED BY <1>7 DEF D

LEMMA TruncationSettled ==
  ASSUME NEW h, Settled(h), NEW t \in Int
  PROVE  Settled(SortedTruncation(h, t))
<1> DEFINE D == TruncateAt(h, t)
           K == Kept(h, {i \in DOMAIN h : h[i].invoke < t})
<1>1. h \in Seq(Operation) /\ List(h, Len(h)) /\ DOMAIN h = 1..Len(h) /\ \A i \in DOMAIN h : h[i] \in Operation
  BY OperationsTimed DEF Settled, List
<1>2. Shows(h, h, DOMAIN h)
  BY <1>1, ShowsItself
<1>3. D \in Seq(Operation)
  BY <1>1, <1>2, TruncateShows
<1>4. PICK m, f : ShownBy(h, m, h, DOMAIN h, f)
  BY <1>2 DEF Shows
<1>5. \A i \in DOMAIN K : \E j \in DOMAIN h : K[i] = h[j]
  <2> DEFINE S == {i \in DOMAIN h : h[i].invoke < t}
             P == DOMAIN h
             T == {a \in P : h[a].invoke < t}
  <2>1. S \in SUBSET DOMAIN h /\ T \in SUBSET P
    OBVIOUS
  <2>2. \A i \in 1..m : i \in S <=> f[i] \in T
    <3> TAKE i \in 1..m
    <3>1. i \in DOMAIN h /\ f[i] \in P /\ h[i].invoke = h[f[i]].invoke
      BY <1>4 DEF ShownBy, List, Same, Alike
    <3> QED BY <3>1
  <2>3. ShownBy(h, m, h, P, f)
    BY <1>4
  <2> HIDE DEF S, P, T
  <2>4. \A i \in DOMAIN Kept(h, S) : \E j \in S : Kept(h, S)[i] = h[j]
    <3>1. /\ Shows(Kept(h, S), h, T)
          /\ \A i \in DOMAIN Kept(h, S) : \E j \in S : Kept(h, S)[i] = h[j]
      BY <2>1, <2>2, <2>3, KeptShows
    <3> QED BY <3>1
  <2> QED BY <2>1, <2>4 DEF S
<1>6. D = [i \in DOMAIN K |-> AsOf(K[i], t)]
  BY DEF TruncateAt
<1> HIDE DEF D, K
<1>7. \A i \in DOMAIN D : \E j \in DOMAIN h : D[i] = AsOf(h[j], t)
  BY <1>5, <1>6
<1>8. \A j \in DOMAIN h : /\ AsOf(h[j], t).complete <= Pending
                          /\ AsOf(h[j], t).complete = Pending <=> AsOf(h[j], t).outcome = "info"
  <2> TAKE j \in DOMAIN h
  <2>1. h[j] \in Operation /\ h[j].complete \in Int /\ h[j].complete <= Pending
    BY <1>1 DEF Operation, Settled
  <2>2. CASE h[j].complete >= t
    <3>1. AsOf(h[j], t).complete = Pending /\ AsOf(h[j], t).outcome = "info"
      BY <2>1, <2>2, AsOfIs
    <3> QED BY <3>1, PendingAssumption
  <2>3. CASE h[j].complete < t
    <3>1. AsOf(h[j], t) = h[j]
      BY <2>1, <2>3, AsOfIs
    <3> QED BY <3>1 DEF Settled
  <2> QED BY <2>1, <2>2, <2>3
<1>9. /\ SortByInvoke(D) \in Seq(Operation) /\ DOMAIN SortByInvoke(D) = DOMAIN D
      /\ \A i \in DOMAIN D : \E j \in DOMAIN D : SortByInvoke(D)[i] = D[j]
  BY <1>3, SortTyped
<1>10. \A i \in DOMAIN SortByInvoke(D) : \E j \in DOMAIN h : SortByInvoke(D)[i] = AsOf(h[j], t)
  BY <1>7, <1>9
<1>11. Settled(SortByInvoke(D))
  BY <1>8, <1>9, <1>10 DEF Settled
<1> QED BY <1>11 DEF D, SortedTruncation

-----------------------------------------------------------------------------
(***************************************************************************)
(* One key's operations, and the verdict on all the keys.                  *)
(***************************************************************************)
LEMMA KeyShows ==
  ASSUME NEW L, NEW w, NEW P, Shows(L, w, P), NEW key
  PROVE  /\ Shows(ByKey(L, key), w, {a \in P : w[a].key = key})
         /\ \A i \in DOMAIN ByKey(L, key) : \E j \in DOMAIN L : ByKey(L, key)[i] = L[j]
<1>1. PICK m, f : ShownBy(L, m, w, P, f)
  BY DEF Shows
<1> DEFINE S == {i \in DOMAIN L : L[i].key = key}
           T == {a \in P : w[a].key = key}
<1>2. S \in SUBSET DOMAIN L /\ T \in SUBSET P
  OBVIOUS
<1>3. ASSUME NEW i \in 1..m PROVE i \in S <=> f[i] \in T
  <2>1. i \in DOMAIN L /\ f[i] \in P /\ L[i].key = w[f[i]].key
    BY <1>1 DEF ShownBy, List, Same
  <2> QED BY <2>1
<1>4. ByKey(L, key) = Kept(L, S)
  BY DEF ByKey
<1> HIDE DEF S
<1>5. /\ Shows(Kept(L, S), w, T)
      /\ \A i \in DOMAIN Kept(L, S) : \E j \in S : Kept(L, S)[i] = L[j]
  <2> HIDE DEF T
  <2> QED BY <1>1, <1>2, <1>3, KeptShows
<1> QED BY <1>2, <1>4, <1>5

LEMMA KeysShown ==
  ASSUME NEW L, NEW w, NEW P, Shows(L, w, P)
  PROVE  Keys(L) = {w[a].key : a \in P}
<1>1. PICK m, f : ShownBy(L, m, w, P, f)
  BY DEF Shows
<1>2. /\ DOMAIN L = 1..m
      /\ \A i \in 1..m : f[i] \in P /\ L[i].key = w[f[i]].key
      /\ \A a \in P : \E i \in 1..m : f[i] = a
  BY <1>1 DEF ShownBy, List, Same
<1>3. ASSUME NEW i \in DOMAIN L PROVE \E a \in P : L[i].key = w[a].key
  BY <1>2
<1>4. ASSUME NEW a \in P PROVE \E i \in DOMAIN L : w[a].key = L[i].key
  <2>1. PICK i \in 1..m : f[i] = a
    BY <1>2
  <2> QED BY <1>2, <2>1
<1> QED BY <1>3, <1>4 DEF Keys

LEMMA KeySettled ==
  ASSUME NEW h, Settled(h), NEW key
  PROVE  Settled(ByKey(h, key))
<1> DEFINE D == ByKey(h, key)
<1>1. h \in Seq(Operation) /\ List(h, Len(h)) /\ DOMAIN h = 1..Len(h) /\ \A i \in DOMAIN h : h[i] \in Operation
  BY OperationsTimed DEF Settled, List
<1>2. Shows(h, h, 1..Len(h))
  BY <1>1, ShowsItself
<1>3. /\ \E m, f : ShownBy(D, m, h, {a \in 1..Len(h) : h[a].key = key}, f)
      /\ \A i \in DOMAIN D : \E j \in DOMAIN h : D[i] = h[j]
  <2> DEFINE P == 1..Len(h)
  <2>2. Shows(h, h, P)
    BY <1>2
  <2> HIDE DEF P
  <2>3. /\ Shows(D, h, {a \in P : h[a].key = key})
        /\ \A i \in DOMAIN D : \E j \in DOMAIN h : D[i] = h[j]
    BY <2>2, KeyShows DEF D
  <2>1. /\ Shows(D, h, {a \in 1..Len(h) : h[a].key = key})
        /\ \A i \in DOMAIN D : \E j \in DOMAIN h : D[i] = h[j]
    BY <2>3 DEF P
  <2> HIDE DEF D
  <2> QED BY <2>1 DEF Shows
<1>4. D = [k \in DOMAIN D |-> D[k]]
  BY DEF ByKey, Kept
<1> HIDE DEF D
<1>5. PICK m : List(D, m)
  BY <1>3 DEF ShownBy
<1>6. D \in Seq(Operation)
  <2>1. m \in Nat /\ DOMAIN D = 1..m /\ \A k \in 1..m : D[k] \in Operation
    BY <1>1, <1>3, <1>5 DEF List
  <2> QED BY <1>4, <2>1, MadeList
<1>7. Settled(D)
  BY <1>3, <1>6 DEF Settled
<1> QED BY <1>7 DEF D

LEMMA SortSettled ==
  ASSUME NEW h, Settled(h)
  PROVE  Settled(SortByInvoke(h))
<1>1. /\ SortByInvoke(h) \in Seq(Operation) /\ DOMAIN SortByInvoke(h) = DOMAIN h
      /\ \A i \in DOMAIN h : \E j \in DOMAIN h : SortByInvoke(h)[i] = h[j]
  BY SortTyped DEF Settled
<1> QED BY <1>1 DEF Settled

(* What is left of one key: the slice that is searched and cut down.       *)
LEMMA SliceIs ==
  ASSUME NEW h, Settled(h), NEW key
  PROVE  /\ Settled(ByKey(DropFailed(h), key)) /\ Settled(Slice(h, key))
         /\ Linearizable(Slice(h, key)) <=> Linearizable(ByKey(DropFailed(h), key))
<1>1. Settled(ByKey(DropFailed(h), key))
  BY DropSettled, KeySettled
<1> QED BY <1>1, SortSettled, SortSame DEF Slice, Settled

Left(w, P, key) == {a \in P : w[a].outcome # "fail" /\ w[a].key = key}

LEMMA SliceShows ==
  ASSUME NEW h, Settled(h), NEW w, NEW P, Shows(h, w, P), NEW key
  PROVE  Shows(Slice(h, key), w, Left(w, P, key))
<1> DEFINE T == {a \in P : w[a].outcome # "fail"}
<1>1. Shows(DropFailed(h), w, T)
  BY DropShows
<1>2. {a \in T : w[a].key = key} = Left(w, P, key)
  BY DEF Left
<1> HIDE DEF T
<1>3. Shows(ByKey(DropFailed(h), key), w, {a \in T : w[a].key = key})
  BY <1>1, KeyShows
<1>4. Timed(ByKey(DropFailed(h), key))
  BY SliceIs, OperationsTimed DEF Settled
<1> QED BY <1>2, <1>3, <1>4, SortShows DEF Slice

LEMMA NothingLinearizes ==
  ASSUME NEW L, NEW w, Shows(L, w, {})
  PROVE  Linearizable(L)
<1> DEFINE q == [i \in 1..0 |-> 0]
           c == [i \in 1..1 |-> InitialValue]
<1>1. q \in [1..0 -> {}] /\ c[1] = InitialValue
  OBVIOUS
<1> HIDE DEF q, c
<1>2. Chain(w, 0, q, c)
  BY <1>1 DEF Chain
<1>3. TakenBy(w, {}, 0, q, c)
  BY <1>1, <1>2 DEF TakenBy
<1>4. Takes(w, {})
  BY <1>3 DEF Takes
<1> QED BY <1>4, ShowsTakes

(* Two histories that show the same operations are judged alike.           *)
LEMMA ExactShown ==
  ASSUME NEW L, NEW M, NEW w, NEW P, Shows(L, w, P), Shows(M, w, P)
  PROVE  ExactlyAll(L) = ExactlyAll(M)
<1> DEFINE T == {a \in P : w[a].outcome # "fail"}
<1>1. Shows(DropFailed(L), w, T) /\ Shows(DropFailed(M), w, T)
  BY DropShows
<1> HIDE DEF T
<1>2. Keys(DropFailed(L)) = Keys(DropFailed(M))
  <2> DEFINE K == {w[a].key : a \in T}
             A == DropFailed(L)
             C == DropFailed(M)
  <2>1. Shows(A, w, T) /\ Shows(C, w, T)
    BY <1>1
  <2> HIDE DEF A, C
  <2>2. Keys(A) = K /\ Keys(C) = K
    BY <2>1, KeysShown
  <2> HIDE DEF K
  <2>3. Keys(A) = Keys(C)
    BY <2>2
  <2> QED BY <2>3 DEF A, C
<1>3. ASSUME NEW key
      PROVE  Linearizable(ByKey(DropFailed(L), key)) <=> Linearizable(ByKey(DropFailed(M), key))
  <2> DEFINE U == {a \in T : w[a].key = key}
  <2>1. Shows(ByKey(DropFailed(L), key), w, U) /\ Shows(ByKey(DropFailed(M), key), w, U)
    BY <1>1, KeyShows
  <2> HIDE DEF U
  <2> QED BY <2>1, ShowsTakes
<1> QED BY <1>2, <1>3 DEF ExactlyAll

(* Whatever the searches of the keys come to, Check concludes the truth or *)
(* nothing, and the key it reports is a violation.                         *)
LEMMA ConclusionIs ==
  ASSUME NEW h, Settled(h), NEW judged \in Judgements(h)
  PROVE  /\ DOMAIN judged = Keys(DropFailed(h))
         /\ Worst(judged) \in {ExactlyAll(h), "unknown"}
         /\ \A k \in Having(judged, "not linearizable") : ~Linearizable(Slice(h, k))
<1> DEFINE keys == Keys(DropFailed(h))
<1>1. /\ judged \in [keys -> Verdicts] /\ DOMAIN judged = keys
      /\ \A k \in keys : judged[k] \in VerdictsOn(Slice(h, k))
  BY DEF Judgements
<1> HIDE DEF keys
<1>2. \A k \in keys : judged[k] = "unknown" \/ judged[k] = Exact(Slice(h, k))
  BY <1>1 DEF VerdictsOn
<1>3. \A k \in Having(judged, "not linearizable") : k \in keys /\ ~Linearizable(Slice(h, k))
  BY <1>1, <1>2 DEF Having, Exact
<1>4. CASE Having(judged, "not linearizable") # {}
  <2>1. PICK k \in Having(judged, "not linearizable") : TRUE
    BY <1>4
  <2>2. k \in keys /\ ~Linearizable(ByKey(DropFailed(h), k))
    BY <1>3, SliceIs
  <2>3. ExactlyAll(h) = "not linearizable"
    BY <2>2 DEF ExactlyAll, keys
  <2>4. Worst(judged) = "not linearizable"
    BY <1>4 DEF Worst
  <2> QED BY <1>1, <1>3, <2>3, <2>4 DEF keys
<1>5. CASE Having(judged, "not linearizable") = {} /\ Having(judged, "unknown") # {}
  <2>1. Worst(judged) = "unknown"
    BY <1>5 DEF Worst
  <2> QED BY <1>1, <1>3, <2>1 DEF keys
<1>6. CASE Having(judged, "not linearizable") = {} /\ Having(judged, "unknown") = {}
  <2>1. Worst(judged) = "linearizable"
    BY <1>6 DEF Worst
  <2>2. ASSUME NEW k \in keys PROVE Linearizable(ByKey(DropFailed(h), k))
    <3>1. judged[k] # "not linearizable" /\ judged[k] # "unknown"
      BY <1>1, <1>6 DEF Having
    <3>2. Linearizable(Slice(h, k))
      BY <1>2, <3>1 DEF Exact
    <3> QED BY <3>2, SliceIs
  <2>3. ExactlyAll(h) = "linearizable"
    BY <2>2 DEF ExactlyAll, keys
  <2> QED BY <1>1, <1>3, <2>1, <2>3 DEF keys
<1> QED BY <1>4, <1>5, <1>6

-----------------------------------------------------------------------------
(***************************************************************************)
(* Validity, whatever the layout.                                          *)
(***************************************************************************)
Answered(o, p) == o.outcome # "info" /\ o.complete <= p.invoke

Ahead(o, p) == o.invoke < p.invoke \/ (o.invoke = p.invoke /\ o.complete <= p.complete)

ValidOn(w, P) ==
  /\ \A a \in P : ValidOp(w[a])
  /\ \A a, b \in P :
       a # b /\ ZeroWidth(w[a]) /\ ZeroWidth(w[b]) /\ w[a].key = w[b].key => w[a].invoke # w[b].invoke
  /\ \A a, b \in P : a # b /\ w[a].process = w[b].process /\ Ahead(w[a], w[b]) => Answered(w[a], w[b])

LEMMA ValidIsValidOn ==
  ASSUME NEW h \in Seq(Operation), Validate(h)
  PROVE  ValidOn(h, DOMAIN h)
<1>1. List(h, Len(h)) /\ DOMAIN h = 1..Len(h) /\ \A i \in DOMAIN h : h[i] \in Operation
  BY OperationsTimed DEF List
<1>2. \A i \in DOMAIN h : i \in Int /\ h[i].invoke \in Int /\ h[i].complete \in Int
  <2>1. \A i \in DOMAIN h : i \in Int
    BY <1>1
  <2>2. \A i \in DOMAIN h : h[i].invoke \in Int /\ h[i].complete \in Int
    BY <1>1 DEF Operation
  <2> QED BY <2>1, <2>2
<1>3. \A i \in DOMAIN h : ValidOp(h[i])
  BY DEF Validate
<1>4. \A i, j \in DOMAIN h :
        i # j /\ ZeroWidth(h[i]) /\ ZeroWidth(h[j]) /\ h[i].key = h[j].key => h[i].invoke # h[j].invoke
  BY DEF Validate, NoTwinInstants
<1>5. ASSUME NEW i \in DOMAIN h, NEW j \in DOMAIN h, i # j, h[i].process = h[j].process, Ahead(h[i], h[j])
      PROVE  Answered(h[i], h[j])
  <2> DEFINE o == h[i]
             p == h[j]
  <2>1. /\ o.invoke \in Int /\ o.complete \in Int /\ p.invoke \in Int /\ p.complete \in Int
        /\ i \in Int /\ j \in Int /\ ValidOp(o) /\ ValidOp(p)
    BY <1>2, <1>3
  <2>2. (\/ o.invoke < p.invoke
         \/ o.invoke = p.invoke /\ o.complete < p.complete
         \/ o.invoke = p.invoke /\ o.complete = p.complete /\ i < j)
        => o.outcome # "info" /\ o.complete <= p.invoke
    BY <1>5 DEF Validate, SequentialProcesses
  <2>3. (o.invoke = p.invoke /\ o.complete = p.complete /\ j < i)
        => p.outcome # "info" /\ p.complete <= o.invoke
    BY <1>5 DEF Validate, SequentialProcesses
  <2> HIDE DEF o, p
  <2>4. o.invoke < p.invoke \/ (o.invoke = p.invoke /\ o.complete <= p.complete)
    BY <1>5 DEF Ahead, o, p
  <2>5. CASE o.invoke = p.invoke /\ o.complete = p.complete /\ j < i
    <3>1. p.outcome # "info" /\ p.complete <= o.invoke
      BY <2>3, <2>5
    <3>2. p.complete # Pending
      BY <2>1, <3>1 DEF ValidOp
    <3>3. o.outcome # "info"
      BY <2>1, <2>5, <3>2 DEF ValidOp
    <3>4. o.complete <= p.invoke
      BY <2>1, <2>5, <3>1
    <3> QED BY <3>3, <3>4 DEF Answered, o, p
  <2>6. CASE ~ (o.invoke = p.invoke /\ o.complete = p.complete /\ j < i)
    <3>1. \/ o.invoke < p.invoke
          \/ o.invoke = p.invoke /\ o.complete < p.complete
          \/ o.invoke = p.invoke /\ o.complete = p.complete /\ i < j
      BY <1>5, <2>1, <2>4, <2>6
    <3>2. o.outcome # "info" /\ o.complete <= p.invoke
      BY <2>2, <3>1, Zenon
    <3> QED BY <3>2 DEF Answered, o, p
  <2> QED BY <2>5, <2>6
<1> QED BY <1>3, <1>4, <1>5 DEF ValidOn

LEMMA ValidOnIsValid ==
  ASSUME NEW L \in Seq(Operation), NEW w, NEW P, Shows(L, w, P), ValidOn(w, P)
  PROVE  Validate(L)
<1>1. PICK m, f : ShownBy(L, m, w, P, f)
  BY DEF Shows
<1>2. /\ DOMAIN L = 1..m
      /\ \A i \in 1..m : f[i] \in P
      /\ \A i, j \in 1..m : f[i] = f[j] => i = j
      /\ \A i \in 1..m : Same(L[i], w[f[i]])
  BY <1>1 DEF ShownBy, List
<1>3. \A i \in 1..m : L[i] \in Operation /\ L[i].complete \in Int /\ L[i].invoke \in Int
  <2>1. \A i \in DOMAIN L : L[i] \in Operation
    BY SeqList
  <2> QED BY <1>2, <2>1 DEF Operation
<1>4. \A i \in 1..m :
        /\ L[i].process = w[f[i]].process /\ L[i].key = w[f[i]].key
        /\ L[i].invoke = w[f[i]].invoke /\ L[i].complete = w[f[i]].complete
        /\ L[i].kind = w[f[i]].kind /\ L[i].outcome = w[f[i]].outcome
        /\ L[i].kind = "cas" => L[i].from = w[f[i]].from /\ L[i].to = w[f[i]].to
  BY <1>2 DEF Same, Alike
<1>5. \A i \in 1..m : ValidOp(L[i])
  <2> TAKE i \in 1..m
  <2> DEFINE o == L[i]
             p == w[f[i]]
  <2>1. ValidOp(p)
    BY <1>2 DEF ValidOn
  <2>2. /\ o.key = p.key /\ o.invoke = p.invoke /\ o.complete = p.complete
        /\ o.kind = p.kind /\ o.outcome = p.outcome
        /\ o.kind = "cas" => o.from = p.from /\ o.to = p.to
    BY <1>4
  <2> HIDE DEF o, p
  <2>3. ValidOp(o)
    BY <2>1, <2>2 DEF ValidOp
  <2> QED BY <2>3 DEF o
<1>6. NoTwinInstants(L)
  <2> SUFFICES ASSUME NEW i \in 1..m, NEW j \in 1..m,
                      i # j, ZeroWidth(L[i]), ZeroWidth(L[j]), L[i].key = L[j].key
               PROVE  L[i].invoke # L[j].invoke
    BY <1>2 DEF NoTwinInstants
  <2>1. f[i] # f[j] /\ f[i] \in P /\ f[j] \in P
    BY <1>2
  <2>2. ZeroWidth(w[f[i]]) /\ ZeroWidth(w[f[j]]) /\ w[f[i]].key = w[f[j]].key
    BY <1>4 DEF ZeroWidth
  <2>3. w[f[i]].invoke # w[f[j]].invoke
    BY <2>1, <2>2 DEF ValidOn
  <2> QED BY <1>4, <2>3
<1>7. SequentialProcesses(L)
  <2> SUFFICES ASSUME NEW i \in 1..m, NEW j \in 1..m, i # j, L[i].process = L[j].process,
                      \/ L[i].invoke < L[j].invoke
                      \/ L[i].invoke = L[j].invoke /\ L[i].complete < L[j].complete
                      \/ L[i].invoke = L[j].invoke /\ L[i].complete = L[j].complete /\ i < j
               PROVE  L[i].outcome # "info" /\ L[i].complete <= L[j].invoke
    BY <1>2 DEF SequentialProcesses
  <2>1. f[i] # f[j] /\ f[i] \in P /\ f[j] \in P
    BY <1>2
  <2>2. L[i].invoke < L[j].invoke \/ (L[i].invoke = L[j].invoke /\ L[i].complete <= L[j].complete)
    BY <1>3
  <2>3. Ahead(w[f[i]], w[f[j]]) /\ w[f[i]].process = w[f[j]].process
    BY <1>4, <2>2 DEF Ahead
  <2>4. Answered(w[f[i]], w[f[j]])
    BY <2>1, <2>3 DEF ValidOn
  <2> QED BY <1>4, <2>4 DEF Answered
<1> QED BY <1>2, <1>5, <1>6, <1>7 DEF Validate

(* What was not there at t was not in anybody's way.                       *)
LEMMA CutIsValid ==
  ASSUME NEW w, NEW P \in SUBSET DOMAIN w, \A a \in P : w[a] \in Operation /\ w[a].complete <= Pending,
         ValidOn(w, P), NEW t \in Int
  PROVE  ValidOn(Cut(w, t), Begun(w, P, t))
<1> DEFINE x == Cut(w, t)
           Q == Begun(w, P, t)
<1>1. ASSUME NEW a \in Q
      PROVE  /\ a \in P /\ w[a] \in Operation /\ x[a] = AsOf(w[a], t)
             /\ w[a].invoke < t /\ w[a].invoke \in Int /\ w[a].complete \in Int /\ w[a].complete <= Pending
             /\ x[a].invoke = w[a].invoke /\ x[a].kind = w[a].kind /\ x[a].process = w[a].process
             /\ x[a].key = w[a].key /\ x[a].from = w[a].from /\ x[a].to = w[a].to
             /\ w[a].complete >= t => x[a].outcome = "info" /\ x[a].complete = Pending
             /\ w[a].complete < t => x[a] = w[a]
             /\ ValidOp(w[a])
  <2>1. a \in P /\ w[a] \in Operation /\ w[a].invoke < t /\ w[a].complete <= Pending /\ a \in DOMAIN w
    BY DEF Begun
  <2>2. w[a].invoke \in Int /\ w[a].complete \in Int
    BY <2>1 DEF Operation
  <2>3. x[a] = AsOf(w[a], t)
    BY <2>1 DEF Cut
  <2>4. ValidOp(w[a])
    BY <2>1 DEF ValidOn
  <2> HIDE DEF x
  <2> QED BY <2>1, <2>2, <2>3, <2>4, AsOfIs
<1> HIDE DEF x, Q
<1>2. ASSUME NEW a \in Q PROVE ValidOp(x[a])
  <2>1. CASE w[a].complete >= t
    <3>1. x[a].outcome = "info" /\ x[a].complete = Pending /\ x[a].invoke >= 0 /\ x[a].key # ""
      BY <1>1, <2>1 DEF ValidOp
    <3>2. x[a].kind = "cas" => x[a].from # x[a].to
      BY <1>1 DEF ValidOp
    <3> QED BY <3>1, <3>2 DEF ValidOp, Outcomes
  <2>2. CASE w[a].complete < t
    BY <1>1, <2>2
  <2>3. w[a].complete \in Int
    BY <1>1
  <2> QED BY <2>1, <2>2, <2>3
<1>3. ASSUME NEW a \in Q, ZeroWidth(x[a]) PROVE ZeroWidth(w[a])
  <2>1. ~ (w[a].complete >= t)
    BY <1>1, <1>3 DEF ZeroWidth
  <2>2. x[a] = w[a]
    BY <1>1, <2>1
  <2> QED BY <1>3, <2>2
<1>4. ASSUME NEW a \in Q, NEW b \in Q, a # b, ZeroWidth(x[a]), ZeroWidth(x[b]), x[a].key = x[b].key
      PROVE  x[a].invoke # x[b].invoke
  <2>1. ZeroWidth(w[a]) /\ ZeroWidth(w[b]) /\ w[a].key = w[b].key /\ a \in P /\ b \in P
    BY <1>1, <1>3, <1>4
  <2>2. w[a].invoke # w[b].invoke
    BY <1>4, <2>1 DEF ValidOn
  <2> QED BY <1>1, <2>2
<1>5. ASSUME NEW a \in Q, NEW b \in Q, a # b, x[a].process = x[b].process, Ahead(x[a], x[b])
      PROVE  Answered(x[a], x[b])
  <2> DEFINE o == w[a]
             p == w[b]
  <2>1. /\ o.invoke \in Int /\ o.complete \in Int /\ p.invoke \in Int /\ p.complete \in Int
        /\ o.invoke < t /\ p.invoke < t /\ o.complete <= Pending /\ p.complete <= Pending
        /\ o.process = p.process /\ x[a].invoke = o.invoke /\ x[b].invoke = p.invoke
        /\ o.complete >= t => x[a].outcome = "info" /\ x[a].complete = Pending
        /\ o.complete < t => x[a] = o
        /\ p.complete >= t => x[b].outcome = "info" /\ x[b].complete = Pending
        /\ p.complete < t => x[b] = p
    BY <1>1, <1>5
  <2>2. Ahead(o, p) => Answered(o, p)
    BY <1>1, <1>5, <2>1 DEF ValidOn
  <2>3. Ahead(p, o) => Answered(p, o)
    BY <1>1, <1>5, <2>1 DEF ValidOn
  <2>4. x[a].invoke < x[b].invoke \/ (x[a].invoke = x[b].invoke /\ x[a].complete <= x[b].complete)
    BY <1>5 DEF Ahead
  <2> HIDE DEF o, p
  <2>5. CASE o.complete < t
    <3>1. Ahead(o, p)
      <4>1. CASE p.complete < t
        BY <2>1, <2>4, <2>5, <4>1 DEF Ahead
      <4>2. CASE p.complete >= t
        <5>1. o.invoke <= p.invoke
          BY <2>1, <2>4
        <5>2. o.complete <= p.complete
          BY <2>1, <2>5, <4>2
        <5> QED BY <2>1, <5>1, <5>2 DEF Ahead
      <4> QED BY <2>1, <4>1, <4>2
    <3> QED BY <2>1, <2>2, <2>5, <3>1 DEF Answered
  <2>6. CASE o.complete >= t
    <3> SUFFICES FALSE
      OBVIOUS
    <3>1. ~ Answered(o, p)
      BY <2>1, <2>6 DEF Answered
    <3>2. ~ (o.invoke < p.invoke) /\ ~ (o.invoke = p.invoke /\ o.complete <= p.complete)
      BY <2>2, <3>1 DEF Ahead
    <3>3. o.invoke = p.invoke /\ p.complete < o.complete /\ Pending <= x[b].complete
      BY <2>1, <2>4, <2>6, <3>2
    <3>4. Answered(p, o)
      BY <2>1, <2>3, <3>3 DEF Ahead
    <3>5. p.complete < t
      BY <2>1, <3>4 DEF Answered
    <3>6. Pending <= p.complete
      BY <2>1, <3>3, <3>5
    <3> QED BY <2>1, <2>6, <3>5, <3>6, PendingAssumption
  <2> QED BY <2>1, <2>5, <2>6
<1> QED BY <1>2, <1>4, <1>5 DEF ValidOn, x, Q

-----------------------------------------------------------------------------
(***************************************************************************)
(* What a run writes and a check reads.                                    *)
(***************************************************************************)
LEMMA RecordedIs ==
  ASSUME NEW h \in Recorded
  PROVE  Settled(h) /\ Shows(h, h, DOMAIN h) /\ ValidOn(h, DOMAIN h)
<1>1. h \in Seq(Operation) /\ Validate(h) /\ \A i \in DOMAIN h : h[i].complete <= Pending
  BY CommandAssumption
<1>2. Settled(h)
  BY <1>1, ValidIsSettled
<1>3. Shows(h, h, DOMAIN h)
  <2>1. List(h, Len(h)) /\ DOMAIN h = 1..Len(h)
    BY <1>1, OperationsTimed DEF List
  <2> QED BY <2>1, ShowsItself
<1> QED BY <1>1, <1>2, <1>3, ValidIsValidOn

(* The history, saved and checked again.                                   *)
LEMMA HistoryReads ==
  ASSUME NEW h \in Recorded
  PROVE  /\ Save(h) \in Seq(Line) /\ Loads(Save(h)) /\ Validate(Load(Save(h)))
         /\ ExactlyAll(Load(Save(h))) = ExactlyAll(h)
<1>1. Settled(h) /\ Shows(h, h, DOMAIN h) /\ ValidOn(h, DOMAIN h)
  BY RecordedIs
<1>2. Save(h) \in Seq(Line) /\ Loads(Save(h)) /\ Shows(Load(Save(h)), h, DOMAIN h)
  BY <1>1, SavedReads
<1>3. Load(Save(h)) \in Seq(Operation)
  BY <1>2, LoadTyped
<1>4. Validate(Load(Save(h)))
  BY <1>1, <1>2, <1>3, ValidOnIsValid
<1> QED BY <1>1, <1>2, <1>4, ExactShown

(* T is what the run reports of h, on one key.                             *)
Reports(h, key, k, T) ==
  LET live == Slice(h, key)
  IN  /\ h \in Recorded
      /\ k \in 0..Final(live)
      /\ T = Truncations(live)[k]
      /\ ~Linearizable(T)
      /\ \A i \in 0..(k - 1) : Linearizable(Truncations(live)[i])

LEMMA CutTwice ==
  ASSUME NEW op \in Operation, op.complete <= Pending, NEW s \in Int, NEW t \in Int, s < t
  PROVE  AsOf(AsOf(op, t), s) = AsOf(op, s)
<1>1. op.complete \in Int /\ AsOf(op, t) \in Operation
  BY AsOfIs DEF Operation
<1>2. CASE op.complete < t
  <2>1. AsOf(op, t) = op
    BY <1>2, AsOfIs
  <2> QED BY <2>1
<1>3. CASE op.complete >= t
  <2> DEFINE p == [op EXCEPT !.outcome = "info", !.complete = Pending]
  <2>1. op.complete >= s /\ Pending >= s
    BY <1>1, <1>3, PendingAssumption
  <2>2. AsOf(op, t) = p /\ AsOf(op, s) = p
    BY <1>3, <2>1 DEF AsOf
  <2>3. p.complete = Pending
    BY DEF Operation
  <2>4. AsOf(p, s) = [p EXCEPT !.outcome = "info", !.complete = Pending]
    BY <2>1, <2>3 DEF AsOf
  <2>5. [p EXCEPT !.outcome = "info", !.complete = Pending] = p
    BY DEF Operation
  <2> QED BY <2>2, <2>4, <2>5
<1> QED BY <1>1, <1>2, <1>3

(* The counterexample, saved and checked again.                            *)
LEMMA CounterexampleReads ==
  ASSUME NEW h, NEW key, NEW k, NEW T, Reports(h, key, k, T)
  PROVE  /\ Save(T) \in Seq(Line) /\ Loads(Save(T)) /\ Validate(Load(Save(T)))
         /\ ExactlyAll(Load(Save(T))) = "not linearizable"
         /\ \A l \in Keys(DropFailed(Load(Save(T)))) : l = key
         /\ LET g == Slice(Load(Save(T)), key)
            IN  \A i \in 0..(Final(g) - 1) : Linearizable(Truncations(g)[i])
<1> DEFINE live == Slice(h, key)
           t == TimeAt(live, k)
           P == Left(h, DOMAIN h, key)
           w == Cut(h, t)
           Q == Begun(h, P, t)
           B == Load(Save(T))
           g == Slice(B, key)
<1>1. /\ h \in Recorded /\ k \in 0..Final(live) /\ T = Truncations(live)[k] /\ ~Linearizable(T)
      /\ \A i \in 0..(k - 1) : Linearizable(Truncations(live)[i])
  BY DEF Reports
<1>2. /\ Settled(h) /\ Settled(live) /\ ValidOn(h, DOMAIN h) /\ Shows(live, h, P)
  BY <1>1, RecordedIs, SliceIs, SliceShows
<1>3. /\ h \in Seq(Operation) /\ live \in Seq(Operation)
      /\ \A a \in DOMAIN h : h[a] \in Operation /\ h[a].complete <= Pending
  BY <1>2, OperationsTimed DEF Settled
<1>4. /\ P \in SUBSET DOMAIN h
      /\ \A a \in P : /\ h[a] \in Operation /\ h[a].complete <= Pending
                     /\ h[a].outcome # "fail" /\ h[a].key = key
  BY <1>3 DEF Left
<1> HIDE DEF live, P
<1>5. /\ Final(live) \in Nat /\ k \in Nat
      /\ \A i \in 0..Final(live) : TimeAt(live, i) \in Int /\ TimeAt(live, i) \in EventTimes(live)
      /\ \A i, j \in 0..Final(live) : i < j => TimeAt(live, i) < TimeAt(live, j)
      /\ \A u \in EventTimes(live) : \E i \in 0..Final(live) : TimeAt(live, i) = u
      /\ \A i \in 0..Final(live) : Truncations(live)[i] = SortedTruncation(live, TimeAt(live, i))
  <2>1. Final(live) \in Nat
    BY <1>3, TimesInOrder
  <2>2. k \in Nat
    BY <1>1, <2>1
  <2> QED BY <1>2, <1>3, <2>2, TimesInOrder, TruncationsJudged
<1>6. t \in Int /\ T = SortedTruncation(live, t)
  BY <1>1, <1>5
<1> HIDE DEF t
<1>7. Shows(T, w, Q)
  BY <1>2, <1>3, <1>4, <1>6, SortedTruncationShows
<1>8. Settled(T)
  BY <1>2, <1>6, TruncationSettled
<1>9. Save(T) \in Seq(Line) /\ Loads(Save(T)) /\ Shows(B, w, Q)
  BY <1>7, <1>8, SavedReads
<1>10. B \in Seq(Operation)
  BY <1>9, LoadTyped
<1>11. ValidOn(w, Q)
  <2>1. ValidOn(h, P)
    BY <1>2, <1>4 DEF ValidOn
  <2> QED BY <1>4, <1>6, <2>1, CutIsValid
<1>12. Validate(B)
  BY <1>9, <1>10, <1>11, ValidOnIsValid
<1>13. Settled(B) /\ Settled(g)
  BY <1>9, <1>12, ReadIsSettled, SliceIs
<1>14. /\ DOMAIN w = DOMAIN h /\ Q \in SUBSET P
       /\ \A a \in Q : a \in DOMAIN w /\ a \in P /\ h[a] \in Operation /\ h[a].invoke < t
                       /\ w[a] = AsOf(h[a], t) /\ w[a] \in Operation /\ w[a].invoke = h[a].invoke
                       /\ w[a].key = key
  <2>1. DOMAIN w = DOMAIN h /\ Q \in SUBSET P /\ \A a \in Q : h[a].invoke < t
    BY DEF Cut, Begun
  <2>2. ASSUME NEW a \in Q
        PROVE  /\ h[a] \in Operation /\ w[a] = AsOf(h[a], t) /\ w[a] \in Operation
               /\ w[a].invoke = h[a].invoke /\ w[a].key = key
    <3>1. h[a] \in Operation /\ a \in DOMAIN h /\ h[a].key = key
      BY <1>4, <2>1
    <3>2. w[a] = AsOf(h[a], t)
      BY <3>1 DEF Cut
    <3> HIDE DEF w
    <3> QED BY <1>6, <3>1, <3>2, AsOfIs
  <2> QED BY <1>4, <2>1, <2>2
<1> HIDE DEF w, Q, B, g
<1>15. {a \in Q : w[a].outcome # "fail"} = Q /\ Left(w, Q, key) = Q
  <2>1. ASSUME NEW a \in Q PROVE w[a].outcome # "fail"
    <3>1. h[a] \in Operation /\ h[a].outcome # "fail" /\ w[a] = AsOf(h[a], t) /\ h[a].complete \in Int
      BY <1>4, <1>14 DEF Operation
    <3>2. h[a].complete >= t \/ h[a].complete < t
      BY <1>6, <3>1
    <3> QED BY <1>6, <3>1, <3>2, AsOfIs
  <2>2. \A a \in Q : w[a].key = key
    BY <1>14
  <2> QED BY <2>1, <2>2 DEF Left
<1>16. Shows(g, w, Q)
  <2>1. Shows(Slice(B, key), w, Left(w, Q, key))
    BY <1>9, <1>13, SliceShows
  <2> QED BY <1>15, <2>1 DEF g
<1>17. ~Linearizable(g) /\ ~Linearizable(ByKey(DropFailed(B), key))
  <2>1. ~Linearizable(g)
    BY <1>1, <1>7, <1>16, ShowsTakes
  <2> QED BY <1>13, <2>1, SliceIs DEF g
<1>21. Keys(DropFailed(B)) = {key}
  <2>1. Shows(DropFailed(B), w, Q)
    <3>1. Shows(DropFailed(B), w, {a \in Q : w[a].outcome # "fail"})
      BY <1>9, DropShows
    <3> QED BY <1>15, <3>1
  <2>2. Keys(DropFailed(B)) = {w[a].key : a \in Q}
    BY <2>1, KeysShown
  <2>3. Q # {}
    BY <1>16, <1>17, NothingLinearizes
  <2> QED BY <1>14, <2>2, <2>3
<1>22. ExactlyAll(B) = "not linearizable"
  BY <1>17, <1>21 DEF ExactlyAll
<1>18. g \in Seq(Operation) /\ Final(g) \in Nat
  BY <1>13, TimesInOrder DEF Settled
(* A time before the last is one of the run's own, and an earlier one.     *)
<1>19. ASSUME NEW u \in Instants(g) PROVE u \in EventTimes(live) /\ u < t /\ u \in Int
  <2>1. PICK m, f : ShownBy(g, m, w, Q, f)
    BY <1>16 DEF Shows
  <2>2. PICK l, e : ShownBy(live, l, h, P, e)
    BY <1>2 DEF Shows
  <2>3. u \in Int
    BY <1>18, InstantsAre
  <2>4. PICK i \in DOMAIN g : u = g[i].invoke \/ (u = g[i].complete /\ g[i].complete # Pending)
    BY DEF Instants, Heard
  <2>5. f[i] \in Q /\ g[i].invoke = w[f[i]].invoke /\ g[i].complete = w[f[i]].complete
    BY <2>1 DEF ShownBy, List, Same, Alike
  <2> DEFINE a == f[i]
  <2>6. PICK j \in 1..l : e[j] = a
    BY <1>14, <2>2, <2>5 DEF ShownBy
  <2>7. j \in DOMAIN live /\ live[j].invoke = h[a].invoke /\ live[j].complete = h[a].complete
    BY <2>2, <2>6 DEF ShownBy, List, Same, Alike
  <2>8. a \in Q /\ h[a] \in Operation /\ h[a].invoke < t /\ w[a] = AsOf(h[a], t) /\ w[a].invoke = h[a].invoke /\ h[a].complete \in Int
    BY <1>14, <2>5 DEF Operation
  <2>9. CASE u = g[i].invoke
    <3>1. u = live[j].invoke /\ u < t
      BY <2>5, <2>7, <2>8, <2>9
    <3>2. u \in Instants(live)
      BY <2>7, <3>1 DEF Instants
    <3> QED BY <2>3, <3>1, <3>2 DEF EventTimes
  <2>10. CASE u = g[i].complete /\ g[i].complete # Pending
    <3>1. AsOf(h[a], t).complete # Pending
      BY <2>5, <2>8, <2>10
    <3>2. h[a].complete < t
      BY <1>6, <2>8, <3>1, AsOfIs
    <3>3. w[a] = h[a]
      BY <1>6, <2>8, <3>2, AsOfIs
    <3>4. u = live[j].complete /\ u # Pending /\ u < t
      BY <2>5, <2>7, <2>10, <3>2, <3>3
    <3>5. u \in Heard(live)
      BY <2>7, <3>4 DEF Heard
    <3> QED BY <2>3, <3>4, <3>5 DEF Instants, EventTimes
  <2> QED BY <2>4, <2>9, <2>10
<1>20. ASSUME NEW i \in 0..(Final(g) - 1) PROVE Linearizable(Truncations(g)[i])
  <2> DEFINE u == TimeAt(g, i)
  <2>1. i \in 0..Final(g) /\ i < Final(g) /\ Final(g) \in 0..Final(g)
    BY <1>18
  <2>2. /\ u \in EventTimes(g) /\ u \in Int /\ u < Past(g)
        /\ Truncations(g)[i] = SortedTruncation(g, u)
    BY <1>13, <1>18, <2>1, TimesInOrder, TruncationsJudged
  <2> HIDE DEF u
  <2>3. u \in Instants(g)
    BY <2>2 DEF EventTimes
  <2>4. u \in EventTimes(live) /\ u < t
    BY <1>19, <2>3
  <2>5. PICK j \in 0..Final(live) : TimeAt(live, j) = u
    BY <1>5, <2>4
  <2>6. j < k
    <3> SUFFICES ASSUME ~ (j < k) PROVE FALSE
      OBVIOUS
    <3>1. k = j \/ k < j
      BY <1>5
    <3>2. ~ (u < t)
      <4>1. TimeAt(live, k) = t /\ t \in Int /\ u \in Int
        BY <1>6, <2>2 DEF t
      <4>2. k < j => t < u
        BY <1>1, <1>5, <2>5, <4>1
      <4> QED BY <2>5, <3>1, <4>1, <4>2
    <3> QED BY <2>4, <3>2
  <2>7. Linearizable(SortedTruncation(live, u))
    <3>1. j \in 0..(k - 1)
      BY <1>5, <2>6
    <3> QED BY <1>1, <1>5, <2>5, <3>1
  <2>8. Takes(Cut(h, u), Begun(h, P, u))
    BY <1>2, <1>3, <1>4, <2>2, <2>7, SortedTruncationShows
  <2>9. Begun(w, Q, u) = Begun(h, P, u)
    <3>1. ASSUME NEW a \in P, h[a].invoke < u PROVE a \in Q
      <4>1. h[a].invoke \in Int
        BY <1>4 DEF Operation
      <4>2. h[a].invoke < t
        BY <1>6, <2>2, <2>4, <3>1, <4>1
      <4> QED BY <4>2 DEF Q, Begun
    <3>2. \A a \in Q : a \in P /\ w[a].invoke = h[a].invoke
      BY <1>14
    <3> QED BY <3>1, <3>2 DEF Begun
  <2>10. Cut(w, u) = Cut(h, u)
    <3>1. ASSUME NEW a \in DOMAIN h PROVE AsOf(w[a], u) = AsOf(h[a], u)
      <4>1. w[a] = AsOf(h[a], t) /\ h[a] \in Operation /\ h[a].complete <= Pending
        BY <1>3 DEF w, Cut
      <4> QED BY <1>6, <2>2, <2>4, <4>1, CutTwice
    <3> QED BY <1>14, <3>1 DEF Cut
  <2>11. Takes(Cut(w, u), Begun(w, Q, u))
    BY <2>8, <2>9, <2>10
  <2>12. Linearizable(SortedTruncation(g, u))
    <3>1. Q \in SUBSET DOMAIN w /\ \A a \in Q : w[a] \in Operation
      BY <1>14
    <3> QED BY <1>16, <1>18, <2>2, <2>11, <3>1, SortedTruncationShows
  <2> QED BY <2>2, <2>12
<1> QED BY <1>9, <1>12, <1>20, <1>21, <1>22 DEF B, g

-----------------------------------------------------------------------------
(* A line filled in is the line, with something in each of its blanks.     *)
LEMMA FieldsFilled ==
  ASSUME NEW line, NEW full \in FilledFields(line)
  PROVE  \E p \in Filled(line.process, {0, 2}), v \in Filled(line.value, {0, 1}),
            f \in Filled(line.from, {0, 1}), t \in Filled(line.to, {0, 1}),
            o \in Filled(line.observed, {0, 1}), s \in Filled(line.swapped, BOOLEAN),
            i \in Filled(line.invoke, {0, 2}) :
           full = FillIn(line, p, v, f, t, o, s, i)
  BY SMT DEF FilledFields

(* What fills a blank is not looked at.                                    *)
LEMMA FillingReads ==
  ASSUME NEW line \in Line, Parses(line), line.key # "", NEW full \in Fillings(line)
  PROVE  Same(ToOp(full), ToOp(line))
<1>1. line.kind # ""
  BY DEF Parses, Kinds
<1>2. line # Garbage
  <2>1. Garbage.kind = ""
    BY DEF Garbage
  <2> QED BY <1>1, <2>1
<1>3. full \in FilledFields(line)
  <2>1. PICK k \in Named(line.key, {"j", "k"}) : full \in FilledFields([line EXCEPT !.key = k])
    BY DEF Fillings
  <2>2. k = line.key
    BY DEF Named
  <2>3. [line EXCEPT !.key = k] = line
    BY <1>2, <2>2 DEF Line
  <2> QED BY <2>1, <2>3
<1>4. PICK p \in Filled(line.process, {0, 2}), v \in Filled(line.value, {0, 1}),
            f \in Filled(line.from, {0, 1}), t \in Filled(line.to, {0, 1}),
            o \in Filled(line.observed, {0, 1}), s \in Filled(line.swapped, BOOLEAN),
            i \in Filled(line.invoke, {0, 2}) :
         full = FillIn(line, p, v, f, t, o, s, i)
  BY <1>3, FieldsFilled
<1>5. /\ full.process = p /\ full.value = v /\ full.from = f /\ full.to = t /\ full.observed = o
      /\ full.swapped = s /\ full.invoke = i
      /\ full.key = line.key /\ full.kind = line.kind /\ full.outcome = line.outcome
      /\ full.complete = line.complete
  BY <1>2, <1>4 DEF Line, FillIn
<1>6. ~Lacks(line)
  BY DEF Parses
<1>7. /\ p = line.process /\ i = line.invoke
      /\ line.kind = "write" => v = line.value
      /\ line.kind = "cas" => f = line.from /\ t = line.to
      /\ line.kind = "read" /\ line.outcome = "ok" => o = line.observed
      /\ line.kind = "cas" /\ line.outcome = "ok" => s = line.swapped
  <2>1. \A field, values : \A x \in Filled(field, values) : field # {} => x = field
    BY DEF Filled
  <2>2. line.process # {} /\ line.invoke # {}
    BY <1>6 DEF Lacks
  <2>3. /\ line.kind = "write" => line.value # {}
        /\ line.kind = "cas" => line.from # {} /\ line.to # {}
        /\ line.kind = "read" /\ line.outcome = "ok" => line.observed # {}
        /\ line.kind = "cas" /\ line.outcome = "ok" => line.swapped # {}
    BY <1>6 DEF Lacks
  <2> QED BY <1>4, <2>1, <2>2, <2>3
<1> DEFINE a == ToOp(full)
           b == ToOp(line)
<1>8. /\ a.process = Given(full.process, 0) /\ a.invoke = Given(full.invoke, 0)
      /\ a.value = Given(full.value, 0) /\ a.from = Given(full.from, 0)
      /\ a.to = Given(full.to, 0) /\ a.observed = Given(full.observed, 0)
      /\ a.swapped = Given(full.swapped, FALSE) /\ a.complete = Given(full.complete, Pending)
      /\ a.key = full.key /\ a.kind = full.kind /\ a.outcome = full.outcome
  BY DEF ToOp
<1>9. /\ b.process = Given(line.process, 0) /\ b.invoke = Given(line.invoke, 0)
      /\ b.value = Given(line.value, 0) /\ b.from = Given(line.from, 0)
      /\ b.to = Given(line.to, 0) /\ b.observed = Given(line.observed, 0)
      /\ b.swapped = Given(line.swapped, FALSE) /\ b.complete = Given(line.complete, Pending)
      /\ b.key = line.key /\ b.kind = line.kind /\ b.outcome = line.outcome
  BY DEF ToOp
<1> HIDE DEF a, b
<1>10. Same(a, b)
  BY <1>5, <1>7, <1>8, <1>9 DEF Same, Alike
<1> QED BY <1>10 DEF a, b

LEMMA FilledInReads ==
  ASSUME NEW lines \in Seq(Line), Loads(lines), Validate(Load(lines)),
         NEW i \in DOMAIN lines, NEW full \in Fillings(lines[i])
  PROVE  ExactlyAll(Load([lines EXCEPT ![i] = full])) = ExactlyAll(Load(lines))
<1> DEFINE n == Len(lines)
           more == [lines EXCEPT ![i] = full]
           B == Load(lines)
           M == Load(more)
<1>1. List(lines, n) /\ n \in Nat /\ DOMAIN lines = 1..n /\ \A j \in 1..n : lines[j] \in Line /\ Parses(lines[j])
  BY SeqList DEF List, Loads
<1>2. DOMAIN more = 1..n /\ \A j \in 1..n : more[j] = (IF j = i THEN full ELSE lines[j])
  BY <1>1
<1> HIDE DEF more
<1>3. B = [j \in 1..n |-> ToOp(lines[j])] /\ M = [j \in 1..n |-> ToOp(more[j])]
  BY <1>1, <1>2 DEF Load
<1> HIDE DEF B, M
<1>4. List(B, n) /\ List(M, n)
  <2> DEFINE X == {B[j] : j \in 1..n}
             Y == {M[j] : j \in 1..n}
  <2>1. DOMAIN B = 1..n /\ B = [j \in 1..n |-> B[j]] /\ \A j \in 1..n : B[j] \in X
    BY <1>3
  <2>2. DOMAIN M = 1..n /\ M = [j \in 1..n |-> M[j]] /\ \A j \in 1..n : M[j] \in Y
    BY <1>3
  <2> HIDE DEF X, Y
  <2>3. List(B, n)
    BY <1>1, <2>1, MadeList
  <2>4. List(M, n)
    BY <1>1, <2>2, MadeList
  <2> QED BY <2>3, <2>4
<1>5. \A j \in 1..n : Same(M[j], B[j])
  <2> TAKE j \in 1..n
  <2>1. M[j] = ToOp(more[j]) /\ B[j] = ToOp(lines[j])
    BY <1>3
  <2>2. CASE j = i
    <3>1. ValidOp(B[i]) /\ B[i] = ToOp(lines[i])
      BY <1>1, <1>3 DEF Validate, B
    <3>2. lines[i].key # ""
      <4>1. B[i].key # ""
        BY <3>1 DEF ValidOp
      <4>2. ToOp(lines[i]).key = lines[i].key
        BY DEF ToOp
      <4> QED BY <3>1, <4>1, <4>2
    <3>3. Same(ToOp(full), ToOp(lines[i]))
      BY <1>1, <3>2, FillingReads
    <3> QED BY <1>2, <2>1, <2>2, <3>3
  <2>3. CASE j # i
    BY <1>2, <2>1, <2>3, SameItself
  <2> QED BY <2>2, <2>3
<1> DEFINE f == [j \in 1..n |-> j]
<1>6. f \in [1..n -> 1..n] /\ \A j \in 1..n : f[j] = j
  OBVIOUS
<1> HIDE DEF f
<1>7. ShownBy(M, n, B, 1..n, f)
  BY <1>4, <1>5, <1>6 DEF ShownBy
<1>8. Shows(M, B, 1..n) /\ Shows(B, B, 1..n)
  BY <1>4, <1>7, ShowsItself DEF Shows
<1>9. ExactlyAll(M) = ExactlyAll(B)
  BY <1>8, ExactShown
<1> QED BY <1>9 DEF M, B, more

-----------------------------------------------------------------------------
(***************************************************************************)
(* The two commands.                                                       *)
(***************************************************************************)
Reproduces(lines) == \E h, key, k, T : Reports(h, key, k, T) /\ lines = Save(T)

HistoryWritten(h)     == disk["history"] = {Save(h)}
CounterexampleWritten ==
  disk["counterexample"] = {} \/ \E lines : disk["counterexample"] = {lines} /\ Reproduces(lines)

OnDisk ==
  /\ disk \in [Files -> SUBSET Seq(Line)]
  /\ asked \in SUBSET {"history", "counterexample"} /\ file \in Files

Judged(h) ==
  /\ verdict \in {ExactlyAll(h), "unknown"}
  /\ phase # "idle" => \E k \in Keys(DropFailed(h)) : ops = Slice(h, k)

Wrote(h, v) ==
  /\ h \in Recorded
  /\ v = ExactlyAll(h)
  /\ "history" \in asked => HistoryWritten(h)
  /\ CounterexampleWritten

Working == {"minimise", "history", "counterexample", "verdict"}

Recording ==
  /\ past.exit = Running
  /\ pc \in {"start", "exited"} \cup Working
  /\ pc = "start" => verdict = "unknown" /\ phase = "idle"
  /\ pc \in {"start"} \cup (Working \ {"verdict"}) => disk["counterexample"] = {}
  /\ pc \in Working => history \in Recorded /\ Judged(history)
  /\ pc \in {"counterexample", "verdict"} => ("history" \in asked => HistoryWritten(history))
  /\ pc = "verdict" => CounterexampleWritten
  /\ pc # "exited" => exit = Running
  /\ pc = "exited" /\ exit \in {0, 1} => Wrote(history, verdict)

FromFile ==
  /\ Readable(file)
  /\ Judged(Load(Content(file)))

Checking ==
  /\ pc \in {"check", "minimise", "verdict", "exited"}
  /\ file # "by hand" /\ Concluded => file \in asked /\ \E h : Wrote(h, past.verdict)
  /\ pc = "check" => verdict = "unknown" /\ phase = "idle"
  /\ (verdict = "unknown" /\ phase = "idle") \/ FromFile

Commands ==
  /\ Cutting
  /\ OnDisk
  /\ cmd \in {"run", "check"}
  /\ cmd = "run" => Recording
  /\ cmd = "check" => Checking

-----------------------------------------------------------------------------
(***************************************************************************)
(* Commands holds of the first state, and every step of a run or of a      *)
(* check keeps it: the history judged, cut down, written and reported      *)
(* (main.go:313-433).                                                      *)
(***************************************************************************)
LEMMA CommandsBegin ==
  ASSUME CommandInit
  PROVE  Commands
<1>1. /\ Init /\ cmd = "run" /\ pc = "start" /\ exit = Running /\ file = "by hand"
      /\ asked \in SUBSET {"history", "counterexample"}
      /\ verdict = "unknown" /\ disk = [f \in Files |-> {}] /\ past.exit = Running
  BY DEF CommandInit
<1>2. /\ ops = <<>> /\ cuts = Truncations(<<>>) /\ lo = 0 /\ hi = Final(<<>>) /\ scale = 1
      /\ phase = "idle" /\ trunc = <<>>
  BY <1>1 DEF Init
<1>3. Settled(<<>>)
  BY DEF Settled
<1>4. Final(<<>>) \in Nat
  BY <1>3, TruncationsJudged
<1>5. Cutting
  BY <1>2, <1>3, <1>4 DEF Cutting, Interval, Outcome, Bracketed
<1>6. OnDisk
  BY <1>1 DEF OnDisk, Files
<1>7. disk["counterexample"] = {}
  BY <1>1 DEF Files
<1>8. Recording
  BY <1>1, <1>2, <1>7 DEF Recording, Working
<1> QED BY <1>1, <1>5, <1>6, <1>8 DEF Commands

LEMMA JudgesCuts ==
  ASSUME Cutting, NEW h, Settled(h), NEW next, Judges(h, next)
  PROVE  /\ Cutting'
         /\ history' = h /\ verdict' \in {ExactlyAll(h), "unknown"}
         /\ \/ pc' = "minimise" /\ phase' = "looking" /\ \E k \in Keys(DropFailed(h)) : ops' = Slice(h, k)
            \/ pc' = next /\ UNCHANGED vars
<1>1. PICK judged \in Judgements(h) :
        /\ history' = h /\ verdict' = Worst(judged)
        /\ \/ /\ verdict' = "not linearizable" /\ pc' = "minimise"
              /\ \E k \in DOMAIN judged : First(k, Having(judged, verdict')) /\ Begin(Slice(h, k))
           \/ verdict' # "not linearizable" /\ pc' = next /\ UNCHANGED vars
  BY DEF Judges
<1>2. /\ DOMAIN judged = Keys(DropFailed(h)) /\ verdict' \in {ExactlyAll(h), "unknown"}
      /\ \A k \in Having(judged, "not linearizable") : ~Linearizable(Slice(h, k))
  BY <1>1, ConclusionIs
<1>3. CASE /\ verdict' = "not linearizable" /\ pc' = "minimise"
           /\ \E k \in DOMAIN judged : First(k, Having(judged, verdict')) /\ Begin(Slice(h, k))
  <2>1. PICK k \in DOMAIN judged : First(k, Having(judged, "not linearizable")) /\ Begin(Slice(h, k))
    BY <1>3
  <2>2. ~Linearizable(Slice(h, k)) /\ Settled(Slice(h, k))
    BY <1>2, <2>1, SliceIs DEF First
  <2>3. Holding(Slice(h, k), "looking")
    BY <2>1 DEF Begin
  <2>4. Cutting'
    BY <2>2, <2>3, HoldingCuts
  <2>5. phase' = "looking" /\ ops' = Slice(h, k)
    BY <2>3 DEF Holding
  <2> QED BY <1>1, <1>2, <1>3, <2>4, <2>5
<1>4. CASE verdict' # "not linearizable" /\ pc' = next /\ UNCHANGED vars
  <2>1. Cutting'
    BY <1>4, StillCuts
  <2> QED BY <1>1, <1>2, <1>4, <2>1
<1> QED BY <1>1, <1>3, <1>4

LEMMA LeavesBadly ==
  ASSUME Leave("other")
  PROVE  pc' = "exited" /\ exit' = 2
BY DEF Leave, ExitFor

LEMMA Unjudged ==
  ASSUME NEW h, verdict' \in {ExactlyAll(h), "unknown"},
         \/ phase' = "looking" /\ \E k \in Keys(DropFailed(h)) : ops' = Slice(h, k)
         \/ phase = "idle" /\ UNCHANGED vars
  PROVE  Judged(h)'
BY DEF Judged, vars

LEMMA RunKeeps ==
  ASSUME Commands, Run
  PROVE  Commands'
<1>1. /\ Cutting /\ OnDisk /\ cmd \in {"run", "check"}
      /\ cmd = "run" => Recording
      /\ cmd = "check" => Checking
  BY DEF Commands
<1>2. pc = "start" /\ UNCHANGED <<cmd, asked, file, disk, past>>
  BY DEF Run
<1>3. cmd = "run" /\ Recording
  BY <1>1, <1>2 DEF Checking
<1>4. /\ past.exit = Running /\ verdict = "unknown" /\ phase = "idle"
      /\ disk["counterexample"] = {} /\ exit = Running
  BY <1>2, <1>3 DEF Recording
<1>5. OnDisk' /\ cmd' = "run"
  BY <1>1, <1>2, <1>3 DEF OnDisk
<1>6. CASE Leave("other") /\ UNCHANGED <<vars, history, verdict>>
  <2>1. pc' = "exited" /\ exit' = 2
    BY <1>6, LeavesBadly
  <2>2. Cutting'
    BY <1>1, <1>6, StillCuts
  <2>3. Recording'
    BY <1>2, <1>4, <2>1 DEF Recording, Working
  <2> QED BY <1>5, <2>2, <2>3 DEF Commands
<1>7. CASE \E h \in Recorded : Judges(h, "history") /\ UNCHANGED exit
  <2>1. PICK h \in Recorded : Judges(h, "history") /\ UNCHANGED exit
    BY <1>7
  <2>2. Settled(h)
    BY RecordedIs
  <2>3. /\ Cutting'
        /\ history' = h /\ verdict' \in {ExactlyAll(h), "unknown"}
        /\ \/ pc' = "minimise" /\ phase' = "looking" /\ \E k \in Keys(DropFailed(h)) : ops' = Slice(h, k)
           \/ pc' = "history" /\ UNCHANGED vars
    BY <1>1, <2>1, <2>2, JudgesCuts
  <2>4. Judged(h)'
    BY <1>4, <2>3, Unjudged
  <2>5. Judged(history)'
    BY <2>3, <2>4 DEF Judged
  <2>6. Recording'
    BY <1>2, <1>4, <2>1, <2>3, <2>5 DEF Recording, Working
  <2> QED BY <1>5, <2>3, <2>6 DEF Commands
<1> QED BY <1>6, <1>7 DEF Run

LEMMA MinimisesKeeps ==
  ASSUME Commands, Minimises
  PROVE  Commands'
<1>1. /\ Cutting /\ OnDisk /\ cmd \in {"run", "check"}
      /\ cmd = "run" => Recording
      /\ cmd = "check" => Checking
  BY DEF Commands
<1>2. /\ pc = "minimise" /\ Minimising
      /\ pc' = (IF phase' = "looking" THEN pc ELSE IF cmd = "run" THEN "history" ELSE "verdict")
      /\ UNCHANGED <<cmd, asked, history, verdict, exit, file, disk, past>>
  BY DEF Minimises
<1>3. Cutting'
  BY <1>1, <1>2, MinimisingCuts
<1>4. phase = "looking" /\ phase' # "idle" /\ UNCHANGED ops
  BY <1>2 DEF Minimising, Fails, Passes, Undecided, Report, Probe
<1>5. OnDisk'
  BY <1>1, <1>2 DEF OnDisk
<1>7. CASE cmd = "run"
  <2>1. Recording
    BY <1>1, <1>7
  <2>2. /\ past.exit = Running /\ disk["counterexample"] = {} /\ history \in Recorded /\ Judged(history)
        /\ exit = Running
    BY <1>2, <2>1 DEF Recording, Working
  <2>3. Judged(history)'
    BY <1>2, <1>4, <2>2 DEF Judged
  <2>4. pc' \in {"minimise", "history"}
    BY <1>2, <1>7
  <2>5. Recording'
    BY <1>2, <2>2, <2>3, <2>4 DEF Recording, Working
  <2> QED BY <1>2, <1>3, <1>5, <1>7, <2>5 DEF Commands
<1>8. CASE cmd = "check"
  <2>1. Checking
    BY <1>1, <1>8
  <2>2. FromFile
    BY <1>4, <2>1 DEF Checking
  <2>3. FromFile'
    BY <1>2, <1>4, <2>2 DEF FromFile, Judged, Readable, Content
  <2>4. pc' \in {"minimise", "verdict"}
    BY <1>2, <1>8
  <2>5. (file # "by hand" /\ Concluded => file \in asked /\ \E h : Wrote(h, past.verdict))'
    BY <1>2, <2>1 DEF Checking, Concluded, Wrote, HistoryWritten, CounterexampleWritten
  <2>6. Checking'
    BY <2>3, <2>4, <2>5 DEF Checking
  <2> QED BY <1>2, <1>3, <1>5, <1>8, <2>6 DEF Commands
<1> QED BY <1>1, <1>7, <1>8

-----------------------------------------------------------------------------
(***************************************************************************)
(* The files: what Save and SaveCounterexample put in them, and what a crash *)
(* in the middle of either leaves (history.go:187-216).                    *)
(***************************************************************************)
LEMMA TornAreLines ==
  ASSUME NEW lines \in Seq(Line), NEW part \in Torn(lines)
  PROVE  part \in Seq(Line)
<1>1. \A k \in 0..(Len(lines) - 1) : SubSeq(lines, 1, k) \in Seq(Line)
  <2> TAKE k \in 0..(Len(lines) - 1)
  <2>1. \A i \in 1..k : lines[i] \in Line
    OBVIOUS
  <2> QED BY <2>1
<1>2. \A k \in 0..(Len(lines) - 1) : Append(SubSeq(lines, 1, k), Garbage) \in Seq(Line)
  BY <1>1, GarbageIsALine
<1> QED BY <1>1, <1>2 DEF Torn

LEMMA WritesLines ==
  ASSUME OnDisk, NEW path \in Files, NEW lines \in Seq(Line), NEW next, Writes(path, lines, next)
  PROVE  /\ disk' \in [Files -> SUBSET Seq(Line)]
         /\ \/ disk' = [disk EXCEPT ![path] = {lines}] /\ pc' = next /\ exit' = exit
            \/ pc' = "exited" /\ exit' = 2
<1>1. disk \in [Files -> SUBSET Seq(Line)]
  BY DEF OnDisk
<1>2. CASE disk' = [disk EXCEPT ![path] = {lines}] /\ pc' = next /\ UNCHANGED exit
  BY <1>1, <1>2
<1>3. CASE /\ disk' = disk \/ \E part \in Torn(lines) : disk' = [disk EXCEPT ![path] = {part}]
           /\ Leave("other")
  <2>1. pc' = "exited" /\ exit' = 2
    BY <1>3, LeavesBadly
  <2>2. disk' \in [Files -> SUBSET Seq(Line)]
    <3>1. CASE disk' = disk
      BY <1>1, <3>1
    <3>2. CASE \E part \in Torn(lines) : disk' = [disk EXCEPT ![path] = {part}]
      <4>1. PICK part \in Torn(lines) : disk' = [disk EXCEPT ![path] = {part}]
        BY <3>2
      <4>2. part \in Seq(Line)
        BY TornAreLines
      <4> QED BY <1>1, <4>1, <4>2
    <3> QED BY <1>3, <3>1, <3>2
  <2> QED BY <2>1, <2>2
<1> QED BY <1>2, <1>3 DEF Writes

LEMMA WriteOutKeeps ==
  ASSUME Commands, WriteOut
  PROVE  Commands'
<1>1. /\ Cutting /\ OnDisk /\ cmd \in {"run", "check"}
      /\ cmd = "run" => Recording
      /\ cmd = "check" => Checking
  BY DEF Commands
<1>2. /\ pc = "history"
      /\ IF "history" \in asked THEN Writes("history", Save(history), "counterexample") ELSE Skips("counterexample")
      /\ UNCHANGED <<vars, cmd, asked, history, verdict, file, past>>
  BY DEF WriteOut
<1>3. cmd = "run" /\ Recording
  BY <1>1, <1>2 DEF Checking
<1>4. /\ past.exit = Running /\ disk["counterexample"] = {} /\ history \in Recorded /\ Judged(history)
      /\ exit = Running
  BY <1>2, <1>3 DEF Recording, Working
<1>5. Cutting' /\ cmd' = "run"
  BY <1>1, <1>2, <1>3, StillCuts
<1>6. Save(history) \in Seq(Line)
  BY <1>4, HistoryReads
<1>7. Judged(history)'
  BY <1>2, <1>4 DEF Judged, vars
<1>8. /\ disk' \in [Files -> SUBSET Seq(Line)]
      /\ \/ pc' = "exited" /\ exit' = 2
         \/ /\ pc' = "counterexample" /\ exit' = exit
            /\ "history" \in asked => disk'["history"] = {Save(history)}
            /\ disk'["counterexample"] = {}
  <2>1. disk \in [Files -> SUBSET Seq(Line)]
    BY <1>1 DEF OnDisk
  <2>2. CASE "history" \in asked
    <3>1. "history" \in Files /\ "counterexample" \in Files
      BY DEF Files
    <3>2. Writes("history", Save(history), "counterexample")
      BY <1>2, <2>2
    <3>3. /\ disk' \in [Files -> SUBSET Seq(Line)]
          /\ \/ disk' = [disk EXCEPT !["history"] = {Save(history)}] /\ pc' = "counterexample" /\ exit' = exit
             \/ pc' = "exited" /\ exit' = 2
      BY <1>1, <1>6, <3>1, <3>2, WritesLines
    <3> QED BY <1>4, <2>1, <3>1, <3>3
  <2>3. CASE "history" \notin asked
    <3>1. pc' = "counterexample" /\ UNCHANGED <<disk, exit>>
      BY <1>2, <2>3 DEF Skips
    <3> QED BY <1>4, <2>1, <2>3, <3>1
  <2> QED BY <2>2, <2>3
<1>9. OnDisk'
  BY <1>1, <1>2, <1>8 DEF OnDisk
<1>10. Recording'
  <2>1. CASE pc' = "exited" /\ exit' = 2
    BY <1>2, <1>4, <2>1 DEF Recording, Working
  <2>2. CASE /\ pc' = "counterexample" /\ exit' = exit
             /\ "history" \in asked => disk'["history"] = {Save(history)}
             /\ disk'["counterexample"] = {}
    <3>1. ("history" \in asked => HistoryWritten(history))'
      BY <1>2, <2>2 DEF HistoryWritten
    <3> QED BY <1>2, <1>4, <1>7, <2>2, <3>1 DEF Recording, Working
  <2> QED BY <1>8, <2>1, <2>2
<1> QED BY <1>5, <1>9, <1>10 DEF Commands

(* What a run reports is what it has found.                                *)
LEMMA ReportsFound ==
  ASSUME Cutting, Judged(history), history \in Recorded, Len(trunc) > 0
  PROVE  \E key : Reports(history, key, lo, trunc)
<1>1. /\ Settled(ops) /\ cuts = Truncations(ops) /\ Interval /\ Outcome /\ Bracketed
  BY DEF Cutting
<1>2. phase = "found"
  <2> SUFFICES ASSUME phase # "found" PROVE FALSE
    OBVIOUS
  <2>1. trunc = <<>>
    BY <1>1 DEF Outcome
  <2>2. Len(trunc) = 0
    BY <2>1
  <2> QED BY <2>2
<1>3. lo = hi /\ trunc = cuts[lo]
  BY <1>1, <1>2 DEF Outcome
<1>4. PICK key : ops = Slice(history, key)
  BY <1>2 DEF Judged
<1>5. lo \in Nat /\ hi \in Nat /\ hi <= Final(ops) /\ Final(ops) \in Nat
  BY <1>1 DEF Interval
<1>6. /\ \A i \in 0..(lo - 1) : Linearizable(cuts[i])
      /\ \A i \in hi..Final(ops) : ~Linearizable(cuts[i])
  BY <1>1, <1>2 DEF Bracketed
<1>7. lo \in 0..Final(ops) /\ lo \in hi..Final(ops)
  BY <1>3, <1>5
<1>8. ~Linearizable(trunc)
  BY <1>3, <1>6, <1>7
<1> QED BY <1>1, <1>3, <1>4, <1>6, <1>7, <1>8 DEF Reports

LEMMA WriteCounterexampleKeeps ==
  ASSUME Commands, WriteCounterexample
  PROVE  Commands'
<1>1. /\ Cutting /\ OnDisk /\ cmd \in {"run", "check"}
      /\ cmd = "run" => Recording
      /\ cmd = "check" => Checking
  BY DEF Commands
<1>2. /\ pc = "counterexample"
      /\ IF "counterexample" \in asked /\ Len(trunc) > 0
           THEN Writes("counterexample", Save(trunc), "verdict")
           ELSE Skips("verdict")
      /\ UNCHANGED <<vars, cmd, asked, history, verdict, file, past>>
  BY DEF WriteCounterexample
<1>3. cmd = "run" /\ Recording
  BY <1>1, <1>2 DEF Checking
<1>4. /\ past.exit = Running /\ disk["counterexample"] = {} /\ history \in Recorded /\ Judged(history)
      /\ exit = Running /\ ("history" \in asked => HistoryWritten(history))
  BY <1>2, <1>3 DEF Recording, Working
<1>5. Cutting' /\ cmd' = "run"
  BY <1>1, <1>2, <1>3, StillCuts
<1>6. Judged(history)'
  BY <1>2, <1>4 DEF Judged, vars
<1>7. disk \in [Files -> SUBSET Seq(Line)] /\ "history" \in Files /\ "counterexample" \in Files
  BY <1>1 DEF OnDisk, Files
<1>8. /\ disk' \in [Files -> SUBSET Seq(Line)]
      /\ \/ pc' = "exited" /\ exit' = 2
         \/ /\ pc' = "verdict" /\ exit' = exit
            /\ disk'["history"] = disk["history"]
            /\ disk'["counterexample"] = {} \/ \E lines : disk'["counterexample"] = {lines} /\ Reproduces(lines)
  <2>1. CASE "counterexample" \in asked /\ Len(trunc) > 0
    <3>1. PICK key : Reports(history, key, lo, trunc)
      BY <1>1, <1>4, <2>1, ReportsFound
    <3>2. Save(trunc) \in Seq(Line) /\ Reproduces(Save(trunc))
      BY <3>1, CounterexampleReads DEF Reproduces
    <3>3. Writes("counterexample", Save(trunc), "verdict")
      BY <1>2, <2>1
    <3>4. /\ disk' \in [Files -> SUBSET Seq(Line)]
          /\ \/ disk' = [disk EXCEPT !["counterexample"] = {Save(trunc)}] /\ pc' = "verdict" /\ exit' = exit
             \/ pc' = "exited" /\ exit' = 2
      BY <1>1, <1>7, <3>2, <3>3, WritesLines
    <3> QED BY <1>7, <3>2, <3>4
  <2>2. CASE ~ ("counterexample" \in asked /\ Len(trunc) > 0)
    <3>1. pc' = "verdict" /\ UNCHANGED <<disk, exit>>
      BY <1>2, <2>2 DEF Skips
    <3> QED BY <1>4, <1>7, <3>1
  <2> QED BY <2>1, <2>2
<1>9. OnDisk'
  BY <1>1, <1>2, <1>8 DEF OnDisk
<1>10. Recording'
  <2>1. CASE pc' = "exited" /\ exit' = 2
    BY <1>2, <1>4, <2>1 DEF Recording, Working
  <2>2. CASE /\ pc' = "verdict" /\ exit' = exit
             /\ disk'["history"] = disk["history"]
             /\ disk'["counterexample"] = {} \/ \E lines : disk'["counterexample"] = {lines} /\ Reproduces(lines)
    <3>1. ("history" \in asked => HistoryWritten(history))'
      BY <1>2, <1>4, <2>2 DEF HistoryWritten
    <3>2. CounterexampleWritten'
      BY <2>2 DEF CounterexampleWritten
    <3> QED BY <1>2, <1>4, <1>6, <2>2, <3>1, <3>2 DEF Recording, Working
  <2> QED BY <1>8, <2>1, <2>2
<1> QED BY <1>5, <1>9, <1>10 DEF Commands

-----------------------------------------------------------------------------
(***************************************************************************)
(* The end of a command, the next one, and files nobody wrote with a run.  *)
(***************************************************************************)
LEMMA ConcludeKeeps ==
  ASSUME Commands, Conclude
  PROVE  Commands'
<1>1. /\ Cutting /\ OnDisk /\ cmd \in {"run", "check"}
      /\ cmd = "run" => Recording
      /\ cmd = "check" => Checking
  BY DEF Commands
<1>2. /\ pc = "verdict"
      /\ Leave("other") \/ \E expect \in Expectations : Leave(CheckExpectation(expect, verdict))
      /\ UNCHANGED <<vars, cmd, asked, history, verdict, file, disk, past>>
  BY DEF Conclude
<1>3. pc' = "exited" /\ (exit' \in {0, 1} => verdict # "unknown")
  <2>1. CASE Leave("other")
    BY <2>1, LeavesBadly
  <2>2. CASE \E expect \in Expectations : Leave(CheckExpectation(expect, verdict))
    <3>1. PICK expect \in Expectations : Leave(CheckExpectation(expect, verdict))
      BY <2>2
    <3>2. pc' = "exited" /\ exit' = ExitFor(CheckExpectation(expect, verdict))
      BY <3>1 DEF Leave
    <3>3. verdict = "unknown" => CheckExpectation(expect, verdict) \in {"other", "noVerdict"}
      BY DEF CheckExpectation
    <3>4. verdict = "unknown" => exit' = 2
      BY <3>2, <3>3 DEF ExitFor
    <3> QED BY <3>2, <3>4
  <2> QED BY <1>2, <2>1, <2>2
<1>4. Cutting' /\ OnDisk'
  BY <1>1, <1>2, StillCuts DEF OnDisk
<1>5. CASE cmd = "run"
  <2>1. Recording
    BY <1>1, <1>5
  <2>2. /\ past.exit = Running /\ history \in Recorded /\ Judged(history)
        /\ ("history" \in asked => HistoryWritten(history)) /\ CounterexampleWritten
    BY <1>2, <2>1 DEF Recording, Working
  <2>3. verdict # "unknown" => Wrote(history, verdict)
    BY <2>2 DEF Wrote, Judged
  <2>4. (exit \in {0, 1} => Wrote(history, verdict))'
    BY <1>2, <1>3, <2>3 DEF Wrote, HistoryWritten, CounterexampleWritten
  <2>5. Recording'
    BY <1>2, <1>3, <2>2, <2>4 DEF Recording, Working
  <2> QED BY <1>2, <1>4, <1>5, <2>5 DEF Commands
<1>6. CASE cmd = "check"
  <2>1. Checking
    BY <1>1, <1>6
  <2>2. (file # "by hand" /\ Concluded => file \in asked /\ \E h : Wrote(h, past.verdict))'
    BY <1>2, <2>1 DEF Checking, Concluded, Wrote, HistoryWritten, CounterexampleWritten
  <2>3. ((verdict = "unknown" /\ phase = "idle") \/ FromFile)'
    BY <1>2, <2>1 DEF Checking, FromFile, Judged, Readable, Content, vars
  <2>4. Checking'
    BY <1>3, <2>2, <2>3 DEF Checking
  <2> QED BY <1>2, <1>4, <1>6, <2>4 DEF Commands
<1> QED BY <1>1, <1>5, <1>6

LEMMA NothingSettled == Settled(<<>>)
BY DEF Settled

LEMMA AgainKeeps ==
  ASSUME Commands, Again
  PROVE  Commands'
<1>1. /\ Cutting /\ OnDisk /\ (cmd = "run" => Recording)
  BY DEF Commands
<1>2. /\ cmd = "run" /\ pc = "exited"
      /\ past' = [verdict |-> verdict, exit |-> exit]
      /\ cmd' = "check" /\ pc' = "check" /\ exit' = Running
      /\ file' \in asked
      /\ verdict' = "unknown" /\ Holding(<<>>, "idle")
      /\ UNCHANGED <<asked, disk>>
  BY DEF Again
<1>3. Cutting'
  BY <1>2, HoldingCuts, NothingSettled
<1>4. phase' = "idle"
  BY <1>2 DEF Holding
<1>5. OnDisk'
  <2>1. file' \in Files
    BY <1>1, <1>2 DEF OnDisk, Files
  <2> QED BY <1>1, <1>2, <2>1 DEF OnDisk
<1>6. exit \in {0, 1} => Wrote(history, verdict)
  BY <1>1, <1>2 DEF Recording
<1>7. (Concluded => file \in asked /\ \E h : Wrote(h, past.verdict))'
  <2> SUFFICES ASSUME Concluded' PROVE (file \in asked)' /\ (\E h : Wrote(h, past.verdict))'
    OBVIOUS
  <2>1. exit \in {0, 1} /\ past'.verdict = verdict
    BY <1>2 DEF Concluded
  <2>2. Wrote(history, verdict)
    BY <1>6, <2>1
  <2>3. PICK h : h = history
    OBVIOUS
  <2>4. Wrote(h, past.verdict)'
    BY <1>2, <2>1, <2>2, <2>3 DEF Wrote, HistoryWritten, CounterexampleWritten
  <2> QED BY <1>2, <2>4
<1>8. Checking'
  BY <1>2, <1>4, <1>7 DEF Checking
<1> QED BY <1>2, <1>3, <1>5, <1>8 DEF Commands

LEMMA ByHandKeeps ==
  ASSUME Commands, ByHand
  PROVE  Commands'
<1>1. /\ Cutting /\ OnDisk /\ (cmd = "run" => Recording)
  BY DEF Commands
<1>2. /\ cmd = "run" /\ pc = "start"
      /\ \E lines \in HandWritten : disk' = [disk EXCEPT !["by hand"] = {lines}]
      /\ cmd' = "check" /\ pc' = "check"
      /\ UNCHANGED <<vars, asked, history, verdict, exit, file, past>>
  BY DEF ByHand
<1>3. past.exit = Running /\ verdict = "unknown" /\ phase = "idle"
  BY <1>1, <1>2 DEF Recording
<1>4. Cutting'
  BY <1>1, <1>2, StillCuts
<1>5. OnDisk'
  <2>1. PICK lines \in HandWritten : disk' = [disk EXCEPT !["by hand"] = {lines}]
    BY <1>2
  <2>2. lines \in Seq(Line)
    BY CommandAssumption
  <2> QED BY <1>1, <1>2, <2>1, <2>2 DEF OnDisk
<1>6. ~Concluded'
  <2>1. past' = past
    BY <1>2
  <2>2. past'.exit = 3
    BY <1>3, <2>1 DEF Running
  <2> QED BY <2>2 DEF Concluded
<1>7. Checking'
  BY <1>2, <1>3, <1>6 DEF Checking, vars
<1> QED BY <1>2, <1>4, <1>5, <1>7 DEF Commands

LEMMA ContentIs ==
  ASSUME OnDisk, NEW path \in Files, Readable(path)
  PROVE  /\ Content(path) \in Seq(Line) /\ Content(path) \in disk[path]
         /\ Loads(Content(path)) /\ Validate(Load(Content(path))) /\ Settled(Load(Content(path)))
<1>1. disk[path] \in SUBSET Seq(Line)
  BY DEF OnDisk
<1>2. disk[path] # {} /\ \A lines \in disk[path] : Loads(lines) /\ Validate(Load(lines))
  BY DEF Readable
<1>3. Content(path) \in disk[path]
  BY <1>2 DEF Content
<1> QED BY <1>1, <1>2, <1>3, ReadIsSettled

LEMMA CheckKeeps ==
  ASSUME Commands, Check
  PROVE  Commands'
<1>1. /\ Cutting /\ OnDisk /\ cmd \in {"run", "check"}
      /\ cmd = "run" => Recording
      /\ cmd = "check" => Checking
  BY DEF Commands
<1>2. pc = "check" /\ UNCHANGED <<cmd, asked, file, disk, past>>
  BY DEF Check
<1>3. cmd = "check" /\ Checking
  BY <1>1, <1>2 DEF Recording, Working
<1>4. verdict = "unknown" /\ phase = "idle"
  BY <1>2, <1>3 DEF Checking
<1>5. OnDisk' /\ cmd' = "check"
  BY <1>1, <1>2, <1>3 DEF OnDisk
<1>6. (file # "by hand" /\ Concluded => file \in asked /\ \E h : Wrote(h, past.verdict))'
  BY <1>2, <1>3 DEF Checking, Concluded, Wrote, HistoryWritten, CounterexampleWritten
<1>7. CASE ~Readable(file) /\ Leave("other") /\ UNCHANGED <<vars, history, verdict>>
  <2>1. pc' = "exited"
    BY <1>7, LeavesBadly
  <2>2. Cutting'
    BY <1>1, <1>7, StillCuts
  <2>3. verdict' = "unknown" /\ phase' = "idle"
    BY <1>4, <1>7 DEF vars
  <2>4. Checking'
    BY <1>6, <2>1, <2>3 DEF Checking
  <2> QED BY <1>5, <2>2, <2>4 DEF Commands
<1>8. CASE Readable(file) /\ Judges(Load(Content(file)), "verdict") /\ UNCHANGED exit
  <2>1. Settled(Load(Content(file)))
    BY <1>1, <1>8, ContentIs DEF OnDisk
  <2> DEFINE h == Load(Content(file))
  <2>2. Judges(h, "verdict") /\ Settled(h)
    BY <1>8, <2>1
  <2> HIDE DEF h
  <2>3. /\ Cutting'
        /\ history' = h /\ verdict' \in {ExactlyAll(h), "unknown"}
        /\ \/ pc' = "minimise" /\ phase' = "looking" /\ \E k \in Keys(DropFailed(h)) : ops' = Slice(h, k)
           \/ pc' = "verdict" /\ UNCHANGED vars
    BY <1>1, <2>2, JudgesCuts
  <2>4. phase' # "idle" => \E k \in Keys(DropFailed(h)) : ops' = Slice(h, k)
    BY <1>4, <2>3 DEF vars
  <2>5. Readable(file)'
    BY <1>2, <1>8 DEF Readable
  <2>6. (Load(Content(file)))' = h
    BY <1>2 DEF Content, h
  <2>7. FromFile'
    BY <2>3, <2>4, <2>5, <2>6 DEF FromFile, Judged
  <2>8. pc' \in {"minimise", "verdict"}
    BY <2>3
  <2>9. Checking'
    BY <1>6, <2>7, <2>8 DEF Checking
  <2> QED BY <1>5, <2>3, <2>9 DEF Commands
<1> QED BY <1>7, <1>8 DEF Check

LEMMA StillCommands ==
  ASSUME Commands, UNCHANGED allVars
  PROVE  Commands'
<1>1. UNCHANGED vars /\ UNCHANGED session
  BY DEF allVars
<1>2. Cutting'
  BY <1>1, StillCuts DEF Commands
<1>3. UNCHANGED <<cmd, pc, asked, history, verdict, exit, file, disk, past>> /\ UNCHANGED phase /\ UNCHANGED ops
  BY <1>1 DEF session, vars
<1>4. OnDisk'
  BY <1>3 DEF Commands, OnDisk
<1>5. (cmd = "run" => Recording)'
  BY <1>3 DEF Commands, Recording, Judged, Wrote, HistoryWritten, CounterexampleWritten
<1>6. (cmd = "check" => Checking)'
  BY <1>3 DEF Commands, Checking, FromFile, Readable, Content, Judged, Concluded, Wrote,
              HistoryWritten, CounterexampleWritten
<1> QED BY <1>2, <1>3, <1>4, <1>5, <1>6 DEF Commands

(***************************************************************************)
(* Whatever a run and the check after it go through, a crash inside a      *)
(* write, a file left torn, a file written by hand: a run that came to an  *)
(* end with a verdict left what it was asked to write, and what a check    *)
(* judges is what the file in front of it reads as (main.go:313-433,       *)
(* history.go:187-355).                                                    *)
(***************************************************************************)
THEOREM CommandsHold == CommandSpec => []Commands
<1>1. Commands /\ [CommandNext]_allVars => Commands'
  BY RunKeeps, MinimisesKeeps, WriteOutKeeps, WriteCounterexampleKeeps, ConcludeKeeps, AgainKeeps,
     ByHandKeeps, CheckKeeps, StillCommands DEF CommandNext
<1> QED BY <1>1, CommandsBegin, PTL DEF CommandSpec

-----------------------------------------------------------------------------
(* What every conclusion of a check comes to.                              *)
LEMMA CheckedIs ==
  ASSUME Commands, Checked
  PROVE  /\ Cutting /\ OnDisk
         /\ file # "by hand" /\ Concluded => file \in asked /\ \E h : Wrote(h, past.verdict)
         /\ (verdict = "unknown" /\ phase = "idle") \/ FromFile
BY DEF Commands, Checked, Checking

LEMMA OneContent ==
  ASSUME NEW path, NEW lines, disk[path] = {lines}
  PROVE  /\ Content(path) = lines
         /\ Loads(lines) /\ Validate(Load(lines)) => Readable(path)
BY DEF Content, Readable

LEMMA RecheckHolds ==
  ASSUME Commands
  PROVE  RecheckAgrees
<1> SUFFICES ASSUME Checked, file = "history", Concluded
             PROVE  Readable("history") /\ verdict \in {past.verdict, "unknown"}
  BY DEF RecheckAgrees
<1>1. /\ file \in asked /\ \E h : Wrote(h, past.verdict)
      /\ (verdict = "unknown" /\ phase = "idle") \/ FromFile
  BY CheckedIs
<1>2. PICK h : Wrote(h, past.verdict)
  BY <1>1
<1>3. h \in Recorded /\ disk["history"] = {Save(h)} /\ past.verdict = ExactlyAll(h)
  BY <1>1, <1>2 DEF Wrote, HistoryWritten
<1>4. /\ Loads(Save(h)) /\ Validate(Load(Save(h)))
      /\ ExactlyAll(Load(Save(h))) = ExactlyAll(h)
  BY <1>3, HistoryReads
<1>5. Content("history") = Save(h) /\ Readable("history")
  BY <1>3, <1>4, OneContent
<1>6. ASSUME FromFile PROVE verdict \in {past.verdict, "unknown"}
  BY <1>3, <1>4, <1>5, <1>6 DEF FromFile, Judged
<1> QED BY <1>1, <1>5, <1>6

LEMMA StandsHolds ==
  ASSUME Commands
  PROVE  CounterexampleStands
<1> SUFFICES ASSUME Checked, file = "counterexample", Concluded, disk["counterexample"] # {}
             PROVE  /\ Readable("counterexample")
                    /\ verdict \in {"not linearizable", "unknown"}
                    /\ phase = "found" => trunc = SortByInvoke(ops)
  BY DEF CounterexampleStands
<1>1. /\ Cutting /\ \E h : Wrote(h, past.verdict)
      /\ (verdict = "unknown" /\ phase = "idle") \/ FromFile
  BY CheckedIs
<1>2. \E lines : disk["counterexample"] = {lines} /\ Reproduces(lines)
  BY <1>1 DEF Wrote, CounterexampleWritten
<1>3. PICK h, key, k, T : Reports(h, key, k, T) /\ disk["counterexample"] = {Save(T)}
  BY <1>2 DEF Reproduces
<1> DEFINE B == Load(Save(T))
           g == Slice(B, key)
<1>4. /\ Loads(Save(T)) /\ Validate(B)
      /\ ExactlyAll(B) = "not linearizable"
      /\ \A l \in Keys(DropFailed(B)) : l = key
      /\ \A i \in 0..(Final(g) - 1) : Linearizable(Truncations(g)[i])
  BY <1>3, CounterexampleReads
<1>5. Content("counterexample") = Save(T) /\ Readable("counterexample")
  BY <1>3, <1>4, OneContent
<1> HIDE DEF B, g
<1>6. ASSUME FromFile PROVE verdict \in {"not linearizable", "unknown"}
  BY <1>4, <1>5, <1>6 DEF FromFile, Judged, B
<1>7. ASSUME phase = "found" PROVE trunc = SortByInvoke(ops)
  <2>1. FromFile
    BY <1>1, <1>7
  <2>2. ops = g
    <3>1. PICK l \in Keys(DropFailed(B)) : ops = Slice(B, l)
      BY <1>5, <1>7, <2>1 DEF FromFile, Judged, B
    <3> QED BY <1>4, <3>1 DEF g
  <2>3. /\ Settled(ops) /\ cuts = Truncations(ops) /\ Interval /\ Outcome /\ Bracketed
    BY <1>1 DEF Cutting
  <2>4. lo = hi /\ trunc = cuts[lo]
    BY <1>7, <2>3 DEF Outcome
  <2>5. \A i \in hi..Final(ops) : ~Linearizable(cuts[i])
    BY <1>7, <2>3 DEF Bracketed
  <2>6. lo \in Nat /\ hi \in Nat /\ hi <= Final(ops) /\ Final(ops) \in Nat
    BY <2>3 DEF Interval
  <2>7. lo = Final(ops)
    <3> SUFFICES ASSUME lo # Final(ops) PROVE FALSE
      OBVIOUS
    <3>1. lo \in 0..(Final(ops) - 1) /\ lo \in hi..Final(ops)
      BY <2>4, <2>6
    <3>2. Linearizable(cuts[lo])
      BY <1>4, <2>2, <2>3, <3>1
    <3> QED BY <2>5, <3>1, <3>2
  <2> QED BY <2>3, <2>4, <2>7, TruncationsJudged
<1> QED BY <1>1, <1>5, <1>6, <1>7

LEMMA BlanksHold ==
  ASSUME Commands
  PROVE  BlanksMeanNothing
<1> SUFFICES ASSUME Checked, file = "by hand", verdict \in Decided, Readable("by hand"),
                    NEW i \in DOMAIN Content("by hand"), NEW line \in Fillings(Content("by hand")[i])
             PROVE  verdict = ExactlyAll(Load([Content("by hand") EXCEPT ![i] = line]))
  BY DEF BlanksMeanNothing
<1>1. OnDisk /\ ((verdict = "unknown" /\ phase = "idle") \/ FromFile)
  BY CheckedIs
<1>2. verdict # "unknown"
  BY DEF Decided
<1> DEFINE lines == Content("by hand")
<1>3. verdict = ExactlyAll(Load(lines))
  BY <1>1, <1>2 DEF FromFile, Judged
<1>4. lines \in Seq(Line) /\ Loads(lines) /\ Validate(Load(lines))
  BY <1>1, ContentIs DEF OnDisk
<1>5. i \in DOMAIN lines /\ line \in Fillings(lines[i])
  OBVIOUS
<1> HIDE DEF lines
<1>6. ExactlyAll(Load([lines EXCEPT ![i] = line])) = ExactlyAll(Load(lines))
  BY <1>4, <1>5, FilledInReads
<1> QED BY <1>3, <1>6 DEF lines

-----------------------------------------------------------------------------
(* The binary search is entitled to its conclusions, whatever the history  *)
(* and wherever the probes fall: what it has ruled out linearizes, at the  *)
(* times it never probed as well, what is left does not, and the interval  *)
(* halves with every search (checker.go:881-908).                          *)
THEOREM BinarySearchIsEntitled == CommandSpec => []Bracketed
<1>1. Commands => Bracketed
  BY DEF Commands, Cutting
<1> QED BY <1>1, CommandsHold, PTL

(* A history saved and checked again is read, well formed, and judged as   *)
(* it was, in spite of what toWire leaves out and of Save's sorting        *)
(* (history.go:187-216, 309-355).                                          *)
THEOREM SavingKeepsTheVerdict == CommandSpec => []RecheckAgrees
BY RecheckHolds, CommandsHold, PTL

(* The counterexample a run writes is a well-formed history of its own, a  *)
(* violation, and cannot be cut any further (checker.go:853-884).          *)
THEOREM CounterexamplesReproduce == CommandSpec => []CounterexampleStands
BY StandsHolds, CommandsHold, PTL

(* A field a line leaves out, and is read and passed by Validate without,  *)
(* is never looked at: whatever it might have held, the verdict over every *)
(* key is the same (history.go:218-305, 446-448; checker.go:151-211).      *)
THEOREM BlanksAreNotLookedAt == CommandSpec => []BlanksMeanNothing
BY BlanksHold, CommandsHold, PTL

=============================================================================
