------------------------ MODULE LinearizabilityProofs ------------------------
(***************************************************************************)
(* What a history's judgement depends on, for histories of every length.   *)
(***************************************************************************)
EXTENDS Linearizability, TLAPS, FunctionTheorems, FiniteSetTheorems, SequenceTheorems,
  NaturalsInduction, WellFoundedInduction

(* A non-empty set of numbers has a least one.                             *)
LEMMA LeastNumber ==
  ASSUME NEW T \in SUBSET Nat, T # {}
  PROVE  \E i \in T : \A j \in T : i <= j
<1> DEFINE Below == {ss \in Nat \X Nat : ss[1] < ss[2]}
<1>1. IsWellFoundedOn(Below, Nat)
  BY NatLessThanWellFounded DEF OpToRel
<1> HIDE DEF Below
<1>2. PICK i \in T : \A j \in T : ~(<<j, i>> \in Below)
  BY <1>1, WFMin
<1>3. ASSUME NEW j \in T, ~(i <= j) PROVE FALSE
  <2>1. i \in Nat /\ j \in Nat /\ j < i
    BY <1>3
  <2>2. <<j, i>> \in Nat \X Nat /\ <<j, i>>[1] < <<j, i>>[2]
    BY <2>1
  <2>3. <<j, i>> \in Below
    BY <2>2, Zenon DEF Below
  <2> QED  BY <1>2, <2>3
<1> QED  BY <1>3

LEMMA Numbered ==
  ASSUME NEW n \in Nat
  PROVE  IsFiniteSet(1..n) /\ Cardinality(1..n) = n
<1>1. Cardinality(1..n) = (IF 1 > n THEN 0 ELSE n - 1 + 1) /\ IsFiniteSet(1..n)
  BY FS_Interval
<1> QED BY <1>1

-----------------------------------------------------------------------------
(***************************************************************************)
(* Ranking.  R orders a finite set S; an element's rank is one more than   *)
(* the number of those before it.                                          *)
(***************************************************************************)
Orders2(R, S) ==
  /\ \A i \in S : <<i, i>> \notin R
  /\ \A i, j, k \in S : <<i, j>> \in R /\ <<j, k>> \in R => <<i, k>> \in R
  /\ \A i, j \in S : i # j => <<i, j>> \in R \/ <<j, i>> \in R

Standing(R, S, i) == 1 + Cardinality({j \in S : <<j, i>> \in R})

(* The ranks are the numbers up to the size of the set, each once and in   *)
(* the order.                                                              *)
LEMMA Ranked ==
  ASSUME NEW S, IsFiniteSet(S), NEW R, Orders2(R, S)
  PROVE  /\ \A i \in S : Standing(R, S, i) \in 1..Cardinality(S)
         /\ \A i, j \in S : <<i, j>> \in R => Standing(R, S, i) < Standing(R, S, j)
         /\ \A k \in 1..Cardinality(S) : \E i \in S : Standing(R, S, i) = k
<1> DEFINE D(i) == {j \in S : <<j, i>> \in R}
           N == Cardinality(S)
<1>1. N \in Nat
  BY FS_CardinalityType
<1>2. \A i \in S : IsFiniteSet(D(i)) /\ Cardinality(D(i)) \in Nat /\ Cardinality(D(i)) <= N
  <2> TAKE i \in S
  <2>1. D(i) \in SUBSET S
    OBVIOUS
  <2> QED BY <2>1, FS_Subset, FS_CardinalityType
<1>3. \A i \in S : Cardinality(D(i)) < N
  <2> TAKE i \in S
  <2>1. D(i) \in SUBSET S /\ i \notin D(i)
    BY DEF Orders2
  <2>2. Cardinality(D(i)) # N
    BY <2>1, FS_Subset
  <2> QED BY <1>1, <1>2, <2>2
<1>4. ASSUME NEW i \in S, NEW j \in S, <<i, j>> \in R
      PROVE  Cardinality(D(i)) < Cardinality(D(j))
  <2>1. D(i) \in SUBSET D(j) /\ i \in D(j) /\ i \notin D(i)
    BY <1>4 DEF Orders2
  <2>2. IsFiniteSet(D(j))
    BY <1>2
  <2>3. Cardinality(D(i)) <= Cardinality(D(j)) /\ Cardinality(D(i)) # Cardinality(D(j))
    <3> HIDE DEF D
    <3> QED BY <2>1, <2>2, FS_Subset
  <2>4. Cardinality(D(i)) \in Nat /\ Cardinality(D(j)) \in Nat
    BY <1>2
  <2> QED BY <2>3, <2>4
<1>5. \A i \in S : Standing(R, S, i) = 1 + Cardinality(D(i))
  BY DEF Standing
<1> HIDE DEF D
<1>6. \A i \in S : Standing(R, S, i) \in 1..N
  BY <1>1, <1>2, <1>3, <1>5
<1>7. ASSUME NEW i \in S, NEW j \in S, <<i, j>> \in R PROVE Standing(R, S, i) < Standing(R, S, j)
  BY <1>2, <1>4, <1>5, <1>7
<1> DEFINE f == [i \in S |-> Standing(R, S, i)]
<1>8. f \in Injection(S, 1..N)
  <2>1. f \in [S -> 1..N]
    BY <1>6
  <2>2. ASSUME NEW i \in S, NEW j \in S, i # j PROVE f[i] # f[j]
    <3>1. Standing(R, S, i) \in Nat /\ Standing(R, S, j) \in Nat
      BY <1>6
    <3>2. <<i, j>> \in R \/ <<j, i>> \in R
      BY <2>2 DEF Orders2
    <3>3. f[i] = Standing(R, S, i) /\ f[j] = Standing(R, S, j)
      OBVIOUS
    <3> HIDE DEF f
    <3> QED BY <1>7, <3>1, <3>2, <3>3
  <2> HIDE DEF f
  <2> QED BY <2>1, <2>2 DEF Injection, IsInjective
<1>9. f \in Surjection(S, 1..N)
  <2>1. IsFiniteSet(1..N) /\ Cardinality(1..N) = N
    BY <1>1, Numbered
  <2> HIDE DEF f
  <2> QED BY <1>8, <2>1, FS_Injection
<1>10. \A k \in 1..N : \E i \in S : Standing(R, S, i) = k
  BY <1>9 DEF Surjection
<1> QED BY <1>6, <1>7, <1>10

(* The elements in the order of their ranks.                               *)
Unranked(R, S) == [k \in 1..Cardinality(S) |-> CHOOSE i \in S : Standing(R, S, i) = k]

LEMMA UnrankedOrders ==
  ASSUME NEW S, IsFiniteSet(S), NEW R, Orders2(R, S)
  PROVE  LET f == Unranked(R, S)
             n == Cardinality(S)
         IN  /\ n \in Nat /\ f \in [1..n -> S]
             /\ \A j, k \in 1..n : f[j] = f[k] => j = k
             /\ \A i \in S : \E k \in 1..n : f[k] = i
             /\ \A j, k \in 1..n : j < k => <<f[j], f[k]>> \in R
<1> DEFINE f == Unranked(R, S)
           n == Cardinality(S)
<1>1. n \in Nat
  BY FS_CardinalityType
<1>2. /\ \A i \in S : Standing(R, S, i) \in 1..n
      /\ \A i, j \in S : <<i, j>> \in R => Standing(R, S, i) < Standing(R, S, j)
      /\ \A k \in 1..n : \E i \in S : Standing(R, S, i) = k
  BY Ranked
<1>3. \A k \in 1..n : f[k] \in S /\ Standing(R, S, f[k]) = k
  BY <1>2 DEF Unranked
<1>4. \A i \in S : f[Standing(R, S, i)] = i
  <2> TAKE i \in S
  <2> DEFINE k == Standing(R, S, i)
  <2>1. k \in 1..n
    BY <1>2
  <2>2. f[k] \in S /\ Standing(R, S, f[k]) = Standing(R, S, i)
    BY <1>3, <2>1
  <2>3. f[k] = i \/ Standing(R, S, f[k]) < Standing(R, S, i) \/ Standing(R, S, i) < Standing(R, S, f[k])
    BY <1>2, <2>2 DEF Orders2
  <2>4. Standing(R, S, i) \in Nat
    BY <2>1
  <2> QED BY <2>2, <2>3, <2>4
<1>5. ASSUME NEW j \in 1..n, NEW k \in 1..n, j < k PROVE <<f[j], f[k]>> \in R
  <2>1. f[j] \in S /\ f[k] \in S /\ Standing(R, S, f[j]) = j /\ Standing(R, S, f[k]) = k
    BY <1>3
  <2>2. f[j] # f[k] /\ ~ (Standing(R, S, f[k]) < Standing(R, S, f[j]))
    BY <1>5, <2>1
  <2> QED BY <1>2, <2>1, <2>2 DEF Orders2
<1>6. f \in [1..n -> S]
  BY <1>3 DEF Unranked
<1>7. \A j, k \in 1..n : f[j] = f[k] => j = k
  BY <1>3
<1>8. \A i \in S : \E k \in 1..n : f[k] = i
  BY <1>2, <1>4
<1> QED BY <1>1, <1>5, <1>6, <1>7, <1>8

-----------------------------------------------------------------------------
(***************************************************************************)
(* Selecting and sorting.                                                  *)
(***************************************************************************)
List(h, n) == n \in Nat /\ DOMAIN h = 1..n /\ Len(h) = n

LEMMA SeqList ==
  ASSUME NEW X, NEW h \in Seq(X)
  PROVE  List(h, Len(h)) /\ \A i \in DOMAIN h : h[i] \in X
BY DEF List

LEMMA MadeList ==
  ASSUME NEW n \in Nat, NEW f, DOMAIN f = 1..n, f = [k \in 1..n |-> f[k]],
         NEW X, \A k \in 1..n : f[k] \in X
  PROVE  List(f, n) /\ f \in Seq(X)
<1>1. f \in [1..n -> X]
  OBVIOUS
<1> QED BY <1>1 DEF List

(* h as f lays it out.                                                     *)
LaidOut(h, f, n) == [k \in 1..n |-> h[f[k]]]

LEMMA LaidOutList ==
  ASSUME NEW n \in Nat, NEW h, NEW f, NEW X, \A k \in 1..n : h[f[k]] \in X
  PROVE  List(LaidOut(h, f, n), n) /\ LaidOut(h, f, n) \in Seq(X)
<1> DEFINE g == LaidOut(h, f, n)
<1>1. DOMAIN g = 1..n /\ g = [k \in 1..n |-> g[k]] /\ \A k \in 1..n : g[k] \in X
  BY DEF LaidOut
<1> HIDE DEF g
<1>2. List(g, n) /\ g \in Seq(X)
  BY <1>1, MadeList
<1> QED BY <1>2 DEF g

LEMMA KeptLaysOut ==
  ASSUME NEW h, NEW S \in SUBSET Nat, IsFiniteSet(S)
  PROVE  \E n \in Nat : \E f \in [1..n -> S] :
           /\ \A j, k \in 1..n : j < k => f[j] < f[k]
           /\ \A i \in S : \E k \in 1..n : f[k] = i
           /\ Kept(h, S) = LaidOut(h, f, n)
           /\ n = Cardinality(S)
<1> DEFINE R == {ij \in S \X S : ij[1] < ij[2]}
           f == Unranked(R, S)
           n == Cardinality(S)
           e(k) == CHOOSE i \in S : 1 + Cardinality({j \in S : j < i}) = k
<1>1. \A i, j \in S : <<i, j>> \in R <=> i < j
  OBVIOUS
<1>2. \A i \in S : i \in Nat
  OBVIOUS
<1> HIDE DEF R
<1>3. Orders2(R, S)
  BY <1>1, <1>2 DEF Orders2
<1>4. \A i \in S : {j \in S : <<j, i>> \in R} = {j \in S : j < i}
  BY <1>1
<1>5. \A i \in S : Standing(R, S, i) = 1 + Cardinality({j \in S : j < i})
  BY <1>4 DEF Standing
<1>6. \A k \in 1..n : f[k] = e(k)
  <2> TAKE k \in 1..n
  <2>1. f[k] = CHOOSE i \in S : Standing(R, S, i) = k
    BY DEF Unranked
  <2>2. \A i \in S : (Standing(R, S, i) = k) <=> (1 + Cardinality({j \in S : j < i}) = k)
    BY <1>5
  <2> QED BY <2>1, <2>2
<1>7. /\ n \in Nat /\ f \in [1..n -> S]
      /\ \A i \in S : \E k \in 1..n : f[k] = i
      /\ \A j, k \in 1..n : j < k => <<f[j], f[k]>> \in R
  BY <1>3, UnrankedOrders
<1> HIDE DEF f
<1>8. \A j, k \in 1..n : j < k => f[j] < f[k]
  BY <1>1, <1>7
<1>9. Kept(h, S) = LaidOut(h, f, n)
  <2>1. Kept(h, S) = [k \in 1..n |-> h[e(k)]]
    BY DEF Kept
  <2> HIDE DEF e, n
  <2> QED BY <1>6, <2>1 DEF LaidOut
<1> QED BY <1>7, <1>8, <1>9

(* Every operation's times and process are numbers.                        *)
Timed(h) == \A i \in DOMAIN h : h[i].invoke \in Int /\ h[i].process \in Int

LEMMA SortLaysOut ==
  ASSUME NEW n, NEW h, List(h, n), Timed(h)
  PROVE  \E f \in [1..n -> 1..n] :
           /\ \A j, k \in 1..n : f[j] = f[k] => j = k
           /\ \A i \in 1..n : \E k \in 1..n : f[k] = i
           /\ SortByInvoke(h) = LaidOut(h, f, n)
           /\ \A j, k \in 1..n : j < k =>
                \/ InvokeLess(h[f[j]], h[f[k]])
                \/ ~InvokeLess(h[f[k]], h[f[j]]) /\ f[j] < f[k]
<1> DEFINE S == 1..n
           Before(i, j) == InvokeLess(h[i], h[j]) \/ (~InvokeLess(h[j], h[i]) /\ i < j)
           R == {ij \in S \X S : Before(ij[1], ij[2])}
           f == Unranked(R, S)
<1>0. n \in Nat /\ DOMAIN h = S /\ IsFiniteSet(S) /\ Cardinality(S) = n
  BY Numbered DEF List
<1>1. \A i, j \in S : <<i, j>> \in R <=> Before(i, j)
  OBVIOUS
<1>2. \A i \in S : i \in Nat /\ h[i].invoke \in Int /\ h[i].process \in Int
  BY <1>0 DEF Timed
<1>3. /\ \A i \in S : ~ Before(i, i)
      /\ \A i, j, k \in S : Before(i, j) /\ Before(j, k) => Before(i, k)
      /\ \A i, j \in S : i # j => Before(i, j) \/ Before(j, i)
  BY <1>2 DEF InvokeLess
<1> HIDE DEF R
<1>4. Orders2(R, S)
  <2> HIDE DEF Before, S
  <2>1. \A i \in S : <<i, i>> \notin R
    BY <1>1, <1>3
  <2>2. \A i, j, k \in S : <<i, j>> \in R /\ <<j, k>> \in R => <<i, k>> \in R
    BY <1>1, <1>3
  <2>3. \A i, j \in S : i # j => <<i, j>> \in R \/ <<j, i>> \in R
    BY <1>1, <1>3
  <2> QED BY <2>1, <2>2, <2>3 DEF Orders2
<1>5. \A i \in S : Standing(R, S, i) = 1 + Cardinality({j \in DOMAIN h : Before(j, i)})
  <2> TAKE i \in S
  <2>1. {j \in S : <<j, i>> \in R} = {j \in DOMAIN h : Before(j, i)}
    <3> HIDE DEF Before, S
    <3> QED BY <1>0, <1>1
  <2> QED BY <2>1 DEF Standing
<1>6. \A k \in S : f[k] = CHOOSE i \in DOMAIN h : 1 + Cardinality({j \in DOMAIN h : Before(j, i)}) = k
  <2> TAKE k \in S
  <2>1. f[k] = CHOOSE i \in S : Standing(R, S, i) = k
    BY <1>0 DEF Unranked
  <2>2. \A i \in S : (Standing(R, S, i) = k) <=> (1 + Cardinality({j \in DOMAIN h : Before(j, i)}) = k)
    BY <1>5
  <2> HIDE DEF Before, S
  <2> QED BY <1>0, <2>1, <2>2
<1>7. /\ f \in [1..n -> S]
      /\ \A j, k \in 1..n : f[j] = f[k] => j = k
      /\ \A i \in S : \E k \in 1..n : f[k] = i
      /\ \A j, k \in 1..n : j < k => <<f[j], f[k]>> \in R
  <2> HIDE DEF S
  <2> QED BY <1>0, <1>4, UnrankedOrders
<1>8. SortByInvoke(h) = LaidOut(h, f, n)
  <2>1. SortByInvoke(h) =
          [k \in DOMAIN h |-> h[CHOOSE i \in DOMAIN h : 1 + Cardinality({j \in DOMAIN h : Before(j, i)}) = k]]
    BY DEF SortByInvoke
  <2> HIDE DEF Before, f
  <2> QED BY <1>0, <1>6, <2>1 DEF LaidOut
<1> HIDE DEF f
<1>9. \A j, k \in 1..n : j < k => Before(f[j], f[k])
  <2> HIDE DEF Before
  <2> QED BY <1>1, <1>7
<1> QED BY <1>7, <1>8, <1>9

-----------------------------------------------------------------------------
(***************************************************************************)
(* What it is to be linearizable, with the values between the operations   *)
(* named: the definition computes them.                                    *)
(***************************************************************************)
Chain(h, n, p, g) ==
  /\ g[1] = InitialValue
  /\ \A k \in 1..n : Fits(g[k], h[p[k]]) /\ g[k+1] = After(g[k], h[p[k]])

LEMMA ReplayGivesChain ==
  ASSUME NEW h, NEW n, List(h, n), NEW p,
         Replays(h, Frames(h, p).frames, Frames(h, p).final)
  PROVE  \E g : Chain(h, n, p, g)
<1> DEFINE w == Frames(h, p).frames
           v == Frames(h, p).final
           g == [k \in 1..(n + 1) |-> IF k = n + 1 THEN v ELSE w[k].state]
<1>0. n \in Nat /\ DOMAIN h = 1..n
  BY DEF List
<1>1. \E b : Frames(h, p).frames = [k \in DOMAIN h |-> [op |-> p[k], state |-> b[k]]]
  BY Zenon DEF Frames
<1>2. PICK b : w = [k \in 1..n |-> [op |-> p[k], state |-> b[k]]]
  BY <1>0, <1>1
<1>3. DOMAIN w = 1..n /\ \A k \in 1..n : w[k].op = p[k] /\ w[k].state = b[k]
  BY <1>2
<1>4. List(w, n) /\ (n # 0 => w # <<>>) /\ (n = 0 => w = <<>>)
  <2> DEFINE X == {[op |-> p[k], state |-> b[k]] : k \in 1..n}
  <2>1. w = [k \in 1..n |-> w[k]] /\ \A k \in 1..n : w[k] \in X
    BY <1>2
  <2> HIDE DEF w, X
  <2>2. List(w, n) /\ w \in Seq(X)
    BY <1>0, <1>3, <2>1, MadeList
  <2> QED BY <2>2 DEF List
<1>5. Replays(h, w, v)
  OBVIOUS
<1> HIDE DEF w, v
<1>6. \A k \in 1..n : Fits(w[k].state, h[p[k]])
  BY <1>3, <1>5 DEF Replays
<1>7. \A k \in 1..n : After(w[k].state, h[p[k]]) = IF k = n THEN v ELSE w[k+1].state
  BY <1>3, <1>4, <1>5 DEF Replays, List
<1>8. g[1] = InitialValue
  <2>1. CASE n = 0
    BY <1>4, <1>5, <2>1 DEF Replays
  <2>2. CASE n # 0
    <3>1. w[1].state = InitialValue
      BY <1>4, <1>5, <2>2 DEF Replays
    <3> QED BY <1>0, <2>2, <3>1
  <2> QED BY <2>1, <2>2
<1>9. ASSUME NEW k \in 1..n PROVE Fits(g[k], h[p[k]]) /\ g[k+1] = After(g[k], h[p[k]])
  <2>1. k \in 1..(n+1) /\ k # n + 1 /\ k + 1 \in 1..(n+1) /\ (k + 1 = n + 1 <=> k = n)
    BY <1>0
  <2>2. g[k] = w[k].state /\ g[k+1] = IF k = n THEN v ELSE w[k+1].state
    BY <2>1
  <2> QED BY <1>6, <1>7, <2>2
<1> HIDE DEF g
<1>10. Chain(h, n, p, g)
  BY <1>8, <1>9 DEF Chain
<1> QED BY <1>10

(* A recursive definition over positions is met by its one solution.       *)
LEMMA ChainReplays ==
  ASSUME NEW h, NEW n, List(h, n), NEW p, NEW c, Chain(h, n, p, c)
  PROVE  Replays(h, Frames(h, p).frames, Frames(h, p).final)
<1> DEFINE D == 1..(n + 1)
           body(f) == [k \in D |-> IF k = 1 THEN InitialValue ELSE After(f[k-1], h[p[k-1]])]
           b == CHOOSE f : f = body(f)
           g == [k \in D |-> c[k]]
           w == Frames(h, p).frames
           v == Frames(h, p).final
<1>0. n \in Nat /\ DOMAIN h = 1..n /\ Len(h) = n
  BY DEF List
<1>1. Frames(h, p) = [frames |-> [k \in 1..n |-> [op |-> p[k], state |-> b[k]]],
                      final |-> b[n + 1]]
  BY <1>0 DEF Frames
<1>2. g = body(g)
  <2> SUFFICES ASSUME NEW k \in D
               PROVE  g[k] = IF k = 1 THEN InitialValue ELSE After(g[k-1], h[p[k-1]])
    OBVIOUS
  <2>1. CASE k = 1
    BY <1>0, <2>1 DEF Chain
  <2>2. CASE k # 1
    <3>1. k - 1 \in 1..n /\ k - 1 \in D /\ (k - 1) + 1 = k
      BY <1>0, <2>2
    <3>2. c[k] = After(c[k-1], h[p[k-1]])
      BY <3>1 DEF Chain
    <3> QED BY <2>2, <3>1, <3>2
  <2> QED BY <2>1, <2>2
<1>3. b = body(b)
  <2> HIDE DEF body
  <2> QED BY <1>2
<1> HIDE DEF b
<1>4. \A k \in D : b[k] = IF k = 1 THEN InitialValue ELSE After(b[k-1], h[p[k-1]])
  BY <1>3
<1> HIDE DEF body
<1>5. b[1] = InitialValue
  BY <1>0, <1>4
<1>6. \A k \in 1..n : b[k+1] = After(b[k], h[p[k]])
  <2> TAKE k \in 1..n
  <2>1. k + 1 \in D /\ k + 1 # 1 /\ (k + 1) - 1 = k
    BY <1>0
  <2> QED BY <1>4, <2>1
<1>7. \A k \in D : b[k] = c[k]
  <2> DEFINE T == {k \in D : b[k] # c[k]}
  <2> SUFFICES ASSUME T # {} PROVE FALSE
    OBVIOUS
  <2>1. T \in SUBSET Nat
    BY <1>0
  <2>2. PICK k \in T : \A j \in T : k <= j
    BY <2>1, LeastNumber
  <2>3. k # 1
    BY <1>5, <2>2 DEF Chain
  <2>4. k - 1 \in D /\ ~(k <= k - 1) /\ k - 1 \in 1..n /\ (k - 1) + 1 = k
    BY <1>0, <2>2, <2>3
  <2>5. b[k-1] = c[k-1]
    BY <2>2, <2>4
  <2>6. b[k] = After(b[k-1], h[p[k-1]]) /\ c[k] = After(c[k-1], h[p[k-1]])
    BY <1>6, <2>4 DEF Chain
  <2> QED BY <2>2, <2>5, <2>6
<1>8. w = [k \in 1..n |-> [op |-> p[k], state |-> b[k]]] /\ v = b[n + 1]
  BY <1>1
<1>9. DOMAIN w = 1..n /\ \A k \in 1..n : w[k].op = p[k] /\ w[k].state = b[k]
  BY <1>8
<1>10. List(w, n) /\ (n # 0 => w # <<>>) /\ (n = 0 => w = <<>>)
  <2> DEFINE X == {[op |-> p[k], state |-> b[k]] : k \in 1..n}
  <2>1. w = [k \in 1..n |-> w[k]] /\ \A k \in 1..n : w[k] \in X
    BY <1>8
  <2> HIDE DEF w, X
  <2>2. List(w, n) /\ w \in Seq(X)
    BY <1>0, <1>9, <2>1, MadeList
  <2> QED BY <2>2 DEF List
<1> HIDE DEF w, v
<1>11. IF w = <<>> THEN v = InitialValue ELSE w[1].state = InitialValue
  <2>1. CASE n = 0
    BY <1>5, <1>8, <1>10, <2>1
  <2>2. CASE n # 0
    <3>1. 1 \in 1..n
      BY <1>0, <2>2
    <3> QED BY <1>5, <1>9, <1>10, <2>2, <3>1
  <2> QED BY <2>1, <2>2
<1>12. ASSUME NEW k \in 1..n
       PROVE  /\ Fits(w[k].state, h[w[k].op])
              /\ After(w[k].state, h[w[k].op]) = IF k = Len(w) THEN v ELSE w[k+1].state
  <2>1. k \in D /\ w[k].op = p[k] /\ w[k].state = b[k] /\ Len(w) = n
    BY <1>0, <1>9, <1>10 DEF List
  <2>2. Fits(b[k], h[p[k]])
    BY <1>7, <2>1 DEF Chain
  <2>3. CASE k = n
    BY <1>6, <1>8, <2>1, <2>2, <2>3
  <2>4. CASE k # n
    <3>1. k + 1 \in 1..n
      BY <1>0, <2>4
    <3>2. w[k+1].state = b[k+1]
      BY <1>9, <3>1
    <3> QED BY <1>6, <2>1, <2>2, <2>4, <3>2
  <2> QED BY <2>3, <2>4
<1>13. Replays(h, w, v)
  BY <1>9, <1>11, <1>12 DEF Replays
<1> QED BY <1>13 DEF w, v

(* An order that respects real time.                                       *)
InTime(h, n, p) == \A i, j \in 1..n : i < j => ~Precedes(h[p[j]], h[p[i]])

Once(n, p) == p \in [1..n -> 1..n] /\ \A i, j \in 1..n : p[i] = p[j] => i = j

LEMMA LinearizableIff ==
  ASSUME NEW h, NEW n, List(h, n)
  PROVE  Linearizable(h) <=> \E p, g : Once(n, p) /\ InTime(h, n, p) /\ Chain(h, n, p, g)
<1>0. DOMAIN h = 1..n
  BY DEF List
<1>1. ASSUME Linearizable(h)
      PROVE  \E p, g : Once(n, p) /\ InTime(h, n, p) /\ Chain(h, n, p, g)
  <2>1. PICK p \in Orders(h) :
          /\ \A i, j \in DOMAIN h : i < j => ~Precedes(h[p[j]], h[p[i]])
          /\ Replays(h, Frames(h, p).frames, Frames(h, p).final)
    BY <1>1 DEF Linearizable
  <2>2. Once(n, p)
    BY <1>0, <2>1 DEF Orders, Once
  <2>3. InTime(h, n, p)
    BY <1>0, <2>1 DEF InTime
  <2> QED BY <2>1, <2>2, <2>3, ReplayGivesChain
<1>2. ASSUME NEW p, NEW g, Once(n, p), InTime(h, n, p), Chain(h, n, p, g)
      PROVE  Linearizable(h)
  <2>1. p \in Orders(h)
    BY <1>0, <1>2 DEF Orders, Once
  <2>2. \A i, j \in DOMAIN h : i < j => ~Precedes(h[p[j]], h[p[i]])
    BY <1>0, <1>2 DEF InTime
  <2>3. Replays(h, Frames(h, p).frames, Frames(h, p).final)
    BY <1>2, ChainReplays
  <2> QED BY <2>1, <2>2, <2>3 DEF Linearizable
<1> QED BY <1>1, <1>2

(* Two numberings of one set are as long as each other.                    *)
Renumbers(f, a, b) ==
  /\ f \in [1..a -> 1..b]
  /\ \A i, j \in 1..a : f[i] = f[j] => i = j
  /\ \A i \in 1..b : \E j \in 1..a : f[j] = i

LEMMA SameLength ==
  ASSUME NEW a \in Nat, NEW b \in Nat, NEW f, Renumbers(f, a, b)
  PROVE  a = b
<1>1. f \in Injection(1..a, 1..b) /\ f \in Surjection(1..a, 1..b)
  BY DEF Renumbers, Injection, Surjection, IsInjective
<1>2. IsFiniteSet(1..a) /\ IsFiniteSet(1..b) /\ Cardinality(1..a) = a /\ Cardinality(1..b) = b
  BY Numbered
<1>3. Cardinality(1..b) <= Cardinality(1..a)
  BY <1>1, <1>2, FS_Surjection
<1>4. Cardinality(1..a) <= Cardinality(1..b)
  BY <1>1, <1>2, FS_Injection
<1> QED BY <1>2, <1>3, <1>4

(* Whatever the order, the register goes through some values.              *)
Yields(h, p, n, c) ==
  c[1] = InitialValue /\ \A k \in 1..n : c[k+1] = After(c[k], h[p[k]])

LEMMA ValuesExist ==
  ASSUME NEW n \in Nat, NEW h, NEW p
  PROVE  \E c : Yields(h, p, n, c)
<1> DEFINE T == {k \in Nat : ~ \E c : Yields(h, p, k, c)}
<1> SUFFICES ASSUME T # {} PROVE FALSE
  OBVIOUS
<1>1. T \in SUBSET Nat
  OBVIOUS
<1>2. PICK m \in T : \A k \in T : m <= k
  BY <1>1, LeastNumber
<1>3. m \in Nat /\ ~ \E c : Yields(h, p, m, c)
  BY <1>2
<1>4. m # 0
  <2> DEFINE c == [i \in 1..1 |-> InitialValue]
  <2>1. c[1] = InitialValue /\ \A k \in 1..0 : FALSE
    OBVIOUS
  <2> HIDE DEF c
  <2>2. Yields(h, p, 0, c)
    BY <2>1 DEF Yields
  <2> QED BY <1>3, <2>2
<1>5. m - 1 \in Nat /\ ~ (m <= m - 1)
  BY <1>3, <1>4
<1>6. \E c : Yields(h, p, m - 1, c)
  BY <1>2, <1>5
<1>7. PICK c : Yields(h, p, m - 1, c)
  BY <1>6
<1> DEFINE d == [i \in 1..(m + 1) |-> IF i = m + 1 THEN After(c[m], h[p[m]]) ELSE c[i]]
<1>8. d[1] = InitialValue
  BY <1>3, <1>4, <1>7 DEF Yields
<1>9. ASSUME NEW k \in 1..m PROVE d[k+1] = After(d[k], h[p[k]])
  <2>1. k # m + 1 /\ k \in 1..(m+1) /\ k + 1 \in 1..(m+1)
    BY <1>3
  <2>2. d[k] = c[k]
    BY <2>1
  <2>3. CASE k = m
    BY <2>1, <2>2, <2>3
  <2>4. CASE k # m
    <3>1. k \in 1..(m-1) /\ k + 1 # m + 1
      BY <1>3, <2>4
    <3> QED BY <1>7, <2>1, <2>2, <3>1 DEF Yields
  <2> QED BY <2>3, <2>4
<1> HIDE DEF d
<1>10. Yields(h, p, m, d)
  BY <1>8, <1>9 DEF Yields
<1> QED BY <1>3, <1>10

(* One that places each once leaves none out.                              *)
LEMMA OnceOnto ==
  ASSUME NEW n \in Nat, NEW p, Once(n, p)
  PROVE  \A i \in 1..n : \E k \in 1..n : p[k] = i
<1>1. p \in Injection(1..n, 1..n)
  BY DEF Once, Injection, IsInjective
<1>2. p \in Surjection(1..n, 1..n)
  BY <1>1, Numbered, FS_Injection
<1> QED BY <1>2 DEF Surjection

-----------------------------------------------------------------------------
(***************************************************************************)
(* What the judgement depends on: not the layout of a history, and of each *)
(* operation only what its kind and outcome give a meaning to.             *)
(***************************************************************************)
Alike(o, p) ==
  /\ o.invoke = p.invoke /\ o.complete = p.complete
  /\ o.kind = p.kind /\ o.outcome = p.outcome
  /\ o.kind = "write" => o.value = p.value
  /\ o.kind = "cas" => o.from = p.from /\ o.to = p.to
  /\ o.kind = "read" /\ o.outcome = "ok" => o.observed = p.observed
  /\ o.kind = "cas" /\ o.outcome = "ok" => o.swapped = p.swapped

LEMMA AlikeSteps ==
  ASSUME NEW o, NEW p, Alike(o, p), NEW v
  PROVE  (Fits(v, o) => Fits(v, p)) /\ After(v, o) = After(v, p)
<1>1. Fits(v, o) => Fits(v, p)
  BY DEF Alike, Fits, Known, Models
<1>2. After(v, o) = After(v, p)
  BY DEF Alike, After
<1> QED BY <1>1, <1>2

LEMMA AlikeBack == ASSUME NEW o, NEW p, Alike(o, p) PROVE Alike(p, o)
BY DEF Alike

LEMMA AlikeItself == ASSUME NEW o PROVE Alike(o, o)
BY DEF Alike

(* g is h laid out by q, but for what has no meaning.                      *)
Relaid(g, h, n, q) == Once(n, q) /\ \A i \in 1..n : Alike(g[i], h[q[i]])

LEMMA RelaidJudged ==
  ASSUME NEW h, NEW g, NEW n, List(h, n), List(g, n), NEW q, Relaid(g, h, n, q), Linearizable(h)
  PROVE  Linearizable(g)
<1>0. n \in Nat
  BY DEF List
<1>1. PICK p, c : Once(n, p) /\ InTime(h, n, p) /\ Chain(h, n, p, c)
  BY LinearizableIff
<1> DEFINE r == [k \in 1..n |-> CHOOSE i \in 1..n : q[i] = p[k]]
<1>2. \A k \in 1..n : r[k] \in 1..n /\ q[r[k]] = p[k]
  <2> TAKE k \in 1..n
  <2>1. p[k] \in 1..n
    BY <1>1 DEF Once
  <2>2. \E i \in 1..n : q[i] = p[k]
    BY <1>0, <2>1, OnceOnto DEF Relaid
  <2> QED BY <2>2
<1>3. r \in [1..n -> 1..n]
  BY <1>2
<1> HIDE DEF r
<1>4. Once(n, r)
  <2>1. \A i, j \in 1..n : r[i] = r[j] => i = j
    BY <1>1, <1>2 DEF Once
  <2> QED BY <1>3, <2>1 DEF Once
<1>5. \A k \in 1..n : Alike(g[r[k]], h[p[k]])
  <2> TAKE k \in 1..n
  <2>1. Alike(g[r[k]], h[q[r[k]]])
    BY <1>2 DEF Relaid
  <2> QED BY <1>2, <2>1
<1>6. InTime(g, n, r)
  <2> SUFFICES ASSUME NEW i \in 1..n, NEW j \in 1..n, i < j, Precedes(g[r[j]], g[r[i]]) PROVE FALSE
    BY DEF InTime
  <2>1. Alike(g[r[j]], h[p[j]]) /\ Alike(g[r[i]], h[p[i]])
    BY <1>5
  <2>2. Precedes(h[p[j]], h[p[i]])
    BY <2>1 DEF Alike, Precedes
  <2> QED BY <1>1, <2>2 DEF InTime
<1>7. Chain(g, n, r, c)
  <2>1. ASSUME NEW k \in 1..n PROVE Fits(c[k], g[r[k]]) /\ c[k+1] = After(c[k], g[r[k]])
    <3>1. Fits(c[k], h[p[k]]) /\ c[k+1] = After(c[k], h[p[k]])
      BY <1>1 DEF Chain
    <3>2. Alike(h[p[k]], g[r[k]])
      BY <1>5, AlikeBack
    <3> QED BY <3>1, <3>2, AlikeSteps
  <2> QED BY <1>1, <2>1 DEF Chain
<1> QED BY <1>4, <1>6, <1>7, LinearizableIff

LEMMA RelaidBack ==
  ASSUME NEW h, NEW g, NEW n \in Nat, NEW q, Relaid(g, h, n, q)
  PROVE  \E r : Relaid(h, g, n, r)
<1> DEFINE r == [k \in 1..n |-> CHOOSE i \in 1..n : q[i] = k]
<1>1. \A k \in 1..n : r[k] \in 1..n /\ q[r[k]] = k
  BY OnceOnto DEF Relaid
<1>2. r \in [1..n -> 1..n]
  BY <1>1
<1> HIDE DEF r
<1>3. \A k \in 1..n : Alike(h[k], g[r[k]])
  BY <1>1, AlikeBack DEF Relaid
<1>4. Once(n, r)
  BY <1>1, <1>2 DEF Once
<1> QED BY <1>3, <1>4 DEF Relaid

LEMMA RelaidSame ==
  ASSUME NEW h, NEW g, NEW n, List(h, n), List(g, n), NEW q, Relaid(g, h, n, q)
  PROVE  Linearizable(g) <=> Linearizable(h)
<1>1. n \in Nat
  BY DEF List
<1>2. PICK r : Relaid(h, g, n, r)
  BY <1>1, RelaidBack
<1> QED BY <1>2, RelaidJudged

LEMMA SortedIsRelaid ==
  ASSUME NEW n, NEW h, List(h, n), Timed(h)
  PROVE  List(SortByInvoke(h), n) /\ \E q : Relaid(SortByInvoke(h), h, n, q)
<1>1. PICK f \in [1..n -> 1..n] :
           /\ \A j, k \in 1..n : f[j] = f[k] => j = k
           /\ SortByInvoke(h) = LaidOut(h, f, n)
  BY SortLaysOut
<1>2. n \in Nat
  BY DEF List
<1>3. List(SortByInvoke(h), n)
  <2> DEFINE X == {h[f[k]] : k \in 1..n}
  <2>1. \A k \in 1..n : h[f[k]] \in X
    OBVIOUS
  <2> HIDE DEF X
  <2>2. List(LaidOut(h, f, n), n)
    BY <1>2, <2>1, LaidOutList
  <2> QED BY <1>1, <2>2
<1>4. \A i \in 1..n : Alike(SortByInvoke(h)[i], h[f[i]])
  BY <1>1, AlikeItself DEF LaidOut
<1>5. Once(n, f)
  BY <1>1 DEF Once
<1> QED BY <1>3, <1>4, <1>5 DEF Relaid

(* Sorting changes no verdict.                                             *)
LEMMA SortedSame ==
  ASSUME NEW n, NEW h, List(h, n), Timed(h)
  PROVE  Linearizable(SortByInvoke(h)) <=> Linearizable(h)
BY SortedIsRelaid, RelaidSame
=============================================================================
