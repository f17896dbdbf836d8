--------------------------- MODULE QuorumStoreProofs ---------------------------
(***************************************************************************)
(* The gossip store, for any number of nodes, registers, requests and      *)
(* administrators: its fan-outs stop, its closed channels are left alone,  *)
(* and a node misses the newest update only if it was lost on its way.     *)
(***************************************************************************)
EXTENDS QuorumStore, TLAPS

States   == {"open", "marked", "cancelled"}
FanOn(P) == [state : States, queue : [P -> Seq(Replication)], busy : [P -> Replication \cup {None}]]
Fan      == UNION {FanOn(P) : P \in SUBSET Nodes}

Handler == [pc : {"idle", "applied", "posted", "replied"}, node : Nodes \cup {None}, fan : Nat,
            sync : BOOLEAN, key : Registers \cup {None}, entry : Entry \cup {None},
            awaited : SUBSET Nodes, reached : BOOLEAN]

Retiring == {"mark", "cancel", "wait"}

(***************************************************************************)
(* What every variable looks like.                                         *)
(***************************************************************************)
Shapes ==
  /\ data \in [Nodes -> [Registers -> Entry \cup {None}]]
  /\ seen \in [Nodes -> [Registers -> SUBSET Entry]]
  /\ synchronous \in [Nodes -> BOOLEAN]
  /\ closed \subseteq Nodes
  /\ wire \subseteq [to : Nodes, update : Replication]
  /\ fans \in [Nodes -> Seq(Fan)]
  /\ \A n \in Nodes : Len(fans[n]) > 0
  /\ op \in [Ops -> Handler]
  /\ admin \in [Admins -> [pc : {"idle", "swap", "refused", "done"} \cup Retiring,
                           node : Nodes \cup {None}, peers : SUBSET Nodes, prev : Nat]]
  /\ stopping \in [Nodes -> [pc : {"idle", "done"} \cup Retiring, prev : Nat]]

(***************************************************************************)
(* A handler that has an entry stamped it, holds a fan-out of its node and *)
(* waits for some of the peers of that one.                                *)
(***************************************************************************)
Handled ==
  \A o \in Ops :
    /\ op[o].pc \in {"applied", "posted"} \/ op[o].reached => op[o].entry # None
    /\ op[o].entry # None =>
         /\ op[o].pc # "idle"
         /\ op[o].node \in Nodes /\ op[o].key \in Registers
         /\ op[o].fan \in DOMAIN fans[op[o].node]
    /\ op[o].pc = "applied" => ~op[o].reached

(***************************************************************************)
(* How far a caller of fanout.close has come is what the fan-out says.     *)
(***************************************************************************)
InStep(h, f) ==
  /\ h.pc = "mark"   => f.state = "open"
  /\ h.pc = "cancel" => f.state = "marked"
  /\ h.pc = "wait"   => f.state = "cancelled"
  /\ h.pc = "done"   => Exited(f)

(***************************************************************************)
(* Every fan-out but the current one has exactly one /configure that       *)
(* retires it; Close retires the current one, which no /configure will     *)
(* replace any more.                                                       *)
(***************************************************************************)
Retired ==
  /\ \A a \in Admins :
       /\ admin[a].pc \in Retiring => admin[a].prev # 0
       /\ admin[a].pc = "swap" => admin[a].node \in Nodes
       /\ admin[a].pc \in {"idle", "swap", "refused"} => admin[a].prev = 0
       /\ admin[a].prev # 0 =>
            /\ admin[a].node \in Nodes /\ admin[a].prev < Current(admin[a].node)
            /\ InStep(admin[a], fans[admin[a].node][admin[a].prev])
  /\ \A a, b \in Admins :
       admin[a].node = admin[b].node /\ admin[a].prev = admin[b].prev => a = b \/ admin[a].prev = 0
  /\ \A n \in Nodes : \A g \in DOMAIN fans[n] : g < Current(n) =>
       \E a \in Admins : admin[a].node = n /\ admin[a].prev = g
  /\ \A n \in Nodes :
       /\ n \in closed <=> stopping[n].pc # "idle"
       /\ n \in closed => stopping[n].prev = Current(n)
       /\ IF n \in closed THEN InStep(stopping[n], fans[n][Current(n)])
                          ELSE fans[n][Current(n)].state = "open"

TidyInv == Shapes /\ Handled /\ Retired

(***************************************************************************)
(* Every entry about was stamped by its node, which has had it, and no     *)
(* node stamps two alike.                                                  *)
(***************************************************************************)
Stamped(u) == u.entry \in seen[u.entry.node][u.key]

Origin ==
  /\ \A n \in Nodes, k \in Registers : \A e \in seen[n][k] : e \in seen[e.node][k]
  /\ \A m \in wire : Stamped(m.update)
  /\ \A n \in Nodes : \A g \in DOMAIN fans[n] : \A p \in Peers(fans[n][g]) :
       \A i \in DOMAIN fans[n][g].queue[p] : Stamped(fans[n][g].queue[p][i])
  /\ \A o \in Ops : op[o].entry # None =>
       op[o].entry.node = op[o].node /\ Stamped(Update(o))

Distinct ==
  \A n \in Nodes, k \in Registers : \A e, f \in seen[n][k] :
    e.node = f.node /\ e.stamp = f.stamp => e = f

(***************************************************************************)
(* A node holds the newest entry it has had.                               *)
(***************************************************************************)
Newest ==
  \A n \in Nodes, k \in Registers :
    IF data[n][k] = None THEN seen[n][k] = {}
    ELSE /\ data[n][k] \in seen[n][k]
         /\ \A f \in seen[n][k] \ {data[n][k]} : Dominates(data[n][k], f)

(***************************************************************************)
(* What a node stamped is at every other node, on its way there or lost to *)
(* it.                                                                     *)
(***************************************************************************)
Queued(p, u) ==
  \E n \in Nodes : \E g \in DOMAIN fans[n] :
    p \in Peers(fans[n][g]) /\ \E i \in DOMAIN fans[n][g].queue[p] : fans[n][g].queue[p][i] = u

ToSend(u) == \E o \in Ops : op[o].pc = "applied" /\ Update(o) = u

Underway(p, u) == [to |-> p, update |-> u] \in wire \/ Queued(p, u) \/ ToSend(u)

Delivered ==
  \A k \in Registers, n, p \in Nodes : \A e \in seen[n][k] :
    e.node = n /\ p # n =>
      e \in seen[p][k] \/ LET u == [key |-> k, entry |-> e] IN Underway(p, u) \/ Missed(p, u)

(***************************************************************************)
(* Whoever has answered a synchronous write has taken it.                  *)
(***************************************************************************)
Answered ==
  \A o \in Ops : op[o].reached =>
    /\ op[o].pc = "replied" => op[o].awaited = {}
    /\ \A p \in Peers(fans[op[o].node][op[o].fan]) \ op[o].awaited : Took(p, Update(o))

ConvergeInv == TidyInv /\ Origin /\ Distinct /\ Newest

LEMMA FanParts ==
  ASSUME NEW f \in Fan
  PROVE  /\ Peers(f) \subseteq Nodes
         /\ f \in FanOn(Peers(f))
         /\ f = [state |-> f.state, queue |-> f.queue, busy |-> f.busy]
<1>1. PICK P \in SUBSET Nodes : f \in FanOn(P)
  BY DEF Fan
<1>2. Peers(f) = P
  BY <1>1 DEF FanOn, Peers
<1> QED
  BY <1>1, <1>2 DEF FanOn

LEMMA FanMade ==
  ASSUME NEW P \in SUBSET Nodes, NEW f \in FanOn(P)
  PROVE  f \in Fan /\ Peers(f) = P
BY DEF Fan, FanOn, Peers

LEMMA NewFanIsFan ==
  ASSUME NEW P \in SUBSET Nodes
  PROVE  NewFan(P) \in Fan /\ Peers(NewFan(P)) = P
<1>1. NewFan(P) \in FanOn(P)
  BY DEF NewFan, FanOn, States
<1> QED
  BY <1>1, FanMade

(***************************************************************************)
(* A step that changes one fan-out leaves every other alone.               *)
(***************************************************************************)
LEMMA OneFanChanged ==
  ASSUME fans \in [Nodes -> Seq(Fan)], NEW n \in Nodes, NEW g \in DOMAIN fans[n], NEW f \in Fan,
         fans' = [fans EXCEPT ![n][g] = f]
  PROVE  /\ fans' \in [Nodes -> Seq(Fan)]
         /\ \A x \in Nodes : DOMAIN fans'[x] = DOMAIN fans[x] /\ Len(fans'[x]) = Len(fans[x])
         /\ fans'[n][g] = f
         /\ \A x \in Nodes : \A h \in DOMAIN fans[x] :
              <<x, h>> # <<n, g>> => fans'[x][h] = fans[x][h]
<1>1. fans[n] \in Seq(Fan)
  OBVIOUS
<1>2. /\ [fans[n] EXCEPT ![g] = f] \in Seq(Fan)
      /\ Len([fans[n] EXCEPT ![g] = f]) = Len(fans[n])
      /\ DOMAIN [fans[n] EXCEPT ![g] = f] = DOMAIN fans[n]
  BY <1>1
<1>3. fans' = [fans EXCEPT ![n] = [fans[n] EXCEPT ![g] = f]]
  OBVIOUS
<1>4. fans'[n] = [fans[n] EXCEPT ![g] = f]
  BY <1>3
<1>5. \A x \in Nodes : x # n => fans'[x] = fans[x]
  BY <1>3
<1>6. fans' \in [Nodes -> Seq(Fan)]
  BY <1>2, <1>3
<1>7. \A x \in Nodes : DOMAIN fans'[x] = DOMAIN fans[x] /\ Len(fans'[x]) = Len(fans[x])
  BY <1>2, <1>4, <1>5
<1>8. fans'[n][g] = f
  BY <1>4
<1>9. \A x \in Nodes : \A h \in DOMAIN fans[x] :
        <<x, h>> # <<n, g>> => fans'[x][h] = fans[x][h]
  BY <1>4, <1>5
<1> QED
  BY <1>6, <1>7, <1>8, <1>9

(***************************************************************************)
(* What each step that touches a fan-out makes of it.                      *)
(***************************************************************************)
LEMMA EnqueueMakes ==
  ASSUME Shapes, Handled, NEW o \in Ops, Enqueue(o), OpenFan(fans[op[o].node][op[o].fan])
  PROVE  LET f == fans[op[o].node][op[o].fan]
             q == [p \in Peers(f) |-> IF Room(f, p) THEN Append(f.queue[p], Update(o)) ELSE f.queue[p]]
         IN  /\ op[o].node \in Nodes /\ op[o].fan \in DOMAIN fans[op[o].node]
             /\ Update(o) \in Replication
             /\ f \in Fan
             /\ [f EXCEPT !.queue = q] \in Fan
             /\ Peers([f EXCEPT !.queue = q]) = Peers(f)
             /\ fans' = [fans EXCEPT ![op[o].node][op[o].fan] = [f EXCEPT !.queue = q]]
<1> DEFINE n == op[o].node
           g == op[o].fan
           f == fans[n][g]
           q == [p \in Peers(f) |-> IF Room(f, p) THEN Append(f.queue[p], Update(o)) ELSE f.queue[p]]
<1>1. op[o] \in Handler /\ op[o].entry # None /\ op[o].entry \in Entry /\ op[o].key \in Registers
  BY DEF Shapes, Handled, Enqueue, Handler
<1>2. n \in Nodes /\ g \in DOMAIN fans[n]
  BY <1>1 DEF Handled
<1>3. Update(o) \in Replication
  BY <1>1 DEF Update, Replication
<1>4. f \in Fan
  BY <1>2 DEF Shapes
<1>5. Peers(f) \in SUBSET Nodes /\ f \in FanOn(Peers(f))
  BY <1>4, FanParts
<1>6. q \in [Peers(f) -> Seq(Replication)]
  BY <1>3, <1>5 DEF FanOn
<1>7. [f EXCEPT !.queue = q] \in FanOn(Peers(f))
  BY <1>5, <1>6 DEF FanOn
<1>8. [f EXCEPT !.queue = q] \in Fan /\ Peers([f EXCEPT !.queue = q]) = Peers(f)
  BY <1>5, <1>7, FanMade
<1>9. fans' = [fans EXCEPT ![n][g] = [f EXCEPT !.queue = q]]
  BY <1>2 DEF Enqueue, Shapes
<1> QED
  BY <1>2, <1>3, <1>4, <1>8, <1>9

Pumped(f, p) ==
  IF f.state = "cancelled"
    THEN [f EXCEPT !.queue[p] = Tail(f.queue[p])]
    ELSE [f EXCEPT !.queue[p] = Tail(f.queue[p]), !.busy[p] = Head(f.queue[p])]

LEMMA PumpMakes ==
  ASSUME Shapes, NEW n \in Nodes, NEW g, NEW p, Pump(n, g, p)
  PROVE  LET f == fans[n][g]
             e == Pumped(f, p)
         IN  /\ g \in DOMAIN fans[n] /\ f \in Fan /\ p \in Peers(f)
             /\ e \in Fan /\ Peers(e) = Peers(f)
             /\ fans' = [fans EXCEPT ![n][g] = e]
<1> DEFINE f == fans[n][g]
           e == Pumped(f, p)
<1>1. g \in DOMAIN fans[n] /\ p \in Peers(f) /\ f.queue[p] # <<>>
  BY DEF Pump
<1>2. f \in Fan
  BY <1>1 DEF Shapes
<1>3. Peers(f) \in SUBSET Nodes /\ f \in FanOn(Peers(f))
  BY <1>2, FanParts
<1>4. f.queue[p] \in Seq(Replication)
  BY <1>1, <1>3 DEF FanOn
<1>5. Tail(f.queue[p]) \in Seq(Replication) /\ Head(f.queue[p]) \in Replication
  BY <1>1, <1>4
<1>6. e \in FanOn(Peers(f))
  BY <1>3, <1>5 DEF FanOn, Pumped
<1>7. e \in Fan /\ Peers(e) = Peers(f)
  BY <1>3, <1>6, FanMade
<1>8. fans' = [fans EXCEPT ![n][g] = e]
  <2>1. CASE f.state = "cancelled"
    BY <2>1, <1>1 DEF Pump, Pumped, Shapes
  <2>2. CASE f.state # "cancelled"
    BY <2>2, <1>1 DEF Pump, Pumped, Shapes
  <2> QED
    BY <2>1, <2>2
<1> QED
  BY <1>1, <1>2, <1>7, <1>8

LEMMA PumpDoneMakes ==
  ASSUME Shapes, NEW n \in Nodes, NEW g, NEW p, PumpDone(n, g, p)
  PROVE  LET f == fans[n][g]
             e == [f EXCEPT !.busy[p] = None]
         IN  /\ g \in DOMAIN fans[n] /\ f \in Fan /\ p \in Peers(f)
             /\ e \in Fan /\ Peers(e) = Peers(f)
             /\ fans' = [fans EXCEPT ![n][g] = e]
<1> DEFINE f == fans[n][g]
           e == [f EXCEPT !.busy[p] = None]
<1>1. g \in DOMAIN fans[n] /\ p \in Peers(f)
  BY DEF PumpDone
<1>2. f \in Fan
  BY <1>1 DEF Shapes
<1>3. Peers(f) \in SUBSET Nodes /\ f \in FanOn(Peers(f))
  BY <1>2, FanParts
<1>4. e \in FanOn(Peers(f))
  BY <1>3 DEF FanOn
<1>5. e \in Fan /\ Peers(e) = Peers(f)
  BY <1>3, <1>4, FanMade
<1>6. fans' = [fans EXCEPT ![n][g] = e]
  BY <1>1 DEF PumpDone, Shapes
<1> QED
  BY <1>1, <1>2, <1>5, <1>6

LEMMA CloseMakes ==
  ASSUME Shapes, NEW n \in Nodes, NEW h, h.prev \in DOMAIN fans[n], NEW after, CloseStep(n, h, after)
  PROVE  LET f == fans[n][h.prev]
             e == [f EXCEPT !.state = IF h.pc = "mark" THEN "marked" ELSE "cancelled"]
         IN  /\ f \in Fan
             /\ e \in Fan /\ Peers(e) = Peers(f)
             /\ fans' = [fans EXCEPT ![n][h.prev] = e]
             /\ h.pc \in {"mark", "cancel"}
             /\ after = IF h.pc = "mark" THEN "cancel" ELSE "wait"
<1> DEFINE f == fans[n][h.prev]
           e == [f EXCEPT !.state = IF h.pc = "mark" THEN "marked" ELSE "cancelled"]
<1>1. f \in Fan
  BY DEF Shapes
<1>2. Peers(f) \in SUBSET Nodes /\ f \in FanOn(Peers(f))
  BY <1>1, FanParts
<1>3. e \in FanOn(Peers(f))
  BY <1>2 DEF FanOn, States
<1>4. e \in Fan /\ Peers(e) = Peers(f)
  BY <1>2, <1>3, FanMade
<1>5. CASE h.pc = "mark"
  BY <1>1, <1>4, <1>5 DEF CloseStep, Shapes
<1>6. CASE h.pc # "mark"
  BY <1>1, <1>4, <1>6 DEF CloseStep, Shapes
<1> QED
  BY <1>5, <1>6

-----------------------------------------------------------------------------
(***************************************************************************)
(* The shapes hold initially and every step keeps them.                    *)
(***************************************************************************)
LEMMA InitTidies == Init => TidyInv
<1> SUFFICES ASSUME Init PROVE TidyInv
  OBVIOUS
<1>1. \A n \in Nodes : NewFan(Nodes \ {n}) \in Fan /\ NewFan(Nodes \ {n}).state = "open"
  BY NewFanIsFan DEF NewFan
<1>2. ASSUME NEW n \in Nodes
      PROVE  /\ fans[n] \in Seq(Fan) /\ Len(fans[n]) = 1 /\ DOMAIN fans[n] = {1}
             /\ fans[n][1].state = "open"
  <2>1. fans[n] = <<NewFan(Nodes \ {n})>>
    BY DEF Init
  <2> QED
    BY <1>1, <2>1
<1>3. fans \in [Nodes -> Seq(Fan)]
  BY <1>2 DEF Init
<1>4. Idle \in Handler
  BY DEF Idle, Handler
<1>5. synchronous \in [Nodes -> BOOLEAN]
  BY QuorumAssumption DEF Init
<1>6. Shapes
  <2>1. /\ data \in [Nodes -> [Registers -> Entry \cup {None}]]
        /\ seen \in [Nodes -> [Registers -> SUBSET Entry]]
        /\ closed \subseteq Nodes /\ wire \subseteq [to : Nodes, update : Replication]
        /\ op \in [Ops -> Handler]
    BY <1>4 DEF Init
  <2>2. admin \in [Admins -> [pc : {"idle", "swap", "refused", "done"} \cup Retiring,
                              node : Nodes \cup {None}, peers : SUBSET Nodes, prev : Nat]]
    BY DEF Init
  <2>3. stopping \in [Nodes -> [pc : {"idle", "done"} \cup Retiring, prev : Nat]]
    BY DEF Init
  <2>4. \A n \in Nodes : Len(fans[n]) > 0
    BY <1>2
  <2> QED
    BY <2>1, <2>2, <2>3, <2>4, <1>3, <1>5 DEF Shapes
<1>7. Handled
  BY DEF Init, Handled, Idle
<1>8. Retired
  <2>1. \A a \in Admins : admin[a].pc = "idle" /\ admin[a].prev = 0
    BY DEF Init
  <2>2. \A n \in Nodes : stopping[n].pc = "idle" /\ n \notin closed
    BY DEF Init
  <2>3. \A n \in Nodes : Current(n) = 1 /\ DOMAIN fans[n] = {1}
    BY <1>2 DEF Current
  <2>4. \A n \in Nodes : \A g \in DOMAIN fans[n] : ~(g < Current(n))
    BY <2>3
  <2> QED
    BY <2>1, <2>2, <2>3, <2>4, <1>2 DEF Retired, Retiring
<1> QED
  BY <1>6, <1>7, <1>8 DEF TidyInv

LEMMA StampIsNat ==
  ASSUME Shapes, NEW n \in Nodes, NEW k \in Registers, NEW now \in Clock
  PROVE  /\ StampFor(n, k, now) \in Nat
         /\ data[n][k] # None => StampFor(n, k, now) > data[n][k].stamp
BY QuorumAssumption DEF StampFor, Shapes, Entry

(***************************************************************************)
(* Steps that leave the fan-outs alone.                                    *)
(***************************************************************************)
LEMMA FansAlone ==
  ASSUME TidyInv, UNCHANGED <<fans, admin, stopping, closed>>
  PROVE  Retired'
BY DEF TidyInv, Retired, InStep, Exited, Current, Peers, Retiring

LEMMA ApplyTidies ==
  ASSUME TidyInv, NEW o \in Ops, NEW n \in Nodes, NEW r \in Requests, Apply(o, n, r)
  PROVE  TidyInv'
<1> USE DEF TidyInv
<1>1. PICK now \in Clock :
        LET e == [value |-> IF r.kind = "write" THEN r.value ELSE r.to,
                  stamp |-> StampFor(n, r.key, now), node |-> n]
        IN  /\ data' = [data EXCEPT ![n][r.key] = e]
            /\ seen' = [seen EXCEPT ![n][r.key] = @ \cup {e}]
            /\ op' = [op EXCEPT ![o] = [Idle EXCEPT !.pc = "applied", !.node = n, !.fan = Current(n),
                                          !.sync = synchronous[n], !.key = r.key, !.entry = e]]
  BY DEF Apply
<1> DEFINE e == [value |-> IF r.kind = "write" THEN r.value ELSE r.to,
                 stamp |-> StampFor(n, r.key, now), node |-> n]
           h == [Idle EXCEPT !.pc = "applied", !.node = n, !.fan = Current(n),
                             !.sync = synchronous[n], !.key = r.key, !.entry = e]
<1>2. r.key \in Registers
  BY QuorumAssumption
<1>3. e \in Entry
  BY <1>2, StampIsNat DEF Entry
<1>4. /\ h \in Handler /\ h.pc = "applied" /\ h.node = n /\ h.fan = Current(n) /\ h.key = r.key
      /\ h.entry = e /\ h.entry # None /\ ~h.reached
  <2>1. Current(n) \in Nat /\ synchronous[n] \in BOOLEAN
    BY DEF Shapes, Current
  <2>2. Idle \in Handler /\ Idle.reached = FALSE
    BY DEF Idle, Handler
  <2>3. e # None
    BY <1>3, QuorumAssumption
  <2> HIDE DEF e
  <2> QED
    BY <1>2, <1>3, <2>1, <2>2, <2>3 DEF Handler
<1>5. /\ data' = [data EXCEPT ![n][r.key] = e] /\ seen' = [seen EXCEPT ![n][r.key] = @ \cup {e}]
      /\ op' = [op EXCEPT ![o] = h]
      /\ UNCHANGED <<synchronous, closed, fans, wire, admin, stopping, lost>>
  BY <1>1 DEF Apply
<1>6. Current(n) \in DOMAIN fans[n]
  BY DEF Shapes, Current
<1> HIDE DEF e, h
<1>7. Shapes'
  BY <1>2, <1>3, <1>4, <1>5 DEF Shapes
<1>8. Handled'
  BY <1>2, <1>4, <1>5, <1>6 DEF Handled, Shapes
<1> QED
  BY <1>5, <1>7, <1>8, FansAlone

(***************************************************************************)
(* A step of one handler, which leaves the nodes as they are.              *)
(***************************************************************************)
LEMMA HandlerTidies ==
  ASSUME TidyInv, NEW o \in Ops, NEW h \in Handler, op' = [op EXCEPT ![o] = h],
         wire' \subseteq [to : Nodes, update : Replication],
         UNCHANGED <<nodeVars, admin, stopping, seen>>,
         h.pc \in {"applied", "posted"} \/ h.reached => h.entry # None,
         h.entry # None =>
           h.pc # "idle" /\ h.node = op[o].node /\ h.key = op[o].key /\ h.fan = op[o].fan
             /\ op[o].entry # None,
         h.pc = "applied" => ~h.reached
  PROVE  TidyInv'
<1>1. Shapes'
  BY DEF TidyInv, Shapes, nodeVars
<1>2. Handled'
  BY DEF TidyInv, Shapes, Handled, nodeVars
<1>3. Retired'
  BY FansAlone DEF nodeVars
<1> QED
  BY <1>1, <1>2, <1>3 DEF TidyInv

LEMMA HandlersTidy ==
  ASSUME TidyInv, NEW o \in Ops,
         ReplySync(o) \/ (\E n \in Nodes, r \in Requests : Refuse(o, n, r))
           \/ (\E p \in Nodes, answered \in BOOLEAN : PostEnds(o, p, answered))
  PROVE  TidyInv'
<1>0. /\ op \in [Ops -> Handler] /\ op[o] \in Handler
      /\ wire \subseteq [to : Nodes, update : Replication]
      /\ op[o].pc \in {"applied", "posted"} \/ op[o].reached => op[o].entry # None
      /\ op[o].entry # None => op[o].pc # "idle"
  BY DEF TidyInv, Shapes, Handled
<1>1. CASE ReplySync(o)
  <2> DEFINE h == [op[o] EXCEPT !.pc = "replied"]
  <2>1. /\ h \in Handler /\ h.pc = "replied" /\ h.node = op[o].node /\ h.key = op[o].key
        /\ h.fan = op[o].fan /\ h.reached = op[o].reached /\ h.entry = op[o].entry
    BY <1>0 DEF Handler
  <2>2. op' = [op EXCEPT ![o] = h] /\ UNCHANGED <<nodeVars, wire, admin, stopping, seen, lost>>
    BY <1>0, <1>1 DEF ReplySync
  <2> HIDE DEF h
  <2> QED
    BY <1>0, <2>1, <2>2, HandlerTidies
<1>2. ASSUME NEW n \in Nodes, NEW r \in Requests, Refuse(o, n, r)
      PROVE  TidyInv'
  <2>1. op[o].pc = "idle"
    BY <1>0, <1>2 DEF Refuse, Arrives, NextIn, Begun
  <2> DEFINE h == [op[o] EXCEPT !.pc = "replied", !.node = n]
  <2>2. op[o].entry = None
    BY <1>0, <2>1
  <2>3. h \in Handler /\ h.pc = "replied" /\ h.reached = op[o].reached /\ h.entry = op[o].entry
    BY <1>0 DEF Handler
  <2>4. op' = [op EXCEPT ![o] = h] /\ UNCHANGED <<nodeVars, wire, admin, stopping, seen, lost>>
    BY <1>0, <1>2 DEF Refuse
  <2> HIDE DEF h
  <2> QED
    BY <1>0, <2>2, <2>3, <2>4, HandlerTidies
<1>3. ASSUME NEW p \in Nodes, NEW answered \in BOOLEAN, PostEnds(o, p, answered)
      PROVE  TidyInv'
  <2> DEFINE h == [op[o] EXCEPT !.awaited = @ \ {p}, !.reached = @ /\ answered]
  <2>1. op[o].pc = "posted"
    BY <1>3 DEF PostEnds
  <2>2. /\ h \in Handler /\ h.pc = op[o].pc /\ h.node = op[o].node /\ h.key = op[o].key
        /\ h.fan = op[o].fan /\ (h.reached => op[o].reached) /\ h.entry = op[o].entry
    <3>1. op[o].reached \in BOOLEAN /\ (op[o].reached /\ answered) \in BOOLEAN
      BY <1>0 DEF Handler
    <3>2. h \in Handler
      BY <1>0, <3>1 DEF Handler
    <3>3. h.reached = (op[o].reached /\ answered)
      BY <1>0 DEF Handler
    <3>4. h.reached => op[o].reached
      BY <3>3
    <3> QED
      BY <1>0, <3>2, <3>4 DEF Handler
  <2>3. op' = [op EXCEPT ![o] = h] /\ UNCHANGED <<nodeVars, wire, admin, stopping, seen, lost>>
    BY <1>0, <1>3 DEF PostEnds
  <2> HIDE DEF h
  <2> QED
    BY <1>0, <2>1, <2>2, <2>3, HandlerTidies
<1> QED
  BY <1>1, <1>2, <1>3

(***************************************************************************)
(* What a handler on its way to replicate holds.                           *)
(***************************************************************************)
LEMMA ReplicatingHolds ==
  ASSUME Shapes, Handled, NEW o \in Ops, op[o].pc \in {"applied", "posted"} \/ op[o].reached
  PROVE  LET f == fans[op[o].node][op[o].fan]
         IN  /\ op[o] \in Handler /\ op[o].entry # None /\ op[o].entry \in Entry
             /\ op[o].key \in Registers /\ op[o].node \in Nodes
             /\ op[o].fan \in DOMAIN fans[op[o].node]
             /\ Update(o) \in Replication
             /\ f \in Fan /\ Peers(f) \in SUBSET Nodes
<1> DEFINE f == fans[op[o].node][op[o].fan]
<1>1. op[o] \in Handler /\ op[o].entry # None /\ op[o].entry \in Entry /\ op[o].key \in Registers
  BY DEF Shapes, Handled, Handler
<1>2. op[o].node \in Nodes /\ op[o].fan \in DOMAIN fans[op[o].node]
  BY <1>1 DEF Handled
<1>3. Update(o) \in Replication
  BY <1>1 DEF Update, Replication
<1>4. f \in Fan
  BY <1>2 DEF Shapes
<1>5. Peers(f) \in SUBSET Nodes
  BY <1>4, FanParts
<1> QED
  BY <1>1, <1>2, <1>3, <1>4, <1>5

LEMMA BroadcastTidies ==
  ASSUME TidyInv, NEW o \in Ops, Broadcast(o)
  PROVE  TidyInv'
<1> DEFINE f == fans[op[o].node][op[o].fan]
           h == [op[o] EXCEPT !.pc = "posted", !.awaited = Peers(f), !.reached = TRUE]
           i == [op[o] EXCEPT !.pc = "replied"]
<1>0. /\ op \in [Ops -> Handler] /\ wire \subseteq [to : Nodes, update : Replication]
      /\ op[o].pc = "applied"
      /\ op[o].pc = "applied" => ~op[o].reached
  BY DEF TidyInv, Shapes, Handled, Broadcast
<1>1. /\ op[o] \in Handler /\ op[o].entry # None /\ Update(o) \in Replication
      /\ Peers(f) \in SUBSET Nodes
  BY <1>0, ReplicatingHolds DEF TidyInv
<1>2. CASE OpenFan(f)
  <2>1. /\ wire' = wire \cup {[to |-> p, update |-> Update(o)] : p \in Peers(f)}
        /\ op' = [op EXCEPT ![o].pc = "posted", ![o].awaited = Peers(f), ![o].reached = TRUE]
        /\ UNCHANGED <<nodeVars, admin, stopping, seen>>
    BY <1>2 DEF Broadcast, Posts
  <2>2. op' = [op EXCEPT ![o] = h]
    BY <1>0, <2>1
  <2>4. wire' \subseteq [to : Nodes, update : Replication]
    BY <1>0, <1>1, <2>1
  <2>5. /\ h \in Handler /\ h.pc = "posted" /\ h.node = op[o].node /\ h.key = op[o].key
        /\ h.fan = op[o].fan /\ h.entry = op[o].entry
    BY <1>1 DEF Handler
  <2> HIDE DEF h, f
  <2> QED
    BY <1>0, <1>1, <2>1, <2>2, <2>4, <2>5, HandlerTidies
<1>3. CASE ~OpenFan(f)
  <2>1. /\ op' = [op EXCEPT ![o].pc = "replied"]
        /\ UNCHANGED <<nodeVars, admin, stopping, seen, wire>>
    BY <1>3 DEF Broadcast
  <2>2. op' = [op EXCEPT ![o] = i]
    BY <1>0, <2>1
  <2>3. /\ i \in Handler /\ i.pc = "replied" /\ i.node = op[o].node /\ i.key = op[o].key
        /\ i.fan = op[o].fan /\ i.entry = op[o].entry /\ i.reached = op[o].reached
    BY <1>1 DEF Handler
  <2> HIDE DEF i, f
  <2> QED
    BY <1>0, <1>1, <2>1, <2>2, <2>3, HandlerTidies
<1> QED
  BY <1>2, <1>3

LEMMA WireTidies ==
  ASSUME TidyInv, NEW m \in wire, Deliver(m) \/ Lose(m)
  PROVE  TidyInv'
<1> USE DEF TidyInv
<1>1. m.to \in Nodes /\ m.update.key \in Registers /\ m.update.entry \in Entry
  BY DEF Shapes, Replication
<1>2. CASE Deliver(m)
  <2>1. Shapes'
    BY <1>1, <1>2 DEF Deliver, Shapes
  <2>2. Handled'
    BY <1>2 DEF Deliver, Handled
  <2> QED
    BY <1>2, <2>1, <2>2, FansAlone DEF Deliver
<1>3. CASE Lose(m)
  <2>1. Shapes'
    BY <1>3 DEF Lose, nodeVars, Shapes
  <2>2. Handled'
    BY <1>3 DEF Lose, nodeVars, Handled
  <2> QED
    BY <1>3, <2>1, <2>2, FansAlone DEF Lose, nodeVars
<1> QED
  BY <1>2, <1>3

(***************************************************************************)
(* A step of a handler or a worker that changes one fan-out and leaves its *)
(* state, and that it has stopped.                                         *)
(***************************************************************************)
LEMMA FanMoves ==
  ASSUME TidyInv, NEW n \in Nodes, NEW g \in DOMAIN fans[n], NEW f \in Fan,
         fans' = [fans EXCEPT ![n][g] = f],
         f.state = fans[n][g].state, Exited(fans[n][g]) => Exited(f),
         UNCHANGED <<admin, stopping, closed>>
  PROVE  Retired' /\ (UNCHANGED op => Handled')
<1>1. fans \in [Nodes -> Seq(Fan)]
  BY DEF TidyInv, Shapes
<1>2. /\ fans' \in [Nodes -> Seq(Fan)]
      /\ \A x \in Nodes : DOMAIN fans'[x] = DOMAIN fans[x] /\ Len(fans'[x]) = Len(fans[x])
      /\ fans'[n][g] = f
      /\ \A x \in Nodes : \A h \in DOMAIN fans[x] :
           <<x, h>> # <<n, g>> => fans'[x][h] = fans[x][h]
  BY <1>1, OneFanChanged
<1>3. \A x \in Nodes : Current(x)' = Current(x) /\ DOMAIN fans'[x] = DOMAIN fans[x]
                         /\ Current(x) \in DOMAIN fans[x]
  BY <1>1, <1>2 DEF Current, TidyInv, Shapes
<1>4. ASSUME NEW x \in Nodes, NEW i \in DOMAIN fans[x], NEW h, InStep(h, fans[x][i])
      PROVE  InStep(h, fans'[x][i])
  <2>1. CASE <<x, i>> = <<n, g>>
    BY <2>1, <1>2, <1>4 DEF InStep
  <2>2. CASE <<x, i>> # <<n, g>>
    BY <2>2, <1>2, <1>4
  <2> QED
    BY <2>1, <2>2
<1>5. \A x \in Nodes : \A i \in DOMAIN fans[x] : fans'[x][i].state = fans[x][i].state
  <2> TAKE x \in Nodes
  <2> TAKE i \in DOMAIN fans[x]
  <2>1. CASE <<x, i>> = <<n, g>>
    BY <2>1, <1>2
  <2>2. CASE <<x, i>> # <<n, g>>
    BY <2>2, <1>2
  <2> QED
    BY <2>1, <2>2
<1>6. Retired'
  <2>1. ASSUME NEW a \in Admins
        PROVE  /\ admin[a].pc \in Retiring => admin[a].prev # 0
               /\ admin[a].pc = "swap" => admin[a].node \in Nodes
               /\ admin[a].pc \in {"idle", "swap", "refused"} => admin[a].prev = 0
               /\ admin[a].prev # 0 =>
                    /\ admin[a].node \in Nodes /\ admin[a].prev < Current(admin[a].node)'
                    /\ InStep(admin[a], fans'[admin[a].node][admin[a].prev])
    <3>1. admin[a].prev # 0 => /\ admin[a].node \in Nodes
                               /\ admin[a].prev < Current(admin[a].node)
                               /\ InStep(admin[a], fans[admin[a].node][admin[a].prev])
      BY DEF TidyInv, Retired
    <3>2. admin[a].prev # 0 => admin[a].prev \in DOMAIN fans[admin[a].node]
      BY <3>1, <1>1 DEF TidyInv, Shapes, Current
    <3>3. admin[a].prev # 0 => InStep(admin[a], fans'[admin[a].node][admin[a].prev])
      BY <3>1, <3>2, <1>4
    <3>4. /\ admin[a].pc \in Retiring => admin[a].prev # 0
          /\ admin[a].pc = "swap" => admin[a].node \in Nodes
          /\ admin[a].pc \in {"idle", "swap", "refused"} => admin[a].prev = 0
      BY DEF TidyInv, Retired
    <3> QED
      BY <3>1, <3>3, <3>4, <1>3
  <2>2. ASSUME NEW x \in Nodes
        PROVE  /\ x \in closed <=> stopping[x].pc # "idle"
               /\ x \in closed => stopping[x].prev = Current(x)'
               /\ IF x \in closed THEN InStep(stopping[x], fans'[x][Current(x)'])
                                  ELSE fans'[x][Current(x)'].state = "open"
    <3>1. /\ x \in closed <=> stopping[x].pc # "idle"
          /\ x \in closed => stopping[x].prev = Current(x)
          /\ IF x \in closed THEN InStep(stopping[x], fans[x][Current(x)])
                             ELSE fans[x][Current(x)].state = "open"
      BY DEF TidyInv, Retired
    <3> QED
      BY <3>1, <1>3, <1>4, <1>5
  <2>3. \A x \in Nodes : \A h \in DOMAIN fans'[x] : h < Current(x)' =>
          \E a \in Admins : admin[a].node = x /\ admin[a].prev = h
    BY <1>3 DEF TidyInv, Retired
  <2>4. \A a, b \in Admins :
          admin[a].node = admin[b].node /\ admin[a].prev = admin[b].prev => a = b \/ admin[a].prev = 0
    BY DEF TidyInv, Retired
  <2> QED
    BY <2>1, <2>2, <2>3, <2>4 DEF Retired
<1>7. UNCHANGED op => Handled'
  BY <1>3 DEF TidyInv, Handled
<1> QED
  BY <1>6, <1>7

LEMMA EnqueueTidies ==
  ASSUME TidyInv, NEW o \in Ops, Enqueue(o)
  PROVE  TidyInv'
<1> DEFINE n == op[o].node
           g == op[o].fan
           f == fans[n][g]
           q == [p \in Peers(f) |-> IF Room(f, p) THEN Append(f.queue[p], Update(o)) ELSE f.queue[p]]
           e == [f EXCEPT !.queue = q]
           i == [op[o] EXCEPT !.pc = "replied"]
<1>0. /\ op \in [Ops -> Handler] /\ wire \subseteq [to : Nodes, update : Replication]
      /\ op[o].pc = "applied" /\ fans \in [Nodes -> Seq(Fan)]
      /\ op[o].pc = "applied" => ~op[o].reached
      /\ op' = [op EXCEPT ![o].pc = "replied"]
      /\ UNCHANGED <<data, synchronous, closed, wire, admin, stopping, seen>>
  BY DEF TidyInv, Shapes, Handled, Enqueue
<1>1. /\ op[o] \in Handler /\ op[o].entry # None /\ n \in Nodes /\ g \in DOMAIN fans[n] /\ f \in Fan
  BY <1>0, ReplicatingHolds DEF TidyInv
<1>2. op' = [op EXCEPT ![o] = i]
  BY <1>0
<1>3. /\ i \in Handler /\ i.pc = "replied" /\ i.node = op[o].node /\ i.key = op[o].key
      /\ i.fan = op[o].fan /\ i.entry = op[o].entry /\ i.reached = op[o].reached
  BY <1>1 DEF Handler
<1>4. CASE OpenFan(f)
  <2>1. e \in Fan /\ fans' = [fans EXCEPT ![n][g] = e]
    BY <1>4, EnqueueMakes DEF TidyInv
  <2>3. e.state = f.state /\ ~Exited(f)
    BY <1>1, <1>4, FanParts DEF OpenFan, Exited
  <2> HIDE DEF e, f, i
  <2>4. Retired'
    BY <1>0, <1>1, <2>1, <2>3, FanMoves DEF f
  <2>5. /\ fans' \in [Nodes -> Seq(Fan)]
        /\ \A x \in Nodes : DOMAIN fans'[x] = DOMAIN fans[x] /\ Len(fans'[x]) = Len(fans[x])
    BY <1>0, <1>1, <2>1, OneFanChanged
  <2>6. Shapes'
    BY <1>0, <1>2, <1>3, <2>5 DEF TidyInv, Shapes
  <2>7. Handled'
    BY <1>0, <1>1, <1>2, <1>3, <2>5 DEF TidyInv, Handled
  <2> QED
    BY <2>4, <2>6, <2>7 DEF TidyInv
<1>5. CASE ~OpenFan(f)
  <2>1. UNCHANGED fans
    BY <1>5 DEF Enqueue
  <2> HIDE DEF i, f
  <2> QED
    BY <1>0, <1>1, <1>2, <1>3, <2>1, HandlerTidies DEF nodeVars
<1> QED
  BY <1>4, <1>5

LEMMA WorkerTidies ==
  ASSUME TidyInv, NEW n \in Nodes, NEW g, NEW p \in Nodes, Worker(n, g, p)
  PROVE  TidyInv'
<1> DEFINE f == fans[n][g]
<1>0. fans \in [Nodes -> Seq(Fan)] /\ wire \subseteq [to : Nodes, update : Replication]
  BY DEF TidyInv, Shapes
<1>1. CASE Pump(n, g, p)
  <2> DEFINE e == Pumped(f, p)
  <2>1. /\ g \in DOMAIN fans[n] /\ f \in Fan /\ p \in Peers(f)
        /\ e \in Fan /\ fans' = [fans EXCEPT ![n][g] = e]
    BY <1>1, PumpMakes DEF TidyInv
  <2>2. f \in FanOn(Peers(f))
    BY <2>1, FanParts
  <2>3. f.queue[p] # <<>> /\ UNCHANGED <<data, synchronous, closed, op, admin, stopping, seen>>
    BY <1>1 DEF Pump
  <2>4. e.state = f.state /\ ~Exited(f)
    BY <2>1, <2>2, <2>3 DEF FanOn, Exited, Pumped
  <2>5. Head(f.queue[p]) \in Replication
    BY <2>1, <2>2, <2>3 DEF FanOn
  <2>6. wire' \subseteq [to : Nodes, update : Replication]
    <3>1. CASE f.state = "cancelled"
      BY <3>1, <1>0, <1>1 DEF Pump
    <3>2. CASE f.state # "cancelled"
      <4>1. wire' = wire \cup {[to |-> p, update |-> Head(f.queue[p])]}
        BY <3>2, <1>1 DEF Pump, Posts
      <4> QED
        BY <4>1, <1>0, <2>5
    <3> QED
      BY <3>1, <3>2
  <2> HIDE DEF e, f
  <2>7. Retired' /\ Handled'
    BY <2>1, <2>3, <2>4, FanMoves DEF f
  <2>8. /\ fans' \in [Nodes -> Seq(Fan)]
        /\ \A x \in Nodes : Len(fans'[x]) = Len(fans[x])
    BY <1>0, <2>1, OneFanChanged
  <2>9. Shapes'
    BY <2>3, <2>6, <2>8 DEF TidyInv, Shapes
  <2> QED
    BY <2>7, <2>9 DEF TidyInv
<1>2. CASE PumpDone(n, g, p)
  <2> DEFINE e == [f EXCEPT !.busy[p] = None]
  <2>1. /\ g \in DOMAIN fans[n] /\ f \in Fan /\ p \in Peers(f)
        /\ e \in Fan /\ fans' = [fans EXCEPT ![n][g] = e] /\ Peers(e) = Peers(f)
    BY <1>2, PumpDoneMakes DEF TidyInv
  <2>2. f \in FanOn(Peers(f))
    BY <2>1, FanParts
  <2>3. f.busy[p] # None /\ UNCHANGED <<data, synchronous, closed, wire, op, admin, stopping, seen, lost>>
    BY <1>2 DEF PumpDone
  <2>4. e.state = f.state /\ ~Exited(f)
    BY <2>1, <2>2, <2>3 DEF FanOn, Exited
  <2> HIDE DEF e, f
  <2>5. Retired' /\ Handled'
    BY <2>1, <2>3, <2>4, FanMoves DEF f
  <2>6. /\ fans' \in [Nodes -> Seq(Fan)]
        /\ \A x \in Nodes : Len(fans'[x]) = Len(fans[x])
    BY <1>0, <2>1, OneFanChanged
  <2>7. Shapes'
    BY <2>3, <2>6 DEF TidyInv, Shapes
  <2> QED
    BY <2>5, <2>7 DEF TidyInv
<1> QED
  BY <1>1, <1>2 DEF Worker

(***************************************************************************)
(* A /configure handler's record.                                          *)
(***************************************************************************)
Admin == [pc : {"idle", "swap", "refused", "done"} \cup Retiring,
          node : Nodes \cup {None}, peers : SUBSET Nodes, prev : Nat]

LEMMA AdminIs ==
  ASSUME TidyInv, NEW a \in Admins
  PROVE  /\ admin \in [Admins -> Admin] /\ admin[a] \in Admin
         /\ admin[a].pc \in Retiring => admin[a].prev # 0
         /\ admin[a].pc \in {"idle", "swap", "refused"} => admin[a].prev = 0
         /\ admin[a].prev # 0 =>
              /\ admin[a].node \in Nodes
              /\ admin[a].prev \in DOMAIN fans[admin[a].node]
              /\ admin[a].prev < Current(admin[a].node)
              /\ InStep(admin[a], fans[admin[a].node][admin[a].prev])
<1>1. admin \in [Admins -> Admin] /\ admin[a] \in Admin
  BY DEF TidyInv, Shapes, Admin
<1>2. admin[a].prev \in Nat
  BY <1>1 DEF Admin
<1>3. /\ admin[a].pc \in Retiring => admin[a].prev # 0
      /\ admin[a].pc \in {"idle", "swap", "refused"} => admin[a].prev = 0
      /\ admin[a].prev # 0 =>
           /\ admin[a].node \in Nodes
           /\ admin[a].prev < Current(admin[a].node)
           /\ InStep(admin[a], fans[admin[a].node][admin[a].prev])
  BY DEF TidyInv, Retired
<1>4. \A n \in Nodes : fans[n] \in Seq(Fan) /\ Current(n) \in Nat
  BY DEF TidyInv, Shapes, Current
<1>5. admin[a].prev # 0 => admin[a].prev \in DOMAIN fans[admin[a].node]
  BY <1>2, <1>3, <1>4 DEF Current
<1> QED
  BY <1>1, <1>3, <1>5

LEMMA AdminMoves ==
  ASSUME TidyInv, NEW a \in Admins, NEW h \in Admin, admin' = [admin EXCEPT ![a] = h],
         UNCHANGED <<data, closed, fans, wire, op, stopping, seen, lost>>,
         synchronous' \in [Nodes -> BOOLEAN],
         h.prev = admin[a].prev, h.prev # 0 => h.node = admin[a].node,
         h.pc \in Retiring => h.prev # 0, h.pc \in {"idle", "swap", "refused"} => h.prev = 0,
         h.pc = "swap" => h.node \in Nodes,
         h.prev # 0 => InStep(h, fans[h.node][h.prev])
  PROVE  TidyInv'
<1>1. /\ admin \in [Admins -> Admin] /\ admin' \in [Admins -> Admin]
      /\ admin'[a] = h /\ \A b \in Admins \ {a} : admin'[b] = admin[b]
  BY AdminIs
<1>2. \A n \in Nodes : Current(n)' = Current(n) /\ fans[n] \in Seq(Fan)
  BY DEF Current, TidyInv, Shapes
<1>3. Shapes'
  BY <1>1 DEF TidyInv, Shapes, Admin
<1>4. Handled'
  BY DEF TidyInv, Handled
<1>5. Retired'
  <2>1. ASSUME NEW b \in Admins
        PROVE  /\ admin'[b].pc \in Retiring => admin'[b].prev # 0
               /\ admin'[b].pc = "swap" => admin'[b].node \in Nodes
               /\ admin'[b].pc \in {"idle", "swap", "refused"} => admin'[b].prev = 0
               /\ admin'[b].prev # 0 =>
                    /\ admin'[b].node \in Nodes /\ admin'[b].prev < Len(fans'[admin'[b].node])
                    /\ InStep(admin'[b], fans'[admin'[b].node][admin'[b].prev])
    <3>0. /\ admin[b].prev # 0 =>
               /\ admin[b].node \in Nodes /\ admin[b].prev < Len(fans[admin[b].node])
               /\ InStep(admin[b], fans[admin[b].node][admin[b].prev])
          /\ admin[b].pc \in Retiring => admin[b].prev # 0
          /\ admin[b].pc = "swap" => admin[b].node \in Nodes
          /\ admin[b].pc \in {"idle", "swap", "refused"} => admin[b].prev = 0
      BY DEF TidyInv, Retired, Current
    <3>1. CASE b = a
      BY <3>0, <3>1, <1>1
    <3>2. CASE b # a
      BY <3>0, <3>2, <1>1
    <3> QED
      BY <3>1, <3>2
  <2>2. \A b \in Admins : /\ admin'[b].prev = admin[b].prev
                          /\ admin[b].prev # 0 => admin'[b].node = admin[b].node
    BY <1>1
  <2>3. \A b, c \in Admins :
          admin'[b].node = admin'[c].node /\ admin'[b].prev = admin'[c].prev
            => b = c \/ admin'[b].prev = 0
    BY <2>2 DEF TidyInv, Retired
  <2>4. ASSUME NEW n \in Nodes, NEW g \in DOMAIN fans'[n], g < Len(fans'[n])
        PROVE  \E b \in Admins : admin'[b].node = n /\ admin'[b].prev = g
    <3>1. PICK b \in Admins : admin[b].node = n /\ admin[b].prev = g
      BY <2>4 DEF TidyInv, Retired, Current
    <3>2. g # 0
      BY <1>2
    <3> QED
      BY <2>2, <3>1, <3>2
  <2>5. \A n \in Nodes :
          /\ n \in closed' <=> stopping'[n].pc # "idle"
          /\ n \in closed' => stopping'[n].prev = Len(fans'[n])
          /\ IF n \in closed' THEN InStep(stopping'[n], fans'[n][Len(fans'[n])])
                              ELSE fans'[n][Len(fans'[n])].state = "open"
    BY DEF TidyInv, Retired, Current
  <2> QED
    BY <2>1, <2>3, <2>4, <2>5 DEF Retired, Current
<1> QED
  BY <1>3, <1>4, <1>5 DEF TidyInv

LEMMA ConfigureTidies ==
  ASSUME TidyInv, NEW a \in Admins, NEW c \in Configs, Configure(a, c)
  PROVE  TidyInv'
<1> DEFINE h == [pc |-> IF c.peers = {} THEN "done" ELSE "swap",
                 node |-> c.node, peers |-> UNION c.peers, prev |-> 0]
<1>1. admin[a].pc = "idle"
  BY DEF Configure, Arrives, NextIn, Begun, TidyInv, Shapes
<1>2. admin[a].prev = 0
  BY <1>1, AdminIs
<1>3. c.node \in Nodes /\ UNION c.peers \in SUBSET Nodes
  BY QuorumAssumption
<1>4. h \in Admin /\ h.pc \in {"done", "swap"} /\ h.prev = 0 /\ h.node \in Nodes
  BY <1>3 DEF Admin
<1>5. /\ admin' = [admin EXCEPT ![a] = h]
      /\ UNCHANGED <<data, closed, fans, wire, op, stopping, seen, lost>>
  BY DEF Configure
<1>6. synchronous' \in [Nodes -> BOOLEAN]
  <2>1. synchronous[c.node] \in BOOLEAN /\ synchronous \in [Nodes -> BOOLEAN]
    BY <1>3 DEF TidyInv, Shapes
  <2>2. CASE c.sync = {}
    <3>1. synchronous' = [synchronous EXCEPT ![c.node] = @]
      BY <2>2 DEF Configure
    <3> QED
      BY <2>1, <3>1
  <2>3. CASE c.sync # {}
    <3> DEFINE v == TRUE \in c.sync
    <3>1. synchronous' = [synchronous EXCEPT ![c.node] = v]
      BY <2>3 DEF Configure
    <3>2. v \in BOOLEAN
      OBVIOUS
    <3> HIDE DEF v
    <3> QED
      BY <2>1, <3>1, <3>2
  <2> QED
    BY <2>2, <2>3
<1> HIDE DEF h
<1> QED
  BY <1>2, <1>4, <1>5, <1>6, AdminMoves DEF Retiring

LEMMA ConfiguredTidies ==
  ASSUME TidyInv, NEW a \in Admins, Configured(a)
  PROVE  TidyInv'
<1> DEFINE h == [admin[a] EXCEPT !.pc = "done"]
<1>1. /\ admin[a].pc = "wait" /\ Exited(fans[admin[a].node][admin[a].prev])
      /\ admin' = [admin EXCEPT ![a].pc = "done"]
      /\ UNCHANGED <<data, synchronous, closed, fans, wire, op, stopping, seen, lost>>
  BY DEF Configured, nodeVars
<1>2. admin \in [Admins -> Admin] /\ admin[a] \in Admin
  BY AdminIs
<1>3. /\ h \in Admin /\ h.pc = "done" /\ h.prev = admin[a].prev /\ h.node = admin[a].node
  BY <1>2 DEF Admin
<1>4. admin' = [admin EXCEPT ![a] = h]
  BY <1>1, <1>2
<1>5. synchronous' \in [Nodes -> BOOLEAN]
  BY <1>1 DEF TidyInv, Shapes
<1> HIDE DEF h
<1>6. InStep(h, fans[h.node][h.prev])
  BY <1>1, <1>3 DEF InStep
<1> QED
  BY <1>1, <1>3, <1>4, <1>5, <1>6, AdminMoves DEF Retiring

LEMMA StoppingIs ==
  ASSUME TidyInv, NEW n \in Nodes
  PROVE  /\ fans[n] \in Seq(Fan) /\ Len(fans[n]) \in Nat \ {0} /\ DOMAIN fans[n] = 1..Len(fans[n])
         /\ stopping[n].pc # "idle" <=> n \in closed
         /\ n \in closed => stopping[n].prev = Len(fans[n])
         /\ n \in closed => InStep(stopping[n], fans[n][Len(fans[n])])
         /\ n \notin closed => fans[n][Len(fans[n])].state = "open"
<1>1. fans[n] \in Seq(Fan) /\ Len(fans[n]) > 0
  BY DEF TidyInv, Shapes
<1> QED
  BY <1>1 DEF TidyInv, Retired, Current

LEMMA RetiredOne ==
  ASSUME TidyInv, NEW n \in Nodes, NEW g \in DOMAIN fans[n], g < Len(fans[n])
  PROVE  \E b \in Admins : admin[b].node = n /\ admin[b].prev = g
BY DEF TidyInv, Retired, Current

(***************************************************************************)
(* One step of fanout.close on behalf of a /configure, and of Close.       *)
(***************************************************************************)
LEMMA RetireTidies ==
  ASSUME TidyInv, NEW a \in Admins, Retire(a)
  PROVE  TidyInv'
<1> DEFINE n == admin[a].node
           g == admin[a].prev
           f == fans[n][g]
           e == [f EXCEPT !.state = IF admin[a].pc = "mark" THEN "marked" ELSE "cancelled"]
<1>1. PICK after \in {"cancel", "wait"} :
        /\ CloseStep(n, admin[a], after)
        /\ admin' = [admin EXCEPT ![a].pc = after]
  BY DEF Retire
<1>2. UNCHANGED <<data, synchronous, closed, wire, op, stopping, seen, lost>>
  BY DEF Retire
<1>3. admin[a].pc \in {"mark", "cancel"}
  BY <1>1 DEF CloseStep
<1>4. /\ admin \in [Admins -> Admin] /\ admin[a] \in Admin /\ g # 0
      /\ n \in Nodes /\ g \in DOMAIN fans[n] /\ g < Len(fans[n])
  BY <1>3, AdminIs DEF Retiring, Current
<1>5. /\ f \in Fan /\ e \in Fan /\ fans' = [fans EXCEPT ![n][g] = e]
      /\ after = IF admin[a].pc = "mark" THEN "cancel" ELSE "wait"
  BY <1>1, <1>4, CloseMakes DEF TidyInv
<1>6. e.state = IF admin[a].pc = "mark" THEN "marked" ELSE "cancelled"
  <2>1. f = [state |-> f.state, queue |-> f.queue, busy |-> f.busy]
    BY <1>5, FanParts
  <2> QED
    BY <2>1
<1>7. fans \in [Nodes -> Seq(Fan)]
  BY DEF TidyInv, Shapes
<1> DEFINE h == [admin[a] EXCEPT !.pc = after]
<1>8. h \in Admin /\ h.pc = after /\ h.node = n /\ h.prev = g
  BY <1>4, <1>5 DEF Admin, Retiring
<1>9. /\ admin' \in [Admins -> Admin] /\ admin'[a] = h
      /\ \A b \in Admins \ {a} : admin'[b] = admin[b]
  BY <1>1, <1>4, <1>8
<1>10. InStep(h, e)
  BY <1>5, <1>6, <1>8 DEF InStep
<1> HIDE DEF e, f, n, g, h
<1>11. /\ fans' \in [Nodes -> Seq(Fan)]
       /\ \A x \in Nodes : DOMAIN fans'[x] = DOMAIN fans[x] /\ Len(fans'[x]) = Len(fans[x])
       /\ fans'[n][g] = e
       /\ \A x \in Nodes : \A i \in DOMAIN fans[x] :
            <<x, i>> # <<n, g>> => fans'[x][i] = fans[x][i]
  BY <1>4, <1>5, <1>7, OneFanChanged
<1>12. Shapes'
  BY <1>2, <1>9, <1>11 DEF TidyInv, Shapes, Admin
<1>13. Handled'
  BY <1>2, <1>11 DEF TidyInv, Handled
<1>14. Retired'
  <2>1. ASSUME NEW b \in Admins
        PROVE  /\ admin'[b].pc \in Retiring => admin'[b].prev # 0
               /\ admin'[b].pc = "swap" => admin'[b].node \in Nodes
               /\ admin'[b].pc \in {"idle", "swap", "refused"} => admin'[b].prev = 0
               /\ admin'[b].prev # 0 =>
                    /\ admin'[b].node \in Nodes /\ admin'[b].prev < Len(fans'[admin'[b].node])
                    /\ InStep(admin'[b], fans'[admin'[b].node][admin'[b].prev])
    <3>1. CASE b = a
      <4>1. h.pc \in {"cancel", "wait"}
        BY <1>8
      <4> QED
        BY <3>1, <4>1, <1>4, <1>8, <1>9, <1>10, <1>11
    <3>2. CASE b # a
      <4>1. /\ admin[b].prev # 0 =>
                 /\ admin[b].node \in Nodes /\ admin[b].prev < Len(fans[admin[b].node])
                 /\ InStep(admin[b], fans[admin[b].node][admin[b].prev])
                 /\ admin[b].prev \in DOMAIN fans[admin[b].node]
            /\ admin[b].pc \in Retiring => admin[b].prev # 0
            /\ admin[b].pc = "swap" => admin[b].node \in Nodes
            /\ admin[b].pc \in {"idle", "swap", "refused"} => admin[b].prev = 0
        BY AdminIs DEF TidyInv, Retired, Current
      <4>2. admin[b].prev # 0 => <<admin[b].node, admin[b].prev>> # <<n, g>>
        BY <3>2 DEF n, g, TidyInv, Retired
      <4> QED
        BY <3>2, <4>1, <4>2, <1>9, <1>11
    <3> QED
      BY <3>1, <3>2
  <2>2. \A b \in Admins : admin'[b].prev = admin[b].prev /\ admin'[b].node = admin[b].node
    <3> TAKE b \in Admins
    <3>1. CASE b = a
      BY <3>1, <1>8, <1>9 DEF n, g
    <3>2. CASE b # a
      BY <3>2, <1>9
    <3> QED
      BY <3>1, <3>2
  <2>3. \A b, c \in Admins :
          admin'[b].node = admin'[c].node /\ admin'[b].prev = admin'[c].prev
            => b = c \/ admin'[b].prev = 0
    BY <2>2 DEF TidyInv, Retired
  <2>4. ASSUME NEW x \in Nodes, NEW i \in DOMAIN fans'[x], i < Len(fans'[x])
        PROVE  \E b \in Admins : admin'[b].node = x /\ admin'[b].prev = i
    BY <2>2, <2>4, <1>11, RetiredOne
  <2>5. ASSUME NEW x \in Nodes
        PROVE  /\ x \in closed' <=> stopping'[x].pc # "idle"
               /\ x \in closed' => stopping'[x].prev = Len(fans'[x])
               /\ IF x \in closed' THEN InStep(stopping'[x], fans'[x][Len(fans'[x])])
                                   ELSE fans'[x][Len(fans'[x])].state = "open"
    <3>1. Len(fans[x]) \in DOMAIN fans[x] /\ <<x, Len(fans[x])>> # <<n, g>>
      BY <1>4, StoppingIs
    <3>2. fans'[x][Len(fans'[x])] = fans[x][Len(fans[x])] /\ Len(fans'[x]) = Len(fans[x])
      BY <3>1, <1>11
    <3> QED
      BY <3>2, <1>2, StoppingIs
  <2> QED
    BY <2>1, <2>3, <2>4, <2>5 DEF Retired, Current
<1> QED
  BY <1>12, <1>13, <1>14 DEF TidyInv

(***************************************************************************)
(* A step of Close leaves the requests and every fan-out but the current   *)
(* one alone.                                                              *)
(***************************************************************************)
LEMMA StoppingMoves ==
  ASSUME TidyInv, NEW n \in Nodes,
         NEW h \in [pc : {"idle", "done"} \cup Retiring, prev : Nat], NEW e \in Fan,
         stopping' = [stopping EXCEPT ![n] = h], closed' = closed \cup {n},
         fans' = [fans EXCEPT ![n][Len(fans[n])] = e],
         UNCHANGED <<data, synchronous, wire, op, admin, seen, lost>>,
         h.pc # "idle", h.prev = Len(fans[n]), InStep(h, e)
  PROVE  TidyInv'
<1> DEFINE g == Len(fans[n])
<1>1. fans \in [Nodes -> Seq(Fan)] /\ stopping \in [Nodes -> [pc : {"idle", "done"} \cup Retiring, prev : Nat]]
  BY DEF TidyInv, Shapes
<1>2. g \in DOMAIN fans[n]
  BY StoppingIs
<1>3. fans' = [fans EXCEPT ![n][g] = e]
  OBVIOUS
<1> HIDE DEF g
<1>4. /\ fans' \in [Nodes -> Seq(Fan)]
      /\ \A x \in Nodes : DOMAIN fans'[x] = DOMAIN fans[x] /\ Len(fans'[x]) = Len(fans[x])
      /\ fans'[n][g] = e
      /\ \A x \in Nodes : \A i \in DOMAIN fans[x] :
           <<x, i>> # <<n, g>> => fans'[x][i] = fans[x][i]
  BY <1>1, <1>2, <1>3, OneFanChanged
<1>5. Shapes'
  BY <1>1, <1>4 DEF TidyInv, Shapes
<1>6. Handled'
  BY <1>4 DEF TidyInv, Handled
<1>7. Retired'
  <2>1. ASSUME NEW b \in Admins
        PROVE  /\ admin'[b].pc \in Retiring => admin'[b].prev # 0
               /\ admin'[b].pc = "swap" => admin'[b].node \in Nodes
               /\ admin'[b].pc \in {"idle", "swap", "refused"} => admin'[b].prev = 0
               /\ admin'[b].prev # 0 =>
                    /\ admin'[b].node \in Nodes /\ admin'[b].prev < Len(fans'[admin'[b].node])
                    /\ InStep(admin'[b], fans'[admin'[b].node][admin'[b].prev])
    <3>1. /\ admin[b].prev # 0 =>
               /\ admin[b].node \in Nodes /\ admin[b].prev < Len(fans[admin[b].node])
               /\ InStep(admin[b], fans[admin[b].node][admin[b].prev])
               /\ admin[b].prev \in DOMAIN fans[admin[b].node]
          /\ admin[b].pc \in Retiring => admin[b].prev # 0
          /\ admin[b].pc = "swap" => admin[b].node \in Nodes
          /\ admin[b].pc \in {"idle", "swap", "refused"} => admin[b].prev = 0
      BY AdminIs DEF TidyInv, Retired, Current
    <3>2. admin[b].prev # 0 => <<admin[b].node, admin[b].prev>> # <<n, g>>
      BY <3>1, StoppingIs DEF g
    <3> QED
      BY <3>1, <3>2, <1>4
  <2>2. \A b, c \in Admins :
          admin'[b].node = admin'[c].node /\ admin'[b].prev = admin'[c].prev
            => b = c \/ admin'[b].prev = 0
    BY DEF TidyInv, Retired
  <2>3. ASSUME NEW x \in Nodes, NEW i \in DOMAIN fans'[x], i < Len(fans'[x])
        PROVE  \E b \in Admins : admin'[b].node = x /\ admin'[b].prev = i
    BY <2>3, <1>4, RetiredOne
  <2>4. ASSUME NEW x \in Nodes
        PROVE  /\ x \in closed' <=> stopping'[x].pc # "idle"
               /\ x \in closed' => stopping'[x].prev = Len(fans'[x])
               /\ IF x \in closed' THEN InStep(stopping'[x], fans'[x][Len(fans'[x])])
                                   ELSE fans'[x][Len(fans'[x])].state = "open"
    <3>1. CASE x = n
      BY <3>1, <1>1, <1>4 DEF g
    <3>2. CASE x # n
      <4>1. Len(fans[x]) \in DOMAIN fans[x]
        BY StoppingIs
      <4>2. fans'[x][Len(fans'[x])] = fans[x][Len(fans[x])] /\ Len(fans'[x]) = Len(fans[x])
        BY <3>2, <4>1, <1>4
      <4>3. stopping'[x] = stopping[x] /\ (x \in closed' <=> x \in closed)
        BY <3>2, <1>1
      <4> QED
        BY <4>2, <4>3, StoppingIs
    <3> QED
      BY <3>1, <3>2
  <2> QED
    BY <2>1, <2>2, <2>3, <2>4 DEF Retired, Current
<1> QED
  BY <1>5, <1>6, <1>7 DEF TidyInv

LEMMA CloseTidies ==
  ASSUME TidyInv, NEW n \in Nodes, Close(n)
  PROVE  TidyInv'
<1> DEFINE g == Len(fans[n])
           h == [pc |-> "mark", prev |-> g]
<1>1. /\ closed' = closed \cup {n} /\ stopping' = [stopping EXCEPT ![n] = h]
      /\ UNCHANGED <<data, synchronous, fans, wire, op, admin, seen, lost>>
      /\ stopping[n].pc = "idle"
  BY DEF Close, Current
<1>2. /\ fans[n] \in Seq(Fan) /\ g \in Nat /\ g \in DOMAIN fans[n] /\ fans[n][g].state = "open"
  BY <1>1, StoppingIs
<1>3. fans[n][g] \in Fan
  BY <1>2
<1>4. h \in [pc : {"idle", "done"} \cup Retiring, prev : Nat]
  BY <1>2 DEF Retiring
<1>5. fans' = [fans EXCEPT ![n][g] = fans[n][g]]
  BY <1>1, <1>2 DEF TidyInv, Shapes
<1>6. h.pc = "mark" /\ h.prev = g /\ InStep(h, fans[n][g])
  BY <1>2 DEF InStep
<1> HIDE DEF h
<1> QED
  BY <1>1, <1>3, <1>4, <1>5, <1>6, StoppingMoves

LEMMA ShutDownTidies ==
  ASSUME TidyInv, NEW n \in Nodes, ShutDown(n)
  PROVE  TidyInv'
<1> DEFINE g == Len(fans[n])
           f == fans[n][g]
           e == [f EXCEPT !.state = IF stopping[n].pc = "mark" THEN "marked" ELSE "cancelled"]
<1>0. /\ stopping \in [Nodes -> [pc : {"idle", "done"} \cup Retiring, prev : Nat]]
      /\ fans[n] \in Seq(Fan) /\ g \in DOMAIN fans[n] /\ f \in Fan
  BY StoppingIs DEF TidyInv, Shapes
<1>1. ASSUME NEW after \in {"cancel", "wait"}, CloseStep(n, stopping[n], after), Stop(n),
             stopping' = [stopping EXCEPT ![n].pc = after]
      PROVE  TidyInv'
  <2> DEFINE h == [stopping[n] EXCEPT !.pc = after]
  <2>1. stopping[n].pc \in {"mark", "cancel"}
    BY <1>1 DEF CloseStep
  <2>2. n \in closed /\ stopping[n].prev = g
    BY <2>1, StoppingIs
  <2>3. /\ e \in Fan /\ fans' = [fans EXCEPT ![n][g] = e]
        /\ after = IF stopping[n].pc = "mark" THEN "cancel" ELSE "wait"
    BY <1>0, <1>1, <2>2, CloseMakes DEF TidyInv
  <2>4. e.state = IF stopping[n].pc = "mark" THEN "marked" ELSE "cancelled"
    <3>1. f = [state |-> f.state, queue |-> f.queue, busy |-> f.busy]
      BY <1>0, FanParts
    <3> QED
      BY <3>1
  <2>5. /\ h \in [pc : {"idle", "done"} \cup Retiring, prev : Nat]
        /\ h.pc = after /\ h.prev = g
    BY <1>0, <1>1, <2>2 DEF Retiring
  <2>6. stopping' = [stopping EXCEPT ![n] = h] /\ closed' = closed \cup {n}
        /\ UNCHANGED <<data, synchronous, wire, op, admin, seen, lost>>
    BY <1>0, <1>1, <2>2 DEF Stop
  <2>7. InStep(h, e)
    BY <2>3, <2>4, <2>5 DEF InStep
  <2> HIDE DEF h, e
  <2> QED
    BY <1>1, <2>3, <2>5, <2>6, <2>7, StoppingMoves
<1>2. CASE Stopped(n)
  <2> DEFINE h == [stopping[n] EXCEPT !.pc = "done"]
  <2>1. /\ stopping[n].pc = "wait" /\ Exited(fans[n][stopping[n].prev])
        /\ stopping' = [stopping EXCEPT ![n].pc = "done"]
        /\ UNCHANGED <<data, synchronous, closed, fans, wire, op, admin, seen, lost>>
    BY <1>2 DEF Stopped, Waits, nodeVars
  <2>2. n \in closed /\ stopping[n].prev = g
    BY <2>1, StoppingIs
  <2>3. /\ h \in [pc : {"idle", "done"} \cup Retiring, prev : Nat]
        /\ h.pc = "done" /\ h.prev = g
    BY <1>0, <2>2
  <2>4. stopping' = [stopping EXCEPT ![n] = h] /\ closed' = closed \cup {n}
    BY <1>0, <2>1, <2>2
  <2>5. fans' = [fans EXCEPT ![n][g] = f]
    BY <1>0, <2>1 DEF TidyInv, Shapes
  <2>6. InStep(h, f)
    BY <2>1, <2>2, <2>3 DEF InStep
  <2> HIDE DEF h, f
  <2> QED
    BY <1>0, <2>1, <2>3, <2>4, <2>5, <2>6, StoppingMoves
<1> QED
  BY <1>1, <1>2 DEF ShutDown, Stop

(***************************************************************************)
(* A /configure that finds the store open makes the node's fan-out one it  *)
(* must retire, and no other /configure will.                              *)
(***************************************************************************)
LEMMA SwapTidies ==
  ASSUME TidyInv, NEW a \in Admins, Swap(a)
  PROVE  TidyInv'
<1> DEFINE n == admin[a].node
           new == NewFan(admin[a].peers)
<1>0. /\ admin[a].pc = "swap" /\ admin[a].prev = 0 /\ n \in Nodes /\ admin[a] \in Admin
      /\ admin \in [Admins -> Admin] /\ fans \in [Nodes -> Seq(Fan)]
      /\ UNCHANGED <<data, synchronous, closed, wire, op, stopping, seen, lost>>
  BY AdminIs DEF Swap, TidyInv, Shapes, Retired
<1>1. CASE ~StillOpen(n)
  <2> DEFINE h == [admin[a] EXCEPT !.pc = "refused"]
  <2>1. h \in Admin /\ h.pc = "refused" /\ h.prev = 0
    BY <1>0 DEF Admin
  <2>2. admin' = [admin EXCEPT ![a] = h] /\ UNCHANGED fans
    BY <1>0, <1>1 DEF Swap
  <2>3. synchronous' \in [Nodes -> BOOLEAN]
    BY <1>0 DEF TidyInv, Shapes
  <2> HIDE DEF h, n
  <2> QED
    BY <1>0, <2>1, <2>2, <2>3, AdminMoves DEF Retiring
<1>2. CASE StillOpen(n)
  <2> DEFINE h == [admin[a] EXCEPT !.pc = "mark", !.prev = Len(fans[n])]
  <2>0. /\ fans[n] \in Seq(Fan) /\ Len(fans[n]) \in Nat \ {0} /\ DOMAIN fans[n] = 1..Len(fans[n])
        /\ n \notin closed /\ fans[n][Len(fans[n])].state = "open"
    BY <1>0, <1>2, StoppingIs DEF StillOpen
  <2>1. h \in Admin /\ h.pc = "mark" /\ h.prev = Len(fans[n]) /\ h.node = n
    BY <1>0, <2>0 DEF Admin, Retiring
  <2>2. admin' = [admin EXCEPT ![a] = h] /\ fans' = [fans EXCEPT ![n] = Append(fans[n], new)]
    BY <1>0, <1>2 DEF Swap, Current
  <2>3. new \in Fan /\ new.state = "open"
    <3>1. admin[a].peers \in SUBSET Nodes
      BY <1>0 DEF Admin
    <3> QED
      BY <3>1, NewFanIsFan DEF NewFan
  <2> HIDE DEF new, h, n
  <2>4. /\ admin' \in [Admins -> Admin] /\ admin'[a] = h
        /\ \A b \in Admins \ {a} : admin'[b] = admin[b]
    BY <1>0, <2>1, <2>2
  <2>5. /\ fans'[n] \in Seq(Fan) /\ Len(fans'[n]) = Len(fans[n]) + 1
        /\ fans'[n][Len(fans[n]) + 1] = new
        /\ \A i \in DOMAIN fans[n] : fans'[n][i] = fans[n][i]
        /\ \A x \in Nodes \ {n} : fans'[x] = fans[x]
    BY <1>0, <2>0, <2>2, <2>3
  <2>6. fans' \in [Nodes -> Seq(Fan)]
    BY <1>0, <2>2, <2>5
  <2>7. \A x \in Nodes : Len(fans'[x]) >= Len(fans[x]) /\ Len(fans'[x]) \in Nat \ {0}
    <3> TAKE x \in Nodes
    <3>1. Len(fans[x]) \in Nat \ {0}
      BY StoppingIs
    <3>2. CASE x = n
      BY <3>1, <3>2, <2>5
    <3>3. CASE x # n
      BY <3>1, <3>3, <2>5
    <3> QED
      BY <3>2, <3>3
  <2>8. \A x \in Nodes : \A i \in DOMAIN fans[x] : i \in DOMAIN fans'[x] /\ fans'[x][i] = fans[x][i]
    <3> TAKE x \in Nodes
    <3>1. DOMAIN fans[x] = 1..Len(fans[x]) /\ Len(fans[x]) \in Nat
      BY StoppingIs
    <3>2. DOMAIN fans'[x] = 1..Len(fans'[x])
      BY <2>6
    <3>3. CASE x = n
      BY <3>1, <3>2, <3>3, <2>5, <2>7
    <3>4. CASE x # n
      BY <3>4, <2>5
    <3> QED
      BY <3>3, <3>4
  <2>9. Shapes'
    BY <1>0, <2>4, <2>6, <2>7 DEF TidyInv, Shapes, Admin
  <2>10. Handled'
    BY <1>0, <2>8 DEF TidyInv, Handled
  <2>11. Retired'
    <3>1. ASSUME NEW b \in Admins
          PROVE  /\ admin'[b].pc \in Retiring => admin'[b].prev # 0
                 /\ admin'[b].pc = "swap" => admin'[b].node \in Nodes
                 /\ admin'[b].pc \in {"idle", "swap", "refused"} => admin'[b].prev = 0
                 /\ admin'[b].prev # 0 =>
                      /\ admin'[b].node \in Nodes /\ admin'[b].prev < Len(fans'[admin'[b].node])
                      /\ InStep(admin'[b], fans'[admin'[b].node][admin'[b].prev])
      <4>1. CASE b = a
        <5>1. InStep(h, fans'[n][Len(fans[n])])
          BY <2>0, <2>1, <2>5 DEF InStep
        <5>2. n \in Nodes /\ Len(fans[n]) < Len(fans'[n])
          BY <1>0, <2>0, <2>5 DEF n
        <5>3. admin'[b] = h /\ h.pc = "mark" /\ h.prev = Len(fans[n]) /\ h.node = n /\ h.prev # 0
          BY <4>1, <2>0, <2>1, <2>4
        <5> QED
          BY <5>1, <5>2, <5>3
      <4>2. CASE b # a
        <5>1. /\ admin[b].prev # 0 =>
                   /\ admin[b].node \in Nodes /\ admin[b].prev < Len(fans[admin[b].node])
                   /\ InStep(admin[b], fans[admin[b].node][admin[b].prev])
                   /\ admin[b].prev \in DOMAIN fans[admin[b].node]
              /\ admin[b].pc \in Retiring => admin[b].prev # 0
              /\ admin[b].pc = "swap" => admin[b].node \in Nodes
              /\ admin[b].pc \in {"idle", "swap", "refused"} => admin[b].prev = 0
          BY AdminIs DEF TidyInv, Retired, Current
        <5>2. admin[b].prev # 0 => admin[b].prev < Len(fans'[admin[b].node])
          <6>1. SUFFICES ASSUME admin[b].prev # 0 PROVE admin[b].prev < Len(fans'[admin[b].node])
            OBVIOUS
          <6>2. Len(fans[admin[b].node]) \in Nat /\ Len(fans'[admin[b].node]) \in Nat
                  /\ Len(fans'[admin[b].node]) >= Len(fans[admin[b].node])
            BY <5>1, <6>1, <2>7, StoppingIs
          <6>3. admin[b].prev \in Nat
            BY AdminIs DEF Admin
          <6> QED
            BY <5>1, <6>1, <6>2, <6>3
        <5> QED
          BY <4>2, <5>1, <5>2, <2>4, <2>8
      <4> QED
        BY <4>1, <4>2
    <3>2. \A b, c \in Admins :
            admin'[b].node = admin'[c].node /\ admin'[b].prev = admin'[c].prev
              => b = c \/ admin'[b].prev = 0
      <4>1. \A b \in Admins \ {a} : admin[b].node = n => admin[b].prev # Len(fans[n])
        <5> TAKE b \in Admins \ {a}
        <5>1. admin[b].prev # 0 => admin[b].prev < Len(fans[admin[b].node])
          BY AdminIs DEF Current
        <5> QED
          BY <5>1, <2>0
      <4>2. admin'[a].node = n /\ admin'[a].prev = Len(fans[n])
        BY <2>1, <2>4
      <4>3. \A b, c \in Admins \ {a} :
              admin[b].node = admin[c].node /\ admin[b].prev = admin[c].prev
                => b = c \/ admin[b].prev = 0
        BY DEF TidyInv, Retired
      <4> QED
        BY <4>1, <4>2, <4>3, <2>4
    <3>3. ASSUME NEW x \in Nodes, NEW i \in DOMAIN fans'[x], i < Len(fans'[x])
          PROVE  \E b \in Admins : admin'[b].node = x /\ admin'[b].prev = i
      <4>0. Len(fans[x]) \in Nat \ {0} /\ DOMAIN fans[x] = 1..Len(fans[x])
        BY StoppingIs
      <4>1. DOMAIN fans'[x] = 1..Len(fans'[x]) /\ i \in Nat \ {0}
        BY <2>6
      <4>2. CASE x = n /\ i = Len(fans[n])
        BY <4>2, <2>1, <2>4
      <4>3. CASE ~(x = n /\ i = Len(fans[n]))
        <5>1. i \in DOMAIN fans[x] /\ i < Len(fans[x])
          <6>1. CASE x = n
            BY <6>1, <4>0, <4>1, <4>3, <3>3, <2>5
          <6>2. CASE x # n
            BY <6>2, <4>0, <4>1, <3>3, <2>5
          <6> QED
            BY <6>1, <6>2
        <5>2. PICK b \in Admins : admin[b].node = x /\ admin[b].prev = i
          BY <5>1, RetiredOne
        <5>3. b # a
          BY <1>0, <4>1, <5>2
        <5> QED
          BY <5>2, <5>3, <2>4
      <4> QED
        BY <4>2, <4>3
    <3>4. ASSUME NEW x \in Nodes
          PROVE  /\ x \in closed' <=> stopping'[x].pc # "idle"
                 /\ x \in closed' => stopping'[x].prev = Len(fans'[x])
                 /\ IF x \in closed' THEN InStep(stopping'[x], fans'[x][Len(fans'[x])])
                                     ELSE fans'[x][Len(fans'[x])].state = "open"
      <4>1. CASE x = n
        <5>1. x \notin closed' /\ stopping'[x].pc = "idle"
          BY <4>1, <1>0, <2>0, StoppingIs
        <5>2. fans'[x][Len(fans'[x])].state = "open"
          BY <4>1, <2>3, <2>5
        <5> QED
          BY <5>1, <5>2
      <4>2. CASE x # n
        BY <4>2, <1>0, <2>5, StoppingIs
      <4> QED
        BY <4>1, <4>2
    <3> QED
      BY <3>1, <3>2, <3>3, <3>4 DEF Retired, Current
  <2> QED
    BY <2>9, <2>10, <2>11 DEF TidyInv
<1> QED
  BY <1>1, <1>2

(***************************************************************************)
(* Every step keeps the shapes, the handlers' hold on their fan-outs and   *)
(* the account of who retires what.                                        *)
(***************************************************************************)
LEMMA StepTidies ==
  ASSUME TidyInv, [Next]_vars
  PROVE  TidyInv'
<1>1. ASSUME NEW o \in Ops, NEW n \in Nodes, NEW r \in Requests, Apply(o, n, r) \/ Refuse(o, n, r)
      PROVE  TidyInv'
  <2>1. CASE Apply(o, n, r)
    BY <2>1, ApplyTidies
  <2>2. CASE Refuse(o, n, r)
    BY <2>2, HandlersTidy
  <2> QED
    BY <1>1, <2>1, <2>2
<1>2. ASSUME NEW o \in Ops, Request(o)
      PROVE  TidyInv'
  BY <1>2, EnqueueTidies, BroadcastTidies, HandlersTidy DEF Request
<1>3. ASSUME NEW n \in Nodes, NEW p \in Nodes, NEW g \in 1..MaxFans, Worker(n, g, p)
      PROVE  TidyInv'
  BY <1>3, WorkerTidies
<1>4. ASSUME NEW m \in wire, Deliver(m) \/ Lose(m)
      PROVE  TidyInv'
  BY <1>4, WireTidies
<1>5. ASSUME NEW a \in Admins, NEW c \in Configs, Configure(a, c)
      PROVE  TidyInv'
  BY <1>5, ConfigureTidies
<1>6. ASSUME NEW a \in Admins, Administer(a)
      PROVE  TidyInv'
  BY <1>6, SwapTidies, RetireTidies, ConfiguredTidies DEF Administer
<1>7. ASSUME NEW n \in Nodes, Close(n) \/ ShutDown(n)
      PROVE  TidyInv'
  BY <1>7, CloseTidies, ShutDownTidies
<1>8. CASE UNCHANGED vars
  <2>1. /\ UNCHANGED <<data, synchronous, closed, fans, wire, op, admin, stopping, seen, lost>>
    BY <1>8 DEF vars, nodeVars
  <2>2. Shapes'
    BY <2>1 DEF TidyInv, Shapes
  <2>3. Handled'
    BY <2>1 DEF TidyInv, Handled
  <2> QED
    BY <2>1, <2>2, <2>3, FansAlone DEF TidyInv
<1> QED
  BY <1>1, <1>2, <1>3, <1>4, <1>5, <1>6, <1>7, <1>8 DEF Next

LEMMA AlwaysTidy == Spec => []TidyInv
<1>1. TidyInv /\ [Next]_vars => TidyInv'
  BY StepTidies
<1> QED
  BY <1>1, InitTidies, PTL DEF Spec

(***************************************************************************)
(* However /configure requests and shutdowns interleave, every fan-out     *)
(* that is no longer current has been stopped by the time they have        *)
(* returned, and the current one too once Close has (quorum.go:193-234).   *)
(***************************************************************************)
THEOREM FanoutsAllStop == Spec => []NothingLeftRunning
<1>1. TidyInv => NothingLeftRunning
  <2> SUFFICES ASSUME TidyInv, NEW n \in Nodes, AllConfigured(n), NEW g \in DOMAIN fans[n],
                      g < Current(n) \/ stopping[n].pc = "done"
               PROVE  Exited(fans[n][g])
    BY DEF NothingLeftRunning
  <2>0. /\ g \in Nat /\ Len(fans[n]) \in Nat /\ g <= Len(fans[n])
    BY StoppingIs
  <2>1. CASE g < Len(fans[n])
    <3>1. PICK a \in Admins : admin[a].node = n /\ admin[a].prev = g
      BY <2>1, RetiredOne
    <3>2. g # 0 /\ admin[a].pc \in {"done", "refused"} /\ InStep(admin[a], fans[n][g])
      BY <2>0, <3>1, AdminIs, StoppingIs DEF AllConfigured
    <3>3. admin[a].pc # "refused"
      BY <3>1, <3>2, AdminIs
    <3> QED
      BY <3>2, <3>3 DEF InStep
  <2>2. CASE ~(g < Len(fans[n]))
    <3>1. g = Len(fans[n]) /\ stopping[n].pc = "done"
      BY <2>0, <2>2 DEF Current
    <3> QED
      BY <3>1, StoppingIs DEF InStep
  <2> QED
    BY <2>1, <2>2
<1> QED
  BY <1>1, AlwaysTidy, PTL

(***************************************************************************)
(* Only a sender and a worker change a queue; a new fan-out's are empty.   *)
(***************************************************************************)
QueuesKept ==
  /\ \A n \in Nodes : \A g \in DOMAIN fans[n] :
       g \in DOMAIN fans'[n] /\ fans'[n][g].queue = fans[n][g].queue
  /\ \A n \in Nodes : \A g \in DOMAIN fans'[n] \ DOMAIN fans[n] : \A p \in Peers(fans'[n][g]) :
       fans'[n][g].queue[p] = <<>>

LEMMA SameFansKeep ==
  ASSUME UNCHANGED fans
  PROVE  QueuesKept
BY DEF QueuesKept

LEMMA OneFanKeeps ==
  ASSUME TidyInv, NEW n \in Nodes, NEW g \in DOMAIN fans[n], NEW e \in Fan,
         fans' = [fans EXCEPT ![n][g] = e], e.queue = fans[n][g].queue
  PROVE  QueuesKept
<1>1. fans \in [Nodes -> Seq(Fan)]
  BY DEF TidyInv, Shapes
<1>2. /\ \A x \in Nodes : DOMAIN fans'[x] = DOMAIN fans[x]
      /\ fans'[n][g] = e
      /\ \A x \in Nodes : \A i \in DOMAIN fans[x] :
           <<x, i>> # <<n, g>> => fans'[x][i] = fans[x][i]
  BY <1>1, OneFanChanged
<1>3. ASSUME NEW x \in Nodes, NEW i \in DOMAIN fans[x]
      PROVE  fans'[x][i].queue = fans[x][i].queue
  <2>1. CASE <<x, i>> = <<n, g>>
    BY <2>1, <1>2
  <2>2. CASE <<x, i>> # <<n, g>>
    BY <2>2, <1>2
  <2> QED
    BY <2>1, <2>2
<1> QED
  BY <1>2, <1>3 DEF QueuesKept

LEMMA QueuesMove ==
  ASSUME TidyInv, [Next]_vars
  PROVE  \/ QueuesKept
         \/ \E o \in Ops : Enqueue(o) /\ OpenFan(fans[op[o].node][op[o].fan])
         \/ \E n, p \in Nodes, g \in 1..MaxFans : Pump(n, g, p)
<1>1. ASSUME NEW o \in Ops, NEW n \in Nodes, NEW r \in Requests, Apply(o, n, r) \/ Refuse(o, n, r)
      PROVE  QueuesKept
  BY <1>1, SameFansKeep DEF Apply, Refuse, nodeVars
<1>2. ASSUME NEW o \in Ops, Request(o)
      PROVE  QueuesKept \/ (Enqueue(o) /\ OpenFan(fans[op[o].node][op[o].fan]))
  <2>1. CASE Enqueue(o)
    BY <2>1, SameFansKeep DEF Enqueue
  <2>2. CASE Broadcast(o) \/ ReplySync(o) \/ \E p \in Nodes, answered \in BOOLEAN : PostEnds(o, p, answered)
    BY <2>2, SameFansKeep DEF Broadcast, ReplySync, PostEnds, nodeVars
  <2> QED
    BY <1>2, <2>1, <2>2 DEF Request
<1>3. ASSUME NEW n \in Nodes, NEW p \in Nodes, NEW g \in 1..MaxFans, PumpDone(n, g, p)
      PROVE  QueuesKept
  <2> DEFINE f == fans[n][g]
             e == [f EXCEPT !.busy[p] = None]
  <2>1. /\ g \in DOMAIN fans[n] /\ f \in Fan /\ e \in Fan /\ Peers(e) = Peers(f)
        /\ fans' = [fans EXCEPT ![n][g] = e]
    BY <1>3, PumpDoneMakes DEF TidyInv
  <2>2. e.queue = f.queue
    BY <2>1, FanParts
  <2> HIDE DEF e
  <2> QED
    BY <2>1, <2>2, OneFanKeeps
<1>4. ASSUME NEW m \in wire, Deliver(m) \/ Lose(m)
      PROVE  QueuesKept
  BY <1>4, SameFansKeep DEF Deliver, Lose, nodeVars
<1>5. ASSUME NEW a \in Admins, NEW c \in Configs, Configure(a, c)
      PROVE  QueuesKept
  BY <1>5, SameFansKeep DEF Configure
<1>6. ASSUME NEW a \in Admins, Administer(a)
      PROVE  QueuesKept
  <2> DEFINE n == admin[a].node
             g == admin[a].prev
             f == fans[n][g]
             e == [f EXCEPT !.state = IF admin[a].pc = "mark" THEN "marked" ELSE "cancelled"]
             new == NewFan(admin[a].peers)
  <2>1. CASE Swap(a) /\ ~StillOpen(n)
    BY <2>1, SameFansKeep DEF Swap
  <2>2. CASE Swap(a) /\ StillOpen(n)
    <3>1. n \in Nodes /\ admin[a] \in Admin /\ fans \in [Nodes -> Seq(Fan)]
      BY <2>2, AdminIs DEF Swap, TidyInv, Shapes, Retired
    <3>2. fans' = [fans EXCEPT ![n] = Append(fans[n], new)]
      BY <2>2 DEF Swap
    <3>3. /\ new \in Fan /\ Peers(new) = admin[a].peers
          /\ \A p \in Peers(new) : new.queue[p] = <<>>
      <4>1. admin[a].peers \in SUBSET Nodes
        BY <3>1 DEF Admin
      <4> QED
        BY <4>1, NewFanIsFan DEF NewFan
    <3> HIDE DEF new
    <3>4. fans[n] \in Seq(Fan)
      BY <3>1
    <3>5. /\ \A i \in DOMAIN fans[n] : i \in DOMAIN Append(fans[n], new)
                                         /\ Append(fans[n], new)[i] = fans[n][i]
          /\ \A i \in DOMAIN Append(fans[n], new) \ DOMAIN fans[n] : Append(fans[n], new)[i] = new
      BY <3>3, <3>4
    <3>6. fans'[n] = Append(fans[n], new) /\ \A x \in Nodes \ {n} : fans'[x] = fans[x]
      BY <3>1, <3>2
    <3>7. ASSUME NEW x \in Nodes
          PROVE  /\ \A i \in DOMAIN fans[x] :
                      i \in DOMAIN fans'[x] /\ fans'[x][i].queue = fans[x][i].queue
                 /\ \A i \in DOMAIN fans'[x] \ DOMAIN fans[x] : \A p \in Peers(fans'[x][i]) :
                      fans'[x][i].queue[p] = <<>>
      <4>1. CASE x = n
        BY <4>1, <3>3, <3>5, <3>6
      <4>2. CASE x # n
        BY <4>2, <3>6
      <4> QED
        BY <4>1, <4>2
    <3> QED
      BY <3>7 DEF QueuesKept
  <2>3. CASE Retire(a)
    <3>1. PICK after \in {"cancel", "wait"} : CloseStep(n, admin[a], after)
      BY <2>3 DEF Retire
    <3>2. n \in Nodes /\ g \in DOMAIN fans[n]
      BY <3>1, AdminIs DEF CloseStep, Retiring
    <3>3. f \in Fan /\ e \in Fan /\ fans' = [fans EXCEPT ![n][g] = e]
      BY <3>1, <3>2, CloseMakes DEF TidyInv
    <3>4. e.queue = f.queue
      BY <3>3, FanParts
    <3> HIDE DEF e
    <3> QED
      BY <3>2, <3>3, <3>4, OneFanKeeps
  <2>4. CASE Configured(a)
    BY <2>4, SameFansKeep DEF Configured, nodeVars
  <2> QED
    BY <1>6, <2>1, <2>2, <2>3, <2>4 DEF Administer
<1>7. ASSUME NEW n \in Nodes, Close(n) \/ Stopped(n)
      PROVE  QueuesKept
  BY <1>7, SameFansKeep DEF Close, Stopped, nodeVars
<1>8. ASSUME NEW n \in Nodes, Stop(n)
      PROVE  QueuesKept
  <2> DEFINE g == stopping[n].prev
             f == fans[n][g]
             e == [f EXCEPT !.state = IF stopping[n].pc = "mark" THEN "marked" ELSE "cancelled"]
  <2>1. PICK after \in {"cancel", "wait"} : CloseStep(n, stopping[n], after)
    BY <1>8 DEF Stop
  <2>2. g \in DOMAIN fans[n]
    BY <2>1, StoppingIs DEF CloseStep
  <2>3. f \in Fan /\ e \in Fan /\ fans' = [fans EXCEPT ![n][g] = e]
    BY <2>1, <2>2, CloseMakes DEF TidyInv
  <2>4. e.queue = f.queue
    BY <2>3, FanParts
  <2> HIDE DEF e
  <2> QED
    BY <2>2, <2>3, <2>4, OneFanKeeps
<1>9. CASE UNCHANGED vars
  BY <1>9, SameFansKeep DEF vars, nodeVars
<1> QED
  BY <1>1, <1>2, <1>3, <1>4, <1>5, <1>6, <1>7, <1>8, <1>9 DEF Next, Worker, ShutDown

(***************************************************************************)
(* What a sender and a worker do to the queues.                            *)
(***************************************************************************)
LEMMA EnqueueQueues ==
  ASSUME TidyInv, NEW o \in Ops, Enqueue(o), OpenFan(fans[op[o].node][op[o].fan])
  PROVE  LET n == op[o].node
             g == op[o].fan
             f == fans[n][g]
         IN  /\ n \in Nodes /\ g \in DOMAIN fans[n]
             /\ \A x \in Nodes : DOMAIN fans'[x] = DOMAIN fans[x]
             /\ Peers(fans'[n][g]) = Peers(f)
             /\ \A p \in Peers(f) : fans'[n][g].queue[p] = IF Room(f, p) THEN Append(f.queue[p], Update(o))
                                                           ELSE f.queue[p]
             /\ \A x \in Nodes : \A i \in DOMAIN fans[x] :
                  <<x, i>> # <<n, g>> => fans'[x][i] = fans[x][i]
<1> DEFINE n == op[o].node
           g == op[o].fan
           f == fans[n][g]
           q == [p \in Peers(f) |-> IF Room(f, p) THEN Append(f.queue[p], Update(o)) ELSE f.queue[p]]
           e == [f EXCEPT !.queue = q]
<1>1. /\ n \in Nodes /\ g \in DOMAIN fans[n] /\ f \in Fan /\ e \in Fan /\ Peers(e) = Peers(f)
      /\ fans' = [fans EXCEPT ![n][g] = e]
  BY EnqueueMakes DEF TidyInv
<1>2. fans \in [Nodes -> Seq(Fan)]
  BY DEF TidyInv, Shapes
<1>3. e.queue = q
  BY <1>1, FanParts
<1> HIDE DEF e
<1>4. /\ \A x \in Nodes : DOMAIN fans'[x] = DOMAIN fans[x]
      /\ fans'[n][g] = e
      /\ \A x \in Nodes : \A i \in DOMAIN fans[x] :
           <<x, i>> # <<n, g>> => fans'[x][i] = fans[x][i]
  BY <1>1, <1>2, OneFanChanged
<1>5. \A p \in Peers(f) : fans'[n][g].queue[p] = IF Room(f, p) THEN Append(f.queue[p], Update(o))
                                                ELSE f.queue[p]
  BY <1>3, <1>4
<1> QED
  BY <1>1, <1>4, <1>5

LEMMA PumpQueues ==
  ASSUME TidyInv, NEW n \in Nodes, NEW g, NEW p, Pump(n, g, p)
  PROVE  LET f == fans[n][g]
         IN  /\ g \in DOMAIN fans[n] /\ p \in Peers(f) /\ f.queue[p] # <<>>
             /\ f.queue[p] \in Seq(Replication)
             /\ \A x \in Nodes : DOMAIN fans'[x] = DOMAIN fans[x]
             /\ Peers(fans'[n][g]) = Peers(f)
             /\ fans'[n][g].queue[p] = Tail(f.queue[p])
             /\ \A r \in Peers(f) \ {p} : fans'[n][g].queue[r] = f.queue[r]
             /\ \A x \in Nodes : \A i \in DOMAIN fans[x] :
                  <<x, i>> # <<n, g>> => fans'[x][i] = fans[x][i]
<1> DEFINE f == fans[n][g]
           e == Pumped(f, p)
<1>1. /\ g \in DOMAIN fans[n] /\ f \in Fan /\ p \in Peers(f) /\ e \in Fan /\ Peers(e) = Peers(f)
      /\ fans' = [fans EXCEPT ![n][g] = e]
  BY PumpMakes DEF TidyInv
<1>2. fans \in [Nodes -> Seq(Fan)]
  BY DEF TidyInv, Shapes
<1>3. f.queue[p] # <<>>
  BY DEF Pump
<1>4. f \in FanOn(Peers(f))
  BY <1>1, FanParts
<1>5. f.queue[p] \in Seq(Replication)
  BY <1>1, <1>4 DEF FanOn
<1>6. e.queue = [f.queue EXCEPT ![p] = Tail(f.queue[p])]
  BY <1>4 DEF FanOn, Pumped
<1>7. DOMAIN f.queue = Peers(f)
  BY DEF Peers
<1> HIDE DEF e
<1>8. /\ \A x \in Nodes : DOMAIN fans'[x] = DOMAIN fans[x]
      /\ fans'[n][g] = e
      /\ \A x \in Nodes : \A i \in DOMAIN fans[x] :
           <<x, i>> # <<n, g>> => fans'[x][i] = fans[x][i]
  BY <1>1, <1>2, OneFanChanged
<1>9. fans'[n][g].queue[p] = Tail(f.queue[p]) /\ \A r \in Peers(f) \ {p} : fans'[n][g].queue[r] = f.queue[r]
  BY <1>1, <1>6, <1>7, <1>8
<1> QED
  BY <1>1, <1>3, <1>5, <1>8, <1>9

LEMMA TailIsShorter ==
  ASSUME NEW S, NEW s \in Seq(S), s # <<>>
  PROVE  Len(Tail(s)) <= Len(s)
  OBVIOUS

LEMMA QueueIsSeq ==
  ASSUME TidyInv, NEW n \in Nodes, NEW g \in DOMAIN fans[n], NEW p \in Peers(fans[n][g])
  PROVE  fans[n][g].queue[p] \in Seq(Replication) /\ p \in Nodes
<1>1. fans[n][g] \in Fan
  BY DEF TidyInv, Shapes
<1>2. fans[n][g] \in FanOn(Peers(fans[n][g])) /\ Peers(fans[n][g]) \subseteq Nodes
  BY <1>1, FanParts
<1> QED
  BY <1>2 DEF FanOn

(***************************************************************************)
(* Whoever was about to send, no queue grows once its channel has been     *)
(* closed: a send on it would panic (quorum.go:349-354, 413-425).          *)
(***************************************************************************)
THEOREM ClosedQueuesDrain == Spec => ClosedQueuesOnlyDrain
<1>1. ASSUME TidyInv, [Next]_vars
      PROVE  \A n \in Nodes : \A g \in DOMAIN fans[n] :
               fans[n][g].state = "cancelled" =>
                 \A p \in Peers(fans[n][g]) : Len(fans'[n][g].queue[p]) <= Len(fans[n][g].queue[p])
  <2> SUFFICES ASSUME NEW n \in Nodes, NEW g \in DOMAIN fans[n], fans[n][g].state = "cancelled",
                      NEW p \in Peers(fans[n][g])
               PROVE  Len(fans'[n][g].queue[p]) <= Len(fans[n][g].queue[p])
    OBVIOUS
  <2>0. fans[n][g].queue[p] \in Seq(Replication) /\ Len(fans[n][g].queue[p]) \in Nat
    BY <1>1, QueueIsSeq
  <2>1. CASE QueuesKept
    BY <2>0, <2>1 DEF QueuesKept
  <2>2. ASSUME NEW o \in Ops, Enqueue(o), OpenFan(fans[op[o].node][op[o].fan])
        PROVE  Len(fans'[n][g].queue[p]) <= Len(fans[n][g].queue[p])
    <3>1. <<n, g>> # <<op[o].node, op[o].fan>>
      BY <2>2 DEF OpenFan
    <3>2. fans'[n][g] = fans[n][g]
      BY <1>1, <2>2, <3>1, EnqueueQueues
    <3> QED
      BY <2>0, <3>2
  <2>3. ASSUME NEW x \in Nodes, NEW q \in Nodes, NEW i \in 1..MaxFans, Pump(x, i, q)
        PROVE  Len(fans'[n][g].queue[p]) <= Len(fans[n][g].queue[p])
    <3>1. CASE <<n, g>> # <<x, i>>
      <4>1. fans'[n][g] = fans[n][g]
        BY <1>1, <2>3, <3>1, PumpQueues
      <4> QED
        BY <2>0, <4>1
    <3>2. CASE <<n, g>> = <<x, i>> /\ p # q
      <4>1. fans'[n][g].queue[p] = fans[n][g].queue[p]
        BY <1>1, <2>3, <3>2, PumpQueues
      <4> QED
        BY <2>0, <4>1
    <3>3. CASE <<n, g>> = <<x, i>> /\ p = q
      <4>1. fans'[n][g].queue[p] = Tail(fans[n][g].queue[p]) /\ fans[n][g].queue[p] # <<>>
        BY <1>1, <2>3, <3>3, PumpQueues
      <4>2. Len(Tail(fans[n][g].queue[p])) <= Len(fans[n][g].queue[p])
        BY <2>0, <4>1, TailIsShorter
      <4> QED
        BY <4>1, <4>2
    <3> QED
      BY <3>1, <3>2, <3>3
  <2> QED
    BY <1>1, <2>1, <2>2, <2>3, QueuesMove
<1>2. TidyInv /\ [Next]_vars =>
        [\A n \in Nodes : \A g \in DOMAIN fans[n] :
           fans[n][g].state = "cancelled" =>
             \A p \in Peers(fans[n][g]) : Len(fans'[n][g].queue[p]) <= Len(fans[n][g].queue[p])]_vars
  BY <1>1
<1> QED
  BY <1>2, AlwaysTidy, PTL DEF Spec, ClosedQueuesOnlyDrain

-----------------------------------------------------------------------------
(***************************************************************************)
(* A step in which no update is stamped, taken, queued or posted.          *)
(***************************************************************************)
Idles ==
  /\ UNCHANGED <<data, seen>> /\ QueuesKept
  /\ wire' \subseteq wire /\ wire \ wire' \subseteq lost' /\ lost \subseteq lost'
  /\ \A o \in Ops :
       /\ op'[o].entry = op[o].entry
       /\ op[o].entry # None => op'[o].key = op[o].key /\ op'[o].node = op[o].node
       /\ op[o].pc = "applied" =>
            op'[o].pc = "applied" \/ Posts(Nodes \ {op[o].node}, Update(o)) \subseteq lost'

LEMMA StepKinds ==
  ASSUME TidyInv, [Next]_vars
  PROVE  \/ Idles
         \/ \E o \in Ops, n \in Nodes, r \in Requests : Apply(o, n, r)
         \/ \E m \in wire : Deliver(m)
         \/ \E o \in Ops : (Enqueue(o) \/ Broadcast(o)) /\ OpenFan(fans[op[o].node][op[o].fan])
         \/ \E n, p \in Nodes, g \in 1..MaxFans : Pump(n, g, p)
<1>0. /\ QueuesKept
         \/ (\E o \in Ops : Enqueue(o) /\ OpenFan(fans[op[o].node][op[o].fan]))
         \/ \E n, p \in Nodes, g \in 1..MaxFans : Pump(n, g, p)
      /\ op \in [Ops -> Handler]
  BY QueuesMove DEF TidyInv, Shapes
<1>1. ASSUME NEW o \in Ops, NEW n \in Nodes, NEW r \in Requests, Refuse(o, n, r)
      PROVE  Idles
  <2>1. op[o].pc = "idle" /\ op[o].entry = None
    BY <1>0, <1>1 DEF Refuse, Arrives, NextIn, Begun, TidyInv, Handled
  <2>2. \A x \in Ops : /\ op'[x].entry = op[x].entry
                       /\ x # o => op'[x] = op[x]
    BY <1>0, <1>1 DEF Refuse, Handler
  <2>3. UNCHANGED <<data, seen, fans, wire, lost>>
    BY <1>1 DEF Refuse, nodeVars
  <2> QED
    BY <2>1, <2>2, <2>3, SameFansKeep DEF Idles
<1>2. ASSUME NEW o \in Ops, ~OpenFan(fans[op[o].node][op[o].fan]), Enqueue(o) \/ Broadcast(o)
      PROVE  Idles
  <2>1. /\ lost' = lost \cup Posts(Nodes \ {op[o].node}, Update(o))
        /\ UNCHANGED <<data, seen, fans, wire>> /\ op' = [op EXCEPT ![o].pc = "replied"]
    BY <1>2 DEF Enqueue, Broadcast, nodeVars
  <2>2. \A x \in Ops : /\ op'[x].entry = op[x].entry /\ op'[x].key = op[x].key
                       /\ op'[x].node = op[x].node
                       /\ x # o => op'[x] = op[x]
    BY <1>0, <2>1 DEF Handler
  <2> QED
    BY <2>1, <2>2, SameFansKeep DEF Idles
<1>3. ASSUME NEW o \in Ops,
             ReplySync(o) \/ \E p \in Nodes, answered \in BOOLEAN : PostEnds(o, p, answered)
      PROVE  Idles
  <2>1. op[o].pc = "posted" /\ UNCHANGED <<data, seen, fans, wire, lost>>
    BY <1>3 DEF ReplySync, PostEnds, nodeVars
  <2>2. \A x \in Ops : /\ op'[x].entry = op[x].entry /\ op'[x].key = op[x].key
                       /\ op'[x].node = op[x].node
                       /\ x # o => op'[x] = op[x]
    <3>1. CASE ReplySync(o)
      BY <1>0, <3>1 DEF ReplySync, Handler
    <3>2. CASE \E p \in Nodes, answered \in BOOLEAN : PostEnds(o, p, answered)
      <4>0. PICK p \in Nodes, answered \in BOOLEAN : PostEnds(o, p, answered)
        BY <3>2
      <4> DEFINE h == [op[o] EXCEPT !.awaited = @ \ {p}, !.reached = @ /\ answered]
      <4>1. op' = [op EXCEPT ![o] = h]
        BY <1>0, <4>0 DEF PostEnds
      <4>2. h.entry = op[o].entry /\ h.key = op[o].key /\ h.node = op[o].node
        BY <1>0 DEF Handler
      <4> HIDE DEF h
      <4> QED
        BY <1>0, <4>1, <4>2
    <3> QED
      BY <1>3, <3>1, <3>2
  <2> QED
    BY <2>1, <2>2, SameFansKeep DEF Idles
<1>4. ASSUME NEW n \in Nodes, NEW p \in Nodes, NEW g \in 1..MaxFans, PumpDone(n, g, p), QueuesKept
      PROVE  Idles
  BY <1>4 DEF PumpDone, Idles
<1>5. ASSUME NEW m \in wire, Lose(m)
      PROVE  Idles
  <2>1. lost' = lost \cup {m} /\ wire' = wire \ {m} /\ UNCHANGED <<data, seen, fans, op>>
    BY <1>5 DEF Lose, nodeVars
  <2> QED
    BY <2>1, SameFansKeep DEF Idles
<1>6. ASSUME NEW a \in Admins,
             QueuesKept /\ (Administer(a) \/ \E c \in Configs : Configure(a, c))
      PROVE  Idles
  <2>1. UNCHANGED <<data, seen, wire, op, lost>>
    BY <1>6 DEF Administer, Configure, Swap, Retire, Configured, nodeVars
  <2> QED
    BY <1>6, <2>1 DEF Idles
<1>7. ASSUME NEW n \in Nodes, QueuesKept /\ (Close(n) \/ ShutDown(n))
      PROVE  Idles
  <2>1. UNCHANGED <<data, seen, wire, op, lost>>
    BY <1>7 DEF ShutDown, Close, Stop, Stopped, nodeVars
  <2> QED
    BY <1>7, <2>1 DEF Idles
<1>8. CASE UNCHANGED vars
  BY <1>8, SameFansKeep DEF vars, nodeVars, Idles
<1>9. ASSUME NEW o \in Ops, Request(o)
      PROVE  Idles \/ ((Enqueue(o) \/ Broadcast(o)) /\ OpenFan(fans[op[o].node][op[o].fan]))
  BY <1>2, <1>3, <1>9 DEF Request
<1> QED
  <2>1. CASE \E o \in Ops : Enqueue(o) /\ OpenFan(fans[op[o].node][op[o].fan])
    BY <2>1
  <2>2. CASE \E n, p \in Nodes, g \in 1..MaxFans : Pump(n, g, p)
    BY <2>2
  <2>3. CASE QueuesKept
    BY <2>3, <1>1, <1>4, <1>5, <1>6, <1>7, <1>8, <1>9 DEF Next, Worker
  <2> QED
    BY <1>0, <2>1, <2>2, <2>3

LEMMA ApplyStamps ==
  ASSUME TidyInv, NEW o \in Ops, NEW n \in Nodes, NEW r \in Requests, Apply(o, n, r)
  PROVE  /\ r.key \in Registers /\ UNCHANGED <<fans, wire, lost>>
         /\ op[o].pc = "idle" /\ op[o].entry = None /\ \A x \in Ops \ {o} : op'[x] = op[x]
         /\ \E e \in Entry :
              /\ e.node = n /\ (data[n][r.key] # None => e.stamp > data[n][r.key].stamp)
              /\ data' = [data EXCEPT ![n][r.key] = e]
              /\ seen' = [seen EXCEPT ![n][r.key] = @ \cup {e}]
              /\ op'[o].pc = "applied" /\ op'[o].entry = e /\ op'[o].key = r.key /\ op'[o].node = n
              /\ ~op'[o].reached
<1>1. PICK now \in Clock :
        LET e == [value |-> IF r.kind = "write" THEN r.value ELSE r.to,
                  stamp |-> StampFor(n, r.key, now), node |-> n]
        IN  /\ data' = [data EXCEPT ![n][r.key] = e]
            /\ seen' = [seen EXCEPT ![n][r.key] = @ \cup {e}]
            /\ op' = [op EXCEPT ![o] = [Idle EXCEPT !.pc = "applied", !.node = n, !.fan = Current(n),
                                          !.sync = synchronous[n], !.key = r.key, !.entry = e]]
  BY DEF Apply
<1> DEFINE e == [value |-> IF r.kind = "write" THEN r.value ELSE r.to,
                 stamp |-> StampFor(n, r.key, now), node |-> n]
           h == [Idle EXCEPT !.pc = "applied", !.node = n, !.fan = Current(n),
                             !.sync = synchronous[n], !.key = r.key, !.entry = e]
<1>2. r.key \in Registers /\ op \in [Ops -> Handler]
  BY QuorumAssumption DEF TidyInv, Shapes
<1>3. e \in Entry /\ e.node = n /\ (data[n][r.key] # None => e.stamp > data[n][r.key].stamp)
  BY <1>2, StampIsNat DEF Entry, TidyInv
<1>4. op[o].pc = "idle" /\ op[o].entry = None
  BY <1>2 DEF Apply, Arrives, NextIn, Begun, TidyInv, Handled
<1>5. Idle \in Handler /\ Idle.reached = FALSE
  BY DEF Idle, Handler
<1>6. /\ data' = [data EXCEPT ![n][r.key] = e] /\ seen' = [seen EXCEPT ![n][r.key] = @ \cup {e}]
      /\ op' = [op EXCEPT ![o] = h] /\ UNCHANGED <<fans, wire, lost>>
  BY <1>1 DEF Apply
<1> HIDE DEF e
<1>7. h.pc = "applied" /\ h.entry = e /\ h.key = r.key /\ h.node = n /\ ~h.reached
  BY <1>5 DEF Handler
<1> HIDE DEF h
<1> QED
  BY <1>2, <1>3, <1>4, <1>6, <1>7

LEMMA DeliverTakes ==
  ASSUME TidyInv, NEW m \in wire, Deliver(m)
  PROVE  /\ m.to \in Nodes /\ m.update \in Replication
         /\ m.update.key \in Registers /\ m.update.entry \in Entry
         /\ m = [to |-> m.to, update |-> m.update]
         /\ wire' = wire \ {m} /\ UNCHANGED <<fans, op, lost>>
         /\ data' = IF data[m.to][m.update.key] = None
                         \/ Dominates(m.update.entry, data[m.to][m.update.key])
                      THEN [data EXCEPT ![m.to][m.update.key] = m.update.entry] ELSE data
         /\ seen' = [seen EXCEPT ![m.to][m.update.key] = @ \cup {m.update.entry}]
BY DEF Deliver, TidyInv, Shapes, Replication

(***************************************************************************)
(* No node forgets what it has had.                                        *)
(***************************************************************************)
LEMMA SeenGrows ==
  ASSUME TidyInv, [Next]_vars
  PROVE  \A n \in Nodes, k \in Registers : seen[n][k] \subseteq seen'[n][k]
<1>1. seen \in [Nodes -> [Registers -> SUBSET Entry]]
  BY DEF TidyInv, Shapes
<1>2. CASE Idles
  BY <1>2 DEF Idles
<1>3. ASSUME NEW o \in Ops, NEW n \in Nodes, NEW r \in Requests, Apply(o, n, r)
      PROVE  \A x \in Nodes, k \in Registers : seen[x][k] \subseteq seen'[x][k]
  <2>1. PICK e \in Entry : seen' = [seen EXCEPT ![n][r.key] = @ \cup {e}]
    BY <1>3, ApplyStamps
  <2> QED
    BY <1>1, <2>1
<1>4. ASSUME NEW m \in wire, Deliver(m)
      PROVE  \A x \in Nodes, y \in Registers : seen[x][y] \subseteq seen'[x][y]
  <2> DEFINE p == m.to
             k == m.update.key
             e == m.update.entry
  <2>1. p \in Nodes /\ k \in Registers /\ seen' = [seen EXCEPT ![p][k] = @ \cup {e}]
    BY <1>4, DeliverTakes
  <2> HIDE DEF p, k, e
  <2> QED
    BY <1>1, <2>1
<1>5. ASSUME NEW o \in Ops, Enqueue(o) \/ Broadcast(o)
      PROVE  UNCHANGED seen
  BY <1>5 DEF Enqueue, Broadcast
<1>6. ASSUME NEW n \in Nodes, NEW p \in Nodes, NEW g \in 1..MaxFans, Pump(n, g, p)
      PROVE  UNCHANGED seen
  BY <1>6 DEF Pump
<1> QED
  BY <1>2, <1>3, <1>4, <1>5, <1>6, StepKinds

(***************************************************************************)
(* What is on the wire, or in a queue, after a step.                       *)
(***************************************************************************)
LEMMA WireGains ==
  ASSUME TidyInv, Origin, [Next]_vars
  PROVE  \A m \in wire' : Stamped(m.update) /\ m.update \in Replication
<1>0. \A m \in wire : Stamped(m.update) /\ m.update \in Replication
  BY DEF Origin, TidyInv, Shapes
<1>1. CASE Idles
  BY <1>0, <1>1 DEF Idles
<1>2. ASSUME NEW o \in Ops, NEW n \in Nodes, NEW r \in Requests, Apply(o, n, r)
      PROVE  UNCHANGED wire
  BY <1>2 DEF Apply
<1>3. ASSUME NEW m \in wire, Deliver(m)
      PROVE  wire' \subseteq wire
  BY <1>3 DEF Deliver
<1>4. ASSUME NEW o \in Ops, Enqueue(o)
      PROVE  UNCHANGED wire
  BY <1>4 DEF Enqueue
<1>5. ASSUME NEW o \in Ops, Broadcast(o), OpenFan(fans[op[o].node][op[o].fan])
      PROVE  \A m \in wire' : Stamped(m.update) /\ m.update \in Replication
  <2>1. wire' = wire \cup {[to |-> p, update |-> Update(o)] : p \in Peers(fans[op[o].node][op[o].fan])}
          /\ op[o].pc = "applied"
    BY <1>5 DEF Broadcast, Posts
  <2>2. op[o].entry # None /\ Update(o) \in Replication
    BY <2>1, ReplicatingHolds DEF TidyInv
  <2>3. Stamped(Update(o))
    BY <2>2 DEF Origin
  <2> QED
    BY <1>0, <2>1, <2>2, <2>3
<1>6. ASSUME NEW n \in Nodes, NEW p \in Nodes, NEW g \in 1..MaxFans, Pump(n, g, p)
      PROVE  \A m \in wire' : Stamped(m.update) /\ m.update \in Replication
  <2> DEFINE q == fans[n][g].queue[p]
  <2>1. /\ q # <<>> /\ q \in Seq(Replication) /\ g \in DOMAIN fans[n] /\ p \in Peers(fans[n][g])
    BY <1>6, PumpQueues
  <2>2. 1 \in DOMAIN q /\ q[1] \in Replication /\ Head(q) = q[1]
    BY <2>1
  <2>3. Stamped(q[1])
    BY <2>1, <2>2 DEF Origin
  <2>4. wire' \subseteq wire \cup {[to |-> p, update |-> Head(q)]}
    BY <1>6 DEF Pump, Posts
  <2> HIDE DEF q
  <2> QED
    BY <1>0, <2>2, <2>3, <2>4
<1> QED
  BY <1>0, <1>1, <1>2, <1>3, <1>4, <1>5, <1>6, StepKinds

LEMMA QueuesGain ==
  ASSUME TidyInv, Origin, [Next]_vars
  PROVE  \A n \in Nodes : \A g \in DOMAIN fans'[n] : \A p \in Peers(fans'[n][g]) :
           \A i \in DOMAIN fans'[n][g].queue[p] :
             /\ Stamped(fans'[n][g].queue[p][i])
             /\ fans'[n][g].queue[p][i] \in Replication
<1> SUFFICES ASSUME NEW n \in Nodes, NEW g \in DOMAIN fans'[n], NEW p \in Peers(fans'[n][g]),
                    NEW i \in DOMAIN fans'[n][g].queue[p]
             PROVE  /\ Stamped(fans'[n][g].queue[p][i])
                    /\ fans'[n][g].queue[p][i] \in Replication
  OBVIOUS
<1>0. ASSUME g \in DOMAIN fans[n], p \in Peers(fans[n][g]), NEW j \in DOMAIN fans[n][g].queue[p]
      PROVE  Stamped(fans[n][g].queue[p][j]) /\ fans[n][g].queue[p][j] \in Replication
  <2>1. fans[n][g].queue[p] \in Seq(Replication)
    BY <1>0, QueueIsSeq
  <2>2. fans[n][g].queue[p][j] \in Replication
    BY <1>0, <2>1
  <2>3. Stamped(fans[n][g].queue[p][j])
    BY <1>0 DEF Origin
  <2> QED
    BY <2>2, <2>3
<1>1. CASE QueuesKept
  <2>1. CASE g \in DOMAIN fans[n]
    <3>1. fans'[n][g].queue = fans[n][g].queue
      BY <1>1, <2>1 DEF QueuesKept
    <3> QED
      BY <1>0, <2>1, <3>1 DEF Peers
  <2>2. CASE g \notin DOMAIN fans[n]
    <3>1. fans'[n][g].queue[p] = <<>>
      BY <1>1, <2>2 DEF QueuesKept
    <3> QED
      BY <3>1
  <2> QED
    BY <2>1, <2>2
<1>2. ASSUME NEW o \in Ops, Enqueue(o), OpenFan(fans[op[o].node][op[o].fan])
      PROVE  /\ Stamped(fans'[n][g].queue[p][i])
             /\ fans'[n][g].queue[p][i] \in Replication
  <2>1. g \in DOMAIN fans[n]
    BY <1>2, EnqueueQueues
  <2>2. CASE <<n, g>> # <<op[o].node, op[o].fan>>
    <3>1. fans'[n][g] = fans[n][g]
      BY <1>2, <2>1, <2>2, EnqueueQueues
    <3> QED
      BY <1>0, <2>1, <3>1
  <2>3. CASE <<n, g>> = <<op[o].node, op[o].fan>>
    <3> DEFINE f == fans[n][g]
               q == f.queue[p]
    <3>1. p \in Peers(f) /\ fans'[n][g].queue[p] = IF Room(f, p) THEN Append(q, Update(o)) ELSE q
      BY <1>2, <2>3, EnqueueQueues
    <3>2. q \in Seq(Replication)
      BY <2>1, <3>1, QueueIsSeq
    <3>3. op[o].pc = "applied"
      BY <1>2 DEF Enqueue
    <3>4. op[o].entry # None /\ Update(o) \in Replication
      BY <3>3, ReplicatingHolds DEF TidyInv
    <3>5. Stamped(Update(o))
      BY <3>4 DEF Origin
    <3>6. \A j \in DOMAIN q : Stamped(q[j]) /\ q[j] \in Replication
      BY <1>0, <2>1, <3>1
    <3>7. CASE fans'[n][g].queue[p] = q
      BY <3>6, <3>7
    <3>8. CASE fans'[n][g].queue[p] = Append(q, Update(o))
      <4>1. i \in DOMAIN Append(q, Update(o))
        BY <3>8
      <4>2. \/ i \in DOMAIN q /\ Append(q, Update(o))[i] = q[i]
            \/ Append(q, Update(o))[i] = Update(o)
        BY <3>2, <4>1
      <4> QED
        BY <3>4, <3>5, <3>6, <3>8, <4>2
    <3> QED
      BY <3>1, <3>7, <3>8
  <2> QED
    BY <2>2, <2>3
<1>3. ASSUME NEW x \in Nodes, NEW y \in Nodes, NEW j \in 1..MaxFans, Pump(x, j, y)
      PROVE  /\ Stamped(fans'[n][g].queue[p][i])
             /\ fans'[n][g].queue[p][i] \in Replication
  <2>1. g \in DOMAIN fans[n]
    BY <1>3, PumpQueues
  <2>2. CASE <<n, g>> # <<x, j>>
    <3>1. fans'[n][g] = fans[n][g]
      BY <1>3, <2>1, <2>2, PumpQueues
    <3> QED
      BY <1>0, <2>1, <3>1
  <2>3. CASE <<n, g>> = <<x, j>> /\ p # y
    <3>1. p \in Peers(fans[n][g]) /\ fans'[n][g].queue[p] = fans[n][g].queue[p]
      BY <1>3, <2>3, PumpQueues
    <3> QED
      BY <1>0, <2>1, <3>1
  <2>4. CASE <<n, g>> = <<x, j>> /\ p = y
    <3> DEFINE q == fans[n][g].queue[p]
    <3>1. /\ p \in Peers(fans[n][g]) /\ q # <<>> /\ q \in Seq(Replication)
          /\ fans'[n][g].queue[p] = Tail(q)
      BY <1>3, <2>4, PumpQueues
    <3>2. \A k \in DOMAIN q : Stamped(q[k]) /\ q[k] \in Replication
      BY <1>0, <2>1, <3>1
    <3> HIDE DEF q
    <3>3. i \in DOMAIN Tail(q)
      BY <3>1
    <3>4. i + 1 \in DOMAIN q /\ Tail(q)[i] = q[i + 1]
      BY <3>1, <3>3
    <3> QED
      BY <3>1, <3>2, <3>4
  <2> QED
    BY <2>2, <2>3, <2>4
<1> QED
  BY <1>1, <1>2, <1>3, QueuesMove

(***************************************************************************)
(* Last writer wins is a strict order, total on what was stamped alike     *)
(* nowhere.                                                                *)
(***************************************************************************)
LEMMA DominatesOrders ==
  ASSUME NEW e \in Entry, NEW f \in Entry, NEW g \in Entry
  PROVE  /\ ~(Dominates(e, f) /\ Dominates(f, e)) /\ ~Dominates(e, e)
         /\ Dominates(e, f) /\ Dominates(f, g) => Dominates(e, g)
         /\ Dominates(e, f) \/ Dominates(f, e) \/ (e.stamp = f.stamp /\ e.node = f.node)
         /\ e.stamp > f.stamp => Dominates(e, f)
         /\ Dominates(e, f) => e.stamp >= f.stamp
<1>1. /\ e.stamp \in Nat /\ f.stamp \in Nat /\ g.stamp \in Nat
      /\ e.node \in Nat /\ f.node \in Nat /\ g.node \in Nat
  BY QuorumAssumption DEF Entry
<1> QED
  BY <1>1 DEF Dominates

(***************************************************************************)
(* A node that takes an entry, its own or a peer's, and keeps the newer.   *)
(***************************************************************************)
LEMMA TakingKeeps ==
  ASSUME TidyInv, Origin, Distinct, Newest,
         NEW n \in Nodes, NEW k \in Registers, NEW e \in Entry,
         seen' = [seen EXCEPT ![n][k] = @ \cup {e}],
         data' = IF data[n][k] = None \/ Dominates(e, data[n][k]) THEN [data EXCEPT ![n][k] = e] ELSE data,
         e.node = n \/ e \in seen[e.node][k],
         \A f \in seen[n][k] : f.node = e.node /\ f.stamp = e.stamp => f = e
  PROVE  /\ \A x \in Nodes, y \in Registers : \A f \in seen'[x][y] : f \in seen'[f.node][y]
         /\ Distinct' /\ Newest'
<1>0. /\ seen \in [Nodes -> [Registers -> SUBSET Entry]] /\ data \in [Nodes -> [Registers -> Entry \cup {None}]]
      /\ None \notin Entry
  BY QuorumAssumption DEF TidyInv, Shapes
<1>1. /\ seen'[n][k] = seen[n][k] \cup {e}
      /\ \A x \in Nodes, y \in Registers : <<x, y>> # <<n, k>> => seen'[x][y] = seen[x][y]
      /\ \A x \in Nodes, y \in Registers : seen[x][y] \subseteq seen'[x][y] /\ seen[x][y] \subseteq Entry
  BY <1>0
<1>2. /\ data'[n][k] = IF data[n][k] = None \/ Dominates(e, data[n][k]) THEN e ELSE data[n][k]
      /\ \A x \in Nodes, y \in Registers : <<x, y>> # <<n, k>> => data'[x][y] = data[x][y]
  BY <1>0
<1>3. ASSUME NEW x \in Nodes, NEW y \in Registers, NEW f \in seen'[x][y]
      PROVE  f \in seen'[f.node][y]
  <2>1. CASE f \in seen[x][y]
    <3>1. f \in seen[f.node][y] /\ f \in Entry
      BY <2>1, <1>1 DEF Origin
    <3>2. f.node \in Nodes
      BY <3>1 DEF Entry
    <3> QED
      BY <3>1, <3>2, <1>1
  <2>2. CASE f \notin seen[x][y]
    <3>1. x = n /\ y = k /\ f = e
      BY <2>2, <1>1
    <3>2. e.node \in Nodes
      BY DEF Entry
    <3> QED
      BY <3>1, <3>2, <1>1
  <2> QED
    BY <2>1, <2>2
<1>4. Distinct'
  <2> SUFFICES ASSUME NEW x \in Nodes, NEW y \in Registers, NEW f \in seen'[x][y], NEW g \in seen'[x][y],
                      f.node = g.node, f.stamp = g.stamp
               PROVE  f = g
    BY DEF Distinct
  <2>1. CASE <<x, y>> # <<n, k>>
    BY <2>1, <1>1 DEF Distinct
  <2>2. CASE <<x, y>> = <<n, k>>
    BY <2>2, <1>1 DEF Distinct
  <2> QED
    BY <2>1, <2>2
<1>5. Newest'
  <2> SUFFICES ASSUME NEW x \in Nodes, NEW y \in Registers
               PROVE  IF data'[x][y] = None THEN seen'[x][y] = {}
                      ELSE /\ data'[x][y] \in seen'[x][y]
                           /\ \A f \in seen'[x][y] \ {data'[x][y]} : Dominates(data'[x][y], f)
    BY DEF Newest
  <2>1. CASE <<x, y>> # <<n, k>>
    BY <2>1, <1>1, <1>2 DEF Newest
  <2>2. CASE x = n /\ y = k
    <3> DEFINE d == data[n][k]
    <3>0. IF d = None THEN seen[n][k] = {}
          ELSE /\ d \in seen[n][k]
               /\ \A f \in seen[n][k] \ {d} : Dominates(d, f)
      BY DEF Newest
    <3>1. CASE d = None
      BY <3>0, <3>1, <2>2, <1>0, <1>1, <1>2
    <3>2. CASE d # None /\ Dominates(e, d)
      <4>1. d \in Entry /\ seen[n][k] \subseteq Entry
        BY <3>2, <1>0
      <4>2. \A f \in seen[n][k] : Dominates(e, f)
        <5> TAKE f \in seen[n][k]
        <5>1. f = d \/ Dominates(d, f)
          BY <3>0, <3>2
        <5> QED
          BY <3>2, <4>1, <5>1, DominatesOrders
      <4>3. data'[n][k] = e
        BY <3>2, <1>2
      <4> QED
        BY <4>2, <4>3, <2>2, <1>0, <1>1
    <3>3. CASE d # None /\ ~Dominates(e, d)
      <4>1. d \in Entry /\ d \in seen[n][k] /\ \A f \in seen[n][k] \ {d} : Dominates(d, f)
        BY <3>0, <3>3, <1>0
      <4>2. e = d \/ Dominates(d, e)
        BY <3>3, <4>1, DominatesOrders
      <4>3. data'[n][k] = d
        BY <3>3, <1>2
      <4> HIDE DEF d
      <4> QED
        BY <3>3, <4>1, <4>2, <4>3, <2>2, <1>1
    <3> QED
      BY <3>1, <3>2, <3>3
  <2> QED
    BY <2>1, <2>2
<1> QED
  BY <1>3, <1>4, <1>5

LEMMA InitConverges == Init => ConvergeInv /\ Delivered /\ Answered
<1> SUFFICES ASSUME Init PROVE ConvergeInv /\ Delivered /\ Answered
  OBVIOUS
<1>1. TidyInv
  BY InitTidies
<1>2. \A n \in Nodes, k \in Registers : seen[n][k] = {} /\ data[n][k] = None
  BY DEF Init
<1>3. \A n \in Nodes : \A g \in DOMAIN fans[n] : \A p \in Peers(fans[n][g]) : fans[n][g].queue[p] = <<>>
  <2> TAKE n \in Nodes
  <2>1. fans[n] = <<NewFan(Nodes \ {n})>>
    BY DEF Init
  <2> DEFINE f == NewFan(Nodes \ {n})
  <2>2. \A p \in Peers(f) : f.queue[p] = <<>>
    BY DEF NewFan, Peers
  <2> HIDE DEF f
  <2>3. \A g \in DOMAIN fans[n] : fans[n][g] = f
    BY <2>1 DEF f
  <2> QED
    BY <2>2, <2>3
<1>4. \A o \in Ops : op[o].entry = None /\ op[o].reached = FALSE
  BY DEF Init, Idle
<1>5. wire = {}
  BY DEF Init
<1>6. Origin
  BY <1>2, <1>3, <1>4, <1>5 DEF Origin
<1>7. Distinct /\ Newest /\ Delivered /\ Answered
  BY <1>2, <1>4 DEF Distinct, Newest, Delivered, Answered
<1> QED
  BY <1>1, <1>6, <1>7 DEF ConvergeInv

LEMMA StepConverges ==
  ASSUME ConvergeInv, [Next]_vars
  PROVE  ConvergeInv'
<1> USE DEF ConvergeInv
<1>0. /\ \A n \in Nodes, k \in Registers : seen[n][k] \subseteq seen'[n][k]
      /\ TidyInv'
  BY SeenGrows, StepTidies
<1>1. \A u \in Replication : Stamped(u) => u.entry \in seen'[u.entry.node][u.key]
  BY <1>0 DEF Stamped, Replication, Entry
<1>2. (\A m \in wire : Stamped(m.update))'
  BY <1>1, WireGains DEF Stamped
<1>3. (\A n \in Nodes : \A g \in DOMAIN fans[n] : \A p \in Peers(fans[n][g]) :
         \A i \in DOMAIN fans[n][g].queue[p] : Stamped(fans[n][g].queue[p][i]))'
  <2> SUFFICES ASSUME NEW n \in Nodes, NEW g \in DOMAIN fans'[n], NEW p \in Peers(fans'[n][g]),
                      NEW i \in DOMAIN fans'[n][g].queue[p]
               PROVE  fans'[n][g].queue[p][i].entry
                        \in seen'[fans'[n][g].queue[p][i].entry.node][fans'[n][g].queue[p][i].key]
    BY DEF Stamped
  <2>1. Stamped(fans'[n][g].queue[p][i]) /\ fans'[n][g].queue[p][i] \in Replication
    BY QueuesGain
  <2> QED
    BY <1>1, <2>1
<1>4. (\A o \in Ops : op[o].entry # None => op[o].entry.node = op[o].node /\ Stamped(Update(o)))'
  <2> SUFFICES ASSUME NEW o \in Ops, op'[o].entry # None
               PROVE  /\ op'[o].entry.node = op'[o].node
                      /\ op'[o].entry \in seen'[op'[o].entry.node][op'[o].key]
    BY DEF Stamped, Update
  <2>0. ASSUME op'[o].entry = op[o].entry, op'[o].key = op[o].key, op'[o].node = op[o].node
        PROVE  /\ op'[o].entry.node = op'[o].node
               /\ op'[o].entry \in seen'[op'[o].entry.node][op'[o].key]
    <3>1. op[o].entry # None
      BY <2>0
    <3>2. op[o].key \in Registers /\ op[o].entry \in Entry
      BY <3>1 DEF TidyInv, Handled, Shapes, Handler
    <3>3. Update(o) \in Replication /\ Update(o).entry = op[o].entry /\ Update(o).key = op[o].key
      BY <3>2 DEF Update, Replication
    <3>4. Stamped(Update(o)) /\ op[o].entry.node = op[o].node
      BY <3>1 DEF Origin
    <3> QED
      BY <2>0, <3>3, <3>4, <1>1
  <2>1. CASE Idles
    BY <2>0, <2>1 DEF Idles
  <2>2. ASSUME NEW a \in Ops, NEW n \in Nodes, NEW r \in Requests, Apply(a, n, r)
        PROVE  /\ op'[o].entry.node = op'[o].node
               /\ op'[o].entry \in seen'[op'[o].entry.node][op'[o].key]
    <3>1. CASE o # a
      BY <2>0, <2>2, <3>1, ApplyStamps
    <3>2. CASE o = a
      <4>1. PICK e \in Entry :
              /\ e.node = n /\ seen' = [seen EXCEPT ![n][r.key] = @ \cup {e}]
              /\ op'[o].entry = e /\ op'[o].key = r.key /\ op'[o].node = n
        BY <2>2, <3>2, ApplyStamps
      <4>2. r.key \in Registers /\ seen \in [Nodes -> [Registers -> SUBSET Entry]]
        BY QuorumAssumption DEF TidyInv, Shapes
      <4> QED
        BY <4>1, <4>2
    <3> QED
      BY <3>1, <3>2
  <2>3. ASSUME NEW m \in wire, Deliver(m)
        PROVE  UNCHANGED op
    BY <2>3 DEF Deliver
  <2>4. ASSUME NEW a \in Ops, Enqueue(a) \/ Broadcast(a)
        PROVE  op'[o].entry = op[o].entry /\ op'[o].key = op[o].key /\ op'[o].node = op[o].node
    <3>1. op \in [Ops -> Handler]
      BY DEF TidyInv, Shapes
    <3>2. \/ op' = [op EXCEPT ![a].pc = "replied"]
          \/ op' = [op EXCEPT ![a].pc = "posted",
                              ![a].awaited = Peers(fans[op[a].node][op[a].fan]), ![a].reached = TRUE]
      BY <2>4 DEF Enqueue, Broadcast
    <3>3. CASE op' = [op EXCEPT ![a].pc = "replied"]
      BY <3>1, <3>3 DEF Handler
    <3>4. CASE op' = [op EXCEPT ![a].pc = "posted",
                                ![a].awaited = Peers(fans[op[a].node][op[a].fan]), ![a].reached = TRUE]
      <4> DEFINE h == [op[a] EXCEPT !.pc = "posted", !.awaited = Peers(fans[op[a].node][op[a].fan]),
                                    !.reached = TRUE]
      <4>1. op' = [op EXCEPT ![a] = h]
        BY <3>1, <3>4
      <4>2. h.entry = op[a].entry /\ h.key = op[a].key /\ h.node = op[a].node
        BY <3>1 DEF Handler
      <4> HIDE DEF h
      <4> QED
        BY <3>1, <4>1, <4>2
    <3> QED
      BY <3>2, <3>3, <3>4
  <2>5. ASSUME NEW n \in Nodes, NEW p \in Nodes, NEW g \in 1..MaxFans, Pump(n, g, p)
        PROVE  UNCHANGED op
    BY <2>5 DEF Pump
  <2> QED
    BY <2>0, <2>1, <2>2, <2>3, <2>4, <2>5, StepKinds
<1>5. /\ \A x \in Nodes, y \in Registers : \A f \in seen'[x][y] : f \in seen'[f.node][y]
      /\ Distinct' /\ Newest'
  <2>1. ASSUME UNCHANGED <<data, seen>>
        PROVE  /\ \A x \in Nodes, y \in Registers : \A f \in seen'[x][y] : f \in seen'[f.node][y]
               /\ Distinct' /\ Newest'
    BY <2>1 DEF Origin, Distinct, Newest
  <2>2. ASSUME NEW o \in Ops, NEW n \in Nodes, NEW r \in Requests, Apply(o, n, r)
        PROVE  /\ \A x \in Nodes, y \in Registers : \A f \in seen'[x][y] : f \in seen'[f.node][y]
               /\ Distinct' /\ Newest'
    <3>1. r.key \in Registers
      BY QuorumAssumption
    <3> DEFINE k == r.key
               d == data[n][k]
    <3>2. PICK e \in Entry :
            /\ e.node = n /\ (data[n][r.key] # None => e.stamp > data[n][r.key].stamp)
            /\ data' = [data EXCEPT ![n][r.key] = e]
            /\ seen' = [seen EXCEPT ![n][r.key] = @ \cup {e}]
      BY <2>2, ApplyStamps
    <3>3. /\ d \in Entry \cup {None} /\ seen[n][k] \subseteq Entry
          /\ IF d = None THEN seen[n][k] = {}
             ELSE d \in seen[n][k] /\ \A f \in seen[n][k] \ {d} : Dominates(d, f)
      BY <3>1 DEF TidyInv, Shapes, Newest
    <3>4. d = None \/ Dominates(e, d)
      BY <3>2, <3>3, DominatesOrders
    <3>5. \A f \in seen[n][k] : f.stamp # e.stamp
      <4> TAKE f \in seen[n][k]
      <4>1. d # None /\ d \in Entry /\ f \in Entry /\ (f = d \/ Dominates(d, f))
        BY <3>3
      <4>2. d.stamp >= f.stamp
        BY <4>1, DominatesOrders DEF Entry
      <4> QED
        BY <3>2, <4>1, <4>2 DEF Entry
    <3>6. data' = IF d = None \/ Dominates(e, d) THEN [data EXCEPT ![n][k] = e] ELSE data
      BY <3>2, <3>4
    <3>7. seen' = [seen EXCEPT ![n][k] = @ \cup {e}] /\ k \in Registers /\ e.node = n
      BY <3>1, <3>2
    <3> HIDE DEF k
    <3> QED
      BY <3>5, <3>6, <3>7, TakingKeeps
  <2>3. ASSUME NEW m \in wire, Deliver(m)
        PROVE  /\ \A x \in Nodes, y \in Registers : \A f \in seen'[x][y] : f \in seen'[f.node][y]
               /\ Distinct' /\ Newest'
    <3> DEFINE n == m.to
               k == m.update.key
               e == m.update.entry
    <3>1. /\ n \in Nodes /\ k \in Registers /\ e \in Entry
          /\ data' = IF data[n][k] = None \/ Dominates(e, data[n][k])
                       THEN [data EXCEPT ![n][k] = e] ELSE data
          /\ seen' = [seen EXCEPT ![n][k] = @ \cup {e}]
      BY <2>3, DeliverTakes
    <3>2. e \in seen[e.node][k]
      BY DEF Origin, Stamped
    <3>3. \A f \in seen[n][k] : f.node = e.node /\ f.stamp = e.stamp => f = e
      <4> HIDE DEF n, k, e
      <4> SUFFICES ASSUME NEW f \in seen[n][k], f.node = e.node, f.stamp = e.stamp
                   PROVE  f = e
        OBVIOUS
      <4>1. f \in seen[e.node][k]
        BY <3>1 DEF Origin
      <4>2. e.node \in Nodes
        BY <3>1 DEF Entry
      <4> QED
        BY <3>1, <3>2, <4>1, <4>2 DEF Distinct
    <3> HIDE DEF n, k, e
    <3> QED
      BY <3>1, <3>2, <3>3, TakingKeeps
  <2>4. ASSUME NEW o \in Ops, Enqueue(o) \/ Broadcast(o)
        PROVE  UNCHANGED <<data, seen>>
    BY <2>4 DEF Enqueue, Broadcast, nodeVars
  <2>5. ASSUME NEW n \in Nodes, NEW p \in Nodes, NEW g \in 1..MaxFans, Pump(n, g, p)
        PROVE  UNCHANGED <<data, seen>>
    BY <2>5 DEF Pump
  <2>6. CASE Idles
    BY <2>1, <2>6 DEF Idles
  <2> QED
    BY <2>1, <2>2, <2>3, <2>4, <2>5, <2>6, StepKinds
<1>6. Origin'
  BY <1>2, <1>3, <1>4, <1>5 DEF Origin
<1> QED
  BY <1>0, <1>5, <1>6

(***************************************************************************)
(* A step leaves every update on its way, delivers it or loses it.         *)
(***************************************************************************)
LEMMA QueuedStays ==
  ASSUME TidyInv, [Next]_vars, NEW p \in Nodes, NEW u \in Replication, Queued(p, u)
  PROVE  Queued(p, u)' \/ [to |-> p, update |-> u] \in wire' \/ Missed(p, u)'
<1>0. PICK n \in Nodes : \E g \in DOMAIN fans[n] :
        p \in Peers(fans[n][g]) /\ \E i \in DOMAIN fans[n][g].queue[p] : fans[n][g].queue[p][i] = u
  BY DEF Queued
<1>1. PICK g \in DOMAIN fans[n] :
        p \in Peers(fans[n][g]) /\ \E i \in DOMAIN fans[n][g].queue[p] : fans[n][g].queue[p][i] = u
  BY <1>0
<1>2. PICK i \in DOMAIN fans[n][g].queue[p] : fans[n][g].queue[p][i] = u
  BY <1>1
<1> DEFINE q == fans[n][g].queue[p]
<1>3. q \in Seq(Replication) /\ p \in Peers(fans[n][g])
  BY <1>1, QueueIsSeq
<1>4. ASSUME g \in DOMAIN fans'[n], p \in Peers(fans'[n][g]),
             NEW j \in DOMAIN fans'[n][g].queue[p], fans'[n][g].queue[p][j] = u
      PROVE  Queued(p, u)'
  BY <1>4 DEF Queued
<1>5. ASSUME g \in DOMAIN fans'[n], fans'[n][g].queue = fans[n][g].queue
      PROVE  Queued(p, u)'
  <2>1. p \in Peers(fans'[n][g]) /\ i \in DOMAIN fans'[n][g].queue[p] /\ fans'[n][g].queue[p][i] = u
    BY <1>2, <1>3, <1>5 DEF Peers
  <2> QED
    BY <1>4, <1>5, <2>1
<1>6. CASE QueuesKept
  BY <1>5, <1>6 DEF QueuesKept
<1>7. ASSUME NEW o \in Ops, Enqueue(o), OpenFan(fans[op[o].node][op[o].fan])
      PROVE  Queued(p, u)'
  <2>1. g \in DOMAIN fans'[n]
    BY <1>7, EnqueueQueues
  <2>2. CASE <<n, g>> # <<op[o].node, op[o].fan>>
    <3>1. fans'[n][g] = fans[n][g]
      BY <1>7, <2>2, EnqueueQueues
    <3> QED
      BY <1>5, <2>1, <3>1
  <2>3. CASE <<n, g>> = <<op[o].node, op[o].fan>>
    <3>1. /\ p \in Peers(fans'[n][g])
          /\ fans'[n][g].queue[p] = q \/ fans'[n][g].queue[p] = Append(q, Update(o))
      BY <1>3, <1>7, <2>3, EnqueueQueues
    <3>2. i \in DOMAIN Append(q, Update(o)) /\ Append(q, Update(o))[i] = q[i]
      BY <1>3
    <3> QED
      BY <1>2, <1>4, <2>1, <3>1, <3>2
  <2> QED
    BY <2>2, <2>3
<1>8. ASSUME NEW x \in Nodes, NEW y \in Nodes, NEW j \in 1..MaxFans, Pump(x, j, y)
      PROVE  Queued(p, u)' \/ [to |-> p, update |-> u] \in wire' \/ Missed(p, u)'
  <2>1. g \in DOMAIN fans'[n]
    BY <1>8, PumpQueues
  <2>2. CASE <<n, g>> # <<x, j>>
    <3>1. fans'[n][g] = fans[n][g]
      BY <1>8, <2>2, PumpQueues
    <3> QED
      BY <1>5, <2>1, <3>1
  <2>3. CASE <<n, g>> = <<x, j>> /\ p # y
    <3>1. p \in Peers(fans'[n][g]) /\ fans'[n][g].queue[p] = q
      BY <1>3, <1>8, <2>3, PumpQueues
    <3> QED
      BY <1>2, <1>4, <2>1, <3>1
  <2>4. CASE <<n, g>> = <<x, j>> /\ p = y
    <3>1. /\ p \in Peers(fans'[n][g]) /\ q # <<>> /\ fans'[n][g].queue[p] = Tail(q)
      BY <1>3, <1>8, <2>4, PumpQueues
    <3>2. [to |-> p, update |-> Head(q)] \in lost' \cup wire'
      BY <1>8, <2>4 DEF Pump, Posts
    <3>3. CASE i = 1
      <4>1. Head(q) = u
        BY <1>2, <1>3, <3>1, <3>3
      <4> QED
        BY <3>2, <4>1 DEF Missed
    <3>4. CASE i # 1
      <4>1. i - 1 \in DOMAIN Tail(q) /\ Tail(q)[i - 1] = q[i]
        BY <1>3, <3>1, <3>4
      <4> QED
        BY <1>2, <1>4, <2>1, <3>1, <4>1
    <3> QED
      BY <3>3, <3>4
  <2> QED
    BY <2>2, <2>3, <2>4
<1> QED
  BY <1>6, <1>7, <1>8, QueuesMove

LEMMA UnderwayStays ==
  ASSUME ConvergeInv, [Next]_vars, NEW n \in Nodes, NEW p \in Nodes, p # n,
         NEW u \in Replication, u.entry.node = n, Underway(p, u)
  PROVE  Underway(p, u)' \/ Missed(p, u)' \/ u.entry \in seen'[p][u.key]
<1> USE DEF ConvergeInv
<1>1. CASE Queued(p, u)
  BY <1>1, QueuedStays DEF Underway
<1>2. CASE [to |-> p, update |-> u] \in wire
  <2> DEFINE w == [to |-> p, update |-> u]
  <2>1. CASE Idles
    BY <1>2, <2>1 DEF Idles, Underway, Missed
  <2>2. ASSUME NEW m \in wire, Deliver(m)
        PROVE  Underway(p, u)' \/ u.entry \in seen'[p][u.key]
    <3>1. CASE m = w
      <4>1. m.to = p /\ m.update = u
        BY <3>1
      <4>2. seen' = [seen EXCEPT ![p][u.key] = @ \cup {u.entry}] /\ u.key \in Registers
        BY <2>2, <4>1, DeliverTakes
      <4>3. seen \in [Nodes -> [Registers -> SUBSET Entry]]
        BY DEF TidyInv, Shapes
      <4> QED
        BY <4>2, <4>3
    <3>2. CASE m # w
      BY <1>2, <2>2, <3>2 DEF Deliver, Underway
    <3> QED
      BY <3>1, <3>2
  <2>3. ASSUME NEW o \in Ops, NEW x \in Nodes, NEW r \in Requests, Apply(o, x, r)
        PROVE  wire \subseteq wire'
    BY <2>3 DEF Apply
  <2>4. ASSUME NEW o \in Ops, Enqueue(o) \/ Broadcast(o)
        PROVE  wire \subseteq wire'
    <3>1. CASE Enqueue(o)
      BY <3>1 DEF Enqueue
    <3>2. CASE Broadcast(o)
      BY <3>2 DEF Broadcast
    <3> QED
      BY <2>4, <3>1, <3>2
  <2>5. ASSUME NEW x \in Nodes, NEW y \in Nodes, NEW g \in 1..MaxFans, Pump(x, g, y)
        PROVE  wire \subseteq wire'
    BY <2>5 DEF Pump
  <2> HIDE DEF w
  <2>6. CASE wire \subseteq wire'
    BY <1>2, <2>6 DEF Underway, w
  <2> QED
    BY <2>1, <2>2, <2>3, <2>4, <2>5, <2>6, StepKinds
<1>3. CASE ToSend(u)
  <2>1. PICK o \in Ops : op[o].pc = "applied" /\ Update(o) = u
    BY <1>3 DEF ToSend
  <2>2. /\ op[o].entry # None /\ op[o].key = u.key /\ op[o].entry = u.entry /\ op[o].node = n
        /\ op[o].node \in Nodes /\ op[o].fan \in DOMAIN fans[op[o].node]
    BY <2>1, ReplicatingHolds DEF TidyInv, Update, Origin
  <2>3. ASSUME op'[o].pc = "applied", op'[o].entry = op[o].entry, op'[o].key = op[o].key
        PROVE  Underway(p, u)'
    <3>1. [key |-> op'[o].key, entry |-> op'[o].entry] = u
      BY <2>1, <2>3 DEF Update
    <3> QED
      BY <2>3, <3>1 DEF Underway, ToSend, Update
  <2>4. CASE Idles
    <3>1. [to |-> p, update |-> u] \in Posts(Nodes \ {op[o].node}, Update(o))
      BY <2>1, <2>2 DEF Posts
    <3> QED
      BY <2>1, <2>2, <2>3, <2>4, <3>1 DEF Idles, Missed
  <2>5. ASSUME NEW a \in Ops, NEW x \in Nodes, NEW r \in Requests, Apply(a, x, r)
        PROVE  Underway(p, u)'
    <3>1. o # a /\ op'[o] = op[o]
      BY <2>1, <2>5, ApplyStamps
    <3> QED
      BY <2>1, <2>3, <3>1
  <2>6. ASSUME NEW m \in wire, Deliver(m)
        PROVE  Underway(p, u)'
    BY <2>1, <2>3, <2>6 DEF Deliver
  <2>7. ASSUME NEW x \in Nodes, NEW y \in Nodes, NEW g \in 1..MaxFans, Pump(x, g, y)
        PROVE  Underway(p, u)'
    BY <2>1, <2>3, <2>7 DEF Pump
  <2>8. ASSUME NEW a \in Ops, Enqueue(a), OpenFan(fans[op[a].node][op[a].fan])
        PROVE  Underway(p, u)' \/ Missed(p, u)'
    <3>1. CASE a # o
      <4>1. op'[o] = op[o]
        BY <2>8, <3>1 DEF Enqueue, TidyInv, Shapes
      <4> QED
        BY <2>1, <2>3, <4>1
    <3>2. CASE a = o
      <4> DEFINE g == op[o].fan
                 f == fans[n][g]
      <4>1. CASE p \notin Peers(f) \/ ~Room(f, p)
        <5>1. lost' = lost \cup Posts({r \in Nodes \ {n} : r \notin Peers(f) \/ ~Room(f, r)}, u)
          BY <2>1, <2>2, <2>8, <3>2 DEF Enqueue
        <5> HIDE DEF f
        <5> QED
          BY <4>1, <5>1 DEF Posts, Missed
      <4>2. CASE p \in Peers(f) /\ Room(f, p)
        <5>1. /\ g \in DOMAIN fans'[n] /\ p \in Peers(fans'[n][g])
              /\ fans'[n][g].queue[p] = Append(f.queue[p], u)
          <6>1. /\ op[o].fan \in DOMAIN fans[op[o].node]
                /\ \A x \in Nodes : DOMAIN fans'[x] = DOMAIN fans[x]
                /\ Peers(fans'[n][g]) = Peers(f)
                /\ \A r \in Peers(f) : fans'[n][g].queue[r] = IF Room(f, r) THEN Append(f.queue[r], Update(o))
                                                              ELSE f.queue[r]
            BY <2>2, <2>8, <3>2, EnqueueQueues
          <6> QED
            BY <2>1, <2>2, <4>2, <6>1
        <5>2. f.queue[p] \in Seq(Replication)
          BY <2>2, <4>2, QueueIsSeq
        <5>3. \E i \in DOMAIN fans'[n][g].queue[p] : fans'[n][g].queue[p][i] = u
          <6> DEFINE q == f.queue[p]
                     i == Len(q) + 1
          <6> HIDE DEF q
          <6>1. q \in Seq(Replication)
            BY <5>2 DEF q
          <6>2. i \in DOMAIN Append(q, u) /\ Append(q, u)[i] = u
            BY <6>1
          <6>3. fans'[n][g].queue[p] = Append(q, u)
            BY <5>1 DEF q
          <6> QED
            BY <6>2, <6>3
        <5> QED
          BY <5>1, <5>3 DEF Underway, Queued
      <4> QED
        BY <4>1, <4>2
    <3> QED
      BY <3>1, <3>2
  <2>9. ASSUME NEW a \in Ops, Broadcast(a), OpenFan(fans[op[a].node][op[a].fan])
        PROVE  Underway(p, u)' \/ Missed(p, u)'
    <3>1. CASE a # o
      <4>1. op'[o] = op[o]
        BY <2>9, <3>1 DEF Broadcast, TidyInv, Shapes
      <4> QED
        BY <2>1, <2>3, <4>1
    <3>2. CASE a = o
      <4> DEFINE f == fans[n][op[o].fan]
      <4>1. /\ wire' = wire \cup {[to |-> r, update |-> u] : r \in Peers(f)}
            /\ lost' = lost \cup {[to |-> r, update |-> u] : r \in (Nodes \ {n}) \ Peers(f)}
        BY <2>1, <2>2, <2>9, <3>2 DEF Broadcast, Posts
      <4>2. CASE p \in Peers(f)
        BY <4>1, <4>2 DEF Underway
      <4>3. CASE p \notin Peers(f)
        BY <4>1, <4>3 DEF Missed
      <4> QED
        BY <4>2, <4>3
    <3> QED
      BY <3>1, <3>2
  <2> QED
    BY <2>4, <2>5, <2>6, <2>7, <2>8, <2>9, StepKinds
<1> QED
  BY <1>1, <1>2, <1>3 DEF Underway

LEMMA LostStays ==
  ASSUME TidyInv, [Next]_vars
  PROVE  lost \subseteq lost'
<1>1. CASE Idles
  BY <1>1 DEF Idles
<1>2. ASSUME NEW o \in Ops, NEW n \in Nodes, NEW r \in Requests, Apply(o, n, r)
      PROVE  lost \subseteq lost'
  BY <1>2 DEF Apply
<1>3. ASSUME NEW m \in wire, Deliver(m)
      PROVE  lost \subseteq lost'
  BY <1>3 DEF Deliver
<1>4. ASSUME NEW o \in Ops, Enqueue(o)
      PROVE  lost \subseteq lost'
  BY <1>4 DEF Enqueue
<1>5. ASSUME NEW o \in Ops, Broadcast(o)
      PROVE  lost \subseteq lost'
  BY <1>5 DEF Broadcast
<1>6. ASSUME NEW n \in Nodes, NEW p \in Nodes, NEW g \in 1..MaxFans, Pump(n, g, p)
      PROVE  lost \subseteq lost'
  BY <1>6 DEF Pump
<1> QED
  BY <1>1, <1>2, <1>3, <1>4, <1>5, <1>6, StepKinds

LEMMA StepDelivers ==
  ASSUME ConvergeInv, Delivered, [Next]_vars
  PROVE  Delivered'
<1> USE DEF ConvergeInv
<1> SUFFICES ASSUME NEW k \in Registers, NEW n \in Nodes, NEW p \in Nodes,
                    NEW e \in seen'[n][k], e.node = n, p # n
             PROVE  \/ e \in seen'[p][k]
                    \/ Underway(p, [key |-> k, entry |-> e])'
                    \/ Missed(p, [key |-> k, entry |-> e])'
  BY DEF Delivered
<1> DEFINE u == [key |-> k, entry |-> e]
<1>0. /\ \A x \in Nodes, y \in Registers : seen[x][y] \subseteq seen'[x][y]
      /\ seen \in [Nodes -> [Registers -> SUBSET Entry]] /\ seen'[n][k] \subseteq Entry
  <2>1. TidyInv'
    BY StepTidies
  <2>2. seen' \in [Nodes -> [Registers -> SUBSET Entry]]
    BY <2>1 DEF TidyInv, Shapes
  <2>3. seen \in [Nodes -> [Registers -> SUBSET Entry]]
    BY DEF TidyInv, Shapes
  <2> QED
    BY <2>2, <2>3, SeenGrows
<1>1. u \in Replication /\ u.entry = e /\ u.key = k
  BY <1>0 DEF Replication
<1>2. lost \subseteq lost'
  BY LostStays
<1>3. CASE e \in seen[n][k]
  <2>1. e \in seen[p][k] \/ Underway(p, u) \/ Missed(p, u)
    BY <1>3 DEF Delivered
  <2>2. Missed(p, u) => Missed(p, u)'
    BY <1>2 DEF Missed
  <2>3. Underway(p, u) => Underway(p, u)' \/ Missed(p, u)' \/ e \in seen'[p][k]
    <3> HIDE DEF u
    <3> QED
      BY <1>1, UnderwayStays
  <2>4. seen[p][k] \subseteq seen'[p][k]
    BY <1>0
  <2> HIDE DEF u
  <2>5. e \in seen'[p][k] \/ Underway(p, u)' \/ Missed(p, u)'
    BY <2>1, <2>2, <2>3, <2>4
  <2> QED
    BY <2>5 DEF u
<1>4. CASE e \notin seen[n][k]
  <2>1. ASSUME NEW o \in Ops, NEW x \in Nodes, NEW r \in Requests, Apply(o, x, r)
        PROVE  Underway(p, u)'
    <3>1. PICK f \in Entry :
            /\ seen' = [seen EXCEPT ![x][r.key] = @ \cup {f}]
            /\ op'[o].pc = "applied" /\ op'[o].entry = f /\ op'[o].key = r.key
      BY <2>1, ApplyStamps
    <3>2. r.key \in Registers
      BY QuorumAssumption
    <3>3. f = e /\ r.key = k
      BY <1>0, <1>4, <3>1, <3>2
    <3>4. [key |-> op'[o].key, entry |-> op'[o].entry] = u
      BY <3>1, <3>3
    <3> QED
      BY <3>1, <3>4 DEF Underway, ToSend, Update
  <2>2. ASSUME NEW m \in wire, Deliver(m)
        PROVE  FALSE
    <3> DEFINE x == m.to
               y == m.update.key
               f == m.update.entry
    <3>1. x \in Nodes /\ y \in Registers /\ f \in Entry /\ seen' = [seen EXCEPT ![x][y] = @ \cup {f}]
      BY <2>2, DeliverTakes
    <3>2. f \in seen[f.node][y]
      BY DEF Origin, Stamped
    <3> HIDE DEF x, y, f
    <3>3. f = e /\ y = k
      BY <1>0, <1>4, <3>1
    <3> QED
      BY <1>4, <3>2, <3>3
  <2>3. ASSUME Idles \/ (\E o \in Ops : Enqueue(o) \/ Broadcast(o))
                 \/ (\E x, y \in Nodes, g \in 1..MaxFans : Pump(x, g, y))
        PROVE  UNCHANGED seen
    BY <2>3 DEF Idles, Enqueue, Broadcast, Pump
  <2> QED
    BY <1>4, <2>1, <2>2, <2>3, StepKinds
<1> QED
  BY <1>3, <1>4

(***************************************************************************)
(* A fan-out keeps its peers.                                              *)
(***************************************************************************)
LEMMA PeersKept ==
  ASSUME TidyInv, [Next]_vars, NEW n \in Nodes, NEW g \in DOMAIN fans[n]
  PROVE  Peers(fans'[n][g]) = Peers(fans[n][g])
<1>1. CASE QueuesKept
  BY <1>1 DEF QueuesKept, Peers
<1>2. ASSUME NEW o \in Ops, Enqueue(o), OpenFan(fans[op[o].node][op[o].fan])
      PROVE  Peers(fans'[n][g]) = Peers(fans[n][g])
  <2>1. CASE <<n, g>> = <<op[o].node, op[o].fan>>
    BY <1>2, <2>1, EnqueueQueues
  <2>2. CASE <<n, g>> # <<op[o].node, op[o].fan>>
    BY <1>2, <2>2, EnqueueQueues
  <2> QED
    BY <2>1, <2>2
<1>3. ASSUME NEW x \in Nodes, NEW y \in Nodes, NEW i \in 1..MaxFans, Pump(x, i, y)
      PROVE  Peers(fans'[n][g]) = Peers(fans[n][g])
  <2>1. CASE <<n, g>> = <<x, i>>
    BY <1>3, <2>1, PumpQueues
  <2>2. CASE <<n, g>> # <<x, i>>
    BY <1>3, <2>2, PumpQueues
  <2> QED
    BY <2>1, <2>2
<1> QED
  BY <1>1, <1>2, <1>3, QueuesMove

(***************************************************************************)
(* How a step leaves a handler that is, or becomes, one all of whose posts *)
(* so far were answered.                                                   *)
(***************************************************************************)
LEMMA ReachedMoves ==
  ASSUME TidyInv, [Next]_vars, NEW o \in Ops, op'[o].reached
  PROVE  \/ op'[o] = op[o]
         \/ op'[o].pc = "posted" /\ op'[o].awaited = Peers(fans[op'[o].node][op'[o].fan])
              /\ op'[o].node \in Nodes /\ op'[o].fan \in DOMAIN fans[op'[o].node]
         \/ /\ op[o].reached /\ op'[o].pc = "posted"
            /\ op'[o].entry = op[o].entry /\ op'[o].key = op[o].key
            /\ op'[o].node = op[o].node /\ op'[o].fan = op[o].fan
            /\ \E p \in Nodes : op'[o].awaited = op[o].awaited \ {p} /\ Took(p, Update(o))
         \/ /\ op[o].reached /\ op'[o].pc = "replied" /\ op[o].awaited = {}
            /\ op'[o].entry = op[o].entry /\ op'[o].key = op[o].key
            /\ op'[o].node = op[o].node /\ op'[o].fan = op[o].fan /\ op'[o].awaited = {}
<1>0. op \in [Ops -> Handler] /\ op[o] \in Handler
  BY DEF TidyInv, Shapes
<1>1. ASSUME NEW a \in Ops, NEW n \in Nodes, NEW r \in Requests, Apply(a, n, r)
      PROVE  op'[o] = op[o]
  BY <1>1, ApplyStamps
<1>2. ASSUME NEW a \in Ops, NEW n \in Nodes, NEW r \in Requests, Refuse(a, n, r)
      PROVE  op'[o] = op[o]
  <2>1. op[a].pc = "idle" /\ ~op[a].reached
    BY <1>0, <1>2 DEF Refuse, Arrives, NextIn, Begun, TidyInv, Handled
  <2> DEFINE h == [op[a] EXCEPT !.pc = "replied", !.node = n]
  <2>2. op' = [op EXCEPT ![a] = h]
    BY <1>0, <1>2 DEF Refuse
  <2>3. h.reached = op[a].reached
    BY <1>0 DEF Handler
  <2> HIDE DEF h
  <2> QED
    BY <1>0, <2>1, <2>2, <2>3
<1>3. ASSUME NEW a \in Ops, Enqueue(a) \/ (Broadcast(a) /\ ~OpenFan(fans[op[a].node][op[a].fan]))
      PROVE  op'[o] = op[o]
  <2>1. op[a].pc = "applied" /\ op' = [op EXCEPT ![a].pc = "replied"]
    BY <1>3 DEF Enqueue, Broadcast
  <2>2. ~op[a].reached
    BY <2>1 DEF TidyInv, Handled
  <2>3. op'[a].reached = op[a].reached /\ (o # a => op'[o] = op[o])
    BY <1>0, <2>1 DEF Handler
  <2> QED
    BY <2>2, <2>3
<1>4. ASSUME NEW a \in Ops, Broadcast(a), OpenFan(fans[op[a].node][op[a].fan])
      PROVE  \/ op'[o] = op[o]
             \/ op'[o].pc = "posted" /\ op'[o].awaited = Peers(fans[op'[o].node][op'[o].fan])
                  /\ op'[o].node \in Nodes /\ op'[o].fan \in DOMAIN fans[op'[o].node]
  <2> DEFINE h == [op[a] EXCEPT !.pc = "posted", !.awaited = Peers(fans[op[a].node][op[a].fan]),
                                !.reached = TRUE]
  <2>1. op[a].pc = "applied" /\ op' = [op EXCEPT ![a] = h]
    BY <1>0, <1>4 DEF Broadcast
  <2>2. op[a].node \in Nodes /\ op[a].fan \in DOMAIN fans[op[a].node]
    BY <2>1, ReplicatingHolds DEF TidyInv
  <2>3. /\ h.pc = "posted" /\ h.awaited = Peers(fans[op[a].node][op[a].fan])
        /\ h.node = op[a].node /\ h.fan = op[a].fan
    BY <1>0 DEF Handler
  <2> HIDE DEF h
  <2> QED
    BY <1>0, <2>1, <2>2, <2>3
<1>5. ASSUME NEW a \in Ops, ReplySync(a)
      PROVE  \/ op'[o] = op[o]
             \/ /\ op[o].reached /\ op'[o].pc = "replied" /\ op[o].awaited = {}
                /\ op'[o].entry = op[o].entry /\ op'[o].key = op[o].key
                /\ op'[o].node = op[o].node /\ op'[o].fan = op[o].fan /\ op'[o].awaited = {}
  <2> DEFINE h == [op[a] EXCEPT !.pc = "replied"]
  <2>1. op[a].awaited = {} /\ op' = [op EXCEPT ![a] = h]
    BY <1>0, <1>5 DEF ReplySync, AllAnswered
  <2>2. /\ h.pc = "replied" /\ h.entry = op[a].entry /\ h.key = op[a].key /\ h.node = op[a].node
        /\ h.fan = op[a].fan /\ h.awaited = op[a].awaited /\ h.reached = op[a].reached
    BY <1>0 DEF Handler
  <2> HIDE DEF h
  <2> QED
    BY <1>0, <2>1, <2>2
<1>6. ASSUME NEW a \in Ops, \E p \in Nodes, answered \in BOOLEAN : PostEnds(a, p, answered)
      PROVE  \/ op'[o] = op[o]
             \/ /\ op[o].reached /\ op'[o].pc = "posted"
                /\ op'[o].entry = op[o].entry /\ op'[o].key = op[o].key
                /\ op'[o].node = op[o].node /\ op'[o].fan = op[o].fan
                /\ \E p \in Nodes : op'[o].awaited = op[o].awaited \ {p} /\ Took(p, Update(o))
  <2>0. PICK p \in Nodes, answered \in BOOLEAN : PostEnds(a, p, answered)
    BY <1>6
  <2> DEFINE h == [op[a] EXCEPT !.awaited = @ \ {p}, !.reached = @ /\ answered]
  <2>1. /\ op[a].pc = "posted" /\ (answered => Took(p, Update(a))) /\ op' = [op EXCEPT ![a] = h]
    BY <1>0, <2>0 DEF PostEnds, MayEnd
  <2>2. /\ h.pc = op[a].pc /\ h.entry = op[a].entry /\ h.key = op[a].key /\ h.node = op[a].node
        /\ h.fan = op[a].fan /\ h.awaited = op[a].awaited \ {p}
    BY <1>0 DEF Handler
  <2>3. h.reached = (op[a].reached /\ answered)
    BY <1>0 DEF Handler
  <2>4. h.reached => op[a].reached /\ answered
    BY <2>3
  <2> HIDE DEF h
  <2>5. op'[a] = h /\ (o # a => op'[o] = op[o])
    BY <1>0, <2>1
  <2>6. CASE o = a
    <3>1. op[o].reached /\ Took(p, Update(o))
      BY <2>1, <2>4, <2>5, <2>6
    <3> QED
      BY <2>1, <2>2, <2>5, <2>6, <3>1
  <2> QED
    BY <2>5, <2>6
<1>7. ASSUME NEW n \in Nodes, NEW p \in Nodes, NEW g \in 1..MaxFans, Worker(n, g, p)
      PROVE  op' = op
  BY <1>7 DEF Worker, Pump, PumpDone
<1>8. ASSUME NEW m \in wire, Deliver(m) \/ Lose(m)
      PROVE  op' = op
  BY <1>8 DEF Deliver, Lose
<1>9. ASSUME NEW a \in Admins, NEW c \in Configs, Configure(a, c)
      PROVE  op' = op
  BY <1>9 DEF Configure
<1>10. ASSUME NEW a \in Admins, Administer(a)
       PROVE  op' = op
  BY <1>10 DEF Administer, Swap, Retire, Configured
<1>11. ASSUME NEW n \in Nodes, Close(n) \/ ShutDown(n)
       PROVE  op' = op
  BY <1>11 DEF Close, ShutDown, Stop, Stopped
<1>12. CASE UNCHANGED vars
  BY <1>12 DEF vars
<1> QED
  <2>1. CASE \E a \in Ops : Request(a)
    BY <2>1, <1>3, <1>4, <1>5, <1>6 DEF Request
  <2>2. CASE op' = op
    BY <2>2
  <2> QED
    BY <2>1, <2>2, <1>1, <1>2, <1>7, <1>8, <1>9, <1>10, <1>11, <1>12 DEF Next

LEMMA StepAnswers ==
  ASSUME TidyInv, Answered, [Next]_vars
  PROVE  Answered'
<1> SUFFICES ASSUME NEW o \in Ops, op'[o].reached
             PROVE  /\ op'[o].pc = "replied" => op'[o].awaited = {}
                    /\ \A p \in Peers(fans'[op'[o].node][op'[o].fan]) \ op'[o].awaited :
                         op'[o].entry \in seen'[p][op'[o].key]
  BY DEF Answered, Took, Update
<1>0. \A n \in Nodes, k \in Registers : seen[n][k] \subseteq seen'[n][k]
  BY SeenGrows
<1>1. ASSUME op[o].reached, op'[o].entry = op[o].entry, op'[o].key = op[o].key,
             op'[o].node = op[o].node, op'[o].fan = op[o].fan
      PROVE  /\ Peers(fans'[op'[o].node][op'[o].fan]) = Peers(fans[op[o].node][op[o].fan])
             /\ \A p \in Nodes : Took(p, Update(o)) => op'[o].entry \in seen'[p][op'[o].key]
             /\ Peers(fans[op[o].node][op[o].fan]) \subseteq Nodes
             /\ \A p \in Peers(fans[op[o].node][op[o].fan]) \ op[o].awaited : Took(p, Update(o))
  <2>1. /\ op[o].key \in Registers /\ op[o].node \in Nodes /\ op[o].fan \in DOMAIN fans[op[o].node]
        /\ Peers(fans[op[o].node][op[o].fan]) \subseteq Nodes
    BY <1>1, ReplicatingHolds DEF TidyInv
  <2>2. Peers(fans'[op[o].node][op[o].fan]) = Peers(fans[op[o].node][op[o].fan])
    BY <2>1, PeersKept
  <2>3. \A p \in Nodes : Took(p, Update(o)) => op'[o].entry \in seen'[p][op'[o].key]
    BY <1>0, <1>1, <2>1 DEF Took, Update
  <2>4. \A p \in Peers(fans[op[o].node][op[o].fan]) \ op[o].awaited : Took(p, Update(o))
    BY <1>1 DEF Answered
  <2> QED
    BY <1>1, <2>1, <2>2, <2>3, <2>4
<1>2. CASE op'[o] = op[o]
  BY <1>1, <1>2 DEF Answered
<1>3. CASE op'[o].pc = "posted" /\ op'[o].awaited = Peers(fans[op'[o].node][op'[o].fan])
             /\ op'[o].node \in Nodes /\ op'[o].fan \in DOMAIN fans[op'[o].node]
  <2> DEFINE n == op'[o].node
             g == op'[o].fan
  <2>1. n \in Nodes /\ g \in DOMAIN fans[n] /\ op'[o].awaited = Peers(fans[n][g]) /\ op'[o].pc # "replied"
    BY <1>3
  <2> HIDE DEF n, g
  <2>2. Peers(fans'[n][g]) = Peers(fans[n][g])
    BY <2>1, PeersKept
  <2> QED
    BY <2>1, <2>2 DEF n, g
<1>4. CASE /\ op[o].reached /\ op'[o].pc = "posted"
           /\ op'[o].entry = op[o].entry /\ op'[o].key = op[o].key
           /\ op'[o].node = op[o].node /\ op'[o].fan = op[o].fan
           /\ \E p \in Nodes : op'[o].awaited = op[o].awaited \ {p} /\ Took(p, Update(o))
  <2>1. PICK p \in Nodes : op'[o].awaited = op[o].awaited \ {p} /\ Took(p, Update(o))
    BY <1>4
  <2> QED
    BY <1>1, <1>4, <2>1
<1>5. CASE /\ op[o].reached /\ op'[o].pc = "replied" /\ op[o].awaited = {}
           /\ op'[o].entry = op[o].entry /\ op'[o].key = op[o].key
           /\ op'[o].node = op[o].node /\ op'[o].fan = op[o].fan /\ op'[o].awaited = {}
  BY <1>1, <1>5
<1> QED
  BY <1>2, <1>3, <1>4, <1>5, ReachedMoves

(***************************************************************************)
(* The whole invariant.                                                    *)
(***************************************************************************)
LEMMA AlwaysConverges == Spec => [](ConvergeInv /\ Delivered /\ Answered)
<1>1. ConvergeInv /\ Delivered /\ Answered /\ [Next]_vars => (ConvergeInv /\ Delivered /\ Answered)'
  BY StepConverges, StepDelivers, StepAnswers DEF ConvergeInv
<1> QED
  BY <1>1, InitConverges, PTL DEF Spec

(***************************************************************************)
(* In whatever order updates arrive, a node holds the newest it has had;   *)
(* and a quiet node holds the newest of all, unless that very update was   *)
(* dropped, lost or kept from it (quorum.go:45-47, 93-103, 290-300,        *)
(* 349-366).                                                               *)
(***************************************************************************)
THEOREM GossipConverges == Spec => []ConvergesUnlessLost
<1>1. ASSUME ConvergeInv, Delivered
      PROVE  ConvergesUnlessLost
  <2> USE <1>1 DEF ConvergeInv
  <2>0. /\ seen \in [Nodes -> [Registers -> SUBSET Entry]]
        /\ data \in [Nodes -> [Registers -> Entry \cup {None}]]
        /\ None \notin Entry
    BY QuorumAssumption DEF TidyInv, Shapes
  <2>1. ASSUME NEW n \in Nodes, NEW k \in Registers, data[n][k] # None
        PROVE  NewestOf(seen[n][k]) = {data[n][k]}
    <3> DEFINE d == data[n][k]
               S == seen[n][k]
    <3>1. d \in S /\ S \subseteq Entry /\ \A f \in S \ {d} : Dominates(d, f)
      BY <2>0, <2>1 DEF Newest
    <3> HIDE DEF d, S
    <3>2. \A f \in S : f # d => ~(\A g \in S \ {f} : Dominates(f, g))
      BY <3>1, DominatesOrders
    <3>3. NewestOf(S) = {d}
      BY <3>1, <3>2 DEF NewestOf
    <3> QED
      BY <3>3 DEF d, S
  <2>2. ASSUME Quiet, NEW k \in Registers, NEW e \in NewestOf(UNION {seen[n][k] : n \in Nodes}),
               NEW p \in Nodes
        PROVE  data[p][k] = e \/ Missed(p, [key |-> k, entry |-> e])
    <3> DEFINE u == [key |-> k, entry |-> e]
               A == UNION {seen[n][k] : n \in Nodes}
    <3>1. ~Underway(p, u)
      BY <2>2 DEF Quiet, Underway, Queued, ToSend
    <3>2. e \in A /\ \A f \in A \ {e} : Dominates(e, f)
      BY <2>2 DEF NewestOf
    <3>3. PICK n \in Nodes : e \in seen[n][k]
      BY <3>2
    <3>4. e \in seen[e.node][k] /\ e \in Entry /\ e.node \in Nodes
      BY <2>0, <3>3 DEF Origin, Entry
    <3>5. e \in seen[p][k] \/ Underway(p, u) \/ Missed(p, u)
      BY <3>4 DEF Delivered
    <3>6. ASSUME e \in seen[p][k] PROVE data[p][k] = e
      <4>1. data[p][k] \in seen[p][k] /\ \A f \in seen[p][k] \ {data[p][k]} : Dominates(data[p][k], f)
        BY <3>6 DEF Newest
      <4>2. data[p][k] \in A /\ data[p][k] \in Entry
        BY <2>0, <4>1
      <4> HIDE DEF A
      <4>3. ASSUME data[p][k] # e PROVE FALSE
        BY <3>2, <3>4, <3>6, <4>1, <4>2, <4>3, DominatesOrders
      <4> QED
        BY <4>3
    <3> QED
      BY <3>1, <3>5, <3>6
  <2> QED
    BY <2>1, <2>2 DEF ConvergesUnlessLost
<1> QED
  BY <1>1, AlwaysConverges, PTL

(***************************************************************************)
(* Before a client is told that a synchronous write whose posts were all   *)
(* answered has finished, every peer has the value or a newer one          *)
(* (quorum.go:61-63).                                                      *)
(***************************************************************************)
THEOREM AnsweredSyncReaches == Spec => []SyncReaches
<1>1. ASSUME ConvergeInv, Answered
      PROVE  SyncReaches
  <2> USE <1>1 DEF ConvergeInv
  <2> SUFFICES ASSUME NEW o \in Ops, op[o].pc = "replied", op[o].reached,
                      NEW p \in Peers(fans[op[o].node][op[o].fan])
               PROVE  LET held == data[p][op[o].key]
                      IN  held # None /\ (held = op[o].entry \/ Dominates(held, op[o].entry))
    BY DEF SyncReaches
  <2>1. op[o].key \in Registers /\ Peers(fans[op[o].node][op[o].fan]) \subseteq Nodes
    BY ReplicatingHolds DEF TidyInv
  <2>2. op[o].entry \in seen[p][op[o].key]
    BY DEF Answered, Took, Update
  <2> QED
    BY <2>1, <2>2 DEF Newest
<1> QED
  BY <1>1, AlwaysConverges, PTL

=============================================================================
