------------------------------ MODULE QuorumStore ------------------------------
(***************************************************************************)
(* The deliberately wrong store (internal/kv/quorum.go): every node keeps  *)
(* its own map, answers from it at once, and posts what it wrote to its    *)
(* peers through a fan-out of bounded queues, or, in synchronous mode,     *)
(* itself, waiting for them and ignoring what they say.  Conflicts are     *)
(* resolved last-writer-wins.                                              *)
(*                                                                         *)
(* Node ids are natural numbers, compared as the id strings are.  A post   *)
(* on the wire is delivered or lost at any time, before or after its       *)
(* sender has given up on it.                                              *)
(***************************************************************************)
EXTENDS RegisterModel, Sequences, FiniteSets

CONSTANTS
  Nodes, Registers, Ops,
  Admins,       \* the /configure requests there may be
  Requests,     \* what clients write: [kind : write or cas, key, value, from, to]
  Synchronous,  \* how the nodes may be started, all alike
  Configs,      \* what /configure may be asked: [node, sync : a set of at most one, peers : likewise]
  Closable,     \* the nodes that may be shut down
  Clock,        \* what the wall clock may read
  FanoutQueue,  \* the capacity of one peer's queue
  MaxRequests,  \* bound: requests of clients and of administrators together
  None

(***************************************************************************)
(* An entry is a value, a stamp and the node that stamped it; what is      *)
(* posted to a peer carries one for a key.                                 *)
(***************************************************************************)
Entry       == [value : {r.value : r \in Requests} \cup {r.to : r \in Requests},
                stamp : Nat, node : Nodes]
Replication == [key : Registers, entry : Entry]

ASSUME QuorumAssumption ==
  /\ Nodes \subseteq Nat /\ Clock \subseteq Nat /\ Closable \subseteq Nodes
  /\ Synchronous \subseteq BOOLEAN
  /\ FanoutQueue \in Nat \ {0} /\ MaxRequests \in Nat /\ Admins \subseteq Nat /\ Ops \subseteq Nat
  /\ \A r \in Requests : r.key \in Registers
  /\ \A c \in Configs : c.node \in Nodes /\ c.sync \subseteq BOOLEAN /\ c.peers \subseteq SUBSET Nodes
  /\ None \notin Nodes /\ None \notin Entry /\ None \notin Replication

VARIABLES
  data,         \* each node's entries, None for a key it has never seen
  synchronous,  \* each node's replication mode
  closed,       \* the nodes whose store is closed
  fans,         \* each node's fan-outs, the current one last
  wire,         \* posts on their way: [to, update]
  op,           \* the request handlers
  admin,        \* the /configure handlers
  stopping,     \* each node's Close
  seen,         \* history variable: every update a node has ever had before it
  lost          \* history variable: the updates that failed to reach a peer: [to, update]

nodeVars == <<data, synchronous, closed, fans>>
vars == <<nodeVars, wire, op, admin, stopping, seen, lost>>

-----------------------------------------------------------------------------
(***************************************************************************)
(* Last writer wins: the later stamp, and of two equal ones the larger id. *)
(***************************************************************************)
DominatesByStamp(e, f) == e.stamp >= f.stamp  \* mutant: the node id breaks no tie

Dominates(e, f) == e.stamp > f.stamp \/ (e.stamp = f.stamp /\ e.node > f.node)

ValueOf(n, k) == IF data[n][k] = None THEN InitialValue ELSE data[n][k].value

StampFor(n, k, now) ==
  IF data[n][k] # None /\ now <= data[n][k].stamp THEN data[n][k].stamp + 1 ELSE now

(***************************************************************************)
(* A fan-out.  "marked": close has set its flag; "cancelled": its context  *)
(* is cancelled and its queues closed, so the workers only drain them.     *)
(***************************************************************************)
NewFan(peers) == [state |-> "open", queue |-> [p \in peers |-> <<>>], busy |-> [p \in peers |-> None]]
Current(n)    == Len(fans[n])
Peers(f)      == DOMAIN f.queue
Exited(f)     == f.state = "cancelled" /\ \A p \in Peers(f) : f.queue[p] = <<>> /\ f.busy[p] = None

MaxFans       == Cardinality(Admins) + 1   \* each request replaces one at most

Idle == [pc |-> "idle", node |-> None, fan |-> 0, sync |-> FALSE,
         key |-> None, entry |-> None, awaited |-> {}, reached |-> FALSE]

Init ==
  /\ data = [n \in Nodes |-> [k \in Registers |-> None]]
  /\ synchronous \in {[n \in Nodes |-> b] : b \in Synchronous}
  /\ closed = {}
  /\ fans = [n \in Nodes |-> <<NewFan(Nodes \ {n})>>]
  /\ wire = {}
  /\ op = [o \in Ops |-> Idle]
  /\ admin = [a \in Admins |-> [pc |-> "idle", node |-> None, peers |-> {}, prev |-> 0]]
  /\ stopping = [n \in Nodes |-> [pc |-> "idle", prev |-> 0]]
  /\ seen = [n \in Nodes |-> [k \in Registers |-> {}]]
  /\ lost = {}

(***************************************************************************)
(* Handlers are interchangeable, so they are taken up in order.            *)
(***************************************************************************)
Begun(h)   == {i \in DOMAIN h : h[i].pc # "idle"}
NextIn(h)  == {i \in DOMAIN h \ Begun(h) : \A j \in DOMAIN h : j < i => j \in Begun(h)}
Arrives(h) == IF Cardinality(Begun(op)) + Cardinality(Begun(admin)) < MaxRequests
                THEN NextIn(h) ELSE {}

-----------------------------------------------------------------------------
(***************************************************************************)
(* Apply, under the store's lock: a write, or a compare-and-swap that      *)
(* finds what it expects, is stamped and kept, and the fan-out and mode of *)
(* that moment go with it.  Anything else is answered at once.             *)
(***************************************************************************)
Matches(n, r) == r.kind = "write" \/ ValueOf(n, r.key) = r.from

Apply(o, n, r) ==
  /\ o \in Arrives(op)
  /\ Matches(n, r)
  /\ \E now \in Clock :
       LET e == [value |-> IF r.kind = "write" THEN r.value ELSE r.to,
                 stamp |-> StampFor(n, r.key, now), node |-> n]
       IN  /\ data' = [data EXCEPT ![n][r.key] = e]
           /\ seen' = [seen EXCEPT ![n][r.key] = @ \cup {e}]
           /\ op' = [op EXCEPT ![o] = [Idle EXCEPT !.pc = "applied", !.node = n, !.fan = Current(n),
                                         !.sync = synchronous[n], !.key = r.key, !.entry = e]]
  /\ UNCHANGED <<synchronous, closed, fans, wire, admin, stopping, lost>>

Refuse(o, n, r) ==
  /\ o \in Arrives(op)
  /\ ~Matches(n, r)
  /\ op' = [op EXCEPT ![o].pc = "replied", ![o].node = n]
  /\ UNCHANGED <<nodeVars, wire, admin, stopping, seen, lost>>

Update(o) == [key |-> op[o].key, entry |-> op[o].entry]

Posts(peers, u) == {[to |-> p, update |-> u] : p \in peers}

(***************************************************************************)
(* fanout.send: a full queue drops the update, a closed fan-out ignores    *)
(* it.                                                                     *)
(***************************************************************************)
AnyFan(f)   == TRUE  \* mutant: send does not look whether it is closed
OpenFan(f)  == f.state = "open"
Room(f, p)  == Len(f.queue[p]) < FanoutQueue

Enqueue(o) ==
  LET n == op[o].node
      g == op[o].fan
      f == fans[n][g]
  IN  /\ op[o].pc = "applied" /\ ~op[o].sync
      /\ IF OpenFan(f)
           THEN /\ fans' = [fans EXCEPT ![n][g].queue =
                              [p \in Peers(f) |-> IF Room(f, p) THEN Append(f.queue[p], Update(o))
                                                  ELSE f.queue[p]]]
                /\ lost' = lost \cup Posts({p \in Nodes \ {n} : p \notin Peers(f) \/ ~Room(f, p)}, Update(o))
           ELSE UNCHANGED fans /\ lost' = lost \cup Posts(Nodes \ {n}, Update(o))
      /\ op' = [op EXCEPT ![o].pc = "replied"]
      /\ UNCHANGED <<data, synchronous, closed, wire, admin, stopping, seen>>

(***************************************************************************)
(* fanout.broadcast: every peer is posted to in parallel, unless the       *)
(* fan-out has been closed; then each post is answered or given up on, and *)
(* the reply does not say which.                                           *)
(***************************************************************************)
Broadcast(o) ==
  LET n == op[o].node
      f == fans[n][op[o].fan]
  IN  /\ op[o].pc = "applied" /\ op[o].sync
      /\ IF OpenFan(f)
           THEN /\ wire' = wire \cup Posts(Peers(f), Update(o))
                /\ op' = [op EXCEPT ![o].pc = "posted", ![o].awaited = Peers(f), ![o].reached = TRUE]
                /\ lost' = lost \cup Posts((Nodes \ {n}) \ Peers(f), Update(o))
           ELSE /\ op' = [op EXCEPT ![o].pc = "replied"]
                /\ lost' = lost \cup Posts(Nodes \ {n}, Update(o)) /\ UNCHANGED wire
      /\ UNCHANGED <<nodeVars, admin, stopping, seen>>

Took(p, u) == u.entry \in seen[p][u.key]

OnlyAnswered(answered, p, u) == answered /\ Took(p, u)  \* mutant: no timeout
MayEnd(answered, p, u)       == answered => Took(p, u)

PostEnds(o, p, answered) ==
  /\ op[o].pc = "posted" /\ p \in op[o].awaited
  /\ MayEnd(answered, p, Update(o))
  /\ op' = [op EXCEPT ![o].awaited = @ \ {p}, ![o].reached = @ /\ answered]
  /\ UNCHANGED <<nodeVars, wire, admin, stopping, seen, lost>>

SomeAnswered(h) == h.awaited = {} \/ h.reached  \* mutant: the reply does not wait
AllAnswered(h)  == h.awaited = {}

ReplySync(o) ==
  /\ op[o].pc = "posted" /\ AllAnswered(op[o])
  /\ op' = [op EXCEPT ![o].pc = "replied"]
  /\ UNCHANGED <<nodeVars, wire, admin, stopping, seen, lost>>

-----------------------------------------------------------------------------
(***************************************************************************)
(* fanout.pump: one worker per peer takes the next update and posts it, or *)
(* drops it once the fan-out is being shut down.                           *)
(***************************************************************************)
Pump(n, g, p) ==
  LET f == fans[n][g]
  IN  /\ g \in DOMAIN fans[n] /\ p \in Peers(f)
      /\ f.busy[p] = None /\ f.queue[p] # <<>>
      /\ IF f.state = "cancelled"
           THEN /\ fans' = [fans EXCEPT ![n][g].queue[p] = Tail(@)]
                /\ lost' = lost \cup Posts({p}, Head(f.queue[p])) /\ UNCHANGED wire
           ELSE /\ fans' = [fans EXCEPT ![n][g] = [f EXCEPT !.queue[p] = Tail(@),
                                                            !.busy[p] = Head(f.queue[p])]]
                /\ wire' = wire \cup Posts({p}, Head(f.queue[p]))
                /\ UNCHANGED lost
      /\ UNCHANGED <<data, synchronous, closed, op, admin, stopping, seen>>

(* The post is answered, times out, breaks, or is cancelled.               *)
PumpDone(n, g, p) ==
  /\ g \in DOMAIN fans[n] /\ p \in Peers(fans[n][g])
  /\ fans[n][g].busy[p] # None
  /\ \E answered \in BOOLEAN : MayEnd(answered, p, fans[n][g].busy[p])
  /\ fans' = [fans EXCEPT ![n][g].busy[p] = None]
  /\ UNCHANGED <<data, synchronous, closed, wire, op, admin, stopping, seen, lost>>

(***************************************************************************)
(* handleReplicate and applyReplication at the receiver.                   *)
(***************************************************************************)
Deliver(m) ==
  LET p == m.to
      k == m.update.key
      e == m.update.entry
  IN  /\ m \in wire
      /\ wire' = wire \ {m}
      /\ data' = IF data[p][k] = None \/ Dominates(e, data[p][k])
                   THEN [data EXCEPT ![p][k] = e] ELSE data
      /\ seen' = [seen EXCEPT ![p][k] = @ \cup {e}]
      /\ UNCHANGED <<synchronous, closed, fans, op, admin, stopping, lost>>

Lose(m) ==
  /\ m \in wire
  /\ wire' = wire \ {m}
  /\ lost' = lost \cup {m}
  /\ UNCHANGED <<nodeVars, op, admin, stopping, seen>>

-----------------------------------------------------------------------------
(***************************************************************************)
(* fanout.close: the flag under the fan-out's lock, then the context and   *)
(* the queues, then a wait for the workers.  h is the caller's record,     *)
(* with the fan-out being closed in prev.                                  *)
(***************************************************************************)
CloseStep(n, h, after) ==
  LET f == fans[n][h.prev]
  IN  \/ /\ h.pc = "mark"
         /\ fans' = [fans EXCEPT ![n][h.prev].state = "marked"]
         /\ after = "cancel"
      \/ /\ h.pc = "cancel"
         /\ fans' = [fans EXCEPT ![n][h.prev].state = "cancelled"]
         /\ after = "wait"

(***************************************************************************)
(* Configure: the mode under the lock; then, if there are peers, a new     *)
(* fan-out in the old one's place under the lock again, unless the store   *)
(* has been closed meanwhile; then, outside it, the old one is closed.     *)
(* Requests that arrive at once are handled at once, and a node's          *)
(* critical sections alternate between them.                               *)
(***************************************************************************)
Configure(a, c) ==
  /\ a \in Arrives(admin)
  /\ synchronous' = [synchronous EXCEPT ![c.node] = IF c.sync = {} THEN @ ELSE TRUE \in c.sync]
  /\ admin' = [admin EXCEPT ![a] = [pc |-> IF c.peers = {} THEN "done" ELSE "swap",
                                    node |-> c.node, peers |-> UNION c.peers, prev |-> 0]]
  /\ UNCHANGED <<data, closed, fans, wire, op, stopping, seen, lost>>

NeverClosed(n) == TRUE  \* mutant: a closed store takes a new fan-out
StillOpen(n)   == n \notin closed

Swap(a) ==
  LET n == admin[a].node
  IN  /\ admin[a].pc = "swap"
      /\ IF StillOpen(n)
           THEN /\ fans' = [fans EXCEPT ![n] = Append(@, NewFan(admin[a].peers))]
                /\ admin' = [admin EXCEPT ![a].pc = "mark", ![a].prev = Current(n)]
           ELSE /\ admin' = [admin EXCEPT ![a].pc = "refused"]
                /\ UNCHANGED fans
      /\ UNCHANGED <<data, synchronous, closed, wire, op, stopping, seen, lost>>

Retire(a) ==
  /\ \E after \in {"cancel", "wait"} :
       CloseStep(admin[a].node, admin[a], after) /\ admin' = [admin EXCEPT ![a].pc = after]
  /\ UNCHANGED <<data, synchronous, closed, wire, op, stopping, seen, lost>>

Configured(a) ==
  /\ admin[a].pc = "wait" /\ Exited(fans[admin[a].node][admin[a].prev])
  /\ admin' = [admin EXCEPT ![a].pc = "done"]
  /\ UNCHANGED <<nodeVars, wire, op, stopping, seen, lost>>

(* Close: the store's flag and its fan-out under the lock, then the same.  *)
Close(n) ==
  /\ n \in Closable /\ stopping[n].pc = "idle"
  /\ closed' = closed \cup {n}
  /\ stopping' = [stopping EXCEPT ![n] = [pc |-> "mark", prev |-> Current(n)]]
  /\ UNCHANGED <<data, synchronous, fans, wire, op, admin, seen, lost>>

Stop(n) ==
  /\ \E after \in {"cancel", "wait"} :
       CloseStep(n, stopping[n], after) /\ stopping' = [stopping EXCEPT ![n].pc = after]
  /\ UNCHANGED <<data, synchronous, closed, wire, op, admin, seen, lost>>

Waits(f) == Exited(f)

Stopped(n) ==
  /\ stopping[n].pc = "wait" /\ Waits(fans[n][stopping[n].prev])
  /\ stopping' = [stopping EXCEPT ![n].pc = "done"]
  /\ UNCHANGED <<nodeVars, wire, op, admin, seen, lost>>

-----------------------------------------------------------------------------
Request(o) ==
  \/ Enqueue(o) \/ Broadcast(o) \/ ReplySync(o)
  \/ \E p \in Nodes, answered \in BOOLEAN : PostEnds(o, p, answered)

Worker(n, g, p) == Pump(n, g, p) \/ PumpDone(n, g, p)

Administer(a) == Swap(a) \/ Retire(a) \/ Configured(a)

ShutDown(n) == Stop(n) \/ Stopped(n)

Next ==
  \/ \E o \in Ops, n \in Nodes, r \in Requests : Apply(o, n, r) \/ Refuse(o, n, r)
  \/ \E o \in Ops : Request(o)
  \/ \E n, p \in Nodes, g \in 1..MaxFans : Worker(n, g, p)
  \/ \E m \in wire : Deliver(m) \/ Lose(m)
  \/ \E a \in Admins, c \in Configs : Configure(a, c)
  \/ \E a \in Admins : Administer(a)
  \/ \E n \in Nodes : Close(n) \/ ShutDown(n)

Spec == Init /\ [][Next]_vars

(***************************************************************************)
(* Handlers and workers are scheduled, and a post never outlives its       *)
(* timeout.  Nothing is assumed of what is on the wire.                    *)
(***************************************************************************)
FairSpec ==
  /\ Spec
  /\ \A o \in Ops : WF_vars(Request(o))
  /\ \A n, p \in Nodes, g \in 1..MaxFans : WF_vars(Worker(n, g, p))
  /\ \A a \in Admins : WF_vars(Administer(a))
  /\ \A n \in Nodes : WF_vars(ShutDown(n))

-----------------------------------------------------------------------------
(* Nothing in flight anywhere.                                             *)
Quiet ==
  /\ wire = {}
  /\ \A o \in Ops : op[o].pc \in {"idle", "replied"}
  /\ \A n \in Nodes : \A g \in DOMAIN fans[n] : \A p \in Peers(fans[n][g]) :
       fans[n][g].queue[p] = <<>> /\ fans[n][g].busy[p] = None

(* "Genuinely convergent": in whatever order updates arrive, a node holds  *)
(* the newest it has ever had, its own writes included; and a quiet node   *)
(* holds the newest of all, unless that very update was dropped, lost or   *)
(* kept from it.  A loss costs the peer it was meant for that one update,  *)
(* no other peer and no newer one (quorum.go:45-47, 93-103, 290-300,       *)
(* 349-366).                                                               *)
NewestOf(S) == {e \in S : \A f \in S \ {e} : Dominates(e, f)}
Missed(p, u) == [to |-> p, update |-> u] \in lost

ConvergesUnlessLost ==
  /\ \A n \in Nodes, k \in Registers :
       data[n][k] # None => NewestOf(seen[n][k]) = {data[n][k]}
  /\ Quiet =>
       \A k \in Registers : \A e \in NewestOf(UNION {seen[n][k] : n \in Nodes}) : \A p \in Nodes :
         data[p][k] = e \/ Missed(p, [key |-> k, entry |-> e])

(* In synchronous mode on a healthy network every replica has the value,   *)
(* or a newer one, before the client is told the write finished            *)
(* (quorum.go:61-63).                                                      *)
SyncReaches ==
  \A o \in Ops : op[o].pc = "replied" /\ op[o].reached =>
    \A p \in Peers(fans[op[o].node][op[o].fan]) :
      LET held == data[p][op[o].key]
      IN  held # None /\ (held = op[o].entry \/ Dominates(held, op[o].entry))

(* A send on a closed channel panics: no queue grows once its channel has  *)
(* been closed, whoever was about to send (quorum.go:349-354, 413-425).    *)
ClosedQueuesOnlyDrain ==
  [][\A n \in Nodes : \A g \in DOMAIN fans[n] :
       fans[n][g].state = "cancelled" =>
         \A p \in Peers(fans[n][g]) : Len(fans'[n][g].queue[p]) <= Len(fans[n][g].queue[p])]_vars

(* Every fan-out but the current one has one request that retires it,      *)
(* however the requests interleave: when all of them have returned no      *)
(* worker of it is left, and when Close has too, none of any               *)
(* (quorum.go:193-234).                                                    *)
AllConfigured(n) ==
  \A a \in Admins : admin[a].node = n => admin[a].pc \in {"done", "refused"}

NothingLeftRunning ==
  \A n \in Nodes : AllConfigured(n) =>
    \A g \in DOMAIN fans[n] :
      g < Current(n) \/ stopping[n].pc = "done" => Exited(fans[n][g])

(* Every write replies, and every Configure and Close returns, whatever    *)
(* the network does (quorum.go:107-111, 313-318).                          *)
EverythingReturns ==
  /\ \A o \in Ops : op[o].pc = "applied" ~> op[o].pc = "replied"
  /\ \A a \in Admins : admin[a].pc = "swap" ~> admin[a].pc \in {"done", "refused"}
  /\ \A n \in Nodes : stopping[n].pc = "mark" ~> stopping[n].pc = "done"

=============================================================================
