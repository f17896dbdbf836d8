---------------------------- MODULE ForwardStore ----------------------------
(***************************************************************************)
(* kv.ForwardStore: a leader with the only copy of the data, followers     *)
(* that forward to it, and the deliberate split brain that promotion       *)
(* switches on (internal/kv/forward.go, single.go, client.go).             *)
(*                                                                         *)
(* Every operation has one handler at the node its client talks to and,    *)
(* when that node forwards, one at the leader: at[o][n] is the goroutine   *)
(* that runs Apply for o at n.  A handler takes a node's lock several      *)
(* times, and each action is one stretch under it, so the handlers of      *)
(* different operations and Configure interleave between them.             *)
(*                                                                         *)
(* The network delays a request for ever (it is never picked up), delivers *)
(* it after its sender has given up, or loses the reply (the sender gives  *)
(* up although the answer is there).                                       *)
(***************************************************************************)
EXTENDS RegisterModel, Sequences, FiniteSets

CONSTANTS
  Ops, Registers, Requests, None,   \* as in AtomicStore
  Nodes, Leader,               \* the servers, and the one that holds the data
  Promote, PromoteAfter,       \* the flags every node is started with
  Configs                      \* the configurations that may arrive meanwhile

ASSUME RequestsAssumption ==
  Requests \subseteq [kind : Kinds, key : Registers, value : Int, from : Int, to : Int]

(***************************************************************************)
(* kv.Config for one node.  A field is the set of at most one value that   *)
(* its pointer is in Go: {} says nothing about it.  The harness never      *)
(* tells the leader to follow, so forwarding is one hop.                   *)
(***************************************************************************)
ASSUME ConfigAssumption ==
  /\ Leader \in Nodes
  /\ Leader # None
  /\ Promote \in BOOLEAN
  /\ PromoteAfter \in Nat \ {0}
  /\ Configs \subseteq [node : Nodes, leader : SUBSET {Leader, None},
                        promote : SUBSET BOOLEAN, promoteAfter : SUBSET Nat]
  /\ \A c \in Configs : c.node = Leader => Leader \notin c.leader

(* What is asked for is what the model judges, and None is no answer.      *)
ASSUME ModelAssumption ==
  /\ \A r \in Requests : Models(r)
  /\ None \notin [observed : Int, swapped : BOOLEAN]

VARIABLES
  leader,        \* whom each node forwards to, None when it leads itself
  local,         \* each node's SingleStore
  promote, promoteAfter, failures, promoted, cache,
  request, via, outcome, answer,   \* the client's side of each operation
  at,            \* the handler of each operation at each node
  took,          \* history variable: the maps each operation was applied to
  streak,        \* history variable: how each node's last forwards ended
  left,          \* history variable: the leader's register once it applied each operation
  heard,         \* history variable: the operations whose answers each cache was filled from
  knew           \* history variable: what the node had heard when it forwarded each operation

nodeVars   == <<leader, local, promote, promoteAfter, failures, promoted, cache>>
clientVars == <<request, via, outcome, answer>>
past       == <<left, heard, knew>>
vars       == <<nodeVars, clientVars, at, took, streak, past>>

Absent == None   \* a key the cache does not hold

(***************************************************************************)
(* What Apply returns: an answer, a definite refusal (Declined) or an      *)
(* error that says the node does not know (Indeterminate).                 *)
(***************************************************************************)
Answers == [observed : Int, swapped : BOOLEAN]
Reply(observed, swapped) == [observed |-> observed, swapped |-> swapped]
NoReply  == [kind |-> "none", answer |-> None]
Ok(a)    == [kind |-> "ok", answer |-> a]
Declined == [kind |-> "declined", answer |-> None]
Unknown  == [kind |-> "error", answer |-> None]

(***************************************************************************)
(* A handler.  "wired": the request is on its way or waiting to be run;    *)
(* "local": it has read the role and will answer from the local store;     *)
(* "awaiting": forwarded; "refused": the dial was refused; "cache": it     *)
(* will answer from the cache; "replied": Apply has returned.  alone is    *)
(* the promoted flag as it was when the handler read it.                   *)
(***************************************************************************)
Handler == [pc : {"idle", "wired", "local", "awaiting", "refused", "cache", "replied"},
            alone : BOOLEAN,
            reply : [kind : {"none", "ok", "declined", "error"}, answer : Answers \cup {None}]]
Idle == [pc |-> "idle", alone |-> FALSE, reply |-> NoReply]
Wired == [Idle EXCEPT !.pc = "wired"]

Returned(h, r) == [h EXCEPT !.pc = "replied", !.reply = r]

Init ==
  /\ leader = [n \in Nodes |-> IF n = Leader THEN None ELSE Leader]
  /\ local = [n \in Nodes |-> [k \in Registers |-> InitialValue]]
  /\ promote = [n \in Nodes |-> Promote]
  /\ promoteAfter = [n \in Nodes |-> PromoteAfter]
  /\ failures = [n \in Nodes |-> 0]
  /\ promoted = [n \in Nodes |-> FALSE]
  /\ cache = [n \in Nodes |-> [k \in Registers |-> Absent]]
  /\ request = [o \in Ops |-> None]
  /\ via = [o \in Ops |-> None]
  /\ outcome = [o \in Ops |-> "idle"]
  /\ answer = [o \in Ops |-> None]
  /\ at = [o \in Ops |-> [n \in Nodes |-> Idle]]
  /\ took = [o \in Ops |-> {}]
  /\ streak = [n \in Nodes |-> <<>>]
  /\ left = [o \in Ops |-> None]
  /\ heard = [n \in Nodes |-> {}]
  /\ knew = [o \in Ops |-> {}]

-----------------------------------------------------------------------------
(***************************************************************************)
(* The client: Client.Do around Client.Send.                               *)
(***************************************************************************)
Issue(o, n, r) ==
  /\ outcome[o] = "idle"
  /\ outcome' = [outcome EXCEPT ![o] = "open"]
  /\ request' = [request EXCEPT ![o] = r]
  /\ via' = [via EXCEPT ![o] = n]
  /\ UNCHANGED <<nodeVars, answer, at, took, streak, past>>

Unsent(o) == outcome[o] = "open" /\ at[o][via[o]].pc = "idle"

Send(o) ==
  /\ Unsent(o)
  /\ at' = [at EXCEPT ![o][via[o]] = Wired]
  /\ UNCHANGED <<nodeVars, clientVars, took, streak, past>>

(* A refused dial is the one failure that proves nothing was delivered.    *)
NeverSent(o) ==
  /\ Unsent(o)
  /\ outcome' = [outcome EXCEPT ![o] = "fail"]
  /\ UNCHANGED <<nodeVars, request, via, answer, at, took, streak, past>>

(* The operation's outcome when the reply is read whole.                   *)
OutcomeOf(reply) ==
  CASE reply.kind = "ok"       -> "ok"
    [] reply.kind = "declined" -> "fail"
    [] OTHER                   -> "info"

Receive(o) ==
  LET h == at[o][via[o]]
  IN  /\ outcome[o] = "open"
      /\ h.pc = "replied"
      /\ outcome' = [outcome EXCEPT ![o] = OutcomeOf(h.reply)]
      /\ answer' = [answer EXCEPT ![o] = h.reply.answer]
      /\ UNCHANGED <<nodeVars, request, via, at, took, streak, past>>

(* A timeout, a reset, a truncated or unparseable reply.                   *)
GiveUp(o) ==
  /\ outcome[o] = "open"
  /\ outcome' = [outcome EXCEPT ![o] = "info"]
  /\ UNCHANGED <<nodeVars, request, via, answer, at, took, streak, past>>

-----------------------------------------------------------------------------

(***************************************************************************)
(* One register operation against a value: what SingleStore.Apply and      *)
(* serveFromCache both do, each to its own map.  Changes tells whether the *)
(* map is assigned.                                                        *)
(***************************************************************************)
Answer(r, held) ==
  CASE r.kind = "write" -> Reply(InitialValue, FALSE)
    [] r.kind = "cas"   -> Reply(InitialValue, held = r.from)
    [] OTHER            -> Reply(held, FALSE)

ChangesAlways(r, held) == r.kind # "read"  \* mutant: no comparison before the swap

Changes(r, held) == r.kind = "write" \/ (r.kind = "cas" /\ held = r.from)
Put(r)           == IF r.kind = "write" THEN r.value ELSE r.to

(* Apply's first stretch: the role is read once, under the read lock.      *)
Lead(o, n) ==
  /\ at[o][n].pc = "wired"
  /\ leader[n] = None
  /\ at' = [at EXCEPT ![o][n].pc = "local"]
  /\ UNCHANGED <<nodeVars, clientVars, took, streak, past>>

(* A request of its own reaches the leader's listener.                     *)
Forward(o, n) ==
  /\ at[o][n].pc = "wired"
  /\ leader[n] # None
  /\ at' = [at EXCEPT ![o][n] = [@ EXCEPT !.pc = "awaiting", !.alone = promoted[n]],
                      ![o][leader[n]] = Wired]
  /\ knew' = [knew EXCEPT ![o] = heard[n]]
  /\ UNCHANGED <<nodeVars, clientVars, took, streak, left, heard>>

ForwardRefused(o, n) ==
  /\ at[o][n].pc = "wired"
  /\ leader[n] # None
  /\ at' = [at EXCEPT ![o][n] = [@ EXCEPT !.pc = "refused", !.alone = promoted[n]]]
  /\ UNCHANGED <<nodeVars, clientVars, took, streak, past>>

(* SingleStore.Apply.                                                      *)
ApplyLocal(o, n) ==
  LET r    == request[o]
      held == local[n][r.key]
  IN  /\ at[o][n].pc = "local"
      /\ at' = [at EXCEPT ![o][n] = Returned(@, Ok(Answer(r, held)))]
      /\ local' = IF Changes(r, held) THEN [local EXCEPT ![n][r.key] = Put(r)] ELSE local
      /\ took' = [took EXCEPT ![o] = @ \cup {<<"local", n>>}]
      /\ left' = IF n = Leader THEN [left EXCEPT ![o] = local'[n][r.key]] ELSE left
      /\ UNCHANGED <<leader, promote, promoteAfter, failures, promoted, cache,
                     clientVars, streak, heard, knew>>

(***************************************************************************)
(* What a follower keeps of an answer that goes past, as one map update.   *)
(***************************************************************************)
CachedUnswapped(held, r, reply) ==  \* mutant: a swap that did not happen is cached
  CASE r.kind = "read"  -> reply.answer.observed
    [] r.kind = "write" -> r.value
    [] OTHER            -> r.to

Cached(held, r, reply) ==
  CASE r.kind = "read"                            -> reply.answer.observed
    [] r.kind = "write"                           -> r.value
    [] r.kind = "cas" /\ reply.answer.swapped     -> r.to
    [] OTHER                                      -> held

(* The answer tells what the register holds: a swap that did not happen    *)
(* only tells what it does not.                                            *)
Tells(r, reply) == r.kind = "cas" => reply.answer.swapped

CountAfterSuccess(n) == 0

(***************************************************************************)
(* Send returned a well-formed reply, a refusal included: forwardSucceeded *)
(* clears the count, demotes, and caches; Apply passes the reply through.  *)
(***************************************************************************)
ForwardSucceeded(o, n) ==
  LET r == request[o]
      h == at[o][Leader]
  IN  /\ n # Leader
      /\ at[o][n].pc = "awaiting"
      /\ h.pc = "replied"
      /\ h.reply.kind # "error"
      /\ failures' = [failures EXCEPT ![n] = CountAfterSuccess(n)]
      /\ promoted' = [promoted EXCEPT ![n] = FALSE]
      /\ cache' = IF promote[n] /\ h.reply.kind = "ok"
                    THEN [cache EXCEPT ![n][r.key] = Cached(@, r, h.reply)]
                    ELSE cache
      /\ at' = [at EXCEPT ![o][n] = Returned(@, h.reply)]
      /\ streak' = [streak EXCEPT ![n] = Append(@, TRUE)]
      /\ heard' = IF promote[n] /\ h.reply.kind = "ok" /\ Tells(r, h.reply)
                    THEN [heard EXCEPT ![n] = @ \cup {o}] ELSE heard
      /\ UNCHANGED <<leader, local, promote, promoteAfter, clientVars, took, left, knew>>

(***************************************************************************)
(* Send returned an error: refused, or anything that may happen while the  *)
(* reply is awaited.  forwardFailed counts it and may promote; a node that *)
(* serves on its own, now or when this handler started, turns to the       *)
(* cache; otherwise the refusal is definite and the rest is not.           *)
(***************************************************************************)
CountsAnyway(n) == failures[n] + 1 >= promoteAfter[n]  \* mutant: promotion cannot be off
CountsEnough(n) == promote[n] /\ failures[n] + 1 >= promoteAfter[n]

MayFail(h) == h.pc \in {"awaiting", "refused"}

AlwaysDeclined(h) == Declined  \* mutant: ignorance reported as a refusal
Failure(h) == IF h.pc = "refused" THEN Declined ELSE Unknown

ForwardFailed(o, n) ==
  LET h       == at[o][n]
      serving == h.alone \/ promoted[n] \/ CountsEnough(n)
  IN  /\ MayFail(h)
      /\ failures' = [failures EXCEPT ![n] = @ + 1]
      /\ promoted' = [promoted EXCEPT ![n] = @ \/ CountsEnough(n)]
      /\ at' = [at EXCEPT ![o][n] =
                  IF serving THEN [@ EXCEPT !.pc = "cache"]
                  ELSE Returned(@, Failure(@))]
      /\ streak' = [streak EXCEPT ![n] = Append(@, FALSE)]
      /\ UNCHANGED <<leader, local, promote, promoteAfter, cache, clientVars, took, past>>

(* serveFromCache: a key it never saw is at its initial value.             *)
ServeFromCache(o, n) ==
  LET r    == request[o]
      held == IF cache[n][r.key] = Absent THEN InitialValue ELSE cache[n][r.key]
  IN  /\ at[o][n].pc = "cache"
      /\ at' = [at EXCEPT ![o][n] = Returned(@, Ok(Answer(r, held)))]
      /\ cache' = IF Changes(r, held) THEN [cache EXCEPT ![n][r.key] = Put(r)] ELSE cache
      /\ took' = [took EXCEPT ![o] = @ \cup {<<"cache", n>>}]
      /\ heard' = IF Changes(r, held)
                    THEN [heard EXCEPT ![n] = {p \in @ : request[p].key # r.key}] ELSE heard
      /\ UNCHANGED <<leader, local, promote, promoteAfter, failures, promoted,
                     clientVars, streak, left, knew>>

(***************************************************************************)
(* Configure, under the lock in one stretch.  A threshold below one is     *)
(* refused before anything is applied.                                     *)
(***************************************************************************)
Acceptable(c) == 0 \notin c.promoteAfter

Configure(c) ==
  LET n        == c.node
      rewired  == c.leader # {}
      switched == c.promote = {FALSE}
  IN  /\ Acceptable(c)
      /\ promote' = [promote EXCEPT ![n] = IF c.promote = {} THEN @ ELSE TRUE \in c.promote]
      /\ promoteAfter' = [promoteAfter EXCEPT ![n] =
                            IF c.promoteAfter = {} THEN @ ELSE CHOOSE k \in c.promoteAfter : TRUE]
      /\ leader' = [leader EXCEPT ![n] =
                      IF rewired THEN CHOOSE m \in c.leader : TRUE ELSE @]
      /\ promoted' = [promoted EXCEPT ![n] = @ /\ ~rewired /\ ~switched]
      /\ failures' = [failures EXCEPT ![n] = IF rewired \/ switched THEN 0 ELSE @]
      /\ cache' = IF switched THEN [cache EXCEPT ![n] = [k \in Registers |-> Absent]] ELSE cache
      /\ streak' = IF rewired \/ switched THEN [streak EXCEPT ![n] = <<>>] ELSE streak
      /\ heard' = IF switched THEN [heard EXCEPT ![n] = {}] ELSE heard
      /\ UNCHANGED <<local, clientVars, at, took, left, knew>>

-----------------------------------------------------------------------------
Client(o) ==
  \/ \E n \in Nodes, r \in Requests : Issue(o, n, r)
  \/ Send(o)
  \/ NeverSent(o)
  \/ Receive(o)
  \/ GiveUp(o)

Serve(o, n) ==
  \/ Lead(o, n)
  \/ Forward(o, n)
  \/ ForwardRefused(o, n)
  \/ ApplyLocal(o, n)
  \/ ForwardSucceeded(o, n)
  \/ ForwardFailed(o, n)
  \/ ServeFromCache(o, n)

Next ==
  \/ \E o \in Ops : Client(o)
  \/ \E o \in Ops, n \in Nodes : Serve(o, n)
  \/ \E c \in Configs : Configure(c)

Spec == Init /\ [][Next]_vars

-----------------------------------------------------------------------------
NodesOK ==
  /\ leader \in [Nodes -> {Leader, None}]
  /\ leader[Leader] = None
  /\ local \in [Nodes -> [Registers -> Int]]
  /\ promote \in [Nodes -> BOOLEAN]
  /\ promoteAfter \in [Nodes -> Nat \ {0}]
  /\ failures \in [Nodes -> Nat]
  /\ promoted \in [Nodes -> BOOLEAN]
  /\ cache \in [Nodes -> [Registers -> Int \cup {Absent}]]

ClientsOK ==
  /\ request \in [Ops -> Requests \cup {None}]
  /\ via \in [Ops -> Nodes \cup {None}]
  /\ outcome \in [Ops -> {"idle", "open"} \cup Outcomes]
  /\ answer \in [Ops -> Answers \cup {None}]
  /\ \A o \in Ops : outcome[o] # "idle" => request[o] \in Requests /\ via[o] \in Nodes

HandlersOK ==
  /\ at \in [Ops -> [Nodes -> Handler]]
  /\ \A o \in Ops, n \in Nodes :
       /\ at[o][n].reply.kind = "ok" => at[o][n].reply.answer \in Answers
       /\ at[o][n].pc # "idle" => outcome[o] # "idle"
  /\ took \in [Ops -> SUBSET ({"local", "cache"} \X Nodes)]
  /\ streak \in [Nodes -> Seq(BOOLEAN)]

PastOK ==
  /\ left \in [Ops -> Int \cup {None}]
  /\ heard \in [Nodes -> SUBSET Ops]
  /\ knew \in [Ops -> SUBSET Ops]

StateOK == NodesOK /\ ClientsOK /\ HandlersOK
TypeOK  == StateOK /\ PastOK

(* A client told that its operation failed is told the truth, however late *)
(* a delayed request arrives and whoever has promoted itself: nothing has  *)
(* applied it, and no handler is left that could (kv.go:98-104,            *)
(* forward.go:126-133, client.go:196-204).                                 *)
FailNeverApplied ==
  \A o \in Ops : outcome[o] = "fail" =>
    /\ took[o] = {}
    /\ \A n \in Nodes : at[o][n].pc \in {"idle", "replied"}

(* What makes that so.  Requests travel one hop, to the leader and nowhere *)
(* else; whatever was applied has replied ok; the leader never declines;   *)
(* and a node that declines has not forwarded.                             *)
Untouched(o) == took[o] = {} /\ \A n \in Nodes : at[o][n].pc = "idle"

OneHop(o) ==
  /\ \A n \in Nodes \ {via[o], Leader} : at[o][n].pc = "idle"
  /\ at[o][Leader].pc \in {"idle", "wired", "local", "replied"}
  /\ via[o] # Leader /\ at[o][Leader].pc # "idle"
       => at[o][via[o]].pc \in {"awaiting", "cache", "replied"}

Declining(o, n) == at[o][n].pc = "replied" /\ at[o][n].reply.kind = "declined"

Sealed(o) ==
  /\ \A p \in took[o] : at[o][p[2]].pc = "replied" /\ at[o][p[2]].reply.kind = "ok"
  /\ at[o][Leader].pc = "replied" => at[o][Leader].reply.kind = "ok"
  /\ Declining(o, via[o]) => at[o][Leader].pc = "idle"
  /\ outcome[o] = "fail" => at[o][via[o]].pc = "idle" \/ Declining(o, via[o])

SealInv ==
  \A o \in Ops : IF outcome[o] = "idle" THEN Untouched(o) ELSE OneHop(o) /\ Sealed(o)

(* A cached register is as old as it has to be and no older.  The replies  *)
(* of forwards that overlapped may be cached in another order than the     *)
(* leader applied them, but never one that ended before another began: of  *)
(* what this node has heard since it last changed the register by itself   *)
(* or dropped its cache, it holds what the leader's register held after    *)
(* one of the operations no other was forwarded after                      *)
(* (forward.go:109-110, 118-125, 156-179, 260).                            *)
Heard(n, k)  == {o \in heard[n] : request[o].key = k}
Newest(n, k) == {o \in Heard(n, k) : \A p \in Heard(n, k) : o \notin knew[p]}

StaleOnlyByOverlap ==
  \A n \in Nodes, k \in Registers :
    Heard(n, k) # {} => \E o \in Newest(n, k) : cache[n][k] = left[o]

(* Whatever /configure has switched meanwhile and in whatever order the    *)
(* concurrent requests were sent, the forward that ends last decides: a    *)
(* success makes the node a follower again, a failure leaves it promoted   *)
(* or promotes it, and the latter exactly when promotion is on and the     *)
(* last promoteAfter forwards failed running (forward.go:43-48, 156-196).  *)
LastFailed(s, k) == Len(s) >= k /\ \A i \in 1..k : ~s[Len(s) + 1 - i]

PromotedByStreak ==
  [][\A n \in Nodes : Len(streak'[n]) > Len(streak[n]) =>
       promoted'[n] = /\ LastFailed(streak'[n], 1)
                      /\ \/ promoted[n]
                         \/ promote[n] /\ LastFailed(streak'[n], promoteAfter[n])]_vars

(* Whatever promotion does, its lies stay in the answers given from a      *)
(* cache.  Take those answers for what they are worth, nothing, and the    *)
(* rest is an atomic store (forward.go:19-29).                             *)
OwnAnswer(o) ==
  /\ via[o] # Leader
  /\ took[o] \cap {<<"cache", via[o]>>, <<"local", via[o]>>} # {}

Effect(o) == IF at[o][Leader].pc = "replied" THEN at[o][Leader].reply.answer ELSE None

Atomic == INSTANCE AtomicStore WITH
  reg     <- local[Leader],
  outcome <- [o \in Ops |-> IF outcome[o] = "ok" /\ OwnAnswer(o) THEN "info" ELSE outcome[o]],
  effect  <- [o \in Ops |-> Effect(o)],
  answer  <- [o \in Ops |-> IF outcome[o] = "ok" /\ OwnAnswer(o) THEN None ELSE answer[o]]

ImplementsAtomicStore == Atomic!Spec

=============================================================================
