-------------------------- MODULE ForwardStoreProofs --------------------------
(***************************************************************************)
(* For any number of nodes and operations, any configurations, promotion   *)
(* on or off: ForwardStore is type correct, never reports a failure it     *)
(* cannot be sure of, lets a cache lag only behind an overlapping request, *)
(* takes a follower's role from its streak of failures, and implements the *)
(* atomic store.                                                           *)
(***************************************************************************)
EXTENDS ForwardStore, TLAPS

-----------------------------------------------------------------------------
(***************************************************************************)
(* The operators on a request and a value keep to their types.             *)
(***************************************************************************)

(* Answering a request about an integer gives an answer (single.go:39-62). *)
LEMMA AnswerType ==
  ASSUME NEW r \in Requests, NEW held \in Int
  PROVE  Answer(r, held) \in Answers
<1> USE RequestsAssumption
<1>1. CASE r.kind = "write"
  BY <1>1 DEF Answer, Reply, Answers, InitialValue
<1>2. CASE r.kind = "cas"
  BY <1>2 DEF Answer, Reply, Answers, InitialValue
<1>3. CASE r.kind # "write" /\ r.kind # "cas"
  BY <1>3 DEF Answer, Reply, Answers
<1> QED BY <1>1, <1>2, <1>3

(* What a request puts into a register is an integer, and it names one.    *)
LEMMA PutType ==
  ASSUME NEW r \in Requests
  PROVE  Put(r) \in Int /\ r.key \in Registers /\ r.kind \in Kinds
BY RequestsAssumption DEF Put

(* Caching an answer that said ok keeps the cache well typed               *)
(* (forward.go:166-179).                                                   *)
LEMMA CachedType ==
  ASSUME NEW r \in Requests, NEW held \in Int \cup {Absent},
         NEW reply, reply.answer \in Answers
  PROVE  Cached(held, r, reply) \in Int \cup {Absent}
<1> USE RequestsAssumption
<1>1. CASE r.kind = "read"
  BY <1>1 DEF Cached, Answers
<1>2. CASE r.kind = "write"
  BY <1>2 DEF Cached
<1>3. CASE r.kind = "cas"
  BY <1>3 DEF Cached
<1> QED BY <1>1, <1>2, <1>3 DEF Kinds

(* The replies that are not answers, and the handlers not yet replied.     *)
LEMMA HandlerTypes ==
  /\ Idle \in Handler /\ Wired \in Handler
  /\ \A h \in Handler : Returned(h, Declined) \in Handler /\ Returned(h, Unknown) \in Handler
  /\ \A h \in Handler, a \in Answers : Returned(h, Ok(a)) \in Handler
  /\ \A h, g \in Handler : Returned(h, g.reply) \in Handler
<1>1. Idle \in Handler /\ Wired \in Handler
  BY DEF Handler, Idle, Wired, NoReply
<1>2. ASSUME NEW h \in Handler PROVE Returned(h, Declined) \in Handler /\ Returned(h, Unknown) \in Handler
  BY DEF Handler, Returned, Declined, Unknown
<1>3. ASSUME NEW h \in Handler, NEW a \in Answers PROVE Returned(h, Ok(a)) \in Handler
  BY DEF Handler, Returned, Ok
<1>4. ASSUME NEW h \in Handler, NEW g \in Handler PROVE Returned(h, g.reply) \in Handler
  BY DEF Handler, Returned
<1> QED BY <1>1, <1>2, <1>3, <1>4

(* A handler that returns has replied, and with what it returns.           *)
LEMMA ReturnedReply ==
  ASSUME NEW h \in Handler, NEW reply
  PROVE  Returned(h, reply).pc = "replied" /\ Returned(h, reply).reply = reply
BY DEF Handler, Returned

-----------------------------------------------------------------------------
(***************************************************************************)
(* Type correctness, one lemma per group of actions.                       *)
(***************************************************************************)

(* The nodes start wired, everything else empty.                           *)
LEMMA TypeInit == Init => StateOK
<1> SUFFICES ASSUME Init PROVE StateOK
  OBVIOUS
<1>1. NodesOK
  BY ConfigAssumption DEF Init, NodesOK, InitialValue
<1>2. ClientsOK
  BY DEF Init, ClientsOK
<1>3. HandlersOK
  <2>1. Idle \in Handler /\ Idle.reply.kind # "ok" /\ Idle.pc = "idle"
    BY HandlerTypes DEF Idle, NoReply
  <2>2. at \in [Ops -> [Nodes -> Handler]] /\ \A o \in Ops, n \in Nodes : at[o][n] = Idle
    BY <2>1 DEF Init
  <2>3. took \in [Ops -> SUBSET ({"local", "cache"} \X Nodes)]
    BY DEF Init
  <2>4. streak \in [Nodes -> Seq(BOOLEAN)]
    BY DEF Init
  <2> QED BY <2>1, <2>2, <2>3, <2>4 DEF HandlersOK
<1> QED BY <1>1, <1>2, <1>3 DEF StateOK

(* Client.Do's steps (client.go:161-271).                                  *)
LEMMA TypeClient ==
  ASSUME StateOK, NEW o \in Ops, Client(o)
  PROVE  StateOK'
<1> USE DEF StateOK
<1>1. ASSUME NEW n \in Nodes, NEW r \in Requests, Issue(o, n, r) PROVE StateOK'
  <2>1. NodesOK'
    BY <1>1 DEF Issue, NodesOK, nodeVars
  <2>2. ClientsOK'
    BY <1>1 DEF Issue, ClientsOK
  <2>3. HandlersOK'
    BY <1>1 DEF Issue, HandlersOK
  <2> QED BY <2>1, <2>2, <2>3
<1>2. ASSUME Send(o) PROVE StateOK'
  <2>1. NodesOK'
    BY <1>2 DEF Send, NodesOK, nodeVars
  <2>2. ClientsOK'
    BY <1>2 DEF Send, ClientsOK, clientVars
  <2>3. HandlersOK'
    <3>1. via[o] \in Nodes /\ outcome[o] # "idle"
      BY <1>2 DEF Send, Unsent, ClientsOK
    <3>2. Wired \in Handler /\ Wired.reply.kind # "ok"
      BY HandlerTypes DEF Wired, Idle, NoReply
    <3> QED BY <1>2, <3>1, <3>2 DEF Send, HandlersOK, clientVars
  <2> QED BY <2>1, <2>2, <2>3
<1>3. ASSUME NeverSent(o) \/ GiveUp(o) PROVE StateOK'
  <2>1. NodesOK'
    BY <1>3 DEF NeverSent, GiveUp, NodesOK, nodeVars
  <2>2. ClientsOK'
    BY <1>3 DEF NeverSent, GiveUp, Unsent, ClientsOK, Outcomes
  <2>3. HandlersOK'
    BY <1>3 DEF NeverSent, GiveUp, Unsent, HandlersOK, ClientsOK
  <2> QED BY <2>1, <2>2, <2>3
<1>4. ASSUME Receive(o) PROVE StateOK'
  <2>1. NodesOK'
    BY <1>4 DEF Receive, NodesOK, nodeVars
  <2>2. ClientsOK'
    <3>1. outcome[o] # "idle" /\ via[o] \in Nodes
      BY <1>4 DEF Receive, ClientsOK
    <3>2. at[o][via[o]].reply.answer \in Answers \cup {None}
      BY <3>1 DEF HandlersOK, Handler
    <3>3. OutcomeOf(at[o][via[o]].reply) \in Outcomes
      BY DEF OutcomeOf, Outcomes
    <3> QED BY <1>4, <3>1, <3>2, <3>3 DEF Receive, ClientsOK
  <2>3. HandlersOK'
    BY <1>4 DEF Receive, HandlersOK, OutcomeOf
  <2> QED BY <2>1, <2>2, <2>3
<1> QED BY <1>1, <1>2, <1>3, <1>4 DEF Client

(* Replacing one handler of an issued operation keeps the handlers' types. *)
LEMMA HandlerUpdate ==
  ASSUME HandlersOK, NEW o \in Ops, NEW n \in Nodes, NEW h \in Handler,
         outcome[o] # "idle",
         h.reply.kind = "ok" => h.reply.answer \in Answers,
         at' = [at EXCEPT ![o][n] = h], UNCHANGED outcome,
         took' \in [Ops -> SUBSET ({"local", "cache"} \X Nodes)],
         streak' \in [Nodes -> Seq(BOOLEAN)]
  PROVE  HandlersOK'
<1>1. at' \in [Ops -> [Nodes -> Handler]]
  BY DEF HandlersOK
<1>2. ASSUME NEW p \in Ops, NEW m \in Nodes
      PROVE  /\ at'[p][m].reply.kind = "ok" => at'[p][m].reply.answer \in Answers
             /\ at'[p][m].pc # "idle" => outcome'[p] # "idle"
  <2>1. CASE p = o /\ m = n
    BY <2>1 DEF HandlersOK
  <2>2. CASE ~(p = o /\ m = n)
    <3>1. at'[p][m] = at[p][m]
      BY <2>2 DEF HandlersOK
    <3> QED BY <3>1 DEF HandlersOK
  <2> QED BY <2>1, <2>2
<1> QED BY <1>1, <1>2 DEF HandlersOK

(* The steps of Apply that touch only the handlers (forward.go:98-105).    *)
LEMMA TypeTakeUp ==
  ASSUME StateOK, NEW o \in Ops, NEW n \in Nodes,
         Lead(o, n) \/ Forward(o, n) \/ ForwardRefused(o, n)
  PROVE  StateOK'
<1> USE DEF StateOK
<1>1. NodesOK' /\ ClientsOK'
  BY DEF Lead, Forward, ForwardRefused, NodesOK, ClientsOK, nodeVars, clientVars
<1>2. at[o][n].pc = "wired"
  BY DEF Lead, Forward, ForwardRefused
<1>3. /\ outcome[o] # "idle" /\ at[o][n] \in Handler /\ promoted[n] \in BOOLEAN
      /\ at[o][n].reply.kind = "ok" => at[o][n].reply.answer \in Answers
  BY <1>2 DEF HandlersOK, NodesOK
<1>4. UNCHANGED <<outcome, took, streak>>
  BY DEF Lead, Forward, ForwardRefused, clientVars
<1>5. ASSUME NEW pc \in {"local", "awaiting", "refused"}, NEW b \in BOOLEAN,
             NEW h, h = [at[o][n] EXCEPT !.pc = pc, !.alone = b]
      PROVE  h \in Handler /\ h.reply = at[o][n].reply
  BY <1>3, <1>5 DEF Handler
<1>6. took' \in [Ops -> SUBSET ({"local", "cache"} \X Nodes)] /\ streak' \in [Nodes -> Seq(BOOLEAN)]
  BY <1>4 DEF HandlersOK
<1>7. CASE Lead(o, n)
  <2> DEFINE h == [at[o][n] EXCEPT !.pc = "local"]
  <2>1. h \in Handler /\ h.reply = at[o][n].reply
    BY <1>3 DEF Handler
  <2>2. at' = [at EXCEPT ![o][n] = h]
    BY <1>7 DEF Lead, HandlersOK
  <2> HIDE DEF h
  <2> QED BY <1>1, <1>3, <1>4, <1>6, <2>1, <2>2, HandlerUpdate
<1>8. CASE Forward(o, n)
  <2>1. leader[n] \in Nodes
    BY <1>8, ConfigAssumption DEF Forward, NodesOK
  <2>2. Wired \in Handler /\ Wired.reply.kind # "ok"
    BY HandlerTypes DEF Wired, Idle, NoReply
  <2> DEFINE h == [at[o][n] EXCEPT !.pc = "awaiting", !.alone = promoted[n]]
  <2>3. h \in Handler /\ h.reply = at[o][n].reply
    BY <1>3, <1>5
  <2>4. at' = [at EXCEPT ![o][n] = h, ![o][leader[n]] = Wired]
    BY <1>8 DEF Forward
  <2> HIDE DEF h
  <2>5. at' \in [Ops -> [Nodes -> Handler]]
    BY <2>1, <2>2, <2>3, <2>4 DEF HandlersOK
  <2>6. ASSUME NEW p \in Ops, NEW m \in Nodes
        PROVE  \/ at'[p][m] = at[p][m]
               \/ p = o /\ at'[p][m] \in {h, Wired}
    BY <2>1, <2>4 DEF HandlersOK
  <2>7. ASSUME NEW p \in Ops, NEW m \in Nodes
        PROVE  /\ at'[p][m].reply.kind = "ok" => at'[p][m].reply.answer \in Answers
               /\ at'[p][m].pc # "idle" => outcome'[p] # "idle"
    BY <1>3, <1>4, <2>2, <2>3, <2>6 DEF HandlersOK
  <2> QED BY <1>1, <1>6, <2>5, <2>7 DEF HandlersOK
<1>9. CASE ForwardRefused(o, n)
  <2> DEFINE h == [at[o][n] EXCEPT !.pc = "refused", !.alone = promoted[n]]
  <2>1. h \in Handler /\ h.reply = at[o][n].reply
    BY <1>3, <1>5
  <2>2. at' = [at EXCEPT ![o][n] = h]
    BY <1>9 DEF ForwardRefused
  <2> HIDE DEF h
  <2> QED BY <1>1, <1>3, <1>4, <1>6, <2>1, <2>2, HandlerUpdate
<1> QED BY <1>7, <1>8, <1>9

(* The steps that answer (single.go:39-62, forward.go:156-221).            *)
Run(o, n) ==
  ApplyLocal(o, n) \/ ForwardSucceeded(o, n) \/ ForwardFailed(o, n) \/ ServeFromCache(o, n)

(* They keep the types, whichever map they change.                         *)
LEMMA TypeAnswer ==
  ASSUME StateOK, NEW o \in Ops, NEW n \in Nodes, Run(o, n)
  PROVE  StateOK'
<1> USE DEF StateOK
<1> DEFINE r == request[o]
<1>1. at[o][n] \in Handler /\ outcome[o] # "idle" /\ r \in Requests /\ r.key \in Registers
  <2>1. at[o][n].pc # "idle"
    BY DEF Run, ApplyLocal, ForwardSucceeded, ForwardFailed, ServeFromCache, MayFail
  <2>2. at[o][n] \in Handler /\ outcome[o] # "idle"
    BY <2>1 DEF HandlersOK
  <2>3. r \in Requests
    BY <2>2 DEF ClientsOK
  <2> QED BY <2>2, <2>3, PutType
<1>2. ClientsOK' /\ UNCHANGED outcome
  BY DEF Run, ApplyLocal, ForwardSucceeded, ForwardFailed, ServeFromCache, ClientsOK, clientVars
<1>4. Put(r) \in Int
  BY <1>1, PutType
<1>5. CASE ApplyLocal(o, n)
  <2> DEFINE a == Answer(r, local[n][r.key])
             h == Returned(at[o][n], Ok(a))
  <2>1. local[n][r.key] \in Int
    BY <1>1 DEF NodesOK
  <2>2. a \in Answers
    BY <1>1, <2>1, AnswerType
  <2>3. h \in Handler /\ h.reply.kind = "ok" /\ h.reply.answer = a
    <3>1. h \in Handler
      BY <1>1, <2>2, HandlerTypes
    <3>2. h.reply = Ok(a)
      BY <1>1, ReturnedReply
    <3> QED BY <3>1, <3>2 DEF Ok
  <2>4. at' = [at EXCEPT ![o][n] = h]
    BY <1>5 DEF ApplyLocal
  <2>5. NodesOK'
    BY <1>1, <1>4, <1>5 DEF ApplyLocal, NodesOK
  <2>6. took' \in [Ops -> SUBSET ({"local", "cache"} \X Nodes)] /\ streak' \in [Nodes -> Seq(BOOLEAN)]
    BY <1>5 DEF ApplyLocal, HandlersOK
  <2> HIDE DEF a, h
  <2> QED BY <1>1, <1>2, <2>2, <2>3, <2>4, <2>5, <2>6, HandlerUpdate
<1>6. CASE ServeFromCache(o, n)
  <2> DEFINE held == IF cache[n][r.key] = Absent THEN InitialValue ELSE cache[n][r.key]
             a == Answer(r, held)
             h == Returned(at[o][n], Ok(a))
  <2>1. held \in Int
    BY <1>1 DEF NodesOK, InitialValue
  <2>2. a \in Answers
    BY <1>1, <2>1, AnswerType
  <2>3. h \in Handler /\ h.reply.kind = "ok" /\ h.reply.answer = a
    <3>1. h \in Handler
      BY <1>1, <2>2, HandlerTypes
    <3>2. h.reply = Ok(a)
      BY <1>1, ReturnedReply
    <3> QED BY <3>1, <3>2 DEF Ok
  <2>4. at' = [at EXCEPT ![o][n] = h]
    BY <1>6 DEF ServeFromCache
  <2>5. NodesOK'
    BY <1>1, <1>4, <1>6 DEF ServeFromCache, NodesOK
  <2>6. took' \in [Ops -> SUBSET ({"local", "cache"} \X Nodes)] /\ streak' \in [Nodes -> Seq(BOOLEAN)]
    BY <1>6 DEF ServeFromCache, HandlersOK
  <2> HIDE DEF a, h
  <2> QED BY <1>1, <1>2, <2>2, <2>3, <2>4, <2>5, <2>6, HandlerUpdate
<1>7. CASE ForwardSucceeded(o, n)
  <2> DEFINE reply == at[o][Leader].reply
             h == Returned(at[o][n], reply)
  <2>1. at[o][Leader] \in Handler /\ (reply.kind = "ok" => reply.answer \in Answers)
    BY ConfigAssumption DEF HandlersOK
  <2>2. h \in Handler /\ h.reply = reply
    BY <1>1, <2>1, HandlerTypes, ReturnedReply
  <2>3. at' = [at EXCEPT ![o][n] = h]
    BY <1>7 DEF ForwardSucceeded
  <2>4. cache' \in [Nodes -> [Registers -> Int \cup {Absent}]]
    <3>1. ASSUME reply.kind = "ok"
          PROVE  Cached(cache[n][r.key], r, reply) \in Int \cup {Absent}
      BY <3>1, <1>1, <2>1, CachedType DEF NodesOK
    <3> HIDE DEF reply
    <3> QED BY <1>1, <1>7, <3>1 DEF ForwardSucceeded, NodesOK, reply
  <2>5. failures' \in [Nodes -> Nat] /\ promoted' \in [Nodes -> BOOLEAN]
    BY <1>7 DEF ForwardSucceeded, NodesOK, CountAfterSuccess
  <2>6. NodesOK'
    BY <1>7, <2>4, <2>5 DEF ForwardSucceeded, NodesOK
  <2>7. took' \in [Ops -> SUBSET ({"local", "cache"} \X Nodes)] /\ streak' \in [Nodes -> Seq(BOOLEAN)]
    BY <1>7 DEF ForwardSucceeded, HandlersOK
  <2> HIDE DEF h
  <2> QED BY <1>1, <1>2, <2>1, <2>2, <2>3, <2>6, <2>7, HandlerUpdate
<1>8. CASE ForwardFailed(o, n)
  <2> DEFINE serving == at[o][n].alone \/ promoted[n] \/ CountsEnough(n)
             h == IF serving THEN [at[o][n] EXCEPT !.pc = "cache"]
                  ELSE Returned(at[o][n], Failure(at[o][n]))
  <2>1. /\ [at[o][n] EXCEPT !.pc = "cache"] \in Handler
        /\ [at[o][n] EXCEPT !.pc = "cache"].reply = at[o][n].reply
    BY <1>1 DEF Handler
  <2>2. /\ Returned(at[o][n], Failure(at[o][n])) \in Handler
        /\ Returned(at[o][n], Failure(at[o][n])).reply.kind # "ok"
    <3>1. Failure(at[o][n]) \in {Declined, Unknown}
      BY DEF Failure
    <3>2. Failure(at[o][n]).kind # "ok"
      BY <3>1 DEF Declined, Unknown
    <3>3. Returned(at[o][n], Failure(at[o][n])) \in Handler
      BY <1>1, <3>1, HandlerTypes
    <3>4. Returned(at[o][n], Failure(at[o][n])).reply = Failure(at[o][n])
      BY <1>1, ReturnedReply
    <3> QED BY <3>2, <3>3, <3>4
  <2>3. h \in Handler /\ (h.reply.kind = "ok" => h.reply.answer \in Answers)
    BY <1>1, <2>1, <2>2 DEF HandlersOK
  <2>4. at' = [at EXCEPT ![o][n] = h]
    BY <1>8 DEF ForwardFailed
  <2>5. failures' \in [Nodes -> Nat] /\ promoted' \in [Nodes -> BOOLEAN]
    BY <1>8 DEF ForwardFailed, NodesOK, CountsEnough
  <2>6. NodesOK'
    BY <1>8, <2>5 DEF ForwardFailed, NodesOK
  <2>7. took' \in [Ops -> SUBSET ({"local", "cache"} \X Nodes)] /\ streak' \in [Nodes -> Seq(BOOLEAN)]
    BY <1>8 DEF ForwardFailed, HandlersOK
  <2> HIDE DEF h
  <2> QED BY <1>1, <1>2, <2>3, <2>4, <2>6, <2>7, HandlerUpdate
<1> QED BY <1>5, <1>6, <1>7, <1>8 DEF Run

(* Configure (forward.go:235-276): a threshold it accepts is positive.     *)
LEMMA TypeConfigure ==
  ASSUME StateOK, NEW c \in Configs, Configure(c)
  PROVE  StateOK'
<1> USE DEF StateOK
<1> DEFINE n == c.node
<1>1. /\ n \in Nodes /\ c.leader \subseteq {Leader, None} /\ c.promote \subseteq BOOLEAN
      /\ c.promoteAfter \subseteq Nat \ {0}
      /\ n = Leader => Leader \notin c.leader
  BY ConfigAssumption DEF Configure, Acceptable
<1>2. ClientsOK' /\ UNCHANGED <<outcome, at, took>>
  BY DEF Configure, ClientsOK, clientVars
<1>3. streak' \in [Nodes -> Seq(BOOLEAN)]
  <2>1. << >> \in Seq(BOOLEAN)
    OBVIOUS
  <2> QED BY <2>1 DEF Configure, HandlersOK
<1>4. HandlersOK'
  BY <1>2, <1>3 DEF HandlersOK
<1>5. leader' \in [Nodes -> {Leader, None}] /\ leader'[Leader] = None
  <2>1. ASSUME c.leader # {} PROVE (CHOOSE m \in c.leader : TRUE) \in c.leader
    BY <2>1
  <2>2. leader' = [leader EXCEPT ![n] = IF c.leader # {} THEN CHOOSE m \in c.leader : TRUE ELSE @]
    BY DEF Configure
  <2>3. (CHOOSE m \in c.leader : TRUE) \in {Leader, None} \/ c.leader = {}
    BY <1>1, <2>1
  <2>4. n = Leader => c.leader = {} \/ (CHOOSE m \in c.leader : TRUE) = None
    BY <1>1, <2>1
  <2> HIDE DEF n
  <2> QED BY <1>1, <2>2, <2>3, <2>4, ConfigAssumption DEF NodesOK
<1>6. promoteAfter' \in [Nodes -> Nat \ {0}]
  <2>1. ASSUME c.promoteAfter # {}
        PROVE  (CHOOSE k \in c.promoteAfter : TRUE) \in Nat \ {0}
    BY <1>1, <2>1
  <2>2. promoteAfter' = [promoteAfter EXCEPT ![n] =
                           IF c.promoteAfter = {} THEN @ ELSE CHOOSE k \in c.promoteAfter : TRUE]
    BY DEF Configure
  <2> QED BY <1>1, <2>1, <2>2 DEF NodesOK
<1>7. promote' \in [Nodes -> BOOLEAN]
  <2> DEFINE b == IF c.promote = {} THEN promote[n] ELSE TRUE \in c.promote
  <2>1. b \in BOOLEAN
    <3>1. promote[n] \in BOOLEAN
      BY <1>1 DEF NodesOK
    <3>2. (TRUE \in c.promote) \in BOOLEAN
      OBVIOUS
    <3> QED BY <3>1, <3>2, Zenon
  <2>2. promote' = [promote EXCEPT ![n] = b]
    BY DEF Configure
  <2> HIDE DEF b
  <2> QED BY <1>1, <2>1, <2>2 DEF NodesOK
<1>8. promoted' \in [Nodes -> BOOLEAN]
  BY <1>1 DEF Configure, NodesOK
<1>9. failures' \in [Nodes -> Nat]
  BY <1>1 DEF Configure, NodesOK
<1>10. cache' \in [Nodes -> [Registers -> Int \cup {Absent}]] /\ local' = local
  <2> DEFINE blank == [k \in Registers |-> Absent]
  <2>1. blank \in [Registers -> Int \cup {Absent}]
    OBVIOUS
  <2>2. cache' = cache \/ cache' = [cache EXCEPT ![n] = blank]
    BY DEF Configure
  <2> HIDE DEF blank
  <2> QED BY <1>1, <2>1, <2>2 DEF Configure, NodesOK
<1>11. NodesOK'
  BY <1>5, <1>6, <1>7, <1>8, <1>9, <1>10 DEF NodesOK
<1> QED BY <1>2, <1>4, <1>11

(* Every step of the store keeps its types.                                *)
LEMMA TypeNext == StateOK /\ [Next]_vars => StateOK'
<1> SUFFICES ASSUME StateOK, [Next]_vars PROVE StateOK'
  OBVIOUS
<1>1. ASSUME NEW o \in Ops, Client(o) PROVE StateOK'
  BY <1>1, TypeClient
<1>2. ASSUME NEW o \in Ops, NEW n \in Nodes, Serve(o, n) PROVE StateOK'
  <2>1. CASE Lead(o, n) \/ Forward(o, n) \/ ForwardRefused(o, n)
    BY <2>1, TypeTakeUp
  <2>2. CASE Run(o, n)
    BY <2>2, TypeAnswer
  <2> QED BY <1>2, <2>1, <2>2 DEF Serve, Run
<1>3. ASSUME NEW c \in Configs, Configure(c) PROVE StateOK'
  BY <1>3, TypeConfigure
<1>4. CASE UNCHANGED vars
  BY <1>4 DEF StateOK, NodesOK, ClientsOK, HandlersOK, vars, nodeVars, clientVars
<1> QED BY <1>1, <1>2, <1>3, <1>4 DEF Next

(* The history variables are well typed at first and stay so.              *)
LEMMA PastInit == Init => PastOK
BY DEF Init, PastOK

LEMMA PastNext == StateOK /\ PastOK /\ [Next]_vars => PastOK'
<1> SUFFICES ASSUME StateOK, PastOK, [Next]_vars PROVE PastOK'
  OBVIOUS
<1> USE DEF PastOK
<1>1. ASSUME UNCHANGED past PROVE PastOK'
  BY <1>1 DEF past
<1>2. ASSUME NEW o \in Ops, Client(o) PROVE PastOK'
  BY <1>1, <1>2 DEF Client, Issue, Send, NeverSent, Receive, GiveUp
<1>3. ASSUME NEW o \in Ops, NEW n \in Nodes, Lead(o, n) \/ ForwardRefused(o, n) \/ ForwardFailed(o, n)
      PROVE  PastOK'
  BY <1>1, <1>3 DEF Lead, ForwardRefused, ForwardFailed
<1>4. ASSUME NEW o \in Ops, NEW n \in Nodes, Forward(o, n) PROVE PastOK'
  BY <1>4 DEF Forward
<1>5. ASSUME NEW o \in Ops, NEW n \in Nodes, ApplyLocal(o, n) PROVE PastOK'
  <2>1. request[o] \in Requests
    BY <1>5 DEF ApplyLocal, StateOK, HandlersOK, ClientsOK
  <2>2. request[o].key \in Registers
    BY <2>1, PutType
  <2>3. StateOK'
    BY <1>5, TypeAnswer DEF Run
  <2>4. local'[n][request[o].key] \in Int
    BY <2>2, <2>3 DEF StateOK, NodesOK
  <2> QED BY <1>5, <2>4 DEF ApplyLocal
<1>6. ASSUME NEW o \in Ops, NEW n \in Nodes, ForwardSucceeded(o, n) PROVE PastOK'
  BY <1>6 DEF ForwardSucceeded
<1>7. ASSUME NEW o \in Ops, NEW n \in Nodes, ServeFromCache(o, n) PROVE PastOK'
  BY <1>7 DEF ServeFromCache
<1>8. ASSUME NEW c \in Configs, Configure(c) PROVE PastOK'
  BY <1>8 DEF Configure
<1>9. CASE UNCHANGED vars
  BY <1>1, <1>9 DEF vars
<1> QED BY <1>2, <1>3, <1>4, <1>5, <1>6, <1>7, <1>8, <1>9 DEF Next, Serve

(* The state of the nodes, of the clients and of every handler is always   *)
(* well formed, whatever configurations arrive (forward.go:57-73).         *)
THEOREM ForwardTypes == Spec => []TypeOK
<1>1. Init => TypeOK
  BY TypeInit, PastInit DEF TypeOK
<1>2. TypeOK /\ [Next]_vars => TypeOK'
  BY TypeNext, PastNext DEF TypeOK
<1> QED BY <1>1, <1>2, PTL DEF Spec

-----------------------------------------------------------------------------
(***************************************************************************)
(* A failure is definite.  SealInv is the inductive invariant.             *)
(***************************************************************************)

(* Nothing has been sent in the beginning.                                 *)
LEMMA SealInit == Init => SealInv
BY ConfigAssumption DEF Init, SealInv, Untouched, Idle

(* The other operations are not affected by a step of one.                 *)
LEMMA SealOthers ==
  ASSUME SealInv, NEW p \in Ops,
         outcome'[p] = outcome[p], via'[p] = via[p], at'[p] = at[p], took'[p] = took[p]
  PROVE  IF outcome'[p] = "idle" THEN Untouched(p)' ELSE OneHop(p)' /\ Sealed(p)'
BY DEF SealInv, Untouched, OneHop, Sealed, Declining

(* What the client does leaves the handlers alone or starts the first.     *)
LEMMA SealClient ==
  ASSUME StateOK, SealInv, NEW o \in Ops, Client(o)
  PROVE  SealInv'
<1>1. ASSUME NEW p \in Ops \ {o}
      PROVE  IF outcome'[p] = "idle" THEN Untouched(p)' ELSE OneHop(p)' /\ Sealed(p)'
  <2>1. outcome'[p] = outcome[p] /\ via'[p] = via[p] /\ at'[p] = at[p] /\ took'[p] = took[p]
    BY DEF Client, Issue, Send, NeverSent, Receive, GiveUp, StateOK, ClientsOK, HandlersOK, clientVars
  <2> QED BY <2>1, SealOthers
<1>2. ASSUME NEW n \in Nodes, NEW r \in Requests, Issue(o, n, r)
      PROVE  outcome'[o] # "idle" /\ OneHop(o)' /\ Sealed(o)'
  <2>1. Untouched(o) /\ at'[o] = at[o] /\ took'[o] = took[o]
    BY <1>2 DEF Issue, SealInv
  <2>2. outcome'[o] = "open" /\ via'[o] = n
    BY <1>2 DEF Issue, StateOK, ClientsOK
  <2> QED BY <2>1, <2>2, ConfigAssumption DEF Untouched, OneHop, Sealed, Declining
<1>3. ASSUME outcome[o] # "idle"
      PROVE  OneHop(o) /\ Sealed(o) /\ via[o] \in Nodes
  BY <1>3 DEF SealInv, StateOK, ClientsOK
<1>4. ASSUME Send(o) PROVE outcome'[o] # "idle" /\ OneHop(o)' /\ Sealed(o)'
  <2>1. outcome[o] = "open" /\ at[o][via[o]].pc = "idle" /\ UNCHANGED <<outcome, via, took>>
    BY <1>4 DEF Send, Unsent, clientVars
  <2>2. OneHop(o) /\ Sealed(o) /\ via[o] \in Nodes
    BY <1>3, <2>1
  <2>3. at'[o] = [at[o] EXCEPT ![via[o]] = Wired] /\ DOMAIN at[o] = Nodes
    BY <1>4 DEF Send, StateOK, HandlersOK
  <2>4. at'[o][via[o]] = Wired /\ \A m \in Nodes \ {via[o]} : at'[o][m] = at[o][m]
    BY <2>2, <2>3
  <2>5. Wired.pc = "wired"
    BY DEF Wired, Idle
  <2>6. OneHop(o)'
    BY <2>1, <2>2, <2>4, <2>5, ConfigAssumption DEF OneHop
  <2>7. ASSUME NEW q \in took[o] PROVE q[2] \in Nodes \ {via[o]}
    BY <2>1, <2>2, <2>7 DEF Sealed, StateOK, HandlersOK
  <2>8. Sealed(o)'
    BY <2>1, <2>2, <2>4, <2>5, <2>7, ConfigAssumption DEF Sealed, OneHop, Declining
  <2> QED BY <2>1, <2>6, <2>8
<1>5. ASSUME NeverSent(o) \/ Receive(o) \/ GiveUp(o)
      PROVE  outcome'[o] # "idle" /\ OneHop(o)' /\ Sealed(o)'
  <2>1. /\ outcome[o] = "open" /\ UNCHANGED <<via, at, took>>
        /\ outcome'[o] # "idle"
        /\ outcome'[o] = "fail" => at[o][via[o]].pc = "idle" \/ Declining(o, via[o])
    BY <1>5 DEF NeverSent, Receive, GiveUp, Unsent, OutcomeOf, Declining, StateOK, ClientsOK
  <2>2. OneHop(o) /\ Sealed(o)
    BY <1>3, <2>1
  <2> QED BY <2>1, <2>2 DEF OneHop, Sealed, Declining
<1> QED BY <1>1, <1>2, <1>4, <1>5 DEF Client, SealInv

(* A forward is the leader's first sight of the operation; a refused one   *)
(* never gets there (forward.go:98-127).                                   *)
LEMMA SealTakeUp ==
  ASSUME StateOK, SealInv, NEW o \in Ops, NEW n \in Nodes,
         Lead(o, n) \/ Forward(o, n) \/ ForwardRefused(o, n)
  PROVE  SealInv'
<1>1. at[o][n].pc = "wired" /\ UNCHANGED <<outcome, via, took>>
  BY DEF Lead, Forward, ForwardRefused, clientVars
<1>2. outcome[o] # "idle" /\ via[o] \in Nodes /\ OneHop(o) /\ Sealed(o) /\ n \in {via[o], Leader}
  BY <1>1 DEF SealInv, Untouched, OneHop, StateOK, ClientsOK
<1>3. ASSUME NEW p \in Ops \ {o}
      PROVE  IF outcome'[p] = "idle" THEN Untouched(p)' ELSE OneHop(p)' /\ Sealed(p)'
  <2>1. at'[p] = at[p]
    BY DEF Lead, Forward, ForwardRefused, StateOK, HandlersOK
  <2> QED BY <1>1, <2>1, SealOthers
<1>4. \A q \in took[o] : q[2] \in Nodes \ {n}
  BY <1>1, <1>2 DEF Sealed, StateOK, HandlersOK
<1>5. CASE Lead(o, n)
  <2>1. at'[o] = [at[o] EXCEPT ![n].pc = "local"] /\ DOMAIN at[o] = Nodes
    BY <1>5 DEF Lead, StateOK, HandlersOK
  <2>2. at'[o][n].pc = "local" /\ \A m \in Nodes \ {n} : at'[o][m] = at[o][m]
    BY <2>1 DEF StateOK, HandlersOK, Handler
  <2>3. via[o] # Leader => at[o][Leader].pc = "idle" \/ n = Leader
    BY <1>1, <1>2 DEF OneHop
  <2>4. OneHop(o)'
    BY <1>1, <1>2, <2>2, <2>3, ConfigAssumption DEF OneHop
  <2>5. Sealed(o)'
    BY <1>1, <1>2, <1>4, <2>2, ConfigAssumption DEF Sealed, OneHop, Declining
  <2> QED BY <1>1, <1>2, <1>3, <2>4, <2>5 DEF SealInv
<1>6. CASE Forward(o, n)
  <2>1. n # Leader /\ leader[n] = Leader /\ n = via[o] /\ at[o][Leader].pc = "idle"
    BY <1>1, <1>2, <1>6 DEF Forward, OneHop, StateOK, NodesOK
  <2>2. /\ at'[o] = [at[o] EXCEPT ![n] = [@ EXCEPT !.pc = "awaiting", !.alone = promoted[n]],
                                  ![Leader] = Wired]
        /\ DOMAIN at[o] = Nodes
    BY <1>6, <2>1 DEF Forward, StateOK, HandlersOK
  <2>3. /\ at'[o][n].pc = "awaiting" /\ at'[o][Leader] = Wired
        /\ \A m \in Nodes \ {n, Leader} : at'[o][m] = at[o][m]
    <3> DEFINE h == [at[o][n] EXCEPT !.pc = "awaiting", !.alone = promoted[n]]
    <3>1. h.pc = "awaiting"
      BY DEF StateOK, HandlersOK, Handler
    <3>2. at'[o] = [at[o] EXCEPT ![n] = h, ![Leader] = Wired]
      BY <2>2
    <3> HIDE DEF h
    <3> QED BY <2>1, <2>2, <3>1, <3>2, ConfigAssumption
  <2>4. Wired.pc = "wired"
    BY DEF Wired, Idle
  <2>5. OneHop(o)'
    BY <1>1, <1>2, <2>1, <2>3, <2>4, ConfigAssumption DEF OneHop
  <2>6. \A q \in took[o] : q[2] \in Nodes \ {n, Leader}
    BY <1>2, <1>4, <2>1 DEF Sealed
  <2>7. Sealed(o)'
    BY <1>1, <1>2, <2>1, <2>3, <2>4, <2>6, ConfigAssumption DEF Sealed, OneHop, Declining
  <2> QED BY <1>1, <1>2, <1>3, <2>5, <2>7 DEF SealInv
<1>7. CASE ForwardRefused(o, n)
  <2>1. n # Leader /\ n = via[o] /\ at[o][Leader].pc = "idle"
    BY <1>1, <1>2, <1>7 DEF ForwardRefused, OneHop, StateOK, NodesOK
  <2>2. /\ at'[o] = [at[o] EXCEPT ![n] = [@ EXCEPT !.pc = "refused", !.alone = promoted[n]]]
        /\ DOMAIN at[o] = Nodes
    BY <1>7 DEF ForwardRefused, StateOK, HandlersOK
  <2>3. at'[o][n].pc = "refused" /\ \A m \in Nodes \ {n} : at'[o][m] = at[o][m]
    BY <2>2 DEF StateOK, HandlersOK, Handler
  <2>4. OneHop(o)'
    BY <1>1, <1>2, <2>1, <2>3, ConfigAssumption DEF OneHop
  <2>5. Sealed(o)'
    BY <1>1, <1>2, <1>4, <2>1, <2>3, ConfigAssumption DEF Sealed, OneHop, Declining
  <2> QED BY <1>1, <1>2, <1>3, <2>4, <2>5 DEF SealInv
<1> QED BY <1>5, <1>6, <1>7

(* Applying answers ok, and only a refused dial is declined                *)
(* (forward.go:117-150, single.go:39-62).                                  *)
LEMMA SealAnswer ==
  ASSUME StateOK, SealInv, NEW o \in Ops, NEW n \in Nodes, Run(o, n)
  PROVE  SealInv'
<1>1. /\ at[o][n].pc \in {"local", "awaiting", "refused", "cache"}
      /\ UNCHANGED <<outcome, via>>
  BY DEF Run, ApplyLocal, ForwardSucceeded, ForwardFailed, ServeFromCache, MayFail, clientVars
<1>2. outcome[o] # "idle" /\ via[o] \in Nodes /\ OneHop(o) /\ Sealed(o) /\ n \in {via[o], Leader}
  BY <1>1 DEF SealInv, Untouched, OneHop, StateOK, ClientsOK
<1>3. ASSUME NEW p \in Ops \ {o}
      PROVE  IF outcome'[p] = "idle" THEN Untouched(p)' ELSE OneHop(p)' /\ Sealed(p)'
  <2>1. at'[p] = at[p] /\ took'[p] = took[p]
    BY DEF Run, ApplyLocal, ForwardSucceeded, ForwardFailed, ServeFromCache, StateOK, HandlersOK
  <2> QED BY <1>1, <2>1, SealOthers
<1>4. \A q \in took[o] : q[2] \in Nodes \ {n}
  BY <1>1, <1>2 DEF Sealed, StateOK, HandlersOK
<1>5. CASE ApplyLocal(o, n) \/ ServeFromCache(o, n)
  <2>1. PICK h : /\ at' = [at EXCEPT ![o][n] = h]
                 /\ h.pc = "replied" /\ h.reply.kind = "ok"
    <3>1. \A a : /\ Returned(at[o][n], Ok(a)).pc = "replied"
                 /\ Returned(at[o][n], Ok(a)).reply.kind = "ok"
      BY DEF Returned, Ok, StateOK, HandlersOK, Handler
    <3> QED BY <1>5, <3>1 DEF ApplyLocal, ServeFromCache
  <2>2. at'[o][n] = h /\ \A m \in Nodes \ {n} : at'[o][m] = at[o][m]
    BY <2>1 DEF StateOK, HandlersOK
  <2>3. \A q \in took'[o] : q \in took[o] \/ q[2] = n
    BY <1>5 DEF ApplyLocal, ServeFromCache, StateOK, HandlersOK
  <2>4. OneHop(o)'
    BY <1>1, <1>2, <1>5, <2>1, <2>2, ConfigAssumption DEF OneHop, ApplyLocal, ServeFromCache
  <2>5. outcome[o] # "fail" \/ n # via[o]
    BY <1>1, <1>2 DEF Sealed, Declining
  <2>6. n # via[o] => at[o][via[o]].pc # "idle" /\ ~Declining(o, via[o])
    BY <1>1, <1>2 DEF OneHop, Sealed
  <2>7. Sealed(o)'
    BY <1>1, <1>2, <1>4, <2>1, <2>2, <2>3, <2>5, <2>6, ConfigAssumption DEF Sealed, Declining
  <2> QED BY <1>1, <1>2, <1>3, <2>4, <2>7 DEF SealInv
<1>6. CASE ForwardSucceeded(o, n)
  <2>1. n # Leader /\ n = via[o] /\ at[o][Leader].pc = "replied" /\ at[o][Leader].reply.kind = "ok"
    BY <1>2, <1>6 DEF ForwardSucceeded, Sealed
  <2> DEFINE h == Returned(at[o][n], at[o][Leader].reply)
  <2>2. h.pc = "replied" /\ h.reply.kind = "ok"
    BY <2>1 DEF Returned, StateOK, HandlersOK, Handler
  <2>3. at' = [at EXCEPT ![o][n] = h] /\ took' = took
    BY <1>6 DEF ForwardSucceeded
  <2> HIDE DEF h
  <2>4. at'[o][n] = h /\ \A m \in Nodes \ {n} : at'[o][m] = at[o][m]
    BY <2>3 DEF StateOK, HandlersOK
  <2>5. OneHop(o)'
    BY <1>1, <1>2, <2>1, <2>2, <2>4, ConfigAssumption DEF OneHop
  <2>6. outcome[o] # "fail"
    BY <1>1, <1>2, <2>1 DEF Sealed, Declining
  <2>7. Sealed(o)'
    BY <1>1, <1>2, <1>4, <2>1, <2>2, <2>3, <2>4, <2>6, ConfigAssumption DEF Sealed, Declining
  <2> QED BY <1>1, <1>2, <1>3, <2>5, <2>7 DEF SealInv
<1>7. CASE ForwardFailed(o, n)
  <2>1. at[o][n].pc \in {"awaiting", "refused"} /\ n # Leader /\ n = via[o] /\ took' = took
    BY <1>2, <1>7 DEF ForwardFailed, MayFail, OneHop
  <2>2. PICK h : /\ at' = [at EXCEPT ![o][n] = h]
                 /\ h.pc \in {"cache", "replied"}
                 /\ h.pc = "replied" /\ h.reply.kind = "declined" => at[o][n].pc = "refused"
    <3>1. /\ [at[o][n] EXCEPT !.pc = "cache"].pc = "cache"
          /\ Returned(at[o][n], Failure(at[o][n])).pc = "replied"
          /\ Returned(at[o][n], Failure(at[o][n])).reply.kind = "declined" => at[o][n].pc = "refused"
      BY DEF Returned, Failure, Declined, Unknown, StateOK, HandlersOK, Handler
    <3> QED BY <1>7, <3>1 DEF ForwardFailed
  <2>3. at'[o][n] = h /\ \A m \in Nodes \ {n} : at'[o][m] = at[o][m]
    BY <2>2 DEF StateOK, HandlersOK
  <2>4. at[o][n].pc = "refused" => at[o][Leader].pc = "idle"
    BY <1>2, <2>1 DEF OneHop
  <2>5. OneHop(o)'
    BY <1>1, <1>2, <2>1, <2>2, <2>3, ConfigAssumption DEF OneHop
  <2>6. outcome[o] # "fail"
    BY <1>1, <1>2, <2>1 DEF Sealed, Declining
  <2>7. Sealed(o)'
    BY <1>1, <1>2, <1>4, <2>1, <2>2, <2>3, <2>4, <2>6, ConfigAssumption DEF Sealed, Declining
  <2> QED BY <1>1, <1>2, <1>3, <2>5, <2>7 DEF SealInv
<1> QED BY <1>5, <1>6, <1>7 DEF Run

(* Every step keeps a refusal sealed.                                      *)
LEMMA SealNext == StateOK /\ SealInv /\ [Next]_vars => SealInv'
<1> SUFFICES ASSUME StateOK, SealInv, [Next]_vars PROVE SealInv'
  OBVIOUS
<1>1. ASSUME NEW o \in Ops, Client(o) PROVE SealInv'
  BY <1>1, SealClient
<1>2. ASSUME NEW o \in Ops, NEW n \in Nodes, Serve(o, n) PROVE SealInv'
  <2>1. CASE Lead(o, n) \/ Forward(o, n) \/ ForwardRefused(o, n)
    BY <2>1, SealTakeUp
  <2>2. CASE Run(o, n)
    BY <2>2, SealAnswer
  <2> QED BY <1>2, <2>1, <2>2 DEF Serve, Run
<1>3. ASSUME UNCHANGED <<clientVars, at, took>> PROVE SealInv'
  BY <1>3, SealOthers DEF SealInv, clientVars
<1>4. ASSUME NEW c \in Configs, Configure(c) PROVE SealInv'
  BY <1>3, <1>4 DEF Configure
<1>5. CASE UNCHANGED vars
  BY <1>3, <1>5 DEF vars
<1> QED BY <1>1, <1>2, <1>4, <1>5 DEF Next

(* A sealed refusal was never applied and never will be.                   *)
LEMMA SealSuffices == StateOK /\ SealInv => FailNeverApplied
<1> SUFFICES ASSUME StateOK, SealInv, NEW o \in Ops, outcome[o] = "fail"
             PROVE  /\ took[o] = {}
                    /\ \A n \in Nodes : at[o][n].pc \in {"idle", "replied"}
  BY DEF FailNeverApplied
<1>1. OneHop(o) /\ Sealed(o) /\ via[o] \in Nodes
  BY DEF SealInv, StateOK, ClientsOK
<1>2. at[o][via[o]].pc = "idle" \/ Declining(o, via[o])
  BY <1>1 DEF Sealed
<1>3. \A n \in Nodes \ {via[o]} : at[o][n].pc = "idle"
  BY <1>1, <1>2 DEF OneHop, Sealed, Declining
<1>4. took[o] = {}
  <2>1. ASSUME NEW q \in took[o] PROVE FALSE
    <3>1. q[2] \in Nodes /\ at[o][q[2]].pc = "replied" /\ at[o][q[2]].reply.kind = "ok"
      BY <1>1 DEF Sealed, StateOK, HandlersOK
    <3> QED BY <1>2, <1>3, <3>1 DEF Declining
  <2> QED BY <2>1
<1> QED BY <1>1, <1>2, <1>3, <1>4 DEF Declining

(* Whatever the network, the configurations and promotion do: an operation *)
(* its client records as failed has been applied nowhere, and no handler   *)
(* that could apply it is left (kv.go:98-104, client.go:196-220).          *)
THEOREM FailureIsDefinite == Spec => []FailNeverApplied
<1>1. Init => StateOK /\ SealInv
  BY TypeInit, SealInit
<1>2. StateOK /\ SealInv /\ [Next]_vars => (StateOK /\ SealInv)'
  BY TypeNext, SealNext
<1>3. StateOK /\ SealInv => FailNeverApplied
  BY SealSuffices
<1> QED BY <1>1, <1>2, <1>3, PTL DEF Spec

-----------------------------------------------------------------------------
(***************************************************************************)
(* What a cache holds.  An operation whose answer was cached is over at    *)
(* the leader and at the node that asked, and nothing it left behind is    *)
(* ever rewritten; the leader's answer tells the register it left.         *)
(***************************************************************************)
Over(p) ==
  /\ at[p][Leader].pc = "replied"
  /\ \E m \in Nodes \ {Leader} : at[p][m].pc = "replied"

Told(o) ==
  at[o][Leader].pc = "replied" /\ Tells(request[o], at[o][Leader].reply)
    => \A held : Cached(held, request[o], at[o][Leader].reply) = left[o]

HeardInv ==
  /\ \A n \in Nodes : \A p \in heard[n] : Over(p)
  /\ \A o \in Ops : \A p \in knew[o] : Over(p)
  /\ \A o \in Ops : Told(o)

(* A step of one operation rewrites nothing of another.                    *)
LEMMA OneAtATime ==
  ASSUME StateOK, PastOK, NEW o \in Ops, NEW p \in Ops \ {o},
         Client(o) \/ \E n \in Nodes : Serve(o, n)
  PROVE  at'[p] = at[p] /\ request'[p] = request[p] /\ left'[p] = left[p] /\ knew'[p] = knew[p]
<1>1. CASE Client(o)
  BY <1>1 DEF Client, Issue, Send, NeverSent, Receive, GiveUp, clientVars, past,
     StateOK, ClientsOK, HandlersOK, PastOK
<1>2. ASSUME NEW n \in Nodes, Lead(o, n) \/ Forward(o, n) \/ ForwardRefused(o, n) \/ ForwardFailed(o, n)
      PROVE  at'[p] = at[p] /\ request'[p] = request[p] /\ left'[p] = left[p] /\ knew'[p] = knew[p]
  BY <1>2 DEF Lead, Forward, ForwardRefused, ForwardFailed, clientVars, past, StateOK, HandlersOK, PastOK
<1>3. ASSUME NEW n \in Nodes, ApplyLocal(o, n) \/ ForwardSucceeded(o, n) \/ ServeFromCache(o, n)
      PROVE  at'[p] = at[p] /\ request'[p] = request[p] /\ left'[p] = left[p] /\ knew'[p] = knew[p]
  BY <1>3 DEF ApplyLocal, ForwardSucceeded, ServeFromCache, clientVars, StateOK, HandlersOK, PastOK
<1> QED BY <1>1, <1>2, <1>3 DEF Serve

(* An operation that is over at both ends only waits for its client.       *)
LEMMA OverStays ==
  ASSUME StateOK, PastOK, SealInv, NEW p \in Ops, Over(p), [Next]_vars
  PROVE  /\ at'[p] = at[p] /\ Over(p)'
         /\ request'[p] = request[p] /\ left'[p] = left[p] /\ knew'[p] = knew[p]
<1>1. ASSUME NEW n \in Nodes
      PROVE  at[p][n].pc \in {"idle", "replied"} /\ (n \in {via[p], Leader} => at[p][n].pc = "replied")
  <2>1. OneHop(p)
    BY ConfigAssumption DEF SealInv, Untouched, Over
  <2> QED BY <2>1, ConfigAssumption DEF OneHop, Over
<1>2. outcome[p] # "idle" /\ via[p] \in Nodes
  BY ConfigAssumption DEF Over, StateOK, HandlersOK, ClientsOK
<1>3. CASE \E o \in Ops \ {p} : Client(o) \/ \E n \in Nodes : Serve(o, n)
  BY <1>3, OneAtATime DEF Over
<1>4. CASE Client(p)
  BY <1>1, <1>2, <1>4 DEF Client, Issue, Send, Unsent, NeverSent, Receive, GiveUp, clientVars, past, Over
<1>5. ASSUME NEW n \in Nodes, Serve(p, n) PROVE FALSE
  BY <1>1, <1>5 DEF Serve, Lead, Forward, ForwardRefused, ApplyLocal, ForwardSucceeded, ForwardFailed,
     MayFail, ServeFromCache
<1>6. CASE (\E c \in Configs : Configure(c)) \/ UNCHANGED vars
  BY <1>6 DEF Configure, vars, clientVars, past, Over
<1> QED BY <1>3, <1>4, <1>5, <1>6 DEF Next

(* The leader's answer and the register it left agree, when the leader     *)
(* applies the operation (single.go:39-62, forward.go:168-179).            *)
LEMMA AnswerTells ==
  ASSUME NEW r \in Requests, NEW held \in Int, Tells(r, Ok(Answer(r, held)))
  PROVE  \A old : Cached(old, r, Ok(Answer(r, held))) = IF Changes(r, held) THEN Put(r) ELSE held
<1>1. r.kind \in Kinds
  BY PutType
<1>2. CASE r.kind = "read"
  BY <1>2 DEF Cached, Ok, Answer, Reply, Changes
<1>3. CASE r.kind = "write"
  BY <1>3 DEF Cached, Ok, Answer, Reply, Changes, Put
<1>4. CASE r.kind = "cas"
  BY <1>4 DEF Cached, Ok, Answer, Reply, Changes, Put, Tells
<1> QED BY <1>1, <1>2, <1>3, <1>4 DEF Kinds

(* Nothing is heard, known or told in the beginning.                       *)
LEMMA HeardInit == Init => HeardInv /\ StaleOnlyByOverlap
BY ConfigAssumption DEF Init, HeardInv, Told, StaleOnlyByOverlap, Heard, Idle

(* Only a successful forward is heard, and only what a node has heard is   *)
(* known to the next one it sends on.                                      *)
LEMMA WhatIsNew ==
  ASSUME StateOK, PastOK, [Next]_vars
  PROVE  /\ \A n \in Nodes : \A p \in heard'[n] : p \in heard[n] \/ (p \in Ops /\ ForwardSucceeded(p, n))
         /\ \A o \in Ops : \A p \in knew'[o] : p \in knew[o] \/ \E n \in Nodes : p \in heard[n]
<1> USE DEF PastOK
<1>1. CASE UNCHANGED past
  BY <1>1 DEF past
<1>2. ASSUME NEW o \in Ops, Client(o) PROVE UNCHANGED past
  BY <1>2 DEF Client, Issue, Send, NeverSent, Receive, GiveUp
<1>3. ASSUME NEW o \in Ops, NEW n \in Nodes, Lead(o, n) \/ ForwardRefused(o, n) \/ ForwardFailed(o, n)
      PROVE  UNCHANGED past
  BY <1>3 DEF Lead, ForwardRefused, ForwardFailed
<1>4. ASSUME NEW o \in Ops, NEW n \in Nodes, ApplyLocal(o, n)
      PROVE  heard' = heard /\ knew' = knew
  BY <1>4 DEF ApplyLocal
<1>5. ASSUME NEW o \in Ops, NEW n \in Nodes, Forward(o, n)
      PROVE  heard' = heard /\ knew' = [knew EXCEPT ![o] = heard[n]]
  BY <1>5 DEF Forward
<1>6. ASSUME NEW o \in Ops, NEW n \in Nodes, ForwardSucceeded(o, n)
      PROVE  knew' = knew /\ (heard' = heard \/ heard' = [heard EXCEPT ![n] = @ \cup {o}])
  BY <1>6 DEF ForwardSucceeded
<1>7. ASSUME NEW o \in Ops, NEW n \in Nodes, ServeFromCache(o, n)
      PROVE  knew' = knew /\ \A m \in Nodes : heard'[m] \subseteq heard[m]
  BY <1>7 DEF ServeFromCache
<1>8. ASSUME NEW c \in Configs, Configure(c)
      PROVE  knew' = knew /\ \A m \in Nodes : heard'[m] \subseteq heard[m]
  BY <1>8 DEF Configure
<1>9. UNCHANGED vars => UNCHANGED past
  BY DEF vars
<1> QED BY <1>1, <1>2, <1>3, <1>4, <1>5, <1>6, <1>7, <1>8, <1>9 DEF Next, Serve

(* What is heard and known stays over, and what the leader said stays so.  *)
LEMMA HeardNext ==
  ASSUME StateOK, PastOK, SealInv, HeardInv, [Next]_vars
  PROVE  HeardInv'
<1>1. ASSUME NEW n \in Nodes, NEW p \in heard'[n] PROVE Over(p)'
  <2>1. CASE p \in heard[n]
    BY <2>1, OverStays DEF HeardInv, PastOK
  <2>2. CASE p \notin heard[n]
    <3>1. p \in Ops /\ ForwardSucceeded(p, n)
      BY <1>1, <2>2, WhatIsNew
    <3>2. at[p][Leader].pc = "replied" /\ n # Leader
      BY <3>1 DEF ForwardSucceeded
    <3>3. at'[p][n].pc = "replied" /\ at'[p][Leader] = at[p][Leader]
      <4>1. at' = [at EXCEPT ![p][n] = Returned(at[p][n], at[p][Leader].reply)]
        BY <3>1 DEF ForwardSucceeded
      <4>2. Returned(at[p][n], at[p][Leader].reply).pc = "replied"
        BY <3>1, ReturnedReply DEF StateOK, HandlersOK
      <4> QED BY <3>1, <3>2, <4>1, <4>2, ConfigAssumption DEF StateOK, HandlersOK
    <3> QED BY <3>2, <3>3 DEF Over
  <2> QED BY <2>1, <2>2
<1>2. ASSUME NEW o \in Ops, NEW p \in knew'[o] PROVE Over(p)'
  <2>1. p \in knew[o] \/ \E n \in Nodes : p \in heard[n]
    BY <1>2, WhatIsNew
  <2>2. Over(p) /\ p \in Ops
    BY <2>1 DEF HeardInv, PastOK
  <2> QED BY <2>2, OverStays
<1>3. ASSUME NEW o \in Ops PROVE Told(o)'
  <2>1. CASE UNCHANGED <<at[o], request[o], left[o]>>
    BY <2>1 DEF HeardInv, Told
  <2>2. CASE at'[o][Leader].pc # "replied"
    BY <2>2 DEF Told
  <2>3. CASE ApplyLocal(o, Leader)
    <3> DEFINE r == request[o]
               held == local[Leader][r.key]
    <3>1. r \in Requests
      BY <2>3, ConfigAssumption DEF ApplyLocal, StateOK, HandlersOK, ClientsOK
    <3>2. r.key \in Registers /\ held \in Int
      BY <3>1, PutType, ConfigAssumption DEF StateOK, NodesOK
    <3>3. at'[o][Leader].reply = Ok(Answer(r, held)) /\ request'[o] = r
      BY <2>3, ConfigAssumption DEF ApplyLocal, clientVars, Returned, StateOK, HandlersOK, Handler
    <3>4. local'[Leader][r.key] = IF Changes(r, held) THEN Put(r) ELSE held
      BY <2>3, <3>2, ConfigAssumption DEF ApplyLocal, StateOK, NodesOK
    <3>5. left'[o] = local'[Leader][r.key]
      BY <2>3 DEF ApplyLocal, PastOK
    <3> HIDE DEF r, held
    <3> QED BY <3>1, <3>2, <3>3, <3>4, <3>5, AnswerTells DEF Told
  <2>4. CASE ~ApplyLocal(o, Leader) /\ at'[o][Leader].pc = "replied"
    <3>1. CASE \E p \in Ops \ {o} : Client(p) \/ \E n \in Nodes : Serve(p, n)
      BY <2>1, <3>1, OneAtATime
    <3>2. CASE (\E c \in Configs : Configure(c)) \/ UNCHANGED vars
      BY <2>1, <3>2 DEF Configure, vars, clientVars, past
    <3>3. CASE Client(o)
      <4>1. CASE NeverSent(o) \/ Receive(o) \/ GiveUp(o)
        BY <2>1, <4>1 DEF NeverSent, Receive, GiveUp, past
      <4>2. ASSUME NEW n \in Nodes, NEW r \in Requests, Issue(o, n, r) PROVE FALSE
        <5>1. at[o][Leader].pc = "idle" /\ at' = at
          BY <4>2, ConfigAssumption DEF Issue, SealInv, Untouched
        <5> QED BY <2>4, <5>1
      <4>3. CASE Send(o)
        <5>1. at'[o][Leader] \in {at[o][Leader], Wired} /\ request' = request /\ left' = left
          BY <4>3, ConfigAssumption DEF Send, past, clientVars, StateOK, HandlersOK
        <5>2. at'[o][Leader] = at[o][Leader]
          BY <2>4, <5>1 DEF Wired, Idle
        <5> QED BY <5>1, <5>2 DEF HeardInv, Told
      <4> QED BY <3>3, <4>1, <4>2, <4>3 DEF Client
    <3>4. ASSUME NEW n \in Nodes, Serve(o, n)
          PROVE  at'[o][Leader] = at[o][Leader] /\ request' = request /\ left' = left
      <4>1. at[o][Leader].pc \in {"idle", "wired", "local", "replied"}
        <5>1. at[o][n].pc # "idle"
          BY <3>4 DEF Serve, Lead, Forward, ForwardRefused, ApplyLocal, ForwardSucceeded, ForwardFailed,
             MayFail, ServeFromCache
        <5> QED BY <5>1 DEF SealInv, Untouched, OneHop
      <4>2. CASE n = Leader
        <5>1. leader[Leader] = None
          BY DEF StateOK, NodesOK
        <5>2. Lead(o, Leader)
          BY <2>4, <3>4, <4>1, <4>2, <5>1 DEF Serve, Forward, ForwardRefused, ForwardSucceeded,
             ForwardFailed, MayFail, ServeFromCache
        <5>3. at'[o][Leader].pc = "local"
          BY <5>2, ConfigAssumption DEF Lead, StateOK, HandlersOK, Handler
        <5> QED BY <2>4, <5>3
      <4>3. CASE n # Leader
        <5>1. CASE Forward(o, n)
          <6>1. leader[n] = Leader
            BY <5>1 DEF Forward, StateOK, NodesOK
          <6>2. at'[o][Leader] = Wired
            BY <5>1, <6>1, ConfigAssumption DEF Forward, StateOK, HandlersOK
          <6> QED BY <2>4, <6>2 DEF Wired, Idle
        <5>2. CASE Lead(o, n) \/ ForwardRefused(o, n) \/ ForwardFailed(o, n)
          <6>1. \E h : at' = [at EXCEPT ![o][n] = h]
            BY <5>2 DEF Lead, ForwardRefused, ForwardFailed, StateOK, HandlersOK
          <6>2. at'[o][Leader] = at[o][Leader]
            BY <4>3, <6>1, ConfigAssumption DEF StateOK, HandlersOK
          <6> QED BY <5>2, <6>2 DEF Lead, ForwardRefused, ForwardFailed, past, clientVars
        <5>3. CASE ApplyLocal(o, n) \/ ForwardSucceeded(o, n) \/ ServeFromCache(o, n)
          <6>1. \E h : at' = [at EXCEPT ![o][n] = h]
            BY <5>3 DEF ApplyLocal, ForwardSucceeded, ServeFromCache
          <6>2. at'[o][Leader] = at[o][Leader]
            BY <4>3, <6>1, ConfigAssumption DEF StateOK, HandlersOK
          <6> QED BY <4>3, <5>3, <6>2 DEF ApplyLocal, ForwardSucceeded, ServeFromCache, clientVars
        <5> QED BY <3>4, <5>1, <5>2, <5>3 DEF Serve
      <4> QED BY <4>2, <4>3
    <3>5. ASSUME NEW n \in Nodes, Serve(o, n) PROVE Told(o)'
      BY <3>4, <3>5 DEF HeardInv, Told
    <3> QED BY <3>1, <3>2, <3>3, <3>5 DEF Next
  <2> QED BY <2>3, <2>2, <2>4
<1> QED BY <1>1, <1>2, <1>3 DEF HeardInv

(* A register whose cached copy and whose heard operations are the same    *)
(* after a step is as old as it was.                                       *)
Fresh(n, k) == Heard(n, k) # {} => \E o \in Newest(n, k) : cache[n][k] = left[o]

LEMMA FreshKept ==
  ASSUME StateOK, PastOK, SealInv, HeardInv, [Next]_vars,
         NEW n \in Nodes, NEW k \in Registers, Fresh(n, k),
         Heard(n, k)' = Heard(n, k), cache'[n][k] = cache[n][k]
  PROVE  Fresh(n, k)'
<1>1. ASSUME NEW p \in Heard(n, k) PROVE left'[p] = left[p] /\ knew'[p] = knew[p]
  BY <1>1, OverStays DEF Heard, HeardInv, PastOK
<1>2. Newest(n, k)' = Newest(n, k)
  BY <1>1 DEF Newest
<1>3. Newest(n, k) \subseteq Heard(n, k)
  BY DEF Newest
<1> QED BY <1>1, <1>2, <1>3 DEF Fresh

(* A success that tells the register is the newest thing this node has     *)
(* heard of it: nothing it heard was forwarded knowing it                  *)
(* (forward.go:156-179).                                                   *)
LEMMA FreshHeard ==
  ASSUME StateOK, PastOK, SealInv, HeardInv, [Next]_vars,
         NEW n \in Nodes, NEW o \in Ops, ForwardSucceeded(o, n),
         promote[n], at[o][Leader].reply.kind = "ok", Tells(request[o], at[o][Leader].reply)
  PROVE  Fresh(n, request[o].key)'
<1> DEFINE r == request[o]
<1>1. /\ n # Leader /\ at[o][n].pc = "awaiting" /\ at[o][Leader].pc = "replied"
      /\ UNCHANGED <<request, left, knew>>
      /\ heard'[n] = heard[n] \cup {o}
      /\ cache' = [cache EXCEPT ![n][r.key] = Cached(@, r, at[o][Leader].reply)]
  BY DEF ForwardSucceeded, clientVars, PastOK
<1>2. ~Over(o)
  <2>1. n = via[o]
    BY <1>1 DEF SealInv, Untouched, OneHop
  <2>2. OneHop(o)
    BY <1>1 DEF SealInv, Untouched
  <2> QED BY <1>1, <2>1, <2>2 DEF OneHop, Over
<1>3. o \in Newest(n, r.key)'
  BY <1>1, <1>2 DEF Newest, Heard, HeardInv, PastOK
<1>4. cache'[n][r.key] = left'[o]
  <2>1. r \in Requests
    BY <1>1 DEF StateOK, HandlersOK, ClientsOK
  <2>2. r.key \in Registers
    BY <2>1, PutType
  <2>3. Cached(cache[n][r.key], r, at[o][Leader].reply) = left[o]
    BY <1>1 DEF HeardInv, Told
  <2> QED BY <1>1, <2>2, <2>3 DEF StateOK, NodesOK
<1> QED BY <1>1, <1>3, <1>4 DEF Fresh

(* Every step keeps every cached register as old as it has to be.          *)
LEMMA FreshNext ==
  ASSUME StateOK, PastOK, SealInv, HeardInv, [Next]_vars,
         NEW n \in Nodes, NEW k \in Registers, Fresh(n, k)
  PROVE  Fresh(n, k)'
<1>1. CASE UNCHANGED <<request, heard, cache>>
  <2>1. Heard(n, k)' = Heard(n, k) /\ cache'[n][k] = cache[n][k]
    BY <1>1 DEF Heard
  <2> QED BY <2>1, FreshKept
<1>2. ASSUME NEW o \in Ops, Client(o) PROVE Fresh(n, k)'
  <2>1. UNCHANGED <<heard, cache>>
    BY <1>2 DEF Client, Issue, Send, NeverSent, Receive, GiveUp, nodeVars, past
  <2>2. ASSUME NEW p \in heard[n] PROVE request'[p] = request[p]
    BY <2>2, OverStays DEF HeardInv, PastOK
  <2>3. Heard(n, k)' = Heard(n, k) /\ cache'[n][k] = cache[n][k]
    BY <2>1, <2>2 DEF Heard
  <2> QED BY <2>3, FreshKept
<1>3. ASSUME NEW o \in Ops, NEW m \in Nodes,
             Lead(o, m) \/ Forward(o, m) \/ ForwardRefused(o, m) \/ ApplyLocal(o, m) \/ ForwardFailed(o, m)
      PROVE  Fresh(n, k)'
  BY <1>1, <1>3 DEF Lead, Forward, ForwardRefused, ApplyLocal, ForwardFailed, nodeVars, clientVars, past
<1>4. ASSUME NEW o \in Ops, NEW m \in Nodes, ForwardSucceeded(o, m) PROVE Fresh(n, k)'
  <2> DEFINE r == request[o]
             told == promote[m] /\ at[o][Leader].reply.kind = "ok" /\ Tells(r, at[o][Leader].reply)
  <2>1. request' = request
    BY <1>4 DEF ForwardSucceeded, clientVars
  <2>2. CASE told /\ m = n /\ r.key = k
    BY <1>4, <2>1, <2>2, FreshHeard
  <2>3. CASE told /\ ~(m = n /\ r.key = k)
    <3>1. heard' = [heard EXCEPT ![m] = @ \cup {o}]
      BY <1>4, <2>3 DEF ForwardSucceeded
    <3>2. Heard(n, k)' = Heard(n, k)
      BY <2>1, <2>3, <3>1 DEF Heard, PastOK
    <3>3. \E v : cache' = [cache EXCEPT ![m][r.key] = v]
      BY <1>4, <2>3 DEF ForwardSucceeded
    <3>4. cache'[n][k] = cache[n][k]
      BY <2>3, <3>3 DEF StateOK, NodesOK
    <3> QED BY <3>2, <3>4, FreshKept
  <2>4. CASE ~told
    <3>1. heard' = heard
      BY <1>4, <2>4 DEF ForwardSucceeded
    <3>2. cache'[n][k] = cache[n][k]
      <4>1. cache' = cache \/ cache' = [cache EXCEPT ![m][r.key] = Cached(@, r, at[o][Leader].reply)]
        BY <1>4 DEF ForwardSucceeded
      <4>2. cache' # cache => ~Tells(r, at[o][Leader].reply)
        BY <1>4, <2>4 DEF ForwardSucceeded
      <4>3. ~Tells(r, at[o][Leader].reply) =>
              Cached(cache[m][r.key], r, at[o][Leader].reply) = cache[m][r.key]
        BY DEF Tells, Cached
      <4> QED BY <4>1, <4>2, <4>3 DEF StateOK, NodesOK
    <3>3. Heard(n, k)' = Heard(n, k)
      BY <2>1, <3>1 DEF Heard
    <3> QED BY <3>2, <3>3, FreshKept
  <2> QED BY <2>2, <2>3, <2>4
<1>5. ASSUME NEW o \in Ops, NEW m \in Nodes, ServeFromCache(o, m) PROVE Fresh(n, k)'
  <2> DEFINE r == request[o]
             held == IF cache[m][r.key] = Absent THEN InitialValue ELSE cache[m][r.key]
  <2>1. request' = request
    BY <1>5 DEF ServeFromCache, clientVars
  <2>2. CASE ~Changes(r, held)
    BY <1>1, <1>5, <2>1, <2>2 DEF ServeFromCache
  <2>3. CASE Changes(r, held)
    <3>1. /\ heard' = [heard EXCEPT ![m] = {p \in @ : request[p].key # r.key}]
          /\ cache' = [cache EXCEPT ![m][r.key] = Put(r)]
      BY <1>5, <2>3 DEF ServeFromCache
    <3>2. CASE m = n /\ r.key = k
      <4>1. Heard(n, k)' = {}
        BY <2>1, <3>1, <3>2 DEF Heard, PastOK
      <4> QED BY <4>1 DEF Fresh
    <3>3. CASE ~(m = n /\ r.key = k)
      <4>1. Heard(n, k)' = Heard(n, k)
        BY <2>1, <3>1, <3>3 DEF Heard, PastOK
      <4>2. cache'[n][k] = cache[n][k]
        BY <3>1, <3>3 DEF StateOK, NodesOK
      <4> QED BY <4>1, <4>2, FreshKept
    <3> QED BY <3>2, <3>3
  <2> QED BY <2>2, <2>3
<1>6. ASSUME NEW c \in Configs, Configure(c) PROVE Fresh(n, k)'
  <2>1. request' = request
    BY <1>6 DEF Configure, clientVars
  <2>2. CASE c.promote # {FALSE}
    BY <1>1, <1>6, <2>1, <2>2 DEF Configure
  <2>3. CASE c.promote = {FALSE} /\ c.node = n
    <3>1. heard'[n] = {}
      BY <1>6, <2>3 DEF Configure, PastOK
    <3> QED BY <3>1 DEF Fresh, Heard
  <2>4. CASE c.promote = {FALSE} /\ c.node # n
    <3>1. heard'[n] = heard[n] /\ cache'[n][k] = cache[n][k]
      BY <1>6, <2>4 DEF Configure, PastOK, StateOK, NodesOK
    <3>2. Heard(n, k)' = Heard(n, k)
      BY <2>1, <3>1 DEF Heard
    <3> QED BY <3>1, <3>2, FreshKept
  <2> QED BY <2>2, <2>3, <2>4
<1>7. CASE UNCHANGED vars
  BY <1>1, <1>7 DEF vars, nodeVars, clientVars, past
<1> QED BY <1>2, <1>3, <1>4, <1>5, <1>6, <1>7 DEF Next, Serve

(* Whatever overlaps, promotes, fails or is configured: among the          *)
(* operations whose answers filled it, a cached register is what the       *)
(* leader's was after one no other was forwarded after                     *)
(* (forward.go:156-179, 201-221, 260).                                     *)
THEOREM CacheStaleOnlyByOverlap == Spec => []StaleOnlyByOverlap
<1>1. Init => TypeOK /\ SealInv /\ HeardInv /\ StaleOnlyByOverlap
  BY TypeInit, PastInit, SealInit, HeardInit DEF TypeOK
<1>2. ASSUME TypeOK, SealInv, HeardInv, StaleOnlyByOverlap, [Next]_vars
      PROVE  TypeOK' /\ SealInv' /\ HeardInv' /\ StaleOnlyByOverlap'
  <2>1. StateOK' /\ PastOK' /\ SealInv' /\ HeardInv'
    BY <1>2, TypeNext, PastNext, SealNext, HeardNext DEF TypeOK
  <2>2. \A n \in Nodes, k \in Registers : Fresh(n, k)
    BY <1>2 DEF StaleOnlyByOverlap, Fresh
  <2>3. \A n \in Nodes, k \in Registers : Fresh(n, k)'
    BY <1>2, <2>2, FreshNext DEF TypeOK
  <2> QED BY <2>1, <2>3 DEF TypeOK, StaleOnlyByOverlap, Fresh
<1> QED BY <1>1, <1>2, PTL DEF Spec

-----------------------------------------------------------------------------
(***************************************************************************)
(* The count of failures is the length of the run of failed forwards that  *)
(* the streak ends with.                                                   *)
(***************************************************************************)
FailedRun(s, f) ==
  /\ f <= Len(s)
  /\ \A i \in 1..f : ~s[Len(s) + 1 - i]
  /\ f < Len(s) => s[Len(s) - f]

Counted == \A n \in Nodes : FailedRun(streak[n], failures[n])

LEMMA LastFailedIs ==
  ASSUME NEW s \in Seq(BOOLEAN), NEW f \in Nat, FailedRun(s, f), NEW k \in Nat \ {0}
  PROVE  LastFailed(s, k) <=> k <= f
<1>1. Len(s) \in Nat
  OBVIOUS
<1>2. CASE k <= f
  BY <1>1, <1>2 DEF FailedRun, LastFailed
<1>3. CASE k > f
  <2> SUFFICES ASSUME LastFailed(s, k) PROVE FALSE
    BY <1>3
  <2>1. f < Len(s) /\ f + 1 \in 1..k /\ Len(s) + 1 - (f + 1) = Len(s) - f
    BY <1>1, <1>3 DEF LastFailed
  <2>2. s[Len(s) - f]
    BY <2>1 DEF FailedRun
  <2>3. ~s[Len(s) + 1 - (f + 1)]
    BY <2>1 DEF LastFailed
  <2> QED BY <2>1, <2>2, <2>3
<1> QED BY <1>1, <1>2, <1>3

(* One failure more lengthens the run, one success ends it.                *)
LEMMA RunGrows ==
  ASSUME NEW s \in Seq(BOOLEAN), NEW f \in Nat, FailedRun(s, f)
  PROVE  FailedRun(Append(s, FALSE), f + 1) /\ Append(s, FALSE) \in Seq(BOOLEAN)
<1> DEFINE t == Append(s, FALSE)
<1>1. /\ t \in Seq(BOOLEAN) /\ Len(s) \in Nat /\ Len(t) = Len(s) + 1
      /\ t[Len(s) + 1] = FALSE /\ \A i \in 1..Len(s) : t[i] = s[i]
  OBVIOUS
<1> HIDE DEF t
<1>2. ASSUME NEW i \in 1..(f + 1) PROVE ~t[Len(t) + 1 - i]
  <2>1. CASE i = 1
    BY <1>1, <2>1
  <2>2. CASE i # 1
    <3>1. i - 1 \in 1..f /\ Len(t) + 1 - i = Len(s) + 1 - (i - 1) /\ Len(t) + 1 - i \in 1..Len(s)
      BY <1>1, <2>2 DEF FailedRun
    <3> QED BY <1>1, <3>1 DEF FailedRun
  <2> QED BY <2>1, <2>2
<1>3. ASSUME f + 1 < Len(t) PROVE t[Len(t) - (f + 1)]
  <2>1. Len(t) - (f + 1) = Len(s) - f /\ Len(s) - f \in 1..Len(s) /\ f < Len(s)
    BY <1>1, <1>3
  <2> QED BY <1>1, <2>1 DEF FailedRun
<1>4. f + 1 <= Len(t)
  BY <1>1 DEF FailedRun
<1>5. FailedRun(t, f + 1)
  BY <1>2, <1>3, <1>4 DEF FailedRun
<1> QED BY <1>1, <1>5 DEF t

LEMMA NoRun == FailedRun(<<>>, 0)
<1>1. Len(<<>>) = 0
  OBVIOUS
<1> QED BY <1>1 DEF FailedRun

LEMMA RunEnds ==
  ASSUME NEW s \in Seq(BOOLEAN)
  PROVE  FailedRun(Append(s, TRUE), 0) /\ Append(s, TRUE) \in Seq(BOOLEAN)
<1>1. /\ Append(s, TRUE) \in Seq(BOOLEAN) /\ Len(s) \in Nat /\ Len(Append(s, TRUE)) = Len(s) + 1
      /\ Append(s, TRUE)[Len(s) + 1] = TRUE
  OBVIOUS
<1> QED BY <1>1 DEF FailedRun

LEMMA CountedInit == Init => Counted
<1> SUFFICES ASSUME Init, NEW n \in Nodes PROVE FailedRun(streak[n], failures[n])
  BY DEF Counted
<1>1. streak[n] = <<>> /\ failures[n] = 0
  BY DEF Init
<1> QED BY <1>1, NoRun

(* What a forward that ends makes of its node.                             *)
LEMMA SuccessIs ==
  ASSUME StateOK, NEW o \in Ops, NEW n \in Nodes, ForwardSucceeded(o, n)
  PROVE  /\ streak'[n] = Append(streak[n], TRUE) /\ failures'[n] = 0 /\ promoted'[n] = FALSE
         /\ \A m \in Nodes \ {n} : streak'[m] = streak[m] /\ failures'[m] = failures[m]
BY DEF ForwardSucceeded, CountAfterSuccess, StateOK, NodesOK, HandlersOK

LEMMA FailureIs ==
  ASSUME StateOK, NEW o \in Ops, NEW n \in Nodes, ForwardFailed(o, n)
  PROVE  /\ streak'[n] = Append(streak[n], FALSE) /\ failures'[n] = failures[n] + 1
         /\ promoted'[n] = (promoted[n] \/ CountsEnough(n))
         /\ \A m \in Nodes \ {n} : streak'[m] = streak[m] /\ failures'[m] = failures[m]
BY DEF ForwardFailed, StateOK, NodesOK, HandlersOK

(* No other step ends a forward: it leaves the count and the streak, or    *)
(* Configure clears both.                                                  *)
LEMMA OthersCount ==
  ASSUME StateOK, [Next]_vars, NEW n \in Nodes,
         ~\E o \in Ops : ForwardSucceeded(o, n) \/ ForwardFailed(o, n)
  PROVE  \/ streak'[n] = streak[n] /\ failures'[n] = failures[n]
         \/ streak'[n] = <<>> /\ failures'[n] = 0
<1>1. ASSUME NEW o \in Ops, Client(o) PROVE streak' = streak /\ failures' = failures
  BY <1>1 DEF Client, Issue, Send, NeverSent, Receive, GiveUp, nodeVars
<1>2. ASSUME NEW o \in Ops, NEW m \in Nodes,
             Lead(o, m) \/ Forward(o, m) \/ ForwardRefused(o, m) \/ ApplyLocal(o, m) \/ ServeFromCache(o, m)
      PROVE  streak' = streak /\ failures' = failures
  BY <1>2 DEF Lead, Forward, ForwardRefused, ApplyLocal, ServeFromCache, nodeVars
<1>3. ASSUME NEW o \in Ops, NEW m \in Nodes, ForwardSucceeded(o, m) \/ ForwardFailed(o, m)
      PROVE  streak'[n] = streak[n] /\ failures'[n] = failures[n]
  <2>1. m # n
    BY <1>3
  <2> QED BY <1>3, <2>1, SuccessIs, FailureIs
<1>4. ASSUME NEW c \in Configs, Configure(c)
      PROVE  \/ streak'[n] = streak[n] /\ failures'[n] = failures[n]
             \/ streak'[n] = <<>> /\ failures'[n] = 0
  BY <1>4 DEF Configure, StateOK, NodesOK, HandlersOK
<1>5. CASE UNCHANGED vars
  BY <1>5 DEF vars, nodeVars
<1> QED BY <1>1, <1>2, <1>3, <1>4, <1>5 DEF Next, Serve

LEMMA CountedNext == StateOK /\ Counted /\ [Next]_vars => Counted'
<1> SUFFICES ASSUME StateOK, Counted, [Next]_vars, NEW n \in Nodes
             PROVE  FailedRun(streak[n], failures[n])'
  BY DEF Counted
<1>1. FailedRun(streak[n], failures[n]) /\ streak[n] \in Seq(BOOLEAN) /\ failures[n] \in Nat
  BY DEF Counted, StateOK, NodesOK, HandlersOK
<1>2. ASSUME NEW o \in Ops, ForwardSucceeded(o, n) PROVE FailedRun(streak'[n], failures'[n])
  BY <1>1, <1>2, SuccessIs, RunEnds
<1>3. ASSUME NEW o \in Ops, ForwardFailed(o, n) PROVE FailedRun(streak'[n], failures'[n])
  BY <1>1, <1>3, FailureIs, RunGrows
<1>4. CASE ~\E o \in Ops : ForwardSucceeded(o, n) \/ ForwardFailed(o, n)
  <2>1. CASE streak'[n] = streak[n] /\ failures'[n] = failures[n]
    BY <1>1, <2>1
  <2>2. CASE streak'[n] = <<>> /\ failures'[n] = 0
    BY <1>1, <2>2, NoRun
  <2> QED BY <1>4, <2>1, <2>2, OthersCount
<1>5. FailedRun(streak'[n], failures'[n])
  BY <1>2, <1>3, <1>4
<1> QED BY <1>5

(* The role after a forward is the one its streak calls for.               *)
Role(n) ==
  Len(streak'[n]) > Len(streak[n]) =>
    promoted'[n] = /\ LastFailed(streak'[n], 1)
                   /\ \/ promoted[n]
                      \/ promote[n] /\ LastFailed(streak'[n], promoteAfter[n])

LEMMA RoleIs ==
  ASSUME StateOK, Counted, [Next]_vars, NEW n \in Nodes
  PROVE  Role(n)
<1>1. /\ FailedRun(streak[n], failures[n]) /\ streak[n] \in Seq(BOOLEAN) /\ failures[n] \in Nat
      /\ promoteAfter[n] \in Nat \ {0} /\ promote[n] \in BOOLEAN /\ promoted[n] \in BOOLEAN
  BY DEF Counted, StateOK, NodesOK, HandlersOK
<1>2. ASSUME NEW o \in Ops, ForwardSucceeded(o, n) PROVE Role(n)
  <2>1. streak'[n] = Append(streak[n], TRUE) /\ promoted'[n] = FALSE
    BY <1>2, SuccessIs
  <2>2. ~LastFailed(streak'[n], 1)
    <3>1. FailedRun(streak'[n], 0) /\ streak'[n] \in Seq(BOOLEAN)
      <4>1. FailedRun(Append(streak[n], TRUE), 0) /\ Append(streak[n], TRUE) \in Seq(BOOLEAN)
        BY <1>1, RunEnds
      <4> QED BY <2>1, <4>1
    <3>2. LastFailed(streak'[n], 1) <=> 1 <= 0
      BY <3>1, LastFailedIs
    <3> QED BY <3>2
  <2> QED BY <2>1, <2>2 DEF Role
<1>3. ASSUME NEW o \in Ops, ForwardFailed(o, n) PROVE Role(n)
  <2>1. /\ streak'[n] = Append(streak[n], FALSE)
        /\ promoted'[n] = (promoted[n] \/ CountsEnough(n))
    BY <1>3, FailureIs
  <2>2. FailedRun(streak'[n], failures[n] + 1) /\ streak'[n] \in Seq(BOOLEAN) /\ failures[n] + 1 \in Nat
    <3>1. /\ FailedRun(Append(streak[n], FALSE), failures[n] + 1)
          /\ Append(streak[n], FALSE) \in Seq(BOOLEAN)
      BY <1>1, RunGrows
    <3>2. failures[n] + 1 \in Nat
      BY <1>1
    <3> QED BY <2>1, <3>1, <3>2
  <2>3. LastFailed(streak'[n], 1) /\ (LastFailed(streak'[n], promoteAfter[n]) <=> promoteAfter[n] <= failures[n] + 1)
    BY <1>1, <2>2, LastFailedIs
  <2>4. CountsEnough(n) <=> promote[n] /\ LastFailed(streak'[n], promoteAfter[n])
    BY <1>1, <2>3 DEF CountsEnough
  <2> HIDE DEF CountsEnough, LastFailed
  <2> QED BY <2>1, <2>3, <2>4, Zenon DEF Role
<1>4. CASE ~\E o \in Ops : ForwardSucceeded(o, n) \/ ForwardFailed(o, n)
  <2>1. Len(streak'[n]) <= Len(streak[n])
    <3>1. Len(<<>>) = 0 /\ Len(streak[n]) \in Nat
      BY <1>1
    <3> QED BY <1>4, <3>1, OthersCount
  <2>2. ~(Len(streak'[n]) > Len(streak[n]))
    <3>1. Len(<<>>) = 0 /\ Len(streak[n]) \in Nat
      BY <1>1
    <3> QED BY <1>4, <3>1, OthersCount
  <2> QED BY <2>2 DEF Role
<1> QED BY <1>2, <1>3, <1>4

(* Whatever is configured meanwhile and in whatever order forwards end:    *)
(* the one that ends last decides the role, and a node promotes itself     *)
(* exactly when promotion is on and its last promoteAfter forwards failed  *)
(* (forward.go:43-48, 156-196).                                            *)
THEOREM StreakPromotes == Spec => PromotedByStreak
<1>1. Init => StateOK /\ Counted
  BY TypeInit, CountedInit
<1>2. StateOK /\ Counted /\ [Next]_vars => (StateOK /\ Counted)'
  BY TypeNext, CountedNext
<1>3. ASSUME StateOK, Counted, [Next]_vars
      PROVE  [\A n \in Nodes : Len(streak'[n]) > Len(streak[n]) =>
                promoted'[n] = /\ LastFailed(streak'[n], 1)
                               /\ \/ promoted[n]
                                  \/ promote[n] /\ LastFailed(streak'[n], promoteAfter[n])]_vars
  BY <1>3, RoleIs DEF Role
<1> QED BY <1>1, <1>2, <1>3, PTL DEF Spec, PromotedByStreak

-----------------------------------------------------------------------------
(***************************************************************************)
(* The store implements the atomic one.  What a client was told ok it was  *)
(* told by the leader, or else by a node that answered on its own.         *)
(***************************************************************************)
RepliedOk(o, n) == at[o][n].pc = "replied" /\ at[o][n].reply.kind = "ok"

Relayed(o) == at[o][Leader].pc = "replied" /\ at[o][Leader].reply = at[o][via[o]].reply

Answering(o) ==
  /\ outcome[o] # "ok" => answer[o] = None
  /\ \A n \in Nodes : at[o][n].reply.kind # "ok" => at[o][n].reply.answer = None
  /\ outcome[o] = "ok" => RepliedOk(o, via[o])
  /\ outcome[o] # "idle" /\ via[o] # Leader /\ RepliedOk(o, via[o]) => OwnAnswer(o) \/ Relayed(o)

AnswerInv == \A o \in Ops : Answering(o)

LEMMA AnsweringInit == Init => AnswerInv
BY ConfigAssumption DEF Init, AnswerInv, Answering, RepliedOk, Idle, NoReply

(* A step of one operation leaves what is said of the others.              *)
LEMMA Aside ==
  ASSUME StateOK, NEW o \in Ops, NEW p \in Ops \ {o}, Client(o) \/ \E n \in Nodes : Serve(o, n)
  PROVE  /\ at'[p] = at[p] /\ outcome'[p] = outcome[p] /\ answer'[p] = answer[p]
         /\ via'[p] = via[p] /\ took'[p] = took[p]
<1>1. CASE Client(o)
  BY <1>1 DEF Client, Issue, Send, NeverSent, Receive, GiveUp, clientVars,
     StateOK, ClientsOK, HandlersOK
<1>2. ASSUME NEW n \in Nodes, Lead(o, n) \/ Forward(o, n) \/ ForwardRefused(o, n) \/ ForwardFailed(o, n)
      PROVE  /\ at'[p] = at[p] /\ outcome'[p] = outcome[p] /\ answer'[p] = answer[p]
             /\ via'[p] = via[p] /\ took'[p] = took[p]
  BY <1>2 DEF Lead, Forward, ForwardRefused, ForwardFailed, clientVars, StateOK, HandlersOK
<1>3. ASSUME NEW n \in Nodes, ApplyLocal(o, n) \/ ForwardSucceeded(o, n) \/ ServeFromCache(o, n)
      PROVE  /\ at'[p] = at[p] /\ outcome'[p] = outcome[p] /\ answer'[p] = answer[p]
             /\ via'[p] = via[p] /\ took'[p] = took[p]
  BY <1>3 DEF ApplyLocal, ForwardSucceeded, ServeFromCache, clientVars, StateOK, HandlersOK
<1> QED BY <1>1, <1>2, <1>3 DEF Serve

LEMMA AnsweringKept ==
  ASSUME NEW p \in Ops, Answering(p),
         at'[p] = at[p], outcome'[p] = outcome[p], answer'[p] = answer[p],
         via'[p] = via[p], took'[p] = took[p]
  PROVE  Answering(p)'
BY DEF Answering, RepliedOk, OwnAnswer, Relayed

(* Each step of a handler makes one handler of its operation something     *)
(* else, and only a forward also wakes the leader's.                       *)
Turned(o, n, h) ==
  /\ at'[o][n] = h /\ at'[o] \in [Nodes -> Handler]
  /\ \A m \in Nodes \ {n} : at'[o][m] = at[o][m]

LEMMA TurnedIs ==
  ASSUME StateOK, NEW o \in Ops, NEW n \in Nodes, NEW h \in Handler,
         at' = [at EXCEPT ![o][n] = h]
  PROVE  Turned(o, n, h)
BY DEF StateOK, HandlersOK, Turned

LEMMA Midway ==
  ASSUME StateOK, SealInv, AnswerInv, NEW o \in Ops, NEW n \in Nodes,
         at[o][n].pc \notin {"idle", "replied"}
  PROVE  /\ outcome[o] # "idle" /\ via[o] \in Nodes /\ n \in {via[o], Leader}
         /\ OneHop(o) /\ Sealed(o) /\ Answering(o)
         /\ outcome[o] = "ok" => n # via[o]
<1>1. outcome[o] # "idle" /\ via[o] \in Nodes
  BY DEF StateOK, HandlersOK, ClientsOK
<1>2. OneHop(o) /\ Sealed(o) /\ Answering(o)
  BY <1>1 DEF SealInv, AnswerInv
<1> QED BY <1>1, <1>2 DEF OneHop, Answering, RepliedOk

(* The client (client.go:161-271).                                         *)
LEMMA AnsweringClient ==
  ASSUME StateOK, SealInv, AnswerInv, NEW o \in Ops, Client(o)
  PROVE  Answering(o)'
<1>1. Answering(o)
  BY DEF AnswerInv
<1>2. ASSUME NEW n \in Nodes, NEW r \in Requests, Issue(o, n, r) PROVE Answering(o)'
  <2>1. /\ Untouched(o) /\ outcome[o] = "idle" /\ outcome'[o] = "open" /\ via'[o] = n
        /\ at' = at /\ answer' = answer
    BY <1>2 DEF Issue, SealInv, StateOK, ClientsOK
  <2> QED BY <1>1, <2>1 DEF Answering, RepliedOk, Untouched
<1>3. CASE Send(o)
  <2>1. /\ outcome[o] = "open" /\ UNCHANGED <<outcome, answer, via, took>> /\ via[o] \in Nodes
    BY <1>3 DEF Send, Unsent, clientVars, StateOK, ClientsOK
  <2>2. Wired \in Handler /\ Wired.pc = "wired" /\ Wired.reply.answer = None
    BY HandlerTypes DEF Wired, Idle, NoReply
  <2>3. Turned(o, via[o], Wired)
    BY <1>3, <2>1, <2>2, TurnedIs DEF Send
  <2> QED BY <1>1, <2>1, <2>2, <2>3 DEF Answering, RepliedOk, Turned
<1>4. CASE NeverSent(o) \/ GiveUp(o)
  <2>1. /\ outcome[o] = "open" /\ outcome'[o] \in {"fail", "info"} /\ UNCHANGED <<answer, via, at, took>>
    BY <1>4 DEF NeverSent, GiveUp, Unsent, StateOK, ClientsOK
  <2> QED BY <1>1, <2>1 DEF Answering, RepliedOk, OwnAnswer, Relayed
<1>5. CASE Receive(o)
  <2> DEFINE reply == at[o][via[o]].reply
  <2>1. /\ outcome[o] = "open" /\ UNCHANGED <<via, at, took>> /\ at[o][via[o]].pc = "replied"
        /\ outcome'[o] = OutcomeOf(reply) /\ answer'[o] = reply.answer /\ via[o] \in Nodes
    BY <1>5 DEF Receive, StateOK, ClientsOK
  <2>2. /\ OutcomeOf(reply) = "ok" <=> reply.kind = "ok"
        /\ OutcomeOf(reply) # "idle"
    BY DEF OutcomeOf
  <2>3. reply.kind # "ok" => reply.answer = None
    BY <1>1, <2>1 DEF Answering
  <2> QED BY <1>1, <2>1, <2>2, <2>3 DEF Answering, RepliedOk, OwnAnswer, Relayed
<1> QED BY <1>2, <1>3, <1>4, <1>5 DEF Client

(* Apply's first stretch (forward.go:98-105).                              *)
LEMMA AnsweringTakeUp ==
  ASSUME StateOK, SealInv, AnswerInv, NEW o \in Ops, NEW n \in Nodes,
         Lead(o, n) \/ Forward(o, n) \/ ForwardRefused(o, n)
  PROVE  Answering(o)'
<1>1. at[o][n].pc = "wired" /\ UNCHANGED <<outcome, answer, via, took>>
  BY DEF Lead, Forward, ForwardRefused, clientVars
<1>2. /\ outcome[o] # "idle" /\ via[o] \in Nodes /\ n \in {via[o], Leader}
      /\ OneHop(o) /\ Answering(o) /\ (outcome[o] = "ok" => n # via[o])
      /\ at[o][n] \in Handler /\ at[o] \in [Nodes -> Handler]
  BY <1>1, Midway DEF StateOK, HandlersOK
<1>3. PICK pc \in {"local", "awaiting", "refused"} :
        /\ at'[o][n].pc = pc /\ at'[o][n].reply = at[o][n].reply
        /\ \A m \in Nodes \ {n} : at'[o][m] = at[o][m] \/ (at'[o][m] = Wired /\ n # Leader)
  <2>1. CASE Lead(o, n)
    BY <1>2, <2>1 DEF Lead, StateOK, HandlersOK, Handler
  <2>2. CASE Forward(o, n)
    <3>1. leader[n] = Leader /\ n # Leader
      BY <2>2 DEF Forward, StateOK, NodesOK
    <3> DEFINE h == [at[o][n] EXCEPT !.pc = "awaiting", !.alone = promoted[n]]
    <3>2. h.pc = "awaiting" /\ h.reply = at[o][n].reply
      BY <1>2 DEF Handler
    <3>3. at' = [at EXCEPT ![o][n] = h, ![o][Leader] = Wired]
      BY <2>2, <3>1 DEF Forward
    <3> HIDE DEF h
    <3>4. at'[o][n] = h /\ \A m \in Nodes \ {n} : at'[o][m] \in {at[o][m], Wired}
      BY <3>1, <3>3, ConfigAssumption DEF StateOK, HandlersOK
    <3> QED BY <3>1, <3>2, <3>4
  <2>3. CASE ForwardRefused(o, n)
    <3> DEFINE h == [at[o][n] EXCEPT !.pc = "refused", !.alone = promoted[n]]
    <3>1. h.pc = "refused" /\ h.reply = at[o][n].reply
      BY <1>2 DEF Handler
    <3>2. at' = [at EXCEPT ![o][n] = h]
      BY <2>3 DEF ForwardRefused
    <3> HIDE DEF h
    <3>3. at'[o][n] = h /\ \A m \in Nodes \ {n} : at'[o][m] = at[o][m]
      BY <3>2 DEF StateOK, HandlersOK
    <3> QED BY <3>1, <3>3
  <2> QED BY <2>1, <2>2, <2>3
<1>4. Wired.reply.answer = None /\ Wired.pc = "wired"
  BY DEF Wired, Idle, NoReply
<1>5. \A m \in Nodes : at'[o][m].reply.kind # "ok" => at'[o][m].reply.answer = None
  BY <1>2, <1>3, <1>4 DEF Answering
<1>6. CASE n = via[o]
  BY <1>1, <1>2, <1>3, <1>5, <1>6 DEF Answering, RepliedOk
<1>7. CASE n # via[o]
  <2>1. n = Leader /\ at'[o][via[o]] = at[o][via[o]] /\ ~Relayed(o)
    BY <1>1, <1>2, <1>3, <1>7 DEF Relayed
  <2> QED BY <1>1, <1>2, <1>5, <1>7, <2>1 DEF Answering, RepliedOk, OwnAnswer
<1> QED BY <1>6, <1>7

(* The answers (single.go:39-62, forward.go:117-150, 201-221).             *)
LEMMA AnsweringRun ==
  ASSUME StateOK, SealInv, AnswerInv, NEW o \in Ops, NEW n \in Nodes, Run(o, n)
  PROVE  Answering(o)'
<1>1. at[o][n].pc \in {"local", "awaiting", "refused", "cache"} /\ UNCHANGED <<outcome, answer, via>>
  BY DEF Run, ApplyLocal, ForwardSucceeded, ForwardFailed, ServeFromCache, MayFail, clientVars
<1>2. /\ outcome[o] # "idle" /\ via[o] \in Nodes /\ n \in {via[o], Leader}
      /\ OneHop(o) /\ Sealed(o) /\ Answering(o) /\ (outcome[o] = "ok" => n # via[o])
      /\ at[o][n] \in Handler
  BY <1>1, Midway DEF StateOK, HandlersOK
<1>3. CASE ApplyLocal(o, n) \/ ServeFromCache(o, n)
  <2>1. PICK h, place :
          /\ place \in {"local", "cache"}
          /\ at' = [at EXCEPT ![o][n] = h] /\ took' = [took EXCEPT ![o] = @ \cup {<<place, n>>}]
          /\ h.pc = "replied" /\ h.reply.kind = "ok"
    <3>1. \A a : /\ Returned(at[o][n], Ok(a)).pc = "replied"
                 /\ Returned(at[o][n], Ok(a)).reply.kind = "ok"
      BY <1>2, ReturnedReply DEF Ok
    <3>2. CASE ApplyLocal(o, n)
      BY <3>1, <3>2 DEF ApplyLocal
    <3>3. CASE ServeFromCache(o, n)
      BY <3>1, <3>3 DEF ServeFromCache
    <3> QED BY <1>3, <3>2, <3>3
  <2>2. at'[o][n] = h /\ \A m \in Nodes \ {n} : at'[o][m] = at[o][m]
    BY <2>1 DEF StateOK, HandlersOK
  <2>3. took'[o] = took[o] \cup {<<place, n>>}
    BY <2>1 DEF StateOK, HandlersOK
  <2>4. CASE n = via[o]
    <3>1. via[o] # Leader => OwnAnswer(o)'
      <4>1. <<place, n>> \in took'[o] /\ place \in {"local", "cache"} /\ via'[o] = n
        BY <1>1, <2>1, <2>3, <2>4
      <4>2. <<place, n>> \in {<<"cache", n>>, <<"local", n>>}
        BY <4>1
      <4> QED BY <1>1, <2>4, <4>1, <4>2 DEF OwnAnswer
    <3> QED BY <1>1, <1>2, <2>1, <2>2, <2>4, <3>1 DEF Answering, RepliedOk
  <2>5. CASE n # via[o]
    <3>1. n = Leader /\ at'[o][via[o]] = at[o][via[o]] /\ ~Relayed(o)
      BY <1>1, <1>2, <2>2, <2>5 DEF Relayed
    <3>2. OwnAnswer(o) => OwnAnswer(o)'
      BY <1>1, <2>3 DEF OwnAnswer
    <3> QED BY <1>1, <1>2, <2>1, <2>2, <3>1, <3>2 DEF Answering, RepliedOk
  <2> QED BY <2>4, <2>5
<1>4. CASE ForwardSucceeded(o, n)
  <2>1. n # Leader /\ n = via[o] /\ at[o][Leader].pc = "replied" /\ took' = took
    BY <1>2, <1>4 DEF ForwardSucceeded
  <2> DEFINE h == Returned(at[o][n], at[o][Leader].reply)
  <2>2. h.pc = "replied" /\ h.reply = at[o][Leader].reply
    BY <1>2, ReturnedReply
  <2>3. at' = [at EXCEPT ![o][n] = h]
    BY <1>4 DEF ForwardSucceeded
  <2> HIDE DEF h
  <2>4. at'[o][n] = h /\ \A m \in Nodes \ {n} : at'[o][m] = at[o][m]
    BY <2>3 DEF StateOK, HandlersOK
  <2> QED BY <1>1, <1>2, <2>1, <2>2, <2>4, ConfigAssumption DEF Answering, RepliedOk, Relayed
<1>5. CASE ForwardFailed(o, n)
  <2>1. n # Leader /\ n = via[o] /\ took' = took
    BY <1>2, <1>5 DEF ForwardFailed, MayFail, OneHop
  <2>2. PICK h : /\ at' = [at EXCEPT ![o][n] = h]
                 /\ \/ h.pc = "cache" /\ h.reply = at[o][n].reply
                    \/ h.reply.kind # "ok" /\ h.reply.answer = None
    <3>1. /\ [at[o][n] EXCEPT !.pc = "cache"].pc = "cache"
          /\ [at[o][n] EXCEPT !.pc = "cache"].reply = at[o][n].reply
      BY <1>2 DEF Handler
    <3>2. Returned(at[o][n], Failure(at[o][n])).reply \in {Declined, Unknown}
      BY <1>2, ReturnedReply DEF Failure
    <3>3. \A r \in {Declined, Unknown} : r.kind # "ok" /\ r.answer = None
      BY DEF Declined, Unknown
    <3>4. PICK h : /\ at' = [at EXCEPT ![o][n] = h]
                   /\ \/ h = [at[o][n] EXCEPT !.pc = "cache"]
                      \/ h = Returned(at[o][n], Failure(at[o][n]))
      BY <1>5 DEF ForwardFailed
    <3> QED BY <3>1, <3>2, <3>3, <3>4
  <2>3. at'[o][n] = h /\ \A m \in Nodes \ {n} : at'[o][m] = at[o][m]
    BY <2>2 DEF StateOK, HandlersOK
  <2>4. ~RepliedOk(o, n)'
    BY <2>2, <2>3 DEF RepliedOk
  <2> QED BY <1>1, <1>2, <2>1, <2>2, <2>3, <2>4 DEF Answering, RepliedOk
<1> QED BY <1>3, <1>4, <1>5 DEF Run

LEMMA AnsweringNext == StateOK /\ SealInv /\ AnswerInv /\ [Next]_vars => AnswerInv'
<1> SUFFICES ASSUME StateOK, SealInv, AnswerInv, [Next]_vars, NEW p \in Ops PROVE Answering(p)'
  BY DEF AnswerInv
<1>1. Answering(p)
  BY DEF AnswerInv
<1>2. ASSUME NEW o \in Ops, Client(o) \/ \E n \in Nodes : Serve(o, n) PROVE Answering(p)'
  <2>1. CASE p # o
    BY <1>1, <1>2, <2>1, Aside, AnsweringKept
  <2>2. CASE p = o
    BY <1>2, <2>2, AnsweringClient, AnsweringTakeUp, AnsweringRun DEF Serve, Run
  <2> QED BY <2>1, <2>2
<1>3. CASE (\E c \in Configs : Configure(c)) \/ UNCHANGED vars
  BY <1>1, <1>3, AnsweringKept DEF Configure, vars, clientVars
<1> QED BY <1>2, <1>3 DEF Next

-----------------------------------------------------------------------------
(***************************************************************************)
(* What the atomic store sees of an operation.                             *)
(***************************************************************************)
Reported(o) == IF outcome[o] = "ok" /\ OwnAnswer(o) THEN "info" ELSE outcome[o]
Believed(o) == IF outcome[o] = "ok" /\ OwnAnswer(o) THEN None ELSE answer[o]

LEMMA SeenKept ==
  ASSUME NEW p \in Ops,
         at'[p] = at[p], outcome'[p] = outcome[p], answer'[p] = answer[p],
         via'[p] = via[p], took'[p] = took[p]
  PROVE  Reported(p)' = Reported(p) /\ Effect(p)' = Effect(p) /\ Believed(p)' = Believed(p)
BY DEF Reported, Effect, Believed, OwnAnswer

LEMMA OthersSeen ==
  ASSUME StateOK, NEW o \in Ops, Client(o) \/ \E n \in Nodes : Serve(o, n)
  PROVE  \A p \in Ops \ {o} :
           Reported(p)' = Reported(p) /\ Effect(p)' = Effect(p) /\ Believed(p)' = Believed(p)
<1> SUFFICES ASSUME NEW p \in Ops \ {o}
             PROVE  Reported(p)' = Reported(p) /\ Effect(p)' = Effect(p) /\ Believed(p)' = Believed(p)
  OBVIOUS
<1> QED BY Aside, SeenKept

(***************************************************************************)
(* The atomic store's actions, by what is seen of the operation.           *)
(***************************************************************************)
AtomicStep == Atomic!Next \/ UNCHANGED Atomic!atomicVars

LEMMA Unseen ==
  ASSUME local'[Leader] = local[Leader], request' = request,
         \A o \in Ops : Reported(o)' = Reported(o) /\ Effect(o)' = Effect(o) /\ Believed(o)' = Believed(o)
  PROVE  AtomicStep
BY DEF AtomicStep, Atomic!atomicVars, Reported, Believed

LEMMA SeenIssued ==
  ASSUME NEW o \in Ops, NEW r \in Requests,
         \A p \in Ops \ {o} :
           Reported(p)' = Reported(p) /\ Effect(p)' = Effect(p) /\ Believed(p)' = Believed(p),
         local'[Leader] = local[Leader], request' = [request EXCEPT ![o] = r],
         Reported(o) = "idle", Reported(o)' = "open",
         Effect(o)' = Effect(o), Believed(o)' = Believed(o)
  PROVE  AtomicStep
<1>1. Atomic!Issue(o, r)
  BY DEF Atomic!Issue, Reported, Believed
<1> QED BY <1>1 DEF AtomicStep, Atomic!Next

LEMMA SeenAbandoned ==
  ASSUME NEW o \in Ops,
         \A p \in Ops \ {o} :
           Reported(p)' = Reported(p) /\ Effect(p)' = Effect(p) /\ Believed(p)' = Believed(p),
         local'[Leader] = local[Leader], request' = request,
         Reported(o) = "open", Reported(o)' = "info",
         Effect(o)' = Effect(o), Believed(o)' = Believed(o)
  PROVE  AtomicStep
<1>1. Atomic!Abandon(o)
  BY DEF Atomic!Abandon, Reported, Believed
<1> QED BY <1>1 DEF AtomicStep, Atomic!Next

LEMMA SeenDeclined ==
  ASSUME NEW o \in Ops,
         \A p \in Ops \ {o} :
           Reported(p)' = Reported(p) /\ Effect(p)' = Effect(p) /\ Believed(p)' = Believed(p),
         local'[Leader] = local[Leader], request' = request,
         Reported(o) = "open", Reported(o)' = "fail", Effect(o) = None,
         Effect(o)' = Effect(o), Believed(o)' = Believed(o)
  PROVE  AtomicStep
<1>1. Atomic!Decline(o)
  BY DEF Atomic!Decline, Reported, Believed
<1> QED BY <1>1 DEF AtomicStep, Atomic!Next

LEMMA SeenSucceeded ==
  ASSUME NEW o \in Ops,
         \A p \in Ops \ {o} :
           Reported(p)' = Reported(p) /\ Effect(p)' = Effect(p) /\ Believed(p)' = Believed(p),
         local'[Leader] = local[Leader], request' = request,
         Reported(o) = "open", Reported(o)' = "ok", Effect(o) # None,
         Effect(o)' = Effect(o), Believed(o)' = Effect(o)
  PROVE  AtomicStep
<1>1. Atomic!Succeed(o)
  BY DEF Atomic!Succeed, Reported, Believed
<1> QED BY <1>1 DEF AtomicStep, Atomic!Next

(* The leader's answer to a request is the one the model accepts, and it   *)
(* leaves the register as the model does (single.go:39-62, model.go).      *)
LEMMA AnswerFits ==
  ASSUME NEW r \in Requests, NEW held \in Int
  PROVE  /\ Answer(r, held) \in Atomic!Answers(held, r)
         /\ Atomic!After(held, Atomic!AsOp(r, Answer(r, held))) = IF Changes(r, held) THEN Put(r) ELSE held
<1> DEFINE a == Answer(r, held)
<1>1. r.kind \in Kinds /\ Models(r) /\ r \in [kind : Kinds, key : Registers, value : Int, from : Int, to : Int]
  BY PutType, ModelAssumption, RequestsAssumption
<1>2. Atomic!AsOp(r, a).kind = r.kind /\ Atomic!AsOp(r, a).outcome = "ok"
      /\ Atomic!AsOp(r, a).value = r.value /\ Atomic!AsOp(r, a).from = r.from /\ Atomic!AsOp(r, a).to = r.to
      /\ Atomic!AsOp(r, a).observed = a.observed /\ Atomic!AsOp(r, a).swapped = a.swapped
  BY DEF Atomic!AsOp
<1>3. /\ Atomic!Models(Atomic!AsOp(r, a))
      /\ Atomic!Fits(held, Atomic!AsOp(r, a)) <=>
           /\ r.kind = "read" => a.observed = held
           /\ r.kind = "cas" => a.swapped = (held = r.from)
  <2>1. Atomic!Models(Atomic!AsOp(r, a))
    BY <1>1, <1>2 DEF Atomic!Models, Models, Atomic!Kinds, Kinds
  <2> QED BY <1>2, <2>1 DEF Atomic!Fits, Atomic!Known
<1>4. ASSUME NEW u \in {InitialValue, held}, NEW b \in BOOLEAN, a = Reply(u, b),
             r.kind = "read" => a.observed = held,
             r.kind = "cas" => a.swapped = (held = r.from),
             r.kind # "read" => a.observed = InitialValue, r.kind # "cas" => ~a.swapped
      PROVE  a \in Atomic!Answers(held, r)
  <2>1. Atomic!Fits(held, Atomic!AsOp(r, a))
    BY <1>3, <1>4
  <2>2. a = Atomic!Reply(u, b) /\ InitialValue = Atomic!InitialValue
    BY <1>4 DEF Reply, Atomic!Reply, InitialValue, Atomic!InitialValue
  <2>3. a \in {Atomic!Reply(v, s) : v \in {Atomic!InitialValue, held}, s \in BOOLEAN}
    BY <2>2
  <2> HIDE DEF a
  <2> QED BY <1>4, <2>1, <2>2, <2>3 DEF Atomic!Answers
<1>5. InitialValue \in {InitialValue, held} /\ held \in {InitialValue, held} /\ (held = r.from) \in BOOLEAN
  OBVIOUS
<1>6. CASE r.kind = "read"
  <2>1. a = Reply(held, FALSE)
    BY <1>6 DEF Answer
  <2>2. a.observed = held /\ a.swapped = FALSE
    BY <2>1 DEF Reply
  <2>3. a \in Atomic!Answers(held, r)
    BY <1>6, <2>1, <2>2, <1>4, <1>5
  <2> QED BY <1>2, <1>6, <2>3 DEF Atomic!After, Changes
<1>7. CASE r.kind = "write"
  <2>1. a = Reply(InitialValue, FALSE)
    BY <1>7 DEF Answer
  <2>2. a.observed = InitialValue /\ a.swapped = FALSE
    BY <2>1 DEF Reply
  <2>3. a \in Atomic!Answers(held, r)
    BY <1>7, <2>1, <2>2, <1>4, <1>5
  <2> QED BY <1>2, <1>7, <2>3 DEF Atomic!After, Changes, Put
<1>8. CASE r.kind = "cas"
  <2>1. a = Reply(InitialValue, held = r.from)
    BY <1>8 DEF Answer
  <2>2. a.observed = InitialValue /\ a.swapped = (held = r.from)
    BY <2>1 DEF Reply
  <2>3. a \in Atomic!Answers(held, r)
    BY <1>8, <2>1, <2>2, <1>4, <1>5
  <2> QED BY <1>2, <1>8, <2>3 DEF Atomic!After, Changes, Put
<1> QED BY <1>1, <1>6, <1>7, <1>8 DEF Kinds

LEMMA SeenTaken ==
  ASSUME NEW o \in Ops, NEW r \in Requests, NEW held \in Int,
         \A p \in Ops \ {o} :
           Reported(p)' = Reported(p) /\ Effect(p)' = Effect(p) /\ Believed(p)' = Believed(p),
         r = request[o], held = local[Leader][r.key], request' = request,
         local'[Leader] = [local[Leader] EXCEPT ![r.key] = IF Changes(r, held) THEN Put(r) ELSE held],
         Reported(o) \in {"open", "info"}, Reported(o)' = Reported(o), Believed(o)' = Believed(o),
         Effect(o) = None, Effect(o)' = Answer(r, held)
  PROVE  AtomicStep
<1> DEFINE a == Answer(r, held)
<1>1. a \in Atomic!Answers(held, r)
  BY AnswerFits
<1>2. Atomic!After(held, Atomic!AsOp(r, a)) = IF Changes(r, held) THEN Put(r) ELSE held
  BY AnswerFits
<1>3. [p \in Ops |-> Effect(p)]' = [[p \in Ops |-> Effect(p)] EXCEPT ![o] = a]
  OBVIOUS
<1>4. [p \in Ops |-> Reported(p)]' = [p \in Ops |-> Reported(p)] /\ [p \in Ops |-> Believed(p)]' = [p \in Ops |-> Believed(p)]
  OBVIOUS
<1> HIDE DEF a
<1>5. Atomic!TakeEffect(o)
  <2>1. Reported(o) = [p \in Ops |-> Reported(p)][o] /\ Effect(o) = [p \in Ops |-> Effect(p)][o]
    OBVIOUS
  <2> QED BY <1>1, <1>2, <1>3, <1>4, <2>1 DEF Atomic!TakeEffect, Reported, Believed
<1> QED BY <1>5 DEF AtomicStep, Atomic!Next

-----------------------------------------------------------------------------
(***************************************************************************)
(* Each step of the store is one of the atomic store's, or nothing to it.  *)
(***************************************************************************)
LEMMA AtomicClient ==
  ASSUME StateOK, SealInv, AnswerInv, NEW o \in Ops, Client(o)
  PROVE  AtomicStep
<1>1. /\ local'[Leader] = local[Leader]
      /\ \A p \in Ops \ {o} :
           Reported(p)' = Reported(p) /\ Effect(p)' = Effect(p) /\ Believed(p)' = Believed(p)
  BY OthersSeen DEF Client, Issue, Send, NeverSent, Receive, GiveUp, nodeVars
<1>2. Answering(o)
  BY DEF AnswerInv
<1>3. outcome[o] # "idle" => OneHop(o) /\ Sealed(o) /\ via[o] \in Nodes
  BY DEF SealInv, StateOK, ClientsOK
<1>4. ASSUME NEW n \in Nodes, NEW r \in Requests, Issue(o, n, r) PROVE AtomicStep
  <2>1. /\ outcome[o] = "idle" /\ outcome'[o] = "open" /\ UNCHANGED <<answer, at>>
        /\ request' = [request EXCEPT ![o] = r]
    BY <1>4 DEF Issue, StateOK, ClientsOK
  <2>2. /\ Reported(o) = "idle" /\ Reported(o)' = "open"
        /\ Effect(o)' = Effect(o) /\ Believed(o)' = Believed(o)
    BY <2>1 DEF Reported, Believed, Effect
  <2> QED BY <1>1, <2>1, <2>2, SeenIssued
<1>5. CASE Send(o)
  <2>1. /\ outcome[o] = "open" /\ UNCHANGED <<request, outcome, answer, via, took>>
        /\ via[o] \in Nodes /\ at[o][via[o]].pc = "idle"
    BY <1>5 DEF Send, Unsent, clientVars, StateOK, ClientsOK
  <2>2. Wired \in Handler /\ Wired.pc = "wired"
    BY HandlerTypes DEF Wired, Idle
  <2>3. Turned(o, via[o], Wired)
    BY <1>5, <2>1, <2>2, TurnedIs DEF Send
  <2>4. Effect(o)' = Effect(o)
    BY <2>1, <2>2, <2>3, ConfigAssumption DEF Effect, Turned
  <2>5. Reported(o)' = Reported(o) /\ Believed(o)' = Believed(o)
    BY <2>1 DEF Reported, Believed
  <2> QED BY <1>1, <2>1, <2>4, <2>5, Unseen
<1>6. CASE NeverSent(o)
  <2>1. /\ outcome[o] = "open" /\ outcome'[o] = "fail" /\ UNCHANGED <<request, answer, via, at, took>>
        /\ at[o][via[o]].pc = "idle"
    BY <1>6 DEF NeverSent, Unsent, StateOK, ClientsOK
  <2>2. at[o][Leader].pc # "replied"
    BY <1>3, <2>1 DEF OneHop
  <2>3. /\ Reported(o) = "open" /\ Reported(o)' = "fail" /\ Effect(o) = None
        /\ Effect(o)' = Effect(o) /\ Believed(o)' = Believed(o)
    BY <2>1, <2>2 DEF Reported, Believed, Effect
  <2> QED BY <1>1, <2>1, <2>3, SeenDeclined
<1>7. CASE GiveUp(o)
  <2>1. outcome[o] = "open" /\ outcome'[o] = "info" /\ UNCHANGED <<request, answer, via, at, took>>
    BY <1>7 DEF GiveUp, StateOK, ClientsOK
  <2>2. /\ Reported(o) = "open" /\ Reported(o)' = "info"
        /\ Effect(o)' = Effect(o) /\ Believed(o)' = Believed(o)
    BY <2>1 DEF Reported, Believed, Effect
  <2> QED BY <1>1, <2>1, <2>2, SeenAbandoned
<1>8. CASE Receive(o)
  <2> DEFINE reply == at[o][via[o]].reply
  <2>1. /\ outcome[o] = "open" /\ UNCHANGED <<request, via, at, took>>
        /\ at[o][via[o]].pc = "replied" /\ via[o] \in Nodes
        /\ outcome'[o] = OutcomeOf(reply) /\ answer'[o] = reply.answer
    BY <1>8 DEF Receive, StateOK, ClientsOK
  <2>2. /\ answer[o] = None /\ (reply.kind # "ok" => reply.answer = None)
        /\ Effect(o)' = Effect(o) /\ (OwnAnswer(o)' <=> OwnAnswer(o))
        /\ Reported(o) = "open" /\ Believed(o) = None
    BY <1>2, <2>1 DEF Answering, Effect, OwnAnswer, Reported, Believed
  <2>3. reply.kind \in {"none", "ok", "declined", "error"}
    BY <2>1 DEF StateOK, HandlersOK, Handler
  <2>4. CASE reply.kind = "ok" /\ OwnAnswer(o)
    <3>1. Reported(o)' = "info" /\ Believed(o)' = None
      BY <2>1, <2>2, <2>4 DEF Reported, Believed, OutcomeOf
    <3> QED BY <1>1, <2>1, <2>2, <3>1, SeenAbandoned
  <2>5. CASE reply.kind = "ok" /\ ~OwnAnswer(o)
    <3>1. Reported(o)' = "ok" /\ Believed(o)' = reply.answer
      BY <2>1, <2>2, <2>5 DEF Reported, Believed, OutcomeOf
    <3>2. at[o][Leader].pc = "replied" /\ at[o][Leader].reply = reply
      BY <1>2, <2>1, <2>5 DEF Answering, RepliedOk, Relayed
    <3>3. Effect(o) = reply.answer
      BY <3>2 DEF Effect
    <3>4. reply.answer # None
      <4>1. reply.answer \in Answers
        BY <2>1, <2>5 DEF StateOK, HandlersOK
      <4> QED BY <4>1, ModelAssumption DEF Answers
    <3> QED BY <1>1, <2>1, <2>2, <3>1, <3>3, <3>4, SeenSucceeded
  <2>6. CASE reply.kind = "declined"
    <3>1. Reported(o)' = "fail" /\ Believed(o)' = None
      BY <2>1, <2>2, <2>6 DEF Reported, Believed, OutcomeOf
    <3>2. Effect(o) = None
      <4>1. at[o][Leader].pc = "idle"
        BY <1>3, <2>1, <2>6 DEF Sealed, Declining
      <4> QED BY <4>1 DEF Effect
    <3> QED BY <1>1, <2>1, <2>2, <3>1, <3>2, SeenDeclined
  <2>7. CASE reply.kind \notin {"ok", "declined"}
    <3>1. Reported(o)' = "info" /\ Believed(o)' = None
      BY <2>1, <2>2, <2>7 DEF Reported, Believed, OutcomeOf
    <3> QED BY <1>1, <2>1, <2>2, <3>1, SeenAbandoned
  <2> QED BY <2>3, <2>4, <2>5, <2>6, <2>7
<1> QED BY <1>4, <1>5, <1>6, <1>7, <1>8 DEF Client

(* What an operation that is not yet answered ok takes from its own node   *)
(* is nothing to the atomic store.                                         *)
LEMMA Mute ==
  ASSUME NEW o \in Ops, outcome'[o] = outcome[o], answer'[o] = answer[o],
         outcome[o] = "ok" => (OwnAnswer(o)' <=> OwnAnswer(o))
  PROVE  Reported(o)' = Reported(o) /\ Believed(o)' = Believed(o)
BY DEF Reported, Believed

LEMMA AtomicTakeUp ==
  ASSUME StateOK, SealInv, AnswerInv, NEW o \in Ops, NEW n \in Nodes,
         Lead(o, n) \/ Forward(o, n) \/ ForwardRefused(o, n)
  PROVE  AtomicStep
<1>1. /\ at[o][n].pc = "wired"
      /\ UNCHANGED <<local, request, outcome, answer, via, took>>
  BY DEF Lead, Forward, ForwardRefused, clientVars, nodeVars
<1>2. /\ via[o] \in Nodes /\ n \in {via[o], Leader} /\ OneHop(o)
      /\ at[o] \in [Nodes -> Handler]
  BY <1>1, Midway DEF StateOK, HandlersOK
<1>3. \A p \in Ops \ {o} :
        Reported(p)' = Reported(p) /\ Effect(p)' = Effect(p) /\ Believed(p)' = Believed(p)
  BY OthersSeen DEF Serve
<1>4. Reported(o)' = Reported(o) /\ Believed(o)' = Believed(o)
  BY <1>1, Mute DEF OwnAnswer
<1>5. Effect(o)' = Effect(o)
  <2>1. CASE Lead(o, n)
    <3>1. at'[o][n].pc = "local" /\ \A m \in Nodes \ {n} : at'[o][m] = at[o][m]
      BY <1>2, <2>1 DEF Lead, StateOK, HandlersOK, Handler
    <3> QED BY <1>1, <3>1, ConfigAssumption DEF Effect
  <2>2. CASE Forward(o, n)
    <3>1. leader[n] = Leader /\ n # Leader
      BY <2>2 DEF Forward, StateOK, NodesOK
    <3>2. at[o][Leader].pc # "replied"
      BY <1>1, <1>2, <3>1 DEF OneHop
    <3>3. at'[o][Leader] = Wired
      BY <2>2, <3>1, ConfigAssumption DEF Forward, StateOK, HandlersOK
    <3>4. Wired.pc = "wired"
      BY DEF Wired, Idle
    <3> QED BY <3>2, <3>3, <3>4 DEF Effect
  <2>3. CASE ForwardRefused(o, n)
    <3>1. n # Leader
      BY <2>3 DEF ForwardRefused, StateOK, NodesOK
    <3>2. \E h : at' = [at EXCEPT ![o][n] = h]
      BY <2>3 DEF ForwardRefused
    <3>3. at'[o][Leader] = at[o][Leader]
      BY <3>1, <3>2, ConfigAssumption DEF StateOK, HandlersOK
    <3> QED BY <3>3 DEF Effect
  <2> QED BY <2>1, <2>2, <2>3
<1> QED BY <1>1, <1>3, <1>4, <1>5, Unseen

(* The instant of an operation is the leader's applying it.                *)
LEMMA AtomicApply ==
  ASSUME StateOK, SealInv, AnswerInv, NEW o \in Ops, ApplyLocal(o, Leader)
  PROVE  AtomicStep
<1> DEFINE r == request[o]
           held == local[Leader][r.key]
<1>1. /\ at[o][Leader].pc = "local" /\ UNCHANGED <<request, outcome, answer, via>>
      /\ took' = [took EXCEPT ![o] = @ \cup {<<"local", Leader>>}]
      /\ at' = [at EXCEPT ![o][Leader] = Returned(@, Ok(Answer(r, held)))]
      /\ local' = IF Changes(r, held) THEN [local EXCEPT ![Leader][r.key] = Put(r)] ELSE local
  BY DEF ApplyLocal, clientVars
<1>2. /\ outcome[o] # "idle" /\ via[o] \in Nodes /\ OneHop(o) /\ Sealed(o) /\ Answering(o)
      /\ outcome[o] = "ok" => Leader # via[o]
  BY <1>1, Midway, ConfigAssumption
<1>3. r \in Requests /\ r.key \in Registers /\ Put(r) \in Int
  <2>1. r \in Requests
    BY <1>2 DEF StateOK, ClientsOK
  <2> QED BY <2>1, PutType
<1>4. held \in Int /\ local[Leader] \in [Registers -> Int]
  BY <1>3, ConfigAssumption DEF StateOK, NodesOK
<1>5. \A p \in Ops \ {o} :
        Reported(p)' = Reported(p) /\ Effect(p)' = Effect(p) /\ Believed(p)' = Believed(p)
  BY OthersSeen, ConfigAssumption DEF Serve
<1>6. local'[Leader] = [local[Leader] EXCEPT ![r.key] = IF Changes(r, held) THEN Put(r) ELSE held]
  <2>1. CASE Changes(r, held)
    BY <1>1, <1>4, <2>1, ConfigAssumption DEF StateOK, NodesOK
  <2>2. CASE ~Changes(r, held)
    BY <1>1, <1>4, <2>2
  <2> QED BY <2>1, <2>2
<1>7. Reported(o)' = Reported(o) /\ Believed(o)' = Believed(o)
  <2>1. took'[o] = took[o] \cup {<<"local", Leader>>}
    BY <1>1 DEF StateOK, HandlersOK
  <2>2. OwnAnswer(o)' <=> OwnAnswer(o)
    BY <1>1, <2>1 DEF OwnAnswer
  <2> QED BY <1>1, <2>2, Mute
<1>8. Reported(o) \in {"open", "info"}
  <2>1. outcome[o] # "fail"
    BY <1>1, <1>2 DEF Sealed, OneHop, Declining
  <2>2. outcome[o] = "ok" => OwnAnswer(o)
    BY <1>1, <1>2 DEF Answering, RepliedOk, Relayed
  <2>3. outcome[o] \in {"open", "ok", "info"}
    BY <1>2, <2>1 DEF StateOK, ClientsOK, Outcomes
  <2> QED BY <2>2, <2>3 DEF Reported
<1>9. Effect(o) = None /\ Effect(o)' = Answer(r, held)
  <2> DEFINE h == Returned(at[o][Leader], Ok(Answer(r, held)))
  <2>1. at[o][Leader] \in Handler
    BY ConfigAssumption DEF StateOK, HandlersOK
  <2>2. h.pc = "replied" /\ h.reply = Ok(Answer(r, held))
    BY <2>1, ReturnedReply
  <2>3. h.reply.answer = Answer(r, held)
    BY <2>2 DEF Ok
  <2>4. at' = [at EXCEPT ![o][Leader] = h]
    BY <1>1
  <2> HIDE DEF h
  <2>5. at'[o][Leader] = h
    BY <2>4, ConfigAssumption DEF StateOK, HandlersOK
  <2> QED BY <1>1, <2>2, <2>3, <2>5 DEF Effect
<1> QED BY <1>1, <1>3, <1>4, <1>5, <1>6, <1>7, <1>8, <1>9, SeenTaken

LEMMA AtomicElsewhere ==
  ASSUME StateOK, SealInv, AnswerInv, NEW o \in Ops, NEW n \in Nodes \ {Leader}, Run(o, n)
  PROVE  AtomicStep
<1>1. /\ at[o][n].pc \in {"local", "awaiting", "refused", "cache"}
      /\ UNCHANGED <<request, outcome, answer, via>>
  BY DEF Run, ApplyLocal, ForwardSucceeded, ForwardFailed, ServeFromCache, MayFail, clientVars
<1>2. outcome[o] # "ok"
  BY <1>1, Midway
<1>3. local'[Leader] = local[Leader]
  BY ConfigAssumption DEF Run, ApplyLocal, ForwardSucceeded, ForwardFailed, ServeFromCache, StateOK, NodesOK
<1>4. PICK h : at' = [at EXCEPT ![o][n] = h]
  BY DEF Run, ApplyLocal, ForwardSucceeded, ForwardFailed, ServeFromCache
<1>5. at'[o][Leader] = at[o][Leader]
  BY <1>4, ConfigAssumption DEF StateOK, HandlersOK
<1>6. Reported(o)' = Reported(o) /\ Believed(o)' = Believed(o) /\ Effect(o)' = Effect(o)
  BY <1>1, <1>2, <1>5, Mute DEF Effect
<1>7. \A p \in Ops \ {o} :
        Reported(p)' = Reported(p) /\ Effect(p)' = Effect(p) /\ Believed(p)' = Believed(p)
  BY OthersSeen DEF Serve, Run
<1> QED BY <1>1, <1>3, <1>6, <1>7, Unseen

LEMMA AtomicRun ==
  ASSUME StateOK, SealInv, AnswerInv, NEW o \in Ops, NEW n \in Nodes, Run(o, n)
  PROVE  AtomicStep
<1>1. CASE n # Leader
  BY <1>1, AtomicElsewhere
<1>2. CASE n = Leader
  <2>1. outcome[o] # "idle" => at[o][Leader].pc \in {"idle", "wired", "local", "replied"}
    BY DEF SealInv, OneHop
  <2>2. outcome[o] = "idle" => at[o][Leader].pc = "idle"
    BY ConfigAssumption DEF SealInv, Untouched
  <2>3. ApplyLocal(o, Leader)
    BY <1>2, <2>1, <2>2 DEF Run, ForwardSucceeded, ForwardFailed, ServeFromCache, MayFail
  <2> QED BY <2>3, AtomicApply
<1> QED BY <1>1, <1>2

LEMMA AtomicInit == Init => Atomic!Init
<1> SUFFICES ASSUME Init PROVE Atomic!Init
  OBVIOUS
<1>1. local[Leader] = [k \in Registers |-> Atomic!InitialValue]
  BY ConfigAssumption DEF Init, InitialValue, Atomic!InitialValue
<1>2. \A o \in Ops : outcome[o] = "idle" /\ answer[o] = None /\ Effect(o) = None
  BY ConfigAssumption DEF Init, Effect, Idle
<1>3. request = [o \in Ops |-> None]
  BY DEF Init
<1> QED BY <1>1, <1>2, <1>3 DEF Atomic!Init

LEMMA AtomicNext == StateOK /\ SealInv /\ AnswerInv /\ [Next]_vars => AtomicStep
<1> SUFFICES ASSUME StateOK, SealInv, AnswerInv, [Next]_vars PROVE AtomicStep
  OBVIOUS
<1>1. ASSUME NEW o \in Ops, Client(o) PROVE AtomicStep
  BY <1>1, AtomicClient
<1>2. ASSUME NEW o \in Ops, NEW n \in Nodes, Serve(o, n) PROVE AtomicStep
  BY <1>2, AtomicTakeUp, AtomicRun DEF Serve, Run
<1>3. CASE (\E c \in Configs : Configure(c)) \/ UNCHANGED vars
  <2>1. UNCHANGED <<local, request, outcome, answer, via, at, took>>
    BY <1>3 DEF Configure, vars, nodeVars, clientVars
  <2> QED BY <2>1, SeenKept, Unseen
<1> QED BY <1>1, <1>2, <1>3 DEF Next

(* The forwarding store, answers given from a node's own copy put aside,   *)
(* is atomic for any numbers of nodes, operations and registers, whatever  *)
(* the network loses or delays and whatever is configured meanwhile: an    *)
(* operation takes effect at most once, when the leader applies it         *)
(* (forward.go:19-29, single.go:39-62).                                    *)
THEOREM LeaderIsAtomic == Spec => ImplementsAtomicStore
<1>1. Init => StateOK /\ SealInv /\ AnswerInv /\ Atomic!Init
  BY TypeInit, SealInit, AnsweringInit, AtomicInit
<1>2. StateOK /\ SealInv /\ AnswerInv /\ [Next]_vars => (StateOK /\ SealInv /\ AnswerInv)'
  BY TypeNext, SealNext, AnsweringNext
<1>3. StateOK /\ SealInv /\ AnswerInv /\ [Next]_vars => [Atomic!Next]_(Atomic!atomicVars)
  BY AtomicNext DEF AtomicStep
<1> QED BY <1>1, <1>2, <1>3, PTL DEF Spec, ImplementsAtomicStore, Atomic!Spec

=============================================================================
