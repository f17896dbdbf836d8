--------------------------------- MODULE Link ----------------------------------
(***************************************************************************)
(* One proxied TCP hop (internal/faultnet/link.go): an accept goroutine    *)
(* per listener, a handler and two pumps per connection, a fault that any  *)
(* goroutine may set while they run, and a Close that waits for them all.  *)
(*                                                                         *)
(* A stream is the numbers of its chunks.  The peers at both ends send,    *)
(* stop and vanish when they like; the lock is held from the moment Set    *)
(* stores the fault until it has dealt with sockets and listener, and only *)
(* what the code does without the lock may happen in between.              *)
(***************************************************************************)
EXTENDS Integers, Sequences, FiniteSets

CONSTANTS
  Conns,      \* dials a client may make
  Chunks,     \* chunks each end of a connection may send
  Faults,     \* what Set may be called with
  MaxSets,    \* bound: calls of Set
  None

ASSUME LinkAssumption ==
  /\ Chunks \in Nat /\ MaxSets \in Nat
  /\ Faults \subseteq {"pass", "delay", "drop", "reset", "refuse"}
  /\ None \notin Faults

VARIABLES
  fault,      \* the fault in force, read without the lock
  setting,    \* the fault a Set in progress is applying: the lock is held
  sets,       \* how often Set has been called
  ln,         \* the current listener, 0 while there is none
  acceptors,  \* the listeners whose accept goroutine is running
  conn,       \* each connection's handler
  open,       \* the sockets that are open on the link's side
  owned,      \* the sockets in the conns map
  pump,       \* both directions of each connection
  wg,         \* the wait group
  closing,    \* where Close is
  stats,      \* accepted, refused and resetConns
  leaked,     \* history variable: chunks written since the fault was stored
  harmed      \* history variable: connections that have lived under a cut

netVars == <<conn, open, owned, pump>>
vars == <<fault, setting, sets, ln, acceptors, netVars, wg, closing, stats, leaked, harmed>>

Directions == {"forward", "back"}
Source(d)  == IF d = "forward" THEN "client" ELSE "target"
Dest(d)    == IF d = "forward" THEN "target" ELSE "client"
Closed     == closing # "open"
Unlocked   == setting = None
Cutting    == {"reset", "refuse"}

Started   == 1

Init ==
  /\ fault = "pass" /\ setting = None /\ sets = 0
  /\ ln = 1 /\ acceptors = {1}
  /\ conn = [c \in Conns |-> [pc |-> "none", via |-> 0]]
  /\ open = {} /\ owned = {}
  /\ pump = [c \in Conns |-> [d \in Directions |-> [pc |-> "off", read |-> 0, written |-> <<>>]]]
  /\ wg = Started /\ closing = "open"
  /\ stats = [accepted |-> 0, refused |-> 0, reset |-> 0]
  /\ leaked = [c \in Conns |-> [d \in Directions |-> 0]]
  /\ harmed = {}

-----------------------------------------------------------------------------
(***************************************************************************)
(* Set: store the fault, then tear down what Reset and Refuse tear down    *)
(* and close or bring back the listener, which may fail.                   *)
(***************************************************************************)
SetStore(f) ==
  /\ Unlocked /\ ~Closed /\ sets < MaxSets
  /\ setting' = f /\ fault' = f /\ sets' = sets + 1
  /\ leaked' = [c \in Conns |-> [d \in Directions |-> 0]]
  /\ harmed' = IF f \in Cutting \cup {"drop"} THEN Conns ELSE harmed
  /\ UNCHANGED <<ln, acceptors, netVars, wg, closing, stats>>

Torn        == owned

TearDown == open' = open \ Torn /\ owned' = owned \ Torn

OwnedClients == Cardinality({s \in owned : s[2] = "client"})

Listen ==
  \/ ln # 0 /\ UNCHANGED <<ln, acceptors, wg>>
  \/ ln = 0 /\ ln' = sets + 1 /\ acceptors' = acceptors \cup {sets + 1} /\ wg' = wg + 1
  \/ ln = 0 /\ UNCHANGED <<ln, acceptors, wg>>

SetApply ==
  /\ ~Unlocked
  /\ \/ /\ setting = "refuse" /\ TearDown
        /\ stats' = [stats EXCEPT !.refused = @ + OwnedClients]
        /\ ln' = 0 /\ UNCHANGED <<acceptors, wg>>
     \/ /\ setting = "reset" /\ TearDown
        /\ stats' = [stats EXCEPT !.reset = @ + OwnedClients]
        /\ Listen
     \/ /\ setting \notin Cutting
        /\ Listen /\ UNCHANGED <<open, owned, stats>>
  /\ setting' = None
  /\ UNCHANGED <<fault, sets, conn, pump, closing, leaked, harmed>>

Close ==
  /\ Unlocked /\ ~Closed
  /\ closing' = "waiting"
  /\ ln' = 0 /\ TearDown
  /\ UNCHANGED <<fault, setting, sets, acceptors, conn, pump, wg, stats, leaked, harmed>>

NoneAccepting == acceptors = {}  \* mutant: only the accept goroutines are waited for
Joined        == wg = 0

CloseReturns ==
  /\ closing = "waiting" /\ Joined
  /\ closing' = "returned"
  /\ UNCHANGED <<fault, setting, sets, ln, acceptors, netVars, wg, stats, leaked, harmed>>

-----------------------------------------------------------------------------
(***************************************************************************)
(* accept: a dial that the listener's backlog took is accepted, registered *)
(* and given a handler; a dial still in the backlog when the listener is   *)
(* closed is reset by the system.                                          *)
(***************************************************************************)
Goto(c, pc) == conn' = [conn EXCEPT ![c].pc = pc]

Dial(c) ==
  /\ conn[c].pc = "none" /\ ln # 0
  /\ conn' = [conn EXCEPT ![c] = [pc |-> "backlog", via |-> ln]]
  /\ UNCHANGED <<fault, setting, sets, ln, acceptors, open, owned, pump, wg, closing, stats, leaked, harmed>>

Busy(g) == \E c \in Conns : conn[c].pc = "accepted" /\ conn[c].via = g

Accept(c) ==
  /\ conn[c].pc = "backlog" /\ conn[c].via = ln /\ ln \in acceptors /\ ~Busy(ln)
  /\ Goto(c, "accepted")
  /\ open' = open \cup {<<c, "client">>}
  /\ stats' = [stats EXCEPT !.accepted = @ + 1]
  /\ harmed' = IF fault \in Cutting \cup {"drop"} THEN harmed \cup {c} ELSE harmed \ {c}
  /\ UNCHANGED <<fault, setting, sets, ln, acceptors, owned, pump, wg, closing, leaked>>

BacklogReset(c) ==
  /\ conn[c].pc = "backlog" /\ conn[c].via # ln
  /\ Goto(c, "gone")
  /\ UNCHANGED <<fault, setting, sets, ln, acceptors, open, owned, pump, wg, closing, stats, leaked, harmed>>

(* A failed Accept ends the goroutine, whether or not the listener has     *)
(* been closed; one left open is not accepted from again.                  *)
AcceptExit(g) ==
  /\ g \in acceptors /\ ~Busy(g)
  /\ acceptors' = acceptors \ {g} /\ wg' = wg - 1
  /\ UNCHANGED <<fault, setting, sets, ln, netVars, closing, stats, leaked, harmed>>

RegistersAnyway == TRUE  \* mutant: register does not look whether the link is closed
Registers == ~Closed

Register(c) ==
  /\ conn[c].pc = "accepted" /\ Unlocked
  /\ IF Registers
       THEN /\ Goto(c, "check") /\ wg' = wg + 1
            /\ owned' = owned \cup {<<c, "client">>}
            /\ UNCHANGED <<acceptors, open>>
       ELSE /\ Goto(c, "gone") /\ wg' = wg - 1
            /\ open' = open \ {<<c, "client">>}
            /\ acceptors' = acceptors \ {conn[c].via}
            /\ UNCHANGED owned
  /\ UNCHANGED <<fault, setting, sets, ln, pump, closing, stats, leaked, harmed>>

-----------------------------------------------------------------------------
(***************************************************************************)
(* handle: turn the client away, or dial the target, register it and run   *)
(* the pumps.                                                              *)
(***************************************************************************)
TurnedByReset == fault = "reset"  \* mutant: Refuse is left to the closed listener
Turned        == fault \in Cutting

Check(c) ==
  /\ conn[c].pc = "check"
  /\ IF Turned
       THEN /\ Goto(c, "release") /\ open' = open \ {<<c, "client">>}
            /\ stats' = IF fault = "refuse" THEN [stats EXCEPT !.refused = @ + 1]
                        ELSE [stats EXCEPT !.reset = @ + 1]
       ELSE Goto(c, "dial") /\ UNCHANGED <<open, stats>>
  /\ UNCHANGED <<fault, setting, sets, ln, acceptors, owned, pump, wg, closing, leaked, harmed>>

DialTarget(c) ==
  /\ conn[c].pc = "dial"
  /\ \/ Goto(c, "join") /\ open' = open \cup {<<c, "target">>}
     \/ Goto(c, "release") /\ UNCHANGED open
  /\ UNCHANGED <<fault, setting, sets, ln, acceptors, owned, pump, wg, closing, stats, leaked, harmed>>

Join(c) ==
  /\ conn[c].pc = "join" /\ Unlocked
  /\ IF Registers
       THEN /\ Goto(c, "proxy") /\ wg' = wg + 1
            /\ owned' = owned \cup {<<c, "target">>}
            /\ pump' = [pump EXCEPT ![c] = [d \in Directions |-> [pump[c][d] EXCEPT !.pc = "read"]]]
            /\ UNCHANGED open
       ELSE /\ Goto(c, "release") /\ open' = open \ {<<c, "target">>}
            /\ UNCHANGED <<owned, pump, wg>>
  /\ UNCHANGED <<fault, setting, sets, ln, acceptors, closing, stats, leaked, harmed>>

Release(c, side, from, to) ==
  /\ conn[c].pc = from /\ Unlocked
  /\ Goto(c, to) /\ wg' = wg - 1
  /\ open' = open \ {<<c, side>>} /\ owned' = owned \ {<<c, side>>}
  /\ UNCHANGED <<fault, setting, sets, ln, acceptors, pump, closing, stats, leaked, harmed>>

ReleaseTarget(c) ==
  /\ \A d \in Directions : pump[c][d].pc = "done"
  /\ Release(c, "target", "proxy", "release")

ReleaseClient(c) == Release(c, "client", "release", "gone")

-----------------------------------------------------------------------------
(***************************************************************************)
(* pump: read a chunk, look at the fault, perhaps hold it, write it.       *)
(***************************************************************************)
At(c, d, pc)    == pump[c][d].pc = pc
PumpTo(c, d, pc) == pump' = [pump EXCEPT ![c][d].pc = pc]
PumpOnly == UNCHANGED <<fault, setting, sets, ln, acceptors, conn, open, owned, wg, closing, stats, harmed>>

Read(c, d) ==
  /\ At(c, d, "read") /\ <<c, Source(d)>> \in open
  /\ pump[c][d].read < Chunks
  /\ pump' = [pump EXCEPT ![c][d] = [pc |-> "decide", read |-> @.read + 1, written |-> @.written]]
  /\ PumpOnly /\ UNCHANGED leaked

(* The peer has stopped sending, or the socket has been closed.            *)
ReadEnds(c, d) ==
  /\ At(c, d, "read") /\ PumpTo(c, d, "done")
  /\ PumpOnly /\ UNCHANGED leaked

SwallowsForward(d) == fault = "drop" /\ d = "forward"  \* mutant: one direction is forgotten
Swallows(d)        == fault = "drop"

Decide(c, d) ==
  /\ At(c, d, "decide")
  /\ PumpTo(c, d, IF Swallows(d) THEN "read" ELSE IF fault \in Cutting THEN "done"
                  ELSE IF fault = "delay" THEN "hold" ELSE "write")
  /\ PumpOnly /\ UNCHANGED leaked

HoldLapses == IF fault = "delay" THEN "write" ELSE "read"  \* mutant: a heal lets go of what is held
AfterHold  == "write"

(* The delay is over, or Close has cut it short.                           *)
Hold(c, d) ==
  /\ At(c, d, "hold")
  /\ PumpTo(c, d, AfterHold) \/ (Closed /\ PumpTo(c, d, "done"))
  /\ PumpOnly /\ UNCHANGED leaked

Write(c, d) ==
  /\ At(c, d, "write") /\ <<c, Dest(d)>> \in open
  /\ pump' = [pump EXCEPT ![c][d] =
                [pc |-> "read", read |-> @.read, written |-> Append(@.written, @.read)]]
  /\ leaked' = [leaked EXCEPT ![c][d] = @ + 1]
  /\ PumpOnly

(* The peer has gone, or the socket has been closed.                       *)
WriteFails(c, d) ==
  /\ At(c, d, "write") /\ PumpTo(c, d, "done")
  /\ PumpOnly /\ UNCHANGED leaked

-----------------------------------------------------------------------------
Handle(c) ==
  \/ Register(c) \/ Check(c) \/ DialTarget(c) \/ Join(c) \/ ReleaseTarget(c) \/ ReleaseClient(c)

Pump(c, d) ==
  \/ Read(c, d) \/ ReadEnds(c, d) \/ Decide(c, d) \/ Hold(c, d) \/ Write(c, d) \/ WriteFails(c, d)

(* What a pump does without its peers: its socket is closed under it.      *)
Woken(c, d) ==
  \/ Decide(c, d) \/ Hold(c, d)
  \/ <<c, Source(d)>> \notin open /\ ReadEnds(c, d)
  \/ <<c, Dest(d)>> \notin open /\ WriteFails(c, d)

Next ==
  \/ \E f \in Faults : SetStore(f)
  \/ SetApply \/ Close \/ CloseReturns
  \/ \E c \in Conns : Dial(c) \/ Accept(c) \/ BacklogReset(c) \/ Handle(c)
  \/ \E g \in acceptors : AcceptExit(g)
  \/ \E c \in Conns, d \in Directions : Pump(c, d)

Spec == Init /\ [][Next]_vars

(***************************************************************************)
(* Goroutines are scheduled, a dial and a hold end, and so does an Accept  *)
(* on a closed listener; peers owe nothing.                                *)
(***************************************************************************)
FairSpec ==
  /\ Spec
  /\ WF_vars(SetApply) /\ WF_vars(CloseReturns)
  /\ \A c \in Conns : WF_vars(Handle(c))
  /\ \A g \in 1..(MaxSets + 1) : WF_vars(g # ln /\ AcceptExit(g))
  /\ \A c \in Conns, d \in Directions : WF_vars(Woken(c, d))

-----------------------------------------------------------------------------
(* While Reset or Refuse is in force no client is being proxied: whichever *)
(* of the teardown and the handler came first, the other saw it            *)
(* (link.go:273-294, 394-410, 425-437); and "no round trip completes":     *)
(* nothing is written in either direction, not even a chunk a pump had     *)
(* already decided to pass on (link.go:71-80).                             *)
CutOff     == fault \in Cutting /\ Unlocked
Proxied(c)  == conn[c].pc \in {"dial", "join", "proxy"} /\ <<c, "client">> \in open
Writes(c)  == \E d \in Directions : pump'[c][d].written # pump[c][d].written

CutIsComplete ==
  [](CutOff => \A c \in Conns : ~Proxied(c)) /\ [][CutOff => \A c \in Conns : ~Writes(c)]_vars

(* A blackhole lets through at most the one chunk each direction of a      *)
(* connection already held when it fell (link.go:465-505).                 *)
DropLeaksOne ==
  fault = "drop" => \A c \in Conns, d \in Directions : leaked[c][d] <= 1

(* A connection that never lived under Drop, Reset or Refuse has no hole   *)
(* in its stream, however faults changed and chunks were held              *)
(* (link.go:36-61).                                                        *)
WholeUnlessHarmed ==
  \A c \in Conns \ harmed, d \in Directions :
    LET w == pump[c][d].written IN w = [i \in 1..Len(w) |-> i]

(* "Close returns only once every goroutine the link started has exited",  *)
(* with every socket closed, and none starts later; the wait group that    *)
(* says so never goes negative, which panics (link.go:310-332).            *)
CloseJoinsAll ==
  /\ wg >= 0
  /\ closing = "returned" =>
       /\ open = {} /\ acceptors = {}
       /\ \A c \in Conns : conn[c].pc \in {"none", "backlog", "gone"}

(* Close returns, whatever the peers do and however long a delay is        *)
(* (link.go:310-332, 511-525).                                             *)
CloseEnds == closing = "waiting" ~> closing = "returned"

=============================================================================
