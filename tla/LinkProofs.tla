------------------------------ MODULE LinkProofs -------------------------------
(***************************************************************************)
(* For any number of connections, chunks and calls of Set: the wait group  *)
(* counts the goroutines there are, a cut reaches every connection, a      *)
(* blackhole leaks at most what was held, and a connection no cut has met  *)
(* is carried whole.                                                       *)
(***************************************************************************)
EXTENDS Link, TLAPS, FiniteSetTheorems, SequenceTheorems

Stages == {"none", "backlog", "accepted", "check", "dial", "join", "proxy", "release", "gone"}
Early  == {"none", "backlog", "accepted", "check", "dial", "join"}
Served == {"check", "dial", "join", "proxy", "release"}
Steps  == {"off", "read", "decide", "hold", "write", "done"}
Busied == {"read", "decide", "hold", "write"}
Ends   == {"client", "target"}
Stream == [pc : Steps, read : Nat, written : Seq(Nat)]
Unused == [pc |-> "off", read |-> 0, written |-> <<>>]

-----------------------------------------------------------------------------
(***************************************************************************)
(* Types; and what the lock orders: a Set in progress is applying the      *)
(* fault it stored, and never on a closed link, which has no listener.     *)
(***************************************************************************)
Shapes ==
  /\ sets \in Nat /\ ln \in Nat /\ acceptors \subseteq 1..(sets + 1)
  /\ conn \in [Conns -> [pc : Stages, via : Nat]]
  /\ open \subseteq Conns \X Ends /\ owned \subseteq Conns \X Ends
  /\ pump \in [Conns -> [Directions -> Stream]]
  /\ wg \in Int
  /\ closing \in {"open", "waiting", "returned"}
  /\ leaked \in [Conns -> [Directions -> Nat]]
  /\ harmed \subseteq Conns

Ordered ==
  /\ setting # None => fault = setting /\ ~Closed /\ sets + 1 \notin acceptors
  /\ Closed => ln = 0

(***************************************************************************)
(* One connection: which of its sockets can be open where its handler is,  *)
(* that those the handler has registered are in the map a teardown goes    *)
(* through, and that its pumps run exactly while it is proxied.            *)
(***************************************************************************)
Life(c) ==
  /\ conn[c].pc = "backlog" => conn[c].via # 0
  /\ conn[c].pc = "accepted" => conn[c].via \in acceptors
  /\ <<c, "client">> \in open =>
       /\ conn[c].pc \in Served \cup {"accepted"}
       /\ conn[c].pc \in Served => <<c, "client">> \in owned
  /\ <<c, "target">> \in open =>
       /\ conn[c].pc \in {"join", "proxy"}
       /\ conn[c].pc = "proxy" => <<c, "target">> \in owned
  /\ conn[c].pc \in Early => \A d \in Directions : pump[c][d] = Unused
  /\ \A d \in Directions : pump[c][d].pc \in Busied => conn[c].pc = "proxy"

Alone ==
  \A b, c \in Conns :
    b # c /\ conn[b].pc = "accepted" /\ conn[c].pc = "accepted" => conn[b].via # conn[c].via

LinkInv == Shapes /\ Ordered /\ Alone /\ \A c \in Conns : Life(c)

(***************************************************************************)
(* The wait group: one for each accept goroutine and each client socket    *)
(* registered, and one more for each target.                               *)
(***************************************************************************)
Handling == {c \in Conns : conn[c].pc \in Served}
Proxying == {c \in Conns : conn[c].pc = "proxy"}

Counted ==
  /\ IsFiniteSet(acceptors) /\ IsFiniteSet(Handling) /\ IsFiniteSet(Proxying)
  /\ wg = Cardinality(acceptors) + Cardinality(Handling) + Cardinality(Proxying)
  /\ closing = "returned" => wg = 0

(* Under Drop a direction has leaked, or holds, one chunk at most.         *)
LeakInv ==
  fault = "drop" => \A c \in Conns, d \in Directions :
    /\ leaked[c][d] <= 1
    /\ pump[c][d].pc \in {"hold", "write"} => leaked[c][d] = 0

(* While a cut is in force every connection has lived under it; what a     *)
(* connection that has not read and did not write is in the pump's hand.   *)
WholeInv ==
  /\ fault \in Cutting \cup {"drop"} => harmed = Conns
  /\ \A c \in Conns \ harmed, d \in Directions :
       LET p == pump[c][d]
       IN  /\ \A i \in 1..Len(p.written) : p.written[i] = i
           /\ p.pc \in {"off", "read"} => p.read = Len(p.written)
           /\ p.pc \in {"decide", "hold", "write"} => p.read = Len(p.written) + 1

(* Once a cut has been applied no client is served, and a pump that still  *)
(* holds a chunk has lost both its sockets.                                *)
CutInv ==
  CutOff => \A c \in Conns :
    /\ ~Proxied(c)
    /\ \A d \in Directions : pump[c][d].pc \in {"hold", "write"} =>
         <<c, "client">> \notin open /\ <<c, "target">> \notin open

-----------------------------------------------------------------------------
(***************************************************************************)
(* What the steps do, as the proofs read it.                               *)
(***************************************************************************)
LEMMA GotoIs ==
  ASSUME Shapes, NEW c \in Conns, NEW to \in Stages, Goto(c, to)
  PROVE  /\ conn' \in [Conns -> [pc : Stages, via : Nat]]
         /\ conn'[c].pc = to /\ conn'[c].via = conn[c].via
         /\ \A b \in Conns \ {c} : conn'[b] = conn[b]
<1>1. conn \in [Conns -> [pc : Stages, via : Nat]]
  BY DEF Shapes
<1>2. conn' = [conn EXCEPT ![c].pc = to]
  BY DEF Goto
<1> QED
  BY <1>1, <1>2

LEMMA PumpToIs ==
  ASSUME Shapes, NEW c \in Conns, NEW d \in Directions, NEW h \in Stream,
         pump' = [pump EXCEPT ![c][d] = h]
  PROVE  /\ pump' \in [Conns -> [Directions -> Stream]]
         /\ pump'[c][d] = h
         /\ \A b \in Conns, e \in Directions : b # c \/ e # d => pump'[b][e] = pump[b][e]
<1>1. pump \in [Conns -> [Directions -> Stream]]
  BY DEF Shapes
<1> HIDE DEF Stream, Directions
<1> QED
  BY <1>1

(* The transitions of a pump: only its own state and what leaked change.   *)
Turn(c, d) ==
  LET p == pump[c][d]
      q == pump'[c][d]
  IN  \/ /\ p.pc = "read" /\ q.pc = "decide"
         /\ q.read = p.read + 1 /\ q.written = p.written /\ leaked' = leaked
      \/ /\ p.pc = "decide" /\ q.read = p.read /\ q.written = p.written /\ leaked' = leaked
         /\ q.pc = IF Swallows(d) THEN "read" ELSE IF fault \in Cutting THEN "done"
                   ELSE IF fault = "delay" THEN "hold" ELSE "write"
      \/ /\ p.pc = "hold" /\ q.pc \in {"write", "done"}
         /\ q.read = p.read /\ q.written = p.written /\ leaked' = leaked
      \/ /\ p.pc = "write" /\ q.pc = "read" /\ <<c, Dest(d)>> \in open
         /\ q.read = p.read /\ q.written = Append(p.written, p.read)
         /\ leaked'[c][d] = leaked[c][d] + 1
      \/ /\ p.pc \in {"read", "write"} /\ q.pc = "done"
         /\ q.read = p.read /\ q.written = p.written /\ leaked' = leaked

Apart(c, d) ==
  /\ pump' \in [Conns -> [Directions -> Stream]] /\ leaked' \in [Conns -> [Directions -> Nat]]
  /\ \A b \in Conns, e \in Directions : b # c \/ e # d =>
       pump'[b][e] = pump[b][e] /\ leaked'[b][e] = leaked[b][e]

LEMMA PumpMoves ==
  ASSUME Shapes, NEW c \in Conns, NEW d \in Directions, Pump(c, d)
  PROVE  PumpOnly /\ pump[c][d].pc \in Busied /\ Apart(c, d) /\ Turn(c, d)
<1> DEFINE p == pump[c][d]
           moved(pc) == [p EXCEPT !.pc = pc]
<1>1. p \in Stream /\ p.pc \in Steps /\ p.read \in Nat /\ p.written \in Seq(Nat)
  BY DEF Shapes, Stream
<1>2. ASSUME NEW to \in Steps
      PROVE  /\ moved(to) \in Stream /\ moved(to).pc = to
             /\ moved(to).read = p.read /\ moved(to).written = p.written
  BY <1>1 DEF Stream
<1>3. ASSUME NEW to \in Steps, PumpTo(c, d, to)
      PROVE  /\ pump'[c][d] = moved(to)
             /\ pump' \in [Conns -> [Directions -> Stream]]
             /\ \A b \in Conns, e \in Directions : b # c \/ e # d => pump'[b][e] = pump[b][e]
  <2>1. pump' = [pump EXCEPT ![c][d] = moved(to)]
    BY <1>3 DEF PumpTo
  <2> HIDE DEF moved
  <2> QED
    BY <1>2, <2>1, PumpToIs
<1> DEFINE Quiet == /\ leaked' \in [Conns -> [Directions -> Nat]]
                    /\ \A b \in Conns, e \in Directions :
                         b # c \/ e # d => leaked'[b][e] = leaked[b][e]
<1>0. leaked' = leaked => Quiet
  BY DEF Shapes
<1> HIDE DEF Quiet
<1>4. CASE Read(c, d)
  <2> DEFINE h == [pc |-> "decide", read |-> p.read + 1, written |-> p.written]
  <2>1. /\ h \in Stream /\ h.pc = "decide" /\ h.read = p.read + 1 /\ h.written = p.written
    BY <1>1 DEF Stream, Steps
  <2>2. pump' = [pump EXCEPT ![c][d] = h]
    BY <1>4 DEF Read
  <2> HIDE DEF h
  <2>3. /\ pump'[c][d] = h
        /\ pump' \in [Conns -> [Directions -> Stream]]
        /\ \A b \in Conns, e \in Directions : b # c \/ e # d => pump'[b][e] = pump[b][e]
    BY <2>1, <2>2, PumpToIs
  <2>4. p.pc = "read" /\ PumpOnly /\ leaked' = leaked
    BY <1>4 DEF Read, At
  <2> QED
    BY <1>0, <1>1, <2>1, <2>3, <2>4 DEF Busied, Quiet, Apart, Turn
<1>5. CASE ReadEnds(c, d)
  <2>1. p.pc = "read" /\ PumpOnly /\ leaked' = leaked /\ PumpTo(c, d, "done") /\ "done" \in Steps
    BY <1>5 DEF ReadEnds, At, Steps
  <2>2. /\ pump'[c][d] = moved("done") /\ moved("done") \in Stream /\ moved("done").pc = "done"
        /\ moved("done").read = p.read /\ moved("done").written = p.written
        /\ pump' \in [Conns -> [Directions -> Stream]]
        /\ \A b \in Conns, e \in Directions : b # c \/ e # d => pump'[b][e] = pump[b][e]
    BY <1>2, <1>3, <2>1
  <2> HIDE DEF moved
  <2> QED
    BY <1>0, <1>1, <2>1, <2>2 DEF Busied, Quiet, Apart, Turn
<1>6. CASE Decide(c, d)
  <2> DEFINE to == IF Swallows(d) THEN "read" ELSE IF fault \in Cutting THEN "done"
                   ELSE IF fault = "delay" THEN "hold" ELSE "write"
  <2>1. p.pc = "decide" /\ PumpOnly /\ leaked' = leaked /\ PumpTo(c, d, to) /\ to \in Steps
    BY <1>6 DEF Decide, At, Steps
  <2>2. p.pc \in Busied
    BY <2>1 DEF Busied
  <2>3. /\ pump'[c][d] = moved(to) /\ moved(to) \in Stream /\ moved(to).pc = to
        /\ moved(to).read = p.read /\ moved(to).written = p.written
        /\ pump' \in [Conns -> [Directions -> Stream]]
        /\ \A b \in Conns, e \in Directions : b # c \/ e # d => pump'[b][e] = pump[b][e]
    BY <1>2, <1>3, <2>1
  <2> HIDE DEF moved
  <2> QED
    BY <1>0, <1>1, <2>1, <2>2, <2>3 DEF Quiet, Apart, Turn
<1>7. CASE Hold(c, d)
  <2>1. /\ p.pc = "hold" /\ PumpOnly /\ leaked' = leaked
        /\ PumpTo(c, d, "write") \/ PumpTo(c, d, "done")
    BY <1>7 DEF Hold, At, AfterHold
  <2>2. "write" \in Steps /\ "done" \in Steps /\ p.pc \in Busied
    BY <2>1 DEF Steps, Busied
  <2>3. ASSUME NEW to \in {"write", "done"}, PumpTo(c, d, to)
        PROVE  /\ pump'[c][d] = moved(to) /\ moved(to) \in Stream /\ moved(to).pc \in {"write", "done"}
               /\ moved(to).read = p.read /\ moved(to).written = p.written
               /\ pump' \in [Conns -> [Directions -> Stream]]
               /\ \A b \in Conns, e \in Directions : b # c \/ e # d => pump'[b][e] = pump[b][e]
    BY <1>2, <1>3, <2>2, <2>3
  <2>4. PICK to \in {"write", "done"} : PumpTo(c, d, to)
    BY <2>1
  <2>5. /\ pump'[c][d] = moved(to) /\ moved(to) \in Stream /\ moved(to).pc \in {"write", "done"}
        /\ moved(to).read = p.read /\ moved(to).written = p.written
        /\ pump' \in [Conns -> [Directions -> Stream]]
        /\ \A b \in Conns, e \in Directions : b # c \/ e # d => pump'[b][e] = pump[b][e]
    BY <2>3, <2>4
  <2> HIDE DEF moved
  <2> QED
    BY <1>0, <1>1, <2>1, <2>2, <2>5 DEF Quiet, Apart, Turn
<1>8. CASE Write(c, d)
  <2> DEFINE h == [pc |-> "read", read |-> p.read, written |-> Append(p.written, p.read)]
  <2>1. Append(p.written, p.read) \in Seq(Nat)
    BY <1>1
  <2>2. /\ h \in Stream /\ h.pc = "read" /\ h.read = p.read
        /\ h.written = Append(p.written, p.read)
    BY <1>1, <2>1 DEF Stream, Steps
  <2>3. pump' = [pump EXCEPT ![c][d] = h]
    BY <1>8 DEF Write
  <2> HIDE DEF h
  <2>4. /\ pump'[c][d] = h
        /\ pump' \in [Conns -> [Directions -> Stream]]
        /\ \A b \in Conns, e \in Directions : b # c \/ e # d => pump'[b][e] = pump[b][e]
    BY <2>2, <2>3, PumpToIs
  <2>5. /\ p.pc = "write" /\ PumpOnly /\ <<c, Dest(d)>> \in open
        /\ leaked' = [leaked EXCEPT ![c][d] = @ + 1]
    BY <1>8 DEF Write, At
  <2>6. Quiet /\ leaked'[c][d] = leaked[c][d] + 1
    BY <2>5 DEF Quiet, Shapes
  <2> QED
    BY <1>1, <2>2, <2>4, <2>5, <2>6 DEF Busied, Quiet, Apart, Turn
<1>9. CASE WriteFails(c, d)
  <2>1. p.pc = "write" /\ PumpOnly /\ leaked' = leaked /\ PumpTo(c, d, "done") /\ "done" \in Steps
    BY <1>9 DEF WriteFails, At, Steps
  <2>2. /\ pump'[c][d] = moved("done") /\ moved("done") \in Stream /\ moved("done").pc = "done"
        /\ moved("done").read = p.read /\ moved("done").written = p.written
        /\ pump' \in [Conns -> [Directions -> Stream]]
        /\ \A b \in Conns, e \in Directions : b # c \/ e # d => pump'[b][e] = pump[b][e]
    BY <1>2, <1>3, <2>1
  <2> HIDE DEF moved
  <2> QED
    BY <1>0, <1>1, <2>1, <2>2 DEF Busied, Quiet, Apart, Turn
<1> QED
  BY <1>4, <1>5, <1>6, <1>7, <1>8, <1>9 DEF Pump

(* A connection another one's step leaves alone, or a teardown meets.      *)
LEMMA LifeKept ==
  ASSUME NEW b \in Conns, Life(b), conn'[b] = conn[b], pump'[b] = pump[b],
         \A e \in Ends : <<b, e>> \in open' =>
           <<b, e>> \in open /\ (<<b, e>> \in owned => <<b, e>> \in owned'),
         conn[b].pc = "accepted" => conn[b].via \in acceptors'
  PROVE  Life(b)'
BY DEF Life, Ends

-----------------------------------------------------------------------------
(***************************************************************************)
(* Where the sockets and handlers are.                                     *)
(***************************************************************************)
LEMMA LinkInit == Init => LinkInv
<1> SUFFICES ASSUME Init PROVE LinkInv
  OBVIOUS
<1>1. \A c \in Conns : conn[c] = [pc |-> "none", via |-> 0]
  BY DEF Init
<1>2. \A c \in Conns, d \in Directions : pump[c][d] = Unused
  BY DEF Init, Unused
<1>3. Unused \in Stream /\ Unused.pc = "off"
  BY DEF Unused, Stream, Steps
<1>4. Shapes
  <2>1. pump \in [Conns -> [Directions -> Stream]]
    <3>1. pump = [c \in Conns |-> [d \in Directions |-> Unused]]
      BY DEF Init, Unused
    <3> HIDE DEF Unused, Stream
    <3> QED
      BY <1>3, <3>1
  <2>2. conn \in [Conns -> [pc : Stages, via : Nat]]
    BY DEF Init, Stages
  <2>3. leaked \in [Conns -> [Directions -> Nat]]
    BY DEF Init
  <2> QED
    BY <2>1, <2>2, <2>3 DEF Init, Shapes, Started
<1>5. Ordered
  BY LinkAssumption DEF Init, Ordered, Closed
<1>6. Alone
  BY <1>1 DEF Alone
<1>7. ASSUME NEW c \in Conns PROVE Life(c)
  BY <1>1, <1>2, <1>3 DEF Life, Init, Busied
<1> QED
  BY <1>4, <1>5, <1>6, <1>7 DEF LinkInv

LEMMA SetStoreLink ==
  ASSUME LinkInv, NEW f \in Faults, SetStore(f)
  PROVE  LinkInv'
<1>1. Shapes /\ Ordered /\ Alone /\ \A c \in Conns : Life(c)
  BY DEF LinkInv
<1>2. /\ setting' = f /\ fault' = f /\ sets' = sets + 1 /\ ~Closed
      /\ UNCHANGED <<ln, acceptors, conn, open, owned, pump, wg, closing, stats>>
      /\ leaked' = [c \in Conns |-> [d \in Directions |-> 0]]
      /\ harmed' \in {Conns, harmed}
  BY DEF SetStore, netVars
<1>3. Shapes'
  BY <1>1, <1>2 DEF Shapes
<1>4. Ordered'
  <2>1. sets + 2 \notin acceptors
    BY <1>1 DEF Shapes
  <2> QED
    BY <1>1, <1>2, <2>1 DEF Ordered, Closed, Shapes
<1>5. Alone' /\ \A c \in Conns : Life(c)'
  BY <1>1, <1>2 DEF Alone, Life
<1> QED
  BY <1>3, <1>4, <1>5 DEF LinkInv

LEMMA TearDownLink ==
  ASSUME LinkInv, TearDown, UNCHANGED <<conn, pump>>, acceptors \subseteq acceptors'
  PROVE  Alone' /\ \A c \in Conns : Life(c)'
<1>1. Alone /\ \A c \in Conns : Life(c)
  BY DEF LinkInv
<1>2. open' = open \ owned /\ owned' = owned \ owned
  BY DEF TearDown, Torn
<1>3. ASSUME NEW c \in Conns PROVE Life(c)'
  BY <1>1, <1>2, LifeKept DEF Life
<1> QED
  BY <1>1, <1>3 DEF Alone

LEMMA SetApplyLink ==
  ASSUME LinkInv, SetApply
  PROVE  LinkInv'
<1>1. Shapes /\ Ordered /\ Alone /\ \A c \in Conns : Life(c)
  BY DEF LinkInv
<1>2. /\ setting # None /\ setting' = None /\ ~Closed /\ sets + 1 \notin acceptors
      /\ UNCHANGED <<fault, sets, conn, pump, closing, leaked, harmed>>
  BY <1>1 DEF SetApply, Unlocked, Ordered
<1>3. \/ ln' = 0 /\ acceptors' = acceptors /\ wg' = wg
      \/ ln' = ln /\ acceptors' = acceptors /\ wg' = wg
      \/ ln' = sets + 1 /\ acceptors' = acceptors \cup {sets + 1} /\ wg' = wg + 1
  BY DEF SetApply, Listen
<1>4. TearDown \/ UNCHANGED <<open, owned>>
  BY DEF SetApply
<1>5. open' \subseteq open /\ owned' \subseteq owned /\ acceptors \subseteq acceptors'
  BY <1>3, <1>4 DEF TearDown, Torn
<1>6. Shapes'
  BY <1>1, <1>2, <1>3, <1>5 DEF Shapes
<1>7. Ordered'
  BY <1>1, <1>2, <1>3 DEF Ordered, Closed
<1>8. CASE TearDown
  BY <1>2, <1>5, <1>6, <1>7, <1>8, TearDownLink DEF LinkInv
<1>9. CASE UNCHANGED <<open, owned>>
  <2>1. \A c \in Conns : Life(c)'
    BY <1>1, <1>2, <1>5, <1>9, LifeKept DEF Life
  <2>2. Alone'
    BY <1>1, <1>2 DEF Alone
  <2> QED
    BY <1>6, <1>7, <2>1, <2>2 DEF LinkInv
<1> QED
  BY <1>4, <1>8, <1>9

LEMMA CloseLink ==
  ASSUME LinkInv, Close
  PROVE  LinkInv'
<1>1. Shapes /\ Ordered
  BY DEF LinkInv
<1>2. /\ setting = None /\ setting' = None /\ closing' = "waiting" /\ ln' = 0 /\ TearDown
      /\ UNCHANGED <<fault, sets, acceptors, conn, pump, wg, leaked, harmed>>
  BY DEF Close, Unlocked
<1>3. open' \subseteq open /\ owned' \subseteq owned
  BY <1>2 DEF TearDown, Torn
<1>4. Shapes'
  BY <1>1, <1>2, <1>3 DEF Shapes
<1>5. Ordered'
  BY <1>1, <1>2 DEF Ordered, Closed
<1> QED
  BY <1>2, <1>4, <1>5, TearDownLink DEF LinkInv

(* A step of one connection's handler, or of what dials it.                *)
LEMMA OneLink ==
  ASSUME LinkInv, NEW c \in Conns, Shapes', Ordered', Life(c)',
         acceptors' = acceptors, pump' = pump \/ \A b \in Conns \ {c} : pump'[b] = pump[b],
         \A b \in Conns \ {c} : conn'[b] = conn[b],
         conn'[c].pc # "accepted" \/ conn'[c] = conn[c],
         \A b \in Conns \ {c}, e \in Ends :
           (<<b, e>> \in open' <=> <<b, e>> \in open) /\ (<<b, e>> \in owned' <=> <<b, e>> \in owned)
  PROVE  LinkInv'
<1>1. Alone /\ \A b \in Conns : Life(b)
  BY DEF LinkInv
<1>2. ASSUME NEW b \in Conns \ {c} PROVE Life(b)'
  <2>1. pump'[b] = pump[b] /\ conn'[b] = conn[b]
    OBVIOUS
  <2>2. conn[b].pc = "accepted" => conn[b].via \in acceptors'
    BY <1>1 DEF Life
  <2> QED
    BY <1>1, <2>1, <2>2, LifeKept
<1>3. Alone'
  BY <1>1 DEF Alone
<1> QED
  BY <1>2, <1>3 DEF LinkInv

LEMMA DialLink ==
  ASSUME LinkInv, NEW c \in Conns, Dial(c) \/ BacklogReset(c)
  PROVE  LinkInv'
<1>1. Shapes /\ Ordered /\ Life(c)
  BY DEF LinkInv
<1>2. /\ UNCHANGED <<fault, setting, sets, ln, acceptors, open, owned, pump, wg, closing, leaked, harmed>>
      /\ conn[c].pc \in {"none", "backlog"}
  BY DEF Dial, BacklogReset
<1>3. /\ conn' \in [Conns -> [pc : Stages, via : Nat]]
      /\ \A b \in Conns \ {c} : conn'[b] = conn[b]
      /\ \/ conn'[c].pc = "backlog" /\ conn'[c].via = ln /\ ln # 0
         \/ conn'[c].pc = "gone"
  <2>1. CASE Dial(c)
    BY <1>1, <2>1 DEF Dial, Shapes, Stages
  <2>2. CASE BacklogReset(c)
    BY <1>1, <2>2, GotoIs DEF BacklogReset, Stages
  <2> QED
    BY <2>1, <2>2
<1>4. Shapes'
  BY <1>1, <1>2, <1>3 DEF Shapes
<1>5. Ordered'
  BY <1>1, <1>2 DEF Ordered, Closed
<1>6. Life(c)'
  BY <1>1, <1>2, <1>3 DEF Life, Served, Early
<1> QED
  BY <1>2, <1>3, <1>4, <1>5, <1>6, OneLink

LEMMA AcceptLink ==
  ASSUME LinkInv, NEW c \in Conns, Accept(c)
  PROVE  LinkInv'
<1>1. Shapes /\ Ordered /\ Alone /\ \A b \in Conns : Life(b)
  BY DEF LinkInv
<1>2. /\ UNCHANGED <<fault, setting, sets, ln, acceptors, owned, pump, wg, closing, leaked>>
      /\ conn[c].pc = "backlog" /\ conn[c].via = ln /\ ln \in acceptors /\ ~Busy(ln)
      /\ open' = open \cup {<<c, "client">>}
      /\ harmed' \subseteq harmed \cup {c}
      /\ Goto(c, "accepted") /\ "accepted" \in Stages
  BY DEF Accept, Stages
<1>3. /\ conn' \in [Conns -> [pc : Stages, via : Nat]]
      /\ conn'[c].pc = "accepted" /\ conn'[c].via = ln
      /\ \A b \in Conns \ {c} : conn'[b] = conn[b]
  BY <1>1, <1>2, GotoIs
<1>4. ln \in acceptors
  BY <1>2
<1>5. Shapes'
  BY <1>1, <1>2, <1>3 DEF Shapes, Ends
<1>6. Ordered'
  BY <1>1, <1>2 DEF Ordered, Closed
<1>7. Alone'
  BY <1>1, <1>2, <1>3 DEF Alone, Busy
<1>8. Life(c)'
  BY <1>1, <1>2, <1>3, <1>4 DEF Life, Served, Early
<1>9. ASSUME NEW b \in Conns \ {c} PROVE Life(b)'
  <2>1. \A e : <<b, e>> \in open' => <<b, e>> \in open
    BY <1>2
  <2> QED
    BY <1>1, <1>2, <1>3, <2>1, LifeKept DEF Life
<1> QED
  BY <1>5, <1>6, <1>7, <1>8, <1>9 DEF LinkInv

LEMMA AcceptExitLink ==
  ASSUME LinkInv, NEW g \in acceptors, AcceptExit(g)
  PROVE  LinkInv'
<1>1. Shapes /\ Ordered /\ Alone /\ \A b \in Conns : Life(b)
  BY DEF LinkInv
<1>2. /\ UNCHANGED <<fault, setting, sets, ln, conn, open, owned, pump, closing, leaked, harmed>>
      /\ acceptors' = acceptors \ {g} /\ wg' = wg - 1 /\ ~Busy(g)
  BY DEF AcceptExit, netVars
<1>3. Shapes'
  BY <1>1, <1>2 DEF Shapes
<1>4. Ordered'
  BY <1>1, <1>2 DEF Ordered, Closed
<1>5. Alone'
  BY <1>1, <1>2 DEF Alone
<1>6. ASSUME NEW b \in Conns PROVE Life(b)'
  <2>1. conn[b].pc = "accepted" => conn[b].via \in acceptors'
    BY <1>1, <1>2 DEF Life, Busy
  <2> QED
    BY <1>1, <1>2, <2>1, LifeKept
<1> QED
  BY <1>3, <1>4, <1>5, <1>6 DEF LinkInv

LEMMA RegisterLink ==
  ASSUME LinkInv, NEW c \in Conns, Register(c)
  PROVE  LinkInv'
<1>1. Shapes /\ Ordered /\ Alone /\ \A b \in Conns : Life(b)
  BY DEF LinkInv
<1>2. /\ UNCHANGED <<fault, setting, sets, ln, pump, closing, leaked, harmed>>
      /\ conn[c].pc = "accepted"
  BY DEF Register
<1>3. CASE Registers
  <2>1. /\ Goto(c, "check") /\ wg' = wg + 1 /\ owned' = owned \cup {<<c, "client">>}
        /\ UNCHANGED <<acceptors, open>> /\ "check" \in Stages
    BY <1>3 DEF Register, Stages
  <2>2. /\ conn' \in [Conns -> [pc : Stages, via : Nat]]
        /\ conn'[c].pc = "check" /\ \A b \in Conns \ {c} : conn'[b] = conn[b]
    BY <1>1, <2>1, GotoIs
  <2>3. Shapes'
    BY <1>1, <1>2, <2>1, <2>2 DEF Shapes, Ends
  <2>4. Ordered'
    BY <1>1, <1>2, <2>1 DEF Ordered, Closed
  <2>5. Life(c)'
    BY <1>1, <1>2, <2>1, <2>2 DEF Life, Served, Early
  <2>6. \A b \in Conns \ {c}, e \in Ends : <<b, e>> \in owned' <=> <<b, e>> \in owned
    BY <2>1
  <2> QED
    BY <1>2, <2>1, <2>2, <2>3, <2>4, <2>5, <2>6, OneLink
<1>4. CASE ~Registers
  <2>1. /\ Goto(c, "gone") /\ wg' = wg - 1 /\ open' = open \ {<<c, "client">>}
        /\ acceptors' = acceptors \ {conn[c].via} /\ UNCHANGED owned /\ "gone" \in Stages
    BY <1>4 DEF Register, Stages
  <2>2. /\ conn' \in [Conns -> [pc : Stages, via : Nat]]
        /\ conn'[c].pc = "gone" /\ \A b \in Conns \ {c} : conn'[b] = conn[b]
    BY <1>1, <2>1, GotoIs
  <2>3. ln = 0 /\ Closed
    BY <1>1, <1>4 DEF Ordered, Registers
  <2>4. Shapes'
    <3>1. open' \subseteq open /\ acceptors' \subseteq acceptors /\ wg' = wg - 1
      BY <2>1
    <3>2. acceptors' \subseteq 1..(sets' + 1) /\ wg' \in Int
      BY <1>1, <1>2, <3>1 DEF Shapes
    <3>3. open' \subseteq Conns \X Ends /\ owned' \subseteq Conns \X Ends
      BY <1>1, <2>1, <3>1 DEF Shapes
    <3> QED
      BY <1>1, <1>2, <2>2, <3>2, <3>3 DEF Shapes
  <2>5. Ordered'
    BY <1>1, <1>2, <2>1, <2>3 DEF Ordered, Closed
  <2>6. Alone'
    BY <1>1, <2>2 DEF Alone
  <2>7. Life(c)'
    BY <1>1, <1>2, <2>1, <2>2 DEF Life, Served, Early
  <2>8. ASSUME NEW b \in Conns \ {c} PROVE Life(b)'
    <3>1. conn[b].pc = "accepted" => conn[b].via \in acceptors'
      BY <1>1, <1>2, <2>1 DEF Life, Alone
    <3>2. \A e : <<b, e>> \in open' => <<b, e>> \in open
      BY <2>1
    <3> QED
      BY <1>1, <1>2, <2>1, <2>2, <3>1, <3>2, LifeKept
  <2> QED
    BY <2>4, <2>5, <2>6, <2>7, <2>8 DEF LinkInv
<1> QED
  BY <1>3, <1>4

LEMMA CheckLink ==
  ASSUME LinkInv, NEW c \in Conns, Check(c) \/ DialTarget(c)
  PROVE  LinkInv'
<1>1. Shapes /\ Ordered /\ Life(c)
  BY DEF LinkInv
<1>2. /\ UNCHANGED <<fault, setting, sets, ln, acceptors, owned, pump, wg, closing, leaked, harmed>>
      /\ \/ conn[c].pc = "check" /\ Goto(c, "release") /\ open' = open \ {<<c, "client">>}
         \/ conn[c].pc = "check" /\ Goto(c, "dial") /\ open' = open
         \/ conn[c].pc = "dial" /\ Goto(c, "join") /\ open' = open \cup {<<c, "target">>}
         \/ conn[c].pc = "dial" /\ Goto(c, "release") /\ open' = open
  BY DEF Check, DialTarget
<1>3. /\ conn' \in [Conns -> [pc : Stages, via : Nat]]
      /\ \A b \in Conns \ {c} : conn'[b] = conn[b]
      /\ \/ conn[c].pc = "check" /\ conn'[c].pc = "release" /\ open' = open \ {<<c, "client">>}
         \/ conn[c].pc = "check" /\ conn'[c].pc = "dial" /\ open' = open
         \/ conn[c].pc = "dial" /\ conn'[c].pc = "join" /\ open' = open \cup {<<c, "target">>}
         \/ conn[c].pc = "dial" /\ conn'[c].pc = "release" /\ open' = open
  <2>1. {"release", "dial", "join"} \subseteq Stages
    BY DEF Stages
  <2> QED
    BY <1>1, <1>2, <2>1, GotoIs
<1>4. Shapes'
  BY <1>1, <1>2, <1>3 DEF Shapes, Ends
<1>5. Ordered'
  BY <1>1, <1>2 DEF Ordered, Closed
<1>6. Life(c)'
  BY <1>1, <1>2, <1>3 DEF Life, Served, Early, Busied, Unused
<1>7. \A b \in Conns \ {c}, e \in Ends : <<b, e>> \in open' <=> <<b, e>> \in open
  BY <1>2
<1> QED
  BY <1>2, <1>3, <1>4, <1>5, <1>6, <1>7, OneLink

LEMMA JoinLink ==
  ASSUME LinkInv, NEW c \in Conns, Join(c)
  PROVE  LinkInv'
<1>1. Shapes /\ Ordered /\ Life(c)
  BY DEF LinkInv
<1>2. /\ UNCHANGED <<fault, setting, sets, ln, acceptors, closing, leaked, harmed>>
      /\ conn[c].pc = "join"
  BY DEF Join
<1>3. CASE Registers
  <2> DEFINE fresh == [d \in Directions |-> [pump[c][d] EXCEPT !.pc = "read"]]
  <2>1. /\ Goto(c, "proxy") /\ wg' = wg + 1 /\ owned' = owned \cup {<<c, "target">>}
        /\ pump' = [pump EXCEPT ![c] = fresh]
        /\ UNCHANGED open /\ "proxy" \in Stages
    BY <1>3 DEF Join, Stages
  <2>2. /\ conn' \in [Conns -> [pc : Stages, via : Nat]]
        /\ conn'[c].pc = "proxy" /\ \A b \in Conns \ {c} : conn'[b] = conn[b]
    BY <1>1, <2>1, GotoIs
  <2>3. fresh \in [Directions -> Stream]
    <3>1. ASSUME NEW d \in Directions PROVE [pump[c][d] EXCEPT !.pc = "read"] \in Stream
      <4>1. pump[c][d] \in Stream
        BY <1>1 DEF Shapes
      <4> QED
        BY <4>1 DEF Stream, Steps
    <3> HIDE DEF Stream, Directions
    <3> QED
      BY <3>1
  <2> HIDE DEF fresh
  <2>4. pump' \in [Conns -> [Directions -> Stream]] /\ \A b \in Conns \ {c} : pump'[b] = pump[b]
    <3> HIDE DEF Stream, Directions
    <3> QED
      BY <1>1, <2>1, <2>3 DEF Shapes
  <2>5. Shapes'
    BY <1>1, <1>2, <2>1, <2>2, <2>4 DEF Shapes, Ends
  <2>6. Ordered'
    BY <1>1, <1>2 DEF Ordered, Closed
  <2>7. Life(c)'
    BY <1>1, <1>2, <2>1, <2>2 DEF Life, Served, Early
  <2>8. \A b \in Conns \ {c}, e \in Ends : <<b, e>> \in owned' <=> <<b, e>> \in owned
    BY <2>1
  <2> QED
    BY <1>2, <2>1, <2>2, <2>4, <2>5, <2>6, <2>7, <2>8, OneLink
<1>4. CASE ~Registers
  <2>1. /\ Goto(c, "release") /\ open' = open \ {<<c, "target">>}
        /\ UNCHANGED <<owned, pump, wg>> /\ "release" \in Stages
    BY <1>4 DEF Join, Stages
  <2>2. /\ conn' \in [Conns -> [pc : Stages, via : Nat]]
        /\ conn'[c].pc = "release" /\ \A b \in Conns \ {c} : conn'[b] = conn[b]
    BY <1>1, <2>1, GotoIs
  <2>3. Shapes'
    BY <1>1, <1>2, <2>1, <2>2 DEF Shapes, Ends
  <2>4. Ordered'
    BY <1>1, <1>2 DEF Ordered, Closed
  <2>5. Life(c)'
    BY <1>1, <1>2, <2>1, <2>2 DEF Life, Served, Early, Busied, Unused
  <2>6. \A b \in Conns \ {c}, e \in Ends : <<b, e>> \in open' <=> <<b, e>> \in open
    BY <2>1
  <2> QED
    BY <1>2, <2>1, <2>2, <2>3, <2>4, <2>5, <2>6, OneLink
<1> QED
  BY <1>3, <1>4

LEMMA ReleaseLink ==
  ASSUME LinkInv, NEW c \in Conns, ReleaseTarget(c) \/ ReleaseClient(c)
  PROVE  LinkInv'
<1>1. Shapes /\ Ordered /\ Life(c)
  BY DEF LinkInv
<1>2. /\ UNCHANGED <<fault, setting, sets, ln, acceptors, pump, closing, leaked, harmed>>
      /\ wg' = wg - 1
      /\ \/ /\ conn[c].pc = "proxy" /\ \A d \in Directions : pump[c][d].pc = "done"
            /\ Goto(c, "release")
            /\ open' = open \ {<<c, "target">>} /\ owned' = owned \ {<<c, "target">>}
         \/ /\ conn[c].pc = "release" /\ Goto(c, "gone")
            /\ open' = open \ {<<c, "client">>} /\ owned' = owned \ {<<c, "client">>}
  BY DEF ReleaseTarget, ReleaseClient, Release
<1>3. /\ conn' \in [Conns -> [pc : Stages, via : Nat]]
      /\ \A b \in Conns \ {c} : conn'[b] = conn[b]
      /\ \/ conn[c].pc = "proxy" /\ conn'[c].pc = "release"
         \/ conn[c].pc = "release" /\ conn'[c].pc = "gone"
  <2>1. {"release", "gone"} \subseteq Stages
    BY DEF Stages
  <2> QED
    BY <1>1, <1>2, <2>1, GotoIs
<1>4. Shapes'
  BY <1>1, <1>2, <1>3 DEF Shapes
<1>5. Ordered'
  BY <1>1, <1>2 DEF Ordered, Closed
<1>6. Life(c)'
  <2>1. CASE conn[c].pc = "proxy"
    BY <1>1, <1>2, <1>3, <2>1 DEF Life, Served, Early, Busied
  <2>2. CASE conn[c].pc = "release"
    BY <1>1, <1>2, <1>3, <2>2 DEF Life, Served, Early, Busied
  <2> QED
    BY <1>3, <2>1, <2>2
<1>7. \A b \in Conns \ {c}, e \in Ends :
        (<<b, e>> \in open' <=> <<b, e>> \in open) /\ (<<b, e>> \in owned' <=> <<b, e>> \in owned)
  BY <1>2
<1> QED
  BY <1>2, <1>3, <1>4, <1>5, <1>6, <1>7, OneLink

LEMMA PumpLink ==
  ASSUME LinkInv, NEW c \in Conns, NEW d \in Directions, Pump(c, d)
  PROVE  LinkInv' /\ conn[c].pc = "proxy"
<1>1. Shapes /\ Ordered /\ Life(c)
  BY DEF LinkInv
<1>a. /\ PumpOnly
      /\ pump' \in [Conns -> [Directions -> Stream]]
      /\ \A b \in Conns, e \in Directions : b # c \/ e # d => pump'[b][e] = pump[b][e]
      /\ leaked' \in [Conns -> [Directions -> Nat]]
      /\ pump[c][d].pc \in Busied
  BY <1>1, PumpMoves DEF Apart
<1>2. /\ UNCHANGED <<fault, setting, sets, ln, acceptors, conn, open, owned, wg, closing, harmed>>
      /\ pump' \in [Conns -> [Directions -> Stream]]
      /\ \A b \in Conns, e \in Directions : b # c \/ e # d => pump'[b][e] = pump[b][e]
      /\ pump[c][d].pc \in Busied
  BY <1>a DEF PumpOnly
<1>3. leaked' \in [Conns -> [Directions -> Nat]]
  BY <1>a
<1>4. Shapes'
  BY <1>1, <1>2, <1>3 DEF Shapes
<1>5. Ordered'
  BY <1>1, <1>2 DEF Ordered, Closed
<1>6. conn[c].pc = "proxy"
  BY <1>1, <1>2 DEF Life
<1>7. Life(c)'
  BY <1>1, <1>2, <1>6 DEF Life, Served, Early
<1>8. \A b \in Conns \ {c} : pump'[b] = pump[b]
  <2>1. pump \in [Conns -> [Directions -> Stream]]
    BY <1>1 DEF Shapes
  <2> HIDE DEF Stream, Directions
  <2> QED
    BY <1>2, <2>1
<1> QED
  BY <1>2, <1>4, <1>5, <1>6, <1>7, <1>8, OneLink

LEMMA LinkNext == LinkInv /\ [Next]_vars => LinkInv'
<1> SUFFICES ASSUME LinkInv, [Next]_vars PROVE LinkInv'
  OBVIOUS
<1>1. ASSUME NEW f \in Faults, SetStore(f) PROVE LinkInv'
  BY <1>1, SetStoreLink
<1>2. CASE SetApply
  BY <1>2, SetApplyLink
<1>3. CASE Close
  BY <1>3, CloseLink
<1>4. CASE CloseReturns
  <2>1. Shapes'
    BY <1>4 DEF CloseReturns, netVars, LinkInv, Shapes
  <2>2. Ordered' /\ Alone' /\ \A c \in Conns : Life(c)'
    BY <1>4 DEF CloseReturns, netVars, LinkInv, Ordered, Closed, Alone, Life
  <2> QED
    BY <2>1, <2>2 DEF LinkInv
<1>5. ASSUME NEW c \in Conns, Dial(c) \/ Accept(c) \/ BacklogReset(c) \/ Handle(c) PROVE LinkInv'
  BY <1>5, DialLink, AcceptLink, RegisterLink, CheckLink, JoinLink, ReleaseLink DEF Handle
<1>6. ASSUME NEW g \in acceptors, AcceptExit(g) PROVE LinkInv'
  BY <1>6, AcceptExitLink
<1>7. ASSUME NEW c \in Conns, NEW d \in Directions, Pump(c, d) PROVE LinkInv'
  BY <1>7, PumpLink
<1>8. CASE UNCHANGED vars
  <2>1. Shapes'
    BY <1>8 DEF vars, netVars, LinkInv, Shapes
  <2>2. Ordered' /\ Alone' /\ \A c \in Conns : Life(c)'
    BY <1>8 DEF vars, netVars, LinkInv, Ordered, Closed, Alone, Life
  <2> QED
    BY <2>1, <2>2 DEF LinkInv
<1> QED
  BY <1>1, <1>2, <1>3, <1>4, <1>5, <1>6, <1>7, <1>8 DEF Next

-----------------------------------------------------------------------------
(***************************************************************************)
(* What the wait group counts.                                             *)
(***************************************************************************)
LEMMA OneMore ==
  ASSUME NEW S, IsFiniteSet(S), NEW x, x \notin S
  PROVE  IsFiniteSet(S \cup {x}) /\ Cardinality(S \cup {x}) = Cardinality(S) + 1
BY FS_AddElement

LEMMA OneLess ==
  ASSUME NEW S, IsFiniteSet(S), NEW x \in S
  PROVE  IsFiniteSet(S \ {x}) /\ Cardinality(S \ {x}) = Cardinality(S) - 1
BY FS_RemoveElement

LEMMA CountTypes ==
  ASSUME Counted
  PROVE  /\ Cardinality(acceptors) \in Nat /\ Cardinality(Handling) \in Nat
         /\ Cardinality(Proxying) \in Nat
         /\ wg = 0 => acceptors = {} /\ Handling = {} /\ Proxying = {}
<1>1. /\ Cardinality(acceptors) \in Nat /\ Cardinality(Handling) \in Nat
      /\ Cardinality(Proxying) \in Nat
  BY FS_CardinalityType DEF Counted
<1>2. ASSUME wg = 0 PROVE acceptors = {} /\ Handling = {} /\ Proxying = {}
  <2>1. Cardinality(acceptors) = 0 /\ Cardinality(Handling) = 0 /\ Cardinality(Proxying) = 0
    BY <1>1, <1>2 DEF Counted
  <2> QED
    BY <2>1, FS_EmptySet DEF Counted
<1> QED
  BY <1>1, <1>2

LEMMA CountInit == Init => Counted
<1> SUFFICES ASSUME Init PROVE Counted
  OBVIOUS
<1>1. Handling = {} /\ Proxying = {}
  BY DEF Init, Handling, Proxying, Served
<1>2. acceptors = {1} /\ wg = 1 /\ closing = "open"
  BY DEF Init, Started
<1>3. IsFiniteSet({}) /\ Cardinality({}) = 0 /\ IsFiniteSet({1}) /\ Cardinality({1}) = 1
  BY FS_EmptySet, FS_Singleton
<1> QED
  BY <1>1, <1>2, <1>3 DEF Counted

LEMMA CountSame ==
  ASSUME Counted, acceptors' = acceptors, wg' = wg, Handling' = Handling, Proxying' = Proxying,
         closing' = "returned" => closing = "returned"
  PROVE  Counted'
BY DEF Counted

(* A handler's step that keeps the connection served, or not yet served.   *)
LEMMA StageSame ==
  ASSUME Counted, NEW c \in Conns, \A b \in Conns \ {c} : conn'[b] = conn[b],
         conn[c].pc \in Served <=> conn'[c].pc \in Served,
         conn[c].pc = "proxy" <=> conn'[c].pc = "proxy",
         UNCHANGED <<acceptors, wg, closing>>
  PROVE  Counted'
<1>1. Handling' = Handling
  BY DEF Handling
<1>2. Proxying' = Proxying
  BY DEF Proxying
<1> QED
  BY <1>1, <1>2, CountSame

LEMMA SetApplyCount ==
  ASSUME LinkInv, Counted, SetApply
  PROVE  Counted'
<1>1. /\ sets + 1 \notin acceptors /\ ~Closed
      /\ Handling' = Handling /\ Proxying' = Proxying /\ closing' = closing
      /\ \/ acceptors' = acceptors /\ wg' = wg
         \/ acceptors' = acceptors \cup {sets + 1} /\ wg' = wg + 1
  BY DEF SetApply, Listen, LinkInv, Ordered, Unlocked, Handling, Proxying
<1>2. CASE acceptors' = acceptors \cup {sets + 1} /\ wg' = wg + 1
  <2>1. IsFiniteSet(acceptors') /\ Cardinality(acceptors') = Cardinality(acceptors) + 1
    BY <1>1, <1>2, OneMore DEF Counted
  <2>2. wg' = Cardinality(acceptors') + Cardinality(Handling) + Cardinality(Proxying)
    BY <1>2, <2>1, CountTypes DEF Counted
  <2> QED
    BY <1>1, <2>1, <2>2 DEF Counted, Closed
<1> QED
  BY <1>1, <1>2, CountSame

LEMMA RegisterCount ==
  ASSUME LinkInv, Counted, NEW c \in Conns, Register(c)
  PROVE  Counted'
<1>0. Shapes /\ Life(c) /\ conn[c].pc = "accepted" /\ closing' = closing
  BY DEF LinkInv, Register
<1>1. CASE Registers
  <2>1. /\ Goto(c, "check") /\ wg' = wg + 1 /\ acceptors' = acceptors /\ closing' # "returned"
        /\ "check" \in Stages
    BY <1>1 DEF Register, Registers, Closed, Stages
  <2>2. conn'[c].pc = "check" /\ \A b \in Conns \ {c} : conn'[b] = conn[b]
    BY <1>0, <2>1, GotoIs
  <2>3. Handling' = Handling \cup {c} /\ Proxying' = Proxying /\ c \notin Handling
    BY <1>0, <2>2 DEF Handling, Proxying, Served
  <2>4. IsFiniteSet(Handling') /\ Cardinality(Handling') = Cardinality(Handling) + 1
    BY <2>3, OneMore DEF Counted
  <2>5. wg' = Cardinality(acceptors) + Cardinality(Handling') + Cardinality(Proxying)
    BY <2>1, <2>4, CountTypes DEF Counted
  <2> QED
    BY <2>1, <2>3, <2>4, <2>5 DEF Counted
<1>2. CASE ~Registers
  <2>1. /\ Goto(c, "gone") /\ wg' = wg - 1 /\ acceptors' = acceptors \ {conn[c].via}
        /\ "gone" \in Stages
    BY <1>2 DEF Register, Stages
  <2>2. conn'[c].pc = "gone" /\ \A b \in Conns \ {c} : conn'[b] = conn[b]
    BY <1>0, <2>1, GotoIs
  <2>3. Handling' = Handling /\ Proxying' = Proxying
    BY <1>0, <2>2 DEF Handling, Proxying, Served
  <2>4. conn[c].via \in acceptors
    BY <1>0 DEF Life
  <2>5. IsFiniteSet(acceptors') /\ Cardinality(acceptors') = Cardinality(acceptors) - 1
    BY <2>1, <2>4, OneLess DEF Counted
  <2>6. wg' = Cardinality(acceptors') + Cardinality(Handling) + Cardinality(Proxying)
    BY <2>1, <2>5, CountTypes DEF Counted
  <2>7. closing # "returned"
    BY <2>4, CountTypes DEF Counted
  <2> QED
    BY <1>0, <2>3, <2>5, <2>6, <2>7 DEF Counted
<1> QED
  BY <1>1, <1>2

LEMMA JoinCount ==
  ASSUME LinkInv, Counted, NEW c \in Conns, Join(c)
  PROVE  Counted'
<1>0. Shapes /\ conn[c].pc = "join" /\ closing' = closing /\ acceptors' = acceptors
  BY DEF LinkInv, Join
<1>1. CASE Registers
  <2>1. Goto(c, "proxy") /\ wg' = wg + 1 /\ closing' # "returned" /\ "proxy" \in Stages
    BY <1>0, <1>1 DEF Join, Registers, Closed, Stages
  <2>2. conn'[c].pc = "proxy" /\ \A b \in Conns \ {c} : conn'[b] = conn[b]
    BY <1>0, <2>1, GotoIs
  <2>3. Proxying' = Proxying \cup {c} /\ Handling' = Handling /\ c \notin Proxying
    BY <1>0, <2>2 DEF Handling, Proxying, Served
  <2>4. IsFiniteSet(Proxying') /\ Cardinality(Proxying') = Cardinality(Proxying) + 1
    BY <2>3, OneMore DEF Counted
  <2>5. wg' = Cardinality(acceptors) + Cardinality(Handling) + Cardinality(Proxying')
    BY <2>1, <2>4, CountTypes DEF Counted
  <2> QED
    BY <1>0, <2>1, <2>3, <2>4, <2>5 DEF Counted
<1>2. CASE ~Registers
  <2>1. Goto(c, "release") /\ wg' = wg /\ "release" \in Stages
    BY <1>2 DEF Join, Stages
  <2>2. conn'[c].pc = "release" /\ \A b \in Conns \ {c} : conn'[b] = conn[b]
    BY <1>0, <2>1, GotoIs
  <2> QED
    BY <1>0, <2>1, <2>2, StageSame DEF Served
<1> QED
  BY <1>1, <1>2

LEMMA ReleaseCount ==
  ASSUME LinkInv, Counted, NEW c \in Conns, ReleaseTarget(c) \/ ReleaseClient(c)
  PROVE  Counted'
<1>0. /\ Shapes /\ closing' = closing /\ acceptors' = acceptors /\ wg' = wg - 1
      /\ \/ conn[c].pc = "proxy" /\ Goto(c, "release")
         \/ conn[c].pc = "release" /\ Goto(c, "gone")
      /\ "release" \in Stages /\ "gone" \in Stages
  BY DEF LinkInv, ReleaseTarget, ReleaseClient, Release, Stages
<1>1. closing # "returned"
  <2>1. c \in Handling
    BY <1>0 DEF Handling, Served
  <2> QED
    BY <2>1, CountTypes DEF Counted
<1>2. CASE conn[c].pc = "proxy" /\ Goto(c, "release")
  <2>1. conn'[c].pc = "release" /\ \A b \in Conns \ {c} : conn'[b] = conn[b]
    BY <1>0, <1>2, GotoIs
  <2>2. Proxying' = Proxying \ {c} /\ Handling' = Handling /\ c \in Proxying
    BY <1>2, <2>1 DEF Handling, Proxying, Served
  <2>3. IsFiniteSet(Proxying') /\ Cardinality(Proxying') = Cardinality(Proxying) - 1
    BY <2>2, OneLess DEF Counted
  <2>4. wg' = Cardinality(acceptors) + Cardinality(Handling) + Cardinality(Proxying')
    BY <1>0, <2>3, CountTypes DEF Counted
  <2> QED
    BY <1>0, <1>1, <2>2, <2>3, <2>4 DEF Counted
<1>3. CASE conn[c].pc = "release" /\ Goto(c, "gone")
  <2>1. conn'[c].pc = "gone" /\ \A b \in Conns \ {c} : conn'[b] = conn[b]
    BY <1>0, <1>3, GotoIs
  <2>2. Handling' = Handling \ {c} /\ Proxying' = Proxying /\ c \in Handling
    BY <1>3, <2>1 DEF Handling, Proxying, Served
  <2>3. IsFiniteSet(Handling') /\ Cardinality(Handling') = Cardinality(Handling) - 1
    BY <2>2, OneLess DEF Counted
  <2>4. wg' = Cardinality(acceptors) + Cardinality(Handling') + Cardinality(Proxying)
    BY <1>0, <2>3, CountTypes DEF Counted
  <2> QED
    BY <1>0, <1>1, <2>2, <2>3, <2>4 DEF Counted
<1> QED
  BY <1>0, <1>2, <1>3

LEMMA AcceptExitCount ==
  ASSUME Counted, NEW g \in acceptors, AcceptExit(g)
  PROVE  Counted'
<1>1. /\ acceptors' = acceptors \ {g} /\ wg' = wg - 1 /\ closing' = closing
      /\ Handling' = Handling /\ Proxying' = Proxying
  BY DEF AcceptExit, netVars, Handling, Proxying
<1>2. IsFiniteSet(acceptors') /\ Cardinality(acceptors') = Cardinality(acceptors) - 1
  BY <1>1, OneLess DEF Counted
<1>3. wg' = Cardinality(acceptors') + Cardinality(Handling) + Cardinality(Proxying)
  BY <1>1, <1>2, CountTypes DEF Counted
<1>4. closing # "returned"
  BY CountTypes DEF Counted
<1> QED
  BY <1>1, <1>2, <1>3, <1>4 DEF Counted

LEMMA StageCount ==
  ASSUME LinkInv, Counted, NEW c \in Conns,
         Dial(c) \/ Accept(c) \/ BacklogReset(c) \/ Check(c) \/ DialTarget(c)
  PROVE  Counted'
<1>1. Shapes /\ UNCHANGED <<acceptors, wg, closing>>
  BY DEF LinkInv, Dial, Accept, BacklogReset, Check, DialTarget
<1>2. CASE Dial(c)
  <2>1. /\ conn[c].pc = "none" /\ conn'[c].pc = "backlog"
        /\ \A b \in Conns \ {c} : conn'[b] = conn[b]
    BY <1>1, <1>2 DEF Dial, Shapes
  <2> QED
    BY <1>1, <2>1, StageSame DEF Served
<1>3. ASSUME NEW to \in Stages, Goto(c, to),
             conn[c].pc \in Served <=> to \in Served, conn[c].pc # "proxy", to # "proxy"
      PROVE  Counted'
  <2>1. conn'[c].pc = to /\ \A b \in Conns \ {c} : conn'[b] = conn[b]
    BY <1>1, <1>3, GotoIs
  <2> QED
    BY <1>1, <1>3, <2>1, StageSame
<1>4. CASE Accept(c)
  BY <1>3, <1>4 DEF Accept, Served, Stages
<1>5. CASE BacklogReset(c)
  BY <1>3, <1>5 DEF BacklogReset, Served, Stages
<1>6. CASE Check(c)
  BY <1>3, <1>6 DEF Check, Served, Stages
<1>7. CASE DialTarget(c)
  BY <1>3, <1>7 DEF DialTarget, Served, Stages
<1> QED
  BY <1>2, <1>4, <1>5, <1>6, <1>7

LEMMA CountNext == LinkInv /\ Counted /\ [Next]_vars => Counted'
<1> SUFFICES ASSUME LinkInv, Counted, [Next]_vars PROVE Counted'
  OBVIOUS
<1>1. ASSUME NEW f \in Faults, SetStore(f) PROVE Counted'
  BY <1>1 DEF SetStore, netVars, Counted, Handling, Proxying
<1>2. CASE SetApply
  BY <1>2, SetApplyCount
<1>3. CASE Close
  BY <1>3 DEF Close, Counted, Handling, Proxying
<1>4. CASE CloseReturns
  BY <1>4 DEF CloseReturns, Joined, netVars, Counted, Handling, Proxying
<1>5. ASSUME NEW c \in Conns, Dial(c) \/ Accept(c) \/ BacklogReset(c) \/ Handle(c) PROVE Counted'
  BY <1>5, StageCount, RegisterCount, JoinCount, ReleaseCount DEF Handle
<1>6. ASSUME NEW g \in acceptors, AcceptExit(g) PROVE Counted'
  BY <1>6, AcceptExitCount
<1>7. ASSUME NEW c \in Conns, NEW d \in Directions, Pump(c, d) PROVE Counted'
  <2>1. Shapes
    BY DEF LinkInv
  <2>2. PumpOnly
    BY <1>7, <2>1, PumpMoves
  <2> QED
    BY <2>2 DEF PumpOnly, Counted, Handling, Proxying
<1>8. CASE UNCHANGED vars
  BY <1>8 DEF vars, netVars, Counted, Handling, Proxying
<1> QED
  BY <1>1, <1>2, <1>3, <1>4, <1>5, <1>6, <1>7, <1>8 DEF Next

(* "Close returns only once every goroutine the link started has exited",  *)
(* whatever was accepted, being dialled or in the middle of a chunk when   *)
(* it was called; and the count never goes below zero (link.go:310-332).   *)
THEOREM CloseWaitsForAll == Spec => []CloseJoinsAll
<1>1. LinkInv /\ Counted => CloseJoinsAll
  <2> SUFFICES ASSUME LinkInv, Counted PROVE CloseJoinsAll
    OBVIOUS
  <2>1. wg >= 0
    BY CountTypes DEF Counted
  <2>2. ASSUME closing = "returned"
        PROVE  /\ open = {} /\ acceptors = {}
               /\ \A c \in Conns : conn[c].pc \in {"none", "backlog", "gone"}
    <3>1. acceptors = {} /\ Handling = {}
      BY <2>2, CountTypes DEF Counted
    <3>2. Shapes /\ \A c \in Conns : Life(c)
      BY DEF LinkInv
    <3>3. ASSUME NEW c \in Conns PROVE conn[c].pc \notin Served \cup {"accepted"}
      BY <3>1, <3>2 DEF Life, Handling
    <3>4. \A c \in Conns : conn[c].pc \in {"none", "backlog", "gone"}
      BY <3>2, <3>3 DEF Shapes, Stages, Served
    <3>5. \A c \in Conns, e \in Ends : <<c, e>> \notin open
      BY <3>2, <3>3 DEF Life, Ends, Served
    <3>6. open = {}
      BY <3>2, <3>5 DEF Shapes
    <3> QED
      BY <3>1, <3>4, <3>6
  <2> QED
    BY <2>1, <2>2 DEF CloseJoinsAll
<1> QED
  BY <1>1, LinkInit, LinkNext, CountInit, CountNext, PTL DEF Spec

-----------------------------------------------------------------------------
(***************************************************************************)
(* The steps that touch neither streams nor faults.                        *)
(***************************************************************************)
Still == UNCHANGED <<fault, pump, leaked, harmed>>

LEMMA MostAreStill ==
  ASSUME [Next]_vars
  PROVE  \/ \E f \in Faults : SetStore(f)
         \/ \E c \in Conns : Accept(c) \/ Join(c)
         \/ \E c \in Conns, d \in Directions : Pump(c, d)
         \/ Still
<1>1. CASE UNCHANGED vars
  BY <1>1 DEF vars, netVars, Still
<1>2. CASE SetApply \/ Close \/ CloseReturns
  BY <1>2 DEF SetApply, Close, CloseReturns, netVars, Still
<1>3. ASSUME NEW c \in Conns,
             \/ Dial(c) \/ BacklogReset(c)
             \/ Register(c) \/ Check(c) \/ DialTarget(c) \/ ReleaseTarget(c) \/ ReleaseClient(c)
      PROVE  Still
  BY <1>3 DEF Dial, BacklogReset, Register, Check, DialTarget, ReleaseTarget, ReleaseClient, Release, Still
<1>4. ASSUME NEW g \in acceptors, AcceptExit(g) PROVE Still
  BY <1>4 DEF AcceptExit, netVars, Still
<1> QED
  BY <1>1, <1>2, <1>3, <1>4 DEF Next, Handle

(* The handler starts both pumps before anything has been read.            *)
LEMMA JoinStarts ==
  ASSUME LinkInv, NEW c \in Conns, Join(c)
  PROVE  /\ UNCHANGED <<fault, leaked, harmed>>
         /\ \A b \in Conns, d \in Directions :
              \/ pump'[b][d] = pump[b][d]
              \/ b = c /\ pump[b][d] = Unused
                 /\ pump'[b][d].pc = "read" /\ pump'[b][d].read = 0 /\ pump'[b][d].written = <<>>
<1>1. Shapes /\ \A d \in Directions : pump[c][d] = Unused
  BY DEF LinkInv, Life, Join, Early
<1>2. /\ UNCHANGED <<fault, leaked, harmed>>
      /\ \/ pump' = [pump EXCEPT ![c] = [d \in Directions |-> [pump[c][d] EXCEPT !.pc = "read"]]]
         \/ pump' = pump
  BY DEF Join
<1>3. CASE pump' = [pump EXCEPT ![c] = [d \in Directions |-> [pump[c][d] EXCEPT !.pc = "read"]]]
  <2>1. \A d \in Directions : pump'[c][d] = [Unused EXCEPT !.pc = "read"]
    BY <1>1, <1>3 DEF Shapes
  <2>2. \A b \in Conns \ {c} : pump'[b] = pump[b]
    BY <1>3 DEF Shapes
  <2>3. LET h == [Unused EXCEPT !.pc = "read"]
        IN  h.pc = "read" /\ h.read = 0 /\ h.written = <<>>
    BY DEF Unused
  <2> QED
    BY <1>1, <1>2, <2>1, <2>2, <2>3
<1> QED
  BY <1>2, <1>3

-----------------------------------------------------------------------------
(***************************************************************************)
(* A blackhole.                                                            *)
(***************************************************************************)
LEMMA LeakNext == LinkInv /\ LeakInv /\ [Next]_vars => LeakInv'
<1> SUFFICES ASSUME LinkInv, LeakInv, [Next]_vars, fault' = "drop",
                    NEW b \in Conns, NEW e \in Directions
             PROVE  /\ leaked'[b][e] <= 1
                    /\ pump'[b][e].pc \in {"hold", "write"} => leaked'[b][e] = 0
  BY DEF LeakInv
<1>0. Shapes
  BY DEF LinkInv
<1>1. ASSUME NEW f \in Faults, SetStore(f) PROVE leaked'[b][e] = 0
  BY <1>1 DEF SetStore
<1>2. CASE Still
  BY <1>2 DEF Still, LeakInv
<1>3. ASSUME NEW c \in Conns, Accept(c) PROVE Still \/ UNCHANGED <<fault, pump, leaked>>
  BY <1>3 DEF Accept
<1>4. ASSUME NEW c \in Conns, Join(c)
      PROVE  /\ leaked'[b][e] <= 1
             /\ pump'[b][e].pc \in {"hold", "write"} => leaked'[b][e] = 0
  BY <1>4, JoinStarts DEF LeakInv
<1>5. ASSUME NEW c \in Conns, NEW d \in Directions, Pump(c, d)
      PROVE  /\ leaked'[b][e] <= 1
             /\ pump'[b][e].pc \in {"hold", "write"} => leaked'[b][e] = 0
  <2>1. PumpOnly /\ Apart(c, d) /\ Turn(c, d)
    BY <1>0, <1>5, PumpMoves
  <2>2. fault = "drop"
    BY <2>1 DEF PumpOnly
  <2>3. /\ leaked[b][e] <= 1 /\ leaked[b][e] \in Nat
        /\ pump[b][e].pc \in {"hold", "write"} => leaked[b][e] = 0
    BY <1>0, <2>2 DEF LeakInv, Shapes
  <2>4. CASE b = c /\ e = d
    BY <2>1, <2>2, <2>3, <2>4 DEF Turn, Swallows
  <2>5. CASE ~(b = c /\ e = d)
    BY <2>1, <2>3, <2>5 DEF Apart
  <2> QED
    BY <2>4, <2>5
<1>6. CASE UNCHANGED <<fault, pump, leaked>>
  BY <1>6 DEF LeakInv
<1> QED
  BY <1>1, <1>2, <1>3, <1>4, <1>5, <1>6, MostAreStill

(* "Drop" lets through at most the one chunk each direction already held,  *)
(* wherever the pumps of any connection stood when it was set              *)
(* (link.go:465-505).                                                      *)
THEOREM BlackholeLeaksOne == Spec => []DropLeaksOne
<1>1. Init => LeakInv
  BY DEF Init, LeakInv
<1>2. LinkInv /\ LeakInv => DropLeaksOne
  BY DEF LeakInv, DropLeaksOne
<1> QED
  BY <1>1, <1>2, LinkInit, LinkNext, LeakNext, PTL DEF Spec

-----------------------------------------------------------------------------
(***************************************************************************)
(* Streams without holes.                                                  *)
(***************************************************************************)
Whole(p) ==
  /\ \A i \in 1..Len(p.written) : p.written[i] = i
  /\ p.pc \in {"off", "read"} => p.read = Len(p.written)
  /\ p.pc \in {"decide", "hold", "write"} => p.read = Len(p.written) + 1

LEMMA WholeIs ==
  WholeInv <=> /\ fault \in Cutting \cup {"drop"} => harmed = Conns
               /\ \A c \in Conns \ harmed, d \in Directions : Whole(pump[c][d])
BY DEF WholeInv, Whole

(* Written next is the number of the chunk that was read.                  *)
LEMMA WrittenNext ==
  ASSUME NEW w \in Seq(Nat), NEW r \in Nat, r = Len(w) + 1, \A i \in 1..Len(w) : w[i] = i
  PROVE  /\ Len(Append(w, r)) = r
         /\ \A i \in 1..Len(Append(w, r)) : Append(w, r)[i] = i
<1>1. Len(Append(w, r)) = Len(w) + 1
  OBVIOUS
<1>2. ASSUME NEW i \in 1..(Len(w) + 1) PROVE Append(w, r)[i] = i
  <2>1. CASE i = Len(w) + 1
    BY <2>1
  <2>2. CASE i # Len(w) + 1
    <3>1. i \in 1..Len(w)
      BY <2>2
    <3>2. Append(w, r)[i] = w[i]
      BY <3>1
    <3> QED
      BY <3>1, <3>2
  <2> QED
    BY <2>1, <2>2
<1> QED
  BY <1>1, <1>2

LEMMA WholeTurns ==
  ASSUME NEW p, NEW q, Whole(p), p.read \in Nat, p.written \in Seq(Nat),
         \/ p.pc = "read" /\ q.pc = "decide" /\ q.read = p.read + 1 /\ q.written = p.written
         \/ p.pc = "decide" /\ q.pc \in {"hold", "write"} /\ q.read = p.read /\ q.written = p.written
         \/ p.pc = "hold" /\ q.pc \in {"write", "done"} /\ q.read = p.read /\ q.written = p.written
         \/ p.pc = "write" /\ q.pc = "read" /\ q.read = p.read /\ q.written = Append(p.written, p.read)
         \/ q.pc = "done" /\ q.written = p.written
  PROVE  Whole(q)
<1>1. \A i \in 1..Len(p.written) : p.written[i] = i
  BY DEF Whole
<1>2. CASE p.pc = "read" /\ q.pc = "decide" /\ q.read = p.read + 1 /\ q.written = p.written
  BY <1>1, <1>2 DEF Whole
<1>3. CASE p.pc \in {"decide", "hold"} /\ q.pc \in {"hold", "write"} /\ q.read = p.read /\ q.written = p.written
  BY <1>1, <1>3 DEF Whole
<1>4. CASE q.pc = "done" /\ q.written = p.written
  BY <1>1, <1>4 DEF Whole
<1>5. CASE p.pc = "write" /\ q.pc = "read" /\ q.read = p.read /\ q.written = Append(p.written, p.read)
  <2>1. p.read = Len(p.written) + 1
    BY <1>5 DEF Whole
  <2>2. Len(q.written) = p.read /\ \A i \in 1..Len(q.written) : q.written[i] = i
    BY <1>1, <1>5, <2>1, WrittenNext
  <2> QED
    BY <1>5, <2>2 DEF Whole
<1> QED
  BY <1>2, <1>3, <1>4, <1>5

LEMMA WholeStarts ==
  ASSUME NEW q, q.pc = "read", q.read = 0, q.written = <<>>
  PROVE  Whole(q)
<1>1. Len(<<>>) = 0 /\ \A i \in 1..0 : FALSE
  OBVIOUS
<1> QED
  BY <1>1 DEF Whole

LEMMA WholeNext == LinkInv /\ WholeInv /\ [Next]_vars => WholeInv'
<1> SUFFICES ASSUME LinkInv, WholeInv, [Next]_vars PROVE WholeInv'
  OBVIOUS
<1>0. /\ Shapes /\ \A c \in Conns : Life(c)
      /\ fault \in Cutting \cup {"drop"} => harmed = Conns
      /\ \A c \in Conns \ harmed, d \in Directions : Whole(pump[c][d])
  BY WholeIs DEF LinkInv
<1>1. ASSUME NEW f \in Faults, SetStore(f) PROVE WholeInv'
  <2>1. /\ fault' = f /\ pump' = pump
        /\ f \in Cutting \cup {"drop"} => harmed' = Conns
        /\ f \notin Cutting \cup {"drop"} => harmed' = harmed
    BY <1>1 DEF SetStore, netVars
  <2>2. harmed' \in {harmed, Conns}
    BY <2>1
  <2> QED
    BY <1>0, <2>1, <2>2 DEF WholeInv, Whole
<1>2. CASE Still
  BY <1>2 DEF Still, WholeInv
<1>3. ASSUME NEW c \in Conns, Accept(c) PROVE WholeInv'
  <2>1. /\ fault' = fault /\ pump' = pump
        /\ harmed' = IF fault \in Cutting \cup {"drop"} THEN harmed \cup {c} ELSE harmed \ {c}
        /\ conn[c].pc = "backlog"
    BY <1>3 DEF Accept
  <2>2. \A d \in Directions : Whole(pump[c][d])
    <3>1. \A d \in Directions : pump[c][d] = Unused
      BY <1>0, <2>1 DEF Life, Early
    <3>2. Whole(Unused)
      BY DEF Whole, Unused
    <3> QED
      BY <3>1, <3>2
  <2>3. fault' \in Cutting \cup {"drop"} => harmed' = Conns
    BY <1>0, <2>1
  <2>4. \A b \in Conns \ harmed', d \in Directions : Whole(pump[b][d])
    BY <1>0, <2>1, <2>2
  <2> QED
    BY <2>1, <2>3, <2>4 DEF WholeInv, Whole
<1>4. ASSUME NEW c \in Conns, Join(c) PROVE WholeInv'
  <2>1. fault' = fault /\ harmed' = harmed
    BY <1>4, JoinStarts
  <2>2. ASSUME NEW b \in Conns \ harmed, NEW d \in Directions PROVE Whole(pump'[b][d])
    <3>1. \/ pump'[b][d] = pump[b][d]
          \/ pump'[b][d].pc = "read" /\ pump'[b][d].read = 0 /\ pump'[b][d].written = <<>>
      BY <1>4, JoinStarts
    <3> QED
      BY <1>0, <3>1, WholeStarts
  <2> QED
    BY <1>0, <2>1, <2>2 DEF WholeInv, Whole
<1>5. ASSUME NEW c \in Conns, NEW d \in Directions, Pump(c, d) PROVE WholeInv'
  <2>1. PumpOnly /\ Apart(c, d) /\ Turn(c, d)
    BY <1>0, <1>5, PumpMoves
  <2>2. fault' = fault /\ harmed' = harmed
    BY <2>1 DEF PumpOnly
  <2>3. ASSUME NEW b \in Conns \ harmed, NEW e \in Directions PROVE Whole(pump'[b][e])
    <3>1. CASE ~(b = c /\ e = d)
      BY <1>0, <2>1, <3>1 DEF Apart
    <3>2. CASE b = c /\ e = d
      <4> DEFINE p == pump[c][d]
                 q == pump'[c][d]
      <4>1. Whole(p) /\ p.read \in Nat /\ p.written \in Seq(Nat)
        BY <1>0, <3>2 DEF Shapes, Stream
      <4>2. fault \notin Cutting \cup {"drop"}
        BY <1>0, <3>2
      <4>3. Swallows(d) = FALSE /\ fault \notin Cutting
        BY <4>2 DEF Swallows
      <4>4. \/ p.pc = "read" /\ q.pc = "decide" /\ q.read = p.read + 1 /\ q.written = p.written
            \/ p.pc = "decide" /\ q.pc \in {"hold", "write"} /\ q.read = p.read /\ q.written = p.written
            \/ p.pc = "hold" /\ q.pc \in {"write", "done"} /\ q.read = p.read /\ q.written = p.written
            \/ p.pc = "write" /\ q.pc = "read" /\ q.read = p.read /\ q.written = Append(p.written, p.read)
            \/ q.pc = "done" /\ q.written = p.written
        BY <2>1, <4>3 DEF Turn
      <4> HIDE DEF p, q
      <4>5. Whole(q)
        BY <4>1, <4>4, WholeTurns
      <4> QED
        BY <3>2, <4>5 DEF q
    <3> QED
      BY <3>1, <3>2
  <2> QED
    BY <1>0, <2>2, <2>3 DEF WholeInv, Whole
<1> QED
  BY <1>1, <1>2, <1>3, <1>4, <1>5, MostAreStill

(* A connection that never lived under Drop, Reset or Refuse has no hole   *)
(* in its stream, however faults changed and chunks were held              *)
(* (link.go:36-61).                                                        *)
THEOREM UnharmedIsWhole == Spec => []WholeUnlessHarmed
<1>1. Init => WholeInv
  <2> SUFFICES ASSUME Init PROVE WholeInv
    OBVIOUS
  <2>1. \A c \in Conns, d \in Directions : pump[c][d] = Unused
    BY DEF Init, Unused
  <2>2. Whole(Unused)
    BY DEF Whole, Unused
  <2>3. fault = "pass"
    BY DEF Init
  <2> QED
    BY <2>1, <2>2, <2>3 DEF WholeInv, Whole, Cutting
<1>2. LinkInv /\ WholeInv => WholeUnlessHarmed
  <2> SUFFICES ASSUME LinkInv, WholeInv, NEW c \in Conns \ harmed, NEW d \in Directions
               PROVE  pump[c][d].written = [i \in 1..Len(pump[c][d].written) |-> i]
    BY DEF WholeUnlessHarmed
  <2>1. pump[c][d].written \in Seq(Nat)
    BY DEF LinkInv, Shapes, Stream
  <2>2. \A i \in 1..Len(pump[c][d].written) : pump[c][d].written[i] = i
    BY DEF WholeInv
  <2> DEFINE w == pump[c][d].written
  <2> HIDE DEF w
  <2>3. w \in Seq(Nat) /\ \A i \in 1..Len(w) : w[i] = i
    BY <2>1, <2>2 DEF w
  <2>4. w = [i \in 1..Len(w) |-> i]
    BY <2>3
  <2> QED
    BY <2>4 DEF w
<1> QED
  BY <1>1, <1>2, LinkInit, LinkNext, WholeNext, PTL DEF Spec

-----------------------------------------------------------------------------
(***************************************************************************)
(* A cut.                                                                  *)
(***************************************************************************)
Severed(c) ==
  /\ ~Proxied(c)
  /\ \A d \in Directions : pump[c][d].pc \in {"hold", "write"} =>
       <<c, "client">> \notin open /\ <<c, "target">> \notin open

LEMMA CutIs == CutInv <=> (CutOff => \A c \in Conns : Severed(c))
BY DEF CutInv, Severed

(* The teardown closes the sockets of every handler that has got past its  *)
(* own look at the fault.                                                  *)
LEMMA SetApplyCuts ==
  ASSUME LinkInv, SetApply, fault' \in Cutting, NEW c \in Conns
  PROVE  Severed(c)'
<1>1. Life(c) /\ setting # None /\ setting = fault /\ fault' = fault /\ UNCHANGED <<conn, pump>>
  BY DEF LinkInv, Ordered, SetApply, Unlocked
<1>2. open' = open \ owned
  BY <1>1 DEF SetApply, TearDown, Torn
<1>3. conn[c].pc \in {"dial", "join", "proxy"} => <<c, "client">> \notin open'
  BY <1>1, <1>2 DEF Life, Served
<1>4. conn[c].pc = "proxy" => <<c, "target">> \notin open'
  BY <1>1, <1>2 DEF Life
<1>5. \A d \in Directions : pump[c][d].pc \in {"hold", "write"} => conn[c].pc = "proxy"
  BY <1>1 DEF Life, Busied
<1> QED
  BY <1>1, <1>3, <1>4, <1>5 DEF Severed, Proxied

(* A connection whose handler does not get past its look at the fault.     *)
LEMMA StaysSevered ==
  ASSUME NEW c \in Conns, Severed(c),
         conn'[c].pc \in {"dial", "join", "proxy"} => conn[c].pc \in {"dial", "join", "proxy"},
         \A d \in Directions : pump'[c][d].pc \in {"hold", "write"} =>
           pump[c][d].pc \in {"hold", "write"},
         open' \subseteq open
  PROVE  Severed(c)'
BY DEF Severed, Proxied

LEMMA HandleSevers ==
  ASSUME LinkInv, fault \in Cutting, NEW c \in Conns, Severed(c),
         Dial(c) \/ Accept(c) \/ BacklogReset(c) \/ Handle(c)
  PROVE  Severed(c)'
<1>0. Shapes /\ Life(c)
  BY DEF LinkInv
<1>1. ASSUME NEW to \in Stages, Goto(c, to) PROVE conn'[c].pc = to
  BY <1>0, <1>1, GotoIs
<1>2. ASSUME conn'[c].pc \notin {"dial", "join", "proxy"}, pump' = pump, open' \subseteq open
      PROVE  Severed(c)'
  BY <1>2, StaysSevered
<1>3. CASE Dial(c)
  BY <1>0, <1>2, <1>3 DEF Dial, Shapes
<1>4. CASE Accept(c)
  <2>1. conn'[c].pc = "accepted" /\ pump' = pump /\ \A d \in Directions : pump[c][d] = Unused
    BY <1>0, <1>1, <1>4 DEF Accept, Life, Early, Stages
  <2> QED
    BY <2>1 DEF Severed, Proxied, Unused
<1>5. CASE BacklogReset(c)
  BY <1>1, <1>2, <1>5 DEF BacklogReset, Stages
<1>6. CASE Register(c)
  <2>1. \/ Goto(c, "check") /\ open' = open
        \/ Goto(c, "gone") /\ open' = open \ {<<c, "client">>}
    BY <1>6 DEF Register
  <2>2. pump' = pump /\ "check" \in Stages /\ "gone" \in Stages
    BY <1>6 DEF Register, Stages
  <2> QED
    BY <1>1, <1>2, <2>1, <2>2
<1>7. CASE Check(c)
  <2>1. Goto(c, "release") /\ open' = open \ {<<c, "client">>} /\ pump' = pump /\ "release" \in Stages
    BY <1>7 DEF Check, Turned, Stages
  <2> QED
    BY <1>1, <1>2, <2>1
<1>8. CASE DialTarget(c)
  <2>1. /\ conn[c].pc = "dial" /\ pump' = pump /\ open' \subseteq open \cup {<<c, "target">>}
        /\ \A d \in Directions : pump[c][d] = Unused
    BY <1>0, <1>8 DEF DialTarget, Life, Early
  <2>2. <<c, "client">> \notin open'
    BY <2>1 DEF Severed, Proxied
  <2> QED
    BY <2>1, <2>2 DEF Severed, Proxied, Unused
<1>9. CASE Join(c)
  <2>1. conn[c].pc = "join" /\ open' \subseteq open
    BY <1>9 DEF Join
  <2>2. \A d \in Directions : pump'[c][d].pc \in {"hold", "write"} => pump[c][d].pc \in {"hold", "write"}
    BY <1>9, JoinStarts
  <2> QED
    BY <2>1, <2>2, StaysSevered
<1>10. CASE ReleaseTarget(c)
  <2>1. Goto(c, "release") /\ "release" \in Stages /\ open' \subseteq open /\ pump' = pump
    BY <1>10 DEF ReleaseTarget, Release, Stages
  <2> QED
    BY <1>1, <1>2, <2>1
<1>11. CASE ReleaseClient(c)
  <2>1. Goto(c, "gone") /\ "gone" \in Stages /\ open' \subseteq open /\ pump' = pump
    BY <1>11 DEF ReleaseClient, Release, Stages
  <2> QED
    BY <1>1, <1>2, <2>1
<1> QED
  BY <1>3, <1>4, <1>5, <1>6, <1>7, <1>8, <1>9, <1>10, <1>11 DEF Handle

(* What its step does to the others.                                       *)
LEMMA HandleLeaves ==
  ASSUME LinkInv, NEW c \in Conns, NEW b \in Conns \ {c}, Severed(b),
         Dial(c) \/ Accept(c) \/ BacklogReset(c) \/ Handle(c)
  PROVE  Severed(b)'
<1>0. Shapes
  BY DEF LinkInv
<1>1. conn'[b] = conn[b]
  <2>1. CASE Dial(c)
    BY <1>0, <2>1 DEF Dial, Shapes
  <2>2. CASE \E to \in Stages : Goto(c, to)
    BY <1>0, <2>2, GotoIs
  <2>3. ~Dial(c) => \E to \in Stages : Goto(c, to)
    BY DEF Accept, BacklogReset, Handle, Register, Check, DialTarget, Join, ReleaseTarget,
           ReleaseClient, Release, Stages
  <2> QED
    BY <2>1, <2>2, <2>3
<1>2. \A d \in Directions : pump'[b][d] = pump[b][d]
  <2>1. CASE Join(c)
    BY <2>1, JoinStarts
  <2>2. ~Join(c) => pump' = pump
    BY DEF Dial, Accept, BacklogReset, Handle, Register, Check, DialTarget, ReleaseTarget,
           ReleaseClient, Release
  <2> QED
    BY <2>1, <2>2
<1>3. open' \subseteq open \cup {<<c, "client">>, <<c, "target">>}
  BY DEF Dial, Accept, BacklogReset, Handle, Register, Check, DialTarget, Join, ReleaseTarget,
         ReleaseClient, Release
<1> QED
  BY <1>1, <1>2, <1>3 DEF Severed, Proxied

LEMMA PumpSevers ==
  ASSUME LinkInv, fault \in Cutting, NEW c \in Conns, NEW d \in Directions, Pump(c, d),
         NEW b \in Conns, Severed(b)
  PROVE  Severed(b)'
<1>1. Shapes
  BY DEF LinkInv
<1>2. PumpOnly /\ Apart(c, d) /\ Turn(c, d)
  BY <1>1, PumpMoves
<1>3. conn' = conn /\ open' = open
  BY <1>2 DEF PumpOnly
<1>4. pump'[c][d].pc \in {"hold", "write"} => pump[c][d].pc \in {"hold", "write"}
  BY <1>2 DEF Turn, Swallows, Cutting
<1>5. \A e \in Directions : pump'[b][e].pc \in {"hold", "write"} => pump[b][e].pc \in {"hold", "write"}
  BY <1>2, <1>4 DEF Apart
<1> QED
  BY <1>3, <1>5, StaysSevered

LEMMA CutNext == LinkInv /\ CutInv /\ [Next]_vars => CutInv'
<1> SUFFICES ASSUME LinkInv, CutInv, [Next]_vars, CutOff', NEW b \in Conns
             PROVE  Severed(b)'
  BY DEF CutInv, Severed
<1>1. ASSUME NEW f \in Faults, SetStore(f) PROVE FALSE
  BY <1>1, LinkAssumption DEF SetStore, CutOff, Unlocked
<1>2. CASE SetApply
  BY <1>2, SetApplyCuts DEF CutOff
<1>3. ASSUME fault' = fault, setting' = setting PROVE fault \in Cutting /\ Severed(b)
  BY <1>3, CutIs DEF CutOff, Unlocked
<1>4. CASE Close \/ CloseReturns
  <2>1. UNCHANGED <<fault, setting, conn, pump>> /\ open' \subseteq open
    BY <1>4 DEF Close, CloseReturns, TearDown, Unlocked, netVars
  <2> QED
    BY <1>3, <2>1, StaysSevered
<1>5. ASSUME NEW c \in Conns, Dial(c) \/ Accept(c) \/ BacklogReset(c) \/ Handle(c)
      PROVE  Severed(b)'
  <2>1. fault' = fault /\ setting' = setting
    BY <1>5 DEF Dial, Accept, BacklogReset, Handle, Register, Check, DialTarget, Join,
                ReleaseTarget, ReleaseClient, Release
  <2>2. CASE b = c
    BY <1>3, <1>5, <2>1, <2>2, HandleSevers
  <2>3. CASE b # c
    BY <1>3, <1>5, <2>1, <2>3, HandleLeaves
  <2> QED
    BY <2>2, <2>3
<1>6. ASSUME NEW g \in acceptors, AcceptExit(g) PROVE Severed(b)'
  <2>1. UNCHANGED <<fault, setting, conn, pump, open>>
    BY <1>6 DEF AcceptExit, netVars
  <2> QED
    BY <1>3, <2>1, StaysSevered
<1>7. ASSUME NEW c \in Conns, NEW d \in Directions, Pump(c, d) PROVE Severed(b)'
  <2>1. Shapes
    BY DEF LinkInv
  <2>2. fault' = fault /\ setting' = setting
    BY <1>7, <2>1, PumpMoves DEF PumpOnly
  <2> QED
    BY <1>3, <1>7, <2>2, PumpSevers
<1>8. CASE UNCHANGED vars
  <2>1. UNCHANGED <<fault, setting, conn, pump, open>>
    BY <1>8 DEF vars, netVars
  <2> QED
    BY <1>3, <2>1, StaysSevered
<1> QED
  BY <1>1, <1>2, <1>4, <1>5, <1>6, <1>7, <1>8 DEF Next

(* The only step that writes finds its socket closed.                      *)
LEMMA CutWrites ==
  ASSUME LinkInv, CutInv, [Next]_vars, CutOff, NEW c \in Conns
  PROVE  ~Writes(c)
<1>0. Shapes /\ Severed(c)
  BY CutIs DEF LinkInv
<1> SUFFICES ASSUME NEW e \in Directions PROVE pump'[c][e].written = pump[c][e].written
  BY DEF Writes
<1>1. CASE pump' = pump
  BY <1>1
<1>2. ASSUME NEW b \in Conns, Join(b) PROVE pump'[c][e].written = pump[c][e].written
  BY <1>2, JoinStarts DEF Unused
<1>3. ASSUME NEW b \in Conns, NEW d \in Directions, Pump(b, d)
      PROVE  pump'[c][e].written = pump[c][e].written
  <2>1. Apart(b, d) /\ Turn(b, d)
    BY <1>0, <1>3, PumpMoves
  <2>2. CASE ~(b = c /\ d = e)
    BY <2>1, <2>2 DEF Apart
  <2>3. CASE b = c /\ d = e
    <3>1. Dest(e) \in {"client", "target"}
      BY DEF Dest
    <3>2. pump[c][e].pc = "write" => <<c, Dest(e)>> \notin open
      BY <1>0, <3>1 DEF Severed
    <3> QED
      BY <2>1, <2>3, <3>2 DEF Turn
  <2> QED
    BY <2>2, <2>3
<1> QED
  BY <1>1, <1>2, <1>3, MostAreStill DEF Still, SetStore, Accept, netVars

(* While Reset or Refuse is in force no client is being proxied, whichever *)
(* of the teardown and the handler came first, and nothing is written in   *)
(* either direction (link.go:71-80, 273-294, 394-410, 425-437).            *)
THEOREM CutReachesAll == Spec => CutIsComplete
<1>1. Init => CutInv
  BY DEF Init, CutInv, CutOff, Cutting
<1>2. LinkInv /\ CutInv => (CutOff => \A c \in Conns : ~Proxied(c))
  BY DEF CutInv
<1>3. LinkInv /\ CutInv /\ [Next]_vars => [CutOff => \A c \in Conns : ~Writes(c)]_vars
  BY CutWrites
<1> QED
  BY <1>1, <1>2, <1>3, LinkInit, LinkNext, CutNext, PTL DEF Spec, CutIsComplete

=============================================================================
