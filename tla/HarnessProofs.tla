----------------------------- MODULE HarnessProofs ----------------------------
(***************************************************************************)
(* For any number of nodes, clients and registers, any fault schedule and  *)
(* any outcomes: the schedule ends with the network whole and leaves both  *)
(* sides of a cut somebody to serve, the final reads are made of a quiet   *)
(* network, and the identifiers in the history are those of sequential     *)
(* processes.                                                              *)
(***************************************************************************)
EXTENDS Harness, Sweep, TLAPS, FiniteSetTheorems, SequenceTheorems, NaturalsInduction,
  WellFoundedInduction

Places  == {"asked", "build", "refused", "printed", "clients", "nemesis", "heal", "read", "returned"}
Turns   == {"loop", "count", "do", "retire", "done"}
Entries == [proc : Nat, node : Nat, outcome : Outcomes, final : BOOLEAN]

-----------------------------------------------------------------------------
(***************************************************************************)
(* Types.                                                                  *)
(***************************************************************************)
Shapes ==
  /\ config \in Configs
  /\ main \in [pc : Places, node : Nat, key : Nat, proc : Nat, todo : SUBSET Links]
  /\ DOMAIN link = Links
  /\ client \in [Clients -> [pc : Turns, proc : Nat]]
  /\ nextProc \in Nat /\ DOMAIN nodeOf \subseteq 0..nextProc
  /\ rec \in Seq(Entries)
  /\ begun \in Nat

(***************************************************************************)
(* The order of the phases: once the clients have been waited for they     *)
(* stay where they ended, once the nemesis has been it sets nothing more,  *)
(* and each link healed since then stays whole.  Every operation begun is  *)
(* recorded or a client is in the middle of it.                            *)
(***************************************************************************)
Doing == {i \in Clients : client[i].pc = "do"}

Waited ==
  /\ main.pc \in {"nemesis", "heal", "read", "returned"} => ClientsEnded
  /\ main.pc \in {"heal", "read", "returned"} =>
       nemesis.pc = "done" /\ \A l \in Links \ main.todo : link[l] = "pass"
  /\ main.pc \in {"read", "returned"} => main.todo = {}
  /\ begun = Len(rec) + Cardinality(Doing)

(***************************************************************************)
(* Who uses which identifier: a client its own, the main goroutine its own *)
(* while it reads, and none again after an indeterminate operation.        *)
(***************************************************************************)
Identities ==
  /\ \A i \in Clients : client[i].proc \in DOMAIN nodeOf /\ nodeOf[client[i].proc] = NodeFor(i)
  /\ \A i, j \in Clients : client[i].proc = client[j].proc => i = j
  /\ \A k \in DOMAIN rec : rec[k].proc \in DOMAIN nodeOf /\ nodeOf[rec[k].proc] = rec[k].node
  /\ \A j, k \in DOMAIN rec : j < k /\ rec[j].proc = rec[k].proc =>
       rec[j].outcome # "info" /\ rec[j].final = rec[k].final
  /\ \A k \in DOMAIN rec, i \in Clients : rec[k].proc = client[i].proc =>
       ~rec[k].final /\ (rec[k].outcome = "info" => client[i].pc = "retire")

Reading ==
  main.pc = "read" =>
    /\ main.proc \in DOMAIN nodeOf /\ nodeOf[main.proc] = main.node
    /\ \A i \in Clients : client[i].proc # main.proc
    /\ \A k \in DOMAIN rec : rec[k].proc = main.proc => rec[k].final /\ rec[k].outcome # "info"

CampaignInv == Shapes /\ Waited /\ Identities /\ Reading

-----------------------------------------------------------------------------
(***************************************************************************)
(* What is asked for does not change, and with it neither do the clients,  *)
(* the links and the nodes.                                                *)
(***************************************************************************)
LEMMA ConfigTypes ==
  ASSUME config \in Configs
  PROVE  /\ config.nodes \in Nat \ {0} /\ config.clients \in Nat
         /\ Clients \subseteq Nat /\ IsFiniteSet(Clients)
         /\ \A i \in Nat : NodeFor(i) \in Nat
<1>1. config.nodes \in Nat \ {0} /\ config.clients \in Nat
  BY TimelineAssumption
<1>2. config.clients - 1 \in Int
  BY <1>1
<1>3. IsFiniteSet(Clients)
  BY <1>2, FS_Interval DEF Clients
<1>4. ASSUME NEW i \in Nat PROVE NodeFor(i) \in Nat
  BY <1>1 DEF NodeFor
<1> QED
  BY <1>1, <1>3, <1>4 DEF Clients

LEMMA ConfigKept ==
  ASSUME config' = config
  PROVE  /\ Clients' = Clients /\ Links' = Links
         /\ \A i : NodeFor(i)' = NodeFor(i)
BY DEF Clients, Links, ClientLinks, PeerLinks, Nodes, NodeFor

LEMMA LayKeeps == Lay => config' = config
BY DEF Lay, NodePhase, NodeEnd, GeneratePhase, GenerateNothing, GenerateEnd

LEMMA AtIs ==
  ASSUME Shapes, NEW to \in Places, At(to)
  PROVE  /\ main' \in [pc : Places, node : Nat, key : Nat, proc : Nat, todo : SUBSET Links]
         /\ main'.pc = to /\ main'.todo = main.todo /\ main'.proc = main.proc
         /\ main'.node = main.node /\ main'.key = main.key
BY DEF Shapes, At

(* A fresh identifier is nobody's yet.                                     *)
LEMMA NamedIs ==
  ASSUME Shapes, NEW n
  PROVE  /\ nextProc + 1 \in Nat /\ nextProc + 1 \notin DOMAIN nodeOf
         /\ DOMAIN Named(nextProc + 1, n) = DOMAIN nodeOf \cup {nextProc + 1}
         /\ DOMAIN Named(nextProc + 1, n) \subseteq 0..(nextProc + 1)
         /\ Named(nextProc + 1, n)[nextProc + 1] = n
         /\ \A q \in DOMAIN nodeOf : Named(nextProc + 1, n)[q] = nodeOf[q]
<1>1. nextProc \in Nat /\ DOMAIN nodeOf \subseteq 0..nextProc
  BY DEF Shapes
<1>2. nextProc + 1 \in Nat /\ nextProc + 1 \notin DOMAIN nodeOf
  BY <1>1
<1>3. DOMAIN nodeOf \cup {nextProc + 1} \subseteq 0..(nextProc + 1)
  BY <1>1
<1> QED
  BY <1>2, <1>3 DEF Named

-----------------------------------------------------------------------------
(***************************************************************************)
(* Nothing the identifiers depend on has changed.                          *)
(***************************************************************************)
LEMMA IdentitiesKept ==
  ASSUME Identities, UNCHANGED <<config, nodeOf, rec>>,
         \A i \in Clients : client'[i].proc = client[i].proc,
         \A i \in Clients : client[i].pc = "retire" => client'[i].pc = "retire"
  PROVE  Identities'
<1>1. Clients' = Clients /\ \A i : NodeFor(i)' = NodeFor(i)
  BY ConfigKept
<1> QED
  BY <1>1 DEF Identities

LEMMA ReadingKept ==
  ASSUME Reading, UNCHANGED <<config, nodeOf, rec>>,
         \A i \in Clients : client'[i].proc = client[i].proc,
         main'.pc = "read" => main.pc = "read" /\ main'.proc = main.proc /\ main'.node = main.node
  PROVE  Reading'
<1>1. Clients' = Clients
  BY ConfigKept
<1> QED
  BY <1>1 DEF Reading

LEMMA ShapesKept ==
  ASSUME Shapes, UNCHANGED <<config, client, nextProc, nodeOf, rec, begun>>, DOMAIN link' = DOMAIN link,
         main' \in [pc : Places, node : Nat, key : Nat, proc : Nat, todo : SUBSET Links]
  PROVE  Shapes'
<1>1. Clients' = Clients /\ Links' = Links
  BY ConfigKept
<1> QED
  BY <1>1 DEF Shapes

LEMMA DoingKept ==
  ASSUME UNCHANGED <<config, client>>
  PROVE  Doing' = Doing /\ ClientsEnded' = ClientsEnded
<1>1. Clients' = Clients
  BY ConfigKept
<1> QED
  BY <1>1 DEF Doing, ClientsEnded

(***************************************************************************)
(* Before the clients are started, and while only the network changes.     *)
(***************************************************************************)
LEMMA CampaignInit == Init => CampaignInv
<1> SUFFICES ASSUME Init PROVE CampaignInv
  OBVIOUS
<1>1. config \in Configs
  BY DEF Init, Blank
<1>2. /\ config.clients \in Nat /\ Clients \subseteq Nat /\ Clients = 0..(config.clients - 1)
      /\ \A i \in Nat : NodeFor(i) \in Nat
  BY <1>1, ConfigTypes DEF Clients
<1>3. /\ main.pc = "asked"
      /\ main \in [pc : Places, node : Nat, key : Nat, proc : Nat, todo : SUBSET Links]
  BY DEF Init, Places
<1>4. \A i \in Clients : client[i].pc = "loop" /\ client[i].proc = i
  BY DEF Init
<1>5. client \in [Clients -> [pc : Turns, proc : Nat]]
  BY <1>2 DEF Init, Turns
<1>6. nodeOf = [i \in Clients |-> NodeFor(i)] /\ nextProc = config.clients /\ rec = <<>> /\ begun = 0
  BY DEF Init, FirstFresh
<1>7. Shapes
  <2>1. DOMAIN nodeOf \subseteq 0..nextProc /\ nextProc \in Nat
    BY <1>2, <1>6
  <2>2. DOMAIN link = Links
    BY DEF Init
  <2>3. rec \in Seq(Entries) /\ begun \in Nat
    BY <1>6
  <2> QED
    BY <1>1, <1>3, <1>5, <2>1, <2>2, <2>3 DEF Shapes
<1>8. Waited
  <2>1. Doing = {}
    BY <1>4 DEF Doing
  <2>2. Cardinality({}) = 0
    BY FS_EmptySet
  <2>3. begun = Len(rec) + Cardinality(Doing)
    <3>1. Len(<<>>) = 0
      OBVIOUS
    <3> QED
      BY <1>6, <2>1, <2>2, <3>1
  <2> QED
    BY <1>3, <2>3 DEF Waited
<1>9. Identities
  <2>1. DOMAIN rec = {}
    BY <1>6
  <2>2. \A i \in Clients : client[i].proc \in DOMAIN nodeOf /\ nodeOf[client[i].proc] = NodeFor(i)
    BY <1>4, <1>6
  <2> QED
    BY <1>4, <2>1, <2>2 DEF Identities
<1>10. Reading
  BY <1>3 DEF Reading
<1> QED
  BY <1>7, <1>8, <1>9, <1>10 DEF CampaignInv

LEMMA LayingInv ==
  ASSUME CampaignInv, Accept \/ Refuse \/ LayOut \/ Begin
  PROVE  CampaignInv'
<1>1. Shapes /\ Waited /\ Identities /\ Reading
  BY DEF CampaignInv
<1>2. /\ UNCHANGED <<link, nemesis, client, nextProc, nodeOf, rec, begun>>
      /\ main.pc \in {"asked", "build"} /\ config' = config
  BY LayKeeps DEF Accept, Refuse, LayOut, Begin, net, loops, timeline
<1>3. /\ main' \in [pc : Places, node : Nat, key : Nat, proc : Nat, todo : SUBSET Links]
      /\ main'.pc \in {"asked", "build", "refused", "clients", "printed"}
  <2>1. {"build", "refused", "clients", "printed"} \subseteq Places
    BY DEF Places
  <2>2. CASE LayOut
    BY <1>1, <1>2, <2>2 DEF LayOut, Shapes
  <2>3. CASE ~LayOut
    <3>1. PICK to \in {"build", "refused", "clients", "printed"} : At(to)
      BY <2>3 DEF Accept, Refuse, Begin
    <3> QED
      BY <1>1, <2>1, <3>1, AtIs
  <2> QED
    BY <2>2, <2>3
<1>4. Shapes'
  BY <1>1, <1>2, <1>3, ShapesKept
<1>5. Waited'
  BY <1>1, <1>2, <1>3, DoingKept DEF Waited
<1>6. Identities'
  BY <1>1, <1>2, IdentitiesKept
<1>7. Reading'
  BY <1>3 DEF Reading
<1> QED
  BY <1>4, <1>5, <1>6, <1>7 DEF CampaignInv

LEMMA NetworkInv ==
  ASSUME CampaignInv, UNCHANGED <<config, main, client, nextProc, nodeOf, rec, begun>>,
         DOMAIN link' = DOMAIN link,
         nemesis.pc = "done" => nemesis' = nemesis /\ link' = link
  PROVE  CampaignInv'
<1>1. Shapes /\ Waited /\ Identities /\ Reading
  BY DEF CampaignInv
<1>2. Links' = Links
  BY ConfigKept
<1>3. Shapes'
  <2>1. main' \in [pc : Places, node : Nat, key : Nat, proc : Nat, todo : SUBSET Links]
    BY <1>1 DEF Shapes
  <2> QED
    BY <1>1, <2>1, ShapesKept
<1>4. Waited'
  BY <1>1, <1>2, DoingKept DEF Waited
<1>5. Identities'
  BY <1>1, IdentitiesKept
<1>6. Reading'
  BY <1>1, ReadingKept
<1> QED
  BY <1>3, <1>4, <1>5, <1>6 DEF CampaignInv

LEMMA NemesisKeeps ==
  ASSUME CampaignInv, Nemesis \/ TimeIsUp
  PROVE  CampaignInv'
<1>1. /\ UNCHANGED <<config, main, client, nextProc, nodeOf, rec, begun>>
      /\ nemesis.pc = "done" => nemesis' = nemesis /\ link' = link
  BY DEF Nemesis, TimeIsUp, NemesisEvent, NemesisSet, NemesisApplied, NemesisHeal, NemesisDone,
         loops, timeline
<1>2. DOMAIN link' = DOMAIN link
  <2>1. ASSUME NEW l \in Links, NemesisSet(l) PROVE DOMAIN link' = DOMAIN link
    BY <2>1 DEF NemesisSet
  <2>2. ~(\E l \in Links : NemesisSet(l)) => link' = link
    BY DEF Nemesis, TimeIsUp, NemesisEvent, NemesisApplied, NemesisHeal, NemesisDone
  <2> QED
    BY <2>1, <2>2
<1> QED
  BY <1>1, <1>2, NetworkInv

-----------------------------------------------------------------------------
(***************************************************************************)
(* The clients.                                                            *)
(***************************************************************************)
LEMMA OneMore ==
  ASSUME NEW S, IsFiniteSet(S), NEW x, x \notin S
  PROVE  Cardinality(S \cup {x}) = Cardinality(S) + 1 /\ Cardinality(S) \in Nat
BY FS_AddElement, FS_CardinalityType

LEMMA OneLess ==
  ASSUME NEW S, IsFiniteSet(S), NEW x \in S
  PROVE  Cardinality(S \ {x}) = Cardinality(S) - 1 /\ Cardinality(S) \in Nat
BY FS_RemoveElement, FS_CardinalityType

LEMMA DoingFinite ==
  ASSUME Shapes
  PROVE  IsFiniteSet(Doing) /\ Cardinality(Doing) \in Nat
<1>1. IsFiniteSet(Clients) /\ Doing \subseteq Clients
  BY ConfigTypes DEF Shapes, Doing
<1> QED
  BY <1>1, FS_Subset, FS_CardinalityType

(* A client that takes a step is still at it, so the main goroutine is not *)
(* past waiting for it.                                                    *)
LEMMA StillRunning ==
  ASSUME Shapes, Waited, NEW i \in Clients, client[i].pc # "done"
  PROVE  main.pc \notin {"nemesis", "heal", "read", "returned"}
BY DEF Waited, ClientsEnded

LEMMA TurnIs ==
  ASSUME Shapes, config' = config, NEW i \in Clients, NEW to \in Turns,
         client' = [client EXCEPT ![i].pc = to]
  PROVE  /\ client' \in [Clients' -> [pc : Turns, proc : Nat]]
         /\ client'[i].pc = to
         /\ \A j \in Clients : client'[j].proc = client[j].proc
         /\ \A j \in Clients \ {i} : client'[j] = client[j]
<1>1. Clients' = Clients /\ client \in [Clients -> [pc : Turns, proc : Nat]]
  BY ConfigKept DEF Shapes
<1> QED
  BY <1>1

LEMMA LookInv ==
  ASSUME CampaignInv, NEW i, Look(i)
  PROVE  CampaignInv'
<1>1. Shapes /\ Waited /\ Identities /\ Reading
  BY DEF CampaignInv
<1>2. /\ UNCHANGED <<config, main, link, nemesis, nextProc, nodeOf, rec, begun>>
      /\ main.pc = "clients" /\ i \in Clients /\ client[i].pc = "loop"
  BY DEF Look, net, timeline
<1>3. PICK to \in {"done", "count"} : client' = [client EXCEPT ![i].pc = to]
  BY DEF Look
<1>4. /\ client' \in [Clients' -> [pc : Turns, proc : Nat]]
      /\ client'[i].pc = to
      /\ \A j \in Clients : client'[j].proc = client[j].proc
      /\ \A j \in Clients \ {i} : client'[j] = client[j]
  <2>1. to \in Turns
    BY DEF Turns
  <2> QED
    BY <1>1, <1>2, <1>3, <2>1, TurnIs
<1>5. Clients' = Clients /\ Links' = Links
  BY <1>2, ConfigKept
<1>6. Shapes'
  BY <1>1, <1>2, <1>4, <1>5 DEF Shapes
<1>7. Waited'
  <2>1. Doing' = Doing
    BY <1>2, <1>4, <1>5 DEF Doing
  <2> QED
    BY <1>1, <1>2, <2>1 DEF Waited
<1>8. Identities'
  BY <1>1, <1>2, <1>4, IdentitiesKept
<1>9. Reading'
  BY <1>2 DEF Reading
<1> QED
  BY <1>6, <1>7, <1>8, <1>9 DEF CampaignInv

LEMMA CountInv ==
  ASSUME CampaignInv, NEW i, Count(i)
  PROVE  CampaignInv'
<1>1. Shapes /\ Waited /\ Identities /\ Reading
  BY DEF CampaignInv
<1>2. /\ UNCHANGED <<config, main, link, nemesis, nextProc, nodeOf, rec>>
      /\ i \in Clients /\ client[i].pc = "count"
      /\ begun' = begun + 1 /\ client' = [client EXCEPT ![i].pc = "do"] /\ "do" \in Turns
  BY DEF Count, net, timeline, Turns
<1>3. /\ client' \in [Clients' -> [pc : Turns, proc : Nat]]
      /\ client'[i].pc = "do"
      /\ \A j \in Clients : client'[j].proc = client[j].proc
      /\ \A j \in Clients \ {i} : client'[j] = client[j]
  BY <1>1, <1>2, TurnIs
<1>4. Clients' = Clients /\ Links' = Links
  BY <1>2, ConfigKept
<1>5. main.pc \notin {"nemesis", "heal", "read", "returned"}
  BY <1>1, <1>2, StillRunning
<1>6. Shapes'
  BY <1>1, <1>2, <1>3, <1>4 DEF Shapes
<1>7. Waited'
  <2>1. Doing' = Doing \cup {i} /\ i \notin Doing
    BY <1>2, <1>3, <1>4 DEF Doing
  <2>2. Cardinality(Doing') = Cardinality(Doing) + 1 /\ Cardinality(Doing) \in Nat
    BY <1>1, <2>1, DoingFinite, OneMore
  <2>3. begun' = Len(rec') + Cardinality(Doing')
    BY <1>1, <1>2, <2>2 DEF Waited, Shapes
  <2> QED
    BY <1>2, <1>5, <2>3 DEF Waited
<1>8. Identities'
  BY <1>1, <1>2, <1>3, IdentitiesKept
<1>9. Reading'
  BY <1>2, <1>5 DEF Reading
<1> QED
  BY <1>6, <1>7, <1>8, <1>9 DEF CampaignInv

(* One operation more in the record, at the end.                           *)
LEMMA RecordIs ==
  ASSUME Shapes, NEW r \in Entries, rec' = Append(rec, r)
  PROVE  /\ rec' \in Seq(Entries) /\ Len(rec') = Len(rec) + 1 /\ Len(rec) \in Nat
         /\ DOMAIN rec' = 1..(Len(rec) + 1) /\ DOMAIN rec = 1..Len(rec)
         /\ rec'[Len(rec) + 1] = r
         /\ \A k \in DOMAIN rec : rec'[k] = rec[k]
<1>1. rec \in Seq(Entries)
  BY DEF Shapes
<1> HIDE DEF Entries
<1> QED
  BY <1>1

(***************************************************************************)
(* An identifier that the owner of an operation may still use.             *)
(***************************************************************************)
Usable(p, n, final) ==
  /\ p \in DOMAIN nodeOf /\ nodeOf[p] = n
  /\ \A k \in DOMAIN rec : rec[k].proc = p => rec[k].outcome # "info" /\ rec[k].final = final

LEMMA RecordKeepsIdentities ==
  ASSUME Shapes, Identities, NEW r \in Entries, rec' = Append(rec, r),
         Usable(r.proc, r.node, r.final),
         DOMAIN nodeOf \subseteq DOMAIN nodeOf', \A q \in DOMAIN nodeOf : nodeOf'[q] = nodeOf[q]
  PROVE  /\ \A k \in DOMAIN rec' : rec'[k].proc \in DOMAIN nodeOf' /\ nodeOf'[rec'[k].proc] = rec'[k].node
         /\ \A j, k \in DOMAIN rec' : j < k /\ rec'[j].proc = rec'[k].proc =>
              rec'[j].outcome # "info" /\ rec'[j].final = rec'[k].final
<1>1. /\ DOMAIN rec' = 1..(Len(rec) + 1) /\ DOMAIN rec = 1..Len(rec) /\ Len(rec) \in Nat
      /\ rec'[Len(rec) + 1] = r
      /\ \A k \in DOMAIN rec : rec'[k] = rec[k]
  BY RecordIs
<1>2. ASSUME NEW k \in DOMAIN rec'
      PROVE  rec'[k].proc \in DOMAIN nodeOf' /\ nodeOf'[rec'[k].proc] = rec'[k].node
  <2>1. CASE k = Len(rec) + 1
    BY <1>1, <2>1 DEF Usable
  <2>2. CASE k # Len(rec) + 1
    BY <1>1, <2>2 DEF Identities
  <2> QED
    BY <2>1, <2>2
<1>3. ASSUME NEW j \in DOMAIN rec', NEW k \in DOMAIN rec', j < k, rec'[j].proc = rec'[k].proc
      PROVE  rec'[j].outcome # "info" /\ rec'[j].final = rec'[k].final
  <2>1. j \in DOMAIN rec /\ rec'[j] = rec[j]
    BY <1>1, <1>3
  <2>2. CASE k = Len(rec) + 1
    BY <1>1, <1>3, <2>1, <2>2 DEF Usable
  <2>3. CASE k # Len(rec) + 1
    BY <1>1, <1>3, <2>1, <2>3 DEF Identities
  <2> QED
    BY <2>2, <2>3
<1> QED
  BY <1>2, <1>3

LEMMA DoInv ==
  ASSUME CampaignInv, NEW i, Do(i)
  PROVE  CampaignInv'
<1>1. Shapes /\ Waited /\ Identities /\ Reading
  BY DEF CampaignInv
<1>2. /\ UNCHANGED <<config, main, link, nemesis, nextProc, nodeOf, begun>>
      /\ i \in Clients /\ client[i].pc = "do"
  BY DEF Do, net, timeline
<1>3. PICK outcome \in Outcomes :
        /\ rec' = Append(rec, Record(client[i].proc, NodeFor(i), outcome, FALSE))
        /\ client' = [client EXCEPT ![i].pc = IF outcome = "info" THEN "retire" ELSE "loop"]
  BY DEF Do
<1> DEFINE r == Record(client[i].proc, NodeFor(i), outcome, FALSE)
<1>4. /\ r \in Entries /\ r.proc = client[i].proc /\ r.node = NodeFor(i)
      /\ r.outcome = outcome /\ r.final = FALSE
  <2>1. i \in Nat /\ NodeFor(i) \in Nat /\ client[i].proc \in Nat
    BY <1>1, <1>2, ConfigTypes DEF Shapes
  <2> QED
    BY <2>1 DEF Record, Entries
<1> HIDE DEF r
<1>5. /\ rec' = Append(rec, r)
      /\ rec' \in Seq(Entries) /\ Len(rec') = Len(rec) + 1 /\ Len(rec) \in Nat
      /\ DOMAIN rec' = 1..(Len(rec) + 1) /\ DOMAIN rec = 1..Len(rec)
      /\ rec'[Len(rec) + 1] = r /\ \A k \in DOMAIN rec : rec'[k] = rec[k]
  <2>1. rec' = Append(rec, r)
    BY <1>3 DEF r
  <2> QED
    BY <1>1, <1>4, <2>1, RecordIs
<1>6. /\ client' \in [Clients' -> [pc : Turns, proc : Nat]]
      /\ client'[i].pc = IF outcome = "info" THEN "retire" ELSE "loop"
      /\ \A j \in Clients : client'[j].proc = client[j].proc
      /\ \A j \in Clients \ {i} : client'[j] = client[j]
  <2>1. "retire" \in Turns /\ "loop" \in Turns
    BY DEF Turns
  <2> QED
    BY <1>1, <1>2, <1>3, <2>1, TurnIs
<1>7. Clients' = Clients /\ Links' = Links /\ \A j : NodeFor(j)' = NodeFor(j)
  BY <1>2, ConfigKept
<1>8. main.pc \notin {"nemesis", "heal", "read", "returned"}
  BY <1>1, <1>2, StillRunning
<1>9. Shapes'
  BY <1>1, <1>2, <1>5, <1>6, <1>7 DEF Shapes
<1>10. Waited'
  <2>1. Doing' = Doing \ {i} /\ i \in Doing
    BY <1>2, <1>6, <1>7 DEF Doing
  <2>2. Cardinality(Doing') = Cardinality(Doing) - 1 /\ Cardinality(Doing) \in Nat
    BY <1>1, <2>1, DoingFinite, OneLess
  <2>3. begun' = Len(rec') + Cardinality(Doing')
    BY <1>1, <1>2, <1>5, <2>2 DEF Waited
  <2> QED
    BY <1>2, <1>8, <2>3 DEF Waited
<1>11. Identities'
  <2>1. Usable(r.proc, r.node, r.final)
    <3>1. ASSUME NEW k \in DOMAIN rec, rec[k].proc = client[i].proc
          PROVE  rec[k].outcome # "info" /\ rec[k].final = FALSE
      <4>1. rec[k].final \in BOOLEAN
        <5>1. rec \in Seq(Entries) /\ k \in 1..Len(rec)
          BY <1>1, <1>5 DEF Shapes
        <5>2. rec[k] \in Entries
          BY <5>1
        <5> QED
          BY <5>2 DEF Entries
      <4>2. ~rec[k].final /\ rec[k].outcome # "info"
        BY <1>1, <1>2, <3>1 DEF Identities
      <4> QED
        BY <4>1, <4>2
    <3>2. client[i].proc \in DOMAIN nodeOf /\ nodeOf[client[i].proc] = NodeFor(i)
      BY <1>1, <1>2 DEF Identities
    <3> QED
      BY <1>4, <3>1, <3>2 DEF Usable
  <2>2. /\ \A k \in DOMAIN rec' : rec'[k].proc \in DOMAIN nodeOf' /\ nodeOf'[rec'[k].proc] = rec'[k].node
        /\ \A j, k \in DOMAIN rec' : j < k /\ rec'[j].proc = rec'[k].proc =>
             rec'[j].outcome # "info" /\ rec'[j].final = rec'[k].final
    <3>1. DOMAIN nodeOf \subseteq DOMAIN nodeOf' /\ \A q \in DOMAIN nodeOf : nodeOf'[q] = nodeOf[q]
      BY <1>2
    <3>2. r \in Entries /\ rec' = Append(rec, r)
      BY <1>4, <1>5
    <3> QED
      BY <1>1, <2>1, <3>1, <3>2, RecordKeepsIdentities
  <2>3. ASSUME NEW k \in DOMAIN rec', NEW j \in Clients, rec'[k].proc = client[j].proc
        PROVE  ~rec'[k].final /\ (rec'[k].outcome = "info" => client'[j].pc = "retire")
    <3>1. CASE k = Len(rec) + 1
      <4>1. rec'[k] = r /\ j = i
        BY <1>1, <1>2, <1>4, <1>5, <2>3, <3>1 DEF Identities
      <4> QED
        BY <1>4, <1>6, <4>1
    <3>2. CASE k # Len(rec) + 1
      <4>1. k \in DOMAIN rec /\ rec'[k] = rec[k]
        BY <1>5, <3>2
      <4>2. ~rec[k].final /\ (rec[k].outcome = "info" => client[j].pc = "retire")
        BY <1>1, <2>3, <4>1 DEF Identities
      <4> QED
        BY <1>2, <1>6, <4>1, <4>2
    <3> QED
      BY <3>1, <3>2
  <2>4. \A j \in Clients : client'[j].proc \in DOMAIN nodeOf' /\ nodeOf'[client'[j].proc] = NodeFor(j)
    BY <1>1, <1>2, <1>6 DEF Identities
  <2>5. \A j, k \in Clients : client'[j].proc = client'[k].proc => j = k
    BY <1>1, <1>6 DEF Identities
  <2> QED
    BY <1>6, <1>7, <2>2, <2>3, <2>4, <2>5 DEF Identities
<1>12. Reading'
  BY <1>2, <1>8 DEF Reading
<1> QED
  BY <1>9, <1>10, <1>11, <1>12 DEF CampaignInv

LEMMA RetireInv ==
  ASSUME CampaignInv, NEW i, Retire(i)
  PROVE  CampaignInv'
<1>1. Shapes /\ Waited /\ Identities /\ Reading
  BY DEF CampaignInv
<1> DEFINE p == nextProc + 1
<1>2. /\ UNCHANGED <<config, main, link, nemesis, rec, begun>>
      /\ i \in Clients /\ client[i].pc = "retire"
      /\ nextProc' = p /\ client' = [client EXCEPT ![i] = [pc |-> "loop", proc |-> p]]
      /\ nodeOf' = Named(p, NodeFor(i))
  BY DEF Retire, Fresh, net, timeline
<1>3. /\ p \in Nat /\ p \notin DOMAIN nodeOf
      /\ DOMAIN nodeOf' = DOMAIN nodeOf \cup {p} /\ DOMAIN nodeOf' \subseteq 0..p
      /\ nodeOf'[p] = NodeFor(i) /\ \A q \in DOMAIN nodeOf : nodeOf'[q] = nodeOf[q]
  BY <1>1, <1>2, NamedIs
<1> HIDE DEF p
<1>4. Clients' = Clients /\ Links' = Links /\ \A j : NodeFor(j)' = NodeFor(j)
  BY <1>2, ConfigKept
<1>5. /\ client' \in [Clients' -> [pc : Turns, proc : Nat]]
      /\ client'[i].pc = "loop" /\ client'[i].proc = p
      /\ \A j \in Clients \ {i} : client'[j] = client[j]
  <2>1. "loop" \in Turns
    BY DEF Turns
  <2> QED
    BY <1>1, <1>2, <1>3, <1>4, <2>1 DEF Shapes
<1>6. main.pc \notin {"nemesis", "heal", "read", "returned"}
  BY <1>1, <1>2, StillRunning
<1>7. Shapes'
  BY <1>1, <1>2, <1>3, <1>4, <1>5 DEF Shapes
<1>8. Waited'
  <2>1. Doing' = Doing
    BY <1>2, <1>4, <1>5 DEF Doing
  <2> QED
    BY <1>1, <1>2, <1>6, <2>1 DEF Waited
<1>9. Identities'
  <2>1. \A j \in Clients : client'[j].proc \in DOMAIN nodeOf' /\ nodeOf'[client'[j].proc] = NodeFor(j)
    BY <1>1, <1>3, <1>5 DEF Identities
  <2>2. \A j, k \in Clients : client'[j].proc = client'[k].proc => j = k
    BY <1>1, <1>3, <1>5 DEF Identities
  <2>3. \A k \in DOMAIN rec : rec[k].proc \in DOMAIN nodeOf' /\ nodeOf'[rec[k].proc] = rec[k].node
    BY <1>1, <1>3 DEF Identities
  <2>4. ASSUME NEW k \in DOMAIN rec, NEW j \in Clients, rec[k].proc = client'[j].proc
        PROVE  ~rec[k].final /\ (rec[k].outcome = "info" => client'[j].pc = "retire")
    <3>1. j # i
      BY <1>1, <1>3, <1>5, <2>4 DEF Identities
    <3> QED
      BY <1>1, <1>5, <2>4, <3>1 DEF Identities
  <2> QED
    BY <1>1, <1>2, <1>4, <2>1, <2>2, <2>3, <2>4 DEF Identities
<1>10. Reading'
  BY <1>2, <1>6 DEF Reading
<1> QED
  BY <1>7, <1>8, <1>9, <1>10 DEF CampaignInv

-----------------------------------------------------------------------------
(***************************************************************************)
(* The main goroutine.                                                     *)
(***************************************************************************)
Mains == [pc : Places, node : Nat, key : Nat, proc : Nat, todo : SUBSET Links]

LEMMA ClientsDoneInv ==
  ASSUME CampaignInv, ClientsDone
  PROVE  CampaignInv'
<1>1. Shapes /\ Waited /\ Identities /\ Reading
  BY DEF CampaignInv
<1>2. /\ UNCHANGED <<config, link, nemesis, client, nextProc, nodeOf, rec, begun>>
      /\ ClientsEnded /\ main' = [main EXCEPT !.pc = "nemesis"]
  BY DEF ClientsDone, loops, timeline
<1>3. main' \in Mains /\ main'.pc = "nemesis"
  BY <1>1, <1>2 DEF Shapes, Mains, Places
<1>4. Shapes'
  BY <1>1, <1>2, <1>3, ShapesKept DEF Mains
<1>5. Waited'
  BY <1>1, <1>2, <1>3, DoingKept DEF Waited
<1>6. Identities'
  BY <1>1, <1>2, IdentitiesKept
<1>7. Reading'
  BY <1>3 DEF Reading
<1> QED
  BY <1>4, <1>5, <1>6, <1>7 DEF CampaignInv

LEMMA AwaitInv ==
  ASSUME CampaignInv, AwaitNemesis
  PROVE  CampaignInv'
<1>1. Shapes /\ Waited /\ Identities /\ Reading
  BY DEF CampaignInv
<1>2. /\ UNCHANGED <<config, link, nemesis, client, nextProc, nodeOf, rec, begun>>
      /\ main.pc = "nemesis" /\ nemesis.pc = "done"
      /\ main' = [main EXCEPT !.pc = "heal", !.todo = Links]
  BY DEF AwaitNemesis, NemesisOver, net, loops, timeline
<1>3. main' \in Mains /\ main'.pc = "heal" /\ main'.todo = Links
  BY <1>1, <1>2 DEF Shapes, Mains, Places
<1>4. Shapes' /\ Links' = Links
  BY <1>1, <1>2, <1>3, ShapesKept, ConfigKept DEF Mains
<1>5. Waited'
  BY <1>1, <1>2, <1>3, <1>4, DoingKept DEF Waited
<1>6. Identities'
  BY <1>1, <1>2, IdentitiesKept
<1>7. Reading'
  BY <1>3 DEF Reading
<1> QED
  BY <1>4, <1>5, <1>6, <1>7 DEF CampaignInv

LEMMA MainHealInv ==
  ASSUME CampaignInv, NEW l \in Links, MainHeal(l)
  PROVE  CampaignInv'
<1>1. Shapes /\ Waited /\ Identities /\ Reading
  BY DEF CampaignInv
<1>2. /\ UNCHANGED <<config, nemesis, client, nextProc, nodeOf, rec, begun>>
      /\ main.pc = "heal" /\ main' = [main EXCEPT !.todo = @ \ {l}]
      /\ link' = [link EXCEPT ![l] = "pass"]
  BY DEF MainHeal, loops, timeline
<1>3. main' \in Mains /\ main'.pc = "heal" /\ main'.todo = main.todo \ {l}
  BY <1>1, <1>2 DEF Shapes, Mains
<1>4. /\ DOMAIN link' = DOMAIN link /\ link'[l] = "pass" /\ Links' = Links
      /\ \A m \in Links \ {l} : link'[m] = link[m]
  BY <1>1, <1>2, ConfigKept DEF Shapes
<1>5. Shapes'
  BY <1>1, <1>2, <1>3, <1>4, ShapesKept DEF Mains
<1>6. Waited'
  BY <1>1, <1>2, <1>3, <1>4, DoingKept DEF Waited
<1>7. Identities'
  BY <1>1, <1>2, IdentitiesKept
<1>8. Reading'
  BY <1>3 DEF Reading
<1> QED
  BY <1>5, <1>6, <1>7, <1>8 DEF CampaignInv

(* The next node to be read from, under a fresh identifier.                *)
LEMMA FinalNodeInv ==
  ASSUME CampaignInv, NEW n \in Nat, FinalNode(n),
         main.pc \in {"heal", "read"}, main.todo = {},
         UNCHANGED <<config, link, nemesis, client, rec, begun>>
  PROVE  CampaignInv'
<1>1. Shapes /\ Waited /\ Identities /\ Reading
  BY DEF CampaignInv
<1> DEFINE p == nextProc + 1
<1>2. /\ nextProc' = p /\ nodeOf' = Named(p, n)
      /\ main' = [main EXCEPT !.pc = "read", !.node = n, !.key = 1, !.proc = p]
  BY DEF FinalNode
<1>3. /\ p \in Nat /\ p \notin DOMAIN nodeOf
      /\ DOMAIN nodeOf' = DOMAIN nodeOf \cup {p} /\ DOMAIN nodeOf' \subseteq 0..p
      /\ nodeOf'[p] = n /\ \A q \in DOMAIN nodeOf : nodeOf'[q] = nodeOf[q]
  BY <1>1, <1>2, NamedIs
<1> HIDE DEF p
<1>4. /\ main' \in Mains /\ main'.pc = "read" /\ main'.todo = {}
      /\ main'.node = n /\ main'.proc = p
  BY <1>1, <1>2, <1>3 DEF Shapes, Mains, Places
<1>5. Clients' = Clients /\ Links' = Links /\ \A j : NodeFor(j)' = NodeFor(j)
  BY ConfigKept
<1>6. Shapes'
  BY <1>1, <1>2, <1>3, <1>4, <1>5 DEF Shapes, Mains
<1>7. Waited'
  BY <1>1, <1>4, <1>5, DoingKept DEF Waited
<1>8. Identities'
  BY <1>1, <1>3, <1>5 DEF Identities
<1>9. Reading'
  BY <1>1, <1>3, <1>4, <1>5 DEF Reading, Identities
<1> QED
  BY <1>6, <1>7, <1>8, <1>9 DEF CampaignInv

LEMMA ReturningInv ==
  ASSUME CampaignInv, At("returned"), main.pc \in {"heal", "read"}, main.todo = {},
         UNCHANGED <<config, link, nemesis, client, nextProc, nodeOf, rec, begun>>
  PROVE  CampaignInv'
<1>1. Shapes /\ Waited /\ Identities /\ Reading
  BY DEF CampaignInv
<1>2. main' \in Mains /\ main'.pc = "returned" /\ main'.todo = {}
  BY <1>1, AtIs DEF Mains, Places
<1>3. Shapes' /\ Links' = Links
  BY <1>1, <1>2, ShapesKept, ConfigKept DEF Mains
<1>4. Waited'
  BY <1>1, <1>2, <1>3, DoingKept DEF Waited
<1>5. Identities'
  BY <1>1, IdentitiesKept
<1>6. Reading'
  BY <1>2 DEF Reading
<1> QED
  BY <1>3, <1>4, <1>5, <1>6 DEF CampaignInv

LEMMA SettledInv ==
  ASSUME CampaignInv, Settled
  PROVE  CampaignInv'
<1>1. /\ UNCHANGED <<config, link, nemesis, client, rec, begun>>
      /\ main.pc = "heal" /\ main.todo = {}
  BY DEF Settled, timeline
<1>2. CASE FinalNode(0)
  BY <1>1, <1>2, FinalNodeInv
<1>3. CASE At("returned") /\ UNCHANGED <<nextProc, nodeOf>>
  BY <1>1, <1>3, ReturningInv
<1> QED
  BY <1>2, <1>3 DEF Settled

LEMMA TurningInv ==
  ASSUME CampaignInv, NextNode \/ Return
  PROVE  CampaignInv'
<1>1. /\ UNCHANGED <<config, link, nemesis, client, rec, begun>>
      /\ main.pc = "read"
  BY DEF NextNode, Return, net, loops, timeline
<1>2. main.todo = {} /\ main.node \in Nat
  BY <1>1 DEF CampaignInv, Waited, Shapes
<1>3. CASE NextNode
  BY <1>1, <1>2, <1>3, FinalNodeInv DEF NextNode
<1>4. CASE Return
  BY <1>1, <1>2, <1>4, ReturningInv DEF Return, At, loops
<1> QED
  BY <1>3, <1>4

(* After an answer the reader keeps its identifier, without one it takes a *)
(* fresh one.                                                              *)
LEMMA FinalReadInv ==
  ASSUME CampaignInv, FinalRead
  PROVE  CampaignInv'
<1>1. Shapes /\ Waited /\ Identities /\ Reading
  BY DEF CampaignInv
<1>2. /\ UNCHANGED <<config, link, nemesis, client>>
      /\ main.pc = "read" /\ begun' = begun + 1
  BY DEF FinalRead, net, timeline
<1> DEFINE p == nextProc + 1
<1>3. PICK outcome \in Outcomes :
        /\ rec' = Append(rec, Record(main.proc, main.node, outcome, TRUE))
        /\ IF outcome = "info"
             THEN /\ nextProc' = p /\ nodeOf' = Named(p, main.node)
                  /\ main' = [main EXCEPT !.key = @ + 1, !.proc = p]
             ELSE main' = [main EXCEPT !.key = @ + 1] /\ UNCHANGED <<nextProc, nodeOf>>
  BY DEF FinalRead
<1>4. /\ p \in Nat /\ p \notin DOMAIN nodeOf
      /\ DOMAIN Named(p, main.node) = DOMAIN nodeOf \cup {p} /\ DOMAIN Named(p, main.node) \subseteq 0..p
      /\ Named(p, main.node)[p] = main.node
      /\ \A q \in DOMAIN nodeOf : Named(p, main.node)[q] = nodeOf[q]
  BY <1>1, NamedIs
<1> HIDE DEF p
<1> DEFINE r == Record(main.proc, main.node, outcome, TRUE)
<1>5. /\ r \in Entries /\ r.proc = main.proc /\ r.node = main.node
      /\ r.outcome = outcome /\ r.final = TRUE
  BY <1>1 DEF Record, Entries, Shapes
<1>6. rec' = Append(rec, r)
  BY <1>3
<1> HIDE DEF r
<1>7. /\ rec' \in Seq(Entries) /\ Len(rec') = Len(rec) + 1 /\ Len(rec) \in Nat
      /\ DOMAIN rec' = 1..(Len(rec) + 1) /\ DOMAIN rec = 1..Len(rec)
      /\ rec'[Len(rec) + 1] = r /\ \A k \in DOMAIN rec : rec'[k] = rec[k]
  BY <1>1, <1>5, <1>6, RecordIs
<1>8. /\ DOMAIN nodeOf \subseteq DOMAIN nodeOf' /\ \A q \in DOMAIN nodeOf : nodeOf'[q] = nodeOf[q]
      /\ nextProc' \in Nat /\ DOMAIN nodeOf' \subseteq 0..nextProc'
  BY <1>1, <1>3, <1>4 DEF Shapes
<1>9. /\ main' \in Mains /\ main'.pc = "read" /\ main'.node = main.node /\ main'.todo = main.todo
      /\ main'.proc = IF outcome = "info" THEN p ELSE main.proc
  <2>1. main \in Mains /\ main.key + 1 \in Nat
    BY <1>1 DEF Shapes, Mains
  <2>2. CASE outcome = "info"
    BY <1>2, <1>3, <1>4, <2>1, <2>2 DEF Mains
  <2>3. CASE outcome # "info"
    BY <1>2, <1>3, <2>1, <2>3 DEF Mains
  <2> QED
    BY <2>2, <2>3
<1>10. Clients' = Clients /\ Links' = Links /\ \A j : NodeFor(j)' = NodeFor(j)
  BY <1>2, ConfigKept
<1>11. Shapes'
  BY <1>1, <1>2, <1>7, <1>8, <1>9, <1>10 DEF Shapes, Mains
<1>12. Waited'
  <2>1. Doing' = Doing /\ ClientsEnded' = ClientsEnded
    BY <1>2, DoingKept
  <2>2. begun' = Len(rec') + Cardinality(Doing')
    BY <1>1, <1>2, <1>7, <2>1, DoingFinite DEF Waited
  <2> QED
    BY <1>1, <1>2, <1>9, <1>10, <2>1, <2>2 DEF Waited
<1>13. Usable(r.proc, r.node, r.final)
  BY <1>1, <1>2, <1>5 DEF Usable, Reading
<1>14. Identities'
  <2>1. /\ \A k \in DOMAIN rec' : rec'[k].proc \in DOMAIN nodeOf' /\ nodeOf'[rec'[k].proc] = rec'[k].node
        /\ \A j, k \in DOMAIN rec' : j < k /\ rec'[j].proc = rec'[k].proc =>
             rec'[j].outcome # "info" /\ rec'[j].final = rec'[k].final
    BY <1>1, <1>5, <1>6, <1>8, <1>13, RecordKeepsIdentities
  <2>2. ASSUME NEW k \in DOMAIN rec', NEW j \in Clients, rec'[k].proc = client[j].proc
        PROVE  ~rec'[k].final /\ (rec'[k].outcome = "info" => client[j].pc = "retire")
    <3>1. k # Len(rec) + 1
      BY <1>1, <1>2, <1>5, <1>7, <2>2 DEF Reading
    <3> QED
      BY <1>1, <1>7, <2>2, <3>1 DEF Identities
  <2>3. \A j \in Clients : client[j].proc \in DOMAIN nodeOf' /\ nodeOf'[client[j].proc] = NodeFor(j)
    BY <1>1, <1>8 DEF Identities
  <2>4. \A j, k \in Clients : client[j].proc = client[k].proc => j = k
    BY <1>1 DEF Identities
  <2> QED
    BY <1>2, <1>10, <2>1, <2>2, <2>3, <2>4 DEF Identities
<1>15. Reading'
  <2>1. CASE outcome = "info"
    <3>1. main'.proc = p /\ main'.node = main.node /\ nodeOf' = Named(p, main.node)
      BY <1>3, <1>9, <2>1
    <3>2. \A j \in Clients : client[j].proc # p
      BY <1>1, <1>4 DEF Identities
    <3>3. ASSUME NEW k \in DOMAIN rec' PROVE rec'[k].proc # p
      <4>1. CASE k = Len(rec) + 1
        BY <1>4, <1>5, <1>7, <1>13, <4>1 DEF Usable
      <4>2. CASE k # Len(rec) + 1
        BY <1>1, <1>4, <1>7, <4>2 DEF Identities
      <4> QED
        BY <4>1, <4>2
    <3> QED
      BY <1>2, <1>4, <1>10, <3>1, <3>2, <3>3 DEF Reading
  <2>2. CASE outcome # "info"
    <3>1. main'.proc = main.proc /\ main'.node = main.node /\ nodeOf' = nodeOf
      BY <1>3, <1>9, <2>2
    <3>2. ASSUME NEW k \in DOMAIN rec', rec'[k].proc = main.proc
          PROVE  rec'[k].final /\ rec'[k].outcome # "info"
      <4>1. CASE k = Len(rec) + 1
        BY <1>5, <1>7, <2>2, <4>1
      <4>2. CASE k # Len(rec) + 1
        BY <1>1, <1>2, <1>7, <3>2, <4>2 DEF Reading
      <4> QED
        BY <4>1, <4>2
    <3> QED
      BY <1>1, <1>2, <1>10, <3>1, <3>2 DEF Reading
  <2> QED
    BY <2>1, <2>2
<1> QED
  BY <1>11, <1>12, <1>14, <1>15 DEF CampaignInv

-----------------------------------------------------------------------------
LEMMA CampaignNext == CampaignInv /\ [Next]_vars => CampaignInv'
<1> SUFFICES ASSUME CampaignInv, [Next]_vars PROVE CampaignInv'
  OBVIOUS
<1>1. CASE Nemesis \/ TimeIsUp
  BY <1>1, NemesisKeeps
<1>2. ASSUME NEW i, Client(i) PROVE CampaignInv'
  BY <1>2, LookInv, CountInv, DoInv, RetireInv DEF Client
<1>3. CASE Accept \/ Refuse \/ LayOut \/ Begin
  BY <1>3, LayingInv
<1>4. CASE ClientsDone \/ AwaitNemesis \/ Settled \/ FinalRead
  BY <1>4, ClientsDoneInv, AwaitInv, SettledInv, FinalReadInv
<1>5. CASE NextNode \/ Return
  BY <1>5, TurningInv
<1>6. ASSUME NEW l \in Links, MainHeal(l) PROVE CampaignInv'
  BY <1>6, MainHealInv
<1>7. CASE UNCHANGED vars
  BY <1>7, NetworkInv DEF vars, net, loops, timeline
<1> QED
  BY <1>1, <1>2, <1>3, <1>4, <1>5, <1>6, <1>7 DEF Next, Main

(* What holds of every state of a campaign.                               *)
THEOREM CampaignTypes == Spec => []CampaignInv
<1>1. Init => CampaignInv
  BY CampaignInit
<1>2. CampaignInv /\ [Next]_vars => CampaignInv'
  BY CampaignNext
<1> QED
  BY <1>1, <1>2, PTL DEF Spec

(* When the clients have ended none of them is in the middle of an         *)
(* operation.                                                              *)
LEMMA QuietReads == CampaignInv => FinalReadsUndisturbed
<1> SUFFICES ASSUME CampaignInv, main.pc \in {"read", "returned"}
             PROVE  /\ \A l \in Links : link[l] = "pass"
                    /\ ClientsEnded
                    /\ Len(rec) = begun
  BY DEF FinalReadsUndisturbed
<1>1. ClientsEnded /\ main.todo = {} /\ \A l \in Links \ main.todo : link[l] = "pass"
  BY DEF CampaignInv, Waited
<1>2. Doing = {}
  BY <1>1 DEF Doing, ClientsEnded
<1>3. Cardinality({}) = 0 /\ rec \in Seq(Entries)
  BY FS_EmptySet DEF CampaignInv, Shapes
<1>4. Len(rec) \in Nat /\ begun = Len(rec) + Cardinality(Doing)
  BY <1>3 DEF CampaignInv, Waited
<1> QED
  BY <1>1, <1>2, <1>3, <1>4

LEMMA SequentialIds == CampaignInv => ProcessesAreSequential
<1> SUFFICES ASSUME Identities PROVE ProcessesAreSequential
  BY DEF CampaignInv
<1>1. ASSUME NEW j \in DOMAIN rec, NEW k \in DOMAIN rec, j < k, rec[j].proc = rec[k].proc
      PROVE  rec[j].outcome # "info" /\ rec[j].node = rec[k].node /\ rec[j].final = rec[k].final
  BY <1>1 DEF Identities
<1> QED
  BY <1>1 DEF ProcessesAreSequential, Identities

(* The final reads are made of a quiet network by the only goroutine still *)
(* at work, with every operation before them recorded                      *)
(* (harness.go:366-395, nemesis.go:30-38).                                 *)
THEOREM FinalReadsAreQuiet == Spec => []FinalReadsUndisturbed
BY CampaignTypes, QuietReads, PTL

(* Every identifier in the history is that of one sequential process,      *)
(* which ends with its first indeterminate operation and always asks the   *)
(* same node (harness.go:300-306, 345-350, 376-390).                       *)
THEOREM IdentifiersAreSequential == Spec => []ProcessesAreSequential
BY CampaignTypes, SequentialIds, PTL

-----------------------------------------------------------------------------
(***************************************************************************)
(* The schedule as it is laid: in order, inside the run, and every fault   *)
(* followed at once by its heal.                                           *)
(***************************************************************************)
Plans == [at : Nat, links : SUBSET Links, fault : {"drop", "refuse", "reset", "delay", "pass"}]

(* Node-level schedules end where the last eighth of the run begins.       *)
LastInstant == IF NodeLevel THEN Duration - Tail8 ELSE Duration

(* What may go down: a boundary between nodes, a partition, or one link.   *)
MayGoDown(g) ==
  IF NodeLevel THEN g.links \in NodeCut
  ELSE \/ g.links \in Cuts(Links) /\ g.fault = "drop"
       \/ \E l \in Links : g.links = {l}

Heals(h, g) == h.fault = "pass" /\ g.links \subseteq h.links

Planned ==
  /\ config \in Configs /\ now \in Nat /\ groups \in Seq(Plans)
  /\ \A i \in DOMAIN groups : groups[i].at <= LastInstant /\ (~laid => groups[i].at <= now)
  /\ \A i, j \in DOMAIN groups : i < j => groups[i].at <= groups[j].at
  /\ \A i \in DOMAIN groups : groups[i].fault # "pass" =>
       /\ MayGoDown(groups[i])
       /\ i < Len(groups) /\ Heals(groups[i + 1], groups[i])

LEMMA DurationTypes ==
  ASSUME config \in Configs
  PROVE  /\ Duration \in Nat \ {0} /\ Tail8 \in Nat /\ Duration - Tail8 \in Nat
         /\ LastInstant \in Nat /\ LastInstant <= Duration
<1>1. Duration \in Nat \ {0}
  BY TimelineAssumption DEF Duration
<1>2. Tail8 \in Nat /\ Tail8 <= Duration
  BY <1>1 DEF Tail8
<1> QED
  BY <1>1, <1>2 DEF LastInstant

LEMMA PlanKept ==
  ASSUME config' = config
  PROVE  /\ Plans' = Plans /\ LastInstant' = LastInstant
         /\ \A g : MayGoDown(g)' <=> MayGoDown(g)
         /\ NodeLevel' = NodeLevel /\ Duration' = Duration /\ Tail8' = Tail8
         /\ Nodes' = Nodes
<1>1. /\ Nodes' = Nodes /\ Links' = Links /\ NodeLevel' = NodeLevel
      /\ Duration' = Duration /\ Tail8' = Tail8
  BY DEF Nodes, Links, ClientLinks, PeerLinks, NodeLevel, Duration, Tail8
<1>2. Plans' = Plans /\ LastInstant' = LastInstant
  BY <1>1 DEF Plans, LastInstant
<1>3. NodeCut' = NodeCut /\ Cuts(Links)' = Cuts(Links)
  BY <1>1 DEF NodeCut, Crossing, MayStrand, FirstOf, StrictSubsets, PeerLinks, ClientLinks, Nodes, Cuts
<1>4. \A g : MayGoDown(g)' <=> MayGoDown(g)
  BY <1>1, <1>3 DEF MayGoDown
<1> QED
  BY <1>1, <1>2, <1>4

(* A fault and its heal laid behind the others.                            *)
LEMMA PairLaid ==
  ASSUME Planned, ~laid, config' = config, laid' = laid, now' \in Nat,
         NEW a \in Plans, NEW b \in Plans, groups' = groups \o <<a, b>>,
         now <= a.at, a.at <= b.at, b.at <= now', b.at <= LastInstant,
         MayGoDown(a), Heals(b, a)
  PROVE  Planned'
<1> DEFINE n == Len(groups)
<1>1. /\ groups \in Seq(Plans) /\ n \in Nat /\ DOMAIN groups = 1..n
      /\ now \in Nat /\ config \in Configs
  BY DEF Planned
<1>2. \A i \in 1..n : groups[i] \in Plans
  BY <1>1
<1>3. /\ groups' \in Seq(Plans) /\ Len(groups') = n + 2 /\ DOMAIN groups' = 1..(n + 2)
      /\ \A i \in 1..n : groups'[i] = groups[i]
      /\ groups'[n + 1] = a /\ groups'[n + 2] = b
  BY <1>1
<1>4. \A g \in Plans : g.at \in Nat
  BY DEF Plans
<1>5. LastInstant \in Nat
  BY <1>1, DurationTypes
<1>6. \A i \in 1..n : groups[i].at \in Nat /\ groups[i].at <= LastInstant /\ groups[i].at <= now
  BY <1>1, <1>2, <1>4 DEF Planned
<1>21. \A i, j \in 1..n : i < j => groups[i].at <= groups[j].at
  BY <1>1 DEF Planned
<1>22. \A i \in 1..n : groups[i].fault # "pass" =>
         MayGoDown(groups[i]) /\ i < n /\ Heals(groups[i + 1], groups[i])
  BY <1>1 DEF Planned
<1>7. a.at \in Nat /\ b.at \in Nat /\ b.fault = "pass"
  BY <1>4 DEF Heals
<1> HIDE DEF n
<1>8. \A i \in DOMAIN groups' : i \in 1..n \/ i = n + 1 \/ i = n + 2
  BY <1>1, <1>3
<1>9. \A i \in DOMAIN groups' : groups'[i].at <= LastInstant /\ groups'[i].at <= now'
  <2> SUFFICES ASSUME NEW i \in DOMAIN groups'
               PROVE  groups'[i].at <= LastInstant /\ groups'[i].at <= now'
    OBVIOUS
  <2>1. CASE i \in 1..n
    <3>1. groups'[i] = groups[i]
      BY <1>3, <2>1
    <3>2. groups[i].at \in Nat /\ groups[i].at <= LastInstant /\ groups[i].at <= now
      BY <1>6, <2>1
    <3> QED
      BY <1>1, <1>7, <3>1, <3>2
  <2>2. CASE i = n + 1
    <3>1. groups'[i] = a
      BY <1>3, <2>2
    <3> QED
      BY <1>5, <1>7, <3>1
  <2>3. CASE i = n + 2
    <3>1. groups'[i] = b
      BY <1>3, <2>3
    <3> QED
      BY <1>5, <1>7, <3>1
  <2> QED
    BY <1>8, <2>1, <2>2, <2>3
<1>10. \A i, j \in DOMAIN groups' : i < j => groups'[i].at <= groups'[j].at
  <2> SUFFICES ASSUME NEW i \in DOMAIN groups', NEW j \in DOMAIN groups', i < j
               PROVE  groups'[i].at <= groups'[j].at
    OBVIOUS
  <2>1. CASE j \in 1..n
    <3>1. i \in 1..n
      BY <1>1, <1>3, <2>1
    <3>2. groups'[i] = groups[i] /\ groups'[j] = groups[j]
      BY <1>3, <2>1, <3>1
    <3>3. groups[i].at <= groups[j].at
      BY <1>21, <2>1, <3>1
    <3> QED
      BY <3>2, <3>3
  <2>2. CASE i \in 1..n /\ j \notin 1..n
    <3>1. groups'[i] = groups[i] /\ groups[i].at \in Nat /\ groups[i].at <= now
      BY <1>3, <1>6, <2>2
    <3>2. groups'[j] = a \/ groups'[j] = b
      BY <1>3, <1>8, <2>2
    <3>3. now \in Nat /\ groups[i].at <= a.at /\ groups[i].at <= b.at
      BY <1>1, <1>7, <3>1
    <3> QED
      BY <3>1, <3>2, <3>3
  <2>3. CASE i \notin 1..n /\ j \notin 1..n
    <3>1. i = n + 1 /\ j = n + 2
      BY <1>1, <1>8, <2>3
    <3> QED
      BY <1>3, <3>1
  <2> QED
    BY <1>1, <1>3, <1>8, <2>1, <2>2, <2>3
<1>11. ASSUME NEW i \in DOMAIN groups', groups'[i].fault # "pass"
       PROVE  /\ MayGoDown(groups'[i])
              /\ i < Len(groups') /\ Heals(groups'[i + 1], groups'[i])
  <2>1. CASE i \in 1..n
    <3>1. MayGoDown(groups[i]) /\ i < n /\ Heals(groups[i + 1], groups[i])
      BY <1>3, <1>11, <1>22, <2>1
    <3>2. i + 1 \in 1..n
      BY <1>1, <2>1, <3>1
    <3> QED
      BY <1>1, <1>3, <2>1, <3>1, <3>2
  <2>2. CASE i = n + 1
    <3>1. i + 1 = n + 2 /\ i < n + 2
      BY <1>1, <2>2
    <3> QED
      BY <1>3, <2>2, <3>1
  <2>3. i # n + 2
    BY <1>3, <1>7, <1>11
  <2> QED
    BY <1>8, <2>1, <2>2, <2>3
<1>12. Plans' = Plans /\ LastInstant' = LastInstant /\ \A g : MayGoDown(g)' <=> MayGoDown(g)
  BY PlanKept
<1>13. (\A i \in DOMAIN groups : groups[i].fault # "pass" =>
          /\ MayGoDown(groups[i])
          /\ i < Len(groups) /\ Heals(groups[i + 1], groups[i]))'
  BY <1>11, <1>12 DEF Heals
<1>16. (config \in Configs /\ now \in Nat /\ groups \in Seq(Plans))'
  BY <1>1, <1>3, <1>12
<1>17. (\A i \in DOMAIN groups : groups[i].at <= LastInstant /\ (~laid => groups[i].at <= now))'
  BY <1>9, <1>12
<1> QED
  BY <1>10, <1>13, <1>16, <1>17 DEF Planned

-----------------------------------------------------------------------------
(* A non-empty set of numbers has a least one.                             *)
LEMMA LeastNumber ==
  ASSUME NEW T \in SUBSET Nat, T # {}
  PROVE  \E i \in T : \A j \in T : i <= j
<1> DEFINE Below == {ss \in Nat \X Nat : ss[1] < ss[2]}
<1>1. IsWellFoundedOn(Below, Nat)
  BY NatLessThanWellFounded DEF OpToRel
<1> HIDE DEF Below
<1>2. PICK i \in T : \A j \in T : ~(<<j, i>> \in Below)
  BY <1>1, WFMin
<1>3. ASSUME NEW j \in T, ~(i <= j) PROVE FALSE
  <2>1. i \in Nat /\ j \in Nat /\ j < i
    BY <1>3
  <2>2. <<j, i>> \in Nat \X Nat /\ <<j, i>>[1] < <<j, i>>[2]
    BY <2>1
  <2>3. <<j, i>> \in Below
    BY <2>2, Zenon DEF Below
  <2> QED  BY <1>2, <2>3
<1> QED  BY <1>3

(* A non-empty set of positions has a last one.                            *)
LEMMA LastPosition ==
  ASSUME NEW n \in Nat, NEW T \in SUBSET (1..n), T # {}
  PROVE  \E i \in T : \A j \in T : j <= i
<1> DEFINE U == {n - i : i \in T}
<1>1. U \in SUBSET Nat /\ U # {}
  <2>1. \A i \in T : i \in Int /\ i <= n
    OBVIOUS
  <2>2. \A i \in T : n - i \in Nat
    BY <2>1
  <2> QED
    BY <2>2
<1>2. PICK u \in U : \A v \in U : u <= v
  BY <1>1, LeastNumber
<1>3. PICK i \in T : u = n - i
  BY <1>2
<1>4. ASSUME NEW j \in T PROVE j <= i
  <2>1. n - i <= n - j
    BY <1>2, <1>3
  <2> QED
    BY <2>1
<1> QED
  BY <1>4

(* What a cut of nodes takes down are links.                               *)
LEMMA CutLinks ==
  ASSUME config \in Configs
  PROVE  \A cut \in NodeCut : cut \in SUBSET Links
<1> SUFFICES ASSUME NEW cut \in NodeCut PROVE cut \subseteq Links
  OBVIOUS
<1>1. \A s : Crossing(s) \subseteq PeerLinks
  BY DEF Crossing
<1>2. ASSUME NEW s \in StrictSubsets(Nodes) PROVE FirstOf(s) \in Nodes
  <2>1. s \in SUBSET Nat /\ s # {} /\ s \subseteq Nodes
    BY <1>2, TimelineAssumption DEF StrictSubsets, Nodes
  <2>2. \E i \in s : \A j \in s : i <= j
    BY <2>1, LeastNumber
  <2> QED
    BY <2>1, <2>2 DEF FirstOf
<1>3. \A m \in Nodes : {<<m>>} \subseteq ClientLinks
  BY DEF ClientLinks
<1>4. \/ cut = ClientLinks
      \/ \E s \in StrictSubsets(Nodes) : cut = Crossing(s) \/ cut = Crossing(s) \cup {<<FirstOf(s)>>}
  BY DEF NodeCut
<1> QED
  BY <1>1, <1>2, <1>3, <1>4 DEF Links

LEMMA PlannedInit == Init => Planned
<1> SUFFICES ASSUME Init PROVE Planned
  OBVIOUS
<1>1. config \in Configs /\ groups = <<>> /\ now = IF NodeLevel THEN Tail8 ELSE 0
  BY DEF Init, Blank
<1>2. now \in Nat
  BY <1>1, DurationTypes
<1> QED
  BY <1>1, <1>2 DEF Planned

LEMMA PlannedKept ==
  ASSUME Planned, UNCHANGED <<config, groups>>, now' \in Nat, laid' \/ (laid' = laid /\ now' >= now)
  PROVE  Planned'
<1>1. /\ config \in Configs /\ now \in Nat /\ groups \in Seq(Plans)
      /\ \A i \in DOMAIN groups : groups[i].at <= LastInstant /\ (~laid => groups[i].at <= now)
      /\ \A i, j \in DOMAIN groups : i < j => groups[i].at <= groups[j].at
      /\ \A i \in DOMAIN groups : groups[i].fault # "pass" =>
           /\ MayGoDown(groups[i])
           /\ i < Len(groups) /\ Heals(groups[i + 1], groups[i])
  BY DEF Planned
<1>2. Plans' = Plans /\ LastInstant' = LastInstant /\ \A g : MayGoDown(g)' <=> MayGoDown(g)
  BY PlanKept
<1>3. \A i \in DOMAIN groups : groups[i].at \in Nat
  <2>1. \A i \in DOMAIN groups : groups[i] \in Plans
    BY <1>1
  <2> QED
    BY <2>1 DEF Plans
<1>4. (\A i \in DOMAIN groups : groups[i].at <= LastInstant /\ (~laid => groups[i].at <= now))'
  BY <1>1, <1>2, <1>3
<1>5. (\A i \in DOMAIN groups : groups[i].fault # "pass" =>
           /\ MayGoDown(groups[i])
           /\ i < Len(groups) /\ Heals(groups[i + 1], groups[i]))'
  BY <1>1, <1>2 DEF Heals
<1> QED
  BY <1>1, <1>2, <1>4, <1>5 DEF Planned

(* NodeCut in its place, its heal before the last eighth.                  *)
LEMMA NodePhasePlanned == ASSUME Planned, NodePhase PROVE Planned'
<1>1. PICK cut \in NodeCut, for \in CutFor, pause \in Pause :
        /\ groups' = groups \o <<Group(now, cut, CutFault), Group(CutEnd(now, for), Links, "pass")>>
        /\ now' = CutEnd(now, for) + pause
  BY DEF NodePhase
<1>2. NodeLevel /\ ~laid /\ now < Duration - Tail8 /\ config' = config /\ laid' = laid
  BY DEF NodePhase, MayCut
<1>3. config \in Configs /\ now \in Nat /\ for \in Nat \ {0} /\ pause \in Nat \ {0}
  BY TimelineAssumption DEF Planned
<1>4. Duration - Tail8 \in Nat /\ LastInstant = Duration - Tail8
  BY <1>2, <1>3, DurationTypes DEF LastInstant
<1> DEFINE end == CutEnd(now, for)
           a == Group(now, cut, CutFault)
           b == Group(end, Links, "pass")
<1>5. end \in Nat /\ now <= end /\ end <= LastInstant
  BY <1>2, <1>3, <1>4 DEF CutEnd
<1> HIDE DEF end
<1>6. cut \in SUBSET Links
  BY <1>3, CutLinks
<1>7. a \in Plans /\ b \in Plans /\ a.at = now /\ b.at = end
  BY <1>3, <1>5, <1>6 DEF Plans, Group, CutFault
<1>8. MayGoDown(a) /\ Heals(b, a)
  BY <1>2, <1>6 DEF MayGoDown, Heals, Group
<1>9. groups' = groups \o <<a, b>> /\ now' = end + pause
  BY <1>1 DEF end
<1> HIDE DEF a, b
<1> QED
  BY <1>2, <1>3, <1>5, <1>7, <1>8, <1>9, PairLaid

(* The last heal.                                                          *)
LEMMA NodeEndPlanned == ASSUME Planned, NodeEnd PROVE Planned'
<1> DEFINE n == Len(groups)
           b == Group(Duration - Tail8, Links, "pass")
<1>1. NodeLevel /\ ~laid /\ laid' /\ now' = 0 /\ config' = config /\ groups' = Append(groups, b)
  BY DEF NodeEnd
<1>2. config \in Configs /\ groups \in Seq(Plans) /\ n \in Nat /\ DOMAIN groups = 1..n
  BY DEF Planned
<1>3. LastInstant \in Nat /\ LastInstant = Duration - Tail8
  BY <1>1, <1>2, DurationTypes DEF LastInstant
<1>4. b \in Plans /\ b.at = LastInstant /\ b.fault = "pass"
  BY <1>3 DEF Plans, Group
<1> HIDE DEF b
<1>5. \A i \in 1..n : groups[i].at \in Nat /\ groups[i].at <= LastInstant
  <2>1. \A i \in 1..n : groups[i] \in Plans /\ groups[i].at <= LastInstant
    BY <1>2 DEF Planned
  <2> QED
    BY <2>1 DEF Plans
<1>6. \A i, j \in 1..n : i < j => groups[i].at <= groups[j].at
  BY <1>2 DEF Planned
<1>7. \A i \in 1..n : groups[i].fault # "pass" =>
         MayGoDown(groups[i]) /\ i < n /\ Heals(groups[i + 1], groups[i])
  BY <1>2 DEF Planned
<1>8. /\ groups' \in Seq(Plans) /\ Len(groups') = n + 1 /\ DOMAIN groups' = 1..(n + 1)
      /\ \A i \in 1..n : groups'[i] = groups[i]
      /\ groups'[n + 1] = b
  BY <1>1, <1>2, <1>4
<1> HIDE DEF n
<1>9. \A i \in DOMAIN groups' : i \in 1..n \/ i = n + 1
  BY <1>2, <1>8
<1>10. \A i \in DOMAIN groups' : groups'[i].at <= LastInstant
  BY <1>3, <1>4, <1>5, <1>8, <1>9
<1>11. \A i, j \in DOMAIN groups' : i < j => groups'[i].at <= groups'[j].at
  <2> SUFFICES ASSUME NEW i \in DOMAIN groups', NEW j \in DOMAIN groups', i < j
               PROVE  groups'[i].at <= groups'[j].at
    OBVIOUS
  <2>1. i \in 1..n /\ groups'[i] = groups[i]
    BY <1>2, <1>8, <1>9
  <2>2. CASE j \in 1..n
    <3>1. groups'[j] = groups[j] /\ groups[i].at <= groups[j].at
      BY <1>6, <1>8, <2>1, <2>2
    <3> QED
      BY <2>1, <3>1
  <2>3. CASE j = n + 1
    BY <1>4, <1>5, <1>8, <2>1, <2>3
  <2> QED
    BY <1>9, <2>2, <2>3
<1>12. ASSUME NEW i \in DOMAIN groups', groups'[i].fault # "pass"
       PROVE  MayGoDown(groups'[i]) /\ i < Len(groups') /\ Heals(groups'[i + 1], groups'[i])
  <2>1. i \in 1..n /\ groups'[i] = groups[i]
    BY <1>4, <1>8, <1>9, <1>12
  <2>2. MayGoDown(groups[i]) /\ i < n /\ Heals(groups[i + 1], groups[i])
    BY <1>7, <1>12, <2>1
  <2>3. i + 1 \in 1..n
    BY <1>2, <2>1, <2>2
  <2>4. groups'[i + 1] = groups[i + 1] /\ i < n + 1
    BY <1>2, <1>8, <2>1, <2>3
  <2> QED
    BY <1>8, <2>1, <2>2, <2>4
<1>13. Plans' = Plans /\ LastInstant' = LastInstant /\ \A g : MayGoDown(g)' <=> MayGoDown(g)
  BY <1>1, PlanKept
<1>14. (\A i \in DOMAIN groups : groups[i].fault # "pass" =>
          /\ MayGoDown(groups[i])
          /\ i < Len(groups) /\ Heals(groups[i + 1], groups[i]))'
  BY <1>12, <1>13 DEF Heals
<1>15. (config \in Configs /\ now \in Nat /\ groups \in Seq(Plans))'
  BY <1>1, <1>2, <1>8, <1>13
<1>16. (\A i \in DOMAIN groups : groups[i].at <= LastInstant /\ (~laid => groups[i].at <= now))'
  BY <1>1, <1>10, <1>13
<1> QED
  BY <1>11, <1>14, <1>15, <1>16 DEF Planned

(* The lengths that are drawn are lengths.                                 *)
LEMMA Lengths ==
  ASSUME config \in Configs
  PROVE  Bounds \subseteq Nat /\ Blips \subseteq Nat /\ CutLengths \subseteq Nat
<1>1. Duration \div 4 \in Nat
  BY DurationTypes
<1>2. High \in Nat
  BY <1>1, TimelineAssumption DEF High, Positive, Lesser
<1>3. Low \in Nat
  BY <1>2, TimelineAssumption DEF Low, Lesser
<1>4. Positive(Low \div 3) \in Nat /\ Positive(High \div 3) \in Nat
  BY <1>2, <1>3 DEF Positive
<1>5. \A lo, hi \in Nat : Between(lo, hi) \subseteq Nat
  BY DEF Between
<1> QED
  BY <1>2, <1>3, <1>4, <1>5 DEF Bounds, Blips, CutLengths

(* A phase is drawn, and laid where it ends inside the run.                *)
LEMMA PhaseIs ==
  ASSUME config \in Configs, LinkLevel, NEW p \in Phases
  PROVE  /\ p.links \in SUBSET Links /\ p.healed \in SUBSET Links /\ p.links \subseteq p.healed
         /\ p.for \in Nat /\ p.fault \in {"drop", "reset", "refuse", "delay"}
         /\ \/ p.links \in Cuts(Links) /\ p.fault = "drop"
            \/ \E l \in Links : p.links = {l}
<1>1. CASE \E for \in CutLengths : p \in CutPhase(for)
  <2>1. PICK for \in CutLengths, s \in Cuts(Links) :
          p = [links |-> s, fault |-> "drop", for |-> for, healed |-> Links]
    BY <1>1 DEF CutPhase
  <2>2. s \subseteq Links /\ for \in Nat
    BY <2>1, Lengths DEF Cuts, StrictSubsets
  <2> QED
    BY <2>1, <2>2
<1>2. CASE \E for \in Blips : p \in Blip(for)
  <2>1. PICK for \in Blips, l \in Links, f \in {"reset", "refuse", "delay"} :
          p = [links |-> {l}, fault |-> f, for |-> for, healed |-> {l}]
    BY <1>2 DEF Blip
  <2>2. for \in Nat
    BY <2>1, Lengths
  <2> QED
    BY <2>1, <2>2
<1>3. (\E for \in CutLengths : p \in CutPhase(for)) \/ (\E for \in Blips : p \in Blip(for))
  BY Zenon DEF Phases
<1> QED
  BY <1>1, <1>2, <1>3, Zenon

LEMMA GeneratePhasePlanned == ASSUME Planned, GeneratePhase PROVE Planned'
<1>1. PICK pause \in Bounds, p \in Phases :
        /\ Fits(now + pause + p.for)
        /\ groups' = groups \o <<Group(now + pause, p.links, p.fault),
                                 Group(now + pause + p.for, p.healed, "pass")>>
        /\ now' = now + pause + p.for
  BY DEF GeneratePhase
<1>2. LinkLevel /\ ~laid /\ config' = config /\ laid' = laid
  BY DEF GeneratePhase
<1>3. config \in Configs /\ now \in Nat /\ ~NodeLevel
  BY <1>2 DEF Planned, LinkLevel, NodeLevel
<1>4. pause \in Nat
  BY <1>3, Lengths
<1>5. /\ p.links \in SUBSET Links /\ p.healed \in SUBSET Links /\ p.links \subseteq p.healed
      /\ p.for \in Nat /\ p.fault \in {"drop", "reset", "refuse", "delay"}
      /\ \/ p.links \in Cuts(Links) /\ p.fault = "drop"
         \/ \E l \in Links : p.links = {l}
  BY <1>2, <1>3, PhaseIs
<1> DEFINE a == Group(now + pause, p.links, p.fault)
           b == Group(now + pause + p.for, p.healed, "pass")
<1>6. a \in Plans /\ b \in Plans /\ a.at = now + pause /\ b.at = now + pause + p.for
  BY <1>3, <1>4, <1>5 DEF Plans, Group
<1>7. MayGoDown(a) /\ Heals(b, a)
  BY <1>3, <1>5 DEF MayGoDown, Heals, Group
<1>8. groups' = groups \o <<a, b>>
  BY <1>1
<1> HIDE DEF a, b
<1>9. /\ now <= a.at /\ a.at <= b.at /\ b.at <= now' /\ now' \in Nat
      /\ b.at <= LastInstant
  BY <1>1, <1>3, <1>4, <1>5, <1>6, DurationTypes DEF Fits, LastInstant
<1> QED
  BY <1>2, <1>6, <1>7, <1>8, <1>9, PairLaid

LEMMA LayPlanned == ASSUME Planned, Lay PROVE Planned'
<1>1. CASE GenerateNothing
  <2>1. PICK pause \in Bounds : now' = now + pause
    BY <1>1 DEF GenerateNothing, Spent
  <2>2. pause \in Nat /\ now \in Nat
    BY Lengths DEF Planned
  <2>3. UNCHANGED <<config, groups, laid>>
    BY <1>1 DEF GenerateNothing
  <2>4. now' \in Nat /\ now' >= now
    BY <2>1, <2>2
  <2> QED
    BY <2>3, <2>4, PlannedKept
<1>2. CASE GenerateEnd
  BY <1>2, PlannedKept DEF GenerateEnd
<1> QED
  BY <1>1, <1>2, NodePhasePlanned, NodeEndPlanned, GeneratePhasePlanned DEF Lay

LEMMA PlannedNext == Planned /\ [Next]_vars => Planned'
<1> SUFFICES ASSUME Planned, [Next]_vars PROVE Planned'
  OBVIOUS
<1>1. CASE LayOut
  BY <1>1, LayPlanned DEF LayOut
<1>2. CASE UNCHANGED timeline
  <2>1. UNCHANGED <<config, groups, now, laid>> /\ now \in Nat
    BY <1>2 DEF timeline, Planned
  <2> QED
    BY <2>1, PlannedKept
<1>3. LayOut \/ UNCHANGED timeline
  <2>1. CASE Accept \/ Refuse \/ Begin \/ TimeIsUp
    BY <2>1 DEF Accept, Refuse, Begin, TimeIsUp
  <2>2. CASE Nemesis
    BY <2>2 DEF Nemesis, NemesisEvent, NemesisSet, NemesisApplied, NemesisHeal, NemesisDone
  <2>3. ASSUME NEW i, Client(i) PROVE UNCHANGED timeline
    BY <2>3 DEF Client, Look, Count, Do, Retire
  <2>4. CASE ClientsDone \/ AwaitNemesis \/ Settled \/ FinalRead \/ NextNode \/ Return
    BY <2>4 DEF ClientsDone, AwaitNemesis, Settled, FinalRead, NextNode, Return, FinalNode
  <2>5. ASSUME NEW l \in Links, MainHeal(l) PROVE UNCHANGED timeline
    BY <2>5 DEF MainHeal
  <2>6. CASE UNCHANGED vars
    BY <2>6 DEF vars
  <2> QED
    BY <2>1, <2>2, <2>3, <2>4, <2>5, <2>6 DEF Next, Main
<1> QED
  BY <1>1, <1>2, <1>3

(***************************************************************************)
(* What is down at an instant is what the last group before it took down,  *)
(* if that was not a heal.                                                 *)
(***************************************************************************)
Past(l, t) == {i \in DOMAIN groups : groups[i].at <= t /\ l \in groups[i].links}

LEMMA LatestDecides ==
  ASSUME Planned, NEW t \in Nat, NEW l \in Links
  PROVE  \/ Past(l, t) = {} /\ FaultAt(l, t) = "pass"
         \/ \E m \in Past(l, t) : FaultAt(l, t) = groups[m].fault /\ \A j \in Past(l, t) : j <= m
<1> DEFINE P == Past(l, t)
           Later(i, j) == groups[i].at > groups[j].at \/ (groups[i].at = groups[j].at /\ i >= j)
<1>1. FaultAt(l, t) = IF P = {} THEN "pass" ELSE groups[CHOOSE i \in P : \A j \in P : Later(i, j)].fault
  BY DEF FaultAt, Past
<1>2. groups \in Seq(Plans) /\ Len(groups) \in Nat /\ DOMAIN groups = 1..Len(groups)
  BY DEF Planned
<1>3. \A i \in DOMAIN groups : groups[i].at \in Nat
  <2>1. \A i \in DOMAIN groups : groups[i] \in Plans
    BY <1>2
  <2> QED
    BY <2>1 DEF Plans
<1>4. P \subseteq 1..Len(groups)
  BY <1>2 DEF Past
<1>5. CASE P # {}
  <2>1. PICK m \in P : \A j \in P : j <= m
    BY <1>2, <1>4, <1>5, LastPosition
  <2>2. \A j \in P : groups[j].at <= groups[m].at
    <3> SUFFICES ASSUME NEW j \in P PROVE groups[j].at <= groups[m].at
      OBVIOUS
    <3>1. j \in DOMAIN groups /\ m \in DOMAIN groups /\ j <= m /\ groups[m].at \in Nat
      BY <1>2, <1>3, <1>4, <2>1
    <3>2. j < m => groups[j].at <= groups[m].at
      BY <3>1 DEF Planned
    <3>3. j = m \/ j < m
      BY <1>2, <3>1
    <3> QED
      BY <3>1, <3>2, <3>3
  <2>3. \A j \in P : Later(m, j)
    <3> SUFFICES ASSUME NEW j \in P PROVE Later(m, j)
      OBVIOUS
    <3>1. groups[j].at \in Nat /\ groups[m].at \in Nat /\ groups[j].at <= groups[m].at /\ m >= j
      BY <1>2, <1>3, <1>4, <2>1, <2>2
    <3> QED
      BY <3>1
  <2> DEFINE c == CHOOSE i \in P : \A j \in P : Later(i, j)
  <2>4. c \in P /\ Later(c, m)
    BY <2>1, <2>3
  <2>5. c = m
    <3>1. c \in Nat /\ m \in Nat /\ c <= m
      BY <1>2, <1>4, <2>1, <2>4
    <3>2. groups[c].at \in Nat /\ groups[m].at \in Nat /\ groups[c].at <= groups[m].at
      BY <1>2, <1>3, <1>4, <2>1, <2>2, <2>4
    <3>3. c >= m
      BY <2>4, <3>2
    <3> QED
      BY <3>1, <3>3
  <2>6. FaultAt(l, t) = groups[c].fault
    BY <1>1, <1>5
  <2> QED
    BY <2>1, <2>5, <2>6
<1> QED
  BY <1>1, <1>5

(* A link that is down at t was taken down by the last group up to t.      *)
LEMMA DownSince ==
  ASSUME Planned, NEW t \in Nat, NEW l \in Down(t)
  PROVE  \E m \in Past(l, t) : /\ groups[m].fault = FaultAt(l, t) /\ groups[m].fault # "pass"
                               /\ m + 1 \in DOMAIN groups /\ groups[m + 1].at > t
<1>1. l \in Links /\ FaultAt(l, t) # "pass"
  BY DEF Down
<1>2. PICK m \in Past(l, t) : FaultAt(l, t) = groups[m].fault /\ \A j \in Past(l, t) : j <= m
  BY <1>1, LatestDecides
<1>3. m \in DOMAIN groups /\ l \in groups[m].links /\ groups[m].fault # "pass"
  BY <1>1, <1>2 DEF Past
<1>4. m < Len(groups) /\ Heals(groups[m + 1], groups[m])
  BY <1>3 DEF Planned
<1>5. groups \in Seq(Plans) /\ Len(groups) \in Nat /\ DOMAIN groups = 1..Len(groups)
  BY DEF Planned
<1>6. m + 1 \in DOMAIN groups /\ l \in groups[m + 1].links
  BY <1>3, <1>4, <1>5 DEF Heals
<1>7. groups[m + 1].at \in Nat
  <2>1. groups[m + 1] \in Plans
    BY <1>5, <1>6
  <2> QED
    BY <2>1 DEF Plans
<1>8. m + 1 \notin Past(l, t)
  <2>1. ~(m + 1 <= m)
    BY <1>3, <1>5
  <2> QED
    BY <1>2, <2>1
<1>9. groups[m + 1].at > t
  BY <1>6, <1>7, <1>8 DEF Past
<1> QED
  BY <1>1, <1>2, <1>6, <1>9

LEMMA DownTogether ==
  ASSUME Planned, NEW t \in Nat, Down(t) # {}
  PROVE  \E m \in DOMAIN groups :
           /\ groups[m].fault # "pass" /\ m + 1 \in DOMAIN groups /\ groups[m + 1].at > t
           /\ Down(t) = groups[m].links
           /\ \A l \in Down(t) : FaultAt(l, t) = groups[m].fault
<1>1. PICK first : first \in Down(t)
  OBVIOUS
<1>2. PICK m \in Past(first, t) : /\ groups[m].fault # "pass"
                                  /\ m + 1 \in DOMAIN groups /\ groups[m + 1].at > t
  BY <1>1, DownSince
<1>3. groups \in Seq(Plans) /\ Len(groups) \in Nat /\ DOMAIN groups = 1..Len(groups)
  BY DEF Planned
<1>4. m \in DOMAIN groups /\ groups[m].at <= t
  BY <1>2 DEF Past
<1>5. \A i \in DOMAIN groups : groups[i] \in Plans
  BY <1>3
<1>6. \A i \in DOMAIN groups : groups[i].at \in Nat /\ groups[i].links \subseteq Links
  BY <1>5 DEF Plans
<1>7. \A j \in DOMAIN groups : j > m => groups[j].at > t
  <2> SUFFICES ASSUME NEW j \in DOMAIN groups, j > m PROVE groups[j].at > t
    OBVIOUS
  <2>1. m + 1 = j \/ m + 1 < j
    BY <1>3, <1>4
  <2>2. m + 1 < j => groups[m + 1].at <= groups[j].at
    BY <1>2 DEF Planned
  <2>3. groups[m + 1].at \in Nat /\ groups[j].at \in Nat
    BY <1>2, <1>6
  <2> QED
    BY <1>2, <2>1, <2>2, <2>3
<1>8. ASSUME NEW l \in Down(t) PROVE l \in groups[m].links /\ FaultAt(l, t) = groups[m].fault
  <2>1. PICK k \in Past(l, t) : /\ groups[k].fault = FaultAt(l, t)
                                /\ k + 1 \in DOMAIN groups /\ groups[k + 1].at > t
    BY DownSince
  <2>2. k \in DOMAIN groups /\ groups[k].at <= t /\ l \in groups[k].links
    BY <2>1 DEF Past
  <2>3. ~(k > m)
    BY <1>6, <1>7, <2>2
  <2>4. ~(k < m)
    <3>1. ASSUME k < m PROVE FALSE
      <4>1. k + 1 = m \/ k + 1 < m
        BY <1>3, <1>4, <2>2, <3>1
      <4>2. k + 1 < m => groups[k + 1].at <= groups[m].at
        BY <1>4, <2>1 DEF Planned
      <4>3. groups[k + 1].at \in Nat /\ groups[m].at \in Nat
        BY <1>4, <1>6, <2>1
      <4> QED
        BY <1>4, <2>1, <4>1, <4>2, <4>3
    <3> QED
      BY <3>1
  <2>5. k = m
    BY <1>3, <1>4, <2>2, <2>3, <2>4
  <2> QED
    BY <2>1, <2>2, <2>5
<1>9. ASSUME NEW l \in groups[m].links PROVE l \in Down(t)
  <2>1. l \in Links
    BY <1>4, <1>6
  <2>2. m \in Past(l, t)
    BY <1>4 DEF Past
  <2>3. PICK k \in Past(l, t) : FaultAt(l, t) = groups[k].fault /\ \A j \in Past(l, t) : j <= k
    BY <2>1, <2>2, LatestDecides
  <2>4. k \in DOMAIN groups /\ groups[k].at <= t
    BY DEF Past
  <2>5. ~(k > m)
    BY <1>6, <1>7, <2>4
  <2>6. k = m
    BY <1>3, <1>4, <2>2, <2>3, <2>4, <2>5
  <2> QED
    BY <1>2, <2>1, <2>3, <2>6 DEF Down
<1> QED
  BY <1>2, <1>4, <1>8, <1>9

(* At the end, and from the last eighth on, everything is whole.           *)
LEMMA WholeAfter ==
  ASSUME Planned, NEW t \in Nat, t >= LastInstant
  PROVE  Down(t) = {}
<1> SUFFICES ASSUME Down(t) # {} PROVE FALSE
  OBVIOUS
<1>1. PICK m \in DOMAIN groups : m + 1 \in DOMAIN groups /\ groups[m + 1].at > t
  BY DownTogether
<1>2. groups[m + 1].at <= LastInstant
  BY <1>1 DEF Planned
<1>3. groups \in Seq(Plans) /\ groups[m + 1] \in Plans
  BY <1>1 DEF Planned
<1>4. groups[m + 1].at \in Nat /\ LastInstant \in Nat
  BY <1>3, DurationTypes DEF Planned, Plans
<1> QED
  BY <1>1, <1>2, <1>4

LEMMA PlannedEndsWhole == Planned => EndsWhole
<1> SUFFICES ASSUME Planned, main.pc = "build"
             PROVE  /\ \A i \in DOMAIN groups : groups[i].at \in 0..Duration
                    /\ \A i, j \in DOMAIN groups : i < j => groups[i].at <= groups[j].at
                    /\ laid => Down(Duration) = {}
                    /\ laid /\ NodeLevel => \A t \in (Duration - Tail8)..Duration : Down(t) = {}
  BY DEF EndsWhole
<1>1. /\ Duration \in Nat /\ Duration - Tail8 \in Nat
      /\ LastInstant \in Nat /\ LastInstant <= Duration
  BY DurationTypes DEF Planned
<1>2. \A i \in DOMAIN groups : groups[i] \in Plans /\ groups[i].at <= LastInstant
  BY DEF Planned
<1>3. \A i \in DOMAIN groups : groups[i].at \in Nat /\ groups[i].at <= LastInstant
  BY <1>2 DEF Plans
<1>4. \A i \in DOMAIN groups : groups[i].at \in 0..Duration
  BY <1>1, <1>3
<1>5. Down(Duration) = {}
  BY <1>1, WholeAfter
<1>6. ASSUME NodeLevel, NEW t \in (Duration - Tail8)..Duration PROVE Down(t) = {}
  <2>1. t \in Nat /\ t >= LastInstant
    BY <1>1, <1>6 DEF LastInstant
  <2> QED
    BY <2>1, WholeAfter
<1> QED
  BY <1>4, <1>5, <1>6 DEF Planned

(* What is laid out has been accepted.                                     *)
Admitted == main.pc = "build" => Accepted

LEMMA AdmittedNext ==
  ASSUME CampaignInv, Admitted, [Next]_vars
  PROVE  Admitted'
<1>1. main \in [pc : Places, node : Nat, key : Nat, proc : Nat, todo : SUBSET Links]
  BY DEF CampaignInv, Shapes
<1>2. config' = config
  BY LayKeeps DEF Next, Nemesis, Main, Client, NemesisEvent, NemesisSet, NemesisApplied, NemesisHeal,
     NemesisDone, TimeIsUp, Look, Count, Do, Retire, Accept, Refuse, LayOut, Begin, ClientsDone,
     AwaitNemesis, Settled, FinalRead, NextNode, Return, MainHeal, timeline, vars
<1>3. Accepted' <=> Accepted
  BY <1>2 DEF Accepted, Known, Healthy, NodeLevel, LinkLevel, EnoughClients
<1>4. main'.pc = "build" => main.pc = "build" \/ Accepted
  <2>1. CASE Accept
    BY <2>1 DEF Accept
  <2>2. CASE Refuse \/ Begin
    BY <1>1, <2>2 DEF Refuse, Begin, At
  <2>3. CASE LayOut \/ TimeIsUp \/ UNCHANGED vars
    BY <2>3 DEF LayOut, TimeIsUp, vars
  <2>4. CASE Nemesis
    BY <2>4 DEF Nemesis, NemesisEvent, NemesisSet, NemesisApplied, NemesisHeal, NemesisDone
  <2>5. ASSUME NEW i, Client(i) PROVE main' = main
    BY <2>5 DEF Client, Look, Count, Do, Retire
  <2>6. CASE ClientsDone \/ AwaitNemesis \/ Return
    BY <1>1, <2>6 DEF ClientsDone, AwaitNemesis, Return
  <2>7. CASE Settled \/ NextNode
    BY <1>1, <2>7 DEF Settled, NextNode, FinalNode, At
  <2>8. CASE FinalRead
    BY <1>1, <2>8 DEF FinalRead
  <2>9. ASSUME NEW l \in Links, MainHeal(l) PROVE main'.pc = main.pc
    BY <1>1, <2>9 DEF MainHeal
  <2> QED
    BY <2>1, <2>2, <2>3, <2>4, <2>5, <2>6, <2>7, <2>8, <2>9 DEF Next, Main
<1> QED
  BY <1>3, <1>4 DEF Admitted

(* Every node of a run has a client.                                       *)
LEMMA EveryNodeHasClient ==
  ASSUME config \in Configs, Accepted, config.command = "run", NEW n \in Nodes
  PROVE  \E i \in Clients : NodeFor(i) = n
<1>1. config.nodes \in Nat \ {0} /\ config.clients \in Nat /\ config.clients >= config.nodes
  BY TimelineAssumption DEF Accepted, EnoughClients
<1>2. n \in Nat /\ n < config.nodes
  BY <1>1 DEF Nodes
<1>3. n \in Clients
  BY <1>1, <1>2 DEF Clients
<1>4. n % config.nodes = n
  BY <1>1, <1>2
<1> QED
  BY <1>3, <1>4 DEF NodeFor

(* A cut leaves either side somebody to serve.                             *)
LEMMA CutSplits ==
  ASSUME config \in Configs, Accepted, config.nodes >= 2, NEW down \in NodeCut
  PROVE  SplitInTwo(down)
<1>1. config.nodes \in Nat \ {0}
  BY TimelineAssumption
<1>2. PICK s \in StrictSubsets(Nodes) :
        \/ down = Crossing(s)
        \/ MayStrand(s) /\ down = Crossing(s) \cup {<<FirstOf(s)>>}
  BY <1>1 DEF NodeCut
<1>3. s \subseteq Nodes /\ s # {} /\ s # Nodes /\ Nodes \subseteq Nat
  BY <1>1 DEF StrictSubsets, Nodes
<1>4. FirstOf(s) \in s
  <2>1. s \in SUBSET Nat /\ s # {}
    BY <1>3
  <2>2. \E i \in s : \A j \in s : i <= j
    BY <2>1, LeastNumber
  <2> QED
    BY <2>2 DEF FirstOf
<1>5. Crossing(s) \subseteq PeerLinks
  BY DEF Crossing
<1>6. \A x : <<x>> \notin PeerLinks
  BY DEF PeerLinks
<1>7. down \cap PeerLinks = Crossing(s)
  BY <1>2, <1>5, <1>6
<1>8. \E n \in s : <<n>> \notin down
  <2>1. CASE down = Crossing(s)
    BY <1>3, <1>5, <1>6, <2>1
  <2>2. CASE MayStrand(s) /\ down = Crossing(s) \cup {<<FirstOf(s)>>}
    <3>1. s # {FirstOf(s)}
      <4>1. Cardinality({FirstOf(s)}) = 1
        BY FS_Singleton
      <4> QED
        BY <2>2, <4>1 DEF MayStrand
    <3>2. PICK n \in s : n # FirstOf(s)
      BY <1>4, <3>1
    <3> QED
      BY <1>5, <1>6, <2>2, <3>2
  <2> QED
    BY <1>2, <2>1, <2>2
<1>9. \E m \in Nodes \ s : <<m>> \notin down
  <2>1. PICK m \in Nodes : m \notin s
    BY <1>3
  <2>2. m # FirstOf(s)
    BY <1>4, <2>1
  <2> QED
    BY <1>2, <1>5, <1>6, <2>1, <2>2
<1>10. \A n \in Nodes : config.command = "run" => \E i \in Clients : NodeFor(i) = n
  BY EveryNodeHasClient
<1>11. \E n \in s, m \in Nodes \ s : Asked(n, down) /\ Asked(m, down)
  BY <1>3, <1>8, <1>9, <1>10 DEF Asked
<1> QED
  BY <1>2, <1>7, <1>11 DEF SplitInTwo

LEMMA PlannedServes ==
  ASSUME Planned, Admitted
  PROVE  SomeServe
<1> SUFFICES ASSUME main.pc = "build", NEW t \in 0..Duration
             PROVE  IF NodeLevel
                      THEN Down(t) # {} /\ config.nodes >= 2 => SplitInTwo(Down(t))
                      ELSE /\ Cardinality(Links) >= 2 => Down(t) # Links
                           /\ Cardinality(Down(t)) >= 2 => \A l \in Down(t) : FaultAt(l, t) = "drop"
  BY DEF SomeServe
<1>1. config \in Configs /\ Accepted
  BY DEF Planned, Admitted
<1>2. t \in Nat
  BY <1>1, DurationTypes
<1>3. CASE Down(t) = {}
  <2>1. Cardinality({}) = 0
    BY FS_EmptySet
  <2>2. ~(Cardinality(Down(t)) >= 2) /\ (Cardinality(Links) >= 2 => Down(t) # Links)
    BY <1>3, <2>1
  <2> QED
    BY <1>3, <2>2
<1>4. CASE Down(t) # {}
  <2>1. PICK m \in DOMAIN groups :
          /\ groups[m].fault # "pass" /\ Down(t) = groups[m].links
          /\ \A l \in Down(t) : FaultAt(l, t) = groups[m].fault
    BY <1>2, <1>4, DownTogether
  <2>2. MayGoDown(groups[m])
    BY <2>1 DEF Planned
  <2>3. CASE NodeLevel
    <3>1. Down(t) \in NodeCut
      BY <2>1, <2>2, <2>3 DEF MayGoDown
    <3> QED
      BY <1>1, <2>3, <3>1, CutSplits
  <2>4. CASE ~NodeLevel /\ Down(t) \in Cuts(Links) /\ groups[m].fault = "drop"
    <3>1. Down(t) # Links
      BY <2>4 DEF Cuts, StrictSubsets
    <3> QED
      BY <2>1, <2>4, <3>1
  <2>5. CASE ~NodeLevel /\ \E l \in Links : Down(t) = {l}
    <3>1. Cardinality(Down(t)) = 1
      BY <2>5, FS_Singleton
    <3>2. ~(Cardinality(Down(t)) >= 2) /\ (Cardinality(Links) >= 2 => Down(t) # Links)
      BY <3>1
    <3> QED
      BY <2>5, <3>2
  <2>6. NodeLevel \/ (Down(t) \in Cuts(Links) /\ groups[m].fault = "drop") \/ \E l \in Links : Down(t) = {l}
    BY <2>1, <2>2 DEF MayGoDown
  <2> QED
    BY <2>3, <2>4, <2>5, <2>6
<1> QED
  BY <1>3, <1>4

LEMMA PlannedAlways == Spec => []Planned
<1> QED
  BY PlannedInit, PlannedNext, PTL DEF Spec

(* However a schedule is drawn it is in order, inside the run, and leaves  *)
(* the network whole at its end, a node-level one for the last eighth      *)
(* (topology.go:193-196, 208-211, 251-258, schedule.go:71-102, 212-219).   *)
THEOREM ScheduleEndsWhole == Spec => []EndsWhole
BY PlannedAlways, PlannedEndsWhole, PTL

(* However it is drawn, whenever a node-level schedule cuts, it splits the *)
(* nodes in two and either side has one that a client of the run reaches;  *)
(* the others never take everything at once (topology.go:130-142, 224-234, *)
(* harness.go:262-274, 312, schedule.go:174-197).                          *)
THEOREM BothSidesServe == Spec => []SomeServe
<1>1. Init => Admitted
  BY DEF Init, Admitted
<1>2. CampaignInv /\ Admitted /\ [Next]_vars => Admitted'
  BY AdmittedNext
<1>3. Planned /\ Admitted => SomeServe
  BY PlannedServes
<1> QED
  BY <1>1, <1>2, <1>3, CampaignTypes, PlannedAlways, PTL DEF Spec

-----------------------------------------------------------------------------
(***************************************************************************)
(* Around the campaign, a sweep.  However many seeds, whatever was         *)
(* expected of them and however many processes each takes: what the exit   *)
(* status and the tally say, and what a seed leaves to the next.           *)
(***************************************************************************)
(***************************************************************************)
(* One seed: what Once runs on and what it leaves behind (module Cluster). *)
(***************************************************************************)
Gone(n) == proc[n] \in {"none", "exited"}

(***************************************************************************)
(* Where the supervisor is says what it has and has not done: it starts    *)
(* the process after the ones it has, configures them in order once it has *)
(* them all, and stops them in order.                                      *)
(***************************************************************************)
Progress ==
  /\ sup.pc \in {"launch", "announce", "health", "configure", "stop", "wait", "waitkilled", "closed", "dead"}
  /\ sup.pc \in {"launch", "announce", "health"} => sup.at = nodes + 1
  /\ sup.pc \in {"announce", "health"} => sup.at <= N
  /\ sup.pc = "configure" => nodes = N /\ sup.at \in 1..(N + 1) /\ 1..(sup.at - 1) \subseteq acked
  /\ sup.pc = "stop" => sup.at \in 1..(nodes + 1)
  /\ sup.pc \in {"wait", "waitkilled"} => sup.at \in 1..nodes
  /\ sup.pc \in {"stop", "wait", "waitkilled", "closed"} /\ ~err => acked = Procs /\ nodes = N

(***************************************************************************)
(* A process the supervisor does not have on its list is the one it is     *)
(* starting, or it was killed; one it has stopped is gone.                 *)
(***************************************************************************)
Starting(n) == sup.pc \in {"announce", "health"} /\ n = sup.at

Accounted ==
  /\ sup.pc # "dead" => \A n \in Procs : n > nodes /\ ~Starting(n) => Gone(n) \/ proc[n] = "killed"
  /\ sup.pc \in {"stop", "wait", "waitkilled"} => \A n \in Procs : n < sup.at /\ n <= nodes => Gone(n)
  /\ sup.pc = "closed" => \A n \in Procs : n <= nodes => Gone(n)

Stopping == TypeOK /\ Progress /\ Accounted

-----------------------------------------------------------------------------
LEMMA StoppingInit == ClusterInit => Stopping
<1> SUFFICES ASSUME ClusterInit PROVE Stopping
  OBVIOUS
<1>1. TypeOK
  <2>1. err \in BOOLEAN
    BY DEF ClusterInit
  <2> QED  BY <2>1, ClusterAssumption DEF ClusterInit, TypeOK, Procs
<1>2. Progress
  BY ClusterAssumption DEF ClusterInit, Progress
<1>3. Accounted
  BY DEF ClusterInit, Accounted, Gone
<1> QED  BY <1>1, <1>2, <1>3 DEF Stopping

(* What a process does by itself changes nothing the supervisor counts on. *)
LEMMA ProcessStopping ==
  ASSUME Stopping, NEW n \in Procs, Process(n) \/ Crash(n) \/ Wedge(n)
  PROVE  Stopping'
<1>1. UNCHANGED <<sup, nodes, stdin, err, acked>>
  BY DEF Process, Boot, Announce, Serve, ShutDown, Exit, Killing, Crash, Wedge, Step
<1>2. wedged' \subseteq Procs
  BY DEF Stopping, TypeOK, Process, Boot, Announce, Serve, ShutDown, Exit, Killing, Crash, Wedge, Step
<1>3. /\ proc' \in [Procs -> {"none", "booting", "watching", "announced", "serving", "stopping", "killed", "exited"}]
      /\ \A m \in Procs : Gone(m) => Gone(m)'
      /\ \A m \in Procs : proc[m] = "killed" => Gone(m)' \/ proc'[m] = "killed"
  BY DEF Stopping, TypeOK, Gone, Process, Boot, Announce, Serve, ShutDown, Exit, Killing, Crash, Wedge, Step, Alive
<1>4. TypeOK'
  BY <1>1, <1>2, <1>3 DEF Stopping, TypeOK
<1>5. Progress'
  BY <1>1 DEF Stopping, Progress
<1>6. Accounted'
  BY <1>1, <1>3 DEF Stopping, Accounted, Starting
<1> QED  BY <1>4, <1>5, <1>6 DEF Stopping

-----------------------------------------------------------------------------
LEMMA StartStopping ==
  ASSUME Stopping, Launch \/ Announced \/ AnswersHealth \/ StartFails
  PROVE  Stopping'
<1> USE ClusterAssumption DEF Goto, Fail, Procs
<1>1. CASE Launch
  <2>1. TypeOK'
    <3>1. sup.at \in Procs /\ UNCHANGED <<nodes, wedged, acked>>
      BY <1>1 DEF Launch, Stopping, TypeOK, Progress
    <3>2. CASE Fail /\ UNCHANGED <<proc, stdin>>
      BY <3>1, <3>2 DEF Stopping, TypeOK
    <3>3. CASE /\ proc' = [proc EXCEPT ![sup.at] = "booting"] /\ stdin' = stdin \cup {sup.at}
               /\ sup' = [pc |-> "announce", at |-> sup.at] /\ UNCHANGED err
      <4>1. proc' \in [Procs -> {"none", "booting", "watching", "announced", "serving", "stopping", "killed", "exited"}]
        BY <3>3 DEF Stopping, TypeOK
      <4>2. stdin' \subseteq Procs /\ sup'.at \in 0..(N + 1)
        BY <3>1, <3>3 DEF Stopping, TypeOK
      <4> QED  BY <3>1, <3>3, <4>1, <4>2 DEF Stopping, TypeOK
    <3> QED  BY <1>1, <3>2, <3>3 DEF Launch
  <2>2. Progress'
    BY <1>1 DEF Launch, Stopping, TypeOK, Progress
  <2>3. Accounted'
    BY <1>1 DEF Launch, Stopping, TypeOK, Progress, Accounted, Starting, Gone
  <2> QED  BY <2>1, <2>2, <2>3 DEF Stopping
<1>2. CASE Announced
  BY <1>2 DEF Announced, Stopping, TypeOK, Progress, Accounted, Starting, Gone
<1>3. CASE AnswersHealth
  BY <1>3 DEF AnswersHealth, Appended, Stopping, TypeOK, Progress, Accounted, Starting, Gone
<1>4. CASE StartFails
  <2>1. /\ UNCHANGED <<nodes, wedged, stdin, acked>> /\ err' = TRUE /\ sup' = [pc |-> "stop", at |-> 1]
        /\ \A n \in Procs : n # sup.at => proc'[n] = proc[n]
        /\ proc'[sup.at] \in {"none", "exited", "killed"}
        /\ proc' \in [Procs -> {"none", "booting", "watching", "announced", "serving", "stopping", "killed", "exited"}]
    BY <1>4 DEF StartFails, Killed, Alive, Gone, Stopping, TypeOK, Progress
  <2>2. TypeOK' /\ Progress'
    BY <2>1 DEF Stopping, TypeOK, Progress
  <2>3. Accounted'
    BY <1>4, <2>1 DEF StartFails, Stopping, TypeOK, Progress, Accounted, Starting, Gone
  <2> QED  BY <2>2, <2>3 DEF Stopping
<1> QED  BY <1>1, <1>2, <1>3, <1>4

LEMMA UseStopping ==
  ASSUME Stopping, ClusterUp \/ Configure \/ ConfigureFails \/ Experiment
  PROVE  Stopping'
<1> USE ClusterAssumption DEF Goto, Fail, Procs
<1>1. CASE ClusterUp
  <2>1. TypeOK'
    <3>1. CASE Fail
      BY <1>1, <3>1 DEF ClusterUp, Stopping, TypeOK, Progress
    <3>2. CASE UNCHANGED err
      BY <1>1, <3>2 DEF ClusterUp, Stopping, TypeOK, Progress
    <3> QED  BY <1>1, <3>1, <3>2 DEF ClusterUp
  <2>2. Progress'
    <3>1. CASE Fail
      BY <1>1, <3>1 DEF ClusterUp, Stopping, TypeOK, Progress
    <3>2. CASE UNCHANGED err
      BY <1>1, <3>2 DEF ClusterUp, Stopping, TypeOK, Progress
    <3> QED  BY <1>1, <3>1, <3>2 DEF ClusterUp
  <2>3. Accounted'
    BY <1>1 DEF ClusterUp, Stopping, TypeOK, Progress, Accounted, Starting, Gone
  <2> QED  BY <2>1, <2>2, <2>3 DEF Stopping
<1>2. CASE Configure
  <2>1. TypeOK'
    <3>1. sup.at \in Procs /\ sup'.at = sup.at + 1 /\ acked' = acked \cup {sup.at}
      BY <1>2 DEF Configure, Stopping, Progress
    <3>2. acked' \subseteq Procs
      BY <3>1 DEF Stopping, TypeOK
    <3>3. sup'.at \in 0..(N + 1)
      BY <3>1
    <3>4. UNCHANGED <<nodes, proc, wedged, stdin, err>>
      BY <1>2 DEF Configure
    <3> QED  BY <3>2, <3>3, <3>4 DEF Stopping, TypeOK
  <2>2. Progress'
    <3>1. sup.at \in 1..N /\ 1..(sup.at - 1) \subseteq acked /\ acked' = acked \cup {sup.at}
      BY <1>2 DEF Configure, Stopping, Progress
    <3>2. 1..sup.at \subseteq acked'
      BY <3>1
    <3>3. sup' = [pc |-> "configure", at |-> sup.at + 1] /\ nodes' = N /\ UNCHANGED err
      BY <1>2 DEF Configure, Stopping, Progress
    <3> QED  BY <3>1, <3>2, <3>3 DEF Progress
  <2>3. Accounted'
    BY <1>2 DEF Configure, Stopping, TypeOK, Progress, Accounted, Starting, Gone
  <2> QED  BY <2>1, <2>2, <2>3 DEF Stopping
<1>3. CASE ConfigureFails
  BY <1>3 DEF ConfigureFails, Stopping, TypeOK, Progress, Accounted, Starting, Gone
<1>4. CASE Experiment
  <2>1. TypeOK'
    <3>1. CASE Fail
      BY <1>4, <3>1 DEF Experiment, Stopping, TypeOK, Progress
    <3>2. CASE UNCHANGED err
      BY <1>4, <3>2 DEF Experiment, Stopping, TypeOK, Progress
    <3> QED  BY <1>4, <3>1, <3>2 DEF Experiment
  <2>2. Progress'
    <3>1. 1..N \subseteq acked /\ acked \subseteq 1..N /\ nodes = N
      BY <1>4 DEF Experiment, Stopping, TypeOK, Progress
    <3>2. sup' = [pc |-> "stop", at |-> 1] /\ acked' = Procs /\ nodes' = N
      BY <1>4, <3>1 DEF Experiment
    <3> QED  BY <3>2 DEF Progress
  <2>3. Accounted'
    BY <1>4 DEF Experiment, Stopping, TypeOK, Progress, Accounted, Starting, Gone
  <2> QED  BY <2>1, <2>2, <2>3 DEF Stopping
<1> QED  BY <1>1, <1>2, <1>3, <1>4

LEMMA StopStopping ==
  ASSUME Stopping, Ask \/ Exited \/ Patience \/ Closed \/ Dies
  PROVE  Stopping'
<1> USE ClusterAssumption DEF Goto, Procs
<1>1. CASE Ask
  <2>1. TypeOK'
    BY <1>1 DEF Ask, Stopping, TypeOK, Progress
  <2>2. Progress'
    BY <1>1 DEF Ask, Stopping, TypeOK, Progress
  <2>3. Accounted'
    BY <1>1 DEF Ask, Stopping, TypeOK, Progress, Accounted, Starting, Gone
  <2> QED  BY <2>1, <2>2, <2>3 DEF Stopping
<1>2. CASE Exited
  BY <1>2 DEF Exited, Alive, Stopping, TypeOK, Progress, Accounted, Starting, Gone
<1>3. CASE Patience
  BY <1>3 DEF Patience, Killed, Alive, Stopping, TypeOK, Progress, Accounted, Starting, Gone
<1>4. CASE Closed
  BY <1>4 DEF Closed, Stopping, TypeOK, Progress, Accounted, Starting, Gone
<1>5. CASE Dies
  BY <1>5 DEF Dies, Stopping, TypeOK, Progress, Accounted, Starting, Gone
<1> QED  BY <1>1, <1>2, <1>3, <1>4, <1>5

LEMMA StoppingNext == Stopping /\ [ClusterNext]_clusterVars => Stopping'
<1> SUFFICES ASSUME Stopping, [ClusterNext]_clusterVars PROVE Stopping'
  OBVIOUS
<1>1. CASE Supervise
  BY <1>1, StartStopping, UseStopping, StopStopping DEF Supervise
<1>2. CASE Dies
  BY <1>2, StopStopping
<1>3. ASSUME NEW n \in Procs, Process(n) \/ Crash(n) \/ Wedge(n) PROVE Stopping'
  BY <1>3, ProcessStopping
<1>4. CASE UNCHANGED clusterVars
  BY <1>4 DEF clusterVars, Stopping, TypeOK, Progress, Accounted, Starting, Gone
<1> QED  BY <1>1, <1>2, <1>3, <1>4 DEF ClusterNext

LEMMA StoppingSuffices == Stopping => TypeOK /\ NoneLeftBehind /\ RunsOnWholeCluster
BY DEF Stopping, TypeOK, Progress, Accounted, Starting, Gone, NoneLeftBehind, RunsOnWholeCluster, Alive, Procs

-----------------------------------------------------------------------------
(* For any number of processes, whatever fails, crashes, wedges or is      *)
(* killed, and however far it had come: when Once returns, no process it   *)
(* launched goes on but one that has been killed and is not yet waited for,*)
(* and without an error not even that (cluster.go:180-189, 310-333,        *)
(* 490-534).                                                               *)
THEOREM OnceLeavesNoneBehind == ClusterSpec => []NoneLeftBehind
BY StoppingInit, StoppingNext, StoppingSuffices, PTL DEF ClusterSpec

(* For any number of processes, an experiment only runs on all of them,    *)
(* and Once only returns without an error when every one was configured    *)
(* (cluster.go:163-168, 420-458).                                          *)
THEOREM OnceRunsOnWholeCluster == ClusterSpec => []RunsOnWholeCluster
BY StoppingInit, StoppingNext, StoppingSuffices, PTL DEF ClusterSpec

-----------------------------------------------------------------------------
(***************************************************************************)
(* One seed after another.                                                 *)
(***************************************************************************)
(***************************************************************************)
(* The seeds run so far are those before the one that is due, and a sweep  *)
(* that stops early and is still running has met with nothing to stop for. *)
(***************************************************************************)
RangeOK ==
  /\ range.ok \in BOOLEAN
  /\ range.ok => range.lo \in Nat /\ range.hi \in Nat /\ range.lo <= range.hi

InStep ==
  /\ said \in Seq(Verdicts)
  /\ exit = Running /\ range.ok => seed \in Nat /\ seed <= range.hi + 1 /\ seed = range.lo + Len(said)
  /\ ~range.ok => said = <<>>

NothingToStopFor ==
  exit = Running /\ stopEarly => \A i \in 1..Len(said) : CheckExpectation(expect, said[i]) = "nil"

TallyOK ==
  tally \in [linearizable : Nat, notLinearizable : Nat, unknown : Nat, mismatches : Nat]

Sweeping ==
  Stopping /\ RangeOK /\ InStep /\ NothingToStopFor /\ TallyOK /\ TallyIsTrue /\ ExitIsVerdict

-----------------------------------------------------------------------------
(* One more seed adds one to the count of the verdicts it is among.        *)
LEMMA CountIsNat ==
  ASSUME said \in Seq(Verdicts), NEW P
  PROVE  /\ IsFiniteSet({i \in DOMAIN said : said[i] \in P})
         /\ CountOf(P) \in Nat
         /\ CountOf(P) = 0 <=> \A i \in 1..Len(said) : said[i] \notin P
<1> DEFINE Where == {i \in DOMAIN said : said[i] \in P}
<1>1. Len(said) \in Nat /\ DOMAIN said = 1..Len(said)
  OBVIOUS
<1>2. IsFiniteSet(1..Len(said))
  BY <1>1, FS_Interval
<1>3. Where \subseteq 1..Len(said)
  BY <1>1
<1>4. IsFiniteSet(Where)
  BY <1>2, <1>3, FS_Subset
<1>5. Cardinality(Where) \in Nat
  BY <1>4, FS_CardinalityType
<1>6. Cardinality(Where) = 0 <=> Where = {}
  BY <1>4, FS_EmptySet
<1>7. Where = {} <=> \A i \in 1..Len(said) : said[i] \notin P
  BY <1>1
<1> QED  BY <1>4, <1>5, <1>6, <1>7 DEF CountOf

LEMMA OneMoreSeed ==
  ASSUME said \in Seq(Verdicts), NEW v \in Verdicts, said' = Append(said, v), NEW P
  PROVE  Cardinality({i \in DOMAIN said' : said'[i] \in P}) = CountOf(P) + (IF v \in P THEN 1 ELSE 0)
<1> DEFINE Where == {i \in DOMAIN said : said[i] \in P}
           After == {i \in DOMAIN said' : said'[i] \in P}
           k     == Len(said) + 1
<1>1. /\ DOMAIN said = 1..Len(said) /\ Len(said) \in Nat
      /\ DOMAIN said' = 1..k /\ said'[k] = v
      /\ \A i \in 1..Len(said) : said'[i] = said[i]
  OBVIOUS
<1>2. IsFiniteSet(Where) /\ Cardinality(Where) \in Nat
  BY CountIsNat DEF CountOf
<1> SUFFICES Cardinality(After) = Cardinality(Where) + (IF v \in P THEN 1 ELSE 0)
  BY Zenon DEF CountOf
<1>4. CASE v \in P
  <2>1. After = Where \cup {k}
    BY <1>1, <1>4
  <2>2. k \notin Where
    BY <1>1
  <2>3. Cardinality(After) = Cardinality(Where) + 1
    BY <1>2, <2>1, <2>2, FS_AddElement
  <2> HIDE DEF Where, After
  <2> QED  BY <1>4, <2>3
<1>5. CASE v \notin P
  <2>1. After = Where
    BY <1>1, <1>5
  <2> HIDE DEF Where, After
  <2> QED  BY <1>2, <1>5, <2>1
<1> QED  BY <1>4, <1>5

-----------------------------------------------------------------------------
LEMMA SweepingInit == SweepInit => Sweeping
<1> SUFFICES ASSUME SweepInit PROVE Sweeping
  OBVIOUS
<1>1. PICK a \in SeedArgs : range = ParseRange(a)
  BY DEF SweepInit
<1>2. /\ range.lo = a[1] /\ range.hi = a[Len(a)]
      /\ range.ok = (range.lo # Garbled /\ range.hi # Garbled /\ range.lo <= range.hi)
  BY <1>1 DEF ParseRange
<1>3. range.lo \in Nat \cup {Garbled} /\ range.hi \in Nat \cup {Garbled}
  BY <1>2, SweepAssumption
<1>4. RangeOK
  BY <1>2, <1>3 DEF RangeOK
<1>5. said = <<>> /\ Len(said) = 0 /\ exit = Running /\ seed = range.lo /\ said \in Seq(Verdicts)
  BY DEF SweepInit
<1>6. InStep
  BY <1>4, <1>5 DEF InStep, RangeOK
<1>7. NothingToStopFor /\ ExitIsVerdict
  BY <1>5 DEF NothingToStopFor, ExitIsVerdict, Running
<1>8. TallyOK
  BY DEF SweepInit, TallyOK
<1>9. TallyIsTrue
  <2>1. \A P : CountOf(P) = 0
    BY <1>5, CountIsNat
  <2> QED  BY <2>1 DEF SweepInit, TallyIsTrue
<1> QED  BY StoppingInit, <1>4, <1>6, <1>7, <1>8, <1>9 DEF SweepInit, Sweeping

(* What an experiment and its processes do, an interrupt and a refusal     *)
(* leave the sweep's own books as they are.                                *)
LEMMA BooksKept ==
  ASSUME Sweeping, UNCHANGED <<expect, stopEarly, range, seed, tally, said>>,
         exit' = exit \/ (exit' = 2 /\ (Len(said) < Total \/ ~range.ok)), Stopping'
  PROVE  Sweeping'
<1>1. RangeOK' /\ TallyOK'
  BY DEF Sweeping, RangeOK, TallyOK
<1>2. InStep'
  BY DEF Sweeping, InStep, Running
<1>3. NothingToStopFor'
  BY DEF Sweeping, NothingToStopFor, Running
<1>4. TallyIsTrue'
  <2>1. \A P : CountOf(P)' = CountOf(P)
    BY DEF CountOf
  <2> QED  BY <2>1 DEF Sweeping, TallyIsTrue
<1>5. ExitIsVerdict'
  <2>1. CASE exit' = exit
    BY <2>1 DEF Sweeping, ExitIsVerdict, Total, Contradicts
  <2>2. CASE exit' = 2 /\ (Len(said) < Total \/ ~range.ok)
    BY <2>2 DEF Sweeping, ExitIsVerdict, Total
  <2> QED  BY <2>1, <2>2
<1> QED  BY <1>1, <1>2, <1>3, <1>4, <1>5 DEF Sweeping

-----------------------------------------------------------------------------
(***************************************************************************)
(* Judge: the verdict is the next of said, the tally counts it, and the    *)
(* sweep either ends on it or starts the next seed among no processes.     *)
(***************************************************************************)
LEMMA Books ==
  ASSUME Sweeping, NEW v \in Verdicts, Judge(v)
  PROVE  /\ Seeding /\ range.ok /\ exit = Running /\ said' = Append(said, v)
         /\ UNCHANGED <<expect, stopEarly, range>>
         /\ said' \in Seq(Verdicts) /\ Len(said') = Len(said) + 1 /\ Len(said) \in Nat
         /\ said'[Len(said')] = v /\ \A i \in 1..Len(said) : said'[i] = said[i]
         /\ range.lo \in Nat /\ range.hi \in Nat /\ seed \in Nat /\ seed <= range.hi
         /\ seed = range.lo + Len(said)
<1>1. Seeding /\ exit = Running /\ said' = Append(said, v) /\ UNCHANGED <<expect, stopEarly, range>>
  BY DEF Judge
<1>2. said \in Seq(Verdicts)
  BY DEF Sweeping, InStep
<1>3. /\ said' \in Seq(Verdicts) /\ Len(said') = Len(said) + 1 /\ Len(said) \in Nat
      /\ said'[Len(said')] = v /\ \A i \in 1..Len(said) : said'[i] = said[i]
  BY <1>1, <1>2
<1>4. range.ok /\ seed <= range.hi
  BY <1>1 DEF Seeding
<1>5. range.lo \in Nat /\ range.hi \in Nat /\ seed \in Nat /\ seed = range.lo + Len(said)
  BY <1>1, <1>4 DEF Sweeping, RangeOK, InStep
<1> QED  BY <1>1, <1>3, <1>4, <1>5

LEMMA Expecting ==
  ASSUME NEW v \in Verdicts, expect \in Expected
  PROVE  /\ CheckExpectation(expect, v) = "noVerdict" <=> v = "unknown"
         /\ CheckExpectation(expect, v) = "expectationFailed" <=> Contradicts(v)
         /\ CheckExpectation(expect, v) = "nil" <=> v # "unknown" /\ ~Contradicts(v)
         /\ CheckExpectation(expect, v) \in {"nil", "noVerdict", "expectationFailed"}
         /\ Undecided(v) <=> v = "unknown"
         /\ Contradicts(v) <=> v \in {w \in Decided : ~Meets(expect, w)}
BY DEF CheckExpectation, Contradicts, Undecided, Decided, Verdicts

LEMMA Plus ==
  ASSUME NEW x \in Nat, NEW B \in BOOLEAN
  PROVE  (IF B THEN x + 1 ELSE x) \in Nat /\ (IF B THEN x + 1 ELSE x) = x + (IF B THEN 1 ELSE 0)
<1>1. CASE B
  BY <1>1
<1>2. CASE ~B
  BY <1>2
<1> QED  BY <1>1, <1>2

LEMMA JudgeTally ==
  ASSUME Sweeping, NEW v \in Verdicts, Judge(v)
  PROVE  TallyOK' /\ TallyIsTrue'
<1>1. said \in Seq(Verdicts) /\ said' = Append(said, v) /\ expect' = expect
  BY Books DEF Sweeping, InStep
<1>2. tally' = Counted(v, CheckExpectation(expect, v))
  BY DEF Judge
<1>3. /\ tally'.linearizable = tally.linearizable + (IF v = "linearizable" THEN 1 ELSE 0)
      /\ tally'.notLinearizable = tally.notLinearizable + (IF v = "not linearizable" THEN 1 ELSE 0)
      /\ tally'.unknown = tally.unknown + (IF v = "unknown" THEN 1 ELSE 0)
      /\ tally'.mismatches = tally.mismatches + (IF CountsAsMismatch(CheckExpectation(expect, v)) THEN 1 ELSE 0)
      /\ TallyOK'
  <2> DEFINE a == IF v = "linearizable" THEN tally.linearizable + 1 ELSE tally.linearizable
             b == IF v = "not linearizable" THEN tally.notLinearizable + 1 ELSE tally.notLinearizable
             c == IF v = "unknown" THEN tally.unknown + 1 ELSE tally.unknown
             d == IF CountsAsMismatch(CheckExpectation(expect, v)) THEN tally.mismatches + 1 ELSE tally.mismatches
  <2>1. tally \in [linearizable : Nat, notLinearizable : Nat, unknown : Nat, mismatches : Nat]
    BY DEF Sweeping, TallyOK
  <2>2. /\ tally.linearizable \in Nat /\ tally.notLinearizable \in Nat
        /\ tally.unknown \in Nat /\ tally.mismatches \in Nat
    BY <2>1
  <2>3. tally' = [[[[tally EXCEPT !.linearizable = a] EXCEPT !.notLinearizable = b]
                                  EXCEPT !.unknown = c] EXCEPT !.mismatches = d]
    BY <1>2, <2>1 DEF Counted
  <2>4. a \in Nat /\ a = tally.linearizable + (IF v = "linearizable" THEN 1 ELSE 0)
    BY <2>2, Plus, Zenon
  <2>5. b \in Nat /\ b = tally.notLinearizable + (IF v = "not linearizable" THEN 1 ELSE 0)
    BY <2>2, Plus, Zenon
  <2>6. c \in Nat /\ c = tally.unknown + (IF v = "unknown" THEN 1 ELSE 0)
    BY <2>2, Plus, Zenon
  <2>7. d \in Nat /\ d = tally.mismatches + (IF CountsAsMismatch(CheckExpectation(expect, v)) THEN 1 ELSE 0)
    <3>1. CountsAsMismatch(CheckExpectation(expect, v)) \in BOOLEAN
      BY DEF CountsAsMismatch
    <3> QED  BY <2>2, <3>1, Plus, Zenon
  <2> HIDE DEF a, b, c, d
  <2>8. /\ tally'.linearizable = a /\ tally'.notLinearizable = b /\ tally'.unknown = c /\ tally'.mismatches = d
        /\ TallyOK'
    BY <2>1, <2>3, <2>4, <2>5, <2>6, <2>7 DEF TallyOK
  <2> QED  BY <2>4, <2>5, <2>6, <2>7, <2>8
<1> DEFINE After(P) == Cardinality({i \in DOMAIN said' : said'[i] \in P})
           Against  == {w \in Decided : ~Meets(expect, w)}
<1>4. /\ After({"linearizable"}) = CountOf({"linearizable"}) + (IF v \in {"linearizable"} THEN 1 ELSE 0)
      /\ After({"not linearizable"}) = CountOf({"not linearizable"}) + (IF v \in {"not linearizable"} THEN 1 ELSE 0)
      /\ After({"unknown"}) = CountOf({"unknown"}) + (IF v \in {"unknown"} THEN 1 ELSE 0)
      /\ After(Against) = CountOf(Against) + (IF v \in Against THEN 1 ELSE 0)
  <2> HIDE DEF Against
  <2> QED  BY <1>1, OneMoreSeed, Zenon
<1>5. /\ CountOf({"linearizable"})' = After({"linearizable"})
      /\ CountOf({"not linearizable"})' = After({"not linearizable"})
      /\ CountOf({"unknown"})' = After({"unknown"})
      /\ CountOf({w \in Decided : ~Meets(expect, w)})' = After(Against)
  <2>1. {w \in Decided : ~Meets(expect', w)} = Against
    BY <1>1
  <2> QED  BY <2>1, Zenon DEF CountOf
<1> HIDE DEF After, Against
<1>6. expect \in Expected => (CountsAsMismatch(CheckExpectation(expect, v)) <=> v \in Against)
  BY Expecting DEF CountsAsMismatch, Against
<1>7. tally'.linearizable = CountOf({"linearizable"})'
  BY <1>3, <1>4, <1>5 DEF Sweeping, TallyIsTrue
<1>8. tally'.notLinearizable = CountOf({"not linearizable"})'
  BY <1>3, <1>4, <1>5 DEF Sweeping, TallyIsTrue
<1>9. tally'.unknown = CountOf({"unknown"})'
  BY <1>3, <1>4, <1>5 DEF Sweeping, TallyIsTrue
<1>10. expect \in Expected => tally'.mismatches = CountOf({w \in Decided : ~Meets(expect, w)})'
  BY <1>3, <1>4, <1>5, <1>6 DEF Sweeping, TallyIsTrue, Against
<1> QED  BY <1>1, <1>3, <1>7, <1>8, <1>9, <1>10 DEF TallyIsTrue

LEMMA JudgeStopping ==
  ASSUME Sweeping, NEW v \in Verdicts, Judge(v)
  PROVE  Stopping'
<1>1. CASE UNCHANGED clusterVars
  BY <1>1 DEF Sweeping, clusterVars, Stopping, TypeOK, Progress, Accounted, Starting, Gone
<1>2. CASE /\ sup' = [pc |-> "launch", at |-> 1] /\ nodes' = 0
           /\ proc' = [n \in Procs |-> "none"]
           /\ wedged' = {} /\ stdin' = {} /\ err' = FALSE /\ acked' = {}
  <2>1. TypeOK'
    <3>1. err' \in BOOLEAN
      BY <1>2
    <3> QED  BY <1>2, <3>1, ClusterAssumption DEF TypeOK, Procs
  <2>2. Progress' /\ Accounted'
    BY <1>2, ClusterAssumption DEF Progress, Accounted, Gone
  <2> QED  BY <2>1, <2>2 DEF Stopping
<1> QED  BY <1>1, <1>2 DEF Judge

LEMMA JudgeVerdict ==
  ASSUME Sweeping, NEW v \in Verdicts, Judge(v)
  PROVE  InStep' /\ NothingToStopFor' /\ ExitIsVerdict'
<1> DEFINE e == CheckExpectation(expect, v)
<1>1. CASE e # "nil" /\ stopEarly
  <2>1. exit' = ExitFor(e) /\ exit' # Running
    BY <1>1 DEF Judge, ExitFor, Running
  <2>2. InStep' /\ NothingToStopFor'
    BY <2>1, Books DEF InStep, NothingToStopFor
  <2>3. ASSUME expect \in Expected
        PROVE  /\ exit' # 0
               /\ exit' = 1 => /\ \E i \in 1..Len(said') : Contradicts(said'[i])
                              /\ \A i \in 1..Len(said') : ~Undecided(said'[i])
               /\ exit' = 2 => \E i \in 1..Len(said') : Undecided(said'[i])
    <3>1. \A i \in 1..Len(said) : said[i] \in Verdicts /\ CheckExpectation(expect, said[i]) = "nil"
      <4>1. \A i \in 1..Len(said) : said[i] \in Verdicts
        BY DEF Sweeping, InStep
      <4>2. \A i \in 1..Len(said) : CheckExpectation(expect, said[i]) = "nil"
        BY <1>1, Books DEF Sweeping, NothingToStopFor
      <4> QED  BY <4>1, <4>2
    <3>2. \A i \in 1..Len(said) : ~Undecided(said[i])
      BY <2>3, <3>1, Expecting
    <3>3. e = "noVerdict" \/ e = "expectationFailed"
      BY <1>1, <2>3, Expecting
    <3>4. CASE e = "noVerdict"
      <4>1. exit' = 2 /\ Undecided(said'[Len(said')])
        BY <2>1, <2>3, <3>4, Expecting, Books DEF ExitFor
      <4> QED  BY <4>1, Books
    <3>5. CASE e = "expectationFailed"
      <4>1. exit' = 1 /\ Contradicts(said'[Len(said')]) /\ ~Undecided(said'[Len(said')])
        BY <2>1, <2>3, <3>5, Expecting, Books DEF ExitFor
      <4>2. \A i \in 1..Len(said') : i = Len(said') \/ i \in 1..Len(said)
        BY Books
      <4>3. \A i \in 1..Len(said') : ~Undecided(said'[i])
        BY <3>2, <4>1, <4>2, Books
      <4> QED  BY <4>1, <4>3, Books
    <3> QED  BY <3>3, <3>4, <3>5
  <2>4. \A w : Contradicts(w)' <=> Contradicts(w)
    BY Books DEF Contradicts
  <2>5. DOMAIN said' = 1..Len(said')
    BY Books
  <2> QED  BY <2>2, <2>3, <2>4, <2>5, Books DEF ExitIsVerdict, Undecided
<1>2. CASE ~(e # "nil" /\ stopEarly)
  <2>1. exit' = Running /\ seed' = seed + 1
    BY <1>2, Books DEF Judge
  <2>2. InStep'
    BY <2>1, Books DEF InStep
  <2>3. ExitIsVerdict'
    BY <2>1 DEF ExitIsVerdict, Running
  <2>4. NothingToStopFor'
    <3> SUFFICES ASSUME stopEarly, NEW i \in 1..Len(said')
                 PROVE  CheckExpectation(expect, said'[i]) = "nil"
      BY Books DEF NothingToStopFor
    <3>1. CASE i = Len(said')
      BY <1>2, <3>1, Books
    <3>2. CASE i \in 1..Len(said)
      BY <3>2, Books DEF Sweeping, NothingToStopFor
    <3>3. i = Len(said') \/ i \in 1..Len(said)
      <4>1. Len(said') = Len(said) + 1 /\ Len(said) \in Nat
        BY Books
      <4> QED  BY <4>1
    <3> QED  BY <3>1, <3>2, <3>3
  <2> QED  BY <2>2, <2>3, <2>4
<1> QED  BY <1>1, <1>2

(***************************************************************************)
(* Finish: the seeds have run out, and the tally says which of the three   *)
(* it is.                                                                  *)
(***************************************************************************)
LEMMA FinishSweeping ==
  ASSUME Sweeping, Finish
  PROVE  Sweeping'
<1>1. /\ exit = Running /\ range.ok /\ seed > range.hi /\ exit' = ExitFor(SweepOutcome(tally))
      /\ UNCHANGED <<clusterVars, expect, stopEarly, range, seed, tally, said>>
  BY DEF Finish
<1>2. exit' # Running
  BY <1>1 DEF ExitFor, Running
<1>3. Stopping'
  BY <1>1 DEF Sweeping, clusterVars, Stopping, TypeOK, Progress, Accounted, Starting, Gone
<1>4. RangeOK' /\ InStep' /\ NothingToStopFor' /\ TallyOK'
  BY <1>1, <1>2 DEF Sweeping, RangeOK, InStep, NothingToStopFor, TallyOK
<1>5. TallyIsTrue'
  <2>1. \A P : CountOf(P)' = CountOf(P)
    BY <1>1 DEF CountOf
  <2> QED  BY <1>1, <2>1 DEF Sweeping, TallyIsTrue
<1>6. ASSUME expect \in Expected
      PROVE  /\ exit' = 0 => Len(said) = Total /\ \A i \in 1..Len(said) : ~Undecided(said[i]) /\ ~Contradicts(said[i])
             /\ exit' = 1 => /\ \E i \in 1..Len(said) : Contradicts(said[i])
                            /\ \A i \in 1..Len(said) : ~Undecided(said[i])
             /\ exit' = 2 => \E i \in 1..Len(said) : Undecided(said[i])
  <2> DEFINE Against == {w \in Decided : ~Meets(expect, w)}
  <2>1. said \in Seq(Verdicts) /\ \A i \in 1..Len(said) : said[i] \in Verdicts
    BY DEF Sweeping, InStep
  <2>2. Len(said) = Total
    BY <1>1, <2>1 DEF Sweeping, RangeOK, InStep, Total
  <2>3. tally.unknown \in Nat /\ (tally.unknown = 0 <=> \A i \in 1..Len(said) : ~Undecided(said[i]))
    <3>1. tally.unknown = CountOf({"unknown"})
      BY DEF Sweeping, TallyIsTrue
    <3>2. CountOf({"unknown"}) \in Nat /\ (CountOf({"unknown"}) = 0 <=> \A i \in 1..Len(said) : said[i] \notin {"unknown"})
      BY <2>1, CountIsNat
    <3> QED  BY <1>6, <2>1, <3>1, <3>2, Expecting
  <2>4. tally.mismatches \in Nat /\ (tally.mismatches = 0 <=> \A i \in 1..Len(said) : ~Contradicts(said[i]))
    <3>1. tally.mismatches = CountOf(Against)
      BY <1>6 DEF Sweeping, TallyIsTrue
    <3>2. \A i \in 1..Len(said) : Contradicts(said[i]) <=> said[i] \in Against
      BY <1>6, <2>1, Expecting
    <3> HIDE DEF Against
    <3>3. CountOf(Against) \in Nat /\ (CountOf(Against) = 0 <=> \A i \in 1..Len(said) : said[i] \notin Against)
      BY <2>1, CountIsNat
    <3> QED  BY <3>1, <3>2, <3>3
  <2>5. /\ exit' = 0 <=> tally.unknown = 0 /\ tally.mismatches = 0
        /\ exit' = 1 <=> tally.unknown = 0 /\ tally.mismatches # 0
        /\ exit' = 2 <=> tally.unknown # 0
    BY <1>1, <2>3, <2>4 DEF ExitFor, SweepOutcome
  <2> QED  BY <2>2, <2>3, <2>4, <2>5
<1>7. ExitIsVerdict'
  <2>1. \A w : Contradicts(w)' <=> Contradicts(w)
    BY <1>1 DEF Contradicts
  <2>2. DOMAIN said = 1..Len(said) /\ UNCHANGED <<said, range, expect>>
    BY <1>1 DEF Sweeping, InStep
  <2> QED  BY <1>6, <2>1, <2>2 DEF ExitIsVerdict, Undecided, Total
<1> QED  BY <1>3, <1>4, <1>5, <1>7 DEF Sweeping

LEMMA SweepingNext == Sweeping /\ [SweepNext]_allVars => Sweeping'
<1> SUFFICES ASSUME Sweeping, [SweepNext]_allVars PROVE Sweeping'
  OBVIOUS
<1>1. UNCHANGED clusterVars => Stopping'
  BY DEF Sweeping, clusterVars, Stopping, TypeOK, Progress, Accounted, Starting, Gone
<1>2. CASE Once
  <2>1. Stopping'
    BY <1>2, StoppingNext DEF Once, ClusterNext, Sweeping
  <2> QED  BY <1>2, <2>1, BooksKept DEF Once, sweepVars
<1>3. ASSUME NEW n \in Procs, Lives(n) PROVE Sweeping'
  <2>1. Stopping'
    BY <1>3, StoppingNext DEF Lives, ClusterNext, Sweeping
  <2> QED  BY <1>3, <2>1, BooksKept DEF Lives, sweepVars
<1>4. CASE RefuseSeeds
  BY <1>1, <1>4, BooksKept DEF RefuseSeeds, ExitFor
<1>5. CASE SeedFails \/ Interrupted
  <2>1. /\ exit = Running /\ Seeding /\ exit' = 2
        /\ UNCHANGED <<clusterVars, expect, stopEarly, range, seed, tally, said>>
    BY <1>5 DEF SeedFails, Interrupted, ExitFor
  <2>2. Len(said) < Total
    BY <2>1 DEF Sweeping, Seeding, RangeOK, InStep, Total
  <2> QED  BY <1>1, <2>1, <2>2, BooksKept
<1>6. CASE Finish
  BY <1>6, FinishSweeping
<1>7. ASSUME NEW v \in Verdicts, Judge(v) PROVE Sweeping'
  <2>1. RangeOK'
    BY <1>7, Books DEF Sweeping, RangeOK
  <2> QED  BY <1>7, <2>1, JudgeStopping, JudgeVerdict, JudgeTally DEF Sweeping
<1>8. CASE UNCHANGED allVars
  <2>1. UNCHANGED clusterVars /\ UNCHANGED sweepVars
    BY <1>8 DEF allVars
  <2> QED  BY <1>1, <2>1, BooksKept DEF sweepVars
<1> QED  BY <1>2, <1>3, <1>4, <1>5, <1>6, <1>7, <1>8 DEF SweepNext, Command

LEMMA SweepingSuffices == Sweeping => NoneLeftBehind /\ TallyIsTrue /\ ExitIsVerdict
BY StoppingSuffices DEF Sweeping

-----------------------------------------------------------------------------
(* For any range of seeds, any expectation and any number of processes,    *)
(* wherever the sweep is interrupted or an experiment fails: the exit      *)
(* status says of all the seeds what it says of one (main.go:5-7, 42-48,   *)
(* 516-525).                                                               *)
THEOREM ExitStatusIsVerdict == SweepSpec => []ExitIsVerdict
BY SweepingInit, SweepingNext, SweepingSuffices, PTL DEF SweepSpec

(* For any range of seeds, the last line printed is a true count of what   *)
(* the seeds came to (main.go:487-507).                                    *)
THEOREM TallyCountsEachSeed == SweepSpec => []TallyIsTrue
BY SweepingInit, SweepingNext, SweepingSuffices, PTL DEF SweepSpec

(* However many seeds come one after another, none leaves the next a       *)
(* process of its own: OnceLeavesNoneBehind holds of a sweep too           *)
(* (main.go:475-486; campaign.go:56-79).                                   *)
THEOREM SweepLeavesNoneBehind == SweepSpec => []NoneLeftBehind
BY SweepingInit, SweepingNext, SweepingSuffices, PTL DEF SweepSpec

=============================================================================
