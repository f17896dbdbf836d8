----------------------------- MODULE AtomicStore -----------------------------
(***************************************************************************)
(* What a consistent store promises its clients, whatever the network does *)
(* to their requests: every operation takes effect at most once, at one    *)
(* instant after it was issued; "ok" reports what happened at that         *)
(* instant, "fail" says it never happens, and "info" says nothing at all,  *)
(* so that the effect may still come after it.                             *)
(*                                                                         *)
(* The effect itself is the sequential model's (RegisterModel), not a      *)
(* store's: ForwardStore is shown to implement this, which also compares   *)
(* the stores' code with the model the checker judges them by.             *)
(***************************************************************************)
EXTENDS RegisterModel, FiniteSets

CONSTANTS
  Ops,        \* one identifier per operation a client issues
  Registers,  \* the registers
  Requests,   \* kv.Request: what may be asked for
  None        \* nothing yet: no request, no effect, no answer

VARIABLES
  reg,        \* the registers
  request,    \* what each operation asks for, None before it is issued
  outcome,    \* what its client knows
  effect,     \* what happened when it took effect, None until it does
  answer      \* what its client was told, None unless outcome is "ok"

atomicVars == <<reg, request, outcome, effect, answer>>

(***************************************************************************)
(* The part of a kv.Response a client believes: a read's value and whether *)
(* a compare-and-swap swapped.  A field the kind does not use is the zero  *)
(* value, as it is in history.Op.                                          *)
(***************************************************************************)
Reply(observed, swapped) == [observed |-> observed, swapped |-> swapped]

(***************************************************************************)
(* The operation a client would record for request r answered by a.        *)
(***************************************************************************)
AsOp(r, a) == [kind |-> r.kind, value |-> r.value, from |-> r.from, to |-> r.to,
               observed |-> a.observed, swapped |-> a.swapped, outcome |-> "ok"]

(***************************************************************************)
(* What a register holding v answers: the one reply the model accepts.     *)
(***************************************************************************)
Answers(v, r) ==
  {a \in {Reply(o, s) : o \in {InitialValue, v}, s \in BOOLEAN} :
     /\ Fits(v, AsOp(r, a))
     /\ r.kind # "read" => a.observed = InitialValue
     /\ r.kind # "cas" => ~a.swapped}

Init ==
  /\ reg = [k \in Registers |-> InitialValue]
  /\ request = [o \in Ops |-> None]
  /\ outcome = [o \in Ops |-> "idle"]
  /\ effect = [o \in Ops |-> None]
  /\ answer = [o \in Ops |-> None]

Issue(o, r) ==
  /\ outcome[o] = "idle"
  /\ request' = [request EXCEPT ![o] = r]
  /\ outcome' = [outcome EXCEPT ![o] = "open"]
  /\ UNCHANGED <<reg, effect, answer>>

(***************************************************************************)
(* The one instant.  An operation whose client has given up may still      *)
(* reach it; one whose client was told it failed may not.                  *)
(***************************************************************************)
TakeEffect(o) ==
  /\ outcome[o] \in {"open", "info"}
  /\ effect[o] = None
  /\ LET r == request[o]
     IN  \E a \in Answers(reg[r.key], r) :
           /\ effect' = [effect EXCEPT ![o] = a]
           /\ reg' = [reg EXCEPT ![r.key] = After(@, AsOp(r, a))]
  /\ UNCHANGED <<request, outcome, answer>>

Succeed(o) ==
  /\ outcome[o] = "open"
  /\ effect[o] # None
  /\ outcome' = [outcome EXCEPT ![o] = "ok"]
  /\ answer' = [answer EXCEPT ![o] = effect[o]]
  /\ UNCHANGED <<reg, request, effect>>

Decline(o) ==
  /\ outcome[o] = "open"
  /\ effect[o] = None
  /\ outcome' = [outcome EXCEPT ![o] = "fail"]
  /\ UNCHANGED <<reg, request, effect, answer>>

Abandon(o) ==
  /\ outcome[o] = "open"
  /\ outcome' = [outcome EXCEPT ![o] = "info"]
  /\ UNCHANGED <<reg, request, effect, answer>>

Next ==
  \E o \in Ops :
    \/ \E r \in Requests : Issue(o, r)
    \/ TakeEffect(o)
    \/ Succeed(o)
    \/ Decline(o)
    \/ Abandon(o)

Spec == Init /\ [][Next]_atomicVars

=============================================================================
