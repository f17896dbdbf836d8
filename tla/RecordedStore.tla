---------------------------- MODULE RecordedStore ----------------------------
(***************************************************************************)
(* The measuring apparatus around a store that keeps AtomicStore's         *)
(* promise: client goroutines that issue one operation at a time, a clock  *)
(* that advances in steps, completions widened by one step, and the        *)
(* recorder (internal/clock/clock.go, internal/harness/harness.go,         *)
(* internal/kv/client.go).                                                 *)
(*                                                                         *)
(* now is true time, which nobody sees; Nanos is what a clock read at that *)
(* moment returns.                                                         *)
(***************************************************************************)
EXTENDS Linearizability

CONSTANTS
  Ops, Registers, Requests, None,   \* as in AtomicStore
  Processes,                        \* the identifiers clients may use up
  Granularity,                      \* the clock's step, in units of true time
  MaxNow                            \* bound on true time

ASSUME ClockAssumption == Granularity \in Nat \ {0} /\ MaxNow \in Nat

(***************************************************************************)
(* What is asked for is what the model judges, None is no answer, and no   *)
(* run lasts until Pending.                                                *)
(***************************************************************************)
ASSUME RecorderAssumption ==
  /\ Requests \subseteq [kind : Kinds, key : Registers, value : Int, from : Int, to : Int]
  /\ \A r \in Requests : Models(r)
  /\ None \notin [observed : Int, swapped : BOOLEAN]
  /\ Processes \subseteq Int
  /\ MaxNow < Pending

VARIABLES
  reg, request, outcome, effect, answer,   \* the store, as in AtomicStore
  now,         \* true time
  process,     \* the process that issued each operation, None before
  invoked,     \* the clock reading each operation started with
  completed,   \* the completion each operation is recorded with
  recorded     \* the recorder: operations in the order they were added

storeVars == <<reg, request, outcome, effect, answer>>
recorderVars == <<storeVars, now, process, invoked, completed, recorded>>

Store == INSTANCE AtomicStore

(***************************************************************************)
(* Clock.Nanos and Clock.Completion.                                       *)
(***************************************************************************)
Nanos == (now \div Granularity) * Granularity

CompletionAsRead(invoke, measured) ==  \* mutant: the measurement is recorded as it is
  IF measured < invoke THEN invoke ELSE measured

Completion(invoke, measured) ==
  (IF measured < invoke THEN invoke ELSE measured) + Granularity

RecorderInit ==
  /\ Store!Init
  /\ now = 0
  /\ process = [o \in Ops |-> None]
  /\ invoked = [o \in Ops |-> 0]
  /\ completed = [o \in Ops |-> 0]
  /\ recorded = <<>>

(***************************************************************************)
(* A process issues one operation at a time, and retires its identifier    *)
(* after one it never heard back from.                                     *)
(***************************************************************************)
IdleProcess(p) == ~ \E q \in Ops : process[q] = p /\ outcome[q] \in {"open", "info"}

Begin(o, p, r) ==
  /\ IdleProcess(p)
  /\ Store!Issue(o, r)
  /\ process' = [process EXCEPT ![o] = p]
  /\ invoked' = [invoked EXCEPT ![o] = Nanos]
  /\ UNCHANGED <<now, completed, recorded>>

Happen(o) ==
  /\ Store!TakeEffect(o)
  /\ UNCHANGED <<now, process, invoked, completed, recorded>>

(***************************************************************************)
(* Do returns and the recorder adds: one that ended without an answer has  *)
(* no completion.                                                          *)
(***************************************************************************)
Finish(o) ==
  /\ Store!Succeed(o) \/ Store!Decline(o) \/ Store!Abandon(o)
  /\ completed' = [completed EXCEPT ![o] =
                     IF outcome'[o] = "info" THEN Pending ELSE Completion(invoked[o], Nanos)]
  /\ recorded' = Append(recorded, o)
  /\ UNCHANGED <<now, process, invoked>>

Tick ==
  /\ now < MaxNow
  /\ now' = now + 1
  /\ UNCHANGED <<storeVars, process, invoked, completed, recorded>>

RecorderNext ==
  \/ \E o \in Ops, p \in Processes, r \in Requests : Begin(o, p, r)
  \/ \E o \in Ops : Happen(o) \/ Finish(o)
  \/ Tick

RecorderSpec == RecorderInit /\ [][RecorderNext]_recorderVars

-----------------------------------------------------------------------------
(* The history.Op Do fills in.                                             *)
OpOf(o) ==
  LET r == request[o]
  IN  [process |-> process[o], key |-> r.key, kind |-> r.kind,
       value |-> r.value, from |-> r.from, to |-> r.to,
       observed |-> IF outcome[o] = "ok" THEN answer[o].observed ELSE 0,
       swapped  |-> outcome[o] = "ok" /\ answer[o].swapped,
       outcome  |-> outcome[o], invoke |-> invoked[o], complete |-> completed[o]]

(* A run's history, once every client has returned.                        *)
Over == \A o \in Ops : outcome[o] # "open"
RunHistory == SortByInvoke([i \in DOMAIN recorded |-> OpOf(recorded[i])])

(* A store that keeps its promise is never convicted: with a coarse clock, *)
(* late effects and lost replies, what is recorded of it on each register  *)
(* is linearizable (clock.go:11-29, single.go:11-19).                      *)
NeverConvicted ==
  Over => \A k \in Registers : Linearizable(DropFailed(ByKey(RunHistory, k)))

(* history.go:124-127: "A process is sequential: its operations never      *)
(* overlap in time.  Validate enforces it".                                *)
RecordedHistoryValid == Over => Validate(RunHistory)

=============================================================================
