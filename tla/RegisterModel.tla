---------------------------- MODULE RegisterModel ----------------------------
(***************************************************************************)
(* The sequential object a history is judged against: one integer register *)
(* with read, write and compare-and-swap, or the same register without     *)
(* compare-and-swap (internal/model/model.go).                             *)
(*                                                                         *)
(* An operation is a record with the fields of history.Op that the model   *)
(* reads: kind, value (write), from and to (cas), observed (read),         *)
(* swapped (cas) and outcome.  Fields a kind does not use hold a default,  *)
(* as they do in Go.                                                       *)
(***************************************************************************)
EXTENDS Integers

CONSTANT Model    \* "cas-register" or "register", as named on the command line

Kinds    == {"read", "write", "cas"}
Outcomes == {"ok", "fail", "info"}

(***************************************************************************)
(* Registers start at zero rather than at "absent".                        *)
(***************************************************************************)
InitialValue == 0

(***************************************************************************)
(* Whether the client learned the result: only then is it a constraint.    *)
(***************************************************************************)
Known(op) == op.outcome = "ok"

(***************************************************************************)
(* Register refuses a compare-and-swap outright, whatever its outcome.     *)
(***************************************************************************)
Models(op) == op.kind \in Kinds /\ (Model = "register" => op.kind # "cas")

(***************************************************************************)
(* The first half of Step: whether op may be applied to a register holding *)
(* v.  An indeterminate operation the register models always fits.         *)
(***************************************************************************)
Fits(v, op) ==
  /\ Models(op)
  /\ op.kind = "read" /\ Known(op) => op.observed = v
  /\ op.kind = "cas" /\ Known(op) => op.swapped = (v = op.from)

(***************************************************************************)
(* The second half: the value the register holds afterwards.               *)
(***************************************************************************)
After(v, op) ==
  CASE op.kind = "write"                   -> op.value
    [] op.kind = "cas" /\ v = op.from      -> op.to
    [] OTHER                               -> v

=============================================================================
