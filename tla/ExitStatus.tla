------------------------------ MODULE ExitStatus ------------------------------
(***************************************************************************)
(* How the command line turns a verdict into an exit status                *)
(* (cmd/splitbrain/main.go): 0 when it is the one asked for, 1 when it is  *)
(* not, 2 when there is none or the tool failed.                           *)
(***************************************************************************)

Decided  == {"linearizable", "not linearizable"}
Verdicts == Decided \cup {"unknown"}

(***************************************************************************)
(* What -expect may say, trimmed and in lower case; anything else is       *)
(* refused.                                                                *)
(***************************************************************************)
Either   == {"", "any"}
Broken   == {"not-linearizable", "not_linearizable", "violation"}
Expected == Either \cup {"linearizable"} \cup Broken

Meets(expect, verdict) ==
  \/ expect \in Either
  \/ expect = "linearizable" /\ verdict = "linearizable"
  \/ expect \in Broken /\ verdict = "not linearizable"

(***************************************************************************)
(* The error a command ends with, by its type: a *noVerdict, an            *)
(* *expectationFailed, or any other.                                       *)
(***************************************************************************)
CheckExpectation(expect, got) ==
  IF expect \notin Expected THEN "other"
  ELSE IF got = "unknown" THEN "noVerdict"
  ELSE IF Meets(expect, got) THEN "nil"
  ELSE "expectationFailed"

(* main's own rule.                                                        *)
ExitFor(err) ==
  CASE err = "nil"               -> 0
    [] err = "expectationFailed" -> 1
    [] OTHER                     -> 2

=============================================================================
