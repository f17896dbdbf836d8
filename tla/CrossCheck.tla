------------------------------ MODULE CrossCheck ------------------------------
(***************************************************************************)
(* The search and the reference side by side, on the same histories, as    *)
(* the differential tests run them (internal/checker/brute_test.go).       *)
(***************************************************************************)
EXTENDS WingGong, BruteForce

CONSTANT Limits   \* the maxOps the reference may be given

(***************************************************************************)
(* The reference is "correct by inspection" and not taken at its word:     *)
(* what it decides about a history is what the definition says of it, once *)
(* what never happened is dropped, and it decides only about what it is    *)
(* allowed to search (brute.go:11-32).                                     *)
(***************************************************************************)
ReferenceExact ==
  phase = "enter" =>
    \A limit \in Limits :
      Reference(hist, limit) =
        IF Len(hist) > limit THEN "unknown"
        ELSE IF Linearizable(DropFailed(hist)) THEN "linearizable" ELSE "not linearizable"

=============================================================================
