------------------------------ MODULE BruteForce ------------------------------
(***************************************************************************)
(* The reference the fast search is tested against: every operation that   *)
(* could come next, in every order, with no cache                          *)
(* (internal/checker/brute.go).                                            *)
(***************************************************************************)
EXTENDS Linearizability

(***************************************************************************)
(* bruteMinimal: no operation still to be placed finished before i began.  *)
(* i itself is left out of the comparison.                                 *)
(***************************************************************************)
MinimalOfAll(h, placed, i) ==  \* mutant: compared with itself as well
  \A j \in DOMAIN h \ placed : ~Precedes(h[j], h[i])

Minimal(h, placed, i) ==
  \A j \in DOMAIN h \ (placed \cup {i}) : ~Precedes(h[j], h[i])

(* What the register can hold along the way.                               *)
Values(h) == {InitialValue} \cup {h[i].value : i \in DOMAIN h} \cup {h[i].to : i \in DOMAIN h}

(***************************************************************************)
(* bruteSearch: what is placed, and what the register holds, decide        *)
(* whether the rest can be placed.                                         *)
(***************************************************************************)
CanFinish(h) ==
  LET found[c \in (SUBSET DOMAIN h) \X Values(h)] ==
        LET placed == c[1]
            v      == c[2]
        IN  \/ placed = DOMAIN h
            \/ \E i \in DOMAIN h \ placed :
                 /\ Minimal(h, placed, i)
                 /\ Fits(v, h[i])
                 /\ found[<<placed \cup {i}, After(v, h[i])>>]
  IN  found[<<{}, InitialValue>>]

(***************************************************************************)
(* BruteForce.  The limit is on what was given, before anything failed is  *)
(* dropped.                                                                *)
(***************************************************************************)
Reference(h, limit) ==
  IF Len(h) > limit THEN "unknown"
  ELSE IF CanFinish(DropFailed(h)) THEN "linearizable" ELSE "not linearizable"

=============================================================================
