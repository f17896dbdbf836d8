--------------------------- MODULE Linearizability ---------------------------
(***************************************************************************)
(* What the checker promises to decide: whether the operations of one key  *)
(* have a linearization.                                                   *)
(*                                                                         *)
(* A partial linearization is written as a sequence of frames, each naming *)
(* an operation (an index into the history) and the value the register     *)
(* held just before it, exactly as the search keeps them on its stack.     *)
(***************************************************************************)
EXTENDS History

Placed(w) == {w[k].op : k \in DOMAIN w}

(***************************************************************************)
(* The frames replay: the register starts at its initial value, every      *)
(* operation fits where it is placed, and each frame holds what the one    *)
(* before it left.  v is the value after the last frame.                   *)
(***************************************************************************)
Replays(h, w, v) ==
  /\ IF w = <<>> THEN v = InitialValue ELSE w[1].state = InitialValue
  /\ \A k \in DOMAIN w : Fits(w[k].state, h[w[k].op])
  /\ \A k \in DOMAIN w :
       After(w[k].state, h[w[k].op]) = IF k = Len(w) THEN v ELSE w[k+1].state

(***************************************************************************)
(* No operation is placed twice.                                           *)
(***************************************************************************)
PlacedOnce(w) == \A j, k \in DOMAIN w : w[j].op = w[k].op => j = k

(***************************************************************************)
(* Real time is respected: nothing that had to come before a placed        *)
(* operation is placed after it, or is still to be placed.                 *)
(***************************************************************************)
RespectsRealTime(h, w) ==
  \A k \in DOMAIN w : \A i \in DOMAIN h :
    i # w[k].op /\ Precedes(h[i], h[w[k].op])
      => \E j \in DOMAIN w : j < k /\ w[j].op = i

IsPartialLinearization(h, w, v) ==
  /\ Placed(w) \subseteq DOMAIN h
  /\ PlacedOnce(w)
  /\ Replays(h, w, v)
  /\ RespectsRealTime(h, w)

IsLinearization(h, w, v) ==
  /\ IsPartialLinearization(h, w, v)
  /\ Placed(w) = DOMAIN h

-----------------------------------------------------------------------------
(***************************************************************************)
(* The reference definition: some order of all the operations is a         *)
(* linearization.  The values between them are computed, not guessed.      *)
(***************************************************************************)
Orders(h) == {p \in [DOMAIN h -> DOMAIN h] : \A i, j \in DOMAIN h : p[i] = p[j] => i = j}

Frames(h, p) ==
  LET before[k \in 1..(Len(h) + 1)] ==
        IF k = 1 THEN InitialValue ELSE After(before[k-1], h[p[k-1]])
  IN  [frames |-> [k \in DOMAIN h |-> [op |-> p[k], state |-> before[k]]],
       final  |-> before[Len(h) + 1]]

Linearizable(h) ==
  \E p \in Orders(h) :
    /\ \A i, j \in DOMAIN h : i < j => ~Precedes(h[p[j]], h[p[i]])
    /\ LET f == Frames(h, p) IN Replays(h, f.frames, f.final)

=============================================================================
