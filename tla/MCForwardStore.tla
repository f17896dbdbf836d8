---------------------------- MODULE MCForwardStore ----------------------------
(***************************************************************************)
(* Small instances of ForwardStore: a leader and a follower, one       *)
(* register, and requests that tell the kinds and two written values apart.*)
(***************************************************************************)
EXTENDS ForwardStore

CONSTANTS o1, o2, n1, n2

Ask(kind, value, from, to) ==
  [kind |-> kind, key |-> "k", value |-> value, from |-> from, to |-> to]

MCRegisters == {"k"}
MCRequests  == {Ask("read", 0, 0, 0), Ask("write", 1, 0, 0), Ask("cas", 0, 1, 2)}

TwoNodes    == {n1, n2}
TwoOps      == {o1, o2}

Unset == [node |-> n2, leader |-> {}, promote |-> {}, promoteAfter |-> {}]

(* Promotion switched off and on, a new threshold, one below one, and a    *)
(* follower told to lead and to follow again.                              *)
AllConfigs ==
  {[Unset EXCEPT !.promote = {b}] : b \in BOOLEAN}
    \cup {[Unset EXCEPT !.promoteAfter = {k}] : k \in {0, 2}}
    \cup {[Unset EXCEPT !.leader = {m}] : m \in {n1, None}}
=============================================================================
