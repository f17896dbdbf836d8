---------------------------- MODULE MCQuorumStore ----------------------------
(***************************************************************************)
(* Two nodes and one register: a write, and a compare-and-swap of what it  *)
(* writes, which is refused by a node that has not seen it.                *)
(***************************************************************************)
EXTENDS QuorumStore

Write(v) == [kind |-> "write", key |-> "k", value |-> v, from |-> 0, to |-> 0]
Swap12   == [kind |-> "cas", key |-> "k", value |-> 0, from |-> 1, to |-> 2]

MCRequests == {Write(1), Swap12}

(* Node 1 is given its peer again and told to wait for it, or cut off.     *)
MCConfigs == {[node |-> 1, sync |-> {TRUE}, peers |-> {{2}}],
              [node |-> 1, sync |-> {}, peers |-> {{}}]}
=============================================================================
