-------------------------------- MODULE MCSweep --------------------------------
(***************************************************************************)
(* Two seeds on three processes each, one seed, or a range that is none,   *)
(* under each kind of expectation and one that is misspelt.                *)
(***************************************************************************)
EXTENDS Sweep

MCExpectations == {"any", "linearizable", "violation", "linearisable"}

MCSeedArgs == {<<1, 2>>, <<0>>, <<2, 1>>, <<Garbled, 5>>}
OneSeed    == {<<1>>}
=============================================================================
