-------------------------- MODULE MCClearPipeStart --------------------------
(* Instances of ClearPipeStart for TLC. *)
EXTENDS ClearPipeStart, TLC

CONSTANTS first, retry, other

(* Two identical requests, and one that reuses the key for something else. *)
OneReused == (first :> "asked") @@ (retry :> "asked") @@ (other :> "changed")
Identical == (first :> "asked") @@ (retry :> "asked")

(* The two identical requests may be exchanged. *)
Alike == Permutations({first, retry})
=============================================================================
