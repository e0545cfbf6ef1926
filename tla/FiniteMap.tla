----------------------------- MODULE FiniteMap -----------------------------
(***************************************************************************)
(* What the radix tree promises: a map from keys to values, which grows.   *)
(* An insertion is seen as soon as it has returned, under its own key.     *)
(***************************************************************************)
CONSTANTS Keys, Vals, None

VARIABLES
  map,
  put   \* the key and the value that were inserted last

Init == map = [key \in Keys |-> None] /\ put = None

Put(key, value) ==
  /\ put' = <<key, value>>
  /\ map' = [map EXCEPT ![key] = value]

Next == \E key \in Keys, value \in Vals : Put(key, value)

Spec == Init /\ [][Next]_<<map, put>>
=============================================================================
