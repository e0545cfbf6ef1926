----------------------------- MODULE StreamLog -----------------------------
(***************************************************************************)
(* What a stream promises: an append-only log under each key.  Every entry *)
(* is added with an ID greater than all before it, and none is changed or  *)
(* lost, until the key is given a value of another type.                   *)
(***************************************************************************)
EXTENDS Integers

CONSTANT Key

VARIABLES
  log,   \* per key, the set of its entries, which their IDs order
  other  \* the keys that hold a value of another type

vars == <<log, other>>

Init == log = [k \in Key |-> {}] /\ other = {}

Later(a, b) == a.ms > b.ms \/ (a.ms = b.ms /\ a.seq > b.seq)

\* An entry goes to the end of a log, or replaces a value of another type.
Add(k, e) ==
  /\ \A x \in log[k] : Later(e.id, x.id)
  /\ log' = [log EXCEPT ![k] = @ \cup {e}]
  /\ other' = other \ {k}

\* Only a value of another type takes the place of a log.
Overwrite(k) == log' = [log EXCEPT ![k] = {}] /\ other' = other \cup {k}

\* Values of other types may expire.
Vanish == other' \subseteq other /\ UNCHANGED log

Next == Vanish \/ \E k \in Key : Overwrite(k) \/ \E e \in log'[k] : Add(k, e)

Spec == Init /\ [][Next]_vars
=============================================================================
