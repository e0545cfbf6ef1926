--------------------------- MODULE ExpiringStore ---------------------------
(***************************************************************************)
(* What the keyspace promises to a client that reads with GET: an entry is *)
(* answered from when it is written until the instant of its expiry, and   *)
(* not at or after that instant.  There is no heap and no sweep here: the  *)
(* map may drop what has expired, at any time or never, for nobody can     *)
(* tell by the answers.                                                    *)
(***************************************************************************)
EXTENDS Integers

CONSTANTS
  Key,
  Absent,  \* what the map holds for a key that has no entry
  None     \* the expiry of an entry that stays

VARIABLES
  map,
  clock,
  answer   \* per key, what a GET is answered now

Alive(e, t) == e.expiry = None \/ e.expiry > t

Answer(e, t) ==
  CASE e = Absent \/ ~Alive(e, t) -> [tag |-> "nil", body |-> << >>]
    [] e # Absent /\ Alive(e, t) ->
         IF e.value.type = "string" THEN [tag |-> "array", body |-> <<e.value.data>>]
         ELSE [tag |-> "wrongtype", body |-> << >>]

Answers(m, t) == [k \in Key |-> Answer(m[k], t)]

Init ==
  /\ clock = 0 /\ map = [k \in Key |-> Absent]
  /\ answer = Answers(map, clock)

\* Time passes and touches no entry.
Pass == clock' = clock + 1 /\ map' = map

\* A client writes one key.  Only a string may be given an expiry.
Write(k, e) ==
  /\ e # Absent
  /\ e.expiry # None => e.value.type = "string" /\ e.expiry >= clock
  /\ map' = [map EXCEPT ![k] = e]
  /\ clock' = clock

\* Entries disappear: only those whose own expiry has been reached.
Vanish(S) ==
  /\ \A k \in S : ~Alive(map[k], clock)
  /\ map' = [k \in Key |-> IF k \in S THEN Absent ELSE map[k]]
  /\ clock' = clock

Next ==
  /\ Pass \/ (\E k \in Key : Write(k, map'[k])) \/ (\E S \in SUBSET Key : Vanish(S))
  /\ answer' = Answers(map', clock')

Spec == Init /\ [][Next]_<<map, clock, answer>>
=============================================================================
