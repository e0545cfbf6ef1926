--------------------------- MODULE BlockingQueue ---------------------------
(***************************************************************************)
(* What BLPOP without a timeout promises while every push brings one       *)
(* element: per key a list of elements and a line of clients that is       *)
(* served first come, first served.  A client joins the line if there is   *)
(* no element, and takes one only if nobody is in line before it; what     *)
(* arrives while clients wait goes to the one that has waited longest; no  *)
(* element is handed out twice or disappears from a list.                  *)
(***************************************************************************)
EXTENDS Integers, Sequences

CONSTANTS Key, Client

VARIABLES
  items,  \* per key, the elements of its list
  line,   \* per key, the clients that wait for one
  hand    \* per client, the <<key, element>> pairs on their way to it

vars == <<items, line, hand>>

Init ==
  /\ items = [k \in Key |-> << >>]
  /\ line = [k \in Key |-> << >>]
  /\ hand = [c \in Client |-> << >>]

\* s is what is left of t when its first elements have gone.
LeftOf(s, t) == \E n \in 0..Len(t) : s = SubSeq(t, n + 1, Len(t))

\* What is on its way arrives in order; clients in C get nothing new.
Arrives(C) == \A c \in C : LeftOf(hand'[c], hand[c])

\* new is old with elements added at one of its ends.
Grown(old, new) ==
  /\ Len(new) > Len(old)
  /\ \/ SubSeq(new, 1, Len(old)) = old
     \/ SubSeq(new, Len(new) - Len(old) + 1, Len(new)) = old

Push(k) ==
  /\ line[k] = << >>
  /\ Grown(items[k], items'[k])
  /\ items' = [items EXCEPT ![k] = items'[k]]
  /\ Arrives(Client) /\ UNCHANGED line

\* A push that finds clients waiting hands what it brings to the first of them.
PushAndServe(k) ==
  LET c   == Head(line[k])
      got == hand'[c][Len(hand'[c])]
  IN  /\ line[k] # << >> /\ hand'[c] # << >>
      /\ hand'[c] = Append(hand[c], got) /\ got[1] = k
      /\ line' = [line EXCEPT ![k] = Tail(@)]
      /\ Arrives(Client \ {c}) /\ UNCHANGED items

\* Nobody takes an element past those who are waiting for one.
Take(c, k) ==
  /\ items[k] # << >> /\ line[k] = << >>
  /\ items' = [items EXCEPT ![k] = Tail(@)]
  /\ LeftOf(hand'[c], Append(hand[c], <<k, Head(items[k])>>))
  /\ Arrives(Client \ {c}) /\ UNCHANGED line

Join(c, k) ==
  /\ items[k] = << >>
  /\ \A j \in Key : \A i \in 1..Len(line[j]) : line[j][i] # c
  /\ line' = [line EXCEPT ![k] = Append(@, c)]
  /\ Arrives(Client) /\ UNCHANGED items

Arrive == Arrives(Client) /\ UNCHANGED <<items, line>>

Next ==
  \/ \E k \in Key : Push(k) \/ PushAndServe(k)
  \/ \E c \in Client, k \in Key : Take(c, k) \/ Join(c, k)
  \/ Arrive

Spec == Init /\ [][Next]_vars
=============================================================================
