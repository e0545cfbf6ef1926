------------------------------- MODULE Radix -------------------------------
(***************************************************************************)
(* The radix tree of src/data_structures/radix.rs: nodes that share the    *)
(* prefix of the keys below them, split when a key leaves in the middle.   *)
(*                                                                         *)
(* The bytes of a key are numbers.  A value, once inserted, can be         *)
(* replaced but not removed.                                               *)
(***************************************************************************)
EXTENDS Integers, SequencesExt

CONSTANTS
  Keys,       \* the keys that are inserted and looked up: sequences of bytes
  Vals,       \* the values
  None,       \* Option::None
  MaxInserts  \* bound: insertions in a behaviour

VARIABLES
  root,
  inserts,  \* how many insertions there were
  put       \* the key and the value of the last one

Node(prefix, children, value) ==
  [prefix |-> prefix, children |-> children, value |-> value]

\* An element of the vector of children, which is labelled with a byte.
Child(node) == [b |-> node.prefix[1], node |-> node]

NewRoot == Node(<< >>, << >>, None)

\* The part of s from its n-th byte on, counted from 0.
From(s, n) == SubSeq(s, n + 1, Len(s))

\* The positions of the children of a node that are labelled b.
Labelled(node, b) == {i \in 1..Len(node.children) : node.children[i].b = b}

Earliest(is) == CHOOSE i \in is : \A j \in is : i <= j

lcp(a, b) ==
  LET len    == IF Len(a) < Len(b) THEN Len(a) ELSE Len(b)
      differ == {i \in 1..len : a[i] # b[i]}
  IN  IF differ = {} THEN len ELSE Earliest(differ) - 1

-----------------------------------------------------------------------------
RECURSIVE get_rec(_, _)
get_rec(node, key) ==
  LET rem == From(key, Len(node.prefix))
      at  == Labelled(node, rem[1])
  IN  IF ~IsPrefix(node.prefix, key) THEN None
      ELSE IF rem = << >> THEN node.value
      ELSE IF at = {} THEN None
      ELSE get_rec(node.children[Earliest(at)].node, rem)

\* Mutant of SplitAt: the value is not taken out of the node that is split.
SplitKeeping(node, common) ==
  Node(SubSeq(node.prefix, 1, common),
       <<Child([node EXCEPT !.prefix = From(@, common)])>>, node.value)

\* The prefix ends after common bytes, what was below it moves to a child.
SplitAt(node, common) ==
  Node(SubSeq(node.prefix, 1, common),
       <<Child([node EXCEPT !.prefix = From(@, common)])>>, None)

\* Mutant of WithChild: the new child stays where it was pushed.
WithChildLast(node, child) == [node EXCEPT !.children = Append(@, child)]

WithChild(node, child) ==
  LET ByLabel(x, y) == x.b < y.b
  IN  [node EXCEPT !.children = SortSeq(Append(@, child), ByLabel)]

RECURSIVE insert_rec(_, _, _)
insert_rec(node, key, value) ==
  LET common == lcp(node.prefix, key)
      split  == IF common < Len(node.prefix) THEN SplitAt(node, common) ELSE node
      rest   == From(key, common)
      at     == Labelled(split, rest[1])
  IN  IF common = Len(key) THEN [split EXCEPT !.value = value]
      ELSE IF at = {} THEN WithChild(split, Child(Node(rest, << >>, value)))
      ELSE [split EXCEPT !.children[Earliest(at)].node = insert_rec(@, rest, value)]

-----------------------------------------------------------------------------
Init == root = NewRoot /\ inserts = 0 /\ put = None

insert(key, value) ==
  /\ inserts < MaxInserts
  /\ root' = insert_rec(root, key, value)
  /\ inserts' = inserts + 1 /\ put' = <<key, value>>

Next == \E key \in Keys, value \in Vals : insert(key, value)

Spec == Init /\ [][Next]_<<root, inserts, put>>

-----------------------------------------------------------------------------
(* Properties.                                                             *)

Map == INSTANCE FiniteMap WITH map <- [key \in Keys |-> get_rec(root, key)]

\* However insertions split the nodes and nest in each other, the tree is a map: after
\* an insertion get() finds that value under that key, and no other key has gained,
\* lost or changed a value.
TreeIsMap == Map!Spec

\* Every node is needed (below the root it has a value or at least two children), and
\* every key has one place: children are ordered by distinct labels.
RECURSIVE Compressed(_)
Compressed(node) ==
  LET cs == node.children
  IN  /\ \A i \in 1..Len(cs) :
           /\ cs[i].node.prefix # << >> /\ cs[i].b = cs[i].node.prefix[1]
           /\ cs[i].node.value # None \/ Len(cs[i].node.children) >= 2
           /\ Compressed(cs[i].node)
      /\ \A i, j \in 1..Len(cs) : i < j => cs[i].b < cs[j].b

\* The splits keep the tree compressed and ordered ("radix tree with prefix
\* compression for ordered indexing").
TreeIsCompressed == Compressed(root)
=============================================================================
