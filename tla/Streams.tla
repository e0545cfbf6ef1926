------------------------------ MODULE Streams ------------------------------
(***************************************************************************)
(* The stream type of RedrumDB (src/data_structures/stream.rs): IDs, the   *)
(* choice between appending to the last node and starting a new one, and   *)
(* the look-up of an entry.  Operators only: XADD is in Commands.          *)
(*                                                                         *)
(* A stream keeps its entries in listpacks, the listpacks in a radix tree  *)
(* under the ID of their first entry, and those IDs in an ordered index.   *)
(* Here the tree is the map that the module Radix shows it to be, and a    *)
(* listpack is the sequence of entries appended to it, which the module    *)
(* Listpack reads back from its bytes.                                     *)
(***************************************************************************)
EXTENDS Integers, Sequences, FiniteSets

CONSTANTS
  Data,       \* string values, list elements, stream fields
  None,       \* Option::None
  MaxWord,    \* u64::MAX
  CloseMs,    \* 1000: how far apart two neighbours in a node may be
  NodeBytes,  \* 4096: a listpack that has reached it takes no more entries
  DataBytes,  \* how many bytes a field or a value takes in a listpack
  DigitWords  \* words whose eight bytes spell a decimal number (listpack.rs)

Word == 0..MaxWord

StreamID == [ms : Word, seq : Word]

StreamEntry == [id : StreamID, fields : Seq(Data)]

\* total_bytes is kept in the header of a listpack.
Pack == [total_bytes : Nat, entries : Seq(StreamEntry)]

StreamNode == [last_id : StreamID, lp : Pack]

Stream ==
  [tree : [StreamID -> StreamNode \cup {None}], index : SUBSET StreamID,
   last_id : StreamID \cup {None}]

ASSUME StreamsAssumption ==
  /\ MaxWord \in Nat /\ CloseMs \in Nat /\ NodeBytes \in Nat /\ DataBytes \in Nat
  /\ DigitWords \subseteq Word
  /\ None \notin StreamID /\ None \notin StreamNode /\ None \notin {"error", "open"}

Before(a, b) == a.ms < b.ms \/ (a.ms = b.ms /\ a.seq < b.seq)
UpTo(a, b)   == a = b \/ Before(a, b)

ZeroID == [ms |-> 0, seq |-> 0]

-----------------------------------------------------------------------------
(* StreamID::parse.  The text of an ID is one of the four forms.  A        *)
(* numeral may exceed u64::MAX and may be padded with zeros; the reading   *)
(* of SystemTime that "*" takes is arbitrary, since that clock may be set. *)
(***************************************************************************)
IDText ==
       [form : {"*"}, ms : Word]
  \cup [form : {"ms-*"}, ms : Nat]
  \cup [form : {"ms-seq"}, ms : Nat, seq : Nat, padded : BOOLEAN]
  \cup [form : {"malformed"}]

\* parse_u64 and `+ 1` of the release build.
Wrapped(n) == n % (MaxWord + 1)

Parsed(ms, seq) == [id |-> [ms |-> ms, seq |-> seq], error |-> None]
Refused(error)  == [id |-> None, error |-> error]

\* Mutant of SeqAfter: the sequence number of the last entry is used again.
SeqAgain(last) == last.seq

SeqAfter(last) == Wrapped(last.seq + 1)

\* An ID or an error, "open" when its line lacks the CRLF.
parse(text, last) ==
  CASE text.form = "*" ->
         Parsed(text.ms, IF last.ms = text.ms THEN SeqAfter(last) ELSE 0)
    [] text.form = "ms-*" ->
         LET ms == Wrapped(text.ms)
         IN  IF ms < last.ms THEN Refused("error")
             ELSE Parsed(ms, IF ms = last.ms THEN SeqAfter(last) ELSE 0)
    [] text.form = "ms-seq" -> Parsed(Wrapped(text.ms), Wrapped(text.seq))
    [] text.form = "malformed" -> Refused("open")

-----------------------------------------------------------------------------
(* Stream::add and Stream::get.                                            *)

NewStream ==
  [tree |-> [id \in StreamID |-> None], index |-> {}, last_id |-> None]

\* A listpack is a header of 6 bytes and an end byte around its entries.
NewPack == [total_bytes |-> 7, entries |-> << >>]

\* A word is a string of 8 bytes between a byte of encoding and one of back length;
\* one that spells a number is stored in 32 bits (some negative ones take a byte less,
\* which is not told apart here).  The third word counts the fields.
WordBytes(w) == IF w \in DigitWords THEN 6 ELSE 10

append_entry(lp, id, fields) ==
  [total_bytes |-> lp.total_bytes + WordBytes(id.ms) + WordBytes(id.seq) + 10
                     + DataBytes * Len(fields),
   entries     |-> Append(lp.entries, [id |-> id, fields |-> fields])]

Greatest(ids) == CHOOSE k \in ids : \A j \in ids : UpTo(j, k)

\* Mutant of get_floor_key: the range ends before id.
FloorBelow(s, id) ==
  LET at == {k \in s.index : Before(k, id)}
  IN  IF at = {} THEN None ELSE Greatest(at)

get_floor_key(s, id) ==
  LET at == {k \in s.index : UpTo(k, id)}
  IN  IF at = {} THEN None ELSE Greatest(at)

can_append(node, id) ==
  /\ node.lp.total_bytes < NodeBytes
  /\ Before(node.last_id, id)
  /\ id.ms >= node.last_id.ms /\ id.ms - node.last_id.ms < CloseMs

\* Mutant of IsNewer: within one millisecond any sequence number will do.
IsNewerMs(s, id) == s.last_id = None \/ id.ms >= s.last_id.ms

\* add refuses an ID that is not greater than the last one.
IsNewer(s, id) == s.last_id = None \/ Before(s.last_id, id)

\* Mutant of Appended: the node keeps the ID of its first entry as its last.
AppendedUnmarked(s, k, id, fields) ==
  [tree    |-> [s.tree EXCEPT ![k] = [last_id |-> @.last_id,
                                      lp      |-> append_entry(@.lp, id, fields)]],
   index   |-> s.index,
   last_id |-> id]

Appended(s, k, id, fields) ==
  [tree    |-> [s.tree EXCEPT ![k] = [last_id |-> id,
                                      lp      |-> append_entry(@.lp, id, fields)]],
   index   |-> s.index,
   last_id |-> id]

WithNewNode(s, id, fields) ==
  [tree    |-> [s.tree EXCEPT ![id] = [last_id |-> id,
                                       lp      |-> append_entry(NewPack, id, fields)]],
   index   |-> s.index \cup {id},
   last_id |-> id]

add(s, id, fields) ==
  LET k == get_floor_key(s, id)
  IN  IF k # None /\ s.tree[k] # None /\ can_append(s.tree[k], id)
      THEN Appended(s, k, id, fields)
      ELSE WithNewNode(s, id, fields)

\* The walk gives up at an ID word that append stored as a number.
Unreadable(e) == e.id.ms \in DigitWords \/ e.id.seq \in DigitWords

find_entry_in_listpack(lp, target) ==
  LET n     == Len(lp.entries)
      stops == {i \in 1..n : lp.entries[i].id = target \/ Unreadable(lp.entries[i])}
      first == CHOOSE i \in stops : \A j \in stops : i <= j
  IN  IF stops = {} \/ Unreadable(lp.entries[first]) THEN None
      ELSE lp.entries[first].fields

get_entry(s, id) ==
  LET k == get_floor_key(s, id)
  IN  IF k = None \/ s.tree[k] = None THEN None
      ELSE find_entry_in_listpack(s.tree[k].lp, id)

-----------------------------------------------------------------------------
(* What is in a stream, and the shape that add keeps.                      *)

PackEntries(lp) == {lp.entries[i] : i \in 1..Len(lp.entries)}

\* Whether the walk through lp gives up before it has returned the entry at id.
Hidden(lp, id) == \E x \in PackEntries(lp) : Unreadable(x) /\ UpTo(x.id, id)

EntriesOf(s) == UNION {PackEntries(s.tree[k].lp) : k \in {j \in StreamID : s.tree[j] # None}}

\* A listpack under key k: it starts with k, its IDs grow, its node knows the last.
NodeOK(node, k) ==
  LET es == node.lp.entries
  IN  /\ es # << >> /\ es[1].id = k /\ es[Len(es)].id = node.last_id
      /\ \A i, j \in 1..Len(es) : i < j => Before(es[i].id, es[j].id)

StreamOK(s) ==
  /\ s.last_id # None
  /\ s.index = {k \in StreamID : s.tree[k] # None}
  /\ \A k \in s.index : NodeOK(s.tree[k], k) /\ UpTo(s.tree[k].last_id, s.last_id)
  /\ \A k, j \in s.index : Before(k, j) => Before(s.tree[k].last_id, j)
  /\ \E k \in s.index : s.tree[k].last_id = s.last_id
=============================================================================
