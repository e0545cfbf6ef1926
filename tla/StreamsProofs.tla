---------------------------- MODULE StreamsProofs ----------------------------
(***************************************************************************)
(* What Stream::add preserves, for streams and IDs of every size: the      *)
(* types, the shape of a stream, and the entries that were there before;   *)
(* and what Stream::get finds in a stream of that shape.                   *)
(***************************************************************************)
EXTENDS Streams, SequenceTheorems, WellFoundedInduction, TLAPS

LEMMA WrappedType ==
  ASSUME NEW n \in Nat
  PROVE  Wrapped(n) \in Word
<1> DEFINE m == MaxWord + 1
<1>1. m \in Nat /\ m > 0 /\ m - 1 = MaxWord
  BY StreamsAssumption
<1> HIDE DEF m
<1>2. n % m \in 0..(m - 1)
  BY <1>1, SMTT(30)
<1> QED  BY <1>1, <1>2 DEF Wrapped, Word, m

\* An ID that is parsed is an ID.
LEMMA ParseType ==
  ASSUME NEW text \in IDText, NEW last \in StreamID
  PROVE  \/ /\ parse(text, last).error = None
            /\ parse(text, last).id \in StreamID
         \/ parse(text, last).error \in {"error", "open"}
<1>1. last.seq \in Nat /\ \A w \in Word : w \in Nat
  BY StreamsAssumption DEF StreamID, Word
<1>2. SeqAfter(last) \in Word /\ 0 \in Word
  BY <1>1, WrappedType, StreamsAssumption DEF SeqAfter, Word
<1>3. ASSUME NEW ms \in Word, NEW seq \in Word
      PROVE  Parsed(ms, seq).error = None /\ Parsed(ms, seq).id \in StreamID
  BY <1>3 DEF Parsed, StreamID
<1>4. \A e : Refused(e).error = e
  BY DEF Refused
<1>5. CASE text.form = "*"
  <2>1. text.ms \in Word
    BY <1>5 DEF IDText
  <2>2. parse(text, last) = Parsed(text.ms, IF last.ms = text.ms THEN SeqAfter(last) ELSE 0)
    BY <1>5 DEF parse
  <2> QED  BY <1>2, <1>3, <2>1, <2>2
<1>6. CASE text.form = "ms-*"
  <2>1. Wrapped(text.ms) \in Word
    BY <1>6, WrappedType DEF IDText
  <2>2. parse(text, last) =
          IF Wrapped(text.ms) < last.ms THEN Refused("error")
          ELSE Parsed(Wrapped(text.ms), IF Wrapped(text.ms) = last.ms THEN SeqAfter(last) ELSE 0)
    BY <1>6 DEF parse
  <2> QED  BY <1>2, <1>3, <1>4, <2>1, <2>2
<1>7. CASE text.form = "ms-seq"
  <2>1. Wrapped(text.ms) \in Word /\ Wrapped(text.seq) \in Word
    BY <1>7, WrappedType DEF IDText
  <2>2. parse(text, last) = Parsed(Wrapped(text.ms), Wrapped(text.seq))
    BY <1>7 DEF parse
  <2> QED  BY <1>3, <2>1, <2>2
<1>8. CASE text.form = "malformed"
  BY <1>4, <1>8 DEF parse
<1> QED  BY <1>5, <1>6, <1>7, <1>8 DEF IDText

LEMMA AppendEntryType ==
  ASSUME NEW lp \in Pack, NEW id \in StreamID, NEW fields \in Seq(Data)
  PROVE  append_entry(lp, id, fields) \in Pack
<1>1. [id |-> id, fields |-> fields] \in StreamEntry
  BY DEF StreamEntry
<1>2. Append(lp.entries, [id |-> id, fields |-> fields]) \in Seq(StreamEntry)
  BY <1>1, AppendProperties DEF Pack
<1>3. Len(fields) \in Nat /\ DataBytes \in Nat /\ lp.total_bytes \in Nat
  BY LenProperties, StreamsAssumption DEF Pack
<1>4. DataBytes * Len(fields) \in Nat
  BY <1>3
<1>5. \A w : WordBytes(w) \in Nat
  BY DEF WordBytes
<1>6. lp.total_bytes + WordBytes(id.ms) + WordBytes(id.seq) + 10
        + DataBytes * Len(fields) \in Nat
  <2>1. WordBytes(id.ms) \in Nat /\ WordBytes(id.seq) \in Nat
    BY <1>5
  <2> DEFINE n == DataBytes * Len(fields)
  <2>2. n \in Nat
    BY <1>4
  <2> HIDE DEF n
  <2>3. lp.total_bytes + WordBytes(id.ms) + WordBytes(id.seq) + 10 + n \in Nat
    BY <1>3, <2>1, <2>2
  <2> QED  BY <2>3 DEF n
<1> QED  BY <1>2, <1>6 DEF append_entry, Pack

LEMMA NewPackType == NewPack \in Pack
BY EmptySeq DEF NewPack, Pack

LEMMA NewStreamType == NewStream \in Stream
BY DEF NewStream, Stream

\* add returns a stream, whichever node it chooses.
LEMMA AddType ==
  ASSUME NEW s \in Stream, NEW id \in StreamID, NEW fields \in Seq(Data)
  PROVE  add(s, id, fields) \in Stream
<1> DEFINE k == get_floor_key(s, id)
<1>1. WithNewNode(s, id, fields) \in Stream
  <2> DEFINE node == [last_id |-> id, lp |-> append_entry(NewPack, id, fields)]
  <2>1. node \in StreamNode
    BY AppendEntryType, NewPackType DEF StreamNode
  <2> HIDE DEF node
  <2>2. [s.tree EXCEPT ![id] = node] \in [StreamID -> StreamNode \cup {None}]
    BY <2>1 DEF Stream
  <2>3. s.index \cup {id} \in SUBSET StreamID
    BY DEF Stream
  <2>4. WithNewNode(s, id, fields) =
          [tree |-> [s.tree EXCEPT ![id] = node], index |-> s.index \cup {id},
           last_id |-> id]
    BY DEF WithNewNode, Stream, node
  <2> QED  BY <2>2, <2>3, <2>4 DEF Stream
<1>2. ASSUME NEW j, s.tree[j] # None
      PROVE  Appended(s, j, id, fields) \in Stream
  <2> DEFINE node == [last_id |-> id, lp |-> append_entry(s.tree[j].lp, id, fields)]
             tree == [s.tree EXCEPT ![j] = node]
  <2>1. Appended(s, j, id, fields) =
          [tree |-> tree, index |-> s.index, last_id |-> id]
    BY DEF Appended, Stream
  <2>2. CASE j \in StreamID
    <3>1. s.tree[j] \in StreamNode
      BY <1>2, <2>2 DEF Stream
    <3>2. node \in StreamNode
      BY <3>1, AppendEntryType DEF StreamNode
    <3> HIDE DEF node
    <3>3. tree \in [StreamID -> StreamNode \cup {None}]
      BY <3>2 DEF Stream
    <3> QED  BY <2>1, <3>3 DEF Stream
  <2>3. CASE j \notin StreamID
    <3> HIDE DEF node
    <3>1. tree = s.tree
      BY <2>3 DEF Stream
    <3> HIDE DEF tree
    <3> QED  BY <2>1, <3>1 DEF Stream
  <2> QED  BY <2>2, <2>3
<1> QED  BY <1>1, <1>2 DEF add

-----------------------------------------------------------------------------
(* IDs are ordered.                                                        *)

LEMMA IdOrder ==
  ASSUME NEW a \in StreamID, NEW b \in StreamID, NEW c \in StreamID
  PROVE  /\ ~Before(a, a)
         /\ Before(a, b) /\ Before(b, c) => Before(a, c)
         /\ a = b \/ Before(a, b) \/ Before(b, a)
<1>1. \A x \in {a, b, c} : x.ms \in Nat /\ x.seq \in Nat
  BY StreamsAssumption DEF StreamID, Word
<1>2. a.ms = b.ms /\ a.seq = b.seq => a = b
  BY DEF StreamID
<1> QED  BY <1>1, <1>2 DEF Before

LEMMA EntryIds ==
  ASSUME NEW node \in StreamNode
  PROVE  /\ node.last_id \in StreamID
         /\ \A i \in 1..Len(node.lp.entries) : node.lp.entries[i].id \in StreamID
         /\ \A e \in PackEntries(node.lp) : e.id \in StreamID
<1>1. node.lp.entries \in Seq(StreamEntry) /\ node.last_id \in StreamID
  BY DEF StreamNode, Pack
<1>2. \A i \in 1..Len(node.lp.entries) : node.lp.entries[i] \in StreamEntry
  BY <1>1, ElementOfSeq
<1>3. \A e \in StreamEntry : e.id \in StreamID
  BY DEF StreamEntry
<1> QED  BY <1>1, <1>2, <1>3 DEF PackEntries

\* A list of entries that starts at its key is there, and reaches up to its last ID.
LEMMA NodeSpan ==
  ASSUME NEW node \in StreamNode, NEW k \in StreamID, NodeOK(node, k)
  PROVE  /\ UpTo(k, node.last_id)
         /\ \A e \in PackEntries(node.lp) : UpTo(e.id, node.last_id)
         /\ Len(node.lp.entries) \in Nat \ {0}
<1> DEFINE es == node.lp.entries
<1>1. es \in Seq(StreamEntry) /\ es # << >>
  BY DEF StreamNode, Pack, NodeOK
<1>2. Len(es) \in Nat \ {0}
  BY <1>1, EmptySeq, LenProperties
<1>3. /\ es[1].id = k /\ es[Len(es)].id = node.last_id
      /\ \A i, j \in 1..Len(es) : i < j => Before(es[i].id, es[j].id)
  BY DEF NodeOK
<1> HIDE DEF es
<1>4. \A i \in 1..Len(es) : UpTo(es[i].id, node.last_id)
  <2> SUFFICES ASSUME NEW i \in 1..Len(es)
               PROVE  UpTo(es[i].id, node.last_id)
    OBVIOUS
  <2>1. i = Len(es) \/ i < Len(es)
    BY <1>2
  <2> QED  BY <1>2, <1>3, <2>1 DEF UpTo
<1>5. UpTo(k, node.last_id)
  BY <1>2, <1>3, <1>4
<1>6. \A e \in PackEntries(node.lp) : UpTo(e.id, node.last_id)
  BY <1>4 DEF PackEntries, es
<1> QED  BY <1>2, <1>5, <1>6 DEF es

\* What the nodes of a well-formed stream are.
LEMMA NodesOf ==
  ASSUME NEW s \in Stream, StreamOK(s)
  PROVE  /\ s.last_id \in StreamID
         /\ \A k \in s.index : /\ k \in StreamID /\ s.tree[k] \in StreamNode
                               /\ NodeOK(s.tree[k], k)
                               /\ s.tree[k].last_id \in StreamID
                               /\ UpTo(k, s.tree[k].last_id)
                               /\ UpTo(s.tree[k].last_id, s.last_id)
         /\ \A k \in StreamID \ s.index : s.tree[k] = None
<1>1. s.last_id \in StreamID
  BY DEF Stream, StreamOK
<1>2. ASSUME NEW k \in s.index
      PROVE  k \in StreamID /\ s.tree[k] \in StreamNode /\ NodeOK(s.tree[k], k)
             /\ s.tree[k].last_id \in StreamID
  <2>1. k \in StreamID /\ s.tree[k] # None
    BY <1>2 DEF StreamOK
  <2>2. s.tree[k] \in StreamNode
    BY <2>1 DEF Stream
  <2> QED  BY <1>2, <2>1, <2>2 DEF StreamOK, StreamNode
<1>3. \A k \in s.index : UpTo(k, s.tree[k].last_id)
  BY <1>2, NodeSpan
<1>4. \A k \in StreamID \ s.index : s.tree[k] = None
  BY DEF StreamOK
<1> QED  BY <1>1, <1>2, <1>3, <1>4 DEF StreamOK

\* get_floor_key of an ID beyond the end is the key of the last node.
LEMMA FloorIsLast ==
  ASSUME NEW s \in Stream, StreamOK(s), NEW id \in StreamID, Before(s.last_id, id)
  PROVE  LET k == get_floor_key(s, id)
         IN  /\ k \in s.index /\ s.tree[k].last_id = s.last_id
             /\ \A j \in s.index : UpTo(j, k) /\ Before(j, id)
<1> DEFINE at == {j \in s.index : UpTo(j, id)}
<1>1. \A j \in s.index : Before(j, id)
  <2> SUFFICES ASSUME NEW j \in s.index  PROVE Before(j, id)
    OBVIOUS
  <2>1. /\ j \in StreamID /\ s.tree[j].last_id \in StreamID /\ s.last_id \in StreamID
        /\ UpTo(j, s.tree[j].last_id) /\ UpTo(s.tree[j].last_id, s.last_id)
    BY NodesOf
  <2>2. UpTo(j, s.last_id)
    BY <2>1, IdOrder DEF UpTo
  <2> QED  BY <2>1, <2>2, IdOrder DEF UpTo
<1>2. at = s.index
  BY <1>1 DEF UpTo
<1>3. PICK last \in s.index : s.tree[last].last_id = s.last_id
  BY DEF StreamOK
<1>4. ASSUME NEW j \in s.index  PROVE UpTo(j, last)
  <2>1. /\ j \in StreamID /\ last \in StreamID /\ s.last_id \in StreamID
        /\ s.tree[j].last_id \in StreamID
        /\ UpTo(j, s.tree[j].last_id) /\ UpTo(s.tree[j].last_id, s.last_id)
    BY NodesOf
  <2>2. ~Before(last, j)
    <3> SUFFICES ASSUME Before(last, j)  PROVE FALSE
      OBVIOUS
    <3>1. Before(s.last_id, j)
      BY <1>3 DEF StreamOK
    <3> QED  BY <2>1, <3>1, IdOrder DEF UpTo
  <2> QED  BY <2>1, <2>2, IdOrder DEF UpTo
<1>5. \A j \in s.index : (\A i \in s.index : UpTo(i, j)) => j = last
  <2> SUFFICES ASSUME NEW j \in s.index, UpTo(last, j)  PROVE j = last
    BY <1>3
  <2>1. UpTo(j, last) /\ j \in StreamID /\ last \in StreamID
    BY <1>4, NodesOf
  <2> QED  BY <2>1, IdOrder DEF UpTo
<1>6. get_floor_key(s, id) = last
  <2>1. get_floor_key(s, id) = Greatest(s.index)
    BY <1>2, <1>3 DEF get_floor_key
  <2> QED  BY <1>3, <1>4, <1>5, <2>1 DEF Greatest
<1> QED  BY <1>1, <1>3, <1>4, <1>6

-----------------------------------------------------------------------------
(* add.                                                                    *)

\* A pack with one more entry, later than those it has.
LEMMA PackGrows ==
  ASSUME NEW lp \in Pack, NEW id \in StreamID, NEW fields \in Seq(Data)
  PROVE  /\ Len(lp.entries) \in Nat
         /\ Len(append_entry(lp, id, fields).entries) = Len(lp.entries) + 1
         /\ append_entry(lp, id, fields).entries[Len(lp.entries) + 1]
              = [id |-> id, fields |-> fields]
         /\ \A i \in 1..Len(lp.entries) :
              append_entry(lp, id, fields).entries[i] = lp.entries[i]
<1> DEFINE es == lp.entries
           e  == [id |-> id, fields |-> fields]
           lp2 == append_entry(lp, id, fields)
           fs == lp2.entries
<1>1. es \in Seq(StreamEntry) /\ e \in StreamEntry /\ Len(es) \in Nat
  BY LenProperties DEF Pack, StreamEntry
<1>2. fs = Append(es, e)
  BY DEF append_entry
<1> HIDE DEF es, e, fs
<1>3. /\ Len(fs) = Len(es) + 1 /\ fs[Len(es) + 1] = e
      /\ \A i \in 1..Len(es) : fs[i] = es[i]
  BY <1>1, <1>2, AppendProperties
<1> QED  BY <1>1, <1>3 DEF es, e, fs

LEMMA PackEntriesGrow ==
  ASSUME NEW lp \in Pack, NEW id \in StreamID, NEW fields \in Seq(Data)
  PROVE  PackEntries(append_entry(lp, id, fields)) =
           PackEntries(lp) \cup {[id |-> id, fields |-> fields]}
<1> DEFINE es == lp.entries
           e  == [id |-> id, fields |-> fields]
           lp2 == append_entry(lp, id, fields)
           fs == lp2.entries
<1>1. /\ Len(es) \in Nat /\ Len(fs) = Len(es) + 1 /\ fs[Len(es) + 1] = e
      /\ \A i \in 1..Len(es) : fs[i] = es[i]
  BY PackGrows
<1> HIDE DEF es, e, fs
<1>2. 1..Len(fs) = 1..Len(es) \cup {Len(es) + 1}
  BY <1>1
<1>3. {fs[i] : i \in 1..Len(fs)} = {es[i] : i \in 1..Len(es)} \cup {e}
  BY <1>1, <1>2
<1> QED  BY <1>3 DEF PackEntries, es, fs, e

LEMMA NodeGrows ==
  ASSUME NEW node \in StreamNode, NEW k \in StreamID, NodeOK(node, k),
         NEW id \in StreamID, Before(node.last_id, id), NEW fields \in Seq(Data)
  PROVE  NodeOK([last_id |-> id, lp |-> append_entry(node.lp, id, fields)], k)
<1> DEFINE es == node.lp.entries
           e  == [id |-> id, fields |-> fields]
           fs == append_entry(node.lp, id, fields).entries
<1>1. /\ Len(es) \in Nat /\ Len(fs) = Len(es) + 1 /\ fs[Len(es) + 1] = e
      /\ \A i \in 1..Len(es) : fs[i] = es[i]
  BY PackGrows DEF StreamNode
<1>2. /\ Len(es) # 0 /\ es[1].id = k
      /\ \A i, j \in 1..Len(es) : i < j => Before(es[i].id, es[j].id)
  BY NodeSpan DEF NodeOK
<1>3. \A i \in 1..Len(es) : Before(es[i].id, id)
  <2> SUFFICES ASSUME NEW i \in 1..Len(es)  PROVE Before(es[i].id, id)
    OBVIOUS
  <2>1. es[i] \in PackEntries(node.lp)
    BY DEF PackEntries
  <2>2. es[i].id \in StreamID /\ node.last_id \in StreamID
    BY EntryIds
  <2>3. UpTo(es[i].id, node.last_id)
    BY <2>1, NodeSpan
  <2> QED  BY <2>2, <2>3, IdOrder DEF UpTo
<1>4. e.id = id
  OBVIOUS
<1> HIDE DEF es, fs, e
<1>5. \A i, j \in 1..Len(fs) : i < j => Before(fs[i].id, fs[j].id)
  <2> SUFFICES ASSUME NEW i \in 1..Len(fs), NEW j \in 1..Len(fs), i < j
               PROVE  Before(fs[i].id, fs[j].id)
    OBVIOUS
  <2>1. i \in 1..Len(es) /\ (j \in 1..Len(es) \/ j = Len(es) + 1)
    BY <1>1
  <2> QED  BY <1>1, <1>2, <1>3, <1>4, <2>1
<1>6. /\ fs # << >> /\ fs[1].id = k /\ fs[Len(fs)].id = id
  <2>1. Len(fs) # 0 /\ 1 \in 1..Len(es) /\ Len(fs) = Len(es) + 1
    BY <1>1, <1>2
  <2> QED  BY <1>1, <1>2, <1>4, <2>1, EmptySeq
<1> QED  BY <1>5, <1>6 DEF NodeOK, fs

\* The node that add makes for an ID that no node takes.
LEMMA FreshNode ==
  ASSUME NEW id \in StreamID, NEW fields \in Seq(Data)
  PROVE  LET lp == append_entry(NewPack, id, fields)
         IN  /\ NodeOK([last_id |-> id, lp |-> lp], id)
             /\ PackEntries(lp) = {[id |-> id, fields |-> fields]}
<1> DEFINE lp == append_entry(NewPack, id, fields)
           e  == [id |-> id, fields |-> fields]
<1>1. NewPack.entries = << >> /\ Len(<< >>) = 0 /\ PackEntries(NewPack) = {}
  BY EmptySeq DEF NewPack, PackEntries
<1>2. Len(lp.entries) = 1 /\ lp.entries[1] = e /\ PackEntries(lp) = {e}
  <2>1. /\ Len(lp.entries) = Len(NewPack.entries) + 1
        /\ lp.entries[Len(NewPack.entries) + 1] = e
    BY NewPackType, PackGrows
  <2>2. PackEntries(lp) = PackEntries(NewPack) \cup {e}
    BY NewPackType, PackEntriesGrow
  <2> HIDE DEF lp, e
  <2> QED  BY <1>1, <2>1, <2>2
<1>3. e.id = id
  OBVIOUS
<1>4. lp.entries # << >>
  BY <1>2, EmptySeq
<1> HIDE DEF lp, e
<1>5. NodeOK([last_id |-> id, lp |-> lp], id)
  BY <1>2, <1>3, <1>4 DEF NodeOK
<1> QED  BY <1>2, <1>5 DEF lp, e

\* The end of a stream: IsNewer compares with last_id, which is None at first.
Begins(s) == s = NewStream

\* add keeps the shape of a stream: whether the last node takes the entry or a new
\* node is started, the tree and its index agree and the nodes do not overlap.
THEOREM AddKeepsShape ==
  ASSUME NEW s \in Stream, Begins(s) \/ StreamOK(s), NEW id \in StreamID,
         IsNewer(s, id), NEW fields \in Seq(Data)
  PROVE  StreamOK(add(s, id, fields))
<1> DEFINE k  == get_floor_key(s, id)
           s2 == add(s, id, fields)
           fresh == [last_id |-> id, lp |-> append_entry(NewPack, id, fields)]
<1>1. NodeOK(fresh, id) /\ fresh \in StreamNode /\ fresh.last_id = id
  BY FreshNode, AppendEntryType, NewPackType DEF StreamNode
<1>2. None \notin StreamID /\ fresh # None
  BY <1>1, StreamsAssumption
<1> HIDE DEF fresh
<1>3. WithNewNode(s, id, fields) =
        [tree |-> [s.tree EXCEPT ![id] = fresh], index |-> s.index \cup {id},
         last_id |-> id]
  BY DEF WithNewNode, fresh
<1>4. UpTo(id, id)
  BY DEF UpTo
<1>5. CASE Begins(s)
  <2>1. /\ s.index = {} /\ s.tree = [j \in StreamID |-> None]
    BY <1>5 DEF Begins, NewStream
  <2>2. k = None
    BY <2>1 DEF get_floor_key
  <2>3. s2 = [tree |-> [s.tree EXCEPT ![id] = fresh], index |-> {id}, last_id |-> id]
    BY <1>3, <2>1, <2>2 DEF add
  <2>4. /\ s2.tree[id] = fresh /\ \A j \in StreamID \ {id} : s2.tree[j] = None
        /\ s2.index = {id} /\ s2.last_id = id
    BY <2>1, <2>3
  <2> HIDE DEF s2, k
  <2>5. s2.index = {j \in StreamID : s2.tree[j] # None}
    BY <1>2, <2>4
  <2>6. ~Before(id, id)
    BY IdOrder
  <2>7. StreamOK(s2)
    BY <1>1, <1>2, <1>4, <2>4, <2>5, <2>6 DEF StreamOK
  <2> QED  BY <2>7 DEF s2
<1>6. CASE StreamOK(s)
  <2>1. s.last_id \in StreamID /\ Before(s.last_id, id)
    BY <1>6, NodesOf, StreamsAssumption DEF IsNewer
  <2>2. /\ k \in s.index /\ s.tree[k].last_id = s.last_id
        /\ \A j \in s.index : UpTo(j, k) /\ Before(j, id)
    BY <1>6, <2>1, FloorIsLast
  <2>3. /\ \A j \in s.index : /\ j \in StreamID /\ s.tree[j] \in StreamNode
                              /\ NodeOK(s.tree[j], j) /\ s.tree[j].last_id \in StreamID
                              /\ UpTo(s.tree[j].last_id, s.last_id)
        /\ \A j \in StreamID \ s.index : s.tree[j] = None
    BY <1>6, NodesOf
  <2>4. \A j \in s.index : Before(s.tree[j].last_id, id)
    BY <2>1, <2>3, IdOrder DEF UpTo
  <2>5. id \notin s.index
    BY <2>2, IdOrder
  <2>6. s.index \subseteq StreamID /\ \A j \in s.index : s.tree[j] # None
    BY <1>6 DEF StreamOK
  <2>7. CASE s2 = WithNewNode(s, id, fields)
    <3>1. /\ s2.tree[id] = fresh /\ \A j \in StreamID \ {id} : s2.tree[j] = s.tree[j]
          /\ s2.index = s.index \cup {id} /\ s2.last_id = id
      BY <1>3, <2>7 DEF Stream
    <3> HIDE DEF s2, k
    <3>2. s2.index = {j \in StreamID : s2.tree[j] # None}
      BY <1>2, <2>3, <2>6, <3>1
    <3>3. \A j \in s2.index : NodeOK(s2.tree[j], j) /\ UpTo(s2.tree[j].last_id, id)
      BY <1>1, <1>4, <2>3, <2>4, <2>5, <3>1 DEF UpTo
    <3>4. \A i, j \in s2.index : Before(i, j) => Before(s2.tree[i].last_id, j)
      <4> SUFFICES ASSUME NEW i \in s2.index, NEW j \in s2.index, Before(i, j)
                   PROVE  Before(s2.tree[i].last_id, j)
        OBVIOUS
      <4>1. CASE i \in s.index /\ j \in s.index
        BY <1>6, <2>5, <2>6, <3>1, <4>1 DEF StreamOK
      <4>2. CASE i \in s.index /\ j = id
        BY <2>4, <2>5, <2>6, <3>1, <4>2
      <4>3. CASE i = id
        <5>1. j \in StreamID /\ (j = id \/ Before(j, id))
          BY <2>2, <2>6, <3>1
        <5> QED  BY <4>3, <5>1, IdOrder
      <4> QED  BY <3>1, <4>1, <4>2, <4>3
    <3>5. s2.last_id # None /\ \E j \in s2.index : s2.tree[j].last_id = s2.last_id
      BY <1>1, <1>2, <3>1
    <3>6. StreamOK(s2)
      BY <3>1, <3>2, <3>3, <3>4, <3>5 DEF StreamOK
    <3> QED  BY <3>6 DEF s2
  <2>8. CASE s2 = Appended(s, k, id, fields)
    <3> DEFINE node == [last_id |-> id, lp |-> append_entry(s.tree[k].lp, id, fields)]
    <3>1. NodeOK(node, k) /\ node.last_id = id /\ node \in StreamNode
      BY <2>1, <2>2, <2>3, NodeGrows, AppendEntryType DEF StreamNode
    <3> HIDE DEF node
    <3>2. s2 = [tree |-> [s.tree EXCEPT ![k] = node], index |-> s.index, last_id |-> id]
      BY <2>8 DEF Appended, node
    <3>3. /\ s2.tree[k] = node /\ \A j \in StreamID \ {k} : s2.tree[j] = s.tree[j]
          /\ s2.index = s.index /\ s2.last_id = id
      BY <2>2, <2>6, <3>2 DEF Stream
    <3> HIDE DEF s2, k
    <3>4. s2.index = {j \in StreamID : s2.tree[j] # None}
      BY <2>2, <2>3, <2>6, <3>1, <3>3, StreamsAssumption
    <3>5. \A j \in s2.index : NodeOK(s2.tree[j], j) /\ UpTo(s2.tree[j].last_id, id)
      BY <1>4, <2>3, <2>4, <3>1, <3>3 DEF UpTo
    <3>6. \A i, j \in s2.index : Before(i, j) => Before(s2.tree[i].last_id, j)
      <4> SUFFICES ASSUME NEW i \in s2.index, NEW j \in s2.index, Before(i, j)
                   PROVE  Before(s2.tree[i].last_id, j)
        OBVIOUS
      <4>1. CASE i = k
        <5>1. j \in StreamID /\ k \in StreamID /\ UpTo(j, k)
          BY <2>2, <2>6, <3>3
        <5> QED  BY <4>1, <5>1, IdOrder DEF UpTo
      <4>2. CASE i # k
        BY <1>6, <2>6, <3>3, <4>2 DEF StreamOK
      <4> QED  BY <4>1, <4>2
    <3>7. s2.last_id # None /\ \E j \in s2.index : s2.tree[j].last_id = s2.last_id
      BY <1>2, <2>2, <3>1, <3>3
    <3>8. StreamOK(s2)
      BY <3>3, <3>4, <3>5, <3>6, <3>7 DEF StreamOK
    <3> QED  BY <3>8 DEF s2
  <2> QED  BY <2>7, <2>8 DEF add
<1> QED  BY <1>5, <1>6

\* add adds its entry, which is later than all others, and loses none of them.
THEOREM AddEntries ==
  ASSUME NEW s \in Stream, Begins(s) \/ StreamOK(s), NEW id \in StreamID,
         IsNewer(s, id), NEW fields \in Seq(Data)
  PROVE  /\ EntriesOf(add(s, id, fields)) =
              EntriesOf(s) \cup {[id |-> id, fields |-> fields]}
         /\ \A e \in EntriesOf(s) : Before(e.id, id)
<1> DEFINE k  == get_floor_key(s, id)
           s2 == add(s, id, fields)
           e  == [id |-> id, fields |-> fields]
           fresh == [last_id |-> id, lp |-> append_entry(NewPack, id, fields)]
           Of(x) == PackEntries(x.lp)
<1>1. fresh # None /\ Of(fresh) = {e}
  <2>1. fresh \in StreamNode
    BY AppendEntryType, NewPackType DEF StreamNode
  <2> QED  BY <2>1, FreshNode, StreamsAssumption
<1> HIDE DEF fresh
<1>2. \A x \in Stream : \A y : y \in EntriesOf(x) <=>
                            \E j \in StreamID : x.tree[j] # None /\ y \in Of(x.tree[j])
  BY DEF EntriesOf
<1>3. s2 \in Stream
  BY AddType
<1>4. CASE Begins(s)
  <2>1. s.index = {} /\ s.tree = [j \in StreamID |-> None]
    BY <1>4 DEF Begins, NewStream
  <2>2. s2 = WithNewNode(s, id, fields)
    BY <2>1 DEF add, get_floor_key
  <2>3. s2.tree = [s.tree EXCEPT ![id] = fresh]
    BY <2>2 DEF WithNewNode, fresh
  <2> HIDE DEF s2, e, Of
  <2>4. EntriesOf(s) = {} /\ EntriesOf(s2) = {e}
    BY <1>1, <1>2, <1>3, <2>1, <2>3
  <2> QED  BY <2>4 DEF s2, e
<1>5. CASE StreamOK(s)
  <2>1. s.last_id \in StreamID /\ Before(s.last_id, id)
    BY <1>5, NodesOf, StreamsAssumption DEF IsNewer
  <2>2. k \in s.index /\ \A j \in s.index : Before(j, id)
    BY <1>5, <2>1, FloorIsLast
  <2>3. id \notin s.index /\ s.tree[id] = None /\ k \in StreamID /\ s.tree[k] \in StreamNode
    BY <1>5, <2>2, NodesOf, IdOrder
  <2>4. ASSUME NEW x \in EntriesOf(s)
        PROVE  Before(x.id, id)
    <3>1. PICK j \in StreamID : s.tree[j] # None /\ x \in Of(s.tree[j])
      BY <1>2
    <3>2. /\ j \in s.index /\ s.tree[j] \in StreamNode /\ NodeOK(s.tree[j], j)
          /\ s.tree[j].last_id \in StreamID /\ UpTo(s.tree[j].last_id, s.last_id)
      BY <1>5, <3>1, NodesOf
    <3>3. UpTo(x.id, s.tree[j].last_id)
      BY <3>1, <3>2, NodeSpan
    <3>4. x.id \in StreamID
      BY <3>1, <3>2, EntryIds
    <3> QED  BY <2>1, <3>2, <3>3, <3>4, IdOrder DEF UpTo
  <2>5. CASE s2 = WithNewNode(s, id, fields)
    <3>1. s2.tree = [s.tree EXCEPT ![id] = fresh]
      BY <2>5 DEF WithNewNode, fresh
    <3>2. s2.tree[id] = fresh /\ \A j \in StreamID \ {id} : s2.tree[j] = s.tree[j]
      BY <3>1 DEF Stream
    <3> HIDE DEF s2, e, Of
    <3>3. EntriesOf(s2) = EntriesOf(s) \cup {e}
      BY <1>1, <1>2, <1>3, <2>3, <3>2
    <3> QED  BY <2>4, <3>3 DEF s2, e
  <2>6. CASE s2 = Appended(s, k, id, fields)
    <3> DEFINE node == [last_id |-> id, lp |-> append_entry(s.tree[k].lp, id, fields)]
    <3>1. Of(node) = Of(s.tree[k]) \cup {e} /\ node \in StreamNode
      <4> DEFINE lp == s.tree[k].lp
                 grown == append_entry(lp, id, fields)
      <4>1. lp \in Pack
        BY <2>3 DEF StreamNode
      <4> HIDE DEF lp, k
      <4>2. grown \in Pack
        BY <4>1, AppendEntryType
      <4>3. PackEntries(grown) = PackEntries(lp) \cup {e}
        BY <4>1, PackEntriesGrow
      <4> HIDE DEF grown, e
      <4>4. node = [last_id |-> id, lp |-> grown]
        BY DEF grown, lp
      <4> HIDE DEF node
      <4>5. node \in StreamNode /\ node.lp = grown
        BY <4>2, <4>4 DEF StreamNode
      <4> QED  BY <4>3, <4>5 DEF lp
    <3> HIDE DEF node
    <3>2. s2.tree = [s.tree EXCEPT ![k] = node]
      BY <2>6 DEF Appended, node
    <3>3. s2.tree[k] = node /\ \A j \in StreamID \ {k} : s2.tree[j] = s.tree[j]
      BY <2>3, <3>2 DEF Stream
    <3>4. node # None /\ s.tree[k] # None
      BY <2>3, <3>1, StreamsAssumption
    <3> HIDE DEF s2, e, Of, k
    <3>5. EntriesOf(s2) = EntriesOf(s) \cup {e}
      BY <1>2, <1>3, <2>3, <3>1, <3>3, <3>4
    <3> QED  BY <2>4, <3>5 DEF s2, e
  <2> QED  BY <2>5, <2>6 DEF add
<1> QED  BY <1>4, <1>5

-----------------------------------------------------------------------------
(* get.                                                                    *)

\* A set of positions that is not empty has a first one.
LEMMA SmallestOf ==
  ASSUME NEW T \in SUBSET Nat, T # {}
  PROVE  \E i \in T : \A j \in T : i <= j
<1> DEFINE R == OpToRel(<, Nat)
<1>1. IsWellFoundedOn(R, Nat)
  BY NatLessThanWellFounded
<1>2. PICK i \in T : \A j \in T : <<j, i>> \notin R
  <2> HIDE DEF R
  <2> QED  BY <1>1, WFMin
<1>3. \A j \in T : ~(j < i)
  BY <1>2 DEF OpToRel
<1>4. \A j \in T : i <= j
  BY <1>3
<1> QED  BY <1>4

\* IDs have two words of bounded size, so some of them are the greatest.
LEMMA GreatestIs ==
  ASSUME NEW ids \in SUBSET StreamID, ids # {}
  PROVE  Greatest(ids) \in ids /\ \A j \in ids : UpTo(j, Greatest(ids))
<1>1. /\ MaxWord \in Nat
      /\ \A k \in ids : /\ k \in StreamID /\ k.ms \in Nat /\ MaxWord - k.ms \in Nat
                       /\ k.seq \in Nat /\ MaxWord - k.seq \in Nat
  BY StreamsAssumption DEF StreamID, Word
<1>2. PICK k \in ids : \A j \in ids : j.ms <= k.ms
  <2> DEFINE T == {MaxWord - j.ms : j \in ids}
  <2>1. T \in SUBSET Nat /\ T # {}
    BY <1>1
  <2>2. PICK i \in T : \A j \in T : i <= j
    <3> HIDE DEF T
    <3> QED  BY <2>1, SmallestOf
  <2>3. PICK k \in ids : i = MaxWord - k.ms
    OBVIOUS
  <2>4. \A j \in ids : MaxWord - k.ms <= MaxWord - j.ms
    BY <2>2, <2>3
  <2> HIDE DEF T
  <2> QED  BY <1>1, <2>4
<1> DEFINE late == {j \in ids : j.ms = k.ms}
<1>3. PICK l \in late : \A j \in late : j.seq <= l.seq
  <2> DEFINE T == {MaxWord - j.seq : j \in late}
  <2>1. T \in SUBSET Nat /\ T # {}
    BY <1>1, <1>2
  <2>2. PICK i \in T : \A j \in T : i <= j
    <3> HIDE DEF T
    <3> QED  BY <2>1, SmallestOf
  <2>3. PICK l \in late : i = MaxWord - l.seq
    OBVIOUS
  <2>4. \A j \in late : MaxWord - l.seq <= MaxWord - j.seq
    BY <2>2, <2>3
  <2> HIDE DEF T
  <2> QED  BY <1>1, <2>4
<1>4. ASSUME NEW j \in ids  PROVE UpTo(j, l)
  <2>1. j \in StreamID /\ l \in StreamID /\ l.ms = k.ms /\ j.ms <= k.ms
    BY <1>1, <1>2, <1>3
  <2>2. CASE j.ms = k.ms
    <3>1. j.seq <= l.seq /\ (j.seq = l.seq => j = l)
      BY <1>3, <2>1, <2>2 DEF StreamID
    <3> QED  BY <1>1, <1>3, <2>1, <2>2, <3>1 DEF UpTo, Before
  <2>3. CASE j.ms # k.ms
    BY <1>1, <1>2, <2>1, <2>3 DEF UpTo, Before
  <2> QED  BY <2>2, <2>3
<1>5. l \in ids
  BY <1>3
<1> QED  BY <1>4, <1>5 DEF Greatest

\* get_floor_key of an ID between the ends of a node is the key of that node.
LEMMA FloorIsNode ==
  ASSUME NEW s \in Stream, StreamOK(s), NEW k \in s.index, NEW id \in StreamID,
         UpTo(k, id), UpTo(id, s.tree[k].last_id)
  PROVE  get_floor_key(s, id) = k
<1> DEFINE at == {j \in s.index : UpTo(j, id)}
<1>1. k \in StreamID /\ s.tree[k].last_id \in StreamID /\ k \in at
  BY NodesOf
<1>2. ASSUME NEW j \in at  PROVE UpTo(j, k)
  <2>1. j \in StreamID /\ j \in s.index /\ UpTo(j, id)
    BY NodesOf
  <2>2. ~Before(k, j)
    <3> SUFFICES ASSUME Before(k, j)  PROVE FALSE
      OBVIOUS
    <3>1. Before(s.tree[k].last_id, j)
      BY <2>1 DEF StreamOK
    <3> QED  BY <1>1, <2>1, <3>1, IdOrder DEF UpTo
  <2> QED  BY <1>1, <2>1, <2>2, IdOrder DEF UpTo
<1>3. ASSUME NEW j \in at, \A i \in at : UpTo(i, j)  PROVE j = k
  <2>1. UpTo(j, k) /\ UpTo(k, j) /\ j \in StreamID
    BY <1>1, <1>2, <1>3, NodesOf
  <2> QED  BY <1>1, <2>1, IdOrder DEF UpTo
<1>4. get_floor_key(s, id) = Greatest(at)
  BY <1>1 DEF get_floor_key
<1> HIDE DEF at
<1> QED  BY <1>1, <1>2, <1>3, <1>4 DEF Greatest

\* The walk through a listpack: what it returns, if anything, is under the ID it looks
\* for; and an entry is returned exactly if no unreadable one comes up to it.
LEMMA WalkFinds ==
  ASSUME NEW node \in StreamNode, NEW k \in StreamID, NodeOK(node, k), NEW id \in StreamID
  PROVE  LET lp == node.lp
         IN  /\ find_entry_in_listpack(lp, id) # None =>
                  \E e \in PackEntries(lp) : e.id = id
             /\ \A e \in PackEntries(lp) : e.id = id =>
                  find_entry_in_listpack(lp, id) = IF Hidden(lp, id) THEN None ELSE e.fields
<1> DEFINE lp == node.lp
           es == lp.entries
           n == Len(es)
           Stops(i) == es[i].id = id \/ Unreadable(es[i])
           stops == {i \in 1..n : Stops(i)}
           first == CHOOSE i \in stops : \A j \in stops : i <= j
<1>1. /\ n \in Nat
      /\ \A i \in 1..n : es[i] \in PackEntries(lp) /\ es[i].id \in StreamID
      /\ \A i, j \in 1..n : i < j => Before(es[i].id, es[j].id)
  BY NodeSpan, EntryIds DEF NodeOK, PackEntries
<1>2. find_entry_in_listpack(lp, id) =
        IF stops = {} \/ Unreadable(es[first]) THEN None ELSE es[first].fields
  BY DEF find_entry_in_listpack
<1>3. stops # {} => first \in stops /\ \A j \in stops : first <= j
  <2>1. stops \in SUBSET Nat
    BY <1>1
  <2> HIDE DEF stops
  <2> QED  BY <2>1, SmallestOf
<1>4. \A e \in PackEntries(lp) : \E i \in 1..n : e = es[i]
  BY DEF PackEntries
<1> HIDE DEF lp, es, n, first
<1>5. ASSUME find_entry_in_listpack(lp, id) # None
      PROVE  \E e \in PackEntries(lp) : e.id = id
  <2>1. first \in 1..n /\ es[first].id = id
    BY <1>2, <1>3, <1>5
  <2> QED  BY <1>1, <2>1
<1>6. ASSUME NEW e \in PackEntries(lp), e.id = id
      PROVE  find_entry_in_listpack(lp, id) = IF Hidden(lp, id) THEN None ELSE e.fields
  <2>1. PICK i \in 1..n : e = es[i]
    BY <1>4
  <2>2. i \in stops
    BY <1>6, <2>1
  <2>3. first \in 1..n /\ first <= i /\ Stops(first)
    BY <1>3, <2>2
  <2> HIDE DEF stops
  <2>4. first = i \/ first < i
    BY <1>1, <2>3
  <2>5. UpTo(es[first].id, id)
    BY <1>1, <1>6, <2>1, <2>3, <2>4 DEF UpTo
  <2>6. CASE Unreadable(es[first])
    <3>1. Hidden(lp, id)
      BY <1>1, <2>3, <2>5, <2>6 DEF Hidden
    <3> QED  BY <1>2, <2>6, <3>1
  <2>7. CASE ~Unreadable(es[first])
    <3>1. es[first].id = id
      BY <2>3, <2>7
    <3>2. first = i
      BY <1>1, <1>6, <2>1, <2>3, <2>4, <3>1, IdOrder
    <3>3. ~Hidden(lp, id)
      <4> SUFFICES ASSUME NEW x \in PackEntries(lp), Unreadable(x), UpTo(x.id, id)
                   PROVE  FALSE
        BY DEF Hidden
      <4>1. PICK j \in 1..n : x = es[j]
        BY <1>4
      <4>2. j \in stops
        BY <4>1 DEF stops
      <4>3. i <= j /\ (i = j \/ i < j)
        BY <1>1, <1>3, <2>2, <3>2, <4>2
      <4>4. i # j
        BY <2>7, <3>2, <4>1
      <4>5. Before(id, x.id)
        BY <1>1, <1>6, <2>1, <4>1, <4>3, <4>4
      <4> QED  BY <1>1, <4>1, <4>5, IdOrder DEF UpTo
    <3> QED  BY <1>2, <2>1, <2>2, <2>7, <3>2, <3>3
  <2> QED  BY <2>6, <2>7
<1> QED  BY <1>5, <1>6 DEF lp

\* In a stream of that shape get finds each entry of each node by its ID, exactly if no
\* entry of the same node up to it has an ID word that spells a number, and it finds
\* nothing under an ID that was not added.
THEOREM GetFinds ==
  ASSUME NEW s \in Stream, StreamOK(s)
  PROVE  /\ \A n \in {j \in StreamID : s.tree[j] # None} :
              \A e \in PackEntries(s.tree[n].lp) :
                 get_entry(s, e.id) = IF Hidden(s.tree[n].lp, e.id) THEN None ELSE e.fields
         /\ \A id \in StreamID : get_entry(s, id) # None => \E e \in EntriesOf(s) : e.id = id
<1>1. \A e : e \in EntriesOf(s) <=> \E k \in s.index : e \in PackEntries(s.tree[k].lp)
  BY DEF EntriesOf, StreamOK
<1>2. \A k \in s.index : /\ k \in StreamID /\ s.tree[k] \in StreamNode /\ s.tree[k] # None
                         /\ NodeOK(s.tree[k], k) /\ s.tree[k].last_id \in StreamID
  BY NodesOf, StreamsAssumption
<1>3. ASSUME NEW k \in {j \in StreamID : s.tree[j] # None},
             NEW e \in PackEntries(s.tree[k].lp)
      PROVE  get_entry(s, e.id) = IF Hidden(s.tree[k].lp, e.id) THEN None ELSE e.fields
  <2>1. k \in s.index
    BY DEF StreamOK
  <2> DEFINE node == s.tree[k]
  <2>2. /\ k \in StreamID /\ node \in StreamNode /\ node # None /\ NodeOK(node, k)
        /\ UpTo(e.id, node.last_id) /\ e.id \in StreamID
    BY <1>2, <2>1, NodeSpan, EntryIds
  <2>3. UpTo(k, e.id)
    <3>1. PICK i \in 1..Len(node.lp.entries) : e = node.lp.entries[i]
      BY DEF PackEntries
    <3>2. /\ Len(node.lp.entries) \in Nat \ {0} /\ node.lp.entries[1].id = k
          /\ \A j, l \in 1..Len(node.lp.entries) :
                j < l => Before(node.lp.entries[j].id, node.lp.entries[l].id)
      BY <2>2, NodeSpan DEF NodeOK
    <3> HIDE DEF node
    <3>3. i = 1 \/ (1 \in 1..Len(node.lp.entries) /\ 1 < i)
      BY <3>2
    <3> QED  BY <3>1, <3>2, <3>3 DEF UpTo
  <2>4. get_floor_key(s, e.id) = k
    BY <2>1, <2>2, <2>3, FloorIsNode
  <2>5. get_entry(s, e.id) = find_entry_in_listpack(node.lp, e.id)
    BY <2>2, <2>4, StreamsAssumption DEF get_entry
  <2>6. find_entry_in_listpack(node.lp, e.id) =
          IF Hidden(node.lp, e.id) THEN None ELSE e.fields
    BY <2>2, WalkFinds
  <2> QED  BY <2>5, <2>6
<1>4. ASSUME NEW id \in StreamID, get_entry(s, id) # None
      PROVE  \E e \in EntriesOf(s) : e.id = id
  <2> DEFINE k == get_floor_key(s, id)
  <2>1. k # None /\ s.tree[k] # None /\ find_entry_in_listpack(s.tree[k].lp, id) # None
    BY <1>4 DEF get_entry
  <2>2. k \in s.index
    <3> DEFINE at == {j \in s.index : UpTo(j, id)}
    <3>1. k = Greatest(at) /\ at # {}
      BY <2>1 DEF get_floor_key
    <3>2. at \in SUBSET StreamID
      BY <1>2
    <3> HIDE DEF at, k
    <3>3. k \in at
      BY <3>1, <3>2, GreatestIs
    <3> QED  BY <3>3 DEF at
  <2>3. \E e \in PackEntries(s.tree[k].lp) : e.id = id
    BY <1>2, <2>1, <2>2, WalkFinds
  <2> QED  BY <1>1, <2>2, <2>3
<1> QED  BY <1>3, <1>4
=============================================================================
