--------------------------- MODULE ServerRefines ---------------------------
(***************************************************************************)
(* What the server looks like to its clients: three abstract               *)
(* specifications that Server implements, each under the refinement        *)
(* mapping of its INSTANCE.                                                *)
(***************************************************************************)
EXTENDS Server

-----------------------------------------------------------------------------
\* What the handler of GET replies for k if it runs now.
GetReply(k) ==
  LET reply == get([cmd |-> "GET", key |-> k], ContextOf(1), now).reply
  IN  [tag |-> reply.tag, body |-> reply.body]

Keyspace == INSTANCE ExpiringStore
  WITH map    <- db,
       clock  <- now,
       answer <- [k \in Key |-> GetReply(k)]

\* The heap, the bounded sweep, the lazy removal by GET and the overwriting of keys
\* by other types amount to a store that answers GET with every entry up to the
\* instant of its expiry and never from then on.  (TYPE, LLEN, LRANGE and LPOP read
\* the map without looking at the expiry: they are not among its answers.)
KeyspaceIsExpiringStore == Keyspace!Spec

-----------------------------------------------------------------------------
Pops(w) == {i \in 1..Len(w) : w[i].cmd = "BLPOP" /\ w[i].tag = "array"}

Nth(S, n) == CHOOSE i \in S : Cardinality({j \in S : j <= i}) = n

\* The elements that the replies w hand over, in their order.
Elements(w) ==
  LET pop == [n \in 1..Cardinality(Pops(w)) |-> w[Nth(Pops(w), n)]]
  IN  [n \in DOMAIN pop |-> <<pop[n].about, Head(pop[n].body)>>]

\* The elements that are on their way to t: popped for it, not yet sent.
Handed(t) == Elements(conns[t].write_buffer)

Lines == INSTANCE BlockingQueue
  WITH Client <- Token,
       items  <- [k \in Key |-> Items(db, k)],
       line   <- blocked_queues,
       hand   <- [t \in Token |-> Handed(t)]

\* Wait queues of tokens, the pop inside the push's event and the write buffers
\* amount to lines that are served first come, first served, each element going to
\* one client, as long as no BLPOP has a timeout and every push brings one element.
\* (One that brings two to two clients leaves the second in line with an element on
\* the list, which a newcomer may take.)
BlpopIsFifo == Lines!Spec

-----------------------------------------------------------------------------
EntriesAt(k) == IF IsStream(db, k) THEN EntriesOf(db[k].value.data) ELSE {}

Log == INSTANCE StreamLog
  WITH log   <- [k \in Key |-> EntriesAt(k)],
       other <- {k \in Key : Present(db, k) /\ ~IsStream(db, k)}

\* Nodes, index and last_id amount to a log per key that only grows, in the order
\* of its IDs, however the IDs are given or generated.
StreamsAreLogs == Log!Spec

-----------------------------------------------------------------------------
(* Further properties of streams.                                          *)

\* Every stream is in the shape that XADD relies on: the index and the tree hold the
\* same keys, nodes do not overlap, last_id is the last ID of the last node.
StreamsWellFormed ==
  \A k \in Key : IsStream(db, k) => StreamOK(db[k].value.data)

\* An entry is found by its ID, with its own fields, unless an ID word that spells a
\* number stops the walk through its own node at or before it; and an ID that was
\* never added is not found.
EntriesFound ==
  \A k \in Key : IsStream(db, k) =>
    LET s == db[k].value.data
    IN  /\ \A n \in {j \in StreamID : s.tree[j] # None} :
             \A e \in PackEntries(s.tree[n].lp) :
                get_entry(s, e.id) = IF Hidden(s.tree[n].lp, e.id) THEN None ELSE e.fields
        /\ \A id \in StreamID : get_entry(s, id) # None => \E e \in EntriesOf(s) : e.id = id

\* XADD with a generated ID is refused only if the clock is behind the last entry, or
\* the last entry used up the sequence numbers of its millisecond.
GeneratedIdFits ==
  \A t \in slab, r \in Requests :
    r.cmd = "XADD" /\ r.id.form = "*" /\ IsStream(db, r.key) =>
      LET last == db[r.key].value.data.last_id
      IN  Execute(r, ContextOf(t), now).reply.tag = "error" =>
            \/ conns[t].is_pubsub
            \/ r.id.ms < last.ms
            \/ r.id.ms = last.ms /\ last.seq = MaxWord

\* No stream holds an entry with the ID 0-0.
NoZeroId == \A k \in Key : \A e \in EntriesAt(k) : e.id # ZeroID
=============================================================================
