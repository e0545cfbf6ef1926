----------------------------- MODULE StoreProofs -----------------------------
(***************************************************************************)
(* What the keyspace promises to its clients, proved for every number of   *)
(* clients and keys: streams keep their shape and are append-only logs,    *)
(* the keyspace is a store whose entries vanish on their expiry, no client *)
(* stays blocked on a list that has elements, and who subscribes to a      *)
(* channel is registered there.                                            *)
(***************************************************************************)
EXTENDS ServerRefines, ServerProofs

LEMMA AbsentIsNothing ==
  /\ Absent.expiry = None
  /\ \A e \in Entry : e # Absent
<1>1. Absent.expiry = None /\ Absent.value = None
  BY DEF Absent
<1>2. \A e \in Entry : e.value # None
  BY CommandsAssumption DEF Entry
<1> QED  BY <1>1, <1>2

\* What an entry of the keyspace may have as its expiry.
LEMMA ExpiryType ==
  ASSUME NEW d \in DB, NEW k \in Key
  PROVE  d[k].expiry \in Nat \cup {None} /\ (d[k] # Absent => d[k] \in Entry)
<1>1. d[k] \in Entry \/ d[k] = Absent
  BY DEF DB
<1> QED  BY <1>1, AbsentIsNothing DEF Entry

\* At the top of the loop nothing goes but what has expired.
LEMMA SweepKeeps ==
  ASSUME TypeInv, LoopTop, NEW k \in Key
  PROVE  \/ db'[k] = db[k]
         \/ db'[k] = Absent /\ Expired(db[k], now)
<1>1. PICK swept \in Sweeps : db' = cleanup_expired(swept)
  BY DEF LoopTop
<1>2. \A x \in swept : x[1] <= now
  BY <1>1 DEF Sweeps
<1>3. db[k].expiry \in Nat \cup {None} /\ now \in Nat
  BY ExpiryType DEF TypeInv, TypeOK
<1> QED  BY <1>1, <1>2, <1>3 DEF cleanup_expired, Expired

\* So streams stay, and the heap of expiries never reaches them.
LEMMA StreamsUnswept ==
  ASSUME TypeInv, StoreInv, NEW k \in Key, IsStream(db, k)
  PROVE  ~Expired(db[k], now)
BY DEF StoreInv, OnlyStringsExpire, Expired

-----------------------------------------------------------------------------
(* The shape of streams.                                                   *)

\* The stream that XADD starts from: one in its shape, or a new one.
LEMMA StreamAtShape ==
  ASSUME NEW d, NEW k \in Key, IsStream(d, k) => StreamOK(d[k].value.data)
  PROVE  Begins(StreamAt(d, k)) \/ StreamOK(StreamAt(d, k))
BY DEF StreamAt, Begins

LEMMA RunsWellFormed ==
  ASSUME TypeInv, StreamsWellFormed, NEW e, NEW n, NEW cut, Runs(e, n, cut)
  PROVE  StreamsWellFormed'
<1> DEFINE r == Head(Buffer(e.token, n, cut))
<1> SUFFICES ASSUME NEW k \in Key, IsStream(db', k)
             PROVE  StreamOK(db'[k].value.data)
  BY DEF StreamsWellFormed
<1>1. KeyStep(r, db, db', expiries', k, now)
  BY DEF Runs, StoreStep
<1> HIDE DEF r
<1>2. IsStream(db, k) => StreamOK(db[k].value.data)
  BY DEF StreamsWellFormed
<1>3. CASE db'[k] = db[k]
  BY <1>2, <1>3 DEF IsStream, Present
<1>4. CASE StreamStep(r, db, db'[k], k)
  <2>1. PICK id \in StreamID, fields \in Seq(Data) :
           /\ IsNewer(StreamAt(db, k), id)
           /\ db'[k].value.data = add(StreamAt(db, k), id, fields)
    BY <1>4 DEF StreamStep
  <2>2. StreamAt(db, k) \in Stream
    BY StreamAtType DEF TypeInv, TypeOK
  <2>3. Begins(StreamAt(db, k)) \/ StreamOK(StreamAt(db, k))
    BY <1>2, StreamAtShape
  <2> QED  BY <2>1, <2>2, <2>3, AddKeepsShape
<1>5. CASE ~(db'[k] = db[k] \/ StreamStep(r, db, db'[k], k))
  BY <1>1, <1>5 DEF KeyStep, StringStep, ListStep, IsStream, Present
<1> QED  BY <1>3, <1>4, <1>5

LEMMA SweepWellFormed ==
  ASSUME TypeInv, StreamsWellFormed, LoopTop
  PROVE  StreamsWellFormed'
<1> SUFFICES ASSUME NEW k \in Key, IsStream(db', k)
             PROVE  StreamOK(db'[k].value.data)
  BY DEF StreamsWellFormed
<1>1. db'[k] = db[k]
  BY SweepKeeps DEF IsStream, Present
<1> QED  BY <1>1 DEF StreamsWellFormed, IsStream, Present

LEMMA WellFormedNext == TypeInv /\ StreamsWellFormed /\ [Next]_vars => StreamsWellFormed'
<1> SUFFICES ASSUME TypeInv, StreamsWellFormed, [Next]_vars  PROVE StreamsWellFormed'
  OBVIOUS
<1>1. CASE UNCHANGED <<db, expiries>>
  BY <1>1 DEF StreamsWellFormed
<1>2. ASSUME NEW e, EventRuns(e)  PROVE StreamsWellFormed'
  BY <1>2, RunsWellFormed DEF EventRuns
<1> QED  BY <1>1, <1>2, StoreNext, SweepWellFormed

LEMMA WellFormedInit == Init => StreamsWellFormed
BY DEF Init, StreamsWellFormed, IsStream, Present

\* However many entries were added, by whatever IDs, in whatever order of commands:
\* index and tree of every stream agree, and its nodes do not overlap.
THEOREM StreamsInShape == Spec => []StreamsWellFormed
BY TypeInvariant, WellFormedInit, WellFormedNext, PTL DEF Spec

\* An entry that XADD acknowledged is found by its ID, exactly if no ID word up to it in
\* its own node spells a number, and nothing is found under an ID that no XADD was given.
THEOREM EntriesAreFound == Spec => []EntriesFound
<1>1. TypeInv /\ StreamsWellFormed => EntriesFound
  <2> SUFFICES ASSUME TypeInv, StreamsWellFormed, NEW k \in Key, IsStream(db, k)
               PROVE  LET s == db[k].value.data
                      IN  /\ \A n \in {j \in StreamID : s.tree[j] # None} :
                               \A e \in PackEntries(s.tree[n].lp) :
                                  get_entry(s, e.id) =
                                    IF Hidden(s.tree[n].lp, e.id) THEN None ELSE e.fields
                          /\ \A id \in StreamID : get_entry(s, id) # None =>
                               \E e \in EntriesOf(s) : e.id = id
    BY DEF EntriesFound
  <2>1. StreamAt(db, k) = db[k].value.data /\ StreamAt(db, k) \in Stream
    BY StreamAtType DEF TypeInv, TypeOK, StreamAt
  <2>2. StreamOK(db[k].value.data)
    BY DEF StreamsWellFormed
  <2> QED  BY <2>1, <2>2, GetFinds
<1> QED  BY <1>1, TypeInvariant, StreamsInShape, PTL

\* The sequence number that follows last is greater, unless it wrapped.
LEMMA SeqAfterIs ==
  ASSUME NEW last \in StreamID
  PROVE  last.seq = MaxWord \/ (SeqAfter(last) = last.seq + 1 /\ last.seq < SeqAfter(last))
<1>1. MaxWord \in Nat /\ last.seq \in Nat /\ last.seq <= MaxWord
  BY StreamsAssumption DEF StreamID, Word
<1>2. ASSUME NEW n \in Nat, NEW m \in Nat, n < m
      PROVE  n % m = n
  BY <1>2, SMTT(30)
<1>3. CASE last.seq < MaxWord
  <2>1. (last.seq + 1) % (MaxWord + 1) = last.seq + 1
    BY <1>1, <1>2, <1>3
  <2> QED  BY <1>1, <2>1 DEF SeqAfter, Wrapped
<1> QED  BY <1>1, <1>3

\* A client that leaves the ID to the server is refused only when the clock runs
\* behind the last entry or the millisecond of that entry is full.
THEOREM GeneratedIdsFit == Spec => []GeneratedIdFits
<1>1. TypeInv /\ StreamsWellFormed => GeneratedIdFits
  <2> SUFFICES ASSUME TypeInv, StreamsWellFormed, NEW t \in slab, NEW r \in Requests,
                      r.cmd = "XADD", r.id.form = "*", IsStream(db, r.key),
                      Execute(r, ContextOf(t), now).reply.tag = "error", ~conns[t].is_pubsub
               PROVE  LET last == db[r.key].value.data.last_id
                      IN  \/ r.id.ms < last.ms
                          \/ r.id.ms = last.ms /\ last.seq = MaxWord
    BY DEF GeneratedIdFits
  <2> DEFINE ctx == ContextOf(t)
             s == db[r.key].value.data
             last == s.last_id
             seq == IF last.ms = r.id.ms THEN SeqAfter(last) ELSE 0
             id == [ms |-> r.id.ms, seq |-> seq]
  <2>1. /\ r \in Request /\ r.key \in Key /\ r.id \in IDText /\ r.fields \in Seq(Data)
        /\ ctx.db = db /\ ~ctx.is_pubsub
    BY ServerAssumption, RequestFields DEF ContextOf
  <2>2. StreamAt(db, r.key) = s /\ s \in Stream /\ StreamOK(s)
    BY <2>1, StreamAtType DEF TypeInv, TypeOK, StreamAt, StreamsWellFormed
  <2>3. last \in StreamID /\ last # None
    BY <2>2, NodesOf, StreamsAssumption
  <2>4. r.id.ms \in Nat /\ last.ms \in Nat /\ last.seq \in Nat
    BY <2>1, <2>3, StreamsAssumption DEF IDText, StreamID, Word
  <2> HIDE DEF ctx, last, seq, id
  <2>5. xadd(r, ctx).reply.tag = "error"
    BY <2>1 DEF Execute, ctx, PUBSUB_HANDLER
  <2>6. ~IsZeroText(r.id) /\ parse(r.id, last) = Parsed(r.id.ms, seq)
    BY DEF IsZeroText, parse, seq
  <2>7. parse(r.id, last).error = None /\ parse(r.id, last).id = id
    BY <2>6 DEF Parsed, id
  <2>8. \A tag : Err(ctx, ReplyOf(r, tag)).reply.tag = tag
    BY DEF Err, Result, ReplyOf
  <2>9. \A c : Ok(c, ReplyOf(r, "bulk")).reply.tag = "bulk"
    BY DEF Ok, Result, ReplyOf
  <2>10. ~IsNewer(s, id)
    BY <2>1, <2>2, <2>3, <2>5, <2>6, <2>7, <2>8, <2>9 DEF xadd, last
  <2>11. ~Before(last, id) /\ id.ms = r.id.ms /\ id.seq = seq
    BY <2>10 DEF IsNewer, last, id
  <2>12. CASE r.id.ms = last.ms
    <3>1. seq = SeqAfter(last) /\ ~(last.seq < seq)
      BY <2>11, <2>12 DEF Before, seq
    <3> QED  BY <2>3, <2>12, <3>1, SeqAfterIs DEF last
  <2>13. CASE r.id.ms # last.ms
    BY <2>4, <2>11, <2>13 DEF Before, last
  <2> QED  BY <2>12, <2>13
<1> QED  BY <1>1, TypeInvariant, StreamsInShape, PTL

-----------------------------------------------------------------------------
(* Streams are logs.                                                       *)

LEMMA NewStreamEmpty == EntriesOf(NewStream) = {}
BY DEF EntriesOf, NewStream

LEMMA EntriesAtIs ==
  ASSUME NEW k \in Key
  PROVE  EntriesAt(k) = EntriesOf(StreamAt(db, k))
BY NewStreamEmpty DEF EntriesAt, StreamAt

LEMMA EntriesAtSame ==
  ASSUME NEW k \in Key, db'[k] = db[k] \/ (~IsStream(db, k) /\ ~IsStream(db', k))
  PROVE  EntriesAt(k)' = EntriesAt(k)
BY DEF EntriesAt, IsStream, Present

\* When a request changes a key, it is its own, and it changes no other.
LEMMA RunsOneKey ==
  ASSUME NEW e, NEW n, NEW cut, Runs(e, n, cut), NEW k \in Key, db'[k] # db[k]
  PROVE  /\ \A j \in Key \ {k} : db'[j] = db[j]
         /\ LET r == Head(Buffer(e.token, n, cut))
            IN  \/ db'[k] = Absent /\ Expired(db[k], now)
                \/ StringStep(r, db'[k], expiries', k, now)
                \/ ListStep(db, db'[k], k)
                \/ StreamStep(r, db, db'[k], k)
<1> DEFINE r == Head(Buffer(e.token, n, cut))
<1>1. \A j \in Key : KeyStep(r, db, db', expiries', j, now)
  BY DEF Runs, StoreStep
<1> HIDE DEF r
<1>2. r.key = k
  BY <1>1 DEF KeyStep
<1>3. \A j \in Key \ {k} : db'[j] = db[j]
  BY <1>1, <1>2 DEF KeyStep
<1>4. \/ db'[k] = Absent /\ Expired(db[k], now)
      \/ StringStep(r, db'[k], expiries', k, now)
      \/ ListStep(db, db'[k], k)
      \/ StreamStep(r, db, db'[k], k)
  BY <1>1 DEF KeyStep
<1> QED  BY <1>3, <1>4 DEF r

LogOf == [k \in Key |-> EntriesAt(k)]

OtherAt(d, k) == Present(d, k) /\ ~IsStream(d, k)

OthersOf == {k \in Key : OtherAt(db, k)}

\* What Log!Vanish needs: no log changes, and values of other types only go.
LEMMA LogVanishes ==
  ASSUME \A k \in Key : \/ db'[k] = db[k]
                        \/ db'[k] = Absent /\ ~IsStream(db, k)
  PROVE  Log!Vanish
<1>1. ASSUME NEW k \in Key
      PROVE  EntriesAt(k)' = EntriesAt(k) /\ (OtherAt(db', k) => OtherAt(db, k))
  <2>1. db'[k] = Absent => ~IsStream(db', k) /\ ~OtherAt(db', k)
    BY DEF IsStream, OtherAt, Present
  <2> QED  BY <2>1, EntriesAtSame DEF OtherAt, IsStream, Present
<1>2. LogOf' = LogOf /\ OthersOf' \subseteq OthersOf
  BY <1>1 DEF LogOf, OthersOf
<1> QED  BY <1>2 DEF Log!Vanish, LogOf, OthersOf, OtherAt

LEMMA LogAdds ==
  ASSUME TypeInv, StreamsWellFormed, NEW k \in Key, NEW r, StreamStep(r, db, db'[k], k),
         \A j \in Key \ {k} : db'[j] = db[j]
  PROVE  \E x \in LogOf'[k] : Log!Add(k, x)
<1> DEFINE s == StreamAt(db, k)
<1>1. PICK id \in StreamID, fields \in Seq(Data) :
         IsNewer(s, id) /\ db'[k].value.data = add(s, id, fields)
  BY DEF StreamStep
<1>2. s \in Stream
  BY StreamAtType DEF TypeInv, TypeOK
<1>3. Begins(s) \/ StreamOK(s)
  BY StreamAtShape DEF StreamsWellFormed
<1> HIDE DEF s
<1> DEFINE x == [id |-> id, fields |-> fields]
<1>4. /\ EntriesOf(add(s, id, fields)) = EntriesOf(s) \cup {x}
      /\ \A y \in EntriesOf(s) : Before(y.id, id)
  BY <1>1, <1>2, <1>3, AddEntries
<1>5. x.id = id
  OBVIOUS
<1> HIDE DEF x
<1>6. EntriesAt(k) = EntriesOf(s)
  BY EntriesAtIs DEF s
<1>7. EntriesAt(k)' = EntriesOf(s) \cup {x}
  <2>1. IsStream(db', k)
    BY AbsentIsNothing DEF StreamStep, IsStream, Present
  <2> QED  BY <1>1, <1>4, <2>1 DEF EntriesAt
<1>8. \A j \in Key \ {k} : EntriesAt(j)' = EntriesAt(j)
  BY EntriesAtSame
<1>9. LogOf' = [LogOf EXCEPT ![k] = LogOf[k] \cup {x}]
  BY <1>6, <1>7, <1>8 DEF LogOf
<1>10. \A y \in LogOf[k] : Log!Later(x.id, y.id)
  <2>1. ASSUME NEW y \in EntriesOf(s)  PROVE Log!Later(id, y.id)
    <3>1. Before(y.id, id)
      BY <1>4
    <3>2. y.id \in StreamID
      <4>1. PICK j \in StreamID : s.tree[j] # None /\ y \in PackEntries(s.tree[j].lp)
        BY DEF EntriesOf
      <4>2. s.tree[j] \in StreamNode
        BY <1>2, <4>1 DEF Stream
      <4> QED  BY <4>1, <4>2, EntryIds
    <3>3. /\ y.id.ms \in Nat /\ y.id.seq \in Nat /\ id.ms \in Nat /\ id.seq \in Nat
      BY <3>2, StreamsAssumption DEF StreamID, Word
    <3> QED  BY <3>1, <3>3 DEF Before, Log!Later
  <2> QED  BY <1>5, <1>6, <2>1 DEF LogOf
<1>11. x \in LogOf'[k]
  BY <1>7 DEF LogOf
<1>12. OthersOf' = OthersOf \ {k}
  <2>1. ~OtherAt(db', k)
    BY DEF StreamStep, OtherAt, IsStream
  <2>2. \A j \in Key \ {k} : OtherAt(db', j) <=> OtherAt(db, j)
    BY DEF OtherAt, IsStream, Present
  <2> QED  BY <2>1, <2>2 DEF OthersOf
<1> QED  BY <1>9, <1>10, <1>11, <1>12 DEF Log!Add, LogOf, OthersOf, OtherAt

LEMMA LogInit == Init => Log!Init
BY DEF Init, Log!Init, EntriesAt, IsStream, Present

LEMMA LogRuns ==
  ASSUME TypeInv, StoreInv, StreamsWellFormed, NEW e, EventRuns(e)
  PROVE  Log!Next
<1>1. PICK n \in 0..Len(socks[e.token].inbox), cut \in BOOLEAN : Runs(e, n, cut)
  BY DEF EventRuns
<1>2. CASE \A k \in Key : db'[k] = db[k]
  BY <1>2, LogVanishes DEF Log!Next
<1>3. ASSUME NEW k \in Key, db'[k] # db[k]
      PROVE  Log!Next
  <2> DEFINE r == Head(Buffer(e.token, n, cut))
  <2>1. /\ \A j \in Key \ {k} : db'[j] = db[j]
        /\ \/ db'[k] = Absent /\ Expired(db[k], now)
           \/ StringStep(r, db'[k], expiries', k, now)
           \/ ListStep(db, db'[k], k)
           \/ StreamStep(r, db, db'[k], k)
    BY <1>1, <1>3, RunsOneKey
  <2> HIDE DEF r
  <2>2. CASE db'[k] = Absent /\ Expired(db[k], now)
    <3>1. ~IsStream(db, k)
      BY <2>2, StreamsUnswept
    <3> QED  BY <2>1, <2>2, <3>1, LogVanishes DEF Log!Next
  <2>3. CASE StringStep(r, db'[k], expiries', k, now) \/ ListStep(db, db'[k], k)
    <3>1. OtherAt(db', k)
      BY <2>3, AbsentIsNothing DEF StringStep, ListStep, OtherAt, IsStream, Present
    <3>2. EntriesAt(k)' = {}
      BY <3>1 DEF OtherAt, EntriesAt
    <3>3. \A j \in Key \ {k} : /\ EntriesAt(j)' = EntriesAt(j)
                               /\ OtherAt(db', j) <=> OtherAt(db, j)
      BY <2>1, EntriesAtSame DEF OtherAt, IsStream, Present
    <3>4. LogOf' = [LogOf EXCEPT ![k] = {}] /\ OthersOf' = OthersOf \cup {k}
      BY <3>1, <3>2, <3>3 DEF LogOf, OthersOf
    <3> QED  BY <3>4 DEF Log!Next, Log!Overwrite, LogOf, OthersOf, OtherAt
  <2>4. CASE StreamStep(r, db, db'[k], k)
    BY <2>1, <2>4, LogAdds DEF Log!Next, LogOf
  <2> QED  BY <2>1, <2>2, <2>3, <2>4
<1> QED  BY <1>2, <1>3

LEMMA LogNext ==
  TypeInv /\ StoreInv /\ StreamsWellFormed /\ [Next]_vars => [Log!Next]_Log!vars
<1> SUFFICES ASSUME TypeInv, StoreInv, StreamsWellFormed, [Next]_vars
             PROVE  Log!Next
  OBVIOUS
<1>1. CASE UNCHANGED <<db, expiries>>
  BY <1>1, LogVanishes DEF Log!Next
<1>2. CASE LoopTop
  <2>1. \A k \in Key : \/ db'[k] = db[k]
                       \/ db'[k] = Absent /\ ~IsStream(db, k)
    BY <1>2, SweepKeeps, StreamsUnswept
  <2> QED  BY <2>1, LogVanishes DEF Log!Next
<1> QED  BY <1>1, <1>2, StoreNext, LogRuns

\* Whatever is sent, a stream is an append-only log: every entry has a greater ID than
\* all before it, none is changed or lost until its key is given another type.
THEOREM StreamsImplementLogs == Spec => StreamsAreLogs
<1>1. Spec => []TypeInv /\ []StoreInv /\ []StreamsWellFormed
  BY TypeInvariant, StoreInvariant, StreamsInShape
<1>2. Spec => Log!Spec
  BY <1>1, LogInit, LogNext, PTL DEF Spec, Log!Spec
<1> QED  BY <1>2 DEF StreamsAreLogs

-----------------------------------------------------------------------------
(* What is read was sent: the rest of a cut request, or one of Requests.   *)

Known == Requests \cup {Part}

RequestsOnly ==
  \A t \in Token : conns[t].read_buffer \in Seq(Known) /\ socks[t].inbox \in Seq(Known)

\* What a step does to the bytes that t has sent.
OnlyKnown(c, s) == c.read_buffer \in Seq(Known) /\ s.inbox \in Seq(Known)

LEMMA ConnectionRecords ==
  ASSUME TypeInv, NEW t \in Token
  PROVE  conns[t] \in Connection /\ socks[t] \in Socket
BY DEF TypeInv, TypeOK

LEMMA KeptBytes ==
  ASSUME NEW c \in Connection, NEW s \in Socket, NEW msgs
  PROVE  /\ Queued(c, msgs).read_buffer = c.read_buffer
         /\ Queued(Unblocked(c), msgs).read_buffer = c.read_buffer
         /\ WrittenConn(c, s).read_buffer = c.read_buffer
         /\ Announced(c, s, msgs).inbox = s.inbox
         /\ WrittenSock(c, s).inbox = s.inbox
         /\ NewConnection.read_buffer = << >> /\ NewSocket.inbox = << >>
<1>1. /\ Queued(c, msgs).read_buffer = c.read_buffer
      /\ WrittenConn(c, s).read_buffer = c.read_buffer
  BY DEF Queued, WrittenConn, Connection
<1>2. Queued(Unblocked(c), msgs).read_buffer = c.read_buffer
  BY UnblockedType DEF Queued, Unblocked, Connection
<1>3. \A want : reregister(s, want).inbox = s.inbox
  BY DEF reregister, Socket
<1>4. Announced(c, s, msgs).inbox = s.inbox
  BY <1>3 DEF Announced
<1>5. WrittenSock(c, s).inbox = s.inbox
  <2> DEFINE n == Accepted(c, s)
             sent2 == IF s.eof THEN s
                      ELSE [s EXCEPT !.outbox = @ \o SubSeq(c.write_buffer, 1, n)]
  <2>1. WrittenSock(c, s) = IF n = Len(c.write_buffer) THEN reregister(sent2, FALSE) ELSE sent2
    BY DEF WrittenSock
  <2>2. sent2.inbox = s.inbox /\ \A want : reregister(sent2, want).inbox = s.inbox
    BY DEF reregister, Socket
  <2> HIDE DEF sent2, n
  <2> QED  BY <2>1, <2>2
<1>6. NewConnection.read_buffer = << >> /\ NewSocket.inbox = << >>
  BY DEF NewConnection, NewSocket
<1> QED  BY <1>1, <1>2, <1>4, <1>5, <1>6

LEMMA FinishKnown ==
  ASSUME TypeInv, RequestsOnly, NEW e \in Event, NEW c \in Connection, NEW s \in Socket,
         OnlyKnown(c, s), NEW out, NEW woken, Finish(e, c, s, out, woken)
  PROVE  RequestsOnly'
<1> DEFINE t == e.token
           others(x) == Queued(IF x = woken THEN Unblocked(conns[x]) ELSE conns[x], out[x])
<1> SUFFICES ASSUME NEW x \in Token  PROVE OnlyKnown(conns'[x], socks'[x])
  BY DEF RequestsOnly, OnlyKnown
<1>1. conns[x] \in Connection /\ socks[x] \in Socket /\ OnlyKnown(conns[x], socks[x])
  BY ConnectionRecords DEF RequestsOnly, OnlyKnown
<1>2. OnlyKnown(others(x), Announced(conns[x], socks[x], out[x]))
  BY <1>1, KeptBytes DEF OnlyKnown
<1>3. OnlyKnown(NewConnection, NewSocket)
  BY KeptBytes, EmptySeq DEF OnlyKnown
<1>4. OnlyKnown(WrittenConn(c, s), WrittenSock(c, s))
  BY KeptBytes DEF OnlyKnown
<1>5. \/ /\ conns'[x] = IF x = t THEN NewConnection ELSE others(x)
         /\ socks'[x] = IF x = t THEN NewSocket ELSE Announced(conns[x], socks[x], out[x])
      \/ /\ conns'[x] = IF x # t THEN others(x)
                        ELSE IF e.writable THEN WrittenConn(c, s) ELSE c
         /\ socks'[x] = IF x # t THEN Announced(conns[x], socks[x], out[x])
                        ELSE IF e.writable THEN WrittenSock(c, s) ELSE s
  BY DEF Finish
<1> HIDE DEF others, t
<1> QED  BY <1>2, <1>3, <1>4, <1>5

\* What is left of a read, and the request it runs.
LEMMA ReadKnown ==
  ASSUME TypeInv, RequestsOnly, NEW e \in Event, NEW n \in 0..Len(socks[e.token].inbox),
         NEW cut \in BOOLEAN, Reads(e, n, cut)
  PROVE  /\ Buffer(e.token, n, cut) \in Seq(Known)
         /\ Head(Buffer(e.token, n, cut)) \in Known
         /\ Drained(e.token, n, cut).inbox \in Seq(Known)
         /\ Drained(e.token, n, cut) \in Socket
<1>1. e.token \in Token /\ Part \in Known
  BY DEF Event, Known
<1>2. /\ conns[e.token].read_buffer \in Seq(Known) /\ socks[e.token].inbox \in Seq(Known)
      /\ socks[e.token] \in Socket
  BY <1>1, ConnectionRecords DEF RequestsOnly
<1> QED  BY <1>1, <1>2, ReadsSeq, ReadsType

\* The connection and the socket that an answered request leaves.
LEMMA AnsweredKnown ==
  ASSUME TypeInv, RequestsOnly, NEW e \in Event, NEW n \in 0..Len(socks[e.token].inbox),
         NEW cut \in BOOLEAN, Reads(e, n, cut), NEW ctx \in Context, NEW reply \in Reply
  PROVE  LET c == Answered(conns[e.token], ctx, reply)
             s == Announced(conns[e.token], Drained(e.token, n, cut), <<reply>>)
         IN  c \in Connection /\ s \in Socket /\ OnlyKnown(c, s)
<1> DEFINE c == Answered(conns[e.token], ctx, reply)
           s == Announced(conns[e.token], Drained(e.token, n, cut), <<reply>>)
<1>1. e.token \in Token
  BY DEF Event
<1>2. conns[e.token] \in Connection
  BY <1>1, ConnectionRecords
<1>3. c \in Connection /\ s \in Socket
  BY <1>2, AnsweredType, AnnouncedReadType
<1>4. c.read_buffer = << >>
  BY <1>2 DEF Answered, Connection
<1>5. s.inbox = Drained(e.token, n, cut).inbox
  BY <1>2, ReadKnown, KeptBytes
<1>6. Drained(e.token, n, cut).inbox \in Seq(Known)
  BY ReadKnown
<1> HIDE DEF c, s
<1>7. OnlyKnown(c, s)
  BY <1>4, <1>5, <1>6, EmptySeq DEF OnlyKnown
<1> QED  BY <1>3, <1>7 DEF c, s

LEMMA ReadEventKnown ==
  ASSUME TypeInv, RequestsOnly, NEW e \in Event, NEW n \in 0..Len(socks[e.token].inbox),
         NEW cut \in BOOLEAN,
         \/ ReadInvalid(e, n, cut) \/ ReadBlock(e, n, cut)
         \/ ReadCommand(e, n, cut) \/ ReadPush(e, n, cut)
  PROVE  RequestsOnly'
<1> DEFINE t == e.token
           r == Head(Buffer(t, n, cut))
           res == Execute(r, ContextOf(t), now)
<1>1. Reads(e, n, cut) /\ t \in Token
  BY DEF ReadInvalid, ReadBlock, ReadCommand, ReadPush, Event
<1>2. r \in Request /\ ContextOf(t) \in Context
  BY <1>1, ReadsType, ContextType
<1>3. CASE ReadInvalid(e, n, cut)
  <2> DEFINE reply == ReplyOf(r, "error")
             c == Answered(conns[t], ContextOf(t), reply)
             s == Announced(conns[t], Drained(t, n, cut), <<reply>>)
  <2>1. reply \in Reply
    BY <1>2, ReplyOfType DEF Tag
  <2>2. Finish(e, c, s, Silence, None)
    BY <1>3 DEF ReadInvalid
  <2>3. c \in Connection /\ s \in Socket /\ OnlyKnown(c, s)
    BY <1>1, <1>2, <2>1, AnsweredKnown
  <2> HIDE DEF c, s, reply
  <2> QED  BY <2>2, <2>3, FinishKnown
<1>4. CASE ReadBlock(e, n, cut)
  <2> SUFFICES ASSUME NEW x \in Token  PROVE OnlyKnown(conns'[x], socks'[x])
    BY DEF RequestsOnly, OnlyKnown
  <2>1. OnlyKnown(conns[x], socks[x]) /\ conns[x] \in Connection
    BY ConnectionRecords DEF RequestsOnly, OnlyKnown
  <2>2. CASE x # t
    BY <1>4, <2>1, <2>2, ConnectionRecords DEF ReadBlock, TypeInv, TypeOK
  <2>3. CASE x = t
    <3>1. /\ \E d : conns'[t] = Blocked(conns[t], Buffer(t, n, cut), r.key, d)
          /\ socks'[t] = Drained(t, n, cut)
      BY <1>1, <1>4 DEF ReadBlock, TypeInv, TypeOK
    <3>2. conns'[t].read_buffer = Buffer(t, n, cut)
      BY <2>1, <2>3, <3>1 DEF Blocked, Connection
    <3> QED  BY <1>1, <2>3, <3>1, <3>2, ReadKnown DEF OnlyKnown
  <2> QED  BY <2>2, <2>3
<1>5. CASE ReadCommand(e, n, cut) \/ ReadPush(e, n, cut)
  <2> DEFINE c == Answered(conns[t], res.ctx, res.reply)
             s == Announced(conns[t], Drained(t, n, cut), <<res.reply>>)
  <2>1. r.cmd # "INLINE"
    BY <1>5 DEF ReadCommand, ReadPush, PushCommands
  <2>2. res.ctx \in Context /\ res.reply \in Reply
    BY <1>2, <2>1, RunType DEF ResultType
  <2>3. \E out, woken : Finish(e, c, s, out, woken)
    BY <1>5 DEF ReadCommand, ReadPush
  <2>4. c \in Connection /\ s \in Socket /\ OnlyKnown(c, s)
    BY <1>1, <2>2, AnsweredKnown
  <2> HIDE DEF c, s
  <2> QED  BY <2>3, <2>4, FinishKnown
<1> QED  BY <1>3, <1>4, <1>5

LEMMA KnownNext == TypeInv /\ RequestsOnly /\ [Next]_vars => RequestsOnly'
<1> SUFFICES ASSUME TypeInv, RequestsOnly, [Next]_vars  PROVE RequestsOnly'
  OBVIOUS
<1>1. ASSUME NEW x \in Token
      PROVE  OnlyKnown(conns[x], socks[x]) /\ conns[x] \in Connection /\ socks[x] \in Socket
  BY ConnectionRecords DEF RequestsOnly, OnlyKnown
<1>2. (\A x \in Token : OnlyKnown(conns'[x], socks'[x])) => RequestsOnly'
  BY DEF RequestsOnly, OnlyKnown
<1>3. OnlyKnown(NewConnection, NewSocket)
  BY EmptySeq DEF OnlyKnown, NewConnection, NewSocket
<1>4. conns \in [Token -> Connection] /\ socks \in [Token -> Socket]
  BY DEF TypeInv, TypeOK
<1>5. CASE LoopTop
  <2>1. ASSUME NEW x \in Token  PROVE OnlyKnown(conns'[x], socks'[x])
    <3>1. /\ conns'[x] = Queued(Unblocked(conns[x]), <<NilReply>>) \/ conns'[x] = conns[x]
          /\ socks'[x] = Announced(conns[x], socks[x], <<NilReply>>) \/ socks'[x] = socks[x]
      BY <1>5 DEF LoopTop
    <3> QED  BY <1>1, <3>1, KeptBytes DEF OnlyKnown
  <2> QED  BY <1>2, <2>1
<1>6. CASE Poll
  <2>1. ASSUME NEW x \in Token  PROVE OnlyKnown(conns'[x], socks'[x])
    <3>1. conns'[x] = conns[x] /\ socks'[x].inbox = socks[x].inbox
      BY <1>1, <1>6 DEF Poll, Socket
    <3> QED  BY <1>1, <3>1 DEF OnlyKnown
  <2> QED  BY <1>2, <2>1
<1>7. CASE Accept
  <2>1. ASSUME NEW x \in Token  PROVE OnlyKnown(conns'[x], socks'[x])
    <3>1. \/ conns'[x] = NewConnection /\ socks'[x] = NewSocket
          \/ conns'[x] = conns[x] /\ socks'[x] = socks[x]
      BY <1>7 DEF Accept
    <3> QED  BY <1>1, <1>3, <3>1
  <2> QED  BY <1>2, <2>1
<1>8. ASSUME NEW e \in events, e # ServerEvent, HandleEvent(e)
      PROVE  RequestsOnly'
  <2>1. e \in Event /\ e.token \in Token
    BY <1>8, EventInEvents DEF Event
  <2>2. CASE ReadBlocked(e)
    BY <2>2 DEF ReadBlocked, RequestsOnly
  <2>3. CASE WriteOnly(e)
    <3>1. Finish(e, conns[e.token], socks[e.token], Silence, None)
      BY <2>3 DEF WriteOnly
    <3> QED  BY <1>1, <2>1, <3>1, FinishKnown
  <2>4. CASE ReadEof(e)
    <3>1. ASSUME NEW x \in Token  PROVE OnlyKnown(conns'[x], socks'[x])
      <4>1. \/ conns'[x] = NewConnection /\ socks'[x] = NewSocket
            \/ conns'[x] = conns[x] /\ socks'[x] = socks[x]
        BY <1>4, <2>4 DEF ReadEof
      <4> QED  BY <1>1, <1>3, <4>1
    <3> QED  BY <1>2, <3>1
  <2> QED  BY <1>8, <2>1, <2>2, <2>3, <2>4, ReadEventKnown DEF HandleEvent
<1>9. ASSUME NEW t \in Token, NEW r \in Requests, Send(t, r)
      PROVE  RequestsOnly'
  <2>1. ASSUME NEW x \in Token  PROVE OnlyKnown(conns'[x], socks'[x])
    <3>1. /\ conns'[x] = conns[x]
          /\ \/ socks'[x].inbox = socks[x].inbox
             \/ socks'[x].inbox = Append(socks[x].inbox, r)
      BY <1>1, <1>4, <1>9 DEF Send, Socket
    <3>2. Append(socks[x].inbox, r) \in Seq(Known)
      BY <1>1, AppendProperties DEF OnlyKnown, Known
    <3> QED  BY <1>1, <3>1, <3>2 DEF OnlyKnown
  <2> QED  BY <1>2, <2>1
<1>10. ASSUME NEW t \in Token, Close(t)  PROVE RequestsOnly'
  <2>1. ASSUME NEW x \in Token  PROVE OnlyKnown(conns'[x], socks'[x])
    <3>1. /\ conns'[x] = conns[x]
          /\ socks'[x].inbox = socks[x].inbox \/ socks'[x].inbox = << >>
      BY <1>1, <1>4, <1>10 DEF Close, Socket
    <3> QED  BY <1>1, <3>1, EmptySeq DEF OnlyKnown
  <2> QED  BY <1>2, <2>1
<1>11. ASSUME NEW t \in Token, Receive(t)  PROVE RequestsOnly'
  <2>1. ASSUME NEW x \in Token  PROVE OnlyKnown(conns'[x], socks'[x])
    <3>1. conns'[x] = conns[x] /\ socks'[x].inbox = socks[x].inbox
      BY <1>1, <1>4, <1>11 DEF Receive, Socket
    <3> QED  BY <1>1, <3>1 DEF OnlyKnown
  <2> QED  BY <1>2, <2>1
<1>12. CASE UNCHANGED <<conns, socks>>
  BY <1>12 DEF RequestsOnly
<1>13. CASE Connect \/ Tick \/ UNCHANGED vars
  BY <1>12, <1>13 DEF Connect, Tick, vars
<1> QED  BY <1>5, <1>6, <1>7, <1>8, <1>9, <1>10, <1>11, <1>13 DEF Next, ServerStep

LEMMA KnownInit == Init => RequestsOnly
<1>1. NewConnection.read_buffer = << >> /\ NewSocket.inbox = << >>
  BY DEF NewConnection, NewSocket
<1>2. << >> \in Seq(Known)
  BY EmptySeq
<1>3. ASSUME Init, NEW t \in Token
      PROVE  conns[t] = NewConnection /\ socks[t] = NewSocket
  BY <1>3 DEF Init
<1> QED  BY <1>1, <1>2, <1>3 DEF RequestsOnly

LEMMA KnownInvariant == Spec => []RequestsOnly
BY TypeInvariant, KnownInit, KnownNext, PTL DEF Spec

-----------------------------------------------------------------------------
(* The keyspace is a store that answers with its entries until they expire. *)

\* Whatever the sweep has left in the keyspace, GET replies as the store answers.
LEMMA GetAnswers ==
  ASSUME NEW ctx, ctx.db \in DB, NEW t \in Nat, NEW k \in Key
  PROVE  LET reply == get([cmd |-> "GET", key |-> k], ctx, t).reply
         IN  [tag |-> reply.tag, body |-> reply.body] = Keyspace!Answer(ctx.db[k], t)
<1> DEFINE r == [cmd |-> "GET", key |-> k]
           e == ctx.db[k]
<1>1. r.key = k /\ e.expiry \in Nat \cup {None} /\ None \notin Nat
  BY ExpiryType, CommandsAssumption
<1>2. Keyspace!Alive(e, t) <=> ~Expired(e, t)
  BY <1>1 DEF Keyspace!Alive, Expired
<1>3. CASE e = Absent \/ Expired(e, t)
  <2>1. get(r, ctx, t).reply = ReplyOf(r, "nil")
    BY <1>1, <1>3 DEF get, Ok, Result
  <2>2. Keyspace!Answer(e, t) = [tag |-> "nil", body |-> << >>]
    BY <1>2, <1>3 DEF Keyspace!Answer
  <2> QED  BY <2>1, <2>2 DEF ReplyOf
<1>4. CASE e # Absent /\ ~Expired(e, t) /\ e.value.type = "string"
  <2>1. get(r, ctx, t).reply = BodyReply(r, <<e.value.data>>)
    BY <1>1, <1>4 DEF get, Ok, Result
  <2>2. Keyspace!Answer(e, t) = [tag |-> "array", body |-> <<e.value.data>>]
    BY <1>2, <1>4 DEF Keyspace!Answer
  <2> QED  BY <2>1, <2>2 DEF BodyReply, ReplyOf
<1>5. CASE e # Absent /\ ~Expired(e, t) /\ e.value.type # "string"
  <2>1. get(r, ctx, t).reply = ReplyOf(r, "wrongtype")
    BY <1>1, <1>5 DEF get, WrongType, Err, Result
  <2>2. Keyspace!Answer(e, t) = [tag |-> "wrongtype", body |-> << >>]
    BY <1>2, <1>5 DEF Keyspace!Answer
  <2> QED  BY <2>1, <2>2 DEF ReplyOf
<1> QED  BY <1>3, <1>4, <1>5

KeyspaceAnswers == [k \in Key |-> GetReply(k)]

LEMMA AnswersAre ==
  ASSUME TypeInv
  PROVE  KeyspaceAnswers = Keyspace!Answers(db, now)
<1>1. ContextOf(1).db = db /\ db \in DB /\ now \in Nat
  BY DEF ContextOf, TypeInv, TypeOK
<1>2. ASSUME NEW k \in Key  PROVE GetReply(k) = Keyspace!Answer(db[k], now)
  BY <1>1, GetAnswers DEF GetReply
<1> QED  BY <1>2 DEF KeyspaceAnswers, Keyspace!Answers

LEMMA AnswersAreNext ==
  ASSUME TypeInv'
  PROVE  KeyspaceAnswers' = Keyspace!Answers(db', now')
<1>1. ContextOf(1)'.db = db' /\ db' \in DB /\ now' \in Nat
  BY DEF ContextOf, TypeInv, TypeOK
<1>2. ASSUME NEW k \in Key  PROVE GetReply(k)' = Keyspace!Answer(db'[k], now')
  BY <1>1, GetAnswers DEF GetReply
<1> QED  BY <1>2 DEF KeyspaceAnswers, Keyspace!Answers

\* What the store may do to its entries, in the terms of the server.
MapStep ==
  \/ Keyspace!Pass
  \/ \E k \in Key : Keyspace!Write(k, db'[k])
  \/ \E S \in SUBSET Key : Keyspace!Vanish(S)

\* Where keys change only because they have expired, they vanish.
LEMMA OnlyExpiredVanish ==
  ASSUME TypeInv, TypeInv', now' = now,
         \A k \in Key : db'[k] = db[k] \/ (db'[k] = Absent /\ Expired(db[k], now))
  PROVE  MapStep
<1> DEFINE S == {k \in Key : db'[k] # db[k]}
<1>1. S \in SUBSET Key
  OBVIOUS
<1>2. ASSUME NEW k \in S  PROVE ~Keyspace!Alive(db[k], now)
  <2>1. Expired(db[k], now) /\ db[k].expiry \in Nat \cup {None} /\ now \in Nat
    BY <1>2, ExpiryType DEF TypeInv, TypeOK
  <2> QED  BY <2>1 DEF Expired, Keyspace!Alive
<1>3. db' = [k \in Key |-> IF k \in S THEN Absent ELSE db[k]]
  <2>1. db' = [k \in Key |-> db'[k]]
    BY DEF TypeInv, TypeOK, DB
  <2>2. \A k \in Key : db'[k] = IF k \in S THEN Absent ELSE db[k]
    OBVIOUS
  <2> HIDE DEF S
  <2> QED  BY <2>1, <2>2
<1> HIDE DEF S
<1>4. Keyspace!Vanish(S)
  BY <1>2, <1>3 DEF Keyspace!Vanish
<1> QED  BY <1>1, <1>4 DEF MapStep

LEMMA TickPasses ==
  ASSUME Tick
  PROVE  MapStep
BY DEF Tick, store, MapStep, Keyspace!Pass

\* A request that changes a key writes it, once, as the store may.
LEMMA RunWrites ==
  ASSUME TypeInv, TypeInv', StoreInv', now' = now, NEW e, EventRuns(e)
  PROVE  MapStep
<1>1. PICK n \in 0..Len(socks[e.token].inbox), cut \in BOOLEAN : Runs(e, n, cut)
  BY DEF EventRuns
<1> DEFINE r == Head(Buffer(e.token, n, cut))
<1>2. CASE \A k \in Key : db'[k] = db[k] \/ (db'[k] = Absent /\ Expired(db[k], now))
  BY <1>2, OnlyExpiredVanish
<1>3. ASSUME NEW k \in Key, db'[k] # db[k], ~(db'[k] = Absent /\ Expired(db[k], now))
      PROVE  MapStep
  <2>1. /\ \A j \in Key \ {k} : db'[j] = db[j]
        /\ \/ StringStep(r, db'[k], expiries', k, now)
           \/ ListStep(db, db'[k], k)
           \/ StreamStep(r, db, db'[k], k)
    BY <1>1, <1>3, RunsOneKey
  <2> HIDE DEF r
  <2>2. db' = [db EXCEPT ![k] = db'[k]]
    BY <2>1 DEF TypeInv, TypeOK, DB
  <2>3. db'[k] # Absent /\ now \in Nat
    BY <2>1, AbsentIsNothing DEF StringStep, ListStep, StreamStep, TypeInv, TypeOK
  <2>4. ASSUME db'[k].expiry # None
        PROVE  db'[k].value.type = "string" /\ db'[k].expiry >= now
    <3>1. StringStep(r, db'[k], expiries', k, now)
      BY <2>1, <2>3, <2>4 DEF ListStep, StreamStep, StoreInv, OnlyStringsExpire,
                              IsList, IsStream, Present
    <3> QED  BY <2>3, <2>4, <3>1 DEF StringStep
  <2>5. Keyspace!Write(k, db'[k])
    BY <2>2, <2>3, <2>4 DEF Keyspace!Write
  <2> QED  BY <2>5 DEF MapStep
<1> QED  BY <1>2, <1>3

LEMMA NowNext ==
  ASSUME [Next]_vars
  PROVE  /\ Tick \/ now' = now
         /\ LoopTop => now' = now
         /\ \A e \in events : HandleEvent(e) => now' = now
<1>1. ASSUME NEW e \in events, HandleEvent(e)  PROVE now' = now
  <2>1. ASSUME NEW c, NEW s, NEW out, NEW woken, Finish(e, c, s, out, woken)
        PROVE  now' = now
    BY <2>1 DEF Finish
  <2>2. ReadBlocked(e) \/ WriteOnly(e) \/ ReadEof(e) => now' = now
    BY <2>1 DEF ReadBlocked, WriteOnly, ReadEof
  <2>3. ASSUME NEW n \in 0..Len(socks[e.token].inbox), NEW cut \in BOOLEAN
        PROVE  /\ ReadInvalid(e, n, cut) => now' = now
               /\ ReadBlock(e, n, cut) => now' = now
               /\ ReadCommand(e, n, cut) => now' = now
               /\ ReadPush(e, n, cut) => now' = now
    <3>1. ReadInvalid(e, n, cut) => now' = now
      BY <2>1 DEF ReadInvalid
    <3>2. ReadBlock(e, n, cut) => now' = now
      BY DEF ReadBlock
    <3>3. ReadCommand(e, n, cut) => now' = now
      BY <2>1 DEF ReadCommand
    <3>4. ReadPush(e, n, cut) => now' = now
      BY <2>1 DEF ReadPush
    <3> QED  BY <3>1, <3>2, <3>3, <3>4
  <2> QED  BY <1>1, <2>2, <2>3 DEF HandleEvent
<1>2. LoopTop \/ Poll \/ Accept \/ Connect => now' = now
  BY DEF LoopTop, Poll, Accept, Connect
<1>3. \A t \in Token : /\ \A r \in Requests : Send(t, r) => now' = now
                       /\ Close(t) \/ Receive(t) => now' = now
  BY DEF Send, Close, Receive
<1> QED  BY <1>1, <1>2, <1>3 DEF Next, ServerStep, vars

LEMMA KeyspaceInit == TypeInv /\ Init => Keyspace!Init
BY AnswersAre DEF Init, Keyspace!Init, KeyspaceAnswers

LEMMA KeyspaceNext ==
  TypeInv /\ TypeInv' /\ StoreInv' /\ [Next]_vars
     => [Keyspace!Next]_<<db, now, KeyspaceAnswers>>
<1> SUFFICES ASSUME TypeInv, TypeInv', StoreInv', [Next]_vars
             PROVE  [Keyspace!Next]_<<db, now, KeyspaceAnswers>>
  OBVIOUS
<1>1. Tick => MapStep
  BY TickPasses
<1>2. ASSUME LoopTop  PROVE MapStep
  <2>1. now' = now
    BY <1>2, NowNext
  <2>2. \A k \in Key : db'[k] = db[k] \/ (db'[k] = Absent /\ Expired(db[k], now))
    BY <1>2, SweepKeeps
  <2> QED  BY <2>1, <2>2, OnlyExpiredVanish
<1>3. ASSUME NEW e \in events, e # ServerEvent, EventRuns(e), HandleEvent(e)
      PROVE  MapStep
  BY <1>3, NowNext, RunWrites
<1>4. MapStep \/ UNCHANGED <<db, now>>
  <2>1. Tick \/ now' = now
    BY NowNext
  <2>2. \/ LoopTop
        \/ UNCHANGED <<db, expiries>>
        \/ \E e \in events : e # ServerEvent /\ EventRuns(e) /\ HandleEvent(e)
    BY StoreNext
  <2>3. UNCHANGED <<db, expiries>> => UNCHANGED db
    OBVIOUS
  <2> QED  BY <1>1, <1>2, <1>3, <2>1, <2>2, <2>3
<1>5. /\ KeyspaceAnswers = Keyspace!Answers(db, now)
      /\ KeyspaceAnswers' = Keyspace!Answers(db', now')
  BY AnswersAre, AnswersAreNext
<1>6. UNCHANGED <<db, now>> => UNCHANGED <<db, now, KeyspaceAnswers>>
  BY <1>5
<1>7. MapStep => Keyspace!Next
  BY <1>5 DEF MapStep, Keyspace!Next, KeyspaceAnswers
<1> QED  BY <1>4, <1>6, <1>7

\* The heap, the bounded sweep, the lazy removal by GET and the overwriting of keys
\* by other types amount to a store that answers GET with an entry up to the instant
\* of its expiry, never from then on, and that loses nothing else.
THEOREM KeyspaceImplementsStore == Spec => KeyspaceIsExpiringStore
<1>1. Spec => []TypeInv /\ []StoreInv
  BY TypeInvariant, StoreInvariant
<1>2. Spec => Keyspace!Spec
  BY <1>1, KeyspaceInit, KeyspaceNext, PTL DEF Spec, Keyspace!Spec, KeyspaceAnswers
<1> QED  BY <1>2 DEF KeyspaceIsExpiringStore

-----------------------------------------------------------------------------
(* Commands that do not notice what the sweep has not removed yet.         *)

\* The context in which key k is gone.
LEMMA WithoutKey ==
  ASSUME NEW ctx \in Context, NEW k \in Key
  PROVE  LET c == [ctx EXCEPT !.db[k] = Absent]
         IN  /\ c \in Context /\ c.is_pubsub = ctx.is_pubsub /\ c.db[k] = Absent
             /\ \A j \in Key \ {k} : c.db[j] = ctx.db[j]
<1> DEFINE d == [ctx.db EXCEPT ![k] = Absent]
           c == [ctx EXCEPT !.db = d]
<1>1. d \in DB /\ d[k] = Absent /\ \A j \in Key \ {k} : d[j] = ctx.db[j]
  BY DEF Context, DB
<1> HIDE DEF d
<1>2. c \in Context /\ c.is_pubsub = ctx.is_pubsub /\ c.db = d
  BY <1>1 DEF Context
<1>3. c = [ctx EXCEPT !.db[k] = Absent]
  BY DEF d
<1> QED  BY <1>1, <1>2, <1>3

\* What the four commands reply, in a context where an entry that expires is a string.
LEMMA ReplyOfGetOrWrite ==
  ASSUME NEW r \in Request, NEW ctx \in Context, NEW k \in Key, Expired(ctx.db[k], now),
         ~IsList(ctx.db, k), r.cmd \in {"GET", "SET", "RPUSH", "LPUSH"}
  PROVE  Execute(r, ctx, now).reply = Execute(r, [ctx EXCEPT !.db[k] = Absent], now).reply
<1> DEFINE c == [ctx EXCEPT !.db[k] = Absent]
<1>1. /\ c \in Context /\ c.is_pubsub = ctx.is_pubsub /\ c.db[k] = Absent
      /\ \A j \in Key \ {k} : c.db[j] = ctx.db[j]
  BY WithoutKey
<1> HIDE DEF c
<1>2. r.key \in Key
  BY RequestFields
<1>3. CASE ctx.is_pubsub
  <2>1. \A x \in {ctx, c} : Execute(r, x, now) = Err(x, ReplyOf(r, "error"))
    BY <1>1, <1>3 DEF Execute, PUBSUB_HANDLER
  <2> QED  BY <2>1 DEF Err, Result, c
<1>4. CASE ~ctx.is_pubsub
  <2>1. CASE r.cmd = "GET"
    <3>1. \A x \in {ctx, c} : Execute(r, x, now) = get(r, x, now)
      BY <1>1, <1>4, <2>1 DEF Execute
    <3>2. CASE r.key = k
      <4>1. get(r, ctx, now).reply = ReplyOf(r, "nil")
        BY <3>2 DEF get, Ok, Result
      <4>2. get(r, c, now).reply = ReplyOf(r, "nil")
        BY <1>1, <3>2 DEF get, Ok, Result
      <4> QED  BY <3>1, <4>1, <4>2 DEF c
    <3>3. CASE r.key # k
      <4> DEFINE entry == ctx.db[r.key]
      <4>1. c.db[r.key] = entry
        BY <1>1, <1>2, <3>3
      <4> HIDE DEF entry
      <4>2. \A x \in {ctx, c} :
               get(r, x, now).reply =
                 IF entry = Absent THEN ReplyOf(r, "nil")
                 ELSE IF Expired(entry, now) THEN ReplyOf(r, "nil")
                 ELSE IF entry.value.type = "string" THEN BodyReply(r, <<entry.value.data>>)
                 ELSE ReplyOf(r, "wrongtype")
        BY <4>1 DEF get, Ok, Err, Result, WrongType, entry
      <4> QED  BY <3>1, <4>2 DEF c
    <3> QED  BY <3>2, <3>3
  <2>2. CASE r.cmd = "SET"
    <3>1. \A x \in {ctx, c} : Execute(r, x, now) = set(r, x, now)
      BY <1>1, <1>4, <2>2 DEF Execute
    <3>2. \A x \in {ctx, c} : set(r, x, now).reply = ReplyOf(r, "ok")
      BY DEF set, Ok, Result
    <3> QED  BY <3>1, <3>2 DEF c
  <2>3. CASE r.cmd \in {"RPUSH", "LPUSH"}
    <3>1. Items(c.db, r.key) = Items(ctx.db, r.key)
      <4>1. CASE r.key = k
        BY <1>1, <4>1 DEF Items, IsList, Present
      <4>2. CASE r.key # k
        BY <1>1, <1>2, <4>2 DEF Items, IsList, Present
      <4> QED  BY <4>1, <4>2
    <3> DEFINE old == Items(ctx.db, r.key)
    <3> HIDE DEF old
    <3>2. \A x \in {ctx, c} : Items(x.db, r.key) = old
      BY <3>1 DEF old
    <3>3. \A x \in {ctx, c} :
             /\ rpush(r, x).reply = NumReply(r, Len(old \o r.vals))
             /\ lpush(r, x).reply = NumReply(r, Len(Reversed(r.vals) \o old))
      BY <3>2 DEF rpush, lpush, Ok, Result
    <3>4. \A x \in {ctx, c} :
             Execute(r, x, now) = IF r.cmd = "RPUSH" THEN rpush(r, x) ELSE lpush(r, x)
      BY <1>1, <1>4, <2>3 DEF Execute
    <3>5. Execute(r, ctx, now).reply = Execute(r, c, now).reply
      BY <3>3, <3>4
    <3> QED  BY <3>5 DEF c
  <2> QED  BY <2>1, <2>2, <2>3
<1> QED  BY <1>3, <1>4

\* GET, SET and the pushes answer as if an expired key were gone already: a list
\* never expires, so the pushes have no need to look at the expiry.
THEOREM ExpiredUnseen == Spec => []ExpiredIsAbsent
<1>1. TypeInv /\ StoreInv => ExpiredIsAbsent
  <2> SUFFICES ASSUME TypeInv, StoreInv, NEW t \in slab, NEW r \in Requests, NEW k \in Key,
                      r.cmd \in {"GET", "SET", "RPUSH", "LPUSH"}, Expired(db[k], now)
               PROVE  Execute(r, ContextOf(t), now).reply =
                      Execute(r, [ContextOf(t) EXCEPT !.db[k] = Absent], now).reply
    BY DEF ExpiredIsAbsent
  <2>1. t \in Token /\ r \in Request
    BY ServerAssumption DEF TypeInv, TypeOK
  <2>2. ContextOf(t) \in Context /\ ContextOf(t).db = db
    BY <2>1, ContextType DEF ContextOf
  <2>3. ~IsList(db, k)
    BY DEF StoreInv, OnlyStringsExpire, Expired
  <2> QED  BY <2>1, <2>2, <2>3, ReplyOfGetOrWrite
<1> QED  BY <1>1, TypeInvariant, StoreInvariant, PTL

-----------------------------------------------------------------------------
(* The ID 0-0.                                                             *)

\* IDs are written out as the server prints them: without zeros to pad them, and no
\* numeral is greater than the greatest word.
PlainIDs ==
  \A r \in Requests :
    r.cmd = "XADD" /\ r.id.form = "ms-seq"
      => ~r.id.padded /\ r.id.ms <= MaxWord /\ r.id.seq <= MaxWord

\* What the server makes of such a text is not 0-0: the check of the text refuses that
\* one, and a generated ID that is new in its millisecond has a greater number.
LEMMA GivenNonZero ==
  ASSUME 0 < MaxWord, NEW r, r.id \in IDText,
         r.id.form = "ms-seq" => ~r.id.padded /\ r.id.ms <= MaxWord /\ r.id.seq <= MaxWord,
         NEW s \in Stream, NEW id \in StreamID, Given(r, s, id), IsNewer(s, id)
  PROVE  id # ZeroID
<1>1. MaxWord \in Nat /\ id.ms \in Nat /\ id.seq \in Nat
  BY StreamsAssumption DEF StreamID, Word
<1>2. ASSUME NEW n \in Nat, n <= MaxWord  PROVE Wrapped(n) = n
  <2>1. \A m \in Nat : n < m => n % m = n
    BY SMTT(30)
  <2> QED  BY <1>1, <1>2, <2>1 DEF Wrapped
<1>3. CASE s.last_id # None
  <2>1. s.last_id \in StreamID /\ Before(s.last_id, id)
    BY <1>3 DEF Stream, IsNewer
  <2>2. s.last_id.ms \in Nat /\ s.last_id.seq \in Nat
    BY <2>1, StreamsAssumption DEF StreamID, Word
  <2> QED  BY <1>1, <2>1, <2>2 DEF Before, ZeroID
<1>4. CASE s.last_id = None
  <2>1. ~IsZeroText(r.id) /\ id = parse(r.id, ZeroID).id
    BY <1>4 DEF Given
  <2>2. SeqAfter(ZeroID) = 1
    BY <1>1, <1>2 DEF SeqAfter, ZeroID
  <2>3. ASSUME NEW ms, id = Parsed(ms, IF ms = 0 THEN 1 ELSE 0).id
        PROVE  id # ZeroID
    BY <2>3 DEF Parsed, ZeroID
  <2>4. CASE r.id.form = "*"
    <3>1. parse(r.id, ZeroID) = Parsed(r.id.ms, IF r.id.ms = 0 THEN 1 ELSE 0)
      BY <2>2, <2>4 DEF parse, ZeroID
    <3> QED  BY <2>1, <2>3, <3>1
  <2>5. CASE r.id.form = "ms-*"
    <3> DEFINE ms == Wrapped(r.id.ms)
    <3>1. ms \in Nat
      BY <1>1, <2>5 DEF IDText, Wrapped
    <3>2. parse(r.id, ZeroID) = IF ms < 0 THEN Refused("error")
                                ELSE Parsed(ms, IF ms = 0 THEN 1 ELSE 0)
      BY <2>2, <2>5 DEF parse, ZeroID
    <3> HIDE DEF ms
    <3>3. parse(r.id, ZeroID) = Parsed(ms, IF ms = 0 THEN 1 ELSE 0)
      BY <3>1, <3>2
    <3> QED  BY <2>1, <2>3, <3>3
  <2>6. CASE r.id.form = "ms-seq"
    <3>1. /\ r.id.ms \in Nat /\ r.id.seq \in Nat
          /\ Wrapped(r.id.ms) = r.id.ms /\ Wrapped(r.id.seq) = r.id.seq
      BY <1>2, <2>6 DEF IDText
    <3>2. id = [ms |-> r.id.ms, seq |-> r.id.seq]
      BY <2>1, <2>6, <3>1 DEF parse, Parsed
    <3>3. r.id.ms # 0 \/ r.id.seq # 0
      BY <2>1, <2>6 DEF IsZeroText
    <3> QED  BY <3>2, <3>3 DEF ZeroID
  <2>7. CASE r.id.form = "malformed"
    <3>1. id = None
      BY <2>1, <2>7 DEF parse, Refused
    <3> QED  BY <3>1, StreamsAssumption
  <2> QED  BY <2>4, <2>5, <2>6, <2>7 DEF IDText
<1> QED  BY <1>3, <1>4

LEMMA RunsNoZero ==
  ASSUME 0 < MaxWord, PlainIDs, TypeInv, StreamsWellFormed, RequestsOnly, NoZeroId,
         NEW e \in Event, EventRuns(e)
  PROVE  NoZeroId'
<1>1. PICK n \in 0..Len(socks[e.token].inbox), cut \in BOOLEAN : Runs(e, n, cut)
  BY DEF EventRuns
<1> DEFINE r == Head(Buffer(e.token, n, cut))
<1>2. r \in Known
  BY <1>1, ReadKnown DEF Runs
<1>3. r \in Request
  BY <1>1, ReadsType DEF Runs
<1> SUFFICES ASSUME NEW k \in Key, NEW x \in EntriesAt(k)'  PROVE x.id # ZeroID
  BY DEF NoZeroId
<1>4. CASE EntriesAt(k)' = EntriesAt(k)
  BY <1>4 DEF NoZeroId
<1>5. CASE db'[k] # db[k] /\ IsStream(db', k)
  <2>1. StreamStep(r, db, db'[k], k)
    BY <1>1, <1>5, RunsOneKey DEF StringStep, ListStep, IsStream, Present
  <2> HIDE DEF r
  <2> DEFINE s == StreamAt(db, k)
  <2>2. PICK id \in StreamID, fields \in Seq(Data) :
           /\ Given(r, s, id) /\ IsNewer(s, id)
           /\ db'[k].value.data = add(s, id, fields)
    BY <2>1 DEF StreamStep
  <2>3. s \in Stream
    BY StreamAtType DEF TypeInv, TypeOK
  <2>4. Begins(s) \/ StreamOK(s)
    BY StreamAtShape DEF StreamsWellFormed
  <2>5. EntriesAt(k) = EntriesOf(s)
    BY EntriesAtIs
  <2> HIDE DEF s
  <2>6. EntriesAt(k)' = EntriesAt(k) \cup {[id |-> id, fields |-> fields]}
    BY <1>5, <2>2, <2>3, <2>4, <2>5, AddEntries DEF EntriesAt
  <2>7. r \in Requests /\ r.cmd = "XADD" /\ r.id \in IDText
    BY <1>2, <1>3, <2>1, RequestFields DEF Known, Part, StreamStep
  <2>8. id # ZeroID
    BY <2>2, <2>3, <2>7, GivenNonZero DEF PlainIDs
  <2> QED  BY <2>6, <2>8 DEF NoZeroId
<1>6. CASE db'[k] # db[k] /\ ~IsStream(db', k)
  BY <1>6 DEF EntriesAt
<1> QED  BY <1>4, <1>5, <1>6, EntriesAtSame

LEMMA NoZeroNext ==
  ASSUME 0 < MaxWord, PlainIDs, TypeInv, StreamsWellFormed, RequestsOnly, NoZeroId, [Next]_vars
  PROVE  NoZeroId'
<1>1. CASE UNCHANGED <<db, expiries>>
  <2>1. \A k \in Key : EntriesAt(k)' = EntriesAt(k)
    BY <1>1, EntriesAtSame
  <2> QED  BY <2>1 DEF NoZeroId
<1>2. CASE LoopTop
  <2>1. ASSUME NEW k \in Key  PROVE EntriesAt(k)' \subseteq EntriesAt(k)
    <3>1. CASE IsStream(db', k)
      <4>1. db'[k] = db[k]
        BY <1>2, <3>1, SweepKeeps DEF IsStream, Present
      <4> QED  BY <4>1, EntriesAtSame
    <3>2. CASE ~IsStream(db', k)
      BY <3>2 DEF EntriesAt
    <3> QED  BY <3>1, <3>2
  <2> QED  BY <2>1 DEF NoZeroId
<1>3. ASSUME NEW e \in events, e # ServerEvent, EventRuns(e)  PROVE NoZeroId'
  <2>1. e \in Event
    BY <1>3, EventInEvents
  <2> QED  BY <1>3, <2>1, RunsNoZero
<1> QED  BY <1>1, <1>2, <1>3, StoreNext

\* An entry with the forbidden ID 0-0 comes only from a client that pads the numerals of
\* an ID with zeros or lets them exceed 64 bits; the IDs that the server generates, in
\* whole or in part, are greater whatever the clock reads.
THEOREM ZeroIdUnused == 0 < MaxWord /\ PlainIDs => (Spec => []NoZeroId)
<1> SUFFICES ASSUME 0 < MaxWord, PlainIDs  PROVE Spec => []NoZeroId
  OBVIOUS
<1>1. TypeInv /\ StreamsWellFormed /\ RequestsOnly /\ NoZeroId /\ [Next]_vars => NoZeroId'
  BY NoZeroNext
<1>2. Init => NoZeroId
  BY DEF Init, NoZeroId, EntriesAt, IsStream, Present
<1>3. Spec => []TypeInv /\ []StreamsWellFormed /\ []RequestsOnly
  BY TypeInvariant, StreamsInShape, KnownInvariant
<1> QED  BY <1>1, <1>2, <1>3, PTL DEF Spec

-----------------------------------------------------------------------------
(* Elements and waiters.  A push puts its elements into the list, answers, *)
(* and only then looks for a waiter.  If every push brings one element, no *)
(* client stays blocked on a list that has elements, with any clients and  *)
(* keys, timeouts, disconnections and stale tokens.                        *)

\* wake_client serves one waiter: a push of more elements may leave others waiting.
OneEach == \A r \in Requests : r.cmd \in PushCommands => Len(r.vals) = 1

-----------------------------------------------------------------------------
(* What the commands do to the elements of a key.                          *)

LEMMA SameItems ==
  ASSUME NEW d, NEW old, NEW k, d[k] = old[k] \/ d[k] = Absent \/ ~IsList(d, k)
  PROVE  Items(d, k) = Items(old, k) \/ Items(d, k) = << >>
BY DEF Items, IsList, Present

LEMMA WithItemsIs ==
  ASSUME NEW d \in DB, NEW k \in Key, NEW s \in Seq(Data), IsList(d, k)
  PROVE  /\ Items(WithItems(d, k, s), k) = s
         /\ \A j \in Key \ {k} : Items(WithItems(d, k, s), j) = Items(d, j)
<1> DEFINE new == WithItems(d, k, s)
<1>1. d[k] \in Entry
  BY EntryType DEF IsList
<1>2. new[k].value = ListValue(s) /\ \A j \in Key \ {k} : new[j] = d[j]
  BY <1>1 DEF WithItems, DB, Entry
<1> HIDE DEF new
<1>3. Items(new, k) = s
  BY <1>2, ListPresent DEF Items, IsList, ListValue
<1>4. \A j \in Key \ {k} : Items(new, j) = Items(d, j)
  BY <1>2 DEF Items, IsList, Present
<1> QED  BY <1>3, <1>4 DEF new

LEMMA TailOfOne ==
  ASSUME NEW s \in Seq(Data), Len(s) = 1
  PROVE  Tail(s) = << >>
<1>1. s # << >>
  BY EmptySeq
<1>2. Tail(s) \in Seq(Data) /\ Len(Tail(s)) = 0
  BY <1>1, HeadTailProperties
<1> QED  BY <1>2, EmptySeq

\* Only a push puts an element where there is none.
LEMMA EmptyStaysEmpty ==
  ASSUME NEW r \in Request, NEW ctx \in Context, NEW tm \in Nat, r.cmd # "INLINE",
         ~(r.cmd \in PushCommands /\ Execute(r, ctx, tm).outcome = "ok"),
         NEW k \in Key, Items(ctx.db, k) = << >>
  PROVE  Items(Execute(r, ctx, tm).ctx.db, k) = << >>
<1> DEFINE res == Execute(r, ctx, tm)
<1>1. ctx.db \in DB
  BY DEF Context
<1>2. CASE res.ctx.db = ctx.db
  BY <1>2
<1>3. CASE r.cmd = "SET" /\ res = set(r, ctx, tm)
  <2> DEFINE expiry == IF r.ttl = None THEN None ELSE tm + r.ttl
             string == EntryOf(StringValue(r.val), expiry)
             d == set(r, ctx, tm).ctx.db
  <2>1. r.key \in Key
    BY <1>3, RequestFields
  <2>2. d = [ctx.db EXCEPT ![r.key] = string]
    BY DEF set, Ok, Result, Context
  <2>3. string.value.type = "string"
    BY DEF EntryOf, StringValue
  <2> HIDE DEF string, d, res
  <2>4. d[k] = ctx.db[k] \/ ~IsList(d, k)
    BY <1>1, <2>1, <2>2, <2>3 DEF DB, IsList
  <2>5. res.ctx.db = d
    BY <1>3 DEF d
  <2>6. Items(res.ctx.db, k) = << >>
    BY <2>4, <2>5, SameItems
  <2> QED  BY <2>6 DEF res
<1>4. CASE r.cmd = "GET" /\ res = get(r, ctx, tm)
  <2>1. \/ res.ctx = ctx
        \/ res.ctx = [ctx EXCEPT !.db[r.key] = Absent]
    BY <1>4 DEF get, WrongType, Ok, Err, Result
  <2>2. res.ctx.db[k] = ctx.db[k] \/ res.ctx.db[k] = Absent
    BY <1>1, <2>1 DEF DB, Context
  <2> QED  BY <2>2, SameItems
<1>5. CASE r.cmd \in {"LPOP", "BLPOP"} /\ res \in {lpop(r, ctx), blpop(r, ctx)}
  <2> DEFINE s == Items(ctx.db, r.key)
  <2>1. r.key \in Key
    BY <1>5, RequestFields
  <2>2. s \in Seq(Data) /\ Len(s) \in Nat
    BY <1>1, <2>1, ItemsType, LenProperties
  <2>3. CASE s = << >>
    <3>1. res.ctx = ctx
      BY <1>5, <2>3 DEF lpop, blpop, IsList, WrongType, Ok, Err, Result
    <3> QED  BY <3>1
  <2>4. CASE s # << >>
    <3>1. IsList(ctx.db, r.key) /\ k # r.key
      BY <2>4 DEF Items
    <3>2. \E rest : res.ctx.db = WithItems(ctx.db, r.key, rest)
      BY <1>5, <2>4, <3>1 DEF lpop, blpop, IsList, Ok, Result, Context
    <3>3. res.ctx.db[k] = ctx.db[k]
      BY <1>1, <3>1, <3>2 DEF WithItems, DB
    <3> QED  BY <3>3, SameItems
  <2> QED  BY <2>3, <2>4
<1>6. CASE r.cmd = "XADD" /\ res = xadd(r, ctx)
  <2>1. r.key \in Key /\ r.id \in IDText /\ r.fields \in Seq(Data)
    BY <1>6, RequestFields
  <2>2. CASE \E tag : res = Err(ctx, ReplyOf(r, tag))
    BY <2>2, OtherStep
  <2>3. ASSUME NEW id \in StreamID, res = XaddResult(r, ctx, id)
        PROVE  res.ctx.db[k] = ctx.db[k] \/ ~IsList(res.ctx.db, k)
    <3> DEFINE s == add(StreamAt(ctx.db, r.key), id, r.fields)
    <3>1. s \in Stream
      BY <1>1, <2>1, StreamAtType, AddType
    <3>2. res.ctx.db = WithStream(ctx.db, r.key, s)
      BY <2>3 DEF XaddResult, Ok, Result, Context
    <3> HIDE DEF s, res
    <3>3. /\ WithStream(ctx.db, r.key, s)[r.key].value = StreamValue(s)
          /\ \A j \in Key \ {r.key} : WithStream(ctx.db, r.key, s)[j] = ctx.db[j]
      BY <1>1, <2>1, <3>1, WithStreamType
    <3> QED  BY <3>2, <3>3 DEF IsList, StreamValue
  <2> QED  BY <1>6, <2>1, <2>2, <2>3, XaddShape, SameItems
<1>7. CASE r.cmd \in PushCommands /\ (res = rpush(r, ctx) \/ res = lpush(r, ctx))
  <2>1. \A s : PushResult(r, ctx, s).outcome = "ok"
    BY DEF PushResult, Ok, Result
  <2>2. r.key \in Key /\ r.vals \in Seq(Data) \ {<< >>}
    BY <1>7, RequestFields DEF PushCommands
  <2> HIDE DEF res
  <2>3. res.outcome = "ok"
    BY <1>7, <2>1, <2>2, PushShape
  <2> QED  BY <1>7, <2>3 DEF res
<1> HIDE DEF res
<1>8. \/ res.ctx.db = ctx.db
      \/ r.cmd = "SET" /\ res = set(r, ctx, tm)
      \/ r.cmd = "GET" /\ res = get(r, ctx, tm)
      \/ r.cmd \in {"LPOP", "BLPOP"} /\ res \in {lpop(r, ctx), blpop(r, ctx)}
      \/ r.cmd = "XADD" /\ res = xadd(r, ctx)
      \/ r.cmd \in PushCommands /\ (res = rpush(r, ctx) \/ res = lpush(r, ctx))
  BY ExecuteCases, OtherStep DEF res, PushCommands
<1> QED  BY <1>2, <1>3, <1>4, <1>5, <1>6, <1>7, <1>8 DEF res

\* A push adds its elements to the list of its key, at one end, and leaves the others.
LEMMA PushAdds ==
  ASSUME NEW r \in Request, NEW ctx \in Context, NEW tm \in Nat, r.cmd \in PushCommands,
         Execute(r, ctx, tm).outcome = "ok"
  PROVE  LET d == Execute(r, ctx, tm).ctx.db
             old == Items(ctx.db, r.key)
         IN  /\ d \in DB /\ old \in Seq(Data) /\ Items(d, r.key) \in Seq(Data)
             /\ \A j \in Key \ {r.key} : Items(d, j) = Items(ctx.db, j)
             /\ \E new \in Seq(Data) :
                  /\ Len(new) = Len(r.vals) /\ Len(new) \in Nat \ {0}
                  /\ Items(d, r.key) \in {old \o new, new \o old}
<1> DEFINE res == Execute(r, ctx, tm)
           old == Items(ctx.db, r.key)
           rev == Reversed(r.vals)
<1>1. /\ r.key \in Key /\ r.vals \in Seq(Data) \ {<< >>}
      /\ r.cmd \in {"RPUSH", "LPUSH"} /\ ctx.db \in DB
  BY RequestFields DEF PushCommands, Context
<1>2. res = rpush(r, ctx) \/ res = lpush(r, ctx)
  <2>1. \A reply : Err(ctx, reply).outcome # "ok"
    BY DEF Err, Result
  <2> QED  BY <1>1, <2>1, ExecuteCases
<1>3. /\ rev \in Seq(Data) /\ Len(rev) = Len(r.vals) /\ Len(r.vals) \in Nat \ {0}
      /\ old \in Seq(Data)
  BY <1>1, ReversedType, ItemsType, EmptySeq, LenProperties
<1>4. \/ res.ctx.db = Pushed(ctx.db, r.key, old \o r.vals)
      \/ res.ctx.db = Pushed(ctx.db, r.key, rev \o old)
  <2>1. \A s : PushResult(r, ctx, s).ctx.db = Pushed(ctx.db, r.key, s)
    BY DEF PushResult, Ok, Result, Context
  <2>2. rpush(r, ctx) = PushResult(r, ctx, old \o r.vals)
    BY DEF rpush, PushResult, Context
  <2>3. lpush(r, ctx) = PushResult(r, ctx, rev \o old)
    BY DEF lpush, PushResult, Context
  <2> HIDE DEF res, old, rev
  <2> QED  BY <1>2, <2>1, <2>2, <2>3
<1> HIDE DEF res, old, rev
<1>5. PICK new \in {r.vals, rev} :
         \E s \in {old \o new, new \o old} : res.ctx.db = Pushed(ctx.db, r.key, s)
  BY <1>4
<1>6. PICK s \in {old \o new, new \o old} : res.ctx.db = Pushed(ctx.db, r.key, s)
  BY <1>5
<1>7. s \in Seq(Data) /\ new \in Seq(Data) /\ Len(new) = Len(r.vals)
  <2>1. new \in Seq(Data) /\ Len(new) = Len(r.vals)
    BY <1>1, <1>3
  <2>2. old \o new \in Seq(Data) /\ new \o old \in Seq(Data)
    BY <1>3, <2>1, ConcatProperties
  <2> QED  BY <1>6, <2>1, <2>2
<1>8. \A j \in Key \ {r.key} : Pushed(ctx.db, r.key, s)[j] = ctx.db[j]
  BY <1>1 DEF Pushed, WithItems, DB
<1>9. \A j \in Key \ {r.key} : Items(Pushed(ctx.db, r.key, s), j) = Items(ctx.db, j)
  BY <1>8 DEF Items, IsList, Present
<1>10. Pushed(ctx.db, r.key, s) \in DB /\ Items(Pushed(ctx.db, r.key, s), r.key) = s
  BY <1>1, <1>7, PushedItems, PushedType
<1> QED  BY <1>3, <1>6, <1>7, <1>9, <1>10 DEF res, old

\* A push of one element onto a key that has none leaves that element.
LEMMA PushOne ==
  ASSUME NEW r \in Request, NEW ctx \in Context, NEW tm \in Nat, r.cmd \in PushCommands,
         Len(r.vals) = 1, Execute(r, ctx, tm).outcome = "ok"
  PROVE  LET d == Execute(r, ctx, tm).ctx.db
         IN  /\ d \in DB
             /\ \A j \in Key \ {r.key} : Items(d, j) = Items(ctx.db, j)
             /\ Items(ctx.db, r.key) = << >> => Len(Items(d, r.key)) = 1
<1> DEFINE d == Execute(r, ctx, tm).ctx.db
           old == Items(ctx.db, r.key)
<1>1. /\ d \in DB /\ old \in Seq(Data)
      /\ \A j \in Key \ {r.key} : Items(d, j) = Items(ctx.db, j)
  BY PushAdds
<1>2. PICK new \in Seq(Data) :
         Len(new) = 1 /\ Items(d, r.key) \in {old \o new, new \o old}
  BY PushAdds
<1> HIDE DEF d, old
<1>3. old = << >> => Items(d, r.key) = new
  BY <1>2, ConcatEmptySeq
<1> QED  BY <1>1, <1>2, <1>3 DEF d, old

-----------------------------------------------------------------------------
(* The steps.                                                              *)

\* What a step has to leave alone, for a client that goes on waiting.
LEMMA StillNothing ==
  ASSUME NoWaiterOnElements,
         \A x \in Token : conns'[x].blocked =>
           /\ StillWaits(x)
           /\ Items(db, conns[x].block_key) = << >> =>
                Items(db', conns[x].block_key) = << >>
  PROVE  NoWaiterOnElements'
BY DEF NoWaiterOnElements, StillWaits, SameWait

LEMMA ReadCommandNothing ==
  ASSUME TypeInv, WaitInv, NoWaiterOnElements, NEW e \in Event,
         NEW n \in 0..Len(socks[e.token].inbox), NEW cut \in BOOLEAN,
         ReadCommand(e, n, cut)
  PROVE  NoWaiterOnElements'
<1> DEFINE t == e.token
           r == Head(Buffer(t, n, cut))
           res == Execute(r, ContextOf(t), now)
<1>1. /\ Reads(e, n, cut) /\ r.cmd # "INLINE"
      /\ ~(r.cmd \in PushCommands /\ res.outcome = "ok") /\ db' = res.ctx.db
  BY DEF ReadCommand
<1>2. r \in Request /\ ContextOf(t) \in Context /\ now \in Nat /\ ContextOf(t).db = db
  BY <1>1, ReadsType, ContextType DEF ContextOf, Event, TypeInv, TypeOK
<1> HIDE DEF r
<1>3. ASSUME NEW k \in Key, Items(db, k) = << >>  PROVE Items(db', k) = << >>
  BY <1>1, <1>2, <1>3, EmptyStaysEmpty
<1>4. ASSUME NEW x \in Token, conns'[x].blocked
      PROVE  StillWaits(x) /\ conns[x].block_key \in Key
  BY <1>4, ReadCommandWait DEF StillWaits, WaitInv, BlockedIsQueued
<1> QED  BY <1>3, <1>4, StillNothing

LEMMA ReadBlockNothing ==
  ASSUME TypeInv, NoWaiterOnElements, NEW e \in Event,
         NEW n \in 0..Len(socks[e.token].inbox), NEW cut \in BOOLEAN,
         ReadBlock(e, n, cut)
  PROVE  NoWaiterOnElements'
<1> DEFINE t == e.token
           r == Head(Buffer(t, n, cut))
<1>1. /\ Reads(e, n, cut) /\ r.cmd = "BLPOP" /\ db' = db
      /\ Execute(r, ContextOf(t), now).outcome = "block"
      /\ \E b, d : conns' = [conns EXCEPT ![t] = Blocked(@, b, r.key, d)]
  BY DEF ReadBlock, store
<1>2. t \in Token /\ conns[t] \in Connection
  BY DEF Event, TypeInv, TypeOK
<1>3. r \in Request /\ ContextOf(t) \in Context /\ now \in Nat /\ ContextOf(t).db = db
  BY <1>1, ReadsType, ContextType DEF ContextOf, Event, TypeInv, TypeOK
<1> HIDE DEF r
<1>4. Items(db, r.key) = << >>
  <2>1. \A reply : Err(ContextOf(t), reply).outcome # "block"
    BY DEF Err, Result
  <2>2. Execute(r, ContextOf(t), now) = blpop(r, ContextOf(t))
    BY <1>1, <1>3, <2>1, ExecuteCases
  <2> QED  BY <1>1, <1>3, <2>2 DEF blpop, Ok, Result
<1>5. /\ conns'[t].block_key = r.key
      /\ \A x \in Token \ {t} : conns'[x] = conns[x]
  BY <1>1, <1>2 DEF Blocked, Connection, TypeInv, TypeOK
<1> QED  BY <1>1, <1>4, <1>5 DEF NoWaiterOnElements

\* If somebody waits on the key, a waiter is found, and takes the one element.
LEMMA ReadPushNothing ==
  ASSUME OneEach, TypeInv, WaitInv, RequestsOnly, NoWaiterOnElements, NEW e \in Event,
         NEW n \in 0..Len(socks[e.token].inbox), NEW cut \in BOOLEAN,
         ReadPush(e, n, cut)
  PROVE  NoWaiterOnElements'
<1> DEFINE t == e.token
           r == Head(Buffer(t, n, cut))
           res == Execute(r, ContextOf(t), now)
           d == res.ctx.db
           q == blocked_queues[r.key]
           items == Items(d, r.key)
           hand == Woken(q) # None /\ items # << >>
<1>1. /\ Reads(e, n, cut) /\ r.cmd \in PushCommands /\ res.outcome = "ok"
      /\ db' = IF hand THEN WithItems(d, r.key, Tail(items)) ELSE d
  BY DEF ReadPush
<1>2. /\ r \in Request /\ r \in Known /\ r.key \in Key
      /\ ContextOf(t) \in Context /\ now \in Nat /\ ContextOf(t).db = db
  BY <1>1, ReadsType, ReadKnown, RequestFields, ContextType
     DEF ContextOf, Event, TypeInv, TypeOK, PushCommands
<1>3. \A x \in Token : conns'[x].blocked => StillWaits(x)
  BY ReadPushStill
<1> HIDE DEF r
<1>4. Len(r.vals) = 1
  <2>1. r # Part
    BY <1>1 DEF Part, PushCommands
  <2> QED  BY <1>1, <1>2, <2>1 DEF OneEach, Known
<1>5. /\ d \in DB /\ items # << >>
      /\ \A j \in Key \ {r.key} : Items(d, j) = Items(db, j)
      /\ Items(db, r.key) = << >> => Len(items) = 1
  BY <1>1, <1>2, <1>4, PushOne, PushLeavesItems
<1>6. items \in Seq(Data) /\ IsList(d, r.key) /\ Tail(items) \in Seq(Data)
  BY <1>2, <1>5, ItemsType, HandType
<1>7. \A j \in Key \ {r.key} : Items(db', j) = Items(db, j)
  BY <1>1, <1>2, <1>5, <1>6, WithItemsIs
<1>8. ASSUME NEW x \in Token, Waiting(x), Has(q, x), Items(db, r.key) = << >>
      PROVE  Items(db', r.key) = << >>
  <2>1. q \in Seq(Token)
    BY <1>2 DEF TypeInv, TypeOK
  <2>2. Served(q) # {}
    BY <1>8 DEF Served, Has
  <2>3. Woken(q) # None
    <3>1. Len(q) \in Nat /\ First(Served(q)) \in 1..Len(q) /\ Woken(q) = q[First(Served(q))]
      BY <2>1, <2>2, ServedType, LenProperties DEF Served
    <3>2. Woken(q) \in Token
      BY <2>1, <3>1, ElementOfSeq
    <3> QED  BY <3>2, CommandsAssumption DEF Token
  <2>4. Tail(items) = << >>
    <3>1. Len(items) = 1
      BY <1>5, <1>8
    <3> QED  BY <1>6, <3>1, TailOfOne
  <2> QED  BY <1>1, <1>2, <1>5, <1>6, <2>3, <2>4, WithItemsIs
<1>9. ASSUME NEW x \in Token, conns'[x].blocked
      PROVE  /\ StillWaits(x)
             /\ Items(db, conns[x].block_key) = << >> =>
                  Items(db', conns[x].block_key) = << >>
  <2>1. /\ StillWaits(x) /\ Waiting(x) /\ conns[x].block_key \in Key
        /\ Has(blocked_queues[conns[x].block_key], x)
    BY <1>3, <1>9 DEF StillWaits, WaitInv, BlockedIsQueued, Waiting
  <2>2. CASE conns[x].block_key = r.key
    BY <1>8, <2>1, <2>2
  <2>3. CASE conns[x].block_key # r.key
    BY <1>7, <2>1, <2>3
  <2> QED  BY <2>1, <2>2, <2>3
<1> QED  BY <1>9, StillNothing

LEMMA LoopTopNothing ==
  ASSUME TypeInv, WaitInv, NoWaiterOnElements, LoopTop
  PROVE  NoWaiterOnElements'
<1>1. ASSUME NEW x \in Token, conns'[x].blocked
      PROVE  conns'[x] = conns[x] /\ conns[x].block_key \in Key
  <2>1. conns[x] \in Connection
    BY DEF TypeInv, TypeOK
  <2>2. conns'[x] = conns[x]
    BY <1>1, <2>1, BufferWait DEF LoopTop
  <2> QED  BY <1>1, <2>2 DEF WaitInv, BlockedIsQueued
<1>2. ASSUME NEW k \in Key, Items(db, k) = << >>  PROVE Items(db', k) = << >>
  BY <1>2, SweepKeeps, SameItems
<1> QED  BY <1>1, <1>2 DEF NoWaiterOnElements

LEMMA NothingNext ==
  OneEach /\ TypeInv /\ EventsOK /\ WaitInv /\ RequestsOnly /\ NoWaiterOnElements
    /\ [Next]_vars => NoWaiterOnElements'
<1> SUFFICES ASSUME OneEach, TypeInv, EventsOK, WaitInv, RequestsOnly,
                    NoWaiterOnElements, [Next]_vars
             PROVE  NoWaiterOnElements'
  OBVIOUS
<1>1. CASE db' = db /\ \A x \in Token : StillWaits(x)
  BY <1>1, StillNothing
<1>2. ASSUME NEW e \in events, e # ServerEvent, HandleEvent(e)
      PROVE  NoWaiterOnElements'
  <2>1. e \in Event
    BY <1>2, EventInEvents
  <2>2. CASE ReadBlocked(e)
    BY <2>2 DEF ReadBlocked, store, NoWaiterOnElements
  <2>3. CASE WriteOnly(e) \/ ReadEof(e)
    BY <1>1, <2>1, <2>3, WriteOnlyWait, ReadEofWait DEF WriteOnly, ReadEof, store
  <2>4. ASSUME NEW n \in 0..Len(socks[e.token].inbox), NEW cut \in BOOLEAN,
               \/ ReadInvalid(e, n, cut) \/ ReadBlock(e, n, cut)
               \/ ReadCommand(e, n, cut) \/ ReadPush(e, n, cut)
        PROVE  NoWaiterOnElements'
    <3>1. CASE ReadInvalid(e, n, cut)
      BY <1>1, <2>1, <3>1, ReadInvalidWait DEF ReadInvalid, store
    <3>2. CASE ReadBlock(e, n, cut)
      BY <2>1, <3>2, ReadBlockNothing
    <3>3. CASE ReadCommand(e, n, cut)
      BY <2>1, <3>3, ReadCommandNothing
    <3>4. CASE ReadPush(e, n, cut)
      BY <2>1, <3>4, ReadPushNothing
    <3> QED  BY <2>4, <3>1, <3>2, <3>3, <3>4
  <2> QED  BY <1>2, <2>2, <2>3, <2>4 DEF HandleEvent
<1>3. CASE Accept
  <2>1. \A x \in Token : StillWaits(x)
    BY <1>3 DEF Accept, NewConnection, StillWaits, SameWait
  <2> QED  BY <1>1, <1>3, <2>1 DEF Accept, store
<1>4. CASE UNCHANGED <<conns, db>>
  BY <1>4 DEF NoWaiterOnElements
<1>5. CASE \/ Poll \/ Connect \/ Tick
           \/ \E t \in Token : \/ \E r \in Requests : Send(t, r)
                               \/ Close(t) \/ Receive(t)
  BY <1>4, <1>5 DEF Poll, Connect, Tick, Send, Close, Receive, store
<1>6. CASE UNCHANGED vars
  BY <1>4, <1>6 DEF vars, store
<1> QED  BY <1>2, <1>3, <1>5, <1>6, LoopTopNothing DEF Next, ServerStep

LEMMA NothingInit == Init => NoWaiterOnElements
BY DEF Init, NoWaiterOnElements, NewConnection

\* As long as each push brings one element, nobody waits for what is there: the push
\* and the wake-up of its event leave no gap, whoever timed out or left meanwhile.
THEOREM NobodyWaitsOnElements == OneEach => (Spec => []NoWaiterOnElements)
<1> SUFFICES ASSUME OneEach PROVE Spec => []NoWaiterOnElements
  OBVIOUS
<1>1. TypeInv /\ EventsOK /\ WaitInv /\ RequestsOnly /\ NoWaiterOnElements /\ [Next]_vars
        => NoWaiterOnElements'
  BY NothingNext
<1>2. Spec => []TypeInv /\ []EventsOK /\ []WaitInv /\ []RequestsOnly
  BY TypeInvariant, SlabInvariant, WaitInvariant, KnownInvariant, PTL DEF SlabInv
<1> QED  BY <1>1, <1>2, NothingInit, PTL DEF Spec

-----------------------------------------------------------------------------
(* SUBSCRIBE and UNSUBSCRIBE keep two registries, the subscriptions of a   *)
(* connection and the tokens of a channel, and nobody cleans the second    *)
(* when a connection ends.  They still agree in one direction: what a      *)
(* connection is subscribed to is registered under its token.              *)

\* Counting in sequences: where x is.
At(s, x) == {i \in 1..Len(s) : s[i] = x}

LEMMA CountType ==
  ASSUME NEW S, NEW s \in Seq(S), NEW x
  PROVE  /\ IsFiniteSet(At(s, x)) /\ Count(s, x) = Cardinality(At(s, x))
         /\ Count(s, x) \in Nat
         /\ Has(s, x) <=> Count(s, x) >= 1
<1>1. Len(s) \in Nat
  BY LenProperties
<1>2. IsFiniteSet(1..Len(s))
  BY <1>1, FS_Interval
<1>3. IsFiniteSet(At(s, x))
  BY <1>2, FS_Subset DEF At
<1>4. Count(s, x) = Cardinality(At(s, x)) /\ Cardinality(At(s, x)) \in Nat
  BY <1>3, FS_CardinalityType DEF Count, At
<1>5. Has(s, x) <=> At(s, x) # {}
  BY DEF Has, At
<1>6. Cardinality(At(s, x)) = 0 <=> At(s, x) = {}
  BY <1>3, FS_EmptySet
<1> QED  BY <1>3, <1>4, <1>5, <1>6

LEMMA CountEmpty == \A x : Count(<< >>, x) = 0
<1> SUFFICES ASSUME NEW x PROVE Count(<< >>, x) = 0
  OBVIOUS
<1>1. {i \in 1..Len(<< >>) : << >>[i] = x} = {}
  BY EmptySeq
<1> QED  BY <1>1, FS_EmptySet DEF Count

LEMMA CountAppend ==
  ASSUME NEW S, NEW s \in Seq(S), NEW e \in S, NEW x
  PROVE  Count(Append(s, e), x) = Count(s, x) + (IF e = x THEN 1 ELSE 0)
<1> DEFINE w == Append(s, e)
           n == Len(s)
<1>1. /\ n \in Nat /\ w \in Seq(S) /\ Len(w) = n + 1
      /\ w[n + 1] = e /\ \A i \in 1..n : w[i] = s[i]
  BY LenProperties, AppendProperties
<1>2. IsFiniteSet(At(s, x)) /\ Count(s, x) = Cardinality(At(s, x))
  BY CountType
<1>3. Count(w, x) = Cardinality(At(w, x))
  BY <1>1, CountType
<1> HIDE DEF w
<1>4. CASE e = x
  <2>1. At(w, x) = At(s, x) \cup {n + 1}
    BY <1>1, <1>4 DEF At
  <2>2. n + 1 \notin At(s, x)
    BY <1>1 DEF At
  <2> QED  BY <1>2, <1>3, <1>4, <2>1, <2>2, FS_AddElement DEF w
<1>5. CASE e # x
  <2>1. At(w, x) = At(s, x)
    BY <1>1, <1>5 DEF At
  <2>2. Count(s, x) \in Nat
    BY CountType
  <2> QED  BY <1>2, <1>3, <1>5, <2>1, <2>2 DEF w
<1> QED  BY <1>4, <1>5

\* Without takes one occurrence out and only moves the others.
LEMMA WithoutIs ==
  ASSUME NEW S, NEW s \in Seq(S), NEW e, Has(s, e)
  PROVE  \E p \in 1..Len(s) :
           LET w == Without(s, e)
           IN  /\ s[p] = e /\ Len(w) = Len(s) - 1
               /\ \A i \in 1..Len(w) : w[i] = IF i < p THEN s[i] ELSE s[i + 1]
<1> DEFINE n == Len(s)
           p == First(At(s, e))
           a == SubSeq(s, 1, p - 1)
           b == SubSeq(s, p + 1, n)
<1>1. n \in Nat /\ At(s, e) \subseteq Nat /\ At(s, e) # {}
  BY LenProperties DEF At, Has
<1>2. p \in At(s, e)
  BY <1>1, FirstOf
<1>3. p \in 1..n /\ s[p] = e
  BY <1>2 DEF At
<1>4. Without(s, e) = a \o b
  BY <1>1 DEF Without, At
<1> HIDE DEF p
<1>5. \A i \in 1..n : s[i] \in S
  BY ElementOfSeq
<1>6. /\ a \in Seq(S) /\ Len(a) = p - 1
      /\ \A i \in 1..(p - 1) : a[i] = s[i]
  <2>1. \A i \in 1..(p - 1) : s[i] \in S
    BY <1>1, <1>3, <1>5
  <2>2. /\ a \in Seq(S) /\ Len(a) = IF 1 <= p - 1 THEN (p - 1) - 1 + 1 ELSE 0
        /\ \A i \in 1..((p - 1) - 1 + 1) : a[i] = s[1 + i - 1]
    BY <1>1, <1>3, <2>1, SubSeqProperties
  <2>3. \A i \in 1..(p - 1) : 1 + i - 1 = i
    OBVIOUS
  <2> HIDE DEF a
  <2> QED  BY <1>1, <1>3, <2>2, <2>3
<1>7. /\ b \in Seq(S) /\ Len(b) = n - p
      /\ \A i \in 1..(n - p) : b[i] = s[p + i]
  <2>1. \A i \in (p + 1)..n : s[i] \in S
    BY <1>1, <1>3, <1>5
  <2>2. /\ b \in Seq(S) /\ Len(b) = IF p + 1 <= n THEN n - (p + 1) + 1 ELSE 0
        /\ \A i \in 1..(n - (p + 1) + 1) : b[i] = s[(p + 1) + i - 1]
    BY <1>1, <1>3, <2>1, SubSeqProperties
  <2>3. \A i \in 1..(n - p) : (p + 1) + i - 1 = p + i /\ n - (p + 1) + 1 = n - p
    BY <1>1, <1>3
  <2> HIDE DEF b
  <2> QED  BY <1>1, <1>3, <2>2, <2>3
<1> HIDE DEF a, b
<1>8. /\ Len(a \o b) = n - 1
      /\ \A i \in 1..(n - 1) : (a \o b)[i] = IF i <= p - 1 THEN a[i] ELSE b[i - (p - 1)]
  <2>1. /\ Len(a \o b) = Len(a) + Len(b)
        /\ \A i \in 1..(Len(a) + Len(b)) :
             (a \o b)[i] = IF i <= Len(a) THEN a[i] ELSE b[i - Len(a)]
    BY <1>6, <1>7, ConcatProperties
  <2>2. Len(a) = p - 1 /\ Len(a) + Len(b) = n - 1
    BY <1>1, <1>3, <1>6, <1>7
  <2> QED  BY <2>1, <2>2
<1>9. ASSUME NEW i \in 1..(n - 1)
      PROVE  (a \o b)[i] = IF i < p THEN s[i] ELSE s[i + 1]
  <2>1. CASE i < p
    BY <1>3, <1>6, <1>8, <2>1
  <2>2. CASE i >= p
    <3>1. (a \o b)[i] = b[i - (p - 1)] /\ i - (p - 1) \in 1..(n - p)
      BY <1>1, <1>3, <1>8, <2>2
    <3>2. p + (i - (p - 1)) = i + 1
      BY <1>3
    <3>3. ~(i < p) /\ b[i - (p - 1)] = s[i + 1]
      BY <1>1, <1>3, <1>7, <2>2, <3>1, <3>2
    <3> QED  BY <3>1, <3>3
  <2>3. i < p \/ i >= p
    BY <1>1, <1>3, <1>9
  <2> QED  BY <2>1, <2>2, <2>3
<1> QED  BY <1>3, <1>4, <1>8, <1>9

LEMMA CountWithout ==
  ASSUME NEW S, NEW s \in Seq(S), NEW e, NEW x, Has(s, e)
  PROVE  Count(Without(s, e), x) = Count(s, x) - (IF e = x THEN 1 ELSE 0)
<1> DEFINE w == Without(s, e)
           n == Len(s)
<1>1. PICK p \in 1..n : /\ s[p] = e /\ Len(w) = n - 1
                        /\ \A i \in 1..Len(w) : w[i] = IF i < p THEN s[i] ELSE s[i + 1]
  BY WithoutIs
<1>2. n \in Nat /\ w \in Seq(S)
  BY LenProperties, WithoutType
<1> HIDE DEF w
<1> DEFINE old == At(s, x) \ {p}
           new == At(w, x)
           f == [i \in new |-> IF i < p THEN i ELSE i + 1]
<1>3. /\ IsFiniteSet(At(s, x)) /\ Count(s, x) = Cardinality(At(s, x))
      /\ IsFiniteSet(new) /\ Count(w, x) = Cardinality(new) /\ Count(s, x) \in Nat
  BY <1>2, CountType
<1>4. new \subseteq 1..(n - 1) /\ old \subseteq 1..n
  BY <1>1 DEF At
<1>5. \A i \in new : f[i] \in old
  BY <1>1, <1>2, <1>4 DEF At
<1>6. \A i, j \in new : f[i] = f[j] => i = j
  BY <1>1, <1>2, <1>4
<1>7. ASSUME NEW j \in old PROVE \E i \in new : f[i] = j
  <2>1. j \in 1..n /\ s[j] = x /\ j # p
    BY <1>7 DEF At
  <2>2. CASE j < p
    <3>1. j \in 1..Len(w) /\ w[j] = x
      BY <1>1, <1>2, <2>1, <2>2
    <3>2. j \in new /\ f[j] = j
      BY <2>2, <3>1 DEF At
    <3> QED  BY <3>2
  <2>3. CASE j > p
    <3>1. j - 1 \in 1..Len(w) /\ ~(j - 1 < p) /\ (j - 1) + 1 = j
      BY <1>1, <1>2, <2>1, <2>3
    <3>2. w[j - 1] = x
      BY <1>1, <2>1, <3>1
    <3>3. j - 1 \in new /\ f[j - 1] = j
      BY <3>1, <3>2 DEF At
    <3> QED  BY <3>3
  <2> QED  BY <1>1, <1>2, <2>1, <2>2, <2>3
<1>8. f \in Bijection(new, old)
  <2>1. f \in [new -> old]
    BY <1>5
  <2> HIDE DEF f, new, old
  <2> QED  BY <1>6, <1>7, <2>1 DEF Bijection, Injection, Surjection, IsInjective, f
<1>9. Cardinality(old) = Cardinality(new)
  BY <1>3, <1>8, FS_Bijection DEF ExistsBijection
<1>10. Cardinality(old) = IF p \in At(s, x) THEN Cardinality(At(s, x)) - 1
                                            ELSE Cardinality(At(s, x))
  BY <1>3, FS_RemoveElement
<1>11. p \in At(s, x) <=> e = x
  BY <1>1 DEF At
<1> HIDE DEF old, new
<1> QED  BY <1>3, <1>9, <1>10, <1>11 DEF w

-----------------------------------------------------------------------------
(* What a command does to the two registries.                              *)

\* Each subscription of a context has its token in the registry of its channel.
RegisteredIn(ctx) ==
  \A c \in Channel : Count(ctx.subscriptions, c) <= Count(ctx.pubsub[c], ctx.token)

\* Other tokens stand in new as often as in old.
OthersKept(t, old, new) ==
  \A x \in Token \ {t}, c \in Channel : Count(new[c], x) = Count(old[c], x)

LEMMA SubscribeRegisters ==
  ASSUME NEW r \in Request, NEW ctx \in Context, r.channel \in Channel
  PROVE  LET new == subscribe(r, ctx).ctx
         IN  /\ RegisteredIn(ctx) => RegisteredIn(new)
             /\ new.token = ctx.token
             /\ OthersKept(ctx.token, ctx.pubsub, new.pubsub)
<1> DEFINE new == subscribe(r, ctx).ctx
           ch == r.channel
<1>1. /\ ctx.subscriptions \in Seq(Channel) /\ ctx.token \in Token
      /\ ctx.pubsub \in [Channel -> Seq(Token)]
  BY DEF Context, PubSub
<1>2. /\ new.subscriptions = Append(ctx.subscriptions, ch) /\ new.token = ctx.token
      /\ new.pubsub = [ctx.pubsub EXCEPT ![ch] = Append(@, ctx.token)]
  BY DEF subscribe, Ok, Result, Context
<1> HIDE DEF new
<1>3. \A c \in Channel : Count(new.subscriptions, c) =
                         Count(ctx.subscriptions, c) + IF ch = c THEN 1 ELSE 0
  BY <1>1, <1>2, CountAppend
<1>4. ASSUME NEW x \in Token, NEW c \in Channel
      PROVE  Count(new.pubsub[c], x) =
             Count(ctx.pubsub[c], x) + IF ch = c /\ x = ctx.token THEN 1 ELSE 0
  <2>1. Count(ctx.pubsub[c], x) \in Nat /\ ctx.pubsub[c] \in Seq(Token)
    BY <1>1, CountType
  <2>2. new.pubsub[c] = IF ch = c THEN Append(ctx.pubsub[c], ctx.token) ELSE ctx.pubsub[c]
    BY <1>1, <1>2
  <2>3. CASE ch = c
    BY <1>1, <2>1, <2>2, <2>3, CountAppend
  <2>4. CASE ch # c
    BY <2>1, <2>2, <2>4
  <2> QED  BY <2>3, <2>4
<1>5. \A c \in Channel : /\ Count(ctx.subscriptions, c) \in Nat
                         /\ \A x \in Token : Count(ctx.pubsub[c], x) \in Nat
  BY <1>1, CountType
<1>6. RegisteredIn(ctx) => RegisteredIn(new)
  BY <1>1, <1>2, <1>3, <1>4, <1>5 DEF RegisteredIn
<1>7. OthersKept(ctx.token, ctx.pubsub, new.pubsub)
  BY <1>4, <1>5 DEF OthersKept
<1> QED  BY <1>2, <1>6, <1>7 DEF new

LEMMA UnsubscribeRegisters ==
  ASSUME NEW r \in Request, NEW ctx \in Context, r.channel \in Channel
  PROVE  LET new == unsubscribe(r, ctx).ctx
         IN  /\ RegisteredIn(ctx) => RegisteredIn(new)
             /\ new.token = ctx.token
             /\ RegisteredIn(ctx) => OthersKept(ctx.token, ctx.pubsub, new.pubsub)
<1> DEFINE new == unsubscribe(r, ctx).ctx
           ch == r.channel
<1>1. /\ ctx.subscriptions \in Seq(Channel) /\ ctx.token \in Token
      /\ ctx.pubsub \in [Channel -> Seq(Token)]
  BY DEF Context, PubSub
<1>2. \A c \in Channel : /\ Count(ctx.subscriptions, c) \in Nat
                         /\ \A x \in Token : Count(ctx.pubsub[c], x) \in Nat
  BY <1>1, CountType
<1>3. CASE ~ctx.is_pubsub
  <2>1. new = ctx
    BY <1>3 DEF unsubscribe, Ok, Result
  <2> QED  BY <2>1 DEF OthersKept
<1>4. CASE ctx.is_pubsub /\ ~Has(ctx.subscriptions, ch)
  <2>1. Without(ctx.subscriptions, ch) = ctx.subscriptions
    BY <1>4 DEF Without, Has
  <2>2. /\ new.subscriptions = ctx.subscriptions /\ new.token = ctx.token
        /\ new.pubsub = [ctx.pubsub EXCEPT ![ch] = @]
    BY <1>4, <2>1 DEF unsubscribe, Ok, Result, Context
  <2>3. new.pubsub = ctx.pubsub
    BY <1>1, <2>2
  <2> HIDE DEF new
  <2> QED  BY <2>2, <2>3 DEF RegisteredIn, OthersKept, new
<1>5. CASE ctx.is_pubsub /\ Has(ctx.subscriptions, ch)
  <2>1. /\ new.subscriptions = Without(ctx.subscriptions, ch) /\ new.token = ctx.token
        /\ new.pubsub = [ctx.pubsub EXCEPT ![ch] = Without(@, ctx.token)]
    BY <1>5 DEF unsubscribe, Ok, Result, Context
  <2> HIDE DEF new
  <2> SUFFICES ASSUME RegisteredIn(ctx)
               PROVE  RegisteredIn(new) /\ OthersKept(ctx.token, ctx.pubsub, new.pubsub)
    BY <2>1 DEF new
  <2>2. \A c \in Channel : Count(new.subscriptions, c) =
                           Count(ctx.subscriptions, c) - IF ch = c THEN 1 ELSE 0
    BY <1>1, <1>5, <2>1, CountWithout
  <2>3. Has(ctx.pubsub[ch], ctx.token)
    <3>1. Count(ctx.subscriptions, ch) >= 1
      BY <1>1, <1>5, CountType
    <3>2. Count(ctx.pubsub[ch], ctx.token) >= 1
      BY <1>1, <1>2, <3>1 DEF RegisteredIn
    <3> QED  BY <1>1, <3>2, CountType
  <2>4. ASSUME NEW x \in Token, NEW c \in Channel
        PROVE  Count(new.pubsub[c], x) =
               Count(ctx.pubsub[c], x) - IF ch = c /\ x = ctx.token THEN 1 ELSE 0
    <3>1. Count(ctx.pubsub[c], x) \in Nat /\ ctx.pubsub[c] \in Seq(Token)
      BY <1>1, <1>2
    <3>2. new.pubsub[c] = IF ch = c THEN Without(ctx.pubsub[c], ctx.token)
                                    ELSE ctx.pubsub[c]
      BY <1>1, <2>1
    <3>3. CASE ch = c
      BY <2>3, <3>1, <3>2, <3>3, CountWithout
    <3>4. CASE ch # c
      BY <3>1, <3>2, <3>4
    <3> QED  BY <3>3, <3>4
  <2>5. RegisteredIn(new)
    BY <1>1, <1>2, <2>1, <2>2, <2>4 DEF RegisteredIn
  <2>6. OthersKept(ctx.token, ctx.pubsub, new.pubsub)
    BY <1>2, <2>4 DEF OthersKept
  <2> QED  BY <2>5, <2>6
<1> QED  BY <1>3, <1>4, <1>5

\* Every other command leaves both registries alone.
LEMMA OthersRegister ==
  ASSUME NEW r \in Request, NEW ctx \in Context, NEW tm \in Nat, r.cmd # "INLINE",
         r.cmd \notin {"SUBSCRIBE", "UNSUBSCRIBE"}
  PROVE  LET new == Execute(r, ctx, tm).ctx
         IN  /\ new.subscriptions = ctx.subscriptions /\ new.token = ctx.token
             /\ new.pubsub = ctx.pubsub
<1> DEFINE Same(res) == /\ res.ctx.subscriptions = ctx.subscriptions
                        /\ res.ctx.token = ctx.token /\ res.ctx.pubsub = ctx.pubsub
<1>1. /\ Same(ping(r, ctx)) /\ Same(echo(r, ctx)) /\ Same(typee(r, ctx))
      /\ Same(llen(r, ctx)) /\ Same(lrange(r, ctx)) /\ Same(publish(r, ctx))
      /\ \A reply : Same(Err(ctx, reply))
  BY OtherStep
<1>2. Same(set(r, ctx, tm))
  BY DEF set, Ok, Result, Context
<1>3. Same(get(r, ctx, tm))
  BY DEF get, Ok, Err, Result, WrongType, Context
<1>4. Same(rpush(r, ctx)) /\ Same(lpush(r, ctx))
  BY DEF rpush, lpush, Ok, Result, Context
<1>5. Same(lpop(r, ctx))
  BY DEF lpop, Ok, Err, Result, WrongType, Context
<1>6. Same(blpop(r, ctx))
  BY DEF blpop, Ok, Result, Context
<1>7. Same(xadd(r, ctx))
  BY DEF xadd, Ok, Err, Result, Context
<1>8. Same(Execute(r, ctx, tm))
  <2> HIDE DEF Same
  <2> QED  BY <1>1, <1>2, <1>3, <1>4, <1>5, <1>6, <1>7, ExecuteCases
<1> QED  BY <1>8

LEMMA ExecuteRegisters ==
  ASSUME NEW r \in Request, NEW ctx \in Context, NEW tm \in Nat, r.cmd # "INLINE",
         RegisteredIn(ctx)
  PROVE  LET new == Execute(r, ctx, tm).ctx
         IN  /\ RegisteredIn(new) /\ new.token = ctx.token
             /\ OthersKept(ctx.token, ctx.pubsub, new.pubsub)
<1> DEFINE Good(res) == /\ RegisteredIn(res.ctx) /\ res.ctx.token = ctx.token
                        /\ OthersKept(ctx.token, ctx.pubsub, res.ctx.pubsub)
<1>1. ASSUME NEW res, res.ctx.subscriptions = ctx.subscriptions,
             res.ctx.token = ctx.token, res.ctx.pubsub = ctx.pubsub
      PROVE  Good(res)
  BY <1>1 DEF RegisteredIn, OthersKept
<1>2. r.cmd = "SUBSCRIBE" => Good(subscribe(r, ctx))
  BY SubscribeRegisters, RequestFields
<1>3. r.cmd = "UNSUBSCRIBE" => Good(unsubscribe(r, ctx))
  BY UnsubscribeRegisters, RequestFields
<1>4. \A tag \in Tag : Good(Err(ctx, ReplyOf(r, tag)))
  <2> HIDE DEF Good
  <2> QED  BY <1>1 DEF Err, Result
<1>5. CASE r.cmd \in {"SUBSCRIBE", "UNSUBSCRIBE"}
  <2> HIDE DEF Good
  <2>1. Good(Execute(r, ctx, tm))
    BY <1>2, <1>3, <1>4, <1>5, ExecuteCases
  <2> QED  BY <2>1 DEF Good
<1>6. CASE r.cmd \notin {"SUBSCRIBE", "UNSUBSCRIBE"}
  BY <1>1, <1>6, OthersRegister
<1> QED  BY <1>5, <1>6

-----------------------------------------------------------------------------
(* The steps of the server.                                                *)

\* SubscriptionsRegistered holds of vacant slots too: their connection is new.
Registered ==
  \A t \in Token : \A c \in Channel :
    Count(conns[t].subscriptions, c) <= Count(pubsub[c], t)

\* x has the subscriptions it had before the step, or none.
KeepsOrDrops(x) ==
  conns'[x].subscriptions \in {conns[x].subscriptions, << >>}

LEMMA DropRegistered ==
  ASSUME TypeInv, Registered, NEW x \in Token, KeepsOrDrops(x), NEW c \in Channel,
         Count(pubsub'[c], x) = Count(pubsub[c], x)
  PROVE  Count(conns'[x].subscriptions, c) <= Count(pubsub'[c], x)
<1>1. pubsub[c] \in Seq(Token)
  BY DEF TypeInv, TypeOK, PubSub
<1>2. Count(pubsub[c], x) \in Nat
  BY <1>1, CountType
<1> QED  BY <1>2, CountEmpty DEF Registered, KeepsOrDrops

LEMMA DropsRegistered ==
  ASSUME TypeInv, Registered, UNCHANGED pubsub, \A x \in Token : KeepsOrDrops(x)
  PROVE  Registered'
BY DropRegistered DEF Registered

LEMMA FinishSubscriptions ==
  ASSUME TypeInv, NEW e \in Event, NEW c \in Connection, NEW s, NEW out, NEW woken,
         Finish(e, c, s, out, woken)
  PROVE  /\ conns'[e.token].subscriptions \in {c.subscriptions, << >>}
         /\ \A x \in Token \ {e.token} : KeepsOrDrops(x)
<1> DEFINE t == e.token
           other(x) == Queued(IF x = woken THEN Unblocked(conns[x]) ELSE conns[x], out[x])
<1>1. t \in Token /\ \A x \in Token : conns[x] \in Connection
  BY DEF Event, TypeInv, TypeOK
<1>2. \A x \in Token : other(x).subscriptions = conns[x].subscriptions
  BY <1>1 DEF Queued, Unblocked, Connection
<1>3. WrittenConn(c, s).subscriptions = c.subscriptions /\ NewConnection.subscriptions = << >>
  BY DEF WrittenConn, NewConnection, Connection
<1>4. \/ conns' = [x \in Token |-> IF x = t THEN NewConnection ELSE other(x)]
      \/ conns' = [x \in Token |-> IF x # t THEN other(x)
                                   ELSE IF e.writable THEN WrittenConn(c, s) ELSE c]
  BY DEF Finish
<1> HIDE DEF other
<1> QED  BY <1>1, <1>2, <1>3, <1>4 DEF KeepsOrDrops

\* A command that runs, with its token registered as its context says.
LEMMA RunRegistered ==
  ASSUME TypeInv, Registered, NEW e \in Event, NEW r \in Request, r.cmd # "INLINE",
         NEW s, NEW out, NEW woken,
         LET res == Execute(r, ContextOf(e.token), now)
         IN  /\ Finish(e, Answered(conns[e.token], res.ctx, res.reply), s, out, woken)
             /\ pubsub' = res.ctx.pubsub
  PROVE  Registered'
<1> DEFINE t == e.token
           ctx == ContextOf(t)
           res == Execute(r, ctx, now)
           c == Answered(conns[t], res.ctx, res.reply)
<1>1. t \in Token /\ conns[t] \in Connection /\ now \in Nat
  BY DEF Event, TypeInv, TypeOK
<1>2. ctx \in Context /\ c \in Connection /\ res.ctx.pubsub \in PubSub
  BY <1>1, ContextType, RunType
<1>3. /\ ctx.token = t /\ ctx.pubsub = pubsub /\ ctx.subscriptions = conns[t].subscriptions
  BY DEF ContextOf
<1>4. RegisteredIn(ctx)
  BY <1>1, <1>3 DEF RegisteredIn, Registered
<1> HIDE DEF ctx
<1>5. /\ RegisteredIn(res.ctx) /\ res.ctx.token = t
      /\ OthersKept(t, pubsub, res.ctx.pubsub)
  BY <1>1, <1>2, <1>3, <1>4, ExecuteRegisters
<1>6. c.subscriptions = res.ctx.subscriptions
  BY <1>1 DEF Answered, Connection
<1>7. Finish(e, c, s, out, woken) /\ pubsub' = res.ctx.pubsub
  BY DEF ctx
<1> HIDE DEF c, res
<1>8. /\ conns'[t].subscriptions \in {c.subscriptions, << >>}
      /\ \A x \in Token \ {t} : KeepsOrDrops(x)
  BY <1>2, <1>7, FinishSubscriptions
<1>9. ASSUME NEW x \in Token \ {t}, NEW ch \in Channel
      PROVE  Count(conns'[x].subscriptions, ch) <= Count(pubsub'[ch], x)
  BY <1>5, <1>7, <1>8, <1>9, DropRegistered DEF OthersKept
<1>10. ASSUME NEW ch \in Channel
       PROVE  Count(conns'[t].subscriptions, ch) <= Count(pubsub'[ch], t)
  <2>1. pubsub'[ch] \in Seq(Token)
    BY <1>2, <1>7, <1>10 DEF PubSub
  <2>2. Count(pubsub'[ch], t) \in Nat
    BY <2>1, CountType
  <2>3. Count(c.subscriptions, ch) <= Count(pubsub'[ch], t)
    BY <1>5, <1>6, <1>7, <1>10 DEF RegisteredIn
  <2> QED  BY <1>8, <2>2, <2>3, CountEmpty
<1> QED  BY <1>9, <1>10 DEF Registered

LEMMA EventRegistered ==
  ASSUME TypeInv, Registered, NEW e \in Event, HandleEvent(e)
  PROVE  Registered'
<1> DEFINE t == e.token
<1>1. t \in Token /\ conns[t] \in Connection /\ \A x \in Token : conns[x] \in Connection
  BY DEF Event, TypeInv, TypeOK
<1>2. CASE ReadBlocked(e)
  BY <1>2, DropsRegistered DEF ReadBlocked, store, KeepsOrDrops
<1>3. CASE WriteOnly(e)
  <2>1. Finish(e, conns[t], socks[t], Silence, None) /\ UNCHANGED pubsub
    BY <1>3 DEF WriteOnly, store
  <2>2. \A x \in Token : KeepsOrDrops(x)
    BY <1>1, <2>1, FinishSubscriptions DEF KeepsOrDrops
  <2> QED  BY <2>1, <2>2, DropsRegistered
<1>4. CASE ReadEof(e)
  <2>1. conns' = [conns EXCEPT ![t] = NewConnection] /\ UNCHANGED pubsub
    BY <1>4 DEF ReadEof, store
  <2>2. \A x \in Token : KeepsOrDrops(x)
    BY <1>1, <2>1 DEF NewConnection, KeepsOrDrops, TypeInv, TypeOK
  <2> QED  BY <2>1, <2>2, DropsRegistered
<1>5. ASSUME NEW n \in 0..Len(socks[t].inbox), NEW cut \in BOOLEAN,
             \/ ReadInvalid(e, n, cut) \/ ReadBlock(e, n, cut)
             \/ ReadCommand(e, n, cut) \/ ReadPush(e, n, cut)
      PROVE  Registered'
  <2> DEFINE r == Head(Buffer(t, n, cut))
  <2>1. Reads(e, n, cut)
    BY <1>5 DEF ReadInvalid, ReadBlock, ReadCommand, ReadPush
  <2>2. r \in Request
    BY <2>1, ReadsType
  <2>3. CASE ReadInvalid(e, n, cut)
    <3> DEFINE reply == ReplyOf(r, "error")
               c == Answered(conns[t], ContextOf(t), reply)
               s == Announced(conns[t], Drained(t, n, cut), <<reply>>)
    <3>1. Finish(e, c, s, Silence, None) /\ UNCHANGED pubsub
      BY <2>3 DEF ReadInvalid, store
    <3>2. c \in Connection /\ c.subscriptions = conns[t].subscriptions
      <4>1. reply \in Reply
        BY <2>2, ReplyOfType DEF Tag
      <4>2. ContextOf(t).subscriptions = conns[t].subscriptions
        BY DEF ContextOf
      <4>3. c.subscriptions = ContextOf(t).subscriptions
        BY <1>1 DEF Answered, Connection
      <4> HIDE DEF reply
      <4> QED  BY <1>1, <4>1, <4>2, <4>3, ContextType, AnsweredType
    <3> HIDE DEF c, s
    <3>3. \A x \in Token : KeepsOrDrops(x)
      BY <1>1, <3>1, <3>2, FinishSubscriptions DEF KeepsOrDrops
    <3> QED  BY <3>1, <3>3, DropsRegistered
  <2>4. CASE ReadBlock(e, n, cut)
    <3>1. UNCHANGED pubsub
      BY <2>4 DEF ReadBlock, store
    <3>2. PICK b, k, d : conns' = [conns EXCEPT ![t] = Blocked(@, b, k, d)]
      BY <2>4 DEF ReadBlock
    <3>3. \A x \in Token : KeepsOrDrops(x)
      BY <1>1, <3>2 DEF Blocked, Connection, KeepsOrDrops, TypeInv, TypeOK
    <3> QED  BY <3>1, <3>3, DropsRegistered
  <2>5. CASE ReadCommand(e, n, cut) \/ ReadPush(e, n, cut)
    <3> DEFINE res == Execute(r, ContextOf(t), now)
    <3>1. r.cmd # "INLINE" /\ pubsub' = res.ctx.pubsub
      BY <2>5 DEF ReadCommand, ReadPush, PushCommands
    <3>2. \E s, out, woken : Finish(e, Answered(conns[t], res.ctx, res.reply), s, out, woken)
      BY <2>5 DEF ReadCommand, ReadPush
    <3> HIDE DEF r
    <3> QED  BY <2>2, <3>1, <3>2, RunRegistered
  <2> QED  BY <1>5, <2>3, <2>4, <2>5
<1> QED  BY <1>2, <1>3, <1>4, <1>5 DEF HandleEvent

LEMMA RegisteredNext == TypeInv /\ Registered /\ [Next]_vars => Registered'
<1> SUFFICES ASSUME TypeInv, Registered, [Next]_vars PROVE Registered'
  OBVIOUS
<1>1. \A x \in Token : conns[x] \in Connection
  BY DEF TypeInv, TypeOK
<1>2. ASSUME NEW e \in events, e # ServerEvent, HandleEvent(e)
      PROVE  Registered'
  BY <1>2, EventInEvents, EventRegistered
<1>3. CASE LoopTop
  <2>1. /\ UNCHANGED pubsub
        /\ conns' = [t \in Token |-> IF TimedOut(t)
                                     THEN Queued(Unblocked(conns[t]), <<NilReply>>)
                                     ELSE conns[t]]
    BY <1>3 DEF LoopTop
  <2>2. \A x \in Token : KeepsOrDrops(x)
    BY <1>1, <2>1 DEF Queued, Unblocked, Connection, KeepsOrDrops
  <2> QED  BY <2>1, <2>2, DropsRegistered
<1>4. CASE Accept
  BY <1>4, DropsRegistered DEF Accept, NewConnection, KeepsOrDrops, store
<1>5. CASE UNCHANGED <<conns, pubsub>>
  BY <1>5 DEF Registered
<1>6. CASE \/ Poll \/ Connect \/ Tick
           \/ \E t \in Token : \/ \E r \in Requests : Send(t, r)
                               \/ Close(t) \/ Receive(t)
  BY <1>5, <1>6 DEF Poll, Connect, Tick, Send, Close, Receive, store
<1>7. CASE UNCHANGED vars
  BY <1>5, <1>7 DEF vars, store
<1> QED  BY <1>2, <1>3, <1>4, <1>6, <1>7 DEF Next, ServerStep

LEMMA RegisteredInit == Init => Registered
<1> SUFFICES ASSUME Init PROVE Registered
  OBVIOUS
<1>1. \A t \in Token : conns[t].subscriptions = << >>
  BY DEF Init, NewConnection
<1>2. \A c \in Channel : pubsub[c] = << >>
  BY DEF Init
<1> QED  BY <1>1, <1>2, CountEmpty DEF Registered

\* Whatever connections come and go, whatever stale tokens a channel holds, and in
\* whatever order clients subscribe and unsubscribe, the registry of a channel holds
\* the token of a subscriber at least once per subscription.
THEOREM SubscribersRegistered == Spec => []SubscriptionsRegistered
<1>1. Spec => []Registered
  BY TypeInvariant, RegisteredInit, RegisteredNext, PTL DEF Spec
<1>2. TypeInv /\ Registered => SubscriptionsRegistered
  BY DEF TypeInv, TypeOK, Registered, SubscriptionsRegistered
<1> QED  BY <1>1, <1>2, TypeInvariant, PTL

=============================================================================
