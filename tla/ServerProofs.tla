---------------------------- MODULE ServerProofs ----------------------------
(***************************************************************************)
(* The server keeps its state well formed, and what follows from that for  *)
(* the slab, the keyspace and the blocked clients.                         *)
(***************************************************************************)
EXTENDS Server, CommandsProofs, FiniteSetTheorems

-----------------------------------------------------------------------------
(* The operators of Connections.                                           *)

LEMMA NewType ==
  NewConnection \in Connection /\ NewSocket \in Socket /\ Len(NewSocket.outbox) = 0
BY EmptySeq DEF NewConnection, Connection, NewSocket, Socket

LEMMA QueuedType ==
  ASSUME NEW c \in Connection, NEW msgs \in Seq(Reply)
  PROVE  Queued(c, msgs) \in Connection
<1>1. c.write_buffer \o msgs \in Seq(Reply)
  BY ConcatProperties DEF Connection
<1> QED  BY <1>1 DEF Queued, Connection

LEMMA UnblockedType ==
  ASSUME NEW c \in Connection
  PROVE  Unblocked(c) \in Connection
BY DEF Unblocked, Connection

LEMMA BlockedType ==
  ASSUME NEW c \in Connection, NEW b \in Seq(Request), NEW k \in Key,
         NEW d \in Nat \cup {None}
  PROVE  Blocked(c, b, k, d) \in Connection
BY DEF Blocked, Connection

LEMMA AnsweredType ==
  ASSUME NEW c \in Connection, NEW ctx \in Context, NEW reply \in Reply
  PROVE  Answered(c, ctx, reply) \in Connection
<1>1. Append(c.write_buffer, reply) \in Seq(Reply)
  BY AppendProperties DEF Connection
<1> QED  BY <1>1, EmptySeq DEF Answered, Connection, Context

\* Registering an interest changes neither stream of a socket.
LEMMA ReregisterType ==
  ASSUME NEW s \in Socket, NEW want \in BOOLEAN
  PROVE  /\ reregister(s, want) \in Socket
         /\ reregister(s, want).outbox = s.outbox
         /\ reregister(s, want).inbox = s.inbox
         /\ reregister(s, want).eof = s.eof
<1>1. Readable(s) \in BOOLEAN /\ Writable([s EXCEPT !.want = want]) \in BOOLEAN
  BY DEF Readable, Writable, Socket
<1> QED  BY <1>1 DEF reregister, Socket

LEMMA AnnouncedType ==
  ASSUME NEW c, NEW s \in Socket, NEW msgs
  PROVE  Announced(c, s, msgs) \in Socket /\ Announced(c, s, msgs).outbox = s.outbox
<1> DEFINE registered == reregister(s, TRUE)
<1>1. registered \in Socket /\ registered.outbox = s.outbox
  BY ReregisterType
<1>2. Announced(c, s, msgs) = registered \/ Announced(c, s, msgs) = s
  BY DEF Announced
<1> HIDE DEF registered
<1> QED  BY <1>1, <1>2

\* A write takes a prefix of the buffer that fits into the socket.
LEMMA AcceptedType ==
  ASSUME NEW c \in Connection, NEW s \in Socket, Len(s.outbox) <= SndBuf
  PROVE  /\ Accepted(c, s) \in 0..Len(c.write_buffer)
         /\ ~s.eof => Len(s.outbox) + Accepted(c, s) <= SndBuf
<1> DEFINE len == Len(c.write_buffer)
           used == Len(s.outbox)
           n == Accepted(c, s)
<1>1. used \in Nat /\ len \in Nat /\ SndBuf \in Nat
  BY LenProperties, ConnectionsAssumption DEF Connection, Socket
<1>2. n = IF s.eof \/ len <= SndBuf - used THEN len ELSE SndBuf - used
  BY DEF Accepted
<1> HIDE DEF len, used, n
<1>3. used <= SndBuf
  BY DEF used
<1>4. n \in 0..len /\ (~s.eof => used + n <= SndBuf)
  BY <1>1, <1>2, <1>3
<1> QED  BY <1>4 DEF len, used, n

LEMMA WrittenType ==
  ASSUME NEW c \in Connection, NEW s \in Socket, Len(s.outbox) <= SndBuf
  PROVE  /\ WrittenConn(c, s) \in Connection
         /\ WrittenSock(c, s) \in Socket
         /\ Len(WrittenSock(c, s).outbox) <= SndBuf
<1> DEFINE n == Accepted(c, s)
           part == SubSeq(c.write_buffer, 1, n)
           after == IF s.eof THEN s ELSE [s EXCEPT !.outbox = @ \o part]
<1>1. /\ c.write_buffer \in Seq(Reply) /\ Len(c.write_buffer) \in Nat
      /\ s.outbox \in Seq(Reply) /\ Len(s.outbox) \in Nat
  BY LenProperties DEF Connection, Socket
<1>2. n \in 0..Len(c.write_buffer) /\ (~s.eof => Len(s.outbox) + n <= SndBuf)
  BY AcceptedType
<1> HIDE DEF n
<1>3. SubSeq(c.write_buffer, n + 1, Len(c.write_buffer)) \in Seq(Reply)
  BY <1>1, <1>2, SubSeqType
<1>4. part \in Seq(Reply) /\ Len(part) = n
  BY <1>1, <1>2, SubSeqProperties, SubSeqType
<1> HIDE DEF part
<1>5. after \in Socket /\ Len(after.outbox) <= SndBuf
  <2>1. CASE s.eof
    BY <2>1
  <2>2. CASE ~s.eof
    <3>1. s.outbox \o part \in Seq(Reply) /\ Len(s.outbox \o part) = Len(s.outbox) + n
      BY <1>1, <1>4, ConcatProperties
    <3> QED  BY <1>2, <2>2, <3>1 DEF Socket
  <2> QED  BY <2>1, <2>2
<1>6. WrittenConn(c, s) \in Connection
  BY <1>3 DEF WrittenConn, Connection, n
<1>7. \/ WrittenSock(c, s) = reregister(after, FALSE)
      \/ WrittenSock(c, s) = after
  BY DEF WrittenSock, n, part
<1> HIDE DEF after
<1> QED  BY <1>5, <1>6, <1>7, ReregisterType

-----------------------------------------------------------------------------
(* Type correctness.                                                       *)

\* A socket takes no more than fits, and the backlog no more than the slab.
OutboxOK  == \A t \in Token : Len(socks[t].outbox) <= SndBuf
BacklogOK == backlog <= Len(free)

TypeInv == TypeOK /\ OutboxOK /\ BacklogOK

\* The parts of TypeInv that the end of an event is responsible for.
EventTyped ==
  /\ conns' \in [Token -> Connection]
  /\ slab' \subseteq Token
  /\ free' \in Seq(Token) /\ Len(free') >= Len(free)
  /\ events' \subseteq Event \cup {ServerEvent}
  /\ socks' \in [Token -> Socket] /\ OutboxOK'
  /\ pending' \in [Token -> Seq(Request)]
  /\ UNCHANGED <<now, polling, backlog, sent, connects>>

\* The parts of TypeInv that a command is responsible for.
StoreTyped ==
  /\ db' \in DB /\ expiries' \in Expiries /\ pubsub' \in PubSub
  /\ blocked_queues' \in [Key -> Seq(Token)]
  /\ blocked_timeouts' \subseteq Nat \X Token

LEMMA TypedStep ==
  ASSUME TypeInv, EventTyped, StoreTyped
  PROVE  TypeInv'
<1>1. Len(free) \in Nat /\ Len(free') \in Nat
  BY LenProperties DEF TypeInv, TypeOK, EventTyped
<1>2. BacklogOK'
  BY <1>1 DEF TypeInv, TypeOK, BacklogOK, EventTyped
<1> QED  BY <1>2 DEF TypeInv, TypeOK, EventTyped, StoreTyped

LEMMA SameStoreTyped ==
  ASSUME TypeInv, UNCHANGED <<store, waiters>>
  PROVE  StoreTyped
BY DEF TypeInv, TypeOK, store, waiters, StoreTyped

LEMMA RemovedType ==
  ASSUME TypeInv, NEW t \in Token, Removed(t)
  PROVE  /\ slab' \subseteq Token
         /\ free' \in Seq(Token) /\ Len(free') = Len(free) + 1
         /\ pending' \in [Token -> Seq(Request)]
<1>1. free \in Seq(Token) /\ <<t>> \in Seq(Token) /\ Len(<<t>>) = 1
  BY DEF TypeInv, TypeOK
<1>2. <<t>> \o free \in Seq(Token) /\ Len(<<t>> \o free) = Len(<<t>>) + Len(free)
  BY <1>1, ConcatProperties
<1>3. Len(free) \in Nat
  BY <1>1, LenProperties
<1> QED  BY <1>1, <1>2, <1>3, EmptySeq DEF Removed, TypeInv, TypeOK

LEMMA FinishType ==
  ASSUME TypeInv, NEW e \in Event, NEW c \in Connection, NEW s \in Socket,
         Len(s.outbox) <= SndBuf, NEW out \in [Token -> Seq(Reply)], NEW woken,
         Finish(e, c, s, out, woken)
  PROVE  EventTyped
<1> DEFINE t == e.token
           others(x) == Queued(IF x = woken THEN Unblocked(conns[x]) ELSE conns[x], out[x])
<1>1. t \in Token
  BY DEF Event
<1>2. /\ events' \subseteq Event \cup {ServerEvent}
      /\ UNCHANGED <<now, polling, backlog, sent, connects>>
  BY DEF Finish, TypeInv, TypeOK
<1>3. \A x \in Token : /\ conns[x] \in Connection
                       /\ socks[x] \in Socket /\ Len(socks[x].outbox) <= SndBuf
  BY DEF TypeInv, TypeOK, OutboxOK
<1>4. ASSUME NEW x \in Token PROVE others(x) \in Connection
  <2>1. Unblocked(conns[x]) \in Connection
    BY <1>3, UnblockedType
  <2> QED  BY <1>3, <2>1, QueuedType
<1>5. ASSUME NEW x \in Token
      PROVE  /\ Announced(conns[x], socks[x], out[x]) \in Socket
             /\ Len(Announced(conns[x], socks[x], out[x]).outbox) <= SndBuf
  BY <1>3, AnnouncedType
<1>6. /\ WrittenConn(c, s) \in Connection
      /\ WrittenSock(c, s) \in Socket
      /\ Len(WrittenSock(c, s).outbox) <= SndBuf
  BY WrittenType
<1> HIDE DEF others, t
<1>7. CASE /\ Removed(t)
           /\ conns' = [x \in Token |-> IF x = t THEN NewConnection ELSE others(x)]
           /\ socks' = [x \in Token |-> IF x = t THEN NewSocket
                                        ELSE Announced(conns[x], socks[x], out[x])]
  <2>1. conns' \in [Token -> Connection]
    BY <1>4, <1>7, NewType
  <2>2. socks' \in [Token -> Socket]
    BY <1>5, <1>7, NewType
  <2>3. OutboxOK'
    BY <1>5, <1>7, NewType, ConnectionsAssumption DEF OutboxOK
  <2>4. Len(free) \in Nat
    BY LenProperties DEF TypeInv, TypeOK
  <2> QED  BY <1>1, <1>2, <1>7, <2>1, <2>2, <2>3, <2>4, RemovedType DEF EventTyped
<1>8. CASE /\ Kept
           /\ conns' = [x \in Token |->
                           IF x # t THEN others(x)
                           ELSE IF e.writable THEN WrittenConn(c, s) ELSE c]
           /\ socks' = [x \in Token |->
                           IF x # t THEN Announced(conns[x], socks[x], out[x])
                           ELSE IF e.writable THEN WrittenSock(c, s) ELSE s]
  <2>1. conns' \in [Token -> Connection]
    BY <1>4, <1>6, <1>8
  <2>2. socks' \in [Token -> Socket]
    BY <1>5, <1>6, <1>8
  <2>3. OutboxOK'
    BY <1>5, <1>6, <1>8 DEF OutboxOK
  <2>4. Len(free) \in Nat
    BY LenProperties DEF TypeInv, TypeOK
  <2> QED  BY <1>2, <1>8, <2>1, <2>2, <2>3, <2>4 DEF EventTyped, Kept, TypeInv, TypeOK
<1> QED  BY <1>7, <1>8 DEF Finish, others, t

LEMMA PartType == Part \in Request /\ <<Part>> \in Seq(Request)
<1>1. Part \in Request
  BY DEF Part, Request
<1> QED  BY <1>1

\* A read leaves at least one request to look at, and the rest in the socket.
LEMMA ReadsSeq ==
  ASSUME NEW S, Part \in S, NEW e, NEW n \in 0..Len(socks[e.token].inbox),
         NEW cut \in BOOLEAN, Reads(e, n, cut), socks[e.token] \in Socket,
         conns[e.token].read_buffer \in Seq(S), socks[e.token].inbox \in Seq(S)
  PROVE  /\ Buffer(e.token, n, cut) \in Seq(S)
         /\ Head(Buffer(e.token, n, cut)) \in S
         /\ Drained(e.token, n, cut).inbox \in Seq(S)
         /\ Drained(e.token, n, cut) =
              [socks[e.token] EXCEPT !.inbox = Drained(e.token, n, cut).inbox]
<1> DEFINE t == e.token
           in == socks[t].inbox
           old == conns[t].read_buffer
           new == SubSeq(in, 1, n)
           rest == IF cut THEN <<Part>> \o SubSeq(in, n + 2, Len(in))
                   ELSE SubSeq(in, n + 1, Len(in))
<1>0. <<Part>> \in Seq(S)
  OBVIOUS
<1>2. in \in Seq(S) /\ old \in Seq(S) /\ Len(in) \in Nat
  BY LenProperties
<1>3. IF cut THEN n \in 0..(Len(in) - 1) ELSE n \in 1..Len(in)
  BY DEF Reads
<1> HIDE DEF in, old
<1>4. new \in Seq(S) /\ Len(new) = n /\ n \in Nat
  BY <1>2, SubSeqType, SubSeqProperties DEF in
<1>5. SubSeq(in, n + 1, Len(in)) \in Seq(S)
  BY <1>2, <1>4, SubSeqType
<1>6. SubSeq(in, n + 2, Len(in)) \in Seq(S)
  BY <1>2, <1>4, SubSeqType
<1>7. rest \in Seq(S)
  BY <1>5, <1>6, <1>0, ConcatProperties
<1>8. Buffer(t, n, cut) = (old \o new) \o (IF cut THEN <<Part>> ELSE << >>)
  BY DEF Buffer, in, old
<1> HIDE DEF new, rest
<1> DEFINE whole == old \o new
<1>9. Len(old) \in Nat /\ whole \in Seq(S) /\ Len(whole) = Len(old) + n
  BY <1>2, <1>4, ConcatProperties, LenProperties
<1> HIDE DEF whole
<1>10. Buffer(t, n, cut) \in Seq(S) /\ Buffer(t, n, cut) # << >>
  <2>1. CASE cut
    <3> DEFINE last == <<Part>>
    <3>1. last \in Seq(S) /\ Len(last) = 1
      BY <1>0
    <3> HIDE DEF last
    <3>2. whole \o last \in Seq(S) /\ Len(whole \o last) = Len(whole) + Len(last)
      BY <1>9, <3>1, ConcatProperties
    <3>3. Buffer(t, n, cut) = whole \o last
      BY <1>8, <2>1 DEF whole, last
    <3> QED  BY <1>4, <1>9, <3>1, <3>2, <3>3, EmptySeq
  <2>2. CASE ~cut
    <3>1. Buffer(t, n, cut) = whole
      BY <1>8, <1>9, <2>2, ConcatEmptySeq DEF whole
    <3> QED  BY <1>3, <1>4, <1>9, <2>2, <3>1, EmptySeq
  <2> QED  BY <2>1, <2>2
<1>11. Head(Buffer(t, n, cut)) \in S
  BY <1>10, HeadTailProperties
<1>12. Drained(t, n, cut) = [socks[t] EXCEPT !.inbox = rest]
  BY DEF Drained, rest, in
<1>13. Drained(t, n, cut).inbox = rest
  BY <1>12 DEF Socket
<1> QED  BY <1>7, <1>10, <1>11, <1>12, <1>13

LEMMA ReadsType ==
  ASSUME TypeInv, NEW e \in Event, NEW n \in 0..Len(socks[e.token].inbox),
         NEW cut \in BOOLEAN, Reads(e, n, cut)
  PROVE  /\ Buffer(e.token, n, cut) \in Seq(Request)
         /\ Head(Buffer(e.token, n, cut)) \in Request
         /\ Drained(e.token, n, cut) \in Socket
         /\ Drained(e.token, n, cut).outbox = socks[e.token].outbox
<1> DEFINE in == Drained(e.token, n, cut).inbox
<1>1. conns[e.token] \in Connection /\ socks[e.token] \in Socket
  BY DEF Event, TypeInv, TypeOK
<1>2. conns[e.token].read_buffer \in Seq(Request) /\ socks[e.token].inbox \in Seq(Request)
  BY <1>1 DEF Connection, Socket
<1>3. /\ Buffer(e.token, n, cut) \in Seq(Request)
      /\ Head(Buffer(e.token, n, cut)) \in Request /\ in \in Seq(Request)
      /\ Drained(e.token, n, cut) = [socks[e.token] EXCEPT !.inbox = in]
  BY <1>1, <1>2, PartType, ReadsSeq
<1> HIDE DEF in
<1> QED  BY <1>1, <1>3 DEF Socket

LEMMA ContextType ==
  ASSUME TypeInv, NEW t \in Token
  PROVE  ContextOf(t) \in Context
<1>1. conns[t] \in Connection
  BY DEF TypeInv, TypeOK
<1> QED  BY <1>1 DEF ContextOf, Context, Connection, TypeInv, TypeOK

LEMMA SilenceType == Silence \in [Token -> Seq(Reply)]
BY EmptySeq DEF Silence

\* What a client that stays in the slab is left with by a reading event.
LEMMA AnnouncedReadType ==
  ASSUME TypeInv, NEW e \in Event, NEW n \in 0..Len(socks[e.token].inbox),
         NEW cut \in BOOLEAN, Reads(e, n, cut), NEW msgs
  PROVE  /\ Announced(conns[e.token], Drained(e.token, n, cut), msgs) \in Socket
         /\ Len(Announced(conns[e.token], Drained(e.token, n, cut), msgs).outbox) <= SndBuf
<1>1. e.token \in Token
  BY DEF Event
<1> QED  BY <1>1, ReadsType, AnnouncedType DEF TypeInv, OutboxOK

\* A command gives back a well-formed context and reply.
LEMMA RunType ==
  ASSUME TypeInv, NEW e \in Event, NEW r \in Request, r.cmd # "INLINE"
  PROVE  LET res == Execute(r, ContextOf(e.token), now)
         IN  /\ res \in ResultType
             /\ Answered(conns[e.token], res.ctx, res.reply) \in Connection
             /\ res.ctx.db \in DB /\ res.ctx.expiries \in Expiries
             /\ res.ctx.pubsub \in PubSub
<1> DEFINE res == Execute(r, ContextOf(e.token), now)
<1>1. e.token \in Token /\ now \in Nat
  BY DEF Event, TypeInv, TypeOK
<1>2. conns[e.token] \in Connection
  BY <1>1 DEF TypeInv, TypeOK
<1>3. res \in ResultType
  BY <1>1, ContextType, ExecuteType
<1> HIDE DEF res
<1>4. res.ctx \in Context /\ res.reply \in Reply
  BY <1>3 DEF ResultType
<1>5. Answered(conns[e.token], res.ctx, res.reply) \in Connection
  BY <1>2, <1>4, AnsweredType
<1>6. res.ctx.db \in DB /\ res.ctx.expiries \in Expiries /\ res.ctx.pubsub \in PubSub
  BY <1>4 DEF Context
<1> QED  BY <1>3, <1>5, <1>6 DEF res

LEMMA ReadInvalidType ==
  ASSUME TypeInv, NEW e \in Event, NEW n \in 0..Len(socks[e.token].inbox),
         NEW cut \in BOOLEAN, ReadInvalid(e, n, cut)
  PROVE  EventTyped /\ StoreTyped
<1> DEFINE t == e.token
           r == Head(Buffer(t, n, cut))
           reply == ReplyOf(r, "error")
           c == Answered(conns[t], ContextOf(t), reply)
           s == Announced(conns[t], Drained(t, n, cut), <<reply>>)
<1>1. Reads(e, n, cut) /\ t \in Token
  BY DEF ReadInvalid, Event
<1>2. reply \in Reply
  BY <1>1, ReadsType, ReplyOfType DEF Tag
<1>3. c \in Connection
  <2>1. conns[t] \in Connection /\ ContextOf(t) \in Context
    BY <1>1, ContextType DEF TypeInv, TypeOK
  <2> HIDE DEF reply
  <2> QED  BY <1>2, <2>1, AnsweredType
<1>4. s \in Socket /\ Len(s.outbox) <= SndBuf
  BY <1>1, AnnouncedReadType
<1>5. Finish(e, c, s, Silence, None) /\ UNCHANGED <<store, waiters>>
  BY DEF ReadInvalid
<1> HIDE DEF c, s
<1> QED  BY <1>3, <1>4, <1>5, SilenceType, FinishType, SameStoreTyped

LEMMA WriteOnlyType ==
  ASSUME TypeInv, NEW e \in Event, WriteOnly(e)
  PROVE  EventTyped /\ StoreTyped
<1> DEFINE c == conns[e.token]
           s == socks[e.token]
<1>1. e.token \in Token
  BY DEF Event
<1>2. c \in Connection /\ s \in Socket /\ Len(s.outbox) <= SndBuf
  BY <1>1 DEF TypeInv, TypeOK, OutboxOK
<1>3. Finish(e, c, s, Silence, None) /\ UNCHANGED <<store, waiters>>
  BY DEF WriteOnly
<1> HIDE DEF c, s
<1> QED  BY <1>2, <1>3, SilenceType, FinishType, SameStoreTyped

LEMMA ReadEofType ==
  ASSUME TypeInv, NEW e \in Event, ReadEof(e)
  PROVE  EventTyped /\ StoreTyped
<1>1. e.token \in Token
  BY DEF Event
<1>2. Removed(e.token) /\ UNCHANGED <<store, waiters, now, polling, backlog, sent, connects>>
  BY DEF ReadEof
<1>3. /\ conns' = [conns EXCEPT ![e.token] = NewConnection]
      /\ socks' = [socks EXCEPT ![e.token] = NewSocket]
      /\ events' = events \ {e}
  BY DEF ReadEof
<1>4. conns' \in [Token -> Connection] /\ socks' \in [Token -> Socket]
  BY <1>3, NewType DEF TypeInv, TypeOK
<1>5. OutboxOK'
  BY <1>3, NewType, ConnectionsAssumption DEF TypeInv, TypeOK, OutboxOK
<1>6. Len(free) \in Nat
  BY LenProperties DEF TypeInv, TypeOK
<1>7. EventTyped
  BY <1>1, <1>2, <1>3, <1>4, <1>5, <1>6, RemovedType DEF EventTyped, TypeInv, TypeOK
<1>8. StoreTyped
  BY <1>2, SameStoreTyped
<1> QED  BY <1>7, <1>8

LEMMA ReadBlockedType ==
  ASSUME TypeInv, NEW e \in Event, ReadBlocked(e)
  PROVE  EventTyped /\ StoreTyped
<1>1. Len(free) \in Nat
  BY LenProperties DEF TypeInv, TypeOK
<1> QED
  BY <1>1 DEF ReadBlocked, EventTyped, StoreTyped, TypeInv, TypeOK, OutboxOK, store,
              waiters, clients

LEMMA ReadBlockType ==
  ASSUME TypeInv, NEW e \in Event, NEW n \in 0..Len(socks[e.token].inbox),
         NEW cut \in BOOLEAN, ReadBlock(e, n, cut)
  PROVE  EventTyped /\ StoreTyped
<1> DEFINE t == e.token
           b == Buffer(t, n, cut)
           r == Head(b)
           deadline == IF r.timeout > 0 THEN now + r.timeout ELSE None
           d == Drained(t, n, cut)
<1>1. Reads(e, n, cut) /\ t \in Token /\ now \in Nat
  BY DEF ReadBlock, Event, TypeInv, TypeOK
<1>2. b \in Seq(Request) /\ r \in Request /\ d \in Socket /\ d.outbox = socks[t].outbox
  BY <1>1, ReadsType
<1>3. /\ r.cmd = "BLPOP"
      /\ conns' = [conns EXCEPT ![t] = Blocked(@, b, r.key, deadline)]
      /\ socks' = [socks EXCEPT ![t] = d]
      /\ blocked_timeouts' = IF deadline = None THEN blocked_timeouts
                             ELSE blocked_timeouts \cup {<<deadline, t>>}
      /\ blocked_queues' = [blocked_queues EXCEPT ![r.key] = Append(@, t)]
      /\ events' = events \ {e}
      /\ UNCHANGED <<slab, free, store, now, polling, clients>>
  BY DEF ReadBlock
<1> HIDE DEF b, r, d
<1>4. r.key \in Key /\ deadline \in Nat \cup {None}
  BY <1>1, <1>2, <1>3, RequestFields
<1> HIDE DEF deadline
<1>5. conns' \in [Token -> Connection]
  BY <1>1, <1>2, <1>3, <1>4, BlockedType DEF TypeInv, TypeOK
<1>6. socks' \in [Token -> Socket] /\ OutboxOK'
  BY <1>1, <1>2, <1>3 DEF TypeInv, TypeOK, OutboxOK
<1>7. blocked_queues' \in [Key -> Seq(Token)]
  BY <1>1, <1>3, <1>4, AppendProperties DEF TypeInv, TypeOK
<1>8. blocked_timeouts' \subseteq Nat \X Token
  BY <1>1, <1>3, <1>4 DEF TypeInv, TypeOK
<1>9. Len(free) \in Nat
  BY LenProperties DEF TypeInv, TypeOK
<1> QED
  BY <1>3, <1>5, <1>6, <1>7, <1>8, <1>9
     DEF EventTyped, StoreTyped, TypeInv, TypeOK, store, clients

\* A published message is a reply, and each subscriber gets finitely many copies.
LEMMA DeliveriesType ==
  ASSUME TypeInv, NEW p \in Publication, NEW t
  PROVE  Deliveries(p, t) \in [Token -> Seq(Reply)]
<1> DEFINE subs == pubsub[p.channel]
           message == [cmd |-> "message", tag |-> "array", about |-> p.channel,
                       body |-> <<p.message>>, num |-> 0]
           copies(x) == Cardinality({j \in 1..Len(subs) : subs[j] = x})
<1>1. message \in Reply
  <2>1. p.channel \in Channel /\ <<p.message>> \in Seq(Data)
    BY DEF Publication
  <2> QED  BY <2>1 DEF Reply, Cmd, Tag
<1>2. ASSUME NEW x \in Token
      PROVE  [i \in 1..copies(x) |-> message] \in Seq(Reply)
  <2>1. Len(subs) \in Nat
    BY LenProperties DEF Publication, TypeInv, TypeOK, PubSub
  <2>2. IsFiniteSet(1..Len(subs))
    BY <2>1, FS_Interval
  <2>3. copies(x) \in Nat
    BY <2>2, FS_Subset, FS_CardinalityType
  <2> HIDE DEF copies, message
  <2>4. [i \in 1..copies(x) |-> message] \in [1..copies(x) -> Reply]
    BY <1>1
  <2> QED  BY <2>3, <2>4, SeqDef
<1> HIDE DEF copies, message
<1>3. Deliveries(p, t) = [x \in Token |-> IF x \in slab \ {t}
                                         THEN [i \in 1..copies(x) |-> message] ELSE << >>]
  BY DEF Deliveries, copies, message
<1> QED  BY <1>2, <1>3, EmptySeq

LEMMA ReadCommandType ==
  ASSUME TypeInv, NEW e \in Event, NEW n \in 0..Len(socks[e.token].inbox),
         NEW cut \in BOOLEAN, ReadCommand(e, n, cut)
  PROVE  EventTyped /\ StoreTyped
<1> DEFINE t == e.token
           r == Head(Buffer(t, n, cut))
           res == Execute(r, ContextOf(t), now)
           c == Answered(conns[t], res.ctx, res.reply)
           s == Announced(conns[t], Drained(t, n, cut), <<res.reply>>)
           out == IF res.publish = << >> THEN Silence ELSE Deliveries(res.publish[1], t)
<1>1. /\ Reads(e, n, cut) /\ r.cmd # "INLINE"
      /\ Finish(e, c, s, out, None)
      /\ db' = res.ctx.db /\ expiries' = res.ctx.expiries /\ pubsub' = res.ctx.pubsub
      /\ UNCHANGED waiters
  BY DEF ReadCommand
<1>2. r \in Request
  BY <1>1, ReadsType
<1>3. s \in Socket /\ Len(s.outbox) <= SndBuf
  BY <1>1, AnnouncedReadType
<1>4. /\ res \in ResultType /\ c \in Connection
      /\ res.ctx.db \in DB /\ res.ctx.expiries \in Expiries /\ res.ctx.pubsub \in PubSub
  <2> HIDE DEF r
  <2> QED  BY <1>1, <1>2, RunType
<1> HIDE DEF c, s, res
<1>5. out \in [Token -> Seq(Reply)]
  <2>1. CASE res.publish = << >>
    BY <2>1, SilenceType
  <2>2. CASE res.publish # << >>
    <3>1. res.publish \in Seq(Publication)
      BY <1>4 DEF ResultType
    <3>2. 1 \in 1..Len(res.publish)
      BY <2>2, <3>1, EmptySeq
    <3>3. res.publish[1] \in Publication
      BY <3>1, <3>2, ElementOfSeq
    <3> QED  BY <2>2, <3>3, DeliveriesType
  <2> QED  BY <2>1, <2>2
<1> HIDE DEF out
<1>6. EventTyped
  BY <1>1, <1>3, <1>4, <1>5, FinishType
<1>7. StoreTyped
  BY <1>1, <1>4 DEF StoreTyped, TypeInv, TypeOK, waiters
<1> QED  BY <1>6, <1>7

\* The served waiter is a token, and the ones behind it remain.
LEMMA ServedType ==
  ASSUME NEW q \in Seq(Token)
  PROVE  /\ Woken(q) \in Token \cup {None}
         /\ Unserved(q) \in Seq(Token)
         /\ Served(q) # {} => /\ First(Served(q)) \in Served(q)
                              /\ \A j \in Served(q) : First(Served(q)) <= j
                              /\ Woken(q) = q[First(Served(q))]
<1>1. Len(q) \in Nat /\ Served(q) \subseteq 1..Len(q)
  BY LenProperties DEF Served
<1>2. Served(q) \in SUBSET Nat
  BY <1>1
<1>3. CASE Served(q) = {}
  BY <1>3, EmptySeq DEF Woken, Unserved
<1>4. CASE Served(q) # {}
  <2> DEFINE f == First(Served(q))
  <2>1. f \in Served(q) /\ \A j \in Served(q) : f <= j
    BY <1>2, <1>4, FirstOf
  <2>2. f \in 1..Len(q)
    BY <1>1, <2>1
  <2>3. q[f] \in Token
    BY <2>2, ElementOfSeq
  <2> HIDE DEF f
  <2>4. SubSeq(q, f + 1, Len(q)) \in Seq(Token)
    BY <1>1, <2>2, SubSeqType
  <2> QED  BY <1>4, <2>1, <2>3, <2>4 DEF Woken, Unserved, f
<1> QED  BY <1>3, <1>4

\* The element that a push hands over comes off a list.
LEMMA HandType ==
  ASSUME NEW d \in DB, NEW k \in Key, Items(d, k) # << >>
  PROVE  /\ WithItems(d, k, Tail(Items(d, k))) \in DB
         /\ PopReply(k, Head(Items(d, k))) \in Reply
         /\ IsList(d, k) /\ Tail(Items(d, k)) \in Seq(Data)
<1>1. Items(d, k) \in Seq(Data)
  BY ItemsType
<1>2. Head(Items(d, k)) \in Data /\ Tail(Items(d, k)) \in Seq(Data)
  BY <1>1, HeadTailProperties
<1>3. IsList(d, k)
  BY DEF Items
<1> QED  BY <1>2, <1>3, WithItemsType, PopReplyType

LEMMA ReadPushType ==
  ASSUME TypeInv, NEW e \in Event, NEW n \in 0..Len(socks[e.token].inbox),
         NEW cut \in BOOLEAN, ReadPush(e, n, cut)
  PROVE  EventTyped /\ StoreTyped
<1> DEFINE t == e.token
           r == Head(Buffer(t, n, cut))
           res == Execute(r, ContextOf(t), now)
           q == blocked_queues[r.key]
           items == Items(res.ctx.db, r.key)
           hand == Woken(q) # None /\ items # << >>
           c == Answered(conns[t], res.ctx, res.reply)
           s == Announced(conns[t], Drained(t, n, cut), <<res.reply>>)
           out == [x \in Token |-> IF hand /\ x = Woken(q)
                                   THEN <<PopReply(r.key, Head(items))>> ELSE << >>]
<1>1. /\ Reads(e, n, cut) /\ r.cmd \in PushCommands
      /\ Finish(e, c, s, out, Woken(q))
      /\ blocked_queues' = [blocked_queues EXCEPT ![r.key] = Unserved(q)]
      /\ db' = IF hand THEN WithItems(res.ctx.db, r.key, Tail(items)) ELSE res.ctx.db
      /\ expiries' = res.ctx.expiries /\ pubsub' = res.ctx.pubsub
      /\ UNCHANGED blocked_timeouts
  BY DEF ReadPush
<1>2. r \in Request
  BY <1>1, ReadsType
<1>3. s \in Socket /\ Len(s.outbox) <= SndBuf
  BY <1>1, AnnouncedReadType
<1> HIDE DEF r
<1>4. r.key \in Key /\ r.cmd # "INLINE"
  BY <1>1, <1>2, RequestFields DEF PushCommands
<1>5. /\ c \in Connection
      /\ res.ctx.db \in DB /\ res.ctx.expiries \in Expiries /\ res.ctx.pubsub \in PubSub
  BY <1>2, <1>4, RunType
<1> HIDE DEF c, s, res
<1>6. q \in Seq(Token)
  BY <1>4 DEF TypeInv, TypeOK
<1>7. Unserved(q) \in Seq(Token)
  BY <1>6, ServedType
<1>8. hand => /\ WithItems(res.ctx.db, r.key, Tail(items)) \in DB
              /\ PopReply(r.key, Head(items)) \in Reply
  BY <1>4, <1>5, HandType
<1> HIDE DEF hand, items, q
<1>9. out \in [Token -> Seq(Reply)]
  <2>1. hand => <<PopReply(r.key, Head(items))>> \in Seq(Reply)
    BY <1>8
  <2> QED  BY <2>1, EmptySeq
<1> HIDE DEF out
<1>10. EventTyped
  BY <1>1, <1>3, <1>5, <1>9, FinishType
<1>11. StoreTyped
  <2>1. blocked_queues' \in [Key -> Seq(Token)]
    BY <1>1, <1>4, <1>7 DEF TypeInv, TypeOK
  <2>2. db' \in DB
    BY <1>1, <1>5, <1>8
  <2> QED  BY <1>1, <1>5, <2>1, <2>2 DEF StoreTyped, TypeInv, TypeOK
<1> QED  BY <1>10, <1>11

LEMMA HandleEventType ==
  ASSUME TypeInv, NEW e \in Event, HandleEvent(e)
  PROVE  TypeInv'
<1>1. EventTyped /\ StoreTyped
  BY ReadBlockedType, WriteOnlyType, ReadEofType, ReadInvalidType, ReadBlockType,
     ReadCommandType, ReadPushType DEF HandleEvent
<1> QED  BY <1>1, TypedStep

LEMMA NilReplyType == NilReply \in Reply /\ <<NilReply>> \in Seq(Reply)
<1>1. NilReply \in Reply
  BY EmptySeq DEF NilReply, Reply, Cmd, Tag
<1> QED  BY <1>1

LEMMA LoopTopType ==
  ASSUME TypeInv, LoopTop
  PROVE  TypeInv'
<1>1. PICK swept \in Sweeps : db' = cleanup_expired(swept) /\ expiries' = expiries \ swept
  BY DEF LoopTop
<1>2. db' \in DB
  BY <1>1 DEF cleanup_expired, TypeInv, TypeOK, DB
<1>3. expiries' \in Expiries
  BY <1>1 DEF TypeInv, TypeOK, Expiries
<1>4. conns' \in [Token -> Connection]
  <2>1. \A t \in Token : Queued(Unblocked(conns[t]), <<NilReply>>) \in Connection
    BY UnblockedType, QueuedType, NilReplyType DEF TypeInv, TypeOK
  <2> QED  BY <2>1 DEF LoopTop, TypeInv, TypeOK
<1>5. socks' \in [Token -> Socket] /\ OutboxOK'
  <2>1. ASSUME NEW t \in Token
        PROVE  /\ Announced(conns[t], socks[t], <<NilReply>>) \in Socket
               /\ Announced(conns[t], socks[t], <<NilReply>>).outbox = socks[t].outbox
    BY AnnouncedType DEF TypeInv, TypeOK
  <2>2. socks' = [t \in Token |-> IF TimedOut(t)
                                  THEN Announced(conns[t], socks[t], <<NilReply>>)
                                  ELSE socks[t]]
    BY DEF LoopTop
  <2> QED  BY <2>1, <2>2 DEF TypeInv, TypeOK, OutboxOK
<1>6. blocked_timeouts' \subseteq Nat \X Token
  BY DEF LoopTop, TypeInv, TypeOK
<1> QED
  BY <1>2, <1>3, <1>4, <1>5, <1>6 DEF LoopTop, TypeInv, TypeOK, BacklogOK, clients

LEMMA PollType ==
  ASSUME TypeInv, Poll
  PROVE  TypeInv'
<1>1. \A t \in Token : socks[t] \in Socket
  BY DEF TypeInv, TypeOK
<1>2. ASSUME NEW t \in Token PROVE EventOf(t) \in Event
  <2>1. Readable(socks[t]) \in BOOLEAN /\ Writable(socks[t]) \in BOOLEAN
    BY <1>1 DEF Readable, Writable, Socket
  <2> QED  BY <2>1 DEF EventOf, Event
<1>3. events' \subseteq Event \cup {ServerEvent}
  BY <1>2 DEF Poll
<1>4. socks' \in [Token -> Socket] /\ OutboxOK'
  <2>1. ASSUME NEW t \in Token
        PROVE  /\ [socks[t] EXCEPT !.armed = FALSE] \in Socket
               /\ [socks[t] EXCEPT !.armed = FALSE].outbox = socks[t].outbox
    BY <1>1 DEF Socket
  <2>2. socks' = [t \in Token |-> IF Ready(t) THEN [socks[t] EXCEPT !.armed = FALSE]
                                              ELSE socks[t]]
    BY DEF Poll
  <2> QED  BY <1>1, <2>1, <2>2 DEF TypeInv, OutboxOK
<1> QED
  BY <1>3, <1>4 DEF Poll, TypeInv, TypeOK, BacklogOK, store, waiters, clients

LEMMA AcceptType ==
  ASSUME TypeInv, Accept
  PROVE  TypeInv'
<1> DEFINE accepted == {free[i] : i \in 1..backlog}
<1>1. free \in Seq(Token) /\ Len(free) \in Nat /\ backlog \in Nat /\ backlog <= Len(free)
  BY LenProperties DEF TypeInv, TypeOK, BacklogOK
<1>2. accepted \subseteq Token
  BY <1>1, ElementOfSeq
<1>3. SubSeq(free, backlog + 1, Len(free)) \in Seq(Token)
  BY <1>1, SubSeqType
<1>4. Len(free') \in Nat
  BY <1>3, LenProperties DEF Accept
<1>5. conns' \in [Token -> Connection]
  BY NewType DEF Accept, TypeInv, TypeOK
<1>6. socks' \in [Token -> Socket] /\ OutboxOK'
  BY NewType, ConnectionsAssumption DEF Accept, TypeInv, TypeOK, OutboxOK
<1>7. backlog' = 0 /\ BacklogOK'
  <2>1. backlog' = 0
    BY DEF Accept
  <2> QED  BY <1>4, <2>1 DEF BacklogOK
<1>8. slab' \subseteq Token /\ free' \in Seq(Token) /\ events' \subseteq events
  BY <1>2, <1>3 DEF Accept, TypeInv, TypeOK
<1>9. UNCHANGED <<store, waiters, now, polling, pending, sent, connects>>
  BY DEF Accept
<1> QED
  BY <1>5, <1>6, <1>7, <1>8, <1>9 DEF TypeInv, TypeOK, store, waiters

\* The steps outside the server change the sockets, the counters and the clock.
LEMMA ClientType ==
  ASSUME TypeInv,
         \/ Connect
         \/ \E t \in Token : \/ \E r \in Requests : Send(t, r)
                             \/ Close(t) \/ Receive(t)
         \/ Tick
  PROVE  TypeInv'
<1> USE DEF TypeInv, BacklogOK
<1>1. Len(free) \in Nat /\ now \in Nat /\ backlog \in Nat /\ connects \in Nat /\ sent \in Nat
  BY LenProperties DEF TypeOK
<1>2. CASE Connect
  BY <1>1, <1>2 DEF Connect, TypeOK, OutboxOK, store, waiters
<1>3. ASSUME NEW t \in Token, NEW r \in Requests, Send(t, r)
      PROVE  TypeInv'
  <2>1. socks[t] \in Socket /\ r \in Request /\ pending[t] \in Seq(Request)
    BY ServerAssumption DEF TypeOK
  <2>2. Append(socks[t].inbox, r) \in Seq(Request) /\ Append(pending[t], r) \in Seq(Request)
    BY <2>1, AppendProperties DEF Socket
  <2>3. socks' \in [Token -> Socket] /\ OutboxOK'
    BY <1>3, <2>1, <2>2 DEF Send, TypeOK, OutboxOK, Socket
  <2>4. pending' \in [Token -> Seq(Request)]
    BY <1>3, <2>2 DEF Send, TypeOK
  <2> QED  BY <1>1, <1>3, <2>3, <2>4 DEF Send, TypeOK, store, waiters
<1>4. ASSUME NEW t \in Token, Close(t)
      PROVE  TypeInv'
  <2>1. PICK rest \in {socks[t].inbox, << >>} :
          socks' = [socks EXCEPT ![t] = [@ EXCEPT !.inbox = rest, !.outbox = << >>,
                                                  !.eof = TRUE, !.armed = TRUE]]
    BY <1>4 DEF Close
  <2>2. socks[t] \in Socket /\ rest \in Seq(Request)
    BY EmptySeq DEF TypeOK, Socket
  <2>3. socks' \in [Token -> Socket] /\ OutboxOK'
    <3> DEFINE s == [socks[t] EXCEPT !.inbox = rest, !.outbox = << >>,
                                     !.eof = TRUE, !.armed = TRUE]
    <3>1. s \in Socket /\ Len(s.outbox) = 0
      BY <2>2, EmptySeq DEF Socket
    <3>2. socks' = [socks EXCEPT ![t] = s]
      BY <2>1
    <3> HIDE DEF s
    <3> QED  BY <3>1, <3>2, ConnectionsAssumption DEF TypeOK, OutboxOK
  <2>4. pending' \in [Token -> Seq(Request)]
    BY <1>4, EmptySeq DEF Close, TypeOK
  <2> QED  BY <1>1, <1>4, <2>3, <2>4 DEF Close, TypeOK, store, waiters
<1>5. ASSUME NEW t \in Token, Receive(t)
      PROVE  TypeInv'
  <2> DEFINE out == socks[t].outbox
             f == First(Terminated(out))
             left == SubSeq(out, f + 1, Len(out))
             arm == socks[t].armed \/ (socks[t].want /\ Len(out) = SndBuf)
  <2>1. socks[t] \in Socket /\ out \in Seq(Reply) /\ Len(out) \in Nat /\ Len(out) <= SndBuf
    BY LenProperties DEF TypeOK, OutboxOK, Socket
  <2>2. Terminated(out) \in SUBSET Nat /\ Terminated(out) # {}
    <3>1. Terminated(out) # {}
      BY <1>5 DEF Receive
    <3>2. Terminated(out) \subseteq 1..Len(out)
      BY DEF Terminated
    <3> HIDE DEF out
    <3> QED  BY <2>1, <3>1, <3>2
  <2>3. f \in 1..Len(out)
    BY <2>2, FirstOf DEF Terminated
  <2>4. socks' = [socks EXCEPT ![t] = [socks[t] EXCEPT !.outbox = left, !.armed = arm]]
    BY <1>5 DEF Receive
  <2>5. arm \in BOOLEAN
    BY <2>1 DEF Socket
  <2> HIDE DEF out, f, arm
  <2>6. left \in Seq(Reply) /\ Len(left) <= Len(out)
    BY <2>1, <2>3, SubSeqType, SubSeqProperties
  <2>7. Len(left) <= SndBuf
    BY <2>1, <2>6, LenProperties, ConnectionsAssumption
  <2> HIDE DEF left
  <2>8. socks' \in [Token -> Socket] /\ OutboxOK'
    BY <2>1, <2>4, <2>5, <2>6, <2>7 DEF TypeOK, OutboxOK, Socket
  <2>9. pending' \in [Token -> Seq(Request)]
    <3>1. pending[t] # << >> => Tail(pending[t]) \in Seq(Request)
      BY HeadTailProperties DEF TypeOK
    <3> QED  BY <1>5, <3>1 DEF Receive, TypeOK
  <2> QED  BY <1>1, <1>5, <2>8, <2>9 DEF Receive, TypeOK, store, waiters
<1>6. CASE Tick
  BY <1>1, <1>6 DEF Tick, TypeOK, OutboxOK, store, waiters, clients
<1> QED  BY <1>2, <1>3, <1>4, <1>5, <1>6

LEMMA EventInEvents ==
  ASSUME TypeInv, NEW e \in events, e # ServerEvent
  PROVE  e \in Event
BY DEF TypeInv, TypeOK

LEMMA TypeInit == Init => TypeInv
<1> SUFFICES ASSUME Init PROVE TypeInv
  OBVIOUS
<1>1. MaxConns \in Nat
  BY CommandsAssumption
<1>2. free \in Seq(Token) /\ Len(free) = MaxConns
  <2>1. free \in [1..MaxConns -> Token]
    BY DEF Init, Token
  <2>2. Len(free) = MaxConns
    BY <1>1, <2>1, LenProperties, SeqDef DEF Init, Token
  <2> QED  BY <1>1, <2>1, <2>2, SeqDef
<1>3. conns \in [Token -> Connection] /\ socks \in [Token -> Socket] /\ OutboxOK
  BY NewType, ConnectionsAssumption DEF Init, OutboxOK
<1>4. Absent \in Entry \cup {Absent} /\ db \in DB
  BY DEF Init, DB
<1>5. pubsub \in PubSub /\ blocked_queues \in [Key -> Seq(Token)]
      /\ pending \in [Token -> Seq(Request)]
  BY EmptySeq DEF Init, PubSub
<1>6. BacklogOK /\ now \in Nat /\ backlog \in Nat /\ sent \in Nat /\ connects \in Nat
  BY <1>1, <1>2 DEF Init, BacklogOK
<1>7. /\ slab \subseteq Token /\ expiries \in Expiries /\ blocked_timeouts \subseteq Nat \X Token
      /\ polling \in BOOLEAN /\ events \subseteq Event \cup {ServerEvent}
  BY DEF Init, Expiries
<1> QED  BY <1>2, <1>3, <1>4, <1>5, <1>6, <1>7 DEF TypeInv, TypeOK

LEMMA TypeNext == TypeInv /\ [Next]_vars => TypeInv'
<1> SUFFICES ASSUME TypeInv, [Next]_vars PROVE TypeInv'
  OBVIOUS
<1>1. CASE LoopTop \/ Poll \/ Accept
  BY <1>1, LoopTopType, PollType, AcceptType
<1>2. ASSUME NEW e \in events, e # ServerEvent, HandleEvent(e)
      PROVE  TypeInv'
  BY <1>2, EventInEvents, HandleEventType
<1>3. CASE \/ Connect
           \/ \E t \in Token : \/ \E r \in Requests : Send(t, r)
                               \/ Close(t) \/ Receive(t)
           \/ Tick
  BY <1>3, ClientType
<1>4. CASE UNCHANGED vars
  BY <1>4 DEF vars, store, waiters, clients, TypeInv, TypeOK, OutboxOK, BacklogOK
<1> QED  BY <1>1, <1>2, <1>3, <1>4 DEF Next, ServerStep

\* Whatever the clients send and whenever they leave, the state of the server
\* stays well formed: queues hold tokens, buffers hold requests and replies.
THEOREM TypeInvariant == Spec => []TypeInv
BY TypeInit, TypeNext, PTL DEF Spec

THEOREM TypeCorrect == Spec => []TypeOK
BY TypeInvariant, PTL DEF TypeInv

-----------------------------------------------------------------------------
(* The keyspace.                                                           *)

StoreInv == ExpiryIsScheduled /\ OnlyStringsExpire

\* What a step does for the keyspace: StepKeeps, with the heap of the server.
StoreKept ==
  /\ Scheduled(db, expiries) => Scheduled(db', expiries')
  /\ StringsOnly(db) => StringsOnly(db')
  /\ \A k \in Key : Present(db, k) /\ ~Present(db', k) => Expired(db[k], now)

\* The event e runs the request that it has read, on the keyspace and the heap.
Runs(e, n, cut) ==
  /\ Reads(e, n, cut)
  /\ StoreStep(Head(Buffer(e.token, n, cut)), db, db', expiries, expiries', now)

EventRuns(e) ==
  \E n \in 0..Len(socks[e.token].inbox), cut \in BOOLEAN : Runs(e, n, cut)

LEMMA ReadCommandStore ==
  ASSUME TypeInv, NEW e \in Event, NEW n \in 0..Len(socks[e.token].inbox),
         NEW cut \in BOOLEAN, ReadCommand(e, n, cut)
  PROVE  Runs(e, n, cut)
<1> DEFINE r == Head(Buffer(e.token, n, cut))
           c == Execute(r, ContextOf(e.token), now).ctx
<1>1. Reads(e, n, cut) /\ r.cmd # "INLINE" /\ db' = c.db /\ expiries' = c.expiries
  BY DEF ReadCommand
<1>2. r \in Request /\ ContextOf(e.token) \in Context /\ now \in Nat
  BY <1>1, ReadsType, ContextType DEF Event, TypeInv, TypeOK
<1>3. ContextOf(e.token).db = db /\ ContextOf(e.token).expiries = expiries
  BY DEF ContextOf
<1> HIDE DEF r
<1>4. StoreStep(r, db, c.db, expiries, c.expiries, now)
  BY <1>1, <1>2, <1>3, ExecuteStep
<1> HIDE DEF c
<1> QED  BY <1>1, <1>4 DEF Runs, r

LEMMA ReadPushStore ==
  ASSUME TypeInv, NEW e \in Event, NEW n \in 0..Len(socks[e.token].inbox),
         NEW cut \in BOOLEAN, ReadPush(e, n, cut)
  PROVE  Runs(e, n, cut)
<1> DEFINE r == Head(Buffer(e.token, n, cut))
           c == Execute(r, ContextOf(e.token), now).ctx
           items == Items(c.db, r.key)
           after == WithItems(c.db, r.key, Tail(items))
<1>1. /\ Reads(e, n, cut) /\ r.cmd \in PushCommands
      /\ (items # << >> /\ db' = after) \/ db' = c.db
      /\ expiries' = c.expiries
  BY DEF ReadPush
<1>2. r \in Request /\ ContextOf(e.token) \in Context /\ now \in Nat
  BY <1>1, ReadsType, ContextType DEF Event, TypeInv, TypeOK
<1>3. ContextOf(e.token).db = db /\ ContextOf(e.token).expiries = expiries
  BY DEF ContextOf
<1> HIDE DEF r
<1>4. r.key \in Key /\ r.cmd # "INLINE"
  BY <1>1, <1>2, RequestFields DEF PushCommands
<1>5. StoreStep(r, db, c.db, expiries, c.expiries, now)
  BY <1>2, <1>3, <1>4, ExecuteStep
<1>6. c.db \in DB
  BY <1>2, <1>4, RunType
<1> HIDE DEF c
<1>7. CASE db' = c.db
  BY <1>1, <1>5, <1>7 DEF Runs, r
<1>8. CASE items # << >> /\ db' = after
  <2>1. IsList(c.db, r.key) /\ Tail(items) \in Seq(Data)
    BY <1>4, <1>6, <1>8, HandType
  <2> HIDE DEF items
  <2>2. StoreStep(r, db, after, expiries, c.expiries, now)
    BY <1>4, <1>5, <1>6, <2>1, PushThenPop
  <2> QED  BY <1>1, <1>8, <2>2 DEF Runs, r
<1> QED  BY <1>1, <1>7, <1>8

LEMMA EventStore ==
  ASSUME TypeInv, NEW e \in Event, HandleEvent(e)
  PROVE  UNCHANGED <<db, expiries>> \/ EventRuns(e)
<1>1. ASSUME NEW n \in 0..Len(socks[e.token].inbox), NEW cut \in BOOLEAN,
             ReadCommand(e, n, cut) \/ ReadPush(e, n, cut)
      PROVE  EventRuns(e)
  BY <1>1, ReadCommandStore, ReadPushStore DEF EventRuns
<1>2. CASE ReadBlocked(e) \/ WriteOnly(e) \/ ReadEof(e)
  BY <1>2 DEF ReadBlocked, WriteOnly, ReadEof, store
<1>3. ASSUME NEW n \in 0..Len(socks[e.token].inbox), NEW cut \in BOOLEAN,
             ReadInvalid(e, n, cut) \/ ReadBlock(e, n, cut)
      PROVE  UNCHANGED <<db, expiries>>
  BY <1>3 DEF ReadInvalid, ReadBlock, store
<1> QED  BY <1>1, <1>2, <1>3 DEF HandleEvent

\* The keyspace changes at the top of the loop and when a request runs.
LEMMA StoreNext ==
  ASSUME TypeInv, [Next]_vars
  PROVE  \/ LoopTop
         \/ UNCHANGED <<db, expiries>>
         \/ \E e \in events : e # ServerEvent /\ EventRuns(e) /\ HandleEvent(e)
<1>1. ASSUME NEW e \in events, e # ServerEvent, HandleEvent(e)
      PROVE  UNCHANGED <<db, expiries>> \/ EventRuns(e)
  BY <1>1, EventInEvents, EventStore
<1>2. CASE \/ Poll \/ Accept \/ Connect \/ Tick
           \/ \E t \in Token : \/ \E r \in Requests : Send(t, r)
                               \/ Close(t) \/ Receive(t)
  BY <1>2 DEF Poll, Accept, Connect, Tick, Send, Close, Receive, store
<1>3. CASE UNCHANGED vars
  BY <1>3 DEF vars, store
<1> QED  BY <1>1, <1>2, <1>3 DEF Next, ServerStep

LEMMA EventStoreKept ==
  ASSUME TypeInv, NEW e, EventRuns(e)
  PROVE  StoreKept
<1>1. PICK n \in 0..Len(socks[e.token].inbox), cut \in BOOLEAN : Runs(e, n, cut)
  BY DEF EventRuns
<1>2. db \in DB
  BY DEF TypeInv, TypeOK
<1> QED  BY <1>1, <1>2, StepKeeps DEF StoreKept, Runs

\* The sweep removes a key by an entry that it pops, and pops no entry that
\* another key is left to wait for.
LEMMA LoopTopStore ==
  ASSUME TypeInv, LoopTop
  PROVE  StoreKept
<1>1. PICK swept \in Sweeps : db' = cleanup_expired(swept) /\ expiries' = expiries \ swept
  BY DEF LoopTop
<1>2. \A x \in swept : x[1] <= now
  BY <1>1 DEF Sweeps
<1>3. ASSUME NEW k \in Key
      PROVE  \/ db'[k] = db[k] /\ (db[k].expiry = None \/ <<db[k].expiry, k>> \notin swept)
             \/ db'[k] = Absent /\ db[k].expiry # None /\ <<db[k].expiry, k>> \in swept
  BY <1>1 DEF cleanup_expired
<1>4. Scheduled(db, expiries) => Scheduled(db', expiries')
  <2> SUFFICES ASSUME Scheduled(db, expiries), NEW k \in Key, db'[k].expiry # None
               PROVE  <<db'[k].expiry, k>> \in expiries'
    BY DEF Scheduled
  <2>1. db'[k] = db[k] /\ (db[k].expiry = None \/ <<db[k].expiry, k>> \notin swept)
    BY <1>3 DEF Absent
  <2>2. <<db[k].expiry, k>> \in expiries
    BY <2>1 DEF Scheduled
  <2> QED  BY <1>1, <2>1, <2>2
<1>5. StringsOnly(db) => StringsOnly(db')
  BY <1>3 DEF StringsOnly, IsList, IsStream, Present
<1>6. ASSUME NEW k \in Key, Present(db, k), ~Present(db', k)
      PROVE  Expired(db[k], now)
  <2>1. db[k].expiry # None /\ <<db[k].expiry, k>> \in swept
    BY <1>3, <1>6 DEF Present
  <2>2. db[k].expiry <= now
    BY <1>2, <2>1
  <2>3. db[k].expiry \in Nat /\ now \in Nat
    BY <1>6, <2>1, EntryType DEF TypeInv, TypeOK, Entry
  <2> QED  BY <2>1, <2>2, <2>3 DEF Expired
<1> QED  BY <1>4, <1>5, <1>6 DEF StoreKept

LEMMA StoreKeptNext == TypeInv /\ [Next]_vars => StoreKept
<1> SUFFICES ASSUME TypeInv, [Next]_vars PROVE StoreKept
  OBVIOUS
<1>1. CASE UNCHANGED <<db, expiries>>
  BY <1>1 DEF StoreKept
<1> QED  BY <1>1, StoreNext, LoopTopStore, EventStoreKept

LEMMA StoreInit == Init => StoreInv
BY DEF Init, StoreInv, ExpiryIsScheduled, OnlyStringsExpire, IsList, IsStream, Present, Absent

LEMMA StoreStepInv == TypeInv /\ StoreInv /\ [Next]_vars => StoreInv'
BY StoreKeptNext
   DEF StoreInv, ExpiryIsScheduled, OnlyStringsExpire, StoreKept, Scheduled, StringsOnly

LEMMA StoreInvariant == Spec => []StoreInv
BY TypeInvariant, StoreInit, StoreStepInv, PTL DEF Spec

\* An expiry that a SET asked for is in the heap until it is due: overwriting the
\* key, GET and the bounded sweeps never take the two structures apart.
THEOREM ExpiriesScheduled == Spec => []ExpiryIsScheduled
BY StoreInvariant, PTL DEF StoreInv

\* A list or a stream never has an expiry, though a push or an XADD may take the key
\* of a string that has.
THEOREM ListsNeverExpire == Spec => []OnlyStringsExpire
BY StoreInvariant, PTL DEF StoreInv

\* No key is removed before its own expiry, whether by the sweep, by GET or by
\* anything else the server does.
THEOREM KeysLive == Spec => NoEarlyExpiry
<1>1. TypeInv /\ [Next]_vars =>
        [\A k \in Key : Present(db, k) /\ ~Present(db', k) =>
            db[k].expiry # None /\ db[k].expiry <= now]_vars
  <2> SUFFICES ASSUME TypeInv, [Next]_vars,
                      NEW k \in Key, Present(db, k), ~Present(db', k)
               PROVE  db[k].expiry # None /\ db[k].expiry <= now
    OBVIOUS
  <2>1. Expired(db[k], now)
    BY StoreKeptNext DEF StoreKept
  <2>2. db[k].expiry \in Nat \cup {None} /\ now \in Nat
    BY EntryType DEF TypeInv, TypeOK, Entry
  <2> QED  BY <2>1, <2>2 DEF Expired
<1> QED  BY <1>1, TypeInvariant, PTL DEF Spec, NoEarlyExpiry

-----------------------------------------------------------------------------
(* The slab.                                                               *)

\* The batch holds one event for each token at most, and only of tokens whose
\* slot is occupied: the event after a removal belongs to another connection.
EventsOK ==
  /\ \A e \in events \ {ServerEvent} : e.token \in slab
  /\ \A e, f \in events \ {ServerEvent} : e.token = f.token => e = f

SlabInv == SlabOK /\ EventsOK

\* An event is handled once; its connection may lose its slot, no other does.
LEMMA EventSlab ==
  ASSUME NEW e \in events, HandleEvent(e)
  PROVE  /\ events' = events \ {e}
         /\ UNCHANGED <<slab, free>> \/ Removed(e.token)
<1>1. ASSUME NEW n \in 0..Len(socks[e.token].inbox), NEW cut \in BOOLEAN,
             \/ ReadInvalid(e, n, cut) \/ ReadBlock(e, n, cut)
             \/ ReadCommand(e, n, cut) \/ ReadPush(e, n, cut)
      PROVE  /\ events' = events \ {e}
             /\ UNCHANGED <<slab, free>> \/ Removed(e.token)
  BY <1>1 DEF ReadInvalid, ReadBlock, ReadCommand, ReadPush, Finish, Kept
<1>2. CASE ReadBlocked(e) \/ WriteOnly(e) \/ ReadEof(e)
  BY <1>2 DEF ReadBlocked, WriteOnly, ReadEof, Finish, Kept
<1> QED  BY <1>1, <1>2 DEF HandleEvent

LEMMA RemovedSlab ==
  ASSUME TypeInv, SlabOK, NEW t \in slab, Removed(t)
  PROVE  SlabOK'
<1>1. free \in Seq(Token) /\ t \in Token /\ slab' = slab \ {t} /\ free' = <<t>> \o free
  BY DEF TypeInv, TypeOK, Removed
<1> DEFINE n == Len(free)
           one == <<t>>
<1>2. n \in Nat /\ one \in Seq(Token) /\ Len(one) = 1 /\ one[1] = t
  BY <1>1, LenProperties
<1> HIDE DEF one
<1>3. /\ Len(one \o free) = Len(one) + n
      /\ \A i \in 1..(Len(one) + n) : (one \o free)[i] = IF i <= Len(one) THEN one[i]
                                                          ELSE free[i - Len(one)]
  BY <1>1, <1>2, ConcatProperties
<1>4. free' = one \o free
  BY <1>1 DEF one
<1>5. /\ Len(free') = n + 1
      /\ free'[1] = t
      /\ \A i \in 2..(n + 1) : free'[i] = free[i - 1] /\ i - 1 \in 1..n
  BY <1>2, <1>3, <1>4
<1>6. /\ slab = {x \in Token : \A i \in 1..n : free[i] # x}
      /\ \A i, j \in 1..n : free[i] = free[j] => i = j
  BY DEF SlabOK
<1>7. \A i \in 1..n : free[i] # t
  BY <1>6
<1> HIDE DEF n
<1>8. \A i \in 1..n : free'[i + 1] = free[i] /\ i + 1 \in 1..(n + 1)
  BY <1>2, <1>5
<1>9. ASSUME NEW x \in Token
      PROVE  x \in slab' <=> \A i \in 1..(n + 1) : free'[i] # x
  <2>1. x \in slab' <=> x # t /\ \A i \in 1..n : free[i] # x
    BY <1>1, <1>6
  <2>2. (\A i \in 1..(n + 1) : free'[i] # x) => x # t /\ \A i \in 1..n : free[i] # x
    BY <1>2, <1>5, <1>8
  <2>3. ASSUME x # t, \A i \in 1..n : free[i] # x, NEW i \in 1..(n + 1)
        PROVE  free'[i] # x
    BY <1>2, <1>5, <2>3
  <2> QED  BY <2>1, <2>2, <2>3
<1>10. ASSUME NEW i \in 1..(n + 1), NEW j \in 1..(n + 1), free'[i] = free'[j]
       PROVE  i = j
  <2>1. CASE i = 1 \/ j = 1
    BY <1>2, <1>5, <1>7, <1>10, <2>1
  <2>2. CASE i # 1 /\ j # 1
    BY <1>2, <1>5, <1>6, <1>10, <2>2
  <2> QED  BY <2>1, <2>2
<1>11. slab' \subseteq Token
  BY <1>1 DEF TypeInv, TypeOK
<1> QED  BY <1>5, <1>9, <1>10, <1>11 DEF SlabOK

LEMMA AcceptSlab ==
  ASSUME TypeInv, SlabOK, Accept
  PROVE  SlabOK'
<1> DEFINE n == Len(free)
           b == backlog
           accepted == {free[i] : i \in 1..b}
<1>1. free \in Seq(Token) /\ n \in Nat /\ b \in Nat /\ b <= n
  BY LenProperties DEF TypeInv, TypeOK, BacklogOK
<1>2. slab' = slab \cup accepted /\ free' = SubSeq(free, b + 1, n)
  BY DEF Accept
<1>3. \A i \in 1..n : free[i] \in Token
  BY <1>1, ElementOfSeq
<1>4. /\ slab = {x \in Token : \A i \in 1..n : free[i] # x}
      /\ \A i, j \in 1..n : free[i] = free[j] => i = j
  BY DEF SlabOK
<1> HIDE DEF n, b
<1>5. /\ Len(free') = n - b
      /\ \A i \in 1..(n - b) : free'[i] = free[i + b] /\ i + b \in 1..n
  <2>1. \A i \in (b + 1)..n : free[i] \in Token
    BY <1>1, <1>3
  <2>2. Len(SubSeq(free, b + 1, n)) = IF b + 1 <= n THEN n - (b + 1) + 1 ELSE 0
    BY <1>1, <2>1, SubSeqProperties
  <2>3. \A i \in 1..(n - (b + 1) + 1) : SubSeq(free, b + 1, n)[i] = free[(b + 1) + i - 1]
    BY <1>1, <2>1, SubSeqProperties
  <2> QED  BY <1>1, <1>2, <2>2, <2>3
<1>6. \A i \in (b + 1)..n : free'[i - b] = free[i] /\ i - b \in 1..(n - b)
  BY <1>1, <1>5
<1>7. ASSUME NEW x \in Token
      PROVE  x \in slab' <=> \A i \in 1..(n - b) : free'[i] # x
  <2>1. ASSUME x \in slab, NEW i \in 1..(n - b) PROVE free'[i] # x
    BY <1>4, <1>5, <2>1
  <2>2. ASSUME NEW j \in 1..b, x = free[j], NEW i \in 1..(n - b) PROVE free'[i] # x
    <3>1. free'[i] = free[i + b] /\ i + b \in 1..n /\ j \in 1..n /\ i + b # j
      BY <1>1, <1>5
    <3> QED  BY <1>4, <2>2, <3>1
  <2>3. ASSUME x \notin slab, x \notin accepted
        PROVE  \E i \in 1..(n - b) : free'[i] = x
    <3>1. PICK j \in 1..n : free[j] = x
      BY <1>4, <2>3
    <3>2. j \notin 1..b
      BY <2>3, <3>1
    <3>3. j \in (b + 1)..n
      BY <1>1, <3>2
    <3> QED  BY <1>6, <3>1, <3>3
  <2> QED  BY <1>2, <2>1, <2>2, <2>3
<1>8. ASSUME NEW i \in 1..(n - b), NEW j \in 1..(n - b), free'[i] = free'[j]
      PROVE  i = j
  <2>1. free[i + b] = free[j + b] /\ i + b \in 1..n /\ j + b \in 1..n
    BY <1>5, <1>8
  <2> QED  BY <1>1, <1>4, <2>1
<1>9. slab' \subseteq Token
  BY <1>1, <1>2, <1>3 DEF TypeInv, TypeOK
<1> QED  BY <1>5, <1>7, <1>8, <1>9 DEF SlabOK

LEMMA SlabInit == Init => SlabInv
<1> SUFFICES ASSUME Init PROVE SlabInv
  OBVIOUS
<1>1. MaxConns \in Nat /\ free = [t \in 1..MaxConns |-> t]
  BY CommandsAssumption DEF Init, Token
<1>2. Len(free) = MaxConns
  BY <1>1, LenProperties, SeqDef
<1>3. SlabOK
  BY <1>1, <1>2 DEF Init, SlabOK, Token
<1>4. EventsOK
  BY DEF Init, EventsOK
<1> QED  BY <1>3, <1>4 DEF SlabInv

LEMMA SlabNext == TypeInv /\ SlabInv /\ [Next]_vars => SlabInv'
<1> SUFFICES ASSUME TypeInv, SlabInv, [Next]_vars PROVE SlabInv'
  OBVIOUS
<1> USE DEF SlabInv
<1>1. ASSUME NEW e \in events, e # ServerEvent, HandleEvent(e)
      PROVE  SlabInv'
  <2>1. e.token \in slab /\ events' = events \ {e}
    BY <1>1, EventSlab DEF EventsOK
  <2>2. CASE UNCHANGED <<slab, free>>
    BY <2>1, <2>2 DEF SlabOK, EventsOK
  <2>3. CASE Removed(e.token)
    <3>1. SlabOK'
      BY <2>1, <2>3, RemovedSlab
    <3>2. EventsOK'
      BY <1>1, <2>1, <2>3 DEF EventsOK, Removed
    <3> QED  BY <3>1, <3>2
  <2> QED  BY <1>1, <2>2, <2>3, EventSlab
<1>2. CASE Accept
  <2>1. SlabOK'
    BY <1>2, AcceptSlab
  <2>2. EventsOK'
    BY <1>2 DEF EventsOK, Accept
  <2> QED  BY <2>1, <2>2
<1>3. CASE Poll
  <2>1. SlabOK'
    BY <1>3 DEF Poll, SlabOK
  <2>2. \A e \in events' \ {ServerEvent} : \E t \in slab : e = EventOf(t)
    BY <1>3 DEF Poll, Ready
  <2>3. \A t : EventOf(t).token = t
    BY DEF EventOf
  <2>4. slab' = slab
    BY <1>3 DEF Poll
  <2>5. EventsOK'
    BY <2>2, <2>3, <2>4 DEF EventsOK
  <2> QED  BY <2>1, <2>5
<1>4. CASE UNCHANGED <<slab, free, events>>
  BY <1>4 DEF SlabOK, EventsOK
<1>5. CASE \/ LoopTop \/ Connect \/ Tick
           \/ \E t \in Token : \/ \E r \in Requests : Send(t, r)
                               \/ Close(t) \/ Receive(t)
  BY <1>4, <1>5 DEF LoopTop, Connect, Tick, Send, Close, Receive
<1>6. CASE UNCHANGED vars
  BY <1>4, <1>6 DEF vars
<1> QED  BY <1>1, <1>2, <1>3, <1>5, <1>6 DEF Next, ServerStep

LEMMA SlabInvariant == Spec => []SlabInv
BY TypeInvariant, SlabInit, SlabNext, PTL DEF Spec

\* Slots are neither lost nor handed out twice, however connections come and go
\* within a batch: an event finds the connection it was raised for.
THEOREM SlabCorrect == Spec => [](SlabOK /\ EventsOK)
BY SlabInvariant, PTL DEF SlabInv

-----------------------------------------------------------------------------
(* The blocked clients.                                                    *)

WaitInv == BlockedIsQueued /\ DeadlineIsScheduled

\* c waits for what old waits for.
SameWait(c, old) ==
  /\ c.blocked = old.blocked /\ c.block_key = old.block_key
  /\ c.block_deadline = old.block_deadline

\* If x is blocked after the step, it was before, for the same, and stays in
\* the slab.
StillWaits(x) ==
  conns'[x].blocked => /\ conns[x].blocked
                       /\ SameWait(conns'[x], conns[x])
                       /\ x \in slab => x \in slab'

LEMMA BufferWait ==
  ASSUME NEW c \in Connection
  PROVE  /\ \A msgs : SameWait(Queued(c, msgs), c)
         /\ \A s : SameWait(WrittenConn(c, s), c)
         /\ \A ctx, reply : SameWait(Answered(c, ctx, reply), c)
         /\ ~Unblocked(c).blocked
         /\ \A msgs : ~Queued(Unblocked(c), msgs).blocked
BY DEF Queued, WrittenConn, Answered, Unblocked, SameWait, Connection

LEMMA FinishWait ==
  ASSUME TypeInv, NEW e \in Event, NEW c \in Connection, NEW s, NEW out, NEW woken,
         SameWait(c, conns[e.token]), Finish(e, c, s, out, woken), NEW x \in Token
  PROVE  /\ StillWaits(x)
         /\ conns'[x].blocked => x # woken \/ x = e.token
<1> DEFINE t == e.token
           other == Queued(IF x = woken THEN Unblocked(conns[x]) ELSE conns[x], out[x])
<1>1. conns[x] \in Connection /\ t \in Token
  BY DEF Event, TypeInv, TypeOK
<1>2. other.blocked => x # woken /\ SameWait(other, conns[x])
  BY <1>1, BufferWait
<1>3. SameWait(WrittenConn(c, s), c)
  BY BufferWait
<1>4. ~NewConnection.blocked
  BY DEF NewConnection
<1>5. \/ /\ slab' = slab \ {t}
         /\ conns'[x] = IF x = t THEN NewConnection ELSE other
      \/ /\ slab' = slab
         /\ conns'[x] = IF x # t THEN other
                        ELSE IF e.writable THEN WrittenConn(c, s) ELSE c
  BY DEF Finish, Removed, Kept
<1> HIDE DEF other
<1>6. CASE x = t
  BY <1>3, <1>4, <1>5, <1>6 DEF StillWaits, SameWait
<1>7. CASE x # t
  BY <1>2, <1>5, <1>7 DEF StillWaits, SameWait
<1> QED  BY <1>6, <1>7

LEMMA WaitKept ==
  ASSUME WaitInv, UNCHANGED waiters, \A x \in Token : StillWaits(x)
  PROVE  WaitInv'
BY DEF WaitInv, BlockedIsQueued, DeadlineIsScheduled, StillWaits, SameWait, Has, waiters

LEMMA ReadInvalidWait ==
  ASSUME TypeInv, NEW e \in Event, NEW n \in 0..Len(socks[e.token].inbox),
         NEW cut \in BOOLEAN, ReadInvalid(e, n, cut)
  PROVE  UNCHANGED waiters /\ \A x \in Token : StillWaits(x)
<1> DEFINE t == e.token
           reply == ReplyOf(Head(Buffer(t, n, cut)), "error")
           c == Answered(conns[t], ContextOf(t), reply)
           s == Announced(conns[t], Drained(t, n, cut), <<reply>>)
<1>1. Reads(e, n, cut) /\ t \in Token /\ conns[t] \in Connection
  BY DEF ReadInvalid, Event, TypeInv, TypeOK
<1>2. reply \in Reply
  BY <1>1, ReadsType, ReplyOfType DEF Tag
<1> HIDE DEF reply
<1>3. c \in Connection /\ SameWait(c, conns[t])
  BY <1>1, <1>2, ContextType, AnsweredType, BufferWait
<1>4. Finish(e, c, s, Silence, None) /\ UNCHANGED waiters
  BY DEF ReadInvalid, reply
<1> HIDE DEF c, s
<1> QED  BY <1>3, <1>4, FinishWait

LEMMA ReadCommandWait ==
  ASSUME TypeInv, NEW e \in Event, NEW n \in 0..Len(socks[e.token].inbox),
         NEW cut \in BOOLEAN, ReadCommand(e, n, cut)
  PROVE  UNCHANGED waiters /\ \A x \in Token : StillWaits(x)
<1> DEFINE t == e.token
           r == Head(Buffer(t, n, cut))
           res == Execute(r, ContextOf(t), now)
           c == Answered(conns[t], res.ctx, res.reply)
           s == Announced(conns[t], Drained(t, n, cut), <<res.reply>>)
           out == IF res.publish = << >> THEN Silence ELSE Deliveries(res.publish[1], t)
<1>1. /\ Reads(e, n, cut) /\ r.cmd # "INLINE"
      /\ Finish(e, c, s, out, None) /\ UNCHANGED waiters
  BY DEF ReadCommand
<1>2. conns[t] \in Connection
  BY DEF Event, TypeInv, TypeOK
<1>3. r \in Request
  BY <1>1, ReadsType
<1> HIDE DEF r
<1>4. c \in Connection
  BY <1>1, <1>3, RunType
<1>5. SameWait(c, conns[t])
  BY <1>2, BufferWait
<1> HIDE DEF c, s, out
<1> QED  BY <1>1, <1>4, <1>5, FinishWait

LEMMA WriteOnlyWait ==
  ASSUME TypeInv, NEW e \in Event, WriteOnly(e)
  PROVE  UNCHANGED waiters /\ \A x \in Token : StillWaits(x)
<1> DEFINE c == conns[e.token]
           s == socks[e.token]
<1>1. c \in Connection /\ SameWait(c, c)
  BY DEF Event, TypeInv, TypeOK, SameWait
<1>2. Finish(e, c, s, Silence, None) /\ UNCHANGED waiters
  BY DEF WriteOnly
<1> HIDE DEF s
<1> QED  BY <1>1, <1>2, FinishWait

LEMMA ReadEofWait ==
  ASSUME TypeInv, NEW e \in Event, ReadEof(e)
  PROVE  UNCHANGED waiters /\ \A x \in Token : StillWaits(x)
BY DEF ReadEof, Removed, NewConnection, StillWaits, SameWait, TypeInv, TypeOK, waiters

\* A client that starts to wait is in the slab, its key's queue and the heap.
LEMMA ReadBlockWait ==
  ASSUME TypeInv, WaitInv, NEW e \in Event, e.token \in slab,
         NEW n \in 0..Len(socks[e.token].inbox), NEW cut \in BOOLEAN, ReadBlock(e, n, cut)
  PROVE  WaitInv'
<1> DEFINE t == e.token
           b == Buffer(t, n, cut)
           r == Head(b)
           deadline == IF r.timeout > 0 THEN now + r.timeout ELSE None
<1>1. /\ Reads(e, n, cut) /\ r.cmd = "BLPOP"
      /\ conns' = [conns EXCEPT ![t] = Blocked(@, b, r.key, deadline)]
      /\ blocked_timeouts' = IF deadline = None THEN blocked_timeouts
                             ELSE blocked_timeouts \cup {<<deadline, t>>}
      /\ blocked_queues' = [blocked_queues EXCEPT ![r.key] = Append(@, t)]
      /\ UNCHANGED slab
  BY DEF ReadBlock
<1>2. t \in Token /\ conns[t] \in Connection
  BY DEF Event, TypeInv, TypeOK
<1>3. r \in Request
  BY <1>1, ReadsType
<1> HIDE DEF r, b
<1>4. r.key \in Key
  BY <1>1, <1>3, RequestFields
<1> HIDE DEF deadline
<1>5. /\ conns'[t].block_key = r.key /\ conns'[t].block_deadline = deadline
      /\ \A x \in Token \ {t} : conns'[x] = conns[x]
  BY <1>1, <1>2 DEF Blocked, Connection, TypeInv, TypeOK
<1>6. ASSUME NEW k \in Key, NEW x \in Token, Has(blocked_queues[k], x)
      PROVE  Has(blocked_queues'[k], x)
  <2>1. blocked_queues[k] \in Seq(Token) /\ Len(blocked_queues[k]) \in Nat
    BY LenProperties DEF TypeInv, TypeOK
  <2>2. PICK i \in 1..Len(blocked_queues[k]) : blocked_queues[k][i] = x
    BY <1>6 DEF Has
  <2>3. CASE k # r.key
    BY <1>1, <1>6, <2>3 DEF TypeInv, TypeOK
  <2>4. CASE k = r.key
    <3>1. blocked_queues'[k] = Append(blocked_queues[k], t)
      BY <1>1, <1>4, <2>4 DEF TypeInv, TypeOK
    <3>2. /\ Len(blocked_queues'[k]) = Len(blocked_queues[k]) + 1
          /\ blocked_queues'[k][i] = x
      BY <1>2, <2>1, <2>2, <3>1, AppendProperties
    <3> QED  BY <2>1, <2>2, <3>2 DEF Has
  <2> QED  BY <2>3, <2>4
<1>7. Has(blocked_queues'[r.key], t)
  <2>1. blocked_queues[r.key] \in Seq(Token) /\ Len(blocked_queues[r.key]) \in Nat
    BY <1>4, LenProperties DEF TypeInv, TypeOK
  <2>2. blocked_queues'[r.key] = Append(blocked_queues[r.key], t)
    BY <1>1, <1>4 DEF TypeInv, TypeOK
  <2>3. /\ Len(blocked_queues'[r.key]) = Len(blocked_queues[r.key]) + 1
        /\ blocked_queues'[r.key][Len(blocked_queues[r.key]) + 1] = t
    BY <1>2, <2>1, <2>2, AppendProperties
  <2> QED  BY <2>1, <2>3 DEF Has
<1>8. BlockedIsQueued'
  BY <1>1, <1>4, <1>5, <1>6, <1>7 DEF WaitInv, BlockedIsQueued
<1>9. DeadlineIsScheduled'
  BY <1>1, <1>5 DEF WaitInv, DeadlineIsScheduled
<1> QED  BY <1>8, <1>9 DEF WaitInv

\* A push takes from the queue the tokens up to the one it serves, and those in
\* front of it are not blocked: whoever goes on waiting is still in the queue.
LEMMA UnservedKeeps ==
  ASSUME NEW q \in Seq(Token), NEW x \in Token, Has(q, x), Waiting(x), x # Woken(q)
  PROVE  Has(Unserved(q), x)
<1> DEFINE f == First(Served(q))
           n == Len(q)
<1>1. PICK i \in 1..n : q[i] = x
  BY DEF Has
<1>2. i \in Served(q)
  BY <1>1 DEF Served
<1>3. f \in Served(q) /\ f <= i /\ Woken(q) = q[f]
  BY <1>2, ServedType
<1>4. n \in Nat /\ f \in 1..n
  BY <1>3, LenProperties DEF Served
<1>5. f # i
  BY <1>1, <1>3
<1>6. Unserved(q) = SubSeq(q, f + 1, n)
  BY <1>2 DEF Unserved
<1> HIDE DEF f, n
<1>7. \A j \in (f + 1)..n : q[j] \in Token
  BY <1>4, ElementOfSeq DEF n
<1>8. /\ Len(Unserved(q)) = IF f + 1 <= n THEN n - (f + 1) + 1 ELSE 0
      /\ \A j \in 1..(n - (f + 1) + 1) : Unserved(q)[j] = q[(f + 1) + j - 1]
  BY <1>4, <1>6, <1>7, SubSeqProperties
<1>9. i - f \in 1..Len(Unserved(q)) /\ Unserved(q)[i - f] = q[i]
  BY <1>3, <1>4, <1>5, <1>8
<1> QED  BY <1>1, <1>9 DEF Has

\* Whoever is blocked after a push was before, and is not the one it served.
LEMMA ReadPushStill ==
  ASSUME TypeInv, NEW e \in Event, NEW n \in 0..Len(socks[e.token].inbox),
         NEW cut \in BOOLEAN, ReadPush(e, n, cut), NEW x \in Token, conns'[x].blocked
  PROVE  LET r == Head(Buffer(e.token, n, cut))
         IN  StillWaits(x) /\ x # Woken(blocked_queues[r.key])
<1> DEFINE t == e.token
           r == Head(Buffer(t, n, cut))
           res == Execute(r, ContextOf(t), now)
           q == blocked_queues[r.key]
           items == Items(res.ctx.db, r.key)
           hand == Woken(q) # None /\ items # << >>
           c == Answered(conns[t], res.ctx, res.reply)
           s == Announced(conns[t], Drained(t, n, cut), <<res.reply>>)
           out == [u \in Token |-> IF hand /\ u = Woken(q)
                                   THEN <<PopReply(r.key, Head(items))>> ELSE << >>]
<1>1. /\ Reads(e, n, cut) /\ r.cmd \in PushCommands
      /\ Finish(e, c, s, out, Woken(q))
  BY DEF ReadPush
<1>2. t \in Token /\ conns[t] \in Connection /\ ~conns[t].blocked
  BY <1>1 DEF Event, TypeInv, TypeOK, Reads
<1>3. r \in Request
  BY <1>1, ReadsType
<1>4. r.cmd # "INLINE"
  BY <1>1 DEF PushCommands
<1>5. c \in Connection
  BY <1>3, <1>4, RunType
<1>6. SameWait(c, conns[t])
  BY <1>2, BufferWait
<1> HIDE DEF c, s, out
<1>7. StillWaits(x) /\ (x # Woken(q) \/ x = t)
  BY <1>1, <1>5, <1>6, FinishWait
<1>8. x # t
  BY <1>2, <1>7 DEF StillWaits
<1> QED  BY <1>7, <1>8

LEMMA ReadPushWait ==
  ASSUME TypeInv, WaitInv, NEW e \in Event, NEW n \in 0..Len(socks[e.token].inbox),
         NEW cut \in BOOLEAN, ReadPush(e, n, cut)
  PROVE  WaitInv'
<1> DEFINE r == Head(Buffer(e.token, n, cut))
           q == blocked_queues[r.key]
<1>1. /\ Reads(e, n, cut) /\ r.cmd \in PushCommands
      /\ blocked_queues' = [blocked_queues EXCEPT ![r.key] = Unserved(q)]
      /\ UNCHANGED blocked_timeouts
  BY DEF ReadPush
<1>2. r \in Request
  BY <1>1, ReadsType
<1>3. ASSUME NEW x \in Token, conns'[x].blocked
      PROVE  StillWaits(x) /\ x # Woken(q)
  BY <1>3, ReadPushStill
<1> HIDE DEF r
<1>4. r.key \in Key
  BY <1>1, <1>2, RequestFields DEF PushCommands
<1>5. ASSUME NEW x \in Token, conns'[x].blocked
      PROVE  /\ x \in slab' /\ conns'[x].block_key \in Key
             /\ Has(blocked_queues'[conns'[x].block_key], x)
  <2>1. /\ conns[x].blocked /\ x \in slab' /\ x \in slab
        /\ conns'[x].block_key = conns[x].block_key
        /\ conns[x].block_key \in Key /\ Has(blocked_queues[conns[x].block_key], x)
    BY <1>3, <1>5 DEF WaitInv, BlockedIsQueued, StillWaits, SameWait
  <2>2. CASE conns[x].block_key = r.key
    <3>1. q \in Seq(Token) /\ Has(q, x) /\ Waiting(x) /\ x # Woken(q)
      BY <1>4, <1>3, <1>5, <2>1, <2>2 DEF TypeInv, TypeOK, Waiting
    <3>2. Has(Unserved(q), x)
      BY <3>1, UnservedKeeps
    <3>3. blocked_queues'[r.key] = Unserved(q)
      BY <1>1, <1>4 DEF TypeInv, TypeOK
    <3> QED  BY <2>1, <2>2, <3>2, <3>3
  <2>3. CASE conns[x].block_key # r.key
    BY <1>1, <2>1, <2>3 DEF TypeInv, TypeOK
  <2> QED  BY <2>1, <2>2, <2>3
<1>6. BlockedIsQueued'
  BY <1>5 DEF BlockedIsQueued
<1>7. DeadlineIsScheduled'
  BY <1>1, <1>3 DEF WaitInv, DeadlineIsScheduled, StillWaits, SameWait
<1> QED  BY <1>6, <1>7 DEF WaitInv

\* The entries that the top of the loop pops are those of clients it unblocks.
LEMMA LoopTopWait ==
  ASSUME TypeInv, WaitInv, LoopTop
  PROVE  WaitInv'
<1>1. /\ conns' = [t \in Token |-> IF TimedOut(t)
                                   THEN Queued(Unblocked(conns[t]), <<NilReply>>)
                                   ELSE conns[t]]
      /\ blocked_timeouts' = {x \in blocked_timeouts : x[1] > now}
      /\ UNCHANGED <<slab, blocked_queues>>
  BY DEF LoopTop
<1>2. ASSUME NEW t \in Token, conns'[t].blocked
      PROVE  ~TimedOut(t) /\ conns'[t] = conns[t]
  <2>1. conns[t] \in Connection
    BY DEF TypeInv, TypeOK
  <2> QED  BY <1>1, <1>2, <2>1, BufferWait
<1>3. BlockedIsQueued'
  BY <1>1, <1>2 DEF WaitInv, BlockedIsQueued
<1>4. ASSUME NEW t \in Token, conns'[t].blocked, conns'[t].block_deadline # None
      PROVE  <<conns'[t].block_deadline, t>> \in blocked_timeouts'
  <2> DEFINE d == conns[t].block_deadline
  <2>1. ~TimedOut(t) /\ conns'[t] = conns[t]
    BY <1>2, <1>4
  <2>2. <<d, t>> \in blocked_timeouts /\ Waiting(t)
    BY <1>4, <2>1 DEF WaitInv, DeadlineIsScheduled, BlockedIsQueued, Waiting
  <2>3. d \in Nat /\ now \in Nat
    BY <2>2 DEF TypeInv, TypeOK
  <2> HIDE DEF d
  <2>4. ~(d <= now)
    <3>1. <<d, t>>[1] = d /\ <<d, t>>[2] = t
      OBVIOUS
    <3> QED  BY <2>1, <2>2, <3>1 DEF TimedOut
  <2> QED  BY <1>1, <2>1, <2>2, <2>3, <2>4 DEF d
<1>5. DeadlineIsScheduled'
  BY <1>4 DEF DeadlineIsScheduled
<1> QED  BY <1>3, <1>5 DEF WaitInv

LEMMA WaitInit == Init => WaitInv
BY DEF Init, WaitInv, BlockedIsQueued, DeadlineIsScheduled, NewConnection

LEMMA WaitNext == TypeInv /\ EventsOK /\ WaitInv /\ [Next]_vars => WaitInv'
<1> SUFFICES ASSUME TypeInv, EventsOK, WaitInv, [Next]_vars PROVE WaitInv'
  OBVIOUS
<1>1. CASE LoopTop
  BY <1>1, LoopTopWait
<1>2. ASSUME NEW e \in events, e # ServerEvent, HandleEvent(e)
      PROVE  WaitInv'
  <2>1. e \in Event /\ e.token \in slab
    BY <1>2, EventInEvents DEF EventsOK
  <2>2. CASE ReadBlocked(e)
    BY <2>2 DEF ReadBlocked, waiters, WaitInv, BlockedIsQueued, DeadlineIsScheduled
  <2>3. CASE WriteOnly(e) \/ ReadEof(e)
    BY <2>1, <2>3, WriteOnlyWait, ReadEofWait, WaitKept
  <2>4. ASSUME NEW n \in 0..Len(socks[e.token].inbox), NEW cut \in BOOLEAN,
               \/ ReadInvalid(e, n, cut) \/ ReadBlock(e, n, cut)
               \/ ReadCommand(e, n, cut) \/ ReadPush(e, n, cut)
        PROVE  WaitInv'
    BY <2>1, <2>4, ReadInvalidWait, ReadBlockWait, ReadCommandWait, ReadPushWait, WaitKept
  <2> QED  BY <1>2, <2>2, <2>3, <2>4 DEF HandleEvent
<1>3. CASE Accept
  <2>1. UNCHANGED waiters /\ slab \subseteq slab'
    BY <1>3 DEF Accept
  <2>2. ASSUME NEW x \in Token PROVE StillWaits(x)
    BY <1>3, <2>1 DEF Accept, NewConnection, StillWaits, SameWait
  <2> QED  BY <2>1, <2>2, WaitKept
<1>4. CASE UNCHANGED <<conns, slab, waiters>>
  BY <1>4 DEF waiters, WaitInv, BlockedIsQueued, DeadlineIsScheduled
<1>5. CASE \/ Poll \/ Connect \/ Tick
           \/ \E t \in Token : \/ \E r \in Requests : Send(t, r)
                               \/ Close(t) \/ Receive(t)
  BY <1>4, <1>5 DEF Poll, Connect, Tick, Send, Close, Receive
<1>6. CASE UNCHANGED vars
  BY <1>4, <1>6 DEF vars
<1> QED  BY <1>1, <1>2, <1>3, <1>5, <1>6 DEF Next, ServerStep

LEMMA WaitInvariant == Spec => []WaitInv
<1>1. Spec => [](TypeInv /\ EventsOK)
  BY TypeInvariant, SlabInvariant, PTL DEF SlabInv
<1> QED  BY <1>1, WaitInit, WaitNext, PTL DEF Spec

\* No push can miss a blocked client: whatever the wake-ups and the tokens of
\* clients that timed out or left have done to the queue of its key, it is there.
THEOREM WaitersQueued == Spec => []BlockedIsQueued
BY WaitInvariant, PTL DEF WaitInv

\* No deadline is lost: the heap entry of a blocked client is popped only by the
\* pass of cleanup_blocked that ends its wait.
THEOREM DeadlinesScheduled == Spec => []DeadlineIsScheduled
BY WaitInvariant, PTL DEF WaitInv

-----------------------------------------------------------------------------
(* The end of a wait.                                                      *)

\* What EndOfWaitAnswers says of one client.
AnsweredEnd(t) ==
  Ends(t) => /\ Len(conns'[t].write_buffer) = Len(conns[t].write_buffer) + 1
             /\ LastReply(t).cmd = "BLPOP"

LEMMA QueuedOne ==
  ASSUME NEW t \in Token, conns[t] \in Connection, NEW m \in Reply, m.cmd = "BLPOP",
         conns'[t] = Queued(Unblocked(conns[t]), <<m>>)
  PROVE  AnsweredEnd(t)
<1> DEFINE old == conns[t].write_buffer
           one == <<m>>
<1>1. old \in Seq(Reply) /\ Len(old) \in Nat
  BY LenProperties DEF Connection
<1>2. one \in Seq(Reply) /\ Len(one) = 1 /\ one[1] = m
  OBVIOUS
<1>3. conns'[t].write_buffer = old \o one
  BY DEF Queued, Unblocked, Connection
<1> HIDE DEF old, one
<1>4. /\ Len(old \o one) = Len(old) + Len(one)
      /\ \A i \in 1..(Len(old) + Len(one)) :
           (old \o one)[i] = IF i <= Len(old) THEN old[i] ELSE one[i - Len(old)]
  BY <1>1, <1>2, ConcatProperties
<1>5. /\ Len(old \o one) = Len(old) + 1
      /\ (old \o one)[Len(old) + 1] = m
  BY <1>1, <1>2, <1>4
<1> QED  BY <1>3, <1>5 DEF AnsweredEnd, LastReply, old

\* An entry that holds a list is not Absent.
LEMMA ListPresent ==
  ASSUME NEW d, NEW k, NEW s \in Seq(Data), d[k].value = ListValue(s)
  PROVE  Present(d, k)
<1>1. ListValue(s) \in Value
  BY DEF ListValue, Value
<1> QED  BY <1>1, CommandsAssumption DEF Present, Absent

\* What a push puts under its key.
LEMMA PushedItems ==
  ASSUME NEW d \in DB, NEW k \in Key, NEW s \in Seq(Data)
  PROVE  Items(Pushed(d, k, s), k) = s
<1>1. CASE IsList(d, k)
  <2>1. d[k] \in Entry
    BY <1>1, EntryType DEF IsList
  <2>2. Pushed(d, k, s)[k].value = ListValue(s)
    BY <1>1, <2>1 DEF Pushed, WithItems, DB, Entry
  <2> QED  BY <1>1, <2>2, ListPresent DEF Items, IsList, ListValue
<1>2. CASE ~IsList(d, k)
  <2>1. Pushed(d, k, s)[k].value = ListValue(s)
    BY <1>2 DEF Pushed, EntryOf, DB
  <2> QED  BY <2>1, ListPresent DEF Items, IsList, ListValue
<1> QED  BY <1>1, <1>2

\* A push that succeeds leaves its list with an element to hand over.
LEMMA PushLeavesItems ==
  ASSUME NEW r \in Request, NEW ctx \in Context, NEW tm \in Nat, r.cmd \in PushCommands,
         Execute(r, ctx, tm).outcome = "ok"
  PROVE  Items(Execute(r, ctx, tm).ctx.db, r.key) # << >>
<1> DEFINE res == Execute(r, ctx, tm)
<1>1. r.key \in Key /\ r.vals \in Seq(Data) \ {<< >>} /\ r.cmd \in {"RPUSH", "LPUSH"}
  BY RequestFields DEF PushCommands
<1>2. res = rpush(r, ctx) \/ res = lpush(r, ctx)
  <2>1. \A reply : Err(ctx, reply).outcome # "ok"
    BY DEF Err, Result
  <2> QED  BY <1>1, <2>1, ExecuteCases
<1> HIDE DEF res
<1>3. PICK s \in Seq(Data) \ {<< >>} : res = PushResult(r, ctx, s)
  BY <1>1, <1>2, PushShape
<1>4. res.ctx.db = Pushed(ctx.db, r.key, s)
  BY <1>3 DEF PushResult, Ok, Result, Context
<1>5. Items(Pushed(ctx.db, r.key, s), r.key) = s
  BY <1>1, PushedItems DEF Context
<1> QED  BY <1>4, <1>5 DEF res

\* The client whose event it is goes on waiting; another one stops only as woken.
LEMMA FinishEnds ==
  ASSUME TypeInv, NEW e \in Event, NEW c \in Connection, NEW s, NEW out, NEW woken,
         SameWait(c, conns[e.token]), Finish(e, c, s, out, woken),
         NEW t \in Token, Ends(t)
  PROVE  /\ t # e.token /\ t = woken
         /\ conns'[t] = Queued(Unblocked(conns[t]), out[t])
<1>1. conns[t] \in Connection /\ e.token \in Token
  BY DEF Event, TypeInv, TypeOK
<1>2. conns[t].blocked /\ ~conns'[t].blocked /\ t \in slab'
  BY DEF Ends, Waiting
<1>3. SameWait(WrittenConn(c, s), c) /\ SameWait(Queued(conns[t], out[t]), conns[t])
  BY <1>1, BufferWait
<1>4. t # e.token
  BY <1>1, <1>2, <1>3 DEF Finish, Removed, Kept, SameWait
<1>5. conns'[t] = Queued(IF t = woken THEN Unblocked(conns[t]) ELSE conns[t], out[t])
  BY <1>4 DEF Finish
<1> QED  BY <1>2, <1>3, <1>4, <1>5 DEF SameWait

LEMMA ReadPushEnds ==
  ASSUME TypeInv, NEW e \in Event, NEW n \in 0..Len(socks[e.token].inbox),
         NEW cut \in BOOLEAN, ReadPush(e, n, cut), NEW t \in Token
  PROVE  AnsweredEnd(t)
<1> SUFFICES ASSUME Ends(t) PROVE AnsweredEnd(t)
  BY DEF AnsweredEnd
<1> DEFINE u == e.token
           r == Head(Buffer(u, n, cut))
           res == Execute(r, ContextOf(u), now)
           q == blocked_queues[r.key]
           items == Items(res.ctx.db, r.key)
           hand == Woken(q) # None /\ items # << >>
           c == Answered(conns[u], res.ctx, res.reply)
           s == Announced(conns[u], Drained(u, n, cut), <<res.reply>>)
           m == PopReply(r.key, Head(items))
           out == [x \in Token |-> IF hand /\ x = Woken(q) THEN <<m>> ELSE << >>]
<1>1. /\ Reads(e, n, cut) /\ r.cmd \in PushCommands /\ res.outcome = "ok"
      /\ Finish(e, c, s, out, Woken(q))
  BY DEF ReadPush
<1>2. u \in Token /\ conns[u] \in Connection /\ now \in Nat /\ conns[t] \in Connection
  BY DEF Event, TypeInv, TypeOK
<1>3. r \in Request /\ ContextOf(u) \in Context
  BY <1>1, <1>2, ReadsType, ContextType
<1> HIDE DEF r
<1>4. r.key \in Key /\ r.cmd # "INLINE"
  BY <1>1, <1>3, RequestFields DEF PushCommands
<1>5. items # << >>
  BY <1>1, <1>2, <1>3, PushLeavesItems
<1>6. c \in Connection /\ res.ctx.db \in DB
  BY <1>3, <1>4, RunType
<1>7. SameWait(c, conns[u])
  BY <1>2, BufferWait
<1>8. m \in Reply
  BY <1>4, <1>5, <1>6, HandType
<1>9. m.cmd = "BLPOP"
  BY DEF PopReply
<1> HIDE DEF c, s, m, items, res
<1>10. t = Woken(q) /\ conns'[t] = Queued(Unblocked(conns[t]), out[t])
  <2> HIDE DEF out
  <2> QED  BY <1>1, <1>6, <1>7, FinishEnds
<1>11. out[t] = <<m>>
  <2>1. t # None
    BY CommandsAssumption DEF Token
  <2> QED  BY <1>5, <1>10, <2>1
<1> HIDE DEF out
<1> QED  BY <1>2, <1>8, <1>9, <1>10, <1>11, QueuedOne

\* The other events wake nobody.
LEMMA FinishNobody ==
  ASSUME TypeInv, NEW e \in Event, NEW c \in Connection, NEW s, NEW out,
         SameWait(c, conns[e.token]), Finish(e, c, s, out, None), NEW t \in Token
  PROVE  ~Ends(t)
<1>1. t # None
  BY CommandsAssumption DEF Token
<1> QED  BY <1>1, FinishEnds

LEMMA ReadInvalidEnds ==
  ASSUME TypeInv, NEW e \in Event, NEW n \in 0..Len(socks[e.token].inbox),
         NEW cut \in BOOLEAN, ReadInvalid(e, n, cut), NEW t \in Token
  PROVE  ~Ends(t)
<1> DEFINE u == e.token
           reply == ReplyOf(Head(Buffer(u, n, cut)), "error")
           c == Answered(conns[u], ContextOf(u), reply)
           s == Announced(conns[u], Drained(u, n, cut), <<reply>>)
<1>1. Reads(e, n, cut) /\ u \in Token /\ conns[u] \in Connection
  BY DEF ReadInvalid, Event, TypeInv, TypeOK
<1>2. reply \in Reply
  BY <1>1, ReadsType, ReplyOfType DEF Tag
<1> HIDE DEF reply
<1>3. c \in Connection /\ SameWait(c, conns[u])
  BY <1>1, <1>2, ContextType, AnsweredType, BufferWait
<1>4. Finish(e, c, s, Silence, None)
  BY DEF ReadInvalid, reply
<1> HIDE DEF c, s
<1> QED  BY <1>3, <1>4, FinishNobody

LEMMA ReadCommandEnds ==
  ASSUME TypeInv, NEW e \in Event, NEW n \in 0..Len(socks[e.token].inbox),
         NEW cut \in BOOLEAN, ReadCommand(e, n, cut), NEW t \in Token
  PROVE  ~Ends(t)
<1> DEFINE u == e.token
           r == Head(Buffer(u, n, cut))
           res == Execute(r, ContextOf(u), now)
           c == Answered(conns[u], res.ctx, res.reply)
           s == Announced(conns[u], Drained(u, n, cut), <<res.reply>>)
           out == IF res.publish = << >> THEN Silence ELSE Deliveries(res.publish[1], u)
<1>1. Reads(e, n, cut) /\ r.cmd # "INLINE" /\ Finish(e, c, s, out, None)
  BY DEF ReadCommand
<1>2. conns[u] \in Connection
  BY DEF Event, TypeInv, TypeOK
<1>3. r \in Request
  BY <1>1, ReadsType
<1> HIDE DEF r
<1>4. c \in Connection
  BY <1>1, <1>3, RunType
<1>5. SameWait(c, conns[u])
  BY <1>2, BufferWait
<1> HIDE DEF c, s, out
<1> QED  BY <1>1, <1>4, <1>5, FinishNobody

LEMMA WriteOnlyEnds ==
  ASSUME TypeInv, NEW e \in Event, WriteOnly(e), NEW t \in Token
  PROVE  ~Ends(t)
<1> DEFINE c == conns[e.token]
           s == socks[e.token]
<1>1. c \in Connection /\ SameWait(c, c)
  BY DEF Event, TypeInv, TypeOK, SameWait
<1>2. Finish(e, c, s, Silence, None)
  BY DEF WriteOnly
<1> HIDE DEF s
<1> QED  BY <1>1, <1>2, FinishNobody

\* A step after which everyone who was blocked, and is still there, is blocked.
LEMMA NobodyUnblocked ==
  ASSUME NEW t \in Token, conns[t].blocked /\ t \in slab' => conns'[t].blocked
  PROVE  ~Ends(t)
BY DEF Ends, Waiting

LEMMA EventEnds ==
  ASSUME TypeInv, NEW e \in Event, HandleEvent(e), NEW t \in Token
  PROVE  AnsweredEnd(t)
<1>1. CASE ReadBlocked(e) \/ ReadEof(e)
  <2>1. conns[t].blocked /\ t \in slab' => conns'[t].blocked
    BY <1>1 DEF ReadBlocked, ReadEof, Removed, TypeInv, TypeOK
  <2> QED  BY <2>1, NobodyUnblocked DEF AnsweredEnd
<1>2. ASSUME NEW n \in 0..Len(socks[e.token].inbox), NEW cut \in BOOLEAN,
             ReadBlock(e, n, cut)
      PROVE  AnsweredEnd(t)
  <2>1. conns[t].blocked => conns'[t].blocked
    BY <1>2 DEF ReadBlock, Reads, TypeInv, TypeOK
  <2> QED  BY <2>1, NobodyUnblocked DEF AnsweredEnd
<1>3. CASE WriteOnly(e)
  BY <1>3, WriteOnlyEnds DEF AnsweredEnd
<1>4. ASSUME NEW n \in 0..Len(socks[e.token].inbox), NEW cut \in BOOLEAN,
             ReadInvalid(e, n, cut) \/ ReadCommand(e, n, cut) \/ ReadPush(e, n, cut)
      PROVE  AnsweredEnd(t)
  BY <1>4, ReadInvalidEnds, ReadCommandEnds, ReadPushEnds DEF AnsweredEnd
<1> QED  BY <1>1, <1>2, <1>3, <1>4 DEF HandleEvent

LEMMA LoopTopEnds ==
  ASSUME TypeInv, LoopTop, NEW t \in Token
  PROVE  AnsweredEnd(t)
<1>1. conns[t] \in Connection
  BY DEF TypeInv, TypeOK
<1>2. CASE TimedOut(t)
  <2>1. conns'[t] = Queued(Unblocked(conns[t]), <<NilReply>>)
    BY <1>2 DEF LoopTop
  <2>2. NilReply.cmd = "BLPOP"
    BY DEF NilReply
  <2> QED  BY <1>1, <2>1, <2>2, NilReplyType, QueuedOne
<1>3. CASE ~TimedOut(t)
  <2>1. conns'[t] = conns[t]
    BY <1>3 DEF LoopTop
  <2> QED  BY <2>1, NobodyUnblocked DEF AnsweredEnd
<1> QED  BY <1>2, <1>3

\* Only a slot that is free is given away, so no one waits in it.
LEMMA AcceptEnds ==
  ASSUME TypeInv, SlabOK, Accept, NEW t \in Token
  PROVE  AnsweredEnd(t)
<1>1. CASE t \in {free[i] : i \in 1..backlog}
  <2>1. PICK i \in 1..backlog : free[i] = t
    BY <1>1
  <2>2. i \in 1..Len(free)
    BY <2>1, LenProperties DEF TypeInv, TypeOK, BacklogOK
  <2>3. t \notin slab
    BY <2>1, <2>2 DEF SlabOK
  <2> QED  BY <2>3 DEF AnsweredEnd, Ends, Waiting
<1>2. CASE t \notin {free[i] : i \in 1..backlog}
  <2>1. conns'[t] = conns[t]
    BY <1>2 DEF Accept
  <2> QED  BY <2>1, NobodyUnblocked DEF AnsweredEnd
<1> QED  BY <1>1, <1>2

LEMMA EndsNext ==
  ASSUME TypeInv, SlabOK, [Next]_vars, NEW t \in Token
  PROVE  AnsweredEnd(t)
<1>1. CASE LoopTop \/ Accept
  BY <1>1, LoopTopEnds, AcceptEnds
<1>2. ASSUME NEW e \in events, e # ServerEvent, HandleEvent(e)
      PROVE  AnsweredEnd(t)
  BY <1>2, EventInEvents, EventEnds
<1>3. CASE UNCHANGED conns
  BY <1>3, NobodyUnblocked DEF AnsweredEnd
<1>4. CASE \/ Poll \/ Connect \/ Tick
           \/ \E u \in Token : \/ \E r \in Requests : Send(u, r)
                               \/ Close(u) \/ Receive(u)
  BY <1>3, <1>4 DEF Poll, Connect, Tick, Send, Close, Receive
<1>5. CASE UNCHANGED vars
  BY <1>3, <1>5 DEF vars
<1> QED  BY <1>1, <1>2, <1>4, <1>5 DEF Next, ServerStep

\* A wait never ends in silence: the push that unblocks a client hands it an
\* element in the same event, since a push that succeeds leaves one, and the
\* timeout that unblocks it sends the nil.
THEOREM WaitsAnswered == Spec => EndOfWaitAnswers
<1>1. TypeInv /\ SlabOK /\ [Next]_vars =>
        [\A t \in Token : Ends(t) =>
            /\ Len(conns'[t].write_buffer) = Len(conns[t].write_buffer) + 1
            /\ LastReply(t).cmd = "BLPOP"]_vars
  BY EndsNext DEF AnsweredEnd
<1>2. Spec => [](TypeInv /\ SlabOK)
  BY TypeInvariant, SlabInvariant, PTL DEF SlabInv
<1> QED  BY <1>1, <1>2, PTL DEF Spec, EndOfWaitAnswers

=============================================================================
