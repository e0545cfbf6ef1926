---------------------------- MODULE RepliesProofs ----------------------------
(***************************************************************************)
(* Replies are neither lost nor given twice, and the loop never forgets    *)
(* one.  Both need a hypothesis on the clients: a BLPOP that blocks ends   *)
(* its event before the writable part, so a client that has a reply in the *)
(* write buffer when it starts to wait gets it after the wait only.        *)
(***************************************************************************)
EXTENDS StoreProofs

\* Every client sends one whole request at a time and waits for its answer.
OneAtATime == Window = 1 /\ ~Split

\* Nobody subscribes: nothing is written to a client that did not ask for it.
NoSubscribers == \A r \in Requests : r.cmd # "SUBSCRIBE"

Undisturbed == OneAtATime /\ NoSubscribers

\* No client waits in BLPOP; pipelines, cut requests and subscriptions are allowed.
NeverWaits == \A r \in Requests : r.cmd # "BLPOP"

-----------------------------------------------------------------------------
(* How many replies and requests of a client there are.                    *)

Waits(c) == IF c.blocked THEN 1 ELSE 0

\* Underway, for a connection and its socket.
Held(c, s) == Len(s.inbox) + Waits(c) + Len(c.write_buffer) + Len(s.outbox)

\* Replies that answer a request.
Answer == {m \in Reply : ~IsPublished(m)}

LEMMA HeldType ==
  ASSUME NEW c \in Connection, NEW s \in Socket
  PROVE  /\ Len(s.inbox) \in Nat /\ Len(c.write_buffer) \in Nat /\ Len(s.outbox) \in Nat
         /\ Waits(c) \in Nat /\ Held(c, s) \in Nat
<1>1. Len(s.inbox) \in Nat /\ Len(c.write_buffer) \in Nat /\ Len(s.outbox) \in Nat
  BY LenProperties DEF Connection, Socket
<1>2. Waits(c) \in Nat
  BY DEF Waits
<1> QED  BY <1>1, <1>2 DEF Held

\* Appending to the write buffer of a connection, blocked or released, and telling poll.
LEMMA QueuedHeld ==
  ASSUME NEW c \in Connection, NEW s \in Socket, NEW msgs \in Seq(Reply)
  PROVE  /\ Held(Queued(c, msgs), Announced(c, s, msgs)) = Held(c, s) + Len(msgs)
         /\ Held(Queued(Unblocked(c), msgs), Announced(c, s, msgs)) + Waits(c) =
              Held(c, s) + Len(msgs)
         /\ Announced(c, s, msgs).eof = s.eof
<1> DEFINE buffer == c.write_buffer \o msgs
           s2 == Announced(c, s, msgs)
<1>1. c.write_buffer \in Seq(Reply) /\ Len(msgs) \in Nat
  BY LenProperties DEF Connection
<1>2. Len(buffer) = Len(c.write_buffer) + Len(msgs)
  BY <1>1, ConcatProperties
<1>3. /\ Queued(c, msgs).write_buffer = buffer /\ Waits(Queued(c, msgs)) = Waits(c)
      /\ Queued(Unblocked(c), msgs).write_buffer = buffer
      /\ Waits(Queued(Unblocked(c), msgs)) = 0
  BY DEF Queued, Unblocked, Connection, Waits
<1>4. s2.inbox = s.inbox /\ s2.outbox = s.outbox /\ s2.eof = s.eof
  <2>1. s2 = reregister(s, TRUE) \/ s2 = s
    BY DEF Announced
  <2> HIDE DEF s2
  <2> QED  BY <2>1, ReregisterType
<1> HIDE DEF buffer, s2
<1>5. /\ Held(Queued(c, msgs), s2) = Len(s.inbox) + Waits(c) + Len(buffer) + Len(s.outbox)
      /\ Held(Queued(Unblocked(c), msgs), s2) = Len(s.inbox) + 0 + Len(buffer) + Len(s.outbox)
  BY <1>3, <1>4 DEF Held
<1>6. Held(c, s) = Len(s.inbox) + Waits(c) + Len(c.write_buffer) + Len(s.outbox)
  BY DEF Held
<1>7. /\ Len(s.inbox) \in Nat /\ Len(c.write_buffer) \in Nat /\ Len(s.outbox) \in Nat
      /\ Waits(c) \in Nat /\ Len(msgs) \in Nat
  BY <1>1, HeldType
<1>8. Held(Queued(c, msgs), s2) = Held(c, s) + Len(msgs)
  BY <1>2, <1>5, <1>6, <1>7
<1>9. Held(Queued(Unblocked(c), msgs), s2) + Waits(c) = Held(c, s) + Len(msgs)
  <2> DEFINE i == Len(s.inbox)
             b == Len(c.write_buffer)
             o == Len(s.outbox)
             m == Len(msgs)
             w == Waits(c)
             h == Held(Queued(Unblocked(c), msgs), s2)
  <2>1. h = i + 0 + (b + m) + o
    BY <1>2, <1>5
  <2>2. i \in Nat /\ b \in Nat /\ o \in Nat /\ m \in Nat /\ w \in Nat
    BY <1>7
  <2>3. Held(c, s) = i + w + b + o
    BY <1>6
  <2> HIDE DEF i, b, o, m, w, h
  <2>4. h + w = Held(c, s) + m
    BY <2>1, <2>2, <2>3
  <2> QED  BY <2>4 DEF h, w, m
<1> QED  BY <1>4, <1>8, <1>9 DEF s2

\* A write moves replies from the buffer to the socket, or loses them with the peer.
LEMMA WrittenHeld ==
  ASSUME NEW c \in Connection, NEW s \in Socket, Len(s.outbox) <= SndBuf
  PROVE  /\ Held(WrittenConn(c, s), WrittenSock(c, s)) <= Held(c, s)
         /\ ~s.eof => Held(WrittenConn(c, s), WrittenSock(c, s)) = Held(c, s)
         /\ WrittenSock(c, s).eof = s.eof
<1> DEFINE n == Accepted(c, s)
           len == Len(c.write_buffer)
           part == SubSeq(c.write_buffer, 1, n)
           left == SubSeq(c.write_buffer, n + 1, len)
           after == IF s.eof THEN s ELSE [s EXCEPT !.outbox = @ \o part]
           s2 == WrittenSock(c, s)
<1>1. /\ c.write_buffer \in Seq(Reply) /\ len \in Nat
      /\ s.outbox \in Seq(Reply) /\ Len(s.outbox) \in Nat
  BY LenProperties DEF Connection, Socket
<1>2. n \in 0..len
  BY AcceptedType
<1>3. WrittenConn(c, s).write_buffer = left /\ Waits(WrittenConn(c, s)) = Waits(c)
  BY DEF WrittenConn, Connection, Waits
<1>4. s2 = reregister(after, FALSE) \/ s2 = after
  BY DEF WrittenSock
<1> HIDE DEF n, s2
<1>5. part \in Seq(Reply) /\ Len(part) = n
  BY <1>1, <1>2, SubSeqProperties, SubSeqType
<1>6. Len(left) = len - n
  <2>1. \A i \in (n + 1)..len : c.write_buffer[i] \in Reply
    BY <1>1, <1>2, ElementOfSeq
  <2> QED  BY <1>1, <1>2, <2>1, SubSeqProperties
<1>7. /\ after \in Socket /\ after.inbox = s.inbox /\ after.eof = s.eof
      /\ s.eof => Len(after.outbox) = Len(s.outbox)
      /\ ~s.eof => Len(after.outbox) = Len(s.outbox) + n
  <2>1. CASE s.eof
    BY <1>1, <2>1
  <2>2. CASE ~s.eof
    <3>1. s.outbox \o part \in Seq(Reply) /\ Len(s.outbox \o part) = Len(s.outbox) + n
      BY <1>1, <1>5, ConcatProperties
    <3>2. /\ after.outbox = s.outbox \o part
          /\ after \in Socket /\ after.inbox = s.inbox /\ after.eof = s.eof
      <4> HIDE DEF part
      <4> QED  BY <2>2, <3>1 DEF Socket
    <3> HIDE DEF after
    <3> QED  BY <2>2, <3>1, <3>2
  <2> QED  BY <2>1, <2>2
<1> HIDE DEF after, left, part
<1>8. s2.inbox = s.inbox /\ s2.eof = s.eof /\ s2.outbox = after.outbox
  BY <1>4, <1>7, ReregisterType
<1>9. /\ Held(WrittenConn(c, s), s2) =
           Len(s.inbox) + Waits(c) + Len(left) + Len(after.outbox)
      /\ Held(c, s) = Len(s.inbox) + Waits(c) + len + Len(s.outbox)
  BY <1>3, <1>8 DEF Held
<1>10. Len(s.inbox) \in Nat /\ Waits(c) \in Nat
  BY HeldType
<1> HIDE DEF len
<1>11. CASE s.eof
  BY <1>1, <1>2, <1>6, <1>7, <1>8, <1>9, <1>10, <1>11 DEF s2
<1>12. CASE ~s.eof
  BY <1>1, <1>2, <1>6, <1>7, <1>8, <1>9, <1>10, <1>12 DEF s2
<1> QED  BY <1>11, <1>12

-----------------------------------------------------------------------------
(* What is answered, and to whom.                                          *)

\* The reply of a handler names the command it answers.
LEMMA ReplyIsAnswer ==
  ASSUME NEW r \in Request, NEW ctx \in Context, NEW tm \in Nat, r.cmd # "INLINE"
  PROVE  Execute(r, ctx, tm).reply \in Answer /\ Execute(r, ctx, tm).reply.cmd = r.cmd
<1> DEFINE res == Execute(r, ctx, tm)
           Names(x) == x.reply.cmd = r.cmd
<1>1. \A tag : Names(Err(ctx, ReplyOf(r, tag))) /\ \A c : Names(Ok(c, ReplyOf(r, tag)))
  BY DEF Err, Ok, Result, ReplyOf
<1>2. /\ \A num, c : Names(Ok(c, NumReply(r, num)))
      /\ \A body, c : Names(Ok(c, BodyReply(r, body)))
      /\ \A body, tag, c : Names(Ok(c, [BodyReply(r, body) EXCEPT !.tag = tag]))
      /\ r.cmd = "BLPOP" => \A k, v, c : Names(Ok(c, PopReply(k, v)))
  BY DEF Ok, Result, NumReply, BodyReply, ReplyOf, PopReply
<1> HIDE DEF Names
<1>3. Names(ping(r, ctx)) /\ Names(echo(r, ctx)) /\ Names(typee(r, ctx))
  BY <1>1 DEF ping, echo, typee
<1>4. Names(set(r, ctx, tm)) /\ Names(get(r, ctx, tm))
  BY <1>1, <1>2 DEF set, get, WrongType
<1>5. Names(rpush(r, ctx)) /\ Names(lpush(r, ctx)) /\ Names(llen(r, ctx))
  BY <1>1, <1>2 DEF rpush, lpush, llen, WrongType
<1>6. Names(lrange(r, ctx)) /\ Names(lpop(r, ctx))
  BY <1>1, <1>2 DEF lrange, lpop, WrongType, IsList
<1>7. r.cmd = "BLPOP" => Names(blpop(r, ctx))
  BY <1>2 DEF blpop, Result, ReplyOf, Names
<1>8. r.cmd = "XADD" => Names(xadd(r, ctx))
  BY <1>1, RequestFields, XaddShape DEF XaddResult
<1>9. Names(subscribe(r, ctx)) /\ Names(unsubscribe(r, ctx)) /\ Names(publish(r, ctx))
  BY DEF subscribe, unsubscribe, publish, Ok, Result, NumReply, ReplyOf, Names
<1>10. Names(res)
  BY <1>1, <1>3, <1>4, <1>5, <1>6, <1>7, <1>8, <1>9, ExecuteCases
<1>11. res.reply \in Reply /\ r.cmd # "message"
  BY ExecuteType, RequestFields DEF ResultType
<1> HIDE DEF res
<1>12. res.reply.cmd = r.cmd /\ res.reply.cmd # "message"
  BY <1>10, <1>11 DEF Names
<1> QED  BY <1>11, <1>12 DEF Answer, IsPublished, res

\* Nobody is subscribed to anything, and a request that does not subscribe keeps it so.
Unsubscribed == \A c \in Channel : pubsub[c] = << >>

LEMMA RunSilent ==
  ASSUME NEW r \in Request, NEW ctx \in Context, NEW tm \in Nat, r.cmd # "INLINE",
         r.cmd # "SUBSCRIBE", \A c \in Channel : ctx.pubsub[c] = << >>
  PROVE  \A c \in Channel : Execute(r, ctx, tm).ctx.pubsub[c] = << >>
<1>1. CASE r.cmd # "UNSUBSCRIBE"
  BY <1>1, OthersRegister
<1>2. CASE r.cmd = "UNSUBSCRIBE"
  <2>1. \A e : Without(<< >>, e) = << >>
    BY EmptySeq DEF Without
  <2>2. ctx.pubsub \in [Channel -> Seq(Token)] /\ r.channel \in Channel
    BY <1>2, RequestFields DEF Context, PubSub
  <2>3. \A c \in Channel : unsubscribe(r, ctx).ctx.pubsub[c] = << >>
    BY <2>1, <2>2 DEF unsubscribe, Ok, Result, Context
  <2>4. \/ \E tag \in Tag : Execute(r, ctx, tm) = Err(ctx, ReplyOf(r, tag))
        \/ Execute(r, ctx, tm) = unsubscribe(r, ctx)
    BY <1>2, ExecuteCases
  <2>5. \A tag : Err(ctx, ReplyOf(r, tag)).ctx = ctx
    BY DEF Err, Result
  <2> QED  BY <2>3, <2>4, <2>5
<1> QED  BY <1>1, <1>2

\* So that a message that is published goes to nobody.
LEMMA NoDeliveries ==
  ASSUME Unsubscribed, NEW p \in Publication, NEW t
  PROVE  Deliveries(p, t) = Silence
<1> DEFINE subs == pubsub[p.channel]
<1>1. subs = << >>
  BY DEF Unsubscribed, Publication
<1>2. ASSUME NEW x \in Token
      PROVE  Cardinality({j \in 1..Len(subs) : subs[j] = x}) = 0
  <2>1. {j \in 1..Len(subs) : subs[j] = x} = {}
    BY <1>1, EmptySeq
  <2> QED  BY <2>1, FS_EmptySet
<1>3. \A msg : [i \in 1..0 |-> msg] = << >>
  OBVIOUS
<1> QED  BY <1>2, <1>3 DEF Deliveries, Silence

LEMMA PublishedQuietly ==
  ASSUME Unsubscribed, NEW ps \in Seq(Publication), NEW t
  PROVE  (IF ps = << >> THEN Silence ELSE Deliveries(ps[1], t)) = Silence
<1>1. CASE ps # << >>
  <2>1. 1 \in 1..Len(ps)
    BY <1>1, EmptySeq
  <2>2. ps[1] \in Publication
    BY <2>1, ElementOfSeq
  <2> QED  BY <1>1, <2>2, NoDeliveries
<1> QED  BY <1>1

-----------------------------------------------------------------------------
(* The account of a client: one request, one reply.                        *)

\* What is kept for a client that waits for the answers p.
Account(c, s, p) ==
  /\ Len(p) <= 1
  /\ IF s.eof THEN Held(c, s) <= 1 ELSE Held(c, s) = Len(p)
  /\ c.write_buffer \in Seq(Answer) /\ s.outbox \in Seq(Answer)

Accounts == \A t \in Token : Account(conns[t], socks[t], pending[t])

\* A client that has not come yet waits for nothing.
Vacant == \A t \in Token : t \notin slab => pending[t] = << >>

AccountInv == Unsubscribed /\ Accounts /\ Vacant

LEMMA AccountHeld ==
  ASSUME NEW c \in Connection, NEW s \in Socket, NEW p \in Seq(Request), Account(c, s, p)
  PROVE  Held(c, s) <= 1
BY LenProperties DEF Account

LEMMA NewAccount == Account(NewConnection, NewSocket, << >>)
<1>1. Len(<< >>) = 0 /\ << >> \in Seq(Answer)
  BY EmptySeq
<1> QED  BY <1>1 DEF Account, Held, Waits, NewConnection, NewSocket

\* The buffer of a client gets the reply that it waited for in BLPOP, or nothing.
LEMMA QueuedAccount ==
  ASSUME NEW c \in Connection, NEW s \in Socket, NEW p \in Seq(Request), Account(c, s, p)
  PROVE  /\ Account(Queued(c, << >>), Announced(c, s, << >>), p)
         /\ \A m \in Answer : c.blocked =>
              Account(Queued(Unblocked(c), <<m>>), Announced(c, s, <<m>>), p)
<1>1. Account(Queued(c, << >>), Announced(c, s, << >>), p)
  <2>1. c.write_buffer \o << >> = c.write_buffer
    BY ConcatEmptySeq DEF Connection
  <2>2. Queued(c, << >>) = c
    BY <2>1 DEF Queued, Connection
  <2>3. Announced(c, s, << >>) = s
    BY DEF Announced
  <2> QED  BY <2>2, <2>3
<1>2. ASSUME NEW m \in Answer, c.blocked
      PROVE  Account(Queued(Unblocked(c), <<m>>), Announced(c, s, <<m>>), p)
  <2> DEFINE msgs == <<m>>
             c2 == Queued(Unblocked(c), msgs)
             s2 == Announced(c, s, msgs)
  <2>1. msgs \in Seq(Reply) /\ msgs \in Seq(Answer) /\ Len(msgs) = 1
    BY DEF Answer
  <2> HIDE DEF msgs
  <2>2. Held(c2, s2) + Waits(c) = Held(c, s) + 1 /\ s2.eof = s.eof
    BY <2>1, QueuedHeld
  <2>3. Waits(c) = 1
    BY <1>2 DEF Waits
  <2>4. Unblocked(c) \in Connection /\ c2 \in Connection /\ s2 \in Socket
    BY <2>1, UnblockedType, QueuedType, AnnouncedType
  <2>5. c2.write_buffer = c.write_buffer \o msgs
    BY DEF Queued, Unblocked, Connection
  <2>6. c2.write_buffer \in Seq(Answer)
    BY <2>1, <2>5, ConcatProperties DEF Account
  <2>7. s2.outbox = s.outbox
    BY AnnouncedType
  <2>8. Held(c, s) \in Nat /\ Held(c2, s2) \in Nat
    BY <2>4, HeldType
  <2> HIDE DEF c2, s2
  <2>9. Held(c2, s2) = Held(c, s)
    BY <2>2, <2>3, <2>8
  <2>10. Account(c2, s2, p)
    BY <2>2, <2>6, <2>7, <2>9 DEF Account
  <2> QED  BY <2>10 DEF c2, s2, msgs
<1> QED  BY <1>1, <1>2

LEMMA WrittenAccount ==
  ASSUME NEW c \in Connection, NEW s \in Socket, Len(s.outbox) <= SndBuf,
         NEW p \in Seq(Request), Account(c, s, p)
  PROVE  Account(WrittenConn(c, s), WrittenSock(c, s), p)
<1> DEFINE n == Accepted(c, s)
           len == Len(c.write_buffer)
           part == SubSeq(c.write_buffer, 1, n)
           left == SubSeq(c.write_buffer, n + 1, len)
           c2 == WrittenConn(c, s)
           s2 == WrittenSock(c, s)
<1>1. c.write_buffer \in Seq(Answer) /\ s.outbox \in Seq(Answer) /\ len \in Nat
  BY LenProperties DEF Account
<1>2. n \in 0..len
  BY AcceptedType
<1>3. part \in Seq(Answer) /\ left \in Seq(Answer)
  <2> HIDE DEF n
  <2>1. n \in Nat /\ n <= len
    BY <1>1, <1>2
  <2> QED  BY <1>1, <2>1, SubSeqType
<1>4. c2.write_buffer = left
  BY DEF WrittenConn, Connection
<1>5. s2.outbox \in {s.outbox, s.outbox \o part}
  <2> DEFINE after == IF s.eof THEN s ELSE [s EXCEPT !.outbox = @ \o part]
  <2>1. s2 = reregister(after, FALSE) \/ s2 = after
    BY DEF WrittenSock
  <2>2. after.outbox \in {s.outbox, s.outbox \o part}
    <3> HIDE DEF part
    <3> QED  BY DEF Socket
  <2>3. reregister(after, FALSE).outbox = after.outbox
    <3> HIDE DEF part
    <3> QED  BY DEF reregister, Socket
  <2> HIDE DEF after, s2
  <2> QED  BY <2>1, <2>2, <2>3
<1>6. s2.outbox \in Seq(Answer)
  BY <1>1, <1>3, <1>5, ConcatProperties
<1>7. /\ Held(c2, s2) <= Held(c, s) /\ (~s.eof => Held(c2, s2) = Held(c, s))
      /\ s2.eof = s.eof
  BY WrittenHeld
<1>8. c2 \in Connection /\ s2 \in Socket
  BY WrittenType
<1> HIDE DEF c2, s2, left
<1>9. Held(c, s) \in Nat /\ Held(c2, s2) \in Nat
  BY <1>8, HeldType
<1> QED  BY <1>3, <1>4, <1>6, <1>7, <1>9 DEF Account, c2, s2

\* A read of a client that sends one request at a time finds this one and nothing else.
LEMMA ReadsOne ==
  ASSUME TypeInv, Undisturbed, Accounts, NEW e \in Event,
         NEW n \in 0..Len(socks[e.token].inbox), NEW cut \in BOOLEAN, Reads(e, n, cut)
  PROVE  LET c == conns[e.token]
             s == socks[e.token]
             d == Drained(e.token, n, cut)
         IN  /\ ~c.blocked /\ c.write_buffer = << >> /\ Held(c, s) = 1
             /\ d \in Socket /\ d.inbox = << >> /\ d.outbox = << >> /\ d.eof = s.eof
<1> DEFINE t == e.token
           c == conns[t]
           s == socks[t]
           d == Drained(t, n, cut)
           len == Len(s.inbox)
<1>1. /\ t \in Token /\ c \in Connection /\ s \in Socket /\ pending[t] \in Seq(Request)
      /\ Account(c, s, pending[t])
  BY DEF Event, TypeInv, TypeOK, Accounts
<1>2. ~c.blocked /\ ~cut /\ n \in 1..len
  BY DEF Reads, Undisturbed, OneAtATime
<1>3. d = [s EXCEPT !.inbox = SubSeq(s.inbox, n + 1, len)] /\ d \in Socket
  BY <1>2, ReadsType DEF Drained
<1>4. /\ c.write_buffer \in Seq(Reply) /\ s.outbox \in Seq(Reply) /\ s.inbox \in Seq(Request)
      /\ len \in Nat /\ Len(c.write_buffer) \in Nat /\ Len(s.outbox) \in Nat
  BY <1>1, LenProperties DEF Connection, Socket
<1>5. d.inbox = SubSeq(s.inbox, n + 1, len) /\ d.outbox = s.outbox /\ d.eof = s.eof
  BY <1>1, <1>3 DEF Socket
<1>6. Held(c, s) = len + 0 + Len(c.write_buffer) + Len(s.outbox)
  BY <1>2 DEF Held, Waits
<1>7. Held(c, s) <= 1
  BY <1>1, AccountHeld
<1> HIDE DEF c, s, d, len
<1>8. len = 1 /\ Len(c.write_buffer) = 0 /\ Len(s.outbox) = 0
  <2> DEFINE w == Len(c.write_buffer)
             o == Len(s.outbox)
             h == Held(c, s)
  <2>1. h = len + 0 + w + o /\ h <= 1
    BY <1>6, <1>7
  <2>2. len \in Nat /\ len >= 1 /\ w \in Nat /\ o \in Nat
    BY <1>2, <1>4
  <2> HIDE DEF w, o, h
  <2>3. len = 1 /\ w = 0 /\ o = 0
    BY <2>1, <2>2
  <2> QED  BY <2>3 DEF w, o
<1>9. n = 1 /\ SubSeq(s.inbox, 2, 1) = << >>
  BY <1>2, <1>8
<1>10. Held(c, s) = 1
  BY <1>6, <1>8
<1>11. c.write_buffer = << >> /\ s.outbox = << >>
  BY <1>4, <1>8, EmptySeq
<1>12. d.inbox = << >>
  BY <1>5, <1>8, <1>9
<1> QED  BY <1>2, <1>3, <1>5, <1>10, <1>11, <1>12 DEF c, s, d

LEMMA AnsweredAccount ==
  ASSUME TypeInv, Undisturbed, Accounts, NEW e \in Event,
         NEW n \in 0..Len(socks[e.token].inbox), NEW cut \in BOOLEAN, Reads(e, n, cut),
         NEW ctx \in Context, NEW reply \in Answer
  PROVE  LET c == Answered(conns[e.token], ctx, reply)
             s == Announced(conns[e.token], Drained(e.token, n, cut), <<reply>>)
         IN  /\ c \in Connection /\ s \in Socket /\ Len(s.outbox) <= SndBuf
             /\ Account(c, s, pending[e.token])
<1> DEFINE t == e.token
           d == Drained(t, n, cut)
           c == Answered(conns[t], ctx, reply)
           s == Announced(conns[t], d, <<reply>>)
<1>1. t \in Token /\ conns[t] \in Connection /\ Account(conns[t], socks[t], pending[t])
  BY DEF Event, TypeInv, TypeOK, Accounts
<1>2. /\ ~conns[t].blocked /\ conns[t].write_buffer = << >> /\ Held(conns[t], socks[t]) = 1
      /\ d \in Socket /\ d.inbox = << >> /\ d.outbox = << >> /\ d.eof = socks[t].eof
  BY ReadsOne
<1>3. reply \in Reply
  BY DEF Answer
<1>4. c \in Connection /\ s \in Socket /\ Len(s.outbox) <= SndBuf
  BY <1>1, <1>3, AnsweredType, AnnouncedReadType
<1> HIDE DEF d
<1>5. s.inbox = << >> /\ s.outbox = << >> /\ s.eof = socks[t].eof
  <2>1. s = reregister(d, TRUE) \/ s = d
    BY DEF Announced
  <2> HIDE DEF s
  <2> QED  BY <1>2, <2>1, ReregisterType
<1>6. ~c.blocked /\ c.write_buffer = Append(<< >>, reply)
  BY <1>1, <1>2 DEF Answered, Connection
<1>7. Append(<< >>, reply) \in Seq(Answer) /\ Len(Append(<< >>, reply)) = 1
  BY EmptySeq, AppendProperties
<1> HIDE DEF c, s
<1>8. Held(c, s) = 1
  <2>1. Held(c, s) = 0 + 0 + 1 + 0
    BY <1>5, <1>6, <1>7, EmptySeq DEF Held, Waits
  <2> QED  BY <2>1
<1>9. Account(c, s, pending[t])
  BY <1>1, <1>2, <1>5, <1>6, <1>7, <1>8, EmptySeq DEF Account
<1> QED  BY <1>4, <1>9 DEF c, s, d

LEMMA BlockedAccount ==
  ASSUME TypeInv, Undisturbed, Accounts, NEW e \in Event,
         NEW n \in 0..Len(socks[e.token].inbox), NEW cut \in BOOLEAN, Reads(e, n, cut),
         NEW b, NEW k, NEW deadline
  PROVE  Account(Blocked(conns[e.token], b, k, deadline), Drained(e.token, n, cut),
                 pending[e.token])
<1> DEFINE t == e.token
           d == Drained(t, n, cut)
           c == Blocked(conns[t], b, k, deadline)
<1>1. t \in Token /\ conns[t] \in Connection /\ Account(conns[t], socks[t], pending[t])
  BY DEF Event, TypeInv, TypeOK, Accounts
<1>2. /\ ~conns[t].blocked /\ conns[t].write_buffer = << >> /\ Held(conns[t], socks[t]) = 1
      /\ d \in Socket /\ d.inbox = << >> /\ d.outbox = << >> /\ d.eof = socks[t].eof
  BY ReadsOne
<1> HIDE DEF d
<1>3. c.blocked /\ c.write_buffer = << >>
  BY <1>1, <1>2 DEF Blocked, Connection
<1> HIDE DEF c
<1>4. Held(c, d) = 1
  <2>1. Held(c, d) = 0 + 1 + 0 + 0
    BY <1>2, <1>3, EmptySeq DEF Held, Waits
  <2> QED  BY <2>1
<1>5. Account(c, d, pending[t])
  BY <1>1, <1>2, <1>3, <1>4, EmptySeq DEF Account
<1> QED  BY <1>5 DEF c, d

\* The end of an event, when the others get at most the reply they are blocked on.
LEMMA FinishAccount ==
  ASSUME TypeInv, Accounts, Vacant, NEW e \in Event, NEW c \in Connection, NEW s \in Socket,
         Len(s.outbox) <= SndBuf, Account(c, s, pending[e.token]), NEW out, NEW woken,
         \A x \in Token \ {e.token} :
            \/ x # woken /\ out[x] = << >>
            \/ x = woken /\ conns[x].blocked /\ \E m \in Answer : out[x] = <<m>>,
         Finish(e, c, s, out, woken)
  PROVE  Accounts' /\ Vacant'
<1> DEFINE t == e.token
           others(x) == Queued(IF x = woken THEN Unblocked(conns[x]) ELSE conns[x], out[x])
<1>1. t \in Token
  BY DEF Event
<1>2. ASSUME NEW x \in Token \ {t}
      PROVE  Account(others(x), Announced(conns[x], socks[x], out[x]), pending[x])
  <2>1. /\ conns[x] \in Connection /\ socks[x] \in Socket /\ pending[x] \in Seq(Request)
        /\ Account(conns[x], socks[x], pending[x])
    BY DEF TypeInv, TypeOK, Accounts
  <2>2. CASE x # woken /\ out[x] = << >>
    BY <2>1, <2>2, QueuedAccount
  <2>3. CASE x = woken /\ conns[x].blocked /\ \E m \in Answer : out[x] = <<m>>
    BY <2>1, <2>3, QueuedAccount
  <2> QED  BY <2>2, <2>3
<1>3. Account(WrittenConn(c, s), WrittenSock(c, s), pending[t])
  BY <1>1, WrittenAccount DEF TypeInv, TypeOK
<1> HIDE DEF others
<1>4. CASE /\ Removed(t)
           /\ conns' = [x \in Token |-> IF x = t THEN NewConnection ELSE others(x)]
           /\ socks' = [x \in Token |-> IF x = t THEN NewSocket
                                        ELSE Announced(conns[x], socks[x], out[x])]
  <2>1. pending'[t] = << >> /\ \A x \in Token \ {t} : pending'[x] = pending[x]
    BY <1>1, <1>4 DEF Removed, TypeInv, TypeOK
  <2>2. Vacant'
    BY <1>4, <2>1 DEF Removed, Vacant
  <2>3. ASSUME NEW x \in Token  PROVE Account(conns'[x], socks'[x], pending'[x])
    <3>1. CASE x = t
      BY <1>4, <2>1, <3>1, NewAccount
    <3>2. CASE x # t
      BY <1>2, <1>4, <2>1, <3>2
    <3> QED  BY <3>1, <3>2
  <2> QED  BY <2>2, <2>3 DEF Accounts
<1>5. CASE /\ Kept
           /\ conns' = [x \in Token |-> IF x # t THEN others(x)
                                        ELSE IF e.writable THEN WrittenConn(c, s) ELSE c]
           /\ socks' = [x \in Token |-> IF x # t THEN Announced(conns[x], socks[x], out[x])
                                        ELSE IF e.writable THEN WrittenSock(c, s) ELSE s]
  <2>1. Vacant'
    BY <1>5 DEF Kept, Vacant
  <2>2. ASSUME NEW x \in Token  PROVE Account(conns'[x], socks'[x], pending'[x])
    <3>1. pending' = pending
      BY <1>5 DEF Kept
    <3>2. CASE x = t
      BY <1>3, <1>5, <3>1, <3>2
    <3>3. CASE x # t
      BY <1>2, <1>5, <3>1, <3>3
    <3> QED  BY <3>2, <3>3
  <2> QED  BY <2>1, <2>2 DEF Accounts
<1> QED  BY <1>4, <1>5 DEF Finish, others

\* The same when nobody else gets anything.
LEMMA FinishQuietly ==
  ASSUME TypeInv, Accounts, Vacant, NEW e \in Event, NEW c \in Connection, NEW s \in Socket,
         Len(s.outbox) <= SndBuf, Account(c, s, pending[e.token]),
         Finish(e, c, s, Silence, None)
  PROVE  Accounts' /\ Vacant'
<1>1. \A x \in Token : x # None /\ Silence[x] = << >>
  BY CommandsAssumption DEF Token, Silence
<1> HIDE DEF Silence
<1> QED  BY <1>1, FinishAccount

LEMMA ReadInvalidAccount ==
  ASSUME TypeInv, Undisturbed, AccountInv, NEW e \in Event,
         NEW n \in 0..Len(socks[e.token].inbox), NEW cut \in BOOLEAN, ReadInvalid(e, n, cut)
  PROVE  AccountInv'
<1> DEFINE t == e.token
           r == Head(Buffer(t, n, cut))
           reply == ReplyOf(r, "error")
           c == Answered(conns[t], ContextOf(t), reply)
           s == Announced(conns[t], Drained(t, n, cut), <<reply>>)
<1>1. /\ Reads(e, n, cut) /\ r.cmd = "INLINE" /\ Finish(e, c, s, Silence, None)
      /\ UNCHANGED store
  BY DEF ReadInvalid
<1>2. t \in Token /\ ContextOf(t) \in Context
  BY ContextType DEF Event
<1>3. reply \in Answer
  <2>1. reply \in Reply
    BY <1>1, ReadsType, ReplyOfType DEF Tag
  <2>2. reply.cmd = "INLINE"
    BY <1>1 DEF ReplyOf
  <2> HIDE DEF reply
  <2> QED  BY <2>1, <2>2 DEF Answer, IsPublished
<1> HIDE DEF reply
<1>4. /\ c \in Connection /\ s \in Socket /\ Len(s.outbox) <= SndBuf
      /\ Account(c, s, pending[t])
  BY <1>1, <1>2, <1>3, AnsweredAccount DEF AccountInv
<1> HIDE DEF c, s
<1>5. Accounts' /\ Vacant'
  BY <1>1, <1>4, FinishQuietly DEF AccountInv
<1> QED  BY <1>1, <1>5 DEF AccountInv, Unsubscribed, store

LEMMA ReadBlockAccount ==
  ASSUME TypeInv, Undisturbed, AccountInv, NEW e \in Event,
         NEW n \in 0..Len(socks[e.token].inbox), NEW cut \in BOOLEAN, ReadBlock(e, n, cut)
  PROVE  AccountInv'
<1> DEFINE t == e.token
           b == Buffer(t, n, cut)
           r == Head(b)
           deadline == IF r.timeout > 0 THEN now + r.timeout ELSE None
<1>1. /\ Reads(e, n, cut)
      /\ conns' = [conns EXCEPT ![t] = Blocked(@, b, r.key, deadline)]
      /\ socks' = [socks EXCEPT ![t] = Drained(t, n, cut)]
      /\ UNCHANGED <<slab, store, clients>>
  BY DEF ReadBlock
<1>2. Account(Blocked(conns[t], b, r.key, deadline), Drained(t, n, cut), pending[t])
  BY <1>1, BlockedAccount DEF AccountInv
<1> HIDE DEF b, r, deadline
<1>3. ASSUME NEW x \in Token  PROVE Account(conns'[x], socks'[x], pending'[x])
  <2>1. pending' = pending
    BY <1>1 DEF clients
  <2>2. CASE x = t
    BY <1>1, <1>2, <2>1, <2>2 DEF TypeInv, TypeOK
  <2>3. CASE x # t
    BY <1>1, <2>1, <2>3 DEF TypeInv, TypeOK, AccountInv, Accounts
  <2> QED  BY <2>2, <2>3
<1> QED  BY <1>1, <1>3 DEF AccountInv, Accounts, Vacant, Unsubscribed, store, clients

LEMMA ReadCommandAccount ==
  ASSUME TypeInv, RequestsOnly, Undisturbed, AccountInv, NEW e \in Event,
         NEW n \in 0..Len(socks[e.token].inbox), NEW cut \in BOOLEAN, ReadCommand(e, n, cut)
  PROVE  AccountInv'
<1> DEFINE t == e.token
           r == Head(Buffer(t, n, cut))
           res == Execute(r, ContextOf(t), now)
           c == Answered(conns[t], res.ctx, res.reply)
           s == Announced(conns[t], Drained(t, n, cut), <<res.reply>>)
           out == IF res.publish = << >> THEN Silence ELSE Deliveries(res.publish[1], t)
<1>1. /\ Reads(e, n, cut) /\ r.cmd # "INLINE" /\ Finish(e, c, s, out, None)
      /\ pubsub' = res.ctx.pubsub
  BY DEF ReadCommand
<1>2. /\ t \in Token /\ ContextOf(t) \in Context /\ now \in Nat
      /\ ContextOf(t).pubsub = pubsub
  BY ContextType DEF Event, TypeInv, TypeOK, ContextOf
<1>3. r \in Request /\ r.cmd # "SUBSCRIBE"
  <2>1. r \in Request /\ r \in Known
    BY <1>1, ReadsType, ReadKnown
  <2>2. Part.cmd = "INLINE"
    BY DEF Part
  <2> HIDE DEF r
  <2> QED  BY <1>1, <2>1, <2>2 DEF Known, Undisturbed, NoSubscribers
<1> HIDE DEF r
<1>4. res.reply \in Answer
  BY <1>1, <1>2, <1>3, ReplyIsAnswer
<1>5. res.ctx \in Context /\ res.publish \in Seq(Publication)
  BY <1>1, <1>2, <1>3, ExecuteType DEF ResultType
<1>6. Unsubscribed'
  BY <1>1, <1>2, <1>3, RunSilent DEF AccountInv, Unsubscribed
<1> HIDE DEF res
<1>7. /\ c \in Connection /\ s \in Socket /\ Len(s.outbox) <= SndBuf
      /\ Account(c, s, pending[t])
  BY <1>1, <1>4, <1>5, AnsweredAccount DEF AccountInv
<1>8. out = Silence
  BY <1>5, PublishedQuietly DEF AccountInv
<1> HIDE DEF c, s, out
<1>9. Accounts' /\ Vacant'
  BY <1>1, <1>7, <1>8, FinishQuietly DEF AccountInv
<1> QED  BY <1>6, <1>9 DEF AccountInv

LEMMA ReadPushAccount ==
  ASSUME TypeInv, RequestsOnly, Undisturbed, AccountInv, NEW e \in Event,
         NEW n \in 0..Len(socks[e.token].inbox), NEW cut \in BOOLEAN, ReadPush(e, n, cut)
  PROVE  AccountInv'
<1> DEFINE t == e.token
           r == Head(Buffer(t, n, cut))
           res == Execute(r, ContextOf(t), now)
           q == blocked_queues[r.key]
           items == Items(res.ctx.db, r.key)
           hand == Woken(q) # None /\ items # << >>
           c == Answered(conns[t], res.ctx, res.reply)
           s == Announced(conns[t], Drained(t, n, cut), <<res.reply>>)
           m == PopReply(r.key, Head(items))
           out == [x \in Token |-> IF hand /\ x = Woken(q) THEN <<m>> ELSE << >>]
<1>1. /\ Reads(e, n, cut) /\ r.cmd \in PushCommands /\ res.outcome = "ok"
      /\ Finish(e, c, s, out, Woken(q)) /\ pubsub' = res.ctx.pubsub
  BY DEF ReadPush
<1>2. /\ t \in Token /\ ContextOf(t) \in Context /\ now \in Nat
      /\ ContextOf(t).pubsub = pubsub
  BY ContextType DEF Event, TypeInv, TypeOK, ContextOf
<1>3. r \in Request
  BY <1>1, ReadsType
<1> HIDE DEF r
<1>4. r.key \in Key /\ r.cmd # "INLINE" /\ r.cmd # "SUBSCRIBE"
  BY <1>1, <1>3, RequestFields DEF PushCommands
<1>5. res.reply \in Answer
  BY <1>2, <1>3, <1>4, ReplyIsAnswer
<1>6. res.ctx \in Context /\ res.ctx.db \in DB
  BY <1>2, <1>3, <1>4, ExecuteType DEF ResultType, Context
<1>7. Unsubscribed'
  BY <1>1, <1>2, <1>3, <1>4, RunSilent DEF AccountInv, Unsubscribed
<1>8. items # << >>
  BY <1>1, <1>2, <1>3, PushLeavesItems
<1>9. m \in Answer
  <2>1. m \in Reply /\ m.cmd = "BLPOP"
    BY <1>4, <1>6, <1>8, HandType DEF PopReply
  <2> HIDE DEF m
  <2> QED  BY <2>1 DEF Answer, IsPublished
<1> HIDE DEF m, items, res
<1>10. /\ c \in Connection /\ s \in Socket /\ Len(s.outbox) <= SndBuf
       /\ Account(c, s, pending[t])
  BY <1>1, <1>5, <1>6, AnsweredAccount DEF AccountInv
<1> HIDE DEF c, s
<1>11. ASSUME NEW x \in Token
       PROVE  \/ x # Woken(q) /\ out[x] = << >>
              \/ x = Woken(q) /\ conns[x].blocked /\ \E a \in Answer : out[x] = <<a>>
  <2>1. CASE x # Woken(q)
    BY <2>1
  <2>2. CASE x = Woken(q)
    <3>1. x # None
      BY CommandsAssumption DEF Token
    <3>2. q \in Seq(Token) /\ Served(q) # {}
      BY <1>4, <2>2, <3>1 DEF Woken, TypeInv, TypeOK
    <3>3. Waiting(x)
      <4>1. First(Served(q)) \in Served(q) /\ Woken(q) = q[First(Served(q))]
        BY <3>2, ServedType
      <4> QED  BY <2>2, <4>1 DEF Served
    <3>4. out[x] = <<m>>
      BY <1>8, <2>2, <3>1
    <3> QED  BY <1>9, <2>2, <3>3, <3>4 DEF Waiting
  <2> QED  BY <2>1, <2>2
<1> HIDE DEF out
<1>12. Accounts' /\ Vacant'
  BY <1>1, <1>10, <1>11, FinishAccount DEF AccountInv
<1> QED  BY <1>7, <1>12 DEF AccountInv

\* The remaining events: nothing is read, or the connection is given up.
LEMMA UnreadAccount ==
  ASSUME TypeInv, AccountInv, NEW e \in Event,
         ReadBlocked(e) \/ WriteOnly(e) \/ ReadEof(e)
  PROVE  AccountInv'
<1> DEFINE t == e.token
<1>1. /\ t \in Token /\ conns[t] \in Connection /\ socks[t] \in Socket
      /\ Len(socks[t].outbox) <= SndBuf /\ Account(conns[t], socks[t], pending[t])
  BY DEF Event, TypeInv, TypeOK, OutboxOK, AccountInv, Accounts
<1>2. UNCHANGED store
  BY DEF ReadBlocked, WriteOnly, ReadEof
<1>3. Unsubscribed'
  BY <1>2 DEF AccountInv, Unsubscribed, store
<1>4. CASE ReadBlocked(e)
  BY <1>3, <1>4 DEF ReadBlocked, AccountInv, Accounts, Vacant, clients
<1>5. CASE WriteOnly(e)
  <2>1. Finish(e, conns[t], socks[t], Silence, None)
    BY <1>5 DEF WriteOnly
  <2> QED  BY <1>1, <1>3, <2>1, FinishQuietly DEF AccountInv
<1>6. CASE ReadEof(e)
  <2>1. /\ slab' = slab \ {t} /\ pending' = [pending EXCEPT ![t] = << >>]
        /\ conns' = [conns EXCEPT ![t] = NewConnection]
        /\ socks' = [socks EXCEPT ![t] = NewSocket]
    BY <1>6 DEF ReadEof, Removed
  <2>2. ASSUME NEW x \in Token
        PROVE  /\ Account(conns'[x], socks'[x], pending'[x])
               /\ x \notin slab' => pending'[x] = << >>
    <3>1. CASE x = t
      BY <1>1, <2>1, <3>1, NewAccount DEF TypeInv, TypeOK
    <3>2. CASE x # t
      BY <1>1, <2>1, <3>2 DEF TypeInv, TypeOK, AccountInv, Accounts, Vacant
    <3> QED  BY <3>1, <3>2
  <2> QED  BY <1>3, <2>2 DEF AccountInv, Accounts, Vacant
<1> QED  BY <1>4, <1>5, <1>6

LEMMA EventAccount ==
  ASSUME TypeInv, RequestsOnly, Undisturbed, AccountInv, NEW e \in Event, HandleEvent(e)
  PROVE  AccountInv'
BY UnreadAccount, ReadInvalidAccount, ReadBlockAccount, ReadCommandAccount, ReadPushAccount
   DEF HandleEvent

LEMMA LoopTopAccount ==
  ASSUME TypeInv, AccountInv, LoopTop
  PROVE  AccountInv'
<1>1. NilReply \in Answer
  <2>1. NilReply.cmd = "BLPOP"
    BY DEF NilReply
  <2> QED  BY <2>1, NilReplyType DEF Answer, IsPublished
<1>2. UNCHANGED <<slab, pubsub, pending>>
  BY DEF LoopTop, clients
<1>3. ASSUME NEW x \in Token  PROVE Account(conns'[x], socks'[x], pending[x])
  <2>1. /\ conns[x] \in Connection /\ socks[x] \in Socket /\ pending[x] \in Seq(Request)
        /\ Account(conns[x], socks[x], pending[x])
    BY DEF TypeInv, TypeOK, AccountInv, Accounts
  <2>2. CASE TimedOut(x)
    <3>1. /\ conns'[x] = Queued(Unblocked(conns[x]), <<NilReply>>)
          /\ socks'[x] = Announced(conns[x], socks[x], <<NilReply>>)
      BY <2>2 DEF LoopTop
    <3>2. conns[x].blocked
      BY <2>2 DEF TimedOut, Waiting
    <3> QED  BY <1>1, <2>1, <3>1, <3>2, QueuedAccount
  <2>3. CASE ~TimedOut(x)
    <3>1. conns'[x] = conns[x] /\ socks'[x] = socks[x]
      BY <2>3 DEF LoopTop
    <3> QED  BY <2>1, <3>1
  <2> QED  BY <2>2, <2>3
<1> QED  BY <1>2, <1>3 DEF AccountInv, Unsubscribed, Accounts, Vacant

\* A condition of poll changes nothing that is held.
LEMMA ArmedAccount ==
  ASSUME NEW c \in Connection, NEW s \in Socket, NEW p, Account(c, s, p),
         NEW s2, s2.inbox = s.inbox, s2.outbox = s.outbox, s2.eof = s.eof
  PROVE  Account(c, s2, p)
<1>1. Held(c, s2) = Held(c, s)
  BY DEF Held
<1> QED  BY <1>1 DEF Account

LEMMA PollAccount ==
  ASSUME TypeInv, AccountInv, Poll
  PROVE  AccountInv'
<1>1. UNCHANGED <<conns, slab, pubsub, pending>>
  BY DEF Poll, store, clients
<1>2. ASSUME NEW x \in Token  PROVE Account(conns[x], socks'[x], pending[x])
  <2>1. /\ conns[x] \in Connection /\ socks[x] \in Socket
        /\ Account(conns[x], socks[x], pending[x])
    BY DEF TypeInv, TypeOK, AccountInv, Accounts
  <2>2. /\ socks'[x].inbox = socks[x].inbox /\ socks'[x].outbox = socks[x].outbox
        /\ socks'[x].eof = socks[x].eof
    BY <2>1 DEF Poll, Socket
  <2> QED  BY <2>1, <2>2, ArmedAccount
<1> QED  BY <1>1, <1>2 DEF AccountInv, Unsubscribed, Accounts, Vacant

LEMMA AcceptAccount ==
  ASSUME TypeInv, SlabOK, AccountInv, Accept
  PROVE  AccountInv'
<1> DEFINE accepted == {free[i] : i \in 1..backlog}
<1>1. UNCHANGED <<pubsub, pending>> /\ slab' = slab \cup accepted
  BY DEF Accept, store
<1>2. ASSUME NEW x \in Token  PROVE Account(conns'[x], socks'[x], pending[x])
  <2>1. CASE x \in accepted
    <3>1. PICK i \in 1..backlog : free[i] = x
      BY <2>1
    <3>2. i \in 1..Len(free)
      BY <3>1, LenProperties DEF TypeInv, TypeOK, BacklogOK
    <3>3. x \notin slab
      BY <3>1, <3>2 DEF SlabOK
    <3>4. pending[x] = << >>
      BY <3>3 DEF AccountInv, Vacant
    <3>5. conns'[x] = NewConnection /\ socks'[x] = NewSocket
      BY <2>1 DEF Accept
    <3> QED  BY <3>4, <3>5, NewAccount
  <2>2. CASE x \notin accepted
    <3>1. conns'[x] = conns[x] /\ socks'[x] = socks[x]
      BY <2>2 DEF Accept
    <3> QED  BY <3>1 DEF AccountInv, Accounts
  <2> QED  BY <2>1, <2>2
<1> QED  BY <1>1, <1>2 DEF AccountInv, Unsubscribed, Accounts, Vacant

\* A client that waits for nothing sends its next request.
LEMMA SendAccount ==
  ASSUME TypeInv, Undisturbed, AccountInv, NEW t \in Token, NEW r \in Requests, Send(t, r)
  PROVE  AccountInv'
<1> DEFINE c == conns[t]
           s == socks[t]
           s2 == [s EXCEPT !.inbox = Append(@, r), !.armed = TRUE]
           p2 == Append(pending[t], r)
<1>1. /\ c \in Connection /\ s \in Socket /\ pending[t] \in Seq(Request)
      /\ Account(c, s, pending[t])
  BY DEF TypeInv, TypeOK, AccountInv, Accounts
<1>2. /\ t \in slab /\ ~s.eof /\ Len(pending[t]) < 1
      /\ socks' = [socks EXCEPT ![t] = s2] /\ pending' = [pending EXCEPT ![t] = p2]
      /\ UNCHANGED <<conns, slab, pubsub>>
  BY DEF Send, Undisturbed, OneAtATime, store
<1>3. r \in Request
  BY ServerAssumption
<1>4. s.inbox \in Seq(Request) /\ Len(pending[t]) \in Nat
  BY <1>1, LenProperties DEF Socket
<1>5. Len(pending[t]) = 0 /\ Len(p2) = 1
  BY <1>1, <1>2, <1>3, <1>4, AppendProperties
<1>6. /\ s2.inbox = Append(s.inbox, r) /\ s2.outbox = s.outbox /\ ~s2.eof
      /\ Len(s2.inbox) = Len(s.inbox) + 1
  <2>1. Len(Append(s.inbox, r)) = Len(s.inbox) + 1
    BY <1>3, <1>4, AppendProperties
  <2> QED  BY <1>1, <1>2, <2>1 DEF Socket
<1> HIDE DEF c, s, s2, p2
<1>7. Held(c, s2) = Held(c, s) + 1
  <2> DEFINE i == Len(s.inbox)
             w == Waits(c)
             b == Len(c.write_buffer)
             o == Len(s.outbox)
  <2>1. i \in Nat /\ w \in Nat /\ b \in Nat /\ o \in Nat
    BY <1>1, HeldType
  <2>2. Held(c, s) = i + w + b + o /\ Held(c, s2) = (i + 1) + w + b + o
    BY <1>6 DEF Held
  <2> HIDE DEF i, w, b, o
  <2> QED  BY <2>1, <2>2
<1>8. Account(c, s2, p2)
  <2>1. Held(c, s) = 0
    BY <1>1, <1>2, <1>5 DEF Account
  <2> QED  BY <1>1, <1>5, <1>6, <1>7, <2>1 DEF Account
<1>9. ASSUME NEW x \in Token
      PROVE  /\ Account(conns'[x], socks'[x], pending'[x])
             /\ x \notin slab' => pending'[x] = << >>
  <2>1. CASE x = t
    BY <1>2, <1>8, <2>1 DEF TypeInv, TypeOK, c
  <2>2. CASE x # t
    BY <1>2, <2>2 DEF TypeInv, TypeOK, AccountInv, Accounts, Vacant
  <2> QED  BY <2>1, <2>2
<1> QED  BY <1>2, <1>9 DEF AccountInv, Unsubscribed, Accounts, Vacant

\* A client that leaves may be owed an answer; it expects none.
LEMMA CloseAccount ==
  ASSUME TypeInv, AccountInv, NEW t \in Token, Close(t)
  PROVE  AccountInv'
<1> DEFINE c == conns[t]
           s == socks[t]
<1>1. /\ c \in Connection /\ s \in Socket /\ pending[t] \in Seq(Request)
      /\ Account(c, s, pending[t])
  BY DEF TypeInv, TypeOK, AccountInv, Accounts
<1>2. /\ t \in slab /\ pending' = [pending EXCEPT ![t] = << >>]
      /\ UNCHANGED <<conns, slab, pubsub>>
  BY DEF Close, store
<1>3. PICK rest \in {s.inbox, << >>} :
        socks' = [socks EXCEPT ![t] = [s EXCEPT !.inbox = rest, !.outbox = << >>,
                                                !.eof = TRUE, !.armed = TRUE]]
  BY DEF Close
<1> DEFINE s2 == [s EXCEPT !.inbox = rest, !.outbox = << >>, !.eof = TRUE, !.armed = TRUE]
<1>4. s2.inbox = rest /\ s2.outbox = << >> /\ s2.eof
  BY <1>1 DEF Socket
<1>5. Len(rest) \in Nat /\ Len(rest) <= Len(s.inbox)
  BY <1>1, LenProperties, EmptySeq DEF Socket
<1>6. socks' = [socks EXCEPT ![t] = s2]
  BY <1>3
<1> HIDE DEF c, s, s2
<1>7. Held(c, s2) <= 1
  <2> DEFINE i == Len(s.inbox)
             j == Len(rest)
             w == Waits(c)
             b == Len(c.write_buffer)
             o == Len(s.outbox)
  <2>1. i \in Nat /\ w \in Nat /\ b \in Nat /\ o \in Nat /\ j \in Nat /\ j <= i
    BY <1>1, <1>5, HeldType
  <2>2. Held(c, s) = i + w + b + o /\ Held(c, s2) = j + w + b + 0
    BY <1>4, EmptySeq DEF Held
  <2>3. Held(c, s) <= 1
    BY <1>1, AccountHeld
  <2> HIDE DEF i, w, b, o, j
  <2> QED  BY <2>1, <2>2, <2>3
<1>8. Account(c, s2, << >>)
  BY <1>1, <1>4, <1>7, EmptySeq DEF Account
<1>9. ASSUME NEW x \in Token
      PROVE  /\ Account(conns'[x], socks'[x], pending'[x])
             /\ x \notin slab' => pending'[x] = << >>
  <2>1. CASE x = t
    BY <1>2, <1>6, <1>8, <2>1 DEF TypeInv, TypeOK, c
  <2>2. CASE x # t
    BY <1>2, <1>6, <2>2 DEF TypeInv, TypeOK, AccountInv, Accounts, Vacant
  <2> QED  BY <2>1, <2>2
<1> QED  BY <1>2, <1>9 DEF AccountInv, Unsubscribed, Accounts, Vacant

\* The one reply that is on its way is the one that the client waits for.
LEMMA ReceiveAccount ==
  ASSUME TypeInv, AccountInv, NEW t \in Token, Receive(t)
  PROVE  AccountInv'
<1> DEFINE c == conns[t]
           s == socks[t]
           p == pending[t]
           out == s.outbox
           f == First(Terminated(out))
           left == SubSeq(out, f + 1, Len(out))
           arm == s.armed \/ (s.want /\ Len(out) = SndBuf)
           s2 == [s EXCEPT !.outbox = left, !.armed = arm]
           p2 == IF p = << >> THEN p ELSE Tail(p)
<1>1. c \in Connection /\ s \in Socket /\ p \in Seq(Request) /\ Account(c, s, p)
  BY DEF TypeInv, TypeOK, AccountInv, Accounts
<1>2. /\ t \in slab /\ Terminated(out) # {} /\ socks' = [socks EXCEPT ![t] = s2]
      /\ UNCHANGED <<conns, slab, pubsub>>
  BY DEF Receive, store
<1>3. out \in Seq(Answer) /\ Len(out) \in Nat
  BY <1>1, LenProperties DEF Account
<1>4. f \in 1..Len(out)
  <2>1. Terminated(out) \subseteq 1..Len(out)
    BY DEF Terminated
  <2> HIDE DEF out
  <2>2. Terminated(out) \in SUBSET Nat
    BY <1>3, <2>1
  <2> QED  BY <1>2, <2>1, <2>2, FirstOf
<1>5. ~IsPublished(Head(out))
  <2>1. out[1] \in Answer
    BY <1>3, <1>4, ElementOfSeq
  <2>2. out # << >>
    BY <1>3, <1>4, EmptySeq
  <2> QED  BY <1>3, <2>1, <2>2, HeadTailProperties DEF Answer
<1>6. pending' = [pending EXCEPT ![t] = p2]
  <2>1. CASE p = << >>
    BY <1>5, <2>1 DEF Receive, TypeInv, TypeOK
  <2>2. CASE p # << >>
    BY <1>5, <2>2 DEF Receive
  <2> QED  BY <2>1, <2>2
<1>7. s2.inbox = s.inbox /\ s2.outbox = left /\ s2.eof = s.eof
  BY <1>1 DEF Socket
<1>8. left \in Seq(Answer) /\ Len(left) \in Nat /\ Len(left) <= Len(out) - 1
  <2> HIDE DEF out, f
  <2>1. \A i \in (f + 1)..Len(out) : out[i] \in Answer
    BY <1>3, <1>4, ElementOfSeq
  <2>2. left \in Seq(Answer)
    BY <1>3, <1>4, SubSeqType
  <2>3. Len(left) = IF f + 1 <= Len(out) THEN Len(out) - f ELSE 0
    BY <1>3, <1>4, <2>1, SubSeqProperties
  <2> HIDE DEF left
  <2> QED  BY <1>3, <1>4, <2>2, <2>3
<1> HIDE DEF c, s, s2, p, p2, out, left, f
<1>9. /\ Held(c, s2) <= Held(c, s) - 1
      /\ Held(c, s) <= 1
      /\ Held(c, s2) \in Nat
  <2> DEFINE i == Len(s.inbox)
             w == Waits(c)
             b == Len(c.write_buffer)
             o == Len(out)
             l == Len(left)
  <2>1. i \in Nat /\ w \in Nat /\ b \in Nat /\ o \in Nat /\ l \in Nat /\ l <= o - 1
    BY <1>1, <1>3, <1>8, HeldType
  <2>2. Held(c, s) = i + w + b + o /\ Held(c, s2) = i + w + b + l
    BY <1>7 DEF Held, out
  <2>3. Held(c, s) <= 1
    BY <1>1, AccountHeld
  <2> HIDE DEF i, w, b, o, l
  <2> QED  BY <2>1, <2>2, <2>3
<1>10. Len(p) \in Nat /\ Len(p) <= 1 /\ Held(c, s) \in Nat /\ (~s.eof => Held(c, s) = Len(p))
  BY <1>1, LenProperties, HeldType DEF Account
<1>11. Held(c, s) = 1 /\ Held(c, s2) = 0
  BY <1>9, <1>10
<1>12. Len(p2) \in Nat /\ Len(p2) = 0
  <2>1. CASE p = << >>
    BY <2>1, EmptySeq DEF p2
  <2>2. CASE p # << >>
    <3>1. Len(Tail(p)) = Len(p) - 1
      BY <1>1, <2>2, HeadTailProperties
    <3>2. Len(p) # 0
      BY <1>1, <2>2, EmptySeq
    <3>3. p2 = Tail(p)
      BY <2>2 DEF p2
    <3>4. Len(p) = 1
      <4> DEFINE l == Len(p)
      <4>1. l \in Nat /\ l <= 1 /\ l # 0
        BY <1>10, <3>2
      <4> HIDE DEF l
      <4>2. l = 1
        BY <4>1
      <4> QED  BY <4>2 DEF l
    <3> QED  BY <3>1, <3>3, <3>4
  <2> QED  BY <2>1, <2>2
<1>13. Account(c, s2, p2)
  BY <1>1, <1>7, <1>8, <1>11, <1>12 DEF Account
<1>14. ASSUME NEW x \in Token
       PROVE  /\ Account(conns'[x], socks'[x], pending'[x])
              /\ x \notin slab' => pending'[x] = << >>
  <2>1. CASE x = t
    BY <1>2, <1>6, <1>13, <2>1 DEF TypeInv, TypeOK, c
  <2>2. CASE x # t
    BY <1>2, <1>6, <2>2 DEF TypeInv, TypeOK, AccountInv, Accounts, Vacant
  <2> QED  BY <2>1, <2>2
<1> QED  BY <1>2, <1>14 DEF AccountInv, Unsubscribed, Accounts, Vacant

LEMMA AccountNext ==
  ASSUME Undisturbed, TypeInv, SlabOK, RequestsOnly, AccountInv, [Next]_vars
  PROVE  AccountInv'
<1>1. CASE LoopTop \/ Poll \/ Accept
  BY <1>1, LoopTopAccount, PollAccount, AcceptAccount
<1>2. ASSUME NEW e \in events, e # ServerEvent, HandleEvent(e)
      PROVE  AccountInv'
  BY <1>2, EventInEvents, EventAccount
<1>3. ASSUME NEW t \in Token, \/ \E r \in Requests : Send(t, r)
                              \/ Close(t) \/ Receive(t)
      PROVE  AccountInv'
  BY <1>3, SendAccount, CloseAccount, ReceiveAccount
<1>4. CASE Connect \/ Tick \/ UNCHANGED vars
  <2>1. UNCHANGED <<conns, socks, slab, pubsub, pending>>
    BY <1>4 DEF Connect, Tick, vars, store, clients
  <2> QED  BY <2>1 DEF AccountInv, Unsubscribed, Accounts, Vacant
<1> QED  BY <1>1, <1>2, <1>3, <1>4 DEF Next, ServerStep

LEMMA AccountInit == Init => AccountInv
<1> SUFFICES ASSUME Init PROVE AccountInv
  OBVIOUS
<1>1. \A t \in Token : Account(conns[t], socks[t], pending[t])
  BY NewAccount DEF Init
<1> QED  BY <1>1 DEF Init, AccountInv, Unsubscribed, Accounts, Vacant

LEMMA AccountInvariant == Undisturbed => (Spec => []AccountInv)
<1> SUFFICES ASSUME Undisturbed PROVE Spec => []AccountInv
  OBVIOUS
<1>1. TypeInv /\ SlabOK /\ RequestsOnly /\ AccountInv /\ [Next]_vars => AccountInv'
  BY AccountNext
<1>2. Spec => []TypeInv /\ []SlabOK /\ []RequestsOnly
  BY TypeInvariant, SlabInvariant, KnownInvariant, PTL DEF SlabInv
<1> QED  BY <1>1, <1>2, AccountInit, PTL DEF Spec

\* If nobody subscribes, a client that sends one request at a time gets one reply for each,
\* however the push and the timeout that may end its wait are interleaved, and whoever had its token
\* before: no request is dropped, and none is answered twice.
THEOREM OneReplyForEach == OneAtATime /\ NoSubscribers => (Spec => []OneReplyEach)
<1> SUFFICES ASSUME Undisturbed PROVE Spec => []OneReplyEach
  BY DEF Undisturbed
<1>1. TypeInv /\ AccountInv => OneReplyEach
  <2> SUFFICES ASSUME TypeInv, AccountInv, NEW t \in slab, ~socks[t].eof
               PROVE  Underway(t) = Len(pending[t])
    BY DEF OneReplyEach
  <2>1. Account(conns[t], socks[t], pending[t])
    BY DEF TypeInv, TypeOK, AccountInv, Accounts
  <2>2. Underway(t) = Held(conns[t], socks[t])
    BY DEF Underway, Held, Waits
  <2> QED  BY <2>1, <2>2 DEF Account
<1> QED  BY <1>1, TypeInvariant, AccountInvariant, PTL

-----------------------------------------------------------------------------
(* A reply in a write buffer is noticed.                                   *)

\* What ReplyIsScheduled says of a connection and its socket; ev tells whether the
\* batch holds a writable event of it.
Noted(c, s, ev) ==
  c.write_buffer # << >> => s.want /\ (s.armed \/ ~Writable(s) \/ ev)

HasEvent(t) == \E e \in events : e.token = t /\ e.writable

LEMMA ScheduledIs ==
  ReplyIsScheduled <=> \A t \in slab : Noted(conns[t], socks[t], HasEvent(t))
BY DEF ReplyIsScheduled, Noted, HasEvent

\* The batch is empty when poll is called, so that what it returns is all of it.
PollingOK == polling => events = {}

\* Whoever appends to an empty buffer registers for WRITABLE, which arms the socket
\* unless it is full; a buffer that is not empty has been taken care of.
LEMMA QueuedNoted ==
  ASSUME NEW c \in Connection, NEW s \in Socket, NEW ev \in BOOLEAN, Noted(c, s, ev), NEW msgs
  PROVE  /\ Noted(Queued(c, msgs), Announced(c, s, msgs), ev)
         /\ Noted(Queued(Unblocked(c), msgs), Announced(c, s, msgs), ev)
<1> DEFINE s2 == Announced(c, s, msgs)
<1>1. /\ Queued(c, msgs).write_buffer = c.write_buffer \o msgs
      /\ Queued(Unblocked(c), msgs).write_buffer = c.write_buffer \o msgs
  BY DEF Queued, Unblocked, Connection
<1>2. CASE c.write_buffer # << >>
  <2>1. s2 = s
    BY <1>2 DEF Announced
  <2> HIDE DEF s2
  <2>2. s.want /\ (s.armed \/ ~Writable(s) \/ ev)
    BY <1>2 DEF Noted
  <2>3. \A c2 : Noted(c2, s2, ev)
    BY <2>1, <2>2 DEF Noted
  <2> QED  BY <2>3 DEF s2
<1>3. CASE c.write_buffer = << >> /\ msgs # << >>
  <2>1. s2 = reregister(s, TRUE)
    BY <1>3 DEF Announced
  <2>2. s2.want /\ (s2.armed \/ ~Writable(s2))
    BY <2>1 DEF reregister, Writable, Readable, Socket
  <2> HIDE DEF s2
  <2>3. \A c2 : Noted(c2, s2, ev)
    BY <2>2 DEF Noted
  <2> QED  BY <2>3 DEF s2
<1>4. CASE c.write_buffer = << >> /\ msgs = << >>
  <2>1. << >> \o << >> = << >>
    BY EmptySeq, ConcatEmptySeq
  <2> QED  BY <1>1, <1>4, <2>1 DEF Noted
<1> QED  BY <1>2, <1>3, <1>4

\* The writable event empties the buffer, or fills the socket and keeps the interest.
LEMMA WrittenNoted ==
  ASSUME NEW c \in Connection, NEW s \in Socket, Len(s.outbox) <= SndBuf,
         NEW ev, Noted(c, s, ev)
  PROVE  Noted(WrittenConn(c, s), WrittenSock(c, s), FALSE)
<1> DEFINE n == Accepted(c, s)
           len == Len(c.write_buffer)
           room == SndBuf - Len(s.outbox)
           part == SubSeq(c.write_buffer, 1, n)
           left == SubSeq(c.write_buffer, n + 1, len)
           after == IF s.eof THEN s ELSE [s EXCEPT !.outbox = @ \o part]
           s2 == WrittenSock(c, s)
<1>1. /\ c.write_buffer \in Seq(Reply) /\ len \in Nat
      /\ s.outbox \in Seq(Reply) /\ Len(s.outbox) \in Nat /\ SndBuf \in Nat
  BY LenProperties, ConnectionsAssumption DEF Connection, Socket
<1>2. n \in 0..len
  BY AcceptedType
<1>3. WrittenConn(c, s).write_buffer = left
  BY DEF WrittenConn, Connection
<1>4. CASE n = len
  <2>1. left = << >>
    <3> HIDE DEF n
    <3> QED  BY <1>1, <1>4
  <2> QED  BY <1>3, <2>1 DEF Noted
<1>5. CASE n # len
  <2>1. ~s.eof /\ n = room
    BY <1>5 DEF Accepted
  <2>2. s2 = after
    BY <1>5 DEF WrittenSock
  <2>3. s.want
    <3>1. c.write_buffer # << >>
      <4> HIDE DEF n
      <4> QED  BY <1>1, <1>2, <1>5, EmptySeq
    <3> QED  BY <3>1 DEF Noted
  <2> HIDE DEF n
  <2>4. part \in Seq(Reply) /\ Len(part) = n
    BY <1>1, <1>2, SubSeqProperties, SubSeqType
  <2> HIDE DEF part
  <2>5. after.outbox = s.outbox \o part /\ after.want /\ ~after.eof
    BY <2>1, <2>3 DEF Socket
  <2>6. Len(s.outbox \o part) = Len(s.outbox) + n
    BY <1>1, <2>4, ConcatProperties
  <2> HIDE DEF after
  <2>7. Len(after.outbox) = SndBuf
    BY <1>1, <2>1, <2>5, <2>6
  <2>8. s2.want /\ ~Writable(s2)
    BY <1>1, <2>2, <2>5, <2>7 DEF Writable
  <2> HIDE DEF s2
  <2>9. \A c2 : Noted(c2, s2, FALSE)
    BY <2>8 DEF Noted
  <2> QED  BY <2>9 DEF s2
<1> QED  BY <1>4, <1>5

\* The end of an event e: the client it is about may have no other in the batch.
LEMMA FinishNoted ==
  ASSUME TypeInv, EventsOK, ReplyIsScheduled,
         NEW e \in events, e # ServerEvent, NEW c \in Connection, NEW s \in Socket,
         Len(s.outbox) <= SndBuf, Noted(c, s, e.writable), NEW out, NEW woken,
         Finish(e, c, s, out, woken)
  PROVE  ReplyIsScheduled'
<1> DEFINE t == e.token
           others(x) == Queued(IF x = woken THEN Unblocked(conns[x]) ELSE conns[x], out[x])
<1>1. e \in Event /\ t \in Token /\ e.writable \in BOOLEAN /\ t \in slab
  BY EventInEvents DEF Event, EventsOK
<1>2. events' = events \ {e} /\ slab' \subseteq slab
  BY DEF Finish, Removed, Kept
<1>3. ASSUME NEW x \in slab, x # t
      PROVE  Noted(others(x), Announced(conns[x], socks[x], out[x]), HasEvent(x)')
  <2>1. conns[x] \in Connection /\ socks[x] \in Socket /\ HasEvent(x) \in BOOLEAN
    BY DEF TypeInv, TypeOK, HasEvent
  <2>2. Noted(conns[x], socks[x], HasEvent(x))
    BY ScheduledIs
  <2>3. HasEvent(x)' = HasEvent(x)
    BY <1>2, <1>3 DEF HasEvent
  <2>4. Noted(others(x), Announced(conns[x], socks[x], out[x]), HasEvent(x))
    BY <2>1, <2>2, QueuedNoted
  <2> HIDE DEF others
  <2> QED  BY <2>3, <2>4
<1>4. Noted(WrittenConn(c, s), WrittenSock(c, s), FALSE)
  BY <1>1, WrittenNoted
<1>5. ~NewConnection.write_buffer # << >>
  BY DEF NewConnection
<1>6. \A c2, s2, ev : Noted(c2, s2, FALSE) => Noted(c2, s2, ev)
  BY DEF Noted
<1>7. \A ev : Noted(NewConnection, NewSocket, ev)
  BY DEF Noted, NewConnection
<1> HIDE DEF others
<1>8. ASSUME NEW x \in slab'  PROVE Noted(conns'[x], socks'[x], HasEvent(x)')
  <2>1. x \in Token /\ x \in slab
    BY <1>2 DEF TypeInv, TypeOK
  <2>2. CASE x = t
    <3>1. \/ conns'[t] = NewConnection /\ socks'[t] = NewSocket
          \/ /\ e.writable
             /\ conns'[t] = WrittenConn(c, s) /\ socks'[t] = WrittenSock(c, s)
          \/ ~e.writable /\ conns'[t] = c /\ socks'[t] = s
      BY <1>1 DEF Finish, Kept
    <3>2. CASE conns'[t] = NewConnection /\ socks'[t] = NewSocket
      BY <1>7, <2>2, <3>2
    <3>3. CASE conns'[t] = WrittenConn(c, s) /\ socks'[t] = WrittenSock(c, s)
      BY <1>4, <1>6, <2>2, <3>3
    <3>4. CASE ~e.writable /\ conns'[t] = c /\ socks'[t] = s
      <4>1. Noted(c, s, FALSE)
        BY <3>4 DEF Noted
      <4> QED  BY <1>6, <2>2, <3>4, <4>1
    <3> QED  BY <3>1, <3>2, <3>3, <3>4
  <2>3. CASE x # t
    <3>1. conns'[x] = others(x) /\ socks'[x] = Announced(conns[x], socks[x], out[x])
      BY <2>1, <2>3 DEF Finish, others
    <3> QED  BY <1>3, <2>1, <2>3, <3>1
  <2> QED  BY <2>2, <2>3
<1> QED  BY <1>8 DEF ReplyIsScheduled, Noted, HasEvent

\* The reply of an event is appended where the event finds the connection.
LEMMA AnsweredNoted ==
  ASSUME TypeInv, EventsOK, ReplyIsScheduled, NEW e \in events, e # ServerEvent,
         NEW n \in 0..Len(socks[e.token].inbox), NEW cut \in BOOLEAN, Reads(e, n, cut),
         NEW ctx \in Context, NEW reply \in Reply, NEW out, NEW woken,
         Finish(e, Answered(conns[e.token], ctx, reply),
                Announced(conns[e.token], Drained(e.token, n, cut), <<reply>>), out, woken)
  PROVE  ReplyIsScheduled'
<1> DEFINE t == e.token
           old == conns[t]
           d == Drained(t, n, cut)
           msgs == <<reply>>
           c == Answered(old, ctx, reply)
           s == Announced(old, d, msgs)
<1>1. /\ e \in Event /\ t \in slab /\ t \in Token /\ old \in Connection /\ socks[t] \in Socket
      /\ e.writable \in BOOLEAN
  BY EventInEvents DEF Event, EventsOK, TypeInv, TypeOK
<1>2. c \in Connection /\ s \in Socket /\ Len(s.outbox) <= SndBuf
  BY <1>1, AnsweredType, AnnouncedReadType
<1>3. d \in Socket /\ d.outbox = socks[t].outbox
  BY <1>1, ReadsType
<1>4. d.want = socks[t].want /\ d.armed = socks[t].armed /\ d.eof = socks[t].eof
  <2>1. \E in : d = [socks[t] EXCEPT !.inbox = in]
    BY DEF Drained
  <2> HIDE DEF d
  <2> QED  BY <1>1, <2>1 DEF Socket
<1>5. Noted(old, d, e.writable)
  <2>1. Noted(old, socks[t], HasEvent(t))
    BY <1>1, ScheduledIs
  <2>2. HasEvent(t) => e.writable
    <3>1. ASSUME NEW f \in events, f.token = t, f.writable  PROVE f = e
      <4>1. f # ServerEvent
        BY <1>1, <3>1, CommandsAssumption DEF ServerEvent, SERVER, Token
      <4> QED  BY <3>1, <4>1 DEF EventsOK
    <3> QED  BY <3>1 DEF HasEvent
  <2>3. Writable(d) <=> Writable(socks[t])
    BY <1>3, <1>4 DEF Writable
  <2> HIDE DEF old, d
  <2> QED  BY <1>4, <2>1, <2>2, <2>3 DEF Noted
<1> HIDE DEF d
<1>6. Noted(Queued(old, msgs), s, e.writable)
  BY <1>1, <1>3, <1>5, QueuedNoted
<1>7. Noted(c, s, e.writable)
  <2>1. /\ c.write_buffer = Append(old.write_buffer, reply)
        /\ Queued(old, msgs).write_buffer = old.write_buffer \o msgs
        /\ old.write_buffer \in Seq(Reply)
    BY <1>1 DEF Answered, Queued, Connection
  <2>2. old.write_buffer \o msgs # << >>
    <3> DEFINE w == old.write_buffer
    <3>1. msgs \in Seq(Reply) /\ Len(msgs) = 1
      OBVIOUS
    <3>2. w \in Seq(Reply) /\ Len(w) \in Nat
      BY <2>1, LenProperties
    <3> HIDE DEF msgs, w
    <3>3. Len(w \o msgs) = Len(w) + Len(msgs)
      BY <3>1, <3>2, ConcatProperties
    <3>4. Len(w \o msgs) # 0
      BY <3>1, <3>2, <3>3
    <3>5. w \o msgs # << >>
      BY <3>4, EmptySeq
    <3> QED  BY <3>5 DEF w
  <2> HIDE DEF c, s, msgs
  <2> QED  BY <1>6, <2>1, <2>2 DEF Noted
<1> HIDE DEF c, s, old
<1> QED  BY <1>2, <1>7, FinishNoted DEF c, s, old, d, msgs

\* An event that appends a reply, or only writes, or finds the peer gone.
LEMMA EventNoted ==
  ASSUME TypeInv, EventsOK, ReplyIsScheduled, NEW e \in events, e # ServerEvent,
         \/ WriteOnly(e) \/ ReadEof(e)
         \/ \E n \in 0..Len(socks[e.token].inbox), cut \in BOOLEAN :
              ReadInvalid(e, n, cut) \/ ReadCommand(e, n, cut) \/ ReadPush(e, n, cut)
  PROVE  ReplyIsScheduled'
<1> DEFINE t == e.token
<1>1. e \in Event /\ t \in Token /\ t \in slab
  BY EventInEvents DEF Event, EventsOK
<1>2. /\ conns[t] \in Connection /\ socks[t] \in Socket /\ Len(socks[t].outbox) <= SndBuf
      /\ ContextOf(t) \in Context
  BY <1>1, ContextType DEF TypeInv, TypeOK, OutboxOK
<1>3. ASSUME NEW f \in events, f.token = t  PROVE f = e
  <2>1. f # ServerEvent
    BY <1>1, <1>3, CommandsAssumption DEF ServerEvent, SERVER, Token
  <2> QED  BY <1>3, <2>1 DEF EventsOK
<1>4. CASE WriteOnly(e)
  <2>1. Finish(e, conns[t], socks[t], Silence, None)
    BY <1>4 DEF WriteOnly
  <2>2. Noted(conns[t], socks[t], e.writable)
    BY <1>1, <1>3, ScheduledIs DEF HasEvent, Noted
  <2> QED  BY <1>2, <2>1, <2>2, FinishNoted
<1>5. CASE ReadEof(e)
  <2>1. /\ slab' = slab \ {t} /\ events' = events \ {e}
        /\ conns' = [conns EXCEPT ![t] = NewConnection]
        /\ socks' = [socks EXCEPT ![t] = NewSocket]
    BY <1>5 DEF ReadEof, Removed
  <2>2. ASSUME NEW x \in slab'  PROVE Noted(conns'[x], socks'[x], HasEvent(x)')
    <3>1. x \in slab /\ x # t /\ conns'[x] = conns[x] /\ socks'[x] = socks[x]
      BY <2>1 DEF TypeInv, TypeOK
    <3>2. HasEvent(x)' = HasEvent(x)
      BY <2>1, <3>1 DEF HasEvent
    <3> QED  BY <3>1, <3>2, ScheduledIs
  <2> QED  BY <2>2 DEF ReplyIsScheduled, Noted, HasEvent
<1>6. ASSUME NEW n \in 0..Len(socks[t].inbox), NEW cut \in BOOLEAN,
             ReadInvalid(e, n, cut) \/ ReadCommand(e, n, cut) \/ ReadPush(e, n, cut)
      PROVE  ReplyIsScheduled'
  <2> DEFINE r == Head(Buffer(t, n, cut))
             res == Execute(r, ContextOf(t), now)
  <2>1. Reads(e, n, cut)
    BY <1>6 DEF ReadInvalid, ReadCommand, ReadPush
  <2>2. r \in Request
    BY <1>1, <2>1, ReadsType
  <2>3. CASE ReadInvalid(e, n, cut)
    <3> DEFINE reply == ReplyOf(r, "error")
    <3>1. reply \in Reply
      BY <2>2, ReplyOfType DEF Tag
    <3>2. Finish(e, Answered(conns[t], ContextOf(t), reply),
                 Announced(conns[t], Drained(t, n, cut), <<reply>>), Silence, None)
      BY <2>3 DEF ReadInvalid
    <3> HIDE DEF reply
    <3> QED  BY <1>2, <2>1, <3>1, <3>2, AnsweredNoted
  <2>4. CASE ReadCommand(e, n, cut) \/ ReadPush(e, n, cut)
    <3>1. r.cmd # "INLINE"
      BY <2>4 DEF ReadCommand, ReadPush, PushCommands
    <3>2. PICK out, woken :
            Finish(e, Answered(conns[t], res.ctx, res.reply),
                   Announced(conns[t], Drained(t, n, cut), <<res.reply>>), out, woken)
      BY <2>4 DEF ReadCommand, ReadPush
    <3>3. res.ctx \in Context /\ res.reply \in Reply
      BY <1>1, <2>2, <3>1, RunType DEF ResultType
    <3> HIDE DEF res
    <3> QED  BY <2>1, <3>2, <3>3, AnsweredNoted
  <2> QED  BY <1>6, <2>3, <2>4
<1> QED  BY <1>4, <1>5, <1>6

\* A wait that begins or goes on drops the writable part of the event: that costs
\* nothing when there is nothing to write.
LEMMA BlockNoted ==
  ASSUME TypeInv, EventsOK, ReplyIsScheduled, NEW e \in events, e # ServerEvent,
         conns[e.token].write_buffer = << >>,
         \/ ReadBlocked(e)
         \/ \E n \in 0..Len(socks[e.token].inbox), cut \in BOOLEAN : ReadBlock(e, n, cut)
  PROVE  ReplyIsScheduled'
<1> DEFINE t == e.token
<1>1. t \in Token /\ conns[t] \in Connection
  BY EventInEvents DEF Event, TypeInv, TypeOK
<1>2. slab' = slab /\ events' = events \ {e}
  BY DEF ReadBlocked, ReadBlock
<1>3. \A x \in Token \ {t} : conns'[x] = conns[x] /\ socks'[x] = socks[x]
  BY DEF ReadBlocked, ReadBlock, TypeInv, TypeOK
<1>4. conns'[t].write_buffer = << >>
  <2>1. CASE ReadBlocked(e)
    BY <2>1 DEF ReadBlocked
  <2>2. ASSUME NEW n \in 0..Len(socks[t].inbox), NEW cut \in BOOLEAN, ReadBlock(e, n, cut)
        PROVE  conns'[t].write_buffer = << >>
    <3>1. PICK b, k, d : conns' = [conns EXCEPT ![t] = Blocked(@, b, k, d)]
      BY <2>2 DEF ReadBlock
    <3>2. conns'[t] = Blocked(conns[t], b, k, d)
      BY <1>1, <3>1 DEF TypeInv, TypeOK
    <3> QED  BY <1>1, <3>2 DEF Blocked, Connection
  <2> QED  BY <2>1, <2>2
<1>5. ASSUME NEW x \in slab'  PROVE Noted(conns'[x], socks'[x], HasEvent(x)')
  <2>1. CASE x = t
    BY <1>4, <2>1 DEF Noted
  <2>2. CASE x # t
    <3>1. x \in slab /\ x \in Token
      BY <1>2 DEF TypeInv, TypeOK
    <3>2. HasEvent(x)' = HasEvent(x)
      BY <1>2, <2>2 DEF HasEvent
    <3> QED  BY <1>3, <2>2, <3>1, <3>2, ScheduledIs
  <2> QED  BY <2>1, <2>2
<1> QED  BY <1>5 DEF ReplyIsScheduled, Noted, HasEvent

LEMMA LoopNoted ==
  ASSUME TypeInv, EventsOK, PollingOK, ReplyIsScheduled, LoopTop \/ Poll \/ Accept
  PROVE  ReplyIsScheduled'
<1>1. ASSUME NEW x \in slab
      PROVE  /\ x \in Token /\ conns[x] \in Connection /\ socks[x] \in Socket
             /\ HasEvent(x) \in BOOLEAN /\ Noted(conns[x], socks[x], HasEvent(x))
  BY ScheduledIs DEF TypeInv, TypeOK, HasEvent
<1> SUFFICES ASSUME NEW x \in slab'  PROVE Noted(conns'[x], socks'[x], HasEvent(x)')
  BY DEF ReplyIsScheduled, Noted, HasEvent
<1>2. CASE LoopTop
  <2>1. x \in slab /\ x \in Token
    BY <1>2 DEF LoopTop, TypeInv, TypeOK
  <2>2. HasEvent(x)' = HasEvent(x)
    BY <1>2 DEF LoopTop, HasEvent
  <2>3. \/ /\ conns'[x] = Queued(Unblocked(conns[x]), <<NilReply>>)
           /\ socks'[x] = Announced(conns[x], socks[x], <<NilReply>>)
        \/ conns'[x] = conns[x] /\ socks'[x] = socks[x]
    BY <1>2, <2>1 DEF LoopTop
  <2> QED  BY <1>1, <2>1, <2>2, <2>3, QueuedNoted
<1>3. CASE Poll
  <2>1. x \in slab /\ x \in Token /\ conns' = conns /\ events = {}
    BY <1>3 DEF Poll, TypeInv, TypeOK, PollingOK
  <2>2. ~HasEvent(x)
    BY <2>1 DEF HasEvent
  <2>3. CASE Ready(x)
    <3>1. EventOf(x) \in events'
      BY <1>3, <2>1, <2>3 DEF Poll
    <3>2. EventOf(x).token = x /\ EventOf(x).writable = Writable(socks[x])
      BY DEF EventOf
    <3>3. Writable(socks[x]) => HasEvent(x)'
      BY <3>1, <3>2 DEF HasEvent
    <3>4. socks'[x] = [socks[x] EXCEPT !.armed = FALSE]
      BY <1>3, <2>1, <2>3 DEF Poll
    <3>5. socks'[x].want = socks[x].want /\ Writable(socks'[x]) = Writable(socks[x])
      BY <1>1, <2>1, <3>4 DEF Writable, Socket
    <3>6. Noted(conns[x], socks[x], HasEvent(x))
      BY <1>1, <2>1
    <3> QED  BY <2>1, <3>3, <3>5, <3>6 DEF Noted
  <2>4. CASE ~Ready(x)
    <3>1. socks'[x] = socks[x]
      BY <1>3, <2>1, <2>4 DEF Poll
    <3>2. Noted(conns[x], socks[x], FALSE)
      BY <1>1, <2>1, <2>2 DEF Noted
    <3> QED  BY <2>1, <3>1, <3>2 DEF Noted
  <2> QED  BY <2>3, <2>4
<1>4. CASE Accept
  <2> DEFINE accepted == {free[i] : i \in 1..backlog}
  <2>1. /\ slab' = slab \cup accepted /\ events' = events \ {ServerEvent} /\ x \in Token
        /\ conns' = [u \in Token |-> IF u \in accepted THEN NewConnection ELSE conns[u]]
        /\ socks' = [u \in Token |-> IF u \in accepted THEN NewSocket ELSE socks[u]]
    BY <1>4, AcceptType DEF Accept, TypeInv, TypeOK
  <2> HIDE DEF accepted
  <2>2. CASE x \in accepted
    <3>1. conns'[x].write_buffer = << >>
      BY <2>1, <2>2 DEF NewConnection
    <3> QED  BY <3>1 DEF Noted
  <2>3. CASE x \notin accepted
    <3>1. x \in slab /\ conns'[x] = conns[x] /\ socks'[x] = socks[x]
      BY <2>1, <2>3
    <3>2. HasEvent(x) => HasEvent(x)'
      <4>1. x # SERVER
        BY <2>1, CommandsAssumption DEF SERVER, Token
      <4> QED  BY <2>1, <4>1 DEF HasEvent, ServerEvent
    <3>3. Noted(conns[x], socks[x], HasEvent(x))
      BY <1>1, <3>1
    <3> QED  BY <3>1, <3>2, <3>3 DEF Noted
  <2> QED  BY <2>2, <2>3
<1> QED  BY <1>2, <1>3, <1>4

\* The peer arms the socket when it sends or leaves, and when it makes room in a socket
\* that was full.
LEMMA ClientNoted ==
  ASSUME TypeInv, ReplyIsScheduled, NEW t \in Token,
         (\E r \in Requests : Send(t, r)) \/ Close(t) \/ Receive(t)
  PROVE  ReplyIsScheduled'
<1>1. UNCHANGED <<conns, slab, events>>
  BY DEF Send, Close, Receive
<1>2. /\ t \in slab /\ socks[t] \in Socket /\ Len(socks[t].outbox) <= SndBuf
      /\ Noted(conns[t], socks[t], HasEvent(t))
  BY ScheduledIs DEF Send, Close, Receive, TypeInv, TypeOK, OutboxOK
<1>3. \A x \in Token \ {t} : socks'[x] = socks[x]
  BY DEF Send, Close, Receive, TypeInv, TypeOK
<1>4. /\ socks'[t].want = socks[t].want
      /\ \/ socks'[t].armed
         \/ /\ Receive(t)
            /\ socks'[t].armed =
                 (socks[t].armed \/ (socks[t].want /\ Len(socks[t].outbox) = SndBuf))
  <2>1. ASSUME NEW r \in Requests, Send(t, r)
        PROVE  socks'[t].want = socks[t].want /\ socks'[t].armed
    <3>1. PICK in : socks' = [socks EXCEPT ![t] = [@ EXCEPT !.inbox = in, !.armed = TRUE]]
      BY <2>1 DEF Send
    <3>2. socks'[t] = [socks[t] EXCEPT !.inbox = in, !.armed = TRUE]
      BY <3>1 DEF TypeInv, TypeOK
    <3> QED  BY <1>2, <3>2 DEF Socket
  <2>2. CASE Close(t)
    <3>1. PICK rest : socks' = [socks EXCEPT ![t] =
            [@ EXCEPT !.inbox = rest, !.outbox = << >>, !.eof = TRUE, !.armed = TRUE]]
      BY <2>2 DEF Close
    <3>2. socks'[t] =
            [socks[t] EXCEPT !.inbox = rest, !.outbox = << >>, !.eof = TRUE, !.armed = TRUE]
      BY <3>1 DEF TypeInv, TypeOK
    <3> QED  BY <1>2, <3>2 DEF Socket
  <2>3. CASE Receive(t)
    <3> DEFINE arm == socks[t].armed \/ (socks[t].want /\ Len(socks[t].outbox) = SndBuf)
    <3>1. PICK out : socks' = [socks EXCEPT ![t] =
            [socks[t] EXCEPT !.outbox = out, !.armed = arm]]
      BY <2>3 DEF Receive
    <3>2. socks'[t] = [socks[t] EXCEPT !.outbox = out, !.armed = arm]
      BY <3>1 DEF TypeInv, TypeOK
    <3> HIDE DEF arm
    <3>3. socks'[t].want = socks[t].want /\ socks'[t].armed = arm
      BY <1>2, <3>2 DEF Socket
    <3> QED  BY <2>3, <3>3 DEF arm
  <2> QED  BY <2>1, <2>2, <2>3
<1>5. socks[t].want => socks'[t].armed \/ ~Writable(socks'[t]) \/ HasEvent(t)
        \/ conns[t].write_buffer = << >>
  <2>1. CASE socks'[t].armed
    BY <2>1
  <2>2. CASE ~socks'[t].armed
    <3>1. ~socks[t].armed /\ (socks[t].want => Len(socks[t].outbox) # SndBuf)
      BY <1>4, <2>2
    <3>2. CASE ~Writable(socks[t])
      <4>1. socks[t].outbox \in Seq(Reply) /\ Len(socks[t].outbox) \in Nat /\ SndBuf \in Nat
        BY <1>2, LenProperties, ConnectionsAssumption DEF Socket
      <4>2. socks[t].want => Len(socks[t].outbox) = SndBuf
        BY <1>2, <3>2, <4>1 DEF Writable
      <4> QED  BY <3>1, <4>2
    <3>3. CASE Writable(socks[t])
      BY <1>2, <3>1, <3>3 DEF Noted
    <3> QED  BY <3>2, <3>3
  <2> QED  BY <2>1, <2>2
<1>6. ASSUME NEW x \in slab'  PROVE Noted(conns'[x], socks'[x], HasEvent(x)')
  <2>1. x \in slab /\ x \in Token /\ HasEvent(x)' = HasEvent(x)
    BY <1>1 DEF TypeInv, TypeOK, HasEvent
  <2>2. CASE x = t
    BY <1>1, <1>2, <1>4, <1>5, <2>1, <2>2 DEF Noted
  <2>3. CASE x # t
    BY <1>1, <1>3, <2>1, <2>3, ScheduledIs
  <2> QED  BY <2>2, <2>3
<1> QED  BY <1>6 DEF ReplyIsScheduled, Noted, HasEvent

LEMMA PollingNext ==
  ASSUME PollingOK, [Next]_vars
  PROVE  PollingOK'
<1>1. CASE LoopTop
  BY <1>1 DEF LoopTop, PollingOK
<1>2. CASE Poll
  BY <1>2 DEF Poll, PollingOK
<1>3. ASSUME UNCHANGED polling, events' \subseteq events
      PROVE  PollingOK'
  BY <1>3 DEF PollingOK
<1>4. ASSUME NEW e \in events, HandleEvent(e)  PROVE PollingOK'
  <2>1. events' = events \ {e}
    BY <1>4, EventSlab
  <2>2. CASE ReadBlocked(e) \/ WriteOnly(e) \/ ReadEof(e)
    BY <1>3, <2>1, <2>2 DEF ReadBlocked, WriteOnly, ReadEof, Finish
  <2>3. ASSUME NEW n \in 0..Len(socks[e.token].inbox), NEW cut \in BOOLEAN,
               \/ ReadInvalid(e, n, cut) \/ ReadBlock(e, n, cut)
               \/ ReadCommand(e, n, cut) \/ ReadPush(e, n, cut)
        PROVE  PollingOK'
    BY <1>3, <2>1, <2>3 DEF ReadInvalid, ReadBlock, ReadCommand, ReadPush, Finish
  <2> QED  BY <1>4, <2>2, <2>3 DEF HandleEvent
<1>5. CASE \/ Accept \/ Connect \/ Tick
           \/ \E t \in Token : \/ \E r \in Requests : Send(t, r)
                               \/ Close(t) \/ Receive(t)
  BY <1>3, <1>5 DEF Accept, Connect, Tick, Send, Close, Receive
<1>6. CASE UNCHANGED vars
  BY <1>3, <1>6 DEF vars
<1> QED  BY <1>1, <1>2, <1>4, <1>5, <1>6 DEF Next, ServerStep

\* Nobody waits in BLPOP.
Awake == \A t \in Token : ~conns[t].blocked

\* The step lets nobody wait who has a reply to be written.
FlushedFirst ==
  \A e \in events :
    /\ e # ServerEvent
    /\ \/ ReadBlocked(e)
       \/ \E n \in 0..Len(socks[e.token].inbox), cut \in BOOLEAN : ReadBlock(e, n, cut)
    => conns[e.token].write_buffer = << >>

LEMMA NoBlpop ==
  ASSUME NeverWaits, TypeInv, RequestsOnly, NEW e \in Event,
         NEW n \in 0..Len(socks[e.token].inbox), NEW cut \in BOOLEAN
  PROVE  ~ReadBlock(e, n, cut)
<1> SUFFICES ASSUME ReadBlock(e, n, cut) PROVE FALSE
  OBVIOUS
<1> DEFINE r == Head(Buffer(e.token, n, cut))
<1>1. Reads(e, n, cut) /\ r.cmd = "BLPOP"
  BY DEF ReadBlock
<1>2. r \in Known
  BY <1>1, ReadKnown
<1>3. Part.cmd = "INLINE"
  BY DEF Part
<1> HIDE DEF r
<1> QED  BY <1>1, <1>2, <1>3 DEF Known, NeverWaits

LEMMA AwakeNext ==
  ASSUME NeverWaits, TypeInv, RequestsOnly, Awake, [Next]_vars
  PROVE  Awake'
<1>1. ASSUME \A x \in Token : conns'[x].blocked => StillWaits(x)
      PROVE  Awake'
  BY <1>1 DEF Awake, StillWaits
<1>2. CASE LoopTop
  <2>1. ASSUME NEW x \in Token  PROVE conns'[x] = conns[x]
    BY <1>2 DEF LoopTop, TimedOut, Waiting, Awake
  <2> QED  BY <2>1 DEF Awake
<1>3. CASE Accept
  BY <1>3 DEF Accept, NewConnection, Awake
<1>4. ASSUME NEW e \in events, e # ServerEvent, HandleEvent(e)  PROVE Awake'
  <2>1. e \in Event
    BY <1>4, EventInEvents
  <2>2. CASE ReadBlocked(e)
    BY <2>2 DEF ReadBlocked, Awake
  <2>3. CASE WriteOnly(e) \/ ReadEof(e)
    BY <1>1, <2>1, <2>3, WriteOnlyWait, ReadEofWait
  <2>4. ASSUME NEW n \in 0..Len(socks[e.token].inbox), NEW cut \in BOOLEAN,
               ReadInvalid(e, n, cut) \/ ReadCommand(e, n, cut) \/ ReadPush(e, n, cut)
        PROVE  Awake'
    BY <1>1, <2>1, <2>4, ReadInvalidWait, ReadCommandWait, ReadPushStill
  <2> QED  BY <1>4, <2>1, <2>2, <2>3, <2>4, NoBlpop DEF HandleEvent
<1>5. CASE UNCHANGED conns
  BY <1>5 DEF Awake
<1>6. CASE \/ Poll \/ Connect \/ Tick
           \/ \E t \in Token : \/ \E r \in Requests : Send(t, r)
                               \/ Close(t) \/ Receive(t)
  BY <1>5, <1>6 DEF Poll, Connect, Tick, Send, Close, Receive
<1>7. CASE UNCHANGED vars
  BY <1>5, <1>7 DEF vars
<1> QED  BY <1>2, <1>3, <1>4, <1>6, <1>7 DEF Next, ServerStep

LEMMA AwakeInit == Init => Awake
BY DEF Init, Awake, NewConnection

LEMMA AwakeInvariant == NeverWaits => (Spec => []Awake)
<1> SUFFICES ASSUME NeverWaits PROVE Spec => []Awake
  OBVIOUS
<1>1. TypeInv /\ RequestsOnly /\ Awake /\ [Next]_vars => Awake'
  BY AwakeNext
<1> QED  BY <1>1, AwakeInit, TypeInvariant, KnownInvariant, PTL DEF Spec

\* A client that waits for its one answer has none in its buffer.
LEMMA WaitsWithNothing ==
  ASSUME TypeInv, AccountInv, NEW t \in Token, conns[t].blocked
  PROVE  conns[t].write_buffer = << >> /\ socks[t].outbox = << >>
<1> DEFINE c == conns[t]
           s == socks[t]
           i == Len(s.inbox)
           b == Len(c.write_buffer)
           o == Len(s.outbox)
<1>1. c \in Connection /\ s \in Socket /\ pending[t] \in Seq(Request) /\ Account(c, s, pending[t])
  BY DEF TypeInv, TypeOK, AccountInv, Accounts
<1>2. Held(c, s) <= 1
  BY <1>1, AccountHeld
<1>3. Held(c, s) = i + 1 + b + o
  BY DEF Held, Waits
<1>4. /\ i \in Nat /\ b \in Nat /\ o \in Nat
      /\ c.write_buffer \in Seq(Reply) /\ s.outbox \in Seq(Reply)
  BY <1>1, HeldType DEF Connection, Socket
<1> HIDE DEF i, b, o
<1>5. b = 0 /\ o = 0
  BY <1>2, <1>3, <1>4
<1> QED  BY <1>4, <1>5, EmptySeq DEF b, o

LEMMA OneIsFlushed ==
  ASSUME Undisturbed, TypeInv, AccountInv
  PROVE  FlushedFirst
<1> SUFFICES ASSUME NEW e \in events, e # ServerEvent,
                    \/ ReadBlocked(e)
                    \/ \E n \in 0..Len(socks[e.token].inbox), cut \in BOOLEAN :
                         ReadBlock(e, n, cut)
             PROVE  conns[e.token].write_buffer = << >>
  BY DEF FlushedFirst
<1>1. e \in Event /\ e.token \in Token
  BY EventInEvents DEF Event
<1>2. CASE ReadBlocked(e)
  BY <1>1, <1>2, WaitsWithNothing DEF ReadBlocked
<1>3. ASSUME NEW n \in 0..Len(socks[e.token].inbox), NEW cut \in BOOLEAN, ReadBlock(e, n, cut)
      PROVE  conns[e.token].write_buffer = << >>
  <2>1. Reads(e, n, cut)
    BY <1>3 DEF ReadBlock
  <2> QED  BY <1>1, <2>1, ReadsOne DEF AccountInv
<1> QED  BY <1>2, <1>3

LEMMA AwakeIsFlushed ==
  ASSUME NeverWaits, TypeInv, RequestsOnly, Awake
  PROVE  FlushedFirst
<1> SUFFICES ASSUME NEW e \in events, e # ServerEvent,
                    \/ ReadBlocked(e)
                    \/ \E n \in 0..Len(socks[e.token].inbox), cut \in BOOLEAN :
                         ReadBlock(e, n, cut)
             PROVE  FALSE
  BY DEF FlushedFirst
<1>1. e \in Event /\ e.token \in Token
  BY EventInEvents DEF Event
<1> QED  BY <1>1, NoBlpop DEF ReadBlocked, Awake

LEMMA ScheduledNext ==
  ASSUME TypeInv, EventsOK, PollingOK, FlushedFirst, ReplyIsScheduled, [Next]_vars
  PROVE  ReplyIsScheduled'
<1>1. CASE LoopTop \/ Poll \/ Accept
  BY <1>1, LoopNoted
<1>2. ASSUME NEW e \in events, e # ServerEvent, HandleEvent(e)
      PROVE  ReplyIsScheduled'
  <2>1. CASE \/ ReadBlocked(e)
             \/ \E n \in 0..Len(socks[e.token].inbox), cut \in BOOLEAN : ReadBlock(e, n, cut)
    <3>1. conns[e.token].write_buffer = << >>
      BY <1>2, <2>1 DEF FlushedFirst
    <3> QED  BY <1>2, <2>1, <3>1, BlockNoted
  <2>2. CASE \/ WriteOnly(e) \/ ReadEof(e)
             \/ \E n \in 0..Len(socks[e.token].inbox), cut \in BOOLEAN :
                  ReadInvalid(e, n, cut) \/ ReadCommand(e, n, cut) \/ ReadPush(e, n, cut)
    BY <1>2, <2>2, EventNoted
  <2> QED  BY <1>2, <2>1, <2>2 DEF HandleEvent
<1>3. ASSUME NEW t \in Token, \/ \E r \in Requests : Send(t, r)
                              \/ Close(t) \/ Receive(t)
      PROVE  ReplyIsScheduled'
  BY <1>3, ClientNoted
<1>4. CASE UNCHANGED <<conns, socks, slab, events>>
  BY <1>4 DEF ReplyIsScheduled
<1>5. CASE Connect \/ Tick \/ UNCHANGED vars
  BY <1>4, <1>5 DEF Connect, Tick, vars
<1> QED  BY <1>1, <1>2, <1>3, <1>5 DEF Next, ServerStep

\* The edge-triggered loop never forgets a reply: the buffer it is in is flushed by an
\* event that is in the batch, or that poll will report, or that the peer will cause.
\* It may forget one when a client starts to wait with something in its buffer, a reply
\* to an earlier request or a message for whoever had its token before.  Nobody who
\* never waits does; nor does anybody who sends one request at a time, where nobody
\* subscribes.
THEOREM RepliesScheduled ==
  NeverWaits \/ (OneAtATime /\ NoSubscribers) => (Spec => []ReplyIsScheduled)
<1> SUFFICES ASSUME NeverWaits \/ Undisturbed PROVE Spec => []ReplyIsScheduled
  BY DEF Undisturbed
<1>1. TypeInv /\ EventsOK /\ PollingOK /\ FlushedFirst /\ ReplyIsScheduled /\ [Next]_vars
        => ReplyIsScheduled' /\ PollingOK'
  BY ScheduledNext, PollingNext
<1>2. Init => ReplyIsScheduled /\ PollingOK
  BY DEF Init, ReplyIsScheduled, PollingOK
<1>3. Spec => []TypeInv /\ []EventsOK /\ []RequestsOnly
  BY TypeInvariant, SlabInvariant, KnownInvariant, PTL DEF SlabInv
<1>4. CASE NeverWaits
  <2>1. TypeInv /\ RequestsOnly /\ Awake => FlushedFirst
    BY <1>4, AwakeIsFlushed
  <2>2. Spec => []Awake
    BY <1>4, AwakeInvariant
  <2>3. Spec => []ReplyIsScheduled
    BY <1>1, <1>2, <1>3, <2>1, <2>2, PTL DEF Spec
  <2> QED  BY <2>3
<1>5. CASE Undisturbed
  <2>1. TypeInv /\ AccountInv => FlushedFirst
    BY <1>5, OneIsFlushed
  <2>2. Spec => []AccountInv
    BY <1>5, AccountInvariant
  <2>3. Spec => []ReplyIsScheduled
    BY <1>1, <1>2, <1>3, <2>1, <2>2, PTL DEF Spec
  <2> QED  BY <2>3
<1> QED  BY <1>4, <1>5

-----------------------------------------------------------------------------
(* Where nobody waits, a reply answers the request of its client.          *)

\* All of q is about the request that p begins with.
About(q, p) == \A i \in 1..Len(q) : q[i].cmd = Head(p).cmd

\* What is kept for a client that waits for the answers p: nothing of an earlier
\* request is left to be parsed, and what is on its way is about the one it waits for.
Named(c, s, p) ==
  /\ c.read_buffer = << >>
  /\ IF s.eof THEN s.outbox = << >>
     ELSE About(s.inbox, p) /\ About(c.write_buffer, p) /\ About(s.outbox, p)

NamedInv == \A t \in Token : Named(conns[t], socks[t], pending[t])

LEMMA NothingAbout == \A p : About(<< >>, p)
BY EmptySeq DEF About

LEMMA NewNamed == \A p : Named(NewConnection, NewSocket, p)
BY NothingAbout DEF Named, NewConnection, NewSocket

\* A client that holds nothing can be asked for anything.
LEMMA NothingHeld ==
  ASSUME NEW c \in Connection, NEW s \in Socket, Held(c, s) = 0
  PROVE  s.inbox = << >> /\ c.write_buffer = << >> /\ s.outbox = << >>
<1> DEFINE i == Len(s.inbox)
           w == Waits(c)
           b == Len(c.write_buffer)
           o == Len(s.outbox)
<1>1. i \in Nat /\ w \in Nat /\ b \in Nat /\ o \in Nat
  BY HeldType
<1>2. i + w + b + o = 0
  BY DEF Held
<1> HIDE DEF i, w, b, o
<1>3. i = 0 /\ b = 0 /\ o = 0
  BY <1>1, <1>2
<1> QED  BY <1>3, EmptySeq DEF i, b, o, Connection, Socket

LEMMA WrittenNamed ==
  ASSUME NEW c \in Connection, NEW s \in Socket, NEW p, Len(s.outbox) <= SndBuf,
         Named(c, s, p)
  PROVE  Named(WrittenConn(c, s), WrittenSock(c, s), p)
<1> DEFINE n == Accepted(c, s)
           len == Len(c.write_buffer)
           part == SubSeq(c.write_buffer, 1, n)
           left == SubSeq(c.write_buffer, n + 1, len)
           after == IF s.eof THEN s ELSE [s EXCEPT !.outbox = @ \o part]
           c2 == WrittenConn(c, s)
           s2 == WrittenSock(c, s)
<1>1. c.write_buffer \in Seq(Reply) /\ s.outbox \in Seq(Reply) /\ len \in Nat
  BY LenProperties DEF Connection, Socket
<1>2. n \in 0..len
  BY AcceptedType
<1>3. c2.write_buffer = left /\ c2.read_buffer = c.read_buffer
  BY KeptBytes DEF WrittenConn, Connection
<1>4. s2 = reregister(after, FALSE) \/ s2 = after
  BY DEF WrittenSock
<1> HIDE DEF n, c2, s2
<1>5. part \in Seq(Reply) /\ Len(part) = n /\ \A i \in 1..n : part[i] = c.write_buffer[i]
  BY <1>1, <1>2, SubSeqProperties, SubSeqType
<1>6. Len(left) = len - n /\ \A i \in 1..(len - n) : left[i] = c.write_buffer[n + i]
  <2>1. \A i \in (n + 1)..len : c.write_buffer[i] \in Reply
    BY <1>1, <1>2, ElementOfSeq
  <2>2. Len(left) = len - n
    BY <1>1, <1>2, <2>1, SubSeqProperties
  <2>3. ASSUME NEW i \in 1..(len - n)  PROVE left[i] = c.write_buffer[n + i]
    <3>1. left[i] = c.write_buffer[(n + 1) + i - 1]
      BY <1>1, <1>2, <2>1, <2>3, SubSeqProperties
    <3>2. (n + 1) + i - 1 = n + i
      BY <1>1, <1>2, <2>3
    <3> QED  BY <3>1, <3>2
  <2> QED  BY <2>2, <2>3
<1>7. /\ after \in Socket /\ after.inbox = s.inbox /\ after.eof = s.eof
      /\ after.outbox = IF s.eof THEN s.outbox ELSE s.outbox \o part
  <2>1. s.outbox \o part \in Seq(Reply)
    BY <1>1, <1>5, ConcatProperties
  <2> HIDE DEF part
  <2> QED  BY <2>1 DEF Socket
<1> HIDE DEF after
<1>8. /\ s2.inbox = s.inbox /\ s2.eof = s.eof
      /\ s2.outbox = IF s.eof THEN s.outbox ELSE s.outbox \o part
  BY <1>4, <1>7, ReregisterType
<1> HIDE DEF left, part
<1>9. ASSUME ~s.eof
      PROVE  About(left, p) /\ About(s.outbox \o part, p)
  <2>1. About(c.write_buffer, p) /\ About(s.outbox, p)
    BY <1>9 DEF Named
  <2>2. About(left, p)
    <3>1. ASSUME NEW i \in 1..Len(left)  PROVE left[i].cmd = Head(p).cmd
      <4>1. i \in 1..(len - n) /\ n + i \in 1..len
        BY <1>1, <1>2, <1>6, <3>1
      <4> QED  BY <1>6, <2>1, <4>1 DEF About
    <3> QED  BY <3>1 DEF About
  <2>3. About(part, p)
    <3>1. ASSUME NEW i \in 1..Len(part)  PROVE part[i].cmd = Head(p).cmd
      <4>1. i \in 1..n /\ i \in 1..len
        BY <1>1, <1>2, <1>5, <3>1
      <4> QED  BY <1>5, <2>1, <4>1 DEF About
    <3> QED  BY <3>1 DEF About
  <2>4. About(s.outbox \o part, p)
    <3> DEFINE o == s.outbox
               q == o \o part
    <3>1. o \in Seq(Reply) /\ Len(o) \in Nat
      BY <1>1, LenProperties
    <3> HIDE DEF o
    <3>2. /\ Len(q) = Len(o) + n
          /\ \A i \in 1..Len(q) : q[i] = IF i <= Len(o) THEN o[i] ELSE part[i - Len(o)]
      <4>1. part \in Seq(Reply) /\ Len(part) = n
        BY <1>5
      <4>2. Len(q) = Len(o) + Len(part)
        BY <3>1, <4>1, ConcatProperties
      <4>3. \A i \in 1..(Len(o) + Len(part)) :
               q[i] = IF i <= Len(o) THEN o[i] ELSE part[i - Len(o)]
        BY <3>1, <4>1, ConcatProperties
      <4> HIDE DEF q
      <4> QED  BY <4>1, <4>2, <4>3
    <3> HIDE DEF q
    <3>3. ASSUME NEW i \in 1..Len(q)  PROVE q[i].cmd = Head(p).cmd
      <4>1. CASE i <= Len(o)
        <5>1. i \in 1..Len(o)
          BY <1>1, <1>2, <3>1, <3>2, <3>3, <4>1
        <5> QED  BY <2>1, <3>2, <3>3, <4>1, <5>1 DEF About, o
      <4>2. CASE i > Len(o)
        <5>1. i - Len(o) \in 1..Len(part) /\ ~(i <= Len(o))
          BY <1>1, <1>2, <1>5, <3>1, <3>2, <3>3, <4>2
        <5> QED  BY <2>3, <3>2, <3>3, <5>1 DEF About
      <4> QED  BY <1>1, <1>2, <3>1, <3>2, <3>3, <4>1, <4>2
    <3> QED  BY <3>3 DEF About, q, o
  <2> QED  BY <2>2, <2>4
<1> QED  BY <1>3, <1>8, <1>9 DEF Named, c2, s2

\* The request that is run is the one its client waits for; so is the reply.
LEMMA AnsweredNamed ==
  ASSUME TypeInv, Undisturbed, Accounts, NamedInv, NEW e \in Event,
         NEW n \in 0..Len(socks[e.token].inbox), NEW cut \in BOOLEAN, Reads(e, n, cut),
         NEW ctx \in Context, NEW reply \in Answer,
         reply.cmd = Head(Buffer(e.token, n, cut)).cmd
  PROVE  Named(Answered(conns[e.token], ctx, reply),
               Announced(conns[e.token], Drained(e.token, n, cut), <<reply>>),
               pending[e.token])
<1> DEFINE t == e.token
           d == Drained(t, n, cut)
           c == Answered(conns[t], ctx, reply)
           s == Announced(conns[t], d, <<reply>>)
           inbox == socks[t].inbox
<1>1. /\ t \in Token /\ conns[t] \in Connection /\ socks[t] \in Socket
      /\ Named(conns[t], socks[t], pending[t]) /\ inbox \in Seq(Request)
  BY DEF Event, TypeInv, TypeOK, NamedInv, Socket
<1>2. /\ conns[t].write_buffer = << >> /\ d \in Socket
      /\ d.inbox = << >> /\ d.outbox = << >> /\ d.eof = socks[t].eof
  BY ReadsOne
<1>3. ~cut /\ n \in 1..Len(inbox) /\ Len(inbox) \in Nat
  BY <1>1, LenProperties DEF Reads, Undisturbed, OneAtATime
<1>4. Head(Buffer(t, n, cut)) = inbox[1]
  <2> DEFINE q == SubSeq(inbox, 1, n)
  <2>1. q \in Seq(Request) /\ Len(q) = n /\ q[1] = inbox[1]
    BY <1>1, <1>3, SubSeqProperties, SubSeqType
  <2>2. Buffer(t, n, cut) = << >> \o q \o << >>
    BY <1>1, <1>3 DEF Buffer, Named
  <2> HIDE DEF q
  <2>3. Buffer(t, n, cut) = q
    BY <2>1, <2>2, ConcatEmptySeq
  <2> QED  BY <1>3, <2>1, <2>3, EmptySeq, HeadTailProperties
<1> HIDE DEF d
<1>5. s.inbox = << >> /\ s.outbox = << >> /\ s.eof = socks[t].eof
  <2>1. s = reregister(d, TRUE) \/ s = d
    BY DEF Announced
  <2> HIDE DEF s
  <2> QED  BY <1>2, <2>1, ReregisterType
<1>6. c.read_buffer = << >> /\ c.write_buffer = <<reply>>
  BY <1>1, <1>2 DEF Answered, Connection
<1> HIDE DEF c, s
<1>7. ASSUME ~socks[t].eof  PROVE About(<<reply>>, pending[t])
  <2>1. reply.cmd = Head(pending[t]).cmd
    BY <1>1, <1>3, <1>4, <1>7 DEF Named, About
  <2> QED  BY <2>1 DEF About
<1>8. Named(c, s, pending[t])
  BY <1>5, <1>6, <1>7, NothingAbout DEF Named
<1> QED  BY <1>8 DEF c, s, d

\* The end of an event that concerns its own client only.
LEMMA FinishNamed ==
  ASSUME TypeInv, NamedInv, NEW e \in Event, NEW c \in Connection, NEW s \in Socket,
         Len(s.outbox) <= SndBuf, Named(c, s, pending[e.token]), NEW out, NEW woken,
         \A x \in Token \ {e.token} : x # woken /\ out[x] = << >>,
         Finish(e, c, s, out, woken)
  PROVE  NamedInv'
<1> DEFINE t == e.token
           others(x) == Queued(IF x = woken THEN Unblocked(conns[x]) ELSE conns[x], out[x])
<1>1. t \in Token
  BY DEF Event
<1>2. ASSUME NEW x \in Token \ {t}
      PROVE  others(x) = conns[x] /\ Announced(conns[x], socks[x], out[x]) = socks[x]
  <2>1. conns[x] \in Connection /\ x # woken /\ out[x] = << >>
    BY DEF TypeInv, TypeOK
  <2>2. conns[x].write_buffer \o << >> = conns[x].write_buffer
    BY <2>1, ConcatEmptySeq DEF Connection
  <2>3. Queued(conns[x], << >>) = conns[x]
    BY <2>1, <2>2 DEF Queued, Connection
  <2> QED  BY <2>1, <2>3 DEF Announced
<1>3. Named(WrittenConn(c, s), WrittenSock(c, s), pending[t])
  BY WrittenNamed
<1> HIDE DEF others
<1>4. CASE /\ Removed(t)
           /\ conns' = [x \in Token |-> IF x = t THEN NewConnection ELSE others(x)]
           /\ socks' = [x \in Token |-> IF x = t THEN NewSocket
                                        ELSE Announced(conns[x], socks[x], out[x])]
  <2>1. ASSUME NEW x \in Token  PROVE Named(conns'[x], socks'[x], pending'[x])
    <3>1. CASE x = t
      BY <1>4, <3>1, NewNamed
    <3>2. CASE x # t
      <4>1. pending'[x] = pending[x]
        BY <1>1, <1>4, <3>2 DEF Removed, TypeInv, TypeOK
      <4> QED  BY <1>2, <1>4, <3>2, <4>1 DEF NamedInv
    <3> QED  BY <3>1, <3>2
  <2> QED  BY <2>1 DEF NamedInv
<1>5. CASE /\ Kept
           /\ conns' = [x \in Token |-> IF x # t THEN others(x)
                                        ELSE IF e.writable THEN WrittenConn(c, s) ELSE c]
           /\ socks' = [x \in Token |-> IF x # t THEN Announced(conns[x], socks[x], out[x])
                                        ELSE IF e.writable THEN WrittenSock(c, s) ELSE s]
  <2>1. ASSUME NEW x \in Token  PROVE Named(conns'[x], socks'[x], pending'[x])
    <3>1. pending' = pending
      BY <1>5 DEF Kept
    <3>2. CASE x = t
      BY <1>3, <1>5, <3>1, <3>2
    <3>3. CASE x # t
      BY <1>2, <1>5, <3>1, <3>3 DEF NamedInv
    <3> QED  BY <3>2, <3>3
  <2> QED  BY <2>1 DEF NamedInv
<1> QED  BY <1>4, <1>5 DEF Finish, others

\* A read runs one request, answers it, and concerns nobody else.
LEMMA ReadsNamed ==
  ASSUME TypeInv, RequestsOnly, Undisturbed, AccountInv, Awake, NamedInv, NEW e \in Event,
         NEW n \in 0..Len(socks[e.token].inbox), NEW cut \in BOOLEAN,
         ReadInvalid(e, n, cut) \/ ReadCommand(e, n, cut) \/ ReadPush(e, n, cut)
  PROVE  NamedInv'
<1> DEFINE t == e.token
           r == Head(Buffer(t, n, cut))
           C(ctx, m) == Answered(conns[t], ctx, m)
           S(m) == Announced(conns[t], Drained(t, n, cut), <<m>>)
<1>1. Reads(e, n, cut)
  BY DEF ReadInvalid, ReadCommand, ReadPush
<1>2. r \in Request /\ t \in Token /\ ContextOf(t) \in Context /\ now \in Nat
  BY <1>1, ReadsType, ContextType DEF Event, TypeInv, TypeOK
<1>3. \A x \in Token : x # None /\ Silence[x] = << >>
  BY CommandsAssumption DEF Token, Silence
<1>4. ASSUME NEW ctx \in Context, NEW m \in Answer, m.cmd = r.cmd, NEW out, NEW woken,
             \A x \in Token : x # woken /\ out[x] = << >>,
             Finish(e, C(ctx, m), S(m), out, woken)
      PROVE  NamedInv'
  <2>1. /\ C(ctx, m) \in Connection /\ S(m) \in Socket /\ Len(S(m).outbox) <= SndBuf
    BY <1>1, <1>4, AnsweredAccount DEF AccountInv
  <2>2. Named(C(ctx, m), S(m), pending[t])
    BY <1>1, <1>4, AnsweredNamed DEF AccountInv
  <2> HIDE DEF C, S
  <2> QED  BY <1>4, <2>1, <2>2, FinishNamed
<1>5. CASE ReadInvalid(e, n, cut)
  <2> DEFINE m == ReplyOf(r, "error")
  <2>1. r.cmd = "INLINE" /\ Finish(e, C(ContextOf(t), m), S(m), Silence, None)
    BY <1>5 DEF ReadInvalid
  <2>2. m \in Reply /\ m.cmd = r.cmd
    BY <1>2, ReplyOfType DEF Tag, ReplyOf
  <2> HIDE DEF r, m, C, S, Silence
  <2>3. m \in Answer
    BY <2>1, <2>2 DEF Answer, IsPublished
  <2> QED  BY <1>2, <1>3, <1>4, <2>1, <2>2, <2>3
<1>6. CASE ReadCommand(e, n, cut)
  <2> DEFINE res == Execute(r, ContextOf(t), now)
             out == IF res.publish = << >> THEN Silence ELSE Deliveries(res.publish[1], t)
  <2>1. r.cmd # "INLINE" /\ Finish(e, C(res.ctx, res.reply), S(res.reply), out, None)
    BY <1>6 DEF ReadCommand
  <2> HIDE DEF r
  <2>2. res.reply \in Answer /\ res.reply.cmd = r.cmd
    BY <1>2, <2>1, ReplyIsAnswer
  <2>3. res.ctx \in Context /\ res.publish \in Seq(Publication)
    BY <1>2, <2>1, ExecuteType DEF ResultType
  <2> HIDE DEF res
  <2>4. out = Silence
    BY <2>3, PublishedQuietly DEF AccountInv
  <2> HIDE DEF out, C, S, Silence
  <2> QED  BY <1>3, <1>4, <2>1, <2>2, <2>3, <2>4
<1>7. CASE ReadPush(e, n, cut)
  <2> DEFINE res == Execute(r, ContextOf(t), now)
             q == blocked_queues[r.key]
             items == Items(res.ctx.db, r.key)
             hand == Woken(q) # None /\ items # << >>
             out == [x \in Token |-> IF hand /\ x = Woken(q)
                                     THEN <<PopReply(r.key, Head(items))>> ELSE << >>]
  <2>1. /\ r.cmd \in PushCommands
        /\ Finish(e, C(res.ctx, res.reply), S(res.reply), out, Woken(q))
    BY <1>7 DEF ReadPush
  <2> HIDE DEF r
  <2>2. r.key \in Key /\ r.cmd # "INLINE"
    BY <1>2, <2>1, RequestFields DEF PushCommands
  <2>3. res.reply \in Answer /\ res.reply.cmd = r.cmd /\ res.ctx \in Context
    BY <1>2, <2>2, ReplyIsAnswer, ExecuteType DEF ResultType
  <2> HIDE DEF res
  <2>4. Woken(q) = None
    <3>1. \A i \in 1..Len(q) : q[i] \in Token
      BY <2>2, ElementOfSeq DEF TypeInv, TypeOK
    <3>2. Served(q) = {}
      BY <3>1 DEF Served, Waiting, Awake
    <3> QED  BY <3>2 DEF Woken
  <2>5. \A x \in Token : x # Woken(q) /\ out[x] = << >>
    BY <1>3, <2>4
  <2> HIDE DEF out, C, S, q
  <2> QED  BY <1>4, <2>1, <2>3, <2>5
<1> QED  BY <1>5, <1>6, <1>7

LEMMA EventNamed ==
  ASSUME NeverWaits, TypeInv, RequestsOnly, Undisturbed, AccountInv, Awake, NamedInv,
         NEW e \in Event, HandleEvent(e)
  PROVE  NamedInv'
<1> DEFINE t == e.token
<1>1. /\ t \in Token /\ conns[t] \in Connection /\ socks[t] \in Socket
      /\ Len(socks[t].outbox) <= SndBuf /\ Named(conns[t], socks[t], pending[t])
  BY DEF Event, TypeInv, TypeOK, OutboxOK, NamedInv
<1>2. CASE ReadBlocked(e)
  BY <1>1, <1>2 DEF ReadBlocked, Awake
<1>3. CASE WriteOnly(e)
  <2>1. Finish(e, conns[t], socks[t], Silence, None)
    BY <1>3 DEF WriteOnly
  <2>2. \A x \in Token : x # None /\ Silence[x] = << >>
    BY CommandsAssumption DEF Token, Silence
  <2> HIDE DEF Silence
  <2> QED  BY <1>1, <2>1, <2>2, FinishNamed
<1>4. CASE ReadEof(e)
  <2>1. ASSUME NEW x \in Token  PROVE Named(conns'[x], socks'[x], pending'[x])
    <3>1. CASE x = t
      BY <1>4, <3>1, NewNamed DEF ReadEof, TypeInv, TypeOK
    <3>2. CASE x # t
      BY <1>1, <1>4, <3>2 DEF ReadEof, Removed, TypeInv, TypeOK, NamedInv
    <3> QED  BY <3>1, <3>2
  <2> QED  BY <2>1 DEF NamedInv
<1> QED  BY <1>2, <1>3, <1>4, NoBlpop, ReadsNamed DEF HandleEvent

\* Who sends or receives holds nothing else, before or after.
LEMMA SendNamed ==
  ASSUME TypeInv, Undisturbed, AccountInv, NamedInv,
         NEW t \in Token, NEW r \in Requests, Send(t, r)
  PROVE  NamedInv'
<1> DEFINE c == conns[t]
           s == socks[t]
           p == pending[t]
           s2 == [s EXCEPT !.inbox = Append(@, r), !.armed = TRUE]
<1>1. c \in Connection /\ s \in Socket /\ p \in Seq(Request) /\ Account(c, s, p) /\ Named(c, s, p)
  BY DEF TypeInv, TypeOK, AccountInv, Accounts, NamedInv
<1>2. /\ ~s.eof /\ Len(p) < 1 /\ UNCHANGED conns
      /\ socks' = [socks EXCEPT ![t] = s2]
      /\ pending' = [pending EXCEPT ![t] = Append(p, r)]
  BY DEF Send, Undisturbed, OneAtATime
<1>3. Len(p) = 0 /\ p = << >>
  BY <1>1, <1>2, LenProperties, EmptySeq
<1>4. s.inbox = << >> /\ c.write_buffer = << >> /\ s.outbox = << >>
  BY <1>1, <1>2, <1>3, NothingHeld DEF Account
<1>5. s2.inbox = <<r>> /\ s2.outbox = << >> /\ s2.eof = s.eof /\ Append(p, r) = <<r>>
  BY <1>1, <1>3, <1>4 DEF Socket
<1>6. Named(c, s2, Append(p, r))
  BY <1>1, <1>2, <1>4, <1>5, NothingAbout DEF Named, About
<1> HIDE DEF s2
<1>7. ASSUME NEW x \in Token  PROVE Named(conns'[x], socks'[x], pending'[x])
  <2>1. CASE x = t
    BY <1>2, <1>6, <2>1 DEF TypeInv, TypeOK
  <2>2. CASE x # t
    BY <1>2, <2>2 DEF TypeInv, TypeOK, NamedInv
  <2> QED  BY <2>1, <2>2
<1> QED  BY <1>7 DEF NamedInv

LEMMA ReceiveNamed ==
  ASSUME TypeInv, TypeInv', AccountInv, AccountInv', NamedInv, NEW t \in Token, Receive(t)
  PROVE  NamedInv'
<1> DEFINE c == conns[t]
           s == socks[t]
           p == pending[t]
           s2 == socks'[t]
           p2 == pending'[t]
<1>1. /\ c \in Connection /\ s \in Socket /\ p \in Seq(Request)
      /\ Account(c, s, p) /\ Named(c, s, p)
  BY DEF TypeInv, TypeOK, AccountInv, Accounts, NamedInv
<1>2. conns'[t] = c /\ s2 \in Socket /\ Account(c, s2, p2)
  <2>1. conns' = conns
    BY DEF Receive
  <2> QED  BY <2>1 DEF TypeInv, TypeOK, AccountInv, Accounts
<1>3. /\ UNCHANGED conns
      /\ \A x \in Token \ {t} : socks'[x] = socks[x] /\ pending'[x] = pending[x]
  BY DEF Receive, TypeInv, TypeOK
<1>4. s.outbox # << >> /\ s2.eof = s.eof
  BY <1>1, EmptySeq DEF Receive, Terminated, TypeInv, TypeOK, Socket
<1>5. ~s.eof
  BY <1>1, <1>4 DEF Named
<1>6. p2 = << >>
  <2>1. ~IsPublished(Head(s.outbox))
    BY <1>1, <1>4, HeadTailProperties DEF Account, Answer
  <2>2. CASE p = << >>
    BY <2>2 DEF Receive, TypeInv, TypeOK
  <2>3. CASE p # << >>
    <3>1. p2 = Tail(p)
      BY <2>1, <2>3 DEF Receive, TypeInv, TypeOK
    <3>2. Len(p) = 1
      <4> DEFINE l == Len(p)
      <4>1. l \in Nat /\ l # 0 /\ l <= 1
        BY <1>1, <2>3, LenProperties, EmptySeq DEF Account
      <4> HIDE DEF l
      <4>2. l = 1
        BY <4>1
      <4> QED  BY <4>2 DEF l
    <3>3. Tail(p) \in Seq(Request) /\ Len(Tail(p)) = 0
      BY <1>1, <2>3, <3>2, HeadTailProperties
    <3> QED  BY <3>1, <3>3, EmptySeq
  <2> QED  BY <2>2, <2>3
<1> HIDE DEF c, s, p, s2, p2
<1>7. Held(c, s2) = 0
  BY <1>2, <1>4, <1>5, <1>6, EmptySeq DEF Account
<1>8. s2.inbox = << >> /\ c.write_buffer = << >> /\ s2.outbox = << >>
  BY <1>1, <1>2, <1>7, NothingHeld
<1>9. Named(c, s2, p2)
  BY <1>1, <1>8, NothingAbout DEF Named
<1>10. ASSUME NEW x \in Token  PROVE Named(conns'[x], socks'[x], pending'[x])
  <2>1. CASE x = t
    BY <1>2, <1>9, <2>1 DEF s2, p2
  <2>2. CASE x # t
    BY <1>3, <2>2 DEF NamedInv
  <2> QED  BY <2>1, <2>2
<1> QED  BY <1>10 DEF NamedInv

LEMMA CloseNamed ==
  ASSUME TypeInv, NamedInv, NEW t \in Token, Close(t)
  PROVE  NamedInv'
<1>1. /\ UNCHANGED conns /\ pending' = [pending EXCEPT ![t] = << >>]
      /\ \A x \in Token \ {t} : socks'[x] = socks[x]
      /\ socks'[t].eof /\ socks'[t].outbox = << >>
  <2>1. PICK rest \in {socks[t].inbox, << >>} :
          socks' = [socks EXCEPT ![t] = [@ EXCEPT !.inbox = rest, !.outbox = << >>,
                                                  !.eof = TRUE, !.armed = TRUE]]
    BY DEF Close
  <2> QED  BY <2>1 DEF Close, TypeInv, TypeOK, Socket
<1>2. ASSUME NEW x \in Token  PROVE Named(conns'[x], socks'[x], pending'[x])
  <2>1. CASE x = t
    BY <1>1, <2>1 DEF NamedInv, Named
  <2>2. CASE x # t
    BY <1>1, <2>2 DEF TypeInv, TypeOK, NamedInv
  <2> QED  BY <2>1, <2>2
<1> QED  BY <1>2 DEF NamedInv

\* A slot that has never been read from, or that poll has looked at.
LEMMA LoopNamed ==
  ASSUME TypeInv, Awake, NamedInv, LoopTop \/ Poll \/ Accept
  PROVE  NamedInv'
<1>1. UNCHANGED pending
  BY DEF LoopTop, Poll, Accept, clients
<1>2. CASE LoopTop
  <2>1. ASSUME NEW x \in Token  PROVE conns'[x] = conns[x] /\ socks'[x] = socks[x]
    BY <1>2 DEF LoopTop, TimedOut, Waiting, Awake
  <2> QED  BY <1>1, <2>1 DEF NamedInv
<1>3. CASE Poll
  <2>1. ASSUME NEW x \in Token
        PROVE  /\ conns'[x] = conns[x] /\ socks'[x].inbox = socks[x].inbox
               /\ socks'[x].outbox = socks[x].outbox /\ socks'[x].eof = socks[x].eof
    BY <1>3 DEF Poll, TypeInv, TypeOK, Socket
  <2> QED  BY <1>1, <2>1 DEF NamedInv, Named
<1>4. CASE Accept
  <2>1. ASSUME NEW x \in Token
        PROVE  \/ conns'[x] = NewConnection /\ socks'[x] = NewSocket
               \/ conns'[x] = conns[x] /\ socks'[x] = socks[x]
    BY <1>4 DEF Accept
  <2> QED  BY <1>1, <2>1, NewNamed DEF NamedInv
<1> QED  BY <1>2, <1>3, <1>4

LEMMA NamedNext ==
  ASSUME NeverWaits, Undisturbed, TypeInv, TypeInv', RequestsOnly, AccountInv, AccountInv',
         Awake, NamedInv, [Next]_vars
  PROVE  NamedInv'
<1>1. CASE LoopTop \/ Poll \/ Accept
  BY <1>1, LoopNamed
<1>2. ASSUME NEW e \in events, e # ServerEvent, HandleEvent(e)
      PROVE  NamedInv'
  BY <1>2, EventInEvents, EventNamed
<1>3. ASSUME NEW t \in Token, \/ \E r \in Requests : Send(t, r)
                              \/ Close(t) \/ Receive(t)
      PROVE  NamedInv'
  BY <1>3, SendNamed, CloseNamed, ReceiveNamed
<1>4. CASE Connect \/ Tick \/ UNCHANGED vars
  <2>1. UNCHANGED <<conns, socks, pending>>
    BY <1>4 DEF Connect, Tick, vars, clients
  <2> QED  BY <2>1 DEF NamedInv
<1> QED  BY <1>1, <1>2, <1>3, <1>4 DEF Next, ServerStep

\* A client that gets a reply to another request than its oldest one has waited in
\* BLPOP before: nothing but the bytes which a blocked client leaves in its read buffer
\* makes the replies of a client that sends one request at a time go astray, unless
\* somebody subscribes: then a message may come before a reply.
THEOREM RepliesAnswer ==
  OneAtATime /\ NoSubscribers /\ NeverWaits => (Spec => []AnswersItsRequest)
<1> SUFFICES ASSUME Undisturbed, NeverWaits PROVE Spec => []AnswersItsRequest
  BY DEF Undisturbed
<1>1. TypeInv /\ TypeInv' /\ RequestsOnly /\ AccountInv /\ AccountInv' /\ Awake /\ NamedInv
        /\ [Next]_vars => NamedInv'
  BY NamedNext
<1>2. Init => NamedInv
  BY NewNamed DEF Init, NamedInv
<1>3. TypeInv /\ AccountInv /\ NamedInv => AnswersItsRequest
  <2> SUFFICES ASSUME TypeInv, AccountInv, NamedInv, NEW t \in slab, socks[t].outbox # << >>
               PROVE  /\ pending[t] # << >>
                      /\ Head(socks[t].outbox).cmd = Head(pending[t]).cmd
    BY DEF AnswersItsRequest
  <2> DEFINE out == socks[t].outbox
  <2>1. /\ t \in Token /\ conns[t] \in Connection /\ socks[t] \in Socket
        /\ Account(conns[t], socks[t], pending[t]) /\ Named(conns[t], socks[t], pending[t])
    BY DEF TypeInv, TypeOK, AccountInv, Accounts, NamedInv
  <2>2. ~socks[t].eof /\ About(out, pending[t])
    BY <2>1 DEF Named
  <2>3. pending[t] # << >>
    <3>1. Held(conns[t], socks[t]) # 0
      BY <2>1, NothingHeld
    <3> QED  BY <2>1, <2>2, <3>1, EmptySeq DEF Account
  <2>4. out \in Seq(Reply) /\ Head(out) = out[1] /\ 1 \in 1..Len(out)
    BY <2>1, HeadTailProperties, LenProperties, EmptySeq DEF Socket
  <2> QED  BY <2>2, <2>3, <2>4 DEF About
<1>4. Spec => []TypeInv /\ []RequestsOnly /\ []AccountInv /\ []Awake
  BY TypeInvariant, KnownInvariant, AccountInvariant, AwakeInvariant
<1> QED  BY <1>1, <1>2, <1>3, <1>4, PTL DEF Spec

=============================================================================
