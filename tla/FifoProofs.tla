----------------------------- MODULE FifoProofs -----------------------------
(***************************************************************************)
(* BLPOP without timeouts is first come, first served.  A wait ends in two *)
(* ways only: a push serves the client at the head of the queue, or a      *)
(* failed write removes it; a client that waits has nothing to be written, *)
(* so the queues hold exactly the clients that wait, in their order.       *)
(***************************************************************************)
EXTENDS RepliesProofs

\* Every BLPOP waits for as long as it takes.
NoDeadlines == \A r \in Requests : r.cmd = "BLPOP" => r.timeout = 0

NoTimers == blocked_timeouts = {}

\* The wait of x goes on, for the same key.
GoesOnWaiting(x) ==
  conns[x].blocked => conns'[x].blocked /\ SameWait(conns'[x], conns[x])

-----------------------------------------------------------------------------
(* No wait has a deadline, so the top of the loop ends none.               *)

\* What a BLPOP that waits does to the waiters, and who sent it.
LEMMA BlockEffect ==
  ASSUME TypeInv, RequestsOnly, NEW e \in Event,
         NEW n \in 0..Len(socks[e.token].inbox), NEW cut \in BOOLEAN, ReadBlock(e, n, cut)
  PROVE  LET t == e.token
             r == Head(Buffer(t, n, cut))
         IN  /\ t \in Token /\ ~conns[t].blocked /\ r \in Requests /\ r.cmd = "BLPOP"
             /\ r.key \in Key
             /\ conns'[t].blocked /\ conns'[t].block_key = r.key
             /\ \A x \in Token \ {t} : conns'[x] = conns[x]
             /\ blocked_queues' = [blocked_queues EXCEPT ![r.key] = Append(@, t)]
             /\ NoDeadlines => UNCHANGED blocked_timeouts
<1> DEFINE t == e.token
           b == Buffer(t, n, cut)
           r == Head(b)
           deadline == IF r.timeout > 0 THEN now + r.timeout ELSE None
<1>1. /\ Reads(e, n, cut) /\ r.cmd = "BLPOP" /\ ~conns[t].blocked
      /\ conns' = [conns EXCEPT ![t] = Blocked(@, b, r.key, deadline)]
      /\ blocked_timeouts' = IF deadline = None THEN blocked_timeouts
                             ELSE blocked_timeouts \cup {<<deadline, t>>}
      /\ blocked_queues' = [blocked_queues EXCEPT ![r.key] = Append(@, t)]
  BY DEF ReadBlock, Reads
<1>2. t \in Token /\ conns[t] \in Connection
  BY DEF Event, TypeInv, TypeOK
<1>3. r \in Request /\ r \in Known
  BY <1>1, ReadsType, ReadKnown
<1> HIDE DEF r, b
<1>4. r \in Requests
  BY <1>1, <1>3 DEF Known, Part
<1>5. r.key \in Key
  BY <1>1, <1>3, RequestFields
<1>6. NoDeadlines => deadline = None
  BY <1>1, <1>4 DEF NoDeadlines
<1> HIDE DEF deadline
<1>7. conns'[t] = Blocked(conns[t], b, r.key, deadline)
      /\ \A x \in Token \ {t} : conns'[x] = conns[x]
  BY <1>1, <1>2 DEF TypeInv, TypeOK
<1>8. conns'[t].blocked /\ conns'[t].block_key = r.key
  BY <1>2, <1>7 DEF Blocked, Connection
<1> QED  BY <1>1, <1>2, <1>4, <1>5, <1>6, <1>7, <1>8 DEF r, b

LEMMA NoTimersNext ==
  NoDeadlines /\ TypeInv /\ RequestsOnly /\ NoTimers /\ [Next]_vars => NoTimers'
<1> SUFFICES ASSUME NoDeadlines, TypeInv, RequestsOnly, NoTimers, [Next]_vars
             PROVE  NoTimers'
  OBVIOUS
<1>1. CASE UNCHANGED blocked_timeouts
  BY <1>1 DEF NoTimers
<1>2. CASE LoopTop
  BY <1>2 DEF LoopTop, NoTimers
<1>3. ASSUME NEW e \in events, e # ServerEvent, HandleEvent(e)
      PROVE  NoTimers'
  <2>1. e \in Event
    BY <1>3, EventInEvents
  <2>2. CASE ReadBlocked(e) \/ WriteOnly(e) \/ ReadEof(e)
    BY <1>1, <2>2 DEF ReadBlocked, WriteOnly, ReadEof, waiters
  <2>3. ASSUME NEW n \in 0..Len(socks[e.token].inbox), NEW cut \in BOOLEAN,
               \/ ReadInvalid(e, n, cut) \/ ReadBlock(e, n, cut)
               \/ ReadCommand(e, n, cut) \/ ReadPush(e, n, cut)
        PROVE  NoTimers'
    <3>1. CASE ReadBlock(e, n, cut)
      BY <1>1, <2>1, <3>1, BlockEffect
    <3>2. CASE ReadInvalid(e, n, cut)
      BY <1>1, <3>2 DEF ReadInvalid, waiters
    <3>3. CASE ReadCommand(e, n, cut)
      BY <1>1, <3>3 DEF ReadCommand, waiters
    <3>4. CASE ReadPush(e, n, cut)
      BY <1>1, <3>4 DEF ReadPush
    <3> QED  BY <2>3, <3>1, <3>2, <3>3, <3>4
  <2> QED  BY <1>3, <2>2, <2>3 DEF HandleEvent
<1>4. CASE \/ Poll \/ Accept \/ Connect \/ Tick
           \/ \E t \in Token : \/ \E r \in Requests : Send(t, r)
                               \/ Close(t) \/ Receive(t)
  BY <1>1, <1>4 DEF Poll, Accept, Connect, Tick, Send, Close, Receive, waiters
<1>5. CASE UNCHANGED vars
  BY <1>1, <1>5 DEF vars, waiters
<1> QED  BY <1>2, <1>3, <1>4, <1>5 DEF Next, ServerStep

LEMMA NoTimersInvariant == NoDeadlines => (Spec => []NoTimers)
<1> SUFFICES ASSUME NoDeadlines PROVE Spec => []NoTimers
  OBVIOUS
<1>1. Init => NoTimers
  BY DEF Init, NoTimers
<1>2. TypeInv /\ RequestsOnly /\ NoTimers /\ [Next]_vars => NoTimers'
  BY NoTimersNext
<1> QED  BY <1>1, <1>2, TypeInvariant, KnownInvariant, PTL DEF Spec

\* The top of the loop leaves the connections alone.
LEMMA LoopTopQuiet ==
  ASSUME NoTimers, TypeInv, LoopTop
  PROVE  conns' = conns /\ UNCHANGED <<slab, blocked_queues>>
<1>1. \A t \in Token : ~TimedOut(t)
  BY DEF TimedOut, NoTimers
<1>2. conns' = [t \in Token |-> conns[t]]
  BY <1>1 DEF LoopTop
<1>3. conns = [t \in Token |-> conns[t]]
  BY DEF TypeInv, TypeOK
<1> QED  BY <1>2, <1>3 DEF LoopTop

-----------------------------------------------------------------------------
(* What an event does to a client that waits.                              *)

LEMMA FinishGoesOn ==
  ASSUME TypeInv, NEW e \in Event, NEW c \in Connection, NEW s, NEW out, NEW woken,
         SameWait(c, conns[e.token]), Finish(e, c, s, out, woken),
         conns[e.token].blocked => c.write_buffer = << >>,
         NEW x \in Token, x # woken \/ x = e.token
  PROVE  GoesOnWaiting(x)
<1> SUFFICES ASSUME conns[x].blocked
             PROVE  conns'[x].blocked /\ SameWait(conns'[x], conns[x])
  BY DEF GoesOnWaiting
<1> DEFINE t == e.token
<1>1. SameWait(WrittenConn(c, s), c) /\ SameWait(Queued(conns[x], out[x]), conns[x])
  BY BufferWait, ConnectionRecords
<1>2. CASE x = t
  <2>1. ~MayFail(c, s)
    BY <1>2 DEF MayFail
  <2>2. conns'[x] \in {c, WrittenConn(c, s)}
    BY <1>2, <2>1 DEF Finish
  <2> QED  BY <1>1, <1>2, <2>2 DEF SameWait
<1>3. CASE x # t
  <2>1. conns'[x] = Queued(conns[x], out[x])
    BY <1>3 DEF Finish
  <2> QED  BY <1>1, <2>1 DEF SameWait
<1> QED  BY <1>2, <1>3

\* An event other than one that starts a wait or pushes: all waits go on.
LEMMA OtherEventGoesOn ==
  ASSUME TypeInv, AccountInv, NEW e \in Event,
         \/ ReadBlocked(e) \/ WriteOnly(e) \/ ReadEof(e)
         \/ \E n \in 0..Len(socks[e.token].inbox), cut \in BOOLEAN :
              ReadInvalid(e, n, cut) \/ ReadCommand(e, n, cut)
  PROVE  UNCHANGED waiters /\ \A x \in Token : GoesOnWaiting(x)
<1> DEFINE t == e.token
<1>1. t \in Token /\ conns[t] \in Connection
  BY ConnectionRecords DEF Event
<1>2. None \notin Token
  BY CommandsAssumption DEF Token
<1>3. CASE ReadBlocked(e)
  BY <1>3 DEF ReadBlocked, GoesOnWaiting, SameWait
<1>4. CASE ReadEof(e)
  BY <1>4 DEF ReadEof, GoesOnWaiting, SameWait, TypeInv, TypeOK
<1>5. CASE WriteOnly(e)
  <2> DEFINE s == socks[t]
  <2>1. Finish(e, conns[t], s, Silence, None) /\ UNCHANGED waiters
    BY <1>5 DEF WriteOnly
  <2>2. conns[t].blocked => conns[t].write_buffer = << >>
    BY <1>1, WaitsWithNothing
  <2>3. SameWait(conns[t], conns[t])
    BY DEF SameWait
  <2> HIDE DEF s
  <2> QED  BY <1>1, <1>2, <2>1, <2>2, <2>3, FinishGoesOn
<1>6. ASSUME NEW n \in 0..Len(socks[e.token].inbox), NEW cut \in BOOLEAN,
             ReadInvalid(e, n, cut)
      PROVE  UNCHANGED waiters /\ \A x \in Token : GoesOnWaiting(x)
  <2> DEFINE reply == ReplyOf(Head(Buffer(t, n, cut)), "error")
             c == Answered(conns[t], ContextOf(t), reply)
             s == Announced(conns[t], Drained(t, n, cut), <<reply>>)
  <2>1. Reads(e, n, cut) /\ ~conns[t].blocked
    BY <1>6 DEF ReadInvalid, Reads
  <2>2. reply \in Reply
    BY <2>1, ReadsType, ReplyOfType DEF Tag
  <2>3. Finish(e, c, s, Silence, None) /\ UNCHANGED waiters
    BY <1>6 DEF ReadInvalid
  <2> HIDE DEF reply
  <2>4. c \in Connection /\ SameWait(c, conns[t])
    BY <1>1, <2>2, ContextType, AnsweredType, BufferWait
  <2> HIDE DEF c, s
  <2> QED  BY <1>2, <2>1, <2>3, <2>4, FinishGoesOn
<1>7. ASSUME NEW n \in 0..Len(socks[e.token].inbox), NEW cut \in BOOLEAN,
             ReadCommand(e, n, cut)
      PROVE  UNCHANGED waiters /\ \A x \in Token : GoesOnWaiting(x)
  <2> DEFINE r == Head(Buffer(t, n, cut))
             res == Execute(r, ContextOf(t), now)
             c == Answered(conns[t], res.ctx, res.reply)
             s == Announced(conns[t], Drained(t, n, cut), <<res.reply>>)
             out == IF res.publish = << >> THEN Silence ELSE Deliveries(res.publish[1], t)
  <2>1. /\ Reads(e, n, cut) /\ r.cmd # "INLINE" /\ ~conns[t].blocked
        /\ Finish(e, c, s, out, None) /\ UNCHANGED waiters
    BY <1>7 DEF ReadCommand, Reads
  <2>2. r \in Request
    BY <2>1, ReadsType
  <2> HIDE DEF r
  <2>3. c \in Connection /\ SameWait(c, conns[t])
    BY <1>1, <2>1, <2>2, RunType, BufferWait
  <2> HIDE DEF c, s, out
  <2> QED  BY <1>2, <2>1, <2>3, FinishGoesOn
<1> QED  BY <1>3, <1>4, <1>5, <1>6, <1>7

-----------------------------------------------------------------------------
(* The queues hold those who wait, each once.                              *)

LEMMA QueuesKept ==
  ASSUME TypeInv, QueuesExact, UNCHANGED blocked_queues, \A x \in Token : GoesOnWaiting(x)
  PROVE  QueuesExact'
<1> SUFFICES ASSUME NEW k \in Key, NEW i \in 1..Len(blocked_queues[k])
             PROVE  LET q == blocked_queues[k]
                    IN  /\ conns'[q[i]].blocked /\ conns'[q[i]].block_key = k
                        /\ \A j \in 1..Len(q) : q[j] = q[i] => j = i
  BY DEF QueuesExact
<1> DEFINE q == blocked_queues[k]
<1>1. q[i] \in Token
  BY ElementOfSeq DEF TypeInv, TypeOK
<1>2. /\ conns[q[i]].blocked /\ conns[q[i]].block_key = k
      /\ \A j \in 1..Len(q) : q[j] = q[i] => j = i
  BY DEF QueuesExact
<1> QED  BY <1>1, <1>2 DEF GoesOnWaiting, SameWait

\* A push serves the head of an exact queue and leaves its tail.
LEMMA ExactFront ==
  ASSUME TypeInv, WaitInv, QueuesExact, NEW k \in Key
  PROVE  LET q == blocked_queues[k]
         IN  /\ q = << >> => Woken(q) = None /\ Unserved(q) = << >>
             /\ q # << >> => /\ Woken(q) = Head(q) /\ Unserved(q) = Tail(q)
                             /\ q[1] = Head(q) /\ Head(q) \in Token
<1> DEFINE q == blocked_queues[k]
<1>1. q \in Seq(Token) /\ Len(q) \in Nat
  BY LenProperties DEF TypeInv, TypeOK
<1>2. CASE q = << >>
  <2>1. Served(q) = {}
    BY <1>2, EmptySeq DEF Served
  <2> QED  BY <1>2, <2>1 DEF Woken, Unserved
<1>3. CASE q # << >>
  <2> DEFINE f == First(Served(q))
  <2>1. Len(q) >= 1 /\ Head(q) = q[1] /\ Head(q) \in Token
    BY <1>1, <1>3, HeadTailProperties
  <2>2. q[1] \in Token /\ conns[q[1]].blocked
    BY <2>1, <1>1 DEF QueuesExact
  <2>3. 1 \in Served(q)
    BY <1>1, <2>1, <2>2 DEF Served, Waiting, WaitInv, BlockedIsQueued
  <2>4. f \in Served(q) /\ f <= 1 /\ Woken(q) = q[f]
    BY <1>1, <2>3, ServedType
  <2>5. f \in 1..Len(q)
    BY <2>4 DEF Served
  <2>6. Unserved(q) = SubSeq(q, f + 1, Len(q))
    BY <2>3 DEF Unserved
  <2> HIDE DEF f, q
  <2>7. f = 1
    BY <1>1, <2>4, <2>5
  <2>8. Unserved(q) = Tail(q)
    <3>1. Unserved(q) = SubSeq(q, 2, Len(q))
      BY <2>6, <2>7
    <3> QED  BY <1>1, <1>3, <3>1
  <2> QED  BY <1>3, <2>1, <2>4, <2>7, <2>8 DEF q, f
<1> QED  BY <1>2, <1>3

LEMMA ReadBlockExact ==
  ASSUME TypeInv, RequestsOnly, QueuesExact, NEW e \in Event,
         NEW n \in 0..Len(socks[e.token].inbox), NEW cut \in BOOLEAN, ReadBlock(e, n, cut)
  PROVE  QueuesExact'
<1> DEFINE t == e.token
           r == Head(Buffer(t, n, cut))
<1>1. /\ t \in Token /\ ~conns[t].blocked /\ r.key \in Key
      /\ conns'[t].blocked /\ conns'[t].block_key = r.key
      /\ \A x \in Token \ {t} : conns'[x] = conns[x]
      /\ blocked_queues' = [blocked_queues EXCEPT ![r.key] = Append(@, t)]
  BY BlockEffect
<1> HIDE DEF r, t
<1> SUFFICES ASSUME NEW k \in Key, NEW i \in 1..Len(blocked_queues'[k])
             PROVE  LET q == blocked_queues'[k]
                    IN  /\ conns'[q[i]].blocked /\ conns'[q[i]].block_key = k
                        /\ \A j \in 1..Len(q) : q[j] = q[i] => j = i
  BY DEF QueuesExact
<1> DEFINE old == blocked_queues[k]
           q == blocked_queues'[k]
<1>2. old \in Seq(Token) /\ Len(old) \in Nat
  BY LenProperties DEF TypeInv, TypeOK
<1>3. ASSUME NEW j \in 1..Len(old)
      PROVE  /\ old[j] \in Token \ {t} /\ conns'[old[j]].blocked
             /\ conns'[old[j]].block_key = k
             /\ \A l \in 1..Len(old) : old[l] = old[j] => l = j
  <2>1. old[j] \in Token
    BY <1>2, <1>3, ElementOfSeq
  <2>2. /\ conns[old[j]].blocked /\ conns[old[j]].block_key = k
        /\ \A l \in 1..Len(old) : old[l] = old[j] => l = j
    BY <1>3 DEF QueuesExact
  <2> QED  BY <1>1, <2>1, <2>2
<1>4. CASE k # r.key
  <2>1. q = old
    BY <1>1, <1>4 DEF TypeInv, TypeOK
  <2> QED  BY <1>3, <2>1
<1>5. CASE k = r.key
  <2>1. q = Append(old, t)
    BY <1>1, <1>5 DEF TypeInv, TypeOK
  <2>2. /\ Len(q) = Len(old) + 1 /\ q[Len(old) + 1] = t
        /\ \A j \in 1..Len(old) : q[j] = old[j]
    BY <1>1, <1>2, <2>1, AppendProperties
  <2> HIDE DEF q, old
  <2>3. CASE i = Len(old) + 1
    BY <1>1, <1>2, <1>3, <1>5, <2>2, <2>3 DEF q
  <2>4. CASE i # Len(old) + 1
    <3>1. i \in 1..Len(old)
      BY <1>2, <2>2, <2>4 DEF q
    <3>2. ASSUME NEW j \in 1..Len(q), q[j] = q[i]  PROVE j = i
      <4>1. CASE j = Len(old) + 1
        BY <1>3, <2>2, <3>1, <3>2, <4>1
      <4>2. CASE j # Len(old) + 1
        <5>1. j \in 1..Len(old)
          BY <1>2, <2>2, <4>2
        <5> QED  BY <1>3, <2>2, <3>1, <3>2, <5>1
      <4> QED  BY <4>1, <4>2
    <3>3. conns'[q[i]].blocked /\ conns'[q[i]].block_key = k
      BY <1>3, <2>2, <3>1
    <3> QED  BY <3>2, <3>3 DEF q
  <2> QED  BY <2>3, <2>4
<1> QED  BY <1>4, <1>5

\* Nobody but the client that a push serves stops waiting.
LEMMA ReadPushGoesOn ==
  ASSUME TypeInv, NEW e \in Event, NEW n \in 0..Len(socks[e.token].inbox),
         NEW cut \in BOOLEAN, ReadPush(e, n, cut), NEW x \in Token
  PROVE  LET q == blocked_queues[Head(Buffer(e.token, n, cut)).key]
         IN  x # Woken(q) => GoesOnWaiting(x)
<1> DEFINE t == e.token
           r == Head(Buffer(t, n, cut))
           res == Execute(r, ContextOf(t), now)
           q == blocked_queues[r.key]
           items == Items(res.ctx.db, r.key)
           hand == Woken(q) # None /\ items # << >>
           c == Answered(conns[t], res.ctx, res.reply)
           s == Announced(conns[t], Drained(t, n, cut), <<res.reply>>)
           out == [u \in Token |-> IF hand /\ u = Woken(q)
                                   THEN <<PopReply(r.key, Head(items))>> ELSE << >>]
<1>1. /\ Reads(e, n, cut) /\ r.cmd \in PushCommands /\ ~conns[t].blocked
      /\ Finish(e, c, s, out, Woken(q))
  BY DEF ReadPush, Reads
<1>2. r \in Request /\ r.cmd # "INLINE"
  BY <1>1, ReadsType DEF PushCommands
<1>3. c \in Connection /\ SameWait(c, conns[t])
  BY <1>2, RunType, BufferWait, ConnectionRecords DEF Event
<1> HIDE DEF c, s, out
<1> QED  BY <1>1, <1>3, FinishGoesOn

LEMMA ReadPushExact ==
  ASSUME TypeInv, WaitInv, QueuesExact, NEW e \in Event,
         NEW n \in 0..Len(socks[e.token].inbox), NEW cut \in BOOLEAN, ReadPush(e, n, cut)
  PROVE  QueuesExact'
<1> DEFINE r == Head(Buffer(e.token, n, cut))
           front == blocked_queues[r.key]
<1>1. /\ Reads(e, n, cut) /\ r.cmd \in PushCommands
      /\ blocked_queues' = [blocked_queues EXCEPT ![r.key] = Unserved(front)]
  BY DEF ReadPush
<1>2. \A x \in Token : x # Woken(front) => GoesOnWaiting(x)
  BY ReadPushGoesOn
<1>3. r.key \in Key
  BY <1>1, ReadsType, RequestFields DEF PushCommands
<1> HIDE DEF r
<1>4. front \in Seq(Token) /\ None \notin Token
  BY <1>3, CommandsAssumption DEF TypeInv, TypeOK, Token
<1>5. CASE front = << >>
  <2>1. Woken(front) = None /\ Unserved(front) = << >>
    BY <1>3, <1>5, ExactFront
  <2>2. blocked_queues' = blocked_queues
    BY <1>1, <1>5, <2>1 DEF TypeInv, TypeOK
  <2> QED  BY <1>2, <1>4, <2>1, <2>2, QueuesKept
<1>6. CASE front # << >>
  <2>1. Woken(front) = front[1] /\ Unserved(front) = Tail(front) /\ front[1] \in Token
    BY <1>3, <1>6, ExactFront
  <2>2. /\ Len(front) \in Nat /\ Len(front) >= 1 /\ Len(Tail(front)) = Len(front) - 1
        /\ \A i \in 1..Len(Tail(front)) : Tail(front)[i] = front[i + 1]
    BY <1>4, <1>6, HeadTailProperties, LenProperties
  <2> SUFFICES ASSUME NEW k \in Key, NEW i \in 1..Len(blocked_queues'[k])
               PROVE  LET q == blocked_queues'[k]
                      IN  /\ conns'[q[i]].blocked /\ conns'[q[i]].block_key = k
                          /\ \A j \in 1..Len(q) : q[j] = q[i] => j = i
    BY DEF QueuesExact
  <2> DEFINE q == blocked_queues'[k]
             old == blocked_queues[k]
  <2>3. ASSUME NEW j \in 1..Len(old), old[j] # front[1]
        PROVE  conns'[old[j]].blocked /\ conns'[old[j]].block_key = k
    <3>1. old[j] \in Token
      BY ElementOfSeq DEF TypeInv, TypeOK
    <3>2. conns[old[j]].blocked /\ conns[old[j]].block_key = k
      BY DEF QueuesExact
    <3> QED  BY <1>2, <2>1, <2>3, <3>1, <3>2 DEF GoesOnWaiting, SameWait
  <2>4. \A j, l \in 1..Len(old) : old[l] = old[j] => l = j
    BY DEF QueuesExact
  <2>5. conns[front[1]].block_key = r.key
    BY <1>3, <2>2 DEF QueuesExact
  <2>6. CASE k # r.key
    <3>1. q = old
      BY <1>1, <2>6 DEF TypeInv, TypeOK
    <3>2. old[i] # front[1]
      BY <2>5, <2>6, <3>1 DEF QueuesExact
    <3> QED  BY <2>3, <2>4, <3>1, <3>2
  <2>7. CASE k = r.key
    <3>1. q = Tail(front) /\ old = front
      BY <1>1, <2>1, <2>7 DEF TypeInv, TypeOK
    <3> HIDE DEF front, old, q
    <3>2. i \in 1..(Len(old) - 1) /\ q[i] = old[i + 1] /\ Len(q) = Len(old) - 1
      BY <2>2, <3>1 DEF q
    <3>3. i + 1 \in 1..Len(old) /\ 1 \in 1..Len(old) /\ i + 1 # 1
      BY <2>2, <3>1, <3>2
    <3>4. old[i + 1] # front[1]
      BY <2>4, <3>1, <3>3
    <3>5. ASSUME NEW j \in 1..Len(q), q[j] = q[i]  PROVE j = i
      <4>1. j + 1 \in 1..Len(old) /\ q[j] = old[j + 1]
        BY <2>2, <3>1, <3>2
      <4>2. j + 1 = i + 1
        BY <2>4, <3>2, <3>3, <3>5, <4>1
      <4> QED  BY <4>2
    <3>6. conns'[q[i]].blocked /\ conns'[q[i]].block_key = k
      BY <2>3, <3>2, <3>3, <3>4
    <3> QED  BY <3>5, <3>6 DEF q
  <2> QED  BY <2>6, <2>7
<1> QED  BY <1>5, <1>6

LEMMA ExactNext ==
  TypeInv /\ EventsOK /\ SlabOK /\ WaitInv /\ RequestsOnly /\ AccountInv /\ NoTimers
    /\ QueuesExact /\ [Next]_vars => QueuesExact'
<1> SUFFICES ASSUME TypeInv, EventsOK, SlabOK, WaitInv, RequestsOnly, AccountInv, NoTimers,
                    QueuesExact, [Next]_vars
             PROVE  QueuesExact'
  OBVIOUS
<1>1. CASE UNCHANGED <<conns, blocked_queues>>
  BY <1>1 DEF QueuesExact
<1>2. CASE LoopTop
  BY <1>1, <1>2, LoopTopQuiet
<1>3. ASSUME NEW e \in events, e # ServerEvent, HandleEvent(e)
      PROVE  QueuesExact'
  <2>1. e \in Event
    BY <1>3, EventInEvents
  <2>2. CASE \/ ReadBlocked(e) \/ WriteOnly(e) \/ ReadEof(e)
             \/ \E n \in 0..Len(socks[e.token].inbox), cut \in BOOLEAN :
                  ReadInvalid(e, n, cut) \/ ReadCommand(e, n, cut)
    <3>1. UNCHANGED waiters /\ \A x \in Token : GoesOnWaiting(x)
      BY <2>1, <2>2, OtherEventGoesOn
    <3> QED  BY <3>1, QueuesKept DEF waiters
  <2>3. ASSUME NEW n \in 0..Len(socks[e.token].inbox), NEW cut \in BOOLEAN,
               ReadBlock(e, n, cut) \/ ReadPush(e, n, cut)
        PROVE  QueuesExact'
    BY <2>1, <2>3, ReadBlockExact, ReadPushExact
  <2> QED  BY <1>3, <2>2, <2>3 DEF HandleEvent
<1>4. CASE Accept
  <2>1. ASSUME NEW x \in Token, conns[x].blocked  PROVE conns'[x] = conns[x]
    <3>1. x \in slab
      BY <2>1 DEF WaitInv, BlockedIsQueued
    <3>2. x \notin {free[i] : i \in 1..backlog}
      <4>1. \A i \in 1..backlog : i \in 1..Len(free)
        BY LenProperties DEF TypeInv, TypeOK, BacklogOK
      <4> QED  BY <3>1, <4>1 DEF SlabOK
    <3> QED  BY <1>4, <3>2 DEF Accept
  <2>2. \A x \in Token : GoesOnWaiting(x)
    BY <2>1 DEF GoesOnWaiting, SameWait
  <2> QED  BY <1>4, <2>2, QueuesKept DEF Accept, waiters
<1>5. CASE \/ Poll \/ Connect \/ Tick
           \/ \E t \in Token : \/ \E r \in Requests : Send(t, r)
                               \/ Close(t) \/ Receive(t)
  BY <1>1, <1>5 DEF Poll, Connect, Tick, Send, Close, Receive, waiters
<1>6. CASE UNCHANGED vars
  BY <1>1, <1>6 DEF vars, waiters
<1> QED  BY <1>2, <1>3, <1>4, <1>5, <1>6 DEF Next, ServerStep

LEMMA ExactInit == Init => QueuesExact
BY EmptySeq DEF Init, QueuesExact

LEMMA ExactInvariant ==
  Undisturbed /\ NoDeadlines =>
    (Spec => [](TypeInv /\ EventsOK /\ SlabOK /\ WaitInv /\ RequestsOnly /\ AccountInv
                  /\ NoTimers /\ QueuesExact))
<1> SUFFICES ASSUME Undisturbed, NoDeadlines
             PROVE  Spec => [](TypeInv /\ EventsOK /\ SlabOK /\ WaitInv /\ RequestsOnly
                                 /\ AccountInv /\ NoTimers /\ QueuesExact)
  OBVIOUS
<1>1. Spec => []TypeInv /\ []EventsOK /\ []SlabOK /\ []WaitInv /\ []RequestsOnly
  BY TypeInvariant, SlabInvariant, WaitInvariant, KnownInvariant, PTL DEF SlabInv
<1>2. Spec => []AccountInv
  BY AccountInvariant
<1>3. Spec => []NoTimers
  BY NoTimersInvariant
<1> QED  BY <1>1, <1>2, <1>3, ExactInit, ExactNext, PTL DEF Spec

\* Where no BLPOP has a timeout, nobody subscribes and each client sends one request at
\* a time, the wait queue of a key names only clients that wait for it, each of them
\* once: neither a push nor a client that leaves makes a queue name one that is served
\* already, or the same one twice.
THEOREM QueuesAreExact ==
  OneAtATime /\ NoSubscribers /\ NoDeadlines => (Spec => []QueuesExact)
<1> SUFFICES ASSUME Undisturbed, NoDeadlines PROVE Spec => []QueuesExact
  BY DEF Undisturbed
<1> QED  BY ExactInvariant, PTL

-----------------------------------------------------------------------------
(* Who stops waiting was served from the queue of its key.                 *)

LEMMA QueuedLast ==
  ASSUME NEW t \in Token, conns[t] \in Connection, NEW m \in Reply,
         conns'[t] = Queued(Unblocked(conns[t]), <<m>>)
  PROVE  LastReply(t) = m
<1> DEFINE old == conns[t].write_buffer
           one == <<m>>
<1>1. old \in Seq(Reply) /\ Len(old) \in Nat
  BY LenProperties DEF Connection
<1>2. one \in Seq(Reply) /\ Len(one) = 1 /\ one[1] = m
  OBVIOUS
<1>3. conns'[t].write_buffer = old \o one
  BY DEF Queued, Unblocked, Connection
<1> HIDE DEF old, one
<1>4. Len(old \o one) = Len(old) + 1 /\ (old \o one)[Len(old) + 1] = one[1]
  <2>1. /\ Len(old \o one) = Len(old) + Len(one)
        /\ \A i \in 1..(Len(old) + Len(one)) :
             (old \o one)[i] = IF i <= Len(old) THEN old[i] ELSE one[i - Len(old)]
    BY <1>1, <1>2, ConcatProperties
  <2>2. Len(old) + 1 \in 1..(Len(old) + Len(one)) /\ ~(Len(old) + 1 <= Len(old))
        /\ (Len(old) + 1) - Len(old) = 1
    BY <1>1, <1>2
  <2> QED  BY <1>2, <2>1, <2>2
<1> QED  BY <1>2, <1>3, <1>4 DEF LastReply

\* The step that ends a wait is a push onto the key, and the client gets what it pops.
LEMMA PushEnds ==
  ASSUME TypeInv, NEW e \in Event, NEW n \in 0..Len(socks[e.token].inbox),
         NEW cut \in BOOLEAN, ReadPush(e, n, cut), NEW t \in Token, Ends(t)
  PROVE  LET r == Head(Buffer(e.token, n, cut))
         IN  /\ t = Woken(blocked_queues[r.key]) /\ r.key \in Key
             /\ LastReply(t).about = r.key
<1> DEFINE u == e.token
           r == Head(Buffer(u, n, cut))
           res == Execute(r, ContextOf(u), now)
           q == blocked_queues[r.key]
           items == Items(res.ctx.db, r.key)
           hand == Woken(q) # None /\ items # << >>
           c == Answered(conns[u], res.ctx, res.reply)
           s == Announced(conns[u], Drained(u, n, cut), <<res.reply>>)
           m == PopReply(r.key, Head(items))
           out == [x \in Token |-> IF hand /\ x = Woken(q) THEN <<m>> ELSE << >>]
<1>1. /\ Reads(e, n, cut) /\ r.cmd \in PushCommands /\ res.outcome = "ok"
      /\ Finish(e, c, s, out, Woken(q))
  BY DEF ReadPush
<1>2. u \in Token /\ conns[u] \in Connection /\ now \in Nat /\ conns[t] \in Connection
  BY DEF Event, TypeInv, TypeOK
<1>3. r \in Request /\ ContextOf(u) \in Context
  BY <1>1, <1>2, ReadsType, ContextType
<1> HIDE DEF r
<1>4. r.key \in Key /\ r.cmd # "INLINE"
  BY <1>1, <1>3, RequestFields DEF PushCommands
<1>5. items # << >>
  BY <1>1, <1>2, <1>3, PushLeavesItems
<1>6. c \in Connection /\ res.ctx.db \in DB
  BY <1>3, <1>4, RunType
<1>7. SameWait(c, conns[u])
  BY <1>2, BufferWait
<1>8. m \in Reply
  BY <1>4, <1>5, <1>6, HandType
<1>9. m.about = r.key
  BY DEF PopReply
<1> HIDE DEF c, s, m, items, res
<1>10. t = Woken(q) /\ conns'[t] = Queued(Unblocked(conns[t]), out[t])
  <2> HIDE DEF out
  <2> QED  BY <1>1, <1>6, <1>7, FinishEnds
<1>11. out[t] = <<m>>
  <2>1. t # None
    BY CommandsAssumption DEF Token
  <2> QED  BY <1>5, <1>10, <2>1
<1> HIDE DEF out
<1>12. LastReply(t) = m
  BY <1>2, <1>8, <1>10, <1>11, QueuedLast
<1> QED  BY <1>4, <1>9, <1>10, <1>12 DEF r

LEMMA ServedOnItsKey ==
  ASSUME TypeInv, EventsOK, SlabOK, WaitInv, RequestsOnly, AccountInv, NoTimers, QueuesExact,
         [Next]_vars, NEW t \in Token, Ends(t)
  PROVE  LastReply(t).about = conns[t].block_key
<1>1. ~GoesOnWaiting(t)
  BY DEF Ends, Waiting, GoesOnWaiting
<1>2. CASE LoopTop
  BY <1>2, LoopTopQuiet DEF Ends, Waiting
<1>3. ASSUME NEW e \in events, e # ServerEvent, HandleEvent(e)
      PROVE  LastReply(t).about = conns[t].block_key
  <2>1. e \in Event
    BY <1>3, EventInEvents
  <2>2. ASSUME NEW n \in 0..Len(socks[e.token].inbox), NEW cut \in BOOLEAN,
               ReadBlock(e, n, cut)
        PROVE  FALSE
    <3>1. conns[t].blocked => conns'[t].blocked
      BY <2>1, <2>2, BlockEffect
    <3> QED  BY <3>1 DEF Ends, Waiting
  <2>3. ASSUME NEW n \in 0..Len(socks[e.token].inbox), NEW cut \in BOOLEAN,
               ReadPush(e, n, cut)
        PROVE  LastReply(t).about = conns[t].block_key
    <3> DEFINE r == Head(Buffer(e.token, n, cut))
               q == blocked_queues[r.key]
    <3>1. t = Woken(q) /\ r.key \in Key /\ LastReply(t).about = r.key
      BY <2>1, <2>3, PushEnds
    <3> HIDE DEF r
    <3>2. q \in Seq(Token) /\ Len(q) \in Nat /\ None \notin Token
      BY <3>1, CommandsAssumption, LenProperties DEF TypeInv, TypeOK, Token
    <3>3. q # << >> /\ t = q[1]
      BY <3>1, <3>2, ExactFront
    <3>4. 1 \in 1..Len(q)
      BY <3>2, <3>3, EmptySeq
    <3> QED  BY <3>1, <3>3, <3>4 DEF QueuesExact
  <2> QED  BY <1>1, <1>3, <2>1, <2>2, <2>3, OtherEventGoesOn DEF HandleEvent
<1>4. CASE Accept
  BY <1>4, AcceptEnds DEF AnsweredEnd, Ends, Waiting, Accept, NewConnection
<1>5. CASE UNCHANGED conns
  BY <1>5 DEF Ends, Waiting
<1>6. CASE \/ Poll \/ Connect \/ Tick
           \/ \E u \in Token : \/ \E r \in Requests : Send(u, r)
                               \/ Close(u) \/ Receive(u)
  BY <1>5, <1>6 DEF Poll, Connect, Tick, Send, Close, Receive
<1>7. CASE UNCHANGED vars
  BY <1>5, <1>7 DEF vars
<1> QED  BY <1>2, <1>3, <1>4, <1>6, <1>7 DEF Next, ServerStep

\* A push serves a client with an element of the key it asked for, never of another,
\* whatever other clients did to the queues between the two requests, if no BLPOP has a
\* timeout, nobody subscribes and each client sends one request at a time.
THEOREM ServedFromTheirKey ==
  OneAtATime /\ NoSubscribers /\ NoDeadlines => (Spec => WokenOnItsKey)
<1> SUFFICES ASSUME Undisturbed, NoDeadlines PROVE Spec => WokenOnItsKey
  BY DEF Undisturbed
<1> DEFINE Inv == TypeInv /\ EventsOK /\ SlabOK /\ WaitInv /\ RequestsOnly /\ AccountInv
                    /\ NoTimers /\ QueuesExact
<1>1. Inv /\ [Next]_vars =>
        [\A t \in Token : Ends(t) /\ LastReply(t).tag = "array" =>
            LastReply(t).about = conns[t].block_key]_vars
  BY ServedOnItsKey
<1>2. Spec => []Inv
  BY ExactInvariant
<1> HIDE DEF Inv
<1> QED  BY <1>1, <1>2, PTL DEF Spec, WokenOnItsKey

-----------------------------------------------------------------------------
(* What is on its way to a client.                                         *)

HandOf == [t \in Token |-> Handed(t)]

ItemsOf == [k \in Key |-> Items(db, k)]

LEMMA LeftOfSeq ==
  ASSUME NEW S, NEW s \in Seq(S)
  PROVE  Lines!LeftOf(s, s) /\ Lines!LeftOf(<< >>, s)
<1>1. Len(s) \in Nat
  BY LenProperties
<1>2. SubSeq(s, 0 + 1, Len(s)) = s
  <2>1. /\ SubSeq(s, 1, Len(s)) \in Seq(S) /\ Len(SubSeq(s, 1, Len(s))) = Len(s)
        /\ \A i \in 1..Len(s) : SubSeq(s, 1, Len(s))[i] = s[i]
    <3>1. \A i \in 1..Len(s) : s[i] \in S
      BY ElementOfSeq
    <3>2. /\ SubSeq(s, 1, Len(s)) \in Seq(S)
          /\ Len(SubSeq(s, 1, Len(s))) = IF 1 <= Len(s) THEN Len(s) - 1 + 1 ELSE 0
          /\ \A i \in 1..(Len(s) - 1 + 1) : SubSeq(s, 1, Len(s))[i] = s[1 + i - 1]
      BY <1>1, <3>1, SubSeqProperties
    <3> QED  BY <1>1, <3>2
  <2> QED  BY <2>1, SeqEqual
<1>3. SubSeq(s, Len(s) + 1, Len(s)) = << >>
  BY <1>1, SubSeqEmpty
<1>4. 0 \in 0..Len(s) /\ Len(s) \in 0..Len(s)
  BY <1>1
<1> QED  BY <1>2, <1>3, <1>4 DEF Lines!LeftOf

LEMMA ElementsSeq ==
  ASSUME NEW w, Len(w) \in Nat
  PROVE  \E S : Elements(w) \in Seq(S)
<1> DEFINE n == Cardinality(Pops(w))
           pop == [i \in 1..n |-> w[Nth(Pops(w), i)]]
           h == [i \in DOMAIN pop |-> <<pop[i].about, Head(pop[i].body)>>]
           S == {<<pop[i].about, Head(pop[i].body)>> : i \in DOMAIN pop}
<1>1. n \in Nat
  <2>1. Pops(w) \subseteq 1..Len(w) /\ IsFiniteSet(1..Len(w))
    BY FS_Interval DEF Pops
  <2> QED  BY <2>1, FS_Subset, FS_CardinalityType
<1>2. Elements(w) = h /\ DOMAIN pop = 1..n
  BY DEF Elements
<1>3. \A i \in 1..n : <<pop[i].about, Head(pop[i].body)>> \in S
  BY <1>2
<1> HIDE DEF pop, n, S
<1>4. h \in [1..n -> S]
  BY <1>2, <1>3
<1>5. h \in Seq(S)
  BY <1>1, <1>4
<1> QED  BY <1>2, <1>5

LEMMA NothingPopped ==
  ASSUME NEW w, Pops(w) = {}
  PROVE  Elements(w) = << >>
<1>1. Cardinality(Pops(w)) = 0
  BY FS_EmptySet
<1>2. \A pop : DOMAIN pop = 1..0 =>
        [n \in DOMAIN pop |-> <<pop[n].about, Head(pop[n].body)>>] = << >>
  OBVIOUS
<1> QED  BY <1>1, <1>2 DEF Elements

LEMMA OnePopped ==
  ASSUME NEW k, NEW v
  PROVE  Elements(<<PopReply(k, v)>>) = <<<<k, v>>>>
<1> DEFINE m == PopReply(k, v)
           w == <<m>>
           pop == [n \in 1..Cardinality(Pops(w)) |-> w[Nth(Pops(w), n)]]
<1>1. w[1] = m /\ Len(w) = 1
  OBVIOUS
<1>2. m.cmd = "BLPOP" /\ m.tag = "array" /\ m.about = k /\ m.body = <<v>>
  BY DEF PopReply
<1>3. Elements(w) = [n \in DOMAIN pop |-> <<pop[n].about, Head(pop[n].body)>>]
  BY DEF Elements
<1> HIDE DEF m, w
<1>4. Pops(w) = {1}
  BY <1>1, <1>2 DEF Pops
<1>5. Cardinality({1}) = 1 /\ {j \in {1} : j <= 1} = {1}
  BY FS_Singleton
<1>6. Nth({1}, 1) = 1
  BY <1>5 DEF Nth
<1>7. pop = [n \in 1..1 |-> m]
  BY <1>1, <1>4, <1>5, <1>6
<1>8. DOMAIN pop = 1..1 /\ pop[1] = m
  BY <1>7
<1> HIDE DEF pop
<1>9. Elements(w) = [n \in 1..1 |-> <<k, v>>]
  BY <1>2, <1>3, <1>8
<1> QED  BY <1>9 DEF w, m

\* A step puts no element on the way to x, apart from those that are there.
NothingNew(x) ==
  \/ conns'[x].write_buffer = conns[x].write_buffer
  \/ Pops(conns'[x].write_buffer) = {}

LEMMA NothingArrives ==
  ASSUME TypeInv, NEW C \in SUBSET Token, \A x \in C : NothingNew(x)
  PROVE  Lines!Arrives(C)
<1> SUFFICES ASSUME NEW x \in C  PROVE Lines!LeftOf(HandOf'[x], HandOf[x])
  BY DEF Lines!Arrives, HandOf
<1> DEFINE w == conns[x].write_buffer
<1>1. x \in Token /\ HandOf[x] = Elements(w) /\ HandOf'[x] = Elements(w')
  BY DEF HandOf, Handed
<1>2. PICK S : Elements(w) \in Seq(S)
  <2>1. Len(w) \in Nat
    BY ConnectionRecords, LenProperties DEF Connection
  <2> QED  BY <2>1, ElementsSeq
<1>3. Elements(w') = Elements(w) \/ Elements(w') = << >>
  BY NothingPopped DEF NothingNew
<1> QED  BY <1>1, <1>2, <1>3, LeftOfSeq

\* The step appends msgs to what is to be written to x.
Gets(x, msgs) == conns'[x].write_buffer = conns[x].write_buffer \o msgs

\* A buffer of at most one reply leaves an event as it is, or empty.
LEMMA FinishBuffers ==
  ASSUME TypeInv, NEW e \in Event, NEW c \in Connection, NEW s \in Socket,
         Len(s.outbox) <= SndBuf, Len(c.write_buffer) <= 1,
         NEW out, NEW woken, Finish(e, c, s, out, woken), NEW x \in Token
  PROVE  IF x = e.token THEN conns'[x].write_buffer \in {<< >>, c.write_buffer}
                        ELSE Gets(x, out[x])
<1> DEFINE w == c.write_buffer
<1>1. CASE x # e.token
  <2>1. conns'[x] = Queued(IF x = woken THEN Unblocked(conns[x]) ELSE conns[x], out[x])
    BY <1>1 DEF Finish
  <2>2. conns[x] \in Connection
    BY ConnectionRecords
  <2>3. \A d \in Connection : Queued(d, out[x]).write_buffer = d.write_buffer \o out[x]
    BY DEF Queued, Connection
  <2>4. Unblocked(conns[x]) \in Connection
    BY <2>2, UnblockedType
  <2>5. Unblocked(conns[x]).write_buffer = conns[x].write_buffer
    BY <2>2 DEF Unblocked, Connection
  <2> QED  BY <1>1, <2>1, <2>2, <2>3, <2>4, <2>5 DEF Gets
<1>2. CASE x = e.token
  <2>1. conns'[x] \in {NewConnection, WrittenConn(c, s), c}
    BY <1>2 DEF Finish
  <2>2. NewConnection.write_buffer = << >>
    BY DEF NewConnection
  <2>3. WrittenConn(c, s).write_buffer \in {<< >>, w}
    <3> DEFINE n == Accepted(c, s)
    <3>1. n \in 0..Len(w) /\ w \in Seq(Reply) /\ Len(w) \in Nat
      BY AcceptedType, LenProperties DEF Connection
    <3>2. WrittenConn(c, s).write_buffer = SubSeq(w, n + 1, Len(w))
      BY DEF WrittenConn, Connection
    <3> HIDE DEF n
    <3>3. CASE n = Len(w)
      <4>1. SubSeq(w, n + 1, Len(w)) = << >>
        BY <3>1, <3>3, SubSeqEmpty
      <4> QED  BY <3>2, <4>1
    <3>4. CASE n # Len(w)
      <4>1. n = 0 /\ Len(w) = 1
        <5> DEFINE len == Len(w)
        <5>1. len \in Nat /\ len <= 1 /\ n \in 0..len /\ n # len
          BY <3>1, <3>4
        <5> HIDE DEF len
        <5>2. n = 0 /\ len = 1
          BY <5>1
        <5> QED  BY <5>2 DEF len
      <4>2. /\ SubSeq(w, 1, 1) \in Seq(Reply) /\ Len(SubSeq(w, 1, 1)) = 1
            /\ SubSeq(w, 1, 1)[1] = w[1]
        <5>1. \A i \in 1..1 : w[i] \in Reply
          BY <3>1, <4>1, ElementOfSeq
        <5>2. /\ SubSeq(w, 1, 1) \in Seq(Reply)
              /\ Len(SubSeq(w, 1, 1)) = IF 1 <= 1 THEN 1 - 1 + 1 ELSE 0
              /\ \A i \in 1..(1 - 1 + 1) : SubSeq(w, 1, 1)[i] = w[1 + i - 1]
          BY <5>1, SubSeqProperties
        <5> QED  BY <5>2
      <4>3. SubSeq(w, 1, 1) = w
        BY <3>1, <4>1, <4>2, SeqEqual
      <4> QED  BY <3>2, <4>1, <4>3
    <3> QED  BY <3>3, <3>4
  <2> QED  BY <1>2, <2>1, <2>2, <2>3
<1> QED  BY <1>1, <1>2

-----------------------------------------------------------------------------
(* What the commands do to the elements, where lists are used as queues.   *)

\* The lists change by LPUSH, RPUSH and BLPOP only.
OnlyQueues == \A r \in Requests : r.cmd \notin {"SET", "LPOP", "XADD"}

LEMMA BlpopCases ==
  ASSUME NEW r \in Request, NEW ctx \in Context, NEW tm \in Nat, r.cmd = "BLPOP"
  PROVE  Execute(r, ctx, tm) \in {Err(ctx, ReplyOf(r, "error")), blpop(r, ctx)}
BY DEF Execute

\* The other commands leave every list as it is.
LEMMA CommandKeepsItems ==
  ASSUME NEW r \in Request, NEW ctx \in Context, NEW tm \in Nat,
         r.cmd \notin {"INLINE", "BLPOP", "SET", "LPOP", "XADD"},
         ~(r.cmd \in PushCommands /\ Execute(r, ctx, tm).outcome = "ok"),
         NEW k \in Key, IsList(ctx.db, k) => ctx.db[k].expiry = None
  PROVE  Items(Execute(r, ctx, tm).ctx.db, k) = Items(ctx.db, k)
<1> DEFINE res == Execute(r, ctx, tm)
<1>1. CASE res.ctx.db = ctx.db
  BY <1>1
<1>2. CASE r.cmd = "GET" /\ res = get(r, ctx, tm)
  <2>1. r.key \in Key /\ ctx.db \in DB
    BY <1>2, RequestFields DEF Context
  <2>2. \/ res.ctx = ctx
        \/ res.ctx = [ctx EXCEPT !.db[r.key] = Absent] /\ Expired(ctx.db[r.key], tm)
    BY <1>2 DEF get, WrongType, Ok, Err, Result
  <2>3. CASE res.ctx = ctx
    BY <2>3
  <2>4. CASE res.ctx = [ctx EXCEPT !.db[r.key] = Absent] /\ Expired(ctx.db[r.key], tm)
    <3>1. res.ctx.db = [ctx.db EXCEPT ![r.key] = Absent]
      BY <2>4 DEF Context
    <3> HIDE DEF res
    <3>2. CASE k # r.key
      <4>1. res.ctx.db[k] = ctx.db[k]
        BY <3>1, <3>2
      <4> QED  BY <4>1 DEF Items, IsList, Present, res
    <3>3. CASE k = r.key
      <4>1. ~IsList(ctx.db, k)
        BY <2>4, <3>3 DEF Expired
      <4>2. res.ctx.db[k] = Absent
        BY <2>1, <3>1, <3>3 DEF DB
      <4> QED  BY <4>1, <4>2 DEF Items, IsList, Present, res
    <3> QED  BY <3>2, <3>3
  <2> QED  BY <2>2, <2>3, <2>4
<1>3. rpush(r, ctx).outcome = "ok" /\ lpush(r, ctx).outcome = "ok"
  BY DEF rpush, lpush, Ok, Result
<1> HIDE DEF res
<1>4. \/ res.ctx.db = ctx.db
      \/ r.cmd = "GET" /\ res = get(r, ctx, tm)
  BY <1>3, ExecuteCases, OtherStep DEF res, PushCommands
<1> QED  BY <1>1, <1>2, <1>4 DEF res

\* What a push adds, it adds at one of the ends.
LEMMA PushGrows ==
  ASSUME NEW r \in Request, NEW ctx \in Context, NEW tm \in Nat, r.cmd \in PushCommands,
         Execute(r, ctx, tm).outcome = "ok"
  PROVE  Lines!Grown(Items(ctx.db, r.key), Items(Execute(r, ctx, tm).ctx.db, r.key))
<1> DEFINE old == Items(ctx.db, r.key)
           s == Items(Execute(r, ctx, tm).ctx.db, r.key)
<1>1. old \in Seq(Data) /\ s \in Seq(Data) /\ Len(old) \in Nat /\ Len(s) \in Nat
  BY PushAdds, LenProperties
<1>2. PICK new \in Seq(Data) : Len(new) \in Nat \ {0} /\ s \in {old \o new, new \o old}
  BY PushAdds
<1> HIDE DEF old, s
<1>3. /\ Len(s) = Len(old) + Len(new)
      /\ Len(old \o new) = Len(old) + Len(new) /\ Len(new \o old) = Len(new) + Len(old)
      /\ \A i \in 1..(Len(old) + Len(new)) :
           (old \o new)[i] = IF i <= Len(old) THEN old[i] ELSE new[i - Len(old)]
      /\ \A i \in 1..(Len(new) + Len(old)) :
           (new \o old)[i] = IF i <= Len(new) THEN new[i] ELSE old[i - Len(new)]
  BY <1>1, <1>2, ConcatProperties
<1>4. CASE s = old \o new
  <2> DEFINE part == SubSeq(s, 1, Len(old))
  <2>1. \A i \in 1..Len(old) : s[i] \in Data /\ s[i] = old[i]
    BY <1>1, <1>2, <1>3, <1>4, ElementOfSeq
  <2>2. /\ part \in Seq(Data) /\ Len(part) = Len(old)
        /\ \A i \in 1..Len(old) : part[i] = s[1 + i - 1]
    <3>1. \A i \in 1..Len(old) : s[i] \in Data
      BY <2>1
    <3>2. /\ part \in Seq(Data)
          /\ Len(part) = IF 1 <= Len(old) THEN Len(old) - 1 + 1 ELSE 0
          /\ \A i \in 1..(Len(old) - 1 + 1) : part[i] = s[1 + i - 1]
      BY <1>1, <3>1, SubSeqProperties
    <3> QED  BY <1>1, <3>2
  <2> HIDE DEF part
  <2>3. part = old
    BY <1>1, <2>1, <2>2, SeqEqual
  <2> QED  BY <1>1, <1>2, <1>3, <2>3 DEF Lines!Grown, part, old, s
<1>5. CASE s = new \o old
  <2> DEFINE a == Len(s) - Len(old) + 1
             part == SubSeq(s, a, Len(s))
  <2>1. a = Len(new) + 1
    BY <1>1, <1>2, <1>3
  <2>2. \A i \in 1..Len(old) : s[Len(new) + i] = old[i]
    <3> SUFFICES ASSUME NEW i \in 1..Len(old)  PROVE s[Len(new) + i] = old[i]
      OBVIOUS
    <3>1. Len(new) + i \in 1..(Len(new) + Len(old)) /\ ~(Len(new) + i <= Len(new))
      BY <1>1, <1>2
    <3>2. (Len(new) + i) - Len(new) = i
      BY <1>1, <1>2
    <3> QED  BY <1>3, <1>5, <3>1, <3>2
  <2>3. /\ part \in Seq(Data) /\ Len(part) = Len(old)
        /\ \A i \in 1..Len(old) : part[i] = s[Len(new) + i]
    <3>1. \A i \in a..Len(s) : s[i] \in Data
      BY <1>1, <1>2, <2>1, ElementOfSeq
    <3>2. a \in Int /\ Len(s) \in Int
      BY <1>1, <1>2, <2>1
    <3> HIDE DEF a
    <3>3. /\ part \in Seq(Data)
          /\ Len(part) = IF a <= Len(s) THEN Len(s) - a + 1 ELSE 0
          /\ \A i \in 1..(Len(s) - a + 1) : part[i] = s[a + i - 1]
      BY <3>1, <3>2, SubSeqProperties
    <3> HIDE DEF part
    <3>4. Len(s) - a + 1 = Len(old) /\ \A i \in Nat : a + i - 1 = Len(new) + i
      BY <1>1, <1>2, <1>3, <2>1
    <3>5. Len(part) = Len(old)
      BY <1>1, <1>2, <1>3, <2>1, <3>3
    <3> QED  BY <1>1, <3>3, <3>4, <3>5
  <2> HIDE DEF part, a
  <2>4. part = old
    BY <1>1, <2>2, <2>3, SeqEqual
  <2> QED  BY <1>1, <1>2, <1>3, <2>4 DEF Lines!Grown, part, a, old, s
<1> QED  BY <1>2, <1>4, <1>5

-----------------------------------------------------------------------------
(* The steps of the lines.                                                 *)

\* The server and the clients change no list, no queue, and hand nothing over.
LEMMA LinesArrive ==
  ASSUME TypeInv, UNCHANGED blocked_queues, \A x \in Token : NothingNew(x),
         \A k \in Key : Items(db', k) = Items(db, k)
  PROVE  Lines!Next
<1>1. Lines!Arrives(Token)
  BY NothingArrives
<1>2. ItemsOf' = ItemsOf
  BY DEF ItemsOf
<1>3. Lines!Arrive
  BY <1>1, <1>2 DEF Lines!Arrive, ItemsOf
<1> QED  BY <1>3 DEF Lines!Next

\* c and s are what an event that answers its client leaves it with, before it writes.
IsAnswered(e, n, cut, ctx, reply, c, s) ==
  /\ Reads(e, n, cut)
  /\ c = Answered(conns[e.token], ctx, reply)
  /\ s = Announced(conns[e.token], Drained(e.token, n, cut), <<reply>>)

\* The buffers after it.
LEMMA AnswerFinishes ==
  ASSUME Undisturbed, TypeInv, AccountInv, NEW e \in Event,
         NEW n \in 0..Len(socks[e.token].inbox), NEW cut \in BOOLEAN,
         NEW ctx \in Context, NEW reply \in Reply, NEW c, NEW s,
         IsAnswered(e, n, cut, ctx, reply, c, s),
         NEW out, NEW woken, Finish(e, c, s, out, woken)
  PROVE  /\ e.token \in Token /\ conns[e.token].write_buffer = << >>
         /\ conns'[e.token].write_buffer \in {<< >>, <<reply>>}
         /\ \A x \in Token \ {e.token} : Gets(x, out[x])
<1> DEFINE t == e.token
<1>1. t \in Token /\ conns[t] \in Connection
  BY ConnectionRecords DEF Event
<1>2. conns[t].write_buffer = << >>
  BY ReadsOne DEF AccountInv, IsAnswered
<1>3. c \in Connection /\ s \in Socket /\ Len(s.outbox) <= SndBuf
  BY <1>1, AnsweredType, AnnouncedReadType DEF IsAnswered
<1>4. c.write_buffer = <<reply>>
  <2>1. c.write_buffer = Append(conns[t].write_buffer, reply)
    BY <1>1 DEF Answered, Connection, IsAnswered
  <2> QED  BY <1>2, <2>1
<1>5. Len(c.write_buffer) <= 1
  BY <1>4
<1>6. \A x \in Token :
        IF x = t THEN conns'[x].write_buffer \in {<< >>, c.write_buffer}
                 ELSE Gets(x, out[x])
  BY <1>3, <1>5, FinishBuffers
<1> QED  BY <1>1, <1>2, <1>4, <1>6

\* Only BLPOP hands over an element.
LEMMA NotAPop ==
  ASSUME NEW m, m.cmd # "BLPOP" \/ m.tag # "array"
  PROVE  Pops(<<m>>) = {}
BY DEF Pops

LEMMA NoPops == Pops(<< >>) = {}
BY DEF Pops

\* So an event that only answers hands nothing over.
LEMMA AnswerOnly ==
  ASSUME Undisturbed, TypeInv, AccountInv, NEW e \in Event,
         NEW n \in 0..Len(socks[e.token].inbox), NEW cut \in BOOLEAN,
         NEW ctx \in Context, NEW reply \in Reply, NEW c, NEW s,
         IsAnswered(e, n, cut, ctx, reply, c, s),
         NEW out, NEW woken, Finish(e, c, s, out, woken)
  PROVE  /\ \A x \in Token \ {e.token} : out[x] = << >> => NothingNew(x)
         /\ reply.cmd # "BLPOP" \/ reply.tag # "array" => NothingNew(e.token)
<1>1. /\ conns'[e.token].write_buffer \in {<< >>, <<reply>>}
      /\ \A x \in Token \ {e.token} : Gets(x, out[x])
  BY AnswerFinishes
<1>2. \A x \in Token : conns[x].write_buffer \o << >> = conns[x].write_buffer
  BY ConnectionRecords, ConcatEmptySeq DEF Connection
<1> QED  BY <1>1, <1>2, NotAPop, NoPops DEF NothingNew, Gets

\* The client joins the line of a key that has nothing, and stands in no other.
LEMMA LinesBlock ==
  ASSUME TypeInv, RequestsOnly, QueuesExact, NEW e \in Event,
         NEW n \in 0..Len(socks[e.token].inbox), NEW cut \in BOOLEAN, ReadBlock(e, n, cut)
  PROVE  Lines!Next
<1> DEFINE t == e.token
           b == Buffer(t, n, cut)
           r == Head(b)
<1>1. /\ Reads(e, n, cut) /\ r.cmd = "BLPOP" /\ db' = db
      /\ Execute(r, ContextOf(t), now).outcome = "block"
      /\ \E d : conns' = [conns EXCEPT ![t] = Blocked(@, b, r.key, d)]
  BY DEF ReadBlock, store
<1>2. /\ t \in Token /\ ~conns[t].blocked /\ r.key \in Key
      /\ \A x \in Token \ {t} : conns'[x] = conns[x]
      /\ blocked_queues' = [blocked_queues EXCEPT ![r.key] = Append(@, t)]
  BY BlockEffect
<1>3. r \in Request /\ ContextOf(t) \in Context /\ now \in Nat /\ ContextOf(t).db = db
  BY <1>1, <1>2, ReadsType, ContextType DEF ContextOf, TypeInv, TypeOK
<1>4. conns'[t].write_buffer = conns[t].write_buffer
  BY <1>1, <1>2, ConnectionRecords DEF Blocked, Connection, TypeInv, TypeOK
<1> HIDE DEF r, b
<1>5. Items(db, r.key) = << >>
  <2>1. \A reply : Err(ContextOf(t), reply).outcome # "block"
    BY DEF Err, Result
  <2>2. Execute(r, ContextOf(t), now) = blpop(r, ContextOf(t))
    BY <1>1, <1>3, <2>1, ExecuteCases
  <2> QED  BY <1>1, <1>3, <2>2 DEF blpop, Ok, Result
<1>6. \A j \in Key : \A i \in 1..Len(blocked_queues[j]) : blocked_queues[j][i] # t
  BY <1>2 DEF QueuesExact
<1> HIDE DEF t
<1>7. \A x \in Token : NothingNew(x)
  BY <1>2, <1>4 DEF NothingNew
<1>8. Lines!Arrives(Token)
  BY <1>7, NothingArrives
<1>9. Lines!Join(t, r.key)
  BY <1>1, <1>2, <1>5, <1>6, <1>8 DEF Lines!Join
<1> QED  BY <1>2, <1>9 DEF Lines!Next

\* The client of an event gets the first element of k, unless the write loses it.
LEMMA LinesTake ==
  ASSUME TypeInv, UNCHANGED blocked_queues, NEW t \in Token, NEW k \in Key,
         blocked_queues[k] = << >>,
         Items(db, k) # << >>, Items(db', k) = Tail(Items(db, k)),
         \A j \in Key \ {k} : Items(db', j) = Items(db, j),
         conns[t].write_buffer = << >>,
         conns'[t].write_buffer \in {<< >>, <<PopReply(k, Head(Items(db, k)))>>},
         \A x \in Token \ {t} : NothingNew(x)
  PROVE  Lines!Next
<1> DEFINE v == Head(Items(db, k))
           got == <<<<k, v>>>>
<1>1. Lines!Arrives(Token \ {t})
  BY NothingArrives
<1>2. ItemsOf' = [ItemsOf EXCEPT ![k] = Tail(ItemsOf[k])]
  BY DEF ItemsOf
<1>3. Pops(<< >>) = {}
  BY NoPops
<1>4. HandOf[t] = << >> /\ HandOf'[t] \in {<< >>, got}
  <2>1. HandOf[t] = Elements(conns[t].write_buffer)
        /\ HandOf'[t] = Elements(conns'[t].write_buffer)
    BY DEF HandOf, Handed
  <2>2. Elements(<< >>) = << >> /\ Elements(<<PopReply(k, v)>>) = got
    BY <1>3, NothingPopped, OnePopped
  <2> HIDE DEF v
  <2> QED  BY <2>1, <2>2 DEF v
<1>5. Append(<< >>, <<k, v>>) = got
  OBVIOUS
<1>6. Lines!LeftOf(HandOf'[t], Append(HandOf[t], <<k, v>>))
  <2>1. got \in Seq({<<k, v>>})
    OBVIOUS
  <2> HIDE DEF got, v
  <2> QED  BY <1>4, <1>5, <2>1, LeftOfSeq
<1>7. Lines!Take(t, k)
  BY <1>1, <1>2, <1>6 DEF Lines!Take, HandOf, ItemsOf
<1> QED  BY <1>7 DEF Lines!Next

\* Nobody stands in the line of a key that has elements.
LEMMA NoLineAtElements ==
  ASSUME TypeInv, QueuesExact, NoWaiterOnElements, NEW k \in Key, Items(db, k) # << >>
  PROVE  blocked_queues[k] = << >>
<1> DEFINE q == blocked_queues[k]
<1> SUFFICES ASSUME q # << >> PROVE FALSE
  OBVIOUS
<1>1. q \in Seq(Token) /\ Len(q) \in Nat
  BY LenProperties DEF TypeInv, TypeOK
<1>2. 1 \in 1..Len(q) /\ q[1] \in Token
  BY <1>1, HeadTailProperties
<1>3. conns[q[1]].blocked /\ conns[q[1]].block_key = k
  BY <1>2 DEF QueuesExact
<1> QED  BY <1>2, <1>3 DEF NoWaiterOnElements

LEMMA LinesCommand ==
  ASSUME Undisturbed, OnlyQueues, TypeInv, RequestsOnly, StoreInv, AccountInv,
         QueuesExact, NoWaiterOnElements, NEW e \in Event,
         NEW n \in 0..Len(socks[e.token].inbox), NEW cut \in BOOLEAN, ReadCommand(e, n, cut)
  PROVE  Lines!Next
<1> DEFINE t == e.token
           r == Head(Buffer(t, n, cut))
           res == Execute(r, ContextOf(t), now)
           c == Answered(conns[t], res.ctx, res.reply)
           s == Announced(conns[t], Drained(t, n, cut), <<res.reply>>)
           out == IF res.publish = << >> THEN Silence ELSE Deliveries(res.publish[1], t)
<1>1. /\ Reads(e, n, cut) /\ r.cmd # "INLINE" /\ res.outcome # "block"
      /\ ~(r.cmd \in PushCommands /\ res.outcome = "ok")
      /\ Finish(e, c, s, out, None) /\ db' = res.ctx.db /\ UNCHANGED blocked_queues
  BY DEF ReadCommand, waiters
<1>2. /\ t \in Token /\ ContextOf(t) \in Context /\ now \in Nat /\ ContextOf(t).db = db
      /\ db \in DB
  BY ContextType DEF Event, TypeInv, TypeOK, ContextOf
<1>3. r \in Request /\ r.cmd \notin {"SET", "LPOP", "XADD"}
  <2>1. r \in Request /\ r \in Known
    BY <1>1, ReadsType, ReadKnown
  <2>2. Part.cmd = "INLINE"
    BY DEF Part
  <2> HIDE DEF r
  <2> QED  BY <1>1, <2>1, <2>2 DEF Known, OnlyQueues
<1> HIDE DEF r
<1>4. res.reply \in Answer /\ res.reply \in Reply /\ res.reply.cmd = r.cmd
  BY <1>1, <1>2, <1>3, ReplyIsAnswer DEF Answer
<1>5. res.ctx \in Context /\ res.publish \in Seq(Publication)
  BY <1>1, <1>2, <1>3, ExecuteType DEF ResultType
<1>6. r.cmd = "BLPOP" => res \in {Err(ContextOf(t), ReplyOf(r, "error")), blpop(r, ContextOf(t))}
  BY <1>2, <1>3, BlpopCases
<1>7. \/ r.cmd = "BLPOP"
      \/ \A k \in Key : Items(res.ctx.db, k) = Items(db, k)
  <2>1. \A k \in Key : IsList(db, k) => db[k].expiry = None
    BY DEF StoreInv, OnlyStringsExpire
  <2> QED  BY <1>1, <1>2, <1>3, <2>1, CommandKeepsItems
<1> HIDE DEF res
<1>8. IsAnswered(e, n, cut, res.ctx, res.reply, c, s)
  BY <1>1 DEF IsAnswered
<1>9. out = Silence
  <2>1. CASE res.publish = << >>
    BY <2>1
  <2>2. CASE res.publish # << >>
    <3>1. 1 \in 1..Len(res.publish)
      BY <1>5, <2>2, EmptySeq
    <3>2. res.publish[1] \in Publication
      BY <1>5, <3>1, ElementOfSeq
    <3> QED  BY <2>2, <3>2, NoDeliveries DEF AccountInv
  <2> QED  BY <2>1, <2>2
<1> HIDE DEF c, s, out
<1>10. /\ \A x \in Token \ {t} : NothingNew(x)
       /\ res.reply.cmd # "BLPOP" \/ res.reply.tag # "array" => NothingNew(t)
  <2>1. \A x \in Token : out[x] = << >>
    BY <1>9 DEF Silence
  <2> QED  BY <1>1, <1>4, <1>5, <1>8, <2>1, AnswerOnly
<1>11. CASE r.cmd # "BLPOP"
  <2>1. \A x \in Token : NothingNew(x)
    BY <1>4, <1>10, <1>11
  <2> QED  BY <1>1, <1>7, <1>11, <2>1, LinesArrive
<1>12. CASE r.cmd = "BLPOP" /\ res = Err(ContextOf(t), ReplyOf(r, "error"))
  <2>1. res.reply.tag = "error" /\ res.ctx.db = db
    BY <1>2, <1>12 DEF Err, Result, ReplyOf
  <2>2. \A x \in Token : NothingNew(x)
    BY <1>10, <2>1
  <2> QED  BY <1>1, <2>1, <2>2, LinesArrive
<1>13. CASE r.cmd = "BLPOP" /\ res = blpop(r, ContextOf(t))
  <2> DEFINE q == Items(db, r.key)
  <2>1. r.key \in Key
    BY <1>3, <1>13, RequestFields
  <2>2. q # << >>
    BY <1>1, <1>2, <1>13 DEF blpop, Result
  <2>3. /\ res.ctx.db = WithItems(db, r.key, Tail(q))
        /\ res.reply = PopReply(r.key, Head(q))
    BY <1>2, <1>13, <2>2 DEF blpop, Ok, Result, Context
  <2>4. IsList(db, r.key) /\ Tail(q) \in Seq(Data)
    BY <1>2, <2>1, <2>2, HandType
  <2> HIDE DEF q
  <2>5. Items(db', r.key) = Tail(q) /\ \A j \in Key \ {r.key} : Items(db', j) = Items(db, j)
    <3>1. db' = WithItems(db, r.key, Tail(q))
      BY <1>1, <2>3
    <3> QED  BY <1>2, <2>1, <2>4, <3>1, WithItemsIs
  <2>6. /\ conns[t].write_buffer = << >>
        /\ conns'[t].write_buffer \in {<< >>, <<res.reply>>}
    BY <1>1, <1>4, <1>5, <1>8, AnswerFinishes
  <2>7. blocked_queues[r.key] = << >>
    BY <2>1, <2>2, NoLineAtElements DEF q
  <2> QED  BY <1>1, <1>2, <1>10, <2>1, <2>2, <2>3, <2>5, <2>6, <2>7, LinesTake DEF q
<1> QED  BY <1>6, <1>11, <1>12, <1>13

\* A push that finds nobody waiting: the key has more elements.
LEMMA LinesPush ==
  ASSUME TypeInv, UNCHANGED blocked_queues, NEW k \in Key, blocked_queues[k] = << >>,
         Lines!Grown(Items(db, k), Items(db', k)),
         \A j \in Key \ {k} : Items(db', j) = Items(db, j), \A x \in Token : NothingNew(x)
  PROVE  Lines!Next
<1>1. Lines!Arrives(Token)
  BY NothingArrives
<1>2. ItemsOf' = [ItemsOf EXCEPT ![k] = ItemsOf'[k]]
  BY DEF ItemsOf
<1>3. Lines!Push(k)
  BY <1>1, <1>2 DEF Lines!Push, ItemsOf
<1> QED  BY <1>3 DEF Lines!Next

\* A push that finds c waiting: c gets the one element v that it brings.
LEMMA LinesServe ==
  ASSUME TypeInv, NEW k \in Key, NEW c \in Token, NEW v,
         blocked_queues[k] # << >>, Head(blocked_queues[k]) = c,
         blocked_queues' = [blocked_queues EXCEPT ![k] = Tail(@)],
         conns[c].write_buffer = << >>,
         conns'[c].write_buffer = <<PopReply(k, v)>>,
         \A j \in Key : Items(db', j) = Items(db, j),
         \A x \in Token \ {c} : NothingNew(x)
  PROVE  Lines!Next
<1> DEFINE got == <<k, v>>
<1>1. Lines!Arrives(Token \ {c})
  BY NothingArrives
<1>2. ItemsOf' = ItemsOf
  BY DEF ItemsOf
<1>3. HandOf[c] = << >> /\ HandOf'[c] = <<got>>
  <2>1. HandOf[c] = Elements(conns[c].write_buffer)
        /\ HandOf'[c] = Elements(conns'[c].write_buffer)
    BY DEF HandOf, Handed
  <2>2. Elements(<< >>) = << >> /\ Elements(<<PopReply(k, v)>>) = <<got>>
    BY NoPops, NothingPopped, OnePopped
  <2> QED  BY <2>1, <2>2
<1>4. <<got>> # << >> /\ Len(<<got>>) = 1 /\ <<got>>[1] = got /\ Append(<< >>, got) = <<got>>
      /\ got[1] = k
  OBVIOUS
<1> HIDE DEF got
<1>5. Lines!PushAndServe(k)
  BY <1>1, <1>2, <1>3, <1>4 DEF Lines!PushAndServe, HandOf, ItemsOf
<1> QED  BY <1>5 DEF Lines!Next

LEMMA LinesReadPush ==
  ASSUME Undisturbed, OneEach, TypeInv, RequestsOnly, WaitInv, AccountInv, QueuesExact,
         NoWaiterOnElements, NEW e \in Event,
         NEW n \in 0..Len(socks[e.token].inbox), NEW cut \in BOOLEAN, ReadPush(e, n, cut)
  PROVE  Lines!Next
<1> DEFINE t == e.token
           r == Head(Buffer(t, n, cut))
           res == Execute(r, ContextOf(t), now)
           q == blocked_queues[r.key]
           d == res.ctx.db
           items == Items(d, r.key)
           hand == Woken(q) # None /\ items # << >>
           c == Answered(conns[t], res.ctx, res.reply)
           s == Announced(conns[t], Drained(t, n, cut), <<res.reply>>)
           m == PopReply(r.key, Head(items))
           out == [x \in Token |-> IF hand /\ x = Woken(q) THEN <<m>> ELSE << >>]
<1>1. /\ Reads(e, n, cut) /\ r.cmd \in PushCommands /\ res.outcome = "ok"
      /\ ~conns[t].blocked /\ Finish(e, c, s, out, Woken(q))
      /\ blocked_queues' = [blocked_queues EXCEPT ![r.key] = Unserved(q)]
      /\ db' = IF hand THEN WithItems(d, r.key, Tail(items)) ELSE d
  BY DEF ReadPush, Reads
<1>2. /\ t \in Token /\ ContextOf(t) \in Context /\ now \in Nat /\ ContextOf(t).db = db
      /\ db \in DB
  BY ContextType DEF Event, TypeInv, TypeOK, ContextOf
<1>3. r \in Request /\ Len(r.vals) = 1
  <2>1. r \in Request /\ r \in Known
    BY <1>1, ReadsType, ReadKnown
  <2> HIDE DEF r, res
  <2>2. r.cmd \in PushCommands
    BY <1>1
  <2>3. r # Part
    BY <2>2 DEF Part, PushCommands
  <2> QED  BY <2>1, <2>2, <2>3 DEF OneEach, Known
<1> HIDE DEF r
<1>4. r.key \in Key /\ r.cmd # "INLINE" /\ r.cmd # "BLPOP"
  BY <1>1, <1>3, RequestFields DEF PushCommands
<1>5. res.reply \in Reply /\ res.reply.cmd = r.cmd
  BY <1>2, <1>3, <1>4, ReplyIsAnswer DEF Answer
<1>6. res.ctx \in Context
  BY <1>2, <1>3, <1>4, ExecuteType DEF ResultType
<1>7. /\ d \in DB /\ items \in Seq(Data) /\ items # << >>
      /\ \A j \in Key \ {r.key} : Items(d, j) = Items(db, j)
      /\ Lines!Grown(Items(db, r.key), items)
      /\ Items(db, r.key) = << >> => Len(items) = 1
  BY <1>1, <1>2, <1>3, PushAdds, PushOne, PushLeavesItems, PushGrows
<1> HIDE DEF res
<1>8. IsAnswered(e, n, cut, res.ctx, res.reply, c, s)
  BY <1>1 DEF IsAnswered
<1> HIDE DEF c, s, items, m
<1>9. \A x \in Token : out[x] = IF hand /\ x = Woken(q) THEN <<m>> ELSE << >>
  OBVIOUS
<1> HIDE DEF out
<1>10. /\ \A x \in Token \ {t} : Gets(x, out[x])
       /\ \A x \in Token \ {t} : out[x] = << >> => NothingNew(x)
       /\ NothingNew(t)
  BY <1>1, <1>4, <1>5, <1>6, <1>8, AnswerFinishes, AnswerOnly
<1>11. None \notin Token /\ blocked_queues \in [Key -> Seq(Token)]
  BY CommandsAssumption DEF Token, TypeInv, TypeOK
<1>12. CASE q = << >>
  <2>1. Woken(q) = None /\ Unserved(q) = << >>
    BY <1>4, <1>12, ExactFront
  <2>2. blocked_queues' = blocked_queues /\ db' = d
    BY <1>1, <1>4, <1>11, <1>12, <2>1
  <2>3. \A x \in Token : NothingNew(x)
    BY <1>9, <1>10, <2>1
  <2> QED  BY <1>4, <1>7, <1>12, <2>2, <2>3, LinesPush DEF items
<1>13. CASE q # << >>
  <2> DEFINE w == Head(q)
  <2>1. Woken(q) = w /\ Unserved(q) = Tail(q) /\ q[1] = w /\ w \in Token
    BY <1>4, <1>13, ExactFront
  <2>2. conns[w].blocked
    <3>1. q \in Seq(Token) /\ Len(q) \in Nat /\ 1 \in 1..Len(q)
      BY <1>4, <1>11, <1>13, LenProperties, HeadTailProperties
    <3> QED  BY <1>4, <2>1, <3>1 DEF QueuesExact
  <2>3. w # t /\ conns[w].write_buffer = << >> /\ hand
    BY <1>1, <1>7, <1>11, <2>1, <2>2, WaitsWithNothing
  <2>4. out[w] = <<m>> /\ \A x \in Token \ {w} : out[x] = << >>
    BY <1>9, <2>1, <2>3
  <2>5. conns'[w].write_buffer = <<m>>
    <3>1. conns'[w].write_buffer = << >> \o <<m>>
      BY <1>10, <2>1, <2>3, <2>4 DEF Gets
    <3>2. << >> \o <<m>> = <<m>>
      OBVIOUS
    <3> QED  BY <3>1, <3>2
  <2>6. \A x \in Token \ {w} : NothingNew(x)
    BY <1>10, <2>4
  <2>7. \A j \in Key : Items(db', j) = Items(db, j)
    <3>1. Items(db, r.key) = << >>
      BY <1>4, <1>13, NoLineAtElements
    <3>2. IsList(d, r.key) /\ Tail(items) \in Seq(Data) /\ Tail(items) = << >>
      BY <1>4, <1>7, <3>1, HandType, TailOfOne DEF items
    <3>3. /\ Items(db', r.key) = << >>
          /\ \A j \in Key \ {r.key} : Items(db', j) = Items(db, j)
      BY <1>1, <1>4, <1>7, <2>3, <3>2, WithItemsIs
    <3> QED  BY <3>1, <3>3
  <2>8. blocked_queues' = [blocked_queues EXCEPT ![r.key] = Tail(@)]
    BY <1>1, <2>1
  <2> HIDE DEF w
  <2> QED  BY <1>4, <1>7, <1>13, <2>1, <2>3, <2>5, <2>6, <2>7, <2>8, LinesServe DEF w, m
<1> QED  BY <1>12, <1>13

\* An event that runs no command.
LEMMA LinesQuietEvent ==
  ASSUME Undisturbed, TypeInv, AccountInv, NEW e \in Event,
         \/ ReadBlocked(e) \/ WriteOnly(e) \/ ReadEof(e)
         \/ \E n \in 0..Len(socks[e.token].inbox), cut \in BOOLEAN : ReadInvalid(e, n, cut)
  PROVE  Lines!Next
<1> DEFINE t == e.token
<1>1. t \in Token /\ conns[t] \in Connection /\ socks[t] \in Socket
  BY ConnectionRecords DEF Event
<1>2. \A x \in Token : Silence[x] = << >>
  BY DEF Silence
<1>3. Pops(<< >>) = {}
  BY NoPops
<1>4. db' = db /\ UNCHANGED blocked_queues
  BY DEF ReadBlocked, WriteOnly, ReadEof, ReadInvalid, store, waiters
<1>5. ASSUME NEW x \in Token  PROVE NothingNew(x)
  <2>1. CASE ReadBlocked(e)
    BY <2>1 DEF ReadBlocked, NothingNew
  <2>2. CASE ReadEof(e)
    <3>1. conns' = [conns EXCEPT ![t] = NewConnection]
      BY <2>2 DEF ReadEof
    <3>2. conns'[x] = IF x = t THEN NewConnection ELSE conns[x]
      BY <1>1, <3>1 DEF TypeInv, TypeOK
    <3> QED  BY <1>3, <3>2 DEF NothingNew, NewConnection
  <2>3. CASE WriteOnly(e)
    <3> DEFINE c == conns[t]
               s == socks[t]
               b == Len(c.write_buffer)
    <3>1. Finish(e, c, s, Silence, None) /\ Len(s.outbox) <= SndBuf
      BY <1>1, <2>3 DEF WriteOnly, TypeInv, OutboxOK
    <3>2. b <= 1
      <4> DEFINE i == Len(s.inbox)
                 o == Len(s.outbox)
      <4>1. pending[t] \in Seq(Request) /\ Account(c, s, pending[t])
        BY <1>1 DEF TypeInv, TypeOK, AccountInv, Accounts
      <4>2. Held(c, s) <= 1 /\ i \in Nat /\ b \in Nat /\ o \in Nat /\ Waits(c) \in Nat
        BY <1>1, <4>1, AccountHeld, HeldType
      <4>3. Held(c, s) = i + Waits(c) + b + o
        BY DEF Held
      <4> HIDE DEF i, b, o
      <4> QED  BY <4>2, <4>3
    <3> HIDE DEF c, s
    <3>3. IF x = t THEN conns'[x].write_buffer \in {<< >>, c.write_buffer}
                   ELSE Gets(x, Silence[x])
      BY <1>1, <3>1, <3>2, FinishBuffers DEF c, s
    <3>4. conns[x].write_buffer \o << >> = conns[x].write_buffer
      BY ConnectionRecords, ConcatEmptySeq DEF Connection
    <3> QED  BY <1>2, <1>3, <3>3, <3>4 DEF NothingNew, Gets, c
  <2>4. ASSUME NEW n \in 0..Len(socks[e.token].inbox), NEW cut \in BOOLEAN,
               ReadInvalid(e, n, cut)
        PROVE  NothingNew(x)
    <3> DEFINE reply == ReplyOf(Head(Buffer(t, n, cut)), "error")
               c == Answered(conns[t], ContextOf(t), reply)
               s == Announced(conns[t], Drained(t, n, cut), <<reply>>)
    <3>1. Reads(e, n, cut) /\ Finish(e, c, s, Silence, None)
      BY <2>4 DEF ReadInvalid
    <3>2. reply \in Reply /\ reply.tag = "error"
      BY <3>1, ReadsType, ReplyOfType DEF Tag, ReplyOf
    <3> HIDE DEF reply
    <3>3. IsAnswered(e, n, cut, ContextOf(t), reply, c, s)
      BY <3>1 DEF IsAnswered
    <3> HIDE DEF c, s
    <3> QED  BY <1>1, <1>2, <3>1, <3>2, <3>3, ContextType, AnswerOnly
  <2> QED  BY <2>1, <2>2, <2>3, <2>4
<1> QED  BY <1>4, <1>5, LinesArrive

LEMMA LinesLoopTop ==
  ASSUME NoTimers, TypeInv, StoreInv, LoopTop
  PROVE  Lines!Next
<1>1. UNCHANGED <<conns, blocked_queues>>
  BY LoopTopQuiet
<1>2. ASSUME NEW k \in Key  PROVE Items(db', k) = Items(db, k)
  <2>1. CASE db'[k] = db[k]
    BY <2>1 DEF Items, IsList, Present
  <2>2. CASE db'[k] = Absent /\ Expired(db[k], now)
    <3>1. ~IsList(db, k)
      BY <2>2 DEF StoreInv, OnlyStringsExpire, Expired
    <3> QED  BY <2>2, <3>1 DEF Items, IsList, Present
  <2> QED  BY <2>1, <2>2, SweepKeeps
<1>3. \A x \in Token : NothingNew(x)
  BY <1>1 DEF NothingNew
<1> QED  BY <1>1, <1>2, <1>3, LinesArrive

LEMMA LinesNext ==
  Undisturbed /\ NoDeadlines /\ OnlyQueues /\ OneEach
    /\ TypeInv /\ EventsOK /\ SlabOK /\ WaitInv /\ RequestsOnly /\ AccountInv /\ NoTimers
    /\ QueuesExact /\ StoreInv /\ NoWaiterOnElements /\ [Next]_vars
      => [Lines!Next]_Lines!vars
<1> SUFFICES ASSUME Undisturbed, NoDeadlines, OnlyQueues, OneEach, TypeInv, WaitInv,
                    RequestsOnly, AccountInv, NoTimers, QueuesExact, StoreInv,
                    NoWaiterOnElements, [Next]_vars
             PROVE  Lines!Next
  OBVIOUS
<1>1. CASE UNCHANGED <<conns, db, blocked_queues>>
  <2>1. /\ \A x \in Token : NothingNew(x)
        /\ \A k \in Key : Items(db', k) = Items(db, k)
    BY <1>1 DEF NothingNew
  <2> QED  BY <1>1, <2>1, LinesArrive
<1>2. ASSUME NEW e \in events, e # ServerEvent, HandleEvent(e)
      PROVE  Lines!Next
  <2>1. e \in Event
    BY <1>2, EventInEvents
  <2>2. ASSUME NEW n \in 0..Len(socks[e.token].inbox), NEW cut \in BOOLEAN,
               ReadBlock(e, n, cut) \/ ReadCommand(e, n, cut) \/ ReadPush(e, n, cut)
        PROVE  Lines!Next
    BY <2>1, <2>2, LinesBlock, LinesCommand, LinesReadPush
  <2> QED  BY <1>2, <2>1, <2>2, LinesQuietEvent DEF HandleEvent
<1>3. CASE Accept
  <2>1. UNCHANGED <<db, blocked_queues>>
    BY <1>3 DEF Accept, store, waiters
  <2>2. ASSUME NEW x \in Token  PROVE NothingNew(x)
    <3>1. conns'[x] \in {conns[x], NewConnection}
      BY <1>3 DEF Accept
    <3> QED  BY <3>1, NoPops DEF NothingNew, NewConnection
  <2> QED  BY <2>1, <2>2, LinesArrive
<1>4. CASE \/ Poll \/ Connect \/ Tick
           \/ \E t \in Token : \/ \E r \in Requests : Send(t, r)
                               \/ Close(t) \/ Receive(t)
  BY <1>1, <1>4 DEF Poll, Connect, Tick, Send, Close, Receive, store, waiters
<1>5. CASE UNCHANGED vars
  BY <1>1, <1>5 DEF vars, store, waiters
<1> QED  BY <1>2, <1>3, <1>4, <1>5, LinesLoopTop DEF Next, ServerStep

LEMMA LinesInit == Init => Lines!Init
<1> SUFFICES ASSUME Init PROVE Lines!Init
  OBVIOUS
<1>1. \A k \in Key : Items(db, k) = << >>
  BY DEF Init, Items, IsList, Present
<1>2. \A t \in Token : Handed(t) = << >>
  <2>1. \A t \in Token : conns[t].write_buffer = << >>
    BY DEF Init, NewConnection
  <2> QED  BY <2>1, NoPops, NothingPopped DEF Handed
<1>3. blocked_queues = [k \in Key |-> << >>]
  BY DEF Init
<1> QED  BY <1>1, <1>2, <1>3 DEF Lines!Init

\* Tokens in wait queues, the pop inside the event of the push and the write buffers
\* of the clients amount to lines: who asks first is served first and nobody takes an
\* element past those in line, every element goes to one client or stays, and none is
\* handed out twice, for any clients and keys.  OneEach is needed: a push of two
\* elements serves one of two clients in line, and a newcomer takes the other element.
THEOREM LinesImplemented ==
  OneAtATime /\ NoSubscribers /\ NoDeadlines /\ OnlyQueues /\ OneEach
    => (Spec => BlpopIsFifo)
<1> SUFFICES ASSUME Undisturbed, NoDeadlines, OnlyQueues, OneEach PROVE Spec => BlpopIsFifo
  BY DEF Undisturbed
<1> DEFINE Inv == TypeInv /\ EventsOK /\ SlabOK /\ WaitInv /\ RequestsOnly /\ AccountInv
                    /\ NoTimers /\ QueuesExact
<1>1. Inv /\ StoreInv /\ NoWaiterOnElements /\ [Next]_vars => [Lines!Next]_Lines!vars
  BY LinesNext
<1>2. Spec => []Inv /\ []StoreInv /\ []NoWaiterOnElements
  BY ExactInvariant, StoreInvariant, NobodyWaitsOnElements
<1> HIDE DEF Inv
<1>3. Spec => Lines!Spec
  BY <1>1, <1>2, LinesInit, PTL DEF Spec, Lines!Spec
<1> QED  BY <1>3 DEF BlpopIsFifo

=============================================================================
