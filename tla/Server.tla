------------------------------- MODULE Server -------------------------------
(***************************************************************************)
(* The event loop of RedrumDB (src/server/mod.rs) with the connections,    *)
(* the keyspace, the blocked clients and the subscriptions it serves, and  *)
(* the clients at the other end of its sockets.                            *)
(*                                                                         *)
(* The server is one thread.  An iteration of its loop removes what has    *)
(* expired (LoopTop), waits for events (Poll) and handles them one at a    *)
(* time; each event is one action, the clients and the clock move between. *)
(***************************************************************************)
EXTENDS Connections

CONSTANTS
  Requests,      \* the requests that clients may send
  Window,        \* unanswered requests a client may have; 1: no pipelining
  Split,         \* whether a read may end inside a request
  MAX_CLEANUP,   \* expiry.rs
  MaxRequests,   \* bound: requests sent in a behaviour
  MaxConnects    \* bound: connections made in a behaviour

ASSUME ServerAssumption ==
  /\ Requests \subseteq Request
  /\ Window \in Nat /\ Split \in BOOLEAN /\ MAX_CLEANUP \in Nat
  /\ MaxRequests \in Nat /\ MaxConnects \in Nat

VARIABLES
  conns,             \* the connection in each slab slot, by token
  slab,              \* the tokens of the occupied slots
  free,              \* the vacant slots in the order the slab hands them out
  db, expiries,      \* the keyspace and the expiry heap
  blocked_queues,    \* per key, the tokens waiting in BLPOP
  blocked_timeouts,  \* the heap of BLPOP deadlines
  pubsub,            \* per channel, the subscribed tokens
  now,               \* Instant::now()
  polling,           \* the loop is between its cleanup and the return of poll
  events,            \* the events of this iteration still to be handled
  socks,             \* the kernel's side of each connection
  backlog,           \* connections made and not yet accepted
  pending,           \* per client, the requests it sent that have no answer
  sent, connects     \* counters for MaxRequests and MaxConnects

store   == <<db, expiries, pubsub>>
waiters == <<blocked_queues, blocked_timeouts>>
clients == <<backlog, pending, sent, connects>>
vars == <<conns, slab, free, store, waiters, now, polling, events, socks, clients>>

SERVER == 0

Event == [token : Token, readable : BOOLEAN, writable : BOOLEAN]

ServerEvent == [token |-> SERVER, readable |-> TRUE, writable |-> FALSE]

TypeOK ==
  /\ conns \in [Token -> Connection]
  /\ slab \subseteq Token
  /\ free \in Seq(Token)
  /\ db \in DB /\ expiries \in Expiries /\ pubsub \in PubSub
  /\ blocked_queues \in [Key -> Seq(Token)]
  /\ blocked_timeouts \subseteq Nat \X Token
  /\ now \in Nat /\ polling \in BOOLEAN
  /\ events \subseteq Event \cup {ServerEvent}
  /\ socks \in [Token -> Socket]
  /\ backlog \in Nat /\ pending \in [Token -> Seq(Request)]
  /\ sent \in Nat /\ connects \in Nat

Init ==
  /\ conns = [t \in Token |-> NewConnection]
  /\ slab = {} /\ free = [t \in Token |-> t]
  /\ db = [k \in Key |-> Absent] /\ expiries = {}
  /\ pubsub = [c \in Channel |-> << >>]
  /\ blocked_queues = [k \in Key |-> << >>] /\ blocked_timeouts = {}
  /\ now = 0 /\ polling = FALSE /\ events = {}
  /\ socks = [t \in Token |-> NewSocket]
  /\ backlog = 0 /\ pending = [t \in Token |-> << >>]
  /\ sent = 0 /\ connects = 0

\* connections.get_mut finds the token and its connection is blocked.
Waiting(t) == t \in slab /\ conns[t].blocked

-----------------------------------------------------------------------------
(* The top of the loop.                                                    *)

(***************************************************************************)
(* expiry::cleanup_expired pops due entries in order of time until none is *)
(* left or cleaned exceeds MAX_CLEANUP, that is up to MAX_CLEANUP + 1 of   *)
(* them; entries of one instant pop in the order of their keys.            *)
(***************************************************************************)
Sweeps ==
  LET due == {x \in expiries : x[1] <= now}
  IN  {s \in SUBSET due :
         /\ Cardinality(s) <= MAX_CLEANUP + 1
         /\ s = due \/ Cardinality(s) = MAX_CLEANUP + 1
         /\ \A x \in s, y \in due \ s : x[1] <= y[1]}

\* Mutant of cleanup_expired: any popped time of a key removes it.
CleanupAnyTime(swept) ==
  [k \in Key |-> IF \E x \in swept : x[2] = k THEN Absent ELSE db[k]]

\* An entry goes only if the popped time is still its expiry.
cleanup_expired(swept) ==
  [k \in Key |->
     IF db[k].expiry # None /\ <<db[k].expiry, k>> \in swept THEN Absent ELSE db[k]]

NilReply == [cmd |-> "BLPOP", tag |-> "nil", about |-> None, body |-> << >>, num |-> 0]

\* Mutant of TimedOut: entries of this very instant are popped without effect.
TimedOutLate(t) ==
  /\ Waiting(t)
  /\ \E x \in blocked_timeouts : x[1] < now /\ x[2] = t

\* Mutant of TimedOut: it is not checked that the client is still blocked.
TimedOutAgain(t) ==
  /\ t \in slab
  /\ \E x \in blocked_timeouts : x[1] <= now /\ x[2] = t

\* blocking::cleanup_blocked gives up for every blocked client with an entry due.
TimedOut(t) ==
  /\ Waiting(t)
  /\ \E x \in blocked_timeouts : x[1] <= now /\ x[2] = t

LoopTop ==
  /\ ~polling /\ events = {}
  /\ \E swept \in Sweeps : /\ db' = cleanup_expired(swept)
                           /\ expiries' = expiries \ swept
  /\ blocked_timeouts' = {x \in blocked_timeouts : x[1] > now}
  /\ conns' = [t \in Token |-> IF TimedOut(t)
                               THEN Queued(Unblocked(conns[t]), <<NilReply>>)
                               ELSE conns[t]]
  /\ socks' = [t \in Token |-> IF TimedOut(t)
                               THEN Announced(conns[t], socks[t], <<NilReply>>)
                               ELSE socks[t]]
  /\ polling' = TRUE
  /\ UNCHANGED <<slab, free, pubsub, blocked_queues, now, events, clients>>

(***************************************************************************)
(* poll returns every armed socket with the conditions that hold of it, or *)
(* nothing when the first blocked deadline has passed; it does not wake up *)
(* for the expiry heap.                                                    *)
(***************************************************************************)
Ready(t) == t \in slab /\ socks[t].armed /\ (Readable(socks[t]) \/ Writable(socks[t]))

EventOf(t) == [token    |-> t,
               readable |-> Readable(socks[t]),
               writable |-> Writable(socks[t])]

Poll ==
  /\ polling
  /\ \/ \E t \in Token : Ready(t)
     \/ backlog > 0
     \/ \E x \in blocked_timeouts : x[1] <= now
  /\ events' = {EventOf(t) : t \in {u \in Token : Ready(u)}}
                 \cup (IF backlog > 0 THEN {ServerEvent} ELSE {})
  /\ socks' = [t \in Token |-> IF Ready(t) THEN [socks[t] EXCEPT !.armed = FALSE]
                                           ELSE socks[t]]
  /\ polling' = FALSE
  /\ UNCHANGED <<conns, slab, free, store, waiters, now, clients>>

-----------------------------------------------------------------------------
(* The listener's event: accept until it would block.                      *)

Accept ==
  LET accepted == {free[i] : i \in 1..backlog}
  IN  /\ ServerEvent \in events
      /\ events' = events \ {ServerEvent}
      /\ backlog' = 0
      /\ slab' = slab \cup accepted
      /\ free' = SubSeq(free, backlog + 1, Len(free))
      /\ conns' = [t \in Token |-> IF t \in accepted THEN NewConnection ELSE conns[t]]
      /\ socks' = [t \in Token |-> IF t \in accepted THEN NewSocket ELSE socks[t]]
      /\ UNCHANGED <<store, waiters, now, polling, pending, sent, connects>>

-----------------------------------------------------------------------------
(* The event of a connection.                                              *)

\* A readable event of a blocked connection: the whole event is dropped.
ReadBlocked(e) ==
  /\ e.readable /\ conns[e.token].blocked
  /\ events' = events \ {e}
  /\ UNCHANGED <<conns, slab, free, store, waiters, now, polling, socks, clients>>

\* Mutants of Removed: the slot is lost, or its index is taken for its token.
RemovedForGood(t) ==
  /\ slab' = slab \ {t} /\ free' = free
  /\ pending' = [pending EXCEPT ![t] = << >>]

RemovedIndex(t) ==
  /\ slab' = slab \ {t} /\ free' = <<t - 1>> \o free
  /\ pending' = [pending EXCEPT ![t] = << >>]

\* The slab slot of t is vacated: it is the next one handed out.
Removed(t) ==
  /\ slab' = slab \ {t} /\ free' = <<t>> \o free
  /\ pending' = [pending EXCEPT ![t] = << >>]

\* The connection goes back to where it was taken from: the slab hands out the slot that
\* was vacated last, and nothing takes or vacates one while an event is handled.
Kept == UNCHANGED <<slab, free, pending>>

(***************************************************************************)
(* The rest of an event after its readable part left the connection of e   *)
(* as c and its socket as s: the writable part, the reinsertion into the   *)
(* slab (or not), and what the command did to the others: out[x] is        *)
(* appended to the write buffer of x, and woken is no longer blocked.      *)
(***************************************************************************)
Finish(e, c, s, out, woken) ==
  LET t == e.token
      others(x) == Queued(IF x = woken THEN Unblocked(conns[x]) ELSE conns[x], out[x])
  IN  /\ events' = events \ {e}
      /\ \/ /\ e.writable /\ MayFail(c, s)
            /\ Removed(t)
            /\ conns' = [x \in Token |-> IF x = t THEN NewConnection ELSE others(x)]
            /\ socks' = [x \in Token |-> IF x = t THEN NewSocket
                                         ELSE Announced(conns[x], socks[x], out[x])]
         \/ /\ Kept
            /\ conns' = [x \in Token |->
                           IF x # t THEN others(x)
                           ELSE IF e.writable THEN WrittenConn(c, s) ELSE c]
            /\ socks' = [x \in Token |->
                           IF x # t THEN Announced(conns[x], socks[x], out[x])
                           ELSE IF e.writable THEN WrittenSock(c, s) ELSE s]
      /\ UNCHANGED <<now, polling, backlog, sent, connects>>

Silence == [x \in Token |-> << >>]

WriteOnly(e) ==
  /\ ~e.readable
  /\ Finish(e, conns[e.token], socks[e.token], Silence, None)
  /\ UNCHANGED <<store, waiters>>

\* read returns Ok(0), or an error: the connection is not put back.  The writable part
\* still runs before it is dropped; what it writes goes to a peer that has gone.
ReadEof(e) ==
  LET t == e.token
  IN  /\ e.readable /\ ~conns[t].blocked /\ socks[t].inbox = << >> /\ socks[t].eof
      /\ events' = events \ {e}
      /\ Removed(t)
      /\ conns' = [conns EXCEPT ![t] = NewConnection]
      /\ socks' = [socks EXCEPT ![t] = NewSocket]
      /\ UNCHANGED <<store, waiters, now, polling, backlog, sent, connects>>

(***************************************************************************)
(* One read takes the next n requests of the stream and, if cut holds, the *)
(* beginning of the one after; neither part of that one parses, for no     *)
(* word of a request here spells a request (RespParser shows that this is  *)
(* what it takes).  Only the first request of the read buffer is looked at.*)
(***************************************************************************)
Part == [cmd |-> "INLINE"]

Buffer(t, n, cut) ==
  conns[t].read_buffer \o SubSeq(socks[t].inbox, 1, n)
                       \o (IF cut THEN <<Part>> ELSE << >>)

Drained(t, n, cut) ==
  [socks[t] EXCEPT !.inbox = IF cut THEN <<Part>> \o SubSeq(@, n + 2, Len(@))
                                    ELSE SubSeq(@, n + 1, Len(@))]

ContextOf(t) ==
  [db |-> db, expiries |-> expiries, pubsub |-> pubsub, token |-> t,
   subscriptions |-> conns[t].subscriptions, is_pubsub |-> conns[t].is_pubsub]

Reads(e, n, cut) ==
  LET len == Len(socks[e.token].inbox)
  IN  /\ e.readable /\ ~conns[e.token].blocked
      /\ IF cut THEN Split /\ n \in 0..(len - 1) ELSE n \in 1..len

\* parse_command fails.
ReadInvalid(e, n, cut) ==
  LET t     == e.token
      r     == Head(Buffer(t, n, cut))
      reply == ReplyOf(r, "error")
  IN  /\ Reads(e, n, cut) /\ r.cmd = "INLINE"
      /\ Finish(e, Answered(conns[t], ContextOf(t), reply),
                Announced(conns[t], Drained(t, n, cut), <<reply>>), Silence, None)
      /\ UNCHANGED <<store, waiters>>

\* BLPOP has nothing to pop: the event ends here, before its writable part.
ReadBlock(e, n, cut) ==
  LET t == e.token
      r == Head(Buffer(t, n, cut))
      deadline == IF r.timeout > 0 THEN now + r.timeout ELSE None
  IN  /\ Reads(e, n, cut) /\ r.cmd = "BLPOP"
      /\ Execute(r, ContextOf(t), now).outcome = "block"
      /\ conns' = [conns EXCEPT ![t] = Blocked(@, Buffer(t, n, cut), r.key, deadline)]
      /\ socks' = [socks EXCEPT ![t] = Drained(t, n, cut)]
      /\ blocked_timeouts' = IF deadline = None THEN blocked_timeouts
                             ELSE blocked_timeouts \cup {<<deadline, t>>}
      /\ blocked_queues' = [blocked_queues EXCEPT ![r.key] = Append(@, t)]
      /\ events' = events \ {e}
      /\ UNCHANGED <<slab, free, store, now, polling, clients>>

\* The subscribers' copies of a published message; the publisher is not in
\* the slab while its command runs.
Deliveries(p, t) ==
  LET subs == pubsub[p.channel]
      message == [cmd |-> "message", tag |-> "array", about |-> p.channel,
                  body |-> <<p.message>>, num |-> 0]
  IN  [x \in Token |->
         IF x \in slab \ {t}
         THEN [i \in 1..Cardinality({j \in 1..Len(subs) : subs[j] = x}) |-> message]
         ELSE << >>]

\* Mutant of PushCommands: only one of the two wakes a waiter.
LeftPushOnly == {"LPUSH"}

PushCommands == {"LPUSH", "RPUSH"}

\* Any other command: its handler answers, and nobody is woken up.
ReadCommand(e, n, cut) ==
  LET t   == e.token
      r   == Head(Buffer(t, n, cut))
      res == Execute(r, ContextOf(t), now)
  IN  /\ Reads(e, n, cut) /\ r.cmd # "INLINE" /\ res.outcome # "block"
      /\ ~(r.cmd \in PushCommands /\ res.outcome = "ok")
      /\ Finish(e, Answered(conns[t], res.ctx, res.reply),
                Announced(conns[t], Drained(t, n, cut), <<res.reply>>),
                IF res.publish = << >> THEN Silence ELSE Deliveries(res.publish[1], t),
                None)
      /\ db' = res.ctx.db /\ expiries' = res.ctx.expiries /\ pubsub' = res.ctx.pubsub
      /\ UNCHANGED waiters

(***************************************************************************)
(* blocking::wake_client pops tokens from the queue of the key up to the   *)
(* first one whose connection exists and is blocked, and serves that one.  *)
(***************************************************************************)
Served(q) == {i \in 1..Len(q) : Waiting(q[i])}

Woken(q) == IF Served(q) = {} THEN None ELSE q[First(Served(q))]

\* Mutants of Unserved: the waiter that is served stays in the queue, and the
\* waiters behind it go with it.
UnservedKept(q) == IF Served(q) = {} THEN << >>
                   ELSE SubSeq(q, First(Served(q)), Len(q))

UnservedLost(q) == << >>

Unserved(q) == IF Served(q) = {} THEN << >>
               ELSE SubSeq(q, First(Served(q)) + 1, Len(q))

\* LPUSH or RPUSH succeeded: after the event the key's first waiter is woken.
ReadPush(e, n, cut) ==
  LET t     == e.token
      r     == Head(Buffer(t, n, cut))
      res   == Execute(r, ContextOf(t), now)
      q     == blocked_queues[r.key]
      items == Items(res.ctx.db, r.key)
      hand  == Woken(q) # None /\ items # << >>
  IN  /\ Reads(e, n, cut) /\ r.cmd \in PushCommands /\ res.outcome = "ok"
      /\ Finish(e, Answered(conns[t], res.ctx, res.reply),
                Announced(conns[t], Drained(t, n, cut), <<res.reply>>),
                [x \in Token |-> IF hand /\ x = Woken(q)
                                 THEN <<PopReply(r.key, Head(items))>> ELSE << >>],
                Woken(q))
      /\ blocked_queues' = [blocked_queues EXCEPT ![r.key] = Unserved(q)]
      /\ db' = IF hand THEN WithItems(res.ctx.db, r.key, Tail(items)) ELSE res.ctx.db
      /\ expiries' = res.ctx.expiries /\ pubsub' = res.ctx.pubsub
      /\ UNCHANGED blocked_timeouts

HandleEvent(e) ==
  \/ ReadBlocked(e)
  \/ WriteOnly(e)
  \/ ReadEof(e)
  \/ \E n \in 0..Len(socks[e.token].inbox), cut \in BOOLEAN :
       \/ ReadInvalid(e, n, cut)
       \/ ReadBlock(e, n, cut)
       \/ ReadCommand(e, n, cut)
       \/ ReadPush(e, n, cut)

ServerStep ==
  \/ LoopTop \/ Poll \/ Accept
  \/ \E e \in events : e # ServerEvent /\ HandleEvent(e)

-----------------------------------------------------------------------------
(* The clients and the clock.                                              *)

Connect ==
  /\ connects < MaxConnects /\ backlog < Len(free)
  /\ backlog' = backlog + 1 /\ connects' = connects + 1
  /\ UNCHANGED <<conns, slab, free, store, waiters, now, polling, events, socks,
                 pending, sent>>

Send(t, r) ==
  /\ t \in slab /\ ~socks[t].eof
  /\ Len(pending[t]) < Window /\ sent < MaxRequests
  /\ socks' = [socks EXCEPT ![t].inbox = Append(@, r), ![t].armed = TRUE]
  /\ pending' = [pending EXCEPT ![t] = Append(@, r)]
  /\ sent' = sent + 1
  /\ UNCHANGED <<conns, slab, free, store, waiters, now, polling, events, backlog,
                 connects>>

\* The peer closes, or resets the connection: then unread data is lost too.
Close(t) ==
  /\ t \in slab /\ ~socks[t].eof
  /\ \E rest \in {socks[t].inbox, << >>} :
       socks' = [socks EXCEPT ![t] = [@ EXCEPT !.inbox = rest, !.outbox = << >>,
                                               !.eof = TRUE, !.armed = TRUE]]
  /\ pending' = [pending EXCEPT ![t] = << >>]
  /\ UNCHANGED <<conns, slab, free, store, waiters, now, polling, events, backlog,
                 sent, connects>>

(***************************************************************************)
(* The client takes the next reply off the wire, up to and including the   *)
(* first terminated one, and counts it as the answer to its oldest request *)
(* unless it is a published message.                                       *)
(***************************************************************************)
Terminated(s) == {i \in 1..Len(s) : s[i].tag # "open"}

IsPublished(m) == m.cmd = "message"

Receive(t) ==
  LET s == socks[t]
  IN  /\ t \in slab /\ Terminated(s.outbox) # {}
      /\ socks' = [socks EXCEPT ![t] =
           [s EXCEPT !.outbox = SubSeq(@, First(Terminated(@)) + 1, Len(@)),
                     !.armed  = @ \/ (s.want /\ Len(s.outbox) = SndBuf)]]
      /\ pending' = IF IsPublished(Head(s.outbox)) \/ pending[t] = << >> THEN pending
                    ELSE [pending EXCEPT ![t] = Tail(@)]
      /\ UNCHANGED <<conns, slab, free, store, waiters, now, polling, events, backlog,
                     sent, connects>>

\* Time is read only against a deadline: a tick that none awaits changes nothing.
Tick ==
  /\ \/ \E x \in blocked_timeouts : x[1] > now
     \/ \E x \in expiries : x[1] > now
  /\ now' = now + 1
  /\ UNCHANGED <<conns, slab, free, store, waiters, polling, events, socks, clients>>

Next ==
  \/ ServerStep
  \/ Connect
  \/ \E t \in Token : \/ \E r \in Requests : Send(t, r)
                      \/ Close(t) \/ Receive(t)
  \/ Tick

Spec == Init /\ [][Next]_vars

\* The one thread keeps running its loop, the clock advances, and a client
\* reads the replies that reach it.
FairSpec ==
  /\ Spec
  /\ WF_vars(ServerStep) /\ WF_vars(Tick)
  /\ \A t \in Token : WF_vars(Receive(t))

-----------------------------------------------------------------------------
(* Properties.                                                             *)

\* A vacant slot is handed out once: the occupied slots and the free list
\* share the slots out between them (the slab under accept and removal).
SlabOK ==
  /\ slab = {t \in Token : \A i \in 1..Len(free) : free[i] # t}
  /\ \A i, j \in 1..Len(free) : free[i] = free[j] => i = j

\* A blocked client is in the queue of the key it waits for, whatever pushes,
\* timeouts and stale tokens have done to that queue since: no push misses it.
BlockedIsQueued ==
  \A t \in Token : conns[t].blocked =>
     /\ t \in slab
     /\ conns[t].block_key \in Key
     /\ Has(blocked_queues[conns[t].block_key], t)

\* Without timeouts the wait queues are exact: they hold the blocked clients of
\* their key, each once, so that pushes serve them first come, first served.
QueuesExact ==
  \A k \in Key :
    LET q == blocked_queues[k]
    IN  \A i \in 1..Len(q) : /\ conns[q[i]].blocked
                             /\ conns[q[i]].block_key = k
                             /\ \A j \in 1..Len(q) : q[j] = q[i] => j = i

\* The deadline of a blocked client is still in the timeout heap, although
\* cleanup_blocked pops entries by time and never looks at block_deadline.
DeadlineIsScheduled ==
  \A t \in Token :
    conns[t].blocked /\ conns[t].block_deadline # None =>
       <<conns[t].block_deadline, t>> \in blocked_timeouts

\* While every push brings one element, no client stays blocked on a list that
\* has elements: the push that ends the wait and the wake-up are one event.
NoWaiterOnElements ==
  \A t \in Token : conns[t].blocked => Items(db, conns[t].block_key) = << >>

\* An entry that expires is scheduled: overwriting the key, popping stale heap
\* entries and bounded sweeps never leave a key with an expiry nobody looks at.
ExpiryIsScheduled ==
  \A k \in Key : db[k].expiry # None => <<db[k].expiry, k>> \in expiries

\* Only strings expire: a push or an XADD onto a key drops the expiry of the string
\* it replaces, so the commands on lists and streams need not look at it.
OnlyStringsExpire ==
  \A k \in Key : IsList(db, k) \/ IsStream(db, k) => db[k].expiry = None

\* GET, SET and the pushes answer as if a key whose expiry has passed were
\* absent, also in the time between the expiry and the sweep that removes it.
\* (TYPE, LLEN, LRANGE and LPOP do not look at the expiry.)
ExpiredIsAbsent ==
  \A t \in slab, r \in Requests, k \in Key :
    r.cmd \in {"GET", "SET", "RPUSH", "LPUSH"} /\ Expired(db[k], now) =>
      Execute(r, ContextOf(t), now).reply =
      Execute(r, [ContextOf(t) EXCEPT !.db[k] = Absent], now).reply

\* A reply that is waiting in a write buffer will be noticed: the interest
\* includes WRITABLE, and the socket is armed, or full, or its writable event
\* is already in the batch.  Nothing else makes the loop flush the buffer.
ReplyIsScheduled ==
  \A t \in slab : conns[t].write_buffer # << >> =>
     /\ socks[t].want
     /\ \/ socks[t].armed
        \/ ~Writable(socks[t])
        \/ \E e \in events : e.token = t /\ e.writable

\* The next reply a client receives answers the oldest request it has waiting.
AnswersItsRequest ==
  \A t \in slab :
    LET out == socks[t].outbox
    IN  out # << >> /\ ~IsPublished(Head(out)) =>
          pending[t] # << >> /\ Head(out).cmd = Head(pending[t]).cmd

\* Where what t asked for can be: in its socket, in a wait, or among the replies.
Underway(t) ==
  Len(socks[t].inbox) + (IF conns[t].blocked THEN 1 ELSE 0)
    + Len(conns[t].write_buffer) + Len(socks[t].outbox)

\* A client that sends one whole request at a time, and does not subscribe, is never
\* left without an answer underway and never gets a second one, although the push and
\* the timeout that end a wait race each other.
OneReplyEach ==
  \A t \in slab : ~socks[t].eof => Underway(t) = Len(pending[t])

Count(s, x) == Cardinality({i \in 1..Len(s) : s[i] = x})

\* What a connection is subscribed to is registered for its token, at least once
\* per subscription whatever tokens of earlier connections are there too, so that
\* PUBLISH and UNSUBSCRIBE find it.
SubscriptionsRegistered ==
  \A t \in slab, c \in Channel :
    Count(conns[t].subscriptions, c) <= Count(pubsub[c], t)

\* A key disappears only when its own expiry has passed, however many expiries
\* of earlier values of the key are still in the heap.
NoEarlyExpiry ==
  [][\A k \in Key : Present(db, k) /\ ~Present(db', k) =>
        db[k].expiry # None /\ db[k].expiry <= now]_vars

\* What a step appended to the write buffer of t: its last reply.
LastReply(t) == conns'[t].write_buffer[Len(conns'[t].write_buffer)]

\* The wait of t ends, and not because its connection does.
Ends(t) == Waiting(t) /\ t \in slab' /\ ~conns'[t].blocked

\* Whoever stops being blocked is answered in the same step, with one reply:
\* the element of a push, or the nil of a timeout.
EndOfWaitAnswers ==
  [][\A t \in Token : Ends(t) =>
        /\ Len(conns'[t].write_buffer) = Len(conns[t].write_buffer) + 1
        /\ LastReply(t).cmd = "BLPOP"]_vars

\* A client is handed an element only of the key it is blocked on.
WokenOnItsKey ==
  [][\A t \in Token : Ends(t) /\ LastReply(t).tag = "array" =>
        LastReply(t).about = conns[t].block_key]_vars

\* A BLPOP gives up no earlier than the deadline of that BLPOP.
NoEarlyTimeout ==
  [][\A t \in Token : Ends(t) /\ LastReply(t).tag = "nil" =>
        conns[t].block_deadline # None /\ conns[t].block_deadline <= now]_vars

\* A message goes only to a connection that is subscribed to its channel.
MessageToSubscriber ==
  [][\A t \in slab :
        LET old == conns[t].write_buffer
            new == conns'[t].write_buffer
        IN  Len(new) > Len(old) /\ IsPublished(new[Len(new)]) =>
              Has(conns[t].subscriptions, new[Len(new)].about)]_vars

\* The token of t is still registered for what an earlier connection subscribed to.
Stale(t) == \E c \in Channel : Has(pubsub[c], t) /\ ~Has(conns[t].subscriptions, c)

\* Every request is answered (or its client has gone), unless the token of its client
\* was a subscriber's before.  There a message may wait in the write buffer when the
\* client blocks, the event that would have written it ends without its writable part,
\* and the reply that ends the wait finds the buffer in use and arms nothing.
EveryRequestAnswered ==
  \A t \in Token : pending[t] # << >> ~> pending[t] = << >> \/ Stale(t)

\* A BLPOP with a timeout does not block for ever.
TimedWaitEnds ==
  \A t \in Token :
    conns[t].blocked /\ conns[t].block_deadline # None ~> ~conns[t].blocked
=============================================================================
