------------------------------ MODULE Commands ------------------------------
(***************************************************************************)
(* The keyspace and the command handlers of RedrumDB.                      *)
(*                                                                         *)
(* A handler is a pure function of the request and of the Context it is    *)
(* given (src/commands/mod.rs): it returns the new context, an outcome     *)
(* ("ok" and "err" append the reply, "block" is the __BLOCK__ marker of    *)
(* BLPOP), the reply, and the Publish actions it queued.  The event loop   *)
(* that runs the handlers is the module Server.                            *)
(*                                                                         *)
(* A request is a parsed command.  Keys, values and channels are model     *)
(* values; a reply keeps its kind and the data a property reads, not its   *)
(* bytes.  A tag "open" is an error line written without its final CRLF.   *)
(***************************************************************************)
EXTENDS Streams

CONSTANTS
  Key,        \* the keys of the keyspace
  Channel,    \* pub/sub channels
  MaxConns    \* how many slots of the connection slab are used

\* A token is its slab index + 1; token 0 is the listener.
Token == 1..MaxConns

-----------------------------------------------------------------------------
(* Values, entries and the context of a handler.                           *)

StringValue(d) == [type |-> "string", data |-> d]
ListValue(s)   == [type |-> "list",   data |-> s]
StreamValue(s) == [type |-> "stream", data |-> s]

Value ==
       [type : {"string"}, data : Data]
  \cup [type : {"list"}, data : Seq(Data)]
  \cup [type : {"stream"}, data : Stream]

ASSUME CommandsAssumption ==
  /\ MaxConns \in Nat \ {0}
  /\ None \notin Key /\ None \notin Nat /\ None \notin Value

EntryOf(v, exp) == [value |-> v, expiry |-> exp]

\* An entry's fields are never None themselves, so None can mark absent keys.
Entry == [value : Value, expiry : Nat \cup {None}]

Absent == [value |-> None, expiry |-> None]

DB == [Key -> Entry \cup {Absent}]

\* BinaryHeap<(Reverse<Instant>, Key)>: only its elements and their order by
\* time matter, and popping two equal elements is popping one.
Expiries == SUBSET (Nat \X Key)

PubSub == [Channel -> Seq(Token)]

Context ==
  [db : DB, expiries : Expiries, pubsub : PubSub, token : Token,
   subscriptions : Seq(Channel), is_pubsub : BOOLEAN]

Present(db, k) == db[k] # Absent
IsList(db, k) == Present(db, k) /\ db[k].value.type = "list"
IsStream(db, k) == Present(db, k) /\ db[k].value.type = "stream"

\* The elements of the list at k; the empty sequence when k holds no list.
Items(db, k) == IF IsList(db, k) THEN db[k].value.data ELSE << >>

\* The state of a list operation: the entry keeps its expiry.
WithItems(db, k, s) == [db EXCEPT ![k] = [@ EXCEPT !.value = ListValue(s)]]

-----------------------------------------------------------------------------
(* Requests and replies.                                                   *)

Request ==
       [cmd : {"PING", "ECHO",  \* commands that read no state but is_pubsub
               "UNKNOWN",       \* a name that is not in the command table
               "INLINE"}]       \* bytes that are not a complete RESP array
  \cup [cmd : {"MISSING"},      \* a data command whose arguments its handler refuses,
        tag : {"open", "error"}] \* with one of the two kinds of error line
  \cup [cmd : {"GET", "TYPE", "LLEN"}, key : Key]
  \cup [cmd : {"SET"}, key : Key, val : Data, ttl : Nat \cup {None}]
  \cup [cmd : {"RPUSH", "LPUSH"}, key : Key, vals : Seq(Data) \ {<< >>}]
  \cup [cmd : {"LPOP"}, key : Key, count : Nat]
  \cup [cmd : {"LRANGE"}, key : Key, start : Int, stop : Int]
  \cup [cmd : {"BLPOP"}, key : Key, timeout : Nat]
  \cup [cmd : {"XADD"}, key : Key, id : IDText, fields : Seq(Data)]
  \cup [cmd : {"SUBSCRIBE", "UNSUBSCRIBE"}, channel : Channel]
  \cup [cmd : {"PUBLISH"}, channel : Channel, message : Data]

\* What a property may read of a reply: the command it answers ("message" when
\* it is a published message), its kind, the key or channel it names, its
\* elements and its number.
Cmd == {"PING", "ECHO", "UNKNOWN", "MISSING", "INLINE", "GET", "TYPE", "LLEN", "SET",
        "RPUSH", "LPUSH", "LPOP", "LRANGE", "BLPOP", "XADD", "SUBSCRIBE",
        "UNSUBSCRIBE", "PUBLISH", "message"}

Tag == {"simple", "bulk", "array", "int", "nil", "ok", "none", "string", "list",
        "stream", "error", "wrongtype", "open", "block"}

Reply == [cmd : Cmd, tag : Tag, about : Key \cup Channel \cup {None},
          body : Seq(Data), num : Nat]

ReplyOf(r, tag) ==
  [cmd |-> r.cmd, tag |-> tag, about |-> None, body |-> << >>, num |-> 0]

NumReply(r, n)   == [ReplyOf(r, "int") EXCEPT !.num = n]
BodyReply(r, s)  == [ReplyOf(r, "array") EXCEPT !.body = s]

\* The two-element array that hands the element v of key k to a BLPOP.
PopReply(k, v) ==
  [cmd |-> "BLPOP", tag |-> "array", about |-> k, body |-> <<v>>, num |-> 0]

Result(ctx, outcome, reply) ==
  [ctx |-> ctx, outcome |-> outcome, reply |-> reply, publish |-> << >>]

Ok(ctx, reply)  == Result(ctx, "ok", reply)
Err(ctx, reply) == Result(ctx, "err", reply)

WrongType(r, ctx) == Err(ctx, ReplyOf(r, "wrongtype"))

-----------------------------------------------------------------------------
(* core.rs *)

ping(r, ctx) == Ok(ctx, ReplyOf(r, IF ctx.is_pubsub THEN "array" ELSE "simple"))

echo(r, ctx) == Ok(ctx, ReplyOf(r, "bulk"))

typee(r, ctx) ==
  IF Present(ctx.db, r.key)
  THEN Ok(ctx, ReplyOf(r, ctx.db[r.key].value.type))
  ELSE Err(ctx, ReplyOf(r, "none"))

(* strings.rs *)

\* Mutant of set: a key that exists is taken to be in the heap already.
SetScheduledOnce(r, ctx, now) ==
  LET expiry == IF r.ttl = None THEN None ELSE now + r.ttl
  IN  Ok([ctx EXCEPT
            !.db[r.key] = EntryOf(StringValue(r.val), expiry),
            !.expiries  = IF expiry = None \/ Present(ctx.db, r.key) THEN @
                          ELSE @ \cup {<<expiry, r.key>>}],
         ReplyOf(r, "ok"))

set(r, ctx, now) ==
  LET expiry == IF r.ttl = None THEN None ELSE now + r.ttl
  IN  Ok([ctx EXCEPT
            !.db[r.key] = EntryOf(StringValue(r.val), expiry),
            !.expiries  = IF expiry = None THEN @ ELSE @ \cup {<<expiry, r.key>>}],
         ReplyOf(r, "ok"))

Expired(entry, now) == entry.expiry # None /\ now >= entry.expiry

\* Mutant of get: the expiry is left to the sweep.
GetUnchecked(r, ctx, now) ==
  LET entry == ctx.db[r.key]
  IN  CASE entry = Absent -> Ok(ctx, ReplyOf(r, "nil"))
        [] entry # Absent ->
             IF entry.value.type = "string"
             THEN Ok(ctx, BodyReply(r, <<entry.value.data>>))
             ELSE WrongType(r, ctx)

get(r, ctx, now) ==
  LET entry == ctx.db[r.key]
  IN  CASE entry = Absent -> Ok(ctx, ReplyOf(r, "nil"))
        [] entry # Absent /\ Expired(entry, now) ->
             Ok([ctx EXCEPT !.db[r.key] = Absent], ReplyOf(r, "nil"))
        [] entry # Absent /\ ~Expired(entry, now) ->
             IF entry.value.type = "string"
             THEN Ok(ctx, BodyReply(r, <<entry.value.data>>))
             ELSE WrongType(r, ctx)

(* lists.rs: a push onto a key that holds no list replaces its entry.      *)

\* Mutants of Pushed: a new list that is never inserted, and one that takes over
\* the expiry of the entry it replaces.
PushedNowhere(db, k, s) == IF IsList(db, k) THEN WithItems(db, k, s) ELSE db

PushedOver(db, k, s) ==
  IF IsList(db, k) THEN WithItems(db, k, s)
                   ELSE [db EXCEPT ![k] = EntryOf(ListValue(s), @.expiry)]

Pushed(db, k, s) ==
  IF IsList(db, k) THEN WithItems(db, k, s)
                   ELSE [db EXCEPT ![k] = EntryOf(ListValue(s), None)]

rpush(r, ctx) ==
  LET s == Items(ctx.db, r.key) \o r.vals
  IN  Ok([ctx EXCEPT !.db = Pushed(@, r.key, s)], NumReply(r, Len(s)))

\* push_front of each value in turn: the last value ends up first.
Reversed(s) == [i \in 1..Len(s) |-> s[Len(s) + 1 - i]]

lpush(r, ctx) ==
  LET s == Reversed(r.vals) \o Items(ctx.db, r.key)
  IN  Ok([ctx EXCEPT !.db = Pushed(@, r.key, s)], NumReply(r, Len(s)))

llen(r, ctx) ==
  IF Present(ctx.db, r.key) /\ ~IsList(ctx.db, r.key)
  THEN WrongType(r, ctx)
  ELSE Ok(ctx, NumReply(r, Len(Items(ctx.db, r.key))))

\* The slice of s from start to stop, both inclusive and negative from the end.
lrange_slice(s, start, stop) ==
  LET len  == Len(s)
      from == IF start < 0 THEN len + start ELSE start
      to   == IF stop < 0 THEN len + stop ELSE stop
      lo   == IF from < 0 THEN 0 ELSE from
      hi   == IF to >= len THEN len - 1 ELSE to
  IN  IF lo > hi \/ lo >= len THEN << >> ELSE SubSeq(s, lo + 1, hi + 1)

lrange(r, ctx) ==
  IF Present(ctx.db, r.key) /\ ~IsList(ctx.db, r.key)
  THEN WrongType(r, ctx)
  ELSE Ok(ctx, BodyReply(r, lrange_slice(Items(ctx.db, r.key), r.start, r.stop)))

lpop(r, ctx) ==
  LET s == Items(ctx.db, r.key)
      n == IF r.count < Len(s) THEN r.count ELSE Len(s)
  IN  CASE Present(ctx.db, r.key) /\ ~IsList(ctx.db, r.key) -> WrongType(r, ctx)
        [] ~Present(ctx.db, r.key) -> Ok(ctx, ReplyOf(r, "nil"))
        [] IsList(ctx.db, r.key) /\ s = << >> -> Ok(ctx, ReplyOf(r, "nil"))
        [] s # << >> ->
             Ok([ctx EXCEPT !.db = WithItems(@, r.key, SubSeq(s, n + 1, Len(s)))],
                [BodyReply(r, SubSeq(s, 1, n))
                   EXCEPT !.tag = IF r.count = 1 THEN "bulk" ELSE "array"])

blpop(r, ctx) ==
  LET s == Items(ctx.db, r.key)
  IN  IF s # << >>
      THEN Ok([ctx EXCEPT !.db = WithItems(@, r.key, Tail(s))],
              PopReply(r.key, Head(s)))
      ELSE Result(ctx, "block", ReplyOf(r, "block"))

(* streams.rs: like a push, XADD onto a key of another type replaces it.   *)

\* Only these bytes are the forbidden ID: "00-0" is not.
IsZeroText(text) ==
  text.form = "ms-seq" /\ ~text.padded /\ text.ms = 0 /\ text.seq = 0

StreamAt(db, k) == IF IsStream(db, k) THEN db[k].value.data ELSE NewStream

\* Mutant of WithStream: the entry that is replaced leaves its expiry behind.
WithStreamOver(db, k, s) ==
  [db EXCEPT ![k] = EntryOf(StreamValue(s), db[k].expiry)]

WithStream(db, k, s) ==
  [db EXCEPT ![k] = EntryOf(StreamValue(s), IF IsStream(db, k) THEN db[k].expiry
                                                              ELSE None)]

xadd(r, ctx) ==
  LET s    == StreamAt(ctx.db, r.key)
      last == IF s.last_id = None THEN ZeroID ELSE s.last_id
      p    == parse(r.id, last)
  IN  CASE IsZeroText(r.id) -> Err(ctx, ReplyOf(r, "error"))
        [] ~IsZeroText(r.id) /\ Len(r.fields) % 2 # 0 -> Err(ctx, ReplyOf(r, "open"))
        [] ~IsZeroText(r.id) /\ Len(r.fields) % 2 = 0 ->
             IF p.error # None THEN Err(ctx, ReplyOf(r, p.error))
             ELSE IF ~IsNewer(s, p.id) THEN Err(ctx, ReplyOf(r, "error"))
             ELSE Ok([ctx EXCEPT !.db = WithStream(@, r.key, add(s, p.id, r.fields))],
                     ReplyOf(r, "bulk"))

(* pubsub.rs *)

Has(s, e) == \E i \in 1..Len(s) : s[i] = e

\* Mutant of subscribe: a token is registered once.
SubscribeOnce(r, ctx) ==
  Ok([ctx EXCEPT !.subscriptions     = Append(@, r.channel),
                 !.is_pubsub         = TRUE,
                 !.pubsub[r.channel] = IF Has(@, ctx.token) THEN @
                                       ELSE Append(@, ctx.token)],
     [NumReply(r, Len(ctx.subscriptions) + 1) EXCEPT !.about = r.channel])

subscribe(r, ctx) ==
  Ok([ctx EXCEPT !.subscriptions     = Append(@, r.channel),
                 !.is_pubsub         = TRUE,
                 !.pubsub[r.channel] = Append(@, ctx.token)],
     [NumReply(r, Len(ctx.subscriptions) + 1) EXCEPT !.about = r.channel])

First(is) == CHOOSE i \in is : \A j \in is : i <= j

\* Vec::remove of the first position that holds e, when there is one.
Without(s, e) ==
  LET at == {i \in 1..Len(s) : s[i] = e}
  IN  IF at = {} THEN s
      ELSE SubSeq(s, 1, First(at) - 1) \o SubSeq(s, First(at) + 1, Len(s))

unsubscribe(r, ctx) ==
  IF ~ctx.is_pubsub
  THEN Ok(ctx, ReplyOf(r, "open"))
  ELSE LET subs == Without(ctx.subscriptions, r.channel)
       IN  Ok([ctx EXCEPT
                 !.subscriptions     = subs,
                 !.pubsub[r.channel] = IF Has(ctx.subscriptions, r.channel)
                                       THEN Without(@, ctx.token) ELSE @],
              [NumReply(r, Len(subs)) EXCEPT !.about = r.channel])

publish(r, ctx) ==
  [Ok(ctx, NumReply(r, Len(ctx.pubsub[r.channel])))
     EXCEPT !.publish = <<[channel |-> r.channel, message |-> r.message]>>]

-----------------------------------------------------------------------------
(* The dispatch of a parsed command: the command table, behind the check of *)
(* command_handler! that a subscribed connection runs only PUBSUB_HANDLER.  *)

PUBSUB_HANDLER == {"SUBSCRIBE", "UNSUBSCRIBE", "PING"}

Execute(r, ctx, now) ==
  CASE r.cmd = "UNKNOWN" -> Err(ctx, ReplyOf(r, "error"))
    [] r.cmd # "UNKNOWN" /\ ctx.is_pubsub /\ r.cmd \notin PUBSUB_HANDLER ->
         Err(ctx, ReplyOf(r, "error"))
    [] r.cmd # "UNKNOWN" /\ ~(ctx.is_pubsub /\ r.cmd \notin PUBSUB_HANDLER) ->
         CASE r.cmd = "PING"        -> ping(r, ctx)
           [] r.cmd = "ECHO"        -> echo(r, ctx)
           [] r.cmd = "MISSING"     -> Err(ctx, ReplyOf(r, r.tag))
           [] r.cmd = "TYPE"        -> typee(r, ctx)
           [] r.cmd = "SET"         -> set(r, ctx, now)
           [] r.cmd = "GET"         -> get(r, ctx, now)
           [] r.cmd = "RPUSH"       -> rpush(r, ctx)
           [] r.cmd = "LPUSH"       -> lpush(r, ctx)
           [] r.cmd = "LLEN"        -> llen(r, ctx)
           [] r.cmd = "LRANGE"      -> lrange(r, ctx)
           [] r.cmd = "LPOP"        -> lpop(r, ctx)
           [] r.cmd = "BLPOP"       -> blpop(r, ctx)
           [] r.cmd = "XADD"        -> xadd(r, ctx)
           [] r.cmd = "SUBSCRIBE"   -> subscribe(r, ctx)
           [] r.cmd = "UNSUBSCRIBE" -> unsubscribe(r, ctx)
           [] r.cmd = "PUBLISH"     -> publish(r, ctx)
=============================================================================
