--------------------------- MODULE CommandsProofs ---------------------------
(***************************************************************************)
(* What every command handler preserves: the types of the context it is    *)
(* given and of its result.                                                *)
(***************************************************************************)
EXTENDS Commands, StreamsProofs

Publication == [channel : Channel, message : Data]

ResultType ==
  [ctx : Context, outcome : {"ok", "err", "block"}, reply : Reply,
   publish : Seq(Publication)]

\* The reply that names the command only is a reply (every Err arm).
LEMMA ReplyOfType ==
  ASSUME NEW r \in Request, NEW tag \in Tag
  PROVE  ReplyOf(r, tag) \in Reply
<1>1. r.cmd \in Cmd
  BY DEF Request, Cmd
<1>2. << >> \in Seq(Data)
  BY EmptySeq
<1> QED  BY <1>1, <1>2 DEF ReplyOf, Reply

LEMMA NumReplyType ==
  ASSUME NEW r \in Request, NEW n \in Nat
  PROVE  NumReply(r, n) \in Reply
<1>1. ReplyOf(r, "int") \in Reply
  BY ReplyOfType DEF Tag
<1> QED  BY <1>1 DEF NumReply, Reply

LEMMA BodyReplyType ==
  ASSUME NEW r \in Request, NEW s \in Seq(Data)
  PROVE  BodyReply(r, s) \in Reply
<1>1. ReplyOf(r, "array") \in Reply
  BY ReplyOfType DEF Tag
<1> QED  BY <1>1 DEF BodyReply, Reply

LEMMA OkType ==
  ASSUME NEW ctx \in Context, NEW reply \in Reply
  PROVE  Ok(ctx, reply) \in ResultType /\ Err(ctx, reply) \in ResultType
BY EmptySeq DEF Ok, Err, Result, ResultType

-----------------------------------------------------------------------------
(* The keyspace.                                                           *)

LEMMA EntryType ==
  ASSUME NEW db \in DB, NEW k \in Key, Present(db, k)
  PROVE  db[k] \in Entry
BY DEF DB, Present

\* The elements at a key are a sequence of data, whatever the key holds.
LEMMA ItemsType ==
  ASSUME NEW db \in DB, NEW k \in Key
  PROVE  Items(db, k) \in Seq(Data)
<1>1. CASE IsList(db, k)
  <2>1. db[k].value \in Value
    BY <1>1, EntryType DEF IsList, Entry
  <2> QED  BY <1>1, <2>1 DEF IsList, Items, Value
<1>2. CASE ~IsList(db, k)
  BY <1>2, EmptySeq DEF Items
<1> QED  BY <1>1, <1>2

LEMMA WithItemsType ==
  ASSUME NEW db \in DB, NEW k \in Key, NEW s \in Seq(Data), IsList(db, k)
  PROVE  WithItems(db, k, s) \in DB
<1>1. db[k] \in Entry
  BY EntryType DEF IsList
<1>2. ListValue(s) \in Value
  BY DEF ListValue, Value
<1>3. [db[k] EXCEPT !.value = ListValue(s)] \in Entry
  BY <1>1, <1>2 DEF Entry
<1> QED  BY <1>3 DEF WithItems, DB

LEMMA PushedType ==
  ASSUME NEW db \in DB, NEW k \in Key, NEW s \in Seq(Data)
  PROVE  Pushed(db, k, s) \in DB
<1>1. EntryOf(ListValue(s), None) \in Entry
  BY DEF EntryOf, ListValue, Entry, Value
<1> QED  BY <1>1, WithItemsType DEF Pushed, DB

\* A context with another keyspace is a context.
LEMMA ContextDB ==
  ASSUME NEW ctx \in Context, NEW d \in DB
  PROVE  [ctx EXCEPT !.db = d] \in Context
BY DEF Context

-----------------------------------------------------------------------------
(* The handlers, file by file.                                             *)

LEMMA PingType ==
  ASSUME NEW r \in Request, NEW ctx \in Context
  PROVE  ping(r, ctx) \in ResultType /\ echo(r, ctx) \in ResultType
<1>1. ReplyOf(r, IF ctx.is_pubsub THEN "array" ELSE "simple") \in Reply
  BY ReplyOfType DEF Tag
<1>2. ReplyOf(r, "bulk") \in Reply
  BY ReplyOfType DEF Tag
<1> QED  BY <1>1, <1>2, OkType DEF ping, echo

LEMMA TypeeType ==
  ASSUME NEW r \in Request, NEW ctx \in Context, r.key \in Key
  PROVE  typee(r, ctx) \in ResultType
<1>1. CASE Present(ctx.db, r.key)
  <2>1. ctx.db[r.key].value \in Value
    BY <1>1, EntryType DEF Context, Entry
  <2>2. ctx.db[r.key].value.type \in Tag
    BY <2>1 DEF Value, Tag
  <2> QED  BY <1>1, <2>2, ReplyOfType, OkType DEF typee
<1>2. CASE ~Present(ctx.db, r.key)
  <2>1. ReplyOf(r, "none") \in Reply
    BY ReplyOfType DEF Tag
  <2> QED  BY <1>2, <2>1, OkType DEF typee
<1> QED  BY <1>1, <1>2

LEMMA WrongTypeType ==
  ASSUME NEW r \in Request, NEW ctx \in Context
  PROVE  WrongType(r, ctx) \in ResultType
<1>1. ReplyOf(r, "wrongtype") \in Reply
  BY ReplyOfType DEF Tag
<1> QED  BY <1>1, OkType DEF WrongType

LEMMA SetType ==
  ASSUME NEW r \in Request, NEW ctx \in Context, NEW now \in Nat,
         r.key \in Key, r.val \in Data, r.ttl \in Nat \cup {None}
  PROVE  set(r, ctx, now) \in ResultType
<1> DEFINE expiry == IF r.ttl = None THEN None ELSE now + r.ttl
           d == [ctx.db EXCEPT ![r.key] = EntryOf(StringValue(r.val), expiry)]
           x == IF expiry = None THEN ctx.expiries
                                 ELSE ctx.expiries \cup {<<expiry, r.key>>}
<1>1. expiry \in Nat \cup {None}
  OBVIOUS
<1>2. EntryOf(StringValue(r.val), expiry) \in Entry
  BY <1>1 DEF EntryOf, StringValue, Entry, Value
<1>3. d \in DB
  BY <1>2 DEF DB, Context
<1>4. x \in Expiries
  BY <1>1 DEF Expiries, Context
<1>5. [ctx EXCEPT !.db = d, !.expiries = x] \in Context
  BY <1>3, <1>4 DEF Context
<1>6. ReplyOf(r, "ok") \in Reply
  BY ReplyOfType DEF Tag
<1>7. set(r, ctx, now) = Ok([ctx EXCEPT !.db = d, !.expiries = x], ReplyOf(r, "ok"))
  BY DEF set, Context
<1> QED  BY <1>5, <1>6, <1>7, OkType

LEMMA GetType ==
  ASSUME NEW r \in Request, NEW ctx \in Context, NEW now \in Nat, r.key \in Key
  PROVE  get(r, ctx, now) \in ResultType
<1> DEFINE entry == ctx.db[r.key]
<1>1. ReplyOf(r, "nil") \in Reply
  BY ReplyOfType DEF Tag
<1>2. CASE entry = Absent
  BY <1>1, <1>2, OkType DEF get
<1>3. CASE entry # Absent /\ Expired(entry, now)
  <2>1. [ctx.db EXCEPT ![r.key] = Absent] \in DB
    BY DEF DB, Context
  <2>2. [ctx EXCEPT !.db = [ctx.db EXCEPT ![r.key] = Absent]] \in Context
    BY <2>1, ContextDB
  <2>3. get(r, ctx, now) =
          Ok([ctx EXCEPT !.db = [ctx.db EXCEPT ![r.key] = Absent]], ReplyOf(r, "nil"))
    BY <1>3 DEF get, Context
  <2> QED  BY <1>1, <2>2, <2>3, OkType
<1>4. CASE entry # Absent /\ ~Expired(entry, now)
  <2>1. entry.value \in Value
    BY <1>4, EntryType DEF Context, Present, Entry
  <2>2. CASE entry.value.type = "string"
    <3>1. <<entry.value.data>> \in Seq(Data)
      BY <2>1, <2>2 DEF Value
    <3>2. BodyReply(r, <<entry.value.data>>) \in Reply
      BY <3>1, BodyReplyType
    <3>3. get(r, ctx, now) = Ok(ctx, BodyReply(r, <<entry.value.data>>))
      BY <1>4, <2>2 DEF get
    <3> QED  BY <3>2, <3>3, OkType
  <2>3. CASE entry.value.type # "string"
    <3>1. get(r, ctx, now) = WrongType(r, ctx)
      BY <1>4, <2>3 DEF get
    <3> QED  BY <3>1, WrongTypeType
  <2> QED  BY <2>2, <2>3
<1> QED  BY <1>2, <1>3, <1>4

\* A push succeeds, leaves at least one element at its key, and leaves the
\* other keys and the rest of the context alone.
LEMMA ReversedType ==
  ASSUME NEW s \in Seq(Data)
  PROVE  Reversed(s) \in Seq(Data) /\ Len(Reversed(s)) = Len(s)
<1>1. Len(s) \in Nat /\ \A i \in 1..Len(s) : s[Len(s) + 1 - i] \in Data
  BY LenProperties, ElementOfSeq
<1>2. Reversed(s) \in [1..Len(s) -> Data]
  BY <1>1 DEF Reversed
<1> QED  BY <1>1, <1>2, SeqDef

PushResult(r, ctx, s) ==
  Ok([ctx EXCEPT !.db = Pushed(ctx.db, r.key, s)], NumReply(r, Len(s)))

LEMMA PushShape ==
  ASSUME NEW r \in Request, NEW ctx \in Context, r.key \in Key,
         r.vals \in Seq(Data) \ {<< >>}
  PROVE  /\ \E s \in Seq(Data) \ {<< >>} : rpush(r, ctx) = PushResult(r, ctx, s)
         /\ \E s \in Seq(Data) \ {<< >>} : lpush(r, ctx) = PushResult(r, ctx, s)
<1> DEFINE old == Items(ctx.db, r.key)
<1>1. old \in Seq(Data)
  BY ItemsType DEF Context
<1>2. /\ Reversed(r.vals) \in Seq(Data)
      /\ Len(Reversed(r.vals)) = Len(r.vals)
  BY ReversedType
<1>3. Len(r.vals) \in Nat \ {0}
  BY EmptySeq
<1> HIDE DEF old
<1>4. /\ old \o r.vals \in Seq(Data) \ {<< >>}
      /\ Reversed(r.vals) \o old \in Seq(Data) \ {<< >>}
  BY <1>1, <1>2, <1>3, ConcatProperties, ConcatEqualIffEmpty, EmptySeq
<1>5. rpush(r, ctx) = PushResult(r, ctx, old \o r.vals)
  BY DEF rpush, PushResult, old, Context
<1>6. lpush(r, ctx) = PushResult(r, ctx, Reversed(r.vals) \o old)
  BY DEF lpush, PushResult, old, Context
<1> QED  BY <1>4, <1>5, <1>6

LEMMA PushResultType ==
  ASSUME NEW r \in Request, NEW ctx \in Context, r.key \in Key, NEW s \in Seq(Data)
  PROVE  PushResult(r, ctx, s) \in ResultType
<1>1. Pushed(ctx.db, r.key, s) \in DB
  BY PushedType DEF Context
<1>2. NumReply(r, Len(s)) \in Reply
  BY NumReplyType, LenProperties
<1> QED  BY <1>1, <1>2, ContextDB, OkType DEF PushResult

LEMMA LlenType ==
  ASSUME NEW r \in Request, NEW ctx \in Context, r.key \in Key
  PROVE  llen(r, ctx) \in ResultType
<1>1. NumReply(r, Len(Items(ctx.db, r.key))) \in Reply
  BY ItemsType, NumReplyType, LenProperties DEF Context
<1> QED  BY <1>1, OkType, WrongTypeType DEF llen

LEMMA SubSeqType ==
  ASSUME NEW S, NEW s \in Seq(S), NEW m \in Nat \ {0}, NEW n \in Int, n <= Len(s)
  PROVE  SubSeq(s, m, n) \in Seq(S)
<1>1. Len(s) \in Nat /\ \A i \in m..n : s[i] \in S
  BY LenProperties, ElementOfSeq
<1> QED  BY <1>1, SubSeqProperties

LEMMA LrangeSliceType ==
  ASSUME NEW s \in Seq(Data), NEW start \in Int, NEW stop \in Int
  PROVE  lrange_slice(s, start, stop) \in Seq(Data)
<1> DEFINE len  == Len(s)
           from == IF start < 0 THEN len + start ELSE start
           to   == IF stop < 0 THEN len + stop ELSE stop
           lo   == IF from < 0 THEN 0 ELSE from
           hi   == IF to >= len THEN len - 1 ELSE to
<1>1. len \in Nat
  BY LenProperties
<1>2. lo \in Nat /\ hi \in Int /\ hi + 1 <= len
  BY <1>1
<1>3. lrange_slice(s, start, stop) =
        IF lo > hi \/ lo >= len THEN << >> ELSE SubSeq(s, lo + 1, hi + 1)
  BY DEF lrange_slice
<1> HIDE DEF lo, hi
<1>4. SubSeq(s, lo + 1, hi + 1) \in Seq(Data)
  BY <1>2, SubSeqType
<1> QED  BY <1>3, <1>4, EmptySeq

LEMMA LrangeType ==
  ASSUME NEW r \in Request, NEW ctx \in Context, r.key \in Key,
         r.start \in Int, r.stop \in Int
  PROVE  lrange(r, ctx) \in ResultType
<1> DEFINE slice == lrange_slice(Items(ctx.db, r.key), r.start, r.stop)
<1>1. slice \in Seq(Data)
  BY ItemsType, LrangeSliceType DEF Context
<1>2. BodyReply(r, slice) \in Reply
  BY <1>1, BodyReplyType
<1> QED  BY <1>2, OkType, WrongTypeType DEF lrange

LEMMA LpopType ==
  ASSUME NEW r \in Request, NEW ctx \in Context, r.key \in Key, r.count \in Nat
  PROVE  lpop(r, ctx) \in ResultType
<1> DEFINE s == Items(ctx.db, r.key)
           n == IF r.count < Len(s) THEN r.count ELSE Len(s)
           rest == SubSeq(s, n + 1, Len(s))
           body == SubSeq(s, 1, n)
           tag == IF r.count = 1 THEN "bulk" ELSE "array"
<1>1. s \in Seq(Data) /\ Len(s) \in Nat
  BY ItemsType, LenProperties DEF Context
<1>2. n \in Nat /\ n <= Len(s)
  BY <1>1
<1>3. rest \in Seq(Data) /\ body \in Seq(Data)
  <2> HIDE DEF n, s
  <2> QED  BY <1>1, <1>2, SubSeqType
<1>4. ReplyOf(r, "nil") \in Reply
  BY ReplyOfType DEF Tag
<1>5. [BodyReply(r, body) EXCEPT !.tag = tag] \in Reply
  <2>1. BodyReply(r, body) \in Reply
    BY <1>3, BodyReplyType
  <2>2. tag \in Tag
    BY DEF Tag
  <2> QED  BY <2>1, <2>2 DEF Reply
<1>6. CASE Present(ctx.db, r.key) /\ ~IsList(ctx.db, r.key)
  <2>1. lpop(r, ctx) = WrongType(r, ctx)
    BY <1>6, EmptySeq DEF lpop, Items
  <2> QED  BY <2>1, WrongTypeType
<1>7. CASE ~Present(ctx.db, r.key)
  <2>1. lpop(r, ctx) = Ok(ctx, ReplyOf(r, "nil"))
    BY <1>7 DEF lpop, Items, IsList
  <2> QED  BY <2>1, <1>4, OkType
<1>8. CASE IsList(ctx.db, r.key) /\ s = << >>
  <2>1. lpop(r, ctx) = Ok(ctx, ReplyOf(r, "nil"))
    BY <1>8 DEF lpop, IsList
  <2> QED  BY <2>1, <1>4, OkType
<1>9. CASE IsList(ctx.db, r.key) /\ s # << >>
  <2>1. WithItems(ctx.db, r.key, rest) \in DB
    BY <1>3, <1>9, WithItemsType DEF Context
  <2>2. [ctx EXCEPT !.db = WithItems(ctx.db, r.key, rest)] \in Context
    BY <2>1, ContextDB
  <2>3. lpop(r, ctx) = Ok([ctx EXCEPT !.db = WithItems(ctx.db, r.key, rest)],
                          [BodyReply(r, body) EXCEPT !.tag = tag])
    BY <1>9 DEF lpop, IsList, Context
  <2> QED  BY <1>5, <2>2, <2>3, OkType
<1> QED  BY <1>6, <1>7, <1>8, <1>9

LEMMA PopReplyType ==
  ASSUME NEW k \in Key, NEW v \in Data
  PROVE  PopReply(k, v) \in Reply
<1>1. <<v>> \in Seq(Data)
  OBVIOUS
<1> QED  BY <1>1 DEF PopReply, Reply, Cmd, Tag

LEMMA BlpopType ==
  ASSUME NEW r \in Request, NEW ctx \in Context, r.key \in Key
  PROVE  blpop(r, ctx) \in ResultType
<1> DEFINE s == Items(ctx.db, r.key)
<1>1. s \in Seq(Data)
  BY ItemsType DEF Context
<1>2. CASE s # << >>
  <2>1. Head(s) \in Data /\ Tail(s) \in Seq(Data)
    BY <1>1, <1>2, HeadTailProperties
  <2>2. IsList(ctx.db, r.key)
    BY <1>2 DEF Items
  <2>3. [ctx EXCEPT !.db = WithItems(ctx.db, r.key, Tail(s))] \in Context
    BY <2>1, <2>2, WithItemsType, ContextDB DEF Context
  <2>4. PopReply(r.key, Head(s)) \in Reply
    BY <2>1, PopReplyType
  <2>5. blpop(r, ctx) = Ok([ctx EXCEPT !.db = WithItems(ctx.db, r.key, Tail(s))],
                           PopReply(r.key, Head(s)))
    BY <1>2 DEF blpop, Context
  <2> QED  BY <2>3, <2>4, <2>5, OkType
<1>3. CASE s = << >>
  <2>1. ReplyOf(r, "block") \in Reply
    BY ReplyOfType DEF Tag
  <2>2. blpop(r, ctx) = Result(ctx, "block", ReplyOf(r, "block"))
    BY <1>3 DEF blpop
  <2> QED  BY <2>1, <2>2, EmptySeq DEF Result, ResultType
<1> QED  BY <1>2, <1>3

LEMMA SubscribeType ==
  ASSUME NEW r \in Request, NEW ctx \in Context, r.channel \in Channel
  PROVE  subscribe(r, ctx) \in ResultType
<1> DEFINE subs == Append(ctx.subscriptions, r.channel)
           ps == [ctx.pubsub EXCEPT ![r.channel] = Append(@, ctx.token)]
           ctx2 == [ctx EXCEPT !.subscriptions = subs, !.is_pubsub = TRUE,
                               !.pubsub = ps]
           n == Len(ctx.subscriptions) + 1
<1>1. subs \in Seq(Channel) /\ n \in Nat
  BY AppendProperties, LenProperties DEF Context
<1>2. ps \in PubSub
  BY AppendProperties DEF Context, PubSub
<1>3. ctx2 \in Context
  BY <1>1, <1>2 DEF Context
<1>4. [NumReply(r, n) EXCEPT !.about = r.channel] \in Reply
  BY <1>1, NumReplyType DEF Reply
<1>5. subscribe(r, ctx) = Ok(ctx2, [NumReply(r, n) EXCEPT !.about = r.channel])
  BY DEF subscribe, Context
<1> QED  BY <1>3, <1>4, <1>5, OkType

\* A set of positions that is not empty has a first one.
LEMMA FirstOf ==
  ASSUME NEW T \in SUBSET Nat, T # {}
  PROVE  First(T) \in T /\ \A j \in T : First(T) <= j
BY SmallestOf DEF First

LEMMA WithoutType ==
  ASSUME NEW S, NEW s \in Seq(S), NEW e
  PROVE  Without(s, e) \in Seq(S)
<1> DEFINE at == {i \in 1..Len(s) : s[i] = e}
           p  == First(at)
<1>1. CASE at = {}
  BY <1>1 DEF Without
<1>2. CASE at # {}
  <2>1. Len(s) \in Nat
    BY LenProperties
  <2>2. at \subseteq Nat
    BY <2>1
  <2>3. p \in at
    BY <1>2, <2>2, FirstOf
  <2>4. p \in 1..Len(s)
    BY <2>3
  <2> HIDE DEF p
  <2>5. SubSeq(s, 1, p - 1) \in Seq(S) /\ SubSeq(s, p + 1, Len(s)) \in Seq(S)
    BY <2>1, <2>4, SubSeqType
  <2>6. SubSeq(s, 1, p - 1) \o SubSeq(s, p + 1, Len(s)) \in Seq(S)
    BY <2>5, ConcatProperties
  <2> QED  BY <1>2, <2>6 DEF Without, p
<1> QED  BY <1>1, <1>2

LEMMA UnsubscribeType ==
  ASSUME NEW r \in Request, NEW ctx \in Context, r.channel \in Channel
  PROVE  unsubscribe(r, ctx) \in ResultType
<1> DEFINE subs == Without(ctx.subscriptions, r.channel)
           reg == IF Has(ctx.subscriptions, r.channel)
                  THEN Without(ctx.pubsub[r.channel], ctx.token)
                  ELSE ctx.pubsub[r.channel]
           ps == [ctx.pubsub EXCEPT ![r.channel] = reg]
           ctx2 == [ctx EXCEPT !.subscriptions = subs, !.pubsub = ps]
           reply == [NumReply(r, Len(subs)) EXCEPT !.about = r.channel]
<1>1. CASE ~ctx.is_pubsub
  <2>1. ReplyOf(r, "open") \in Reply
    BY ReplyOfType DEF Tag
  <2> QED  BY <1>1, <2>1, OkType DEF unsubscribe
<1>2. CASE ctx.is_pubsub
  <2>1. subs \in Seq(Channel) /\ Len(subs) \in Nat
    BY WithoutType, LenProperties DEF Context
  <2>2. reg \in Seq(Token)
    BY WithoutType DEF Context, PubSub
  <2> HIDE DEF subs, reg
  <2>3. ps \in PubSub
    BY <2>2 DEF Context, PubSub
  <2>4. ctx2 \in Context
    BY <2>1, <2>3 DEF Context
  <2>5. reply \in Reply
    BY <2>1, NumReplyType DEF Reply
  <2>6. unsubscribe(r, ctx) = Ok(ctx2, reply)
    BY <1>2 DEF unsubscribe, Context, subs, reg
  <2> QED  BY <2>4, <2>5, <2>6, OkType
<1> QED  BY <1>1, <1>2

LEMMA PublishType ==
  ASSUME NEW r \in Request, NEW ctx \in Context, r.channel \in Channel,
         r.message \in Data
  PROVE  publish(r, ctx) \in ResultType
<1> DEFINE reply == NumReply(r, Len(ctx.pubsub[r.channel]))
           p == [channel |-> r.channel, message |-> r.message]
<1>1. reply \in Reply
  BY NumReplyType, LenProperties DEF Context, PubSub
<1>2. <<p>> \in Seq(Publication)
  BY DEF Publication
<1>3. Ok(ctx, reply) \in ResultType
  BY <1>1, OkType
<1> HIDE DEF reply
<1> QED  BY <1>2, <1>3 DEF publish, ResultType, reply

LEMMA StreamAtType ==
  ASSUME NEW db \in DB, NEW k \in Key
  PROVE  StreamAt(db, k) \in Stream
<1>1. CASE IsStream(db, k)
  <2>1. db[k].value \in Value
    BY <1>1, EntryType DEF IsStream, Entry
  <2>2. \A v \in Value : v.type = "stream" => v.data \in Stream
    BY DEF Value
  <2> QED  BY <1>1, <2>1, <2>2 DEF IsStream, StreamAt
<1>2. CASE ~IsStream(db, k)
  BY <1>2, NewStreamType DEF StreamAt
<1> QED  BY <1>1, <1>2

\* The entry that XADD leaves under its key.
StreamEntryAt(db, k, s) ==
  EntryOf(StreamValue(s), IF IsStream(db, k) THEN db[k].expiry ELSE None)

LEMMA WithStreamType ==
  ASSUME NEW db \in DB, NEW k \in Key, NEW s \in Stream
  PROVE  /\ StreamEntryAt(db, k, s) \in Entry
         /\ StreamEntryAt(db, k, s).value = StreamValue(s)
         /\ StreamEntryAt(db, k, s).expiry # None =>
              IsStream(db, k) /\ StreamEntryAt(db, k, s).expiry = db[k].expiry
         /\ WithStream(db, k, s) \in DB
         /\ WithStream(db, k, s)[k] = StreamEntryAt(db, k, s)
         /\ \A j \in Key \ {k} : WithStream(db, k, s)[j] = db[j]
<1> DEFINE exp == IF IsStream(db, k) THEN db[k].expiry ELSE None
           e   == EntryOf(StreamValue(s), exp)
<1>1. exp \in Nat \cup {None}
  BY EntryType DEF IsStream, Entry
<1>2. exp # None => IsStream(db, k) /\ exp = db[k].expiry
  OBVIOUS
<1> HIDE DEF exp
<1>3. StreamValue(s) \in Value
  BY DEF StreamValue, Value
<1>4. e \in Entry /\ e.value = StreamValue(s) /\ e.expiry = exp
  BY <1>1, <1>3 DEF EntryOf, Entry
<1> HIDE DEF e
<1>5. StreamEntryAt(db, k, s) = e
  BY DEF StreamEntryAt, e, exp
<1>6. WithStream(db, k, s) = [db EXCEPT ![k] = e]
  BY DEF WithStream, e, exp
<1>7. /\ [db EXCEPT ![k] = e] \in DB /\ [db EXCEPT ![k] = e][k] = e
      /\ \A j \in Key \ {k} : [db EXCEPT ![k] = e][j] = db[j]
  BY <1>4 DEF DB
<1> QED  BY <1>2, <1>4, <1>5, <1>6, <1>7

\* XADD reports an error and changes nothing, or adds a newer entry.
XaddResult(r, ctx, id) ==
  Ok([ctx EXCEPT !.db = WithStream(ctx.db, r.key, add(StreamAt(ctx.db, r.key), id, r.fields))],
     ReplyOf(r, "bulk"))

\* The ID that the text of r stands for in the stream s.
Given(r, s, id) ==
  /\ ~IsZeroText(r.id)
  /\ id = parse(r.id, IF s.last_id = None THEN ZeroID ELSE s.last_id).id

LEMMA XaddShape ==
  ASSUME NEW r \in Request, NEW ctx \in Context, r.key \in Key, r.id \in IDText
  PROVE  \/ \E tag \in Tag : xadd(r, ctx) = Err(ctx, ReplyOf(r, tag))
         \/ \E id \in StreamID : /\ Given(r, StreamAt(ctx.db, r.key), id)
                                 /\ IsNewer(StreamAt(ctx.db, r.key), id)
                                 /\ xadd(r, ctx) = XaddResult(r, ctx, id)
<1> DEFINE s    == StreamAt(ctx.db, r.key)
           last == IF s.last_id = None THEN ZeroID ELSE s.last_id
           p    == parse(r.id, last)
<1>1. s \in Stream
  BY StreamAtType DEF Context
<1>2. ZeroID \in StreamID
  BY StreamsAssumption DEF ZeroID, StreamID, Word
<1>3. last \in StreamID
  BY <1>1, <1>2 DEF Stream
<1> HIDE DEF last, s
<1>4. \/ p.error = None /\ p.id \in StreamID
      \/ p.error \in {"error", "open"}
  BY <1>3, ParseType
<1>5. CASE IsZeroText(r.id)
  <2>1. xadd(r, ctx) = Err(ctx, ReplyOf(r, "error"))
    BY <1>5 DEF xadd
  <2> QED  BY <2>1 DEF Tag
<1>6. CASE ~IsZeroText(r.id) /\ Len(r.fields) % 2 # 0
  <2>1. xadd(r, ctx) = Err(ctx, ReplyOf(r, "open"))
    BY <1>6 DEF xadd
  <2> QED  BY <2>1 DEF Tag
<1>7. CASE ~IsZeroText(r.id) /\ Len(r.fields) % 2 = 0
  <2>1. xadd(r, ctx) = IF p.error # None THEN Err(ctx, ReplyOf(r, p.error))
                       ELSE IF ~IsNewer(s, p.id) THEN Err(ctx, ReplyOf(r, "error"))
                       ELSE XaddResult(r, ctx, p.id)
    BY <1>7 DEF xadd, XaddResult, s, last, Context
  <2> HIDE DEF p
  <2>2. CASE p.error # None
    <3>1. p.error \in Tag /\ xadd(r, ctx) = Err(ctx, ReplyOf(r, p.error))
      BY <1>4, <2>1, <2>2 DEF Tag
    <3> QED  BY <3>1
  <2>3. CASE p.error = None /\ ~IsNewer(s, p.id)
    <3>1. xadd(r, ctx) = Err(ctx, ReplyOf(r, "error"))
      BY <2>1, <2>3
    <3> QED  BY <3>1 DEF Tag
  <2>4. CASE p.error = None /\ IsNewer(s, p.id)
    <3>1. p.id \in StreamID \/ p.error \in {"error", "open"}
      BY <1>4
    <3>2. p.error \notin {"error", "open"}
      BY <2>4, StreamsAssumption
    <3>3. Given(r, s, p.id)
      BY <1>7 DEF Given, p, last
    <3> QED  BY <2>1, <2>4, <3>1, <3>2, <3>3 DEF s
  <2> QED  BY <2>2, <2>3, <2>4
<1> QED  BY <1>5, <1>6, <1>7

LEMMA XaddResultType ==
  ASSUME NEW r \in Request, NEW ctx \in Context, r.key \in Key,
         r.fields \in Seq(Data), NEW id \in StreamID
  PROVE  XaddResult(r, ctx, id) \in ResultType
<1> DEFINE s == add(StreamAt(ctx.db, r.key), id, r.fields)
<1>1. s \in Stream
  BY StreamAtType, AddType DEF Context
<1> HIDE DEF s
<1>2. WithStream(ctx.db, r.key, s) \in DB
  BY <1>1, WithStreamType DEF Context
<1>3. ReplyOf(r, "bulk") \in Reply
  BY ReplyOfType DEF Tag
<1> QED  BY <1>2, <1>3, ContextDB, OkType DEF XaddResult, s

-----------------------------------------------------------------------------
(* The dispatch.                                                           *)

LEMMA RequestFields ==
  ASSUME NEW r \in Request
  PROVE  /\ r.cmd \in Cmd \ {"message"}
         /\ r.cmd \in {"GET", "TYPE", "LLEN", "SET", "RPUSH", "LPUSH", "LPOP", "LRANGE",
                       "BLPOP", "XADD"} => r.key \in Key
         /\ r.cmd = "SET" => r.val \in Data /\ r.ttl \in Nat \cup {None}
         /\ r.cmd \in {"RPUSH", "LPUSH"} => r.vals \in Seq(Data) \ {<< >>}
         /\ r.cmd = "LPOP" => r.count \in Nat
         /\ r.cmd = "LRANGE" => r.start \in Int /\ r.stop \in Int
         /\ r.cmd = "BLPOP" => r.timeout \in Nat
         /\ r.cmd = "XADD" => r.id \in IDText /\ r.fields \in Seq(Data)
         /\ r.cmd \in {"SUBSCRIBE", "UNSUBSCRIBE", "PUBLISH"} => r.channel \in Channel
         /\ r.cmd = "PUBLISH" => r.message \in Data
         /\ r.cmd = "MISSING" => r.tag \in {"open", "error"}
BY DEF Request, Cmd

\* The result of Execute is that of the command's handler, or an error that
\* leaves the context alone (command_handler!, the command table).
LEMMA ExecuteCases ==
  ASSUME NEW r \in Request, NEW ctx \in Context, NEW now \in Nat, r.cmd # "INLINE"
  PROVE  \/ \E tag \in Tag : Execute(r, ctx, now) = Err(ctx, ReplyOf(r, tag))
         \/ r.cmd = "PING" /\ Execute(r, ctx, now) = ping(r, ctx)
         \/ r.cmd = "ECHO" /\ Execute(r, ctx, now) = echo(r, ctx)
         \/ r.cmd = "TYPE" /\ Execute(r, ctx, now) = typee(r, ctx)
         \/ r.cmd = "SET" /\ Execute(r, ctx, now) = set(r, ctx, now)
         \/ r.cmd = "GET" /\ Execute(r, ctx, now) = get(r, ctx, now)
         \/ r.cmd = "RPUSH" /\ Execute(r, ctx, now) = rpush(r, ctx)
         \/ r.cmd = "LPUSH" /\ Execute(r, ctx, now) = lpush(r, ctx)
         \/ r.cmd = "LLEN" /\ Execute(r, ctx, now) = llen(r, ctx)
         \/ r.cmd = "LRANGE" /\ Execute(r, ctx, now) = lrange(r, ctx)
         \/ r.cmd = "LPOP" /\ Execute(r, ctx, now) = lpop(r, ctx)
         \/ r.cmd = "BLPOP" /\ Execute(r, ctx, now) = blpop(r, ctx)
         \/ r.cmd = "XADD" /\ Execute(r, ctx, now) = xadd(r, ctx)
         \/ r.cmd = "SUBSCRIBE" /\ Execute(r, ctx, now) = subscribe(r, ctx)
         \/ r.cmd = "UNSUBSCRIBE" /\ Execute(r, ctx, now) = unsubscribe(r, ctx)
         \/ r.cmd = "PUBLISH" /\ Execute(r, ctx, now) = publish(r, ctx)
<1>1. r.cmd \in Cmd \ {"message", "INLINE"}
  BY RequestFields
<1>2. CASE r.cmd = "UNKNOWN"
  BY <1>2 DEF Execute, Tag
<1>3. CASE r.cmd # "UNKNOWN" /\ ctx.is_pubsub /\ r.cmd \notin PUBSUB_HANDLER
  BY <1>3 DEF Execute, Tag
<1>4. CASE r.cmd = "MISSING" /\ ~ctx.is_pubsub
  <2>1. r.tag \in Tag
    BY <1>4, RequestFields DEF Tag
  <2>2. Execute(r, ctx, now) = Err(ctx, ReplyOf(r, r.tag))
    BY <1>4 DEF Execute
  <2> QED  BY <2>1, <2>2
<1>5. CASE /\ r.cmd # "UNKNOWN" /\ r.cmd # "MISSING"
           /\ ~(ctx.is_pubsub /\ r.cmd \notin PUBSUB_HANDLER)
  BY <1>1, <1>5 DEF Execute, Cmd
<1> QED  BY <1>2, <1>3, <1>4, <1>5 DEF PUBSUB_HANDLER

\* Whatever the request, the handlers keep the context well formed.
THEOREM ExecuteType ==
  ASSUME NEW r \in Request, NEW ctx \in Context, NEW now \in Nat, r.cmd # "INLINE"
  PROVE  Execute(r, ctx, now) \in ResultType
<1>1. \A tag \in Tag : Err(ctx, ReplyOf(r, tag)) \in ResultType
  BY ReplyOfType, OkType
<1>2. r.cmd = "XADD" => xadd(r, ctx) \in ResultType
  BY <1>1, RequestFields, XaddShape, XaddResultType
<1> QED
  BY <1>1, <1>2, ExecuteCases, RequestFields, PingType, TypeeType, SetType, GetType,
     PushShape, PushResultType, LlenType, LrangeType, LpopType, BlpopType, SubscribeType,
     UnsubscribeType, PublishType

-----------------------------------------------------------------------------
(* What a command may do to the keyspace and the expiry heap.              *)

\* The expiries of a keyspace are all in a heap; lists and streams have none.
Scheduled(db, heap) == \A k \in Key : db[k].expiry # None => <<db[k].expiry, k>> \in heap
StringsOnly(db) ==
  \A k \in Key : IsList(db, k) \/ IsStream(db, k) => db[k].expiry = None

\* A string is set, with an expiry that is scheduled.
StringStep(r, e, heap, k, now) ==
  /\ e \in Entry /\ e.value.type = "string"
  /\ \/ e.expiry = None
     \/ r.cmd = "SET" /\ r.ttl \in Nat /\ e.expiry = now + r.ttl /\ <<e.expiry, k>> \in heap

\* A list is left, with the expiry of the list that was there.
ListStep(old, e, k) ==
  /\ e \in Entry /\ e.value.type = "list"
  /\ e.expiry # None => IsList(old, k) /\ e.expiry = old[k].expiry

\* A stream is left that has one newer entry, with the expiry of the stream before.
StreamStep(r, old, e, k) ==
  /\ r.cmd = "XADD"
  /\ e \in Entry /\ e.value.type = "stream"
  /\ e.expiry # None => IsStream(old, k) /\ e.expiry = old[k].expiry
  /\ \E id \in StreamID, fields \in Seq(Data) :
       /\ Given(r, StreamAt(old, k), id) /\ IsNewer(StreamAt(old, k), id)
       /\ e.value.data = add(StreamAt(old, k), id, fields)

\* A key is left alone; the key of the request may also be removed because it has
\* expired, or be written.
KeyStep(r, old, new, heap, k, now) ==
  \/ new[k] = old[k]
  \/ /\ r.key = k
     /\ \/ new[k] = Absent /\ Expired(old[k], now)
        \/ StringStep(r, new[k], heap, k, now)
        \/ ListStep(old, new[k], k)
        \/ StreamStep(r, old, new[k], k)

StoreStep(r, old, new, heap, heap2, now) ==
  heap \subseteq heap2 /\ \A k \in Key : KeyStep(r, old, new, heap2, k, now)

LEMMA WithItemsStep ==
  ASSUME NEW db \in DB, NEW k \in Key, NEW s \in Seq(Data), IsList(db, k),
         NEW r, r.key = k
  PROVE  \A heap, now : StoreStep(r, db, WithItems(db, k, s), heap, heap, now)
<1>1. db[k] \in Entry
  BY EntryType DEF IsList
<1>2. WithItems(db, k, s)[k] \in Entry
  BY WithItemsType, <1>1 DEF WithItems, DB, Entry, ListValue, Value
<1>3. /\ WithItems(db, k, s)[k].value.type = "list"
      /\ WithItems(db, k, s)[k].expiry = db[k].expiry
  BY <1>1 DEF WithItems, DB, Entry, ListValue
<1>4. \A j \in Key \ {k} : WithItems(db, k, s)[j] = db[j]
  BY DEF WithItems, DB
<1> QED  BY <1>2, <1>3, <1>4 DEF StoreStep, KeyStep, ListStep

LEMMA PushedStep ==
  ASSUME NEW db \in DB, NEW k \in Key, NEW s \in Seq(Data), NEW r, r.key = k
  PROVE  \A heap, now : StoreStep(r, db, Pushed(db, k, s), heap, heap, now)
<1>1. CASE IsList(db, k)
  BY <1>1, WithItemsStep DEF Pushed
<1>2. CASE ~IsList(db, k)
  <2>1. EntryOf(ListValue(s), None) \in Entry
    BY DEF EntryOf, ListValue, Entry, Value
  <2>2. /\ Pushed(db, k, s)[k] = EntryOf(ListValue(s), None)
        /\ \A j \in Key \ {k} : Pushed(db, k, s)[j] = db[j]
    BY <1>2 DEF Pushed, DB
  <2>3. /\ EntryOf(ListValue(s), None).value.type = "list"
        /\ EntryOf(ListValue(s), None).expiry = None
    BY DEF EntryOf, ListValue
  <2> QED  BY <2>1, <2>2, <2>3 DEF StoreStep, KeyStep, ListStep
<1> QED  BY <1>1, <1>2

\* Popping from the list that a push left is part of one step.
LEMMA PushThenPop ==
  ASSUME NEW r, NEW old, NEW mid, NEW heap, NEW heap2, NEW now, r.key \in Key,
         StoreStep(r, old, mid, heap, heap2, now), mid \in DB, IsList(mid, r.key),
         NEW s \in Seq(Data)
  PROVE  StoreStep(r, old, WithItems(mid, r.key, s), heap, heap2, now)
<1> DEFINE k   == r.key
           new == WithItems(mid, k, s)
<1>1. mid[k] \in Entry /\ mid[k].value.type = "list"
  BY EntryType DEF IsList
<1>2. /\ new[k] \in Entry /\ new[k].value.type = "list" /\ new[k].expiry = mid[k].expiry
      /\ \A j \in Key \ {k} : new[j] = mid[j]
  BY <1>1, WithItemsType DEF WithItems, DB, Entry, ListValue, Value
<1>3. mid[k].expiry # None => IsList(old, k) /\ mid[k].expiry = old[k].expiry
  <2>1. KeyStep(r, old, mid, heap2, k, now)
    BY DEF StoreStep
  <2>2. mid[k] # Absent
    BY DEF IsList, Present
  <2> QED  BY <1>1, <2>1, <2>2
           DEF KeyStep, StringStep, ListStep, StreamStep, IsList, Present
<1> HIDE DEF new, k
<1>4. KeyStep(r, old, new, heap2, k, now)
  BY <1>2, <1>3 DEF KeyStep, ListStep, k
<1>5. \A j \in Key \ {k} : KeyStep(r, old, new, heap2, j, now)
  BY <1>2 DEF KeyStep, StoreStep, k
<1> QED  BY <1>4, <1>5 DEF StoreStep, new, k

LEMMA SameStore ==
  ASSUME NEW r, NEW db, NEW heap, NEW now
  PROVE  StoreStep(r, db, db, heap, heap, now)
BY DEF StoreStep, KeyStep

LEMMA SetStep ==
  ASSUME NEW r \in Request, NEW ctx \in Context, NEW now \in Nat,
         r.cmd = "SET", r.key \in Key, r.val \in Data, r.ttl \in Nat \cup {None}
  PROVE  LET c == set(r, ctx, now).ctx
         IN  StoreStep(r, ctx.db, c.db, ctx.expiries, c.expiries, now)
<1> DEFINE expiry == IF r.ttl = None THEN None ELSE now + r.ttl
           e == EntryOf(StringValue(r.val), expiry)
           c == set(r, ctx, now).ctx
<1>1. expiry \in Nat \cup {None}
  OBVIOUS
<1>2. /\ c.db = [ctx.db EXCEPT ![r.key] = e]
      /\ c.expiries = IF expiry = None THEN ctx.expiries
                      ELSE ctx.expiries \cup {<<expiry, r.key>>}
  BY DEF set, Ok, Result, Context
<1>3. e \in Entry /\ e.value.type = "string" /\ e.expiry = expiry
  BY <1>1 DEF EntryOf, StringValue, Entry, Value
<1> HIDE DEF e, c, expiry
<1>4. c.db[r.key] = e /\ \A k \in Key \ {r.key} : c.db[k] = ctx.db[k]
  BY <1>2 DEF DB, Context
<1>5. ctx.expiries \subseteq c.expiries /\ (expiry = None \/ <<expiry, r.key>> \in c.expiries)
  BY <1>2
<1>6. StringStep(r, e, c.expiries, r.key, now)
  BY <1>3, <1>5 DEF StringStep, expiry
<1>7. StoreStep(r, ctx.db, c.db, ctx.expiries, c.expiries, now)
  BY <1>4, <1>5, <1>6 DEF StoreStep, KeyStep
<1> QED  BY <1>7 DEF c

LEMMA GetStep ==
  ASSUME NEW r \in Request, NEW ctx \in Context, NEW now \in Nat, r.key \in Key
  PROVE  LET c == get(r, ctx, now).ctx
         IN  StoreStep(r, ctx.db, c.db, ctx.expiries, c.expiries, now)
<1> DEFINE c == get(r, ctx, now).ctx
<1>1. CASE ctx.db[r.key] # Absent /\ Expired(ctx.db[r.key], now)
  <2>1. /\ c.db = [ctx.db EXCEPT ![r.key] = Absent]
        /\ c.expiries = ctx.expiries
    BY <1>1 DEF get, Ok, Result, Context
  <2>2. c.db[r.key] = Absent /\ \A k \in Key \ {r.key} : c.db[k] = ctx.db[k]
    BY <2>1 DEF DB, Context
  <2> QED  BY <1>1, <2>1, <2>2 DEF StoreStep, KeyStep
<1>2. CASE ~(ctx.db[r.key] # Absent /\ Expired(ctx.db[r.key], now))
  <2>1. c = ctx
    <3>1. CASE ctx.db[r.key] = Absent
      BY <3>1 DEF get, Ok, Result
    <3>2. CASE ctx.db[r.key] # Absent /\ ~Expired(ctx.db[r.key], now)
      <4>1. get(r, ctx, now) = IF ctx.db[r.key].value.type = "string"
                               THEN Ok(ctx, BodyReply(r, <<ctx.db[r.key].value.data>>))
                               ELSE WrongType(r, ctx)
        BY <3>2 DEF get
      <4> QED  BY <4>1 DEF Ok, Err, Result, WrongType
    <3> QED  BY <1>2, <3>1, <3>2
  <2> QED  BY <2>1, SameStore
<1> QED  BY <1>1, <1>2

LEMMA LpopStep ==
  ASSUME NEW r \in Request, NEW ctx \in Context, NEW now, r.key \in Key, r.count \in Nat
  PROVE  LET c == lpop(r, ctx).ctx
         IN  StoreStep(r, ctx.db, c.db, ctx.expiries, c.expiries, now)
<1> DEFINE c == lpop(r, ctx).ctx
           s == Items(ctx.db, r.key)
           n == IF r.count < Len(s) THEN r.count ELSE Len(s)
           rest == SubSeq(s, n + 1, Len(s))
<1>1. s \in Seq(Data) /\ Len(s) \in Nat
  BY ItemsType, LenProperties DEF Context
<1>2. rest \in Seq(Data)
  <2>1. n \in Nat /\ n <= Len(s)
    BY <1>1
  <2> HIDE DEF n, s
  <2> QED  BY <1>1, <2>1, SubSeqType
<1>3. CASE s # << >>
  <2>1. IsList(ctx.db, r.key)
    BY <1>3 DEF Items
  <2>2. c.db = WithItems(ctx.db, r.key, rest) /\ c.expiries = ctx.expiries
    BY <1>3, <2>1 DEF lpop, IsList, Ok, Result, Context
  <2> QED  BY <1>2, <2>1, <2>2, WithItemsStep DEF Context
<1>4. CASE s = << >>
  <2>1. \/ lpop(r, ctx) = WrongType(r, ctx)
        \/ lpop(r, ctx) = Ok(ctx, ReplyOf(r, "nil"))
    BY <1>4 DEF lpop, IsList
  <2>2. c = ctx
    BY <2>1 DEF WrongType, Ok, Err, Result
  <2> QED  BY <2>2, SameStore
<1> QED  BY <1>3, <1>4

LEMMA BlpopStep ==
  ASSUME NEW r \in Request, NEW ctx \in Context, NEW now, r.key \in Key
  PROVE  LET c == blpop(r, ctx).ctx
         IN  StoreStep(r, ctx.db, c.db, ctx.expiries, c.expiries, now)
<1> DEFINE c == blpop(r, ctx).ctx
           s == Items(ctx.db, r.key)
<1>1. s \in Seq(Data)
  BY ItemsType DEF Context
<1>2. CASE s # << >>
  <2>1. IsList(ctx.db, r.key) /\ Tail(s) \in Seq(Data)
    BY <1>1, <1>2, HeadTailProperties DEF Items
  <2>2. c.db = WithItems(ctx.db, r.key, Tail(s)) /\ c.expiries = ctx.expiries
    BY <1>2 DEF blpop, Ok, Result, Context
  <2> QED  BY <2>1, <2>2, WithItemsStep DEF Context
<1>3. CASE s = << >>
  <2>1. c = ctx
    BY <1>3 DEF blpop, Result
  <2> QED  BY <2>1, SameStore
<1> QED  BY <1>2, <1>3

LEMMA PushResultStep ==
  ASSUME NEW r \in Request, NEW ctx \in Context, NEW now, r.key \in Key,
         NEW s \in Seq(Data)
  PROVE  LET c == PushResult(r, ctx, s).ctx
         IN  StoreStep(r, ctx.db, c.db, ctx.expiries, c.expiries, now)
<1> DEFINE c == PushResult(r, ctx, s).ctx
<1>1. c.db = Pushed(ctx.db, r.key, s) /\ c.expiries = ctx.expiries
  BY DEF PushResult, Ok, Result, Context
<1> QED  BY <1>1, PushedStep DEF Context

LEMMA XaddStep ==
  ASSUME NEW r \in Request, NEW ctx \in Context, NEW now, r.key \in Key,
         r.fields \in Seq(Data), NEW id \in StreamID,
         r.cmd = "XADD", Given(r, StreamAt(ctx.db, r.key), id),
         IsNewer(StreamAt(ctx.db, r.key), id)
  PROVE  LET c == XaddResult(r, ctx, id).ctx
         IN  StoreStep(r, ctx.db, c.db, ctx.expiries, c.expiries, now)
<1> DEFINE c == XaddResult(r, ctx, id).ctx
           k == r.key
           s == add(StreamAt(ctx.db, k), id, r.fields)
           e == StreamEntryAt(ctx.db, k, s)
<1>1. s \in Stream
  BY StreamAtType, AddType DEF Context
<1>2. c.db = WithStream(ctx.db, k, s) /\ c.expiries = ctx.expiries
  BY DEF XaddResult, Ok, Result, Context
<1>3. ctx.db \in DB
  BY DEF Context
<1> HIDE DEF s, c
<1>4. /\ e \in Entry /\ e.value = StreamValue(s)
      /\ e.expiry # None => IsStream(ctx.db, k) /\ e.expiry = ctx.db[k].expiry
      /\ c.db[k] = e /\ \A j \in Key \ {k} : c.db[j] = ctx.db[j]
  BY <1>1, <1>2, <1>3, WithStreamType
<1>5. e.value.type = "stream" /\ e.value.data = s
  BY <1>4 DEF StreamValue
<1> HIDE DEF e
<1>6. StreamStep(r, ctx.db, e, k)
  BY <1>4, <1>5 DEF StreamStep, s
<1>7. StoreStep(r, ctx.db, c.db, ctx.expiries, c.expiries, now)
  BY <1>2, <1>4, <1>6 DEF StoreStep, KeyStep
<1> QED  BY <1>7 DEF c

\* The commands that answer without touching the keyspace.
LEMMA OtherStep ==
  ASSUME NEW r \in Request, NEW ctx \in Context
  PROVE  /\ ping(r, ctx).ctx = ctx /\ echo(r, ctx).ctx = ctx
         /\ typee(r, ctx).ctx = ctx /\ llen(r, ctx).ctx = ctx
         /\ lrange(r, ctx).ctx = ctx /\ publish(r, ctx).ctx = ctx
         /\ \A reply : Err(ctx, reply).ctx = ctx
         /\ subscribe(r, ctx).ctx.db = ctx.db
         /\ subscribe(r, ctx).ctx.expiries = ctx.expiries
         /\ unsubscribe(r, ctx).ctx.db = ctx.db
         /\ unsubscribe(r, ctx).ctx.expiries = ctx.expiries
<1>1. /\ ping(r, ctx).ctx = ctx /\ echo(r, ctx).ctx = ctx
      /\ \A reply : Err(ctx, reply).ctx = ctx
  BY DEF ping, echo, Ok, Err, Result
<1>2. typee(r, ctx).ctx = ctx
  BY DEF typee, Ok, Err, Result
<1>3. llen(r, ctx).ctx = ctx /\ lrange(r, ctx).ctx = ctx
  BY DEF llen, lrange, Ok, Err, Result, WrongType
<1>4. publish(r, ctx).ctx = ctx
  BY DEF publish, Ok, Result
<1>5. /\ subscribe(r, ctx).ctx.db = ctx.db
      /\ subscribe(r, ctx).ctx.expiries = ctx.expiries
  BY DEF subscribe, Ok, Result, Context
<1>6. /\ unsubscribe(r, ctx).ctx.db = ctx.db
      /\ unsubscribe(r, ctx).ctx.expiries = ctx.expiries
  BY DEF unsubscribe, Ok, Result, Context
<1> QED  BY <1>1, <1>2, <1>3, <1>4, <1>5, <1>6

\* Every command changes the keyspace and the heap in one of the ways of KeyStep.
THEOREM ExecuteStep ==
  ASSUME NEW r \in Request, NEW ctx \in Context, NEW now \in Nat, r.cmd # "INLINE"
  PROVE  LET c == Execute(r, ctx, now).ctx
         IN  StoreStep(r, ctx.db, c.db, ctx.expiries, c.expiries, now)
<1> DEFINE res == Execute(r, ctx, now)
           Steps(x) == StoreStep(r, ctx.db, x.ctx.db, ctx.expiries, x.ctx.expiries, now)
<1>1. ASSUME NEW x, x.ctx.db = ctx.db, x.ctx.expiries = ctx.expiries
      PROVE  Steps(x)
  BY <1>1, SameStore
<1>2. /\ Steps(ping(r, ctx)) /\ Steps(echo(r, ctx)) /\ Steps(typee(r, ctx))
      /\ Steps(llen(r, ctx)) /\ Steps(lrange(r, ctx)) /\ Steps(publish(r, ctx))
      /\ Steps(subscribe(r, ctx)) /\ Steps(unsubscribe(r, ctx))
      /\ \A reply : Steps(Err(ctx, reply))
  <2> HIDE DEF Steps
  <2> QED  BY <1>1, OtherStep
<1>3. r.cmd = "SET" => Steps(set(r, ctx, now))
  BY RequestFields, SetStep
<1>4. r.cmd = "GET" => Steps(get(r, ctx, now))
  BY RequestFields, GetStep
<1>5. r.cmd = "LPOP" => Steps(lpop(r, ctx))
  BY RequestFields, LpopStep
<1>6. r.cmd = "BLPOP" => Steps(blpop(r, ctx))
  BY RequestFields, BlpopStep
<1>7. r.cmd \in {"RPUSH", "LPUSH"} => Steps(rpush(r, ctx)) /\ Steps(lpush(r, ctx))
  <2> SUFFICES ASSUME r.cmd \in {"RPUSH", "LPUSH"}
               PROVE  Steps(rpush(r, ctx)) /\ Steps(lpush(r, ctx))
    OBVIOUS
  <2>1. r.key \in Key /\ r.vals \in Seq(Data) \ {<< >>}
    BY RequestFields
  <2>2. \A s \in Seq(Data) : Steps(PushResult(r, ctx, s))
    BY <2>1, PushResultStep
  <2> HIDE DEF Steps
  <2> QED  BY <2>1, <2>2, PushShape
<1>8. r.cmd = "XADD" => Steps(xadd(r, ctx))
  <2> SUFFICES ASSUME r.cmd = "XADD"  PROVE Steps(xadd(r, ctx))
    OBVIOUS
  <2>1. r.key \in Key /\ r.id \in IDText /\ r.fields \in Seq(Data)
    BY RequestFields
  <2>2. \A id \in StreamID : /\ Given(r, StreamAt(ctx.db, r.key), id)
                             /\ IsNewer(StreamAt(ctx.db, r.key), id)
                             => Steps(XaddResult(r, ctx, id))
    BY <2>1, XaddStep
  <2> HIDE DEF Steps
  <2> QED  BY <1>2, <2>1, <2>2, XaddShape
<1>9. Steps(res)
  <2> HIDE DEF Steps, res
  <2> QED  BY <1>2, <1>3, <1>4, <1>5, <1>6, <1>7, <1>8, ExecuteCases DEF res
<1> QED  BY <1>9

\* What such a step preserves and what it can remove.
LEMMA StepKeeps ==
  ASSUME NEW r, NEW old \in DB, NEW new, NEW heap, NEW heap2, NEW now,
         StoreStep(r, old, new, heap, heap2, now)
  PROVE  /\ Scheduled(old, heap) => Scheduled(new, heap2)
         /\ StringsOnly(old) => StringsOnly(new)
         /\ \A k \in Key : Present(old, k) /\ ~Present(new, k) => Expired(old[k], now)
<1>1. ASSUME NEW k \in Key, KeyStep(r, old, new, heap2, k, now)
      PROVE  /\ Scheduled(old, heap) /\ new[k].expiry # None
                  => <<new[k].expiry, k>> \in heap2
             /\ StringsOnly(old) /\ (IsList(new, k) \/ IsStream(new, k))
                  => new[k].expiry = None
             /\ Present(old, k) /\ ~Present(new, k) => Expired(old[k], now)
  <2>1. heap \subseteq heap2
    BY DEF StoreStep
  <2>2. Absent.expiry = None /\ Absent.value = None
    BY DEF Absent
  <2>3. \A e \in Entry : e # Absent
    BY CommandsAssumption, <2>2 DEF Entry
  <2>4. CASE new[k] = old[k]
    BY <2>1, <2>4 DEF Scheduled, StringsOnly, IsList, IsStream, Present
  <2>5. CASE new[k] = Absent /\ Expired(old[k], now)
    BY <2>2, <2>5 DEF IsList, IsStream, Present
  <2>6. CASE StringStep(r, new[k], heap2, k, now)
    BY <2>3, <2>6 DEF StringStep, IsList, IsStream, Present
  <2>7. CASE ListStep(old, new[k], k)
    BY <2>1, <2>3, <2>7 DEF ListStep, IsList, IsStream, Present, Scheduled, StringsOnly
  <2>8. CASE StreamStep(r, old, new[k], k)
    BY <2>1, <2>3, <2>8 DEF StreamStep, IsList, IsStream, Present, Scheduled, StringsOnly
  <2> QED  BY <1>1, <2>4, <2>5, <2>6, <2>7, <2>8 DEF KeyStep
<1> QED  BY <1>1 DEF StoreStep, Scheduled, StringsOnly
=============================================================================
