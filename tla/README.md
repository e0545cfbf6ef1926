# RedrumDB in TLA+

RedrumDB is a Redis-like store in Rust: one thread, a `mio` event loop, clients
that speak RESP. This directory models the server as a state machine and its data
structures byte by byte, checks both with TLC on small instances, and proves with TLAPS, for every
value of the constants, every safety property of the server that holds, its three
refinements included, and that a listpack gives back what was put into it. Paths
below are relative to the crate, `src/` being its source directory.

## The system

| component | state | operations | must hold |
|---|---|---|---|
| event loop, `server/mod.rs` | the batch of events; its place in the loop | sweep, poll, accept, the readable and the writable part of an event, removal | every request is answered; a reply that is buffered is sent |
| connections, `server/connection.rs`, the slab | per slot: read and write buffer, blocked/key/deadline, subscriptions; free list | accept, reinsert, remove, switch interest | a slot is lost never and given away once; buffered bytes imply WRITABLE interest |
| blocking clients, `server/blocking.rs` | a queue of tokens per key, a heap of deadlines | block, `wake_client`, `cleanup_blocked` | a waiter is found by every push and by its deadline; whoever stops waiting is answered |
| expiry, `server/expiry.rs`, `types.rs` | the expiry of each entry, a heap of (time, key) | SET with EX/PX, bounded sweep, lazy removal by GET | a key goes when its own expiry has passed and not before |
| commands, `commands/` | the keyspace, the subscriptions | PING ECHO TYPE SET GET RPUSH LPUSH LLEN LRANGE LPOP BLPOP SUBSCRIBE UNSUBSCRIBE PUBLISH XADD | each handler keeps the keyspace well formed |
| RESP parser, `commands/parser.rs` | none | `parse_command` on a read buffer | a complete request is recognised, a partial one is not |
| streams, `data_structures/stream.rs`, `handlers/streams.rs` | last ID, listpack nodes in a radix tree | XADD: parse or generate an ID, append or start a node | IDs grow; no entry is lost |
| listpack, `data_structures/listpack.rs` | one byte vector | append, walk | what is appended is read back, in both directions |
| radix tree, `data_structures/radix.rs` | a tree of compressed edges | insert, get | it is a map |

How they interact: the loop owns all state and lends it to a handler as a
`Context` for the time of one command. A handler answers with bytes, with an error,
with the `__BLOCK__` marker, or by queueing a `Publish` action. The loop then writes
to *other* connections: subscribers (`mod.rs:183`), a waiter of the pushed key
(`mod.rs:298`), and, at the top of the next iteration, clients whose deadline passed.
Tokens (slab index + 1) are kept in three places that nobody cleans when a connection
ends: the wait queues, the heap of deadlines and the subscriber lists.

There are no threads. What makes the program hard is that every event is handled
against state which earlier events, clients and the clock have moved since it was
raised: edge-triggered readiness that is reported once, slots that are reused
within a batch, heaps and queues with stale entries, deadlines that race pushes,
buffers that the peer drains when it likes, requests that arrive in pieces.
`PROJECT.json` lists each such place under `hazards`.

## Modules

**`Commands`**: values, keyspace, `Context`, requests, replies, and each command
handler as a pure operator `handler(r, ctx)` that returns the new context, the
outcome, the reply and the publications. `Execute` is the command table behind the
subscribed-mode check of `command_handler!`. Keys, data and channels are opaque; a
reply keeps its kind, the command it answers, and the data a property reads. A
key that is missing maps to `Absent`. Both forms of an empty list that the code can
hold, absent and present with no element, are kept apart.

**`Connections`**: the `Connection` record, the socket under it, and the operators the
loop applies to them: append and reregister (`Announced`), the write loop
(`WrittenConn`, `WrittenSock`), `Answered`, `Blocked`, `Unblocked`. The socket is the
only external part. `armed` is the edge-triggered readiness of epoll: set by arriving
data, by end of stream, by room in a full send buffer when WRITABLE is registered, and
by a reregister that finds a condition true; cleared when poll reports it.

**`Server`**: the variables, the event loop and the clients.

| action | code |
|---|---|
| `LoopTop` | `cleanup_expired` and `cleanup_blocked`, `mod.rs:40` |
| `Poll` | `poll.poll` with the timeout of the first deadline, `mod.rs:43` |
| `Accept` | the accept loop, `mod.rs:56` |
| `ReadBlocked` | the event of a blocked connection is dropped, `mod.rs:89` |
| `ReadEof`, `ReadInvalid`, `ReadBlock`, `ReadCommand`, `ReadPush` | the ways a readable event goes, `mod.rs:94-260`, with `wake_client` in `ReadPush` |
| `WriteOnly`, and `Finish` at the end of the read actions | the writable part, the reinsertion or removal, `mod.rs:270-296` |
| `Connect`, `Send`, `Close`, `Receive`, `Tick` | clients and clock |

One event is one action, since nothing else runs in the process meanwhile; clients and
the clock move between events. `Instant::now()` is the same throughout an action. A read takes
a whole number of requests (any number of them), and with `Split` also the beginning
of the next one. Only the first request in the buffer is parsed and the buffer is then
cleared, except when BLPOP blocks: all as in the code.

**`Streams`**: stream IDs and `StreamID::parse`, `Stream::add` and `Stream::get`, as operators.
A `u64` is a number up to `MaxWord` and wraps (`Wrapped`). A stream keeps the three
places that the code keeps an ID in: the radix tree, the ordered index, and the
`last_id` of nodes and stream. Below this level a node is the sequence of entries
appended to it, with the size of its listpack; that a listpack reads back what was
appended, and that the tree is a map, is shown by the modules `Listpack` and `Radix`.
XADD itself is in `Commands`, where it replaces values of other types as a push does.

**`Radix`**: `insert_rec` and `get_rec` on nodes that are records. **`Listpack`**: the byte
vector: `strict_parse_i64`, the nine encodings, back lengths, the header, `append` and the
iterator. 64-bit numbers are sequences of eight bytes, and arithmetic on them goes from
byte to byte with a carry. **`RespParser`**: `parse_command`,
`parse_bulk_string` and `read_line` on a buffer of bytes, with a client that writes
commands (lengths in decimal, words of any bytes) and reads that cut the wire anywhere.
`Server` takes from it that a buffer is the whole request it begins with, or an error.
**`ByteStrings`** is what the two agree on: a byte is a number, a text a sequence of them.

**`ServerRefines`** says what all this looks like from outside. Each of its `INSTANCE`s maps
the server's state to the variables of an abstract specification:

| abstract specification | says | mapping |
|---|---|---|
| `ExpiringStore` | GET answers with an entry up to the instant of its expiry, and not from then on; only what has expired goes | the keyspace; the clock; what the handler of GET would reply for each key |
| `BlockingQueue` | lines of clients, served first come, first served; a newcomer takes an element only if nobody is in line; an element goes to one client | the lists, the wait queues, the pops in the write buffers |
| `StreamLog` | a log per key that grows at its end only | the entries of all nodes of a stream |
| `FiniteMap` (of `Radix`) | an insertion changes the map at its own key, to its own value, and nowhere else | `get_rec` of each key; the last insertion |

**`MCServer`** names the request sets of the runs, **`MCStructures`** the keys, values and
commands that the three data structures are tried on; it extends `Listpack` and `RespParser`,
whose properties the run and the proofs share. The theorems are in
**`StreamsProofs`** (what `add` and `get` do), **`CommandsProofs`**, **`ServerProofs`** (types, slab,
waiters), **`StoreProofs`** (streams, expiry and their refinements, elements and waiters, subscriptions),
**`RepliesProofs`** (what becomes of a reply), **`FifoProofs`** (BLPOP without timeouts, and its
refinement), **`ListpackProofs`** and **`RespProofs`** (which takes its inductions from there).

## What is checked

All runs disable the deadlock check: a client may stop sending, and the bounds below
end every behaviour. Bounds: `MaxConns` slots, `MaxConnects` connections, `MaxRequests`
requests in all, `Window` unanswered requests per client, `SndBuf = 1` reply in a send
buffer (so that two replies fill it), `MAX_CLEANUP = 1` (so that a sweep can stop
early, at two entries; the code has 169 there and stops at 170). The clock needs no
bound: it ticks only while a deadline lies ahead. Streams: words of two bits (`MaxWord =
3`), `CloseMs = 2` for 1000, `NodeBytes = 60` for 4096 with entries of 40 bytes and
more, so that a node takes one or two entries and both reasons to start another occur;
`DigitWords = {3}` are the words whose bytes look like a number to a listpack. Structures:
`MaxInserts`, `MaxAppends`, `MaxCommands`; `Followers`, the values appended after the
first; `MaxBytes = 16480` for `u32::MAX`, which refuses a second long string; and
`LP_NUMELE_UNKNOWN = 2` for `u16::MAX`, so that the count saturates.

| run | instance | shows |
|---|---|---|
| Blocking | 3 clients, 3 requests, one key; BLPOP with and without timeout, RPUSH | `TypeOK`, `SlabOK`, `BlockedIsQueued`, `DeadlineIsScheduled`, `NoWaiterOnElements`, `OneReplyEach`, `ReplyIsScheduled`, `EndOfWaitAnswers`: no waiter is forgotten by its queue, its deadline or the writer, and a push that races a deadline answers once |
| Forever | 3 clients, 4 requests, two keys, no timeouts, pushes of one element | `QueuesExact`, `WokenOnItsKey`, `BlpopIsFifo`: a queue is exactly its blocked clients, in order, a push serves its own key, and the server implements `BlockingQueue` |
| PubSub | 2 slots, 3 connections, 3 requests, split reads | `SubscriptionsRegistered`, `ReplyIsScheduled` |
| Keyspace | 1 client, 4 requests, two keys, three lifetimes, every data command | `ExpiryIsScheduled`, `OnlyStringsExpire`, `ExpiredIsAbsent`, `NoEarlyExpiry`, `KeyspaceIsExpiringStore` |
| Streams | 1 client, 4 requests, one key; IDs of every form, with overflow, padding, a clock that goes back | `StreamsWellFormed`, `EntriesFound`, `GeneratedIdFits`, `StreamsAreLogs` |
| Structures | 4 insertions of 8 keys; 3 appends of texts at every boundary; 2 commands cut anywhere, one of them with a word that spells a command | `TreeIsMap`, `TreeIsCompressed`; `PackReadsBack`, `HeaderIsTrue`, `WalksBackwards`; `FirstWholeCommand` |
| Answers | 2 slots, 3 connections, 3 requests, fair; SUBSCRIBE, PUBLISH, BLPOP with a timeout, RPUSH | `EveryRequestAnswered` (except where the client has the token of an earlier subscriber), `TimedWaitEnds` |
| StaleBuffer | as Blocking, 2 clients | **violated**: `AnswersItsRequest` |
| StaleWaiter | two keys with a timeout | **violated**: `WokenOnItsKey` |
| StaleTimeout | timeouts of two lengths | **violated**: `NoEarlyTimeout` |
| StaleSubscriber | as PubSub, unsplit | **violated**: `MessageToSubscriber` |
| ZeroId | XADD with the IDs 0-0, 00-0, 1-0 | **violated**: `NoZeroId` |

Why this is enough: a hazard here needs at most two parties besides the token that
went stale. Three requests are a block, what ends it, and what comes after; three connections
on two slots reuse one; four requests set, overwrite and read a key around two
expiries. Four entries are two nodes of two, or one of each kind of ID; four
insertions nest two splits. The values of a listpack lie on both sides of every width:
the numbers of 7, 13, 16, 24, 32 and 64 bits, the strings of 64 and 4096 bytes, the back
lengths of one, two and three bytes (lengths that would need four are too long for TLC).

The violated properties state what the repository's README and an error message promise:

* a blocked BLPOP stays in the read buffer (`mod.rs:169` leaves the event without the `clear()` of `mod.rs:243`), so the client's next request runs that BLPOP again;
* `wake_client` serves a stale token whose connection now blocks on another key, which gets the wrong key's element;
* a heap entry of a served BLPOP ends the client's next BLPOP early: `cleanup_blocked` compares with nothing, where `cleanup_expired` compares with the entry;
* a slot's next owner receives the messages its predecessor subscribed to;
* XADD says that an ID must be greater than 0-0, but compares the bytes of the argument: `00-0` starts a stream with the entry 0-0.

Fairness (`FairSpec`): the server's thread keeps taking steps (nothing in the loop waits
but poll, and a poll that has something to report returns), time passes, and a client
reads replies that reached it. Nothing is assumed of requests, connections or
disconnections, nor of the order in which the events of a batch are handled.

Behaviour that the model has and no property objects to, because the repository promises
nothing there:

* requests that arrive in one read are dropped after the first; one that arrives in pieces gets an error line per piece;
* when BLPOP blocks while something is still buffered, the `continue` (`mod.rs:170`) skips the writable part of that event and the writable edge is gone; the reply that ends the wait finds the buffer in use and does not reregister (`blocking.rs:91`), so it is not sent until something else writes. With `Window = 2`, `ReplyIsScheduled` fails; the runs that check it keep one request in flight. With `Window = 1` what is buffered may be a message for an earlier owner of the token: a subscriber goes, its slot is reused, somebody publishes, and the new client's BLPOP comes with the same event. `EveryRequestAnswered` excepts clients with such a token (`Stale`), `RepliesScheduled` has the hypothesis `NoSubscribers`;
* some error replies end without CRLF (the tag `open`): the client sees them with the next reply only;
* a push of several elements wakes one waiter; the others stay in line while a newcomer may take what is left, so `NoWaiterOnElements` and `BlpopIsFifo` are about pushes of one;
* TYPE, LLEN, LRANGE and LPOP do not look at the expiry; only strings have one, so only TYPE and the type errors of the list commands can tell;
* a client that goes away while blocked keeps its slot until it is woken, and the element that wakes it is lost;
* a connection that left its last channel stays in subscribed mode;
* an ID word whose eight bytes spell a decimal number is stored as a number, and a look-up stops there: `EntriesFound` says that it hides itself and what lies behind it in its node, and nothing else (no command looks entries up yet);
* after a cut the rest of a request is parsed by its first byte: if the next read begins at a star inside a word, and that word spells a command, the command is run (`mod.rs:258`, `parser.rs:44`). `FirstWholeCommand` allows that and nothing more; `Server` takes such a rest for an error;
* a generated sequence number that overflows wraps around to 0, and XADD then refuses it (release build).

## What is proved

For every value of the constants that satisfies `CommandsAssumption`,
`ConnectionsAssumption` and `ServerAssumption` (at least one slot, a send buffer of at
least one reply, requests of the right form, `None` distinct from keys, numbers and
values), and so for any number of clients, keys and requests, pipelined or split; and for
every set of byte strings that is appended to a listpack under `ListpackAssumption`
(`MaxBytes` fits the four bytes of the header, `LP_NUMELE_UNKNOWN` its two, `None` is no
byte string and no decoded entry); and for all commands, with any number of words of any
length, and all cuts, under `RespAssumption` (a command has at least one word, `None` is
nothing that is parsed):

| theorem | says |
|---|---|
| `ExecuteType`, `ExecuteStep` | each command keeps the context well formed, and changes a key in one of five ways |
| `TypeCorrect` | `Spec => []TypeOK` |
| `SlabCorrect` | `Spec => [](SlabOK /\ EventsOK)` |
| `ExpiriesScheduled`, `ListsNeverExpire` | `[]ExpiryIsScheduled`, `[]OnlyStringsExpire` |
| `KeysLive` | `NoEarlyExpiry`, an action property |
| `WaitersQueued`, `DeadlinesScheduled` | `[]BlockedIsQueued`, `[]DeadlineIsScheduled` |
| `WaitsAnswered` | `EndOfWaitAnswers`, an action property |
| `NobodyWaitsOnElements` | `[]NoWaiterOnElements`, under `OneEach` |
| `ExpiredUnseen` | `[]ExpiredIsAbsent` |
| `KeyspaceImplementsStore` | `Spec => KeyspaceIsExpiringStore`, the refinement of `ExpiringStore` |
| `AddKeepsShape`, `AddEntries`, `GetFinds` | `add` keeps `StreamOK`, and adds its entry to those that were there; in a stream of that shape `get` finds each entry that is not `Hidden` in its own node, and nothing else |
| `StreamsInShape`, `StreamsImplementLogs` | `[]StreamsWellFormed`; `Spec => StreamsAreLogs`, the refinement of `StreamLog` |
| `EntriesAreFound`, `GeneratedIdsFit` | `[]EntriesFound`, `[]GeneratedIdFits` |
| `ZeroIdUnused` | `[]NoZeroId`, under `PlainIDs` |
| `SubscribersRegistered` | `[]SubscriptionsRegistered` |
| `OneReplyForEach` | `[]OneReplyEach`, under `OneAtATime` and `NoSubscribers` |
| `RepliesScheduled` | `[]ReplyIsScheduled`, under `NeverWaits`, or `OneAtATime` and `NoSubscribers` |
| `RepliesAnswer` | `[]AnswersItsRequest`, under `NeverWaits`, `OneAtATime` and `NoSubscribers` |
| `QueuesAreExact`, `ServedFromTheirKey` | `[]QueuesExact`, `WokenOnItsKey`, under `OneAtATime`, `NoSubscribers` and `NoDeadlines` |
| `LinesImplemented` | `Spec => BlpopIsFifo`, the refinement of `BlockingQueue`, under those three, `OnlyQueues` and `OneEach` |
| `PackAlways` | entries stand in a listpack as they were appended, each with its back length, between a true header and the end byte |
| `PackAlwaysReadsBack` | `[]PackReadsBack`: every byte string that was appended is read back, byte for byte and in order |
| `HeaderAlwaysTrue` | `[]HeaderIsTrue`: the total of bytes, and the number of values, counted if the header has lost it |
| `PackAlwaysWalksBackwards` | `[]WalksBackwards`: back lengths lead from the end of each entry to its beginning |
| `ReadsFollow` | the commands lie on the wire one behind the other, and reads take it in that order |
| `WholeCommandsOnly` | `[]FirstWholeCommand`: a read that begins with a command is parsed as that command if all of it has come, and as nothing if not; another read is parsed as something only if it begins inside a word |

The hypotheses restrict what clients send, never what the server does or when:

| hypothesis | says | without it |
|---|---|---|
| `OneAtATime` | `Window = 1`, no request is cut | a BLPOP that blocks ends its event before the writable part (`mod.rs:170`), so a reply that was in the buffer is forgotten. `ReplyIsScheduled` fails with BLPOP if `Split = TRUE` or `Window = 2` |
| `NoSubscribers` | nobody subscribes | a message for an earlier owner of the token is in the buffer when its new owner blocks, and the reply that ends the wait is forgotten with it (`blocking.rs:91`), also with one request at a time |
| `NeverWaits` | no BLPOP; pipelines, cuts and subscriptions are allowed | the same; and a BLPOP that stays in the read buffer is answered in place of the next request: the run StaleBuffer |
| `NoDeadlines` | every BLPOP has the timeout 0 | a timeout leaves its token in the queue: the run StaleWaiter |
| `OneEach` | every push brings one element | a push of two serves one of two clients in line (`wake_client` is called once); the other one waits on an element, which a newcomer may take |
| `OnlyQueues` | no SET, LPOP or XADD | they take elements of a list away other than by serving a client, which `BlockingQueue` has no step for |
| `PlainIDs`, with `0 < MaxWord` | the IDs of XADD are written without leading zeros and fit 64 bits | `00-0` passes the comparison of bytes: the run ZeroId |

The argument is layered; each layer is inductive given the ones before it.

1. `TypeInv`: `TypeOK` is not inductive alone. A write may take `SndBuf - Len(outbox)` replies, so that number must not be negative (`OutboxOK`), and `Accept` hands out the first `backlog` free slots, so they must exist (`BacklogOK`). The lemmas `...Type` go through the actions; those of the read actions rest on `ExecuteType` and on `FinishType`, the end that events share.
2. `SlabInv`: removal returns a slot to the free list, so the slot must be occupied, and no other event of the batch may be about it: `EventsOK`.
3. `StoreInv`: `ExecuteStep` and `StepKeeps` for the commands, `LoopTopStore` for the sweep. The same lemmas give `KeysLive`.
4. `WaitInv`: a push drops a prefix of its queue; what is in front of the served token is not blocked (`UnservedKeeps`). The entries that `LoopTop` pops are those of clients that it unblocks, since they are in the slab.
5. `WaitsAnswered`: a push that succeeds leaves an element (`PushLeavesItems`), so the waiter that `wake_client` unblocked before looking is served; and a slot that `Accept` gives away has no waiter (`SlabOK`).
6. `NobodyWaitsOnElements` rests on `WaitInv`: somebody blocked on the key of a push is in its queue, so `Woken` finds a waiter, and takes the only element (`PushOne`, `TailOfOne`). No other command puts an element where there is none (`EmptyStaysEmpty`). With two elements to a push the statement is false, hence `OneEach`.
7. Streams: `StreamOK` is inductive for `add`. The floor key of an ID newer than `last_id` is the last node (`FloorIsLast`), so an entry is appended to the last node or starts one behind it. `StreamsInShape` carries that through the steps of the server, and `StreamsImplementLogs` maps each step to one of `StreamLog`: `ExecuteStep` says that at most one key changes, and which way.
8. `KeyspaceImplementsStore`: what the sweep and GET remove had expired (`StoreInv`, `OnlyExpiredVanish`), which is `Vanish`; any other command that changes the map is a `Write` of one key (`RunWrites`), `Tick` is `Pass`. That the reply of the handler of GET is the `Answer` of the store, whatever the map holds, is `GetAnswers`: it is there that an entry which the sweep has not reached must not show.
9. `SubscribersRegistered`: the lemmas on `Count` say what `Append` and `Without` do to it. A stale token can only add to the count of the registry.

10. `GetFinds`: the walk of `get` through a node stops at the first entry with the ID, or at one it cannot read; IDs in a node are distinct since they grow (`StreamOK`), and the floor key of an entry's ID is its own node, so other nodes play no part. `EntriesAreFound` is that lemma under `StreamsInShape`. `GeneratedIdsFit` goes through the forms of an ID: what `parse` returns is refused in the two cases only.
11. `OneReplyForEach`: `AccountInv` counts. What a client has asked and not received is in its socket, in a wait, in its write buffer or in the send buffer; each action moves one between those places. A request that is read is the only one there (`OneAtATime`), so clearing the buffer loses none; `TimedOut` and `Woken` both unblock, so the second finds nothing to answer. A removed client is left out: its replies are.
12. `RepliesScheduled` is inductive with two facts: poll is called with an empty batch (`PollingOK`), and a BLPOP that is about to block finds nothing in the write buffer (`FlushedFirst`), which `NeverWaits` gives for nothing, and `OneAtATime` with `NoSubscribers` by `AccountInv`: the client has one request out, and this is it; nothing else is written to it. The lemmas name the two together `Undisturbed`.
13. `QueuesAreExact`: without deadlines a wait ends by a push, or by the removal of a client to which a write failed. The second cannot be: a client that waits has nothing to be written (`AccountInv`), so no write is tried. A push drops the front of its queue up to the client it serves, and that is the head (`ExactFront`).
14. `LinesImplemented` maps each action to a step of `BlockingQueue`: a BLPOP that blocks is `Join`, one that finds an element is `Take`, for nobody is in line at a key that has one (`NoLineAtElements`, from `QueuesExact` and `NoWaiterOnElements`), a push is `PushAndServe` if the queue has somebody and `Push` if not, and all others are `Arrive`: replies leave the write buffer from its front, and elements from the hand of their client with them.
15. `ZeroIdUnused` and `RepliesAnswer` bound two of the findings: each is about a property that a run finds violated, and shows that it holds once the one thing the finding names is excluded. For the first, an ID written out in full is refused as text if it is `0-0`, and a generated one follows an entry of its millisecond or starts at 1 in millisecond 0 (`GivenNonZero`).
16. For the second, `NamedInv` adds to `AccountInv` that between events a read buffer is empty, and that the request in the socket and every reply on its way are about the oldest unanswered request.
17. The listpack is computed by recursive functions, and theorems that take a property as a parameter cannot be used here. What can is the well-foundedness of `<` on the naturals: a set of numbers that is not empty has a least one (`LeastOf`). `Induction` and `UpTo` are induction over *sets* made of that, and `Recursion` shows that a recursive function on `0..n` exists and unfolds.
18. Arithmetic on eight bytes: `Val` is the number that they stand for, carries stay within a byte, and `TimesTenPlus`, `Negated` and `DivTen` do to `Val` what their names say. Taking digits off with `DivTen` undoes putting them on with `TimesTenPlus`, so the text that `strict_parse_i64` accepts is the printed form of its result (`PrintedBack`): no leading zero, no minus zero, nothing beyond 64 bits.
19. Each of the encodings, wherever it stands among other bytes, is decoded to what was encoded, with its length (`DecodeString`, `DecodeInt`), and with the right back length behind it `decode_entry` accepts it (`DecodeEntry`). No entry starts with the end byte.
20. `PackInv` says where each entry stands. `append` overwrites the end byte and the header, and leaves the entries in place (`PushPacks`); it refuses what would make the total exceed the header. It is inductive. Unfolding the walk from the last entry to the first gives the values (`EntriesFromIs`, `ValuesRead`), and reading seven bits at a time to the left of an entry's end gives its length.
21. A length is printed digit by digit (`DecimalHas`) and parsed back (`DecimalParsed`). `Agrees` says that a buffer goes as far as it does like what was sent; then `read_line` stops at the end of the line of digits, since no digit is a carriage return (`LineRead`), a word ends where its length says, whatever bytes it has (`BulkRead`), and word by word `parse_command` finds the command or runs out of bytes (`WordsFound`, `CommandRead`). `RespInv` lays the commands out on the wire; of the bytes of a command only the first and those of its words may be stars (`StarsInWords`), so a read that begins anywhere else is not parsed (`InvElsewhere`).

Only model-checked:

* the liveness properties, `EveryRequestAnswered` and `TimedWaitEnds`, out of reach of the prover;
* what is claimed of `Radix` (`TreeIsMap`, `TreeIsCompressed`), whose operators are RECURSIVE since they recurse over nodes and not over numbers: a module that declares one cannot be proved about.

## Not modelled

* Arguments that do not parse as numbers, other than stream IDs; panics on malformed BLPOP timeouts, on an array of count 0, on a command name longer than 32 bytes.
* I/O errors that end the process (`?` on `register`, `reregister`); `main.rs` and the scripts.
* The debug build, where an ID that overflows `u64` panics instead of wrapping.
* `append_entry` unwraps the result of `append`, which fails for an entry of 256 MiB or a listpack of 4 GiB. The fields of an entry take `DataBytes` each in the size of its node, whatever they are.
* `with_capacity`, `is_empty`, `get`, `as_bytes` of a listpack, which change no state. `Stream::get` is modelled though no command calls it.

## Plan

1. Conservation of elements for clients that may leave: which elements a disconnection may lose.
2. Composition of `Streams` with `Listpack`: the size of a node and the look-up of an ID, with the bytes in place of `DataBytes` and `DigitWords`.
3. Out of reach: liveness, and what the radix tree computes by recursion over its nodes.

## Running

`tlc -config Blocking.cfg MCServer.tla` checks a run, `tlapm ServerProofs.tla` the proofs.
The runs of `PROJECT.json` name their module and configuration; its `mutants` say which
plausible change of the code breaks each property.
