----------------------------- MODULE MCServer -----------------------------
(***************************************************************************)
(* Instances of Server for TLC.  Each configuration picks one of the       *)
(* request sets below and the bounds.                                      *)
(***************************************************************************)
EXTENDS ServerRefines

CONSTANTS k1, k2, v1, v2, c1

Plain(cmd)    == [cmd |-> cmd]
Missing(tag)  == [cmd |-> "MISSING", tag |-> tag]
On(cmd, k)    == [cmd |-> cmd, key |-> k]
Blpop(k, t)   == [cmd |-> "BLPOP", key |-> k, timeout |-> t]
Push(c, k, s) == [cmd |-> c, key |-> k, vals |-> s]
Setk(k, ttl)  == [cmd |-> "SET", key |-> k, val |-> v1, ttl |-> ttl]
Lpop(k, n)    == [cmd |-> "LPOP", key |-> k, count |-> n]
Chan(cmd)     == [cmd |-> cmd, channel |-> c1]
Xadd(id)      == [cmd |-> "XADD", key |-> k1, id |-> id, fields |-> <<v1, v2>>]
Publish       == [cmd |-> "PUBLISH", channel |-> c1, message |-> v1]

\* Waiters with and without a deadline, and pushes of one element.
BlockingRequests == {Blpop(k1, 0), Blpop(k1, 1), Push("RPUSH", k1, <<v1>>)}

\* Timeouts of different lengths on one key.
TimedRequests == {Blpop(k1, 0), Blpop(k1, 1), Blpop(k1, 2), Push("LPUSH", k1, <<v1>>)}

\* Waiters without a deadline on two keys, and pushes of one element.
ForeverRequests == {Blpop(k1, 0), Blpop(k2, 0), Push("LPUSH", k1, <<v2>>)}

\* A waiter of each kind on each of two keys.
TwoKeyRequests == {Blpop(k1, 1), Blpop(k2, 0), Push("RPUSH", k1, <<v1>>)}

PubSubRequests == {Chan("SUBSCRIBE"), Chan("UNSUBSCRIBE"), Publish}

\* The data commands, with values of both types and several lifetimes.
KeyspaceRequests ==
  {Setk(k1, None), Setk(k1, 0), Setk(k1, 1), Setk(k1, 2), Setk(k2, 1), On("GET", k1), On("TYPE", k1),
   On("LLEN", k1), Push("RPUSH", k1, <<v1>>), Push("LPUSH", k1, <<v1, v2>>),
   Lpop(k1, 1), Lpop(k1, 2), Plain("ECHO"), Plain("UNKNOWN"), Missing("open"), Missing("error"),
   Xadd([form |-> "*", ms |-> 1]),
   [cmd |-> "LRANGE", key |-> k1, start |-> 0, stop |-> -1]}

\* The forms of an ID, with clocks that run back, numerals beyond u64::MAX and zeros
\* that are padded, and the commands that meet a stream on their way.
Auto(ms)      == [form |-> "*", ms |-> ms]
Partial(ms)   == [form |-> "ms-*", ms |-> ms]
Exact(ms, sq) == [form |-> "ms-seq", ms |-> ms, seq |-> sq, padded |-> FALSE]
Padded        == [form |-> "ms-seq", ms |-> 0, seq |-> 0, padded |-> TRUE]

StreamRequests ==
  {Xadd(Auto(1)), Xadd(Auto(2)), Xadd(Partial(1)), Xadd(Partial(MaxWord + 2)),
   Xadd(Exact(0, 0)), Xadd(Padded), Xadd(Exact(1, 0)), Xadd(Exact(1, 2)),
   Xadd(Exact(1, MaxWord)), Xadd(Exact(2, MaxWord + 1)), Xadd(Exact(MaxWord, 0)),
   Xadd([form |-> "malformed"]),
   [Xadd(Auto(1)) EXCEPT !.fields = <<v1>>],
   Setk(k1, None), Setk(k1, 1), Push("RPUSH", k1, <<v1>>), On("TYPE", k1), On("GET", k1)}

\* Only the padded text.
ZeroRequests == {Xadd(Exact(0, 0)), Xadd(Padded), Xadd(Exact(1, 0))}

\* Commands that are answered at once, or wait at most one instant.
AnsweredRequests == {Chan("SUBSCRIBE"), Publish,
                     Blpop(k1, 1), Push("RPUSH", k1, <<v1>>)}
=============================================================================
