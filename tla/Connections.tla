---------------------------- MODULE Connections ----------------------------
(***************************************************************************)
(* One connection of the server: the Connection record of                  *)
(* src/server/connection.rs, and the socket under it as the kernel and mio *)
(* present it to the event loop.  Operators only: the state is in Server.  *)
(*                                                                         *)
(* mio registers every socket edge-triggered.  A socket is reported by     *)
(* poll once each time it is armed: when data or the end of the stream     *)
(* arrives, when the peer makes room in a full send buffer, and at every   *)
(* reregister that finds a condition of the registered interest true.      *)
(* Reading less than everything does not arm it again.                     *)
(***************************************************************************)
EXTENDS Commands

CONSTANT SndBuf   \* replies that fit between a write and the peer's read

ASSUME ConnectionsAssumption == SndBuf \in Nat \ {0}

Connection ==
  [read_buffer : Seq(Request), write_buffer : Seq(Reply),
   blocked : BOOLEAN, block_key : Key \cup {None},
   block_deadline : Nat \cup {None},
   subscriptions : Seq(Channel), is_pubsub : BOOLEAN]

NewConnection ==
  [read_buffer |-> << >>, write_buffer |-> << >>,
   blocked |-> FALSE, block_key |-> None, block_deadline |-> None,
   subscriptions |-> << >>, is_pubsub |-> FALSE]

(***************************************************************************)
(* The kernel's side: inbox holds the commands sent and not yet read,      *)
(* outbox the replies written and not yet received by the peer, eof is set *)
(* when the peer has gone, want tells that the registered interest         *)
(* includes WRITABLE, and armed that poll will look at the socket.         *)
(***************************************************************************)
Socket ==
  [inbox : Seq(Request), outbox : Seq(Reply), eof : BOOLEAN,
   want : BOOLEAN, armed : BOOLEAN]

NewSocket ==
  [inbox |-> << >>, outbox |-> << >>, eof |-> FALSE,
   want |-> FALSE, armed |-> FALSE]

Readable(s) == s.inbox # << >> \/ s.eof
Writable(s) == s.want /\ (s.eof \/ Len(s.outbox) < SndBuf)

\* Registry::reregister with READABLE, and WRITABLE when want holds.
reregister(s, want) ==
  [s EXCEPT !.want  = want,
            !.armed = Readable(s) \/ Writable([s EXCEPT !.want = want])]

-----------------------------------------------------------------------------
(* write_buffer.extend_from_slice, and the reregister that every place of  *)
(* the code makes after it when the buffer was empty before.               *)

Queued(c, msgs) == [c EXCEPT !.write_buffer = @ \o msgs]

\* Mutant of Announced: was_empty is computed after the append.
AnnouncedNever(c, s, msgs) == s

Announced(c, s, msgs) ==
  IF msgs # << >> /\ c.write_buffer = << >> THEN reregister(s, TRUE) ELSE s

(***************************************************************************)
(* The writable part of an event: write until the buffer is empty or the   *)
(* socket would block, then drop the WRITABLE interest if it is empty.     *)
(* What is written to a peer that has gone is lost.                        *)
(***************************************************************************)
Accepted(c, s) ==
  LET room == SndBuf - Len(s.outbox)
      len  == Len(c.write_buffer)
  IN  IF s.eof \/ len <= room THEN len ELSE room

\* Mutant of WrittenConn: what the socket did not take is dropped.
WrittenOnce(c, s) == [c EXCEPT !.write_buffer = << >>]

WrittenConn(c, s) ==
  [c EXCEPT !.write_buffer = SubSeq(@, Accepted(c, s) + 1, Len(@))]

\* Mutant of WrittenSock: the WRITABLE interest goes after a partial write too.
WrittenUnheeded(c, s) ==
  LET n    == Accepted(c, s)
      sent == IF s.eof THEN s
              ELSE [s EXCEPT !.outbox = @ \o SubSeq(c.write_buffer, 1, n)]
  IN  reregister(sent, FALSE)

WrittenSock(c, s) ==
  LET n    == Accepted(c, s)
      sent == IF s.eof THEN s
              ELSE [s EXCEPT !.outbox = @ \o SubSeq(c.write_buffer, 1, n)]
  IN  IF n = Len(c.write_buffer) THEN reregister(sent, FALSE) ELSE sent

\* Whether a write may return an error, which removes the connection.
MayFail(c, s) == s.eof /\ c.write_buffer # << >>

-----------------------------------------------------------------------------
\* The connection that handler answered with reply: cf. the Ok and Err arms.
Answered(c, ctx, reply) ==
  [c EXCEPT !.read_buffer   = << >>,
            !.write_buffer  = Append(@, reply),
            !.subscriptions = ctx.subscriptions,
            !.is_pubsub     = ctx.is_pubsub]

\* BLPOP found nothing: the bytes read stay in read_buffer.
Blocked(c, buffer, key, deadline) ==
  [c EXCEPT !.read_buffer = buffer, !.blocked = TRUE,
            !.block_key = key, !.block_deadline = deadline]

Unblocked(c) ==
  [c EXCEPT !.blocked = FALSE, !.block_key = None, !.block_deadline = None]
=============================================================================
