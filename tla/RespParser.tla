----------------------------- MODULE RespParser -----------------------------
(***************************************************************************)
(* The RESP parser of src/commands/parser.rs on the bytes that a client's  *)
(* requests put on the wire, however the reads cut them.  The module       *)
(* Server builds on what is shown here: a read buffer is looked at as the  *)
(* request it begins with, or as something that does not parse.            *)
(*                                                                         *)
(* Positions count from 1.                                                 *)
(***************************************************************************)
EXTENDS ByteStrings

CONSTANTS
  Commands,    \* the commands that are sent
  MaxCommands  \* bound: commands sent in a behaviour

\* A command is a sequence of words, the first of which is its name.  None is none of
\* what an Option or a Result holds.
ASSUME RespAssumption ==
  /\ Commands \subseteq Seq(Seq(Byte)) \ {<< >>}
  /\ None \notin Nat \cup Seq(Seq(Byte))
  /\ None \notin [text : Seq(Byte), next : Nat] \cup [word : Seq(Byte), next : Nat]
  /\ None \notin [words : Seq(Seq(Byte)), next : Nat]
  /\ None \notin [from : Nat, upto : Nat, parsed : {None} \cup Seq(Seq(Byte))]

VARIABLES
  sent,   \* the commands sent so far
  wire,   \* their bytes that have not been read yet
  taken,  \* how many have been
  last    \* the read before: the bytes between `from` and `upto`, and what was parsed

CR     == 13
LF     == 10
Dollar == 36
Star   == 42

\* The number that the first i bytes of text make, for each i.
Sums(text) ==
  LET sum[i \in 0..Len(text)] == IF i = 0 THEN 0 ELSE 10 * sum[i - 1] + (text[i] - 48)
  IN  sum

\* str::parse::<usize>; the leading "+" it would also accept is on no wire here.
ParsedUsize(text) ==
  IF text = << >> \/ \E i \in 1..Len(text) : text[i] \notin Digits THEN None
  ELSE Sums(text)[Len(text)]

read_line(buf, start) ==
  LET ends == {i \in start..(Len(buf) - 1) : buf[i] = CR /\ buf[i + 1] = LF}
      i    == CHOOSE j \in ends : \A k \in ends : j <= k
  IN  IF ends = {} THEN None ELSE [text |-> SubSeq(buf, start, i - 1), next |-> i + 2]

\* Mutant of Complete: the line end behind the data need not have arrived.
CompleteUnended(buf, end) == end <= Len(buf) + 1

\* The data before end, and the two bytes behind it, have arrived.
Complete(buf, end) == end + 2 <= Len(buf) + 1

parse_bulk_string(buf, start) ==
  LET line == read_line(buf, start + 1)
      size == ParsedUsize(line.text)
      end  == line.next + size
  IN  IF start > Len(buf) THEN None
      ELSE IF buf[start] # Dollar \/ line = None THEN None
      ELSE IF size = None THEN None
      ELSE IF ~Complete(buf, end) THEN None
      ELSE [word |-> SubSeq(buf, line.next, end - 1), next |-> end + 2]

\* The first i words, each read where the one before it ends, for every i up to count.
Words(buf, count, pos) ==
  LET upto[i \in 0..count] ==
        IF i = 0 THEN [words |-> << >>, next |-> pos]
        ELSE LET acc  == upto[i - 1]
                 bulk == parse_bulk_string(buf, acc.next)
             IN  IF acc = None THEN None
                 ELSE IF bulk = None THEN None
                 ELSE [words |-> Append(acc.words, bulk.word), next |-> bulk.next]
  IN  upto

\* The words of the command at the beginning of buf; what follows it is ignored.  The
\* count is at least 1: the subtraction of the code is not tried on 0.
parse_command(buf) ==
  LET line  == read_line(buf, 2)
      count == ParsedUsize(line.text)
      all   == Words(buf, count, line.next)[count]
  IN  IF buf = << >> THEN None
      ELSE IF buf[1] # Star \/ line = None THEN None
      ELSE IF count = None THEN None
      ELSE IF all = None THEN None ELSE all.words

\* to_ascii_uppercase
Upper(b) == IF b \in 97..122 THEN b - 32 ELSE b

\* The caller sets 32 bytes aside for a name; a longer one, at which it panics, is not modelled.
normalize_upper(name) == [i \in 1..Len(name) |-> Upper(name[i])]

\* The command as the loop looks it up.
Normal(command) == [command EXCEPT ![1] = normalize_upper(@)]

Parsed(buf) ==
  LET command == parse_command(buf)
  IN  IF command = None THEN None ELSE Normal(command)

-----------------------------------------------------------------------------
(* The client's side: a command as an array of bulk strings.               *)

\* n, and what is left of it when digits are taken off its end.
Quotients(n) ==
  LET quot[i \in 0..(n + 1)] == IF i = 0 THEN n ELSE quot[i - 1] \div 10
  IN  quot

Decimal(n) ==
  LET quot == Quotients(n)
      k    == CHOOSE j \in 1..(n + 1) : quot[j] = 0 /\ \A i \in 1..(j - 1) : quot[i] # 0
  IN  [i \in 1..k |-> 48 + (quot[k - i] % 10)]

Line(first, n) == <<first>> \o Decimal(n) \o <<CR, LF>>

BulkString(w) == Line(Dollar, Len(w)) \o w \o <<CR, LF>>

\* The bytes of c up to its i-th word, for each i.
Beginnings(c) ==
  LET upto[i \in 0..Len(c)] ==
        IF i = 0 THEN Line(Star, Len(c)) ELSE upto[i - 1] \o BulkString(c[i])
  IN  upto

Bytes(c) == Beginnings(c)[Len(c)]

RespInit == sent = << >> /\ wire = << >> /\ taken = 0 /\ last = None

Send(c) ==
  /\ Len(sent) < MaxCommands
  /\ sent' = Append(sent, c) /\ wire' = wire \o Bytes(c)
  /\ UNCHANGED <<taken, last>>

\* A read takes what has arrived, parses once, and the buffer is cleared.
Read(n) ==
  /\ wire' = SubSeq(wire, n + 1, Len(wire)) /\ taken' = taken + n
  /\ last' = [from |-> taken, upto |-> taken + n, parsed |-> Parsed(SubSeq(wire, 1, n))]
  /\ UNCHANGED sent

RespNext ==
  \/ \E c \in Commands : Send(c)
  \/ \E n \in 1..Len(wire) : Read(n)

RespSpec == RespInit /\ [][RespNext]_<<sent, wire, taken, last>>

-----------------------------------------------------------------------------
(* Properties.                                                             *)

\* Where on the wire the first i of the commands cs end, for each i.
EndsOf(cs) ==
  LET end[i \in 0..Len(cs)] == IF i = 0 THEN 0 ELSE end[i - 1] + Len(Bytes(cs[i]))
  IN  end

\* Where the i-th command begins, counted from 0.
Starts(i) == EndsOf(sent)[i - 1]

\* Whether the n-th of the bytes of c is one of a word's.
InWord(c, n) ==
  \E j \in 1..Len(c) :
    LET end == Len(Beginnings(c)[j])
    IN  n \in (end - 1 - Len(c[j]))..(end - 2)

\* A read that begins with a command is parsed as that command if it has arrived as a
\* whole, and as nothing before that.  What a cut has left of one is parsed as a
\* command only if the cut lies in a word: the code cannot tell a word that spells a
\* command from a command.
FirstWholeCommand ==
  last # None =>
    /\ \A i \in 1..Len(sent) : Starts(i) = last.from =>
         last.parsed = IF Starts(i + 1) <= last.upto THEN Normal(sent[i]) ELSE None
    /\ last.parsed # None =>
         \E i \in 1..Len(sent) : \/ Starts(i) = last.from
                                 \/ InWord(sent[i], last.from + 1 - Starts(i))
=============================================================================
