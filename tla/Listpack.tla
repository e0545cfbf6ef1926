------------------------------ MODULE Listpack ------------------------------
(***************************************************************************)
(* The listpack of src/data_structures/listpack.rs, byte by byte: a header *)
(* of 6 bytes, entries of an encoding and a back length, and an end byte.  *)
(* A 64-bit number is the sequence of its eight bytes from the lowest to   *)
(* the highest (to_le_bytes), in two's complement.                         *)
(***************************************************************************)
EXTENDS ByteStrings

CONSTANTS
  Values,             \* the values that are appended: sequences of bytes
  Followers,          \* bound: those of them that are appended after the first
  MaxAppends,         \* bound: appends in a behaviour
  MaxBytes,           \* u32::MAX
  LP_NUMELE_UNKNOWN   \* u16::MAX

\* Values are byte strings, lengths fit the header, and None is none of what an Option
\* or a Result holds.
ASSUME ListpackAssumption ==
  /\ Values \subseteq Seq(Byte)
  /\ MaxBytes \in Nat /\ MaxBytes \div 65536 < 65536
  /\ LP_NUMELE_UNKNOWN \in 1..65535
  /\ None \notin Seq(Byte)
  /\ None \notin [value : [kind : {"String", "Int"}, value : Seq(Byte)], len : Nat]

VARIABLES
  data,   \* Listpack::data
  given   \* the values that have been appended

LP_HDR_SIZE == 6
LP_EOF == 255

\* n as k bytes from the lowest to the highest, and back from two or four.
ToLE(n, k) == [i \in 1..k |-> (n \div 256^(i - 1)) % 256]
U16(bs) == bs[1] + 256 * bs[2]
U32(bs) == bs[1] + 256 * (bs[2] + 256 * (bs[3] + 256 * bs[4]))

\* n bytes behind the first `offset` ones.
Slice(bytes, offset, n) == SubSeq(bytes, offset + 1, offset + n)

-----------------------------------------------------------------------------
(* strict_parse_i64: a text is a number only if it is how that number is   *)
(* printed.                                                                *)

Minus == 45

Zero64 == [i \in 1..8 |-> 0]
Min64  == [i \in 1..8 |-> IF i = 8 THEN 128 ELSE 0]

\* Arithmetic on the bytes of v from the lowest up, with a carry that starts at c.
Carry(step(_, _), c, v) ==
  LET carry[i \in 0..8] == IF i = 0 THEN c ELSE step(v[i], carry[i - 1]) \div 256
  IN  carry

Rippled(step(_, _), c, v) ==
  LET carry == Carry(step, c, v)
  IN  [carry |-> carry[8], bytes |-> [i \in 1..8 |-> step(v[i], carry[i - 1]) % 256]]

\* checked_mul(10) and checked_add(d): None when they overflow.
TimesTenPlus(v, d) ==
  LET times_ten(b, c) == 10 * b + c
      res == Rippled(times_ten, d, v)
  IN  IF res.carry # 0 THEN None ELSE res.bytes

Negated(v) ==
  LET complement(b, c) == 255 - b + c
  IN  Rippled(complement, 1, v).bytes

\* The number that the first i digits of ds make, for each i.
Prefixes(ds) ==
  LET val[i \in 0..Len(ds)] ==
        IF i = 0 THEN Zero64
        ELSE LET before == val[i - 1]
             IN  IF before = None THEN None ELSE TimesTenPlus(before, ds[i] - 48)
  IN  val

Unsigned(ds) == Prefixes(ds)[Len(ds)]

\* Mutant of Numeral: zeros may lead.
NumeralPadded(ds) == ds # << >> /\ \A i \in 1..Len(ds) : ds[i] \in Digits

Numeral(ds) ==
  ds # << >> /\ ds[1] # 48 /\ \A i \in 1..Len(ds) : ds[i] \in Digits

strict_parse_i64(input) ==
  LET negative == input # << >> /\ input[1] = Minus
      ds       == IF negative THEN Tail(input) ELSE input
      u        == Unsigned(ds)
  IN  CASE input = <<48>> -> Zero64
        [] input # <<48>> /\ ~Numeral(ds) -> None
        [] input # <<48>> /\ Numeral(ds) ->
             IF u = None THEN None
             ELSE IF negative THEN IF u[8] < 128 \/ u = Min64 THEN Negated(u) ELSE None
             ELSE IF u[8] < 128 THEN u ELSE None

-----------------------------------------------------------------------------
(* Encoding.                                                               *)

\* The header of a string of n bytes.
StringHeader(n) ==
  CASE n < 64 -> <<128 + n>>
    [] n >= 64 /\ n < 4096 -> <<224 + (n \div 256), n % 256>>
    [] n >= 4096 -> <<240>> \o ToLE(n, 4)

encode_string(s) == StringHeader(Len(s)) \o s

\* The number whose lowest bytes are bs and whose other bytes repeat the sign.
SignExtended(bs) ==
  [i \in 1..8 |-> IF i <= Len(bs) THEN bs[i] ELSE IF bs[Len(bs)] >= 128 THEN 255 ELSE 0]

\* v lies between the least and the greatest signed number of n bytes.
Fits(v, n) == v = SignExtended(SubSeq(v, 1, n))

\* The least number of bytes, of those an entry may have, that v fits.
Width(v) ==
  CHOOSE n \in {2, 3, 4, 8} : Fits(v, n) /\ \A k \in {2, 3, 4, 8} : Fits(v, k) => n <= k

\* The byte in front of a number of n bytes.
Mark(n) == CASE n = 2 -> 241 [] n = 3 -> 242 [] n = 4 -> 243 [] n = 8 -> 244

encode_int(v) ==
  LET n == Width(v)
  IN  IF Fits(v, 1) /\ v[1] < 128 THEN <<v[1]>>
      ELSE IF n = 2 /\ v[2] \in 0..15 \cup 240..255 THEN <<192 + (v[2] % 32), v[1]>>
      ELSE <<Mark(n)>> \o SubSeq(v, 1, n)

\* Mutant of backlen_size: 128 is taken to fit seven bits.
BacklenSizeWide(len) ==
  IF len <= 128 THEN 1 ELSE IF len < 16383 THEN 2 ELSE IF len < 2097151 THEN 3
  ELSE IF len < 268435455 THEN 4 ELSE 5

backlen_size(len) ==
  IF len <= 127 THEN 1 ELSE IF len < 16383 THEN 2 ELSE IF len < 2097151 THEN 3
  ELSE IF len < 268435455 THEN 4 ELSE 5

\* The greatest length that encode_backlen takes.
MaxEntry == 268435455

\* Seven bits to a byte from the highest; all but the first have the top bit set.
encode_backlen(len) ==
  LET n == backlen_size(len)
      part(i) == len \div 128^(n - i)
  IN  [i \in 1..n |-> IF i = 1 THEN part(i) % 256 ELSE (part(i) % 128) + 128]

-----------------------------------------------------------------------------
(* Decoding.                                                               *)

String(s) == [kind |-> "String", value |-> s]
Int64(v)  == [kind |-> "Int", value |-> v]

\* The bytes that say how an entry is encoded; 0 for those that do not.
HeaderLen(first) ==
  CASE first < 192 -> 1
    [] first \in 192..239 -> 2
    [] first = 240 -> 5
    [] first = 241 -> 3
    [] first = 242 -> 4
    [] first = 243 -> 5
    [] first = 244 -> 9
    [] first > 244 -> 0

\* The bytes of the string behind the header at offset.
StringLen(bytes, offset) ==
  LET first == bytes[offset + 1]
  IN  CASE first \in 128..191 -> first % 64
        [] first \in 224..239 -> 256 * (first % 16) + bytes[offset + 2]
        [] first = 240 -> U32(Slice(bytes, offset + 1, 4))
        [] first \notin 128..191 \cup 224..240 -> 0

ValueAt(bytes, offset) ==
  LET first == bytes[offset + 1]
      hdr   == HeaderLen(first)
  IN  CASE first < 128 -> Int64(SignExtended(<<first>>))
        [] first \in 128..191 \cup 224..240 ->
             String(Slice(bytes, offset + hdr, StringLen(bytes, offset)))
        [] first \in 192..223 ->
             Int64(SignExtended(<<bytes[offset + 2],
                                  IF first % 32 >= 16 THEN (first % 32) + 224
                                                      ELSE first % 32>>))
        [] first \in 241..244 -> Int64(SignExtended(Slice(bytes, offset + 1, hdr - 1)))

\* The value at offset and the length of its entry; None if it is corrupted.
decode_entry(bytes, offset) ==
  LET left == Len(bytes) - offset
      hdr  == HeaderLen(bytes[offset + 1])
      enc  == hdr + StringLen(bytes, offset)
      back == backlen_size(enc)
  IN  IF hdr = 0 \/ left < hdr THEN None
      ELSE IF left < enc + back \/ enc > MaxEntry THEN None
      ELSE IF Slice(bytes, offset + enc, back) # encode_backlen(enc) THEN None
      ELSE [value |-> ValueAt(bytes, offset), len |-> enc + back]

\* The entries from each offset on, as ListpackIter yields them.
EntriesFrom(bytes) ==
  LET from[o \in 0..Len(bytes)] ==
        IF o >= Len(bytes) THEN << >>
        ELSE IF bytes[o + 1] = LP_EOF THEN << >>
        ELSE LET e == decode_entry(bytes, o)
             IN  IF e = None THEN << >>
                 ELSE <<[value |-> e.value, at |-> o]>> \o from[o + e.len]
  IN  from

Entries(bytes) == EntriesFrom(bytes)[LP_HDR_SIZE]

iter(bytes) == LET es == Entries(bytes) IN [i \in 1..Len(es) |-> es[i].value]

-----------------------------------------------------------------------------
(* The listpack.                                                           *)

read_total_bytes(bytes) == U32(bytes)
read_num_elements(bytes) == U16(Slice(bytes, 4, 2))

new == ToLE(LP_HDR_SIZE + 1, 4) \o ToLE(0, 2) \o <<LP_EOF>>

len(bytes) ==
  LET n == read_num_elements(bytes)
  IN  IF n # LP_NUMELE_UNKNOWN THEN n ELSE Len(iter(bytes))

\* Mutant of NumElements: stops one short of the mark for an unknown number.
NumElementsStuck(bytes) ==
  LET n == read_num_elements(bytes)
  IN  IF n >= LP_NUMELE_UNKNOWN - 1 THEN n ELSE n + 1

NumElements(bytes) ==
  LET n == read_num_elements(bytes)
  IN  IF n = LP_NUMELE_UNKNOWN THEN n ELSE n + 1

\* The bytes with one more entry; None when they would be too many.
push_encoded_entry(bytes, encoded) ==
  LET back    == encode_backlen(Len(encoded))
      new_len == Len(bytes) + Len(encoded) + Len(back)
  IN  IF Len(encoded) > MaxEntry \/ new_len > MaxBytes THEN None
      ELSE ToLE(new_len, 4) \o ToLE(NumElements(bytes), 2)
             \o SubSeq(bytes, LP_HDR_SIZE + 1, Len(bytes) - 1)
             \o encoded \o back \o <<LP_EOF>>

Init == data = new /\ given = << >>

\* How a text is stored.
encoding(value) ==
  LET v == strict_parse_i64(value)
  IN  IF v # None THEN encode_int(v) ELSE encode_string(value)

append(value) ==
  LET res == push_encoded_entry(data, encoding(value))
  IN  /\ Len(given) < MaxAppends /\ (given = << >> \/ value \in Followers)
      /\ res # None
      /\ data' = res /\ given' = Append(given, value)

Next == \E value \in Values : append(value)

Spec == Init /\ [][Next]_<<data, given>>

-----------------------------------------------------------------------------
(* Properties.                                                             *)

\* How a number is printed: the reference that strict_parse_i64 must invert.
Remainders(v) ==
  LET rem[i \in 0..8] == IF i = 0 THEN 0 ELSE (256 * rem[i - 1] + v[9 - i]) % 10
  IN  rem

DivTen(v) ==
  LET rem == Remainders(v)
  IN  [rem |-> rem[8], quot |-> [i \in 1..8 |-> (256 * rem[8 - i] + v[i]) \div 10]]

\* After i steps: the digits that have been taken off the end of v, and what is left.
DigitsOff(v) ==
  LET off[i \in 0..20] ==
        IF i = 0 THEN [left |-> v, text |-> << >>]
        ELSE LET o == off[i - 1]
             IN  IF o.left = Zero64 /\ o.text # << >> THEN o
                 ELSE [left |-> DivTen(o.left).quot,
                       text |-> <<48 + DivTen(o.left).rem>> \o o.text]
  IN  off

Printed(v) ==
  IF v[8] >= 128 THEN <<Minus>> \o DigitsOff(Negated(v))[20].text
                 ELSE DigitsOff(v)[20].text

Text(value) == IF value.kind = "Int" THEN Printed(value.value) ELSE value.value

\* What is appended is read back, byte for byte, whichever encoding it is given and
\* whatever stands next to it; a text that is stored as a number loses nothing.
PackReadsBack ==
  LET read == iter(data)
  IN  [i \in 1..Len(read) |-> Text(read[i])] = given

\* The header tells the truth: the bytes, and the number of elements or that it is
\* unknown, which len() makes up for.
HeaderIsTrue ==
  /\ read_total_bytes(data) = Len(data)
  /\ data[Len(data)] = LP_EOF
  /\ len(data) = Len(given)

\* The back length that ends before offset: bytes are read to the left as long as
\* their top bit is set.
BackBits(bytes, start, n) ==
  LET bits[i \in 0..n] == IF i = 0 THEN 0
                          ELSE 128 * bits[i - 1] + (bytes[start + i] % 128)
  IN  bits

BackLength(bytes, offset) ==
  LET n == CHOOSE m \in 1..5 : bytes[offset + 1 - m] < 128
                               /\ \A j \in 1..(m - 1) : bytes[offset + 1 - j] >= 128
  IN  [size |-> n, len |-> BackBits(bytes, offset - n, n)[n]]

\* The back lengths lead from the end of each entry to its beginning, which is what
\* they are for, although nothing in the repository walks that way yet.
WalksBackwards ==
  LET es  == Entries(data)
      end(i) == IF i = Len(es) THEN Len(data) - 1 ELSE es[i + 1].at
  IN  \A i \in 1..Len(es) :
        LET b == BackLength(data, end(i)) IN end(i) - b.size - b.len = es[i].at
=============================================================================
