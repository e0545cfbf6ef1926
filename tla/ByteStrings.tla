---------------------------- MODULE ByteStrings ----------------------------
(***************************************************************************)
(* Texts as the data structures and the parser see them: sequences of      *)
(* bytes, and a byte is a number.                                          *)
(***************************************************************************)
EXTENDS Integers, Sequences

CONSTANT None   \* Option::None, and every Err

Byte   == 0..255
Digits == 48..57
=============================================================================
