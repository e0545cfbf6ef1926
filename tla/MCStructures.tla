---------------------------- MODULE MCStructures ----------------------------
(***************************************************************************)
(* Instances of the data structures and of the parser for TLC.  They do    *)
(* not interact: a behaviour exercises one of them.                        *)
(***************************************************************************)
EXTENDS Listpack, RespParser

CONSTANTS v1, v2, MaxInserts

VARIABLES part, root, inserts, put

\* Keys that branch, nest, and share prefixes of several lengths.
Keys == {<< >>, <<1>>, <<3>>, <<1, 2>>, <<1, 2, 3>>,
         <<1, 2, 1, 3>>, <<1, 2, 1, 2>>, <<2, 1, 1>>}

Vals == {v1, v2}

\* Texts of a digit sequence, and strings of one letter, n bytes long.
NumeralText(ds)  == [i \in 1..Len(ds) |-> 48 + ds[i]]
NegativeText(ds) == <<Minus>> \o NumeralText(ds)
Letters(n)   == [i \in 1..n |-> 97]

\* Numbers on both sides of every width, up to the ends of i64 and beyond.
Numbers ==
  {<<0>>, <<7>>, <<1, 2, 7>>, <<1, 2, 8>>, <<4, 0, 9, 5>>, <<4, 0, 9, 6>>, <<4, 0, 9, 7>>,
   <<3, 2, 7, 6, 7>>, <<3, 2, 7, 6, 8>>, <<3, 2, 7, 6, 9>>,
   <<8, 3, 8, 8, 6, 0, 7>>, <<8, 3, 8, 8, 6, 0, 8>>, <<8, 3, 8, 8, 6, 0, 9>>,
   <<2, 1, 4, 7, 4, 8, 3, 6, 4, 7>>, <<2, 1, 4, 7, 4, 8, 3, 6, 4, 8>>,
   <<2, 1, 4, 7, 4, 8, 3, 6, 4, 9>>,
   <<9, 2, 2, 3, 3, 7, 2, 0, 3, 6, 8, 5, 4, 7, 7, 5, 8, 0, 7>>,
   <<9, 2, 2, 3, 3, 7, 2, 0, 3, 6, 8, 5, 4, 7, 7, 5, 8, 0, 8>>,
   <<9, 2, 2, 3, 3, 7, 2, 0, 3, 6, 8, 5, 4, 7, 7, 5, 8, 0, 9>>,
   <<1, 8, 4, 4, 6, 7, 4, 4, 0, 7, 3, 7, 0, 9, 5, 5, 1, 6, 1, 6>>,
   <<0, 0>>, <<0, 1>>}

\* Strings on both sides of every length that changes a width, with the bytes that
\* end a listpack, mark an encoding or look like a header among them.
Strings ==
  {Letters(n) : n \in {0, 1, 63, 64, 125, 126, 127, 4095, 4096}}
    \cup {<<255>>, <<240, 255>>, <<45>>, <<49, 97>>, <<0, 0, 0, 0, 0, 0, 0, 1>>}

\* Lengths at which a back length takes a third byte.
LongStrings == {Letters(n) : n \in {16377, 16378, 16379}}

PackValues == {NumeralText(ds) : ds \in Numbers} \cup {NegativeText(ds) : ds \in Numbers}
            \cup Strings \cup LongStrings

PackFollowers == {NumeralText(<<0>>), NegativeText(<<4, 0, 9, 7>>), NumeralText(<<2, 1, 4, 7, 4, 8, 3, 6, 4, 8>>),
              << >>, <<255>>, <<240, 255>>, Letters(64), Letters(127)}

\* A command of one word, one with a name in small letters and an empty argument, one
\* with a word of two digits' length that holds a line end and a length, and one with
\* a word that spells the first.
ShortCommands ==
  {<< <<80>> >>, << <<112, 88>>, << >> >>,
   << <<120>>, <<36, 49, 13, 10, 97, 13, 10, 36, 97, 13>> >>,
   << <<120>>, <<42, 49, 13, 10, 36, 49, 13, 10, 80, 13, 10>> >>}

R == INSTANCE Radix

radix == <<root, inserts, put>>
pack  == <<data, given>>
resp  == <<sent, wire, taken, last>>

MCInit == part \in {"radix", "pack", "resp"} /\ R!Init /\ Init /\ RespInit

MCNext ==
  \/ part = "radix" /\ R!Next /\ UNCHANGED <<part, pack, resp>>
  \/ part = "pack" /\ Next /\ UNCHANGED <<part, radix, resp>>
  \/ part = "resp" /\ RespNext /\ UNCHANGED <<part, radix, pack>>

MCSpec == MCInit /\ [][MCNext]_<<part, radix, pack, resp>>

TreeIsMap        == R!TreeIsMap
TreeIsCompressed == R!TreeIsCompressed
=============================================================================
