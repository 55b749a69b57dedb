------------------------------ MODULE Encoding ------------------------------
(***************************************************************************)
(* ENCODE(key::BYTEA, 'base64') of Postgres, which the statements apply to *)
(* keys of kind Text. A text is a sequence of characters, each of them one *)
(* byte; Postgres breaks the encoded text into lines.                      *)
(***************************************************************************)
EXTENDS Integers, Sequences, SequencesExt

CONSTANTS
  Code,       \* [characters of the keys -> their bytes]
  LineLength  \* the characters of a line, 76 in Postgres

ASSUME EncodingAssumption ==
  /\ \A c \in DOMAIN Code : c \in STRING /\ Code[c] \in 0..255
  /\ LineLength \in Nat \ {0} /\ LineLength % 4 = 0

Digits ==
  <<"A", "B", "C", "D", "E", "F", "G", "H", "I", "J", "K", "L", "M", "N", "O", "P",
    "Q", "R", "S", "T", "U", "V", "W", "X", "Y", "Z", "a", "b", "c", "d", "e", "f",
    "g", "h", "i", "j", "k", "l", "m", "n", "o", "p", "q", "r", "s", "t", "u", "v",
    "w", "x", "y", "z", "0", "1", "2", "3", "4", "5", "6", "7", "8", "9", "+", "/">>

\* Three bytes are four digits: the byte at position n, none being zero, and
\* the k-th digit of the group that starts after n bytes.
Byte(text, n) == IF n \in DOMAIN text THEN Code[text[n]] ELSE 0
Group(text, n) == Byte(text, n + 1) * 65536 + Byte(text, n + 2) * 256 + Byte(text, n + 3)
Digit(text, n, k) ==
  IF k > 1 /\ n + k - 1 > Len(text) THEN "="
  ELSE Digits[((Group(text, n) \div 64 ^ (4 - k)) % 64) + 1]

Encode64(text) ==
  LET count == 4 * ((Len(text) + 2) \div 3)
      digit(i) == Digit(text, 3 * ((i - 1) \div 4), ((i - 1) % 4) + 1)
  IN FlattenSeq([i \in 1..count |->
       <<digit(i)>> \o (IF i % LineLength = 0 THEN <<"\n">> ELSE <<>>)])
=============================================================================
