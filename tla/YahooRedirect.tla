---------------------------- MODULE YahooRedirect ---------------------------
(***************************************************************************)
(* engines/yahoo.rs: the target of a Yahoo link, which Yahoo percent-      *)
(* encodes between "/RU=" and "/RK" or "/RS".  A text is a sequence of     *)
(* bytes in which each of these three markers is one negative number.      *)
(***************************************************************************)
EXTENDS Integers, Sequences, FiniteSetsExt

RU == -1
RS == -2
RK == -3

Percent == 37       \* '%'

\* from_hex: the value of a hexadecimal digit, or -1.
from_hex(byte) ==
    CASE byte \in 48 .. 57 -> byte - 48
      [] byte \in 97 .. 102 -> byte - 87
      [] byte \in 65 .. 70 -> byte - 55
      [] OTHER -> -1

\* Mutant of Escape: an escape that ends the text is left alone.
EscapeBeforeEnd(input, i) ==
    /\ input[i] = Percent /\ i + 2 < Len(input)
    /\ from_hex(input[i + 1]) >= 0 /\ from_hex(input[i + 2]) >= 0

\* There are two digits after the '%' at i.
Escape(input, i) ==
    /\ input[i] = Percent /\ i + 2 <= Len(input)
    /\ from_hex(input[i + 1]) >= 0 /\ from_hex(input[i + 2]) >= 0

percent_decode(input) ==
    LET output[i \in 1 .. Len(input) + 1] ==
          IF i > Len(input) THEN <<>>
          ELSE IF Escape(input, i)
                 THEN <<from_hex(input[i + 1]) * 16 + from_hex(input[i + 2])>> \o output[i + 3]
                 ELSE <<input[i]>> \o output[i + 1]
    IN  output[1]

\* A character: one byte (or a marker), or a first byte and the continuation
\* bytes it calls for, without overlong forms, surrogates or more than U+10FFFF.
Continues == 128 .. 191
IsChar(c) ==
    \/ Len(c) = 1 /\ c[1] < 128
    \/ Len(c) = 2 /\ c[1] \in 194 .. 223 /\ c[2] \in Continues
    \/ /\ Len(c) = 3 /\ c[1] \in 224 .. 239 /\ {c[2], c[3]} \subseteq Continues
       /\ c[1] = 224 => c[2] >= 160
       /\ c[1] = 237 => c[2] < 160
    \/ /\ Len(c) = 4 /\ c[1] \in 240 .. 244 /\ {c[2], c[3], c[4]} \subseteq Continues
       /\ c[1] = 240 => c[2] >= 144
       /\ c[1] = 244 => c[2] < 144

\* String::from_utf8 succeeds: the bytes are characters, one after the other.
Utf8(bytes) ==
    LET text[i \in 1 .. Len(bytes) + 1] ==
          \/ i = Len(bytes) + 1
          \/ \E n \in 1 .. 4 :
                i + n <= Len(bytes) + 1 /\ IsChar(SubSeq(bytes, i, i + n - 1)) /\ text[i + n]
    IN  text[1]

Places(text, markers) == {i \in DOMAIN text : text[i] \in markers}

parse_yahoo_redirect_url(raw_url) ==
    IF Places(raw_url, {RU}) = {} THEN raw_url
    ELSE LET encoded_start == SubSeq(raw_url, Min(Places(raw_url, {RU})) + 1, Len(raw_url))
             end_idx == Min(Places(encoded_start, {RS, RK}) \cup {Len(encoded_start) + 1})
             decoded == percent_decode(SubSeq(encoded_start, 1, end_idx - 1))
         IN  IF Utf8(decoded) THEN decoded ELSE raw_url
=============================================================================
