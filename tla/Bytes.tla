------------------------------- MODULE Bytes -------------------------------
(***************************************************************************)
(* Buffers of bytes as the parsers see them: a sequence of one-character   *)
(* symbols, positions counted from 1.                                      *)
(***************************************************************************)
EXTENDS Integers, Sequences, SequencesExt

CR == "\r"
LF == "\n"
EOL == <<CR, LF>>

Digits == <<"0", "1", "2", "3", "4", "5", "6", "7", "8", "9">>
IsDigit(b) == \E i \in 1..10 : Digits[i] = b
Value(b) == (CHOOSE i \in 1..10 : Digits[i] = b) - 1

(* memchr: the first position of b in buf[from..to], 0 when there is none. *)
memchr(buf, from, to, b) ==
    IF \E k \in from..to : buf[k] = b
      THEN CHOOSE k \in from..to : buf[k] = b /\ \A j \in from..(k - 1) : buf[j] # b
      ELSE 0

(* The byte at a position; past the end nothing matches it.                *)
At(buf, k) == IF k \in DOMAIN buf THEN buf[k] ELSE "end"
Has(buf, k, s) == \A j \in DOMAIN s : At(buf, k + j - 1) = s[j]

(* The position after the digits that begin at k, and what they count.     *)
RECURSIVE DigitsEnd(_, _)
DigitsEnd(buf, k) == IF IsDigit(At(buf, k)) THEN DigitsEnd(buf, k + 1) ELSE k
Number(buf, k) ==
    FoldLeft(LAMBDA n, b : n * 10 + Value(b), 0, SubSeq(buf, k, DigitsEnd(buf, k) - 1))

RECURSIVE Decimal(_)
Decimal(n) == IF n < 10 THEN <<Digits[n + 1]>> ELSE Append(Decimal(n \div 10), Digits[(n % 10) + 1])
=============================================================================
