--------------------------------- MODULE Digits ---------------------------------
(***************************************************************************)
(* Bytes and decimal numbers as the codecs and the transport read them.    *)
(* Bytes are their codes.                                                  *)
(***************************************************************************)
EXTENDS Naturals, Sequences, SequencesExt

Byte == 0 .. 255

Plus == 43
Comma == 44
Minus == 45
Zero == 48
Colon == 58

IsDigit(byte) == 48 <= byte /\ byte <= 57
AllDigits(bytes) == \A i \in DOMAIN bytes : IsDigit(bytes[i])

\* length = length * 10 + digit - 48, from left to right
AddDigit(n, d) == n * 10 + (d - Zero)
Number(digits) == FoldLeft(AddDigit, 0, digits)

FirstColon(bytes) == SelectInSeq(bytes, LAMBDA byte : byte = Colon)

\* The decimal digits of a number, as str() writes it.
Decimal[n \in Nat] == IF n < 10 THEN << Zero + n >>
                      ELSE Append(Decimal[n \div 10], Zero + (n % 10))
================================================================================
