------------------------------- MODULE Base64 -------------------------------
(***************************************************************************)
(* encode() and decode() of src/src/encoding/base64.h. Bytes are numbers   *)
(* below 256, a text is a sequence of character codes.                     *)
(*                                                                         *)
(* A plain char is signed on the x86 machines that run the simulator and   *)
(* unsigned on the ARM ones with a panel; encode() depends on it.          *)
(***************************************************************************)
EXTENDS Integers, Sequences, SequencesExt

Pad == 61

(* kChars.                                                                 *)
CharOf(digit) ==
    CASE digit < 26             -> 65 + digit
      [] digit \in 26..51       -> 97 + digit - 26
      [] digit \in 52..61       -> 48 + digit - 52
      [] digit = 62             -> 43
      [] digit = 63             -> 47

Char(byte, signed) == IF signed /\ byte >= 128 THEN byte - 256 ELSE byte

(* temp, with its bits above the 24th left out: no mask reaches them.      *)
Temp(group, signed) ==
    LET c(i) == IF i > Len(group) THEN 0 ELSE Char(group[i], signed)
    IN  (c(1) * 65536 + c(2) * 256 + c(3)) % 16777216

(* Mutant: a group of two bytes is taken for one of one byte.              *)
EncodeGroup_DropsLow(group, signed) ==
    LET temp == Temp(group, signed)
        digits == <<temp \div 262144, (temp \div 4096) % 64, (temp \div 64) % 64, temp % 64>>
    IN  [i \in 1..4 |-> IF i <= Len(group) THEN CharOf(digits[i]) ELSE Pad]

EncodeGroup(group, signed) ==
    LET temp == Temp(group, signed)
        digits == <<temp \div 262144, (temp \div 4096) % 64, (temp \div 64) % 64, temp % 64>>
    IN  [i \in 1..4 |-> IF i <= Len(group) + 1 THEN CharOf(digits[i]) ELSE Pad]

Groups(s, n) == [k \in 1..((Len(s) + n - 1) \div n) |-> SubSeq(s, n * (k - 1) + 1, Min({n * k, Len(s)}))]

Encode(bytes, signed) ==
    LET groups == Groups(bytes, 3)
    IN  FlattenSeq([k \in DOMAIN groups |-> EncodeGroup(groups[k], signed)])

-----------------------------------------------------------------------------
Error == <<-1>>     \* decode() throws

NoDigit == -1

DigitOf(char) ==
    CASE char \in 65..90        -> char - 65
      [] char \in 97..122       -> char - 71
      [] char \in 48..57        -> char + 4
      [] char = 43              -> 62
      [] char = 47              -> 63
      [] OTHER                  -> NoDigit

(* The bytes in the first n digits of a group.                             *)
Bytes(d, n) ==
    LET temp == IF n = 2 THEN d[1] * 64 + d[2] ELSE (d[1] * 64 + d[2]) * 64 + d[3]
    IN  CASE n = 2 -> <<temp \div 16>>
          [] n = 3 -> <<temp \div 1024, (temp \div 4) % 256>>
          [] n = 4 -> <<temp \div 1024, (temp \div 4) % 256, (temp * 64 + d[4]) % 256>>

(* Mutant: padding ends any group, not only the last one.                  *)
DecodeGroup_AnyPad(group, last) ==
    LET d == [i \in 1..4 |-> DigitOf(group[i])]
        stop == SelectInSeq(d, LAMBDA x : x = NoDigit)
    IN  CASE stop = 0                                   -> Bytes(d, 4)
          [] stop \in {3, 4} /\ group[stop] = Pad       -> Bytes(d, stop - 1)
          [] OTHER                                      -> Error

(* The first '=' of the last group ends the text: what follows it is not   *)
(* looked at.                                                              *)
DecodeGroup(group, last) ==
    LET d == [i \in 1..4 |-> DigitOf(group[i])]
        stop == SelectInSeq(d, LAMBDA x : x = NoDigit)
    IN  CASE stop = 0                                       -> Bytes(d, 4)
          [] last /\ stop \in {3, 4} /\ group[stop] = Pad   -> Bytes(d, stop - 1)
          [] OTHER                                          -> Error

Decode(text) ==
    LET groups == Groups(text, 4)
        parts == [k \in DOMAIN groups |-> DecodeGroup(groups[k], k = Len(groups))]
    IN  IF Len(text) % 4 # 0 \/ Error \in {parts[k] : k \in DOMAIN parts} THEN Error
        ELSE FlattenSeq(parts)

=============================================================================
