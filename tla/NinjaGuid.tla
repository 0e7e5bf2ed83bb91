------------------------------ MODULE NinjaGuid ------------------------------
(***************************************************************************)
(* How wb-homa-ninja-bridge names a control in the cloud: the block, the   *)
(* device and the control, escaped, put together with "---", and taken     *)
(* apart again when a command comes.  A string is a sequence of bytes.     *)
(***************************************************************************)
EXTENDS Integers, Sequences, SequencesExt

CONSTANT
  BlockId   \* the string that stands for this block

Dash == 45
Delimiter == <<Dash, Dash, Dash>>

Digit(n) == IF n < 10 THEN 48 + n ELSE 87 + n
HexDigits == (48..57) \cup (97..102) \cup (65..70)
DigitValue(b) == IF b <= 57 THEN b - 48 ELSE IF b >= 97 THEN b - 87 ELSE b - 55

Plain == (97..122) \cup (65..90) \cup (48..57) \cup {95}

\* snprintf(buf, 3, "%02x", ch): where char is signed a byte above 127 is an int
\* that begins with "ff", and no more than that fits.
HexOf(b, signed) ==
  IF b > 127 /\ signed THEN <<102, 102>> ELSE <<Digit(b \div 16), Digit(b % 16)>>

\* Slip: a dash needs no escape.
SelectorEscapeNoDash(str, signed) ==
  FlattenSeq([i \in DOMAIN str |->
    IF str[i] \in Plain \cup {Dash} THEN <<str[i]>> ELSE <<Dash>> \o HexOf(str[i], signed)])

SelectorEscape(str, signed) ==
  FlattenSeq([i \in DOMAIN str |->
    IF str[i] \in Plain THEN <<str[i]>> ELSE <<Dash>> \o HexOf(str[i], signed)])

\* strtoul of up to two characters; of none it is 0.
ToByte(digits) ==
  CASE Len(digits) = 0 -> 0
    [] Len(digits) = 1 -> DigitValue(digits[1])
    [] Len(digits) = 2 -> 16 * DigitValue(digits[1]) + DigitValue(digits[2])

\* A dash that is not followed by hexadecimal digits is kept.
SelectorUnescape(str) ==
  LET rest[i \in 1..Len(str) + 3] ==
        LET digits == SubSeq(str, i + 1, IF i + 2 <= Len(str) THEN i + 2 ELSE Len(str)) IN
          IF i > Len(str) THEN <<>>
          ELSE IF str[i] = Dash /\ \A d \in DOMAIN digits : digits[d] \in HexDigits
            THEN <<ToByte(digits)>> \o rest[i + 3]
          ELSE <<str[i]>> \o rest[i + 1]
  IN rest[1]

\* StringSplit: from left to right, empty parts included.
StringSplit(str, delimiter) ==
  LET size == Len(delimiter)
      at(i) == SubSeq(str, i, i + size - 1) = delimiter
      rest[i \in 1..Len(str) + 1] ==
        LET ends == {j \in i..Len(str) - size + 1 : at(j)}
            next == CHOOSE j \in ends : \A k \in ends : j <= k
        IN IF ends = {} THEN <<SubSeq(str, i, Len(str))>>
           ELSE <<SubSeq(str, i, next - 1)>> \o rest[next + size]
  IN rest[1]

GetGUID(device, control, signed) ==
  BlockId \o Delimiter \o SelectorEscape(device, signed)
          \o Delimiter \o SelectorEscape(control, signed)

\* <<>> when it is not a control of this block.
ParseGUID(guid) ==
  LET tokens == StringSplit(guid, Delimiter) IN
    IF Len(tokens) # 3 \/ tokens[1] # BlockId THEN <<>>
    ELSE <<SelectorUnescape(tokens[2]), SelectorUnescape(tokens[3])>>
=============================================================================
