---------------------------- MODULE ModbusFormat ----------------------------
(***************************************************************************)
(* The conversions of wb-homa-modbus/modbus_client.cpp between the `int`   *)
(* a register handler keeps (the master value) and the 16-bit word, or the *)
(* coil bit, that crosses the RS-485 bus (the slave value).                *)
(*                                                                         *)
(* uint16_t and uint8_t are residues modulo 2^16 and 2^8; the casts to     *)
(* int16_t and int8_t are the two's complement readings of those residues. *)
(***************************************************************************)
EXTENDS Integers

Formats == {"U16", "S16", "U8", "S8"}
RegisterTypes == {"coil", "discrete", "holding", "input"}
Word == {w \in Nat : w < 65536}

-----------------------------------------------------------------------------

\* The two's complement reading of the residue w modulo n (n even).
AsSigned(w, n) == IF w < n \div 2 THEN w ELSE w - n

(***************************************************************************)
(* TRegisterHandler::ConvertSlaveValue and ConvertMasterValue.  `v & 255`  *)
(* and `v & 65535` on a negative int keep the low bits, which is what % is *)
(* in TLA+ for a positive modulus.                                         *)
(***************************************************************************)
\* Slip: the sign of 8-bit values forgotten.
ConvertSlaveValueNoSign8(f, w) ==
  CASE f = "U16" -> w
    [] f = "S16" -> AsSigned(w, 65536)
    [] f \in {"U8", "S8"} -> w % 256

ConvertSlaveValue(f, w) ==
  CASE f = "U16" -> w
    [] f = "S16" -> AsSigned(w, 65536)
    [] f = "U8"  -> w % 256
    [] f = "S8"  -> AsSigned(w % 256, 256)

ConvertMasterValue(f, v) ==
  IF f \in {"U8", "S8"} THEN v % 256 ELSE v % 65536

\* A coil and a discrete input are read as one bit (`b & 1`), the others
\* through their format.
ReadsBit(type) == type \in {"coil", "discrete"}

RegisterValue(type, f, w) ==
  IF ReadsBit(type) THEN w % 2 ELSE ConvertSlaveValue(f, w)

\* Only TCoilHandler and THoldingRegisterHandler override Write; the base
\* class throws "trying to write read-only register".
HasWrite(type) == type \in {"coil", "holding"}

\* What the slave stores for an accepted write: a holding register keeps the
\* word, a coil turns on for any word but 0 (libmodbus, modbus_write_bit).
StoredWord(type, word) ==
  IF type = "coil" THEN (IF word = 0 THEN 0 ELSE 1) ELSE word

-----------------------------------------------------------------------------

\* The master values a format can represent.
FormatRange(f) ==
  CASE f = "U16" -> {v \in Int : 0 <= v /\ v < 65536}
    [] f = "S16" -> {v \in Int : -32768 <= v /\ v < 32768}
    [] f = "U8"  -> {v \in Int : 0 <= v /\ v < 256}
    [] f = "S8"  -> {v \in Int : -128 <= v /\ v < 128}

\* What a register of format f holds after v was written to it and read again.
ReadBack(f, v) == ConvertSlaveValue(f, ConvertMasterValue(f, v))

Modulus(f) == IF f \in {"U8", "S8"} THEN 256 ELSE 65536

\* The defining property of the conversions, against which the masks and casts
\* of the code are compared: what is read back is the one value of the format
\* that is congruent to what was written.
ReadsBackCongruent(f, v) ==
  /\ ReadBack(f, v) \in FormatRange(f)
  /\ (ReadBack(f, v) - v) % Modulus(f) = 0

\* A value the format can represent survives a write and a read, so that the
\* poll after a command sees no change.
SurvivesRoundTrip(f, v) == v \in FormatRange(f) => ReadBack(f, v) = v

\* Only the 16-bit formats give the word back: writing what was read through
\* an 8-bit format clears the high byte of the register.
WriteBackKeepsWord(f, w) ==
  f \in {"U16", "S16"} => ConvertMasterValue(f, ConvertSlaveValue(f, w)) = w
=============================================================================
