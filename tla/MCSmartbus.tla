----------------------------- MODULE MCSmartbus -----------------------------
(***************************************************************************)
(* Smartbus for TLC: the frames of all commands, and the receiver's way to *)
(* check them, which is to divide bit by bit.                              *)
(***************************************************************************)
EXTENDS Smartbus

VARIABLES
  frame,     \* the last one written
  taken,     \* how many of its bytes the receiver has taken
  remainder  \* of the bytes from the length on

bvars == <<frame, taken, remainder>>

\* Eight steps of the division by x^16 + x^12 + x^5 + 1.
Divided(n) ==
  LET step[k \in 0..8] ==
        IF k = 0 THEN n
        ELSE IF step[k - 1] >= 32768 THEN ((2 * step[k - 1]) % 65536) ^^ \h1021
        ELSE 2 * step[k - 1]
  IN step[8]

Init == frame = <<>> /\ taken = 2 /\ remainder = 0

Toggle(channel, on) ==
  /\ frame' = toggle_switch(channel, on)
  /\ taken' = 2 /\ remainder' = 0

Receive ==
  /\ taken < Len(frame)
  /\ taken' = taken + 1
  /\ remainder' = Divided(remainder ^^ (frame[taken'] * 256))
  /\ UNCHANGED frame

Next ==
  \/ taken >= Len(frame) /\ \E channel \in RELAYS, on \in BOOLEAN : Toggle(channel, on)
  \/ Receive

Spec == Init /\ [][Next]_bvars

\* A relay module takes a frame whose length byte counts all from it on and whose
\* division, the checksum included, leaves nothing: the driver's table of remainders
\* and its two byte orders come to that for every command.  Every entry of the table
\* is the remainder it stands for, also those that no command of today uses.
FrameIsAccepted ==
  /\ taken = Len(frame) => frame[3] = Len(frame) - 2 /\ remainder = 0
  /\ frame = <<>> => \A b \in 0..255 : crc16_floating(b, 0) = Divided(b * 256)
=============================================================================
