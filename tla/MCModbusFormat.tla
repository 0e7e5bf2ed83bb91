--------------------------- MODULE MCModbusFormat ---------------------------
(***************************************************************************)
(* A register handler that writes its value and reads the register, over   *)
(* and over, and a slave that changes it.                                  *)
(***************************************************************************)
EXTENDS ModbusFormat

CONSTANT Written   \* the integers that may be written at first

VARIABLES format, value, word

vars == <<format, value, word>>

Init ==
  /\ format \in Formats
  /\ value \in Written
  /\ word = 0

Write == word' = ConvertMasterValue(format, value) /\ UNCHANGED <<format, value>>

Read == value' = ConvertSlaveValue(format, word) /\ UNCHANGED <<format, word>>

SlaveChange ==
  /\ word' \in Written \cap Word
  /\ UNCHANGED <<format, value>>

Next == Write \/ Read \/ SlaveChange

Spec == Init /\ [][Next]_vars

\* Whatever integer is written, the register reads back the value of the format
\* congruent to it (ConvertMasterValue, then ConvertSlaveValue).
Congruent == ReadsBackCongruent(format, value)
=============================================================================
