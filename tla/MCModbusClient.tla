--------------------------- MODULE MCModbusClient ---------------------------
(***************************************************************************)
(* Instances of ModbusClient for TLC.  A register file is given by its     *)
(* types and formats; commands and slave words are chosen so that a write  *)
(* is kept, clipped to the low byte, reduced to a bit or refused.          *)
(***************************************************************************)
EXTENDS ModbusClient

\* A coil nobody polls (wo-switch), a register of signed bytes, where -1 is the word
\* 255 and 300 is stored as 44, and a read-only input register that is sent a
\* command all the same.
ThreeType == <<"coil", "holding", "input">>
ThreeFormat == <<"U16", "S8", "S8">>
ThreePoll == <<FALSE, TRUE, TRUE>>
ThreeCommands == << {1}, {-1, 300}, {5} >>
ThreeWords == << {0}, {0}, {254} >>
ThreeInit == {}
=============================================================================
