----------------------------- MODULE MCOneWire ------------------------------
(***************************************************************************)
(* An instance of OneWire for TLC: two thermometers, one of which may read *)
(* the power-on value.                                                     *)
(***************************************************************************)
EXTENDS OneWire

Good(t) == [crc |-> TRUE, data |-> t]
SensorFiles == [s \in Sensors |->
  IF s = CHOOSE x \in Sensors : TRUE THEN {Good(21000), Good(85000)} ELSE {Good(21000)}]
=============================================================================
