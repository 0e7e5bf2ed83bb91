-------------------------------- MODULE Parts --------------------------------
(***************************************************************************)
(* Four small parts of the drivers that know nothing of each other, with   *)
(* what is to hold of each: the conversions of a register, the             *)
(* configurations of the Modbus and of the ADC driver, the names of        *)
(* controls in the cloud.                                                  *)
(***************************************************************************)
EXTENDS Integers, Sequences

CONSTANTS
  Written,     \* the integers that may be written to a register at first
  Roots,       \* configuration files of the Modbus driver
  Files,       \* its directory of templates
  AdcFiles,    \* configuration files of the ADC driver
  Refused,
  NoNumber,    \* what a text that does not begin with a digit is as a number
  BlockId,     \* the string that stands for a block
  Names        \* the names devices and controls may have

VARIABLES
  format, number, word,
  root, ports,
  file, config,
  device, control, signed, guid, parsed

Handler == INSTANCE MCModbusFormat WITH value <- number
Config == INSTANCE ModbusConfig
Adcs == INSTANCE AdcConfig WITH Files <- AdcFiles, None <- NoNumber
Guid == INSTANCE MCNinjaGuid

\* The bytes, and the strings of them.
Byte == {b \in Nat : b < 256}
Text == Seq(Byte)

\* Behind every dash something else follows: neither begins a delimiter in such a
\* text, nor does one that begins in front of another text.
Tidy(s) == \A i \in 1..Len(s) : s[i] = 45 => i + 1 <= Len(s) /\ s[i + 1] # 45

ASSUME WrittenAssumption == Written \subseteq Int
ASSUME FilesAssumption == Config!FilesAreJson
ASSUME AdcFilesAssumption == Adcs!FilesAreJson

\* The identifier of a block is "Wb" and hexadecimal digits.
ASSUME NamesAssumption == BlockId \in Text /\ Tidy(BlockId) /\ Names \subseteq Text

-----------------------------------------------------------------------------
\* Whatever integer is written, the register reads back the value of the format
\* congruent to it.
Congruent == Handler!Congruent

\* What a channel of wb-homa-modbus announces holds for each of its registers.
ChannelsAreUniform == Config!ChannelsAreUniform

\* A command goes to the port, device and registers whose value is retained under
\* its topic, unless identifiers are given twice.
CommandsReachPublisher == Config!CommandsReachPublisher

\* An ADC channel has its own settings, in the units given, and its own pins.
OwnSettings == Adcs!OwnSettings

\* A command of the cloud comes back to the control that was announced, given
\* names in ASCII or an unsigned char.
CommandComesBack == Guid!CommandComesBack
=============================================================================
