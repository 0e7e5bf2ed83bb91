------------------------------ MODULE MCParts -------------------------------
(***************************************************************************)
(* The small parts of the drivers, none of which knows of another: a       *)
(* behaviour is one of the part that is chosen in the initial state, and   *)
(* the others rest.                                                        *)
(*                                                                         *)
(*   counter   GpioCounter                                                 *)
(*   lines     Gpio, an input with interrupts and an output nobody         *)
(*             commands, with failing reads, outages and restarts          *)
(*   format    ModbusFormat, the conversions of registers                  *)
(*   modbus    ModbusConfig, the configurations of wb-homa-modbus          *)
(*   adc       Adc, a voltage whose window is three rounds of one reading  *)
(*             and a resistance that discharges another input first        *)
(*   adcs      AdcConfig, the configurations of wb-homa-adc                *)
(*   guid      NinjaGuid, the names of controls in the cloud               *)
(*   log       LogRotation, the files of mqtt-logger                       *)
(*   bus       Smartbus, the frames of wb-homa-smartbus                    *)
(***************************************************************************)
EXTENDS GpioCounter, LogRotation, Adc, Parts

VARIABLES
  part,
  levels, events, caches, ages, first, loop, time, where, scanning, line, caught, previous,
  got, echo, cmd, connected, values, lost,
  frame, taken, remainder

\* The channels of Adc.
VoltageAndResistance ==
  << [resistive |-> FALSE, input |-> 6, discharge |-> -1, readings |-> 1, window |-> 3],
     [resistive |-> TRUE, input |-> 3, discharge |-> 5, readings |-> 2, window |-> 1] >>

Plain == INSTANCE Gpio WITH
  NumLines <- 2, Outputs <- {2}, Inverted <- {1, 2}, Edge <- <<"falling", "none">>,
  Commanded <- {},
  level <- levels, event <- events, cached <- caches, age <- ages, firstTime <- first,
  loopFirst <- loop, elapsed <- time, mpc <- where, cur <- line, old <- previous,
  link <- connected, retained <- values

\* The constants of Parts.  The values around every boundary of the formats:
Boundaries == {-65536, -32768, -256, -128, 0, 128, 256, 32768, 65536}
AroundBoundaries == UNION {(b - 3)..(b + 3) : b \in Boundaries}

ModbusFiles == INSTANCE MCModbusConfig
ModbusRoots == ModbusFiles!SampleRoots
ModbusTemplates == ModbusFiles!SampleFiles

AdcSamples == INSTANCE MCAdcConfig WITH None <- NoNumber
AdcRoots == AdcSamples!SampleFiles

\* Names made of dashes, of digits that look like an escape, and of bytes outside
\* ASCII.
BlockB1 == <<98, 49>>
Letters == {45, 50, 100, 208}
SampleNames ==
  {<<b>> : b \in {1, 32, 95, 127, 128, 255}} \cup UNION {[1..n -> Letters] : n \in 0..3}

Bus == INSTANCE MCSmartbus

counterPart == vars
linesPart == <<levels, events, caches, ages, first, loop, time, where, scanning, line, caught,
               previous, got, echo, cmd, connected, values, lost>>
formatPart == <<format, number, word>>
modbusPart == <<root, ports>>
adcPart == adcVars
adcsPart == <<file, config>>
guidPart == <<device, control, signed, guid, parsed>>
logPart == logVars
busPart == <<frame, taken, remainder>>

-----------------------------------------------------------------------------
CounterRests ==
  /\ level = 0 /\ event = FALSE /\ gap = "long" /\ edge = "rising" /\ cached = 0
  /\ counts = 0 /\ age = "never" /\ firstTime = TRUE /\ loopFirst = TRUE
  /\ elapsed = "none" /\ mpc = "wait" /\ edges = 0 /\ impulses = 0 /\ failures = 0
  /\ owed = FALSE /\ dropped = FALSE
FormatRests == format = "U16" /\ number = 0 /\ word = 0
ModbusRests == root = [ports |-> <<>>] /\ ports = <<>>
AdcsRest == file = [kind |-> "missing"] /\ config = <<>>
GuidRests == device = <<>> /\ control = <<>> /\ signed = FALSE /\ guid = <<>> /\ parsed = <<>>

PartsInit ==
  /\ part \in {"counter", "lines", "format", "modbus", "adc", "adcs", "guid", "log", "bus"}
  /\ IF part = "counter" THEN Init ELSE CounterRests
  /\ IF part = "format" THEN Handler!Init ELSE FormatRests
  /\ IF part = "modbus" THEN Config!Init ELSE ModbusRests
  /\ IF part = "adcs" THEN Adcs!Init ELSE AdcsRest
  /\ IF part = "guid" THEN Guid!Init ELSE GuidRests
  /\ Plain!Init /\ (part # "lines" => levels = <<0, 0>> /\ events = {})
  /\ AdcInit /\ LogInit /\ Bus!Init

PartsNext ==
  \/ /\ part = "counter" /\ Next
     /\ UNCHANGED <<part, linesPart, formatPart, modbusPart, adcPart, adcsPart,
                    guidPart, logPart, busPart>>
  \/ /\ part = "lines" /\ Plain!Next
     /\ UNCHANGED <<part, counterPart, formatPart, modbusPart, adcPart, adcsPart,
                    guidPart, logPart, busPart>>
  \/ /\ part = "format" /\ Handler!Next
     /\ UNCHANGED <<part, counterPart, linesPart, modbusPart, adcPart, adcsPart,
                    guidPart, logPart, busPart>>
  \/ /\ part = "modbus" /\ Config!Next
     /\ UNCHANGED <<part, counterPart, linesPart, formatPart, adcPart, adcsPart,
                    guidPart, logPart, busPart>>
  \/ /\ part = "adc" /\ AdcNext
     /\ UNCHANGED <<part, counterPart, linesPart, formatPart, modbusPart, adcsPart,
                    guidPart, logPart, busPart>>
  \/ /\ part = "adcs" /\ Adcs!Next
     /\ UNCHANGED <<part, counterPart, linesPart, formatPart, modbusPart, adcPart,
                    guidPart, logPart, busPart>>
  \/ /\ part = "guid" /\ Guid!Next
     /\ UNCHANGED <<part, counterPart, linesPart, formatPart, modbusPart, adcPart,
                    adcsPart, logPart, busPart>>
  \/ /\ part = "log" /\ LogNext
     /\ UNCHANGED <<part, counterPart, linesPart, formatPart, modbusPart, adcPart,
                    adcsPart, guidPart, busPart>>
  \/ /\ part = "bus" /\ Bus!Next
     /\ UNCHANGED <<part, counterPart, linesPart, formatPart, modbusPart, adcPart,
                    adcsPart, guidPart, logPart>>

parts == <<part, counterPart, linesPart, formatPart, modbusPart, adcPart, adcsPart, guidPart,
           logPart, busPart>>
PartsSpec == PartsInit /\ [][PartsNext]_parts

-----------------------------------------------------------------------------
(***************************************************************************)
(* The properties of the parts, which are stated in their modules; those   *)
(* of the counter, the log, the ADC and of Parts are named as they are     *)
(* there, and hold of the states in which the other parts leave them.      *)
(***************************************************************************)

\* The value an input is compared with is the retained one, unless a publication
\* was lost.
CacheIsPublished == part = "lines" => Plain!CacheIsPublished

\* A relay module finds the length and the checksum of each frame right, and
\* every entry of the checksum table is the remainder it stands for.
FrameIsAccepted == part = "bus" => Bus!FrameIsAccepted
=============================================================================
