------------------------------ MODULE AdcConfig ------------------------------
(***************************************************************************)
(* What wb-homa-adc makes of its configuration, and the channels the       *)
(* handler makes of that, which are the constants of Adc.                  *)
(*                                                                         *)
(* A JSON object is a record, whose domain are the members it has; a       *)
(* resistance is [number, unit], with None for a text that does not begin  *)
(* with a digit.  An exception or exit ends the program: Refused.          *)
(***************************************************************************)
EXTENDS Integers, Sequences, SequencesExt

CONSTANTS
  Files,   \* the configuration files there may be
  Refused,
  None

VARIABLES
  file,    \* the configuration file
  config   \* THandlerConfig::Channels, or Refused

avars == <<file, config>>

Has(object, member) == member \in DOMAIN object
Get(object, member, default) == IF Has(object, member) THEN object[member] ELSE default

\* Any other unit, "kohm" for one, counts as ohms.  The product is taken to fit an int.
ReadResistance(text) ==
  IF text.number = None THEN Refused
  ELSE text.number * CASE text.unit = "MOhm" -> 1000000
                       [] text.unit = "kOhm" -> 1000
                       [] OTHER -> 1

TMUXChannel ==
  [id |-> "", type |-> "", current |-> 40, resistance1 |-> 1000, resistance2 |-> 1000,
   mux_channel_number |-> 0, readings_number |-> 10, discharge_channel |-> -1]

\* The members of an element of "channels" over those of default.
Settings(data, default) ==
  LET resistance(m) == IF Has(data, m) THEN ReadResistance(data[m]) ELSE default[m]
      current == Get(data, "current", default.current)
  IN IF \/ current < 0 \/ current > 300 \/ current % 20 # 0
        \/ Refused \in {resistance("resistance1"), resistance("resistance2")}
       THEN Refused
       ELSE [m \in DOMAIN default |->
               IF m \in {"resistance1", "resistance2"} THEN resistance(m)
               ELSE Get(data, m, default[m])]

\* Slip: one element is used for all.
LoadChannelsOneElement(array) ==
  LET element[i \in DOMAIN array] ==
        LET before == IF i = 1 THEN TMUXChannel ELSE element[i - 1]
        IN IF before = Refused THEN Refused ELSE Settings(array[i], before)
  IN element

LoadChannels(array) == [i \in DOMAIN array |-> Settings(array[i], TMUXChannel)]

\* An item without "channels", and the first channel of one with "id" as well.
OwnChannel(item) ==
  IF ~Has(item, "id") THEN <<>>
  ELSE << [m \in DOMAIN TMUXChannel |->
             IF m \in {"id", "readings_number", "discharge_channel"}
               THEN Get(item, m, TMUXChannel[m]) ELSE TMUXChannel[m]] >>

LoadItem(item) ==
  LET window == Get(item, "averaging_window", 10)
      array == Get(item, "channels", <<>>)
      gpios == IF Has(item, "channels") THEN Get(item, "gpios", <<>>) ELSE <<>>
  IN IF \/ window < 1
        \/ Has(item, "channels") /\ Has(item, "gpios") /\ Len(gpios) # 3
        \/ Refused \in Range(LoadChannels(array))
       THEN Refused
       ELSE [averaging_window |-> window,
             type |-> IF Has(item, "channels") THEN "mux" ELSE "",
             gpios |-> gpios,
             mux |-> OwnChannel(item) \o LoadChannels(array)]

\* Without a file there are no channels.
LoadConfig(root) ==
  CASE root.kind = "missing" -> <<>>
    [] root.kind # "object" -> Refused
    [] OTHER -> LET items == [i \in DOMAIN root.iio_channels |-> LoadItem(root.iio_channels[i])]
                IN IF Refused \in Range(items) THEN Refused ELSE items

\* TMQTTAdcHandler: all channels of all handlers, one after another.
HandlerChannels(items) ==
  FlattenSeq([h \in DOMAIN items |->
    [i \in DOMAIN items[h].mux |->
      [resistive |-> items[h].mux[i].type = "ohm_meter",
       input |-> items[h].mux[i].mux_channel_number,
       discharge |-> items[h].mux[i].discharge_channel,
       readings |-> items[h].mux[i].readings_number,
       window |-> items[h].averaging_window,
       pins |-> IF items[h].type = "mux" THEN items[h].gpios ELSE <<>>,
       multiplexed |-> items[h].type = "mux"]]])

-----------------------------------------------------------------------------
(***************************************************************************)
(* The program reads the file once, when it starts.                        *)
(***************************************************************************)

Init == file \in Files /\ config = <<>>

Load == config' = LoadConfig(file) /\ UNCHANGED file

Next == Load

Spec == Init /\ [][Next]_avars

-----------------------------------------------------------------------------
(***************************************************************************)
(* Properties.                                                             *)
(***************************************************************************)

\* What the units stand for, and the most of each that is an int.
Unit == [MOhm |-> 1000000, kOhm |-> 1000, Ohm |-> 1]
Most == [MOhm |-> 2147, kOhm |-> 2147483, Ohm |-> 2147483647]
Resistances == {"resistance1", "resistance2"}

IsArray(s) == s \in Seq(Range(s))
IsResistance(text) ==
  text.unit \in DOMAIN Unit /\ (text.number = None \/ text.number \in 0..Most[text.unit])

\* What JSON is anyway, arrays where there are to be arrays, and resistances in units
\* the driver knows.
FilesAreJson ==
  \A f \in Files : f.kind = "object" =>
    /\ IsArray(f.iio_channels)
    /\ \A h \in DOMAIN f.iio_channels : Has(f.iio_channels[h], "channels") =>
         LET array == f.iio_channels[h].channels IN
           /\ IsArray(array)
           /\ \A i \in DOMAIN array : \A m \in Resistances \cap DOMAIN array[i] :
                IsResistance(array[i][m])

Loaded == config # Refused /\ file.kind = "object" /\ config # <<>>

HasOwn(element, data) ==
  /\ \A m \in DOMAIN TMUXChannel \ Resistances :
       element[m] = Get(data, m, TMUXChannel[m])
  /\ \A m \in Resistances :
       element[m] = IF Has(data, m) THEN data[m].number * Unit[data[m].unit] ELSE 1000

\* A channel has the settings of its own object and defaults for the rest, whatever
\* stands before it, a resistance in the unit it was given in, and it is measured
\* through the pins of its own item and averaged over that item's window.
OwnSettings ==
  Loaded =>
    \A h \in DOMAIN config : Has(file.iio_channels[h], "channels") =>
      LET item == file.iio_channels[h]
          own == IF Has(item, "id") THEN 1 ELSE 0
          before == Len(HandlerChannels(SubSeq(config, 1, h - 1)))
      IN \A i \in DOMAIN item.channels :
           LET element == config[h].mux[own + i]
               channel == HandlerChannels(config)[before + own + i]
           IN /\ HasOwn(element, item.channels[i])
              /\ channel.input = element.mux_channel_number
              /\ channel.readings = element.readings_number
              /\ channel.discharge = element.discharge_channel
              /\ channel.window = Get(item, "averaging_window", 10)
              /\ Has(item, "gpios") => channel.pins = item.gpios
=============================================================================
