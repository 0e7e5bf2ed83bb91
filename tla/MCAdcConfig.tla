---------------------------- MODULE MCAdcConfig -----------------------------
(***************************************************************************)
(* Configurations with what the parser looks at: pairs of channels of one  *)
(* multiplexer, and items with and without one.                            *)
(***************************************************************************)
EXTENDS Integers, Sequences, TLC

CONSTANTS Refused, None

Ohms(number, unit) == [number |-> number, unit |-> unit]

Elements ==
  { [id |-> "a", mux_channel_number |-> 1],
    [id |-> "b", mux_channel_number |-> 7, readings_number |-> 1],
    [id |-> "c", type |-> "ohm_meter", mux_channel_number |-> 0,
     discharge_channel |-> 7, current |-> 300, resistance1 |-> Ohms(93, "kOhm"),
     resistance2 |-> Ohms(600, "Ohm")],
    [id |-> "d", type |-> "ohm_meter", resistance1 |-> Ohms(2, "MOhm")],
    [id |-> "e", resistance2 |-> Ohms(None, "kOhm")],
    [id |-> "f", current |-> 30], [id |-> "g", current |-> 320],
    [id |-> "h", current |-> -20], [id |-> "i", readings_number |-> 0] }

Items ==
  { extra @@ channels :
      channels \in {[channels |-> <<e, f>>] : e \in Elements, f \in Elements},
      extra \in { [gpios |-> <<32, 33, 34>>], [gpios |-> <<32, 33>>],
                  [averaging_window |-> 0], [averaging_window |-> 1],
                  [gpios |-> <<32, 33, 34>>, id |-> "own", averaging_window |-> 3] } }
  \cup { [id |-> "phys", readings_number |-> 2], [id |-> "phys", averaging_window |-> 0],
         [averaging_window |-> 2] }

SampleFiles ==
  { [kind |-> "missing"], [kind |-> "broken"] }
    \cup { [kind |-> "object", iio_channels |-> <<item>>] : item \in Items }
    \cup { [kind |-> "object", iio_channels |-> <<[id |-> "phys"], item>>] : item \in Items }

VARIABLES file, config

INSTANCE AdcConfig WITH Files <- SampleFiles
=============================================================================
