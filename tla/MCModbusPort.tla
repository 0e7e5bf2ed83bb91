---------------------------- MODULE MCModbusPort ----------------------------
(***************************************************************************)
(* Instances of ModbusPort for TLC: an RGB-like channel made of two        *)
(* registers with a third register between them in polling order, and an   *)
(* on_value switch.                                                        *)
(***************************************************************************)
EXTENDS ModbusPort

\* "rgb" is made of the registers 3 and 1, "input" of register 2, a switch that
\* is on when the register holds 101.
ThreeType == <<"holding", "input", "holding">>
ThreeFormat == <<"U8", "U16", "S16">>
ThreePoll == <<TRUE, TRUE, TRUE>>
ThreeWords == << {1, 2}, {0, 101}, {65535} >>
ThreeChannels == {"rgb", "input"}
ThreeRegisters == [c \in ThreeChannels |-> IF c = "rgb" THEN <<3, 1>> ELSE <<2>>]
ThreeOnValue == [c \in ThreeChannels |-> IF c = "rgb" THEN -1 ELSE 101]
ThreeSetup == << [device |-> "d1", reg |-> 1, word |-> 1],
                 [device |-> "d1", reg |-> 3, word |-> 65535],
                 [device |-> "d2", reg |-> 1, word |-> 2] >>
ThreeInit == {<<1, 1>>, <<3, 65535>>, <<1, 2>>}

NoCommands == [r \in 1..3 |-> {}]
NoMessages == [c \in ThreeChannels |-> {}]

\* One register, one channel.
OneType == <<"holding">>
OneFormat == <<"U16">>
OnePoll == <<TRUE>>
OneWords == << {1, 2} >>
OneCommands == << {1, 5} >>
OneChannels == {"c"}
OneRegisters == [c \in OneChannels |-> <<1>>]
OneOnValue == [c \in OneChannels |-> -1]
OneMessages == [c \in OneChannels |-> {<<1>>, <<5>>}]
NoSetup == <<>>
NoInit == {}

\* A command topic with two registers, both polled.
PairType == <<"holding", "holding">>
PairFormat == <<"U8", "S16">>
PairPoll == <<TRUE, TRUE>>
PairWords == << {2}, {65535} >>
PairCommands == << {300}, {-7} >>
PairChannels == {"rgb"}
PairRegisters == [c \in PairChannels |-> <<2, 1>>]
PairOnValue == [c \in PairChannels |-> -1]
PairMessages == [c \in PairChannels |-> {<<-7, 300>>, <<5>>}]
PairSetup == << [device |-> "d1", reg |-> 2, word |-> 65535] >>
PairInit == {<<2, 65535>>}
=============================================================================
