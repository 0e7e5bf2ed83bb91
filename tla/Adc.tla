--------------------------------- MODULE Adc ---------------------------------
(***************************************************************************)
(* wb-homa-adc with one multiplexer: the channels are measured one after   *)
(* another through it.  A channel keeps a ring of its last samples and     *)
(* publishes their average; for a resistance a current is sent through the *)
(* input while it is measured.                                             *)
(*                                                                         *)
(* The driver is one thread.  What outlives its process is the hardware:   *)
(* the pins of the multiplexer and the current source.                     *)
(***************************************************************************)
EXTENDS Integers, Sequences

CONSTANTS
  Channels,  \* a sequence of [resistive, input, discharge: or -1, readings, window]
  Levels,    \* what the converter may read
  Limit,     \* the least average out of range: ADC_VALUE_MAX, or what MaxVoltage allows
  Nothing

\* The configuration gives inputs and numbers of readings; the multiplexer looks at the
\* three lowest bits of an input.
ASSUME AdcAssumption ==
  /\ Channels \in Seq([resistive : BOOLEAN, input : Nat, discharge : Int,
                       readings : Nat \ {0}, window : Nat \ {0}])
  /\ Channels # <<>>
  /\ \A v \in Levels : v \in Int

VARIABLES
  todo,       \* what GetValue and UpdateChannelValues do next
  cur,        \* the channel they do it for
  muxInput,   \* CurrentMuxInput
  pins,       \* the three pins of the multiplexer (hardware)
  source,     \* whether the current source is on (hardware)
  stream,     \* AdcValStream has not failed
  buffer, sum, pos, ready,  \* of each channel
  published,  \* of each channel: an average, or Nothing for nothing and for "nan"
  last,       \* history: the last samples of each channel, the oldest first
  leftOn      \* history: the process ended while the source was on

ringVars == <<buffer, sum, pos, ready, last>>
adcVars == <<todo, cur, muxInput, pins, source, stream, ringVars, published, leftOn>>

Size(c) == Channels[c].readings * Channels[c].window
Zero == [input |-> Nothing, value |-> 0]

Step(do, n) == [do |-> do, n |-> n]

\* GetRawValue, once for each reading.
Samples(c, count) ==
  [k \in 1..2 * count |-> IF k % 2 = 1 THEN Step("mux", Channels[c].input)
                                       ELSE Step("read", k \div 2)]

GetAverageValue(c) ==
  IF ready[c] THEN Samples(c, Channels[c].readings)
  ELSE Append(Samples(c, Size(c)), Step("ready", 0))

Discharge(c) ==
  IF Channels[c].discharge = -1 THEN <<>> ELSE <<Step("mux", Channels[c].discharge)>>

SetUp(c) ==
  IF ~Channels[c].resistive THEN <<>>
  ELSE Discharge(c) \o <<Step("mux", Channels[c].input), Step("on", 0)>>

Finish(c) ==
  IF ~Channels[c].resistive THEN <<Step("publish", 0)>>
  ELSE <<Step("off", 0), Step("publish", 0)>>

\* TSysfsAdcChannel::GetValue or TSysfsAdcChannelRes::GetValue, and the publication.
GetValue(c) == SetUp(c) \o GetAverageValue(c) \o Finish(c)

\* What the constructors give a channel.
Buffers == [c \in DOMAIN Channels |-> [k \in 1..Size(c) |-> Zero]]
OfEach(x) == [c \in DOMAIN Channels |-> x]

AdcInit ==
  /\ todo = <<>> /\ cur = 1
  /\ muxInput = -1 /\ stream = TRUE
  /\ buffer = Buffers /\ sum = OfEach(0) /\ pos = OfEach(0) /\ ready = OfEach(FALSE)
  /\ last = OfEach(<<>>)
  /\ pins = <<0, 0, 0>> /\ source = FALSE
  /\ published = OfEach(Nothing)
  /\ leftOn = FALSE

Doing(do) == todo # <<>> /\ Head(todo).do = do
N == Head(todo).n

\* UpdateChannelValues, after a loop() without an error.
BeginChannel ==
  /\ todo = <<>>
  /\ todo' = GetValue(cur)
  /\ UNCHANGED <<cur, muxInput, pins, source, stream, ringVars, published, leftOn>>

Bits(n) == <<n % 2, (n \div 2) % 2, (n \div 4) % 2>>
Input == pins[1] + 2 * pins[2] + 4 * pins[3]

\* InitMux, once in a process, makes the pins outputs, which sets them low.
SetMuxABC ==
  /\ Doing("mux")
  /\ pins' = IF muxInput = -1 THEN <<0, 0, 0>> ELSE pins
  /\ todo' = (IF muxInput = N THEN <<>>
              ELSE <<Step("A", N), Step("B", N), Step("C", N)>>) \o Tail(todo)
  /\ UNCHANGED <<cur, muxInput, source, stream, ringVars, published, leftOn>>

\* Slip: a pin that is to be low is left as it is.
SetGPIOValueHigh ==
  \E bit \in 1..3 :
    /\ Doing(<<"A", "B", "C">>[bit])
    /\ pins' = [pins EXCEPT ![bit] = IF Bits(N)[bit] = 1 THEN 1 ELSE @]
    /\ muxInput' = IF bit = 3 THEN N ELSE muxInput
    /\ todo' = Tail(todo)
    /\ UNCHANGED <<cur, source, stream, ringVars, published, leftOn>>

\* One pin after another; CurrentMuxInput comes after the last.
SetGPIOValue ==
  \E bit \in 1..3 :
    /\ Doing(<<"A", "B", "C">>[bit])
    /\ pins' = [pins EXCEPT ![bit] = Bits(N)[bit]]
    /\ muxInput' = IF bit = 3 THEN N ELSE muxInput
    /\ todo' = Tail(todo)
    /\ UNCHANGED <<cur, source, stream, ringVars, published, leftOn>>

\* ReadValue: a stream that has failed once fails for ever, and what it leaves in
\* val is anything.
Reading == [input : {IF stream THEN Input ELSE Nothing}, value : Levels]

\* Slip: the position moves on before it is used.
RingIndexNext(c) == IF ready[c] THEN ((pos[c] + 1) % Size(c)) + 1 ELSE N

RingIndex(c) == IF ready[c] THEN pos[c] + 1 ELSE N

Sample ==
  /\ Doing("read")
  /\ \E v \in Reading :
       /\ buffer' = [buffer EXCEPT ![cur][RingIndex(cur)] = v]
       /\ sum' = [sum EXCEPT ![cur] =
                    @ - (IF ready[cur] THEN buffer[cur][RingIndex(cur)].value ELSE 0) + v.value]
       /\ last' = [last EXCEPT ![cur] =
                     Append(IF Len(@) = Size(cur) THEN Tail(@) ELSE @, v)]
  /\ pos' = IF ready[cur] THEN [pos EXCEPT ![cur] = (@ + 1) % Size(cur)] ELSE pos
  /\ todo' = Tail(todo)
  /\ UNCHANGED <<cur, muxInput, pins, source, stream, ready, published, leftOn>>

WindowFull ==
  /\ Doing("ready")
  /\ ready' = [ready EXCEPT ![cur] = TRUE]
  /\ todo' = Tail(todo)
  /\ UNCHANGED <<cur, muxInput, pins, source, stream, buffer, sum, pos, last, published,
                 leftOn>>

\* round(Sum / ChannelAveragingWindow), and what becomes of it.
Average(c) == (2 * sum[c] + Size(c)) \div (2 * Size(c))
InRange(c) == Average(c) < Limit

SetUpCurrentSource ==
  /\ Doing("on")
  /\ source' = TRUE
  /\ todo' = Tail(todo)
  /\ UNCHANGED <<cur, muxInput, pins, stream, ringVars, published, leftOn>>

\* Slip: a measurement out of range returns early.
SwitchOffInRange ==
  /\ Doing("off")
  /\ IF InRange(cur) THEN source' = FALSE /\ leftOn' = FALSE
     ELSE UNCHANGED <<source, leftOn>>
  /\ todo' = Tail(todo)
  /\ UNCHANGED <<cur, muxInput, pins, stream, ringVars, published>>

SwitchOffCurrentSource ==
  /\ Doing("off")
  /\ source' = FALSE /\ leftOn' = FALSE
  /\ todo' = Tail(todo)
  /\ UNCHANGED <<cur, muxInput, pins, stream, ringVars, published>>

PublishAverage ==
  /\ Doing("publish")
  /\ published' = [published EXCEPT ![cur] = IF InRange(cur) THEN Average(cur) ELSE Nothing]
  /\ cur' = (cur % Len(Channels)) + 1
  /\ todo' = Tail(todo)
  /\ UNCHANGED <<muxInput, pins, source, stream, ringVars, leftOn>>

ReadError ==
  /\ stream' = FALSE
  /\ UNCHANGED <<todo, cur, muxInput, pins, source, ringVars, published, leftOn>>

\* A pin that cannot be set, or anything else, ends the process.
AdcRestart ==
  /\ todo' = <<>> /\ cur' = 1
  /\ muxInput' = -1 /\ stream' = TRUE
  /\ buffer' = Buffers /\ sum' = OfEach(0) /\ pos' = OfEach(0) /\ ready' = OfEach(FALSE)
  /\ last' = OfEach(<<>>)
  /\ leftOn' = source
  /\ UNCHANGED <<pins, source, published>>

AdcNext ==
  \/ BeginChannel \/ SetMuxABC \/ SetGPIOValue \/ Sample \/ WindowFull
  \/ SetUpCurrentSource \/ SwitchOffCurrentSource \/ PublishAverage
  \/ ReadError \/ AdcRestart

AdcSpec == AdcInit /\ [][AdcNext]_adcVars

-----------------------------------------------------------------------------
(***************************************************************************)
(* Properties.                                                             *)
(***************************************************************************)

Total(samples) ==
  LET sums[n \in 0..Len(samples)] == IF n = 0 THEN 0 ELSE sums[n - 1] + samples[n].value
  IN  sums[Len(samples)]

\* The ring of a channel that is ready holds its last samples, the oldest at Pos,
\* and Sum is their sum, after every single reading.
RingIsWindow ==
  \A c \in DOMAIN Channels :
    ready[c] =>
      /\ SubSeq(buffer[c], pos[c] + 1, Size(c)) \o SubSeq(buffer[c], 1, pos[c]) = last[c]
      /\ sum[c] = Total(last[c])

\* A sample in the ring of a channel was taken from its own input, whatever the other
\* channels, the discharging and an end of the process between two pins did to
\* the multiplexer; until the stream fails.
OwnInput ==
  stream => \A c \in DOMAIN Channels : \A k \in DOMAIN last[c] :
              last[c][k].input = Channels[c].input % 8

\* A voltage is measured with the current source off, unless the process ended in the
\* middle of a resistance and has not come to another one.
VoltageWithoutCurrent ==
  Doing("read") /\ ~Channels[cur].resistive => ~source \/ leftOn
=============================================================================
