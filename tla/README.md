# Verification of the wb-homa drivers

TLA+ models, model checks and proofs about the drivers of this repository: the
daemons that connect RS-485 devices, GPIO lines, 1-Wire sensors, ADC inputs and
a cloud service to the MQTT broker of a home-automation controller. Modules
are run with TLC; eight modules hold theorems proved with TLAPS.

## 1. Inventory

All daemons are MQTT clients built on `common/mqtt_wrapper.cpp`. Most have two
threads: the mosquitto thread, which calls `OnConnect` and `OnMessage`, and the
main thread, which polls hardware and publishes. A control is a topic whose last
value the broker retains; a command comes on `<control>/on`. Publications have
QoS 0 and their results are ignored.

| part | state it keeps | operations | what is hard |
|---|---|---|---|
| Modbus client (`wb-homa-modbus/modbus_client.cpp`) | per register: cached `value`, `dirty`, `did_read`; `Active` | `Cycle` (flush all, poll one), `SetRawValue` from the other thread, `WriteHoldingRegister` | lock regions smaller than operations, bus failures, conversions |
| Modbus port and observer (`modbus_port.cpp`, `modbus_observer.cpp`) | channel maps; the broker's retained payloads | `HandleMessage`, `OnModbusValueChange`, `PubSubSetup`, `WriteInitValues` | two threads publish the same topic, multi-register channels, outages, restarts |
| Uniel bus (`uniel.cpp`, `uniel_context.cpp`) | the serial line and its unread bytes | command, answer, timeout, reopen | a late answer taken for the answer of the next command |
| Modbus configuration (`modbus_config.cpp`) | templates, devices, channels | parse, merge | defaults and overrides; topics that coincide |
| GPIO driver (`wb-homa-gpio`) | per line: cached value, interrupt times, counters | interrupts, periodic update, `OnMessage` | debouncing, lost interrupts, two threads on one line |
| 1-Wire driver (`wb-homa-w1`) | known sensors | rescan, cleanup of retained topics | ordering of retained messages at start, outages |
| Ninja bridge (`wb-homa-ninja-bridge`) | controls cache, activation token | activation, local and cloud connections, GUID coding | two threads share the cache without a lock; connecting while being constructed |
| ADC driver (`wb-homa-adc`) | averaging rings, multiplexer position | `GetValue`, `SelectMuxChannel` | averaging over a moving multiplexer |
| MQTT logger (`mqtt-logger`) | the open log and its generations | append, rotate | renames in order, retained replay |
| Smartbus bridge (`wb-homa-smartbus`) | none | relay commands as CRC packets | byte orders; publication of "0" on each connection |
| MQTT wrapper, utilities (`common`) | observer list | dispatch, `StringSplit` | - |

What makes each correct: no command is lost or sent twice in the wrong order; what
the broker retains is what the hardware holds; a failure of one device leaves the
others alone; counters count every pulse once; caches shared by two threads stay
consistent. The `hazards` of `PROJECT.json` list these at their lines.

## 2. Plan

| step | state |
|---|---|
| 1. `ModbusFormat`, `ModbusClient`, `CommandDelivery`, `ModbusPort` | done, with proofs; the port composes the client (it `EXTENDS` it and adds the port's state and threads), the client implements `CommandDelivery` |
| 2. `UnielBus` | done; types and `OwnAnswer` proved |
| 3. `Gpio`, `GpioCounter` | done, with proofs |
| 4. `NinjaBridge`, `NinjaGuid` | done; types, the three safety properties of the bridge and the coding of GUIDs proved |
| 5. `OneWire` | done; types and `RetainedIsKnown` proved |
| 6. `ModbusConfig`, `Adc`, `AdcConfig`, `LogRotation`, `Smartbus` | done; all properties of the logger and of the ADC proved, `ChannelsAreUniform` of the Modbus configuration |

Left: several ports on one Modbus thread; the power a counter computes from its counts; an
abstract specification of a retained topic that follows its source, which the port, the GPIO
lines and 1-Wire would implement.

The small parts that know nothing of each other are checked by one run, `parts`
(section 8).

## 3. The Modbus driver

### Modules

| module | models |
|---|---|
| `ModbusFormat` | `ConvertSlaveValue`, `ConvertMasterValue`, the `Read` and `Write` of the four register types, with 16- and 8-bit residues |
| `ModbusClient` | `TModbusClient` and its handlers: one action per lock region or bus transaction of `Flush`, `Poll` and `Cycle`, `SetRawValue` of the other thread, the slaves, stop and start |
| `CommandDelivery` | what the client promises: the latest command for a register is sent at least once, nothing else is |
| `ModbusPort` | `TModbusPort`: `HandleMessage` register by register and then the echo, `OnModbusValueChange` register by register and then the publication, `WriteInitValues`, the broker's connection and retained payloads |
| `MCModbus*` | the instances TLC checks |
| `Modbus_proofs` | the theorems about all of them; `Parts_proofs` has those about a handler alone and about the configuration (section 8) |

State. `value`, `dirty`, `did_read` are the fields of `TRegisterHandler`; `mpc`,
`cur`, `fq`, `new_value`, `first_poll` are where the Modbus thread is and its
locals; `active` is `TModbusClient::Active`; `device` is what the slaves hold.
`asked` and `attempted` are history: the last value given to `SetRawValue` and
the last word handed to `Write`. In the port, `hpc`, `hch`, `hmsg`, `hi` are the
mosquitto thread in `HandleMessage`; `payload` is the string being composed by
`OnModbusValueChange`, as a sequence of items; `todo` the setup items to write;
`link` the connection; `retained` the broker.

Granularity. `Flush` is two steps (clear `dirty` under the lock; read `value`
and write, after the unlock). `Poll` is two steps (check `dirty` and read the
bus; compare under the lock). The check of `dirty` that opens `Poll` and the bus
read are one step: a command between them is a command right after them, since
the read touches nothing a command touches. The read of `value` that opens the
write and the write itself are one step for the same reason.

A failed write may have been executed by the slave (its answer was lost), so
`FlushWrite` chooses whether the word arrived; a read-only handler never sends.
`Stop` covers the init script, power loss and exceptions nobody catches.

### Runs

| run | question |
|---|---|
| `client` | can an interleaving of commands with flushes and polls lose or revert a command? No. Is every command eventually sent, and does the cache settle on what the slaves hold? Yes. |
| `port_quiet` | without commands, does the retained payload follow the registers? Yes. |
| `port_commands` | with commands, outages and restarts, is a placeholder ever published? No. |
| `port_race` | with commands, does the topic settle? No: a late echo or a late poll publication stays retained. |

The masks and casts of `ModbusFormat` are checked at every border of the formats
in `parts` (`Congruent`).

Bounds. `client` has three registers: a coil that is not polled, a register of
signed bytes that is sent a negative and a clipped value (300 is stored as 44), and
an input register that is sent commands it can't take. With three, a flush of one
falls between the poll and the flush of another, and `fq` passes `cur` on both sides.
`port_quiet` has a channel made of the registers 3 and 1 with another channel's
register between them, so that the channel is incomplete across polls; the words
of the switch include 0, the handler's initial value. `port_commands` has one
two-register channel with a well-formed and a short payload. The
counterexample on `TopicSettles` needs only one register. Nothing counts up, so
no counter is bounded.

Fairness. `ModbusThread` is weakly fair: `ModbusLoop` is an endless loop whose bus
transactions end with an answer or a timeout. `MosquittoThread` is weakly fair:
`loop_start` keeps its thread running and reconnects. Commands, changes of the
slaves, failures, stops and starts are never required to happen, and the
settling properties assume that they cease.

Findings. `port_race` refutes the comment "Publish current value (make retained)":
the counterexample is an infinite behaviour in which nothing disturbs the driver
any more and the retained payload stays wrong. `TopicSettles` fails with outages too
(constant `LinkFails`): a publication lost is never repeated.

Observation. `on_value` is used for publications only (`ItemOf`): a command "1" sends
1 and not the `on_value`, where `src/README.md:331` reads as if it were the value of "on".

### Proofs

The assumptions are those of the modules: at least one register, types and
formats as in the code, commands integers, slave words 16-bit, channels with
distinct registers.

* Conversions: by cases on the format, arithmetic modulo 2^8 and 2^16. `HandlerIsCongruent`
  (`Parts_proofs`) states the property `Congruent` of a handler and its slave, for any integers written.
* Client: `TypeCorrect` first. The inductive invariant is
  `TypeOK /\ OwedValueKept /\ LatestCommandAttempted`. `LatestCommandAttempted` is
  not inductive alone: when `FlushWrite` sends `value`, only `OwedValueKept` says that
  this is the value last asked for. `OwedValueKept` holds across `PollCompare`
  because of the second look at `dirty` under the lock, and across the gap
  between unlock and write because only `SetRawValue` runs there.
  `ClientDelivers` maps a command to owed from `SetRawValue` to `FlushWrite`,
  `FlushTake` included, and shows each step a `Command`, an `Attempt`, a `Forget` or a
  stutter.
* Port: its actions are written as the client's with the port's state around them, so each step
  is a client step or leaves the client alone (`PortUsesClient`, a lemma: it holds by the way the
  port is composed, given that a message being handled indexes registers of its channel). It lets
  the client's theorems be cited for the port (`PortLosesNoCommand`).
  `NoPlaceholderRetained` is proved in two layers. On the handlers
  (`HandlersInv`): a value that waits to be written is a command, and a register
  that was read has a value, except between the read and the comparison, when
  no payload is composed. On top of it (`ValuesInv`): the payload being composed, the
  message being handled and what is retained consist of such values, item by item.
  `PortTypeCorrect` rests on both.
* What is retained (`UncommandedIsCurrent`, `ReportingPortIsCurrent`): of a channel that takes no
  commands (`CurrentInv`), no register is dirty and the mosquitto thread is never in its
  message; once it is complete, it is retained as cached whenever no register of it is
  being polled, and up to the comparison of a register that was read before; a payload being
  composed has the items of the cached values so far. The theorem about a channel leaves the
  commands to all others free; `RetainedCurrent`, which is about all channels at once, follows
  for a port that takes no commands. Both are for as long as the connection holds
  (`LinkFails = FALSE`): a publication refused in an outage is not made again, the hazard at
  `modbus_port.cpp:150`.

* Setup (`OthersAreSetUp`): a failed write drops the items up to the first of another device,
  or all when there is none (`DropsOneDevice`); what follows stays in its order. The only invariant is
  that `todo` is a sequence of setup items (`SetupLeft`).

Only model-checked: every liveness property (`CacheSettles`, `DeliveryLive`, `TopicSettles`).

Not modelled: scaling and number formatting, meta topics, several ports on one
thread (their cycles run one after the other), debug output.

## 4. The Uniel bus

`UnielBus` models one port: the calls of the Modbus client come round-robin
(`Calls`), one at a time, and `CommandOf` maps each to the command on the bus.
`input` holds the bytes the port has received and nobody has read. The reader's
steps are those of `ReadResponse`: `Resync` skips one byte or two, `ReadAnswer` takes
a frame and checks it, `Timeout` ends the call when fewer bytes are there than it
waits for, `ReadFails` and `WriteFails` close the port. Modules answer commands in
order; an answer comes whole, or with one byte spoiled, lost or added, or not at all. A
write that fails has sent nothing a module executes.

`own` is history: a byte is own while the request it answers is in progress. Late
answers are a fault of their own (`"late"` in `Faults`): without it a call ends with
a timeout or a failed read only when no module is going to answer any more.

| run | question |
|---|---|
| `uniel` | with bad answers and failing ports, does a call get its own answer, and do calls recover? Yes. |
| `uniel_shift` | is a timeout transient? No: the late answer is read by the next call, whose own answer is read by the one after it, for ever. |

Bounds. `uniel` polls two modules for the same register, writes a coil and a
brightness, and makes a call that is refused; one command waits for its answer at
a time (`MaxWaiting`). `uniel_shift` polls one register and writes another, with two.
Fairness. `WF(Master)`: the polling loop is endless and every read ends with a byte,
a timeout or an error. `WF(Answer)`: modules that hear a command answer it.

Proofs. `TypeCorrect` of `UnielBus_proofs`: for any calls the bytes are octets, the commands
on the line are those of the calls, and a call that waits for its answer has the port
open, so that `EnsurePortOpen` never throws. It needs that some call is one the bus
can carry (`CommandAssumption`).

`AnswersAreOwn` is `OwnAnswer` for any calls, values and bounds while no answer is late. On a line that
spoils answers it needs `Unambiguous`: the checksum is a plain sum, and for some
commands it can't tell an answer with a byte added from another. A byte 0xff put before the
value of register 126, when that holds 126, makes a frame with a right sum and the value
255; so does a byte 0 before the sum when the sum is 0. `Unambiguous` names the sums and the
registers that are free of this, and TLC evaluates it for the calls of the runs. The
invariant (`BusInv`) is about what the reader has before it. Between two calls, and until the
module has answered, that is at most one byte, not 0xff (`Residue`): what a frame with a byte
added leaves behind is its sum, and a sum of 255 would begin the next frame. Then it is less than a frame,
or the answer as it came, intact or with one byte spoiled or added (`Arrives`), with at most one
byte to be skipped before it (`Reading`). A byte spoiled changes the sum or a byte that is compared
(`SpoiledIsWrong`); a byte added shifts the ones behind it (`ExtendedIsWrong`), which is
where `Unambiguous` is needed.

Observations. Nothing in an answer names the module (its address is 0), so that a late answer
for the same register of another module is taken for the right one. When the
checksum of an answer is 0xff, a stray 0xff before it shifts the reading by one byte.

The serial port's setup, the timing of the bytes
of an answer and commands for several registers (the client never asks) are not modelled.

## 5. The GPIO driver

| module | models |
|---|---|
| `Gpio` | plain channels: the main loop (`epoll_wait`, `CatchInterrupts`, `UpdateChannelValues`) and the mosquitto thread (`OnMessage`, the echo) |
| `GpioCounter` | one pulse counter: edge detection at the start, interrupts, scans, `GetInterval` |

State. `cached`, `age`, `firstTime` are the fields of `TSysfsGpio` (`age` is the time
since `Previous_Interrupt_Time`, kept as far as the code compares it: below 1 ms,
below 200 ms, above); `mpc`, `scanning`, `cur`, `caught`, `old`, `got` are where the main
loop is and its locals; `elapsed` is the time since the last scan against 1 and
500 ms; `echo`, `cmd` are the mosquitto thread between `SetValue` and its publication.
`lost`, `edges`, `impulses`, `failures`, `owed`, `dropped` are history.

Granularity. One step for each region under `G_mutex` (`GetValue`, `SetValue`), and
one for each word of `cached` read or written without it (`UpdateValue` saves and
restores it). A publication is a step of its own. In the counter only the main
thread moves; the line may change between any two of its steps.

| run | question |
|---|---|
| `gpio_settles` | does the retained value settle on the line's? Yes for inputs and for inverted outputs. |
| `parts`, part `lines` | with failing reads, outages and restarts, is the cached value of an input the retained one? Yes, unless its last publication was refused or was that of a failed read (`lost`, until the next that gets through). |
| `parts`, part `counter` | can a front be counted twice? No (a failed read may add a count of its own). Can a pulse be lost? Of those the loop had the time to read and that still go on: only with a dropped interrupt, or as the first publication. A pulse that is over when the line is read may be judged a wrong front and lost; no property speaks of it. |
| `counter_inverted` | is an impulse counted once on an inverted channel? No, twice. |

Inverted outputs settle thanks to an oddity: line 175 caches the inverted value, so
the scan after a command finds a difference and publishes again. A plain output has
no such second publication; one of the main loop that overtakes an echo stays
retained, as in `port_race`.

Bounds. `lines` has an inverted input with the edge "falling" and an inverted output nobody
commands (its faults make up the states), `gpio_settles` an input with interrupts, one without and
an inverted output that is commanded: the interrupts of one line must not keep the
others from being scanned.
`MaxEdges` bounds the changes to the active level, `MaxFailures` the reads that fail:
four changes and two failures allow a pulse with bounces on both ends after a counted one,
with a failing read at either. Because of
`MaxEdges` the line may come to rest and the loop with it: `counter_inverted` and `parts` do
not check deadlock. `InterruptAges` of the counter assumes that an iteration of the
loop takes less than 200 ms.

Fairness. `gpio_settles` runs `LiveSpec`, whose next-state relation (`Undisturbed`)
has none of the faults: a read that fails at the wrong moment or a publication refused in
an outage is not repeated, and the settling properties do not hold with
them. `WF(ClockRuns)`: time passes; `WF(MainThread)`: `epoll_wait` returns after 500 ms
at the latest; `WF(Echo)`: the mosquitto thread finishes its message.

Proofs (`Gpio_proofs`; the counter's in `Parts_proofs`). `InputCacheIsPublished`: `CacheIsPublished` alone is not inductive, because the
cache moves before the publication; the invariant adds that `old` is the cached value
until the comparison (`OldIsCached`) and that the value about to be sent is cached
(`GotIsCached`), which only holds of inputs, whose cache one thread writes.
`NoEdgeCountedTwice`: there is credit when a change or a failed read is not yet
counted, and a step may only be about to count with credit, within 200 ms of the
last count, or on the first publication. For inverted channels the interrupt comes at
the other end of the impulse and the argument fails where `counter_inverted` shows.
`LossesAreDrops`: while the line is active and nothing was dropped, a pulse owed to the
count has its interrupt pending or just taken (`OwedHasInterrupt`), and either publication
of an interrupt pays it.
Only model-checked: `InputSettles`, `InvertedOutputSettles`.

Observation. `FirstTime` swallows the first publication of a counter, whose cause may
be a real impulse; `CountsAreEdges` and `OnlyDroppedAreLost` allow for it.

Not modelled: power and totals computed from counts, meta topics, export of the pins,
the configuration.

## 6. The Ninja bridge

| module | models |
|---|---|
| `NinjaBridge` | the main thread (start, token file, activation, local connection) and the cloud handler's thread (greeting, commands), the controls cache, both brokers |
| `NinjaGuid` | `SelectorEscape`, `SelectorUnescape`, `GetGUID` and the parsing of a GUID, byte by byte |

State. `pc`, `token`, `held`, `handler` are the main thread: where it is between
`LoopFor` and `LoopForever`, the token file, `Token`, and how far the cloud handler has
got: constructed, then observed (`Init`). The file is "empty" when it was opened and not written, or
written in vain: `TryActivateBlock` takes whatever token the cloud answers with, an
empty one too, and `WriteToken` looks at no result but that of the opening. `known`,
`typed`, `disabled`, `val` are `ControlsCache`. `hand` is the message `OnMessage` has inserted
a control for and not yet stored anything of, `stored` the control whose value it has
stored and not yet sent, `reading` that value. `cloudLink`, `pos`, `at`, `picked`, `torn`,
`command` are the cloud handler's thread with the iteration of `OnCloudConnect`; `deaf` is a
connection that was accepted before `Init` registered the observer, which nobody ever greets.
`subs` counts the three subscriptions the local broker has taken, values first, export flags
last. `cloud`, `device`, `status` are what the two brokers hold. History: `given`, the token
the cloud gave to this process; `spoilt`, the controls on which the race or a lost command took
effect; `blind`, those replayed while the cloud handler was at work; `raced`, that the greeting
has read the `Export` of the control it is at between its insertion and its flag; `late`, a local
connection later than the activation.

Granularity. Every insertion into `ControlsCache`, and every read and write of a field of it that the
other thread may write or read, is a step. `OnMessage` is: the insertion of a new control, exported
and without a type and a value (`GetOrAddControlDesc`); the field (`OnType`, `OnExport`,
`OnValue`); for a value, the reading of what is to be sent (`ReadStored`) and the sending
(`SendStored`). The greeting reads `Export`, then `Type`, then `Value`, then sends (`GreetExport`,
`GreetType`, `GreetValue`, `GreetSend`). `ReadStored` looks at `Export` and `Type` in the step that
reads `Value`: its own thread alone writes them. All of this is without a lock in the code:
* an insertion during the iteration is a data race; `torn` records it, and the iteration may then
  miss any of what lies ahead (`GreetLosesWay`);
* a value written between the reading and the sending is sent in its old form;
* a control that is inserted for its export flag looks exported until the flag is stored. When the
  greeting passes in between, and the type comes before it reads that, the control is
  sent although its export is disabled. `ExportRespected` names this (`raced`), and TLC reaches
  it; without the exception the run fails.
A field is read and written whole: a `std::string` seen half-written by the other thread, which would be
undefined behaviour, is not modelled.

| run | question |
|---|---|
| `ninja` | is the cloud reached without a token, does a stale "Connected" survive, is an unexported control sent? Only when the cloud itself gave an empty one; no; and only in a replay that runs into the greeting, or when the greeting reads the flag between the insertion and the storing. Does the cloud get every value, does the status settle? Yes, except where named below. |
| `parts`, part `guid` | does a command come back to the control that was announced? Yes; outside ASCII only where `char` is unsigned. |

Bounds. A switch that is commanded and there from the start, and a sensor that must not be exported
and appears at any time; one outage of the local broker or restart at any
point; a device waits with its publication until the bridge has taken the last (`MaxInbox` 0).
All of it at once is too much for TLC, so a behaviour is of one of four scenarios
(`MCNinjaBridge`), each of which leaves out some of what may happen, never a step of the bridge: the
activation, with any answer, any writing and an outage or a restart, of the switch alone; both threads with both
controls and commands, undisturbed; the switch and its commands with a local outage; both
controls with an outage or a restart, without commands and new measurements. The safety properties
are theorems, so the combinations left out matter to `CloudFollows` and `StatusSettles` only.

What the properties exempt. `CloudFollows` is about a control that is exported, on which neither the
race nor the loss of a command took effect (`spoilt`, until the next greeting or value is sent),
that was not replayed with the cloud handler at work (`blind`), on a connection somebody
greets (not `deaf`), with a token (`given`). `StatusSettles` leaves out `deaf`, `late` and an empty
token. These are the hazards for which `PROJECT.json` gives no property: the code does
go wrong there.
The names of `guid` are all sequences of up to three of the bytes `-`, `2`, `d` and
0xd0, and single bytes at the borders of the cases.

Fairness. `WF(MainThread)`, `WF(Greeting)`, `WF(PublishCommand)`: both threads run.
`SF(LoopForEnds)`: `LoopFor` looks at the clock after each message, so that messages can't keep it
for ever. `WF(BrokerSubscribes)`: the broker answers. `WF(held = "token" /\ OnCloudConnect)`: the cloud accepts a token some day; it may refuse before,
and for ever when `StatusSettles` promises nothing, and need never accept an empty token. Commands, outages, restarts are not required to happen.

Proofs. `TokenIsUsable`: a handler is made behind "Activated" only. That is reached with a
token read from the file, or with what the cloud gave, empty or not. An empty file, whoever
left it, counts as none, so that an empty token is always of the same process; and a process with one
has an empty file (`TokenInv`).
`ConnectedIsOfThisProcess`: `OnConnect` overwrites the status before any subscription is
taken, so that a "Connected" seen with a subscription is this process's (`StatusInv`).
`ExportIsRespected`: on top of `TypeCorrect` and `TokenInv`. Nothing goes to the cloud before
there is a handler (`Activation`). Of each control that must not be exported and was not
replayed while the cloud handler was at work (`blind`), the invariant (`ExportInv`) says
where its flag is: with the last subscription taken, it is cached, in the hand of `OnMessage` or under
way; once `LoopFor` is over, it is cached or in the hand if the control is, and otherwise comes
before anything else about it. The greeting is past the reading of `Export` with such a control
only when it is `raced` (`SendInv`). The second follows from the first where `LoopFor` ends with all subscriptions taken
and nothing under way; where it does not, the controls there are count as `blind`.
Only model-checked: `CloudFollows`, `StatusSettles` (liveness).

`CommandsComeBack` (`Parts_proofs`) states `CommandComesBack` for names of any bytes and any length, and any
identifier of the block in which no dash follows a dash (the code builds it of "Wb" and hexadecimal
digits). The codings are recursive functions over positions, so the proof is about positions:
* an escaped text has its pieces at positions that follow from each other (`EscapeLaid`), and no
  dash in it is followed by another dash (`LaidTidy`). The only delimiters (three dashes) in the
  joined GUID are thus the two that `GetGUID` put there, and `StringSplit` finds the three parts
  (`ThreeParts`);
* that a walk over a text returns anything at all, and what it returns at a position in terms of later
  positions, is shown by induction from the end (`WalkExists`, `SplitExists`, `UnescapeExists`);
* `SelectorUnescape` takes each piece back to its byte (`DigitsBack`, `EscapeIsUndone`). Where `char` is
  signed, every byte above 127 is written as `-ff`; hence the exception in the property.

Not modelled: JSON, HTTP, the logging.

## 7. The 1-Wire driver

`OneWire` is one thread (`OnConnect`, `OnMessage`, and in `main` the scan) with
the broker at the end of two first-in-first-out lines, `up` and `down`. `prepare`, `known` are
`PrepareInit`, `Channels`; `unread` the channels `UpdateChannelValues` has still to read;
`link` is `dead` between the loss of a connection and the moment the driver notices.
`type`, `temp` are the retained topics. `lost` and `cut` name the sensors for which a
publication was lost, or cut off halfway.

| run | question |
|---|---|
| `one_wire` | when the message the driver sent itself has come back, does it know every retained value? Yes. Are the topics of absent sensors cleared, those of present ones published? Yes, unless a deletion was lost with the connection, or the process ended when a sensor had a type and no value. |

Bounds. Two sensors, one of which may read 85000, the value of a sensor that has not
measured; any of them may have been retained by an earlier process. A scan waits until the
broker has taken what was sent before (`MaxUp` 0): the poll interval is seconds long.
Outages and ends of the process at any point, any number of them.

Fairness. Each callback, the scan and each reading is weakly fair (`main` is an endless
loop with a timer), and so are the broker, the noticing of a loss (keepalive) and some
reconnection. The two settling properties assume that outages and restarts cease.

Proofs. `TypeCorrect`: for any sensors, readings and leftovers. `CleanUpIsComplete` states
`RetainedIsKnown`: the invariant (`DriverInv`) lists how far the clean-up has got
(`CleanUp`): which of the connection, the subscriptions and the driver's own message are under way
to the broker, and that the values sent back so far, with the channels known already, name
every retained topic (`Covered`). The own message is thus the last to come. Afterwards a retained value
is of a known channel unless its deletion is under way or was lost: no value of such a
sensor is in the queue without a deletion behind it (`Clean`). A connection that is lost takes both
queues with it (`LinkInv`).
Only model-checked: `AbsentCleared`, `PresentPublished` (liveness).

## 8. The small parts

`parts` checks nine parts in one run. None of them knows of another; `MCParts` chooses one
in the initial state, and the others rest in the only state that is then left to
them. A behaviour of the run is thus a behaviour of one part. `Parts` names the properties of four of
them, with the files, numbers and names as constants, for which `MCParts` gives samples and about
which `Parts_proofs` has the theorems; its assumptions are those of the theorems, and TLC
evaluates them for the samples.

| part | module | properties |
|---|---|---|
| `counter` | `GpioCounter` (section 5) | `CountsAreEdges`, `OnlyDroppedAreLost` |
| `lines` | `Gpio` (section 5) | `CacheIsPublished` |
| `format` | `ModbusFormat` (section 3) | `Congruent` |
| `guid` | `NinjaGuid` (section 6) | `CommandComesBack` |
| `modbus` | `ModbusConfig`: `TConfigParser` and what `TModbusPort` makes of its result; `MCModbusConfig` gives the files | `ChannelsAreUniform`, `CommandsReachPublisher` |
| `adc` | `Adc`: rings, multiplexer, current source, step by step | `RingIsWindow`, `OwnInput`, `VoltageWithoutCurrent` |
| `adcs` | `AdcConfig`: the configuration of `wb-homa-adc`; `MCAdcConfig` gives the files | `OwnSettings` |
| `log` | `LogRotation`: append, chain of renames, reopening, replay | `OldestGoesFirst`, `LogTellsState`, `RotationsArePaid` |
| `bus` | `Smartbus`, `MCSmartbus`: relay frames, and a receiver that divides bit by bit | `FrameIsAccepted` |

Modbus configuration. A JSON object is a record whose domain are the members it has, and
everything that throws is `Refused`. The files are pairs of channels of one device with what the
parser tells apart, pairs of devices on one port and on two, with and without a template and an
identifier of their own, setup sections, port settings. `CommandsReachPublisher` is stated for files
whose identifiers do not clash (`NoClash`): no identifier is given twice, and no two devices without
one are of one type at equal slave numbers, on whatever ports; none that is given is one the parser
makes for a device, or is empty; no two templates have one identifier, and no two channels of
a device one name. An empty identifier is worth a remark: `PubSubSetup` subscribes such a device
under the identifier of the MQTT client, `HandleMessage` looks for the empty one and finds nothing,
and `GetChannelTopic` publishes under `/devices//controls/`, so no command reaches the device. `config_parity` runs
`MCModbusConfig` alone and refutes `src/README.md:255`: the parity is stored into
the data bits and never reaches the port.

Proof of `ChannelsUniform` (`Parts_proofs`), for any set of configuration files and any directory of
templates. The assumption `FilesAreJson` says that what is to be an array in the files is one. A channel the parser does not refuse is as
announced (`ChannelAsAnnounced`): its check compares every register with the first. A device has the
channels of its template, then its own, each with the next order (`VectorsAnnounced`,
`BothAnnounced`), and no later step touches them (`PortLoaded`).

Proof of `CommandsReach` (`Parts_proofs`), from the same assumption and the invariant that `ports` is
what `LoadConfig` makes of `root`. A concatenation of sequences of at most one element takes each of
its elements from a sequence of its own (`FlattenChooses`), so that every loaded device is of a place
of the files of its own, its port's and its own index (`PortHomes`, `Homes`). The identifier of a
place is given, made of a template and the slave number, or made of the indices (`IdComesFrom`);
of each kind it tells what it is made of, and the kinds are apart, so different places have different
identifiers (`PlacesApart`, `DevicesApart`). A topic is then that of one channel of one port
(`TopicsApart`): its port's `Handler` finds it, the other ports' find nothing, and `Route` has one
port to choose from (`Arrive`).

Configuration of the ADC driver (`AdcConfig`). `HandlerChannels` are the constants of `Adc`. A
resistance is a number and a unit. `SettingsAreOwn` (`Parts_proofs`) states `OwnSettings` for files
of any size. Its assumption `FilesAreJson` asks for arrays where the code iterates, and for resistances in the units the code knows and small enough for an int; what
other units do is under the observations below. An element has its own members or the defaults (`ElementHasOwn`), an item that is not refused keeps its elements behind
the channel of its own (`ItemLoaded`), and the channels of the handler lie item after item, each
where the lengths of those before put it (`RowsLaid`, `RowStands`, `OffsetsAgree`).

ADC. `todo` is what `GetValue` still does: the pins of the multiplexer are set one by
one, and a process that ends in between leaves the hardware as it is (`pins`, `source`
survive `AdcRestart`). `last` is history, the window the ring stands for. The instance has
a voltage whose window is three rounds of one reading, and a resistance of two readings
that discharges another input first. Levels are the least and the greatest reading.
Volts and ohms are floating point and left out; so is a channel without a multiplexer,
which is one nobody switches.

Proofs (`Adc_proofs`), for any number of channels, inputs from 0 up (of which the multiplexer sees
the three lowest bits, hence the `% 8` of `OwnInput`), readings and windows from 1 up, any
levels and errors of the stream, and ends of the process between any two steps. The invariant
`AdcInv` has, besides the types:
* what is left to do (`TodoInv`), told by how many steps come after each, which the three steps
  `SetMuxABC` puts in front do not change: the readings that fill a window come in the order of their
  numbers and "ready" after the last; each comes right after its input was selected, or finds it
  selected; "off" and the publication are last;
* the pins (`PinsAgree`): those already set are the input's, and when none is left to set, the three
  are `CurrentMuxInput`, unless nothing was selected yet, when the next selection sets all;
* the current (`CurrentInv`): on only within a resistance, unless it was left on;
* the rings (`RingInv`): while a window is being filled its samples are the beginning of the buffer;
  afterwards the buffer turned to `Pos` is the window; `Sum` is the window's in both.
`SamplesAreOwn` follows from the first two, `VoltageIsUndisturbed` from the third,
`RingIsTheWindow` from the last. That a sum over a sequence changes by the sample added and
the one that leaves (`TotalAppend`, `TotalTail`) is proved by induction on its length.

Logs. Two topics, logs of two lines, three old logs, four publications, two ends of the process or
of the connection: enough for two rotations with one cut short between any two renames.
`RotationsArePaid` needs a log that may hold a line of each topic.

Proofs (`LogRotation_proofs`), for any finite set of topics, any number of old logs (at least one),
lines, publications and ends:
* `RotationKeepsOrder`: a log is at most as many places away from the front as there are younger
  ones, rotations cut short, and renames of the rotation under way (`Placed`), and the place a
  rename fills is empty except the last (`Vacated`); so what the last rename overwrites is older
  than what is due.
* `LogIsComplete`: the connection is lost, being made, accepted, or serves a subscription, and
  the last request under way is then to subscribe (`ConnectionInv`). The value of a topic
  is told by the log, by the last line about it that is under way, or will be by a replay
  that is asked for (`TellInv`).
* `ReplayCostsNoRotation`: when the topics fit in one log. A budget (`PaidInv`): the first log, each
  publication and, for each end, a line of every topic; the logs made, the lines in the log and
  under way, and a line of every topic for each subscription under way, stay within it. A rotation gives up
  more lines than a log may hold for one log and one replay, which cost no more. The first
  connection is an exception (`Fresh`): it is served before any line is written, and what it replays
  was paid for by its publications.

Smartbus. All commands of all relays, and each of the 256 entries of the table. The host is
little-endian, as the controller is.

`parts` does not check deadlock: most of the parts come to an end (a counter that has used
up its changes, a configuration that is loaded).

Observations. Resistances are in "MOhm" or "kOhm" in the code; `src/README.md:164`
writes "Mohm" and "kohm", which count as ohms. An ADC stream that has failed once is never
cleared: its channels go on publishing what was left in the variable (`Sample`). When the retained
values alone are more than the log may hold, each replay is the next rotation, for
ever. The Smartbus bridge publishes "0" for its controls on each connection, whatever
the relays are. The items of a template's setup are written before the device's own.

## 9. What is not modelled

* The MQTT wrapper and the utilities (`common`): libmosquitto calls without a state of
  their own; the dispatch and the loops are part of the drivers' modules.
* `imx233.h`: addresses and masks of registers; no behaviour.
* Scaling, text and floating point: `SetScaledValue`, `TextValue`, volts and ohms,
  the power of a counter. TLC has no floating point, and what they do to a value is not what
  the properties are about.
* Meta topics, except where a driver reads or clears them (1-Wire, the Ninja bridge); debug output;
  the export of GPIO pins.
* `on_connect` and `on_message` of the Smartbus bridge, which call what is modelled and publish.
* Several ports on one Modbus thread: their cycles run one after the other and share nothing.
* Tests, init scripts, packaging; that daemons are restarted is an action of the modules.

## 10. What is proved and what is not

Every safety property of the Modbus client and port, the Uniel bus, the GPIO lines and counters, the Ninja
bridge, the 1-Wire driver, the ADC driver and the logger is a theorem for all values of the
constants, and so are those of the register formats, the GUIDs and the configurations; the
theorems of `PROJECT.json` name the properties. With TLC alone stay:

* liveness under fairness (every property whose name ends in `Settles`, `CloudFollows`, `DeliveryLive`,
  `AbsentCleared`, `PresentPublished`, the recovery of the Uniel bus): out of the prover's reach;
* `FrameIsAccepted`: a table of 256 entries and exclusive or of words, which the proof system has no theory of.

Some hazards the code does not master: there a property names the exception and holds of the rest, so
it would not notice the hazard itself. `PROJECT.json` gives such a hazard no property, or says what is left.

| property | exempts |
|---|---|
| `CacheIsPublished` | a value whose publication was refused (`lost`) |
| `OnlyDroppedAreLost` | pulses over before they are read, dropped interrupts, the first publication |
| `CloudFollows`, `StatusSettles`, `ExportRespected` | `spoilt`, `blind`, `deaf`, `late`, `raced`, an empty token (section 6) |
| `AbsentCleared` | a deletion that was lost, until the next process cleans up; a type without a value |
| `CommandsReachPublisher` | configurations whose identifiers clash (`NoClash`) |
| `OwnSettings` | units in other spellings than the code's, those of `src/README.md:164` among them |
| `VoltageWithoutCurrent` | the current source left on by a process that ended, until a resistance is finished |
| `CommandComesBack` | bytes outside ASCII where `char` is signed |

Induction over data is done without the library's induction theorems, which take an operator: that
a set of numbers which is not empty has a least one follows from the well-founded order of the
naturals (`LeastNumber`), and that a set which holds 0 and with each number the next
holds all of them (`InductionUpTo`) from that. Definitions that a proof is about are recursive
functions, never `RECURSIVE` operators; that such a function exists is proved where it is needed
(`FlatExists` for the concatenation of the community modules, `WalkExists`). `Parts_proofs` begins with these lemmas and
holds the theorems about the counter, both configurations and the GUIDs.
