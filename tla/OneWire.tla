------------------------------ MODULE OneWire -------------------------------
(***************************************************************************)
(* wb-homa-w1: thermometers on a 1-Wire bus, seen through sysfs.  One      *)
(* thread runs loop(), whose callbacks are OnConnect and OnMessage, and    *)
(* looks at the bus when the poll interval is over.                        *)
(*                                                                         *)
(* At its start the driver learns which sensors have a retained value, in  *)
(* order to delete those that are gone: it subscribes to its own controls  *)
(* and sends itself a message that must come back after all retained ones. *)
(*                                                                         *)
(* The connection is two first-in-first-out lines.  What has not reached   *)
(* the broker when the connection is lost or the process ends is lost, and *)
(* nobody looks at the results of publications (QoS 0).                    *)
(***************************************************************************)
EXTENDS Integers, Sequences, FiniteSets, SequencesExt

CONSTANTS
  Sensors,    \* device names that start with "28-" or "10-"
  Files,      \* Files[s]: what its w1_slave may hold, [crc: has "YES", data: t=]
  Outages,    \* whether the connection may be lost
  Crashes,    \* whether the process may end and be started again
  MaxUp,      \* bound on what waits for the broker when a scan begins
  None        \* no file, no retained message, no value

ASSUME SensorsAssumption == IsFiniteSet(Sensors) /\ None \notin Sensors
ASSUME FilesAssumption ==
  /\ \A s \in Sensors : \A f \in Files[s] : f.crc \in BOOLEAN /\ f.data \in Int
  /\ \A s \in Sensors : None \notin Files[s]
  /\ None \notin Int
ASSUME BoundAssumption == MaxUp \in Nat /\ {Outages, Crashes} \subseteq BOOLEAN

VARIABLES
  bus,        \* bus[s]: the file of s, None when s is not on the bus
  prepare,    \* PrepareInit
  known,      \* Channels
  unread,     \* the channels UpdateChannelValues has still to read
  link,       \* "up"; "dead": lost, not noticed; "down": noticed
  up,         \* from the driver to the broker
  down,       \* from the broker to the driver
  subs,       \* the driver's subscriptions (external)
  type,       \* sensors with a retained meta/type (external)
  temp,       \* temp[s]: the retained value (external)
  lost,       \* history: sensors with a publication lost since the start
  cut         \* history: sensors whose topics an end of the process or of the
              \* connection left halfway

driverVars == <<prepare, known, unread>>
brokerVars == <<subs, type, temp>>
historyVars == <<lost, cut>>
vars == <<bus, driverVars, link, up, down, brokerVars, historyVars>>

\* Messages.
Connect == [kind |-> "connect", sensor |-> None, value |-> None]
SubscribeControls == [kind |-> "controls", sensor |-> None, value |-> None]
SubscribeHack == [kind |-> "hack topic", sensor |-> None, value |-> None]
Unsubscribe == [kind |-> "unsubscribe", sensor |-> None, value |-> None]
Hack == [kind |-> "hack", sensor |-> None, value |-> None]
Type(s, v) == [kind |-> "type", sensor |-> s, value |-> v]
Value(s, v) == [kind |-> "value", sensor |-> s, value |-> v]

AboutSensor(m) == m.kind \in {"type", "value"}
Dropped(queue) == {queue[i].sensor : i \in {j \in DOMAIN queue : AboutSensor(queue[j])}}

BusStates == {b \in [Sensors -> (UNION {Files[s] : s \in Sensors}) \cup {None}] :
                \A s \in Sensors : b[s] \in Files[s] \cup {None}}

\* Some sensors have topics retained by an earlier process.
Init ==
  /\ bus \in BusStates
  /\ prepare = TRUE
  /\ known = {}
  /\ unread = {}
  /\ link = "up"
  /\ up = <<Connect>>
  /\ down = <<>>
  /\ subs = {}
  /\ \E old \in SUBSET Sensors :
       /\ type = old
       /\ temp = [s \in Sensors |-> IF s \in old THEN 0 ELSE None]
  /\ lost = {}
  /\ cut = {}

\* Publish, Subscribe, unsubscribe: message after message.
Send(messages) ==
  IF link = "up"
    THEN up' = up \o messages /\ UNCHANGED historyVars
    ELSE /\ lost' = lost \cup Dropped(messages)
         /\ cut' = cut \cup Dropped(messages)
         /\ UNCHANGED up

-----------------------------------------------------------------------------
(***************************************************************************)
(* The driver.                                                             *)
(***************************************************************************)

Present == {s \in Sensors : bus[s] # None}

\* Slip: the channels found are added to the known ones instead of swapped in.
RescanBusMerges ==
  LET added == SetToSeq(Present \ known) IN
    /\ known' = known \cup Present
    /\ Send([i \in DOMAIN added |-> Type(added[i], "temperature")])

\* Slip: the channels are swapped before they are compared.
RescanBusSwapsFirst ==
  /\ known' = Present
  /\ UNCHANGED <<up, historyVars>>

\* The topics of the absent channels: the type, then the value of each.
Deletions(absent) ==
  [k \in 1..(2 * Len(absent)) |->
     IF k % 2 = 1 THEN Type(absent[(k + 1) \div 2], None)
                  ELSE Value(absent[k \div 2], None)]

\* What a scan publishes: the type of each new channel, then the deletions.
Announcements ==
  LET added == SetToSeq(Present \ known)
      absent == SetToSeq(known \ Present)
  IN [i \in 1..Len(added) |-> Type(added[i], "temperature")] \o Deletions(absent)

\* The channels are swapped before anything is published.
RescanBus ==
  /\ known' = Present
  /\ Send(Announcements)

\* Slip: the message to itself is sent first.
OnConnectHackFirst ==
  /\ link = "up" /\ unread = {}
  /\ down # <<>> /\ Head(down) = Connect
  /\ down' = Tail(down)
  /\ IF prepare
       THEN /\ Send(<<SubscribeHack, Hack, SubscribeControls>>)
            /\ UNCHANGED known
       ELSE RescanBus
  /\ UNCHANGED <<bus, prepare, unread, link, brokerVars>>

\* A connection that is accepted.
OnConnect ==
  /\ link = "up" /\ unread = {}
  /\ down # <<>> /\ Head(down) = Connect
  /\ down' = Tail(down)
  /\ IF prepare
       THEN /\ Send(<<SubscribeControls, SubscribeHack, Hack>>)
            /\ UNCHANGED known
       ELSE RescanBus
  /\ UNCHANGED <<bus, prepare, unread, link, brokerVars>>

\* OnMessage: the retained hack is cleared while the driver is still subscribed
\* to it, so it comes once more.
OnHack ==
  /\ link = "up" /\ unread = {}
  /\ down # <<>> /\ Head(down) = Hack
  /\ down' = Tail(down)
  /\ Send(<<Hack, Unsubscribe>>)
  /\ prepare' = FALSE
  /\ UNCHANGED <<bus, known, unread, link, brokerVars>>

OnValue ==
  /\ link = "up" /\ unread = {}
  /\ down # <<>> /\ Head(down).kind = "value"
  /\ down' = Tail(down)
  /\ known' = known \cup {Head(down).sensor}
  /\ UNCHANGED <<bus, prepare, unread, link, up, brokerVars, historyVars>>

\* main: loop() has returned 0 and the poll interval is over.
Scan ==
  /\ link # "down" /\ unread = {}
  /\ Len(up) <= MaxUp
  /\ ~prepare
  /\ RescanBus
  /\ unread' = known'
  /\ UNCHANGED <<bus, prepare, link, down, brokerVars>>

\* Slip: the power-on reading is not recognised.
ReadTemperatureRaw(file) ==
  IF file # None /\ file.crc THEN file.data ELSE None

\* 85000 and 127937 are readings of a sensor that has not measured.
ReadTemperature(file) ==
  IF file # None /\ file.crc /\ file.data \notin {85000, 127937} THEN file.data ELSE None

\* UpdateChannelValues, sensor after sensor.
UpdateChannelValue(s) ==
  /\ s \in unread
  /\ unread' = unread \ {s}
  /\ LET result == ReadTemperature(bus[s]) IN
       IF result = None
         THEN UNCHANGED <<up, historyVars>>
         ELSE Send(<<Value(s, result)>>)
  /\ UNCHANGED <<bus, prepare, known, link, down, brokerVars>>

\* main: loop() has returned an error, and this reconnection succeeds.
Reconnect ==
  /\ link = "down" /\ unread = {}
  /\ link' = "up"
  /\ up' = <<Connect>>
  /\ UNCHANGED <<bus, driverVars, down, brokerVars, historyVars>>

Driver ==
  \/ OnConnect \/ OnHack \/ OnValue
  \/ Scan
  \/ \E s \in Sensors : UpdateChannelValue(s)

-----------------------------------------------------------------------------
(***************************************************************************)
(* The broker takes what comes, in order.                                  *)
(***************************************************************************)

RetainedValues == LET with == SetToSeq({s \in Sensors : temp[s] # None}) IN
  [i \in DOMAIN with |-> Value(with[i], temp[with[i]])]

Broker ==
  /\ up # <<>>
  /\ up' = Tail(up)
  /\ LET m == Head(up) IN
       \/ /\ m = Connect
          /\ subs' = {}
          /\ down' = <<Connect>>
          /\ UNCHANGED <<type, temp>>
       \/ /\ m = SubscribeControls
          /\ subs' = subs \cup {"controls"}
          /\ down' = down \o RetainedValues
          /\ UNCHANGED <<type, temp>>
       \/ /\ m = SubscribeHack
          /\ subs' = subs \cup {"hack"}
          /\ UNCHANGED <<down, type, temp>>
       \/ /\ m = Unsubscribe
          /\ subs' = {}
          /\ UNCHANGED <<down, type, temp>>
       \/ /\ m = Hack
          /\ down' = IF "hack" \in subs THEN Append(down, Hack) ELSE down
          /\ UNCHANGED <<subs, type, temp>>
       \/ /\ m.kind = "type"
          /\ type' = IF m.value = None THEN type \ {m.sensor} ELSE type \cup {m.sensor}
          /\ UNCHANGED <<down, subs, temp>>
       \/ /\ m.kind = "value"
          /\ temp' = [temp EXCEPT ![m.sensor] = m.value]
          /\ down' = IF "controls" \in subs THEN Append(down, m) ELSE down
          /\ UNCHANGED <<subs, type>>
  /\ UNCHANGED <<bus, driverVars, link, historyVars>>

-----------------------------------------------------------------------------
(***************************************************************************)
(* What may happen to them.                                                *)
(***************************************************************************)

\* A sensor is plugged in or out, or measures.
BusChanges(s, file) ==
  /\ bus[s] # file
  /\ bus' = [bus EXCEPT ![s] = file]
  /\ UNCHANGED <<driverVars, link, up, down, brokerVars, historyVars>>

LoseLink ==
  /\ Outages
  /\ link = "up"
  /\ link' = "dead"
  /\ up' = <<>>
  /\ down' = <<>>
  /\ lost' = lost \cup Dropped(up)
  /\ cut' = cut \cup Dropped(up)
  /\ UNCHANGED <<bus, driverVars, brokerVars>>

\* The socket fails or no answer comes to a ping.
NoticeLoss ==
  /\ link = "dead"
  /\ link' = "down"
  /\ UNCHANGED <<bus, driverVars, up, down, brokerVars, historyVars>>

\* The end of the process, at any point, and the constructor.
Restart ==
  /\ Crashes
  /\ prepare' = TRUE
  /\ known' = {}
  /\ unread' = {}
  /\ link' = "up"
  /\ up' = <<Connect>>
  /\ down' = <<>>
  /\ lost' = {}
  /\ cut' = cut \cup Dropped(up) \cup {s \in type : temp[s] = None}
  /\ UNCHANGED <<bus, brokerVars>>

Disturbance == LoseLink \/ Restart

Next ==
  \/ Driver
  \/ Reconnect
  \/ Broker
  \/ \E s \in Sensors : \E file \in Files[s] \cup {None} : BusChanges(s, file)
  \/ NoticeLoss
  \/ Disturbance

Spec == Init /\ [][Next]_vars

\* main loops for ever and its timer runs out; the broker answers; some
\* reconnection succeeds.
LiveSpec ==
  /\ Spec
  /\ WF_vars(OnConnect \/ OnHack \/ OnValue)
  /\ WF_vars(Scan)
  /\ \A s \in Sensors : WF_vars(UpdateChannelValue(s))
  /\ WF_vars(Broker)
  /\ WF_vars(NoticeLoss)
  /\ WF_vars(Reconnect)

-----------------------------------------------------------------------------
(***************************************************************************)
(* Properties.                                                             *)
(***************************************************************************)

\* What may be retained: readings, never the values of a sensor that has not measured.
Readings ==
  ((UNION {{f.data : f \in Files[s]} : s \in Sensors}) \cup {0}) \ {85000, 127937}

Message ==
  {Connect, SubscribeControls, SubscribeHack, Unsubscribe, Hack}
    \cup {Type(s, v) : s \in Sensors, v \in {None, "temperature"}}
    \cup {Value(s, v) : s \in Sensors, v \in Readings \cup {None}}

TypeOK ==
  /\ bus \in BusStates
  /\ prepare \in BOOLEAN
  /\ known \subseteq Sensors /\ unread \subseteq known
  /\ link \in {"up", "dead", "down"}
  /\ up \in Seq(Message) /\ down \in Seq(Message)
  /\ subs \subseteq {"controls", "hack"}
  /\ type \subseteq Sensors
  /\ temp \in [Sensors -> Readings \cup {None}]
  /\ lost \subseteq Sensors /\ cut \subseteq Sensors

\* Nothing is retained for s, or its deletion is on the way, and no value is on the way
\* without a deletion behind it.
Gone(s) ==
  LET Deletes(i) == up[i] = Value(s, None) IN
    /\ temp[s] = None \/ \E i \in 1..Len(up) : Deletes(i)
    /\ \A i \in 1..Len(up) :
         up[i].kind = "value" /\ up[i].sensor = s =>
           \E j \in i..Len(up) : Deletes(j)

\* "we need some message to be sure, that we got all retained messages": once the
\* message to itself has come back, every retained value is of a channel the driver
\* knows, or its deletion is on the way; only a publication lost with the
\* connection leaves one behind.
RetainedIsKnown ==
  ~prepare => \A s \in Sensors \ known : Gone(s) \/ s \in lost

\* "delete retained messages for absent channels": nothing is retained for a sensor
\* that is gone, whoever retained it, once connection and process are left alone;
\* except where a deletion was lost, or the process ended when a sensor had a type
\* and no value.
AbsentCleared ==
  []<><<Disturbance>>_vars
  \/ \A s \in Sensors :
       <>[](bus[s] = None) =>
         <>[](/\ temp[s] = None \/ s \in lost
              /\ s \notin type \/ s \in lost \cup cut)

\* A sensor that stays has its type retained, and its reading when it can be read;
\* a reading that is none leaves the last one.
PresentPublished ==
  []<><<Disturbance>>_vars
  \/ \A s \in Sensors : \A file \in Files[s] :
       <>[](bus[s] = file) =>
         <>[](/\ ReadTemperature(file) # None => temp[s] = ReadTemperature(file)
              /\ s \in type \/ s \in cut)
=============================================================================
