----------------------------- MODULE ModbusPort -----------------------------
(***************************************************************************)
(* TModbusPort (wb-homa-modbus/modbus_port.cpp) around its TModbusClient:  *)
(* channels made of registers, commands that come on "<channel>/on" in the *)
(* mosquitto thread, values that go out from the Modbus thread, and the    *)
(* broker that retains the last payload of every channel.                  *)
(*                                                                         *)
(* The two threads share nothing but the handlers.  No lock is held from   *)
(* the reading of the values of a channel to the publication of the        *)
(* payload made from them (OnModbusValueChange), nor from the setting of   *)
(* the registers of a command to its echo (HandleMessage).                 *)
(*                                                                         *)
(* A payload is the sequence of its ';'-separated items, each an integer.  *)
(* Publications have QoS 0: one made while the client is not connected is  *)
(* refused by libmosquitto, and the code ignores its return value.         *)
(***************************************************************************)
EXTENDS ModbusClient, Sequences

CONSTANTS
  Channels,    \* the channels of the port
  Registers,   \* Registers[c]: TModbusChannel::Registers, in order
  OnValue,     \* OnValue[c]: TModbusChannel::OnValue, -1 when not configured
  Messages,    \* Messages[c]: payloads that may come on the channel's /on topic
  SetupItems,  \* the "setup" items, device after device
  LinkFails    \* whether the connection to the broker may be lost

RegistersOf(c) == {Registers[c][i] : i \in DOMAIN Registers[c]}

\* RegisterToChannelMap: AddRegister refuses a register used twice on a port.
ChannelOf(r) == CHOOSE c \in Channels : r \in RegistersOf(c)

ASSUME ChannelAssumption ==
  /\ Registers \in [Channels -> Seq(Regs)]
  /\ \A r \in Regs : \E c \in Channels : r \in RegistersOf(c)
  /\ \A c, d \in Channels : c # d => RegistersOf(c) \cap RegistersOf(d) = {}
  /\ \A c \in Channels :
       \A i, j \in DOMAIN Registers[c] : i # j => Registers[c][i] # Registers[c][j]
  /\ \A c \in Channels : Registers[c] # <<>>
ASSUME OnValueAssumption ==
  /\ OnValue \in [Channels -> Int]
  /\ \A c \in Channels : OnValue[c] >= 0 => Len(Registers[c]) = 1
ASSUME MessageAssumption ==
  /\ \A c \in Channels : Messages[c] \subseteq Seq(Int)
  /\ \A c \in Channels : \A m \in Messages[c] :
       \A i \in DOMAIN Registers[c] :
         Len(m) = Len(Registers[c]) => m[i] \in Commands[Registers[c][i]]
Setup == {SetupItems[i] : i \in DOMAIN SetupItems}
ASSUME SetupAssumption ==
  /\ SetupItems \in Seq(Setup)
  /\ \A item \in Setup : <<item.reg, item.word>> \in InitWrites

VARIABLES
  hpc,         \* where the mosquitto thread is in HandleMessage
  hch,         \* the channel of the message it handles
  hmsg,        \* the payload of that message
  hi,          \* the index of the register it sets next
  payload,     \* what OnModbusValueChange has composed so far
  todo,        \* the setup items WriteInitValues has still to write
  link,        \* the connection to the broker
  retained     \* the retained message of each channel topic (external)

messageVars == <<hpc, hch, hmsg, hi>>
portVars == <<messageVars, payload, todo, link, retained>>
pvars == <<vars, portVars>>

NoChannel == None
Links == {"down", "connected", "subscribed"}

\* SetUp ignores the result of Connect(); libmosquitto goes on trying.
AfterConnect == IF LinkFails THEN {"down", "connected"} ELSE {"connected"}

PortInit ==
  /\ Init
  /\ hpc = "idle"
  /\ hch = NoChannel
  /\ hmsg = <<>>
  /\ hi = 1
  /\ payload = <<>>
  /\ todo = SetupItems
  /\ link \in AfterConnect
  /\ retained = [c \in Channels |-> None]

-----------------------------------------------------------------------------
(***************************************************************************)
(* Publishing: the broker retains what reaches it.                         *)
(***************************************************************************)

Publish(c, items) ==
  retained' = IF link = "down" THEN retained ELSE [retained EXCEPT ![c] = items]

-----------------------------------------------------------------------------
(***************************************************************************)
(* WriteInitValues: item after item; an exception ends the setup of its    *)
(* device, not of the others.                                              *)
(***************************************************************************)

\* Slip: a failure ends the whole setup.
DropAll(items, d) == <<>>

\* The loop goes on behind the items of the device.
DropDevice(items, d) ==
  LET next == CHOOSE n \in 1..(Len(items) + 1) :
                /\ \A i \in 1..(n - 1) : items[i].device = d
                /\ n <= Len(items) => items[n].device # d
  IN SubSeq(items, next, Len(items))

SetupWrite ==
  /\ todo # <<>>
  /\ LET item == Head(todo) IN
       /\ WriteHoldingRegister(item.reg, item.word)
       /\ device'[item.reg] = item.word
  /\ todo' = Tail(todo)
  /\ UNCHANGED <<messageVars, payload, link, retained>>

SetupFails ==
  /\ todo # <<>>
  /\ mpc = "setup"
  /\ LET item == Head(todo) IN
       /\ WriteHoldingRegister(item.reg, item.word) \/ UNCHANGED vars
       /\ todo' = DropDevice(todo, item.device)
  /\ UNCHANGED <<messageVars, payload, link, retained>>

SetupDone ==
  /\ todo = <<>>
  /\ StartLoop
  /\ UNCHANGED portVars

-----------------------------------------------------------------------------
(***************************************************************************)
(* OnModbusValueChange, called for register cur from Cycle.                *)
(***************************************************************************)

Changed == ChannelOf(cur)

\* The item made from the value of register r of channel c.
ItemOf(c, r) ==
  IF OnValue[c] >= 0
    THEN (IF value[r] = OnValue[c] THEN 1 ELSE 0)
    ELSE value[r]

NextItem == Registers[Changed][Len(payload) + 1]

\* Slip: registers never read are published too.
ComposeUnread ==
  /\ mpc = "callback"
  /\ Len(payload) < Len(Registers[Changed])
  /\ payload' = Append(payload, ItemOf(Changed, NextItem))
  /\ UNCHANGED <<vars, messageVars, todo, link, retained>>

\* Lines 120-136, one unlocked read of a register's value at a time.
ComposeItem ==
  /\ mpc = "callback"
  /\ Len(payload) < Len(Registers[Changed])
  /\ OnValue[Changed] < 0 => did_read[NextItem]
  /\ payload' = Append(payload, ItemOf(Changed, NextItem))
  /\ UNCHANGED <<vars, messageVars, todo, link, retained>>

\* Line 130: another register of the channel was never read, publish nothing.
Incomplete ==
  /\ Len(payload) < Len(Registers[Changed])
  /\ OnValue[Changed] < 0 /\ ~did_read[NextItem]
  /\ Callback
  /\ payload' = <<>>
  /\ UNCHANGED <<messageVars, todo, link, retained>>

\* Line 150.
PublishValue ==
  /\ Len(payload) = Len(Registers[Changed])
  /\ Callback
  /\ Publish(Changed, payload)
  /\ payload' = <<>>
  /\ UNCHANGED <<messageVars, todo, link>>

\* The rest of Cycle is the client's.
ClientStep ==
  /\ \/ BeginCycle
     \/ FlushTake \/ FlushClean \/ FlushWrite
     \/ PollSkip \/ PollRead \/ PollFails \/ PollCompare
  /\ UNCHANGED portVars

-----------------------------------------------------------------------------
(***************************************************************************)
(* HandleMessage, in the mosquitto thread.                                 *)
(***************************************************************************)

\* A payload with another number of items than the channel has registers is
\* reported and dropped (lines 82-88).
ReceiveMessage(c, m) ==
  /\ Running
  /\ hpc = "idle"
  /\ link = "subscribed"
  /\ Len(m) = Len(Registers[c])
  /\ hpc' = "set"
  /\ hch' = c
  /\ hmsg' = m
  /\ hi' = 1
  /\ UNCHANGED <<vars, payload, todo, link, retained>>

\* Lines 90-96: SetTextValue for one register after the other.
SetRegister ==
  /\ hpc = "set"
  /\ SetRawValue(Registers[hch][hi], hmsg[hi])
  /\ IF hi < Len(hmsg)
       THEN hi' = hi + 1 /\ UNCHANGED hpc
       ELSE hi' = 1 /\ hpc' = "echo"
  /\ UNCHANGED <<hch, hmsg, payload, todo, link, retained>>

\* Line 97: the command is published as the channel's value.
Echo ==
  /\ hpc = "echo"
  /\ Publish(hch, hmsg)
  /\ hpc' = "idle"
  /\ hch' = NoChannel
  /\ hmsg' = <<>>
  /\ UNCHANGED <<vars, hi, payload, todo, link>>

-----------------------------------------------------------------------------
(***************************************************************************)
(* The connection.  OnConnect calls PubSubSetup on every connection: it    *)
(* subscribes again, and republishes the meta topics but no value.         *)
(***************************************************************************)

PubSubSetup ==
  /\ Running
  /\ hpc = "idle"
  /\ link = "connected"
  /\ link' = "subscribed"
  /\ UNCHANGED <<vars, messageVars, payload, todo, retained>>

LoseLink ==
  /\ LinkFails
  /\ mpc # "stopped" /\ link # "down"
  /\ link' = "down"
  /\ UNCHANGED <<vars, messageVars, payload, todo, retained>>

\* Within loop_start's thread, hence not during HandleMessage.
Reconnect ==
  /\ Running
  /\ hpc = "idle"
  /\ link = "down"
  /\ link' = "connected"
  /\ UNCHANGED <<vars, messageVars, payload, todo, retained>>

-----------------------------------------------------------------------------

PortEnd ==
  /\ hpc' = "idle"
  /\ hch' = NoChannel
  /\ hmsg' = <<>>
  /\ hi' = 1
  /\ payload' = <<>>
  /\ todo' = SetupItems
  /\ link' = "down"
  /\ UNCHANGED retained

PortConnectFails == ConnectFails /\ PortEnd

PortStop == Stop /\ PortEnd

PortStart ==
  /\ Start
  /\ link' \in AfterConnect
  /\ UNCHANGED <<messageVars, payload, todo, retained>>

PortSlaveChange(r, w) == SlaveChange(r, w) /\ UNCHANGED portVars

PortModbusThread ==
  \/ SetupWrite \/ SetupFails \/ SetupDone
  \/ ComposeItem \/ Incomplete \/ PublishValue
  \/ ClientStep
  \/ PortConnectFails

MosquittoThread ==
  \/ SetRegister
  \/ Echo
  \/ PubSubSetup
  \/ Reconnect

PortNext ==
  \/ PortModbusThread
  \/ MosquittoThread
  \/ \E c \in Channels : \E m \in Messages[c] : ReceiveMessage(c, m)
  \/ \E r \in Regs : \E w \in SlaveWords[r] : PortSlaveChange(r, w)
  \/ LoseLink
  \/ PortStop
  \/ PortStart

PortSpec == PortInit /\ [][PortNext]_pvars

\* Both threads run; the broker comes back some day, and libmosquitto keeps
\* trying to reach it.
PortLiveSpec ==
  PortSpec /\ WF_pvars(PortModbusThread) /\ WF_pvars(MosquittoThread)

-----------------------------------------------------------------------------
(***************************************************************************)
(* Properties.                                                             *)
(***************************************************************************)

PortTypeOK ==
  /\ TypeOK
  /\ hpc \in {"idle", "set", "echo"}
  /\ hch \in Channels \cup {NoChannel}
  /\ hmsg \in Seq(Int)
  /\ hi \in Nat \ {0}
  /\ payload \in Seq(Int)
  /\ todo \in Seq(Setup)
  /\ link \in Links
  /\ retained \in [Channels -> Seq(Int) \cup {None}]

\* All registers of the channel were read since the process started.
Complete(c) == \A r \in RegistersOf(c) : did_read[r]

\* Neither thread is on the way to publish a value of the channel.
AtRest(c) ==
  /\ mpc \in {"compare", "callback"} => ChannelOf(cur) # c
  /\ hch # c

CurrentPayload(c) ==
  [i \in DOMAIN Registers[c] |-> ItemOf(c, Registers[c][i])]

\* "Publish current value (make retained)": what the broker retains for a
\* channel, once all its registers were read, is made from the values the
\* driver holds, whenever no thread is about to publish.
RetainedCurrent ==
  \A c \in Channels :
    Complete(c) /\ AtRest(c) => retained[c] = CurrentPayload(c)

\* The words register r may ever hold.
PossibleWords(r) ==
  SlaveWords[r]
    \cup {StoredWord(RegType[r], ToWord(r, v)) : v \in Commands[r]}
    \cup {i[2] : i \in {j \in InitWrites : j[1] = r}}

\* "avoid publishing incomplete value": the 0 a handler starts with is never
\* published for a register that can hold no 0 and is never sent one.
PlaceholderNeverPublished ==
  \A c \in Channels :
    (OnValue[c] < 0 /\ retained[c] # None) =>
      \A i \in DOMAIN Registers[c] :
        LET r == Registers[c][i]
            values == Commands[r] \cup {FromWord(r, w) : w \in PossibleWords(r)}
        IN 0 \notin values => retained[c][i] # 0

\* A device whose setup fails takes nothing from the others: only items of the
\* device being set up leave the list, and the others keep their order.
SetupGoesOn ==
  [][\/ todo' = todo
     \/ mpc' = "stopped"
     \/ LET gone == Len(todo) - Len(todo') IN
          /\ todo' = SubSeq(todo, gone + 1, Len(todo))
          /\ \A i \in 1..gone : todo[i].device = Head(todo).device
    ]_todo

PortDisturbance ==
  \/ Disturbance
  \/ LoseLink

\* End to end, without commands: once the slaves, the bus and the connection
\* keep still, what the broker retains for a channel is what its registers hold,
\* whatever was retained before a restart and in whatever order the registers
\* of the channel were read.
TopicSettles ==
  []<><<PortDisturbance>>_pvars
  \/ <>[](\/ mpc = "stopped"
          \/ \A c \in Channels :
               (\A r \in RegistersOf(c) : RegPoll[r]) =>
                 retained[c] =
                   [i \in DOMAIN Registers[c] |->
                      LET r == Registers[c][i]
                          v == FromWord(r, device[r])
                      IN IF OnValue[c] < 0 THEN v
                         ELSE IF v = OnValue[c] THEN 1 ELSE 0])
=============================================================================
