---------------------------- MODULE ModbusClient ----------------------------
(***************************************************************************)
(* TModbusClient and its register handlers                                 *)
(* (wb-homa-modbus/modbus_client.cpp): the cache between the MQTT side,    *)
(* which sets values at any time from the mosquitto thread, and the        *)
(* RS-485 bus, which one thread polls and writes register by register.     *)
(*                                                                         *)
(* One step of the Modbus thread is one lock region or one bus             *)
(* transaction.  `dirty` is cleared under the lock but the value to write  *)
(* is read after the unlock (Flush, lines 188-193); the register is read   *)
(* from the bus before the lock under which it is compared (Poll, lines    *)
(* 161-181).  SetRawValue, of the other thread, may run between any two    *)
(* of these steps.                                                         *)
(***************************************************************************)
EXTENDS ModbusFormat

CONSTANTS
  NumRegs,     \* registers 1..NumRegs, in the order of std::map<TModbusRegister>
  RegType,     \* RegType[r]: TModbusRegister::Type
  RegFormat,   \* RegFormat[r]: TModbusRegister::Format
  RegPoll,     \* RegPoll[r]: FALSE for the register of a "wo-switch"
  Commands,    \* Commands[r]: raw values SetRawValue may be called with
  SlaveWords,  \* SlaveWords[r]: words the slave itself may come to hold
  InitWrites,  \* <<register, word>> pairs of the "setup" sections
  None

Regs == 1..NumRegs

ASSUME NumRegsAssumption == NumRegs \in Nat \ {0}
ASSUME RegisterAssumption ==
  /\ RegType \in [Regs -> RegisterTypes]
  /\ RegFormat \in [Regs -> Formats]
  /\ RegPoll \in [Regs -> BOOLEAN]
ASSUME EnvironmentAssumption ==
  /\ \A r \in Regs : Commands[r] \subseteq Int
  /\ \A r \in Regs : SlaveWords[r] \subseteq Word
  /\ InitWrites \subseteq Regs \X Word
  /\ None \notin Int

VARIABLES
  value,       \* TRegisterHandler::value, the cached master value
  dirty,       \* TRegisterHandler::dirty, a command waits for the next Flush
  did_read,    \* TRegisterHandler::did_read
  active,      \* TModbusClient::Active
  mpc,         \* where the Modbus thread is
  cur,         \* the register p of Cycle's outer loop
  fq,          \* the register q of Cycle's inner loop of flushes
  new_value,   \* local of Poll
  first_poll,  \* local of Poll
  device,      \* the words the slaves hold (external)
  asked,       \* history: the last value given to SetRawValue
  attempted    \* history: the last word passed to Write

handlerVars == <<value, dirty, did_read>>
loopVars == <<active, mpc, cur, fq, new_value, first_poll>>
historyVars == <<asked, attempted>>
vars == <<handlerVars, loopVars, device, historyVars>>

Locations == {"setup", "cycle", "flush", "write", "poll", "compare",
              "callback", "stopped"}

\* The conversions, for register r.
FromWord(r, w) == RegisterValue(RegType[r], RegFormat[r], w)
ToWord(r, v) == ConvertMasterValue(RegFormat[r], v)

ProcessStart ==
  /\ value = [r \in Regs |-> 0]
  /\ dirty = [r \in Regs |-> FALSE]
  /\ did_read = [r \in Regs |-> FALSE]
  /\ active = FALSE
  /\ cur = 1
  /\ fq = 1
  /\ new_value = 0
  /\ first_poll = FALSE
  /\ asked = [r \in Regs |-> None]
  /\ attempted = [r \in Regs |-> None]

Init ==
  /\ ProcessStart
  /\ mpc = "setup"
  /\ device \in [Regs -> UNION {SlaveWords[r] : r \in Regs}]
  /\ \A r \in Regs : device[r] \in SlaveWords[r]

-----------------------------------------------------------------------------
(***************************************************************************)
(* Start-up: TModbusPort::WriteInitValues writes holding registers         *)
(* directly, before the mosquitto thread and the polling loop start.       *)
(***************************************************************************)

\* TModbusClient::Connect succeeds at once when Active.
Connect == active' = TRUE

\* WriteHoldingRegister: connect, select the slave, write.  A write
\* that throws is reported by the caller, and a Connect that throws changes nothing.
WriteHoldingRegister(r, w) ==
  /\ mpc = "setup"
  /\ <<r, w>> \in InitWrites
  /\ Connect
  /\ \E accepted \in BOOLEAN :
       device' = IF accepted THEN [device EXCEPT ![r] = w] ELSE device
  /\ UNCHANGED <<handlerVars, mpc, cur, fq, new_value, first_poll, historyVars>>

\* main(): StartLoop, then ModbusLoop.
StartLoop ==
  /\ mpc = "setup"
  /\ mpc' = "cycle"
  /\ UNCHANGED <<handlerVars, active, cur, fq, new_value, first_poll, device,
                 historyVars>>

(***************************************************************************)
(* The process ends: every handler is gone with it, the slaves keep their  *)
(* words.  The history variables are about one run of it.             *)
(***************************************************************************)
ProcessEnd ==
  /\ mpc' = "stopped"
  /\ value' = [r \in Regs |-> 0]
  /\ dirty' = [r \in Regs |-> FALSE]
  /\ did_read' = [r \in Regs |-> FALSE]
  /\ active' = FALSE
  /\ cur' = 1
  /\ fq' = 1
  /\ new_value' = 0
  /\ first_poll' = FALSE
  /\ asked' = [r \in Regs |-> None]
  /\ attempted' = [r \in Regs |-> None]
  /\ UNCHANGED device

\* `service wb-homa-modbus stop`, or an exception nobody catches (stoi and stod
\* throw for an item that is not a number, on the mosquitto thread).
Stop == mpc # "stopped" /\ ProcessEnd

Start ==
  /\ mpc = "stopped"
  /\ mpc' = "setup"
  /\ UNCHANGED <<handlerVars, active, cur, fq, new_value, first_poll, device,
                 historyVars>>

-----------------------------------------------------------------------------
(***************************************************************************)
(* The Modbus thread: TModbusClient::Cycle.                                *)
(***************************************************************************)

\* Cycle begins with Connect.
BeginCycle ==
  /\ mpc = "cycle"
  /\ Connect
  /\ mpc' = "flush"
  /\ UNCHANGED <<handlerVars, cur, fq, new_value, first_poll, device, historyVars>>

\* Connect throws out of Cycle; TModbusPort::Cycle calls exit(1).
ConnectFails ==
  /\ mpc = "cycle"
  /\ ~active
  /\ ProcessEnd

\* Slip: the last register is never flushed.
NextFlushStopsShort ==
  IF fq < NumRegs - 1
    THEN fq' = fq + 1 /\ mpc' = "flush"
    ELSE fq' = 1 /\ mpc' = "poll"

\* The inner loop over q goes on, and ends with the Poll of cur.
NextFlush ==
  IF fq < NumRegs
    THEN fq' = fq + 1 /\ mpc' = "flush"
    ELSE fq' = 1 /\ mpc' = "poll"

\* Slip: flushing without looking at the flag.
FlushTakeAlways ==
  /\ mpc = "flush"
  /\ dirty' = [dirty EXCEPT ![fq] = FALSE]
  /\ mpc' = "write"
  /\ UNCHANGED <<value, did_read, active, cur, fq, new_value, first_poll, device,
                 historyVars>>

\* Flush, lines 187-190: the flag is taken under the lock.
FlushTake ==
  /\ mpc = "flush"
  /\ dirty[fq]
  /\ dirty' = [dirty EXCEPT ![fq] = FALSE]
  /\ mpc' = "write"
  /\ UNCHANGED <<value, did_read, active, cur, fq, new_value, first_poll, device,
                 historyVars>>

FlushClean ==
  /\ mpc = "flush"
  /\ ~dirty[fq]
  /\ NextFlush
  /\ UNCHANGED <<handlerVars, active, cur, new_value, first_poll, device, historyVars>>

\* Flush, line 193: Write(ConvertMasterValue(value)), after the unlock.  A
\* failure is only reported; the slave may have executed the request even so
\* (its answer was lost).  A read-only handler throws before it sends anything.
FlushWrite ==
  /\ mpc = "write"
  /\ LET word == ToWord(fq, value[fq]) IN
       /\ attempted' = [attempted EXCEPT ![fq] = word]
       /\ \E executed \in BOOLEAN :
            /\ executed => HasWrite(RegType[fq])
            /\ device' = IF executed
                           THEN [device EXCEPT ![fq] = StoredWord(RegType[fq], word)]
                           ELSE device
  /\ NextFlush
  /\ UNCHANGED <<handlerVars, active, cur, new_value, first_poll, asked>>

\* Slip: the last register is never polled.
NextPollStopsShort ==
  /\ fq' = 1
  /\ new_value' = 0
  /\ first_poll' = FALSE
  /\ IF cur < NumRegs - 1
       THEN cur' = cur + 1 /\ mpc' = "flush"
       ELSE cur' = 1 /\ mpc' = "cycle"

\* The outer loop goes on (USleep changes nothing here), or Cycle returns and
\* ModbusLoop calls it again.
NextPoll ==
  /\ fq' = 1
  /\ new_value' = 0
  /\ first_poll' = FALSE
  /\ IF cur < NumRegs
       THEN cur' = cur + 1 /\ mpc' = "flush"
       ELSE cur' = 1 /\ mpc' = "cycle"

\* Poll, line 156: a write-only register, or a command came since its Flush.
PollSkip ==
  /\ mpc = "poll"
  /\ ~RegPoll[cur] \/ dirty[cur]
  /\ NextPoll
  /\ UNCHANGED <<handlerVars, active, device, historyVars>>

\* Poll, lines 159-168.
PollRead ==
  /\ mpc = "poll"
  /\ RegPoll[cur] /\ ~dirty[cur]
  /\ first_poll' = ~did_read[cur]
  /\ new_value' = FromWord(cur, device[cur])
  /\ did_read' = [did_read EXCEPT ![cur] = TRUE]
  /\ mpc' = "compare"
  /\ UNCHANGED <<value, dirty, active, cur, fq, device, historyVars>>

\* Poll, lines 164-167: Read throws, nothing is remembered of it.
PollFails ==
  /\ mpc = "poll"
  /\ RegPoll[cur] /\ ~dirty[cur]
  /\ NextPoll
  /\ UNCHANGED <<handlerVars, active, device, historyVars>>

\* Slip: the second look at `dirty` forgotten.
PollCompareUnguarded ==
  /\ mpc = "compare"
  /\ value' = [value EXCEPT ![cur] = new_value]
  /\ IF value[cur] # new_value \/ first_poll
       THEN mpc' = "callback" /\ UNCHANGED <<cur, fq, new_value, first_poll>>
       ELSE NextPoll
  /\ UNCHANGED <<dirty, did_read, active, device, historyVars>>

\* Slip: only the first poll stores a value.
PollCompareOnce ==
  /\ mpc = "compare"
  /\ value' = IF dirty[cur] \/ ~first_poll THEN value
              ELSE [value EXCEPT ![cur] = new_value]
  /\ IF value[cur] # new_value \/ first_poll
       THEN mpc' = "callback" /\ UNCHANGED <<cur, fq, new_value, first_poll>>
       ELSE NextPoll
  /\ UNCHANGED <<dirty, did_read, active, device, historyVars>>

\* Slip: no callback for a first value equal to the initial 0.
PollCompareNoFirst ==
  /\ mpc = "compare"
  /\ value' = IF dirty[cur] THEN value ELSE [value EXCEPT ![cur] = new_value]
  /\ IF value[cur] # new_value
       THEN mpc' = "callback" /\ UNCHANGED <<cur, fq, new_value, first_poll>>
       ELSE NextPoll
  /\ UNCHANGED <<dirty, did_read, active, device, historyVars>>

\* Poll, lines 169-182: under the lock.  A command that came during the read
\* keeps its value; the callback runs all the same.
PollCompare ==
  /\ mpc = "compare"
  /\ value' = IF dirty[cur] THEN value ELSE [value EXCEPT ![cur] = new_value]
  /\ IF value[cur] # new_value \/ first_poll
       THEN mpc' = "callback" /\ UNCHANGED <<cur, fq, new_value, first_poll>>
       ELSE NextPoll
  /\ UNCHANGED <<dirty, did_read, active, device, historyVars>>

\* Cycle, line 377: what Callback does is the business of ModbusPort.
Callback ==
  /\ mpc = "callback"
  /\ NextPoll
  /\ UNCHANGED <<handlerVars, active, device, historyVars>>

ModbusThread ==
  \/ StartLoop
  \/ BeginCycle \/ ConnectFails
  \/ FlushTake \/ FlushClean \/ FlushWrite
  \/ PollSkip \/ PollRead \/ PollFails \/ PollCompare
  \/ Callback

-----------------------------------------------------------------------------
(***************************************************************************)
(* The other thread, and the slaves.                                       *)
(***************************************************************************)

\* The mosquitto thread runs from StartLoop on.
Running == mpc \notin {"setup", "stopped"}

\* Slip: a command for the cached value does not count.
SetRawValueIfNew(r, v) ==
  /\ Running
  /\ v \in Commands[r]
  /\ value' = [value EXCEPT ![r] = v]
  /\ dirty' = [dirty EXCEPT ![r] = @ \/ value[r] # v]
  /\ asked' = [asked EXCEPT ![r] = v]
  /\ UNCHANGED <<did_read, loopVars, device, attempted>>

SetRawValue(r, v) ==
  /\ Running
  /\ v \in Commands[r]
  /\ value' = [value EXCEPT ![r] = v]
  /\ dirty' = [dirty EXCEPT ![r] = TRUE]
  /\ asked' = [asked EXCEPT ![r] = v]
  /\ UNCHANGED <<did_read, loopVars, device, attempted>>

SlaveChange(r, w) ==
  /\ w \in SlaveWords[r] \ {device[r]}
  /\ device' = [device EXCEPT ![r] = w]
  /\ UNCHANGED <<handlerVars, loopVars, historyVars>>

Next ==
  \/ ModbusThread
  \/ \E i \in InitWrites : WriteHoldingRegister(i[1], i[2])
  \/ \E r \in Regs : \E v \in Commands[r] : SetRawValue(r, v)
  \/ \E r \in Regs : \E w \in SlaveWords[r] : SlaveChange(r, w)
  \/ Stop
  \/ Start

Spec == Init /\ [][Next]_vars

\* Both threads keep running: ModbusLoop never blocks for good, since every bus
\* transaction ends with an answer or a timeout, and USleep ends.
LiveSpec == Spec /\ WF_vars(ModbusThread)

-----------------------------------------------------------------------------
(***************************************************************************)
(* Properties.                                                             *)
(***************************************************************************)

TypeOK ==
  /\ value \in [Regs -> Int]
  /\ dirty \in [Regs -> BOOLEAN]
  /\ did_read \in [Regs -> BOOLEAN]
  /\ active \in BOOLEAN
  /\ mpc \in Locations
  /\ cur \in Regs
  /\ fq \in Regs
  /\ new_value \in Int
  /\ first_poll \in BOOLEAN
  /\ device \in [Regs -> Word]
  /\ asked \in [Regs -> Int \cup {None}]
  /\ attempted \in [Regs -> Word \cup {None}]

\* The latest command for r is not on the bus yet.
Owed(r) == dirty[r] \/ (mpc = "write" /\ fq = r)

\* A command in waiting is never overwritten by a poll whose bus read began
\* before the command came (Poll checks `dirty` once before the read and once
\* more under the lock): the cached value is the one last asked for until it
\* has been written.
OwedValueKept == \A r \in Regs : Owed(r) => value[r] = asked[r]

\* Clearing `dirty` before reading `value` for the write loses no command: once
\* nothing is owed, the last request sent for a register carried the latest
\* value asked for, whatever came between the unlock and the write.
LatestCommandAttempted ==
  \A r \in Regs :
    asked[r] # None /\ ~Owed(r) => attempted[r] = ToWord(r, asked[r])

\* What may keep the cache from settling.  (A failing Connect ends the process as
\* Stop does.)
Disturbance ==
  \/ \E r \in Regs : \E v \in Commands[r] : SetRawValue(r, v)
  \/ \E r \in Regs : \E w \in SlaveWords[r] : SlaveChange(r, w)
  \/ PollFails
  \/ Stop

\* Once commands, changes of the slaves and failing reads cease, the cache
\* agrees with the bus for good: a write that failed or that the slave clipped
\* (a u8 register, a coil, a read-only register) shows as the value it has.
CacheSettles ==
  []<><<Disturbance>>_vars
  \/ <>[](\/ mpc = "stopped"
          \/ \A r \in Regs : RegPoll[r] => value[r] = FromWord(r, device[r]))

\* The client implements the abstract delivery of commands.
Delivery == INSTANCE CommandDelivery WITH owed <- [r \in Regs |-> Owed(r)]

\* Safety of the abstract specification: what is sent is the latest command and
\* was asked for.
DeliverySafe == Delivery!SafeSpec

\* The abstract specification with its fairness: what is owed is sent.
DeliveryLive == Delivery!Spec
=============================================================================
