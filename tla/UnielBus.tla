------------------------------ MODULE UnielBus ------------------------------
(***************************************************************************)
(* The Uniel bus behind TUnielModbusContext (wb-homa-modbus/uniel.cpp,     *)
(* uniel_context.cpp): one command at a time is written to the serial port *)
(* and its answer is read back byte by byte, or given up after a timeout.  *)
(*                                                                         *)
(* An answer carries the command code, the register and the value, not the *)
(* module it comes from (its address is the bus master's, 0).  The input   *)
(* is not flushed before a command, so what comes after a timeout is read  *)
(* as the answer of the next command.                                      *)
(***************************************************************************)
EXTENDS Integers, Sequences, SequencesExt

CONSTANTS
  Calls,      \* the calls of the Modbus client, one after the other, for ever
  Values,     \* what a module may come to hold in a register
  Faults,     \* what may go wrong: "line", "late", "port"
  MaxWaiting  \* bound: the commands left without an answer

VARIABLES
  open,     \* Fd >= 0
  pc,       \* "idle", or "answer" in ReadResponse
  next,     \* the index of the next call
  req,      \* the command that is being answered
  sent,     \* commands the modules have not answered, the oldest first
  input,    \* the bytes the port has received and nobody read
  cell,     \* cell[m][r]: register r of module m (external)
  outcome   \* history: how the last call ended

vars == <<open, pc, next, req, sent, input, cell, outcome>>

Operations == {"ReadCoils", "WriteCoil", "ReadHoldingRegisters", "WriteHoldingRegisters"}

ASSUME CallsAssumption ==
  /\ Calls \in Seq([op : Operations, slave : Nat, addr : Nat, value : Nat])
  /\ Calls # <<>>

Octet == {n \in Nat : n < 256}

ASSUME LineAssumption ==
  /\ Values \subseteq Octet /\ Values # {}
  /\ Faults \subseteq {"line", "late", "port"}
  /\ MaxWaiting \in Nat \ {0}

-----------------------------------------------------------------------------
(***************************************************************************)
(* TUnielModbusContext: from a call to the command sent on the bus.        *)
(***************************************************************************)

READ_CMD == 5
WRITE_CMD == 6
SET_BRIGHTNESS_CMD == 10
ADDR_TYPE_BRIGHTNESS == 1

Command(code, c, reg, value) ==
  [code |-> code, module |-> c.slave % 256, reg |-> reg % 256, value |-> value % 256]

\* Register addresses above 0xFF have the form 0x01XXWWRR: RR is read, WW written.
Supported(c) ==
  c.op = "WriteHoldingRegisters" =>
    c.addr \in 0..255 \/ c.addr \div 16777216 = ADDR_TYPE_BRIGHTNESS

CommandOf(c) ==
  CASE c.op \in {"ReadCoils", "ReadHoldingRegisters"} -> Command(READ_CMD, c, c.addr, 0)
    [] c.op = "WriteCoil" -> Command(WRITE_CMD, c, c.addr, IF c.value = 0 THEN 0 ELSE 255)
    [] c.op = "WriteHoldingRegisters" ->
         IF c.addr \in 0..255
           THEN Command(WRITE_CMD, c, c.addr, c.value)
           ELSE Command(SET_BRIGHTNESS_CMD, c, c.addr \div 256, c.value)

CallCommands == {CommandOf(Calls[i]) : i \in {j \in DOMAIN Calls : Supported(Calls[j])}}

ASSUME CommandAssumption == CallCommands # {}

SentCommand == [command : CallCommands, own : BOOLEAN]
ReceivedByte == [b : Octet, own : BOOLEAN]

Modules == {c.module : c \in CallCommands}
Registers == {c.reg : c \in CallCommands}
AnyCommand == CHOOSE c \in CallCommands : TRUE

\* The call is over: with a value, with an error that leaves the port open, or
\* with any other exception.
Over(kind, own) ==
  /\ pc' = "idle"
  /\ next' = (next % Len(Calls)) + 1
  /\ outcome' = [call |-> next, kind |-> kind, own |-> own]

Init ==
  /\ open = FALSE
  /\ pc = "idle"
  /\ next = 1
  /\ req = AnyCommand
  /\ sent = <<>>
  /\ input = <<>>
  /\ cell \in [Modules -> [Registers -> Values]]
  /\ outcome = [call |-> 1, kind |-> "none", own |-> TRUE]

-----------------------------------------------------------------------------
(***************************************************************************)
(* The master.  A byte is marked "own" while the request it answers is the *)
(* one in progress, unless the line has spoiled the answer.                *)
(***************************************************************************)

\* Connect and WriteCommand.
StartCall ==
  /\ pc = "idle"
  /\ Supported(Calls[next])
  /\ Len(sent) < MaxWaiting
  /\ open' = TRUE
  /\ req' = CommandOf(Calls[next])
  /\ sent' = Append([i \in DOMAIN sent |-> [sent[i] EXCEPT !.own = FALSE]],
                    [command |-> req', own |-> TRUE])
  /\ input' = [i \in DOMAIN input |-> [input[i] EXCEPT !.own = FALSE]]
  /\ pc' = "answer"
  /\ UNCHANGED <<next, cell, outcome>>

\* An address with another type byte is refused before anything is sent.
RefuseCall ==
  /\ pc = "idle"
  /\ ~Supported(Calls[next])
  /\ open' = TRUE
  /\ Over("unsupported", TRUE)
  /\ UNCHANGED <<req, sent, input, cell>>

\* The port can't be opened.
OpenFails ==
  /\ "port" \in Faults
  /\ pc = "idle" /\ ~open
  /\ Over("hard", TRUE)
  /\ UNCHANGED <<open, req, sent, input, cell>>

\* write() fails: nothing is sent, the port is closed, and with it goes what it
\* has received.
WriteFails ==
  /\ "port" \in Faults
  /\ pc = "idle"
  /\ Supported(Calls[next])
  /\ open' = FALSE
  /\ input' = <<>>
  /\ Over("hard", TRUE)
  /\ UNCHANGED <<req, sent, cell>>

Byte(i) == input[i].b

\* Slip: a byte other than 0xff after one that is 0xff is not skipped.
ResyncInPlace ==
  /\ pc = "answer"
  /\ input # <<>>
  /\ Byte(1) # 255 /\ input' = Tail(input)
  /\ UNCHANGED <<open, pc, next, req, sent, cell, outcome>>

\* ReadByte() != 0xff || ReadByte() != 0xff: one byte is skipped, or two.
Resync ==
  /\ pc = "answer"
  /\ input # <<>>
  /\ \/ Byte(1) # 255 /\ input' = Tail(input)
     \/ /\ Len(input) > 1
        /\ Byte(1) = 255 /\ Byte(2) # 255
        /\ input' = SubSeq(input, 3, Len(input))
  /\ UNCHANGED <<open, pc, next, req, sent, cell, outcome>>

\* buf[0..4] is a[3..7]: command, module, value, register, 0.
Sound(a) == (a[3].b + a[4].b + a[5].b + a[6].b + a[7].b) % 256 = a[8].b

\* Slip: the checksum is not checked.
AcceptsUnsound(a) ==
  /\ a[3].b = req.code /\ a[4].b = 0 /\ a[6].b = req.reg
  /\ req.code # READ_CMD => a[5].b = req.value

\* The checks of ReadResponse, ReadRegister and DoWriteRegister.
Accepts(a) ==
  /\ Sound(a)
  /\ a[3].b = req.code /\ a[4].b = 0 /\ a[6].b = req.reg
  /\ req.code # READ_CMD => a[5].b = req.value

AnswerLength == 8
Framed == Len(input) >= AnswerLength /\ Byte(1) = 255 /\ Byte(2) = 255

ReadAnswer ==
  /\ pc = "answer"
  /\ Framed
  /\ LET a == SubSeq(input, 1, AnswerLength)
     IN  Over(IF Accepts(a) THEN "ok" ELSE "transient",
              \A i \in 1..AnswerLength : a[i].own)
  /\ input' = SubSeq(input, AnswerLength + 1, Len(input))
  /\ UNCHANGED <<open, req, sent, cell>>

\* What is left is less than the reader waits for.
Starved ==
  /\ Len(input) < AnswerLength
  /\ \A i \in DOMAIN input \cap {1, 2} : Byte(i) = 255

\* Slip: the timeout is shorter than the time a module takes to answer.
TimeoutEarly ==
  /\ pc = "answer"
  /\ Starved
  /\ input' = <<>>
  /\ Over("transient", TRUE)
  /\ UNCHANGED <<open, req, sent, cell>>

\* What ends a call ends it before the answer comes only when that may be late.
AnswerNotDue == sent = <<>> \/ "late" \in Faults

\* select() returns 0: no byte came for the whole timeout.
Timeout ==
  /\ pc = "answer"
  /\ Starved
  /\ AnswerNotDue
  /\ input' = <<>>
  /\ Over("transient", TRUE)
  /\ UNCHANGED <<open, req, sent, cell>>

\* select() or read() fails: the port is closed.
ReadFails ==
  /\ "port" \in Faults
  /\ pc = "answer"
  /\ AnswerNotDue
  /\ open' = FALSE
  /\ input' = <<>>
  /\ Over("hard", TRUE)
  /\ UNCHANGED <<req, sent, cell>>

-----------------------------------------------------------------------------
(***************************************************************************)
(* The modules and the line.                                               *)
(***************************************************************************)

AnswerBytes(c, value) ==
  <<255, 255, c.code, 0, value, c.reg, 0, (c.code + value + c.reg) % 256>>

Received(bytes, own) == [i \in DOMAIN bytes |-> [b |-> bytes[i], own |-> own]]
Stray(b) == [b |-> b, own |-> FALSE]

\* What the oldest command does to the modules, and the answer it gets.
Executed ==
  LET c == Head(sent).command
  IN  IF c.code = READ_CMD THEN cell ELSE [cell EXCEPT ![c.module][c.reg] = c.value]

FullAnswer ==
  LET c == Head(sent).command
  IN  Received(AnswerBytes(c, Executed[c.module][c.reg]), Head(sent).own)

Execute(received) ==
  /\ cell' = Executed
  /\ input' = IF open THEN input \o received ELSE input
  /\ sent' = Tail(sent)
  /\ UNCHANGED <<open, pc, next, req, outcome>>

Answer == sent # <<>> /\ Execute(FullAnswer)

\* The answer is lost, or one byte of it is spoiled, lost or added.
SpoilAnswer ==
  /\ "line" \in Faults
  /\ sent # <<>>
  /\ \/ Execute(<<>>)
     \/ \E i \in 1..AnswerLength :
          \/ Execute(RemoveAt(FullAnswer, i))
          \/ Execute(ReplaceAt(FullAnswer, i, Stray((FullAnswer[i].b + 1) % 256)))
          \/ \E b \in {0, 255} : Execute(InsertAt(FullAnswer, i, Stray(b)))

\* The module does not get the command.
LoseCommand ==
  /\ "line" \in Faults
  /\ sent # <<>>
  /\ sent' = Tail(sent)
  /\ UNCHANGED <<open, pc, next, req, input, cell, outcome>>

\* Buttons and other masters change what a module holds.
ModuleChanges ==
  /\ \E m \in Modules, r \in Registers, v \in Values :
       cell[m][r] # v /\ cell' = [cell EXCEPT ![m][r] = v]
  /\ UNCHANGED <<open, pc, next, req, sent, input, outcome>>

-----------------------------------------------------------------------------
Master == StartCall \/ RefuseCall \/ Resync \/ ReadAnswer \/ Timeout
PortFailure == OpenFails \/ WriteFails \/ ReadFails

Next ==
  \/ Master \/ PortFailure
  \/ Answer \/ SpoilAnswer \/ LoseCommand \/ ModuleChanges

Spec == Init /\ [][Next]_vars

\* The polling loop goes on and the modules answer.
LiveSpec == Spec /\ WF_vars(Master) /\ WF_vars(Answer)

-----------------------------------------------------------------------------
(***************************************************************************)
(* Properties.                                                             *)
(***************************************************************************)

\* The fields keep their types; while a call waits for its answer the port is
\* open (EnsurePortOpen never throws); what the modules are sent and what the calls
\* ask for are commands of the calls.
TypeOK ==
  /\ open \in BOOLEAN
  /\ pc \in {"idle", "answer"}
  /\ pc = "answer" => open
  /\ next \in DOMAIN Calls
  /\ req \in CallCommands
  /\ sent \in Seq(SentCommand)
  /\ input \in Seq(ReceivedByte)
  /\ cell \in [Modules -> [Registers -> Octet]]
  /\ outcome \in [call : DOMAIN Calls, own : BOOLEAN,
                   kind : {"none", "ok", "transient", "hard", "unsupported"}]

\* While no answer is late, a call that succeeds has read the intact answer of its
\* own command: the value read is of the module and register asked for, and a
\* write was executed.  What a bad answer leaves in the input is never part of it.
OwnAnswer == outcome.kind = "ok" => outcome.own

\* The values the answer to command c may carry: what a register may hold, which is
\* also what was written there; or what c has written.
Held == Values \cup {c.value : c \in {d \in CallCommands : d.code # READ_CMD}}
Carried(c) == IF c.code = READ_CMD THEN Held ELSE {c.value}

\* For these commands and values the sum, which is weak, tells an answer with a byte 0
\* or 0xff added from an intact one.
Unambiguous ==
  \A c \in CallCommands : \A v \in Carried(c) :
    /\ (c.code + v + c.reg) % 256 \notin {0, 1, 255}
    /\ c.code = READ_CMD /\ v = c.reg => v \notin {126, 254}

Succeeds(i) ==
  pc = "answer" /\ pc' = "idle" /\ outcome'.kind = "ok" /\ outcome'.call = i
EachSucceeds == \A i \in DOMAIN Calls : Supported(Calls[i]) => []<><<Succeeds(i)>>_vars

\* Once the line and the port fail no more, every call that can be sent succeeds
\* again and again: a bad answer does not shift the ones after it.
Recovers == <>[][~(SpoilAnswer \/ LoseCommand \/ PortFailure)]_vars => EachSucceeds

\* A timeout is a TUnielBusTransientErrorException: once no more answer is late
\* the calls succeed again.
TransientErrorsPass == <>[][~(Timeout /\ sent # <<>>)]_vars => EachSucceeds

=============================================================================
