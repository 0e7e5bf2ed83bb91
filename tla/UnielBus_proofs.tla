--------------------------- MODULE UnielBus_proofs --------------------------
(***************************************************************************)
(* What holds of the Uniel bus for any calls, modules, faults and bounds.  *)
(***************************************************************************)
EXTENDS UnielBus, SequenceTheorems, TLAPS

Kinds == {"none", "ok", "transient", "hard", "unsupported"}

-----------------------------------------------------------------------------
(***************************************************************************)
(* The commands and the answers.                                           *)
(***************************************************************************)

LEMMA CallIndex == next \in DOMAIN Calls => (next % Len(Calls)) + 1 \in DOMAIN Calls
BY CallsAssumption

\* Whatever the call, its command has the fields the bus can carry.
LEMMA CommandFields ==
  ASSUME NEW c \in CallCommands
  PROVE  /\ c.module \in Modules /\ c.reg \in Registers
         /\ c.code \in Octet /\ c.reg \in Octet /\ c.value \in Octet
<1>1. c.module \in Modules /\ c.reg \in Registers
  BY DEF Modules, Registers
<1>2. PICK i \in DOMAIN Calls : c = CommandOf(Calls[i])
  BY DEF CallCommands
<1>3. Calls[i] \in [op : Operations, slave : Nat, addr : Nat, value : Nat]
  BY <1>2, CallsAssumption, LenProperties, ElementOfSeq
<1>4. \A n \in Nat : n % 256 \in Octet
  BY DEF Octet
<1>5. \A code \in {5, 6, 10}, n, v \in Nat :
        LET d == Command(code, Calls[i], n, v) IN
          d.code \in Octet /\ d.reg \in Octet /\ d.value \in Octet
  BY <1>4 DEF Command, Octet
<1>6. Calls[i].addr \in Nat /\ Calls[i].addr \div 256 \in Nat /\ Calls[i].value \in Nat
  BY <1>3
<1>7. c.code \in Octet /\ c.reg \in Octet /\ c.value \in Octet
  <2>1. CASE Calls[i].op \in {"ReadCoils", "ReadHoldingRegisters"}
    BY <1>2, <1>5, <1>6, <2>1 DEF CommandOf, READ_CMD
  <2>2. CASE Calls[i].op = "WriteCoil"
    BY <1>2, <1>5, <1>6, <2>2 DEF CommandOf, WRITE_CMD
  <2>3. CASE Calls[i].op = "WriteHoldingRegisters"
    BY <1>2, <1>5, <1>6, <2>3 DEF CommandOf, WRITE_CMD, SET_BRIGHTNESS_CMD
  <2>4. QED
    BY <1>3, <2>1, <2>2, <2>3 DEF Operations
<1>8. QED
  BY <1>1, <1>7

LEMMA AnswerType ==
  ASSUME NEW c \in CallCommands, NEW v \in Octet, NEW own \in BOOLEAN
  PROVE  /\ Received(AnswerBytes(c, v), own) \in Seq(ReceivedByte)
         /\ Len(Received(AnswerBytes(c, v), own)) = 8
<1>1. (c.code + v + c.reg) % 256 \in Octet /\ 255 \in Octet /\ 0 \in Octet
  BY CommandFields DEF Octet
<1>2. AnswerBytes(c, v) \in Seq(Octet) /\ Len(AnswerBytes(c, v)) = 8
  BY <1>1, CommandFields DEF AnswerBytes
<1>3. \A i \in 1..8 : AnswerBytes(c, v)[i] \in Octet
  BY <1>2, ElementOfSeq
<1>4. DOMAIN AnswerBytes(c, v) = 1..8
  BY <1>2, LenProperties
<1>5. Received(AnswerBytes(c, v), own) \in [1..8 -> ReceivedByte]
  BY <1>3, <1>4 DEF Received, ReceivedByte
<1>6. Received(AnswerBytes(c, v), own) \in Seq(ReceivedByte)
  <2>1. \A n \in Nat : \A f \in [1..n -> ReceivedByte] : f \in Seq(ReceivedByte)
    OBVIOUS
  <2>2. QED
    BY <1>5, <2>1
<1>7. Len(Received(AnswerBytes(c, v), own)) \in Nat
      /\ 1..Len(Received(AnswerBytes(c, v), own)) = 1..8
  BY <1>5, <1>6, LenProperties
<1>8. Len(Received(AnswerBytes(c, v), own)) = 8
  <2>1. \A n \in Nat : 1..n = 1..8 => n = 8
    <3>1. SUFFICES ASSUME NEW n \in Nat, 1..n = 1..8 PROVE n = 8
      OBVIOUS
    <3>2. 8 \in 1..n /\ 1 \in 1..n /\ ~(9 \in 1..n)
      BY <3>1
    <3>3. QED
      BY <3>2
  <2>2. QED
    BY <1>7, <2>1
<1>9. QED
  BY <1>6, <1>8

\* A byte lost, spoiled or added leaves a sequence of bytes.
LEMMA SpoiltType ==
  ASSUME NEW s \in Seq(ReceivedByte), NEW i \in 1..Len(s), NEW x \in ReceivedByte
  PROVE  /\ RemoveAt(s, i) \in Seq(ReceivedByte)
         /\ ReplaceAt(s, i, x) \in Seq(ReceivedByte)
         /\ InsertAt(s, i, x) \in Seq(ReceivedByte)
<1>1. \A m \in 1..Len(s) + 1, n \in 0..Len(s) : SubSeq(s, m, n) \in Seq(ReceivedByte)
  BY SubSeqProperties
<1>2. SubSeq(s, 1, i - 1) \in Seq(ReceivedByte) /\ SubSeq(s, i, Len(s)) \in Seq(ReceivedByte)
      /\ SubSeq(s, i + 1, Len(s)) \in Seq(ReceivedByte)
  BY <1>1
<1>3. <<x>> \in Seq(ReceivedByte)
  OBVIOUS
<1>4. RemoveAt(s, i) \in Seq(ReceivedByte)
  BY <1>2, ConcatProperties DEF RemoveAt
<1>5. InsertAt(s, i, x) \in Seq(ReceivedByte)
  BY <1>2, <1>3, ConcatProperties DEF InsertAt
<1>6. ReplaceAt(s, i, x) \in Seq(ReceivedByte)
  BY ExceptSeq DEF ReplaceAt
<1>7. QED
  BY <1>4, <1>5, <1>6

-----------------------------------------------------------------------------
(***************************************************************************)
(* Type correctness.                                                       *)
(***************************************************************************)

LEMMA InitTypeOK == Init => TypeOK
<1> SUFFICES ASSUME Init PROVE TypeOK
  OBVIOUS
<1>1. open \in BOOLEAN
  BY Zenon DEF Init
<1>2. 1 \in DOMAIN Calls
  BY CallsAssumption
<1>3. req \in CallCommands
  BY CommandAssumption DEF Init, AnyCommand
<1>4. outcome \in [call : DOMAIN Calls, own : BOOLEAN, kind : Kinds]
  BY <1>2 DEF Init, Kinds
<1>5. cell \in [Modules -> [Registers -> Octet]]
  BY LineAssumption DEF Init
<1>6. sent \in Seq(SentCommand) /\ input \in Seq(ReceivedByte)
  BY DEF Init
<1>7. QED
  BY <1>1, <1>2, <1>3, <1>4, <1>5, <1>6 DEF Init, TypeOK, Kinds

\* The end of a call.
LEMMA OverType ==
  ASSUME TypeOK, NEW kind \in Kinds, NEW own \in BOOLEAN, Over(kind, own)
  PROVE  /\ pc' = "idle" /\ next' \in DOMAIN Calls
         /\ outcome' \in [call : DOMAIN Calls, own : BOOLEAN, kind : Kinds]
BY CallIndex DEF TypeOK, Over

\* The oldest command and those after it.
LEMMA OldestType ==
  ASSUME TypeOK, sent # <<>>
  PROVE  /\ Head(sent).command \in CallCommands
         /\ Head(sent).own \in BOOLEAN
         /\ Tail(sent) \in Seq(SentCommand)
<1>1. sent \in Seq(SentCommand)
  BY DEF TypeOK
<1>2. Head(sent) \in SentCommand /\ Tail(sent) \in Seq(SentCommand)
  BY <1>1, HeadTailProperties
<1>3. QED
  BY <1>2 DEF SentCommand

\* When another call begins, what belonged to the one before it belongs to none.
LEMMA DisownedType ==
  ASSUME TypeOK
  PROVE  /\ [i \in DOMAIN sent |-> [sent[i] EXCEPT !.own = FALSE]] \in Seq(SentCommand)
         /\ [i \in DOMAIN input |-> [input[i] EXCEPT !.own = FALSE]] \in Seq(ReceivedByte)
<1>1. sent \in Seq(SentCommand) /\ input \in Seq(ReceivedByte)
  BY DEF TypeOK
<1>2. /\ Len(sent) \in Nat /\ DOMAIN sent = 1..Len(sent)
      /\ Len(input) \in Nat /\ DOMAIN input = 1..Len(input)
  BY <1>1, LenProperties
<1>3. [i \in DOMAIN sent |-> [sent[i] EXCEPT !.own = FALSE]]
        \in [1..Len(sent) -> SentCommand]
  <2>1. \A i \in 1..Len(sent) : sent[i] \in SentCommand
    BY <1>1, ElementOfSeq
  <2>2. \A x \in SentCommand : [x EXCEPT !.own = FALSE] \in SentCommand
    BY DEF SentCommand
  <2>3. QED
    BY <1>2, <2>1, <2>2
<1>4. [i \in DOMAIN input |-> [input[i] EXCEPT !.own = FALSE]]
        \in [1..Len(input) -> ReceivedByte]
  <2>1. \A i \in 1..Len(input) : input[i] \in ReceivedByte
    BY <1>1, ElementOfSeq
  <2>2. \A x \in ReceivedByte : [x EXCEPT !.own = FALSE] \in ReceivedByte
    BY DEF ReceivedByte
  <2>3. QED
    BY <1>2, <2>1, <2>2
<1>5. QED
  BY <1>2, <1>3, <1>4

\* What a module does with a command, and what comes of its answer.
LEMMA ExecuteType ==
  ASSUME TypeOK, sent # <<>>, NEW received \in Seq(ReceivedByte), Execute(received)
  PROVE  TypeOK'
<1>1. Head(sent).command \in CallCommands /\ Tail(sent) \in Seq(SentCommand)
  BY OldestType
<1>2. cell' \in [Modules -> [Registers -> Octet]]
  BY <1>1, CommandFields DEF Execute, Executed, TypeOK
<1>3. input' \in Seq(ReceivedByte)
  BY DEF Execute, TypeOK
<1>4. QED
  BY <1>1, <1>2, <1>3 DEF Execute, TypeOK

LEMMA FullAnswerType ==
  ASSUME TypeOK, sent # <<>>
  PROVE  FullAnswer \in Seq(ReceivedByte) /\ Len(FullAnswer) = 8
<1>1. Head(sent).command \in CallCommands /\ Head(sent).own \in BOOLEAN
  BY OldestType
<1>2. Executed[Head(sent).command.module][Head(sent).command.reg] \in Octet
  BY <1>1, CommandFields DEF TypeOK, Executed
<1>3. QED
  BY <1>1, <1>2, AnswerType DEF FullAnswer

LEMMA NextTypeOK == TypeOK /\ [Next]_vars => TypeOK'
<1> SUFFICES ASSUME TypeOK, [Next]_vars PROVE TypeOK'
  OBVIOUS
<1>1. CASE StartCall
  <2>1. req' \in CallCommands
    BY <1>1 DEF StartCall, CallCommands, TypeOK
  <2>2. [command |-> req', own |-> TRUE] \in SentCommand
    BY <2>1 DEF SentCommand
  <2>3. sent' \in Seq(SentCommand)
    BY <1>1, <2>2, DisownedType, AppendProperties DEF StartCall
  <2>4. input' \in Seq(ReceivedByte)
    BY <1>1, DisownedType DEF StartCall
  <2>5. open' = TRUE
    BY <1>1 DEF StartCall
  <2>6. open' \in BOOLEAN
    BY <2>5, Zenon
  <2>7. QED
    BY <1>1, <2>1, <2>3, <2>4, <2>5, <2>6 DEF StartCall, TypeOK
<1>2. CASE RefuseCall
  <2>1. open' \in BOOLEAN
    BY <1>2, Zenon DEF RefuseCall
  <2>2. QED
    BY <1>2, <2>1, OverType DEF RefuseCall, TypeOK, Kinds
<1>3. CASE OpenFails
  BY <1>3, OverType DEF OpenFails, TypeOK, Kinds
<1>4. CASE WriteFails \/ ReadFails
  <2>1. open' \in BOOLEAN
    BY <1>4, Zenon DEF WriteFails, ReadFails
  <2>2. Over("hard", TRUE)
    BY <1>4 DEF WriteFails, ReadFails
  <2>3. input' = <<>> /\ UNCHANGED <<req, sent, cell>>
    BY <1>4 DEF WriteFails, ReadFails
  <2>4. input' \in Seq(ReceivedByte)
    BY <2>3
  <2>5. QED
    BY <2>1, <2>2, <2>3, <2>4, OverType DEF TypeOK, Kinds
<1>5. CASE Resync
  <2>1. input' \in Seq(ReceivedByte)
    <3>1. input \in Seq(ReceivedByte) /\ Len(input) \in Nat
      BY LenProperties DEF TypeOK
    <3>2. CASE input # <<>> /\ input' = Tail(input)
      BY <3>1, <3>2, HeadTailProperties
    <3>3. CASE Len(input) > 1 /\ input' = SubSeq(input, 3, Len(input))
      BY <3>1, <3>3, SubSeqProperties
    <3>4. QED
      BY <1>5, <3>2, <3>3 DEF Resync
  <2>2. QED
    BY <1>5, <2>1 DEF Resync, TypeOK
<1>6. CASE ReadAnswer
  <2>1. PICK kind \in Kinds, own \in BOOLEAN : Over(kind, own)
    BY <1>6, Zenon DEF ReadAnswer, Kinds
  <2>2. input' \in Seq(ReceivedByte)
    <3>1. input \in Seq(ReceivedByte) /\ Len(input) \in Nat
      BY LenProperties DEF TypeOK
    <3>2. QED
      BY <1>6, <3>1, SubSeqProperties DEF ReadAnswer, Framed, AnswerLength
  <2>3. QED
    BY <1>6, <2>1, <2>2, OverType DEF ReadAnswer, TypeOK, Kinds
<1>7. CASE Timeout
  <2>1. Over("transient", TRUE)
    BY <1>7 DEF Timeout
  <2>2. input' = <<>> /\ UNCHANGED <<open, req, sent, cell>>
    BY <1>7 DEF Timeout
  <2>3. input' \in Seq(ReceivedByte)
    BY <2>2
  <2>4. QED
    BY <2>1, <2>2, <2>3, OverType DEF TypeOK, Kinds
<1>8. CASE Answer
  BY <1>8, FullAnswerType, ExecuteType DEF Answer
<1>9. CASE SpoilAnswer
  <2>1. sent # <<>>
    BY <1>9 DEF SpoilAnswer
  <2>2. FullAnswer \in Seq(ReceivedByte) /\ Len(FullAnswer) = 8
    BY <2>1, FullAnswerType
  <2>3. \A i \in 1..AnswerLength : Stray((FullAnswer[i].b + 1) % 256) \in ReceivedByte
    <3>1. \A i \in 1..AnswerLength : FullAnswer[i] \in ReceivedByte
      BY <2>2, ElementOfSeq DEF AnswerLength
    <3>2. \A x \in ReceivedByte : (x.b + 1) % 256 \in Octet
      BY DEF ReceivedByte, Octet
    <3>3. QED
      BY <3>1, <3>2 DEF Stray, ReceivedByte
  <2>4. Stray(0) \in ReceivedByte /\ Stray(255) \in ReceivedByte
    BY DEF Stray, ReceivedByte, Octet
  <2>5. CASE Execute(<<>>)
    <3>1. <<>> \in Seq(ReceivedByte)
      OBVIOUS
    <3>2. QED
      BY <2>1, <2>5, <3>1, ExecuteType
  <2>6. ASSUME NEW i \in 1..AnswerLength,
               \/ Execute(RemoveAt(FullAnswer, i))
               \/ Execute(ReplaceAt(FullAnswer, i, Stray((FullAnswer[i].b + 1) % 256)))
               \/ \E b \in {0, 255} : Execute(InsertAt(FullAnswer, i, Stray(b)))
        PROVE  TypeOK'
    <3>1. i \in 1..Len(FullAnswer)
      BY <2>2 DEF AnswerLength
    <3>2. CASE Execute(RemoveAt(FullAnswer, i))
      BY <2>1, <2>2, <2>4, <3>1, <3>2, SpoiltType, ExecuteType
    <3>3. CASE Execute(ReplaceAt(FullAnswer, i, Stray((FullAnswer[i].b + 1) % 256)))
      BY <2>1, <2>2, <2>3, <3>1, <3>3, SpoiltType, ExecuteType, ZenonT(40)
    <3>4. ASSUME NEW b \in {0, 255}, Execute(InsertAt(FullAnswer, i, Stray(b)))
          PROVE  TypeOK'
      BY <2>1, <2>2, <2>4, <3>1, <3>4, SpoiltType, ExecuteType
    <3>5. QED
      BY <2>6, <3>2, <3>3, <3>4
  <2>7. QED
    BY <1>9, <2>5, <2>6 DEF SpoilAnswer
<1>10. CASE LoseCommand
  <2>1. sent' \in Seq(SentCommand)
    BY <1>10 DEF LoseCommand, TypeOK
  <2>2. QED
    BY <1>10, <2>1 DEF LoseCommand, TypeOK
<1>11. CASE ModuleChanges
  <2>1. cell' \in [Modules -> [Registers -> Octet]]
    BY <1>11, LineAssumption DEF ModuleChanges, TypeOK
  <2>2. QED
    BY <1>11, <2>1 DEF ModuleChanges, TypeOK
<1>12. CASE UNCHANGED vars
  BY <1>12 DEF vars, TypeOK
<1>13. QED
  BY <1>1, <1>2, <1>3, <1>4, <1>5, <1>6, <1>7, <1>8, <1>9, <1>10, <1>11, <1>12
     DEF Next, Master, PortFailure

\* The types of the bus and, with them, what EnsurePortOpen relies on: a call that waits for its
\* answer has the port open.
THEOREM TypeCorrect == Spec => []TypeOK
BY InitTypeOK, NextTypeOK, PTL DEF Spec
-----------------------------------------------------------------------------
(***************************************************************************)
(* A call that succeeds has read the intact answer of its own command.     *)
(*                                                                         *)
(* Between two calls at most one byte is left over, and it is not 0xff, so *)
(* that it can't be part of a frame.  While a call waits and its module    *)
(* has answered, what the reader has before it is too short for a frame,   *)
(* or is the answer as it came, with at most one byte to be skipped before *)
(* it.  An answer with a byte spoiled or added has no right checksum where *)
(* it has the code, the register and the value that were asked for.        *)
(***************************************************************************)

Own(c, v) == Received(AnswerBytes(c, v), TRUE)

IsSpoiled(a, o) ==
  \E i \in 1..8 : a = ReplaceAt(o, i, Stray((o[i].b + 1) % 256))
IsExtended(a, o) ==
  \E i \in 1..8, b \in {0, 255} : a = InsertAt(o, i, Stray(b))

\* a is what may come for command c, when it is long enough for a frame.
Arrives(c, a) ==
  \E v \in Carried(c) :
    \/ a = Own(c, v)
    \/ "line" \in Faults /\ (IsSpoiled(a, Own(c, v)) \/ IsExtended(a, Own(c, v)))

Residue == Len(input) <= 1 /\ (input # <<>> => Byte(1) # 255)
Skipped == input # <<>> /\ Byte(1) # 255

Reading ==
  \/ Len(input) < 8
  \/ Len(input) = 8 /\ Skipped
  \/ Arrives(req, input)
  \/ Skipped /\ Arrives(req, Tail(input))

InputInv ==
  /\ pc = "idle" => sent = <<>> /\ Residue
  /\ pc = "answer" /\ sent # <<>> =>
       Residue /\ Len(sent) = 1 /\ Head(sent) = [command |-> req, own |-> TRUE]
  /\ pc = "answer" /\ sent = <<>> => Reading

CellsHeld == cell \in [Modules -> [Registers -> Held]]

BusInv == InputInv /\ CellsHeld /\ OwnAnswer

LEMMA HeldType == Held \subseteq Octet /\ \A c \in CallCommands : Carried(c) \subseteq Octet
BY CommandFields, LineAssumption DEF Held, Carried

LEMMA CommandCodes == \A c \in CallCommands : c.code \in {5, 6, 10}
<1> SUFFICES ASSUME NEW c \in CallCommands PROVE c.code \in {5, 6, 10}
  OBVIOUS
<1>1. PICK i \in DOMAIN Calls : c = CommandOf(Calls[i])
  BY DEF CallCommands
<1>2. Calls[i] \in [op : Operations, slave : Nat, addr : Nat, value : Nat]
  BY CallsAssumption, LenProperties, ElementOfSeq
<1>3. Calls[i].op \in Operations
  BY <1>2
<1>4. QED
  BY <1>1, <1>3 DEF CommandOf, Command, Operations, READ_CMD, WRITE_CMD, SET_BRIGHTNESS_CMD

\* The bytes of an answer, one by one.
AnswerOf(o, c, v) ==
  /\ o \in Seq(ReceivedByte) /\ Len(o) = 8
  /\ \A k \in 1..8 : o[k] \in ReceivedByte /\ o[k].own = TRUE
  /\ o[1].b = 255 /\ o[2].b = 255
  /\ o[3].b = c.code /\ o[4].b = 0
  /\ o[5].b = v /\ o[6].b = c.reg
  /\ o[7].b = 0 /\ o[8].b = (c.code + v + c.reg) % 256

LEMMA OwnBytes == \A c \in CallCommands, v \in Octet : AnswerOf(Own(c, v), c, v)
<1> SUFFICES ASSUME NEW c \in CallCommands, NEW v \in Octet
             PROVE  AnswerOf(Own(c, v), c, v)
  OBVIOUS
<1>1. Own(c, v) \in Seq(ReceivedByte) /\ Len(Own(c, v)) = 8
  BY AnswerType DEF Own
<1> DEFINE bytes == AnswerBytes(c, v)
<1>2. /\ bytes[1] = 255 /\ bytes[2] = 255 /\ bytes[3] = c.code /\ bytes[4] = 0
      /\ bytes[5] = v /\ bytes[6] = c.reg /\ bytes[7] = 0
      /\ bytes[8] = (c.code + v + c.reg) % 256
      /\ DOMAIN bytes = 1..8
  BY DEF AnswerBytes
<1> HIDE DEF bytes
<1>3. \A k \in 1..8 : Own(c, v)[k] = [b |-> bytes[k], own |-> TRUE]
  BY <1>2 DEF Own, Received, bytes
<1>4. \A k \in 1..8 : Own(c, v)[k] \in ReceivedByte
  BY <1>1, ElementOfSeq
<1>5. QED
  BY <1>1, <1>2, <1>3, <1>4 DEF AnswerOf

\* u is s with x put in at i, and u is s with x in the place of its byte i.
IsInserted(u, s, i, x) ==
  /\ u \in Seq(ReceivedByte) /\ Len(u) = Len(s) + 1
  /\ \A k \in 1..Len(s) + 1 :
       u[k] = IF k < i THEN s[k] ELSE IF k = i THEN x ELSE s[k - 1]
IsReplaced(u, s, i, x) ==
  /\ u \in Seq(ReceivedByte) /\ Len(u) = Len(s)
  /\ \A k \in 1..Len(s) : u[k] = IF k = i THEN x ELSE s[k]

LEMMA InsertedBytes ==
  ASSUME NEW s \in Seq(ReceivedByte), NEW i \in 1..Len(s), NEW x \in ReceivedByte
  PROVE  IsInserted(InsertAt(s, i, x), s, i, x)
<1> DEFINE p == SubSeq(s, 1, i - 1)
           q == SubSeq(s, i, Len(s))
           t == p \o <<x>>
<1>1. Len(s) \in Nat /\ i \in 1..Len(s)
  BY LenProperties
<1>2. /\ p \in Seq(ReceivedByte) /\ Len(p) = i - 1
      /\ \A k \in 1..i - 1 : p[k] = s[k]
  BY <1>1, SubSeqProperties
<1>3. /\ q \in Seq(ReceivedByte) /\ Len(q) = Len(s) - i + 1
      /\ \A k \in 1..Len(s) - i + 1 : q[k] = s[i + k - 1]
  BY <1>1, SubSeqProperties
<1>4. InsertAt(s, i, x) = t \o q
  BY DEF InsertAt
<1> HIDE DEF p, q
<1>5. <<x>> \in Seq(ReceivedByte) /\ Len(<<x>>) = 1 /\ <<x>>[1] = x
  OBVIOUS
<1>6. /\ t \in Seq(ReceivedByte) /\ Len(t) = i
      /\ \A k \in 1..i : t[k] = IF k < i THEN s[k] ELSE x
  <2>1. /\ t \in Seq(ReceivedByte) /\ Len(t) = Len(p) + Len(<<x>>)
        /\ \A k \in 1..Len(p) + Len(<<x>>) :
             t[k] = IF k <= Len(p) THEN p[k] ELSE <<x>>[k - Len(p)]
    BY <1>2, <1>5, ConcatProperties
  <2>2. QED
    BY <1>1, <1>2, <1>5, <2>1
<1> HIDE DEF t
<1>7. /\ t \o q \in Seq(ReceivedByte) /\ Len(t \o q) = Len(t) + Len(q)
      /\ \A k \in 1..Len(t) + Len(q) :
           (t \o q)[k] = IF k <= Len(t) THEN t[k] ELSE q[k - Len(t)]
  BY <1>3, <1>6, ConcatProperties
<1>8. Len(t) + Len(q) = Len(s) + 1
  BY <1>1, <1>3, <1>6
<1>9. ASSUME NEW k \in 1..Len(s) + 1
      PROVE  (t \o q)[k] = IF k < i THEN s[k] ELSE IF k = i THEN x ELSE s[k - 1]
  <2>1. CASE k <= i
    BY <1>1, <1>6, <1>7, <1>8, <2>1
  <2>2. CASE ~(k <= i)
    <3>1. k - i \in 1..Len(s) - i + 1 /\ i + (k - i) - 1 = k - 1
      BY <1>1, <2>2
    <3>2. (t \o q)[k] = q[k - i]
      BY <1>1, <1>6, <1>7, <1>8, <2>2
    <3>3. q[k - i] = s[k - 1]
      BY <1>3, <3>1
    <3>4. ~(k < i) /\ k # i
      BY <1>1, <2>2
    <3>5. QED
      BY <3>2, <3>3, <3>4
  <2>3. QED
    BY <2>1, <2>2
<1>10. IsInserted(t \o q, s, i, x)
  BY <1>7, <1>8, <1>9 DEF IsInserted
<1>11. QED
  BY <1>4, <1>10, Zenon

LEMMA ReplacedBytes ==
  ASSUME NEW s \in Seq(ReceivedByte), NEW i \in 1..Len(s), NEW x \in ReceivedByte
  PROVE  IsReplaced(ReplaceAt(s, i, x), s, i, x)
BY ExceptSeq DEF ReplaceAt, IsReplaced

LEMMA RemovedBytes ==
  ASSUME NEW s \in Seq(ReceivedByte), NEW i \in 1..Len(s)
  PROVE  /\ RemoveAt(s, i) \in Seq(ReceivedByte)
         /\ Len(RemoveAt(s, i)) = Len(s) - 1
<1>1. Len(s) \in Nat /\ i \in 1..Len(s)
  BY LenProperties
<1>2. PICK p : p = SubSeq(s, 1, i - 1) /\ p \in Seq(ReceivedByte) /\ Len(p) = i - 1
  <2>1. SubSeq(s, 1, i - 1) \in Seq(ReceivedByte) /\ Len(SubSeq(s, 1, i - 1)) = i - 1
    BY <1>1, SubSeqProperties
  <2>2. QED
    BY <2>1, Zenon
<1>3. PICK q : q = SubSeq(s, i + 1, Len(s)) /\ q \in Seq(ReceivedByte) /\ Len(q) = Len(s) - i
  <2>1. /\ SubSeq(s, i + 1, Len(s)) \in Seq(ReceivedByte)
        /\ Len(SubSeq(s, i + 1, Len(s))) = Len(s) - i
    BY <1>1, SubSeqProperties
  <2>2. QED
    BY <2>1, Zenon
<1>4. p \o q \in Seq(ReceivedByte) /\ Len(p \o q) = Len(p) + Len(q)
  BY <1>2, <1>3, ConcatProperties
<1>5. RemoveAt(s, i) = p \o q
  BY <1>2, <1>3, Zenon DEF RemoveAt
<1>6. Len(p) + Len(q) = Len(s) - 1
  <2>1. Len(p) = i - 1 /\ Len(q) = Len(s) - i
    BY <1>2, <1>3, Zenon
  <2>2. QED
    BY <1>1, <2>1
<1>7. QED
  BY <1>4, <1>5, <1>6, Zenon

\* The code, the address, the register and the checksum of the frame at the beginning of s.
Right(c, s) ==
  /\ (s[3].b + s[4].b + s[5].b + s[6].b + s[7].b) % 256 = s[8].b
  /\ s[3].b = c.code /\ s[4].b = 0 /\ s[6].b = c.reg
  /\ c.code # READ_CMD => s[5].b = c.value

LEMMA FirstBytes ==
  ASSUME NEW s \in Seq(ReceivedByte), Len(s) >= 8
  PROVE  \A k \in 1..8 : SubSeq(s, 1, 8)[k] = s[k]
<1>1. Len(s) \in Nat /\ \A k \in 1..8 : s[k] \in ReceivedByte
  BY LenProperties, ElementOfSeq
<1>2. \A k \in 1..8 - 1 + 1 : SubSeq(s, 1, 8)[k] = s[1 + k - 1]
  BY <1>1, SubSeqProperties
<1>3. QED
  BY <1>2

LEMMA AcceptedIsRight ==
  ASSUME NEW s \in Seq(ReceivedByte), Len(s) >= 8, Accepts(SubSeq(s, 1, 8))
  PROVE  Right(req, s)
<1>1. \A k \in 1..8 : SubSeq(s, 1, 8)[k] = s[k]
  BY FirstBytes
<1>2. \A k \in 3..8 : SubSeq(s, 1, 8)[k] = s[k]
  BY <1>1
<1>3. QED
  BY <1>2 DEF Accepts, Sound, Right

\* The sums of a frame with a byte spoiled, and of one with a byte added.
LEMMA SpoiledSums ==
  ASSUME NEW code \in {5, 6, 10}, NEW v \in Nat, v < 256, NEW reg \in Nat, reg < 256
  PROVE  /\ (code + 1) % 256 # code /\ (reg + 1) % 256 # reg
         /\ (code + 0 + ((v + 1) % 256) + reg + 0) % 256 # (code + v + reg) % 256
         /\ (code + 0 + v + reg + 1) % 256 # (code + v + reg) % 256
         /\ (code + 0 + v + reg + 0) % 256 # (((code + v + reg) % 256) + 1) % 256
OBVIOUS

Told(code, v, reg) ==
  /\ (code + v + reg) % 256 \notin {0, 1, 255}
  /\ code = 5 /\ v = reg => v \notin {126, 254}
Differ(code, v, reg, b) ==
  /\ v = reg /\ (code # 5 => v = 0) => (code + 0 + 0 + v + reg) % 256 # 0
  /\ v = reg /\ (code # 5 => v = b) => (code + 0 + b + v + reg) % 256 # 0
  /\ b = reg => (code + 0 + v + b + reg) % 256 # 0
  /\ (code + 0 + v + reg + b) % 256 # 0
  /\ (code + 0 + v + reg + 0) % 256 # b

LEMMA ExtendedSums ==
  ASSUME NEW code \in {5, 6, 10}, NEW v \in Nat, v < 256, NEW reg \in Nat, reg < 256,
         Told(code, v, reg), NEW b \in {0, 255}
  PROVE  Differ(code, v, reg, b)
BY DEF Told, Differ

\* A byte spoiled: the sum changes, or a byte that is compared.
LEMMA SpoiledIsWrong ==
  ASSUME NEW c \in CallCommands, NEW v \in Octet, NEW s, IsSpoiled(s, Own(c, v)),
         s[1].b = 255, s[2].b = 255, Right(c, s)
  PROVE  FALSE
<1>1. PICK o : o = Own(c, v) /\ AnswerOf(o, c, v)
  BY OwnBytes, Zenon
<1>2. PICK i \in 1..8 : s = ReplaceAt(o, i, Stray((o[i].b + 1) % 256))
  BY <1>1 DEF IsSpoiled
<1>3. PICK n : n = (o[i].b + 1) % 256
  OBVIOUS
<1>4. /\ o \in Seq(ReceivedByte) /\ Len(o) = 8 /\ o[i] \in ReceivedByte
      /\ n \in Octet /\ Stray(n) \in ReceivedByte /\ Stray(n).b = n
  <2>1. o \in Seq(ReceivedByte) /\ Len(o) = 8 /\ o[i] \in ReceivedByte
    BY <1>1 DEF AnswerOf
  <2>2. n \in Octet
    BY <1>3, <2>1 DEF ReceivedByte, Octet
  <2>3. QED
    BY <2>1, <2>2 DEF Stray, ReceivedByte
<1>5. \A k \in 1..8 : s[k] = IF k = i THEN Stray(n) ELSE o[k]
  <2>1. s = ReplaceAt(o, i, Stray(n))
    BY <1>2, <1>3, Zenon
  <2>2. i \in 1..Len(o)
    BY <1>4
  <2>3. IsReplaced(s, o, i, Stray(n))
    BY <1>4, <2>1, <2>2, ReplacedBytes, Zenon
  <2>4. QED
    BY <1>4, <2>3 DEF IsReplaced
<1>6. PICK code, reg : /\ code = c.code /\ reg = c.reg
                       /\ code \in {5, 6, 10} /\ reg \in Nat /\ reg < 256
  BY CommandCodes, CommandFields DEF Octet
<1>7. v \in Nat /\ v < 256
  BY DEF Octet
<1>8. PICK m : m = (code + v + reg) % 256
  OBVIOUS
<1>9. /\ o[1].b = 255 /\ o[2].b = 255 /\ o[3].b = code /\ o[4].b = 0
      /\ o[5].b = v /\ o[6].b = reg /\ o[7].b = 0 /\ o[8].b = m
  BY <1>1, <1>6, <1>8 DEF AnswerOf
<1>10. /\ (s[3].b + s[4].b + s[5].b + s[6].b + s[7].b) % 256 = s[8].b
       /\ s[3].b = code /\ s[4].b = 0 /\ s[6].b = reg
  BY <1>6 DEF Right
<1>11. i \in {1, 2, 3, 4, 5, 6, 7, 8}
  OBVIOUS
<1> DEFINE same(k) == s[k].b = o[k].b
<1>12. \A k \in 1..8 : k # i => same(k)
  BY <1>5
<1>13. s[i].b = n
  BY <1>4, <1>5
<1>14. CASE i \in {1, 2, 4}
  BY <1>3, <1>9, <1>10, <1>13, <1>14
<1>15. CASE i \in {3, 6}
  <2>1. (n = (code + 1) % 256 /\ n = code) \/ (n = (reg + 1) % 256 /\ n = reg)
    BY <1>3, <1>9, <1>10, <1>13, <1>15
  <2>2. QED
    BY <1>6, <1>7, <2>1, SpoiledSums
<1>16. CASE i = 5
  <2>1. same(3) /\ same(4) /\ same(6) /\ same(7) /\ same(8)
    BY <1>12, <1>16
  <2>2. (code + 0 + n + reg + 0) % 256 = m /\ n = (v + 1) % 256
    BY <1>3, <1>9, <1>10, <1>13, <1>16, <2>1
  <2>3. QED
    BY <1>6, <1>7, <1>8, <2>2, SpoiledSums
<1>17. CASE i = 7
  <2>1. same(3) /\ same(4) /\ same(5) /\ same(6) /\ same(8)
    BY <1>12, <1>17
  <2>2. (code + 0 + v + reg + n) % 256 = m /\ n = 1
    BY <1>3, <1>9, <1>10, <1>13, <1>17, <2>1
  <2>3. QED
    BY <1>6, <1>7, <1>8, <2>2, SpoiledSums
<1>18. CASE i = 8
  <2>1. same(3) /\ same(4) /\ same(5) /\ same(6) /\ same(7)
    BY <1>12, <1>18
  <2>2. (code + 0 + v + reg + 0) % 256 = n /\ n = (m + 1) % 256
    BY <1>3, <1>9, <1>10, <1>13, <1>18, <2>1
  <2>3. QED
    BY <1>6, <1>7, <1>8, <2>2, SpoiledSums
<1>19. QED
  BY <1>11, <1>14, <1>15, <1>16, <1>17, <1>18

\* A byte added: what is compared and summed up is shifted behind it.
LEMMA ExtendedIsWrong ==
  ASSUME Unambiguous, NEW c \in CallCommands, NEW v \in Carried(c), NEW s,
         IsExtended(s, Own(c, v)), s[1].b = 255, s[2].b = 255, Right(c, s)
  PROVE  FALSE
<1>1. PICK o : o = Own(c, v) /\ AnswerOf(o, c, v)
  BY HeldType, OwnBytes, Zenon
<1>2. PICK i \in 1..8, b \in {0, 255} : s = InsertAt(o, i, Stray(b))
  BY <1>1 DEF IsExtended
<1>3. /\ o \in Seq(ReceivedByte) /\ Len(o) = 8
      /\ Stray(b) \in ReceivedByte /\ Stray(b).b = b
  <2>1. b \in Octet
    BY DEF Octet
  <2>2. QED
    BY <1>1, <2>1 DEF AnswerOf, Stray, ReceivedByte
<1>4. \A k \in 1..9 : s[k] = IF k < i THEN o[k] ELSE IF k = i THEN Stray(b) ELSE o[k - 1]
  <2>1. i \in 1..Len(o)
    BY <1>3
  <2>2. IsInserted(s, o, i, Stray(b))
    BY <1>2, <1>3, <2>1, InsertedBytes, Zenon
  <2>3. Len(o) + 1 = 9
    BY <1>3
  <2>4. QED
    BY <2>2, <2>3 DEF IsInserted
<1>5. PICK code, reg : /\ code = c.code /\ reg = c.reg
                       /\ code \in {5, 6, 10} /\ reg \in Nat /\ reg < 256
  BY CommandCodes, CommandFields DEF Octet
<1>6. v \in Nat /\ v < 256
  BY HeldType DEF Octet
<1>7. PICK m : m = (code + v + reg) % 256
  OBVIOUS
<1>8. /\ m \notin {0, 1, 255}
      /\ code = 5 /\ v = reg => v \notin {126, 254}
      /\ code # 5 => v = c.value
  BY <1>5, <1>7 DEF Unambiguous, Carried, READ_CMD
<1>differ. Differ(code, v, reg, b)
  <2>1. Told(code, v, reg)
    BY <1>7, <1>8 DEF Told
  <2>2. QED
    BY <1>5, <1>6, <2>1, ExtendedSums
<1>9. /\ o[1].b = 255 /\ o[2].b = 255 /\ o[3].b = code /\ o[4].b = 0
      /\ o[5].b = v /\ o[6].b = reg /\ o[7].b = 0 /\ o[8].b = m
  BY <1>1, <1>5, <1>7 DEF AnswerOf
<1>10. /\ (s[3].b + s[4].b + s[5].b + s[6].b + s[7].b) % 256 = s[8].b
       /\ s[3].b = code /\ s[4].b = 0 /\ s[6].b = reg
       /\ code # 5 => s[5].b = v
  BY <1>5, <1>8 DEF Right, READ_CMD
<1>11. i \in {1, 2, 3, 4, 5, 6, 7, 8}
  OBVIOUS
<1>12. \A k \in 1..9 : s[k].b = IF k < i THEN o[k].b ELSE IF k = i THEN b ELSE o[k - 1].b
  BY <1>3, <1>4
<1>13. CASE i \in {1, 2, 3}
  <2>1. s[3].b = b \/ s[3].b = 255
    BY <1>9, <1>12, <1>13
  <2>2. QED
    BY <1>5, <1>10, <2>1
<1>14. CASE i = 4
  <2>1. s[5].b = 0 /\ s[6].b = v /\ s[7].b = reg /\ s[8].b = 0
    BY <1>9, <1>12, <1>14
  <2>2. v = reg /\ (code # 5 => v = 0) /\ (code + 0 + 0 + v + reg) % 256 = 0
    BY <1>10, <2>1
  <2>3. QED
    BY <1>differ, <2>2 DEF Differ
<1>15. CASE i = 5
  <2>1. s[5].b = b /\ s[6].b = v /\ s[7].b = reg /\ s[8].b = 0
    BY <1>9, <1>12, <1>15
  <2>2. v = reg /\ (code # 5 => v = b) /\ (code + 0 + b + v + reg) % 256 = 0
    BY <1>10, <2>1
  <2>3. QED
    BY <1>differ, <2>2 DEF Differ
<1>16. CASE i = 6
  <2>1. s[5].b = v /\ s[6].b = b /\ s[7].b = reg /\ s[8].b = 0
    BY <1>9, <1>12, <1>16
  <2>2. b = reg /\ (code + 0 + v + b + reg) % 256 = 0
    BY <1>10, <2>1
  <2>3. QED
    BY <1>differ, <2>2 DEF Differ
<1>17. CASE i = 7
  <2>1. s[5].b = v /\ s[6].b = reg /\ s[7].b = b /\ s[8].b = 0
    BY <1>9, <1>12, <1>17
  <2>2. (code + 0 + v + reg + b) % 256 = 0
    BY <1>10, <2>1
  <2>3. QED
    BY <1>differ, <2>2 DEF Differ
<1>18. CASE i = 8
  <2>1. s[5].b = v /\ s[6].b = reg /\ s[7].b = 0 /\ s[8].b = b
    BY <1>9, <1>12, <1>18
  <2>2. (code + 0 + v + reg + 0) % 256 = b
    BY <1>10, <2>1
  <2>3. QED
    BY <1>differ, <2>2 DEF Differ
<1>19. QED
  BY <1>11, <1>13, <1>14, <1>15, <1>16, <1>17, <1>18

\* The bytes of what arrives: as many as were sent, or one more.
LEMMA SpoiledBytes ==
  ASSUME NEW c \in CallCommands, NEW v \in Octet, NEW a, IsSpoiled(a, Own(c, v))
  PROVE  a \in Seq(ReceivedByte) /\ Len(a) = 8
<1>1. PICK o : o = Own(c, v) /\ AnswerOf(o, c, v)
  BY OwnBytes, Zenon
<1>2. PICK i \in 1..8 : a = ReplaceAt(o, i, Stray((o[i].b + 1) % 256))
  BY <1>1 DEF IsSpoiled
<1>3. o \in Seq(ReceivedByte) /\ Len(o) = 8 /\ o[i] \in ReceivedByte
  BY <1>1 DEF AnswerOf
<1>4. Stray((o[i].b + 1) % 256) \in ReceivedByte
  BY <1>3 DEF Stray, ReceivedByte, Octet
<1>5. IsReplaced(a, o, i, Stray((o[i].b + 1) % 256))
  <2>1. i \in 1..Len(o)
    BY <1>3
  <2>2. QED
    BY <1>2, <1>3, <1>4, <2>1, ReplacedBytes, Zenon
<1>6. QED
  BY <1>3, <1>5 DEF IsReplaced

Added(a, o, i, x) ==
  /\ i \in 1..8 /\ x \in {Stray(0), Stray(255)}
  /\ a \in Seq(ReceivedByte) /\ Len(a) = 9
  /\ \A k \in 1..9 : a[k] = IF k < i THEN o[k] ELSE IF k = i THEN x ELSE o[k - 1]

LEMMA ExtendedBytes ==
  ASSUME NEW c \in CallCommands, NEW v \in Octet, NEW a, IsExtended(a, Own(c, v))
  PROVE  \E i, x : Added(a, Own(c, v), i, x)
<1>1. PICK o : o = Own(c, v) /\ AnswerOf(o, c, v)
  BY OwnBytes, Zenon
<1>2. PICK i \in 1..8, b \in {0, 255} : a = InsertAt(o, i, Stray(b))
  BY <1>1 DEF IsExtended
<1>3. o \in Seq(ReceivedByte) /\ Len(o) = 8 /\ Len(o) + 1 = 9 /\ i \in 1..Len(o)
  BY <1>1 DEF AnswerOf
<1>4. Stray(b) \in ReceivedByte /\ Stray(b) \in {Stray(0), Stray(255)}
  <2>1. b \in Octet
    BY DEF Octet
  <2>2. QED
    BY <2>1 DEF Stray, ReceivedByte
<1>5. IsInserted(a, o, i, Stray(b))
  BY <1>2, <1>3, <1>4, InsertedBytes, Zenon
<1>6. Added(a, o, i, Stray(b))
  BY <1>3, <1>4, <1>5 DEF IsInserted, Added
<1>7. QED
  BY <1>1, <1>6, Zenon

LEMMA ArrivalBytes ==
  ASSUME NEW c \in CallCommands, NEW a, Arrives(c, a)
  PROVE  a \in Seq(ReceivedByte) /\ Len(a) \in {8, 9}
<1>1. PICK v \in Carried(c) :
        \/ a = Own(c, v)
        \/ "line" \in Faults /\ (IsSpoiled(a, Own(c, v)) \/ IsExtended(a, Own(c, v)))
  BY DEF Arrives
<1>2. v \in Octet
  BY HeldType
<1>3. CASE a = Own(c, v)
  BY <1>2, <1>3, OwnBytes DEF AnswerOf
<1>4. CASE IsSpoiled(a, Own(c, v))
  BY <1>2, <1>4, SpoiledBytes
<1>5. CASE IsExtended(a, Own(c, v))
  BY <1>2, <1>5, ExtendedBytes DEF Added
<1>6. QED
  BY <1>1, <1>3, <1>4, <1>5

\* The byte that is skipped before a frame is the one that was added.
LEMMA ArrivalSkipped ==
  ASSUME NEW c \in CallCommands, NEW a, Arrives(c, a), a[1].b # 255
  PROVE  Len(Tail(a)) < 8 \/ Arrives(c, Tail(a))
<1>1. PICK v \in Carried(c) :
        \/ a = Own(c, v)
        \/ "line" \in Faults /\ (IsSpoiled(a, Own(c, v)) \/ IsExtended(a, Own(c, v)))
  BY DEF Arrives
<1>2. v \in Octet
  BY HeldType
<1>3. PICK o : o = Own(c, v) /\ AnswerOf(o, c, v)
  BY <1>2, OwnBytes, Zenon
<1>4. PICK t : /\ t = Tail(a)
               /\ t \in Seq(ReceivedByte) /\ Len(t) = Len(a) - 1
               /\ \A k \in 1..Len(t) : t[k] = a[k + 1]
  <2>1. a \in Seq(ReceivedByte) /\ Len(a) \in {8, 9}
    BY ArrivalBytes
  <2>2. a # <<>>
    BY <2>1
  <2>3. /\ Tail(a) \in Seq(ReceivedByte) /\ Len(Tail(a)) = Len(a) - 1
        /\ \A k \in 1..Len(Tail(a)) : Tail(a)[k] = a[k + 1]
    BY <2>1, <2>2, HeadTailProperties
  <2>4. QED
    BY <2>3, Zenon
<1>tail. t = Tail(a) /\ t \in Seq(ReceivedByte)
  BY <1>4, Zenon
<1>len. Len(t) = Len(a) - 1 /\ \A k \in 1..Len(t) : t[k] = a[k + 1]
  BY <1>4, Zenon
<1>5. CASE a = Own(c, v)
  BY <1>3, <1>5 DEF AnswerOf
<1>6. CASE IsSpoiled(a, Own(c, v))
  <2>1. Len(a) = 8
    BY <1>2, <1>6, SpoiledBytes
  <2>2. Len(t) < 8
    BY <1>len, <2>1
  <2>3. QED
    BY <1>tail, <2>2, Zenon
<1>7. CASE IsExtended(a, Own(c, v))
  <2>1. PICK i, x : Added(a, o, i, x)
    BY <1>2, <1>3, <1>7, ExtendedBytes, Zenon
  <2>2. i = 1
    BY <1>3, <2>1 DEF Added, AnswerOf
  <2>3. Len(a) = 9 /\ \A k \in 1..8 : a[k + 1] = o[k]
    BY <2>1, <2>2 DEF Added
  <2>4. Len(t) = 8 /\ \A k \in 1..8 : t[k] = o[k]
    BY <1>len, <2>3
  <2>5. o \in Seq(ReceivedByte) /\ Len(o) = 8
    BY <1>3 DEF AnswerOf
  <2>6. t = o
    <3>1. Len(t) = Len(o) /\ \A k \in 1..Len(t) : t[k] = o[k]
      BY <2>4, <2>5
    <3>2. t \in Seq(ReceivedByte) /\ o \in Seq(ReceivedByte)
      BY <1>tail, <2>5, Zenon
    <3>3. QED
      BY <3>1, <3>2, SeqEqual
  <2>7. QED
    BY <1>3, <1>tail, <2>6, Zenon DEF Arrives
<1>8. QED
  BY <1>1, <1>5, <1>6, <1>7

\* A frame that is right is the answer as it was sent, and nothing comes after it.
LEMMA ArrivalRead ==
  ASSUME "line" \in Faults => Unambiguous, NEW c \in CallCommands, NEW a, Arrives(c, a),
         a[1].b = 255, a[2].b = 255, Right(c, a)
  PROVE  \A k \in 1..8 : a[k].own = TRUE
<1>1. PICK v \in Carried(c) :
        \/ a = Own(c, v)
        \/ "line" \in Faults /\ (IsSpoiled(a, Own(c, v)) \/ IsExtended(a, Own(c, v)))
  BY DEF Arrives
<1>2. v \in Octet
  BY HeldType
<1>3. CASE a = Own(c, v)
  BY <1>2, <1>3, OwnBytes DEF AnswerOf
<1>4. CASE "line" \in Faults /\ IsSpoiled(a, Own(c, v))
  BY <1>2, <1>4, SpoiledIsWrong
<1>5. CASE "line" \in Faults /\ IsExtended(a, Own(c, v))
  BY <1>5, ExtendedIsWrong
<1>6. QED
  BY <1>1, <1>3, <1>4, <1>5

\* What is left behind the eight bytes of a frame can't begin another.
LEMMA ArrivalRest ==
  ASSUME "line" \in Faults => Unambiguous, NEW c \in CallCommands, NEW a, Arrives(c, a),
         Len(a) = 9
  PROVE  a[9].b # 255
<1>1. PICK v \in Carried(c) :
        \/ a = Own(c, v)
        \/ "line" \in Faults /\ (IsSpoiled(a, Own(c, v)) \/ IsExtended(a, Own(c, v)))
  BY DEF Arrives
<1>2. v \in Octet
  BY HeldType
<1>3. PICK o : o = Own(c, v) /\ AnswerOf(o, c, v)
  BY <1>2, OwnBytes, Zenon
<1>4. a # Own(c, v)
  <2>1. Len(o) = 8
    BY <1>3 DEF AnswerOf
  <2>2. QED
    BY <1>3, <2>1
<1>5. ASSUME IsSpoiled(a, Own(c, v)) PROVE FALSE
  <2>1. Len(a) = 8
    BY <1>2, <1>5, SpoiledBytes
  <2>2. QED
    BY <2>1
<1>6. "line" \in Faults /\ IsExtended(a, Own(c, v))
  BY <1>1, <1>4, <1>5
<1>7. PICK i, x : Added(a, o, i, x)
  BY <1>2, <1>3, <1>6, ExtendedBytes, Zenon
<1>8. a[9] = o[8]
  BY <1>7 DEF Added
<1>9. o[8].b = (c.code + v + c.reg) % 256
  BY <1>3 DEF AnswerOf
<1>10. (c.code + v + c.reg) % 256 # 255
  BY <1>6 DEF Unambiguous
<1>11. QED
  BY <1>8, <1>9, <1>10

\* While no answer is late, the command that waits for its answer is the one in progress, and
\* what its module does leaves values the answers may carry.
LEMMA OwnAnswerSent ==
  ASSUME TypeOK, CellsHeld, sent # <<>>, Head(sent) = [command |-> req, own |-> TRUE]
  PROVE  /\ \E v \in Carried(req) : FullAnswer = Own(req, v)
         /\ Executed \in [Modules -> [Registers -> Held]]
<1>1. Head(sent).command = req /\ Head(sent).own = TRUE
  OBVIOUS
<1>2. req \in CallCommands
  BY DEF TypeOK
<1>3. req.module \in Modules /\ req.reg \in Registers
  BY <1>2, CommandFields
<1>4. FullAnswer = Own(req, Executed[req.module][req.reg])
  BY <1>1, Zenon DEF FullAnswer, Own
<1>5. CASE req.code = READ_CMD
  <2>1. Executed = cell
    BY <1>1, <1>5, Zenon DEF Executed
  <2>2. Executed[req.module][req.reg] \in Carried(req)
    BY <1>3, <1>5, <2>1 DEF CellsHeld, Carried
  <2>3. QED
    BY <1>4, <2>1, <2>2, Zenon DEF CellsHeld
<1>6. CASE req.code # READ_CMD
  <2>1. Executed = [cell EXCEPT ![req.module][req.reg] = req.value]
    BY <1>1, <1>6, Zenon DEF Executed
  <2>2. req.value \in Held /\ Carried(req) = {req.value}
    BY <1>2, <1>6, Zenon DEF Held, Carried
  <2>3. Executed \in [Modules -> [Registers -> Held]] /\ Executed[req.module][req.reg] = req.value
    BY <1>3, <2>1, <2>2 DEF CellsHeld
  <2>4. QED
    BY <1>4, <2>2, <2>3, Zenon
<1>7. QED
  BY <1>5, <1>6

LEMMA OneByte ==
  ASSUME NEW s \in Seq(ReceivedByte), s # <<>>, Len(s) <= 1
  PROVE  Len(s) = 1
<1>1. Len(s) \in Nat \ {0}
  BY EmptySeq
<1>2. \A n \in Nat \ {0} : n <= 1 => n = 1
  OBVIOUS
<1>3. QED
  BY <1>1, <1>2, Zenon

LEMMA OneBefore ==
  ASSUME NEW x \in Seq(ReceivedByte), Len(x) = 1, NEW r \in Seq(ReceivedByte),
         NEW u, u = x \o r
  PROVE  Len(u) = Len(r) + 1 /\ u # <<>> /\ u[1] = x[1] /\ Tail(u) = r
<1>1. /\ x \o r \in Seq(ReceivedByte) /\ Len(x \o r) = Len(x) + Len(r)
      /\ \A k \in 1..Len(x) + Len(r) :
           (x \o r)[k] = IF k <= Len(x) THEN x[k] ELSE r[k - Len(x)]
  BY ConcatProperties
<1>2. /\ u \in Seq(ReceivedByte) /\ Len(u) = Len(x) + Len(r)
      /\ \A k \in 1..Len(x) + Len(r) :
           u[k] = IF k <= Len(x) THEN x[k] ELSE r[k - Len(x)]
  BY <1>1, Zenon
<1>3. Len(r) \in Nat
  BY LenProperties
<1>4. Len(u) = Len(r) + 1 /\ u[1] = x[1] /\ \A k \in 1..Len(r) : u[k + 1] = r[k]
  BY <1>2, <1>3
<1>5. u # <<>>
  BY <1>3, <1>4
<1>6. PICK t : /\ t = Tail(u)
               /\ t \in Seq(ReceivedByte) /\ Len(t) = Len(u) - 1
               /\ \A k \in 1..Len(t) : t[k] = u[k + 1]
  <2>1. /\ Tail(u) \in Seq(ReceivedByte) /\ Len(Tail(u)) = Len(u) - 1
        /\ \A k \in 1..Len(Tail(u)) : Tail(u)[k] = u[k + 1]
    BY <1>2, <1>5, HeadTailProperties
  <2>2. QED
    BY <2>1, Zenon
<1>7. /\ t \in Seq(ReceivedByte) /\ Len(t) = Len(u) - 1
      /\ \A k \in 1..Len(t) : t[k] = u[k + 1]
  BY <1>6, Zenon
<1>8. Len(t) = Len(r) /\ \A k \in 1..Len(t) : t[k] = r[k]
  <2>1. Len(t) = Len(u) - 1 /\ Len(u) = Len(r) + 1
    BY <1>4, <1>7, Zenon
  <2>2. Len(t) = Len(r)
    BY <1>3, <2>1
  <2>3. QED
    BY <1>4, <1>7, <2>2, Zenon
<1>9. t = r
  BY <1>7, <1>8, SeqEqual
<1>10. QED
  BY <1>4, <1>5, <1>6, <1>9, Zenon

\* What the port receives behind at most one byte that is to be skipped.
LEMMA ReceivedBehind ==
  ASSUME TypeOK, Residue, NEW received \in Seq(ReceivedByte),
         Len(received) < 8 \/ Arrives(req, received),
         input' = input \o received, req' = req
  PROVE  Reading'
<1>1. input \in Seq(ReceivedByte) /\ req \in CallCommands
  BY DEF TypeOK
<1>2. CASE input = <<>>
  <2>1. input' = received
    BY <1>2
  <2>2. QED
    BY <2>1 DEF Reading
<1>3. CASE input # <<>>
  <2>1. Len(input) = 1
    <3>1. Len(input) <= 1
      BY DEF Residue
    <3>2. QED
      BY <1>1, <1>3, <3>1, OneByte, Zenon
  <2>2. /\ Len(input') = Len(received) + 1 /\ input' # <<>>
        /\ input'[1] = input[1] /\ Tail(input') = received
    BY <1>1, <2>1, OneBefore
  <2>3. Len(received) \in Nat
    BY LenProperties
  <2>4. input' # <<>> /\ input'[1].b # 255 /\ Tail(input') = received
    BY <1>3, <2>2, Zenon DEF Residue, Byte
  <2>5. Skipped'
    BY <2>4, Zenon DEF Skipped, Byte
  <2>6. CASE Len(received) < 8
    <3>1. Len(input') = Len(received) + 1
      BY <2>2, Zenon
    <3>2. Len(input') < 8 \/ Len(input') = 8
      BY <2>3, <2>6, <3>1
    <3>3. QED
      BY <2>5, <3>2, Zenon DEF Reading
  <2>7. CASE Arrives(req, received)
    BY <2>4, <2>5, <2>7, Zenon DEF Reading
  <2>8. QED
    BY <2>6, <2>7
<1>4. QED
  BY <1>2, <1>3

\* Everything the modules and the line can make of the answer.
LEMMA ExecuteInv ==
  ASSUME TypeOK, "late" \notin Faults, BusInv, sent # <<>>, NEW received \in Seq(ReceivedByte),
         Len(received) < 8 \/ Arrives(req, received), Execute(received)
  PROVE  BusInv'
<1>1. pc = "answer" /\ open = TRUE
  BY DEF BusInv, InputInv, TypeOK
<1>2. Residue /\ Len(sent) = 1 /\ Head(sent) = [command |-> req, own |-> TRUE]
  BY <1>1 DEF BusInv, InputInv
<1>3. input' = input \o received /\ req' = req /\ pc' = pc /\ outcome' = outcome
  BY <1>1 DEF Execute
<1>4. sent' = <<>>
  BY <1>2 DEF Execute, TypeOK
<1>5. Reading'
  BY <1>2, <1>3, ReceivedBehind
<1>6. CellsHeld'
  <2>1. Executed \in [Modules -> [Registers -> Held]]
    BY <1>2, OwnAnswerSent, Zenon DEF BusInv
  <2>2. QED
    BY <2>1, Zenon DEF Execute, CellsHeld
<1>7. InputInv'
  BY <1>1, <1>3, <1>4, <1>5 DEF InputInv
<1>8. QED
  BY <1>3, <1>6, <1>7 DEF BusInv, OwnAnswer

LEMMA AnswersInv ==
  ASSUME TypeOK, "late" \notin Faults, BusInv, Answer \/ SpoilAnswer
  PROVE  BusInv'
<1>1. sent # <<>>
  BY DEF Answer, SpoilAnswer
<1>2. pc = "answer" /\ req \in CallCommands
  BY <1>1 DEF BusInv, InputInv, TypeOK
<1>3. Head(sent) = [command |-> req, own |-> TRUE]
  BY <1>1, <1>2 DEF BusInv, InputInv
<1>4. PICK v \in Carried(req) : FullAnswer = Own(req, v)
  BY <1>1, <1>3, OwnAnswerSent DEF BusInv
<1>5. v \in Octet
  BY <1>2, HeldType
<1>own. PICK o : o = FullAnswer /\ o = Own(req, v)
  BY <1>4
<1>6. o \in Seq(ReceivedByte) /\ Len(o) = 8
  <2>1. AnswerOf(o, req, v)
    BY <1>2, <1>5, <1>own, OwnBytes, Zenon
  <2>2. QED
    BY <2>1 DEF AnswerOf
<1>7. \A r \in Seq(ReceivedByte) : (Len(r) < 8 \/ Arrives(req, r)) /\ Execute(r) => BusInv'
  BY <1>1, ExecuteInv
<1>8. Arrives(req, o)
  BY <1>own, Zenon DEF Arrives
<1>9. CASE Execute(o)
  BY <1>6, <1>7, <1>8, <1>9, Zenon
<1>10. CASE Execute(<<>>)
  <2>1. <<>> \in Seq(ReceivedByte) /\ Len(<<>>) < 8
    OBVIOUS
  <2>2. QED
    BY <1>7, <1>10, <2>1
<1>11. ASSUME NEW i \in 1..8, Execute(RemoveAt(o, i)) PROVE BusInv'
  <2>1. i \in 1..Len(o) /\ Len(o) - 1 < 8
    BY <1>6
  <2>2. RemoveAt(o, i) \in Seq(ReceivedByte) /\ Len(RemoveAt(o, i)) = Len(o) - 1
    BY <1>6, <2>1, RemovedBytes
  <2>3. Len(RemoveAt(o, i)) < 8
    BY <2>1, <2>2
  <2>4. QED
    BY <1>7, <1>11, <2>2, <2>3, Zenon
<1>12. ASSUME "line" \in Faults, NEW i \in 1..8,
              Execute(ReplaceAt(o, i, Stray((o[i].b + 1) % 256)))
       PROVE  BusInv'
  <2>1. PICK a : a = ReplaceAt(o, i, Stray((o[i].b + 1) % 256))
    OBVIOUS
  <2>2. IsSpoiled(a, Own(req, v))
    BY <1>own, <2>1 DEF IsSpoiled
  <2>3. a \in Seq(ReceivedByte)
    BY <1>2, <1>5, <2>2, SpoiledBytes
  <2>4. Arrives(req, a)
    BY <1>12, <2>2, Zenon DEF Arrives
  <2>5. QED
    BY <1>7, <1>12, <2>1, <2>3, <2>4, Zenon
<1>13. ASSUME "line" \in Faults, NEW i \in 1..8, NEW b \in {0, 255},
              Execute(InsertAt(o, i, Stray(b)))
       PROVE  BusInv'
  <2>1. PICK a : a = InsertAt(o, i, Stray(b))
    OBVIOUS
  <2>2. IsExtended(a, Own(req, v))
    BY <1>own, <2>1 DEF IsExtended
  <2>3. Arrives(req, a)
    BY <1>13, <2>2, Zenon DEF Arrives
  <2>4. a \in Seq(ReceivedByte)
    BY <1>2, <2>3, ArrivalBytes
  <2>5. QED
    BY <1>7, <1>13, <2>1, <2>3, <2>4, Zenon
<1>14. CASE Answer
  BY <1>own, <1>9, <1>14, Zenon DEF Answer
<1>15. CASE SpoilAnswer
  <2>1. "line" \in Faults
    BY <1>15 DEF SpoilAnswer
  <2>2. \/ Execute(<<>>)
        \/ \E i \in 1..8 :
             \/ Execute(RemoveAt(o, i))
             \/ Execute(ReplaceAt(o, i, Stray((o[i].b + 1) % 256)))
             \/ \E b \in {0, 255} : Execute(InsertAt(o, i, Stray(b)))
    BY <1>own, <1>15 DEF SpoilAnswer, AnswerLength
  <2>3. QED
    BY <1>10, <1>11, <1>12, <1>13, <2>1, <2>2, Zenon
<1>16. QED
  BY <1>14, <1>15

\* A frame is read: it is the answer as it was sent, or the call fails.
LEMMA ReadInv ==
  ASSUME TypeOK, "late" \notin Faults, "line" \in Faults => Unambiguous, BusInv, ReadAnswer
  PROVE  BusInv'
<1>1. /\ pc = "answer" /\ Len(input) >= 8 /\ input[1].b = 255 /\ input[2].b = 255
  BY DEF ReadAnswer, Framed, AnswerLength, Byte
<1>2. req \in CallCommands /\ input \in Seq(ReceivedByte)
  BY DEF TypeOK
<1>3. sent = <<>>
  BY <1>1 DEF BusInv, InputInv, Residue
<1>4. Reading
  BY <1>1, <1>3 DEF BusInv, InputInv
<1>5. Arrives(req, input)
  BY <1>1, <1>4 DEF Reading, Skipped, Byte
<1>6. Len(input) \in {8, 9}
  BY <1>2, <1>5, ArrivalBytes
<1>7. Accepts(SubSeq(input, 1, 8)) => \A k \in 1..8 : SubSeq(input, 1, 8)[k].own = TRUE
  <2>1. SUFFICES ASSUME Accepts(SubSeq(input, 1, 8))
                 PROVE  \A k \in 1..8 : SubSeq(input, 1, 8)[k].own = TRUE
    OBVIOUS
  <2>2. Right(req, input)
    BY <1>1, <1>2, <2>1, AcceptedIsRight
  <2>3. \A k \in 1..8 : input[k].own = TRUE
    BY <1>1, <1>2, <1>5, <2>2, ArrivalRead
  <2>4. \A k \in 1..8 : SubSeq(input, 1, 8)[k] = input[k]
    BY <1>1, <1>2, FirstBytes
  <2>5. QED
    BY <2>3, <2>4
<1>8. OwnAnswer'
  <2>1. outcome'.kind = IF Accepts(SubSeq(input, 1, 8)) THEN "ok" ELSE "transient"
    BY DEF ReadAnswer, Over, AnswerLength
  <2>2. outcome'.own = \A k \in 1..8 : SubSeq(input, 1, 8)[k].own
    BY DEF ReadAnswer, Over, AnswerLength
  <2>3. QED
    BY <1>7, <2>1, <2>2, Zenon DEF OwnAnswer
<1>9. Residue'
  <2>1. input' = SubSeq(input, 9, Len(input))
    BY DEF ReadAnswer, AnswerLength
  <2>2. CASE Len(input) = 8
    <3>1. SubSeq(input, 9, 8) = <<>>
      BY SubSeqEmpty
    <3>2. input' = <<>>
      BY <2>1, <2>2, <3>1
    <3>3. QED
      BY <3>2 DEF Residue
  <2>3. CASE Len(input) = 9
    <3>1. Len(SubSeq(input, 9, 9)) = 1 /\ SubSeq(input, 9, 9)[1] = input[9]
      <4>1. \A k \in 9..9 : input[k] \in ReceivedByte
        <5>1. \A k \in 1..Len(input) : input[k] \in ReceivedByte
          BY <1>2, ElementOfSeq
        <5>2. \A k \in 9..9 : k \in 1..Len(input)
          BY <2>3
        <5>3. QED
          BY <5>1, <5>2, Zenon
      <4>2. /\ Len(SubSeq(input, 9, 9)) = IF 9 <= 9 THEN 9 - 9 + 1 ELSE 0
            /\ \A k \in 1..9 - 9 + 1 : SubSeq(input, 9, 9)[k] = input[9 + k - 1]
        BY <4>1, SubSeqProperties
      <4>3. QED
        BY <4>2
    <3>2. input[9].b # 255
      BY <1>2, <1>5, <2>3, ArrivalRest
    <3>3. Len(input') = 1 /\ input'[1].b # 255
      <4>1. input' = SubSeq(input, 9, 9)
        BY <2>1, <2>3
      <4>2. QED
        BY <3>1, <3>2, <4>1, Zenon
    <3>4. QED
      BY <3>3 DEF Residue, Byte
  <2>4. QED
    BY <1>6, <2>2, <2>3
<1>10. pc' = "idle" /\ sent' = <<>> /\ cell' = cell
  BY <1>3 DEF ReadAnswer, Over
<1>11. InputInv'
  BY <1>9, <1>10, Zenon DEF InputInv
<1>12. QED
  BY <1>8, <1>10, <1>11 DEF BusInv, CellsHeld

\* A byte that can't begin a frame is skipped, or an 0xff and the byte after it.
LEMMA ResyncInv ==
  ASSUME TypeOK, "late" \notin Faults, BusInv, Resync
  PROVE  BusInv'
<1>1. /\ pc = "answer" /\ input # <<>>
      /\ UNCHANGED <<open, pc, next, req, sent, cell, outcome>>
  BY DEF Resync
<1>2. req \in CallCommands /\ input \in Seq(ReceivedByte) /\ Len(input) \in Nat \ {0}
  BY <1>1, EmptySeq DEF TypeOK
<1>3. CASE Byte(1) # 255 /\ input' = Tail(input)
  <2>1. PICK t : t = Tail(input) /\ t \in Seq(ReceivedByte) /\ Len(t) = Len(input) - 1
    <3>1. Tail(input) \in Seq(ReceivedByte) /\ Len(Tail(input)) = Len(input) - 1
      BY <1>1, <1>2, HeadTailProperties
    <3>2. QED
      BY <3>1, Zenon
  <2>2. input' = t /\ t = Tail(input)
    BY <1>3, <2>1, Zenon
  <2>3. Len(t) = Len(input) - 1 /\ t \in Seq(ReceivedByte)
    BY <2>1, Zenon
  <2>4. CASE sent # <<>>
    <3>1. Len(input) <= 1
      BY <1>1, <2>4 DEF BusInv, InputInv, Residue
    <3>2. Len(t) = 0
      BY <1>2, <2>3, <3>1
    <3>3. t = <<>>
      BY <2>3, <3>2
    <3>4. Residue'
      BY <2>2, <3>3 DEF Residue
    <3>5. QED
      BY <1>1, <2>4, <3>4 DEF BusInv, InputInv, CellsHeld, OwnAnswer
  <2>5. CASE sent = <<>>
    <3>1. Reading
      BY <1>1, <2>5 DEF BusInv, InputInv
    <3>2. Len(input') < 8 \/ Arrives(req', input')
      <4>1. CASE Len(input) < 8 \/ Len(input) = 8
        <5>1. Len(t) < 8
          <6>1. \A n \in Nat \ {0} : \A m : (n < 8 \/ n = 8) /\ m = n - 1 => m < 8
            OBVIOUS
          <6>2. QED
            BY <1>2, <2>3, <4>1, <6>1, Zenon
        <5>2. QED
          BY <2>2, <5>1, Zenon
      <4>2. CASE Arrives(req, input)
        <5>1. Len(Tail(input)) < 8 \/ Arrives(req, Tail(input))
          BY <1>2, <1>3, <4>2, ArrivalSkipped DEF Byte
        <5>2. QED
          BY <1>1, <1>3, <5>1, Zenon
      <4>3. CASE Arrives(req, Tail(input))
        BY <1>1, <1>3, <4>3, Zenon
      <4>4. QED
        BY <3>1, <4>1, <4>2, <4>3, Zenon DEF Reading
    <3>3. Reading'
      BY <3>2, Zenon DEF Reading
    <3>4. QED
      BY <1>1, <2>5, <3>3 DEF BusInv, InputInv, CellsHeld, OwnAnswer
  <2>6. QED
    BY <2>4, <2>5
<1>4. CASE /\ Len(input) > 1 /\ Byte(1) = 255 /\ Byte(2) # 255
           /\ input' = SubSeq(input, 3, Len(input))
  <2>1. sent = <<>>
    BY <1>1, <1>4 DEF BusInv, InputInv, Residue
  <2>2. Len(input) <= 9
    <3>1. Reading
      BY <1>1, <2>1 DEF BusInv, InputInv
    <3>2. Len(input) <= 8 \/ Arrives(req, input)
      BY <1>2, <1>4, <3>1 DEF Reading, Skipped
    <3>3. Arrives(req, input) => Len(input) \in {8, 9}
      BY <1>2, ArrivalBytes
    <3>4. \A n \in Nat \ {0} : n <= 8 \/ n \in {8, 9} => n <= 9
      OBVIOUS
    <3>5. QED
      BY <1>2, <3>2, <3>3, <3>4, Zenon
  <2>3. Len(SubSeq(input, 3, Len(input))) = IF 3 <= Len(input) THEN Len(input) - 2 ELSE 0
    <3>1. \A k \in 3..Len(input) : input[k] \in ReceivedByte
      BY <1>2, ElementOfSeq
    <3>2. Len(SubSeq(input, 3, Len(input))) =
            IF 3 <= Len(input) THEN Len(input) - 3 + 1 ELSE 0
      BY <1>2, <3>1, SubSeqProperties
    <3>3. QED
      BY <1>2, <3>2
  <2>4. Len(input') < 8
    BY <1>2, <1>4, <2>2, <2>3
  <2>5. Reading'
    BY <2>4, Zenon DEF Reading
  <2>6. QED
    BY <1>1, <2>1, <2>5 DEF BusInv, InputInv, CellsHeld, OwnAnswer
<1>5. QED
  BY <1>3, <1>4 DEF Resync

\* The next command is sent when nothing waits for an answer.
LEMMA StartInv ==
  ASSUME TypeOK, BusInv, StartCall
  PROVE  BusInv'
<1>1. sent = <<>> /\ Residue /\ input \in Seq(ReceivedByte)
  BY DEF StartCall, BusInv, InputInv, TypeOK
<1>2. /\ pc' = "answer" /\ UNCHANGED <<next, cell, outcome>>
  BY DEF StartCall
<1>3. sent' = <<[command |-> req', own |-> TRUE]>>
  <2>1. [i \in DOMAIN sent |-> [sent[i] EXCEPT !.own = FALSE]] = <<>>
    BY <1>1
  <2>2. sent' = Append([i \in DOMAIN sent |-> [sent[i] EXCEPT !.own = FALSE]],
                      [command |-> req', own |-> TRUE])
    BY Zenon DEF StartCall
  <2>3. \A x : Append(<<>>, x) = <<x>>
    OBVIOUS
  <2>4. QED
    BY <2>1, <2>2, <2>3, Zenon
<1>4. Len(sent') = 1 /\ Head(sent') = [command |-> req', own |-> TRUE] /\ sent' # <<>>
  BY <1>3
<1>5. Residue'
  <2>1. CASE input = <<>>
    <3>1. input' = <<>>
      BY <2>1 DEF StartCall
    <3>2. QED
      BY <3>1 DEF Residue
  <2>2. CASE input # <<>>
    <3>1. Len(input) = 1
      BY <1>1, <2>2, OneByte DEF Residue
    <3>2. DOMAIN input = 1..1 /\ input[1] \in ReceivedByte
      BY <1>1, <3>1, LenProperties
    <3>3. input' = [i \in 1..1 |-> [input[i] EXCEPT !.own = FALSE]]
      BY <3>2 DEF StartCall
    <3>4. Len(input') = 1 /\ input'[1].b = input[1].b
      BY <3>2, <3>3 DEF ReceivedByte
    <3>5. QED
      BY <1>1, <2>2, <3>4 DEF Residue, Byte
  <2>3. QED
    BY <2>1, <2>2
<1>6. QED
  BY <1>2, <1>4, <1>5 DEF BusInv, InputInv, CellsHeld, OwnAnswer

\* While no answer is late and, where the line spoils them, the sums tell the answers apart, a
\* call that succeeds has read the intact answer of its own command, for any calls, values,
\* losses and port failures.
THEOREM AnswersAreOwn ==
  ASSUME "late" \notin Faults, "line" \in Faults => Unambiguous
  PROVE  Spec => []OwnAnswer
<1>1. Init => BusInv
  <2> SUFFICES ASSUME Init PROVE BusInv
    OBVIOUS
  <2>1. Values \subseteq Held
    BY DEF Held
  <2>2. CellsHeld
    BY <2>1 DEF Init, CellsHeld
  <2>3. InputInv /\ OwnAnswer
    BY DEF Init, InputInv, Residue, OwnAnswer
  <2>4. QED
    BY <2>2, <2>3 DEF BusInv
<1>2. TypeOK /\ BusInv /\ [Next]_vars => BusInv'
  <2> SUFFICES ASSUME TypeOK, BusInv, [Next]_vars PROVE BusInv'
    OBVIOUS
  <2>1. CASE StartCall
    BY <2>1, StartInv
  <2>2. CASE RefuseCall \/ OpenFails \/ WriteFails
    <3>1. pc = "idle" /\ pc' = "idle" /\ UNCHANGED <<sent, cell>> /\ outcome'.kind # "ok"
      BY <2>2 DEF RefuseCall, OpenFails, WriteFails, Over
    <3>2. input' = input \/ input' = <<>>
      BY <2>2 DEF RefuseCall, OpenFails, WriteFails
    <3>3. Residue'
      BY <3>1, <3>2 DEF BusInv, InputInv, Residue, Byte
    <3>4. QED
      BY <3>1, <3>3 DEF BusInv, InputInv, CellsHeld, OwnAnswer
  <2>3. CASE Resync
    BY <2>3, ResyncInv
  <2>4. CASE ReadAnswer
    BY <2>4, ReadInv
  <2>5. CASE Timeout \/ ReadFails
    <3>1. sent = <<>>
      BY <2>5 DEF Timeout, ReadFails, AnswerNotDue
    <3>2. pc' = "idle" /\ input' = <<>> /\ UNCHANGED <<sent, cell>> /\ outcome'.kind # "ok"
      BY <2>5 DEF Timeout, ReadFails, Over
    <3>3. Residue'
      BY <3>2 DEF Residue
    <3>4. QED
      BY <3>1, <3>2, <3>3 DEF BusInv, InputInv, CellsHeld, OwnAnswer
  <2>6. CASE Answer \/ SpoilAnswer
    BY <2>6, AnswersInv
  <2>7. CASE LoseCommand
    <3>1. sent # <<>> /\ sent' = Tail(sent)
          /\ UNCHANGED <<open, pc, next, req, input, cell, outcome>>
      BY <2>7 DEF LoseCommand
    <3>2. pc = "answer" /\ Residue /\ Len(sent) = 1
      BY <3>1 DEF BusInv, InputInv, TypeOK
    <3>3. sent' = <<>>
      BY <3>1, <3>2 DEF TypeOK
    <3>4. Reading'
      BY <3>1, <3>2 DEF Residue, Reading, TypeOK
    <3>5. QED
      BY <3>1, <3>2, <3>3, <3>4 DEF BusInv, InputInv, CellsHeld, OwnAnswer
  <2>8. CASE ModuleChanges
    <3>1. UNCHANGED <<open, pc, next, req, sent, input, outcome>>
      BY <2>8 DEF ModuleChanges
    <3>2. CellsHeld'
      BY <2>8 DEF ModuleChanges, BusInv, CellsHeld, Held
    <3>3. QED
      BY <3>1, <3>2 DEF BusInv, InputInv, Residue, Reading, Skipped, Byte, OwnAnswer
  <2>9. CASE UNCHANGED vars
    BY <2>9 DEF vars, BusInv, InputInv, Residue, Reading, Skipped, Byte, CellsHeld, OwnAnswer
  <2>10. QED
    BY <2>1, <2>2, <2>3, <2>4, <2>5, <2>6, <2>7, <2>8, <2>9
       DEF Next, Master, PortFailure
<1>3. BusInv => OwnAnswer
  BY DEF BusInv
<1>4. QED
  BY <1>1, <1>2, <1>3, TypeCorrect, PTL DEF Spec
=============================================================================
