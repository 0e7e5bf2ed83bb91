---------------------------- MODULE Modbus_proofs ----------------------------
(***************************************************************************)
(* Proofs about the Modbus driver, for any number of registers of any type *)
(* and format, any commands and any behaviour of the slaves: the           *)
(* conversions, the client, and the port, which drives its client only as  *)
(* ModbusClient allows, so that what is proved of the client holds of the  *)
(* port, with both of its threads, the broker's connection and restarts.   *)
(***************************************************************************)
EXTENDS ModbusPort, SequenceTheorems, WellFoundedInduction, TLAPS

-----------------------------------------------------------------------------
(***************************************************************************)
(* The conversions of a register handler (ModbusFormat), for every format  *)
(* and integer.                                                            *)
(***************************************************************************)

\* Whatever integer is written, the register reads back the value of the format
\* that is congruent to it modulo the format's size.
THEOREM ReadBackIsCongruent ==
  ASSUME NEW f \in Formats, NEW v \in Int
  PROVE  ReadsBackCongruent(f, v)
<1> USE DEF ReadsBackCongruent, ReadBack, ConvertMasterValue, ConvertSlaveValue,
            AsSigned, FormatRange, Modulus
<1>1. CASE f = "U16"
  BY <1>1
<1>2. CASE f = "S16"
  BY <1>2
<1>3. CASE f = "U8"
  BY <1>3
<1>4. CASE f = "S8"
  BY <1>4
<1>5. QED
  BY <1>1, <1>2, <1>3, <1>4 DEF Formats

\* A value of the format's range survives a write and a read: the poll that
\* follows a command the slave accepted reports no change.
THEOREM InRangeSurvives ==
  ASSUME NEW f \in Formats, NEW v \in Int
  PROVE  SurvivesRoundTrip(f, v)
<1> USE DEF SurvivesRoundTrip, ReadBack, ConvertMasterValue, ConvertSlaveValue,
            AsSigned, FormatRange
<1>1. CASE f = "U16"
  BY <1>1
<1>2. CASE f = "S16"
  BY <1>2
<1>3. CASE f = "U8"
  BY <1>3
<1>4. CASE f = "S8"
  BY <1>4
<1>5. QED
  BY <1>1, <1>2, <1>3, <1>4 DEF Formats

\* A 16-bit format loses nothing of the word it read.
THEOREM WordSurvives ==
  ASSUME NEW f \in Formats, NEW w \in Word
  PROVE  WriteBackKeepsWord(f, w)
<1> USE DEF WriteBackKeepsWord, ConvertMasterValue, ConvertSlaveValue, AsSigned, Word
<1>1. CASE f = "U16"
  BY <1>1
<1>2. CASE f = "S16"
  BY <1>2
<1>3. CASE f \in {"U8", "S8"}
  BY <1>3
<1>4. QED
  BY <1>1, <1>2, <1>3 DEF Formats

-----------------------------------------------------------------------------
(***************************************************************************)
(* The conversions stay within their types.                                *)
(***************************************************************************)

\* Whatever word a register holds, its handler reads an integer.
LEMMA FromWordInt ==
  ASSUME NEW r \in Regs, NEW w \in Word
  PROVE  FromWord(r, w) \in Int
<1>1. RegType[r] \in RegisterTypes /\ RegFormat[r] \in Formats
  BY RegisterAssumption
<1>2. w \in Int /\ w % 2 \in Int /\ w % 256 \in Int
  BY DEF Word
<1>3. \A x \in Int : AsSigned(x, 256) \in Int /\ AsSigned(x, 65536) \in Int
  BY DEF AsSigned
<1>4. ConvertSlaveValue(RegFormat[r], w) \in Int
  BY <1>1, <1>2, <1>3 DEF ConvertSlaveValue, Formats
<1>5. QED
  BY <1>2, <1>4 DEF FromWord, RegisterValue

\* Whatever integer a handler keeps, what it writes is a 16-bit word.
LEMMA ToWordIsWord ==
  ASSUME NEW r \in Regs, NEW v \in Int
  PROVE  ToWord(r, v) \in Word
BY DEF ToWord, ConvertMasterValue, Word

\* A slave stores a word of what it accepts.
LEMMA StoredIsWord ==
  ASSUME NEW type, NEW w \in Word
  PROVE  StoredWord(type, w) \in Word
BY DEF StoredWord, Word

-----------------------------------------------------------------------------
(***************************************************************************)
(* Type correctness.                                                       *)
(***************************************************************************)

LEMMA InitTypeOK == Init => TypeOK
<1> SUFFICES ASSUME Init PROVE TypeOK
  OBVIOUS
<1>1. 1 \in Regs
  BY NumRegsAssumption DEF Regs
<1>2. device \in [Regs -> Word]
  BY EnvironmentAssumption DEF Init
<1>3. active \in BOOLEAN /\ first_poll \in BOOLEAN
  BY Zenon DEF Init, ProcessStart
<1>4. dirty \in [Regs -> BOOLEAN] /\ did_read \in [Regs -> BOOLEAN]
  BY DEF Init, ProcessStart
<1>5. asked \in [Regs -> Int \cup {None}] /\ attempted \in [Regs -> Word \cup {None}]
  BY DEF Init, ProcessStart
<1>6. value \in [Regs -> Int]
  BY DEF Init, ProcessStart
<1>7. cur \in Regs /\ fq \in Regs /\ new_value \in Int /\ mpc \in Locations
  BY <1>1 DEF Init, ProcessStart, Locations
<1>8. QED
  BY <1>2, <1>3, <1>4, <1>5, <1>6, <1>7, Zenon DEF TypeOK

\* Both loops of Cycle stay within the registers.
LEMMA NextFlushType ==
  ASSUME TypeOK, NextFlush
  PROVE  fq' \in Regs /\ mpc' \in {"flush", "poll"}
BY NumRegsAssumption DEF TypeOK, NextFlush, Regs

LEMMA NextPollType ==
  ASSUME TypeOK, NextPoll
  PROVE  /\ fq' \in Regs /\ cur' \in Regs
         /\ new_value' \in Int /\ first_poll' \in BOOLEAN
         /\ mpc' \in {"flush", "cycle"}
<1>1. fq' \in Regs /\ cur' \in Regs /\ new_value' \in Int /\ mpc' \in {"flush", "cycle"}
  BY NumRegsAssumption DEF TypeOK, NextPoll, Regs
<1>2. first_poll' \in BOOLEAN
  BY Zenon DEF NextPoll
<1>3. QED
  BY <1>1, <1>2

LEMMA ProcessEndType ==
  ASSUME TypeOK, ProcessEnd
  PROVE  TypeOK'
<1>1. 1 \in Regs
  BY NumRegsAssumption DEF Regs
<1>2. active' \in BOOLEAN /\ first_poll' \in BOOLEAN
  BY Zenon DEF ProcessEnd
<1>3. value' \in [Regs -> Int] /\ device' \in [Regs -> Word]
  BY DEF TypeOK, ProcessEnd
<1>4. dirty' \in [Regs -> BOOLEAN] /\ did_read' \in [Regs -> BOOLEAN]
  BY DEF ProcessEnd
<1>5. asked' \in [Regs -> Int \cup {None}] /\ attempted' \in [Regs -> Word \cup {None}]
  BY DEF ProcessEnd
<1>6. cur' \in Regs /\ fq' \in Regs /\ new_value' \in Int /\ mpc' \in Locations
  BY <1>1 DEF ProcessEnd, Locations
<1>7. QED
  BY <1>2, <1>3, <1>4, <1>5, <1>6, Zenon DEF TypeOK

\* Every step keeps the types.
LEMMA NextTypeOK == TypeOK /\ [Next]_vars => TypeOK'
<1> SUFFICES ASSUME TypeOK, [Next]_vars PROVE TypeOK'
  OBVIOUS
<1> USE DEF handlerVars, loopVars, historyVars
<1>1. CASE StartLoop
  BY <1>1 DEF StartLoop, TypeOK, Locations
<1>2. CASE BeginCycle
  BY <1>2 DEF BeginCycle, Connect, TypeOK, Locations
<1>3. CASE ConnectFails
  BY <1>3, ProcessEndType DEF ConnectFails
<1>4. CASE FlushTake
  BY <1>4 DEF FlushTake, TypeOK, Locations
<1>5. CASE FlushClean
  BY <1>5, NextFlushType DEF FlushClean, TypeOK, Locations
<1>6. CASE FlushWrite
  <2>1. ToWord(fq, value[fq]) \in Word
    BY ToWordIsWord DEF TypeOK
  <2>2. StoredWord(RegType[fq], ToWord(fq, value[fq])) \in Word
    BY <2>1, StoredIsWord
  <2>3. device' \in [Regs -> Word]
    BY <1>6, <2>2 DEF FlushWrite, TypeOK
  <2>4. attempted' \in [Regs -> Word \cup {None}]
    BY <1>6, <2>1 DEF FlushWrite, TypeOK
  <2>5. fq' \in Regs /\ mpc' \in {"flush", "poll"}
    BY <1>6, NextFlushType DEF FlushWrite
  <2>6. QED
    BY <1>6, <2>3, <2>4, <2>5 DEF FlushWrite, TypeOK, Locations
<1>7. CASE PollSkip
  BY <1>7, NextPollType DEF PollSkip, TypeOK, Locations
<1>8. CASE PollRead
  <2>1. new_value' \in Int
    BY <1>8, FromWordInt DEF PollRead, TypeOK
  <2>2. QED
    BY <1>8, <2>1 DEF PollRead, TypeOK, Locations
<1>9. CASE PollFails
  BY <1>9, NextPollType DEF PollFails, TypeOK, Locations
<1>10. CASE PollCompare
  <2>1. value' \in [Regs -> Int]
    BY <1>10 DEF PollCompare, TypeOK
  <2>2. CASE value[cur] # new_value \/ first_poll
    BY <1>10, <2>1, <2>2 DEF PollCompare, TypeOK, Locations
  <2>3. CASE ~(value[cur] # new_value \/ first_poll)
    <3>1. NextPoll
      BY <1>10, <2>3 DEF PollCompare
    <3>2. QED
      BY <1>10, <2>1, <3>1, NextPollType DEF PollCompare, TypeOK, Locations
  <2>4. QED
    BY <2>2, <2>3
<1>11. CASE Callback
  BY <1>11, NextPollType DEF Callback, TypeOK, Locations
<1>12. ASSUME NEW i \in InitWrites, WriteHoldingRegister(i[1], i[2])
       PROVE  TypeOK'
  <2>1. i[1] \in Regs /\ i[2] \in Word
    BY EnvironmentAssumption
  <2>2. device' \in [Regs -> Word]
    BY <1>12, <2>1 DEF WriteHoldingRegister, TypeOK
  <2>3. QED
    BY <1>12, <2>2 DEF WriteHoldingRegister, Connect, TypeOK
<1>13. ASSUME NEW r \in Regs, NEW v \in Commands[r], SetRawValue(r, v)
       PROVE  TypeOK'
  <2>1. v \in Int
    BY EnvironmentAssumption
  <2>2. QED
    BY <1>13, <2>1 DEF SetRawValue, TypeOK
<1>14. ASSUME NEW r \in Regs, NEW w \in SlaveWords[r], SlaveChange(r, w)
       PROVE  TypeOK'
  <2>1. w \in Word
    BY EnvironmentAssumption
  <2>2. QED
    BY <1>14, <2>1 DEF SlaveChange, TypeOK
<1>15. CASE Stop
  BY <1>15, ProcessEndType DEF Stop
<1>16. CASE Start
  BY <1>16 DEF Start, TypeOK, Locations
<1>17. CASE UNCHANGED vars
  BY <1>17 DEF vars, TypeOK
<1>18. QED
  BY <1>1, <1>2, <1>3, <1>4, <1>5, <1>6, <1>7, <1>8, <1>9, <1>10, <1>11,
     <1>12, <1>13, <1>14, <1>15, <1>16, <1>17 DEF Next, ModbusThread

\* Every variable of the client keeps its type, whatever the registers, the
\* commands and the slaves are.
THEOREM TypeCorrect == Spec => []TypeOK
BY InitTypeOK, NextTypeOK, PTL DEF Spec

-----------------------------------------------------------------------------
(***************************************************************************)
(* No command is lost.                                                     *)
(*                                                                         *)
(* OwedValueKept says that the value waiting to be written is the latest   *)
(* one asked for, which is what makes the word sent by FlushWrite the      *)
(* right one although `value` is read after the lock was released;         *)
(* LatestCommandAttempted follows at that step and is kept by the others,  *)
(* because only SetRawValue and the end of the process change `asked`.     *)
(* Together with the types the two are inductive.                          *)
(***************************************************************************)

IInv == TypeOK /\ OwedValueKept /\ LatestCommandAttempted

\* Steps that leave the handlers, the history and the write in progress alone.
LEMMA QuietStep ==
  ASSUME IInv,
         UNCHANGED <<value, dirty, asked, attempted>>,
         mpc # "write", mpc' # "write"
  PROVE  OwedValueKept' /\ LatestCommandAttempted'
BY DEF IInv, OwedValueKept, LatestCommandAttempted, Owed

\* The end of the process leaves no command behind.
LEMMA EndStep ==
  ASSUME ProcessEnd
  PROVE  OwedValueKept' /\ LatestCommandAttempted'
<1> SUFFICES ASSUME NEW r \in Regs
             PROVE  ~Owed(r)' /\ asked'[r] = None
  BY DEF OwedValueKept, LatestCommandAttempted, Owed
<1>1. asked'[r] = None
  BY DEF ProcessEnd
<1>2. dirty'[r] = FALSE /\ mpc' = "stopped"
  BY DEF ProcessEnd
<1>3. QED
  BY <1>1, <1>2 DEF Owed

LEMMA InitIInv == Init => IInv
<1> SUFFICES ASSUME Init PROVE IInv
  OBVIOUS
<1>1. \A r \in Regs : ~Owed(r) /\ asked[r] = None
  BY DEF Init, ProcessStart, Owed
<1>2. QED
  BY <1>1, InitTypeOK DEF IInv, OwedValueKept, LatestCommandAttempted

LEMMA NextIInv == IInv /\ [Next]_vars => IInv'
<1> SUFFICES ASSUME IInv, [Next]_vars PROVE OwedValueKept' /\ LatestCommandAttempted'
  BY NextTypeOK DEF IInv
<1> USE DEF handlerVars, loopVars, historyVars
<1>1. CASE StartLoop
  BY <1>1, QuietStep DEF StartLoop
<1>2. CASE BeginCycle
  BY <1>2, QuietStep DEF BeginCycle
<1>3. CASE ConnectFails
  BY <1>3, EndStep DEF ConnectFails
<1>4. CASE FlushTake
  <2>1. \A r \in Regs : Owed(r)' <=> Owed(r)
    BY <1>4 DEF FlushTake, Owed, IInv, TypeOK
  <2>2. UNCHANGED <<value, asked, attempted>>
    BY <1>4 DEF FlushTake
  <2>3. QED
    BY <2>1, <2>2 DEF IInv, OwedValueKept, LatestCommandAttempted
<1>5. CASE FlushClean
  <2>1. mpc' # "write"
    BY <1>5 DEF FlushClean, NextFlush
  <2>2. QED
    BY <1>5, <2>1, QuietStep DEF FlushClean
<1>6. CASE FlushWrite
  <2>1. UNCHANGED <<value, dirty, asked>> /\ mpc' # "write"
    BY <1>6 DEF FlushWrite, NextFlush
  <2>2. \A r \in Regs : Owed(r)' => Owed(r)
    BY <2>1 DEF Owed
  <2>3. OwedValueKept'
    BY <2>1, <2>2 DEF IInv, OwedValueKept
  <2>4. value[fq] = asked[fq]
    BY <1>6 DEF FlushWrite, IInv, TypeOK, OwedValueKept, Owed
  <2>5. attempted' = [attempted EXCEPT ![fq] = ToWord(fq, asked[fq])]
    BY <1>6, <2>4 DEF FlushWrite
  <2>6. ASSUME NEW r \in Regs, asked'[r] # None, ~Owed(r)'
        PROVE  attempted'[r] = ToWord(r, asked'[r])
    <3>1. CASE r = fq
      BY <2>1, <2>5, <3>1 DEF IInv, TypeOK
    <3>2. CASE r # fq
      <4>1. ~Owed(r)
        BY <1>6, <2>1, <2>6, <3>2 DEF FlushWrite, Owed
      <4>2. QED
        BY <2>1, <2>5, <2>6, <3>2, <4>1 DEF IInv, TypeOK, LatestCommandAttempted
    <3>3. QED
      BY <3>1, <3>2
  <2>7. QED
    BY <2>3, <2>6 DEF LatestCommandAttempted
<1>7. CASE PollSkip
  BY <1>7, QuietStep DEF PollSkip, NextPoll
<1>8. CASE PollRead
  BY <1>8, QuietStep DEF PollRead
<1>9. CASE PollFails
  BY <1>9, QuietStep DEF PollFails, NextPoll
<1>10. CASE PollCompare
  <2>1. UNCHANGED <<dirty, asked, attempted>> /\ mpc = "compare" /\ mpc' # "write"
    BY <1>10 DEF PollCompare, NextPoll
  <2>2. \A r \in Regs : Owed(r)' <=> Owed(r)
    BY <2>1 DEF Owed
  <2>3. \A r \in Regs : Owed(r) => value'[r] = value[r]
    BY <1>10, <2>1 DEF PollCompare, Owed, IInv, TypeOK
  <2>4. QED
    BY <2>1, <2>2, <2>3 DEF IInv, OwedValueKept, LatestCommandAttempted
<1>11. CASE Callback
  BY <1>11, QuietStep DEF Callback, NextPoll
<1>12. ASSUME NEW i \in InitWrites, WriteHoldingRegister(i[1], i[2])
       PROVE  OwedValueKept' /\ LatestCommandAttempted'
  BY <1>12, QuietStep DEF WriteHoldingRegister
<1>13. ASSUME NEW q \in Regs, NEW v \in Commands[q], SetRawValue(q, v)
       PROVE  OwedValueKept' /\ LatestCommandAttempted'
  <2>1. value' = [value EXCEPT ![q] = v] /\ asked' = [asked EXCEPT ![q] = v]
    BY <1>13 DEF SetRawValue
  <2>2. UNCHANGED <<mpc, fq, attempted>> /\ dirty' = [dirty EXCEPT ![q] = TRUE]
    BY <1>13 DEF SetRawValue
  <2>3. \A r \in Regs : r # q => (Owed(r)' <=> Owed(r))
    BY <2>2 DEF Owed, IInv, TypeOK
  <2>4. Owed(q)' /\ value'[q] = asked'[q]
    BY <2>1, <2>2 DEF Owed, IInv, TypeOK
  <2>5. \A r \in Regs : r # q => value'[r] = value[r] /\ asked'[r] = asked[r]
    BY <2>1 DEF IInv, TypeOK
  <2>6. QED
    BY <2>2, <2>3, <2>4, <2>5 DEF IInv, OwedValueKept, LatestCommandAttempted
<1>14. ASSUME NEW r \in Regs, NEW w \in SlaveWords[r], SlaveChange(r, w)
       PROVE  OwedValueKept' /\ LatestCommandAttempted'
  BY <1>14 DEF SlaveChange, IInv, OwedValueKept, LatestCommandAttempted, Owed
<1>15. CASE Stop
  BY <1>15, EndStep DEF Stop
<1>16. CASE Start
  BY <1>16, QuietStep DEF Start
<1>17. CASE UNCHANGED vars
  BY <1>17 DEF vars, IInv, OwedValueKept, LatestCommandAttempted, Owed
<1>18. QED
  BY <1>1, <1>2, <1>3, <1>4, <1>5, <1>6, <1>7, <1>8, <1>9, <1>10, <1>11,
     <1>12, <1>13, <1>14, <1>15, <1>16, <1>17 DEF Next, ModbusThread

LEMMA Invariance == Spec => []IInv
BY InitIInv, NextIInv, PTL DEF Spec

\* A poll never overwrites a command that waits for its write, for any number of
\* registers and any interleaving of the two threads.
THEOREM CommandsAreKept == Spec => []OwedValueKept
<1>1. IInv => OwedValueKept
  BY DEF IInv
<1>2. QED
  BY Invariance, <1>1, PTL

\* Once nothing is owed for a register, the last request sent for it carried the
\* latest value asked for.
THEOREM CommandsAreSent == Spec => []LatestCommandAttempted
<1>1. IInv => LatestCommandAttempted
  BY DEF IInv
<1>2. QED
  BY Invariance, <1>1, PTL

-----------------------------------------------------------------------------
(***************************************************************************)
(* The client implements CommandDelivery.  Only four kinds of steps show   *)
(* in it: SetRawValue is its Command, FlushWrite its Attempt, both ends of *)
(* the process its Forget, and every other step, FlushTake included, its   *)
(* stuttering: from FlushTake to FlushWrite the command stays owed.        *)
(***************************************************************************)

LEMMA DeliveryInit == Init => Delivery!Init
<1> SUFFICES ASSUME Init PROVE Delivery!Init
  OBVIOUS
<1>1. [r \in Regs |-> Owed(r)] = [r \in Regs |-> FALSE]
  <2>1. \A r \in Regs : Owed(r) = FALSE
    BY DEF Init, ProcessStart, Owed
  <2>2. QED
    BY <2>1
<1>2. asked = [r \in Regs |-> None] /\ attempted = [r \in Regs |-> None]
  BY DEF Init, ProcessStart
<1>3. QED
  BY <1>1, <1>2 DEF Delivery!Init

\* A step that changes neither the commands nor what is owed of them.
LEMMA DeliveryStutter ==
  ASSUME UNCHANGED <<asked, attempted>>,
         \A r \in Regs : Owed(r)' = Owed(r)
  PROVE  UNCHANGED Delivery!vars
BY DEF Delivery!vars

LEMMA DeliveryQuiet ==
  ASSUME UNCHANGED <<dirty, asked, attempted>>, mpc # "write", mpc' # "write"
  PROVE  UNCHANGED Delivery!vars
<1>1. \A r \in Regs : Owed(r)' = Owed(r)
  BY DEF Owed
<1>2. QED
  BY <1>1, DeliveryStutter

LEMMA DeliveryForget ==
  ASSUME ProcessEnd
  PROVE  Delivery!Forget
<1>1. \A r \in Regs : Owed(r)' = FALSE
  BY DEF ProcessEnd, Owed
<1>2. [r \in Regs |-> Owed(r)]' = [r \in Regs |-> FALSE]
  BY <1>1
<1>3. QED
  BY <1>2 DEF Delivery!Forget, ProcessEnd

LEMMA DeliveryNext ==
  IInv /\ [Next]_vars => [Delivery!Next]_(Delivery!vars)
<1> SUFFICES ASSUME IInv, [Next]_vars
             PROVE  Delivery!Next \/ UNCHANGED Delivery!vars
  OBVIOUS
<1> USE DEF handlerVars, loopVars, historyVars
<1>1. CASE StartLoop
  BY <1>1, DeliveryQuiet DEF StartLoop
<1>2. CASE BeginCycle
  BY <1>2, DeliveryQuiet DEF BeginCycle
<1>3. CASE ConnectFails \/ Stop
  BY <1>3, DeliveryForget DEF ConnectFails, Stop, Delivery!Next
<1>4. CASE FlushTake
  <2>1. \A r \in Regs : Owed(r)' = Owed(r)
    BY <1>4 DEF FlushTake, Owed, IInv, TypeOK
  <2>2. QED
    BY <1>4, <2>1, DeliveryStutter DEF FlushTake
<1>5. CASE FlushClean
  BY <1>5, DeliveryQuiet DEF FlushClean, NextFlush
<1>6. CASE FlushWrite
  <2>1. fq \in Regs /\ Owed(fq) /\ value[fq] = asked[fq]
    BY <1>6 DEF FlushWrite, IInv, TypeOK, OwedValueKept, Owed
  <2>2. attempted' = [attempted EXCEPT ![fq] = ToWord(fq, asked[fq])] /\ UNCHANGED asked
    BY <1>6, <2>1 DEF FlushWrite
  <2>3. \A r \in Regs : Owed(r)' = IF r = fq THEN dirty[fq] ELSE Owed(r)
    BY <1>6 DEF FlushWrite, NextFlush, Owed, IInv, TypeOK
  <2>4. [r \in Regs |-> Owed(r)]'
          = [[r \in Regs |-> Owed(r)] EXCEPT ![fq] = dirty[fq]]
    BY <2>3
  <2>5. [r \in Regs |-> Owed(r)][fq] /\ dirty[fq] \in BOOLEAN
    BY <2>1 DEF IInv, TypeOK
  <2>6. Delivery!Attempt(fq)
    BY <2>2, <2>4, <2>5 DEF Delivery!Attempt
  <2>7. QED
    BY <2>1, <2>6 DEF Delivery!Next
<1>7. CASE PollSkip
  BY <1>7, DeliveryQuiet DEF PollSkip, NextPoll
<1>8. CASE PollRead
  BY <1>8, DeliveryQuiet DEF PollRead
<1>9. CASE PollFails
  BY <1>9, DeliveryQuiet DEF PollFails, NextPoll
<1>10. CASE PollCompare
  BY <1>10, DeliveryQuiet DEF PollCompare, NextPoll
<1>11. CASE Callback
  BY <1>11, DeliveryQuiet DEF Callback, NextPoll
<1>12. ASSUME NEW i \in InitWrites, WriteHoldingRegister(i[1], i[2])
       PROVE  UNCHANGED Delivery!vars
  BY <1>12, DeliveryQuiet DEF WriteHoldingRegister
<1>13. ASSUME NEW q \in Regs, NEW v \in Commands[q], SetRawValue(q, v)
       PROVE  Delivery!Next
  <2>1. \A r \in Regs : Owed(r)' = IF r = q THEN TRUE ELSE Owed(r)
    BY <1>13 DEF SetRawValue, Owed, IInv, TypeOK
  <2>2. [r \in Regs |-> Owed(r)]' = [[r \in Regs |-> Owed(r)] EXCEPT ![q] = TRUE]
    BY <2>1
  <2>3. Delivery!Command(q, v)
    BY <1>13, <2>2 DEF SetRawValue, Delivery!Command
  <2>4. QED
    BY <2>3 DEF Delivery!Next
<1>14. ASSUME NEW r \in Regs, NEW w \in SlaveWords[r], SlaveChange(r, w)
       PROVE  UNCHANGED Delivery!vars
  <2>1. \A q \in Regs : Owed(q)' = Owed(q)
    BY <1>14 DEF SlaveChange, Owed
  <2>2. QED
    BY <1>14, <2>1, DeliveryStutter DEF SlaveChange
<1>15. CASE Start
  BY <1>15, DeliveryQuiet DEF Start
<1>16. CASE UNCHANGED vars
  <2>1. \A q \in Regs : Owed(q)' = Owed(q)
    BY <1>16 DEF vars, Owed
  <2>2. QED
    BY <1>16, <2>1, DeliveryStutter DEF vars
<1>17. QED
  BY <1>1, <1>2, <1>3, <1>4, <1>5, <1>6, <1>7, <1>8, <1>9, <1>10, <1>11,
     <1>12, <1>13, <1>14, <1>15, <1>16 DEF Next, ModbusThread

\* The client implements the safety part of CommandDelivery: every request that
\* goes out for a register carries the latest command for it, which was owed.
THEOREM ClientDelivers == Spec => DeliverySafe
<1>1. Spec => Delivery!Init
  BY DeliveryInit DEF Spec
<1>2. QED
  BY <1>1, Invariance, DeliveryNext, PTL DEF Spec, DeliverySafe, Delivery!SafeSpec
-----------------------------------------------------------------------------
(***************************************************************************)
(* The port.                                                               *)
(***************************************************************************)

\* The registers a message is about are registers of the port.
SetsRegisters ==
  hpc = "set" =>
    /\ hch \in Channels
    /\ hi \in Nat \ {0}
    /\ hi <= Len(Registers[hch])
    /\ Len(hmsg) = Len(Registers[hch])

LEMMA SetInit == PortInit => SetsRegisters
BY DEF PortInit, SetsRegisters

LEMMA SetStep == SetsRegisters /\ [PortNext]_pvars => SetsRegisters'
<1> SUFFICES ASSUME SetsRegisters, [PortNext]_pvars PROVE SetsRegisters'
  OBVIOUS
<1>1. ASSUME NEW c \in Channels, NEW m \in Messages[c], ReceiveMessage(c, m)
      PROVE  SetsRegisters'
  <2>1. Registers[c] \in Seq(Regs) /\ Registers[c] # <<>>
    BY ChannelAssumption
  <2>2. 1 <= Len(Registers[c])
    BY <2>1
  <2>3. QED
    BY <1>1, <2>2 DEF ReceiveMessage, SetsRegisters
<1>2. CASE SetRegister
  BY <1>2 DEF SetRegister, SetsRegisters
<1>3. CASE Echo
  BY <1>3 DEF Echo, SetsRegisters
<1>4. CASE PortStop \/ PortConnectFails
  BY <1>4 DEF PortStop, PortConnectFails, PortEnd, SetsRegisters
<1>5. ASSUME UNCHANGED messageVars
      PROVE  SetsRegisters'
  BY <1>5 DEF messageVars, SetsRegisters
<1>6. CASE PortModbusThread
  BY <1>4, <1>5, <1>6
     DEF PortModbusThread, SetupWrite, SetupFails, SetupDone, ComposeItem,
         Incomplete, PublishValue, ClientStep, portVars
<1>7. CASE PubSubSetup \/ Reconnect \/ LoseLink \/ PortStart
  BY <1>5, <1>7 DEF PubSubSetup, Reconnect, LoseLink, PortStart
<1>8. ASSUME NEW r \in Regs, NEW w \in SlaveWords[r], PortSlaveChange(r, w)
      PROVE  SetsRegisters'
  BY <1>5, <1>8 DEF PortSlaveChange, portVars
<1>9. CASE UNCHANGED pvars
  BY <1>5, <1>9 DEF pvars, portVars
<1>10. QED
  BY <1>1, <1>2, <1>3, <1>4, <1>6, <1>7, <1>8, <1>9 DEF PortNext, MosquittoThread

LEMMA SetsInvariant == PortSpec => []SetsRegisters
BY SetInit, SetStep, PTL DEF PortSpec

\* Every step of the port is a step of its client or leaves the client alone.
LEMMA PortStep == SetsRegisters /\ [PortNext]_pvars => [Next]_vars
<1> SUFFICES ASSUME SetsRegisters, [PortNext]_pvars PROVE Next \/ UNCHANGED vars
  OBVIOUS
<1>1. ASSUME NEW r, NEW w, WriteHoldingRegister(r, w)
      PROVE  Next
  <2>1. <<r, w>> \in InitWrites
    BY <1>1 DEF WriteHoldingRegister
  <2>2. WriteHoldingRegister(<<r, w>>[1], <<r, w>>[2])
    BY <1>1
  <2>3. QED
    BY <2>1, <2>2 DEF Next
<1>2. CASE SetupWrite
  BY <1>1, <1>2 DEF SetupWrite
<1>3. CASE SetupFails
  BY <1>1, <1>3 DEF SetupFails
<1>4. CASE SetupDone
  BY <1>4 DEF SetupDone, Next, ModbusThread
<1>5. CASE ComposeItem
  BY <1>5 DEF ComposeItem
<1>6. CASE Incomplete \/ PublishValue
  BY <1>6 DEF Incomplete, PublishValue, Next, ModbusThread
<1>7. CASE ClientStep
  BY <1>7 DEF ClientStep, Next, ModbusThread
<1>8. CASE PortConnectFails
  BY <1>8 DEF PortConnectFails, Next, ModbusThread
<1>9. CASE SetRegister
  <2>1. /\ hch \in Channels /\ hi \in 1..Len(Registers[hch])
        /\ SetRawValue(Registers[hch][hi], hmsg[hi])
    BY <1>9 DEF SetRegister, SetsRegisters
  <2>2. Registers[hch] \in Seq(Regs)
    BY <2>1, ChannelAssumption
  <2>3. Registers[hch][hi] \in Regs
    BY <2>1, <2>2
  <2>4. hmsg[hi] \in Commands[Registers[hch][hi]]
    BY <2>1 DEF SetRawValue
  <2>5. QED
    BY <2>1, <2>3, <2>4 DEF Next
<1>10. CASE Echo \/ PubSubSetup \/ Reconnect \/ LoseLink
  BY <1>10 DEF Echo, PubSubSetup, Reconnect, LoseLink
<1>11. ASSUME NEW c \in Channels, NEW m \in Messages[c], ReceiveMessage(c, m)
       PROVE  UNCHANGED vars
  BY <1>11 DEF ReceiveMessage
<1>12. ASSUME NEW r \in Regs, NEW w \in SlaveWords[r], PortSlaveChange(r, w)
       PROVE  Next
  BY <1>12 DEF PortSlaveChange, Next
<1>13. CASE PortStop \/ PortStart
  BY <1>13 DEF PortStop, PortStart, Next
<1>14. CASE UNCHANGED pvars
  BY <1>14 DEF pvars
<1>15. QED
  BY <1>2, <1>3, <1>4, <1>5, <1>6, <1>7, <1>8, <1>9, <1>10, <1>11, <1>12,
     <1>13, <1>14 DEF PortNext, PortModbusThread, MosquittoThread

\* Its actions are the client's with something around them, so that what is proved
\* of the client can be cited for the port.
LEMMA PortUsesClient == PortSpec => Spec
<1>1. PortInit => Init
  BY DEF PortInit
<1>2. QED
  BY <1>1, SetsInvariant, PortStep, PTL DEF PortSpec, Spec

\* So no command that came over MQTT is lost on its way to the bus, whatever the
\* two threads and the broker do.
COROLLARY PortLosesNoCommand ==
  PortSpec => [](OwedValueKept /\ LatestCommandAttempted)
BY PortUsesClient, CommandsAreKept, CommandsAreSent, PTL

-----------------------------------------------------------------------------
(***************************************************************************)
(* No placeholder is published.                                            *)
(*                                                                         *)
(* The 0 of a new handler is told from a value by two facts: a value that  *)
(* waits to be written is a command, and a register that was read has a    *)
(* value, except between the read and the comparison, when the Modbus      *)
(* thread composes no payload.                                             *)
(***************************************************************************)

\* What a handler may hold that is no placeholder.
ValuesOf(r) == Commands[r] \cup {FromWord(r, w) : w \in PossibleWords(r)}

WordsPossible == \A r \in Regs : device[r] \in PossibleWords(r)
OwedIsCommand == \A r \in Regs : Owed(r) => value[r] \in Commands[r]
ReadIsValue ==
  \A r \in Regs : did_read[r] /\ ~(mpc = "compare" /\ cur = r) => value[r] \in ValuesOf(r)
NewIsValue == mpc = "compare" => new_value \in ValuesOf(cur)

HandlersInv == WordsPossible /\ OwedIsCommand /\ ReadIsValue /\ NewIsValue

\* Where the words and the values come from.
LEMMA Sources ==
  ASSUME NEW r \in Regs
  PROVE  /\ \A w \in SlaveWords[r] : w \in PossibleWords(r)
         /\ \A v \in Commands[r] : StoredWord(RegType[r], ToWord(r, v)) \in PossibleWords(r)
         /\ \A j \in InitWrites : j[1] = r => j[2] \in PossibleWords(r)
         /\ \A v \in Commands[r] : v \in ValuesOf(r)
         /\ \A w \in PossibleWords(r) : FromWord(r, w) \in ValuesOf(r)
<1>1. \A w \in SlaveWords[r] : w \in PossibleWords(r)
  BY DEF PossibleWords
<1>2. \A v \in Commands[r] : StoredWord(RegType[r], ToWord(r, v)) \in PossibleWords(r)
  BY DEF PossibleWords
<1>3. \A j \in InitWrites : j[1] = r => j[2] \in PossibleWords(r)
  BY DEF PossibleWords
<1>4. QED
  BY <1>1, <1>2, <1>3 DEF ValuesOf

LEMMA HandlersInit == Init => HandlersInv
<1> SUFFICES ASSUME Init PROVE HandlersInv
  OBVIOUS
<1>1. WordsPossible
  BY Sources DEF Init, WordsPossible
<1>2. \A r \in Regs : ~did_read[r] /\ ~dirty[r]
  BY DEF Init, ProcessStart
<1>3. QED
  BY <1>1, <1>2 DEF Init, HandlersInv, OwedIsCommand, ReadIsValue, NewIsValue, Owed

\* Steps that leave handlers and slaves alone.
LEMMA HandlersRest ==
  ASSUME HandlersInv, UNCHANGED <<value, dirty, did_read, device>>,
         mpc # "compare", mpc' \notin {"write", "compare"}
  PROVE  HandlersInv'
BY DEF HandlersInv, WordsPossible, OwedIsCommand, ReadIsValue, NewIsValue, Owed

LEMMA HandlersEnd ==
  ASSUME HandlersInv, ProcessEnd
  PROVE  HandlersInv'
<1>1. \A r \in Regs : did_read'[r] = FALSE /\ dirty'[r] = FALSE
  BY DEF ProcessEnd
<1>2. mpc' = "stopped" /\ device' = device
  BY DEF ProcessEnd
<1>3. QED
  BY <1>1, <1>2
     DEF HandlersInv, WordsPossible, OwedIsCommand, ReadIsValue, NewIsValue, Owed

LEMMA HandlersStep == TypeOK /\ HandlersInv /\ [Next]_vars => HandlersInv'
<1> SUFFICES ASSUME TypeOK, HandlersInv, [Next]_vars PROVE HandlersInv'
  OBVIOUS
<1> USE DEF handlerVars, loopVars, historyVars
<1>1. CASE StartLoop \/ BeginCycle \/ Start
  BY <1>1, HandlersRest DEF StartLoop, BeginCycle, Start
<1>2. CASE ConnectFails \/ Stop
  BY <1>2, HandlersEnd DEF ConnectFails, Stop
<1>3. CASE FlushTake
  <2>1. UNCHANGED <<value, did_read, device>> /\ mpc = "flush" /\ mpc' = "write"
    BY <1>3 DEF FlushTake
  <2>2. \A r \in Regs : Owed(r)' => Owed(r)
    BY <1>3 DEF FlushTake, Owed, TypeOK
  <2>3. QED
    BY <2>1, <2>2 DEF HandlersInv, WordsPossible, OwedIsCommand, ReadIsValue, NewIsValue
<1>4. CASE FlushClean
  BY <1>4, HandlersRest DEF FlushClean, NextFlush
<1>5. CASE FlushWrite
  <2>1. UNCHANGED <<value, dirty, did_read>> /\ mpc = "write" /\ mpc' \in {"flush", "poll"}
    BY <1>5 DEF FlushWrite, NextFlush
  <2>2. value[fq] \in Commands[fq] /\ fq \in Regs
    BY <2>1 DEF HandlersInv, OwedIsCommand, Owed, TypeOK
  <2>3. StoredWord(RegType[fq], ToWord(fq, value[fq])) \in PossibleWords(fq)
    BY <2>2, Sources
  <2>4. WordsPossible'
    BY <1>5, <2>2, <2>3 DEF FlushWrite, HandlersInv, WordsPossible, TypeOK
  <2>5. OwedIsCommand' /\ ReadIsValue' /\ NewIsValue'
    BY <2>1 DEF HandlersInv, OwedIsCommand, ReadIsValue, NewIsValue, Owed
  <2>6. QED
    BY <2>4, <2>5 DEF HandlersInv
<1>6. CASE PollSkip \/ PollFails \/ Callback
  BY <1>6, HandlersRest DEF PollSkip, PollFails, Callback, NextPoll
<1>7. CASE PollRead
  <2>1. /\ UNCHANGED <<value, dirty, cur, device>>
        /\ mpc = "poll" /\ mpc' = "compare" /\ new_value' = FromWord(cur, device[cur])
    BY <1>7 DEF PollRead
  <2>2. cur \in Regs
    BY DEF TypeOK
  <2>3. NewIsValue'
    BY <2>1, <2>2, Sources DEF HandlersInv, WordsPossible, NewIsValue
  <2>4. \A r \in Regs : r # cur => did_read'[r] = did_read[r]
    BY <1>7 DEF PollRead, TypeOK
  <2>5. ReadIsValue'
    BY <2>1, <2>4 DEF HandlersInv, ReadIsValue
  <2>6. WordsPossible' /\ OwedIsCommand'
    BY <2>1 DEF HandlersInv, WordsPossible, OwedIsCommand, Owed
  <2>7. QED
    BY <2>3, <2>5, <2>6 DEF HandlersInv
<1>8. CASE PollCompare
  <2>1. /\ UNCHANGED <<dirty, did_read, device>> /\ mpc = "compare"
        /\ mpc' \in {"callback", "flush", "cycle"}
        /\ value' = IF dirty[cur] THEN value ELSE [value EXCEPT ![cur] = new_value]
    BY <1>8 DEF PollCompare, NextPoll
  <2>2. cur \in Regs /\ value \in [Regs -> Int]
    BY DEF TypeOK
  <2>3. \A r \in Regs : dirty[r] => value'[r] = value[r]
    BY <2>1, <2>2
  <2>4. \A r \in Regs : r # cur => value'[r] = value[r]
    BY <2>1, <2>2
  <2>5. value'[cur] \in ValuesOf(cur)
    <3>1. CASE dirty[cur]
      BY <2>2, <2>3, <3>1, Sources DEF HandlersInv, OwedIsCommand, Owed
    <3>2. CASE ~dirty[cur]
      BY <2>1, <2>2, <3>2 DEF HandlersInv, NewIsValue
    <3>3. QED
      BY <3>1, <3>2
  <2>6. OwedIsCommand'
    BY <2>1, <2>3 DEF HandlersInv, OwedIsCommand, Owed
  <2>7. ReadIsValue'
    BY <2>1, <2>4, <2>5 DEF HandlersInv, ReadIsValue
  <2>8. WordsPossible' /\ NewIsValue'
    BY <2>1 DEF HandlersInv, WordsPossible, NewIsValue
  <2>9. QED
    BY <2>6, <2>7, <2>8 DEF HandlersInv
<1>9. ASSUME NEW j \in InitWrites, WriteHoldingRegister(j[1], j[2])
      PROVE  HandlersInv'
  <2>1. j[1] \in Regs
    BY EnvironmentAssumption
  <2>2. j[2] \in PossibleWords(j[1])
    BY <2>1, Sources
  <2>3. UNCHANGED <<value, dirty, did_read, mpc, cur, new_value, fq>>
    BY <1>9 DEF WriteHoldingRegister
  <2>4. WordsPossible'
    BY <1>9, <2>1, <2>2 DEF WriteHoldingRegister, HandlersInv, WordsPossible, TypeOK
  <2>5. QED
    BY <2>3, <2>4 DEF HandlersInv, OwedIsCommand, ReadIsValue, NewIsValue, Owed
<1>10. ASSUME NEW r \in Regs, NEW v \in Commands[r], SetRawValue(r, v)
       PROVE  HandlersInv'
  <2>1. UNCHANGED <<did_read, device, mpc, cur, new_value, fq>>
    BY <1>10 DEF SetRawValue
  <2>2. value'[r] = v /\ \A q \in Regs : q # r => value'[q] = value[q]
    BY <1>10 DEF SetRawValue, TypeOK
  <2>3. \A q \in Regs : q # r => dirty'[q] = dirty[q]
    BY <1>10 DEF SetRawValue, TypeOK
  <2>4. v \in ValuesOf(r)
    BY Sources
  <2>5. OwedIsCommand'
    BY <2>1, <2>2, <2>3 DEF HandlersInv, OwedIsCommand, Owed
  <2>6. ReadIsValue'
    BY <2>1, <2>2, <2>4 DEF HandlersInv, ReadIsValue
  <2>7. WordsPossible' /\ NewIsValue'
    BY <2>1 DEF HandlersInv, WordsPossible, NewIsValue
  <2>8. QED
    BY <2>5, <2>6, <2>7 DEF HandlersInv
<1>11. ASSUME NEW r \in Regs, NEW w \in SlaveWords[r], SlaveChange(r, w)
       PROVE  HandlersInv'
  <2>1. UNCHANGED <<value, dirty, did_read, mpc, cur, new_value, fq>>
    BY <1>11 DEF SlaveChange
  <2>2. WordsPossible'
    BY <1>11, Sources DEF SlaveChange, HandlersInv, WordsPossible, TypeOK
  <2>3. QED
    BY <2>1, <2>2 DEF HandlersInv, OwedIsCommand, ReadIsValue, NewIsValue, Owed
<1>12. CASE UNCHANGED vars
  BY <1>12
     DEF vars, HandlersInv, WordsPossible, OwedIsCommand, ReadIsValue, NewIsValue, Owed
<1>13. QED
  BY <1>1, <1>2, <1>3, <1>4, <1>5, <1>6, <1>7, <1>8, <1>9, <1>10, <1>11, <1>12
     DEF Next, ModbusThread

LEMMA HandlersInvariant == Spec => [](TypeOK /\ HandlersInv)
BY InitTypeOK, NextTypeOK, HandlersInit, HandlersStep, PTL DEF Spec

\* The payload being composed, the message being handled and what the broker
\* retains consist of such values, item by item.
ItemsOf(c, items) ==
  /\ Len(items) <= Len(Registers[c])
  /\ \A i \in 1..Len(items) : items[i] \in ValuesOf(Registers[c][i])

PayloadIsValue ==
  /\ payload \in Seq(Int)
  /\ mpc # "callback" => payload = <<>>
  /\ OnValue[Changed] < 0 => ItemsOf(Changed, payload)
MessageIsValue ==
  hpc # "idle" =>
    /\ hch \in Channels
    /\ Len(hmsg) = Len(Registers[hch]) /\ ItemsOf(hch, hmsg)
RetainedIsValue ==
  /\ DOMAIN retained = Channels
  /\ \A c \in Channels :
       OnValue[c] < 0 /\ retained[c] # None =>
         Len(retained[c]) = Len(Registers[c]) /\ ItemsOf(c, retained[c])

ValuesInv == PayloadIsValue /\ MessageIsValue /\ RetainedIsValue

LEMMA ValuesInit == PortInit => ValuesInv
BY DEF PortInit, ValuesInv, PayloadIsValue, MessageIsValue, RetainedIsValue, ItemsOf

\* Publishing a whole payload that consists of values retains values.
LEMMA PublishedIsValue ==
  ASSUME RetainedIsValue, NEW c \in Channels, NEW items, Publish(c, items),
         Len(items) = Len(Registers[c]), OnValue[c] < 0 => ItemsOf(c, items)
  PROVE  RetainedIsValue'
<1>1. CASE link = "down"
  BY <1>1 DEF Publish, RetainedIsValue, ItemsOf, ValuesOf, PossibleWords
<1>2. CASE link # "down"
  <2>1. retained' = [retained EXCEPT ![c] = items]
    BY <1>2 DEF Publish
  <2>2. DOMAIN retained' = Channels /\ retained'[c] = items
    BY <2>1 DEF RetainedIsValue
  <2>3. \A d \in Channels : d # c => retained'[d] = retained[d]
    BY <2>1 DEF RetainedIsValue
  <2>4. QED
    BY <2>2, <2>3 DEF RetainedIsValue
<1>3. QED
  BY <1>1, <1>2

LEMMA ChannelOfCur ==
  ASSUME TypeOK
  PROVE  Changed \in Channels /\ Registers[Changed] \in Seq(Regs)
BY ChannelAssumption DEF Changed, ChannelOf, TypeOK

\* Steps of the Modbus thread and of the world that neither compose nor publish.
LEMMA ValuesRest ==
  ASSUME ValuesInv, UNCHANGED <<payload, messageVars, retained>>,
         mpc = "callback" => UNCHANGED <<mpc, cur>>
  PROVE  ValuesInv'
<1>1. MessageIsValue' /\ RetainedIsValue'
  BY DEF ValuesInv, MessageIsValue, RetainedIsValue, messageVars
<1>2. PayloadIsValue'
  <2>1. CASE mpc = "callback"
    BY <2>1 DEF ValuesInv, PayloadIsValue, Changed
  <2>2. CASE mpc # "callback"
    <3>1. payload' = <<>>
      BY <2>2 DEF ValuesInv, PayloadIsValue
    <3>2. QED
      BY <3>1 DEF PayloadIsValue, ItemsOf
  <2>3. QED
    BY <2>1, <2>2
<1>3. QED
  BY <1>1, <1>2 DEF ValuesInv

LEMMA ValuesStep ==
  TypeOK /\ HandlersInv /\ SetsRegisters /\ ValuesInv /\ [PortNext]_pvars => ValuesInv'
<1> SUFFICES ASSUME TypeOK, HandlersInv, SetsRegisters, ValuesInv, [PortNext]_pvars
             PROVE  ValuesInv'
  OBVIOUS
<1> USE DEF portVars
<1>1. CASE SetupWrite \/ SetupFails \/ SetupDone \/ ClientStep
  BY <1>1, ValuesRest
     DEF SetupWrite, SetupFails, SetupDone, StartLoop, WriteHoldingRegister, ClientStep,
         BeginCycle, FlushTake, FlushClean, FlushWrite, PollSkip, PollRead, PollFails,
         PollCompare, vars, loopVars
<1>2. CASE ComposeItem
  <2> DEFINE c == Changed
  <2>1. /\ mpc = "callback" /\ Len(payload) < Len(Registers[c])
        /\ payload' = Append(payload, ItemOf(c, NextItem))
        /\ UNCHANGED <<vars, messageVars, retained>>
    BY <1>2 DEF ComposeItem
  <2>2. Registers[c] \in Seq(Regs) /\ payload \in Seq(Int) /\ c \in Channels
    BY ChannelOfCur DEF ValuesInv, PayloadIsValue
  <2>3. NextItem \in Regs
    BY <2>1, <2>2 DEF NextItem
  <2>4. ItemOf(c, NextItem) \in Int
    BY <2>3, <2>2, OnValueAssumption DEF ItemOf, TypeOK
  <2>5. OnValue[c] < 0 => ItemOf(c, NextItem) \in ValuesOf(NextItem)
    BY <1>2, <2>1, <2>2, <2>3, OnValueAssumption
       DEF ComposeItem, HandlersInv, ReadIsValue, ItemOf
  <2>6. payload' \in Seq(Int) /\ Len(payload') = Len(payload) + 1
    BY <2>1, <2>2, <2>4
  <2>7. \A i \in 1..Len(payload) : payload'[i] = payload[i]
    BY <2>1, <2>2, <2>4
  <2>8. payload'[Len(payload) + 1] = ItemOf(c, NextItem)
    BY <2>1, <2>2, <2>4
  <2>9. OnValue[c] < 0 => ItemsOf(c, payload')
    BY <2>1, <2>2, <2>5, <2>6, <2>7, <2>8 DEF ValuesInv, PayloadIsValue, ItemsOf, NextItem
  <2>10. PayloadIsValue'
    BY <2>1, <2>6, <2>9 DEF PayloadIsValue, Changed, vars, loopVars
  <2>11. QED
    BY <2>1, <2>10 DEF ValuesInv, MessageIsValue, RetainedIsValue, messageVars
<1>3. CASE Incomplete
  <2>1. payload' = <<>> /\ UNCHANGED <<messageVars, retained>>
    BY <1>3 DEF Incomplete
  <2>2. QED
    BY <2>1 DEF ValuesInv, PayloadIsValue, ItemsOf, MessageIsValue, RetainedIsValue, messageVars
<1>4. CASE PublishValue
  <2>1. /\ Len(payload) = Len(Registers[Changed]) /\ Publish(Changed, payload)
        /\ payload' = <<>> /\ UNCHANGED messageVars
    BY <1>4 DEF PublishValue
  <2>2. OnValue[Changed] < 0 => ItemsOf(Changed, payload)
    BY DEF ValuesInv, PayloadIsValue
  <2>3. RetainedIsValue'
    BY <2>1, <2>2, ChannelOfCur, PublishedIsValue DEF ValuesInv
  <2>4. QED
    BY <2>1, <2>3 DEF ValuesInv, PayloadIsValue, ItemsOf, MessageIsValue, messageVars
<1>5. CASE PortConnectFails \/ PortStop
  <2>1. payload' = <<>> /\ hpc' = "idle" /\ retained' = retained
    BY <1>5 DEF PortConnectFails, PortStop, PortEnd
  <2>2. QED
    BY <2>1 DEF ValuesInv, PayloadIsValue, ItemsOf, MessageIsValue, RetainedIsValue
<1>6. CASE SetRegister
  <2>1. /\ hpc # "idle" /\ UNCHANGED <<hch, hmsg, payload, retained, mpc, cur>>
    BY <1>6 DEF SetRegister, SetRawValue, loopVars
  <2>2. QED
    BY <2>1 DEF ValuesInv, PayloadIsValue, Changed, ItemsOf, MessageIsValue, RetainedIsValue
<1>7. CASE Echo
  <2>1. /\ hpc # "idle" /\ hpc' = "idle" /\ Publish(hch, hmsg)
        /\ UNCHANGED <<payload, mpc, cur>>
    BY <1>7 DEF Echo, vars, loopVars
  <2>2. RetainedIsValue'
    BY <2>1, PublishedIsValue DEF ValuesInv, MessageIsValue
  <2>3. QED
    BY <2>1, <2>2 DEF ValuesInv, PayloadIsValue, Changed, ItemsOf, MessageIsValue
<1>8. ASSUME NEW c \in Channels, NEW m \in Messages[c], ReceiveMessage(c, m)
      PROVE  ValuesInv'
  <2>1. /\ Len(m) = Len(Registers[c]) /\ hch' = c /\ hmsg' = m
        /\ UNCHANGED <<payload, retained, mpc, cur>>
    BY <1>8 DEF ReceiveMessage, vars, loopVars
  <2>2. Registers[c] \in Seq(Regs) /\ m \in Seq(Int)
    BY ChannelAssumption, MessageAssumption
  <2>3. \A i \in 1..Len(m) : m[i] \in Commands[Registers[c][i]] /\ Registers[c][i] \in Regs
    BY <2>1, <2>2, MessageAssumption
  <2>4. ItemsOf(c, m)
    BY <2>1, <2>2, <2>3, Sources DEF ItemsOf
  <2>5. MessageIsValue'
    BY <2>1, <2>4 DEF MessageIsValue
  <2>6. QED
    BY <2>1, <2>5 DEF ValuesInv, PayloadIsValue, Changed, ItemsOf, RetainedIsValue
<1>9. CASE PubSubSetup \/ LoseLink \/ Reconnect \/ UNCHANGED pvars
  BY <1>9, ValuesRest DEF PubSubSetup, LoseLink, Reconnect, pvars, vars, loopVars
<1>10. CASE PortStart
  BY <1>10, ValuesRest DEF PortStart, Start
<1>11. ASSUME NEW r \in Regs, NEW w \in SlaveWords[r], PortSlaveChange(r, w)
       PROVE  ValuesInv'
  BY <1>11, ValuesRest DEF PortSlaveChange, SlaveChange, loopVars
<1>12. QED
  BY <1>1, <1>2, <1>3, <1>4, <1>5, <1>6, <1>7, <1>8, <1>9, <1>10, <1>11
     DEF PortNext, PortModbusThread, MosquittoThread

\* "avoid publishing incomplete value": the 0 a handler starts with is never retained
\* for a register that can have no 0, whatever commands, polls, outages and restarts
\* come between.
THEOREM NoPlaceholderRetained == PortSpec => []PlaceholderNeverPublished
<1>1. PortSpec => [](TypeOK /\ HandlersInv)
  BY PortUsesClient, HandlersInvariant, PTL
<1>2. RetainedIsValue => PlaceholderNeverPublished
  <2> SUFFICES ASSUME RetainedIsValue, NEW c \in Channels, OnValue[c] < 0,
                      retained[c] # None, NEW i \in DOMAIN Registers[c],
                      0 \notin ValuesOf(Registers[c][i])
               PROVE  retained[c][i] # 0
    BY DEF PlaceholderNeverPublished, ValuesOf
  <2>1. i \in 1..Len(retained[c])
    BY ChannelAssumption DEF RetainedIsValue
  <2>2. QED
    BY <2>1 DEF RetainedIsValue, ItemsOf
<1>3. QED
  BY <1>1, <1>2, ValuesInit, ValuesStep, SetsInvariant, PTL DEF PortSpec, ValuesInv

-----------------------------------------------------------------------------
(***************************************************************************)
(* WriteInitValues.                                                        *)
(***************************************************************************)

\* The naturals are well-founded, in sets.
LEMMA LeastNumber ==
  ASSUME NEW S \in SUBSET Nat, S # {}
  PROVE  \E x \in S : \A y \in S : x <= y
<1>1. PICK x \in S : \A y \in S : <<y, x>> \notin OpToRel(<, Nat)
  BY NatLessThanWellFounded, WFMin
<1>2. \A y \in S : ~(y < x)
  BY <1>1 DEF OpToRel
<1>3. QED
  BY <1>2

\* A failure leaves the end of the list, and takes items of one device only.
LEMMA DropsOneDevice ==
  ASSUME NEW items \in Seq(Setup), NEW d
  PROVE  \E n \in 1..(Len(items) + 1) :
           /\ DropDevice(items, d) = SubSeq(items, n, Len(items))
           /\ \A i \in 1..(n - 1) : items[i].device = d
<1> DEFINE Behind(n) == /\ \A i \in 1..(n - 1) : items[i].device = d
                        /\ n <= Len(items) => items[n].device # d
           Others == {n \in 1..Len(items) : items[n].device # d}
<1>0. Len(items) \in Nat
  OBVIOUS
<1>1. \E n \in 1..(Len(items) + 1) : Behind(n)
  <2>1. CASE Others = {}
    <3>1. \A i \in 1..Len(items) : items[i].device = d
      BY <2>1
    <3>2. Len(items) + 1 \in 1..(Len(items) + 1) /\ (Len(items) + 1) - 1 = Len(items)
          /\ ~(Len(items) + 1 <= Len(items))
      BY <1>0
    <3>3. Behind(Len(items) + 1)
      BY <3>1, <3>2
    <3>4. QED
      BY <3>2, <3>3
  <2>2. CASE Others # {}
    <3>1. Others \in SUBSET Nat
      BY <1>0
    <3>2. PICK n \in Others : \A k \in Others : n <= k
      BY <2>2, <3>1, LeastNumber
    <3>3. Behind(n)
      BY <1>0, <3>2
    <3>4. QED
      BY <1>0, <3>2, <3>3
  <2>3. QED
    BY <2>1, <2>2
<1>2. QED
  BY <1>1 DEF DropDevice

\* What is left to write.
SetupLeft == todo \in Seq(Setup)

LEMMA DropType ==
  ASSUME NEW items \in Seq(Setup), NEW d
  PROVE  DropDevice(items, d) \in Seq(Setup)
<1>1. PICK n \in 1..(Len(items) + 1) : DropDevice(items, d) = SubSeq(items, n, Len(items))
  BY DropsOneDevice
<1>2. n \in Int /\ Len(items) \in Int /\ \A i \in n..Len(items) : items[i] \in Setup
  OBVIOUS
<1>3. QED
  BY <1>1, <1>2, SubSeqProperties

LEMMA SetupLeftInit == PortInit => SetupLeft
BY SetupAssumption DEF PortInit, SetupLeft

LEMMA SetupLeftStep == SetupLeft /\ [PortNext]_pvars => SetupLeft'
<1> SUFFICES ASSUME SetupLeft, [PortNext]_pvars PROVE SetupLeft'
  OBVIOUS
<1>1. ASSUME todo' = todo \/ todo' = SetupItems
      PROVE  SetupLeft'
  BY <1>1, SetupAssumption DEF SetupLeft
<1>2. CASE SetupWrite
  BY <1>2 DEF SetupWrite, SetupLeft
<1>3. CASE SetupFails
  BY <1>3, DropType DEF SetupFails, SetupLeft
<1>4. CASE PortStop \/ PortConnectFails
  BY <1>1, <1>4 DEF PortStop, PortConnectFails, PortEnd
<1>5. CASE SetupDone \/ ComposeItem \/ Incomplete \/ PublishValue \/ ClientStep
  BY <1>1, <1>5 DEF SetupDone, ComposeItem, Incomplete, PublishValue, ClientStep, portVars
<1>6. CASE \/ SetRegister \/ Echo \/ PubSubSetup \/ Reconnect \/ LoseLink \/ PortStart
           \/ UNCHANGED pvars
  BY <1>1, <1>6 DEF SetRegister, Echo, PubSubSetup, Reconnect, LoseLink, PortStart, pvars,
     portVars
<1>7. ASSUME NEW c \in Channels, NEW m \in Messages[c], ReceiveMessage(c, m)
      PROVE  SetupLeft'
  BY <1>1, <1>7 DEF ReceiveMessage
<1>8. ASSUME NEW r \in Regs, NEW w \in SlaveWords[r], PortSlaveChange(r, w)
      PROVE  SetupLeft'
  BY <1>1, <1>8 DEF PortSlaveChange, portVars
<1>9. QED
  BY <1>2, <1>3, <1>4, <1>5, <1>6, <1>7, <1>8
     DEF PortNext, PortModbusThread, MosquittoThread

LEMMA SetupLeftInvariant == PortSpec => []SetupLeft
BY SetupLeftInit, SetupLeftStep, PTL DEF PortSpec

\* What leaves the list at a step that ends no process.
TakesOneDevice ==
  \/ todo' = todo
  \/ mpc' = "stopped"
  \/ LET gone == Len(todo) - Len(todo') IN
       /\ todo' = SubSeq(todo, gone + 1, Len(todo))
       /\ \A i \in 1..gone : todo[i].device = Head(todo).device

LEMMA TakesStep == SetupLeft /\ [PortNext]_pvars => [TakesOneDevice]_todo
<1> SUFFICES ASSUME SetupLeft, [PortNext]_pvars PROVE TakesOneDevice
  OBVIOUS
<1>0. todo \in Seq(Setup) /\ Len(todo) \in Nat
  BY DEF SetupLeft
<1>1. ASSUME todo' = todo \/ mpc' = "stopped"
      PROVE  TakesOneDevice
  BY <1>1 DEF TakesOneDevice
<1>2. ASSUME NEW n \in 1..(Len(todo) + 1), todo' = SubSeq(todo, n, Len(todo)),
             \A i \in 1..(n - 1) : todo[i].device = Head(todo).device
      PROVE  TakesOneDevice
  <2>1. n \in Int /\ Len(todo) \in Int /\ \A i \in n..Len(todo) : todo[i] \in Setup
    BY <1>0
  <2>2. Len(todo') = IF n <= Len(todo) THEN Len(todo) - n + 1 ELSE 0
    BY <1>2, <2>1, SubSeqProperties
  <2>3. Len(todo) - Len(todo') = n - 1
    BY <1>0, <2>2
  <2>4. (n - 1) + 1 = n
    OBVIOUS
  <2>5. QED
    BY <1>2, <2>3, <2>4 DEF TakesOneDevice
<1>3. CASE SetupWrite
  <2>1. todo # <<>> /\ todo' = Tail(todo)
    BY <1>3 DEF SetupWrite
  <2>2. Tail(todo) = SubSeq(todo, 2, Len(todo))
    BY <1>0, <2>1, TailIsSubSeq
  <2>3. 2 \in 1..(Len(todo) + 1) /\ Head(todo) = todo[1]
    BY <1>0, <2>1
  <2>4. \A i \in 1..(2 - 1) : todo[i].device = Head(todo).device
    BY <2>3
  <2>5. QED
    BY <1>2, <2>1, <2>2, <2>3, <2>4
<1>4. CASE SetupFails
  BY <1>0, <1>2, <1>4, DropsOneDevice DEF SetupFails
<1>5. CASE PortStop \/ PortConnectFails
  BY <1>1, <1>5 DEF PortStop, PortConnectFails, Stop, ConnectFails, ProcessEnd
<1>6. CASE SetupDone \/ ComposeItem \/ Incomplete \/ PublishValue \/ ClientStep
  BY <1>1, <1>6 DEF SetupDone, ComposeItem, Incomplete, PublishValue, ClientStep, portVars
<1>7. CASE \/ SetRegister \/ Echo \/ PubSubSetup \/ Reconnect \/ LoseLink \/ PortStart
           \/ UNCHANGED pvars
  BY <1>1, <1>7 DEF SetRegister, Echo, PubSubSetup, Reconnect, LoseLink, PortStart, pvars,
     portVars
<1>8. ASSUME NEW c \in Channels, NEW m \in Messages[c], ReceiveMessage(c, m)
      PROVE  TakesOneDevice
  BY <1>1, <1>8 DEF ReceiveMessage
<1>9. ASSUME NEW r \in Regs, NEW w \in SlaveWords[r], PortSlaveChange(r, w)
      PROVE  TakesOneDevice
  BY <1>1, <1>9 DEF PortSlaveChange, portVars
<1>10. QED
  BY <1>3, <1>4, <1>5, <1>6, <1>7, <1>8, <1>9
     DEF PortNext, PortModbusThread, MosquittoThread

\* A device whose setup fails takes nothing from the others, whatever items there are
\* and wherever it fails: ModbusPort!SetupGoesOn.
THEOREM OthersAreSetUp == PortSpec => SetupGoesOn
<1>1. SetupLeft /\ [PortNext]_pvars =>
        [\/ todo' = todo
         \/ mpc' = "stopped"
         \/ LET gone == Len(todo) - Len(todo') IN
              /\ todo' = SubSeq(todo, gone + 1, Len(todo))
              /\ \A i \in 1..gone : todo[i].device = Head(todo).device]_todo
  BY TakesStep DEF TakesOneDevice
<1>2. QED
  BY <1>1, SetupLeftInvariant, PTL DEF PortSpec, SetupGoesOn

-----------------------------------------------------------------------------
(***************************************************************************)
(* Type correctness of the port.                                           *)
(***************************************************************************)

PortTypes ==
  /\ hpc \in {"idle", "set", "echo"}
  /\ hch \in Channels \cup {NoChannel}
  /\ hmsg \in Seq(Int)
  /\ hi \in Nat \ {0}
  /\ link \in Links
  /\ retained \in [Channels -> Seq(Int) \cup {None}]

LEMMA PortTypesInit == PortInit => PortTypes
BY DEF PortInit, PortTypes, AfterConnect, Links

LEMMA PublishType ==
  ASSUME PortTypes, NEW c \in Channels, NEW items \in Seq(Int), Publish(c, items)
  PROVE  retained' \in [Channels -> Seq(Int) \cup {None}]
BY DEF PortTypes, Publish

LEMMA PortTypesStep ==
  TypeOK /\ SetsRegisters /\ ValuesInv /\ PortTypes /\ [PortNext]_pvars => PortTypes'
<1> SUFFICES ASSUME TypeOK, SetsRegisters, ValuesInv, PortTypes, [PortNext]_pvars
             PROVE  PortTypes'
  OBVIOUS
<1> USE DEF portVars, messageVars, PortTypes
<1>1. CASE SetupWrite \/ SetupFails \/ SetupDone \/ ComposeItem \/ Incomplete \/ ClientStep
  BY <1>1 DEF SetupWrite, SetupFails, SetupDone, ComposeItem, Incomplete, ClientStep
<1>2. CASE PublishValue
  <2>1. Publish(Changed, payload) /\ UNCHANGED <<messageVars, link>>
    BY <1>2 DEF PublishValue
  <2>2. payload \in Seq(Int)
    BY DEF ValuesInv, PayloadIsValue
  <2>3. QED
    BY <2>1, <2>2, ChannelOfCur, PublishType
<1>3. CASE PortConnectFails \/ PortStop
  <2>1. /\ hpc' = "idle" /\ hch' = NoChannel /\ hmsg' = <<>> /\ hi' = 1
        /\ link' = "down" /\ retained' = retained
    BY <1>3 DEF PortConnectFails, PortStop, PortEnd
  <2>2. hmsg' \in Seq(Int)
    BY <2>1
  <2>3. QED
    BY <2>1, <2>2 DEF Links
<1>4. CASE SetRegister
  BY <1>4 DEF SetRegister, SetsRegisters
<1>5. CASE Echo
  <2>1. /\ hpc = "echo" /\ Publish(hch, hmsg) /\ hpc' = "idle" /\ hch' = NoChannel
        /\ hmsg' = <<>> /\ UNCHANGED <<hi, link>>
    BY <1>5 DEF Echo
  <2>2. hch \in Channels
    BY <2>1 DEF ValuesInv, MessageIsValue
  <2>3. QED
    BY <2>1, <2>2, PublishType
<1>6. ASSUME NEW c \in Channels, NEW m \in Messages[c], ReceiveMessage(c, m)
      PROVE  PortTypes'
  <2>1. m \in Seq(Int)
    BY MessageAssumption
  <2>2. QED
    BY <1>6, <2>1 DEF ReceiveMessage
<1>7. CASE PubSubSetup \/ LoseLink \/ Reconnect \/ UNCHANGED pvars
  BY <1>7 DEF PubSubSetup, LoseLink, Reconnect, pvars, Links
<1>8. CASE PortStart
  BY <1>8 DEF PortStart, AfterConnect, Links
<1>9. ASSUME NEW r \in Regs, NEW w \in SlaveWords[r], PortSlaveChange(r, w)
      PROVE  PortTypes'
  BY <1>9 DEF PortSlaveChange
<1>10. QED
  BY <1>1, <1>2, <1>3, <1>4, <1>5, <1>6, <1>7, <1>8, <1>9
     DEF PortNext, PortModbusThread, MosquittoThread

\* What HandleMessage, OnModbusValueChange and the broker hold keeps its type, with
\* the types of the client underneath.
THEOREM PortTypeCorrect == PortSpec => []PortTypeOK
<1>1. PortSpec => [](TypeOK /\ HandlersInv)
  BY PortUsesClient, HandlersInvariant, PTL
<1>2. TypeOK /\ ValuesInv /\ PortTypes /\ SetupLeft => PortTypeOK
  BY DEF PortTypeOK, PortTypes, ValuesInv, PayloadIsValue, SetupLeft
<1>3. QED
  BY <1>1, <1>2, ValuesInit, ValuesStep, PortTypesInit, PortTypesStep, SetsInvariant,
     SetupLeftInvariant, PTL DEF PortSpec
-----------------------------------------------------------------------------
(***************************************************************************)
(* What is retained is current.                                            *)
(*                                                                         *)
(* A channel that gets no commands is brought up to date by polls only.    *)
(* From the read of one of its registers to the end of the callback its    *)
(* payload may be old; a poll that reports no change leaves it as it was,  *)
(* and a payload is composed of values that do not move meanwhile.         *)
(***************************************************************************)

Uncommanded(c) == Messages[c] = {}

\* Once all registers of c were read, its retained payload is made from their values.
Retains(c) == Complete(c) => retained[c] = CurrentPayload(c)

Polling(c) == mpc \in {"compare", "callback"} /\ Changed = c

Untouched(c) ==
  /\ hpc # "idle" => hch # c
  /\ \A r \in RegistersOf(c) : ~dirty[r]
RetainsResting(c) == ~Polling(c) => Retains(c)
RetainsReadAgain(c) == mpc = "compare" /\ Polling(c) /\ ~first_poll => Retains(c)
ComposesCurrent(c) ==
  mpc = "callback" /\ Polling(c) =>
    /\ Len(payload) <= Len(Registers[c])
    /\ \A i \in 1..Len(payload) : payload[i] = ItemOf(c, Registers[c][i])

CurrentInv(c) ==
  Untouched(c) /\ RetainsResting(c) /\ RetainsReadAgain(c) /\ ComposesCurrent(c)
AllCurrent == \A c \in Channels : Uncommanded(c) => CurrentInv(c)

\* A connection that is not lost is there while the process runs.
LinkHolds ==
  /\ mpc # "stopped" => link # "down"
  /\ mpc = "stopped" => \A r \in Regs : ~did_read[r]

LEMMA ItemsOfChannel ==
  ASSUME NEW c \in Channels
  PROVE  /\ Registers[c] \in Seq(Regs) /\ DOMAIN Registers[c] = 1..Len(Registers[c])
         /\ RegistersOf(c) \subseteq Regs
         /\ \A i \in DOMAIN Registers[c] : Registers[c][i] \in RegistersOf(c)
         /\ \E r \in RegistersOf(c) : TRUE
<1>1. Registers[c] \in Seq(Regs) /\ Registers[c] # <<>>
  BY ChannelAssumption
<1>2. DOMAIN Registers[c] = 1..Len(Registers[c]) /\ 1 \in DOMAIN Registers[c]
  BY <1>1
<1>3. \A i \in DOMAIN Registers[c] : Registers[c][i] \in Regs
  BY <1>1, <1>2
<1>4. QED
  BY <1>1, <1>2, <1>3 DEF RegistersOf

\* The polled register is of the channel that is found for it, and of no other.
LEMMA CurOfChannel ==
  ASSUME TypeOK
  PROVE  /\ Changed \in Channels /\ cur \in RegistersOf(Changed)
         /\ \A c \in Channels : c # Changed => cur \notin RegistersOf(c)
<1>1. cur \in Regs
  BY DEF TypeOK
<1>2. Changed \in Channels /\ cur \in RegistersOf(Changed)
  BY <1>1, ChannelAssumption DEF Changed, ChannelOf
<1>3. QED
  BY <1>2, ChannelAssumption

\* What is retained of a channel stays current while nothing of it changes.
LEMMA RetainsRest ==
  ASSUME NEW c \in Channels, Retains(c), retained'[c] = retained[c],
         \A r \in RegistersOf(c) : value'[r] = value[r] /\ did_read'[r] = did_read[r]
  PROVE  Retains(c)'
<1>1. CurrentPayload(c)' = CurrentPayload(c)
  BY ItemsOfChannel DEF CurrentPayload, ItemOf
<1>2. Complete(c)' = Complete(c)
  BY DEF Complete
<1>3. QED
  BY <1>1, <1>2 DEF Retains

LEMMA CurrentRest ==
  ASSUME NEW c \in Channels, CurrentInv(c),
         UNCHANGED <<value, did_read, hpc, hch, payload, retained>>,
         \A r \in RegistersOf(c) : dirty'[r] => dirty[r],
         mpc \in {"compare", "callback"} => UNCHANGED <<mpc, cur, first_poll>>,
         mpc' \in {"compare", "callback"} => mpc' = mpc
  PROVE  CurrentInv(c)'
<1>1. Untouched(c)'
  BY DEF CurrentInv, Untouched
<1>2. Polling(c)' = Polling(c)
  BY DEF Polling, Changed
<1>3. Retains(c) => Retains(c)'
  BY RetainsRest
<1>4. RetainsResting(c)' /\ RetainsReadAgain(c)'
  BY <1>2, <1>3 DEF CurrentInv, RetainsResting, RetainsReadAgain, Polling
<1>5. ComposesCurrent(c)'
  BY <1>2 DEF CurrentInv, ComposesCurrent, Polling, ItemOf
<1>6. QED
  BY <1>1, <1>4, <1>5 DEF CurrentInv

\* The process is gone and with it all it has read.
LEMMA CurrentEnd ==
  ASSUME NEW c \in Channels, ProcessEnd, hpc' = "idle"
  PROVE  CurrentInv(c)'
<1>1. /\ mpc' = "stopped"
      /\ \A r \in RegistersOf(c) : dirty'[r] = FALSE /\ did_read'[r] = FALSE
  BY ItemsOfChannel DEF ProcessEnd
<1>2. ~Complete(c)'
  BY <1>1, ItemsOfChannel DEF Complete
<1>3. QED
  BY <1>1, <1>2
     DEF CurrentInv, Untouched, RetainsResting, RetainsReadAgain, ComposesCurrent,
         Polling, Retains

\* A poll of another channel's register changes nothing of c.
LEMMA PollOfOther ==
  ASSUME TypeOK, NEW c \in Channels, CurrentInv(c), Changed # c,
         PollRead \/ PollCompare, UNCHANGED portVars
  PROVE  CurrentInv(c)'
<1>1. UNCHANGED <<dirty, hpc, hch, retained>>
  BY DEF PollRead, PollCompare, portVars, messageVars
<1>2. cur \notin RegistersOf(c) /\ RegistersOf(c) \subseteq Regs
  BY CurOfChannel, ItemsOfChannel
<1>3. \A r \in RegistersOf(c) : value'[r] = value[r] /\ did_read'[r] = did_read[r]
  BY <1>2 DEF PollRead, PollCompare, TypeOK
<1>4. Retains(c)
  BY DEF CurrentInv, RetainsResting, Polling
<1>5. Retains(c)'
  BY <1>1, <1>3, <1>4, RetainsRest
<1>6. ~Polling(c)'
  <2>1. CASE cur' = cur
    BY <2>1 DEF Polling, Changed
  <2>2. CASE cur' # cur
    BY <2>2 DEF PollRead, PollCompare, NextPoll, Polling
  <2>3. QED
    BY <2>1, <2>2
<1>7. QED
  BY <1>1, <1>5, <1>6
     DEF CurrentInv, Untouched, RetainsResting, RetainsReadAgain, ComposesCurrent

\* A register that was read before is read again: nothing changes before the
\* comparison.
LEMMA PollReadsAgain ==
  ASSUME TypeOK, NEW c \in Channels, CurrentInv(c), Changed = c, PollRead, UNCHANGED portVars
  PROVE  CurrentInv(c)'
<1>1. /\ mpc = "poll" /\ mpc' = "compare" /\ first_poll' = ~did_read[cur]
      /\ did_read' = [did_read EXCEPT ![cur] = TRUE]
      /\ UNCHANGED <<value, dirty, cur, hpc, hch, retained>>
  BY DEF PollRead, portVars, messageVars
<1>2. Polling(c)'
  BY <1>1 DEF Polling, Changed
<1>3. Retains(c)
  BY <1>1 DEF CurrentInv, RetainsResting, Polling
<1>4. CASE did_read[cur]
  <2>1. \A r \in RegistersOf(c) : did_read'[r] = did_read[r]
    BY <1>1, <1>4, ItemsOfChannel DEF TypeOK
  <2>2. Retains(c)'
    BY <1>1, <1>3, <2>1, RetainsRest
  <2>3. QED
    BY <1>1, <1>2, <2>2
       DEF CurrentInv, Untouched, RetainsResting, RetainsReadAgain, ComposesCurrent
<1>5. CASE ~did_read[cur]
  BY <1>1, <1>2, <1>5
     DEF CurrentInv, Untouched, RetainsResting, RetainsReadAgain, ComposesCurrent
<1>6. QED
  BY <1>4, <1>5

\* Either the value is the one that was published, or the callback publishes it.
LEMMA PollCompares ==
  ASSUME TypeOK, PayloadIsValue, NEW c \in Channels, CurrentInv(c), Changed = c,
         PollCompare, UNCHANGED portVars
  PROVE  CurrentInv(c)'
<1>1. /\ mpc = "compare" /\ Polling(c) /\ payload = <<>>
      /\ UNCHANGED <<dirty, did_read, hpc, hch, payload, retained>>
  BY DEF PollCompare, portVars, messageVars, Polling, PayloadIsValue
<1>2. cur \in RegistersOf(c) /\ ~dirty[cur]
  BY CurOfChannel DEF CurrentInv, Untouched
<1>3. Untouched(c)'
  BY <1>1 DEF CurrentInv, Untouched
<1>4. CASE value[cur] # new_value \/ first_poll
  <2>1. mpc' = "callback" /\ cur' = cur
    BY <1>4 DEF PollCompare
  <2>2. Polling(c)'
    BY <2>1 DEF Polling, Changed
  <2>3. QED
    BY <1>1, <1>3, <2>1, <2>2
       DEF CurrentInv, RetainsResting, RetainsReadAgain, ComposesCurrent
<1>5. CASE value[cur] = new_value /\ ~first_poll
  <2>1. mpc' \in {"flush", "cycle"}
    BY <1>5 DEF PollCompare, NextPoll
  <2>2. \A r \in RegistersOf(c) : value'[r] = value[r]
    BY <1>2, <1>5, ItemsOfChannel DEF PollCompare, TypeOK
  <2>3. Retains(c)
    BY <1>1, <1>5 DEF CurrentInv, RetainsReadAgain
  <2>4. Retains(c)'
    BY <1>1, <2>2, <2>3, RetainsRest
  <2>5. QED
    BY <1>3, <2>1, <2>4
       DEF CurrentInv, RetainsResting, RetainsReadAgain, ComposesCurrent, Polling
<1>6. QED
  BY <1>4, <1>5

LEMMA ComposesNext ==
  ASSUME TypeOK, PayloadIsValue, NEW c \in Channels, CurrentInv(c), ComposeItem
  PROVE  CurrentInv(c)'
<1>1. /\ mpc = "callback" /\ payload' = Append(payload, ItemOf(Changed, NextItem))
      /\ UNCHANGED <<value, did_read, dirty, mpc, cur, first_poll, hpc, hch, retained>>
  BY DEF ComposeItem, vars, handlerVars, loopVars, messageVars
<1>2. payload \in Seq(Int)
  BY DEF PayloadIsValue
<1>3. NextItem \in Regs /\ Changed \in Channels
  <2>1. Len(payload) + 1 \in 1..Len(Registers[Changed])
    BY <1>2 DEF ComposeItem
  <2>2. QED
    BY <2>1, ChannelOfCur DEF NextItem
<1>4. ItemOf(Changed, NextItem) \in Int
  BY <1>3, OnValueAssumption DEF ItemOf, TypeOK
<1>5. /\ Len(payload') = Len(payload) + 1
      /\ \A i \in 1..Len(payload) : payload'[i] = payload[i]
      /\ payload'[Len(payload) + 1] = ItemOf(Changed, NextItem)
  BY <1>1, <1>2, <1>4
<1>6. Polling(c)' = Polling(c) /\ Changed' = Changed
  BY <1>1 DEF Polling, Changed
<1>7. Retains(c) => Retains(c)'
  BY <1>1, RetainsRest
<1>8. ComposesCurrent(c)'
  <2>0. Polling(c) => Len(payload') <= Len(Registers[c])
    BY <1>2, <1>3, <1>5, ChannelOfCur DEF ComposeItem, Polling
  <2> SUFFICES ASSUME Polling(c), NEW i \in 1..Len(payload')
               PROVE  payload'[i] = ItemOf(c, Registers[c][i])
    BY <1>1, <1>6, <2>0 DEF ComposesCurrent, ItemOf
  <2>1. CASE i \in 1..Len(payload)
    BY <1>1, <1>5, <2>1 DEF CurrentInv, ComposesCurrent
  <2>2. CASE i = Len(payload) + 1
    BY <1>5, <2>2 DEF NextItem, Polling
  <2>3. QED
    BY <1>2, <1>5, <2>1, <2>2
<1>9. QED
  BY <1>1, <1>6, <1>7, <1>8
     DEF CurrentInv, Untouched, RetainsResting, RetainsReadAgain, Polling

\* What the broker retains of c is its payload, if the connection holds.
LEMMA PublishesOf ==
  ASSUME RetainedIsValue, link # "down", NEW c \in Channels, NEW d \in Channels,
         NEW items, Publish(d, items)
  PROVE  retained'[c] = IF c = d THEN items ELSE retained[c]
BY DEF Publish, RetainedIsValue

\* The end of the callback, with or without a publication.
LEMMA CallbackEnds ==
  ASSUME TypeOK, PayloadIsValue, RetainedIsValue, link # "down",
         NEW c \in Channels, CurrentInv(c), Incomplete \/ PublishValue
  PROVE  CurrentInv(c)'
<1>1. /\ mpc = "callback" /\ mpc' \in {"flush", "cycle"}
      /\ UNCHANGED <<value, did_read, dirty, hpc, hch>>
  BY DEF Incomplete, PublishValue, Callback, NextPoll, handlerVars, messageVars
<1>2. ~Polling(c)'
  BY <1>1 DEF Polling
<1>3. Changed \in Channels /\ Registers[Changed] \in Seq(Regs) /\ payload \in Seq(Int)
  BY ChannelOfCur DEF PayloadIsValue
<1>4. CASE Changed # c
  <2>1. Retains(c)
    BY <1>4 DEF CurrentInv, RetainsResting, Polling
  <2>2. retained'[c] = retained[c]
    BY <1>3, <1>4, PublishesOf DEF Incomplete, PublishValue
  <2>3. Retains(c)'
    BY <1>1, <2>1, <2>2, RetainsRest
  <2>4. QED
    BY <1>1, <1>2, <2>3
       DEF CurrentInv, Untouched, RetainsResting, RetainsReadAgain, ComposesCurrent
<1>5. CASE Changed = c /\ Incomplete
  <2>1. Len(payload) + 1 \in DOMAIN Registers[c] /\ ~did_read[NextItem]
    BY <1>3, <1>5 DEF Incomplete
  <2>2. ~Complete(c)'
    BY <1>1, <1>5, <2>1, ItemsOfChannel DEF Complete, NextItem
  <2>3. QED
    BY <1>1, <1>2, <2>2
       DEF CurrentInv, Untouched, RetainsResting, RetainsReadAgain, ComposesCurrent, Retains
<1>6. CASE Changed = c /\ PublishValue
  <2>1. /\ Len(payload) = Len(Registers[c])
        /\ \A i \in 1..Len(payload) : payload[i] = ItemOf(c, Registers[c][i])
    BY <1>1, <1>6 DEF PublishValue, CurrentInv, ComposesCurrent, Polling
  <2>2. payload = CurrentPayload(c)
    BY <1>3, <1>6, <2>1, ItemsOfChannel DEF CurrentPayload
  <2>3. retained'[c] = payload
    BY <1>3, <1>6, PublishesOf DEF PublishValue
  <2>4. CurrentPayload(c)' = CurrentPayload(c)
    BY <1>1, ItemsOfChannel DEF CurrentPayload, ItemOf
  <2>5. QED
    BY <1>1, <1>2, <2>2, <2>3, <2>4
       DEF CurrentInv, Untouched, RetainsResting, RetainsReadAgain, ComposesCurrent, Retains
<1>7. QED
  BY <1>4, <1>5, <1>6

\* A command for another channel sets registers of that channel only.
LEMMA CommandForOther ==
  ASSUME TypeOK, SetsRegisters, NEW c \in Channels, CurrentInv(c), SetRegister
  PROVE  CurrentInv(c)'
<1>1. /\ hpc = "set" /\ hpc' # "idle"
      /\ UNCHANGED <<did_read, mpc, cur, first_poll, hch, payload, retained>>
  BY DEF SetRegister, SetRawValue, loopVars
<1>2. hch \in Channels /\ hch # c /\ hi \in 1..Len(Registers[hch])
  BY <1>1 DEF SetsRegisters, CurrentInv, Untouched
<1>3. PICK q \in RegistersOf(hch) : q = Registers[hch][hi] /\ SetRawValue(q, hmsg[hi])
  BY <1>2, ItemsOfChannel DEF SetRegister
<1>4. q \notin RegistersOf(c) /\ RegistersOf(c) \subseteq Regs
  BY <1>2, <1>3, ChannelAssumption, ItemsOfChannel
<1>5. \A r \in RegistersOf(c) : value'[r] = value[r] /\ dirty'[r] = dirty[r]
  BY <1>3, <1>4 DEF SetRawValue, TypeOK
<1>6. Untouched(c)'
  BY <1>1, <1>2, <1>5 DEF CurrentInv, Untouched
<1>7. Polling(c)' = Polling(c)
  BY <1>1 DEF Polling, Changed
<1>8. Retains(c) => Retains(c)'
  BY <1>1, <1>5, RetainsRest
<1>9. ComposesCurrent(c)'
  <2>1. \A i \in DOMAIN Registers[c] :
          ItemOf(c, Registers[c][i])' = ItemOf(c, Registers[c][i])
    BY <1>5, ItemsOfChannel DEF ItemOf
  <2>2. Len(payload) <= Len(Registers[c]) => 1..Len(payload) \subseteq DOMAIN Registers[c]
    BY ItemsOfChannel
  <2>3. QED
    BY <1>1, <1>7, <2>1, <2>2 DEF CurrentInv, ComposesCurrent
<1>10. QED
  BY <1>1, <1>6, <1>7, <1>8, <1>9
     DEF CurrentInv, RetainsResting, RetainsReadAgain, Polling

LEMMA AllCurrentInit == PortInit => AllCurrent
<1> SUFFICES ASSUME PortInit, NEW c \in Channels PROVE CurrentInv(c)
  BY DEF AllCurrent
<1>1. /\ mpc = "setup" /\ hpc = "idle"
      /\ \A r \in RegistersOf(c) : ~dirty[r] /\ ~did_read[r]
  BY ItemsOfChannel DEF PortInit, Init, ProcessStart
<1>2. ~Complete(c)
  BY <1>1, ItemsOfChannel DEF Complete
<1>3. QED
  BY <1>1, <1>2
     DEF CurrentInv, Untouched, RetainsResting, RetainsReadAgain, ComposesCurrent, Retains,
         Polling

LEMMA LinkStep ==
  ASSUME LinkFails = FALSE, LinkHolds, [PortNext]_pvars
  PROVE  LinkHolds'
<1> USE DEF LinkHolds
<1>1. CASE PortStop \/ PortConnectFails
  BY <1>1 DEF PortStop, PortConnectFails, Stop, ConnectFails, ProcessEnd
<1>2. CASE PortStart
  BY <1>2 DEF PortStart, Start, AfterConnect
<1>3. CASE PubSubSetup \/ Reconnect \/ LoseLink
  BY <1>3 DEF PubSubSetup, Reconnect, LoseLink, Running, vars, loopVars
<1>4. ASSUME mpc # "stopped", mpc' # "stopped", link' = link
      PROVE  LinkHolds'
  BY <1>4
<1>5. CASE SetupWrite \/ SetupFails \/ SetupDone \/ ComposeItem \/ Incomplete \/ PublishValue
  BY <1>4, <1>5
     DEF SetupWrite, SetupFails, SetupDone, ComposeItem, Incomplete, PublishValue,
         WriteHoldingRegister, StartLoop, Callback, NextPoll, portVars, vars, loopVars
<1>6. CASE ClientStep
  BY <1>4, <1>6
     DEF ClientStep, BeginCycle, FlushTake, FlushClean, FlushWrite, NextFlush, PollSkip,
         PollRead, PollFails, PollCompare, NextPoll, portVars
<1>7. CASE SetRegister
  BY <1>4, <1>7 DEF SetRegister, SetRawValue, Running, loopVars
<1>8. ASSUME UNCHANGED <<mpc, link, did_read>>
      PROVE  LinkHolds'
  BY <1>8
<1>9. CASE Echo \/ UNCHANGED pvars
  BY <1>8, <1>9 DEF Echo, pvars, portVars, vars, handlerVars, loopVars
<1>10. ASSUME NEW c \in Channels, NEW m \in Messages[c], ReceiveMessage(c, m)
       PROVE  LinkHolds'
  BY <1>8, <1>10 DEF ReceiveMessage, vars, handlerVars, loopVars
<1>11. ASSUME NEW r \in Regs, NEW w \in SlaveWords[r], PortSlaveChange(r, w)
       PROVE  LinkHolds'
  BY <1>8, <1>11 DEF PortSlaveChange, SlaveChange, portVars, handlerVars, loopVars
<1>12. QED
  BY <1>1, <1>2, <1>3, <1>5, <1>6, <1>7, <1>9, <1>10, <1>11
     DEF PortNext, PortModbusThread, MosquittoThread

LEMMA CurrentStep ==
  ASSUME LinkFails = FALSE, TypeOK, SetsRegisters, ValuesInv, LinkHolds,
         NEW c \in Channels, Uncommanded(c), CurrentInv(c), [PortNext]_pvars
  PROVE  CurrentInv(c)'
<1> USE DEF portVars, messageVars, vars, handlerVars, loopVars
<1>1. CASE SetupWrite \/ SetupFails \/ SetupDone
  BY <1>1, CurrentRest
     DEF SetupWrite, SetupFails, SetupDone, WriteHoldingRegister, StartLoop
<1>2. CASE FlushTake /\ UNCHANGED portVars
  <2>1. \A r \in Regs : dirty'[r] => dirty[r]
    BY <1>2 DEF FlushTake, TypeOK
  <2>2. QED
    BY <1>2, <2>1, CurrentRest, ItemsOfChannel DEF FlushTake
<1>3. CASE /\ BeginCycle \/ FlushClean \/ FlushWrite \/ PollSkip \/ PollFails
           /\ UNCHANGED portVars
  BY <1>3, CurrentRest
     DEF BeginCycle, FlushClean, FlushWrite, NextFlush, PollSkip, PollFails, NextPoll
<1>4. CASE (PollRead \/ PollCompare) /\ UNCHANGED portVars
  BY <1>4, PollOfOther, PollReadsAgain, PollCompares DEF ValuesInv
<1>5. CASE ComposeItem
  BY <1>5, ComposesNext DEF ValuesInv
<1>6. CASE Incomplete \/ PublishValue
  <2>1. link # "down"
    BY <1>6 DEF LinkHolds, Incomplete, PublishValue, Callback
  <2>2. QED
    BY <1>6, <2>1, CallbackEnds DEF ValuesInv
<1>7. CASE PortConnectFails \/ PortStop
  BY <1>7, CurrentEnd DEF PortConnectFails, PortStop, ConnectFails, Stop, PortEnd
<1>8. CASE SetRegister
  BY <1>8, CommandForOther
<1>9. CASE Echo
  <2>1. /\ hpc = "echo" /\ hpc' = "idle" /\ Publish(hch, hmsg)
        /\ UNCHANGED <<value, dirty, did_read, mpc, cur, first_poll, payload>>
    BY <1>9 DEF Echo
  <2>2. hch \in Channels /\ hch # c
    BY <2>1 DEF ValuesInv, MessageIsValue, CurrentInv, Untouched
  <2>3. retained'[c] = retained[c]
    BY <2>1, <2>2 DEF Publish, ValuesInv, RetainedIsValue
  <2>4. Retains(c) => Retains(c)'
    BY <2>1, <2>3, RetainsRest
  <2>5. Polling(c)' = Polling(c)
    BY <2>1 DEF Polling, Changed
  <2>6. QED
    BY <2>1, <2>4, <2>5
       DEF CurrentInv, Untouched, RetainsResting, RetainsReadAgain, ComposesCurrent,
           Polling, ItemOf
<1>10. ASSUME NEW d \in Channels, NEW m \in Messages[d], ReceiveMessage(d, m)
       PROVE  CurrentInv(c)'
  <2>1. d # c
    BY DEF Uncommanded
  <2>2. /\ hch' = d
        /\ UNCHANGED <<value, dirty, did_read, mpc, cur, first_poll, payload, retained>>
    BY <1>10 DEF ReceiveMessage
  <2>3. Retains(c) => Retains(c)'
    BY <2>2, RetainsRest
  <2>4. Polling(c)' = Polling(c)
    BY <2>2 DEF Polling, Changed
  <2>5. QED
    BY <2>1, <2>2, <2>3, <2>4
       DEF CurrentInv, Untouched, RetainsResting, RetainsReadAgain, ComposesCurrent,
           Polling, ItemOf
<1>11. CASE PubSubSetup \/ LoseLink \/ Reconnect \/ UNCHANGED pvars
  BY <1>11, CurrentRest DEF PubSubSetup, LoseLink, Reconnect, pvars
<1>12. CASE PortStart
  BY <1>12, CurrentRest DEF PortStart, Start
<1>13. ASSUME NEW r \in Regs, NEW w \in SlaveWords[r], PortSlaveChange(r, w)
       PROVE  CurrentInv(c)'
  BY <1>13, CurrentRest DEF PortSlaveChange, SlaveChange
<1>14. QED
  BY <1>1, <1>2, <1>3, <1>4, <1>5, <1>6, <1>7, <1>8, <1>9, <1>10, <1>11, <1>12, <1>13
     DEF PortNext, PortModbusThread, MosquittoThread, ClientStep

\* What the broker retains for c is current, whenever no thread is about to publish.
ChannelCurrent(c) == Complete(c) /\ AtRest(c) => retained[c] = CurrentPayload(c)

\* A channel that gets no commands is current, whatever the commands for the other
\* channels of the port, the failures of the bus and the restarts, if the connection
\* to the broker holds: OnModbusValueChange publishes every change.
THEOREM UncommandedIsCurrent ==
  ASSUME LinkFails = FALSE
  PROVE  PortSpec => [](\A c \in Channels : Uncommanded(c) => ChannelCurrent(c))
<1>1. PortSpec => [](TypeOK /\ HandlersInv)
  BY PortUsesClient, HandlersInvariant, PTL
<1>2. PortInit => LinkHolds
  BY DEF PortInit, Init, AfterConnect, LinkHolds
<1>3. TypeOK /\ SetsRegisters /\ ValuesInv /\ LinkHolds /\ AllCurrent /\ [PortNext]_pvars
        => AllCurrent'
  BY CurrentStep DEF AllCurrent, Uncommanded
<1>4. AllCurrent => \A c \in Channels : Uncommanded(c) => ChannelCurrent(c)
  BY DEF AllCurrent, CurrentInv, RetainsResting, Retains, Polling, Changed, ChannelCurrent,
         AtRest
<1>5. QED
  BY <1>1, <1>2, <1>3, <1>4, LinkStep, AllCurrentInit, ValuesInit, ValuesStep,
     SetsInvariant, PTL DEF PortSpec

\* On a port whose channels only report, every retained value is current.
THEOREM ReportingPortIsCurrent ==
  ASSUME LinkFails = FALSE, \A c \in Channels : Messages[c] = {}
  PROVE  PortSpec => []RetainedCurrent
<1>1. (\A c \in Channels : Uncommanded(c) => ChannelCurrent(c)) => RetainedCurrent
  BY DEF Uncommanded, ChannelCurrent, RetainedCurrent
<1>2. QED
  BY <1>1, UncommandedIsCurrent, PTL

=============================================================================
