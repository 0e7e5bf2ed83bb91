--------------------------- MODULE CommandDelivery --------------------------
(***************************************************************************)
(* What a Modbus client promises to whoever sets a register: the latest    *)
(* value asked for is sent to the bus at least once, and nothing that was  *)
(* never asked for is.  A newer command supersedes one that was not sent   *)
(* yet, a command may be sent twice, and the end of the process forgets    *)
(* what is owed.  Whether the slave accepts what is sent is not promised.  *)
(*                                                                         *)
(* ModbusClient implements this (ModbusClient!Delivery).                   *)
(***************************************************************************)
CONSTANTS
  Regs,
  Commands,      \* Commands[r]: values that may be asked for
  ToWord(_, _),  \* ToWord(r, v): the word a request carries for v
  None

VARIABLES
  asked,         \* asked[r]: the latest command, or None
  owed,          \* owed[r]: it may not have been sent
  attempted      \* attempted[r]: the last word sent, or None

vars == <<asked, owed, attempted>>

Init ==
  /\ asked = [r \in Regs |-> None]
  /\ owed = [r \in Regs |-> FALSE]
  /\ attempted = [r \in Regs |-> None]

Command(r, v) ==
  /\ asked' = [asked EXCEPT ![r] = v]
  /\ owed' = [owed EXCEPT ![r] = TRUE]
  /\ UNCHANGED attempted

\* The sender may not know yet that what it sends is the latest command, and
\* then sends it again.
Attempt(r) ==
  /\ owed[r]
  /\ attempted' = [attempted EXCEPT ![r] = ToWord(r, asked[r])]
  /\ \E again \in BOOLEAN : owed' = [owed EXCEPT ![r] = again]
  /\ UNCHANGED asked

Forget ==
  /\ asked' = [r \in Regs |-> None]
  /\ owed' = [r \in Regs |-> FALSE]
  /\ attempted' = [r \in Regs |-> None]

Next ==
  \/ \E r \in Regs : \E v \in Commands[r] : Command(r, v)
  \/ \E r \in Regs : Attempt(r)
  \/ Forget

SafeSpec == Init /\ [][Next]_vars

\* A command whose word was not the last one sent is sent.  (Repeating a request
\* for the same value may keep it owed for ever.)
AttemptAnother(r) == Attempt(r) /\ attempted'[r] # attempted[r]

Spec == SafeSpec /\ \A r \in Regs : WF_vars(AttemptAnother(r))
=============================================================================
