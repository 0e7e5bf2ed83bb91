----------------------------- MODULE MCUnielBus -----------------------------
(* Instances of UnielBus for TLC. *)
EXTENDS UnielBus

Call(op, slave, addr, value) == [op |-> op, slave |-> slave, addr |-> addr, value |-> value]

\* Two modules with the same register, a coil, the brightness at 0x01000A1A and
\* an address of no known type.
AllCalls ==
  << Call("ReadHoldingRegisters", 1, 26, 0), Call("ReadCoils", 2, 26, 0),
     Call("WriteCoil", 1, 26, 1), Call("WriteHoldingRegisters", 2, 16779802, 7),
     Call("WriteHoldingRegisters", 1, 33554432, 7) >>

\* Two registers of one module, and one written.
TwoRegisters == << Call("ReadCoils", 1, 26, 0), Call("WriteCoil", 1, 27, 1) >>

\* The checksums of these calls are up to their task: the runs are about the framing.
ASSUME CallsUnambiguous == Unambiguous

=============================================================================
