--------------------------- MODULE MCModbusConfig ---------------------------
(***************************************************************************)
(* Configurations with what the parser looks at: pairs of channels of one  *)
(* device, pairs of devices on one port or on two, setup sections of a     *)
(* device and of its template, port settings.                              *)
(***************************************************************************)
EXTENDS Integers, Sequences, TLC

CONSTANT Refused

Num(n) == [kind |-> "int", n |-> n]
HexStr(n) == [kind |-> "hex", n |-> n]
Word == [kind |-> "text", n |-> 0]

Coil(name, n) == [name |-> name, reg_type |-> "coil", address |-> Num(n)]
Input(name, n) == [name |-> name, reg_type |-> "input", address |-> HexStr(n), format |-> "s8"]
Holding(n) == [reg_type |-> "holding", address |-> Num(n)]
Locked(n) == [reg_type |-> "holding", address |-> Num(n), readonly |-> TRUE]
InputPart(n) == [reg_type |-> "input", address |-> Num(n)]
Group(name, parts) == [name |-> name, consists_of |-> parts]
With(object, member, value) == object @@ (member :> value)

Samples ==
  { Coil("c", 0), Coil("d", 1), With(Coil("w", 2), "type", "wo-switch"),
    With(Input("i", 101), "on_value", Num(101)), With(Input("i", 5), "max", Word),
    Group("rgb", <<Holding(1), Holding(2)>>), Group("rgb", <<Holding(1), Locked(3)>>),
    Group("mix", <<Holding(5), InputPart(4)>>), Group("low", <<Locked(3), InputPart(4)>>), Group("none", <<>>),
    With(Group("rgb", <<Holding(5), Holding(6)>>), "on_value", Num(1)),
    With(Group("w", <<Holding(7), Holding(8)>>), "type", "wo-switch"),
    [name |-> "x", reg_type |-> "relay", address |-> Num(0)],
    [name |-> "y", reg_type |-> "coil", address |-> Word] }

Item(address, value) == [address |-> Num(address), value |-> HexStr(value)]
Setups == { <<>>, <<Item(1, 7)>>, <<Item(2, 8), Item(1, 9)>>,
            <<[address |-> Num(1)]>> }

File(type, device) == [kind |-> "object", device_type |-> type, device |-> device]
SampleFiles ==
  << [kind |-> "unreadable"], File("relay", [channels |-> <<>>]), [kind |-> "broken"],
     File("relay", [name |-> "relay", id |-> <<"relay">>, channels |-> <<Coil("c", 0)>>,
                    setup |-> <<Item(1, 5)>>]),
     [kind |-> "object"], File("plain", [channels |-> <<Coil("c", 0)>>]) >>

Device(slave, channels) == [slave_id |-> Num(slave), channels |-> channels]
Port(devices) == [path |-> "/dev/tty", devices |-> devices]
Root(portlist) == [ports |-> portlist]

Typed(device, type) == IF type = "" THEN device ELSE With(device, "device_type", type)
Named(device, id) == IF id = <<>> THEN device ELSE With(device, "id", id)

ChannelRoots ==
  { Root(<<Port(<<Typed(Device(1, <<c, d>>), type)>>)>>) :
      c \in Samples, d \in Samples, type \in {"", "relay"} }

SomeDevices ==
  { Named(Typed(Device(slave, <<Coil("d", 9)>>), type), id) :
      slave \in {1, 2}, type \in {"", "relay", "plain", "unknown"},
      id \in {<<>>, <<"mine">>, <<"relay", 2>>} }
    \cup { With(Device(1, <<Coil("d", 9)>>), "enabled", FALSE) }

DeviceRoots ==
  { Root(<<Port(<<d, e>>)>>) : d \in SomeDevices, e \in SomeDevices }
    \cup { Root(<<Port(<<d>>), Port(<<e>>)>>) : d \in SomeDevices, e \in SomeDevices }

SetupRoots ==
  { Root(<<Port(<<With(Typed(Device(1, <<>>), type), "setup", setup)>>)>>) :
      type \in {"", "relay"}, setup \in Setups }

PortRoots ==
  LET port == Port(<<Device(1, <<Coil("c", 0)>>)>>) IN
    { Root(<<p>>) : p \in
        { With(port, "parity", "E"), With(port, "data_bits", Num(7)),
          With(With(port, "parity", "E"), "data_bits", Num(7)),
          With(port, "enabled", FALSE), With(port, "baud_rate", Word),
          [devices |-> <<>>] } }
      \cup {[debug |-> TRUE]}

SampleRoots == ChannelRoots \cup DeviceRoots \cup SetupRoots \cup PortRoots

VARIABLES root, ports

INSTANCE ModbusConfig WITH Roots <- SampleRoots, Files <- SampleFiles
=============================================================================
