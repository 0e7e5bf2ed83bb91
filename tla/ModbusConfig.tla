---------------------------- MODULE ModbusConfig -----------------------------
(***************************************************************************)
(* What wb-homa-modbus makes of its configuration: TConfigParser, and the  *)
(* use TModbusPort makes of the result when it starts and when a command   *)
(* comes.                                                                  *)
(*                                                                         *)
(* A JSON object is a record, whose domain are the members it has; a       *)
(* number or a numeric string is [kind, n], see GetInt; an identifier is   *)
(* the sequence of the parts it is put together from; no name has a slash. *)
(* An exception ends the program, so everything that throws is Refused.    *)
(***************************************************************************)
EXTENDS Integers, Sequences, SequencesExt, FiniteSets

CONSTANTS
  Roots,   \* the configuration files there may be
  Files,   \* the directory of templates
  Refused

VARIABLES
  root,    \* the configuration file
  ports    \* HandlerConfig, or Refused

cvars == <<root, ports>>

Has(object, member) == member \in DOMAIN object
Get(object, member, default) == IF Has(object, member) THEN object[member] ELSE default

Enabled(object) == Get(object, "enabled", TRUE)

-----------------------------------------------------------------------------
(***************************************************************************)
(* TConfigActionParser: registers, channels, setup items.                  *)
(***************************************************************************)

\* A number, or a string that begins with hexadecimal digits.
GetInt(object, member) ==
  IF Has(object, member) /\ object[member].kind \in {"int", "hex"}
    THEN object[member].n
    ELSE Refused

RegisterTypes == {"coil", "discrete", "holding", "input"}

LoadRegister(slave, data) ==
  LET address == GetInt(data, "address") IN
    IF address = Refused \/ Get(data, "reg_type", "") \notin RegisterTypes
      THEN Refused
      ELSE [slave    |-> slave,
            type     |-> data.reg_type,
            address  |-> address,
            format   |-> IF Get(data, "format", "") \in {"s16", "u8", "s8"}
                           THEN data.format ELSE "u16",
            poll     |-> TRUE,
            readonly |-> Get(data, "readonly", FALSE)]

IsReadOnly(register) == register.type \in {"discrete", "input"} \/ register.readonly

DefaultType(register) == IF register.type \in {"coil", "discrete"} THEN "switch" ELSE "text"

\* Slip: the flags are compared, not what the registers allow.
UniformFlags(registers) ==
  \A i \in DOMAIN registers : registers[i].readonly = registers[1].readonly

Uniform(registers) ==
  \A i \in DOMAIN registers : IsReadOnly(registers[i]) = IsReadOnly(registers[1])

\* A "wo-switch" is a switch that is not polled.
LoadChannel(slave, data, order) ==
  LET parts == IF Has(data, "consists_of") THEN data.consists_of ELSE <<data>>
      registers == [i \in DOMAIN parts |-> LoadRegister(slave, parts[i])]
      type == Get(data, "type", DefaultType(registers[1]))
      on_value == IF Has(data, "on_value") THEN GetInt(data, "on_value") ELSE -1
      max == IF Has(data, "max") THEN GetInt(data, "max") ELSE -1
  IN IF \/ registers = <<>> \/ Refused \in Range(registers)
        \/ ~Uniform(registers)
        \/ Has(data, "on_value") /\ Len(registers) # 1
        \/ Refused \in {on_value, max}
       THEN Refused
       ELSE [name      |-> data.name,
             type      |-> IF type = "wo-switch" THEN "switch" ELSE type,
             order     |-> order,
             on_value  |-> on_value,
             readonly  |-> IsReadOnly(registers[1]),
             registers |-> [i \in DOMAIN registers |->
                              [registers[i] EXCEPT !.poll = type # "wo-switch"]]]

LoadSetupItem(data) ==
  LET address == GetInt(data, "address")
      value == GetInt(data, "value")
  IN IF Refused \in {address, value} THEN Refused
     ELSE [address |-> address, value |-> value]

\* The setup items and channels of data are put behind those the device has.
LoadDeviceVectors(device, data) ==
  LET setup == Get(data, "setup", <<>>)
      items == [i \in DOMAIN setup |-> LoadSetupItem(setup[i])]
      have == Len(device.channels)
      channels == Get(data, "channels", <<>>)
      loaded == [i \in DOMAIN channels |-> LoadChannel(device.slave, channels[i], have + i)]
  IN IF Refused \in Range(items) \cup Range(loaded) THEN Refused
     ELSE [device EXCEPT !.setup = @ \o items, !.channels = @ \o loaded]

-----------------------------------------------------------------------------
(***************************************************************************)
(* TConfigTemplateParser: a directory of templates.                        *)
(***************************************************************************)

\* In the order of the directory; files that cannot be read or parsed are passed
\* over, and of two templates for one type the later is taken.
ParseTemplates(files) ==
  LET typed == {i \in DOMAIN files : files[i].kind = "object" /\ Has(files[i], "device_type")}
      of(type) == {i \in typed : files[i].device_type = type}
  IN IF \E i \in DOMAIN files : files[i].kind = "not an object" THEN Refused
     ELSE [type \in {files[i].device_type : i \in typed} |->
             files[CHOOSE i \in of(type) : \A j \in of(type) : j <= i].device]

-----------------------------------------------------------------------------
(***************************************************************************)
(* TConfigParser: devices, ports, the whole.                               *)
(***************************************************************************)

\* Slip: the identifier of a template is taken as it is.
DeviceIdBare(data, default_id, template, slave) ==
  LET own == Get(data, "id", default_id) IN
    IF own = default_id /\ Has(template, "id") THEN template.id ELSE own

\* That of a template is made distinct by the slave number.
DeviceId(data, default_id, template, slave) ==
  LET own == Get(data, "id", default_id) IN
    IF own = default_id /\ Has(template, "id") THEN Append(template.id, slave) ELSE own

LoadBoth(device, template, data) ==
  LET first == LoadDeviceVectors(device, template) IN
    IF first = Refused THEN Refused ELSE LoadDeviceVectors(first, data)

\* An unknown device_type is passed over, and so is a device that is not enabled.
LoadDevice(data, default_id, templates) ==
  LET slave == GetInt(data, "slave_id")
      known == Has(data, "device_type") /\ Has(templates, data.device_type)
      template == IF known THEN templates[data.device_type] ELSE [none |-> TRUE]
      nameless == known /\ ~Has(template, "name") /\ ~Has(data, "name")
      loaded == LoadBoth([id |-> DeviceId(data, default_id, template, slave),
                          slave |-> slave, setup |-> <<>>, channels |-> <<>>],
                         template, data)
  IN IF ~Enabled(data) THEN <<>>
     ELSE IF slave = Refused \/ nameless \/ loaded = Refused THEN Refused
     ELSE <<loaded>>

CharCode == [N |-> 78, O |-> 79, E |-> 69]
Numbers == {"baud_rate", "data_bits", "stop_bits", "response_timeout_ms", "poll_interval"}

\* The parity is stored in the number of data bits.
LoadPort(data, index, templates) ==
  LET sources == Get(data, "devices", <<>>)
      devices == [i \in DOMAIN sources |->
                    LoadDevice(sources[i], <<"wb-modbus", index, i - 1>>, templates)]
      data_bits == IF Has(data, "data_bits") THEN GetInt(data, "data_bits")
                   ELSE IF Has(data, "parity") THEN CharCode[data.parity] ELSE 8
  IN IF ~Has(data, "path") THEN Refused
     ELSE IF ~Enabled(data) THEN <<>>
     ELSE IF \/ Refused \in Range(devices)
             \/ \E m \in Numbers : Has(data, m) /\ GetInt(data, m) = Refused
       THEN Refused
     ELSE << [parity |-> "N", data_bits |-> data_bits, devices |-> FlattenSeq(devices)] >>

LoadConfig(config, templates) ==
  LET loaded == [i \in DOMAIN config.ports |-> LoadPort(config.ports[i], i - 1, templates)]
  IN IF templates = Refused \/ ~Has(config, "ports") THEN Refused
     ELSE IF Refused \in Range(loaded) THEN Refused
     ELSE FlattenSeq(loaded)

-----------------------------------------------------------------------------
(***************************************************************************)
(* TModbusPort: what it does with its part of the configuration.           *)
(***************************************************************************)

\* The channels of a port, as <<device, channel>>, in the order they are added.
ChannelsOf(port) ==
  FlattenSeq([d \in DOMAIN port.devices |->
    [c \in DOMAIN port.devices[d].channels |->
       <<port.devices[d], port.devices[d].channels[c]>>]])

RegistersOf(port) == FlattenSeq([i \in DOMAIN ChannelsOf(port) |-> ChannelsOf(port)[i][2].registers])
Key(register) == <<register.slave, register.type, register.address>>

\* TModbusClient refuses duplicate registers, and to connect without any.
Starts ==
  \A p \in DOMAIN ports :
    LET registers == RegistersOf(ports[p]) IN
      /\ registers # <<>>
      /\ \A i, j \in DOMAIN registers : Key(registers[i]) = Key(registers[j]) => i = j

Topic(entry) == <<entry[1].id, entry[2].name>>

\* PubSubSetup, where a device without an identifier has the one of the client.
Subscriptions(port) ==
  { <<IF entry[1].id = <<>> THEN <<"wb-modbus">> ELSE entry[1].id, entry[2].name>> :
      entry \in Range(ChannelsOf(port)) }

\* HandleMessage: the first device with the identifier, then the last channel
\* added under the two names; <<>> when the port does not know them.
Handler(port, topic) ==
  LET entries == ChannelsOf(port)
      named == {i \in DOMAIN entries : Topic(entries[i]) = topic}
  IN IF named = {} THEN <<>> ELSE entries[CHOOSE i \in named : \A j \in named : j <= i]

\* OnMessage: the first port that handles it.
Route(topic) ==
  LET handling == {p \in DOMAIN ports : Handler(ports[p], topic) # <<>>}
      first == CHOOSE p \in handling : \A q \in handling : p <= q
  IN IF handling = {} THEN <<>> ELSE Append(Handler(ports[first], topic), first)

-----------------------------------------------------------------------------
\* The arrays of the files are arrays, and identifiers of templates are sequences.
IsArray(s) == s \in Seq(Range(s))
DeviceArrays(data) ==
  LET channels == Get(data, "channels", <<>>) IN
    /\ IsArray(channels)
    /\ \A i \in DOMAIN channels : IsArray(Get(channels[i], "consists_of", <<>>))
PortArrays(data) ==
  LET devices == Get(data, "devices", <<>>) IN
    /\ IsArray(devices)
    /\ \A i \in DOMAIN devices : DeviceArrays(devices[i])

FilesAreJson ==
  /\ IsArray(Files)
  /\ \A i \in DOMAIN Files :
       Files[i].kind = "object" /\ Has(Files[i], "device_type") =>
         /\ DeviceArrays(Files[i].device)
         /\ IsArray(Get(Files[i].device, "id", <<>>))
  /\ \A config \in Roots : Has(config, "ports") =>
       IsArray(config.ports) /\ \A i \in DOMAIN config.ports : PortArrays(config.ports[i])

Init ==
  /\ root \in Roots
  /\ ports = <<>>

\* Every start of the driver.
Load ==
  /\ ports' = LoadConfig(root, ParseTemplates(Files))
  /\ UNCHANGED root

Next == Load

Spec == Init /\ [][Next]_cvars

-----------------------------------------------------------------------------
Loaded == ports \notin {<<>>, Refused}

AsAnnounced(channel, order) ==
  \A i \in DOMAIN channel.registers :
    LET register == channel.registers[i] IN
      /\ channel.readonly = IsReadOnly(register)
      /\ register.poll = channel.registers[1].poll
      /\ channel.on_value >= 0 => i = 1
      /\ channel.order = order

\* What a channel announces holds for each of its registers: without
\* meta/readonly every one of them can be written, a switch that is write-only is
\* not polled in part, and an on_value compares one register.  The orders of a
\* device count its channels, the template's and its own.
ChannelsAreUniform ==
  Loaded =>
    \A p \in DOMAIN ports : \A d \in DOMAIN ports[p].devices :
      LET channels == ports[p].devices[d].channels IN
        \A c \in DOMAIN channels : AsAnnounced(channels[c], c)

\* The devices that are enabled, by the place of their port and in it.
Source(place) == root.ports[place[1]].devices[place[2]]
Places ==
  {place \in UNION { {p} \X DOMAIN Get(root.ports[p], "devices", <<>>) :
                     p \in {q \in DOMAIN root.ports : Enabled(root.ports[q])} } :
     Enabled(Source(place))}

\* The identifiers that are given, and those that are made, of a place or of the
\* identifier of a template and a slave number.
Templates == ParseTemplates(Files)
HasTemplate(data) ==
  Has(data, "device_type") /\ Has(Templates, data.device_type)
    /\ Has(Templates[data.device_type], "id")

Given == {Source(place).id : place \in {x \in Places : Has(Source(x), "id")}}
MadeOfPlace == {<<"wb-modbus", place[1] - 1, place[2] - 1>> : place \in Places}
MadeOfTemplate ==
  {Append(Templates[Source(place).device_type].id, GetInt(Source(place), "slave_id")) :
     place \in {x \in Places : HasTemplate(Source(x))}}

\* Two devices of one type at one slave number, or with one identifier.
Clash(d, e) ==
  \/ Has(d, "id") /\ Has(e, "id") /\ d.id = e.id
  \/ /\ ~Has(d, "id") /\ ~Has(e, "id")
     /\ Has(d, "device_type") /\ Has(e, "device_type") /\ d.device_type = e.device_type
     /\ GetInt(d, "slave_id") = GetInt(e, "slave_id")

\* Of two kinds no two identifiers are the same, and no two templates have one.
KindsApart ==
  /\ Given \cap (MadeOfPlace \cup MadeOfTemplate \cup {<<>>}) = {}
  /\ MadeOfPlace \cap MadeOfTemplate = {}
  /\ \A t, u \in DOMAIN Templates :
       Has(Templates[t], "id") /\ Has(Templates[u], "id") /\ Templates[t].id = Templates[u].id
         => t = u

NamesApart ==
  \A p \in DOMAIN ports : \A d \in DOMAIN ports[p].devices :
    LET channels == ports[p].devices[d].channels IN
      \A c, e \in DOMAIN channels : channels[c].name = channels[e].name => c = e

NoClash ==
  /\ \A x, y \in Places : x # y => ~Clash(Source(x), Source(y))
  /\ KindsApart
  /\ NamesApart

\* A command to the topic of a channel is subscribed to, and goes to the port, device
\* and registers whose value is retained there, however many ports there are and
\* wherever the identifiers come from; unless two devices are given one identifier, or
\* are of one type at one slave number of different ports, or a device is given an
\* empty one or the very one that is made for another.
CommandsReachPublisher ==
  Loaded /\ Starts /\ NoClash =>
    \A p \in DOMAIN ports : \A i \in DOMAIN ChannelsOf(ports[p]) :
      LET entry == ChannelsOf(ports[p])[i] IN
        /\ Topic(entry) \in Subscriptions(ports[p])
        /\ Route(Topic(entry)) = Append(entry, p)

\* "parity - N, O or E" (README.md): the port is opened with the parity configured.
ParityIsKept ==
  Loaded =>
    \A p \in DOMAIN ports :
      Len(ports) = Len(root.ports) =>
        ports[p].parity = Get(root.ports[p], "parity", "N")
=============================================================================
