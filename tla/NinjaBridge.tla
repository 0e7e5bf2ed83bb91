---------------------------- MODULE NinjaBridge -----------------------------
(***************************************************************************)
(* wb-homa-ninja-bridge: the controls of the local broker shown in a       *)
(* cloud, and the commands of the cloud given to them.                     *)
(*                                                                         *)
(* The main thread activates the block, makes the cloud handler and then   *)
(* serves the local connection; the cloud handler's thread greets the      *)
(* cloud on each connection with all controls known so far and serves its  *)
(* commands.  Both use ControlsCache, without a lock: every insertion into *)
(* it, and every read and write of a field that the other thread may write *)
(* or read, is a step of its own.  A field is read and written whole.      *)
(* Cloud-bound and local publications reach their broker at once or not at *)
(* all: what is lost on the way to the cloud is sent again by the next     *)
(* greeting.                                                               *)
(***************************************************************************)
EXTENDS Integers, Sequences, SequencesExt

CONSTANTS
  NumControls,   \* the controls of all devices, in the order of the cache
  Values,        \* Values[c]: what control c may be set to or measure
  Unexported,    \* controls with a retained meta/export "0"
  Commanded,     \* controls that take commands
  Old,           \* controls that are there before the bridge
  MaxOutages,    \* bound on local outages and restarts
  MaxInbox,      \* bound on what waits for the bridge when a device publishes
  Empty,         \* the empty string, which is the Value of a new control
  None

Controls == 1..NumControls

ASSUME ControlsAssumption ==
  /\ NumControls \in Nat \ {0}
  /\ Unexported \subseteq Controls /\ Commanded \subseteq Controls
  /\ Old \subseteq Controls
  /\ \A c \in Controls : None \notin Values[c] /\ Empty \notin Values[c]
  /\ Empty # None
  /\ MaxInbox \in Nat /\ MaxOutages \in Nat

VARIABLES
  pc,         \* where the main thread is
  token,      \* the token file: "none", "empty" or "token"
  held,       \* TMQTTNinjaBridgeHandler::Token: "empty" or "token"
  given,      \* history: what the cloud gave this process, "none" if it did not
  handler,    \* NinjaCloudMqttHandler: "none", "constructed", "observed" (Init)
  hand,       \* the message OnMessage has inserted the control of, or None
  stored,     \* the control OnMessage has stored the value of, or None
  reading,    \* the Value it has read of it for the cloud, or None
  known,      \* keys of ControlsCache
  typed,      \* its controls with a supported Type
  disabled,   \* its controls with Export == false
  val,        \* val[c]: Value
  cloudLink,  \* "none", "down", "deaf": not dispatched, "greeting", "up"
  pos,        \* the control the iteration of OnCloudConnect is at
  at,         \* what it does next: "next" control, read "type", read "value", "send"
  picked,     \* the Value it has read of the control it is at, or None
  torn,       \* a control was inserted during the iteration
  command,    \* the control OnCloudControlUpdate has stored, or None
  local,      \* the local connection: "down" until it is accepted, or "up"
  subs,       \* how many of the three subscriptions the broker has
  inbox,      \* messages for the bridge (external)
  status,     \* the retained status (external)
  device,     \* device[c]: the retained value of c, None before it appears
  cloud,      \* cloud[c]: what the cloud was told last of c
  spoilt,     \* history: controls the race or a lost command took effect on
  blind,      \* history: controls replayed with the cloud handler at work
  raced,      \* history: Export of pos was read between its insertion and its flag
  outages,    \* how many local outages and restarts there were
  late        \* history: the local connection came after the activation

mainVars == <<pc, token, held, given, handler>>
handVars == <<hand, stored, reading>>
cacheVars == <<known, typed, disabled, val>>
greetVars == <<pos, at, picked, torn, raced>>
localVars == <<local, subs, inbox>>
vars == <<mainVars, handVars, cacheVars, cloudLink, greetVars, command, localVars, status,
          device, cloud, spoilt, blind, late, outages>>

AnyValue == (UNION {Values[c] : c \in Controls}) \cup {None, Empty}

\* Messages for the bridge.
Message == [kind : {"value", "type", "export"}, control : Controls, value : AnyValue]
ValueOf(c, v) == [kind |-> "value", control |-> c, value |-> v]
TypeOf(c) == [kind |-> "type", control |-> c, value |-> None]
ExportOf(c) == [kind |-> "export", control |-> c, value |-> None]

ASSUME NoneAssumption == None \notin Message /\ None \notin Controls

Init ==
  /\ pc = "LoopFor"
  /\ token \in {"none", "token"}
  /\ held = "empty" /\ given = "none"
  /\ handler = "none"
  /\ hand = None /\ stored = None /\ reading = None
  /\ known = {} /\ typed = {} /\ disabled = {}
  /\ val = [c \in Controls |-> Empty]
  /\ cloudLink = "none"
  /\ pos = 0 /\ at = "next" /\ picked = None /\ torn = FALSE /\ raced = FALSE
  /\ command = None
  /\ local = "down"
  /\ subs = 0
  /\ inbox = <<>>
  /\ status = "none"
  /\ device \in [Controls -> AnyValue]
  /\ \A c \in Controls : IF c \in Old THEN device[c] \in Values[c] ELSE device[c] = None
  /\ cloud = [c \in Controls |-> None]
  /\ spoilt = {} /\ blind = {} /\ late = FALSE /\ outages = 0

\* A publication to the local broker.
PublishStatus(s) == status' = IF local = "down" THEN status ELSE s

Appeared == {c \in Controls : device[c] # None}

\* The broker forwards what the bridge is subscribed to.
Forwarded(m) ==
  IF \/ m.kind = "value" /\ subs >= 1
     \/ m.kind = "type" /\ subs >= 2
     \/ m.kind = "export" /\ subs = 3
    THEN <<m>> ELSE <<>>

\* OnMessage is over.
Idle == hand = None /\ stored = None

-----------------------------------------------------------------------------
(***************************************************************************)
(* The main thread: start, activation, the cloud handler.  A token file    *)
(* that cannot be opened for writing ends the process.                     *)
(***************************************************************************)

\* LoopFor(2000): whatever the local connection has got to.  What is replayed
\* from now on may come while the cloud is greeted.
LoopForEnds ==
  /\ pc = "LoopFor" /\ Idle
  /\ pc' = "TryReadToken"
  /\ blind' = IF subs = 3 /\ inbox = <<>> THEN blind ELSE blind \cup Appeared
  /\ UNCHANGED <<token, held, given, handler, handVars, cacheVars, cloudLink, greetVars,
                 command, localVars, status, device, cloud, spoilt, late, outages>>

\* Slip: an empty token file is good enough.
TryReadTokenIfOpen ==
  /\ pc = "TryReadToken"
  /\ held' = IF token = "token" THEN "token" ELSE "empty"
  /\ pc' = IF token # "none" THEN "Activated" ELSE "TryActivateBlock"
  /\ UNCHANGED <<token, given, handler, handVars, cacheVars, cloudLink, greetVars, command,
                 localVars, status, device, cloud, spoilt, blind, late, outages>>

TryReadToken ==
  /\ pc = "TryReadToken"
  /\ held' = IF token = "token" THEN "token" ELSE "empty"
  /\ pc' = IF held' # "empty" THEN "Activated" ELSE "TryActivateBlock"
  /\ UNCHANGED <<token, given, handler, handVars, cacheVars, cloudLink, greetVars, command,
                 localVars, status, device, cloud, spoilt, blind, late, outages>>

\* Repeated until the cloud answers with a "token", which may be empty or null; local
\* messages have to wait.
TryActivateBlock ==
  /\ pc = "TryActivateBlock"
  /\ \E answer \in {"empty", "token"} : held' = answer /\ given' = answer
  /\ pc' = "WriteToken"
  /\ UNCHANGED <<token, handler, handVars, cacheVars, cloudLink, greetVars, command,
                 localVars, status, device, cloud, spoilt, blind, late, outages>>

\* Opening the file empties it; nobody looks at whether the writing succeeds.
WriteToken ==
  /\ pc = "WriteToken"
  /\ IF token # "empty"
       THEN token' = "empty" /\ UNCHANGED pc
       ELSE token' \in {held, "empty"} /\ pc' = "Activated"
  /\ UNCHANGED <<held, given, handler, handVars, cacheVars, cloudLink, greetVars, command,
                 localVars, status, device, cloud, spoilt, blind, late, outages>>

ConnectToCloud ==
  /\ pc = "Activated"
  /\ PublishStatus("Activated")
  /\ handler' = "constructed"
  /\ cloudLink' = "down"
  /\ pc' = "Init"
  /\ UNCHANGED <<token, held, given, handVars, cacheVars, greetVars, command, localVars,
                 device, cloud, spoilt, blind, late, outages>>

\* Only now are the callbacks of the cloud connection dispatched.
InitHandler ==
  /\ pc = "Init"
  /\ handler' = "observed"
  /\ pc' = "LoopForever"
  /\ UNCHANGED <<token, held, given, handVars, cacheVars, cloudLink, greetVars, command,
                 localVars, status, device, cloud, spoilt, blind, late, outages>>

-----------------------------------------------------------------------------
(***************************************************************************)
(* The main thread: the local connection.                                  *)
(***************************************************************************)

Looping == pc \in {"LoopFor", "LoopForever"} /\ Idle

\* Slip: a connection that is accepted says nothing of the status.
OnConnectSilent ==
  /\ Looping /\ local = "down"
  /\ local' = "up"
  /\ late' = (late \/ pc = "LoopForever")
  /\ UNCHANGED <<mainVars, handVars, cacheVars, cloudLink, greetVars, command, subs, inbox,
                 status, device, cloud, spoilt, blind, outages>>

\* The connection of the constructor or a later one, accepted.
OnConnect ==
  /\ Looping /\ local = "down"
  /\ local' = "up"
  /\ status' = "Waiting for activation"
  /\ late' = (late \/ pc = "LoopForever")
  /\ UNCHANGED <<mainVars, handVars, cacheVars, cloudLink, greetVars, command, subs, inbox,
                 device, cloud, spoilt, blind, outages>>

\* A control is inserted, exported and without a type and a value, into the map the
\* cloud thread iterates over; OnMessage goes on with the message in its hand.
GetOrAddControlDesc ==
  /\ Looping /\ inbox # <<>>
  /\ Head(inbox).control \notin known
  /\ known' = known \cup {Head(inbox).control}
  /\ torn' = (torn \/ cloudLink = "greeting")
  /\ hand' = Head(inbox)
  /\ inbox' = Tail(inbox)
  /\ UNCHANGED <<mainVars, stored, reading, typed, disabled, val, cloudLink, pos, at, picked,
                 raced, command, local, subs, status, device, cloud, spoilt, blind, late,
                 outages>>

\* Slip: the control is not inserted.
FindsAny == hand # None \/ (Looping /\ inbox # <<>>)

\* OnMessage has the control of its message: it has inserted it, or has found it.
Finds == hand # None \/ (Looping /\ inbox # <<>> /\ Head(inbox).control \in known)

Handled == IF hand # None THEN hand ELSE Head(inbox)

HandsOver ==
  /\ hand' = None
  /\ inbox' = IF hand # None THEN inbox ELSE Tail(inbox)

OnType ==
  /\ Finds /\ Handled.kind = "type"
  /\ typed' = typed \cup {Handled.control}
  /\ HandsOver
  /\ UNCHANGED <<mainVars, stored, reading, known, disabled, val, cloudLink, greetVars,
                 command, local, subs, status, device, cloud, spoilt, blind, late, outages>>

OnExport ==
  /\ Finds /\ Handled.kind = "export"
  /\ disabled' = disabled \cup {Handled.control}
  /\ HandsOver
  /\ UNCHANGED <<mainVars, stored, reading, known, typed, val, cloudLink, greetVars,
                 command, local, subs, status, device, cloud, spoilt, blind, late, outages>>

OnValue ==
  /\ Finds /\ Handled.kind = "value"
  /\ val' = [val EXCEPT ![Handled.control] = Handled.value]
  /\ stored' = Handled.control
  /\ HandsOver
  /\ UNCHANGED <<mainVars, reading, known, typed, disabled, cloudLink, greetVars, command,
                 local, subs, status, device, cloud, spoilt, blind, late, outages>>

\* Slip: the export flag is not looked at.
ExportedAnyway(c) == TRUE

\* SendDeviceDataToCloud looks at Export, and SendDeviceData at Type.
Exported(c) == c \notin disabled
Supported(c) == c \in typed

\* What is published while the connection is lost is sent again by the next greeting;
\* a value that is no longer the one in the cache may undo a newer one.
SendDeviceData(c, v) ==
  /\ cloud' = IF cloudLink \in {"greeting", "up", "deaf"} THEN [cloud EXCEPT ![c] = v] ELSE cloud
  /\ spoilt' = IF v = val[c] THEN spoilt \ {c} ELSE spoilt \cup {c}

\* The end of OnMessage: Export, the handler and Type, which are written in this
\* thread only, and Value, which a command may change at any time.
ReadStored ==
  /\ stored # None /\ reading = None
  /\ IF Exported(stored) /\ handler # "none" /\ Supported(stored)
       THEN reading' = val[stored] /\ UNCHANGED stored
       ELSE stored' = None /\ UNCHANGED reading
  /\ UNCHANGED <<mainVars, hand, cacheVars, cloudLink, greetVars, command, localVars, status,
                 device, cloud, spoilt, blind, late, outages>>

SendStored ==
  /\ reading # None
  /\ SendDeviceData(stored, reading)
  /\ stored' = None /\ reading' = None
  /\ UNCHANGED <<mainVars, hand, cacheVars, cloudLink, greetVars, command, localVars, status,
                 device, blind, late, outages>>

-----------------------------------------------------------------------------
(***************************************************************************)
(* The cloud thread.                                                       *)
(***************************************************************************)

\* on_connect has nobody to tell: OnCloudConnect is not called.
ConnackBeforeInit ==
  /\ cloudLink = "down" /\ handler = "constructed"
  /\ cloudLink' = "deaf"
  /\ UNCHANGED <<mainVars, handVars, cacheVars, greetVars, command, localVars, status, device,
                 cloud, spoilt, blind, late, outages>>

\* Slip: the status is published before the activation only.
OnCloudConnectSilent ==
  /\ cloudLink = "down" /\ handler = "observed" /\ command = None
  /\ cloudLink' = "greeting"
  /\ pos' = 0
  /\ torn' = FALSE
  /\ UNCHANGED <<mainVars, handVars, cacheVars, at, picked, raced, command, localVars, status,
                 device, cloud, spoilt, blind, late, outages>>

OnCloudConnect ==
  /\ cloudLink = "down" /\ handler = "observed" /\ command = None
  /\ cloudLink' = "greeting"
  /\ pos' = 0
  /\ torn' = FALSE
  /\ PublishStatus("Connected")
  /\ UNCHANGED <<mainVars, handVars, cacheVars, at, picked, raced, command, localVars, device,
                 cloud, spoilt, blind, late, outages>>

\* A connection that the cloud refuses; libmosquitto tries again.
OnCloudRefuses ==
  /\ cloudLink = "down" /\ handler = "observed" /\ command = None
  /\ PublishStatus("Connection error")
  /\ UNCHANGED <<mainVars, handVars, cacheVars, cloudLink, greetVars, command, localVars,
                 device, cloud, spoilt, blind, late, outages>>

\* Slip: the iteration starts behind the first control.
AheadButFirst == {c \in known : c > pos + 1}

\* The keys the iteration has not come to.
Ahead == {c \in known : c > pos}

\* A control has been inserted, and its flag is still in the hand of OnMessage.
FlagInHand(c) == hand # None /\ hand.kind = "export" /\ hand.control = c

\* The next control: its Export is read, which may be too early.
GreetExport ==
  /\ cloudLink = "greeting" /\ at = "next"
  /\ \E c \in Ahead :
       /\ \A d \in Ahead : c <= d
       /\ pos' = c
       /\ at' = IF Exported(c) THEN "type" ELSE "next"
       /\ raced' = FlagInHand(c)
  /\ UNCHANGED <<mainVars, handVars, cacheVars, cloudLink, picked, torn, command, localVars,
                 status, device, cloud, spoilt, blind, late, outages>>

GreetType ==
  /\ at = "type"
  /\ at' = IF Supported(pos) THEN "value" ELSE "next"
  /\ UNCHANGED <<mainVars, handVars, cacheVars, cloudLink, pos, picked, torn, raced, command,
                 localVars, status, device, cloud, spoilt, blind, late, outages>>

GreetValue ==
  /\ at = "value"
  /\ picked' = val[pos]
  /\ at' = "send"
  /\ UNCHANGED <<mainVars, handVars, cacheVars, cloudLink, pos, torn, raced, command,
                 localVars, status, device, cloud, spoilt, blind, late, outages>>

\* The other thread may have stored and sent another value since.
GreetSend ==
  /\ at = "send"
  /\ SendDeviceData(pos, picked)
  /\ picked' = None
  /\ at' = "next"
  /\ UNCHANGED <<mainVars, handVars, cacheVars, cloudLink, pos, torn, raced, command,
                 localVars, status, device, blind, late, outages>>

\* An insertion at the same time may hide some of what lies ahead.
GreetLosesWay ==
  /\ cloudLink = "greeting" /\ at = "next" /\ torn
  /\ \E c \in Ahead :
       /\ spoilt' = spoilt \cup {d \in Ahead : d <= c}
       /\ pos' = c
  /\ UNCHANGED <<mainVars, handVars, cacheVars, cloudLink, at, picked, torn, raced, command,
                 localVars, status, device, cloud, blind, late, outages>>

SubscribeCommands ==
  /\ cloudLink = "greeting" /\ at = "next" /\ Ahead = {}
  /\ cloudLink' = "up"
  /\ pos' = 0
  /\ torn' = FALSE /\ raced' = FALSE
  /\ UNCHANGED <<mainVars, handVars, cacheVars, at, picked, command, localVars, status,
                 device, cloud, spoilt, blind, late, outages>>

\* OnCloudControlUpdate; commands for unknown controls are dropped.
OnCloudCommand(c, v) ==
  /\ cloudLink = "up" /\ command = None
  /\ c \in known \cap Commanded
  /\ Len(inbox) <= MaxInbox
  /\ val' = [val EXCEPT ![c] = v]
  /\ command' = c
  /\ UNCHANGED <<mainVars, handVars, known, typed, disabled, cloudLink, greetVars, localVars,
                 status, device, cloud, spoilt, blind, late, outages>>

\* The value is taken from the cache, where it may be another one by now; the
\* device obeys and publishes its value.
PublishCommand ==
  /\ command # None
  /\ IF local = "down"
       THEN spoilt' = spoilt \cup {command} /\ UNCHANGED <<device, inbox>>
       ELSE /\ device' = [device EXCEPT ![command] = val[command]]
            /\ inbox' = inbox \o Forwarded(ValueOf(command, val[command]))
            /\ UNCHANGED spoilt
  /\ command' = None
  /\ UNCHANGED <<mainVars, handVars, cacheVars, cloudLink, greetVars, local, subs, status,
                 cloud, blind, late, outages>>

-----------------------------------------------------------------------------
(***************************************************************************)
(* The brokers, the devices, and what may happen.                          *)
(***************************************************************************)

\* The retained messages of the n-th subscription: values, types, export flags.
Replay(n) ==
  LET all == SetToSeq(Appeared)
      closed == SetToSeq(Appeared \cap Unexported)
  IN CASE n = 1 -> [i \in DOMAIN all |-> ValueOf(all[i], device[all[i]])]
       [] n = 2 -> [i \in DOMAIN all |-> TypeOf(all[i])]
       [] n = 3 -> [i \in DOMAIN closed |-> ExportOf(closed[i])]

\* The broker takes the next of the bridge's subscriptions.
BrokerSubscribes ==
  /\ local = "up" /\ subs < 3
  /\ subs' = subs + 1
  /\ inbox' = inbox \o Replay(subs + 1)
  /\ blind' = IF pc # "LoopFor" THEN blind \cup (Appeared \ known) ELSE blind
  /\ UNCHANGED <<mainVars, handVars, cacheVars, cloudLink, greetVars, command, local, status,
                 device, cloud, spoilt, late, outages>>

\* A new control: its driver publishes the type and the value, after whoever has
\* disabled its export.
Appears(c, v) ==
  /\ device[c] = None
  /\ Len(inbox) <= MaxInbox
  /\ device' = [device EXCEPT ![c] = v]
  /\ inbox' = inbox \o (IF c \in Unexported THEN Forwarded(ExportOf(c)) ELSE <<>>)
                    \o Forwarded(TypeOf(c)) \o Forwarded(ValueOf(c, v))
  /\ blind' = IF subs < 3 THEN blind \cup {c} ELSE blind
  /\ UNCHANGED <<mainVars, handVars, cacheVars, cloudLink, greetVars, command, local, subs,
                 status, cloud, spoilt, late, outages>>

Measures(c, v) ==
  /\ device[c] # None /\ device[c] # v
  /\ Len(inbox) <= MaxInbox
  /\ device' = [device EXCEPT ![c] = v]
  /\ inbox' = inbox \o Forwarded(ValueOf(c, v))
  /\ UNCHANGED <<mainVars, handVars, cacheVars, cloudLink, greetVars, command, local, subs,
                 status, cloud, spoilt, blind, late, outages>>

LoseCloud ==
  /\ cloudLink \in {"deaf", "up"} /\ command = None
  /\ cloudLink' = "down"
  /\ UNCHANGED <<mainVars, handVars, cacheVars, greetVars, command, localVars, status,
                 device, cloud, spoilt, blind, late, outages>>

\* A broker that hears nothing while the activation takes its time, too.
LoseLocal ==
  /\ local # "down"
  /\ outages < MaxOutages /\ outages' = outages + 1
  /\ local' = "down"
  /\ subs' = 0
  /\ inbox' = <<>>
  /\ UNCHANGED <<mainVars, handVars, cacheVars, cloudLink, greetVars, command, status, device,
                 cloud, spoilt, blind, late>>

\* The process ends and is started again.
Restart ==
  /\ outages < MaxOutages /\ outages' = outages + 1
  /\ pc' = "LoopFor"
  /\ held' = "empty" /\ given' = "none"
  /\ handler' = "none"
  /\ hand' = None /\ stored' = None /\ reading' = None
  /\ known' = {} /\ typed' = {} /\ disabled' = {}
  /\ val' = [c \in Controls |-> Empty]
  /\ cloudLink' = "none"
  /\ pos' = 0 /\ at' = "next" /\ picked' = None /\ torn' = FALSE /\ raced' = FALSE
  /\ command' = None
  /\ local' = "down"
  /\ subs' = 0
  /\ inbox' = <<>>
  /\ spoilt' = {} /\ blind' = {} /\ late' = FALSE
  /\ UNCHANGED <<token, status, device, cloud>>

MainThread ==
  \/ LoopForEnds \/ TryReadToken \/ TryActivateBlock \/ WriteToken
  \/ ConnectToCloud \/ InitHandler
  \/ OnConnect \/ GetOrAddControlDesc \/ OnType \/ OnExport \/ OnValue
  \/ ReadStored \/ SendStored

Greeting ==
  \/ GreetExport \/ GreetType \/ GreetValue \/ GreetSend \/ SubscribeCommands

CloudCommands == \E c \in Controls : \E v \in Values[c] : OnCloudCommand(c, v)

CloudThread ==
  \/ OnCloudConnect \/ Greeting
  \/ ConnackBeforeInit \/ OnCloudRefuses \/ GreetLosesWay
  \/ PublishCommand
  \/ CloudCommands

Devices ==
  \/ \E c \in Controls : \E v \in Values[c] : Appears(c, v) \/ Measures(c, v)

Disturbance == LoseCloud \/ LoseLocal \/ Restart

Next == MainThread \/ CloudThread \/ BrokerSubscribes \/ Devices \/ Disturbance

Spec == Init /\ [][Next]_vars

\* Both threads run; LoopFor looks at the clock after each message; activation
\* succeeds, and the cloud accepts a token some day.
Fairness ==
  /\ WF_vars(MainThread) /\ SF_vars(LoopForEnds)
  /\ WF_vars(held = "token" /\ OnCloudConnect)
  /\ WF_vars(Greeting) /\ WF_vars(PublishCommand)
  /\ WF_vars(BrokerSubscribes)

LiveSpec == Spec /\ Fairness

-----------------------------------------------------------------------------
(***************************************************************************)
(* Properties.                                                             *)
(***************************************************************************)
TypeOK ==
  /\ pc \in {"LoopFor", "TryReadToken", "TryActivateBlock", "WriteToken",
             "Activated", "Init", "LoopForever"}
  /\ token \in {"none", "empty", "token"} /\ held \in {"empty", "token"}
  /\ given \in {"none", "empty", "token"}
  /\ handler \in {"none", "constructed", "observed"}
  /\ hand \in Message \cup {None} /\ (hand # None => hand.control \in known)
  /\ stored \in known \cup {None} /\ command \in known \cup {None}
  /\ typed \subseteq known /\ disabled \subseteq known /\ known \subseteq Controls
  /\ val \in [Controls -> AnyValue] /\ {c \in Controls : val[c] # Empty} \subseteq known
  /\ reading \in AnyValue /\ (reading # None => stored # None)
  /\ cloudLink \in {"none", "down", "deaf", "greeting", "up"}
  /\ pos \in Controls \cup {0} /\ torn \in BOOLEAN /\ raced \in BOOLEAN
  /\ at \in {"next", "type", "value", "send"} /\ picked \in AnyValue
  /\ at # "next" => cloudLink = "greeting" /\ pos \in known
  /\ picked # None => at = "send"
  /\ local \in {"down", "up"} /\ subs \in 0..3 /\ inbox \in Seq(Message)
  /\ device \in [Controls -> AnyValue]
  /\ cloud \in [Controls -> AnyValue]

\* The cloud is reached with an empty token only by a process the cloud itself gave
\* one to, and such a token does not outlive that process: a file that an ended
\* process or a failed writing left empty counts as none.  A token the cloud did not
\* give to this process is the one in the file.
TokenUsable ==
  handler # "none" =>
    /\ held = "empty" => given = "empty" /\ token = "empty"
    /\ given = "none" => token = "token"

\* "...unless exporting was explicitly disabled": nothing is sent of a control with
\* meta/export "0", unless it was first heard of in a replay that ran into the
\* greeting of the cloud (the export flags are replayed last), or the greeting has
\* just read its Export between its insertion and its flag.
ExportRespected ==
  [][\A c \in Unexported :
       \/ cloud'[c] = cloud[c] \/ c \in blind
       \/ raced /\ c = pos /\ GreetSend]_vars

\* A "Connected" that an earlier process left does not outlive the first contact
\* with the local broker: from then on it says that this process has a cloud
\* handler.
ConnectedIsTrue ==
  status = "Connected" /\ subs > 0 => cloudLink # "none"

\* Once commands cease, the cloud has the value a control has, whatever was lost with the
\* cloud connection: the greeting sends all of it again.  It does not for a control
\* on which the race of the two threads or the loss of a command took effect,
\* for one replayed with the cloud handler at work, when the connection
\* was accepted before Init, or with an empty token, which the cloud need not accept.
CloudFollows ==
  \A c \in Controls \ Unexported :
    \/ []<><<Disturbance \/ CloudCommands \/ device'[c] # device[c]>>_vars
    \/ <>[]\/ cloud[c] = device[c] \/ c \in spoilt \cup blind
           \/ cloudLink = "deaf" \/ given = "empty"

\* The status ends up "Connected", unless the cloud was not greeted or the local
\* connection came after the activation and said "Waiting for activation".
StatusSettles ==
  []<><<Disturbance \/ OnCloudRefuses>>_vars
  \/ <>[](status = "Connected" \/ late \/ cloudLink = "deaf" \/ given = "empty")
=============================================================================
