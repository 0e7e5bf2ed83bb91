------------------------- MODULE NinjaBridge_proofs -------------------------
(***************************************************************************)
(* Theorems about the Ninja bridge: what holds whatever the controls, the  *)
(* interleaving of the two threads and the outages.                        *)
(***************************************************************************)
EXTENDS NinjaBridge, FiniteSetTheorems, SequenceTheorems, TLAPS

-----------------------------------------------------------------------------
(***************************************************************************)
(* The token.  A handler is made only behind "Activated", and that is      *)
(* reached with a token that was read, or with what the cloud gave.        *)
(***************************************************************************)

TokenInv ==
  /\ pc \in {"LoopFor", "TryReadToken", "TryActivateBlock"} => given = "none"
  /\ pc = "WriteToken" => given = held /\ held \in {"empty", "token"}
  /\ pc \in {"Activated", "Init", "LoopForever"} =>
       /\ held = "empty" => given = "empty" /\ token = "empty"
       /\ given = "none" => token = "token"
  /\ handler # "none" => pc \in {"Init", "LoopForever"}

LEMMA TokenInit == Init => TokenInv
BY DEF Init, TokenInv

LEMMA TokenStep == TokenInv /\ [Next]_vars => TokenInv'
<1> SUFFICES ASSUME TokenInv, [Next]_vars PROVE TokenInv'
  OBVIOUS
<1>1. CASE LoopForEnds
  BY <1>1 DEF TokenInv, LoopForEnds
<1>2. CASE TryReadToken
  BY <1>2 DEF TokenInv, TryReadToken
<1>3. CASE TryActivateBlock
  BY <1>3 DEF TokenInv, TryActivateBlock
<1>4. CASE WriteToken
  BY <1>4 DEF TokenInv, WriteToken
<1>5. CASE ConnectToCloud
  BY <1>5 DEF TokenInv, ConnectToCloud
<1>6. CASE InitHandler
  BY <1>6 DEF TokenInv, InitHandler
<1>7. CASE Restart
  BY <1>7 DEF TokenInv, Restart
<1>8. CASE UNCHANGED mainVars
  BY <1>8 DEF TokenInv, mainVars
<1>9. ASSUME \/ OnConnect \/ GetOrAddControlDesc \/ OnType \/ OnExport \/ OnValue
             \/ ReadStored \/ SendStored
      PROVE  UNCHANGED mainVars
  BY <1>9 DEF OnConnect, GetOrAddControlDesc, OnType, OnExport, OnValue, ReadStored, SendStored
<1>10. ASSUME CloudThread PROVE UNCHANGED mainVars
  BY <1>10 DEF CloudThread, OnCloudConnect, Greeting, GreetExport, GreetType, GreetValue,
               GreetSend, SubscribeCommands, ConnackBeforeInit, OnCloudRefuses, GreetLosesWay, PublishCommand,
               CloudCommands, OnCloudCommand
<1>11. ASSUME BrokerSubscribes \/ Devices \/ LoseCloud \/ LoseLocal PROVE UNCHANGED mainVars
  BY <1>11 DEF BrokerSubscribes, Devices, Appears, Measures, LoseCloud, LoseLocal
<1>12. CASE UNCHANGED vars
  BY <1>12, <1>8 DEF vars
<1>13. QED
  BY <1>1, <1>2, <1>3, <1>4, <1>5, <1>6, <1>7, <1>8, <1>9, <1>10, <1>11, <1>12
     DEF Next, MainThread, Disturbance

\* Whatever the cloud answers and the disk does (TryActivateBlock, WriteToken), and
\* wherever a process ends, an empty token is used by a process the cloud gave it to and
\* by no other (TryReadToken).
THEOREM TokenIsUsable == Spec => []TokenUsable
<1>1. TokenInv => TokenUsable
  BY DEF TokenInv, TokenUsable
<1>2. QED
  BY TokenInit, TokenStep, <1>1, PTL DEF Spec

-----------------------------------------------------------------------------
(***************************************************************************)
(* The status.  A process takes away what the last one left when its local *)
(* connection is accepted, which is before any subscription.               *)
(***************************************************************************)

StatusInv ==
  /\ local \in {"down", "up"} /\ subs \in Nat
  /\ subs > 0 => local = "up"
  /\ local = "up" /\ status = "Connected" => cloudLink # "none"

LEMMA StatusInit == Init => StatusInv
BY DEF Init, StatusInv

LEMMA StatusStep == StatusInv /\ [Next]_vars => StatusInv'
<1> SUFFICES ASSUME StatusInv, [Next]_vars PROVE StatusInv'
  OBVIOUS
<1>1. CASE ConnectToCloud
  BY <1>1 DEF StatusInv, ConnectToCloud, PublishStatus, localVars
<1>2. CASE OnConnect
  BY <1>2 DEF StatusInv, OnConnect
<1>3. CASE OnCloudConnect
  BY <1>3 DEF StatusInv, OnCloudConnect, localVars
<1>4. CASE OnCloudRefuses
  BY <1>4 DEF StatusInv, OnCloudRefuses, PublishStatus, localVars
<1>5. CASE BrokerSubscribes
  BY <1>5 DEF StatusInv, BrokerSubscribes
<1>6. CASE LoseLocal
  BY <1>6 DEF StatusInv, LoseLocal
<1>7. CASE Restart
  BY <1>7 DEF StatusInv, Restart
<1>8. CASE /\ UNCHANGED <<local, subs, status>>
           /\ cloudLink = cloudLink' \/ cloudLink' # "none"
  BY <1>8 DEF StatusInv
<1>9. ASSUME \/ LoopForEnds \/ TryReadToken \/ TryActivateBlock \/ WriteToken \/ InitHandler
             \/ GetOrAddControlDesc \/ OnType \/ OnExport \/ OnValue \/ ReadStored \/ SendStored
      PROVE  UNCHANGED <<local, subs, status, cloudLink>>
  BY <1>9 DEF LoopForEnds, TryReadToken, TryActivateBlock, WriteToken, InitHandler,
              GetOrAddControlDesc, OnType, OnExport, OnValue, ReadStored, SendStored, localVars
<1>10. ASSUME \/ Greeting \/ ConnackBeforeInit
              \/ GreetLosesWay \/ PublishCommand \/ CloudCommands \/ LoseCloud
       PROVE  /\ UNCHANGED <<local, subs, status>>
              /\ cloudLink = cloudLink' \/ cloudLink' # "none"
  BY <1>10 DEF Greeting, GreetExport, GreetType, GreetValue, GreetSend, SubscribeCommands,
               ConnackBeforeInit, GreetLosesWay, PublishCommand, CloudCommands,
               OnCloudCommand, LoseCloud, localVars
<1>11. ASSUME Devices PROVE UNCHANGED <<local, subs, status, cloudLink>>
  BY <1>11 DEF Devices, Appears, Measures
<1>12. CASE UNCHANGED vars
  BY <1>12, <1>8 DEF vars, localVars
<1>13. QED
  BY <1>1, <1>2, <1>3, <1>4, <1>5, <1>6, <1>7, <1>8, <1>9, <1>10, <1>11, <1>12
     DEF Next, MainThread, CloudThread, Disturbance

\* A "Connected" left by an earlier process is gone before the bridge hears of any
\* control (OnConnect): whoever reads it then reads it of this process.
THEOREM ConnectedIsOfThisProcess == Spec => []ConnectedIsTrue
<1>1. StatusInv => ConnectedIsTrue
  BY DEF StatusInv, ConnectedIsTrue
<1>2. QED
  BY StatusInit, StatusStep, <1>1, PTL DEF Spec
-----------------------------------------------------------------------------
(***************************************************************************)
(* The messages for the bridge, and type correctness.                      *)
(***************************************************************************)

\* SetToSeq lists a finite set.
LEMMA SeqOfSet ==
  ASSUME NEW S, IsFiniteSet(S)
  PROVE  /\ SetToSeq(S) \in Seq(S)
         /\ DOMAIN SetToSeq(S) = 1..Len(SetToSeq(S))
         /\ \A x \in S : \E k \in DOMAIN SetToSeq(S) : SetToSeq(S)[k] = x
<1> DEFINE n == Cardinality(S)
<1>1. n \in Nat /\ ExistsBijection(1..n, S)
  BY FS_CardinalityType
<1>2. \E f \in [1..n -> S] : IsInjective(f)
  BY <1>1 DEF ExistsBijection, Bijection, Injection
<1>3. SetToSeq(S) \in [1..n -> S] /\ IsInjective(SetToSeq(S))
  BY <1>2 DEF SetToSeq
<1>4. SetToSeq(S) \in Injection(1..n, S)
  BY <1>3 DEF Injection
<1>5. IsFiniteSet(1..n) /\ Cardinality(1..n) = n
  BY <1>1, FS_Interval
<1>6. SetToSeq(S) \in Surjection(1..n, S)
  BY <1>4, <1>5, FS_Injection
<1>7. SetToSeq(S) \in Seq(S)
  BY <1>1, <1>3
<1>8. QED
  BY <1>3, <1>6, <1>7, LenProperties DEF Surjection

LEMMA ControlSeq ==
  ASSUME NEW S \in SUBSET Controls
  PROVE  /\ SetToSeq(S) \in Seq(S)
         /\ DOMAIN SetToSeq(S) = 1..Len(SetToSeq(S)) /\ Len(SetToSeq(S)) \in Nat
         /\ \A k \in 1..Len(SetToSeq(S)) : SetToSeq(S)[k] \in S
         /\ \A x \in S : \E k \in DOMAIN SetToSeq(S) : SetToSeq(S)[k] = x
<1>0. IsFiniteSet(Controls)
  BY FS_Interval, ControlsAssumption DEF Controls
<1>1. IsFiniteSet(S)
  BY <1>0, FS_Subset
<1>2. SetToSeq(S) \in Seq(S)
  BY <1>1, SeqOfSet
<1>3. Len(SetToSeq(S)) \in Nat /\ \A k \in 1..Len(SetToSeq(S)) : SetToSeq(S)[k] \in S
  BY <1>2, LenProperties, ElementOfSeq
<1>4. QED
  BY <1>1, <1>2, <1>3, SeqOfSet

LEMMA ValueTypes ==
  ASSUME NEW c \in Controls, NEW v \in Values[c]
  PROVE  v \in AnyValue /\ v # None
BY ControlsAssumption DEF AnyValue

LEMMA NoValues == None \in AnyValue /\ Empty \in AnyValue /\ Empty # None
BY ControlsAssumption DEF AnyValue

LEMMA MessageTypes ==
  ASSUME NEW c \in Controls, NEW v \in AnyValue
  PROVE  ValueOf(c, v) \in Message /\ TypeOf(c) \in Message /\ ExportOf(c) \in Message
BY DEF Message, ValueOf, TypeOf, ExportOf, AnyValue

LEMMA ForwardedType ==
  ASSUME NEW m \in Message
  PROVE  /\ Forwarded(m) \in Seq(Message) /\ Forwarded(m) \in {<<>>, <<m>>}
         /\ subs = 3 => Forwarded(m) = <<m>>
         /\ subs = 0 => Forwarded(m) = <<>>
<1>1. <<m>> \in Seq(Message) /\ <<>> \in Seq(Message)
  OBVIOUS
<1>2. CASE Forwarded(m) = <<m>>
  BY <1>1, <1>2 DEF Forwarded
<1>3. CASE Forwarded(m) = <<>>
  BY <1>1, <1>3 DEF Forwarded, Message
<1>4. QED
  BY <1>2, <1>3 DEF Forwarded

\* A replay is about controls that are there; the third tells of all that are not
\* to be exported.
LEMMA ReplayOf ==
  ASSUME device \in [Controls -> AnyValue], NEW n \in 1..3
  PROVE  /\ Replay(n) \in Seq(Message)
         /\ \A k \in 1..Len(Replay(n)) :
              /\ Replay(n)[k].control \in Appeared
              /\ Replay(n)[k].kind = "value" => Replay(n)[k].value # None
         /\ n = 3 => \A c \in Appeared \cap Unexported :
                       \E k \in 1..Len(Replay(n)) : Replay(n)[k] = ExportOf(c)
<1> DEFINE all == SetToSeq(Appeared)
           closed == SetToSeq(Appeared \cap Unexported)
<1>1. Appeared \subseteq Controls
  BY DEF Appeared
<1>2. /\ DOMAIN all = 1..Len(all) /\ Len(all) \in Nat
      /\ \A k \in 1..Len(all) : all[k] \in Appeared
  BY <1>1, ControlSeq
<1>0. Appeared \cap Unexported \in SUBSET Controls
  BY <1>1
<1>3. DOMAIN closed = 1..Len(closed) /\ Len(closed) \in Nat
  BY <1>0, ControlSeq
<1>3a. \A k \in 1..Len(closed) : closed[k] \in Appeared
  BY <1>0, ControlSeq
<1>3b. \A c \in Appeared \cap Unexported : \E k \in 1..Len(closed) : closed[k] = c
  BY <1>0, <1>3, ControlSeq
<1> HIDE DEF all, closed
<1>4. \A c \in Appeared :
        /\ ValueOf(c, device[c]) \in Message /\ TypeOf(c) \in Message
        /\ ExportOf(c) \in Message
  BY <1>1, MessageTypes
<1>5. \A c \in Appeared : device[c] # None
  BY DEF Appeared
<1>6. CASE n = 1
  <2>1. Replay(n) = [k \in 1..Len(all) |-> ValueOf(all[k], device[all[k]])]
    BY <1>2, <1>6 DEF Replay, all
  <2>2. Replay(n) \in [1..Len(all) -> Message]
    BY <1>2, <1>4, <2>1
  <2>3. Replay(n) \in Seq(Message) /\ Len(Replay(n)) = Len(all)
    BY <1>2, <2>2
  <2>4. QED
    BY <1>2, <1>5, <1>6, <2>1, <2>3 DEF ValueOf
<1>7. CASE n = 2
  <2>1. Replay(n) = [k \in 1..Len(all) |-> TypeOf(all[k])]
    BY <1>2, <1>7 DEF Replay, all
  <2>2. Replay(n) \in [1..Len(all) -> Message]
    BY <1>2, <1>4, <2>1
  <2>3. Replay(n) \in Seq(Message) /\ Len(Replay(n)) = Len(all)
    BY <1>2, <2>2
  <2>4. QED
    BY <1>2, <1>7, <2>1, <2>3 DEF TypeOf
<1>8. CASE n = 3
  <2>1. Replay(n) = [k \in 1..Len(closed) |-> ExportOf(closed[k])]
    BY <1>3, <1>8 DEF Replay, closed
  <2>2. Replay(n) \in [1..Len(closed) -> Message]
    BY <1>3, <1>3a, <1>4, <2>1
  <2>3. Replay(n) \in Seq(Message) /\ Len(Replay(n)) = Len(closed)
    BY <1>3, <2>2
  <2>4. QED
    BY <1>3, <1>3a, <1>3b, <1>8, <2>1, <2>3 DEF ExportOf
<1>9. QED
  BY <1>6, <1>7, <1>8

LEMMA HeadOfInbox ==
  ASSUME TypeOK, inbox # <<>>
  PROVE  /\ Head(inbox) \in Message /\ Tail(inbox) \in Seq(Message)
         /\ Head(inbox).control \in Controls /\ Head(inbox).value \in AnyValue
         /\ Head(inbox).kind \in {"value", "type", "export"}
<1>1. Head(inbox) \in Message /\ Tail(inbox) \in Seq(Message)
  BY HeadTailProperties DEF TypeOK
<1>2. QED
  BY <1>1 DEF Message

\* The cloud handler comes with the activation, commands with the cloud.
Activation ==
  /\ cloudLink # "none" => handler # "none"
  /\ command # None => cloudLink # "none"

LEMMA ActivationInit == Init => Activation
BY DEF Init, Activation

LEMMA ActivationStep == Activation /\ [Next]_vars => Activation'
<1> SUFFICES ASSUME Activation, [Next]_vars PROVE Activation'
  OBVIOUS
<1>1. CASE UNCHANGED <<handler, cloudLink, command>>
  BY <1>1 DEF Activation
<1>2. ASSUME \/ LoopForEnds \/ TryReadToken \/ TryActivateBlock \/ WriteToken \/ OnConnect
             \/ GetOrAddControlDesc \/ OnType \/ OnExport \/ OnValue \/ ReadStored \/ SendStored
             \/ BrokerSubscribes \/ Devices \/ LoseLocal
      PROVE  UNCHANGED <<handler, cloudLink, command>>
  BY <1>2 DEF LoopForEnds, TryReadToken, TryActivateBlock, WriteToken, OnConnect,
              GetOrAddControlDesc, OnType, OnExport, OnValue, ReadStored, SendStored,
              BrokerSubscribes, Devices, Appears, Measures, LoseLocal, mainVars
<1>3. CASE ConnectToCloud \/ InitHandler
  BY <1>3 DEF Activation, ConnectToCloud, InitHandler
<1>4. ASSUME GreetExport \/ GreetType \/ GreetValue \/ GreetSend \/ OnCloudRefuses \/ GreetLosesWay
      PROVE  UNCHANGED <<handler, cloudLink, command>>
  BY <1>4 DEF GreetExport, GreetType, GreetValue, GreetSend, OnCloudRefuses, GreetLosesWay,
              mainVars
<1>5. CASE OnCloudConnect \/ SubscribeCommands \/ ConnackBeforeInit \/ PublishCommand \/ LoseCloud
  BY <1>5 DEF Activation, OnCloudConnect, SubscribeCommands, ConnackBeforeInit, PublishCommand,
              LoseCloud, mainVars
<1>7. CASE CloudCommands
  BY <1>7 DEF Activation, CloudCommands, OnCloudCommand, mainVars
<1>8. CASE Restart
  BY <1>8 DEF Activation, Restart
<1>9. CASE UNCHANGED vars
  BY <1>9, <1>1 DEF vars, mainVars
<1>10. QED
  BY <1>1, <1>2, <1>3, <1>4, <1>5, <1>7, <1>8, <1>9
     DEF Next, MainThread, CloudThread, Greeting, Disturbance

\* The message that is handled, and what is left of the others.
LEMMA HandledMessage ==
  ASSUME TypeOK, Finds
  PROVE  /\ Handled \in Message /\ Handled.control \in known
         /\ Handled.control \in Controls /\ Handled.value \in AnyValue
         /\ HandsOver => hand' = None /\ inbox' \in Seq(Message)
<1>1. CASE hand # None
  <2>1. Handled \in Message /\ Handled.control \in known
    BY <1>1 DEF Handled, TypeOK
  <2>2. HandsOver => hand' = None /\ inbox' \in Seq(Message)
    BY <1>1 DEF HandsOver, TypeOK
  <2>3. QED
    BY <2>1, <2>2 DEF Message
<1>2. CASE hand = None
  <2>1. inbox # <<>> /\ Head(inbox).control \in known /\ Handled = Head(inbox)
    BY <1>2 DEF Finds, Handled
  <2>2. HandsOver => hand' = None /\ inbox' = Tail(inbox)
    BY <1>2 DEF HandsOver
  <2>3. QED
    BY <2>1, <2>2, HeadOfInbox
<1>3. QED
  BY <1>1, <1>2

LEMMA TypeInit == Init => TypeOK
<1> SUFFICES ASSUME Init PROVE TypeOK
  OBVIOUS
<1>2. <<>> \in Seq(Message)
  OBVIOUS
<1>3. torn \in BOOLEAN /\ raced \in BOOLEAN
  BY Zenon DEF Init
<1>4. val \in [Controls -> AnyValue] /\ cloud \in [Controls -> AnyValue]
  BY NoValues DEF Init
<1>5. {c \in Controls : val[c] # Empty} \subseteq known
  BY DEF Init
<1>6. reading \in AnyValue /\ picked \in AnyValue
  BY NoValues DEF Init
<1>7. QED
  BY <1>2, <1>3, <1>4, <1>5, <1>6 DEF Init, TypeOK

LEMMA TypeStep == TypeOK /\ TokenInv /\ Activation /\ [Next]_vars => TypeOK'
<1> SUFFICES ASSUME TypeOK, TokenInv, Activation, [Next]_vars PROVE TypeOK'
  OBVIOUS
<1> USE DEF mainVars, handVars, cacheVars, greetVars, localVars
<1>1. CASE LoopForEnds \/ InitHandler
  BY <1>1 DEF TypeOK, LoopForEnds, InitHandler
<1>1a. CASE TryReadToken
  <2>1. held' \in {"empty", "token"} /\ pc' \in {"Activated", "TryActivateBlock"}
    BY <1>1a DEF TryReadToken
  <2>2. QED
    BY <1>1a, <2>1 DEF TypeOK, TryReadToken
<1>1b. CASE TryActivateBlock
  BY <1>1b DEF TypeOK, TryActivateBlock
<1>2. CASE WriteToken
  BY <1>2 DEF TypeOK, WriteToken
<1>3. CASE ConnectToCloud
  <2>1. at = "next"
    BY <1>3 DEF TypeOK, TokenInv, Activation, ConnectToCloud
  <2>2. QED
    BY <1>3, <2>1 DEF TypeOK, ConnectToCloud
<1>3a. CASE OnConnect
  <2>1. /\ local' = "up"
        /\ UNCHANGED <<mainVars, handVars, cacheVars, cloudLink, greetVars, command, subs,
                       inbox, device, cloud>>
    BY <1>3a DEF OnConnect
  <2>2. QED
    BY <2>1 DEF TypeOK
<1>4. CASE GetOrAddControlDesc
  <2>1. Head(inbox) \in Message /\ Head(inbox).control \in Controls /\ Tail(inbox) \in Seq(Message)
    BY <1>4, HeadOfInbox DEF GetOrAddControlDesc
  <2>2. torn' \in BOOLEAN
    BY <1>4, Zenon DEF GetOrAddControlDesc
  <2>3. QED
    BY <1>4, <2>1, <2>2 DEF TypeOK, GetOrAddControlDesc
<1>5. CASE OnType
  BY <1>5, HandledMessage DEF TypeOK, OnType
<1>5a. CASE OnExport
  BY <1>5a, HandledMessage DEF TypeOK, OnExport
<1>6. CASE OnValue
  <2>1. /\ Handled.control \in known /\ Handled.control \in Controls /\ Handled.value \in AnyValue
        /\ hand' = None /\ inbox' \in Seq(Message)
    BY <1>6, HandledMessage DEF OnValue
  <2>2. /\ val' \in [Controls -> AnyValue]
        /\ \A d \in Controls : val'[d] # Empty => d \in known
    BY <1>6, <2>1 DEF TypeOK, OnValue
  <2>3. /\ UNCHANGED <<mainVars, reading, known, typed, disabled, cloudLink, greetVars,
                       command, local, subs, device, cloud>>
        /\ stored' \in known /\ (reading' # None => stored' # None)
    <3>1. UNCHANGED <<mainVars, reading, known, typed, disabled, cloudLink, greetVars,
                      command, local, subs, device, cloud>>
      BY <1>6 DEF OnValue
    <3>2. stored' \in known /\ stored' \in Controls
      BY <1>6, <2>1 DEF OnValue
    <3>3. stored' # None
      BY <3>2, NoneAssumption
    <3>4. QED
      BY <3>1, <3>2, <3>3
  <2>4. {d \in Controls : val'[d] # Empty} \subseteq known
    BY <2>2
  <2>5. QED
    BY <2>1, <2>2, <2>3, <2>4 DEF TypeOK
<1>7. CASE ReadStored
  BY <1>7 DEF TypeOK, ReadStored
<1>7a. CASE SendStored
  <2>1. stored \in Controls /\ reading \in AnyValue
    BY <1>7a DEF TypeOK, SendStored
  <2>2. cloud' \in [Controls -> AnyValue]
    BY <1>7a, <2>1 DEF TypeOK, SendStored, SendDeviceData
  <2>3. UNCHANGED <<mainVars, hand, cacheVars, cloudLink, greetVars, command, localVars, device>>
    BY <1>7a DEF SendStored
  <2>4. stored' = None /\ reading' = None
    BY <1>7a DEF SendStored
  <2>5. QED
    BY <2>2, <2>3, <2>4, NoValues DEF TypeOK
<1>8. CASE OnCloudRefuses
  <2>1. UNCHANGED <<mainVars, handVars, cacheVars, cloudLink, greetVars, command, localVars,
                    device, cloud>>
    BY <1>8 DEF OnCloudRefuses
  <2>2. QED
    BY <2>1 DEF TypeOK
<1>8b. CASE ConnackBeforeInit \/ LoseCloud
  <2>1. /\ at = "next" /\ cloudLink' \in {"down", "deaf"}
        /\ UNCHANGED <<mainVars, handVars, cacheVars, greetVars, command, localVars, device,
                       cloud>>
    BY <1>8b DEF ConnackBeforeInit, LoseCloud, TypeOK
  <2>2. QED
    BY <2>1 DEF TypeOK
<1>8a. CASE OnCloudConnect \/ SubscribeCommands
  <2>1. torn' \in BOOLEAN /\ raced' \in BOOLEAN
    <3>1. torn' = FALSE
      BY <1>8a DEF OnCloudConnect, SubscribeCommands
    <3>2. raced' = raced \/ raced' = FALSE
      BY <1>8a DEF OnCloudConnect, SubscribeCommands
    <3>3. raced \in BOOLEAN
      BY Zenon DEF TypeOK
    <3>4. QED
      BY <3>1, <3>2, <3>3, Zenon
  <2>2. /\ at = "next" /\ at' = "next" /\ pos' = 0 /\ cloudLink' \in {"greeting", "up"}
        /\ UNCHANGED <<mainVars, handVars, cacheVars, picked, command, localVars, device, cloud>>
    BY <1>8a DEF OnCloudConnect, SubscribeCommands, TypeOK
  <2>3. QED
    BY <2>1, <2>2 DEF TypeOK
<1>9. CASE GreetExport
  <2>1. PICK c \in Ahead : /\ pos' = c /\ raced' = FlagInHand(c)
                           /\ at' = IF Exported(c) THEN "type" ELSE "next"
    BY <1>9 DEF GreetExport
  <2>2. c \in Controls /\ c \in known /\ at' \in {"next", "type"}
    BY <2>1 DEF Ahead, TypeOK
  <2>3. raced' \in BOOLEAN
    BY <2>1, Zenon DEF FlagInHand
  <2>4. picked = None
    BY <1>9 DEF TypeOK, GreetExport
  <2>5. QED
    BY <1>9, <2>1, <2>2, <2>3, <2>4 DEF TypeOK, GreetExport
<1>9a. CASE GreetType
  <2>1. at' \in {"next", "value"} /\ picked = None
    BY <1>9a DEF TypeOK, GreetType
  <2>2. QED
    BY <1>9a, <2>1 DEF TypeOK, GreetType
<1>9b. CASE GreetValue
  BY <1>9b DEF TypeOK, GreetValue
<1>10. CASE GreetSend
  <2>1. pos \in Controls /\ picked \in AnyValue
    BY <1>10 DEF TypeOK, GreetSend
  <2>2. cloud' \in [Controls -> AnyValue]
    BY <1>10, <2>1 DEF TypeOK, GreetSend, SendDeviceData
  <2>3. UNCHANGED <<mainVars, handVars, cacheVars, cloudLink, pos, torn, raced, command,
                    localVars, device>>
    BY <1>10 DEF GreetSend
  <2>4. at' = "next" /\ picked' = None
    BY <1>10 DEF GreetSend
  <2>5. QED
    BY <2>2, <2>3, <2>4, NoValues DEF TypeOK
<1>11. CASE GreetLosesWay
  BY <1>11 DEF TypeOK, GreetLosesWay, Ahead
<1>12. ASSUME NEW c \in Controls, NEW v \in Values[c], OnCloudCommand(c, v)
       PROVE  TypeOK'
  <2>1. /\ val' \in [Controls -> AnyValue]
        /\ \A d \in Controls : val'[d] # Empty => d \in known
    BY <1>12, ValueTypes DEF TypeOK, OnCloudCommand
  <2>2. QED
    BY <1>12, <2>1 DEF TypeOK, OnCloudCommand
<1>13. CASE PublishCommand
  <2>1. command \in Controls /\ val[command] \in AnyValue
    BY <1>13 DEF PublishCommand, TypeOK
  <2>2. inbox \o Forwarded(ValueOf(command, val[command])) \in Seq(Message)
    BY <2>1, MessageTypes, ForwardedType, ConcatProperties DEF TypeOK
  <2>3. inbox' \in Seq(Message)
    BY <1>13, <2>2 DEF TypeOK, PublishCommand
  <2>4. device' \in [Controls -> AnyValue]
    BY <1>13, <2>1 DEF TypeOK, PublishCommand
  <2>5. QED
    BY <1>13, <2>3, <2>4 DEF TypeOK, PublishCommand
<1>14. CASE BrokerSubscribes
  <2>1. subs + 1 \in 1..3
    BY <1>14 DEF BrokerSubscribes, TypeOK
  <2>2. inbox \o Replay(subs + 1) \in Seq(Message)
    BY <2>1, ReplayOf, ConcatProperties DEF TypeOK
  <2>3. QED
    BY <1>14, <2>1, <2>2 DEF TypeOK, BrokerSubscribes
<1>15. ASSUME NEW c \in Controls, NEW v \in Values[c], Appears(c, v)
       PROVE  TypeOK'
  <2>1. v \in AnyValue
    BY ValueTypes
  <2>2. /\ (IF c \in Unexported THEN Forwarded(ExportOf(c)) ELSE <<>>) \in Seq(Message)
        /\ Forwarded(TypeOf(c)) \in Seq(Message) /\ Forwarded(ValueOf(c, v)) \in Seq(Message)
    BY <2>1, MessageTypes, ForwardedType
  <2>3. inbox' \in Seq(Message)
    BY <1>15, <2>2, ConcatProperties DEF TypeOK, Appears
  <2>4. QED
    BY <1>15, <2>1, <2>3 DEF TypeOK, Appears
<1>16. ASSUME NEW c \in Controls, NEW v \in Values[c], Measures(c, v)
       PROVE  TypeOK'
  <2>1. v \in AnyValue
    BY ValueTypes
  <2>2. inbox' \in Seq(Message)
    BY <1>16, <2>1, MessageTypes, ForwardedType, ConcatProperties DEF TypeOK, Measures
  <2>3. QED
    BY <1>16, <2>1, <2>2 DEF TypeOK, Measures
<1>17. CASE LoseLocal
  <2>1. inbox' \in Seq(Message)
    BY <1>17 DEF LoseLocal
  <2>2. QED
    BY <1>17, <2>1 DEF TypeOK, LoseLocal
<1>18. CASE Restart
  <2>2. inbox' \in Seq(Message)
    BY <1>18 DEF Restart
  <2>3. torn' \in BOOLEAN /\ raced' \in BOOLEAN
    BY <1>18, Zenon DEF Restart
  <2>4. val' \in [Controls -> AnyValue]
    BY <1>18, NoValues DEF Restart
  <2>5. {c \in Controls : val'[c] # Empty} \subseteq known'
    BY <1>18 DEF Restart
  <2>6. reading' \in AnyValue /\ picked' \in AnyValue
    BY <1>18, NoValues DEF Restart
  <2>7. QED
    BY <1>18, <2>2, <2>3, <2>4, <2>5, <2>6 DEF TypeOK, Restart
<1>19. CASE UNCHANGED vars
  BY <1>19 DEF TypeOK, vars
<1>20. QED
  BY <1>1, <1>1a, <1>1b, <1>2, <1>3, <1>3a, <1>4, <1>5, <1>5a, <1>6, <1>7, <1>7a, <1>8, <1>8a,
     <1>8b, <1>9, <1>9a, <1>9b, <1>10, <1>11, <1>12, <1>13, <1>14, <1>15, <1>16, <1>17, <1>18, <1>19
     DEF Next, MainThread, CloudThread, Greeting, CloudCommands, Devices, Disturbance

\* Every variable of the bridge keeps its type; what the cache has a type, a flag or a
\* value of, it has as a control (GetOrAddControlDesc).
THEOREM TypeCorrect == Spec => []TypeOK
BY TypeInit, TypeStep, TokenInit, TokenStep, ActivationInit, ActivationStep, PTL DEF Spec
-----------------------------------------------------------------------------
(***************************************************************************)
(* What a process hears of a control is of one that is there.              *)
(***************************************************************************)

\* Messages of controls in A, with the values a control may have.
Real(q, A) ==
  \A k \in 1..Len(q) :
    /\ q[k].control \in A
    /\ q[k].kind = "value" => q[k].value # None

\* The cache is of controls that are there, and what it holds of them is a string.
Heard ==
  /\ known \subseteq Appeared
  /\ Real(inbox, Appeared)
  /\ hand # None /\ hand.kind = "value" => hand.value # None
  /\ \A c \in Controls : val[c] # None

\* A message of s \o t is one of s or one of t.
LEMMA ConcatOf ==
  ASSUME NEW s \in Seq(Message), NEW t \in Seq(Message)
  PROVE  /\ s \o t \in Seq(Message) /\ Len(s \o t) = Len(s) + Len(t)
         /\ Len(s) \in Nat /\ Len(t) \in Nat
         /\ \A k \in 1..Len(s) : (s \o t)[k] = s[k]
         /\ \A k \in 1..Len(t) : (s \o t)[Len(s) + k] = t[k]
         /\ \A k \in 1..Len(s \o t) : k > Len(s) => k - Len(s) \in 1..Len(t)
                                                    /\ (s \o t)[k] = t[k - Len(s)]
<1>1. Len(s) \in Nat /\ Len(t) \in Nat
  BY LenProperties
<1>2. QED
  BY <1>1, ConcatProperties

LEMMA TailOf ==
  ASSUME NEW s \in Seq(Message), s # <<>>
  PROVE  /\ Tail(s) \in Seq(Message) /\ Len(s) \in Nat \ {0} /\ Len(Tail(s)) = Len(s) - 1
         /\ Head(s) = s[1] /\ Head(s) \in Message
         /\ \A k \in 1..Len(Tail(s)) : k + 1 \in 1..Len(s) /\ Tail(s)[k] = s[k + 1]
         /\ \A k \in 1..Len(s) : k # 1 => k - 1 \in 1..Len(Tail(s)) /\ s[k] = Tail(s)[k - 1]
<1>1. Len(s) \in Nat \ {0}
  BY LenProperties, EmptySeq
<1>2. /\ Head(s) \in Message /\ Tail(s) \in Seq(Message) /\ Len(Tail(s)) = Len(s) - 1
      /\ \A k \in 1..Len(Tail(s)) : Tail(s)[k] = s[k + 1]
  BY HeadTailProperties
<1>3. Head(s) = s[1]
  OBVIOUS
<1>4. QED
  BY <1>1, <1>2, <1>3

LEMMA RealConcat ==
  ASSUME NEW A, NEW s \in Seq(Message), NEW t \in Seq(Message), Real(s, A), Real(t, A)
  PROVE  Real(s \o t, A)
<1> SUFFICES ASSUME NEW k \in 1..Len(s \o t)
             PROVE  /\ (s \o t)[k].control \in A
                    /\ (s \o t)[k].kind = "value" => (s \o t)[k].value # None
  BY DEF Real
<1>1. CASE k > Len(s)
  BY <1>1, ConcatOf DEF Real
<1>2. CASE ~(k > Len(s))
  <2>1. k \in 1..Len(s)
    BY <1>2, ConcatOf
  <2>2. QED
    BY <2>1, ConcatOf DEF Real
<1>3. QED
  BY <1>1, <1>2

LEMMA RealForwarded ==
  ASSUME NEW A, NEW m \in Message, m.control \in A, m.kind = "value" => m.value # None
  PROVE  Real(Forwarded(m), A)
<1>1. CASE Forwarded(m) = <<m>>
  BY <1>1 DEF Real
<1>2. CASE Forwarded(m) = <<>>
  BY <1>2 DEF Real
<1>3. QED
  BY <1>1, <1>2, ForwardedType

LEMMA HeardInit == Init => Heard
BY NoValues DEF Init, Heard, Real

\* A step that leaves the cache and the messages alone.
LEMMA HeardStays ==
  ASSUME Heard, TypeOK, UNCHANGED <<cacheVars, hand, inbox>>,
         \A c \in Controls : device[c] # None => device'[c] # None
  PROVE  Heard'
<1>1. Appeared \subseteq Appeared'
  BY DEF Appeared
<1>2. Real(inbox', Appeared')
  BY <1>1 DEF Heard, Real, cacheVars
<1>3. QED
  BY <1>1, <1>2 DEF Heard, cacheVars

\* What is handled is of a control that is there; so is what is left.
LEMMA HandledIsReal ==
  ASSUME Heard, TypeOK, Finds
  PROVE  /\ Handled.kind = "value" => Handled.value # None
         /\ HandsOver => hand' = None /\ Real(inbox', Appeared)
<1>1. CASE hand # None
  BY <1>1 DEF Handled, HandsOver, Heard
<1>2. CASE hand = None
  <2>1. inbox # <<>> /\ inbox \in Seq(Message) /\ Handled = Head(inbox)
    BY <1>2 DEF Finds, Handled, TypeOK
  <2>2. HandsOver => hand' = None /\ inbox' = Tail(inbox)
    BY <1>2 DEF HandsOver
  <2>3. Handled.kind = "value" => Handled.value # None
    BY <2>1, TailOf DEF Heard, Real
  <2>4. Real(Tail(inbox), Appeared)
    BY <2>1, TailOf DEF Heard, Real
  <2>5. QED
    BY <2>2, <2>3, <2>4
<1>3. QED
  BY <1>1, <1>2

LEMMA HeardStep == Heard /\ TypeOK /\ [Next]_vars => Heard'
<1> SUFFICES ASSUME Heard, TypeOK, [Next]_vars PROVE Heard'
  OBVIOUS
<1>1. CASE UNCHANGED <<cacheVars, hand, inbox, device>>
  BY <1>1, HeardStays
<1>2. ASSUME \/ LoopForEnds \/ TryReadToken \/ TryActivateBlock \/ WriteToken \/ ConnectToCloud
             \/ InitHandler \/ OnConnect \/ ReadStored \/ SendStored
      PROVE  UNCHANGED <<cacheVars, hand, inbox, device>>
  BY <1>2 DEF LoopForEnds, TryReadToken, TryActivateBlock, WriteToken, ConnectToCloud,
              InitHandler, OnConnect, ReadStored, SendStored, localVars, handVars
<1>3. ASSUME OnCloudConnect \/ Greeting \/ ConnackBeforeInit \/ OnCloudRefuses \/ GreetLosesWay
             \/ LoseCloud
      PROVE  UNCHANGED <<cacheVars, hand, inbox, device>>
  BY <1>3 DEF OnCloudConnect, Greeting, GreetExport, GreetType, GreetValue, GreetSend,
              SubscribeCommands, ConnackBeforeInit, OnCloudRefuses, GreetLosesWay, LoseCloud,
              localVars, handVars
<1>4. CASE GetOrAddControlDesc
  <2>1. /\ inbox # <<>> /\ inbox' = Tail(inbox) /\ hand' = Head(inbox)
        /\ known' = known \cup {Head(inbox).control} /\ UNCHANGED <<val, device>>
    BY <1>4 DEF GetOrAddControlDesc
  <2>2. inbox \in Seq(Message)
    BY DEF TypeOK
  <2>3. /\ Head(inbox).control \in Appeared
        /\ Head(inbox).kind = "value" => Head(inbox).value # None
    BY <2>1, <2>2, TailOf DEF Heard, Real
  <2>4. Appeared' = Appeared
    BY <2>1 DEF Appeared
  <2>5. Real(inbox', Appeared')
    BY <2>1, <2>2, <2>4, TailOf DEF Heard, Real
  <2>6. QED
    BY <2>1, <2>3, <2>4, <2>5 DEF Heard
<1>5. ASSUME Finds, HandsOver, UNCHANGED <<known, device>>,
             \/ UNCHANGED val
             \/ Handled.kind = "value" /\ val' = [val EXCEPT ![Handled.control] = Handled.value]
      PROVE  Heard'
  <2>1. Appeared' = Appeared
    BY <1>5 DEF Appeared
  <2>2. /\ Handled.kind = "value" => Handled.value # None
        /\ hand' = None /\ Real(inbox', Appeared')
    BY <1>5, <2>1, HandledIsReal
  <2>3. \A c \in Controls : val'[c] # None
    BY <1>5, <2>2 DEF Heard, TypeOK
  <2>4. QED
    BY <1>5, <2>1, <2>2, <2>3 DEF Heard
<1>6. CASE OnType \/ OnExport
  BY <1>6, <1>5 DEF OnType, OnExport
<1>7. CASE OnValue
  BY <1>7, <1>5 DEF OnValue
<1>8. ASSUME NEW c \in Controls, NEW v \in Values[c], OnCloudCommand(c, v)
      PROVE  Heard'
  <2>1. Appeared' = Appeared /\ UNCHANGED <<known, hand, inbox>>
    BY <1>8 DEF OnCloudCommand, Appeared, localVars, handVars
  <2>2. Real(inbox', Appeared')
    BY <2>1 DEF Heard, Real
  <2>3. \A d \in Controls : val'[d] # None
    BY <1>8, ValueTypes DEF OnCloudCommand, TypeOK, Heard
  <2>4. QED
    BY <2>1, <2>2, <2>3 DEF Heard
<1>9. ASSUME Appeared \subseteq Appeared', Real(inbox', Appeared'), UNCHANGED <<cacheVars, hand>>
      PROVE  Heard'
  BY <1>9 DEF Heard, cacheVars
<1>9a. ASSUME NEW q, Real(q, Appeared), Appeared \subseteq Appeared'
       PROVE  Real(q, Appeared')
  BY <1>9a DEF Real
<1>10. CASE PublishCommand
  <2>1. CASE local = "down"
    <3>1. UNCHANGED <<cacheVars, hand, inbox, device>>
      BY <1>10, <2>1 DEF PublishCommand, handVars
    <3>2. QED
      BY <3>1, HeardStays
  <2>2. CASE local # "down"
    <3>1. /\ device' = [device EXCEPT ![command] = val[command]]
          /\ inbox' = inbox \o Forwarded(ValueOf(command, val[command]))
          /\ UNCHANGED <<cacheVars, hand>>
      BY <1>10, <2>2 DEF PublishCommand, handVars
    <3>2. /\ command \in Appeared /\ command \in Controls
          /\ val[command] # None /\ val[command] \in AnyValue
      BY <1>10 DEF Heard, PublishCommand, TypeOK
    <3>3. Appeared \subseteq Appeared'
      BY <3>1, <3>2 DEF Appeared, TypeOK
    <3>4. ValueOf(command, val[command]) \in Message
      BY <3>2, MessageTypes
    <3>5. Real(Forwarded(ValueOf(command, val[command])), Appeared)
      BY <3>2, <3>4, RealForwarded DEF ValueOf
    <3>6. Real(inbox', Appeared)
      BY <3>1, <3>4, <3>5, ForwardedType, RealConcat DEF Heard, TypeOK
    <3>7. QED
      BY <1>9, <1>9a, <3>1, <3>3, <3>6
  <2>3. QED
    BY <2>1, <2>2
<1>11. CASE BrokerSubscribes
  <2>1. subs + 1 \in 1..3 /\ UNCHANGED <<cacheVars, hand, device>>
    BY <1>11 DEF BrokerSubscribes, TypeOK, handVars
  <2>2. Replay(subs + 1) \in Seq(Message) /\ Real(Replay(subs + 1), Appeared)
    BY <2>1, ReplayOf DEF Real, TypeOK
  <2>3. Real(inbox', Appeared)
    BY <1>11, <2>2, RealConcat DEF BrokerSubscribes, Heard, TypeOK
  <2>4. Appeared \subseteq Appeared'
    BY <2>1 DEF Appeared
  <2>5. QED
    BY <1>9, <1>9a, <2>1, <2>3, <2>4
<1>12. ASSUME NEW c \in Controls, NEW v \in Values[c], Appears(c, v)
       PROVE  Heard'
  <2>1. /\ device' = [device EXCEPT ![c] = v] /\ UNCHANGED <<cacheVars, hand>>
        /\ inbox' = inbox \o (IF c \in Unexported THEN Forwarded(ExportOf(c)) ELSE <<>>)
                          \o Forwarded(TypeOf(c)) \o Forwarded(ValueOf(c, v))
    BY <1>12 DEF Appears, handVars
  <2>2. v \in AnyValue /\ v # None
    BY ValueTypes
  <2>3. Appeared' = Appeared \cup {c}
    BY <2>1, <2>2 DEF Appeared, TypeOK
  <2>4. /\ ExportOf(c) \in Message /\ TypeOf(c) \in Message /\ ValueOf(c, v) \in Message
    BY <2>2, MessageTypes
  <2>5. /\ Real(Forwarded(ExportOf(c)), Appeared') /\ Real(Forwarded(TypeOf(c)), Appeared')
        /\ Real(Forwarded(ValueOf(c, v)), Appeared')
    <3>1. c \in Appeared'
      BY <2>3
    <3>2. Real(Forwarded(ExportOf(c)), Appeared')
      BY <2>4, <3>1, RealForwarded DEF ExportOf
    <3>3. Real(Forwarded(TypeOf(c)), Appeared')
      BY <2>4, <3>1, RealForwarded DEF TypeOf
    <3>4. Real(Forwarded(ValueOf(c, v)), Appeared')
      BY <2>2, <2>4, <3>1, RealForwarded DEF ValueOf
    <3>5. QED
      BY <3>2, <3>3, <3>4
  <2>6. PICK E \in Seq(Message) : /\ E = IF c \in Unexported THEN Forwarded(ExportOf(c)) ELSE <<>>
                                  /\ Real(E, Appeared')
    <3>1. <<>> \in Seq(Message) /\ Real(<<>>, Appeared')
      BY DEF Real
    <3>2. QED
      BY <2>4, <2>5, <3>1, ForwardedType
  <2>7. inbox \in Seq(Message) /\ Real(inbox, Appeared')
    BY <1>9a, <2>3 DEF Heard, TypeOK
  <2>8. inbox \o E \in Seq(Message) /\ Real(inbox \o E, Appeared')
    BY <2>6, <2>7, RealConcat, ConcatProperties
  <2>9. /\ inbox \o E \o Forwarded(TypeOf(c)) \in Seq(Message)
        /\ Real(inbox \o E \o Forwarded(TypeOf(c)), Appeared')
    BY <2>4, <2>5, <2>8, ForwardedType, RealConcat, ConcatProperties
  <2>10. Real(inbox', Appeared')
    BY <2>1, <2>4, <2>5, <2>6, <2>9, ForwardedType, RealConcat
  <2>11. QED
    BY <1>9, <2>1, <2>3, <2>10
<1>13. ASSUME NEW c \in Controls, NEW v \in Values[c], Measures(c, v)
       PROVE  Heard'
  <2>1. /\ device' = [device EXCEPT ![c] = v] /\ UNCHANGED <<cacheVars, hand>>
        /\ inbox' = inbox \o Forwarded(ValueOf(c, v)) /\ device[c] # None
    BY <1>13 DEF Measures, handVars
  <2>2. v \in AnyValue /\ v # None /\ ValueOf(c, v) \in Message
    BY ValueTypes, MessageTypes
  <2>3. Appeared' = Appeared /\ c \in Appeared
    BY <2>1, <2>2 DEF Appeared, TypeOK
  <2>4. Real(Forwarded(ValueOf(c, v)), Appeared)
    BY <2>2, <2>3, RealForwarded DEF ValueOf
  <2>5. Real(inbox', Appeared)
    BY <2>1, <2>2, <2>4, ForwardedType, RealConcat DEF Heard, TypeOK
  <2>6. QED
    BY <1>9, <1>9a, <2>1, <2>3, <2>5
<1>14. CASE LoseLocal
  <2>1. inbox' = <<>> /\ UNCHANGED <<cacheVars, hand, device>>
    BY <1>14 DEF LoseLocal, handVars
  <2>2. Real(inbox', Appeared') /\ Appeared \subseteq Appeared'
    BY <2>1 DEF Real, Appeared
  <2>3. QED
    BY <1>9, <2>1, <2>2
<1>15. CASE Restart
  BY <1>15, NoValues DEF Restart, Heard, Real
<1>16. CASE UNCHANGED vars
  BY <1>16, <1>1 DEF vars, handVars, localVars
<1>17. CASE MainThread
  BY <1>1, <1>2, <1>4, <1>6, <1>7, <1>17 DEF MainThread
<1>18. CASE CloudThread
  BY <1>1, <1>3, <1>8, <1>10, <1>18 DEF CloudThread, CloudCommands
<1>19. CASE Devices \/ Disturbance
  BY <1>1, <1>3, <1>12, <1>13, <1>14, <1>15, <1>19 DEF Devices, Disturbance
<1>20. QED
  BY <1>11, <1>16, <1>17, <1>18, <1>19 DEF Next
-----------------------------------------------------------------------------
(***************************************************************************)
(* The export flags.  A control that the cloud must not see is known by    *)
(* the time of the greeting, or is heard of with its flag first; the one   *)
(* way around it, a replay that comes behind LoopFor, is what "blind"      *)
(* records.  Between its insertion and its flag it looks like any other,   *)
(* and the greeting may come by: that is what "raced" records.             *)
(***************************************************************************)

IsExport(m, c) == m.control = c /\ m.kind = "export"

\* The flag of c is among the messages q.
Tells(q, c) == \E k \in 1..Len(q) : IsExport(q[k], c)

\* It comes before anything else of c.
FirstIn(q, c) ==
  \A k \in 1..Len(q) : q[k].control = c => \E j \in 1..k : IsExport(q[j], c)

\* The flag of c is set, or about to be.
Shut(c) == c \in disabled \/ FlagInHand(c)

\* Once LoopFor is over, c is not among the controls to be greeted with, and its flag
\* comes first; before, it is enough that the flag comes, with the last replay.
Closed(c) ==
  /\ pc = "LoopFor" /\ subs = 3 /\ device[c] # None => Shut(c) \/ Tells(inbox, c)
  /\ pc # "LoopFor" =>
       /\ c \in known => Shut(c)
       /\ Shut(c) \/ FirstIn(inbox, c)
       /\ subs > 0 /\ device[c] # None => Shut(c) \/ Tells(inbox, c)

ExportInv == \A c \in Unexported \ blind : Closed(c)

\* Neither thread is about to send such a control, unless the greeting came by too
\* early.
SendInv ==
  /\ stored # None => hand = None
  /\ reading # None => stored \notin Unexported \ blind
  /\ at # "next" => pos \notin Unexported \ blind \/ raced

LEMMA TellsConcat ==
  ASSUME NEW c, NEW s \in Seq(Message), NEW t \in Seq(Message), Tells(s, c) \/ Tells(t, c)
  PROVE  Tells(s \o t, c)
<1>1. CASE Tells(s, c)
  <2>1. PICK k \in 1..Len(s) : IsExport(s[k], c)
    BY <1>1 DEF Tells
  <2>2. k \in 1..Len(s \o t) /\ (s \o t)[k] = s[k]
    BY ConcatOf
  <2>3. QED
    BY <2>1, <2>2 DEF Tells
<1>2. CASE Tells(t, c)
  <2>1. PICK k \in 1..Len(t) : IsExport(t[k], c)
    BY <1>2 DEF Tells
  <2>2. Len(s) + k \in 1..Len(s \o t) /\ (s \o t)[Len(s) + k] = t[k]
    BY ConcatOf
  <2>3. QED
    BY <2>1, <2>2 DEF Tells
<1>3. QED
  BY <1>1, <1>2

\* What follows the flag may say anything.
LEMMA FirstConcat ==
  ASSUME NEW c, NEW s \in Seq(Message), NEW t \in Seq(Message),
         FirstIn(s, c), Tells(s, c) \/ FirstIn(t, c)
  PROVE  FirstIn(s \o t, c)
<1> SUFFICES ASSUME NEW k \in 1..Len(s \o t), (s \o t)[k].control = c
             PROVE  \E j \in 1..k : IsExport((s \o t)[j], c)
  BY DEF FirstIn
<1>1. CASE k <= Len(s)
  <2>1. k \in 1..Len(s) /\ (s \o t)[k] = s[k]
    BY <1>1, ConcatOf
  <2>2. PICK j \in 1..k : IsExport(s[j], c)
    BY <2>1 DEF FirstIn
  <2>3. (s \o t)[j] = s[j]
    BY <2>1, ConcatOf
  <2>4. QED
    BY <2>2, <2>3
<1>2. CASE ~(k <= Len(s)) /\ Tells(s, c)
  <2>1. PICK j \in 1..Len(s) : IsExport(s[j], c)
    BY <1>2 DEF Tells
  <2>2. j \in 1..k /\ (s \o t)[j] = s[j]
    BY <1>2, ConcatOf
  <2>3. QED
    BY <2>1, <2>2
<1>3. CASE ~(k <= Len(s)) /\ FirstIn(t, c)
  <2>1. k - Len(s) \in 1..Len(t) /\ (s \o t)[k] = t[k - Len(s)]
    BY <1>3, ConcatOf
  <2>2. PICK j \in 1..(k - Len(s)) : IsExport(t[j], c)
    BY <1>3, <2>1 DEF FirstIn
  <2>3. Len(s) + j \in 1..k /\ (s \o t)[Len(s) + j] = t[j]
    BY <2>1, ConcatOf
  <2>4. QED
    BY <2>2, <2>3
<1>4. QED
  BY <1>1, <1>2, <1>3

\* Another message is taken from the front.
LEMMA FlagsOfTail ==
  ASSUME NEW c, NEW s \in Seq(Message), s # <<>>, ~IsExport(Head(s), c)
  PROVE  /\ Tells(s, c) => Tells(Tail(s), c)
         /\ FirstIn(s, c) => FirstIn(Tail(s), c) /\ Head(s).control # c
<1>1. ASSUME Tells(s, c) PROVE Tells(Tail(s), c)
  <2>1. PICK k \in 1..Len(s) : IsExport(s[k], c)
    BY <1>1 DEF Tells
  <2>2. k # 1
    BY <2>1, TailOf
  <2>3. k - 1 \in 1..Len(Tail(s)) /\ s[k] = Tail(s)[k - 1]
    BY <2>2, TailOf
  <2>4. QED
    BY <2>1, <2>3 DEF Tells
<1>2. ASSUME FirstIn(s, c) PROVE FirstIn(Tail(s), c)
  <2> SUFFICES ASSUME NEW k \in 1..Len(Tail(s)), Tail(s)[k].control = c
               PROVE  \E j \in 1..k : IsExport(Tail(s)[j], c)
    BY DEF FirstIn
  <2>1. k + 1 \in 1..Len(s) /\ s[k + 1].control = c
    BY TailOf
  <2>2. PICK j \in 1..(k + 1) : IsExport(s[j], c)
    BY <1>2, <2>1 DEF FirstIn
  <2>3. j # 1 /\ j \in 1..Len(s)
    BY <2>1, <2>2, TailOf
  <2>4. j - 1 \in 1..k /\ Tail(s)[j - 1] = s[j]
    BY <2>3, TailOf
  <2>5. QED
    BY <2>2, <2>4
<1>3. ASSUME FirstIn(s, c) PROVE Head(s).control # c
  <2>1. 1 \in 1..Len(s) /\ Head(s) = s[1]
    BY TailOf
  <2>2. s[1].control = c => \E j \in 1..1 : IsExport(s[j], c)
    BY <1>3, <2>1 DEF FirstIn
  <2>3. QED
    BY <2>1, <2>2
<1>4. QED
  BY <1>1, <1>2, <1>3

\* Messages about others.
LEMMA FirstOfOthers ==
  ASSUME NEW c, NEW q, \A k \in 1..Len(q) : q[k].control # c
  PROVE  FirstIn(q, c)
BY DEF FirstIn

LEMMA FlagsOfForwarded ==
  ASSUME NEW c, NEW m \in Message
  PROVE  /\ m.control # c => FirstIn(Forwarded(m), c)
         /\ subs = 0 => FirstIn(Forwarded(m), c)
         /\ subs = 3 /\ IsExport(m, c) => Tells(Forwarded(m), c)
         /\ IsExport(m, c) => FirstIn(Forwarded(m), c)
<1>1. CASE Forwarded(m) = <<>>
  BY <1>1, ForwardedType DEF FirstIn, Tells
<1>2. CASE Forwarded(m) = <<m>>
  <2>1. Len(Forwarded(m)) = 1 /\ Forwarded(m)[1] = m
    BY <1>2
  <2>2. IsExport(m, c) => Tells(Forwarded(m), c) /\ FirstIn(Forwarded(m), c)
    BY <2>1 DEF Tells, FirstIn
  <2>3. m.control # c => FirstIn(Forwarded(m), c)
    BY <2>1 DEF FirstIn
  <2>4. ASSUME subs = 0 PROVE FALSE
    <3>1. Forwarded(m) = <<>> /\ Len(<<>>) = 0
      BY <2>4, ForwardedType
    <3>2. QED
      BY <2>1, <3>1
  <2>5. QED
    BY <2>2, <2>3, <2>4
<1>3. QED
  BY <1>1, <1>2, ForwardedType

\* Three sequences are joined in either order; a name for it, for the provers to match.
Associate(a, b, c) == (a \o b) \o c = a \o (b \o c)

LEMMA ConcatAssociates == \A M : \A a, b, c \in Seq(M) : Associate(a, b, c)
BY ConcatAssociative, Zenon DEF Associate

LEMMA ConcatFour ==
  ASSUME NEW q \in Seq(Message), NEW r \in Seq(Message), NEW s \in Seq(Message),
         NEW t \in Seq(Message)
  PROVE  q \o r \o s \o t = q \o (r \o s \o t)
<1>1. Associate(q, r, s)
  BY ConcatAssociates, Zenon
<1>2. PICK u \in Seq(Message) : u = r \o s
  BY ConcatProperties
<1>3. Associate(q, u, t)
  BY ConcatAssociates, Zenon
<1>4. QED
  BY <1>1, <1>2, <1>3, Zenon DEF Associate

LEMMA ExportInit == Init => ExportInv
BY DEF Init, ExportInv, Closed

LEMMA SendInit == Init => SendInv
BY DEF Init, SendInv

\* What a step that appends q does for c.
LEMMA ClosedAfter ==
  ASSUME NEW c \in Unexported \ blind, ExportInv, TypeOK,
         NEW q \in Seq(Message), inbox' = inbox \o q, UNCHANGED <<pc, subs, known, disabled, hand>>,
         device'[c] # None => device[c] # None \/ subs < 3 \/ Tells(q, c),
         pc # "LoopFor" /\ ~Shut(c) =>
           /\ FirstIn(q, c) \/ (device[c] # None /\ subs > 0)
           /\ device'[c] # None => device[c] # None \/ subs = 0 \/ Tells(q, c)
  PROVE  Closed(c)'
<1>1. inbox \in Seq(Message) /\ Closed(c) /\ subs \in 0..3
  BY DEF TypeOK, ExportInv
<1>1a. Tells(inbox, c) \/ Tells(q, c) => Tells(inbox', c)
  BY <1>1, TellsConcat
<1>1b. Shut(c)' = Shut(c)
  BY DEF Shut, FlagInHand
<1>2. pc = "LoopFor" /\ subs = 3 /\ device'[c] # None => Shut(c) \/ Tells(inbox', c)
  BY <1>1, <1>1a DEF Closed
<1>3. ASSUME pc # "LoopFor", ~Shut(c)
      PROVE  /\ c \notin known /\ FirstIn(inbox', c)
             /\ subs > 0 /\ device'[c] # None => Tells(inbox', c)
  <2>1. /\ c \notin known /\ FirstIn(inbox, c)
        /\ subs > 0 /\ device[c] # None => Tells(inbox, c)
    BY <1>1, <1>3 DEF Closed
  <2>2. FirstIn(inbox', c)
    BY <1>1, <1>3, <2>1, FirstConcat
  <2>3. subs > 0 /\ device'[c] # None => Tells(inbox', c)
    BY <1>1, <1>1a, <1>3, <2>1
  <2>4. QED
    BY <2>1, <2>2, <2>3
<1>4. QED
  BY <1>1b, <1>2, <1>3 DEF Closed

\* What a step does for c that takes the message at the front, or has one in its hand.
LEMMA ClosedBehind ==
  ASSUME NEW c \in Unexported \ blind, ExportInv, TypeOK, UNCHANGED <<pc, subs, device>>,
         Shut(c) => Shut(c)',
         \/ UNCHANGED <<known, inbox>>
         \/ /\ inbox # <<>> /\ inbox' = Tail(inbox)
            /\ known' = known \cup {Head(inbox).control}
            /\ IsExport(Head(inbox), c) => Shut(c)'
  PROVE  Closed(c)'
<1>1. inbox \in Seq(Message) /\ Closed(c)
  BY DEF TypeOK, ExportInv
<1>2. CASE Shut(c)'
  BY <1>2 DEF Closed
<1>3. CASE ~Shut(c)' /\ UNCHANGED <<known, inbox>>
  BY <1>1, <1>3 DEF Closed
<1>4. CASE ~Shut(c)' /\ inbox # <<>> /\ inbox' = Tail(inbox)
           /\ known' = known \cup {Head(inbox).control} /\ ~IsExport(Head(inbox), c)
  <2>1. /\ Tells(inbox, c) => Tells(inbox', c)
        /\ FirstIn(inbox, c) => FirstIn(inbox', c) /\ Head(inbox).control # c
    BY <1>1, <1>4, FlagsOfTail
  <2>2. QED
    BY <1>1, <1>4, <2>1 DEF Closed
<1>5. QED
  BY <1>2, <1>3, <1>4

LEMMA ExportStep ==
  ExportInv /\ TypeOK /\ Heard /\ TokenInv /\ Activation /\ SendInv /\ [Next]_vars => ExportInv'
<1> SUFFICES ASSUME ExportInv, TypeOK, Heard, TokenInv, Activation, SendInv, [Next]_vars
             PROVE  ExportInv'
  OBVIOUS
<1>1. CASE /\ UNCHANGED <<cacheVars, hand, localVars, device, blind>>
           /\ pc' = pc \/ "LoopFor" \notin {pc, pc'}
  BY <1>1 DEF ExportInv, Closed, Shut, FlagInHand, cacheVars, localVars
<1>2. ASSUME \/ TryReadToken \/ TryActivateBlock \/ WriteToken \/ ConnectToCloud \/ InitHandler
             \/ ReadStored \/ SendStored
      PROVE  /\ UNCHANGED <<cacheVars, hand, localVars, device, blind>>
             /\ pc' = pc \/ "LoopFor" \notin {pc, pc'}
  BY <1>2 DEF TryReadToken, TryActivateBlock, WriteToken, ConnectToCloud, InitHandler,
              ReadStored, SendStored, mainVars, handVars
<1>3. ASSUME OnCloudConnect \/ Greeting \/ ConnackBeforeInit \/ OnCloudRefuses \/ GreetLosesWay
             \/ LoseCloud
      PROVE  UNCHANGED <<cacheVars, hand, localVars, device, blind, pc>>
  BY <1>3 DEF OnCloudConnect, Greeting, GreetExport, GreetType, GreetValue, GreetSend,
              SubscribeCommands, ConnackBeforeInit, OnCloudRefuses, GreetLosesWay, LoseCloud,
              mainVars, handVars
<1>4. CASE OnConnect \/ CloudCommands
  <2>1. UNCHANGED <<known, disabled, hand, subs, inbox, device, blind, pc>>
    BY <1>4 DEF OnConnect, CloudCommands, OnCloudCommand, mainVars, handVars, cacheVars, localVars
  <2>2. QED
    BY <2>1 DEF ExportInv, Closed, Shut, FlagInHand
<1>5. CASE LoopForEnds
  <2> SUFFICES ASSUME NEW c \in Unexported \ blind' PROVE Closed(c)'
    BY DEF ExportInv
  <2>1. /\ c \notin blind /\ pc = "LoopFor" /\ ((subs = 3 /\ inbox = <<>>) \/ c \notin Appeared)
        /\ hand = None /\ UNCHANGED <<known, disabled, hand, subs, inbox, device>>
    BY <1>5 DEF LoopForEnds, Idle, handVars, cacheVars, localVars
  <2>2. c \in Controls /\ Closed(c) /\ pc' # "LoopFor"
    BY <1>5, <2>1, ControlsAssumption DEF ExportInv, LoopForEnds
  <2>3. CASE c \in Appeared
    <3>1. inbox = <<>> /\ subs = 3 /\ device[c] # None
      BY <2>1, <2>3 DEF Appeared
    <3>2. c \in disabled
      BY <2>1, <2>2, <3>1 DEF Closed, Shut, FlagInHand, Tells
    <3>3. QED
      BY <2>1, <2>2, <3>2 DEF Closed, Shut
  <2>4. CASE c \notin Appeared
    <3>1. c \notin known /\ device[c] = None
      BY <2>2, <2>4 DEF Heard, Appeared
    <3>2. FirstIn(inbox, c)
      BY <2>4, FirstOfOthers DEF Heard, Real
    <3>3. QED
      BY <2>1, <2>2, <3>1, <3>2 DEF Closed
  <2>5. QED
    BY <2>3, <2>4
<1>6. CASE GetOrAddControlDesc
  <2> SUFFICES ASSUME NEW c \in Unexported \ blind' PROVE Closed(c)'
    BY DEF ExportInv
  <2>1. /\ inbox # <<>> /\ inbox' = Tail(inbox) /\ hand = None /\ hand' = Head(inbox)
        /\ known' = known \cup {Head(inbox).control}
        /\ UNCHANGED <<pc, subs, device, disabled, blind>>
    BY <1>6 DEF GetOrAddControlDesc, Looping, Idle, mainVars
  <2>2. hand' # None
    BY <2>1, HeadOfInbox, NoneAssumption
  <2>3. /\ Shut(c) => Shut(c)'
        /\ IsExport(Head(inbox), c) => Shut(c)'
    BY <2>1, <2>2 DEF Shut, FlagInHand, IsExport
  <2>4. QED
    BY <2>1, <2>3, ClosedBehind
<1>6a. CASE OnType \/ OnExport \/ OnValue
  <2> SUFFICES ASSUME NEW c \in Unexported \ blind' PROVE Closed(c)'
    BY DEF ExportInv
  <2>1. /\ Finds /\ HandsOver /\ UNCHANGED <<pc, subs, device, blind, known>>
        /\ disabled \subseteq disabled'
        /\ Handled.kind = "export" => Handled.control \in disabled'
    BY <1>6a DEF OnType, OnExport, OnValue, mainVars
  <2>2. CASE hand # None
    <3>1. Handled = hand /\ inbox' = inbox
      BY <2>1, <2>2 DEF Handled, HandsOver
    <3>2. Shut(c) => Shut(c)'
      BY <2>1, <3>1 DEF Shut, FlagInHand
    <3>3. QED
      BY <2>1, <3>1, <3>2, ClosedBehind
  <2>3. CASE hand = None
    <3>1. /\ Handled = Head(inbox) /\ inbox # <<>> /\ inbox' = Tail(inbox)
          /\ Head(inbox).control \in known
      BY <2>1, <2>3 DEF Finds, Handled, HandsOver
    <3>2. /\ Shut(c) => Shut(c)'
          /\ IsExport(Head(inbox), c) => Shut(c)'
      BY <2>1, <2>3, <3>1 DEF Shut, FlagInHand, IsExport
    <3>3. known' = known \cup {Head(inbox).control}
      BY <2>1, <3>1
    <3>4. QED
      BY <2>1, <3>1, <3>2, <3>3, ClosedBehind
  <2>4. QED
    BY <2>2, <2>3
<1>7. CASE PublishCommand
  <2> SUFFICES ASSUME NEW c \in Unexported \ blind' PROVE Closed(c)'
    BY DEF ExportInv
  <2>1. UNCHANGED <<pc, subs, known, disabled, hand, blind>> /\ command # None
    BY <1>7 DEF PublishCommand, mainVars, handVars, cacheVars
  <2>2. Closed(c) /\ pc # "LoopFor"
    BY <2>1 DEF ExportInv, TokenInv, Activation
  <2>3. CASE local = "down"
    <3>1. UNCHANGED <<device, inbox>>
      BY <1>7, <2>3 DEF PublishCommand
    <3>2. QED
      BY <2>1, <2>2, <3>1 DEF Closed, Shut, FlagInHand
  <2>4. CASE local # "down"
    <3> DEFINE m == ValueOf(command, val[command])
    <3>1. inbox' = inbox \o Forwarded(m) /\ device' = [device EXCEPT ![command] = val[command]]
      BY <1>7, <2>4 DEF PublishCommand
    <3>2. command \in known /\ command \in Controls /\ val[command] \in AnyValue
      BY <2>1 DEF Heard, TypeOK
    <3>3. m \in Message /\ m.control = command
      BY <3>2, MessageTypes DEF ValueOf
    <3>4. Forwarded(m) \in Seq(Message)
      BY <3>3, ForwardedType
    <3>5. CASE Shut(c)
      BY <2>1, <3>5 DEF Closed, Shut, FlagInHand
    <3>6. CASE ~Shut(c)
      <4>1. c # command
        BY <2>2, <3>2, <3>6 DEF Closed
      <4>2. device'[c] = device[c]
        BY <3>1, <4>1, ControlsAssumption DEF TypeOK
      <4>3. FirstIn(Forwarded(m), c)
        BY <3>3, <4>1, FlagsOfForwarded
      <4> HIDE DEF m
      <4>4. QED
        BY <2>1, <3>1, <3>4, <4>2, <4>3, ClosedAfter
    <3>7. QED
      BY <3>5, <3>6
  <2>5. QED
    BY <2>3, <2>4
<1>8. CASE BrokerSubscribes
  <2> SUFFICES ASSUME NEW c \in Unexported \ blind' PROVE Closed(c)'
    BY DEF ExportInv
  <2>1. /\ subs + 1 \in 1..3 /\ subs' = subs + 1
        /\ inbox' = inbox \o Replay(subs + 1)
        /\ UNCHANGED <<pc, known, disabled, hand, device>>
        /\ c \in Controls \ blind /\ (pc # "LoopFor" => c \notin Appeared \ known)
    BY <1>8, ControlsAssumption DEF BrokerSubscribes, TypeOK, mainVars, handVars, cacheVars
  <2>2. Closed(c) /\ inbox \in Seq(Message) /\ Shut(c)' = Shut(c)
    BY <2>1 DEF ExportInv, TypeOK, Shut, FlagInHand
  <2>3. /\ Replay(subs + 1) \in Seq(Message) /\ Real(Replay(subs + 1), Appeared)
        /\ subs + 1 = 3 /\ c \in Appeared => Tells(Replay(subs + 1), c)
    <3>1. ExportOf(c).control = c /\ ExportOf(c).kind = "export"
      BY DEF ExportOf
    <3>2. QED
      BY <2>1, <3>1, ReplayOf, SMTT(40) DEF Real, Tells, IsExport, TypeOK
  <2>4. CASE pc = "LoopFor"
    <3>1. subs' = 3 /\ device'[c] # None => Tells(inbox', c)
      BY <2>1, <2>2, <2>3, TellsConcat DEF Appeared
    <3>2. QED
      BY <2>1, <2>2, <2>4, <3>1 DEF Closed
  <2>5. CASE pc # "LoopFor" /\ c \in known
    BY <2>1, <2>2, <2>5 DEF Closed
  <2>6. CASE pc # "LoopFor" /\ c \notin Appeared
    <3>1. FirstIn(Replay(subs + 1), c)
      BY <2>3, <2>6, FirstOfOthers DEF Real
    <3>2. Shut(c) \/ FirstIn(inbox', c)
      BY <2>1, <2>2, <2>3, <2>6, <3>1, FirstConcat DEF Closed
    <3>3. c \notin known /\ device'[c] = None
      BY <2>1, <2>6 DEF Heard, Appeared
    <3>4. QED
      BY <2>1, <2>2, <2>6, <3>2, <3>3 DEF Closed
  <2>7. QED
    BY <2>1, <2>4, <2>5, <2>6
<1>9. ASSUME NEW d \in Controls, NEW v \in Values[d], Appears(d, v)
      PROVE  ExportInv'
  <2> SUFFICES ASSUME NEW c \in Unexported \ blind' PROVE Closed(c)'
    BY DEF ExportInv
  <2> DEFINE E == IF d \in Unexported THEN Forwarded(ExportOf(d)) ELSE <<>>
             T == Forwarded(TypeOf(d))
             V == Forwarded(ValueOf(d, v))
  <2>1. /\ inbox' = inbox \o E \o T \o V /\ device[d] = None
        /\ device' = [device EXCEPT ![d] = v]
        /\ UNCHANGED <<pc, subs, known, disabled, hand>>
        /\ c \in Controls \ blind /\ (subs < 3 => c # d)
    BY <1>9, ControlsAssumption DEF Appears, mainVars, handVars, cacheVars
  <2>2. /\ ExportOf(d) \in Message /\ TypeOf(d) \in Message /\ ValueOf(d, v) \in Message
        /\ ExportOf(d).control = d /\ TypeOf(d).control = d /\ ValueOf(d, v).control = d
        /\ IsExport(ExportOf(d), d)
    BY ValueTypes, MessageTypes DEF ExportOf, TypeOf, ValueOf, IsExport
  <2>3. inbox \in Seq(Message) /\ T \in Seq(Message) /\ V \in Seq(Message)
    BY <2>2, ForwardedType DEF TypeOK
  <2>4. E \in Seq(Message)
    <3>1. <<>> \in Seq(Message)
      OBVIOUS
    <3>2. QED
      BY <2>2, <3>1, ForwardedType
  <2>5. FirstIn(E, c) /\ (c = d => Tells(E, c))
    <3>1. CASE c = d
      <4>1. subs = 3 /\ E = Forwarded(ExportOf(d))
        BY <2>1, <3>1 DEF TypeOK
      <4> HIDE DEF E
      <4>2. QED
        BY <2>2, <3>1, <4>1, FlagsOfForwarded
    <3>2. CASE c # d
      <4>1. FirstIn(<<>>, c)
        BY DEF FirstIn
      <4>2. QED
        BY <2>2, <3>2, <4>1, FlagsOfForwarded
    <3>3. QED
      BY <3>1, <3>2
  <2>6. FirstIn(T, c) \/ c = d
    BY <2>2, FlagsOfForwarded
  <2>7. FirstIn(V, c) \/ c = d
    BY <2>2, FlagsOfForwarded
  <2> HIDE DEF E, T, V
  <2>8. E \o T \in Seq(Message) /\ FirstIn(E \o T, c) /\ (c = d => Tells(E \o T, c))
    BY <2>3, <2>4, <2>5, <2>6, ConcatProperties, FirstConcat, TellsConcat
  <2>9. /\ E \o T \o V \in Seq(Message) /\ FirstIn(E \o T \o V, c)
        /\ c = d => Tells(E \o T \o V, c)
    BY <2>3, <2>7, <2>8, ConcatProperties, FirstConcat, TellsConcat
  <2>10. inbox' = inbox \o (E \o T \o V)
    <3>1. inbox \o E \o T \o V = inbox \o (E \o T \o V)
      <4>1. \A q, r, s, t \in Seq(Message) : q \o r \o s \o t = q \o (r \o s \o t)
        BY ConcatFour, Zenon
      <4>2. \A r, s, t \in Seq(Message) : inbox \o r \o s \o t = inbox \o (r \o s \o t)
        BY <2>3, <4>1, Zenon
      <4>3. \A s, t \in Seq(Message) : inbox \o E \o s \o t = inbox \o (E \o s \o t)
        BY <2>4, <4>2, Zenon
      <4>4. \A t \in Seq(Message) : inbox \o E \o T \o t = inbox \o (E \o T \o t)
        BY <2>3, <4>3, Zenon
      <4>5. QED
        BY <2>3, <4>4, Zenon
    <3>2. QED
      BY <2>1, <3>1, Zenon
  <2>11. c # d => device'[c] = device[c]
    BY <2>1 DEF TypeOK
  <2>12. QED
    BY <2>1, <2>9, <2>10, <2>11, ClosedAfter
<1>10. ASSUME NEW d \in Controls, NEW v \in Values[d], Measures(d, v)
       PROVE  ExportInv'
  <2> SUFFICES ASSUME NEW c \in Unexported \ blind' PROVE Closed(c)'
    BY DEF ExportInv
  <2> DEFINE V == Forwarded(ValueOf(d, v))
  <2>1. /\ inbox' = inbox \o V /\ device[d] # None
        /\ device' = [device EXCEPT ![d] = v]
        /\ UNCHANGED <<pc, subs, known, disabled, hand>>
        /\ c \in Controls \ blind
    BY <1>10, ControlsAssumption DEF Measures, mainVars, handVars, cacheVars
  <2>2. ValueOf(d, v) \in Message /\ ValueOf(d, v).control = d
    BY ValueTypes, MessageTypes DEF ValueOf
  <2>3. V \in Seq(Message)
    BY <2>2, ForwardedType
  <2>4. FirstIn(V, c) \/ (c = d /\ subs # 0)
    BY <2>2, FlagsOfForwarded
  <2>5. c # d => device'[c] = device[c]
    BY <2>1 DEF TypeOK
  <2>6. FirstIn(V, c) \/ (device[c] # None /\ subs > 0)
    BY <2>1, <2>4 DEF TypeOK
  <2>7. device'[c] # None => device[c] # None
    BY <2>1, <2>5
  <2> HIDE DEF V
  <2>8. QED
    BY <2>1, <2>3, <2>6, <2>7, ClosedAfter
<1>11. CASE LoseLocal
  BY <1>11 DEF LoseLocal, ExportInv, Closed, Shut, FlagInHand, FirstIn, mainVars, handVars,
               cacheVars
<1>12. CASE Restart
  BY <1>12 DEF Restart, ExportInv, Closed
<1>13. CASE UNCHANGED vars
  BY <1>13, <1>1 DEF vars, mainVars, handVars
<1>14. QED
  BY <1>1, <1>2, <1>3, <1>4, <1>5, <1>6, <1>6a, <1>7, <1>8, <1>9, <1>10, <1>11, <1>12, <1>13
     DEF Next, MainThread, CloudThread, Devices, Disturbance

LEMMA SendStep ==
  SendInv /\ ExportInv /\ TypeOK /\ TokenInv /\ Activation /\ [Next]_vars => SendInv'
<1> SUFFICES ASSUME SendInv, ExportInv, TypeOK, TokenInv, Activation, [Next]_vars
             PROVE  SendInv'
  OBVIOUS
<1>0. reading # None => stored # None
  BY DEF TypeOK
<1>1. CASE UNCHANGED <<handVars, pos, at, raced>> /\ blind \subseteq blind'
  BY <1>1 DEF SendInv, handVars
<1>2. ASSUME \/ LoopForEnds \/ TryReadToken \/ TryActivateBlock \/ WriteToken \/ ConnectToCloud
             \/ InitHandler \/ OnConnect \/ ConnackBeforeInit \/ OnCloudRefuses
             \/ PublishCommand \/ CloudCommands \/ BrokerSubscribes \/ Devices
             \/ LoseCloud \/ LoseLocal
      PROVE  UNCHANGED <<handVars, pos, at, raced>> /\ blind \subseteq blind'
  <2>1. ASSUME \/ LoopForEnds \/ TryReadToken \/ TryActivateBlock \/ WriteToken
               \/ ConnectToCloud \/ InitHandler \/ OnConnect \/ ConnackBeforeInit
        PROVE  UNCHANGED <<handVars, pos, at, raced>> /\ blind \subseteq blind'
    BY <2>1 DEF LoopForEnds, TryReadToken, TryActivateBlock, WriteToken, ConnectToCloud,
                InitHandler, OnConnect, ConnackBeforeInit, greetVars
  <2>2. ASSUME \/ OnCloudRefuses \/ PublishCommand \/ CloudCommands \/ BrokerSubscribes
               \/ Devices \/ LoseCloud \/ LoseLocal
        PROVE  UNCHANGED <<handVars, pos, at, raced>> /\ blind \subseteq blind'
    BY <2>2 DEF OnCloudRefuses, PublishCommand, CloudCommands, OnCloudCommand,
                BrokerSubscribes, Devices, Appears, Measures, LoseCloud, LoseLocal, greetVars
  <2>3. QED
    BY <1>2, <2>1, <2>2
<1>3. CASE GetOrAddControlDesc \/ OnType \/ OnExport
  <2>1. UNCHANGED <<stored, reading, pos, at, raced, blind>>
    BY <1>3 DEF GetOrAddControlDesc, OnType, OnExport, greetVars
  <2>2. hand' = None \/ stored = None
    BY <1>3 DEF GetOrAddControlDesc, OnType, OnExport, HandsOver, Looping, Idle
  <2>3. QED
    BY <2>1, <2>2 DEF SendInv
<1>4. CASE OnValue
  <2>1. hand' = None /\ UNCHANGED <<reading, pos, at, raced, blind>>
    BY <1>4 DEF OnValue, HandsOver, greetVars
  <2>2. reading = None
    BY <1>0, <1>4 DEF OnValue, Finds, Looping, Idle, SendInv
  <2>3. QED
    BY <2>1, <2>2 DEF SendInv
<1>5. CASE ReadStored
  <2>1. UNCHANGED <<hand, pos, at, raced, blind>> /\ stored' \in {stored, None}
    BY <1>5 DEF ReadStored, greetVars
  <2>2. ASSUME reading' # None, stored' \in Unexported \ blind
        PROVE  FALSE
    <3>1. stored' = stored /\ stored \notin disabled /\ handler # "none" /\ stored # None
      BY <1>5, <2>2 DEF ReadStored, Exported
    <3>2. stored \in known /\ pc # "LoopFor"
      BY <3>1 DEF TypeOK, TokenInv
    <3>3. Shut(stored)
      BY <2>2, <3>1, <3>2 DEF ExportInv, Closed
    <3>4. hand = None
      BY <3>1 DEF SendInv
    <3>5. QED
      BY <3>1, <3>3, <3>4 DEF Shut, FlagInHand
  <2>3. QED
    BY <2>1, <2>2 DEF SendInv
<1>6. CASE SendStored
  BY <1>6 DEF SendStored, SendInv, greetVars
<1>7. CASE OnCloudConnect \/ SubscribeCommands
  <2>1. UNCHANGED <<handVars, at, blind>> /\ at = "next"
    BY <1>7 DEF OnCloudConnect, SubscribeCommands, TypeOK
  <2>2. QED
    BY <2>1 DEF SendInv, handVars
<1>8. CASE GreetExport
  <2>1. PICK c \in Ahead : /\ pos' = c /\ raced' = FlagInHand(c)
                           /\ at' = IF Exported(c) THEN "type" ELSE "next"
    BY <1>8 DEF GreetExport
  <2>2. UNCHANGED <<handVars, blind>> /\ c \in known /\ pc # "LoopFor"
    BY <1>8, <2>1 DEF GreetExport, Ahead, Activation, TokenInv
  <2>3. ASSUME at' # "next", c \in Unexported \ blind
        PROVE  raced'
    <3>1. c \notin disabled
      BY <2>1, <2>3 DEF Exported
    <3>2. Shut(c)
      BY <2>2, <2>3 DEF ExportInv, Closed
    <3>3. FlagInHand(c)
      BY <3>1, <3>2 DEF Shut
    <3>4. QED
      BY <2>1, <3>3, Zenon
  <2>4. at' # "next" => pos' \notin Unexported \ blind' \/ raced'
    BY <2>1, <2>2, <2>3
  <2>5. QED
    BY <2>2, <2>4 DEF SendInv, handVars
<1>9. CASE GreetType \/ GreetValue \/ GreetSend
  <2>1. /\ UNCHANGED <<handVars, pos, raced, blind>>
        /\ at # "next"
    BY <1>9 DEF GreetType, GreetValue, GreetSend
  <2>2. QED
    BY <2>1 DEF SendInv, handVars
<1>10. CASE GreetLosesWay
  <2>1. UNCHANGED <<handVars, at, blind>> /\ at = "next"
    BY <1>10 DEF GreetLosesWay
  <2>2. QED
    BY <2>1 DEF SendInv, handVars
<1>11. CASE Restart
  BY <1>11 DEF Restart, SendInv
<1>12. CASE UNCHANGED vars
  BY <1>12, <1>1 DEF vars, greetVars
<1>13. QED
  BY <1>1, <1>2, <1>3, <1>4, <1>5, <1>6, <1>7, <1>8, <1>9, <1>10, <1>11, <1>12
     DEF Next, MainThread, CloudThread, Greeting, Disturbance

LEMMA ExportAction ==
  ASSUME SendInv, TypeOK, [Next]_vars, NEW c \in Unexported
  PROVE  cloud'[c] = cloud[c] \/ c \in blind \/ (raced /\ c = pos /\ GreetSend)
<1>1. ASSUME NEW d, NEW v, SendDeviceData(d, v), c # d
      PROVE  cloud'[c] = cloud[c]
  BY <1>1, ControlsAssumption DEF SendDeviceData, TypeOK
<1>2. CASE SendStored
  <2>1. reading # None /\ SendDeviceData(stored, reading)
    BY <1>2 DEF SendStored
  <2>2. c # stored \/ c \in blind
    BY <2>1 DEF SendInv
  <2>3. QED
    BY <1>1, <2>1, <2>2
<1>3. CASE GreetSend
  <2>1. at # "next" /\ SendDeviceData(pos, picked)
    BY <1>3 DEF GreetSend
  <2>2. c # pos \/ c \in blind \/ raced
    BY <2>1 DEF SendInv
  <2>3. QED
    BY <1>1, <1>3, <2>1, <2>2
<1>4. ASSUME \/ LoopForEnds \/ TryReadToken \/ TryActivateBlock \/ WriteToken \/ ConnectToCloud
             \/ InitHandler \/ OnConnect \/ GetOrAddControlDesc \/ OnType \/ OnExport \/ OnValue
             \/ ReadStored
      PROVE  UNCHANGED cloud
  BY <1>4 DEF LoopForEnds, TryReadToken, TryActivateBlock, WriteToken, ConnectToCloud,
              InitHandler, OnConnect, GetOrAddControlDesc, OnType, OnExport, OnValue, ReadStored
<1>5. ASSUME \/ OnCloudConnect \/ GreetExport \/ GreetType \/ GreetValue \/ SubscribeCommands
             \/ ConnackBeforeInit \/ OnCloudRefuses \/ GreetLosesWay \/ PublishCommand
             \/ CloudCommands
      PROVE  UNCHANGED cloud
  BY <1>5 DEF OnCloudConnect, GreetExport, GreetType, GreetValue, SubscribeCommands,
              ConnackBeforeInit, OnCloudRefuses, GreetLosesWay, PublishCommand,
              CloudCommands, OnCloudCommand
<1>6. ASSUME BrokerSubscribes \/ Devices \/ Disturbance \/ UNCHANGED vars
      PROVE  UNCHANGED cloud
  BY <1>6 DEF BrokerSubscribes, Devices, Appears, Measures, Disturbance, LoseCloud, LoseLocal,
              Restart, vars
<1>7. QED
  BY <1>2, <1>3, <1>4, <1>5, <1>6 DEF Next, MainThread, CloudThread, Greeting

\* The cloud is told nothing of a control with meta/export "0", in whatever order the two
\* threads access its entry and the retained messages come, with two exceptions: the
\* replay in which the flag cannot come first, behind LoopFor, and a greeting that reads
\* Export while OnMessage has inserted the control and not yet set it.
THEOREM ExportIsRespected == Spec => ExportRespected
<1> DEFINE Inv == ExportInv /\ SendInv /\ TypeOK /\ Heard /\ TokenInv /\ Activation
<1>1. Init => Inv
  BY ExportInit, SendInit, TypeInit, HeardInit, TokenInit, ActivationInit
<1>2. Inv /\ [Next]_vars => Inv'
  BY ExportStep, SendStep, TypeStep, HeardStep, TokenStep, ActivationStep
<1>3. Inv /\ [Next]_vars =>
        [\A c \in Unexported : \/ cloud'[c] = cloud[c] \/ c \in blind
                               \/ raced /\ c = pos /\ GreetSend]_vars
  BY ExportAction
<1>4. QED
  BY <1>1, <1>2, <1>3, PTL DEF Spec, ExportRespected

=============================================================================
