--------------------------- MODULE OneWire_proofs ---------------------------
(***************************************************************************)
(* Theorems about the 1-Wire driver: what holds for any sensors, readings, *)
(* retained topics, outages and ends of the process.                       *)
(***************************************************************************)
EXTENDS OneWire, FiniteSetTheorems, SequenceTheorems, TLAPS

-----------------------------------------------------------------------------
(***************************************************************************)
(* Sequences.                                                              *)
(***************************************************************************)

\* SetToSeq lists a set of sensors.
LEMMA SensorSeq ==
  ASSUME NEW S \in SUBSET Sensors
  PROVE  /\ SetToSeq(S) \in Seq(S) /\ Len(SetToSeq(S)) \in Nat
         /\ \A k \in 1..Len(SetToSeq(S)) : SetToSeq(S)[k] \in S
         /\ \A x \in S : \E k \in 1..Len(SetToSeq(S)) : SetToSeq(S)[k] = x
<1> DEFINE n == Cardinality(S)
<1>1. IsFiniteSet(S)
  BY FS_Subset, SensorsAssumption
<1>2. n \in Nat /\ ExistsBijection(1..n, S)
  BY <1>1, FS_CardinalityType
<1>3. \E f \in [1..n -> S] : IsInjective(f)
  BY <1>2 DEF ExistsBijection, Bijection, Injection
<1>4. SetToSeq(S) \in [1..n -> S] /\ IsInjective(SetToSeq(S))
  BY <1>3 DEF SetToSeq
<1>5. SetToSeq(S) \in Injection(1..n, S)
  BY <1>4 DEF Injection
<1>6. IsFiniteSet(1..n) /\ Cardinality(1..n) = n
  BY <1>2, FS_Interval
<1>7. SetToSeq(S) \in Surjection(1..n, S)
  BY <1>1, <1>5, <1>6, FS_Injection
<1>8. SetToSeq(S) \in Seq(S) /\ Len(SetToSeq(S)) = n
  BY <1>2, <1>4
<1>9. QED
  BY <1>2, <1>4, <1>7, <1>8 DEF Surjection

\* The elements of s \o t and of Tail(s).
LEMMA ConcatOf ==
  ASSUME NEW s \in Seq(Message), NEW t \in Seq(Message)
  PROVE  /\ s \o t \in Seq(Message) /\ Len(s \o t) = Len(s) + Len(t)
         /\ Len(s) \in Nat /\ Len(t) \in Nat
         /\ \A k \in 1..Len(s) : (s \o t)[k] = s[k]
         /\ \A k \in 1..Len(t) : (s \o t)[Len(s) + k] = t[k]
         /\ \A k \in 1..Len(s \o t) : k > Len(s) => k - Len(s) \in 1..Len(t)
                                                    /\ (s \o t)[k] = t[k - Len(s)]
<1>1. Len(s) \in Nat /\ Len(t) \in Nat
  BY LenProperties
<1>2. QED
  BY <1>1, ConcatProperties

LEMMA TailOf ==
  ASSUME NEW s \in Seq(Message), s # <<>>
  PROVE  /\ Tail(s) \in Seq(Message) /\ Len(s) \in Nat \ {0} /\ Len(Tail(s)) = Len(s) - 1
         /\ Head(s) = s[1] /\ Head(s) \in Message
         /\ \A k \in 1..Len(Tail(s)) : k + 1 \in 1..Len(s) /\ Tail(s)[k] = s[k + 1]
         /\ \A k \in 1..Len(s) : k # 1 => k - 1 \in 1..Len(Tail(s)) /\ s[k] = Tail(s)[k - 1]
<1>1. Len(s) \in Nat \ {0}
  BY LenProperties, EmptySeq
<1>2. /\ Head(s) \in Message /\ Tail(s) \in Seq(Message) /\ Len(Tail(s)) = Len(s) - 1
      /\ \A k \in 1..Len(Tail(s)) : Tail(s)[k] = s[k + 1]
  BY HeadTailProperties
<1>3. Head(s) = s[1]
  OBVIOUS
<1>4. QED
  BY <1>1, <1>2, <1>3

-----------------------------------------------------------------------------
(***************************************************************************)
(* The messages.                                                           *)
(***************************************************************************)

LEMMA MessageTypes ==
  /\ {Connect, SubscribeControls, SubscribeHack, Unsubscribe, Hack} \subseteq Message
  /\ \A s \in Sensors :
       /\ Type(s, None) \in Message /\ Type(s, "temperature") \in Message
       /\ \A v \in Readings \cup {None} : Value(s, v) \in Message
BY DEF Message

\* Kinds of messages are told from one another.
LEMMA Kinds ==
  /\ Connect.kind = "connect" /\ SubscribeControls.kind = "controls"
  /\ SubscribeHack.kind = "hack topic" /\ Unsubscribe.kind = "unsubscribe"
  /\ Hack.kind = "hack"
  /\ \A s, v : Type(s, v).kind = "type" /\ Value(s, v).kind = "value"
               /\ Value(s, v).sensor = s /\ Value(s, v).value = v /\ Type(s, v).sensor = s
BY DEF Connect, SubscribeControls, SubscribeHack, Unsubscribe, Hack, Type, Value

LEMMA MessageFields ==
  ASSUME NEW m \in Message
  PROVE  /\ m.kind = "value" => /\ m.sensor \in Sensors /\ m.value \in Readings \cup {None}
                                /\ m = Value(m.sensor, m.value)
         /\ m.kind = "type" => m.sensor \in Sensors
<1>1. CASE m \in {Connect, SubscribeControls, SubscribeHack, Unsubscribe, Hack}
  BY <1>1, Kinds
<1>2. CASE \E s \in Sensors : \E v \in {None, "temperature"} : m = Type(s, v)
  BY <1>2 DEF Type
<1>3. CASE \E s \in Sensors : \E v \in Readings \cup {None} : m = Value(s, v)
  <2>1. PICK s \in Sensors, v \in Readings \cup {None} : m = Value(s, v)
    BY <1>3
  <2>2. m.kind = "value" /\ m.sensor = s /\ m.value = v
    BY <2>1 DEF Value
  <2>3. QED
    BY <2>1, <2>2
<1>4. QED
  BY <1>1, <1>2, <1>3 DEF Message

\* A reading of the bus is one that may be retained.
LEMMA ReadingTypes ==
  ASSUME bus \in BusStates, NEW s \in Sensors
  PROVE  ReadTemperature(bus[s]) \in Readings \cup {None}
<1>1. CASE ReadTemperature(bus[s]) = None
  BY <1>1
<1>2. CASE ReadTemperature(bus[s]) # None
  <2>1. bus[s] # None /\ bus[s].data \notin {85000, 127937}
        /\ ReadTemperature(bus[s]) = bus[s].data
    BY <1>2 DEF ReadTemperature
  <2>2. bus[s] \in Files[s]
    BY <2>1 DEF BusStates
  <2>3. bus[s].data \in UNION {{f.data : f \in Files[t]} : t \in Sensors}
    BY <2>2
  <2>4. QED
    BY <2>1, <2>3 DEF Readings
<1>3. QED
  BY <1>1, <1>2

\* No value of s is in q without a deletion behind it; q holds a deletion of s.
Clean(q, s) ==
  \A i \in 1..Len(q) :
    q[i].kind = "value" /\ q[i].sensor = s => \E j \in i..Len(q) : q[j] = Value(s, None)
Deletes(q, s) == \E i \in 1..Len(q) : q[i] = Value(s, None)

LEMMA GoneIs ==
  \A s : Gone(s) <=> (temp[s] = None \/ Deletes(up, s)) /\ Clean(up, s)
BY DEF Gone, Deletes, Clean

LEMMA DeletionsOf ==
  ASSUME NEW S \in SUBSET Sensors, NEW a, a = SetToSeq(S)
  PROVE  /\ Deletions(a) \in Seq(Message)
         /\ \A k \in 1..Len(Deletions(a)) :
              /\ Deletions(a)[k].kind = "type" \/ Deletions(a)[k].value = None
              /\ Deletions(a)[k].sensor \in S
              /\ AboutSensor(Deletions(a)[k])
         /\ \A s \in S : Deletes(Deletions(a), s)
<1> DEFINE n == 2 * Len(a)
           q == Deletions(a)
<1>1. /\ Len(a) \in Nat /\ \A k \in 1..Len(a) : a[k] \in S
      /\ \A x \in S : \E k \in 1..Len(a) : a[k] = x
  BY SensorSeq
<1>2. n \in Nat
  BY <1>1
<1>3. q = [k \in 1..n |-> IF k % 2 = 1 THEN Type(a[(k + 1) \div 2], None)
                                       ELSE Value(a[k \div 2], None)]
  BY DEF Deletions
<1>4. ASSUME NEW k \in 1..n
      PROVE  /\ q[k] \in Message /\ q[k].sensor \in S /\ AboutSensor(q[k])
             /\ q[k].kind = "type" \/ q[k].value = None
  <2>1. CASE k % 2 = 1
    <3>1. (k + 1) \div 2 \in 1..Len(a)
      BY <1>1, <2>1
    <3>2. PICK x \in S : q[k] = Type(x, None)
      BY <1>1, <1>3, <2>1, <3>1
    <3>3. Type(x, None) \in Message
      BY <3>2, MessageTypes
    <3>4. QED
      BY <3>2, <3>3 DEF AboutSensor, Type
  <2>2. CASE k % 2 # 1
    <3>1. k \div 2 \in 1..Len(a)
      BY <1>1, <2>2
    <3>2. PICK x \in S : q[k] = Value(x, None)
      BY <1>1, <1>3, <2>2, <3>1
    <3>3. Value(x, None) \in Message
      BY <3>2, MessageTypes
    <3>4. QED
      BY <3>2, <3>3 DEF AboutSensor, Value
  <2>3. QED
    BY <2>1, <2>2
<1>5. q \in [1..n -> Message]
  BY <1>3, <1>4
<1>6. q \in Seq(Message) /\ Len(q) = n
  BY <1>2, <1>5
<1>7. ASSUME NEW s \in S PROVE Deletes(q, s)
  <2>1. PICK j \in 1..Len(a) : a[j] = s
    BY <1>1
  <2>2. PICK k \in 1..n : k = 2 * j
    BY <1>1
  <2>3. k % 2 # 1 /\ k \div 2 = j
    BY <1>1, <2>2
  <2>4. q[k] = Value(s, None)
    BY <1>3, <2>1, <2>3
  <2>5. QED
    BY <1>6, <2>4 DEF Deletes
<1>8. QED
  BY <1>4, <1>6, <1>7

LEMMA CleanConcat ==
  ASSUME NEW s, NEW p \in Seq(Message), NEW q \in Seq(Message), Clean(q, s),
         Clean(p, s) \/ Deletes(q, s)
  PROVE  Clean(p \o q, s)
<1> SUFFICES ASSUME NEW i \in 1..Len(p \o q), (p \o q)[i].kind = "value",
                    (p \o q)[i].sensor = s
             PROVE  \E j \in i..Len(p \o q) : (p \o q)[j] = Value(s, None)
  BY DEF Clean
<1>1. CASE i > Len(p)
  <2>1. i - Len(p) \in 1..Len(q) /\ (p \o q)[i] = q[i - Len(p)]
    BY <1>1, ConcatOf
  <2>2. PICK j \in (i - Len(p))..Len(q) : q[j] = Value(s, None)
    BY <2>1 DEF Clean
  <2>3. j \in 1..Len(q) /\ Len(p) + j \in i..Len(p \o q)
    BY <2>1, ConcatOf
  <2>4. QED
    BY <2>2, <2>3, ConcatOf, SMTT(40)
<1>2. CASE ~(i > Len(p)) /\ Clean(p, s)
  <2>1. i \in 1..Len(p) /\ (p \o q)[i] = p[i]
    BY <1>2, ConcatOf
  <2>2. PICK j \in i..Len(p) : p[j] = Value(s, None)
    BY <1>2, <2>1 DEF Clean
  <2>3. j \in 1..Len(p) /\ j \in i..Len(p \o q)
    BY <2>1, ConcatOf
  <2>4. QED
    BY <2>2, <2>3, ConcatOf
<1>3. CASE ~(i > Len(p)) /\ Deletes(q, s)
  <2>1. PICK j \in 1..Len(q) : q[j] = Value(s, None)
    BY <1>3 DEF Deletes
  <2>2. Len(p) + j \in i..Len(p \o q)
    BY <1>3, ConcatOf
  <2>3. QED
    BY <2>1, <2>2, ConcatOf
<1>4. QED
  BY <1>1, <1>2, <1>3

LEMMA DeletesConcat ==
  ASSUME NEW s, NEW p \in Seq(Message), NEW q \in Seq(Message),
         Deletes(p, s) \/ Deletes(q, s)
  PROVE  Deletes(p \o q, s)
<1>1. CASE Deletes(p, s)
  <2>1. PICK k \in 1..Len(p) : p[k] = Value(s, None)
    BY <1>1 DEF Deletes
  <2>2. k \in 1..Len(p \o q) /\ (p \o q)[k] = p[k]
    BY ConcatOf
  <2>3. QED
    BY <2>1, <2>2 DEF Deletes
<1>2. CASE Deletes(q, s)
  <2>1. PICK k \in 1..Len(q) : q[k] = Value(s, None)
    BY <1>2 DEF Deletes
  <2>2. Len(p) + k \in 1..Len(p \o q) /\ (p \o q)[Len(p) + k] = q[k]
    BY ConcatOf
  <2>3. QED
    BY <2>1, <2>2 DEF Deletes
<1>3. QED
  BY <1>1, <1>2

\* The broker takes the message in front.
LEMMA CleanTail ==
  ASSUME NEW s, NEW q \in Seq(Message), q # <<>>, Clean(q, s)
  PROVE  /\ Clean(Tail(q), s)
         /\ Deletes(q, s) => Head(q) = Value(s, None) \/ Deletes(Tail(q), s)
         /\ Head(q).kind = "value" /\ Head(q).sensor = s =>
              Head(q) = Value(s, None) \/ Deletes(Tail(q), s)
<1>1. Clean(Tail(q), s)
  <2> SUFFICES ASSUME NEW i \in 1..Len(Tail(q)), Tail(q)[i].kind = "value",
                      Tail(q)[i].sensor = s
               PROVE  \E j \in i..Len(Tail(q)) : Tail(q)[j] = Value(s, None)
    BY DEF Clean
  <2>1. i + 1 \in 1..Len(q) /\ Tail(q)[i] = q[i + 1]
    BY TailOf
  <2>2. PICK j \in (i + 1)..Len(q) : q[j] = Value(s, None)
    BY <2>1 DEF Clean
  <2>3. j \in 1..Len(q) /\ j # 1 /\ j - 1 \in i..Len(Tail(q))
    BY <2>1, TailOf
  <2>4. Tail(q)[j - 1] = Value(s, None)
    BY <2>2, <2>3, TailOf
  <2>5. QED
    BY <2>3, <2>4
<1>2. Deletes(q, s) => q[1] = Value(s, None) \/ Deletes(Tail(q), s)
  <2> SUFFICES ASSUME Deletes(q, s), q[1] # Value(s, None) PROVE Deletes(Tail(q), s)
    OBVIOUS
  <2>1. PICK k \in 1..Len(q) : q[k] = Value(s, None)
    BY DEF Deletes
  <2>2. k - 1 \in 1..Len(Tail(q)) /\ q[k] = Tail(q)[k - 1]
    BY <2>1, TailOf
  <2>3. QED
    BY <2>1, <2>2 DEF Deletes
<1>3. ASSUME q[1].kind = "value", q[1].sensor = s PROVE Deletes(q, s)
  <2>1. 1 \in 1..Len(q)
    BY TailOf
  <2>2. PICK j \in 1..Len(q) : q[j] = Value(s, None)
    BY <1>3, <2>1 DEF Clean
  <2>3. QED
    BY <2>2 DEF Deletes
<1>4. Head(q) = q[1]
  BY TailOf
<1>5. QED
  BY <1>1, <1>2, <1>3, <1>4

\* The sensors messages are about.
LEMMA DroppedOf ==
  ASSUME NEW q \in Seq(Message)
  PROVE  /\ Dropped(q) \subseteq Sensors
         /\ \A i \in 1..Len(q) : q[i].kind = "value" => q[i].sensor \in Dropped(q)
         /\ \A s \in Sensors : Deletes(q, s) => s \in Dropped(q)
<1>1. DOMAIN q = 1..Len(q) /\ \A i \in 1..Len(q) : q[i] \in Message
  BY LenProperties, ElementOfSeq
<1>2. \A i \in 1..Len(q) : AboutSensor(q[i]) => q[i].sensor \in Sensors
  BY <1>1, MessageFields DEF AboutSensor
<1>3. Dropped(q) = {q[i].sensor : i \in {j \in 1..Len(q) : AboutSensor(q[j])}}
  BY <1>1 DEF Dropped
<1>4. \A i \in 1..Len(q) : q[i].kind = "value" => q[i].sensor \in Dropped(q)
  BY <1>3 DEF AboutSensor
<1>5. \A s \in Sensors : Deletes(q, s) => s \in Dropped(q)
  <2> SUFFICES ASSUME NEW s \in Sensors, NEW i \in 1..Len(q), q[i] = Value(s, None)
               PROVE  s \in Dropped(q)
    BY DEF Deletes
  <2>1. q[i].kind = "value" /\ q[i].sensor = s
    BY DEF Value
  <2>2. QED
    BY <1>4, <2>1
<1>6. QED
  BY <1>2, <1>3, <1>4, <1>5

\* A scan deletes what is absent and publishes no value.
LEMMA AnnouncementsOf ==
  ASSUME known \subseteq Sensors
  PROVE  /\ Announcements \in Seq(Message)
         /\ \A s \in Sensors : Clean(Announcements, s)
         /\ \A s \in known \ Present : Deletes(Announcements, s)
<1> DEFINE added == SetToSeq(Present \ known)
           absent == SetToSeq(known \ Present)
           types == [i \in 1..Len(added) |-> Type(added[i], "temperature")]
<1>1. Present \ known \in SUBSET Sensors /\ known \ Present \in SUBSET Sensors
  BY DEF Present
<1>2. Len(added) \in Nat /\ \A i \in 1..Len(added) : added[i] \in Sensors
  BY <1>1, SensorSeq
<1>3. types \in [1..Len(added) -> Message]
  BY <1>2, MessageTypes
<1> HIDE DEF types, added, absent
<1>4. types \in Seq(Message) /\ Len(types) = Len(added)
  BY <1>2, <1>3
<1>5. \A s : Clean(types, s)
  <2>1. \A i \in 1..Len(types) : types[i].kind = "type"
    BY <1>4 DEF types, Type
  <2>2. QED
    BY <2>1 DEF Clean
<1>6. /\ Deletions(absent) \in Seq(Message)
      /\ \A k \in 1..Len(Deletions(absent)) :
           Deletions(absent)[k].kind = "type" \/ Deletions(absent)[k].value = None
      /\ \A s \in known \ Present : Deletes(Deletions(absent), s)
  BY <1>1, DeletionsOf DEF absent
<1>7. ASSUME NEW s \in Sensors PROVE Clean(Deletions(absent), s)
  <2> SUFFICES ASSUME NEW i \in 1..Len(Deletions(absent)),
                      Deletions(absent)[i].kind = "value", Deletions(absent)[i].sensor = s
               PROVE  \E j \in i..Len(Deletions(absent)) :
                        Deletions(absent)[j] = Value(s, None)
    BY DEF Clean
  <2>1. Deletions(absent)[i] \in Message /\ Len(Deletions(absent)) \in Nat
    BY <1>6, ElementOfSeq, LenProperties
  <2>2. Deletions(absent)[i] = Value(s, None)
    BY <1>6, <2>1, MessageFields
  <2>3. QED
    BY <2>1, <2>2
<1>8. Announcements = types \o Deletions(absent)
  BY DEF Announcements, types, added, absent
<1>9. QED
  BY <1>4, <1>5, <1>6, <1>7, <1>8, ConcatOf, CleanConcat, DeletesConcat

-----------------------------------------------------------------------------
(***************************************************************************)
(* Type correctness.                                                       *)
(***************************************************************************)

LEMMA TypeInit == Init => TypeOK
<1> SUFFICES ASSUME Init PROVE TypeOK
  OBVIOUS
<1>1. PICK old \in SUBSET Sensors :
        type = old /\ temp = [s \in Sensors |-> IF s \in old THEN 0 ELSE None]
  BY DEF Init
<1>2. 0 \in Readings
  BY DEF Readings
<1>3. temp \in [Sensors -> Readings \cup {None}]
  BY <1>1, <1>2
<1>4. <<>> \in Seq(Message)
  OBVIOUS
<1>5. Connect \in Message
  BY MessageTypes
<1>6. up \in Seq(Message)
  BY <1>5 DEF Init
<1>7. prepare \in BOOLEAN
  BY Zenon DEF Init
<1>8. QED
  BY <1>1, <1>3, <1>4, <1>6, <1>7 DEF Init, TypeOK

LEMMA SendTypes ==
  ASSUME TypeOK, NEW q \in Seq(Message), Send(q)
  PROVE  up' \in Seq(Message) /\ lost' \subseteq Sensors /\ cut' \subseteq Sensors
<1>1. CASE link = "up"
  BY <1>1, ConcatOf DEF Send, TypeOK, historyVars
<1>2. CASE link # "up"
  BY <1>2, DroppedOf DEF Send, TypeOK
<1>3. QED
  BY <1>1, <1>2

LEMMA RescanTypes ==
  ASSUME TypeOK, RescanBus
  PROVE  /\ up' \in Seq(Message) /\ lost' \subseteq Sensors /\ cut' \subseteq Sensors
         /\ known' \subseteq Sensors
<1>1. Announcements \in Seq(Message) /\ Present \subseteq Sensors
  BY AnnouncementsOf DEF TypeOK, Present
<1>2. QED
  BY <1>1, SendTypes DEF RescanBus

\* The sequences the driver sends at a connection and at the end of the clean-up.
LEMMA Requests ==
  /\ <<SubscribeControls, SubscribeHack, Hack>> \in Seq(Message)
  /\ <<Hack, Unsubscribe>> \in Seq(Message) /\ <<Connect>> \in Seq(Message)
<1>1. SubscribeControls \in Message /\ SubscribeHack \in Message /\ Hack \in Message
      /\ Unsubscribe \in Message /\ Connect \in Message
  BY MessageTypes
<1>2. QED
  BY <1>1

LEMMA RetainedTypes ==
  ASSUME TypeOK
  PROVE  /\ RetainedValues \in Seq(Message)
         /\ \A k \in 1..Len(RetainedValues) : RetainedValues[k].kind = "value"
         /\ \A s \in Sensors : temp[s] # None =>
              \E k \in 1..Len(RetainedValues) : RetainedValues[k].sensor = s
<1> DEFINE S == {s \in Sensors : temp[s] # None}
           with == SetToSeq(S)
<1>1. /\ with \in Seq(S) /\ Len(with) \in Nat
      /\ \A k \in 1..Len(with) : with[k] \in S
      /\ \A x \in S : \E k \in 1..Len(with) : with[k] = x
  BY SensorSeq
<1>2. DOMAIN with = 1..Len(with)
  BY <1>1, LenProperties
<1>3. RetainedValues = [i \in 1..Len(with) |-> Value(with[i], temp[with[i]])]
  BY <1>2 DEF RetainedValues
<1> HIDE DEF with, S
<1>4. \A k \in 1..Len(with) : RetainedValues[k] \in Message
  BY <1>1, <1>3, MessageTypes DEF TypeOK, S
<1>5. RetainedValues \in [1..Len(with) -> Message]
  BY <1>3, <1>4
<1>6. RetainedValues \in Seq(Message) /\ Len(RetainedValues) = Len(with)
  <2>1. PICK n \in Nat : n = Len(with)
    BY <1>1
  <2>2. RetainedValues \in [1..n -> Message]
    BY <1>5, <2>1
  <2>3. QED
    BY <2>1, <2>2
<1>7. QED
  <2>1. \A k \in 1..Len(with) :
          RetainedValues[k].kind = "value" /\ RetainedValues[k].sensor = with[k]
    BY <1>3 DEF Value
  <2>2. ASSUME NEW s \in Sensors, temp[s] # None
        PROVE  \E k \in 1..Len(RetainedValues) : RetainedValues[k].sensor = s
    <3>1. PICK k \in 1..Len(with) : with[k] = s
      BY <1>1, <2>2 DEF S
    <3>2. QED
      BY <1>6, <2>1, <3>1
  <2>3. QED
    BY <1>6, <2>1, <2>2

LEMMA HeadOfDown ==
  ASSUME TypeOK, down # <<>>
  PROVE  Tail(down) \in Seq(Message) /\ Head(down) \in Message
BY TailOf DEF TypeOK

LEMMA TypeStep == TypeOK /\ [Next]_vars => TypeOK'
<1> SUFFICES ASSUME TypeOK, [Next]_vars PROVE TypeOK'
  OBVIOUS
<1> USE DEF brokerVars
<1>1. CASE OnConnect
  <2>1. /\ down # <<>> /\ unread = {} /\ down' = Tail(down)
        /\ UNCHANGED <<bus, prepare, unread, link, subs, type, temp>>
        /\ \/ Send(<<SubscribeControls, SubscribeHack, Hack>>) /\ UNCHANGED known
           \/ RescanBus
    BY <1>1 DEF OnConnect
  <2>2. /\ up' \in Seq(Message) /\ lost' \subseteq Sensors /\ cut' \subseteq Sensors
        /\ known' \subseteq Sensors
    BY <2>1, SendTypes, RescanTypes, Requests DEF TypeOK
  <2>3. down' \in Seq(Message)
    BY <2>1, HeadOfDown
  <2>4. QED
    BY <2>1, <2>2, <2>3 DEF TypeOK
<1>2. CASE OnHack
  <2>1. /\ down # <<>> /\ down' = Tail(down) /\ Send(<<Hack, Unsubscribe>>)
        /\ UNCHANGED <<bus, known, unread, link, subs, type, temp>>
    BY <1>2 DEF OnHack
  <2>2. up' \in Seq(Message) /\ lost' \subseteq Sensors /\ cut' \subseteq Sensors
    BY <2>1, SendTypes, Requests
  <2>3. down' \in Seq(Message)
    BY <2>1, HeadOfDown
  <2>4. prepare' \in BOOLEAN
    BY <1>2, Zenon DEF OnHack
  <2>5. QED
    BY <2>1, <2>2, <2>3, <2>4 DEF TypeOK
<1>3. CASE OnValue
  <2>1. /\ down # <<>> /\ down' = Tail(down) /\ Head(down).kind = "value"
        /\ known' = known \cup {Head(down).sensor}
        /\ UNCHANGED <<bus, prepare, unread, link, up, subs, type, temp, lost, cut>>
    BY <1>3 DEF OnValue, historyVars
  <2>2. down' \in Seq(Message) /\ Head(down).sensor \in Sensors
    BY <2>1, HeadOfDown, MessageFields
  <2>3. QED
    BY <2>1, <2>2 DEF TypeOK
<1>4. CASE Scan
  <2>1. RescanBus /\ unread' = known' /\ UNCHANGED <<bus, prepare, link, down, subs, type, temp>>
    BY <1>4 DEF Scan
  <2>2. QED
    BY <2>1, RescanTypes DEF TypeOK
<1>5. ASSUME NEW s \in Sensors, UpdateChannelValue(s) PROVE TypeOK'
  <2>1. /\ unread' \subseteq unread /\ UNCHANGED <<bus, prepare, known, link, down, subs, type, temp>>
        /\ \/ UNCHANGED <<up, lost, cut>>
           \/ /\ ReadTemperature(bus[s]) # None
              /\ Send(<<Value(s, ReadTemperature(bus[s]))>>)
    BY <1>5 DEF UpdateChannelValue, historyVars
  <2>2. <<Value(s, ReadTemperature(bus[s]))>> \in Seq(Message)
    <3>1. Value(s, ReadTemperature(bus[s])) \in Message
      BY ReadingTypes, MessageTypes DEF TypeOK
    <3>2. QED
      BY <3>1
  <2>3. up' \in Seq(Message) /\ lost' \subseteq Sensors /\ cut' \subseteq Sensors
    BY <2>1, <2>2, SendTypes DEF TypeOK
  <2>4. QED
    BY <2>1, <2>3 DEF TypeOK
<1>6. CASE Reconnect
  <2>1. link' = "up" /\ up' = <<Connect>>
        /\ UNCHANGED <<bus, prepare, known, unread, down, subs, type, temp, lost, cut>>
    BY <1>6 DEF Reconnect, driverVars, historyVars
  <2>2. QED
    BY <2>1, Requests DEF TypeOK
<1>7. CASE Broker
  <2> DEFINE m == Head(up)
  <2>1. /\ up # <<>> /\ up' = Tail(up)
        /\ UNCHANGED <<bus, prepare, known, unread, link, lost, cut>>
    BY <1>7 DEF Broker, driverVars, historyVars
  <2>2. up' \in Seq(Message) /\ m \in Message
    BY <2>1, TailOf DEF TypeOK
  <2>3. \/ down' = <<Connect>> \/ down' = down \o RetainedValues \/ down' = down
        \/ down' = Append(down, Hack)
        \/ down' = Append(down, m)
    BY <1>7 DEF Broker
  <2>4. down' \in Seq(Message)
    <3>1. down \in Seq(Message) /\ Hack \in Message /\ <<Connect>> \in Seq(Message)
      BY MessageTypes, Requests DEF TypeOK
    <3>2. Append(down, Hack) \in Seq(Message) /\ Append(down, m) \in Seq(Message)
      BY <2>2, <3>1, AppendProperties
    <3>3. down \o RetainedValues \in Seq(Message)
      BY <3>1, RetainedTypes, ConcatOf
    <3>4. QED
      BY <2>3, <3>1, <3>2, <3>3
  <2>5. subs' \subseteq {"controls", "hack"}
    BY <1>7 DEF Broker, TypeOK
  <2>6. type' \subseteq Sensors
    <3>1. \/ type' = type
          \/ m.kind = "type" /\ type' \in {type \ {m.sensor}, type \cup {m.sensor}}
      BY <1>7 DEF Broker
    <3>2. QED
      BY <2>2, <3>1, MessageFields DEF TypeOK
  <2>7. temp' \in [Sensors -> Readings \cup {None}]
    <3>1. \/ temp' = temp
          \/ m.kind = "value" /\ temp' = [temp EXCEPT ![m.sensor] = m.value]
      BY <1>7 DEF Broker
    <3>2. QED
      BY <2>2, <3>1, MessageFields DEF TypeOK
  <2>8. QED
    BY <2>1, <2>2, <2>4, <2>5, <2>6, <2>7 DEF TypeOK
<1>8. ASSUME NEW s \in Sensors, NEW file \in Files[s] \cup {None}, BusChanges(s, file)
      PROVE  TypeOK'
  <2>1. bus' = [bus EXCEPT ![s] = file]
        /\ UNCHANGED <<prepare, known, unread, link, up, down, subs, type, temp, lost, cut>>
    BY <1>8 DEF BusChanges, driverVars, historyVars
  <2>2. bus' \in BusStates
    BY <2>1 DEF BusStates, TypeOK
  <2>3. QED
    BY <2>1, <2>2 DEF TypeOK
<1>9. CASE LoseLink
  <2>1. /\ link' = "dead" /\ up' = <<>> /\ down' = <<>>
        /\ lost' = lost \cup Dropped(up) /\ cut' = cut \cup Dropped(up)
        /\ UNCHANGED <<bus, prepare, known, unread, subs, type, temp>>
    BY <1>9 DEF LoseLink, driverVars
  <2>2. <<>> \in Seq(Message)
    OBVIOUS
  <2>3. Dropped(up) \subseteq Sensors
    BY DroppedOf DEF TypeOK
  <2>4. QED
    BY <2>1, <2>2, <2>3 DEF TypeOK
<1>10. CASE NoticeLoss
  BY <1>10 DEF NoticeLoss, TypeOK, driverVars, historyVars
<1>11. CASE Restart
  <2>1. /\ known' = {} /\ unread' = {} /\ link' = "up" /\ up' = <<Connect>> /\ down' = <<>>
        /\ lost' = {} /\ cut' = cut \cup Dropped(up) \cup {s \in type : temp[s] = None}
        /\ UNCHANGED <<bus, subs, type, temp>>
    BY <1>11 DEF Restart
  <2>2. <<>> \in Seq(Message)
    OBVIOUS
  <2>3. Dropped(up) \subseteq Sensors
    BY DroppedOf DEF TypeOK
  <2>4. prepare' \in BOOLEAN
    BY <1>11, Zenon DEF Restart
  <2>5. QED
    BY <2>1, <2>2, <2>3, <2>4, Requests DEF TypeOK
<1>12. CASE UNCHANGED vars
  BY <1>12 DEF TypeOK, vars, driverVars, historyVars
<1>13. QED
  BY <1>1, <1>2, <1>3, <1>4, <1>5, <1>6, <1>7, <1>8, <1>9, <1>10, <1>11, <1>12
     DEF Next, Driver, Disturbance

\* Every variable keeps its type: what goes to the broker and what it retains are
\* readings that may be published, never the ones of a sensor that has not measured
\* (ReadTemperature); only known channels are read (UpdateChannelValues).
THEOREM TypeCorrect == Spec => []TypeOK
BY TypeInit, TypeStep, PTL DEF Spec

-----------------------------------------------------------------------------
(***************************************************************************)
(* The clean-up.  While it lasts, what the driver has sent and what is on  *)
(* its way back tell how far it has come; its own message comes behind the *)
(* last retained value.  Afterwards a scan deletes what it takes from the  *)
(* known channels.                                                         *)
(***************************************************************************)

\* The first n messages for the driver are values, and each retained value is among
\* them or known already.
Covered(n) ==
  /\ \A k \in 1..n : down[k].kind = "value"
  /\ \A s \in Sensors : temp[s] # None =>
       s \in known \/ \E k \in 1..n : down[k].sensor = s

CleanUp ==
  \/ up = <<Connect>> /\ down = <<>>
  \/ up = <<>> /\ down = <<Connect>>
  \/ up = <<SubscribeControls, SubscribeHack, Hack>> /\ down = <<>>
  \/ up = <<SubscribeHack, Hack>> /\ Covered(Len(down))
  \/ up = <<Hack>> /\ "hack" \in subs /\ Covered(Len(down))
  \/ up = <<>> /\ down # <<>> /\ down[Len(down)] = Hack /\ Covered(Len(down) - 1)

LinkInv == link # "up" => up = <<>> /\ down = <<>>

PrepareInv == prepare => unread = {} /\ (link = "up" => CleanUp)

DriverInv == LinkInv /\ PrepareInv /\ RetainedIsKnown

LEMMA DriverInit == Init => DriverInv
BY DEF Init, DriverInv, LinkInv, PrepareInv, CleanUp, RetainedIsKnown

\* What a step of the driver does for a sensor of which nothing will be retained.
LEMMA GoneAfter ==
  ASSUME TypeOK, NEW s, NEW q \in Seq(Message), up' = up \o q, temp' = temp, Clean(q, s),
         Gone(s) \/ Deletes(q, s)
  PROVE  Gone(s)'
<1>1. Clean(up \o q, s) /\ (temp[s] = None \/ Deletes(up \o q, s))
  BY CleanConcat, DeletesConcat, GoneIs DEF TypeOK
<1>2. (temp'[s] = None \/ Deletes(up', s)) /\ Clean(up', s)
  BY <1>1
<1>3. QED
  BY <1>2 DEF Gone, Deletes, Clean

\* The same for messages that are sent to a connection that may be dead.
LEMMA GoneSent ==
  ASSUME TypeOK, NEW s \in Sensors, NEW q \in Seq(Message), Send(q), temp' = temp, Clean(q, s),
         Gone(s) \/ s \in lost \/ Deletes(q, s)
  PROVE  Gone(s)' \/ s \in lost'
<1>1. CASE link = "up"
  <2>1. up' = up \o q /\ lost' = lost
    BY <1>1 DEF Send, historyVars
  <2>2. CASE s \in lost
    BY <2>1, <2>2
  <2>3. CASE Gone(s) \/ Deletes(q, s)
    BY <2>1, <2>3, GoneAfter
  <2>4. QED
    BY <2>2, <2>3
<1>2. CASE link # "up"
  <2>1. up' = up /\ lost' = lost \cup Dropped(q)
    BY <1>2 DEF Send
  <2>2. CASE Gone(s)
    BY <2>1, <2>2 DEF Gone
  <2>3. CASE Deletes(q, s)
    BY <2>1, <2>3, DroppedOf
  <2>4. QED
    BY <2>1, <2>2, <2>3
<1>3. QED
  BY <1>1, <1>2

LEMMA RescanKnows ==
  ASSUME TypeOK, RetainedIsKnown, ~prepare, RescanBus, temp' = temp
  PROVE  RetainedIsKnown'
<1> SUFFICES ASSUME NEW s \in Sensors \ known' PROVE Gone(s)' \/ s \in lost'
  BY DEF RetainedIsKnown
<1>1. known' = Present /\ Send(Announcements)
  BY DEF RescanBus
<1>2. /\ Announcements \in Seq(Message) /\ Clean(Announcements, s)
      /\ s \in known => Deletes(Announcements, s)
  BY <1>1, AnnouncementsOf DEF TypeOK
<1>3. Gone(s) \/ s \in lost \/ Deletes(Announcements, s)
  BY <1>2 DEF RetainedIsKnown
<1>4. QED
  BY <1>1, <1>2, <1>3, GoneSent

\* Messages that are no values.
LEMMA RequestsAreClean ==
  ASSUME NEW s
  PROVE  Clean(<<Hack, Unsubscribe>>, s) /\ Clean(<<Connect>>, s) /\ Clean(<<>>, s)
<1>1. ASSUME NEW q, \A i \in 1..Len(q) : q[i].kind # "value" PROVE Clean(q, s)
  BY <1>1 DEF Clean
<1>2. \A i \in 1..Len(<<Hack, Unsubscribe>>) : <<Hack, Unsubscribe>>[i] \in {Hack, Unsubscribe}
  OBVIOUS
<1>3. \A i \in 1..Len(<<Connect>>) : <<Connect>>[i] = Connect
  OBVIOUS
<1>4. \A i \in 1..Len(<<>>) : FALSE
  OBVIOUS
<1>5. QED
  BY <1>1, <1>2, <1>3, <1>4, Kinds

\* The broker takes a message while the driver cleans up.
LEMMA CleanUpBroker ==
  ASSUME TypeOK, CleanUp, Broker
  PROVE  CleanUp'
<1> DEFINE m == Head(up)
<1>1. up # <<>> /\ up' = Tail(up) /\ UNCHANGED known
  BY DEF Broker, driverVars
<1>2. CASE up = <<Connect>> /\ down = <<>>
  <2>1. m = Connect /\ up' = <<>>
    BY <1>1, <1>2
  <2>2. down' = <<Connect>>
    BY <2>1, Kinds DEF Broker
  <2>3. QED
    BY <2>1, <2>2 DEF CleanUp
<1>3. CASE up = <<SubscribeControls, SubscribeHack, Hack>> /\ down = <<>>
  <2>1. m = SubscribeControls /\ up' = <<SubscribeHack, Hack>>
    BY <1>1, <1>3
  <2>2. down' = down \o RetainedValues /\ UNCHANGED temp
    BY <2>1, Kinds DEF Broker
  <2>3. down' = RetainedValues
    BY <1>3, <2>2, RetainedTypes, ConcatProperties
  <2>4. Covered(Len(down))'
    BY <2>2, <2>3, RetainedTypes DEF Covered
  <2>5. QED
    BY <2>1, <2>4 DEF CleanUp
<1>4. CASE up = <<SubscribeHack, Hack>> /\ Covered(Len(down))
  <2>1. m = SubscribeHack /\ up' = <<Hack>>
    BY <1>1, <1>4
  <2>2. "hack" \in subs' /\ UNCHANGED <<down, temp>>
    BY <2>1, Kinds DEF Broker
  <2>3. Covered(Len(down))'
    BY <1>1, <1>4, <2>2 DEF Covered
  <2>4. QED
    BY <2>1, <2>2, <2>3 DEF CleanUp
<1>5. CASE up = <<Hack>> /\ "hack" \in subs /\ Covered(Len(down))
  <2>1. m = Hack /\ up' = <<>>
    BY <1>1, <1>5
  <2>2. down' = Append(down, Hack) /\ UNCHANGED temp
    BY <1>5, <2>1, Kinds DEF Broker
  <2>3. /\ Len(down') = Len(down) + 1 /\ Len(down) \in Nat /\ down'[Len(down')] = Hack
        /\ \A k \in 1..Len(down) : down'[k] = down[k]
    BY <2>2, MessageTypes, AppendProperties, LenProperties DEF TypeOK
  <2>4. Covered(Len(down) - 1)'
    BY <1>1, <1>5, <2>2, <2>3 DEF Covered
  <2>5. down' # <<>>
    BY <2>3
  <2>6. QED
    BY <2>1, <2>3, <2>4, <2>5 DEF CleanUp
<1>6. QED
  BY <1>1, <1>2, <1>3, <1>4, <1>5 DEF CleanUp

\* The driver takes a retained value.
LEMMA CleanUpValue ==
  ASSUME TypeOK, CleanUp, OnValue
  PROVE  CleanUp'
<1>0. Hack.kind = "hack" /\ Connect.kind = "connect"
  BY Kinds
<1>1. /\ down # <<>> /\ down' = Tail(down) /\ Head(down).kind = "value"
      /\ known' = known \cup {Head(down).sensor} /\ UNCHANGED <<up, subs, temp>>
  BY DEF OnValue, brokerVars
<1>2. /\ Len(down) \in Nat \ {0} /\ Len(down') = Len(down) - 1 /\ Head(down) = down[1]
      /\ \A k \in 1..Len(down') : k + 1 \in 1..Len(down) /\ down'[k] = down[k + 1]
      /\ \A k \in 1..Len(down) : k # 1 => k - 1 \in 1..Len(down') /\ down[k] = down'[k - 1]
  BY <1>1, TailOf DEF TypeOK
<1>3. ASSUME NEW n \in {Len(down), Len(down) - 1}, Covered(n), n > 0
      PROVE  /\ \A k \in 1..(n - 1) : down'[k].kind = "value"
             /\ \A s \in Sensors : temp'[s] # None =>
                  s \in known' \/ \E k \in 1..(n - 1) : down'[k].sensor = s
  <2>1. \A k \in 1..(n - 1) : down'[k].kind = "value"
    <3> SUFFICES ASSUME NEW k \in 1..(n - 1) PROVE down'[k].kind = "value"
      OBVIOUS
    <3>1. k \in 1..Len(down') /\ k + 1 \in 1..n
      BY <1>2, <1>3
    <3>2. down'[k] = down[k + 1]
      BY <1>2, <3>1
    <3>3. QED
      BY <1>3, <3>1, <3>2 DEF Covered
  <2>2. ASSUME NEW s \in Sensors, temp'[s] # None, s \notin known'
        PROVE  \E k \in 1..(n - 1) : down'[k].sensor = s
    <3>1. PICK k \in 1..n : down[k].sensor = s
      BY <1>1, <1>3, <2>2 DEF Covered
    <3>2. k # 1
      BY <1>1, <1>2, <2>2, <3>1
    <3>3. k \in 1..Len(down) /\ k - 1 \in 1..(n - 1)
      BY <1>2, <1>3, <3>2
    <3>4. down'[k - 1].sensor = s
      BY <1>2, <3>1, <3>2, <3>3
    <3>5. QED
      BY <3>3, <3>4
  <2>3. QED
    BY <2>1, <2>2
<1>4. CASE Covered(Len(down)) /\ (up = <<SubscribeHack, Hack>> \/ (up = <<Hack>> /\ "hack" \in subs))
  <2>1. Covered(Len(down))'
    BY <1>2, <1>3, <1>4 DEF Covered
  <2>2. QED
    BY <1>1, <1>4, <2>1 DEF CleanUp
<1>5. CASE up = <<>> /\ down # <<>> /\ down[Len(down)] = Hack /\ Covered(Len(down) - 1)
  <2>1. Len(down) > 1
    <3>1. down[1] # Hack
      BY <1>0, <1>1, <1>2
    <3>2. Len(down) # 1
      BY <1>5, <3>1
    <3>3. QED
      BY <1>2, <3>2
  <2>2. Covered(Len(down) - 1)'
    <3>1. Len(down) - 1 \in {Len(down), Len(down) - 1} /\ Len(down) - 1 > 0
          /\ Len(down') - 1 = (Len(down) - 1) - 1
      BY <1>2, <2>1
    <3>2. QED
      BY <1>3, <1>5, <3>1 DEF Covered
  <2>3. down'[Len(down')] = Hack /\ down' # <<>>
    <3>1. Len(down) # 1 /\ Len(down) \in 1..Len(down) /\ Len(down') = Len(down) - 1
      BY <1>2, <2>1
    <3>2. Len(down') \in 1..Len(down') /\ down[Len(down)] = down'[Len(down')]
      BY <1>2, <3>1
    <3>3. QED
      BY <1>5, <3>1, <3>2
  <2>4. QED
    BY <1>1, <1>5, <2>2, <2>3 DEF CleanUp
<1>6. CASE down = <<>> \/ down = <<Connect>>
  <2>1. Head(<<Connect>>) = Connect
    OBVIOUS
  <2>2. Head(down) # Connect
    BY <1>0, <1>1
  <2>3. QED
    BY <1>1, <1>6, <2>1, <2>2
<1>7. QED
  <2>1. \/ down = <<>> \/ down = <<Connect>>
        \/ Covered(Len(down)) /\ (up = <<SubscribeHack, Hack>> \/ (up = <<Hack>> /\ "hack" \in subs))
        \/ up = <<>> /\ down # <<>> /\ down[Len(down)] = Hack /\ Covered(Len(down) - 1)
    BY DEF CleanUp
  <2>2. QED
    BY <1>4, <1>5, <1>6, <2>1

\* When the driver's own message comes, it has heard of every retained value.
LEMMA CleanUpEnds ==
  ASSUME TypeOK, CleanUp, down # <<>>, Head(down) = Hack
  PROVE  up = <<>> /\ \A s \in Sensors : temp[s] # None => s \in known
<1>1. Len(down) \in Nat \ {0} /\ Head(down) = down[1]
  BY TailOf DEF TypeOK
<1>2. ~Covered(Len(down))
  <2>0. Hack.kind = "hack"
    BY Kinds
  <2>1. 1 \in 1..Len(down) /\ down[1].kind # "value"
    BY <1>1, <2>0
  <2>2. QED
    BY <2>1 DEF Covered
<1>3. down # <<Connect>>
  <2>1. Head(<<Connect>>) = Connect
    OBVIOUS
  <2>2. Connect # Hack
    BY Kinds
  <2>3. QED
    BY <2>1, <2>2
<1>4. up = <<>> /\ down[Len(down)] = Hack /\ Covered(Len(down) - 1)
  BY <1>2, <1>3 DEF CleanUp
<1>5. ~(Len(down) > 1)
  <2> SUFFICES ASSUME Len(down) > 1 PROVE FALSE
    OBVIOUS
  <2>1. 1 \in 1..(Len(down) - 1)
    BY <1>1
  <2>2. QED
    BY <1>1, <1>4, <2>1, Kinds DEF Covered
<1>6. \A k \in 1..(Len(down) - 1) : FALSE
  BY <1>1, <1>5
<1>7. QED
  BY <1>4, <1>6 DEF Covered

LEMMA DriverStep == DriverInv /\ TypeOK /\ [Next]_vars => DriverInv'
<1> SUFFICES ASSUME DriverInv, TypeOK, [Next]_vars PROVE DriverInv'
  OBVIOUS
<1> USE DEF brokerVars
<1>1. CASE OnConnect
  <2>1. /\ link = "up" /\ link' = "up" /\ unread = {} /\ down # <<>> /\ Head(down) = Connect
        /\ down' = Tail(down) /\ UNCHANGED <<prepare, unread, subs, type, temp>>
    BY <1>1 DEF OnConnect
  <2>2. CASE prepare
    <3>1. CleanUp /\ up' = up \o <<SubscribeControls, SubscribeHack, Hack>>
      BY <1>1, <2>1, <2>2 DEF OnConnect, Send, DriverInv, PrepareInv
    <3>2. up = <<>> /\ down = <<Connect>>
      <4>1. Connect.kind = "connect" /\ Hack.kind = "hack"
        BY Kinds
      <4>2. Len(down) \in Nat \ {0} /\ Head(down) = down[1]
        BY <2>1, TailOf DEF TypeOK
      <4>3. ~Covered(Len(down))
        BY <2>1, <4>1, <4>2 DEF Covered
      <4>4. ~(down[Len(down)] = Hack /\ Covered(Len(down) - 1))
        <5>1. CASE Len(down) = 1
          BY <2>1, <4>1, <4>2, <5>1
        <5>2. CASE Len(down) # 1
          <6>0. Len(down) > 1
            BY <4>2, <5>2, SMTT(40)
          <6>1. 1 \in 1..(Len(down) - 1)
            BY <4>2, <6>0
          <6>2. QED
            BY <2>1, <4>1, <4>2, <6>1 DEF Covered
        <5>3. QED
          BY <5>1, <5>2
      <4>5. QED
        BY <2>1, <3>1, <4>3, <4>4 DEF CleanUp
    <3>3. up' = <<SubscribeControls, SubscribeHack, Hack>> /\ down' = <<>>
      BY <2>1, <3>1, <3>2
    <3>4. CleanUp'
      BY <3>3 DEF CleanUp
    <3>5. QED
      BY <2>1, <2>2, <3>4 DEF DriverInv, LinkInv, PrepareInv, RetainedIsKnown
  <2>3. CASE ~prepare
    <3>1. RescanBus
      BY <1>1, <2>3 DEF OnConnect
    <3>2. RetainedIsKnown'
      BY <2>1, <2>3, <3>1, RescanKnows DEF DriverInv
    <3>3. QED
      BY <2>1, <2>3, <3>2 DEF DriverInv, LinkInv, PrepareInv
  <2>4. QED
    BY <2>2, <2>3
<1>2. CASE OnHack
  <2>1. /\ link = "up" /\ link' = "up" /\ down # <<>> /\ Head(down) = Hack
        /\ Send(<<Hack, Unsubscribe>>) /\ ~prepare' /\ UNCHANGED <<known, temp>>
    BY <1>2 DEF OnHack
  <2>2. ASSUME NEW s \in Sensors \ known PROVE Gone(s) \/ s \in lost
    <3>1. CASE prepare
      <4>1. up = <<>> /\ temp[s] = None
        BY <2>1, <2>2, <3>1, CleanUpEnds DEF DriverInv, PrepareInv
      <4>2. QED
        BY <4>1, RequestsAreClean, GoneIs
    <3>2. CASE ~prepare
      BY <2>2, <3>2 DEF DriverInv, RetainedIsKnown
    <3>3. QED
      BY <3>1, <3>2
  <2>3. ASSUME NEW s \in Sensors \ known PROVE Gone(s)' \/ s \in lost'
    BY <2>1, <2>2, <2>3, Requests, RequestsAreClean, GoneSent
  <2>4. QED
    BY <2>1, <2>3 DEF DriverInv, LinkInv, PrepareInv, RetainedIsKnown
<1>3. CASE OnValue
  <2>1. /\ link = "up" /\ link' = "up" /\ unread = {} /\ known \subseteq known'
        /\ UNCHANGED <<prepare, unread, up, temp, lost>>
    BY <1>3 DEF OnValue, historyVars
  <2>2. prepare => CleanUp'
    BY <1>3, <2>1, CleanUpValue DEF DriverInv, PrepareInv
  <2>3. QED
    BY <2>1, <2>2 DEF DriverInv, LinkInv, PrepareInv, RetainedIsKnown, Gone
<1>4. CASE Scan
  <2>1. /\ ~prepare /\ link # "down" /\ RescanBus
        /\ UNCHANGED <<prepare, link, down, temp>>
    BY <1>4 DEF Scan
  <2>2. RetainedIsKnown'
    BY <2>1, RescanKnows DEF DriverInv
  <2>3. LinkInv'
    BY <2>1 DEF DriverInv, LinkInv, RescanBus, Send
  <2>4. QED
    BY <2>1, <2>2, <2>3 DEF DriverInv, PrepareInv
<1>5. ASSUME NEW s \in Sensors, UpdateChannelValue(s) PROVE DriverInv'
  <2>1. /\ s \in unread /\ UNCHANGED <<prepare, known, link, down, temp>>
        /\ \/ UNCHANGED <<up, lost>>
           \/ Send(<<Value(s, ReadTemperature(bus[s]))>>)
    BY <1>5 DEF UpdateChannelValue, historyVars
  <2>2. ~prepare /\ s \in known
    BY <2>1 DEF DriverInv, PrepareInv, TypeOK
  <2>3. ASSUME NEW x \in Sensors \ known PROVE Gone(x)' \/ x \in lost'
    <3>1. Gone(x) \/ x \in lost
      BY <2>2, <2>3 DEF DriverInv, RetainedIsKnown
    <3>2. CASE UNCHANGED <<up, lost>>
      BY <2>1, <3>1, <3>2 DEF Gone
    <3>3. CASE Send(<<Value(s, ReadTemperature(bus[s]))>>)
      <4> DEFINE q == <<Value(s, ReadTemperature(bus[s]))>>
      <4>1. Value(s, ReadTemperature(bus[s])) \in Message
        BY ReadingTypes, MessageTypes DEF TypeOK
      <4>2. q \in Seq(Message)
        BY <4>1
      <4>3. \A i \in 1..Len(q) : q[i].sensor # x
        BY <2>2, <2>3 DEF Value
      <4>4. Clean(q, x)
        BY <4>3 DEF Clean
      <4> HIDE DEF q
      <4>5. QED
        BY <2>1, <2>3, <3>1, <3>3, <4>2, <4>4, GoneSent DEF q
    <3>4. QED
      BY <2>1, <3>2, <3>3
  <2>4. RetainedIsKnown'
    BY <2>1, <2>3 DEF RetainedIsKnown
  <2>5. LinkInv'
    BY <2>1 DEF DriverInv, LinkInv, Send
  <2>6. QED
    BY <2>1, <2>2, <2>4, <2>5 DEF DriverInv, PrepareInv
<1>6. CASE Reconnect
  <2>1. /\ link = "down" /\ unread = {} /\ link' = "up" /\ up' = <<Connect>> /\ down' = down
        /\ UNCHANGED <<prepare, known, unread, temp, lost>>
    BY <1>6 DEF Reconnect, driverVars, historyVars
  <2>2. up = <<>> /\ down = <<>>
    BY <2>1 DEF DriverInv, LinkInv
  <2>3. CleanUp'
    BY <2>1, <2>2 DEF CleanUp
  <2>4. ASSUME ~prepare, NEW s \in Sensors \ known PROVE Gone(s)' \/ s \in lost'
    <3>1. Gone(s) \/ s \in lost
      BY <2>4 DEF DriverInv, RetainedIsKnown
    <3>2. up' = up \o <<Connect>>
      BY <2>1, <2>2
    <3>3. QED
      BY <2>1, <3>1, <3>2, Requests, RequestsAreClean, GoneAfter
  <2>5. QED
    BY <2>1, <2>3, <2>4 DEF DriverInv, LinkInv, PrepareInv, RetainedIsKnown
<1>7. CASE Broker
  <2>1. /\ up # <<>> /\ up' = Tail(up)
        /\ UNCHANGED <<prepare, known, unread, link, lost>>
    BY <1>7 DEF Broker, driverVars, historyVars
  <2>2. link = "up"
    BY <2>1 DEF DriverInv, LinkInv, TypeOK
  <2>3. prepare => CleanUp'
    BY <1>7, <2>2, CleanUpBroker DEF DriverInv, PrepareInv
  <2>4. ASSUME NEW s \in Sensors, Gone(s) PROVE Gone(s)'
    <3> DEFINE m == Head(up)
    <3>1. (temp[s] = None \/ Deletes(up, s)) /\ Clean(up, s) /\ up \in Seq(Message)
      BY <2>4, GoneIs DEF TypeOK
    <3>2. /\ Clean(up', s)
          /\ Deletes(up, s) => m = Value(s, None) \/ Deletes(up', s)
          /\ m.kind = "value" /\ m.sensor = s => m = Value(s, None) \/ Deletes(up', s)
      BY <2>1, <3>1, CleanTail
    <3>3. m \in Message /\ Value(s, None).kind = "value" /\ Value(s, None).sensor = s
          /\ Value(s, None).value = None
      <4>1. m \in Message
        BY <2>1, <3>1, TailOf
      <4>2. QED
        BY <4>1 DEF Value
    <3>4. CASE m.kind = "value"
      <4>1. temp' = [temp EXCEPT ![m.sensor] = m.value]
        BY <1>7, <3>4, Kinds DEF Broker
      <4>2. temp'[s] = None \/ Deletes(up', s)
        <5>1. CASE m.sensor = s
          BY <3>2, <3>3, <3>4, <4>1, <5>1 DEF TypeOK
        <5>2. CASE m.sensor # s
          BY <3>1, <3>2, <3>3, <4>1, <5>2 DEF TypeOK
        <5>3. QED
          BY <5>1, <5>2
      <4>3. QED
        BY <3>2, <4>2 DEF Gone, Clean, Deletes
    <3>5. CASE m.kind # "value"
      <4>1. temp' = temp
        BY <1>7, <3>5 DEF Broker
      <4>2. temp'[s] = None \/ Deletes(up', s)
        BY <3>1, <3>2, <3>3, <3>5, <4>1
      <4>3. QED
        BY <3>2, <4>2 DEF Gone, Clean, Deletes
    <3>6. QED
      BY <3>4, <3>5
  <2>5. QED
    BY <2>1, <2>2, <2>3, <2>4 DEF DriverInv, LinkInv, PrepareInv, RetainedIsKnown
<1>8. ASSUME NEW s \in Sensors, NEW file \in Files[s] \cup {None}, BusChanges(s, file)
      PROVE  DriverInv'
  <2>1. UNCHANGED <<prepare, known, unread, link, up, down, subs, temp, lost>>
    BY <1>8 DEF BusChanges, driverVars, historyVars
  <2>2. QED
    BY <2>1 DEF DriverInv, LinkInv, PrepareInv, CleanUp, Covered, RetainedIsKnown, Gone
<1>9. CASE LoseLink
  <2>1. /\ link' = "dead" /\ up' = <<>> /\ down' = <<>> /\ lost' = lost \cup Dropped(up)
        /\ UNCHANGED <<prepare, known, unread, temp>>
    BY <1>9 DEF LoseLink, driverVars
  <2>2. ASSUME NEW s \in Sensors, Gone(s) \/ s \in lost PROVE Gone(s)' \/ s \in lost'
    <3>1. CASE s \in lost \/ Deletes(up, s)
      BY <2>1, <3>1, DroppedOf DEF TypeOK
    <3>2. CASE Gone(s) /\ ~Deletes(up, s)
      <4>1. temp'[s] = None /\ Clean(up', s)
        BY <2>1, <3>2, GoneIs, RequestsAreClean
      <4>2. QED
        BY <4>1 DEF Gone, Clean
    <3>3. QED
      BY <2>2, <3>1, <3>2
  <2>3. QED
    BY <2>1, <2>2 DEF DriverInv, LinkInv, PrepareInv, RetainedIsKnown
<1>10. CASE NoticeLoss
  <2>1. /\ link = "dead" /\ link' = "down"
        /\ UNCHANGED <<prepare, known, unread, up, down, subs, temp, lost>>
    BY <1>10 DEF NoticeLoss, driverVars, historyVars
  <2>2. QED
    BY <2>1 DEF DriverInv, LinkInv, PrepareInv, RetainedIsKnown, Gone
<1>11. CASE Restart
  BY <1>11 DEF Restart, DriverInv, LinkInv, PrepareInv, CleanUp, RetainedIsKnown
<1>12. CASE UNCHANGED vars
  BY <1>12 DEF vars, driverVars, historyVars, DriverInv, LinkInv, PrepareInv, CleanUp, Covered,
               RetainedIsKnown, Gone
<1>13. QED
  BY <1>1, <1>2, <1>3, <1>4, <1>5, <1>6, <1>7, <1>8, <1>9, <1>10, <1>11, <1>12
     DEF Next, Driver, Disturbance

\* Once the driver's own message has come back (OnMessage), every retained value is of a
\* channel it knows, or its deletion is under way or was lost with a connection:
\* for any sensors and whatever was retained, plugged, lost or ended.
THEOREM CleanUpIsComplete == Spec => []RetainedIsKnown
<1>1. DriverInv => RetainedIsKnown
  BY DEF DriverInv
<1>2. QED
  BY TypeCorrect, DriverInit, DriverStep, <1>1, PTL DEF Spec
=============================================================================
