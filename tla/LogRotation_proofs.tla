------------------------- MODULE LogRotation_proofs -------------------------
(***************************************************************************)
(* mqtt-logger, for any topics, any number and size of logs, and any       *)
(* number of messages, outages and ends of the process: the order of the   *)
(* old logs, what the current log tells, and what rotations cost.          *)
(***************************************************************************)
EXTENDS LogRotation, SequenceTheorems, FiniteSetTheorems, TLAPS

FilesType ==
  /\ logger \in {"wait", "rename", "reopen"}
  /\ i \in 0..Number - 1
  /\ cut \in Nat
  /\ old \in [1..Number -> Nat \cup {None}]
  /\ gen \in Nat \cup {None}
  /\ logger = "reopen" <=> gen = None
  /\ logger = "reopen" => old[1] # None

\* Old logs are in the order of their age, and older than the one being written.
InOrder ==
  /\ \A j, k \in 1..Number :
       j < k /\ old[j] # None /\ old[k] # None => old[j] > old[k]
  /\ gen # None => \A j \in 1..Number : old[j] # None => old[j] < gen

\* The place the next rename fills is empty, except the last.
Vacated == logger = "rename" /\ i < Number - 1 => old[i + 1] = None

\* The rotation under way has renamed what is at place j.
Moved(j) == logger = "reopen" \/ (logger = "rename" /\ j > i + 1)

\* A log is at most as many places away from the front as there are younger ones,
\* rotations cut short, and renames of the rotation under way.
At(g, j) ==
  /\ old[j] = g
  /\ j <= Newest - g + cut + 1
  /\ ~Moved(j) => j <= Newest - g + cut

Due(g) == g >= Newest - (Number - 1) + cut
Placed == \A g \in 1..Newest - 1 : Due(g) => \E j \in 1..Number : At(g, j)

FilesInv == FilesType /\ InOrder /\ Vacated /\ Placed

LEMMA NewestType ==
  ASSUME Number \in Nat \ {0}, FilesType
  PROVE  Newest \in Nat /\ 1 \in 1..Number
BY DEF FilesType, Newest

LEMMA FilesInit ==
  ASSUME Number \in Nat \ {0}, None \notin Nat, LogInit
  PROVE  FilesInv
<1>1. FilesType /\ InOrder /\ Vacated
  BY DEF LogInit, FilesType, InOrder, Vacated
<1>2. Placed
  BY DEF LogInit, Placed, Newest
<1>3. QED
  BY <1>1, <1>2 DEF FilesInv

\* Steps that rename nothing.
LEMMA FilesRest ==
  ASSUME FilesInv, UNCHANGED <<gen, old, logger, i, cut>>
  PROVE  FilesInv'
BY DEF FilesInv, FilesType, InOrder, Vacated, Placed, Due, At, Moved, Newest

LEMMA RotationBegins ==
  ASSUME Number \in Nat \ {0}, FilesInv, OnMessage
  PROVE  FilesInv'
<1>1. CASE UNCHANGED <<logger, i>>
  BY <1>1, FilesRest DEF OnMessage, world
<1>2. CASE logger' = "rename" /\ i' = Number - 1
  <2>1. logger = "wait" /\ UNCHANGED <<gen, old, cut>>
    BY DEF OnMessage, world
  <2>2. FilesType' /\ InOrder' /\ Vacated'
    BY <1>2, <2>1 DEF FilesInv, FilesType, InOrder, Vacated
  <2>3. \A j \in 1..Number : ~Moved(j) /\ ~Moved(j)'
    BY <1>2, <2>1 DEF Moved
  <2>4. Newest' = Newest
    BY <2>1 DEF Newest
  <2>5. \A g \in 1..Newest - 1, j \in 1..Number : At(g, j) => At(g, j)'
    BY <2>1, <2>3, <2>4 DEF At
  <2>6. Placed'
    BY <2>1, <2>4, <2>5 DEF FilesInv, Placed, Due
  <2>7. QED
    BY <2>2, <2>6 DEF FilesInv
<1>3. QED
  BY <1>1, <1>2 DEF OnMessage

LEMMA RenameOldStep ==
  ASSUME Number \in Nat \ {0}, None \notin Nat, FilesInv, RenameOld
  PROVE  FilesInv'
<1>1. /\ logger = "rename" /\ logger' = logger /\ i > 0 /\ i' = i - 1
      /\ gen' = gen /\ cut' = cut
  BY DEF RenameOld, world
<1>2. FilesType /\ InOrder /\ Vacated /\ Placed
  BY DEF FilesInv
<1>3. gen \in Nat /\ i \in 1..Number - 1 /\ i + 1 \in 1..Number /\ i \in 1..Number
  BY <1>1, <1>2 DEF FilesType
<1>4. Newest = gen /\ Newest' = gen
  BY <1>1, <1>3 DEF Newest
<1>5. \A j \in 1..Number : Moved(j) => Moved(j)'
  BY <1>1, <1>3 DEF Moved
<1>6. CASE old[i] = None
  <2>1. old' = old
    BY <1>6 DEF RenameOld
  <2>2. FilesType' /\ InOrder' /\ Vacated'
    BY <1>1, <1>2, <1>3, <1>6, <2>1 DEF FilesType, InOrder, Vacated
  <2>3. \A g \in 1..Newest - 1, j \in 1..Number : At(g, j) => At(g, j)'
    BY <1>1, <1>2, <1>3, <1>4, <1>5, <2>1 DEF At, FilesType
  <2>4. Placed'
    BY <1>1, <1>2, <1>4, <2>3 DEF Placed, Due
  <2>5. QED
    BY <2>2, <2>4 DEF FilesInv
<1>7. CASE old[i] # None
  <2>1. /\ old'[i + 1] = old[i] /\ old'[i] = None
        /\ \A j \in 1..Number : j # i /\ j # i + 1 => old'[j] = old[j]
        /\ old' \in [1..Number -> Nat \cup {None}]
    BY <1>2, <1>3, <1>7 DEF RenameOld, FilesType
  <2>2. FilesType'
    BY <1>1, <1>2, <1>3, <2>1 DEF FilesType
  <2>3. InOrder'
    BY <1>1, <1>2, <1>3, <1>7, <2>1 DEF InOrder, FilesType
  <2>4. Vacated'
    BY <1>1, <1>3, <2>1 DEF Vacated
  <2>5. ASSUME NEW g \in 1..Newest - 1, Due(g), NEW j \in 1..Number, At(g, j)
        PROVE  \E k \in 1..Number : At(g, k)'
    <3>1. CASE j = i
      <4>1. PICK k \in 1..Number : k = i + 1
        BY <1>3
      <4>2. ~Moved(j) /\ Moved(k)'
        BY <1>1, <1>3, <3>1, <4>1 DEF Moved
      <4>3. old'[k] = g /\ k <= Newest' - g + cut' + 1
        BY <1>1, <1>2, <1>3, <1>4, <2>1, <2>5, <3>1, <4>1, <4>2 DEF At, FilesType
      <4>4. At(g, k)'
        BY <4>2, <4>3 DEF At
      <4>5. QED
        BY <4>4
    <3>2. CASE j = i + 1
      <4>1. i = Number - 1 /\ j = Number
        BY <1>1, <1>2, <1>3, <2>5, <3>2 DEF Vacated, At
      <4>2. ~Moved(j)
        BY <1>1, <4>1 DEF Moved
      <4>3. Number <= Newest - g + cut
        BY <2>5, <4>1, <4>2 DEF At
      <4>4. QED
        BY <1>2, <1>3, <1>4, <2>5, <4>3 DEF Due, FilesType
    <3>3. CASE j # i /\ j # i + 1
      <4>1. At(g, j)'
        BY <1>1, <1>2, <1>3, <1>4, <1>5, <2>1, <2>5, <3>3 DEF At, FilesType
      <4>2. QED
        BY <4>1
    <3>4. QED
      BY <3>1, <3>2, <3>3
  <2>6. Placed'
    BY <1>1, <1>2, <1>4, <2>5 DEF Placed, Due
  <2>7. QED
    BY <2>2, <2>3, <2>4, <2>6 DEF FilesInv
<1>8. QED
  BY <1>6, <1>7

LEMMA RenameLogStep ==
  ASSUME Number \in Nat \ {0}, None \notin Nat, FilesInv, RenameLog
  PROVE  FilesInv'
<1>1. /\ logger = "rename" /\ logger' = "reopen" /\ i = 0 /\ i' = i
      /\ gen' = None /\ cut' = cut
  BY DEF RenameLog, world
<1>2. FilesType /\ InOrder /\ Vacated /\ Placed
  BY DEF FilesInv
<1>3. gen \in Nat /\ 1 \in 1..Number
  BY <1>1, <1>2 DEF FilesType
<1>4. /\ old'[1] = gen
      /\ \A j \in 1..Number : j # 1 => old'[j] = old[j]
      /\ old' \in [1..Number -> Nat \cup {None}]
  BY <1>2, <1>3 DEF RenameLog, FilesType
<1>5. Newest = gen /\ Newest' = gen
  BY <1>1, <1>3, <1>4 DEF Newest
<1>6. FilesType'
  BY <1>1, <1>2, <1>3, <1>4 DEF FilesType
<1>7. InOrder' /\ Vacated'
  BY <1>1, <1>2, <1>3, <1>4 DEF InOrder, Vacated, FilesType
<1>8. ASSUME NEW g \in 1..Newest - 1, Due(g), NEW j \in 1..Number, At(g, j)
      PROVE  At(g, j)'
  <2>1. j # 1
    <3>1. CASE Number = 1
      BY <1>2, <1>3, <1>5, <1>8, <3>1 DEF Due, FilesType
    <3>2. CASE Number # 1
      BY <1>1, <1>2, <1>8, <3>2 DEF Vacated, At
    <3>3. QED
      BY <3>1, <3>2
  <2>2. Moved(j) /\ Moved(j)'
    BY <1>1, <2>1 DEF Moved
  <2>3. QED
    BY <1>1, <1>4, <1>5, <1>8, <2>1, <2>2 DEF At
<1>9. Placed'
  BY <1>1, <1>2, <1>5, <1>8 DEF Placed, Due
<1>10. QED
  BY <1>6, <1>7, <1>9 DEF FilesInv

LEMMA ReopenStep ==
  ASSUME Number \in Nat \ {0}, None \notin Nat, FilesInv,
         logger = "reopen", gen' = old[1] + 1, logger' = "wait", old' = old,
         i' \in 0..Number - 1, cut' \in {cut, cut + 1}
  PROVE  FilesInv'
<1>1. FilesType /\ InOrder /\ Placed
  BY DEF FilesInv
<1>2. gen = None /\ old[1] \in Nat /\ 1 \in 1..Number /\ gen' \in Nat
  BY <1>1 DEF FilesType
<1>3. Newest = old[1] /\ Newest' = old[1] + 1
  BY <1>2 DEF Newest
<1>4. FilesType' /\ Vacated'
  BY <1>1, <1>2 DEF FilesType, Vacated
<1>5. InOrder'
  BY <1>1, <1>2 DEF InOrder, FilesType
<1>6. ASSUME NEW g \in 1..Newest' - 1, Due(g)'
      PROVE  \E j \in 1..Number : At(g, j)'
  <2>1. \A j \in 1..Number : Moved(j) /\ ~Moved(j)'
    BY DEF Moved
  <2>2. CASE g = old[1]
    <3>1. At(g, 1)'
      BY <1>1, <1>2, <1>3, <2>1, <2>2 DEF At, FilesType
    <3>2. QED
      BY <1>2, <3>1
  <2>3. CASE g # old[1]
    <3>1. g \in 1..Newest - 1 /\ Due(g)
      <4>1. g >= old[1] + 1 - (Number - 1) + cut'
        BY <1>2, <1>3, <1>6 DEF Due
      <4>2. g \in Int /\ 1 <= g /\ g <= old[1]
        BY <1>2, <1>3
      <4>3. cut \in Nat /\ cut' \in Nat /\ cut <= cut'
        BY <1>1 DEF FilesType
      <4>4. g >= old[1] - (Number - 1) + cut /\ g <= old[1] - 1
        BY <1>2, <2>3, <4>1, <4>2, <4>3
      <4>5. QED
        BY <1>2, <1>3, <4>2, <4>4 DEF Due
    <3>2. PICK j \in 1..Number : At(g, j)
      BY <1>1, <3>1 DEF Placed
    <3>3. At(g, j)'
      <4>1. old[j] = g /\ j <= old[1] - g + cut + 1
        BY <1>3, <3>2 DEF At
      <4>2. cut \in Nat /\ cut' \in Nat /\ cut <= cut' /\ g \in Int
        BY <1>1 DEF FilesType
      <4>3. j <= (old[1] + 1) - g + cut' /\ j <= (old[1] + 1) - g + cut' + 1
        BY <1>2, <4>1, <4>2
      <4>4. QED
        BY <1>3, <4>1, <4>3 DEF At
    <3>4. QED
      BY <3>3
  <2>4. QED
    BY <2>2, <2>3
<1>7. Placed'
  BY <1>6 DEF Placed
<1>8. QED
  BY <1>4, <1>5, <1>7 DEF FilesInv

\* A rotation that is cut short leaves what it has renamed one place behind, which
\* cut then counts.
LEMMA RestartStep ==
  ASSUME Number \in Nat \ {0}, None \notin Nat, FilesInv, LogRestart
  PROVE  FilesInv'
<1>1. FilesType /\ InOrder /\ Placed
  BY DEF FilesInv
<1>2. logger' = "wait" /\ i' = 0 /\ old' = old
  BY DEF LogRestart
<1>3. cut' = IF logger = "wait" THEN cut ELSE cut + 1
  BY DEF LogRestart
<1>4. CASE logger = "reopen"
  BY <1>1, <1>2, <1>3, <1>4, ReopenStep DEF LogRestart, FilesType
<1>5. CASE logger # "reopen"
  <2>1. gen' = gen /\ gen \in Nat /\ Newest' = Newest /\ Newest = gen
    BY <1>1, <1>2, <1>5 DEF LogRestart, FilesType, Newest
  <2>2. FilesType' /\ InOrder' /\ Vacated'
    BY <1>1, <1>2, <1>3, <1>5, <2>1 DEF FilesType, InOrder, Vacated
  <2>3. ASSUME NEW g \in 1..Newest - 1, NEW j \in 1..Number, At(g, j)
        PROVE  At(g, j)'
    <3>1. ~Moved(j)' /\ (logger = "wait" => ~Moved(j))
      BY <1>2 DEF Moved
    <3>2. QED
      BY <1>1, <1>2, <1>3, <2>1, <2>3, <3>1 DEF At, FilesType
  <2>4. \A g \in 1..Newest - 1 : Due(g)' => Due(g)
    BY <1>1, <1>3, <2>1 DEF Due, FilesType
  <2>5. Placed'
    BY <1>1, <2>1, <2>3, <2>4 DEF Placed
  <2>6. QED
    BY <2>2, <2>5 DEF FilesInv
<1>6. QED
  BY <1>4, <1>5

LEMMA FilesStep ==
  ASSUME Number \in Nat \ {0}, None \notin Nat, FilesInv, [LogNext]_logVars
  PROVE  FilesInv'
<1>1. CASE OnConnect \/ Reconnect \/ Broker \/ LoseLink \/ UNCHANGED logVars
  BY <1>1, FilesRest
     DEF OnConnect, Reconnect, Broker, LoseLink, logVars, files, world
<1>2. ASSUME NEW t \in Topics, PublishTopic(t)
      PROVE  FilesInv'
  BY <1>2, FilesRest DEF PublishTopic, files
<1>3. CASE Reopen
  <2>1. logger = "reopen" /\ gen' = old[1] + 1 /\ logger' = "wait" /\ UNCHANGED <<old, i, cut>>
    BY <1>3 DEF Reopen, world
  <2>2. i' \in 0..Number - 1
    BY <2>1 DEF FilesInv, FilesType
  <2>3. QED
    BY <2>1, <2>2, ReopenStep
<1>4. QED
  BY <1>1, <1>2, <1>3, RotationBegins, RenameOldStep, RenameLogStep, RestartStep
     DEF LogNext, Logger

LEMMA FilesSafe ==
  ASSUME Number \in Nat \ {0}, None \notin Nat, FilesInv
  PROVE  OldestGoesFirst
<1>1. \A g \in 1..Newest - 1 : g >= Newest - (Number - 1) + cut => g \in Kept
  <2> SUFFICES ASSUME NEW g \in 1..Newest - 1, Due(g) PROVE g \in Kept
    BY DEF Due
  <2>1. PICK j \in 1..Number : old[j] = g
    BY DEF FilesInv, Placed, At
  <2>2. old[j] # None
    BY <2>1, NewestType DEF FilesInv
  <2>3. QED
    BY <2>1, <2>2 DEF Kept
<1>2. QED
  BY <1>1 DEF OldestGoesFirst, FilesInv, InOrder

\* Whatever the number of old logs, rotations lose none but the oldest, up to one more
\* for each rotation that an end of the process cut short.
THEOREM RotationKeepsOrder == LogSpec => []OldestGoesFirst
BY LogAssumption, FilesInit, FilesStep, FilesSafe, PTL DEF LogSpec

-----------------------------------------------------------------------------
(***************************************************************************)
(* The connection.  It is lost, being made, accepted, or serves the        *)
(* subscription; the last request under way is then to subscribe.          *)
(***************************************************************************)

Lines == [topic : Topics, stamp : Nat]
Requests == {"connect", "subscribe", "unsubscribe"}

LinesType ==
  /\ log \in Seq(Lines) /\ up \in Seq(Requests)
  /\ retained \in [Topics -> Nat] /\ stamp \in Nat /\ ends \in Nat

Idle == up = <<>> /\ down = <<>> /\ ~subscribed
Lost == link = "down" /\ Idle
Connecting ==
  link = "up" /\ logger = "wait" /\ up = <<"connect">> /\ down = <<>> /\ ~subscribed
Accepted ==
  link = "up" /\ logger = "wait" /\ up = <<>> /\ down = <<Connack>> /\ ~subscribed

\* The requests are to unsubscribe and to subscribe, by turns, the last to subscribe.
Turns(q) ==
  \A k \in 1..Len(q) :
    /\ (Len(q) - k) % 2 = 0 => q[k] = "subscribe"
    /\ (Len(q) - k) % 2 = 1 => q[k] = "unsubscribe"

Served == link = "up" /\ Turns(up) /\ down \in Seq(Lines) /\ (up = <<>> => subscribed)

ConnectionInv == LinesType /\ (Lost \/ Connecting \/ Accepted \/ Served)

\* Once no request is under way, each value is told, or is on its way.
Told ==
  \A t \in Stored :
    \/ \E k \in 1..Len(log) : log[k] = Line(t)
    \/ \E k \in 1..Len(down) : down[k] = Line(t)
TellInv == Served /\ logger = "wait" /\ up = <<>> => Told

Known == Cardinality(Topics)

\* The rotation that is about to be counted, and the replay it is about to ask for.
Debt == IF logger = "reopen" THEN 1 + Known ELSE 0

Spent == Newest + Len(log) + Debt
Subscriptions == (Len(up) + 1) \div 2
Paid == 1 + stamp + Known * ends

\* The first connection has not been served: what was published before is not paid
\* with a replay.
Fresh == ends = 0 /\ log = <<>> /\ Newest = 1 /\ logger = "wait"

PaidInv ==
  /\ Lost \/ Connecting \/ Accepted => Fresh \/ Spent + Known <= Paid
  /\ Served => \/ Fresh /\ up = <<"subscribe">> /\ down = <<>> /\ ~subscribed
               \/ Spent + Len(down) + Known * Subscriptions <= Paid
  /\ Cardinality(Stored) <= stamp
  /\ logger = "rename" => Len(log) > MaxLines

LEMMA SeqOfLines ==
  ASSUME NEW s \in Seq(Lines), NEW t \in Seq(Lines)
  PROVE  /\ s \o t \in Seq(Lines) /\ Len(s \o t) = Len(s) + Len(t)
         /\ Len(s) \in Nat /\ Len(t) \in Nat
         /\ \A k \in 1..Len(s) : (s \o t)[k] = s[k]
         /\ \A k \in 1..Len(t) : (s \o t)[Len(s) + k] = t[k]
<1>1. s \o t \in Seq(Lines) /\ Len(s \o t) = Len(s) + Len(t)
  BY ConcatProperties
<1>2. Len(s) \in Nat /\ Len(t) \in Nat
  BY LenProperties
<1>3. \A k \in 1..Len(s) + Len(t) :
        (s \o t)[k] = IF k <= Len(s) THEN s[k] ELSE t[k - Len(s)]
  BY ConcatProperties
<1>4. ASSUME NEW k \in 1..Len(s) PROVE (s \o t)[k] = s[k]
  BY <1>2, <1>3
<1>5. ASSUME NEW k \in 1..Len(t) PROVE (s \o t)[Len(s) + k] = t[k]
  BY <1>2, <1>3
<1>6. QED
  BY <1>1, <1>2, <1>4, <1>5

LEMMA TailOfLines ==
  ASSUME NEW s \in Seq(Lines), s # <<>>
  PROVE  /\ Head(s) \in Lines /\ Tail(s) \in Seq(Lines)
         /\ Head(s) = s[1] /\ Len(Tail(s)) = Len(s) - 1 /\ Len(s) \in Nat \ {0}
         /\ \A k \in 1..Len(s) : k # 1 => k - 1 \in 1..Len(Tail(s)) /\ Tail(s)[k - 1] = s[k]
<1>1. /\ Head(s) \in Lines /\ Tail(s) \in Seq(Lines) /\ Len(Tail(s)) = Len(s) - 1
      /\ \A k \in 1..Len(Tail(s)) : Tail(s)[k] = s[k + 1]
  BY HeadTailProperties
<1>2. Len(s) \in Nat /\ Len(s) # 0
  BY LenProperties, EmptySeq
<1>3. Head(s) = s[1]
  BY HeadTailProperties
<1>4. ASSUME NEW k \in 1..Len(s), k # 1
      PROVE  k - 1 \in 1..Len(Tail(s)) /\ Tail(s)[k - 1] = s[k]
  BY <1>1, <1>2, <1>4
<1>5. QED
  BY <1>1, <1>2, <1>3, <1>4

\* What the broker replays: a line for each topic that has a value.
LEMMA ReplayTells ==
  ASSUME LinesType
  PROVE  /\ Replay \in Seq(Lines) /\ Len(Replay) = Cardinality(Stored)
         /\ Cardinality(Stored) \in Nat /\ Known \in Nat /\ Cardinality(Stored) <= Known
         /\ \A t \in Stored : \E k \in 1..Len(Replay) : Replay[k] = Line(t)
<1> DEFINE n == Cardinality(Stored)
           topics == SetToSeq(Stored)
<1>1. Stored \subseteq Topics /\ IsFiniteSet(Stored) /\ IsFiniteSet(Topics)
  BY FS_Subset, LogAssumption DEF Stored
<1>2. n \in Nat /\ Known \in Nat /\ n <= Known /\ ExistsBijection(1..n, Stored)
  BY <1>1, FS_Subset, FS_CardinalityType DEF Known
<1>3. \E f \in [1..n -> Stored] : IsInjective(f)
  BY <1>2 DEF ExistsBijection, Bijection, Injection
<1>4. topics \in [1..n -> Stored] /\ IsInjective(topics)
  BY <1>3 DEF SetToSeq
<1>5. topics \in Injection(1..n, Stored)
  BY <1>4 DEF Injection
<1>6. IsFiniteSet(1..n) /\ Cardinality(1..n) = n
  BY <1>2, FS_Interval
<1>7. topics \in Surjection(1..n, Stored)
  BY <1>1, <1>5, <1>6, FS_Injection
<1>8. Len(topics) = n
  BY <1>2, <1>4
<1>9. Replay = [k \in 1..n |-> Line(topics[k])]
  BY <1>8 DEF Replay
<1>10. \A k \in 1..n : Line(topics[k]) \in Lines
  BY <1>1, <1>4 DEF Line, Lines, LinesType
<1>11. Replay \in [1..n -> Lines]
  BY <1>9, <1>10
<1> HIDE DEF n, topics
<1>12. Replay \in Seq(Lines) /\ Len(Replay) = n
  BY <1>2, <1>11
<1>13. ASSUME NEW t \in Stored PROVE \E k \in 1..Len(Replay) : Replay[k] = Line(t)
  <2>1. PICK k \in 1..n : topics[k] = t
    BY <1>7 DEF Surjection
  <2>2. QED
    BY <1>9, <1>12, <2>1
<1>14. QED
  BY <1>2, <1>12, <1>13 DEF n

LEMMA TurnsGoOn ==
  ASSUME NEW q \in Seq(Requests), Turns(q)
  PROVE  /\ q \o <<"unsubscribe", "subscribe">> \in Seq(Requests)
         /\ Turns(q \o <<"unsubscribe", "subscribe">>)
         /\ Len(q \o <<"unsubscribe", "subscribe">>) = Len(q) + 2
         /\ Len(q) \in Nat
<1> DEFINE more == <<"unsubscribe", "subscribe">>
<1>1. more \in Seq(Requests) /\ Len(more) = 2
      /\ more[1] = "unsubscribe" /\ more[2] = "subscribe"
  BY DEF Requests
<1> HIDE DEF more
<1>2. q \o more \in Seq(Requests) /\ Len(q \o more) = Len(q) + 2 /\ Len(q) \in Nat
  <2>1. q \o more \in Seq(Requests) /\ Len(q \o more) = Len(q) + Len(more)
    BY <1>1, ConcatProperties
  <2>2. Len(q) \in Nat
    BY LenProperties
  <2>3. QED
    BY <1>1, <2>1, <2>2
<1>3. \A k \in 1..Len(q) + 2 : (q \o more)[k] = IF k <= Len(q) THEN q[k] ELSE more[k - Len(q)]
  BY <1>1, ConcatProperties
<1>4. ASSUME NEW k \in 1..Len(q) + 2
      PROVE  /\ (Len(q) + 2 - k) % 2 = 0 => (q \o more)[k] = "subscribe"
             /\ (Len(q) + 2 - k) % 2 = 1 => (q \o more)[k] = "unsubscribe"
  <2>1. CASE k <= Len(q)
    <3>1. k \in 1..Len(q) /\ (q \o more)[k] = q[k]
      BY <1>2, <1>3, <2>1
    <3>2. (Len(q) + 2 - k) % 2 = (Len(q) - k) % 2
      BY <1>2, <3>1
    <3>3. QED
      BY <3>1, <3>2 DEF Turns
  <2>2. CASE k = Len(q) + 1
    <3>1. (q \o more)[k] = more[1] /\ Len(q) + 2 - k = 1
      BY <1>2, <1>3, <2>2
    <3>2. QED
      BY <1>1, <3>1
  <2>3. CASE k = Len(q) + 2
    <3>1. (q \o more)[k] = more[2] /\ Len(q) + 2 - k = 0
      BY <1>2, <1>3, <2>3
    <3>2. QED
      BY <1>1, <3>1
  <2>4. QED
    BY <1>2, <2>1, <2>2, <2>3
<1>5. QED
  BY <1>2, <1>4 DEF Turns, more

LEMMA TurnsServed ==
  ASSUME NEW q \in Seq(Requests), Turns(q), q # <<>>
  PROVE  /\ Tail(q) \in Seq(Requests) /\ Turns(Tail(q))
         /\ Len(q) \in Nat \ {0} /\ Len(Tail(q)) = Len(q) - 1
         /\ \/ Head(q) = "subscribe" /\ (Len(q) - 1) % 2 = 0
            \/ Head(q) = "unsubscribe" /\ (Len(q) - 1) % 2 = 1
         /\ Tail(q) = <<>> => Head(q) = "subscribe"
<1>1. Tail(q) \in Seq(Requests) /\ Len(Tail(q)) = Len(q) - 1 /\ Head(q) = q[1]
      /\ \A k \in 1..Len(Tail(q)) : Tail(q)[k] = q[k + 1]
  BY HeadTailProperties
<1>2. Len(q) \in Nat \ {0}
  BY LenProperties, EmptySeq
<1>3. \A k \in 1..Len(q) - 1 : k + 1 \in 1..Len(q) /\ Len(q) - (k + 1) = (Len(q) - 1) - k
  BY <1>2
<1>4. Turns(Tail(q))
  BY <1>1, <1>3 DEF Turns
<1>5. (Len(q) - 1) % 2 \in {0, 1} /\ 1 \in 1..Len(q)
  BY <1>2
<1>6. /\ (Len(q) - 1) % 2 = 0 => q[1] = "subscribe"
      /\ (Len(q) - 1) % 2 = 1 => q[1] = "unsubscribe"
  BY <1>5 DEF Turns
<1>7. Tail(q) = <<>> => Head(q) = "subscribe"
  <2>1. SUFFICES ASSUME Tail(q) = <<>> PROVE q[1] = "subscribe"
    BY <1>1
  <2>2. Len(q) - 1 = 0
    BY <1>1, <1>2, <2>1
  <2>3. (Len(q) - 1) % 2 = 0
    <3>1. 0 % 2 = 0
      OBVIOUS
    <3>2. QED
      BY <2>2, <3>1
  <2>4. QED
    BY <1>6, <2>3
<1>8. QED
  BY <1>1, <1>2, <1>4, <1>5, <1>6, <1>7

\* What comes first tells the state of the connection.
LEMMA ConnackIsAlone ==
  ASSUME ConnectionInv, down # <<>>
  PROVE  /\ Head(down) = Connack => Accepted /\ Tail(down) = <<>>
         /\ Head(down) # Connack => Served
<1>1. Accepted => Head(down) = Connack /\ Tail(down) = <<>>
  BY DEF Accepted
<1>2. Served => Head(down) # Connack
  BY TailOfLines, LogAssumption DEF Served, Lines, Connack
<1>3. Accepted \/ Served
  BY DEF ConnectionInv, Lost, Idle, Connecting
<1>4. QED
  BY <1>1, <1>2, <1>3

LEMMA AwaitedIsServed ==
  ASSUME ConnectionInv, logger # "wait"
  PROVE  Lost \/ Served
BY DEF ConnectionInv, Connecting, Accepted

LEMMA ConnectionInit == LogInit => ConnectionInv
<1>1. LogInit => Connecting
  BY DEF LogInit, Connecting
<1>2. ASSUME LogInit PROVE LinesType
  <2>1. log = <<>> /\ up = <<"connect">> /\ retained = [t \in Topics |-> 0]
        /\ stamp = 0 /\ ends = 0
    BY <1>2 DEF LogInit
  <2>2. QED
    BY <2>1 DEF LinesType, Requests
<1>3. QED
  BY <1>1, <1>2 DEF ConnectionInv

LEMMA ConnectionStep ==
  ASSUME ConnectionInv, [LogNext]_logVars
  PROVE  ConnectionInv'
<1>1. LinesType
  BY DEF ConnectionInv
<1>2. CASE OnConnect
  <2>1. Accepted /\ Tail(down) = <<>>
    BY <1>2, ConnackIsAlone DEF OnConnect
  <2>2. up' = <<"subscribe">> /\ down' = <<>> /\ link' = "up"
    BY <1>2, <2>1 DEF OnConnect, Send, Accepted
  <2>3. Turns(up') /\ up' \in Seq(Requests)
    BY <2>2 DEF Turns, Requests
  <2>4. Served'
    BY <2>2, <2>3 DEF Served
  <2>5. LinesType'
    BY <1>1, <1>2, <2>3 DEF LinesType, OnConnect, files, world
  <2>6. QED
    BY <2>4, <2>5 DEF ConnectionInv
<1>3. CASE OnMessage
  <2>1. Served
    BY <1>3, ConnackIsAlone DEF OnMessage
  <2>2. Head(down) \in Lines /\ Tail(down) \in Seq(Lines)
    BY <1>3, <2>1, TailOfLines DEF Served, OnMessage
  <2>3. Served'
    BY <1>3, <2>1, <2>2 DEF Served, OnMessage
  <2>4. log' \in Seq(Lines)
    BY <1>1, <1>3, <2>2 DEF LinesType, OnMessage
  <2>5. LinesType'
    BY <1>1, <1>3, <2>4 DEF LinesType, OnMessage, world
  <2>6. QED
    BY <2>3, <2>5 DEF ConnectionInv
<1>4. CASE RenameOld
  <2>1. Lost \/ Served
    BY <1>4, AwaitedIsServed DEF RenameOld
  <2>2. Lost' \/ Served'
    BY <1>4, <2>1 DEF RenameOld, connection, Lost, Idle, Served
  <2>3. LinesType'
    BY <1>1, <1>4 DEF RenameOld, connection, world, LinesType
  <2>4. QED
    BY <2>2, <2>3 DEF ConnectionInv
<1>5. CASE RenameLog
  <2>1. Lost \/ Served
    BY <1>5, AwaitedIsServed DEF RenameLog
  <2>2. Lost' \/ Served'
    BY <1>5, <2>1 DEF RenameLog, connection, Lost, Idle, Served
  <2>3. LinesType'
    BY <1>1, <1>5 DEF RenameLog, connection, world, LinesType
  <2>4. QED
    BY <2>2, <2>3 DEF ConnectionInv
<1>6. CASE Reopen
  <2>1. Lost \/ Served
    BY <1>6, AwaitedIsServed DEF Reopen
  <2>2. CASE Lost
    <3>1. Lost'
      BY <1>6, <2>2 DEF Reopen, Send, Lost, Idle
    <3>2. LinesType'
      BY <1>1, <1>6, <2>2 DEF Reopen, Send, Lost, world, LinesType
    <3>3. QED
      BY <3>1, <3>2 DEF ConnectionInv
  <2>3. CASE Served
    <3>1. up' = up \o <<"unsubscribe", "subscribe">>
      BY <1>6, <2>3 DEF Reopen, Send, Served
    <3>2. up' \in Seq(Requests) /\ Turns(up') /\ Len(up') = Len(up) + 2 /\ Len(up) \in Nat
      BY <1>1, <2>3, <3>1, TurnsGoOn DEF LinesType, Served
    <3>3. up' # <<>>
      BY <3>2
    <3>4. Served'
      BY <1>6, <2>3, <3>2, <3>3 DEF Reopen, Served
    <3>5. LinesType'
      BY <1>1, <1>6, <3>2 DEF Reopen, world, LinesType
    <3>6. QED
      BY <3>4, <3>5 DEF ConnectionInv
  <2>4. QED
    BY <2>1, <2>2, <2>3
<1>7. CASE Reconnect
  <2>1. Lost
    BY <1>7 DEF Reconnect, ConnectionInv, Connecting, Accepted, Served
  <2>2. Connecting'
    BY <1>7, <2>1 DEF Reconnect, Lost, Idle, Connecting
  <2>3. up' \in Seq(Requests)
    BY <1>7 DEF Reconnect, Requests
  <2>4. LinesType'
    BY <1>1, <1>7, <2>3 DEF Reconnect, files, world, LinesType
  <2>5. QED
    BY <2>2, <2>4 DEF ConnectionInv
<1>8. CASE Broker
  <2>1. Connecting \/ Served
    BY <1>8 DEF Broker, ConnectionInv, Lost, Idle, Accepted
  <2>2. CASE Connecting
    <3>1. Head(up) = "connect" /\ Tail(up) = <<>>
      BY <2>2 DEF Connecting
    <3>2. down' = <<Connack>>
      BY <1>8, <2>2, <3>1 DEF Broker, Connecting
    <3>3. Accepted'
      BY <1>8, <2>2, <3>1, <3>2 DEF Broker, Connecting, Accepted, Connack
    <3>4. up' = <<>>
      BY <1>8, <3>1 DEF Broker
    <3>5. LinesType'
      BY <1>1, <1>8, <3>4 DEF Broker, files, world, LinesType
    <3>6. QED
      BY <3>3, <3>5 DEF ConnectionInv
  <2>3. CASE Served
    <3>1. /\ up' \in Seq(Requests) /\ Turns(up')
          /\ Head(up) \in {"subscribe", "unsubscribe"}
          /\ up' = <<>> => Head(up) = "subscribe"
      BY <1>1, <1>8, <2>3, TurnsServed DEF Broker, Served, LinesType
    <3>2. down' \in {down, down \o Replay}
      BY <1>8, <3>1 DEF Broker
    <3>3. down' \in Seq(Lines)
      BY <1>1, <2>3, <3>2, ReplayTells, SeqOfLines DEF Served
    <3>4. Served'
      BY <1>8, <2>3, <3>1, <3>3 DEF Broker, Served
    <3>5. LinesType'
      BY <1>1, <1>8, <3>1 DEF Broker, files, world, LinesType
    <3>6. QED
      BY <3>4, <3>5 DEF ConnectionInv
  <2>4. QED
    BY <2>1, <2>2, <2>3
<1>9. ASSUME NEW t \in Topics, PublishTopic(t)
      PROVE  ConnectionInv'
  <2>1. stamp' \in Nat /\ retained' \in [Topics -> Nat] /\ [topic |-> t, stamp |-> stamp'] \in Lines
    BY <1>1, <1>9 DEF PublishTopic, LinesType, Lines
  <2>2. LinesType'
    BY <1>1, <1>9, <2>1 DEF PublishTopic, files, LinesType
  <2>3. CASE Served
    <3>1. down' \in Seq(Lines)
      BY <1>9, <2>1, <2>3 DEF PublishTopic, Served
    <3>2. Served'
      BY <1>9, <2>3, <3>1 DEF PublishTopic, Served
    <3>3. QED
      BY <2>2, <3>2 DEF ConnectionInv
  <2>4. CASE ~Served
    <3>1. ~subscribed /\ (Lost \/ Connecting \/ Accepted)
      BY <2>4 DEF ConnectionInv, Lost, Idle, Connecting, Accepted
    <3>2. UNCHANGED <<link, logger, up, down, subscribed>>
      BY <1>9, <3>1 DEF PublishTopic
    <3>3. Lost' \/ Connecting' \/ Accepted'
      BY <3>1, <3>2 DEF Lost, Idle, Connecting, Accepted, Connack
    <3>4. QED
      BY <2>2, <3>3 DEF ConnectionInv
  <2>5. QED
    BY <2>3, <2>4
<1>10. CASE LoseLink
  <2>1. Lost'
    BY <1>10 DEF LoseLink, Lost, Idle
  <2>2. LinesType'
    BY <1>1, <1>10 DEF LoseLink, files, LinesType
  <2>3. QED
    BY <2>1, <2>2 DEF ConnectionInv
<1>11. CASE LogRestart
  <2>1. Connecting' /\ up' \in Seq(Requests)
    BY <1>11 DEF LogRestart, Connecting, Requests
  <2>2. LinesType'
    BY <1>1, <1>11, <2>1 DEF LogRestart, LinesType
  <2>3. QED
    BY <2>1, <2>2 DEF ConnectionInv
<1>12. CASE UNCHANGED logVars
  BY <1>12 DEF logVars, files, connection, world, ConnectionInv, LinesType, Lost, Idle, Connecting,
               Accepted, Connack, Served
<1>13. QED
  BY <1>2, <1>3, <1>4, <1>5, <1>6, <1>7, <1>8, <1>9, <1>10, <1>11, <1>12 DEF LogNext, Logger

\* What tells that a connection is not served.
LEMMA NotServed ==
  /\ <<Connack>> \notin Seq(Lines)
  /\ ~Turns(<<"connect">>)
<1>1. ASSUME <<Connack>> \in Seq(Lines) PROVE FALSE
  <2>1. <<Connack>>[1] \in Lines
    BY <1>1, ElementOfSeq
  <2>2. QED
    BY <2>1, LogAssumption DEF Connack, Lines
<1>2. ~Turns(<<"connect">>)
  <2>1. Len(<<"connect">>) = 1 /\ <<"connect">>[1] = "connect" /\ (1 - 1) % 2 = 0
    OBVIOUS
  <2>2. QED
    BY <2>1 DEF Turns
<1>3. QED
  BY <1>1, <1>2

-----------------------------------------------------------------------------
(***************************************************************************)
(* What the log tells.                                                     *)
(***************************************************************************)

LEMMA TellStep ==
  ASSUME ConnectionInv, TellInv, [LogNext]_logVars
  PROVE  TellInv'
<1>1. LinesType
  BY DEF ConnectionInv
<1>2. CASE OnConnect
  <2>1. up' = <<"subscribe">>
    BY <1>2, ConnackIsAlone DEF OnConnect, Send, Accepted
  <2>2. QED
    BY <2>1 DEF TellInv
<1>3. CASE OnMessage
  <2> SUFFICES ASSUME logger' = "wait", up' = <<>> PROVE Told'
    BY DEF TellInv
  <2>1. Served /\ logger = "wait" /\ up = <<>>
    BY <1>3, ConnackIsAlone DEF OnMessage
  <2>2. down \in Seq(Lines) /\ down # <<>> /\ down' = Tail(down)
    BY <1>3, <2>1 DEF OnMessage, Served
  <2>3. log \in Seq(Lines) /\ Head(down) \in Lines /\ Head(down) = down[1]
    BY <1>1, <2>2, TailOfLines DEF LinesType
  <2>4. /\ log' = Append(log, Head(down)) /\ Len(log) \in Nat
        /\ Len(log') = Len(log) + 1 /\ log'[Len(log) + 1] = Head(down)
        /\ \A k \in 1..Len(log) : log'[k] = log[k]
    BY <1>3, <2>3, AppendProperties, LenProperties DEF OnMessage
  <2>5. \A k \in 1..Len(down) :
          k # 1 => k - 1 \in 1..Len(down') /\ down'[k - 1] = down[k]
    BY <2>2, TailOfLines
  <2>6. ASSUME NEW t \in Stored'
        PROVE  \/ \E k \in 1..Len(log') : log'[k] = Line(t)'
               \/ \E k \in 1..Len(down') : down'[k] = Line(t)'
    <3>1. t \in Stored /\ Line(t)' = Line(t)
      BY <1>3 DEF OnMessage, world, Stored, Line
    <3>2. CASE \E k \in 1..Len(log) : log[k] = Line(t)
      BY <2>4, <3>1, <3>2
    <3>3. CASE \E k \in 1..Len(down) : down[k] = Line(t)
      <4>1. PICK k \in 1..Len(down) : down[k] = Line(t)
        BY <3>3
      <4>2. CASE k = 1
        <5>1. Len(log) + 1 \in 1..Len(log') /\ log'[Len(log) + 1] = Line(t)'
          BY <2>3, <2>4, <3>1, <4>1, <4>2
        <5>2. QED
          BY <5>1
      <4>3. CASE k # 1
        <5>1. k - 1 \in 1..Len(down') /\ down'[k - 1] = Line(t)'
          BY <2>5, <3>1, <4>1, <4>3
        <5>2. QED
          BY <5>1
      <4>4. QED
        BY <4>2, <4>3
    <3>4. Told
      BY <2>1 DEF TellInv
    <3>5. QED
      BY <3>1, <3>2, <3>3, <3>4 DEF Told
  <2>7. QED
    BY <2>6 DEF Told
<1>4. CASE RenameOld \/ RenameLog
  <2>1. logger' # "wait"
    BY <1>4 DEF RenameOld, RenameLog
  <2>2. QED
    BY <2>1 DEF TellInv
<1>5. CASE Reopen
  <2>1. CASE Lost
    <3>1. link' # "up"
      BY <1>5, <2>1 DEF Reopen, Lost
    <3>2. QED
      BY <3>1 DEF TellInv, Served
  <2>2. CASE Served
    <3>1. up' = up \o <<"unsubscribe", "subscribe">> /\ up \in Seq(Requests) /\ Turns(up)
      BY <1>1, <1>5, <2>2 DEF Reopen, Send, Served, LinesType
    <3>2. Len(up') = Len(up) + 2 /\ Len(up) \in Nat
      BY <3>1, TurnsGoOn
    <3>3. up' # <<>>
      BY <3>2
    <3>4. QED
      BY <3>3 DEF TellInv
  <2>3. QED
    BY <1>5, <2>1, <2>2, AwaitedIsServed DEF Reopen
<1>6. CASE Reconnect \/ LogRestart
  <2>1. up' # <<>>
    BY <1>6 DEF Reconnect, LogRestart
  <2>2. QED
    BY <2>1 DEF TellInv
<1>7. CASE Broker
  <2> SUFFICES ASSUME Served', logger' = "wait", up' = <<>> PROVE Told'
    BY DEF TellInv
  <2>1. CASE Connecting
    <3>1. down' = <<Connack>>
      BY <1>7, <2>1 DEF Broker, Connecting
    <3>2. QED
      BY <3>1, NotServed DEF Served
  <2>2. CASE Served
    <3>1. Head(up) = "subscribe"
      BY <1>1, <1>7, <2>2, TurnsServed DEF Broker, Served, LinesType
    <3>2. down' = down \o Replay
      BY <1>7, <3>1 DEF Broker
    <3>3. /\ Len(down') = Len(down) + Len(Replay)
          /\ Len(down) \in Nat /\ Len(Replay) \in Nat
          /\ \A k \in 1..Len(Replay) : down'[Len(down) + k] = Replay[k]
      BY <1>1, <2>2, <3>2, ReplayTells, SeqOfLines DEF Served
    <3>4. ASSUME NEW t \in Stored'
          PROVE  \E k \in 1..Len(down') : down'[k] = Line(t)'
      <4>1. t \in Stored /\ Line(t)' = Line(t)
        BY <1>7 DEF Broker, world, Stored, Line
      <4>2. PICK k \in 1..Len(Replay) : Replay[k] = Line(t)
        BY <1>1, <4>1, ReplayTells
      <4>3. Len(down) + k \in 1..Len(down')
        BY <3>3, <4>2
      <4>4. QED
        BY <3>3, <4>1, <4>2, <4>3
    <3>5. QED
      BY <3>4 DEF Told
  <2>3. QED
    BY <1>7, <2>1, <2>2 DEF Broker, ConnectionInv, Lost, Idle, Accepted
<1>8. ASSUME NEW t \in Topics, PublishTopic(t)
      PROVE  TellInv'
  <2> SUFFICES ASSUME Served', logger' = "wait", up' = <<>> PROVE Told'
    BY DEF TellInv
  <2>1. link = "up" /\ logger = "wait" /\ up = <<>>
    BY <1>8 DEF PublishTopic, Served
  <2>2. ~Accepted
    <3>1. ASSUME Accepted PROVE FALSE
      <4>1. down' = <<Connack>>
        BY <1>8, <3>1 DEF PublishTopic, Accepted
      <4>2. QED
        BY <4>1, NotServed DEF Served
    <3>2. QED
      BY <3>1
  <2>3. Served
    BY <2>1, <2>2 DEF ConnectionInv, Lost, Connecting
  <2> DEFINE line == [topic |-> t, stamp |-> stamp']
  <2>4. down' = Append(down, line) /\ down \in Seq(Lines) /\ line \in Lines
    BY <1>1, <1>8, <2>1, <2>3 DEF PublishTopic, Served, Lines, LinesType
  <2>5. line = Line(t)'
    BY <1>1, <1>8 DEF PublishTopic, Line, LinesType
  <2> HIDE DEF line
  <2>6. /\ Len(down') = Len(down) + 1 /\ Len(down) \in Nat
        /\ down'[Len(down) + 1] = line
        /\ \A k \in 1..Len(down) : down'[k] = down[k]
    BY <2>4, AppendProperties, LenProperties
  <2>7. ASSUME NEW s \in Stored'
        PROVE  \/ \E k \in 1..Len(log') : log'[k] = Line(s)'
               \/ \E k \in 1..Len(down') : down'[k] = Line(s)'
    <3>1. CASE s = t
      <4>1. Len(down) + 1 \in 1..Len(down') /\ down'[Len(down) + 1] = Line(s)'
        BY <2>5, <2>6, <3>1
      <4>2. QED
        BY <4>1
    <3>2. CASE s # t
      <4>1. s \in Stored /\ Line(s)' = Line(s)
        BY <1>1, <1>8, <3>2 DEF PublishTopic, Stored, Line, LinesType
      <4>2. Told /\ log' = log
        BY <1>8, <2>1, <2>3 DEF TellInv, PublishTopic, files
      <4>3. QED
        BY <2>6, <4>1, <4>2 DEF Told
    <3>3. QED
      BY <3>1, <3>2
  <2>8. QED
    BY <2>7 DEF Told
<1>9. CASE LoseLink
  <2>1. link' # "up"
    BY <1>9 DEF LoseLink
  <2>2. QED
    BY <2>1 DEF TellInv, Served
<1>10. CASE UNCHANGED logVars
  BY <1>10 DEF logVars, files, connection, world, TellInv, Served, Told, Stored, Line
<1>11. QED
  BY <1>2, <1>3, <1>4, <1>5, <1>6, <1>7, <1>8, <1>9, <1>10 DEF LogNext, Logger

LEMMA TellInit == LogInit => TellInv
BY DEF LogInit, TellInv

LEMMA TellSafe ==
  ASSUME ConnectionInv, TellInv
  PROVE  LogTellsState
<1> SUFFICES ASSUME logger = "wait", link = "up", up = <<>>, down = <<>>, subscribed,
                    NEW t \in Topics, retained[t] # 0
             PROVE  Line(t) \in Range(log)
  BY DEF LogTellsState
<1>1. Served
  BY DEF ConnectionInv, Lost, Connecting, Accepted
<1>2. PICK k \in 1..Len(log) : log[k] = Line(t)
  <2>1. Told /\ t \in Stored
    BY <1>1 DEF TellInv, Stored
  <2>2. ~ \E k \in 1..Len(down) : down[k] = Line(t)
    OBVIOUS
  <2>3. QED
    BY <2>1, <2>2 DEF Told
<1>3. DOMAIN log = 1..Len(log)
  BY LenProperties DEF ConnectionInv, LinesType
<1>4. QED
  BY <1>2, <1>3 DEF Range

\* Whatever rotations, restarts and lost connections there were: once nothing is on the
\* way, the current log tells the value of every topic.
THEOREM LogIsComplete == LogSpec => []LogTellsState
<1>1. ConnectionInv /\ TellInv /\ [LogNext]_logVars => (ConnectionInv /\ TellInv)'
  BY ConnectionStep, TellStep
<1>2. ConnectionInv /\ TellInv => LogTellsState
  BY TellSafe
<1>3. QED
  BY ConnectionInit, TellInit, <1>1, <1>2, PTL DEF LogSpec

-----------------------------------------------------------------------------
(***************************************************************************)
(* What the rotations cost.                                                *)
(***************************************************************************)

LEMMA Times ==
  ASSUME NEW a \in Nat, NEW b \in Nat
  PROVE  a * b \in Nat /\ a * (b + 1) = a * b + a /\ a * 1 = a /\ a * 0 = 0
OBVIOUS

LEMMA NoMore ==
  ASSUME NEW a \in Nat, NEW b \in Nat, NEW c \in Nat, NEW d \in Nat, a <= b, b + c <= d
  PROVE  a + c <= d
OBVIOUS

LEMMA PaidTypes ==
  ASSUME FilesInv, LinesType
  PROVE  /\ Newest \in Nat /\ Len(log) \in Nat /\ Known \in Nat
         /\ logger = "reopen" => Debt = 1 + Known
         /\ logger # "reopen" => Debt = 0
         /\ stamp \in Nat /\ ends \in Nat /\ Known * ends \in Nat
<1>1. Newest \in Nat
  BY NewestType, LogAssumption DEF FilesInv
<1>2. Len(log) \in Nat /\ Known \in Nat
  BY ReplayTells, LenProperties DEF LinesType
<1>3. Known * ends \in Nat
  BY <1>2, Times DEF LinesType
<1>4. QED
  BY <1>1, <1>2, <1>3 DEF Debt, LinesType

LEMMA SpentIsPaid ==
  ASSUME FilesInv, ConnectionInv, PaidInv
  PROVE  Spent <= Paid
<1>1. LinesType
  BY DEF ConnectionInv
<1>2. CASE Fresh
  <2>1. Len(log) = 0 /\ Newest = 1 /\ Debt = 0
    BY <1>2 DEF Fresh, Debt
  <2>2. QED
    BY <1>1, <2>1, PaidTypes DEF Spent, Paid
<1>3. CASE Spent + Known <= Paid
  BY <1>1, <1>3, PaidTypes, SMTT(40) DEF Spent, Paid, Debt
<1>4. CASE Served /\ Spent + Len(down) + Known * Subscriptions <= Paid
  <2>1. Len(down) \in Nat /\ Len(up) \in Nat
    BY <1>1, <1>4, LenProperties DEF Served, LinesType
  <2>2. Subscriptions \in Nat
    BY <2>1 DEF Subscriptions
  <2>3. Known * Subscriptions \in Nat
    BY <1>1, <2>2, PaidTypes, Times
  <2>4. Spent \in Nat /\ Paid \in Nat
    BY <1>1, PaidTypes, SMTT(40) DEF Spent, Paid, Debt
  <2>5. QED
    BY <1>4, <2>1, <2>3, <2>4
<1>5. QED
  BY <1>2, <1>3, <1>4 DEF ConnectionInv, PaidInv

LEMMA PaidInit == LogInit => PaidInv
<1> SUFFICES ASSUME LogInit PROVE PaidInv
  OBVIOUS
<1>1. Connecting /\ Fresh
  <2>1. Newest = 1
    BY LogAssumption DEF LogInit, Newest
  <2>2. QED
    BY <2>1 DEF LogInit, Connecting, Fresh
<1>2. ~Served
  BY <1>1, NotServed DEF Connecting, Served
<1>3. Stored = {}
  BY DEF LogInit, Stored
<1>4. Cardinality(Stored) <= stamp
  BY <1>3, FS_EmptySet DEF LogInit
<1>5. logger # "rename"
  BY DEF LogInit
<1>6. QED
  BY <1>1, <1>2, <1>4, <1>5 DEF PaidInv

\* The steps that begin, carry and end a rotation.
LEMMA PaidRotation ==
  ASSUME Known <= MaxLines, FilesInv, ConnectionInv, PaidInv,
         OnMessage \/ RenameOld \/ RenameLog \/ Reopen
  PROVE  PaidInv'
<1>1. LinesType /\ FilesType
  BY DEF ConnectionInv, FilesInv
<1>2. Stored' = Stored /\ stamp' = stamp /\ ends' = ends
  BY DEF OnMessage, RenameOld, RenameLog, Reopen, world, Stored
<1>3. Cardinality(Stored') <= stamp'
  BY <1>2 DEF PaidInv
<1>4. Paid' = Paid
  BY <1>2 DEF Paid, Known
<1>5. CASE OnMessage
  <2>1. Served /\ down # <<>> /\ logger = "wait" /\ link' = "up"
    BY <1>5, ConnackIsAlone DEF OnMessage, Served
  <2>2. /\ Len(down) \in Nat \ {0} /\ Len(down') = Len(down) - 1
        /\ Head(down) \in Lines /\ down' \in Seq(Lines)
    BY <1>5, <2>1, TailOfLines DEF OnMessage, Served
  <2>3. Len(log') = Len(log) + 1
    BY <1>1, <1>5, <2>2, AppendProperties DEF OnMessage, LinesType
  <2>4. Newest' = Newest
    BY <1>5 DEF OnMessage, Newest
  <2>5. Debt = 0 /\ Debt' = 0
    BY <1>5, <2>1 DEF OnMessage, Debt
  <2>6. Spent' + Len(down') = Spent + Len(down)
    BY <1>1, <2>2, <2>3, <2>4, <2>5, PaidTypes DEF Spent
  <2>7. up' = up /\ Known * Subscriptions' = Known * Subscriptions
    BY <1>5 DEF OnMessage, Subscriptions
  <2>8. Spent + Len(down) + Known * Subscriptions <= Paid
    BY <2>1 DEF PaidInv
  <2>9. Spent' + Len(down') + Known * Subscriptions' <= Paid'
    BY <1>4, <2>6, <2>7, <2>8
  <2>10. ~Lost' /\ ~Connecting' /\ ~Accepted'
    BY <2>1, <2>2, <2>7, NotServed DEF Served, Lost, Connecting, Accepted, Connack
  <2>11. logger' = "rename" => Len(log') > MaxLines
    BY <1>5, <2>1 DEF OnMessage, Grown
  <2>12. QED
    BY <1>3, <2>9, <2>10, <2>11 DEF PaidInv
<1>6. CASE RenameOld
  <2>1. gen \in Nat /\ gen' = gen /\ gen # None /\ log' = log /\ logger = "rename" /\ logger' = "rename"
    BY <1>1, <1>6, LogAssumption DEF RenameOld, FilesType
  <2>2. Newest' = Newest /\ Debt' = Debt
    BY <2>1 DEF Newest, Debt
  <2>3. Spent' = Spent /\ UNCHANGED <<link, up, down, subscribed>>
    BY <1>6, <2>1, <2>2 DEF Spent, RenameOld, connection
  <2>4. ~Connecting' /\ ~Accepted' /\ ~Fresh
    BY <2>1 DEF Connecting, Accepted, Fresh
  <2>5. Lost' => Lost /\ Spent' + Known <= Paid'
    BY <1>4, <2>3, <2>4 DEF PaidInv, Lost, Idle
  <2>6. Served' => Spent' + Len(down') + Known * Subscriptions' <= Paid'
    BY <1>4, <2>3, <2>4 DEF PaidInv, Served, Subscriptions
  <2>7. Len(log') > MaxLines
    BY <2>1 DEF PaidInv
  <2>8. QED
    BY <1>3, <2>4, <2>5, <2>6, <2>7 DEF PaidInv
<1>7. CASE RenameLog
  <2>1. /\ logger = "rename" /\ logger' = "reopen"
        /\ gen \in Nat /\ gen # None /\ gen' = None /\ old'[1] = gen
        /\ Len(log') = 0 /\ Len(log) > MaxLines /\ UNCHANGED <<link, up, down, subscribed>>
    BY <1>1, <1>7, LogAssumption DEF RenameLog, FilesType, PaidInv, connection
  <2>2. Newest' = Newest /\ Debt = 0 /\ Debt' = 1 + Known
    BY <2>1 DEF Newest, Debt, Known
  <2>3. Spent' <= Spent /\ Spent' \in Nat /\ Spent \in Nat
    BY <1>1, <2>1, <2>2, PaidTypes, LogAssumption DEF Spent
  <2>4. ~Connecting' /\ ~Accepted' /\ ~Fresh
    BY <2>1 DEF Connecting, Accepted, Fresh
  <2>5. Paid \in Nat /\ Known \in Nat
    BY <1>1, PaidTypes DEF Paid
  <2>6. Lost' => Spent' + Known <= Paid'
    <3>1. ASSUME Lost' PROVE Spent + Known <= Paid
      BY <2>1, <2>4, <3>1 DEF PaidInv, Lost, Idle
    <3>2. Spent + Known <= Paid => Spent' + Known <= Paid
      BY <2>3, <2>5, NoMore
    <3>3. QED
      BY <1>4, <3>1, <3>2
  <2>7. Served' => Spent' + Len(down') + Known * Subscriptions' <= Paid'
    <3> SUFFICES ASSUME Served' PROVE Spent' + Len(down) + Known * Subscriptions <= Paid
      BY <1>4, <2>1 DEF Subscriptions
    <3>1. Served /\ Spent + Len(down) + Known * Subscriptions <= Paid
      BY <2>1, <2>4 DEF PaidInv, Served
    <3>2. Len(down) \in Nat /\ Len(up) \in Nat
      BY <1>1, <3>1, LenProperties DEF Served, LinesType
    <3>3. Known * Subscriptions \in Nat
      BY <2>5, <3>2, Times DEF Subscriptions
    <3>4. QED
      BY <2>3, <2>5, <3>1, <3>2, <3>3
  <2>8. QED
    BY <1>3, <2>1, <2>4, <2>6, <2>7 DEF PaidInv
<1>8. CASE Reopen
  <2>1. /\ logger = "reopen" /\ logger' = "wait" /\ log' = log /\ gen = None
        /\ old' = old /\ gen' = old[1] + 1 /\ old[1] \in Nat
    BY <1>1, <1>8, LogAssumption DEF Reopen, FilesType
  <2>2. Newest = old[1] /\ Newest' = old[1] + 1
    BY <2>1, LogAssumption DEF Newest
  <2>3. Debt = 1 + Known /\ Debt' = 0
    BY <2>1 DEF Debt
  <2>4. Spent' = Spent - Known /\ Spent \in Nat /\ Spent' \in Nat
    <3>1. Len(log) \in Nat /\ Len(log') = Len(log) /\ Known \in Nat
      BY <1>1, <2>1, PaidTypes
    <3>2. Spent = old[1] + Len(log) + (1 + Known) /\ Spent' = old[1] + 1 + Len(log) + 0
      BY <2>2, <2>3, <3>1 DEF Spent
    <3>3. PICK n \in Nat : n = old[1]
      BY <2>1
    <3>4. Spent = n + Len(log) + (1 + Known) /\ Spent' = n + 1 + Len(log) + 0
      BY <3>2, <3>3
    <3>5. Spent \in Nat /\ Spent' \in Nat
      BY <3>1, <3>4
    <3>6. Spent' = Spent - Known
      BY <3>1, <3>4
    <3>7. QED
      BY <3>5, <3>6
  <2>5. ~Fresh /\ Paid \in Nat /\ Known \in Nat
    BY <1>1, <2>1, PaidTypes DEF Fresh, Paid
  <2>6. CASE Lost
    <3>1. link' # "up" /\ Lost'
      BY <1>8, <2>6 DEF Reopen, Send, Lost, Idle
    <3>2. Spent + Known <= Paid
      BY <2>5, <2>6 DEF PaidInv
    <3>3. Spent' + Known <= Paid'
      BY <1>4, <2>4, <2>5, <3>2
    <3>4. QED
      BY <1>3, <2>1, <3>1, <3>3 DEF PaidInv, Served
  <2>7. CASE Served
    <3>1. up' = up \o <<"unsubscribe", "subscribe">> /\ up \in Seq(Requests) /\ Turns(up)
          /\ link' = "up" /\ down' = down
      BY <1>1, <1>8, <2>7 DEF Reopen, Send, Served, LinesType
    <3>2. Len(up') = Len(up) + 2 /\ Len(up) \in Nat /\ up' # <<>> /\ Turns(up')
      <4>1. Len(up') = Len(up) + 2 /\ Len(up) \in Nat /\ Turns(up')
        BY <3>1, TurnsGoOn
      <4>2. QED
        BY <4>1
    <3>3. Subscriptions' = Subscriptions + 1 /\ Subscriptions \in Nat
      BY <3>2 DEF Subscriptions
    <3>4. Known * Subscriptions' = Known * Subscriptions + Known /\ Known * Subscriptions \in Nat
      BY <2>5, <3>3, Times
    <3>5. Spent + Len(down) + Known * Subscriptions <= Paid /\ Len(down) \in Nat
      BY <2>5, <2>7, LenProperties DEF PaidInv, Served
    <3>6. Spent' + Len(down') + Known * Subscriptions' <= Paid'
      BY <1>4, <2>4, <2>5, <3>1, <3>4, <3>5
    <3>7. ~Lost' /\ ~Connecting' /\ ~Accepted'
      BY <3>1, <3>2, NotServed DEF Lost, Connecting, Accepted
    <3>8. QED
      BY <1>3, <2>1, <3>6, <3>7 DEF PaidInv
  <2>8. QED
    BY <1>8, <2>6, <2>7, AwaitedIsServed DEF Reopen
<1>9. QED
  BY <1>5, <1>6, <1>7, <1>8

\* The connection and its ends; each end pays one replay more.
LEMMA PaidConnection ==
  ASSUME FilesInv, ConnectionInv, PaidInv,
         OnConnect \/ Reconnect \/ LoseLink \/ LogRestart
  PROVE  PaidInv'
<1>1. LinesType /\ FilesType
  BY DEF ConnectionInv, FilesInv
<1>2. Stored' = Stored /\ stamp' = stamp /\ log' = log
  BY DEF OnConnect, Reconnect, LoseLink, LogRestart, files, world, Stored
<1>3. Cardinality(Stored') <= stamp'
  BY <1>2 DEF PaidInv
<1>4. Paid \in Nat /\ Known \in Nat /\ Spent \in Nat /\ Spent <= Paid
  BY <1>1, PaidTypes, SpentIsPaid, SMTT(40) DEF Paid, Spent, Debt
<1>5. CASE OnConnect
  <2>1. Accepted /\ Tail(down) = <<>>
    BY <1>5, ConnackIsAlone DEF OnConnect
  <2>2. up' = <<"subscribe">> /\ down' = <<>> /\ logger' = logger /\ logger = "wait"
        /\ subscribed' = FALSE
    BY <1>5, <2>1 DEF OnConnect, Send, Accepted
  <2>3. UNCHANGED <<gen, old, ends>>
    BY <1>5 DEF OnConnect, files, world
  <2>4. Newest' = Newest /\ Debt' = Debt /\ Paid' = Paid
    BY <1>2, <2>2, <2>3 DEF Newest, Debt, Paid, Known
  <2>5. Spent' = Spent
    BY <1>2, <2>4 DEF Spent
  <2>6. Fresh => Fresh'
    BY <1>2, <2>2, <2>3, <2>4 DEF Fresh
  <2>7. Subscriptions' = 1 /\ Len(down') = 0
    BY <2>2 DEF Subscriptions
  <2>8. Known * Subscriptions' = Known
    BY <1>4, <2>7
  <2>9. Spent + Known <= Paid => Spent' + Len(down') + Known * Subscriptions' <= Paid'
    BY <1>4, <2>4, <2>5, <2>7, <2>8
  <2>10. ~Lost' /\ ~Connecting' /\ ~Accepted'
    BY <2>2 DEF Lost, Idle, Connecting, Accepted
  <2>11. QED
    BY <1>3, <2>1, <2>2, <2>6, <2>9, <2>10 DEF PaidInv
<1>6. CASE Reconnect
  <2>1. Lost
    BY <1>6 DEF Reconnect, ConnectionInv, Connecting, Accepted, Served
  <2>2. up' = <<"connect">> /\ UNCHANGED <<gen, old, ends, logger>> /\ logger = "wait"
    BY <1>6 DEF Reconnect, files, world
  <2>3. Newest' = Newest /\ Debt' = Debt /\ Paid' = Paid
    BY <1>2, <2>2 DEF Newest, Debt, Paid, Known
  <2>4. Spent' = Spent /\ (Fresh => Fresh')
    BY <1>2, <2>2, <2>3 DEF Spent, Fresh
  <2>5. ~Served'
    BY <2>2, NotServed DEF Served
  <2>6. QED
    BY <1>3, <2>1, <2>2, <2>3, <2>4, <2>5 DEF PaidInv, Known
<1>7. CASE LoseLink
  <2>1. UNCHANGED <<gen, old, logger>> /\ ends' = ends + 1 /\ link' = "down"
    BY <1>7 DEF LoseLink, files
  <2>2. Newest' = Newest /\ Debt' = Debt
    BY <2>1 DEF Newest, Debt, Known
  <2>3. Spent' = Spent
    BY <1>2, <2>2 DEF Spent
  <2>4. Known * ends' = Known * ends + Known
    BY <1>1, <1>4, <2>1, Times DEF LinesType
  <2>5. Paid' = Paid + Known
    BY <1>1, <1>2, <2>4, PaidTypes DEF Paid, Known
  <2>6. Spent' + Known <= Paid'
    BY <1>4, <2>3, <2>5
  <2>7. logger' = "rename" => Len(log') > MaxLines
    BY <1>2, <2>1 DEF PaidInv
  <2>8. QED
    BY <1>3, <2>1, <2>6, <2>7 DEF PaidInv, Served, Known
<1>8. CASE LogRestart
  <2>1. logger' = "wait" /\ old' = old /\ ends' = ends + 1 /\ up' = <<"connect">>
    BY <1>8 DEF LogRestart
  <2>2. Debt' = 0
    BY <2>1 DEF Debt
  <2>3. Known * ends' = Known * ends + Known
    BY <1>1, <1>4, <2>1, Times DEF LinesType
  <2>4. Paid' = Paid + Known
    BY <1>1, <1>2, <2>3, PaidTypes DEF Paid, Known
  <2>5. Spent' <= Spent /\ Spent' \in Nat
    <3>1. CASE gen = None
      <4>1. logger = "reopen" /\ old[1] \in Nat /\ gen' = old[1] + 1
        BY <1>1, <1>8, <3>1, LogAssumption DEF LogRestart, FilesType
      <4>2. Newest = old[1] /\ Newest' = old[1] + 1 /\ Debt = 1 + Known
        BY <2>1, <3>1, <4>1, LogAssumption DEF Newest, Debt
      <4>3. Len(log) \in Nat /\ Len(log') = Len(log)
        BY <1>1, <1>2, PaidTypes
      <4>4. Spent = old[1] + Len(log) + (1 + Known) /\ Spent' = old[1] + 1 + Len(log) + 0
        BY <2>2, <4>2, <4>3 DEF Spent
      <4>5. QED
        BY <1>4, <4>1, <4>3, <4>4, SMTT(40)
    <3>2. CASE gen # None
      <4>1. gen' = gen
        BY <1>8, <3>2 DEF LogRestart
      <4>2. Newest' = Newest /\ Debt = 0
        BY <1>1, <2>1, <3>2, <4>1 DEF Newest, Debt, FilesType
      <4>3. QED
        BY <1>1, <1>2, <1>4, <2>2, <4>2, PaidTypes DEF Spent
    <3>3. QED
      BY <3>1, <3>2
  <2>6. Spent' + Known <= Paid'
    <3>1. Spent + Known <= Paid + Known /\ Paid + Known \in Nat
      BY <1>4
    <3>2. QED
      BY <1>4, <2>4, <2>5, <3>1, NoMore
  <2>7. ~Served'
    BY <2>1, NotServed DEF Served
  <2>8. QED
    BY <1>3, <2>1, <2>6, <2>7 DEF PaidInv, Known
<1>9. QED
  BY <1>5, <1>6, <1>7, <1>8

\* The broker: a replay has been paid, a publication pays itself.
LEMMA PaidBroker ==
  ASSUME FilesInv, ConnectionInv, PaidInv, Broker
  PROVE  PaidInv'
<1>1. LinesType
  BY DEF ConnectionInv
<1>2. UNCHANGED <<log, gen, old, logger, stamp, ends, retained>> /\ up # <<>>
      /\ up' = Tail(up) /\ link' = link
  BY DEF Broker, files, world
<1>3. Cardinality(Stored') <= stamp' /\ (logger' = "rename" => Len(log') > MaxLines)
  BY <1>2 DEF PaidInv, Stored
<1>4. Newest' = Newest /\ Debt' = Debt /\ Paid' = Paid
  BY <1>2 DEF Newest, Debt, Paid, Known
<1>5. Spent' = Spent /\ (Fresh => Fresh')
  BY <1>2, <1>4 DEF Spent, Fresh
<1>6. Paid \in Nat /\ Known \in Nat /\ Spent \in Nat
  BY <1>1, PaidTypes DEF Paid, Spent, Debt
<1>7. CASE Connecting
  <2>1. Head(up) = "connect" /\ down = <<>>
    BY <1>7 DEF Connecting
  <2>2. down' = <<Connack>>
    BY <2>1 DEF Broker
  <2>3. ~Served'
    BY <2>2, NotServed DEF Served
  <2>4. QED
    BY <1>3, <1>4, <1>5, <1>7, <2>3 DEF PaidInv, Known
<1>8. CASE Served
  <2>1. up \in Seq(Requests) /\ Turns(up) /\ down \in Seq(Lines) /\ Len(down) \in Nat
    BY <1>1, <1>8, LenProperties DEF Served, LinesType
  <2>2. /\ Turns(up') /\ Len(up) \in Nat \ {0} /\ Len(up') = Len(up) - 1
        /\ \/ Head(up) = "subscribe" /\ (Len(up) - 1) % 2 = 0
           \/ Head(up) = "unsubscribe" /\ (Len(up) - 1) % 2 = 1
    BY <1>2, <2>1, TurnsServed
  <2>3. Subscriptions' \in Nat /\ Subscriptions \in Nat
    BY <2>2 DEF Subscriptions
  <2>4. Known * Subscriptions' \in Nat
    BY <1>6, <2>3, Times
  <2>5. down' = down \/ down' = down \o Replay
    BY <2>2 DEF Broker
  <2>6. /\ down' \in Seq(Lines)
        /\ Len(Replay) = Cardinality(Stored) /\ Len(Replay) \in Nat /\ Len(Replay) <= Known
    BY <1>1, <2>1, <2>5, ReplayTells, SeqOfLines
  <2>7. ~Lost' /\ ~Connecting' /\ ~Accepted'
    BY <1>2, <1>8, <2>2, <2>6, NotServed DEF Served, Lost, Connecting, Accepted, Connack
  <2>8. CASE Fresh /\ up = <<"subscribe">> /\ down = <<>> /\ ~subscribed
    <3>1. Head(up) = "subscribe" /\ Len(up) = 1
      BY <2>8
    <3>2. down' = down \o Replay
      BY <3>1 DEF Broker
    <3>3. Len(down') = Len(Replay)
      BY <2>1, <2>6, <2>8, <3>2, ConcatProperties, ReplayTells, <1>1, SeqOfLines
    <3>4. Subscriptions' = 0
      BY <2>2, <3>1 DEF Subscriptions
    <3>5. Known * Subscriptions' = 0
      BY <1>6, <3>4, Times
    <3>6. Spent = 1
      BY <2>8 DEF Spent, Fresh, Debt
    <3>7. Len(Replay) <= stamp
      BY <2>6 DEF PaidInv
    <3>8. Spent' + Len(down') + Known * Subscriptions' <= Paid'
      BY <1>1, <1>4, <1>5, <2>6, <3>3, <3>5, <3>6, <3>7, PaidTypes DEF Paid
    <3>9. QED
      BY <1>3, <2>7, <3>8 DEF PaidInv
  <2>9. CASE Spent + Len(down) + Known * Subscriptions <= Paid
    <3>1. CASE Head(up) = "subscribe" /\ (Len(up) - 1) % 2 = 0
      <4>1. down' = down \o Replay
        BY <3>1 DEF Broker
      <4>2. Len(down') = Len(down) + Len(Replay)
        BY <1>1, <2>1, <4>1, ReplayTells, SeqOfLines
      <4>3. Subscriptions = Subscriptions' + 1
        BY <2>2, <3>1 DEF Subscriptions
      <4>4. Known * Subscriptions = Known * Subscriptions' + Known
        BY <1>6, <2>3, <4>3, Times
      <4>5. Spent' + Len(down') + Known * Subscriptions' <= Paid'
        BY <1>4, <1>5, <1>6, <2>1, <2>4, <2>6, <2>9, <4>2, <4>4, SMTT(40)
      <4>6. QED
        BY <1>3, <2>7, <4>5 DEF PaidInv
    <3>2. CASE Head(up) = "unsubscribe" /\ (Len(up) - 1) % 2 = 1
      <4>1. down' = down
        BY <3>2 DEF Broker
      <4>2. Subscriptions = Subscriptions'
        BY <2>2, <3>2 DEF Subscriptions
      <4>3. Spent' + Len(down') + Known * Subscriptions' <= Paid'
        BY <1>4, <1>5, <2>9, <4>1, <4>2
      <4>4. QED
        BY <1>3, <2>7, <4>3 DEF PaidInv
    <3>3. QED
      BY <2>2, <3>1, <3>2
  <2>10. QED
    BY <1>8, <2>8, <2>9 DEF PaidInv
<1>9. QED
  BY <1>2, <1>7, <1>8 DEF ConnectionInv, Lost, Idle, Accepted

LEMMA PaidPublish ==
  ASSUME FilesInv, ConnectionInv, PaidInv, NEW t \in Topics, PublishTopic(t)
  PROVE  PaidInv'
<1>1. LinesType
  BY DEF ConnectionInv
<1>2. UNCHANGED <<log, gen, old, logger, ends, link, up, subscribed>> /\ stamp' = stamp + 1
  BY DEF PublishTopic, files
<1>3. Newest' = Newest /\ Debt' = Debt
  BY <1>2 DEF Newest, Debt, Known
<1>4. Spent' = Spent /\ (Fresh => Fresh') /\ Subscriptions' = Subscriptions
  BY <1>2, <1>3 DEF Spent, Fresh, Subscriptions
<1>5. Paid' = Paid + 1 /\ Paid \in Nat /\ Known \in Nat /\ Spent \in Nat
  BY <1>1, <1>2, PaidTypes, SMTT(40) DEF Paid, Spent, Debt, Known
<1>6. Cardinality(Stored') <= stamp'
  <2>1. Stored \subseteq Topics /\ IsFiniteSet(Stored)
    BY FS_Subset, LogAssumption DEF Stored
  <2>2. Stored' = Stored \cup {t}
    BY <1>1 DEF PublishTopic, Stored, LinesType
  <2>3. Cardinality(Stored \cup {t}) <= Cardinality(Stored) + 1 /\ Cardinality(Stored) \in Nat
    <3>1. Cardinality(Stored) \in Nat
      BY <2>1, FS_CardinalityType
    <3>2. \/ Cardinality(Stored \cup {t}) = Cardinality(Stored)
          \/ Cardinality(Stored \cup {t}) = Cardinality(Stored) + 1
      BY <2>1, FS_AddElement
    <3>3. QED
      BY <3>1, <3>2
  <2>4. Cardinality(Stored \cup {t}) \in Nat
    BY <2>1, FS_AddElement, FS_CardinalityType
  <2>5. QED
    BY <1>1, <1>2, <2>2, <2>3, <2>4 DEF PaidInv, LinesType
<1>7. logger' = "rename" => Len(log') > MaxLines
  BY <1>2 DEF PaidInv
<1>8. CASE Served
  <2>1. down' \in Seq(Lines) /\ Len(down') <= Len(down) + 1 /\ Len(down') \in Nat
        /\ Len(down) \in Nat /\ (~subscribed => down' = down)
    <3> DEFINE line == [topic |-> t, stamp |-> stamp']
    <3>1. line \in Lines /\ down \in Seq(Lines) /\ Len(down) \in Nat
      BY <1>1, <1>2, <1>8, LenProperties DEF Lines, LinesType, Served
    <3>2. down' = IF subscribed THEN Append(down, line) ELSE down
      BY DEF PublishTopic
    <3> HIDE DEF line
    <3>3. Append(down, line) \in Seq(Lines) /\ Len(Append(down, line)) = Len(down) + 1
      BY <3>1, AppendProperties
    <3>4. QED
      BY <3>1, <3>2, <3>3
  <2>2. ~Lost' /\ ~Connecting' /\ ~Accepted'
    BY <1>2, <1>8, <2>1, NotServed DEF Served, Lost, Connecting, Accepted, Connack
  <2>3. Len(up) \in Nat
    BY <1>1, LenProperties DEF LinesType
  <2>4. Known * Subscriptions \in Nat
    BY <1>5, <2>3, Times DEF Subscriptions
  <2>5. CASE Spent + Len(down) + Known * Subscriptions <= Paid
    <3>1. Spent' + Len(down') + Known * Subscriptions' <= Paid'
      BY <1>4, <1>5, <2>1, <2>4, <2>5
    <3>2. QED
      BY <1>6, <1>7, <2>2, <3>1 DEF PaidInv
  <2>6. CASE Fresh /\ up = <<"subscribe">> /\ down = <<>> /\ ~subscribed
    BY <1>2, <1>4, <1>6, <1>7, <2>1, <2>2, <2>6 DEF PaidInv
  <2>7. QED
    BY <1>8, <2>5, <2>6 DEF PaidInv
<1>9. CASE ~Served
  <2>1. ~subscribed /\ (Lost \/ Connecting \/ Accepted)
    BY <1>9 DEF ConnectionInv, Lost, Idle, Connecting, Accepted
  <2>2. down' = down
    BY <2>1 DEF PublishTopic
  <2>3. ~Served'
    BY <1>2, <1>9, <2>2 DEF Served
  <2>4. Fresh' \/ Spent' + Known <= Paid'
    BY <1>4, <1>5, <2>1 DEF PaidInv
  <2>5. QED
    BY <1>6, <1>7, <2>3, <2>4 DEF PaidInv, Known
<1>10. QED
  BY <1>8, <1>9

LEMMA PaidStep ==
  ASSUME Known <= MaxLines, FilesInv, ConnectionInv, PaidInv, [LogNext]_logVars
  PROVE  PaidInv'
<1>1. CASE UNCHANGED logVars
  BY <1>1 DEF logVars, files, connection, world, PaidInv, Lost, Idle, Connecting, Accepted, Connack,
              Served, Fresh, Spent, Newest, Debt, Paid, Subscriptions, Known, Stored
<1>2. QED
  BY <1>1, PaidRotation, PaidConnection, PaidBroker, PaidPublish DEF LogNext, Logger

\* A log that may hold a line of each topic: the logs made are no more than the
\* publications and the replays after an end of the process or of the connection account
\* for, so that a rotation's own replay never causes another rotation.
THEOREM ReplayCostsNoRotation ==
  ASSUME Cardinality(Topics) <= MaxLines
  PROVE  LogSpec => []RotationsArePaid
<1> DEFINE Inv == FilesInv /\ ConnectionInv /\ PaidInv
<1>1. LogInit => Inv
  BY LogAssumption, FilesInit, ConnectionInit, PaidInit
<1>2. Inv /\ [LogNext]_logVars => Inv'
  BY LogAssumption, FilesStep, ConnectionStep, PaidStep DEF Known
<1>3. Inv => RotationsArePaid
  <2> SUFFICES ASSUME Inv PROVE Newest <= Paid
    BY DEF RotationsArePaid, Paid, Known
  <2>1. Spent <= Paid
    BY SpentIsPaid
  <2>2. LinesType
    BY DEF ConnectionInv
  <2>3. QED
    BY <2>1, <2>2, PaidTypes DEF Spent, Paid, Debt
<1>4. QED
  BY <1>1, <1>2, <1>3, PTL DEF LogSpec
=============================================================================
