---------------------------- MODULE Gpio_proofs -----------------------------
(***************************************************************************)
(* Type correctness of the GPIO driver, and that the value it has cached   *)
(* for an input is the value retained, for any lines, edges and failures.  *)
(***************************************************************************)
EXTENDS Gpio, TLAPS

LEMMA PreparedBit ==
  ASSUME NEW g \in Lines, NEW v \in {0, 1}
  PROVE  PrepareValue(g, v) \in {0, 1}
BY DEF PrepareValue

LEMMA AdvanceType ==
  ASSUME TypeOK, Advance
  PROVE  /\ cur' \in Lines /\ caught' \subseteq Inputs
         /\ mpc' \in {"wait", "cache", "debounce"}
         /\ elapsed' \in {"none", "some", "due"}
<1>1. cur' \in Lines
  BY LinesAssumption DEF TypeOK, Advance, Lines
<1> QED
  BY <1>1 DEF TypeOK, Advance

LEMMA PublishType ==
  ASSUME TypeOK, NEW g \in Lines, NEW v \in {Failed, 0, 1}, Publish(g, v)
  PROVE  retained' \in [Lines -> {None, Failed, 0, 1}] /\ lost' \subseteq Lines
<1>1. retained' \in [Lines -> {None, Failed, 0, 1}]
  BY DEF TypeOK, Publish
<1>2. lost' \subseteq Lines
  BY DEF TypeOK, Publish
<1> QED
  BY <1>1, <1>2

\* Either read of GpioPublish leaves the channel well typed.
LEMMA GpioPublishType ==
  ASSUME TypeOK, NEW v \in {Failed, 0, 1}, GpioPublish(v)
  PROVE  TypeOK'
<1> USE DEF envVars, mosqVars, brokerVars
<1>1. cached' \in [Lines -> {Failed, 0, 1}] /\ got' \in {Failed, 0, 1}
  BY DEF GpioPublish, TypeOK
<1>2. age' \in [Lines -> {"never", "bounce", "delay", "settled"}]
  BY DEF GpioPublish, GetInterval, TypeOK
<1>3. firstTime' \in [Lines -> BOOLEAN]
  BY DEF GpioPublish, TypeOK
<1> QED
  BY <1>1, <1>2, <1>3 DEF GpioPublish, TypeOK

\* Type correctness: Gpio!TypeOK.
THEOREM TypeCorrect == Spec => []TypeOK
<1>1. Init => TypeOK
  <2> SUFFICES ASSUME Init PROVE TypeOK
    OBVIOUS
  <2>1. link \in BOOLEAN /\ loopFirst \in BOOLEAN /\ scanning \in BOOLEAN
    BY Zenon DEF Init
  <2>2. firstTime \in [Lines -> BOOLEAN]
    BY DEF Init
  <2>3. event \subseteq Inputs
    BY DEF Init
  <2>4. cur \in Lines
    BY LinesAssumption DEF Init, Lines
  <2> QED
    BY <2>1, <2>2, <2>3, <2>4 DEF Init, TypeOK, Failed
<1>2. TypeOK /\ [Next]_vars => TypeOK'
  <2> SUFFICES ASSUME TypeOK, [Next]_vars PROVE TypeOK'
    OBVIOUS
  <2> USE DEF envVars, fileVars, loopVars, mosqVars, brokerVars
  <2>1. ASSUME NEW g \in Inputs, LineChanges(g) PROVE TypeOK'
    <3>1. level' \in [Lines -> {0, 1}] /\ event' \subseteq Inputs
      BY <2>1 DEF LineChanges, TypeOK, Inputs
    <3> QED
      BY <2>1, <3>1 DEF LineChanges, TypeOK
  <2>2. CASE ClockRuns
    BY <2>2 DEF ClockRuns, TypeOK, Later
  <2>3. ASSUME NEW g \in Lines, InterruptAges(g) PROVE TypeOK'
    BY <2>3 DEF InterruptAges, Older, TypeOK
  <2>4. CASE LinkChanges
    <3>1. link' \in BOOLEAN
      BY <2>4, Zenon DEF LinkChanges
    <3> QED
      BY <2>4, <3>1 DEF LinkChanges, TypeOK
  <2>5. CASE Restart
    <3>1. loopFirst' \in BOOLEAN /\ scanning' \in BOOLEAN
      BY <2>5, Zenon DEF Restart, StartValues
    <3>2. level' \in [Lines -> {0, 1}] /\ event' \subseteq Inputs
      BY <2>5 DEF Restart, StartValues, TypeOK
    <3>3. firstTime' \in [Lines -> BOOLEAN]
      BY <2>5 DEF Restart, StartValues
    <3>4. cur' \in Lines /\ caught' \subseteq Inputs
      BY <2>5, LinesAssumption DEF Restart, StartValues, Lines
    <3> QED
      BY <2>5, <3>1, <3>2, <3>3, <3>4 DEF Restart, StartValues, TypeOK
  <2>6. CASE Wake
    <3>1. scanning' \in BOOLEAN /\ loopFirst' \in BOOLEAN
      BY <2>6, Zenon DEF Wake, TypeOK
    <3>2. caught' \subseteq Inputs /\ mpc' \in {"wait", "cache", "debounce"}
      BY <2>6 DEF Wake, TypeOK
    <3> QED
      BY <2>6, <3>1, <3>2 DEF Wake, TypeOK
  <2>7. CASE ReadCache
    BY <2>7 DEF ReadCache, TypeOK
  <2>8. CASE CompareLine
    <3>1. Logical(cur) \in {0, 1}
      BY <2>8, PreparedBit DEF CompareLine, Logical, TypeOK
    <3>2. cached' \in [Lines -> {Failed, 0, 1}] /\ old' \in {Failed, 0, 1}
      BY <2>8, <3>1 DEF CompareLine, TypeOK
    <3>3. /\ cur' \in Lines /\ caught' \subseteq Inputs
          /\ mpc' \in {"wait", "cache", "debounce", "restore"}
          /\ elapsed' \in {"none", "some", "due"}
      BY <2>8, AdvanceType DEF CompareLine, TypeOK
    <3> QED
      BY <2>8, <3>2, <3>3 DEF CompareLine, TypeOK
  <2>9. CASE CompareFails
    BY <2>9, AdvanceType DEF CompareFails, TypeOK, Failed
  <2>10. CASE RestoreCache
    BY <2>10 DEF RestoreCache, TypeOK
  <2>11. CASE SkipBounce
    BY <2>11, AdvanceType DEF SkipBounce, TypeOK
  <2>12. CASE TakeInterrupt
    BY <2>12 DEF TakeInterrupt, TypeOK
  <2>13. CASE ReadForPublish
    <3>1. Logical(cur) \in {0, 1}
      BY PreparedBit DEF Logical, TypeOK
    <3> QED
      BY <2>13, <3>1, GpioPublishType DEF ReadForPublish
  <2>14. CASE SendValue
    <3>1. retained' \in [Lines -> {None, Failed, 0, 1}] /\ lost' \subseteq Lines
      BY <2>14, PublishType DEF SendValue, TypeOK
    <3> QED
      BY <2>14, <3>1, AdvanceType DEF SendValue, TypeOK
  <2>15. ASSUME NEW g \in Commanded, NEW v \in {0, 1}, OnMessage(g, v) PROVE TypeOK'
    <3>1. g \in Lines /\ g \in Outputs
      BY LinesAssumption
    <3>2. /\ level' \in [Lines -> {0, 1}]
          /\ cached' \in [Lines -> {Failed, 0, 1}]
      BY <2>15, <3>1, PreparedBit DEF OnMessage, SetValue, TypeOK
    <3> QED
      BY <2>15, <3>1, <3>2 DEF OnMessage, TypeOK
  <2>16. CASE Echo
    <3>1. echo \in Lines /\ cmd \in {Failed, 0, 1}
      BY <2>16, LinesAssumption DEF Echo, TypeOK
    <3>2. retained' \in [Lines -> {None, Failed, 0, 1}] /\ lost' \subseteq Lines
      BY <2>16, <3>1, PublishType DEF Echo
    <3> QED
      BY <2>16, <3>2 DEF Echo, TypeOK
  <2>17. CASE NotCaught
    BY <2>17, AdvanceType DEF NotCaught, TypeOK
  <2>18. CASE ReadFails
    BY <2>18, GpioPublishType DEF ReadFails
  <2>19. CASE UNCHANGED vars
    BY <2>19 DEF vars, TypeOK
  <2> QED
    BY <2>1, <2>2, <2>3, <2>4, <2>5, <2>6, <2>7, <2>8, <2>9, <2>10, <2>11, <2>12,
       <2>13, <2>14, <2>15, <2>16, <2>17, <2>18, <2>19
    DEF Next, Undisturbed, Faults, Environment, MainThread, Command
<1> QED
  BY <1>1, <1>2, PTL DEF Spec

(***************************************************************************)
(* While a channel is handled its cached value may have moved on; what the *)
(* main thread then has at hand is enough to end with the two in agreement *)
(***************************************************************************)
OldIsCached ==
  mpc = "compare" /\ cur \in Inputs => old = cached[cur]
GotIsCached ==
  mpc = "send" /\ cur \in Inputs => got \in {Failed, cached[cur]}
IInv == CacheIsPublished /\ OldIsCached /\ GotIsCached

\* The value cached for an input is the value retained: Gpio!CacheIsPublished.
THEOREM InputCacheIsPublished == Spec => []CacheIsPublished
<1>1. Init => IInv
  BY DEF Init, IInv, CacheIsPublished, OldIsCached, GotIsCached, Settled, Inputs
<1>2. TypeOK /\ IInv /\ [Next]_vars => IInv'
  <2> SUFFICES ASSUME TypeOK, IInv, [Next]_vars PROVE IInv'
    OBVIOUS
  <2> USE DEF IInv, CacheIsPublished, OldIsCached, GotIsCached, Settled,
              envVars, fileVars, loopVars, mosqVars, brokerVars
  <2>1. ASSUME NEW g \in Inputs, LineChanges(g) PROVE IInv'
    BY <2>1 DEF LineChanges
  <2>2. CASE ClockRuns
    BY <2>2 DEF ClockRuns
  <2>3. ASSUME NEW g \in Lines, InterruptAges(g) PROVE IInv'
    BY <2>3 DEF InterruptAges
  <2>4. CASE LinkChanges
    BY <2>4 DEF LinkChanges
  <2>5. CASE Restart
    BY <2>5 DEF Restart, StartValues, Inputs
  <2>6. CASE Wake
    BY <2>6 DEF Wake
  <2>7. CASE ReadCache
    BY <2>7 DEF ReadCache
  <2>8. CASE CompareLine
    \* Equal values leave the cache as it was; others go on to the publication.
    BY <2>8 DEF CompareLine, Advance, TypeOK, Inputs
  <2>9. CASE CompareFails
    BY <2>9 DEF CompareFails, Advance
  <2>10. CASE RestoreCache
    BY <2>10 DEF RestoreCache, TypeOK, Inputs
  <2>11. CASE NotCaught
    BY <2>11 DEF NotCaught, Advance
  <2>12. CASE SkipBounce
    BY <2>12 DEF SkipBounce, Advance
  <2>13. CASE TakeInterrupt
    BY <2>13 DEF TakeInterrupt
  <2>14. CASE ReadForPublish
    BY <2>14 DEF ReadForPublish, GpioPublish, TypeOK, Inputs
  <2>15. CASE SendValue
    BY <2>15 DEF SendValue, Publish, Advance, TypeOK, Inputs
  <2>16. ASSUME NEW g \in Commanded, NEW v \in {0, 1}, OnMessage(g, v) PROVE IInv'
    \* Commands are for outputs only.
    <3>1. \A h \in Inputs : h # g
      BY LinesAssumption DEF Inputs
    <3>2. \A h \in Inputs : cached'[h] = cached[h]
      BY <2>16, <3>1 DEF OnMessage, SetValue, TypeOK, Inputs
    <3> QED
      BY <2>16, <3>2 DEF OnMessage
  <2>17. CASE Echo
    <3>1. \A h \in Inputs : h # echo
      BY <2>17 DEF Echo, TypeOK, Inputs, Lines
    <3>2. \A h \in Inputs : retained'[h] = retained[h] /\ (h \in lost' <=> h \in lost)
      BY <2>17, <3>1 DEF Echo, Publish, TypeOK, Inputs
    <3> QED
      BY <2>17, <3>2 DEF Echo
  <2>18. CASE ReadFails
    BY <2>18 DEF ReadFails, GpioPublish, TypeOK, Inputs
  <2>19. CASE UNCHANGED vars
    BY <2>19 DEF vars
  <2> QED
    BY <2>1, <2>2, <2>3, <2>4, <2>5, <2>6, <2>7, <2>8, <2>9, <2>10, <2>11, <2>12,
       <2>13, <2>14, <2>15, <2>16, <2>17, <2>18, <2>19
    DEF Next, Undisturbed, Faults, Environment, MainThread, Command
<1> QED
  BY <1>1, <1>2, TypeCorrect, PTL DEF Spec, IInv

=============================================================================
