----------------------------- MODULE GpioCounter -----------------------------
(***************************************************************************)
(* One pulse counter of wb-homa-gpio (TSysfsGpioBaseCounter): a line whose *)
(* pulses are counted from interrupts and from the look at every channel   *)
(* each 500 ms.  Only the main loop touches a counter, and a level may     *)
(* change between any two of its reads.                                    *)
(*                                                                         *)
(* The level is the logical one (after the XOR with Inverted); sysfs       *)
(* raises interrupts on the front of the electrical level, which is the    *)
(* other front of the logical one when the channel is inverted.            *)
(***************************************************************************)
EXTENDS Integers

CONSTANTS
  ConfigEdge,  \* InterruptEdge of the configuration, "both" when not given
  Inverted,    \* whether the channel is inverted
  Spacing,     \* "bouncing" or "clean" pulses: see LevelChanges
  MaxEdges,    \* bound: the changes to the active level
  MaxFailures  \* bound: the reads that fail in GpioPublish; 0 when none fails

ASSUME CounterAssumption ==
  /\ ConfigEdge \in {"both", "rising", "falling"}
  /\ Inverted \in BOOLEAN
  /\ Spacing \in {"bouncing", "clean"}
  /\ MaxEdges \in Nat /\ MaxFailures \in Nat

VARIABLES
  level,      \* the logical level of the line
  event,      \* an edge that epoll_wait has not yet returned
  gap,        \* the time since the level last changed, "short" up to 1 ms
  edge,       \* GetInterruptEdge(), after InterruptUp
  cached,     \* CachedValue
  counts,     \* Counts
  age,        \* the time since Previous_Interrupt_Time, "never" while Counts is 0
  firstTime,  \* TSysfsGpio::FirstTime
  loopFirst,  \* TMQTTGpioHandler::FirstTime
  elapsed,    \* the time since `start`
  mpc,        \* where the main loop is
  edges,      \* history: changes to the active level
  impulses,   \* history: the same without bounces
  failures,   \* history: reads that failed in GpioPublish
  owed,       \* history: the pulse going on was not looked at by GetInterval
  dropped     \* history: an interrupt of the pulse going on was ignored

lineVars == <<level, event, gap>>
counterVars == <<edge, cached, counts, age, firstTime>>
loopVars == <<loopFirst, elapsed, mpc>>
historyVars == <<edges, impulses, failures, owed, dropped>>
vars == <<lineVars, counterVars, loopVars, historyVars>>

Failed == -1
Active == IF edge = "rising" THEN 1 ELSE 0
Recent == {"bounce", "delay"}

(***************************************************************************)
(* InterruptUp: without a configured edge ten readings tell the idle       *)
(* level, and the line may change while they are made.  A line that is     *)
(* active at the start is in a pulse, which need not be counted.           *)
(***************************************************************************)
Init ==
  /\ level \in {0, 1}
  /\ IF ConfigEdge = "both"
       THEN /\ edge \in {"rising", "falling"}
            /\ edge = "falling" => level = 1
            /\ cached = level
       ELSE /\ edge = ConfigEdge
            /\ cached = Failed
  /\ event \in BOOLEAN
  /\ gap = "long"
  /\ counts = 0
  /\ age = "never"
  /\ firstTime = TRUE
  /\ loopFirst = TRUE
  /\ elapsed = "none"
  /\ mpc = "wait"
  /\ edges = IF level = Active THEN 1 ELSE 0
  /\ impulses = edges
  /\ failures = 0
  /\ owed = FALSE
  /\ dropped = FALSE

-----------------------------------------------------------------------------
(***************************************************************************)
(* The line and the clock.                                                 *)
(***************************************************************************)

Raises == IF Inverted THEN level = Active ELSE level # Active

\* Clean pulses do not bounce.
LevelChanges ==
  /\ Spacing = "clean" => gap = "long"
  /\ level' = 1 - level
  /\ gap' = "short"
  /\ event' = (event \/ Raises)
  /\ IF level' = Active
       THEN /\ edges < MaxEdges
            /\ edges' = edges + 1
            /\ impulses' = IF gap = "long" THEN impulses + 1 ELSE impulses
            /\ owed' = TRUE
            /\ dropped' = FALSE
            /\ UNCHANGED failures
       ELSE UNCHANGED historyVars
  /\ UNCHANGED <<counterVars, loopVars>>

GapGrows ==
  /\ gap = "short"
  /\ gap' = "long"
  /\ UNCHANGED <<level, event, counterVars, loopVars, historyVars>>

ClockRuns ==
  /\ elapsed # "due"
  /\ elapsed' = IF elapsed = "none" THEN "some" ELSE "due"
  /\ UNCHANGED <<lineVars, counterVars, loopFirst, mpc, historyVars>>

\* An interrupt is taken and an iteration of the loop ends within 200 ms.
InterruptAges ==
  /\ age \in Recent
  /\ age = "delay" => mpc = "wait" /\ ~event
  /\ age' = IF age = "bounce" THEN "delay" ELSE "settled"
  /\ UNCHANGED <<lineVars, edge, cached, counts, firstTime, loopVars, historyVars>>

-----------------------------------------------------------------------------
(***************************************************************************)
(* The main loop, for one channel.                                         *)
(***************************************************************************)

\* CatchInterrupts, when the interrupt is no bounce.
TakeInterrupt ==
  /\ mpc = "wait" /\ event /\ elapsed # "due"
  /\ ~(loopFirst /\ elapsed = "none")
  /\ age # "bounce"
  /\ event' = FALSE
  /\ mpc' = "interrupt"
  /\ UNCHANGED <<level, gap, counterVars, loopFirst, elapsed, historyVars>>

\* CatchInterrupts, when it is; and the first return of epoll_wait.
DropInterrupt ==
  /\ mpc = "wait" /\ event /\ elapsed # "due"
  /\ (loopFirst /\ elapsed = "none") \/ age = "bounce"
  /\ event' = FALSE
  /\ loopFirst' = (loopFirst /\ elapsed # "none")
  /\ dropped' = TRUE
  /\ UNCHANGED <<level, gap, counterVars, elapsed, mpc, edges, impulses, failures, owed>>

\* It is time to look through all channels: events are not looked at.
BeginScan ==
  /\ mpc = "wait" /\ elapsed = "due"
  /\ event' = FALSE
  /\ dropped' = (dropped \/ event)
  /\ mpc' = "compare"
  /\ UNCHANGED <<level, gap, counterVars, loopFirst, elapsed, edges, impulses,
                 failures, owed>>

EndIteration ==
  /\ mpc' = "wait"
  /\ elapsed' = IF mpc = "interrupt" THEN elapsed ELSE "none"

\* UpdateValue: what GetValue caches is put back before the publication.
CompareEqual ==
  /\ mpc = "compare"
  /\ cached = level
  /\ EndIteration
  /\ UNCHANGED <<lineVars, counterVars, loopFirst, historyVars>>

\* Slip: the value just read stays cached.
CompareDiffersKeeps ==
  /\ mpc = "compare"
  /\ cached # level
  /\ cached' = level
  /\ mpc' = "scan"
  /\ UNCHANGED <<lineVars, edge, counts, age, firstTime, loopFirst, elapsed,
                 historyVars>>

CompareDiffers ==
  /\ mpc = "compare"
  /\ cached # level
  /\ mpc' = "scan"
  /\ UNCHANGED <<lineVars, counterVars, loopFirst, elapsed, historyVars>>

CompareFails ==
  /\ mpc = "compare"
  /\ MaxFailures > 0
  /\ EndIteration
  /\ UNCHANGED <<lineVars, counterVars, loopFirst, historyVars>>

\* GpioPublish of a counter publishes nothing the first time.
PublishFirst ==
  /\ mpc \in {"interrupt", "scan"}
  /\ firstTime
  /\ firstTime' = FALSE
  /\ owed' = FALSE
  /\ EndIteration
  /\ UNCHANGED <<lineVars, edge, cached, counts, age, loopFirst, edges, impulses,
                 failures, dropped>>

\* Slip: the fronts are swapped.
WrongFrontSwapped(v) ==
  /\ v # cached
  /\ \/ edge = "rising" /\ v = 1
     \/ edge = "falling" /\ v = 0

\* The value has changed to the idle level: not the front that is counted.
WrongFront(v) ==
  /\ v # cached
  /\ \/ edge = "rising" /\ v = 0
     \/ edge = "falling" /\ v = 1

\* GetInterval, and the publication of Counts / Multiplier that follows it.
GetInterval ==
  IF age \in Recent
    THEN UNCHANGED <<counts, age>>
    ELSE /\ counts' = counts + 1
         /\ age' = "bounce"

\* GpioPublish: GetValue once more.  A read that fails is neither of the fronts.
Publish ==
  /\ mpc \in {"interrupt", "scan"}
  /\ ~firstTime
  /\ \E v \in {level, Failed} :
       /\ v = Failed => failures < MaxFailures
       /\ failures' = IF v = Failed THEN failures + 1 ELSE failures
       /\ cached' = IF v = Failed THEN cached ELSE v
       /\ IF WrongFront(v)
            THEN UNCHANGED <<counts, age, owed>>
            ELSE GetInterval /\ owed' = FALSE
  /\ EndIteration
  /\ UNCHANGED <<lineVars, edge, firstTime, loopFirst, edges, impulses, dropped>>

-----------------------------------------------------------------------------
Next ==
  \/ LevelChanges \/ GapGrows \/ ClockRuns \/ InterruptAges
  \/ TakeInterrupt \/ DropInterrupt \/ BeginScan
  \/ CompareEqual \/ CompareDiffers \/ CompareFails
  \/ PublishFirst \/ Publish

Spec == Init /\ [][Next]_vars

-----------------------------------------------------------------------------
(***************************************************************************)
(* Properties                                                              *)
(***************************************************************************)

\* Type correctness.
TypeOK ==
  /\ level \in {0, 1} /\ event \in BOOLEAN /\ gap \in {"short", "long"}
  /\ edge \in {"rising", "falling"}
  /\ cached \in {Failed, 0, 1}
  /\ counts \in Nat
  /\ age \in {"never", "settled"} \cup Recent
  /\ age = "never" <=> counts = 0
  /\ firstTime \in BOOLEAN /\ loopFirst \in BOOLEAN
  /\ elapsed \in {"none", "some", "due"}
  /\ mpc \in {"wait", "interrupt", "compare", "scan"}
  /\ edges \in Nat /\ impulses \in Nat /\ failures \in Nat
  /\ owed \in BOOLEAN /\ dropped \in BOOLEAN

\* No change of the line is counted twice, although an interrupt and the scan both
\* see it, and each read that fails in GpioPublish adds one count at most.
CountsAreEdges == counts <= edges + failures

\* A pulse that the loop has had the time to read and that still goes on was
\* looked at by GetInterval, or its interrupt was ignored (a bounce, or an
\* iteration that scans instead).
OnlyDroppedAreLost ==
  mpc = "wait" /\ ~event /\ level = Active /\ cached = level /\ ~Inverted
    => ~owed \/ dropped

\* sysfs_gpio_base_counter.cpp:81, "ignore repeated interrupts of one impulse": an
\* impulse is counted once, its bounces are not.
OneCountPerImpulse == counts <= impulses

=============================================================================
