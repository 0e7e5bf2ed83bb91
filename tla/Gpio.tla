-------------------------------- MODULE Gpio --------------------------------
(***************************************************************************)
(* wb-homa-gpio with plain channels (TSysfsGpio): switches that are driven *)
(* by commands and inputs that are followed by interrupts and by a look at *)
(* every channel each 500 ms.                                              *)
(*                                                                         *)
(* Two threads: the main loop waits in epoll_wait and publishes, and the   *)
(* mosquitto thread sets outputs and echoes commands.  GetValue and        *)
(* SetValue hold G_mutex; the cached value is otherwise read and written   *)
(* without it, one word at a time.                                         *)
(*                                                                         *)
(* Time is kept only as far as the code compares it: the time since the    *)
(* last look at all channels against 1 ms and 500 ms, the time since       *)
(* Previous_Interrupt_Time against 1 ms and 200 ms.                        *)
(***************************************************************************)
EXTENDS Integers

CONSTANTS
  NumLines,     \* Channels, in the order of the configuration
  Outputs,      \* the channels with Direction == Output
  Inverted,     \* the channels configured with "inverted"
  Edge,         \* Edge[g]: what raises an interrupt; "none" without an edge file
  Commanded,    \* the outputs that are sent commands
  None          \* no retained message

Lines == 1..NumLines
Inputs == Lines \ Outputs
Edges == {"none", "both", "rising", "falling"}

ASSUME LinesAssumption ==
  /\ NumLines \in Nat \ {0}
  /\ Outputs \subseteq Lines /\ Inverted \subseteq Lines
  /\ Commanded \subseteq Outputs
  /\ Edge \in [Lines -> Edges] /\ \A g \in Outputs : Edge[g] = "none"
  /\ None \notin Int

VARIABLES
  level,      \* level[g]: the electrical level of the line
  event,      \* lines with an edge that epoll_wait has not yet returned
  link,       \* whether the client is connected to the broker
  retained,   \* the retained payload of each channel (external)
  cached,     \* TSysfsGpio::CachedValue
  age,        \* the time since Previous_Interrupt_Time
  firstTime,  \* TSysfsGpio::FirstTime
  loopFirst,  \* TMQTTGpioHandler::FirstTime
  elapsed,    \* the time since `start`
  mpc,        \* where the main loop is
  scanning,   \* it is in UpdateChannelValues, not in CatchInterrupts
  cur,        \* the channel it is at
  caught,     \* the lines whose events epoll_wait returned
  old,        \* `cached` of UpdateValue
  got,        \* the value GpioPublish has read
  echo,       \* the line whose command is to be echoed, or 0
  cmd,        \* that command
  lost        \* history: channels whose last value did not reach the broker

envVars == <<level, event, link>>
fileVars == <<cached, age, firstTime>>
loopVars == <<loopFirst, elapsed, mpc, scanning, cur, caught, old, got>>
mosqVars == <<echo, cmd>>
brokerVars == <<retained, lost>>
vars == <<envVars, fileVars, loopVars, mosqVars, brokerVars>>

Failed == -1

\* value ^ Inverted
PrepareValue(g, v) == IF g \in Inverted THEN 1 - v ELSE v

Logical(g) == PrepareValue(g, level[g])

\* The constructor, SetInput and SetOutput ("out" drives the line low), and
\* InitInterrupts: a poll of a newly opened file may report an event at once.
StartValues ==
  /\ cached' = [g \in Lines |-> Failed]
  /\ age' = [g \in Lines |-> "never"]
  /\ firstTime' = [g \in Lines |-> TRUE]
  /\ loopFirst' = TRUE
  /\ elapsed' = "none"
  /\ mpc' = "wait"
  /\ scanning' = FALSE
  /\ cur' = 1
  /\ caught' = {}
  /\ old' = Failed
  /\ got' = Failed
  /\ echo' = 0
  /\ cmd' = 0
  /\ level' = [g \in Lines |-> IF g \in Outputs THEN 0 ELSE level[g]]
  /\ event' \in {{}, {g \in Inputs : Edge[g] # "none"}}

Init ==
  /\ level \in [Lines -> {0, 1}] /\ \A g \in Outputs : level[g] = 0
  /\ event \in {{}, {g \in Inputs : Edge[g] # "none"}}
  /\ link = TRUE
  /\ retained = [g \in Lines |-> None]
  /\ cached = [g \in Lines |-> Failed]
  /\ age = [g \in Lines |-> "never"]
  /\ firstTime = [g \in Lines |-> TRUE]
  /\ loopFirst = TRUE
  /\ elapsed = "none"
  /\ mpc = "wait"
  /\ scanning = FALSE
  /\ cur = 1
  /\ caught = {}
  /\ old = Failed
  /\ got = Failed
  /\ echo = 0
  /\ cmd = 0
  /\ lost = {}

-----------------------------------------------------------------------------
(***************************************************************************)
(* The world: lines change, time passes, the broker comes and goes.        *)
(***************************************************************************)

Raises(g) ==
  \/ Edge[g] = "both"
  \/ Edge[g] = "rising" /\ level[g] = 0
  \/ Edge[g] = "falling" /\ level[g] = 1

LineChanges(g) ==
  /\ level' = [level EXCEPT ![g] = 1 - @]
  /\ event' = IF Raises(g) THEN event \cup {g} ELSE event
  /\ UNCHANGED <<link, fileVars, loopVars, mosqVars, brokerVars>>

Later(t) == CASE t = "none" -> "some" [] t = "some" -> "due" [] OTHER -> t
Older(a) == CASE a = "bounce" -> "delay" [] a = "delay" -> "settled" [] OTHER -> a

ClockRuns ==
  /\ elapsed # "due"
  /\ elapsed' = Later(elapsed)
  /\ UNCHANGED <<envVars, fileVars, loopFirst, mpc, scanning, cur, caught, old,
                 got, mosqVars, brokerVars>>

\* Only CatchInterrupts looks at the time of the last interrupt.
InterruptAges(g) ==
  /\ Edge[g] # "none"
  /\ age[g] \in {"bounce", "delay"}
  /\ age' = [age EXCEPT ![g] = Older(@)]
  /\ UNCHANGED <<envVars, cached, firstTime, loopVars, mosqVars, brokerVars>>

LinkChanges ==
  /\ link' = ~link
  /\ UNCHANGED <<level, event, fileVars, loopVars, mosqVars, brokerVars>>

Restart ==
  /\ StartValues
  /\ UNCHANGED <<link, retained, lost>>

\* QoS 0: refused while there is no connection, and nobody looks at the result.
Publish(g, v) ==
  /\ retained' = IF link THEN [retained EXCEPT ![g] = v] ELSE retained
  /\ lost' = IF link /\ v # Failed THEN lost \ {g} ELSE lost \cup {g}

-----------------------------------------------------------------------------
(***************************************************************************)
(* The main loop.                                                          *)
(***************************************************************************)

\* Slip: the clock is restarted by interrupts too.
WakeRestartsClock ==
  /\ mpc = "wait"
  /\ event # {} \/ elapsed = "due"
  /\ event' = {}
  /\ scanning' = (elapsed = "due")
  /\ elapsed' = IF elapsed = "due" THEN elapsed ELSE "none"
  /\ IF loopFirst /\ elapsed = "none"
       THEN loopFirst' = FALSE /\ UNCHANGED <<mpc, caught>>
       ELSE /\ mpc' = IF scanning' THEN "cache" ELSE "debounce"
            /\ caught' = IF scanning' THEN {} ELSE event
            /\ UNCHANGED loopFirst
  /\ UNCHANGED <<level, link, fileVars, cur, old, got, mosqVars, brokerVars>>

(***************************************************************************)
(* epoll_wait returns with the edges there are or after 500 ms.  When it   *)
(* is time to look through all channels the events it returned are not     *)
(* looked at any more; the very first ones are skipped.                    *)
(***************************************************************************)
Wake ==
  /\ mpc = "wait"
  /\ event # {} \/ elapsed = "due"
  /\ event' = {}
  /\ scanning' = (elapsed = "due")
  /\ IF loopFirst /\ elapsed = "none"
       THEN loopFirst' = FALSE /\ UNCHANGED <<mpc, caught>>
       ELSE /\ mpc' = IF scanning' THEN "cache" ELSE "debounce"
            /\ caught' = IF scanning' THEN {} ELSE event
            /\ UNCHANGED loopFirst
  /\ UNCHANGED <<level, link, fileVars, elapsed, cur, old, got, mosqVars, brokerVars>>

\* The next channel, or back to epoll_wait; `start` is set after a scan.
Advance ==
  IF cur = NumLines
    THEN /\ cur' = 1
         /\ caught' = {}
         /\ mpc' = "wait"
         /\ elapsed' = IF scanning THEN "none" ELSE elapsed
    ELSE /\ cur' = cur + 1
         /\ mpc' = IF scanning THEN "cache" ELSE "debounce"
         /\ UNCHANGED <<caught, elapsed>>

\* UpdateValue: the cached value, read without the lock.
ReadCache ==
  /\ mpc = "cache"
  /\ old' = cached[cur]
  /\ mpc' = "compare"
  /\ UNCHANGED <<envVars, fileVars, loopFirst, elapsed, scanning, cur, caught, got,
                 mosqVars, brokerVars>>

\* Slip: a channel without a cached value is not published.
CompareLineKnown ==
  /\ mpc = "compare"
  /\ LET g == cur IN
       /\ cached' = [cached EXCEPT ![g] = Logical(g)]
       /\ IF old # Failed /\ old # Logical(g)
            THEN mpc' = "restore" /\ UNCHANGED <<cur, caught, elapsed, old>>
            ELSE Advance /\ old' = Failed
  /\ UNCHANGED <<envVars, age, firstTime, loopFirst, scanning, got, mosqVars,
                 brokerVars>>

\* UpdateValue: GetValue, which caches what it reads, and the comparison.
CompareLine ==
  /\ mpc = "compare"
  /\ LET g == cur IN
       /\ cached' = [cached EXCEPT ![g] = Logical(g)]
       /\ IF old = Failed \/ old # Logical(g)
            THEN mpc' = "restore" /\ UNCHANGED <<cur, caught, elapsed, old>>
            ELSE Advance /\ old' = Failed
  /\ UNCHANGED <<envVars, age, firstTime, loopFirst, scanning, got, mosqVars,
                 brokerVars>>

CompareFails ==
  /\ mpc = "compare"
  /\ Advance
  /\ old' = Failed
  /\ UNCHANGED <<envVars, fileVars, loopFirst, scanning, got, mosqVars, brokerVars>>

\* UpdateValue: the old value is put back, again without the lock.
RestoreCache ==
  /\ mpc = "restore"
  /\ cached' = [cached EXCEPT ![cur] = old]
  /\ mpc' = "read"
  /\ old' = Failed
  /\ UNCHANGED <<envVars, age, firstTime, loopFirst, elapsed, scanning, cur, caught,
                 got, mosqVars, brokerVars>>

\* CatchInterrupts: no event for this channel.
NotCaught ==
  /\ mpc = "debounce"
  /\ cur \notin caught
  /\ Advance
  /\ UNCHANGED <<envVars, fileVars, loopFirst, scanning, old, got, mosqVars,
                 brokerVars>>

\* CatchInterrupts: an interrupt within 1 ms of the last is a bounce.
SkipBounce ==
  /\ mpc = "debounce"
  /\ cur \in caught
  /\ age[cur] = "bounce"
  /\ Advance
  /\ UNCHANGED <<envVars, fileVars, loopFirst, scanning, old, got, mosqVars,
                 brokerVars>>

TakeInterrupt ==
  /\ mpc = "debounce"
  /\ cur \in caught
  /\ age[cur] # "bounce"
  /\ mpc' = "read"
  /\ UNCHANGED <<envVars, fileVars, loopFirst, elapsed, scanning, cur, caught, old, got,
                 mosqVars, brokerVars>>

\* GetInterval: the clock restarts unless the last interrupt is under 200 ms old.
GetInterval(a) == IF a \in {"never", "settled"} THEN "bounce" ELSE a

\* GpioPublish: GetValue once more.  The result is published even when it is
\* the error code; then the cached value stays as it is.
GpioPublish(v) ==
  /\ mpc = "read"
  /\ LET g == cur IN
       /\ firstTime' = [firstTime EXCEPT ![g] = FALSE]
       /\ age' = [age EXCEPT ![g] = IF firstTime[g] THEN @ ELSE GetInterval(@)]
       /\ cached' = IF v = Failed THEN cached ELSE [cached EXCEPT ![g] = v]
  /\ got' = v
  /\ mpc' = "send"
  /\ UNCHANGED <<envVars, loopFirst, elapsed, scanning, cur, caught, old, mosqVars,
                 brokerVars>>

ReadForPublish == GpioPublish(Logical(cur))

ReadFails == GpioPublish(Failed)

SendValue ==
  /\ mpc = "send"
  /\ Publish(cur, got)
  /\ Advance
  /\ got' = Failed
  /\ UNCHANGED <<envVars, fileVars, loopFirst, scanning, old, mosqVars>>

-----------------------------------------------------------------------------
(***************************************************************************)
(* OnMessage, in the mosquitto thread.                                     *)
(***************************************************************************)

\* Slip: the cache holds the value commanded, as it does after GetValue.
SetValueCachesLogical(g, v) ==
  /\ level' = [level EXCEPT ![g] = PrepareValue(g, v)]
  /\ cached' = [cached EXCEPT ![g] = v]

\* Line 175 caches what was written, which is inverted if the channel is.
SetValue(g, v) ==
  /\ level' = [level EXCEPT ![g] = PrepareValue(g, v)]
  /\ cached' = [cached EXCEPT ![g] = PrepareValue(g, v)]

OnMessage(g, v) ==
  /\ link /\ echo = 0
  /\ SetValue(g, v)
  /\ echo' = g
  /\ cmd' = v
  /\ UNCHANGED <<event, link, age, firstTime, loopVars, brokerVars>>

Echo ==
  /\ echo # 0
  /\ Publish(echo, cmd)
  /\ echo' = 0
  /\ cmd' = 0
  /\ UNCHANGED <<envVars, fileVars, loopVars>>

-----------------------------------------------------------------------------
Environment ==
  \/ \E g \in Inputs : LineChanges(g)
  \/ \E g \in Lines : InterruptAges(g)

MainThread ==
  \/ Wake \/ ReadCache \/ CompareLine \/ RestoreCache
  \/ NotCaught \/ SkipBounce \/ TakeInterrupt \/ ReadForPublish \/ SendValue

Command == \E g \in Commanded, v \in {0, 1} : OnMessage(g, v)

Faults == CompareFails \/ ReadFails \/ LinkChanges \/ Restart

Undisturbed == Environment \/ ClockRuns \/ MainThread \/ Command \/ Echo

Next == Undisturbed \/ Faults

Spec == Init /\ [][Next]_vars

\* The clock runs, epoll_wait returns at the latest after 500 ms, and the
\* mosquitto thread finishes the message it is in.  Without faults: a publication
\* that is refused, or that is the code of a failed read, is not repeated.
LiveSpec ==
  /\ Init /\ [][Undisturbed]_vars
  /\ WF_vars(ClockRuns) /\ WF_vars(MainThread) /\ WF_vars(Echo)

-----------------------------------------------------------------------------
(***************************************************************************)
(* Properties                                                              *)
(***************************************************************************)

\* Type correctness: the loops of the main thread stay within the channels.
TypeOK ==
  /\ level \in [Lines -> {0, 1}]
  /\ event \subseteq Inputs
  /\ link \in BOOLEAN
  /\ retained \in [Lines -> {None, Failed, 0, 1}]
  /\ cached \in [Lines -> {Failed, 0, 1}]
  /\ age \in [Lines -> {"never", "bounce", "delay", "settled"}]
  /\ firstTime \in [Lines -> BOOLEAN]
  /\ loopFirst \in BOOLEAN
  /\ elapsed \in {"none", "some", "due"}
  /\ mpc \in {"wait", "cache", "compare", "restore", "debounce", "read", "send"}
  /\ scanning \in BOOLEAN
  /\ cur \in Lines /\ caught \subseteq Inputs
  /\ old \in {Failed, 0, 1} /\ got \in {Failed, 0, 1}
  /\ echo \in Outputs \cup {0} /\ cmd \in {0, 1}
  /\ lost \subseteq Lines

\* What UpdateValue compares the line with is what the broker holds: an input
\* whose value is cached has that value retained, unless its last publication
\* was refused or was the code of a failed read.  The cached value moves on two
\* occasions before the publication (GetValue in the comparison, its
\* restoration, GetValue again), and interrupts are dropped in between.
Settled(g) == cached[g] = Failed \/ g \in lost \/ retained[g] = cached[g]

CacheIsPublished ==
  \A g \in Inputs :
    \/ Settled(g)
    \/ mpc \in {"restore", "read", "send"} /\ g = cur

\* An input that stays as it is gets its value retained, whatever interrupts were
\* bounces or came in an iteration that scans, and whatever the other lines do.
InputSettles ==
  \A g \in Inputs : \A v \in {0, 1} :
    <>[](Logical(g) = v) => <>[](retained[g] = v)

\* Once commands cease, an inverted output has its value retained, even when a
\* publication of the main loop overtook an echo: line 175 leaves the opposite
\* value in the cache, so the next scan publishes again.
InvertedOutputSettles ==
  \A g \in Outputs \cap Inverted : \A v \in {0, 1} :
    <>[](Logical(g) = v) => <>[](retained[g] = v)

=============================================================================
