----------------------------- MODULE LogRotation -----------------------------
(***************************************************************************)
(* mqtt-logger: every message is appended to a log; a log that has grown   *)
(* beyond its maximum is renamed to the first of Number old logs, each of  *)
(* which was renamed to the next before.  Then the logger unsubscribes and *)
(* subscribes again "to save all retained messages after rotate".          *)
(*                                                                         *)
(* Every message takes one line, and every publication is retained.  One   *)
(* thread writes, renames and serves the connection, which is two          *)
(* first-in-first-out lines to and from the broker (QoS 0).  A rename or   *)
(* an open that fails ends the process, which is started again.            *)
(***************************************************************************)
EXTENDS Integers, Sequences, SequencesExt, FiniteSets

CONSTANTS
  Topics,
  MaxLines,     \* lines a log may have
  Number,       \* old logs to remain
  MaxMessages,  \* bound: publications
  MaxEnds,      \* bound: ends of the process and of the connection
  None

\* None names no topic and no log; there is an old log to rename the log to.
ASSUME LogAssumption ==
  /\ IsFiniteSet(Topics) /\ None \notin Topics
  /\ MaxLines \in Nat
  /\ Number \in Nat \ {0}
  /\ None \notin Nat

VARIABLES
  log,       \* the lines of the log: [topic, stamp]
  gen,       \* the number of the log, counted from the first; None: it was renamed
  old,       \* old[i]: the number of the log that is the i-th old one, or None
  logger,       \* where the logger is: "wait", "rename", "reopen"
  i,         \* the old log to be renamed next, 0: the log itself
  link,      \* "up", "down"
  up, down,  \* to and from the broker
  subscribed,\* the broker forwards (external)
  retained,  \* retained[t]: the stamp of the last publication (external)
  stamp,     \* how many publications there were
  ends,      \* how many ends there were
  cut        \* how many of them cut a rotation short

files == <<log, gen, old>>
connection == <<link, up, down, subscribed>>
world == <<retained, stamp, ends, cut>>
logVars == <<files, logger, i, connection, world>>

Line(t) == [topic |-> t, stamp |-> retained[t]]
Connack == [topic |-> None, stamp |-> 0]
Stored == {t \in Topics : retained[t] # 0}
Replay == LET topics == SetToSeq(Stored) IN [n \in 1..Len(topics) |-> Line(topics[n])]
Newest == IF gen # None THEN gen ELSE old[1]

LogInit ==
  /\ log = <<>> /\ gen = 1 /\ old = [j \in 1..Number |-> None]
  /\ logger = "wait" /\ i = 0
  /\ link = "up" /\ up = <<"connect">> /\ down = <<>> /\ subscribed = FALSE
  /\ retained = [t \in Topics |-> 0]
  /\ stamp = 0 /\ ends = 0 /\ cut = 0

Send(requests) == up' = IF link = "up" THEN up \o requests ELSE up

-----------------------------------------------------------------------------
(***************************************************************************)
(* The logger.                                                             *)
(***************************************************************************)

OnConnect ==
  /\ logger = "wait"
  /\ down # <<>> /\ Head(down) = Connack
  /\ down' = Tail(down)
  /\ Send(<<"subscribe">>)
  /\ UNCHANGED <<files, logger, i, link, subscribed, world>>

\* Slip: a log that is full is taken for one that has grown beyond.
GrownFull(lines) == Len(lines) >= MaxLines

Grown(lines) == Len(lines) > MaxLines

OnMessage ==
  /\ logger = "wait"
  /\ down # <<>> /\ Head(down) # Connack
  /\ down' = Tail(down)
  /\ log' = Append(log, Head(down))
  /\ IF Grown(log') THEN logger' = "rename" /\ i' = Number - 1 ELSE UNCHANGED <<logger, i>>
  /\ UNCHANGED <<gen, old, link, up, subscribed, world>>

\* Slip: an old log is renamed to the number below.
RenameOldDown ==
  /\ logger = "rename" /\ i > 0
  /\ old' = IF old[i + 1] = None THEN old
            ELSE [old EXCEPT ![i] = old[i + 1], ![i + 1] = None]
  /\ i' = i - 1
  /\ UNCHANGED <<log, gen, logger, connection, world>>

\* An old log that does not exist is passed over.
RenameOld ==
  /\ logger = "rename" /\ i > 0
  /\ old' = IF old[i] = None THEN old
            ELSE [old EXCEPT ![i + 1] = old[i], ![i] = None]
  /\ i' = i - 1
  /\ UNCHANGED <<log, gen, logger, connection, world>>

RenameLog ==
  /\ logger = "rename" /\ i = 0
  /\ old' = [old EXCEPT ![1] = gen]
  /\ gen' = None /\ log' = <<>>
  /\ logger' = "reopen"
  /\ UNCHANGED <<i, connection, world>>

\* Slip: the subscription is left as it is.
ReopenOnly ==
  /\ logger = "reopen"
  /\ gen' = old[1] + 1
  /\ logger' = "wait"
  /\ UNCHANGED <<log, old, i, connection, world>>

Reopen ==
  /\ logger = "reopen"
  /\ gen' = old[1] + 1
  /\ logger' = "wait"
  /\ Send(<<"unsubscribe", "subscribe">>)
  /\ UNCHANGED <<log, old, i, link, down, subscribed, world>>

\* loop() has returned an error.
Reconnect ==
  /\ logger = "wait" /\ link = "down"
  /\ link' = "up"
  /\ up' = <<"connect">>
  /\ UNCHANGED <<files, logger, i, down, subscribed, world>>

-----------------------------------------------------------------------------
(***************************************************************************)
(* The broker, and what may happen.                                        *)
(***************************************************************************)

Broker ==
  /\ up # <<>>
  /\ up' = Tail(up)
  /\ subscribed' = (Head(up) = "subscribe")
  /\ down' = CASE Head(up) = "connect" -> Append(down, Connack)
               [] Head(up) = "subscribe" -> down \o Replay
               [] OTHER -> down
  /\ UNCHANGED <<files, logger, i, link, world>>

PublishTopic(t) ==
  /\ stamp < MaxMessages
  /\ stamp' = stamp + 1
  /\ retained' = [retained EXCEPT ![t] = stamp']
  /\ down' = IF subscribed THEN Append(down, [topic |-> t, stamp |-> stamp']) ELSE down
  /\ UNCHANGED <<files, logger, i, link, up, subscribed, ends, cut>>

LoseLink ==
  /\ link = "up"
  /\ ends < MaxEnds /\ ends' = ends + 1
  /\ link' = "down"
  /\ up' = <<>> /\ down' = <<>> /\ subscribed' = FALSE
  /\ UNCHANGED <<files, logger, i, retained, stamp, cut>>

\* The process ends, between any two renames too, and is started again; the log
\* is opened for appending.
LogRestart ==
  /\ ends < MaxEnds /\ ends' = ends + 1
  /\ cut' = IF logger = "wait" THEN cut ELSE cut + 1
  /\ logger' = "wait" /\ i' = 0
  /\ gen' = IF gen = None THEN old[1] + 1 ELSE gen
  /\ link' = "up" /\ up' = <<"connect">> /\ down' = <<>> /\ subscribed' = FALSE
  /\ UNCHANGED <<log, old, retained, stamp>>

Logger == OnConnect \/ OnMessage \/ RenameOld \/ RenameLog \/ Reopen \/ Reconnect

LogNext ==
  \/ Logger
  \/ Broker
  \/ \E t \in Topics : PublishTopic(t)
  \/ LoseLink \/ LogRestart

LogSpec == LogInit /\ [][LogNext]_logVars

-----------------------------------------------------------------------------
(***************************************************************************)
(* Properties.                                                             *)
(***************************************************************************)

Kept == {old[j] : j \in {k \in 1..Number : old[k] # None}}

\* Old logs are in the order of their age, and none is lost but the oldest: of
\* those before the newest Number - 1 are there at any time, less one for each
\* rotation that was cut short (it leaves a gap, and the next rotation does not
\* fill it but renames what lies behind).
OldestGoesFirst ==
  /\ \A j, k \in 1..Number :
       j < k /\ old[j] # None /\ old[k] # None => old[j] > old[k]
  /\ \A g \in 1..Newest - 1 : g >= Newest - (Number - 1) + cut => g \in Kept

\* "to save all retained messages after rotate": whenever nothing is on the way, the
\* current log tells the value of every topic, after rotations, restarts and lost
\* connections.
LogTellsState ==
  logger = "wait" /\ link = "up" /\ up = <<>> /\ down = <<>> /\ subscribed =>
    \A t \in Topics : retained[t] # 0 => Line(t) \in Range(log)

\* Each rotation replays what is retained, which is no reason for another one: the
\* logs that are made are bounded by what is published.  (It needs a log that may
\* hold one line of each topic.)
RotationsArePaid ==
  Newest <= 1 + stamp + Cardinality(Topics) * ends
=============================================================================
