--------------------------- MODULE MCNinjaBridge ----------------------------
(***************************************************************************)
(* An instance of NinjaBridge for TLC: a switch that takes commands, there *)
(* from the start, and a sensor with a meta/export "0" that appears at any *)
(* time.  A behaviour is one of four scenarios, each of which leaves out   *)
(* some of what may happen, so that all of the rest can:                   *)
(*                                                                         *)
(*   activation  with and without a token file, whatever the cloud and the *)
(*               disk answer, with an outage or a restart; nothing but the *)
(*               switch, no command; in the others there is a token        *)
(*   threads     both threads, both controls and commands, no outage       *)
(*   commands    the switch and its commands with a local outage           *)
(*   outages     both controls with an outage or a restart, no command, no *)
(*               new measurement                                           *)
(*                                                                         *)
(* Only what the cloud, the devices and the outages do is left out, never  *)
(* a step of the bridge.                                                   *)
(***************************************************************************)
EXTENDS NinjaBridge

VARIABLE scenario

SwitchAndSensor == << {0, 1}, {20} >>

ScenarioInit ==
  /\ Init
  /\ scenario \in {"activation", "threads", "commands", "outages"}
  /\ scenario # "activation" => token = "token"

ScenarioNext ==
  /\ Next
  /\ UNCHANGED scenario
  /\ scenario \in {"activation", "outages"} => command' = None
  /\ scenario = "activation" => UNCHANGED device
  /\ scenario = "threads" => UNCHANGED outages
  /\ scenario = "commands" => Appeared' = Appeared /\ (outages' # outages => LoseLocal)
  /\ scenario = "outages" => \A c \in Appeared : device'[c] = device[c]

Scenarios == ScenarioInit /\ [][ScenarioNext]_<<vars, scenario>> /\ Fairness
=============================================================================
