------------------------------- MODULE MCGpio -------------------------------
(***************************************************************************)
(* Instances of Gpio for TLC.                                              *)
(***************************************************************************)
EXTENDS Gpio

\* An input with interrupts, one whose driver has no edge file, an output.
TwoInputsAndOutput == <<"both", "none", "none">>
=============================================================================
