---------------------------- MODULE MCGpioCounter ----------------------------
(***************************************************************************)
(* Instances of GpioCounter for TLC; every constant is in the .cfg.        *)
(***************************************************************************)
EXTENDS GpioCounter
=============================================================================
