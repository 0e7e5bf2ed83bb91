----------------------------- MODULE MCNinjaGuid -----------------------------
(***************************************************************************)
(* A control is announced to the cloud and a command for it comes back.    *)
(***************************************************************************)
EXTENDS NinjaGuid

CONSTANT Names   \* the names devices and controls may have

VARIABLES
  device, control,  \* the names
  signed,           \* whether char is signed where the bridge was built
  guid, parsed      \* what was sent, and how it was read

gvars == <<device, control, signed, guid, parsed>>

Init ==
  /\ device \in Names /\ control \in Names
  /\ signed \in BOOLEAN
  /\ guid = <<>> /\ parsed = <<>>

Announce == guid' = GetGUID(device, control, signed) /\ UNCHANGED <<device, control, signed, parsed>>

Command ==
  /\ guid # <<>>
  /\ parsed' = ParseGUID(guid)
  /\ UNCHANGED <<device, control, signed, guid>>

Next == Announce \/ Command

Spec == Init /\ [][Next]_gvars

Ascii(name) == \A i \in DOMAIN name : name[i] < 128

\* A command comes back to the very control that was announced, whatever dashes,
\* digits and other characters its names have; except that names outside ASCII
\* need a build with unsigned char.
CommandComesBack ==
  [][\/ parsed' \in {parsed, <<device, control>>}
     \/ signed /\ ~(Ascii(device) /\ Ascii(control))]_gvars
=============================================================================
