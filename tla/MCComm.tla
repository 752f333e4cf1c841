------------------------------- MODULE MCComm -------------------------------
(***************************************************************************)
(* The two serial ports, on small instances.                               *)
(***************************************************************************)
EXTENDS CommPorts
=============================================================================
