----------------------------- MODULE CommPorts -----------------------------
(***************************************************************************)
(* The serial ports of macOS (CommMacos) and of Windows (CommWin32): the   *)
(* build takes one of the two (common/com.h).                              *)
(***************************************************************************)
EXTENDS CommMacos

VARIABLES
  system,    \* the system built for
  hComPort, timeouts, winInput, winArrived, winPc, winCap, asked, old, winResult,
  crossed

Win == INSTANCE CommWin32 WITH
         input <- winInput, arrived <- winArrived, pc <- winPc, cap <- winCap,
         result <- winResult

winVars == <<hComPort, timeouts, winInput, winArrived, winPc, winCap, asked,
             old, winResult, crossed>>

PortsInit == system \in {"macos", "windows"} /\ Init /\ Win!Init

PortsNext ==
  /\ UNCHANGED system
  /\ \/ system = "macos" /\ Next /\ UNCHANGED winVars
     \/ system = "windows" /\ Win!Next /\ UNCHANGED vars

PortsSpec ==
  PortsInit /\ [][PortsNext]_<<system, vars, winVars>> /\ Fairness

----------------------------------------------------------------------------
(* The property of the port on Windows; those of the other are CommMacos's *)

\* "Restore old timeouts" (common/com_win32.cpp:205, 259): a read that fails, or
\* is closed under, does not leave the open port with the timeouts it set for
\* itself; only a read that saves those of another can.
TimeoutsRestored == Win!TimeoutsRestored
=============================================================================
