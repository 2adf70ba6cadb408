------------------------------- MODULE Ports -------------------------------
(***************************************************************************)
(* The ports of the clock loop side by side: the buzzer of the alert and   *)
(* the bus of the panel and the touch controller.  They share the loop and *)
(* nothing else, so a step of one leaves the other as it is.               *)
(***************************************************************************)
EXTENDS AlertBuzzer, SharedBus

portsVars == <<buzzerVars, busVars>>

PortsInit == BuzzerInit /\ BusInit

PortsNext ==
    \/ BuzzerNext /\ UNCHANGED busVars
    \/ BusNext /\ UNCHANGED buzzerVars

PortsSpec == PortsInit /\ [][PortsNext]_portsVars
=============================================================================
