--------------------------- MODULE MCDeviceState ---------------------------
(* Model values and bounds for DeviceState. *)
EXTENDS DeviceState

CONSTANTS p1, p2

\* Two processes: the first worker's, and that of everybody else.
MCProcOf == [w \in Actors |-> IF w = (CHOOSE v \in Workers : TRUE) THEN p1 ELSE p2]
OneProc == [w \in Actors |-> p1]

=============================================================================
