--------------------------- MODULE MCSimulatedOrder ---------------------------
(* One order and two previews of its consumer.                             *)
EXTENDS SimulatedOrder

CONSTANTS p1, p2

MCPreviews == {p1, p2}
==============================================================================
