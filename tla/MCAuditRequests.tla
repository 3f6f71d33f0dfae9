--------------------------- MODULE MCAuditRequests ----------------------------
(* AuditRequests with few callers and rows. *)
EXTENDS AuditRequests

CONSTANTS c1, c2, c3

MCSources == {"heuristic"}
MCTwoCallers == {c1, c2}
MCThreeCallers == {c1, c2, c3}
===============================================================================
