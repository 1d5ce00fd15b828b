----------------------------- MODULE MCMonitor -----------------------------
(* Instances of Monitor for TLC. *)
EXTENDS Monitor

(* Requests as monitor.New accepts them, and as a connection decodes them. *)
AllRequests == RequestShapes
WireRequests == {r \in RequestShapes : r.nested = "value"}

=============================================================================
