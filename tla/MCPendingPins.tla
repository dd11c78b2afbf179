---------------------------- MODULE MCPendingPins ----------------------------
(***************************************************************************)
(* Two requests for the same document, in one process or in two, beside    *)
(* the jobs of one of the processes.                                       *)
(***************************************************************************)
EXTENDS PendingPins

CONSTANTS a, b, p1, p2

TwoRequests == {a, b}
TwoProcesses == {p1, p2}
OneWorker == {p1}
=============================================================================
