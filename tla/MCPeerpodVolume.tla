--------------------------- MODULE MCPeerpodVolume ---------------------------
(* Instances of PeerpodVolume for TLC. *)
EXTENDS PeerpodVolume
CONSTANTS p1, p2

Calmly == [key |-> "context", pods |-> {p1, p2}, driverFails |-> 1, restarts |-> 0,
           apiMayFail |-> FALSE, earlyDelete |-> FALSE]

\* Two Pods, one after the other; or one Pod with failing requests; or one Pod with a
\* wrapper that is started again.
CalmFailingRestarted ==
  {Calmly, [Calmly EXCEPT !.key = "class"],
   [Calmly EXCEPT !.pods = {p1}, !.apiMayFail = TRUE, !.earlyDelete = TRUE],
   [Calmly EXCEPT !.pods = {p1}, !.restarts = 1, !.earlyDelete = TRUE, !.key = "none"]}
=============================================================================
