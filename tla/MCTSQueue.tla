----------------------------- MODULE MCTSQueue -----------------------------
(* TSQueue with two enqueuing and two dequeuing threads and two slots:    *)
(* enough for a waiter to be barged by a new caller, for both waiters of  *)
(* one condition variable to be woken by successive signals, and for the *)
(* ring indices to wrap around.                                           *)
EXTENDS TSQueue

CONSTANTS p1, p2, t1, t2

MCPutters == {p1, p2}
MCTakers == {t1, t2}
MCCap == 2
=============================================================================
