---------------------------- MODULE MCPipeline ----------------------------
(* Pipeline with two producers, at most three consumers and queues of two *)
(* slots.  With a worker queue of 2 and the thresholds of main.cpp (20 %  *)
(* and 80 %), a full worker queue (2 * 100 > 80 * 2) scales up and an     *)
(* empty one (0 * 100 < 20 * 2) scales down, so both scale events happen. *)
EXTENDS Pipeline

CONSTANTS pr1, pr2

MCProducers == {pr1, pr2}
=============================================================================
