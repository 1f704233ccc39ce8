---------------------------- MODULE PipelineSpec ----------------------------
(***************************************************************************)
(* What the pipeline of main.cpp promises, spec sections 3 and 8: records  *)
(* 1..n are read in order, and each record read is handed to the writer   *)
(* at most once, after it was read; records may overtake one another      *)
(* (several producers and consumers race), so the writer's order is any.  *)
(***************************************************************************)
EXTENDS Naturals, Sequences

CONSTANTS NItems

VARIABLES
    nread,      \* how many records have been read
    inflight,   \* the records read and not yet delivered
    delivered   \* the keys the writer has received, in order

absvars == <<nread, inflight, delivered>>

Init ==
    /\ nread = 0
    /\ inflight = {}
    /\ delivered = << >>

Read ==
    /\ nread < NItems
    /\ nread' = nread + 1
    /\ inflight' = inflight \cup {nread + 1}
    /\ UNCHANGED delivered

Deliver(k) ==
    /\ k \in inflight
    /\ inflight' = inflight \ {k}
    /\ delivered' = Append(delivered, k)
    /\ UNCHANGED nread

Next == Read \/ \E k \in 1 .. NItems : Deliver(k)

Spec == Init /\ [][Next]_absvars
=============================================================================
