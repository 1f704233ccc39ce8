----------------------------- MODULE QueueSpec -----------------------------
(***************************************************************************)
(* What TSQueue<T> (src/NTHU-OS-Pthreads/ts_queue.hpp) promises its        *)
(* callers: a bounded FIFO whose enqueue and dequeue each take effect in   *)
(* one atomic step.  enqueue blocks while the queue holds Cap items,       *)
(* dequeue blocks while it is empty and hands the oldest item to the       *)
(* caller.  The calling threads are Putters (enqueue only) and Takers      *)
(* (dequeue only); a putter enqueues its own identity, so the contents     *)
(* record which thread's call was serialised first.                        *)
(***************************************************************************)
EXTENDS Naturals, Sequences

CONSTANTS Putters, Takers, Cap, NoItem

VARIABLES q, got

(* q: the queue contents, oldest first.  got[t]: what taker t's last      *)
(* dequeue returned (NoItem before its first).                            *)
absvars == <<q, got>>

Init ==
    /\ q = << >>
    /\ got = [t \in Takers |-> NoItem]

Put(p) ==
    /\ Len(q) < Cap
    /\ q' = Append(q, p)
    /\ UNCHANGED got

Take(t) ==
    /\ q # << >>
    /\ got' = [got EXCEPT ![t] = Head(q)]
    /\ q' = Tail(q)

Next ==
    \/ \E p \in Putters : Put(p)
    \/ \E t \in Takers : Take(t)

Spec == Init /\ [][Next]_absvars
=============================================================================
