--------------------------- MODULE PriorityQueue ---------------------------
(***************************************************************************)
(* What the selection expects of its queue of modified transactions        *)
(* (tx-selection-worker.ts:80-117, 275-284): whatever order elements are   *)
(* added in and whatever priorities change meanwhile, the one that comes   *)
(* out is the one of highest priority, the greater number among equals.    *)
(***************************************************************************)
EXTENDS Naturals

CONSTANTS Elements, Priorities

VARIABLES
    queue,     \* elements waiting
    priority,  \* of each element
    popped     \* the one that came out last

queueVars == <<queue, priority, popped>>

First(e, f) == priority[e] > priority[f] \/ (priority[e] = priority[f] /\ e > f)

QueueInit ==
    /\ queue = {}
    /\ priority \in [Elements -> Priorities]
    /\ popped = 0

QueueAdd(e, p) ==
    /\ e \notin queue
    /\ queue' = queue \cup {e}
    /\ priority' = [priority EXCEPT ![e] = p]
    /\ UNCHANGED popped

QueuePop ==
    \E e \in queue :
        /\ \A f \in queue \ {e} : First(e, f)
        /\ queue' = queue \ {e}
        /\ popped' = e
        /\ UNCHANGED priority

QueueChange(e, p) ==
    /\ e \in queue
    /\ priority' = [priority EXCEPT ![e] = p]
    /\ UNCHANGED <<queue, popped>>

QueueNext ==
    \/ \E e \in Elements, p \in Priorities : QueueAdd(e, p) \/ QueueChange(e, p)
    \/ QueuePop

QueueSpec == QueueInit /\ [][QueueNext]_queueVars
=============================================================================
