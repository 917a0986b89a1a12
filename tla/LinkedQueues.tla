---------------------------- MODULE LinkedQueues ----------------------------
(***************************************************************************)
(* The doubly linked queues of src/src/policies/mlfq.c: one per level over *)
(* shared next and prev arrays, whose entries keep their last value when a *)
(* process leaves.  A boost appends the queues of the lower levels to the  *)
(* top one, one loop iteration per step.                                   *)
(***************************************************************************)
EXTENDS Integers, Sequences

CONSTANTS
    Procs,
    NumLevels,  \* levels are numbered from 1, the top
    None        \* NIL, and an entry that was never written

VARIABLES
    first, last,   \* head and tail of each level
    next, prev,    \* per process
    merging,       \* loop counter of maybe_boost; 1 outside of the loop
    returned       \* what the last pop_front returned

linkVars == <<first, last, next, prev, merging>>
Levels == 1..NumLevels

Init ==
    /\ first = [l \in Levels |-> None] /\ last = [l \in Levels |-> None]
    /\ next = [p \in Procs |-> None] /\ prev = [p \in Procs |-> None]
    /\ merging = 1 /\ returned = None

\* the queue that starts at p; a cycle would not end
Chain[p \in Procs \cup {None}] == IF p = None THEN <<>> ELSE <<p>> \o Chain[next[p]]
Line(l) == Chain[first[l]]
IsWaiting(p) == \E l \in Levels : \E i \in DOMAIN Line(l) : Line(l)[i] = p

\* push_back(l, p)
PushBack(l, p) ==
    /\ merging = 1 /\ ~IsWaiting(p)
    /\ prev' = [prev EXCEPT ![p] = last[l]]
    /\ IF last[l] = None
       THEN first' = [first EXCEPT ![l] = p] /\ next' = [next EXCEPT ![p] = None]
       ELSE next' = [next EXCEPT ![p] = None, ![last[l]] = p] /\ UNCHANGED first
    /\ last' = [last EXCEPT ![l] = p]
    /\ returned' = None /\ UNCHANGED merging

\* push_front(l, p)
PushFront(l, p) ==
    /\ merging = 1 /\ ~IsWaiting(p)
    /\ next' = [next EXCEPT ![p] = first[l]]
    /\ IF first[l] = None
       THEN last' = [last EXCEPT ![l] = p] /\ prev' = [prev EXCEPT ![p] = None]
       ELSE prev' = [prev EXCEPT ![p] = None, ![first[l]] = p] /\ UNCHANGED last
    /\ first' = [first EXCEPT ![l] = p]
    /\ returned' = None /\ UNCHANGED merging

\* pop_front(l)
\* mutant: the tail keeps pointing at the process that left
LastAfterPopKept(l) == last
LastAfterPop(l) == IF next[first[l]] = None THEN [last EXCEPT ![l] = None] ELSE last
PopFront(l) ==
    /\ merging = 1 /\ first[l] # None
    /\ returned' = first[l]
    /\ first' = [first EXCEPT ![l] = next[first[l]]]
    /\ last' = LastAfterPop(l)
    /\ prev' = IF next[first[l]] = None THEN prev ELSE [prev EXCEPT ![next[first[l]]] = None]
    /\ UNCHANGED <<next, merging>>

\* the loop of maybe_boost starts; the levels are visited top to bottom
BoostDue ==
    merging = 1 /\ merging' = 2 /\ UNCHANGED <<first, last, next, prev, returned>>

\* level l is appended to the top level; an empty one is skipped
MergeLevel(l) ==
    /\ merging = l /\ l > 1 /\ returned' = None
    /\ merging' = IF l = NumLevels THEN 1 ELSE l + 1
    /\ IF first[l] = None THEN UNCHANGED <<first, last, next, prev>>
       ELSE /\ IF last[1] = None
               THEN first' = [first EXCEPT ![1] = first[l], ![l] = None] /\ UNCHANGED <<next, prev>>
               ELSE /\ next' = [next EXCEPT ![last[1]] = first[l]]
                    /\ prev' = [prev EXCEPT ![first[l]] = last[1]]
                    /\ first' = [first EXCEPT ![l] = None]
            /\ last' = [last EXCEPT ![1] = last[l], ![l] = None]

Next ==
    \/ BoostDue
    \/ \E l \in Levels : PopFront(l) \/ MergeLevel(l) \/ \E p \in Procs : PushBack(l, p) \/ PushFront(l, p)
=============================================================================
