----------------------------- MODULE RingQueue ------------------------------
(***************************************************************************)
(* The ring buffer of src/src/util/queue.c, as rr and fcfs use it: its     *)
(* capacity is the number of processes, and a process that waits in it is  *)
(* not pushed again.                                                       *)
(***************************************************************************)
EXTENDS Integers, Sequences, FiniteSets

CONSTANTS
    Procs,   \* the processes of the workload
    None     \* a slot that was never written; the result of push

VARIABLES
    slots,   \* items[0 .. cap - 1]
    head, len,
    returned \* what the last pop returned

ringVars == <<slots, head, len>>

Capacity == Cardinality(Procs)

Init ==
    /\ slots = [i \in 0..(Capacity - 1) |-> None]
    /\ head = 0 /\ len = 0 /\ returned = None

Contents == [i \in 1..len |-> slots[(head + i - 1) % Capacity]]

\* queue_push of a process that is not in the queue
Push(p) ==
    /\ \A i \in DOMAIN Contents : Contents[i] # p
    /\ slots' = [slots EXCEPT ![(head + len) % Capacity] = p]
    /\ len' = len + 1 /\ returned' = None
    /\ UNCHANGED head

\* queue_pop
Pop ==
    /\ len > 0
    /\ returned' = slots[head]
    /\ head' = (head + 1) % Capacity /\ len' = len - 1
    /\ UNCHANGED slots

Next == Pop \/ \E p \in Procs : Push(p)
=============================================================================
