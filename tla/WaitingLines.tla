---------------------------- MODULE WaitingLines ----------------------------
(***************************************************************************)
(* What the policies that serve in turn (rr, fcfs, mlfq) ask of their      *)
(* queues: processes wait in lines, one per level, and the first of a line *)
(* is served next.  RingQueue and LinkedQueues implement it.               *)
(***************************************************************************)
EXTENDS Sequences, SequencesExt

CONSTANTS Procs, Levels, None

VARIABLES
    lines,     \* per level, the processes that wait there, in order
    returned   \* the result of the last operation

vars == <<lines, returned>>

Waiting == UNION {ToSet(lines[l]) : l \in Levels}

Init == lines = [l \in Levels |-> <<>>] /\ returned = None

\* a process never waits twice
JoinBack(l, p) ==
    /\ p \notin Waiting
    /\ lines' = [lines EXCEPT ![l] = Append(@, p)] /\ returned' = None

JoinFront(l, p) ==
    /\ p \notin Waiting
    /\ lines' = [lines EXCEPT ![l] = <<p>> \o @] /\ returned' = None

TakeFirst(l) ==
    /\ lines[l] # <<>>
    /\ returned' = Head(lines[l]) /\ lines' = [lines EXCEPT ![l] = Tail(@)]

\* line l is appended to line k
Concatenate(k, l) ==
    /\ lines' = [lines EXCEPT ![k] = @ \o lines[l], ![l] = <<>>] /\ returned' = None

Next ==
    \E l \in Levels :
        \/ \E p \in Procs : JoinBack(l, p) \/ JoinFront(l, p)
        \/ TakeFirst(l)
        \/ \E k \in Levels \ {l} : Concatenate(k, l)

Spec == Init /\ [][Next]_vars
=============================================================================
