----------------------------- MODULE LeastFirst -----------------------------
(***************************************************************************)
(* What the policies and the engine ask of a heap (sjf, srtf, stride, cfs, *)
(* the processes doing I/O): a set of processes of which the least by      *)
(* (key, pid) is taken.  The policy modules use this set directly.         *)
(* BinaryHeap implements it.                                               *)
(***************************************************************************)
EXTENDS Integers

CONSTANTS Procs, Keys, None

VARIABLES
    held,      \* the processes in the heap
    key,       \* what `less' compares; it must not change while p is held
    returned   \* the result of the last operation

vars == <<held, key, returned>>

\* the caller's strict order: ties are broken by pid
Less(x, y) == key[x] < key[y] \/ (key[x] = key[y] /\ x < y)

Init == held = {} /\ key \in [Procs -> Keys] /\ returned = None

\* a process is never in the ready set twice
Put(p) ==
    /\ p \notin held /\ held' = held \cup {p} /\ returned' = None
    /\ \E k \in Keys : key' = [key EXCEPT ![p] = k]

TakeLeast(p) ==
    /\ p \in held /\ \A q \in held \ {p} : Less(p, q)
    /\ held' = held \ {p} /\ returned' = p
    /\ UNCHANGED key

Next == \E p \in Procs : Put(p) \/ TakeLeast(p)

Spec == Init /\ [][Next]_vars
=============================================================================
