----------------------------- MODULE Containers -----------------------------
(***************************************************************************)
(* The structures that hold ready and blocked processes, each used as its  *)
(* callers use it: one of them is picked at the start.  The queues and the *)
(* heap implement the lines and sets that the policy modules work with.    *)
(***************************************************************************)
EXTENDS Integers, Sequences

CONSTANTS
    ProcsOf,    \* per structure, the processes
    None, Keys, NumLevels,
    HeapPrio, Arrival, KeyPairs

VARIABLES
    structure,                              \* "queue", "heap", "levels" or "treap"
    returned,                               \* the result of the last operation
    slots, head, len,                       \* of the queue
    items, loop, at, key,                   \* of the heap
    first, last, next, prev, merging,       \* of the levels
    root, arrays                            \* of the treap

queueVars == <<slots, head, len>>
heapVars == <<items, loop, at, key>>
linkVars == <<first, last, next, prev, merging>>
treapVars == <<root, arrays>>
vars == <<structure, returned, queueVars, heapVars, linkVars, treapVars>>

Ring == INSTANCE RingQueue WITH Procs <- ProcsOf["queue"]
Heap == INSTANCE BinaryHeap WITH Procs <- ProcsOf["heap"]
Links == INSTANCE LinkedQueues WITH Procs <- ProcsOf["levels"]
Tree == INSTANCE Treap WITH Procs <- ProcsOf["treap"]

\* the state of the structures that are not used
NoQueue == slots = <<>> /\ head = 0 /\ len = 0
NoHeap == items = <<>> /\ loop = "idle" /\ at = 1 /\ key = <<>>
NoLinks == first = <<>> /\ last = <<>> /\ next = <<>> /\ prev = <<>> /\ merging = 1
NoTree == root = None /\ arrays = <<>>

Init ==
    \/ structure = "queue" /\ Ring!Init /\ NoHeap /\ NoLinks /\ NoTree
    \/ structure = "heap" /\ Heap!Init /\ NoQueue /\ NoLinks /\ NoTree
    \/ structure = "levels" /\ Links!Init /\ NoQueue /\ NoHeap /\ NoTree
    \/ structure = "treap" /\ Tree!Init /\ returned = None /\ NoQueue /\ NoHeap /\ NoLinks

Next ==
    /\ UNCHANGED structure
    /\ \/ structure = "queue" /\ Ring!Next /\ UNCHANGED <<heapVars, linkVars, treapVars>>
       \/ structure = "heap" /\ Heap!Next /\ UNCHANGED <<queueVars, linkVars, treapVars>>
       \/ structure = "levels" /\ Links!Next /\ UNCHANGED <<queueVars, heapVars, treapVars>>
       \/ structure = "treap" /\ Tree!Next
          /\ UNCHANGED <<returned, queueVars, heapVars, linkVars>>

Spec == Init /\ [][Next]_vars

-----------------------------------------------------------------------------

QueueLines == INSTANCE WaitingLines WITH
    Procs <- ProcsOf["queue"], Levels <- {1}, lines <- <<Ring!Contents>>
LevelLines == INSTANCE WaitingLines WITH
    Procs <- ProcsOf["levels"], Levels <- 1..NumLevels,
    lines <- [l \in 1..NumLevels |-> Links!Line(l)]
HeapSet == INSTANCE LeastFirst WITH
    Procs <- ProcsOf["heap"], held <- {items[i] : i \in DOMAIN items}

(* The ring buffer serves in the order of pushes whatever way it has       *)
(* wrapped around (queue.h), the linked queues of mlfq lose and reorder    *)
(* nobody over pushes at both ends, pops and boosts (mlfq.c:20-24), and    *)
(* the heap always hands out the least of what it holds (heap.h).          *)
Implements ==
    /\ structure = "queue" => QueueLines!Init
    /\ structure = "levels" => LevelLines!Init
    /\ structure = "heap" => HeapSet!Init
    /\ [][/\ structure = "queue" => [QueueLines!Next]_(QueueLines!vars)
          /\ structure = "levels" => [LevelLines!Next]_(LevelLines!vars)
          /\ structure = "heap" => [HeapSet!Next]_(HeapSet!vars)]_vars

(* What prio reads off its treap is what the set of ready processes        *)
(* determines, after any sequence of enqueues and erasures, whatever keys  *)
(* the processes come back with (priority.c:141-255).                      *)
TreapExact == structure = "treap" => Tree!TreapExact
=============================================================================
