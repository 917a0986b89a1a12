----------------------------- MODULE BinaryHeap -----------------------------
(***************************************************************************)
(* The binary heap of src/src/util/heap.c.  The loops of heap_push and     *)
(* heap_pop take one step per iteration: while `loop' is "up" or "down",   *)
(* the item at index `at' is on its way.  Indices are from 1 here: the     *)
(* parent of i is i / 2, its children are 2i and 2i + 1.                   *)
(***************************************************************************)
EXTENDS Integers, Sequences

CONSTANTS Procs, Keys, None

VARIABLES
    items,     \* items[0 .. len - 1]
    loop, at,  \* "idle", "up" (heap_push) or "down" (heap_pop), and i
    key,       \* what the caller's `less' compares
    returned   \* what the last pop returned

heapVars == <<items, loop, at, key>>

Less(x, y) == key[x] < key[y] \/ (key[x] = key[y] /\ x < y)

Init ==
    /\ items = <<>> /\ loop = "idle" /\ at = 1
    /\ key \in [Procs -> Keys] /\ returned = None

Swapped(s, i, j) == [s EXCEPT ![i] = s[j], ![j] = s[i]]

\* heap_push up to its loop: the caller sets the key of p beforehand
Push(p) ==
    /\ loop = "idle" /\ \A i \in DOMAIN items : items[i] # p
    /\ \E k \in Keys : key' = [key EXCEPT ![p] = k]
    /\ items' = Append(items, p)
    /\ loop' = "up" /\ at' = Len(items) + 1 /\ returned' = None

Parent(i) == i \div 2
SiftUp ==
    /\ loop = "up" /\ UNCHANGED <<key, returned>>
    /\ IF at > 1 /\ Less(items[at], items[Parent(at)])
       THEN items' = Swapped(items, at, Parent(at)) /\ at' = Parent(at) /\ UNCHANGED loop
       ELSE loop' = "idle" /\ at' = 1 /\ UNCHANGED items

\* heap_pop up to its loop: the last item takes the place of the first
Pop ==
    /\ loop = "idle" /\ items # <<>>
    /\ returned' = items[1]
    /\ items' = [i \in 1..(Len(items) - 1) |-> IF i = 1 THEN items[Len(items)] ELSE items[i]]
    /\ loop' = "down" /\ at' = 1
    /\ UNCHANGED key

\* the least of i and its children
LeastAround(i) ==
    LET family == {i, 2 * i, 2 * i + 1} \cap DOMAIN items IN
    CHOOSE m \in family : \A j \in family \ {m} : Less(items[m], items[j])
SiftDown ==
    /\ loop = "down" /\ UNCHANGED <<key, returned>>
    /\ IF items # <<>> /\ LeastAround(at) # at
       THEN items' = Swapped(items, at, LeastAround(at)) /\ at' = LeastAround(at) /\ UNCHANGED loop
       ELSE loop' = "idle" /\ at' = 1 /\ UNCHANGED items

Next == SiftUp \/ SiftDown \/ Pop \/ \E p \in Procs : Push(p)
=============================================================================
