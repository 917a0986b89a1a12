------------------------------- MODULE Treap --------------------------------
(***************************************************************************)
(* The treap of src/src/policies/priority.c: the ready processes in a      *)
(* search tree by (r, pid) that is a heap by heap_prio, each node with the *)
(* best (A, arrival, pid) of its subtree.  The links of a process that     *)
(* leaves keep their last value, as in the arrays of the code.             *)
(*                                                                         *)
(* Module Priority decides on the set of ready processes; TreapExact says  *)
(* that what the code reads off its tree is what that set determines.      *)
(***************************************************************************)
EXTENDS Integers

CONSTANTS
    Procs, None,   \* process indices; NIL
    HeapPrio,      \* mix(index): distinct, since mix is a bijection
    Arrival,       \* per process
    KeyPairs       \* the values of <<r, A>> enqueue may compute

VARIABLES
    root,
    arrays     \* left, right and best of a node; the keys r and base it was enqueued with

treapVars == <<root, arrays>>

\* nothing is read before enqueue has written it
Init ==
    /\ root = None
    /\ arrays = [left |-> [p \in Procs |-> None], right |-> [p \in Procs |-> None],
                 best |-> [p \in Procs |-> None],
                 r |-> [p \in Procs |-> 0], base |-> [p \in Procs |-> 0]]

-----------------------------------------------------------------------------
(* Ordering, by the keys in T *)

\* key_less(x, 0, y, 0)
KeyLess(T, x, y) ==
    \/ T.base[x] < T.base[y]
    \/ T.base[x] = T.base[y] /\ Arrival[x] < Arrival[y]
    \/ T.base[x] = T.base[y] /\ Arrival[x] = Arrival[y] /\ x < y

BetterOf(T, x, y) ==
    IF x = None THEN y ELSE IF y = None THEN x ELSE IF KeyLess(T, y, x) THEN y ELSE x

\* node_before: the order of the tree
NodeBefore(T, x, y) == T.r[x] < T.r[y] \/ (T.r[x] = T.r[y] /\ x < y)

-----------------------------------------------------------------------------
(* The operations: each returns the arrays and the root of the result *)

Pull(T, t) ==
    LET l == IF T.left[t] = None THEN t ELSE BetterOf(T, t, T.best[T.left[t]])
    IN  [T EXCEPT !.best[t] = IF T.right[t] = None THEN l ELSE BetterOf(T, l, T.best[T.right[t]])]

\* the part of the tree at t that is ordered before x, and the rest
RECURSIVE Split(_, _, _)
Split(T, t, x) ==
    IF t = None THEN [arrays |-> T, before |-> None, rest |-> None]
    ELSE IF NodeBefore(T, t, x)
    THEN LET s == Split(T, T.right[t], x)
         IN  [arrays |-> Pull([s.arrays EXCEPT !.right[t] = s.before], t),
              before |-> t, rest |-> s.rest]
    ELSE LET s == Split(T, T.left[t], x)
         IN  [arrays |-> Pull([s.arrays EXCEPT !.left[t] = s.rest], t),
              before |-> s.before, rest |-> t]

RECURSIVE Insert(_, _, _)
Insert(T, t, x) ==
    IF t = None THEN [arrays |-> T, root |-> x]
    ELSE IF HeapPrio[x] > HeapPrio[t]
    THEN LET s == Split(T, t, x)
         IN  [arrays |-> Pull([s.arrays EXCEPT !.left[x] = s.before, !.right[x] = s.rest], x),
              root |-> x]
    ELSE IF NodeBefore(T, x, t)
    THEN LET s == Insert(T, T.left[t], x)
         IN  [arrays |-> Pull([s.arrays EXCEPT !.left[t] = s.root], t), root |-> t]
    ELSE LET s == Insert(T, T.right[t], x)
         IN  [arrays |-> Pull([s.arrays EXCEPT !.right[t] = s.root], t), root |-> t]

RECURSIVE Merge(_, _, _)
Merge(T, a, b) ==
    IF a = None THEN [arrays |-> T, root |-> b]
    ELSE IF b = None THEN [arrays |-> T, root |-> a]
    ELSE IF HeapPrio[a] > HeapPrio[b]
    THEN LET s == Merge(T, T.right[a], b)
         IN  [arrays |-> Pull([s.arrays EXCEPT !.right[a] = s.root], a), root |-> a]
    ELSE LET s == Merge(T, a, T.left[b])
         IN  [arrays |-> Pull([s.arrays EXCEPT !.left[b] = s.root], b), root |-> b]

RECURSIVE Erase(_, _, _)
Erase(T, t, x) ==
    IF t = x THEN Merge(T, T.left[t], T.right[t])
    ELSE IF NodeBefore(T, x, t)
    THEN LET s == Erase(T, T.left[t], x)
         IN  [arrays |-> Pull([s.arrays EXCEPT !.left[t] = s.root], t), root |-> t]
    ELSE LET s == Erase(T, T.right[t], x)
         IN  [arrays |-> Pull([s.arrays EXCEPT !.right[t] = s.root], t), root |-> t]

-----------------------------------------------------------------------------
(* The queries walk down from the root *)

\* the best node with r < limit, starting from node t with result res
RECURSIVE BestBelowFrom(_, _, _)
BestBelowFrom(t, limit, res) ==
    IF t = None THEN res
    ELSE IF arrays.r[t] >= limit THEN BestBelowFrom(arrays.left[t], limit, res)
    ELSE LET here == BetterOf(arrays, res, t) IN
         BestBelowFrom(arrays.right[t], limit,
                       IF arrays.left[t] = None THEN here
                       ELSE BetterOf(arrays, here, arrays.best[arrays.left[t]]))
BestBelow(limit) == BestBelowFrom(root, limit, None)

RECURSIVE BestAtOrAboveFrom(_, _, _)
BestAtOrAboveFrom(t, limit, res) ==
    IF t = None THEN res
    ELSE IF arrays.r[t] < limit THEN BestAtOrAboveFrom(arrays.right[t], limit, res)
    ELSE LET here == BetterOf(arrays, res, t) IN
         BestAtOrAboveFrom(arrays.left[t], limit,
                           IF arrays.right[t] = None THEN here
                           ELSE BetterOf(arrays, here, arrays.best[arrays.right[t]]))
BestAtOrAbove(limit) == BestAtOrAboveFrom(root, limit, None)

RECURSIVE MaxRBelowFrom(_, _, _)
MaxRBelowFrom(t, limit, ans) ==
    IF t = None THEN ans
    ELSE IF arrays.r[t] < limit THEN MaxRBelowFrom(arrays.right[t], limit, arrays.r[t])
    ELSE MaxRBelowFrom(arrays.left[t], limit, ans)
MaxRBelow(limit) == MaxRBelowFrom(root, limit, -1)

RECURSIVE MaxRFrom(_)
MaxRFrom(t) == IF arrays.right[t] = None THEN arrays.r[t] ELSE MaxRFrom(arrays.right[t])
MaxR == MaxRFrom(root)

-----------------------------------------------------------------------------

RECURSIVE Subtree(_)
Subtree(t) ==
    IF t = None THEN {} ELSE {t} \cup Subtree(arrays.left[t]) \cup Subtree(arrays.right[t])
Linked == Subtree(root)

\* enqueue p: its keys and links are set, then it is inserted
\* mutant: the links of its last stay are kept
ReenteredAsIs(p) == [arrays EXCEPT !.best[p] = p]
Reentered(p) == [arrays EXCEPT !.left[p] = None, !.right[p] = None, !.best[p] = p]
Enqueue(p) ==
    /\ p \notin Linked
    /\ \E k \in KeyPairs :
        LET s == Insert([Reentered(p) EXCEPT !.r[p] = k[1], !.base[p] = k[2]], root, p)
        IN  arrays' = s.arrays /\ root' = s.root

\* next_slice takes a process out of the tree
Remove(p) ==
    /\ p \in Linked
    /\ LET s == Erase(arrays, root, p) IN arrays' = s.arrays /\ root' = s.root

Next == \E p \in Procs : Enqueue(p) \/ Remove(p)

-----------------------------------------------------------------------------

\* the least of S in the order of the decisions
BestOf(S) == IF S = {} THEN None ELSE CHOOSE x \in S : \A y \in S \ {x} : KeyLess(arrays, x, y)
GreatestR(S) == IF S = {} THEN -1 ELSE CHOOSE k \in {arrays.r[p] : p \in S} : \A p \in S : arrays.r[p] <= k

(* The tree is a search tree and a heap whose nodes know the best of their *)
(* subtree, and so every query answers what the set of the linked          *)
(* processes determines, for every threshold (priority.c:27-30).           *)
TreapExact ==
    /\ \A t \in Linked :
        /\ \A x \in Subtree(arrays.left[t]) : NodeBefore(arrays, x, t) /\ HeapPrio[x] <= HeapPrio[t]
        /\ \A x \in Subtree(arrays.right[t]) : NodeBefore(arrays, t, x) /\ HeapPrio[x] <= HeapPrio[t]
        /\ arrays.best[t] = BestOf(Subtree(t))
    /\ \A limit \in UNION {{k[1], k[1] + 1} : k \in KeyPairs} :
        /\ BestBelow(limit) = BestOf({p \in Linked : arrays.r[p] < limit})
        /\ BestAtOrAbove(limit) = BestOf({p \in Linked : arrays.r[p] >= limit})
        /\ MaxRBelow(limit) = GreatestR({p \in Linked : arrays.r[p] < limit})
    /\ root # None => MaxR = GreatestR(Linked)
=============================================================================
