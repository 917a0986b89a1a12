------------------------------- MODULE Lottery ------------------------------
(***************************************************************************)
(* Lottery scheduling (src/src/policies/lottery.c): a ticket is drawn for  *)
(* every slice.  The ready processes exist only as tickets in a Fenwick    *)
(* tree over the ranks of the pids.  The generator's outputs are chosen    *)
(* nondeterministically; PreemptOnReady is FALSE.                          *)
(***************************************************************************)
EXTENDS Engine

CONSTANTS
    Quantum,   \* PolicyParams.quantum, positive
    Word       \* 2^64, scaled down: the generator yields 0..Word-1

VARIABLES
    tree,      \* Lottery.tree: tickets of ready processes over 1-based ranks
    total      \* tickets of all ready processes

lotteryVars == <<tree, total>>
vars == <<engineVars, lotteryVars>>

N == Cardinality(Procs)
ByRank == SetToSortSeq(Procs, <)                      \* rank (1-based) -> process
RankOf(p) == CHOOSE i \in 1..N : ByRank[i] = p

PowersOfTwo == {2^k : k \in 0..N}
\* i & (0 - i)
LowBit(i) == Max({s \in PowersOfTwo : i % s = 0})
\* the nodes the loop of fenwick_add visits from i on
NodesFrom[i \in 1..N] ==
    {i} \cup IF i + LowBit(i) <= N THEN NodesFrom[i + LowBit(i)] ELSE {}
Added(p, delta) == [i \in 1..N |-> tree[i] + (IF i \in NodesFrom[RankOf(p)] THEN delta ELSE 0)]

\* fenwick_find: the rank of the owner of ticket r
\* mutant: the first ticket of a process counts for the one before
DescendStrictly(at, step) ==
    IF at.pos + step <= N /\ tree[at.pos + step] < at.left
    THEN [pos |-> at.pos + step, left |-> at.left - tree[at.pos + step]] ELSE at
Descend(at, step) ==
    IF at.pos + step <= N /\ tree[at.pos + step] <= at.left
    THEN [pos |-> at.pos + step, left |-> at.left - tree[at.pos + step]] ELSE at
Steps == Reverse(SetToSortSeq({s \in PowersOfTwo : s <= N}, <))
Find(r) == FoldLeft(Descend, [pos |-> 0, left |-> r], Steps).pos + 1

\* draw_below: outputs below 2^64 mod bound are discarded
Accepted(bound) == {x \in 0..(Word - 1) : x >= (Word - bound) % bound}
WinnerOf(x) == ByRank[Find(x % total)]

Init == EngineInit /\ tree = [i \in 1..N |-> 0] /\ total = 0

Enqueue(p) == tree' = Added(p, w.tickets[p]) /\ total' = total + w.tickets[p]

Arrive(p) == Admit(p) /\ Enqueue(p)
BecomeReady(p) == WakeUp(p) /\ Enqueue(p)
SliceCompletes(c) == Complete(c) /\ UNCHANGED lotteryVars
SliceBlocks(c) == Block(c) /\ UNCHANGED lotteryVars
SlicePreempted(c) == Preempt(c) /\ Enqueue(core[c].proc)

NextSlice ==
    /\ total # 0
    /\ \E p \in {WinnerOf(x) : x \in Accepted(total)} :
        /\ Pick(Slice(p, Quantum, NoDeadline))
        /\ tree' = Added(p, -w.tickets[p]) /\ total' = total - w.tickets[p]
StopPicking == PicksDone /\ (WantsPick => total = 0) /\ UNCHANGED lotteryVars

Next ==
    \/ \E p \in Procs : Arrive(p) \/ BecomeReady(p)
    \/ \E c \in Cores : SliceCompletes(c) \/ SliceBlocks(c) \/ SlicePreempted(c)
    \/ NextSlice \/ StopPicking
    \/ EngineStep /\ UNCHANGED lotteryVars

-----------------------------------------------------------------------------

\* the tickets that are in the tree, by process
Prefix[i \in 0..N] == IF i = 0 THEN 0 ELSE tree[i] + Prefix[i - LowBit(i)]
Ready == {p \in Procs : Prefix[RankOf(p)] > Prefix[RankOf(p) - 1]}

(* Each draw is fair: of the outputs the generator may give, a ready       *)
(* process wins exactly the share its tickets are of all ready tickets,    *)
(* whatever came and went before (lottery.c:3-6, 9-13).                    *)
FairDraw ==
    /\ total = MapThenSumSet(LAMBDA p : w.tickets[p], Ready)
    /\ total > 0 => \A p \in Procs :
         Cardinality({x \in Accepted(total) : WinnerOf(x) = p}) * total
             = Cardinality(Accepted(total)) * (IF p \in Ready THEN w.tickets[p] ELSE 0)
=============================================================================
