-------------------------------- MODULE OptNp --------------------------------
(***************************************************************************)
(* The offline baseline opt-np (src/src/policies/optnp.c): create computes *)
(* an order of the jobs by branch and bound, and the run follows it,       *)
(* leaving the core idle until the next job of the order has arrived.      *)
(* There is no on_preempt hook.                                            *)
(***************************************************************************)
EXTENDS Engine

CONSTANTS
    MaxJobs,   \* OPT_NP_MAX
    MaxNodes   \* how many nodes the memo gets memory for

VARIABLES
    order,     \* OptNp.order
    pos,       \* OptNp.pos: how many jobs of order have been picked
    arrived    \* OptNp.arrived

optVars == <<order, pos, arrived>>
vars == <<engineVars, optVars>>

Init == EngineInit /\ order = <<>> /\ pos = 0 /\ arrived = {}

N == Cardinality(Procs)
Job(p) == w.phases[p][1]

-----------------------------------------------------------------------------
(* The search: jobs in `left' are still to be scheduled, from time t on *)

\* the completion of j if it comes next
DoneAt(t, j) == Max({t, w.arrival[j]}) + Job(j)

\* the first in (key, arrival, pid) order
FirstBy(S, key) ==
    CHOOSE p \in S : \A q \in S \ {p} :
        \/ key[p] < key[q]
        \/ key[p] = key[q] /\ w.arrival[p] < w.arrival[q]
        \/ key[p] = key[q] /\ w.arrival[p] = w.arrival[q] /\ p < q

\* srpt_bound: the total turnaround of the preemptive optimum, where job p has
\* rem[p] ticks left at time t
Remaining == [Procs -> Nat]
SrptBound[rem \in Remaining, t \in Nat] ==
    LET unfinished == {p \in Procs : rem[p] > 0}
        released == {p \in unfinished : w.arrival[p] <= t}
        later == {w.arrival[p] : p \in unfinished \ released} IN
    CASE unfinished = {} -> 0
      [] unfinished # {} /\ released = {} -> SrptBound[rem, Min(later)]
      [] OTHER ->
            LET b == CHOOSE p \in released : IsFirst(p, released, rem)
                run == Min({rem[b]} \cup {r - t : r \in later})
            IN  (IF run = rem[b] THEN t + run - w.arrival[b] ELSE 0)
                + SrptBound[[rem EXCEPT ![b] = @ - run], t + run]

\* the memo: partial schedules as <<jobs left, time, total turnaround>>
Dominated(memo, left, t, sum) ==
    \E m \in memo : m[1] = left /\ m[2] <= t /\ m[3] <= sum
Recorded(memo, left, t, sum) ==
    IF Cardinality(memo) >= MaxNodes THEN memo ELSE memo \cup {<<left, t, sum>>}

\* waiting for j is pointless: some ready job fits before it arrives
\* mutant: any ready job makes the wait pointless
GapFillableByAny(left, t, j) ==
    w.arrival[j] > t /\ \E k \in left \ {j} : w.arrival[k] <= t
GapFillable(left, t, j) ==
    \E k \in left \ {j} : w.arrival[k] <= t /\ Job(k) <= w.arrival[j] - t

\* in (completion, arrival, pid) order
Candidates(left, t) ==
    SetToSortSeq({j \in left : ~GapFillable(left, t, j)},
        LAMBDA i, j : i # j /\ i = FirstBy({i, j}, [k \in {i, j} |-> DoneAt(t, k)]))

\* search: s holds the best total, its order and the memo; `done' is the order
\* tried so far, which completes at t with total turnaround sum
SearchStates ==
    [best : Nat, order : Seq(Procs), memo : SUBSET ((SUBSET Procs) \X Nat \X Nat)]
Search[s \in SearchStates, done \in Seq(Procs), t \in Nat, sum \in Nat] ==
    LET left == Procs \ ToSet(done)
        bound == SrptBound[[p \in Procs |-> IF p \in left THEN Job(p) ELSE 0], t]
        next == [s EXCEPT !.memo = Recorded(@, left, t, sum)] IN
    CASE left = {} -> IF sum < s.best THEN [s EXCEPT !.best = sum, !.order = done] ELSE s
      [] left # {} /\ (sum + bound >= s.best \/ Dominated(s.memo, left, t, sum)) -> s
      [] OTHER ->
            FoldLeft(LAMBDA a, j : Search[a, Append(done, j), DoneAt(t, j),
                                         sum + DoneAt(t, j) - w.arrival[j]],
                     next, Candidates(left, t))

\* order_total: the total turnaround of order o, run as early as possible from t on
TotalFrom[o \in Seq(Procs), t \in Nat] ==
    IF o = <<>> THEN 0
    ELSE DoneAt(t, Head(o)) - w.arrival[Head(o)] + TotalFrom[Tail(o), DoneAt(t, Head(o))]
OrderTotal(o) == TotalFrom[o, 0]

\* greedy: the order that always takes the least key of the released jobs
Greedy(key) ==
    LET From[left \in SUBSET Procs, t \in Nat] ==
            LET at == Max({t, Min({w.arrival[p] : p \in left})})
                j == FirstBy({p \in left : w.arrival[p] <= at}, key)
            IN  IF left = {} THEN <<>> ELSE <<j>> \o From[left \ {j}, at + Job(j)]
    IN  From[Procs, 0]

\* the better of the FCFS and SJF orders bounds the search
FirstBound ==
    LET fcfs == Greedy(w.arrival)
        sjf == Greedy([p \in Procs |-> Job(p)])
        o == IF OrderTotal(sjf) <= OrderTotal(fcfs) THEN sjf ELSE fcfs
    IN  [best |-> OrderTotal(o), order |-> o, memo |-> {}]
BestOrder == Search[FirstBound, <<>>, 0, 0].order

-----------------------------------------------------------------------------
(* The hooks *)

\* optnp_create refuses what the search does not cover
Supported ==
    N <= MaxJobs /\ NumCores = 1 /\ CsCost = 0 /\ \A p \in Procs : Len(w.phases[p]) = 1
CreatePlan == Create /\ Supported /\ order' = BestOrder /\ UNCHANGED <<pos, arrived>>
Refuse ==
    /\ stage = "create" /\ OptionsAccepted /\ ~Supported
    /\ stage' = "done" /\ status' = "usage"
    /\ UNCHANGED <<w, now, pending, blocked, procVars, core, picks, cause, outcome, log,
                   switches, csTime, closed, optVars>>

Arrive(p) == Admit(p) /\ arrived' = arrived \cup {p} /\ UNCHANGED <<order, pos>>
SliceCompletes(c) == Complete(c) /\ UNCHANGED optVars

\* mutant: does not wait for the arrival
NextArrivedUnchecked == pos < N
NextArrived == pos < N /\ order[pos + 1] \in arrived
NextSlice ==
    /\ WantsPick /\ NextArrived
    /\ Pick(Slice(order[pos + 1], remaining[order[pos + 1]], NoDeadline))
    /\ pos' = pos + 1 /\ UNCHANGED <<order, arrived>>
StopPicking == PicksDone /\ (WantsPick => ~NextArrived) /\ UNCHANGED optVars

Next ==
    \/ CreatePlan \/ Refuse
    \/ \E p \in Procs : Arrive(p)
    \/ \E c \in Cores : SliceCompletes(c)
    \/ NextSlice \/ StopPicking
    \/ EngineStep /\ (stage = "create" => stage' = "done") /\ UNCHANGED optVars

-----------------------------------------------------------------------------

\* what opt-np implements: a policy that may leave the core idle
Abstract == INSTANCE AnyPolicy WITH
    Preemptive <- FALSE, WorkConserving <- FALSE, SliceLengths <- {}, DeadlineGaps <- {},
    MayRunOutOfMemory <- TRUE,
    ready <- {p \in arrived : \A i \in 1..pos : order[i] # p}

Permutation(o) == IsInjective(o)

(* The schedule has the least total turnaround of all non-preemptive       *)
(* schedules, those that idle on purpose included, in spite of the pruning *)
(* by bound, dominance and gaps, even when the memo is full                *)
(* (docs/model.md, "Optimality"; optnp.c:1-22).                            *)
OptNpOptimal ==
    status = "ok" =>
        LET total == MapThenSumSet(LAMBDA p : outcome[p].completion - w.arrival[p], Procs) IN
        \A o \in {s \in [1..N -> Procs] : Permutation(s)} : total <= OrderTotal(o)
=============================================================================
