--------------------------- MODULE ShortestFirst ----------------------------
(***************************************************************************)
(* SJF (src/src/policies/sjf.c) and its preemptive form SRTF               *)
(* (src/src/policies/srtf.c), which differ in the key of the heap of ready *)
(* processes and in being re-decided when a process becomes ready.  The    *)
(* heap is a set here: what heap_pop returns is its least element.         *)
(***************************************************************************)
EXTENDS Engine

\* SRTF if PreemptOnReady, SJF otherwise
Srtf == PreemptOnReady

VARIABLE ready     \* Sjf.ready, Srtf.ready

vars == <<engineVars, ready>>

Init == EngineInit /\ ready = {}

\* sched_expected_burst: the prediction, or the true burst under the oracle
ExpectedBurst(p) == IF Ewma THEN predicted[p] ELSE BurstLen(p)
\* the expected remaining time, never below zero
\* mutant: counts the time since the first run, not the ticks run
ExpectedRemainingByClock(p) ==
    ExpectedBurst(p) - (IF outcome[p].start < 0 THEN 0 ELSE now - outcome[p].start)
ExpectedRemaining(p) ==
    LET ran == BurstLen(p) - remaining[p] IN
    IF ran > ExpectedBurst(p) THEN 0 ELSE ExpectedBurst(p) - ran

\* mutant: SRTF ranks by the whole burst
KeyOfWholeBurst(p) == ExpectedBurst(p)
Key(p) == IF Srtf THEN ExpectedRemaining(p) ELSE ExpectedBurst(p)

\* sjf_less, srtf_less
\* mutant: the comparison of the keys is lost
LessFifo(p, q) == w.arrival[p] < w.arrival[q] \/ (w.arrival[p] = w.arrival[q] /\ p < q)
Less(p, q) ==
    \/ Key(p) < Key(q)
    \/ Key(p) = Key(q) /\ w.arrival[p] < w.arrival[q]
    \/ Key(p) = Key(q) /\ w.arrival[p] = w.arrival[q] /\ p < q

Least(S) == CHOOSE p \in S : \A q \in S \ {p} : Less(p, q)

Arrive(p) == Admit(p) /\ ready' = ready \cup {p}
BecomeReady(p) == WakeUp(p) /\ ready' = ready \cup {p}
SliceCompletes(c) == Complete(c) /\ UNCHANGED ready
SliceBlocks(c) == Block(c) /\ UNCHANGED ready
SlicePreempted(c) == Srtf /\ Preempt(c) /\ ready' = ready \cup {core[c].proc}

LengthOf(p) == remaining[p]
NextSlice ==
    /\ ready # {}
    /\ LET p == Least(ready) IN
        Pick(Slice(p, LengthOf(p), NoDeadline)) /\ ready' = ready \ {p}
StopPicking == PicksDone /\ (WantsPick => ready = {}) /\ UNCHANGED ready

Next ==
    \/ \E p \in Procs : Arrive(p) \/ BecomeReady(p)
    \/ \E c \in Cores : SliceCompletes(c) \/ SliceBlocks(c) \/ SlicePreempted(c)
    \/ NextSlice \/ StopPicking
    \/ EngineStep /\ UNCHANGED ready

-----------------------------------------------------------------------------

\* a step changes no key of a process that stays in the heap
KeysKept == \A p \in ready \cap ready' : Key(p)' = Key(p)

\* the key of the process on core c now, in the middle of its slice
RunningKey(c) ==
    LET ran == BurstLen(core[c].proc) - remaining[core[c].proc] + now - core[c].runStart IN
    IF ran > ExpectedBurst(core[c].proc) THEN 0 ELSE ExpectedBurst(core[c].proc) - ran

(* With free switches the processes SRTF runs are at all times the best N: *)
(* no waiting process has a smaller expected remaining time than a running *)
(* one (docs/model.md, "Multiple cores"), though keys of running processes *)
(* shrink and the set is re-chosen only when something becomes ready.      *)
BestAreRunning ==
    Srtf /\ CsCost = 0 /\ stage = "advance" =>
        \A c \in Running, p \in ready :
            /\ RunningKey(c) <= ExpectedRemaining(p)
            /\ FreeCores = {}

-----------------------------------------------------------------------------
(* Optimality, for one core without I/O or switch costs *)

Classical ==
    /\ NumCores = 1 /\ CsCost = 0 /\ ~Ewma /\ status = "ok"
    /\ \A p \in Procs : Len(w.phases[p]) = 1

TotalCompletion == MapThenSumSet(LAMBDA p : outcome[p].completion, Procs)

\* the least sum of completions of any preemptive schedule that has left[p]
\* ticks to run at time t, by exhaustive search
LeastFrom[t \in 0..MaxTime, left \in [Procs -> 0..MaxTime]] ==
    LET able == {p \in Procs : w.arrival[p] <= t /\ left[p] > 0} IN
    CASE \A p \in Procs : left[p] = 0 -> 0
      [] able = {} /\ (\E p \in Procs : left[p] > 0) -> LeastFrom[t + 1, left]
      [] OTHER ->
            Min({(IF left[p] = 1 THEN t + 1 ELSE 0)
                 + LeastFrom[t + 1, [left EXCEPT ![p] = @ - 1]] : p \in able})

(* SRTF minimises mean turnaround over all preemptive schedules            *)
(* (docs/model.md, "Optimality").                                          *)
SrtfOptimal ==
    Srtf /\ Classical =>
        TotalCompletion = LeastFrom[0, [p \in Procs |-> w.phases[p][1]]]

Orders == {f \in [Procs -> 1..Cardinality(Procs)] : IsInjective(f)}
\* the sum of completions when the bursts run back to back in order f
TotalOf(f) ==
    MapThenSumSet(LAMBDA p : now - MapThenSumSet(LAMBDA q : w.phases[q][1],
                                                 {q \in Procs : f[q] > f[p]}), Procs)

(* SJF is optimal among non-preemptive schedules when all processes arrive *)
(* together (docs/model.md, "Optimality").                                 *)
SjfOptimal ==
    ~Srtf /\ Classical /\ (\A p, q \in Procs : w.arrival[p] = w.arrival[q]) =>
        \A f \in Orders : TotalCompletion <= TotalOf(f)
=============================================================================
