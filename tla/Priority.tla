------------------------------ MODULE Priority ------------------------------
(***************************************************************************)
(* Priority scheduling with aging (src/src/policies/priority.c):           *)
(* preemptive (prio-p) if PreemptOnReady, otherwise prio.  The treap of    *)
(* ready processes is a set here (see Treap); base (A in the code) and r   *)
(* are the keys its nodes carry, from which every decision is taken.       *)
(***************************************************************************)
EXTENDS Engine

CONSTANTS
    Aging,         \* PolicyParams.aging: K; 0 = off
    PriorityLimit  \* int64_t scaled down: -PriorityLimit-1 .. PriorityLimit

VARIABLES
    ready,       \* the nodes of the treap
    waited,      \* ready time accumulated in the current burst
    readySince,  \* when the process last entered the ready set
    base, r      \* per process: A = priority - floor(c / K), and c mod K

prioVars == <<ready, waited, readySince, base, r>>
vars == <<engineVars, prioVars>>

\* sat_sub: a - b in the range of the type
SatSub(a, b) ==
    CASE a - b > PriorityLimit -> PriorityLimit
      [] a - b < -PriorityLimit - 1 -> -PriorityLimit - 1
      [] OTHER -> a - b

Init ==
    /\ EngineInit /\ ready = {}
    /\ waited = [p \in Procs |-> 0] /\ readySince = [p \in Procs |-> 0]
    /\ base = [p \in Procs |-> 0] /\ r = [p \in Procs |-> 0]

-----------------------------------------------------------------------------
(* Ordering *)

\* key_less: (base - bump, arrival, pid) of x is smaller than that of y
KeyLess(x, bumpX, y, bumpY) ==
    LET ex == SatSub(base[x], bumpX)
        ey == SatSub(base[y], bumpY)
    IN  \/ ex < ey
        \/ ex = ey /\ w.arrival[x] < w.arrival[y]
        \/ ex = ey /\ w.arrival[x] = w.arrival[y] /\ x < y

\* best, best_below, best_at_or_above: the least node of a part of the treap
BestOf(S) == CHOOSE x \in S : \A y \in S \ {x} : KeyLess(x, 0, y, 0)

\* r >= Limit: one aging level more than the rest
Limit == Aging - (now % Aging)
Low(S) == {p \in S : r[p] < Limit}
High(S) == {p \in S : r[p] >= Limit}

\* mutant: ranks by the keys alone
ChosenIgnoringLevel == BestOf(ready)
Chosen ==
    IF Aging = 0 THEN BestOf(ready)
    ELSE IF Low(ready) = {} THEN BestOf(High(ready))
    ELSE IF High(ready) = {} THEN BestOf(Low(ready))
    ELSE IF KeyLess(BestOf(High(ready)), 1, BestOf(Low(ready)), 0)
         THEN BestOf(High(ready)) ELSE BestOf(Low(ready))

\* the next instant at which a process of S gains a level
\* mutant: a process that has just gained a level is not the exception
NextAgingUnwrapped(S) == now + Limit - Max({r[p] : p \in S})
\* mutant: late, a whole period from now whatever the residues are
NextAgingByPeriod(S) == now + Aging
NextAging(S) ==
    LET step == IF Low(S) # {} THEN Limit - Max({r[p] : p \in Low(S)})
                ELSE Aging - (Max({r[p] : p \in S}) - Limit)
    IN  IF now + step > MaxTime THEN NoDeadline ELSE now + step

-----------------------------------------------------------------------------
(* The hooks *)

\* enqueue p, which has waited wt ticks in this burst
Enqueue(p, wt) ==
    LET c == wt - now IN
    /\ ready' = ready \cup {p}
    /\ waited' = [waited EXCEPT ![p] = wt]
    /\ readySince' = [readySince EXCEPT ![p] = now]
    /\ r' = [r EXCEPT ![p] = IF Aging > 0 THEN c % Aging ELSE 0]
    /\ base' = [base EXCEPT ![p] = IF Aging > 0 THEN SatSub(w.priority[p], c \div Aging)
                                    ELSE w.priority[p]]

Arrive(p) == Admit(p) /\ Enqueue(p, 0)
BecomeReady(p) == WakeUp(p) /\ Enqueue(p, 0)
SliceCompletes(c) == Complete(c) /\ UNCHANGED prioVars
SliceBlocks(c) == Block(c) /\ UNCHANGED prioVars
SlicePreempted(c) ==
    PreemptOnReady /\ Preempt(c) /\ Enqueue(core[c].proc, waited[core[c].proc])

NextSlice ==
    /\ ready # {}
    /\ LET p == Chosen
           rest == ready \ {p}
           dl == IF PreemptOnReady /\ Aging > 0 /\ rest # {} THEN NextAging(rest) ELSE NoDeadline
       IN  /\ Pick(Slice(p, remaining[p], dl))
           /\ ready' = rest
           /\ waited' = [waited EXCEPT ![p] = @ + now - readySince[p]]
           /\ UNCHANGED <<readySince, base, r>>
StopPicking == PicksDone /\ (WantsPick => ready = {}) /\ UNCHANGED prioVars

Next ==
    \/ \E p \in Procs : Arrive(p) \/ BecomeReady(p)
    \/ \E c \in Cores : SliceCompletes(c) \/ SliceBlocks(c) \/ SlicePreempted(c)
    \/ NextSlice \/ StopPicking
    \/ EngineStep /\ UNCHANGED prioVars

-----------------------------------------------------------------------------

\* when the current CPU burst of p became ready
BurstReady(p) == IF phase[p] = 1 THEN w.arrival[p] ELSE wake[p]

\* "W is the time the process has spent in the ready set during its current
\* CPU burst" (docs/model.md, "Aging"), read off the schedule
ReadyTicks(p) ==
    Cardinality((BurstReady(p) .. (now - 1)) \ (RunTicks(p) \cup TicksOf(p, "cs")))

(* The definition, without the arithmetic on residues (priority.c:3-10):  *)
(* the effective priority of p once it has waited n ticks more             *)
Effective(p, n) ==
    w.priority[p] - (IF Aging > 0 THEN (ReadyTicks(p) + n) \div Aging ELSE 0)
\* p, which waits no longer, is better than q after n ticks more
EffectiveLess(p, q, n) ==
    \/ Effective(p, 0) < Effective(q, n)
    \/ Effective(p, 0) = Effective(q, n) /\ w.arrival[p] < w.arrival[q]
    \/ Effective(p, 0) = Effective(q, n) /\ w.arrival[p] = w.arrival[q] /\ p < q

(* The process chosen has the lowest effective priority of all that are    *)
(* ready, ties by (arrival, pid): the order by base and residue, kept up   *)
(* over several stays in the ready set, is the order by                    *)
(* priority - floor(W / K) (priority.c:18-31, docs/model.md).              *)
LowestEffectiveRuns ==
    \A i \in DOMAIN picks, q \in ready : EffectiveLess(picks[i].proc, q, 0)

(* With free switches prio-p runs the best N at every tick.  Waiting       *)
(* processes keep aging while nothing happens: none of them may become     *)
(* better than a running one at a tick t before the next event, so the     *)
(* aging instant that priority.c:300-313 puts into the slices must be      *)
(* among the events and must not be late.                                  *)
BestAreRunning ==
    PreemptOnReady /\ CsCost = 0 /\ stage = "advance" =>
        \A t \in now..MaxTime :
            (\A u \in EventTimes : t < u) =>
                \A c \in Running, p \in ready : EffectiveLess(core[c].proc, p, t - now)
=============================================================================
