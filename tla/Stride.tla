------------------------------- MODULE Stride -------------------------------
(***************************************************************************)
(* Stride scheduling (src/src/policies/stride.c): the ready process with   *)
(* the smallest pass runs for a quantum and pays for the ticks it ran.     *)
(* The heap of ready processes is a set.  PreemptOnReady is FALSE.         *)
(***************************************************************************)
EXTENDS Engine

CONSTANTS
    Quantum,   \* PolicyParams.quantum, positive
    Stride1    \* STRIDE1 (2^20), scaled down like MaxTime

VARIABLES
    ready,     \* Stride.ready
    pass,      \* Stride.pass
    vtime      \* the pass of the process dispatched last

strideVars == <<ready, pass, vtime>>
vars == <<engineVars, strideVars>>

StrideOf(p) == Stride1 \div w.tickets[p]

\* stride_less
Less(p, q) == pass[p] < pass[q] \/ (pass[p] = pass[q] /\ p < q)
Least == CHOOSE p \in ready : \A q \in ready \ {p} : Less(p, q)

Init == EngineInit /\ ready = {} /\ pass = [p \in Procs |-> 0] /\ vtime = 0

\* stride_create refuses a workload whose passes could overflow
CpuOf(p) == SumFunctionOnSet(w.phases[p], {k \in DOMAIN w.phases[p] : IsOdd(k)})
PassesFit == SumFunctionOnSet([p \in Procs |-> CpuOf(p)], Procs) <= MaxTime \div Stride1
Refuse ==
    /\ stage = "create" /\ OptionsAccepted /\ ~PassesFit
    /\ stage' = "done" /\ status' = "usage"
    /\ UNCHANGED <<w, now, pending, blocked, procVars, core, picks, cause, outcome, log,
                   switches, csTime, closed, strideVars>>

Push(p, pass_) == ready' = ready \cup {p} /\ pass' = [pass EXCEPT ![p] = pass_]

\* the pass of p after it ran for the slice that ends on c
\* mutant: a full quantum is charged whatever the slice ran
ChargedQuantum(p, c) == pass[p] + StrideOf(p) * Quantum
Charged(p, c) == pass[p] + StrideOf(p) * Ran(c)

\* mutant: a new process starts with the pass zero
JoiningAtZero(p) == 0
Joining(p) == vtime
Rejoining(p) == IF pass[p] < vtime THEN vtime ELSE pass[p]

Arrive(p) == Admit(p) /\ Push(p, Joining(p)) /\ UNCHANGED vtime
BecomeReady(p) == WakeUp(p) /\ Push(p, Rejoining(p)) /\ UNCHANGED vtime
SlicePreempted(c) ==
    Preempt(c) /\ Push(core[c].proc, Charged(core[c].proc, c)) /\ UNCHANGED vtime
SliceEndsBurst(c) ==
    /\ Complete(c) \/ Block(c)
    /\ pass' = [pass EXCEPT ![core[c].proc] = Charged(core[c].proc, c)]
    /\ UNCHANGED <<ready, vtime>>

NextSlice ==
    /\ ready # {} /\ Pick(Slice(Least, Quantum, NoDeadline))
    /\ ready' = ready \ {Least} /\ vtime' = pass[Least] /\ UNCHANGED pass
StopPicking == PicksDone /\ (WantsPick => ready = {}) /\ UNCHANGED strideVars

Next ==
    \/ Refuse
    \/ \E p \in Procs : Arrive(p) \/ BecomeReady(p)
    \/ \E c \in Cores : SliceEndsBurst(c) \/ SlicePreempted(c)
    \/ NextSlice \/ StopPicking
    \/ (stage = "create" /\ OptionsAccepted => PassesFit) /\ EngineStep /\ UNCHANGED strideVars

-----------------------------------------------------------------------------

(* "pass never exceeds STRIDE1 * (total CPU time)" (stride.c:37): although *)
(* a joining process inherits the pass of another, no pass exceeds STRIDE1 *)
(* for each tick run so far, and therefore none overflows.                 *)
PassBounded ==
    /\ \A p \in Procs : pass[p] <= MaxTime
    /\ log.fail = "ok" => \A p \in Procs :
            pass[p] <= Stride1 * SumFunctionOnSet([q \in Procs |-> Cardinality(TicksOf(q, "run"))],
                                                  Procs)

\* p and q have been ready or running ever since both had arrived
Compete(p, q) == {p, q} \subseteq ready /\ phase[p] = 1 /\ phase[q] = 1
Since(p, q) == IF w.arrival[p] < w.arrival[q] THEN w.arrival[q] ELSE w.arrival[p]
\* stride times the ticks run from t on
Paid(p, t) == StrideOf(p) * Cardinality({u \in TicksOf(p, "run") : u >= t})

(* Proportional share, on one core: two processes that compete for the CPU *)
(* get CPU time in proportion to their tickets, up to one quantum of each, *)
(* from the moment the later one joins: it neither catches up on the time  *)
(* before it arrived nor waits for the others' start (stride.c:8-10).      *)
ProportionalShare ==
    NumCores = 1 => \A p, q \in Procs :
        p # q /\ Compete(p, q) =>
            Paid(p, Since(p, q)) - Paid(q, Since(p, q)) <= (StrideOf(p) + StrideOf(q)) * Quantum
=============================================================================
