----------------------------- MODULE RoundRobin -----------------------------
(***************************************************************************)
(* Round Robin (src/src/policies/rr.c): one FIFO of ready processes and a  *)
(* fixed quantum.  Not re-decided on ready: PreemptOnReady is FALSE.       *)
(***************************************************************************)
EXTENDS Engine

CONSTANT Quantum   \* PolicyParams.quantum, positive

VARIABLE queue     \* Rr.ready

vars == <<engineVars, queue>>

Init == EngineInit /\ queue = <<>>

Enqueued(p) == Append(queue, p)
\* mutant: an interrupted process keeps its turn
RequeuedAtFront(p) == <<p>> \o queue
\* mutant: a preempted process is dropped
RequeuedNowhere(p) == queue
Requeued(p) == Append(queue, p)

Arrive(p) == Admit(p) /\ queue' = Enqueued(p)
BecomeReady(p) == WakeUp(p) /\ queue' = Enqueued(p)
SliceCompletes(c) == Complete(c) /\ UNCHANGED queue
SliceBlocks(c) == Block(c) /\ UNCHANGED queue
SlicePreempted(c) == Preempt(c) /\ queue' = Requeued(core[c].proc)

NextSlice ==
    /\ queue # <<>> /\ Pick(Slice(Head(queue), Quantum, NoDeadline))
    /\ queue' = Tail(queue)
StopPicking == PicksDone /\ (WantsPick => queue = <<>>) /\ UNCHANGED queue

Next ==
    \/ \E p \in Procs : Arrive(p) \/ BecomeReady(p)
    \/ \E c \in Cores : SliceCompletes(c) \/ SliceBlocks(c) \/ SlicePreempted(c)
    \/ NextSlice \/ StopPicking
    \/ EngineStep /\ UNCHANGED queue

-----------------------------------------------------------------------------

(* While a process that has arrived waits for its first turn, no other     *)
(* process gets more than one quantum of CPU: those queued ahead have one  *)
(* slice, and one preempted at or after the arrival queues behind          *)
(* (rr.c:1-4), I/O or not.                                                 *)
BoundedBypass ==
    \A q \in ToSet(queue) : outcome[q].start < 0 =>
        \A p \in Procs : Cardinality({t \in RunTicks(p) : t >= w.arrival[q]}) <= Quantum
=============================================================================
