-------------------------------- MODULE Fcfs --------------------------------
(***************************************************************************)
(* First-Come First-Served (src/src/policies/fcfs.c): one FIFO, every CPU  *)
(* burst runs to its end.  There is no on_preempt hook.                    *)
(***************************************************************************)
EXTENDS Engine

VARIABLE queue     \* Fcfs.ready

vars == <<engineVars, queue>>

Init == EngineInit /\ queue = <<>>

\* mutant: a wake-up jumps the queue
EnqueuedFirst(p) == IF outcome[p].start < 0 THEN Append(queue, p) ELSE <<p>> \o queue
Enqueued(p) == Append(queue, p)

Arrive(p) == Admit(p) /\ queue' = Enqueued(p)
BecomeReady(p) == WakeUp(p) /\ queue' = Enqueued(p)
SliceCompletes(c) == Complete(c) /\ UNCHANGED queue
SliceBlocks(c) == Block(c) /\ UNCHANGED queue

\* mutant: asks for one tick at a time
LengthOfOne(p) == 1
LengthOf(p) == remaining[p]
NextSlice ==
    /\ queue # <<>> /\ Pick(Slice(Head(queue), LengthOf(Head(queue)), NoDeadline))
    /\ queue' = Tail(queue)
StopPicking == PicksDone /\ (WantsPick => queue = <<>>) /\ UNCHANGED queue

Next ==
    \/ \E p \in Procs : Arrive(p) \/ BecomeReady(p)
    \/ \E c \in Cores : SliceCompletes(c) \/ SliceBlocks(c)
    \/ NextSlice \/ StopPicking
    \/ EngineStep /\ UNCHANGED queue

-----------------------------------------------------------------------------

\* when p entered the ready set the last time: it arrived, or its last I/O ended
ReadySince(p) == IF phase[p] = 1 THEN w.arrival[p] ELSE wake[p]

(* Turns go strictly by (time of becoming ready, arrivals first, pid)      *)
(* (fcfs.c:1-3): no process is dispatched, and none waits, ahead of one    *)
(* that became ready before it, I/O and simultaneous events included.      *)
BecameReadyFirst(p, q) ==
    \/ ReadySince(p) < ReadySince(q)
    \/ ReadySince(p) = ReadySince(q) /\ phase[p] = 1 /\ phase[q] > 1
    \/ ReadySince(p) = ReadySince(q) /\ (phase[p] = 1 <=> phase[q] = 1) /\ p < q

InOrderOfReadiness ==
    /\ \A i, j \in DOMAIN queue : i < j => BecameReadyFirst(queue[i], queue[j])
    /\ \A p \in Picked, q \in ToSet(queue) : BecameReadyFirst(p, q)
    /\ stage = "advance" =>
         \A p \in OnCore, q \in ToSet(queue) : BecameReadyFirst(p, q)
=============================================================================
