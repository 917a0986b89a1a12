-------------------------------- MODULE Mlfq --------------------------------
(***************************************************************************)
(* Multi-Level Feedback Queue (src/src/policies/mlfq.c).  Levels are       *)
(* numbered from 1, the top.  Boosts are lazy, as in the code: the queues  *)
(* are concatenated by the first hook at or after the boost, and a job is  *)
(* reset when it is next looked at.                                        *)
(***************************************************************************)
EXTENDS Engine

CONSTANTS
    NumLevels,   \* PolicyParams.mlfq_levels
    Quanta,      \* time slice per level
    Allotments,  \* time allotment per level
    Boost        \* boost period; 0 = off

Levels == 1..NumLevels

VARIABLES
    epoch,   \* boosts applied so far
    queues,  \* head, tail, next and prev: the jobs of each level, in order
    job      \* level, used, slice_left and seen_epoch of each job

mlfqVars == <<epoch, queues, job>>
vars == <<engineVars, mlfqVars>>

-----------------------------------------------------------------------------
(* maybe_boost and sync: the epoch, queues and job a hook works on *)

CurrentEpoch == IF Boost > 0 THEN now \div Boost ELSE 0
Fresh(e) == [level |-> 1, used |-> 0, left |-> 0, seen |-> e]

\* mutant: the queues are not concatenated
BoostedForgotten == queues
Boosted ==
    IF CurrentEpoch = epoch THEN queues
    ELSE [l \in Levels |-> IF l = 1 THEN FlattenSeq(queues) ELSE <<>>]

WasReset(p) == job[p].seen # CurrentEpoch
Synced(p) == IF WasReset(p) THEN Fresh(CurrentEpoch) ELSE job[p]

PushBack(q, p, l) == [q EXCEPT ![l] = Append(@, p)]
PushFront(q, p, l) == [q EXCEPT ![l] = <<p>> \o @]

Init ==
    /\ EngineInit
    /\ epoch = CurrentEpoch
    /\ queues = [l \in Levels |-> <<>>]
    /\ job = [p \in Procs |-> Fresh(CurrentEpoch)]

-----------------------------------------------------------------------------
(* The hooks *)

\* mlfq_arrival
Arrive(p) ==
    /\ Admit(p)
    /\ epoch' = CurrentEpoch
    /\ job' = [job EXCEPT ![p] = Fresh(CurrentEpoch)]
    /\ queues' = PushBack(Boosted, p, 1)

\* mlfq_ready: a fresh slice at the back of the level the job had
BecomeReady(p) ==
    /\ WakeUp(p)
    /\ epoch' = CurrentEpoch
    /\ job' = [job EXCEPT ![p] = [Synced(p) EXCEPT !.left = 0]]
    /\ queues' = PushBack(Boosted, p, Synced(p).level)

\* charge: the job after running ran ticks
\* mutant: yielding before the slice expires keeps the allotment
ChargedPerSlice(j, ran) ==
    IF j.level < NumLevels /\ ran >= Allotments[j.level]
    THEN [j EXCEPT !.level = @ + 1, !.used = 0] ELSE [j EXCEPT !.used = @ + ran]
Charged(j, ran) ==
    IF j.level < NumLevels /\ j.used + ran >= Allotments[j.level]
    THEN [j EXCEPT !.level = @ + 1, !.used = 0] ELSE [j EXCEPT !.used = @ + ran]

SliceCompletes(c) == Complete(c) /\ UNCHANGED mlfqVars

\* mlfq_block
SliceBlocks(c) ==
    LET p == core[c].proc
        after == IF WasReset(p) THEN Synced(p) ELSE Charged(job[p], Ran(c))
    IN  /\ Block(c)
        /\ epoch' = CurrentEpoch /\ queues' = Boosted
        /\ job' = [job EXCEPT ![p] = [after EXCEPT !.left = 0]]

\* mlfq_preempt of a job whose slice was cut by a boost, is used up, or goes on
Requeued(q, p, before, after) ==
    IF after.level # before.level \/ after.left = 0
    THEN PushBack(q, p, after.level) ELSE PushFront(q, p, after.level)
SlicePreempted(c) ==
    LET p == core[c].proc
        before == [job[p] EXCEPT !.left = @ - Ran(c)]
        after == Charged(before, Ran(c))
    IN  /\ Preempt(c)
        /\ epoch' = CurrentEpoch
        /\ \/ /\ WasReset(p)
              /\ job' = [job EXCEPT ![p] = Synced(p)]
              /\ queues' = PushBack(Boosted, p, 1)
           \/ /\ ~WasReset(p)
              /\ job' = [job EXCEPT ![p] =
                           IF after.level # before.level THEN [after EXCEPT !.left = 0] ELSE after]
              /\ queues' = Requeued(Boosted, p, before, after)

\* mlfq_next_slice: the first job of the highest level that has one
\* mutant: the search starts at the bottom
LowestLevel == {l \in Levels : Boosted[l] # <<>> /\ \A k \in (l + 1)..NumLevels : Boosted[k] = <<>>}
HighestLevel == {l \in Levels : Boosted[l] # <<>> /\ \A k \in 1..(l - 1) : Boosted[k] = <<>>}
Grant(j, l) ==
    LET rest == IF j.left = 0 THEN Quanta[l] ELSE j.left IN
    IF l < NumLevels THEN Lesser(rest, Allotments[l] - j.used) ELSE rest
BoostDeadline ==
    IF Boost > 0 /\ CurrentEpoch < MaxTime \div Boost THEN (CurrentEpoch + 1) * Boost
    ELSE NoDeadline
NextSlice ==
    \E l \in HighestLevel :
        LET p == Head(Boosted[l])
            granted == Grant(Synced(p), l)
        IN  /\ Pick(Slice(p, granted, BoostDeadline))
            /\ epoch' = CurrentEpoch
            /\ queues' = [Boosted EXCEPT ![l] = Tail(@)]
            /\ job' = [job EXCEPT ![p] = [Synced(p) EXCEPT !.left = granted]]

\* next_slice boosts even when it finds no job
StopPicking ==
    /\ PicksDone
    /\ \/ ~WantsPick /\ UNCHANGED mlfqVars
       \/ WantsPick /\ HighestLevel = {} /\ epoch' = CurrentEpoch /\ queues' = Boosted
          /\ UNCHANGED job

Next ==
    \/ \E p \in Procs : Arrive(p) \/ BecomeReady(p)
    \/ \E c \in Cores : SliceCompletes(c) \/ SliceBlocks(c) \/ SlicePreempted(c)
    \/ NextSlice \/ StopPicking
    \/ EngineStep /\ UNCHANGED mlfqVars

-----------------------------------------------------------------------------

Queued == UNION {ToSet(queues[l]) : l \in Levels}

Jobs == [level : Levels, used : Nat, left : Nat, seen : Nat]

\* job[p] as it is once the boosts that the queues have seen are applied
Settled(p) == IF job[p].seen = epoch THEN job[p] ELSE Fresh(epoch)

(* Lazy resets are invisible: a job sits in the queue of the level that    *)
(* sync() will give it, exactly once.                                      *)
TypeOK ==
    /\ epoch \in Nat /\ job \in [Procs -> Jobs] /\ queues \in [Levels -> Seq(Procs)]
    /\ \A l \in Levels : IsInjective(queues[l])
                         /\ \A p \in ToSet(queues[l]) : Settled(p).level = l

\* the ticks p has run since the last boost, and its level now
BoostStart == CurrentEpoch * Boost
Served(p) == Cardinality({t \in TicksOf(p, "run") : t >= BoostStart})
AllotmentsOf(S) == MapThenSumSet(LAMBDA l : Allotments[l], S)

(* Rules 3 to 5 (mlfq.c:7-13): the level of a job is a function of the CPU *)
(* time it has had since the last boost, and of nothing else: however      *)
(* often it gave up the CPU, was interrupted or did I/O, it leaves a level *)
(* exactly when it has used up the level's allotment.                      *)
LevelMatchesService ==
    \A p \in Procs \ Completed :
        LET l == Synced(p).level IN
        /\ AllotmentsOf(1..(l - 1)) <= Served(p)
        /\ l < NumLevels => Served(p) < AllotmentsOf(1..l)

(* "Once a job has used its level's time allotment, however many times it  *)
(* gave up the CPU, it moves down one level" (mlfq.c:8-9).               *)
MovesDownAfterAllotment ==
    \A p \in Procs \ Completed :
        Synced(p).level = 1 /\ NumLevels > 1 => Served(p) < Allotments[1]

(* Rule 1: with free switches no job runs while one of a higher level      *)
(* waits, on any number of cores.                                          *)
HigherLevelsRun ==
    CsCost = 0 /\ stage = "advance" =>
        \A p \in Queued, c \in Running : Synced(core[c].proc).level <= Synced(p).level

(* A job interrupted in mid-slice is ahead of every job of its level that  *)
(* has a fresh slice, so an arrival never displaces it (mlfq.c:16-18).     *)
InterruptedKeepTurn ==
    \A l \in Levels : \A i, j \in DOMAIN queues[l] :
        i < j /\ Settled(queues[l][j]).left > 0 => Settled(queues[l][i]).left > 0
=============================================================================
