---------------------------- MODULE QuantumProofs -----------------------------
(***************************************************************************)
(* Proofs that rr, stride and cfs implement the policy interface, so that  *)
(* every theorem about AnyPolicy holds of their runs, that the weight by   *)
(* which cfs shares its latency is that of the processes which want the    *)
(* CPU, that virtual time never runs ahead of the CPU time used, and that  *)
(* nobody gets a second turn of rr before a newcomer has had its first.    *)
(***************************************************************************)
EXTENDS QuantumPolicies, CollectionProofs

\* AnyPolicy with its theorems, under the refinement mapping of Abstract
Proofs == INSTANCE ServiceProofs WITH
    Preemptive <- TRUE, WorkConserving <- TRUE, SliceLengths <- 1..MaxTime,
    DeadlineGaps <- {}, ready <- Ready, MayRunOutOfMemory <- TRUE

-----------------------------------------------------------------------------
(* The engine is the same in AnyPolicy and in every policy module, except  *)
(* that AnyPolicy may run out of memory                                    *)

LEMMA ProofsAssumptions ==
    Proofs!EngineAssumption /\ Proofs!WorkloadAssumption /\ Proofs!PolicyAssumption
<1>1. Proofs!EngineAssumption /\ Proofs!WorkloadAssumption
  BY EngineAssumption, WorkloadAssumption DEF
    HorizonOf, HasCpuPhases, IsOdd, Max, SumFunction, SumFunctionOnSet,
    FoldFunctionOnSet, MapThenFoldSet, RemoveAt, Cardinality, IsFiniteSet,
    Proofs!HorizonOf, Proofs!HasCpuPhases, Proofs!IsOdd, Proofs!Max, Proofs!SumFunction,
    Proofs!SumFunctionOnSet, Proofs!FoldFunctionOnSet, Proofs!MapThenFoldSet, Proofs!RemoveAt,
    Proofs!Cardinality, Proofs!IsFiniteSet, EngineAssumption, WorkloadAssumption,
    Proofs!EngineAssumption, Proofs!WorkloadAssumption
<1>2. Proofs!PolicyAssumption
  BY EngineAssumption, QuantumAssumption DEF Proofs!PolicyAssumption
<1> QED BY <1>1, <1>2

LEMMA ProofsOfAbstract == (Abstract!Init <=> Proofs!Init) /\ (Abstract!Next <=> Proofs!Next)
<1>1. Abstract!Init <=> Proofs!Init
  BY DEF
    Abstract!Init, Abstract!EngineInit, Abstract!Cores, Abstract!FreshCore,
    Abstract!Max, Abstract!SumFunction, Abstract!SumFunctionOnSet,
    Abstract!FoldFunctionOnSet, Abstract!MapThenFoldSet, Abstract!RemoveAt,
    Abstract!Cardinality, Abstract!IsFiniteSet, Proofs!Init, Proofs!EngineInit,
    Proofs!Cores, Proofs!FreshCore, Proofs!Max, Proofs!SumFunction,
    Proofs!SumFunctionOnSet, Proofs!FoldFunctionOnSet, Proofs!MapThenFoldSet,
    Proofs!RemoveAt, Proofs!Cardinality, Proofs!IsFiniteSet
<1>2. \A p : (Abstract!Arrive(p) <=> Proofs!Arrive(p))
           /\ (Abstract!BecomeReady(p) <=> Proofs!BecomeReady(p))
  BY DEF
    Abstract!Arrive, Abstract!BecomeReady, Abstract!Admit, Abstract!WakeUp,
    Abstract!IsFirst, Abstract!Arrived, Abstract!procVars, Abstract!resultVars,
    Abstract!Woken, Proofs!Arrive, Proofs!BecomeReady, Proofs!Admit, Proofs!WakeUp,
    Proofs!IsFirst, Proofs!Arrived, Proofs!procVars, Proofs!resultVars, Proofs!Woken
<1>3. \A c : (Abstract!SliceCompletes(c) <=> Proofs!SliceCompletes(c))
           /\ (Abstract!SliceBlocks(c) <=> Proofs!SliceBlocks(c))
  BY DEF
    Abstract!SliceCompletes, Abstract!SliceBlocks, Abstract!Complete, Abstract!Block,
    Abstract!EndRun, Abstract!BurstOver, Abstract!LastPhase, Abstract!LogRun,
    Abstract!NewPrediction, Abstract!NoteOverflow, Abstract!AddTime, Abstract!SliceEnds,
    Abstract!Ran, Abstract!AppendSegment, Abstract!Segment, Abstract!BurstLen,
    Abstract!IsLowest, Abstract!FullLength, Abstract!Interrupted, Abstract!Merges,
    Abstract!AtLimit, Abstract!IsFull, Abstract!Running, Abstract!Redecide,
    Abstract!Busy, Abstract!Cores, Abstract!Free, Proofs!SliceCompletes,
    Proofs!SliceBlocks, Proofs!Complete, Proofs!Block, Proofs!EndRun, Proofs!BurstOver,
    Proofs!LastPhase, Proofs!LogRun, Proofs!NewPrediction, Proofs!NoteOverflow,
    Proofs!AddTime, Proofs!SliceEnds, Proofs!Ran, Proofs!AppendSegment, Proofs!Segment,
    Proofs!BurstLen, Proofs!IsLowest, Proofs!FullLength, Proofs!Interrupted,
    Proofs!Merges, Proofs!AtLimit, Proofs!IsFull, Proofs!Running, Proofs!Redecide,
    Proofs!Busy, Proofs!Cores, Proofs!Free
<1>4. \A c : Abstract!SlicePreempted(c) <=> Proofs!SlicePreempted(c)
  BY DEF
    Abstract!SlicePreempted, Abstract!Preempt, Abstract!EndRun, Abstract!BurstOver,
    Abstract!LogRun, Abstract!Ran, Abstract!SliceEnds, Abstract!AppendSegment,
    Abstract!Segment, Abstract!IsLowest, Abstract!FullLength, Abstract!Interrupted,
    Abstract!Merges, Abstract!AtLimit, Abstract!IsFull, Abstract!Running,
    Abstract!Redecide, Abstract!Busy, Abstract!Cores, Abstract!Free,
    Proofs!SlicePreempted, Proofs!Preempt, Proofs!EndRun, Proofs!BurstOver,
    Proofs!LogRun, Proofs!Ran, Proofs!SliceEnds, Proofs!AppendSegment, Proofs!Segment,
    Proofs!IsLowest, Proofs!FullLength, Proofs!Interrupted, Proofs!Merges,
    Proofs!AtLimit, Proofs!IsFull, Proofs!Running, Proofs!Redecide, Proofs!Busy,
    Proofs!Cores, Proofs!Free
<1>5. \A s : Abstract!NextSlice(s) <=> Proofs!NextSlice(s)
  BY DEF
    Abstract!NextSlice, Abstract!Pick, Abstract!WantsPick, Abstract!procVars,
    Abstract!resultVars, Abstract!FreeCores, Abstract!Cores, Abstract!Free,
    Abstract!Cardinality, Abstract!IsFiniteSet, Proofs!NextSlice, Proofs!Pick,
    Proofs!WantsPick, Proofs!procVars, Proofs!resultVars, Proofs!FreeCores,
    Proofs!Cores, Proofs!Free, Proofs!Cardinality, Proofs!IsFiniteSet
<1>6. \A p : Abstract!SlicesFor(p) = Proofs!SlicesFor(p)
  BY DEF
    Abstract!SlicesFor, Abstract!Slice, Abstract!NoDeadline, Proofs!SlicesFor,
    Proofs!Slice, Proofs!NoDeadline
<1>7. Abstract!StopPicking <=> Proofs!StopPicking
  BY DEF
    Abstract!StopPicking, Abstract!PicksDone, Abstract!WantsPick, Abstract!MayDecline,
    Abstract!procVars, Abstract!resultVars, Abstract!FreeCores, Abstract!Cores,
    Abstract!Free, Abstract!Cardinality, Abstract!IsFiniteSet, Proofs!StopPicking,
    Proofs!PicksDone, Proofs!WantsPick, Proofs!MayDecline, Proofs!procVars,
    Proofs!resultVars, Proofs!FreeCores, Proofs!Cores, Proofs!Free, Proofs!Cardinality,
    Proofs!IsFiniteSet
<1>8. Abstract!EngineStep <=> Proofs!EngineStep
  BY DEF
    Abstract!EngineStep, Abstract!Create, Abstract!Reject, Abstract!ArrivalsDone,
    Abstract!WakeupsDone, Abstract!EndsDone, Abstract!Cores, Abstract!SwitchIn,
    Abstract!SwitchInsDone, Abstract!InstantDone, Abstract!Place, Abstract!PlacesDone,
    Abstract!Advance, Abstract!CloseTimeline, Abstract!Return, Abstract!Terminated,
    Abstract!OptionsAccepted, Abstract!procVars, Abstract!resultVars, Abstract!Arrived,
    Abstract!Woken, Abstract!FullLength, Abstract!Busy, Abstract!Redecide,
    Abstract!OneTick, Abstract!AddTime, Abstract!IsLowest, Abstract!SwitchedIn,
    Abstract!Begun, Abstract!BegunLog, Abstract!NoteOverflow, Abstract!BegunOutcome,
    Abstract!Interrupted, Abstract!Completed, Abstract!IsSwitch, Abstract!PlacesOn,
    Abstract!AppendSegment, Abstract!Segment, Abstract!EventTimes, Abstract!CutAt,
    Abstract!StatusOf, Abstract!engineVars, Abstract!HorizonOf, Abstract!Running,
    Abstract!Free, Abstract!RunLength, Abstract!Lesser, Abstract!AffinePicks,
    Abstract!Affine, Abstract!FreeCores, Abstract!Merges, Abstract!AtLimit,
    Abstract!IsFull, Abstract!Max, Abstract!SumFunction, Abstract!SumFunctionOnSet,
    Abstract!FoldFunctionOnSet, Abstract!MapThenFoldSet, Abstract!RemoveAt,
    Abstract!Cardinality, Abstract!IsFiniteSet, Proofs!EngineStep, Proofs!Create,
    Proofs!Reject, Proofs!ArrivalsDone, Proofs!WakeupsDone, Proofs!EndsDone,
    Proofs!Cores, Proofs!SwitchIn, Proofs!SwitchInsDone, Proofs!InstantDone,
    Proofs!Place, Proofs!PlacesDone, Proofs!Advance, Proofs!CloseTimeline,
    Proofs!Return, Proofs!Terminated, Proofs!OptionsAccepted, Proofs!procVars,
    Proofs!resultVars, Proofs!Arrived, Proofs!Woken, Proofs!FullLength, Proofs!Busy,
    Proofs!Redecide, Proofs!OneTick, Proofs!AddTime, Proofs!IsLowest, Proofs!SwitchedIn,
    Proofs!Begun, Proofs!BegunLog, Proofs!NoteOverflow, Proofs!BegunOutcome,
    Proofs!Interrupted, Proofs!Completed, Proofs!IsSwitch, Proofs!PlacesOn,
    Proofs!AppendSegment, Proofs!Segment, Proofs!EventTimes, Proofs!CutAt,
    Proofs!StatusOf, Proofs!engineVars, Proofs!HorizonOf, Proofs!Running, Proofs!Free,
    Proofs!RunLength, Proofs!Lesser, Proofs!AffinePicks, Proofs!Affine,
    Proofs!FreeCores, Proofs!Merges, Proofs!AtLimit, Proofs!IsFull, Proofs!Max,
    Proofs!SumFunction, Proofs!SumFunctionOnSet, Proofs!FoldFunctionOnSet,
    Proofs!MapThenFoldSet, Proofs!RemoveAt, Proofs!Cardinality, Proofs!IsFiniteSet
<1> QED
  BY <1>1, <1>2, <1>3, <1>4, <1>5, <1>6, <1>7, <1>8
  DEF Abstract!Next, Proofs!Next, Abstract!Cores, Proofs!Cores

LEMMA AppendMonotone ==
    \A l, c, g : AppendSegment(l, c, g) \subseteq Proofs!AppendSegment(l, c, g)
BY SMTT(90) DEF
    AppendSegment, Merges, AtLimit, IsFull, Proofs!AppendSegment, Proofs!Merges,
    Proofs!AtLimit, Proofs!IsFull

LEMMA EngineMonotone ==
    /\ EngineStep => Proofs!EngineStep
    /\ \A p : (Admit(p) <=> Proofs!Admit(p)) /\ (WakeUp(p) <=> Proofs!WakeUp(p))
    /\ \A c : (Complete(c) => Proofs!Complete(c)) /\ (Block(c) => Proofs!Block(c))
    /\ \A c : Preempt(c) => Proofs!Preempt(c)
    /\ \A s : Pick(s) <=> Proofs!Pick(s)
    /\ (PicksDone <=> Proofs!PicksDone) /\ (WantsPick <=> Proofs!WantsPick)
    /\ \A p, n, d : Slice(p, n, d) = Proofs!Slice(p, n, d)
    /\ NoDeadline = Proofs!NoDeadline
    /\ EngineInit => Proofs!EngineInit
<1>1. /\ \A p : (Admit(p) <=> Proofs!Admit(p)) /\ (WakeUp(p) <=> Proofs!WakeUp(p))
      /\ \A s : Pick(s) <=> Proofs!Pick(s)
      /\ (PicksDone <=> Proofs!PicksDone) /\ (WantsPick <=> Proofs!WantsPick)
      /\ \A p, n, d : Slice(p, n, d) = Proofs!Slice(p, n, d)
      /\ NoDeadline = Proofs!NoDeadline
      /\ EngineInit <=> Proofs!EngineInit
  BY ZenonT(60) DEF
    Admit, WakeUp, Pick, PicksDone, WantsPick, Slice, NoDeadline, EngineInit, IsFirst,
    Arrived, procVars, resultVars, Woken, FreeCores, Cores, FreshCore, Free, Max,
    SumFunction, SumFunctionOnSet, FoldFunctionOnSet, MapThenFoldSet, RemoveAt,
    Cardinality, IsFiniteSet, Proofs!Admit, Proofs!WakeUp, Proofs!Pick,
    Proofs!PicksDone, Proofs!WantsPick, Proofs!Slice, Proofs!NoDeadline,
    Proofs!EngineInit, Proofs!IsFirst, Proofs!Arrived, Proofs!procVars,
    Proofs!resultVars, Proofs!Woken, Proofs!FreeCores, Proofs!Cores, Proofs!FreshCore,
    Proofs!Free, Proofs!Max, Proofs!SumFunction, Proofs!SumFunctionOnSet,
    Proofs!FoldFunctionOnSet, Proofs!MapThenFoldSet, Proofs!RemoveAt,
    Proofs!Cardinality, Proofs!IsFiniteSet
<1>2. ASSUME NEW c
      PROVE  /\ LogRun(c) \subseteq Proofs!LogRun(c) /\ (EndRun(c) <=> Proofs!EndRun(c))
             /\ (BurstOver(c) <=> Proofs!BurstOver(c)) /\ Ran(c) = Proofs!Ran(c)
  BY AppendMonotone, ZenonT(60) DEF
    LogRun, EndRun, BurstOver, Segment, SliceEnds, Ran, IsLowest, FullLength,
    Interrupted, Running, Redecide, Busy, Cores, Free, Proofs!LogRun, Proofs!EndRun,
    Proofs!BurstOver, Proofs!Segment, Proofs!SliceEnds, Proofs!Ran, Proofs!IsLowest,
    Proofs!FullLength, Proofs!Interrupted, Proofs!Running, Proofs!Redecide, Proofs!Busy,
    Proofs!Cores, Proofs!Free
<1>3. ASSUME NEW c
      PROVE  (Complete(c) => Proofs!Complete(c)) /\ (Block(c) => Proofs!Block(c))
             /\ (Preempt(c) => Proofs!Preempt(c))
  BY <1>2 DEF Complete, Block, Preempt, Proofs!Complete, Proofs!Block, Proofs!Preempt,
     LastPhase, NewPrediction, NoteOverflow, AddTime, BurstLen, Proofs!LastPhase,
     Proofs!NewPrediction, Proofs!NoteOverflow, Proofs!AddTime, Proofs!BurstLen
<1>4. ASSUME NEW c, NEW i, Place(i, c) PROVE Proofs!Place(i, c)
  <2> DEFINE k == picks[i]
             taken == [core[c] EXCEPT !.proc = k.proc, !.length = k.length, !.context = k.proc,
                                      !.deadline = k.deadline, !.recheck = FALSE]
             idle == Segment(core[c].freeSince, now, None, "idle")
  <2>1. /\ PlacesOn(i, c) <=> Proofs!PlacesOn(i, c)
        /\ IsSwitch(core[c], k.proc) <=> Proofs!IsSwitch(core[c], k.proc)
        /\ \A x : Begun(x) = Proofs!Begun(x)
        /\ \A l, x : BegunLog(l, x) = Proofs!BegunLog(l, x)
        /\ \A x : BegunOutcome(x) = Proofs!BegunOutcome(x)
        /\ \A x, y : AddTime(x, y) = Proofs!AddTime(x, y)
        /\ \A l, x, y : NoteOverflow(l, x, y) = Proofs!NoteOverflow(l, x, y)
        /\ \A x, y, z, t : Segment(x, y, z, t) = Proofs!Segment(x, y, z, t)
        /\ \A x, y : RemoveAt(x, y) = Proofs!RemoveAt(x, y)
    BY ZenonT(60) DEF
    PlacesOn, IsSwitch, Begun, BegunLog, BegunOutcome, AddTime, NoteOverflow, Segment,
    IsLowest, AffinePicks, Cores, Affine, FreeCores, RunLength, Lesser, Free, RemoveAt,
    Proofs!PlacesOn, Proofs!IsSwitch, Proofs!Begun, Proofs!BegunLog,
    Proofs!BegunOutcome, Proofs!AddTime, Proofs!NoteOverflow, Proofs!Segment,
    Proofs!IsLowest, Proofs!AffinePicks, Proofs!Cores, Proofs!Affine, Proofs!FreeCores,
    Proofs!RunLength, Proofs!Lesser, Proofs!Free, Proofs!RemoveAt
  <2>2. PICK l \in AppendSegment(log, c, idle) :
           \/ /\ IsSwitch(core[c], k.proc) /\ CsCost > 0
              /\ core' = [core EXCEPT ![c] = [taken EXCEPT !.inCs = TRUE,
                                                           !.busyUntil = AddTime(now, CsCost)]]
              /\ log' \in AppendSegment(NoteOverflow(l, now, CsCost), c,
                                        Segment(now, AddTime(now, CsCost), k.proc, "cs"))
              /\ csTime' = csTime + CsCost /\ UNCHANGED outcome
           \/ /\ ~(IsSwitch(core[c], k.proc) /\ CsCost > 0)
              /\ core' = [core EXCEPT ![c] = Begun(taken)] /\ log' = BegunLog(l, taken)
              /\ outcome' = BegunOutcome(k.proc) /\ UNCHANGED csTime
    BY <1>4 DEF Place
  <2>3. /\ l \in Proofs!AppendSegment(log, c, idle)
        /\ \A m, g : AppendSegment(m, c, g) \subseteq Proofs!AppendSegment(m, c, g)
    BY <2>2, AppendMonotone
  <2>4. /\ stage = "place" /\ PlacesOn(i, c) /\ picks' = RemoveAt(picks, i)
        /\ switches' = IF IsSwitch(core[c], k.proc) THEN switches + 1 ELSE switches
        /\ UNCHANGED <<w, stage, now, pending, blocked, procVars, cause, closed, status>>
    BY <1>4 DEF Place
  <2> QED
    BY <2>1, <2>2, <2>3, <2>4 DEF Proofs!Place, procVars, Proofs!procVars
<1>5. CloseTimeline => Proofs!CloseTimeline
  BY AppendMonotone DEF CloseTimeline, Proofs!CloseTimeline, Segment, Proofs!Segment,
     procVars, Proofs!procVars
<1>6. Reject => Proofs!Reject
  BY ZenonT(60) DEF
    Reject, OptionsAccepted, procVars, HorizonOf, Max, SumFunction, SumFunctionOnSet,
    FoldFunctionOnSet, MapThenFoldSet, RemoveAt, Cardinality, IsFiniteSet,
    Proofs!Reject, Proofs!OptionsAccepted, Proofs!procVars, Proofs!HorizonOf,
    Proofs!Max, Proofs!SumFunction, Proofs!SumFunctionOnSet, Proofs!FoldFunctionOnSet,
    Proofs!MapThenFoldSet, Proofs!RemoveAt, Proofs!Cardinality, Proofs!IsFiniteSet
<1>7. (Create => Proofs!Create) /\ (ArrivalsDone => Proofs!ArrivalsDone)
      /\ (WakeupsDone => Proofs!WakeupsDone) /\ (EndsDone => Proofs!EndsDone)
  BY ZenonT(60) DEF
    Create, ArrivalsDone, WakeupsDone, EndsDone, OptionsAccepted, procVars, resultVars,
    Arrived, Woken, FullLength, Cores, Busy, Redecide, HorizonOf, Running, Free, Max,
    SumFunction, SumFunctionOnSet, FoldFunctionOnSet, MapThenFoldSet, RemoveAt,
    Cardinality, IsFiniteSet, Proofs!Create, Proofs!ArrivalsDone, Proofs!WakeupsDone,
    Proofs!EndsDone, Proofs!OptionsAccepted, Proofs!procVars, Proofs!resultVars,
    Proofs!Arrived, Proofs!Woken, Proofs!FullLength, Proofs!Cores, Proofs!Busy,
    Proofs!Redecide, Proofs!HorizonOf, Proofs!Running, Proofs!Free, Proofs!Max,
    Proofs!SumFunction, Proofs!SumFunctionOnSet, Proofs!FoldFunctionOnSet,
    Proofs!MapThenFoldSet, Proofs!RemoveAt, Proofs!Cardinality, Proofs!IsFiniteSet
<1>8. \A c : SwitchIn(c) => Proofs!SwitchIn(c)
  BY ZenonT(60) DEF
    SwitchIn, OneTick, AddTime, IsLowest, SwitchedIn, Begun, BegunLog, NoteOverflow,
    BegunOutcome, procVars, Busy, RunLength, Lesser, Cores, Free, Max, SumFunction,
    SumFunctionOnSet, FoldFunctionOnSet, MapThenFoldSet, RemoveAt, Cardinality,
    IsFiniteSet, Proofs!SwitchIn, Proofs!OneTick, Proofs!AddTime, Proofs!IsLowest,
    Proofs!SwitchedIn, Proofs!Begun, Proofs!BegunLog, Proofs!NoteOverflow,
    Proofs!BegunOutcome, Proofs!procVars, Proofs!Busy, Proofs!RunLength, Proofs!Lesser,
    Proofs!Cores, Proofs!Free, Proofs!Max, Proofs!SumFunction, Proofs!SumFunctionOnSet,
    Proofs!FoldFunctionOnSet, Proofs!MapThenFoldSet, Proofs!RemoveAt,
    Proofs!Cardinality, Proofs!IsFiniteSet
<1>9. (SwitchInsDone => Proofs!SwitchInsDone) /\ (InstantDone => Proofs!InstantDone)
      /\ (PlacesDone => Proofs!PlacesDone) /\ (Advance => Proofs!Advance)
      /\ (Return => Proofs!Return) /\ (Terminated => Proofs!Terminated)
  BY ZenonT(60) DEF
    SwitchInsDone, InstantDone, PlacesDone, Advance, Return, Terminated, SwitchedIn,
    procVars, resultVars, Interrupted, Completed, EventTimes, CutAt, StatusOf, Cores,
    engineVars, Busy, Running, Redecide, Free, Max, SumFunction, SumFunctionOnSet,
    FoldFunctionOnSet, MapThenFoldSet, RemoveAt, Cardinality, IsFiniteSet,
    Proofs!SwitchInsDone, Proofs!InstantDone, Proofs!PlacesDone, Proofs!Advance,
    Proofs!Return, Proofs!Terminated, Proofs!SwitchedIn, Proofs!procVars,
    Proofs!resultVars, Proofs!Interrupted, Proofs!Completed, Proofs!EventTimes,
    Proofs!CutAt, Proofs!StatusOf, Proofs!Cores, Proofs!engineVars, Proofs!Busy,
    Proofs!Running, Proofs!Redecide, Proofs!Free, Proofs!Max, Proofs!SumFunction,
    Proofs!SumFunctionOnSet, Proofs!FoldFunctionOnSet, Proofs!MapThenFoldSet,
    Proofs!RemoveAt, Proofs!Cardinality, Proofs!IsFiniteSet
<1> QED
  BY <1>1, <1>3, <1>4, <1>5, <1>6, <1>7, <1>8, <1>9
  DEF EngineStep, Proofs!EngineStep, Cores, Proofs!Cores

LEMMA RrEngine ==
    /\ RR!EngineStep <=> EngineStep
    /\ \A p : (RR!Admit(p) <=> Admit(p)) /\ (RR!WakeUp(p) <=> WakeUp(p))
    /\ \A c : (RR!Complete(c) <=> Complete(c)) /\ (RR!Block(c) <=> Block(c))
    /\ \A c : RR!Preempt(c) <=> Preempt(c)
    /\ \A s : RR!Pick(s) <=> Pick(s)
    /\ (RR!PicksDone <=> PicksDone) /\ (RR!WantsPick <=> WantsPick)
    /\ \A p, n, d : RR!Slice(p, n, d) = Slice(p, n, d)
    /\ RR!NoDeadline = NoDeadline
    /\ RR!EngineInit /\ WorkloadsOf["rr"] \subseteq Workloads => EngineInit
  BY ZenonT(60) DEF
    RR!EngineInit, RR!EngineStep, RR!Admit, RR!WakeUp, RR!Complete, RR!Block,
    RR!Preempt, RR!Pick, RR!PicksDone, RR!WantsPick, RR!Slice, RR!Cores, RR!FreshCore,
    RR!Create, RR!Reject, RR!ArrivalsDone, RR!WakeupsDone, RR!EndsDone, RR!SwitchIn,
    RR!SwitchInsDone, RR!InstantDone, RR!Place, RR!PlacesDone, RR!Advance,
    RR!CloseTimeline, RR!Return, RR!Terminated, RR!IsFirst, RR!Arrived, RR!procVars,
    RR!resultVars, RR!Woken, RR!EndRun, RR!BurstOver, RR!LastPhase, RR!LogRun,
    RR!NewPrediction, RR!NoteOverflow, RR!AddTime, RR!Ran, RR!FreeCores,
    RR!OptionsAccepted, RR!FullLength, RR!Busy, RR!Redecide, RR!OneTick, RR!IsLowest,
    RR!SwitchedIn, RR!Begun, RR!BegunLog, RR!BegunOutcome, RR!Interrupted, RR!Completed,
    RR!IsSwitch, RR!PlacesOn, RR!AppendSegment, RR!Segment, RR!EventTimes, RR!CutAt,
    RR!StatusOf, RR!engineVars, RR!SliceEnds, RR!BurstLen, RR!Free, RR!HorizonOf,
    RR!Running, RR!RunLength, RR!Lesser, RR!AffinePicks, RR!Affine, RR!Merges,
    RR!AtLimit, RR!IsFull, RR!Max, RR!SumFunction, RR!SumFunctionOnSet,
    RR!FoldFunctionOnSet, RR!MapThenFoldSet, RR!RemoveAt, RR!Cardinality,
    RR!IsFiniteSet, RR!NoDeadline, EngineInit, EngineStep, Admit,
    WakeUp, Complete, Block, Preempt, Pick, PicksDone,
    WantsPick, Slice, Cores, FreshCore, Create, Reject,
    ArrivalsDone, WakeupsDone, EndsDone, SwitchIn, SwitchInsDone,
    InstantDone, Place, PlacesDone, Advance, CloseTimeline,
    Return, Terminated, IsFirst, Arrived, procVars, resultVars,
    Woken, EndRun, BurstOver, LastPhase, LogRun, NewPrediction,
    NoteOverflow, AddTime, Ran, FreeCores, OptionsAccepted,
    FullLength, Busy, Redecide, OneTick, IsLowest, SwitchedIn,
    Begun, BegunLog, BegunOutcome, Interrupted, Completed,
    IsSwitch, PlacesOn, AppendSegment, Segment, EventTimes,
    CutAt, StatusOf, engineVars, SliceEnds, BurstLen, Free,
    HorizonOf, Running, RunLength, Lesser, AffinePicks, Affine,
    Merges, AtLimit, IsFull, Max, SumFunction, SumFunctionOnSet,
    FoldFunctionOnSet, MapThenFoldSet, RemoveAt, Cardinality,
    IsFiniteSet, NoDeadline

LEMMA StrideEngine ==
    /\ Str!EngineStep <=> EngineStep
    /\ \A p : (Str!Admit(p) <=> Admit(p)) /\ (Str!WakeUp(p) <=> WakeUp(p))
    /\ \A c : (Str!Complete(c) <=> Complete(c)) /\ (Str!Block(c) <=> Block(c))
    /\ \A c : Str!Preempt(c) <=> Preempt(c)
    /\ \A s : Str!Pick(s) <=> Pick(s)
    /\ (Str!PicksDone <=> PicksDone) /\ (Str!WantsPick <=> WantsPick)
    /\ \A p, n, d : Str!Slice(p, n, d) = Slice(p, n, d)
    /\ Str!NoDeadline = NoDeadline
    /\ Str!EngineInit /\ WorkloadsOf["stride"] \subseteq Workloads => EngineInit
  BY ZenonT(60) DEF
    Str!EngineInit, Str!EngineStep, Str!Admit, Str!WakeUp, Str!Complete, Str!Block,
    Str!Preempt, Str!Pick, Str!PicksDone, Str!WantsPick, Str!Slice, Str!Cores,
    Str!FreshCore, Str!Create, Str!Reject, Str!ArrivalsDone, Str!WakeupsDone,
    Str!EndsDone, Str!SwitchIn, Str!SwitchInsDone, Str!InstantDone, Str!Place,
    Str!PlacesDone, Str!Advance, Str!CloseTimeline, Str!Return, Str!Terminated,
    Str!IsFirst, Str!Arrived, Str!procVars, Str!resultVars, Str!Woken, Str!EndRun,
    Str!BurstOver, Str!LastPhase, Str!LogRun, Str!NewPrediction, Str!NoteOverflow,
    Str!AddTime, Str!Ran, Str!FreeCores, Str!OptionsAccepted, Str!FullLength, Str!Busy,
    Str!Redecide, Str!OneTick, Str!IsLowest, Str!SwitchedIn, Str!Begun, Str!BegunLog,
    Str!BegunOutcome, Str!Interrupted, Str!Completed, Str!IsSwitch, Str!PlacesOn,
    Str!AppendSegment, Str!Segment, Str!EventTimes, Str!CutAt, Str!StatusOf,
    Str!engineVars, Str!SliceEnds, Str!BurstLen, Str!Free, Str!HorizonOf, Str!Running,
    Str!RunLength, Str!Lesser, Str!AffinePicks, Str!Affine, Str!Merges, Str!AtLimit,
    Str!IsFull, Str!Max, Str!SumFunction, Str!SumFunctionOnSet, Str!FoldFunctionOnSet,
    Str!MapThenFoldSet, Str!RemoveAt, Str!Cardinality, Str!IsFiniteSet, Str!NoDeadline,
    EngineInit, EngineStep, Admit, WakeUp, Complete, Block,
    Preempt, Pick, PicksDone, WantsPick, Slice, Cores,
    FreshCore, Create, Reject, ArrivalsDone, WakeupsDone,
    EndsDone, SwitchIn, SwitchInsDone, InstantDone, Place,
    PlacesDone, Advance, CloseTimeline, Return, Terminated,
    IsFirst, Arrived, procVars, resultVars, Woken, EndRun,
    BurstOver, LastPhase, LogRun, NewPrediction, NoteOverflow,
    AddTime, Ran, FreeCores, OptionsAccepted, FullLength, Busy,
    Redecide, OneTick, IsLowest, SwitchedIn, Begun, BegunLog,
    BegunOutcome, Interrupted, Completed, IsSwitch, PlacesOn,
    AppendSegment, Segment, EventTimes, CutAt, StatusOf,
    engineVars, SliceEnds, BurstLen, Free, HorizonOf, Running,
    RunLength, Lesser, AffinePicks, Affine, Merges, AtLimit,
    IsFull, Max, SumFunction, SumFunctionOnSet, FoldFunctionOnSet,
    MapThenFoldSet, RemoveAt, Cardinality, IsFiniteSet, NoDeadline

LEMMA CfsEngine ==
    /\ CFS!EngineStep <=> EngineStep
    /\ \A p : (CFS!Admit(p) <=> Admit(p)) /\ (CFS!WakeUp(p) <=> WakeUp(p))
    /\ \A c : (CFS!Complete(c) <=> Complete(c)) /\ (CFS!Block(c) <=> Block(c))
    /\ \A c : CFS!Preempt(c) <=> Preempt(c)
    /\ \A s : CFS!Pick(s) <=> Pick(s)
    /\ (CFS!PicksDone <=> PicksDone) /\ (CFS!WantsPick <=> WantsPick)
    /\ \A p, n, d : CFS!Slice(p, n, d) = Slice(p, n, d)
    /\ CFS!NoDeadline = NoDeadline
    /\ CFS!EngineInit /\ WorkloadsOf["cfs"] \subseteq Workloads => EngineInit
  BY ZenonT(60) DEF
    CFS!EngineInit, CFS!EngineStep, CFS!Admit, CFS!WakeUp, CFS!Complete, CFS!Block,
    CFS!Preempt, CFS!Pick, CFS!PicksDone, CFS!WantsPick, CFS!Slice, CFS!Cores,
    CFS!FreshCore, CFS!Create, CFS!Reject, CFS!ArrivalsDone, CFS!WakeupsDone,
    CFS!EndsDone, CFS!SwitchIn, CFS!SwitchInsDone, CFS!InstantDone, CFS!Place,
    CFS!PlacesDone, CFS!Advance, CFS!CloseTimeline, CFS!Return, CFS!Terminated,
    CFS!IsFirst, CFS!Arrived, CFS!procVars, CFS!resultVars, CFS!Woken, CFS!EndRun,
    CFS!BurstOver, CFS!LastPhase, CFS!LogRun, CFS!NewPrediction, CFS!NoteOverflow,
    CFS!AddTime, CFS!Ran, CFS!FreeCores, CFS!OptionsAccepted, CFS!FullLength, CFS!Busy,
    CFS!Redecide, CFS!OneTick, CFS!IsLowest, CFS!SwitchedIn, CFS!Begun, CFS!BegunLog,
    CFS!BegunOutcome, CFS!Interrupted, CFS!Completed, CFS!IsSwitch, CFS!PlacesOn,
    CFS!AppendSegment, CFS!Segment, CFS!EventTimes, CFS!CutAt, CFS!StatusOf,
    CFS!engineVars, CFS!SliceEnds, CFS!BurstLen, CFS!Free, CFS!HorizonOf, CFS!Running,
    CFS!RunLength, CFS!Lesser, CFS!AffinePicks, CFS!Affine, CFS!Merges, CFS!AtLimit,
    CFS!IsFull, CFS!Max, CFS!SumFunction, CFS!SumFunctionOnSet, CFS!FoldFunctionOnSet,
    CFS!MapThenFoldSet, CFS!RemoveAt, CFS!Cardinality, CFS!IsFiniteSet, CFS!NoDeadline,
    EngineInit, EngineStep, Admit, WakeUp, Complete, Block,
    Preempt, Pick, PicksDone, WantsPick, Slice, Cores,
    FreshCore, Create, Reject, ArrivalsDone, WakeupsDone,
    EndsDone, SwitchIn, SwitchInsDone, InstantDone, Place,
    PlacesDone, Advance, CloseTimeline, Return, Terminated,
    IsFirst, Arrived, procVars, resultVars, Woken, EndRun,
    BurstOver, LastPhase, LogRun, NewPrediction, NoteOverflow,
    AddTime, Ran, FreeCores, OptionsAccepted, FullLength, Busy,
    Redecide, OneTick, IsLowest, SwitchedIn, Begun, BegunLog,
    BegunOutcome, Interrupted, Completed, IsSwitch, PlacesOn,
    AppendSegment, Segment, EventTimes, CutAt, StatusOf,
    engineVars, SliceEnds, BurstLen, Free, HorizonOf, Running,
    RunLength, Lesser, AffinePicks, Affine, Merges, AtLimit,
    IsFull, Max, SumFunction, SumFunctionOnSet, FoldFunctionOnSet,
    MapThenFoldSet, RemoveAt, Cardinality, IsFiniteSet, NoDeadline

-----------------------------------------------------------------------------
(* What the three have in common                                           *)

LEMMA SliceOffered ==
    ASSUME NEW p \in Ready, NEW n \in 1..MaxTime,
           Proofs!Pick(Proofs!Slice(p, n, Proofs!NoDeadline)), Ready' = Ready \ {p}
    PROVE  Proofs!Next
<1> DEFINE s == Proofs!Slice(p, n, Proofs!NoDeadline)
<1>1. s \in Proofs!SlicesFor(p) /\ s.proc = p
  BY DEF Proofs!SlicesFor, Proofs!Slice
<1>2. Proofs!NextSlice(s)
  BY <1>1 DEF Proofs!NextSlice
<1> QED BY <1>1, <1>2 DEF Proofs!Next

LEMMA NobodyReady ==
    ASSUME Proofs!PicksDone, Proofs!WantsPick => Ready = {}, UNCHANGED Ready
    PROVE  Proofs!Next
BY DEF Proofs!Next, Proofs!StopPicking, Proofs!MayDecline

\* the process with the least key, ties broken by pid
LEMMA LeastByKey ==
    ASSUME NEW S \in SUBSET Procs, S # {}, NEW key \in [Procs -> Int]
    PROVE  \E x \in S : \A y \in S \ {x} : key[x] < key[y] \/ (key[x] = key[y] /\ x < y)
<1> DEFINE k == [x \in S |-> key[x]]
           a == [x \in S |-> 0]
<1>1. IsFiniteSet(S) /\ S \subseteq Nat
  BY EngineAssumption, FS_Subset
<1>2. k \in [S -> Int] /\ a \in [S -> Int] /\ \A x \in S : k[x] = key[x] /\ a[x] = 0
  OBVIOUS
<1> HIDE DEF k, a
<1>3. \E x \in S : \A y \in S \ {x} :
         \/ k[x] < k[y]
         \/ k[x] = k[y] /\ a[x] < a[y]
         \/ k[x] = k[y] /\ a[x] = a[y] /\ x < y
  BY <1>1, <1>2, KeyedLeastExists
<1> QED BY <1>2, <1>3

LEMMA RanType ==
    ASSUME Proofs!Inv, NEW c \in Proofs!Cores, Proofs!EndRun(c)
    PROVE  Ran(c) \in Nat /\ core[c].proc \in Procs /\ core[c].proc \in Proofs!OnCore
<1>1. Ran(c) = Proofs!Ran(c)
  BY DEF Ran, Proofs!Ran
<1>2. Proofs!SliceEnds(c)
  BY DEF Proofs!EndRun
<1>3. Proofs!Ran(c) \in Nat /\ core[c].proc \in Procs /\ c \in Proofs!Running
  BY <1>2, ProofsAssumptions, Proofs!SliceEndFacts
<1> QED BY <1>1, <1>3 DEF Proofs!Running, Proofs!OnCore

-----------------------------------------------------------------------------
(* rr *)

RrInv == policy = "rr" => queue \in Seq(Procs) /\ IsInjective(queue)

LEMMA RrStep ==
    ASSUME Proofs!Inv, RrInv, policy = "rr", UNCHANGED policy, RR!Next
    PROVE  Proofs!Next /\ RrInv'
<1>1. queue \in Seq(Procs) /\ IsInjective(queue)
  BY DEF RrInv
<1>2. Ready = ToSet(queue) /\ Ready' = ToSet(queue')
  BY DEF Ready
<1>3. /\ pending \cap ToSet(queue) = {} /\ blocked \cap ToSet(queue) = {}
      /\ Proofs!OnCore \cap ToSet(queue) = {}
  BY <1>2 DEF Proofs!Inv, Proofs!OnePlace
<1>4. ASSUME NEW p \in Procs, p \notin ToSet(queue), queue' = Append(queue, p)
      PROVE  Ready' = Ready \cup {p} /\ RrInv'
  <2>1. /\ queue' \in Seq(Procs) /\ IsInjective(queue')
        /\ ToSet(queue') = ToSet(queue) \cup {p}
    BY <1>1, <1>4, Joining
  <2> QED BY <1>2, <2>1 DEF RrInv
<1>5. CASE \E p \in Procs : RR!Arrive(p) \/ RR!BecomeReady(p)
  <2>1. PICK p \in Procs : RR!Arrive(p) \/ RR!BecomeReady(p)
    BY <1>5
  <2>2. Proofs!Admit(p) \/ Proofs!WakeUp(p)
    BY <2>1, RrEngine, EngineMonotone DEF RR!Arrive, RR!BecomeReady
  <2>3. queue' = Append(queue, p)
    BY <2>1 DEF RR!Arrive, RR!BecomeReady, RR!Enqueued
  <2>4. p \notin ToSet(queue)
    BY <1>3, <2>2 DEF Proofs!Admit, Proofs!WakeUp, Proofs!IsFirst
  <2> QED
    BY <1>4, <2>2, <2>3, <2>4 DEF Proofs!Next, Proofs!Arrive, Proofs!BecomeReady
<1>6. CASE \E c \in RR!Cores : RR!SliceCompletes(c) \/ RR!SliceBlocks(c) \/ RR!SlicePreempted(c)
  <2>1. PICK c \in Proofs!Cores :
           RR!SliceCompletes(c) \/ RR!SliceBlocks(c) \/ RR!SlicePreempted(c)
    BY <1>6 DEF RR!Cores, Proofs!Cores
  <2>2. CASE RR!SliceCompletes(c) \/ RR!SliceBlocks(c)
    <3>1. (Proofs!Complete(c) \/ Proofs!Block(c)) /\ UNCHANGED queue
      BY <2>2, RrEngine, EngineMonotone DEF RR!SliceCompletes, RR!SliceBlocks
    <3> QED
      BY <1>1, <1>2, <3>1 DEF Proofs!Next, Proofs!SliceCompletes, Proofs!SliceBlocks, RrInv
  <2>3. CASE RR!SlicePreempted(c)
    <3>1. Proofs!Preempt(c) /\ queue' = Append(queue, core[c].proc)
      BY <2>3, RrEngine, EngineMonotone DEF RR!SlicePreempted, RR!Requeued
    <3>2. core[c].proc \in Procs /\ core[c].proc \notin ToSet(queue)
      BY <1>3, <3>1, RanType DEF Proofs!Preempt
    <3> QED
      BY <1>4, <3>1, <3>2 DEF Proofs!Next, Proofs!SlicePreempted
  <2> QED BY <2>1, <2>2, <2>3
<1>7. CASE RR!NextSlice
  <2> DEFINE p == Head(queue)
  <2>1. /\ queue # <<>> /\ queue' = Tail(queue)
        /\ Proofs!Pick(Proofs!Slice(p, Quantum, Proofs!NoDeadline))
    BY <1>7, RrEngine, EngineMonotone DEF RR!NextSlice
  <2>2. /\ queue' \in Seq(Procs) /\ IsInjective(queue') /\ p \in ToSet(queue)
        /\ ToSet(queue') = ToSet(queue) \ {p}
    BY <1>1, <2>1, Leaving
  <2> HIDE DEF p
  <2>3. Proofs!Next
    BY <1>2, <2>1, <2>2, QuantumAssumption, SliceOffered
  <2> QED BY <2>2, <2>3 DEF RrInv
<1>8. CASE RR!StopPicking
  <2>1. Proofs!PicksDone /\ (Proofs!WantsPick => queue = <<>>) /\ UNCHANGED queue
    BY <1>8, RrEngine, EngineMonotone DEF RR!StopPicking
  <2>2. queue = <<>> => Ready = {}
    BY <1>2 DEF ToSet
  <2>3. Proofs!Next
    BY <1>2, <2>1, <2>2, NobodyReady
  <2> QED BY <1>1, <2>1, <2>3 DEF RrInv
<1>9. CASE RR!EngineStep /\ UNCHANGED queue
  BY <1>1, <1>2, <1>9, RrEngine, EngineMonotone DEF Proofs!Next, RrInv
<1> QED BY <1>5, <1>6, <1>7, <1>8, <1>9 DEF RR!Next
-----------------------------------------------------------------------------
(* stride *)

StrideInv ==
    policy = "stride" =>
        /\ pass \in [Procs -> Int] /\ vtime \in Int
        /\ \A p \in Procs : w.tickets[p] \in Nat \ {0}

LEMMA StrideLeast ==
    ASSUME pass \in [Procs -> Int], NEW S \in SUBSET Procs, S # {}, ready = S
    PROVE  Str!Least \in S
<1>1. \E x \in S : \A y \in S \ {x} : pass[x] < pass[y] \/ (pass[x] = pass[y] /\ x < y)
  BY LeastByKey
<1> QED BY <1>1 DEF Str!Least, Str!Less

LEMMA StrideCharged ==
    ASSUME StrideInv, policy = "stride", NEW c, Ran(c) \in Nat, core[c].proc \in Procs
    PROVE  Str!Charged(core[c].proc, c) \in Int
<1>1. pass[core[c].proc] \in Int /\ w.tickets[core[c].proc] \in Nat \ {0} /\ Stride1 \in Nat
  BY QuantumAssumption DEF StrideInv
<1>2. Stride1 \div w.tickets[core[c].proc] \in Int
  BY <1>1
<1>3. \A a, b \in Int : a * b \in Int
  OBVIOUS
<1>4. Str!Ran(c) \in Int
  BY DEF Str!Ran, Ran
<1> QED BY <1>1, <1>2, <1>3, <1>4 DEF Str!Charged, Str!StrideOf

LEMMA StrideStep ==
    ASSUME Proofs!Inv, StrideInv, policy = "stride", UNCHANGED policy, Str!Next
    PROVE  Proofs!Next /\ pass' \in [Procs -> Int] /\ vtime' \in Int
<1>1. Ready = ready /\ Ready' = ready'
  BY DEF Ready
<1>2. pass \in [Procs -> Int] /\ vtime \in Int /\ ready \subseteq Procs
  BY <1>1 DEF StrideInv, Proofs!Inv, Proofs!TypeOK
<1>3. CASE Str!Refuse
  <2>1. Proofs!Reject
    BY <1>3 DEF Str!Refuse, Proofs!Reject, Str!OptionsAccepted, Proofs!OptionsAccepted,
       Str!HorizonOf, Proofs!HorizonOf, Str!procVars, Proofs!procVars, Str!Max, Str!SumFunction,
       Str!SumFunctionOnSet, Str!FoldFunctionOnSet, Str!MapThenFoldSet, Proofs!Max,
       Proofs!SumFunction, Proofs!SumFunctionOnSet, Proofs!FoldFunctionOnSet,
       Proofs!MapThenFoldSet
  <2>2. UNCHANGED <<ready, pass, vtime>>
    BY <1>3 DEF Str!Refuse, Str!strideVars
  <2> QED BY <1>1, <1>2, <2>1, <2>2 DEF Proofs!Next, Proofs!EngineStep
<1>4. CASE \E p \in Procs : Str!Arrive(p) \/ Str!BecomeReady(p)
  <2>1. PICK p \in Procs : Str!Arrive(p) \/ Str!BecomeReady(p)
    BY <1>4
  <2>2. /\ Proofs!Admit(p) \/ Proofs!WakeUp(p)
        /\ ready' = ready \cup {p} /\ vtime' = vtime
        /\ \/ pass' = [pass EXCEPT ![p] = vtime]
           \/ pass' = [pass EXCEPT ![p] = IF pass[p] < vtime THEN vtime ELSE pass[p]]
    BY <2>1, StrideEngine, EngineMonotone DEF Str!Arrive, Str!BecomeReady, Str!Push,
       Str!Joining, Str!Rejoining
  <2> QED
    BY <1>1, <1>2, <2>2 DEF Proofs!Next, Proofs!Arrive, Proofs!BecomeReady
<1>5. CASE \E c \in Str!Cores : Str!SliceEndsBurst(c) \/ Str!SlicePreempted(c)
  <2>1. PICK c \in Proofs!Cores : Str!SliceEndsBurst(c) \/ Str!SlicePreempted(c)
    BY <1>5 DEF Str!Cores, Proofs!Cores
  <2>2. PICK p : p = core[c].proc
    OBVIOUS
  <2>3. /\ \/ (Proofs!Complete(c) \/ Proofs!Block(c)) /\ UNCHANGED ready
           \/ Proofs!Preempt(c) /\ ready' = ready \cup {p}
        /\ pass' = [pass EXCEPT ![p] = Str!Charged(p, c)] /\ vtime' = vtime
    BY <2>1, <2>2, StrideEngine, EngineMonotone
    DEF Str!SliceEndsBurst, Str!SlicePreempted, Str!Push
  <2>4. p \in Procs /\ Str!Charged(p, c) \in Int
    BY <2>2, <2>3, RanType, StrideCharged DEF Proofs!Complete, Proofs!Block, Proofs!Preempt
  <2>5. pass' \in [Procs -> Int]
    BY <1>2, <2>3, <2>4
  <2> QED
    BY <1>1, <1>2, <2>1, <2>2, <2>3, <2>5
    DEF Proofs!Next, Proofs!SliceCompletes, Proofs!SliceBlocks, Proofs!SlicePreempted
<1>6. CASE Str!NextSlice
  <2>1. PICK p : p = Str!Least
    OBVIOUS
  <2>2. /\ ready # {} /\ ready' = ready \ {p} /\ vtime' = pass[p] /\ pass' = pass
        /\ Proofs!Pick(Proofs!Slice(p, Quantum, Proofs!NoDeadline))
    BY <1>6, <2>1, StrideEngine, EngineMonotone DEF Str!NextSlice
  <2>3. p \in ready
    BY <1>2, <2>1, <2>2, StrideLeast
  <2>4. Proofs!Next
    BY <1>1, <2>2, <2>3, QuantumAssumption, SliceOffered
  <2> QED BY <1>2, <2>2, <2>3, <2>4
<1>7. CASE Str!StopPicking
  <2>1. /\ Proofs!PicksDone /\ (Proofs!WantsPick => ready = {})
        /\ UNCHANGED <<ready, pass, vtime>>
    BY <1>7, StrideEngine, EngineMonotone DEF Str!StopPicking, Str!strideVars
  <2> QED BY <1>1, <1>2, <2>1, NobodyReady
<1>8. CASE Str!EngineStep /\ UNCHANGED Str!strideVars
  BY <1>1, <1>2, <1>8, StrideEngine, EngineMonotone DEF Proofs!Next, Str!strideVars
<1> QED BY <1>3, <1>4, <1>5, <1>6, <1>7, <1>8 DEF Str!Next
-----------------------------------------------------------------------------
(* cfs *)

Weights == [p \in Procs |-> CFS!Weight(p)]

\* no process runs for free, and the weights that share the latency add up
CfsInv ==
    policy = "cfs" =>
        /\ vruntime \in [Procs -> Int] /\ minVruntime \in Int
        /\ Weights \in [Procs -> Nat \ {0}]
        /\ ~Proofs!Emptied => runnableWeight = SumFunctionOnSet(Weights, Proofs!Competing)

LEMMA DivFacts ==
    ASSUME NEW a \in Int, NEW b \in Nat \ {0}
    PROVE  a \div b \in Int /\ a % b \in Int /\ (a \div b) * b <= a
OBVIOUS

\* a part of a is no more than a
LEMMA PartOfWhole ==
    ASSUME NEW a \in Nat, NEW part \in Nat, NEW whole \in Nat \ {0}, part <= whole
    PROVE  (a * part) \div whole \in 0..a
<1>1. PICK x \in Int : x = (a * part) \div whole
  OBVIOUS
<1>2. PICK d \in Nat : whole = part + d
  <2>1. whole - part \in Nat /\ whole = part + (whole - part)
    OBVIOUS
  <2> QED BY <2>1
<1>3. a * part \in Nat /\ a * d \in Nat /\ a * whole = a * part + a * d
  BY <1>2
<1>4. x * whole <= a * part /\ a * part < x * whole + whole
  BY <1>1, <1>3
<1>5. ASSUME x > a PROVE FALSE
  <2>1. PICK e \in Nat : x = a + 1 + e
    <3>1. x - a - 1 \in Nat /\ x = a + 1 + (x - a - 1)
      BY <1>5
    <3> QED BY <3>1
  <2>2. x * whole = a * whole + whole + e * whole /\ e * whole \in Nat
    BY <2>1
  <2> QED BY <1>3, <1>4, <2>2
<1>6. ASSUME x < 0 PROVE FALSE
  <2>1. PICK e \in Nat : x = -1 - e
    <3>1. -1 - x \in Nat /\ x = -1 - (-1 - x)
      BY <1>6
    <3> QED BY <3>1
  <2>2. x * whole + whole = -(e * whole) /\ e * whole \in Nat
    BY <2>1
  <2> QED BY <1>3, <1>4, <2>2
<1> QED BY <1>1, <1>5, <1>6

LEMMA Reweighed ==
    ASSUME Weights \in [Procs -> Nat \ {0}], NEW S \in SUBSET Procs, NEW p \in S
    PROVE  /\ SumFunctionOnSet(Weights, S)
                 = Weights[p] + SumFunctionOnSet(Weights, S \ {p})
           /\ SumFunctionOnSet(Weights, S \ {p}) \in Nat
<1>1. IsFiniteSet(S) /\ IsFiniteSet(S \ {p})
  BY EngineAssumption, FS_Subset
<1>2. \A x \in S : Weights[x] \in Nat
  OBVIOUS
<1> QED BY <1>1, <1>2, SumRemove, SumNat

LEMMA CfsLeast ==
    ASSUME vruntime \in [Procs -> Int], NEW S \in SUBSET Procs, S # {}, ready = S
    PROVE  CFS!Least \in S
<1>1. \E x \in S : \A y \in S \ {x} :
         vruntime[x] < vruntime[y] \/ (vruntime[x] = vruntime[y] /\ x < y)
  BY LeastByKey
<1> QED BY <1>1 DEF CFS!Least, CFS!Less

LEMMA AdvancedType ==
    ASSUME minVruntime \in Int, NEW S \in SUBSET Procs, NEW v \in [Procs -> Int]
    PROVE  CFS!Advanced(S, v) \in Int
<1> DEFINE m == CFS!Min({v[p] : p \in S})
<1>1. CASE S = {}
  <2>1. CFS!Advanced(S, v) = CFS!Max({minVruntime})
    BY <1>1 DEF CFS!Advanced
  <2> QED BY <2>1 DEF CFS!Max
<1>2. CASE S # {}
  <2>1. PICK x \in S : \A y \in S \ {x} : v[x] < v[y] \/ (v[x] = v[y] /\ x < y)
    BY <1>2, LeastByKey
  <2>2. v[x] \in Int /\ \A y \in S : v[y] \in Int /\ v[x] <= v[y]
    BY <2>1
  <2>3. m \in {v[p] : p \in S}
    BY <2>2 DEF CFS!Min
  <2>4. m \in Int
    BY <2>3
  <2>5. CFS!Advanced(S, v) = CFS!Max({minVruntime, m})
    <3>1. {m : q \in S} = {m}
      BY <1>2
    <3>2. {minVruntime} \cup {m : q \in S} = {minVruntime, m}
      BY <3>1
    <3> QED BY <3>2 DEF CFS!Advanced
  <2>6. \A b \in Int : CFS!Max({minVruntime, b}) \in Int
    <3> TAKE b \in Int
    <3>1. CASE minVruntime >= b
      <4>1. \E g \in {minVruntime, b} : \A y \in {minVruntime, b} : g >= y
        BY <3>1
      <4> QED BY <4>1 DEF CFS!Max
    <3>2. CASE b >= minVruntime
      <4>1. \E g \in {minVruntime, b} : \A y \in {minVruntime, b} : g >= y
        BY <3>2
      <4> QED BY <4>1 DEF CFS!Max
    <3> QED BY <3>1, <3>2
  <2> HIDE DEF m
  <2> QED BY <2>4, <2>5, <2>6
<1> QED BY <1>1, <1>2

LEMMA CfsCharged ==
    ASSUME CfsInv, policy = "cfs", NEW c, Ran(c) \in Nat, core[c].proc \in Procs
    PROVE  CFS!Charged(c) \in Int
<1>1. PICK wt \in Nat \ {0} : wt = CFS!Weight(core[c].proc)
  BY DEF CfsInv, Weights
<1>2. PICK n \in Nat : n = CFS!Ran(c)
  BY DEF CFS!Ran, Ran
<1>3. Unit \in Nat /\ vruntime[core[c].proc] \in Int
  BY QuantumAssumption DEF CfsInv
<1>4. \A a, b \in Int : a * b \in Int
  OBVIOUS
<1>5. n \div wt \in Int /\ n % wt \in Int
  BY DivFacts
<1>6. (n \div wt) * Unit \in Int /\ (n % wt) * Unit \in Int
  BY <1>3, <1>4, <1>5
<1>7. ((n % wt) * Unit) \div wt \in Int
  BY <1>6, DivFacts
<1> QED BY <1>1, <1>2, <1>3, <1>6, <1>7 DEF CFS!Charged, CFS!VruntimeDelta
\* the slice is a share of the latency, but at least the minimal granularity
LEMMA CfsSlice ==
    ASSUME Proofs!Inv, CfsInv, policy = "cfs", ~Proofs!Emptied, NEW p \in Proofs!Competing
    PROVE  CFS!Max({CFS!Share(p), MinGran}) \in 1..MaxTime
<1>1. Proofs!Competing \in SUBSET Procs
  BY ProofsAssumptions, Proofs!CompetingIs
<1>2. PICK part \in Nat \ {0} : part = Weights[p]
  BY <1>1 DEF CfsInv
<1>3. PICK rest \in Nat : rest = SumFunctionOnSet(Weights, Proofs!Competing \ {p})
  BY <1>1, Reweighed DEF CfsInv
<1>4. runnableWeight = part + rest
  BY <1>1, <1>2, <1>3, Reweighed DEF CfsInv
<1>5. (Latency * part) \div (part + rest) \in 0..Latency
  <2>1. Latency \in Nat /\ part + rest \in Nat \ {0} /\ part <= part + rest
    BY QuantumAssumption
  <2> QED BY <2>1, PartOfWhole
<1>6. PICK share \in 0..Latency : share = CFS!Share(p)
  BY <1>1, <1>2, <1>4, <1>5 DEF CFS!Share, Weights
<1>7. CASE share >= MinGran
  <2>1. \E x \in {share, MinGran} : \A y \in {share, MinGran} : x >= y
    BY <1>6, <1>7, QuantumAssumption
  <2>2. CFS!Max({share, MinGran}) \in {share, MinGran}
    BY <2>1 DEF CFS!Max
  <2>3. CFS!Max({share, MinGran}) >= MinGran
    BY <2>1 DEF CFS!Max
  <2> QED BY <1>6, <2>2, <2>3, QuantumAssumption, EngineAssumption
<1>8. CASE ~(share >= MinGran)
  <2>1. \E x \in {share, MinGran} : \A y \in {share, MinGran} : x >= y
    BY <1>6, <1>8, QuantumAssumption
  <2>2. CFS!Max({share, MinGran}) \in {share, MinGran}
    BY <2>1 DEF CFS!Max
  <2>3. CFS!Max({share, MinGran}) >= MinGran
    BY <2>1 DEF CFS!Max
  <2> QED BY <1>6, <2>2, <2>3, QuantumAssumption, EngineAssumption
<1> QED BY <1>7, <1>8

LEMMA CfsStep ==
    ASSUME Proofs!Inv, CfsInv, policy = "cfs", UNCHANGED policy, CFS!Next
    PROVE  Proofs!Next /\ CfsInv'
<1> DEFINE Typed == vruntime' \in [Procs -> Int] /\ minVruntime' \in Int
           Weighed == ~Proofs!Emptied' =>
                        runnableWeight' = SumFunctionOnSet(Weights, Proofs!Competing')
<1>1. Ready = ready /\ Ready' = ready'
  BY DEF Ready
<1>2. /\ vruntime \in [Procs -> Int] /\ minVruntime \in Int /\ ready \subseteq Procs
      /\ Weights \in [Procs -> Nat \ {0}]
  BY <1>1 DEF CfsInv, Proofs!Inv, Proofs!TypeOK
<1>3. /\ ~Proofs!Emptied =>
            Proofs!Competing \subseteq Procs
            /\ runnableWeight = SumFunctionOnSet(Weights, Proofs!Competing)
      /\ \A p \in Procs : Weights[p] = CFS!Weight(p)
  BY ProofsAssumptions, Proofs!CompetingIs DEF CfsInv, Weights
<1>4. ASSUME NEW p \in Procs, NEW x \in Int, CFS!Enqueue(p, x)
      PROVE  ready' = ready \cup {p} /\ Typed
  <2>1. ready' = ready \cup {p} /\ vruntime' = [vruntime EXCEPT ![p] = x]
        /\ minVruntime' = CFS!Advanced(ready', vruntime')
    BY <1>4 DEF CFS!Enqueue
  <2>2. ready' \in SUBSET Procs /\ vruntime' \in [Procs -> Int]
    BY <1>2, <1>4, <2>1
  <2>3. \A S \in SUBSET Procs : \A v \in [Procs -> Int] : CFS!Advanced(S, v) \in Int
    BY <1>2, AdvancedType
  <2> QED BY <2>1, <2>2, <2>3
<1>5. Proofs!Next /\ Typed /\ Weighed
  <2>1. CASE CFS!Refuse
    <3>1. Proofs!Reject
      BY <2>1 DEF CFS!Refuse, Proofs!Reject, CFS!OptionsAccepted, Proofs!OptionsAccepted,
         CFS!HorizonOf, Proofs!HorizonOf, CFS!procVars, Proofs!procVars, CFS!Max,
         CFS!SumFunction, CFS!SumFunctionOnSet, CFS!FoldFunctionOnSet, CFS!MapThenFoldSet,
         Proofs!Max, Proofs!SumFunction, Proofs!SumFunctionOnSet, Proofs!FoldFunctionOnSet,
         Proofs!MapThenFoldSet
    <3>2. UNCHANGED <<ready, vruntime, minVruntime>> /\ Proofs!Emptied'
      BY <2>1 DEF CFS!Refuse, CFS!cfsVars, Proofs!Emptied
    <3> QED BY <1>1, <1>2, <3>1, <3>2 DEF Proofs!Next, Proofs!EngineStep
  <2>2. CASE \E p \in Procs : CFS!Arrive(p) \/ CFS!BecomeReady(p)
    <3>1. PICK p \in Procs : CFS!Arrive(p) \/ CFS!BecomeReady(p)
      BY <2>2
    <3>2. CFS!SleeperFloor \in Int
      <4>1. Latency \in Int /\ NiceUnit \in Int
        BY QuantumAssumption
      <4>2. \A a, b \in Int : a * b \in Int
        OBVIOUS
      <4>3. (Latency * NiceUnit) \div 2 \in Int
        BY <4>1, <4>2, DivFacts
      <4> QED BY <1>2, <4>3 DEF CFS!SleeperFloor
    <3>3. PICK x \in Int : CFS!Enqueue(p, x)
      BY <1>2, <3>1, <3>2 DEF CFS!Arrive, CFS!BecomeReady, CFS!StartOfNew
    <3>4. (Proofs!Admit(p) \/ Proofs!WakeUp(p)) /\ runnableWeight' = runnableWeight + Weights[p]
      BY <1>3, <3>1, CfsEngine, EngineMonotone DEF CFS!Arrive, CFS!BecomeReady
    <3>5. ready' = ready \cup {p} /\ Typed
      BY <1>4, <3>3
    <3>6. Proofs!Arrive(p) \/ Proofs!BecomeReady(p)
      BY <1>1, <3>4, <3>5 DEF Proofs!Arrive, Proofs!BecomeReady
    <3>7. /\ ~Proofs!Emptied /\ p \notin Proofs!Competing
          /\ Proofs!Competing' = Proofs!Competing \cup {p}
      BY <3>6, ProofsAssumptions, Proofs!CompetingJoin
    <3>8. Weighed
      <4>1. PICK S \in SUBSET Procs : S = Proofs!Competing \cup {p}
        BY <1>3, <3>7
      <4>2. p \in S /\ S \ {p} = Proofs!Competing
        BY <3>7, <4>1
      <4>3. /\ SumFunctionOnSet(Weights, S)
                 = Weights[p] + SumFunctionOnSet(Weights, Proofs!Competing)
            /\ SumFunctionOnSet(Weights, Proofs!Competing) \in Nat
        BY <1>2, <4>2, Reweighed
      <4>4. Weights[p] \in Nat
        BY <1>2
      <4> QED BY <1>3, <3>4, <3>7, <4>1, <4>3, <4>4
    <3> QED BY <3>5, <3>6, <3>8 DEF Proofs!Next
  <2>3. CASE \E c \in CFS!Cores : CFS!SliceEndsBurst(c) \/ CFS!SlicePreempted(c)
    <3>1. PICK c \in Proofs!Cores : CFS!SliceEndsBurst(c) \/ CFS!SlicePreempted(c)
      BY <2>3 DEF CFS!Cores, Proofs!Cores
    <3>2. PICK p : p = core[c].proc
      OBVIOUS
    <3>3. Proofs!EndRun(c)
      BY <3>1, CfsEngine, EngineMonotone DEF CFS!SliceEndsBurst, CFS!SlicePreempted,
         Proofs!Complete, Proofs!Block, Proofs!Preempt
    <3>4. p \in Procs /\ CFS!Charged(c) \in Int
      BY <3>2, <3>3, RanType, CfsCharged
    <3>5. CASE CFS!SliceEndsBurst(c)
      <4>1. /\ Proofs!Complete(c) \/ Proofs!Block(c)
            /\ vruntime' = [vruntime EXCEPT ![p] = CFS!Charged(c)]
            /\ runnableWeight' = runnableWeight - Weights[p]
            /\ UNCHANGED <<ready, minVruntime>>
        BY <1>3, <3>2, <3>4, <3>5, CfsEngine, EngineMonotone DEF CFS!SliceEndsBurst, CFS!Leaving
      <4>2. Typed
        BY <1>2, <3>4, <4>1
      <4>3. Proofs!SliceCompletes(c) \/ Proofs!SliceBlocks(c)
        BY <1>1, <4>1 DEF Proofs!SliceCompletes, Proofs!SliceBlocks
      <4>4. /\ ~Proofs!Emptied /\ p \in Proofs!Competing
            /\ Proofs!Competing' = Proofs!Competing \ {p}
        BY <3>2, <4>3, ProofsAssumptions, Proofs!CompetingLeave
      <4>5. Weighed
        <5>1. PICK S \in SUBSET Procs : S = Proofs!Competing
          BY <1>3, <4>4
        <5>2. /\ SumFunctionOnSet(Weights, S) = Weights[p] + SumFunctionOnSet(Weights, S \ {p})
              /\ SumFunctionOnSet(Weights, S \ {p}) \in Nat
          BY <1>2, <4>4, <5>1, Reweighed
        <5>3. Weights[p] \in Nat
          BY <1>2, <3>4
        <5> QED BY <1>3, <4>1, <4>4, <5>1, <5>2, <5>3
      <4> QED BY <4>2, <4>3, <4>5 DEF Proofs!Next
    <3>6. CASE CFS!SlicePreempted(c)
      <4>1. /\ Proofs!Preempt(c) /\ CFS!Enqueue(p, CFS!Charged(c))
            /\ runnableWeight' = runnableWeight
        BY <3>2, <3>6, CfsEngine, EngineMonotone DEF CFS!SlicePreempted
      <4>2. ready' = ready \cup {p} /\ Typed
        BY <1>4, <3>4, <4>1
      <4>3. Proofs!SlicePreempted(c)
        BY <1>1, <3>2, <4>1, <4>2 DEF Proofs!SlicePreempted
      <4>4. Proofs!Next
        BY <4>3 DEF Proofs!Next
      <4>5. Proofs!Inv'
        BY <4>4, ProofsAssumptions, Proofs!NextInv
      <4>6. Weighed
        <5> SUFFICES ASSUME ~Proofs!Emptied' PROVE Weighed
          OBVIOUS
        <5>1. ~Proofs!Emptied /\ Proofs!Competing' = Proofs!Competing
          BY <4>3, <4>5, ProofsAssumptions, Proofs!CompetingStay
        <5> QED BY <1>3, <4>1, <5>1
      <4> QED BY <4>2, <4>4, <4>6
    <3> QED BY <3>1, <3>5, <3>6
  <2>4. CASE CFS!NextSlice
    <3>1. PICK p : p = CFS!Least
      OBVIOUS
    <3>2. PICK n : n = CFS!Max({CFS!Share(p), MinGran})
      OBVIOUS
    <3>3. /\ ready # {} /\ ready' = ready \ {p}
          /\ minVruntime' = CFS!Advanced(ready', vruntime)
          /\ vruntime' = vruntime /\ runnableWeight' = runnableWeight
          /\ Proofs!Pick(Proofs!Slice(p, n, Proofs!NoDeadline))
      BY <2>4, <3>1, <3>2, CfsEngine, EngineMonotone DEF CFS!NextSlice
    <3>4. p \in ready
      BY <1>2, <3>1, <3>3, CfsLeast
    <3>5. Typed
      <4>1. ready' \in SUBSET Procs
        BY <1>2, <3>3
      <4> QED BY <1>2, <3>3, <4>1, AdvancedType
    <3>6. ~Proofs!Emptied /\ p \in Proofs!Competing
      BY <1>1, <3>3, <3>4 DEF Proofs!Pick, Proofs!WantsPick, Proofs!Emptied, Proofs!Competing
    <3>7. n \in 1..MaxTime
      BY <3>2, <3>6, CfsSlice
    <3> DEFINE s == Proofs!Slice(p, n, Proofs!NoDeadline)
    <3>8. s \in Proofs!SlicesFor(p) /\ Proofs!NextSlice(s)
      BY <1>1, <3>3, <3>7 DEF Proofs!SlicesFor, Proofs!Slice, Proofs!NextSlice
    <3>9. Proofs!Next
      BY <1>1, <3>4, <3>8 DEF Proofs!Next
    <3>10. Proofs!Inv'
      BY <3>9, ProofsAssumptions, Proofs!NextInv
    <3>11. Weighed
      <4> SUFFICES ASSUME ~Proofs!Emptied' PROVE Weighed
        OBVIOUS
      <4>1. \E q \in Ready : \E t \in Proofs!SlicesFor(q) : Proofs!NextSlice(t)
        BY <1>1, <3>4, <3>8
      <4>2. Proofs!Competing' = Proofs!Competing
        BY <3>10, <4>1, ProofsAssumptions, Proofs!CompetingStay
      <4> QED BY <1>3, <3>3, <3>6, <4>2
    <3> QED BY <3>5, <3>9, <3>11
  <2>5. CASE \/ CFS!StopPicking
             \/ CFS!EngineStep /\ UNCHANGED CFS!cfsVars
    <3>1. /\ Proofs!StopPicking \/ (Proofs!EngineStep /\ UNCHANGED Ready)
          /\ UNCHANGED <<vruntime, minVruntime, runnableWeight>>
      BY <1>1, <2>5, CfsEngine, EngineMonotone
      DEF CFS!StopPicking, CFS!cfsVars, Proofs!StopPicking, Proofs!MayDecline
    <3>2. Proofs!Next
      BY <3>1 DEF Proofs!Next
    <3>3. Proofs!Inv'
      BY <3>2, ProofsAssumptions, Proofs!NextInv
    <3>4. Weighed
      <4> SUFFICES ASSUME ~Proofs!Emptied' PROVE Weighed
        OBVIOUS
      <4>1. ~Proofs!Emptied /\ Proofs!Competing' = Proofs!Competing
        BY <3>1, <3>3, ProofsAssumptions, Proofs!CompetingStay
      <4> QED BY <1>3, <3>1, <4>1
    <3> QED BY <1>2, <3>1, <3>2, <3>4
  <2> QED BY <2>1, <2>2, <2>3, <2>4, <2>5 DEF CFS!Next
<1>6. w' = w
  BY <1>5, ProofsAssumptions, Proofs!WorkloadKept
<1>7. Weights' = Weights
  BY <1>6 DEF Weights, CFS!Weight
<1> QED BY <1>2, <1>5, <1>7 DEF CfsInv
-----------------------------------------------------------------------------
(* The refinement *)

\* lottery is left to TLC: who is ready is read back from sums in its tree
IInv ==
    /\ Proofs!Inv /\ policy \in {"rr", "stride", "cfs"}
    /\ RrInv /\ StrideInv /\ CfsInv

LEMMA NobodyCompetes == ASSUME Proofs!Init PROVE Proofs!Competing = {}
<1>1. \A c \in Proofs!Cores : core[c].proc = None
  BY DEF Proofs!Init, Proofs!EngineInit, Proofs!FreshCore
<1>2. Proofs!OnCore = {}
  BY <1>1 DEF Proofs!Busy, Proofs!Free, Proofs!OnCore
<1>3. picks = <<>> /\ Ready = {}
  BY DEF Proofs!Init, Proofs!EngineInit
<1>4. Proofs!Picked = {}
  BY <1>3 DEF Proofs!Picked
<1> QED BY <1>2, <1>3, <1>4 DEF Proofs!Competing

LEMMA RefinementInit == ASSUME Init, policy # "lottery" PROVE Proofs!Init /\ IInv
<1>1. \A name \in DOMAIN WorkloadsOf : WorkloadsOf[name] \subseteq Workloads
  BY QuantumAssumption
<1>2. CASE policy = "rr"
  <2>1. RR!EngineInit /\ queue = <<>>
    BY <1>2 DEF Init, RR!Init
  <2>2. Proofs!Init
    BY <1>1, <1>2, <2>1, RrEngine, EngineMonotone DEF Init, Proofs!Init, Ready, ToSet
  <2>3. RrInv
    BY <2>1 DEF RrInv, IsInjective
  <2> QED
    BY <1>2, <2>2, <2>3, Proofs!InitInv, ProofsAssumptions DEF IInv, StrideInv, CfsInv
<1>3. CASE policy = "stride"
  <2>1. /\ Str!EngineInit /\ ready = {} /\ pass = [p \in Procs |-> 0] /\ vtime = 0
    BY <1>3 DEF Init, Str!Init
  <2>2. Proofs!Init
    BY <1>1, <1>3, <2>1, StrideEngine, EngineMonotone DEF Init, Proofs!Init, Ready
  <2>3. w \in WorkloadsOf["stride"]
    BY <2>1 DEF Str!EngineInit
  <2>4. StrideInv
    BY <2>1, <2>3, QuantumAssumption DEF StrideInv
  <2> QED
    BY <1>3, <2>2, <2>4, Proofs!InitInv, ProofsAssumptions DEF IInv, RrInv, CfsInv
<1>4. CASE policy = "cfs"
  <2>1. /\ CFS!EngineInit /\ ready = {} /\ vruntime = [p \in Procs |-> 0]
        /\ minVruntime = 0 /\ runnableWeight = 0
    BY <1>4 DEF Init, CFS!Init
  <2>2. Proofs!Init
    BY <1>1, <1>4, <2>1, CfsEngine, EngineMonotone DEF Init, Proofs!Init, Ready
  <2>3. w \in WorkloadsOf["cfs"]
    BY <2>1 DEF CFS!EngineInit
  <2>4. Weights \in [Procs -> Nat \ {0}]
    BY <2>3, QuantumAssumption DEF Weights, CFS!Weight
  <2>5. CfsInv
    BY <2>1, <2>2, <2>4, NobodyCompetes, SumEmpty DEF CfsInv
  <2> QED
    BY <1>4, <2>2, <2>5, Proofs!InitInv, ProofsAssumptions DEF IInv, RrInv, StrideInv
<1> QED BY <1>2, <1>3, <1>4 DEF Init

LEMMA RefinementStep ==
    ASSUME IInv, [Next]_vars PROVE [Proofs!Next]_(Proofs!vars) /\ IInv'
<1>1. CASE UNCHANGED vars
  <2>1. /\ UNCHANGED <<queue, ready, policy>> /\ UNCHANGED engineVars
        /\ UNCHANGED <<pass, vtime, vruntime, minVruntime, runnableWeight>>
        /\ UNCHANGED <<tree, total>>
    BY <1>1 DEF vars, rrVars, lotteryVars, strideVars, cfsVars
  <2>2. UNCHANGED Ready
    BY <2>1 DEF Ready, IInv
  <2>3. UNCHANGED Proofs!vars
    BY <2>1, <2>2 DEF Proofs!vars, Proofs!engineVars, engineVars, Proofs!procVars, procVars,
                      Proofs!resultVars, resultVars
  <2>4. Proofs!Inv'
    BY <2>3, Proofs!NextInv, ProofsAssumptions DEF IInv
  <2>5. RrInv' /\ StrideInv'
    BY <2>1 DEF IInv, RrInv, StrideInv, engineVars
  <2>6. CfsInv'
    <3>1. Weights' = Weights
      BY <2>1 DEF Weights, CFS!Weight, engineVars
    <3>2. Proofs!Competing' = Proofs!Competing /\ (Proofs!Emptied' <=> Proofs!Emptied)
      BY <2>1, <2>2 DEF Proofs!Competing, Proofs!Picked, Proofs!OnCore, Proofs!Busy,
         Proofs!Free, Proofs!Emptied, engineVars, resultVars
    <3> QED BY <2>1, <3>1, <3>2 DEF IInv, CfsInv
  <2> QED BY <2>1, <2>3, <2>4, <2>5, <2>6 DEF IInv
<1>2. CASE Next
  <2>1. UNCHANGED policy
    BY <1>2 DEF Next
  <2>2. Proofs!Next /\ RrInv' /\ StrideInv' /\ CfsInv'
    <3>1. CASE policy = "rr"
      <4>1. RR!Next
        BY <1>2, <3>1 DEF Next
      <4> QED BY <2>1, <3>1, <4>1, RrStep DEF IInv, StrideInv, CfsInv
    <3>2. CASE policy = "stride"
      <4>1. Str!Next
        BY <1>2, <3>2 DEF Next
      <4>2. Proofs!Next /\ pass' \in [Procs -> Int] /\ vtime' \in Int
        BY <2>1, <3>2, <4>1, StrideStep DEF IInv
      <4>3. w' = w
        BY <4>2, ProofsAssumptions, Proofs!WorkloadKept
      <4> QED BY <2>1, <3>2, <4>2, <4>3 DEF IInv, RrInv, StrideInv, CfsInv
    <3>3. CASE policy = "cfs"
      <4>1. CFS!Next
        BY <1>2, <3>3 DEF Next
      <4> QED BY <2>1, <3>3, <4>1, CfsStep DEF IInv, RrInv, StrideInv
    <3> QED BY <3>1, <3>2, <3>3 DEF IInv
  <2>3. Proofs!Inv'
    BY <2>2, Proofs!NextInv, ProofsAssumptions DEF IInv
  <2> QED BY <2>1, <2>2, <2>3 DEF IInv
<1> QED BY <1>1, <1>2

(* Under rr, stride and cfs every initial state is one of AnyPolicy and    *)
(* every step is one of its steps or a stutter: a preempted process is     *)
(* queued once, the least by pass or vruntime exists and is ready, and the *)
(* slice of cfs, a quotient of products, covers a tick and fits the clock  *)
(* because the runnable weight counts the chosen process too (rr.c,        *)
(* stride.c, cfs.c:128-137).                                               *)
THEOREM ImplementsAnyPolicy == Spec /\ policy # "lottery" => Abstract!Spec
<1>1. Init /\ policy # "lottery" => Abstract!Init /\ IInv
  BY RefinementInit, ProofsOfAbstract
<1>2. IInv /\ [Next]_vars => [Abstract!Next]_(Abstract!vars) /\ IInv'
  <2>1. Abstract!vars = Proofs!vars /\ Abstract!vars' = Proofs!vars'
    BY DEF Abstract!vars, Proofs!vars, Abstract!engineVars, Proofs!engineVars,
           Abstract!procVars, Proofs!procVars, Abstract!resultVars, Proofs!resultVars
  <2> QED
    BY <2>1, RefinementStep, ProofsOfAbstract
<1> QED
  BY <1>1, <1>2, PTL DEF Spec, Abstract!Spec

(* So their runs have what is proved of AnyPolicy: no process is lost or   *)
(* held twice between the policy and the engine, slices end within what    *)
(* was granted, the timelines touch, and no time overflows; a finished     *)
(* schedule serves every process exactly, leaves no core idle while one    *)
(* waits, and accounts for its switches.                                   *)
THEOREM EngineGuarantees ==
    Spec /\ policy # "lottery" =>
        []/\ Proofs!OnePlace /\ Proofs!RanWithinSlice
          /\ Proofs!TimelinesContiguous /\ Proofs!OverflowUnreachable
          /\ Proofs!ServedExactly /\ Proofs!NoIdleWhileReady /\ Proofs!SwitchesAccounted
<1>1. Init /\ policy # "lottery" => Proofs!Init /\ IInv
  BY RefinementInit
<1>2. IInv /\ [Next]_vars => [Proofs!Next]_(Proofs!vars) /\ IInv'
  BY RefinementStep
<1>3. Spec /\ policy # "lottery" => Proofs!Spec
  BY <1>1, <1>2, PTL DEF Spec, Proofs!Spec
<1>4. Proofs!Spec => []Proofs!OnePlace /\ []Proofs!RanWithinSlice
  BY ProofsAssumptions, Proofs!OnePlaceHolds, Proofs!RanWithinSliceHolds
<1>5. Proofs!Spec => []Proofs!TimelinesContiguous /\ []Proofs!OverflowUnreachable
  BY ProofsAssumptions, Proofs!TimelinesContiguousHolds, Proofs!OverflowUnreachableHolds
<1>6. Proofs!Spec => []Proofs!ServedExactly
  BY ProofsAssumptions, Proofs!ServedExactlyHolds
<1>7. Proofs!Spec => []Proofs!NoIdleWhileReady /\ []Proofs!SwitchesAccounted
  BY ProofsAssumptions, Proofs!NoIdleWhileReadyHolds, Proofs!SwitchesAccountedHolds
<1> QED
  BY <1>3, <1>4, <1>5, <1>6, <1>7, PTL

(* The weight by which cfs shares its latency is, at every moment, that of *)
(* the processes that compete for the CPU: arrivals, wake-ups, preemptions *)
(* and slice ends of several cores at one instant never count a process    *)
(* twice or leave one in (cfs.c:8-9).                                      *)
THEOREM RunnableWeightExactHolds == Spec => []RunnableWeightExact
<1> DEFINE Lotteried == policy = "lottery"
<1>1. Init /\ ~Lotteried => IInv
  BY RefinementInit
<1>2. IInv /\ [Next]_vars => IInv'
  BY RefinementStep
<1>3. IInv => RunnableWeightExact
  <2> SUFFICES ASSUME IInv, policy = "cfs", ~CFS!Emptied
               PROVE  runnableWeight = CFS!SumFunctionOnSet([p \in Procs |-> CFS!Weight(p)],
                                          ready \cup CFS!Picked \cup CFS!OnCore)
    BY DEF RunnableWeightExact, CFS!RunnableWeightExact
  <2>1. runnableWeight = SumFunctionOnSet(Weights, Proofs!Competing)
    BY DEF IInv, CfsInv, CFS!Emptied, Proofs!Emptied
  <2>2. Proofs!Competing = ready \cup CFS!Picked \cup CFS!OnCore
    BY DEF Ready, Proofs!Competing, Proofs!Picked, Proofs!OnCore, Proofs!Busy, Proofs!Free,
       Proofs!Cores, CFS!Picked, CFS!OnCore, CFS!Busy, CFS!Free, CFS!Cores
  <2>3. \A f, S : SumFunctionOnSet(f, S) = CFS!SumFunctionOnSet(f, S)
    BY DEF SumFunctionOnSet, FoldFunctionOnSet, MapThenFoldSet, CFS!SumFunctionOnSet,
       CFS!FoldFunctionOnSet, CFS!MapThenFoldSet
  <2> QED BY <2>1, <2>2, <2>3 DEF Weights
<1>4. Lotteried => RunnableWeightExact
  BY DEF RunnableWeightExact
<1>5. Lotteried /\ [Next]_vars => Lotteried'
  BY DEF Next, vars
<1> HIDE DEF Lotteried
<1> QED
  BY <1>1, <1>2, <1>3, <1>4, <1>5, PTL DEF Spec
-----------------------------------------------------------------------------
(* pass and vruntime are covered by the CPU time used                      *)

StrideBound ==
    policy = "stride" =>
        /\ vtime <= Stride1 * Proofs!TotalUsed
        /\ \A p \in Procs : pass[p] <= Stride1 * Proofs!TotalUsed
        /\ Str!PassesFit \/ (stage \in {"create", "done"} /\ \A p \in Procs : pass[p] <= 0)

LEMMA Products ==
    /\ \A a, b, c \in Int : a * (b + c) = a * b + a * c /\ a * b \in Int
    /\ \A a, b \in Int : \A n \in Nat : a <= b => a * n <= b * n /\ n * a <= n * b
OBVIOUS

LEMMA StrideCharge ==
    ASSUME StrideInv, policy = "stride", NEW p \in Procs, NEW n \in Nat, NEW x \in Int, NEW u \in Int,
           x <= Stride1 * u
    PROVE  x + Str!StrideOf(p) * n <= Stride1 * (u + n)
<1>1. PICK t \in Nat \ {0} : t = w.tickets[p]
  BY DEF StrideInv
<1>2. PICK s \in Nat : s = Stride1
  BY QuantumAssumption
<1>3. PICK d \in Int : d = s \div t
  BY <1>1
<1>4. d <= s
  <2>1. PICK one \in Nat : one = 1
    OBVIOUS
  <2>2. one <= t
    BY <1>1, <2>1
  <2>3. (s * one) \div t \in 0..s
    BY <1>1, <1>2, <2>1, <2>2, PartOfWhole
  <2>4. s * one = s
    BY <1>2, <2>1
  <2> QED BY <1>3, <2>3, <2>4
<1>5. d * n <= s * n /\ s * (u + n) = s * u + s * n /\ d * n \in Int /\ s * n \in Int /\ s * u \in Int
  BY <1>4, Products
<1>6. Str!StrideOf(p) = d
  BY <1>1, <1>2, <1>3 DEF Str!StrideOf
<1> QED BY <1>2, <1>5, <1>6

LEMMA StrideBoundStep ==
    ASSUME Proofs!Inv, Proofs!Inv', StrideInv, StrideBound, policy = "stride", UNCHANGED policy,
           Str!Next
    PROVE  StrideBound'
<1> DEFINE U == Proofs!TotalUsed
           K == Stride1 * U
<1>1. /\ pass \in [Procs -> Int] /\ vtime \in Int /\ Ready = ready /\ Ready' = ready'
      /\ ready \in SUBSET Procs
  BY DEF StrideInv, Ready, Proofs!Inv, Proofs!TypeOK
<1>2. U \in Int /\ Stride1 \in Nat /\ K \in Int
  BY ProofsAssumptions, Proofs!TotalUsedType, QuantumAssumption, Products
<1>3. vtime <= K /\ \A p \in Procs : pass[p] <= K
  BY DEF StrideBound
<1>f. ASSUME UNCHANGED w PROVE Str!PassesFit' = Str!PassesFit
  BY <1>f DEF Str!PassesFit, Str!CpuOf
<1> HIDE DEF K
<1>4. CASE Str!Refuse
  <2>1. UNCHANGED <<w, phase, remaining, pass, vtime>> /\ stage' = "done" /\ stage = "create"
    BY <1>4 DEF Str!Refuse, Str!strideVars, Str!procVars
  <2>2. Proofs!TotalUsed' = U
    BY <2>1, ProofsAssumptions, Proofs!UsedSame
  <2> QED BY <1>3, <1>f, <2>1, <2>2 DEF StrideBound, K
<1>5. CASE \E p \in Procs : Str!Arrive(p) \/ Str!BecomeReady(p)
  <2>1. PICK p \in Procs : Str!Arrive(p) \/ Str!BecomeReady(p)
    BY <1>5
  <2>2. /\ Proofs!Admit(p) \/ Proofs!WakeUp(p)
        /\ vtime' = vtime
        /\ \/ pass' = [pass EXCEPT ![p] = vtime]
           \/ pass' = [pass EXCEPT ![p] = IF pass[p] < vtime THEN vtime ELSE pass[p]]
    BY <2>1, StrideEngine, EngineMonotone DEF Str!Arrive, Str!BecomeReady, Str!Push,
       Str!Joining, Str!Rejoining
  <2>3. Proofs!TotalUsed' = U /\ w' = w /\ stage \notin {"create", "done"}
    BY <2>2, ProofsAssumptions, Proofs!QuietUsed, Proofs!StagesKept
  <2>4. \A q \in Procs : pass'[q] <= K
    BY <1>1, <1>2, <1>3, <2>2
  <2> QED BY <1>3, <1>f, <2>2, <2>3, <2>4 DEF StrideBound, K
<1>6. CASE \E c \in Str!Cores : Str!SliceEndsBurst(c) \/ Str!SlicePreempted(c)
  <2>1. PICK c \in Proofs!Cores : Str!SliceEndsBurst(c) \/ Str!SlicePreempted(c)
    BY <1>6 DEF Str!Cores, Proofs!Cores
  <2>2. PICK p : p = core[c].proc
    OBVIOUS
  <2>3. /\ Proofs!Complete(c) \/ Proofs!Block(c) \/ Proofs!Preempt(c)
        /\ pass' = [pass EXCEPT ![p] = Str!Charged(p, c)] /\ vtime' = vtime
    BY <2>1, <2>2, StrideEngine, EngineMonotone
    DEF Str!SliceEndsBurst, Str!SlicePreempted, Str!Push
  <2>4. Proofs!EndRun(c) /\ w' = w
    BY <2>3 DEF Proofs!Complete, Proofs!Block, Proofs!Preempt, Proofs!EndRun
  <2>5. PICK n \in Nat : n = Proofs!Ran(c) /\ Proofs!TotalUsed' = U + n
    BY <2>3, ProofsAssumptions, Proofs!EndRunUsed
  <2>6. p \in Procs /\ stage \notin {"create", "done"} /\ Str!Ran(c) = n
    BY <2>2, <2>4, <2>5, RanType, ProofsAssumptions, Proofs!StagesKept DEF Str!Ran, Proofs!Ran
  <2>7. Str!Charged(p, c) <= Stride1 * (U + n)
    BY <1>1, <1>2, <1>3, <2>6, StrideCharge DEF Str!Charged, K
  <2>8. K <= Stride1 * (U + n)
    <3>1. Stride1 * (U + n) = K + Stride1 * n /\ Stride1 * n \in Nat
      BY <1>2 DEF K
    <3> QED BY <1>2, <3>1
  <2>9. Stride1 * (U + n) \in Int
    BY <1>2
  <2>10. \A q \in Procs : pass'[q] <= Stride1 * (U + n)
    BY <1>1, <1>2, <1>3, <2>3, <2>6, <2>7, <2>8, <2>9
  <2>11. vtime' <= Stride1 * (U + n)
    BY <1>1, <1>2, <1>3, <2>3, <2>8, <2>9
  <2>12. Str!PassesFit'
    BY <1>f, <2>4, <2>6 DEF StrideBound
  <2> QED BY <2>5, <2>10, <2>11, <2>12 DEF StrideBound
<1>7. CASE Str!NextSlice
  <2>1. PICK p : p = Str!Least
    OBVIOUS
  <2>2. /\ ready # {} /\ vtime' = pass[p] /\ pass' = pass
        /\ Proofs!Pick(Proofs!Slice(p, Quantum, Proofs!NoDeadline))
    BY <1>7, <2>1, StrideEngine, EngineMonotone DEF Str!NextSlice
  <2>3. p \in Procs
    BY <1>1, <2>1, <2>2, StrideLeast
  <2>4. Proofs!TotalUsed' = U /\ w' = w /\ stage \notin {"create", "done"}
    BY <2>2, ProofsAssumptions, Proofs!QuietUsed, Proofs!StagesKept
  <2> QED BY <1>3, <1>f, <2>2, <2>3, <2>4 DEF StrideBound, K
<1>8. CASE Str!StopPicking
  <2>1. Proofs!PicksDone /\ UNCHANGED <<pass, vtime>>
    BY <1>8, StrideEngine, EngineMonotone DEF Str!StopPicking, Str!strideVars
  <2>2. Proofs!TotalUsed' = U /\ w' = w /\ stage \notin {"create", "done"}
    BY <2>1, ProofsAssumptions, Proofs!QuietUsed, Proofs!StagesKept
  <2> QED BY <1>3, <1>f, <2>1, <2>2 DEF StrideBound, K
<1>9. CASE /\ stage = "create" /\ Str!OptionsAccepted => Str!PassesFit
           /\ Str!EngineStep /\ UNCHANGED Str!strideVars
  <2>1. Proofs!EngineStep /\ UNCHANGED <<pass, vtime>>
    BY <1>9, StrideEngine, EngineMonotone DEF Str!strideVars
  <2>2. Proofs!TotalUsed' = U /\ w' = w
    BY <2>1, ProofsAssumptions, Proofs!QuietUsed
  <2>3. Str!PassesFit' \/ (stage' \in {"create", "done"} /\ \A p \in Procs : pass'[p] <= 0)
    <3>1. CASE Str!PassesFit
      BY <1>f, <2>2, <3>1
    <3>2. CASE ~Str!PassesFit
      <4>1. stage \in {"create", "done"} /\ \A p \in Procs : pass[p] <= 0
        BY <3>2 DEF StrideBound
      <4>2. Str!OptionsAccepted <=> Proofs!OptionsAccepted
        BY DEF Str!OptionsAccepted, Proofs!OptionsAccepted, Str!HorizonOf, Proofs!HorizonOf,
           Str!Max, Str!SumFunction, Str!SumFunctionOnSet, Str!FoldFunctionOnSet,
           Str!MapThenFoldSet, Proofs!Max, Proofs!SumFunction, Proofs!SumFunctionOnSet,
           Proofs!FoldFunctionOnSet, Proofs!MapThenFoldSet
      <4>3. stage' \in {"create", "done"}
        BY <1>9, <2>1, <3>2, <4>1, <4>2, ProofsAssumptions, Proofs!StagesKept
      <4> QED BY <2>1, <4>1, <4>3
    <3> QED BY <3>1, <3>2
  <2> QED BY <1>3, <2>1, <2>2, <2>3 DEF StrideBound, K
<1> QED BY <1>4, <1>5, <1>6, <1>7, <1>8, <1>9 DEF Str!Next

(* The vruntime charged for n ticks at weight wt is at most n ticks at the *)
(* least weight.                                                           *)
LEMMA DeltaBound ==
    ASSUME NEW n \in Nat, NEW wt \in Nat \ {0}, NEW lw \in Nat, lw <= wt
    PROVE  CFS!VruntimeDelta(n, wt) \in Nat /\ CFS!VruntimeDelta(n, wt) * lw <= Unit * n
<1>1. PICK u \in Nat : u = Unit
  BY QuantumAssumption
<1>2. PICK d \in Nat, r \in Nat : d = n \div wt /\ r = n % wt /\ n = d * wt + r
  <2>1. n \div wt \in Nat /\ n % wt \in Nat /\ n = (n \div wt) * wt + (n % wt)
    BY SMTT(30)
  <2> QED BY <2>1
<1>3. PICK x \in Nat : x = r * u
  <2>1. r * u \in Nat
    OBVIOUS
  <2> QED BY <2>1
<1>4. PICK e \in Nat : e = x \div wt /\ e * wt <= x
  <2>1. x \div wt \in Nat /\ (x \div wt) * wt <= x
    BY DivFacts, SMTT(30)
  <2> QED BY <2>1
<1>5. CFS!VruntimeDelta(n, wt) = d * u + e
  BY <1>1, <1>2, <1>3, <1>4 DEF CFS!VruntimeDelta
<1>6. d * u \in Nat /\ d * u + e \in Nat
  OBVIOUS
<1>7. (d * u + e) * lw <= (d * u + e) * wt
  BY <1>6, Products
<1>8. (d * u + e) * wt = (d * wt) * u + e * wt
  OBVIOUS
<1>9. u * n = (d * wt) * u + r * u
  BY <1>2
<1>10. /\ (d * u + e) * lw \in Int /\ (d * u + e) * wt \in Int /\ (d * wt) * u \in Int
       /\ e * wt \in Int
  OBVIOUS
<1> QED BY <1>1, <1>3, <1>4, <1>5, <1>6, <1>7, <1>8, <1>9, <1>10

LEMMA LeastWeightFacts ==
    ASSUME Weights \in [Procs -> Nat \ {0}]
    PROVE  /\ CFS!LeastWeight \in Nat \ {0}
           /\ \A p \in Procs : CFS!LeastWeight <= CFS!Weight(p)
<1>1. PICK x \in Procs : \A y \in Procs \ {x} :
         Weights[x] < Weights[y] \/ (Weights[x] = Weights[y] /\ x < y)
  <2>1. Weights \in [Procs -> Int] /\ Procs # {}
    BY EngineAssumption
  <2> QED BY <2>1, LeastByKey
<1>2. \A y \in Procs : Weights[x] <= Weights[y]
  BY <1>1
<1>3. \A y \in Procs : Weights[y] = CFS!Weight(y) /\ CFS!Weight(y) \in Nat \ {0}
  BY DEF Weights
<1>4. \E m \in {CFS!Weight(q) : q \in Procs} : \A y \in {CFS!Weight(q) : q \in Procs} : m <= y
  BY <1>1, <1>2, <1>3
<1>5. /\ CFS!LeastWeight \in {CFS!Weight(q) : q \in Procs}
      /\ \A y \in {CFS!Weight(q) : q \in Procs} : CFS!LeastWeight <= y
  BY <1>4 DEF CFS!LeastWeight, CFS!Min
<1> QED BY <1>3, <1>5

\* min_vruntime follows the queue: its new value is the old one or that of some process
LEMMA AdvancedValue ==
    ASSUME minVruntime \in Int, NEW S \in SUBSET Procs, NEW v \in [Procs -> Int]
    PROVE  CFS!Advanced(S, v) = minVruntime \/ \E p \in S : CFS!Advanced(S, v) = v[p]
<1> DEFINE m == CFS!Min({v[p] : p \in S})
<1>1. CASE S = {}
  <2>1. CFS!Advanced(S, v) = CFS!Max({minVruntime})
    BY <1>1 DEF CFS!Advanced
  <2> QED BY <2>1 DEF CFS!Max
<1>2. CASE S # {}
  <2>1. PICK x \in S : \A y \in S \ {x} : v[x] < v[y] \/ (v[x] = v[y] /\ x < y)
    BY <1>2, LeastByKey
  <2>2. v[x] \in Int /\ \A y \in S : v[y] \in Int /\ v[x] <= v[y]
    BY <2>1
  <2>3. m \in {v[p] : p \in S}
    BY <2>2 DEF CFS!Min
  <2>4. m \in Int
    BY <2>3
  <2>5. CFS!Advanced(S, v) = CFS!Max({minVruntime, m})
    <3>1. {m : q \in S} = {m}
      BY <1>2
    <3>2. {minVruntime} \cup {m : q \in S} = {minVruntime, m}
      BY <3>1
    <3> QED BY <3>2 DEF CFS!Advanced
  <2>6. \A b \in Int : CFS!Max({minVruntime, b}) \in {minVruntime, b}
    <3> TAKE b \in Int
    <3>1. CASE minVruntime >= b
      <4>1. \E g \in {minVruntime, b} : \A y \in {minVruntime, b} : g >= y
        BY <3>1
      <4> QED BY <4>1 DEF CFS!Max
    <3>2. CASE b >= minVruntime
      <4>1. \E g \in {minVruntime, b} : \A y \in {minVruntime, b} : g >= y
        BY <3>2
      <4> QED BY <4>1 DEF CFS!Max
    <3> QED BY <3>1, <3>2
  <2> HIDE DEF m
  <2> QED BY <2>3, <2>4, <2>5, <2>6
<1> QED BY <1>1, <1>2

CfsBound ==
    policy = "cfs" =>
        /\ minVruntime * CFS!LeastWeight <= Unit * Proofs!TotalUsed
        /\ \A p \in Procs : vruntime[p] * CFS!LeastWeight <= Unit * Proofs!TotalUsed
        /\ CFS!Fits \/ (stage \in {"create", "done"} /\ \A p \in Procs : vruntime[p] <= 0)

LEMMA CfsBoundStep ==
    ASSUME Proofs!Inv, Proofs!Inv', CfsInv, CfsBound, policy = "cfs", UNCHANGED policy, CFS!Next
    PROVE  CfsBound'
<1> DEFINE U == Proofs!TotalUsed
           L == CFS!LeastWeight
           Covered(x, u) == x * L <= Unit * u
<1>1. /\ vruntime \in [Procs -> Int] /\ minVruntime \in Int /\ Ready = ready /\ Ready' = ready'
      /\ ready \in SUBSET Procs /\ ready' \in SUBSET Procs /\ Weights \in [Procs -> Nat \ {0}]
  BY DEF CfsInv, Ready, Proofs!Inv, Proofs!TypeOK
<1>2. U \in Int /\ Unit \in Nat /\ L \in Nat \ {0}
  BY <1>1, ProofsAssumptions, Proofs!TotalUsedType, QuantumAssumption, LeastWeightFacts
<1>3. Covered(minVruntime, U) /\ \A p \in Procs : Covered(vruntime[p], U)
  BY DEF CfsBound
<1>f. ASSUME UNCHANGED w PROVE CFS!Fits' = CFS!Fits /\ CFS!LeastWeight' = L
  BY <1>f DEF CFS!Fits, CFS!CpuOf, CFS!LeastWeight, CFS!Weight
<1>g. ASSUME NEW x \in Int, NEW u \in Int, Covered(x, u), NEW y \in Int, NEW n \in Nat, y <= x
      PROVE  Covered(y, u + n)
  <2>1. y * L <= x * L /\ y * L \in Int /\ x * L \in Int
    BY <1>2, <1>g, Products
  <2>2. Unit * (u + n) = Unit * u + Unit * n /\ Unit * u \in Int /\ Unit * n \in Nat
    BY <1>2
  <2> QED BY <1>g, <2>1, <2>2
<1>h. ASSUME NEW v \in [Procs -> Int], NEW S \in SUBSET Procs, NEW u \in Int,
             Covered(minVruntime, u), \A q \in Procs : Covered(v[q], u)
      PROVE  Covered(CFS!Advanced(S, v), u)
  BY <1>1, <1>h, AdvancedValue
<1>e. ASSUME NEW p \in Procs, NEW x \in Int, CFS!Enqueue(p, x), NEW u \in Int, Covered(x, u),
             Covered(minVruntime, u), \A q \in Procs : Covered(vruntime[q], u)
      PROVE  Covered(minVruntime', u) /\ \A q \in Procs : Covered(vruntime'[q], u)
  <2>1. vruntime' = [vruntime EXCEPT ![p] = x] /\ minVruntime' = CFS!Advanced(ready', vruntime')
    BY <1>e DEF CFS!Enqueue
  <2>2. vruntime' \in [Procs -> Int]
    BY <1>1, <2>1
  <2>3. \A q \in Procs : Covered(vruntime'[q], u)
    BY <1>1, <1>e, <2>1
  <2> HIDE DEF Covered
  <2>4. Covered(CFS!Advanced(ready', vruntime'), u)
    BY <1>1, <1>e, <1>h, <2>2, <2>3
  <2> QED BY <2>1, <2>3, <2>4
<1>s. ASSUME NEW u \in Int, Proofs!TotalUsed' = u, UNCHANGED w,
             Covered(minVruntime', u), \A q \in Procs : Covered(vruntime'[q], u),
             CFS!Fits' \/ (stage' \in {"create", "done"} /\ \A p \in Procs : vruntime'[p] <= 0)
      PROVE  CfsBound'
  BY <1>f, <1>s DEF CfsBound
<1> HIDE DEF Covered
<1>4. CASE CFS!Refuse
  <2>1. UNCHANGED <<w, phase, remaining, vruntime, minVruntime>> /\ stage' = "done" /\ stage = "create"
    BY <1>4 DEF CFS!Refuse, CFS!cfsVars, CFS!procVars
  <2>2. Proofs!TotalUsed' = U
    BY <2>1, ProofsAssumptions, Proofs!UsedSame
  <2>3. CFS!Fits' \/ (stage' \in {"create", "done"} /\ \A p \in Procs : vruntime'[p] <= 0)
    BY <1>f, <2>1 DEF CfsBound
  <2> QED BY <1>2, <1>3, <1>s, <2>1, <2>2, <2>3
<1>5. CASE \E p \in Procs : CFS!Arrive(p) \/ CFS!BecomeReady(p)
  <2>1. PICK p \in Procs : CFS!Arrive(p) \/ CFS!BecomeReady(p)
    BY <1>5
  <2>2. Proofs!Admit(p) \/ Proofs!WakeUp(p)
    BY <2>1, CfsEngine, EngineMonotone DEF CFS!Arrive, CFS!BecomeReady
  <2>3. Proofs!TotalUsed' = U /\ w' = w /\ stage \notin {"create", "done"}
    BY <2>2, ProofsAssumptions, Proofs!QuietUsed, Proofs!StagesKept
  <2>4. CFS!SleeperFloor \in Int /\ CFS!SleeperFloor <= minVruntime
    <3>1. Latency * NiceUnit \in Nat
      BY QuantumAssumption
    <3>2. (Latency * NiceUnit) \div 2 \in Nat
      BY <3>1
    <3> QED BY <1>1, <3>2 DEF CFS!SleeperFloor
  <2>5. Covered(CFS!SleeperFloor, U)
    <3>1. Covered(CFS!SleeperFloor, U + 0)
      BY <1>1, <1>2, <1>3, <1>g, <2>4
    <3> QED BY <1>2, <3>1
  <2>6. PICK x \in Int : CFS!Enqueue(p, x) /\ Covered(x, U)
    BY <1>1, <1>3, <2>1, <2>4, <2>5 DEF CFS!Arrive, CFS!BecomeReady, CFS!StartOfNew
  <2>7. Covered(minVruntime', U) /\ \A q \in Procs : Covered(vruntime'[q], U)
    BY <1>2, <1>3, <1>e, <2>6
  <2>8. CFS!Fits'
    BY <1>f, <2>3 DEF CfsBound
  <2> QED BY <1>2, <1>s, <2>3, <2>7, <2>8
<1>6. CASE \E c \in CFS!Cores : CFS!SliceEndsBurst(c) \/ CFS!SlicePreempted(c)
  <2>1. PICK c \in Proofs!Cores : CFS!SliceEndsBurst(c) \/ CFS!SlicePreempted(c)
    BY <1>6 DEF CFS!Cores, Proofs!Cores
  <2>2. PICK p : p = core[c].proc
    OBVIOUS
  <2>3. /\ Proofs!Complete(c) \/ Proofs!Block(c) \/ Proofs!Preempt(c)
        /\ \/ CFS!Enqueue(p, CFS!Charged(c))
           \/ vruntime' = [vruntime EXCEPT ![p] = CFS!Charged(c)] /\ minVruntime' = minVruntime
    BY <2>1, <2>2, CfsEngine, EngineMonotone DEF CFS!SliceEndsBurst, CFS!SlicePreempted
  <2>4. Proofs!EndRun(c) /\ w' = w
    BY <2>3 DEF Proofs!Complete, Proofs!Block, Proofs!Preempt, Proofs!EndRun
  <2>5. PICK n \in Nat : n = Proofs!Ran(c) /\ Proofs!TotalUsed' = U + n
    BY <2>3, ProofsAssumptions, Proofs!EndRunUsed
  <2>6. p \in Procs /\ stage \notin {"create", "done"} /\ CFS!Ran(c) = n
    BY <2>2, <2>4, <2>5, RanType, ProofsAssumptions, Proofs!StagesKept DEF CFS!Ran, Proofs!Ran
  <2>7. PICK d \in Nat : CFS!Charged(c) = vruntime[p] + d /\ d * L <= Unit * n
    <3>1. CFS!Weight(p) \in Nat \ {0} /\ L <= CFS!Weight(p)
      BY <1>1, <2>6, LeastWeightFacts DEF Weights
    <3>2. /\ CFS!VruntimeDelta(n, CFS!Weight(p)) \in Nat
          /\ CFS!VruntimeDelta(n, CFS!Weight(p)) * L <= Unit * n
      BY <1>2, <2>5, <3>1, DeltaBound
    <3>3. CFS!Charged(c) = vruntime[p] + CFS!VruntimeDelta(n, CFS!Weight(p))
      BY <2>2, <2>6 DEF CFS!Charged
    <3> QED BY <3>2, <3>3
  <2>8. CFS!Charged(c) \in Int /\ Covered(CFS!Charged(c), U + n)
    <3>1. vruntime[p] \in Int /\ vruntime[p] * L <= Unit * U
      BY <1>1, <1>3, <2>6 DEF Covered
    <3>2. (vruntime[p] + d) * L = vruntime[p] * L + d * L /\ vruntime[p] * L \in Int /\ d * L \in Int
      BY <1>2, <3>1
    <3>3. Unit * (U + n) = Unit * U + Unit * n /\ Unit * U \in Int /\ Unit * n \in Int
      BY <1>2
    <3> QED BY <2>7, <3>1, <3>2, <3>3 DEF Covered
  <2>9. Covered(minVruntime, U + n) /\ \A q \in Procs : Covered(vruntime[q], U + n)
    <3>1. ASSUME NEW x \in Int, Covered(x, U) PROVE Covered(x, U + n)
      <4>1. x <= x
        OBVIOUS
      <4> QED BY <1>2, <1>g, <3>1, <4>1
    <3> QED BY <1>1, <1>3, <3>1
  <2>10. U + n \in Int
    BY <1>2
  <2>11. Covered(minVruntime', U + n) /\ \A q \in Procs : Covered(vruntime'[q], U + n)
    <3>1. CASE CFS!Enqueue(p, CFS!Charged(c))
      BY <1>e, <2>6, <2>8, <2>9, <2>10, <3>1
    <3>2. CASE vruntime' = [vruntime EXCEPT ![p] = CFS!Charged(c)] /\ minVruntime' = minVruntime
      BY <1>1, <2>6, <2>8, <2>9, <3>2
    <3> QED BY <2>3, <3>1, <3>2
  <2>12. CFS!Fits'
    BY <1>f, <2>4, <2>6 DEF CfsBound
  <2> QED BY <1>s, <2>4, <2>5, <2>10, <2>11, <2>12
<1>7. CASE CFS!NextSlice
  <2>1. /\ vruntime' = vruntime /\ minVruntime' = CFS!Advanced(ready', vruntime)
        /\ \E s : Proofs!Pick(s)
    BY <1>7, CfsEngine, EngineMonotone DEF CFS!NextSlice
  <2>2. Proofs!TotalUsed' = U /\ w' = w /\ stage \notin {"create", "done"}
    BY <2>1, ProofsAssumptions, Proofs!QuietUsed, Proofs!StagesKept
  <2>3. Covered(minVruntime', U)
    BY <1>1, <1>2, <1>3, <1>h, <2>1
  <2>4. CFS!Fits'
    BY <1>f, <2>2 DEF CfsBound
  <2> QED BY <1>2, <1>3, <1>s, <2>1, <2>2, <2>3, <2>4
<1>8. CASE CFS!StopPicking
  <2>1. Proofs!PicksDone /\ UNCHANGED <<vruntime, minVruntime>>
    BY <1>8, CfsEngine, EngineMonotone DEF CFS!StopPicking, CFS!cfsVars
  <2>2. Proofs!TotalUsed' = U /\ w' = w /\ stage \notin {"create", "done"}
    BY <2>1, ProofsAssumptions, Proofs!QuietUsed, Proofs!StagesKept
  <2>3. CFS!Fits'
    BY <1>f, <2>2 DEF CfsBound
  <2> QED BY <1>2, <1>3, <1>s, <2>1, <2>2, <2>3
<1>9. CASE /\ stage = "create" /\ CFS!OptionsAccepted => CFS!Fits
           /\ CFS!EngineStep /\ UNCHANGED CFS!cfsVars
  <2>1. Proofs!EngineStep /\ UNCHANGED <<vruntime, minVruntime>>
    BY <1>9, CfsEngine, EngineMonotone DEF CFS!cfsVars
  <2>2. Proofs!TotalUsed' = U /\ w' = w
    BY <2>1, ProofsAssumptions, Proofs!QuietUsed
  <2>3. CFS!Fits' \/ (stage' \in {"create", "done"} /\ \A p \in Procs : vruntime'[p] <= 0)
    <3>1. CASE CFS!Fits
      BY <1>f, <2>2, <3>1
    <3>2. CASE ~CFS!Fits
      <4>1. stage \in {"create", "done"} /\ \A p \in Procs : vruntime[p] <= 0
        BY <3>2 DEF CfsBound
      <4>2. CFS!OptionsAccepted <=> Proofs!OptionsAccepted
        BY DEF CFS!OptionsAccepted, Proofs!OptionsAccepted, CFS!HorizonOf, Proofs!HorizonOf,
           CFS!Max, CFS!SumFunction, CFS!SumFunctionOnSet, CFS!FoldFunctionOnSet,
           CFS!MapThenFoldSet, Proofs!Max, Proofs!SumFunction, Proofs!SumFunctionOnSet,
           Proofs!FoldFunctionOnSet, Proofs!MapThenFoldSet
      <4>3. stage' \in {"create", "done"}
        BY <1>9, <2>1, <3>2, <4>1, <4>2, ProofsAssumptions, Proofs!StagesKept
      <4> QED BY <2>1, <4>1, <4>3
    <3> QED BY <3>1, <3>2
  <2> QED BY <1>2, <1>3, <1>s, <2>1, <2>2, <2>3
<1> QED BY <1>4, <1>5, <1>6, <1>7, <1>8, <1>9 DEF CFS!Next

LEMMA BoundsStep ==
    ASSUME IInv, StrideBound, CfsBound, [Next]_vars PROVE StrideBound' /\ CfsBound'
<1>1. [Proofs!Next]_(Proofs!vars) /\ IInv'
  BY RefinementStep
<1>2. CASE UNCHANGED vars
  <2>1. /\ UNCHANGED <<policy, pass, vtime, vruntime, minVruntime>> /\ UNCHANGED engineVars
    BY <1>2 DEF vars, strideVars, cfsVars
  <2>2. UNCHANGED <<w, phase, remaining, stage>>
    BY <2>1 DEF engineVars, procVars
  <2>3. Proofs!TotalUsed' = Proofs!TotalUsed
    BY <2>2, ProofsAssumptions, Proofs!UsedSame
  <2>4. /\ Str!PassesFit' = Str!PassesFit /\ CFS!Fits' = CFS!Fits
        /\ CFS!LeastWeight' = CFS!LeastWeight
    BY <2>2 DEF Str!PassesFit, Str!CpuOf, CFS!Fits, CFS!CpuOf, CFS!LeastWeight, CFS!Weight
  <2> QED BY <2>1, <2>2, <2>3, <2>4 DEF StrideBound, CfsBound
<1>3. CASE Next
  <2>1. UNCHANGED policy /\ Proofs!Inv /\ Proofs!Inv'
    BY <1>1, <1>3 DEF Next, IInv
  <2>2. CASE policy = "stride"
    <3>1. Str!Next
      BY <1>3, <2>2 DEF Next
    <3> QED BY <2>1, <2>2, <3>1, StrideBoundStep DEF IInv, CfsBound
  <2>3. CASE policy = "cfs"
    <3>1. CFS!Next
      BY <1>3, <2>3 DEF Next
    <3> QED BY <2>1, <2>3, <3>1, CfsBoundStep DEF IInv, StrideBound
  <2> QED BY <2>1, <2>2, <2>3 DEF StrideBound, CfsBound
<1> QED BY <1>2, <1>3

LEMMA BoundsInit == ASSUME Init, policy # "lottery" PROVE StrideBound /\ CfsBound
<1>1. Proofs!TotalUsed = 0
  BY RefinementInit, ProofsAssumptions, Proofs!UsedInit
<1>2. StrideBound
  <2> SUFFICES ASSUME policy = "stride" PROVE StrideBound
    BY DEF StrideBound
  <2>1. Str!EngineInit /\ pass = [p \in Procs |-> 0] /\ vtime = 0
    BY DEF Init, Str!Init
  <2>2. stage = "create"
    BY <2>1 DEF Str!EngineInit
  <2>3. Stride1 * 0 = 0
    BY QuantumAssumption
  <2> QED BY <1>1, <2>1, <2>2, <2>3 DEF StrideBound
<1>3. CfsBound
  <2> SUFFICES ASSUME policy = "cfs" PROVE CfsBound
    BY DEF CfsBound
  <2>1. CFS!EngineInit /\ vruntime = [p \in Procs |-> 0] /\ minVruntime = 0
    BY DEF Init, CFS!Init
  <2>2. stage = "create"
    BY <2>1 DEF CFS!EngineInit
  <2>3. Weights \in [Procs -> Nat \ {0}]
    BY RefinementInit DEF IInv, CfsInv
  <2>4. Unit * 0 = 0 /\ 0 * CFS!LeastWeight = 0
    BY <2>3, QuantumAssumption, LeastWeightFacts
  <2> QED BY <1>1, <2>1, <2>2, <2>4 DEF CfsBound
<1> QED BY <1>2, <1>3

(* What create has let through bounds the CPU time that can be used.       *)
LEMMA UsedFits ==
    ASSUME IInv
    PROVE  /\ Str!PassesFit => Proofs!TotalUsed <= MaxTime \div Stride1
           /\ CFS!Fits => Proofs!TotalUsed <= MaxCpu
<1>1. /\ Proofs!TotalUsed <= Proofs!SumFunctionOnSet([p \in Procs |-> Proofs!CpuTime(p)], Procs)
      /\ Proofs!SumFunctionOnSet([p \in Procs |-> Proofs!CpuTime(p)], Procs) \in Nat
      /\ Proofs!TotalUsed \in Int
  BY ProofsAssumptions, Proofs!TotalUsedAtMost, Proofs!TotalUsedType DEF IInv
<1>2. \A f, S : Proofs!SumFunctionOnSet(f, S) = Str!SumFunctionOnSet(f, S)
              /\ Proofs!SumFunctionOnSet(f, S) = CFS!SumFunctionOnSet(f, S)
  BY DEF Proofs!SumFunctionOnSet, Proofs!FoldFunctionOnSet, Proofs!MapThenFoldSet,
     Str!SumFunctionOnSet, Str!FoldFunctionOnSet, Str!MapThenFoldSet,
     CFS!SumFunctionOnSet, CFS!FoldFunctionOnSet, CFS!MapThenFoldSet
<1>3. \A p : Proofs!CpuTime(p) = Str!CpuOf(p) /\ Proofs!CpuTime(p) = CFS!CpuOf(p)
  BY <1>2 DEF Proofs!CpuTime, Proofs!CpuPhases, Proofs!IsOdd, Str!CpuOf, Str!IsOdd, CFS!CpuOf,
              CFS!IsOdd
<1>4. /\ Str!PassesFit => Proofs!SumFunctionOnSet([p \in Procs |-> Proofs!CpuTime(p)], Procs)
                              <= MaxTime \div Stride1
      /\ CFS!Fits => Proofs!SumFunctionOnSet([p \in Procs |-> Proofs!CpuTime(p)], Procs) <= MaxCpu
  BY <1>2, <1>3 DEF Str!PassesFit, CFS!Fits
<1>5. MaxTime \div Stride1 \in Int /\ MaxCpu \in Int
  BY DivFacts, EngineAssumption, QuantumAssumption
<1> QED BY <1>1, <1>4, <1>5

(* No pass and no vruntime exceeds what the CPU time used so far accounts  *)
(* for, in the schedule as logged, and so what create has let through;     *)
(* thus neither overflows, although processes join with the virtual time   *)
(* of others and are charged for slices that preemption cut short          *)
(* (stride.c:37, cfs.c:25).                                                *)
THEOREM VirtualTimeBoundedHolds == Spec => []VirtualTimeBounded
<1> DEFINE Lotteried == policy = "lottery"
           Bounds == IInv /\ StrideBound /\ CfsBound
<1>1. Init /\ ~Lotteried => Bounds /\ Proofs!Init
  BY RefinementInit, BoundsInit
<1>2. Bounds /\ [Next]_vars => Bounds' /\ [Proofs!Next]_(Proofs!vars)
  BY RefinementStep, BoundsStep
<1>3. Proofs!Spec => [](Proofs!Inv /\ Proofs!TimelineInv /\ Proofs!ServiceInv)
  BY ProofsAssumptions, Proofs!ServiceInvariant
<1>4. ASSUME Bounds, Proofs!ServiceInv PROVE VirtualTimeBounded
  <2>0. IInv /\ StrideBound /\ CfsBound /\ Proofs!Inv
    BY <1>4 DEF IInv
  <2> DEFINE ticks == [q \in Procs |-> Proofs!Cardinality(Proofs!TicksOf(q, "run"))]
  <2>1. log.fail = "ok" => Proofs!TotalUsed = Proofs!SumFunctionOnSet(ticks, Procs)
    BY <1>4, <2>0, ProofsAssumptions, Proofs!UsedLogged
  <2>2. \A f, S : Proofs!SumFunctionOnSet(f, S) = Str!SumFunctionOnSet(f, S)
                /\ Proofs!SumFunctionOnSet(f, S) = CFS!SumFunctionOnSet(f, S)
    BY DEF Proofs!SumFunctionOnSet, Proofs!FoldFunctionOnSet, Proofs!MapThenFoldSet,
       Str!SumFunctionOnSet, Str!FoldFunctionOnSet, Str!MapThenFoldSet,
       CFS!SumFunctionOnSet, CFS!FoldFunctionOnSet, CFS!MapThenFoldSet
  <2>3. /\ ticks = [q \in Procs |-> Str!Cardinality(Str!TicksOf(q, "run"))]
        /\ ticks = [q \in Procs |-> CFS!Cardinality(CFS!TicksOf(q, "run"))]
    BY DEF Proofs!Cardinality, Proofs!TicksOf, Proofs!SegmentsOf, Proofs!Cores, Proofs!ToSet,
       Proofs!IsFiniteSet, Str!Cardinality, Str!TicksOf, Str!SegmentsOf, Str!Cores, Str!ToSet,
       Str!IsFiniteSet, CFS!Cardinality, CFS!TicksOf, CFS!SegmentsOf, CFS!Cores, CFS!ToSet,
       CFS!IsFiniteSet
  <2>4. Proofs!TotalUsed \in Int
    BY <2>0, ProofsAssumptions, Proofs!TotalUsedType
  <2>5. CASE policy = "stride"
    <3>1. /\ pass \in [Procs -> Int] /\ \A p \in Procs : pass[p] <= Stride1 * Proofs!TotalUsed
      BY <2>0, <2>5 DEF IInv, StrideInv, StrideBound
    <3>2. \A p \in Procs : pass[p] <= MaxTime
      <4>1. CASE Str!PassesFit
        <5>1. PICK n \in Int : n = MaxTime \div Stride1 /\ n * Stride1 <= MaxTime
          BY DivFacts, EngineAssumption, QuantumAssumption
        <5>2. Proofs!TotalUsed <= n
          BY <2>0, <4>1, <5>1, UsedFits
        <5>3. Stride1 \in Nat /\ MaxTime \in Nat
          BY EngineAssumption, QuantumAssumption
        <5>4. Stride1 * Proofs!TotalUsed <= Stride1 * n /\ Stride1 * n = n * Stride1
              /\ Stride1 * Proofs!TotalUsed \in Int /\ Stride1 * n \in Int
          BY <2>4, <5>2, <5>3, Products
        <5> QED BY <3>1, <5>1, <5>3, <5>4
      <4>2. CASE \A p \in Procs : pass[p] <= 0
        BY <3>1, <4>2, EngineAssumption
      <4> QED BY <2>0, <2>5, <4>1, <4>2 DEF StrideBound
    <3> HIDE DEF ticks
    <3>3. log.fail = "ok" => Proofs!TotalUsed = Str!SumFunctionOnSet(ticks, Procs)
      BY <2>1, <2>2
    <3>4. Str!PassBounded
      BY <2>3, <3>1, <3>2, <3>3 DEF Str!PassBounded
    <3> QED BY <2>5, <3>4 DEF VirtualTimeBounded
  <2>6. CASE policy = "cfs"
    <3>1. /\ vruntime \in [Procs -> Int] /\ CFS!LeastWeight \in Nat \ {0} /\ Unit \in Nat
          /\ \A p \in Procs : vruntime[p] * CFS!LeastWeight <= Unit * Proofs!TotalUsed
      BY <2>0, <2>6, LeastWeightFacts, QuantumAssumption DEF IInv, CfsInv, CfsBound
    <3>2. \A p \in Procs : vruntime[p] * CFS!LeastWeight <= Unit * MaxCpu
      <4>1. CASE CFS!Fits
        <5>1. Proofs!TotalUsed <= MaxCpu /\ MaxCpu \in Nat
          BY <2>0, <4>1, UsedFits, QuantumAssumption
        <5>2. Unit * Proofs!TotalUsed <= Unit * MaxCpu
              /\ Unit * Proofs!TotalUsed \in Int /\ Unit * MaxCpu \in Int
          BY <2>4, <3>1, <5>1, Products
        <5>3. \A p \in Procs : vruntime[p] * CFS!LeastWeight \in Int
          BY <3>1, Products
        <5> QED BY <3>1, <5>2, <5>3
      <4>2. CASE \A p \in Procs : vruntime[p] <= 0
        <5>1. Unit * MaxCpu \in Nat
          BY <3>1, QuantumAssumption
        <5>2. \A p \in Procs : vruntime[p] * CFS!LeastWeight <= 0 * CFS!LeastWeight
                               /\ vruntime[p] * CFS!LeastWeight \in Int
          BY <3>1, <4>2, Products
        <5>3. 0 * CFS!LeastWeight = 0
          BY <3>1
        <5> QED BY <5>1, <5>2, <5>3
      <4> QED BY <2>0, <2>6, <4>1, <4>2 DEF CfsBound
    <3> HIDE DEF ticks
    <3>3. log.fail = "ok" => Proofs!TotalUsed = CFS!SumFunctionOnSet(ticks, Procs)
      BY <2>1, <2>2
    <3>4. CFS!VruntimeBounded
      BY <2>3, <3>1, <3>2, <3>3 DEF CFS!VruntimeBounded
    <3> QED BY <2>6, <3>4 DEF VirtualTimeBounded
  <2> QED BY <2>0, <2>5, <2>6 DEF IInv, VirtualTimeBounded
<1>5. Lotteried => VirtualTimeBounded
  BY DEF VirtualTimeBounded
<1>6. Lotteried /\ [Next]_vars => Lotteried'
  BY DEF Next, vars
<1> HIDE DEF Lotteried, Bounds
<1>7. Init /\ ~Lotteried /\ [][Next]_vars => []Bounds /\ Proofs!Spec
  BY <1>1, <1>2, PTL DEF Proofs!Spec
<1> QED
  BY <1>3, <1>4, <1>5, <1>6, <1>7, PTL DEF Spec

-----------------------------------------------------------------------------
(* rr: turns                                                               *)

\* the processes in front of q
Before(s, q) == {s[i] : i \in {k \in DOMAIN s : \E j \in DOMAIN s : k < j /\ s[j] = q}}

\* every slice is a quantum, and whoever is yet to have one before q has run
\* for no time since q arrived
TurnInv ==
    policy = "rr" =>
        /\ \A x \in Proofs!Granted : x[2] <= Quantum
        /\ \A q \in ToSet(queue) : outcome[q].start < 0 =>
               \A p \in Procs : Proofs!Turn(p, w.arrival[q], Quantum, Before(queue, q))

LEMMA BeforeJoining ==
    ASSUME NEW s \in Seq(Procs), NEW x \in Procs, NEW q \in ToSet(s), x \notin ToSet(s)
    PROVE  Before(Append(s, x), q) \subseteq Before(s, q)
<1> DEFINE a == Append(s, x)
<1>1. /\ Len(s) \in Nat /\ DOMAIN s = 1..Len(s) /\ DOMAIN a = 1..(Len(s) + 1)
      /\ a[Len(s) + 1] = x /\ \A i \in 1..Len(s) : a[i] = s[i]
  OBVIOUS
<1> HIDE DEF a
<1>2. x # q
  OBVIOUS
<1>3. ASSUME NEW i \in DOMAIN a, NEW j \in DOMAIN a, i < j, a[j] = q
      PROVE  a[i] \in Before(s, q)
  <2>1. j # Len(s) + 1
    BY <1>1, <1>2, <1>3
  <2>2. i \in DOMAIN s /\ j \in DOMAIN s /\ a[i] = s[i] /\ s[j] = q
    BY <1>1, <1>3, <2>1
  <2> QED BY <1>3, <2>2 DEF Before
<1>4. Before(a, q) \subseteq Before(s, q)
  BY <1>3 DEF Before
<1> QED BY <1>4 DEF a

LEMMA BeforeLeaving ==
    ASSUME NEW s \in Seq(Procs), s # <<>>, NEW q \in ToSet(Tail(s))
    PROVE  Before(Tail(s), q) \subseteq Before(s, q) /\ Head(s) \in Before(s, q)
<1> DEFINE t == Tail(s)
<1>1. /\ Len(s) \in Nat /\ Len(s) >= 1 /\ DOMAIN s = 1..Len(s) /\ DOMAIN t = 1..(Len(s) - 1)
      /\ \A i \in 1..(Len(s) - 1) : t[i] = s[i + 1]
      /\ Head(s) = s[1]
  OBVIOUS
<1>2. PICK m \in DOMAIN t : t[m] = q
  BY DEF ToSet
<1> HIDE DEF t
<1>3. \A i \in DOMAIN t : i + 1 \in DOMAIN s /\ t[i] = s[i + 1] /\ i \in Int
  BY <1>1
<1>4. ASSUME NEW i \in DOMAIN t, NEW j \in DOMAIN t, i < j, t[j] = q
      PROVE  t[i] \in Before(s, q)
  <2>1. i + 1 < j + 1
    BY <1>3, <1>4
  <2> QED BY <1>3, <1>4, <2>1 DEF Before
<1>5. Before(t, q) \subseteq Before(s, q)
  BY <1>4 DEF Before
<1>6. 1 \in DOMAIN s /\ m + 1 \in DOMAIN s /\ 1 < m + 1 /\ s[m + 1] = q
  BY <1>1, <1>2
<1>7. Head(s) \in Before(s, q)
  BY <1>1, <1>6 DEF Before
<1> QED BY <1>5, <1>7 DEF t

LEMMA TurnInit == ASSUME Init, policy # "lottery" PROVE TurnInv
<1> SUFFICES ASSUME policy = "rr" PROVE TurnInv
  BY DEF TurnInv
<1>1. RR!EngineInit /\ queue = <<>>
  BY DEF Init, RR!Init
<1>2. picks = <<>> /\ \A c \in Proofs!Cores : core[c].proc = None
  BY <1>1 DEF RR!EngineInit, RR!FreshCore, RR!Cores, Proofs!Cores
<1>3. Proofs!Granted = {}
  BY <1>2 DEF Proofs!Granted, Proofs!Busy, Proofs!Free
<1> QED BY <1>1, <1>3 DEF TurnInv, ToSet

\* what rr grants, and how it keeps its queue
LEMMA RrMoves ==
    ASSUME IInv, policy = "rr", UNCHANGED policy, RR!Next
    PROVE  /\ \/ UNCHANGED queue
              \/ \E x \in Procs : x \notin ToSet(queue) /\ queue' = Append(queue, x)
                    /\ \/ Proofs!Admit(x)
                       \/ Proofs!WakeUp(x)
                       \/ \E c \in Proofs!Running : stage # "done" /\ core[c].proc = x
              \/ queue # <<>> /\ queue' = Tail(queue)
           /\ \/ picks' = Append(picks, Proofs!Slice(Head(queue), Quantum, Proofs!NoDeadline))
              \/ picks' = picks
              \/ Proofs!EngineStep
<1>3. /\ pending \cap ToSet(queue) = {} /\ blocked \cap ToSet(queue) = {}
      /\ Proofs!OnCore \cap ToSet(queue) = {}
  BY DEF Ready, IInv, Proofs!Inv, Proofs!OnePlace
<1>5. CASE \E p \in Procs : RR!Arrive(p) \/ RR!BecomeReady(p)
  <2>1. PICK p \in Procs : RR!Arrive(p) \/ RR!BecomeReady(p)
    BY <1>5
  <2>2. Proofs!Admit(p) \/ Proofs!WakeUp(p)
    BY <2>1, RrEngine, EngineMonotone DEF RR!Arrive, RR!BecomeReady
  <2>3. queue' = Append(queue, p)
    BY <2>1 DEF RR!Arrive, RR!BecomeReady, RR!Enqueued
  <2>4. p \notin ToSet(queue) /\ picks' = picks
    BY <1>3, <2>2 DEF Proofs!Admit, Proofs!WakeUp, Proofs!IsFirst
  <2> QED BY <2>2, <2>3, <2>4
<1>6. CASE \E c \in RR!Cores : RR!SliceCompletes(c) \/ RR!SliceBlocks(c) \/ RR!SlicePreempted(c)
  <2>1. PICK c \in Proofs!Cores :
           RR!SliceCompletes(c) \/ RR!SliceBlocks(c) \/ RR!SlicePreempted(c)
    BY <1>6 DEF RR!Cores, Proofs!Cores
  <2>2. CASE RR!SliceCompletes(c) \/ RR!SliceBlocks(c)
    <3>1. (Proofs!Complete(c) \/ Proofs!Block(c)) /\ UNCHANGED queue
      BY <2>2, RrEngine, EngineMonotone DEF RR!SliceCompletes, RR!SliceBlocks
    <3>2. picks' = picks
      BY <3>1 DEF Proofs!Complete, Proofs!Block, Proofs!EndRun
    <3> QED BY <3>1, <3>2
  <2>3. CASE RR!SlicePreempted(c)
    <3>1. Proofs!Preempt(c) /\ queue' = Append(queue, core[c].proc)
      BY <2>3, RrEngine, EngineMonotone DEF RR!SlicePreempted, RR!Requeued
    <3>2. Proofs!EndRun(c) /\ Proofs!SliceEnds(c) /\ picks' = picks /\ Proofs!Inv
      BY <3>1 DEF Proofs!Preempt, Proofs!EndRun, IInv
    <3>3. /\ core[c].proc \in Procs /\ core[c].proc \notin ToSet(queue)
          /\ c \in Proofs!Running /\ stage # "done"
      BY <1>3, <3>2, RanType, ProofsAssumptions, Proofs!SliceEndFacts
    <3> QED BY <3>1, <3>2, <3>3
  <2> QED BY <2>1, <2>2, <2>3
<1>7. CASE RR!NextSlice
  <2>1. /\ queue # <<>> /\ queue' = Tail(queue)
        /\ Proofs!Pick(Proofs!Slice(Head(queue), Quantum, Proofs!NoDeadline))
    BY <1>7, RrEngine, EngineMonotone DEF RR!NextSlice
  <2> QED BY <2>1 DEF Proofs!Pick
<1>8. CASE RR!StopPicking
  <2>1. Proofs!PicksDone /\ UNCHANGED queue
    BY <1>8, RrEngine, EngineMonotone DEF RR!StopPicking
  <2> QED BY <2>1 DEF Proofs!PicksDone
<1>9. CASE RR!EngineStep /\ UNCHANGED queue
  <2>1. Proofs!EngineStep
    BY <1>9, RrEngine, EngineMonotone
  <2> QED BY <1>9, <2>1
<1> QED BY <1>5, <1>6, <1>7, <1>8, <1>9 DEF RR!Next

LEMMA GrantsStep ==
    ASSUME IInv, TurnInv, policy = "rr", UNCHANGED policy, RR!Next, [Proofs!Next]_(Proofs!vars)
    PROVE  \A x \in Proofs!Granted' : x[2] <= Quantum
<1>1. CASE Proofs!Granted' \subseteq Proofs!Granted
  BY <1>1 DEF TurnInv
<1>3. \/ picks' = Append(picks, Proofs!Slice(Head(queue), Quantum, Proofs!NoDeadline))
      \/ picks' = picks \/ Proofs!Granted' \subseteq Proofs!Granted
  BY RrMoves, ProofsAssumptions, Proofs!EngineGranted DEF IInv
<1>2. CASE /\ ~(Proofs!Granted' \subseteq Proofs!Granted)
           /\ \E s \in Proofs!Slices : picks' = Append(picks, s) /\ core' = core
                  /\ Proofs!Granted' = Proofs!Granted \cup {<<s.proc, s.length>>}
  <2>1. PICK s \in Proofs!Slices : picks' = Append(picks, s)
                  /\ Proofs!Granted' = Proofs!Granted \cup {<<s.proc, s.length>>}
    BY <1>2
  <2> DEFINE r == Proofs!Slice(Head(queue), Quantum, Proofs!NoDeadline)
  <2>3. picks \in Seq(Proofs!Slices) /\ r.length = Quantum
    BY DEF IInv, Proofs!Inv, Proofs!TypeOK, Proofs!Slice
  <2>a. picks' # picks
    BY <2>1, <2>3
  <2>2. picks' = Append(picks, r)
    BY <1>2, <1>3, <2>a
  <2> HIDE DEF r
  <2>4. picks'[Len(picks) + 1] = s /\ picks'[Len(picks) + 1] = r
    <3>1. \A x : Append(picks, x)[Len(picks) + 1] = x
      BY <2>3
    <3> QED BY <2>1, <2>2, <3>1
  <2>5. s.length <= Quantum
    BY <2>3, <2>4, QuantumAssumption
  <2>6. <<s.proc, s.length>>[2] <= Quantum
    BY <2>5
  <2> QED BY <2>1, <2>6 DEF TurnInv
<1> QED BY <1>1, <1>2, ProofsAssumptions, Proofs!GrantedKept DEF IInv

LEMMA ArrivalType == ASSUME Proofs!Inv, NEW q \in Procs PROVE w.arrival[q] \in Nat
<1>1. w \in Workloads
  BY DEF Proofs!Inv, Proofs!TypeOK
<1>2. w.arrival \in [Procs -> 0..(MaxTime - 1)]
  BY <1>1, ProofsAssumptions, Proofs!WorkloadFacts
<1> QED BY <1>2, EngineAssumption

LEMMA TurnsStep ==
    ASSUME IInv, IInv', TurnInv, Proofs!TimelineInv, Proofs!SliceInv, Proofs!SliceInv',
           policy = "rr", UNCHANGED policy, RR!Next, [Proofs!Next]_(Proofs!vars),
           NEW q \in ToSet(queue'), outcome'[q].start < 0, NEW p \in Procs
    PROVE  Proofs!Turn(p, w.arrival[q], Quantum, Before(queue, q))'
<1>1. /\ Proofs!Inv /\ Proofs!Inv' /\ Quantum \in Nat /\ w' = w
      /\ queue \in Seq(Procs) /\ IsInjective(queue) /\ queue' \in Seq(Procs)
      /\ Ready = ToSet(queue) /\ Ready' = ToSet(queue')
  BY ProofsAssumptions, Proofs!WorkloadKept, QuantumAssumption, EngineAssumption
  DEF IInv, RrInv, Ready
<1>2. q \in Procs
  BY <1>1 DEF ToSet
<1>3. w.arrival[q] \in Nat
  BY <1>1, <1>2, ArrivalType
<1>a. PICK a, A, B : a = w.arrival[q] /\ A = Before(queue, q) /\ B = Before(queue', q)
  OBVIOUS
<1>4. ASSUME Proofs!Since(p, a)' = {}
      PROVE  Proofs!Turn(p, w.arrival[q], Quantum, Before(queue, q))'
  <2>1. Proofs!Cardinality({}) = 0
    BY FS_EmptySet DEF Proofs!Cardinality, Proofs!IsFiniteSet, Cardinality, IsFiniteSet
  <2>2. Proofs!Since(p, w.arrival[q])' = {}
    BY <1>1, <1>4, <1>a DEF Proofs!Since
  <2> QED BY <1>1, <2>1, <2>2 DEF Proofs!Turn
<1>5. CASE \A x \in Procs : Proofs!LoggedRun(x)' = {}
  <2>1. Proofs!Since(p, a)' = {}
    BY <1>5 DEF Proofs!Since
  <2> QED BY <1>4, <2>1
<1>6. CASE outcome[q].start < 0 /\ q \in ToSet(queue)
  <2>1. Proofs!Turn(p, a, Quantum, A) /\ \A x \in Proofs!Granted : x[2] <= Quantum
    BY <1>a, <1>6 DEF TurnInv
  <2>2. /\ B \subseteq A /\ A \subseteq Ready
        /\ Proofs!Taken' \subseteq Proofs!Taken \cup A
    <3>1. A \subseteq Ready
      BY <1>1, <1>a DEF Before, ToSet
    <3>2. CASE UNCHANGED queue
      <4>1. Proofs!Taken' \subseteq Proofs!Taken
        BY <1>1, <3>2, ProofsAssumptions, Proofs!TakenKept
      <4> QED BY <1>a, <3>1, <3>2, <4>1
    <3>3. CASE \E x \in Procs : x \notin ToSet(queue) /\ queue' = Append(queue, x)
      <4>1. PICK x \in Procs : x \notin ToSet(queue) /\ queue' = Append(queue, x)
        BY <3>3
      <4>2. B \subseteq A
        BY <1>1, <1>a, <1>6, <4>1, BeforeJoining
      <4>3. x \in Ready' /\ x \notin Ready
        BY <1>1, <4>1, Joining
      <4>4. Proofs!Taken' \subseteq Proofs!Taken
        BY <1>1, <4>3, ProofsAssumptions, Proofs!TakenKept
      <4> QED BY <3>1, <4>2, <4>4
    <3>4. CASE queue # <<>> /\ queue' = Tail(queue)
      <4>1. B \subseteq A /\ Head(queue) \in A
        BY <1>1, <1>a, <3>4, BeforeLeaving
      <4>2. Ready' = Ready \ {Head(queue)} /\ Head(queue) \in Ready
        BY <1>1, <3>4, Leaving
      <4>3. Proofs!Taken' \subseteq Proofs!Taken \cup {Head(queue)}
        BY <1>1, <4>2, ProofsAssumptions, Proofs!TakenKept
      <4> QED BY <3>1, <4>1, <4>3
    <3> QED BY <3>2, <3>3, <3>4, RrMoves
  <2>3. Proofs!Turn(p, a, Quantum, B)'
    BY <1>1, <2>1, <2>2, ProofsAssumptions, Proofs!TurnStep
  <2> QED BY <1>1, <1>a, <2>3 DEF Proofs!Turn, Proofs!Since
<1>7. CASE outcome[q].start < 0 /\ q \notin ToSet(queue)
  <2>1. \/ Proofs!Admit(q) \/ Proofs!WakeUp(q)
        \/ \E c \in Proofs!Running : stage # "done" /\ core[c].proc = q
    <3>1. queue' # queue /\ (queue # <<>> => queue' # Tail(queue))
      BY <1>1, <1>7, Leaving
    <3>2. \A x \in Procs : x \notin ToSet(queue) /\ queue' = Append(queue, x) => x = q
      BY <1>1, <1>7, Joining
    <3> QED BY <3>1, <3>2, RrMoves
  <2>2. ~Proofs!WakeUp(q)
    BY <1>2, <1>7 DEF Proofs!WakeUp, Proofs!IsFirst, Proofs!SliceInv, Proofs!Unstarted
  <2>3. ~\E c \in Proofs!Running : stage # "done" /\ core[c].proc = q
    BY <1>2, <1>7 DEF Proofs!SliceInv, Proofs!Unstarted
  <2>4. Proofs!Admit(q)
    BY <2>1, <2>2, <2>3
  <2>5. now <= a /\ log' = log
    BY <1>1, <1>a, <2>4 DEF Proofs!Admit, Proofs!IsFirst, Proofs!resultVars, Proofs!Inv, Proofs!NothingMissed
  <2>6. Proofs!Since(p, a) = {}
    BY <1>1, <1>3, <1>a, <2>5, ProofsAssumptions, Proofs!FreshTurn
  <2>7. Proofs!Since(p, a)' = {}
    BY <1>1, <2>5, <2>6 DEF Proofs!Since, Proofs!LoggedRun, Proofs!Ticks, Proofs!On, Proofs!Covers
  <2> QED BY <1>4, <2>7
<1> QED BY <1>1, <1>2, <1>5, <1>6, <1>7, ProofsAssumptions, Proofs!StartKept

LEMMA TurnInvStep ==
    ASSUME IInv, TurnInv, Proofs!TimelineInv, Proofs!SliceInv, Proofs!SliceInv', [Next]_vars
    PROVE  TurnInv'
<1>1. [Proofs!Next]_(Proofs!vars) /\ IInv'
  BY RefinementStep
<1>2. CASE UNCHANGED vars
  <2>1. UNCHANGED <<policy, queue>> /\ UNCHANGED <<w, picks, core, log, outcome>>
    BY <1>2 DEF vars, rrVars, engineVars, resultVars
  <2>2. Proofs!Granted' = Proofs!Granted /\ Proofs!Taken' = Proofs!Taken
    BY <2>1 DEF Proofs!Granted, Proofs!Taken, Proofs!Picked, Proofs!OnCore, Proofs!Busy, Proofs!Free
  <2>3. \A p : Proofs!LoggedRun(p)' = Proofs!LoggedRun(p)
    BY <2>1 DEF Proofs!LoggedRun, Proofs!Ticks, Proofs!On, Proofs!Covers
  <2>4. ASSUME NEW p, NEW q
        PROVE  Proofs!Turn(p, w.arrival[q], Quantum, Before(queue, q))'
                 <=> Proofs!Turn(p, w.arrival[q], Quantum, Before(queue, q))
    BY <2>1, <2>2, <2>3 DEF Proofs!Turn, Proofs!Since, Before
  <2> QED BY <2>1, <2>2, <2>4 DEF TurnInv
<1>3. CASE Next
  <2> SUFFICES ASSUME policy' = "rr" PROVE TurnInv'
    BY DEF TurnInv
  <2>1. UNCHANGED policy /\ policy = "rr" /\ RR!Next
    BY <1>3 DEF Next
  <2>2. \A x \in Proofs!Granted' : x[2] <= Quantum
    BY <1>1, <2>1, GrantsStep
  <2>3. ASSUME NEW q \in ToSet(queue'), outcome'[q].start < 0, NEW p \in Procs
        PROVE  Proofs!Turn(p, w.arrival[q], Quantum, Before(queue, q))'
    BY <1>1, <2>1, <2>3, TurnsStep
  <2> QED BY <2>2, <2>3 DEF TurnInv
<1> QED BY <1>2, <1>3

(* Under rr, while a process that has arrived waits for its first turn, no *)
(* other process gets more than one quantum of CPU since that arrival,     *)
(* however it blocks, wakes up and queues again: who is ahead or chosen    *)
(* has not run since then, who has run is behind or elsewhere (rr.c:1-4).  *)
THEOREM BoundedBypassHolds == Spec => []BoundedBypass
<1> DEFINE Lotteried == policy = "lottery"
<1>1. Init /\ ~Lotteried => IInv /\ Proofs!Init
  BY RefinementInit
<1>2. IInv /\ [Next]_vars => IInv' /\ [Proofs!Next]_(Proofs!vars)
  BY RefinementStep
<1>3. Proofs!Spec => [](Proofs!Inv /\ Proofs!TimelineInv /\ Proofs!SliceInv)
  BY ProofsAssumptions, Proofs!SliceInvariant
<1>4. Init /\ ~Lotteried => TurnInv
  BY TurnInit
<1>5. IInv /\ TurnInv /\ Proofs!TimelineInv /\ Proofs!SliceInv /\ Proofs!SliceInv' /\ [Next]_vars
        => TurnInv'
  BY TurnInvStep
<1>6. ASSUME IInv, TurnInv, Proofs!SliceInv PROVE BoundedBypass
  <2> SUFFICES ASSUME policy = "rr", NEW q \in RR!ToSet(queue), outcome[q].start < 0, NEW p \in Procs
               PROVE  RR!Cardinality({t \in RR!RunTicks(p) : t >= w.arrival[q]}) <= Quantum
    BY DEF BoundedBypass, RR!BoundedBypass
  <2>1. /\ Proofs!Inv /\ Quantum \in Nat /\ q \in ToSet(queue) /\ queue \in Seq(Procs)
        /\ \A x \in Proofs!Granted : x[2] <= Quantum
        /\ Proofs!Turn(p, w.arrival[q], Quantum, Before(queue, q))
    BY <1>6, QuantumAssumption, EngineAssumption DEF IInv, RrInv, TurnInv, ToSet, RR!ToSet
  <2>2. q \in Procs
    BY <2>1 DEF ToSet
  <2>3. w.arrival[q] \in Nat
    BY <2>1, <2>2, ArrivalType
  <2>4. Proofs!Cardinality({t \in Proofs!RunTicks(p) : t >= w.arrival[q]}) <= Quantum
    BY <1>6, <2>1, <2>3, ProofsAssumptions, Proofs!TurnRead
  <2>5. Proofs!RunTicks(p) = RR!RunTicks(p)
    BY DEF Proofs!RunTicks, Proofs!TicksOf, Proofs!SegmentsOf, Proofs!Cores, Proofs!ToSet,
       Proofs!UnloggedTicks, Proofs!Running, Proofs!Busy, Proofs!Free,
       RR!RunTicks, RR!TicksOf, RR!SegmentsOf, RR!Cores, RR!ToSet,
       RR!UnloggedTicks, RR!Running, RR!Busy, RR!Free
  <2>6. \A S : Proofs!Cardinality(S) = RR!Cardinality(S)
    BY DEF Proofs!Cardinality, Proofs!IsFiniteSet, RR!Cardinality, RR!IsFiniteSet
  <2> QED BY <2>4, <2>5, <2>6
<1>7. Lotteried => BoundedBypass
  BY DEF BoundedBypass
<1>8. Lotteried /\ [Next]_vars => Lotteried'
  BY DEF Next, vars
<1> HIDE DEF Lotteried
<1>9. Init /\ ~Lotteried /\ [][Next]_vars => []IInv /\ Proofs!Spec
  BY <1>1, <1>2, PTL DEF Proofs!Spec
<1> QED
  BY <1>3, <1>4, <1>5, <1>6, <1>7, <1>8, <1>9, PTL DEF Spec
=============================================================================
