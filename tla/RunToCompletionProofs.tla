----------------------- MODULE RunToCompletionProofs ------------------------
(***************************************************************************)
(* Proofs that fcfs, sjf and prio implement the policy interface, so that  *)
(* every theorem about AnyPolicy holds of their runs; that the turns of    *)
(* fcfs go by the time of becoming ready; and that prio runs the process   *)
(* with the lowest effective priority.                                     *)
(***************************************************************************)
EXTENDS RunToCompletionPolicies, CollectionProofs

\* AnyPolicy with its theorems, under the refinement mapping of Abstract
Proofs == INSTANCE ServiceProofs WITH
    Preemptive <- FALSE, WorkConserving <- TRUE, SliceLengths <- {}, DeadlineGaps <- {},
    ready <- Ready

-----------------------------------------------------------------------------
(* The engine is the same in AnyPolicy and in every policy module          *)

LEMMA ProofsAssumptions ==
    Proofs!EngineAssumption /\ Proofs!WorkloadAssumption /\ Proofs!PolicyAssumption
  BY EngineAssumption, WorkloadAssumption, RunToCompletionAssumption DEF
    HorizonOf, HasCpuPhases, IsOdd, Max, SumFunction, SumFunctionOnSet,
    FoldFunctionOnSet, MapThenFoldSet, RemoveAt, Cardinality, IsFiniteSet,
    Proofs!HorizonOf, Proofs!HasCpuPhases, Proofs!IsOdd, Proofs!Max, Proofs!SumFunction,
    Proofs!SumFunctionOnSet, Proofs!FoldFunctionOnSet, Proofs!MapThenFoldSet, Proofs!RemoveAt,
    Proofs!Cardinality, Proofs!IsFiniteSet,
    Proofs!EngineAssumption, Proofs!WorkloadAssumption, Proofs!PolicyAssumption

LEMMA ProofsOfAbstract == (Abstract!Init <=> Proofs!Init) /\ (Abstract!Next <=> Proofs!Next)
<1>1. Abstract!Init <=> Proofs!Init
  BY DEF
    Abstract!Init, Abstract!EngineInit, Abstract!Cores, Abstract!FreshCore,
    Abstract!Max, Abstract!SumFunction, Abstract!SumFunctionOnSet,
    Abstract!FoldFunctionOnSet, Abstract!MapThenFoldSet, Abstract!RemoveAt,
    Abstract!Cardinality, Abstract!IsFiniteSet, Proofs!Init, Proofs!EngineInit,
    Proofs!Cores, Proofs!FreshCore, Proofs!Max, Proofs!SumFunction,
    Proofs!SumFunctionOnSet, Proofs!FoldFunctionOnSet, Proofs!MapThenFoldSet,
    Proofs!RemoveAt, Proofs!Cardinality, Proofs!IsFiniteSet
<1>2. \A p : (Abstract!Arrive(p) <=> Proofs!Arrive(p))
           /\ (Abstract!BecomeReady(p) <=> Proofs!BecomeReady(p))
  BY DEF
    Abstract!Arrive, Abstract!BecomeReady, Abstract!Admit, Abstract!WakeUp,
    Abstract!IsFirst, Abstract!Arrived, Abstract!procVars, Abstract!resultVars,
    Abstract!Woken, Proofs!Arrive, Proofs!BecomeReady, Proofs!Admit, Proofs!WakeUp,
    Proofs!IsFirst, Proofs!Arrived, Proofs!procVars, Proofs!resultVars, Proofs!Woken
<1>3. \A c : (Abstract!SliceCompletes(c) <=> Proofs!SliceCompletes(c))
           /\ (Abstract!SliceBlocks(c) <=> Proofs!SliceBlocks(c))
  BY DEF
    Abstract!SliceCompletes, Abstract!SliceBlocks, Abstract!Complete, Abstract!Block,
    Abstract!EndRun, Abstract!BurstOver, Abstract!LastPhase, Abstract!LogRun,
    Abstract!NewPrediction, Abstract!NoteOverflow, Abstract!AddTime, Abstract!SliceEnds,
    Abstract!Ran, Abstract!AppendSegment, Abstract!Segment, Abstract!BurstLen,
    Abstract!IsLowest, Abstract!FullLength, Abstract!Interrupted, Abstract!Merges,
    Abstract!AtLimit, Abstract!IsFull, Abstract!Running, Abstract!Redecide,
    Abstract!Busy, Abstract!Cores, Abstract!Free, Proofs!SliceCompletes,
    Proofs!SliceBlocks, Proofs!Complete, Proofs!Block, Proofs!EndRun, Proofs!BurstOver,
    Proofs!LastPhase, Proofs!LogRun, Proofs!NewPrediction, Proofs!NoteOverflow,
    Proofs!AddTime, Proofs!SliceEnds, Proofs!Ran, Proofs!AppendSegment, Proofs!Segment,
    Proofs!BurstLen, Proofs!IsLowest, Proofs!FullLength, Proofs!Interrupted,
    Proofs!Merges, Proofs!AtLimit, Proofs!IsFull, Proofs!Running, Proofs!Redecide,
    Proofs!Busy, Proofs!Cores, Proofs!Free
<1>4. \A c : Abstract!SlicePreempted(c) <=> Proofs!SlicePreempted(c)
  BY DEF
    Abstract!SlicePreempted, Abstract!Preempt, Abstract!EndRun, Abstract!BurstOver,
    Abstract!LogRun, Abstract!Ran, Abstract!SliceEnds, Abstract!AppendSegment,
    Abstract!Segment, Abstract!IsLowest, Abstract!FullLength, Abstract!Interrupted,
    Abstract!Merges, Abstract!AtLimit, Abstract!IsFull, Abstract!Running,
    Abstract!Redecide, Abstract!Busy, Abstract!Cores, Abstract!Free,
    Proofs!SlicePreempted, Proofs!Preempt, Proofs!EndRun, Proofs!BurstOver,
    Proofs!LogRun, Proofs!Ran, Proofs!SliceEnds, Proofs!AppendSegment, Proofs!Segment,
    Proofs!IsLowest, Proofs!FullLength, Proofs!Interrupted, Proofs!Merges,
    Proofs!AtLimit, Proofs!IsFull, Proofs!Running, Proofs!Redecide, Proofs!Busy,
    Proofs!Cores, Proofs!Free
<1>5. \A s : Abstract!NextSlice(s) <=> Proofs!NextSlice(s)
  BY DEF
    Abstract!NextSlice, Abstract!Pick, Abstract!WantsPick, Abstract!procVars,
    Abstract!resultVars, Abstract!FreeCores, Abstract!Cores, Abstract!Free,
    Abstract!Cardinality, Abstract!IsFiniteSet, Proofs!NextSlice, Proofs!Pick,
    Proofs!WantsPick, Proofs!procVars, Proofs!resultVars, Proofs!FreeCores,
    Proofs!Cores, Proofs!Free, Proofs!Cardinality, Proofs!IsFiniteSet
<1>6. \A p : Abstract!SlicesFor(p) = Proofs!SlicesFor(p)
  BY DEF
    Abstract!SlicesFor, Abstract!Slice, Abstract!NoDeadline, Proofs!SlicesFor,
    Proofs!Slice, Proofs!NoDeadline
<1>7. Abstract!StopPicking <=> Proofs!StopPicking
  BY DEF
    Abstract!StopPicking, Abstract!PicksDone, Abstract!WantsPick, Abstract!MayDecline,
    Abstract!procVars, Abstract!resultVars, Abstract!FreeCores, Abstract!Cores,
    Abstract!Free, Abstract!Cardinality, Abstract!IsFiniteSet, Proofs!StopPicking,
    Proofs!PicksDone, Proofs!WantsPick, Proofs!MayDecline, Proofs!procVars,
    Proofs!resultVars, Proofs!FreeCores, Proofs!Cores, Proofs!Free, Proofs!Cardinality,
    Proofs!IsFiniteSet
<1>8. Abstract!EngineStep <=> Proofs!EngineStep
  BY DEF
    Abstract!EngineStep, Abstract!Create, Abstract!Reject, Abstract!ArrivalsDone,
    Abstract!WakeupsDone, Abstract!EndsDone, Abstract!Cores, Abstract!SwitchIn,
    Abstract!SwitchInsDone, Abstract!InstantDone, Abstract!Place, Abstract!PlacesDone,
    Abstract!Advance, Abstract!CloseTimeline, Abstract!Return, Abstract!Terminated,
    Abstract!OptionsAccepted, Abstract!procVars, Abstract!resultVars, Abstract!Arrived,
    Abstract!Woken, Abstract!FullLength, Abstract!Busy, Abstract!Redecide,
    Abstract!OneTick, Abstract!AddTime, Abstract!IsLowest, Abstract!SwitchedIn,
    Abstract!Begun, Abstract!BegunLog, Abstract!NoteOverflow, Abstract!BegunOutcome,
    Abstract!Interrupted, Abstract!Completed, Abstract!IsSwitch, Abstract!PlacesOn,
    Abstract!AppendSegment, Abstract!Segment, Abstract!EventTimes, Abstract!CutAt,
    Abstract!StatusOf, Abstract!engineVars, Abstract!HorizonOf, Abstract!Running,
    Abstract!Free, Abstract!RunLength, Abstract!Lesser, Abstract!AffinePicks,
    Abstract!Affine, Abstract!FreeCores, Abstract!Merges, Abstract!AtLimit,
    Abstract!IsFull, Abstract!Max, Abstract!SumFunction, Abstract!SumFunctionOnSet,
    Abstract!FoldFunctionOnSet, Abstract!MapThenFoldSet, Abstract!RemoveAt,
    Abstract!Cardinality, Abstract!IsFiniteSet, Proofs!EngineStep, Proofs!Create,
    Proofs!Reject, Proofs!ArrivalsDone, Proofs!WakeupsDone, Proofs!EndsDone,
    Proofs!Cores, Proofs!SwitchIn, Proofs!SwitchInsDone, Proofs!InstantDone,
    Proofs!Place, Proofs!PlacesDone, Proofs!Advance, Proofs!CloseTimeline,
    Proofs!Return, Proofs!Terminated, Proofs!OptionsAccepted, Proofs!procVars,
    Proofs!resultVars, Proofs!Arrived, Proofs!Woken, Proofs!FullLength, Proofs!Busy,
    Proofs!Redecide, Proofs!OneTick, Proofs!AddTime, Proofs!IsLowest, Proofs!SwitchedIn,
    Proofs!Begun, Proofs!BegunLog, Proofs!NoteOverflow, Proofs!BegunOutcome,
    Proofs!Interrupted, Proofs!Completed, Proofs!IsSwitch, Proofs!PlacesOn,
    Proofs!AppendSegment, Proofs!Segment, Proofs!EventTimes, Proofs!CutAt,
    Proofs!StatusOf, Proofs!engineVars, Proofs!HorizonOf, Proofs!Running, Proofs!Free,
    Proofs!RunLength, Proofs!Lesser, Proofs!AffinePicks, Proofs!Affine,
    Proofs!FreeCores, Proofs!Merges, Proofs!AtLimit, Proofs!IsFull, Proofs!Max,
    Proofs!SumFunction, Proofs!SumFunctionOnSet, Proofs!FoldFunctionOnSet,
    Proofs!MapThenFoldSet, Proofs!RemoveAt, Proofs!Cardinality, Proofs!IsFiniteSet
<1> QED
  BY <1>1, <1>2, <1>3, <1>4, <1>5, <1>6, <1>7, <1>8
  DEF Abstract!Next, Proofs!Next, Abstract!Cores, Proofs!Cores

LEMMA FcfsEngine ==
    /\ FCFS!EngineStep <=> Proofs!EngineStep
    /\ \A p : (FCFS!Admit(p) <=> Proofs!Admit(p)) /\ (FCFS!WakeUp(p) <=> Proofs!WakeUp(p))
    /\ \A c : (FCFS!Complete(c) <=> Proofs!Complete(c)) /\ (FCFS!Block(c) <=> Proofs!Block(c))
    /\ \A c : FCFS!Preempt(c) <=> Proofs!Preempt(c)
    /\ \A s : FCFS!Pick(s) <=> Proofs!Pick(s)
    /\ (FCFS!PicksDone <=> Proofs!PicksDone) /\ (FCFS!WantsPick <=> Proofs!WantsPick)
    /\ \A p, n, d : FCFS!Slice(p, n, d) = Proofs!Slice(p, n, d)
    /\ FCFS!NoDeadline = Proofs!NoDeadline
    /\ FCFS!EngineInit /\ WorkloadsOf["fcfs"] \subseteq Workloads => Proofs!EngineInit
  BY ZenonT(60) DEF
    FCFS!EngineInit, FCFS!EngineStep, FCFS!Admit, FCFS!WakeUp, FCFS!Complete,
    FCFS!Block, FCFS!Preempt, FCFS!Pick, FCFS!PicksDone, FCFS!WantsPick, FCFS!Slice,
    FCFS!Cores, FCFS!FreshCore, FCFS!Create, FCFS!Reject, FCFS!ArrivalsDone,
    FCFS!WakeupsDone, FCFS!EndsDone, FCFS!SwitchIn, FCFS!SwitchInsDone,
    FCFS!InstantDone, FCFS!Place, FCFS!PlacesDone, FCFS!Advance, FCFS!CloseTimeline,
    FCFS!Return, FCFS!Terminated, FCFS!IsFirst, FCFS!Arrived, FCFS!procVars,
    FCFS!resultVars, FCFS!Woken, FCFS!EndRun, FCFS!BurstOver, FCFS!LastPhase,
    FCFS!LogRun, FCFS!NewPrediction, FCFS!NoteOverflow, FCFS!AddTime, FCFS!Ran,
    FCFS!FreeCores, FCFS!OptionsAccepted, FCFS!FullLength, FCFS!Busy, FCFS!Redecide,
    FCFS!OneTick, FCFS!IsLowest, FCFS!SwitchedIn, FCFS!Begun, FCFS!BegunLog,
    FCFS!BegunOutcome, FCFS!Interrupted, FCFS!Completed, FCFS!IsSwitch, FCFS!PlacesOn,
    FCFS!AppendSegment, FCFS!Segment, FCFS!EventTimes, FCFS!CutAt, FCFS!StatusOf,
    FCFS!engineVars, FCFS!SliceEnds, FCFS!BurstLen, FCFS!Free, FCFS!HorizonOf,
    FCFS!Running, FCFS!RunLength, FCFS!Lesser, FCFS!AffinePicks, FCFS!Affine,
    FCFS!Merges, FCFS!AtLimit, FCFS!IsFull, FCFS!Max, FCFS!SumFunction,
    FCFS!SumFunctionOnSet, FCFS!FoldFunctionOnSet, FCFS!MapThenFoldSet, FCFS!RemoveAt,
    FCFS!Cardinality, FCFS!IsFiniteSet, FCFS!NoDeadline, Proofs!EngineInit, Proofs!EngineStep,
    Proofs!Admit, Proofs!WakeUp, Proofs!Complete, Proofs!Block, Proofs!Preempt, Proofs!Pick,
    Proofs!PicksDone, Proofs!WantsPick, Proofs!Slice, Proofs!Cores, Proofs!FreshCore, Proofs!Create,
    Proofs!Reject, Proofs!ArrivalsDone, Proofs!WakeupsDone, Proofs!EndsDone, Proofs!SwitchIn,
    Proofs!SwitchInsDone, Proofs!InstantDone, Proofs!Place, Proofs!PlacesDone, Proofs!Advance,
    Proofs!CloseTimeline, Proofs!Return, Proofs!Terminated, Proofs!IsFirst, Proofs!Arrived,
    Proofs!procVars, Proofs!resultVars, Proofs!Woken, Proofs!EndRun, Proofs!BurstOver, Proofs!LastPhase,
    Proofs!LogRun, Proofs!NewPrediction, Proofs!NoteOverflow, Proofs!AddTime, Proofs!Ran,
    Proofs!FreeCores, Proofs!OptionsAccepted, Proofs!FullLength, Proofs!Busy, Proofs!Redecide,
    Proofs!OneTick, Proofs!IsLowest, Proofs!SwitchedIn, Proofs!Begun, Proofs!BegunLog,
    Proofs!BegunOutcome, Proofs!Interrupted, Proofs!Completed, Proofs!IsSwitch, Proofs!PlacesOn,
    Proofs!AppendSegment, Proofs!Segment, Proofs!EventTimes, Proofs!CutAt, Proofs!StatusOf,
    Proofs!engineVars, Proofs!SliceEnds, Proofs!BurstLen, Proofs!Free, Proofs!HorizonOf, Proofs!Running,
    Proofs!RunLength, Proofs!Lesser, Proofs!AffinePicks, Proofs!Affine, Proofs!Merges, Proofs!AtLimit,
    Proofs!IsFull, Proofs!Max, Proofs!SumFunction, Proofs!SumFunctionOnSet, Proofs!FoldFunctionOnSet,
    Proofs!MapThenFoldSet, Proofs!RemoveAt, Proofs!Cardinality, Proofs!IsFiniteSet, Proofs!NoDeadline

LEMMA SjfEngine ==
    /\ SJF!EngineStep <=> Proofs!EngineStep
    /\ \A p : (SJF!Admit(p) <=> Proofs!Admit(p)) /\ (SJF!WakeUp(p) <=> Proofs!WakeUp(p))
    /\ \A c : (SJF!Complete(c) <=> Proofs!Complete(c)) /\ (SJF!Block(c) <=> Proofs!Block(c))
    /\ \A c : SJF!Preempt(c) <=> Proofs!Preempt(c)
    /\ \A s : SJF!Pick(s) <=> Proofs!Pick(s)
    /\ (SJF!PicksDone <=> Proofs!PicksDone) /\ (SJF!WantsPick <=> Proofs!WantsPick)
    /\ \A p, n, d : SJF!Slice(p, n, d) = Proofs!Slice(p, n, d)
    /\ SJF!NoDeadline = Proofs!NoDeadline
    /\ SJF!EngineInit /\ WorkloadsOf["sjf"] \subseteq Workloads => Proofs!EngineInit
  BY ZenonT(60) DEF
    SJF!EngineInit, SJF!EngineStep, SJF!Admit, SJF!WakeUp, SJF!Complete, SJF!Block,
    SJF!Preempt, SJF!Pick, SJF!PicksDone, SJF!WantsPick, SJF!Slice, SJF!Cores,
    SJF!FreshCore, SJF!Create, SJF!Reject, SJF!ArrivalsDone, SJF!WakeupsDone,
    SJF!EndsDone, SJF!SwitchIn, SJF!SwitchInsDone, SJF!InstantDone, SJF!Place,
    SJF!PlacesDone, SJF!Advance, SJF!CloseTimeline, SJF!Return, SJF!Terminated,
    SJF!IsFirst, SJF!Arrived, SJF!procVars, SJF!resultVars, SJF!Woken, SJF!EndRun,
    SJF!BurstOver, SJF!LastPhase, SJF!LogRun, SJF!NewPrediction, SJF!NoteOverflow,
    SJF!AddTime, SJF!Ran, SJF!FreeCores, SJF!OptionsAccepted, SJF!FullLength, SJF!Busy,
    SJF!Redecide, SJF!OneTick, SJF!IsLowest, SJF!SwitchedIn, SJF!Begun, SJF!BegunLog,
    SJF!BegunOutcome, SJF!Interrupted, SJF!Completed, SJF!IsSwitch, SJF!PlacesOn,
    SJF!AppendSegment, SJF!Segment, SJF!EventTimes, SJF!CutAt, SJF!StatusOf,
    SJF!engineVars, SJF!SliceEnds, SJF!BurstLen, SJF!Free, SJF!HorizonOf, SJF!Running,
    SJF!RunLength, SJF!Lesser, SJF!AffinePicks, SJF!Affine, SJF!Merges, SJF!AtLimit,
    SJF!IsFull, SJF!Max, SJF!SumFunction, SJF!SumFunctionOnSet, SJF!FoldFunctionOnSet,
    SJF!MapThenFoldSet, SJF!RemoveAt, SJF!Cardinality, SJF!IsFiniteSet, SJF!NoDeadline,
    Proofs!EngineInit, Proofs!EngineStep, Proofs!Admit, Proofs!WakeUp, Proofs!Complete, Proofs!Block,
    Proofs!Preempt, Proofs!Pick, Proofs!PicksDone, Proofs!WantsPick, Proofs!Slice, Proofs!Cores,
    Proofs!FreshCore, Proofs!Create, Proofs!Reject, Proofs!ArrivalsDone, Proofs!WakeupsDone,
    Proofs!EndsDone, Proofs!SwitchIn, Proofs!SwitchInsDone, Proofs!InstantDone, Proofs!Place,
    Proofs!PlacesDone, Proofs!Advance, Proofs!CloseTimeline, Proofs!Return, Proofs!Terminated,
    Proofs!IsFirst, Proofs!Arrived, Proofs!procVars, Proofs!resultVars, Proofs!Woken, Proofs!EndRun,
    Proofs!BurstOver, Proofs!LastPhase, Proofs!LogRun, Proofs!NewPrediction, Proofs!NoteOverflow,
    Proofs!AddTime, Proofs!Ran, Proofs!FreeCores, Proofs!OptionsAccepted, Proofs!FullLength, Proofs!Busy,
    Proofs!Redecide, Proofs!OneTick, Proofs!IsLowest, Proofs!SwitchedIn, Proofs!Begun, Proofs!BegunLog,
    Proofs!BegunOutcome, Proofs!Interrupted, Proofs!Completed, Proofs!IsSwitch, Proofs!PlacesOn,
    Proofs!AppendSegment, Proofs!Segment, Proofs!EventTimes, Proofs!CutAt, Proofs!StatusOf,
    Proofs!engineVars, Proofs!SliceEnds, Proofs!BurstLen, Proofs!Free, Proofs!HorizonOf, Proofs!Running,
    Proofs!RunLength, Proofs!Lesser, Proofs!AffinePicks, Proofs!Affine, Proofs!Merges, Proofs!AtLimit,
    Proofs!IsFull, Proofs!Max, Proofs!SumFunction, Proofs!SumFunctionOnSet, Proofs!FoldFunctionOnSet,
    Proofs!MapThenFoldSet, Proofs!RemoveAt, Proofs!Cardinality, Proofs!IsFiniteSet, Proofs!NoDeadline

LEMMA PrioEngine ==
    /\ Prio!EngineStep <=> Proofs!EngineStep
    /\ \A p : (Prio!Admit(p) <=> Proofs!Admit(p)) /\ (Prio!WakeUp(p) <=> Proofs!WakeUp(p))
    /\ \A c : (Prio!Complete(c) <=> Proofs!Complete(c)) /\ (Prio!Block(c) <=> Proofs!Block(c))
    /\ \A c : Prio!Preempt(c) <=> Proofs!Preempt(c)
    /\ \A s : Prio!Pick(s) <=> Proofs!Pick(s)
    /\ (Prio!PicksDone <=> Proofs!PicksDone) /\ (Prio!WantsPick <=> Proofs!WantsPick)
    /\ \A p, n, d : Prio!Slice(p, n, d) = Proofs!Slice(p, n, d)
    /\ Prio!NoDeadline = Proofs!NoDeadline
    /\ Prio!EngineInit /\ WorkloadsOf["prio"] \subseteq Workloads => Proofs!EngineInit
  BY ZenonT(60) DEF
    Prio!EngineInit, Prio!EngineStep, Prio!Admit, Prio!WakeUp, Prio!Complete,
    Prio!Block, Prio!Preempt, Prio!Pick, Prio!PicksDone, Prio!WantsPick, Prio!Slice,
    Prio!Cores, Prio!FreshCore, Prio!Create, Prio!Reject, Prio!ArrivalsDone,
    Prio!WakeupsDone, Prio!EndsDone, Prio!SwitchIn, Prio!SwitchInsDone,
    Prio!InstantDone, Prio!Place, Prio!PlacesDone, Prio!Advance, Prio!CloseTimeline,
    Prio!Return, Prio!Terminated, Prio!IsFirst, Prio!Arrived, Prio!procVars,
    Prio!resultVars, Prio!Woken, Prio!EndRun, Prio!BurstOver, Prio!LastPhase,
    Prio!LogRun, Prio!NewPrediction, Prio!NoteOverflow, Prio!AddTime, Prio!Ran,
    Prio!FreeCores, Prio!OptionsAccepted, Prio!FullLength, Prio!Busy, Prio!Redecide,
    Prio!OneTick, Prio!IsLowest, Prio!SwitchedIn, Prio!Begun, Prio!BegunLog,
    Prio!BegunOutcome, Prio!Interrupted, Prio!Completed, Prio!IsSwitch, Prio!PlacesOn,
    Prio!AppendSegment, Prio!Segment, Prio!EventTimes, Prio!CutAt, Prio!StatusOf,
    Prio!engineVars, Prio!SliceEnds, Prio!BurstLen, Prio!Free, Prio!HorizonOf,
    Prio!Running, Prio!RunLength, Prio!Lesser, Prio!AffinePicks, Prio!Affine,
    Prio!Merges, Prio!AtLimit, Prio!IsFull, Prio!Max, Prio!SumFunction,
    Prio!SumFunctionOnSet, Prio!FoldFunctionOnSet, Prio!MapThenFoldSet, Prio!RemoveAt,
    Prio!Cardinality, Prio!IsFiniteSet, Prio!NoDeadline, Proofs!EngineInit, Proofs!EngineStep,
    Proofs!Admit, Proofs!WakeUp, Proofs!Complete, Proofs!Block, Proofs!Preempt, Proofs!Pick,
    Proofs!PicksDone, Proofs!WantsPick, Proofs!Slice, Proofs!Cores, Proofs!FreshCore, Proofs!Create,
    Proofs!Reject, Proofs!ArrivalsDone, Proofs!WakeupsDone, Proofs!EndsDone, Proofs!SwitchIn,
    Proofs!SwitchInsDone, Proofs!InstantDone, Proofs!Place, Proofs!PlacesDone, Proofs!Advance,
    Proofs!CloseTimeline, Proofs!Return, Proofs!Terminated, Proofs!IsFirst, Proofs!Arrived,
    Proofs!procVars, Proofs!resultVars, Proofs!Woken, Proofs!EndRun, Proofs!BurstOver, Proofs!LastPhase,
    Proofs!LogRun, Proofs!NewPrediction, Proofs!NoteOverflow, Proofs!AddTime, Proofs!Ran,
    Proofs!FreeCores, Proofs!OptionsAccepted, Proofs!FullLength, Proofs!Busy, Proofs!Redecide,
    Proofs!OneTick, Proofs!IsLowest, Proofs!SwitchedIn, Proofs!Begun, Proofs!BegunLog,
    Proofs!BegunOutcome, Proofs!Interrupted, Proofs!Completed, Proofs!IsSwitch, Proofs!PlacesOn,
    Proofs!AppendSegment, Proofs!Segment, Proofs!EventTimes, Proofs!CutAt, Proofs!StatusOf,
    Proofs!engineVars, Proofs!SliceEnds, Proofs!BurstLen, Proofs!Free, Proofs!HorizonOf, Proofs!Running,
    Proofs!RunLength, Proofs!Lesser, Proofs!AffinePicks, Proofs!Affine, Proofs!Merges, Proofs!AtLimit,
    Proofs!IsFull, Proofs!Max, Proofs!SumFunction, Proofs!SumFunctionOnSet, Proofs!FoldFunctionOnSet,
    Proofs!MapThenFoldSet, Proofs!RemoveAt, Proofs!Cardinality, Proofs!IsFiniteSet, Proofs!NoDeadline

-----------------------------------------------------------------------------
(* fcfs                                                                    *)

FcfsInv == policy = "fcfs" => queue \in Seq(Procs) /\ IsInjective(queue)

LEMMA FcfsReady == policy = "fcfs" => Ready = ToSet(queue)
BY DEF Ready

LEMMA FcfsStep ==
    ASSUME Proofs!Inv, FcfsInv, policy = "fcfs", UNCHANGED policy, FCFS!Next
    PROVE  Proofs!Next /\ FcfsInv'
<1>1. queue \in Seq(Procs) /\ IsInjective(queue)
  BY DEF FcfsInv
<1>2. Ready = ToSet(queue) /\ Ready' = ToSet(queue')
  BY DEF Ready
<1>3. /\ pending \cap ToSet(queue) = {} /\ blocked \cap ToSet(queue) = {}
      /\ pending \subseteq Procs /\ blocked \subseteq Procs
  BY <1>2 DEF Proofs!Inv, Proofs!OnePlace, Proofs!TypeOK
<1>4. CASE \E p \in Procs : FCFS!Arrive(p) \/ FCFS!BecomeReady(p)
  <2>1. PICK p \in Procs : FCFS!Arrive(p) \/ FCFS!BecomeReady(p)
    BY <1>4
  <2>2. Proofs!Admit(p) \/ Proofs!WakeUp(p)
    BY <2>1, FcfsEngine DEF FCFS!Arrive, FCFS!BecomeReady
  <2>3. queue' = Append(queue, p)
    BY <2>1 DEF FCFS!Arrive, FCFS!BecomeReady, FCFS!Enqueued
  <2>4. p \notin ToSet(queue)
    BY <1>3, <2>2 DEF Proofs!Admit, Proofs!WakeUp, Proofs!IsFirst
  <2>5. /\ queue' \in Seq(Procs) /\ IsInjective(queue')
        /\ ToSet(queue') = ToSet(queue) \cup {p}
    BY <1>1, <2>3, <2>4, Joining
  <2> QED
    BY <1>2, <2>2, <2>5 DEF Proofs!Next, Proofs!Arrive, Proofs!BecomeReady, FcfsInv
<1>5. CASE \E c \in FCFS!Cores : FCFS!SliceCompletes(c) \/ FCFS!SliceBlocks(c)
  <2>1. PICK c \in Proofs!Cores : FCFS!SliceCompletes(c) \/ FCFS!SliceBlocks(c)
    BY <1>5 DEF FCFS!Cores, Proofs!Cores
  <2>2. (Proofs!Complete(c) \/ Proofs!Block(c)) /\ UNCHANGED queue
    BY <2>1, FcfsEngine DEF FCFS!SliceCompletes, FCFS!SliceBlocks
  <2> QED
    BY <1>1, <1>2, <2>2 DEF Proofs!Next, Proofs!SliceCompletes, Proofs!SliceBlocks, FcfsInv
<1>6. CASE FCFS!NextSlice
  <2> DEFINE p == Head(queue)
             s == Proofs!Slice(p, remaining[p], Proofs!NoDeadline)
  <2>1. queue # <<>> /\ Proofs!Pick(s) /\ queue' = Tail(queue)
    BY <1>6, FcfsEngine DEF FCFS!NextSlice, FCFS!LengthOf
  <2>2. /\ queue' \in Seq(Procs) /\ IsInjective(queue') /\ p \in ToSet(queue)
        /\ ToSet(queue') = ToSet(queue) \ {p}
    BY <1>1, <2>1, Leaving
  <2>3. s \in Proofs!SlicesFor(p) /\ s.proc = p
    BY DEF Proofs!SlicesFor, Proofs!Slice
  <2>4. Proofs!NextSlice(s)
    BY <1>2, <2>1, <2>2, <2>3 DEF Proofs!NextSlice
  <2>5. Proofs!Next
    BY <1>2, <2>2, <2>3, <2>4 DEF Proofs!Next
  <2> QED BY <2>2, <2>5 DEF FcfsInv
<1>7. CASE FCFS!StopPicking
  <2>1. Proofs!PicksDone /\ (Proofs!WantsPick => queue = <<>>) /\ UNCHANGED queue
    BY <1>7, FcfsEngine DEF FCFS!StopPicking
  <2>2. queue = <<>> => Ready = {}
    BY <1>2 DEF ToSet
  <2>3. Proofs!StopPicking
    BY <1>2, <2>1, <2>2 DEF Proofs!StopPicking, Proofs!MayDecline
  <2> QED BY <1>1, <2>1, <2>3 DEF Proofs!Next, FcfsInv
<1>8. CASE FCFS!EngineStep /\ UNCHANGED queue
  BY <1>1, <1>2, <1>8, FcfsEngine DEF Proofs!Next, FcfsInv
<1> QED BY <1>4, <1>5, <1>6, <1>7, <1>8 DEF FCFS!Next

-----------------------------------------------------------------------------
(* sjf *)

LEMMA ArrivalType == Proofs!Inv => w.arrival \in [Procs -> 0..(MaxTime - 1)]
BY ProofsAssumptions DEF Proofs!WorkloadAssumption, Proofs!Inv, Proofs!TypeOK

LEMMA BurstType == Proofs!Inv => \A p \in Procs : Proofs!BurstLen(p) \in 1..MaxTime
<1> SUFFICES ASSUME Proofs!Inv, NEW p \in Procs PROVE Proofs!BurstLen(p) \in 1..MaxTime
  OBVIOUS
<1>1. w.phases[p] \in Seq(1..MaxTime)
  BY ProofsAssumptions DEF Proofs!WorkloadAssumption, Proofs!Inv, Proofs!TypeOK
<1>2. phase[p] \in 1..Len(w.phases[p])
  BY <1>1 DEF Proofs!Inv, Proofs!TypeOK
<1>3. \A S : \A q \in Seq(S) : \A i \in 1..Len(q) : q[i] \in S
  OBVIOUS
<1>4. w.phases[p][phase[p]] \in 1..MaxTime
  BY <1>1, <1>2, <1>3
<1> QED BY <1>4 DEF Proofs!BurstLen

LEMMA SjfLeast ==
    ASSUME Proofs!Inv, NEW S \in SUBSET Procs, S # {}
    PROVE  SJF!Least(S) \in S
<1> DEFINE k == [p \in S |-> SJF!Key(p)]
           a == [p \in S |-> w.arrival[p]]
<1>1. ASSUME NEW p \in S PROVE SJF!Key(p) \in Int
  <2>1. Proofs!BurstLen(p) \in Int /\ predicted[p] \in Int
    BY BurstType DEF Proofs!Inv, Proofs!TypeOK
  <2> QED
    BY <2>1, RunToCompletionAssumption
    DEF SJF!Key, SJF!Srtf, SJF!ExpectedBurst, SJF!BurstLen, Proofs!BurstLen
<1>2. k \in [S -> Int] /\ a \in [S -> Int]
  BY <1>1, ArrivalType
<1>3. IsFiniteSet(S) /\ S \subseteq Nat
  BY EngineAssumption, FS_Subset
<1>4. \A p \in S : k[p] = SJF!Key(p) /\ a[p] = w.arrival[p]
  OBVIOUS
<1> HIDE DEF k, a
<1>5. \E x \in S : \A y \in S \ {x} :
         \/ k[x] < k[y]
         \/ k[x] = k[y] /\ a[x] < a[y]
         \/ k[x] = k[y] /\ a[x] = a[y] /\ x < y
  BY <1>2, <1>3, KeyedLeastExists
<1>6. \E x \in S : \A y \in S \ {x} : SJF!Less(x, y)
  BY <1>4, <1>5 DEF SJF!Less
<1> QED BY <1>6 DEF SJF!Least

LEMMA SjfStep ==
    ASSUME Proofs!Inv, policy = "sjf", UNCHANGED policy, SJF!Next
    PROVE  Proofs!Next
<1>1. Ready = ready /\ Ready' = ready'
  BY DEF Ready
<1>2. CASE \E p \in Procs : SJF!Arrive(p) \/ SJF!BecomeReady(p)
  <2>1. PICK p \in Procs : SJF!Arrive(p) \/ SJF!BecomeReady(p)
    BY <1>2
  <2> QED
    BY <1>1, <2>1, SjfEngine DEF SJF!Arrive, SJF!BecomeReady,
       Proofs!Next, Proofs!Arrive, Proofs!BecomeReady
<1>3. CASE \E c \in SJF!Cores : SJF!SliceCompletes(c) \/ SJF!SliceBlocks(c) \/ SJF!SlicePreempted(c)
  <2>1. PICK c \in Proofs!Cores :
           SJF!SliceCompletes(c) \/ SJF!SliceBlocks(c) \/ SJF!SlicePreempted(c)
    BY <1>3 DEF SJF!Cores, Proofs!Cores
  <2>2. (Proofs!Complete(c) \/ Proofs!Block(c)) /\ UNCHANGED ready
    BY <2>1, SjfEngine, RunToCompletionAssumption
    DEF SJF!SliceCompletes, SJF!SliceBlocks, SJF!SlicePreempted, SJF!Srtf
  <2> QED
    BY <1>1, <2>2 DEF Proofs!Next, Proofs!SliceCompletes, Proofs!SliceBlocks
<1>4. CASE SJF!NextSlice
  <2>1. PICK p : p = SJF!Least(ready)
    OBVIOUS
  <2> DEFINE s == Proofs!Slice(p, remaining[p], Proofs!NoDeadline)
  <2>2. ready # {} /\ Proofs!Pick(s) /\ ready' = ready \ {p}
    BY <1>4, <2>1, SjfEngine DEF SJF!NextSlice, SJF!LengthOf
  <2>3. ready \subseteq Procs
    BY <1>1 DEF Proofs!Inv, Proofs!TypeOK
  <2>4. p \in ready
    BY <2>1, <2>2, <2>3, SjfLeast
  <2>5. s \in Proofs!SlicesFor(p) /\ s.proc = p
    BY DEF Proofs!SlicesFor, Proofs!Slice
  <2>6. Proofs!NextSlice(s)
    BY <1>1, <2>2, <2>5 DEF Proofs!NextSlice
  <2> QED
    BY <1>1, <2>4, <2>5, <2>6 DEF Proofs!Next
<1>5. CASE SJF!StopPicking
  <2>1. Proofs!PicksDone /\ (Proofs!WantsPick => ready = {}) /\ UNCHANGED ready
    BY <1>5, SjfEngine DEF SJF!StopPicking
  <2>2. Proofs!StopPicking
    BY <1>1, <2>1 DEF Proofs!StopPicking, Proofs!MayDecline
  <2> QED BY <2>2 DEF Proofs!Next
<1>6. CASE SJF!EngineStep /\ UNCHANGED ready
  BY <1>1, <1>6, SjfEngine DEF Proofs!Next
<1> QED BY <1>2, <1>3, <1>4, <1>5, <1>6 DEF SJF!Next

-----------------------------------------------------------------------------
(* prio *)

PrioInv ==
    policy = "prio" =>
        /\ base \in [Procs -> Int] /\ r \in [Procs -> Int]
        /\ waited \in [Procs -> Int] /\ readySince \in [Procs -> Int]
        /\ w.priority \in [Procs -> Int]

LEMMA SatSubType == ASSUME NEW a \in Int, NEW b \in Int PROVE Prio!SatSub(a, b) \in Int
BY RunToCompletionAssumption DEF Prio!SatSub

LEMMA BestOfType ==
    ASSUME Proofs!Inv, base \in [Procs -> Int], NEW S \in SUBSET Procs, S # {}
    PROVE  /\ Prio!BestOf(S) \in S
           /\ \A y \in S \ {Prio!BestOf(S)} : Prio!KeyLess(Prio!BestOf(S), 0, y, 0)
<1> DEFINE k == [p \in S |-> Prio!SatSub(base[p], 0)]
           a == [p \in S |-> w.arrival[p]]
<1>1. k \in [S -> Int] /\ a \in [S -> Int]
  <2>1. \A p \in S : base[p] \in Int /\ w.arrival[p] \in Int
    BY ArrivalType
  <2>2. \A p \in S : Prio!SatSub(base[p], 0) \in Int
    BY <2>1, SatSubType
  <2> QED BY <2>1, <2>2
<1>2. IsFiniteSet(S) /\ S \subseteq Nat
  BY EngineAssumption, FS_Subset
<1>3. \A p \in S : k[p] = Prio!SatSub(base[p], 0) /\ a[p] = w.arrival[p]
  OBVIOUS
<1> HIDE DEF k, a
<1>4. \E x \in S : \A y \in S \ {x} :
         \/ k[x] < k[y]
         \/ k[x] = k[y] /\ a[x] < a[y]
         \/ k[x] = k[y] /\ a[x] = a[y] /\ x < y
  BY <1>1, <1>2, KeyedLeastExists, ZenonT(30)
<1>5. \E x \in S : \A y \in S \ {x} : Prio!KeyLess(x, 0, y, 0)
  BY <1>3, <1>4 DEF Prio!KeyLess
<1> QED BY <1>5 DEF Prio!BestOf

LEMMA ChosenType ==
    ASSUME Proofs!Inv, PrioInv, policy = "prio", ready \subseteq Procs, ready # {}
    PROVE  Prio!Chosen \in ready
<1>1. base \in [Procs -> Int] /\ r \in [Procs -> Int]
  BY DEF PrioInv
<1>2. CASE Aging = 0
  BY <1>1, <1>2, BestOfType DEF Prio!Chosen
<1>3. CASE Aging # 0
  <2> DEFINE low == Prio!Low(ready)
             high == Prio!High(ready)
  <2>1. Prio!Limit \in Int
    BY <1>3, RunToCompletionAssumption DEF Prio!Limit, Proofs!Inv, Proofs!TypeOK, Proofs!Times
  <2>2. low \subseteq ready /\ high \subseteq ready /\ ready = low \cup high
    BY <1>1, <2>1 DEF Prio!Low, Prio!High
  <2> HIDE DEF low, high
  <2>3. (low # {} => Prio!BestOf(low) \in ready) /\ (high # {} => Prio!BestOf(high) \in ready)
    BY <1>1, <2>2, BestOfType
  <2>4. low # {} \/ high # {}
    BY <2>2
  <2> QED
    BY <1>3, <2>3, <2>4 DEF Prio!Chosen, low, high
<1> QED BY <1>2, <1>3

LEMMA EnqueueType ==
    ASSUME Proofs!Inv, PrioInv, policy = "prio", NEW p \in Procs, Prio!Enqueue(p, 0)
    PROVE  /\ base' \in [Procs -> Int] /\ r' \in [Procs -> Int]
           /\ waited' \in [Procs -> Int] /\ readySince' \in [Procs -> Int]
<1> DEFINE c == 0 - now
<1>1. c \in Int /\ now \in Int
  BY DEF Proofs!Inv, Proofs!TypeOK, Proofs!Times
<1>2. /\ base \in [Procs -> Int] /\ r \in [Procs -> Int]
      /\ waited \in [Procs -> Int] /\ readySince \in [Procs -> Int]
      /\ w.priority[p] \in Int
  BY DEF PrioInv
<1>3. Aging > 0 => c % Aging \in Int /\ c \div Aging \in Int
  BY <1>1, RunToCompletionAssumption
<1>4. Aging > 0 => Prio!SatSub(w.priority[p], c \div Aging) \in Int
  BY <1>2, <1>3, SatSubType
<1>5. /\ r' = [r EXCEPT ![p] = IF Aging > 0 THEN c % Aging ELSE 0]
      /\ base' = [base EXCEPT ![p] = IF Aging > 0 THEN Prio!SatSub(w.priority[p], c \div Aging)
                                     ELSE w.priority[p]]
      /\ waited' = [waited EXCEPT ![p] = 0] /\ readySince' = [readySince EXCEPT ![p] = now]
  BY DEF Prio!Enqueue
<1> HIDE DEF c
<1> QED BY <1>1, <1>2, <1>3, <1>4, <1>5

LEMMA PrioStep ==
    ASSUME Proofs!Inv, PrioInv, policy = "prio", UNCHANGED policy, Prio!Next
    PROVE  Proofs!Next /\ PrioInv'
<1>1. Ready = ready /\ Ready' = ready'
  BY DEF Ready
<1>2. /\ base \in [Procs -> Int] /\ r \in [Procs -> Int]
      /\ waited \in [Procs -> Int] /\ readySince \in [Procs -> Int]
  BY DEF PrioInv
<1> DEFINE Typed == /\ base' \in [Procs -> Int] /\ r' \in [Procs -> Int]
                    /\ waited' \in [Procs -> Int] /\ readySince' \in [Procs -> Int]
<1>3. Proofs!Next /\ Typed
  <2>1. CASE \E p \in Procs : Prio!Arrive(p) \/ Prio!BecomeReady(p)
    <3>1. PICK p \in Procs : Prio!Arrive(p) \/ Prio!BecomeReady(p)
      BY <2>1
    <3>2. (Proofs!Admit(p) \/ Proofs!WakeUp(p)) /\ Prio!Enqueue(p, 0)
      BY <3>1, PrioEngine DEF Prio!Arrive, Prio!BecomeReady
    <3>3. Typed
      BY <3>2, EnqueueType
    <3>4. ready' = ready \cup {p}
      BY <3>2 DEF Prio!Enqueue
    <3> QED
      BY <1>1, <3>2, <3>3, <3>4 DEF Proofs!Next, Proofs!Arrive, Proofs!BecomeReady
  <2>2. CASE \E c \in Prio!Cores :
                Prio!SliceCompletes(c) \/ Prio!SliceBlocks(c) \/ Prio!SlicePreempted(c)
    <3>1. PICK c \in Proofs!Cores :
             Prio!SliceCompletes(c) \/ Prio!SliceBlocks(c) \/ Prio!SlicePreempted(c)
      BY <2>2 DEF Prio!Cores, Proofs!Cores
    <3>2. (Proofs!Complete(c) \/ Proofs!Block(c)) /\ UNCHANGED Prio!prioVars
      BY <3>1, PrioEngine, RunToCompletionAssumption
      DEF Prio!SliceCompletes, Prio!SliceBlocks, Prio!SlicePreempted
    <3> QED
      BY <1>1, <1>2, <3>2 DEF Proofs!Next, Proofs!SliceCompletes, Proofs!SliceBlocks, Prio!prioVars
  <2>3. CASE Prio!NextSlice
    <3>1. PICK p : p = Prio!Chosen
      OBVIOUS
    <3>2. Ready \subseteq Procs /\ now \in Int
      BY DEF Proofs!Inv, Proofs!TypeOK, Proofs!Times
    <3>3. ready # {}
      BY <2>3 DEF Prio!NextSlice
    <3>4. p \in ready /\ p \in Procs
      BY <1>1, <3>1, <3>2, <3>3, ChosenType
    <3> DEFINE s == Proofs!Slice(p, remaining[p], Proofs!NoDeadline)
    <3>5. /\ Prio!Pick(Prio!Slice(p, remaining[p], Prio!NoDeadline)) /\ ready' = ready \ {p}
          /\ waited' = [waited EXCEPT ![p] = waited[p] + now - readySince[p]]
          /\ UNCHANGED <<readySince, base, r>>
      BY <2>3, <3>1, RunToCompletionAssumption DEF Prio!NextSlice
    <3>6. Proofs!Pick(s)
      BY <3>5, PrioEngine
    <3>7. Typed
      BY <1>2, <3>2, <3>4, <3>5
    <3>8. s \in Proofs!SlicesFor(p) /\ s.proc = p
      BY DEF Proofs!SlicesFor, Proofs!Slice
    <3>9. Proofs!NextSlice(s)
      BY <1>1, <3>5, <3>6, <3>8 DEF Proofs!NextSlice
    <3> QED
      BY <1>1, <3>4, <3>7, <3>8, <3>9 DEF Proofs!Next
  <2>4. CASE Prio!StopPicking
    <3>1. Proofs!PicksDone /\ (Proofs!WantsPick => ready = {}) /\ UNCHANGED Prio!prioVars
      BY <2>4, PrioEngine DEF Prio!StopPicking
    <3>2. Proofs!StopPicking
      BY <1>1, <3>1 DEF Proofs!StopPicking, Proofs!MayDecline, Prio!prioVars
    <3> QED BY <1>2, <3>1, <3>2 DEF Proofs!Next, Prio!prioVars
  <2>5. CASE Prio!EngineStep /\ UNCHANGED Prio!prioVars
    BY <1>1, <1>2, <2>5, PrioEngine DEF Proofs!Next, Prio!prioVars
  <2> QED BY <2>1, <2>2, <2>3, <2>4, <2>5 DEF Prio!Next
<1>4. w' = w
  BY <1>3, ProofsAssumptions, Proofs!WorkloadKept
<1> QED BY <1>3, <1>4 DEF PrioInv

-----------------------------------------------------------------------------
(* The refinement *)

\* hrrn is left to TLC: its table is searched by recursive operators
IInv == Proofs!Inv /\ policy # "hrrn" /\ policy \in DOMAIN WorkloadsOf /\ FcfsInv /\ PrioInv

LEMMA RefinementInit == ASSUME Init, policy # "hrrn" PROVE Proofs!Init /\ IInv
<1>1. \A name \in DOMAIN WorkloadsOf : WorkloadsOf[name] \subseteq Workloads
  BY RunToCompletionAssumption
<1>2. CASE policy = "fcfs"
  <2>1. FCFS!EngineInit /\ queue = <<>>
    BY <1>2 DEF Init, FCFS!Init
  <2>2. Proofs!Init
    BY <1>1, <1>2, <2>1, FcfsEngine DEF Init, Proofs!Init, Ready, ToSet
  <2>3. FcfsInv
    BY <2>1 DEF FcfsInv, IsInjective
  <2> QED BY <1>2, <2>2, <2>3, Proofs!InitInv, ProofsAssumptions DEF IInv, PrioInv, Init
<1>3. CASE policy = "sjf"
  <2>1. SJF!EngineInit /\ ready = {}
    BY <1>3 DEF Init, SJF!Init
  <2>2. Proofs!Init
    BY <1>1, <1>3, <2>1, SjfEngine DEF Init, Proofs!Init, Ready
  <2> QED BY <1>3, <2>2, Proofs!InitInv, ProofsAssumptions DEF IInv, FcfsInv, PrioInv, Init
<1>4. CASE policy = "prio"
  <2>1. /\ Prio!EngineInit /\ ready = {} /\ waited = Zeros /\ base = Zeros /\ r = Zeros
        /\ readySince = Zeros
    BY <1>4 DEF Init, Prio!Init, Zeros
  <2>2. Proofs!Init
    BY <1>1, <1>4, <2>1, PrioEngine DEF Init, Proofs!Init, Ready
  <2>3. w \in WorkloadsOf["prio"]
    BY <2>1 DEF Prio!EngineInit
  <2>4. w.priority \in [Procs -> Int]
    BY <1>4, <2>3, RunToCompletionAssumption DEF Init
  <2>5. PrioInv
    BY <2>1, <2>4 DEF PrioInv, Zeros
  <2> QED BY <1>4, <2>2, <2>5, Proofs!InitInv, ProofsAssumptions DEF IInv, FcfsInv, Init
<1> QED BY <1>2, <1>3, <1>4, RunToCompletionAssumption DEF Init

LEMMA RefinementStep ==
    ASSUME IInv, [Next]_vars PROVE [Proofs!Next]_(Proofs!vars) /\ IInv'
<1>1. CASE UNCHANGED vars
  <2>1. UNCHANGED <<queue, ready, policy, table, active, queues>> /\ UNCHANGED engineVars
    BY <1>1 DEF vars, groupVars
  <2>2. UNCHANGED Ready
    BY <2>1 DEF Ready, IInv
  <2>3. UNCHANGED Proofs!vars
    BY <2>1, <2>2 DEF Proofs!vars, Proofs!engineVars, engineVars, Proofs!procVars, procVars,
                      Proofs!resultVars, resultVars
  <2>4. Proofs!Inv'
    BY <2>3, Proofs!NextInv, ProofsAssumptions DEF IInv
  <2>5. FcfsInv' /\ PrioInv'
    BY <1>1 DEF IInv, FcfsInv, PrioInv, vars, agingVars, engineVars
  <2> QED BY <2>1, <2>3, <2>4, <2>5 DEF IInv
<1>2. CASE Next
  <2>1. UNCHANGED policy
    BY <1>2 DEF Next
  <2>2. Proofs!Next /\ FcfsInv' /\ PrioInv'
    <3>1. CASE policy = "fcfs"
      <4>1. FCFS!Next
        BY <1>2, <3>1 DEF Next
      <4> QED BY <2>1, <3>1, <4>1, FcfsStep DEF IInv, PrioInv
    <3>2. CASE policy = "sjf"
      <4>1. SJF!Next
        BY <1>2, <3>2 DEF Next
      <4> QED BY <2>1, <3>2, <4>1, SjfStep DEF IInv, FcfsInv, PrioInv
    <3>3. CASE policy = "prio"
      <4>1. Prio!Next
        BY <1>2, <3>3 DEF Next
      <4> QED BY <2>1, <3>3, <4>1, PrioStep DEF IInv, FcfsInv
    <3> QED BY <3>1, <3>2, <3>3, RunToCompletionAssumption DEF IInv
  <2>3. Proofs!Inv'
    BY <2>2, Proofs!NextInv, ProofsAssumptions DEF IInv
  <2> QED BY <2>1, <2>2, <2>3 DEF IInv
<1> QED BY <1>1, <1>2

(* Under fcfs, sjf and prio every initial state is one of AnyPolicy and    *)
(* every step is one of its steps, the set Ready standing for the policy's *)
(* own structure: the policies keep the protocol of policy.h, never yield  *)
(* a process that is not in their set, and never decline while one is      *)
(* (fcfs.c, sjf.c, priority.c).                                            *)
THEOREM ImplementsAnyPolicy == Spec /\ policy # "hrrn" => Abstract!Spec
<1>1. Init /\ policy # "hrrn" => Abstract!Init /\ IInv
  BY RefinementInit, ProofsOfAbstract
<1>2. IInv /\ [Next]_vars => [Abstract!Next]_(Abstract!vars) /\ IInv'
  <2>1. Abstract!vars = Proofs!vars /\ Abstract!vars' = Proofs!vars'
    BY DEF Abstract!vars, Proofs!vars, Abstract!engineVars, Proofs!engineVars,
           Abstract!procVars, Proofs!procVars, Abstract!resultVars, Proofs!resultVars
  <2> QED
    BY <2>1, RefinementStep, ProofsOfAbstract
<1> QED
  BY <1>1, <1>2, PTL DEF Spec, Abstract!Spec

(* So their runs have what is proved of AnyPolicy: no process is lost or   *)
(* held twice between the policy and the engine, the timelines touch and   *)
(* lie on the clock, what the hooks are told is what was granted, and no   *)
(* time overflows; a finished schedule serves every process exactly,       *)
(* leaves no core idle while one waits, and accounts for its switches.     *)
THEOREM EngineGuarantees ==
    Spec /\ policy # "hrrn" =>
        []/\ Proofs!OnePlace /\ Proofs!RanWithinSlice
          /\ Proofs!TimelinesContiguous /\ Proofs!OverflowUnreachable
          /\ Proofs!ServedExactly /\ Proofs!NoIdleWhileReady /\ Proofs!SwitchesAccounted
<1>1. Init /\ policy # "hrrn" => Proofs!Init /\ IInv
  BY RefinementInit
<1>2. IInv /\ [Next]_vars => [Proofs!Next]_(Proofs!vars) /\ IInv'
  BY RefinementStep
<1>3. Spec /\ policy # "hrrn" => Proofs!Spec
  BY <1>1, <1>2, PTL DEF Spec, Proofs!Spec
<1>4. Proofs!Spec => []Proofs!OnePlace /\ []Proofs!RanWithinSlice
  BY ProofsAssumptions, Proofs!OnePlaceHolds, Proofs!RanWithinSliceHolds
<1>5. Proofs!Spec => []Proofs!TimelinesContiguous /\ []Proofs!OverflowUnreachable
  BY ProofsAssumptions, Proofs!TimelinesContiguousHolds, Proofs!OverflowUnreachableHolds
<1>6. Proofs!Spec => []Proofs!ServedExactly
  BY ProofsAssumptions, Proofs!ServedExactlyHolds
<1>7. Proofs!Spec => []Proofs!NoIdleWhileReady /\ []Proofs!SwitchesAccounted
  BY ProofsAssumptions, Proofs!NoIdleWhileReadyHolds, Proofs!SwitchesAccountedHolds
<1> QED
  BY <1>3, <1>4, <1>5, <1>6, <1>7, PTL

-----------------------------------------------------------------------------
(* fcfs: turns go by the time of becoming ready                            *)

Since(p) == FCFS!ReadySince(p)
Before(p, q) == FCFS!BecameReadyFirst(p, q)
Queued == ToSet(queue)

(* The order of the queue is inductive only with what is still to join it: *)
(* while arrivals are admitted nobody in the queue has woken at this       *)
(* instant, while processes are woken those that have come before those    *)
(* that have not, and nobody who was chosen has become ready just now.     *)
OrderInv ==
    /\ \A i, j \in DOMAIN queue : i < j => Before(queue[i], queue[j])
    /\ \A p \in Proofs!Taken, q \in Queued : Before(p, q)
    /\ \A p \in Proofs!Taken \cup Queued : Since(p) <= now
    /\ stage \in {"create", "arrivals", "wakeups"} => \A p \in Proofs!Taken : Since(p) < now
    /\ stage \in {"create", "arrivals"} => \A q \in Queued : phase[q] > 1 => wake[q] < now
    /\ stage = "wakeups" =>
         \A q \in Queued, p \in blocked :
            phase[q] > 1 /\ wake[q] = now /\ wake[p] = now => q < p
    /\ \A p \in pending : phase[p] = 1
    /\ \A p \in blocked : phase[p] > 1
    /\ \A p \in pending, q \in Queued : phase[q] = 1 =>
         w.arrival[q] < w.arrival[p] \/ (w.arrival[q] = w.arrival[p] /\ q < p)

LEMMA InitOrder == ASSUME FCFS!Init, Proofs!Init PROVE OrderInv
<1>1. queue = <<>> /\ Queued = {}
  BY DEF FCFS!Init, Queued, ToSet
<1>2. Proofs!Taken = {}
  BY DEF Proofs!Init, Proofs!EngineInit, Proofs!Taken, Proofs!Picked, Proofs!OnCore,
         Proofs!Busy, Proofs!Free, Proofs!FreshCore
<1>3. \A p \in pending : phase[p] = 1
  BY DEF Proofs!Init, Proofs!EngineInit
<1>4. blocked = {}
  BY DEF Proofs!Init, Proofs!EngineInit
<1> QED BY <1>1, <1>2, <1>3, <1>4 DEF OrderInv

\* how a step of fcfs changes the queue
LEMMA QueueSteps ==
    ASSUME FCFS!Next
    PROVE  \/ \E p \in Procs : (Proofs!Admit(p) \/ Proofs!WakeUp(p)) /\ queue' = Append(queue, p)
           \/ stage = "picks" /\ stage' = "picks" /\ queue # <<>> /\ queue' = Tail(queue)
           \/ queue' = queue
<1>1. CASE \E p \in Procs : FCFS!Arrive(p) \/ FCFS!BecomeReady(p)
  BY <1>1, FcfsEngine DEF FCFS!Arrive, FCFS!BecomeReady, FCFS!Enqueued
<1>2. CASE FCFS!NextSlice
  BY <1>2 DEF FCFS!NextSlice, FCFS!Pick, FCFS!WantsPick
<1>3. CASE \/ \E c \in FCFS!Cores : FCFS!SliceCompletes(c) \/ FCFS!SliceBlocks(c)
           \/ FCFS!StopPicking
           \/ FCFS!EngineStep /\ UNCHANGED queue
  BY <1>3 DEF FCFS!SliceCompletes, FCFS!SliceBlocks, FCFS!StopPicking
<1> QED BY <1>1, <1>2, <1>3 DEF FCFS!Next

LEMMA SinceType ==
    ASSUME Proofs!Inv, NEW p \in Procs
    PROVE  /\ Since(p) \in Int /\ now \in Int /\ p \in Int
           /\ phase[p] \in Nat \ {0} /\ wake[p] \in Int /\ w.arrival[p] \in Int
<1>1. w.arrival[p] \in Int /\ p \in Int
  BY ArrivalType, EngineAssumption
<1>2. now \in Int /\ wake[p] \in Int /\ phase[p] \in Nat \ {0}
  BY DEF Proofs!Inv, Proofs!TypeOK, Proofs!Times
<1> QED BY <1>1, <1>2 DEF Since, FCFS!ReadySince

LEMMA TakenTypeNext == Proofs!Inv' => Proofs!Taken' \subseteq Procs
<1>1. Proofs!Inv => Proofs!Taken \subseteq Procs
  BY ProofsAssumptions, Proofs!TakenType
<1>2. Proofs!Inv' => (Proofs!Taken \subseteq Procs)'
  BY <1>1, PTL
<1> QED BY <1>2

LEMMA OrderStep ==
    ASSUME Proofs!Inv, Proofs!Inv', FcfsInv, FcfsInv', OrderInv, policy = "fcfs",
           UNCHANGED policy, FCFS!Next
    PROVE  OrderInv'
<1>1. Proofs!Next /\ Ready = Queued /\ Ready' = Queued' /\ w' = w
  BY FcfsStep, ProofsAssumptions, Proofs!WorkloadKept DEF Ready, Queued
<1>2. /\ queue \in Seq(Procs) /\ IsInjective(queue) /\ queue' \in Seq(Procs)
      /\ Queued \subseteq Procs /\ Queued' \subseteq Procs
      /\ Proofs!Taken \subseteq Procs /\ Proofs!Taken' \subseteq Procs
      /\ pending \subseteq Procs /\ blocked \subseteq Procs
      /\ pending' \subseteq Procs /\ blocked' \subseteq Procs
  <2>1. Proofs!Inv => Proofs!Taken \subseteq Procs
    BY ProofsAssumptions, Proofs!TakenType
  <2>2. Proofs!Inv' => Proofs!Taken' \subseteq Procs
    BY TakenTypeNext
  <2> QED
    BY <1>1, <2>1, <2>2 DEF FcfsInv, Proofs!Inv, Proofs!TypeOK
<1>3. /\ (Queued \cup Proofs!Taken \cup pending) \cap blocked = {}
      /\ (Queued' \cup Proofs!Taken' \cup pending') \cap blocked' = {}
      /\ pending \cap Queued = {} /\ pending' \cap Queued' = {}
  BY <1>1 DEF Proofs!Inv, Proofs!OnePlace, Proofs!Taken
<1> DEFINE Same(q) ==
             /\ Since(q)' = Since(q) /\ phase'[q] = phase[q] /\ wake'[q] = wake[q]
             /\ w'.arrival[q] = w.arrival[q]
<1>4. \A q \in Procs : q \notin blocked' \ blocked => Same(q)
  BY <1>1, ProofsAssumptions, Proofs!BurstKept DEF Since, FCFS!ReadySince
<1>5. \A q \in Queued' \cup Proofs!Taken' \cup pending' : Same(q)
  BY <1>2, <1>3, <1>4
<1>6. \A p, q \in Procs : Same(p) /\ Same(q) /\ Before(p, q) => Before(p, q)'
  BY DEF Before, FCFS!BecameReadyFirst, Since
<1> HIDE DEF Same
<1>7. \/ \E p \in Procs : (Proofs!Admit(p) \/ Proofs!WakeUp(p)) /\ queue' = Append(queue, p)
      \/ stage = "picks" /\ stage' = "picks" /\ queue # <<>> /\ queue' = Tail(queue)
      \/ queue' = queue
  BY QueueSteps
<1> DEFINE Joins(p) == /\ Proofs!Admit(p) \/ Proofs!WakeUp(p)
                       /\ queue' = Append(queue, p) /\ Queued' = Queued \cup {p} /\ p \notin Queued
           Goes == /\ stage' = "picks" /\ queue # <<>> /\ queue' = Tail(queue)
                   /\ Queued' = Queued \ {Head(queue)} /\ Head(queue) \in Queued
           Stays == queue' = queue /\ Queued' = Queued
<1>8. Stays \/ Goes \/ \E p \in Procs : Joins(p)
  <2>1. ASSUME NEW p \in Procs, Proofs!Admit(p) \/ Proofs!WakeUp(p), queue' = Append(queue, p)
        PROVE  Joins(p)
    <3>1. p \in pending \cup blocked
      BY <2>1 DEF Proofs!Admit, Proofs!WakeUp, Proofs!IsFirst
    <3>2. p \notin Queued
      BY <1>3, <3>1
    <3> QED BY <1>2, <2>1, <3>2, Joining DEF Queued
  <2>2. ASSUME stage' = "picks", queue # <<>>, queue' = Tail(queue) PROVE Goes
    BY <1>2, <2>2, Leaving DEF Queued
  <2> QED BY <1>7, <2>1, <2>2 DEF Queued
\* who is taken, and by what
<1>9. \/ Proofs!Taken' \subseteq Proofs!Taken
      \/ Goes /\ Proofs!Taken' \subseteq Proofs!Taken \cup {Head(queue)}
  <2>1. \/ Proofs!Taken' \subseteq Proofs!Taken
        \/ \E p \in Queued : Queued' = Queued \ {p} /\ Proofs!Taken' = Proofs!Taken \cup {p}
    BY <1>1, ProofsAssumptions, Proofs!TakenKept
  <2> QED BY <1>8, <2>1
\* what becomes ready does so now
<1>10. ASSUME NEW p \in Procs, Joins(p)
       PROVE  /\ Since(p) = now /\ now' = now /\ stage' = stage
              /\ \/ phase[p] = 1 /\ p \in pending /\ stage = "arrivals" /\ Proofs!Admit(p)
                 \/ phase[p] > 1 /\ wake[p] = now /\ p \in blocked /\ stage = "wakeups"
                    /\ Proofs!WakeUp(p)
  <2>1. CASE Proofs!Admit(p)
    <3>1. stage = "arrivals" /\ p \in pending /\ w.arrival[p] <= now
      BY <2>1 DEF Proofs!Admit, Proofs!IsFirst, Proofs!Arrived
    <3>2. now <= w.arrival[p]
      BY <3>1 DEF Proofs!Inv, Proofs!NothingMissed
    <3>3. phase[p] = 1
      BY <3>1 DEF OrderInv
    <3> QED
      BY <2>1, <3>1, <3>2, <3>3, SinceType DEF Proofs!Admit, Since, FCFS!ReadySince
  <2>2. CASE Proofs!WakeUp(p)
    <3>1. stage = "wakeups" /\ p \in blocked /\ wake[p] <= now
      BY <2>2 DEF Proofs!WakeUp, Proofs!IsFirst, Proofs!Woken
    <3>2. now <= wake[p]
      BY <3>1 DEF Proofs!Inv, Proofs!NothingMissed
    <3>3. phase[p] > 1
      BY <3>1 DEF OrderInv
    <3> QED
      BY <2>2, <3>1, <3>2, <3>3, SinceType DEF Proofs!WakeUp, Since, FCFS!ReadySince
  <2> QED BY <1>10, <2>1, <2>2
<1>11. ASSUME NEW p \in Procs, Joins(p), NEW q \in Queued PROVE Before(q, p)
  <2>1. /\ Since(q) \in Int /\ now \in Int /\ q \in Int /\ p \in Int /\ phase[q] \in Nat \ {0}
        /\ wake[q] \in Int /\ w.arrival[q] \in Int /\ wake[p] \in Int /\ w.arrival[p] \in Int
    BY <1>2, SinceType
  <2>2. Since(q) <= now /\ Since(p) = now
    BY <1>10, <1>11 DEF OrderInv
  <2>3. Since(q) = IF phase[q] = 1 THEN w.arrival[q] ELSE wake[q]
    BY DEF Since, FCFS!ReadySince
  <2>4. Since(p) = IF phase[p] = 1 THEN w.arrival[p] ELSE wake[p]
    BY DEF Since, FCFS!ReadySince
  <2>5. CASE phase[p] = 1 /\ p \in pending /\ stage = "arrivals"
    <3>1. phase[q] > 1 => wake[q] < now
      BY <2>5 DEF OrderInv
    <3>2. phase[q] = 1 =>
            w.arrival[q] < w.arrival[p] \/ (w.arrival[q] = w.arrival[p] /\ q < p)
      BY <2>5 DEF OrderInv
    <3> QED
      BY <2>1, <2>2, <2>3, <2>4, <2>5, <3>1, <3>2 DEF Before, FCFS!BecameReadyFirst, Since
  <2>6. CASE phase[p] > 1 /\ wake[p] = now /\ p \in blocked /\ stage = "wakeups"
    <3>1. phase[q] > 1 /\ wake[q] = now => q < p
      BY <2>6 DEF OrderInv
    <3> QED
      BY <2>1, <2>2, <2>3, <2>6, <3>1 DEF Before, FCFS!BecameReadyFirst, Since
  <2> QED BY <1>10, <1>11, <2>5, <2>6
<1>12. \A i, j \in DOMAIN queue' : i < j => Before(queue'[i], queue'[j])
  <2>1. \A i, j \in DOMAIN queue : i < j => Before(queue[i], queue[j])
    BY DEF OrderInv
  <2>2. CASE Stays
    BY <2>1, <2>2
  <2>3. CASE Goes
    <3>1. /\ Len(queue) \in Nat /\ DOMAIN queue = 1..Len(queue)
          /\ DOMAIN queue' = 1..(Len(queue) - 1)
          /\ \A i \in 1..(Len(queue) - 1) : queue'[i] = queue[i + 1]
      BY <1>2, <2>3
    <3> TAKE i, j \in DOMAIN queue'
    <3>2. i + 1 \in DOMAIN queue /\ j + 1 \in DOMAIN queue /\ (i < j => i + 1 < j + 1)
      BY <3>1
    <3> QED BY <2>1, <3>1, <3>2
  <2>4. CASE \E p \in Procs : Joins(p)
    <3>1. PICK p \in Procs : Joins(p)
      BY <2>4
    <3>2. /\ Len(queue) \in Nat /\ DOMAIN queue = 1..Len(queue)
          /\ DOMAIN queue' = 1..(Len(queue) + 1)
          /\ \A i \in 1..Len(queue) : queue'[i] = queue[i]
          /\ queue'[Len(queue) + 1] = p
      BY <1>2, <3>1
    <3>3. \A i \in DOMAIN queue : queue[i] \in Queued
      BY DEF Queued, ToSet
    <3> SUFFICES ASSUME NEW i \in DOMAIN queue', NEW j \in DOMAIN queue', i < j
                 PROVE  Before(queue'[i], queue'[j])
      OBVIOUS
    <3>4. i \in DOMAIN queue /\ queue'[i] = queue[i]
      BY <3>2
    <3>5. CASE j \in DOMAIN queue
      BY <2>1, <3>2, <3>4, <3>5
    <3>6. CASE j \notin DOMAIN queue
      <4>1. queue'[j] = p
        BY <3>2, <3>6
      <4> QED BY <1>11, <3>1, <3>3, <3>4, <4>1
    <3> QED BY <3>5, <3>6
  <2> QED BY <1>8, <2>2, <2>3, <2>4
<1>13. \A p \in Proofs!Taken', q \in Queued' : Before(p, q)
  <2> TAKE p \in Proofs!Taken', q \in Queued'
  <2>1. CASE p \in Proofs!Taken /\ q \in Queued
    BY <2>1 DEF OrderInv
  <2>2. CASE p \in Proofs!Taken /\ q \notin Queued
    <3>1. Joins(q) /\ q \in Procs
      BY <1>8, <2>2
    <3>2. Since(q) = now /\ stage \in {"create", "arrivals", "wakeups"}
      BY <1>10, <3>1
    <3>3. Since(p) < Since(q)
      BY <2>2, <3>2 DEF OrderInv
    <3> QED BY <3>3 DEF Before, FCFS!BecameReadyFirst, Since
  <2>3. CASE p \notin Proofs!Taken
    <3>1. Goes /\ p = Head(queue)
      BY <1>9, <2>3
    <3>2. /\ Len(queue) \in Nat /\ DOMAIN queue = 1..Len(queue) /\ 1 \in DOMAIN queue
          /\ p = queue[1]
          /\ DOMAIN queue' = 1..(Len(queue) - 1)
          /\ \A i \in 1..(Len(queue) - 1) : queue'[i] = queue[i + 1]
      BY <1>2, <3>1
    <3>3. PICK i \in DOMAIN queue' : q = queue'[i]
      BY DEF Queued, ToSet
    <3>4. i + 1 \in DOMAIN queue /\ 1 < i + 1 /\ q = queue[i + 1]
      BY <3>2, <3>3
    <3> QED BY <3>2, <3>4 DEF OrderInv
  <2> QED BY <2>1, <2>2, <2>3
<1>14. \A p \in Proofs!Taken' \cup Queued' : Since(p) <= now
  <2> TAKE p \in Proofs!Taken' \cup Queued'
  <2>1. p \in Proofs!Taken \cup Queued \/ Joins(p)
    BY <1>8, <1>9
  <2>2. CASE p \in Proofs!Taken \cup Queued
    BY <2>2 DEF OrderInv
  <2>3. CASE Joins(p)
    <3>1. Since(p) = now /\ now \in Int
      BY <1>2, <1>10, <2>3, SinceType
    <3> QED BY <3>1
  <2> QED BY <2>1, <2>2, <2>3
<1>15. now \in Int /\ now' \in Int /\ \A p \in Procs : Since(p) \in Int
  <2>1. now \in Int /\ \A p \in Procs : Since(p) \in Int
    BY EngineAssumption, SinceType
  <2>2. now' \in Int
    BY DEF Proofs!Inv, Proofs!TypeOK, Proofs!Times
  <2> QED BY <2>1, <2>2
<1>16. (Proofs!Advance /\ now' > now) \/ now' = now
  BY <1>1, ProofsAssumptions, Proofs!ClockKept, Proofs!AdvanceFacts
<1>17. Proofs!Advance => Stays /\ Proofs!Taken' \subseteq Proofs!Taken /\ stage' = "arrivals"
                         /\ blocked' = blocked
  <2> SUFFICES ASSUME Proofs!Advance PROVE Stays /\ stage' = "arrivals" /\ blocked' = blocked
    BY <1>9 DEF Proofs!Advance
  <2>1. stage = "advance" /\ stage' = "arrivals" /\ blocked' = blocked
    BY DEF Proofs!Advance
  <2> QED BY <1>8, <1>10, <2>1
<1>18. (\A i, j \in DOMAIN queue : i < j => Before(queue[i], queue[j]))'
  <2> SUFFICES ASSUME NEW i \in DOMAIN queue', NEW j \in DOMAIN queue', i < j
               PROVE  Before(queue[i], queue[j])'
    OBVIOUS
  <2>1. PICK p, q : p = queue'[i] /\ q = queue'[j]
    OBVIOUS
  <2>2. p \in Queued' /\ q \in Queued'
    BY <2>1 DEF Queued, ToSet
  <2>3. Before(p, q)'
    BY <1>2, <1>5, <1>6, <1>12, <2>1, <2>2
  <2> QED BY <2>1, <2>3 DEF Before, FCFS!BecameReadyFirst, FCFS!ReadySince
<1>19. (\A p \in Proofs!Taken, q \in Queued : Before(p, q))'
  BY <1>2, <1>5, <1>6, <1>13
<1>20. (\A p \in Proofs!Taken \cup Queued : Since(p) <= now)'
  <2> SUFFICES ASSUME NEW p \in Proofs!Taken' \cup Queued' PROVE Since(p)' <= now'
    OBVIOUS
  <2>1. p \in Procs /\ Since(p)' = Since(p) /\ Since(p) <= now
    BY <1>2, <1>5, <1>14 DEF Same
  <2> QED BY <1>15, <1>16, <2>1
<1>21. (stage \in {"create", "arrivals", "wakeups"} => \A p \in Proofs!Taken : Since(p) < now)'
  <2> SUFFICES ASSUME stage' \in {"create", "arrivals", "wakeups"}, NEW p \in Proofs!Taken'
               PROVE  Since(p)' < now'
    OBVIOUS
  <2>1. p \in Procs /\ Since(p)' = Since(p) /\ Since(p) <= now
    BY <1>2, <1>5, <1>14 DEF Same
  <2>2. CASE Proofs!Advance
    BY <1>15, <1>16, <2>1, <2>2, ProofsAssumptions, Proofs!AdvanceFacts
  <2>3. CASE ~Proofs!Advance
    <3>1. /\ now' = now /\ Proofs!Taken' = Proofs!Taken
          /\ stage \in {"create", "arrivals", "wakeups"}
      BY <1>1, <2>3, ProofsAssumptions, Proofs!EarlyKept
    <3> QED BY <2>1, <3>1 DEF OrderInv
  <2> QED BY <2>2, <2>3
<1>22. (stage \in {"create", "arrivals"} => \A q \in Queued : phase[q] > 1 => wake[q] < now)'
  <2> SUFFICES ASSUME stage' \in {"create", "arrivals"}, NEW q \in Queued', phase'[q] > 1
               PROVE  wake'[q] < now'
    OBVIOUS
  <2>1. q \in Procs /\ phase[q] > 1 /\ wake'[q] = wake[q] /\ Since(q) <= now
    BY <1>2, <1>5, <1>14 DEF Same
  <2>2. Since(q) = wake[q]
    BY <2>1 DEF Since, FCFS!ReadySince
  <2>3. CASE Proofs!Advance
    BY <1>15, <1>16, <2>1, <2>2, <2>3, ProofsAssumptions, Proofs!AdvanceFacts
  <2>4. CASE ~Proofs!Advance
    <3>1. now' = now /\ stage \in {"create", "arrivals"}
      BY <1>1, <2>4, ProofsAssumptions, Proofs!EarlyKept
    <3>2. q \in Queued
      BY <1>8, <1>10, <2>1, <3>1, SinceType
    <3> QED BY <2>1, <3>1, <3>2 DEF OrderInv
  <2> QED BY <2>3, <2>4
<1>23. (stage = "wakeups" =>
          \A q \in Queued, p \in blocked :
             phase[q] > 1 /\ wake[q] = now /\ wake[p] = now => q < p)'
  <2> SUFFICES ASSUME stage' = "wakeups", NEW q \in Queued', NEW p \in blocked',
                      phase'[q] > 1, wake'[q] = now', wake'[p] = now'
               PROVE  q < p
    OBVIOUS
  <2>1. ~Proofs!Advance
    BY DEF Proofs!Advance
  <2>2. /\ now' = now /\ blocked' \subseteq blocked
        /\ stage \in {"create", "arrivals", "wakeups"}
    BY <1>1, <2>1, ProofsAssumptions, Proofs!EarlyKept
  <2>3. Same(q) /\ Same(p) /\ q \in Procs /\ p \in Procs /\ p \in blocked
    BY <1>2, <1>4, <1>5, <2>2
  <2>4. phase[q] > 1 /\ wake[q] = now /\ wake[p] = now
    BY <2>2, <2>3 DEF Same
  <2>5. CASE q \in Queued
    <3>1. stage = "wakeups"
      BY <1>15, <2>2, <2>4, <2>5 DEF OrderInv
    <3> QED BY <2>3, <2>4, <2>5, <3>1 DEF OrderInv
  <2>6. CASE q \notin Queued
    <3>1. Joins(q)
      BY <1>8, <2>6
    <3>2. Proofs!WakeUp(q)
      BY <1>10, <2>3, <2>4, <3>1
    <3>3. p # q /\ (wake[q] < wake[p] \/ (wake[q] = wake[p] /\ q <= p))
      BY <2>3, <3>2 DEF Proofs!WakeUp, Proofs!IsFirst
    <3> QED BY <1>15, <2>3, <2>4, <3>3, EngineAssumption
  <2> QED BY <2>5, <2>6
<1>24. (\A p \in pending : phase[p] = 1)'
  <2>1. pending' \subseteq pending
    BY <1>1, ProofsAssumptions, Proofs!PendingShrinks
  <2> QED BY <1>5, <2>1 DEF Same, OrderInv
<1>25. (\A p \in blocked : phase[p] > 1)'
  <2> SUFFICES ASSUME NEW p \in blocked' PROVE phase'[p] > 1
    OBVIOUS
  <2>1. CASE p \in blocked
    <3>1. Same(p) /\ phase[p] > 1
      BY <1>2, <1>4, <2>1 DEF OrderInv
    <3> QED BY <3>1 DEF Same
  <2>2. CASE p \notin blocked
    BY <1>1, <2>2, ProofsAssumptions, Proofs!NewlyBlocked
  <2> QED BY <2>1, <2>2
<1>26. (\A p \in pending, q \in Queued : phase[q] = 1 =>
          w.arrival[q] < w.arrival[p] \/ (w.arrival[q] = w.arrival[p] /\ q < p))'
  <2> SUFFICES ASSUME NEW p \in pending', NEW q \in Queued', phase'[q] = 1
               PROVE  w'.arrival[q] < w'.arrival[p]
                      \/ (w'.arrival[q] = w'.arrival[p] /\ q < p)
    OBVIOUS
  <2>1. p \in pending /\ phase[q] = 1 /\ q \in Procs /\ p \in Procs /\ w' = w
    BY <1>1, <1>2, <1>5, ProofsAssumptions, Proofs!PendingShrinks DEF Same
  <2>2. CASE q \in Queued
    BY <2>1, <2>2 DEF OrderInv
  <2>3. CASE q \notin Queued
    <3>1. Joins(q)
      BY <1>8, <2>3
    <3>2. Proofs!Admit(q)
      BY <1>10, <2>1, <3>1
    <3>3. p # q
      BY <3>2 DEF Proofs!Admit
    <3>4. w.arrival[q] < w.arrival[p] \/ (w.arrival[q] = w.arrival[p] /\ q <= p)
      BY <2>1, <3>2 DEF Proofs!Admit, Proofs!IsFirst
    <3> QED BY <2>1, <3>3, <3>4, EngineAssumption
  <2> QED BY <2>2, <2>3
<1> QED
  BY <1>18, <1>19, <1>20, <1>21, <1>22, <1>23, <1>24, <1>25, <1>26 DEF OrderInv

LEMMA InvNext == IInv /\ [Next]_vars => IInv' /\ Proofs!Inv /\ Proofs!Inv'
BY RefinementStep DEF IInv

FcfsOrder == policy = "fcfs" => OrderInv

LEMMA FcfsOrderStep == ASSUME IInv, FcfsOrder, [Next]_vars PROVE FcfsOrder'
<1> SUFFICES ASSUME policy' = "fcfs" PROVE OrderInv'
  BY DEF FcfsOrder
<1>1. CASE Next
  <2>1. policy = "fcfs" /\ UNCHANGED policy /\ FCFS!Next
    BY <1>1 DEF Next
  <2>2. IInv' /\ Proofs!Inv'
    BY <1>1, InvNext
  <2> QED BY <2>1, <2>2, OrderStep DEF IInv, FcfsOrder
<1>2. CASE UNCHANGED vars
  <2>1. policy = "fcfs"
    BY <1>2 DEF vars
  <2>2. UNCHANGED <<queue, w, stage, now, pending, blocked, phase, wake, picks, core>>
    BY <1>2 DEF vars, engineVars, procVars
  <2>3. OrderInv
    BY <2>1 DEF FcfsOrder
  <2> QED
    BY <2>2, <2>3 DEF OrderInv, Queued, Since, Before, FCFS!ReadySince,
       FCFS!BecameReadyFirst, Proofs!Taken, Proofs!Picked, Proofs!OnCore, Proofs!Busy, Proofs!Free,
       Proofs!Cores
<1> QED BY <1>1, <1>2

(* fcfs serves strictly by (time of becoming ready, arrivals before        *)
(* wake-ups, pid): in the queue, between the queue and the processes       *)
(* chosen, and between the queue and those on a core, for every workload,  *)
(* number of cores and switch cost (fcfs.c:1-3, engine.c:98-133).          *)
THEOREM InOrderOfReadinessHolds == Spec => []InOrderOfReadiness
<1> DEFINE Hrrn == policy = "hrrn"
<1>1. Init /\ ~Hrrn => IInv /\ FcfsOrder
  <2> SUFFICES ASSUME Init, policy # "hrrn" PROVE IInv /\ FcfsOrder
    OBVIOUS
  <2>1. Proofs!Init /\ IInv
    BY RefinementInit
  <2> QED BY <2>1, InitOrder DEF Init, FcfsOrder
<1>2. IInv /\ FcfsOrder /\ [Next]_vars => IInv' /\ FcfsOrder'
  BY InvNext, FcfsOrderStep
<1>3. FcfsOrder => InOrderOfReadiness
  <2> SUFFICES ASSUME policy = "fcfs", OrderInv PROVE FCFS!InOrderOfReadiness
    BY DEF FcfsOrder, InOrderOfReadiness
  <2>1. FCFS!Picked \cup FCFS!OnCore = Proofs!Taken
    BY DEF FCFS!Picked, FCFS!OnCore, FCFS!Busy, FCFS!Free, FCFS!Cores,
           Proofs!Taken, Proofs!Picked, Proofs!OnCore, Proofs!Busy, Proofs!Free, Proofs!Cores
  <2>2. \A p \in Proofs!Taken, q \in ToSet(queue) : FCFS!BecameReadyFirst(p, q)
    BY DEF OrderInv, Queued, Before
  <2>3. \A i, j \in DOMAIN queue : i < j => FCFS!BecameReadyFirst(queue[i], queue[j])
    BY DEF OrderInv, Before
  <2> QED BY <2>1, <2>2, <2>3 DEF FCFS!InOrderOfReadiness, ToSet, FCFS!ToSet
\* hrrn stays hrrn
<1>4. Hrrn /\ [Next]_vars => Hrrn'
  BY DEF Next, vars
<1>5. Hrrn => InOrderOfReadiness
  BY DEF InOrderOfReadiness
<1> HIDE DEF Hrrn
<1> QED
  BY <1>1, <1>2, <1>3, <1>4, <1>5, PTL DEF Spec

-----------------------------------------------------------------------------
(* prio: the lowest effective priority runs                                *)

\* no key is so large that it saturates
Room == \A p \in Procs : -PriorityLimit <= w.priority[p] /\ w.priority[p] + now <= PriorityLimit

\* the levels gained in n ticks
Levels(n) == IF Aging > 0 THEN n \div Aging ELSE 0
\* the effective priority of a process that has waited ever since readySince
Level(p) == w.priority[p] - Levels(now - readySince[p])
Ahead(p, q) ==
    \/ Level(p) < Level(q)
    \/ Level(p) = Level(q) /\ w.arrival[p] < w.arrival[q]
    \/ Level(p) = Level(q) /\ w.arrival[p] = w.arrival[q] /\ p < q

(* The burst of p became ready at readySince, it has not been on a core    *)
(* since, and its keys were computed then.                                 *)
KeyOf(p) ==
    /\ readySince[p] = Prio!BurstReady(p) /\ readySince[p] \in Nat /\ readySince[p] <= now
    /\ r[p] = IF Aging > 0 THEN (0 - readySince[p]) % Aging ELSE 0
    /\ base[p] = w.priority[p] - Levels(0 - readySince[p])
    /\ \A x \in Proofs!LoggedCpu(p) : x < readySince[p]

Waiting == ready \cup Proofs!Picked
AgedInv ==
    /\ \A p \in Waiting : KeyOf(p)
    /\ \A p \in Proofs!Picked, q \in ready : Ahead(p, q)

LEMMA LevelType ==
    ASSUME NEW n \in Int
    PROVE  Levels(n) \in Int /\ (n <= 0 => n <= Levels(n) /\ Levels(n) <= 0)
<1>1. CASE Aging > 0
  <2>1. PICK k \in Nat \ {0} : k = Aging
    BY <1>1, RunToCompletionAssumption
  <2>2. PICK d \in Int, m \in 0..(k - 1) : d = n \div k /\ n = d * k + m
    BY QuotientIs
  <2>3. n <= 0 => d <= 0
    <3>1. d > 0 => d * k > 0
      OBVIOUS
    <3> QED BY <2>2, <3>1
  <2>4. n <= 0 => n <= d
    <3>1. PICK e \in Int : e = 0 - d /\ d = 0 - e
      OBVIOUS
    <3>2. CASE e >= 1
      <4>1. e * (k - 1) >= k - 1 /\ d * k = 0 - e * (k - 1) - e /\ m <= k - 1
        <5>1. e * (k - 1) >= k - 1
          BY <3>2
        <5>2. d * k = 0 - e * k /\ e * k = e * (k - 1) + e
          BY <3>1
        <5> QED BY <5>1, <5>2
      <4>2. PICK f \in Int : f = e * (k - 1)
        BY <3>1
      <4> QED BY <2>2, <3>1, <4>1, <4>2
    <3>3. CASE e = 0
      BY <2>2, <3>1, <3>3
    <3> QED BY <2>3, <3>1, <3>2, <3>3
  <2> QED BY <1>1, <2>1, <2>2, <2>3, <2>4 DEF Levels
<1>2. CASE ~(Aging > 0)
  BY <1>2 DEF Levels
<1> QED BY <1>1, <1>2

\* the keys are exact, and so is what key_less computes from them
LEMMA KeyExact ==
    ASSUME Proofs!Inv, PrioInv, policy = "prio", Room, NEW p \in Procs, NEW s \in Nat, s <= now
    PROVE  LET b == w.priority[p] - Levels(0 - s) IN
           /\ b \in Int /\ Prio!SatSub(w.priority[p], Levels(0 - s)) = b
           /\ Prio!SatSub(b, 0) = b /\ Prio!SatSub(b, 1) = b - 1
<1>1. PICK d \in Int : d = Levels(0 - s) /\ 0 - s <= d /\ d <= 0
  BY LevelType
<1>2. now \in Nat /\ w.priority[p] \in Int /\ PriorityLimit \in Nat
  BY EngineAssumption, RunToCompletionAssumption DEF PrioInv, Proofs!Inv, Proofs!TypeOK, Proofs!Times
<1>3. -PriorityLimit <= w.priority[p] /\ w.priority[p] + now <= PriorityLimit
  BY DEF Room
<1>4. PICK b \in Int : b = w.priority[p] - d
  BY <1>2
<1>5. -PriorityLimit <= b /\ b <= PriorityLimit
  BY <1>1, <1>2, <1>3, <1>4
<1>6. Prio!SatSub(w.priority[p], d) = b
  BY <1>2, <1>4, <1>5 DEF Prio!SatSub
<1>7. Prio!SatSub(b, 0) = b /\ Prio!SatSub(b, 1) = b - 1
  BY <1>2, <1>5 DEF Prio!SatSub
<1> QED BY <1>1, <1>4, <1>6, <1>7

\* the effective priority is the base, one level lower when the remainder is high
LEMMA KeyLevel ==
    ASSUME Proofs!Inv, PrioInv, policy = "prio", NEW p \in Procs, KeyOf(p)
    PROVE  /\ Level(p) \in Int
           /\ Aging = 0 => Level(p) = base[p]
           /\ Aging > 0 =>
                Level(p) = base[p] - (now \div Aging) - (IF r[p] >= Prio!Limit THEN 1 ELSE 0)
<1>1. now \in Nat /\ w.priority[p] \in Int /\ readySince[p] \in Nat
  BY EngineAssumption DEF KeyOf, PrioInv, Proofs!Inv, Proofs!TypeOK, Proofs!Times
<1>2. PICK b \in Int : b = 0 - readySince[p] /\ now - readySince[p] = now + b
  BY <1>1
<1>3. Level(p) = w.priority[p] - Levels(now + b) /\ base[p] = w.priority[p] - Levels(b)
  BY <1>2 DEF Level, KeyOf
<1>4. CASE Aging > 0
  <2>1. PICK k \in Nat \ {0} : k = Aging
    BY <1>4, RunToCompletionAssumption
  <2>2. (now + b) \div k = (now \div k) + (b \div k) + (IF b % k >= k - (now % k) THEN 1 ELSE 0)
    BY <1>1, QuotientOfSum
  <2>3. r[p] = b % k /\ Prio!Limit = k - (now % k)
    BY <1>2, <1>4, <2>1 DEF KeyOf, Prio!Limit
  <2>4. now \div k \in Int /\ b \div k \in Int
    BY <1>1
  <2>5. Levels(now + b) = (now + b) \div k /\ Levels(b) = b \div k
    BY <1>4, <2>1 DEF Levels
  <2> QED BY <1>1, <1>3, <1>4, <2>1, <2>2, <2>3, <2>4, <2>5
<1>5. CASE Aging = 0
  BY <1>1, <1>3, <1>5 DEF Levels
<1> QED BY <1>4, <1>5, RunToCompletionAssumption

\* the process chosen is the first by the definition
LEMMA ChosenAhead ==
    ASSUME Proofs!Inv, PrioInv, policy = "prio", Room, ready # {}, ready \subseteq Procs,
           \A p \in ready : KeyOf(p)
    PROVE  \A q \in ready \ {Prio!Chosen} : Ahead(Prio!Chosen, q)
<1>1. \A p \in ready : /\ base[p] \in Int /\ Level(p) \in Int /\ w.arrival[p] \in Int /\ p \in Int
                       /\ r[p] \in Int /\ Prio!SatSub(base[p], 0) = base[p]
                       /\ Prio!SatSub(base[p], 1) = base[p] - 1
  <2> TAKE p \in ready
  <2>1. KeyOf(p) /\ p \in Procs
    OBVIOUS
  <2>2. readySince[p] \in Nat /\ readySince[p] <= now /\ base[p] = w.priority[p] - Levels(0 - readySince[p])
    BY <2>1 DEF KeyOf
  <2>3. Level(p) \in Int
    BY <2>1, KeyLevel
  <2>4. w.arrival[p] \in Int /\ p \in Int /\ r[p] \in Int
    BY <2>1, ArrivalType, EngineAssumption DEF PrioInv
  <2> QED BY <2>1, <2>2, <2>3, <2>4, KeyExact
<1>2. \A S \in SUBSET ready : S # {} =>
        Prio!BestOf(S) \in S /\ \A y \in S \ {Prio!BestOf(S)} : Prio!KeyLess(Prio!BestOf(S), 0, y, 0)
  <2>1. base \in [Procs -> Int]
    BY DEF PrioInv
  <2> QED BY <2>1, BestOfType
\* key_less is the order where the levels differ from the bases by the same amount
<1>3. ASSUME NEW x \in ready, NEW y \in ready, NEW i \in {0, 1}, NEW a \in Int,
             Level(x) = base[x] - i - a, Level(y) = base[y] - a
      PROVE  Prio!KeyLess(x, i, y, 0) <=> Ahead(x, y)
  <2>1. Prio!SatSub(base[x], i) = base[x] - i /\ Prio!SatSub(base[y], 0) = base[y]
    BY <1>1
  <2>2. Prio!KeyLess(x, i, y, 0) <=>
          \/ base[x] - i < base[y]
          \/ base[x] - i = base[y] /\ w.arrival[x] < w.arrival[y]
          \/ base[x] - i = base[y] /\ w.arrival[x] = w.arrival[y] /\ x < y
    BY <2>1 DEF Prio!KeyLess
  <2>3. /\ (base[x] - i < base[y]) <=> (Level(x) < Level(y))
        /\ (base[x] - i = base[y]) <=> (Level(x) = Level(y))
    BY <1>1, <1>3
  <2> QED BY <2>2, <2>3 DEF Ahead
<1>4. ASSUME NEW S \in SUBSET ready, S # {}, NEW a \in Int, \A x \in S : Level(x) = base[x] - a
      PROVE  Prio!BestOf(S) \in S /\ \A y \in S \ {Prio!BestOf(S)} : Ahead(Prio!BestOf(S), y)
  <2>1. PICK b \in S : b = Prio!BestOf(S) /\ \A y \in S \ {b} : Prio!KeyLess(b, 0, y, 0)
    BY <1>2, <1>4
  <2>2. ASSUME NEW y \in S \ {b} PROVE Ahead(b, y)
    <3>1. Level(b) = base[b] - 0 - a /\ Level(y) = base[y] - a
      BY <1>1, <1>4
    <3> QED BY <1>3, <2>1, <3>1
  <2> QED BY <2>1, <2>2
<1>5. CASE Aging = 0
  <2>1. \A x \in ready : Level(x) = base[x] - 0
    BY <1>1, <1>5, KeyLevel
  <2> QED BY <1>4, <1>5, <2>1 DEF Prio!Chosen
<1>6. CASE Aging > 0
  <2>1. PICK a \in Int : a = now \div Aging
    BY <1>6, RunToCompletionAssumption, EngineAssumption DEF Proofs!Inv, Proofs!TypeOK, Proofs!Times
  <2> DEFINE low == Prio!Low(ready)
             high == Prio!High(ready)
  <2>2. /\ \A x \in low : Level(x) = base[x] - a
        /\ \A x \in high : Level(x) = base[x] - 1 - a
        /\ low \subseteq ready /\ high \subseteq ready /\ ready = low \cup high
    <3>1. Prio!Limit \in Int
      BY <1>6, RunToCompletionAssumption, EngineAssumption
      DEF Prio!Limit, Proofs!Inv, Proofs!TypeOK, Proofs!Times
    <3>2. /\ \A x \in low : x \in ready /\ r[x] < Prio!Limit
          /\ \A x \in high : x \in ready /\ r[x] >= Prio!Limit
          /\ \A x \in ready : x \in low \/ x \in high
      BY <1>1, <3>1 DEF Prio!Low, Prio!High
    <3> HIDE DEF low, high
    <3>3. \A x \in ready : Level(x) = base[x] - a - (IF r[x] >= Prio!Limit THEN 1 ELSE 0)
      BY <1>6, <2>1, KeyLevel
    <3> QED BY <1>1, <3>1, <3>2, <3>3
  <2> HIDE DEF low, high
  <2>3. low # {} => Prio!BestOf(low) \in low /\ \A y \in low \ {Prio!BestOf(low)} : Ahead(Prio!BestOf(low), y)
    BY <1>4, <2>2
  <2>4. high # {} => Prio!BestOf(high) \in high /\ \A y \in high \ {Prio!BestOf(high)} : Ahead(Prio!BestOf(high), y)
    <3>1. \A x \in high : Level(x) = base[x] - (a + 1) /\ a + 1 \in Int
      BY <1>1, <2>2
    <3> QED BY <1>4, <2>2, <3>1
  <2>5. CASE low = {}
    BY <1>6, <2>2, <2>4, <2>5 DEF Prio!Chosen, low, high
  <2>6. CASE low # {} /\ high = {}
    BY <1>6, <2>2, <2>3, <2>6 DEF Prio!Chosen, low, high
  <2>7. CASE low # {} /\ high # {}
    <3>1. PICK l \in low, h \in high : l = Prio!BestOf(low) /\ h = Prio!BestOf(high)
      BY <2>3, <2>4, <2>7
    <3>2. Prio!Chosen = IF Prio!KeyLess(h, 1, l, 0) THEN h ELSE l
      BY <1>6, <2>7, <3>1 DEF Prio!Chosen, low, high
    <3>3. Prio!KeyLess(h, 1, l, 0) <=> Ahead(h, l)
      BY <1>3, <2>2
    <3>4. l # h
      <4>1. Level(l) = base[l] - a /\ Level(h) = base[h] - 1 - a /\ base[l] \in Int /\ base[h] \in Int
        BY <1>1, <2>2
      <4> QED BY <4>1
    <3>5. Ahead(h, l) \/ Ahead(l, h)
      BY <1>1, <2>2, <3>4 DEF Ahead
    <3>6. \A x, y, z \in ready : Ahead(x, y) /\ Ahead(y, z) => Ahead(x, z)
      BY <1>1 DEF Ahead
    <3>7. CASE Ahead(h, l)
      BY <2>2, <2>3, <2>4, <2>7, <3>1, <3>2, <3>3, <3>6, <3>7
    <3>8. CASE ~Ahead(h, l)
      BY <2>2, <2>3, <2>4, <2>7, <3>1, <3>2, <3>3, <3>5, <3>6, <3>8
    <3> QED BY <3>7, <3>8
  <2> QED BY <2>5, <2>6, <2>7
<1> QED BY <1>5, <1>6, RunToCompletionAssumption

WaitingOf == Proofs!Inv /\ policy = "prio"
WaitingPlaces ==
    /\ \A p \in Waiting : p \in Procs /\ p \notin Proofs!OnCore
    /\ stage # "done" => (stage \notin {"picks", "place"} => Proofs!Picked = {})

LEMMA PlacesOfWaiting == WaitingOf => WaitingPlaces
<1> SUFFICES ASSUME Proofs!Inv, policy = "prio" PROVE WaitingPlaces
  BY DEF WaitingOf
<1>1. Ready = ready
  BY DEF Ready
<1>2. ready \subseteq Procs /\ picks \in Seq(Proofs!Slices)
  BY <1>1 DEF Proofs!Inv, Proofs!TypeOK
<1>3. Proofs!Picked \subseteq Procs
  <2>1. \A i \in DOMAIN picks : picks[i] \in Proofs!Slices
    BY <1>2
  <2>2. \A i \in DOMAIN picks : picks[i].proc \in Procs
    BY <2>1 DEF Proofs!Slices
  <2> QED BY <2>2 DEF Proofs!Picked
<1>4. ready \cap Proofs!OnCore = {} /\ Proofs!Picked \cap Proofs!OnCore = {}
  BY <1>1 DEF Proofs!Inv, Proofs!OnePlace
<1>5. ASSUME stage # "done", stage \notin {"picks", "place"} PROVE Proofs!Picked = {}
  <2>1. picks = <<>>
    BY <1>5 DEF Proofs!Inv, Proofs!HasWork
  <2> QED BY <2>1 DEF Proofs!Picked
<1> QED BY <1>2, <1>3, <1>4, <1>5 DEF WaitingPlaces, Waiting

LEMMA PlacesOfWaitingNext == WaitingOf' => WaitingPlaces'
BY PlacesOfWaiting, PTL

LEMMA AgedStep ==
    ASSUME Proofs!Inv, Proofs!Inv', Proofs!TimelineInv, Proofs!ServiceInv, Proofs!BurstKnown,
           Proofs!FailSeen, PrioInv, policy = "prio", UNCHANGED policy, Prio!Next,
           Room, Proofs!Known, AgedInv
    PROVE  AgedInv'
<1>1. Proofs!Next /\ PrioInv' /\ w' = w
  BY PrioStep, ProofsAssumptions, Proofs!WorkloadKept
<1>2. now <= now' /\ now \in Nat /\ now' \in Nat
  BY <1>1, ProofsAssumptions, Proofs!NeverBack
<1>3. WaitingPlaces /\ WaitingPlaces'
  BY PlacesOfWaiting, PlacesOfWaitingNext DEF WaitingOf
<1>4. /\ base \in [Procs -> Int] /\ r \in [Procs -> Int] /\ waited \in [Procs -> Int]
      /\ readySince \in [Procs -> Int] /\ w.priority \in [Procs -> Int]
  BY DEF PrioInv
<1>5. ASSUME NEW p \in Waiting, p \in Waiting', readySince'[p] = readySince[p], r'[p] = r[p],
             base'[p] = base[p]
      PROVE  KeyOf(p)'
  <2>1. KeyOf(p) /\ p \in Procs /\ p \notin Proofs!OnCore /\ p \notin Proofs!OnCore'
    BY <1>3, <1>5 DEF AgedInv, WaitingPlaces
  <2>2. phase'[p] = phase[p] /\ wake'[p] = wake[p]
    BY <1>1, <2>1, ProofsAssumptions, Proofs!OffCoreKept
  <2>3. Proofs!LoggedCpu(p)' \subseteq Proofs!LoggedCpu(p)
    BY <1>1, <2>1, ProofsAssumptions, Proofs!QuietCpu
  <2>4. Prio!BurstReady(p)' = Prio!BurstReady(p)
    BY <1>1, <2>2 DEF Prio!BurstReady
  <2>5. PICK s \in Nat : s = readySince[p] /\ s <= now /\ s <= now'
    BY <1>2, <2>1 DEF KeyOf
  <2>6. \A x \in Proofs!LoggedCpu(p)' : x < s
    BY <2>1, <2>3, <2>5 DEF KeyOf
  <2>7. r'[p] = IF Aging > 0 THEN (0 - s) % Aging ELSE 0
    BY <1>5, <2>1, <2>5 DEF KeyOf
  <2>8. base'[p] = w'.priority[p] - Levels(0 - s)
    BY <1>1, <1>5, <2>1, <2>5 DEF KeyOf
  <2>9. s = Prio!BurstReady(p)' /\ readySince'[p] = s
    BY <1>5, <2>1, <2>4, <2>5 DEF KeyOf
  <2> QED BY <2>5, <2>6, <2>7, <2>8, <2>9 DEF KeyOf, Levels
<1>6. ASSUME now' = now, UNCHANGED readySince, NEW p, NEW q, Ahead(p, q)
      PROVE  Ahead(p, q)'
  BY <1>1, <1>6 DEF Ahead, Level, Levels
<1>7. ASSUME UNCHANGED Prio!prioVars, Proofs!Picked' \subseteq Proofs!Picked,
             Proofs!Picked' # {} => now' = now
      PROVE  AgedInv'
  <2>1. UNCHANGED <<ready, waited, readySince, base, r>>
    BY <1>7 DEF Prio!prioVars
  <2>2. Waiting' \subseteq Waiting
    BY <1>7, <2>1 DEF Waiting
  <2>3. \A p \in Waiting' : KeyOf(p)'
    BY <1>5, <2>1, <2>2
  <2>4. ASSUME NEW p \in Proofs!Picked', NEW q \in ready' PROVE Ahead(p, q)'
    <3>1. Ahead(p, q) /\ now' = now
      BY <1>7, <2>1, <2>4 DEF AgedInv
    <3> QED BY <1>6, <2>1, <3>1
  <2> QED BY <2>3, <2>4 DEF AgedInv
<1>8. CASE \E p \in Procs : Prio!Arrive(p) \/ Prio!BecomeReady(p)
  <2>1. PICK p \in Procs : Prio!Arrive(p) \/ Prio!BecomeReady(p)
    BY <1>8
  <2>2. (Proofs!Admit(p) \/ Proofs!WakeUp(p)) /\ Prio!Enqueue(p, 0)
    BY <2>1, PrioEngine DEF Prio!Arrive, Prio!BecomeReady
  <2>3. /\ stage \in {"arrivals", "wakeups"} /\ stage' = stage /\ picks' = picks /\ now' = now
        /\ UNCHANGED <<log, phase, wake>>
    BY <2>2 DEF Proofs!Admit, Proofs!WakeUp, Proofs!resultVars, Proofs!procVars
  <2>4. Proofs!Picked' = {} /\ Waiting' = ready \cup {p} /\ Waiting = ready
    <3>1. Proofs!Picked = {} /\ Proofs!Picked' = {}
      BY <1>3, <2>3 DEF WaitingPlaces
    <3> QED BY <2>2, <3>1 DEF Waiting, Prio!Enqueue
  <2>5. /\ readySince' = [readySince EXCEPT ![p] = now]
        /\ r' = [r EXCEPT ![p] = IF Aging > 0 THEN (0 - now) % Aging ELSE 0]
        /\ base' = [base EXCEPT ![p] = IF Aging > 0 THEN Prio!SatSub(w.priority[p], (0 - now) \div Aging)
                                       ELSE w.priority[p]]
    BY <2>2 DEF Prio!Enqueue
  <2>6. \A q \in Waiting' \ {p} : KeyOf(q)'
    <3> SUFFICES ASSUME NEW q \in Waiting', q # p PROVE KeyOf(q)'
      OBVIOUS
    <3>1. q \in Waiting /\ readySince'[q] = readySince[q] /\ r'[q] = r[q] /\ base'[q] = base[q]
      BY <1>3, <1>4, <2>4, <2>5 DEF WaitingPlaces
    <3> QED BY <1>5, <3>1
  <2>7. KeyOf(p)'
    <3>1. log.fail = "ok"
      BY <2>3 DEF Proofs!Known
    <3>2. /\ \A x \in Proofs!LoggedCpu(p) : x < now
          /\ Proofs!Admit(p) => p \in pending /\ w.arrival[p] = now
          /\ Proofs!WakeUp(p) => p \in blocked /\ wake[p] = now
      BY <2>2, <3>1, ProofsAssumptions, Proofs!JoiningCpu
    <3>3. Prio!BurstReady(p)' = now
      <4>1. Prio!BurstReady(p) = now
        BY <2>2, <3>2 DEF Proofs!BurstKnown, Prio!BurstReady
      <4> QED BY <1>1, <2>3, <4>1 DEF Prio!BurstReady
    <3>4. Proofs!LoggedCpu(p)' = Proofs!LoggedCpu(p)
      BY <2>3 DEF Proofs!LoggedCpu, Proofs!Ticks, Proofs!On, Proofs!Covers
    <3>5. Prio!SatSub(w.priority[p], Levels(0 - now)) = w.priority[p] - Levels(0 - now)
      <4>1. PICK t \in Nat : t = now /\ t <= now
        BY <1>2
      <4>2. Prio!SatSub(w.priority[p], Levels(0 - t)) = w.priority[p] - Levels(0 - t)
        BY <4>1, KeyExact
      <4> QED BY <4>1, <4>2
    <3>6. readySince'[p] = now /\ r'[p] = IF Aging > 0 THEN (0 - now) % Aging ELSE 0
      BY <1>4, <2>5
    <3>7. base'[p] = w'.priority[p] - Levels(0 - now)
      <4>1. base'[p] = IF Aging > 0 THEN Prio!SatSub(w.priority[p], (0 - now) \div Aging)
                                    ELSE w.priority[p]
        BY <1>4, <2>5
      <4>2. w.priority[p] \in Int
        BY <1>4
      <4> QED BY <1>1, <3>5, <4>1, <4>2 DEF Levels
    <3> QED BY <1>2, <2>3, <3>2, <3>3, <3>4, <3>6, <3>7 DEF KeyOf, Levels
  <2> QED BY <2>4, <2>6, <2>7 DEF AgedInv
<1>9. CASE \E c \in Prio!Cores :
              Prio!SliceCompletes(c) \/ Prio!SliceBlocks(c) \/ Prio!SlicePreempted(c)
  <2>1. PICK c \in Proofs!Cores :
           Prio!SliceCompletes(c) \/ Prio!SliceBlocks(c) \/ Prio!SlicePreempted(c)
    BY <1>9 DEF Prio!Cores, Proofs!Cores
  <2>2. (Proofs!Complete(c) \/ Proofs!Block(c)) /\ UNCHANGED Prio!prioVars
    BY <2>1, PrioEngine, RunToCompletionAssumption
    DEF Prio!SliceCompletes, Prio!SliceBlocks, Prio!SlicePreempted
  <2>3. picks' = picks /\ now' = now
    BY <2>2 DEF Proofs!Complete, Proofs!Block, Proofs!EndRun
  <2> QED BY <1>7, <2>2, <2>3 DEF Proofs!Picked
<1>10. CASE Prio!NextSlice
  <2>1. PICK p : p = Prio!Chosen
    OBVIOUS
  <2>2. ready # {} /\ ready \subseteq Procs /\ \A q \in ready : KeyOf(q)
    BY <1>3, <1>10 DEF Prio!NextSlice, WaitingPlaces, Waiting, AgedInv
  <2>3. p \in ready /\ p \in Procs
    BY <2>1, <2>2, ChosenType
  <2>4. PICK s : s.proc = p /\ picks' = Append(picks, s)
    <3>1. Prio!Pick(Prio!Slice(p, remaining[p], Prio!NoDeadline))
      BY <1>10, <2>1, RunToCompletionAssumption DEF Prio!NextSlice
    <3>2. Prio!Slice(p, remaining[p], Prio!NoDeadline).proc = p
      BY DEF Prio!Slice
    <3> QED BY <3>1, <3>2 DEF Prio!Pick
  <2>5. ready' = ready \ {p} /\ UNCHANGED <<readySince, base, r, now>>
    BY <1>10, <2>1 DEF Prio!NextSlice, Prio!Pick
  <2>6. Proofs!Picked' = Proofs!Picked \cup {p}
    <3>1. picks \in Seq(Proofs!Slices) /\ picks' \in Seq(Proofs!Slices)
      BY DEF Proofs!Inv, Proofs!TypeOK
    <3>2. /\ Len(picks) \in Nat /\ DOMAIN picks = 1..Len(picks) /\ DOMAIN picks' = 1..(Len(picks) + 1)
          /\ \A i \in 1..Len(picks) : picks'[i] = picks[i]
          /\ picks'[Len(picks) + 1] = s
      BY <2>4, <3>1
    <3>3. 1..(Len(picks) + 1) = (1..Len(picks)) \cup {Len(picks) + 1}
      BY <3>2
    <3> QED BY <2>4, <3>2, <3>3 DEF Proofs!Picked
  <2>7. \A q \in Waiting' : KeyOf(q)'
    BY <1>5, <2>3, <2>5, <2>6 DEF Waiting
  <2>8. ASSUME NEW x \in Proofs!Picked', NEW q \in ready' PROVE Ahead(x, q)'
    <3>1. CASE x = p
      <4>1. Ahead(p, q)
        BY <2>1, <2>2, <2>5, <2>8, ChosenAhead
      <4> QED BY <1>6, <2>5, <3>1, <4>1
    <3>2. CASE x # p
      <4>1. Ahead(x, q)
        BY <2>5, <2>6, <2>8, <3>2 DEF AgedInv
      <4> QED BY <1>6, <2>5, <4>1
    <3> QED BY <3>1, <3>2
  <2> QED BY <2>7, <2>8 DEF AgedInv
<1>11. CASE Prio!StopPicking
  <2>1. UNCHANGED <<picks, now>> /\ UNCHANGED Prio!prioVars
    BY <1>11 DEF Prio!StopPicking, Prio!PicksDone
  <2> QED BY <1>7, <2>1 DEF Proofs!Picked
<1>12. CASE Prio!EngineStep /\ UNCHANGED Prio!prioVars
  <2>1. Proofs!EngineStep
    BY <1>12, PrioEngine
  <2>2. Proofs!Picked' \subseteq Proofs!Picked /\ (Proofs!Picked' # {} => now' = now)
    BY <2>1, ProofsAssumptions, Proofs!PlacedAtOnce
  <2> QED BY <1>7, <1>12, <2>2
<1> QED BY <1>8, <1>9, <1>10, <1>11, <1>12 DEF Prio!Next

Aged == policy = "prio" /\ Room /\ Proofs!Known => AgedInv

LEMMA AgedNext ==
    ASSUME IInv, Proofs!Inv', Proofs!TimelineInv, Proofs!ServiceInv, Proofs!BurstKnown, Proofs!FailSeen,
           Aged, [Next]_vars
    PROVE  Aged'
<1> SUFFICES ASSUME policy' = "prio", Room', Proofs!Known' PROVE AgedInv'
  BY DEF Aged
<1>1. CASE Next
  <2>1. policy = "prio" /\ UNCHANGED policy /\ Prio!Next
    BY <1>1 DEF Next
  <2>2. Proofs!Inv /\ PrioInv
    BY DEF IInv
  <2>3. Proofs!Next
    BY <2>1, <2>2, PrioStep
  <2>4. Proofs!Known
    BY <2>2, <2>3, ProofsAssumptions, Proofs!KnownBefore
  <2>5. Room
    <3>1. w' = w /\ now <= now' /\ now \in Nat /\ now' \in Nat
      BY <2>2, <2>3, ProofsAssumptions, Proofs!WorkloadKept, Proofs!NeverBack
    <3>2. \A p \in Procs : w.priority[p] \in Int
      BY <2>1, <2>2 DEF PrioInv
    <3>3. \A p \in Procs : -PriorityLimit <= w.priority[p] /\ w.priority[p] + now' <= PriorityLimit
      BY <3>1 DEF Room
    <3> QED BY <3>1, <3>2, <3>3, RunToCompletionAssumption DEF Room
  <2>6. AgedInv
    BY <2>1, <2>4, <2>5 DEF Aged
  <2> QED BY <2>1, <2>2, <2>4, <2>5, <2>6, AgedStep
<1>2. CASE UNCHANGED vars
  <2>1. UNCHANGED <<policy, ready, readySince, r, base, w, now, stage, log, phase, wake, picks>>
    BY <1>2 DEF vars, engineVars, procVars, resultVars, agingVars
  <2>2. AgedInv
    BY <2>1 DEF Aged, Room, Proofs!Known
  <2> QED
    BY <2>1, <2>2
    DEF AgedInv, Waiting, Proofs!Picked, KeyOf, Ahead, Level, Levels, Prio!BurstReady,
        Proofs!LoggedCpu, Proofs!Ticks, Proofs!On, Proofs!Covers
<1> QED BY <1>1, <1>2

\* the levels are those of the definition, which reads the timelines
LEMMA EffectiveLevel ==
    ASSUME Proofs!Inv, policy = "prio", NEW p \in Waiting, KeyOf(p)
    PROVE  Prio!Effective(p, 0) = Level(p)
<1>1. p \in Procs /\ p \notin Proofs!OnCore
  BY PlacesOfWaiting DEF WaitingOf, WaitingPlaces
<1>2. PICK s \in Nat : s = readySince[p] /\ s = Prio!BurstReady(p) /\ s <= now
  BY DEF KeyOf
<1>3. \A x \in Proofs!LoggedCpu(p) : x < s
  BY <1>2 DEF KeyOf
<1>4. Proofs!Cardinality((s .. (now - 1)) \ (Proofs!RunTicks(p) \cup Proofs!TicksOf(p, "cs"))) = now - s
  BY <1>1, <1>2, <1>3, ProofsAssumptions, Proofs!WaitedSince
<1>5. Proofs!RunTicks(p) = Prio!RunTicks(p) /\ Proofs!TicksOf(p, "cs") = Prio!TicksOf(p, "cs")
  BY DEF Proofs!RunTicks, Proofs!TicksOf, Proofs!SegmentsOf, Proofs!Cores, Proofs!ToSet,
     Proofs!UnloggedTicks, Proofs!Running, Proofs!Busy, Proofs!Free,
     Prio!RunTicks, Prio!TicksOf, Prio!SegmentsOf, Prio!Cores, Prio!ToSet,
     Prio!UnloggedTicks, Prio!Running, Prio!Busy, Prio!Free
<1>6. \A S : Proofs!Cardinality(S) = Prio!Cardinality(S)
  BY DEF Proofs!Cardinality, Proofs!IsFiniteSet, Prio!Cardinality, Prio!IsFiniteSet
<1>7. Prio!ReadyTicks(p) = now - s
  BY <1>2, <1>4, <1>5, <1>6 DEF Prio!ReadyTicks
<1>8. Prio!ReadyTicks(p) + 0 = now - s
  <2>1. now \in Int
    BY DEF Proofs!Inv, Proofs!TypeOK, Proofs!Times
  <2> QED BY <1>2, <1>7, <2>1
<1> QED BY <1>2, <1>8 DEF Prio!Effective, Level, Levels

(* While no key saturates, prio gives a core to the process with the       *)
(* lowest effective priority of all that are ready, ties by arrival and    *)
(* pid, where the effective priority is computed from the waiting time     *)
(* that the timelines show: the order by base and residue, fixed when a    *)
(* process joins, stays right as time goes by (priority.c:18-31).          *)
THEOREM LowestEffectiveRunsHolds == Spec => [](Room => LowestEffectiveRuns)
<1> DEFINE Hrrn == policy = "hrrn"
<1>1. Init /\ ~Hrrn => IInv /\ Proofs!Init
  BY RefinementInit
<1>2. IInv /\ [Next]_vars => IInv' /\ [Proofs!Next]_(Proofs!vars)
  BY RefinementStep
<1>3. Proofs!Spec =>
        [](Proofs!Inv /\ Proofs!TimelineInv /\ Proofs!ServiceInv /\ Proofs!BurstKnown
           /\ Proofs!FailSeen /\ Proofs!PicksSettled)
  BY ProofsAssumptions, Proofs!WaitingInvariant
<1>4. Init /\ ~Hrrn => Aged
  <2> SUFFICES ASSUME Init, policy = "prio" PROVE AgedInv
    BY DEF Aged
  <2>1. ready = {} /\ picks = <<>>
    BY DEF Init, Prio!Init, Prio!EngineInit
  <2> QED BY <2>1 DEF AgedInv, Waiting, Proofs!Picked
<1>5. IInv /\ Proofs!Inv' /\ Proofs!TimelineInv /\ Proofs!ServiceInv /\ Proofs!BurstKnown
        /\ Proofs!FailSeen /\ Aged /\ [Next]_vars => Aged'
  BY AgedNext
<1>6. ASSUME IInv, Proofs!FailSeen, Proofs!PicksSettled, Aged, Room PROVE LowestEffectiveRuns
  <2> SUFFICES ASSUME policy = "prio", NEW i \in DOMAIN picks, NEW q \in ready
               PROVE  Prio!EffectiveLess(picks[i].proc, q, 0)
    BY DEF LowestEffectiveRuns, Prio!LowestEffectiveRuns
  <2>1. PICK p : p = picks[i].proc /\ p \in Proofs!Picked
    BY DEF Proofs!Picked
  <2>2. stage # "done"
    BY <1>6 DEF Proofs!PicksSettled
  <2>3. Proofs!Inv /\ Proofs!Known
    BY <1>6, <2>1, <2>2, PlacesOfWaiting DEF IInv, WaitingOf, WaitingPlaces, Proofs!FailSeen, Proofs!Known
  <2>4. KeyOf(p) /\ KeyOf(q) /\ Ahead(p, q) /\ p \in Waiting /\ q \in Waiting
    BY <1>6, <2>1, <2>3 DEF Aged, AgedInv, Waiting
  <2>5. Prio!Effective(p, 0) = Level(p) /\ Prio!Effective(q, 0) = Level(q)
    BY <2>3, <2>4, EffectiveLevel
  <2> QED BY <2>1, <2>4, <2>5 DEF Ahead, Prio!EffectiveLess
<1>7. Hrrn => LowestEffectiveRuns
  BY DEF LowestEffectiveRuns
<1>8. Hrrn /\ [Next]_vars => Hrrn'
  BY DEF Next, vars
<1> HIDE DEF Hrrn
<1>9. Init /\ ~Hrrn /\ [][Next]_vars => []IInv /\ Proofs!Spec
  BY <1>1, <1>2, PTL DEF Proofs!Spec
<1> QED
  BY <1>3, <1>4, <1>5, <1>6, <1>7, <1>8, <1>9, PTL DEF Spec
=============================================================================
