--------------------------- MODULE RedecidedProofs ---------------------------
(***************************************************************************)
(* Proofs that srtf, mlfq and prio-p implement the policy interface, so    *)
(* that every theorem about AnyPolicy holds of their runs, that the order  *)
(* of the heap of srtf stands still, that the queues of mlfq hold the      *)
(* jobs where its lazy resets will look for them, and that with free       *)
(* switches srtf and mlfq run the processes they prefer.                   *)
(***************************************************************************)
EXTENDS RedecidedPolicies, CollectionProofs

\* AnyPolicy with its theorems, under the refinement mapping of Abstract
Proofs == INSTANCE ServiceProofs WITH
    Preemptive <- TRUE, WorkConserving <- TRUE,
    SliceLengths <- 1..MaxTime, DeadlineGaps <- 1..Max({Boost, Aging}),
    ready <- Ready

-----------------------------------------------------------------------------
(* The engine is the same in AnyPolicy and in every policy module          *)

LEMMA GapFacts == Max({Boost, Aging}) \in Nat /\ Boost <= Max({Boost, Aging}) /\ Aging <= Max({Boost, Aging})
<1>1. Boost \in Nat /\ Aging \in Nat
  BY RedecidedAssumption
<1>2. \E x \in {Boost, Aging} : \A y \in {Boost, Aging} : x >= y
  BY <1>1
<1> QED BY <1>1, <1>2 DEF Max

LEMMA ProofsAssumptions ==
    Proofs!EngineAssumption /\ Proofs!WorkloadAssumption /\ Proofs!PolicyAssumption
<1>1. Proofs!EngineAssumption
  BY EngineAssumption DEF Proofs!EngineAssumption, IsFiniteSet, Proofs!IsFiniteSet
<1>2. Proofs!WorkloadAssumption
  BY WorkloadAssumption DEF
    HorizonOf, HasCpuPhases, IsOdd, Max, SumFunction, SumFunctionOnSet,
    FoldFunctionOnSet, MapThenFoldSet, RemoveAt, Cardinality, IsFiniteSet,
    Proofs!HorizonOf, Proofs!HasCpuPhases, Proofs!IsOdd, Proofs!Max, Proofs!SumFunction,
    Proofs!SumFunctionOnSet, Proofs!FoldFunctionOnSet, Proofs!MapThenFoldSet, Proofs!RemoveAt,
    Proofs!Cardinality, Proofs!IsFiniteSet, Proofs!WorkloadAssumption
<1>3. Proofs!PolicyAssumption
  <2>1. 1..MaxTime \subseteq Nat \ {0} /\ 1..Max({Boost, Aging}) \subseteq Nat \ {0}
    BY GapFacts, EngineAssumption
  <2> QED BY <2>1, RedecidedAssumption DEF Proofs!PolicyAssumption
<1> QED BY <1>1, <1>2, <1>3

LEMMA ProofsOfAbstract == (Abstract!Init <=> Proofs!Init) /\ (Abstract!Next <=> Proofs!Next)
<1>1. Abstract!Init <=> Proofs!Init
  BY DEF
    Abstract!Init, Abstract!EngineInit, Abstract!Cores, Abstract!FreshCore,
    Abstract!Max, Abstract!SumFunction, Abstract!SumFunctionOnSet,
    Abstract!FoldFunctionOnSet, Abstract!MapThenFoldSet, Abstract!RemoveAt,
    Abstract!Cardinality, Abstract!IsFiniteSet, Proofs!Init, Proofs!EngineInit,
    Proofs!Cores, Proofs!FreshCore, Proofs!Max, Proofs!SumFunction,
    Proofs!SumFunctionOnSet, Proofs!FoldFunctionOnSet, Proofs!MapThenFoldSet,
    Proofs!RemoveAt, Proofs!Cardinality, Proofs!IsFiniteSet
<1>2. \A p : (Abstract!Arrive(p) <=> Proofs!Arrive(p))
           /\ (Abstract!BecomeReady(p) <=> Proofs!BecomeReady(p))
  BY DEF
    Abstract!Arrive, Abstract!BecomeReady, Abstract!Admit, Abstract!WakeUp,
    Abstract!IsFirst, Abstract!Arrived, Abstract!procVars, Abstract!resultVars,
    Abstract!Woken, Proofs!Arrive, Proofs!BecomeReady, Proofs!Admit, Proofs!WakeUp,
    Proofs!IsFirst, Proofs!Arrived, Proofs!procVars, Proofs!resultVars, Proofs!Woken
<1>3. \A c : (Abstract!SliceCompletes(c) <=> Proofs!SliceCompletes(c))
           /\ (Abstract!SliceBlocks(c) <=> Proofs!SliceBlocks(c))
  BY DEF
    Abstract!SliceCompletes, Abstract!SliceBlocks, Abstract!Complete, Abstract!Block,
    Abstract!EndRun, Abstract!BurstOver, Abstract!LastPhase, Abstract!LogRun,
    Abstract!NewPrediction, Abstract!NoteOverflow, Abstract!AddTime, Abstract!SliceEnds,
    Abstract!Ran, Abstract!AppendSegment, Abstract!Segment, Abstract!BurstLen,
    Abstract!IsLowest, Abstract!FullLength, Abstract!Interrupted, Abstract!Merges,
    Abstract!AtLimit, Abstract!IsFull, Abstract!Running, Abstract!Redecide,
    Abstract!Busy, Abstract!Cores, Abstract!Free, Proofs!SliceCompletes,
    Proofs!SliceBlocks, Proofs!Complete, Proofs!Block, Proofs!EndRun, Proofs!BurstOver,
    Proofs!LastPhase, Proofs!LogRun, Proofs!NewPrediction, Proofs!NoteOverflow,
    Proofs!AddTime, Proofs!SliceEnds, Proofs!Ran, Proofs!AppendSegment, Proofs!Segment,
    Proofs!BurstLen, Proofs!IsLowest, Proofs!FullLength, Proofs!Interrupted,
    Proofs!Merges, Proofs!AtLimit, Proofs!IsFull, Proofs!Running, Proofs!Redecide,
    Proofs!Busy, Proofs!Cores, Proofs!Free
<1>4. \A c : Abstract!SlicePreempted(c) <=> Proofs!SlicePreempted(c)
  BY DEF
    Abstract!SlicePreempted, Abstract!Preempt, Abstract!EndRun, Abstract!BurstOver,
    Abstract!LogRun, Abstract!Ran, Abstract!SliceEnds, Abstract!AppendSegment,
    Abstract!Segment, Abstract!IsLowest, Abstract!FullLength, Abstract!Interrupted,
    Abstract!Merges, Abstract!AtLimit, Abstract!IsFull, Abstract!Running,
    Abstract!Redecide, Abstract!Busy, Abstract!Cores, Abstract!Free,
    Proofs!SlicePreempted, Proofs!Preempt, Proofs!EndRun, Proofs!BurstOver,
    Proofs!LogRun, Proofs!Ran, Proofs!SliceEnds, Proofs!AppendSegment, Proofs!Segment,
    Proofs!IsLowest, Proofs!FullLength, Proofs!Interrupted, Proofs!Merges,
    Proofs!AtLimit, Proofs!IsFull, Proofs!Running, Proofs!Redecide, Proofs!Busy,
    Proofs!Cores, Proofs!Free
<1>5. \A s : Abstract!NextSlice(s) <=> Proofs!NextSlice(s)
  BY DEF
    Abstract!NextSlice, Abstract!Pick, Abstract!WantsPick, Abstract!procVars,
    Abstract!resultVars, Abstract!FreeCores, Abstract!Cores, Abstract!Free,
    Abstract!Cardinality, Abstract!IsFiniteSet, Proofs!NextSlice, Proofs!Pick,
    Proofs!WantsPick, Proofs!procVars, Proofs!resultVars, Proofs!FreeCores,
    Proofs!Cores, Proofs!Free, Proofs!Cardinality, Proofs!IsFiniteSet
<1>6. \A p : Abstract!SlicesFor(p) = Proofs!SlicesFor(p)
  BY DEF
    Abstract!SlicesFor, Abstract!Slice, Abstract!NoDeadline, Proofs!SlicesFor,
    Proofs!Slice, Proofs!NoDeadline
<1>7. Abstract!StopPicking <=> Proofs!StopPicking
  BY DEF
    Abstract!StopPicking, Abstract!PicksDone, Abstract!WantsPick, Abstract!MayDecline,
    Abstract!procVars, Abstract!resultVars, Abstract!FreeCores, Abstract!Cores,
    Abstract!Free, Abstract!Cardinality, Abstract!IsFiniteSet, Proofs!StopPicking,
    Proofs!PicksDone, Proofs!WantsPick, Proofs!MayDecline, Proofs!procVars,
    Proofs!resultVars, Proofs!FreeCores, Proofs!Cores, Proofs!Free, Proofs!Cardinality,
    Proofs!IsFiniteSet
<1>8. Abstract!EngineStep <=> Proofs!EngineStep
  BY DEF
    Abstract!EngineStep, Abstract!Create, Abstract!Reject, Abstract!ArrivalsDone,
    Abstract!WakeupsDone, Abstract!EndsDone, Abstract!Cores, Abstract!SwitchIn,
    Abstract!SwitchInsDone, Abstract!InstantDone, Abstract!Place, Abstract!PlacesDone,
    Abstract!Advance, Abstract!CloseTimeline, Abstract!Return, Abstract!Terminated,
    Abstract!OptionsAccepted, Abstract!procVars, Abstract!resultVars, Abstract!Arrived,
    Abstract!Woken, Abstract!FullLength, Abstract!Busy, Abstract!Redecide,
    Abstract!OneTick, Abstract!AddTime, Abstract!IsLowest, Abstract!SwitchedIn,
    Abstract!Begun, Abstract!BegunLog, Abstract!NoteOverflow, Abstract!BegunOutcome,
    Abstract!Interrupted, Abstract!Completed, Abstract!IsSwitch, Abstract!PlacesOn,
    Abstract!AppendSegment, Abstract!Segment, Abstract!EventTimes, Abstract!CutAt,
    Abstract!StatusOf, Abstract!engineVars, Abstract!HorizonOf, Abstract!Running,
    Abstract!Free, Abstract!RunLength, Abstract!Lesser, Abstract!AffinePicks,
    Abstract!Affine, Abstract!FreeCores, Abstract!Merges, Abstract!AtLimit,
    Abstract!IsFull, Abstract!Max, Abstract!SumFunction, Abstract!SumFunctionOnSet,
    Abstract!FoldFunctionOnSet, Abstract!MapThenFoldSet, Abstract!RemoveAt,
    Abstract!Cardinality, Abstract!IsFiniteSet, Proofs!EngineStep, Proofs!Create,
    Proofs!Reject, Proofs!ArrivalsDone, Proofs!WakeupsDone, Proofs!EndsDone,
    Proofs!Cores, Proofs!SwitchIn, Proofs!SwitchInsDone, Proofs!InstantDone,
    Proofs!Place, Proofs!PlacesDone, Proofs!Advance, Proofs!CloseTimeline,
    Proofs!Return, Proofs!Terminated, Proofs!OptionsAccepted, Proofs!procVars,
    Proofs!resultVars, Proofs!Arrived, Proofs!Woken, Proofs!FullLength, Proofs!Busy,
    Proofs!Redecide, Proofs!OneTick, Proofs!AddTime, Proofs!IsLowest, Proofs!SwitchedIn,
    Proofs!Begun, Proofs!BegunLog, Proofs!NoteOverflow, Proofs!BegunOutcome,
    Proofs!Interrupted, Proofs!Completed, Proofs!IsSwitch, Proofs!PlacesOn,
    Proofs!AppendSegment, Proofs!Segment, Proofs!EventTimes, Proofs!CutAt,
    Proofs!StatusOf, Proofs!engineVars, Proofs!HorizonOf, Proofs!Running, Proofs!Free,
    Proofs!RunLength, Proofs!Lesser, Proofs!AffinePicks, Proofs!Affine,
    Proofs!FreeCores, Proofs!Merges, Proofs!AtLimit, Proofs!IsFull, Proofs!Max,
    Proofs!SumFunction, Proofs!SumFunctionOnSet, Proofs!FoldFunctionOnSet,
    Proofs!MapThenFoldSet, Proofs!RemoveAt, Proofs!Cardinality, Proofs!IsFiniteSet
<1> QED
  BY <1>1, <1>2, <1>3, <1>4, <1>5, <1>6, <1>7, <1>8
  DEF Abstract!Next, Proofs!Next, Abstract!Cores, Proofs!Cores

LEMMA SrtfEngine ==
    /\ SRTF!EngineStep <=> Proofs!EngineStep
    /\ \A p : (SRTF!Admit(p) <=> Proofs!Admit(p)) /\ (SRTF!WakeUp(p) <=> Proofs!WakeUp(p))
    /\ \A c : (SRTF!Complete(c) <=> Proofs!Complete(c)) /\ (SRTF!Block(c) <=> Proofs!Block(c))
    /\ \A c : SRTF!Preempt(c) <=> Proofs!Preempt(c)
    /\ \A s : SRTF!Pick(s) <=> Proofs!Pick(s)
    /\ (SRTF!PicksDone <=> Proofs!PicksDone) /\ (SRTF!WantsPick <=> Proofs!WantsPick)
    /\ \A p, n, d : SRTF!Slice(p, n, d) = Proofs!Slice(p, n, d)
    /\ SRTF!NoDeadline = Proofs!NoDeadline
    /\ SRTF!EngineInit /\ WorkloadsOf["srtf"] \subseteq Workloads => Proofs!EngineInit
  BY ZenonT(60) DEF
    SRTF!EngineInit, SRTF!EngineStep, SRTF!Admit, SRTF!WakeUp, SRTF!Complete,
    SRTF!Block, SRTF!Preempt, SRTF!Pick, SRTF!PicksDone, SRTF!WantsPick, SRTF!Slice,
    SRTF!Cores, SRTF!FreshCore, SRTF!Create, SRTF!Reject, SRTF!ArrivalsDone,
    SRTF!WakeupsDone, SRTF!EndsDone, SRTF!SwitchIn, SRTF!SwitchInsDone,
    SRTF!InstantDone, SRTF!Place, SRTF!PlacesDone, SRTF!Advance, SRTF!CloseTimeline,
    SRTF!Return, SRTF!Terminated, SRTF!IsFirst, SRTF!Arrived, SRTF!procVars,
    SRTF!resultVars, SRTF!Woken, SRTF!EndRun, SRTF!BurstOver, SRTF!LastPhase,
    SRTF!LogRun, SRTF!NewPrediction, SRTF!NoteOverflow, SRTF!AddTime, SRTF!Ran,
    SRTF!FreeCores, SRTF!OptionsAccepted, SRTF!FullLength, SRTF!Busy, SRTF!Redecide,
    SRTF!OneTick, SRTF!IsLowest, SRTF!SwitchedIn, SRTF!Begun, SRTF!BegunLog,
    SRTF!BegunOutcome, SRTF!Interrupted, SRTF!Completed, SRTF!IsSwitch, SRTF!PlacesOn,
    SRTF!AppendSegment, SRTF!Segment, SRTF!EventTimes, SRTF!CutAt, SRTF!StatusOf,
    SRTF!engineVars, SRTF!SliceEnds, SRTF!BurstLen, SRTF!Free, SRTF!HorizonOf,
    SRTF!Running, SRTF!RunLength, SRTF!Lesser, SRTF!AffinePicks, SRTF!Affine,
    SRTF!Merges, SRTF!AtLimit, SRTF!IsFull, SRTF!Max, SRTF!SumFunction,
    SRTF!SumFunctionOnSet, SRTF!FoldFunctionOnSet, SRTF!MapThenFoldSet, SRTF!RemoveAt,
    SRTF!Cardinality, SRTF!IsFiniteSet, SRTF!NoDeadline, Proofs!EngineInit, Proofs!EngineStep,
    Proofs!Admit, Proofs!WakeUp, Proofs!Complete, Proofs!Block, Proofs!Preempt, Proofs!Pick,
    Proofs!PicksDone, Proofs!WantsPick, Proofs!Slice, Proofs!Cores, Proofs!FreshCore, Proofs!Create,
    Proofs!Reject, Proofs!ArrivalsDone, Proofs!WakeupsDone, Proofs!EndsDone, Proofs!SwitchIn,
    Proofs!SwitchInsDone, Proofs!InstantDone, Proofs!Place, Proofs!PlacesDone, Proofs!Advance,
    Proofs!CloseTimeline, Proofs!Return, Proofs!Terminated, Proofs!IsFirst, Proofs!Arrived,
    Proofs!procVars, Proofs!resultVars, Proofs!Woken, Proofs!EndRun, Proofs!BurstOver, Proofs!LastPhase,
    Proofs!LogRun, Proofs!NewPrediction, Proofs!NoteOverflow, Proofs!AddTime, Proofs!Ran,
    Proofs!FreeCores, Proofs!OptionsAccepted, Proofs!FullLength, Proofs!Busy, Proofs!Redecide,
    Proofs!OneTick, Proofs!IsLowest, Proofs!SwitchedIn, Proofs!Begun, Proofs!BegunLog,
    Proofs!BegunOutcome, Proofs!Interrupted, Proofs!Completed, Proofs!IsSwitch, Proofs!PlacesOn,
    Proofs!AppendSegment, Proofs!Segment, Proofs!EventTimes, Proofs!CutAt, Proofs!StatusOf,
    Proofs!engineVars, Proofs!SliceEnds, Proofs!BurstLen, Proofs!Free, Proofs!HorizonOf, Proofs!Running,
    Proofs!RunLength, Proofs!Lesser, Proofs!AffinePicks, Proofs!Affine, Proofs!Merges, Proofs!AtLimit,
    Proofs!IsFull, Proofs!Max, Proofs!SumFunction, Proofs!SumFunctionOnSet, Proofs!FoldFunctionOnSet,
    Proofs!MapThenFoldSet, Proofs!RemoveAt, Proofs!Cardinality, Proofs!IsFiniteSet, Proofs!NoDeadline

LEMMA MlfqEngine ==
    /\ MLFQ!EngineStep <=> Proofs!EngineStep
    /\ \A p : (MLFQ!Admit(p) <=> Proofs!Admit(p)) /\ (MLFQ!WakeUp(p) <=> Proofs!WakeUp(p))
    /\ \A c : (MLFQ!Complete(c) <=> Proofs!Complete(c)) /\ (MLFQ!Block(c) <=> Proofs!Block(c))
    /\ \A c : MLFQ!Preempt(c) <=> Proofs!Preempt(c)
    /\ \A s : MLFQ!Pick(s) <=> Proofs!Pick(s)
    /\ (MLFQ!PicksDone <=> Proofs!PicksDone) /\ (MLFQ!WantsPick <=> Proofs!WantsPick)
    /\ \A p, n, d : MLFQ!Slice(p, n, d) = Proofs!Slice(p, n, d)
    /\ MLFQ!NoDeadline = Proofs!NoDeadline
    /\ MLFQ!EngineInit /\ WorkloadsOf["mlfq"] \subseteq Workloads => Proofs!EngineInit
  BY ZenonT(60) DEF
    MLFQ!EngineInit, MLFQ!EngineStep, MLFQ!Admit, MLFQ!WakeUp, MLFQ!Complete,
    MLFQ!Block, MLFQ!Preempt, MLFQ!Pick, MLFQ!PicksDone, MLFQ!WantsPick, MLFQ!Slice,
    MLFQ!Cores, MLFQ!FreshCore, MLFQ!Create, MLFQ!Reject, MLFQ!ArrivalsDone,
    MLFQ!WakeupsDone, MLFQ!EndsDone, MLFQ!SwitchIn, MLFQ!SwitchInsDone,
    MLFQ!InstantDone, MLFQ!Place, MLFQ!PlacesDone, MLFQ!Advance, MLFQ!CloseTimeline,
    MLFQ!Return, MLFQ!Terminated, MLFQ!IsFirst, MLFQ!Arrived, MLFQ!procVars,
    MLFQ!resultVars, MLFQ!Woken, MLFQ!EndRun, MLFQ!BurstOver, MLFQ!LastPhase,
    MLFQ!LogRun, MLFQ!NewPrediction, MLFQ!NoteOverflow, MLFQ!AddTime, MLFQ!Ran,
    MLFQ!FreeCores, MLFQ!OptionsAccepted, MLFQ!FullLength, MLFQ!Busy, MLFQ!Redecide,
    MLFQ!OneTick, MLFQ!IsLowest, MLFQ!SwitchedIn, MLFQ!Begun, MLFQ!BegunLog,
    MLFQ!BegunOutcome, MLFQ!Interrupted, MLFQ!Completed, MLFQ!IsSwitch, MLFQ!PlacesOn,
    MLFQ!AppendSegment, MLFQ!Segment, MLFQ!EventTimes, MLFQ!CutAt, MLFQ!StatusOf,
    MLFQ!engineVars, MLFQ!SliceEnds, MLFQ!BurstLen, MLFQ!Free, MLFQ!HorizonOf,
    MLFQ!Running, MLFQ!RunLength, MLFQ!Lesser, MLFQ!AffinePicks, MLFQ!Affine,
    MLFQ!Merges, MLFQ!AtLimit, MLFQ!IsFull, MLFQ!Max, MLFQ!SumFunction,
    MLFQ!SumFunctionOnSet, MLFQ!FoldFunctionOnSet, MLFQ!MapThenFoldSet, MLFQ!RemoveAt,
    MLFQ!Cardinality, MLFQ!IsFiniteSet, MLFQ!NoDeadline, Proofs!EngineInit, Proofs!EngineStep,
    Proofs!Admit, Proofs!WakeUp, Proofs!Complete, Proofs!Block, Proofs!Preempt, Proofs!Pick,
    Proofs!PicksDone, Proofs!WantsPick, Proofs!Slice, Proofs!Cores, Proofs!FreshCore, Proofs!Create,
    Proofs!Reject, Proofs!ArrivalsDone, Proofs!WakeupsDone, Proofs!EndsDone, Proofs!SwitchIn,
    Proofs!SwitchInsDone, Proofs!InstantDone, Proofs!Place, Proofs!PlacesDone, Proofs!Advance,
    Proofs!CloseTimeline, Proofs!Return, Proofs!Terminated, Proofs!IsFirst, Proofs!Arrived,
    Proofs!procVars, Proofs!resultVars, Proofs!Woken, Proofs!EndRun, Proofs!BurstOver, Proofs!LastPhase,
    Proofs!LogRun, Proofs!NewPrediction, Proofs!NoteOverflow, Proofs!AddTime, Proofs!Ran,
    Proofs!FreeCores, Proofs!OptionsAccepted, Proofs!FullLength, Proofs!Busy, Proofs!Redecide,
    Proofs!OneTick, Proofs!IsLowest, Proofs!SwitchedIn, Proofs!Begun, Proofs!BegunLog,
    Proofs!BegunOutcome, Proofs!Interrupted, Proofs!Completed, Proofs!IsSwitch, Proofs!PlacesOn,
    Proofs!AppendSegment, Proofs!Segment, Proofs!EventTimes, Proofs!CutAt, Proofs!StatusOf,
    Proofs!engineVars, Proofs!SliceEnds, Proofs!BurstLen, Proofs!Free, Proofs!HorizonOf, Proofs!Running,
    Proofs!RunLength, Proofs!Lesser, Proofs!AffinePicks, Proofs!Affine, Proofs!Merges, Proofs!AtLimit,
    Proofs!IsFull, Proofs!Max, Proofs!SumFunction, Proofs!SumFunctionOnSet, Proofs!FoldFunctionOnSet,
    Proofs!MapThenFoldSet, Proofs!RemoveAt, Proofs!Cardinality, Proofs!IsFiniteSet, Proofs!NoDeadline

LEMMA PrioPEngine ==
    /\ PrioP!EngineStep <=> Proofs!EngineStep
    /\ \A p : (PrioP!Admit(p) <=> Proofs!Admit(p)) /\ (PrioP!WakeUp(p) <=> Proofs!WakeUp(p))
    /\ \A c : (PrioP!Complete(c) <=> Proofs!Complete(c)) /\ (PrioP!Block(c) <=> Proofs!Block(c))
    /\ \A c : PrioP!Preempt(c) <=> Proofs!Preempt(c)
    /\ \A s : PrioP!Pick(s) <=> Proofs!Pick(s)
    /\ (PrioP!PicksDone <=> Proofs!PicksDone) /\ (PrioP!WantsPick <=> Proofs!WantsPick)
    /\ \A p, n, d : PrioP!Slice(p, n, d) = Proofs!Slice(p, n, d)
    /\ PrioP!NoDeadline = Proofs!NoDeadline
    /\ PrioP!EngineInit /\ WorkloadsOf["prio-p"] \subseteq Workloads => Proofs!EngineInit
  BY ZenonT(60) DEF
    PrioP!EngineInit, PrioP!EngineStep, PrioP!Admit, PrioP!WakeUp, PrioP!Complete,
    PrioP!Block, PrioP!Preempt, PrioP!Pick, PrioP!PicksDone, PrioP!WantsPick,
    PrioP!Slice, PrioP!Cores, PrioP!FreshCore, PrioP!Create, PrioP!Reject,
    PrioP!ArrivalsDone, PrioP!WakeupsDone, PrioP!EndsDone, PrioP!SwitchIn,
    PrioP!SwitchInsDone, PrioP!InstantDone, PrioP!Place, PrioP!PlacesDone,
    PrioP!Advance, PrioP!CloseTimeline, PrioP!Return, PrioP!Terminated, PrioP!IsFirst,
    PrioP!Arrived, PrioP!procVars, PrioP!resultVars, PrioP!Woken, PrioP!EndRun,
    PrioP!BurstOver, PrioP!LastPhase, PrioP!LogRun, PrioP!NewPrediction,
    PrioP!NoteOverflow, PrioP!AddTime, PrioP!Ran, PrioP!FreeCores,
    PrioP!OptionsAccepted, PrioP!FullLength, PrioP!Busy, PrioP!Redecide, PrioP!OneTick,
    PrioP!IsLowest, PrioP!SwitchedIn, PrioP!Begun, PrioP!BegunLog, PrioP!BegunOutcome,
    PrioP!Interrupted, PrioP!Completed, PrioP!IsSwitch, PrioP!PlacesOn,
    PrioP!AppendSegment, PrioP!Segment, PrioP!EventTimes, PrioP!CutAt, PrioP!StatusOf,
    PrioP!engineVars, PrioP!SliceEnds, PrioP!BurstLen, PrioP!Free, PrioP!HorizonOf,
    PrioP!Running, PrioP!RunLength, PrioP!Lesser, PrioP!AffinePicks, PrioP!Affine,
    PrioP!Merges, PrioP!AtLimit, PrioP!IsFull, PrioP!Max, PrioP!SumFunction,
    PrioP!SumFunctionOnSet, PrioP!FoldFunctionOnSet, PrioP!MapThenFoldSet,
    PrioP!RemoveAt, PrioP!Cardinality, PrioP!IsFiniteSet, PrioP!NoDeadline,
    Proofs!EngineInit, Proofs!EngineStep, Proofs!Admit, Proofs!WakeUp, Proofs!Complete, Proofs!Block,
    Proofs!Preempt, Proofs!Pick, Proofs!PicksDone, Proofs!WantsPick, Proofs!Slice, Proofs!Cores,
    Proofs!FreshCore, Proofs!Create, Proofs!Reject, Proofs!ArrivalsDone, Proofs!WakeupsDone,
    Proofs!EndsDone, Proofs!SwitchIn, Proofs!SwitchInsDone, Proofs!InstantDone, Proofs!Place,
    Proofs!PlacesDone, Proofs!Advance, Proofs!CloseTimeline, Proofs!Return, Proofs!Terminated,
    Proofs!IsFirst, Proofs!Arrived, Proofs!procVars, Proofs!resultVars, Proofs!Woken, Proofs!EndRun,
    Proofs!BurstOver, Proofs!LastPhase, Proofs!LogRun, Proofs!NewPrediction, Proofs!NoteOverflow,
    Proofs!AddTime, Proofs!Ran, Proofs!FreeCores, Proofs!OptionsAccepted, Proofs!FullLength, Proofs!Busy,
    Proofs!Redecide, Proofs!OneTick, Proofs!IsLowest, Proofs!SwitchedIn, Proofs!Begun, Proofs!BegunLog,
    Proofs!BegunOutcome, Proofs!Interrupted, Proofs!Completed, Proofs!IsSwitch, Proofs!PlacesOn,
    Proofs!AppendSegment, Proofs!Segment, Proofs!EventTimes, Proofs!CutAt, Proofs!StatusOf,
    Proofs!engineVars, Proofs!SliceEnds, Proofs!BurstLen, Proofs!Free, Proofs!HorizonOf, Proofs!Running,
    Proofs!RunLength, Proofs!Lesser, Proofs!AffinePicks, Proofs!Affine, Proofs!Merges, Proofs!AtLimit,
    Proofs!IsFull, Proofs!Max, Proofs!SumFunction, Proofs!SumFunctionOnSet, Proofs!FoldFunctionOnSet,
    Proofs!MapThenFoldSet, Proofs!RemoveAt, Proofs!Cardinality, Proofs!IsFiniteSet, Proofs!NoDeadline

-----------------------------------------------------------------------------
(* srtf *)

LEMMA ArrivalType == Proofs!Inv => w.arrival \in [Procs -> 0..(MaxTime - 1)]
BY ProofsAssumptions DEF Proofs!WorkloadAssumption, Proofs!Inv, Proofs!TypeOK

LEMMA BurstType == Proofs!Inv => \A p \in Procs : Proofs!BurstLen(p) \in 1..MaxTime
<1> SUFFICES ASSUME Proofs!Inv, NEW p \in Procs PROVE Proofs!BurstLen(p) \in 1..MaxTime
  OBVIOUS
<1>1. w.phases[p] \in Seq(1..MaxTime)
  BY ProofsAssumptions DEF Proofs!WorkloadAssumption, Proofs!Inv, Proofs!TypeOK
<1>2. phase[p] \in 1..Len(w.phases[p])
  BY <1>1 DEF Proofs!Inv, Proofs!TypeOK
<1>3. \A S : \A q \in Seq(S) : \A i \in 1..Len(q) : q[i] \in S
  OBVIOUS
<1>4. w.phases[p][phase[p]] \in 1..MaxTime
  BY <1>1, <1>2, <1>3
<1> QED BY <1>4 DEF Proofs!BurstLen

\* what is ready has something left to run, and no more than the clock has
LEMMA WorkLeft ==
    ASSUME Proofs!Inv, stage # "done", NEW p \in Ready
    PROVE  p \in Procs /\ remaining[p] \in 1..MaxTime
<1>1. p \in Procs /\ remaining[p] \in 0..MaxTime
  BY DEF Proofs!Inv, Proofs!TypeOK, Proofs!Times
<1>2. p \notin Proofs!Completed
  BY DEF Proofs!Inv, Proofs!OnePlace
<1>3. remaining[p] > 0
  BY <1>1, <1>2 DEF Proofs!Inv, Proofs!HasWork
<1> QED BY <1>1, <1>3

\* the slices the policies may ask for
LEMMA AllowedSlice ==
    ASSUME NEW p, NEW len \in 1..MaxTime, NEW dl,
           \/ dl = Proofs!NoDeadline
           \/ \E g \in 1..Max({Boost, Aging}) : now + g < MaxTime /\ dl = now + g
    PROVE  Proofs!Slice(p, len, dl) \in Proofs!SlicesFor(p) /\ Proofs!Slice(p, len, dl).proc = p
<1> DEFINE gaps == {now + g : g \in {h \in 1..Max({Boost, Aging}) : now + h < MaxTime}}
<1>1. dl \in {Proofs!NoDeadline} \cup gaps
  OBVIOUS
<1>2. Proofs!SlicesFor(p) =
        {Proofs!Slice(p, n, d) : n \in 1..MaxTime, d \in {Proofs!NoDeadline} \cup gaps}
  BY DEF Proofs!SlicesFor
<1> HIDE DEF gaps
<1>3. Proofs!Slice(p, len, dl) \in Proofs!SlicesFor(p)
  BY <1>1, <1>2
<1> QED BY <1>3 DEF Proofs!Slice

\* a slice that ends is that of a process, and ran no longer than it was asked to
LEMMA EndsFacts ==
    ASSUME Proofs!Inv, NEW c \in Proofs!Cores, Proofs!SliceEnds(c)
    PROVE  /\ core[c].proc \in Procs /\ c \in Proofs!Busy
           /\ Proofs!Ran(c) \in 1..core[c].length
<1>1. /\ c \in Proofs!Running /\ core[c].proc \in Procs /\ core[c] \in Proofs!CoreStructs
      /\ Proofs!Ran(c) \in Nat /\ 1 <= Proofs!Ran(c) /\ Proofs!Ran(c) <= core[c].length
  BY ProofsAssumptions, Proofs!SliceEndFacts
<1>2. c \in Proofs!Busy
  BY <1>1 DEF Proofs!Running
<1>3. core[c].length \in Nat
  BY <1>1 DEF Proofs!CoreStructs
<1> QED BY <1>1, <1>2, <1>3

LEMMA SrtfLeast ==
    ASSUME Proofs!Inv, NEW S \in SUBSET Procs, S # {}
    PROVE  /\ SRTF!Least(S) \in S
           /\ \A y \in S : SRTF!ExpectedRemaining(SRTF!Least(S)) <= SRTF!ExpectedRemaining(y)
<1> DEFINE k == [p \in S |-> SRTF!Key(p)]
           a == [p \in S |-> w.arrival[p]]
<1>1. ASSUME NEW p \in S PROVE SRTF!Key(p) \in Int
  <2>1. Proofs!BurstLen(p) \in Int /\ predicted[p] \in Int /\ remaining[p] \in Int
    BY BurstType DEF Proofs!Inv, Proofs!TypeOK, Proofs!Times
  <2>2. SRTF!BurstLen(p) \in Int /\ SRTF!ExpectedBurst(p) \in Int
    BY <2>1 DEF SRTF!ExpectedBurst, SRTF!BurstLen, Proofs!BurstLen
  <2>3. SRTF!ExpectedRemaining(p) \in Int
    BY <2>1, <2>2 DEF SRTF!ExpectedRemaining
  <2> QED BY <2>2, <2>3 DEF SRTF!Key
<1>2. k \in [S -> Int] /\ a \in [S -> Int]
  BY <1>1, ArrivalType
<1>3. IsFiniteSet(S) /\ S \subseteq Nat
  BY EngineAssumption, FS_Subset
<1>4. \A p \in S : k[p] = SRTF!Key(p) /\ a[p] = w.arrival[p]
  OBVIOUS
<1> HIDE DEF k, a
<1>5. \E x \in S : \A y \in S \ {x} :
         \/ k[x] < k[y]
         \/ k[x] = k[y] /\ a[x] < a[y]
         \/ k[x] = k[y] /\ a[x] = a[y] /\ x < y
  BY <1>2, <1>3, KeyedLeastExists, ZenonT(30)
<1>6. \E x \in S : \A y \in S \ {x} : SRTF!Less(x, y)
  BY <1>4, <1>5 DEF SRTF!Less
<1> DEFINE m == SRTF!Least(S)
<1>7. m \in S /\ \A y \in S \ {m} : SRTF!Less(m, y)
  BY <1>6 DEF SRTF!Least
<1> HIDE DEF m
<1>8. ASSUME NEW y \in S PROVE SRTF!Key(m) <= SRTF!Key(y)
  <2>1. m \in S /\ SRTF!Key(m) \in Int /\ SRTF!Key(y) \in Int
    BY <1>1, <1>7
  <2>2. y = m \/ SRTF!Less(m, y)
    BY <1>7
  <2>3. SRTF!Less(m, y) => SRTF!Key(m) < SRTF!Key(y) \/ SRTF!Key(m) = SRTF!Key(y)
    BY DEF SRTF!Less
  <2> QED BY <2>1, <2>2, <2>3
<1>9. \A y : SRTF!Key(y) = SRTF!ExpectedRemaining(y)
  BY RedecidedAssumption DEF SRTF!Key, SRTF!Srtf
<1> QED BY <1>7, <1>8, <1>9 DEF m

LEMMA SrtfStep ==
    ASSUME Proofs!Inv, policy = "srtf", UNCHANGED policy, SRTF!Next
    PROVE  Proofs!Next
<1>1. Ready = ready /\ Ready' = ready'
  BY DEF Ready
<1>2. CASE \E p \in Procs : SRTF!Arrive(p) \/ SRTF!BecomeReady(p)
  <2>1. PICK p \in Procs : SRTF!Arrive(p) \/ SRTF!BecomeReady(p)
    BY <1>2
  <2> QED
    BY <1>1, <2>1, SrtfEngine DEF SRTF!Arrive, SRTF!BecomeReady,
       Proofs!Next, Proofs!Arrive, Proofs!BecomeReady
<1>3. CASE \E c \in SRTF!Cores :
              SRTF!SliceCompletes(c) \/ SRTF!SliceBlocks(c) \/ SRTF!SlicePreempted(c)
  <2>1. PICK c \in Proofs!Cores :
           SRTF!SliceCompletes(c) \/ SRTF!SliceBlocks(c) \/ SRTF!SlicePreempted(c)
    BY <1>3 DEF SRTF!Cores, Proofs!Cores
  <2>2. \/ (Proofs!Complete(c) \/ Proofs!Block(c)) /\ UNCHANGED ready
        \/ Proofs!Preempt(c) /\ ready' = ready \cup {core[c].proc}
    BY <2>1, SrtfEngine
    DEF SRTF!SliceCompletes, SRTF!SliceBlocks, SRTF!SlicePreempted
  <2> QED
    BY <1>1, <2>2 DEF Proofs!Next, Proofs!SliceCompletes, Proofs!SliceBlocks,
                      Proofs!SlicePreempted
<1>4. CASE SRTF!NextSlice
  <2>1. PICK p : p = SRTF!Least(ready)
    OBVIOUS
  <2> DEFINE s == Proofs!Slice(p, remaining[p], Proofs!NoDeadline)
  <2>2. ready # {} /\ Proofs!Pick(s) /\ ready' = ready \ {p}
    BY <1>4, <2>1, SrtfEngine DEF SRTF!NextSlice, SRTF!LengthOf
  <2>3. ready \subseteq Procs
    BY <1>1 DEF Proofs!Inv, Proofs!TypeOK
  <2>4. p \in ready
    BY <2>1, <2>2, <2>3, SrtfLeast
  <2>5. remaining[p] \in 1..MaxTime
    BY <1>1, <2>2, <2>4, WorkLeft DEF Proofs!Pick, Proofs!WantsPick
  <2>6. s \in Proofs!SlicesFor(p) /\ s.proc = p
    BY <2>5, AllowedSlice
  <2>7. Proofs!NextSlice(s)
    BY <1>1, <2>2, <2>6 DEF Proofs!NextSlice
  <2> QED
    BY <1>1, <2>4, <2>6, <2>7 DEF Proofs!Next
<1>5. CASE SRTF!StopPicking
  <2>1. Proofs!PicksDone /\ (Proofs!WantsPick => ready = {}) /\ UNCHANGED ready
    BY <1>5, SrtfEngine DEF SRTF!StopPicking
  <2>2. Proofs!StopPicking
    BY <1>1, <2>1 DEF Proofs!StopPicking, Proofs!MayDecline
  <2> QED BY <2>2 DEF Proofs!Next
<1>6. CASE SRTF!EngineStep /\ UNCHANGED ready
  BY <1>1, <1>6, SrtfEngine DEF Proofs!Next
<1> QED BY <1>2, <1>3, <1>4, <1>5, <1>6 DEF SRTF!Next

-----------------------------------------------------------------------------
(* prio-p *)

PrioPInv ==
    policy = "prio-p" =>
        /\ base \in [Procs -> Int] /\ r \in [Procs -> Nat]
        /\ waited \in [Procs -> Int] /\ readySince \in [Procs -> Int]
        /\ Aging > 0 => \A p \in Procs : r[p] < Aging
        /\ w.priority \in [Procs -> Int]

LEMMA SatSubType == ASSUME NEW a \in Int, NEW b \in Int PROVE PrioP!SatSub(a, b) \in Int
BY RedecidedAssumption DEF PrioP!SatSub

LEMMA BestOfType ==
    ASSUME Proofs!Inv, base \in [Procs -> Int], NEW S \in SUBSET Procs, S # {}
    PROVE  /\ PrioP!BestOf(S) \in S
           /\ \A y \in S \ {PrioP!BestOf(S)} : PrioP!KeyLess(PrioP!BestOf(S), 0, y, 0)
<1> DEFINE k == [p \in S |-> PrioP!SatSub(base[p], 0)]
           a == [p \in S |-> w.arrival[p]]
<1>1. k \in [S -> Int] /\ a \in [S -> Int]
  <2>1. \A p \in S : base[p] \in Int /\ w.arrival[p] \in Int
    BY ArrivalType
  <2>2. \A p \in S : PrioP!SatSub(base[p], 0) \in Int
    BY <2>1, SatSubType
  <2> QED BY <2>1, <2>2
<1>2. IsFiniteSet(S) /\ S \subseteq Nat
  BY EngineAssumption, FS_Subset
<1>3. \A p \in S : k[p] = PrioP!SatSub(base[p], 0) /\ a[p] = w.arrival[p]
  OBVIOUS
<1> HIDE DEF k, a
<1>4. \E x \in S : \A y \in S \ {x} :
         \/ k[x] < k[y]
         \/ k[x] = k[y] /\ a[x] < a[y]
         \/ k[x] = k[y] /\ a[x] = a[y] /\ x < y
  BY <1>1, <1>2, KeyedLeastExists, ZenonT(30)
<1>5. \E x \in S : \A y \in S \ {x} : PrioP!KeyLess(x, 0, y, 0)
  BY <1>3, <1>4 DEF PrioP!KeyLess
<1> QED BY <1>5 DEF PrioP!BestOf

LEMMA ChosenType ==
    ASSUME Proofs!Inv, PrioPInv, policy = "prio-p", ready \subseteq Procs, ready # {}
    PROVE  PrioP!Chosen \in ready
<1>1. base \in [Procs -> Int] /\ r \in [Procs -> Nat]
  BY DEF PrioPInv
<1>2. CASE Aging = 0
  BY <1>1, <1>2, BestOfType DEF PrioP!Chosen
<1>3. CASE Aging # 0
  <2> DEFINE low == PrioP!Low(ready)
             high == PrioP!High(ready)
  <2>1. PrioP!Limit \in Int
    BY <1>3, RedecidedAssumption DEF PrioP!Limit, Proofs!Inv, Proofs!TypeOK, Proofs!Times
  <2>2. low \subseteq ready /\ high \subseteq ready /\ ready = low \cup high
    BY <1>1, <2>1 DEF PrioP!Low, PrioP!High
  <2> HIDE DEF low, high
  <2>3. (low # {} => PrioP!BestOf(low) \in ready) /\ (high # {} => PrioP!BestOf(high) \in ready)
    BY <1>1, <2>2, BestOfType
  <2>4. low # {} \/ high # {}
    BY <2>2
  <2> QED
    BY <1>3, <2>3, <2>4 DEF PrioP!Chosen, low, high
<1> QED BY <1>2, <1>3

LEMMA EnqueueType ==
    ASSUME Proofs!Inv, PrioPInv, policy = "prio-p", NEW p \in Procs, NEW wt \in Int,
           PrioP!Enqueue(p, wt)
    PROVE  /\ base' \in [Procs -> Int] /\ r' \in [Procs -> Nat]
           /\ waited' \in [Procs -> Int] /\ readySince' \in [Procs -> Int]
           /\ Aging > 0 => \A q \in Procs : r'[q] < Aging
<1> DEFINE c == wt - now
<1>1. c \in Int /\ now \in Int
  BY DEF Proofs!Inv, Proofs!TypeOK, Proofs!Times
<1>2. /\ base \in [Procs -> Int] /\ r \in [Procs -> Nat]
      /\ waited \in [Procs -> Int] /\ readySince \in [Procs -> Int]
      /\ w.priority[p] \in Int
      /\ Aging > 0 => \A q \in Procs : r[q] < Aging
  BY DEF PrioPInv
<1>3. Aging > 0 => c % Aging \in Nat /\ c % Aging < Aging /\ c \div Aging \in Int
  BY <1>1, RedecidedAssumption
<1>4. Aging > 0 => PrioP!SatSub(w.priority[p], c \div Aging) \in Int
  BY <1>2, <1>3, SatSubType
<1>5. /\ r' = [r EXCEPT ![p] = IF Aging > 0 THEN c % Aging ELSE 0]
      /\ base' = [base EXCEPT ![p] = IF Aging > 0 THEN PrioP!SatSub(w.priority[p], c \div Aging)
                                     ELSE w.priority[p]]
      /\ waited' = [waited EXCEPT ![p] = wt] /\ readySince' = [readySince EXCEPT ![p] = now]
  BY DEF PrioP!Enqueue
<1> HIDE DEF c
<1>6. r' \in [Procs -> Nat] /\ (Aging > 0 => \A q \in Procs : r'[q] < Aging)
  BY <1>2, <1>3, <1>5
<1>7. base' \in [Procs -> Int]
  BY <1>2, <1>4, <1>5
<1>8. waited' \in [Procs -> Int] /\ readySince' \in [Procs -> Int]
  BY <1>1, <1>2, <1>5
<1> QED BY <1>6, <1>7, <1>8

\* the largest remainder is that of a process
LEMMA MaxRemainder ==
    ASSUME PrioPInv, policy = "prio-p", Aging > 0, NEW T \in SUBSET Procs, T # {}
    PROVE  \E p \in T : PrioP!Max({r[q] : q \in T}) = r[p] /\ \A q \in T : r[q] <= r[p]
<1> DEFINE R == {r[q] : q \in T}
<1>1. \A p \in Procs : r[p] \in 0..(Aging - 1)
  BY RedecidedAssumption DEF PrioPInv
<1>2. IsFiniteSet(R)
  <2>1. IsFiniteSet(0..(Aging - 1))
    BY RedecidedAssumption, FS_Interval
  <2>2. R \subseteq 0..(Aging - 1)
    BY <1>1
  <2> QED BY <2>1, <2>2, FS_Subset
<1>3. R # {} /\ R \subseteq Int
  BY <1>1
<1> HIDE DEF R
<1>4. Proofs!Max(R) \in R /\ \A x \in R : x <= Proofs!Max(R)
  BY <1>2, <1>3, ProofsAssumptions, Proofs!MaxFacts DEF IsFiniteSet, Proofs!IsFiniteSet
<1>5. PrioP!Max(R) = Proofs!Max(R)
  BY DEF PrioP!Max, Proofs!Max
<1> QED BY <1>4, <1>5 DEF R

\* the next gain of a level lies ahead, at most Aging ticks
LEMMA NextAgingAhead ==
    ASSUME Proofs!Inv, PrioPInv, policy = "prio-p", Aging > 0,
           NEW S \in SUBSET Procs, S # {}
    PROVE  \/ PrioP!NextAging(S) = Proofs!NoDeadline
           \/ \E g \in 1..Max({Boost, Aging}) :
                 now + g < MaxTime /\ PrioP!NextAging(S) = now + g
<1>1. now \in Nat /\ Aging \in Nat \ {0} /\ MaxTime \in Nat
  BY RedecidedAssumption, EngineAssumption DEF Proofs!Inv, Proofs!TypeOK, Proofs!Times
<1>2. PrioP!Limit \in 1..Aging
  BY <1>1 DEF PrioP!Limit
<1>3. \A p \in Procs : r[p] \in 0..(Aging - 1)
  BY <1>1 DEF PrioPInv
<1> DEFINE step == IF PrioP!Low(S) # {}
                   THEN PrioP!Limit - PrioP!Max({r[p] : p \in PrioP!Low(S)})
                   ELSE Aging - (PrioP!Max({r[p] : p \in S}) - PrioP!Limit)
<1>5. step \in 1..Aging
  <2>1. CASE PrioP!Low(S) # {}
    <3>1. PICK p \in PrioP!Low(S) : PrioP!Max({r[q] : q \in PrioP!Low(S)}) = r[p]
      <4>1. PrioP!Low(S) \in SUBSET Procs
        BY DEF PrioP!Low
      <4> QED BY <1>1, <2>1, <4>1, MaxRemainder
    <3>2. p \in Procs /\ r[p] < PrioP!Limit
      BY <3>1 DEF PrioP!Low
    <3> QED BY <1>1, <1>2, <1>3, <2>1, <3>1, <3>2
  <2>2. CASE PrioP!Low(S) = {}
    <3>1. PICK p \in S : PrioP!Max({r[q] : q \in S}) = r[p]
      BY MaxRemainder
    <3>2. ~(r[p] < PrioP!Limit) /\ p \in Procs
      BY <2>2, <3>1 DEF PrioP!Low
    <3> QED BY <1>1, <1>2, <1>3, <2>2, <3>1, <3>2
  <2> QED BY <2>1, <2>2
<1>6. PrioP!NextAging(S) = IF now + step > MaxTime THEN MaxTime ELSE now + step
  BY DEF PrioP!NextAging, PrioP!NoDeadline
<1> HIDE DEF step
<1>7. step \in 1..Max({Boost, Aging})
  BY <1>1, <1>5, GapFacts
<1>8. CASE now + step < MaxTime
  BY <1>1, <1>5, <1>6, <1>7, <1>8
<1>9. CASE ~(now + step < MaxTime)
  BY <1>1, <1>5, <1>6, <1>9 DEF Proofs!NoDeadline
<1> QED BY <1>8, <1>9

LEMMA PrioPStep ==
    ASSUME Proofs!Inv, PrioPInv, policy = "prio-p", UNCHANGED policy, PrioP!Next
    PROVE  Proofs!Next /\ PrioPInv'
<1>1. Ready = ready /\ Ready' = ready'
  BY DEF Ready
<1>2. /\ base \in [Procs -> Int] /\ r \in [Procs -> Nat]
      /\ waited \in [Procs -> Int] /\ readySince \in [Procs -> Int]
      /\ Aging > 0 => \A p \in Procs : r[p] < Aging
  BY DEF PrioPInv
<1> DEFINE Typed == /\ base' \in [Procs -> Int] /\ r' \in [Procs -> Nat]
                    /\ waited' \in [Procs -> Int] /\ readySince' \in [Procs -> Int]
                    /\ Aging > 0 => \A p \in Procs : r'[p] < Aging
<1>3. Proofs!Next /\ Typed
  <2>1. CASE \E p \in Procs : PrioP!Arrive(p) \/ PrioP!BecomeReady(p)
    <3>1. PICK p \in Procs : PrioP!Arrive(p) \/ PrioP!BecomeReady(p)
      BY <2>1
    <3>2. (Proofs!Admit(p) \/ Proofs!WakeUp(p)) /\ PrioP!Enqueue(p, 0)
      BY <3>1, PrioPEngine DEF PrioP!Arrive, PrioP!BecomeReady
    <3>3. Typed
      BY <3>2, EnqueueType
    <3>4. ready' = ready \cup {p}
      BY <3>2 DEF PrioP!Enqueue
    <3> QED
      BY <1>1, <3>2, <3>3, <3>4 DEF Proofs!Next, Proofs!Arrive, Proofs!BecomeReady
  <2>2. CASE \E c \in PrioP!Cores :
                PrioP!SliceCompletes(c) \/ PrioP!SliceBlocks(c) \/ PrioP!SlicePreempted(c)
    <3>1. PICK c \in Proofs!Cores :
             PrioP!SliceCompletes(c) \/ PrioP!SliceBlocks(c) \/ PrioP!SlicePreempted(c)
      BY <2>2 DEF PrioP!Cores, Proofs!Cores
    <3>2. CASE PrioP!SliceCompletes(c) \/ PrioP!SliceBlocks(c)
      <4>1. (Proofs!Complete(c) \/ Proofs!Block(c)) /\ UNCHANGED PrioP!prioVars
        BY <3>2, PrioPEngine DEF PrioP!SliceCompletes, PrioP!SliceBlocks
      <4> QED
        BY <1>1, <1>2, <4>1
        DEF Proofs!Next, Proofs!SliceCompletes, Proofs!SliceBlocks, PrioP!prioVars
    <3>3. CASE PrioP!SlicePreempted(c)
      <4>1. PICK p : p = core[c].proc
        OBVIOUS
      <4>2. Proofs!Preempt(c) /\ PrioP!Enqueue(p, waited[p])
        BY <3>3, <4>1, PrioPEngine DEF PrioP!SlicePreempted
      <4>3. p \in Procs
        BY <4>1, <4>2, EndsFacts DEF Proofs!Preempt, Proofs!EndRun
      <4>4. Typed
        BY <1>2, <4>2, <4>3, EnqueueType
      <4>5. ready' = ready \cup {core[c].proc}
        BY <4>1, <4>2 DEF PrioP!Enqueue
      <4> QED
        BY <1>1, <4>2, <4>4, <4>5 DEF Proofs!Next, Proofs!SlicePreempted
    <3> QED BY <3>1, <3>2, <3>3
  <2>3. CASE PrioP!NextSlice
    <3>1. PICK p : p = PrioP!Chosen
      OBVIOUS
    <3>2. Ready \subseteq Procs /\ now \in Int
      BY DEF Proofs!Inv, Proofs!TypeOK, Proofs!Times
    <3>3. ready # {}
      BY <2>3 DEF PrioP!NextSlice
    <3>4. p \in ready /\ p \in Procs
      BY <1>1, <3>1, <3>2, <3>3, ChosenType
    <3>5. PICK dl : dl = IF Aging > 0 /\ ready \ {p} # {} THEN PrioP!NextAging(ready \ {p})
                         ELSE PrioP!NoDeadline
      OBVIOUS
    <3> DEFINE s == Proofs!Slice(p, remaining[p], dl)
    <3>6. /\ PrioP!Pick(PrioP!Slice(p, remaining[p], dl)) /\ ready' = ready \ {p}
          /\ waited' = [waited EXCEPT ![p] = waited[p] + now - readySince[p]]
          /\ UNCHANGED <<readySince, base, r>>
      BY <2>3, <3>1, <3>5, RedecidedAssumption DEF PrioP!NextSlice
    <3>7. Proofs!Pick(s)
      BY <3>6, PrioPEngine
    <3>8. Typed
      BY <1>2, <3>2, <3>4, <3>6
    <3>9. remaining[p] \in 1..MaxTime
      BY <1>1, <3>4, <3>7, WorkLeft DEF Proofs!Pick, Proofs!WantsPick
    <3>10. \/ dl = Proofs!NoDeadline
           \/ \E g \in 1..Max({Boost, Aging}) : now + g < MaxTime /\ dl = now + g
      <4>1. CASE Aging > 0 /\ ready \ {p} # {}
        <5>1. ready \ {p} \in SUBSET Procs
          BY <1>1, <3>2
        <5> QED BY <3>5, <4>1, <5>1, NextAgingAhead
      <4>2. CASE ~(Aging > 0 /\ ready \ {p} # {})
        BY <3>5, <4>2, PrioPEngine
      <4> QED BY <4>1, <4>2
    <3>11. s \in Proofs!SlicesFor(p) /\ s.proc = p
      BY <3>9, <3>10, AllowedSlice
    <3>12. Proofs!NextSlice(s)
      BY <1>1, <3>6, <3>7, <3>11 DEF Proofs!NextSlice
    <3> QED
      BY <1>1, <3>4, <3>8, <3>11, <3>12 DEF Proofs!Next
  <2>4. CASE PrioP!StopPicking
    <3>1. Proofs!PicksDone /\ (Proofs!WantsPick => ready = {}) /\ UNCHANGED PrioP!prioVars
      BY <2>4, PrioPEngine DEF PrioP!StopPicking
    <3>2. Proofs!StopPicking
      BY <1>1, <3>1 DEF Proofs!StopPicking, Proofs!MayDecline, PrioP!prioVars
    <3> QED BY <1>2, <3>1, <3>2 DEF Proofs!Next, PrioP!prioVars
  <2>5. CASE PrioP!EngineStep /\ UNCHANGED PrioP!prioVars
    BY <1>1, <1>2, <2>5, PrioPEngine DEF Proofs!Next, PrioP!prioVars
  <2> QED BY <2>1, <2>2, <2>3, <2>4, <2>5 DEF PrioP!Next
<1>4. w' = w
  BY <1>3, ProofsAssumptions, Proofs!WorkloadKept
<1> QED BY <1>3, <1>4 DEF PrioPInv

-----------------------------------------------------------------------------
(* mlfq: its queues                                                        *)

Members(q) == UNION {ToSet(q[l]) : l \in MLFQ!Levels}

(* Each job of the queue x of level l is there once and belongs there, and *)
(* those with a slice left are ahead of the others; s: the jobs' states.   *)
InLine(x, s, l) ==
    /\ x \in Seq(Procs) /\ IsInjective(x)
    /\ \A p \in ToSet(x) : s[p].level = l
    /\ \A i, j \in DOMAIN x : i < j /\ s[x[j]].left > 0 => s[x[i]].left > 0
InOrder(q, s) == /\ q \in [MLFQ!Levels -> Seq(Procs)]
                 /\ \A l \in MLFQ!Levels : InLine(q[l], s, l)

\* what is said of a queue is said of its jobs alone
LEMMA SameLine ==
    ASSUME NEW x, NEW s, NEW l, InLine(x, s, l), NEW t, \A p \in ToSet(x) : t[p] = s[p]
    PROVE  InLine(x, t, l)
<1>1. \A i \in DOMAIN x : t[x[i]] = s[x[i]]
  BY DEF ToSet
<1> QED BY <1>1 DEF InLine

LEMMA Apart ==
    ASSUME NEW q, NEW s, InOrder(q, s), NEW l \in MLFQ!Levels, NEW m \in MLFQ!Levels, l # m
    PROVE  ToSet(q[l]) \cap ToSet(q[m]) = {}
BY DEF InOrder, InLine

Replaced(q, l, x) == [q EXCEPT ![l] = x]

\* one queue is replaced, and the jobs of the others are left alone
Elsewhere(q, s, t, l) == \A m \in MLFQ!Levels \ {l} : \A p \in ToSet(q[m]) : t[p] = s[p]
LEMMA QueueReplaced ==
    ASSUME NEW q, NEW s, InOrder(q, s), NEW t, NEW l \in MLFQ!Levels, NEW x,
           InLine(x, t, l), Elsewhere(q, s, t, l)
    PROVE  /\ InOrder(Replaced(q, l, x), t)
           /\ Members(Replaced(q, l, x)) = (Members(q) \ ToSet(q[l])) \cup ToSet(x)
<1> DEFINE n == Replaced(q, l, x)
<1>1. /\ n \in [MLFQ!Levels -> Seq(Procs)] /\ n[l] = x
      /\ \A m \in MLFQ!Levels \ {l} : n[m] = q[m]
  BY DEF InOrder, InLine, Replaced
<1> HIDE DEF n
<1>2. ASSUME NEW m \in MLFQ!Levels PROVE InLine(n[m], t, m)
  <2>1. CASE m = l
    BY <1>1, <2>1
  <2>2. CASE m # l
    <3>1. n[m] = q[m] /\ InLine(q[m], s, m) /\ \A p \in ToSet(q[m]) : t[p] = s[p]
      BY <1>1, <2>2 DEF Elsewhere, InOrder
    <3> QED BY <3>1, SameLine
  <2> QED BY <2>1, <2>2
<1>3. InOrder(n, t)
  BY <1>1, <1>2 DEF InOrder
<1>4. \A m \in MLFQ!Levels \ {l} : ToSet(q[m]) \cap ToSet(q[l]) = {}
  BY Apart
<1>5. Members(n) = (Members(q) \ ToSet(q[l])) \cup ToSet(x)
  BY <1>1, <1>4 DEF Members
<1> QED BY <1>3, <1>5 DEF n

LEMMA PushedBack ==
    ASSUME NEW q, NEW s \in [Procs -> MLFQ!Jobs], InOrder(q, s), NEW p \in Procs \ Members(q),
           NEW j \in MLFQ!Jobs, j.left = 0
    PROVE  /\ InOrder(MLFQ!PushBack(q, p, j.level), [s EXCEPT ![p] = j])
           /\ Members(MLFQ!PushBack(q, p, j.level)) = Members(q) \cup {p}
<1>1. PICK l \in MLFQ!Levels : l = j.level
  BY DEF MLFQ!Jobs
<1>2. PICK t : t = [s EXCEPT ![p] = j]
  OBVIOUS
<1>3. /\ InLine(q[l], s, l) /\ q[l] \in Seq(Procs) /\ IsInjective(q[l]) /\ p \notin ToSet(q[l])
      /\ ToSet(q[l]) \subseteq Members(q)
  BY DEF InOrder, InLine, Members
<1> DEFINE x == Append(q[l], p)
<1>4. x \in Seq(Procs) /\ IsInjective(x) /\ ToSet(x) = ToSet(q[l]) \cup {p}
  BY <1>3, Joining
<1>5. t[p] = j /\ \A o \in Members(q) : t[o] = s[o]
  <2>1. \A o \in Members(q) : o # p /\ o \in Procs
    BY DEF Members, ToSet, InOrder
  <2> QED BY <1>2, <2>1
<1>6. /\ Len(q[l]) \in Nat /\ DOMAIN q[l] = 1..Len(q[l]) /\ DOMAIN x = 1..(Len(q[l]) + 1)
      /\ \A i \in 1..Len(q[l]) : x[i] = q[l][i]
      /\ x[Len(q[l]) + 1] = p
  BY <1>3
<1> HIDE DEF x
<1>7. InLine(q[l], t, l)
  BY <1>3, <1>5, SameLine
<1>8. ASSUME NEW i \in DOMAIN x, NEW k \in DOMAIN x, i < k, t[x[k]].left > 0
      PROVE  t[x[i]].left > 0
  <2>1. k \in DOMAIN q[l]
    <3>1. CASE k = Len(q[l]) + 1
      BY <1>5, <1>6, <1>8, <3>1
    <3> QED BY <1>6, <3>1
  <2>2. i \in DOMAIN q[l]
    BY <1>6, <1>8, <2>1
  <2>3. x[i] = q[l][i] /\ x[k] = q[l][k]
    BY <1>6, <2>1, <2>2
  <2> QED BY <1>7, <1>8, <2>1, <2>2, <2>3 DEF InLine
<1>9. InLine(x, t, l)
  <2>1. \A o \in ToSet(x) : t[o].level = l
    BY <1>1, <1>4, <1>5, <1>7 DEF InLine
  <2> QED BY <1>4, <1>8, <2>1 DEF InLine
<1>10. Elsewhere(q, s, t, l)
  BY <1>5 DEF Elsewhere, Members
<1>11. /\ InOrder(Replaced(q, l, x), t)
       /\ Members(Replaced(q, l, x)) = (Members(q) \ ToSet(q[l])) \cup ToSet(x)
  BY <1>9, <1>10, QueueReplaced
<1>12. MLFQ!PushBack(q, p, j.level) = Replaced(q, l, x)
  BY <1>1 DEF MLFQ!PushBack, InOrder, Replaced, x
<1> QED BY <1>2, <1>3, <1>4, <1>11, <1>12

LEMMA PushedFront ==
    ASSUME NEW q, NEW s \in [Procs -> MLFQ!Jobs], InOrder(q, s), NEW p \in Procs \ Members(q),
           NEW j \in MLFQ!Jobs, j.left > 0
    PROVE  /\ InOrder(MLFQ!PushFront(q, p, j.level), [s EXCEPT ![p] = j])
           /\ Members(MLFQ!PushFront(q, p, j.level)) = Members(q) \cup {p}
<1>1. PICK l \in MLFQ!Levels : l = j.level
  BY DEF MLFQ!Jobs
<1>2. PICK t : t = [s EXCEPT ![p] = j]
  OBVIOUS
<1>3. /\ InLine(q[l], s, l) /\ q[l] \in Seq(Procs) /\ IsInjective(q[l]) /\ p \notin ToSet(q[l])
      /\ ToSet(q[l]) \subseteq Members(q)
  BY DEF InOrder, InLine, Members
<1> DEFINE x == <<p>> \o q[l]
<1>4. x \in Seq(Procs) /\ IsInjective(x) /\ ToSet(x) = {p} \cup ToSet(q[l])
  BY <1>3, JumpingAhead
<1>5. t[p] = j /\ \A o \in Members(q) : t[o] = s[o]
  <2>1. \A o \in Members(q) : o # p /\ o \in Procs
    BY DEF Members, ToSet, InOrder
  <2> QED BY <1>2, <2>1
<1>6. /\ Len(q[l]) \in Nat /\ DOMAIN q[l] = 1..Len(q[l]) /\ DOMAIN x = 1..(Len(q[l]) + 1)
      /\ \A i \in 2..(Len(q[l]) + 1) : x[i] = q[l][i - 1]
      /\ x[1] = p
  BY <1>3
<1> HIDE DEF x
<1>7. InLine(q[l], t, l)
  BY <1>3, <1>5, SameLine
<1>8. ASSUME NEW i \in DOMAIN x, NEW k \in DOMAIN x, i < k, t[x[k]].left > 0
      PROVE  t[x[i]].left > 0
  <2>1. CASE i = 1
    BY <1>5, <1>6, <2>1
  <2>2. CASE i # 1
    <3>1. i - 1 \in DOMAIN q[l] /\ k - 1 \in DOMAIN q[l] /\ i - 1 < k - 1
      BY <1>6, <1>8, <2>2
    <3>2. x[i] = q[l][i - 1] /\ x[k] = q[l][k - 1]
      BY <1>6, <1>8, <2>2
    <3> QED BY <1>7, <1>8, <3>1, <3>2 DEF InLine
  <2> QED BY <2>1, <2>2
<1>9. InLine(x, t, l)
  <2>1. \A o \in ToSet(x) : t[o].level = l
    BY <1>1, <1>4, <1>5, <1>7 DEF InLine
  <2> QED BY <1>4, <1>8, <2>1 DEF InLine
<1>10. Elsewhere(q, s, t, l)
  BY <1>5 DEF Elsewhere, Members
<1>11. /\ InOrder(Replaced(q, l, x), t)
       /\ Members(Replaced(q, l, x)) = (Members(q) \ ToSet(q[l])) \cup ToSet(x)
  BY <1>9, <1>10, QueueReplaced
<1>12. MLFQ!PushFront(q, p, j.level) = Replaced(q, l, x)
  BY <1>1 DEF MLFQ!PushFront, InOrder, Replaced, x
<1> QED BY <1>2, <1>3, <1>4, <1>11, <1>12

\* the job at the head of a queue leaves it, and its state may change
LEMMA HeadTaken ==
    ASSUME NEW q, NEW s \in [Procs -> MLFQ!Jobs], InOrder(q, s), NEW l \in MLFQ!Levels,
           q[l] # <<>>, NEW j \in MLFQ!Jobs
    PROVE  /\ Head(q[l]) \in Procs
           /\ InOrder(Replaced(q, l, Tail(q[l])), Replaced(s, Head(q[l]), j))
           /\ Members(Replaced(q, l, Tail(q[l]))) = Members(q) \ {Head(q[l])}
           /\ Head(q[l]) \in Members(q) /\ s[Head(q[l])].level = l
<1>1. InLine(q[l], s, l) /\ q[l] \in Seq(Procs) /\ IsInjective(q[l])
  BY DEF InOrder, InLine
<1>2. PICK p : p = Head(q[l])
  OBVIOUS
<1>3. PICK t : t = Replaced(s, p, j)
  OBVIOUS
<1> DEFINE x == Tail(q[l])
<1>4. /\ p \in ToSet(q[l]) /\ x \in Seq(Procs) /\ IsInjective(x)
      /\ ToSet(x) = ToSet(q[l]) \ {p}
  BY <1>1, <1>2, Leaving
<1>5. /\ Len(q[l]) \in Nat \ {0} /\ DOMAIN q[l] = 1..Len(q[l]) /\ DOMAIN x = 1..(Len(q[l]) - 1)
      /\ \A i \in 1..(Len(q[l]) - 1) : x[i] = q[l][i + 1]
  BY <1>1
<1> HIDE DEF x
<1>6. \A o \in Procs \ {p} : t[o] = s[o]
  BY <1>3 DEF Replaced
<1>7. InLine(x, s, l)
  <2>1. ASSUME NEW i \in DOMAIN x, NEW k \in DOMAIN x, i < k, s[x[k]].left > 0
        PROVE  s[x[i]].left > 0
    <3>1. i + 1 \in DOMAIN q[l] /\ k + 1 \in DOMAIN q[l] /\ i + 1 < k + 1
      BY <1>5, <2>1
    <3>2. x[i] = q[l][i + 1] /\ x[k] = q[l][k + 1]
      BY <1>5
    <3> QED BY <1>1, <2>1, <3>1, <3>2 DEF InLine
  <2> QED BY <1>1, <1>4, <2>1 DEF InLine
<1>8. InLine(x, t, l)
  <2>1. \A o \in ToSet(x) : o \in Procs \ {p}
    <3>1. ToSet(q[l]) \subseteq Procs
      BY <1>1 DEF ToSet
    <3> QED BY <1>4, <3>1
  <2> QED BY <1>6, <1>7, <2>1, SameLine
<1>9. Elsewhere(q, s, t, l)
  <2>1. ASSUME NEW m \in MLFQ!Levels \ {l}, NEW o \in ToSet(q[m]) PROVE o \in Procs \ {p}
    <3>1. o # p
      BY <1>4, Apart
    <3>2. q[m] \in Seq(Procs)
      BY DEF InOrder
    <3> QED BY <3>1, <3>2 DEF ToSet
  <2> QED BY <1>6, <2>1 DEF Elsewhere
<1>10. /\ InOrder(Replaced(q, l, x), t)
       /\ Members(Replaced(q, l, x)) = (Members(q) \ ToSet(q[l])) \cup ToSet(x)
  BY <1>8, <1>9, QueueReplaced
<1>11. \A m \in MLFQ!Levels \ {l} : p \notin ToSet(q[m])
  BY <1>4, Apart
<1>12. (Members(q) \ ToSet(q[l])) \cup (ToSet(q[l]) \ {p}) = Members(q) \ {p}
  BY <1>4, <1>11 DEF Members
<1>13. p \in Procs /\ p \in Members(q) /\ s[p].level = l
  BY <1>1, <1>4 DEF InLine, ToSet, Members
<1> QED BY <1>2, <1>3, <1>4, <1>10, <1>12, <1>13 DEF x

\* a job outside the queues may change
LEMMA Outside ==
    ASSUME NEW q, NEW s \in [Procs -> MLFQ!Jobs], InOrder(q, s), NEW p \in Procs \ Members(q), NEW j
    PROVE  InOrder(q, [s EXCEPT ![p] = j])
<1>1. PICK t : t = [s EXCEPT ![p] = j]
  OBVIOUS
<1>2. ASSUME NEW l \in MLFQ!Levels PROVE InLine(q[l], t, l)
  <2>1. \A o \in ToSet(q[l]) : o \in Procs \ {p}
    BY DEF InOrder, Members, ToSet
  <2>2. \A o \in ToSet(q[l]) : t[o] = s[o]
    BY <1>1, <2>1
  <2> QED BY <2>2, SameLine DEF InOrder
<1> QED BY <1>1, <1>2 DEF InOrder

-----------------------------------------------------------------------------
(* mlfq: boosts and allotments *)

LEMMA DivFacts ==
    ASSUME NEW a \in Nat, NEW b \in Nat \ {0}
    PROVE  /\ a \div b \in Nat
           /\ (a \div b) * b <= a /\ a < (a \div b) * b + b
OBVIOUS

Quotient(a, b) == a \div b
LEMMA DivMonotone ==
    ASSUME NEW a \in Nat, NEW c \in Nat, NEW b \in Nat \ {0}, a <= c
    PROVE  Quotient(a, b) <= Quotient(c, b)
<1>1. PICK x \in Nat : x = a \div b
  BY DivFacts
<1>2. PICK y \in Nat : y = c \div b
  BY DivFacts
<1>3. x * b <= a /\ c < y * b + b
  BY <1>1, <1>2, DivFacts
<1>4. ASSUME y < x PROVE FALSE
  <2>1. PICK d \in Nat : x = y + 1 + d
    <3>1. x - y - 1 \in Nat /\ x = y + 1 + (x - y - 1)
      BY <1>4
    <3> QED BY <3>1
  <2>2. x * b = y * b + b + d * b /\ d * b \in Nat /\ y * b \in Nat
    BY <2>1
  <2> QED BY <1>3, <2>2
<1> QED BY <1>1, <1>2, <1>4 DEF Quotient

\* the number of boosts only grows
LEMMA EpochFacts ==
    ASSUME Proofs!Inv
    PROVE  /\ now \in Nat /\ MLFQ!CurrentEpoch \in Nat
           /\ Boost > 0 => MLFQ!CurrentEpoch * Boost <= now
                           /\ now < MLFQ!CurrentEpoch * Boost + Boost
<1>1. now \in Nat /\ Boost \in Nat
  BY RedecidedAssumption DEF Proofs!Inv, Proofs!TypeOK, Proofs!Times
<1> QED BY <1>1, DivFacts DEF MLFQ!CurrentEpoch

LEMMA EpochNext == ASSUME Proofs!Inv' PROVE MLFQ!CurrentEpoch' \in Nat
<1>1. now' \in Nat /\ Boost \in Nat
  BY RedecidedAssumption DEF Proofs!Inv, Proofs!TypeOK, Proofs!Times
<1>2. CASE Boost > 0
  <2>1. MLFQ!CurrentEpoch' = now' \div Boost
    BY <1>2 DEF MLFQ!CurrentEpoch
  <2>2. PICK a \in Nat : a = now'
    BY <1>1
  <2>3. PICK b \in Nat \ {0} : b = Boost
    BY <1>1, <1>2
  <2>4. a \div b \in Nat
    BY DivFacts
  <2> QED BY <2>1, <2>2, <2>3, <2>4
<1>3. CASE ~(Boost > 0)
  BY <1>3 DEF MLFQ!CurrentEpoch
<1> QED BY <1>2, <1>3

LEMMA EpochMonotone ==
    ASSUME Proofs!Inv, Proofs!Inv', now <= now'
    PROVE  MLFQ!CurrentEpoch <= MLFQ!CurrentEpoch'
<1>1. now \in Nat /\ now' \in Nat /\ Boost \in Nat
  BY RedecidedAssumption DEF Proofs!Inv, Proofs!TypeOK, Proofs!Times
<1>2. CASE Boost > 0
  <2>1. /\ MLFQ!CurrentEpoch = Quotient(now, Boost)
        /\ MLFQ!CurrentEpoch' = Quotient(now', Boost)
    BY <1>2 DEF MLFQ!CurrentEpoch, Quotient
  <2>2. Quotient(now, Boost) <= Quotient(now', Boost)
    BY <1>1, <1>2, DivMonotone
  <2> QED BY <2>1, <2>2
<1>3. CASE ~(Boost > 0)
  BY <1>3 DEF MLFQ!CurrentEpoch
<1> QED BY <1>2, <1>3

Within(j) == j.left <= MaxTime /\ (j.level < NumLevels => j.used < Allotments[j.level])

(* The inductive invariant of mlfq: the queues agree with the jobs as they *)
(* are once the boosts the queues have seen are applied, no job has used   *)
(* up the allotment of its level, and one that is running has exactly the  *)
(* slice left that the engine was asked for.                               *)
MlfqInv ==
    policy = "mlfq" =>
        /\ epoch \in Nat /\ epoch <= MLFQ!CurrentEpoch
        /\ job \in [Procs -> MLFQ!Jobs]
        /\ \A p \in Procs : Within(job[p]) /\ job[p].seen <= epoch
        /\ InOrder(queues, [p \in Procs |-> MLFQ!Settled(p)])
        /\ \A x \in Proofs!Granted : job[x[1]].left = x[2]

LEMMA LevelFacts ==
    /\ NumLevels \in Nat \ {0} /\ 1 \in MLFQ!Levels /\ MLFQ!Levels = 1..NumLevels
    /\ \A l \in MLFQ!Levels : Quanta[l] \in 1..MaxTime /\ Allotments[l] \in 1..MaxTime
    /\ MaxTime \in Nat
BY RedecidedAssumption, EngineAssumption DEF MLFQ!Levels

LEMMA FreshFacts ==
    ASSUME NEW e \in Nat
    PROVE  /\ MLFQ!Fresh(e) \in MLFQ!Jobs /\ Within(MLFQ!Fresh(e))
           /\ MLFQ!Fresh(e).seen = e /\ MLFQ!Fresh(e).level = 1 /\ MLFQ!Fresh(e).left = 0
<1>1. /\ MLFQ!Fresh(e) \in MLFQ!Jobs
      /\ MLFQ!Fresh(e).seen = e /\ MLFQ!Fresh(e).level = 1 /\ MLFQ!Fresh(e).left = 0
      /\ MLFQ!Fresh(e).used = 0
  BY LevelFacts DEF MLFQ!Fresh, MLFQ!Jobs
<1>2. Allotments[1] > 0 /\ 0 <= MaxTime
  BY LevelFacts
<1> QED BY <1>1, <1>2 DEF Within

\* the jobs as sync() leaves them
Seen == [p \in Procs |-> MLFQ!Synced(p)]

LEMMA SyncedFacts ==
    ASSUME Proofs!Inv, MlfqInv, policy = "mlfq"
    PROVE  /\ Seen \in [Procs -> MLFQ!Jobs]
           /\ \A p \in Procs : /\ Seen[p] = MLFQ!Synced(p) /\ Within(Seen[p])
                               /\ Seen[p].seen = MLFQ!CurrentEpoch
<1>1. MLFQ!CurrentEpoch \in Nat
  BY EpochFacts
<1>2. ASSUME NEW p \in Procs
      PROVE  /\ MLFQ!Synced(p) \in MLFQ!Jobs /\ Within(MLFQ!Synced(p))
             /\ MLFQ!Synced(p).seen = MLFQ!CurrentEpoch
  <2>1. job[p] \in MLFQ!Jobs /\ Within(job[p])
    BY DEF MlfqInv
  <2>2. CASE MLFQ!WasReset(p)
    BY <1>1, <2>2, FreshFacts DEF MLFQ!Synced
  <2>3. CASE ~MLFQ!WasReset(p)
    BY <2>1, <2>3 DEF MLFQ!Synced, MLFQ!WasReset
  <2> QED BY <2>2, <2>3
<1> QED BY <1>2 DEF Seen

LEMMA ReadyIs == policy = "mlfq" => Ready = Members(queues)
BY DEF Ready, Members, MLFQ!Queued, MLFQ!ToSet, ToSet
LEMMA ReadyIsNext == policy' = "mlfq" => Ready' = Members(queues')
BY DEF Ready, Members, MLFQ!Queued, MLFQ!ToSet, ToSet

(* A boost loses no job, queues none twice and leaves each where its reset *)
(* will look for it.                                                       *)
LEMMA BoostedFacts ==
    ASSUME Proofs!Inv, MlfqInv, policy = "mlfq"
    PROVE  InOrder(MLFQ!Boosted, Seen) /\ Members(MLFQ!Boosted) = Ready
<1>1. /\ epoch \in Nat /\ epoch <= MLFQ!CurrentEpoch /\ job \in [Procs -> MLFQ!Jobs]
      /\ \A p \in Procs : job[p].seen \in Nat /\ job[p].seen <= epoch
      /\ InOrder(queues, [p \in Procs |-> MLFQ!Settled(p)])
  BY DEF MlfqInv, MLFQ!Jobs
<1>2. MLFQ!CurrentEpoch \in Nat
  BY EpochFacts
<1>3. CASE MLFQ!CurrentEpoch = epoch
  <2>1. \A p \in Procs : MLFQ!Settled(p) = MLFQ!Synced(p)
    BY <1>3 DEF MLFQ!Settled, MLFQ!Synced, MLFQ!WasReset
  <2>2. [p \in Procs |-> MLFQ!Settled(p)] = Seen
    BY <2>1 DEF Seen
  <2>3. MLFQ!Boosted = queues
    BY <1>3 DEF MLFQ!Boosted
  <2> QED BY <1>1, <2>2, <2>3, ReadyIs
<1>4. CASE MLFQ!CurrentEpoch # epoch
  <2> DEFINE n == NumLevels
             x == FlattenSeq(queues)
  <2>1. \A p \in Procs : Seen[p].level = 1 /\ Seen[p].left = 0
    <3>1. \A p \in Procs : MLFQ!WasReset(p)
      BY <1>1, <1>2, <1>4 DEF MLFQ!WasReset
    <3> QED BY <1>2, <3>1, FreshFacts DEF Seen, MLFQ!Synced
  <2>2. /\ n \in Nat \ {0} /\ MLFQ!Levels = 1..n /\ queues \in [1..n -> Seq(Procs)]
        /\ \A l \in 1..n : IsInjective(queues[l])
        /\ \A l, m \in 1..n : l # m => ToSet(queues[l]) \cap ToSet(queues[m]) = {}
    BY <1>1, LevelFacts, Apart DEF InOrder, InLine
  <2>3. /\ x \in Seq(Procs) /\ IsInjective(x)
        /\ ToSet(x) = UNION {ToSet(queues[l]) : l \in 1..n}
    <3> HIDE DEF n
    <3> QED BY <2>2, Flattened
  <2>4. MLFQ!Boosted = [l \in MLFQ!Levels |-> IF l = 1 THEN x ELSE <<>>]
    BY <1>4 DEF MLFQ!Boosted, MLFQ!FlattenSeq, FlattenSeq
  <2> HIDE DEF x
  <2>5. InLine(x, Seen, 1)
    <3>1. \A i \in DOMAIN x : x[i] \in Procs
      BY <2>3
    <3>2. \A p \in ToSet(x) : p \in Procs
      BY <3>1 DEF ToSet
    <3> QED BY <2>1, <2>3, <3>1, <3>2 DEF InLine
  <2>6. \A l : InLine(<<>>, Seen, l)
    BY DEF InLine, IsInjective, ToSet
  <2>7. MLFQ!Boosted \in [MLFQ!Levels -> Seq(Procs)]
    BY <2>3, <2>4
  <2>8. InOrder(MLFQ!Boosted, Seen)
    BY <2>4, <2>5, <2>6, <2>7 DEF InOrder
  <2>9. Members(MLFQ!Boosted) = ToSet(x)
    <3>1. ToSet(<<>>) = {}
      BY DEF ToSet
    <3>2. \A l \in MLFQ!Levels : ToSet(MLFQ!Boosted[l]) = IF l = 1 THEN ToSet(x) ELSE {}
      BY <2>4, <3>1
    <3> QED BY <3>2, LevelFacts DEF Members
  <2>10. ToSet(x) = Ready
    BY <2>2, <2>3, ReadyIs DEF Members
  <2> QED BY <2>8, <2>9, <2>10
<1> QED BY <1>3, <1>4

\* a hook at the current instant gives the job of one process a new state
LEMMA Hooked ==
    ASSUME Proofs!Inv, MlfqInv, policy = "mlfq", now' = now,
           NEW p \in Procs, NEW j \in MLFQ!Jobs, Within(j), j.seen = MLFQ!CurrentEpoch,
           epoch' = MLFQ!CurrentEpoch, job' = [job EXCEPT ![p] = j],
           InOrder(queues', [Seen EXCEPT ![p] = j]),
           \A x \in Proofs!Granted' : job'[x[1]].left = x[2]
    PROVE  MlfqInv'
<1>1. /\ job \in [Procs -> MLFQ!Jobs] /\ epoch <= MLFQ!CurrentEpoch /\ epoch \in Nat
      /\ \A o \in Procs : Within(job[o]) /\ job[o].seen <= epoch /\ job[o].seen \in Nat
  BY DEF MlfqInv, MLFQ!Jobs
<1>2. MLFQ!CurrentEpoch' = MLFQ!CurrentEpoch /\ MLFQ!CurrentEpoch \in Nat
  BY EpochFacts DEF MLFQ!CurrentEpoch
<1>3. job' \in [Procs -> MLFQ!Jobs] /\ job'[p] = j /\ \A o \in Procs \ {p} : job'[o] = job[o]
  BY <1>1
<1>4. \A o \in Procs : Within(job'[o]) /\ job'[o].seen <= epoch'
  BY <1>1, <1>2, <1>3
<1>5. [o \in Procs |-> MLFQ!Settled(o)'] = [Seen EXCEPT ![p] = j]
  <2>1. MLFQ!Settled(p)' = j
    BY <1>3 DEF MLFQ!Settled
  <2>2. ASSUME NEW o \in Procs \ {p} PROVE MLFQ!Settled(o)' = MLFQ!Synced(o)
    BY <1>3 DEF MLFQ!Settled, MLFQ!Synced, MLFQ!WasReset, MLFQ!Fresh
  <2> QED BY <2>1, <2>2 DEF Seen
<1>6. InOrder(queues', [o \in Procs |-> MLFQ!Settled(o)'])
  BY <1>5
<1> QED
  BY <1>2, <1>3, <1>4, <1>6 DEF MlfqInv, InOrder, InLine, Within

\* a step that leaves the queues and the jobs alone
LEMMA Unhooked ==
    ASSUME Proofs!Inv, Proofs!Inv', MlfqInv, policy = "mlfq", now <= now',
           UNCHANGED MLFQ!mlfqVars, Proofs!Granted' \subseteq Proofs!Granted
    PROVE  MlfqInv'
<1>1. MLFQ!CurrentEpoch <= MLFQ!CurrentEpoch' /\ MLFQ!CurrentEpoch \in Nat
      /\ MLFQ!CurrentEpoch' \in Nat
  <2>1. MLFQ!CurrentEpoch' \in Nat
    BY EpochNext
  <2> QED BY <2>1, EpochMonotone, EpochFacts
<1>2. epoch' = epoch /\ queues' = queues /\ job' = job
  BY DEF MLFQ!mlfqVars
<1>3. epoch \in Nat /\ epoch' <= MLFQ!CurrentEpoch'
  BY <1>1, <1>2 DEF MlfqInv
<1>4. \A o : MLFQ!Settled(o)' = MLFQ!Settled(o)
  BY <1>2 DEF MLFQ!Settled, MLFQ!Fresh
<1>5. [o \in Procs |-> MLFQ!Settled(o)]' = [o \in Procs |-> MLFQ!Settled(o)]
  BY <1>4
<1>6. InOrder(queues, [o \in Procs |-> MLFQ!Settled(o)])'
  BY <1>2, <1>5 DEF MlfqInv, InOrder, InLine
<1> QED
  BY <1>2, <1>3, <1>6 DEF MlfqInv, Within

\* the job of a process without a slice may change
LEMMA GrantsKept ==
    ASSUME MlfqInv, policy = "mlfq", Proofs!Inv', NEW p \in Procs, p \notin Proofs!Taken', NEW j,
           Proofs!Granted' \subseteq Proofs!Granted, job' = [job EXCEPT ![p] = j]
    PROVE  \A x \in Proofs!Granted' : job'[x[1]].left = x[2]
<1> SUFFICES ASSUME NEW x \in Proofs!Granted' PROVE job'[x[1]].left = x[2]
  OBVIOUS
<1>1. x[1] # p
  BY Proofs!GrantedTaken DEF Proofs!Granted, Proofs!Taken, Proofs!Picked, Proofs!OnCore
<1>2. job[x[1]].left = x[2] /\ job \in [Procs -> MLFQ!Jobs]
  BY DEF MlfqInv
<1> QED BY <1>1, <1>2

LEMMA ChargedFacts ==
    ASSUME NEW j \in MLFQ!Jobs, Within(j), NEW ran \in Nat
    PROVE  /\ MLFQ!Charged(j, ran) \in MLFQ!Jobs /\ Within(MLFQ!Charged(j, ran))
           /\ MLFQ!Charged(j, ran).seen = j.seen /\ MLFQ!Charged(j, ran).left = j.left
<1>1. /\ j.level \in 1..NumLevels /\ j.used \in Nat /\ j.left \in Nat /\ j.seen \in Nat
      /\ j = [level |-> j.level, used |-> j.used, left |-> j.left, seen |-> j.seen]
      /\ j.left <= MaxTime
  BY DEF MLFQ!Jobs, MLFQ!Levels, Within
<1>2. CASE j.level < NumLevels /\ j.used + ran >= Allotments[j.level]
  <2>1. MLFQ!Charged(j, ran) =
          [level |-> j.level + 1, used |-> 0, left |-> j.left, seen |-> j.seen]
    BY <1>1, <1>2 DEF MLFQ!Charged
  <2>2. j.level + 1 \in MLFQ!Levels /\ Allotments[j.level + 1] > 0
    BY <1>1, <1>2, LevelFacts
  <2> QED BY <1>1, <2>1, <2>2 DEF MLFQ!Jobs, Within
<1>3. CASE ~(j.level < NumLevels /\ j.used + ran >= Allotments[j.level])
  <2>1. MLFQ!Charged(j, ran) =
          [level |-> j.level, used |-> j.used + ran, left |-> j.left, seen |-> j.seen]
    BY <1>1, <1>3 DEF MLFQ!Charged
  <2>2. j.level \in MLFQ!Levels /\ Allotments[j.level] \in Nat /\ NumLevels \in Nat
    BY <1>1, LevelFacts
  <2>3. j.level < NumLevels => j.used + ran < Allotments[j.level]
    BY <1>1, <1>3, <2>2
  <2> QED BY <1>1, <2>1, <2>2, <2>3 DEF MLFQ!Jobs, Within
<1> QED BY <1>2, <1>3

\* a job with a slice of n ticks left
LEMMA LeftSet ==
    ASSUME NEW j \in MLFQ!Jobs, Within(j), NEW n \in 0..MaxTime
    PROVE  /\ [j EXCEPT !.left = n] \in MLFQ!Jobs /\ Within([j EXCEPT !.left = n])
           /\ [j EXCEPT !.left = n].left = n
           /\ [j EXCEPT !.left = n].level = j.level /\ [j EXCEPT !.left = n].seen = j.seen
BY EngineAssumption DEF MLFQ!Jobs, Within

LEMMA GrantFacts ==
    ASSUME NEW j \in MLFQ!Jobs, Within(j)
    PROVE  MLFQ!Grant(j, j.level) \in 1..MaxTime
<1>1. PICK l \in MLFQ!Levels : l = j.level
  BY DEF MLFQ!Jobs
<1>2. j.used \in Nat /\ j.left \in Nat /\ j.left <= MaxTime
      /\ (l < NumLevels => j.used < Allotments[l])
  BY <1>1 DEF MLFQ!Jobs, Within
<1>3. PICK q \in 1..MaxTime : q = IF j.left = 0 THEN Quanta[l] ELSE j.left
  BY <1>2, LevelFacts
<1>4. PICK a \in 1..MaxTime : a = Allotments[l]
  BY LevelFacts
<1>5. MLFQ!Grant(j, l) = IF l < NumLevels THEN IF q < a - j.used THEN q ELSE a - j.used ELSE q
  BY <1>3, <1>4 DEF MLFQ!Grant, MLFQ!Lesser
<1> QED BY <1>1, <1>2, <1>4, <1>5, EngineAssumption

LEMMA BoostAhead ==
    ASSUME Proofs!Inv
    PROVE  \/ MLFQ!BoostDeadline = Proofs!NoDeadline
           \/ \E g \in 1..Max({Boost, Aging}) : now + g < MaxTime /\ MLFQ!BoostDeadline = now + g
<1>1. CASE Boost > 0 /\ MLFQ!CurrentEpoch < MaxTime \div Boost
  <2>1. PICK e \in Nat : e = MLFQ!CurrentEpoch
    BY EpochFacts
  <2>2. PICK f \in Nat : f = MaxTime \div Boost /\ f * Boost <= MaxTime
    BY <1>1, DivFacts, EngineAssumption, RedecidedAssumption, SMTT(30)
  <2>3. now \in Nat /\ Boost \in Nat \ {0} /\ e * Boost <= now /\ now < e * Boost + Boost
    BY <1>1, <2>1, EpochFacts, RedecidedAssumption
  <2>4. (e + 1) * Boost <= f * Boost
    <3>1. PICK d \in Nat : f = e + 1 + d
      <4>1. f - e - 1 \in Nat /\ f = e + 1 + (f - e - 1)
        BY <1>1, <2>1, <2>2
      <4> QED BY <4>1
    <3>2. f * Boost = (e + 1) * Boost + d * Boost /\ d * Boost \in Nat
      BY <2>3, <3>1
    <3>3. (e + 1) * Boost \in Nat
      BY <2>3
    <3> QED BY <3>2, <3>3
  <2>5. (e + 1) * Boost = e * Boost + Boost /\ e * Boost \in Nat
    BY <2>3
  <2>6. PICK g : g = e * Boost + Boost - now
    OBVIOUS
  <2>7. g \in 1..Boost /\ now + g = (e + 1) * Boost
    BY <2>3, <2>5, <2>6
  <2>8. MLFQ!BoostDeadline = now + g
    BY <1>1, <2>1, <2>7 DEF MLFQ!BoostDeadline
  <2>9. now + g <= MaxTime
    BY <2>2, <2>3, <2>4, <2>5, <2>7, EngineAssumption
  <2>10. g \in 1..Max({Boost, Aging})
    BY <2>3, <2>7, GapFacts
  <2>11. now + g < MaxTime \/ now + g = MaxTime
    BY <2>3, <2>7, <2>9, EngineAssumption
  <2> QED BY <2>8, <2>10, <2>11 DEF Proofs!NoDeadline
<1>2. CASE ~(Boost > 0 /\ MLFQ!CurrentEpoch < MaxTime \div Boost)
  BY <1>2, MlfqEngine DEF MLFQ!BoostDeadline
<1> QED BY <1>1, <1>2

LEMMA QuietGrants ==
    ASSUME Proofs!Inv, Proofs!Next, UNCHANGED picks
    PROVE  Proofs!Granted' \subseteq Proofs!Granted
<1>1. picks \in Seq(Proofs!Slices)
  BY DEF Proofs!Inv, Proofs!TypeOK
<1>2. \A s \in Proofs!Slices : Append(picks, s) # picks
  BY <1>1
<1> QED BY <1>2, ProofsAssumptions, Proofs!GrantedKept

\* a process enters the queues, or leaves its core without entering them
LEMMA Handed ==
    ASSUME Proofs!Inv, Proofs!Inv', MlfqInv, policy = "mlfq", policy' = policy, Proofs!Next,
           UNCHANGED <<now, picks>>,
           NEW p \in Procs, p \in Ready' \cup blocked', stage' # "done",
           NEW j \in MLFQ!Jobs, Within(j), j.seen = MLFQ!CurrentEpoch,
           epoch' = MLFQ!CurrentEpoch, job' = [job EXCEPT ![p] = j],
           InOrder(queues', [Seen EXCEPT ![p] = j])
    PROVE  MlfqInv'
<1>1. p \notin Proofs!Taken'
  BY DEF Proofs!Inv, Proofs!OnePlace, Proofs!Taken
<1>2. \A x \in Proofs!Granted' : job'[x[1]].left = x[2]
  BY <1>1, QuietGrants, GrantsKept
<1> QED BY <1>2, Hooked

LEMMA MlfqArrive ==
    ASSUME Proofs!Inv, MlfqInv, policy = "mlfq", policy' = policy, NEW p \in Procs, MLFQ!Arrive(p)
    PROVE  Proofs!Next /\ MlfqInv'
<1> DEFINE j == MLFQ!Fresh(MLFQ!CurrentEpoch)
<1>1. /\ Proofs!Admit(p) /\ epoch' = MLFQ!CurrentEpoch /\ job' = [job EXCEPT ![p] = j]
      /\ queues' = MLFQ!PushBack(MLFQ!Boosted, p, 1)
  BY MlfqEngine DEF MLFQ!Arrive
<1>2. /\ j \in MLFQ!Jobs /\ Within(j) /\ j.seen = MLFQ!CurrentEpoch
      /\ j.level = 1 /\ j.left = 0
  BY EpochFacts, FreshFacts
<1>3. /\ Seen \in [Procs -> MLFQ!Jobs] /\ InOrder(MLFQ!Boosted, Seen)
      /\ Members(MLFQ!Boosted) = Ready
  BY SyncedFacts, BoostedFacts
<1>4. p \notin Ready
  BY <1>1 DEF Proofs!Admit, Proofs!Arrived, Proofs!Inv, Proofs!OnePlace
<1> HIDE DEF j
<1>5. /\ InOrder(MLFQ!PushBack(MLFQ!Boosted, p, j.level), [Seen EXCEPT ![p] = j])
      /\ Members(MLFQ!PushBack(MLFQ!Boosted, p, j.level)) = Members(MLFQ!Boosted) \cup {p}
  BY <1>2, <1>3, <1>4, PushedBack
<1>6. Ready' = Ready \cup {p}
  BY <1>1, <1>2, <1>3, <1>5, ReadyIsNext
<1>7. Proofs!Next
  BY <1>1, <1>6 DEF Proofs!Next, Proofs!Arrive
<1>8. Proofs!Inv'
  BY <1>7, ProofsAssumptions, Proofs!NextInv
<1>9. now' = now /\ picks' = picks /\ stage' # "done"
  BY <1>1 DEF Proofs!Admit
<1>10. InOrder(queues', [Seen EXCEPT ![p] = j])
  BY <1>1, <1>2, <1>5
<1>11. MlfqInv'
  BY <1>1, <1>2, <1>6, <1>7, <1>8, <1>9, <1>10, Handed
<1> QED BY <1>7, <1>11

LEMMA MlfqReady ==
    ASSUME Proofs!Inv, MlfqInv, policy = "mlfq", policy' = policy, NEW p \in Procs,
           MLFQ!BecomeReady(p)
    PROVE  Proofs!Next /\ MlfqInv'
<1> DEFINE j == [MLFQ!Synced(p) EXCEPT !.left = 0]
<1>1. /\ Proofs!WakeUp(p) /\ epoch' = MLFQ!CurrentEpoch /\ job' = [job EXCEPT ![p] = j]
      /\ queues' = MLFQ!PushBack(MLFQ!Boosted, p, MLFQ!Synced(p).level)
  BY MlfqEngine DEF MLFQ!BecomeReady
<1>2. /\ Seen \in [Procs -> MLFQ!Jobs] /\ InOrder(MLFQ!Boosted, Seen)
      /\ Members(MLFQ!Boosted) = Ready
      /\ MLFQ!Synced(p) \in MLFQ!Jobs /\ Within(MLFQ!Synced(p))
      /\ MLFQ!Synced(p).seen = MLFQ!CurrentEpoch
  BY SyncedFacts, BoostedFacts
<1>3. /\ j \in MLFQ!Jobs /\ Within(j) /\ j.seen = MLFQ!CurrentEpoch
      /\ j.level = MLFQ!Synced(p).level /\ j.left = 0
  BY <1>2, LeftSet, EngineAssumption
<1>4. p \notin Ready
  BY <1>1 DEF Proofs!WakeUp, Proofs!Woken, Proofs!Inv, Proofs!OnePlace
<1> HIDE DEF j
<1>5. /\ InOrder(MLFQ!PushBack(MLFQ!Boosted, p, j.level), [Seen EXCEPT ![p] = j])
      /\ Members(MLFQ!PushBack(MLFQ!Boosted, p, j.level)) = Members(MLFQ!Boosted) \cup {p}
  BY <1>2, <1>3, <1>4, PushedBack
<1>6. Ready' = Ready \cup {p}
  BY <1>1, <1>2, <1>3, <1>5, ReadyIsNext
<1>7. Proofs!Next
  BY <1>1, <1>6 DEF Proofs!Next, Proofs!BecomeReady
<1>8. Proofs!Inv'
  BY <1>7, ProofsAssumptions, Proofs!NextInv
<1>9. now' = now /\ picks' = picks /\ stage' # "done"
  BY <1>1 DEF Proofs!WakeUp
<1>10. InOrder(queues', [Seen EXCEPT ![p] = j])
  BY <1>1, <1>3, <1>5
<1>11. MlfqInv'
  BY <1>1, <1>3, <1>6, <1>7, <1>8, <1>9, <1>10, Handed
<1> QED BY <1>7, <1>11

LEMMA MlfqBlock ==
    ASSUME Proofs!Inv, MlfqInv, policy = "mlfq", policy' = policy, NEW c \in Proofs!Cores,
           MLFQ!SliceBlocks(c)
    PROVE  Proofs!Next /\ MlfqInv'
<1>1. PICK p : p = core[c].proc
  OBVIOUS
<1> DEFINE after == IF MLFQ!WasReset(p) THEN MLFQ!Synced(p)
                    ELSE MLFQ!Charged(job[p], MLFQ!Ran(c))
           j == [after EXCEPT !.left = 0]
<1>2. /\ Proofs!Block(c) /\ epoch' = MLFQ!CurrentEpoch /\ queues' = MLFQ!Boosted
      /\ job' = [job EXCEPT ![p] = j]
  BY <1>1, MlfqEngine DEF MLFQ!SliceBlocks
<1>3. p \in Procs /\ MLFQ!Ran(c) \in Nat /\ c \in Proofs!Busy
  <2>1. Proofs!SliceEnds(c)
    BY <1>2 DEF Proofs!Block, Proofs!EndRun
  <2>2. /\ c \in Proofs!Running /\ core[c].proc \in Procs /\ Proofs!Ran(c) \in Nat
        /\ c \in Proofs!Busy
    BY <2>1, EndsFacts, ProofsAssumptions, Proofs!SliceEndFacts
  <2> QED BY <1>1, <2>2 DEF MLFQ!Ran, Proofs!Ran
<1>4. /\ Seen \in [Procs -> MLFQ!Jobs] /\ InOrder(MLFQ!Boosted, Seen)
      /\ Members(MLFQ!Boosted) = Ready
      /\ MLFQ!Synced(p) \in MLFQ!Jobs /\ Within(MLFQ!Synced(p))
      /\ MLFQ!Synced(p).seen = MLFQ!CurrentEpoch
  BY <1>3, SyncedFacts, BoostedFacts
<1>5. after \in MLFQ!Jobs /\ Within(after) /\ after.seen = MLFQ!CurrentEpoch
  <2>1. CASE MLFQ!WasReset(p)
    BY <1>4, <2>1
  <2>2. CASE ~MLFQ!WasReset(p)
    <3>1. job[p] \in MLFQ!Jobs /\ Within(job[p]) /\ job[p].seen = MLFQ!CurrentEpoch
      BY <1>3, <2>2 DEF MlfqInv, MLFQ!WasReset
    <3> QED BY <1>3, <2>2, <3>1, ChargedFacts
  <2> QED BY <2>1, <2>2
<1> HIDE DEF after
<1>6. j \in MLFQ!Jobs /\ Within(j) /\ j.seen = MLFQ!CurrentEpoch
  BY <1>5, LeftSet, EngineAssumption
<1> HIDE DEF j
<1>7. p \notin Ready
  <2>1. p \in Proofs!OnCore
    BY <1>1, <1>3 DEF Proofs!OnCore
  <2> QED BY <2>1 DEF Proofs!Inv, Proofs!OnePlace
<1>8. Ready' = Ready
  BY <1>2, <1>4, ReadyIsNext
<1>9. Proofs!Next
  BY <1>2, <1>8 DEF Proofs!Next, Proofs!SliceBlocks
<1>10. Proofs!Inv'
  BY <1>9, ProofsAssumptions, Proofs!NextInv
<1>11. now' = now /\ picks' = picks /\ stage' # "done" /\ p \in blocked'
  BY <1>1, <1>2 DEF Proofs!Block, Proofs!EndRun, Proofs!SliceEnds
<1>12. InOrder(queues', [Seen EXCEPT ![p] = j])
  BY <1>2, <1>3, <1>4, <1>7, Outside
<1>13. MlfqInv'
  BY <1>2, <1>3, <1>6, <1>9, <1>10, <1>11, <1>12, Handed
<1> QED BY <1>9, <1>13

LEMMA MlfqPreempt ==
    ASSUME Proofs!Inv, MlfqInv, policy = "mlfq", policy' = policy, NEW c \in Proofs!Cores,
           MLFQ!SlicePreempted(c)
    PROVE  Proofs!Next /\ MlfqInv'
<1>1. PICK p : p = core[c].proc
  OBVIOUS
<1>2. Proofs!Preempt(c) /\ epoch' = MLFQ!CurrentEpoch
  BY MlfqEngine DEF MLFQ!SlicePreempted
<1>3. /\ p \in Procs /\ c \in Proofs!Busy /\ MLFQ!Ran(c) \in 1..core[c].length
      /\ core[c].length \in Nat
  <2>1. Proofs!SliceEnds(c)
    BY <1>2 DEF Proofs!Preempt, Proofs!EndRun
  <2>2. core[c].proc \in Procs /\ c \in Proofs!Busy /\ Proofs!Ran(c) \in 1..core[c].length
    BY <2>1, EndsFacts
  <2>3. core[c].length \in Nat
    BY DEF Proofs!Inv, Proofs!TypeOK, Proofs!CoreStructs
  <2> QED BY <1>1, <2>2, <2>3 DEF MLFQ!Ran, Proofs!Ran
<1>4. /\ Seen \in [Procs -> MLFQ!Jobs] /\ InOrder(MLFQ!Boosted, Seen)
      /\ Members(MLFQ!Boosted) = Ready
      /\ MLFQ!Synced(p) \in MLFQ!Jobs /\ Within(MLFQ!Synced(p))
      /\ MLFQ!Synced(p).seen = MLFQ!CurrentEpoch
  BY <1>3, SyncedFacts, BoostedFacts
<1>5. p \notin Ready
  <2>1. p \in Proofs!OnCore
    BY <1>1, <1>3 DEF Proofs!OnCore
  <2> QED BY <2>1 DEF Proofs!Inv, Proofs!OnePlace
\* in every case p is queued where its new state belongs
<1>6. \E j \in MLFQ!Jobs :
         /\ Within(j) /\ j.seen = MLFQ!CurrentEpoch /\ job' = [job EXCEPT ![p] = j]
         /\ \/ j.left = 0 /\ queues' = MLFQ!PushBack(MLFQ!Boosted, p, j.level)
            \/ j.left > 0 /\ queues' = MLFQ!PushFront(MLFQ!Boosted, p, j.level)
  <2>1. CASE /\ MLFQ!WasReset(p) /\ job' = [job EXCEPT ![p] = MLFQ!Synced(p)]
             /\ queues' = MLFQ!PushBack(MLFQ!Boosted, p, 1)
    <3>1. MLFQ!Synced(p).level = 1 /\ MLFQ!Synced(p).left = 0
      BY <2>1, EpochFacts, FreshFacts DEF MLFQ!Synced
    <3> QED BY <1>4, <2>1, <3>1
  <2>2. CASE ~MLFQ!WasReset(p)
    <3> DEFINE before == [job[p] EXCEPT !.left = job[p].left - MLFQ!Ran(c)]
               after == MLFQ!Charged(before, MLFQ!Ran(c))
    <3>1. /\ job' = [job EXCEPT ![p] = IF after.level # before.level
                                       THEN [after EXCEPT !.left = 0] ELSE after]
          /\ queues' = MLFQ!Requeued(MLFQ!Boosted, p, before, after)
      BY <1>1, <2>2 DEF MLFQ!SlicePreempted
    <3>2. job[p] \in MLFQ!Jobs /\ Within(job[p]) /\ job[p].seen = MLFQ!CurrentEpoch
      BY <1>3, <2>2 DEF MlfqInv, MLFQ!WasReset
    <3>3. job[p].left = core[c].length
      <4>1. <<core[c].proc, core[c].length>> \in Proofs!Granted
        BY <1>3 DEF Proofs!Granted
      <4> QED BY <1>1, <4>1 DEF MlfqInv
    <3>4. job[p].left - MLFQ!Ran(c) \in 0..MaxTime
      BY <1>3, <3>2, <3>3, EngineAssumption DEF Within
    <3>5. before \in MLFQ!Jobs /\ Within(before) /\ before.seen = MLFQ!CurrentEpoch
      BY <3>2, <3>4, LeftSet
    <3> HIDE DEF before
    <3>6. after \in MLFQ!Jobs /\ Within(after) /\ after.seen = MLFQ!CurrentEpoch
      <4>1. MLFQ!Ran(c) \in Nat
        BY <1>3
      <4> QED BY <3>5, <4>1, ChargedFacts
    <3> HIDE DEF after
    <3>7. CASE after.level # before.level
      <4> DEFINE j == [after EXCEPT !.left = 0]
      <4>1. /\ j \in MLFQ!Jobs /\ Within(j) /\ j.seen = MLFQ!CurrentEpoch
            /\ j.level = after.level /\ j.left = 0
        BY <3>6, LeftSet, EngineAssumption
      <4>2. job' = [job EXCEPT ![p] = j]
        BY <3>1, <3>7
      <4> HIDE DEF j
      <4>3. queues' = MLFQ!PushBack(MLFQ!Boosted, p, j.level)
        BY <3>1, <3>7, <4>1 DEF MLFQ!Requeued
      <4> QED BY <4>1, <4>2, <4>3
    <3>8. CASE after.level = before.level /\ after.left = 0
      <4>1. queues' = MLFQ!PushBack(MLFQ!Boosted, p, after.level)
        BY <3>1, <3>8 DEF MLFQ!Requeued
      <4>2. job' = [job EXCEPT ![p] = after]
        BY <3>1, <3>8
      <4> QED BY <3>6, <3>8, <4>1, <4>2
    <3>9. CASE after.level = before.level /\ after.left # 0
      <4>1. queues' = MLFQ!PushFront(MLFQ!Boosted, p, after.level)
        BY <3>1, <3>9 DEF MLFQ!Requeued
      <4>2. job' = [job EXCEPT ![p] = after]
        BY <3>1, <3>9
      <4>3. after.left > 0
        BY <3>6, <3>9 DEF MLFQ!Jobs
      <4> QED BY <3>6, <4>1, <4>2, <4>3
    <3> QED BY <3>7, <3>8, <3>9
  <2> QED BY <1>1, <2>1, <2>2 DEF MLFQ!SlicePreempted
<1>7. PICK j \in MLFQ!Jobs :
         /\ Within(j) /\ j.seen = MLFQ!CurrentEpoch /\ job' = [job EXCEPT ![p] = j]
         /\ \/ j.left = 0 /\ queues' = MLFQ!PushBack(MLFQ!Boosted, p, j.level)
            \/ j.left > 0 /\ queues' = MLFQ!PushFront(MLFQ!Boosted, p, j.level)
  BY <1>6
<1>8. InOrder(queues', [Seen EXCEPT ![p] = j]) /\ Members(queues') = Ready \cup {p}
  <2>1. p \in Procs \ Members(MLFQ!Boosted)
    BY <1>3, <1>4, <1>5
  <2>2. CASE j.left = 0
    <3>1. /\ InOrder(MLFQ!PushBack(MLFQ!Boosted, p, j.level), [Seen EXCEPT ![p] = j])
          /\ Members(MLFQ!PushBack(MLFQ!Boosted, p, j.level)) = Members(MLFQ!Boosted) \cup {p}
      BY <1>4, <2>1, <2>2, PushedBack
    <3> QED BY <1>4, <1>7, <2>2, <3>1
  <2>3. CASE j.left > 0
    <3>1. /\ InOrder(MLFQ!PushFront(MLFQ!Boosted, p, j.level), [Seen EXCEPT ![p] = j])
          /\ Members(MLFQ!PushFront(MLFQ!Boosted, p, j.level)) = Members(MLFQ!Boosted) \cup {p}
      BY <1>4, <2>1, <2>3, PushedFront
    <3> QED BY <1>4, <1>7, <2>3, <3>1
  <2> QED BY <1>7, <2>2, <2>3
<1>9. Ready' = Ready \cup {p}
  BY <1>8, ReadyIsNext
<1>10. Proofs!Next
  BY <1>1, <1>2, <1>9 DEF Proofs!Next, Proofs!SlicePreempted
<1>11. Proofs!Inv'
  BY <1>10, ProofsAssumptions, Proofs!NextInv
<1>12. now' = now /\ picks' = picks /\ stage' # "done"
  BY <1>2 DEF Proofs!Preempt, Proofs!EndRun, Proofs!SliceEnds
<1>13. MlfqInv'
  BY <1>2, <1>3, <1>7, <1>8, <1>9, <1>10, <1>11, <1>12, Handed
<1> QED BY <1>10, <1>13

LEMMA MlfqNextSlice ==
    ASSUME Proofs!Inv, MlfqInv, policy = "mlfq", policy' = policy, MLFQ!NextSlice
    PROVE  Proofs!Next /\ MlfqInv'
<1>1. PICK l \in MLFQ!Levels :
         /\ MLFQ!Boosted[l] # <<>>
         /\ LET p == Head(MLFQ!Boosted[l])
                granted == MLFQ!Grant(MLFQ!Synced(p), l)
            IN  /\ MLFQ!Pick(MLFQ!Slice(p, granted, MLFQ!BoostDeadline))
                /\ epoch' = MLFQ!CurrentEpoch
                /\ queues' = [MLFQ!Boosted EXCEPT ![l] = Tail(MLFQ!Boosted[l])]
                /\ job' = [job EXCEPT ![p] = [MLFQ!Synced(p) EXCEPT !.left = granted]]
  BY DEF MLFQ!NextSlice, MLFQ!HighestLevel
<1>2. PICK p : p = Head(MLFQ!Boosted[l])
  OBVIOUS
<1>3. PICK granted : granted = MLFQ!Grant(MLFQ!Synced(p), l)
  OBVIOUS
<1> DEFINE j == [MLFQ!Synced(p) EXCEPT !.left = granted]
           s == Proofs!Slice(p, granted, MLFQ!BoostDeadline)
<1>4. /\ Proofs!Pick(s) /\ epoch' = MLFQ!CurrentEpoch
      /\ queues' = [MLFQ!Boosted EXCEPT ![l] = Tail(MLFQ!Boosted[l])]
      /\ job' = [job EXCEPT ![p] = j]
  BY <1>1, <1>2, <1>3, MlfqEngine
<1>5. /\ Seen \in [Procs -> MLFQ!Jobs] /\ InOrder(MLFQ!Boosted, Seen)
      /\ Members(MLFQ!Boosted) = Ready
      /\ \A o \in Procs : /\ Seen[o] = MLFQ!Synced(o) /\ Within(Seen[o])
                          /\ Seen[o].seen = MLFQ!CurrentEpoch
  BY SyncedFacts, BoostedFacts
<1>6. p \in Procs /\ p \in Ready /\ Seen[p].level = l
  <2>1. PICK k \in MLFQ!Jobs : k = MLFQ!Fresh(MLFQ!CurrentEpoch)
    BY EpochFacts, FreshFacts
  <2> QED BY <1>1, <1>2, <1>5, <2>1, HeadTaken
<1>7. /\ MLFQ!Synced(p) \in MLFQ!Jobs /\ Within(MLFQ!Synced(p))
      /\ MLFQ!Synced(p).seen = MLFQ!CurrentEpoch /\ MLFQ!Synced(p).level = l
  BY <1>5, <1>6
<1>8. granted \in 1..MaxTime
  BY <1>3, <1>7, GrantFacts
<1>9. j \in MLFQ!Jobs /\ Within(j) /\ j.seen = MLFQ!CurrentEpoch /\ j.left = granted
  <2>1. granted \in 0..MaxTime
    BY <1>8, EngineAssumption
  <2> QED BY <1>7, <2>1, LeftSet
<1> HIDE DEF j
<1>10. /\ InOrder(queues', [Seen EXCEPT ![p] = j])
       /\ Members(queues') = Ready \ {p}
  <2>1. /\ InOrder(Replaced(MLFQ!Boosted, l, Tail(MLFQ!Boosted[l])), Replaced(Seen, p, j))
        /\ Members(Replaced(MLFQ!Boosted, l, Tail(MLFQ!Boosted[l]))) = Members(MLFQ!Boosted) \ {p}
    BY <1>1, <1>2, <1>5, <1>9, HeadTaken
  <2>2. queues' = Replaced(MLFQ!Boosted, l, Tail(MLFQ!Boosted[l]))
    BY <1>4 DEF Replaced
  <2> QED BY <1>5, <2>1, <2>2 DEF Replaced
<1>11. Ready' = Ready \ {p}
  BY <1>10, ReadyIsNext
<1>12. s \in Proofs!SlicesFor(p) /\ s.proc = p /\ s.length = granted
  <2>1. s \in Proofs!SlicesFor(p) /\ s.proc = p
    BY <1>8, AllowedSlice, BoostAhead
  <2> QED BY <2>1 DEF Proofs!Slice
<1>13. Proofs!NextSlice(s)
  BY <1>4, <1>11, <1>12 DEF Proofs!NextSlice
<1>14. Proofs!Next
  BY <1>6, <1>12, <1>13 DEF Proofs!Next
<1>15. now' = now /\ picks' = Append(picks, s)
  BY <1>4 DEF Proofs!Pick
<1> HIDE DEF s
<1>16. \A x \in Proofs!Granted' : job'[x[1]].left = x[2]
  <2> SUFFICES ASSUME NEW x \in Proofs!Granted' PROVE job'[x[1]].left = x[2]
    OBVIOUS
  <2>1. x \in Proofs!Granted \/ x = <<p, granted>>
    <3>1. CASE Proofs!Granted' \subseteq Proofs!Granted
      BY <3>1
    <3>2. CASE \E t \in Proofs!Slices :
                  /\ picks' = Append(picks, t)
                  /\ Proofs!Granted' = Proofs!Granted \cup {<<t.proc, t.length>>}
      <4>1. PICK t \in Proofs!Slices :
               /\ picks' = Append(picks, t)
               /\ Proofs!Granted' = Proofs!Granted \cup {<<t.proc, t.length>>}
        BY <3>2
      <4>2. picks \in Seq(Proofs!Slices)
        BY DEF Proofs!Inv, Proofs!TypeOK
      <4>3. t = s
        <5>1. /\ Append(picks, t)[Len(picks) + 1] = t
              /\ Append(picks, s)[Len(picks) + 1] = s
          BY <4>2
        <5> QED BY <1>15, <4>1, <5>1
      <4> QED BY <1>12, <4>1, <4>3
    <3> QED BY <1>14, <3>1, <3>2, ProofsAssumptions, Proofs!GrantedKept
  <2>2. job \in [Procs -> MLFQ!Jobs]
    BY DEF MlfqInv
  <2>3. CASE x \in Proofs!Granted
    <3>1. x[1] \in Proofs!Taken
      BY <2>3, ProofsAssumptions, Proofs!GrantedTaken
    <3>2. x[1] # p
      BY <1>6, <3>1 DEF Proofs!Inv, Proofs!OnePlace, Proofs!Taken
    <3>3. job[x[1]].left = x[2]
      BY <2>3 DEF MlfqInv
    <3> QED BY <1>4, <2>2, <3>2, <3>3
  <2>4. CASE x = <<p, granted>>
    <3>1. job'[p] = j
      BY <1>4, <1>6, <2>2
    <3> QED BY <1>9, <2>4, <3>1
  <2> QED BY <2>1, <2>3, <2>4
<1>17. MlfqInv'
  BY <1>4, <1>6, <1>9, <1>10, <1>15, <1>16, Hooked
<1> QED BY <1>14, <1>17

\* next_slice finds no level with a job only if no job is queued
LEMMA NoLevel == MLFQ!HighestLevel = {} => \A l \in MLFQ!Levels : MLFQ!Boosted[l] = <<>>
<1> DEFINE B == {l \in MLFQ!Levels : MLFQ!Boosted[l] # <<>>}
<1> SUFFICES ASSUME B # {} PROVE MLFQ!HighestLevel # {}
  OBVIOUS
<1>1. B \in SUBSET (1..NumLevels) /\ NumLevels \in Nat
  BY LevelFacts
<1>2. \A l \in B : l \in MLFQ!Levels /\ l \in 1..NumLevels /\ MLFQ!Boosted[l] # <<>>
  BY <1>1
<1>3. \A l \in MLFQ!Levels \ B : MLFQ!Boosted[l] = <<>>
  OBVIOUS
<1> HIDE DEF B
<1>4. PICK m \in B : \A k \in B : m <= k
  BY <1>1, LeastNumber
<1>5. \A k \in 1..(m - 1) : k \in MLFQ!Levels \ B
  BY <1>2, <1>4, LevelFacts
<1>6. \A k \in 1..(m - 1) : MLFQ!Boosted[k] = <<>>
  BY <1>3, <1>5
<1> QED BY <1>2, <1>4, <1>6 DEF MLFQ!HighestLevel

LEMMA MlfqStopPicking ==
    ASSUME Proofs!Inv, MlfqInv, policy = "mlfq", policy' = policy, MLFQ!StopPicking
    PROVE  Proofs!Next /\ MlfqInv'
<1>1. Proofs!PicksDone
  BY MlfqEngine DEF MLFQ!StopPicking
<1>2. now' = now /\ picks' = picks
  BY <1>1 DEF Proofs!PicksDone
<1>3. CASE ~MLFQ!WantsPick /\ UNCHANGED MLFQ!mlfqVars
  <2>1. Ready' = Ready
    BY <1>3, ReadyIs, ReadyIsNext DEF MLFQ!mlfqVars
  <2>2. Proofs!Next
    BY <1>1, <1>3, <2>1, MlfqEngine DEF Proofs!Next, Proofs!StopPicking
  <2>3. Proofs!Inv'
    BY <2>2, ProofsAssumptions, Proofs!NextInv
  <2>4. now <= now'
    BY <1>2, EpochFacts
  <2> QED BY <1>2, <1>3, <2>2, <2>3, <2>4, QuietGrants, Unhooked
<1>4. CASE /\ MLFQ!WantsPick /\ MLFQ!HighestLevel = {} /\ epoch' = MLFQ!CurrentEpoch
           /\ queues' = MLFQ!Boosted /\ UNCHANGED job
  <2>1. /\ Seen \in [Procs -> MLFQ!Jobs] /\ InOrder(MLFQ!Boosted, Seen)
        /\ Members(MLFQ!Boosted) = Ready
    BY SyncedFacts, BoostedFacts
  <2>2. Ready = {}
    <3>1. ToSet(<<>>) = {}
      BY DEF ToSet
    <3> QED BY <1>4, <2>1, <3>1, NoLevel DEF Members
  <2>3. Ready' = Ready
    BY <1>4, <2>1, ReadyIsNext
  <2>4. Proofs!Next
    BY <1>1, <2>2, <2>3 DEF Proofs!Next, Proofs!StopPicking, Proofs!MayDecline
  <2>5. MLFQ!CurrentEpoch' = MLFQ!CurrentEpoch /\ MLFQ!CurrentEpoch \in Nat
    BY <1>2, EpochFacts DEF MLFQ!CurrentEpoch
  <2>6. [o \in Procs |-> MLFQ!Settled(o)]' = Seen
    BY <1>4 DEF Seen, MLFQ!Settled, MLFQ!Synced, MLFQ!WasReset, MLFQ!Fresh
  <2>7. InOrder(queues, [o \in Procs |-> MLFQ!Settled(o)])'
    BY <1>4, <2>1, <2>6 DEF InOrder, InLine
  <2>8. \A o \in Procs : Within(job'[o]) /\ job'[o].seen <= epoch'
    <3>1. \A o \in Procs : /\ Within(job[o]) /\ job[o].seen <= epoch /\ job[o].seen \in Nat
                           /\ epoch \in Nat /\ epoch <= MLFQ!CurrentEpoch
      BY DEF MlfqInv, MLFQ!Jobs
    <3> QED BY <1>4, <2>5, <3>1
  <2>9. \A x \in Proofs!Granted' : job'[x[1]].left = x[2]
    BY <1>2, <1>4, <2>4, QuietGrants DEF MlfqInv
  <2>10. MlfqInv'
    BY <1>4, <2>5, <2>7, <2>8, <2>9 DEF MlfqInv, Within
  <2> QED BY <2>4, <2>10
<1> QED BY <1>3, <1>4 DEF MLFQ!StopPicking

LEMMA MlfqStep ==
    ASSUME Proofs!Inv, MlfqInv, policy = "mlfq", policy' = policy, MLFQ!Next
    PROVE  Proofs!Next /\ MlfqInv'
<1>1. CASE \E p \in Procs : MLFQ!Arrive(p) \/ MLFQ!BecomeReady(p)
  BY <1>1, MlfqArrive, MlfqReady
<1>2. CASE \E c \in MLFQ!Cores :
              MLFQ!SliceCompletes(c) \/ MLFQ!SliceBlocks(c) \/ MLFQ!SlicePreempted(c)
  <2>1. PICK c \in Proofs!Cores :
           MLFQ!SliceCompletes(c) \/ MLFQ!SliceBlocks(c) \/ MLFQ!SlicePreempted(c)
    BY <1>2 DEF MLFQ!Cores, Proofs!Cores
  <2>2. CASE MLFQ!SliceCompletes(c)
    <3>1. Proofs!Complete(c) /\ UNCHANGED MLFQ!mlfqVars
      BY <2>2, MlfqEngine DEF MLFQ!SliceCompletes
    <3>2. Ready' = Ready
      BY <3>1, ReadyIs, ReadyIsNext DEF MLFQ!mlfqVars
    <3>3. Proofs!Next
      BY <3>1, <3>2 DEF Proofs!Next, Proofs!SliceCompletes
    <3>4. Proofs!Inv'
      BY <3>3, ProofsAssumptions, Proofs!NextInv
    <3>5. now' = now /\ picks' = picks
      BY <3>1 DEF Proofs!Complete, Proofs!EndRun
    <3>6. now <= now'
      BY <3>5, EpochFacts
    <3> QED BY <3>1, <3>3, <3>4, <3>5, <3>6, QuietGrants, Unhooked
  <2> QED BY <2>1, <2>2, MlfqBlock, MlfqPreempt
<1>3. CASE MLFQ!NextSlice
  BY <1>3, MlfqNextSlice
<1>4. CASE MLFQ!StopPicking
  BY <1>4, MlfqStopPicking
<1>5. CASE MLFQ!EngineStep /\ UNCHANGED MLFQ!mlfqVars
  <2>1. Ready' = Ready
    BY <1>5, ReadyIs, ReadyIsNext DEF MLFQ!mlfqVars
  <2>2. Proofs!EngineStep /\ Proofs!Next
    BY <1>5, <2>1, MlfqEngine DEF Proofs!Next
  <2>3. Proofs!Inv'
    BY <2>2, ProofsAssumptions, Proofs!NextInv
  <2>4. now <= now'
    <3>1. CASE Proofs!Advance
      <4>1. now' > now /\ now' \in Nat
        BY <3>1, ProofsAssumptions, Proofs!AdvanceFacts DEF Proofs!Times
      <4> QED BY <4>1, EpochFacts
    <3>2. CASE ~Proofs!Advance
      BY <2>2, <3>2, EpochFacts, ProofsAssumptions, Proofs!ClockKept
    <3> QED BY <3>1, <3>2
  <2>5. Proofs!Granted' \subseteq Proofs!Granted
    BY <2>2, ProofsAssumptions, Proofs!EngineGranted
  <2> QED BY <1>5, <2>2, <2>3, <2>4, <2>5, Unhooked
<1> QED BY <1>1, <1>2, <1>3, <1>4, <1>5 DEF MLFQ!Next

-----------------------------------------------------------------------------
(* The refinement *)

IInv == Proofs!Inv /\ PrioPInv /\ MlfqInv /\ policy \in {"srtf", "mlfq", "prio-p"}

LEMMA NothingGranted == ASSUME Proofs!Init PROVE Proofs!Granted = {}
<1>1. \A c \in Proofs!Cores : core[c].proc = None
  BY DEF Proofs!Init, Proofs!EngineInit, Proofs!FreshCore
<1>2. Proofs!Busy = {}
  BY <1>1 DEF Proofs!Busy, Proofs!Free
<1>3. picks = <<>>
  BY DEF Proofs!Init, Proofs!EngineInit
<1> QED BY <1>2, <1>3 DEF Proofs!Granted

LEMMA MlfqInit == ASSUME policy = "mlfq", Init PROVE Proofs!Init /\ MlfqInv
<1>1. /\ MLFQ!EngineInit /\ epoch = MLFQ!CurrentEpoch
      /\ queues = [l \in MLFQ!Levels |-> <<>>]
      /\ job = [p \in Procs |-> MLFQ!Fresh(MLFQ!CurrentEpoch)]
  BY DEF Init, MLFQ!Init
<1>2. ToSet(<<>>) = {}
  BY DEF ToSet
<1>3. Ready = {}
  BY <1>1, <1>2, ReadyIs DEF Members
<1>4. WorkloadsOf["mlfq"] \subseteq Workloads
  BY RedecidedAssumption DEF Init
<1>5. Proofs!Init
  BY <1>1, <1>3, <1>4, MlfqEngine DEF Proofs!Init
<1>6. MLFQ!CurrentEpoch \in Nat
  BY <1>5, Proofs!InitInv, ProofsAssumptions, EpochFacts
<1>7. \A p \in Procs : /\ job[p] \in MLFQ!Jobs /\ Within(job[p]) /\ job[p].seen = epoch
  BY <1>1, <1>6, FreshFacts
<1>8. job \in [Procs -> MLFQ!Jobs]
  BY <1>1, <1>6, FreshFacts
<1>9. InOrder(queues, [p \in Procs |-> MLFQ!Settled(p)])
  <2>1. \A s, l : InLine(<<>>, s, l)
    BY DEF InLine, IsInjective, ToSet
  <2>2. queues \in [MLFQ!Levels -> Seq(Procs)] /\ \A l \in MLFQ!Levels : queues[l] = <<>>
    BY <1>1
  <2> QED BY <2>1, <2>2 DEF InOrder
<1> QED
  BY <1>1, <1>5, <1>6, <1>7, <1>8, <1>9, NothingGranted DEF MlfqInv

LEMMA RefinementInit == ASSUME Init PROVE Proofs!Init /\ IInv
<1>1. \A name \in DOMAIN WorkloadsOf : WorkloadsOf[name] \subseteq Workloads
  BY RedecidedAssumption
<1>2. CASE policy = "srtf"
  <2>1. SRTF!EngineInit /\ ready = {}
    BY <1>2 DEF Init, SRTF!Init
  <2>2. Proofs!Init
    BY <1>1, <1>2, <2>1, SrtfEngine DEF Init, Proofs!Init, Ready
  <2> QED BY <1>2, <2>2, Proofs!InitInv, ProofsAssumptions DEF IInv, PrioPInv, MlfqInv
<1>3. CASE policy = "mlfq"
  <2>1. Proofs!Init /\ MlfqInv
    BY <1>3, MlfqInit
  <2> QED BY <1>3, <2>1, Proofs!InitInv, ProofsAssumptions DEF IInv, PrioPInv
<1>4. CASE policy = "prio-p"
  <2>1. /\ PrioP!EngineInit /\ ready = {} /\ waited = NoAging /\ base = NoAging /\ r = NoAging
        /\ readySince = NoAging
    BY <1>4 DEF Init, PrioP!Init, NoAging
  <2>2. Proofs!Init
    BY <1>1, <1>4, <2>1, PrioPEngine DEF Init, Proofs!Init, Ready
  <2>3. w \in WorkloadsOf["prio-p"] /\ "prio-p" \in DOMAIN WorkloadsOf
    BY <1>4, <2>1 DEF Init, PrioP!EngineInit
  <2>4. w.priority \in [Procs -> Int]
    BY <2>3, RedecidedAssumption
  <2>5. PrioPInv
    BY <2>1, <2>4 DEF PrioPInv, NoAging
  <2> QED BY <1>4, <2>2, <2>5, Proofs!InitInv, ProofsAssumptions DEF IInv, MlfqInv
<1> QED BY <1>2, <1>3, <1>4 DEF Init

LEMMA RefinementStep ==
    ASSUME IInv, [Next]_vars PROVE [Proofs!Next]_(Proofs!vars) /\ IInv'
<1>1. CASE UNCHANGED vars
  <2>1. UNCHANGED <<ready, policy, epoch, queues, job>> /\ UNCHANGED engineVars
        /\ UNCHANGED agingVars
    BY <1>1 DEF vars, mlfqVars
  <2>2. UNCHANGED Ready
    BY <2>1, ReadyIs, ReadyIsNext DEF Ready
  <2>3. UNCHANGED Proofs!vars
    BY <2>1, <2>2 DEF Proofs!vars, Proofs!engineVars, engineVars, Proofs!procVars, procVars,
                      Proofs!resultVars, resultVars
  <2>4. Proofs!Inv'
    BY <2>3, Proofs!NextInv, ProofsAssumptions DEF IInv
  <2>5. PrioPInv'
    BY <2>1 DEF IInv, PrioPInv, agingVars, engineVars
  <2>6. MlfqInv'
    <3>1. CASE policy = "mlfq"
      <4>1. now' = now /\ UNCHANGED <<picks, core>> /\ UNCHANGED MLFQ!mlfqVars
        BY <2>1 DEF engineVars, MLFQ!mlfqVars
      <4>2. now <= now'
        BY <4>1, EpochFacts DEF IInv
      <4>3. Proofs!Granted' \subseteq Proofs!Granted
        BY <4>1 DEF Proofs!Granted, Proofs!Busy, Proofs!Free
      <4> QED BY <2>4, <3>1, <4>1, <4>2, <4>3, Unhooked DEF IInv
    <3>2. CASE policy # "mlfq"
      BY <2>1, <3>2 DEF MlfqInv
    <3> QED BY <3>1, <3>2
  <2> QED BY <2>1, <2>3, <2>4, <2>5, <2>6 DEF IInv
<1>2. CASE Next
  <2>1. policy' = policy
    BY <1>2 DEF Next
  <2>2. Proofs!Next /\ PrioPInv' /\ MlfqInv'
    <3>1. CASE policy = "srtf"
      <4>1. SRTF!Next
        BY <1>2, <3>1 DEF Next
      <4> QED BY <2>1, <3>1, <4>1, SrtfStep DEF IInv, PrioPInv, MlfqInv
    <3>2. CASE policy = "mlfq"
      <4>1. MLFQ!Next
        BY <1>2, <3>2 DEF Next
      <4>2. Proofs!Next /\ MlfqInv'
        BY <2>1, <3>2, <4>1, MlfqStep DEF IInv
      <4> QED BY <2>1, <3>2, <4>2 DEF PrioPInv
    <3>3. CASE policy = "prio-p"
      <4>1. PrioP!Next
        BY <1>2, <3>3 DEF Next
      <4>2. Proofs!Next /\ PrioPInv'
        BY <2>1, <3>3, <4>1, PrioPStep DEF IInv
      <4> QED BY <2>1, <3>3, <4>2 DEF MlfqInv
    <3> QED BY <3>1, <3>2, <3>3 DEF IInv
  <2>3. Proofs!Inv'
    BY <2>2, Proofs!NextInv, ProofsAssumptions DEF IInv
  <2> QED BY <2>1, <2>2, <2>3 DEF IInv
<1> QED BY <1>1, <1>2

(* Under srtf, mlfq and prio-p every initial state is one of AnyPolicy and *)
(* every step is one of its steps, the jobs of mlfq's queues standing for  *)
(* its ready set: whatever the boosts splice and the hooks push to a front *)
(* or a back, no job is lost or queued twice, every slice covers at least  *)
(* a tick, every deadline lies ahead, and no policy declines while a       *)
(* process is ready (srtf.c, mlfq.c, priority.c).                          *)
THEOREM ImplementsAnyPolicy == Spec => Abstract!Spec
<1>1. Init => Abstract!Init /\ IInv
  BY RefinementInit, ProofsOfAbstract
<1>2. IInv /\ [Next]_vars => [Abstract!Next]_(Abstract!vars) /\ IInv'
  <2>1. Abstract!vars = Proofs!vars /\ Abstract!vars' = Proofs!vars'
    BY DEF Abstract!vars, Proofs!vars, Abstract!engineVars, Proofs!engineVars,
           Abstract!procVars, Proofs!procVars, Abstract!resultVars, Proofs!resultVars
  <2> QED
    BY <2>1, RefinementStep, ProofsOfAbstract
<1> QED
  BY <1>1, <1>2, PTL DEF Spec, Abstract!Spec

(* So their runs have what is proved of AnyPolicy: no process is lost or   *)
(* held twice between the policy and the engine, the timelines touch and   *)
(* lie on the clock, what the hooks are told is what was granted, and no   *)
(* time overflows; a finished schedule serves every process exactly,       *)
(* leaves no core idle while one waits, and accounts for its switches.     *)
THEOREM EngineGuarantees ==
    Spec => []/\ Proofs!OnePlace /\ Proofs!RanWithinSlice
              /\ Proofs!TimelinesContiguous /\ Proofs!OverflowUnreachable
              /\ Proofs!ServedExactly /\ Proofs!NoIdleWhileReady /\ Proofs!SwitchesAccounted
<1>1. Init => Proofs!Init /\ IInv
  BY RefinementInit
<1>2. IInv /\ [Next]_vars => [Proofs!Next]_(Proofs!vars) /\ IInv'
  BY RefinementStep
<1>3. Spec => Proofs!Spec
  BY <1>1, <1>2, PTL DEF Spec, Proofs!Spec
<1>4. Proofs!Spec => []Proofs!OnePlace /\ []Proofs!RanWithinSlice
  BY ProofsAssumptions, Proofs!OnePlaceHolds, Proofs!RanWithinSliceHolds
<1>5. Proofs!Spec => []Proofs!TimelinesContiguous /\ []Proofs!OverflowUnreachable
  BY ProofsAssumptions, Proofs!TimelinesContiguousHolds, Proofs!OverflowUnreachableHolds
<1>6. Proofs!Spec => []Proofs!ServedExactly
  BY ProofsAssumptions, Proofs!ServedExactlyHolds
<1>7. Proofs!Spec => []Proofs!NoIdleWhileReady /\ []Proofs!SwitchesAccounted
  BY ProofsAssumptions, Proofs!NoIdleWhileReadyHolds, Proofs!SwitchesAccountedHolds
<1> QED
  BY <1>3, <1>4, <1>5, <1>6, <1>7, PTL

(* "every heap key is constant while it sits there" (srtf.c:6): what a key *)
(* is made of belongs to the engine, which changes it only while the       *)
(* process is on a core, and then the process is not in the heap.          *)
THEOREM KeysConstantHolds == Spec => KeysConstant
<1>1. Init => IInv
  BY RefinementInit
<1>2. IInv /\ [Next]_vars => IInv'
  BY RefinementStep
<1>3. IInv /\ [Next]_vars => [policy = "srtf" => SRTF!KeysKept]_vars
  <2> SUFFICES ASSUME IInv, [Next]_vars, policy = "srtf", NEW p \in ready \cap ready'
               PROVE  SRTF!Key(p)' = SRTF!Key(p)
    BY DEF SRTF!KeysKept
  <2>1. [Proofs!Next]_(Proofs!vars) /\ Proofs!Inv
    BY RefinementStep DEF IInv
  <2>2. p \in Procs \ Proofs!OnCore
    BY <2>1 DEF Ready, Proofs!Inv, Proofs!TypeOK, Proofs!OnePlace
  <2>3. remaining'[p] = remaining[p] /\ phase'[p] = phase[p] /\ predicted'[p] = predicted[p]
    BY <2>1, <2>2, ProofsAssumptions, Proofs!OffCoreKept
  <2>4. w' = w
    BY <2>1, ProofsAssumptions, Proofs!WorkloadKept
  <2> QED
    BY <2>3, <2>4 DEF SRTF!Key, SRTF!ExpectedRemaining, SRTF!ExpectedBurst, SRTF!BurstLen
<1> QED
  BY <1>1, <1>2, <1>3, PTL DEF Spec, KeysConstant

(* A job of mlfq sits, once, in the queue of the level that sync() will    *)
(* give it, whatever boosts it has slept through, and ahead of the jobs    *)
(* with a fresh slice if it was interrupted in mid-slice (mlfq.c:16-18,    *)
(* 149-158).                                                               *)
THEOREM QueuesMatchJobsHolds == Spec => []QueuesMatchJobs
<1>1. Init => IInv
  BY RefinementInit
<1>2. IInv /\ [Next]_vars => IInv'
  BY RefinementStep
<1>3. IInv => QueuesMatchJobs
  <2> SUFFICES ASSUME IInv, policy = "mlfq" PROVE MLFQ!TypeOK /\ MLFQ!InterruptedKeepTurn
    BY DEF QueuesMatchJobs
  <2> DEFINE s == [p \in Procs |-> MLFQ!Settled(p)]
  <2>1. /\ epoch \in Nat /\ job \in [Procs -> MLFQ!Jobs] /\ InOrder(queues, s)
    BY DEF IInv, MlfqInv
  <2>2. \A p \in Procs : s[p] = MLFQ!Settled(p)
    OBVIOUS
  <2> HIDE DEF s
  <2>3. ASSUME NEW l \in MLFQ!Levels
        PROVE  /\ IsInjective(queues[l])
               /\ \A i \in DOMAIN queues[l] : queues[l][i] \in Procs
               /\ \A p \in ToSet(queues[l]) : MLFQ!Settled(p).level = l
               /\ \A i, j \in DOMAIN queues[l] :
                    i < j /\ MLFQ!Settled(queues[l][j]).left > 0
                      => MLFQ!Settled(queues[l][i]).left > 0
    <3>1. InLine(queues[l], s, l)
      BY <2>1 DEF InOrder
    <3>2. \A i \in DOMAIN queues[l] : queues[l][i] \in Procs
      BY <3>1 DEF InLine
    <3>3. \A p \in ToSet(queues[l]) : p \in Procs
      BY <3>2 DEF ToSet
    <3> QED BY <2>2, <3>1, <3>2, <3>3 DEF InLine
  <2>4. MLFQ!TypeOK
    BY <2>1, <2>3 DEF MLFQ!TypeOK, MLFQ!IsInjective, IsInjective, MLFQ!ToSet, ToSet, InOrder
  <2>5. MLFQ!InterruptedKeepTurn
    BY <2>3 DEF MLFQ!InterruptedKeepTurn
  <2> QED BY <2>4, <2>5
<1> QED
  BY <1>1, <1>2, <1>3, PTL DEF Spec

-----------------------------------------------------------------------------
(* Who runs while somebody waits, if switches cost nothing                 *)

\* what dispatch has chosen, and what runs, is not worse than what waits
SrtfRank ==
    policy = "srtf" /\ stage # "done" =>
        /\ \A q \in Proofs!Picked, p \in ready :
             SRTF!ExpectedRemaining(q) <= SRTF!ExpectedRemaining(p)
        /\ \A c \in Proofs!Cores, p \in ready :
             <<c, p>> \in Proofs!Facing => SRTF!RunningKey(c) <= SRTF!ExpectedRemaining(p)
MlfqRank ==
    policy = "mlfq" /\ stage # "done" =>
        /\ \A q \in Proofs!Picked, p \in Ready : MLFQ!Synced(q).level <= MLFQ!Synced(p).level
        /\ \A c \in Proofs!Cores, q \in Procs, p \in Ready :
             <<c, p>> \in Proofs!Facing /\ core[c].proc = q =>
                 MLFQ!Synced(q).level <= MLFQ!Synced(p).level

LEMMA SamePick ==
    ASSUME NEW S, NEW x \in Seq(S), NEW s, NEW t, Append(x, s) = Append(x, t)
    PROVE  s = t
<1>1. Append(x, s)[Len(x) + 1] = s
  OBVIOUS
<1>2. Append(x, t)[Len(x) + 1] = t
  OBVIOUS
<1> QED BY <1>1, <1>2, Zenon

\* only next_slice adds a pick
LEMMA SrtfPicks ==
    ASSUME SRTF!Next, NEW s, Proofs!Pick(s), picks \in Seq(Proofs!Slices)
    PROVE  SRTF!NextSlice
<1>1. stage = "picks" /\ stage' = "picks" /\ picks' = Append(picks, s)
  BY DEF Proofs!Pick, Proofs!WantsPick
<1>2. picks' # picks
  BY <1>1
<1>3. ~\E p \in Procs : SRTF!Arrive(p) \/ SRTF!BecomeReady(p)
  BY <1>1 DEF SRTF!Arrive, SRTF!BecomeReady, SRTF!Admit, SRTF!WakeUp
<1>4. ~\E c \in SRTF!Cores : SRTF!SliceCompletes(c) \/ SRTF!SliceBlocks(c) \/ SRTF!SlicePreempted(c)
  BY <1>1 DEF SRTF!SliceCompletes, SRTF!SliceBlocks, SRTF!SlicePreempted, SRTF!Complete,
     SRTF!Block, SRTF!Preempt, SRTF!EndRun, SRTF!SliceEnds
<1>5. ~SRTF!StopPicking
  BY <1>1 DEF SRTF!StopPicking, SRTF!PicksDone
<1>6. ~SRTF!EngineStep
  BY <1>1, <1>2 DEF SRTF!EngineStep, SRTF!Create, SRTF!Reject, SRTF!ArrivalsDone,
     SRTF!WakeupsDone, SRTF!EndsDone, SRTF!SwitchIn, SRTF!SwitchInsDone, SRTF!InstantDone,
     SRTF!Place, SRTF!PlacesDone, SRTF!Advance, SRTF!CloseTimeline, SRTF!Return,
     SRTF!Terminated, SRTF!engineVars
<1> QED BY <1>3, <1>4, <1>5, <1>6 DEF SRTF!Next

LEMMA MlfqPicks ==
    ASSUME MLFQ!Next, NEW s, Proofs!Pick(s), picks \in Seq(Proofs!Slices)
    PROVE  MLFQ!NextSlice
<1>1. stage = "picks" /\ stage' = "picks" /\ picks' = Append(picks, s)
  BY DEF Proofs!Pick, Proofs!WantsPick
<1>2. picks' # picks
  BY <1>1
<1>3. ~\E p \in Procs : MLFQ!Arrive(p) \/ MLFQ!BecomeReady(p)
  BY <1>1 DEF MLFQ!Arrive, MLFQ!BecomeReady, MLFQ!Admit, MLFQ!WakeUp
<1>4. ~\E c \in MLFQ!Cores : MLFQ!SliceCompletes(c) \/ MLFQ!SliceBlocks(c) \/ MLFQ!SlicePreempted(c)
  BY <1>1 DEF MLFQ!SliceCompletes, MLFQ!SliceBlocks, MLFQ!SlicePreempted, MLFQ!Complete,
     MLFQ!Block, MLFQ!Preempt, MLFQ!EndRun, MLFQ!SliceEnds
<1>5. ~MLFQ!StopPicking
  BY <1>1 DEF MLFQ!StopPicking, MLFQ!PicksDone
<1>6. ~MLFQ!EngineStep
  BY <1>1, <1>2 DEF MLFQ!EngineStep, MLFQ!Create, MLFQ!Reject, MLFQ!ArrivalsDone,
     MLFQ!WakeupsDone, MLFQ!EndsDone, MLFQ!SwitchIn, MLFQ!SwitchInsDone, MLFQ!InstantDone,
     MLFQ!Place, MLFQ!PlacesDone, MLFQ!Advance, MLFQ!CloseTimeline, MLFQ!Return,
     MLFQ!Terminated, MLFQ!engineVars
<1> QED BY <1>3, <1>4, <1>5, <1>6 DEF MLFQ!Next

\* the key of a process is a number as long as it has a burst
LEMMA SrtfKeyType ==
    ASSUME Proofs!Inv, NEW p \in Procs
    PROVE  /\ SRTF!BurstLen(p) \in Int /\ SRTF!ExpectedBurst(p) \in Int
           /\ remaining[p] \in Int /\ SRTF!ExpectedRemaining(p) \in Int
<1>1. Proofs!BurstLen(p) \in Int /\ predicted[p] \in Int /\ remaining[p] \in Int
  BY BurstType DEF Proofs!Inv, Proofs!TypeOK, Proofs!Times
<1>2. SRTF!BurstLen(p) \in Int /\ SRTF!ExpectedBurst(p) \in Int
  BY <1>1 DEF SRTF!ExpectedBurst, SRTF!BurstLen, Proofs!BurstLen
<1>3. SRTF!ExpectedRemaining(p) \in Int
  BY <1>1, <1>2 DEF SRTF!ExpectedRemaining
<1> QED BY <1>1, <1>2, <1>3

LEMMA SrtfKeyKept ==
    ASSUME NEW p, remaining'[p] = remaining[p], phase'[p] = phase[p],
           predicted'[p] = predicted[p], w' = w
    PROVE  /\ SRTF!ExpectedRemaining(p)' = SRTF!ExpectedRemaining(p)
           /\ SRTF!BurstLen(p)' = SRTF!BurstLen(p)
           /\ SRTF!ExpectedBurst(p)' = SRTF!ExpectedBurst(p)
BY DEF SRTF!ExpectedRemaining, SRTF!ExpectedBurst, SRTF!BurstLen

LEMMA SrtfRankStep ==
    ASSUME CsCost = 0, Proofs!Inv, Proofs!Inv', Proofs!FreeInv, SrtfRank, policy = "srtf",
           policy' = policy, SRTF!Next
    PROVE  SrtfRank'
<1> SUFFICES ASSUME stage' # "done" PROVE SrtfRank'
  BY DEF SrtfRank
<1>1. Ready = ready /\ Ready' = ready'
  BY DEF Ready
<1>2. Proofs!Next /\ w' = w
  BY SrtfStep, ProofsAssumptions, Proofs!WorkloadKept
<1>3. PreemptOnReady
  BY RedecidedAssumption
<1>4. stage # "done"
  BY <1>2, ProofsAssumptions, Proofs!DoneStays
<1>5. ASSUME NEW p \in ready \cup Proofs!Picked
      PROVE  /\ p \in Procs /\ SRTF!ExpectedRemaining(p)' = SRTF!ExpectedRemaining(p)
             /\ SRTF!ExpectedRemaining(p) \in Int
             /\ SRTF!BurstLen(p)' = SRTF!BurstLen(p) /\ remaining'[p] = remaining[p]
             /\ SRTF!ExpectedBurst(p)' = SRTF!ExpectedBurst(p)
  <2>1. p \in Procs \ Proofs!OnCore
    BY <1>1, ProofsAssumptions, Proofs!TakenType DEF Proofs!Taken, Proofs!Inv, Proofs!TypeOK,
       Proofs!OnePlace
  <2>2. remaining'[p] = remaining[p] /\ phase'[p] = phase[p] /\ predicted'[p] = predicted[p]
    BY <1>2, <2>1, ProofsAssumptions, Proofs!OffCoreKept
  <2> QED BY <1>2, <2>1, <2>2, SrtfKeyKept, SrtfKeyType
<1>6. ASSUME NEW q \in Proofs!Picked', NEW p \in ready'
      PROVE  SRTF!ExpectedRemaining(q)' <= SRTF!ExpectedRemaining(p)'
  <2>0. PICK i \in DOMAIN picks' : q = picks'[i].proc
    BY DEF Proofs!Picked
  <2>1. /\ p \in ready
        /\ \/ \E j \in DOMAIN picks : picks'[i] = picks[j]
           \/ \E s : Proofs!NextSlice(s) /\ picks'[i] = s
    BY <1>1, <1>2, ProofsAssumptions, Proofs!ChosenStep
  <2>3. CASE \E j \in DOMAIN picks : picks'[i] = picks[j]
    <3>1. q \in Proofs!Picked
      BY <2>0, <2>3 DEF Proofs!Picked
    <3>2. SRTF!ExpectedRemaining(q) <= SRTF!ExpectedRemaining(p)
      BY <1>4, <2>1, <3>1 DEF SrtfRank
    <3> QED BY <1>5, <2>1, <3>1, <3>2
  <2>4. CASE \E s : Proofs!NextSlice(s) /\ picks'[i] = s
    <3>1. PICK s : Proofs!NextSlice(s) /\ picks'[i] = s
      BY <2>4
    <3>2. SRTF!NextSlice /\ picks' = Append(picks, s)
      BY <3>1, SrtfPicks DEF Proofs!NextSlice, Proofs!Pick, Proofs!Inv, Proofs!TypeOK
    <3>3. PICK m : m = SRTF!Least(ready)
      OBVIOUS
    <3>4. PICK t : t = Proofs!Slice(m, SRTF!LengthOf(m), Proofs!NoDeadline)
      OBVIOUS
    <3>5. ready # {} /\ ready' = ready \ {m} /\ picks' = Append(picks, t)
      BY <3>2, <3>3, <3>4, SrtfEngine DEF SRTF!NextSlice, Proofs!Pick
    <3>6. s = t
      BY <3>2, <3>5, SamePick DEF Proofs!Inv, Proofs!TypeOK
    <3>7. q = m
      BY <2>0, <3>1, <3>4, <3>6 DEF Proofs!Slice
    <3>8. m \in ready /\ SRTF!ExpectedRemaining(m) <= SRTF!ExpectedRemaining(p)
      BY <1>1, <2>1, <3>3, <3>5, SrtfLeast DEF Proofs!Inv, Proofs!TypeOK
    <3> QED BY <1>5, <2>1, <3>7, <3>8
  <2> QED BY <2>1, <2>3, <2>4
<1>7. ASSUME NEW c, NEW p, <<c, p>> \in Proofs!Facing'
      PROVE  SRTF!RunningKey(c)' <= SRTF!ExpectedRemaining(p)'
  <2>1. /\ c \in Proofs!Cores /\ p \in ready
        /\ \/ <<c, p>> \in Proofs!Facing /\ core'[c] = core[c]
           \/ /\ stage = "place" /\ now' = now
              /\ \E i \in DOMAIN picks : core'[c].proc = picks[i].proc
                                         /\ core'[c].runStart = now
                                         /\ core'[c].deadline = picks[i].deadline
    BY <1>1, <1>2, <1>3, <1>7, ProofsAssumptions, Proofs!FacingStep
  <2>2. PICK q : q = core'[c].proc
    OBVIOUS
  <2>3. CASE <<c, p>> \in Proofs!Facing /\ core'[c] = core[c]
    <3>1. SRTF!RunningKey(c) <= SRTF!ExpectedRemaining(p)
      BY <1>4, <2>1, <2>3 DEF SrtfRank
    <3>2. c \in Proofs!Busy
      BY <2>3 DEF Proofs!Facing
    <3>3. /\ q = core[c].proc /\ q \in Procs /\ remaining'[q] = remaining[q]
          /\ phase'[q] = phase[q] /\ predicted'[q] = predicted[q]
      BY <1>2, <2>2, <2>3, <3>2, ProofsAssumptions, Proofs!StayingKept
    <3>4. SRTF!BurstLen(q)' = SRTF!BurstLen(q) /\ SRTF!ExpectedBurst(q)' = SRTF!ExpectedBurst(q)
      BY <1>2, <3>3, SrtfKeyKept
    <3>5. /\ SRTF!BurstLen(q) \in Int /\ SRTF!ExpectedBurst(q) \in Int /\ remaining[q] \in Int
          /\ SRTF!ExpectedRemaining(p) \in Int
      BY <1>5, <2>1, <3>3, SrtfKeyType
    <3>6. now <= now' /\ now \in Nat /\ now' \in Nat
      BY <1>2, ProofsAssumptions, Proofs!NeverBack
    <3>7. core[c].runStart \in Int
      BY <2>1 DEF Proofs!Inv, Proofs!TypeOK, Proofs!CoreStructs, Proofs!Times
    <3>8. SRTF!RunningKey(c) = LET ran == SRTF!BurstLen(q) - remaining[q] + now - core[c].runStart
                               IN IF ran > SRTF!ExpectedBurst(q) THEN 0
                                  ELSE SRTF!ExpectedBurst(q) - ran
      BY <3>3 DEF SRTF!RunningKey
    <3>9. SRTF!RunningKey(c)' =
              LET ran == SRTF!BurstLen(q) - remaining[q] + now' - core[c].runStart
              IN IF ran > SRTF!ExpectedBurst(q) THEN 0 ELSE SRTF!ExpectedBurst(q) - ran
      <4>1. SRTF!RunningKey(c)' =
              LET ran == (SRTF!BurstLen(core[c].proc) - remaining[core[c].proc])'
                         + now' - core'[c].runStart
              IN IF ran > SRTF!ExpectedBurst(core[c].proc)' THEN 0
                 ELSE SRTF!ExpectedBurst(core[c].proc)' - ran
        BY DEF SRTF!RunningKey
      <4>2. /\ SRTF!BurstLen(core[c].proc)' = SRTF!BurstLen(q)'
            /\ SRTF!ExpectedBurst(core[c].proc)' = SRTF!ExpectedBurst(q)'
            /\ remaining'[core'[c].proc] = remaining[q]
        BY <2>2, <3>3
      <4> QED BY <2>3, <3>4, <4>1, <4>2
    <3>10. SRTF!RunningKey(c)' <= SRTF!RunningKey(c)
           /\ SRTF!RunningKey(c)' \in Int /\ SRTF!RunningKey(c) \in Int
      BY <3>5, <3>6, <3>7, <3>8, <3>9
    <3> QED BY <1>5, <2>1, <3>1, <3>5, <3>10
  <2>4. CASE /\ stage = "place" /\ now' = now
             /\ \E i \in DOMAIN picks : core'[c].proc = picks[i].proc
                                        /\ core'[c].runStart = now
                                        /\ core'[c].deadline = picks[i].deadline
    <3>1. PICK i \in DOMAIN picks : q = picks[i].proc /\ core'[c].runStart = now
      BY <2>2, <2>4
    <3>2. q \in Proofs!Picked
      BY <3>1 DEF Proofs!Picked
    <3>3. SRTF!ExpectedRemaining(q) <= SRTF!ExpectedRemaining(p)
      BY <1>4, <2>1, <3>2 DEF SrtfRank
    <3>4. /\ SRTF!BurstLen(q) \in Int /\ SRTF!ExpectedBurst(q) \in Int
          /\ remaining[q] \in Int /\ now \in Int
      <4>1. q \in Procs
        BY <1>5, <3>2
      <4>2. now \in Int
        BY DEF Proofs!Inv, Proofs!TypeOK, Proofs!Times
      <4> QED BY <4>1, <4>2, SrtfKeyType
    <3>5. SRTF!RunningKey(c)' =
              LET ran == SRTF!BurstLen(q)' - remaining'[q] + now' - core'[c].runStart
              IN IF ran > SRTF!ExpectedBurst(q)' THEN 0 ELSE SRTF!ExpectedBurst(q)' - ran
      BY <2>2 DEF SRTF!RunningKey
    <3>6. SRTF!RunningKey(c)' =
              LET ran == SRTF!BurstLen(q) - remaining[q] + now - now
              IN IF ran > SRTF!ExpectedBurst(q) THEN 0 ELSE SRTF!ExpectedBurst(q) - ran
      BY <1>5, <2>4, <3>1, <3>2, <3>5
    <3>7. SRTF!RunningKey(c)' = SRTF!ExpectedRemaining(q)
      BY <3>4, <3>6 DEF SRTF!ExpectedRemaining
    <3> QED BY <1>5, <2>1, <3>3, <3>7
  <2> QED BY <2>1, <2>3, <2>4
<1> QED BY <1>6, <1>7 DEF SrtfRank

\* the epoch goes on with the clock
LEMMA SyncedKept ==
    ASSUME NEW p, now' = now, job'[p] = job[p]
    PROVE  MLFQ!Synced(p)' = MLFQ!Synced(p)
BY DEF MLFQ!Synced, MLFQ!WasReset, MLFQ!CurrentEpoch, MLFQ!Fresh

\* no hook changes the level of a job that waits, has been chosen or stays on its core
LEMMA MlfqLevelKept ==
    ASSUME Proofs!Inv, MlfqInv, policy = "mlfq", policy' = policy, MLFQ!Next, now' = now,
           NEW p \in Procs,
           \/ p \in Ready /\ p \in Ready' \cup Proofs!Picked'
           \/ p \in Proofs!Picked
           \/ \E c \in Proofs!Busy : core'[c] = core[c] /\ core[c].proc = p
    PROVE  MLFQ!Synced(p)'.level = MLFQ!Synced(p).level
<1>0. /\ job \in [Procs -> MLFQ!Jobs]
      /\ p \in Ready \cup Proofs!Picked \cup Proofs!OnCore
  BY DEF MlfqInv, Proofs!OnCore
<1>1. ASSUME NEW q, NEW j, q # p, job' = [job EXCEPT ![q] = j]
      PROVE  MLFQ!Synced(p)'.level = MLFQ!Synced(p).level
  BY <1>0, <1>1, SyncedKept
<1>2. ASSUME job' = job PROVE MLFQ!Synced(p)'.level = MLFQ!Synced(p).level
  BY <1>2, SyncedKept
<1>3. CASE \E q \in Procs : MLFQ!Arrive(q) \/ MLFQ!BecomeReady(q)
  <2>1. PICK q \in Procs : MLFQ!Arrive(q) \/ MLFQ!BecomeReady(q)
    BY <1>3
  <2>2. q \in pending \cup blocked
    BY <2>1 DEF MLFQ!Arrive, MLFQ!BecomeReady, MLFQ!Admit, MLFQ!WakeUp, MLFQ!Arrived,
       MLFQ!Woken
  <2>3. q # p
    BY <1>0, <2>2 DEF Proofs!Inv, Proofs!OnePlace
  <2>4. \E j : job' = [job EXCEPT ![q] = j]
    BY <2>1 DEF MLFQ!Arrive, MLFQ!BecomeReady
  <2> QED BY <1>1, <2>3, <2>4
<1>4. CASE \E c \in MLFQ!Cores : MLFQ!SliceCompletes(c)
  BY <1>2, <1>4 DEF MLFQ!SliceCompletes, MLFQ!mlfqVars
<1>5. CASE \E c \in MLFQ!Cores : MLFQ!SliceBlocks(c) \/ MLFQ!SlicePreempted(c)
  <2>1. PICK c \in Proofs!Cores : MLFQ!SliceBlocks(c) \/ MLFQ!SlicePreempted(c)
    BY <1>5 DEF MLFQ!Cores, Proofs!Cores
  <2>2. PICK q : q = core[c].proc
    OBVIOUS
  <2>3. \E j : job' = [job EXCEPT ![q] = j]
    BY <2>1, <2>2 DEF MLFQ!SliceBlocks, MLFQ!SlicePreempted
  <2>4. Proofs!EndRun(c)
    <3>1. CASE MLFQ!SliceBlocks(c)
      BY <2>2, <3>1, MlfqEngine DEF MLFQ!SliceBlocks, Proofs!Block
    <3>2. CASE MLFQ!SlicePreempted(c)
      <4>1. Proofs!Preempt(c)
        BY <3>2, MlfqEngine DEF MLFQ!SlicePreempted
      <4> QED BY <4>1 DEF Proofs!Preempt
    <3> QED BY <2>1, <3>1, <3>2
  <2>5. c \in Proofs!Busy /\ Proofs!Busy' = Proofs!Busy \ {c}
    <3>1. Proofs!Busy' = Proofs!Busy \ {c}
      BY <2>4, ProofsAssumptions, Proofs!EndRunFacts
    <3>2. Proofs!SliceEnds(c)
      BY <2>4 DEF Proofs!EndRun
    <3> QED BY <3>1, <3>2, EndsFacts
  <2>6. q \in Proofs!OnCore
    BY <2>2, <2>5 DEF Proofs!OnCore
  <2>7. q # p
    <3>1. CASE p \in Ready \cup Proofs!Picked
      BY <2>6, <3>1 DEF Proofs!Inv, Proofs!OnePlace
    <3>2. CASE \E d \in Proofs!Busy : core'[d] = core[d] /\ core[d].proc = p
      <4>1. PICK d \in Proofs!Busy : core'[d] = core[d] /\ core[d].proc = p
        BY <3>2
      <4>2. d # c
        BY <2>5, <4>1 DEF Proofs!Busy, Proofs!Free
      <4> QED BY <2>2, <2>5, <4>1, <4>2 DEF Proofs!Inv, Proofs!OnePlace
    <3> QED BY <3>1, <3>2
  <2> QED BY <1>1, <2>3, <2>7
<1>6. CASE MLFQ!NextSlice
  <2>1. PICK q, n : job' = [job EXCEPT ![q] = [MLFQ!Synced(q) EXCEPT !.left = n]]
    BY <1>6 DEF MLFQ!NextSlice
  <2>2. CASE q = p
    <3>1. MLFQ!Synced(p) \in MLFQ!Jobs /\ MLFQ!Synced(p).seen = MLFQ!CurrentEpoch
      BY SyncedFacts
    <3>2. /\ job'[p].level = MLFQ!Synced(p).level
          /\ job'[p].seen = MLFQ!CurrentEpoch
      BY <1>0, <2>1, <2>2, <3>1 DEF MLFQ!Jobs
    <3>3. MLFQ!CurrentEpoch' = MLFQ!CurrentEpoch
      BY DEF MLFQ!CurrentEpoch
    <3>4. MLFQ!Synced(p)' = job'[p]
      BY <3>2, <3>3 DEF MLFQ!Synced, MLFQ!WasReset
    <3> QED BY <3>2, <3>4
  <2>3. CASE q # p
    BY <1>1, <2>1, <2>3
  <2> QED BY <2>2, <2>3
<1>7. CASE MLFQ!StopPicking \/ (MLFQ!EngineStep /\ UNCHANGED MLFQ!mlfqVars)
  BY <1>2, <1>7 DEF MLFQ!StopPicking, MLFQ!mlfqVars
<1> QED BY <1>3, <1>4, <1>5, <1>6, <1>7 DEF MLFQ!Next

\* when the clock moves nothing is queued, and a boost that comes due resets every job
LEMMA MlfqClock ==
    ASSUME Proofs!Inv, Proofs!Inv', MlfqInv, policy = "mlfq", MLFQ!Next, Proofs!Next, now' # now,
           NEW p \in Procs, NEW q \in Procs, MLFQ!Synced(q).level <= MLFQ!Synced(p).level
    PROVE  MLFQ!Synced(q)'.level <= MLFQ!Synced(p)'.level
<1>1. job' = job
  BY DEF MLFQ!Next, MLFQ!Arrive, MLFQ!Admit, MLFQ!BecomeReady, MLFQ!WakeUp, MLFQ!SliceCompletes,
     MLFQ!SliceBlocks, MLFQ!SlicePreempted, MLFQ!Complete, MLFQ!Block, MLFQ!Preempt,
     MLFQ!EndRun, MLFQ!NextSlice, MLFQ!Pick, MLFQ!StopPicking, MLFQ!PicksDone, MLFQ!mlfqVars
<1>2. now <= now'
  BY ProofsAssumptions, Proofs!NeverBack DEF Proofs!vars
<1>3. MLFQ!CurrentEpoch \in Nat /\ MLFQ!CurrentEpoch <= MLFQ!CurrentEpoch'
  BY <1>2, EpochFacts, EpochMonotone
<1>4. MLFQ!CurrentEpoch' \in Int
  BY EpochNext
<1>5. CASE MLFQ!CurrentEpoch' = MLFQ!CurrentEpoch
  BY <1>1, <1>5 DEF MLFQ!Synced, MLFQ!WasReset, MLFQ!Fresh
<1>6. CASE MLFQ!CurrentEpoch' # MLFQ!CurrentEpoch
  <2>1. ASSUME NEW o \in Procs PROVE MLFQ!Synced(o)'.level = 1
    <3>1. job[o].seen \in Nat /\ job[o].seen <= epoch /\ epoch <= MLFQ!CurrentEpoch /\ epoch \in Nat
      BY DEF MlfqInv, MLFQ!Jobs
    <3>2. job'[o].seen # MLFQ!CurrentEpoch'
      BY <1>1, <1>3, <1>4, <1>6, <3>1
    <3>3. MLFQ!Synced(o)' = [level |-> 1, used |-> 0, left |-> 0, seen |-> MLFQ!CurrentEpoch']
      BY <3>2 DEF MLFQ!Synced, MLFQ!WasReset, MLFQ!Fresh
    <3> QED BY <3>3
  <2> QED BY <2>1
<1> QED BY <1>5, <1>6

\* next_slice takes a job of the highest level that has one
LEMMA MlfqHighest ==
    ASSUME Proofs!Inv, MlfqInv, policy = "mlfq", NEW s, Proofs!NextSlice(s), MLFQ!NextSlice,
           NEW p \in Ready
    PROVE  /\ s.proc \in Procs /\ s.proc \in Ready
           /\ MLFQ!Synced(s.proc).level <= MLFQ!Synced(p).level
<1>1. PICK l \in MLFQ!Levels :
         /\ MLFQ!Boosted[l] # <<>> /\ \A k \in 1..(l - 1) : MLFQ!Boosted[k] = <<>>
         /\ LET q == Head(MLFQ!Boosted[l])
                granted == MLFQ!Grant(MLFQ!Synced(q), l)
            IN  MLFQ!Pick(MLFQ!Slice(q, granted, MLFQ!BoostDeadline))
  BY DEF MLFQ!NextSlice, MLFQ!HighestLevel
<1>2. PICK q : q = Head(MLFQ!Boosted[l])
  OBVIOUS
<1>3. PICK t : t = MLFQ!Slice(q, MLFQ!Grant(MLFQ!Synced(q), l), MLFQ!BoostDeadline)
  OBVIOUS
<1>4. picks' = Append(picks, t) /\ t.proc = q
  BY <1>1, <1>2, <1>3 DEF MLFQ!Pick, MLFQ!Slice
<1>5. picks' = Append(picks, s) /\ picks \in Seq(Proofs!Slices)
  BY DEF Proofs!NextSlice, Proofs!Pick, Proofs!Inv, Proofs!TypeOK
<1>6. s = t
  BY <1>4, <1>5, SamePick
<1>7. /\ Seen \in [Procs -> MLFQ!Jobs] /\ InOrder(MLFQ!Boosted, Seen)
      /\ Members(MLFQ!Boosted) = Ready
      /\ \A o \in Procs : Seen[o] = MLFQ!Synced(o)
  BY SyncedFacts, BoostedFacts
<1>8. q \in Procs /\ q \in Ready /\ Seen[q].level = l
  <2>1. PICK k \in MLFQ!Jobs : k = MLFQ!Fresh(MLFQ!CurrentEpoch)
    BY EpochFacts, FreshFacts
  <2> QED BY <1>1, <1>2, <1>7, <2>1, HeadTaken
<1>9. PICK k \in MLFQ!Levels : p \in ToSet(MLFQ!Boosted[k])
  BY <1>7 DEF Members
<1>10. Seen[p].level = k /\ MLFQ!Boosted[k] # <<>>
  BY <1>7, <1>9 DEF InOrder, InLine, ToSet
<1>11. p \in Procs
  BY DEF Proofs!Inv, Proofs!TypeOK
<1>12. ~(k < l)
  BY <1>1, <1>10, LevelFacts
<1> QED BY <1>4, <1>6, <1>7, <1>8, <1>10, <1>11, <1>12, LevelFacts

LEMMA MlfqRankStep ==
    ASSUME CsCost = 0, Proofs!Inv, Proofs!Inv', Proofs!FreeInv, MlfqInv, MlfqRank, policy = "mlfq",
           policy' = policy, MLFQ!Next
    PROVE  MlfqRank'
<1> SUFFICES ASSUME stage' # "done" PROVE MlfqRank'
  BY DEF MlfqRank
<1>1. Proofs!Next /\ PreemptOnReady
  BY MlfqStep, RedecidedAssumption
<1>2. stage # "done"
  BY <1>1, ProofsAssumptions, Proofs!DoneStays
<1>3. Ready' \subseteq Procs /\ Ready \subseteq Procs
  BY DEF Proofs!Inv, Proofs!TypeOK
<1>4. Proofs!Picked \subseteq Procs
  BY ProofsAssumptions, Proofs!TakenType DEF Proofs!Taken
<1>5. \A o \in Procs : MLFQ!Synced(o).level \in Int
  BY SyncedFacts DEF MLFQ!Jobs, MLFQ!Levels
<1>6. ASSUME NEW q \in Proofs!Picked', NEW p \in Ready'
      PROVE  MLFQ!Synced(q)'.level <= MLFQ!Synced(p)'.level
  <2>0. PICK i \in DOMAIN picks' : q = picks'[i].proc
    BY DEF Proofs!Picked
  <2>1. /\ p \in Ready /\ now' = now
        /\ \/ \E j \in DOMAIN picks : picks'[i] = picks[j]
           \/ \E s : Proofs!NextSlice(s) /\ picks'[i] = s
    BY <1>1, ProofsAssumptions, Proofs!ChosenStep
  <2>2. MLFQ!Synced(p)'.level = MLFQ!Synced(p).level
    BY <1>3, <2>1, MlfqLevelKept
  <2>3. CASE \E j \in DOMAIN picks : picks'[i] = picks[j]
    <3>1. q \in Proofs!Picked
      BY <2>0, <2>3 DEF Proofs!Picked
    <3>2. MLFQ!Synced(q).level <= MLFQ!Synced(p).level
      BY <1>2, <2>1, <3>1 DEF MlfqRank
    <3>3. MLFQ!Synced(q)'.level = MLFQ!Synced(q).level
      BY <1>4, <2>1, <3>1, MlfqLevelKept
    <3> QED BY <2>2, <3>2, <3>3
  <2>4. CASE \E s : Proofs!NextSlice(s) /\ picks'[i] = s
    <3>1. PICK s : Proofs!NextSlice(s) /\ picks'[i] = s
      BY <2>4
    <3>2. MLFQ!NextSlice
      BY <3>1, MlfqPicks DEF Proofs!NextSlice, Proofs!Inv, Proofs!TypeOK
    <3>3. /\ q \in Procs /\ q \in Ready
          /\ MLFQ!Synced(q).level <= MLFQ!Synced(p).level
      BY <2>0, <2>1, <3>1, <3>2, MlfqHighest
    <3>4. MLFQ!Synced(q)'.level = MLFQ!Synced(q).level
      BY <2>1, <3>3, MlfqLevelKept
    <3> QED BY <2>2, <3>3, <3>4
  <2> QED BY <2>1, <2>3, <2>4
<1>7. ASSUME NEW c \in Proofs!Cores, NEW q \in Procs, NEW p \in Ready',
             <<c, p>> \in Proofs!Facing', core'[c].proc = q
      PROVE  MLFQ!Synced(q)'.level <= MLFQ!Synced(p)'.level
  <2>1. /\ p \in Ready
        /\ \/ <<c, p>> \in Proofs!Facing /\ core'[c] = core[c]
           \/ /\ stage = "place" /\ now' = now
              /\ \E i \in DOMAIN picks : core'[c].proc = picks[i].proc
                                         /\ core'[c].runStart = now
                                         /\ core'[c].deadline = picks[i].deadline
    BY <1>1, <1>7, ProofsAssumptions, Proofs!FacingStep
  <2>2. now' = now => MLFQ!Synced(p)'.level = MLFQ!Synced(p).level
    BY <1>3, <2>1, MlfqLevelKept
  <2>3. CASE <<c, p>> \in Proofs!Facing /\ core'[c] = core[c]
    <3>1. MLFQ!Synced(q).level <= MLFQ!Synced(p).level
      BY <1>2, <1>7, <2>1, <2>3 DEF MlfqRank
    <3>2. c \in Proofs!Busy /\ core[c].proc = q
      BY <1>7, <2>3 DEF Proofs!Facing
    <3>3. CASE now' = now
      <4>1. MLFQ!Synced(q)'.level = MLFQ!Synced(q).level
        BY <2>3, <3>2, <3>3, MlfqLevelKept
      <4> QED BY <2>2, <3>1, <3>3, <4>1
    <3>4. CASE now' # now
      BY <1>1, <1>3, <2>1, <3>1, <3>4, MlfqClock
    <3> QED BY <3>3, <3>4
  <2>4. CASE /\ stage = "place" /\ now' = now
             /\ \E i \in DOMAIN picks : core'[c].proc = picks[i].proc
                                        /\ core'[c].runStart = now
                                        /\ core'[c].deadline = picks[i].deadline
    <3>1. q \in Proofs!Picked
      BY <1>7, <2>4 DEF Proofs!Picked
    <3>2. MLFQ!Synced(q).level <= MLFQ!Synced(p).level
      BY <1>2, <2>1, <3>1 DEF MlfqRank
    <3>3. MLFQ!Synced(q)'.level = MLFQ!Synced(q).level
      BY <2>4, <3>1, MlfqLevelKept
    <3> QED BY <2>2, <2>4, <3>2, <3>3
  <2> QED BY <2>1, <2>3, <2>4
<1> QED BY <1>6, <1>7 DEF MlfqRank

RankInv == CsCost = 0 => Proofs!FreeInv /\ SrtfRank /\ MlfqRank

LEMMA RankStep == ASSUME IInv, RankInv, [Next]_vars PROVE RankInv'
<1> SUFFICES ASSUME CsCost = 0 PROVE RankInv'
  BY DEF RankInv
<1>1. [Proofs!Next]_(Proofs!vars) /\ IInv'
  BY RefinementStep
<1>2. Proofs!FreeInv'
  BY <1>1, ProofsAssumptions, Proofs!FreeStep DEF IInv, RankInv
<1>3. CASE UNCHANGED vars
  <2>1. /\ UNCHANGED <<policy, ready, epoch, queues, job>>
        /\ UNCHANGED <<w, stage, now, remaining, phase, predicted, core, picks, cause>>
    BY <1>3 DEF vars, mlfqVars, engineVars, procVars
  <2>2. UNCHANGED Ready
    BY <2>1, ReadyIs, ReadyIsNext DEF Ready
  <2>3. Proofs!Facing' = Proofs!Facing /\ Proofs!Picked' = Proofs!Picked
    BY <2>1, <2>2 DEF Proofs!Facing, Proofs!Busy, Proofs!Free, Proofs!Picked
  <2>4. \A p : SRTF!ExpectedRemaining(p)' = SRTF!ExpectedRemaining(p)
    BY <2>1, SrtfKeyKept
  <2>5. \A c : SRTF!RunningKey(c)' = SRTF!RunningKey(c)
    BY <2>1 DEF SRTF!RunningKey, SRTF!ExpectedBurst, SRTF!BurstLen
  <2>6. \A p : MLFQ!Synced(p)' = MLFQ!Synced(p)
    BY <2>1, SyncedKept
  <2>7. SrtfRank'
    BY <2>1, <2>3, <2>4, <2>5 DEF SrtfRank, RankInv
  <2>8. MlfqRank'
    BY <2>1, <2>2, <2>3, <2>6 DEF MlfqRank, RankInv
  <2> QED BY <1>2, <2>7, <2>8 DEF RankInv
<1>4. CASE Next
  <2>1. policy' = policy /\ Proofs!Inv /\ Proofs!Inv' /\ MlfqInv /\ Proofs!FreeInv
    BY <1>1, <1>4 DEF Next, IInv, RankInv
  <2>2. SrtfRank'
    <3>1. CASE policy = "srtf"
      <4>1. SRTF!Next
        BY <1>4, <3>1 DEF Next
      <4> QED BY <2>1, <3>1, <4>1, SrtfRankStep DEF RankInv
    <3>2. CASE policy # "srtf"
      BY <2>1, <3>2 DEF SrtfRank
    <3> QED BY <3>1, <3>2
  <2>3. MlfqRank'
    <3>1. CASE policy = "mlfq"
      <4>1. MLFQ!Next
        BY <1>4, <3>1 DEF Next
      <4> QED BY <2>1, <3>1, <4>1, MlfqRankStep DEF RankInv
    <3>2. CASE policy # "mlfq"
      BY <2>1, <3>2 DEF MlfqRank
    <3> QED BY <3>1, <3>2
  <2> QED BY <1>2, <2>2, <2>3 DEF RankInv
<1> QED BY <1>3, <1>4

LEMMA RankInit == ASSUME Init PROVE RankInv
<1>1. Proofs!Init
  BY RefinementInit
<1>2. stage # "done" /\ picks = <<>> /\ Proofs!Busy = {}
  BY <1>1 DEF Proofs!Init, Proofs!EngineInit, Proofs!FreshCore, Proofs!Busy, Proofs!Free
<1>3. Proofs!Picked = {} /\ Proofs!Facing = {}
  BY <1>2 DEF Proofs!Picked, Proofs!Facing
<1> QED
  BY <1>1, <1>3, ProofsAssumptions, Proofs!FreeInit DEF RankInv, SrtfRank, MlfqRank

LEMMA RankInvariant == Spec => [](IInv /\ RankInv)
<1>1. Init => IInv /\ RankInv
  BY RefinementInit, RankInit
<1>2. IInv /\ RankInv /\ [Next]_vars => IInv' /\ RankInv'
  BY RefinementStep, RankStep
<1> QED
  BY <1>1, <1>2, PTL DEF Spec

(* With free switches srtf runs the best processes at all times, on any    *)
(* number of cores: none that waits has a smaller expected remaining time  *)
(* than one that runs, and none waits while a core is free, though the     *)
(* keys of running processes shrink and predictions go wrong, and the set  *)
(* is re-chosen only when something happens (docs/model.md, "Multiple      *)
(* cores"; srtf.c).                                                        *)
LEMMA SrtfBestAreRunning == Spec => [](policy = "srtf" => BestAreRunning)
<1>1. Init => Proofs!Init /\ IInv
  BY RefinementInit
<1>2. IInv /\ [Next]_vars => [Proofs!Next]_(Proofs!vars) /\ IInv'
  BY RefinementStep
<1>3. Spec => Proofs!Spec
  BY <1>1, <1>2, PTL DEF Spec, Proofs!Spec
<1>4. Proofs!Spec => [](Proofs!Inv /\ Proofs!TimelineInv /\ Proofs!ServiceInv /\ Proofs!IdleInv)
  BY ProofsAssumptions, Proofs!IdleInvariant
<1>5. Proofs!IdleInv /\ IInv /\ RankInv => (policy = "srtf" => BestAreRunning)
  <2> SUFFICES ASSUME Proofs!IdleInv, RankInv, policy = "srtf", CsCost = 0, stage = "advance",
                      NEW c \in SRTF!Running, NEW p \in ready
               PROVE  SRTF!RunningKey(c) <= SRTF!ExpectedRemaining(p) /\ SRTF!FreeCores = {}
    BY DEF BestAreRunning, SRTF!BestAreRunning
  <2>1. Ready = ready
    BY DEF Ready
  <2>2. c \in Proofs!Cores /\ c \in Proofs!Busy
    BY DEF SRTF!Running, SRTF!Busy, SRTF!Free, SRTF!Cores, Proofs!Busy, Proofs!Free, Proofs!Cores
  <2>3. <<c, p>> \in Proofs!Facing
    BY <2>1, <2>2 DEF Proofs!Facing, Proofs!Early
  <2>4. SRTF!RunningKey(c) <= SRTF!ExpectedRemaining(p)
    BY <2>2, <2>3 DEF RankInv, SrtfRank
  <2>5. Proofs!FreeCores = {}
    BY <2>1 DEF Proofs!IdleInv, Proofs!Offered
  <2>6. SRTF!FreeCores = Proofs!FreeCores
    BY DEF SRTF!FreeCores, SRTF!Free, SRTF!Cores, Proofs!FreeCores, Proofs!Free, Proofs!Cores
  <2> QED BY <2>4, <2>5, <2>6
<1> QED
  BY <1>3, <1>4, <1>5, RankInvariant, PTL

(* With free switches no job of mlfq runs while one of a higher level      *)
(* waits (mlfq.c:3-4), on any number of cores and whatever boosts have     *)
(* come due: they reset those that run with those that wait.               *)
THEOREM HigherLevelsRunHolds == Spec => []HigherLevelsRun
<1>1. IInv /\ RankInv => HigherLevelsRun
  <2> SUFFICES ASSUME IInv, RankInv, policy = "mlfq", CsCost = 0, stage = "advance",
                      NEW p \in MLFQ!Queued, NEW c \in MLFQ!Running
               PROVE  MLFQ!Synced(core[c].proc).level <= MLFQ!Synced(p).level
    BY DEF HigherLevelsRun, MLFQ!HigherLevelsRun
  <2>1. p \in Ready
    BY DEF Ready
  <2>2. c \in Proofs!Cores /\ c \in Proofs!Busy
    BY DEF MLFQ!Running, MLFQ!Busy, MLFQ!Free, MLFQ!Cores, Proofs!Busy, Proofs!Free, Proofs!Cores
  <2>3. <<c, p>> \in Proofs!Facing
    BY <2>1, <2>2 DEF Proofs!Facing, Proofs!Early
  <2>4. core[c].proc \in Procs
    BY <2>2, EngineAssumption
    DEF IInv, Proofs!Inv, Proofs!TypeOK, Proofs!CoreStructs, Proofs!Busy, Proofs!Free
  <2> QED BY <2>1, <2>2, <2>3, <2>4 DEF RankInv, MlfqRank
<1> QED
  BY <1>1, RankInvariant, PTL

=============================================================================
