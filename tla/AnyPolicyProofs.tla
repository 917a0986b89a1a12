--------------------------- MODULE AnyPolicyProofs --------------------------
(***************************************************************************)
(* Proofs about AnyPolicy, for every workload, number of cores, switch     *)
(* cost, limit and policy.                                                 *)
(***************************************************************************)
EXTENDS AnyPolicy, TLAPS, SequenceTheorems

LEMMA AppendSegmentType ==
    ASSUME NEW l \in Logs, NEW c \in Cores, NEW g \in Segments,
           NEW m \in AppendSegment(l, c, g)
    PROVE  m \in Logs
<1> DEFINE t == l.timelines[c]
<1>0. t \in Seq(Segments) /\ l.timelines \in [Cores -> Seq(Segments)]
      /\ l.segments \in Nat /\ l.fail \in {"ok", "nomem", "limit", "overflow"}
  BY DEF Logs
<1>1. CASE m = l
  BY <1>1
<1>2. CASE t # <<>> /\ m = [l EXCEPT !.timelines[c] = [t EXCEPT ![Len(t)].end = g.end]]
  <2>1. Len(t) \in DOMAIN t /\ t[Len(t)] \in Segments
    BY <1>0, <1>2
  <2>2. [t[Len(t)] EXCEPT !.end = g.end] \in Segments
    BY <2>1 DEF Segments
  <2>3. [t EXCEPT ![Len(t)].end = g.end] \in Seq(Segments)
    BY <1>0, <2>1, <2>2
  <2> QED BY <1>0, <1>2, <2>3 DEF Logs
<1>3. CASE m = [l EXCEPT !.timelines[c] = Append(t, g), !.segments = @ + 1]
  <2>1. Append(t, g) \in Seq(Segments)
    BY <1>0
  <2>2. [l.timelines EXCEPT ![c] = Append(t, g)] \in [Cores -> Seq(Segments)]
    BY <1>0, <2>1
  <2>3. m = [timelines |-> [l.timelines EXCEPT ![c] = Append(t, g)],
             segments |-> l.segments + 1, fail |-> l.fail]
    BY <1>3 DEF Logs
  <2> QED BY <1>0, <2>2, <2>3 DEF Logs
<1>4. CASE m \in {[l EXCEPT !.fail = "limit"], [l EXCEPT !.fail = "nomem"]}
  BY <1>0, <1>4 DEF Logs
<1> QED
  BY <1>1, <1>2, <1>3, <1>4 DEF AppendSegment, Merges

LEMMA WorkloadFacts ==
    ASSUME NEW wl \in Workloads
    PROVE  /\ wl.arrival \in [Procs -> 0..(MaxTime - 1)]
           /\ wl.phases \in [Procs -> Seq(1..MaxTime)]
           /\ \A p \in Procs : IsOdd(Len(wl.phases[p]))
BY WorkloadAssumption DEF HasCpuPhases

LEMMA OddFacts ==
    ASSUME NEW n \in Nat, IsOdd(n)
    PROVE  /\ n >= 1 /\ IsOdd(n + 2)
           /\ \A m \in Nat : IsOdd(m) /\ n <= m /\ n # m => n + 2 <= m
BY DEF IsOdd

LEMMA AddTimeFacts ==
    ASSUME NEW a \in Times, a < MaxTime, NEW b \in Nat
    PROVE  /\ AddTime(a, b) \in Times /\ AddTime(a, b) <= a + b
           /\ b > 0 => AddTime(a, b) > a
BY EngineAssumption DEF AddTime, Times

LEMMA NoteOverflowType ==
    ASSUME NEW l \in Logs, NEW a, NEW b
    PROVE  NoteOverflow(l, a, b) \in Logs
BY DEF NoteOverflow, Logs

LEMMA RemoveAtFacts ==
    ASSUME NEW S, NEW s \in Seq(S), NEW i \in 1..Len(s)
    PROVE  /\ RemoveAt(s, i) \in Seq(S)
           /\ Len(RemoveAt(s, i)) = Len(s) - 1
           /\ \A j \in 1..(Len(s) - 1) : RemoveAt(s, i)[j] = IF j < i THEN s[j] ELSE s[j + 1]
<1> DEFINE a == SubSeq(s, 1, i - 1)
           b == SubSeq(s, i + 1, Len(s))
<1>1. /\ a \in Seq(S) /\ Len(a) = i - 1
      /\ \A j \in 1..(i - 1) : a[j] = s[j]
  <2>1. \A j \in 1..(i - 1) : s[j] \in S
    BY ElementOfSeq
  <2> HIDE DEF a
  <2> QED BY <2>1, SubSeqProperties DEF a
<1>2. /\ b \in Seq(S) /\ Len(b) = Len(s) - i
      /\ \A j \in 1..(Len(s) - i) : b[j] = s[i + j]
  <2>1. \A j \in (i + 1)..Len(s) : s[j] \in S
    BY ElementOfSeq
  <2>2. Len(s) \in Int
    OBVIOUS
  <2>3. /\ b \in Seq(S) /\ Len(b) = (IF i + 1 <= Len(s) THEN Len(s) - (i + 1) + 1 ELSE 0)
        /\ \A j \in 1..(Len(s) - (i + 1) + 1) : b[j] = s[(i + 1) + j - 1]
    <3> HIDE DEF b
    <3> QED BY <2>1, <2>2, SubSeqProperties DEF b
  <2> HIDE DEF b
  <2> QED BY <2>3
<1> HIDE DEF a, b
<1>3. RemoveAt(s, i) = a \o b
  BY DEF RemoveAt, a, b
<1>4. /\ a \o b \in Seq(S) /\ Len(a \o b) = Len(a) + Len(b)
      /\ \A j \in 1..(Len(a) + Len(b)) :
           (a \o b)[j] = IF j <= Len(a) THEN a[j] ELSE b[j - Len(a)]
  BY <1>1, <1>2, ConcatProperties
<1>5. Len(s) \in Nat /\ i \in Nat /\ 1 <= i /\ i <= Len(s)
  OBVIOUS
<1>6. Len(a) + Len(b) = Len(s) - 1
  BY <1>1, <1>2, <1>5
<1>7. ASSUME NEW j \in 1..(Len(s) - 1)
      PROVE  (a \o b)[j] = IF j < i THEN s[j] ELSE s[j + 1]
  <2>1. (a \o b)[j] = IF j <= i - 1 THEN a[j] ELSE b[j - (i - 1)]
    BY <1>1, <1>4, <1>6
  <2>2. CASE j < i
    <3>1. j \in 1..(i - 1)
      BY <1>5, <2>2
    <3> QED BY <1>1, <2>1, <2>2, <3>1
  <2>3. CASE ~(j < i)
    <3>1. /\ ~(j <= i - 1) /\ j - (i - 1) \in 1..(Len(s) - i)
          /\ i + (j - (i - 1)) = j + 1
      BY <1>5, <2>3
    <3>2. b[j - (i - 1)] = s[j + 1]
      BY <1>2, <3>1
    <3> QED BY <2>1, <2>3, <3>1, <3>2
  <2> QED BY <2>2, <2>3
<1> QED
  BY <1>3, <1>4, <1>6, <1>7

(* What begin_run leaves in a core that has work, a length and a deadline  *)
(* ahead: a run that lasts at least one tick and fits the burst.           *)
LEMMA BegunFacts ==
    ASSUME NEW k \in CoreStructs, k.proc \in Procs, remaining \in [Procs -> Times],
           now \in Times, now < MaxTime, remaining[k.proc] > 0, k.length > 0, k.deadline > now
    PROVE  /\ Begun(k) \in CoreStructs
           /\ Begun(k).proc = k.proc /\ ~Begun(k).inCs /\ Begun(k).context = k.context
           /\ Begun(k).length = k.length /\ Begun(k).recheck = k.recheck
           /\ Begun(k).deadline = k.deadline /\ Begun(k).runStart = now
           /\ now < Begun(k).busyUntil /\ Begun(k).busyUntil <= Begun(k).runEnd
           /\ Begun(k).runEnd <= now + remaining[k.proc]
           /\ Begun(k).runEnd <= now + k.length
<1>1. /\ RunLength(k) \in Nat /\ RunLength(k) > 0
      /\ RunLength(k) <= k.length /\ RunLength(k) <= remaining[k.proc]
  BY DEF RunLength, Lesser, CoreStructs, Times
<1>2. /\ AddTime(now, RunLength(k)) \in Times /\ AddTime(now, RunLength(k)) > now
      /\ AddTime(now, RunLength(k)) <= now + RunLength(k)
  BY <1>1, AddTimeFacts
<1>3. Lesser(k.deadline, AddTime(now, RunLength(k))) \in Times
      /\ now < Lesser(k.deadline, AddTime(now, RunLength(k)))
      /\ Lesser(k.deadline, AddTime(now, RunLength(k))) <= AddTime(now, RunLength(k))
  BY <1>2 DEF Lesser, CoreStructs, Times
<1>4. now + RunLength(k) <= now + k.length /\ now + RunLength(k) <= now + remaining[k.proc]
  BY <1>1 DEF Times, CoreStructs
<1>5. AddTime(now, RunLength(k)) <= now + k.length
      /\ AddTime(now, RunLength(k)) <= now + remaining[k.proc]
  BY <1>1, <1>2, <1>4 DEF Times, CoreStructs
<1> QED
  BY <1>2, <1>3, <1>5 DEF Begun, CoreStructs, Times

-----------------------------------------------------------------------------
(* The inductive invariant.  TypeOK is not inductive: remaining[] stays    *)
(* above zero only because no slice outlives its burst and no event is     *)
(* missed, and that needs every process in one place.                      *)

Early == {"create", "arrivals", "wakeups", "ends", "switchins", "interrupts"}

HasWork ==
    /\ \A p \in Procs \ Completed : remaining[p] > 0
    /\ \A i \in DOMAIN picks : picks[i].length > 0 /\ picks[i].deadline > now
    /\ \A c \in Busy : core[c].length > 0
    /\ picks # <<>> => stage \in {"picks", "place"}

SlicesFit ==
    \A c \in Running :
        /\ core[c].runStart <= now /\ now <= core[c].busyUntil
        /\ core[c].runStart < core[c].busyUntil /\ core[c].busyUntil <= core[c].runEnd
        /\ core[c].runEnd <= core[c].runStart + remaining[core[c].proc]
        /\ core[c].runEnd <= core[c].runStart + core[c].length

NothingMissed ==
    /\ now < MaxTime
    /\ \A p \in pending : now <= w.arrival[p]
    /\ stage \notin {"create", "arrivals"} => \A p \in pending : now < w.arrival[p]
    /\ \A p \in blocked : now <= wake[p]
    /\ stage \notin {"create", "arrivals", "wakeups"} => \A p \in blocked : now < wake[p]
    /\ \A c \in Busy : now <= core[c].busyUntil
    /\ stage \notin Early \ {"interrupts"} =>
         \A c \in Busy : core[c].inCs => now < core[c].busyUntil
    /\ stage \notin Early => \A c \in Running : now < core[c].busyUntil

Inv == TypeOK /\ OnePlace /\ (stage # "done" => HasWork /\ SlicesFit /\ NothingMissed)

LEMMA InitInv == Init => Inv
<1> SUFFICES ASSUME Init PROVE Inv
  OBVIOUS
<1>1. /\ w.arrival \in [Procs -> 0..(MaxTime - 1)]
      /\ w.phases \in [Procs -> Seq(1..MaxTime)]
      /\ \A p \in Procs : IsOdd(Len(w.phases[p]))
  BY WorkloadFacts DEF Init, EngineInit
<1>2. now \in Times /\ now < MaxTime
  <2>1. PICK p \in Procs : now = w.arrival[p]
    BY DEF Init, EngineInit
  <2> QED BY <1>1, <2>1, EngineAssumption DEF Times
<1>3. \A p \in Procs : Len(w.phases[p]) >= 1 /\ w.phases[p][1] \in 1..MaxTime
  <2> TAKE p \in Procs
  <2>1. w.phases[p] \in Seq(1..MaxTime) /\ IsOdd(Len(w.phases[p]))
    BY <1>1
  <2>2. Len(w.phases[p]) \in Nat
    BY <2>1
  <2>3. Len(w.phases[p]) >= 1
    BY <2>1, <2>2, OddFacts
  <2>4. 1 \in 1..Len(w.phases[p])
    BY <2>2, <2>3
  <2> QED BY <2>1, <2>3, <2>4, ElementOfSeq
<1>4. TypeOK
  <2>1. core \in [Cores -> CoreStructs]
    BY <1>2, EngineAssumption DEF Init, EngineInit, FreshCore, CoreStructs, Times
  <2>2. log \in Logs
    BY EmptySeq DEF Init, EngineInit, Logs
  <2>7. IsOdd(1)
    BY DEF IsOdd
  <2>3. /\ remaining \in [Procs -> Times] /\ wake \in [Procs -> Times]
        /\ predicted \in [Procs -> Nat] /\ phase \in [Procs -> Nat \ {0}]
        /\ \A p \in Procs : IsOdd(phase[p]) /\ phase[p] <= Len(w.phases[p])
    BY <1>3, <2>7, EngineAssumption DEF Init, EngineInit, Times
  <2>4. outcome \in [Procs -> [start : Times \cup {-1}, completion : Times \cup {-1}]]
    BY DEF Init, EngineInit
  <2>5. w \in Workloads
    BY DEF Init, EngineInit
  <2>6. picks \in Seq(Slices)
    BY EmptySeq DEF Init, EngineInit
  <2>9. cause \in BOOLEAN
    BY DEF Init, EngineInit
  <2>8. /\ stage \in Stages /\ pending \subseteq Procs
        /\ blocked \subseteq Procs /\ ready \subseteq Procs
        /\ switches \in Nat /\ csTime \in Nat /\ closed \in 0..NumCores
        /\ status \in {"running", "ok", "nomem", "usage", "input"}
    BY EngineAssumption DEF Init, EngineInit, Stages
  <2> QED
    BY <1>2, <2>1, <2>2, <2>3, <2>4, <2>5, <2>6, <2>8, <2>9 DEF TypeOK
<1>5. Busy = {} /\ Running = {} /\ Completed = {} /\ Picked = {} /\ OnCore = {}
  <2>1. \A c \in Cores : Free(c)
    BY DEF Init, EngineInit, Free, FreshCore
  <2>2. Completed = {}
    BY DEF Init, EngineInit, Completed
  <2>3. Picked = {}
    BY DEF Init, EngineInit, Picked
  <2> QED BY <2>1, <2>2, <2>3 DEF Busy, Running, OnCore
<1>6. OnePlace
  BY <1>5 DEF OnePlace, Init, EngineInit
<1>7. HasWork /\ SlicesFit
  BY <1>3, <1>5 DEF HasWork, SlicesFit, Init, EngineInit
<1>8. NothingMissed
  BY <1>2, <1>5 DEF NothingMissed, Early, Init, EngineInit
<1> QED
  BY <1>4, <1>6, <1>7, <1>8 DEF Inv

-----------------------------------------------------------------------------
(* Steps that only move the program counter *)

\* everything but the program counter keeps its value
Still == UNCHANGED <<w, now, pending, blocked, procVars, core, picks, cause, resultVars, ready>>

LEMMA StillPlace ==
    ASSUME Inv, stage # "done", stage' # "done",
           UNCHANGED <<pending, blocked, core, picks, outcome, ready>>
    PROVE  OnePlace' /\ Busy' = Busy /\ Running' = Running /\ Completed' = Completed
<1>1. Busy' = Busy /\ Running' = Running /\ Completed' = Completed
      /\ Picked' = Picked
  BY DEF Busy, Running, Completed, Picked, Free
<1>2. OnCore' = OnCore
  BY <1>1 DEF OnCore
<1>3. ~Emptied /\ ~Emptied'
  BY DEF Emptied
<1> QED
  BY <1>1, <1>2, <1>3 DEF OnePlace, Inv

LEMMA StillInv ==
    ASSUME Inv, Still, stage # "done", stage' \in Stages \ {"done"},
           picks # <<>> => stage' \in {"picks", "place"},
           NothingMissed'
    PROVE  Inv'
<1> USE DEF Still, procVars, resultVars
<1>1. TypeOK'
  BY DEF Inv, TypeOK
<1>2. OnePlace' /\ Busy' = Busy /\ Running' = Running /\ Completed' = Completed
  BY StillPlace
<1>3. HasWork'
  BY <1>2 DEF Inv, HasWork
<1>4. SlicesFit'
  BY <1>2 DEF Inv, SlicesFit
<1> QED
  BY <1>1, <1>2, <1>3, <1>4 DEF Inv

LEMMA StageSteps ==
    ASSUME Inv, UNCHANGED ready,
           Create \/ ArrivalsDone \/ WakeupsDone \/ SwitchInsDone \/ InstantDone
           \/ PicksDone \/ PlacesDone
    PROVE  Inv'
<1> USE DEF Inv, HasWork
<1>1. CASE Create
  <2>1. Still /\ stage = "create" /\ stage' = "arrivals"
    BY <1>1 DEF Create, Still
  <2>2. Busy' = Busy /\ Running' = Running
    BY <2>1, StillPlace DEF Still, resultVars
  <2>3. NothingMissed'
    BY <2>1, <2>2 DEF NothingMissed, Still, procVars, Early
  <2> QED BY <2>1, <2>3, StillInv DEF Stages
<1>2. CASE ArrivalsDone
  <2>1. Still /\ stage = "arrivals" /\ stage' = "wakeups" /\ Arrived = {}
    BY <1>2 DEF ArrivalsDone, Still
  <2>2. Busy' = Busy /\ Running' = Running
    BY <2>1, StillPlace DEF Still, resultVars
  <2>3. \A p \in pending : now < w.arrival[p]
    <3>1. \A p \in pending : w.arrival[p] \in Int /\ ~(w.arrival[p] <= now)
      BY <2>1, WorkloadFacts DEF Arrived, TypeOK
    <3> QED BY <3>1 DEF TypeOK, Times
  <2>4. NothingMissed'
    BY <2>1, <2>2, <2>3 DEF NothingMissed, Still, procVars, Early
  <2> QED BY <2>1, <2>4, StillInv DEF Stages
<1>3. CASE WakeupsDone
  <2>1. Still /\ stage = "wakeups" /\ stage' = "ends" /\ Woken = {}
    BY <1>3 DEF WakeupsDone, Still
  <2>2. Busy' = Busy /\ Running' = Running
    BY <2>1, StillPlace DEF Still, resultVars
  <2>3. \A p \in blocked : now < wake[p]
    BY <2>1 DEF Woken, TypeOK, Times
  <2>4. NothingMissed'
    BY <2>1, <2>2, <2>3 DEF NothingMissed, Still, procVars, Early
  <2> QED BY <2>1, <2>4, StillInv DEF Stages
<1>4. CASE SwitchInsDone
  <2>1. Still /\ stage = "switchins" /\ stage' = "interrupts" /\ SwitchedIn = {}
    BY <1>4 DEF SwitchInsDone, Still
  <2>2. Busy' = Busy /\ Running' = Running
    BY <2>1, StillPlace DEF Still, resultVars
  <2>3. \A c \in Busy : core[c].inCs => now < core[c].busyUntil
    BY <2>1 DEF SwitchedIn, NothingMissed, TypeOK, CoreStructs, Times, Busy
  <2>4. NothingMissed'
    BY <2>1, <2>2, <2>3 DEF NothingMissed, Still, procVars, Early
  <2> QED BY <2>1, <2>4, StillInv DEF Stages
<1>5. CASE InstantDone
  <2>1. Still /\ stage = "interrupts" /\ stage' \in {"picks", "finish"} /\ Interrupted = {}
    BY <1>5 DEF InstantDone, Still
  <2>2. Busy' = Busy /\ Running' = Running
    BY <2>1, StillPlace DEF Still, resultVars
  <2>3. \A c \in Running : now < core[c].busyUntil
    <3> SUFFICES ASSUME NEW c \in Running PROVE now < core[c].busyUntil
      OBVIOUS
    <3>1. core[c].runStart = now \/ core[c].busyUntil # now
      BY <2>1 DEF Interrupted
    <3>2. core[c] \in CoreStructs
      BY DEF Running, Busy, TypeOK
    <3> QED BY <2>1, <3>1, <3>2 DEF SlicesFit, TypeOK, CoreStructs, Times
  <2>4. NothingMissed'
    BY <2>1, <2>2, <2>3 DEF NothingMissed, Still, procVars, Early
  <2> QED BY <2>1, <2>4, StillInv DEF Stages
<1>6. CASE PicksDone \/ PlacesDone
  <2>1. Still /\ stage \in {"picks", "place"} /\ stage' \in {"place", "advance"}
        /\ (stage' = "advance" => picks = <<>>)
    BY <1>6 DEF PicksDone, PlacesDone, Still
  <2>2. Busy' = Busy /\ Running' = Running
    BY <2>1, StillPlace DEF Still, resultVars
  <2>3. NothingMissed'
    BY <2>1, <2>2 DEF NothingMissed, Still, procVars, Early
  <2> QED BY <2>1, <2>3, StillInv DEF Stages
<1> QED
  BY <1>1, <1>2, <1>3, <1>4, <1>5, <1>6

-----------------------------------------------------------------------------
(* Arrivals and wake-ups *)

LEMMA ArriveInv == ASSUME Inv, NEW p \in Procs, Arrive(p) PROVE Inv'
<1> USE DEF Arrive, Admit, procVars, resultVars
<1>1. stage = "arrivals" /\ stage' = "arrivals" /\ p \in pending
      /\ pending' = pending \ {p} /\ ready' = ready \cup {p}
  BY DEF Arrived, IsFirst
<1>2. Busy' = Busy /\ Running' = Running /\ Completed' = Completed /\ Picked' = Picked
  BY DEF Busy, Running, Completed, Picked, Free
<1>3. OnCore' = OnCore
  BY <1>2 DEF OnCore
<1>4. TypeOK'
  <2>1. cause' \in BOOLEAN
    OBVIOUS
  <2> QED BY <1>1, <2>1 DEF Inv, TypeOK
<1>5. OnePlace'
  <2>1. ~Emptied /\ ~Emptied'
    BY <1>1 DEF Emptied
  <2> QED BY <1>1, <1>2, <1>3, <2>1 DEF Inv, OnePlace
<1>6. HasWork' /\ SlicesFit'
  BY <1>1, <1>2 DEF Inv, HasWork, SlicesFit
<1>7. NothingMissed'
  BY <1>1, <1>2 DEF Inv, NothingMissed, Early
<1> QED
  BY <1>4, <1>5, <1>6, <1>7 DEF Inv

LEMMA BecomeReadyInv == ASSUME Inv, NEW p \in Procs, BecomeReady(p) PROVE Inv'
<1> USE DEF BecomeReady, WakeUp, procVars, resultVars
<1>1. stage = "wakeups" /\ stage' = "wakeups" /\ p \in blocked
      /\ blocked' = blocked \ {p} /\ ready' = ready \cup {p}
  BY DEF Woken, IsFirst
<1>2. Busy' = Busy /\ Running' = Running /\ Completed' = Completed /\ Picked' = Picked
  BY DEF Busy, Running, Completed, Picked, Free
<1>3. OnCore' = OnCore
  BY <1>2 DEF OnCore
<1>4. TypeOK'
  <2>1. cause' \in BOOLEAN
    OBVIOUS
  <2> QED BY <1>1, <2>1 DEF Inv, TypeOK
<1>5. OnePlace'
  <2>1. ~Emptied /\ ~Emptied'
    BY <1>1 DEF Emptied
  <2> QED BY <1>1, <1>2, <1>3, <2>1 DEF Inv, OnePlace
<1>6. HasWork' /\ SlicesFit'
  BY <1>1, <1>2 DEF Inv, HasWork, SlicesFit
<1>7. NothingMissed'
  BY <1>1, <1>2 DEF Inv, NothingMissed, Early
<1> QED
  BY <1>4, <1>5, <1>6, <1>7 DEF Inv

-----------------------------------------------------------------------------
(* The end of a slice *)

(* A slice that ends ran at least one tick and no longer than it asked for *)
(* or than its burst had left.                                             *)
LEMMA SliceEndFacts ==
    ASSUME Inv, NEW c \in Cores, SliceEnds(c)
    PROVE  /\ c \in Running /\ core[c].proc \in Procs /\ core[c] \in CoreStructs
           /\ stage \in {"ends", "interrupts"}
           /\ Ran(c) \in Nat /\ 1 <= Ran(c) /\ Ran(c) <= remaining[core[c].proc]
           /\ Ran(c) <= core[c].length
           /\ core[c].proc \notin Completed
<1>1. c \in Running /\ stage \in {"ends", "interrupts"}
  BY DEF SliceEnds, IsLowest, FullLength, Interrupted
<1>2. core[c] \in CoreStructs /\ core[c].proc \in Procs /\ core[c].proc \in OnCore
  BY <1>1 DEF Running, Busy, Free, OnCore, Inv, TypeOK, CoreStructs
<1>3. core[c].runStart # now
  <2>1. CASE stage = "ends"
    <3>1. core[c].runEnd = now
      BY <2>1 DEF SliceEnds, IsLowest, FullLength
    <3>2. core[c].runStart < core[c].busyUntil /\ core[c].busyUntil <= core[c].runEnd
      BY <1>1, <2>1 DEF Inv, SlicesFit
    <3> QED BY <1>2, <3>1, <3>2 DEF CoreStructs, Times
  <2>2. CASE stage = "interrupts"
    BY <2>2 DEF SliceEnds, IsLowest, Interrupted
  <2> QED BY <1>1, <2>1, <2>2
<1>4. /\ core[c].runStart <= now /\ now <= core[c].busyUntil
      /\ core[c].busyUntil <= core[c].runEnd
      /\ core[c].runEnd <= core[c].runStart + remaining[core[c].proc]
      /\ core[c].runEnd <= core[c].runStart + core[c].length
  BY <1>1 DEF Inv, SlicesFit
<1>5. now \in Times /\ remaining[core[c].proc] \in Times
  BY <1>2 DEF Inv, TypeOK
<1>6. core[c].proc \notin Completed
  BY <1>2 DEF Inv, OnePlace
<1> QED
  BY <1>1, <1>2, <1>3, <1>4, <1>5, <1>6 DEF Ran, CoreStructs, Times

(* What every outcome of end_run leaves: the process is off its core, and  *)
(* no other core has changed.                                              *)
LEMMA EndRunFacts ==
    ASSUME Inv, NEW c \in Cores, EndRun(c)
    PROVE  /\ core' \in [Cores -> CoreStructs]
           /\ Busy' = Busy \ {c} /\ Running' = Running \ {c}
           /\ \A d \in Cores \ {c} : core'[d] = core[d] /\ core'[d].proc # core[c].proc
           /\ OnCore' = OnCore \ {core[c].proc} /\ core[c].proc \in OnCore
<1>1. c \in Running /\ core[c].proc \in Procs /\ core[c] \in CoreStructs
  BY SliceEndFacts DEF EndRun
<1>2. core \in [Cores -> CoreStructs] /\ now \in Times
  BY DEF Inv, TypeOK
<1>3. core' = [core EXCEPT ![c] = [core[c] EXCEPT !.proc = None, !.freeSince = now]]
  BY DEF EndRun
<1>4. /\ [core[c] EXCEPT !.proc = None, !.freeSince = now] \in CoreStructs
      /\ [core[c] EXCEPT !.proc = None, !.freeSince = now].proc = None
  BY <1>1, <1>2 DEF CoreStructs
<1>5. core' \in [Cores -> CoreStructs] /\ core'[c].proc = None
      /\ \A d \in Cores \ {c} : core'[d] = core[d]
  BY <1>2, <1>3, <1>4
<1>6. Busy' = Busy \ {c} /\ Running' = Running \ {c} /\ c \in Busy
  BY <1>1, <1>5 DEF Busy, Running, Free
<1>7. \A d \in Busy \ {c} : core[d].proc # core[c].proc
  BY <1>6 DEF Inv, OnePlace, Busy
<1>8. \A d \in Cores \ {c} : core'[d].proc # core[c].proc
  <2>1. core[c].proc # None
    BY <1>6 DEF Busy, Free
  <2> QED BY <1>5, <1>7, <2>1 DEF Busy, Free
<1>9. OnCore' = OnCore \ {core[c].proc} /\ core[c].proc \in OnCore
  BY <1>5, <1>6, <1>7 DEF OnCore, Busy
<1> QED
  BY <1>5, <1>6, <1>8, <1>9

LEMMA LogRunType ==
    ASSUME Inv, NEW c \in Cores, SliceEnds(c), NEW l \in LogRun(c)
    PROVE  l \in Logs
<1>1. core[c] \in CoreStructs /\ now \in Times /\ log \in Logs
  BY SliceEndFacts DEF Inv, TypeOK
<1>2. Segment(core[c].runStart, now, core[c].proc, "run") \in Segments
  BY <1>1 DEF Segment, Segments, CoreStructs
<1> QED
  BY <1>1, <1>2, AppendSegmentType DEF LogRun

LEMMA PredictionType ==
    ASSUME Inv, NEW p \in Procs
    PROVE  NewPrediction(p) \in Nat
<1>1. w.phases[p] \in Seq(1..MaxTime) /\ phase[p] \in Nat \ {0}
      /\ phase[p] <= Len(w.phases[p]) /\ predicted[p] \in Nat
  BY WorkloadFacts DEF Inv, TypeOK
<1>2. BurstLen(p) \in 1..MaxTime
  <2>1. phase[p] \in 1..Len(w.phases[p])
    BY <1>1
  <2> QED BY <1>1, <2>1, ElementOfSeq DEF BurstLen
<1>3. \A a, b, x, y, n \in Nat : n > 0 /\ b \in Nat => (a * x + b * y) \div n \in Nat
  <2> TAKE a, b, x, y, n \in Nat
  <2>1. a * x \in Nat /\ b * y \in Nat
    OBVIOUS
  <2>2. \A m \in Nat : n > 0 => m \div n \in Nat
    OBVIOUS
  <2> QED BY <2>1, <2>2
<1>4. /\ AlphaNum \in Nat /\ AlphaDen - AlphaNum \in Nat /\ AlphaDen \in Nat
      /\ AlphaDen > 0 /\ BurstLen(p) \in Nat
  BY <1>2, EngineAssumption
<1> QED
  BY <1>1, <1>3, <1>4 DEF NewPrediction

(* The parts of SlicesFit and NothingMissed that concern the cores survive *)
(* the end of a slice on core c that changes remaining[] for its process.  *)
LEMMA OtherSlices ==
    ASSUME Inv, NEW c \in Cores, EndRun(c),
           \A p \in Procs \ {core[c].proc} : remaining'[p] = remaining[p]
    PROVE  /\ SlicesFit'
           /\ \A d \in Busy' : core'[d].length > 0 /\ now' <= core'[d].busyUntil
           /\ stage' \notin Early \ {"interrupts"} =>
                \A d \in Busy' : core'[d].inCs => now' < core'[d].busyUntil
           /\ stage' \notin Early => \A d \in Running' : now' < core'[d].busyUntil
           /\ stage' = stage /\ now' = now /\ stage \in Early /\ stage # "done"
<1>1. stage \in {"ends", "interrupts"} /\ stage' = stage /\ now' = now
  BY SliceEndFacts DEF EndRun
<1>2. /\ Busy' = Busy \ {c} /\ Running' = Running \ {c}
      /\ \A d \in Cores \ {c} : core'[d] = core[d] /\ core'[d].proc # core[c].proc
  BY EndRunFacts
<1>3. \A d \in Running' : core'[d] = core[d] /\ remaining'[core[d].proc] = remaining[core[d].proc]
  <2> TAKE d \in Running'
  <2>1. d \in Cores \ {c} /\ d \in Busy
    BY <1>2 DEF Running, Busy
  <2>2. core[d].proc \in Procs \ {core[c].proc}
    BY <1>2, <2>1 DEF Busy, Free, Inv, TypeOK, CoreStructs
  <2> QED BY <1>2, <2>1, <2>2
<1>4. SlicesFit'
  BY <1>1, <1>2, <1>3 DEF Inv, SlicesFit
<1>5. \A d \in Busy' : d \in Busy /\ core'[d] = core[d]
  BY <1>2 DEF Busy
<1> QED
  BY <1>1, <1>2, <1>4, <1>5 DEF Inv, HasWork, NothingMissed, Early

LEMMA CompleteInv == ASSUME Inv, NEW c \in Cores, SliceCompletes(c) PROVE Inv'
<1> DEFINE p == core[c].proc
<1>1. EndRun(c) /\ SliceEnds(c) /\ p \in Procs /\ p \notin Completed /\ now \in Times
  BY SliceEndFacts DEF SliceCompletes, Complete, EndRun, Inv, TypeOK
<1>2. /\ remaining' = [remaining EXCEPT ![p] = 0]
      /\ outcome' = [outcome EXCEPT ![p] = [outcome[p] EXCEPT !.completion = now]]
      /\ UNCHANGED <<blocked, phase, wake, cause, ready>>
      /\ log' \in LogRun(c)
      /\ predicted' = [predicted EXCEPT ![p] = NewPrediction(p)]
  BY DEF SliceCompletes, Complete
<1>3. UNCHANGED <<w, stage, now, pending, picks, switches, csTime, closed, status>>
  BY <1>1 DEF EndRun
<1> HIDE DEF p
<1>4. TypeOK'
  <2>1. NewPrediction(p) \in Nat
    BY <1>1, PredictionType
  <2>3. remaining' \in [Procs -> Times] /\ predicted' \in [Procs -> Nat]
    <3>1. remaining \in [Procs -> Times] /\ predicted \in [Procs -> Nat] /\ 0 \in Times
      BY EngineAssumption DEF Inv, TypeOK, Times
    <3> QED BY <1>1, <1>2, <2>1, <3>1
  <2>5. outcome' \in [Procs -> [start : Times \cup {-1}, completion : Times \cup {-1}]]
    <3>1. outcome \in [Procs -> [start : Times \cup {-1}, completion : Times \cup {-1}]]
      BY DEF Inv, TypeOK
    <3>2. [outcome[p] EXCEPT !.completion = now]
            \in [start : Times \cup {-1}, completion : Times \cup {-1}]
      BY <1>1, <3>1
    <3> QED BY <1>1, <1>2, <3>1, <3>2
  <2>4. log' \in Logs /\ core' \in [Cores -> CoreStructs]
    BY <1>1, <1>2, LogRunType, EndRunFacts
  <2> QED BY <1>2, <1>3, <2>3, <2>4, <2>5 DEF Inv, TypeOK
<1>5. Completed' = Completed \cup {p} /\ Picked' = Picked
  BY <1>1, <1>2, <1>3 DEF Completed, Picked, Inv, TypeOK, Times
<1>6. OnePlace'
  <2>1. ~Emptied /\ ~Emptied'
    BY <1>1, <1>3, SliceEndFacts DEF Emptied
  <2>2. OnCore' = OnCore \ {p} /\ p \in OnCore
    BY <1>1, EndRunFacts DEF p
  <2>3. \A d, e \in Busy' : d # e => core'[d].proc # core'[e].proc
    BY <1>1, EndRunFacts DEF Inv, OnePlace, Busy
  <2> QED BY <1>2, <1>3, <1>5, <2>1, <2>2, <2>3 DEF Inv, OnePlace
<1>7. /\ \A q \in Procs \ {p} : remaining'[q] = remaining[q]
      /\ \A q \in Procs \ Completed' : remaining'[q] > 0
  BY <1>1, <1>2, <1>5, SliceEndFacts DEF Inv, HasWork, TypeOK
<1>8. HasWork' /\ SlicesFit' /\ NothingMissed'
  BY <1>1, <1>2, <1>3, <1>7, OtherSlices, SliceEndFacts
     DEF Inv, HasWork, NothingMissed, Early, p
<1> QED
  BY <1>4, <1>6, <1>8 DEF Inv

LEMMA PreemptInv == ASSUME Inv, NEW c \in Cores, SlicePreempted(c) PROVE Inv'
<1> DEFINE p == core[c].proc
<1>1. EndRun(c) /\ SliceEnds(c) /\ p \in Procs /\ p \notin Completed /\ ~BurstOver(c)
  BY SliceEndFacts DEF SlicePreempted, Preempt, EndRun
<1>2. /\ remaining' = [remaining EXCEPT ![p] = remaining[p] - Ran(c)]
      /\ UNCHANGED <<blocked, phase, wake, predicted, outcome>>
      /\ log' \in LogRun(c) /\ ready' = ready \cup {p}
      /\ cause' = (cause \/ stage = "ends")
  BY DEF SlicePreempted, Preempt
<1>3. UNCHANGED <<w, stage, now, pending, picks, switches, csTime, closed, status>>
  BY <1>1 DEF EndRun
<1>a. remaining[p] - Ran(c) \in Times /\ remaining[p] - Ran(c) > 0
  <2>1. remaining[p] \in Times /\ Ran(c) \in Nat /\ Ran(c) <= remaining[p]
        /\ remaining[p] # Ran(c)
    BY <1>1, SliceEndFacts DEF BurstOver, Inv, TypeOK
  <2> HIDE DEF p
  <2> QED BY <2>1, EngineAssumption DEF Times
<1> HIDE DEF p
<1>4. TypeOK'
  <2>1. remaining' \in [Procs -> Times]
    BY <1>1, <1>2, <1>a DEF Inv, TypeOK
  <2>2. cause' \in BOOLEAN
    BY <1>2 DEF Inv, TypeOK
  <2>3. log' \in Logs /\ core' \in [Cores -> CoreStructs]
    BY <1>1, <1>2, LogRunType, EndRunFacts
  <2> QED BY <1>1, <1>2, <1>3, <2>1, <2>2, <2>3 DEF Inv, TypeOK
<1>5. Completed' = Completed /\ Picked' = Picked
  BY <1>2, <1>3 DEF Completed, Picked
<1>6. OnePlace'
  <2>1. ~Emptied /\ ~Emptied'
    BY <1>1, <1>3, SliceEndFacts DEF Emptied
  <2>2. OnCore' = OnCore \ {p} /\ p \in OnCore
    BY <1>1, EndRunFacts DEF p
  <2>3. \A d, e \in Busy' : d # e => core'[d].proc # core'[e].proc
    BY <1>1, EndRunFacts DEF Inv, OnePlace, Busy
  <2> QED BY <1>2, <1>3, <1>5, <2>1, <2>2, <2>3 DEF Inv, OnePlace
<1>7. /\ \A q \in Procs \ {p} : remaining'[q] = remaining[q]
      /\ \A q \in Procs \ Completed' : remaining'[q] > 0
  BY <1>1, <1>2, <1>5, <1>a, SliceEndFacts DEF Inv, HasWork, TypeOK
<1>8. HasWork' /\ SlicesFit' /\ NothingMissed'
  BY <1>1, <1>2, <1>3, <1>7, OtherSlices, SliceEndFacts
     DEF Inv, HasWork, NothingMissed, Early, p
<1> QED
  BY <1>4, <1>6, <1>8 DEF Inv

LEMMA BlockInv == ASSUME Inv, NEW c \in Cores, SliceBlocks(c) PROVE Inv'
<1> DEFINE p == core[c].proc
           io == w.phases[p][phase[p] + 1]
           cpu == w.phases[p][phase[p] + 2]
<1>1. EndRun(c) /\ SliceEnds(c) /\ p \in Procs /\ p \notin Completed /\ ~LastPhase(p)
      /\ now \in Times /\ stage \in {"ends", "interrupts"}
  BY SliceEndFacts DEF SliceBlocks, Block, EndRun, Inv, TypeOK
<1>2. /\ remaining' = [remaining EXCEPT ![p] = cpu]
      /\ wake' = [wake EXCEPT ![p] = AddTime(now, io)]
      /\ phase' = [phase EXCEPT ![p] = phase[p] + 2]
      /\ predicted' = [predicted EXCEPT ![p] = NewPrediction(p)]
      /\ blocked' = blocked \cup {p}
      /\ UNCHANGED <<outcome, cause, ready>>
      /\ \E l \in LogRun(c) : log' = NoteOverflow(l, now, io)
  BY DEF SliceBlocks, Block
<1>3. UNCHANGED <<w, stage, now, pending, picks, switches, csTime, closed, status>>
  BY <1>1 DEF EndRun
<1>a. /\ phase[p] + 2 <= Len(w.phases[p]) /\ IsOdd(phase[p] + 2)
      /\ io \in 1..MaxTime /\ cpu \in 1..MaxTime
  <2>1. /\ phase[p] \in Nat \ {0} /\ IsOdd(phase[p]) /\ phase[p] <= Len(w.phases[p])
        /\ w.phases[p] \in Seq(1..MaxTime) /\ IsOdd(Len(w.phases[p]))
    BY <1>1, WorkloadFacts DEF Inv, TypeOK
  <2>2. Len(w.phases[p]) \in Nat
    BY <2>1
  <2>3. phase[p] # Len(w.phases[p])
    BY <1>1 DEF LastPhase
  <2>4. phase[p] + 2 <= Len(w.phases[p]) /\ IsOdd(phase[p] + 2)
    BY <2>1, <2>2, <2>3, OddFacts
  <2>5. phase[p] + 1 \in 1..Len(w.phases[p]) /\ phase[p] + 2 \in 1..Len(w.phases[p])
    BY <2>1, <2>2, <2>4
  <2> QED BY <2>1, <2>4, <2>5, ElementOfSeq
<1>b. now < MaxTime /\ AddTime(now, io) \in Times /\ now < AddTime(now, io)
  <2>1. now < MaxTime
    BY <1>1 DEF Inv, NothingMissed
  <2>2. io \in Nat /\ io > 0
    BY <1>a, EngineAssumption
  <2> HIDE DEF io
  <2> QED BY <1>1, <2>1, <2>2, AddTimeFacts
<1> HIDE DEF p, io, cpu
<1>4. TypeOK'
  <2>1. NewPrediction(p) \in Nat
    BY <1>1, PredictionType
  <2>2. remaining' \in [Procs -> Times] /\ wake' \in [Procs -> Times]
        /\ predicted' \in [Procs -> Nat]
    BY <1>1, <1>2, <1>a, <1>b, <2>1, EngineAssumption DEF Inv, TypeOK, Times
  <2>3. phase' \in [Procs -> Nat \ {0}]
        /\ \A q \in Procs : IsOdd(phase'[q]) /\ phase'[q] <= Len(w.phases[q])
    BY <1>1, <1>2, <1>a DEF Inv, TypeOK
  <2>4. log' \in Logs /\ core' \in [Cores -> CoreStructs]
    BY <1>1, <1>2, LogRunType, EndRunFacts, NoteOverflowType
  <2>5. blocked' \subseteq Procs
    BY <1>1, <1>2 DEF Inv, TypeOK
  <2> QED BY <1>2, <1>3, <2>2, <2>3, <2>4, <2>5 DEF Inv, TypeOK
<1>5. Completed' = Completed /\ Picked' = Picked
  BY <1>2, <1>3 DEF Completed, Picked
<1>6. OnePlace'
  <2>1. ~Emptied /\ ~Emptied'
    BY <1>1, <1>3 DEF Emptied
  <2>2. OnCore' = OnCore \ {p} /\ p \in OnCore
    BY <1>1, EndRunFacts DEF p
  <2>3. \A d, e \in Busy' : d # e => core'[d].proc # core'[e].proc
    BY <1>1, EndRunFacts DEF Inv, OnePlace, Busy
  <2> QED BY <1>2, <1>3, <1>5, <2>1, <2>2, <2>3 DEF Inv, OnePlace
<1>7. /\ \A q \in Procs \ {p} : remaining'[q] = remaining[q] /\ wake'[q] = wake[q]
      /\ remaining'[p] > 0 /\ wake'[p] > now
      /\ \A q \in Procs \ Completed' : remaining'[q] > 0
  <2>1. remaining'[p] = cpu /\ wake'[p] = AddTime(now, io)
    BY <1>1, <1>2 DEF Inv, TypeOK
  <2>2. \A q \in Procs \ {p} : remaining'[q] = remaining[q] /\ wake'[q] = wake[q]
    BY <1>2 DEF Inv, TypeOK
  <2>3. remaining'[p] > 0 /\ wake'[p] > now
    BY <2>1, <1>a, <1>b
  <2> QED BY <1>1, <1>5, <2>2, <2>3 DEF Inv, HasWork
<1>8. \A q \in blocked' : now < wake'[q] \/ (q \in blocked /\ wake'[q] = wake[q])
  <2> TAKE q \in blocked'
  <2>1. CASE q = p
    <3>1. now < wake'[p]
      <4>1. wake'[p] \in Times /\ now \in Times
        BY <1>1, <1>4 DEF TypeOK
      <4> QED BY <4>1, <1>7 DEF Times
    <3> QED BY <2>1, <3>1
  <2>2. CASE q # p
    <3>1. q \in blocked /\ q \in Procs
      BY <2>2, <1>2 DEF Inv, TypeOK
    <3> QED BY <2>2, <3>1, <1>7
  <2> QED BY <2>1, <2>2
<1>9. HasWork' /\ SlicesFit'
  BY <1>1, <1>2, <1>3, <1>7, OtherSlices DEF Inv, HasWork, p
<1>10. NothingMissed'
  <2>1. stage \notin {"create", "arrivals", "wakeups"} /\ stage # "done"
    BY <1>1
  <2>2. \A q \in blocked' : now < wake'[q]
    BY <1>8, <2>1 DEF Inv, NothingMissed
  <2>3. \A q \in blocked' : now <= wake'[q]
    BY <1>1, <1>4, <1>3, <2>2 DEF TypeOK, Times
  <2> QED BY <1>1, <1>3, <1>7, <2>1, <2>2, <2>3, OtherSlices
          DEF Inv, NothingMissed, Early, p
<1> QED
  BY <1>4, <1>6, <1>9, <1>10 DEF Inv

-----------------------------------------------------------------------------
(* Switch-ins *)

\* cores that are switching in are marked, which disturbs nothing
LEMMA EndsDoneInv == ASSUME Inv, EndsDone, UNCHANGED ready PROVE Inv'
<1> USE DEF EndsDone, procVars, resultVars
<1>1. stage = "ends" /\ stage' = "switchins" /\ core \in [Cores -> CoreStructs]
  BY DEF Inv, TypeOK
<1>2. /\ core' \in [Cores -> CoreStructs]
      /\ \A c \in Cores : core'[c] = core[c] \/ core'[c] = [core[c] EXCEPT !.recheck = TRUE]
  <2>1. \A c \in Cores : core'[c] = core[c] \/ core'[c] = [core[c] EXCEPT !.recheck = TRUE]
    OBVIOUS
  <2>2. \A k \in CoreStructs : [k EXCEPT !.recheck = TRUE] \in CoreStructs
    BY DEF CoreStructs
  <2>3. \A c \in Cores : core'[c] \in CoreStructs
    BY <1>1, <2>1, <2>2
  <2>4. core' = [c \in Cores |-> core'[c]]
    OBVIOUS
  <2> QED BY <2>1, <2>3, <2>4
<1>3. \A c \in Cores :
        /\ core'[c].proc = core[c].proc /\ core'[c].inCs = core[c].inCs
        /\ core'[c].busyUntil = core[c].busyUntil /\ core'[c].runStart = core[c].runStart
        /\ core'[c].runEnd = core[c].runEnd /\ core'[c].length = core[c].length
        /\ core'[c].context = core[c].context
  <2> TAKE c \in Cores
  <2>1. core[c] \in CoreStructs
    BY <1>1
  <2> QED BY <1>2, <2>1 DEF CoreStructs
<1>4. Busy' = Busy /\ Running' = Running /\ OnCore' = OnCore
  BY <1>3 DEF Busy, Running, OnCore, Free
<1>5. Completed' = Completed /\ Picked' = Picked /\ ~Emptied /\ ~Emptied'
  BY <1>1 DEF Completed, Picked, Emptied
<1>6. TypeOK'
  BY <1>1, <1>2 DEF Inv, TypeOK, Stages
<1>7. OnePlace'
  <2>1. \A c, d \in Busy' : c # d => core'[c].proc # core'[d].proc
    BY <1>3, <1>4 DEF Inv, OnePlace, Busy
  <2> QED BY <1>1, <1>4, <1>5, <2>1 DEF Inv, OnePlace
<1>8. HasWork'
  BY <1>1, <1>3, <1>4, <1>5 DEF Inv, HasWork, Busy
<1>9. SlicesFit'
  BY <1>1, <1>3, <1>4 DEF Inv, SlicesFit, Running, Busy
<1>10. NothingMissed'
  BY <1>1, <1>3, <1>4 DEF Inv, NothingMissed, Early, Running, Busy
<1> QED
  BY <1>1, <1>6, <1>7, <1>8, <1>9, <1>10 DEF Inv

LEMMA BegunOutcomeFacts ==
    ASSUME Inv, NEW p \in Procs, outcome' = BegunOutcome(p)
    PROVE  /\ outcome' \in [Procs -> [start : Times \cup {-1}, completion : Times \cup {-1}]]
           /\ Completed' = Completed
<1>1. now \in Times
      /\ outcome \in [Procs -> [start : Times \cup {-1}, completion : Times \cup {-1}]]
  BY DEF Inv, TypeOK
<1>2. CASE outcome' = outcome
  BY <1>1, <1>2 DEF Completed
<1>3. CASE outcome' = [outcome EXCEPT ![p] = [outcome[p] EXCEPT !.start = now]]
  <2>1. [outcome[p] EXCEPT !.start = now]
          \in [start : Times \cup {-1}, completion : Times \cup {-1}]
        /\ [outcome[p] EXCEPT !.start = now].completion = outcome[p].completion
    BY <1>1
  <2>2. outcome' \in [Procs -> [start : Times \cup {-1}, completion : Times \cup {-1}]]
    BY <1>1, <1>3, <2>1
  <2>3. \A q \in Procs : outcome'[q].completion = outcome[q].completion
    BY <1>1, <1>3, <2>1
  <2> QED BY <2>2, <2>3 DEF Completed
<1> QED
  BY <1>2, <1>3 DEF BegunOutcome

LEMMA SwitchInInv == ASSUME Inv, NEW c \in Cores, SwitchIn(c), UNCHANGED ready PROVE Inv'
<1> USE DEF procVars, resultVars
<1> DEFINE k == IF OneTick(c) THEN [core[c] EXCEPT !.deadline = AddTime(now, 1)] ELSE core[c]
<1>1. /\ stage = "switchins" /\ stage' = "switchins"
      /\ core' = [core EXCEPT ![c] = Begun(k)]
      /\ outcome' = BegunOutcome(k.proc)
      /\ UNCHANGED <<w, now, pending, blocked, procVars, picks, cause, switches, csTime,
                     closed, status, ready>>
      /\ log' = BegunLog(IF OneTick(c) THEN NoteOverflow(log, now, 1) ELSE log, k)
  BY DEF SwitchIn
<1>2. c \in Busy /\ core[c].inCs /\ core[c] \in CoreStructs /\ core[c].proc \in Procs
      /\ now \in Times /\ now < MaxTime /\ core \in [Cores -> CoreStructs]
  <2>1. c \in Busy /\ core[c].inCs
    BY DEF SwitchIn, IsLowest, SwitchedIn
  <2>2. core[c] \in CoreStructs /\ core \in [Cores -> CoreStructs] /\ now \in Times
    BY DEF Inv, TypeOK
  <2>3. core[c].proc \in Procs
    BY <2>1, <2>2 DEF Busy, Free, CoreStructs
  <2>4. now < MaxTime
    BY <1>1 DEF Inv, NothingMissed
  <2> QED BY <2>1, <2>2, <2>3, <2>4
<1>3. /\ k \in CoreStructs /\ k.proc = core[c].proc /\ k.length = core[c].length
      /\ k.context = core[c].context /\ k.deadline > now
  <2>1. AddTime(now, 1) \in Times /\ AddTime(now, 1) > now
    BY <1>2, AddTimeFacts
  <2>2. ~OneTick(c) => core[c].deadline > now
    BY <1>2 DEF OneTick, CoreStructs, Times
  <2> QED BY <1>2, <2>1, <2>2 DEF CoreStructs
<1>4. k.length > 0 /\ remaining[k.proc] > 0 /\ remaining \in [Procs -> Times]
  <2>1. core[c].proc \in OnCore
    BY <1>2 DEF OnCore
  <2>2. core[c].proc \notin Completed /\ core[c].length > 0
    BY <1>1, <1>2, <2>1 DEF Inv, OnePlace, HasWork
  <2> QED BY <1>1, <1>2, <1>3, <2>2 DEF Inv, HasWork, TypeOK
<1>5. LET b == Begun(k) IN
      /\ b \in CoreStructs /\ b.proc = core[c].proc /\ ~b.inCs /\ b.context = core[c].context
      /\ b.length = core[c].length /\ b.runStart = now
      /\ now < b.busyUntil /\ b.busyUntil <= b.runEnd
      /\ b.runEnd <= now + remaining[core[c].proc] /\ b.runEnd <= now + core[c].length
  <2> HIDE DEF k
  <2> QED BY <1>2, <1>3, <1>4, BegunFacts
<1> HIDE DEF k
<1> DEFINE b == Begun(k)
<1>6. core'[c] = b /\ \A d \in Cores \ {c} : core'[d] = core[d]
  BY <1>1, <1>2
<1>7. Busy' = Busy /\ Running' = Running \cup {c} /\ OnCore' = OnCore
  BY <1>2, <1>5, <1>6 DEF Busy, Running, OnCore, Free
<1>8. Completed' = Completed /\ Picked' = Picked /\ ~Emptied /\ ~Emptied'
  BY <1>1, <1>2, <1>3, BegunOutcomeFacts DEF Picked, Emptied
<1>9. TypeOK'
  <2>1. core' \in [Cores -> CoreStructs]
    BY <1>1, <1>2, <1>5
  <2>2. log' \in Logs
    <3>1. log \in Logs
      BY DEF Inv, TypeOK
    <3> QED BY <1>1, <3>1, NoteOverflowType DEF BegunLog
  <2>3. outcome' \in [Procs -> [start : Times \cup {-1}, completion : Times \cup {-1}]]
    BY <1>1, <1>2, <1>3, BegunOutcomeFacts
  <2> QED BY <1>1, <2>1, <2>2, <2>3 DEF Inv, TypeOK, Stages
<1>10. OnePlace'
  <2>1. \A d, e \in Busy' : d # e => core'[d].proc # core'[e].proc
    <3>1. \A d \in Cores : core'[d].proc = core[d].proc
      BY <1>5, <1>6
    <3> QED BY <1>7, <3>1 DEF Inv, OnePlace, Busy
  <2> QED BY <1>1, <1>7, <1>8, <2>1 DEF Inv, OnePlace
<1>11. HasWork'
  <2>1. \A d \in Cores : core'[d].length = core[d].length
    BY <1>5, <1>6
  <2> QED BY <1>1, <1>7, <1>8, <2>1 DEF Inv, HasWork, Busy
<1>12. SlicesFit'
  <2> SUFFICES ASSUME NEW d \in Running' PROVE
        /\ core'[d].runStart <= now /\ now <= core'[d].busyUntil
        /\ core'[d].runStart < core'[d].busyUntil /\ core'[d].busyUntil <= core'[d].runEnd
        /\ core'[d].runEnd <= core'[d].runStart + remaining[core'[d].proc]
        /\ core'[d].runEnd <= core'[d].runStart + core'[d].length
    BY <1>1 DEF SlicesFit
  <2>1. CASE d = c
    <3>1. b.runStart <= now /\ now <= b.busyUntil
      BY <1>2, <1>5 DEF CoreStructs, Times
    <3> QED BY <2>1, <3>1, <1>5, <1>6
  <2>2. CASE d # c
    BY <2>2, <1>1, <1>6, <1>7 DEF Inv, SlicesFit, Running, Busy
  <2> QED BY <2>1, <2>2
<1>13. NothingMissed'
  <2>1. \A d \in Busy' : now <= core'[d].busyUntil
    <3>1. now <= b.busyUntil
      BY <1>2, <1>5 DEF CoreStructs, Times
    <3> QED BY <1>1, <1>6, <1>7, <3>1 DEF Inv, NothingMissed, Busy
  <2> QED BY <1>1, <2>1 DEF Inv, NothingMissed, Early
<1> QED
  BY <1>1, <1>9, <1>10, <1>11, <1>12, <1>13 DEF Inv

-----------------------------------------------------------------------------
(* dispatch *)

\* what next_slice may return is a slice that dispatch can place
LEMMA SlicesForFacts ==
    ASSUME Inv, stage # "done", NEW p \in ready, NEW s \in SlicesFor(p)
    PROVE  s \in Slices /\ s.proc = p /\ s.length > 0 /\ s.deadline > now
<1>1. p \in Procs /\ remaining[p] \in Times /\ remaining[p] > 0
      /\ now \in Times /\ now < MaxTime
  BY DEF Inv, TypeOK, OnePlace, HasWork, NothingMissed
<1>2. NoDeadline \in Times /\ NoDeadline > now
  BY <1>1, EngineAssumption DEF NoDeadline, Times
<1>3. CASE Preemptive
  <2>1. PICK len \in SliceLengths,
             dl \in {NoDeadline} \cup {now + g : g \in {h \in DeadlineGaps : now + h < MaxTime}} :
             s = Slice(p, len, dl)
    BY <1>3 DEF SlicesFor
  <2>2. dl \in Times /\ dl > now
    BY <1>1, <1>2, PolicyAssumption, EngineAssumption DEF Times
  <2>3. len \in Nat /\ len > 0
    BY PolicyAssumption
  <2> QED BY <1>1, <2>1, <2>2, <2>3 DEF Slice, Slices
<1>4. CASE ~Preemptive
  BY <1>1, <1>2, <1>4 DEF SlicesFor, Slice, Slices, Times
<1> QED
  BY <1>3, <1>4

LEMMA NextSliceInv ==
    ASSUME Inv, NEW p \in ready, NEW s \in SlicesFor(p), NextSlice(s)
    PROVE  Inv'
<1> USE DEF procVars, resultVars
<1>1. /\ stage = "picks" /\ picks' = Append(picks, s) /\ ready' = ready \ {s.proc}
      /\ UNCHANGED <<w, stage, now, pending, blocked, procVars, core, cause, resultVars>>
  BY DEF NextSlice, Pick, WantsPick
<1>2. s \in Slices /\ s.proc = p /\ s.length > 0 /\ s.deadline > now /\ p \in Procs
  BY <1>1, SlicesForFacts DEF Inv, TypeOK
<1>3. /\ picks' \in Seq(Slices) /\ DOMAIN picks = 1..Len(picks) /\ Len(picks) \in Nat
      /\ DOMAIN picks' = 1..(Len(picks) + 1)
      /\ \A i \in 1..Len(picks) : picks'[i] = picks[i]
      /\ picks'[Len(picks) + 1] = s
  <2>1. picks \in Seq(Slices)
    BY DEF Inv, TypeOK
  <2> QED BY <1>1, <1>2, <2>1, AppendProperties
<1>4. Busy' = Busy /\ Running' = Running /\ Completed' = Completed
  BY <1>1 DEF Busy, Running, Completed, Free
<1>5. OnCore' = OnCore /\ ~Emptied /\ ~Emptied'
  BY <1>1, <1>4 DEF OnCore, Emptied
<1>6. Picked' = Picked \cup {p} /\ p \notin Picked
  <2>1. p \notin Picked
    BY DEF Inv, OnePlace
  <2> QED BY <1>2, <1>3, <2>1 DEF Picked
<1>7. TypeOK'
  <2>1. ready' \subseteq Procs
    BY <1>1 DEF Inv, TypeOK
  <2> QED BY <1>1, <1>3, <2>1 DEF Inv, TypeOK
<1>8. OnePlace'
  <2>1. \A i, j \in DOMAIN picks' : i # j => picks'[i].proc # picks'[j].proc
    BY <1>2, <1>3, <1>6 DEF Inv, OnePlace, Picked
  <2> QED BY <1>1, <1>2, <1>4, <1>5, <1>6, <2>1 DEF Inv, OnePlace
<1>9. HasWork'
  BY <1>1, <1>2, <1>3, <1>4 DEF Inv, HasWork
<1>10. SlicesFit' /\ NothingMissed'
  BY <1>1, <1>4 DEF Inv, SlicesFit, NothingMissed, Early
<1> QED
  BY <1>7, <1>8, <1>9, <1>10 DEF Inv

(* What dispatch_one leaves in the core it uses: the process of the pick,  *)
(* either running a slice of at least one tick or switching in.            *)
LEMMA PlaceFacts ==
    ASSUME Inv, NEW c \in Cores, NEW i \in DOMAIN picks, Place(i, c)
    PROVE  /\ Free(c) /\ picks[i] \in Slices
           /\ core' \in [Cores -> CoreStructs]
           /\ \A d \in Cores \ {c} : core'[d] = core[d]
           /\ core'[c].proc = picks[i].proc /\ core'[c].context = picks[i].proc
           /\ core'[c].length = picks[i].length
           /\ core'[c].length > 0 /\ now < core'[c].busyUntil
           /\ ~core'[c].inCs =>
                /\ core'[c].runStart = now /\ core'[c].busyUntil <= core'[c].runEnd
                /\ core'[c].runEnd <= now + remaining[picks[i].proc]
                /\ core'[c].runEnd <= now + core'[c].length
           /\ log' \in Logs
           /\ csTime' \in Nat /\ switches' \in Nat
           /\ outcome' \in [Procs -> [start : Times \cup {-1}, completion : Times \cup {-1}]]
           /\ Completed' = Completed
<1> DEFINE s == picks[i]
           taken == [core[c] EXCEPT !.proc = s.proc, !.length = s.length, !.context = s.proc,
                                    !.deadline = s.deadline, !.recheck = FALSE]
           until == AddTime(now, CsCost)
           cs == [taken EXCEPT !.inCs = TRUE, !.busyUntil = until]
           idle == Segment(core[c].freeSince, now, None, "idle")
<1>1. PICK l \in AppendSegment(log, c, idle) :
        \/ /\ CsCost > 0 /\ core' = [core EXCEPT ![c] = cs]
           /\ log' \in AppendSegment(NoteOverflow(l, now, CsCost), c,
                                     Segment(now, until, s.proc, "cs"))
           /\ csTime' = csTime + CsCost /\ UNCHANGED outcome
        \/ /\ core' = [core EXCEPT ![c] = Begun(taken)]
           /\ log' = BegunLog(l, taken) /\ outcome' = BegunOutcome(s.proc)
           /\ UNCHANGED csTime
  BY DEF Place
<1>2. stage = "place" /\ Free(c) /\ switches' \in {switches, switches + 1}
  BY DEF Place, PlacesOn, IsLowest, Affine, FreeCores
<1>3. /\ core \in [Cores -> CoreStructs] /\ core[c] \in CoreStructs /\ log \in Logs
      /\ now \in Times /\ now < MaxTime /\ remaining \in [Procs -> Times]
      /\ switches \in Nat /\ csTime \in Nat
      /\ outcome \in [Procs -> [start : Times \cup {-1}, completion : Times \cup {-1}]]
  BY <1>2 DEF Inv, TypeOK, NothingMissed
<1>4. s \in Slices /\ s.proc \in Procs /\ s.length > 0 /\ s.deadline > now
      /\ remaining[s.proc] > 0
  <2>1. s \in Slices /\ s.proc \in Procs
    <3>1. picks \in Seq(Slices)
      BY DEF Inv, TypeOK
    <3>2. s \in Slices
      BY <3>1, ElementOfSeq
    <3> QED BY <3>2 DEF Slices
  <2>2. s.proc \notin Completed
    BY DEF Inv, OnePlace, Picked
  <2> QED BY <1>2, <2>1, <2>2 DEF Inv, HasWork
<1> HIDE DEF s
<1>5. /\ taken \in CoreStructs /\ taken.proc = s.proc /\ taken.context = s.proc
      /\ taken.length = s.length /\ taken.deadline = s.deadline
  BY <1>3, <1>4 DEF CoreStructs, Slices
<1>6. until \in Times /\ (CsCost > 0 => until > now)
  BY <1>3, AddTimeFacts, EngineAssumption
<1>7. l \in Logs
  <2>1. idle \in Segments
    BY <1>3 DEF Segment, Segments, CoreStructs
  <2> HIDE DEF idle
  <2> QED BY <1>1, <1>3, <2>1, AppendSegmentType
<1> HIDE DEF taken, until
<1>8. CASE /\ CsCost > 0 /\ core' = [core EXCEPT ![c] = cs]
           /\ log' \in AppendSegment(NoteOverflow(l, now, CsCost), c,
                                     Segment(now, until, s.proc, "cs"))
           /\ csTime' = csTime + CsCost /\ UNCHANGED outcome
  <2>1. /\ cs \in CoreStructs /\ cs.proc = s.proc /\ cs.context = s.proc /\ cs.inCs
        /\ cs.length = s.length /\ cs.busyUntil = until
    BY <1>5, <1>6 DEF CoreStructs
  <2>2. Segment(now, until, s.proc, "cs") \in Segments
    BY <1>3, <1>4, <1>6 DEF Segment, Segments
  <2>3. log' \in Logs
    BY <1>7, <1>8, <2>2, NoteOverflowType, AppendSegmentType
  <2>4. csTime' \in Nat /\ switches' \in Nat
    BY <1>2, <1>3, <1>8, EngineAssumption
  <2>5. core'[c] = cs
    BY <1>3, <1>8
  <2>6. core' \in [Cores -> CoreStructs] /\ \A d \in Cores \ {c} : core'[d] = core[d]
    BY <1>3, <1>8, <2>1
  <2>7. Completed' = Completed
    BY <1>8 DEF Completed
  <2> HIDE DEF cs
  <2> QED BY <1>2, <1>3, <1>4, <1>6, <1>8, <2>1, <2>3, <2>4, <2>5, <2>6, <2>7 DEF s
<1>9. CASE /\ core' = [core EXCEPT ![c] = Begun(taken)]
           /\ log' = BegunLog(l, taken) /\ outcome' = BegunOutcome(s.proc)
           /\ UNCHANGED csTime
  <2>1. /\ Begun(taken) \in CoreStructs
        /\ Begun(taken).proc = s.proc /\ ~Begun(taken).inCs /\ Begun(taken).context = s.proc
        /\ Begun(taken).length = s.length /\ Begun(taken).runStart = now
        /\ now < Begun(taken).busyUntil /\ Begun(taken).busyUntil <= Begun(taken).runEnd
        /\ Begun(taken).runEnd <= now + remaining[s.proc]
        /\ Begun(taken).runEnd <= now + s.length
    BY <1>3, <1>4, <1>5, BegunFacts
  <2>2. log' \in Logs
    BY <1>7, <1>9, NoteOverflowType DEF BegunLog
  <2>3. csTime' \in Nat /\ switches' \in Nat
    BY <1>2, <1>3, <1>9
  <2>4. core'[c] = Begun(taken)
    BY <1>3, <1>9
  <2>5. core' \in [Cores -> CoreStructs] /\ \A d \in Cores \ {c} : core'[d] = core[d]
    BY <1>3, <1>9, <2>1
  <2>6. outcome' \in [Procs -> [start : Times \cup {-1}, completion : Times \cup {-1}]]
        /\ Completed' = Completed
    BY <1>4, <1>9, BegunOutcomeFacts
  <2> QED BY <1>2, <1>4, <2>1, <2>2, <2>3, <2>4, <2>5, <2>6 DEF s
<1> QED
  BY <1>1, <1>8, <1>9

LEMMA PlaceInv ==
    ASSUME Inv, NEW c \in Cores, NEW i \in DOMAIN picks, Place(i, c), UNCHANGED ready
    PROVE  Inv'
<1> USE DEF procVars, resultVars
<1> DEFINE p == picks[i].proc
<1>1. /\ stage = "place" /\ stage' = "place" /\ picks' = RemoveAt(picks, i)
      /\ UNCHANGED <<w, now, pending, blocked, procVars, cause, closed, status, ready>>
  BY DEF Place
<1>2. /\ Free(c) /\ p \in Procs /\ core' \in [Cores -> CoreStructs]
      /\ \A d \in Cores \ {c} : core'[d] = core[d]
      /\ core'[c].proc = p /\ core'[c].length > 0 /\ now < core'[c].busyUntil
      /\ ~core'[c].inCs =>
           /\ core'[c].runStart = now /\ core'[c].busyUntil <= core'[c].runEnd
           /\ core'[c].runEnd <= now + remaining[p]
           /\ core'[c].runEnd <= now + core'[c].length
      /\ Completed' = Completed
  BY PlaceFacts DEF Slices
<1>3. p # None /\ now \in Times
  BY <1>2, EngineAssumption DEF Inv, TypeOK
<1> HIDE DEF p
<1>4. Busy' = Busy \cup {c} /\ c \notin Busy /\ OnCore' = OnCore \cup {p}
  <2>1. Busy' = Busy \cup {c} /\ c \notin Busy
    BY <1>2, <1>3 DEF Busy, Free
  <2> QED BY <1>2, <2>1 DEF OnCore, Busy
<1>5. \A d \in Running' : (d = c /\ ~core'[c].inCs) \/ (d \in Running /\ d # c)
  BY <1>2, <1>4 DEF Running, Busy
<1>6. /\ picks' \in Seq(Slices) /\ Len(picks) \in Nat /\ i \in 1..Len(picks)
      /\ DOMAIN picks = 1..Len(picks) /\ DOMAIN picks' = 1..(Len(picks) - 1)
      /\ \A j \in DOMAIN picks' : picks'[j] = IF j < i THEN picks[j] ELSE picks[j + 1]
  <2>1. picks \in Seq(Slices)
    BY DEF Inv, TypeOK
  <2> QED BY <1>1, <2>1, RemoveAtFacts
<1>7. /\ \A j \in DOMAIN picks' : \E k \in DOMAIN picks \ {i} : picks'[j] = picks[k]
      /\ \A k \in DOMAIN picks \ {i} : \E j \in DOMAIN picks' : picks'[j] = picks[k]
      /\ \A j, k \in DOMAIN picks' : j # k => picks'[j].proc # picks'[k].proc
  <2>1. \A j, k \in DOMAIN picks : j # k => picks[j].proc # picks[k].proc
    BY DEF Inv, OnePlace
  <2>2. \A j \in DOMAIN picks' : \E k \in DOMAIN picks \ {i} : picks'[j] = picks[k]
    <3> TAKE j \in DOMAIN picks'
    <3>1. CASE j < i
      BY <1>6, <3>1
    <3>2. CASE ~(j < i)
      <4>1. j + 1 \in DOMAIN picks \ {i} /\ picks'[j] = picks[j + 1]
        BY <1>6, <3>2
      <4> QED BY <4>1
    <3> QED BY <3>1, <3>2
  <2>3. \A k \in DOMAIN picks \ {i} : \E j \in DOMAIN picks' : picks'[j] = picks[k]
    <3> TAKE k \in DOMAIN picks \ {i}
    <3>1. CASE k < i
      <4>1. k \in DOMAIN picks' /\ picks'[k] = picks[k]
        BY <1>6, <3>1
      <4> QED BY <4>1
    <3>2. CASE k > i
      <4>1. k - 1 \in DOMAIN picks' /\ picks'[k - 1] = picks[k]
        BY <1>6, <3>2
      <4> QED BY <4>1
    <3> QED BY <1>6, <3>1, <3>2
  <2>4. \A j, k \in DOMAIN picks' : j # k => picks'[j].proc # picks'[k].proc
    <3> DEFINE Old(j) == IF j < i THEN j ELSE j + 1
    <3>1. \A j \in DOMAIN picks' : Old(j) \in DOMAIN picks /\ picks'[j] = picks[Old(j)]
      BY <1>6
    <3>2. \A j, k \in DOMAIN picks' : j # k => Old(j) # Old(k)
      BY <1>6
    <3> HIDE DEF Old
    <3> QED BY <2>1, <3>1, <3>2
  <2> QED BY <2>2, <2>3, <2>4
<1>8. Picked' = Picked \ {p} /\ p \in Picked
  <2>1. \A k \in DOMAIN picks \ {i} : picks[k].proc # p
    BY <1>6 DEF Inv, OnePlace, p
  <2>2. Picked' = {picks[k].proc : k \in DOMAIN picks \ {i}}
    BY <1>7 DEF Picked
  <2>3. Picked = {picks[k].proc : k \in DOMAIN picks \ {i}} \cup {p}
    BY DEF Picked, p
  <2>4. p \notin Picked'
    BY <2>1, <2>2
  <2> HIDE DEF p
  <2> QED BY <2>2, <2>3, <2>4
<1>9. TypeOK'
  <2>1. /\ log' \in Logs /\ csTime' \in Nat /\ switches' \in Nat
        /\ outcome' \in [Procs -> [start : Times \cup {-1}, completion : Times \cup {-1}]]
    BY PlaceFacts
  <2> QED BY <1>1, <1>2, <1>6, <2>1 DEF Inv, TypeOK
<1>10. OnePlace'
  <2>1. ~Emptied /\ ~Emptied'
    BY <1>1 DEF Emptied
  <2>2. \A d, e \in Busy' : d # e => core'[d].proc # core'[e].proc
    <3>1. p \notin OnCore
      BY <1>8 DEF Inv, OnePlace
    <3>2. \A d \in Busy : core'[d].proc = core[d].proc /\ core'[d].proc # p
      BY <1>2, <1>4, <3>1 DEF OnCore, Busy
    <3>3. \A d, e \in Busy : d # e => core[d].proc # core[e].proc
      BY DEF Inv, OnePlace
    <3> QED BY <1>2, <1>4, <3>2, <3>3
  <2> QED BY <1>1, <1>2, <1>4, <1>7, <1>8, <2>1, <2>2 DEF Inv, OnePlace
<1>11. HasWork'
  <2>1. \A d \in Busy' : core'[d].length > 0
    BY <1>1, <1>2, <1>4 DEF Inv, HasWork, Busy
  <2>2. \A j \in DOMAIN picks' : picks'[j].length > 0 /\ picks'[j].deadline > now
    BY <1>1, <1>7 DEF Inv, HasWork
  <2> QED BY <1>1, <1>2, <2>1, <2>2 DEF Inv, HasWork
<1>12. SlicesFit'
  <2> SUFFICES ASSUME NEW d \in Running' PROVE
        /\ core'[d].runStart <= now /\ now <= core'[d].busyUntil
        /\ core'[d].runStart < core'[d].busyUntil /\ core'[d].busyUntil <= core'[d].runEnd
        /\ core'[d].runEnd <= core'[d].runStart + remaining[core'[d].proc]
        /\ core'[d].runEnd <= core'[d].runStart + core'[d].length
    BY <1>1 DEF SlicesFit
  <2>1. CASE d = c /\ ~core'[c].inCs
    <3>1. now <= core'[c].busyUntil
      BY <1>2, <1>3 DEF CoreStructs, Times
    <3>2. now <= now
      BY <1>3 DEF Times
    <3> QED BY <1>2, <2>1, <3>1, <3>2
  <2>2. CASE d # c /\ d \in Running
    BY <2>2, <1>1, <1>2 DEF Inv, SlicesFit, Running, Busy
  <2> QED BY <1>5, <2>1, <2>2
<1>13. NothingMissed'
  <2>1. \A d \in Busy' : now < core'[d].busyUntil
    <3>1. \A d \in Busy : now < core[d].busyUntil
      BY <1>1 DEF Inv, NothingMissed, Early, Running
    <3> QED BY <1>2, <1>4, <3>1 DEF Busy
  <2>2. \A d \in Busy' : now <= core'[d].busyUntil
    BY <1>2, <1>3, <2>1 DEF Busy, CoreStructs, Times
  <2> QED BY <1>1, <2>1, <2>2 DEF Inv, NothingMissed, Early, Running
<1> QED
  BY <1>1, <1>9, <1>10, <1>11, <1>12, <1>13 DEF Inv

-----------------------------------------------------------------------------
(* From one instant to the next, and the end *)

\* every event still to come lies ahead
LEMMA EventsAhead ==
    ASSUME Inv, stage = "advance", NEW t \in EventTimes
    PROVE  t \in Times /\ t > now
<1> USE DEF Inv, TypeOK, NothingMissed, Early
<1>1. CASE t \in {w.arrival[p] : p \in pending}
  <2>1. PICK p \in pending : t = w.arrival[p]
    BY <1>1
  <2>2. w.arrival[p] \in 0..(MaxTime - 1) /\ now < w.arrival[p]
    BY WorkloadFacts
  <2> QED BY <2>1, <2>2, EngineAssumption DEF Times
<1>2. CASE t \in {wake[p] : p \in blocked}
  BY <1>2
<1>3. CASE t \in {core[c].busyUntil : c \in Busy}
  <2>1. PICK c \in Busy : t = core[c].busyUntil
    BY <1>3
  <2>2. core[c] \in CoreStructs /\ now < core[c].busyUntil
    BY DEF Busy, Running
  <2> QED BY <2>1, <2>2 DEF CoreStructs
<1>4. CASE t \in {core[c].deadline : c \in {d \in Busy : core[d].deadline > now}}
  <2>1. PICK c \in Busy : t = core[c].deadline /\ core[c].deadline > now
    BY <1>4
  <2>2. core[c] \in CoreStructs
    BY DEF Busy
  <2> QED BY <2>1, <2>2 DEF CoreStructs
<1> QED
  BY <1>1, <1>2, <1>3, <1>4 DEF EventTimes

LEMMA AdvanceFacts == ASSUME Inv, Advance PROVE now' > now /\ now' \in Times /\ now' < MaxTime
<1>1. PICK t \in EventTimes : t # MaxTime /\ now' = t
  BY DEF Advance
<1>2. t \in Times /\ t > now
  BY EventsAhead DEF Advance
<1> QED
  BY <1>1, <1>2, EngineAssumption DEF Times

LEMMA AdvanceInv == ASSUME Inv, Advance, UNCHANGED ready PROVE Inv'
<1> USE DEF procVars, resultVars
<1>1. /\ stage = "advance" /\ stage' = "arrivals" /\ picks = <<>>
      /\ UNCHANGED <<w, pending, blocked, procVars, core, picks, resultVars, ready>>
  BY DEF Advance, Inv, HasWork
<1>2. cause' \in BOOLEAN /\ \A u \in EventTimes : now' <= u
  BY DEF Advance, CutAt
<1>3. now' \in Times /\ now' < MaxTime /\ now' > now /\ now \in Times
  BY AdvanceFacts DEF Inv, TypeOK
<1>4. Busy' = Busy /\ Running' = Running /\ Completed' = Completed
  BY <1>1, StillPlace
<1>5. TypeOK'
  BY <1>1, <1>2, <1>3 DEF Inv, TypeOK, Stages
<1>6. OnePlace'
  BY <1>1, StillPlace
<1>7. HasWork'
  BY <1>1, <1>4 DEF Inv, HasWork
<1>8. /\ \A p \in pending : now' <= w.arrival[p]
      /\ \A p \in blocked : now' <= wake[p]
      /\ \A c \in Busy : now' <= core[c].busyUntil
  BY <1>2 DEF EventTimes
<1>9. SlicesFit'
  <2>1. \A c \in Running : core[c].runStart <= now'
    <3> TAKE c \in Running
    <3>1. core[c] \in CoreStructs /\ core[c].runStart <= now
      BY <1>1 DEF Inv, SlicesFit, TypeOK, Running, Busy
    <3> QED BY <1>3, <3>1 DEF CoreStructs, Times
  <2> QED BY <1>1, <1>4, <1>8, <2>1 DEF Inv, SlicesFit, Running
<1>10. NothingMissed'
  BY <1>1, <1>3, <1>4, <1>8 DEF NothingMissed, Early
<1> QED
  BY <1>5, <1>6, <1>7, <1>9, <1>10 DEF Inv

LEMMA CloseTimelineInv == ASSUME Inv, CloseTimeline, UNCHANGED ready PROVE Inv'
<1> USE DEF procVars
<1>1. /\ stage = "finish" /\ stage' = "finish" /\ closed < NumCores /\ closed' = closed + 1
      /\ UNCHANGED <<w, now, pending, blocked, procVars, core, picks, cause, outcome,
                     switches, csTime, status, ready>>
      /\ log' \in AppendSegment(log, closed + 1,
                    Segment(core[closed + 1].freeSince, now, None, "idle"))
  BY DEF CloseTimeline
<1>2. closed \in 0..NumCores /\ closed + 1 \in Cores /\ closed + 1 \in 0..NumCores
  BY <1>1, EngineAssumption DEF Inv, TypeOK, Cores
<1>3. log' \in Logs
  <2>1. core[closed + 1] \in CoreStructs /\ now \in Times /\ log \in Logs
    BY <1>2 DEF Inv, TypeOK
  <2>2. Segment(core[closed + 1].freeSince, now, None, "idle") \in Segments
    BY <2>1 DEF Segment, Segments, CoreStructs
  <2> QED BY <1>1, <1>2, <2>1, <2>2, AppendSegmentType
<1>4. Busy' = Busy /\ Running' = Running /\ Completed' = Completed /\ OnePlace'
  BY <1>1, StillPlace
<1>5. TypeOK'
  BY <1>1, <1>2, <1>3 DEF Inv, TypeOK
<1>6. HasWork' /\ SlicesFit' /\ NothingMissed'
  BY <1>1, <1>4 DEF Inv, HasWork, SlicesFit, NothingMissed, Early
<1> QED
  BY <1>4, <1>5, <1>6 DEF Inv

LEMMA DoneInv ==
    ASSUME Inv, UNCHANGED ready, Reject \/ Return
    PROVE  Inv'
<1> USE DEF procVars, resultVars
<1>1. /\ stage' = "done"
      /\ UNCHANGED <<w, now, pending, blocked, procVars, core, picks, cause, closed, ready>>
      /\ status' \in {"ok", "nomem", "usage", "input"}
  BY DEF Reject, Return, StatusOf
<1>2. Busy' = Busy /\ Picked' = Picked
  BY <1>1 DEF Busy, Picked, Free
<1>3. OnCore' = OnCore
  BY <1>1, <1>2 DEF OnCore
<1>4. CASE UNCHANGED <<outcome, log, switches, csTime>>
  <2>1. Completed' = Completed
    BY <1>4 DEF Completed
  <2>2. ~Emptied
    BY DEF Emptied, Reject, Return
  <2>3. OnePlace'
    BY <1>1, <1>2, <1>3, <2>1, <2>2 DEF Inv, OnePlace
  <2>4. TypeOK'
    BY <1>1, <1>4 DEF Inv, TypeOK, Stages
  <2> QED BY <1>1, <2>3, <2>4 DEF Inv
<1>5. CASE /\ outcome' = [p \in Procs |-> [start |-> -1, completion |-> -1]]
           /\ log' = [log EXCEPT !.timelines = [c \in Cores |-> <<>>]]
           /\ switches' = 0 /\ csTime' = 0 /\ status' # "ok"
  <2>1. Completed' = {} /\ Emptied'
    BY <1>1, <1>5 DEF Completed, Emptied
  <2>2. OnePlace'
    BY <1>1, <1>2, <1>3, <2>1 DEF Inv, OnePlace
  <2>3. log' \in Logs
    BY <1>5, EmptySeq DEF Inv, TypeOK, Logs
  <2>4. outcome' \in [Procs -> [start : Times \cup {-1}, completion : Times \cup {-1}]]
    BY <1>5
  <2>5. TypeOK'
    BY <1>1, <1>5, <2>3, <2>4 DEF Inv, TypeOK, Stages
  <2> QED BY <1>1, <2>2, <2>5 DEF Inv
<1> QED
  <2>1. log \in Logs
    BY DEF Inv, TypeOK
  <2>2. Return => log.fail = "ok" \/ status' # "ok"
    BY <2>1 DEF Return, StatusOf, Logs
  <2> QED BY <1>4, <1>5, <2>2 DEF Reject, Return

LEMMA StutterInv == ASSUME Inv, UNCHANGED vars PROVE Inv'
<1> USE DEF vars, engineVars, procVars, resultVars
<1>1. Busy' = Busy /\ Running' = Running /\ Completed' = Completed /\ Picked' = Picked
      /\ (Emptied' <=> Emptied)
  BY DEF Busy, Running, Completed, Picked, Emptied, Free
<1>2. OnCore' = OnCore
  BY <1>1 DEF OnCore
<1>3. TypeOK' /\ OnePlace'
  BY <1>1, <1>2 DEF Inv, TypeOK, OnePlace
<1>4. stage # "done" => HasWork' /\ SlicesFit' /\ NothingMissed'
  BY <1>1 DEF Inv, HasWork, SlicesFit, NothingMissed
<1> QED
  BY <1>3, <1>4 DEF Inv

LEMMA NextInv == Inv /\ [Next]_vars => Inv'
<1> SUFFICES ASSUME Inv, [Next]_vars PROVE Inv'
  OBVIOUS
<1>1. CASE \E p \in Procs : Arrive(p) \/ BecomeReady(p)
  BY <1>1, ArriveInv, BecomeReadyInv
<1>2. CASE \E c \in Cores : SliceCompletes(c) \/ SliceBlocks(c) \/ SlicePreempted(c)
  BY <1>2, CompleteInv, BlockInv, PreemptInv
<1>3. CASE \E p \in ready : \E s \in SlicesFor(p) : NextSlice(s)
  BY <1>3, NextSliceInv
<1>4. CASE StopPicking
  BY <1>4, StageSteps DEF StopPicking
<1>5. CASE EngineStep /\ UNCHANGED ready
  <2>1. CASE \E c \in Cores : SwitchIn(c)
    BY <1>5, <2>1, SwitchInInv
  <2>2. CASE \E c \in Cores, i \in DOMAIN picks : Place(i, c)
    BY <1>5, <2>2, PlaceInv
  <2>3. CASE Terminated
    BY <1>5, <2>3, StutterInv DEF Terminated, vars
  <2> QED
    BY <1>5, <2>1, <2>2, <2>3, StageSteps, EndsDoneInv, AdvanceInv, CloseTimelineInv, DoneInv
       DEF EngineStep
<1>6. CASE UNCHANGED vars
  BY <1>6, StutterInv
<1> QED
  BY <1>1, <1>2, <1>3, <1>4, <1>5, <1>6 DEF Next

LEMMA Invariant == Spec => []Inv
<1>1. Init => Inv
  BY InitInv
<1>2. Inv /\ [Next]_vars => Inv'
  BY NextInv
<1> QED
  BY <1>1, <1>2, PTL DEF Spec

-----------------------------------------------------------------------------
(* The theorems *)

(* For every workload that workload_validate accepts, every number of      *)
(* cores and every policy, all engine variables keep their types: no       *)
(* remaining[] below zero, no time outside 0..INT64_MAX.                   *)
THEOREM TypeCorrect == Spec => []TypeOK
<1>1. Inv => TypeOK
  BY DEF Inv
<1> QED
  BY <1>1, Invariant, PTL

(* The policy protocol: no process is lost, duplicated or in two places.   *)
THEOREM OnePlaceHolds == Spec => []OnePlace
<1>1. Inv => OnePlace
  BY DEF Inv
<1> QED
  BY <1>1, Invariant, PTL

(* Every slice that ends ran at least a tick and at most what was asked.   *)
THEOREM RanWithinSliceHolds == Spec => []RanWithinSlice
<1>1. Inv => RanWithinSlice
  BY SliceEndFacts DEF RanWithinSlice
<1> QED
  BY <1>1, Invariant, PTL

(* Simulated time strictly increases from instant to instant.              *)
THEOREM TimeAdvancesHolds == Spec => TimeAdvances
<1>1. Inv /\ [Next]_vars => [stage = "advance" /\ stage' # "advance" => now' > now]_vars
  <2> SUFFICES ASSUME Inv, Next, stage = "advance", stage' # "advance" PROVE now' > now
    OBVIOUS
  <2>1. Advance
    BY DEF Next, Arrive, Admit, BecomeReady, WakeUp, SliceCompletes, SliceBlocks,
           SlicePreempted, Complete, Block, Preempt, EndRun, SliceEnds, NextSlice, Pick,
           WantsPick, StopPicking, PicksDone, EngineStep, Create, Reject, ArrivalsDone,
           WakeupsDone, EndsDone, SwitchIn, SwitchInsDone, InstantDone, Place, PlacesDone,
           CloseTimeline, Return, Terminated
  <2> QED BY <2>1, AdvanceFacts
<1> QED
  BY <1>1, Invariant, PTL DEF Spec, TimeAdvances

-----------------------------------------------------------------------------
(* ContextsDistinct needs one more fact: a busy core remembers the process *)
(* it holds.  A pick is on no core, so only a free core can remember it.   *)

ContextInv == ContextsDistinct /\ \A c \in Busy : core[c].context = core[c].proc

LEMMA PlaceContext ==
    ASSUME Inv, ContextInv, NEW c \in Cores, NEW i \in DOMAIN picks, Place(i, c)
    PROVE  ContextInv'
<1> DEFINE p == picks[i].proc
<1>1. /\ Free(c) /\ p # None /\ \A d \in Cores \ {c} : core'[d] = core[d]
      /\ core'[c].proc = p /\ core'[c].context = p
  BY PlaceFacts, EngineAssumption DEF Slices
<1>2. \A d \in Cores \ {c} : core[d].context # p
  <2> SUFFICES ASSUME NEW d \in Cores \ {c}, core[d].context = p PROVE FALSE
    OBVIOUS
  <2>1. Free(d)
    <3>1. p \notin OnCore
      BY DEF Inv, OnePlace, Picked
    <3> QED BY <3>1 DEF ContextInv, OnCore, Busy
  <2>2. NumCores > 1
    BY EngineAssumption DEF Cores
  <2>3. Affine(i, d)
    BY <2>1, <2>2 DEF Affine
  <2>4. Affine(i, c)
    <3>1. i \in AffinePicks
      BY <2>3 DEF AffinePicks
    <3> QED BY <3>1 DEF Place, PlacesOn, IsLowest
  <2>5. core[c].context = p
    BY <2>4 DEF Affine
  <2> QED BY <1>1, <2>5 DEF ContextInv, ContextsDistinct
<1>3. \A d \in Busy' : d = c \/ d \in Busy
  BY <1>1 DEF Busy, Free
<1> QED
  BY <1>1, <1>2, <1>3 DEF ContextInv, ContextsDistinct, Busy

(* Every step but Place leaves the context of every core alone, and no     *)
(* core that was free becomes busy.                                        *)
LEMMA OtherContext ==
    ASSUME ContextInv,
           \A c \in Cores : /\ core'[c].context = core[c].context
                            /\ core'[c].proc \in {core[c].proc, None}
    PROVE  ContextInv'
BY DEF ContextInv, ContextsDistinct, Busy, Free

LEMMA ContextStep == ASSUME Inv, ContextInv, [Next]_vars PROVE ContextInv'
<1>0. core \in [Cores -> CoreStructs] /\ now \in Times
  BY DEF Inv, TypeOK
<1>1. CASE UNCHANGED core
  BY <1>1 DEF ContextInv, ContextsDistinct, Busy, Free
<1>2. CASE \E c \in Cores : EndRun(c)
  <2>1. PICK c \in Cores :
          core' = [core EXCEPT ![c] = [core[c] EXCEPT !.proc = None, !.freeSince = now]]
    BY <1>2 DEF EndRun
  <2>2. [core[c] EXCEPT !.proc = None, !.freeSince = now].context = core[c].context
        /\ [core[c] EXCEPT !.proc = None, !.freeSince = now].proc = None
    BY <1>0 DEF CoreStructs
  <2> QED BY <1>0, <2>1, <2>2, OtherContext
<1>3. CASE EndsDone
  <2>1. \A c \in Cores : core'[c] = core[c] \/ core'[c] = [core[c] EXCEPT !.recheck = TRUE]
    BY <1>3 DEF EndsDone
  <2>2. \A c \in Cores : [core[c] EXCEPT !.recheck = TRUE].context = core[c].context
                         /\ [core[c] EXCEPT !.recheck = TRUE].proc = core[c].proc
    BY <1>0 DEF CoreStructs
  <2> QED BY <2>1, <2>2, OtherContext
<1>4. CASE \E c \in Cores : SwitchIn(c)
  <2>1. PICK c \in Cores :
          core' = [core EXCEPT ![c] = Begun(IF OneTick(c)
                     THEN [core[c] EXCEPT !.deadline = AddTime(now, 1)] ELSE core[c])]
    BY <1>4 DEF SwitchIn
  <2>2. core'[c].context = core[c].context /\ core'[c].proc = core[c].proc
    BY <1>0, <2>1 DEF Begun, CoreStructs
  <2> QED BY <1>0, <2>1, <2>2, OtherContext
<1>5. CASE \E c \in Cores, i \in DOMAIN picks : Place(i, c)
  BY <1>5, PlaceContext
<1> QED
  BY <1>1, <1>2, <1>3, <1>4, <1>5
     DEF Next, vars, engineVars, Arrive, Admit, BecomeReady, WakeUp, SliceCompletes,
         SliceBlocks, SlicePreempted, Complete, Block, Preempt, NextSlice, Pick, StopPicking,
         PicksDone, EngineStep, Create, Reject, ArrivalsDone, WakeupsDone, SwitchInsDone,
         InstantDone, PlacesDone, Advance, CloseTimeline, Return, Terminated

(* No two cores remember the same process, so affinity is unambiguous.     *)
THEOREM ContextsDistinctHolds == Spec => []ContextsDistinct
<1>1. Init => ContextInv
  BY DEF Init, EngineInit, FreshCore, ContextInv, ContextsDistinct, Busy, Free
<1>2. Inv /\ ContextInv /\ [Next]_vars => ContextInv'
  BY ContextStep
<1>3. ContextInv => ContextsDistinct
  BY DEF ContextInv
<1> QED
  BY <1>1, <1>2, <1>3, Invariant, PTL DEF Spec

-----------------------------------------------------------------------------
(* What a step leaves alone: policies rely on it for the keys they sort by *)

LEMMA WorkloadKept == [Next]_vars => w' = w
<1> SUFFICES ASSUME [Next]_vars PROVE w' = w
  OBVIOUS
<1>1. CASE \E p \in Procs : Arrive(p) \/ BecomeReady(p)
  BY <1>1 DEF Arrive, BecomeReady, Admit, WakeUp
<1>2. CASE \E c \in Cores : SliceCompletes(c) \/ SliceBlocks(c) \/ SlicePreempted(c)
  BY <1>2 DEF SliceCompletes, SliceBlocks, SlicePreempted, Complete, Block, Preempt, EndRun
<1>3. CASE \E p \in ready : \E s \in SlicesFor(p) : NextSlice(s)
  BY <1>3 DEF NextSlice, Pick
<1>4. CASE StopPicking \/ UNCHANGED vars
  BY <1>4 DEF StopPicking, PicksDone, vars, engineVars
<1>5. CASE EngineStep
  BY <1>5 DEF EngineStep, Create, Reject, ArrivalsDone, WakeupsDone, EndsDone, SwitchIn,
              SwitchInsDone, InstantDone, Place, PlacesDone, Advance, CloseTimeline, Return,
              Terminated, engineVars
<1> QED
  BY <1>1, <1>2, <1>3, <1>4, <1>5 DEF Next

LEMMA OffCoreKept ==
    ASSUME Inv, [Next]_vars, NEW p \in Procs \ OnCore
    PROVE  /\ remaining'[p] = remaining[p] /\ phase'[p] = phase[p]
           /\ wake'[p] = wake[p] /\ predicted'[p] = predicted[p]
<1>1. CASE \E q \in Procs : Arrive(q) \/ BecomeReady(q)
  BY <1>1 DEF Arrive, BecomeReady, Admit, WakeUp, procVars
<1>2. CASE \E c \in Cores : SliceCompletes(c) \/ SliceBlocks(c) \/ SlicePreempted(c)
  <2>1. PICK c \in Cores : SliceCompletes(c) \/ SliceBlocks(c) \/ SlicePreempted(c)
    BY <1>2
  <2>2. SliceEnds(c)
    BY <2>1 DEF SliceCompletes, SliceBlocks, SlicePreempted, Complete, Block, Preempt, EndRun
  <2>3. c \in Busy
    BY <2>2 DEF SliceEnds, IsLowest, FullLength, Interrupted, Running
  <2>4. core[c].proc # p
    BY <2>3 DEF OnCore
  <2>5. /\ remaining \in [Procs -> Times] /\ wake \in [Procs -> Times]
        /\ DOMAIN phase = Procs /\ DOMAIN predicted = Procs
    BY DEF Inv, TypeOK
  <2> QED
    BY <2>1, <2>4, <2>5 DEF SliceCompletes, SliceBlocks, SlicePreempted, Complete, Block, Preempt
<1>3. CASE \E q \in ready : \E s \in SlicesFor(q) : NextSlice(s)
  BY <1>3 DEF NextSlice, Pick, procVars
<1>4. CASE StopPicking \/ UNCHANGED vars
  BY <1>4 DEF StopPicking, PicksDone, vars, engineVars, procVars
<1>5. CASE EngineStep
  BY <1>5 DEF EngineStep, Create, Reject, ArrivalsDone, WakeupsDone, EndsDone, SwitchIn,
              SwitchInsDone, InstantDone, Place, PlacesDone, Advance, CloseTimeline, Return,
              Terminated, engineVars, procVars
<1> QED
  BY <1>1, <1>2, <1>3, <1>4, <1>5 DEF Next
\* only the end of a burst that is followed by I/O gives a process another burst
LEMMA BurstKept ==
    ASSUME Inv, [Next]_vars, NEW p \in Procs, p \notin blocked' \ blocked
    PROVE  phase'[p] = phase[p] /\ wake'[p] = wake[p]
<1>1. CASE p \notin OnCore
  BY <1>1, OffCoreKept
<1>2. CASE p \in OnCore /\ \E c \in Cores : SliceBlocks(c)
  <2>1. PICK c \in Cores : SliceBlocks(c)
    BY <1>2
  <2>2. p \notin blocked
    BY <1>2 DEF Inv, OnePlace
  <2>3. core[c].proc # p
    BY <2>1, <2>2 DEF SliceBlocks, Block
  <2>4. wake \in [Procs -> Times] /\ DOMAIN phase = Procs
    BY DEF Inv, TypeOK
  <2> QED
    BY <2>1, <2>3, <2>4 DEF SliceBlocks, Block
<1>3. CASE ~\E c \in Cores : SliceBlocks(c)
  <2>1. UNCHANGED <<phase, wake>>
    <3>1. CASE \E q \in Procs : Arrive(q) \/ BecomeReady(q)
      BY <3>1 DEF Arrive, BecomeReady, Admit, WakeUp, procVars
    <3>2. CASE \E c \in Cores : SliceCompletes(c) \/ SlicePreempted(c)
      BY <3>2 DEF SliceCompletes, SlicePreempted, Complete, Preempt
    <3>3. CASE \E q \in ready : \E s \in SlicesFor(q) : NextSlice(s)
      BY <3>3 DEF NextSlice, Pick, procVars
    <3>4. CASE StopPicking \/ UNCHANGED vars
      BY <3>4 DEF StopPicking, PicksDone, vars, engineVars, procVars
    <3>5. CASE EngineStep
      BY <3>5 DEF EngineStep, Create, Reject, ArrivalsDone, WakeupsDone, EndsDone, SwitchIn,
                  SwitchInsDone, InstantDone, Place, PlacesDone, Advance, CloseTimeline, Return,
                  Terminated, engineVars, procVars
    <3> QED
      BY <1>3, <3>1, <3>2, <3>3, <3>4, <3>5 DEF Next
  <2> QED BY <2>1
<1> QED BY <1>1, <1>2, <1>3

LEMMA NewlyBlocked ==
    ASSUME Inv, [Next]_vars, NEW p \in blocked' \ blocked
    PROVE  phase'[p] > 1 /\ remaining'[p] = w.phases[p][phase'[p]]
<1>1. PICK c \in Cores : SliceBlocks(c)
  <2>1. CASE \E q \in Procs : Arrive(q) \/ BecomeReady(q)
    BY <2>1 DEF Arrive, BecomeReady, Admit, WakeUp
  <2>2. CASE \E c \in Cores : SliceCompletes(c) \/ SlicePreempted(c)
    BY <2>2 DEF SliceCompletes, SlicePreempted, Complete, Preempt
  <2>3. CASE \E q \in ready : \E s \in SlicesFor(q) : NextSlice(s)
    BY <2>3 DEF NextSlice, Pick
  <2>4. CASE StopPicking \/ UNCHANGED vars
    BY <2>4 DEF StopPicking, PicksDone, vars, engineVars
  <2>5. CASE EngineStep
    BY <2>5 DEF EngineStep, Create, Reject, ArrivalsDone, WakeupsDone, EndsDone, SwitchIn,
                SwitchInsDone, InstantDone, Place, PlacesDone, Advance, CloseTimeline, Return,
                Terminated, engineVars
  <2> QED
    BY <2>1, <2>2, <2>3, <2>4, <2>5 DEF Next
<1>2. p = core[c].proc /\ p \in OnCore
  <2>1. p = core[c].proc /\ EndRun(c)
    BY <1>1 DEF SliceBlocks, Block
  <2> QED BY <2>1, EndRunFacts
<1>3. p \in Procs /\ phase \in [Procs -> Nat \ {0}]
  BY <1>2, SliceEndFacts, <1>1 DEF Inv, TypeOK, SliceBlocks, Block, EndRun
<1>4. phase' = [phase EXCEPT ![p] = phase[p] + 2]
  BY <1>1, <1>2 DEF SliceBlocks, Block
<1>5. remaining' = [remaining EXCEPT ![p] = w.phases[p][phase[p] + 2]] /\ DOMAIN remaining = Procs
  BY <1>1, <1>2 DEF SliceBlocks, Block, Inv, TypeOK
<1> QED BY <1>3, <1>4, <1>5

LEMMA PendingShrinks == ASSUME [Next]_vars PROVE pending' \subseteq pending
<1>1. CASE \E p \in Procs : Arrive(p) \/ BecomeReady(p)
  BY <1>1 DEF Arrive, BecomeReady, Admit, WakeUp
<1>2. CASE \E c \in Cores : SliceCompletes(c) \/ SliceBlocks(c) \/ SlicePreempted(c)
  BY <1>2 DEF SliceCompletes, SliceBlocks, SlicePreempted, Complete, Block, Preempt, EndRun
<1>3. CASE \E p \in ready : \E s \in SlicesFor(p) : NextSlice(s)
  BY <1>3 DEF NextSlice, Pick
<1>4. CASE StopPicking \/ UNCHANGED vars
  BY <1>4 DEF StopPicking, PicksDone, vars, engineVars
<1>5. CASE EngineStep
  BY <1>5 DEF EngineStep, Create, Reject, ArrivalsDone, WakeupsDone, EndsDone, SwitchIn,
              SwitchInsDone, InstantDone, Place, PlacesDone, Advance, CloseTimeline, Return,
              Terminated, engineVars
<1> QED
  BY <1>1, <1>2, <1>3, <1>4, <1>5 DEF Next

\* the processes that have been chosen and have not yet given their core back
Taken == Picked \cup OnCore

LEMMA TakenType == Inv => Taken \subseteq Procs
<1> SUFFICES ASSUME Inv, NEW p \in Taken PROVE p \in Procs
  OBVIOUS
<1>1. CASE p \in Picked
  <2>1. PICK i \in DOMAIN picks : p = picks[i].proc
    BY <1>1 DEF Picked
  <2>2. picks[i] \in Slices
    BY DEF Inv, TypeOK
  <2> QED BY <2>1, <2>2 DEF Slices
<1>2. CASE p \in OnCore
  BY <1>2 DEF OnCore, Busy, Free, Inv, TypeOK, CoreStructs
<1> QED BY <1>1, <1>2 DEF Taken

LEMMA EndRunTaken ==
    ASSUME Inv, NEW c \in Cores, EndRun(c)
    PROVE  Taken' = Taken \ {core[c].proc}
<1>1. OnCore' = OnCore \ {core[c].proc} /\ core[c].proc \in OnCore
  BY EndRunFacts
<1>2. Picked' = Picked
  BY DEF EndRun, Picked
<1>3. Picked \cap OnCore = {}
  BY DEF Inv, OnePlace
<1> QED BY <1>1, <1>2, <1>3 DEF Taken

\* placing a pick removes one
LEMMA PlacePicks ==
    ASSUME Inv, NEW c \in Cores, NEW i \in DOMAIN picks, Place(i, c)
    PROVE  \A j \in DOMAIN picks' : \E k \in DOMAIN picks : picks'[j] = picks[k]
<1>1. picks \in Seq(Slices) /\ picks' = RemoveAt(picks, i)
  BY DEF Place, Inv, TypeOK
<1>2. Len(picks) \in Nat /\ i \in 1..Len(picks) /\ DOMAIN picks = 1..Len(picks)
  BY <1>1
<1>3. /\ DOMAIN picks' = 1..(Len(picks) - 1)
      /\ \A j \in DOMAIN picks' : picks'[j] = IF j < i THEN picks[j] ELSE picks[j + 1]
  <2>1. Len(picks') = Len(picks) - 1 /\ picks' \in Seq(Slices)
    BY <1>1, <1>2, RemoveAtFacts
  <2>2. DOMAIN picks' = 1..(Len(picks) - 1)
    BY <2>1
  <2> QED BY <1>1, <1>2, <2>2, RemoveAtFacts
<1>4. \A j \in DOMAIN picks' : j \in DOMAIN picks /\ j + 1 \in DOMAIN picks
  BY <1>2, <1>3
<1> QED BY <1>3, <1>4

\* only placing a pick gives a core a process or a length
LEMMA QuietCores ==
    ASSUME Inv, EngineStep, ~\E c \in Cores, i \in DOMAIN picks : Place(i, c)
    PROVE  \A c \in Cores : core'[c].proc = core[c].proc /\ core'[c].length = core[c].length
<1>1. CASE UNCHANGED core
  BY <1>1
<1>2. CASE EndsDone
  BY <1>2 DEF EndsDone, Inv, TypeOK, CoreStructs
<1>3. CASE \E c \in Cores : SwitchIn(c)
  <2>1. PICK c \in Cores : SwitchIn(c)
    BY <1>3
  <2>2. core \in [Cores -> CoreStructs]
    BY DEF Inv, TypeOK
  <2> QED BY <2>1, <2>2 DEF SwitchIn, Begun, CoreStructs
<1> QED
  BY <1>1, <1>2, <1>3 DEF EngineStep, Create, Reject, ArrivalsDone, WakeupsDone,
     SwitchInsDone, InstantDone, PlacesDone, Advance, CloseTimeline, Return,
     Terminated, engineVars

\* every process on its way to a core came through a choice of the policy
LEMMA TakenKept ==
    ASSUME Inv, [Next]_vars
    PROVE  \/ Taken' \subseteq Taken
           \/ \E p \in ready : ready' = ready \ {p} /\ Taken' = Taken \cup {p}
<1>1. CASE \E p \in Procs : Arrive(p) \/ BecomeReady(p)
  BY <1>1 DEF Arrive, BecomeReady, Admit, WakeUp, Taken, Picked, OnCore, Busy, Free
<1>2. CASE \E c \in Cores : SliceCompletes(c) \/ SliceBlocks(c) \/ SlicePreempted(c)
  <2>1. PICK c \in Cores : EndRun(c)
    BY <1>2 DEF SliceCompletes, SliceBlocks, SlicePreempted, Complete, Block, Preempt
  <2> QED BY <2>1, EndRunTaken
<1>3. CASE \E p \in ready : \E s \in SlicesFor(p) : NextSlice(s)
  <2>1. PICK p \in ready : \E s \in SlicesFor(p) : NextSlice(s)
    BY <1>3
  <2>a. PICK s \in SlicesFor(p) : NextSlice(s)
    BY <2>1
  <2>2. s.proc = p /\ s \in Slices
    BY <2>a, SlicesForFacts DEF NextSlice, Pick, WantsPick
  <2>3. picks' = Append(picks, s) /\ core' = core /\ ready' = ready \ {p}
    BY <2>a, <2>2 DEF NextSlice, Pick
  <2>4. Picked' = Picked \cup {p}
    <3>1. picks \in Seq(Slices) /\ Len(picks) \in Nat
      BY DEF Inv, TypeOK
    <3>2. /\ DOMAIN picks' = 1..(Len(picks) + 1) /\ DOMAIN picks = 1..Len(picks)
          /\ \A i \in 1..Len(picks) : picks'[i] = picks[i]
          /\ picks'[Len(picks) + 1] = s
      BY <2>2, <2>3, <3>1, AppendProperties
    <3>3. 1..(Len(picks) + 1) = 1..Len(picks) \cup {Len(picks) + 1}
      BY <3>1
    <3> QED BY <2>2, <3>2, <3>3 DEF Picked
  <2>5. OnCore' = OnCore
    BY <2>3 DEF OnCore, Busy, Free
  <2> QED BY <2>3, <2>4, <2>5 DEF Taken
<1>4. CASE StopPicking \/ UNCHANGED vars
  BY <1>4 DEF StopPicking, PicksDone, vars, engineVars, Taken, Picked, OnCore, Busy, Free
<1>5. CASE EngineStep
  <2>1. CASE \E c \in Cores, i \in DOMAIN picks : Place(i, c)
    <3>1. PICK c \in Cores, i \in DOMAIN picks : Place(i, c)
      BY <2>1
    <3> DEFINE p == picks[i].proc
    <3>2. \A d \in Cores \ {c} : core'[d] = core[d]
      BY <3>1, PlaceFacts
    <3>3. core'[c].proc = p
      BY <3>1, PlaceFacts
    <3>4. OnCore' \subseteq OnCore \cup {p}
      BY <3>2, <3>3 DEF OnCore, Busy, Free
    <3>5. Picked' \subseteq Picked /\ p \in Picked
      BY <3>1, PlacePicks DEF Picked
    <3> HIDE DEF p
    <3> QED BY <3>4, <3>5 DEF Taken
  <2>2. CASE ~\E c \in Cores, i \in DOMAIN picks : Place(i, c)
    <3>1. UNCHANGED picks
      BY <1>5, <2>2 DEF EngineStep, Create, Reject, ArrivalsDone, WakeupsDone, EndsDone, SwitchIn,
                  SwitchInsDone, InstantDone, PlacesDone, Advance, CloseTimeline, Return,
                  Terminated, engineVars
    <3>2. \A c \in Cores : core'[c].proc = core[c].proc
      BY <1>5, <2>2, QuietCores
    <3>3. Picked' = Picked /\ Busy' = Busy /\ OnCore' = OnCore
      BY <3>1, <3>2 DEF Picked, Busy, Free, OnCore
    <3> QED BY <3>3 DEF Taken
  <2> QED BY <2>1, <2>2
<1> QED BY <1>1, <1>2, <1>3, <1>4, <1>5 DEF Next

\* the slices granted and not yet over: a process and the length it was given
Granted ==
    {<<picks[i].proc, picks[i].length>> : i \in DOMAIN picks}
    \cup {<<core[c].proc, core[c].length>> : c \in Busy}

LEMMA GrantedTaken == \A x \in Granted : x[1] \in Taken
BY DEF Granted, Taken, Picked, OnCore

LEMMA EndRunGranted ==
    ASSUME Inv, NEW c \in Cores, EndRun(c)
    PROVE  Granted' \subseteq Granted
<1>1. Busy' = Busy \ {c} /\ \A d \in Cores \ {c} : core'[d] = core[d]
  BY EndRunFacts
<1>2. picks' = picks
  BY DEF EndRun
<1>3. \A d \in Busy' : d \in Busy /\ core'[d] = core[d]
  BY <1>1 DEF Busy
<1> QED BY <1>2, <1>3 DEF Granted

\* the engine grants nothing
LEMMA EngineGranted == ASSUME Inv, EngineStep PROVE Granted' \subseteq Granted
<1>1. CASE \E c \in Cores, i \in DOMAIN picks : Place(i, c)
  <2>1. PICK c \in Cores, i \in DOMAIN picks : Place(i, c)
    BY <1>1
  <2>2. \A d \in Cores \ {c} : core'[d] = core[d]
    BY <2>1, PlaceFacts
  <2>3. core'[c].proc = picks[i].proc /\ core'[c].length = picks[i].length
    BY <2>1, PlaceFacts
  <2>4. \A d \in Busy' :
           \/ d \in Busy /\ core'[d] = core[d]
           \/ core'[d].proc = picks[i].proc /\ core'[d].length = picks[i].length
    BY <2>2, <2>3 DEF Busy, Free
  <2>5. \A j \in DOMAIN picks' : \E k \in DOMAIN picks : picks'[j] = picks[k]
    BY <2>1, PlacePicks
  <2> QED BY <2>1, <2>4, <2>5 DEF Granted
<1>2. CASE ~\E c \in Cores, i \in DOMAIN picks : Place(i, c)
  <2>1. UNCHANGED picks
    BY <1>2 DEF EngineStep, Create, Reject, ArrivalsDone, WakeupsDone, EndsDone, SwitchIn,
                SwitchInsDone, InstantDone, PlacesDone, Advance, CloseTimeline, Return,
                Terminated, engineVars
  <2>2. \A c \in Cores : core'[c].proc = core[c].proc /\ core'[c].length = core[c].length
    BY <1>2, QuietCores
  <2>3. Busy' = Busy
    BY <2>2 DEF Busy, Free
  <2> QED BY <2>1, <2>2, <2>3 DEF Granted, Busy
<1> QED BY <1>1, <1>2

\* a grant is made by the policy, and is kept to
LEMMA GrantedKept ==
    ASSUME Inv, [Next]_vars
    PROVE  \/ Granted' \subseteq Granted
           \/ \E s \in Slices : picks' = Append(picks, s) /\ core' = core
                               /\ Granted' = Granted \cup {<<s.proc, s.length>>}
<1>1. CASE \E p \in Procs : Arrive(p) \/ BecomeReady(p)
  BY <1>1 DEF Arrive, BecomeReady, Admit, WakeUp, Granted, Busy, Free
<1>2. CASE \E c \in Cores : SliceCompletes(c) \/ SliceBlocks(c) \/ SlicePreempted(c)
  <2>1. PICK c \in Cores : EndRun(c)
    BY <1>2 DEF SliceCompletes, SliceBlocks, SlicePreempted, Complete, Block, Preempt
  <2> QED BY <2>1, EndRunGranted
<1>3. CASE \E p \in ready : \E s \in SlicesFor(p) : NextSlice(s)
  <2>1. PICK p \in ready : \E s \in SlicesFor(p) : NextSlice(s)
    BY <1>3
  <2>a. PICK s \in SlicesFor(p) : NextSlice(s)
    BY <2>1
  <2>2. s.proc = p /\ s \in Slices
    BY <2>a, SlicesForFacts DEF NextSlice, Pick, WantsPick
  <2>3. picks' = Append(picks, s) /\ core' = core
    BY <2>a DEF NextSlice, Pick
  <2>4. Busy' = Busy
    BY <2>3 DEF Busy, Free
  <2>5. {<<picks'[i].proc, picks'[i].length>> : i \in DOMAIN picks'}
          = {<<picks[i].proc, picks[i].length>> : i \in DOMAIN picks} \cup {<<s.proc, s.length>>}
    <3>1. picks \in Seq(Slices) /\ Len(picks) \in Nat
      BY DEF Inv, TypeOK
    <3>2. /\ DOMAIN picks' = 1..(Len(picks) + 1) /\ DOMAIN picks = 1..Len(picks)
          /\ \A i \in 1..Len(picks) : picks'[i] = picks[i]
          /\ picks'[Len(picks) + 1] = s
      BY <2>2, <2>3, <3>1, AppendProperties
    <3>3. 1..(Len(picks) + 1) = 1..Len(picks) \cup {Len(picks) + 1}
      BY <3>1
    <3> QED BY <3>2, <3>3
  <2> QED BY <2>2, <2>3, <2>4, <2>5 DEF Granted
<1>4. CASE StopPicking \/ UNCHANGED vars
  BY <1>4 DEF StopPicking, PicksDone, vars, engineVars, Granted, Busy, Free
<1>5. CASE EngineStep
  BY <1>5, EngineGranted
<1> QED BY <1>1, <1>2, <1>3, <1>4, <1>5 DEF Next

LEMMA ClockKept == ASSUME [Next]_vars, ~Advance PROVE now' = now
<1>1. CASE \E p \in Procs : Arrive(p) \/ BecomeReady(p)
  BY <1>1 DEF Arrive, BecomeReady, Admit, WakeUp
<1>2. CASE \E c \in Cores : SliceCompletes(c) \/ SliceBlocks(c) \/ SlicePreempted(c)
  BY <1>2 DEF SliceCompletes, SliceBlocks, SlicePreempted, Complete, Block, Preempt, EndRun
<1>3. CASE \E p \in ready : \E s \in SlicesFor(p) : NextSlice(s)
  BY <1>3 DEF NextSlice, Pick
<1>4. CASE StopPicking \/ UNCHANGED vars
  BY <1>4 DEF StopPicking, PicksDone, vars, engineVars
<1>5. CASE EngineStep
  BY <1>5 DEF EngineStep, Create, Reject, ArrivalsDone, WakeupsDone, EndsDone, SwitchIn,
              SwitchInsDone, InstantDone, Place, PlacesDone, CloseTimeline, Return,
              Terminated, engineVars
<1> QED
  BY <1>1, <1>2, <1>3, <1>4, <1>5 DEF Next

\* what the first loops of an instant leave alone
LEMMA EarlyKept ==
    ASSUME [Next]_vars, stage' \in {"create", "arrivals", "wakeups"}, ~Advance
    PROVE  /\ now' = now /\ Taken' = Taken
           /\ stage \in {"create", "arrivals", "wakeups"}
           /\ stage' # "wakeups" => stage # "wakeups"
           /\ blocked' \subseteq blocked
<1> DEFINE Quiet == UNCHANGED <<now, core, picks>>
<1>1. Quiet => Taken' = Taken
  BY DEF Taken, Picked, OnCore, Busy, Free
<1>2. CASE \E p \in Procs : Arrive(p) \/ BecomeReady(p)
  BY <1>1, <1>2 DEF Arrive, BecomeReady, Admit, WakeUp
<1>3. CASE \E c \in Cores : SliceCompletes(c) \/ SliceBlocks(c) \/ SlicePreempted(c)
  BY <1>3 DEF SliceCompletes, SliceBlocks, SlicePreempted, Complete, Block, Preempt, EndRun,
              SliceEnds
<1>4. CASE \E p \in ready : \E s \in SlicesFor(p) : NextSlice(s)
  BY <1>4 DEF NextSlice, Pick, WantsPick
<1>5. CASE StopPicking \/ UNCHANGED vars
  BY <1>1, <1>5 DEF StopPicking, PicksDone, vars, engineVars
<1>6. CASE EngineStep
  BY <1>1, <1>6 DEF EngineStep, Create, Reject, ArrivalsDone, WakeupsDone, EndsDone, SwitchIn,
              SwitchInsDone, InstantDone, Place, PlacesDone, CloseTimeline, Return,
              Terminated, engineVars
<1> QED BY <1>2, <1>3, <1>4, <1>5, <1>6 DEF Next
-----------------------------------------------------------------------------
(* Who competes for the CPU: what a policy that counts them has to follow  *)

Competing == ready \cup Picked \cup OnCore

LEMMA TakenTypeNext == Inv' => (Taken \subseteq Procs)'
BY TakenType, PTL

LEMMA CompetingIs ==
    ASSUME Inv, ~Emptied
    PROVE  Competing = Procs \ (pending \cup blocked \cup Completed)
<1>1. ready \subseteq Procs /\ Picked \cup OnCore \subseteq Procs
  BY TakenType DEF Taken, Inv, TypeOK
<1> QED BY <1>1 DEF Competing, Inv, OnePlace

LEMMA CompetingJoin ==
    ASSUME Inv, NEW p \in Procs, Arrive(p) \/ BecomeReady(p)
    PROVE  ~Emptied /\ p \notin Competing /\ Competing' = Competing \cup {p}
<1>1. ~Emptied /\ p \in pending \cup blocked
  BY DEF Arrive, BecomeReady, Admit, WakeUp, Emptied, IsFirst
<1>2. p \notin Competing
  BY <1>1 DEF Inv, OnePlace, Competing
<1> QED
  BY <1>1, <1>2 DEF Competing, Arrive, BecomeReady, Admit, WakeUp, Picked, OnCore, Busy, Free

LEMMA CompetingLeave ==
    ASSUME Inv, NEW c \in Cores, SliceCompletes(c) \/ SliceBlocks(c)
    PROVE  /\ ~Emptied /\ core[c].proc \in Competing
           /\ Competing' = Competing \ {core[c].proc}
<1>1. EndRun(c) /\ ready' = ready
  BY DEF SliceCompletes, SliceBlocks, Complete, Block
<1>2. ~Emptied
  BY <1>1, SliceEndFacts DEF Emptied, EndRun
<1>3. OnCore' = OnCore \ {core[c].proc} /\ core[c].proc \in OnCore
  BY <1>1, EndRunFacts
<1>4. Picked' = Picked
  BY <1>1 DEF EndRun, Picked
<1>5. ready \cap OnCore = {} /\ Picked \cap OnCore = {}
  BY DEF Inv, OnePlace
<1> QED BY <1>1, <1>2, <1>3, <1>4, <1>5 DEF Competing

LEMMA CompetingStay ==
    ASSUME Inv, Inv', ~Emptied',
           \/ \E c \in Cores : SlicePreempted(c)
           \/ \E p \in ready : \E s \in SlicesFor(p) : NextSlice(s)
           \/ StopPicking
           \/ EngineStep /\ UNCHANGED ready
    PROVE  ~Emptied /\ Competing' = Competing
<1>1. UNCHANGED <<pending, blocked>>
  BY DEF SlicePreempted, Preempt, EndRun, NextSlice, Pick, StopPicking, PicksDone, EngineStep,
     Create, Reject, ArrivalsDone, WakeupsDone, EndsDone, SwitchIn, SwitchInsDone, InstantDone,
     Place, PlacesDone, Advance, CloseTimeline, Return, Terminated, engineVars
<1>2. Completed' = Completed
  <2>1. CASE \E c \in Cores : SwitchIn(c)
    <3>1. PICK c \in Cores : SwitchIn(c)
      BY <2>1
    <3>2. core[c].proc \in Procs
      BY <3>1 DEF SwitchIn, IsLowest, SwitchedIn, Busy, Free, Inv, TypeOK, CoreStructs
    <3>3. outcome' = BegunOutcome(core[c].proc)
      BY <3>1 DEF SwitchIn, BegunOutcome, Inv, TypeOK, CoreStructs
    <3> QED BY <3>2, <3>3, BegunOutcomeFacts
  <2>2. CASE \E c \in Cores, i \in DOMAIN picks : Place(i, c)
    BY <2>2, PlaceFacts
  <2>3. CASE UNCHANGED outcome
    BY <2>3 DEF Completed
  <2>4. CASE Return
    BY <2>3, <2>4 DEF Return, Emptied, StatusOf
  <2> QED
    BY <2>1, <2>2, <2>3, <2>4
    DEF SlicePreempted, Preempt, EndRun, NextSlice, Pick, StopPicking, PicksDone, EngineStep,
        Create, Reject, ArrivalsDone, WakeupsDone, EndsDone, SwitchInsDone, InstantDone,
        PlacesDone, Advance, CloseTimeline, Terminated, engineVars, resultVars
<1>3. ~Emptied
  <2>1. stage = "done" => Terminated
    BY DEF SlicePreempted, Preempt, EndRun, SliceEnds, NextSlice, Pick, WantsPick, StopPicking,
       PicksDone, EngineStep, Create, Reject, ArrivalsDone, WakeupsDone, EndsDone, SwitchIn,
       SwitchInsDone, InstantDone, Place, PlacesDone, Advance, CloseTimeline, Return
  <2> QED BY <2>1 DEF Emptied, Terminated, engineVars, resultVars
<1>4. (Competing = Procs \ (pending \cup blocked \cup Completed))'
  <2>1. (ready \subseteq Procs)' /\ (Picked \cup OnCore \subseteq Procs)'
    BY TakenTypeNext DEF Taken, Inv, TypeOK
  <2> QED BY <2>1 DEF Competing, Inv, OnePlace
<1> QED BY <1>1, <1>2, <1>3, <1>4, CompetingIs
-----------------------------------------------------------------------------
(* Free switches: who waits while others run.  If switches cost nothing no *)
(* core is ever switching in, so a new decision takes every core back, and *)
(* a slice is cut before its end only by a deadline that caused one.       *)

FreeInv ==
    stage # "done" =>
        /\ \A c \in Busy : /\ ~core[c].inCs /\ now <= core[c].deadline
                           /\ core[c].busyUntil = Lesser(core[c].deadline, core[c].runEnd)
        /\ stage \in Early => \A c \in Busy : /\ core[c].runStart < now
                                              /\ core[c].deadline = now => cause
        /\ stage \notin Early => \A c \in Busy : now < core[c].deadline
        /\ stage \in {"switchins", "interrupts"} => \A c \in Busy : core[c].runEnd # now

\* the cores that run while a process waits, unless all is to be decided again
Facing == IF stage \in Early /\ cause THEN {} ELSE Busy \X ready

LEMMA PlaceFree ==
    ASSUME CsCost = 0, Inv, NEW c \in Cores, NEW i \in DOMAIN picks, Place(i, c)
    PROVE  /\ core'[c].proc = picks[i].proc /\ ~core'[c].inCs /\ core'[c].runStart = now
           /\ core'[c].deadline = picks[i].deadline
           /\ core'[c].busyUntil = Lesser(core'[c].deadline, core'[c].runEnd)
<1> DEFINE s == picks[i]
           taken == [core[c] EXCEPT !.proc = s.proc, !.length = s.length, !.context = s.proc,
                                    !.deadline = s.deadline, !.recheck = FALSE]
<1>1. core' = [core EXCEPT ![c] = Begun(taken)]
  BY DEF Place
<1>2. core \in [Cores -> CoreStructs] /\ core[c] \in CoreStructs
  BY DEF Inv, TypeOK
<1>3. taken.proc = s.proc /\ taken.deadline = s.deadline /\ DOMAIN taken = DOMAIN core[c]
  BY <1>2 DEF CoreStructs
<1>4. DOMAIN taken = {"proc", "inCs", "recheck", "busyUntil", "runStart", "runEnd", "length",
                      "deadline", "context", "freeSince"}
  BY <1>2, <1>3 DEF CoreStructs
<1> HIDE DEF taken, s
<1>5. /\ Begun(taken).proc = taken.proc /\ ~Begun(taken).inCs /\ Begun(taken).runStart = now
      /\ Begun(taken).deadline = taken.deadline
      /\ Begun(taken).busyUntil = Lesser(taken.deadline, Begun(taken).runEnd)
  BY <1>4 DEF Begun
<1>6. core'[c] = Begun(taken)
  BY <1>1, <1>2
<1> QED BY <1>3, <1>5, <1>6 DEF s

LEMMA FreeStill ==
    ASSUME FreeInv, stage # "done", UNCHANGED <<core, now>>,
           cause => cause',
           stage \in Early <=> stage' \in Early,
           stage' \in {"switchins", "interrupts"} => stage \in {"switchins", "interrupts"}
    PROVE  FreeInv'
<1>1. Busy' = Busy
  BY DEF Busy, Free
<1> QED BY <1>1 DEF FreeInv

LEMMA FreeEndRun ==
    ASSUME Inv, FreeInv, NEW c \in Cores, EndRun(c), cause => cause'
    PROVE  FreeInv'
<1>1. Busy' = Busy \ {c} /\ \A d \in Cores \ {c} : core'[d] = core[d]
  BY EndRunFacts
<1>2. \A d \in Busy' : d \in Busy /\ core'[d] = core[d]
  BY <1>1 DEF Busy
<1>3. now' = now /\ stage' = stage
  BY DEF EndRun
<1> QED BY <1>2, <1>3 DEF FreeInv

LEMMA FreeStep == ASSUME CsCost = 0, Inv, FreeInv, [Next]_vars PROVE FreeInv'
<1> SUFFICES ASSUME stage' # "done" PROVE FreeInv'
  BY DEF FreeInv
<1>0. /\ core \in [Cores -> CoreStructs] /\ now \in Times
      /\ \A c \in Busy : core[c] \in CoreStructs
  BY DEF Inv, TypeOK, Busy
<1>1. CASE UNCHANGED vars
  BY <1>1, FreeStill DEF vars, engineVars
<1>2. CASE \E p \in Procs : Arrive(p) \/ BecomeReady(p)
  BY <1>2, FreeStill DEF Arrive, BecomeReady, Admit, WakeUp
<1>3. CASE \E c \in Cores : SliceCompletes(c) \/ SliceBlocks(c) \/ SlicePreempted(c)
  <2>1. PICK c \in Cores : SliceCompletes(c) \/ SliceBlocks(c) \/ SlicePreempted(c)
    BY <1>3
  <2>2. EndRun(c)
    BY <2>1 DEF SliceCompletes, SliceBlocks, SlicePreempted, Complete, Block, Preempt
  <2>3. cause' = cause \/ cause' = (cause \/ stage = "ends")
    BY <2>1 DEF SliceCompletes, SliceBlocks, SlicePreempted, Complete, Block, Preempt
  <2>4. cause => cause'
    BY <2>3, Zenon
  <2> QED BY <2>2, <2>4, FreeEndRun
<1>4. CASE \/ \E p \in ready : \E s \in SlicesFor(p) : NextSlice(s)
           \/ StopPicking \/ PlacesDone \/ CloseTimeline \/ Create \/ ArrivalsDone
           \/ WakeupsDone \/ SwitchInsDone
  BY <1>4, FreeStill
  DEF NextSlice, Pick, WantsPick, StopPicking, PicksDone, PlacesDone, CloseTimeline, Create,
      ArrivalsDone, WakeupsDone, SwitchInsDone, resultVars, Early
<1>5. CASE EndsDone
  <2>1. core' = core
    <3>1. \A c \in Cores : (IF c \in Busy /\ core[c].inCs /\ Redecide
                            THEN [core[c] EXCEPT !.recheck = TRUE] ELSE core[c]) = core[c]
      BY <1>5 DEF FreeInv, EndsDone
    <3> QED BY <1>0, <1>5, <3>1 DEF EndsDone
  <2>2. Busy' = Busy
    BY <2>1 DEF Busy, Free
  <2>3. \A c \in Busy : core[c].runEnd # now
    BY <1>5 DEF EndsDone, FullLength, Running, FreeInv
  <2> QED BY <1>5, <2>1, <2>2, <2>3 DEF EndsDone, FreeInv, Early
<1>6. CASE \E c \in Cores : SwitchIn(c)
  BY <1>6 DEF SwitchIn, IsLowest, SwitchedIn, FreeInv
<1>7. CASE InstantDone
  <2>1. Busy' = Busy /\ UNCHANGED <<core, now>>
    BY <1>7 DEF InstantDone, Busy, Free
  <2>2. stage = "interrupts" /\ stage' \in {"picks", "finish"}
    BY <1>7 DEF InstantDone
  <2>3. ASSUME NEW c \in Busy PROVE now < core[c].deadline
    <3>1. c \in Running /\ core[c].runStart < now
      BY <2>2 DEF FreeInv, Running, Early
    <3>2. core[c].busyUntil # now
      BY <1>0, <1>7, <3>1 DEF InstantDone, Interrupted, Times, CoreStructs
    <3>3. now <= core[c].busyUntil
      BY <2>2 DEF Inv, NothingMissed
    <3>4. core[c].busyUntil = Lesser(core[c].deadline, core[c].runEnd)
      BY <2>2 DEF FreeInv
    <3> QED BY <1>0, <3>2, <3>3, <3>4 DEF Lesser, Times, CoreStructs
  <2>4. \A c \in Busy : now < core[c].deadline
    BY <2>3
  <2> QED BY <2>1, <2>2, <2>4 DEF FreeInv, Early
<1>8. CASE \E c \in Cores, i \in DOMAIN picks : Place(i, c)
  <2>1. PICK c \in Cores, i \in DOMAIN picks : Place(i, c)
    BY <1>8
  <2>2. \A d \in Cores \ {c} : core'[d] = core[d]
    BY <2>1, PlaceFacts
  <2>3. /\ ~core'[c].inCs /\ core'[c].deadline = picks[i].deadline
        /\ core'[c].busyUntil = Lesser(core'[c].deadline, core'[c].runEnd)
    BY <2>1, PlaceFree
  <2>4. stage = "place" /\ stage' = "place" /\ now' = now
    BY <2>1 DEF Place
  <2>5. now < picks[i].deadline /\ picks[i] \in Slices
    BY <2>1, <2>4, PlaceFacts DEF Inv, HasWork
  <2>6. \A d \in Busy' : d = c \/ (d \in Busy /\ core'[d] = core[d])
    BY <2>2 DEF Busy, Free
  <2> QED BY <1>0, <2>3, <2>4, <2>5, <2>6 DEF FreeInv, Early, Times, Slices
<1>9. CASE Advance
  <2>1. now < now' /\ now' \in Times
    BY <1>9, AdvanceFacts
  <2>2. stage = "advance" /\ stage' = "arrivals" /\ core' = core /\ Busy' = Busy
    BY <1>9 DEF Advance, Busy, Free
  <2>3. PICK t \in EventTimes : (\A u \in EventTimes : t <= u) /\ now' = t /\ cause' = CutAt(t)
    BY <1>9 DEF Advance
  <2>4. ASSUME NEW c \in Busy
        PROVE  now' <= core[c].deadline /\ core[c].runStart < now'
               /\ (core[c].deadline = now' => cause')
    <3>1. now < core[c].deadline /\ ~core[c].inCs
      BY <2>2 DEF FreeInv, Early
    <3>2. core[c].deadline \in EventTimes
      BY <3>1 DEF EventTimes
    <3>3. core[c].runStart <= now
      BY <2>2, <3>1 DEF Inv, SlicesFit, Running
    <3>4. core[c].deadline = t => cause'
      BY <2>3 DEF CutAt
    <3> QED BY <1>0, <2>1, <2>3, <3>2, <3>3, <3>4 DEF Times, CoreStructs
  <2> QED BY <2>2, <2>4 DEF FreeInv, Early
<1>10. CASE Reject \/ Return \/ Terminated
  BY <1>10 DEF Reject, Return, Terminated, engineVars
<1> QED
  BY <1>1, <1>2, <1>3, <1>4, <1>5, <1>6, <1>7, <1>8, <1>9, <1>10 DEF Next, EngineStep

LEMMA FreeInit == Init => FreeInv
BY DEF Init, EngineInit, FreshCore, FreeInv, Busy, Free

(* A core comes to run while a process waits only because dispatch gave it *)
(* a pick: a process becomes ready by an event that causes a new decision  *)
(* or when its slice is used up, which causes one too, and then every core *)
(* is taken back before the next dispatch.                                 *)
LEMMA FacingStep ==
    ASSUME CsCost = 0, PreemptOnReady, Inv, FreeInv, [Next]_vars, stage' # "done",
           NEW c, NEW p, <<c, p>> \in Facing'
    PROVE  /\ c \in Cores /\ p \in ready
           /\ \/ <<c, p>> \in Facing /\ core'[c] = core[c]
              \/ /\ stage = "place" /\ now' = now
                 /\ \E i \in DOMAIN picks : core'[c].proc = picks[i].proc
                                            /\ core'[c].runStart = now
                                            /\ core'[c].deadline = picks[i].deadline
<1>0. c \in Busy' /\ p \in ready' /\ ~(stage' \in Early /\ cause') /\ c \in Cores
  BY DEF Facing, Busy, Cores
<1> DEFINE Kept == UNCHANGED <<core, ready>> /\ ~(stage \in Early /\ cause)
<1>1. Kept => p \in ready /\ <<c, p>> \in Facing /\ core'[c] = core[c]
  BY <1>0 DEF Facing, Busy, Free
<1> HIDE DEF Kept
<1>2. CASE UNCHANGED vars
  BY <1>0, <1>1, <1>2 DEF Kept, vars, engineVars
<1>3. CASE \E q \in Procs : Arrive(q) \/ BecomeReady(q)
  BY <1>0, <1>3 DEF Arrive, BecomeReady, Admit, WakeUp, Early
<1>4. CASE \E d \in Cores : SliceCompletes(d) \/ SliceBlocks(d) \/ SlicePreempted(d)
  <2>1. PICK d \in Cores : SliceCompletes(d) \/ SliceBlocks(d) \/ SlicePreempted(d)
    BY <1>4
  <2>2. EndRun(d) /\ stage' = stage /\ SliceEnds(d)
    BY <2>1 DEF SliceCompletes, SliceBlocks, SlicePreempted, Complete, Block, Preempt, EndRun
  <2>3. d \in Running /\ stage \in {"ends", "interrupts"} /\ d \in Busy
    BY <2>2, SliceEndFacts DEF Running
  <2>4. Busy' = Busy \ {d} /\ \A e \in Cores \ {d} : core'[e] = core[e]
    BY <2>2, EndRunFacts
  <2>5. c \in Busy /\ core'[c] = core[c]
    BY <1>0, <2>4
  <2>6. CASE SliceCompletes(d) \/ SliceBlocks(d)
    BY <1>0, <2>2, <2>5, <2>6 DEF SliceCompletes, SliceBlocks, Complete, Block, Facing
  <2>7. CASE SlicePreempted(d)
    <3>1. ~cause /\ stage = "interrupts"
      BY <1>0, <2>2, <2>3, <2>7 DEF SlicePreempted, Preempt, Early
    <3>2. core[d].busyUntil = now /\ core[d] \in CoreStructs /\ now \in Times
      BY <2>2, <2>3, <3>1 DEF SliceEnds, IsLowest, Interrupted, Redecide, Inv, TypeOK, Busy
    <3>3. /\ core[d].busyUntil = Lesser(core[d].deadline, core[d].runEnd)
          /\ core[d].deadline # now /\ core[d].runEnd # now
      BY <2>3, <3>1 DEF FreeInv, Early
    <3> QED BY <3>2, <3>3 DEF Lesser, Times, CoreStructs
  <2> QED BY <2>1, <2>6, <2>7
<1>5. CASE \E q \in ready : \E s \in SlicesFor(q) : NextSlice(s)
  <2>1. p \in ready /\ stage = "picks" /\ core' = core
    BY <1>0, <1>5 DEF NextSlice, Pick, WantsPick
  <2> QED BY <1>0, <2>1 DEF Facing, Busy, Free, Early
<1>6. CASE EndsDone /\ UNCHANGED ready
  <2>1. core' = core
    <3>1. core \in [Cores -> CoreStructs]
      BY DEF Inv, TypeOK
    <3>2. \A d \in Cores : (IF d \in Busy /\ core[d].inCs /\ Redecide
                            THEN [core[d] EXCEPT !.recheck = TRUE] ELSE core[d]) = core[d]
      BY <1>6 DEF FreeInv, EndsDone
    <3> QED BY <1>6, <3>1, <3>2 DEF EndsDone
  <2> QED BY <1>0, <1>1, <1>6, <2>1 DEF Kept, EndsDone, Early
<1>7. CASE \E d \in Cores : SwitchIn(d)
  BY <1>7 DEF SwitchIn, IsLowest, SwitchedIn, FreeInv
<1>8. CASE InstantDone /\ UNCHANGED ready
  <2>1. stage = "interrupts" /\ core' = core /\ cause' = cause
    BY <1>8 DEF InstantDone
  <2>2. ~cause
    <3> SUFFICES ASSUME cause PROVE FALSE
      OBVIOUS
    <3>1. c \in Busy
      BY <1>0, <2>1 DEF Busy, Free
    <3>2. c \in Running /\ core[c].runStart < now
      BY <2>1, <3>1 DEF FreeInv, Running, Early
    <3>3. core[c].runStart # now
      BY <3>1, <3>2 DEF Inv, TypeOK, Times, CoreStructs, Busy
    <3> QED BY <1>8, <3>2, <3>3 DEF InstantDone, Interrupted, Redecide
  <2> QED BY <1>0, <1>1, <1>8, <2>1, <2>2 DEF Kept
<1>9. CASE \E d \in Cores, i \in DOMAIN picks : Place(i, d) /\ UNCHANGED ready
  <2>1. PICK d \in Cores, i \in DOMAIN picks : Place(i, d) /\ UNCHANGED ready
    BY <1>9
  <2>2. stage = "place" /\ now' = now
    BY <2>1 DEF Place
  <2>3. CASE c = d
    BY <1>0, <2>1, <2>2, <2>3, PlaceFree
  <2>4. CASE c # d
    <3>1. core'[c] = core[c]
      BY <1>0, <2>1, <2>4, PlaceFacts
    <3> QED BY <1>0, <2>1, <2>2, <3>1 DEF Facing, Busy, Free, Early
  <2> QED BY <2>3, <2>4
<1>10. CASE Advance /\ UNCHANGED ready
  BY <1>0, <1>1, <1>10 DEF Advance, Early, Kept
<1>11. CASE /\ UNCHANGED ready
            /\ \/ PicksDone \/ PlacesDone \/ CloseTimeline \/ Create \/ ArrivalsDone
               \/ WakeupsDone \/ SwitchInsDone
  BY <1>0, <1>1, <1>11
  DEF PicksDone, PlacesDone, CloseTimeline, Create, ArrivalsDone, WakeupsDone, SwitchInsDone,
      resultVars, Early, Kept
<1>12. CASE Reject \/ Return \/ Terminated
  BY <1>12 DEF Reject, Return, Terminated, engineVars
<1> QED
  BY <1>2, <1>3, <1>4, <1>5, <1>6, <1>7, <1>8, <1>9, <1>10, <1>11, <1>12
  DEF Next, EngineStep, StopPicking

LEMMA DoneStays == ASSUME Next, stage' # "done" PROVE stage # "done"
BY DEF Next, vars, engineVars, Arrive, Admit, BecomeReady, WakeUp, SliceCompletes,
   SliceBlocks, SlicePreempted, Complete, Block, Preempt, EndRun, SliceEnds, NextSlice,
   Pick, WantsPick, StopPicking, PicksDone, EngineStep, Create, Reject, ArrivalsDone,
   WakeupsDone, EndsDone, SwitchIn, SwitchInsDone, InstantDone, Place, PlacesDone,
   Advance, CloseTimeline, Return, Terminated

\* a slice that is chosen was the policy's answer, and who waits has waited since
LEMMA ChosenStep ==
    ASSUME Inv, Inv', [Next]_vars, stage' # "done", NEW i \in DOMAIN picks', NEW p \in ready'
    PROVE  /\ p \in ready /\ now' = now /\ stage \in {"picks", "place"}
           /\ \/ \E j \in DOMAIN picks : picks'[i] = picks[j]
              \/ \E s : NextSlice(s) /\ picks'[i] = s
<1>1. picks' # <<>> /\ stage' \in {"picks", "place"}
  BY DEF Inv, HasWork
<1>2. CASE \E q \in ready : \E s \in SlicesFor(q) : NextSlice(s)
  <2>1. PICK s : NextSlice(s)
    BY <1>2
  <2>2. picks' = Append(picks, s) /\ ready' \subseteq ready /\ now' = now /\ stage = "picks"
    BY <2>1 DEF NextSlice, Pick, WantsPick
  <2>3. picks \in Seq(Slices) /\ picks' \in Seq(Slices)
    BY DEF Inv, TypeOK
  <2>4. i \in DOMAIN picks \/ i = Len(picks) + 1
    BY <2>2, <2>3
  <2>5. i \in DOMAIN picks => picks'[i] = picks[i]
    BY <2>2, <2>3
  <2>6. i = Len(picks) + 1 => picks'[i] = s
    BY <2>2, <2>3
  <2> QED BY <2>1, <2>2, <2>4, <2>5, <2>6
<1>3. CASE \E c \in Cores, j \in DOMAIN picks : Place(j, c) /\ UNCHANGED ready
  <2>1. PICK c \in Cores, j \in DOMAIN picks : Place(j, c) /\ UNCHANGED ready
    BY <1>3
  <2>2. \E k \in DOMAIN picks : picks'[i] = picks[k]
    BY <2>1, PlacePicks
  <2> QED BY <2>1, <2>2 DEF Place
<1>4. CASE UNCHANGED <<picks, ready, now>>
  <2>1. stage \in {"picks", "place"}
    <3>1. picks # <<>>
      BY <1>1, <1>4
    <3>2. stage # "done"
      BY DoneStays DEF vars, engineVars
    <3> QED BY <3>1, <3>2 DEF Inv, HasWork
  <2> QED BY <1>4, <2>1
<1>5. CASE \/ \E q \in Procs : Arrive(q) \/ BecomeReady(q)
           \/ \E c \in Cores : SliceCompletes(c) \/ SliceBlocks(c) \/ SlicePreempted(c)
           \/ Advance
  BY <1>1, <1>5 DEF Arrive, BecomeReady, Admit, WakeUp, SliceCompletes, SliceBlocks,
     SlicePreempted, Complete, Block, Preempt, EndRun, SliceEnds, Advance
<1>6. CASE StopPicking \/ UNCHANGED vars
  BY <1>4, <1>6 DEF StopPicking, PicksDone, vars, engineVars
<1>7. CASE EngineStep /\ UNCHANGED ready
  BY <1>3, <1>4, <1>5, <1>7
  DEF EngineStep, Create, Reject, ArrivalsDone, WakeupsDone, EndsDone, SwitchIn,
      SwitchInsDone, InstantDone, PlacesDone, CloseTimeline, Return, Terminated, engineVars
<1> QED BY <1>2, <1>5, <1>6, <1>7 DEF Next

\* who stays on a core keeps its burst and what is left of it
LEMMA StayingKept ==
    ASSUME Inv, [Next]_vars, NEW c \in Busy, core'[c] = core[c], NEW p, p = core[c].proc
    PROVE  /\ p \in Procs /\ remaining'[p] = remaining[p] /\ phase'[p] = phase[p]
           /\ predicted'[p] = predicted[p]
<1>0. c \in Cores /\ p \in Procs /\ p # None /\ p \in OnCore
  BY EngineAssumption DEF Inv, TypeOK, CoreStructs, Busy, Free, OnCore
<1>1. CASE \E d \in Cores : SliceCompletes(d) \/ SliceBlocks(d) \/ SlicePreempted(d)
  <2>1. PICK d \in Cores : SliceCompletes(d) \/ SliceBlocks(d) \/ SlicePreempted(d)
    BY <1>1
  <2>2. EndRun(d)
    BY <2>1 DEF SliceCompletes, SliceBlocks, SlicePreempted, Complete, Block, Preempt
  <2>3. Busy' = Busy \ {d}
    BY <2>2, EndRunFacts
  <2>4. c # d
    BY <1>0, <2>3 DEF Busy, Free
  <2>5. core[d].proc # p
    <3>1. d \in Busy
      BY <2>2, SliceEndFacts DEF EndRun, Running
    <3> QED BY <2>4, <3>1 DEF Inv, OnePlace
  <2>6. remaining \in [Procs -> Times] /\ DOMAIN phase = Procs /\ DOMAIN predicted = Procs
    BY DEF Inv, TypeOK
  <2> QED
    BY <1>0, <2>1, <2>5, <2>6
    DEF SliceCompletes, SliceBlocks, SlicePreempted, Complete, Block, Preempt
<1>2. CASE ~\E d \in Cores : SliceCompletes(d) \/ SliceBlocks(d) \/ SlicePreempted(d)
  <2>1. UNCHANGED <<remaining, phase, predicted>>
    BY <1>2 DEF Next, vars, engineVars, procVars, Arrive, Admit, BecomeReady, WakeUp, NextSlice,
       Pick, StopPicking, PicksDone, EngineStep, Create, Reject, ArrivalsDone, WakeupsDone,
       EndsDone, SwitchIn, SwitchInsDone, InstantDone, Place, PlacesDone, Advance,
       CloseTimeline, Return, Terminated
  <2> QED BY <1>0, <2>1
<1> QED BY <1>1, <1>2

LEMMA NeverBack == ASSUME Inv, [Next]_vars PROVE now <= now' /\ now \in Nat /\ now' \in Nat
<1>1. now \in Nat
  BY DEF Inv, TypeOK, Times
<1>2. CASE Advance
  BY <1>1, <1>2, AdvanceFacts DEF Times
<1>3. CASE ~Advance
  BY <1>1, <1>3, ClockKept
<1> QED BY <1>1, <1>2, <1>3
=============================================================================
