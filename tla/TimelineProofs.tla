--------------------------- MODULE TimelineProofs ---------------------------
(***************************************************************************)
(* Proofs about the timelines and the clock, for every workload, number of *)
(* cores, switch cost, limit and policy.                                   *)
(***************************************************************************)
EXTENDS Schedules, AnyPolicyProofs, CollectionProofs

-----------------------------------------------------------------------------
(* Timelines and what append() does to one                                 *)

Origin == CHOOSE t \in Times : FirstArrival(t)

WellMade(t) ==
    /\ \A i \in DOMAIN t : t[i].start < t[i].end
    /\ \A i \in 1..(Len(t) - 1) : t[i].end = t[i + 1].start /\ ~SameLabel(t[i], t[i + 1])
    /\ t # <<>> => t[1].start = Origin

\* t covers the time from the first arrival to x
Reaches(t, x) == IF t = <<>> THEN x = Origin ELSE t[Len(t)].end = x

HasKind(t, k) == \E i \in DOMAIN t : t[i].kind = k
LastKind(t) == t[Len(t)].kind

(* The four things append() may do with g and core c of log l.             *)
Dropped(l, g, m) == m = l /\ (g.start >= g.end \/ l.fail # "ok")
Merged(l, c, g, m) ==
    LET t == l.timelines[c] IN
    /\ g.start < g.end /\ l.fail = "ok" /\ t # <<>>
    /\ t[Len(t)].end = g.start /\ SameLabel(t[Len(t)], g)
    /\ m = [l EXCEPT !.timelines[c] = [t EXCEPT ![Len(t)].end = g.end]]
Refused(l, g, m) ==
    /\ g.start < g.end /\ l.fail = "ok" /\ m.fail \in {"limit", "nomem"}
    /\ m = [l EXCEPT !.fail = m.fail]
Added(l, c, g, m) ==
    LET t == l.timelines[c] IN
    /\ g.start < g.end /\ l.fail = "ok" /\ ~Merges(t, g) /\ l.segments < MaxSegments
    /\ m = [l EXCEPT !.timelines[c] = Append(t, g), !.segments = @ + 1]

LEMMA AppendCases ==
    ASSUME NEW l \in Logs, NEW c \in Cores, NEW g \in Segments, NEW m \in AppendSegment(l, c, g)
    PROVE  Dropped(l, g, m) \/ Merged(l, c, g, m) \/ Refused(l, g, m) \/ Added(l, c, g, m)
<1>0. l.segments \in Nat /\ g.start \in Times /\ g.end \in Times
  BY DEF Logs, Segments
<1>1. CASE g.start >= g.end \/ l.fail # "ok"
  BY <1>0, <1>1 DEF AppendSegment, Times, Dropped
<1>2. CASE g.start < g.end /\ l.fail = "ok" /\ Merges(l.timelines[c], g)
  BY <1>0, <1>2 DEF AppendSegment, Merges, SameLabel, Times, Merged
<1>3. CASE g.start < g.end /\ l.fail = "ok" /\ ~Merges(l.timelines[c], g) /\ AtLimit(l)
  <2>1. m = [l EXCEPT !.fail = "limit"]
    BY <1>0, <1>3 DEF AppendSegment, Times
  <2> QED BY <1>3, <2>1 DEF Logs, Refused
<1>4. CASE g.start < g.end /\ l.fail = "ok" /\ ~Merges(l.timelines[c], g) /\ ~AtLimit(l)
  <2>1. \/ m = [l EXCEPT !.timelines[c] = Append(l.timelines[c], g), !.segments = @ + 1]
        \/ m = [l EXCEPT !.fail = "nomem"]
    BY <1>0, <1>4 DEF AppendSegment, Times
  <2>2. l.segments < MaxSegments
    BY <1>0, <1>4, EngineAssumption DEF AtLimit
  <2> QED BY <1>4, <2>1, <2>2 DEF Logs, Refused, Added
<1> QED
  BY <1>0, <1>1, <1>2, <1>3, <1>4 DEF Times

(* Appending a segment that begins where the timeline ends keeps the       *)
(* timeline contiguous, and the segments are counted.                      *)
LEMMA AppendFacts ==
    ASSUME NEW l \in Logs, NEW c \in Cores, NEW g \in Segments, NEW m \in AppendSegment(l, c, g),
           WellMade(l.timelines[c]), g.start <= g.end,
           l.fail = "ok" => Reaches(l.timelines[c], g.start)
    PROVE  /\ m \in Logs /\ \A d \in Cores \ {c} : m.timelines[d] = l.timelines[d]
           /\ WellMade(m.timelines[c])
           /\ m.fail = "ok" => l.fail = "ok" /\ Reaches(m.timelines[c], g.end)
           /\ m.fail = "overflow" => l.fail = "overflow"
           /\ m.segments - l.segments = Len(m.timelines[c]) - Len(l.timelines[c])
           /\ l.segments <= m.segments /\ (l.segments <= MaxSegments => m.segments <= MaxSegments)
           /\ l.fail # "ok" => m = l
<1> DEFINE t == l.timelines[c]
<1>0. /\ t \in Seq(Segments) /\ l.timelines \in [Cores -> Seq(Segments)] /\ Len(t) \in Nat
      /\ l.segments \in Nat /\ g.start \in Times /\ g.end \in Times /\ MaxSegments \in Nat
  <2>1. l.timelines \in [Cores -> Seq(Segments)] /\ l.segments \in Nat
    BY DEF Logs
  <2>2. g.start \in Times /\ g.end \in Times
    BY DEF Segments
  <2>3. MaxSegments \in Nat
    BY EngineAssumption
  <2>4. Len(t) \in Nat
    BY <2>1
  <2> QED BY <2>1, <2>2, <2>3, <2>4
<1>a. m \in Logs
  BY AppendSegmentType
<1>1. CASE Dropped(l, g, m)
  <2>1. l.fail = "ok" => g.start = g.end
    BY <1>0, <1>1 DEF Times, Dropped
  <2>2. l.fail = "ok" => Reaches(t, g.end)
    BY <2>1
  <2> QED BY <1>0, <1>a, <1>1, <2>2 DEF Dropped
<1>2. CASE Merged(l, c, g, m)
  <2> DEFINE u == [t EXCEPT ![Len(t)].end = g.end]
             n == Len(t)
  <2>0. /\ g.start < g.end /\ l.fail = "ok" /\ t # <<>>
        /\ t[n].end = g.start /\ SameLabel(t[n], g)
        /\ m = [l EXCEPT !.timelines[c] = u]
    BY <1>2 DEF Merged
  <2>1. /\ n \in DOMAIN t /\ n \in Nat /\ n >= 1 /\ t[n] \in Segments /\ DOMAIN t = 1..n
    BY <1>0, <2>0
  <2>2. /\ u \in Seq(Segments) /\ Len(u) = n /\ DOMAIN u = 1..n
        /\ \A i \in 1..(n - 1) : u[i] = t[i]
        /\ u[n] = [t[n] EXCEPT !.end = g.end]
    <3>1. [t[n] EXCEPT !.end = g.end] \in Segments
      BY <1>0, <2>1 DEF Segments
    <3> QED BY <1>0, <2>1, <3>1
  <2>3. /\ u[n].start = t[n].start /\ u[n].end = g.end /\ u[n].kind = t[n].kind
        /\ u[n].proc = t[n].proc
    BY <2>1, <2>2 DEF Segments
  <2>4. /\ m.timelines[c] = u /\ m.fail = l.fail /\ m.segments = l.segments
        /\ \A d \in Cores \ {c} : m.timelines[d] = l.timelines[d]
    BY <1>0, <2>0 DEF Logs
  <2> HIDE DEF u
  <2>5. WellMade(u)
    <3>1. \A i \in 1..n : u[i].start < u[i].end
      <4>1. t[n].start \in Times /\ t[n].end \in Times /\ t[n].start < t[n].end
        BY <2>1 DEF WellMade, Segments
      <4>2. u[n].start < u[n].end
        BY <1>0, <2>0, <2>3, <4>1 DEF Times
      <4> TAKE i \in 1..n
      <4>3. CASE i = n
        BY <4>2, <4>3
      <4>4. CASE i # n
        <5>1. i \in 1..(n - 1) /\ i \in DOMAIN t
          BY <2>1, <4>4
        <5> QED BY <2>2, <5>1 DEF WellMade
      <4> QED BY <4>3, <4>4
    <3>2. \A i \in 1..(n - 1) : u[i].end = u[i + 1].start /\ ~SameLabel(u[i], u[i + 1])
      <4> TAKE i \in 1..(n - 1)
      <4>1. t[i].end = t[i + 1].start /\ ~SameLabel(t[i], t[i + 1]) /\ u[i] = t[i]
        BY <2>1, <2>2 DEF WellMade
      <4>2. CASE i + 1 = n
        BY <2>3, <4>1, <4>2 DEF SameLabel
      <4>3. CASE i + 1 # n
        <5>1. i + 1 \in 1..(n - 1)
          BY <2>1, <4>3
        <5> QED BY <2>2, <4>1, <5>1
      <4> QED BY <4>2, <4>3
    <3>3. u[1].start = Origin
      <4>1. t[1].start = Origin
        BY <2>0 DEF WellMade
      <4>2. CASE n = 1
        BY <2>3, <4>1, <4>2
      <4>3. CASE n # 1
        <5> HIDE DEF n
        <5>1. 1 \in 1..(n - 1)
          BY <2>1, <4>3
        <5> QED BY <2>2, <4>1, <5>1
      <4> QED BY <4>2, <4>3
    <3> QED BY <2>2, <3>1, <3>2, <3>3 DEF WellMade
  <2>6. Reaches(u, g.end)
    BY <2>1, <2>2, <2>3 DEF Reaches
  <2>7. /\ m.segments - l.segments = Len(u) - Len(t) /\ l.segments <= m.segments
        /\ l.fail = "ok"
    BY <1>0, <2>0, <2>2, <2>4
  <2> QED BY <1>a, <2>4, <2>5, <2>6, <2>7
<1>3. CASE Refused(l, g, m)
  <2>1. m.timelines = l.timelines /\ m.segments = l.segments /\ m.fail \in {"limit", "nomem"}
        /\ l.fail = "ok"
    BY <1>3 DEF Logs, Refused
  <2> QED BY <1>0, <1>a, <2>1
<1>4. CASE Added(l, c, g, m)
  <2> DEFINE u == Append(t, g)
             n == Len(t)
  <2>0. /\ g.start < g.end /\ l.fail = "ok" /\ ~Merges(t, g) /\ l.segments < MaxSegments
        /\ m = [l EXCEPT !.timelines[c] = u, !.segments = l.segments + 1]
    BY <1>4 DEF Added
  <2>1. /\ u \in Seq(Segments) /\ Len(u) = n + 1 /\ DOMAIN u = 1..(n + 1)
        /\ \A i \in 1..n : u[i] = t[i]
        /\ u[n + 1] = g /\ DOMAIN t = 1..n /\ n \in Nat
    BY <1>0, AppendProperties
  <2>2. /\ m.timelines[c] = u /\ m.fail = l.fail /\ m.segments = l.segments + 1
        /\ \A d \in Cores \ {c} : m.timelines[d] = l.timelines[d]
    BY <1>0, <2>0 DEF Logs
  <2> HIDE DEF u
  <2>3. WellMade(u)
    <3>1. \A i \in 1..(n + 1) : u[i].start < u[i].end
      <4> TAKE i \in 1..(n + 1)
      <4>1. CASE i = n + 1
        BY <2>0, <2>1, <4>1
      <4>2. CASE i # n + 1
        <5>1. i \in 1..n
          BY <2>1, <4>2
        <5> QED BY <2>1, <5>1 DEF WellMade
      <4> QED BY <4>1, <4>2
    <3>2. \A i \in 1..n : u[i].end = u[i + 1].start /\ ~SameLabel(u[i], u[i + 1])
      <4> TAKE i \in 1..n
      <4>1. CASE i = n
        <5>1. t # <<>> /\ u[i] = t[n] /\ u[i + 1] = g
          BY <2>1, <4>1
        <5>2. t[n].end = g.start
          BY <2>0, <5>1 DEF Reaches
        <5>3. ~SameLabel(t[n], g)
          BY <2>0, <5>1, <5>2 DEF Merges, SameLabel
        <5> QED BY <5>1, <5>2, <5>3
      <4>2. CASE i # n
        <5>1. i \in 1..(n - 1) /\ i + 1 \in 1..n
          BY <2>1, <4>2
        <5> QED BY <2>1, <5>1 DEF WellMade
      <4> QED BY <4>1, <4>2
    <3>3. u[1].start = Origin
      <4>1. CASE n = 0
        <5>1. t = <<>>
          BY <1>0, <4>1
        <5>2. g.start = Origin
          BY <2>0, <5>1 DEF Reaches
        <5> QED BY <2>1, <4>1, <5>2
      <4>2. CASE n # 0
        <5>1. t # <<>> /\ 1 \in 1..n
          BY <2>1, <4>2
        <5>2. t[1].start = Origin
          BY <5>1 DEF WellMade
        <5> QED BY <2>1, <5>1, <5>2
      <4> QED BY <4>1, <4>2
    <3> QED BY <2>1, <3>1, <3>2, <3>3 DEF WellMade
  <2>4. Reaches(u, g.end)
    <3>1. u # <<>> /\ u[Len(u)] = g
      BY <2>1
    <3> QED BY <3>1 DEF Reaches
  <2>5. /\ m.segments - l.segments = Len(u) - Len(t) /\ l.segments <= m.segments
        /\ m.segments <= MaxSegments
    BY <1>0, <2>0, <2>1, <2>2
  <2> QED BY <1>0, <1>a, <2>0, <2>2, <2>3, <2>4, <2>5
<1> QED
  BY <1>1, <1>2, <1>3, <1>4, AppendCases

-----------------------------------------------------------------------------
(* The log as a whole: contiguous timelines and the count of their         *)
(* segments                                                                *)

Lengths(l) == [c \in Cores |-> Len(l.timelines[c])]
LogWell(l) ==
    /\ \A c \in Cores : WellMade(l.timelines[c])
    /\ l.segments <= MaxSegments /\ l.segments = SumFunction(Lengths(l))

LEMMA CoresFinite == IsFiniteSet(Cores)
BY FS_Interval, EngineAssumption DEF Cores

LEMMA CountFacts ==
    ASSUME NEW l \in Logs, NEW m \in Logs, NEW c \in Cores,
           \A d \in Cores \ {c} : m.timelines[d] = l.timelines[d],
           m.segments - l.segments = Len(m.timelines[c]) - Len(l.timelines[c]),
           l.segments = SumFunction(Lengths(l))
    PROVE  m.segments = SumFunction(Lengths(m))
<1> DEFINE f == Lengths(l)
           g == Lengths(m)
           r == Cores \ {c}
<1>1. \A d \in Cores : f[d] \in Int /\ g[d] \in Int
  BY DEF Lengths, Logs
<1>2. SumFunction(f) = SumFunctionOnSet(f, Cores) /\ SumFunction(g) = SumFunctionOnSet(g, Cores)
  BY DEF SumFunction, Lengths
<1>3. f[c] = Len(l.timelines[c]) /\ g[c] = Len(m.timelines[c])
  BY DEF Lengths
<1>4. \A d \in r : f[d] = g[d]
  BY DEF Lengths
<1> HIDE DEF f, g
<1>5. /\ SumFunctionOnSet(f, Cores) = f[c] + SumFunctionOnSet(f, r)
      /\ SumFunctionOnSet(g, Cores) = g[c] + SumFunctionOnSet(g, r)
  BY <1>1, SumRemove, CoresFinite
<1>6. SumFunctionOnSet(f, r) = SumFunctionOnSet(g, r)
  BY <1>1, <1>4, SumSame, CoresFinite, FS_RemoveElement
<1>7. SumFunctionOnSet(f, r) \in Int
  BY <1>1, SumInt, CoresFinite, FS_RemoveElement
<1>8. m.segments \in Int /\ l.segments \in Int /\ f[c] \in Int /\ g[c] \in Int
  BY <1>1 DEF Logs
<1>9. l.segments = f[c] + SumFunctionOnSet(f, r)
  BY <1>2, <1>5 DEF f
<1>10. m.segments = g[c] + SumFunctionOnSet(f, r)
  <2>1. m.segments - l.segments = g[c] - f[c]
    BY <1>3
  <2> HIDE DEF r
  <2> QED BY <1>7, <1>8, <1>9, <2>1
<1> QED
  BY <1>2, <1>5, <1>6, <1>10 DEF g

LEMMA AppendKeeps ==
    ASSUME NEW l \in Logs, LogWell(l), NEW c \in Cores, NEW g \in Segments,
           NEW m \in AppendSegment(l, c, g), g.start <= g.end,
           l.fail = "ok" => Reaches(l.timelines[c], g.start)
    PROVE  /\ m \in Logs /\ LogWell(m)
           /\ \A d \in Cores \ {c} : m.timelines[d] = l.timelines[d]
           /\ m.fail = "ok" => l.fail = "ok" /\ Reaches(m.timelines[c], g.end)
<1>1. WellMade(l.timelines[c]) /\ l.segments <= MaxSegments
  BY DEF LogWell
<1>2. /\ m \in Logs /\ \A d \in Cores \ {c} : m.timelines[d] = l.timelines[d]
      /\ WellMade(m.timelines[c])
      /\ m.fail = "ok" => l.fail = "ok" /\ Reaches(m.timelines[c], g.end)
      /\ m.segments - l.segments = Len(m.timelines[c]) - Len(l.timelines[c])
      /\ m.segments <= MaxSegments
  BY <1>1, AppendFacts
<1>3. m.segments = SumFunction(Lengths(m))
  BY <1>2, CountFacts DEF LogWell
<1> QED
  BY <1>2, <1>3 DEF LogWell

\* noting an overflow leaves the timelines alone
LEMMA NoteKeeps ==
    ASSUME NEW l \in Logs, LogWell(l), NEW a, NEW b
    PROVE  LET m == NoteOverflow(l, a, b) IN
           m \in Logs /\ LogWell(m) /\ m.timelines = l.timelines /\ (m.fail = "ok" => l.fail = "ok")
<1> DEFINE m == NoteOverflow(l, a, b)
<1>1. m \in Logs /\ m.timelines = l.timelines /\ m.segments = l.segments
      /\ (m.fail = "ok" => l.fail = "ok")
  BY NoteOverflowType DEF NoteOverflow, Logs
<1> HIDE DEF m
<1>2. LogWell(m)
  BY <1>1 DEF LogWell, Lengths
<1> QED
  BY <1>1, <1>2 DEF m

-----------------------------------------------------------------------------
(* The inductive invariant: every timeline reaches the point from which    *)
(* its core will continue it.                                              *)

Frontier(c) ==
    IF c <= closed THEN now
    ELSE IF Free(c) THEN core[c].freeSince
    ELSE IF core[c].inCs THEN core[c].busyUntil ELSE core[c].runStart

Spans ==
    /\ Origin <= now
    /\ \A c \in Cores : Free(c) => core[c].freeSince <= now
    /\ \A c \in Running : Origin <= core[c].runStart
    /\ Completed # {} => Origin < now
    /\ closed > 0 => stage = "finish"
    /\ log.fail = "ok" => \A c \in Cores : Reaches(log.timelines[c], Frontier(c))
    /\ log.fail = "ok" /\ stage = "finish" => Completed = Procs

TimelineInv ==
    /\ FirstArrival(Origin)
    /\ \A c \in Cores : WellMade(log.timelines[c])
    /\ log.segments <= MaxSegments
    /\ stage # "done" => LogWell(log) /\ Spans /\ status = "running"
    /\ status = "ok" =>
         /\ LogWell(log)
         /\ \A c \in Cores : LET t == log.timelines[c] IN t # <<>> /\ t[Len(t)].end = now

LEMMA OriginType == ASSUME Inv, FirstArrival(Origin) PROVE Origin \in Times
BY WorkloadFacts, EngineAssumption DEF Inv, TypeOK, FirstArrival, Times

LEMMA InitTimelines == Init => TimelineInv
<1> SUFFICES ASSUME Init PROVE TimelineInv
  OBVIOUS
<1> USE DEF Init, EngineInit
<1>1. FirstArrival(now) /\ now \in Times
  BY InitInv DEF FirstArrival, Inv, TypeOK
<1>2. FirstArrival(Origin)
  BY <1>1 DEF Origin
<1>3. Origin = now
  <2>1. Origin \in Times
    BY <1>2, InitInv, OriginType
  <2>2. Origin <= now /\ now <= Origin
    BY <1>1, <1>2 DEF FirstArrival
  <2> QED BY <1>1, <2>1, <2>2 DEF Times
<1>4. \A c \in Cores : log.timelines[c] = <<>>
  OBVIOUS
<1>5. LogWell(log)
  <2>1. \A c \in Cores : WellMade(log.timelines[c])
    BY <1>4 DEF WellMade
  <2>2. Lengths(log) = [c \in Cores |-> 0]
    BY <1>4 DEF Lengths
  <2>3. SumFunction([c \in Cores |-> 0]) = 0
    <3> DEFINE z == [c \in Cores |-> 0]
    <3>1. \A c \in Cores : z[c] \in Int /\ z[c] = 0
      OBVIOUS
    <3>2. SumFunction(z) = SumFunctionOnSet(z, Cores)
      BY DEF SumFunction
    <3> HIDE DEF z
    <3>3. SumFunctionOnSet(z, Cores) = 0
      BY <3>1, CoresFinite, SumZero
    <3> QED BY <3>2, <3>3 DEF z
  <2> QED BY <2>1, <2>2, <2>3, EngineAssumption DEF LogWell
<1>6. \A c \in Cores : Free(c) /\ core[c].freeSince = now /\ ~(c <= closed)
  BY EngineAssumption DEF FreshCore, Free, Cores
<1>7. Completed = {} /\ Running = {}
  BY <1>6 DEF Completed, Running, Busy
<1>8. Spans
  BY <1>1, <1>3, <1>4, <1>6, <1>7 DEF Spans, Frontier, Reaches, Times
<1> QED
  BY <1>2, <1>5, <1>8, EngineAssumption DEF TimelineInv, LogWell

-----------------------------------------------------------------------------
(* Steps *)

\* steps that change neither a core nor a timeline
LEMMA QuietTimelines ==
    ASSUME Inv, TimelineInv, stage # "done", stage' # "done",
           UNCHANGED <<w, now, core, outcome, log, closed, status>>,
           closed > 0 => stage' = "finish",
           log.fail = "ok" /\ stage' = "finish" => Completed = Procs
    PROVE  TimelineInv'
<1>1. Running' = Running /\ Completed' = Completed /\ Origin' = Origin
  BY DEF Running, Busy, Free, Completed, Origin, FirstArrival
<1>2. \A c \in Cores : Frontier(c)' = Frontier(c) /\ (Free(c)' <=> Free(c))
  BY DEF Frontier, Free
<1>3. /\ LogWell(log)' /\ \A c \in Cores : WellMade(log.timelines[c])'
      /\ \A c \in Cores : Reaches(log.timelines[c], Frontier(c))
                            => Reaches(log.timelines[c], Frontier(c))'
  BY <1>1, <1>2 DEF TimelineInv, LogWell, WellMade, Lengths, Reaches
<1>4. Spans'
  BY <1>1, <1>2, <1>3 DEF TimelineInv, Spans
<1> QED
  BY <1>1, <1>3, <1>4 DEF TimelineInv, FirstArrival

(* Steps at a given instant that leave closed and w alone: what remains to *)
(* be shown of the cores and of the log.                                   *)
LEMMA CoreTimelines ==
    ASSUME Inv, TimelineInv, stage # "done", stage # "finish", stage' \notin {"done", "finish"},
           UNCHANGED <<w, now, closed, status>>,
           LogWell(log'), log'.fail = "ok" => log.fail = "ok",
           Completed' = Completed \/ Origin < now,
           \A c \in Cores : core'[c].proc = None => core'[c].freeSince <= now,
           \A c \in Cores : core'[c].proc # None /\ ~core'[c].inCs => Origin <= core'[c].runStart,
           log'.fail = "ok" => \A c \in Cores :
              Reaches(log'.timelines[c],
                      IF core'[c].proc = None THEN core'[c].freeSince
                      ELSE IF core'[c].inCs THEN core'[c].busyUntil ELSE core'[c].runStart)
    PROVE  TimelineInv'
<1>1. Origin' = Origin /\ (FirstArrival(Origin))'
  BY DEF Origin, FirstArrival, TimelineInv
<1>2. closed = 0 /\ closed' = 0
  BY DEF TimelineInv, Spans, Inv, TypeOK
<1>3. LogWell(log)' /\ \A c \in Cores : WellMade(log.timelines[c])'
  BY <1>1 DEF LogWell, WellMade, Lengths
<1>4. \A c \in Cores : Frontier(c)' =
        IF core'[c].proc = None THEN core'[c].freeSince
        ELSE IF core'[c].inCs THEN core'[c].busyUntil ELSE core'[c].runStart
  BY <1>2, EngineAssumption DEF Frontier, Free, Cores
<1>5. log'.fail = "ok" => \A c \in Cores : Reaches(log.timelines[c], Frontier(c))'
  BY <1>1, <1>4 DEF Reaches
<1>6. Spans'
  BY <1>1, <1>2, <1>5 DEF TimelineInv, Spans, Running, Busy, Free
<1> QED
  BY <1>1, <1>3, <1>6 DEF TimelineInv, LogWell

LEMMA EndRunTimelines ==
    ASSUME Inv, TimelineInv, NEW c \in Cores, EndRun(c),
           NEW l \in LogRun(c), NEW io, log' \in {l, NoteOverflow(l, now, io)}
    PROVE  TimelineInv'
<1> DEFINE g == Segment(core[c].runStart, now, core[c].proc, "run")
<1>1. /\ c \in Running /\ core[c] \in CoreStructs /\ stage \in {"ends", "interrupts"}
      /\ 1 <= Ran(c) /\ now \in Times /\ log \in Logs
  BY SliceEndFacts DEF EndRun, Inv, TypeOK
<1>2. Spans /\ LogWell(log) /\ closed = 0
  BY <1>1 DEF TimelineInv, Spans, Inv, TypeOK
<1>3. Frontier(c) = core[c].runStart
  BY <1>1, <1>2, EngineAssumption DEF Frontier, Running, Busy, Cores
<1>4. g \in Segments /\ g.start = core[c].runStart /\ g.end = now /\ g.start < g.end
      /\ g.start <= g.end
  BY <1>1 DEF Segment, Segments, CoreStructs, Ran, Times
<1>5. l \in AppendSegment(log, c, g)
  BY DEF LogRun
<1> HIDE DEF g
<1>6. /\ l \in Logs /\ LogWell(l)
      /\ \A d \in Cores \ {c} : l.timelines[d] = log.timelines[d]
      /\ l.fail = "ok" => log.fail = "ok" /\ Reaches(l.timelines[c], now)
  BY <1>1, <1>2, <1>3, <1>4, <1>5, AppendKeeps DEF Spans
<1>7. /\ log' \in Logs /\ LogWell(log') /\ log'.timelines = l.timelines
      /\ log'.fail = "ok" => l.fail = "ok"
  BY <1>6, NoteKeeps
<1>8. /\ UNCHANGED <<w, stage, now, closed, status>>
      /\ core'[c].proc = None /\ core'[c].freeSince = now
      /\ \A d \in Cores \ {c} : core'[d] = core[d]
  <2>1. core' = [core EXCEPT ![c] = [core[c] EXCEPT !.proc = None, !.freeSince = now]]
    BY DEF EndRun
  <2>2. core \in [Cores -> CoreStructs]
    BY DEF Inv, TypeOK
  <2> QED BY <1>1, <2>1, <2>2 DEF EndRun, CoreStructs
<1>9. Origin < now
  <2>1. Origin <= core[c].runStart /\ Origin \in Times
    BY <1>1, <1>2, OriginType DEF Spans, TimelineInv
  <2> QED BY <1>1, <1>4, <2>1 DEF CoreStructs, Times
<1>10. \A d \in Cores \ {c} : ~(d <= closed)
  BY <1>2, EngineAssumption DEF Cores
<1>11. log'.fail = "ok" => \A d \in Cores :
         Reaches(log'.timelines[d],
                 IF core'[d].proc = None THEN core'[d].freeSince
                 ELSE IF core'[d].inCs THEN core'[d].busyUntil ELSE core'[d].runStart)
  <2> SUFFICES ASSUME log'.fail = "ok", NEW d \in Cores
               PROVE  Reaches(log'.timelines[d],
                         IF core'[d].proc = None THEN core'[d].freeSince
                         ELSE IF core'[d].inCs THEN core'[d].busyUntil ELSE core'[d].runStart)
    OBVIOUS
  <2>1. CASE d = c
    BY <1>6, <1>7, <1>8, <2>1
  <2>2. CASE d # c
    <3>1. Reaches(log.timelines[d], Frontier(d))
      BY <1>2, <1>6, <1>7 DEF Spans
    <3> QED BY <1>6, <1>7, <1>8, <1>10, <2>2, <3>1 DEF Frontier, Free
  <2> QED BY <2>1, <2>2
<1>12. \A d \in Cores : core'[d].proc = None => core'[d].freeSince <= now
  <2>1. now <= now
    BY <1>1 DEF Times
  <2> QED BY <1>2, <1>8, <2>1 DEF Spans, Free
<1>13. \A d \in Cores : core'[d].proc # None /\ ~core'[d].inCs => Origin <= core'[d].runStart
  BY <1>2, <1>8 DEF Spans, Running, Busy, Free
<1> QED
  BY <1>1, <1>6, <1>7, <1>8, <1>9, <1>11, <1>12, <1>13, CoreTimelines

\* marking cores for a recheck changes no timeline
LEMMA EndsDoneTimelines == ASSUME Inv, TimelineInv, EndsDone PROVE TimelineInv'
<1>1. /\ stage = "ends" /\ stage' = "switchins"
      /\ UNCHANGED <<w, now, closed, status, log, outcome>>
  BY DEF EndsDone, resultVars
<1>2. \A c \in Cores :
        /\ core'[c].proc = core[c].proc /\ core'[c].inCs = core[c].inCs
        /\ core'[c].busyUntil = core[c].busyUntil /\ core'[c].runStart = core[c].runStart
        /\ core'[c].freeSince = core[c].freeSince
  <2> TAKE c \in Cores
  <2>1. core[c] \in CoreStructs
    BY DEF Inv, TypeOK
  <2>2. core'[c] = core[c] \/ core'[c] = [core[c] EXCEPT !.recheck = TRUE]
    BY DEF EndsDone
  <2> QED BY <2>1, <2>2 DEF CoreStructs
<1>3. Spans /\ LogWell(log) /\ closed = 0
  BY <1>1 DEF TimelineInv, Spans, Inv, TypeOK
<1>4. \A c \in Cores : Frontier(c) =
        IF core'[c].proc = None THEN core'[c].freeSince
        ELSE IF core'[c].inCs THEN core'[c].busyUntil ELSE core'[c].runStart
  BY <1>2, <1>3, EngineAssumption DEF Frontier, Free, Cores
<1>5. Completed' = Completed
  BY <1>1 DEF Completed
<1> QED
  BY <1>1, <1>2, <1>3, <1>4, <1>5, CoreTimelines DEF Spans, Running, Busy, Free

LEMMA SwitchInTimelines == ASSUME Inv, TimelineInv, NEW c \in Cores, SwitchIn(c) PROVE TimelineInv'
<1> DEFINE k == IF OneTick(c) THEN [core[c] EXCEPT !.deadline = AddTime(now, 1)] ELSE core[c]
           l == IF OneTick(c) THEN NoteOverflow(log, now, 1) ELSE log
<1>1. /\ stage = "switchins" /\ stage' = "switchins"
      /\ core' = [core EXCEPT ![c] = Begun(k)] /\ log' = BegunLog(l, k)
      /\ outcome' = BegunOutcome(k.proc)
      /\ UNCHANGED <<w, now, closed, status>>
  BY DEF SwitchIn
<1>2. /\ c \in Busy /\ core[c].inCs /\ core[c].busyUntil = now
      /\ core[c] \in CoreStructs /\ core[c].proc \in Procs
      /\ core \in [Cores -> CoreStructs] /\ log \in Logs /\ now \in Times
  <2>1. c \in Busy /\ core[c].inCs /\ core[c].busyUntil = now
    BY DEF SwitchIn, IsLowest, SwitchedIn
  <2> QED BY <2>1 DEF Inv, TypeOK, CoreStructs, Busy, Free
<1>3. k.proc = core[c].proc
  BY <1>2 DEF CoreStructs
<1>4. Spans /\ LogWell(log) /\ closed = 0
  BY <1>1 DEF TimelineInv, Spans, Inv, TypeOK
<1>5. l \in Logs /\ LogWell(l) /\ l.timelines = log.timelines /\ (l.fail = "ok" => log.fail = "ok")
  BY <1>2, <1>4, NoteKeeps
<1> HIDE DEF l
<1>6. LogWell(log') /\ log'.timelines = log.timelines /\ (log'.fail = "ok" => log.fail = "ok")
  BY <1>1, <1>5, NoteKeeps DEF BegunLog
<1>7. Begun(k).proc = core[c].proc /\ ~Begun(k).inCs /\ Begun(k).runStart = now
  <2>1. k \in CoreStructs
    <3>1. AddTime(now, 1) \in Times
      <4>1. now < MaxTime
        BY <1>1 DEF Inv, NothingMissed
      <4> QED BY <1>2, <4>1, AddTimeFacts
    <3> QED BY <1>2, <3>1 DEF CoreStructs
  <2> QED BY <1>3, <2>1 DEF Begun, CoreStructs
<1> HIDE DEF k
<1>8. /\ core'[c] = Begun(k) /\ \A d \in Cores \ {c} : core'[d] = core[d]
  BY <1>1, <1>2
<1>9. Completed' = Completed
  BY <1>1, <1>2, <1>3, BegunOutcomeFacts
<1>10. Origin <= now /\ core[c].proc # None
  BY <1>2, <1>4 DEF Spans, Busy, Free
<1>11. log'.fail = "ok" => \A d \in Cores :
         Reaches(log'.timelines[d],
                 IF core'[d].proc = None THEN core'[d].freeSince
                 ELSE IF core'[d].inCs THEN core'[d].busyUntil ELSE core'[d].runStart)
  <2>1. \A d \in Cores : ~(d <= closed)
    BY <1>4, EngineAssumption DEF Cores
  <2>2. log'.fail = "ok" => \A d \in Cores : Reaches(log'.timelines[d], Frontier(d))
    BY <1>4, <1>6 DEF Spans
  <2>3. \A d \in Cores : Frontier(d) =
          IF core'[d].proc = None THEN core'[d].freeSince
          ELSE IF core'[d].inCs THEN core'[d].busyUntil ELSE core'[d].runStart
    BY <1>2, <1>7, <1>8, <1>10, <2>1 DEF Frontier, Free
  <2> QED BY <2>2, <2>3
<1> QED
  BY <1>1, <1>4, <1>6, <1>7, <1>8, <1>9, <1>10, <1>11, CoreTimelines
     DEF Spans, Running, Busy, Free

LEMMA PlaceTimelines ==
    ASSUME Inv, TimelineInv, NEW c \in Cores, NEW i \in DOMAIN picks, Place(i, c)
    PROVE  TimelineInv'
<1> DEFINE s == picks[i]
           taken == [core[c] EXCEPT !.proc = s.proc, !.length = s.length, !.context = s.proc,
                                    !.deadline = s.deadline, !.recheck = FALSE]
           until == AddTime(now, CsCost)
           idle == Segment(core[c].freeSince, now, None, "idle")
           cs == Segment(now, until, s.proc, "cs")
<1>1. PICK l \in AppendSegment(log, c, idle) :
        \/ /\ CsCost > 0
           /\ core' = [core EXCEPT ![c] = [taken EXCEPT !.inCs = TRUE, !.busyUntil = until]]
           /\ log' \in AppendSegment(NoteOverflow(l, now, CsCost), c, cs)
        \/ /\ core' = [core EXCEPT ![c] = Begun(taken)]
           /\ log' = BegunLog(l, taken)
  BY DEF Place
<1>2. /\ stage = "place" /\ stage' = "place" /\ UNCHANGED <<w, now, closed, status>>
      /\ core \in [Cores -> CoreStructs] /\ core[c] \in CoreStructs
      /\ log \in Logs /\ now \in Times /\ now < MaxTime
  BY DEF Place, Inv, TypeOK, NothingMissed
<1>3. /\ Free(c) /\ s \in Slices /\ s.proc # None /\ Completed' = Completed
      /\ \A d \in Cores \ {c} : core'[d] = core[d]
  BY PlaceFacts, EngineAssumption DEF Slices
<1>4. Spans /\ LogWell(log) /\ closed = 0
  BY <1>2 DEF TimelineInv, Spans, Inv, TypeOK
<1>5. \A d \in Cores : ~(d <= closed)
  BY <1>4, EngineAssumption DEF Cores
<1>6. idle \in Segments /\ idle.start = core[c].freeSince /\ idle.end = now
      /\ idle.start <= idle.end
  <2>1. core[c].freeSince <= now
    BY <1>3, <1>4 DEF Spans
  <2> QED BY <1>2, <2>1 DEF Segment, Segments, CoreStructs
<1>7. until \in Times /\ now <= until
  <2>1. until \in Times /\ (CsCost > 0 => until > now) /\ (CsCost = 0 => until = now)
    BY <1>2, AddTimeFacts, EngineAssumption DEF AddTime, Times
  <2> HIDE DEF until
  <2> QED BY <1>2, <2>1, EngineAssumption DEF Times
<1>8. cs \in Segments /\ cs.start = now /\ cs.end = until
  BY <1>2, <1>3, <1>7 DEF Segment, Segments, Slices
<1> HIDE DEF idle, cs, until
<1>9. /\ l \in Logs /\ LogWell(l)
      /\ \A d \in Cores \ {c} : l.timelines[d] = log.timelines[d]
      /\ l.fail = "ok" => log.fail = "ok" /\ Reaches(l.timelines[c], now)
  <2>1. log.fail = "ok" => Reaches(log.timelines[c], core[c].freeSince)
    BY <1>3, <1>4, <1>5 DEF Spans, Frontier
  <2> QED BY <1>1, <1>2, <1>4, <1>6, <2>1, AppendKeeps
<1>10. /\ LogWell(log') /\ core'[c].proc = s.proc
       /\ \A d \in Cores \ {c} : log'.timelines[d] = log.timelines[d]
       /\ ~core'[c].inCs => core'[c].runStart = now
       /\ log'.fail = "ok" =>
            /\ log.fail = "ok"
            /\ Reaches(log'.timelines[c],
                       IF core'[c].inCs THEN core'[c].busyUntil ELSE core'[c].runStart)
  <2>1. CASE /\ CsCost > 0
             /\ core' = [core EXCEPT ![c] = [taken EXCEPT !.inCs = TRUE, !.busyUntil = until]]
             /\ log' \in AppendSegment(NoteOverflow(l, now, CsCost), c, cs)
    <3> DEFINE m == NoteOverflow(l, now, CsCost)
    <3>1. m \in Logs /\ LogWell(m) /\ m.timelines = l.timelines /\ (m.fail = "ok" => l.fail = "ok")
      BY <1>9, NoteKeeps
    <3>2. log' \in AppendSegment(m, c, cs)
      BY <2>1
    <3> HIDE DEF m
    <3>3. m.fail = "ok" => Reaches(m.timelines[c], cs.start)
      BY <1>8, <1>9, <3>1
    <3>4. /\ LogWell(log') /\ \A d \in Cores \ {c} : log'.timelines[d] = m.timelines[d]
          /\ log'.fail = "ok" => m.fail = "ok" /\ Reaches(log'.timelines[c], cs.end)
      BY <1>7, <1>8, <3>1, <3>2, <3>3, AppendKeeps
    <3>5. core'[c].proc = s.proc /\ core'[c].inCs /\ core'[c].busyUntil = until
      BY <1>2, <2>1 DEF CoreStructs
    <3> HIDE DEF s
    <3> QED BY <1>8, <1>9, <3>1, <3>4, <3>5
  <2>2. CASE core' = [core EXCEPT ![c] = Begun(taken)] /\ log' = BegunLog(l, taken)
    <3>1. core'[c].proc = s.proc /\ ~core'[c].inCs /\ core'[c].runStart = now
      BY <1>2, <2>2 DEF Begun, CoreStructs
    <3>2. LogWell(log') /\ log'.timelines = l.timelines /\ (log'.fail = "ok" => l.fail = "ok")
      BY <1>9, <2>2, NoteKeeps DEF BegunLog
    <3> HIDE DEF s
    <3> QED BY <1>9, <3>1, <3>2
  <2> QED BY <1>1, <2>1, <2>2
<1> HIDE DEF s
<1>11. log'.fail = "ok" => \A d \in Cores :
         Reaches(log'.timelines[d],
                 IF core'[d].proc = None THEN core'[d].freeSince
                 ELSE IF core'[d].inCs THEN core'[d].busyUntil ELSE core'[d].runStart)
  <2> SUFFICES ASSUME log'.fail = "ok", NEW d \in Cores
               PROVE  Reaches(log'.timelines[d],
                         IF core'[d].proc = None THEN core'[d].freeSince
                         ELSE IF core'[d].inCs THEN core'[d].busyUntil ELSE core'[d].runStart)
    OBVIOUS
  <2>1. CASE d = c
    BY <1>3, <1>10, <2>1
  <2>2. CASE d # c
    <3>1. Reaches(log.timelines[d], Frontier(d))
      BY <1>4, <1>10 DEF Spans
    <3> QED BY <1>3, <1>5, <1>10, <2>2, <3>1 DEF Frontier, Free
  <2> QED BY <2>1, <2>2
<1>12. \A d \in Cores : core'[d].proc = None => core'[d].freeSince <= now
  BY <1>3, <1>4, <1>10 DEF Spans, Free
<1>13. \A d \in Cores : core'[d].proc # None /\ ~core'[d].inCs => Origin <= core'[d].runStart
  BY <1>3, <1>4, <1>10 DEF Spans, Running, Busy, Free
<1> QED
  BY <1>2, <1>3, <1>10, <1>11, <1>12, <1>13, CoreTimelines

LEMMA AdvanceTimelines == ASSUME Inv, TimelineInv, Advance PROVE TimelineInv'
<1>1. /\ stage = "advance" /\ stage' = "arrivals"
      /\ UNCHANGED <<w, core, outcome, log, closed, status>>
  BY DEF Advance, resultVars
<1>2. now' > now /\ now' \in Times /\ now \in Times /\ Origin \in Times
  BY AdvanceFacts, OriginType DEF Inv, TypeOK, TimelineInv
<1>3. Spans /\ LogWell(log) /\ closed = 0
  BY <1>1 DEF TimelineInv, Spans, Inv, TypeOK
<1>4. Origin' = Origin /\ Completed' = Completed /\ Running' = Running
      /\ \A c \in Cores : Free(c)' <=> Free(c)
  BY <1>1 DEF Origin, FirstArrival, Completed, Running, Busy, Free
<1>5. \A c \in Cores : Frontier(c)' = Frontier(c)
  BY <1>1, <1>3, EngineAssumption DEF Frontier, Free, Cores
<1>6. /\ Origin <= now' /\ (Completed # {} => Origin < now')
  BY <1>2, <1>3 DEF Spans, Times
<1>7. \A c \in Cores : Free(c) => core[c].freeSince <= now'
  <2> SUFFICES ASSUME NEW c \in Cores, Free(c) PROVE core[c].freeSince <= now'
    OBVIOUS
  <2>1. core[c].freeSince <= now /\ core[c].freeSince \in Times
    BY <1>3 DEF Spans, Inv, TypeOK, CoreStructs
  <2> QED BY <1>2, <2>1 DEF Times
<1>8. LogWell(log)' /\ \A c \in Cores : WellMade(log.timelines[c])'
  BY <1>1, <1>3, <1>4 DEF LogWell, WellMade, Lengths
<1>9. Spans'
  BY <1>1, <1>3, <1>4, <1>5, <1>6, <1>7 DEF Spans, Reaches
<1> QED
  BY <1>1, <1>4, <1>8, <1>9 DEF TimelineInv, FirstArrival

\* when every process has completed, every core is free
LEMMA AllFree == ASSUME Inv, Completed = Procs PROVE \A c \in Cores : Free(c)
<1> SUFFICES ASSUME NEW c \in Cores, ~Free(c) PROVE FALSE
  OBVIOUS
<1>1. core[c].proc \in Procs /\ core[c].proc \in OnCore
  BY DEF Inv, TypeOK, CoreStructs, Free, Busy, OnCore
<1> QED
  BY <1>1 DEF Inv, OnePlace

LEMMA CloseTimelines == ASSUME Inv, TimelineInv, CloseTimeline PROVE TimelineInv'
<1> DEFINE c == closed + 1
           g == Segment(core[c].freeSince, now, None, "idle")
<1>1. /\ stage = "finish" /\ stage' = "finish" /\ closed < NumCores /\ closed' = closed + 1
      /\ UNCHANGED <<w, now, core, outcome, status>> /\ log' \in AppendSegment(log, c, g)
  BY DEF CloseTimeline
<1>2. closed \in 0..NumCores /\ c \in Cores /\ now \in Times /\ log \in Logs
      /\ core[c] \in CoreStructs
  BY <1>1, EngineAssumption DEF Inv, TypeOK, Cores
<1>3. Spans /\ LogWell(log)
  BY <1>1 DEF TimelineInv
<1>4. g \in Segments /\ g.start = core[c].freeSince /\ g.end = now
  BY <1>2 DEF Segment, Segments, CoreStructs
<1>5. Origin' = Origin /\ Completed' = Completed /\ Running' = Running
      /\ \A d \in Cores : Free(d)' <=> Free(d)
  BY <1>1 DEF Origin, FirstArrival, Completed, Running, Busy, Free
<1>6. \A d \in Cores : Frontier(d)' = IF d = c THEN now ELSE Frontier(d)
  <2>1. \A d \in Cores : d <= closed' <=> d = c \/ d <= closed
    BY <1>1, <1>2, EngineAssumption DEF Cores
  <2> HIDE DEF c
  <2> QED BY <1>1, <1>5, <2>1 DEF Frontier
<1> HIDE DEF g
<1>7. /\ LogWell(log') /\ (log'.fail = "ok" => log.fail = "ok")
      /\ log'.fail = "ok" => \A d \in Cores : Reaches(log'.timelines[d], Frontier(d)')
  <2>1. CASE log.fail = "ok"
    <3>1. Free(c) /\ ~(c <= closed)
      BY <1>1, <1>2, <1>3, <2>1, AllFree DEF Spans
    <3> HIDE DEF c
    <3>2. Reaches(log.timelines[c], g.start) /\ g.start <= g.end
      BY <1>2, <1>3, <1>4, <2>1, <3>1 DEF Spans, Frontier
    <3>3. /\ LogWell(log') /\ \A d \in Cores \ {c} : log'.timelines[d] = log.timelines[d]
          /\ log'.fail = "ok" => Reaches(log'.timelines[c], now)
      BY <1>1, <1>2, <1>3, <1>4, <3>2, AppendKeeps
    <3> QED BY <1>3, <1>6, <2>1, <3>3 DEF Spans
  <2>2. CASE log.fail # "ok"
    <3>1. log' = log
      BY <1>1, <2>2 DEF AppendSegment
    <3> QED BY <1>3, <2>2, <3>1
  <2> QED BY <2>1, <2>2
<1> HIDE DEF c
<1>8. LogWell(log)' /\ \A d \in Cores : WellMade(log.timelines[d])'
  <2>1. LogWell(log')
    BY <1>7
  <2> QED BY <1>5, <2>1 DEF LogWell, WellMade, Lengths
<1>9. Spans'
  <2>1. log'.fail = "ok" => \A d \in Cores : Reaches(log.timelines[d], Frontier(d))'
    BY <1>5, <1>7 DEF Reaches
  <2>2. stage' = "finish" /\ now' = now /\ core' = core /\ (log'.fail = "ok" => log.fail = "ok")
    BY <1>1, <1>7
  <2> QED BY <1>1, <1>3, <1>5, <2>1, <2>2 DEF Spans
<1> QED
  BY <1>1, <1>3, <1>5, <1>8, <1>9 DEF TimelineInv, FirstArrival, LogWell

(* What sim_run returns: the timelines it built, each up to the makespan,  *)
(* or none.                                                                *)
LEMMA ReturnTimelines == ASSUME Inv, TimelineInv, Return PROVE TimelineInv'
<1>1. /\ stage = "finish" /\ stage' = "done" /\ closed = NumCores /\ UNCHANGED <<w, now>>
      /\ status' = StatusOf(log.fail)
  BY DEF Return
<1>2. Spans /\ LogWell(log) /\ log \in Logs /\ now \in Times
  BY <1>1 DEF TimelineInv, Inv, TypeOK
<1>3. Origin' = Origin /\ (FirstArrival(Origin))'
  BY <1>1 DEF Origin, FirstArrival, TimelineInv
<1>4. CASE log.fail = "ok"
  <2>1. log' = log
    BY <1>4 DEF Return
  <2>2. LogWell(log)' /\ \A c \in Cores : WellMade(log.timelines[c])'
    BY <1>2, <1>3, <2>1 DEF LogWell, WellMade, Lengths
  <2>3. Origin < now
    <3>1. Completed = Procs
      BY <1>1, <1>2, <1>4 DEF Spans
    <3> QED BY <1>2, <3>1, EngineAssumption DEF Spans
  <2>4. \A c \in Cores : log.timelines[c] # <<>> /\ log.timelines[c][Len(log.timelines[c])].end = now
    <3> SUFFICES ASSUME NEW c \in Cores
                 PROVE  log.timelines[c] # <<>>
                        /\ log.timelines[c][Len(log.timelines[c])].end = now
      OBVIOUS
    <3>1. Reaches(log.timelines[c], now)
      BY <1>1, <1>2, <1>4, EngineAssumption DEF Spans, Frontier, Cores
    <3>2. now # Origin
      BY <1>2, <2>3 DEF Times
    <3> QED BY <3>1, <3>2 DEF Reaches
  <2> QED BY <1>1, <1>3, <2>1, <2>2, <2>4 DEF TimelineInv, LogWell
<1>5. CASE log.fail # "ok"
  <2>1. log' = [log EXCEPT !.timelines = [c \in Cores |-> <<>>]]
    BY <1>5 DEF Return
  <2>2. \A c \in Cores : WellMade(log.timelines[c])'
    BY <1>2, <2>1 DEF WellMade, Logs
  <2>3. log'.segments <= MaxSegments
    BY <1>2, <2>1 DEF LogWell, Logs
  <2>4. status' # "ok"
    BY <1>1, <1>5 DEF StatusOf
  <2> QED BY <1>1, <1>3, <2>2, <2>3, <2>4 DEF TimelineInv
<1> QED
  BY <1>4, <1>5

LEMMA RejectTimelines == ASSUME Inv, TimelineInv, Reject PROVE TimelineInv'
<1>1. stage' = "done" /\ stage # "done" /\ UNCHANGED <<w, now, log>> /\ status' # "ok"
  BY DEF Reject
<1>2. Origin' = Origin
  BY <1>1 DEF Origin, FirstArrival
<1> QED
  BY <1>1, <1>2 DEF TimelineInv, FirstArrival, LogWell, WellMade

LEMMA StutterTimelines ==
    ASSUME TimelineInv, UNCHANGED <<w, stage, now, core, outcome, log, closed, status>>
    PROVE  TimelineInv'
<1>1. Origin' = Origin /\ Completed' = Completed /\ Running' = Running
      /\ \A c \in Cores : (Free(c)' <=> Free(c)) /\ Frontier(c)' = Frontier(c)
  BY DEF Origin, FirstArrival, Completed, Running, Busy, Free, Frontier
<1>2. (LogWell(log) => LogWell(log)') /\ \A c \in Cores : WellMade(log.timelines[c])'
  BY <1>1 DEF LogWell, WellMade, Lengths, TimelineInv
<1>3. Spans => Spans'
  BY <1>1 DEF Spans, Reaches
<1> QED
  BY <1>1, <1>2, <1>3 DEF TimelineInv, FirstArrival

LEMMA TimelineStep == ASSUME Inv, TimelineInv, [Next]_vars PROVE TimelineInv'
<1>0. stage # "done" => Spans
  BY DEF TimelineInv
<1>1. CASE \E p \in Procs : Arrive(p) \/ BecomeReady(p)
  BY <1>0, <1>1, QuietTimelines DEF Arrive, Admit, BecomeReady, WakeUp, resultVars, Spans
<1>2. CASE \E c \in Cores : SliceCompletes(c)
  BY <1>2, EndRunTimelines DEF SliceCompletes, Complete
<1>3. CASE \E c \in Cores : SliceBlocks(c)
  BY <1>3, EndRunTimelines DEF SliceBlocks, Block
<1>4. CASE \E c \in Cores : SlicePreempted(c)
  BY <1>4, EndRunTimelines DEF SlicePreempted, Preempt
<1>5. CASE (\E s \in Slices : Pick(s)) \/ PicksDone \/ PlacesDone \/ Create \/ ArrivalsDone
           \/ WakeupsDone \/ SwitchInsDone
  BY <1>0, <1>5, QuietTimelines
     DEF Pick, WantsPick, PicksDone, PlacesDone, Create, ArrivalsDone, WakeupsDone,
         SwitchInsDone, resultVars, Spans
<1>6. CASE InstantDone
  BY <1>0, <1>6, QuietTimelines DEF InstantDone, resultVars, Spans
<1>7. CASE \E p \in ready : \E s \in SlicesFor(p) : NextSlice(s)
  <2>1. stage = "picks"
    BY <1>7 DEF NextSlice, Pick, WantsPick
  <2>2. \E s \in Slices : Pick(s)
    BY <1>7, <2>1, SlicesForFacts DEF NextSlice
  <2> QED BY <1>5, <2>2
<1>8. CASE EngineStep
  <2>1. CASE Terminated
    BY <2>1, StutterTimelines DEF Terminated, engineVars, resultVars
  <2> QED
    BY <1>5, <1>6, <1>8, <2>1, EndsDoneTimelines, SwitchInTimelines, PlaceTimelines,
       AdvanceTimelines, CloseTimelines, ReturnTimelines, RejectTimelines DEF EngineStep
<1>9. CASE UNCHANGED vars
  BY <1>9, StutterTimelines DEF vars, engineVars, resultVars
<1> QED
  BY <1>1, <1>2, <1>3, <1>4, <1>5, <1>7, <1>8, <1>9 DEF Next, StopPicking

LEMMA TimelineInvariant == Spec => [](Inv /\ TimelineInv)
<1>1. Inv /\ TimelineInv /\ [Next]_vars => TimelineInv'
  BY TimelineStep
<1> QED
  BY <1>1, InitTimelines, Invariant, PTL DEF Spec

-----------------------------------------------------------------------------
(* The theorems *)

(* engine.h:26: on every core the timeline is a sequence of non-empty      *)
(* segments that touch, from the first arrival to the makespan, with no    *)
(* two adjacent segments that should have been merged; it is so at every   *)
(* step of sim_run, also on the way to a failure.                          *)
THEOREM TimelinesContiguousHolds == Spec => []TimelinesContiguous
<1>1. TimelineInv => TimelinesContiguous
  BY DEF TimelineInv, TimelinesContiguous, WellMade
<1> QED
  BY <1>1, TimelineInvariant, PTL

(* log.segments, which max_segments limits, is the number of segments on   *)
(* all timelines together, and never exceeds the limit.                    *)
THEOREM SegmentsLimitedHolds == Spec => []SegmentsLimited
<1>1. TimelineInv => SegmentsLimited
  <2> SUFFICES ASSUME TimelineInv PROVE SegmentsLimited
    OBVIOUS
  <2>1. ~Emptied => LogWell(log)
    BY DEF Emptied, TimelineInv
  <2> QED BY <2>1 DEF SegmentsLimited, TimelineInv, LogWell, Lengths
<1> QED
  BY <1>1, TimelineInvariant, PTL

-----------------------------------------------------------------------------
(* The clock.  max_segments bounds the number of context switches, since   *)
(* every switch that costs time is paid for by a segment of a timeline,    *)
(* and the clock and the work that is left never exceed the horizon of the *)
(* workload and what the switches made so far have cost, for which         *)
(* check_options has left room: simulated time cannot overflow.  It is the *)
(* last step towards the three assert()s of engine.c, which are proved to  *)
(* hold while there is room for one more tick.                             *)

-----------------------------------------------------------------------------
(* What append() does to the kinds of the segments                         *)

LEMMA AppendKinds ==
    ASSUME NEW l \in Logs, NEW c \in Cores, NEW g \in Segments, NEW m \in AppendSegment(l, c, g)
    PROVE  /\ m.fail = "overflow" => l.fail = "overflow"
           /\ m.fail = "ok" => l.fail = "ok"
           /\ l.segments <= m.segments
           /\ \A d \in Cores \ {c} : m.timelines[d] = l.timelines[d]
           /\ g.start >= g.end \/ l.fail # "ok" => m = l
           /\ \A k : HasKind(l.timelines[c], k) => HasKind(m.timelines[c], k)
           /\ \A k : HasKind(m.timelines[c], k) => HasKind(l.timelines[c], k) \/ k = g.kind
           /\ g.start < g.end /\ m.fail = "ok" =>
                /\ m.timelines[c] # <<>> /\ LastKind(m.timelines[c]) = g.kind
                /\ HasKind(m.timelines[c], g.kind)
                /\ \/ m.segments = l.segments + 1
                   \/ l.timelines[c] # <<>> /\ LastKind(l.timelines[c]) = g.kind
<1> DEFINE t == l.timelines[c]
           u == m.timelines[c]
           n == Len(t)
<1>0. /\ t \in Seq(Segments) /\ l.timelines \in [Cores -> Seq(Segments)] /\ n \in Nat
      /\ l.segments \in Nat /\ DOMAIN t = 1..n
  BY DEF Logs
<1>1. CASE Dropped(l, g, m)
  <2>1. m = l /\ (g.start < g.end => l.fail # "ok")
    BY <1>1 DEF Dropped, Segments, Times
  <2> QED BY <1>0, <2>1
<1>2. CASE Merged(l, c, g, m)
  <2>1. /\ t # <<>> /\ SameLabel(t[n], g) /\ l.fail = "ok" /\ g.start < g.end
        /\ m = [l EXCEPT !.timelines[c] = [t EXCEPT ![n].end = g.end]]
    BY <1>2 DEF Merged
  <2>2. u = [t EXCEPT ![n].end = g.end] /\ m.fail = "ok" /\ m.segments = l.segments
        /\ \A d \in Cores \ {c} : m.timelines[d] = l.timelines[d]
    BY <1>0, <2>1 DEF Logs
  <2>3. n \in DOMAIN t /\ t[n] \in Segments
    BY <1>0, <2>1
  <2>4. /\ DOMAIN u = DOMAIN t /\ Len(u) = n
        /\ \A i \in DOMAIN t : u[i].kind = t[i].kind
    BY <1>0, <2>2, <2>3 DEF Segments
  <2>5. t[n].kind = g.kind /\ u # <<>>
    BY <1>0, <2>1, <2>3, <2>4 DEF SameLabel
  <2>6. /\ \A k : HasKind(u, k) <=> HasKind(t, k)
        /\ LastKind(u) = g.kind /\ LastKind(t) = g.kind /\ HasKind(u, g.kind)
    BY <2>3, <2>4, <2>5 DEF HasKind, LastKind
  <2>7. ~(g.start >= g.end) /\ l.segments <= m.segments /\ l.fail = "ok"
    BY <1>0, <2>1, <2>2 DEF Segments, Times
  <2>8. t # <<>>
    BY <2>1
  <2> QED BY <2>2, <2>5, <2>6, <2>7, <2>8
<1>3. CASE Refused(l, g, m)
  <2>1. /\ m.timelines = l.timelines /\ m.segments = l.segments /\ m.fail \in {"limit", "nomem"}
        /\ l.fail = "ok" /\ g.start < g.end
    BY <1>3 DEF Logs, Refused
  <2>2. ~(g.start >= g.end)
    BY <2>1 DEF Segments, Times
  <2> QED BY <1>0, <2>1, <2>2
<1>4. CASE Added(l, c, g, m)
  <2>1. /\ l.fail = "ok" /\ g.start < g.end
        /\ m = [l EXCEPT !.timelines[c] = Append(t, g), !.segments = l.segments + 1]
    BY <1>4 DEF Added
  <2>2. u = Append(t, g) /\ m.fail = "ok" /\ m.segments = l.segments + 1
        /\ \A d \in Cores \ {c} : m.timelines[d] = l.timelines[d]
    BY <1>0, <2>1 DEF Logs
  <2>3. /\ DOMAIN u = 1..(n + 1) /\ Len(u) = n + 1 /\ u[n + 1] = g
        /\ \A i \in 1..n : u[i] = t[i]
    BY <1>0, <2>2, AppendProperties
  <2>4. /\ \A k : HasKind(t, k) => HasKind(u, k)
        /\ \A k : HasKind(u, k) => HasKind(t, k) \/ k = g.kind
        /\ LastKind(u) = g.kind /\ HasKind(u, g.kind) /\ u # <<>>
    <3>1. /\ \A i \in DOMAIN t : i \in DOMAIN u /\ u[i] = t[i]
          /\ \A i \in DOMAIN u : i \in DOMAIN t \/ u[i] = g
          /\ n + 1 \in DOMAIN u
      BY <1>0, <2>3
    <3>2. u # <<>>
      BY <3>1
    <3> HIDE DEF u, t
    <3>3. LastKind(u) = g.kind /\ HasKind(u, g.kind)
      BY <2>3, <3>1 DEF LastKind, HasKind
    <3> QED BY <3>1, <3>2, <3>3 DEF HasKind
  <2>5. ~(g.start >= g.end)
    BY <2>1 DEF Segments, Times
  <2> HIDE DEF t, u
  <2> QED BY <1>0, <2>1, <2>2, <2>4, <2>5 DEF t, u
<1> QED
  BY <1>1, <1>2, <1>3, <1>4, AppendCases

-----------------------------------------------------------------------------
(* Every switch is paid for by a segment.  A switch is made on a core that *)
(* has run a slice before, so each such core holds one segment more than   *)
(* its switches: a credit for the next one, kept as long as segments are   *)
(* recorded and spent when a core is taken in the last dispatch.           *)

HasRun(c) == HasKind(log.timelines[c], "run")
Dispatching == log.fail = "ok" \/ stage \in {"picks", "place"}
Credits == {c \in Cores : HasRun(c) /\ (log.fail = "ok" \/ Free(c))}

SwitchBudget ==
    stage # "done" /\ CsCost > 0 =>
        /\ switches <= MaxSegments
        /\ log.fail = "ok" => \A c \in Cores :
             Free(c) /\ log.timelines[c] # <<>> => LastKind(log.timelines[c]) # "cs"
        /\ Dispatching => switches + Cardinality(Credits) <= log.segments
        /\ Dispatching => \A c \in Cores : Free(c) /\ core[c].context # None => HasRun(c)

LEMMA CreditFacts ==
    ASSUME NEW S, S \subseteq Cores, NEW T, NEW c \in Cores
    PROVE  /\ Cardinality(S) \in Nat
           /\ T \subseteq S => Cardinality(T) <= Cardinality(S)
           /\ T \subseteq S \cup {c} => Cardinality(T) <= Cardinality(S) + 1
           /\ c \in S /\ T \subseteq S \ {c} => Cardinality(T) + 1 <= Cardinality(S)
           /\ Cardinality(T) \in Nat \/ ~(T \subseteq S \cup {c})
<1>1. IsFiniteSet(S) /\ Cardinality(S) \in Nat
  BY CoresFinite, FS_Subset, FS_CardinalityType
<1>2. /\ IsFiniteSet(S \cup {c}) /\ Cardinality(S \cup {c}) <= Cardinality(S) + 1
      /\ Cardinality(S \cup {c}) \in Nat
  <2>1. IsFiniteSet(S \cup {c})
    BY <1>1, FS_AddElement
  <2>2. Cardinality(S \cup {c}) \in {Cardinality(S), Cardinality(S) + 1}
    BY <1>1, FS_AddElement
  <2> QED BY <1>1, <2>1, <2>2, FS_CardinalityType
<1>3. c \in S => IsFiniteSet(S \ {c}) /\ Cardinality(S \ {c}) = Cardinality(S) - 1
  BY <1>1, FS_RemoveElement
<1>4. T \subseteq S => Cardinality(T) <= Cardinality(S)
  BY <1>1, FS_Subset
<1>5. T \subseteq S \cup {c} => Cardinality(T) <= Cardinality(S \cup {c}) /\ Cardinality(T) \in Nat
  BY <1>2, FS_Subset, FS_CardinalityType
<1>6. c \in S /\ T \subseteq S \ {c} => Cardinality(T) <= Cardinality(S \ {c})
  BY <1>3, FS_Subset
<1> QED
  BY <1>1, <1>2, <1>3, <1>4, <1>5, <1>6

LEMMA InitBudget == Init => SwitchBudget
<1> SUFFICES ASSUME Init PROVE SwitchBudget
  OBVIOUS
<1>1. /\ log.segments = 0 /\ switches = 0 /\ \A c \in Cores : log.timelines[c] = <<>>
      /\ \A c \in Cores : core[c].context = None
  BY DEF Init, EngineInit, FreshCore
<1>2. Credits = {}
  BY <1>1 DEF Credits, HasRun, HasKind
<1>3. Cardinality(Credits) = 0
  BY <1>2, FS_EmptySet
<1> QED
  BY <1>1, <1>3, EngineAssumption DEF SwitchBudget

(* Steps that add no segment and make no switch.                           *)
LEMMA QuietBudget ==
    ASSUME Inv, SwitchBudget, stage # "done", UNCHANGED switches,
           log'.timelines = log.timelines, log'.segments = log.segments,
           log'.fail = "ok" => log.fail = "ok",
           \A c \in Cores : core'[c].proc = core[c].proc /\ core'[c].context = core[c].context,
           log'.fail # "ok" /\ stage' \in {"picks", "place"} => stage \in {"picks", "place"},
           log'.fail = "ok" \/ stage' \in {"picks", "place"} => Dispatching
    PROVE  SwitchBudget'
<1>1. /\ \A c \in Cores : (HasRun(c)' <=> HasRun(c)) /\ (Free(c)' <=> Free(c))
      /\ Dispatching' => Dispatching
  BY DEF HasRun, HasKind, Free, Dispatching
<1>2. Credits' \subseteq Credits
  BY <1>1 DEF Credits
<1>3. /\ Cardinality(Credits') <= Cardinality(Credits)
      /\ Cardinality(Credits') \in Nat /\ Cardinality(Credits) \in Nat
  <2>1. Credits \subseteq Cores /\ Credits' \subseteq Cores /\ 1 \in Cores
    BY EngineAssumption DEF Credits, Cores
  <2> QED BY <1>2, <2>1, CreditFacts
<1>4. switches \in Nat /\ log.segments \in Nat
  BY DEF Inv, TypeOK, Logs
<1>5. switches + Cardinality(Credits) <= log.segments
        => switches + Cardinality(Credits') <= log.segments
  BY <1>3, <1>4
<1>6. switches' = switches
  OBVIOUS
<1> QED
  BY <1>1, <1>5, <1>6 DEF SwitchBudget, LastKind, Free

LEMMA EndRunBudget ==
    ASSUME Inv, SwitchBudget, NEW c \in Cores, EndRun(c),
           NEW l \in LogRun(c), NEW io, log' \in {l, NoteOverflow(l, now, io)}
    PROVE  SwitchBudget'
<1> SUFFICES ASSUME CsCost > 0 PROVE SwitchBudget'
  BY DEF SwitchBudget
<1> DEFINE g == Segment(core[c].runStart, now, core[c].proc, "run")
<1>1. /\ c \in Running /\ core[c] \in CoreStructs /\ stage \in {"ends", "interrupts"}
      /\ 1 <= Ran(c) /\ now \in Times /\ log \in Logs /\ switches \in Nat
  BY SliceEndFacts DEF EndRun, Inv, TypeOK
<1>2. g \in Segments /\ g.kind = "run" /\ g.start < g.end
  BY <1>1 DEF Segment, Segments, CoreStructs, Ran, Times
<1>3. l \in AppendSegment(log, c, g)
  BY DEF LogRun
<1> HIDE DEF g
<1>4. l \in Logs
  BY <1>1, <1>2, <1>3, AppendSegmentType
<1>5. /\ log'.timelines = l.timelines /\ log'.segments = l.segments
      /\ log'.fail = "ok" => l.fail = "ok"
  BY <1>4 DEF NoteOverflow, Logs
<1>6. switches' = switches /\ stage' = stage /\ \A d \in Cores \ {c} : core'[d] = core[d]
  BY EndRunFacts DEF EndRun
<1>7. switches <= MaxSegments
  BY <1>1 DEF SwitchBudget
<1>8. CASE l.fail # "ok"
  <2>1. log'.fail # "ok" /\ ~Dispatching'
    BY <1>1, <1>5, <1>6, <1>8 DEF Dispatching
  <2> QED BY <1>6, <1>7, <2>1 DEF SwitchBudget
<1>9. CASE l.fail = "ok"
  <2>1. /\ log.fail = "ok" /\ HasKind(l.timelines[c], "run") /\ l.timelines[c] # <<>>
        /\ LastKind(l.timelines[c]) = "run" /\ log.segments <= l.segments
        /\ \A d \in Cores \ {c} : l.timelines[d] = log.timelines[d]
        /\ l.segments = log.segments + 1 \/ HasRun(c)
    <3>1. \/ l.segments = log.segments + 1
          \/ log.timelines[c] # <<>> /\ LastKind(log.timelines[c]) = "run"
      BY <1>1, <1>2, <1>3, <1>9, AppendKinds
    <3>2. log.timelines[c] # <<>> /\ LastKind(log.timelines[c]) = "run" => HasRun(c)
      <4>1. log.timelines[c] \in Seq(Segments)
        BY <1>1 DEF Logs
      <4>2. log.timelines[c] # <<>> => Len(log.timelines[c]) \in DOMAIN log.timelines[c]
        BY <4>1
      <4> QED BY <4>2 DEF HasRun, HasKind, LastKind
    <3> QED BY <1>1, <1>2, <1>3, <1>9, <3>1, <3>2, AppendKinds
  <2>2. /\ HasRun(c)' /\ \A d \in Cores \ {c} : (HasRun(d)' <=> HasRun(d)) /\ (Free(d)' <=> Free(d))
    BY <1>5, <1>6, <2>1 DEF HasRun, Free
  <2>3. Credits = {d \in Cores : HasRun(d)}
    BY <2>1 DEF Credits
  <2>4. Credits' \subseteq Credits \cup {c} /\ (HasRun(c) => Credits' \subseteq Credits)
    BY <2>2, <2>3 DEF Credits
  <2>5. log.segments \in Nat /\ l.segments \in Nat
    BY <1>1, <1>4 DEF Logs
  <2>6. switches + Cardinality(Credits) <= log.segments
    BY <1>1, <2>1 DEF SwitchBudget, Dispatching
  <2>7. /\ Cardinality(Credits) \in Nat /\ Cardinality(Credits') \in Nat
        /\ Cardinality(Credits') <= Cardinality(Credits) + 1
        /\ HasRun(c) => Cardinality(Credits') <= Cardinality(Credits)
    <3>1. Credits \subseteq Cores
      BY DEF Credits
    <3> QED BY <2>4, <3>1, CreditFacts
  <2>8. switches + Cardinality(Credits') <= l.segments
    BY <1>1, <2>1, <2>5, <2>6, <2>7
  <2>9. \A d \in Cores : Free(d)' /\ log'.timelines[d] # <<>> => LastKind(log'.timelines[d]) # "cs"
    BY <1>1, <1>5, <1>6, <2>1, <2>2 DEF SwitchBudget
  <2>10. \A d \in Cores : Free(d)' /\ core'[d].context # None => HasRun(d)'
    BY <1>1, <1>6, <2>1, <2>2 DEF SwitchBudget, Dispatching
  <2> QED BY <1>5, <1>6, <1>7, <2>8, <2>9, <2>10 DEF SwitchBudget
<1> QED
  BY <1>8, <1>9

LEMMA CloseBudget == ASSUME Inv, SwitchBudget, CloseTimeline PROVE SwitchBudget'
<1> SUFFICES ASSUME CsCost > 0 PROVE SwitchBudget'
  BY DEF SwitchBudget
<1> DEFINE c == closed + 1
           g == Segment(core[c].freeSince, now, None, "idle")
<1>1. /\ stage = "finish" /\ stage' = "finish" /\ UNCHANGED <<core, switches>>
      /\ log' \in AppendSegment(log, c, g) /\ c \in Cores /\ switches \in Nat
      /\ core[c] \in CoreStructs /\ now \in Times /\ log \in Logs
  BY EngineAssumption DEF CloseTimeline, Inv, TypeOK, Cores
<1>2. g \in Segments /\ g.kind = "idle"
  BY <1>1 DEF Segment, Segments, CoreStructs
<1> HIDE DEF g, c
<1>3. switches <= MaxSegments
  BY <1>1 DEF SwitchBudget
<1>4. CASE log'.fail # "ok"
  BY <1>1, <1>3, <1>4 DEF SwitchBudget, Dispatching
<1>5. CASE log'.fail = "ok"
  <2>1. /\ log.fail = "ok" /\ log.segments <= log'.segments
        /\ \A d \in Cores \ {c} : log'.timelines[d] = log.timelines[d]
        /\ \A d \in Cores : HasRun(d)' <=> HasRun(d)
    <3>1. HasKind(log'.timelines[c], "run") <=> HasKind(log.timelines[c], "run")
      <4>1. /\ HasKind(log.timelines[c], "run") => HasKind(log'.timelines[c], "run")
            /\ HasKind(log'.timelines[c], "run") =>
                 HasKind(log.timelines[c], "run") \/ "run" = g.kind
        BY <1>1, <1>2, AppendKinds
      <4> QED BY <1>2, <4>1
    <3> QED BY <1>1, <1>2, <1>5, <3>1, AppendKinds DEF HasRun
  <2>2. \A d \in Cores : Free(d)' <=> Free(d)
    BY <1>1 DEF Free
  <2>3. Credits' = Credits
    BY <1>5, <2>1, <2>2 DEF Credits
  <2>4. switches + Cardinality(Credits) <= log'.segments
    <3>1. switches + Cardinality(Credits) <= log.segments
      BY <1>1, <2>1 DEF SwitchBudget, Dispatching
    <3>2. Cardinality(Credits) \in Nat
      BY <1>1, CreditFacts DEF Credits
    <3>3. log' \in Logs
      BY <1>1, <1>2, AppendSegmentType
    <3>4. log.segments \in Nat /\ log'.segments \in Nat
      BY <1>1, <3>3 DEF Logs
    <3> QED BY <1>1, <2>1, <3>1, <3>2, <3>4
  <2>5. log'.timelines[c] # <<>> /\ Free(c) => LastKind(log'.timelines[c]) # "cs"
    <3>1. CASE g.start < g.end
      BY <1>1, <1>2, <1>5, <3>1, AppendKinds
    <3>2. CASE ~(g.start < g.end)
      <4>1. g.start >= g.end
        BY <1>2, <3>2 DEF Segments, Times
      <4>2. log' = log
        BY <1>1, <1>2, <4>1, AppendKinds
      <4> QED BY <1>1, <2>1, <4>2 DEF SwitchBudget
    <3> QED BY <3>1, <3>2
  <2>6. \A d \in Cores :
          Free(d)' /\ log'.timelines[d] # <<>> => LastKind(log'.timelines[d]) # "cs"
    BY <1>1, <2>1, <2>2, <2>5 DEF SwitchBudget
  <2>7. \A d \in Cores : Free(d)' /\ core'[d].context # None => HasRun(d)'
    BY <1>1, <2>1, <2>2 DEF SwitchBudget, Dispatching
  <2> QED BY <1>1, <1>3, <2>3, <2>4, <2>6, <2>7 DEF SwitchBudget
<1> QED
  BY <1>4, <1>5

LEMMA PlaceBudget ==
    ASSUME Inv, TimelineInv, SwitchBudget, CsCost > 0,
           NEW c \in Cores, NEW i \in DOMAIN picks, Place(i, c)
    PROVE  /\ SwitchBudget'
           /\ switches' \in {switches, switches + 1} /\ switches' <= MaxSegments
<1> DEFINE s == picks[i]
           until == AddTime(now, CsCost)
           idle == Segment(core[c].freeSince, now, None, "idle")
           cs == Segment(now, until, s.proc, "cs")
           taken == [core[c] EXCEPT !.proc = s.proc, !.length = s.length, !.context = s.proc,
                                    !.deadline = s.deadline, !.recheck = FALSE]
<1>1. PICK l \in AppendSegment(log, c, idle) :
        \/ /\ IsSwitch(core[c], s.proc) /\ switches' = switches + 1
           /\ log' \in AppendSegment(NoteOverflow(l, now, CsCost), c, cs)
        \/ /\ switches' = switches /\ log' = BegunLog(l, taken)
  BY DEF Place
<1>2. /\ stage = "place" /\ stage' = "place" /\ core[c] \in CoreStructs
      /\ log \in Logs /\ now \in Times /\ now < MaxTime /\ switches \in Nat
      /\ MaxSegments \in Nat /\ CsCost \in Nat
  BY EngineAssumption DEF Place, Inv, TypeOK, NothingMissed
<1>3. /\ Free(c) /\ s \in Slices /\ s.proc \in Procs /\ core'[c].proc = s.proc
      /\ \A d \in Cores \ {c} : core'[d] = core[d]
  BY PlaceFacts DEF Slices
<1>4. idle \in Segments /\ idle.kind = "idle"
  BY <1>2 DEF Segment, Segments, CoreStructs
<1>5. until \in Times /\ now < until
  BY <1>2, AddTimeFacts
<1>6. cs \in Segments /\ cs.start = now /\ cs.end = until /\ cs.kind = "cs"
  BY <1>2, <1>3, <1>5 DEF Segment, Segments
<1> HIDE DEF idle, cs, until, taken, s
<1>7. /\ l \in Logs /\ log.segments <= l.segments
      /\ \A d \in Cores : HasKind(l.timelines[d], "run") <=> HasRun(d)
      /\ \A d \in Cores \ {c} : l.timelines[d] = log.timelines[d]
      /\ l.fail = "ok" => log.fail = "ok"
  <2>1. l \in Logs
    BY <1>1, <1>2, <1>4, AppendSegmentType
  <2>2. HasKind(l.timelines[c], "run") <=> HasKind(log.timelines[c], "run")
    <3>1. /\ HasKind(log.timelines[c], "run") => HasKind(l.timelines[c], "run")
          /\ HasKind(l.timelines[c], "run") =>
               HasKind(log.timelines[c], "run") \/ "run" = idle.kind
      <4>1. l \in AppendSegment(log, c, idle)
        BY <1>1
      <4> QED BY <1>2, <1>4, <4>1, AppendKinds
    <3> QED BY <1>4, <3>1
  <2>3. /\ \A d \in Cores \ {c} : l.timelines[d] = log.timelines[d]
        /\ (l.fail = "ok" => log.fail = "ok") /\ log.segments <= l.segments
    <3>1. l \in AppendSegment(log, c, idle)
      BY <1>1
    <3> QED BY <1>2, <1>4, <3>1, AppendKinds
  <2> QED BY <2>1, <2>2, <2>3 DEF HasRun
<1>8. l.fail = "ok" /\ l.timelines[c] # <<>> => LastKind(l.timelines[c]) # "cs"
  <2>1. CASE idle.start < idle.end
    BY <1>1, <1>2, <1>4, <2>1, AppendKinds
  <2>2. CASE ~(idle.start < idle.end)
    <3>1. idle.start >= idle.end
      BY <1>4, <2>2 DEF Segments, Times
    <3>2. l = log
      BY <1>1, <1>2, <1>4, <3>1, AppendKinds
    <3> QED BY <1>2, <1>3, <3>2 DEF SwitchBudget
  <2> QED BY <2>1, <2>2
<1>9. /\ switches + Cardinality(Credits) <= log.segments /\ switches <= MaxSegments
      /\ \A d \in Cores : Free(d) /\ core[d].context # None => HasRun(d)
  BY <1>2 DEF SwitchBudget, Dispatching
<1>10. /\ log' \in Logs /\ l.segments <= log'.segments
       /\ \A d \in Cores : HasRun(d)' <=> HasRun(d)
       /\ \A d \in Cores \ {c} : log'.timelines[d] = log.timelines[d]
       /\ log'.fail = "ok" => log.fail = "ok"
       /\ switches' = switches + 1 /\ log'.fail = "ok" => log'.segments = l.segments + 1
  <2>1. CASE /\ switches' = switches + 1
             /\ log' \in AppendSegment(NoteOverflow(l, now, CsCost), c, cs)
    <3> DEFINE m == NoteOverflow(l, now, CsCost)
    <3>1. m \in Logs /\ m.timelines = l.timelines /\ m.segments = l.segments
          /\ (m.fail = "ok" => l.fail = "ok")
      BY <1>7, NoteOverflowType DEF NoteOverflow, Logs
    <3>2. log' \in AppendSegment(m, c, cs)
      BY <2>1
    <3> HIDE DEF m
    <3>3. log' \in Logs /\ m.segments <= log'.segments
          /\ (\A d \in Cores \ {c} : log'.timelines[d] = m.timelines[d])
          /\ (log'.fail = "ok" => m.fail = "ok")
      BY <1>6, <3>1, <3>2, AppendSegmentType, AppendKinds
    <3>4. HasKind(log'.timelines[c], "run") <=> HasKind(m.timelines[c], "run")
      <4>1. /\ HasKind(m.timelines[c], "run") => HasKind(log'.timelines[c], "run")
            /\ HasKind(log'.timelines[c], "run") =>
                 HasKind(m.timelines[c], "run") \/ "run" = cs.kind
        BY <1>6, <3>1, <3>2, AppendKinds
      <4> QED BY <1>6, <4>1
    <3>5. log'.fail = "ok" => log'.segments = m.segments + 1
      <4> SUFFICES ASSUME log'.fail = "ok" PROVE log'.segments = m.segments + 1
        OBVIOUS
      <4>1. \/ log'.segments = m.segments + 1
            \/ m.timelines[c] # <<>> /\ LastKind(m.timelines[c]) = "cs"
        BY <1>5, <1>6, <3>1, <3>2, AppendKinds
      <4> QED BY <1>8, <3>1, <3>3, <4>1
    <3> QED BY <1>7, <3>1, <3>3, <3>4, <3>5 DEF HasRun
  <2>2. CASE switches' = switches /\ log' = BegunLog(l, taken)
    <3>1. log' \in Logs /\ log'.timelines = l.timelines /\ log'.segments = l.segments
          /\ (log'.fail = "ok" => l.fail = "ok")
      BY <1>7, <2>2, NoteOverflowType DEF BegunLog, NoteOverflow, Logs
    <3>2. log.segments \in Nat /\ l.segments \in Nat /\ switches' # switches + 1
      BY <1>2, <1>7, <2>2 DEF Logs
    <3> QED BY <1>7, <3>1, <3>2 DEF HasRun
  <2> QED BY <1>1, <2>1, <2>2
<1>11. switches' = switches + 1 => c \in Credits
  <2> SUFFICES ASSUME switches' = switches + 1 PROVE c \in Credits
    OBVIOUS
  <2>1. IsSwitch(core[c], s.proc)
    BY <1>1, <1>2
  <2> QED BY <1>3, <1>9, <2>1 DEF IsSwitch, Credits
<1>12. /\ Cardinality(Credits) \in Nat /\ Cardinality(Credits') \in Nat
       /\ Cardinality(Credits') <= Cardinality(Credits)
       /\ c \in Credits => 1 <= Cardinality(Credits)
       /\ log'.fail # "ok" /\ c \in Credits => Cardinality(Credits') + 1 <= Cardinality(Credits)
  <2>1. \A d \in Cores \ {c} : Free(d)' <=> Free(d)
    BY <1>3 DEF Free
  <2>2. Credits' \subseteq Credits
    BY <1>3, <1>10, <2>1 DEF Credits
  <2>3. ~(core'[c].proc = None)
    BY <1>3, EngineAssumption
  <2>4. log'.fail # "ok" => Credits' \subseteq Credits \ {c}
    BY <2>2, <2>3 DEF Credits, Free
  <2>5. Credits \subseteq Cores /\ {} \subseteq Credits \ {c} /\ Cardinality({}) = 0
    BY FS_EmptySet DEF Credits
  <2>6. c \in Credits => 1 <= Cardinality(Credits)
    <3>1. c \in Credits => Cardinality({}) + 1 <= Cardinality(Credits)
      BY <2>5, CreditFacts
    <3> QED BY <2>5, <3>1
  <2> QED BY <2>2, <2>4, <2>5, <2>6, CreditFacts
<1>13. log.segments \in Nat /\ l.segments \in Nat /\ log'.segments \in Nat
  BY <1>2, <1>7, <1>10 DEF Logs
<1>14. log.segments <= MaxSegments
  BY DEF TimelineInv
<1>15. switches' \in {switches, switches + 1}
  BY <1>1
<1>16. switches' <= MaxSegments
  BY <1>2, <1>9, <1>11, <1>12, <1>13, <1>14, <1>15
<1>17. switches' + Cardinality(Credits') <= log'.segments
  <2>1. CASE switches' = switches
    BY <1>2, <1>7, <1>9, <1>10, <1>12, <1>13, <2>1
  <2>2. CASE switches' = switches + 1 /\ log'.fail = "ok"
    <3>1. log'.segments = l.segments + 1
      BY <1>10, <2>2
    <3> QED BY <1>2, <1>7, <1>9, <1>12, <1>13, <2>2, <3>1
  <2>3. CASE switches' = switches + 1 /\ log'.fail # "ok"
    <3>1. Cardinality(Credits') + 1 <= Cardinality(Credits)
      BY <1>11, <1>12, <2>3
    <3> QED BY <1>2, <1>7, <1>9, <1>10, <1>12, <1>13, <2>3, <3>1
  <2> QED BY <1>15, <2>1, <2>2, <2>3
<1>18. \A d \in Cores : Free(d)' => d # c /\ Free(d) /\ core'[d] = core[d]
  BY <1>3, EngineAssumption DEF Free
<1>19. log'.fail = "ok" => \A d \in Cores :
         Free(d)' /\ log'.timelines[d] # <<>> => LastKind(log'.timelines[d]) # "cs"
  BY <1>2, <1>10, <1>18 DEF SwitchBudget
<1>20. \A d \in Cores : Free(d)' /\ core'[d].context # None => HasRun(d)'
  BY <1>9, <1>10, <1>18
<1> QED
  BY <1>15, <1>16, <1>17, <1>19, <1>20 DEF SwitchBudget

LEMMA BudgetStep ==
    ASSUME Inv, TimelineInv, SwitchBudget, [Next]_vars
    PROVE  SwitchBudget'
<1>0. core \in [Cores -> CoreStructs]
  BY DEF Inv, TypeOK
<1>1. CASE \E p \in Procs : Arrive(p) \/ BecomeReady(p)
  BY <1>1, QuietBudget DEF Arrive, Admit, BecomeReady, WakeUp, resultVars, Dispatching
<1>2. CASE \E c \in Cores : SliceCompletes(c)
  BY <1>2, EndRunBudget DEF SliceCompletes, Complete
<1>3. CASE \E c \in Cores : SliceBlocks(c)
  <2>1. PICK c \in Cores : SliceBlocks(c)
    BY <1>3
  <2>2. EndRun(c) /\ \E l \in LogRun(c) : \E io : log' = NoteOverflow(l, now, io)
    BY <2>1 DEF SliceBlocks, Block
  <2> QED BY <2>2, EndRunBudget
<1>4. CASE \E c \in Cores : SlicePreempted(c)
  BY <1>4, EndRunBudget DEF SlicePreempted, Preempt
<1>5. CASE \/ (\E s \in Slices : Pick(s)) \/ PicksDone \/ PlacesDone \/ Create \/ ArrivalsDone
           \/ WakeupsDone \/ SwitchInsDone \/ InstantDone \/ Advance
  BY <1>5, QuietBudget
     DEF Pick, WantsPick, PicksDone, PlacesDone, Create, ArrivalsDone, WakeupsDone,
         SwitchInsDone, InstantDone, Advance, resultVars, Dispatching
<1>6. CASE \E p \in ready : \E s \in SlicesFor(p) : NextSlice(s)
  <2>1. stage = "picks"
    BY <1>6 DEF NextSlice, Pick, WantsPick
  <2>2. \E s \in Slices : Pick(s)
    BY <1>6, <2>1, SlicesForFacts DEF NextSlice
  <2> QED BY <1>5, <2>2
<1>7. CASE EndsDone
  <2>1. \A c \in Cores : core'[c].proc = core[c].proc /\ core'[c].context = core[c].context
    <3> TAKE c \in Cores
    <3>1. core'[c] = core[c] \/ core'[c] = [core[c] EXCEPT !.recheck = TRUE]
      BY <1>7 DEF EndsDone
    <3> QED BY <1>0, <3>1 DEF CoreStructs
  <2> QED BY <1>7, <2>1, QuietBudget DEF EndsDone, resultVars, Dispatching
<1>8. CASE \E c \in Cores : SwitchIn(c)
  <2>1. PICK c \in Cores : SwitchIn(c)
    BY <1>8
  <2> DEFINE k == IF OneTick(c) THEN [core[c] EXCEPT !.deadline = AddTime(now, 1)] ELSE core[c]
             l == IF OneTick(c) THEN NoteOverflow(log, now, 1) ELSE log
  <2>2. /\ stage = "switchins" /\ stage' = "switchins" /\ switches' = switches
        /\ core' = [core EXCEPT ![c] = Begun(k)] /\ log' = BegunLog(l, k)
    BY <2>1 DEF SwitchIn
  <2>3. Begun(k).proc = core[c].proc /\ Begun(k).context = core[c].context
    BY <1>0 DEF Begun, CoreStructs
  <2>4. /\ l \in Logs /\ l.timelines = log.timelines /\ l.segments = log.segments
        /\ (l.fail = "ok" => log.fail = "ok")
    BY NoteOverflowType DEF NoteOverflow, Logs, Inv, TypeOK
  <2> HIDE DEF k, l
  <2>5. /\ log'.timelines = l.timelines /\ log'.segments = l.segments
        /\ (log'.fail = "ok" => l.fail = "ok")
    BY <2>2, <2>4 DEF BegunLog, NoteOverflow, Logs
  <2>6. \A d \in Cores : core'[d].proc = core[d].proc /\ core'[d].context = core[d].context
    BY <1>0, <2>2, <2>3
  <2> QED BY <2>2, <2>4, <2>5, <2>6, QuietBudget DEF Dispatching
<1>9. CASE \E c \in Cores, i \in DOMAIN picks : Place(i, c)
  <2>1. CsCost > 0 => SwitchBudget'
    BY <1>9, PlaceBudget
  <2> QED BY <2>1 DEF SwitchBudget
<1>10. CASE CloseTimeline
  BY <1>10, CloseBudget
<1>11. CASE Return \/ Reject
  BY <1>11 DEF Return, Reject, SwitchBudget
<1>12. CASE UNCHANGED vars \/ Terminated
  <2>1. UNCHANGED <<stage, core, log, switches>>
    BY <1>12 DEF vars, engineVars, resultVars, Terminated
  <2>2. Credits' = Credits /\ Dispatching' = Dispatching
        /\ \A c \in Cores : (HasRun(c)' <=> HasRun(c)) /\ (Free(c)' <=> Free(c))
    BY <2>1 DEF Credits, HasRun, Dispatching, Free
  <2> QED BY <2>1, <2>2 DEF SwitchBudget
<1> QED
  BY <1>1, <1>2, <1>3, <1>4, <1>5, <1>6, <1>7, <1>8, <1>9, <1>10, <1>11, <1>12
     DEF Next, StopPicking, EngineStep

-----------------------------------------------------------------------------
(* The work that is left                                                   *)

\* the greatest element of a finite set of numbers
LEMMA MaxFacts ==
    ASSUME NEW S, IsFiniteSet(S)
    PROVE  S # {} /\ S \subseteq Int => Max(S) \in S /\ \A x \in S : x <= Max(S)
<1> DEFINE Bad == {s \in SUBSET S : s # {} /\ s \subseteq Int /\ ~(\E x \in s : \A y \in s : x >= y)}
<1>1. Bad = {}
  <2> SUFFICES ASSUME Bad # {} PROVE FALSE
    OBVIOUS
  <2>1. Bad \subseteq SUBSET S
    OBVIOUS
  <2>2. PICK s \in Bad : \A r \in Bad : r \subseteq s => r = s
    <3> HIDE DEF Bad
    <3> QED BY <2>1, SmallestSubset
  <2>3. PICK a \in s : TRUE
    OBVIOUS
  <2> DEFINE r == s \ {a}
  <2>4. r \notin Bad /\ a \in Int /\ s \subseteq Int
    BY <2>2, <2>3
  <2>5. CASE r = {}
    <3>1. \A y \in s : y = a /\ a >= y
      BY <2>4, <2>5
    <3> QED BY <2>2, <3>1
  <2>6. CASE r # {}
    <3>1. PICK x \in r : \A y \in r : x >= y
      BY <2>4, <2>6
    <3>2. x \in s /\ x \in Int
      BY <2>4, <3>1
    <3>3. CASE x >= a
      <4>1. \A y \in s : x >= y
        BY <3>1, <3>3
      <4> QED BY <2>2, <3>2, <4>1
    <3>4. CASE ~(x >= a)
      <4>1. \A y \in s : a >= y
        <5> TAKE y \in s
        <5>1. CASE y = a
          BY <2>4, <5>1
        <5>2. CASE y # a
          <6>1. x >= y /\ y \in Int
            BY <2>4, <3>1, <5>2
          <6> QED BY <2>4, <3>2, <3>4, <6>1
        <5> QED BY <5>1, <5>2
      <4> QED BY <2>2, <2>3, <4>1
    <3> QED BY <3>3, <3>4
  <2> QED BY <2>5, <2>6
<1>2. SUFFICES ASSUME S # {}, S \subseteq Int PROVE Max(S) \in S /\ \A x \in S : x <= Max(S)
  OBVIOUS
<1>3. \E x \in S : \A y \in S : x >= y
  BY <1>1, <1>2
<1>4. Max(S) \in S /\ \A y \in S : Max(S) >= y
  BY <1>3 DEF Max
<1> QED
  BY <1>2, <1>4

(* CPU and I/O time of p's later phases; what its present phase still      *)
(* takes from now on; and both together.                                   *)
Later(a, b) == IF a > b THEN a ELSE b
LastArrival == Max({w.arrival[p] : p \in Procs})
After(p, n) == SumFunctionOnSet(w.phases[p], (n + 1)..Len(w.phases[p]))
CoreOf(p) == CHOOSE c \in Cores : core[c].proc = p
OnItsCore(k, r) == IF k.inCs THEN r + (k.busyUntil - now) ELSE r - (now - k.runStart)
Here(p) ==
    IF p \in blocked THEN remaining[p] + (wake[p] - now)
    ELSE IF p \in OnCore THEN OnItsCore(core[CoreOf(p)], remaining[p])
    ELSE remaining[p]
Left == [p \in Procs |-> After(p, phase[p]) + Here(p)]

LEMMA AfterFacts ==
    ASSUME w \in Workloads, NEW p \in Procs, NEW n \in Nat, n <= Len(w.phases[p])
    PROVE  /\ After(p, n) \in Nat
           /\ n = Len(w.phases[p]) => After(p, n) = 0
           /\ n < Len(w.phases[p]) => /\ w.phases[p][n + 1] \in Nat
                                      /\ After(p, n) = w.phases[p][n + 1] + After(p, n + 1)
<1> DEFINE f == w.phases[p]
           S == (n + 1)..Len(f)
<1>1. f \in Seq(1..MaxTime) /\ Len(f) \in Nat /\ DOMAIN f = 1..Len(f)
  BY WorkloadFacts
<1>2. \A i \in S : f[i] \in Nat /\ f[i] \in Int
  <2> TAKE i \in S
  <2>1. i \in 1..Len(f)
    BY <1>1
  <2>2. f[i] \in 1..MaxTime
    BY <1>1, <2>1, ElementOfSeq
  <2> QED BY <2>2, EngineAssumption
<1>3. IsFiniteSet(S)
  BY <1>1, FS_Interval
<1>4. After(p, n) = SumFunctionOnSet(f, S)
  BY DEF After
<1> HIDE DEF f
<1>5. n < Len(f) => n + 1 \in S /\ S \ {n + 1} = (n + 2)..Len(f)
  BY <1>1
<1>6. n = Len(f) => S = {}
  BY <1>1
<1>7. After(p, n + 1) = SumFunctionOnSet(f, (n + 2)..Len(f))
  <2>1. (n + 1) + 1 = n + 2
    OBVIOUS
  <2> QED BY <2>1 DEF After, f
<1> HIDE DEF S
<1>8. After(p, n) \in Nat
  BY <1>2, <1>3, <1>4, SumNat
<1>9. n < Len(f) => SumFunctionOnSet(f, S) = f[n + 1] + SumFunctionOnSet(f, S \ {n + 1})
  BY <1>2, <1>3, <1>5, SumRemove
<1>10. n < Len(f) => f[n + 1] \in Nat /\ After(p, n) = f[n + 1] + After(p, n + 1)
  BY <1>2, <1>4, <1>5, <1>7, <1>9
<1>11. n = Len(f) => After(p, n) = 0
  BY <1>4, <1>6, SumEmpty
<1> QED
  BY <1>8, <1>10, <1>11 DEF f

LEMMA HorizonFacts ==
    ASSUME w \in Workloads
    PROVE  /\ LastArrival \in Nat /\ \A p \in Procs : w.arrival[p] <= LastArrival
           /\ HorizonOf(w) = LastArrival + SumFunction([p \in Procs |-> SumFunction(w.phases[p])])
           /\ SumFunction([p \in Procs |-> SumFunction(w.phases[p])]) \in Nat
           /\ \A p \in Procs : SumFunction(w.phases[p]) = After(p, 0) /\ After(p, 0) \in Nat
<1> DEFINE S == {w.arrival[p] : p \in Procs}
<1>1. w.arrival \in [Procs -> 0..(MaxTime - 1)] /\ w.phases \in [Procs -> Seq(1..MaxTime)]
  BY WorkloadFacts
<1>2. IsFiniteSet(S) /\ S # {} /\ S \subseteq Nat
  <2>1. S \subseteq 0..(MaxTime - 1)
    BY <1>1
  <2>2. IsFiniteSet(0..(MaxTime - 1))
    BY FS_Interval, EngineAssumption
  <2>3. IsFiniteSet(S)
    BY <2>1, <2>2, FS_Subset
  <2>4. S # {}
    BY EngineAssumption
  <2> QED BY <2>1, <2>3, <2>4
<1>3. LastArrival \in Nat /\ \A p \in Procs : w.arrival[p] <= LastArrival
  <2>1. Max(S) \in S /\ \A x \in S : x <= Max(S)
    <3> HIDE DEF S
    <3>1. S \subseteq Int
      BY <1>2
    <3> QED BY <1>2, <3>1, MaxFacts
  <2> QED BY <1>2, <2>1 DEF LastArrival
<1>4. \A p \in Procs : SumFunction(w.phases[p]) = After(p, 0) /\ After(p, 0) \in Nat
  <2> TAKE p \in Procs
  <2>1. w.phases[p] \in Seq(1..MaxTime)
    BY <1>1
  <2>2. Len(w.phases[p]) \in Nat /\ DOMAIN w.phases[p] = (0 + 1)..Len(w.phases[p])
    BY <2>1
  <2>3. After(p, 0) \in Nat
    BY <2>2, AfterFacts
  <2> QED BY <2>2, <2>3 DEF SumFunction, After
<1> DEFINE f == [p \in Procs |-> SumFunction(w.phases[p])]
<1>5. SumFunction(f) \in Nat
  <2>1. \A p \in Procs : f[p] \in Nat
    BY <1>4
  <2>2. SumFunction(f) = SumFunctionOnSet(f, Procs)
    BY DEF SumFunction
  <2> HIDE DEF f
  <2> QED BY <2>1, <2>2, SumNat, EngineAssumption
<1>6. HorizonOf(w) = LastArrival + SumFunction(f)
  BY DEF HorizonOf, LastArrival
<1> QED
  BY <1>3, <1>4, <1>5, <1>6

LeftKnown ==
    /\ \A p \in blocked : Here(p) = remaining[p] + (wake[p] - now)
    /\ \A c \in Busy : /\ core[c].proc \in Procs \ blocked
                       /\ Here(core[c].proc) = OnItsCore(core[c], remaining[core[c].proc])
    /\ \A p \in Procs \ (blocked \cup OnCore) : Here(p) = remaining[p]
    /\ \A p \in Procs : /\ Here(p) \in Nat /\ After(p, phase[p]) \in Nat
                        /\ Left[p] = After(p, phase[p]) + Here(p) /\ Left[p] \in Nat
    /\ SumFunction(Left) \in Nat /\ \A p \in Procs : Left[p] <= SumFunction(Left)

LEMMA LeftFacts == Inv /\ stage # "done" => LeftKnown
<1> SUFFICES ASSUME Inv, stage # "done" PROVE LeftKnown
  OBVIOUS
<1>1. /\ remaining \in [Procs -> Times] /\ wake \in [Procs -> Times] /\ now \in Times
      /\ core \in [Cores -> CoreStructs] /\ blocked \subseteq Procs /\ w \in Workloads
      /\ phase \in [Procs -> Nat \ {0}] /\ \A p \in Procs : phase[p] <= Len(w.phases[p])
  BY DEF Inv, TypeOK
<1>2. \A p \in blocked : Here(p) = remaining[p] + (wake[p] - now) /\ Here(p) \in Nat
  <2> TAKE p \in blocked
  <2>1. Here(p) = remaining[p] + (wake[p] - now)
    BY DEF Here
  <2>2. now <= wake[p] /\ remaining[p] \in Times /\ wake[p] \in Times
    BY <1>1 DEF Inv, NothingMissed
  <2> QED BY <1>1, <2>1, <2>2 DEF Times
<1>3. \A c \in Busy :
        /\ core[c].proc \in Procs \ blocked /\ core[c].proc \in OnCore
        /\ CoreOf(core[c].proc) = c
  <2> TAKE c \in Busy
  <2>1. core[c].proc \in Procs /\ core[c].proc \in OnCore
    BY <1>1 DEF Busy, Free, OnCore, CoreStructs
  <2>2. core[c].proc \notin blocked
    BY <2>1 DEF Inv, OnePlace
  <2>3. \A d \in Cores : core[d].proc = core[c].proc => d = c
    <3> SUFFICES ASSUME NEW d \in Cores, core[d].proc = core[c].proc PROVE d = c
      OBVIOUS
    <3>1. d \in Busy
      BY DEF Busy, Free
    <3> QED BY <3>1 DEF Inv, OnePlace
  <2>4. CoreOf(core[c].proc) = c
    BY <2>3 DEF CoreOf, Busy
  <2> QED BY <2>1, <2>2, <2>4
<1>4. \A c \in Busy : /\ Here(core[c].proc) = OnItsCore(core[c], remaining[core[c].proc])
                      /\ Here(core[c].proc) \in Nat
  <2> TAKE c \in Busy
  <2>1. Here(core[c].proc) = OnItsCore(core[c], remaining[core[c].proc])
    BY <1>3 DEF Here
  <2>2. /\ core[c] \in CoreStructs /\ now <= core[c].busyUntil
        /\ remaining[core[c].proc] \in Times
    BY <1>1, <1>3 DEF Inv, NothingMissed, Busy
  <2>3. CASE core[c].inCs
    BY <1>1, <2>1, <2>2, <2>3 DEF OnItsCore, CoreStructs, Times
  <2>4. CASE ~core[c].inCs
    <3>1. /\ core[c].runStart <= now /\ now <= core[c].busyUntil
          /\ core[c].busyUntil <= core[c].runEnd
          /\ core[c].runEnd <= core[c].runStart + remaining[core[c].proc]
      BY <2>4 DEF Inv, SlicesFit, Running
    <3>2. /\ core[c].runStart \in Times /\ core[c].runEnd \in Times
          /\ core[c].busyUntil \in Times
      BY <2>2 DEF CoreStructs
    <3>3. now - core[c].runStart <= remaining[core[c].proc]
      BY <1>1, <2>2, <3>1, <3>2 DEF Times
    <3> QED BY <1>1, <2>1, <2>2, <2>4, <3>1, <3>2, <3>3 DEF OnItsCore, Times
  <2> QED BY <2>3, <2>4
<1>5. \A p \in Procs \ (blocked \cup OnCore) : Here(p) = remaining[p] /\ Here(p) \in Nat
  BY <1>1 DEF Here, Times
<1>6. \A p \in Procs : Here(p) \in Nat
  <2> TAKE p \in Procs
  <2>1. CASE p \in OnCore
    <3>1. PICK c \in Busy : p = core[c].proc
      BY <2>1 DEF OnCore
    <3> QED BY <1>4, <3>1
  <2> QED BY <1>2, <1>5, <2>1
<1>7. \A p \in Procs : /\ After(p, phase[p]) \in Nat
                       /\ Left[p] = After(p, phase[p]) + Here(p) /\ Left[p] \in Nat
  <2> TAKE p \in Procs
  <2>1. After(p, phase[p]) \in Nat
    BY <1>1, AfterFacts
  <2>2. Left[p] = After(p, phase[p]) + Here(p)
    BY DEF Left
  <2> QED BY <1>6, <2>1, <2>2
<1>8. SumFunction(Left) \in Nat /\ \A p \in Procs : Left[p] <= SumFunction(Left)
  <2>1. SumFunction(Left) = SumFunctionOnSet(Left, Procs)
    BY DEF SumFunction, Left
  <2>2. SumFunctionOnSet(Left, Procs) \in Nat
    BY <1>7, SumNat, EngineAssumption
  <2>3. \A p \in Procs : Left[p] <= SumFunctionOnSet(Left, Procs)
    <3> TAKE p \in Procs
    <3>1. IsFiniteSet(Procs \ {p}) /\ \A q \in Procs \ {p} : Left[q] \in Nat
      BY <1>7, FS_RemoveElement, EngineAssumption
    <3>2. SumFunctionOnSet(Left, Procs \ {p}) \in Nat
      BY <3>1, SumNat
    <3>3. \A q \in Procs : Left[q] \in Int
      BY <1>7
    <3>4. SumFunctionOnSet(Left, Procs) = Left[p] + SumFunctionOnSet(Left, Procs \ {p})
      <4> DEFINE f == Left
      <4>1. IsFiniteSet(Procs) /\ \A q \in Procs : f[q] \in Int
        BY <3>3, EngineAssumption
      <4> HIDE DEF f
      <4>2. SumFunctionOnSet(f, Procs) = f[p] + SumFunctionOnSet(f, Procs \ {p})
        BY <4>1, SumRemove
      <4> QED BY <4>2 DEF f
    <3> QED BY <1>7, <3>2, <3>4
  <2> QED BY <2>1, <2>2, <2>3
<1> QED
  BY <1>2, <1>3, <1>4, <1>5, <1>6, <1>7, <1>8 DEF LeftKnown

Underway == Inv /\ stage # "done"
LEMMA LeftFactsNext == Inv' /\ stage' # "done" => LeftKnown'
<1>1. Underway => LeftKnown
  BY LeftFacts DEF Underway
<1>2. Underway' => LeftKnown'
  BY <1>1, PTL
<1> QED
  BY <1>2 DEF Underway

-----------------------------------------------------------------------------
(* The inductive invariant: the clock, or the last arrival if it is still  *)
(* to come, plus all the work that is left, stays within the horizon and   *)
(* what the switches made so far have cost.                                *)

ClockInv ==
    /\ log.fail # "overflow" /\ csTime <= MaxTime
    /\ stage # "done" =>
         /\ stage # "create" => OptionsAccepted
         /\ csTime = CsCost * switches
         /\ Later(now, LastArrival) + SumFunction(Left) <= HorizonOf(w) + CsCost * switches

LEMMA CostRoom ==
    ASSUME w \in Workloads, OptionsAccepted, NEW n \in Nat, CsCost = 0 \/ n <= MaxSegments
    PROVE  /\ CsCost * n \in Nat /\ CsCost * n <= MaxTime
           /\ HorizonOf(w) + CsCost * n <= MaxTime
<1>1. HorizonOf(w) \in Nat
  BY HorizonFacts
<1>2. CsCost \in Nat /\ MaxSegments \in Nat /\ MaxTime \in Nat
  BY EngineAssumption
<1>3. CsCost * n \in Nat /\ CsCost * MaxSegments \in Nat
  BY <1>2
<1>4. CsCost * n <= CsCost * MaxSegments
  <2>1. \A a, x, y \in Nat : x <= y => a * x <= a * y
    OBVIOUS
  <2>2. CASE CsCost = 0
    BY <1>2, <2>2
  <2>3. CASE n <= MaxSegments
    BY <1>2, <2>1, <2>3
  <2> QED BY <2>2, <2>3
<1>5. HorizonOf(w) + CsCost * MaxSegments <= MaxTime
  BY DEF OptionsAccepted
<1> HIDE DEF HorizonOf
<1> QED
  BY <1>1, <1>2, <1>3, <1>4, <1>5

LEMMA Room ==
    ASSUME Inv, SwitchBudget, ClockInv, stage \notin {"create", "done"}
    PROVE  /\ now + SumFunction(Left) <= HorizonOf(w) + CsCost * switches
           /\ HorizonOf(w) + CsCost * switches <= MaxTime
           /\ \A p \in Procs : now + Left[p] <= MaxTime
<1>1. /\ now \in Nat /\ switches \in Nat /\ w \in Workloads /\ MaxTime \in Nat
  BY EngineAssumption DEF Inv, TypeOK, Times
<1>2. LeftKnown /\ LastArrival \in Nat /\ HorizonOf(w) \in Nat
  BY <1>1, LeftFacts, HorizonFacts
<1>3. CsCost = 0 \/ switches <= MaxSegments
  BY EngineAssumption DEF SwitchBudget
<1>4. /\ HorizonOf(w) + CsCost * switches <= MaxTime /\ CsCost * switches \in Nat
  BY <1>1, <1>3, CostRoom DEF ClockInv
<1> DEFINE sum == SumFunction(Left)
           top == HorizonOf(w) + CsCost * switches
<1>5. sum \in Nat /\ top \in Nat /\ \A p \in Procs : Left[p] \in Nat /\ Left[p] <= sum
  BY <1>2, <1>4 DEF LeftKnown
<1>6. Later(now, LastArrival) + sum <= top /\ top <= MaxTime
  BY <1>4 DEF ClockInv
<1> HIDE DEF sum, top
<1>7. now + sum <= top
  BY <1>1, <1>2, <1>5, <1>6 DEF Later
<1>8. \A p \in Procs : now + Left[p] <= MaxTime
  BY <1>1, <1>5, <1>6, <1>7
<1> QED
  BY <1>6, <1>7, <1>8 DEF sum, top

\* an addition that fits leaves no mark
LEMMA NoOverflow ==
    ASSUME NEW l \in Logs, l.fail # "overflow", NEW a, NEW b, a + b <= MaxTime,
           a \in Nat, b \in Nat
    PROVE  NoteOverflow(l, a, b) = l /\ AddTime(a, b) = a + b
BY EngineAssumption DEF NoteOverflow, AddTime

(* The work left to the processes that a step does not concern stays as it *)
(* is.  With p == None the step concerns no process.                       *)
LEMMA OthersLeft ==
    ASSUME Inv, Inv', stage # "done", stage' # "done", UNCHANGED <<w, now>>, NEW p,
           \A q \in Procs \ {p} : /\ remaining'[q] = remaining[q] /\ wake'[q] = wake[q]
                                  /\ phase'[q] = phase[q] /\ (q \in blocked' <=> q \in blocked),
           \A c \in Cores : core[c].proc \notin {p, None} =>
              /\ core'[c].proc = core[c].proc /\ core'[c].inCs = core[c].inCs
              /\ core'[c].busyUntil = core[c].busyUntil /\ core'[c].runStart = core[c].runStart,
           \A c \in Cores : core'[c].proc \notin {p, None} => core[c].proc = core'[c].proc
    PROVE  \A q \in Procs \ {p} : Left'[q] = Left[q]
<1>1. LeftKnown /\ LeftKnown'
  BY LeftFacts, LeftFactsNext
<1> TAKE q \in Procs \ {p}
<1>2. q # None
  BY EngineAssumption
<1>3. Left[q] = After(q, phase[q]) + Here(q) /\ Left'[q] = After(q, phase[q])' + Here(q)'
  BY <1>1 DEF LeftKnown
<1>4. After(q, phase[q])' = After(q, phase[q])
  BY DEF After
<1>5. CASE q \in blocked
  <2>1. q \in blocked'
    BY <1>5
  <2>2. Here(q) = remaining[q] + (wake[q] - now) /\ Here(q)' = remaining'[q] + (wake'[q] - now')
    BY <1>1, <1>5, <2>1 DEF LeftKnown
  <2> QED BY <1>3, <1>4, <2>2
<1>6. CASE q \in OnCore
  <2>1. PICK c \in Busy : core[c].proc = q
    BY <1>6 DEF OnCore
  <2>2. /\ core'[c].proc = q /\ core'[c].inCs = core[c].inCs /\ c \in Cores
        /\ core'[c].busyUntil = core[c].busyUntil /\ core'[c].runStart = core[c].runStart
    BY <1>2, <2>1 DEF Busy
  <2>3. c \in Busy'
    BY <1>2, <2>2 DEF Busy, Free
  <2>4. /\ Here(q) = OnItsCore(core[c], remaining[q])
        /\ Here(q)' = OnItsCore(core[c], remaining[q])'
    BY <1>1, <2>1, <2>2, <2>3 DEF LeftKnown
  <2>5. OnItsCore(core[c], remaining[q])' = OnItsCore(core[c], remaining[q])
    BY <2>2 DEF OnItsCore
  <2> QED BY <1>3, <1>4, <2>4, <2>5
<1>7. CASE q \notin blocked /\ q \notin OnCore
  <2>1. q \notin blocked'
    BY <1>7
  <2>2. q \notin OnCore'
    <3> SUFFICES ASSUME NEW c \in Busy', core'[c].proc = q PROVE FALSE
      BY DEF OnCore
    <3>1. core[c].proc = q /\ c \in Busy
      BY <1>2 DEF Busy, Free
    <3> QED BY <1>7, <3>1 DEF OnCore
  <2>3. Here(q) = remaining[q] /\ Here(q)' = remaining'[q]
    BY <1>1, <1>7, <2>1, <2>2 DEF LeftKnown
  <2> QED BY <1>3, <1>4, <2>3
<1> QED
  BY <1>5, <1>6, <1>7

(* A step within an instant may add d ticks of work for one process only   *)
(* if it makes a switch that costs as much.                                *)
LEMMA SameInstant ==
    ASSUME Inv, Inv', ClockInv, stage # "done", stage' # "done", UNCHANGED <<w, now>>,
           stage' # "create" => OptionsAccepted,
           log'.fail # "overflow", csTime' <= MaxTime,
           NEW d \in Nat, NEW p \in Procs,
           csTime' = csTime + d, CsCost * switches' = CsCost * switches + d,
           \A q \in Procs \ {p} : Left'[q] = Left[q],
           Left'[p] <= Left[p] + d
    PROVE  ClockInv'
<1>1. LeftKnown /\ LeftKnown' /\ LastArrival \in Nat /\ HorizonOf(w) \in Nat /\ now \in Nat
  <2>1. LeftKnown /\ LeftKnown'
    BY LeftFacts, LeftFactsNext
  <2>2. w \in Workloads /\ now \in Nat
    BY DEF Inv, TypeOK, Times
  <2> QED BY <2>1, <2>2, HorizonFacts
<1>2. \A q \in Procs : Left[q] \in Int /\ Left'[q] \in Int
  BY <1>1 DEF LeftKnown
<1>3. \A q \in Procs \ {p} : Left'[q] <= Left[q]
  BY <1>2
<1>4. SumFunctionOnSet(Left', Procs) <= SumFunctionOnSet(Left, Procs) + d
  <2> DEFINE f == Left
             g == Left'
  <2>1. /\ \A q \in Procs : f[q] \in Int /\ g[q] \in Int
        /\ \A q \in Procs \ {p} : g[q] <= f[q]
        /\ g[p] <= f[p] + d /\ d \in Int /\ IsFiniteSet(Procs)
    BY <1>2, <1>3, EngineAssumption
  <2> HIDE DEF f, g
  <2>2. SumFunctionOnSet(g, Procs) <= SumFunctionOnSet(f, Procs) + d
    BY <2>1, SumBound
  <2> QED BY <2>2 DEF f, g
<1>5. SumFunction(Left) = SumFunctionOnSet(Left, Procs)
      /\ SumFunction(Left)' = SumFunctionOnSet(Left', Procs)
  BY DEF SumFunction, Left
<1>6. HorizonOf(w)' = HorizonOf(w) /\ LastArrival' = LastArrival
      /\ Later(now, LastArrival)' = Later(now, LastArrival)
      /\ (OptionsAccepted' <=> OptionsAccepted)
  BY DEF HorizonOf, LastArrival, Later, OptionsAccepted
<1>7. /\ csTime = CsCost * switches
      /\ Later(now, LastArrival) + SumFunction(Left) <= HorizonOf(w) + CsCost * switches
  BY DEF ClockInv
<1> DEFINE sum == SumFunction(Left)
           cost == CsCost * switches
           a == Later(now, LastArrival)
<1>8. /\ sum \in Nat /\ SumFunction(Left)' \in Nat /\ a \in Nat /\ cost \in Nat
  <2>1. cost \in Nat
    BY EngineAssumption DEF Inv, TypeOK
  <2> QED BY <1>1, <2>1 DEF LeftKnown, Later
<1>9. SumFunction(Left)' <= sum + d /\ a + sum <= HorizonOf(w) + cost
  BY <1>4, <1>5, <1>7
<1> HIDE DEF sum, cost, a
<1>10. a + SumFunction(Left)' <= HorizonOf(w) + (cost + d)
  BY <1>1, <1>8, <1>9
<1> QED
  BY <1>6, <1>7, <1>10 DEF ClockInv, a, cost

LEMMA QuietClock ==
    ASSUME Inv, Inv', ClockInv, stage # "done", stage' \notin {"create", "done"},
           stage = "create" => OptionsAccepted,
           UNCHANGED <<w, now, remaining, phase, wake, blocked, switches, csTime>>,
           log'.fail # "overflow",
           \A c \in Cores :
              /\ core'[c].proc = core[c].proc /\ core'[c].inCs = core[c].inCs
              /\ core'[c].busyUntil = core[c].busyUntil /\ core'[c].runStart = core[c].runStart
    PROVE  ClockInv'
<1>1. \A q \in Procs \ {None} : Left'[q] = Left[q]
  BY OthersLeft
<1>2. PICK p \in Procs : TRUE
  BY EngineAssumption
<1>3. \A q \in Procs : Left'[q] = Left[q] /\ Left[q] \in Nat
  BY <1>1, LeftFacts, EngineAssumption DEF LeftKnown
<1>4. Left'[p] <= Left[p] + 0 /\ \A q \in Procs \ {p} : Left'[q] = Left[q]
  BY <1>3
<1>5. csTime' = csTime + 0 /\ CsCost * switches' = CsCost * switches + 0 /\ csTime' <= MaxTime
  <2>1. csTime \in Nat /\ CsCost * switches \in Nat
    BY EngineAssumption DEF Inv, TypeOK
  <2>2. csTime <= MaxTime
    BY DEF ClockInv
  <2> QED BY <2>1, <2>2
<1>6. OptionsAccepted
  BY DEF ClockInv
<1> QED
  BY <1>4, <1>5, <1>6, SameInstant

LEMMA WakeUpClock ==
    ASSUME Inv, Inv', ClockInv, NEW p \in Procs, BecomeReady(p)
    PROVE  ClockInv'
<1>1. /\ stage = "wakeups" /\ stage' = "wakeups" /\ p \in blocked /\ blocked' = blocked \ {p}
      /\ UNCHANGED <<w, now, remaining, phase, wake, core, switches, csTime, log>>
      /\ wake[p] <= now
  BY DEF BecomeReady, WakeUp, IsFirst, Woken, procVars, resultVars
<1>2. \A q \in Procs \ {p} : Left'[q] = Left[q]
  BY <1>1, OthersLeft
<1>3. Left'[p] = Left[p]
  <2>1. LeftKnown /\ LeftKnown'
    BY <1>1, LeftFacts, LeftFactsNext
  <2>2. p \notin OnCore' /\ p \notin blocked'
    <3>1. p \notin OnCore
      BY <1>1 DEF Inv, OnePlace
    <3> QED BY <1>1, <3>1 DEF OnCore, Busy, Free
  <2>3. Here(p) = remaining[p] + (wake[p] - now) /\ Here(p)' = remaining[p]
    BY <1>1, <2>1, <2>2 DEF LeftKnown
  <2>4. wake[p] = now /\ now \in Nat /\ remaining[p] \in Nat
    BY <1>1 DEF Inv, TypeOK, NothingMissed, Times
  <2>5. After(p, phase[p])' = After(p, phase[p])
    BY <1>1 DEF After
  <2> QED BY <2>1, <2>3, <2>4, <2>5 DEF LeftKnown
<1>4. Left[p] \in Nat /\ csTime \in Nat /\ CsCost * switches \in Nat
  <2>1. stage # "done"
    BY <1>1
  <2>2. Left[p] \in Nat
    BY <2>1, LeftFacts DEF LeftKnown
  <2>3. csTime \in Nat /\ switches \in Nat /\ CsCost \in Nat
    BY EngineAssumption DEF Inv, TypeOK
  <2> QED BY <2>2, <2>3
<1>5. /\ csTime' = csTime + 0 /\ CsCost * switches' = CsCost * switches + 0
      /\ Left'[p] <= Left[p] + 0 /\ csTime' <= MaxTime
  BY <1>1, <1>3, <1>4 DEF ClockInv
<1> QED
  BY <1>1, <1>2, <1>5, SameInstant DEF ClockInv

LEMMA EndRunClock ==
    ASSUME Inv, Inv', ClockInv, NEW c \in Cores, EndRun(c), log'.fail # "overflow",
           \A q \in Procs \ {core[c].proc} :
              /\ remaining'[q] = remaining[q] /\ wake'[q] = wake[q]
              /\ phase'[q] = phase[q] /\ (q \in blocked' <=> q \in blocked),
           Left'[core[c].proc] <= Left[core[c].proc]
    PROVE  ClockInv'
<1> DEFINE p == core[c].proc
<1>1. /\ p \in Procs /\ stage \in {"ends", "interrupts"} /\ core'[c].proc = None
      /\ UNCHANGED <<w, stage, now, switches, csTime>>
      /\ \A d \in Cores \ {c} : core'[d] = core[d]
  <2>1. core' = [core EXCEPT ![c] = [core[c] EXCEPT !.proc = None, !.freeSince = now]]
        /\ core \in [Cores -> CoreStructs]
    BY DEF EndRun, Inv, TypeOK
  <2>2. core'[c].proc = None
    BY <2>1 DEF CoreStructs
  <2> QED BY <2>2, SliceEndFacts, EndRunFacts DEF EndRun
<1>2. Left'[p] <= Left[p] /\ \A q \in Procs \ {p} : Left'[q] = Left[q]
  <2>1. \A d \in Cores : core[d].proc \notin {p, None} => core'[d] = core[d]
    BY <1>1
  <2>2. \A d \in Cores : core'[d].proc \notin {p, None} => core'[d] = core[d]
    BY <1>1
  <2>3. stage # "done" /\ stage' # "done"
    BY <1>1
  <2> QED BY <1>1, <2>1, <2>2, <2>3, OthersLeft
<1> HIDE DEF p
<1>3. Left[p] \in Nat /\ Left'[p] \in Nat /\ csTime \in Nat /\ CsCost * switches \in Nat
  <2>1. stage # "done" /\ stage' # "done"
    BY <1>1
  <2>2. LeftKnown /\ LeftKnown'
    BY <2>1, LeftFacts, LeftFactsNext
  <2>3. csTime \in Nat /\ switches \in Nat /\ CsCost \in Nat
    BY EngineAssumption DEF Inv, TypeOK
  <2> QED BY <1>1, <2>2, <2>3 DEF LeftKnown
<1>4. /\ csTime' = csTime + 0 /\ CsCost * switches' = CsCost * switches + 0
      /\ Left'[p] <= Left[p] + 0 /\ csTime' <= MaxTime
  BY <1>1, <1>2, <1>3 DEF ClockInv
<1> QED
  BY <1>1, <1>2, <1>4, SameInstant DEF ClockInv

(* The work that was left to the process of a slice that ends, and what it *)
(* is after a step that takes the process off its core.                    *)
LEMMA EndRunLeft ==
    ASSUME Inv, Inv', NEW c \in Cores, EndRun(c)
    PROVE  LET p == core[c].proc IN
           /\ p \in Procs /\ p \notin blocked
           /\ Left[p] = After(p, phase[p]) + (remaining[p] - Ran(c))
           /\ After(p, phase[p]) \in Nat /\ remaining[p] - Ran(c) \in Nat
           /\ p \notin blocked' => Left'[p] = After(p, phase'[p]) + remaining'[p]
           /\ p \in blocked' => Left'[p] = After(p, phase'[p]) + (remaining'[p] + (wake'[p] - now))
           /\ \A l \in LogRun(c) : l \in Logs /\ (l.fail = "overflow" => log.fail = "overflow")
<1> DEFINE p == core[c].proc
<1>1. /\ c \in Running /\ p \in Procs /\ core[c] \in CoreStructs /\ p \in OnCore
      /\ stage \in {"ends", "interrupts"} /\ stage' = stage /\ now' = now /\ w' = w
      /\ p \notin OnCore'
  BY SliceEndFacts, EndRunFacts DEF EndRun
<1>2. LeftKnown /\ LeftKnown'
  BY <1>1, LeftFacts, LeftFactsNext
<1>3. p \notin blocked
  BY <1>1 DEF Inv, OnePlace
<1>4. Here(p) = remaining[p] - Ran(c)
  <2>1. Here(p) = OnItsCore(core[c], remaining[p]) /\ ~core[c].inCs
    BY <1>1, <1>2 DEF LeftKnown, Running
  <2> QED BY <2>1 DEF OnItsCore, Ran
<1>5. /\ Left[p] = After(p, phase[p]) + Here(p) /\ After(p, phase[p]) \in Nat
      /\ Here(p) \in Nat
  BY <1>1, <1>2 DEF LeftKnown
<1> DEFINE lp == Left'[p]
<1> HIDE DEF p
<1>6. \A q \in Procs : Left'[q] = After(q, phase'[q]) + Here(q)'
  <2> TAKE q \in Procs
  <2>1. Left'[q] = After(q, phase[q])' + Here(q)'
    BY <1>2 DEF LeftKnown
  <2>2. After(q, phase[q])' = After(q, phase'[q])
    BY <1>1 DEF After
  <2> QED BY <2>1, <2>2
<1>7. /\ \A q \in blocked' : Here(q)' = remaining'[q] + (wake'[q] - now')
      /\ \A q \in Procs \ (blocked' \cup OnCore') : Here(q)' = remaining'[q]
  BY <1>2 DEF LeftKnown
<1>8. \A l \in LogRun(c) : l \in Logs /\ (l.fail = "overflow" => log.fail = "overflow")
  <2> TAKE l \in LogRun(c)
  <2>1. l \in Logs
    BY LogRunType DEF EndRun
  <2>2. Segment(core[c].runStart, now, core[c].proc, "run") \in Segments /\ log \in Logs
    BY <1>1 DEF Segment, Segments, CoreStructs, Inv, TypeOK
  <2> QED BY <2>1, <2>2, AppendKinds DEF LogRun
<1>9. Left[p] = After(p, phase[p]) + (remaining[p] - Ran(c)) /\ remaining[p] - Ran(c) \in Nat
  BY <1>4, <1>5
<1> HIDE DEF lp
<1> QED
  BY <1>1, <1>3, <1>5, <1>6, <1>7, <1>8, <1>9 DEF p

LEMMA CompleteClock == ASSUME Inv, Inv', ClockInv, NEW c \in Cores, SliceCompletes(c) PROVE ClockInv'
<1> DEFINE p == core[c].proc
<1>1. /\ EndRun(c) /\ log' \in LogRun(c) /\ remaining' = [remaining EXCEPT ![p] = 0]
      /\ UNCHANGED <<blocked, phase, wake>>
  BY DEF SliceCompletes, Complete
<1>2. /\ p \in Procs /\ p \notin blocked' /\ log'.fail # "overflow"
      /\ Left[p] = After(p, phase[p]) + (remaining[p] - Ran(c))
      /\ Left'[p] = After(p, phase'[p]) + remaining'[p]
      /\ After(p, phase[p]) \in Nat /\ remaining[p] - Ran(c) \in Nat
  BY <1>1, EndRunLeft DEF ClockInv
<1>3. /\ remaining'[p] = 0 /\ phase'[p] = phase[p]
      /\ \A q \in Procs \ {p} : remaining'[q] = remaining[q]
  BY <1>1, <1>2 DEF Inv, TypeOK
<1>4. Left'[p] <= Left[p]
  BY <1>2, <1>3
<1> QED
  BY <1>1, <1>2, <1>3, <1>4, EndRunClock

LEMMA PreemptClock == ASSUME Inv, Inv', ClockInv, NEW c \in Cores, SlicePreempted(c) PROVE ClockInv'
<1> DEFINE p == core[c].proc
<1>1. /\ EndRun(c) /\ log' \in LogRun(c)
      /\ remaining' = [remaining EXCEPT ![p] = remaining[p] - Ran(c)]
      /\ UNCHANGED <<blocked, phase, wake>>
  BY DEF SlicePreempted, Preempt
<1>2. /\ p \in Procs /\ p \notin blocked' /\ log'.fail # "overflow"
      /\ Left[p] = After(p, phase[p]) + (remaining[p] - Ran(c))
      /\ Left'[p] = After(p, phase'[p]) + remaining'[p]
      /\ After(p, phase[p]) \in Nat /\ remaining[p] - Ran(c) \in Nat
  BY <1>1, EndRunLeft DEF ClockInv
<1>3. /\ remaining'[p] = remaining[p] - Ran(c) /\ phase'[p] = phase[p]
      /\ \A q \in Procs \ {p} : remaining'[q] = remaining[q]
  BY <1>1, <1>2 DEF Inv, TypeOK
<1>4. Left'[p] <= Left[p]
  BY <1>2, <1>3
<1> QED
  BY <1>1, <1>2, <1>3, <1>4, EndRunClock

(* A process that blocks takes its I/O with it: what is left was known     *)
(* beforehand, so its wake-up time cannot overflow.                        *)
LEMMA BlockClock ==
    ASSUME Inv, Inv', SwitchBudget, ClockInv, NEW c \in Cores, SliceBlocks(c)
    PROVE  ClockInv'
<1> DEFINE p == core[c].proc
           io == w.phases[p][phase[p] + 1]
           cpu == w.phases[p][phase[p] + 2]
<1>1. /\ EndRun(c) /\ BurstOver(c) /\ ~LastPhase(p)
      /\ remaining' = [remaining EXCEPT ![p] = cpu]
      /\ wake' = [wake EXCEPT ![p] = AddTime(now, io)]
      /\ phase' = [phase EXCEPT ![p] = phase[p] + 2]
      /\ blocked' = blocked \cup {p}
  BY DEF SliceBlocks, Block
<1>2. PICK l \in LogRun(c) : log' = NoteOverflow(l, now, io)
  BY DEF SliceBlocks, Block
<1>3. /\ p \in Procs /\ l \in Logs /\ l.fail # "overflow"
      /\ Left[p] = After(p, phase[p]) + (remaining[p] - Ran(c))
      /\ Left'[p] = After(p, phase'[p]) + (remaining'[p] + (wake'[p] - now))
  BY <1>1, <1>2, EndRunLeft DEF ClockInv
<1>4. stage \in {"ends", "interrupts"} /\ remaining[p] = Ran(c)
  BY <1>1, SliceEndFacts DEF EndRun, BurstOver
<1>5. /\ now \in Nat /\ remaining[p] \in Nat /\ w \in Workloads
      /\ phase[p] \in Nat \ {0} /\ phase[p] <= Len(w.phases[p]) /\ phase[p] # Len(w.phases[p])
      /\ phase'[p] = phase[p] + 2 /\ phase'[p] <= Len(w.phases[p])
      /\ remaining'[p] = cpu /\ wake'[p] = AddTime(now, io)
      /\ \A q \in Procs \ {p} : /\ remaining'[q] = remaining[q] /\ wake'[q] = wake[q]
                                /\ phase'[q] = phase[q] /\ (q \in blocked' <=> q \in blocked)
  <2>1. phase'[p] <= Len(w'.phases[p]) /\ w' = w
    BY <1>1, <1>3 DEF Inv, TypeOK, EndRun
  <2>2. /\ now \in Times /\ remaining \in [Procs -> Times] /\ w \in Workloads
        /\ wake \in [Procs -> Times] /\ phase \in [Procs -> Nat \ {0}]
        /\ phase[p] <= Len(w.phases[p])
    BY <1>3 DEF Inv, TypeOK
  <2>3. phase[p] # Len(w.phases[p])
    BY <1>1 DEF LastPhase
  <2> HIDE DEF cpu, io, p
  <2>4. /\ phase'[p] = phase[p] + 2 /\ remaining'[p] = cpu /\ wake'[p] = AddTime(now, io)
        /\ \A q \in Procs \ {p} : /\ remaining'[q] = remaining[q] /\ wake'[q] = wake[q]
                                  /\ phase'[q] = phase[q]
    BY <1>1, <1>3, <2>2
  <2>5. \A q \in Procs \ {p} : q \in blocked' <=> q \in blocked
    BY <1>1
  <2> QED BY <1>3, <2>1, <2>2, <2>3, <2>4, <2>5 DEF Times
<1>6. Len(w.phases[p]) \in Nat
  BY <1>3, <1>5, WorkloadFacts
<1>7. /\ io \in Nat /\ cpu \in Nat /\ After(p, phase[p] + 2) \in Nat
      /\ After(p, phase[p]) = io + (cpu + After(p, phase[p] + 2))
  <2> DEFINE n == phase[p]
  <2>0. n \in Nat /\ n + 2 <= Len(w.phases[p])
    BY <1>5
  <2>1. n < Len(w.phases[p]) /\ n + 1 < Len(w.phases[p])
    <3> DEFINE len == Len(w.phases[p])
    <3>1. len \in Nat /\ n + 2 <= len
      BY <1>6, <2>0
    <3> HIDE DEF len, n
    <3>2. n < len /\ n + 1 < len
      BY <2>0, <3>1
    <3> QED BY <3>2 DEF len
  <2>2. (n + 1) + 1 = n + 2 /\ n + 1 \in Nat /\ n + 2 \in Nat
        /\ n <= Len(w.phases[p]) /\ n + 1 <= Len(w.phases[p])
    <3> HIDE DEF n
    <3> QED BY <1>6, <2>0, <2>1
  <2> HIDE DEF n
  <2>3. w.phases[p][n + 1] \in Nat /\ After(p, n) = w.phases[p][n + 1] + After(p, n + 1)
    BY <1>3, <1>5, <2>0, <2>1, <2>2, AfterFacts
  <2>4. /\ w.phases[p][(n + 1) + 1] \in Nat
        /\ After(p, n + 1) = w.phases[p][(n + 1) + 1] + After(p, (n + 1) + 1)
    BY <1>3, <1>5, <2>0, <2>1, <2>2, AfterFacts
  <2>5. After(p, n + 2) \in Nat
    BY <1>3, <1>5, <2>0, <2>1, <2>2, AfterFacts
  <2> QED BY <2>2, <2>3, <2>4, <2>5 DEF n
<1>8. now + Left[p] <= MaxTime /\ MaxTime \in Nat
  BY <1>3, <1>4, Room, EngineAssumption
<1> DEFINE rest == After(p, phase[p] + 2)
<1> HIDE DEF io, cpu, p, rest
<1>9. Left[p] = io + (cpu + rest) /\ now + io <= MaxTime
  <2>1. After(p, phase[p]) = io + (cpu + rest) /\ rest \in Nat
    BY <1>7 DEF rest
  <2>2. Left[p] = io + (cpu + rest)
    BY <1>3, <1>4, <1>5, <1>7, <2>1
  <2> QED BY <1>5, <1>7, <1>8, <2>1, <2>2
<1>10. log' = l /\ wake'[p] = now + io
  BY <1>2, <1>3, <1>5, <1>7, <1>9, NoOverflow
<1>11. Left'[p] <= Left[p]
  <2>1. Left'[p] = rest + (cpu + ((now + io) - now))
    BY <1>3, <1>5, <1>10 DEF rest
  <2>2. rest \in Nat
    BY <1>7 DEF rest
  <2> QED BY <1>5, <1>7, <1>9, <2>1, <2>2
<1> QED
  BY <1>1, <1>3, <1>5, <1>10, <1>11, EndRunClock DEF p

(* A core that has switched in starts its slice: the switch is over, and   *)
(* the slice lasts no longer than the work that is left.                   *)
LEMMA SwitchInClock ==
    ASSUME Inv, Inv', SwitchBudget, ClockInv, NEW c \in Cores, SwitchIn(c)
    PROVE  ClockInv'
<1> DEFINE p == core[c].proc
           k == IF OneTick(c) THEN [core[c] EXCEPT !.deadline = AddTime(now, 1)] ELSE core[c]
           l == IF OneTick(c) THEN NoteOverflow(log, now, 1) ELSE log
<1>1. /\ stage = "switchins" /\ c \in Busy /\ core[c].inCs /\ core[c].busyUntil = now
      /\ core' = [core EXCEPT ![c] = Begun(k)] /\ log' = BegunLog(l, k)
      /\ UNCHANGED <<w, stage, now, blocked, remaining, phase, wake, switches, csTime>>
  BY DEF SwitchIn, SwitchedIn, IsLowest, procVars
<1>2. /\ core[c] \in CoreStructs /\ now \in Nat /\ now < MaxTime /\ log \in Logs
      /\ core \in [Cores -> CoreStructs] /\ remaining \in [Procs -> Times] /\ csTime \in Nat
      /\ switches \in Nat /\ log.fail # "overflow" /\ MaxTime \in Nat
  <2>1. /\ core \in [Cores -> CoreStructs] /\ remaining \in [Procs -> Times] /\ csTime \in Nat
        /\ switches \in Nat /\ log \in Logs /\ now \in Times
    BY DEF Inv, TypeOK
  <2>2. now < MaxTime /\ log.fail # "overflow"
    BY <1>1 DEF Inv, NothingMissed, ClockInv
  <2> QED BY <2>1, <2>2, EngineAssumption DEF Times
<1>3. /\ k.proc = p /\ k.length = core[c].length
      /\ Begun(k).proc = p /\ ~Begun(k).inCs /\ Begun(k).runStart = now
  BY <1>2 DEF Begun, CoreStructs
<1>4. l = log
  <2>1. now + 1 <= MaxTime
    BY <1>2
  <2> QED BY <1>2, <2>1, NoOverflow
<1> HIDE DEF k, l
<1>5. /\ p \in Procs /\ p \notin blocked /\ After(p, phase[p]) \in Nat
      /\ Left[p] = After(p, phase[p]) + (remaining[p] + (now - now))
      /\ Left[p] \in Nat
  <2>1. stage # "done"
    BY <1>1
  <2>2. LeftKnown
    BY <2>1, LeftFacts
  <2>3. Here(p) = OnItsCore(core[c], remaining[p]) /\ p \in Procs \ blocked
    BY <1>1, <2>2 DEF LeftKnown
  <2>4. Here(p) = remaining[p] + (now - now)
    BY <1>1, <2>3 DEF OnItsCore
  <2> HIDE DEF p
  <2> QED BY <2>2, <2>3, <2>4 DEF LeftKnown
<1>6. Left'[p] = After(p, phase[p]) + (remaining[p] - (now - now))
  <2>1. stage' # "done"
    BY <1>1
  <2>2. LeftKnown'
    BY <2>1, LeftFactsNext
  <2>3. core'[c] = Begun(k) /\ c \in Busy'
    BY <1>1, <1>2, <1>3, <1>5, EngineAssumption DEF Busy, Free
  <2>4. Here(p)' = OnItsCore(core[c], remaining[p])'
    <3>1. core'[c].proc = p
      BY <1>3, <2>3
    <3> QED BY <2>2, <2>3, <3>1 DEF LeftKnown
  <2>5. Here(p)' = remaining[p] - (now - now)
    BY <1>1, <1>3, <2>3, <2>4 DEF OnItsCore
  <2>6. Left'[p] = After(p, phase[p])' + Here(p)'
    BY <1>1, <1>3, <1>5, <2>2, <2>3 DEF LeftKnown
  <2>7. After(p, phase[p])' = After(p, phase[p])
    BY <1>1, <1>3, <2>3 DEF After
  <2> QED BY <2>5, <2>6, <2>7
<1> HIDE DEF p
<1>7. now + Left[p] <= MaxTime
  BY <1>1, <1>5, Room
<1>8. log' = log
  <2>1. RunLength(k) \in Nat /\ RunLength(k) <= remaining[p]
    <3>1. k.length \in Nat /\ remaining[p] \in Nat
      BY <1>2, <1>3, <1>5 DEF CoreStructs, Times
    <3> QED BY <1>3, <3>1 DEF RunLength, Lesser
  <2>2. now + RunLength(k) <= MaxTime
    <3> DEFINE rest == After(p, phase[p])
               len == RunLength(k)
    <3>1. /\ rest \in Nat /\ len \in Nat /\ remaining[p] \in Nat /\ len <= remaining[p]
          /\ Left[p] = rest + (remaining[p] + (now - now))
      BY <1>2, <1>5, <2>1 DEF Times
    <3> HIDE DEF rest, len
    <3>2. now + len <= MaxTime
      BY <1>2, <1>7, <3>1
    <3> QED BY <3>2 DEF len
  <2> QED BY <1>1, <1>2, <1>4, <2>1, <2>2, NoOverflow DEF BegunLog
<1>9. \A q \in Procs \ {p} : Left'[q] = Left[q]
  <2>1. \A d \in Cores : core[d].proc \notin {p, None} => core'[d] = core[d]
    BY <1>1, <1>2 DEF p
  <2>2. core'[c].proc = p
    BY <1>1, <1>2, <1>3
  <2>3. \A d \in Cores : core'[d].proc \notin {p, None} => core'[d] = core[d]
    BY <1>1, <1>2, <2>2
  <2>4. stage # "done" /\ stage' # "done"
    BY <1>1
  <2> QED BY <1>1, <2>1, <2>3, <2>4, OthersLeft
<1>10. Left'[p] <= Left[p] + 0
  <2>1. remaining[p] \in Nat
    BY <1>2, <1>5 DEF Times
  <2> QED BY <1>2, <1>5, <1>6, <2>1
<1>11. /\ csTime' = csTime + 0 /\ CsCost * switches' = CsCost * switches + 0
       /\ csTime' <= MaxTime /\ OptionsAccepted
  <2>1. CsCost * switches \in Nat
    BY <1>2, EngineAssumption
  <2> QED BY <1>1, <1>2, <2>1 DEF ClockInv
<1> QED
  BY <1>1, <1>2, <1>5, <1>8, <1>9, <1>10, <1>11, SameInstant

(* A core is taken: what a switch costs is in the allowance, and a slice   *)
(* that begins at once lasts no longer than the work that is left.         *)
LEMMA PlaceClock ==
    ASSUME Inv, Inv', TimelineInv, SwitchBudget, ClockInv,
           NEW c \in Cores, NEW i \in DOMAIN picks, Place(i, c)
    PROVE  ClockInv'
<1>p. PICK p : p = picks[i].proc
  OBVIOUS
<1> DEFINE idle == Segment(core[c].freeSince, now, None, "idle")
           until == AddTime(now, CsCost)
           cs == Segment(now, until, p, "cs")
           taken == [core[c] EXCEPT !.proc = p, !.length = picks[i].length, !.context = p,
                                    !.deadline = picks[i].deadline, !.recheck = FALSE]
<1>1. PICK l \in AppendSegment(log, c, idle) :
        \/ /\ IsSwitch(core[c], p) /\ CsCost > 0 /\ switches' = switches + 1
           /\ core' = [core EXCEPT ![c] = [taken EXCEPT !.inCs = TRUE, !.busyUntil = until]]
           /\ log' \in AppendSegment(NoteOverflow(l, now, CsCost), c, cs)
           /\ csTime' = csTime + CsCost
        \/ /\ CsCost = 0 \/ switches' = switches
           /\ core' = [core EXCEPT ![c] = Begun(taken)]
           /\ log' = BegunLog(l, taken)
           /\ csTime' = csTime
  BY <1>p, EngineAssumption DEF Place
<1>2. /\ stage = "place" /\ core[c] \in CoreStructs /\ now \in Nat /\ now < MaxTime
      /\ log \in Logs /\ core \in [Cores -> CoreStructs] /\ remaining \in [Procs -> Times]
      /\ csTime \in Nat /\ switches \in Nat /\ switches' \in Nat /\ log.fail # "overflow"
      /\ MaxTime \in Nat /\ CsCost \in Nat /\ w \in Workloads
      /\ UNCHANGED <<w, stage, now, blocked, remaining, phase, wake>>
  <2>1. /\ stage = "place" /\ UNCHANGED <<w, stage, now, blocked, remaining, phase, wake>>
    BY DEF Place, procVars
  <2>2. /\ core \in [Cores -> CoreStructs] /\ remaining \in [Procs -> Times] /\ csTime \in Nat
        /\ switches \in Nat /\ log \in Logs /\ now \in Times /\ w \in Workloads
        /\ switches' \in Nat
    BY DEF Inv, TypeOK
  <2>3. now < MaxTime /\ log.fail # "overflow"
    BY <2>1 DEF Inv, NothingMissed, ClockInv
  <2> QED BY <2>1, <2>2, <2>3, EngineAssumption DEF Times
<1>3. /\ Free(c) /\ picks[i] \in Slices /\ p \in Procs /\ core'[c].proc = p
      /\ \A d \in Cores \ {c} : core'[d] = core[d]
  BY <1>p, PlaceFacts DEF Slices
<1>4. stage # "done" /\ stage' # "done"
  BY <1>2
<1>5. LeftKnown /\ LeftKnown'
  BY <1>4, LeftFacts, LeftFactsNext
<1>6. l \in Logs /\ l.fail # "overflow"
  <2>1. idle \in Segments
    BY <1>2 DEF Segment, Segments, CoreStructs, Times
  <2> HIDE DEF idle
  <2> QED BY <1>1, <1>2, <2>1, AppendSegmentType, AppendKinds
<1>7. /\ Left[p] = After(p, phase[p]) + remaining[p] /\ Left[p] \in Nat
      /\ After(p, phase[p]) \in Nat
      /\ Left'[p] = After(p, phase[p]) + OnItsCore(core'[c], remaining[p])
  <2>1. p \notin blocked /\ p \notin OnCore
    BY <1>p DEF Inv, OnePlace, Picked
  <2>2. c \in Busy'
    BY <1>3, EngineAssumption DEF Busy, Free
  <2>3. Here(p) = remaining[p]
    BY <1>3, <1>5, <2>1 DEF LeftKnown
  <2>4. Here(p)' = OnItsCore(core'[c], remaining[p])
    <3>1. Here(p)' = OnItsCore(core[c], remaining[p])'
      BY <1>3, <1>5, <2>2 DEF LeftKnown
    <3> QED BY <1>2, <3>1 DEF OnItsCore
  <2>5. After(p, phase[p])' = After(p, phase[p])
    BY <1>2 DEF After
  <2>6. Left'[p] = After(p, phase[p])' + Here(p)'
    BY <1>3, <1>5 DEF LeftKnown
  <2> QED BY <1>3, <1>5, <2>3, <2>4, <2>5, <2>6 DEF LeftKnown
<1>8. \A q \in Procs \ {p} : Left'[q] = Left[q]
  <2>1. \A d \in Cores : core[d].proc \notin {p, None} => core'[d] = core[d]
    BY <1>3 DEF Free
  <2>2. \A d \in Cores : core'[d].proc \notin {p, None} => core'[d] = core[d]
    BY <1>3
  <2> QED BY <1>2, <1>4, <2>1, <2>2, OthersLeft
<1>9. CsCost * switches \in Nat /\ OptionsAccepted /\ csTime = CsCost * switches
      /\ csTime <= MaxTime
  BY <1>2 DEF ClockInv
<1>10. CASE /\ IsSwitch(core[c], p) /\ CsCost > 0 /\ switches' = switches + 1
            /\ core' = [core EXCEPT ![c] = [taken EXCEPT !.inCs = TRUE, !.busyUntil = until]]
            /\ log' \in AppendSegment(NoteOverflow(l, now, CsCost), c, cs)
            /\ csTime' = csTime + CsCost
  <2>1. switches' <= MaxSegments
    BY <1>10, PlaceBudget
  <2>2. CsCost * (switches + 1) = CsCost * switches + CsCost
    <3>1. \A a, n \in Nat : a * (n + 1) = a * n + a
      OBVIOUS
    <3> QED BY <1>2, <3>1
  <2> DEFINE top == HorizonOf(w)
             cost == CsCost * switches
             sum == SumFunction(Left)
  <2>3. top \in Nat /\ cost \in Nat /\ sum \in Nat
    BY <1>2, <1>5, <1>9, HorizonFacts DEF LeftKnown
  <2>4. CsCost * (switches + 1) <= MaxTime /\ top + CsCost * (switches + 1) <= MaxTime
    BY <1>2, <1>9, <1>10, <2>1, CostRoom
  <2>5. now + sum <= top + cost
    BY <1>2, Room
  <2>6. cost = csTime
    BY <1>9
  <2> HIDE DEF top, cost, sum
  <2>7. now + CsCost <= MaxTime /\ cost + CsCost <= MaxTime
    <3>1. CsCost * (switches + 1) = cost + CsCost
      BY <2>2 DEF cost
    <3>2. top + (cost + CsCost) <= MaxTime
      BY <2>4, <3>1
    <3> QED BY <1>2, <2>3, <2>5, <3>2
  <2>8. NoteOverflow(l, now, CsCost) = l /\ until = now + CsCost
    BY <1>2, <1>6, <2>7, NoOverflow
  <2>9. log'.fail # "overflow"
    <3>1. cs \in Segments
      BY <1>2, <1>3, <2>7, <2>8 DEF Segment, Segments, Times
    <3> HIDE DEF cs
    <3> QED BY <1>6, <1>10, <2>8, <3>1, AppendKinds
  <2>10. Left'[p] <= Left[p] + CsCost
    <3>1. core'[c].inCs /\ core'[c].busyUntil = now + CsCost
      BY <1>2, <1>10, <2>8 DEF CoreStructs
    <3>2. OnItsCore(core'[c], remaining[p]) = remaining[p] + ((now + CsCost) - now)
      BY <3>1 DEF OnItsCore
    <3>3. remaining[p] \in Nat
      BY <1>2, <1>3 DEF Times
    <3> QED BY <1>2, <1>7, <3>2, <3>3
  <2>11. csTime' <= MaxTime /\ CsCost * switches' = CsCost * switches + CsCost
    BY <1>10, <2>2, <2>6, <2>7
  <2> QED BY <1>2, <1>3, <1>4, <1>8, <1>9, <1>10, <2>9, <2>10, <2>11, SameInstant
<1>11. CASE /\ CsCost = 0 \/ switches' = switches
            /\ core' = [core EXCEPT ![c] = Begun(taken)]
            /\ log' = BegunLog(l, taken) /\ csTime' = csTime
  <2>1. taken.proc = p /\ taken.length = picks[i].length
    BY <1>2 DEF CoreStructs
  <2>2. ~Begun(taken).inCs /\ Begun(taken).runStart = now
    BY <1>2 DEF Begun, CoreStructs
  <2>3. RunLength(taken) \in Nat /\ RunLength(taken) <= remaining[p] /\ remaining[p] \in Nat
    <3>1. picks[i].length \in Nat /\ remaining[p] \in Nat
      BY <1>2, <1>3 DEF Slices, Times
    <3> HIDE DEF taken
    <3> QED BY <2>1, <3>1 DEF RunLength, Lesser
  <2> HIDE DEF taken
  <2>4. log' = l
    <3>1. now + Left[p] <= MaxTime
      BY <1>2, <1>3, Room
    <3>2. now + RunLength(taken) <= MaxTime
      BY <1>2, <1>7, <2>3, <3>1
    <3> QED BY <1>2, <1>6, <1>11, <2>3, <3>2, NoOverflow DEF BegunLog
  <2>5. Left'[p] <= Left[p] + 0
    <3>1. core'[c] = Begun(taken)
      BY <1>2, <1>11
    <3>2. OnItsCore(core'[c], remaining[p]) = remaining[p] - (now - now)
      BY <2>2, <3>1 DEF OnItsCore
    <3> QED BY <1>2, <1>7, <2>3, <3>2
  <2>6. csTime' = csTime + 0 /\ CsCost * switches' = CsCost * switches + 0 /\ csTime' <= MaxTime
    <3>1. CASE CsCost = 0
      <4>1. CsCost * switches = 0 /\ CsCost * switches' = 0
        <5>1. \A n \in Nat : 0 * n = 0
          OBVIOUS
        <5> QED BY <1>2, <3>1, <5>1
      <4>2. csTime = 0 /\ csTime' = 0 /\ 0 <= MaxTime
        BY <1>2, <1>9, <1>11, <4>1
      <4> QED BY <4>1, <4>2
    <3>2. CASE switches' = switches
      BY <1>2, <1>9, <1>11, <3>2
    <3> QED BY <1>11, <3>1, <3>2
  <2> QED BY <1>2, <1>3, <1>4, <1>6, <1>8, <1>9, <2>4, <2>5, <2>6, SameInstant
<1> QED
  BY <1>1, <1>10, <1>11

(* Time passes: before the last arrival nothing is owed for it, and after  *)
(* it some process computes, switches in or does I/O all along.            *)
LEMMA AdvanceClock == ASSUME Inv, Inv', SwitchBudget, ClockInv, Advance PROVE ClockInv'
<1>1. PICK t \in EventTimes : now' = t /\ \A u \in EventTimes : t <= u
  BY DEF Advance
<1>2. /\ stage = "advance" /\ stage' = "arrivals" /\ w' = w
      /\ UNCHANGED <<pending, blocked, remaining, phase, wake, core, log, switches, csTime>>
  BY DEF Advance, procVars, resultVars
<1>3. stage # "done" /\ stage' # "done"
  BY <1>2
<1>4. LeftKnown /\ LeftKnown'
  BY <1>3, LeftFacts, LeftFactsNext
<1>5. /\ now \in Nat /\ t \in Nat /\ now < t /\ w \in Workloads
      /\ core \in [Cores -> CoreStructs] /\ remaining \in [Procs -> Times]
      /\ wake \in [Procs -> Times] /\ blocked \subseteq Procs /\ pending \subseteq Procs
  BY <1>1, <1>2, EventsAhead DEF Inv, TypeOK, Times
<1>6. \A p \in Procs : After(p, phase[p])' = After(p, phase[p])
  BY <1>2 DEF After
<1>7. Busy' = Busy /\ OnCore' = OnCore
  BY <1>2 DEF Busy, Free, OnCore
<1>8. \A p \in blocked : Left'[p] = Left[p] + (now - t)
  <2> TAKE p \in blocked
  <2>1. Here(p) = remaining[p] + (wake[p] - now) /\ Here(p)' = remaining[p] + (wake[p] - t)
    BY <1>1, <1>2, <1>4 DEF LeftKnown
  <2>2. remaining[p] \in Nat /\ wake[p] \in Nat /\ p \in Procs
    BY <1>5 DEF Times
  <2>3. Here(p)' = Here(p) + (now - t)
    BY <1>5, <2>1, <2>2
  <2> QED BY <1>4, <1>5, <1>6, <2>2, <2>3 DEF LeftKnown
<1>9. \A c \in Busy : /\ core[c].proc \in Procs
                      /\ Left'[core[c].proc] = Left[core[c].proc] + (now - t)
  <2> TAKE c \in Busy
  <2>1. PICK p : p = core[c].proc
    OBVIOUS
  <2>2. /\ p \in Procs /\ Here(p) = OnItsCore(core[c], remaining[p])
        /\ core[c] \in CoreStructs
    BY <1>4, <1>5, <2>1 DEF LeftKnown, Busy
  <2>3. Here(p)' = OnItsCore(core[c], remaining[p])'
    <3>1. c \in Busy' /\ core'[c].proc = p
      BY <1>2, <1>7, <2>1
    <3> QED BY <1>4, <3>1 DEF LeftKnown
  <2>4. /\ remaining[p] \in Nat /\ core[c].busyUntil \in Nat /\ core[c].runStart \in Nat
    BY <1>5, <2>2 DEF CoreStructs, Times
  <2>5. OnItsCore(core[c], remaining[p])' = OnItsCore(core[c], remaining[p]) + (now - t)
    <3>1. CASE core[c].inCs
      <4>1. /\ OnItsCore(core[c], remaining[p]) = remaining[p] + (core[c].busyUntil - now)
            /\ OnItsCore(core[c], remaining[p])' = remaining[p] + (core[c].busyUntil - t)
        BY <1>1, <1>2, <3>1 DEF OnItsCore
      <4> QED BY <1>5, <2>4, <4>1
    <3>2. CASE ~core[c].inCs
      <4>1. /\ OnItsCore(core[c], remaining[p]) = remaining[p] - (now - core[c].runStart)
            /\ OnItsCore(core[c], remaining[p])' = remaining[p] - (t - core[c].runStart)
        BY <1>1, <1>2, <3>2 DEF OnItsCore
      <4> QED BY <1>5, <2>4, <4>1
    <3> QED BY <3>1, <3>2
  <2>6. Here(p)' = Here(p) + (now - t)
    BY <2>2, <2>3, <2>5
  <2>7. Left'[p] = Left[p] + (now - t)
    BY <1>4, <1>5, <1>6, <2>2, <2>6 DEF LeftKnown
  <2> QED BY <2>1, <2>2, <2>7
<1>10. \A p \in Procs \ (blocked \cup OnCore) : Left'[p] = Left[p]
  BY <1>2, <1>4, <1>6, <1>7 DEF LeftKnown
<1>11. \A p \in Procs : Left[p] \in Nat /\ Left'[p] \in Nat /\ Left'[p] <= Left[p]
  <2> TAKE p \in Procs
  <2>1. Left[p] \in Nat /\ Left'[p] \in Nat
    BY <1>4 DEF LeftKnown
  <2>2. Left'[p] = Left[p] \/ Left'[p] = Left[p] + (now - t)
    <3>1. p \in OnCore => \E c \in Busy : p = core[c].proc
      BY DEF OnCore
    <3> QED BY <1>8, <1>9, <1>10, <3>1
  <2> QED BY <1>5, <2>1, <2>2
<1> DEFINE f == Left
           g == Left'
           top == HorizonOf(w) + CsCost * switches
<1>12. /\ SumFunction(Left) = SumFunctionOnSet(f, Procs)
       /\ SumFunction(Left)' = SumFunctionOnSet(g, Procs)
       /\ SumFunction(Left) \in Nat /\ SumFunction(Left)' \in Nat
  <2>1. SumFunction(Left) = SumFunctionOnSet(f, Procs)
        /\ SumFunction(Left)' = SumFunctionOnSet(g, Procs)
    BY DEF SumFunction, Left
  <2>2. SumFunction(Left) \in Nat /\ SumFunction(Left)' \in Nat
    BY <1>4 DEF LeftKnown
  <2> QED BY <2>1, <2>2
<1>13. /\ \A p \in Procs : f[p] \in Int /\ g[p] \in Int /\ g[p] <= f[p]
       /\ IsFiniteSet(Procs)
  BY <1>11, EngineAssumption
<1>14. /\ LastArrival \in Nat /\ top \in Nat
       /\ \A p \in Procs : w.arrival[p] \in Nat /\ w.arrival[p] <= LastArrival
  <2>1. HorizonOf(w) \in Nat
    BY <1>5, HorizonFacts
  <2>2. CsCost * switches \in Nat
    BY EngineAssumption DEF Inv, TypeOK
  <2>3. top \in Nat
    BY <2>1, <2>2
  <2>4. \A p \in Procs : w.arrival[p] \in Nat
    BY <1>5, WorkloadFacts
  <2>5. LastArrival \in Nat /\ \A p \in Procs : w.arrival[p] <= LastArrival
    BY <1>5, HorizonFacts
  <2> QED BY <2>3, <2>4, <2>5
<1>15. Later(now, LastArrival) + SumFunction(Left) <= top
  BY <1>2 DEF ClockInv
<1>16. Later(now, LastArrival)' = Later(t, LastArrival) /\ HorizonOf(w)' = HorizonOf(w)
       /\ (OptionsAccepted' <=> OptionsAccepted)
  BY <1>1, <1>2 DEF Later, LastArrival, HorizonOf, OptionsAccepted
<1> HIDE DEF f, g, top
<1>17. Later(t, LastArrival) + SumFunction(Left)' <= top
  <2>1. CASE t <= LastArrival
    <3>1. SumFunction(Left)' <= SumFunction(Left)
      BY <1>12, <1>13, SumMonotone
    <3>2. Later(t, LastArrival) = LastArrival /\ Later(now, LastArrival) = LastArrival
      BY <1>5, <1>14, <2>1 DEF Later
    <3> DEFINE old == SumFunction(Left)
               new == SumFunction(Left)'
    <3>3. old \in Nat /\ new \in Nat /\ new <= old /\ LastArrival + old <= top
      BY <1>12, <1>15, <3>1, <3>2
    <3> HIDE DEF old, new
    <3>4. LastArrival + new <= top
      BY <1>14, <3>3
    <3> QED BY <3>2, <3>4 DEF new
  <2>2. CASE ~(t <= LastArrival)
    <3>1. \A p \in pending : w.arrival[p] \in EventTimes
      BY DEF EventTimes
    <3>2. pending = {}
      <4> SUFFICES ASSUME NEW p \in pending PROVE FALSE
        OBVIOUS
      <4>1. t <= w.arrival[p] /\ p \in Procs
        BY <1>1, <1>5, <3>1
      <4> QED BY <1>5, <1>14, <2>2, <4>1
    <3>3. \E a \in Procs : Left'[a] = Left[a] + (now - t)
      <4>1. CASE \E p \in blocked : t = wake[p]
        BY <1>5, <1>8, <4>1
      <4>2. CASE Busy # {}
        BY <1>9, <4>2
      <4> QED BY <3>2, <4>1, <4>2 DEF EventTimes
    <3>4. PICK a \in Procs : g[a] = f[a] + (now - t)
      BY <3>3 DEF f, g
    <3>5. /\ now - t \in Int /\ g[a] <= f[a] + (now - t)
          /\ \A p \in Procs : f[p] \in Int /\ g[p] \in Int
          /\ \A p \in Procs \ {a} : g[p] <= f[p]
      BY <1>5, <1>13, <3>4
    <3>6. SumFunctionOnSet(g, Procs) <= SumFunctionOnSet(f, Procs) + (now - t)
      BY <1>13, <3>5, SumBound
    <3>7. Later(t, LastArrival) = t /\ now <= Later(now, LastArrival)
          /\ Later(now, LastArrival) \in Nat
      BY <1>5, <1>14, <2>2 DEF Later
    <3> QED BY <1>5, <1>12, <1>14, <1>15, <3>6, <3>7
  <2> QED BY <2>1, <2>2
<1> QED
  BY <1>2, <1>3, <1>16, <1>17 DEF ClockInv, top

LEMMA InitClock == Init => ClockInv
<1> SUFFICES ASSUME Init PROVE ClockInv
  OBVIOUS
<1>1. /\ w \in Workloads /\ stage = "create" /\ log.fail = "ok" /\ csTime = 0 /\ switches = 0
      /\ blocked = {} /\ phase = [p \in Procs |-> 1]
      /\ remaining = [p \in Procs |-> w.phases[p][1]]
      /\ now \in {w.arrival[p] : p \in Procs} /\ Busy = {}
  BY DEF Init, EngineInit, FreshCore, Busy, Free
<1>2. Inv /\ LeftKnown
  BY <1>1, InitInv, LeftFacts
<1>3. /\ LastArrival \in Nat /\ now \in Nat /\ now <= LastArrival
  BY <1>1, HorizonFacts, WorkloadFacts
<1> DEFINE f == [p \in Procs |-> SumFunction(w.phases[p])]
           g == Left
<1>4. \A p \in Procs : g[p] = f[p] /\ g[p] \in Int
  <2> TAKE p \in Procs
  <2>1. Here(p) = w.phases[p][1]
    BY <1>1, <1>2 DEF LeftKnown, OnCore
  <2>2. w.phases[p] \in Seq(1..MaxTime) /\ IsOdd(Len(w.phases[p]))
    BY <1>1, WorkloadFacts
  <2>3. Len(w.phases[p]) \in Nat /\ 0 < Len(w.phases[p]) /\ 0 <= Len(w.phases[p])
    <3> DEFINE n == Len(w.phases[p])
    <3>1. n \in Nat /\ IsOdd(n)
      BY <2>2
    <3> HIDE DEF n
    <3>2. n >= 1
      BY <3>1, OddFacts
    <3> QED BY <3>1, <3>2 DEF n
  <2>4. After(p, 0) = w.phases[p][0 + 1] + After(p, 0 + 1) /\ w.phases[p][0 + 1] \in Nat
    BY <1>1, <2>3, AfterFacts
  <2>5. f[p] = After(p, 0)
    BY <1>1, HorizonFacts
  <2>6. g[p] = After(p, 1) + Here(p) /\ g[p] \in Nat /\ After(p, 1) \in Nat
    BY <1>1, <1>2 DEF LeftKnown
  <2> QED BY <2>1, <2>4, <2>5, <2>6
<1>5. SumFunction(Left) = SumFunction(f) /\ SumFunction(f) \in Nat
  <2>1. SumFunction(Left) = SumFunctionOnSet(g, Procs) /\ SumFunction(f) = SumFunctionOnSet(f, Procs)
    BY DEF SumFunction, Left
  <2>2. SumFunction(Left) \in Nat
    BY <1>2 DEF LeftKnown
  <2> HIDE DEF f, g
  <2>3. SumFunctionOnSet(g, Procs) = SumFunctionOnSet(f, Procs)
    BY <1>4, SumSame, EngineAssumption
  <2> QED BY <2>1, <2>2, <2>3
<1>6. HorizonOf(w) = LastArrival + SumFunction(f)
  BY <1>1, HorizonFacts
<1> HIDE DEF f
<1>7. CsCost * switches = 0 /\ 0 <= MaxTime
  BY <1>1, EngineAssumption
<1>8. Later(now, LastArrival) = LastArrival
  BY <1>3 DEF Later
<1> QED
  BY <1>1, <1>3, <1>5, <1>6, <1>7, <1>8 DEF ClockInv

LEMMA ClockStep ==
    ASSUME Inv, Inv', TimelineInv, SwitchBudget, ClockInv, [Next]_vars
    PROVE  ClockInv'
<1>0. core \in [Cores -> CoreStructs]
  BY DEF Inv, TypeOK
<1>1. CASE \E p \in Procs : Arrive(p)
  BY <1>1, QuietClock DEF Arrive, Admit, procVars, resultVars, ClockInv
<1>2. CASE \E p \in Procs : BecomeReady(p)
  BY <1>2, WakeUpClock
<1>3. CASE \E c \in Cores : SliceCompletes(c) \/ SliceBlocks(c) \/ SlicePreempted(c)
  BY <1>3, CompleteClock, BlockClock, PreemptClock
<1>4. CASE \/ (\E s \in Slices : Pick(s)) \/ PicksDone \/ PlacesDone \/ Create \/ ArrivalsDone
           \/ WakeupsDone \/ SwitchInsDone \/ InstantDone
  BY <1>4, QuietClock
     DEF Pick, WantsPick, PicksDone, PlacesDone, Create, ArrivalsDone, WakeupsDone,
         SwitchInsDone, InstantDone, procVars, resultVars, ClockInv
<1>5. CASE \E p \in ready : \E s \in SlicesFor(p) : NextSlice(s)
  <2>1. stage = "picks"
    BY <1>5 DEF NextSlice, Pick, WantsPick
  <2>2. \E s \in Slices : Pick(s)
    BY <1>5, <2>1, SlicesForFacts DEF NextSlice
  <2> QED BY <1>4, <2>2
<1>6. CASE EndsDone
  <2>1. \A c \in Cores :
          /\ core'[c].proc = core[c].proc /\ core'[c].inCs = core[c].inCs
          /\ core'[c].busyUntil = core[c].busyUntil /\ core'[c].runStart = core[c].runStart
    <3> TAKE c \in Cores
    <3>1. core'[c] = core[c] \/ core'[c] = [core[c] EXCEPT !.recheck = TRUE]
      BY <1>6 DEF EndsDone
    <3> QED BY <1>0, <3>1 DEF CoreStructs
  <2> QED BY <1>6, <2>1, QuietClock DEF EndsDone, procVars, resultVars, ClockInv
<1>7. CASE \E c \in Cores : SwitchIn(c)
  BY <1>7, SwitchInClock
<1>8. CASE \E c \in Cores, i \in DOMAIN picks : Place(i, c)
  BY <1>8, PlaceClock
<1>9. CASE Advance
  BY <1>9, AdvanceClock
<1>10. CASE CloseTimeline
  <2> DEFINE c == closed + 1
             g == Segment(core[c].freeSince, now, None, "idle")
  <2>1. /\ c \in Cores /\ g \in Segments /\ log \in Logs /\ log' \in AppendSegment(log, c, g)
    <3>1. c \in Cores /\ now \in Times /\ log \in Logs
      BY <1>10, EngineAssumption DEF CloseTimeline, Inv, TypeOK, Cores
    <3> HIDE DEF c
    <3>2. g \in Segments
      BY <1>0, <3>1 DEF Segment, Segments, CoreStructs
    <3> QED BY <1>10, <3>1, <3>2 DEF CloseTimeline, c
  <2> HIDE DEF c, g
  <2>2. log'.fail # "overflow"
    BY <2>1, AppendKinds DEF ClockInv
  <2> QED BY <1>10, <2>2, QuietClock DEF CloseTimeline, procVars
<1>11. CASE Return \/ Reject
  <2>1. stage' = "done" /\ log'.fail = log.fail /\ csTime' \in {0, csTime}
    BY <1>11 DEF Return, Reject, Inv, TypeOK, Logs
  <2> QED BY <2>1, EngineAssumption DEF ClockInv
<1>12. CASE UNCHANGED vars \/ Terminated
  <2>1. UNCHANGED <<w, stage, now, blocked, remaining, phase, wake, core, log, switches, csTime>>
    BY <1>12 DEF vars, engineVars, procVars, resultVars, Terminated
  <2>2. Left' = Left /\ Later(now, LastArrival)' = Later(now, LastArrival)
        /\ HorizonOf(w)' = HorizonOf(w) /\ (OptionsAccepted' <=> OptionsAccepted)
    BY <2>1 DEF Left, After, Here, OnItsCore, CoreOf, OnCore, Busy, Free, Later, LastArrival,
                HorizonOf, OptionsAccepted
  <2>3. SumFunction(Left)' = SumFunction(Left)
    BY <2>2
  <2> QED BY <2>1, <2>2, <2>3 DEF ClockInv
<1> QED
  BY <1>1, <1>2, <1>3, <1>4, <1>5, <1>6, <1>7, <1>8, <1>9, <1>10, <1>11, <1>12
     DEF Next, StopPicking, EngineStep

LEMMA ClockInvariant == Spec => [](Inv /\ TimelineInv /\ SwitchBudget /\ ClockInv)
<1>1. Init => Inv /\ TimelineInv /\ SwitchBudget /\ ClockInv
  BY InitInv, InitTimelines, InitBudget, InitClock
<1>2. Inv /\ TimelineInv /\ SwitchBudget /\ ClockInv /\ [Next]_vars
        => Inv' /\ TimelineInv' /\ SwitchBudget' /\ ClockInv'
  <2> SUFFICES ASSUME Inv, TimelineInv, SwitchBudget, ClockInv, [Next]_vars
               PROVE  Inv' /\ TimelineInv' /\ SwitchBudget' /\ ClockInv'
    OBVIOUS
  <2>1. Inv'
    BY NextInv
  <2> QED BY <2>1, TimelineStep, BudgetStep, ClockStep
<1> QED
  BY <1>1, <1>2, PTL DEF Spec

(* For every workload and switch cost that check_options accepts, no       *)
(* addition of the engine saturates: EngineFail is never "overflow", and   *)
(* cs_time fits its int64_t.  max_segments bounds the switches because     *)
(* each of them is paid for by a segment (engine.c:338).                   *)
THEOREM OverflowUnreachableHolds == Spec => []OverflowUnreachable
<1>1. ClockInv => OverflowUnreachable
  BY DEF ClockInv, OverflowUnreachable
<1> QED
  BY <1>1, ClockInvariant, PTL

-----------------------------------------------------------------------------
(* A run-to-completion policy (one without on_preempt) hands out whole     *)
(* bursts, and nothing ends such a slice before its burst does.            *)

WholeBurst(r, length, deadline) == length = r /\ deadline = NoDeadline

RunToEnd ==
    ~Preemptive /\ stage # "done" =>
        /\ \A i \in DOMAIN picks :
             WholeBurst(remaining[picks[i].proc], picks[i].length, picks[i].deadline)
        /\ \A c \in Busy :
             /\ WholeBurst(remaining[core[c].proc], core[c].length, core[c].deadline)
             /\ ~core[c].recheck
        /\ \A c \in Running :
             /\ core[c].runEnd = AddTime(core[c].runStart, remaining[core[c].proc])
             /\ core[c].busyUntil = core[c].runEnd

LEMMA QuietRunToEnd ==
    ASSUME RunToEnd, stage # "done", UNCHANGED <<picks, core, remaining>>
    PROVE  RunToEnd'
BY DEF RunToEnd, WholeBurst, Busy, Running, Free, AddTime, NoDeadline

LEMMA EndRunToEnd ==
    ASSUME Inv, RunToEnd, NEW c \in Cores, EndRun(c),
           \A p \in Procs \ {core[c].proc} : remaining'[p] = remaining[p]
    PROVE  RunToEnd'
<1>1. /\ picks' = picks /\ picks = <<>> /\ stage # "done"
  BY SliceEndFacts DEF EndRun, Inv, HasWork
<1>2. /\ Busy' \subseteq Busy /\ Running' \subseteq Running
      /\ \A d \in Cores \ {c} : core'[d] = core[d] /\ core'[d].proc # core[c].proc
      /\ c \notin Busy' /\ c \notin Running'
  BY EndRunFacts
<1>3. \A d \in Busy' : /\ d \in Busy /\ core'[d] = core[d]
                       /\ remaining'[core'[d].proc] = remaining[core[d].proc]
  <2> TAKE d \in Busy'
  <2>1. d \in Busy /\ d \in Cores \ {c}
    BY <1>2 DEF Busy
  <2>2. core[d].proc \in Procs /\ core'[d] = core[d]
    BY <1>2, <2>1 DEF Inv, TypeOK, CoreStructs, Busy, Free
  <2> QED BY <1>2, <2>1, <2>2
<1>4. \A d \in Running' : d \in Running /\ d \in Busy'
  BY <1>2 DEF Running
<1> QED
  BY <1>1, <1>3, <1>4 DEF RunToEnd, WholeBurst, AddTime, NoDeadline

\* a slice of a whole burst begins
LEMMA BegunWhole ==
    ASSUME NEW k, k.proc \in Procs, remaining[k.proc] \in Nat, now \in Nat, k \in CoreStructs,
           WholeBurst(remaining[k.proc], k.length, k.deadline)
    PROVE  /\ Begun(k).proc = k.proc
           /\ WholeBurst(remaining[k.proc], Begun(k).length, Begun(k).deadline)
           /\ Begun(k).recheck = k.recheck
           /\ Begun(k).runEnd = AddTime(Begun(k).runStart, remaining[k.proc])
           /\ Begun(k).busyUntil = Begun(k).runEnd
<1>1. RunLength(k) = remaining[k.proc]
  BY DEF RunLength, Lesser, WholeBurst
<1>2. Begun(k) = [k EXCEPT !.inCs = FALSE, !.runStart = now,
                            !.runEnd = AddTime(now, remaining[k.proc]),
                            !.busyUntil = Lesser(MaxTime, AddTime(now, remaining[k.proc]))]
  BY <1>1 DEF Begun, WholeBurst, NoDeadline
<1>3. Lesser(MaxTime, AddTime(now, remaining[k.proc])) = AddTime(now, remaining[k.proc])
  BY EngineAssumption DEF Lesser, AddTime
<1> QED
  BY <1>2, <1>3 DEF CoreStructs, WholeBurst

LEMMA RunToEndStep == ASSUME Inv, RunToEnd, [Next]_vars PROVE RunToEnd'
<1> SUFFICES ASSUME ~Preemptive, stage' # "done" PROVE RunToEnd'
  BY DEF RunToEnd
<1>0. /\ core \in [Cores -> CoreStructs] /\ remaining \in [Procs -> Times] /\ now \in Times
      /\ picks \in Seq(Slices)
  BY DEF Inv, TypeOK
<1>1. CASE \E p \in Procs : Arrive(p) \/ BecomeReady(p)
  BY <1>1, QuietRunToEnd DEF Arrive, Admit, BecomeReady, WakeUp, procVars, resultVars
<1>2. CASE \E c \in Cores : SliceCompletes(c)
  <2>1. PICK c \in Cores : SliceCompletes(c)
    BY <1>2
  <2> QED BY <1>0, <2>1, EndRunToEnd DEF SliceCompletes, Complete
<1>3. CASE \E c \in Cores : SliceBlocks(c)
  <2>1. PICK c \in Cores : SliceBlocks(c)
    BY <1>3
  <2> QED BY <1>0, <2>1, EndRunToEnd DEF SliceBlocks, Block
<1>4. CASE \E c \in Cores : SlicePreempted(c)
  <2>1. PICK c \in Cores : SlicePreempted(c)
    BY <1>4
  <2> QED BY <1>0, <2>1, EndRunToEnd DEF SlicePreempted, Preempt
<1>5. CASE \/ PicksDone \/ PlacesDone \/ Create \/ ArrivalsDone \/ WakeupsDone \/ SwitchInsDone
           \/ InstantDone \/ Advance \/ CloseTimeline
  BY <1>5, QuietRunToEnd
     DEF PicksDone, PlacesDone, Create, ArrivalsDone, WakeupsDone, SwitchInsDone, InstantDone,
         Advance, CloseTimeline, procVars, resultVars
<1>6. CASE \E p \in ready : \E s \in SlicesFor(p) : NextSlice(s)
  <2>1. PICK p \in ready : \E s \in SlicesFor(p) : NextSlice(s)
    BY <1>6
  <2>2. PICK s \in SlicesFor(p) : NextSlice(s)
    BY <2>1
  <2>3. stage # "done" /\ picks' = Append(picks, s) /\ UNCHANGED <<core, remaining>>
    BY <2>2 DEF NextSlice, Pick, WantsPick, procVars
  <2>4. s \in Slices /\ WholeBurst(remaining[s.proc], s.length, s.deadline)
    <3>1. s \in Slices
      BY <2>3, SlicesForFacts
    <3>2. s = Slice(p, remaining[p], NoDeadline)
      BY DEF SlicesFor
    <3> QED BY <3>1, <3>2 DEF Slice, WholeBurst
  <2>5. \A i \in DOMAIN picks' : picks'[i] = s \/ (i \in DOMAIN picks /\ picks'[i] = picks[i])
    BY <1>0, <2>3, <2>4, AppendProperties
  <2>6. Busy' = Busy /\ Running' = Running
    BY <2>3 DEF Busy, Running, Free
  <2> QED BY <2>3, <2>4, <2>5, <2>6 DEF RunToEnd, WholeBurst, AddTime, NoDeadline
<1>7. CASE EndsDone
  <2>1. core' = core
    BY <1>0, <1>7, PolicyAssumption DEF EndsDone, Redecide
  <2> QED BY <1>7, <2>1, QuietRunToEnd DEF EndsDone, procVars
<1>8. CASE \E c \in Cores : SwitchIn(c)
  <2>1. PICK c \in Cores : SwitchIn(c)
    BY <1>8
  <2>2. stage # "done" /\ c \in Busy /\ UNCHANGED <<picks, remaining>> /\ now < MaxTime
    BY <2>1 DEF SwitchIn, SwitchedIn, IsLowest, procVars, Inv, NothingMissed
  <2>3. /\ WholeBurst(remaining[core[c].proc], core[c].length, core[c].deadline)
        /\ ~core[c].recheck /\ core[c] \in CoreStructs /\ core[c].proc \in Procs
    BY <1>0, <2>2 DEF RunToEnd, CoreStructs, Busy, Free
  <2>4. ~OneTick(c)
    <3>1. ~(NoDeadline <= now)
      BY <1>0, <2>2, EngineAssumption DEF NoDeadline, Times
    <3> QED BY <2>3, <3>1 DEF OneTick, WholeBurst
  <2>5. core' = [core EXCEPT ![c] = Begun(core[c])]
    BY <2>1, <2>4 DEF SwitchIn
  <2>6. /\ Begun(core[c]).proc = core[c].proc
        /\ WholeBurst(remaining[core[c].proc], Begun(core[c]).length, Begun(core[c]).deadline)
        /\ ~Begun(core[c]).recheck
        /\ Begun(core[c]).runEnd = AddTime(Begun(core[c]).runStart, remaining[core[c].proc])
        /\ Begun(core[c]).busyUntil = Begun(core[c]).runEnd
    BY <1>0, <2>3, BegunWhole DEF Times
  <2>7. core'[c] = Begun(core[c]) /\ \A d \in Cores \ {c} : core'[d] = core[d]
    BY <1>0, <2>5
  <2>8. Busy' \subseteq Busy /\ \A d \in Running' \ {c} : d \in Running
    BY <2>2, <2>7 DEF Busy, Running, Free
  <2>9. \A d \in Busy' \cup Running' : d \in Cores
    BY DEF Busy, Running
  <2> QED BY <2>2, <2>6, <2>7, <2>8, <2>9 DEF RunToEnd, WholeBurst, AddTime, NoDeadline
<1>9. CASE \E c \in Cores, i \in DOMAIN picks : Place(i, c)
  <2>1. PICK c \in Cores, i \in DOMAIN picks : Place(i, c)
    BY <1>9
  <2>2. PICK p : p = picks[i].proc
    OBVIOUS
  <2> DEFINE taken == [core[c] EXCEPT !.proc = p, !.length = picks[i].length, !.context = p,
                                      !.deadline = picks[i].deadline, !.recheck = FALSE]
  <2>3. /\ stage = "place" /\ picks' = RemoveAt(picks, i) /\ UNCHANGED <<now, remaining>>
        /\ \/ \E t : core' = [core EXCEPT ![c] = [taken EXCEPT !.inCs = TRUE, !.busyUntil = t]]
           \/ core' = [core EXCEPT ![c] = Begun(taken)]
    BY <2>1, <2>2 DEF Place, procVars
  <2>4. /\ picks[i] \in Slices /\ p \in Procs /\ remaining[p] \in Nat /\ now \in Nat
        /\ WholeBurst(remaining[p], picks[i].length, picks[i].deadline)
    <3>1. picks[i] \in Slices
      BY <1>0, ElementOfSeq
    <3>2. p \in Procs
      BY <2>2, <3>1 DEF Slices
    <3>3. WholeBurst(remaining[p], picks[i].length, picks[i].deadline)
      BY <2>2, <2>3 DEF RunToEnd
    <3> QED BY <1>0, <3>1, <3>2, <3>3 DEF Times
  <2>5. /\ taken \in CoreStructs /\ taken.proc = p /\ ~taken.recheck
        /\ WholeBurst(remaining[p], taken.length, taken.deadline)
    BY <1>0, <2>4 DEF CoreStructs, Slices, WholeBurst
  <2>6. /\ core'[c].proc = p /\ ~core'[c].recheck
        /\ WholeBurst(remaining[p], core'[c].length, core'[c].deadline)
        /\ ~core'[c].inCs => /\ core'[c].runEnd = AddTime(core'[c].runStart, remaining[p])
                             /\ core'[c].busyUntil = core'[c].runEnd
    <3>1. CASE \E t : core' = [core EXCEPT ![c] = [taken EXCEPT !.inCs = TRUE, !.busyUntil = t]]
      BY <1>0, <2>5, <3>1 DEF CoreStructs
    <3>2. CASE core' = [core EXCEPT ![c] = Begun(taken)]
      <4>1. core'[c] = Begun(taken)
        BY <1>0, <3>2
      <4> HIDE DEF taken
      <4> QED BY <2>4, <2>5, <4>1, BegunWhole
    <3> QED BY <2>3, <3>1, <3>2
  <2> HIDE DEF taken
  <2>7. \A d \in Cores \ {c} : core'[d] = core[d]
    BY <2>1, PlaceFacts
  <2>8. \A j \in DOMAIN picks' : \E k \in DOMAIN picks : picks'[j] = picks[k]
    <3>1. /\ DOMAIN picks = 1..Len(picks) /\ Len(picks) \in Nat /\ i \in 1..Len(picks)
          /\ DOMAIN picks' = 1..(Len(picks) - 1)
          /\ \A j \in 1..(Len(picks) - 1) :
               picks'[j] = IF j < i THEN picks[j] ELSE picks[j + 1]
      <4>1. DOMAIN picks = 1..Len(picks) /\ Len(picks) \in Nat /\ i \in 1..Len(picks)
        BY <1>0
      <4>2. /\ Len(picks') = Len(picks) - 1 /\ picks' \in Seq(Slices)
            /\ \A j \in 1..(Len(picks) - 1) :
                 picks'[j] = IF j < i THEN picks[j] ELSE picks[j + 1]
        BY <1>0, <2>3, <4>1, RemoveAtFacts
      <4>3. DOMAIN picks' = 1..(Len(picks) - 1)
        BY <4>2
      <4> QED BY <4>1, <4>2, <4>3
    <3> TAKE j \in DOMAIN picks'
    <3>2. j \in DOMAIN picks /\ j + 1 \in DOMAIN picks
      BY <3>1
    <3> QED BY <3>1, <3>2
  <2>9. /\ \A d \in Busy' \ {c} : d \in Busy /\ core'[d] = core[d]
        /\ \A d \in Running' \ {c} : d \in Running /\ core'[d] = core[d]
        /\ c \in Running' => ~core'[c].inCs
    BY <2>7 DEF Busy, Running, Free
  <2>10. \A j \in DOMAIN picks' :
           WholeBurst(remaining'[picks'[j].proc], picks'[j].length, picks'[j].deadline)
    BY <2>3, <2>8 DEF RunToEnd
  <2>11. \A d \in Busy' :
           /\ WholeBurst(remaining'[core'[d].proc], core'[d].length, core'[d].deadline)
           /\ ~core'[d].recheck
    <3> TAKE d \in Busy'
    <3>1. CASE d = c
      BY <2>3, <2>6, <3>1
    <3>2. CASE d # c
      <4>1. d \in Busy /\ core'[d] = core[d]
        BY <2>9, <3>2
      <4> QED BY <2>3, <4>1 DEF RunToEnd
    <3> QED BY <3>1, <3>2
  <2>12. \A d \in Running' :
           /\ core'[d].runEnd = AddTime(core'[d].runStart, remaining'[core'[d].proc])
           /\ core'[d].busyUntil = core'[d].runEnd
    <3> TAKE d \in Running'
    <3>1. CASE d = c
      BY <2>3, <2>6, <2>9, <3>1
    <3>2. CASE d # c
      <4>1. d \in Running /\ core'[d] = core[d]
        BY <2>9, <3>2
      <4> QED BY <2>3, <4>1 DEF RunToEnd
    <3> QED BY <3>1, <3>2
  <2> QED BY <2>10, <2>11, <2>12 DEF RunToEnd, WholeBurst, AddTime, NoDeadline
<1>10. CASE Return \/ Reject
  BY <1>10 DEF Return, Reject
<1>11. CASE UNCHANGED vars \/ Terminated
  BY <1>11, QuietRunToEnd DEF vars, engineVars, procVars, Terminated
<1> QED
  BY <1>1, <1>2, <1>3, <1>4, <1>5, <1>6, <1>7, <1>8, <1>9, <1>10, <1>11
     DEF Next, StopPicking, EngineStep

LEMMA WholeSlices == ASSUME Inv, RunToEnd, ~Preemptive, NEW c \in Cores, SliceEnds(c) PROVE BurstOver(c)
<1>1. /\ c \in Running /\ core[c].proc \in Procs /\ core[c] \in CoreStructs
      /\ stage \in {"ends", "interrupts"}
  BY SliceEndFacts
<1>2. /\ core[c].runEnd = AddTime(core[c].runStart, remaining[core[c].proc])
      /\ core[c].busyUntil = core[c].runEnd
  BY <1>1 DEF RunToEnd
<1>3. core[c].runEnd = now
  BY <1>2, PolicyAssumption DEF SliceEnds, IsLowest, FullLength, Interrupted, Redecide
<1>4. /\ now < MaxTime /\ now \in Nat /\ core[c].runStart \in Nat
      /\ remaining[core[c].proc] \in Nat
  BY <1>1 DEF Inv, TypeOK, NothingMissed, CoreStructs, Times
<1>5. core[c].runStart + remaining[core[c].proc] = now
  BY <1>2, <1>3, <1>4, EngineAssumption DEF AddTime
<1> QED
  BY <1>4, <1>5 DEF BurstOver, Ran

-----------------------------------------------------------------------------
(* While processes are unfinished an event is due.  dispatch() is entered  *)
(* only then, and next_slice() leaves processes waiting only when every    *)
(* free core has a slice, or for a policy that waits for an arrival.       *)

DispatchInv ==
    /\ stage \in {"picks", "place", "advance"} => Completed # Procs
    /\ stage \in {"place", "advance"} =>
         ready = {} \/ pending # {} \/ picks # <<>> \/ Busy # {}

LEMMA DispatchStep == ASSUME Inv, DispatchInv, [Next]_vars PROVE DispatchInv'
<1>1. CASE \E p \in Procs : Arrive(p) \/ BecomeReady(p)
  <2>1. stage' \in {"arrivals", "wakeups"}
    BY <1>1 DEF Arrive, Admit, BecomeReady, WakeUp
  <2> QED BY <2>1 DEF DispatchInv
<1>2. CASE \E c \in Cores : SliceCompletes(c) \/ SliceBlocks(c) \/ SlicePreempted(c)
  <2>1. PICK c \in Cores : EndRun(c)
    BY <1>2 DEF SliceCompletes, Complete, SliceBlocks, Block, SlicePreempted, Preempt
  <2>2. stage' \in {"ends", "interrupts"}
    BY <2>1, SliceEndFacts DEF EndRun
  <2> QED BY <2>2 DEF DispatchInv
<1>3. CASE Create \/ ArrivalsDone \/ WakeupsDone \/ EndsDone \/ SwitchInsDone \/ Advance
           \/ CloseTimeline \/ Return \/ Reject
  <2>1. stage' \notin {"picks", "place", "advance"}
    BY <1>3 DEF Create, ArrivalsDone, WakeupsDone, EndsDone, SwitchInsDone, Advance,
                CloseTimeline, Return, Reject
  <2> QED BY <2>1 DEF DispatchInv
<1>4. CASE \E c \in Cores : SwitchIn(c)
  <2>1. stage' = "switchins"
    BY <1>4 DEF SwitchIn
  <2> QED BY <2>1 DEF DispatchInv
<1>5. CASE InstantDone
  <2>1. /\ stage' \in {"picks", "finish"} /\ (stage' = "picks" => Completed # Procs)
        /\ Completed' = Completed
    BY <1>5 DEF InstantDone, Completed, resultVars
  <2> QED BY <2>1 DEF DispatchInv
<1>6. CASE \E p \in ready : \E s \in SlicesFor(p) : NextSlice(s)
  <2>1. stage = "picks" /\ stage' = "picks" /\ Completed' = Completed
    BY <1>6 DEF NextSlice, Pick, WantsPick, Completed, resultVars
  <2> QED BY <2>1 DEF DispatchInv
<1>7. CASE StopPicking
  <2>1. /\ stage = "picks" /\ stage' = "place" /\ Completed' = Completed
        /\ UNCHANGED <<ready, pending, picks, core>>
    BY <1>7 DEF StopPicking, PicksDone, Completed, resultVars
  <2>2. CASE WantsPick
    <3>1. ready = {} \/ pending # {}
      BY <1>7, <2>2 DEF StopPicking, MayDecline
    <3> QED BY <2>1, <3>1 DEF DispatchInv
  <2>3. CASE ~WantsPick
    <3>1. picks # <<>> \/ FreeCores = {}
      <4> SUFFICES ASSUME picks = <<>>, FreeCores # {} PROVE FALSE
        OBVIOUS
      <4>1. IsFiniteSet(FreeCores)
        BY CoresFinite, FS_Subset DEF FreeCores
      <4>2. Cardinality(FreeCores) \in Nat /\ Cardinality(FreeCores) # 0
        BY <4>1, FS_CardinalityType, FS_EmptySet
      <4>3. Len(picks) = 0
        OBVIOUS
      <4> QED BY <2>1, <2>3, <4>2, <4>3 DEF WantsPick
    <3>2. FreeCores = {} => Busy # {}
      <4>1. 1 \in Cores
        BY EngineAssumption DEF Cores
      <4> QED BY <4>1 DEF FreeCores, Busy
    <3>3. Busy' = Busy
      BY <2>1 DEF Busy, Free
    <3> QED BY <2>1, <3>1, <3>2, <3>3 DEF DispatchInv
  <2> QED BY <2>2, <2>3
<1>8. CASE \E c \in Cores, i \in DOMAIN picks : Place(i, c)
  <2>1. PICK c \in Cores, i \in DOMAIN picks : Place(i, c)
    BY <1>8
  <2>2. /\ stage = "place" /\ stage' = "place" /\ Completed' = Completed
        /\ core'[c].proc \in Procs
    BY <2>1, PlaceFacts DEF Place, Slices
  <2>3. c \in Busy'
    BY <2>2, EngineAssumption DEF Busy, Free
  <2> QED BY <2>2, <2>3 DEF DispatchInv
<1>9. CASE PlacesDone /\ UNCHANGED ready
  <2>1. /\ stage = "place" /\ Completed' = Completed /\ Busy' = Busy
        /\ UNCHANGED <<ready, pending, picks>>
    BY <1>9 DEF PlacesDone, Completed, resultVars, Busy, Free
  <2> QED BY <2>1 DEF DispatchInv
<1>10. CASE UNCHANGED vars \/ Terminated
  <2>1. (stage = "done" /\ stage' = "done") \/ UNCHANGED vars
    BY <1>10 DEF Terminated, engineVars
  <2>2. UNCHANGED vars =>
          /\ Completed' = Completed /\ Busy' = Busy
          /\ UNCHANGED <<stage, ready, pending, picks>>
    BY DEF vars, engineVars, resultVars, Completed, Busy, Free
  <2> QED BY <2>1, <2>2 DEF DispatchInv
<1> QED
  BY <1>1, <1>2, <1>3, <1>4, <1>5, <1>6, <1>7, <1>8, <1>9, <1>10 DEF Next, EngineStep

(* The clock never gets as far as INT64_MAX, which next_event() returns    *)
(* when there is no event.                                                 *)
RoomToSpare == HorizonOf(w) + CsCost * MaxSegments < MaxTime

LEMMA EventDue ==
    ASSUME Inv, SwitchBudget, ClockInv, DispatchInv, RoomToSpare, stage = "advance"
    PROVE  \E t \in EventTimes : t # MaxTime
<1>1. /\ w \in Workloads /\ now \in Nat /\ MaxTime \in Nat /\ pending \subseteq Procs
      /\ blocked \subseteq Procs /\ core \in [Cores -> CoreStructs] /\ switches \in Nat
      /\ wake \in [Procs -> Times] /\ remaining \in [Procs -> Times] /\ picks = <<>>
  BY EngineAssumption DEF Inv, TypeOK, HasWork, Times
<1>2. LeftKnown
  BY LeftFacts
<1>3. \A p \in Procs : now + Left[p] < MaxTime /\ Left[p] \in Nat /\ Here(p) \in Nat
                       /\ Here(p) <= Left[p]
  <2> DEFINE sum == SumFunction(Left)
             top == HorizonOf(w)
             cost == CsCost * switches
             most == CsCost * MaxSegments
  <2>1. /\ sum \in Nat /\ top \in Nat /\ cost \in Nat /\ most \in Nat
    BY <1>1, <1>2, HorizonFacts, EngineAssumption DEF LeftKnown
  <2>2. cost <= most
    <3>1. \A a, x, y \in Nat : x <= y => a * x <= a * y
      OBVIOUS
    <3>2. CsCost \in Nat /\ MaxSegments \in Nat /\ (CsCost = 0 \/ switches <= MaxSegments)
      BY EngineAssumption DEF SwitchBudget
    <3>3. CASE CsCost = 0
      BY <1>1, <3>2, <3>3
    <3>4. CASE switches <= MaxSegments
      BY <1>1, <3>1, <3>2, <3>4
    <3> QED BY <3>2, <3>3, <3>4
  <2>3. now + sum <= top + cost
    BY Room
  <2>4. top + most < MaxTime
    BY DEF RoomToSpare
  <2>5. \A p \in Procs : /\ Left[p] <= sum /\ Left[p] \in Nat /\ Here(p) \in Nat
                         /\ After(p, phase[p]) \in Nat /\ Left[p] = After(p, phase[p]) + Here(p)
    BY <1>2 DEF LeftKnown
  <2> HIDE DEF sum, top, cost, most
  <2>6. now + sum < MaxTime
    BY <1>1, <2>1, <2>2, <2>3, <2>4
  <2> TAKE p \in Procs
  <2>7. now + Left[p] < MaxTime
    BY <1>1, <2>1, <2>5, <2>6
  <2>8. Here(p) <= Left[p]
    BY <2>5
  <2> QED BY <2>5, <2>7, <2>8
<1>4. CASE pending # {}
  <2>1. PICK p \in pending : TRUE
    BY <1>4
  <2>2. w.arrival[p] \in EventTimes /\ w.arrival[p] \in 0..(MaxTime - 1)
    BY <1>1, WorkloadFacts DEF EventTimes
  <2> QED BY <1>1, <2>2
<1>5. CASE blocked # {}
  <2>1. PICK p \in blocked : TRUE
    BY <1>5
  <2>2. /\ wake[p] \in EventTimes /\ wake[p] \in Nat /\ remaining[p] \in Nat
        /\ Here(p) = remaining[p] + (wake[p] - now)
    BY <1>1, <1>2 DEF EventTimes, Times, LeftKnown
  <2>3. Here(p) <= Left[p] /\ now + Left[p] < MaxTime /\ Left[p] \in Nat
    BY <1>1, <1>3
  <2> QED BY <1>1, <2>2, <2>3
<1>6. CASE Busy # {}
  <2>1. PICK c \in Busy : TRUE
    BY <1>6
  <2>2. PICK p : p = core[c].proc
    OBVIOUS
  <2>3. /\ core[c].busyUntil \in EventTimes /\ core[c] \in CoreStructs /\ p \in Procs
        /\ Here(p) = OnItsCore(core[c], remaining[p]) /\ remaining[p] \in Nat
    BY <1>1, <1>2, <2>2 DEF EventTimes, LeftKnown, Times, Busy
  <2>4. Here(p) <= Left[p] /\ now + Left[p] < MaxTime /\ Left[p] \in Nat
    BY <1>3, <2>3
  <2>5. /\ core[c].busyUntil \in Nat /\ core[c].runStart \in Nat /\ core[c].runEnd \in Nat
    BY <2>3 DEF CoreStructs, Times
  <2>6. core[c].busyUntil < MaxTime
    <3>1. CASE core[c].inCs
      <4>1. Here(p) = remaining[p] + (core[c].busyUntil - now)
        BY <2>3, <3>1 DEF OnItsCore
      <4> QED BY <1>1, <2>3, <2>4, <2>5, <4>1
    <3>2. CASE ~core[c].inCs
      <4>1. Here(p) = remaining[p] - (now - core[c].runStart)
        BY <2>3, <3>2 DEF OnItsCore
      <4>2. core[c].busyUntil <= core[c].runEnd /\ core[c].runEnd <= core[c].runStart + remaining[p]
        BY <2>2, <3>2 DEF Inv, SlicesFit, Running
      <4>3. core[c].busyUntil <= core[c].runStart + remaining[p]
        BY <2>3, <2>5, <4>2
      <4>4. core[c].runStart + remaining[p] = now + Here(p) /\ Here(p) \in Int
        BY <1>1, <2>3, <2>5, <4>1
      <4> QED BY <1>1, <2>3, <2>4, <2>5, <4>3, <4>4
    <3> QED BY <3>1, <3>2
  <2> QED BY <1>1, <2>3, <2>5, <2>6
<1>7. CASE pending = {} /\ blocked = {} /\ Busy = {}
  <2>1. Picked = {} /\ OnCore = {}
    BY <1>1, <1>7 DEF Picked, OnCore
  <2>2. Procs = ready \cup Completed
    BY <1>7, <2>1 DEF Inv, OnePlace, Emptied
  <2>3. ready = {} /\ Completed # Procs
    BY <1>1, <1>7 DEF DispatchInv
  <2> QED BY <2>2, <2>3
<1> QED
  BY <1>4, <1>5, <1>6, <1>7

LEMMA PlacedHaveWork ==
    ASSUME Inv, stage = "place", NEW i \in DOMAIN picks
    PROVE  remaining[picks[i].proc] > 0 /\ picks[i].length > 0 /\ picks[i].deadline > now
<1>1. picks[i].proc \in Procs
  <2>1. picks \in Seq(Slices)
    BY DEF Inv, TypeOK
  <2>2. picks[i] \in Slices
    BY <2>1, ElementOfSeq
  <2> QED BY <2>2 DEF Slices
<1>2. picks[i].proc \notin Completed
  BY DEF Inv, OnePlace, Picked
<1> QED
  BY <1>1, <1>2 DEF Inv, HasWork

(* The assertions of the engine hold for every workload whose horizon,     *)
(* with what the switches may cost, lies below INT64_MAX: a                *)
(* run-to-completion policy is never preempted, a slice to place has work  *)
(* and a deadline ahead, and while processes are unfinished an event is    *)
(* due (engine.c:180, 200, 414).  At INT64_MAX itself the last one fails.  *)
THEOREM AssertionsHoldBelowLimit == Spec => [](RoomToSpare => AssertionsHold)
<1> DEFINE All == Inv /\ TimelineInv /\ SwitchBudget /\ ClockInv
<1>1. Spec => []All
  BY ClockInvariant
<1>2. Init => RunToEnd /\ DispatchInv
  <2> SUFFICES ASSUME Init PROVE RunToEnd /\ DispatchInv
    OBVIOUS
  <2>1. stage = "create" /\ picks = <<>> /\ Busy = {} /\ Running = {}
    BY DEF Init, EngineInit, FreshCore, Busy, Running, Free
  <2> QED BY <2>1 DEF RunToEnd, DispatchInv
<1>3. All /\ RunToEnd /\ DispatchInv /\ [Next]_vars => RunToEnd' /\ DispatchInv'
  BY RunToEndStep, DispatchStep
<1>4. All /\ RunToEnd /\ DispatchInv => (RoomToSpare => AssertionsHold)
  <2> SUFFICES ASSUME All, RunToEnd, DispatchInv, RoomToSpare PROVE AssertionsHold
    OBVIOUS
  <2>1. ~Preemptive => \A c \in Cores : SliceEnds(c) => BurstOver(c)
    BY WholeSlices
  <2>2. stage = "place" => \A i \in DOMAIN picks :
          remaining[picks[i].proc] > 0 /\ picks[i].length > 0 /\ picks[i].deadline > now
    BY PlacedHaveWork
  <2>3. stage = "advance" => \E t \in EventTimes : t # MaxTime
    BY EventDue
  <2> QED BY <2>1, <2>2, <2>3 DEF AssertionsHold
<1> QED
  BY <1>1, <1>2, <1>3, <1>4, PTL DEF Spec
=============================================================================
