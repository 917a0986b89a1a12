--------------------------- MODULE ServiceProofs ----------------------------
(***************************************************************************)
(* Proofs of what an outside observer finds in a finished schedule: every  *)
(* process is served exactly (the CPU time of its bursts, one core at a    *)
(* time, and none of it during its I/O), no core is idle while a process   *)
(* waits, and the switches and their time agree with the timelines. At the *)
(* end, what is known of the slices while the schedule is being computed,  *)
(* and of processes that wait.                                             *)
(***************************************************************************)
EXTENDS TimelineProofs

-----------------------------------------------------------------------------
(* The ticks in a log                                                      *)

CpuKinds == {"run", "cs"}

Covers(g) == {x \in Times : g.start <= x /\ x < g.end}
\* the ticks that core c of log l has for process p, in segments of kinds K
On(l, c, p, K) ==
    UNION {Covers(l.timelines[c][i]) :
             i \in {j \in DOMAIN l.timelines[c] :
                      l.timelines[c][j].proc = p /\ l.timelines[c][j].kind \in K}}
Ticks(l, p, K) == UNION {On(l, c, p, K) : c \in Cores}
By(l, p, t) == {u \in Ticks(l, p, {"run"}) : u <= t}

-----------------------------------------------------------------------------
(* The inductive invariant                                                 *)

(* How p stands with log l when what comes next for it begins at e at the  *)
(* earliest, r ticks are left of the burst at phase n, o is its outcome    *)
(* and b the start of its running slice, or -1.                            *)
Stands(p, l, e, r, n, o, b) ==
    LET run == Ticks(l, p, {"run"})
        cpu == Ticks(l, p, CpuKinds) IN
    /\ \A x \in cpu : w.arrival[p] <= x /\ x < e
    /\ \A c, d \in Cores : c # d => On(l, c, p, CpuKinds) \cap On(l, d, p, CpuKinds) = {}
    /\ Cardinality(run) + r = CpuUpTo(p, (n + 1) \div 2)
    /\ \A k \in Nat \ {0} : 2 * k < n =>
         \E t \in run : /\ Cardinality(By(l, p, t)) = CpuUpTo(p, k)
                        /\ t + 1 + IoOf(p, k) <= e
                        /\ \A u \in cpu : u <= t \/ t + 1 + IoOf(p, k) <= u
    /\ o.start < 0 => run = {} /\ b = -1
    /\ o.start >= 0 => (o.start \in run \/ o.start = b) /\ \A u \in run : o.start <= u
    /\ b # -1 => b = e /\ o.start >= 0
    /\ o.completion >= 0 => /\ n = Len(w.phases[p]) /\ r = 0 /\ b = -1
                            /\ o.completion = e /\ e - 1 \in run

\* the instant from which p continues: the end of its I/O, its completion, the end of
\* its switch-in, the start of its slice (whose ticks are not logged yet), or now
Resumes(p) ==
    IF p \in blocked THEN wake[p]
    ELSE IF p \in Completed THEN outcome[p].completion
    ELSE IF p \in OnCore
    THEN IF core[CoreOf(p)].inCs THEN core[CoreOf(p)].busyUntil ELSE core[CoreOf(p)].runStart
    ELSE now
\* where the slice that p is running began, or -1
SliceStart(p) ==
    IF p \in OnCore /\ ~core[CoreOf(p)].inCs THEN core[CoreOf(p)].runStart ELSE -1

Standing(p) ==
    /\ p \notin pending => w.arrival[p] <= Resumes(p)
    /\ Stands(p, log, Resumes(p), remaining[p], phase[p], outcome[p], SliceStart(p))

ServiceInv ==
    /\ log.fail = "ok" => \A p \in Procs : Standing(p)
    /\ status = "ok" => log.fail = "ok" /\ Completed = Procs

-----------------------------------------------------------------------------
(* How append() changes the ticks of a log                                 *)

LEMMA OnMember ==
    \A l, c, p, K, x :
        x \in On(l, c, p, K) <=>
            /\ x \in Times
            /\ \E i \in DOMAIN l.timelines[c] :
                 /\ l.timelines[c][i].proc = p /\ l.timelines[c][i].kind \in K
                 /\ l.timelines[c][i].start <= x /\ x < l.timelines[c][i].end
BY DEF On, Covers

LEMMA OnAppend ==
    ASSUME NEW l \in Logs, NEW c \in Cores, NEW g \in Segments, NEW m \in AppendSegment(l, c, g),
           m.fail = "ok", WellMade(l.timelines[c]), NEW p, NEW K, NEW d \in Cores
    PROVE  On(m, d, p, K) = On(l, d, p, K) \cup
              IF d = c /\ g.proc = p /\ g.kind \in K THEN Covers(g) ELSE {}
<1> DEFINE t == l.timelines[c]
           n == Len(t)
<1>0. /\ t \in Seq(Segments) /\ l.timelines \in [Cores -> Seq(Segments)] /\ n \in Nat
      /\ DOMAIN t = 1..n /\ g.start \in Times /\ g.end \in Times /\ MaxTime \in Nat
  <2>1. l.timelines \in [Cores -> Seq(Segments)]
    BY DEF Logs
  <2>2. g.start \in Times /\ g.end \in Times /\ MaxTime \in Nat
    BY EngineAssumption DEF Segments
  <2>3. t \in Seq(Segments)
    BY <2>1
  <2>4. n \in Nat /\ DOMAIN t = 1..n
    BY <2>3
  <2> QED BY <2>1, <2>2, <2>3, <2>4
<1>1. CASE Dropped(l, g, m)
  <2>1. m = l /\ g.start >= g.end
    BY <1>1 DEF Dropped
  <2>2. Covers(g) = {}
    BY <1>0, <2>1 DEF Covers, Times
  <2> QED BY <2>1, <2>2
<1>2. CASE Refused(l, g, m)
  BY <1>2 DEF Refused
<1>3. CASE Merged(l, c, g, m)
  <2> DEFINE u == [t EXCEPT ![n].end = g.end]
  <2>1. /\ g.start < g.end /\ t # <<>> /\ t[n].end = g.start /\ SameLabel(t[n], g)
        /\ m = [l EXCEPT !.timelines[c] = u]
    BY <1>3 DEF Merged
  <2>2. n \in 1..n /\ t[n] \in Segments /\ t[n].start < t[n].end
    <3>1. n \in DOMAIN t
      BY <1>0, <2>1
    <3>2. t[n] \in Segments
      BY <1>0, <3>1
    <3> QED BY <1>0, <3>1, <3>2 DEF WellMade
  <2>3. /\ DOMAIN u = 1..n /\ \A i \in 1..n \ {n} : u[i] = t[i]
        /\ u[n].start = t[n].start /\ u[n].end = g.end /\ u[n].kind = t[n].kind
        /\ u[n].proc = t[n].proc
    BY <1>0, <2>2 DEF Segments
  <2>4. m.timelines[c] = u /\ \A e \in Cores \ {c} : m.timelines[e] = l.timelines[e]
    BY <1>0, <2>1 DEF Logs
  <2>5. t[n].start \in Times /\ t[n].end \in Times
    BY <2>2 DEF Segments
  <2> HIDE DEF u, t, n
  <2>6. CASE d # c
    BY <2>4, <2>6 DEF On
  <2>7. CASE d = c
    <3>1. \A x \in Times :
            (t[n].start <= x /\ x < g.end) <=>
            (t[n].start <= x /\ x < t[n].end) \/ (g.start <= x /\ x < g.end)
      BY <1>0, <2>1, <2>2, <2>5 DEF Times
    <3>2. (t[n].proc = p /\ t[n].kind \in K) <=> (g.proc = p /\ g.kind \in K)
      BY <2>1 DEF SameLabel
    <3> SUFFICES ASSUME NEW x \in Times
                 PROVE  x \in On(m, c, p, K) <=>
                          x \in On(l, c, p, K)
                          \/ (g.proc = p /\ g.kind \in K /\ g.start <= x /\ x < g.end)
      BY <2>7, OnMember DEF Covers
    <3>3. x \in On(m, c, p, K) <=>
            \E i \in 1..n : /\ u[i].proc = p /\ u[i].kind \in K
                            /\ u[i].start <= x /\ x < u[i].end
      <4>1. x \in On(m, c, p, K) <=>
              \E i \in DOMAIN m.timelines[c] :
                /\ m.timelines[c][i].proc = p /\ m.timelines[c][i].kind \in K
                /\ m.timelines[c][i].start <= x /\ x < m.timelines[c][i].end
        BY OnMember
      <4> QED BY <2>3, <2>4, <4>1
    <3>4. x \in On(l, c, p, K) <=>
            \E i \in 1..n : /\ t[i].proc = p /\ t[i].kind \in K
                            /\ t[i].start <= x /\ x < t[i].end
      BY <1>0, OnMember DEF t
    <3> QED BY <2>2, <2>3, <3>1, <3>2, <3>3, <3>4
  <2> QED BY <2>6, <2>7
<1>4. CASE Added(l, c, g, m)
  <2> DEFINE u == Append(t, g)
  <2>1. /\ g.start < g.end
        /\ m = [l EXCEPT !.timelines[c] = u, !.segments = l.segments + 1]
    BY <1>4 DEF Added
  <2>2. /\ DOMAIN u = 1..(n + 1) /\ \A i \in 1..n : u[i] = t[i]
        /\ u[n + 1] = g
    BY <1>0, AppendProperties
  <2>3. m.timelines[c] = u /\ \A e \in Cores \ {c} : m.timelines[e] = l.timelines[e]
    BY <1>0, <2>1 DEF Logs
  <2> HIDE DEF u, t, n
  <2>4. CASE d # c
    BY <2>3, <2>4 DEF On
  <2>5. CASE d = c
    <3> SUFFICES ASSUME NEW x \in Times
                 PROVE  x \in On(m, c, p, K) <=>
                          x \in On(l, c, p, K)
                          \/ (g.proc = p /\ g.kind \in K /\ g.start <= x /\ x < g.end)
      BY <2>5, OnMember DEF Covers
    <3>1. x \in On(m, c, p, K) <=>
            \E i \in 1..(n + 1) : /\ u[i].proc = p /\ u[i].kind \in K
                                  /\ u[i].start <= x /\ x < u[i].end
      <4>1. x \in On(m, c, p, K) <=>
              \E i \in DOMAIN m.timelines[c] :
                /\ m.timelines[c][i].proc = p /\ m.timelines[c][i].kind \in K
                /\ m.timelines[c][i].start <= x /\ x < m.timelines[c][i].end
        BY OnMember
      <4> QED BY <2>2, <2>3, <4>1
    <3>2. x \in On(l, c, p, K) <=>
            \E i \in 1..n : /\ t[i].proc = p /\ t[i].kind \in K
                            /\ t[i].start <= x /\ x < t[i].end
      BY <1>0, OnMember DEF t
    <3>3. \A i : i \in 1..(n + 1) <=> i \in 1..n \/ i = n + 1
      BY <1>0
    <3> QED BY <2>2, <3>1, <3>2, <3>3
  <2> QED BY <2>4, <2>5
<1> QED
  BY <1>1, <1>2, <1>3, <1>4, AppendCases

LEMMA OnCores ==
    ASSUME NEW l, NEW p, NEW K
    PROVE  /\ Ticks(l, p, K) \subseteq Times /\ IsFiniteSet(Ticks(l, p, K))
           /\ \A c \in Cores : On(l, c, p, K) \subseteq Ticks(l, p, K)
<1>1. Ticks(l, p, K) \subseteq Times /\ \A c \in Cores : On(l, c, p, K) \subseteq Ticks(l, p, K)
  BY DEF Ticks, On, Covers
<1>2. IsFiniteSet(Times)
  BY FS_Interval, EngineAssumption DEF Times
<1> QED BY <1>1, <1>2, FS_Subset

\* p's ticks grow by those of the segment, if it is p's and of the kind
LEMMA TicksAppend ==
    ASSUME NEW l \in Logs, NEW c \in Cores, NEW g \in Segments, NEW m \in AppendSegment(l, c, g),
           m.fail = "ok", WellMade(l.timelines[c]), NEW p, NEW K
    PROVE  Ticks(m, p, K) = Ticks(l, p, K) \cup
              IF g.proc = p /\ g.kind \in K THEN Covers(g) ELSE {}
<1>1. \A d \in Cores : On(m, d, p, K) = On(l, d, p, K) \cup
          IF d = c /\ g.proc = p /\ g.kind \in K THEN Covers(g) ELSE {}
  BY OnAppend
<1> QED BY <1>1 DEF Ticks

-----------------------------------------------------------------------------
(* What each kind of step does to the standing of a process                *)

Outcomes == [start : Times \cup {-1}, completion : Times \cup {-1}]

LEMMA PhaseFacts ==
    ASSUME w \in Workloads, NEW p \in Procs
    PROVE  /\ w.phases[p] \in Seq(1..MaxTime) /\ Len(w.phases[p]) \in Nat /\ IsOdd(Len(w.phases[p]))
           /\ NumBursts(p) \in Nat /\ Len(w.phases[p]) = 2 * NumBursts(p) - 1
           /\ \A i \in 1..Len(w.phases[p]) : w.phases[p][i] \in Nat \ {0}
           /\ \A k \in 1..NumBursts(p) : CpuOf(p, k) \in Nat
<1>1. w.phases[p] \in Seq(1..MaxTime) /\ IsOdd(Len(w.phases[p]))
  BY WorkloadFacts
<1>2. Len(w.phases[p]) \in Nat /\ DOMAIN w.phases[p] = 1..Len(w.phases[p])
  BY <1>1
<1>3. \A i \in 1..Len(w.phases[p]) : w.phases[p][i] \in Nat \ {0}
  <2> TAKE i \in 1..Len(w.phases[p])
  <2>1. w.phases[p][i] \in 1..MaxTime
    BY <1>1, <1>2, ElementOfSeq
  <2> QED BY <2>1, EngineAssumption
<1>4. NumBursts(p) \in Nat /\ Len(w.phases[p]) = 2 * NumBursts(p) - 1
  <2>1. \A n \in Nat : n % 2 = 1 => (n + 1) \div 2 \in Nat /\ n = 2 * ((n + 1) \div 2) - 1
    OBVIOUS
  <2> QED BY <1>1, <1>2, <2>1 DEF NumBursts, IsOdd
<1>5. \A k \in 1..NumBursts(p) : CpuOf(p, k) \in Nat
  <2> TAKE k \in 1..NumBursts(p)
  <2>1. 2 * k - 1 \in 1..Len(w.phases[p])
    BY <1>2, <1>4
  <2> QED BY <1>3, <2>1 DEF CpuOf
<1> QED BY <1>1, <1>2, <1>3, <1>4, <1>5

LEMMA CpuUpToFacts ==
    ASSUME w \in Workloads, NEW p \in Procs, NEW k \in 0..NumBursts(p)
    PROVE  /\ CpuUpTo(p, k) \in Nat
           /\ k < NumBursts(p) => CpuUpTo(p, k + 1) = CpuUpTo(p, k) + CpuOf(p, k + 1)
<1> DEFINE f == Bursts(p)
<1>1. NumBursts(p) \in Nat /\ \A j \in 1..NumBursts(p) : f[j] = CpuOf(p, j) /\ f[j] \in Nat
  BY PhaseFacts DEF Bursts
<1>2. CpuUpTo(p, k) = SumFunctionOnSet(f, 1..k) /\ CpuUpTo(p, k + 1) = SumFunctionOnSet(f, 1..(k + 1))
  BY DEF CpuUpTo
<1> HIDE DEF f
<1>3. IsFiniteSet(1..k) /\ IsFiniteSet(1..(k + 1))
  BY <1>1, FS_Interval
<1>4. SumFunctionOnSet(f, 1..k) \in Nat
  <2>1. \A j \in 1..k : f[j] \in Nat
    BY <1>1
  <2> QED BY <1>3, <2>1, SumNat
<1>5. ASSUME k < NumBursts(p)
      PROVE  SumFunctionOnSet(f, 1..(k + 1)) = SumFunctionOnSet(f, 1..k) + f[k + 1]
  <2> DEFINE S == 1..(k + 1)
  <2>1. \A j \in S : f[j] \in Int
    BY <1>1, <1>5
  <2>2. k + 1 \in S /\ S \ {k + 1} = 1..k
    BY <1>1
  <2> HIDE DEF S
  <2>3. SumFunctionOnSet(f, S) = f[k + 1] + SumFunctionOnSet(f, S \ {k + 1})
    BY <1>3, <2>1, <2>2, SumRemove DEF S
  <2>4. f[k + 1] \in Int
    BY <2>1, <2>2
  <2>5. SumFunctionOnSet(f, S) = f[k + 1] + SumFunctionOnSet(f, 1..k)
    BY <2>2, <2>3
  <2> DEFINE a == SumFunctionOnSet(f, 1..k)
             b == f[k + 1]
  <2>6. a \in Int /\ b \in Int
    BY <1>4, <2>4
  <2> HIDE DEF a, b
  <2>7. b + a = a + b
    BY <2>6
  <2> QED BY <2>5, <2>7 DEF S, a, b
<1> QED
  BY <1>1, <1>2, <1>4, <1>5

\* p stands the same with every log that has its ticks on the same cores
LEMMA SameTicks ==
    ASSUME NEW p, NEW l, NEW m, NEW e, NEW r, NEW n, NEW o, NEW b,
           \A K, c : c \in Cores => On(m, c, p, K) = On(l, c, p, K),
           Stands(p, l, e, r, n, o, b)
    PROVE  Stands(p, m, e, r, n, o, b)
<1>1. \A K : Ticks(m, p, K) = Ticks(l, p, K)
  BY DEF Ticks
<1>2. \A t : By(m, p, t) = By(l, p, t)
  BY <1>1 DEF By
<1> QED BY <1>1, <1>2 DEF Stands

\* time passes while p waits
LEMMA LaterStands ==
    ASSUME NEW p, NEW l, NEW e \in Times, NEW f \in Times, e <= f, NEW r, NEW n, NEW o \in Outcomes,
           w \in Workloads, \A k \in Nat \ {0} : 2 * k < n => IoOf(p, k) \in Nat,
           o.completion < 0, Stands(p, l, e, r, n, o, -1)
    PROVE  Stands(p, l, f, r, n, o, -1)
<1>1. \A x \in Times : x < e => x < f
  BY DEF Times
<1>2. \A x \in Ticks(l, p, CpuKinds) : x \in Times /\ x < f
  BY <1>1, OnCores DEF Stands
<1>3. \A k \in Nat \ {0} : 2 * k < n =>
        \E t \in Ticks(l, p, {"run"}) :
           /\ Cardinality(By(l, p, t)) = CpuUpTo(p, k)
           /\ t + 1 + IoOf(p, k) <= f
           /\ \A u \in Ticks(l, p, CpuKinds) : u <= t \/ t + 1 + IoOf(p, k) <= u
  <2> TAKE k \in Nat \ {0}
  <2> HAVE 2 * k < n
  <2>1. PICK t \in Ticks(l, p, {"run"}) :
           /\ Cardinality(By(l, p, t)) = CpuUpTo(p, k)
           /\ t + 1 + IoOf(p, k) <= e
           /\ \A u \in Ticks(l, p, CpuKinds) : u <= t \/ t + 1 + IoOf(p, k) <= u
    BY DEF Stands
  <2>2. t \in Times /\ IoOf(p, k) \in Nat
    BY OnCores
  <2>3. t + 1 + IoOf(p, k) <= f
    BY <2>1, <2>2 DEF Times
  <2> QED BY <2>1, <2>3
<1>4. o.completion >= 0 => FALSE
  BY DEF Outcomes, Times
<1> QED
  BY <1>2, <1>3, <1>4 DEF Stands

\* p's slice begins
LEMMA BeginStands ==
    ASSUME NEW p, NEW l, NEW e \in Times, NEW r, NEW n, NEW o \in Outcomes, o.completion < 0,
           NEW o2, o2 = IF o.start < 0 THEN [o EXCEPT !.start = e] ELSE o,
           Stands(p, l, e, r, n, o, -1)
    PROVE  Stands(p, l, e, r, n, o2, e)
<1>1. o2.completion = o.completion /\ o2.start >= 0 /\ ~(o2.start < 0)
      /\ ~(o2.completion >= 0) /\ e # -1
  BY DEF Outcomes, Times
<1>2. /\ o2.start \in Ticks(l, p, {"run"}) \/ o2.start = e
      /\ \A u \in Ticks(l, p, {"run"}) : o2.start <= u
  <2>1. CASE o.start < 0
    <3>1. o2.start = e /\ Ticks(l, p, {"run"}) = {}
      BY <2>1 DEF Stands, Outcomes
    <3> QED BY <3>1
  <2>2. CASE ~(o.start < 0)
    <3>1. o2 = o /\ o.start >= 0 /\ o.start # -1
      BY <2>2 DEF Outcomes, Times
    <3> QED BY <3>1 DEF Stands
  <2> QED BY <2>1, <2>2
<1> QED
  BY <1>1, <1>2 DEF Stands

(* A segment of p is appended that begins at e, where p may continue.      *)
LEMMA GrowingLog ==
    ASSUME NEW l \in Logs, NEW c \in Cores, NEW g \in Segments, NEW m \in AppendSegment(l, c, g),
           m.fail = "ok", WellMade(l.timelines[c]), NEW p \in Procs, w \in Workloads,
           g.proc = p, g.kind \in CpuKinds, g.start <= g.end, w.arrival[p] <= g.start,
           NEW r, NEW n, NEW o, NEW b, Stands(p, l, g.start, r, n, o, b),
           \A k \in Nat \ {0} : 2 * k < n => IoOf(p, k) \in Nat
    PROVE  /\ Ticks(m, p, CpuKinds) = Ticks(l, p, CpuKinds) \cup Covers(g)
           /\ \A x \in Ticks(m, p, CpuKinds) : w.arrival[p] <= x /\ x < g.end
           /\ \A d1, d2 \in Cores : d1 # d2 =>
                On(m, d1, p, CpuKinds) \cap On(m, d2, p, CpuKinds) = {}
           /\ \A k \in Nat \ {0} : 2 * k < n =>
                \E t \in Ticks(m, p, {"run"}) :
                  /\ Cardinality(By(m, p, t)) = CpuUpTo(p, k)
                  /\ t + 1 + IoOf(p, k) <= g.end
                  /\ \A u \in Ticks(m, p, CpuKinds) : u <= t \/ t + 1 + IoOf(p, k) <= u
<1> DEFINE e == g.start
           f == g.end
           old == Ticks(l, p, CpuKinds)
           new == Ticks(m, p, CpuKinds)
<1>1. e \in Times /\ f \in Times /\ e <= f /\ MaxTime \in Nat
  BY EngineAssumption DEF Segments
<1>2. /\ new = old \cup Covers(g) /\ old \subseteq Times
      /\ \A x \in Covers(g) : x \in Times /\ e <= x /\ x < f
      /\ \A x \in old : w.arrival[p] <= x /\ x < e
  BY TicksAppend, OnCores DEF Stands, Covers
<1>3. w.arrival[p] \in Int
  BY WorkloadFacts, EngineAssumption
<1>4. \A x \in new : w.arrival[p] <= x /\ x < f
  <2> HIDE DEF e, f, old, new
  <2>1. \A x \in old : x < f
    BY <1>1, <1>2 DEF Times
  <2>2. \A x \in Covers(g) : w.arrival[p] <= x
    <3> SUFFICES ASSUME NEW x \in Covers(g) PROVE w.arrival[p] <= x
      OBVIOUS
    <3>1. x \in Int /\ e \in Int /\ e <= x /\ w.arrival[p] <= e
      BY <1>1, <1>2 DEF Times, e
    <3> QED BY <1>3, <3>1
  <2> QED BY <1>2, <2>1, <2>2
<1>5. ASSUME NEW d1 \in Cores, NEW d2 \in Cores, d1 # d2
      PROVE  On(m, d1, p, CpuKinds) \cap On(m, d2, p, CpuKinds) = {}
  <2>1. \A d \in Cores : On(m, d, p, CpuKinds) = On(l, d, p, CpuKinds) \cup
           IF d = c THEN Covers(g) ELSE {}
    BY OnAppend
  <2>2. \A d \in Cores : On(l, d, p, CpuKinds) \subseteq old
    BY OnCores
  <2>3. old \cap Covers(g) = {}
    <3> HIDE DEF e, f, old, new
    <3> QED BY <1>1, <1>2 DEF Times
  <2>4. On(l, d1, p, CpuKinds) \cap On(l, d2, p, CpuKinds) = {}
    BY <1>5 DEF Stands
  <2> QED BY <1>5, <2>1, <2>2, <2>3, <2>4
<1>6. ASSUME NEW k \in Nat \ {0}, 2 * k < n
      PROVE  \E t \in Ticks(m, p, {"run"}) :
                  /\ Cardinality(By(m, p, t)) = CpuUpTo(p, k)
                  /\ t + 1 + IoOf(p, k) <= f
                  /\ \A u \in new : u <= t \/ t + 1 + IoOf(p, k) <= u
  <2>1. PICK t \in Ticks(l, p, {"run"}) :
           /\ Cardinality(By(l, p, t)) = CpuUpTo(p, k)
           /\ t + 1 + IoOf(p, k) <= e
           /\ \A u \in old : u <= t \/ t + 1 + IoOf(p, k) <= u
    BY <1>6 DEF Stands
  <2>2. t \in Times /\ IoOf(p, k) \in Nat
    BY <1>6, OnCores
  <2>3. /\ Ticks(l, p, {"run"}) \subseteq Ticks(m, p, {"run"})
        /\ Ticks(m, p, {"run"}) \subseteq Ticks(l, p, {"run"}) \cup Covers(g)
    BY TicksAppend
  <2> HIDE DEF e, f, old, new
  <2>4. t < e /\ t + 1 + IoOf(p, k) <= f
    BY <1>1, <2>1, <2>2 DEF Times
  <2>5. By(m, p, t) = By(l, p, t)
    <3>1. \A x \in Covers(g) : ~(x <= t)
      BY <1>1, <1>2, <2>2, <2>4 DEF Times
    <3> QED BY <2>3, <3>1 DEF By
  <2>6. \A u \in Covers(g) : t + 1 + IoOf(p, k) <= u
    BY <1>1, <1>2, <2>1, <2>2 DEF Times
  <2> QED BY <1>2, <2>1, <2>3, <2>4, <2>5, <2>6
<1> QED
  BY <1>2, <1>4, <1>5, <1>6

\* p was switched in on core c
LEMMA SwitchStands ==
    ASSUME NEW l \in Logs, NEW c \in Cores, NEW g \in Segments, NEW m \in AppendSegment(l, c, g),
           m.fail = "ok", WellMade(l.timelines[c]), NEW p \in Procs, w \in Workloads,
           g.proc = p, g.kind = "cs", g.start <= g.end, w.arrival[p] <= g.start,
           NEW r, NEW n, NEW o \in Outcomes, o.completion < 0,
           Stands(p, l, g.start, r, n, o, -1),
           \A k \in Nat \ {0} : 2 * k < n => IoOf(p, k) \in Nat
    PROVE  Stands(p, m, g.end, r, n, o, -1)
<1>1. g.kind \in CpuKinds /\ g.kind \notin {"run"}
  BY DEF CpuKinds
<1>2. Ticks(m, p, {"run"}) = Ticks(l, p, {"run"})
  <2>1. \A K : Ticks(m, p, K) = Ticks(l, p, K) \cup
           IF g.proc = p /\ g.kind \in K THEN Covers(g) ELSE {}
    BY TicksAppend
  <2>2. Ticks(m, p, {"run"}) = Ticks(l, p, {"run"}) \cup {}
    BY <1>1, <2>1
  <2> QED BY <2>2
<1>3. ~(o.completion >= 0)
  BY DEF Outcomes, Times
<1>4. /\ \A x \in Ticks(m, p, CpuKinds) : w.arrival[p] <= x /\ x < g.end
      /\ \A d1, d2 \in Cores : d1 # d2 =>
           On(m, d1, p, CpuKinds) \cap On(m, d2, p, CpuKinds) = {}
      /\ \A k \in Nat \ {0} : 2 * k < n =>
           \E t \in Ticks(m, p, {"run"}) :
             /\ Cardinality(By(m, p, t)) = CpuUpTo(p, k)
             /\ t + 1 + IoOf(p, k) <= g.end
             /\ \A u \in Ticks(m, p, CpuKinds) : u <= t \/ t + 1 + IoOf(p, k) <= u
  BY <1>1, GrowingLog
<1> QED
  BY <1>2, <1>3, <1>4 DEF Stands

\* p's slice has ended on core c and is logged
LEMMA RunStands ==
    ASSUME NEW l \in Logs, NEW c \in Cores, NEW g \in Segments, NEW m \in AppendSegment(l, c, g),
           m.fail = "ok", WellMade(l.timelines[c]), NEW p \in Procs, w \in Workloads,
           g.proc = p, g.kind = "run", g.start < g.end, w.arrival[p] <= g.start,
           NEW r \in Nat, NEW n, NEW o \in Outcomes, o.completion < 0,
           Stands(p, l, g.start, r, n, o, g.start),
           \A k \in Nat \ {0} : 2 * k < n => IoOf(p, k) \in Nat
    PROVE  /\ Stands(p, m, g.end, r - (g.end - g.start), n, o, -1)
           /\ g.end - 1 \in Ticks(m, p, {"run"})
<1> DEFINE e == g.start
           f == g.end
           I == e .. (f - 1)
           old == Ticks(l, p, {"run"})
           new == Ticks(m, p, {"run"})
<1>1. e \in Nat /\ f \in Nat /\ e < f /\ f <= MaxTime /\ MaxTime \in Nat /\ e # -1
  BY EngineAssumption DEF Segments, Times
<1>2. g.kind \in CpuKinds /\ g.start <= g.end
  BY <1>1 DEF CpuKinds
<1>3. Covers(g) = I
  BY <1>1 DEF Covers, Times
<1>4. /\ \A x \in Ticks(m, p, CpuKinds) : w.arrival[p] <= x /\ x < g.end
      /\ \A d1, d2 \in Cores : d1 # d2 =>
           On(m, d1, p, CpuKinds) \cap On(m, d2, p, CpuKinds) = {}
      /\ \A k \in Nat \ {0} : 2 * k < n =>
           \E t \in Ticks(m, p, {"run"}) :
             /\ Cardinality(By(m, p, t)) = CpuUpTo(p, k)
             /\ t + 1 + IoOf(p, k) <= g.end
             /\ \A u \in Ticks(m, p, CpuKinds) : u <= t \/ t + 1 + IoOf(p, k) <= u
  <2> HIDE DEF old, new, e, f, I
  <2> QED BY <1>2, GrowingLog, ZenonT(60)
<1>5. /\ new = old \cup I /\ IsFiniteSet(old) /\ old \subseteq Times
      /\ \A x \in old : x < e
  <2>1. new = old \cup I
    <3>1. \A K : Ticks(m, p, K) = Ticks(l, p, K) \cup
             IF g.proc = p /\ g.kind \in K THEN Covers(g) ELSE {}
      BY TicksAppend
    <3> QED BY <1>3, <3>1
  <2>2. old \subseteq Ticks(l, p, CpuKinds)
    BY DEF Ticks, On, CpuKinds
  <2> QED BY <2>1, <2>2, OnCores DEF Stands
<1>6. Cardinality(new) = Cardinality(old) + (f - e) /\ Cardinality(old) \in Nat
  <2> HIDE DEF e, f, old, new
  <2>1. old \cap I = {}
    BY <1>1, <1>5 DEF Times
  <2>2. IsFiniteSet(I) /\ Cardinality(I) = f - e
    <3>1. e \in Int /\ f - 1 \in Int /\ ~(e > f - 1) /\ (f - 1) - e + 1 = f - e
      BY <1>1
    <3> QED BY <3>1, FS_Interval
  <2>3. Cardinality(old \cup I) = Cardinality(old) + Cardinality(I) - Cardinality(old \cap I)
    BY <1>5, <2>2, FS_Union
  <2>4. Cardinality(old) \in Nat /\ Cardinality(old \cap I) = 0
    BY <1>5, <2>1, FS_CardinalityType, FS_EmptySet
  <2> QED BY <1>1, <1>5, <2>2, <2>3, <2>4
<1>7. Cardinality(new) + (r - (f - e)) = CpuUpTo(p, (n + 1) \div 2)
  <2>1. Cardinality(old) + r = CpuUpTo(p, (n + 1) \div 2)
    BY DEF Stands
  <2> HIDE DEF e, f, old, new
  <2> QED BY <1>1, <1>6, <2>1
<1>8. o.start >= 0 /\ ~(o.start < 0) /\ o.start \in Int
  <2>1. o.start >= 0
    BY <1>1 DEF Stands
  <2> QED BY <2>1 DEF Outcomes, Times
<1>9. o.start \in new /\ \A u \in new : o.start <= u
  <2>1. (o.start \in old \/ o.start = e) /\ \A u \in old : o.start <= u
    BY <1>8 DEF Stands
  <2> HIDE DEF e, f, old, new
  <2>2. e \in I /\ o.start <= e
    BY <1>1, <1>5, <1>8, <2>1 DEF Times
  <2>3. \A u \in I : o.start <= u
    BY <1>1, <1>8, <2>2
  <2> QED BY <1>5, <2>1, <2>2, <2>3
<1>10. ~(o.completion >= 0)
  BY DEF Outcomes, Times
<1>11. f - 1 \in new
  BY <1>1, <1>5
<1> QED
  BY <1>4, <1>7, <1>8, <1>9, <1>10, <1>11 DEF Stands

\* the burst that ended was p's last
LEMMA CompleteStands ==
    ASSUME NEW p, NEW l, NEW e \in Times, NEW n, NEW o \in Outcomes,
           NEW o2, o2 = [o EXCEPT !.completion = e], n = Len(w.phases[p]),
           Stands(p, l, e, 0, n, o, -1), e - 1 \in Ticks(l, p, {"run"})
    PROVE  Stands(p, l, e, 0, n, o2, -1)
<1>1. o2.start = o.start /\ o2.completion = e
  BY DEF Outcomes
<1> QED
  BY <1>1 DEF Stands

\* p does I/O after the burst that ended
LEMMA BlockStands ==
    ASSUME w \in Workloads, NEW p \in Procs, NEW l, NEW e \in Times,
           NEW n \in Nat, IsOdd(n), n + 2 <= Len(w.phases[p]),
           NEW o \in Outcomes, o.completion < 0, NEW f, f = e + w.phases[p][n + 1],
           Stands(p, l, e, 0, n, o, -1), e - 1 \in Ticks(l, p, {"run"})
    PROVE  Stands(p, l, f, w.phases[p][n + 2], n + 2, o, -1)
<1>1. PICK k : k = (n + 1) \div 2
  OBVIOUS
<1>2. /\ k \in Nat /\ n + 1 = 2 * k /\ n + 2 = 2 * (k + 1) - 1 /\ (n + 2 + 1) \div 2 = k + 1
      /\ \A j \in Nat : 2 * j < n + 2 => 2 * j < n \/ j = k
  <2>1. \A i \in Nat : i % 2 = 1 =>
           /\ (i + 1) \div 2 \in Nat /\ i + 1 = 2 * ((i + 1) \div 2)
           /\ (i + 2 + 1) \div 2 = (i + 1) \div 2 + 1
    OBVIOUS
  <2>2. k \in Nat /\ n + 1 = 2 * k /\ (n + 2 + 1) \div 2 = k + 1
    BY <1>1, <2>1 DEF IsOdd
  <2> QED BY <2>2
<1>3. /\ Len(w.phases[p]) \in Nat /\ Len(w.phases[p]) = 2 * NumBursts(p) - 1 /\ NumBursts(p) \in Nat
      /\ \A i \in 1..Len(w.phases[p]) : w.phases[p][i] \in Nat
  BY PhaseFacts
<1>4. k \in 0..NumBursts(p) /\ k < NumBursts(p) /\ n + 1 \in 1..Len(w.phases[p])
  BY <1>2, <1>3
<1> DEFINE run == Ticks(l, p, {"run"})
           cpu == Ticks(l, p, CpuKinds)
           io == w.phases[p][n + 1]
<1>5. io \in Nat /\ IoOf(p, k) = io
  BY <1>2, <1>3, <1>4 DEF IoOf
<1>6. Cardinality(run) + w.phases[p][n + 2] = CpuUpTo(p, (n + 2 + 1) \div 2)
  <2>1. Cardinality(run) + 0 = CpuUpTo(p, k)
    BY <1>1 DEF Stands
  <2>2. Cardinality(run) \in Nat
    BY OnCores, FS_CardinalityType
  <2>3. CpuUpTo(p, k + 1) = CpuUpTo(p, k) + w.phases[p][n + 2]
    BY <1>2, <1>4, CpuUpToFacts DEF CpuOf
  <2> HIDE DEF run
  <2> QED BY <1>2, <2>1, <2>2, <2>3
<1>7. /\ run \subseteq cpu /\ cpu \subseteq Times /\ \A x \in cpu : w.arrival[p] <= x /\ x < e
  <2>1. run \subseteq cpu
    BY DEF Ticks, On, CpuKinds
  <2> QED BY <2>1, OnCores DEF Stands
<1>8. By(l, p, e - 1) = run /\ \A x \in cpu : x <= e - 1
  <2>1. \A x \in cpu : x <= e - 1
    BY <1>7 DEF Times
  <2> QED BY <1>7, <2>1 DEF By
<1>9. f \in Nat /\ e <= f /\ e - 1 + 1 + io = f /\ \A x \in cpu : x < f
  <2>1. e \in Nat
    BY DEF Times
  <2> HIDE DEF run, cpu
  <2>2. f \in Nat /\ e <= f /\ e - 1 + 1 + io = f
    <3>1. io \in Nat /\ f = e + io
      BY <1>5
    <3> HIDE DEF io
    <3> QED BY <2>1, <3>1
  <2> HIDE DEF io
  <2>3. \A x \in cpu : x \in Int /\ x < e
    <3>1. \A x \in Times : x \in Int
      BY DEF Times
    <3> QED BY <1>7, <3>1
  <2>4. \A x \in cpu : x < f
    BY <2>1, <2>2, <2>3
  <2> QED BY <2>2, <2>4
<1>10. ASSUME NEW j \in Nat \ {0}, 2 * j < n + 2
       PROVE  \E t \in run : /\ Cardinality(By(l, p, t)) = CpuUpTo(p, j)
                             /\ t + 1 + IoOf(p, j) <= f
                             /\ \A u \in cpu : u <= t \/ t + 1 + IoOf(p, j) <= u
  <2>1. CASE j = k
    <3>1. Cardinality(By(l, p, e - 1)) = CpuUpTo(p, j)
      <4>1. Cardinality(run) + 0 = CpuUpTo(p, k)
        BY <1>1 DEF Stands
      <4>2. Cardinality(run) \in Nat
        BY OnCores, FS_CardinalityType
      <4> HIDE DEF run
      <4> QED BY <1>8, <2>1, <4>1, <4>2
    <3>2. e - 1 + 1 + IoOf(p, j) <= f
      BY <1>5, <1>9, <2>1
    <3> QED BY <1>8, <3>1, <3>2
  <2>2. CASE 2 * j < n
    <3>1. PICK t \in run : /\ Cardinality(By(l, p, t)) = CpuUpTo(p, j)
                           /\ t + 1 + IoOf(p, j) <= e
                           /\ \A u \in cpu : u <= t \/ t + 1 + IoOf(p, j) <= u
      BY <2>2 DEF Stands
    <3>2. t \in Times /\ IoOf(p, j) \in Nat
      <4>1. 2 * j \in 1..Len(w.phases[p])
        BY <1>3, <2>2
      <4> QED BY <1>3, <1>7, <4>1 DEF IoOf
    <3>3. e \in Int /\ t \in Int /\ t + 1 + IoOf(p, j) \in Int
      BY <3>2 DEF Times
    <3>4. t + 1 + IoOf(p, j) <= f
      <4>1. e <= f /\ f \in Int /\ t + 1 + IoOf(p, j) <= e
        BY <1>9, <3>1
      <4>2. \A x, y, z \in Int : x <= y /\ y <= z => x <= z
        OBVIOUS
      <4> QED BY ONLY <3>3, <4>1, <4>2
    <3> QED BY <3>1, <3>4
  <2> QED BY <1>2, <1>10, <2>1, <2>2
<1>11. ~(o.completion >= 0)
  BY DEF Outcomes, Times
<1> HIDE DEF io
<1> QED
  BY <1>6, <1>7, <1>9, <1>10, <1>11 DEF Stands

-----------------------------------------------------------------------------
(* Where p will continue, from the state of the engine                     *)

EdgesKnown ==
    /\ \A p \in blocked : Resumes(p) = wake[p] /\ SliceStart(p) = -1
    /\ \A p \in Completed : Resumes(p) = outcome[p].completion /\ SliceStart(p) = -1
    /\ \A c \in Busy :
         /\ core[c].proc \in Procs
         /\ core[c].inCs => Resumes(core[c].proc) = core[c].busyUntil /\ SliceStart(core[c].proc) = -1
         /\ ~core[c].inCs => /\ Resumes(core[c].proc) = core[c].runStart
                             /\ SliceStart(core[c].proc) = core[c].runStart
    /\ \A p \in Procs \ (blocked \cup Completed \cup OnCore) : Resumes(p) = now /\ SliceStart(p) = -1

LEMMA EdgeFacts == Inv => EdgesKnown
<1> SUFFICES ASSUME Inv PROVE EdgesKnown
  OBVIOUS
<1>1. blocked \cap Completed = {} /\ OnCore \cap (blocked \cup Completed) = {}
      /\ core \in [Cores -> CoreStructs]
  BY DEF Inv, OnePlace, TypeOK
<1>2. \A c \in Busy : /\ core[c].proc \in Procs /\ core[c].proc \in OnCore
                      /\ CoreOf(core[c].proc) = c
  <2> TAKE c \in Busy
  <2>1. core[c].proc \in Procs /\ core[c].proc \in OnCore
    BY <1>1 DEF Busy, Free, OnCore, CoreStructs
  <2>2. \A d \in Cores : core[d].proc = core[c].proc => d = c
    <3> SUFFICES ASSUME NEW d \in Cores, core[d].proc = core[c].proc PROVE d = c
      OBVIOUS
    <3>1. d \in Busy
      BY DEF Busy, Free
    <3> QED BY <3>1 DEF Inv, OnePlace
  <2>3. CoreOf(core[c].proc) = c
    BY <2>2 DEF CoreOf, Busy
  <2> QED BY <2>1, <2>3
<1>3. \A c \in Busy :
         /\ core[c].inCs => Resumes(core[c].proc) = core[c].busyUntil /\ SliceStart(core[c].proc) = -1
         /\ ~core[c].inCs => /\ Resumes(core[c].proc) = core[c].runStart
                             /\ SliceStart(core[c].proc) = core[c].runStart
  <2> TAKE c \in Busy
  <2> QED BY <1>1, <1>2 DEF Resumes, SliceStart
<1> QED
  BY <1>1, <1>2, <1>3 DEF EdgesKnown, Resumes, SliceStart

LEMMA EdgeFactsNext == Inv' => EdgesKnown'
BY EdgeFacts, PTL

\* nothing changed for p
LEMMA EdgesKept ==
    ASSUME Inv, Inv', NEW p \in Procs, p \in blocked' <=> p \in blocked,
           now' = now \/ p \in blocked \cup Completed \cup OnCore,
           wake'[p] = wake[p], outcome'[p] = outcome[p],
           \A d \in Cores : core[d].proc = p \/ core'[d].proc = p =>
              /\ core'[d].proc = core[d].proc /\ core'[d].inCs = core[d].inCs
              /\ core'[d].busyUntil = core[d].busyUntil /\ core'[d].runStart = core[d].runStart
    PROVE  Resumes(p)' = Resumes(p) /\ SliceStart(p)' = SliceStart(p)
<1>1. EdgesKnown /\ EdgesKnown'
  BY EdgeFacts, EdgeFactsNext
<1>2. p \in Completed' <=> p \in Completed
  BY DEF Completed
<1>3. CASE p \in blocked
  BY <1>1, <1>3 DEF EdgesKnown
<1>4. CASE p \in Completed
  BY <1>1, <1>2, <1>4 DEF EdgesKnown
<1>5. ASSUME NEW c \in Busy, core[c].proc = p
      PROVE  Resumes(p)' = Resumes(p) /\ SliceStart(p)' = SliceStart(p)
  <2>1. c \in Busy' /\ core'[c].proc = p /\ core'[c].inCs = core[c].inCs
        /\ core'[c].busyUntil = core[c].busyUntil /\ core'[c].runStart = core[c].runStart
    BY <1>5 DEF Busy, Free
  <2>2. CASE core[c].inCs
    <3>1. Resumes(p) = core[c].busyUntil /\ SliceStart(p) = -1
      BY <1>1, <1>5, <2>2 DEF EdgesKnown
    <3>2. core'[c].inCs /\ Resumes(p)' = core'[c].busyUntil /\ SliceStart(p)' = -1
      BY <1>1, <2>1, <2>2 DEF EdgesKnown
    <3> QED BY <2>1, <3>1, <3>2
  <2>3. CASE ~core[c].inCs
    <3>1. Resumes(p) = core[c].runStart /\ SliceStart(p) = core[c].runStart
      BY <1>1, <1>5, <2>3 DEF EdgesKnown
    <3>2. ~core'[c].inCs /\ Resumes(p)' = core'[c].runStart /\ SliceStart(p)' = core'[c].runStart
      BY <1>1, <2>1, <2>3 DEF EdgesKnown
    <3> QED BY <2>1, <3>1, <3>2
  <2> QED BY <2>2, <2>3
<1>6. CASE p \notin blocked \cup Completed \cup OnCore
  <2>1. p \notin OnCore'
    BY <1>6 DEF OnCore, Busy, Free
  <2> QED BY <1>1, <1>2, <1>6, <2>1 DEF EdgesKnown
<1> QED
  BY <1>3, <1>4, <1>5, <1>6 DEF OnCore

-----------------------------------------------------------------------------
(* The steps of the engine                                                 *)

LEMMA ProcessTypes ==
    ASSUME Inv, NEW p \in Procs
    PROVE  /\ w \in Workloads /\ w.arrival[p] \in Nat /\ outcome[p] \in Outcomes
           /\ remaining[p] \in Nat /\ phase[p] \in Nat /\ IsOdd(phase[p])
           /\ \A k \in Nat \ {0} : 2 * k < phase[p] => IoOf(p, k) \in Nat
<1>1. /\ w \in Workloads /\ outcome[p] \in Outcomes /\ remaining[p] \in Times
      /\ phase[p] \in Nat /\ IsOdd(phase[p]) /\ phase[p] <= Len(w.phases[p])
  BY DEF Inv, TypeOK, Outcomes
<1>2. w.arrival[p] \in Nat
  BY <1>1, WorkloadFacts
<1>3. ASSUME NEW k \in Nat \ {0}, 2 * k < phase[p] PROVE IoOf(p, k) \in Nat
  <2>1. /\ Len(w.phases[p]) \in Nat
        /\ \A i \in 1..Len(w.phases[p]) : w.phases[p][i] \in Nat
    BY <1>1, PhaseFacts
  <2>2. 2 * k \in 1..Len(w.phases[p])
    BY <1>1, <1>3, <2>1
  <2> QED BY <2>1, <2>2 DEF IoOf
<1> QED
  BY <1>1, <1>2, <1>3 DEF Times

LEMMA StandsNext ==
    ASSUME NEW p \in Procs, w' = w, p \notin pending' => w.arrival[p] <= Resumes(p)',
           Stands(p, log', Resumes(p)', remaining'[p], phase'[p], outcome'[p], SliceStart(p)')
    PROVE  Standing(p)'
BY DEF Standing, Stands, CpuUpTo, Bursts, CpuOf, NumBursts, IoOf, By, Ticks, On, Covers

\* a log that keeps the ticks of p
Untouched(p, l, m) == \A K, c : c \in Cores => On(m, c, p, K) = On(l, c, p, K)

LEMMA SameTimelines ==
    ASSUME NEW l, NEW m, m.timelines = l.timelines, NEW p
    PROVE  Untouched(p, l, m)
BY DEF Untouched, On

LEMMA OthersSegment ==
    ASSUME NEW l \in Logs, NEW c \in Cores, NEW g \in Segments, NEW m \in AppendSegment(l, c, g),
           m.fail = "ok", WellMade(l.timelines[c]), NEW p, g.proc # p
    PROVE  Untouched(p, l, m)
<1> SUFFICES ASSUME NEW K, NEW d \in Cores PROVE On(m, d, p, K) = On(l, d, p, K)
  BY DEF Untouched
<1>1. On(m, d, p, K) = On(l, d, p, K) \cup
        IF d = c /\ g.proc = p /\ g.kind \in K THEN Covers(g) ELSE {}
  BY OnAppend
<1> QED
  BY <1>1

\* nothing changed for p
LEMMA Unmoved ==
    ASSUME Inv, NEW p \in Procs, Standing(p), w' = w, remaining'[p] = remaining[p],
           phase'[p] = phase[p], outcome'[p] = outcome[p], p \in pending => p \in pending',
           Resumes(p)' = Resumes(p), SliceStart(p)' = SliceStart(p), Untouched(p, log, log')
    PROVE  Standing(p)'
<1>1. Stands(p, log, Resumes(p), remaining[p], phase[p], outcome[p], SliceStart(p))
      /\ (p \notin pending => w.arrival[p] <= Resumes(p))
  BY DEF Standing
<1>2. Stands(p, log', Resumes(p), remaining[p], phase[p], outcome[p], SliceStart(p))
  BY <1>1, SameTicks DEF Untouched
<1> QED
  BY <1>1, <1>2, StandsNext

LEMMA InitService == Init => ServiceInv
<1> SUFFICES ASSUME Init PROVE ServiceInv
  OBVIOUS
<1>1. Inv /\ EdgesKnown
  BY InitInv, EdgeFacts
<1>2. /\ pending = Procs /\ blocked = {} /\ phase = [p \in Procs |-> 1] /\ status = "running"
      /\ remaining = [p \in Procs |-> w.phases[p][1]] /\ w \in Workloads
      /\ outcome = [p \in Procs |-> [start |-> -1, completion |-> -1]]
      /\ \A c \in Cores : log.timelines[c] = <<>>
      /\ Completed = {} /\ OnCore = {}
  BY DEF Init, EngineInit, Completed, OnCore, Busy, Free, FreshCore
<1>3. ASSUME NEW p \in Procs PROVE Standing(p)
  <2>1. SliceStart(p) = -1
    BY <1>1, <1>2 DEF EdgesKnown
  <2>2. /\ \A K : Ticks(log, p, K) = {}
        /\ \A c \in Cores : On(log, c, p, CpuKinds) = {}
    BY <1>2 DEF Ticks, On
  <2>3. /\ phase[p] = 1 /\ remaining[p] = w.phases[p][1] /\ outcome[p].start = -1
        /\ outcome[p].completion = -1 /\ (1 + 1) \div 2 = 1
    BY <1>2
  <2>4. CpuUpTo(p, 1) = w.phases[p][1] /\ w.phases[p][1] \in Nat
    <3>1. /\ NumBursts(p) \in Nat /\ Len(w.phases[p]) = 2 * NumBursts(p) - 1
          /\ Len(w.phases[p]) \in Nat /\ 0 < NumBursts(p) /\ 0 \in 0..NumBursts(p)
      <4>1. /\ NumBursts(p) \in Nat /\ Len(w.phases[p]) = 2 * NumBursts(p) - 1
            /\ Len(w.phases[p]) \in Nat
        BY <1>2, PhaseFacts
      <4> QED BY <4>1
    <3>2. w.phases[p][1] \in Nat /\ CpuOf(p, 0 + 1) = w.phases[p][1]
      <4>1. 1 \in 1..Len(w.phases[p])
        BY <3>1
      <4> QED BY <1>2, <4>1, PhaseFacts DEF CpuOf
    <3>3. CpuUpTo(p, 0 + 1) = CpuUpTo(p, 0) + CpuOf(p, 0 + 1)
      BY <1>2, <3>1, CpuUpToFacts
    <3>4. CpuUpTo(p, 0) = 0
      <4>1. 1..0 = {}
        OBVIOUS
      <4> QED BY <4>1, SumEmpty DEF CpuUpTo
    <3> QED BY <3>2, <3>3, <3>4
  <2>5. Cardinality({}) + w.phases[p][1] = CpuUpTo(p, 1)
    BY <2>4, FS_EmptySet
  <2>6. Cardinality(Ticks(log, p, {"run"})) + remaining[p] = CpuUpTo(p, (phase[p] + 1) \div 2)
    BY <2>2, <2>3, <2>5
  <2>7. /\ \A k \in Nat \ {0} : ~(2 * k < phase[p])
        /\ outcome[p].start < 0 /\ ~(outcome[p].start >= 0) /\ ~(outcome[p].completion >= 0)
    BY <2>3
  <2>8. Stands(p, log, Resumes(p), remaining[p], phase[p], outcome[p], SliceStart(p))
    BY <2>1, <2>2, <2>6, <2>7 DEF Stands
  <2> QED BY <1>2, <2>8 DEF Standing
<1> QED
  BY <1>2, <1>3 DEF ServiceInv

(* Steps that leave every process where it is.                             *)
LEMMA QuietService ==
    ASSUME Inv, Inv', ServiceInv, UNCHANGED <<w, now, remaining, phase, wake, blocked, outcome>>,
           log'.fail = "ok" => log.fail = "ok" /\ \A p \in Procs : Untouched(p, log, log'),
           \A p \in pending : p \notin pending' => w.arrival[p] <= now,
           \A d \in Cores :
              /\ core'[d].proc = core[d].proc /\ core'[d].inCs = core[d].inCs
              /\ core'[d].busyUntil = core[d].busyUntil /\ core'[d].runStart = core[d].runStart
    PROVE  log'.fail = "ok" => \A p \in Procs : Standing(p)'
<1> SUFFICES ASSUME log'.fail = "ok", NEW p \in Procs PROVE Standing(p)'
  OBVIOUS
<1>1. Standing(p) /\ Untouched(p, log, log')
  BY DEF ServiceInv
<1>2. Resumes(p)' = Resumes(p) /\ SliceStart(p)' = SliceStart(p)
  BY EdgesKept
<1>3. p \in pending => Resumes(p) = now
  <2>1. p \in pending => p \notin blocked \cup Completed \cup OnCore
    BY DEF Inv, OnePlace
  <2> QED BY <2>1, EdgeFacts DEF EdgesKnown
<1>4. p \notin pending' => w.arrival[p] <= Resumes(p)'
  BY <1>1, <1>2, <1>3 DEF Standing
<1>5. Stands(p, log', Resumes(p)', remaining'[p], phase'[p], outcome'[p], SliceStart(p)')
  <2>1. Stands(p, log, Resumes(p), remaining[p], phase[p], outcome[p], SliceStart(p))
    BY <1>1 DEF Standing
  <2>2. Stands(p, log', Resumes(p), remaining[p], phase[p], outcome[p], SliceStart(p))
    BY <1>1, <2>1, SameTicks DEF Untouched
  <2> QED BY <1>2, <2>2
<1> QED
  BY <1>4, <1>5, StandsNext

LEMMA WakeUpService ==
    ASSUME Inv, Inv', ServiceInv, NEW q \in Procs, BecomeReady(q)
    PROVE  log'.fail = "ok" => \A p \in Procs : Standing(p)'
<1> SUFFICES ASSUME log'.fail = "ok", NEW p \in Procs PROVE Standing(p)'
  OBVIOUS
<1>1. /\ stage = "wakeups" /\ q \in blocked /\ wake[q] <= now /\ blocked' = blocked \ {q}
      /\ UNCHANGED <<w, now, pending, remaining, phase, wake, core, outcome, log>>
  BY DEF BecomeReady, WakeUp, IsFirst, Woken, procVars, resultVars
<1>2. Standing(p) /\ Untouched(p, log, log')
  BY <1>1, SameTimelines DEF ServiceInv
<1>3. Resumes(p)' = Resumes(p) /\ SliceStart(p)' = SliceStart(p)
  <2>1. CASE p # q
    BY <1>1, <2>1, EdgesKept
  <2>2. CASE p = q
    <3>1. wake[q] = now
      BY <1>1 DEF Inv, TypeOK, NothingMissed, Times
    <3>2. Resumes(q) = now /\ SliceStart(q) = -1
      BY <1>1, <3>1, EdgeFacts DEF EdgesKnown
    <3>3. q \notin Completed' /\ q \notin OnCore' /\ q \notin blocked'
      <4>1. q \notin Completed /\ q \notin OnCore
        BY <1>1 DEF Inv, OnePlace
      <4> QED BY <1>1, <4>1 DEF Completed, OnCore, Busy, Free
    <3>4. Resumes(q)' = now' /\ SliceStart(q)' = -1
      BY <3>3, EdgeFactsNext DEF EdgesKnown
    <3> QED BY <1>1, <2>2, <3>2, <3>4
  <2> QED BY <2>1, <2>2
<1> QED
  BY <1>1, <1>2, <1>3, Unmoved

LEMMA AdvanceService ==
    ASSUME Inv, Inv', ServiceInv, Advance
    PROVE  log'.fail = "ok" => \A p \in Procs : Standing(p)'
<1> SUFFICES ASSUME log'.fail = "ok", NEW p \in Procs PROVE Standing(p)'
  OBVIOUS
<1>1. UNCHANGED <<w, pending, blocked, remaining, phase, wake, core, outcome, log>>
  BY DEF Advance, procVars, resultVars
<1>2. Standing(p) /\ Untouched(p, log, log')
  BY <1>1, SameTimelines DEF ServiceInv
<1>3. CASE p \in blocked \cup Completed \cup OnCore
  <2>1. Resumes(p)' = Resumes(p) /\ SliceStart(p)' = SliceStart(p)
    BY <1>1, <1>3, EdgesKept
  <2> QED BY <1>1, <1>2, <2>1, Unmoved
<1>4. CASE p \notin blocked \cup Completed \cup OnCore
  <2>1. p \notin blocked' \cup Completed' \cup OnCore'
    BY <1>1, <1>4 DEF Completed, OnCore, Busy, Free
  <2>2. Resumes(p) = now /\ SliceStart(p) = -1 /\ Resumes(p)' = now' /\ SliceStart(p)' = -1
    BY <1>4, <2>1, EdgeFacts, EdgeFactsNext DEF EdgesKnown
  <2>3. now \in Times /\ now' \in Times /\ now <= now'
    <3>1. now \in Times
      BY DEF Inv, TypeOK
    <3>2. now' > now /\ now' \in Times
      BY AdvanceFacts
    <3> QED BY <3>1, <3>2 DEF Times
  <2>4. outcome[p].completion < 0
    BY <1>4, ProcessTypes DEF Completed, Outcomes, Times
  <2>5. Stands(p, log, now, remaining[p], phase[p], outcome[p], -1)
        /\ (p \notin pending => w.arrival[p] <= now)
    BY <1>2, <2>2 DEF Standing
  <2>6. Stands(p, log, now', remaining[p], phase[p], outcome[p], -1)
    BY <2>3, <2>4, <2>5, ProcessTypes, LaterStands
  <2>7. p \notin pending' => w.arrival[p] <= now'
    <3>1. w.arrival[p] \in Nat
      BY ProcessTypes
    <3> QED BY <1>1, <2>3, <2>5, <3>1 DEF Times
  <2> QED BY <1>1, <2>2, <2>6, <2>7, StandsNext
<1> QED
  BY <1>3, <1>4

\* the process of a slice that begins
LEMMA BegunService ==
    ASSUME Inv, NEW p \in Procs, outcome' = BegunOutcome(p), outcome[p].completion < 0,
           NEW l, Stands(p, l, now, remaining[p], phase[p], outcome[p], -1)
    PROVE  Stands(p, l, now, remaining[p], phase[p], outcome'[p], now)
<1>1. now \in Times /\ outcome[p] \in Outcomes /\ outcome \in [Procs -> Outcomes]
  BY DEF Inv, TypeOK, Outcomes
<1>2. outcome'[p] = IF outcome[p].start < 0 THEN [outcome[p] EXCEPT !.start = now] ELSE outcome[p]
  BY <1>1 DEF BegunOutcome
<1> QED
  BY <1>1, <1>2, BeginStands

LEMMA SwitchInService ==
    ASSUME Inv, Inv', ServiceInv, NEW c \in Cores, SwitchIn(c)
    PROVE  log'.fail = "ok" => \A p \in Procs : Standing(p)'
<1> SUFFICES ASSUME log'.fail = "ok", NEW p \in Procs PROVE Standing(p)'
  OBVIOUS
<1> DEFINE q == core[c].proc
           k == IF OneTick(c) THEN [core[c] EXCEPT !.deadline = AddTime(now, 1)] ELSE core[c]
           l == IF OneTick(c) THEN NoteOverflow(log, now, 1) ELSE log
<1>1. /\ stage = "switchins" /\ c \in Busy /\ core[c].inCs /\ core[c].busyUntil = now
      /\ core' = [core EXCEPT ![c] = Begun(k)] /\ log' = BegunLog(l, k)
      /\ outcome' = BegunOutcome(k.proc)
      /\ UNCHANGED <<w, now, pending, blocked, remaining, phase, wake>>
  BY DEF SwitchIn, SwitchedIn, IsLowest, procVars
<1>2. core[c] \in CoreStructs /\ core \in [Cores -> CoreStructs] /\ log \in Logs /\ now \in Times
      /\ outcome \in [Procs -> Outcomes]
  BY DEF Inv, TypeOK, Outcomes
<1>3. /\ k.proc = q /\ Begun(k).proc = q /\ ~Begun(k).inCs /\ Begun(k).runStart = now
  BY <1>2 DEF Begun, CoreStructs
<1>4. log'.timelines = log.timelines /\ log.fail = "ok"
  BY <1>1, <1>2 DEF BegunLog, NoteOverflow, Logs
<1> HIDE DEF k, l
<1>5. /\ core'[c].proc = q /\ ~core'[c].inCs /\ core'[c].runStart = now
      /\ \A d \in Cores \ {c} : core'[d] = core[d]
  BY <1>1, <1>2, <1>3
<1>6. Standing(p) /\ Untouched(p, log, log')
  BY <1>4, SameTimelines DEF ServiceInv
<1>7. CASE p # q
  <2>1. outcome'[p] = outcome[p]
    BY <1>1, <1>2, <1>3, <1>7 DEF BegunOutcome
  <2>2. Resumes(p)' = Resumes(p) /\ SliceStart(p)' = SliceStart(p)
    BY <1>1, <1>5, <1>7, <2>1, EdgesKept
  <2> QED BY <1>1, <1>6, <2>1, <2>2, Unmoved
<1>8. CASE p = q
  <2>1. p \in OnCore /\ p \notin pending \cup Completed
    BY <1>1, <1>8 DEF OnCore, Inv, OnePlace
  <2>2. Resumes(p) = now /\ SliceStart(p) = -1
    BY <1>1, <1>8, EdgeFacts DEF EdgesKnown
  <2>3. c \in Busy'
    BY <1>1, <1>5 DEF Busy, Free
  <2>4. Resumes(p)' = now /\ SliceStart(p)' = now
    BY <1>5, <1>8, <2>3, EdgeFactsNext DEF EdgesKnown
  <2>5. outcome[p].completion < 0
    BY <2>1, ProcessTypes DEF Completed, Outcomes, Times
  <2>6. Stands(p, log, now, remaining[p], phase[p], outcome[p], -1) /\ w.arrival[p] <= now
    BY <1>6, <2>1, <2>2 DEF Standing
  <2>7. Stands(p, log', now, remaining[p], phase[p], outcome[p], -1)
    BY <1>6, <2>6, SameTicks DEF Untouched
  <2>8. Stands(p, log', now, remaining[p], phase[p], outcome'[p], now)
    BY <1>1, <1>3, <1>8, <2>5, <2>7, BegunService
  <2> QED BY <1>1, <2>4, <2>6, <2>8, StandsNext
<1> QED
  BY <1>7, <1>8

LEMMA PlaceService ==
    ASSUME Inv, Inv', TimelineInv, ServiceInv, NEW c \in Cores, NEW i \in DOMAIN picks, Place(i, c)
    PROVE  log'.fail = "ok" => \A p \in Procs : Standing(p)'
<1> SUFFICES ASSUME log'.fail = "ok", NEW p \in Procs PROVE Standing(p)'
  OBVIOUS
<1>q. PICK q : q = picks[i].proc
  OBVIOUS
<1> DEFINE taken == [core[c] EXCEPT !.proc = q, !.length = picks[i].length, !.context = q,
                                    !.deadline = picks[i].deadline, !.recheck = FALSE]
           until == AddTime(now, CsCost)
           idle == Segment(core[c].freeSince, now, None, "idle")
           cs == Segment(now, until, q, "cs")
<1>1. PICK l \in AppendSegment(log, c, idle) :
        \/ /\ core' = [core EXCEPT ![c] = [taken EXCEPT !.inCs = TRUE, !.busyUntil = until]]
           /\ log' \in AppendSegment(NoteOverflow(l, now, CsCost), c, cs)
           /\ outcome' = outcome
        \/ /\ core' = [core EXCEPT ![c] = Begun(taken)]
           /\ log' = BegunLog(l, taken)
           /\ outcome' = BegunOutcome(q)
  BY <1>q DEF Place
<1>2. /\ stage = "place" /\ stage' = "place"
      /\ UNCHANGED <<w, now, pending, blocked, remaining, phase, wake>>
      /\ core \in [Cores -> CoreStructs] /\ core[c] \in CoreStructs
      /\ log \in Logs /\ now \in Times /\ now < MaxTime
      /\ outcome \in [Procs -> Outcomes]
  BY DEF Place, Inv, TypeOK, NothingMissed, procVars, Outcomes
<1>3. /\ Free(c) /\ q \in Procs /\ q # None /\ core'[c].proc = q
      /\ \A d \in Cores \ {c} : core'[d] = core[d]
  BY <1>q, PlaceFacts, EngineAssumption DEF Slices
<1>4. Spans /\ LogWell(log) /\ closed = 0
  BY <1>2 DEF TimelineInv, Spans, Inv, TypeOK
<1>5. idle \in Segments /\ idle.start <= idle.end /\ idle.proc = None /\ idle.start = core[c].freeSince
  <2>1. core[c].freeSince <= now
    BY <1>3, <1>4 DEF Spans
  <2> QED BY <1>2, <2>1 DEF Segment, Segments, CoreStructs
<1>6. until \in Times /\ now <= until
  <2>1. until \in Times /\ (CsCost > 0 => until > now) /\ (CsCost = 0 => until = now)
    BY <1>2, AddTimeFacts, EngineAssumption DEF AddTime, Times
  <2> HIDE DEF until
  <2> QED BY <1>2, <2>1, EngineAssumption DEF Times
<1>7. cs \in Segments /\ cs.start = now /\ cs.end = until /\ cs.proc = q /\ cs.kind = "cs"
  BY <1>2, <1>3, <1>6 DEF Segment, Segments
<1> HIDE DEF idle, cs, until
<1>8. l \in Logs /\ LogWell(l) /\ (l.fail = "ok" => log.fail = "ok")
  <2>1. log.fail = "ok" => Reaches(log.timelines[c], core[c].freeSince)
    <3>1. ~(c <= closed)
      BY <1>4, EngineAssumption DEF Cores
    <3> QED BY <1>3, <1>4, <3>1 DEF Spans, Frontier
  <2> QED BY <1>1, <1>2, <1>4, <1>5, <2>1, AppendKeeps
<1>9. /\ l.fail = "ok" => \A r \in Procs : Untouched(r, log, l)
      /\ WellMade(l.timelines[c])
  <2>1. WellMade(log.timelines[c]) /\ WellMade(l.timelines[c])
    BY <1>4, <1>8 DEF LogWell
  <2>2. \A r \in Procs : idle.proc # r
    BY <1>5, EngineAssumption
  <2> QED BY <1>1, <1>2, <1>5, <2>1, <2>2, OthersSegment
<1>10. q \in Picked /\ q \notin pending \cup blocked \cup Completed \cup OnCore
  <2>1. q \in Picked
    BY <1>q DEF Picked
  <2> QED BY <2>1 DEF Inv, OnePlace
<1>11. Resumes(q) = now /\ SliceStart(q) = -1
  BY <1>3, <1>10, EdgeFacts DEF EdgesKnown
<1>12. outcome[q].completion < 0
  BY <1>3, <1>10, ProcessTypes DEF Completed, Outcomes, Times
<1>13. c \in Busy'
  BY <1>3 DEF Busy, Free
<1>14. ASSUME p # q, Untouched(p, log, log'), log.fail = "ok", outcome'[p] = outcome[p]
       PROVE  Standing(p)'
  <2>1. Standing(p)
    BY <1>14 DEF ServiceInv
  <2>2. Resumes(p)' = Resumes(p) /\ SliceStart(p)' = SliceStart(p)
    <3>1. core[c].proc # p
      BY <1>3, EngineAssumption DEF Free
    <3> QED BY <1>2, <1>3, <1>14, <3>1, EdgesKept
  <2> QED BY <1>2, <1>14, <2>1, <2>2, Unmoved
<1>15. ASSUME log.fail = "ok", l.fail = "ok"
       PROVE  /\ Stands(q, l, now, remaining[q], phase[q], outcome[q], -1)
              /\ w.arrival[q] <= now
  <2>1. Stands(q, log, now, remaining[q], phase[q], outcome[q], -1) /\ w.arrival[q] <= now
    BY <1>3, <1>10, <1>11, <1>15 DEF ServiceInv, Standing
  <2> QED BY <1>3, <1>9, <1>15, <2>1, SameTicks DEF Untouched
<1>16. CASE /\ core' = [core EXCEPT ![c] = [taken EXCEPT !.inCs = TRUE, !.busyUntil = until]]
            /\ log' \in AppendSegment(NoteOverflow(l, now, CsCost), c, cs)
            /\ outcome' = outcome
  <2> DEFINE m == NoteOverflow(l, now, CsCost)
  <2>1. m \in Logs /\ m.timelines = l.timelines /\ (m.fail = "ok" => l.fail = "ok")
    BY <1>8, NoteKeeps
  <2>2. log' \in AppendSegment(m, c, cs)
    BY <1>16
  <2> HIDE DEF m
  <2>3. m.fail = "ok" /\ l.fail = "ok" /\ log.fail = "ok"
    BY <1>7, <1>8, <2>1, <2>2, AppendKinds
  <2>4. core'[c].inCs /\ core'[c].busyUntil = until
    BY <1>2, <1>16 DEF CoreStructs
  <2>5. WellMade(m.timelines[c])
    BY <1>9, <2>1
  <2>6. CASE p # q
    <3>1. Untouched(p, m, log')
      BY <1>7, <2>1, <2>2, <2>5, <2>6, OthersSegment
    <3>2. Untouched(p, log, l) /\ Untouched(p, l, m)
      BY <1>9, <2>1, <2>3, SameTimelines
    <3>3. Untouched(p, log, log')
      BY <3>1, <3>2 DEF Untouched
    <3> QED BY <1>14, <1>16, <2>3, <2>6, <3>3
  <2>7. CASE p = q
    <3>1. Resumes(p)' = until /\ SliceStart(p)' = -1
      BY <1>3, <1>13, <2>4, <2>7, EdgeFactsNext DEF EdgesKnown
    <3>2. Stands(p, m, now, remaining[p], phase[p], outcome[p], -1)
      <4>1. Untouched(p, l, m)
        BY <2>1, SameTimelines
      <4> QED BY <1>15, <2>3, <2>7, <4>1, SameTicks DEF Untouched
    <3>3. Stands(p, log', until, remaining[p], phase[p], outcome[p], -1)
      <4>1. w.arrival[p] <= cs.start /\ cs.start <= cs.end
        BY <1>6, <1>7, <1>15, <2>3, <2>7
      <4>2. w \in Workloads /\ outcome[p] \in Outcomes
            /\ \A k \in Nat \ {0} : 2 * k < phase[p] => IoOf(p, k) \in Nat
        BY ProcessTypes
      <4>3. Stands(p, log', cs.end, remaining[p], phase[p], outcome[p], -1)
        BY <1>7, <1>12, <2>1, <2>2, <2>5, <2>7, <3>2, <4>1, <4>2, SwitchStands
      <4> QED BY <1>7, <4>3
    <3>4. w.arrival[p] <= until
      <4>1. w.arrival[p] \in Nat /\ w.arrival[p] <= now
        BY <1>15, <2>3, <2>7, ProcessTypes
      <4> QED BY <1>2, <1>6, <4>1 DEF Times
    <3> QED BY <1>2, <1>16, <3>1, <3>3, <3>4, StandsNext
  <2> QED BY <2>6, <2>7
<1>17. CASE /\ core' = [core EXCEPT ![c] = Begun(taken)]
            /\ log' = BegunLog(l, taken)
            /\ outcome' = BegunOutcome(q)
  <2>1. ~core'[c].inCs /\ core'[c].runStart = now
    BY <1>2, <1>17 DEF Begun, CoreStructs
  <2>2. log'.timelines = l.timelines /\ l.fail = "ok" /\ log.fail = "ok"
    BY <1>8, <1>17, NoteKeeps DEF BegunLog
  <2>3. Untouched(p, log, l) /\ Untouched(p, l, log')
    BY <1>9, <2>2, SameTimelines
  <2>4. CASE p # q
    <3>1. outcome'[p] = outcome[p]
      BY <1>2, <1>17, <2>4 DEF BegunOutcome
    <3>2. Untouched(p, log, log')
      BY <2>3 DEF Untouched
    <3> QED BY <1>14, <2>2, <2>4, <3>1, <3>2
  <2>5. CASE p = q
    <3>1. Resumes(p)' = now /\ SliceStart(p)' = now
      BY <1>3, <1>13, <2>1, <2>5, EdgeFactsNext DEF EdgesKnown
    <3>2. Stands(p, log', now, remaining[p], phase[p], outcome[p], -1)
      BY <1>15, <2>2, <2>3, <2>5, SameTicks DEF Untouched
    <3>3. Stands(p, log', now, remaining[p], phase[p], outcome'[p], now)
      BY <1>12, <1>17, <2>5, <3>2, BegunService
    <3>4. w.arrival[p] <= now
      BY <1>15, <2>2, <2>5
    <3> QED BY <1>2, <3>1, <3>3, <3>4, StandsNext
  <2> QED BY <2>4, <2>5
<1> QED
  BY <1>1, <1>16, <1>17

(* A slice has ended: what holds for the others, and for its process when  *)
(* the slice is logged.                                                    *)
LEMMA EndRunService ==
    ASSUME Inv, Inv', TimelineInv, ServiceInv, NEW c \in Cores, EndRun(c), NEW l \in LogRun(c),
           l.fail = "ok"
    PROVE  LET p == core[c].proc IN
           /\ log.fail = "ok" /\ p \in Procs /\ p \notin OnCore' /\ p \notin pending
           /\ w.arrival[p] <= now /\ now \in Times /\ outcome[p].completion < 0
           /\ Stands(p, l, now, remaining[p] - Ran(c), phase[p], outcome[p], -1)
           /\ now - 1 \in Ticks(l, p, {"run"})
           /\ \A q \in Procs \ {p} :
                /\ Untouched(q, log, l)
                /\ \A d \in Cores : core[d].proc = q \/ core'[d].proc = q => core'[d] = core[d]
<1>p. PICK p : p = core[c].proc
  OBVIOUS
<1> DEFINE g == Segment(core[c].runStart, now, p, "run")
<1>1. /\ c \in Running /\ core[c] \in CoreStructs /\ stage \in {"ends", "interrupts"}
      /\ 1 <= Ran(c) /\ now \in Times /\ log \in Logs /\ p \in Procs /\ c \in Busy /\ ~core[c].inCs
  BY <1>p, SliceEndFacts DEF EndRun, Inv, TypeOK, Running
<1>2. /\ g \in Segments /\ g.start = core[c].runStart /\ g.end = now /\ g.start < g.end
      /\ g.proc = p /\ g.kind = "run"
  BY <1>1 DEF Segment, Segments, CoreStructs, Ran, Times
<1>3. l \in AppendSegment(log, c, g) /\ WellMade(log.timelines[c])
  BY <1>p DEF LogRun, TimelineInv
<1> HIDE DEF g
<1>4. log.fail = "ok"
  BY <1>1, <1>2, <1>3, AppendKinds
<1>5. p \in OnCore /\ p \notin OnCore' /\ p \notin pending \cup Completed
  BY <1>p, EndRunFacts DEF Inv, OnePlace
<1>6. Standing(p) /\ Resumes(p) = core[c].runStart /\ SliceStart(p) = core[c].runStart
  BY <1>p, <1>1, <1>4, EdgeFacts DEF ServiceInv, EdgesKnown
<1>7. /\ Stands(p, log, g.start, remaining[p], phase[p], outcome[p], g.start)
      /\ w.arrival[p] <= g.start
  BY <1>2, <1>5, <1>6 DEF Standing
<1>8. outcome[p].completion < 0
  BY <1>1, <1>5, ProcessTypes DEF Completed, Outcomes, Times
<1>9. w.arrival[p] <= now
  <2>1. w.arrival[p] \in Nat /\ core[c].runStart \in Times
    BY <1>1, ProcessTypes DEF CoreStructs
  <2> QED BY <1>1, <1>2, <1>7, <2>1 DEF Times
<1>10. /\ Stands(p, l, g.end, remaining[p] - (g.end - g.start), phase[p], outcome[p], -1)
       /\ g.end - 1 \in Ticks(l, p, {"run"})
  <2>1. /\ w \in Workloads /\ outcome[p] \in Outcomes /\ remaining[p] \in Nat
        /\ \A k \in Nat \ {0} : 2 * k < phase[p] => IoOf(p, k) \in Nat
    BY <1>1, ProcessTypes
  <2> QED BY <1>1, <1>2, <1>3, <1>7, <1>8, <2>1, RunStands
<1>11. Ran(c) = g.end - g.start
  BY <1>2 DEF Ran
<1>12. ASSUME NEW q \in Procs \ {p}
       PROVE  /\ Untouched(q, log, l)
              /\ \A d \in Cores : core[d].proc = q \/ core'[d].proc = q => core'[d] = core[d]
  <2>1. Untouched(q, log, l)
    BY <1>1, <1>2, <1>3, <1>12, OthersSegment
  <2>2. core'[c].proc = None /\ \A d \in Cores \ {c} : core'[d] = core[d]
    <3>1. core' = [core EXCEPT ![c] = [core[c] EXCEPT !.proc = None, !.freeSince = now]]
          /\ core \in [Cores -> CoreStructs]
      BY DEF EndRun, Inv, TypeOK
    <3> QED BY <3>1 DEF CoreStructs
  <2> QED BY <1>p, <1>12, <2>1, <2>2, EngineAssumption
<1> QED
  BY <1>p, <1>1, <1>2, <1>4, <1>5, <1>8, <1>9, <1>10, <1>11, <1>12

\* the processes of the other cores
LEMMA OthersService ==
    ASSUME Inv, Inv', ServiceInv, NEW p, log.fail = "ok", UNCHANGED <<w, now, pending>>,
           NEW q \in Procs \ {p}, remaining'[q] = remaining[q], phase'[q] = phase[q],
           wake'[q] = wake[q], outcome'[q] = outcome[q], q \in blocked' <=> q \in blocked,
           Untouched(q, log, log'),
           \A d \in Cores : core[d].proc = q \/ core'[d].proc = q => core'[d] = core[d]
    PROVE  Standing(q)'
<1>1. Standing(q)
  BY DEF ServiceInv
<1>2. Resumes(q)' = Resumes(q) /\ SliceStart(q)' = SliceStart(q)
  BY EdgesKept
<1> QED
  BY <1>1, <1>2, Unmoved

LEMMA CompleteService ==
    ASSUME Inv, Inv', TimelineInv, ServiceInv, NEW c \in Cores, SliceCompletes(c)
    PROVE  log'.fail = "ok" => \A p \in Procs : Standing(p)'
<1> SUFFICES ASSUME log'.fail = "ok", NEW q \in Procs PROVE Standing(q)'
  OBVIOUS
<1>p. PICK p : p = core[c].proc
  OBVIOUS
<1>1. /\ EndRun(c) /\ BurstOver(c) /\ LastPhase(p) /\ log' \in LogRun(c)
      /\ remaining' = [remaining EXCEPT ![p] = 0]
      /\ outcome' = [outcome EXCEPT ![p] = [outcome[p] EXCEPT !.completion = now]]
      /\ UNCHANGED <<w, now, pending, blocked, phase, wake>>
  BY <1>p DEF SliceCompletes, Complete, EndRun
<1>2. /\ log.fail = "ok" /\ p \in Procs /\ w.arrival[p] <= now /\ now \in Times
      /\ outcome[p].completion < 0
      /\ Stands(p, log', now, remaining[p] - Ran(c), phase[p], outcome[p], -1)
      /\ now - 1 \in Ticks(log', p, {"run"})
      /\ \A r \in Procs \ {p} :
           /\ Untouched(r, log, log')
           /\ \A d \in Cores : core[d].proc = r \/ core'[d].proc = r => core'[d] = core[d]
  BY <1>p, <1>1, EndRunService
<1>3. /\ remaining \in [Procs -> Times] /\ outcome \in [Procs -> Outcomes]
      /\ remaining[p] = Ran(c) /\ phase[p] = Len(w.phases[p])
  BY <1>p, <1>1 DEF Inv, TypeOK, Outcomes, BurstOver, LastPhase
<1>4. CASE q # p
  <2>1. remaining'[q] = remaining[q] /\ outcome'[q] = outcome[q]
    BY <1>1, <1>3, <1>4
  <2> QED BY <1>1, <1>2, <1>4, <2>1, OthersService
<1>5. CASE q = p
  <2>1. remaining'[p] = 0 /\ outcome'[p] = [outcome[p] EXCEPT !.completion = now]
        /\ outcome[p] \in Outcomes /\ remaining[p] - Ran(c) = 0
    BY <1>1, <1>2, <1>3 DEF Times
  <2>2. outcome'[p].completion = now /\ p \in Completed'
    BY <1>2, <2>1 DEF Completed, Outcomes, Times
  <2>3. Resumes(p)' = now /\ SliceStart(p)' = -1
    BY <2>2, EdgeFactsNext DEF EdgesKnown
  <2>4. Stands(p, log', now, 0, phase[p], outcome[p], -1)
    BY <1>2, <2>1
  <2>5. Stands(p, log', now, 0, phase[p], outcome'[p], -1)
    BY <1>2, <1>3, <2>1, <2>4, CompleteStands
  <2> QED BY <1>1, <1>2, <1>5, <2>1, <2>3, <2>5, StandsNext
<1> QED
  BY <1>4, <1>5

LEMMA PreemptService ==
    ASSUME Inv, Inv', TimelineInv, ServiceInv, NEW c \in Cores, SlicePreempted(c)
    PROVE  log'.fail = "ok" => \A p \in Procs : Standing(p)'
<1> SUFFICES ASSUME log'.fail = "ok", NEW q \in Procs PROVE Standing(q)'
  OBVIOUS
<1>p. PICK p : p = core[c].proc
  OBVIOUS
<1>1. /\ EndRun(c) /\ log' \in LogRun(c)
      /\ remaining' = [remaining EXCEPT ![p] = remaining[p] - Ran(c)]
      /\ UNCHANGED <<w, now, pending, blocked, phase, wake, outcome>>
  BY <1>p DEF SlicePreempted, Preempt, EndRun
<1>2. /\ log.fail = "ok" /\ p \in Procs /\ w.arrival[p] <= now /\ p \notin OnCore'
      /\ outcome[p].completion < 0
      /\ Stands(p, log', now, remaining[p] - Ran(c), phase[p], outcome[p], -1)
      /\ \A r \in Procs \ {p} :
           /\ Untouched(r, log, log')
           /\ \A d \in Cores : core[d].proc = r \/ core'[d].proc = r => core'[d] = core[d]
  BY <1>p, <1>1, EndRunService
<1>3. remaining \in [Procs -> Times]
  BY DEF Inv, TypeOK
<1>4. CASE q # p
  <2>1. remaining'[q] = remaining[q]
    BY <1>1, <1>3, <1>4
  <2> QED BY <1>1, <1>2, <1>4, <2>1, OthersService
<1>5. CASE q = p
  <2>1. remaining'[p] = remaining[p] - Ran(c)
    BY <1>1, <1>2, <1>3
  <2>2. p \notin blocked' \cup Completed' \cup OnCore'
    <3>1. p \in OnCore
      BY <1>p, <1>1, EndRunFacts
    <3>2. p \notin blocked \cup Completed
      BY <3>1 DEF Inv, OnePlace
    <3> QED BY <1>1, <1>2, <3>2 DEF Completed
  <2>3. Resumes(p)' = now /\ SliceStart(p)' = -1
    BY <1>1, <1>2, <2>2, EdgeFactsNext DEF EdgesKnown
  <2> QED BY <1>1, <1>2, <1>5, <2>1, <2>3, StandsNext
<1> QED
  BY <1>4, <1>5

LEMMA BlockService ==
    ASSUME Inv, Inv', TimelineInv, ServiceInv, NEW c \in Cores, SliceBlocks(c)
    PROVE  log'.fail = "ok" => \A p \in Procs : Standing(p)'
<1> SUFFICES ASSUME log'.fail = "ok", NEW q \in Procs PROVE Standing(q)'
  OBVIOUS
<1>p. PICK p : p = core[c].proc
  OBVIOUS
<1> DEFINE io == w.phases[p][phase[p] + 1]
           cpu == w.phases[p][phase[p] + 2]
<1>1. /\ EndRun(c) /\ BurstOver(c) /\ ~LastPhase(p)
      /\ remaining' = [remaining EXCEPT ![p] = cpu]
      /\ wake' = [wake EXCEPT ![p] = AddTime(now, io)]
      /\ phase' = [phase EXCEPT ![p] = phase[p] + 2]
      /\ blocked' = blocked \cup {p}
      /\ UNCHANGED <<w, now, pending, outcome>>
  BY <1>p DEF SliceBlocks, Block, EndRun
<1>2. PICK l \in LogRun(c) : log' = NoteOverflow(l, now, io)
  BY <1>p DEF SliceBlocks, Block
<1>3. l \in Logs /\ l.fail = "ok" /\ log' = l /\ ~(now + io > MaxTime)
  <2>1. l \in Logs
    BY <1>1, LogRunType DEF EndRun
  <2>2. log' = IF now + io > MaxTime THEN [l EXCEPT !.fail = "overflow"] ELSE l
    BY <1>2 DEF NoteOverflow
  <2>3. ~(now + io > MaxTime)
    BY <2>1, <2>2 DEF Logs
  <2> QED BY <2>1, <2>2, <2>3
<1>4. /\ log.fail = "ok" /\ p \in Procs /\ w.arrival[p] <= now /\ now \in Times
      /\ outcome[p].completion < 0
      /\ Stands(p, log', now, remaining[p] - Ran(c), phase[p], outcome[p], -1)
      /\ now - 1 \in Ticks(log', p, {"run"})
      /\ \A r \in Procs \ {p} :
           /\ Untouched(r, log, log')
           /\ \A d \in Cores : core[d].proc = r \/ core'[d].proc = r => core'[d] = core[d]
  BY <1>p, <1>1, <1>2, <1>3, EndRunService
<1>5. /\ remaining \in [Procs -> Times] /\ phase \in [Procs -> Nat \ {0}]
      /\ wake \in [Procs -> Times] /\ remaining[p] = Ran(c)
  BY <1>p, <1>1 DEF Inv, TypeOK, BurstOver
<1>6. CASE q # p
  <2>1. /\ remaining'[q] = remaining[q] /\ phase'[q] = phase[q] /\ wake'[q] = wake[q]
        /\ q \in blocked' <=> q \in blocked
    BY <1>1, <1>5, <1>6
  <2> QED BY <1>1, <1>4, <1>6, <2>1, OthersService
<1>7. CASE q = p
  <2>1. /\ remaining'[p] = cpu /\ phase'[p] = phase[p] + 2 /\ wake'[p] = now + io
        /\ p \in blocked'
    BY <1>1, <1>3, <1>4, <1>5 DEF AddTime
  <2>2. Resumes(p)' = now + io /\ SliceStart(p)' = -1
    BY <2>1, EdgeFactsNext DEF EdgesKnown
  <2>3. /\ w \in Workloads /\ phase[p] \in Nat /\ IsOdd(phase[p]) /\ outcome[p] \in Outcomes
        /\ w.arrival[p] \in Nat /\ remaining[p] \in Nat
    BY <1>4, ProcessTypes
  <2>4. phase[p] + 2 <= Len(w.phases[p])
    <3>1. phase'[p] <= Len(w'.phases[p])
      BY <1>4 DEF Inv, TypeOK
    <3> QED BY <1>1, <2>1, <3>1
  <2>5. Stands(p, log', now, 0, phase[p], outcome[p], -1)
    <3>1. remaining[p] - Ran(c) = 0
      BY <1>5, <2>3
    <3> QED BY <1>4, <3>1
  <2>6. Stands(p, log', now + io, cpu, phase[p] + 2, outcome[p], -1)
    <3>1. PICK f : f = now + io
      OBVIOUS
    <3>2. Stands(p, log', f, cpu, phase[p] + 2, outcome[p], -1)
      BY <1>4, <2>3, <2>4, <2>5, <3>1, BlockStands
    <3> QED BY <3>1, <3>2
  <2>7. w.arrival[p] <= now + io
    <3>1. io \in Nat
      <4>1. Len(w.phases[p]) \in Nat /\ \A i \in 1..Len(w.phases[p]) : w.phases[p][i] \in Nat
        BY <1>4, <2>3, PhaseFacts
      <4>2. phase[p] + 1 \in 1..Len(w.phases[p])
        BY <2>3, <2>4, <4>1
      <4> QED BY <4>1, <4>2
    <3> HIDE DEF io
    <3> QED BY <1>4, <2>3, <3>1 DEF Times
  <2> HIDE DEF io, cpu
  <2> QED BY <1>1, <1>7, <2>1, <2>2, <2>6, <2>7, StandsNext
<1> QED
  BY <1>6, <1>7

LEMMA CloseService ==
    ASSUME Inv, Inv', TimelineInv, ServiceInv, CloseTimeline
    PROVE  log'.fail = "ok" => \A p \in Procs : Standing(p)'
<1> DEFINE c == closed + 1
           g == Segment(core[c].freeSince, now, None, "idle")
<1>1. /\ log' \in AppendSegment(log, c, g)
      /\ UNCHANGED <<w, now, pending, blocked, remaining, phase, wake, core, outcome>>
  BY DEF CloseTimeline, procVars
<1>2. c \in Cores /\ log \in Logs /\ now \in Times /\ core \in [Cores -> CoreStructs]
  BY EngineAssumption DEF CloseTimeline, Inv, TypeOK, Cores
<1> HIDE DEF c
<1>3. g \in Segments /\ g.proc = None
  BY <1>2 DEF Segment, Segments, CoreStructs
<1> HIDE DEF g
<1>4. log'.fail = "ok" => log.fail = "ok" /\ \A p \in Procs : Untouched(p, log, log')
  <2> SUFFICES ASSUME log'.fail = "ok"
               PROVE  log.fail = "ok" /\ \A p \in Procs : Untouched(p, log, log')
    OBVIOUS
  <2>1. log.fail = "ok"
    BY <1>1, <1>2, <1>3, AppendKinds
  <2>2. ASSUME NEW p \in Procs PROVE Untouched(p, log, log')
    <3>1. WellMade(log.timelines[c]) /\ g.proc # p
      BY <1>2, <1>3, EngineAssumption DEF TimelineInv
    <3> QED BY <1>1, <1>2, <1>3, <3>1, OthersSegment
  <2> QED BY <2>1, <2>2
<1> QED
  BY <1>1, <1>4, QuietService

LEMMA StandingStep ==
    ASSUME Inv, Inv', TimelineInv, ServiceInv, [Next]_vars
    PROVE  log'.fail = "ok" => \A p \in Procs : Standing(p)'
<1>0. core \in [Cores -> CoreStructs] /\ \A p \in Procs : Untouched(p, log, log)
  BY DEF Inv, TypeOK, Untouched
<1>1. CASE \E p \in Procs : Arrive(p)
  <2>1. PICK q \in Procs : Arrive(q)
    BY <1>1
  <2>2. /\ pending' = pending \ {q} /\ w.arrival[q] <= now
        /\ UNCHANGED <<w, now, remaining, phase, wake, blocked, outcome, log, core>>
    BY <2>1 DEF Arrive, Admit, Arrived, procVars, resultVars
  <2> QED BY <1>0, <2>2, QuietService
<1>2. CASE \E p \in Procs : BecomeReady(p)
  BY <1>2, WakeUpService
<1>3. CASE \E c \in Cores : SliceCompletes(c) \/ SliceBlocks(c) \/ SlicePreempted(c)
  BY <1>3, CompleteService, BlockService, PreemptService
<1>4. CASE \/ (\E p \in ready : \E s \in SlicesFor(p) : NextSlice(s))
           \/ PicksDone \/ PlacesDone \/ Create \/ ArrivalsDone
           \/ WakeupsDone \/ SwitchInsDone \/ InstantDone
           \/ Reject \/ UNCHANGED vars \/ Terminated
  <2>1. UNCHANGED <<w, now, pending, remaining, phase, wake, blocked, outcome, log, core>>
    BY <1>4
       DEF NextSlice, Pick, PicksDone, PlacesDone, Create, ArrivalsDone, WakeupsDone,
           SwitchInsDone, InstantDone, Reject, Terminated, vars, engineVars, procVars, resultVars
  <2> QED BY <1>0, <2>1, QuietService
<1>5. CASE EndsDone
  <2>1. \A c \in Cores :
          /\ core'[c].proc = core[c].proc /\ core'[c].inCs = core[c].inCs
          /\ core'[c].busyUntil = core[c].busyUntil /\ core'[c].runStart = core[c].runStart
    <3> TAKE c \in Cores
    <3>1. core'[c] = core[c] \/ core'[c] = [core[c] EXCEPT !.recheck = TRUE]
      BY <1>5 DEF EndsDone
    <3> QED BY <1>0, <3>1 DEF CoreStructs
  <2>2. UNCHANGED <<w, now, pending, remaining, phase, wake, blocked, outcome, log>>
    BY <1>5 DEF EndsDone, procVars, resultVars
  <2> QED BY <1>0, <2>1, <2>2, QuietService
<1>6. CASE \E c \in Cores : SwitchIn(c)
  BY <1>6, SwitchInService
<1>7. CASE \E c \in Cores, i \in DOMAIN picks : Place(i, c)
  BY <1>7, PlaceService
<1>8. CASE Advance
  BY <1>8, AdvanceService
<1>9. CASE CloseTimeline
  BY <1>9, CloseService
<1>10. CASE Return
  <2>1. CASE log.fail = "ok"
    <3>1. UNCHANGED <<w, now, pending, remaining, phase, wake, blocked, outcome, log, core>>
      BY <1>10, <2>1 DEF Return, procVars
    <3> QED BY <1>0, <3>1, QuietService
  <2>2. CASE log.fail # "ok"
    BY <1>10, <2>2 DEF Return, Inv, TypeOK, Logs
  <2> QED BY <2>1, <2>2
<1> QED
  BY <1>1, <1>2, <1>3, <1>4, <1>5, <1>6, <1>7, <1>8, <1>9, <1>10
     DEF Next, StopPicking, EngineStep

LEMMA StatusStep ==
    ASSUME Inv, TimelineInv, ServiceInv, [Next]_vars
    PROVE  status' = "ok" => log'.fail = "ok" /\ Completed' = Procs
<1>1. CASE Return
  <2>1. /\ stage = "finish" /\ status' = StatusOf(log.fail)
        /\ log.fail = "ok" => UNCHANGED <<outcome, log>>
    BY <1>1 DEF Return
  <2>2. log.fail \in {"ok", "nomem", "limit", "overflow"}
    BY DEF Inv, TypeOK, Logs
  <2>3. status' = "ok" => log.fail = "ok"
    BY <2>1, <2>2 DEF StatusOf
  <2>4. log.fail = "ok" => Completed = Procs
    BY <2>1 DEF TimelineInv, Spans
  <2> QED BY <2>1, <2>3, <2>4 DEF Completed
<1>2. CASE UNCHANGED vars \/ Terminated
  <2>1. UNCHANGED <<status, log, outcome>>
    BY <1>2 DEF vars, engineVars, resultVars, Terminated
  <2> QED BY <2>1 DEF ServiceInv, Completed
<1>3. CASE Reject
  BY <1>3 DEF Reject
<1>4. CASE stage # "done" /\ status' = status
  BY <1>4 DEF TimelineInv
<1>5. CASE \E p \in Procs : Arrive(p) \/ BecomeReady(p)
  BY <1>4, <1>5 DEF Arrive, Admit, BecomeReady, WakeUp, resultVars
<1>6. CASE \E c \in Cores : SliceCompletes(c) \/ SliceBlocks(c) \/ SlicePreempted(c)
  BY <1>4, <1>6 DEF SliceCompletes, SliceBlocks, SlicePreempted, Complete, Block, Preempt, EndRun,
                    SliceEnds
<1>7. CASE \E p \in ready : \E s \in SlicesFor(p) : NextSlice(s)
  BY <1>4, <1>7 DEF NextSlice, Pick, WantsPick, resultVars
<1>8. CASE StopPicking \/ (EngineStep /\ ~(Return \/ Reject \/ Terminated))
  BY <1>4, <1>8
     DEF StopPicking, EngineStep, PicksDone, PlacesDone, Create, ArrivalsDone, WakeupsDone, EndsDone,
         SwitchInsDone, InstantDone, SwitchIn, Place, Advance, CloseTimeline, resultVars
<1> QED
  BY <1>1, <1>2, <1>3, <1>5, <1>6, <1>7, <1>8 DEF Next, EngineStep

LEMMA ServiceInvariant == Spec => [](Inv /\ TimelineInv /\ ServiceInv)
<1>1. Inv /\ TimelineInv /\ ServiceInv /\ [Next]_vars => Inv' /\ ServiceInv'
  <2> SUFFICES ASSUME Inv, TimelineInv, ServiceInv, [Next]_vars PROVE Inv' /\ ServiceInv'
    OBVIOUS
  <2>1. Inv'
    BY NextInv
  <2> QED BY <2>1, StandingStep, StatusStep DEF ServiceInv
<1> QED
  BY <1>1, InitInv, InitService, TimelineInvariant, PTL DEF Spec

-----------------------------------------------------------------------------
(* Reading the timelines of a finished schedule                            *)

LEMMA SegmentsInOrder ==
    ASSUME NEW t \in Seq(Segments), WellMade(t), NEW i \in DOMAIN t, NEW j \in DOMAIN t, i < j
    PROVE  t[i].end <= t[j].start
<1> DEFINE Bad == {m \in (i + 1)..Len(t) : ~(t[i].end <= t[m].start)}
<1> SUFFICES ASSUME j \in Bad PROVE FALSE
  OBVIOUS
<1>1. /\ DOMAIN t = 1..Len(t) /\ Len(t) \in Nat /\ i \in Nat /\ 1 <= i
      /\ \A m \in 1..Len(t) : t[m] \in Segments
  BY ElementOfSeq
<1>2. \A m \in 1..Len(t) : t[m].start \in Int /\ t[m].end \in Int /\ t[m].start < t[m].end
  <2>1. \A g \in Segments : g.start \in Int /\ g.end \in Int
    BY DEF Segments, Times
  <2>2. \A m \in 1..Len(t) : t[m].start < t[m].end
    BY <1>1 DEF WellMade
  <2> QED BY <1>1, <2>1, <2>2
<1>3. Bad \subseteq Nat /\ IsFiniteSet(Bad) /\ Bad # {}
  <2>1. IsFiniteSet((i + 1)..Len(t)) /\ Bad \subseteq (i + 1)..Len(t)
    <3>1. i + 1 \in Int /\ Len(t) \in Int
      BY <1>1
    <3>2. IsFiniteSet((i + 1)..Len(t))
      BY <3>1, FS_Interval
    <3> QED BY <3>2
  <2>2. IsFiniteSet(Bad)
    BY <2>1, FS_Subset
  <2> QED BY <1>1, <2>1, <2>2
<1>4. PICK m \in Bad : \A y \in Bad \ {m} : m < y
  <2> DEFINE k == [x \in Bad |-> x]
  <2>1. k \in [Bad -> Int] /\ \A x \in Bad : k[x] = x
    BY <1>3
  <2> HIDE DEF k, Bad
  <2>2. \E x \in Bad : \A y \in Bad \ {x} :
           \/ k[x] < k[y]
           \/ k[x] = k[y] /\ k[x] < k[y]
           \/ k[x] = k[y] /\ k[x] = k[y] /\ x < y
    BY <1>3, <2>1, KeyedLeastExists
  <2> QED BY <2>1, <2>2
<1>5. m \in (i + 1)..Len(t) /\ ~(t[i].end <= t[m].start)
  OBVIOUS
<1>6. m - 1 \in 1..(Len(t) - 1) /\ m - 1 >= i /\ m - 1 + 1 = m /\ m - 1 \in Nat /\ m \in 1..Len(t)
  BY <1>1, <1>5
<1>7. t[m - 1].end = t[m].start
  BY <1>6 DEF WellMade
<1>8. m - 1 # i
  BY <1>1, <1>2, <1>5, <1>6, <1>7
<1>9. t[i].end <= t[m - 1].start
  <2>1. m - 1 \in (i + 1)..Len(t) /\ m - 1 # m /\ ~(m < m - 1)
    BY <1>1, <1>6, <1>8
  <2>2. m - 1 \notin Bad
    BY <1>4, <2>1
  <2> QED BY <2>1, <2>2
<1> HIDE DEF Bad
<1>10. m - 1 \in 1..Len(t) /\ i \in 1..Len(t)
  BY <1>1, <1>6
<1> QED
  BY <1>2, <1>5, <1>6, <1>7, <1>9, <1>10

LEMMA SegmentsMember ==
    ASSUME NEW p, NEW k, NEW x
    PROVE  x \in SegmentsOf(p, k) <=>
             \E c \in Cores : \E i \in DOMAIN log.timelines[c] :
               /\ x = <<c, log.timelines[c][i]>>
               /\ log.timelines[c][i].proc = p /\ log.timelines[c][i].kind = k
BY DEF SegmentsOf, ToSet

LEMMA TicksRead ==
    ASSUME Inv, NEW p, NEW k
    PROVE  TicksOf(p, k) = Ticks(log, p, {k})
<1>1. \A c \in Cores : \A i \in DOMAIN log.timelines[c] :
        Covers(log.timelines[c][i]) =
          log.timelines[c][i].start .. (log.timelines[c][i].end - 1)
  <2> TAKE c \in Cores
  <2> TAKE i \in DOMAIN log.timelines[c]
  <2>1. log.timelines[c] \in Seq(Segments)
    BY DEF Inv, TypeOK, Logs
  <2>2. log.timelines[c][i] \in Segments
    BY <2>1, ElementOfSeq
  <2> QED BY <2>2, EngineAssumption DEF Covers, Segments, Times
<1>2. ASSUME NEW x \in TicksOf(p, k) PROVE x \in Ticks(log, p, {k})
  <2>1. PICK y \in SegmentsOf(p, k) : x \in y[2].start .. (y[2].end - 1)
    BY DEF TicksOf
  <2>2. PICK c \in Cores : \E i \in DOMAIN log.timelines[c] :
          /\ y = <<c, log.timelines[c][i]>>
          /\ log.timelines[c][i].proc = p /\ log.timelines[c][i].kind = k
    BY SegmentsMember
  <2>3. PICK i \in DOMAIN log.timelines[c] :
          /\ y = <<c, log.timelines[c][i]>>
          /\ log.timelines[c][i].proc = p /\ log.timelines[c][i].kind = k
    BY <2>2
  <2>4. y[2] = log.timelines[c][i]
    BY <2>3
  <2>5. x \in Covers(log.timelines[c][i])
    BY <1>1, <2>1, <2>4
  <2>6. x \in On(log, c, p, {k})
    BY <2>3, <2>5 DEF On
  <2> QED BY <2>6 DEF Ticks
<1>3. ASSUME NEW x \in Ticks(log, p, {k}) PROVE x \in TicksOf(p, k)
  <2>1. PICK c \in Cores : x \in On(log, c, p, {k})
    BY DEF Ticks
  <2>2. PICK i \in DOMAIN log.timelines[c] :
          /\ log.timelines[c][i].proc = p /\ log.timelines[c][i].kind = k
          /\ x \in Covers(log.timelines[c][i])
    BY <2>1 DEF On
  <2>3. PICK y : y = <<c, log.timelines[c][i]>>
    OBVIOUS
  <2>4. y \in SegmentsOf(p, k)
    BY <2>2, <2>3, SegmentsMember
  <2>5. y[2] = log.timelines[c][i]
    BY <2>3
  <2>6. x \in y[2].start .. (y[2].end - 1)
    BY <1>1, <2>2, <2>5
  <2> QED BY <2>4, <2>6 DEF TicksOf
<1> QED
  BY <1>2, <1>3

\* two segments of a process do not overlap, on whatever cores they are
LEMMA SegmentsApart ==
    ASSUME Inv, TimelineInv, NEW p,
           \A c, d \in Cores : c # d =>
              On(log, c, p, CpuKinds) \cap On(log, d, p, CpuKinds) = {},
           NEW x \in SegmentsOf(p, "run") \cup SegmentsOf(p, "cs"),
           NEW y \in SegmentsOf(p, "run") \cup SegmentsOf(p, "cs"), x # y
    PROVE  x[2].end <= y[2].start \/ y[2].end <= x[2].start
<1>0. \A c \in Cores : /\ log.timelines[c] \in Seq(Segments) /\ WellMade(log.timelines[c])
                       /\ DOMAIN log.timelines[c] \subseteq Nat
  <2> TAKE c \in Cores
  <2>1. log.timelines[c] \in Seq(Segments)
    BY DEF Inv, TypeOK, Logs
  <2> QED BY <2>1 DEF TimelineInv
<1>1. PICK c \in Cores : \E i \in DOMAIN log.timelines[c] :
         /\ x = <<c, log.timelines[c][i]>>
         /\ log.timelines[c][i].proc = p /\ log.timelines[c][i].kind \in CpuKinds
  BY SegmentsMember DEF CpuKinds
<1>2. PICK i \in DOMAIN log.timelines[c] :
         /\ x = <<c, log.timelines[c][i]>>
         /\ log.timelines[c][i].proc = p /\ log.timelines[c][i].kind \in CpuKinds
  BY <1>1
<1>3. PICK d \in Cores : \E j \in DOMAIN log.timelines[d] :
         /\ y = <<d, log.timelines[d][j]>>
         /\ log.timelines[d][j].proc = p /\ log.timelines[d][j].kind \in CpuKinds
  BY SegmentsMember DEF CpuKinds
<1>4. PICK j \in DOMAIN log.timelines[d] :
         /\ y = <<d, log.timelines[d][j]>>
         /\ log.timelines[d][j].proc = p /\ log.timelines[d][j].kind \in CpuKinds
  BY <1>3
<1>5. CASE c = d
  <2>1. i # j /\ i \in Nat /\ j \in Nat
    BY <1>0, <1>2, <1>4, <1>5
  <2>2. i < j => log.timelines[c][i].end <= log.timelines[c][j].start
    BY <1>0, <1>5, SegmentsInOrder
  <2>3. j < i => log.timelines[c][j].end <= log.timelines[c][i].start
    BY <1>0, <1>5, SegmentsInOrder
  <2> QED BY <1>2, <1>4, <1>5, <2>1, <2>2, <2>3
<1>6. CASE c # d
  <2> DEFINE g == log.timelines[c][i]
             h == log.timelines[d][j]
  <2>1. g \in Segments /\ h \in Segments /\ g.start < g.end /\ h.start < h.end
    BY <1>0, ElementOfSeq DEF WellMade
  <2>2. \A u \in Times : ~(g.start <= u /\ u < g.end /\ h.start <= u /\ u < h.end)
    <3> TAKE u \in Times
    <3>1. g.start <= u /\ u < g.end => u \in On(log, c, p, CpuKinds)
      BY <1>2, OnMember
    <3>2. h.start <= u /\ u < h.end => u \in On(log, d, p, CpuKinds)
      BY <1>4, OnMember
    <3> QED BY <1>6, <3>1, <3>2
  <2> DEFINE a == g.start
             b == g.end
             e == h.start
             f == h.end
  <2>3. a \in Times /\ b \in Times /\ e \in Times /\ f \in Times /\ a < b /\ e < f
    BY <2>1 DEF Segments
  <2>4. ~(a <= a /\ a < b /\ e <= a /\ a < f) /\ ~(a <= e /\ e < b /\ e <= e /\ e < f)
    BY <2>2, <2>3
  <2> HIDE DEF a, b, e, f
  <2>5. b <= e \/ f <= a
    BY <2>3, <2>4 DEF Times
  <2>6. g.end <= h.start \/ h.end <= g.start
    BY <2>5 DEF a, b, e, f
  <2> QED BY <1>2, <1>4, <2>6
<1> QED
  BY <1>5, <1>6

\* at most one tick of p has a given rank among those it ran
LEMMA RanksDiffer ==
    ASSUME NEW l, NEW p, NEW s \in Ticks(l, p, {"run"}), NEW t \in Ticks(l, p, {"run"}),
           Cardinality(By(l, p, s)) = Cardinality(By(l, p, t))
    PROVE  s = t
<1>1. /\ Ticks(l, p, {"run"}) \subseteq Times /\ IsFiniteSet(Ticks(l, p, {"run"}))
      /\ s \in Int /\ t \in Int
  BY OnCores DEF Times
<1>2. ASSUME NEW u \in Ticks(l, p, {"run"}), NEW v \in Ticks(l, p, {"run"}), u < v
      PROVE  Cardinality(By(l, p, u)) # Cardinality(By(l, p, v))
  <2>1. By(l, p, u) \subseteq By(l, p, v) /\ v \in By(l, p, v) /\ v \notin By(l, p, u)
    BY <1>1, <1>2 DEF By, Times
  <2>2. IsFiniteSet(By(l, p, v))
    BY <1>1, FS_Subset DEF By
  <2> QED BY <2>1, <2>2, FS_Subset
<1> QED
  BY <1>1, <1>2

\* what an outside observer of the result finds for one process
LEMMA ServedOne ==
    ASSUME Inv, TimelineInv, ServiceInv, status = "ok", NEW p \in Procs
    PROVE  LET segs == SegmentsOf(p, "run") \cup SegmentsOf(p, "cs")
               run == TicksOf(p, "run") IN
           /\ Cardinality(run) = TotalCpu(p)
           /\ \A x, y \in segs : x # y => x[2].end <= y[2].start \/ y[2].end <= x[2].start
           /\ run \cup TicksOf(p, "cs") \subseteq Resident(p) \ IoTicks(p)
           /\ outcome[p].start \in run /\ \A t \in run : outcome[p].start <= t
           /\ outcome[p].completion - 1 \in run
<1> DEFINE run == Ticks(log, p, {"run"})
           cpu == Ticks(log, p, CpuKinds)
           e == outcome[p].completion
<1>1. /\ p \in Completed /\ Standing(p) /\ Resumes(p) = e /\ SliceStart(p) = -1
      /\ e >= 0
  <2>1. p \in Completed /\ Standing(p)
    BY DEF ServiceInv
  <2> QED BY <2>1, EdgeFacts DEF EdgesKnown, Completed
<1>2. Stands(p, log, e, remaining[p], phase[p], outcome[p], -1)
  BY <1>1 DEF Standing
<1>3. /\ phase[p] = Len(w.phases[p]) /\ remaining[p] = 0 /\ e - 1 \in run
      /\ \A x \in cpu : w.arrival[p] <= x /\ x < e
      /\ \A c, d \in Cores : c # d =>
           On(log, c, p, CpuKinds) \cap On(log, d, p, CpuKinds) = {}
      /\ Cardinality(run) + remaining[p] = CpuUpTo(p, (phase[p] + 1) \div 2)
  BY <1>1, <1>2 DEF Stands
<1>4. /\ TicksOf(p, "run") = run /\ run \cup TicksOf(p, "cs") = cpu
      /\ IsFiniteSet(run) /\ run \subseteq Times /\ cpu \subseteq Times
  <2>1. TicksOf(p, "run") = run /\ TicksOf(p, "cs") = Ticks(log, p, {"cs"})
    BY TicksRead
  <2>2. run \cup Ticks(log, p, {"cs"}) = cpu
    BY DEF Ticks, On, CpuKinds
  <2>3. IsFiniteSet(run) /\ run \subseteq Times /\ cpu \subseteq Times
    BY OnCores
  <2> QED BY <2>1, <2>2, <2>3
<1>5. Cardinality(run) = TotalCpu(p)
  <2>1. Cardinality(run) \in Nat
    BY <1>4, FS_CardinalityType
  <2>2. Cardinality(run) + 0 = TotalCpu(p)
    BY <1>3 DEF TotalCpu, NumBursts
  <2> HIDE DEF run
  <2> QED BY <2>1, <2>2
<1>6. \A x, y \in SegmentsOf(p, "run") \cup SegmentsOf(p, "cs") :
        x # y => x[2].end <= y[2].start \/ y[2].end <= x[2].start
  BY <1>3, SegmentsApart
<1>7. e \in Int /\ w.arrival[p] \in Nat /\ phase[p] \in Nat /\ outcome[p] \in Outcomes
      /\ \A k \in Nat \ {0} : 2 * k < phase[p] => IoOf(p, k) \in Nat
  BY <1>1, ProcessTypes DEF Outcomes, Times
<1>8. \A x \in cpu : x \in Resident(p)
  <2> TAKE x \in cpu
  <2>1. x \in Int /\ w.arrival[p] <= x /\ x < e
    BY <1>3, <1>4 DEF Times
  <2> HIDE DEF e
  <2>2. x \in w.arrival[p] .. (e - 1)
    BY <1>7, <2>1
  <2> QED BY <2>2 DEF Resident, e
<1>9. ASSUME NEW x \in cpu, NEW k \in 1..(NumBursts(p) - 1)
      PROVE  x \notin BurstEnd(p, k) .. (BurstEnd(p, k) + IoOf(p, k) - 1)
  <2>1. k \in Nat \ {0} /\ 2 * k < phase[p]
    <3>1. NumBursts(p) \in Nat /\ Len(w.phases[p]) = 2 * NumBursts(p) - 1
      BY PhaseFacts, ProcessTypes
    <3> QED BY <1>3, <3>1
  <2>2. PICK t \in run : /\ Cardinality(By(log, p, t)) = CpuUpTo(p, k)
                         /\ t + 1 + IoOf(p, k) <= e
                         /\ \A u \in cpu : u <= t \/ t + 1 + IoOf(p, k) <= u
    BY <1>2, <2>1 DEF Stands
  <2>3. \A u : RunBy(p, u) = Cardinality(By(log, p, u))
    BY <1>4 DEF RunBy, By
  <2>4. \A u \in run : RunBy(p, u) = CpuUpTo(p, k) => u = t
    BY <2>2, <2>3, RanksDiffer
  <2>5. (CHOOSE u \in TicksOf(p, "run") : RunBy(p, u) = CpuUpTo(p, k)) = t
    BY <1>4, <2>2, <2>3, <2>4
  <2>6. BurstEnd(p, k) = 1 + t
    BY <2>5 DEF BurstEnd
  <2>7. x \in Int /\ t \in Int /\ IoOf(p, k) \in Nat /\ (x <= t \/ t + 1 + IoOf(p, k) <= x)
    BY <1>4, <1>7, <2>1, <2>2 DEF Times
  <2>8. x \notin (1 + t) .. (1 + t + IoOf(p, k) - 1)
    BY <2>7
  <2> QED BY <2>6, <2>8
<1>10. run \cup TicksOf(p, "cs") \subseteq Resident(p) \ IoTicks(p)
  BY <1>4, <1>8, <1>9 DEF IoTicks
<1>11. outcome[p].start \in run /\ \A t \in run : outcome[p].start <= t
  <2>1. ~(outcome[p].start < 0)
    BY <1>2, <1>3 DEF Stands
  <2>2. outcome[p].start >= 0 /\ outcome[p].start # -1
    BY <1>7, <2>1 DEF Outcomes, Times
  <2> QED BY <1>2, <2>2 DEF Stands
<1> QED
  BY <1>3, <1>4, <1>5, <1>6, <1>10, <1>11

(* In every finished schedule, of any policy that follows the protocol, a  *)
(* process gets exactly the CPU time of its bursts, on one core at a time, *)
(* between its arrival and its completion and never during its own I/O,    *)
(* however often it was preempted, blocked or switched between cores.      *)
THEOREM ServedExactlyHolds == Spec => []ServedExactly
<1>1. Inv /\ TimelineInv /\ ServiceInv => ServedExactly
  BY ServedOne DEF ServedExactly, Finished
<1> QED
  BY <1>1, ServiceInvariant, PTL

-----------------------------------------------------------------------------
(* Idle cores: the invariant                                               *)

\* the ticks in which core c has had nothing to do
IdleSoFar(c) ==
    On(log, c, None, {"idle"})
    \cup {x \in Times : Free(c) /\ core[c].freeSince <= x /\ x < now}

OnCpu(p, x) ==
    \/ x \in Ticks(log, p, CpuKinds)
    \/ \E c \in Running : core[c].proc = p /\ core[c].runStart <= x

\* t is the last tick of the k-th burst of p, which is over
LastTick(p, k, t) ==
    /\ 2 * k < phase[p] /\ t \in Ticks(log, p, {"run"})
    /\ Cardinality(By(log, p, t)) = CpuUpTo(p, k)
InIo(p, x) ==
    \E k \in Nat \ {0}, t \in Times : LastTick(p, k, t) /\ t < x /\ x <= t + IoOf(p, k)

NotReady(p, x) ==
    x < w.arrival[p] \/ OnCpu(p, x) \/ InIo(p, x)
    \/ (p \in Completed /\ outcome[p].completion <= x)

\* a switch-in is in the log up to its end; an I/O began where a burst ended
CsLogged(c) ==
    \A x \in Times : now <= x /\ x < core[c].busyUntil => x \in Ticks(log, core[c].proc, CpuKinds)
IoKnown(p) ==
    \E k \in Nat \ {0}, t \in Times :
        LastTick(p, k, t) /\ t < now /\ wake[p] = t + 1 + IoOf(p, k)

IdleLog ==
    /\ \A c \in Cores, p \in Procs : \A x \in IdleSoFar(c) : x < now /\ NotReady(p, x)
    /\ \A c \in Busy : core[c].inCs => CsLogged(c)
    /\ \A p \in blocked : IoKnown(p)
    /\ \A p \in Completed : outcome[p].completion <= now

\* dispatch leaves no core free while the ready set has a process
Offered ==
    /\ stage = "place" => ready = {} \/ Cardinality(FreeCores) <= Len(picks)
    /\ stage = "advance" => ready = {} \/ FreeCores = {}

IdleInv == Offered /\ (log.fail = "ok" => IdleLog)

-----------------------------------------------------------------------------
(* Steps that take no time                                                 *)

\* log m has the ticks of p that log has, and the same ranks for them
Grows(p, m) ==
    /\ Ticks(log, p, CpuKinds) \subseteq Ticks(m, p, CpuKinds)
    /\ \A t \in Ticks(log, p, {"run"}) : t \in Ticks(m, p, {"run"}) /\ By(m, p, t) = By(log, p, t)

LEMMA UntouchedGrows ==
    ASSUME NEW p, NEW m, Untouched(p, log, m)
    PROVE  Grows(p, m)
<1>1. \A K : Ticks(m, p, K) = Ticks(log, p, K)
  BY DEF Untouched, Ticks
<1> QED
  BY <1>1 DEF Grows, By

LEMMA LastTickKept ==
    ASSUME Inv, Inv', w' = w, NEW p \in Procs, Grows(p, log'), phase[p] <= phase'[p],
           NEW k \in Nat \ {0}, NEW t, LastTick(p, k, t)
    PROVE  LastTick(p, k, t)' /\ IoOf(p, k)' = IoOf(p, k)
<1>1. t \in Ticks(log', p, {"run"}) /\ By(log', p, t) = By(log, p, t)
  BY DEF LastTick, Grows
<1>2. 2 * k < phase'[p]
  <2>1. phase[p] \in Nat /\ phase'[p] \in Nat
    BY DEF Inv, TypeOK
  <2> QED BY <2>1 DEF LastTick
<1>3. CpuUpTo(p, k)' = CpuUpTo(p, k) /\ IoOf(p, k)' = IoOf(p, k)
  BY DEF CpuUpTo, Bursts, CpuOf, NumBursts, IoOf
<1>4. Cardinality(By(log', p, t)) = CpuUpTo(p, k)
  BY <1>1 DEF LastTick
<1> QED
  BY <1>1, <1>2, <1>3, <1>4 DEF LastTick, By, Ticks, On, Covers

(* A step at the instant `now': the log keeps what it has, a slice goes on *)
(* or is logged, and nobody is idle who was not.                           *)
LEMMA IdleKept ==
    ASSUME Inv, Inv', IdleLog, w' = w, now' = now,
           \A p \in Procs : Grows(p, log') /\ phase[p] <= phase'[p],
           \A p \in Completed : p \in Completed' /\ outcome'[p] = outcome[p],
           \A p \in Completed' : p \in Completed \/ outcome'[p].completion <= now,
           \A c \in Running, p \in Procs, x \in Times :
              core[c].proc = p /\ core[c].runStart <= x /\ x < now => OnCpu(p, x)',
           \A c \in Cores : IdleSoFar(c)' \subseteq IdleSoFar(c),
           \A c \in Busy' : core'[c].inCs =>
              \/ CsLogged(c)'
              \/ /\ c \in Busy /\ core[c].inCs
                 /\ core'[c].proc = core[c].proc /\ core'[c].busyUntil = core[c].busyUntil,
           \A p \in blocked' : IoKnown(p)' \/ (p \in blocked /\ wake'[p] = wake[p])
    PROVE  IdleLog'
<1>1. ASSUME NEW c \in Cores, NEW p \in Procs, NEW x \in IdleSoFar(c)'
      PROVE  x < now' /\ NotReady(p, x)'
  <2>1. x \in IdleSoFar(c) /\ x < now /\ NotReady(p, x) /\ x \in Times
    BY <1>1 DEF IdleLog, IdleSoFar, On, Covers
  <2>2. CASE x < w.arrival[p]
    BY <2>1, <2>2 DEF NotReady
  <2>3. CASE x \in Ticks(log, p, CpuKinds)
    <3>1. x \in Ticks(log', p, CpuKinds)
      BY <2>3 DEF Grows
    <3>2. OnCpu(p, x)'
      BY <3>1 DEF OnCpu, Ticks, On, Covers
    <3> QED BY <2>1, <3>2 DEF NotReady
  <2>4. CASE \E d \in Running : core[d].proc = p /\ core[d].runStart <= x
    <3>1. OnCpu(p, x)'
      BY <2>1, <2>4
    <3> QED BY <2>1, <3>1 DEF NotReady
  <2>5. CASE InIo(p, x)
    <3>1. PICK k \in Nat \ {0}, t \in Times : LastTick(p, k, t) /\ t < x /\ x <= t + IoOf(p, k)
      BY <2>5 DEF InIo
    <3>2. LastTick(p, k, t)' /\ IoOf(p, k)' = IoOf(p, k)
      BY <3>1, LastTickKept
    <3>3. InIo(p, x)'
      BY <3>1, <3>2 DEF InIo, Times
    <3> QED BY <2>1, <3>3 DEF NotReady
  <2>6. CASE p \in Completed /\ outcome[p].completion <= x
    BY <2>1, <2>6 DEF NotReady
  <2> QED BY <2>1, <2>2, <2>3, <2>4, <2>5, <2>6 DEF NotReady, OnCpu
<1>2. ASSUME NEW c \in Busy', core'[c].inCs PROVE CsLogged(c)'
  <2>1. CASE /\ c \in Busy /\ core[c].inCs
             /\ core'[c].proc = core[c].proc /\ core'[c].busyUntil = core[c].busyUntil
    <3>1. CsLogged(c) /\ core[c].proc \in Procs
      BY <1>2, <2>1 DEF IdleLog, Busy, Free, Inv, TypeOK, CoreStructs
    <3>2. \A x \in Times : now <= x /\ x < core'[c].busyUntil =>
            x \in Ticks(log', core'[c].proc, CpuKinds)
      BY <2>1, <3>1 DEF CsLogged, Grows
    <3> QED BY <3>2 DEF CsLogged, Ticks, On, Covers, Times
  <2> QED BY <1>2, <2>1
<1>3. ASSUME NEW p \in blocked' PROVE IoKnown(p)'
  <2>1. CASE p \in blocked /\ wake'[p] = wake[p]
    <3>1. PICK k \in Nat \ {0}, t \in Times :
            LastTick(p, k, t) /\ t < now /\ wake[p] = t + 1 + IoOf(p, k)
      BY <2>1 DEF IdleLog, IoKnown
    <3>2. p \in Procs
      BY <2>1 DEF Inv, TypeOK
    <3>3. LastTick(p, k, t)' /\ IoOf(p, k)' = IoOf(p, k)
      BY <3>1, <3>2, LastTickKept
    <3> QED BY <2>1, <3>1, <3>3 DEF IoKnown, Times
  <2> QED BY <1>3, <2>1
<1>4. \A p \in Completed' : outcome'[p].completion <= now'
  BY DEF IdleLog
<1> QED
  BY <1>1, <1>2, <1>3, <1>4 DEF IdleLog

\* steps that change nothing the invariant speaks of, except to wake a process up
LEMMA QuietIdle ==
    ASSUME Inv, Inv', IdleLog, UNCHANGED <<w, now, phase, wake, outcome>>,
           log'.timelines = log.timelines, blocked' \subseteq blocked,
           \A d \in Cores :
              /\ core'[d].proc = core[d].proc /\ core'[d].inCs = core[d].inCs
              /\ core'[d].busyUntil = core[d].busyUntil /\ core'[d].runStart = core[d].runStart
              /\ core'[d].freeSince = core[d].freeSince
    PROVE  IdleLog'
<1>1. \A p, c, K : On(log', c, p, K) = On(log, c, p, K)
  BY DEF On
<1>2. \A p \in Procs : Grows(p, log') /\ phase[p] <= phase'[p]
  <2> TAKE p \in Procs
  <2>1. Grows(p, log')
    BY <1>1, UntouchedGrows DEF Untouched
  <2> QED BY <2>1 DEF Inv, TypeOK
<1>3. Busy' = Busy /\ Running' = Running
  BY DEF Busy, Free, Running
<1>4. Completed' = Completed
  BY DEF Completed
<1>5. \A c \in Running, p \in Procs, x \in Times :
        core[c].proc = p /\ core[c].runStart <= x /\ x < now => OnCpu(p, x)'
  <2> TAKE c \in Running, p \in Procs, x \in Times
  <2>1. c \in Cores /\ c \in Running'
    BY <1>3 DEF Running, Busy
  <2> QED BY <2>1 DEF OnCpu
<1>6. \A c \in Cores : IdleSoFar(c)' \subseteq IdleSoFar(c)
  BY <1>1 DEF IdleSoFar, Free, On, Covers, Times
<1>7. \A c \in Busy' : core'[c].inCs =>
        /\ c \in Busy /\ core[c].inCs
        /\ core'[c].proc = core[c].proc /\ core'[c].busyUntil = core[c].busyUntil
  BY <1>3 DEF Busy
<1> QED
  BY <1>2, <1>4, <1>5, <1>6, <1>7, IdleKept

LEMMA SwitchInIdle ==
    ASSUME Inv, Inv', log.fail = "ok" => IdleLog, log'.fail = "ok", NEW c \in Cores, SwitchIn(c)
    PROVE  IdleLog'
<1> DEFINE k == IF OneTick(c) THEN [core[c] EXCEPT !.deadline = AddTime(now, 1)] ELSE core[c]
           l == IF OneTick(c) THEN NoteOverflow(log, now, 1) ELSE log
<1>1. /\ c \in Busy /\ core[c].inCs
      /\ core' = [core EXCEPT ![c] = Begun(k)] /\ log' = BegunLog(l, k)
      /\ outcome' = BegunOutcome(k.proc)
      /\ UNCHANGED <<w, now, blocked, phase, wake>>
  BY DEF SwitchIn, SwitchedIn, IsLowest, procVars
<1>2. core[c] \in CoreStructs /\ core \in [Cores -> CoreStructs] /\ log \in Logs
      /\ outcome \in [Procs -> Outcomes] /\ phase \in [Procs -> Nat \ {0}]
  BY DEF Inv, TypeOK, Outcomes
<1>3. k.proc = core[c].proc /\ Begun(k).proc = core[c].proc /\ ~Begun(k).inCs
  BY <1>2 DEF Begun, CoreStructs
<1>4. log'.timelines = log.timelines /\ log.fail = "ok"
  BY <1>1, <1>2 DEF BegunLog, NoteOverflow, Logs
<1> HIDE DEF k, l
<1>5. /\ core'[c].proc = core[c].proc /\ ~core'[c].inCs
      /\ \A d \in Cores \ {c} : core'[d] = core[d]
  BY <1>1, <1>2, <1>3
<1>6. \A p, d, K : On(log', d, p, K) = On(log, d, p, K)
  BY <1>4 DEF On
<1>7. \A p \in Procs : Grows(p, log') /\ phase[p] <= phase'[p]
  <2> TAKE p \in Procs
  <2>1. Grows(p, log')
    BY <1>6, UntouchedGrows DEF Untouched
  <2> QED BY <1>1, <1>2, <2>1
<1>8. Completed' = Completed /\ \A p \in Completed : outcome'[p] = outcome[p]
  <2>1. core[c].proc \in Procs /\ core[c].proc \notin Completed
    <3>1. core[c].proc \in OnCore /\ core[c].proc \in Procs
      BY <1>1, <1>2 DEF OnCore, Busy, Free, CoreStructs
    <3> QED BY <3>1 DEF Inv, OnePlace
  <2>2. \A p \in Procs : outcome'[p].completion = outcome[p].completion
    BY <1>1, <1>2, <1>3 DEF BegunOutcome, Outcomes
  <2>3. \A p \in Completed : outcome'[p] = outcome[p]
    BY <1>1, <1>2, <1>3, <2>1 DEF BegunOutcome, Completed
  <2> QED BY <2>2, <2>3 DEF Completed
<1>9. \A d \in Running : d \in Running' /\ core'[d] = core[d]
  BY <1>1, <1>5 DEF Running, Busy, Free
<1>10. \A d \in Running, p \in Procs, x \in Times :
         core[d].proc = p /\ core[d].runStart <= x /\ x < now => OnCpu(p, x)'
  BY <1>9 DEF OnCpu
<1>11. \A d \in Cores : IdleSoFar(d)' \subseteq IdleSoFar(d)
  <2> TAKE d \in Cores
  <2>1. core'[d].proc = None =>
          core[d].proc = None /\ core'[d].freeSince = core[d].freeSince
    BY <1>1, <1>5 DEF Free, Busy
  <2>2. IdleSoFar(d)' = On(log', d, None, {"idle"})
          \cup {x \in Times : core'[d].proc = None /\ core'[d].freeSince <= x /\ x < now}
    BY <1>1 DEF IdleSoFar, Free, On, Covers, Times
  <2> QED BY <1>6, <2>1, <2>2 DEF IdleSoFar, Free
<1>12. \A d \in Busy' : core'[d].inCs => d \in Busy /\ core'[d] = core[d]
  BY <1>5 DEF Busy, Free
<1> QED
  BY <1>1, <1>4, <1>7, <1>8, <1>10, <1>11, <1>12, IdleKept

(* A slice ends and is logged.                                             *)
LEMMA EndRunIdle ==
    ASSUME Inv, Inv', TimelineInv, ServiceInv, IdleLog, log.fail = "ok",
           NEW c \in Cores, EndRun(c), NEW l \in LogRun(c), l.fail = "ok",
           log' = l, w' = w,
           \A p \in Procs : phase[p] <= phase'[p],
           \A p \in Completed : p \in Completed' /\ outcome'[p] = outcome[p],
           \A p \in Completed' : p \in Completed \/ outcome'[p].completion <= now,
           \A p \in blocked' : IoKnown(p)' \/ (p \in blocked /\ wake'[p] = wake[p])
    PROVE  IdleLog'
<1>p. PICK p : p = core[c].proc
  OBVIOUS
<1> DEFINE g == Segment(core[c].runStart, now, p, "run")
<1>1. /\ c \in Running /\ core[c] \in CoreStructs /\ now \in Times /\ log \in Logs
      /\ p \in Procs /\ c \in Busy /\ ~core[c].inCs /\ now' = now
  BY <1>p, SliceEndFacts DEF EndRun, Inv, TypeOK, Running
<1>2. /\ g \in Segments /\ g.start = core[c].runStart /\ g.end = now
      /\ g.proc = p /\ g.kind = "run"
  BY <1>1 DEF Segment, Segments, CoreStructs
<1>3. l \in AppendSegment(log, c, g) /\ WellMade(log.timelines[c])
  BY <1>p DEF LogRun, TimelineInv
<1> HIDE DEF g
<1>4. Covers(g) = {x \in Times : core[c].runStart <= x /\ x < now}
  BY <1>2 DEF Covers
<1>5. /\ Ticks(l, p, CpuKinds) = Ticks(log, p, CpuKinds) \cup Covers(g)
      /\ Ticks(l, p, {"run"}) = Ticks(log, p, {"run"}) \cup Covers(g)
  <2>1. g.kind \in CpuKinds /\ g.kind \in {"run"}
    BY <1>2 DEF CpuKinds
  <2>2. \A K : Ticks(l, p, K) = Ticks(log, p, K) \cup
              IF g.proc = p /\ g.kind \in K THEN Covers(g) ELSE {}
    BY <1>1, <1>2, <1>3, TicksAppend
  <2> QED BY <1>2, <2>1, <2>2
<1>6. Grows(p, l)
  <2>1. \A x \in Ticks(log, p, {"run"}) : x \in Times /\ x < core[c].runStart
    <3>1. Stands(p, log, core[c].runStart, remaining[p], phase[p], outcome[p], core[c].runStart)
      BY <1>p, <1>1, EdgeFacts DEF ServiceInv, Standing, EdgesKnown
    <3>2. Ticks(log, p, {"run"}) \subseteq Ticks(log, p, CpuKinds)
      BY DEF Ticks, On, CpuKinds
    <3> QED BY <3>1, <3>2, OnCores DEF Stands
  <2>2. ASSUME NEW t \in Ticks(log, p, {"run"}) PROVE By(l, p, t) = By(log, p, t)
    <3>1. \A x \in Covers(g) : ~(x <= t)
      BY <1>1, <1>4, <2>1 DEF Times, CoreStructs
    <3> QED BY <1>5, <3>1 DEF By
  <2> QED BY <1>5, <2>2 DEF Grows
<1>7. \A q \in Procs : Grows(q, log') /\ phase[q] <= phase'[q]
  <2> TAKE q \in Procs
  <2>1. CASE q # p
    <3>1. Untouched(q, log, l)
      BY <1>1, <1>2, <1>3, <2>1, OthersSegment
    <3> QED BY <3>1, UntouchedGrows
  <2> QED BY <1>6, <2>1
<1>8. core'[c].proc = None /\ core'[c].freeSince = now /\ \A d \in Cores \ {c} : core'[d] = core[d]
  <2>1. core' = [core EXCEPT ![c] = [core[c] EXCEPT !.proc = None, !.freeSince = now]]
        /\ core \in [Cores -> CoreStructs]
    BY DEF EndRun, Inv, TypeOK
  <2> QED BY <2>1 DEF CoreStructs
<1>9. \A d \in Running, q \in Procs, x \in Times :
         core[d].proc = q /\ core[d].runStart <= x /\ x < now => OnCpu(q, x)'
  <2> TAKE d \in Running, q \in Procs, x \in Times
  <2> HAVE core[d].proc = q /\ core[d].runStart <= x /\ x < now
  <2>1. CASE d = c
    <3>1. x \in Ticks(log', q, CpuKinds)
      BY <1>p, <1>4, <1>5, <2>1
    <3> QED BY <3>1 DEF OnCpu, Ticks, On, Covers
  <2>2. CASE d # c
    <3>1. d \in Running' /\ core'[d] = core[d]
      BY <1>8, <2>2 DEF Running, Busy, Free
    <3> QED BY <3>1 DEF OnCpu
  <2> QED BY <2>1, <2>2
<1>10. \A d \in Cores : IdleSoFar(d)' \subseteq IdleSoFar(d)
  <2> TAKE d \in Cores
  <2>1. On(l, d, None, {"idle"}) = On(log, d, None, {"idle"})
    <3>1. g.proc # None
      BY <1>1, <1>2, EngineAssumption
    <3> QED BY <1>1, <1>2, <1>3, <3>1, OthersSegment DEF Untouched
  <2>2. IdleSoFar(d)' = On(l, d, None, {"idle"})
          \cup {x \in Times : core'[d].proc = None /\ core'[d].freeSince <= x /\ x < now}
    BY <1>1 DEF IdleSoFar, Free, On, Covers, Times
  <2>3. \A x \in Times : core'[d].proc = None /\ core'[d].freeSince <= x /\ x < now =>
          core[d].proc = None /\ core[d].freeSince <= x
    BY <1>1, <1>8 DEF Times
  <2> QED BY <2>1, <2>2, <2>3 DEF IdleSoFar, Free
<1>11. \A d \in Busy' : core'[d].inCs => d \in Busy /\ core'[d] = core[d]
  BY <1>8 DEF Busy, Free
<1> QED
  BY <1>1, <1>7, <1>9, <1>10, <1>11, IdleKept

LEMMA CompleteIdle ==
    ASSUME Inv, Inv', TimelineInv, ServiceInv, log.fail = "ok" => IdleLog,
           log'.fail = "ok",
           NEW c \in Cores, SliceCompletes(c)
    PROVE  IdleLog'
<1>p. PICK p : p = core[c].proc
  OBVIOUS
<1>1. /\ EndRun(c) /\ log' \in LogRun(c)
      /\ outcome' = [outcome EXCEPT ![p] = [outcome[p] EXCEPT !.completion = now]]
      /\ UNCHANGED <<w, now, blocked, phase, wake>>
  BY <1>p DEF SliceCompletes, Complete, EndRun
<1>2. log.fail = "ok" /\ p \in Procs /\ p \notin Completed /\ now \in Times
  <2>1. p \in Procs /\ log.fail = "ok" /\ outcome[p].completion < 0 /\ now \in Times
    BY <1>p, <1>1, EndRunService
  <2>2. outcome[p] \in Outcomes
    BY <2>1, ProcessTypes
  <2> QED BY <2>1, <2>2 DEF Completed, Outcomes, Times
<1>3. outcome \in [Procs -> Outcomes] /\ phase \in [Procs -> Nat \ {0}]
  BY DEF Inv, TypeOK, Outcomes
<1>4. \A q \in Procs \ {p} : outcome'[q] = outcome[q]
  BY <1>1, <1>3
<1>5. outcome'[p].completion = now
  BY <1>1, <1>2, <1>3 DEF Outcomes
<1>6. \A q \in Completed : q \in Completed' /\ outcome'[q] = outcome[q]
  BY <1>2, <1>4 DEF Completed
<1>7. \A q \in Completed' : q \in Completed \/ outcome'[q].completion <= now
  BY <1>2, <1>4, <1>5 DEF Completed, Times
<1>8. \A q \in Procs : phase[q] <= phase'[q]
  BY <1>1, <1>3
<1> QED
  BY <1>1, <1>2, <1>6, <1>7, <1>8, EndRunIdle

LEMMA PreemptIdle ==
    ASSUME Inv, Inv', TimelineInv, ServiceInv, log.fail = "ok" => IdleLog,
           log'.fail = "ok",
           NEW c \in Cores, SlicePreempted(c)
    PROVE  IdleLog'
<1>1. /\ EndRun(c) /\ log' \in LogRun(c)
      /\ UNCHANGED <<w, now, blocked, phase, wake, outcome>>
  BY DEF SlicePreempted, Preempt, EndRun
<1>2. log.fail = "ok"
  BY <1>1, EndRunService
<1>3. Completed' = Completed
  BY <1>1 DEF Completed
<1>4. \A q \in Procs : phase[q] <= phase'[q]
  BY <1>1 DEF Inv, TypeOK
<1> QED
  BY <1>1, <1>2, <1>3, <1>4, EndRunIdle

LEMMA BlockIdle ==
    ASSUME Inv, Inv', TimelineInv, ServiceInv, log.fail = "ok" => IdleLog,
           log'.fail = "ok",
           NEW c \in Cores, SliceBlocks(c)
    PROVE  IdleLog'
<1>p. PICK p : p = core[c].proc
  OBVIOUS
<1> DEFINE io == w.phases[p][phase[p] + 1]
<1>1. /\ EndRun(c) /\ BurstOver(c) /\ ~LastPhase(p)
      /\ wake' = [wake EXCEPT ![p] = AddTime(now, io)]
      /\ phase' = [phase EXCEPT ![p] = phase[p] + 2]
      /\ blocked' = blocked \cup {p}
      /\ UNCHANGED <<w, now, outcome>>
  BY <1>p DEF SliceBlocks, Block, EndRun
<1>2. PICK l \in LogRun(c) : log' = NoteOverflow(l, now, io)
  BY <1>p DEF SliceBlocks, Block
<1>3. l \in Logs /\ l.fail = "ok" /\ log' = l /\ ~(now + io > MaxTime)
  <2>1. l \in Logs
    BY <1>1, LogRunType DEF EndRun
  <2>2. log' = IF now + io > MaxTime THEN [l EXCEPT !.fail = "overflow"] ELSE l
    BY <1>2 DEF NoteOverflow
  <2>3. ~(now + io > MaxTime)
    BY <2>1, <2>2 DEF Logs
  <2> QED BY <2>1, <2>2, <2>3
<1>4. /\ log.fail = "ok" /\ p \in Procs /\ now \in Times
      /\ Stands(p, l, now, remaining[p] - Ran(c), phase[p], outcome[p], -1)
      /\ now - 1 \in Ticks(l, p, {"run"})
  BY <1>p, <1>1, <1>2, <1>3, EndRunService
<1>5. /\ phase \in [Procs -> Nat \ {0}] /\ wake \in [Procs -> Times] /\ remaining[p] = Ran(c)
      /\ w \in Workloads /\ IsOdd(phase[p]) /\ remaining[p] \in Nat
  BY <1>p, <1>1, <1>4, ProcessTypes DEF Inv, TypeOK, BurstOver
<1>6. phase'[p] = phase[p] + 2 /\ \A q \in Procs \ {p} : phase'[q] = phase[q] /\ wake'[q] = wake[q]
  BY <1>1, <1>4, <1>5
<1>7. wake'[p] = now + io
  BY <1>1, <1>3, <1>4, <1>5 DEF AddTime
<1>8. PICK k : k = (phase[p] + 1) \div 2
  OBVIOUS
<1>9. k \in Nat \ {0} /\ 2 * k = phase[p] + 1 /\ 2 * k < phase[p] + 2
  <2>1. \A n \in Nat \ {0} : n % 2 = 1 =>
          /\ (n + 1) \div 2 \in Nat \ {0} /\ 2 * ((n + 1) \div 2) = n + 1
    OBVIOUS
  <2>2. phase[p] \in Nat \ {0} /\ phase[p] % 2 = 1
    BY <1>4, <1>5 DEF IsOdd
  <2>3. k \in Nat \ {0} /\ 2 * k = phase[p] + 1
    BY <1>8, <2>1, <2>2
  <2> QED BY <2>2, <2>3
<1>10. Cardinality(By(l, p, now - 1)) = CpuUpTo(p, k)
  <2> DEFINE run == Ticks(l, p, {"run"})
  <2>1. Cardinality(run) + 0 = CpuUpTo(p, k)
    <3>1. remaining[p] - Ran(c) = 0
      BY <1>5
    <3> QED BY <1>4, <1>8, <3>1 DEF Stands
  <2>2. Cardinality(run) \in Nat
    BY OnCores, FS_CardinalityType
  <2>3. \A x \in run : x \in Times /\ x < now
    <3>1. run \subseteq Ticks(l, p, CpuKinds)
      BY DEF Ticks, On, CpuKinds
    <3> QED BY <1>4, <3>1, OnCores DEF Stands
  <2>4. By(l, p, now - 1) = run
    BY <1>4, <2>3 DEF By, Times
  <2> HIDE DEF run
  <2> QED BY <2>1, <2>2, <2>4
<1>11. IoKnown(p)'
  <2>1. IoOf(p, k)' = io /\ CpuUpTo(p, k)' = CpuUpTo(p, k)
    <3>1. IoOf(p, k)' = IoOf(p, k) /\ CpuUpTo(p, k)' = CpuUpTo(p, k)
      BY <1>1 DEF CpuUpTo, Bursts, CpuOf, NumBursts, IoOf
    <3> QED BY <1>9, <3>1 DEF IoOf
  <2> HIDE DEF io
  <2>2. now - 1 \in Times
    BY <1>4, OnCores
  <2>3. LastTick(p, k, now - 1)'
    <3>1. now' - 1 = now - 1
      BY <1>1
    <3>2. /\ 2 * k < phase'[p] /\ now' - 1 \in Ticks(log', p, {"run"})
          /\ Cardinality(By(log', p, now' - 1)) = CpuUpTo(p, k)
      BY <1>3, <1>4, <1>6, <1>9, <1>10, <3>1
    <3> QED BY <2>1, <3>2 DEF LastTick, By, Ticks, On, Covers
  <2>4. PICK t : t = now - 1
    OBVIOUS
  <2>5. LastTick(p, k, t)' /\ t \in Times /\ t < now' /\ now = t + 1
    BY <1>1, <1>4, <2>2, <2>3, <2>4 DEF Times
  <2>6. wake'[p] = t + 1 + IoOf(p, k)'
    BY <1>7, <2>1, <2>5
  <2> QED BY <1>9, <2>5, <2>6 DEF IoKnown, Times
<1>12. Completed' = Completed
  BY <1>1 DEF Completed
<1>13. \A q \in Procs : phase[q] <= phase'[q]
  BY <1>5, <1>6
<1>14. \A q \in blocked' : IoKnown(q)' \/ (q \in blocked /\ wake'[q] = wake[q])
  BY <1>1, <1>6, <1>11 DEF Inv, TypeOK
<1> HIDE DEF io
<1> QED
  BY <1>1, <1>2, <1>3, <1>4, <1>12, <1>13, <1>14, EndRunIdle

LEMMA PlaceIdle ==
    ASSUME Inv, Inv', TimelineInv, log.fail = "ok" => IdleLog, log'.fail = "ok",
           NEW c \in Cores, NEW i \in DOMAIN picks, Place(i, c)
    PROVE  IdleLog'
<1>q. PICK q : q = picks[i].proc
  OBVIOUS
<1> DEFINE taken == [core[c] EXCEPT !.proc = q, !.length = picks[i].length, !.context = q,
                                    !.deadline = picks[i].deadline, !.recheck = FALSE]
           until == AddTime(now, CsCost)
           idle == Segment(core[c].freeSince, now, None, "idle")
           cs == Segment(now, until, q, "cs")
<1>1. PICK l \in AppendSegment(log, c, idle) :
        \/ /\ core' = [core EXCEPT ![c] = [taken EXCEPT !.inCs = TRUE, !.busyUntil = until]]
           /\ log' \in AppendSegment(NoteOverflow(l, now, CsCost), c, cs)
           /\ outcome' = outcome
        \/ /\ core' = [core EXCEPT ![c] = Begun(taken)]
           /\ log' = BegunLog(l, taken)
           /\ outcome' = BegunOutcome(q)
  BY <1>q DEF Place
<1>2. /\ stage = "place" /\ UNCHANGED <<w, now, blocked, phase, wake>>
      /\ core \in [Cores -> CoreStructs] /\ core[c] \in CoreStructs
      /\ log \in Logs /\ now \in Times /\ now < MaxTime
      /\ outcome \in [Procs -> Outcomes] /\ phase \in [Procs -> Nat \ {0}]
  BY DEF Place, Inv, TypeOK, NothingMissed, procVars, Outcomes
<1>3. /\ Free(c) /\ q \in Procs /\ q # None /\ core'[c].proc = q
      /\ \A d \in Cores \ {c} : core'[d] = core[d]
  BY <1>q, PlaceFacts, EngineAssumption DEF Slices
<1>4. Spans /\ LogWell(log) /\ closed = 0
  BY <1>2 DEF TimelineInv, Spans, Inv, TypeOK
<1>5. /\ idle \in Segments /\ idle.proc = None /\ idle.kind = "idle"
      /\ idle.start = core[c].freeSince /\ idle.end = now /\ idle.start <= idle.end
  <2>1. core[c].freeSince <= now
    BY <1>3, <1>4 DEF Spans
  <2> QED BY <1>2, <2>1 DEF Segment, Segments, CoreStructs
<1>6. until \in Times
  BY <1>2, AddTimeFacts, EngineAssumption
<1>7. cs \in Segments /\ cs.start = now /\ cs.end = until /\ cs.proc = q /\ cs.kind = "cs"
  BY <1>2, <1>3, <1>6 DEF Segment, Segments
<1> HIDE DEF idle, cs, until
<1>8. l \in Logs /\ LogWell(l)
  <2>1. log.fail = "ok" => Reaches(log.timelines[c], core[c].freeSince)
    <3>1. ~(c <= closed)
      BY <1>4, EngineAssumption DEF Cores
    <3> QED BY <1>3, <1>4, <3>1 DEF Spans, Frontier
  <2> QED BY <1>1, <1>2, <1>4, <1>5, <2>1, AppendKeeps
<1> DEFINE m == NoteOverflow(l, now, CsCost)
<1>9. /\ l.fail = "ok"
      /\ \A p, K, d : d \in Cores =>
           On(log', d, p, K) = On(l, d, p, K)
             \/ (p = q /\ "cs" \in K /\ On(l, d, p, K) \subseteq On(log', d, p, K))
      /\ core'[c].inCs => /\ core'[c].busyUntil = until
                          /\ Covers(cs) \subseteq Ticks(log', q, CpuKinds)
  <2>1. CASE /\ core' = [core EXCEPT ![c] = [taken EXCEPT !.inCs = TRUE, !.busyUntil = until]]
             /\ log' \in AppendSegment(m, c, cs)
    <3>1. m \in Logs /\ m.timelines = l.timelines /\ (m.fail = "ok" => l.fail = "ok")
      BY <1>8, NoteKeeps
    <3>2. WellMade(m.timelines[c])
      BY <1>8, <3>1 DEF LogWell
    <3> HIDE DEF m
    <3>3. m.fail = "ok"
      BY <1>7, <2>1, <3>1, AppendKinds
    <3>4. \A p, K, d : d \in Cores => On(log', d, p, K) = On(m, d, p, K) \cup
              IF d = c /\ cs.proc = p /\ cs.kind \in K THEN Covers(cs) ELSE {}
      BY <1>7, <2>1, <3>1, <3>2, OnAppend
    <3>5. \A p, K, d : On(m, d, p, K) = On(l, d, p, K)
      BY <3>1 DEF On
    <3>6. Covers(cs) \subseteq Ticks(log', q, CpuKinds)
      <4>1. Covers(cs) \subseteq On(log', c, q, CpuKinds)
        BY <1>7, <3>4 DEF CpuKinds
      <4> QED BY <4>1, OnCores
    <3>7. core'[c].busyUntil = until
      BY <1>2, <2>1 DEF CoreStructs
    <3>8. \A p, K, d : d \in Cores =>
            On(log', d, p, K) = On(l, d, p, K)
              \/ (p = q /\ "cs" \in K /\ On(l, d, p, K) \subseteq On(log', d, p, K))
      <4> TAKE p, K, d
      <4> HAVE d \in Cores
      <4>1. On(log', d, p, K) = On(l, d, p, K) \cup
              IF d = c /\ cs.proc = p /\ cs.kind \in K THEN Covers(cs) ELSE {}
        BY <3>4, <3>5
      <4>2. CASE cs.proc = p /\ cs.kind \in K
        BY <1>7, <4>1, <4>2
      <4>3. CASE ~(cs.proc = p /\ cs.kind \in K)
        BY <4>1, <4>3
      <4> QED BY <4>2, <4>3
    <3> QED BY <3>1, <3>3, <3>6, <3>7, <3>8
  <2>2. CASE core' = [core EXCEPT ![c] = Begun(taken)] /\ log' = BegunLog(l, taken)
    <3>1. log'.timelines = l.timelines /\ l.fail = "ok"
      BY <1>8, <2>2, NoteKeeps DEF BegunLog
    <3>2. ~core'[c].inCs
      BY <1>2, <2>2 DEF Begun, CoreStructs
    <3>3. \A p, K, d : On(log', d, p, K) = On(l, d, p, K)
      BY <3>1 DEF On
    <3> QED BY <3>1, <3>2, <3>3
  <2> QED BY <1>1, <2>1, <2>2
<1> HIDE DEF m
<1>10. \A p, K, d : d \in Cores => On(l, d, p, K) = On(log, d, p, K) \cup
              IF d = c /\ idle.proc = p /\ idle.kind \in K THEN Covers(idle) ELSE {}
  <2>1. WellMade(log.timelines[c])
    BY <1>4 DEF LogWell
  <2> QED BY <1>1, <1>2, <1>5, <1>9, <2>1, OnAppend
<1>11. \A p \in Procs : Grows(p, log') /\ phase[p] <= phase'[p]
  <2> TAKE p \in Procs
  <2>1. \A K, d : d \in Cores => On(l, d, p, K) = On(log, d, p, K)
    <3> TAKE K, d
    <3> HAVE d \in Cores
    <3>1. On(l, d, p, K) = On(log, d, p, K) \cup
            IF d = c /\ idle.proc = p /\ idle.kind \in K THEN Covers(idle) ELSE {}
      BY <1>10
    <3>2. idle.proc # p
      BY <1>5, EngineAssumption
    <3> QED BY <3>1, <3>2
  <2>2. \A K, d : d \in Cores => On(log, d, p, K) \subseteq On(log', d, p, K)
    BY <1>9, <2>1
  <2>3. Ticks(log, p, CpuKinds) \subseteq Ticks(log', p, CpuKinds)
    BY <2>2 DEF Ticks
  <2>4. \A d \in Cores : On(log', d, p, {"run"}) = On(log, d, p, {"run"})
    BY <1>9, <2>1
  <2>5. Ticks(log', p, {"run"}) = Ticks(log, p, {"run"})
    BY <2>4 DEF Ticks
  <2>6. Grows(p, log')
    BY <2>3, <2>5 DEF Grows, By
  <2> QED BY <1>2, <2>6
<1>12. Completed' = Completed /\ \A p \in Completed : outcome'[p] = outcome[p]
  <2>1. Completed' = Completed
    BY PlaceFacts
  <2>2. q \notin Completed
    <3>1. q \in Picked
      BY <1>q DEF Picked
    <3> QED BY <3>1 DEF Inv, OnePlace
  <2>3. \A p \in Procs \ {q} : outcome'[p] = outcome[p]
    BY <1>1, <1>2 DEF BegunOutcome
  <2> QED BY <2>1, <2>2, <2>3 DEF Completed
<1>13. \A d \in Running, p \in Procs, x \in Times :
         core[d].proc = p /\ core[d].runStart <= x /\ x < now => OnCpu(p, x)'
  <2> TAKE d \in Running, p \in Procs, x \in Times
  <2>1. d \in Running' /\ core'[d] = core[d]
    BY <1>3 DEF Running, Busy, Free
  <2> QED BY <2>1 DEF OnCpu
<1>14. \A d \in Cores : IdleSoFar(d)' \subseteq IdleSoFar(d)
  <2> TAKE d \in Cores
  <2>1. IdleSoFar(d)' = On(log', d, None, {"idle"})
          \cup {x \in Times : core'[d].proc = None /\ core'[d].freeSince <= x /\ x < now}
    BY <1>2 DEF IdleSoFar, Free, On, Covers, Times
  <2>2. On(log', d, None, {"idle"}) = On(l, d, None, {"idle"})
    BY <1>3, <1>9
  <2>3. CASE d = c
    <3>1. On(l, c, None, {"idle"}) = On(log, c, None, {"idle"}) \cup Covers(idle)
      BY <1>5, <1>10
    <3>2. Covers(idle) = {x \in Times : Free(c) /\ core[c].freeSince <= x /\ x < now}
      BY <1>3, <1>5 DEF Covers
    <3> QED BY <1>3, <2>1, <2>2, <2>3, <3>1, <3>2 DEF IdleSoFar
  <2>4. CASE d # c
    <3>1. On(l, d, None, {"idle"}) = On(log, d, None, {"idle"})
      <4>1. On(l, d, None, {"idle"}) = On(log, d, None, {"idle"}) \cup
              IF d = c /\ idle.proc = None /\ idle.kind \in {"idle"} THEN Covers(idle) ELSE {}
        BY <1>10
      <4> QED BY <2>4, <4>1
    <3> QED BY <1>3, <2>1, <2>2, <2>4, <3>1 DEF IdleSoFar, Free
  <2> QED BY <2>3, <2>4
<1>15. ASSUME NEW d \in Busy', core'[d].inCs
       PROVE  CsLogged(d)' \/ (d \in Busy /\ core'[d] = core[d])
  <2>1. CASE d = c
    <3>1. \A x \in Times : now <= x /\ x < until => x \in Ticks(log', q, CpuKinds)
      BY <1>7, <1>9, <1>15, <2>1 DEF Covers
    <3> QED BY <1>2, <1>3, <1>9, <1>15, <2>1, <3>1 DEF CsLogged, Ticks, On, Covers, Times
  <2>2. CASE d # c
    BY <1>3, <2>2 DEF Busy, Free
  <2> QED BY <2>1, <2>2
<1>16. IdleLog
  BY <1>1, <1>2, <1>5, <1>9, AppendKinds
<1> QED
  BY <1>2, <1>11, <1>12, <1>13, <1>14, <1>15, <1>16, IdleKept

LEMMA CloseIdle ==
    ASSUME Inv, Inv', TimelineInv, log.fail = "ok" => IdleLog, log'.fail = "ok", CloseTimeline
    PROVE  IdleLog'
<1> DEFINE c == closed + 1
           g == Segment(core[c].freeSince, now, None, "idle")
<1>1. /\ log' \in AppendSegment(log, c, g) /\ stage = "finish"
      /\ UNCHANGED <<w, now, blocked, phase, wake, core, outcome>>
  BY DEF CloseTimeline, procVars
<1>2. c \in Cores /\ log \in Logs /\ now \in Times /\ core \in [Cores -> CoreStructs]
  BY EngineAssumption DEF CloseTimeline, Inv, TypeOK, Cores
<1> HIDE DEF c
<1>3. /\ g \in Segments /\ g.proc = None /\ g.kind = "idle"
      /\ g.start = core[c].freeSince /\ g.end = now
  BY <1>2 DEF Segment, Segments, CoreStructs
<1> HIDE DEF g
<1>4. log.fail = "ok" /\ WellMade(log.timelines[c])
  BY <1>1, <1>2, <1>3, AppendKinds DEF TimelineInv
<1>5. Free(c)
  <2>1. Completed = Procs
    BY <1>1, <1>4 DEF TimelineInv, Spans
  <2> QED BY <1>2, <2>1 DEF Inv, OnePlace, OnCore, Busy, Free, TypeOK, CoreStructs
<1>6. \A p, K, d : d \in Cores => On(log', d, p, K) = On(log, d, p, K) \cup
              IF d = c /\ g.proc = p /\ g.kind \in K THEN Covers(g) ELSE {}
  BY <1>1, <1>2, <1>3, <1>4, OnAppend
<1>7. \A p \in Procs : Grows(p, log') /\ phase[p] <= phase'[p]
  <2> TAKE p \in Procs
  <2>1. Untouched(p, log, log')
    <3>1. g.proc # p
      BY <1>3, EngineAssumption
    <3> QED BY <1>1, <1>2, <1>3, <1>4, <3>1, OthersSegment
  <2> QED BY <1>1, <2>1, UntouchedGrows DEF Inv, TypeOK
<1>8. Busy' = Busy /\ Running' = Running /\ Completed' = Completed
  BY <1>1 DEF Busy, Free, Running, Completed
<1>9. \A d \in Running, p \in Procs, x \in Times :
         core[d].proc = p /\ core[d].runStart <= x /\ x < now => OnCpu(p, x)'
  BY <1>1, <1>8 DEF OnCpu
<1>10. \A d \in Cores : IdleSoFar(d)' \subseteq IdleSoFar(d)
  <2> TAKE d \in Cores
  <2>1. IdleSoFar(d)' = On(log', d, None, {"idle"})
          \cup {x \in Times : core[d].proc = None /\ core[d].freeSince <= x /\ x < now}
    BY <1>1 DEF IdleSoFar, Free, On, Covers, Times
  <2>2. d = c => Covers(g) \subseteq IdleSoFar(c)
    BY <1>3, <1>5 DEF Covers, IdleSoFar
  <2> QED BY <1>6, <2>1, <2>2 DEF IdleSoFar, Free
<1> QED
  BY <1>1, <1>4, <1>7, <1>8, <1>9, <1>10, IdleKept

-----------------------------------------------------------------------------
(* Time passes                                                             *)

\* while time passes, a process that is not in the ready set was not ready
LEMMA AdvanceNotReady ==
    ASSUME Inv, IdleLog, Advance, ready = {}, NEW p \in Procs,
           NEW x \in Times, now <= x, x < now'
    PROVE  NotReady(p, x)
<1>1. /\ stage = "advance" /\ now \in Times /\ now' \in Times /\ \A u \in EventTimes : now' <= u
  BY AdvanceFacts DEF Advance, Inv, TypeOK
<1>2. p \in pending \cup OnCore \cup blocked \cup Completed
  <2>1. picks = <<>>
    BY <1>1 DEF Inv, HasWork
  <2>2. Picked = {}
    BY <2>1 DEF Picked
  <2> QED BY <1>1, <2>2 DEF Inv, OnePlace, Emptied
<1>3. CASE p \in pending
  <2>1. now' <= w.arrival[p] /\ w.arrival[p] \in Nat
    BY <1>1, <1>3, ProcessTypes DEF EventTimes
  <2> QED BY <1>1, <2>1 DEF NotReady, Times
<1>4. CASE p \in OnCore
  <2>1. PICK c \in Busy : core[c].proc = p
    BY <1>4 DEF OnCore
  <2>2. /\ c \in Cores /\ now' <= core[c].busyUntil /\ core[c] \in CoreStructs
    BY <1>1, <2>1 DEF EventTimes, Busy, Inv, TypeOK
  <2>3. CASE core[c].inCs
    <3>1. x < core[c].busyUntil
      BY <1>1, <2>2 DEF CoreStructs, Times
    <3>2. x \in Ticks(log, p, CpuKinds)
      BY <2>1, <2>3, <3>1 DEF IdleLog, CsLogged
    <3> QED BY <3>2 DEF NotReady, OnCpu
  <2>4. CASE ~core[c].inCs
    <3>1. c \in Running
      BY <2>1, <2>4 DEF Running
    <3>2. core[c].runStart <= now
      BY <1>1, <3>1 DEF Inv, SlicesFit
    <3>3. core[c].runStart <= x
      BY <1>1, <2>2, <3>2 DEF CoreStructs, Times
    <3> QED BY <2>1, <3>1, <3>3 DEF NotReady, OnCpu
  <2> QED BY <2>3, <2>4
<1>5. CASE p \in blocked
  <2>1. PICK k \in Nat \ {0}, t \in Times :
          LastTick(p, k, t) /\ t < now /\ wake[p] = t + 1 + IoOf(p, k)
    BY <1>5 DEF IdleLog, IoKnown
  <2>2. now' <= wake[p]
    BY <1>1, <1>5 DEF EventTimes
  <2>3. IoOf(p, k) \in Nat
    BY <2>1, ProcessTypes DEF LastTick
  <2>4. t < x /\ x <= t + IoOf(p, k)
    BY <1>1, <2>1, <2>2, <2>3 DEF Times
  <2> QED BY <2>1, <2>4 DEF NotReady, InIo
<1>6. CASE p \in Completed
  <2>1. outcome[p].completion <= now /\ outcome[p] \in Outcomes /\ outcome[p].completion >= 0
    BY <1>6, ProcessTypes DEF IdleLog, Completed
  <2>2. outcome[p].completion <= x
    BY <1>1, <2>1 DEF Outcomes, Times
  <2> QED BY <1>6, <2>2 DEF NotReady
<1> QED
  BY <1>2, <1>3, <1>4, <1>5, <1>6

LEMMA AdvanceIdle ==
    ASSUME Inv, IdleLog, Offered, Advance
    PROVE  IdleLog'
<1>1. /\ stage = "advance" /\ now \in Times /\ now' \in Times /\ now < now'
      /\ UNCHANGED <<w, pending, blocked, remaining, phase, wake, core, outcome, log>>
  BY AdvanceFacts DEF Advance, procVars, resultVars, Inv, TypeOK
<1>2. ASSUME NEW p, NEW x, NotReady(p, x) PROVE NotReady(p, x)'
  <2>1. OnCpu(p, x) => OnCpu(p, x)'
    <3>1. Running' = Running
      BY <1>1 DEF Running, Busy, Free
    <3>2. x \in Ticks(log, p, CpuKinds) => x \in Ticks(log', p, CpuKinds)
      BY <1>1
    <3> QED BY <1>1, <3>1, <3>2 DEF OnCpu, Ticks, On, Covers
  <2>2. InIo(p, x) => InIo(p, x)'
    <3>1. \A k, t : /\ LastTick(p, k, t) => LastTick(p, k, t)'
                    /\ IoOf(p, k)' = IoOf(p, k)
      BY <1>1 DEF LastTick, CpuUpTo, Bursts, CpuOf, NumBursts, IoOf, By, Ticks, On, Covers, Times
    <3> QED BY <3>1 DEF InIo, Times
  <2>3. Completed' = Completed
    BY <1>1 DEF Completed
  <2> QED BY <1>1, <1>2, <2>1, <2>2, <2>3 DEF NotReady
<1>3. ASSUME NEW c \in Cores, NEW p \in Procs, NEW x \in IdleSoFar(c)'
      PROVE  x < now' /\ NotReady(p, x)'
  <2>1. x \in Times /\ (x \in IdleSoFar(c) \/ (Free(c) /\ now <= x /\ x < now'))
    BY <1>1, <1>3 DEF IdleSoFar, Free, On, Covers, Times
  <2>2. CASE x \in IdleSoFar(c)
    <3>1. x < now /\ NotReady(p, x)
      BY <2>2 DEF IdleLog
    <3> QED BY <1>1, <1>2, <2>1, <3>1 DEF Times
  <2>3. CASE Free(c) /\ now <= x /\ x < now'
    <3>1. ready = {}
      BY <1>1, <2>3 DEF Offered, FreeCores
    <3> QED BY <1>2, <2>1, <2>3, <3>1, AdvanceNotReady
  <2> QED BY <2>1, <2>2, <2>3
<1>4. ASSUME NEW c \in Busy', core'[c].inCs PROVE CsLogged(c)'
  <2>1. CsLogged(c)
    BY <1>1, <1>4 DEF IdleLog, Busy, Free
  <2>2. \A x \in Times : now' <= x => now <= x
    BY <1>1 DEF Times
  <2> QED BY <1>1, <2>1, <2>2 DEF CsLogged, Ticks, On, Covers, Times
<1>5. ASSUME NEW p \in blocked' PROVE IoKnown(p)'
  <2>1. PICK k \in Nat \ {0}, t \in Times :
          LastTick(p, k, t) /\ t < now /\ wake[p] = t + 1 + IoOf(p, k)
    BY <1>1, <1>5 DEF IdleLog, IoKnown
  <2>2. LastTick(p, k, t)' /\ IoOf(p, k)' = IoOf(p, k)
    BY <1>1, <2>1 DEF LastTick, CpuUpTo, Bursts, CpuOf, NumBursts, IoOf, By, Ticks, On, Covers, Times
  <2>3. t < now'
    BY <1>1, <2>1 DEF Times
  <2> QED BY <1>1, <2>1, <2>2, <2>3 DEF IoKnown, Times
<1>6. ASSUME NEW p \in Completed' PROVE outcome'[p].completion <= now'
  <2>1. p \in Procs /\ outcome[p].completion <= now /\ outcome[p].completion >= 0
    BY <1>1, <1>6 DEF IdleLog, Completed
  <2>2. outcome[p] \in Outcomes
    BY <2>1, ProcessTypes
  <2> QED BY <1>1, <2>1, <2>2 DEF Outcomes, Times
<1> QED
  BY <1>3, <1>4, <1>5, <1>6 DEF IdleLog

LEMMA InitIdle == Init => IdleInv
<1> SUFFICES ASSUME Init PROVE IdleInv
  OBVIOUS
<1>1. /\ stage = "create" /\ blocked = {} /\ now \in Times
      /\ \A c \in Cores : log.timelines[c] = <<>> /\ core[c].freeSince = now
      /\ Completed = {} /\ Busy = {}
  <2>1. Inv
    BY InitInv
  <2> QED BY <2>1 DEF Init, EngineInit, Completed, Busy, Free, FreshCore, Inv, TypeOK
<1>2. ASSUME NEW c \in Cores PROVE IdleSoFar(c) = {}
  <2>1. On(log, c, None, {"idle"}) = {}
    BY <1>1 DEF On
  <2>2. \A x \in Times : ~(now <= x /\ x < now)
    BY <1>1 DEF Times
  <2> QED BY <1>1, <2>1, <2>2 DEF IdleSoFar
<1>3. IdleLog
  BY <1>1, <1>2 DEF IdleLog
<1> QED
  BY <1>1, <1>3 DEF IdleInv, Offered

-----------------------------------------------------------------------------
(* Every step                                                              *)

LEMMA OfferedStep ==
    ASSUME Inv, Offered, WorkConserving, [Next]_vars
    PROVE  Offered'
<1>f. IsFiniteSet(FreeCores)
  BY CoresFinite, FS_Subset DEF FreeCores
<1>1. CASE UNCHANGED vars \/ Terminated
  <2>1. UNCHANGED <<stage, ready, core, picks>>
    <3>1. CASE UNCHANGED vars
      BY <3>1 DEF vars, engineVars
    <3>2. CASE Terminated
      <4>1. UNCHANGED <<stage, core, picks>> /\ stage = "done"
        BY <3>2 DEF Terminated, engineVars
      <4>2. ready' = ready
        BY <1>1, <4>1
           DEF Next, Arrive, Admit, BecomeReady, WakeUp, SliceCompletes, SliceBlocks, SlicePreempted,
               NextSlice, Pick, WantsPick, StopPicking, PicksDone, Complete, Block, Preempt, EndRun,
               SliceEnds, vars
      <4> QED BY <4>1, <4>2
    <3> QED BY <1>1, <3>1, <3>2
  <2> QED BY <2>1 DEF Offered, FreeCores, Free
<1>2. CASE StopPicking
  <2>1. /\ stage = "picks" /\ stage' = "place" /\ UNCHANGED <<ready, core, picks>>
        /\ WantsPick => ready = {}
    BY <1>2 DEF StopPicking, PicksDone, MayDecline
  <2>2. Len(picks) \in Nat /\ Cardinality(FreeCores) \in Nat
    BY <1>f, FS_CardinalityType DEF Inv, TypeOK
  <2>3. ready = {} \/ Cardinality(FreeCores) <= Len(picks)
    BY <2>1, <2>2 DEF WantsPick
  <2> QED BY <2>1, <2>3 DEF Offered, FreeCores, Free
<1>3. CASE \E c \in Cores, i \in DOMAIN picks : Place(i, c) /\ UNCHANGED ready
  <2>1. PICK c \in Cores, i \in DOMAIN picks : Place(i, c) /\ UNCHANGED ready
    BY <1>3
  <2>2. /\ stage = "place" /\ stage' = "place" /\ picks' = RemoveAt(picks, i)
        /\ picks \in Seq(Slices)
    BY <2>1 DEF Place, Inv, TypeOK
  <2>3. Len(picks') = Len(picks) - 1 /\ Len(picks) \in Nat
    BY <2>2, RemoveAtFacts
  <2>4. FreeCores' = FreeCores \ {c} /\ c \in FreeCores
    <3>1. /\ Free(c) /\ core'[c].proc # None /\ \A d \in Cores \ {c} : core'[d] = core[d]
      BY <2>1, PlaceFacts, EngineAssumption DEF Slices
    <3> QED BY <3>1 DEF FreeCores, Free
  <2>5. Cardinality(FreeCores') = Cardinality(FreeCores) - 1 /\ Cardinality(FreeCores) \in Nat
    BY <1>f, <2>4, FS_RemoveElement, FS_CardinalityType
  <2>6. ready' = {} \/ Cardinality(FreeCores') <= Len(picks')
    <3>1. ready = {} \/ Cardinality(FreeCores) <= Len(picks)
      BY <2>2 DEF Offered
    <3> QED BY <2>1, <2>3, <2>5, <3>1
  <2> QED BY <2>2, <2>6 DEF Offered
<1>4. CASE PlacesDone /\ UNCHANGED ready
  <2>1. /\ stage = "place" /\ stage' = "advance" /\ picks = <<>> /\ UNCHANGED <<ready, core>>
    BY <1>4 DEF PlacesDone
  <2>2. ready = {} \/ Cardinality(FreeCores) <= 0
    BY <2>1 DEF Offered
  <2>3. Cardinality(FreeCores) <= 0 => FreeCores = {}
    BY <1>f, FS_CardinalityType, FS_EmptySet
  <2> QED BY <2>1, <2>2, <2>3 DEF Offered, FreeCores, Free
<1>5. CASE stage' \notin {"place", "advance"}
  BY <1>5 DEF Offered
<1>6. CASE \E p \in Procs : Arrive(p) \/ BecomeReady(p)
  BY <1>5, <1>6 DEF Arrive, Admit, BecomeReady, WakeUp
<1>7. CASE \E c \in Cores : SliceCompletes(c) \/ SliceBlocks(c) \/ SlicePreempted(c)
  BY <1>5, <1>7 DEF SliceCompletes, SliceBlocks, SlicePreempted, Complete, Block, Preempt, EndRun,
                    SliceEnds
<1>8. CASE \E p \in ready : \E s \in SlicesFor(p) : NextSlice(s)
  BY <1>5, <1>8 DEF NextSlice, Pick, WantsPick
<1>9. CASE \/ Create \/ Reject \/ ArrivalsDone \/ WakeupsDone \/ EndsDone
           \/ (\E c \in Cores : SwitchIn(c)) \/ SwitchInsDone \/ InstantDone
           \/ Advance \/ CloseTimeline \/ Return
  BY <1>5, <1>9 DEF Create, Reject, ArrivalsDone, WakeupsDone, EndsDone, SwitchIn, SwitchInsDone,
                    InstantDone, Advance, CloseTimeline, Return
<1> QED
  BY <1>1, <1>2, <1>3, <1>4, <1>6, <1>7, <1>8, <1>9 DEF Next, EngineStep

LEMMA IdleStep ==
    ASSUME Inv, Inv', TimelineInv, ServiceInv, Offered, log.fail = "ok" => IdleLog, [Next]_vars
    PROVE  log'.fail = "ok" => IdleLog'
<1> SUFFICES ASSUME log'.fail = "ok" PROVE IdleLog'
  OBVIOUS
<1>0. core \in [Cores -> CoreStructs]
  BY DEF Inv, TypeOK
<1>1. CASE \E p \in Procs : Arrive(p) \/ BecomeReady(p)
  <2>1. /\ UNCHANGED <<w, now, phase, wake, outcome, log, core>> /\ blocked' \subseteq blocked
    BY <1>1 DEF Arrive, Admit, BecomeReady, WakeUp, procVars, resultVars
  <2> QED BY <2>1, QuietIdle
<1>2. CASE \E c \in Cores : SliceCompletes(c) \/ SliceBlocks(c) \/ SlicePreempted(c)
  BY <1>2, CompleteIdle, BlockIdle, PreemptIdle
<1>3. CASE \/ (\E p \in ready : \E s \in SlicesFor(p) : NextSlice(s))
           \/ PicksDone \/ PlacesDone \/ Create \/ ArrivalsDone
           \/ WakeupsDone \/ SwitchInsDone \/ InstantDone
           \/ Reject \/ UNCHANGED vars \/ Terminated
  <2>1. UNCHANGED <<w, now, phase, wake, blocked, outcome, log, core>>
    BY <1>3
       DEF NextSlice, Pick, PicksDone, PlacesDone, Create, ArrivalsDone, WakeupsDone,
           SwitchInsDone, InstantDone, Reject, Terminated, vars, engineVars, procVars, resultVars
  <2> QED BY <2>1, QuietIdle
<1>4. CASE EndsDone
  <2>1. \A c \in Cores :
          /\ core'[c].proc = core[c].proc /\ core'[c].inCs = core[c].inCs
          /\ core'[c].busyUntil = core[c].busyUntil /\ core'[c].runStart = core[c].runStart
          /\ core'[c].freeSince = core[c].freeSince
    <3> TAKE c \in Cores
    <3>1. core'[c] = core[c] \/ core'[c] = [core[c] EXCEPT !.recheck = TRUE]
      BY <1>4 DEF EndsDone
    <3> QED BY <1>0, <3>1 DEF CoreStructs
  <2>2. UNCHANGED <<w, now, phase, wake, blocked, outcome, log>>
    BY <1>4 DEF EndsDone, procVars, resultVars
  <2> QED BY <2>1, <2>2, QuietIdle
<1>5. CASE \E c \in Cores : SwitchIn(c)
  BY <1>5, SwitchInIdle
<1>6. CASE \E c \in Cores, i \in DOMAIN picks : Place(i, c)
  BY <1>6, PlaceIdle
<1>7. CASE Advance
  <2>1. log' = log
    BY <1>7 DEF Advance, resultVars
  <2> QED BY <1>7, <2>1, AdvanceIdle
<1>8. CASE CloseTimeline
  BY <1>8, CloseIdle
<1>9. CASE Return
  <2>1. CASE log.fail = "ok"
    <3>1. UNCHANGED <<w, now, phase, wake, blocked, outcome, log, core>>
      BY <1>9, <2>1 DEF Return, procVars
    <3> QED BY <2>1, <3>1, QuietIdle
  <2>2. CASE log.fail # "ok"
    BY <1>9, <2>2 DEF Return, Inv, TypeOK, Logs
  <2> QED BY <2>1, <2>2
<1> QED
  BY <1>1, <1>2, <1>3, <1>4, <1>5, <1>6, <1>7, <1>8, <1>9 DEF Next, StopPicking, EngineStep

LEMMA IdleInvariant ==
    ASSUME WorkConserving
    PROVE  Spec => [](Inv /\ TimelineInv /\ ServiceInv /\ IdleInv)
<1>1. Inv /\ TimelineInv /\ ServiceInv /\ IdleInv /\ Inv' /\ [Next]_vars => IdleInv'
  BY OfferedStep, IdleStep DEF IdleInv
<1> QED
  BY <1>1, InitIdle, ServiceInvariant, PTL DEF Spec

-----------------------------------------------------------------------------
(* What an outside observer finds                                          *)

LEMMA NoneWaits ==
    ASSUME Inv, TimelineInv, ServiceInv, IdleInv, status = "ok", NEW p \in Procs
    PROVE  LET waiting == Resident(p) \ (IoTicks(p) \cup TicksOf(p, "run") \cup TicksOf(p, "cs"))
           IN  waiting \cap TicksOf(None, "idle") = {}
<1> SUFFICES ASSUME NEW x, x \in Resident(p), x \notin IoTicks(p), x \notin TicksOf(p, "run"),
                    x \notin TicksOf(p, "cs"), x \in TicksOf(None, "idle")
             PROVE  FALSE
  OBVIOUS
<1>1. /\ p \in Completed /\ outcome[p].completion >= 0 /\ log.fail = "ok" /\ IdleLog
      /\ Stands(p, log, outcome[p].completion, remaining[p], phase[p], outcome[p], -1)
  <2>1. p \in Completed /\ Standing(p) /\ log.fail = "ok" /\ outcome[p].completion >= 0
    BY DEF ServiceInv, Completed
  <2> QED BY <2>1, EdgeFacts DEF EdgesKnown, Standing, IdleInv
<1>2. phase[p] = Len(w.phases[p])
  BY <1>1 DEF Stands
<1>3. NotReady(p, x) /\ x \in Times
  <2>1. x \in Ticks(log, None, {"idle"})
    BY TicksRead
  <2>2. PICK c \in Cores : x \in On(log, c, None, {"idle"})
    BY <2>1 DEF Ticks
  <2> QED BY <1>1, <2>1, <2>2, OnCores DEF IdleLog, IdleSoFar
<1>4. outcome[p].completion \in Int /\ w.arrival[p] \in Nat /\ x \in Int
      /\ w.arrival[p] <= x /\ x < outcome[p].completion
  <2>1. outcome[p].completion \in Int /\ w.arrival[p] \in Nat /\ x \in Int
    BY <1>1, <1>3, ProcessTypes DEF Outcomes, Times
  <2> QED BY <2>1 DEF Resident
<1>5. x \notin Ticks(log, p, CpuKinds)
  <2>1. TicksOf(p, "run") = Ticks(log, p, {"run"}) /\ TicksOf(p, "cs") = Ticks(log, p, {"cs"})
    BY TicksRead
  <2>2. Ticks(log, p, {"run"}) \cup Ticks(log, p, {"cs"}) = Ticks(log, p, CpuKinds)
    BY DEF Ticks, On, CpuKinds
  <2> QED BY <2>1, <2>2
<1>6. ~OnCpu(p, x)
  <2>1. p \notin OnCore
    BY <1>1 DEF Inv, OnePlace
  <2> QED BY <1>5, <2>1 DEF OnCpu, OnCore, Running
<1>7. InIo(p, x)
  BY <1>3, <1>4, <1>6 DEF NotReady
<1>8. PICK k \in Nat \ {0}, t \in Times : LastTick(p, k, t) /\ t < x /\ x <= t + IoOf(p, k)
  BY <1>7 DEF InIo
<1>9. k \in 1..(NumBursts(p) - 1) /\ IoOf(p, k) \in Nat
  <2>1. NumBursts(p) \in Nat /\ Len(w.phases[p]) = 2 * NumBursts(p) - 1
    BY PhaseFacts, ProcessTypes
  <2>2. 2 * k < phase[p] /\ IoOf(p, k) \in Nat
    BY <1>8, ProcessTypes DEF LastTick
  <2> QED BY <1>2, <2>1, <2>2
<1>10. BurstEnd(p, k) = 1 + t
  <2>1. TicksOf(p, "run") = Ticks(log, p, {"run"})
    BY TicksRead
  <2>2. \A u : RunBy(p, u) = Cardinality(By(log, p, u))
    BY <2>1 DEF RunBy, By
  <2>3. \A u \in Ticks(log, p, {"run"}) : RunBy(p, u) = CpuUpTo(p, k) => u = t
    BY <1>8, <2>2, RanksDiffer DEF LastTick
  <2>4. (CHOOSE u \in TicksOf(p, "run") : RunBy(p, u) = CpuUpTo(p, k)) = t
    BY <1>8, <2>1, <2>2, <2>3 DEF LastTick
  <2> QED BY <2>4 DEF BurstEnd
<1>11. x \in (1 + t) .. (1 + t + IoOf(p, k) - 1)
  BY <1>4, <1>8, <1>9 DEF Times
<1>12. x \in IoTicks(p)
  BY <1>9, <1>10, <1>11 DEF IoTicks
<1> QED
  BY <1>12

(* Under every work-conserving policy that follows the protocol no core is *)
(* idle in a tick in which a process waits to run, on any number of cores: *)
(* dispatch fills the free cores at every instant, and between instants    *)
(* nothing becomes ready.                                                  *)
THEOREM NoIdleWhileReadyHolds == Spec => []NoIdleWhileReady
<1>1. CASE WorkConserving
  <2>1. Inv /\ TimelineInv /\ ServiceInv /\ IdleInv => NoIdleWhileReady
    BY NoneWaits DEF NoIdleWhileReady, Finished
  <2>2. Spec => [](Inv /\ TimelineInv /\ ServiceInv /\ IdleInv)
    BY <1>1, IdleInvariant
  <2> QED BY <2>1, <2>2, PTL
<1>2. CASE ~WorkConserving
  <2>1. NoIdleWhileReady
    BY <1>2 DEF NoIdleWhileReady
  <2> QED BY <2>1, PTL
<1> QED
  BY <1>1, <1>2

-----------------------------------------------------------------------------
(* Switches: what a timeline says about them                               *)

\* the last "run" segment of timeline t is one of p, or of another process
LastRan(t, p) ==
    \E i \in DOMAIN t : /\ t[i].kind = "run" /\ t[i].proc = p
                        /\ \A k \in (i + 1)..Len(t) : t[k].kind # "run"
Differs(t, p) ==
    \E i \in DOMAIN t : /\ t[i].kind = "run" /\ t[i].proc # p
                        /\ \A k \in (i + 1)..Len(t) : t[k].kind # "run"
NeverRan(t) == \A i \in DOMAIN t : t[i].kind # "run"
\* the change that a run of p after t is, if it is one
NewChange(t, p) == {j \in {Len(t) + 1} : Differs(t, p)}
EndsInCs(t) == t # <<>> /\ LastKind(t) = "cs"

\* every change of t so far is paid for, and nothing else is
Paid(t) ==
    /\ CsCost > 0 => \A j \in Changes(t) : t[j - 1].kind = "cs"
    /\ \A j \in DOMAIN t : t[j].kind = "cs" =>
         /\ t[j].end - t[j].start = CsCost
         /\ j < Len(t) => j + 1 \in Changes(t) /\ t[j + 1].proc = t[j].proc

LEMMA RanFacts ==
    ASSUME NEW t \in Seq(Segments), NEW p, NEW q
    PROVE  /\ NeverRan(t) => ~Differs(t, p)
           /\ LastRan(t, p) => ~Differs(t, p)
           /\ LastRan(t, q) /\ q # p => Differs(t, p)
<1>0. Len(t) \in Nat /\ DOMAIN t = 1..Len(t)
  OBVIOUS
<1>1. NeverRan(t) => ~Differs(t, p)
  BY DEF NeverRan, Differs
<1>2. LastRan(t, p) => ~Differs(t, p)
  <2> SUFFICES ASSUME NEW i \in DOMAIN t, t[i].kind = "run", t[i].proc = p,
                      \A k \in (i + 1)..Len(t) : t[k].kind # "run",
                      NEW j \in DOMAIN t, t[j].kind = "run", t[j].proc # p,
                      \A k \in (j + 1)..Len(t) : t[k].kind # "run"
               PROVE  FALSE
    BY DEF LastRan, Differs
  <2>1. i \in 1..Len(t) /\ j \in 1..Len(t)
    BY <1>0
  <2>2. ~(j \in (i + 1)..Len(t)) /\ ~(i \in (j + 1)..Len(t))
    OBVIOUS
  <2>3. i = j
    BY <1>0, <2>1, <2>2
  <2> QED BY <2>3
<1>3. LastRan(t, q) /\ q # p => Differs(t, p)
  BY DEF LastRan, Differs
<1> QED
  BY <1>1, <1>2, <1>3

\* the labels of the segments decide
LEMMA LabelsDecide ==
    ASSUME NEW t \in Seq(Segments), NEW u \in Seq(Segments), Len(u) = Len(t),
           \A i \in 1..Len(t) : u[i].kind = t[i].kind /\ u[i].proc = t[i].proc
    PROVE  /\ Changes(u) = Changes(t) /\ (NeverRan(u) <=> NeverRan(t))
           /\ \A p : (LastRan(u, p) <=> LastRan(t, p)) /\ (Differs(u, p) <=> Differs(t, p))
<1> DEFINE n == Len(t)
<1>0. /\ n \in Nat /\ DOMAIN t = 1..n /\ DOMAIN u = 1..n /\ Len(u) = n
      /\ \A i \in 1..n : u[i].kind = t[i].kind /\ u[i].proc = t[i].proc
  OBVIOUS
<1> HIDE DEF n
<1>1. \A i \in 1..n : (\A k \in (i + 1)..n : u[k].kind # "run")
                        <=> (\A k \in (i + 1)..n : t[k].kind # "run")
  <2>1. \A i \in 1..n : \A k \in (i + 1)..n : k \in 1..n
    BY <1>0
  <2> QED BY <1>0, <2>1
<1>2. \A j \in 1..n : \A i \in 1..(j - 1) :
        i \in 1..n /\ \A k \in (i + 1)..(j - 1) : k \in 1..n
  BY <1>0
<1>3. Changes(u) = Changes(t)
  <2>1. \A j \in 1..n : j \in Changes(u) <=> j \in Changes(t)
    <3> TAKE j \in 1..n
    <3>1. u[j].kind = t[j].kind /\ u[j].proc = t[j].proc
      BY <1>0
    <3>2. \A i \in 1..(j - 1) : /\ u[i].kind = t[i].kind /\ u[i].proc = t[i].proc
                               /\ \A k \in (i + 1)..(j - 1) : u[k].kind = t[k].kind
      BY <1>0, <1>2
    <3> QED BY <1>0, <3>1, <3>2 DEF Changes
  <2>2. Changes(u) \subseteq 1..n /\ Changes(t) \subseteq 1..n
    BY <1>0 DEF Changes
  <2> QED BY <2>1, <2>2
<1>4. NeverRan(u) <=> NeverRan(t)
  BY <1>0 DEF NeverRan
<1>5. \A p : LastRan(u, p) <=> LastRan(t, p)
  BY <1>0, <1>1 DEF LastRan, n
<1>6. \A p : Differs(u, p) <=> Differs(t, p)
  BY <1>0, <1>1 DEF Differs, n
<1> QED
  BY <1>3, <1>4, <1>5, <1>6

LEMMA AppendedLabels ==
    ASSUME NEW t \in Seq(Segments), NEW g \in Segments, NEW u, u = Append(t, g)
    PROVE  /\ u \in Seq(Segments) /\ Len(u) = Len(t) + 1 /\ u[Len(t) + 1] = g
           /\ \A i \in 1..Len(t) : u[i] = t[i]
           /\ g.kind # "run" =>
                /\ Changes(u) = Changes(t) /\ (NeverRan(u) <=> NeverRan(t))
                /\ \A p : (LastRan(u, p) <=> LastRan(t, p)) /\ (Differs(u, p) <=> Differs(t, p))
           /\ g.kind = "run" =>
                /\ LastRan(u, g.proc)
                /\ Changes(u) = Changes(t) \cup NewChange(t, g.proc)
<1> DEFINE n == Len(t)
<1>0. /\ n \in Nat /\ DOMAIN t = 1..n /\ DOMAIN u = 1..(n + 1) /\ u[n + 1] = g
      /\ u \in Seq(Segments) /\ Len(u) = n + 1 /\ \A i \in 1..n : u[i] = t[i]
  BY AppendProperties
<1> HIDE DEF n
<1>1. \A i \in 1..n : \A k \in (i + 1)..n : k \in 1..n
  BY <1>0
<1>2. \A j \in 1..n : \A i \in 1..(j - 1) :
        i \in 1..n /\ \A k \in (i + 1)..(j - 1) : k \in 1..n
  BY <1>0
<1>3. Changes(t) \subseteq 1..n /\ n + 1 \notin 1..n /\ Changes(u) \subseteq 1..(n + 1)
  BY <1>0 DEF Changes
<1>4. \A j \in 1..n : j \in Changes(u) <=> j \in Changes(t)
  <2> SUFFICES ASSUME NEW j \in 1..n PROVE j \in Changes(u) <=> j \in Changes(t)
    OBVIOUS
  <2>1. \A i \in 1..(j - 1) : u[i] = t[i] /\ \A k \in (i + 1)..(j - 1) : u[k] = t[k]
    BY <1>0, <1>2
  <2>2. u[j] = t[j] /\ j \in DOMAIN u /\ j \in DOMAIN t
    BY <1>0
  <2> QED BY <2>1, <2>2 DEF Changes
<1>5. n + 1 \in Changes(u) <=> g.kind = "run" /\ Differs(t, g.proc)
  <2>1. n + 1 - 1 = n /\ n + 1 \in DOMAIN u
    BY <1>0
  <2>2. n + 1 \in Changes(u) <=>
          \E i \in 1..n : /\ u[i].kind = "run" /\ g.kind = "run" /\ u[i].proc # g.proc
                          /\ \A k \in (i + 1)..n : u[k].kind # "run"
    BY <1>0, <2>1 DEF Changes
  <2> QED BY <1>0, <1>1, <2>2 DEF Differs, n
<1>6. g.kind # "run" =>
        /\ Changes(u) = Changes(t) /\ (NeverRan(u) <=> NeverRan(t))
        /\ \A p : (LastRan(u, p) <=> LastRan(t, p)) /\ (Differs(u, p) <=> Differs(t, p))
  <2> SUFFICES ASSUME g.kind # "run"
               PROVE  /\ Changes(u) = Changes(t) /\ (NeverRan(u) <=> NeverRan(t))
                      /\ \A p : (LastRan(u, p) <=> LastRan(t, p))
                                /\ (Differs(u, p) <=> Differs(t, p))
    OBVIOUS
  <2>1. Changes(u) = Changes(t)
    <3>1. n + 1 \notin Changes(u)
      BY <1>5
    <3>2. \A j \in Changes(u) : j \in 1..n
      BY <1>0, <1>3, <3>1
    <3> QED BY <1>3, <1>4, <3>2
  <2>2. \A i \in 1..(n + 1) : i \in 1..n \/ i = n + 1
    BY <1>0
  <2>3. NeverRan(u) <=> NeverRan(t)
    BY <1>0, <2>2 DEF NeverRan
  <2>4. \A i \in 1..n : (\A k \in (i + 1)..(n + 1) : u[k].kind # "run")
                          <=> (\A k \in (i + 1)..n : t[k].kind # "run")
    <3> TAKE i \in 1..n
    <3>1. \A k \in (i + 1)..(n + 1) : k \in (i + 1)..n \/ k = n + 1
      BY <1>0
    <3>2. \A k \in (i + 1)..n : k \in (i + 1)..(n + 1) /\ u[k] = t[k]
      BY <1>0, <1>1
    <3> QED BY <1>0, <3>1, <3>2
  <2>5. \A p : LastRan(u, p) <=> LastRan(t, p)
    BY <1>0, <2>2, <2>4 DEF LastRan, n
  <2>6. \A p : Differs(u, p) <=> Differs(t, p)
    BY <1>0, <2>2, <2>4 DEF Differs, n
  <2> QED BY <2>1, <2>3, <2>5, <2>6
<1>7. g.kind = "run" =>
        /\ LastRan(u, g.proc)
        /\ Changes(u) = Changes(t) \cup NewChange(t, g.proc)
  <2> SUFFICES ASSUME g.kind = "run"
               PROVE  /\ LastRan(u, g.proc)
                      /\ Changes(u) = Changes(t) \cup NewChange(t, g.proc)
    OBVIOUS
  <2>1. \A k \in (n + 1 + 1)..(n + 1) : FALSE
    BY <1>0
  <2>2. LastRan(u, g.proc)
    BY <1>0, <2>1 DEF LastRan
  <2>3. \A i \in 1..(n + 1) : i \in 1..n \/ i = n + 1
    BY <1>0
  <2> QED BY <1>3, <1>4, <1>5, <2>2, <2>3 DEF NewChange, n
<1> QED
  BY <1>0, <1>6, <1>7 DEF n

LEMMA AppendedRun ==
    ASSUME NEW t \in Seq(Segments), NEW g \in Segments
    PROVE  /\ g.kind # "run" => Changes(Append(t, g)) = Changes(t)
           /\ g.kind = "run" =>
                /\ LastRan(Append(t, g), g.proc)
                /\ Changes(Append(t, g)) = Changes(t) \cup NewChange(t, g.proc)
<1> DEFINE u == Append(t, g)
           a == LastRan(u, g.proc)
           b == Changes(u) = Changes(t) \cup NewChange(t, g.proc)
           d == Changes(u) = Changes(t)
<1>1. u = Append(t, g)
  OBVIOUS
<1> HIDE DEF u
<1>2. (g.kind = "run" => a /\ b) /\ (g.kind # "run" => d)
  BY ONLY t \in Seq(Segments), g \in Segments, <1>1, AppendedLabels
<1> QED
  BY <1>2 DEF u

\* Paid carries over to a timeline that differs in the end of a last segment
\* of another kind than "cs"
LEMMA ExtendedPaid ==
    ASSUME NEW t \in Seq(Segments), NEW u \in Seq(Segments), Len(u) = Len(t), t # <<>>,
           \A i \in 1..Len(t) : u[i].kind = t[i].kind /\ u[i].proc = t[i].proc,
           \A i \in 1..(Len(t) - 1) : u[i] = t[i],
           ~EndsInCs(t), Paid(t)
    PROVE  Paid(u) /\ ~EndsInCs(u)
<1> DEFINE n == Len(t)
<1>0. /\ n \in Nat /\ n >= 1 /\ DOMAIN t = 1..n /\ DOMAIN u = 1..n /\ Len(u) = n
      /\ \A i \in 1..n : u[i].kind = t[i].kind /\ u[i].proc = t[i].proc
      /\ \A i \in 1..(n - 1) : u[i] = t[i]
  OBVIOUS
<1>1. t[n].kind # "cs" /\ n \in 1..n
  BY <1>0 DEF EndsInCs, LastKind
<1>2. Changes(u) = Changes(t)
  BY LabelsDecide
<1> HIDE DEF n
<1>3. \A j \in Changes(t) : j - 1 \in 1..n
  <2> SUFFICES ASSUME NEW j \in Changes(t) PROVE j - 1 \in 1..n
    OBVIOUS
  <2>1. j \in 1..n /\ \E i \in 1..(j - 1) : TRUE
    BY <1>0 DEF Changes
  <2> QED BY <1>0, <2>1
<1>4. CsCost > 0 => \A j \in Changes(u) : u[j - 1].kind = "cs"
  BY <1>0, <1>2, <1>3 DEF Paid
<1>5. \A j \in DOMAIN u : u[j].kind = "cs" =>
        /\ u[j].end - u[j].start = CsCost
        /\ j < Len(u) => j + 1 \in Changes(u) /\ u[j + 1].proc = u[j].proc
  <2> SUFFICES ASSUME NEW j \in 1..n, u[j].kind = "cs"
               PROVE  /\ u[j].end - u[j].start = CsCost
                      /\ j < n => j + 1 \in Changes(u) /\ u[j + 1].proc = u[j].proc
    BY <1>0
  <2>1. t[j].kind = "cs" /\ j # n
    BY <1>0, <1>1
  <2>2. j \in 1..(n - 1) /\ j + 1 \in 1..n
    BY <1>0, <2>1
  <2>3. u[j] = t[j] /\ u[j + 1].proc = t[j + 1].proc
    BY <1>0, <2>2
  <2>4. /\ t[j].end - t[j].start = CsCost
        /\ j < n => j + 1 \in Changes(t) /\ t[j + 1].proc = t[j].proc
    BY <1>0, <2>1 DEF Paid, n
  <2> QED BY <1>2, <2>3, <2>4
<1>6. ~EndsInCs(u)
  BY <1>0, <1>1 DEF EndsInCs, LastKind
<1> QED
  BY <1>4, <1>5, <1>6 DEF Paid

LEMMA AppendedPaid ==
    ASSUME NEW t \in Seq(Segments), NEW g \in Segments, NEW u, u = Append(t, g), Paid(t),
           g.kind = "cs" => g.end - g.start = CsCost,
           g.kind # "run" => ~EndsInCs(t),
           g.kind = "run" /\ EndsInCs(t) => Differs(t, g.proc) /\ t[Len(t)].proc = g.proc,
           g.kind = "run" /\ Differs(t, g.proc) /\ CsCost > 0 => EndsInCs(t)
    PROVE  Paid(u) /\ (EndsInCs(u) <=> g.kind = "cs") /\ u[Len(u)] = g
<1> DEFINE n == Len(t)
<1>0. /\ n \in Nat /\ DOMAIN t = 1..n /\ DOMAIN u = 1..(n + 1) /\ Len(u) = n + 1
      /\ u[n + 1] = g /\ \A i \in 1..n : u[i] = t[i]
  BY AppendProperties
<1>1. /\ g.kind # "run" => Changes(u) = Changes(t)
      /\ g.kind = "run" => Changes(u) = Changes(t) \cup NewChange(t, g.proc)
  BY AppendedRun
<1>2. EndsInCs(t) <=> n >= 1 /\ t[n].kind = "cs"
  BY <1>0 DEF EndsInCs, LastKind
<1>3. EndsInCs(u) <=> g.kind = "cs"
  BY <1>0 DEF EndsInCs, LastKind
<1>4. g.kind = "run" /\ Differs(t, g.proc) /\ CsCost > 0 => n >= 1 /\ t[n].kind = "cs"
  BY <1>2
<1>5. /\ g.kind # "run" => ~(n >= 1 /\ t[n].kind = "cs")
      /\ g.kind = "run" /\ n >= 1 /\ t[n].kind = "cs" =>
           Differs(t, g.proc) /\ t[n].proc = g.proc
  BY <1>2
<1> HIDE DEF n
<1>6. \A j \in Changes(t) : j - 1 \in 1..n
  <2> SUFFICES ASSUME NEW j \in Changes(t) PROVE j - 1 \in 1..n
    OBVIOUS
  <2>1. j \in 1..n /\ \E i \in 1..(j - 1) : TRUE
    BY <1>0 DEF Changes
  <2> QED BY <1>0, <2>1
<1>7. CsCost > 0 => \A j \in Changes(u) : u[j - 1].kind = "cs"
  <2> SUFFICES ASSUME CsCost > 0, NEW j \in Changes(u) PROVE u[j - 1].kind = "cs"
    OBVIOUS
  <2>1. CASE j \in Changes(t)
    BY <1>0, <1>6, <2>1 DEF Paid
  <2>2. CASE j \notin Changes(t)
    <3>1. j = n + 1 /\ g.kind = "run" /\ Differs(t, g.proc)
      BY <1>1, <2>2 DEF NewChange, n
    <3>2. n >= 1 /\ t[n].kind = "cs" /\ j - 1 = n
      BY <1>0, <1>4, <3>1
    <3>3. n \in 1..n
      BY <1>0, <3>2
    <3> QED BY <1>0, <3>2, <3>3
  <2> QED BY <2>1, <2>2
<1>8. \A j \in DOMAIN u : u[j].kind = "cs" =>
        /\ u[j].end - u[j].start = CsCost
        /\ j < Len(u) => j + 1 \in Changes(u) /\ u[j + 1].proc = u[j].proc
  <2> SUFFICES ASSUME NEW j \in 1..(n + 1), u[j].kind = "cs"
               PROVE  /\ u[j].end - u[j].start = CsCost
                      /\ j < n + 1 => j + 1 \in Changes(u) /\ u[j + 1].proc = u[j].proc
    BY <1>0
  <2>1. CASE j = n + 1
    BY <1>0, <2>1
  <2>2. CASE j \in 1..n /\ j < n
    <3>1. t[j].kind = "cs" /\ u[j] = t[j] /\ j \in DOMAIN t
      BY <1>0, <2>2
    <3>2. /\ t[j].end - t[j].start = CsCost
          /\ j + 1 \in Changes(t) /\ t[j + 1].proc = t[j].proc
      BY <2>2, <3>1 DEF Paid, n
    <3>3. j + 1 \in 1..n
      BY <1>0, <2>2
    <3> QED BY <1>0, <1>1, <3>1, <3>2, <3>3
  <2>3. CASE j = n /\ n >= 1
    <3>1. j \in 1..n
      BY <1>0, <2>3
    <3>2. t[n].kind = "cs" /\ u[n] = t[n]
      BY <1>0, <2>3, <3>1
    <3>3. g.kind = "run" /\ Differs(t, g.proc) /\ t[n].proc = g.proc
      BY <1>5, <2>3, <3>2
    <3>4. n + 1 \in Changes(u) /\ t[n].end - t[n].start = CsCost
      BY <1>0, <1>1, <2>3, <3>1, <3>2, <3>3 DEF Paid, NewChange, n
    <3> QED BY <1>0, <2>3, <3>2, <3>3, <3>4
  <2> QED BY <1>0, <2>1, <2>2, <2>3
<1> QED
  BY <1>0, <1>3, <1>7, <1>8 DEF Paid

(* An idle or "cs" segment changes nothing but itself.                     *)
LEMMA OtherSegment ==
    ASSUME NEW l \in Logs, NEW c \in Cores, NEW g \in Segments, NEW m \in AppendSegment(l, c, g),
           m.fail = "ok", g.kind # "run", g.kind = "cs" => g.end - g.start = CsCost,
           ~EndsInCs(l.timelines[c]), Paid(l.timelines[c])
    PROVE  LET t == l.timelines[c]
               u == m.timelines[c]
           IN  /\ Changes(u) = Changes(t) /\ (NeverRan(u) <=> NeverRan(t)) /\ Paid(u)
               /\ \A p : (LastRan(u, p) <=> LastRan(t, p)) /\ (Differs(u, p) <=> Differs(t, p))
               /\ g.kind = "cs" /\ g.start < g.end => EndsInCs(u) /\ u[Len(u)].proc = g.proc
               /\ g.kind # "cs" => ~EndsInCs(u)
<1> DEFINE t == l.timelines[c]
           u == m.timelines[c]
           n == Len(t)
<1>0. t \in Seq(Segments) /\ l.timelines \in [Cores -> Seq(Segments)]
  BY DEF Logs
<1>1. CASE Dropped(l, g, m)
  <2>1. u = t /\ l.fail = "ok" /\ g.start >= g.end
    BY <1>1 DEF Dropped
  <2>2. ~(g.start < g.end)
    BY <2>1 DEF Segments, Times
  <2> QED BY <2>1, <2>2
<1>2. CASE Refused(l, g, m)
  BY <1>2 DEF Refused
<1>3. CASE Merged(l, c, g, m)
  <2>1. /\ t # <<>> /\ SameLabel(t[n], g)
        /\ m = [l EXCEPT !.timelines[c] = [t EXCEPT ![n].end = g.end]]
    BY <1>3 DEF Merged
  <2>2. u = [t EXCEPT ![n].end = g.end]
    BY <1>0, <2>1 DEF Logs
  <2>3. n \in DOMAIN t /\ t[n] \in Segments /\ g.end \in Times /\ DOMAIN t = 1..n /\ n \in Nat
    <3>1. g.end \in Times
      BY DEF Segments
    <3> QED BY <1>0, <2>1, <3>1
  <2>4. [t[n] EXCEPT !.end = g.end] \in Segments
    BY <2>3 DEF Segments
  <2>5. /\ u \in Seq(Segments) /\ Len(u) = n
        /\ u[n].kind = t[n].kind /\ u[n].proc = t[n].proc /\ \A i \in 1..(n - 1) : u[i] = t[i]
    BY <1>0, <2>2, <2>3, <2>4 DEF Segments
  <2>6. \A i \in 1..n : u[i].kind = t[i].kind /\ u[i].proc = t[i].proc
    <3> TAKE i \in 1..n
    <3>1. i = n \/ i \in 1..(n - 1)
      BY <2>3
    <3> QED BY <2>5, <3>1
  <2>7. g.kind # "cs"
    BY <2>1 DEF SameLabel, EndsInCs, LastKind
  <2> HIDE DEF t, u
  <2>8. Paid(u) /\ ~EndsInCs(u)
    BY <1>0, <2>1, <2>5, <2>6, ExtendedPaid DEF n, t
  <2>9. /\ Changes(u) = Changes(t) /\ (NeverRan(u) <=> NeverRan(t))
        /\ \A p : (LastRan(u, p) <=> LastRan(t, p)) /\ (Differs(u, p) <=> Differs(t, p))
    BY <1>0, <2>5, <2>6, LabelsDecide
  <2> QED BY <2>7, <2>8, <2>9 DEF t, u
<1>4. CASE Added(l, c, g, m)
  <2>1. m = [l EXCEPT !.timelines[c] = Append(t, g), !.segments = @ + 1]
    BY <1>4 DEF Added
  <2>2. u = Append(t, g)
    BY <1>0, <2>1 DEF Logs
  <2>3. ~EndsInCs(t) /\ Paid(t)
    OBVIOUS
  <2> HIDE DEF t, u
  <2>4. Paid(u) /\ (EndsInCs(u) <=> g.kind = "cs") /\ u[Len(u)] = g
    BY <1>0, <2>2, <2>3, AppendedPaid
  <2>5. /\ Changes(u) = Changes(t) /\ (NeverRan(u) <=> NeverRan(t))
        /\ \A p : (LastRan(u, p) <=> LastRan(t, p)) /\ (Differs(u, p) <=> Differs(t, p))
    <3>1. \A x \in Segments : x.kind # "run" =>
            /\ Changes(Append(t, x)) = Changes(t) /\ (NeverRan(Append(t, x)) <=> NeverRan(t))
            /\ \A p : /\ LastRan(Append(t, x), p) <=> LastRan(t, p)
                      /\ Differs(Append(t, x), p) <=> Differs(t, p)
      <4> TAKE x \in Segments
      <4> QED BY <1>0, AppendedLabels
    <3> QED BY <2>2, <3>1
  <2> QED BY <2>4, <2>5 DEF t, u
<1> QED
  BY <1>1, <1>2, <1>3, <1>4, AppendCases

(* A "run" segment is a change if the core ran another process before, and *)
(* pays for the "cs" segment it follows.                                   *)
LEMMA RunSegment ==
    ASSUME NEW l \in Logs, NEW c \in Cores, NEW g \in Segments, NEW m \in AppendSegment(l, c, g),
           m.fail = "ok", g.kind = "run", g.start < g.end, Paid(l.timelines[c]),
           EndsInCs(l.timelines[c]) =>
             Differs(l.timelines[c], g.proc)
             /\ l.timelines[c][Len(l.timelines[c])].proc = g.proc,
           Differs(l.timelines[c], g.proc) /\ CsCost > 0 => EndsInCs(l.timelines[c])
    PROVE  LET t == l.timelines[c]
               u == m.timelines[c]
           IN  /\ LastRan(u, g.proc) /\ Paid(u) /\ ~EndsInCs(u)
               /\ Changes(u) = Changes(t) \cup NewChange(t, g.proc)
<1> DEFINE t == l.timelines[c]
           u == m.timelines[c]
           n == Len(t)
<1>0. t \in Seq(Segments) /\ l.timelines \in [Cores -> Seq(Segments)]
  BY DEF Logs
<1>1. CASE Dropped(l, g, m)
  <2>1. m = l /\ (g.start >= g.end \/ l.fail # "ok")
    BY <1>1 DEF Dropped
  <2>2. g.start \in Int /\ g.end \in Int
    BY DEF Segments, Times
  <2> QED BY <2>1, <2>2
<1>2. CASE Refused(l, g, m)
  BY <1>2 DEF Refused
<1>3. CASE Merged(l, c, g, m)
  <2>1. /\ t # <<>> /\ SameLabel(t[n], g)
        /\ m = [l EXCEPT !.timelines[c] = [t EXCEPT ![n].end = g.end]]
    BY <1>3 DEF Merged
  <2>2. u = [t EXCEPT ![n].end = g.end]
    BY <1>0, <2>1 DEF Logs
  <2>3. n \in DOMAIN t /\ t[n] \in Segments /\ g.end \in Times /\ DOMAIN t = 1..n /\ n \in Nat
    <3>1. g.end \in Times
      BY DEF Segments
    <3> QED BY <1>0, <2>1, <3>1
  <2>4. [t[n] EXCEPT !.end = g.end] \in Segments
    BY <2>3 DEF Segments
  <2>5. /\ u \in Seq(Segments) /\ Len(u) = n
        /\ u[n].kind = t[n].kind /\ u[n].proc = t[n].proc /\ \A i \in 1..(n - 1) : u[i] = t[i]
    BY <1>0, <2>2, <2>3, <2>4 DEF Segments
  <2>6. \A i \in 1..n : u[i].kind = t[i].kind /\ u[i].proc = t[i].proc
    <3> TAKE i \in 1..n
    <3>1. i = n \/ i \in 1..(n - 1)
      BY <2>3
    <3> QED BY <2>5, <3>1
  <2>7. t[n].kind = "run" /\ t[n].proc = g.proc
    BY <2>1 DEF SameLabel
  <2>8. ~EndsInCs(t) /\ Paid(t)
    BY <2>7 DEF EndsInCs, LastKind
  <2> HIDE DEF t, u
  <2>9. LastRan(t, g.proc)
    <3>1. \A k \in (n + 1)..n : FALSE
      BY <2>3
    <3> QED BY <2>3, <2>7, <3>1 DEF LastRan
  <2>10. ~Differs(t, g.proc)
    BY <1>0, <2>9, RanFacts
  <2>11. Paid(u) /\ ~EndsInCs(u)
    BY <1>0, <2>1, <2>5, <2>6, <2>8, ExtendedPaid DEF n
  <2>12. Changes(u) = Changes(t) /\ LastRan(u, g.proc)
    BY <1>0, <2>5, <2>6, <2>9, LabelsDecide
  <2> QED BY <2>10, <2>11, <2>12 DEF t, u, NewChange
<1>4. CASE Added(l, c, g, m)
  <2>1. m = [l EXCEPT !.timelines[c] = Append(t, g), !.segments = @ + 1]
    BY <1>4 DEF Added
  <2>2. u = Append(t, g)
    BY <1>0, <2>1 DEF Logs
  <2>3. /\ Paid(t) /\ (EndsInCs(t) => Differs(t, g.proc) /\ t[Len(t)].proc = g.proc)
        /\ (Differs(t, g.proc) /\ CsCost > 0 => EndsInCs(t))
    OBVIOUS
  <2> HIDE DEF t, u
  <2>4. Paid(u) /\ (EndsInCs(u) <=> g.kind = "cs") /\ u[Len(u)] = g
    BY <1>0, <2>2, <2>3, AppendedPaid
  <2>5. LastRan(u, g.proc) /\ Changes(u) = Changes(t) \cup NewChange(t, g.proc)
    <3> DEFINE h == g
    <3> HIDE DEF h
    <3>1. h \in Segments /\ h.kind = "run"
      BY DEF h
    <3>2. /\ LastRan(Append(t, h), h.proc)
          /\ Changes(Append(t, h)) = Changes(t) \cup NewChange(t, h.proc)
      BY ONLY <1>0, <3>1, AppendedRun
    <3> QED BY <2>2, <3>2 DEF h
  <2> QED BY <2>4, <2>5 DEF t, u
<1> QED
  BY <1>1, <1>2, <1>3, <1>4, AppendCases

-----------------------------------------------------------------------------
(* Switches: the invariant                                                 *)

\* the changes of core c: those of its timeline, and (as 0) the one that the
\* slice it has not logged yet will be
MadeOn(c) ==
    Changes(log.timelines[c])
    \cup {j \in {0} : ~Free(c) /\ Differs(log.timelines[c], core[c].proc)}
Made == [c \in Cores |-> MadeOn(c)]
Pairs(f) == UNION {{<<c, j>> : j \in f[c]} : c \in Cores}

CoreSwitches(c) ==
    LET t == log.timelines[c] IN
    /\ Paid(t)
    /\ Free(c) => /\ core[c].context = None => NeverRan(t)
                  /\ core[c].context # None => LastRan(t, core[c].context)
                  /\ ~EndsInCs(t)
    /\ ~Free(c) => /\ Differs(t, core[c].proc) /\ CsCost > 0 => EndsInCs(t)
                   /\ EndsInCs(t) => Differs(t, core[c].proc) /\ t[Len(t)].proc = core[c].proc

SwitchLog ==
    /\ IsFiniteSet(Pairs(Made)) /\ switches = Cardinality(Pairs(Made))
    /\ \A c \in Cores : CoreSwitches(c)

SwitchInv ==
    /\ stage # "done" \/ status = "ok" =>
         csTime = CsCost * switches /\ (log.fail = "ok" => SwitchLog)
    /\ status = "ok" => log.fail = "ok" /\ \A c \in Cores : Free(c)

LEMMA PairsMember ==
    ASSUME NEW f
    PROVE  /\ \A c \in Cores : \A j : <<c, j>> \in Pairs(f) <=> j \in f[c]
           /\ \A x \in Pairs(f) : \E c \in Cores : \E j \in f[c] : x = <<c, j>>
BY DEF Pairs

LEMMA PairsSame ==
    ASSUME NEW f, NEW g, \A c \in Cores : f[c] = g[c]
    PROVE  Pairs(f) = Pairs(g)
BY DEF Pairs

LEMMA PairsAdded ==
    ASSUME NEW f, NEW g, NEW c \in Cores, NEW j, j \notin f[c], g[c] = f[c] \cup {j},
           \A d \in Cores \ {c} : g[d] = f[d], IsFiniteSet(Pairs(f)) \/ IsFiniteSet(Pairs(g))
    PROVE  /\ IsFiniteSet(Pairs(f)) /\ IsFiniteSet(Pairs(g))
           /\ Cardinality(Pairs(f)) \in Nat
           /\ Cardinality(Pairs(g)) = Cardinality(Pairs(f)) + 1
<1>1. Pairs(g) = Pairs(f) \cup {<<c, j>>}
  <2>1. \A x \in Pairs(g) : x \in Pairs(f) \cup {<<c, j>>}
    <3> SUFFICES ASSUME NEW x \in Pairs(g) PROVE x \in Pairs(f) \cup {<<c, j>>}
      OBVIOUS
    <3>1. PICK d \in Cores : \E i \in g[d] : x = <<d, i>>
      BY PairsMember
    <3>2. PICK i \in g[d] : x = <<d, i>>
      BY <3>1
    <3>3. CASE i \in f[d]
      BY <3>2, <3>3, PairsMember
    <3>4. CASE i \notin f[d]
      BY <3>2, <3>4
    <3> QED BY <3>3, <3>4
  <2>2. \A x \in Pairs(f) : x \in Pairs(g)
    <3> SUFFICES ASSUME NEW x \in Pairs(f) PROVE x \in Pairs(g)
      OBVIOUS
    <3>1. PICK d \in Cores : \E i \in f[d] : x = <<d, i>>
      BY PairsMember
    <3>2. PICK i \in f[d] : x = <<d, i>>
      BY <3>1
    <3>3. i \in g[d]
      OBVIOUS
    <3> QED BY <3>2, <3>3, PairsMember
  <2>3. <<c, j>> \in Pairs(g)
    BY PairsMember
  <2> QED BY <2>1, <2>2, <2>3
<1>2. <<c, j>> \notin Pairs(f)
  BY PairsMember
<1>3. IsFiniteSet(Pairs(f))
  BY <1>1, FS_Subset
<1> QED
  BY <1>1, <1>2, <1>3, FS_AddElement, FS_CardinalityType

LEMMA PairsReplaced ==
    ASSUME NEW f, NEW g, NEW c \in Cores, NEW i, NEW j, NEW S, i \notin S, j \notin S,
           f[c] = S \cup {i}, g[c] = S \cup {j},
           \A d \in Cores \ {c} : g[d] = f[d], IsFiniteSet(Pairs(f))
    PROVE  IsFiniteSet(Pairs(g)) /\ Cardinality(Pairs(g)) = Cardinality(Pairs(f))
<1> DEFINE h == [d \in Cores |-> IF d = c THEN S ELSE f[d]]
<1>1. h[c] = S /\ \A d \in Cores \ {c} : h[d] = f[d]
  OBVIOUS
<1> HIDE DEF h
<1>2. IsFiniteSet(Pairs(h)) /\ Cardinality(Pairs(f)) = Cardinality(Pairs(h)) + 1
  <2>1. f[c] = h[c] \cup {i} /\ i \notin h[c] /\ \A d \in Cores \ {c} : f[d] = h[d]
    BY <1>1
  <2> QED BY <2>1, PairsAdded
<1>3. IsFiniteSet(Pairs(g)) /\ Cardinality(Pairs(g)) = Cardinality(Pairs(h)) + 1
  <2>1. g[c] = h[c] \cup {j} /\ j \notin h[c] /\ \A d \in Cores \ {c} : g[d] = h[d]
    BY <1>1
  <2> QED BY <1>2, <2>1, PairsAdded
<1> QED
  BY <1>2, <1>3

\* changes are counted from 2: neither the slice under way nor the next segment
LEMMA ChangesType ==
    ASSUME NEW t \in Seq(Segments)
    PROVE  Changes(t) \subseteq 1..Len(t) /\ 0 \notin Changes(t) /\ Len(t) + 1 \notin Changes(t)
<1>1. Len(t) \in Nat /\ DOMAIN t = 1..Len(t)
  OBVIOUS
<1> QED
  BY <1>1 DEF Changes

LEMMA InitSwitches == Init => SwitchInv
<1> SUFFICES ASSUME Init PROVE SwitchInv
  OBVIOUS
<1>1. /\ switches = 0 /\ csTime = 0 /\ stage = "create" /\ status = "running"
      /\ \A c \in Cores : log.timelines[c] = <<>>
      /\ \A c \in Cores : core[c].context = None /\ core[c].proc = None
  BY DEF Init, EngineInit, FreshCore
<1>2. \A c \in Cores : Made[c] = {}
  <2> SUFFICES ASSUME NEW c \in Cores PROVE MadeOn(c) = {}
    BY DEF Made
  <2>1. Changes(log.timelines[c]) = {}
    BY <1>1 DEF Changes
  <2> QED BY <1>1, <2>1 DEF MadeOn, Free
<1>3. Pairs(Made) = {}
  BY <1>2, PairsMember
<1>4. \A c \in Cores : CoreSwitches(c)
  <2> SUFFICES ASSUME NEW c \in Cores PROVE CoreSwitches(c)
    OBVIOUS
  <2>1. Changes(<<>>) = {} /\ NeverRan(<<>>) /\ ~EndsInCs(<<>>)
    BY DEF Changes, NeverRan, EndsInCs
  <2>2. Paid(<<>>)
    BY <2>1 DEF Paid
  <2> QED BY <1>1, <2>1, <2>2 DEF CoreSwitches, Free
<1>5. csTime = CsCost * switches
  BY <1>1, EngineAssumption
<1> QED
  BY <1>1, <1>3, <1>4, <1>5, FS_EmptySet DEF SwitchInv, SwitchLog

\* steps that log nothing, and give and take no core
LEMMA QuietSwitches ==
    ASSUME SwitchInv, stage # "done" \/ status = "ok", status' = status,
           stage' # "done" \/ status = "ok", UNCHANGED <<switches, csTime>>,
           log'.timelines = log.timelines, log'.fail = "ok" => log.fail = "ok",
           status = "ok" => log' = log,
           \A c \in Cores : core'[c].proc = core[c].proc /\ core'[c].context = core[c].context
    PROVE  SwitchInv'
<1>1. \A c \in Cores : Free(c)' <=> Free(c)
  BY DEF Free
<1>2. \A c \in Cores : MadeOn(c)' = MadeOn(c)
  BY <1>1 DEF MadeOn
<1>3. Made' = Made
  BY <1>2 DEF Made
<1>4. \A c \in Cores : CoreSwitches(c) => CoreSwitches(c)'
  BY <1>1 DEF CoreSwitches
<1>5. SwitchLog => SwitchLog'
  BY <1>3, <1>4 DEF SwitchLog
<1> QED
  BY <1>1, <1>5 DEF SwitchInv

\* a step on core c alone, while the log is complete
LEMMA OneCoreMade ==
    ASSUME NEW c \in Cores,
           \A d \in Cores \ {c} : core'[d] = core[d] /\ log'.timelines[d] = log.timelines[d]
    PROVE  /\ Made[c] = MadeOn(c) /\ Made'[c] = MadeOn(c)'
           /\ \A d \in Cores \ {c} : Made'[d] = Made[d] /\ (CoreSwitches(d) => CoreSwitches(d)')
<1>1. \A d \in Cores \ {c} : MadeOn(d)' = MadeOn(d) /\ (CoreSwitches(d) => CoreSwitches(d)')
  <2> TAKE d \in Cores \ {c}
  <2>1. core'[d] = core[d] /\ log'.timelines[d] = log.timelines[d]
    OBVIOUS
  <2>2. MadeOn(d)' = MadeOn(d)
    BY <2>1 DEF MadeOn, Free
  <2>3. CoreSwitches(d) => CoreSwitches(d)'
    BY <2>1 DEF CoreSwitches, Free
  <2> QED BY <2>2, <2>3
<1> QED
  BY <1>1 DEF Made

LEMMA EndRunSwitches ==
    ASSUME Inv, TimelineInv, ContextInv, SwitchInv, NEW c \in Cores, EndRun(c),
           NEW l \in LogRun(c), NEW io, log' \in {l, NoteOverflow(l, now, io)}
    PROVE  SwitchInv'
<1> DEFINE p == core[c].proc
           t == log.timelines[c]
           u == log'.timelines[c]
           g == Segment(core[c].runStart, now, p, "run")
<1>1. /\ c \in Running /\ core[c] \in CoreStructs /\ stage \in {"ends", "interrupts"}
      /\ 1 <= Ran(c) /\ now \in Times /\ log \in Logs /\ p \in Procs
      /\ core \in [Cores -> CoreStructs]
  BY SliceEndFacts DEF EndRun, Inv, TypeOK
<1>2. g \in Segments /\ g.kind = "run" /\ g.proc = p /\ g.start < g.end
  BY <1>1 DEF Segment, Segments, CoreStructs, Ran, Times
<1>3. l \in AppendSegment(log, c, g)
  BY DEF LogRun
<1> HIDE DEF g
<1>4. l \in Logs
  BY <1>1, <1>2, <1>3, AppendSegmentType
<1>5. log'.timelines = l.timelines /\ (log'.fail = "ok" => l.fail = "ok")
  BY <1>4 DEF NoteOverflow, Logs
<1>6. /\ switches' = switches /\ csTime' = csTime /\ stage' = stage /\ status' = status
      /\ \A d \in Cores \ {c} : core'[d] = core[d]
  BY EndRunFacts DEF EndRun
<1>7. core'[c].proc = None /\ core'[c].context = p /\ p # None
  <2>1. core'[c] = [core[c] EXCEPT !.proc = None, !.freeSince = now]
    BY <1>1 DEF EndRun
  <2>2. core[c].context = p
    BY <1>1 DEF ContextInv, Running
  <2> QED BY <1>1, <2>1, <2>2, EngineAssumption DEF CoreStructs
<1>8. status = "running" /\ csTime = CsCost * switches /\ (log.fail = "ok" => SwitchLog)
  BY <1>1 DEF TimelineInv, SwitchInv
<1>9. ASSUME log'.fail = "ok" PROVE SwitchLog'
  <2>1. /\ log.fail = "ok" /\ l.fail = "ok"
        /\ \A d \in Cores \ {c} : l.timelines[d] = log.timelines[d]
    BY <1>1, <1>2, <1>3, <1>5, <1>9, AppendKinds
  <2>2. SwitchLog /\ CoreSwitches(c) /\ ~Free(c)
    BY <1>1, <1>8, <2>1 DEF SwitchLog, Running, Busy
  <2>3. /\ Paid(t) /\ (Differs(t, p) /\ CsCost > 0 => EndsInCs(t))
        /\ EndsInCs(t) => Differs(t, p) /\ t[Len(t)].proc = p
    BY <2>2 DEF CoreSwitches
  <2>4. LastRan(u, p) /\ Paid(u) /\ ~EndsInCs(u) /\ Changes(u) = Changes(t) \cup NewChange(t, p)
    BY <1>1, <1>2, <1>3, <1>5, <2>1, <2>3, RunSegment
  <2>5. /\ Made[c] = MadeOn(c) /\ Made'[c] = MadeOn(c)'
        /\ \A d \in Cores \ {c} : Made'[d] = Made[d] /\ (CoreSwitches(d) => CoreSwitches(d)')
    BY <1>5, <1>6, <2>1, OneCoreMade
  <2>6. CoreSwitches(c)'
    <3>1. core'[c].context # None
      BY <1>7
    <3> QED BY <1>7, <2>4, <3>1 DEF CoreSwitches, Free
  <2>7. MadeOn(c)' = Changes(t) \cup NewChange(t, p)
    BY <1>7, <2>4 DEF MadeOn, Free
  <2>8. MadeOn(c) = Changes(t) \cup {j \in {0} : Differs(t, p)}
    BY <2>2 DEF MadeOn
  <2>9. IsFiniteSet(Pairs(Made)) /\ switches = Cardinality(Pairs(Made))
    BY <2>2 DEF SwitchLog
  <2> HIDE DEF t, u, p
  <2>10. IsFiniteSet(Pairs(Made')) /\ Cardinality(Pairs(Made')) = Cardinality(Pairs(Made))
    <3>1. CASE Differs(t, p)
      <4>1. 0 \notin Changes(t) /\ Len(t) + 1 \notin Changes(t)
        BY <1>1, ChangesType DEF Logs, t
      <4>2. Made[c] = Changes(t) \cup {0} /\ Made'[c] = Changes(t) \cup {Len(t) + 1}
        BY <2>5, <2>7, <2>8, <3>1 DEF NewChange
      <4> DEFINE f == Made
                 h == Made'
                 S == Changes(t)
                 i == 0
                 j == Len(t) + 1
      <4>3. /\ i \notin S /\ j \notin S /\ f[c] = S \cup {i} /\ h[c] = S \cup {j}
            /\ \A d \in Cores \ {c} : h[d] = f[d]
            /\ IsFiniteSet(Pairs(f))
        BY <2>5, <2>9, <4>1, <4>2
      <4> HIDE DEF f, h, S, i, j
      <4>4. IsFiniteSet(Pairs(h)) /\ Cardinality(Pairs(h)) = Cardinality(Pairs(f))
        BY ONLY <4>3, c \in Cores, PairsReplaced
      <4> QED BY <4>4 DEF f, h
    <3>2. CASE ~Differs(t, p)
      <4>1. Made'[c] = Made[c]
        BY <2>5, <2>7, <2>8, <3>2 DEF NewChange
      <4>2. \A d \in Cores : Made'[d] = Made[d]
        BY <2>5, <4>1
      <4>3. Pairs(Made') = Pairs(Made)
        BY <4>2, PairsSame
      <4> QED BY <2>9, <4>3
    <3> QED BY <3>1, <3>2
  <2>11. \A d \in Cores : CoreSwitches(d)'
    BY <2>2, <2>5, <2>6 DEF SwitchLog
  <2>12. Pairs(Made)' = Pairs(Made')
    BY DEF Pairs
  <2> QED BY <1>6, <2>9, <2>10, <2>11, <2>12 DEF SwitchLog
<1> QED
  BY <1>6, <1>8, <1>9 DEF SwitchInv

(* Dispatch makes a change exactly when it counts a switch: the process a  *)
(* free core remembers is the one that last ran on it.                     *)
LEMMA PlaceSwitches ==
    ASSUME Inv, TimelineInv, SwitchInv, NEW c \in Cores, NEW i \in DOMAIN picks, Place(i, c)
    PROVE  SwitchInv'
<1> DEFINE s == picks[i]
           p == s.proc
           until == AddTime(now, CsCost)
           idle == Segment(core[c].freeSince, now, None, "idle")
           cs == Segment(now, until, p, "cs")
           taken == [core[c] EXCEPT !.proc = s.proc, !.length = s.length, !.context = s.proc,
                                    !.deadline = s.deadline, !.recheck = FALSE]
           switching == IsSwitch(core[c], p)
           t == log.timelines[c]
           u == log'.timelines[c]
<1>1. PICK l \in AppendSegment(log, c, idle) :
        \/ /\ switching /\ CsCost > 0 /\ csTime' = csTime + CsCost
           /\ log' \in AppendSegment(NoteOverflow(l, now, CsCost), c, cs)
        \/ ~(switching /\ CsCost > 0) /\ csTime' = csTime /\ log' = BegunLog(l, taken)
  BY DEF Place
<1>2. /\ stage = "place" /\ stage' = "place" /\ status' = status /\ core[c] \in CoreStructs
      /\ log \in Logs /\ now \in Times /\ now < MaxTime /\ switches \in Nat /\ csTime \in Nat
      /\ switches' = IF switching THEN switches + 1 ELSE switches
  BY DEF Place, Inv, TypeOK, NothingMissed
<1>3. /\ Free(c) /\ p \in Procs /\ p # None /\ core'[c].proc = p
      /\ \A d \in Cores \ {c} : core'[d] = core[d]
  BY PlaceFacts, EngineAssumption DEF Slices
<1>4. idle \in Segments /\ idle.kind = "idle"
  BY <1>2 DEF Segment, Segments, CoreStructs
<1>5. until \in Times /\ (CsCost > 0 => now < until) /\ (now + CsCost <= MaxTime => until = now + CsCost)
  <2>1. until \in Times /\ (CsCost > 0 => now < until)
    BY <1>2, AddTimeFacts, EngineAssumption
  <2>2. CsCost \in Nat /\ now \in Int /\ MaxTime \in Nat
    BY <1>2, EngineAssumption DEF Times
  <2>3. now + CsCost <= MaxTime => until = now + CsCost
    BY <2>2 DEF AddTime
  <2> QED BY <2>1, <2>3
<1>6. cs \in Segments /\ cs.start = now /\ cs.end = until /\ cs.kind = "cs" /\ cs.proc = p
  BY <1>2, <1>3, <1>5 DEF Segment, Segments
<1>7. status = "running" /\ csTime = CsCost * switches /\ (log.fail = "ok" => SwitchLog)
  BY <1>2 DEF TimelineInv, SwitchInv
<1>8. csTime' = CsCost * switches'
  <2>1. CsCost \in Nat /\ CsCost * (switches + 1) = CsCost * switches + CsCost
    BY <1>2, EngineAssumption
  <2>2. CsCost = 0 => CsCost * switches' = CsCost * switches
    BY <1>2
  <2> QED BY <1>1, <1>2, <1>7, <2>1, <2>2
<1> HIDE DEF idle, cs, until, taken
<1>9. l \in Logs /\ l \in AppendSegment(log, c, idle)
  BY <1>1, <1>2, <1>4, AppendSegmentType
<1>10. ASSUME log'.fail = "ok" PROVE SwitchLog'
  <2> DEFINE m == NoteOverflow(l, now, CsCost)
             v == l.timelines[c]
  <2>1. m \in Logs /\ m.timelines = l.timelines
        /\ (m.fail = "ok" => l.fail = "ok" /\ now + CsCost <= MaxTime)
    <3>1. m \in Logs
      BY <1>9, NoteOverflowType
    <3>2. m.timelines = l.timelines /\ (m.fail = "ok" => l.fail = "ok")
      BY <1>9 DEF NoteOverflow, Logs
    <3>3. now + CsCost > MaxTime => m.fail = "overflow"
      BY <1>9 DEF NoteOverflow, Logs
    <3>4. now + CsCost > MaxTime \/ now + CsCost <= MaxTime
      BY <1>2, EngineAssumption DEF Times
    <3> QED BY <3>1, <3>2, <3>3, <3>4
  <2>2. \/ /\ switching /\ CsCost > 0 /\ log' \in AppendSegment(m, c, cs) /\ m.fail = "ok"
           /\ \A d \in Cores \ {c} : log'.timelines[d] = m.timelines[d]
        \/ ~(switching /\ CsCost > 0) /\ log'.timelines = l.timelines /\ l.fail = "ok"
    <3>1. CASE switching /\ CsCost > 0
      <4>1. log' \in AppendSegment(m, c, cs)
        BY <1>1, <3>1
      <4> HIDE DEF m
      <4> QED BY <1>6, <1>10, <2>1, <3>1, <4>1, AppendKinds
    <3>2. CASE ~(switching /\ CsCost > 0)
      <4>1. log' = BegunLog(l, taken)
        BY <1>1, <3>2
      <4> QED BY <1>9, <1>10, <3>2, <4>1 DEF BegunLog, NoteOverflow, Logs
    <3> QED BY <3>1, <3>2
  <2> HIDE DEF m
  <2>3. l.fail = "ok" /\ log.fail = "ok"
        /\ \A d \in Cores \ {c} : l.timelines[d] = log.timelines[d]
    <3>1. l.fail = "ok"
      BY <2>1, <2>2
    <3> QED BY <1>2, <1>4, <1>9, <3>1, AppendKinds
  <2>4. SwitchLog /\ CoreSwitches(c)
    BY <1>7, <2>3 DEF SwitchLog
  <2>5. ~EndsInCs(t) /\ Paid(t)
    BY <1>3, <2>4 DEF CoreSwitches
  <2>6. Differs(t, p) <=> switching
    <3>1. t \in Seq(Segments)
      BY <1>2 DEF Logs
    <3>2. CASE core[c].context = None
      BY <1>3, <2>4, <3>1, <3>2, RanFacts DEF CoreSwitches, IsSwitch
    <3>3. CASE core[c].context # None /\ core[c].context = p
      <4>1. LastRan(t, p)
        BY <1>3, <2>4, <3>3 DEF CoreSwitches
      <4> QED BY <3>1, <3>3, <4>1, RanFacts DEF IsSwitch
    <3>4. CASE core[c].context # None /\ core[c].context # p
      <4> DEFINE q == core[c].context
      <4>1. LastRan(t, q) /\ q # p
        BY <1>3, <2>4, <3>4 DEF CoreSwitches
      <4>2. switching
        BY <3>4 DEF IsSwitch
      <4> HIDE DEF q
      <4> QED BY <3>1, <4>1, <4>2, RanFacts
    <3> QED BY <3>2, <3>3, <3>4
  <2>7. Changes(v) = Changes(t) /\ (Differs(v, p) <=> Differs(t, p)) /\ Paid(v) /\ ~EndsInCs(v)
    BY <1>2, <1>4, <1>9, <2>3, <2>5, OtherSegment
  <2>8. /\ Changes(u) = Changes(t) /\ (Differs(u, p) <=> Differs(t, p)) /\ Paid(u)
        /\ (Differs(u, p) /\ CsCost > 0 => EndsInCs(u))
        /\ (EndsInCs(u) => Differs(u, p) /\ u[Len(u)].proc = p)
    <3>1. CASE switching /\ CsCost > 0
      <4>1. log' \in AppendSegment(m, c, cs) /\ m.timelines[c] = v
        BY <2>1, <2>2, <3>1
      <4>2. cs.end - cs.start = CsCost /\ cs.start < cs.end
        <5>1. until = now + CsCost /\ now < until
          BY <1>5, <2>1, <2>2, <3>1
        <5> QED BY <1>2, <1>6, <5>1, EngineAssumption DEF Times
      <4> HIDE DEF v
      <4>3. /\ Changes(u) = Changes(v) /\ Paid(u) /\ (Differs(u, p) <=> Differs(v, p))
            /\ EndsInCs(u) /\ u[Len(u)].proc = cs.proc
        BY <1>6, <1>10, <2>1, <2>7, <4>1, <4>2, OtherSegment
      <4> QED BY <1>6, <2>6, <2>7, <3>1, <4>3
    <3>2. CASE ~(switching /\ CsCost > 0)
      <4>1. u = v
        BY <2>2, <3>2
      <4> QED BY <2>6, <2>7, <3>2, <4>1
    <3> QED BY <3>1, <3>2
  <2>9. \A d \in Cores \ {c} : core'[d] = core[d] /\ log'.timelines[d] = log.timelines[d]
    BY <1>3, <2>1, <2>2, <2>3
  <2>10. /\ Made[c] = MadeOn(c) /\ Made'[c] = MadeOn(c)'
         /\ \A d \in Cores \ {c} : Made'[d] = Made[d] /\ (CoreSwitches(d) => CoreSwitches(d)')
    BY <2>9, OneCoreMade
  <2>11. CoreSwitches(c)'
    BY <1>3, <2>8 DEF CoreSwitches, Free
  <2>12. \A d \in Cores : CoreSwitches(d)'
    BY <2>4, <2>10, <2>11 DEF SwitchLog
  <2>13. MadeOn(c) = Changes(t) /\ MadeOn(c)' = Changes(t) \cup {j \in {0} : switching}
    BY <1>3, <2>6, <2>8 DEF MadeOn, Free
  <2>14. IsFiniteSet(Pairs(Made)) /\ switches = Cardinality(Pairs(Made))
    BY <2>4 DEF SwitchLog
  <2>15. IsFiniteSet(Pairs(Made')) /\ switches' = Cardinality(Pairs(Made'))
    <3>1. CASE switching
      <4> DEFINE f == Made
                 h == Made'
                 j == 0
      <4>1. 0 \notin Changes(t)
        BY <1>2, ChangesType DEF Logs
      <4>2. /\ j \notin f[c] /\ h[c] = f[c] \cup {j} /\ \A d \in Cores \ {c} : h[d] = f[d]
            /\ IsFiniteSet(Pairs(f))
        BY <2>10, <2>13, <2>14, <3>1, <4>1
      <4> HIDE DEF f, h, j
      <4>3. IsFiniteSet(Pairs(h)) /\ Cardinality(Pairs(h)) = Cardinality(Pairs(f)) + 1
        BY ONLY <4>2, c \in Cores, PairsAdded
      <4> QED BY <1>2, <2>14, <3>1, <4>3 DEF f, h
    <3>2. CASE ~switching
      <4>1. \A d \in Cores : Made'[d] = Made[d]
        BY <2>10, <2>13, <3>2
      <4>2. Pairs(Made') = Pairs(Made)
        BY <4>1, PairsSame
      <4> QED BY <1>2, <2>14, <3>2, <4>2
    <3> QED BY <3>1, <3>2
  <2>16. Pairs(Made)' = Pairs(Made')
    BY DEF Pairs
  <2> QED BY <2>12, <2>15, <2>16 DEF SwitchLog
<1> QED
  BY <1>2, <1>7, <1>8, <1>10 DEF SwitchInv

LEMMA CloseSwitches ==
    ASSUME Inv, TimelineInv, SwitchInv, CloseTimeline
    PROVE  SwitchInv'
<1>0. closed + 1 \in Cores
  BY EngineAssumption DEF CloseTimeline, Inv, TypeOK, Cores
<1> PICK c \in Cores : c = closed + 1
  BY <1>0
<1> DEFINE g == Segment(core[c].freeSince, now, None, "idle")
           t == log.timelines[c]
           u == log'.timelines[c]
<1>1. /\ stage = "finish" /\ stage' = "finish" /\ UNCHANGED <<core, switches, csTime, status>>
      /\ log' \in AppendSegment(log, c, g)
      /\ core[c] \in CoreStructs /\ now \in Times /\ log \in Logs
  BY DEF CloseTimeline, Inv, TypeOK
<1>2. g \in Segments /\ g.kind = "idle"
  BY <1>1 DEF Segment, Segments, CoreStructs
<1>3. status = "running" /\ csTime = CsCost * switches /\ (log.fail = "ok" => SwitchLog)
  BY <1>1 DEF TimelineInv, SwitchInv
<1> HIDE DEF g
<1>4. ASSUME log'.fail = "ok" PROVE SwitchLog'
  <2>1. log.fail = "ok" /\ \A d \in Cores \ {c} : log'.timelines[d] = log.timelines[d]
    BY <1>1, <1>2, <1>4, AppendKinds
  <2>2. Free(c) /\ Free(c)'
    <3>1. Completed = Procs
      BY <1>1, <2>1 DEF TimelineInv, Spans
    <3>2. Free(c)
      BY <1>1, <3>1, AllFree
    <3> QED BY <1>1, <3>2 DEF Free
  <2>3. SwitchLog /\ CoreSwitches(c)
    BY <1>1, <1>3, <2>1 DEF SwitchLog
  <2>4. ~EndsInCs(t) /\ Paid(t)
    BY <2>2, <2>3 DEF CoreSwitches
  <2>5. /\ Changes(u) = Changes(t) /\ (NeverRan(u) <=> NeverRan(t)) /\ Paid(u)
        /\ \A p : LastRan(u, p) <=> LastRan(t, p)
        /\ ~EndsInCs(u)
    BY <1>1, <1>2, <1>4, <2>4, OtherSegment
  <2>6. \A d \in Cores \ {c} : core'[d] = core[d] /\ log'.timelines[d] = log.timelines[d]
    BY <1>1, <2>1
  <2>7. /\ Made[c] = MadeOn(c) /\ Made'[c] = MadeOn(c)'
        /\ \A d \in Cores \ {c} : Made'[d] = Made[d] /\ (CoreSwitches(d) => CoreSwitches(d)')
    BY <1>1, <2>6, OneCoreMade
  <2>8. CoreSwitches(c)'
    <3>1. core' = core
      BY <1>1
    <3>2. core[c].context # None => LastRan(u, core[c].context)
      BY <2>2, <2>3, <2>5 DEF CoreSwitches
    <3>3. core[c].context = None => NeverRan(u)
      BY <2>2, <2>3, <2>5 DEF CoreSwitches
    <3> QED BY <2>2, <2>5, <3>1, <3>2, <3>3 DEF CoreSwitches
  <2>9. MadeOn(c)' = MadeOn(c)
    BY <2>2, <2>5 DEF MadeOn
  <2>10. \A d \in Cores : Made'[d] = Made[d]
    BY <2>7, <2>9
  <2>11. Pairs(Made') = Pairs(Made) /\ Pairs(Made)' = Pairs(Made')
    <3>1. Pairs(Made') = Pairs(Made)
      BY <2>10, PairsSame
    <3> QED BY <3>1 DEF Pairs
  <2>12. \A d \in Cores : CoreSwitches(d)'
    BY <2>3, <2>7, <2>8 DEF SwitchLog
  <2> QED BY <1>1, <2>3, <2>11, <2>12 DEF SwitchLog
<1> QED
  BY <1>1, <1>3, <1>4 DEF SwitchInv

LEMMA ReturnSwitches ==
    ASSUME Inv, TimelineInv, SwitchInv, Return
    PROVE  SwitchInv'
<1>1. stage = "finish" /\ stage' = "done" /\ status' = StatusOf(log.fail) /\ core' = core
  BY DEF Return
<1>2. log.fail \in {"ok", "nomem", "limit", "overflow"}
  BY DEF Inv, TypeOK, Logs
<1>3. CASE log.fail # "ok"
  BY <1>1, <1>2, <1>3 DEF StatusOf, SwitchInv
<1>4. CASE log.fail = "ok"
  <2>1. UNCHANGED <<log, switches, csTime>>
    BY <1>4 DEF Return
  <2>2. \A c \in Cores : Free(c)
    <3>1. Completed = Procs
      BY <1>1, <1>4 DEF TimelineInv, Spans
    <3> QED BY <3>1, AllFree
  <2>3. \A c \in Cores : Free(c)'
    BY <1>1, <2>2 DEF Free
  <2>4. \A c \in Cores : MadeOn(c)' = MadeOn(c) /\ (CoreSwitches(c) => CoreSwitches(c)')
    BY <1>1, <2>1 DEF MadeOn, CoreSwitches, Free
  <2>5. Made' = Made
    BY <2>4 DEF Made
  <2>6. SwitchLog => SwitchLog'
    BY <2>1, <2>4, <2>5 DEF SwitchLog
  <2> QED BY <1>1, <1>4, <2>1, <2>3, <2>6 DEF SwitchInv
<1> QED
  BY <1>3, <1>4

LEMMA SwitchStep ==
    ASSUME Inv, TimelineInv, ContextInv, SwitchInv, [Next]_vars
    PROVE  SwitchInv'
<1>0. core \in [Cores -> CoreStructs] /\ (stage # "done" => status = "running")
  BY DEF Inv, TypeOK, TimelineInv
<1>1. CASE \E p \in Procs : Arrive(p) \/ BecomeReady(p)
  BY <1>0, <1>1, QuietSwitches DEF Arrive, Admit, BecomeReady, WakeUp, resultVars
<1>2. CASE \E c \in Cores : SliceCompletes(c)
  BY <1>2, EndRunSwitches DEF SliceCompletes, Complete
<1>3. CASE \E c \in Cores : SliceBlocks(c)
  <2>1. PICK c \in Cores : SliceBlocks(c)
    BY <1>3
  <2>2. EndRun(c) /\ \E l \in LogRun(c) : \E io : log' = NoteOverflow(l, now, io)
    BY <2>1 DEF SliceBlocks, Block
  <2> QED BY <2>2, EndRunSwitches
<1>4. CASE \E c \in Cores : SlicePreempted(c)
  BY <1>4, EndRunSwitches DEF SlicePreempted, Preempt
<1>5. CASE \/ (\E s \in Slices : Pick(s)) \/ PicksDone \/ PlacesDone \/ Create \/ ArrivalsDone
           \/ WakeupsDone \/ SwitchInsDone \/ InstantDone \/ Advance
  BY <1>0, <1>5, QuietSwitches
     DEF Pick, WantsPick, PicksDone, PlacesDone, Create, ArrivalsDone, WakeupsDone,
         SwitchInsDone, InstantDone, Advance, resultVars
<1>6. CASE \E p \in ready : \E s \in SlicesFor(p) : NextSlice(s)
  <2>1. stage = "picks"
    BY <1>6 DEF NextSlice, Pick, WantsPick
  <2>2. \E s \in Slices : Pick(s)
    BY <1>6, <2>1, SlicesForFacts DEF NextSlice
  <2> QED BY <1>5, <2>2
<1>7. CASE EndsDone
  <2>1. \A c \in Cores : core'[c].proc = core[c].proc /\ core'[c].context = core[c].context
    <3> TAKE c \in Cores
    <3>1. core'[c] = core[c] \/ core'[c] = [core[c] EXCEPT !.recheck = TRUE]
      BY <1>7 DEF EndsDone
    <3> QED BY <1>0, <3>1 DEF CoreStructs
  <2> QED BY <1>0, <1>7, <2>1, QuietSwitches DEF EndsDone, resultVars
<1>8. CASE \E c \in Cores : SwitchIn(c)
  <2>1. PICK c \in Cores : SwitchIn(c)
    BY <1>8
  <2> DEFINE k == IF OneTick(c) THEN [core[c] EXCEPT !.deadline = AddTime(now, 1)] ELSE core[c]
             l == IF OneTick(c) THEN NoteOverflow(log, now, 1) ELSE log
  <2>2. /\ stage = "switchins" /\ stage' = "switchins" /\ UNCHANGED <<switches, csTime, status>>
        /\ core' = [core EXCEPT ![c] = Begun(k)] /\ log' = BegunLog(l, k)
    BY <2>1 DEF SwitchIn
  <2>3. Begun(k).proc = core[c].proc /\ Begun(k).context = core[c].context
    BY <1>0 DEF Begun, CoreStructs
  <2>4. l \in Logs /\ l.timelines = log.timelines /\ (l.fail = "ok" => log.fail = "ok")
    BY NoteOverflowType DEF NoteOverflow, Logs, Inv, TypeOK
  <2> HIDE DEF k, l
  <2>5. log'.timelines = l.timelines /\ (log'.fail = "ok" => l.fail = "ok")
    BY <2>2, <2>4 DEF BegunLog, NoteOverflow, Logs
  <2>6. \A d \in Cores : core'[d].proc = core[d].proc /\ core'[d].context = core[d].context
    BY <1>0, <2>2, <2>3
  <2> QED BY <1>0, <2>2, <2>4, <2>5, <2>6, QuietSwitches
<1>9. CASE \E c \in Cores, i \in DOMAIN picks : Place(i, c)
  BY <1>9, PlaceSwitches
<1>10. CASE CloseTimeline
  BY <1>10, CloseSwitches
<1>11. CASE Return
  BY <1>11, ReturnSwitches
<1>12. CASE Reject
  BY <1>12 DEF Reject, SwitchInv
<1>13. CASE UNCHANGED vars \/ Terminated
  <2>1. UNCHANGED <<stage, core, log, switches, csTime, status>>
    BY <1>13 DEF vars, engineVars, resultVars, Terminated
  <2>2. \A c \in Cores : /\ MadeOn(c)' = MadeOn(c) /\ (CoreSwitches(c) => CoreSwitches(c)')
                         /\ (Free(c)' <=> Free(c))
    BY <2>1 DEF MadeOn, CoreSwitches, Free
  <2>3. Made' = Made
    BY <2>2 DEF Made
  <2>4. SwitchLog => SwitchLog'
    BY <2>1, <2>2, <2>3 DEF SwitchLog
  <2> QED BY <2>1, <2>2, <2>4 DEF SwitchInv
<1> QED
  BY <1>1, <1>2, <1>3, <1>4, <1>5, <1>6, <1>7, <1>8, <1>9, <1>10, <1>11, <1>12, <1>13
     DEF Next, StopPicking, EngineStep

LEMMA SwitchInvariant == Spec => [](Inv /\ TimelineInv /\ SwitchInv)
<1>1. Init => ContextInv
  BY DEF Init, EngineInit, FreshCore, ContextInv, ContextsDistinct, Busy, Free
<1>2. Inv /\ ContextInv /\ [Next]_vars => ContextInv'
  BY ContextStep
<1>3. Inv /\ TimelineInv /\ ContextInv /\ SwitchInv /\ [Next]_vars => SwitchInv'
  BY SwitchStep
<1> QED
  BY <1>1, <1>2, <1>3, InitSwitches, TimelineInvariant, PTL DEF Spec

(* On a complete timeline no change is under way.                          *)
LEMMA ChangesMade ==
    ASSUME SwitchInv, status = "ok"
    PROVE  SwitchesAccounted
<1>1. csTime = CsCost * switches /\ SwitchLog /\ \A c \in Cores : Free(c)
  BY DEF SwitchInv
<1>2. \A c \in Cores : Made[c] = Changes(log.timelines[c])
  BY <1>1 DEF Made, MadeOn
<1>3. ChangesOf(log) = Pairs(Made)
  BY <1>2 DEF ChangesOf, Pairs
<1>4. ASSUME NEW c \in Cores
      PROVE  LET t == log.timelines[c] IN
             /\ CsCost > 0 => \A j \in Changes(t) : t[j - 1].kind = "cs"
             /\ \A j \in DOMAIN t : t[j].kind = "cs" =>
                  /\ t[j].end - t[j].start = CsCost
                  /\ j + 1 \in Changes(t) /\ t[j + 1].proc = t[j].proc
  <2> DEFINE t == log.timelines[c]
  <2>1. Paid(t) /\ ~EndsInCs(t)
    BY <1>1 DEF SwitchLog, CoreSwitches
  <2>2. \A j \in DOMAIN t : t[j].kind = "cs" => j < Len(t)
    <3> SUFFICES ASSUME NEW j \in DOMAIN t, t[j].kind = "cs" PROVE j < Len(t)
      OBVIOUS
    <3>1. j # Len(t)
      BY <2>1 DEF EndsInCs, LastKind
    <3> QED BY <3>1
  <2> QED BY <2>1, <2>2 DEF Paid
<1> QED
  BY <1>1, <1>3, <1>4 DEF SwitchLog, SwitchesAccounted

(* The number of switches is the number of changes of process the          *)
(* timelines show, csTime what they cost, and every "cs" segment pays for  *)
(* the change that follows it, for every policy, number of cores and cost. *)
THEOREM SwitchesAccountedHolds == Spec => []SwitchesAccounted
<1>1. SwitchInv => SwitchesAccounted
  BY ChangesMade DEF SwitchesAccounted, Finished
<1> QED
  BY <1>1, SwitchInvariant, PTL
-----------------------------------------------------------------------------
(* The CPU time used, by which the policies charge processes               *)

\* the ticks p has run in the slices that have ended
Used(p) == CpuUpTo(p, (phase[p] + 1) \div 2) - remaining[p]
TotalUsed == SumFunctionOnSet([p \in Procs |-> Used(p)], Procs)

LEMMA UsedFacts ==
    ASSUME Inv, NEW p \in Procs
    PROVE  /\ CpuUpTo(p, (phase[p] + 1) \div 2) \in Nat /\ remaining[p] \in Nat /\ Used(p) \in Int
           /\ phase[p] + 2 <= Len(w.phases[p]) =>
                CpuUpTo(p, (phase[p] + 3) \div 2)
                    = CpuUpTo(p, (phase[p] + 1) \div 2) + w.phases[p][phase[p] + 2]
<1>1. /\ w \in Workloads /\ phase[p] \in Nat \ {0} /\ IsOdd(phase[p]) /\ remaining[p] \in Nat
      /\ phase[p] <= Len(w.phases[p])
  BY ProcessTypes DEF Inv, TypeOK
<1>2. NumBursts(p) \in Nat /\ Len(w.phases[p]) = 2 * NumBursts(p) - 1
  BY <1>1, PhaseFacts
<1>3. PICK k \in Nat \ {0} : phase[p] = 2 * k - 1 /\ (phase[p] + 1) \div 2 = k /\ (phase[p] + 3) \div 2 = k + 1
  <2>1. \A n \in Nat : n % 2 = 1 =>
          \E k \in Nat \ {0} : n = 2 * k - 1 /\ (n + 1) \div 2 = k /\ (n + 3) \div 2 = k + 1
    <3> TAKE n \in Nat
    <3> HAVE n % 2 = 1
    <3>1. n = 2 * ((n + 1) \div 2) - 1 /\ (n + 1) \div 2 \in Nat \ {0}
      OBVIOUS
    <3>2. (n + 3) \div 2 = ((n + 1) \div 2) + 1
      OBVIOUS
    <3> QED BY <3>1, <3>2
  <2> QED BY <1>1, <2>1 DEF IsOdd
<1>4. k \in 0..NumBursts(p) /\ (phase[p] + 2 <= Len(w.phases[p]) => k < NumBursts(p))
  BY <1>1, <1>2, <1>3
<1>5. /\ CpuUpTo(p, k) \in Nat
      /\ k < NumBursts(p) => CpuUpTo(p, k + 1) = CpuUpTo(p, k) + CpuOf(p, k + 1)
  BY <1>1, <1>4, CpuUpToFacts
<1>6. CpuOf(p, k + 1) = w.phases[p][phase[p] + 2]
  <2>1. 2 * (k + 1) - 1 = phase[p] + 2
    BY <1>3
  <2> QED BY <2>1 DEF CpuOf
<1> QED BY <1>1, <1>3, <1>4, <1>5, <1>6 DEF Used

UsedKnown == \A p \in Procs : Used(p) \in Int

LEMMA UsedFactsNext == Inv' => UsedKnown'
<1>1. Inv => UsedKnown
  BY UsedFacts DEF UsedKnown
<1> QED BY <1>1, PTL

LEMMA UsedSame == UNCHANGED <<w, phase, remaining>> => TotalUsed' = TotalUsed
BY DEF TotalUsed, Used, CpuUpTo, Bursts, CpuOf, NumBursts

LEMMA TotalUsedType == ASSUME Inv PROVE TotalUsed \in Int
<1> DEFINE f == [p \in Procs |-> Used(p)]
<1>1. IsFiniteSet(Procs) /\ \A p \in Procs : f[p] \in Int
  BY UsedFacts, EngineAssumption
<1> HIDE DEF f
<1>2. SumFunctionOnSet(f, Procs) \in Int
  BY <1>1, SumInt
<1> QED BY <1>2 DEF f, TotalUsed

(* A slice that ends uses the ticks it ran, however it ends. *)
LEMMA EndRunUsed ==
    ASSUME Inv, Inv', NEW c \in Cores, Complete(c) \/ Block(c) \/ Preempt(c)
    PROVE  TotalUsed' = TotalUsed + Ran(c) /\ Ran(c) \in Nat \ {0}
<1>p. PICK p : p = core[c].proc
  OBVIOUS
<1>1. EndRun(c) /\ SliceEnds(c) /\ w' = w
  BY DEF Complete, Block, Preempt, EndRun
<1>2. p \in Procs /\ Ran(c) \in Nat \ {0} /\ Ran(c) <= remaining[p]
  BY <1>p, <1>1, SliceEndFacts
<1>3. /\ remaining \in [Procs -> Times] /\ phase \in [Procs -> Nat \ {0}]
      /\ \A q \in Procs : remaining[q] \in Nat
  BY UsedFacts DEF Inv, TypeOK
<1> DEFINE U(q) == CpuUpTo(q, (phase[q] + 1) \div 2)
<1>4. \A q, n : CpuUpTo(q, n)' = CpuUpTo(q, n')
  BY <1>1 DEF CpuUpTo, Bursts, CpuOf, NumBursts
<1>5. \A q \in Procs : Used(q)' = CpuUpTo(q, (phase'[q] + 1) \div 2) - remaining'[q]
  BY <1>1 DEF Used, CpuUpTo, Bursts, CpuOf, NumBursts
<1>6. \A q \in Procs \ {p} : Used(q)' = Used(q)
  <2>1. \A q \in Procs \ {p} : phase'[q] = phase[q] /\ remaining'[q] = remaining[q]
    BY <1>p, <1>3 DEF Complete, Block, Preempt
  <2> QED BY <1>5, <2>1 DEF Used
<1>7. Used(p)' = Used(p) + Ran(c)
  <2>1. CASE Complete(c) \/ Preempt(c)
    <3>1. phase'[p] = phase[p] /\ remaining'[p] = remaining[p] - Ran(c)
      <4>1. CASE Complete(c)
        <5>1. remaining'[p] = 0 /\ phase'[p] = phase[p] /\ remaining[p] = Ran(c)
          BY <1>p, <1>2, <1>3, <4>1 DEF Complete, BurstOver
        <5> QED BY <1>2, <5>1
      <4>2. CASE Preempt(c)
        BY <1>p, <1>2, <1>3, <4>2 DEF Preempt
      <4> QED BY <2>1, <4>1, <4>2
    <3>2. Used(p)' = U(p) - (remaining[p] - Ran(c))
      BY <1>2, <1>5, <3>1
    <3>3. U(p) \in Nat /\ remaining[p] \in Nat /\ Used(p) = U(p) - remaining[p]
      BY <1>2, UsedFacts DEF Used
    <3> HIDE DEF U
    <3> QED BY <1>2, <3>2, <3>3
  <2>2. CASE Block(c)
    <3>1. /\ phase'[p] = phase[p] + 2 /\ remaining'[p] = w.phases[p][phase[p] + 2]
          /\ remaining[p] = Ran(c)
      BY <1>p, <1>2, <1>3, <2>2 DEF Block, BurstOver
    <3>2. phase[p] + 2 <= Len(w.phases[p])
      <4>1. phase'[p] <= Len(w'.phases[p])
        BY <1>2 DEF Inv, TypeOK
      <4> QED BY <1>1, <3>1, <4>1
    <3>3. CpuUpTo(p, (phase[p] + 3) \div 2) = U(p) + remaining'[p]
      BY <1>2, <3>1, <3>2, UsedFacts
    <3>4. (phase'[p] + 1) \div 2 = (phase[p] + 3) \div 2
      BY <1>2, <1>3, <3>1
    <3>5. Used(p)' = (U(p) + remaining'[p]) - remaining'[p]
      BY <1>2, <1>5, <3>3, <3>4
    <3>6. U(p) \in Nat /\ remaining[p] \in Nat /\ Used(p) = U(p) - remaining[p]
      BY <1>2, UsedFacts DEF Used
    <3>7. remaining'[p] \in Nat
      BY <1>2, EngineAssumption DEF Inv, TypeOK, Times
    <3> HIDE DEF U
    <3> QED BY <1>2, <3>1, <3>5, <3>6, <3>7
  <2> QED BY <2>1, <2>2
<1> DEFINE f == [q \in Procs |-> Used(q)]
           g == [q \in Procs |-> Used(q)']
           r == Procs \ {p}
<1>8. /\ IsFiniteSet(Procs) /\ IsFiniteSet(r)
      /\ \A q \in Procs : f[q] \in Int /\ g[q] \in Int
      /\ \A q \in r : g[q] = f[q]
      /\ g[p] = f[p] + Ran(c)
  BY <1>2, <1>6, <1>7, UsedFacts, UsedFactsNext, EngineAssumption, FS_RemoveElement
     DEF UsedKnown
<1>9. TotalUsed = SumFunctionOnSet(f, Procs) /\ TotalUsed' = SumFunctionOnSet(g, Procs)
  BY DEF TotalUsed
<1> HIDE DEF f, g
<1>10. /\ SumFunctionOnSet(f, Procs) = f[p] + SumFunctionOnSet(f, r)
       /\ SumFunctionOnSet(g, Procs) = g[p] + SumFunctionOnSet(g, r)
  BY <1>2, <1>8, SumRemove
<1>11. SumFunctionOnSet(f, r) \in Int /\ SumFunctionOnSet(g, r) = SumFunctionOnSet(f, r)
  BY <1>8, SumInt, SumSame
<1> QED BY <1>2, <1>8, <1>9, <1>10, <1>11

(* As long as the log is complete, it shows the CPU time used. *)
LEMMA UsedLogged ==
    ASSUME Inv, ServiceInv, log.fail = "ok"
    PROVE  TotalUsed = SumFunctionOnSet([p \in Procs |-> Cardinality(TicksOf(p, "run"))], Procs)
<1>1. \A p \in Procs : Cardinality(TicksOf(p, "run")) = Used(p) /\ Used(p) \in Int
  <2> TAKE p \in Procs
  <2> DEFINE n == Cardinality(Ticks(log, p, {"run"}))
  <2>1. n + remaining[p] = CpuUpTo(p, (phase[p] + 1) \div 2)
    BY DEF ServiceInv, Standing, Stands
  <2>2. n \in Nat
    <3>1. Ticks(log, p, {"run"}) \subseteq Times /\ IsFiniteSet(Times)
      BY EngineAssumption, FS_Interval DEF Ticks, On, Covers, Times
    <3>2. IsFiniteSet(Ticks(log, p, {"run"}))
      BY <3>1, FS_Subset
    <3> QED BY <3>2, FS_CardinalityType
  <2>3. TicksOf(p, "run") = Ticks(log, p, {"run"})
    BY TicksRead
  <2>4. remaining[p] \in Nat /\ Used(p) \in Int /\ Used(p) = CpuUpTo(p, (phase[p] + 1) \div 2) - remaining[p]
    BY UsedFacts DEF Used
  <2>5. Cardinality(TicksOf(p, "run")) = n
    BY <2>3
  <2> HIDE DEF n
  <2> QED BY <2>1, <2>2, <2>4, <2>5
<1> DEFINE f == [p \in Procs |-> Used(p)]
           g == [p \in Procs |-> Cardinality(TicksOf(p, "run"))]
<1>2. f = g
  BY <1>1
<1> QED BY <1>2 DEF TotalUsed

LEMMA UsedInit == Init => TotalUsed = 0
<1> SUFFICES ASSUME Init PROVE TotalUsed = 0
  OBVIOUS
<1> DEFINE f == [p \in Procs |-> Used(p)]
<1>1. \A p \in Procs : f[p] = 0
  <2> TAKE p \in Procs
  <2>1. phase[p] = 1 /\ remaining[p] = w.phases[p][1] /\ w \in Workloads
    BY DEF Init, EngineInit
  <2>2. NumBursts(p) \in Nat /\ Len(w.phases[p]) = 2 * NumBursts(p) - 1 /\ Len(w.phases[p]) \in Nat
    BY <2>1, PhaseFacts
  <2>3. 0 \in 0..NumBursts(p) /\ 0 < NumBursts(p)
    BY <2>2
  <2>4. CpuUpTo(p, 0 + 1) = CpuUpTo(p, 0) + CpuOf(p, 0 + 1) /\ CpuUpTo(p, 0) \in Nat
    BY <2>1, <2>3, CpuUpToFacts
  <2>5. CpuUpTo(p, 0) = 0
    <3>1. 1..0 = {}
      OBVIOUS
    <3> QED BY <3>1, SumEmpty DEF CpuUpTo
  <2>6. CpuOf(p, 1) = w.phases[p][1] /\ CpuOf(p, 1) \in Nat
    BY <2>1, <2>2, <2>3, PhaseFacts DEF CpuOf
  <2>7. (phase[p] + 1) \div 2 = 1
    BY <2>1
  <2>8. Used(p) = CpuUpTo(p, 1) - remaining[p]
    BY <2>7 DEF Used
  <2> QED BY <2>1, <2>4, <2>5, <2>6, <2>8
<1> HIDE DEF f
<1>2. SumFunctionOnSet(f, Procs) = 0
  BY <1>1, SumZero, EngineAssumption
<1> QED BY <1>2 DEF f, TotalUsed

\* the CPU time p asks for: its phases with odd numbers
CpuPhases(p) == {k \in DOMAIN w.phases[p] : IsOdd(k)}
CpuTime(p) == SumFunctionOnSet(w.phases[p], CpuPhases(p))

\* the bursts are the phases with odd numbers
LEMMA OddPhases ==
    ASSUME w \in Workloads, NEW p \in Procs, NEW n \in 0..NumBursts(p)
    PROVE  CpuUpTo(p, n) = SumFunctionOnSet(w.phases[p], {k \in 1..(2 * n - 1) : IsOdd(k)})
<1> DEFINE f == w.phases[p]
           Odds(m) == {k \in 1..(2 * m - 1) : IsOdd(k)}
           Bad == {m \in 1..NumBursts(p) : CpuUpTo(p, m) # SumFunctionOnSet(f, Odds(m))}
<1>1. NumBursts(p) \in Nat /\ DOMAIN f = 1..(2 * NumBursts(p) - 1)
      /\ \A i \in 1..(2 * NumBursts(p) - 1) : f[i] \in Nat
  BY PhaseFacts
<1>2. CpuUpTo(p, 0) = SumFunctionOnSet(f, Odds(0))
  <2>1. 1..0 = {} /\ Odds(0) = {}
    OBVIOUS
  <2> HIDE DEF f, Odds
  <2> QED BY <2>1, SumEmpty DEF CpuUpTo
<1>3. ASSUME Bad # {} PROVE FALSE
  <2>1. PICK m \in Bad : \A x \in Bad : m <= x
    <3>1. Bad \in SUBSET (1..NumBursts(p))
      OBVIOUS
    <3> HIDE DEF Bad
    <3> QED BY <1>1, <1>3, <3>1, LeastNumber
  <2>2. m \in 1..NumBursts(p) /\ CpuUpTo(p, m) # SumFunctionOnSet(f, Odds(m))
    OBVIOUS
  <2>3. PICK j \in 0..NumBursts(p) : m = j + 1 /\ j < NumBursts(p)
    <3>1. m - 1 \in 0..NumBursts(p) /\ m = (m - 1) + 1 /\ m - 1 < NumBursts(p)
      BY <1>1, <2>2
    <3> QED BY <3>1
  <2>4. CpuUpTo(p, j) = SumFunctionOnSet(f, Odds(j))
    <3>1. CASE j = 0
      BY <1>2, <3>1
    <3>2. CASE j # 0
      <4>1. j \in 1..NumBursts(p) /\ ~(m <= j)
        BY <1>1, <2>3, <3>2
      <4> QED BY <2>1, <4>1
    <3> QED BY <3>1, <3>2
  <2>5. CpuUpTo(p, m) = CpuUpTo(p, j) + f[2 * j + 1]
    <3>1. CpuUpTo(p, j + 1) = CpuUpTo(p, j) + CpuOf(p, j + 1)
      BY <2>3, CpuUpToFacts
    <3>2. 2 * (j + 1) - 1 = 2 * j + 1
      BY <1>1, <2>3
    <3> QED BY <2>3, <3>1, <3>2 DEF CpuOf
  <2>6. /\ 2 * j + 1 \in Odds(m) /\ Odds(m) \ {2 * j + 1} = Odds(j)
        /\ Odds(m) \subseteq 1..(2 * NumBursts(p) - 1)
    <3>1. j \in Nat /\ m = j + 1 /\ m <= NumBursts(p)
      BY <1>1, <2>3
    <3>2. \A k \in Nat : k % 2 = 1 /\ k <= 2 * m - 1 /\ k # 2 * j + 1 => k <= 2 * j - 1
      BY <3>1
    <3>3. (2 * j + 1) % 2 = 1 /\ 2 * j + 1 \in 1..(2 * m - 1)
      BY <3>1
    <3>4. Odds(m) \subseteq 1..(2 * NumBursts(p) - 1)
      BY <1>1, <3>1
    <3>5. Odds(j) \subseteq Odds(m) \ {2 * j + 1}
      BY <3>1
    <3>6. Odds(m) \ {2 * j + 1} \subseteq Odds(j)
      BY <3>1, <3>2 DEF IsOdd
    <3> QED BY <3>3, <3>4, <3>5, <3>6 DEF IsOdd
  <2>7. IsFiniteSet(Odds(m))
    <3>1. IsFiniteSet(1..(2 * NumBursts(p) - 1))
      BY <1>1, FS_Interval
    <3> QED BY <2>6, <3>1, FS_Subset
  <2>8. \A i \in Odds(m) : f[i] \in Nat
    BY <1>1, <2>6
  <2> DEFINE S == Odds(m)
             a == 2 * j + 1
  <2> HIDE DEF f, S, a, Bad
  <2>9. SumFunctionOnSet(f, S) = f[a] + SumFunctionOnSet(f, S \ {a})
    <3>1. IsFiniteSet(S) /\ a \in S /\ \A i \in S : f[i] \in Int
      BY <2>6, <2>7, <2>8 DEF S, a
    <3> QED BY <3>1, SumRemove
  <2>10. SumFunctionOnSet(f, Odds(m)) = f[2 * j + 1] + SumFunctionOnSet(f, Odds(j))
    BY <2>6, <2>9 DEF S, a
  <2>11. CpuUpTo(p, j) \in Nat /\ f[2 * j + 1] \in Nat
    <3>1. CpuUpTo(p, j) \in Nat
      BY <2>3, CpuUpToFacts
    <3> QED BY <2>6, <2>8, <3>1
  <2> HIDE DEF Odds
  <2> QED BY <2>2, <2>4, <2>5, <2>10, <2>11
<1>4. CASE n = 0
  BY <1>2, <1>4
<1>5. CASE n # 0
  <2>1. n \in 1..NumBursts(p)
    BY <1>1, <1>5
  <2> QED BY <1>3, <2>1
<1> QED BY <1>4, <1>5

\* nobody uses more CPU time than it asked for
LEMMA UsedAtMost ==
    ASSUME Inv, NEW p \in Procs
    PROVE  Used(p) <= CpuTime(p) /\ CpuTime(p) \in Nat
<1> DEFINE f == w.phases[p]
<1>1. /\ w \in Workloads /\ phase[p] \in Nat \ {0} /\ IsOdd(phase[p]) /\ remaining[p] \in Nat
      /\ phase[p] <= Len(w.phases[p])
  BY ProcessTypes DEF Inv, TypeOK
<1>2. /\ NumBursts(p) \in Nat /\ Len(w.phases[p]) = 2 * NumBursts(p) - 1
      /\ DOMAIN f = 1..(2 * NumBursts(p) - 1)
      /\ \A i \in DOMAIN f : f[i] \in Nat
  BY <1>1, PhaseFacts
<1>3. PICK n \in 0..NumBursts(p) : n = (phase[p] + 1) \div 2
  <2>1. (phase[p] + 1) \div 2 \in 0..NumBursts(p)
    <3>1. phase[p] \in Nat /\ phase[p] <= 2 * NumBursts(p) - 1
      BY <1>1, <1>2
    <3> QED BY <1>2, <3>1
  <2> QED BY <2>1
<1> DEFINE S == {k \in 1..(2 * n - 1) : IsOdd(k)}
           T == CpuPhases(p)
<1>4. CpuUpTo(p, n) = SumFunctionOnSet(f, S)
  BY <1>1, OddPhases
<1>5. IsFiniteSet(T) /\ S \in SUBSET T /\ \A i \in T : f[i] \in Nat
  <2>1. T \subseteq DOMAIN f /\ IsFiniteSet(DOMAIN f)
    BY <1>2, FS_Interval DEF CpuPhases
  <2>2. S \subseteq T
    BY <1>2, <1>3 DEF CpuPhases
  <2> QED BY <1>2, <2>1, <2>2, FS_Subset
<1> HIDE DEF f, S, T
<1>6. SumFunctionOnSet(f, S) <= SumFunctionOnSet(f, T) /\ SumFunctionOnSet(f, T) \in Nat
  BY <1>5, SumSubset, SumNat
<1>7. CpuTime(p) = SumFunctionOnSet(f, T)
  BY DEF CpuTime, T, f
<1>8. Used(p) = CpuUpTo(p, n) - remaining[p]
  BY <1>3 DEF Used
<1>9. CpuUpTo(p, n) \in Nat
  BY <1>3, UsedFacts
<1> QED BY <1>1, <1>4, <1>6, <1>7, <1>8, <1>9

LEMMA TotalUsedAtMost ==
    ASSUME Inv
    PROVE  /\ TotalUsed <= SumFunctionOnSet([p \in Procs |-> CpuTime(p)], Procs)
           /\ SumFunctionOnSet([p \in Procs |-> CpuTime(p)], Procs) \in Nat
<1> DEFINE f == [p \in Procs |-> Used(p)]
           g == [p \in Procs |-> CpuTime(p)]
<1>1. IsFiniteSet(Procs) /\ \A p \in Procs : f[p] \in Int /\ g[p] \in Nat /\ f[p] <= g[p]
  BY UsedFacts, UsedAtMost, EngineAssumption
<1> HIDE DEF f, g
<1>2. SumFunctionOnSet(f, Procs) <= SumFunctionOnSet(g, Procs) /\ SumFunctionOnSet(g, Procs) \in Nat
  <2>1. \A p \in Procs : g[p] \in Int
    BY <1>1
  <2> QED BY <1>1, <2>1, SumMonotone, SumNat
<1> QED BY <1>2 DEF f, g, TotalUsed

\* only the end of a slice uses CPU time
LEMMA QuietUsed ==
    ASSUME \/ EngineStep \/ PicksDone
           \/ \E p \in Procs : Admit(p) \/ WakeUp(p)
           \/ \E s : Pick(s)
    PROVE  TotalUsed' = TotalUsed /\ w' = w
<1>1. UNCHANGED <<w, phase, remaining>>
  BY DEF EngineStep, Create, Reject, ArrivalsDone, WakeupsDone, EndsDone, SwitchIn, SwitchInsDone,
         InstantDone, Place, PlacesDone, Advance, CloseTimeline, Return, Terminated, PicksDone,
         Admit, WakeUp, Pick, procVars, engineVars
<1> QED BY <1>1, UsedSame

\* a run that has not begun, or has ended, begins only by Create
LEMMA StagesKept ==
    ASSUME stage \in {"create", "done"}
    PROVE  /\ EngineStep => stage' \in {"create", "done"} \/ (stage = "create" /\ OptionsAccepted)
           /\ ~PicksDone /\ \A p : ~Admit(p) /\ ~WakeUp(p)
           /\ \A s : ~Pick(s)
           /\ \A c : ~EndRun(c)
BY DEF EngineStep, Create, Reject, ArrivalsDone, WakeupsDone, EndsDone, SwitchIn, SwitchInsDone,
       InstantDone, Place, PlacesDone, Advance, CloseTimeline, Return, Terminated, PicksDone,
       Admit, WakeUp, Pick, WantsPick, EndRun, SliceEnds, engineVars

-----------------------------------------------------------------------------
(* Turns: what a policy that lets processes go first needs to know of the  *)
(* slices they have had                                                    *)

\* the ticks p has run in the slices that have ended
LoggedRun(p) == Ticks(log, p, {"run"})

\* a failed append adds nothing
LEMMA TicksAtMost ==
    ASSUME NEW l \in Logs, NEW c \in Cores, NEW g \in Segments, NEW m \in AppendSegment(l, c, g),
           WellMade(l.timelines[c]), NEW p, NEW K
    PROVE  Ticks(m, p, K) \subseteq Ticks(l, p, K) \cup
              IF g.proc = p /\ g.kind \in K THEN Covers(g) ELSE {}
<1>1. CASE m.fail = "ok"
  BY <1>1, TicksAppend
<1>2. CASE m.fail # "ok"
  <2>0. Dropped(l, g, m) \/ Merged(l, c, g, m) \/ Refused(l, g, m) \/ Added(l, c, g, m)
    BY AppendCases
  <2>1. m.timelines = l.timelines
    BY <1>2, <2>0 DEF Dropped, Merged, Refused, Added, Logs
  <2> QED BY <2>1 DEF Ticks, On
<1> QED BY <1>1, <1>2

LEMMA EndTicks ==
    ASSUME Inv, TimelineInv, NEW c \in Cores, SliceCompletes(c) \/ SliceBlocks(c) \/ SlicePreempted(c),
           NEW p \in Procs, NEW K
    PROVE  Ticks(log', p, K) \subseteq Ticks(log, p, K) \cup
              IF core[c].proc = p THEN {x \in Times : core[c].runStart <= x /\ x < now} ELSE {}
<1> DEFINE g == Segment(core[c].runStart, now, core[c].proc, "run")
<1>1. SliceEnds(c) /\ EndRun(c)
  BY DEF SliceCompletes, SliceBlocks, SlicePreempted, Complete, Block, Preempt, EndRun
<1>2. /\ g \in Segments /\ g.start = core[c].runStart /\ g.end = now
      /\ g.proc = core[c].proc /\ g.kind = "run"
  BY <1>1, SliceEndFacts DEF Segment, Segments, CoreStructs, Inv, TypeOK
<1>3. PICK l \in LogRun(c) : log'.timelines = l.timelines
  <2>1. CASE SliceCompletes(c) \/ SlicePreempted(c)
    BY <2>1 DEF SliceCompletes, SlicePreempted, Complete, Preempt
  <2>2. CASE SliceBlocks(c)
    <3>1. PICK l \in LogRun(c) : \E x, y : log' = NoteOverflow(l, x, y)
      BY <2>2 DEF SliceBlocks, Block
    <3>2. l \in Logs
      BY <1>1, LogRunType
    <3> QED BY <3>1, <3>2 DEF NoteOverflow, Logs
  <2> QED BY <2>1, <2>2
<1>4. l \in AppendSegment(log, c, g) /\ log \in Logs /\ WellMade(log.timelines[c])
  BY DEF LogRun, TimelineInv, Inv, TypeOK
<1> HIDE DEF g
<1>5. Ticks(l, p, K) \subseteq Ticks(log, p, K) \cup
         IF g.proc = p /\ g.kind \in K THEN Covers(g) ELSE {}
  BY <1>2, <1>4, TicksAtMost
<1>6. Ticks(log', p, K) = Ticks(l, p, K)
  BY <1>3 DEF Ticks, On, Covers
<1> QED BY <1>2, <1>5, <1>6 DEF Covers

LEMMA PlaceTicks ==
    ASSUME Inv, TimelineInv, NEW c \in Cores, NEW i \in DOMAIN picks, Place(i, c), NEW p \in Procs, NEW K,
           p # picks[i].proc \/ "cs" \notin K
    PROVE  Ticks(log', p, K) \subseteq Ticks(log, p, K)
<1>q. PICK q : q = picks[i].proc
  OBVIOUS
<1> DEFINE until == AddTime(now, CsCost)
           idle == Segment(core[c].freeSince, now, None, "idle")
           cs == Segment(now, until, q, "cs")
<1>1. PICK l \in AppendSegment(log, c, idle) :
        \/ log' \in AppendSegment(NoteOverflow(l, now, CsCost), c, cs)
        \/ \E k : log' = BegunLog(l, k)
  BY <1>q DEF Place
<1>2. /\ stage = "place" /\ core \in [Cores -> CoreStructs] /\ core[c] \in CoreStructs
      /\ log \in Logs /\ now \in Times /\ Free(c) /\ q \in Procs
  BY <1>q, PlaceFacts DEF Place, Inv, TypeOK, Slices
<1>3. Spans /\ LogWell(log) /\ closed = 0
  BY <1>2 DEF TimelineInv, Spans, Inv, TypeOK
<1>4. idle \in Segments /\ idle.start <= idle.end /\ idle.proc # p /\ idle.start = core[c].freeSince
  <2>1. core[c].freeSince <= now
    BY <1>2, <1>3 DEF Spans
  <2> QED BY <1>2, <2>1, EngineAssumption DEF Segment, Segments, CoreStructs
<1>5. until \in Times
  BY <1>2, AddTimeFacts, EngineAssumption DEF AddTime, Times
<1>6. cs \in Segments /\ (cs.proc # p \/ cs.kind \notin K)
  BY <1>q, <1>2, <1>5 DEF Segment, Segments
<1> HIDE DEF idle, cs, until
<1>7. l \in Logs /\ LogWell(l)
  <2>1. log.fail = "ok" => Reaches(log.timelines[c], core[c].freeSince)
    <3>1. ~(c <= closed)
      BY <1>3, EngineAssumption DEF Cores
    <3> QED BY <1>2, <1>3, <3>1 DEF Spans, Frontier
  <2> QED BY <1>1, <1>2, <1>3, <1>4, <2>1, AppendKeeps
<1>8. Ticks(l, p, K) \subseteq Ticks(log, p, K)
  <2>1. WellMade(log.timelines[c])
    BY <1>3 DEF LogWell
  <2> QED BY <1>1, <1>2, <1>4, <2>1, TicksAtMost
<1>9. ASSUME NEW m \in Logs, m.timelines = l.timelines, log' \in AppendSegment(m, c, cs)
      PROVE  Ticks(log', p, K) \subseteq Ticks(l, p, K)
  <2>1. WellMade(m.timelines[c])
    BY <1>7, <1>9 DEF LogWell
  <2>2. Ticks(log', p, K) \subseteq Ticks(m, p, K)
    BY <1>6, <1>9, <2>1, TicksAtMost
  <2>3. Ticks(m, p, K) = Ticks(l, p, K)
    BY <1>9 DEF Ticks, On
  <2> QED BY <2>2, <2>3
<1>10. Ticks(log', p, K) \subseteq Ticks(l, p, K)
  <2>1. CASE log' \in AppendSegment(NoteOverflow(l, now, CsCost), c, cs)
    <3>1. NoteOverflow(l, now, CsCost) \in Logs
          /\ NoteOverflow(l, now, CsCost).timelines = l.timelines
      BY <1>7, NoteKeeps
    <3> QED BY <1>9, <2>1, <3>1
  <2>2. CASE \E k : log' = BegunLog(l, k)
    <3>1. log'.timelines = l.timelines
      BY <1>7, <2>2 DEF BegunLog, NoteOverflow, Logs
    <3> QED BY <3>1 DEF Ticks, On
  <2> QED BY <1>1, <2>1, <2>2
<1> QED BY <1>8, <1>10

\* only the end of a slice and the dispatch of a process add to its ticks
LEMMA OtherTicks ==
    ASSUME Inv, TimelineInv, [Next]_vars, NEW p \in Procs, NEW K, p \notin OnCore' \/ "cs" \notin K,
           ~\E c \in Cores : SliceCompletes(c) \/ SliceBlocks(c) \/ SlicePreempted(c)
    PROVE  Ticks(log', p, K) \subseteq Ticks(log, p, K)
<1>1. ASSUME log'.timelines = log.timelines PROVE Ticks(log', p, K) \subseteq Ticks(log, p, K)
  BY <1>1 DEF Ticks, On, Covers
<1>2. CASE \E c \in Cores, i \in DOMAIN picks : Place(i, c)
  <2>1. PICK c \in Cores, i \in DOMAIN picks : Place(i, c)
    BY <1>2
  <2>2. PICK q \in Procs : q = picks[i].proc
    BY <2>1, PlaceFacts DEF Slices
  <2>3. core'[c].proc = q /\ q # None
    BY <2>1, <2>2, PlaceFacts, EngineAssumption
  <2>4. q \in OnCore'
    BY <2>3 DEF OnCore, Busy, Free
  <2> QED BY <2>1, <2>2, <2>4, PlaceTicks
<1>3. CASE \E c \in Cores : SwitchIn(c)
  <2>1. PICK x, y, a, b : log' = NoteOverflow(log, x, y) \/ log' = NoteOverflow(NoteOverflow(log, a, b), x, y)
    BY <1>3 DEF SwitchIn, BegunLog
  <2>2. log \in Logs
    BY DEF Inv, TypeOK
  <2>3. log'.timelines = log.timelines
    BY <2>1, <2>2 DEF NoteOverflow, Logs
  <2> QED BY <1>1, <2>3
<1>4. CASE CloseTimeline
  <2> DEFINE c == closed + 1
             g == Segment(core[c].freeSince, now, None, "idle")
  <2>1. log' \in AppendSegment(log, c, g)
    BY <1>4 DEF CloseTimeline
  <2>2. c \in Cores /\ log \in Logs /\ now \in Times /\ core \in [Cores -> CoreStructs]
    BY <1>4, EngineAssumption DEF CloseTimeline, Inv, TypeOK, Cores
  <2>3. WellMade(log.timelines[c])
    BY <2>2 DEF TimelineInv
  <2> HIDE DEF c
  <2>4. g \in Segments /\ g.proc # p
    BY <2>2, EngineAssumption DEF Segment, Segments, CoreStructs
  <2> HIDE DEF g
  <2>5. Ticks(log', p, K) \subseteq Ticks(log, p, K)
    BY <2>1, <2>2, <2>3, <2>4, TicksAtMost
  <2> QED BY <2>5
<1>5. CASE Return
  <2>1. CASE log.fail = "ok"
    BY <1>1, <1>5, <2>1 DEF Return
  <2>2. CASE log.fail # "ok"
    <3>1. \A c \in Cores : log'.timelines[c] = <<>>
      BY <1>5, <2>2 DEF Return, Inv, TypeOK, Logs
    <3> QED BY <3>1 DEF Ticks, On, Covers
  <2> QED BY <2>1, <2>2
<1>6. CASE UNCHANGED log
  BY <1>1, <1>6
<1> QED
  BY <1>2, <1>3, <1>4, <1>5, <1>6
  DEF Next, vars, Arrive, BecomeReady, Admit, WakeUp, NextSlice, Pick, StopPicking, PicksDone,
      EngineStep, Create, Reject, ArrivalsDone, WakeupsDone, EndsDone, SwitchInsDone, InstantDone,
      PlacesDone, Advance, Terminated, resultVars, engineVars

LEMMA EndRunTicks ==
    ASSUME Inv, TimelineInv, NEW c \in Cores, SliceCompletes(c) \/ SliceBlocks(c) \/ SlicePreempted(c),
           NEW p \in Procs
    PROVE  LoggedRun(p)' \subseteq LoggedRun(p) \cup
              IF core[c].proc = p THEN {x \in Times : core[c].runStart <= x /\ x < now} ELSE {}
<1>1. Ticks(log', p, {"run"}) \subseteq Ticks(log, p, {"run"}) \cup
         IF core[c].proc = p THEN {x \in Times : core[c].runStart <= x /\ x < now} ELSE {}
  BY EndTicks
<1>2. LoggedRun(p)' = Ticks(log', p, {"run"})
  BY DEF LoggedRun, Ticks, On, Covers
<1> QED BY <1>1, <1>2 DEF LoggedRun

\* only the end of a slice adds run ticks to the log: its own
LEMMA LoggedRunStep ==
    ASSUME Inv, TimelineInv, [Next]_vars, NEW p \in Procs,
           ~\E c \in Cores : SliceCompletes(c) \/ SliceBlocks(c) \/ SlicePreempted(c)
    PROVE  LoggedRun(p)' \subseteq LoggedRun(p)
<1>1. Ticks(log', p, {"run"}) \subseteq Ticks(log, p, {"run"})
  BY OtherTicks
<1>2. LoggedRun(p)' = Ticks(log', p, {"run"})
  BY DEF LoggedRun, Ticks, On, Covers
<1> QED BY <1>1, <1>2 DEF LoggedRun

\* a process that has not started has not had a slice
Unstarted ==
    stage # "done" =>
        \A p \in Procs : outcome[p].start < 0 =>
            p \notin blocked /\ \A c \in Running : core[c].proc # p
\* a slice that runs has not outlived its length
WithinLength == \A c \in Running : core[c].runStart <= now /\ now <= core[c].runStart + core[c].length
LoggedPast == \A p \in Procs : \A t \in LoggedRun(p) : t < now
SliceInv == Unstarted /\ WithinLength /\ LoggedPast

LEMMA InitSlices == Init => SliceInv
<1> SUFFICES ASSUME Init PROVE SliceInv
  OBVIOUS
<1>1. Running = {} /\ blocked = {}
  BY DEF Init, EngineInit, FreshCore, Running, Busy, Free
<1>2. \A p : LoggedRun(p) = {}
  BY DEF Init, EngineInit, LoggedRun, Ticks, On
<1> QED BY <1>1, <1>2 DEF SliceInv, Unstarted, WithinLength, LoggedPast

LEMMA BegunStart ==
    ASSUME Inv, NEW q \in Procs, outcome' = BegunOutcome(q), NEW p \in Procs, outcome'[p].start < 0
    PROVE  p # q /\ outcome[p].start < 0
<1>1. now \in Times /\ outcome \in [Procs -> Outcomes]
  BY DEF Inv, TypeOK, Outcomes
<1>2. CASE outcome[q].start < 0
  <2>1. outcome' = [outcome EXCEPT ![q] = [outcome[q] EXCEPT !.start = now]]
    BY <1>2 DEF BegunOutcome
  <2>2. outcome'[q].start = now
    BY <1>1, <2>1 DEF Outcomes
  <2>3. p # q
    BY <1>1, <2>2 DEF Times
  <2> QED BY <1>1, <2>1, <2>3
<1>3. CASE ~(outcome[q].start < 0)
  BY <1>3 DEF BegunOutcome
<1> QED BY <1>2, <1>3

LEMMA UnstartedStep ==
    ASSUME Inv, Unstarted, [Next]_vars
    PROVE  Unstarted'
<1> SUFFICES ASSUME stage' # "done", NEW p \in Procs, outcome'[p].start < 0
             PROVE  p \notin blocked' /\ \A c \in Running' : core'[c].proc # p
  BY DEF Unstarted
<1>0. /\ stage # "done" /\ outcome \in [Procs -> Outcomes] /\ core \in [Cores -> CoreStructs]
  BY DoneStays DEF vars, engineVars, Inv, TypeOK, Outcomes
<1>1. ASSUME outcome'[p] = outcome[p], blocked' \subseteq blocked,
             \A c \in Running' : c \in Running /\ core'[c].proc = core[c].proc
      PROVE  p \notin blocked' /\ \A c \in Running' : core'[c].proc # p
  BY <1>0, <1>1 DEF Unstarted
<1>2. CASE \E c \in Cores : SliceCompletes(c) \/ SliceBlocks(c) \/ SlicePreempted(c)
  <2>1. PICK c \in Cores : SliceCompletes(c) \/ SliceBlocks(c) \/ SlicePreempted(c)
    BY <1>2
  <2>2. EndRun(c) /\ SliceEnds(c)
    BY <2>1 DEF SliceCompletes, SliceBlocks, SlicePreempted, Complete, Block, Preempt, EndRun
  <2>3. /\ Running' = Running \ {c} /\ \A d \in Cores \ {c} : core'[d] = core[d]
        /\ c \in Running
    BY <2>2, EndRunFacts, SliceEndFacts
  <2>4. blocked' \subseteq blocked \cup {core[c].proc}
    BY <2>1 DEF SliceCompletes, SliceBlocks, SlicePreempted, Complete, Block, Preempt
  <2>5. outcome[p].start < 0
    BY <1>0, <2>1 DEF SliceCompletes, SliceBlocks, SlicePreempted, Complete, Block, Preempt, Outcomes
  <2> QED BY <1>0, <2>3, <2>4, <2>5 DEF Unstarted, Running, Busy
<1>3. CASE \E c \in Cores : SwitchIn(c)
  <2>1. PICK c \in Cores : SwitchIn(c)
    BY <1>3
  <2>2. PICK q \in Procs : q = core[c].proc
    BY <1>0, <2>1 DEF SwitchIn, IsLowest, SwitchedIn, Busy, Free, CoreStructs
  <2>3. PICK k : (k = core[c] \/ k = [core[c] EXCEPT !.deadline = AddTime(now, 1)])
               /\ core' = [core EXCEPT ![c] = Begun(k)] /\ outcome' = BegunOutcome(k.proc)
               /\ blocked' = blocked
    BY <2>1 DEF SwitchIn
  <2>4. k.proc = q /\ Begun(k).proc = q /\ \A d \in Cores \ {c} : core'[d] = core[d]
    BY <1>0, <2>2, <2>3 DEF CoreStructs, Begun
  <2>5. p # q /\ outcome[p].start < 0
    BY <2>2, <2>3, <2>4, BegunStart
  <2>6. core'[c].proc = q
    BY <1>0, <2>3, <2>4
  <2> QED BY <1>0, <2>3, <2>4, <2>5, <2>6 DEF Unstarted, Running, Busy, Free
<1>4. CASE \E c \in Cores, i \in DOMAIN picks : Place(i, c)
  <2>1. PICK c \in Cores, i \in DOMAIN picks : Place(i, c)
    BY <1>4
  <2>2. PICK q \in Procs : q = picks[i].proc
    BY <2>1, PlaceFacts DEF Slices
  <2>3. core'[c].proc = q /\ \A d \in Cores \ {c} : core'[d] = core[d]
    BY <2>1, <2>2, PlaceFacts
  <2>4. blocked' = blocked /\ (outcome' = BegunOutcome(q) \/ outcome' = outcome)
    BY <2>1, <2>2 DEF Place
  <2>5. outcome' # BegunOutcome(q) => core'[c].inCs
    <3> DEFINE taken == [core[c] EXCEPT !.proc = q, !.length = picks[i].length, !.context = q,
                                    !.deadline = picks[i].deadline, !.recheck = FALSE]
    <3>1. \/ core' = [core EXCEPT ![c] = [taken EXCEPT !.inCs = TRUE, !.busyUntil = AddTime(now, CsCost)]]
          \/ outcome' = BegunOutcome(q)
      BY <2>1, <2>2 DEF Place
    <3>2. [taken EXCEPT !.inCs = TRUE, !.busyUntil = AddTime(now, CsCost)].inCs
      BY <1>0 DEF CoreStructs
    <3> HIDE DEF taken
    <3> QED BY <1>0, <3>1, <3>2
  <2>6. outcome[p].start < 0 /\ (p = q => core'[c].inCs)
    BY <2>2, <2>4, <2>5, BegunStart
  <2> QED BY <1>0, <2>3, <2>4, <2>6 DEF Unstarted, Running, Busy, Free
<1>5. CASE EndsDone
  <2>1. \A c \in Cores : core'[c].proc = core[c].proc /\ core'[c].inCs = core[c].inCs
    BY <1>0, <1>5 DEF EndsDone, CoreStructs
  <2> QED BY <1>1, <1>5, <2>1 DEF EndsDone, resultVars, Running, Busy, Free
<1>6. CASE UNCHANGED <<outcome, core>> /\ blocked' \subseteq blocked
  BY <1>1, <1>6 DEF Running, Busy, Free
<1>7. CASE Return \/ Reject \/ Terminated
  BY <1>0, <1>7 DEF Return, Reject, Terminated
<1> QED
  BY <1>2, <1>3, <1>4, <1>5, <1>6, <1>7
  DEF Next, vars, Arrive, BecomeReady, Admit, WakeUp, NextSlice, Pick, StopPicking, PicksDone,
      EngineStep, Create, ArrivalsDone, WakeupsDone, SwitchInsDone, InstantDone,
      PlacesDone, Advance, CloseTimeline, resultVars, engineVars

LEMMA FitsLength == Inv /\ stage # "done" => WithinLength
<1> SUFFICES ASSUME Inv, stage # "done", NEW c \in Running
             PROVE  core[c].runStart <= now /\ now <= core[c].runStart + core[c].length
  BY DEF WithinLength
<1>1. core[c] \in CoreStructs /\ now \in Times
  BY DEF Running, Busy, Inv, TypeOK
<1>2. /\ core[c].runStart <= now /\ now <= core[c].busyUntil
      /\ core[c].busyUntil <= core[c].runEnd
      /\ core[c].runEnd <= core[c].runStart + core[c].length
  BY DEF Inv, SlicesFit
<1> QED BY <1>1, <1>2 DEF CoreStructs, Times

LEMMA FitsLengthNext == Inv' /\ stage' # "done" => WithinLength'
<1>1. Underway => WithinLength
  BY FitsLength DEF Underway
<1>2. Underway' => WithinLength'
  BY <1>1, PTL
<1> QED BY <1>2 DEF Underway

LEMMA LengthStep == ASSUME Inv', WithinLength, [Next]_vars PROVE WithinLength'
<1>1. CASE stage' # "done"
  BY <1>1, FitsLengthNext
<1>2. CASE stage' = "done"
  <2>1. UNCHANGED <<core, now>>
    BY <1>2 DEF Next, vars, engineVars, Arrive, Admit, BecomeReady, WakeUp, SliceCompletes,
       SliceBlocks, SlicePreempted, Complete, Block, Preempt, EndRun, SliceEnds, NextSlice,
       Pick, WantsPick, StopPicking, PicksDone, EngineStep, Create, Reject, ArrivalsDone,
       WakeupsDone, EndsDone, SwitchIn, SwitchInsDone, InstantDone, Place, PlacesDone,
       Advance, CloseTimeline, Return, Terminated
  <2> QED BY <2>1 DEF WithinLength, Running, Busy, Free
<1> QED BY <1>1, <1>2

LEMMA SlicesStep == ASSUME Inv, Inv', TimelineInv, SliceInv, [Next]_vars PROVE SliceInv'
<1>1. Unstarted' /\ WithinLength'
  BY UnstartedStep, LengthStep DEF SliceInv
<1>2. ASSUME NEW p \in Procs, NEW t \in LoggedRun(p)' PROVE t < now'
  <2>1. now <= now' /\ now \in Nat /\ now' \in Nat /\ t \in Nat
    BY NeverBack, EngineAssumption DEF LoggedRun, Ticks, On, Covers, Times
  <2>2. CASE t \in LoggedRun(p)
    BY <2>1, <2>2 DEF SliceInv, LoggedPast
  <2>3. CASE t \notin LoggedRun(p)
    <3>1. PICK c \in Cores : SliceCompletes(c) \/ SliceBlocks(c) \/ SlicePreempted(c)
      BY <1>2, <2>3, LoggedRunStep
    <3>2. t < now
      BY <1>2, <2>3, <3>1, EndRunTicks
    <3> QED BY <2>1, <3>2
  <2> QED BY <2>2, <2>3
<1>3. LoggedPast'
  BY <1>2 DEF LoggedPast
<1> QED BY <1>1, <1>3 DEF SliceInv

\* a process is taken for one that has not started only if it was before
LEMMA StartKept ==
    ASSUME Inv, [Next]_vars, NEW p \in Procs, outcome'[p].start < 0
    PROVE  outcome[p].start < 0 \/ \A q \in Procs : LoggedRun(q)' = {}
<1>0. outcome \in [Procs -> Outcomes] /\ core \in [Cores -> CoreStructs]
  BY DEF Inv, TypeOK, Outcomes
<1>1. CASE Return /\ log.fail # "ok"
  <2>1. \A c \in Cores : log'.timelines[c] = <<>>
    BY <1>1 DEF Return, Inv, TypeOK, Logs
  <2> QED BY <2>1 DEF LoggedRun, Ticks, On, Covers
<1>2. CASE outcome'[p] = outcome[p]
  BY <1>2
<1>3. CASE \E q \in Procs : outcome' = BegunOutcome(q)
  BY <1>3, BegunStart
<1>4. CASE \E c \in Cores : SwitchIn(c)
  <2>1. PICK c \in Cores : SwitchIn(c)
    BY <1>4
  <2>2. core[c].proc \in Procs
    BY <1>0, <2>1 DEF SwitchIn, IsLowest, SwitchedIn, Busy, Free, CoreStructs
  <2>3. outcome' = BegunOutcome(core[c].proc)
    BY <1>0, <2>1 DEF SwitchIn, BegunOutcome, CoreStructs
  <2> QED BY <1>3, <2>2, <2>3
<1>5. CASE \E c \in Cores, i \in DOMAIN picks : Place(i, c)
  <2>1. PICK c \in Cores, i \in DOMAIN picks : Place(i, c)
    BY <1>5
  <2>2. picks[i].proc \in Procs
    BY <2>1, PlaceFacts DEF Slices
  <2>3. outcome' = BegunOutcome(picks[i].proc) \/ outcome' = outcome
    BY <2>1 DEF Place
  <2> QED BY <1>2, <1>3, <2>2, <2>3
<1>6. CASE \E c \in Cores : SliceCompletes(c) \/ SliceBlocks(c) \/ SlicePreempted(c)
  <2>1. PICK c \in Cores : SliceCompletes(c) \/ SliceBlocks(c) \/ SlicePreempted(c)
    BY <1>6
  <2>2. outcome' = outcome \/ outcome' = [outcome EXCEPT ![core[c].proc] = [@ EXCEPT !.completion = now]]
    BY <2>1 DEF SliceCompletes, SliceBlocks, SlicePreempted, Complete, Block, Preempt
  <2>3. outcome'[p].start = outcome[p].start
    BY <1>0, <2>2 DEF Outcomes
  <2> QED BY <2>3
<1>7. CASE UNCHANGED outcome
  BY <1>2, <1>7
<1> QED
  BY <1>1, <1>4, <1>5, <1>6, <1>7
  DEF Next, vars, Arrive, BecomeReady, Admit, WakeUp, NextSlice, Pick, StopPicking, PicksDone,
      EngineStep, Create, Reject, ArrivalsDone, WakeupsDone, EndsDone, SwitchInsDone, InstantDone,
      PlacesDone, Advance, CloseTimeline, Return, Terminated, resultVars, engineVars

\* p has had no more than n ticks since a, and none while it is yet to be
\* placed and run, in A or taken
Since(p, a) == {t \in LoggedRun(p) : t >= a}
Turn(p, a, n, A) == Cardinality(Since(p, a)) <= n /\ (p \in Taken \cup A => Since(p, a) = {})

LEMMA SinceFinite ==
    ASSUME Inv, NEW p, NEW a
    PROVE  IsFiniteSet(Since(p, a))
<1>1. IsFiniteSet(LoggedRun(p))
  BY OnCores DEF LoggedRun
<1> QED BY <1>1, FS_Subset DEF Since

LEMMA EmptyTurn ==
    ASSUME NEW p, NEW a, NEW n \in Nat, NEW A, Since(p, a) = {}
    PROVE  Turn(p, a, n, A)
BY FS_EmptySet DEF Turn

LEMMA FreshTurn ==
    ASSUME Inv, SliceInv, NEW p \in Procs, NEW a \in Nat, now <= a
    PROVE  Since(p, a) = {}
<1>1. \A t \in LoggedRun(p) : t < now /\ t \in Int
  BY EngineAssumption DEF SliceInv, LoggedPast, LoggedRun, Ticks, On, Covers, Times
<1>2. now \in Int
  BY EngineAssumption DEF Inv, TypeOK, Times
<1> QED BY <1>1, <1>2 DEF Since

LEMMA SliceSize ==
    ASSUME NEW s \in Nat, NEW t \in Nat, NEW n \in Nat, t <= s + n
    PROVE  IsFiniteSet(s..(t - 1)) /\ Cardinality(s..(t - 1)) <= n
<1> DEFINE e == t - 1
<1>1. e \in Int /\ s \in Int /\ e - s + 1 <= n
  OBVIOUS
<1> HIDE DEF e
<1>2. IsFiniteSet(s..e) /\ Cardinality(s..e) = IF s > e THEN 0 ELSE e - s + 1
  BY <1>1, FS_Interval
<1>3. IsFiniteSet(s..e) /\ Cardinality(s..e) <= n
  BY <1>1, <1>2
<1> QED BY <1>3 DEF e

LEMMA TurnStep ==
    ASSUME Inv, Inv', TimelineInv, SliceInv, [Next]_vars, NEW p \in Procs, NEW a, NEW n \in Nat,
           NEW A \in SUBSET ready, NEW B \in SUBSET A, Taken' \subseteq Taken \cup A,
           \A x \in Granted : x[2] <= n, Turn(p, a, n, A)
    PROVE  Turn(p, a, n, B)'
<1>1. ASSUME Since(p, a)' \subseteq Since(p, a) PROVE Turn(p, a, n, B)'
  <2>1. IsFiniteSet(Since(p, a))
    BY SinceFinite
  <2>2. /\ Cardinality(Since(p, a)') <= Cardinality(Since(p, a))
        /\ Cardinality(Since(p, a)') \in Nat /\ Cardinality(Since(p, a)) \in Nat
    BY <1>1, <2>1, FS_Subset, FS_CardinalityType
  <2>3. Cardinality(Since(p, a)') <= n
    BY <2>2 DEF Turn
  <2>4. p \in Taken' \cup B => Since(p, a)' = {}
    BY <1>1 DEF Turn
  <2> QED BY <2>3, <2>4 DEF Turn
<1>2. CASE \E c \in Cores : (SliceCompletes(c) \/ SliceBlocks(c) \/ SlicePreempted(c)) /\ core[c].proc = p
  <2>1. PICK c \in Cores : (SliceCompletes(c) \/ SliceBlocks(c) \/ SlicePreempted(c)) /\ core[c].proc = p
    BY <1>2
  <2>2. EndRun(c) /\ SliceEnds(c)
    BY <2>1 DEF SliceCompletes, SliceBlocks, SlicePreempted, Complete, Block, Preempt, EndRun
  <2>3. c \in Running /\ core[c] \in CoreStructs /\ p \in OnCore /\ Taken' = Taken \ {p}
    BY <2>1, <2>2, SliceEndFacts, EndRunFacts, EndRunTaken
  <2>4. p \in Taken /\ p \notin B
    BY <2>3 DEF Taken, Inv, OnePlace
  <2>5. Since(p, a) = {}
    BY <2>4 DEF Turn
  <2> DEFINE slice == core[c].runStart .. (now - 1)
  <2>6. now \in Nat /\ core[c].runStart \in Nat /\ core[c].length \in Nat
    BY <2>3, EngineAssumption DEF CoreStructs, Inv, TypeOK, Times
  <2>7. Since(p, a)' \subseteq slice
    <3>1. LoggedRun(p)' \subseteq LoggedRun(p) \cup {x \in Times : core[c].runStart <= x /\ x < now}
      BY <2>1, EndRunTicks
    <3>2. \A x \in Times : core[c].runStart <= x /\ x < now => x \in slice
      BY <2>6, EngineAssumption DEF Times
    <3> HIDE DEF slice
    <3> QED BY <2>5, <3>1, <3>2 DEF Since
  <2>8. core[c].runStart <= now /\ now <= core[c].runStart + core[c].length
    BY <2>3 DEF SliceInv, WithinLength
  <2>9. core[c].length <= n
    <3>1. <<core[c].proc, core[c].length>> \in Granted
      BY <2>3 DEF Granted, Running
    <3> QED BY <3>1
  <2>10. IsFiniteSet(slice) /\ Cardinality(slice) <= n
    <3>1. now <= core[c].runStart + n
      BY <2>6, <2>8, <2>9
    <3> QED BY <2>6, <3>1, SliceSize
  <2> HIDE DEF slice
  <2>11. Cardinality(Since(p, a)') <= n
    BY <2>7, <2>10, FS_Subset, FS_CardinalityType
  <2> QED BY <2>3, <2>4, <2>11 DEF Turn
<1>3. CASE \E c \in Cores : (SliceCompletes(c) \/ SliceBlocks(c) \/ SlicePreempted(c)) /\ core[c].proc # p
  <2>1. LoggedRun(p)' \subseteq LoggedRun(p)
    BY <1>3, EndRunTicks
  <2> QED BY <1>1, <2>1 DEF Since
<1>4. CASE ~\E c \in Cores : SliceCompletes(c) \/ SliceBlocks(c) \/ SlicePreempted(c)
  <2>1. LoggedRun(p)' \subseteq LoggedRun(p)
    BY <1>4, LoggedRunStep
  <2> QED BY <1>1, <2>1 DEF Since
<1> QED BY <1>2, <1>3, <1>4

\* counting the slice that p is running, which is not logged yet
LEMMA TurnRead ==
    ASSUME Inv, SliceInv, NEW p \in Procs, NEW a \in Nat, NEW n \in Nat, NEW A,
           \A x \in Granted : x[2] <= n, Turn(p, a, n, A)
    PROVE  Cardinality({t \in RunTicks(p) : t >= a}) <= n
<1>1. TicksOf(p, "run") = LoggedRun(p)
  BY TicksRead DEF LoggedRun
<1>2. CASE \A c \in Running : core[c].proc # p
  <2>1. UnloggedTicks(p) = {}
    BY <1>2 DEF UnloggedTicks
  <2>2. {t \in RunTicks(p) : t >= a} = Since(p, a)
    BY <1>1, <2>1 DEF RunTicks, Since
  <2> QED BY <2>2 DEF Turn
<1>3. CASE \E c \in Running : core[c].proc = p
  <2>1. PICK c \in Running : core[c].proc = p
    BY <1>3
  <2> DEFINE slice == core[c].runStart .. (now - 1)
  <2>2. c \in Busy /\ core[c] \in CoreStructs
    BY <2>1 DEF Running, Busy, Inv, TypeOK
  <2>3. \A d \in Running : core[d].proc = p => d = c
    BY <2>1, <2>2 DEF Running, Inv, OnePlace
  <2>4. UnloggedTicks(p) = slice
    <3>1. {d \in Running : core[d].proc = p} = {c}
      BY <2>1, <2>3
    <3> QED BY <3>1 DEF UnloggedTicks
  <2>5. Since(p, a) = {}
    BY <2>1, <2>2 DEF Turn, Taken, OnCore
  <2>6. {t \in RunTicks(p) : t >= a} \subseteq slice
    <3> HIDE DEF slice
    <3> QED BY <1>1, <2>4, <2>5 DEF RunTicks, Since
  <2>7. now \in Nat /\ core[c].runStart \in Nat /\ core[c].length \in Nat
    BY <2>2, EngineAssumption DEF CoreStructs, Inv, TypeOK, Times
  <2>8. core[c].runStart <= now /\ now <= core[c].runStart + core[c].length
    BY <2>1 DEF SliceInv, WithinLength
  <2>9. core[c].length <= n
    <3>1. <<core[c].proc, core[c].length>> \in Granted
      BY <2>2 DEF Granted
    <3> QED BY <3>1
  <2>10. IsFiniteSet(slice) /\ Cardinality(slice) <= n
    <3>1. now <= core[c].runStart + n
      BY <2>7, <2>8, <2>9
    <3> QED BY <2>7, <3>1, SliceSize
  <2> HIDE DEF slice
  <2> QED BY <2>6, <2>10, FS_Subset, FS_CardinalityType
<1> QED BY <1>2, <1>3

LEMMA SliceInvariant == Spec => [](Inv /\ TimelineInv /\ SliceInv)
<1>1. Inv /\ Inv' /\ TimelineInv /\ SliceInv /\ [Next]_vars => SliceInv'
  BY SlicesStep
<1> QED
  BY <1>1, InitSlices, ServiceInvariant, PTL DEF Spec
-----------------------------------------------------------------------------
(* Waiting: what a policy that counts ready time needs to know             *)

\* the ticks that the log shows p on a core, switching in or running
LoggedCpu(p) == Ticks(log, p, CpuKinds)

\* they stand still while p is on no core
LEMMA QuietCpu ==
    ASSUME Inv, TimelineInv, [Next]_vars, NEW p \in Procs, p \notin OnCore, p \notin OnCore'
    PROVE  LoggedCpu(p)' \subseteq LoggedCpu(p)
<1>1. Ticks(log', p, CpuKinds) \subseteq Ticks(log, p, CpuKinds)
  <2>1. CASE \E c \in Cores : SliceCompletes(c) \/ SliceBlocks(c) \/ SlicePreempted(c)
    <3>1. PICK c \in Cores : SliceCompletes(c) \/ SliceBlocks(c) \/ SlicePreempted(c)
      BY <2>1
    <3>2. SliceEnds(c)
      BY <3>1 DEF SliceCompletes, SliceBlocks, SlicePreempted, Complete, Block, Preempt, EndRun
    <3>3. core[c].proc # p
      BY <3>2, SliceEndFacts DEF OnCore, Running
    <3> QED BY <3>1, <3>3, EndTicks
  <2>2. CASE ~\E c \in Cores : SliceCompletes(c) \/ SliceBlocks(c) \/ SlicePreempted(c)
    BY <2>2, OtherTicks
  <2> QED BY <2>1, <2>2
<1>2. LoggedCpu(p)' = Ticks(log', p, CpuKinds)
  BY DEF LoggedCpu, Ticks, On, Covers
<1> QED BY <1>1, <1>2 DEF LoggedCpu

\* when a process arrives or wakes up, all its ticks lie in the past
LEMMA JoiningCpu ==
    ASSUME Inv, ServiceInv, log.fail = "ok", NEW p \in Procs, Admit(p) \/ WakeUp(p)
    PROVE  /\ \A x \in LoggedCpu(p) : x < now
           /\ Admit(p) => p \in pending /\ w.arrival[p] = now
           /\ WakeUp(p) => p \in blocked /\ wake[p] = now
<1>0. stage # "done" /\ now \in Nat
  BY EngineAssumption DEF Admit, WakeUp, Inv, TypeOK, Times
<1>1. Standing(p)
  BY DEF ServiceInv
<1>2. \A x \in LoggedCpu(p) : x < Resumes(p)
  BY <1>1 DEF Standing, Stands, LoggedCpu
<1>3. CASE Admit(p)
  <2>1. p \in pending /\ w.arrival[p] <= now /\ now <= w.arrival[p]
    BY <1>0, <1>3 DEF Admit, Arrived, Inv, NothingMissed
  <2>2. w.arrival[p] \in Nat
    BY ProcessTypes
  <2>3. Resumes(p) = now
    BY <2>1 DEF Resumes, Inv, OnePlace
  <2> QED BY <1>0, <1>2, <1>3, <2>1, <2>2, <2>3 DEF Admit, WakeUp
<1>4. CASE WakeUp(p)
  <2>1. p \in blocked /\ wake[p] <= now /\ now <= wake[p]
    BY <1>0, <1>4 DEF WakeUp, Woken, Inv, NothingMissed
  <2>2. wake[p] \in Nat
    BY EngineAssumption DEF Inv, TypeOK, Times
  <2>3. Resumes(p) = wake[p]
    BY <2>1 DEF Resumes
  <2> QED BY <1>0, <1>2, <1>4, <2>1, <2>2, <2>3 DEF Admit, WakeUp
<1> QED BY <1>3, <1>4

\* a process that has not arrived is at its first burst, one in I/O is not; all of it is left
BurstKnown ==
    /\ \A p \in pending : phase[p] = 1 /\ remaining[p] = BurstLen(p)
    /\ \A p \in blocked : phase[p] > 1 /\ remaining[p] = BurstLen(p)

\* the log has not failed when the policy is asked for slices
FailSeen == stage = "picks" => log.fail = "ok"

\* what was picked is placed before the call returns
PicksSettled == stage = "done" => picks = <<>>

LEMMA InitWaiting == Init => BurstKnown /\ FailSeen /\ PicksSettled
BY DEF Init, EngineInit, BurstKnown, FailSeen, PicksSettled, BurstLen

LEMMA BurstKnownStep == ASSUME Inv, BurstKnown, [Next]_vars PROVE BurstKnown'
<1>0. pending \subseteq Procs /\ blocked \subseteq Procs /\ w' = w
  BY WorkloadKept DEF Inv, TypeOK
<1>1. ASSUME NEW p \in pending' PROVE phase'[p] = 1 /\ remaining'[p] = BurstLen(p)'
  <2>1. p \in pending /\ p \in Procs
    BY <1>0, <1>1, PendingShrinks
  <2>2. p \notin OnCore
    BY <2>1 DEF Inv, OnePlace
  <2>3. phase'[p] = phase[p] /\ remaining'[p] = remaining[p]
    BY <2>1, <2>2, OffCoreKept
  <2> QED BY <1>0, <2>1, <2>3 DEF BurstKnown, BurstLen
<1>2. ASSUME NEW p \in blocked' PROVE phase'[p] > 1 /\ remaining'[p] = BurstLen(p)'
  <2>1. CASE p \in blocked
    <3>1. p \notin OnCore
      BY <2>1 DEF Inv, OnePlace
    <3>2. phase'[p] = phase[p] /\ remaining'[p] = remaining[p]
      BY <1>0, <2>1, <3>1, OffCoreKept
    <3> QED BY <1>0, <2>1, <3>2 DEF BurstKnown, BurstLen
  <2>2. CASE p \notin blocked
    BY <1>0, <1>2, <2>2, NewlyBlocked DEF BurstLen
  <2> QED BY <2>1, <2>2
<1> QED BY <1>1, <1>2 DEF BurstKnown

LEMMA FailSeenStep == ASSUME FailSeen, [Next]_vars PROVE FailSeen'
<1> SUFFICES ASSUME stage' = "picks" PROVE log'.fail = "ok"
  BY DEF FailSeen
<1>1. CASE UNCHANGED vars
  BY <1>1 DEF vars, engineVars, FailSeen, resultVars
<1>2. CASE InstantDone
  BY <1>2 DEF InstantDone, resultVars
<1>3. CASE \E p \in ready : \E s \in SlicesFor(p) : NextSlice(s)
  BY <1>3 DEF NextSlice, Pick, FailSeen, resultVars
<1>4. CASE Terminated
  BY <1>4 DEF Terminated, engineVars
<1> QED
  BY <1>1, <1>2, <1>3, <1>4
  DEF Next, vars, engineVars, Arrive, Admit, BecomeReady, WakeUp, SliceCompletes,
      SliceBlocks, SlicePreempted, Complete, Block, Preempt, EndRun, SliceEnds,
      Pick, WantsPick, StopPicking, PicksDone, EngineStep, Create, Reject, ArrivalsDone,
      WakeupsDone, EndsDone, SwitchIn, SwitchInsDone, Place, PlacesDone,
      Advance, CloseTimeline, Return

LEMMA PicksSettledStep == ASSUME Inv, PicksSettled, [Next]_vars PROVE PicksSettled'
<1> SUFFICES ASSUME stage' = "done" PROVE picks' = <<>>
  BY DEF PicksSettled
<1>0. stage # "done" => (picks # <<>> => stage \in {"picks", "place"})
  BY DEF Inv, HasWork
<1>1. CASE UNCHANGED vars \/ Terminated
  BY <1>1 DEF vars, engineVars, Terminated, PicksSettled
<1>2. CASE Reject \/ Return
  BY <1>0, <1>2 DEF Reject, Return
<1> QED
  BY <1>1, <1>2
  DEF Next, vars, engineVars, Arrive, Admit, BecomeReady, WakeUp, SliceCompletes,
      SliceBlocks, SlicePreempted, Complete, Block, Preempt, EndRun, SliceEnds, NextSlice,
      Pick, WantsPick, StopPicking, PicksDone, EngineStep, Create, ArrivalsDone,
      WakeupsDone, EndsDone, SwitchIn, SwitchInsDone, InstantDone, Place, PlacesDone,
      Advance, CloseTimeline

(* While the schedule is complete, or a failure has yet to be noticed, it  *)
(* is known since when a process waits.                                    *)
Known ==
    stage \notin {"finish", "done"} /\ (log.fail = "ok" \/ stage \in {"place", "advance"})

LEMMA StagesForward ==
    ASSUME [Next]_vars, stage' \notin {"finish", "done"} PROVE stage \notin {"finish", "done"}
BY DEF Next, vars, engineVars, Arrive, Admit, BecomeReady, WakeUp, SliceCompletes,
   SliceBlocks, SlicePreempted, Complete, Block, Preempt, EndRun, SliceEnds, NextSlice,
   Pick, WantsPick, StopPicking, PicksDone, EngineStep, Create, Reject, ArrivalsDone,
   WakeupsDone, EndsDone, SwitchIn, SwitchInsDone, InstantDone, Place, PlacesDone,
   Advance, CloseTimeline, Return, Terminated

LEMMA KnownBefore == ASSUME Inv, FailSeen, [Next]_vars, Known' PROVE Known
<1>0. log \in Logs /\ stage \notin {"finish", "done"}
  BY StagesForward DEF Inv, TypeOK, Known
<1>1. \A l \in Logs : \A x, y : NoteOverflow(l, x, y) \in Logs /\
        (NoteOverflow(l, x, y).fail = "ok" => l.fail = "ok")
  BY DEF NoteOverflow, Logs
<1>2. \A l, c, g : \A m \in AppendSegment(l, c, g) : m.fail = "ok" => l.fail = "ok"
  BY DEF AppendSegment
<1>3. CASE \E c \in Cores : SliceCompletes(c) \/ SliceBlocks(c) \/ SlicePreempted(c)
  <2>1. PICK c \in Cores : SliceCompletes(c) \/ SliceBlocks(c) \/ SlicePreempted(c)
    BY <1>3
  <2>2. EndRun(c) /\ SliceEnds(c)
    BY <2>1 DEF SliceCompletes, SliceBlocks, SlicePreempted, Complete, Block, Preempt, EndRun
  <2>3. PICK l \in LogRun(c) : log' = l \/ \E x, y : log' = NoteOverflow(l, x, y)
    BY <2>1 DEF SliceCompletes, SliceBlocks, SlicePreempted, Complete, Block, Preempt
  <2>4. l \in Logs /\ (l.fail = "ok" => log.fail = "ok")
    BY <1>2, <2>2, LogRunType DEF LogRun
  <2>5. log'.fail = "ok"
    BY <2>2 DEF EndRun, SliceEnds, Known
  <2> QED BY <1>0, <1>1, <2>3, <2>4, <2>5 DEF Known
<1>4. CASE \E c \in Cores : SwitchIn(c)
  <2>1. PICK x, y, a, b : log' = NoteOverflow(log, x, y) \/ log' = NoteOverflow(NoteOverflow(log, a, b), x, y)
    BY <1>4 DEF SwitchIn, BegunLog
  <2>2. log'.fail = "ok"
    BY <1>4 DEF SwitchIn, Known
  <2> QED BY <1>0, <1>1, <2>1, <2>2 DEF Known
<1>5. CASE CloseTimeline
  BY <1>0, <1>5 DEF CloseTimeline
<1>6. CASE StopPicking
  BY <1>0, <1>6 DEF StopPicking, PicksDone, FailSeen, Known
<1>7. CASE \E c \in Cores, i \in DOMAIN picks : Place(i, c)
  BY <1>0, <1>7 DEF Place, Known
<1>8. CASE PlacesDone \/ Return
  BY <1>0, <1>8 DEF PlacesDone, Return, Known
<1>9. CASE /\ UNCHANGED log
           /\ \/ stage' = stage \/ stage' \notin {"place", "advance"}
  BY <1>0, <1>9 DEF Known
<1> QED
  BY <1>3, <1>4, <1>5, <1>6, <1>7, <1>8, <1>9
  DEF Next, vars, engineVars, Arrive, Admit, BecomeReady, WakeUp, NextSlice, Pick, EngineStep,
      Create, Reject, ArrivalsDone, WakeupsDone, EndsDone, SwitchInsDone, InstantDone,
      Advance, Terminated, resultVars

LEMMA WaitingInvariant ==
    Spec => [](Inv /\ TimelineInv /\ ServiceInv /\ BurstKnown /\ FailSeen /\ PicksSettled)
<1>1. Inv /\ BurstKnown /\ FailSeen /\ PicksSettled /\ [Next]_vars =>
        BurstKnown' /\ FailSeen' /\ PicksSettled'
  BY BurstKnownStep, FailSeenStep, PicksSettledStep
<1> QED
  BY <1>1, InitWaiting, ServiceInvariant, PTL DEF Spec

\* the ready time of a process that has waited since s, when no tick of it is later
LEMMA WaitedSince ==
    ASSUME Inv, NEW p \in Procs, p \notin OnCore, NEW s \in Nat, s <= now,
           \A x \in LoggedCpu(p) : x < s
    PROVE  Cardinality((s .. (now - 1)) \ (RunTicks(p) \cup TicksOf(p, "cs"))) = now - s
<1>0. now \in Nat
  BY EngineAssumption DEF Inv, TypeOK, Times
<1>1. TicksOf(p, "run") \subseteq LoggedCpu(p) /\ TicksOf(p, "cs") \subseteq LoggedCpu(p)
  BY TicksRead DEF LoggedCpu, Ticks, On, CpuKinds
<1>2. UnloggedTicks(p) = {}
  BY DEF UnloggedTicks, Running, OnCore
<1>3. \A x \in RunTicks(p) \cup TicksOf(p, "cs") : x < s
  BY <1>1, <1>2 DEF RunTicks
<1> DEFINE e == now - 1
<1>4. \A x \in s..e : ~(x < s)
  OBVIOUS
<1>5. (s..e) \ (RunTicks(p) \cup TicksOf(p, "cs")) = s..e
  BY <1>3, <1>4
<1>6. e \in Int /\ s \in Int /\ (IF s > e THEN 0 ELSE e - s + 1) = now - s
  BY <1>0
<1> HIDE DEF e
<1>7. Cardinality(s..e) = now - s
  BY <1>6, FS_Interval
<1>8. Cardinality((s..e) \ (RunTicks(p) \cup TicksOf(p, "cs"))) = now - s
  BY <1>5, <1>7
<1> QED BY <1>8 DEF e

\* the engine places what was chosen at the same instant
LEMMA PlacedAtOnce ==
    ASSUME Inv, EngineStep
    PROVE  Picked' \subseteq Picked /\ (Picked' # {} => now' = now)
<1>0. (stage # "done" => (picks # <<>> => stage \in {"picks", "place"})) /\ picks \in Seq(Slices)
  BY DEF Inv, HasWork, TypeOK
<1>1. CASE \E c \in Cores, i \in DOMAIN picks : Place(i, c)
  <2>1. \A j \in DOMAIN picks' : \E k \in DOMAIN picks : picks'[j] = picks[k]
    BY <1>1, PlacePicks
  <2> QED BY <1>1, <2>1 DEF Picked, Place
<1>2. CASE Advance
  <2>1. picks = <<>> /\ picks' = picks
    BY <1>0, <1>2 DEF Advance
  <2> QED BY <2>1 DEF Picked
<1>3. CASE UNCHANGED <<picks, now>>
  BY <1>3 DEF Picked
<1> QED
  BY <1>1, <1>2, <1>3
  DEF EngineStep, Create, Reject, ArrivalsDone, WakeupsDone, EndsDone, SwitchIn, SwitchInsDone,
      InstantDone, PlacesDone, CloseTimeline, Return, Terminated, engineVars
-----------------------------------------------------------------------------
(* Free switches: the ready time of a process, by what is left of its      *)
(* burst.  The ticks of the current burst that the log shows are as many   *)
(* as the burst has lost, and all of them lie before the time up to which  *)
(* p is accounted for: the start of its slice, or now.                     *)

\* when the current CPU burst of p became ready
ReadyFrom(p) == IF phase[p] = 1 THEN w.arrival[p] ELSE wake[p]
InBurst(p) == {x \in LoggedCpu(p) : ReadyFrom(p) <= x}
BurstLogged(p, t) ==
    /\ ReadyFrom(p) <= t /\ \A x \in LoggedCpu(p) : x < t
    /\ Cardinality(InBurst(p)) = BurstLen(p) - remaining[p]
BurstsLogged ==
    /\ \A p \in ready \cup Picked : BurstLogged(p, now)
    /\ \A c \in Busy : BurstLogged(core[c].proc, core[c].runStart)
FreeWaiting == CsCost = 0 => FreeInv /\ (Known => BurstsLogged)

LEMMA LoggedCpuType ==
    ASSUME NEW p
    PROVE  LoggedCpu(p) \subseteq Times /\ IsFiniteSet(LoggedCpu(p)) /\ IsFiniteSet(InBurst(p))
<1>1. LoggedCpu(p) \subseteq Times /\ IsFiniteSet(LoggedCpu(p))
  BY OnCores DEF LoggedCpu
<1> QED BY <1>1, FS_Subset DEF InBurst

LEMMA ReadyFromType ==
    ASSUME Inv, NEW p \in Procs PROVE ReadyFrom(p) \in Nat /\ now \in Nat
<1>1. now \in Nat /\ wake[p] \in Nat
  BY EngineAssumption DEF Inv, TypeOK, Times
<1>2. w.arrival[p] \in Nat
  BY ProcessTypes
<1> QED BY <1>1, <1>2 DEF ReadyFrom

\* only the end of a slice of p adds ticks of p, if nothing has failed
LEMMA TicksStill ==
    ASSUME CsCost = 0, Inv, TimelineInv, Known', [Next]_vars, NEW p \in Procs,
           ~\E c \in Cores : core[c].proc = p /\ (SliceCompletes(c) \/ SliceBlocks(c) \/ SlicePreempted(c))
    PROVE  LoggedCpu(p)' = LoggedCpu(p)
<1>0. log \in Logs /\ core \in [Cores -> CoreStructs] /\ now \in Times /\ p # None
  BY EngineAssumption DEF Inv, TypeOK
<1>1. ASSUME log'.timelines = log.timelines PROVE LoggedCpu(p)' = LoggedCpu(p)
  BY <1>1 DEF LoggedCpu, Ticks, On, Covers
<1>2. ASSUME NEW c \in Cores, NEW g \in Segments, NEW l \in AppendSegment(log, c, g), g.proc # p,
             WellMade(log.timelines[c]), log'.timelines = l.timelines
      PROVE  LoggedCpu(p)' = LoggedCpu(p)
  <2>1. CASE l.fail = "ok"
    <3>1. Untouched(p, log, l)
      BY <1>0, <1>2, <2>1, OthersSegment
    <3> QED BY <1>2, <3>1 DEF LoggedCpu, Ticks, On, Covers, Untouched
  <2>2. CASE l.fail # "ok"
    <3>0. Dropped(log, g, l) \/ Merged(log, c, g, l) \/ Refused(log, g, l) \/ Added(log, c, g, l)
      BY <1>0, <1>2, AppendCases
    <3>1. l.timelines = log.timelines
      BY <1>0, <2>2, <3>0 DEF Dropped, Merged, Refused, Added, Logs
    <3> QED BY <1>1, <1>2, <3>1
  <2> QED BY <2>1, <2>2
<1>3. CASE \E c \in Cores : SliceCompletes(c) \/ SliceBlocks(c) \/ SlicePreempted(c)
  <2>1. PICK c \in Cores : SliceCompletes(c) \/ SliceBlocks(c) \/ SlicePreempted(c)
    BY <1>3
  <2>2. EndRun(c) /\ SliceEnds(c) /\ core[c].proc # p
    BY <2>1 DEF SliceCompletes, SliceBlocks, SlicePreempted, Complete, Block, Preempt, EndRun
  <2> DEFINE g == Segment(core[c].runStart, now, core[c].proc, "run")
  <2>3. PICK l \in LogRun(c) : log' = l \/ \E x, y : log' = NoteOverflow(l, x, y)
    BY <2>1 DEF SliceCompletes, SliceBlocks, SlicePreempted, Complete, Block, Preempt
  <2>4. l \in Logs /\ l \in AppendSegment(log, c, g) /\ WellMade(log.timelines[c])
    BY <2>2, LogRunType DEF LogRun, TimelineInv
  <2>5. log'.timelines = l.timelines
    BY <2>3, <2>4 DEF NoteOverflow, Logs
  <2>6. g \in Segments /\ g.proc # p
    BY <2>2, SliceEndFacts DEF Segment, Segments, CoreStructs, Inv, TypeOK
  <2> HIDE DEF g
  <2> QED BY <1>2, <2>4, <2>5, <2>6
<1>4. CASE \E c \in Cores, i \in DOMAIN picks : Place(i, c)
  <2>1. PICK c \in Cores, i \in DOMAIN picks : Place(i, c)
    BY <1>4
  <2> DEFINE g == Segment(core[c].freeSince, now, None, "idle")
  <2>2. PICK l \in AppendSegment(log, c, g) : \E k : log' = BegunLog(l, k)
    BY <2>1 DEF Place
  <2>3. WellMade(log.timelines[c]) /\ g \in Segments /\ g.proc # p
    BY <1>0 DEF Segment, Segments, CoreStructs, TimelineInv
  <2> HIDE DEF g
  <2>4. l \in Logs
    <3>0. stage = "place"
      BY <2>1 DEF Place
    <3>4. Free(c)
      BY <2>1, PlaceFacts
    <3>1. Spans /\ LogWell(log) /\ closed = 0 /\ Free(c)
      BY <1>0, <3>0, <3>4 DEF TimelineInv, Spans, Inv, TypeOK
    <3>2. log.fail = "ok" => Reaches(log.timelines[c], core[c].freeSince)
      <4>1. ~(c <= closed)
        BY <3>1, EngineAssumption DEF Cores
      <4> QED BY <3>1, <4>1 DEF Spans, Frontier
    <3>3. g.start = core[c].freeSince /\ g.start <= g.end
      <4>1. core[c].freeSince <= now
        BY <1>0, <3>1 DEF Spans
      <4> QED BY <4>1 DEF Segment, g
    <3> QED BY <1>0, <2>2, <2>3, <3>1, <3>2, <3>3, AppendKeeps
  <2>5. log'.timelines = l.timelines
    BY <2>2, <2>4 DEF BegunLog, NoteOverflow, Logs
  <2> QED BY <1>2, <2>2, <2>3, <2>5
<1>5. CASE \E c \in Cores : SwitchIn(c)
  <2>1. PICK x, y, a, b : log' = NoteOverflow(log, x, y) \/ log' = NoteOverflow(NoteOverflow(log, a, b), x, y)
    BY <1>5 DEF SwitchIn, BegunLog
  <2>2. log'.timelines = log.timelines
    BY <1>0, <2>1 DEF NoteOverflow, Logs
  <2> QED BY <1>1, <2>2
<1>6. CASE CloseTimeline \/ Return
  BY <1>6 DEF CloseTimeline, Return, Known
<1>7. CASE UNCHANGED log
  BY <1>1, <1>7
<1> QED
  BY <1>3, <1>4, <1>5, <1>6, <1>7
  DEF Next, vars, Arrive, BecomeReady, Admit, WakeUp, NextSlice, Pick, StopPicking, PicksDone,
      EngineStep, Create, Reject, ArrivalsDone, WakeupsDone, EndsDone, SwitchInsDone, InstantDone,
      PlacesDone, Advance, Terminated, resultVars, engineVars

LEMMA BurstStill ==
    ASSUME CsCost = 0, Inv, TimelineInv, Known', [Next]_vars, NEW p \in Procs,
           ~\E c \in Cores : core[c].proc = p /\ (SliceCompletes(c) \/ SliceBlocks(c) \/ SlicePreempted(c)),
           phase'[p] = phase[p], wake'[p] = wake[p], remaining'[p] = remaining[p],
           NEW t \in Int, NEW u \in Int, t <= u, BurstLogged(p, t)
    PROVE  /\ ReadyFrom(p)' <= u /\ \A x \in LoggedCpu(p)' : x < u
           /\ Cardinality(InBurst(p)') = BurstLen(p)' - remaining'[p]
<1>1. LoggedCpu(p)' = LoggedCpu(p) /\ w' = w
  BY TicksStill, WorkloadKept
<1>2. ReadyFrom(p)' = ReadyFrom(p) /\ BurstLen(p)' = BurstLen(p)
  BY <1>1 DEF ReadyFrom, BurstLen
<1>3. InBurst(p)' = InBurst(p)
  BY <1>1, <1>2 DEF InBurst
<1>4. ReadyFrom(p) \in Int /\ \A x \in LoggedCpu(p) : x \in Int
  BY ReadyFromType, LoggedCpuType, EngineAssumption DEF Times
<1> QED BY <1>1, <1>2, <1>3, <1>4 DEF BurstLogged

\* a core that is busy was so before, or has just been given what was picked
LEMMA BusyStep ==
    ASSUME CsCost = 0, Inv, FreeInv, EngineStep, stage' # "done", NEW c \in Busy'
    PROVE  \/ c \in Busy /\ core'[c] = core[c]
           \/ /\ stage = "place" /\ now' = now
              /\ \E i \in DOMAIN picks : /\ core'[c].proc = picks[i].proc /\ core'[c].runStart = now
                                         /\ core'[c].deadline = picks[i].deadline
<1>0. c \in Cores /\ core \in [Cores -> CoreStructs]
  BY DEF Busy, Inv, TypeOK
<1>1. CASE core' = core
  BY <1>1 DEF Busy, Free
<1>2. CASE EndsDone
  <2>1. \A d \in Cores : (IF d \in Busy /\ core[d].inCs /\ Redecide
                          THEN [core[d] EXCEPT !.recheck = TRUE] ELSE core[d]) = core[d]
    BY <1>2 DEF FreeInv, EndsDone
  <2> QED BY <1>0, <1>1, <1>2, <2>1 DEF EndsDone
<1>3. CASE \E d \in Cores : SwitchIn(d)
  BY <1>3 DEF SwitchIn, IsLowest, SwitchedIn, FreeInv
<1>4. CASE \E d \in Cores, i \in DOMAIN picks : Place(i, d)
  <2>1. PICK d \in Cores, i \in DOMAIN picks : Place(i, d)
    BY <1>4
  <2>2. stage = "place" /\ now' = now
    BY <2>1 DEF Place
  <2>3. CASE c = d
    BY <2>1, <2>2, <2>3, PlaceFree
  <2>4. CASE c # d
    <3>1. core'[c] = core[c]
      BY <1>0, <2>1, <2>4, PlaceFacts
    <3> QED BY <1>0, <3>1 DEF Busy, Free
  <2> QED BY <2>3, <2>4
<1> QED
  BY <1>1, <1>2, <1>3, <1>4
  DEF EngineStep, Create, Reject, ArrivalsDone, WakeupsDone, SwitchInsDone, InstantDone,
      PlacesDone, Advance, CloseTimeline, Return, Terminated, engineVars

\* at the start of a burst
LEMMA JoinedLogged ==
    ASSUME Inv, ServiceInv, BurstKnown, log.fail = "ok", NEW p \in Procs, Admit(p) \/ WakeUp(p)
    PROVE  BurstLogged(p, now)
<1>1. /\ \A x \in LoggedCpu(p) : x < now
      /\ Admit(p) => p \in pending /\ w.arrival[p] = now
      /\ WakeUp(p) => p \in blocked /\ wake[p] = now
  BY JoiningCpu
<1>2. ReadyFrom(p) = now /\ remaining[p] = BurstLen(p)
  BY <1>1 DEF ReadyFrom, BurstKnown
<1>3. now \in Nat /\ remaining[p] \in Nat /\ \A x \in LoggedCpu(p) : x \in Nat
  BY ReadyFromType, ProcessTypes, LoggedCpuType, EngineAssumption DEF Times
<1>4. InBurst(p) = {}
  BY <1>1, <1>2, <1>3 DEF InBurst
<1>5. Cardinality(InBurst(p)) = 0
  BY <1>4, FS_EmptySet
<1> QED BY <1>1, <1>2, <1>3, <1>5 DEF BurstLogged

\* at the end of a slice
LEMMA PreemptedLogged ==
    ASSUME Inv, TimelineInv, NEW c \in Cores, SlicePreempted(c), log'.fail = "ok",
           NEW p, p = core[c].proc, BurstLogged(p, core[c].runStart)
    PROVE  /\ ReadyFrom(p)' <= now /\ \A x \in LoggedCpu(p)' : x < now
           /\ Cardinality(InBurst(p)') = BurstLen(p)' - remaining'[p]
<1>1. EndRun(c) /\ SliceEnds(c) /\ log' \in LogRun(c) /\ UNCHANGED <<w, phase, wake>>
      /\ remaining' = [remaining EXCEPT ![p] = remaining[p] - Ran(c)]
  BY DEF SlicePreempted, Preempt, EndRun
<1>2. p \in Procs /\ Ran(c) \in Nat /\ 1 <= Ran(c) /\ core[c] \in CoreStructs
  BY <1>1, SliceEndFacts
<1> DEFINE a == core[c].runStart
           g == Segment(a, now, p, "run")
<1>3. log \in Logs /\ now \in Nat /\ now \in Times /\ a \in Nat /\ a \in Times /\ a < now
  BY <1>2, EngineAssumption DEF Inv, TypeOK, CoreStructs, Times, Ran
<1>4. /\ g \in Segments /\ g.start = a /\ g.end = now /\ g.proc = p /\ g.kind = "run"
      /\ log' \in AppendSegment(log, c, g) /\ WellMade(log.timelines[c])
  BY <1>1, <1>2, <1>3 DEF Segment, Segments, LogRun, TimelineInv
<1> HIDE DEF g
<1>5. Ticks(log', p, CpuKinds) = Ticks(log, p, CpuKinds) \cup Covers(g)
  BY <1>3, <1>4, TicksAppend DEF CpuKinds
<1>6. LoggedCpu(p)' = LoggedCpu(p) \cup Covers(g)
  BY <1>5 DEF LoggedCpu, Ticks, On, Covers
<1>7. Covers(g) = a..(now - 1)
  BY <1>3, <1>4, EngineAssumption DEF Covers, Times
<1>8. ReadyFrom(p) \in Nat /\ ReadyFrom(p)' = ReadyFrom(p) /\ BurstLen(p)' = BurstLen(p)
      /\ remaining'[p] = remaining[p] - Ran(c) /\ remaining[p] \in Nat
  BY <1>1, <1>2, ReadyFromType, ProcessTypes DEF ReadyFrom, BurstLen, Inv, TypeOK
<1>9. ReadyFrom(p) <= a /\ (\A x \in LoggedCpu(p) : x < a /\ x \in Nat)
      /\ Cardinality(InBurst(p)) = BurstLen(p) - remaining[p]
  BY LoggedCpuType, EngineAssumption DEF BurstLogged, Times
<1>10. InBurst(p)' = InBurst(p) \cup (a..(now - 1)) /\ InBurst(p) \cap (a..(now - 1)) = {}
  BY <1>3, <1>6, <1>7, <1>8, <1>9 DEF InBurst
<1>11. IsFiniteSet(a..(now - 1)) /\ Cardinality(a..(now - 1)) = now - a
  <2> DEFINE e == now - 1
  <2>1. e \in Int /\ (IF a > e THEN 0 ELSE e - a + 1) = now - a
    BY <1>3
  <2> HIDE DEF e, a
  <2>2. a \in Int
    BY <1>3
  <2>3. IsFiniteSet(a..e) /\ Cardinality(a..e) = now - a
    BY <2>1, <2>2, FS_Interval
  <2> QED BY <2>3 DEF e
<1>12. Cardinality(InBurst(p)') = Cardinality(InBurst(p)) + (now - a)
  <2> DEFINE S == a..(now - 1)
  <2>1. IsFiniteSet(InBurst(p)) /\ IsFiniteSet(S) /\ InBurst(p) \cap S = {}
    BY <1>10, <1>11, LoggedCpuType
  <2> HIDE DEF S
  <2>2. Cardinality(InBurst(p) \cup S) = Cardinality(InBurst(p)) + Cardinality(S)
    <3>1. Cardinality(InBurst(p)) \in Nat /\ Cardinality(S) \in Nat
      BY <2>1, FS_CardinalityType
    <3>2. Cardinality(InBurst(p) \cap S) = 0
      BY <2>1, FS_EmptySet
    <3>3. Cardinality(InBurst(p) \cup S)
            = Cardinality(InBurst(p)) + Cardinality(S) - Cardinality(InBurst(p) \cap S)
      BY <2>1, FS_Union
    <3> QED BY <3>1, <3>2, <3>3
  <2> QED BY <1>10, <1>11, <2>2 DEF S
<1>13. BurstLen(p) \in Nat
  <2>1. w \in Workloads /\ phase[p] \in Nat \ {0} /\ phase[p] <= Len(w.phases[p])
    BY <1>2 DEF Inv, TypeOK
  <2> QED BY <1>2, <2>1, PhaseFacts DEF BurstLen
<1> QED BY <1>3, <1>6, <1>7, <1>8, <1>9, <1>12, <1>13 DEF Ran

\* a process that keeps its burst and whose slice does not end
LEMMA WaitingLogged ==
    ASSUME CsCost = 0, Inv, TimelineInv, Known', [Next]_vars, NEW p \in Procs, p \notin OnCore,
           BurstLogged(p, now), NEW u \in Int, now <= u
    PROVE  /\ ReadyFrom(p)' <= u /\ \A x \in LoggedCpu(p)' : x < u
           /\ Cardinality(InBurst(p)') = BurstLen(p)' - remaining'[p]
<1>1. phase'[p] = phase[p] /\ wake'[p] = wake[p] /\ remaining'[p] = remaining[p]
  BY OffCoreKept
<1>2. ASSUME NEW c \in Cores, core[c].proc = p,
             SliceCompletes(c) \/ SliceBlocks(c) \/ SlicePreempted(c)
      PROVE  FALSE
  <2>1. SliceEnds(c)
    BY <1>2 DEF SliceCompletes, SliceBlocks, SlicePreempted, Complete, Block, Preempt, EndRun
  <2>2. c \in Running
    BY <2>1, SliceEndFacts
  <2> QED BY <1>2, <2>2 DEF OnCore, Running
<1>3. now \in Int
  BY ReadyFromType
<1> QED BY <1>1, <1>2, <1>3, BurstStill

LEMMA BurstsReady ==
    ASSUME CsCost = 0, Inv, Inv', TimelineInv, ServiceInv, BurstKnown, BurstsLogged, Known, Known',
           [Next]_vars, NEW p \in ready' \cup Picked'
    PROVE  /\ ReadyFrom(p)' <= now' /\ \A x \in LoggedCpu(p)' : x < now'
           /\ Cardinality(InBurst(p)') = BurstLen(p)' - remaining'[p]
<1>1. now <= now' /\ now \in Nat /\ now' \in Nat
  BY NeverBack
<1>2. CASE p \in ready \cup Picked
  <2>1. p \in Procs /\ p \notin OnCore
    BY <1>2, TakenType DEF Inv, TypeOK, OnePlace, Taken
  <2>2. BurstLogged(p, now)
    BY <1>2 DEF BurstsLogged
  <2> QED BY <1>1, <2>1, <2>2, WaitingLogged
<1>3. CASE \E q \in Procs : Arrive(q) \/ BecomeReady(q)
  <2>1. PICK q \in Procs : Arrive(q) \/ BecomeReady(q)
    BY <1>3
  <2>2. UNCHANGED <<w, now, phase, wake, remaining, log, picks, core>> /\ ready' = ready \cup {q}
        /\ (Admit(q) \/ WakeUp(q)) /\ stage \in {"arrivals", "wakeups"}
    BY <2>1 DEF Arrive, BecomeReady, Admit, WakeUp, procVars, resultVars
  <2>3. CASE p # q
    BY <1>2, <2>2, <2>3 DEF Picked
  <2>4. CASE p = q
    <3>1. log.fail = "ok"
      BY <2>2 DEF Known
    <3>2. BurstLogged(p, now)
      BY <2>2, <2>4, <3>1, JoinedLogged
    <3>3. LoggedCpu(p)' = LoggedCpu(p)
      BY <2>2 DEF LoggedCpu, Ticks, On, Covers
    <3>4. ReadyFrom(p)' = ReadyFrom(p) /\ BurstLen(p)' = BurstLen(p)
      BY <2>2 DEF ReadyFrom, BurstLen
    <3>5. InBurst(p)' = InBurst(p)
      BY <3>3, <3>4 DEF InBurst
    <3> QED BY <2>2, <3>2, <3>3, <3>4, <3>5 DEF BurstLogged
  <2> QED BY <2>3, <2>4
<1>4. CASE \E c \in Cores : SlicePreempted(c)
  <2>1. PICK c \in Cores : SlicePreempted(c)
    BY <1>4
  <2>2. ready' = ready \cup {core[c].proc} /\ picks' = picks /\ now' = now /\ SliceEnds(c)
        /\ stage' = stage
    BY <2>1 DEF SlicePreempted, Preempt, EndRun
  <2>3. CASE p # core[c].proc
    BY <1>2, <2>2, <2>3 DEF Picked
  <2>4. CASE p = core[c].proc
    <3>1. c \in Busy
      BY <2>2, SliceEndFacts DEF Running
    <3>2. BurstLogged(p, core[c].runStart)
      BY <2>4, <3>1 DEF BurstsLogged
    <3>3. log'.fail = "ok"
      BY <2>2 DEF SliceEnds, Known
    <3> QED BY <2>1, <2>2, <2>4, <3>2, <3>3, PreemptedLogged
  <2> QED BY <2>3, <2>4
<1>5. CASE \E c \in Cores : SliceCompletes(c) \/ SliceBlocks(c)
  <2>1. ready' = ready /\ picks' = picks
    BY <1>5 DEF SliceCompletes, SliceBlocks, Complete, Block, EndRun
  <2> QED BY <1>2, <2>1 DEF Picked
<1>6. CASE \E q \in ready : \E s \in SlicesFor(q) : NextSlice(s)
  <2>1. PICK q \in ready : \E s \in SlicesFor(q) : NextSlice(s)
    BY <1>6
  <2>0. PICK s \in SlicesFor(q) : NextSlice(s)
    BY <2>1
  <2>2. s.proc = q
    BY <2>0 DEF SlicesFor, Slice
  <2>3. ready' = ready \ {q} /\ picks' = Append(picks, s) /\ picks \in Seq(Slices)
    BY <2>0, <2>2 DEF NextSlice, Pick, Inv, TypeOK
  <2>4. \A i \in DOMAIN picks' : picks'[i] = s \/ \E j \in DOMAIN picks : picks'[i] = picks[j]
    <3>1. DOMAIN picks = 1..Len(picks) /\ DOMAIN picks' = 1..(Len(picks) + 1) /\ Len(picks) \in Nat
      BY <2>3
    <3>2. \A i \in 1..Len(picks) : picks'[i] = picks[i]
      BY <2>3
    <3>3. picks'[Len(picks) + 1] = s
      BY <2>3
    <3> QED BY <3>1, <3>2, <3>3
  <2>5. Picked' \subseteq Picked \cup {q}
    BY <2>2, <2>4 DEF Picked
  <2> QED BY <1>2, <2>3, <2>5
<1>7. CASE EngineStep /\ UNCHANGED ready
  BY <1>2, <1>7, PlacedAtOnce
<1>8. CASE StopPicking \/ UNCHANGED vars
  BY <1>2, <1>8 DEF StopPicking, PicksDone, vars, engineVars, Picked
<1> QED BY <1>3, <1>4, <1>5, <1>6, <1>7, <1>8 DEF Next

\* a busy core goes on with its slice, or has just been given one
LEMMA StillBusy ==
    ASSUME CsCost = 0, Inv, Inv', FreeInv, stage' # "done", [Next]_vars,
           NEW c \in Busy', NEW p, p = core'[c].proc
    PROVE  /\ p \in Procs /\ remaining'[p] = remaining[p] /\ phase'[p] = phase[p] /\ wake'[p] = wake[p]
           /\ \/ c \in Busy /\ core'[c] = core[c]
              \/ stage = "place" /\ p \in Picked /\ core'[c].runStart = now /\ now' = now
<1>0. c \in Cores /\ p \in OnCore'
  BY DEF Busy, Inv, TypeOK, OnCore
<1>1. CASE c \in Busy /\ core'[c] = core[c]
  <2>1. p \in Procs /\ remaining'[p] = remaining[p] /\ phase'[p] = phase[p]
    BY <1>1, StayingKept
  <2>2. p \notin blocked'
    BY <1>0 DEF Inv, OnePlace
  <2> QED BY <1>1, <2>1, <2>2, BurstKept
<1>2. CASE /\ stage = "place" /\ now' = now
           /\ \E i \in DOMAIN picks : core'[c].proc = picks[i].proc /\ core'[c].runStart = now
  <2>1. p \in Picked /\ core'[c].runStart = now
    BY <1>2 DEF Picked
  <2>2. p \in Procs \ OnCore
    BY <2>1, TakenType DEF Inv, OnePlace, Taken
  <2> QED BY <1>2, <2>1, <2>2, OffCoreKept
<1>3. CASE core' = core
  BY <1>1, <1>3 DEF Busy, Free
<1>4. CASE \E d \in Cores : SliceCompletes(d) \/ SliceBlocks(d) \/ SlicePreempted(d)
  <2>1. PICK d \in Cores : EndRun(d)
    BY <1>4 DEF SliceCompletes, SliceBlocks, SlicePreempted, Complete, Block, Preempt
  <2>2. Busy' = Busy \ {d} /\ \A e \in Cores \ {d} : core'[e] = core[e]
    BY <2>1, EndRunFacts
  <2> QED BY <1>0, <1>1, <2>2
<1>5. CASE EngineStep
  BY <1>1, <1>2, <1>5, BusyStep
<1> QED
  BY <1>3, <1>4, <1>5 DEF Next, vars, engineVars, Arrive, BecomeReady, Admit, WakeUp,
     NextSlice, Pick, StopPicking, PicksDone

LEMMA BurstsBusy ==
    ASSUME CsCost = 0, Inv, Inv', TimelineInv, FreeInv, BurstsLogged, Known, Known',
           [Next]_vars, NEW c \in Busy', NEW p, p = core'[c].proc
    PROVE  /\ ReadyFrom(p)' <= core'[c].runStart /\ \A x \in LoggedCpu(p)' : x < core'[c].runStart
           /\ Cardinality(InBurst(p)') = BurstLen(p)' - remaining'[p]
<1>0. c \in Cores /\ core \in [Cores -> CoreStructs]
  BY DEF Busy, Inv, TypeOK
<1>1. /\ p \in Procs /\ remaining'[p] = remaining[p] /\ phase'[p] = phase[p] /\ wake'[p] = wake[p]
      /\ \/ c \in Busy /\ core'[c] = core[c]
         \/ stage = "place" /\ p \in Picked /\ core'[c].runStart = now /\ now' = now
  <2>1. stage' # "done"
    BY DEF Known
  <2> QED BY <2>1, StillBusy
<1>2. CASE c \in Busy /\ core'[c] = core[c]
  <2>1. ASSUME NEW d \in Cores, core[d].proc = p,
               SliceCompletes(d) \/ SliceBlocks(d) \/ SlicePreempted(d)
        PROVE  FALSE
    <3>1. EndRun(d) /\ SliceEnds(d)
      BY <2>1 DEF SliceCompletes, SliceBlocks, SlicePreempted, Complete, Block, Preempt, EndRun
    <3>2. d \in Busy /\ Busy' = Busy \ {d}
      BY <3>1, SliceEndFacts, EndRunFacts DEF Running
    <3>3. c = d
      BY <1>2, <2>1, <3>2 DEF Inv, OnePlace
    <3> QED BY <3>2, <3>3
  <2> DEFINE a == core[c].runStart
  <2>2. a \in Int /\ BurstLogged(p, a)
    BY <1>0, <1>2, EngineAssumption DEF BurstsLogged, CoreStructs, Times
  <2> HIDE DEF a
  <2>3. a <= a
    BY <2>2
  <2>4. /\ ReadyFrom(p)' <= a /\ \A x \in LoggedCpu(p)' : x < a
        /\ Cardinality(InBurst(p)') = BurstLen(p)' - remaining'[p]
    BY <1>1, <2>1, <2>2, <2>3, BurstStill
  <2> QED BY <1>2, <2>4 DEF a
<1>3. CASE stage = "place" /\ p \in Picked /\ core'[c].runStart = now /\ now' = now
  <2>1. p \in Procs /\ p \notin OnCore /\ now \in Int /\ now <= now
    BY <1>3, TakenType, NeverBack DEF Inv, OnePlace, Taken
  <2>2. BurstLogged(p, now)
    BY <1>3 DEF BurstsLogged
  <2>3. /\ ReadyFrom(p)' <= now /\ \A x \in LoggedCpu(p)' : x < now
        /\ Cardinality(InBurst(p)') = BurstLen(p)' - remaining'[p]
    BY <2>1, <2>2, WaitingLogged
  <2> QED BY <1>3, <2>3
<1> QED BY <1>1, <1>2, <1>3

LEMMA FreeWaitingStep ==
    ASSUME Inv, Inv', TimelineInv, ServiceInv, BurstKnown, FailSeen, FreeWaiting, [Next]_vars
    PROVE  FreeWaiting'
<1> SUFFICES ASSUME CsCost = 0 PROVE FreeInv' /\ (Known' => BurstsLogged')
  BY DEF FreeWaiting
<1>1. FreeInv' /\ FreeInv
  BY FreeStep DEF FreeWaiting
<1>2. ASSUME Known' PROVE BurstsLogged'
  <2>1. Known /\ BurstsLogged
    BY <1>2, KnownBefore DEF FreeWaiting
  <2>2. ASSUME NEW p \in (ready \cup Picked)' PROVE BurstLogged(p, now)'
    <3>1. p \in ready' \cup Picked'
      BY <2>2
    <3> QED BY <1>2, <2>1, <3>1, BurstsReady DEF BurstLogged
  <2>3. ASSUME NEW c \in Busy' PROVE BurstLogged(core[c].proc, core[c].runStart)'
    <3>1. PICK p : p = core'[c].proc
      OBVIOUS
    <3>2. /\ ReadyFrom(p)' <= core'[c].runStart /\ \A x \in LoggedCpu(p)' : x < core'[c].runStart
          /\ Cardinality(InBurst(p)') = BurstLen(p)' - remaining'[p]
      BY <1>1, <1>2, <2>1, <3>1, BurstsBusy
    <3>3. LoggedCpu(core[c].proc)' = LoggedCpu(p)'
      BY <3>1 DEF LoggedCpu, Ticks, On, Covers
    <3>4. ReadyFrom(core[c].proc)' = ReadyFrom(p)' /\ BurstLen(core[c].proc)' = BurstLen(p)'
      BY <3>1 DEF ReadyFrom, BurstLen
    <3>5. InBurst(core[c].proc)' = InBurst(p)'
      BY <3>3, <3>4 DEF InBurst
    <3> QED BY <3>1, <3>2, <3>3, <3>4, <3>5 DEF BurstLogged
  <2> QED BY <2>2, <2>3 DEF BurstsLogged
<1> QED BY <1>1, <1>2

LEMMA InitFreeWaiting == Init => FreeWaiting
<1> SUFFICES ASSUME Init PROVE FreeWaiting
  OBVIOUS
<1>1. FreeInv
  BY FreeInit
<1>2. ready = {} /\ picks = <<>> /\ Busy = {}
  BY DEF Init, EngineInit, FreshCore, Busy, Free
<1> QED BY <1>1, <1>2 DEF FreeWaiting, BurstsLogged, Picked

LEMMA FreeWaitingInvariant ==
    Spec => [](Inv /\ ServiceInv /\ BurstKnown /\ FailSeen /\ FreeWaiting)
<1>1. Inv /\ Inv' /\ TimelineInv /\ ServiceInv /\ BurstKnown /\ FailSeen /\ FreeWaiting
        /\ [Next]_vars => FreeWaiting'
  BY FreeWaitingStep
<1> QED
  BY <1>1, InitFreeWaiting, WaitingInvariant, PTL DEF Spec

\* the ready time in the current burst up to t, when p is accounted for up to t
LEMMA TicksLeft ==
    ASSUME Inv, NEW p \in Procs, NEW t \in Nat, BurstLogged(p, t)
    PROVE  Cardinality((ReadyFrom(p) .. (t - 1)) \ LoggedCpu(p))
             = t - ReadyFrom(p) - (BurstLen(p) - remaining[p])
<1> DEFINE e == t - 1
           S == ReadyFrom(p) .. e
<1>1. ReadyFrom(p) \in Nat /\ ReadyFrom(p) <= t /\ e \in Int /\ \A x \in LoggedCpu(p) : x \in Nat /\ x < t
  BY ReadyFromType, LoggedCpuType, EngineAssumption DEF BurstLogged, Times
<1>2. S \cap LoggedCpu(p) = InBurst(p)
  BY <1>1 DEF InBurst
<1>3. (IF ReadyFrom(p) > e THEN 0 ELSE e - ReadyFrom(p) + 1) = t - ReadyFrom(p)
  BY <1>1
<1> HIDE DEF e
<1>4. IsFiniteSet(S) /\ Cardinality(S) = t - ReadyFrom(p)
  <2>1. PICK f \in Int : f = ReadyFrom(p)
    BY <1>1
  <2>2. e \in Int
    BY <1>1
  <2>3. IsFiniteSet(f..e) /\ Cardinality(f..e) = IF f > e THEN 0 ELSE e - f + 1
    BY <2>2, FS_Interval
  <2> QED BY <1>3, <2>1, <2>3
<1> HIDE DEF S
<1>5. Cardinality(S \ LoggedCpu(p)) = Cardinality(S) - Cardinality(InBurst(p))
  BY <1>2, <1>4, FS_Difference
<1>6. Cardinality(S \ LoggedCpu(p)) = t - ReadyFrom(p) - (BurstLen(p) - remaining[p])
  BY <1>4, <1>5 DEF BurstLogged
<1> QED BY <1>6 DEF S, e

\* of a process that waits
LEMMA WaitedRead ==
    ASSUME Inv, NEW p \in Procs, p \notin OnCore, BurstLogged(p, now)
    PROVE  Cardinality((ReadyFrom(p) .. (now - 1)) \ (RunTicks(p) \cup TicksOf(p, "cs")))
             = now - ReadyFrom(p) - (BurstLen(p) - remaining[p])
<1>1. TicksOf(p, "run") \cup TicksOf(p, "cs") = LoggedCpu(p)
  BY TicksRead DEF LoggedCpu, Ticks, On, CpuKinds
<1>2. UnloggedTicks(p) = {}
  BY DEF UnloggedTicks, Running, OnCore
<1>3. RunTicks(p) \cup TicksOf(p, "cs") = LoggedCpu(p)
  BY <1>1, <1>2 DEF RunTicks
<1> QED BY <1>3, TicksLeft, ReadyFromType

\* of a process that runs
LEMMA RunningRead ==
    ASSUME Inv, stage # "done", NEW c \in Running, NEW p, p = core[c].proc,
           BurstLogged(p, core[c].runStart),
           NEW t, t = core[c].runStart
    PROVE  /\ p \in Procs /\ t \in Nat
           /\ Cardinality((ReadyFrom(p) .. (now - 1)) \ (RunTicks(p) \cup TicksOf(p, "cs")))
                = t - ReadyFrom(p) - (BurstLen(p) - remaining[p])
<1>1. TicksOf(p, "run") \cup TicksOf(p, "cs") = LoggedCpu(p)
  BY TicksRead DEF LoggedCpu, Ticks, On, CpuKinds
<1>2. p \in Procs /\ t \in Nat /\ t <= now
  <2>1. c \in Cores /\ core[c].proc # None /\ core[c] \in CoreStructs
    BY DEF Running, Busy, Free, Inv, TypeOK
  <2>2. t <= now
    BY DEF Inv, SlicesFit
  <2> QED BY <2>1, <2>2, EngineAssumption DEF CoreStructs, Times
<1>3. UnloggedTicks(p) = t .. (now - 1)
  <2>1. {d \in Running : core[d].proc = p} = {c}
    BY DEF Running, Inv, OnePlace
  <2> QED BY <2>1 DEF UnloggedTicks
<1>4. RunTicks(p) \cup TicksOf(p, "cs") = LoggedCpu(p) \cup (t .. (now - 1))
  BY <1>1, <1>3 DEF RunTicks
<1>5. ReadyFrom(p) \in Nat /\ now \in Nat
  BY <1>2, ReadyFromType
<1>6. (ReadyFrom(p) .. (now - 1)) \ (LoggedCpu(p) \cup (t .. (now - 1)))
        = (ReadyFrom(p) .. (t - 1)) \ LoggedCpu(p)
  BY <1>2, <1>5
<1> QED BY <1>2, <1>4, <1>6, TicksLeft
=============================================================================
