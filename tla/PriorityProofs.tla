--------------------------- MODULE PriorityProofs ---------------------------
(***************************************************************************)
(* Proof that with free switches prio-p runs the processes of lowest       *)
(* effective priority at every tick, for every number of cores, every      *)
(* workload and every aging period, while no key saturates.                *)
(***************************************************************************)
EXTENDS RedecidedProofs

-----------------------------------------------------------------------------
(* Levels, and the keys that stand for them                                *)

\* no key is so large that it saturates
Room == \A p \in Procs : -PriorityLimit <= w.priority[p] /\ w.priority[p] + now <= PriorityLimit

\* the levels gained in n ticks of ready time
Levels(n) == IF Aging > 0 THEN n \div Aging ELSE 0
\* at t, a process p that waits has been ready for t - Spent(p) ticks of its burst
Spent(p) == Proofs!ReadyFrom(p) + Proofs!BurstLen(p) - remaining[p]
LevelAt(p, t) == w.priority[p] - Levels(t - Spent(p))
\* p, whose waiting ended at t, is better than q, which still waits at u
AheadAt(p, t, q, u) ==
    \/ LevelAt(p, t) < LevelAt(q, u)
    \/ LevelAt(p, t) = LevelAt(q, u) /\ w.arrival[p] < w.arrival[q]
    \/ LevelAt(p, t) = LevelAt(q, u) /\ w.arrival[p] = w.arrival[q] /\ p < q

\* waited[] holds the ready time of p up to t
WaitsAt(p, t) == Spent(p) \in Nat /\ Spent(p) <= t /\ waited[p] = t - Spent(p)
\* the keys computed when p joined the ready set, of whatever waits it has had
KeyOf(p) ==
    /\ WaitsAt(p, readySince[p]) /\ readySince[p] <= now
    /\ r[p] = IF Aging > 0 THEN (0 - Spent(p)) % Aging ELSE 0
    /\ base[p] = w.priority[p] - Levels(0 - Spent(p))
AgeInv ==
    /\ \A p \in ready : KeyOf(p)
    /\ \A p \in Proofs!Picked : WaitsAt(p, now)
    /\ \A c \in Proofs!Busy : WaitsAt(core[c].proc, core[c].runStart)

(* Whoever was chosen is better than all that wait, and stays so until its *)
(* deadline, when one of them gains a level.                               *)
PrioRank ==
    /\ \A i \in DOMAIN picks, p \in Procs, q \in ready, s, t \in Nat :
         picks[i].proc = p /\ now = s /\ s <= t /\ t < picks[i].deadline => AheadAt(p, s, q, t)
    /\ \A c \in Proofs!Cores, p \in Procs, q \in ready, s, t \in Nat :
         /\ <<c, q>> \in Proofs!Facing /\ core[c].proc = p /\ core[c].runStart = s
         /\ now <= t /\ t < core[c].deadline
         => AheadAt(p, s, q, t)

LEMMA LevelType ==
    ASSUME NEW n \in Int
    PROVE  Levels(n) \in Int /\ (n <= 0 => n <= Levels(n) /\ Levels(n) <= 0)
<1>1. CASE Aging > 0
  <2>1. PICK k \in Nat \ {0} : k = Aging
    BY <1>1, RedecidedAssumption
  <2>2. PICK d \in Int, m \in 0..(k - 1) : d = n \div k /\ n = d * k + m
    BY QuotientIs
  <2>3. n <= 0 => d <= 0
    <3>1. d > 0 => d * k > 0
      OBVIOUS
    <3> QED BY <2>2, <3>1
  <2>4. n <= 0 => n <= d
    <3>1. PICK e \in Int : e = 0 - d /\ d = 0 - e
      OBVIOUS
    <3>2. CASE e >= 1
      <4>1. e * (k - 1) >= k - 1 /\ d * k = 0 - e * (k - 1) - e /\ m <= k - 1
        <5>1. e * (k - 1) >= k - 1
          BY <3>2
        <5>2. d * k = 0 - e * k /\ e * k = e * (k - 1) + e
          BY <3>1
        <5> QED BY <5>1, <5>2
      <4>2. PICK f \in Int : f = e * (k - 1)
        BY <3>1
      <4> QED BY <2>2, <3>1, <4>1, <4>2
    <3>3. CASE e = 0
      BY <2>2, <3>1, <3>3
    <3> QED BY <2>3, <3>1, <3>2, <3>3
  <2> QED BY <1>1, <2>1, <2>2, <2>3, <2>4 DEF Levels
<1>2. CASE ~(Aging > 0)
  BY <1>2 DEF Levels
<1> QED BY <1>1, <1>2

\* the keys are exact, and so is what key_less computes from them
LEMMA KeyExact ==
    ASSUME Proofs!Inv, PrioPInv, policy = "prio-p", Room, NEW p \in Procs, NEW s \in Nat, s <= now
    PROVE  LET b == w.priority[p] - Levels(0 - s) IN
           /\ b \in Int /\ PrioP!SatSub(w.priority[p], Levels(0 - s)) = b
           /\ PrioP!SatSub(b, 0) = b /\ PrioP!SatSub(b, 1) = b - 1
<1>1. PICK d \in Int : d = Levels(0 - s) /\ 0 - s <= d /\ d <= 0
  BY LevelType
<1>2. now \in Nat /\ w.priority[p] \in Int /\ PriorityLimit \in Nat
  <2>1. now \in Nat
    BY EngineAssumption DEF Proofs!Inv, Proofs!TypeOK, Proofs!Times
  <2>2. w.priority \in [Procs -> Int]
    BY DEF PrioPInv
  <2> QED BY <2>1, <2>2, RedecidedAssumption
<1>3. -PriorityLimit <= w.priority[p] /\ w.priority[p] + now <= PriorityLimit
  BY DEF Room
<1>4. PICK b \in Int : b = w.priority[p] - d
  BY <1>2
<1>5. -PriorityLimit <= b /\ b <= PriorityLimit
  BY <1>1, <1>2, <1>3, <1>4
<1>6. PrioP!SatSub(w.priority[p], d) = b
  BY <1>2, <1>4, <1>5 DEF PrioP!SatSub
<1>7. PrioP!SatSub(b, 0) = b /\ PrioP!SatSub(b, 1) = b - 1
  BY <1>2, <1>5 DEF PrioP!SatSub
<1> QED BY <1>1, <1>4, <1>6, <1>7

\* the effective priority is the base, one level lower when the remainder is high
LEMMA KeyLevel ==
    ASSUME Proofs!Inv, PrioPInv, policy = "prio-p", NEW p \in Procs, KeyOf(p)
    PROVE  /\ LevelAt(p, now) \in Int
           /\ Aging = 0 => LevelAt(p, now) = base[p]
           /\ Aging > 0 => LevelAt(p, now) = base[p] - (now \div Aging)
                                             - (IF r[p] >= PrioP!Limit THEN 1 ELSE 0)
<1>1. now \in Nat /\ w.priority[p] \in Int /\ Spent(p) \in Nat
  BY EngineAssumption DEF KeyOf, WaitsAt, PrioPInv, Proofs!Inv, Proofs!TypeOK, Proofs!Times
<1>2. PICK b \in Int : b = 0 - Spent(p) /\ now - Spent(p) = now + b
  BY <1>1
<1>3. LevelAt(p, now) = w.priority[p] - Levels(now + b) /\ base[p] = w.priority[p] - Levels(b)
  BY <1>2 DEF LevelAt, KeyOf
<1>4. CASE Aging > 0
  <2>1. PICK k \in Nat \ {0} : k = Aging
    BY <1>4, RedecidedAssumption
  <2>2. (now + b) \div k = (now \div k) + (b \div k) + (IF b % k >= k - (now % k) THEN 1 ELSE 0)
    BY <1>1, QuotientOfSum
  <2>3. r[p] = b % k /\ PrioP!Limit = k - (now % k)
    BY <1>2, <1>4, <2>1 DEF KeyOf, PrioP!Limit
  <2>4. now \div k \in Int /\ b \div k \in Int
    BY <1>1
  <2>5. Levels(now + b) = (now + b) \div k /\ Levels(b) = b \div k
    BY <1>4, <2>1 DEF Levels
  <2> QED BY <1>1, <1>3, <1>4, <2>1, <2>2, <2>3, <2>4, <2>5
<1>5. CASE Aging = 0
  BY <1>1, <1>3, <1>5 DEF Levels
<1> QED BY <1>4, <1>5, RedecidedAssumption

\* the process chosen is the first by the definition
LEMMA ChosenAhead ==
    ASSUME Proofs!Inv, PrioPInv, policy = "prio-p", Room, ready # {}, ready \subseteq Procs,
           \A p \in ready : KeyOf(p)
    PROVE  \A q \in ready \ {PrioP!Chosen} : AheadAt(PrioP!Chosen, now, q, now)
<1>1. \A p \in ready : /\ base[p] \in Int /\ LevelAt(p, now) \in Int /\ w.arrival[p] \in Int /\ p \in Int
                       /\ r[p] \in Int /\ PrioP!SatSub(base[p], 0) = base[p]
                       /\ PrioP!SatSub(base[p], 1) = base[p] - 1
  <2> TAKE p \in ready
  <2>1. KeyOf(p) /\ p \in Procs
    OBVIOUS
  <2>2. PICK s \in Nat : s = Spent(p) /\ s <= now /\ base[p] = w.priority[p] - Levels(0 - s)
    <3>1. Spent(p) \in Nat /\ Spent(p) <= readySince[p] /\ readySince[p] <= now
      BY <2>1 DEF KeyOf, WaitsAt
    <3>2. readySince[p] \in Int /\ now \in Int
      BY <2>1 DEF PrioPInv, Proofs!Inv, Proofs!TypeOK, Proofs!Times
    <3>3. Spent(p) <= now
      BY <3>1, <3>2
    <3> QED BY <2>1, <3>1, <3>3 DEF KeyOf
  <2>3. LevelAt(p, now) \in Int
    BY <2>1, KeyLevel
  <2>4. w.arrival[p] \in Int /\ p \in Int /\ r[p] \in Int
    BY <2>1, ArrivalType, EngineAssumption DEF PrioPInv
  <2> QED BY <2>1, <2>2, <2>3, <2>4, KeyExact
<1>2. \A S \in SUBSET ready : S # {} =>
        PrioP!BestOf(S) \in S /\ \A y \in S \ {PrioP!BestOf(S)} : PrioP!KeyLess(PrioP!BestOf(S), 0, y, 0)
  <2>1. base \in [Procs -> Int]
    BY DEF PrioPInv
  <2> QED BY <2>1, BestOfType
\* key_less is the order where the levels differ from the bases by the same amount
<1>3. ASSUME NEW x \in ready, NEW y \in ready, NEW i \in {0, 1}, NEW a \in Int,
             LevelAt(x, now) = base[x] - i - a, LevelAt(y, now) = base[y] - a
      PROVE  PrioP!KeyLess(x, i, y, 0) <=> AheadAt(x, now, y, now)
  <2>1. PrioP!SatSub(base[x], i) = base[x] - i /\ PrioP!SatSub(base[y], 0) = base[y]
    BY <1>1
  <2>2. PrioP!KeyLess(x, i, y, 0) <=>
          \/ base[x] - i < base[y]
          \/ base[x] - i = base[y] /\ w.arrival[x] < w.arrival[y]
          \/ base[x] - i = base[y] /\ w.arrival[x] = w.arrival[y] /\ x < y
    BY <2>1 DEF PrioP!KeyLess
  <2>3. /\ (base[x] - i < base[y]) <=> (LevelAt(x, now) < LevelAt(y, now))
        /\ (base[x] - i = base[y]) <=> (LevelAt(x, now) = LevelAt(y, now))
    BY <1>1, <1>3
  <2> QED BY <2>2, <2>3 DEF AheadAt
<1>4. ASSUME NEW S \in SUBSET ready, S # {}, NEW a \in Int, \A x \in S : LevelAt(x, now) = base[x] - a
      PROVE  PrioP!BestOf(S) \in S /\ \A y \in S \ {PrioP!BestOf(S)} : AheadAt(PrioP!BestOf(S), now, y, now)
  <2>1. PICK b \in S : b = PrioP!BestOf(S) /\ \A y \in S \ {b} : PrioP!KeyLess(b, 0, y, 0)
    BY <1>2, <1>4
  <2>2. ASSUME NEW y \in S \ {b} PROVE AheadAt(b, now, y, now)
    <3>1. LevelAt(b, now) = base[b] - 0 - a /\ LevelAt(y, now) = base[y] - a
      BY <1>1, <1>4
    <3> QED BY <1>3, <2>1, <3>1
  <2> QED BY <2>1, <2>2
<1>5. CASE Aging = 0
  <2>1. \A x \in ready : LevelAt(x, now) = base[x] - 0
    BY <1>1, <1>5, KeyLevel
  <2> QED BY <1>4, <1>5, <2>1 DEF PrioP!Chosen
<1>6. CASE Aging > 0
  <2>1. PICK a \in Int : a = now \div Aging
    BY <1>6, RedecidedAssumption, EngineAssumption DEF Proofs!Inv, Proofs!TypeOK, Proofs!Times
  <2> DEFINE low == PrioP!Low(ready)
             high == PrioP!High(ready)
  <2>2. /\ \A x \in low : LevelAt(x, now) = base[x] - a
        /\ \A x \in high : LevelAt(x, now) = base[x] - 1 - a
        /\ low \subseteq ready /\ high \subseteq ready /\ ready = low \cup high
    <3>1. PrioP!Limit \in Int
      BY <1>6, RedecidedAssumption, EngineAssumption
      DEF PrioP!Limit, Proofs!Inv, Proofs!TypeOK, Proofs!Times
    <3>2. /\ \A x \in low : x \in ready /\ r[x] < PrioP!Limit
          /\ \A x \in high : x \in ready /\ r[x] >= PrioP!Limit
          /\ \A x \in ready : x \in low \/ x \in high
      BY <1>1, <3>1 DEF PrioP!Low, PrioP!High
    <3> HIDE DEF low, high
    <3>3. \A x \in ready : LevelAt(x, now) = base[x] - a - (IF r[x] >= PrioP!Limit THEN 1 ELSE 0)
      BY <1>6, <2>1, KeyLevel
    <3> QED BY <1>1, <3>1, <3>2, <3>3
  <2> HIDE DEF low, high
  <2>3. low # {} => PrioP!BestOf(low) \in low /\ \A y \in low \ {PrioP!BestOf(low)} : AheadAt(PrioP!BestOf(low), now, y, now)
    BY <1>4, <2>2
  <2>4. high # {} => PrioP!BestOf(high) \in high /\ \A y \in high \ {PrioP!BestOf(high)} : AheadAt(PrioP!BestOf(high), now, y, now)
    <3>1. \A x \in high : LevelAt(x, now) = base[x] - (a + 1) /\ a + 1 \in Int
      BY <1>1, <2>2
    <3> QED BY <1>4, <2>2, <3>1
  <2>5. CASE low = {}
    BY <1>6, <2>2, <2>4, <2>5 DEF PrioP!Chosen, low, high
  <2>6. CASE low # {} /\ high = {}
    BY <1>6, <2>2, <2>3, <2>6 DEF PrioP!Chosen, low, high
  <2>7. CASE low # {} /\ high # {}
    <3>1. PICK l \in low, h \in high : l = PrioP!BestOf(low) /\ h = PrioP!BestOf(high)
      BY <2>3, <2>4, <2>7
    <3>2. PrioP!Chosen = IF PrioP!KeyLess(h, 1, l, 0) THEN h ELSE l
      BY <1>6, <2>7, <3>1 DEF PrioP!Chosen, low, high
    <3>3. PrioP!KeyLess(h, 1, l, 0) <=> AheadAt(h, now, l, now)
      BY <1>3, <2>2
    <3>4. l # h
      <4>1. LevelAt(l, now) = base[l] - a /\ LevelAt(h, now) = base[h] - 1 - a /\ base[l] \in Int /\ base[h] \in Int
        BY <1>1, <2>2
      <4> QED BY <4>1
    <3>5. AheadAt(h, now, l, now) \/ AheadAt(l, now, h, now)
      BY <1>1, <2>2, <3>4 DEF AheadAt
    <3>6. \A x, y, z \in ready : AheadAt(x, now, y, now) /\ AheadAt(y, now, z, now) => AheadAt(x, now, z, now)
      BY <1>1 DEF AheadAt
    <3>7. CASE AheadAt(h, now, l, now)
      BY <2>2, <2>3, <2>4, <2>7, <3>1, <3>2, <3>3, <3>6, <3>7
    <3>8. CASE ~AheadAt(h, now, l, now)
      BY <2>2, <2>3, <2>4, <2>7, <3>1, <3>2, <3>3, <3>5, <3>6, <3>8
    <3> QED BY <3>7, <3>8
  <2> QED BY <2>5, <2>6, <2>7
<1> QED BY <1>5, <1>6, RedecidedAssumption

\* a quotient stands still until the remainder runs over
LEMMA QuotientStays ==
    ASSUME NEW k \in Nat \ {0}, NEW a \in Int, NEW b \in Int, NEW n \in Nat,
           n < (IF b % k < k - (a % k) THEN k - (a % k) - (b % k) ELSE k - ((b % k) - (k - (a % k))))
    PROVE  (a + n + b) \div k = (a + b) \div k
<1>1. PICK x \in Int, u \in 0..(k - 1) : u = a % k /\ a = x * k + u
  BY QuotientIs
<1>2. PICK y \in Int, v \in 0..(k - 1) : v = b % k /\ b = y * k + v
  BY QuotientIs
<1>3. PICK s \in Int : s = a + b /\ a + n + b = s + n
  OBVIOUS
<1>4. PICK z \in Int, t \in 0..(k - 1) : z = s \div k /\ s = z * k + t
  BY QuotientIs
<1>5. PICK carry \in {0, 1} : carry = IF v >= k - u THEN 1 ELSE 0
  OBVIOUS
<1>6. u + v - carry * k \in 0..(k - 1) /\ u + v - carry * k + n \in 0..(k - 1)
  BY <1>1, <1>2, <1>5
<1>7. (x + y + carry) * k = x * k + y * k + carry * k
  BY <1>5
<1>8. x * k \in Int /\ y * k \in Int /\ carry * k \in Int /\ z * k \in Int
  BY <1>5
<1>9. z * k + t = (x + y + carry) * k + (u + v - carry * k)
  <2>1. s = x * k + u + y * k + v
    BY <1>1, <1>2, <1>3, <1>8
  <2>2. s = z * k + t
    BY <1>4
  <2> QED BY <1>5, <1>7, <1>8, <2>1, <2>2
<1>10. z = x + y + carry
  BY <1>5, <1>6, <1>9, OneQuotient
<1>11. s + n \in Int
  OBVIOUS
<1>12. PICK f \in Int, m \in 0..(k - 1) : f = (s + n) \div k /\ s + n = f * k + m
  BY <1>11, QuotientIs
<1>13. f * k + m = (x + y + carry) * k + (u + v - carry * k + n)
  <2>1. s + n = x * k + u + y * k + v + n
    BY <1>1, <1>2, <1>3, <1>8
  <2>2. s + n = f * k + m
    BY <1>12
  <2> QED BY <1>5, <1>7, <1>8, <2>1, <2>2
<1>14. f = x + y + carry
  BY <1>5, <1>6, <1>13, OneQuotient
<1> QED BY <1>3, <1>4, <1>10, <1>12, <1>14

\* nobody gains a level before the deadline computed for those that wait
LEMMA NoGain ==
    ASSUME Proofs!Inv, PrioPInv, policy = "prio-p", Aging > 0, NEW S \in SUBSET Procs,
           NEW q \in S, KeyOf(q), NEW t \in Nat, now <= t, t < PrioP!NextAging(S)
    PROVE  LevelAt(q, t) = LevelAt(q, now)
<1>1. now \in Nat /\ MaxTime \in Nat /\ Spent(q) \in Nat
  BY EngineAssumption DEF KeyOf, WaitsAt, Proofs!Inv, Proofs!TypeOK, Proofs!Times
<1>2. PICK k \in Nat \ {0} : k = Aging
  BY RedecidedAssumption
<1>3. PICK b \in Int : b = 0 - Spent(q)
  BY <1>1
<1>4. PICK n \in Nat : t = now + n
  <2>1. t - now \in Nat /\ t = now + (t - now)
    BY <1>1
  <2> QED BY <2>1
<1>5. PICK l \in 1..k : l = PrioP!Limit /\ l = k - (now % k)
  BY <1>1, <1>2 DEF PrioP!Limit
<1>6. \A p \in Procs : r[p] \in 0..(k - 1)
  BY <1>2 DEF PrioPInv
<1>7. r[q] = b % k
  BY <1>2, <1>3 DEF KeyOf
<1> DEFINE step == IF PrioP!Low(S) # {}
                   THEN PrioP!Limit - PrioP!Max({r[p] : p \in PrioP!Low(S)})
                   ELSE Aging - (PrioP!Max({r[p] : p \in S}) - PrioP!Limit)
<1>8. /\ step \in Int
      /\ step <= (IF r[q] < l THEN l - r[q] ELSE k - (r[q] - l))
  <2>1. CASE PrioP!Low(S) # {}
    <3>1. PICK p \in PrioP!Low(S) : /\ PrioP!Max({r[x] : x \in PrioP!Low(S)}) = r[p]
                                    /\ \A x \in PrioP!Low(S) : r[x] <= r[p]
      <4>1. PrioP!Low(S) \in SUBSET Procs
        BY DEF PrioP!Low
      <4> QED BY <2>1, <4>1, MaxRemainder
    <3>2. p \in Procs /\ r[p] < l /\ (r[q] < l => r[q] <= r[p])
      BY <1>5, <3>1 DEF PrioP!Low
    <3>3. step = l - r[p]
      BY <1>5, <2>1, <3>1
    <3> HIDE DEF step
    <3>4. r[p] \in 0..(k - 1) /\ r[q] \in 0..(k - 1)
      BY <1>6, <3>2
    <3> QED BY <1>5, <3>2, <3>3, <3>4
  <2>2. CASE PrioP!Low(S) = {}
    <3>1. PICK p \in S : /\ PrioP!Max({r[x] : x \in S}) = r[p]
                         /\ \A x \in S : r[x] <= r[p]
      BY MaxRemainder
    <3>2. ~(r[q] < l) /\ r[q] <= r[p] /\ p \in Procs
      BY <1>5, <2>2, <3>1 DEF PrioP!Low
    <3>3. step = k - (r[p] - l)
      BY <1>2, <1>5, <2>2, <3>1
    <3> HIDE DEF step
    <3>4. r[p] \in 0..(k - 1) /\ r[q] \in 0..(k - 1)
      BY <1>6, <3>2
    <3> QED BY <1>5, <3>2, <3>3, <3>4
  <2> QED BY <2>1, <2>2
<1>9. PrioP!NextAging(S) = IF now + step > MaxTime THEN MaxTime ELSE now + step
  BY DEF PrioP!NextAging, PrioP!NoDeadline
<1> HIDE DEF step
<1>10. n < step
  BY <1>1, <1>4, <1>8, <1>9
<1>11. n < (IF b % k < k - (now % k) THEN k - (now % k) - (b % k)
            ELSE k - ((b % k) - (k - (now % k))))
  <2>1. r[q] \in Int /\ now % k \in Int
    BY <1>1, <1>6
  <2>2. n < (IF r[q] < l THEN l - r[q] ELSE k - (r[q] - l))
    BY <1>8, <1>10, <2>1
  <2> QED BY <1>5, <1>7, <2>2
<1>12. (now + n + b) \div k = (now + b) \div k
  <2>1. PICK a \in Int : a = now
    BY <1>1
  <2>2. n < (IF b % k < k - (a % k) THEN k - (a % k) - (b % k) ELSE k - ((b % k) - (k - (a % k))))
    BY <1>11, <2>1
  <2>3. (a + n + b) \div k = (a + b) \div k
    BY <2>2, QuotientStays
  <2> QED BY <2>1, <2>3
<1>13. t - Spent(q) = now + n + b /\ now - Spent(q) = now + b
  BY <1>1, <1>3, <1>4
<1> QED BY <1>2, <1>12, <1>13 DEF LevelAt, Levels

LEMMA SpentKept ==
    ASSUME NEW p, remaining'[p] = remaining[p], phase'[p] = phase[p], wake'[p] = wake[p], w' = w
    PROVE  Spent(p)' = Spent(p)
BY DEF Spent, Proofs!ReadyFrom, Proofs!BurstLen

\* while p waits its burst does not change
LEMMA SpentStill ==
    ASSUME Proofs!Inv, Proofs!Next, policy = "prio-p", NEW p \in ready \cup Proofs!Picked
    PROVE  p \in Procs /\ p \notin Proofs!OnCore /\ Spent(p)' = Spent(p)
<1>1. p \in Procs \ Proofs!OnCore
  <2>1. Ready = ready
    BY DEF Ready
  <2> QED BY <2>1, ProofsAssumptions, Proofs!TakenType
      DEF Proofs!Taken, Proofs!Inv, Proofs!TypeOK, Proofs!OnePlace
<1>2. remaining'[p] = remaining[p] /\ phase'[p] = phase[p] /\ wake'[p] = wake[p]
  BY <1>1, ProofsAssumptions, Proofs!OffCoreKept
<1>3. w' = w
  BY ProofsAssumptions, Proofs!WorkloadKept
<1> QED BY <1>1, <1>2, <1>3, SpentKept

LEMMA SpentType ==
    ASSUME Proofs!Inv, NEW p \in Procs
    PROVE  Proofs!ReadyFrom(p) \in Nat /\ Proofs!BurstLen(p) \in Nat /\ remaining[p] \in Nat
           /\ Spent(p) \in Int
<1>1. Proofs!ReadyFrom(p) \in Nat
  BY ProofsAssumptions, Proofs!ReadyFromType
<1>2. Proofs!BurstLen(p) \in Nat /\ remaining[p] \in Nat
  <2>1. Proofs!BurstLen(p) \in Nat
    BY BurstType, EngineAssumption
  <2>2. remaining[p] \in Nat
    BY EngineAssumption DEF Proofs!Inv, Proofs!TypeOK, Proofs!Times
  <2> QED BY <2>1, <2>2
<1> QED BY <1>1, <1>2 DEF Spent

\* enqueue() computes the keys of a process that has been ready for wt ticks
LEMMA KeyMade ==
    ASSUME Proofs!Inv, PrioPInv, policy = "prio-p", Room, NEW p \in Procs, NEW s \in Nat, s <= now,
           NEW wt \in Int, wt = now - s, PrioP!Enqueue(p, wt),
           now' = now, w' = w, Spent(p)' = s
    PROVE  KeyOf(p)'
<1>1. now \in Nat /\ w.priority[p] \in Int
  <2>1. now \in Nat
    BY EngineAssumption DEF Proofs!Inv, Proofs!TypeOK, Proofs!Times
  <2>2. w.priority \in [Procs -> Int]
    BY DEF PrioPInv
  <2> QED BY <2>1, <2>2
<1>2. /\ base \in [Procs -> Int] /\ r \in [Procs -> Nat]
      /\ waited \in [Procs -> Int] /\ readySince \in [Procs -> Int]
  BY DEF PrioPInv
<1>3. PICK c \in Int : c = wt - now /\ c = 0 - s
  <2>1. wt - now = 0 - s
    BY <1>1
  <2> QED BY <1>1, <2>1
<1>4. /\ waited'[p] = wt /\ readySince'[p] = now
      /\ r'[p] = IF Aging > 0 THEN c % Aging ELSE 0
      /\ base'[p] = IF Aging > 0 THEN PrioP!SatSub(w.priority[p], c \div Aging) ELSE w.priority[p]
  BY <1>2, <1>3 DEF PrioP!Enqueue
<1>5. PrioP!SatSub(w.priority[p], Levels(c)) = w.priority[p] - Levels(c)
  BY <1>3, KeyExact
<1>6. base'[p] = w'.priority[p] - Levels(c)
  BY <1>1, <1>4, <1>5 DEF Levels
<1>7. WaitsAt(p, readySince[p])'
  <2>1. Spent(p)' \in Nat /\ Spent(p)' <= readySince'[p] /\ waited'[p] = readySince'[p] - Spent(p)'
    BY <1>4
  <2> QED BY <2>1 DEF WaitsAt
<1>8. readySince'[p] <= now'
  BY <1>1, <1>4
<1>9. r'[p] = IF Aging > 0 THEN (0 - Spent(p)') % Aging ELSE 0
  BY <1>3, <1>4
<1>10. base'[p] = w'.priority[p] - Levels(0 - Spent(p)')
  BY <1>3, <1>6
<1> QED BY <1>7, <1>8, <1>9, <1>10 DEF KeyOf, Levels

LEMMA AgeStep ==
    ASSUME CsCost = 0, Proofs!Inv, Proofs!Inv', Proofs!ServiceInv, Proofs!BurstKnown, Proofs!FreeInv,
           PrioPInv, policy = "prio-p", UNCHANGED policy, PrioP!Next, Room,
           Proofs!Known, Proofs!Known', AgeInv
    PROVE  AgeInv'
<1>1. Proofs!Next /\ PrioPInv' /\ w' = w /\ stage # "done" /\ stage' # "done"
  BY PrioPStep, ProofsAssumptions, Proofs!WorkloadKept DEF Proofs!Known
<1>2. now <= now' /\ now \in Nat /\ now' \in Nat
  BY <1>1, ProofsAssumptions, Proofs!NeverBack
<1>3. Ready = ready /\ Ready' = ready'
  BY DEF Ready
<1>4. /\ base \in [Procs -> Int] /\ r \in [Procs -> Int] /\ waited \in [Procs -> Int]
      /\ readySince \in [Procs -> Int]
  BY DEF PrioPInv
<1>5. \A p \in ready \cup Proofs!Picked :
         p \in Procs /\ p \notin Proofs!OnCore /\ Spent(p)' = Spent(p)
  BY <1>1, SpentStill
<1>6. ASSUME NEW p \in ready, waited'[p] = waited[p], readySince'[p] = readySince[p],
             r'[p] = r[p], base'[p] = base[p]
      PROVE  KeyOf(p)'
  <2>1. KeyOf(p) /\ p \in Procs /\ Spent(p)' = Spent(p)
    BY <1>5 DEF AgeInv
  <2>2. WaitsAt(p, readySince[p])'
    <3>1. Spent(p) \in Nat /\ Spent(p) <= readySince[p] /\ waited[p] = readySince[p] - Spent(p)
      BY <2>1 DEF KeyOf, WaitsAt
    <3>2. Spent(p)' \in Nat /\ Spent(p)' <= readySince'[p] /\ waited'[p] = readySince'[p] - Spent(p)'
      BY <1>6, <2>1, <3>1
    <3> QED BY <3>2 DEF WaitsAt
  <2>3. readySince[p] <= now'
    BY <1>2, <1>4, <2>1 DEF KeyOf
  <2>4. r'[p] = IF Aging > 0 THEN (0 - Spent(p)') % Aging ELSE 0
    BY <1>6, <2>1 DEF KeyOf
  <2>5. base'[p] = w'.priority[p] - Levels(0 - Spent(p)')
    BY <1>1, <1>6, <2>1 DEF KeyOf
  <2> QED BY <1>6, <2>2, <2>3, <2>4, <2>5 DEF KeyOf, Levels
<1>7. ASSUME NEW p \in Proofs!Picked, waited'[p] = waited[p], now' = now
      PROVE  WaitsAt(p, now)'
  <2>1. Spent(p) \in Nat /\ Spent(p) <= now /\ waited[p] = now - Spent(p) /\ Spent(p)' = Spent(p)
    BY <1>5 DEF AgeInv, WaitsAt
  <2>2. Spent(p)' \in Nat /\ Spent(p)' <= now' /\ waited'[p] = now' - Spent(p)'
    BY <1>7, <2>1
  <2> QED BY <2>2 DEF WaitsAt
<1>8. ASSUME NEW c \in Proofs!Busy', NEW p, p = core'[c].proc, waited'[p] = waited[p]
      PROVE  WaitsAt(core[c].proc, core[c].runStart)'
  <2>1. /\ p \in Procs /\ remaining'[p] = remaining[p] /\ phase'[p] = phase[p] /\ wake'[p] = wake[p]
        /\ \/ c \in Proofs!Busy /\ core'[c] = core[c]
           \/ stage = "place" /\ p \in Proofs!Picked /\ core'[c].runStart = now /\ now' = now
    BY <1>1, <1>8, ProofsAssumptions, Proofs!StillBusy
  <2>2. Spent(p)' = Spent(p)
    BY <1>1, <2>1, SpentKept
  <2>3. PICK t : t = core'[c].runStart
    OBVIOUS
  <2>4. WaitsAt(p, t)
    <3>1. CASE c \in Proofs!Busy /\ core'[c] = core[c]
      BY <1>8, <2>3, <3>1 DEF AgeInv
    <3>2. CASE p \in Proofs!Picked /\ core'[c].runStart = now
      BY <2>3, <3>2 DEF AgeInv
    <3> QED BY <2>1, <3>1, <3>2
  <2>5. Spent(p)' \in Nat /\ Spent(p)' <= t /\ waited'[p] = t - Spent(p)'
    BY <1>8, <2>2, <2>4 DEF WaitsAt
  <2>6. Spent(core[c].proc)' = Spent(p)'
    BY <1>8 DEF Spent, Proofs!ReadyFrom, Proofs!BurstLen
  <2> QED BY <1>8, <2>3, <2>5, <2>6 DEF WaitsAt
\* a step that leaves the variables of the policy alone
<1>9. ASSUME UNCHANGED PrioP!prioVars, Proofs!Picked' \subseteq Proofs!Picked,
             Proofs!Picked' # {} => now' = now
      PROVE  AgeInv'
  <2>1. UNCHANGED <<ready, waited, readySince, base, r>>
    BY <1>9 DEF PrioP!prioVars
  <2>2. \A p \in ready' : KeyOf(p)'
    BY <1>6, <2>1
  <2>3. \A p \in Proofs!Picked' : WaitsAt(p, now)'
    BY <1>7, <1>9, <2>1
  <2>4. \A c \in Proofs!Busy' : WaitsAt(core[c].proc, core[c].runStart)'
    BY <1>8, <2>1
  <2> QED BY <2>2, <2>3, <2>4 DEF AgeInv
<1>10. CASE \E p \in Procs : PrioP!Arrive(p) \/ PrioP!BecomeReady(p)
  <2>1. PICK p \in Procs : PrioP!Arrive(p) \/ PrioP!BecomeReady(p)
    BY <1>10
  <2>2. (Proofs!Admit(p) \/ Proofs!WakeUp(p)) /\ PrioP!Enqueue(p, 0)
    BY <2>1, PrioPEngine DEF PrioP!Arrive, PrioP!BecomeReady
  <2>3. /\ stage \in {"arrivals", "wakeups"} /\ stage' = stage /\ picks' = picks /\ now' = now
        /\ UNCHANGED <<remaining, phase, wake, core>>
        /\ (p \in pending \/ p \in blocked)
    BY <2>2 DEF Proofs!Admit, Proofs!WakeUp, Proofs!resultVars, Proofs!procVars, Proofs!Arrived,
       Proofs!Woken, Proofs!IsFirst
  <2>4. log.fail = "ok"
    BY <2>3 DEF Proofs!Known
  <2>5. /\ Proofs!Admit(p) => p \in pending /\ w.arrival[p] = now
        /\ Proofs!WakeUp(p) => p \in blocked /\ wake[p] = now
    BY <2>2, <2>4, ProofsAssumptions, Proofs!JoiningCpu
  <2>6. Spent(p) = now
    <3>1. Proofs!ReadyFrom(p) = now /\ remaining[p] = Proofs!BurstLen(p)
      BY <2>2, <2>5 DEF Proofs!BurstKnown, Proofs!ReadyFrom
    <3>2. Proofs!BurstLen(p) \in Int
      BY SpentType
    <3> QED BY <1>2, <3>1, <3>2 DEF Spent
  <2>7. Spent(p)' = now
    BY <1>1, <2>3, <2>6, SpentKept
  <2>8. KeyOf(p)'
    <3>1. 0 = now - now /\ now <= now
      BY <1>2
    <3> QED BY <1>1, <1>2, <2>2, <2>3, <2>7, <3>1, KeyMade
  <2>9. /\ ready' = ready \cup {p}
        /\ \A q \in Procs \ {p} : /\ waited'[q] = waited[q] /\ readySince'[q] = readySince[q]
                                  /\ r'[q] = r[q] /\ base'[q] = base[q]
    BY <1>4, <2>2 DEF PrioP!Enqueue
  <2>10. \A q \in ready' : KeyOf(q)'
    <3> SUFFICES ASSUME NEW q \in ready', q # p PROVE KeyOf(q)'
      BY <2>8
    <3>1. q \in ready /\ q \in Procs
      BY <1>5, <2>9
    <3> QED BY <1>6, <2>9, <3>1
  <2>11. Proofs!Picked' = {}
    <3>1. picks' = <<>>
      BY <1>1, <2>3 DEF Proofs!Inv, Proofs!HasWork
    <3> QED BY <3>1 DEF Proofs!Picked
  <2>12. ASSUME NEW c \in Proofs!Busy' PROVE WaitsAt(core[c].proc, core[c].runStart)'
    <3>1. PICK q : q = core'[c].proc
      OBVIOUS
    <3>2. q # p
      <4>1. q \in Proofs!OnCore
        BY <2>3, <2>12, <3>1 DEF Proofs!OnCore, Proofs!Busy, Proofs!Free
      <4> QED BY <2>3, <4>1 DEF Proofs!Inv, Proofs!OnePlace
    <3>3. q \in Procs
      BY <2>12, <3>1, EngineAssumption
      DEF Proofs!Inv, Proofs!TypeOK, Proofs!CoreStructs, Proofs!Busy, Proofs!Free
    <3> QED BY <1>8, <2>9, <2>12, <3>1, <3>2, <3>3
  <2> QED BY <2>10, <2>11, <2>12 DEF AgeInv
<1>11. CASE \E c \in PrioP!Cores : PrioP!SliceCompletes(c) \/ PrioP!SliceBlocks(c)
  <2>1. PICK c \in Proofs!Cores : PrioP!SliceCompletes(c) \/ PrioP!SliceBlocks(c)
    BY <1>11 DEF PrioP!Cores, Proofs!Cores
  <2>2. (Proofs!Complete(c) \/ Proofs!Block(c)) /\ UNCHANGED PrioP!prioVars
    BY <2>1, PrioPEngine DEF PrioP!SliceCompletes, PrioP!SliceBlocks
  <2>3. picks' = picks /\ now' = now
    BY <2>2 DEF Proofs!Complete, Proofs!Block, Proofs!EndRun
  <2> QED BY <1>9, <2>2, <2>3 DEF Proofs!Picked
<1>12. CASE \E c \in PrioP!Cores : PrioP!SlicePreempted(c)
  <2>1. PICK c \in Proofs!Cores : PrioP!SlicePreempted(c)
    BY <1>12 DEF PrioP!Cores, Proofs!Cores
  <2>2. PICK p : p = core[c].proc
    OBVIOUS
  <2>3. Proofs!Preempt(c) /\ PrioP!Enqueue(p, waited[p])
    BY <2>1, <2>2, PrioPEngine DEF PrioP!SlicePreempted
  <2>4. /\ Proofs!SliceEnds(c) /\ stage' = stage /\ picks' = picks /\ now' = now
        /\ UNCHANGED <<phase, wake>> /\ Proofs!EndRun(c)
        /\ remaining' = [remaining EXCEPT ![p] = remaining[p] - Proofs!Ran(c)]
    BY <2>2, <2>3 DEF Proofs!Preempt, Proofs!EndRun
  <2>5. /\ p \in Procs /\ c \in Proofs!Busy /\ core[c] \in Proofs!CoreStructs
        /\ stage \in {"ends", "interrupts"} /\ Proofs!Ran(c) \in Nat
    BY <2>2, <2>4, ProofsAssumptions, Proofs!SliceEndFacts DEF Proofs!Running
  <2>6. PICK t \in Nat : t = core[c].runStart /\ Proofs!Ran(c) = now - t
    BY <2>5, EngineAssumption DEF Proofs!CoreStructs, Proofs!Times, Proofs!Ran
  <2>7. Spent(p) \in Nat /\ Spent(p) <= t /\ waited[p] = t - Spent(p)
    BY <2>2, <2>5, <2>6 DEF AgeInv, WaitsAt
  <2>8. Spent(p)' = Spent(p) + (now - t)
    <3>1. remaining'[p] = remaining[p] - (now - t)
      BY <2>4, <2>5, <2>6 DEF Proofs!Inv, Proofs!TypeOK
    <3>2. Proofs!ReadyFrom(p)' = Proofs!ReadyFrom(p) /\ Proofs!BurstLen(p)' = Proofs!BurstLen(p)
      BY <1>1, <2>4 DEF Proofs!ReadyFrom, Proofs!BurstLen
    <3>3. Spent(p)' = Proofs!ReadyFrom(p) + Proofs!BurstLen(p) - (remaining[p] - (now - t))
      BY <3>1, <3>2 DEF Spent
    <3> QED BY <1>2, <2>5, <3>3, SpentType DEF Spent
  <2>9. PICK s \in Nat : s = Spent(p)' /\ s <= now /\ waited[p] = now - s
    BY <1>2, <2>5, <2>6, <2>7, <2>8
  <2>10. KeyOf(p)'
    <3>1. PICK wt \in Int : wt = waited[p]
      BY <1>2, <2>9
    <3> QED BY <1>1, <2>3, <2>4, <2>5, <2>9, <3>1, KeyMade
  <2>11. /\ ready' = ready \cup {p}
         /\ \A q \in Procs : waited'[q] = waited[q]
         /\ \A q \in Procs \ {p} : /\ readySince'[q] = readySince[q]
                                   /\ r'[q] = r[q] /\ base'[q] = base[q]
    BY <1>4, <2>3 DEF PrioP!Enqueue
  <2>12. \A q \in ready' : KeyOf(q)'
    <3> SUFFICES ASSUME NEW q \in ready', q # p PROVE KeyOf(q)'
      BY <2>10
    <3>1. q \in ready /\ q \in Procs
      BY <1>5, <2>11
    <3> QED BY <1>6, <2>11, <3>1
  <2>13. Proofs!Picked' = {}
    <3>1. picks' = <<>>
      BY <1>1, <2>4, <2>5 DEF Proofs!Inv, Proofs!HasWork
    <3> QED BY <3>1 DEF Proofs!Picked
  <2>14. ASSUME NEW d \in Proofs!Busy' PROVE WaitsAt(core[d].proc, core[d].runStart)'
    <3>1. PICK q : q = core'[d].proc
      OBVIOUS
    <3>2. q \in Procs
      BY <2>14, <3>1, EngineAssumption
      DEF Proofs!Inv, Proofs!TypeOK, Proofs!CoreStructs, Proofs!Busy, Proofs!Free
    <3> QED BY <1>8, <2>11, <2>14, <3>1, <3>2
  <2> QED BY <2>12, <2>13, <2>14 DEF AgeInv
<1>13. CASE PrioP!NextSlice
  <2>1. PICK p : p = PrioP!Chosen
    OBVIOUS
  <2>2. ready # {} /\ ready \subseteq Procs
    BY <1>5, <1>13 DEF PrioP!NextSlice
  <2>3. p \in ready /\ p \in Procs
    BY <2>1, <2>2, ChosenType
  <2>4. PICK s : s.proc = p /\ PrioP!Pick(s)
    <3>1. PICK dl : PrioP!Pick(PrioP!Slice(p, remaining[p], dl))
      BY <1>13, <2>1 DEF PrioP!NextSlice
    <3>2. PrioP!Slice(p, remaining[p], dl).proc = p
      BY DEF PrioP!Slice
    <3> QED BY <3>1, <3>2
  <2>5. picks' = Append(picks, s) /\ UNCHANGED <<stage, now, core>>
    BY <2>4 DEF PrioP!Pick
  <2>6. /\ ready' = ready \ {p} /\ UNCHANGED <<readySince, base, r>>
        /\ waited' = [waited EXCEPT ![p] = waited[p] + now - readySince[p]]
    BY <1>13, <2>1 DEF PrioP!NextSlice
  <2>7. Proofs!Picked' \subseteq Proofs!Picked \cup {p}
    <3>1. picks \in Seq(Proofs!Slices)
      BY DEF Proofs!Inv, Proofs!TypeOK
    <3>2. /\ Len(picks) \in Nat /\ DOMAIN picks = 1..Len(picks) /\ DOMAIN picks' = 1..(Len(picks) + 1)
          /\ \A i \in 1..Len(picks) : picks'[i] = picks[i]
          /\ picks'[Len(picks) + 1] = s
      BY <2>5, <3>1
    <3>3. 1..(Len(picks) + 1) = (1..Len(picks)) \cup {Len(picks) + 1}
      BY <3>2
    <3> QED BY <2>4, <3>2, <3>3 DEF Proofs!Picked
  <2>8. ASSUME NEW q \in ready' PROVE KeyOf(q)'
    <3>1. q \in ready /\ q \in Procs /\ q # p
      BY <1>5, <2>6, <2>8
    <3>2. waited'[q] = waited[q]
      BY <1>4, <2>6, <3>1
    <3> QED BY <1>6, <2>6, <3>1, <3>2
  <2>9. WaitsAt(p, now)'
    <3>1. KeyOf(p) /\ Spent(p)' = Spent(p)
      BY <1>5, <2>3 DEF AgeInv
    <3>2. PICK t \in Int : t = readySince[p] /\ t <= now
      BY <1>4, <2>3, <3>1 DEF KeyOf
    <3>3. Spent(p) \in Nat /\ Spent(p) <= t /\ waited[p] = t - Spent(p)
      BY <3>1, <3>2 DEF KeyOf, WaitsAt
    <3>4. waited'[p] = waited[p] + now - t
      BY <1>4, <2>3, <2>6, <3>2
    <3>5. Spent(p)' \in Nat /\ Spent(p)' <= now' /\ waited'[p] = now' - Spent(p)'
      BY <1>2, <2>5, <3>1, <3>2, <3>3, <3>4
    <3> QED BY <3>5 DEF WaitsAt
  <2>10. ASSUME NEW q \in Proofs!Picked' PROVE WaitsAt(q, now)'
    <3>1. CASE q = p
      BY <2>9, <3>1
    <3>2. CASE q # p
      <4>1. q \in Proofs!Picked /\ q \in Procs
        BY <1>5, <2>7, <2>10, <3>2
      <4>2. waited'[q] = waited[q]
        BY <1>4, <2>6, <3>2, <4>1
      <4> QED BY <1>7, <2>5, <4>1, <4>2
    <3> QED BY <3>1, <3>2
  <2>11. ASSUME NEW c \in Proofs!Busy' PROVE WaitsAt(core[c].proc, core[c].runStart)'
    <3>1. PICK q : q = core'[c].proc
      OBVIOUS
    <3>2. q # p /\ q \in Procs
      <4>1. q \in Proofs!OnCore
        BY <2>5, <2>11, <3>1 DEF Proofs!OnCore, Proofs!Busy, Proofs!Free
      <4>2. p \notin Proofs!OnCore
        BY <1>5, <2>3
      <4> QED BY <2>11, <3>1, <4>1, <4>2, EngineAssumption
          DEF Proofs!Inv, Proofs!TypeOK, Proofs!CoreStructs, Proofs!Busy, Proofs!Free
    <3>3. waited'[q] = waited[q]
      BY <1>4, <2>6, <3>2
    <3> QED BY <1>8, <2>11, <3>1, <3>3
  <2> QED BY <2>8, <2>10, <2>11 DEF AgeInv
<1>14. CASE PrioP!StopPicking
  <2>1. UNCHANGED <<picks, now>> /\ UNCHANGED PrioP!prioVars
    BY <1>14 DEF PrioP!StopPicking, PrioP!PicksDone
  <2> QED BY <1>9, <2>1 DEF Proofs!Picked
<1>15. CASE PrioP!EngineStep /\ UNCHANGED PrioP!prioVars
  <2>1. Proofs!EngineStep
    BY <1>15, PrioPEngine
  <2>2. Proofs!Picked' \subseteq Proofs!Picked /\ (Proofs!Picked' # {} => now' = now)
    BY <2>1, ProofsAssumptions, Proofs!PlacedAtOnce
  <2> QED BY <1>9, <1>15, <2>2
<1> QED BY <1>10, <1>11, <1>12, <1>13, <1>14, <1>15 DEF PrioP!Next

LEMMA AheadKept ==
    ASSUME NEW p, NEW q, NEW s, NEW t, AheadAt(p, s, q, t),
           Spent(p)' = Spent(p), Spent(q)' = Spent(q), w' = w
    PROVE  AheadAt(p, s, q, t)'
BY DEF AheadAt, LevelAt, Levels

LEMMA PrioPPicks ==
    ASSUME PrioP!Next, NEW s, Proofs!Pick(s), picks \in Seq(Proofs!Slices)
    PROVE  PrioP!NextSlice
<1>1. stage = "picks" /\ stage' = "picks" /\ picks' = Append(picks, s)
  BY DEF Proofs!Pick, Proofs!WantsPick
<1>2. picks' # picks
  BY <1>1
<1>3. ~\E p \in Procs : PrioP!Arrive(p) \/ PrioP!BecomeReady(p)
  BY <1>1 DEF PrioP!Arrive, PrioP!BecomeReady, PrioP!Admit, PrioP!WakeUp
<1>4. ~\E c \in PrioP!Cores : PrioP!SliceCompletes(c) \/ PrioP!SliceBlocks(c) \/ PrioP!SlicePreempted(c)
  BY <1>1 DEF PrioP!SliceCompletes, PrioP!SliceBlocks, PrioP!SlicePreempted, PrioP!Complete,
     PrioP!Block, PrioP!Preempt, PrioP!EndRun, PrioP!SliceEnds
<1>5. ~PrioP!StopPicking
  BY <1>1 DEF PrioP!StopPicking, PrioP!PicksDone
<1>6. ~PrioP!EngineStep
  BY <1>1, <1>2 DEF PrioP!EngineStep, PrioP!Create, PrioP!Reject, PrioP!ArrivalsDone,
     PrioP!WakeupsDone, PrioP!EndsDone, PrioP!SwitchIn, PrioP!SwitchInsDone, PrioP!InstantDone,
     PrioP!Place, PrioP!PlacesDone, PrioP!Advance, PrioP!CloseTimeline, PrioP!Return,
     PrioP!Terminated, PrioP!engineVars
<1> QED BY <1>3, <1>4, <1>5, <1>6 DEF PrioP!Next

LEMMA PrioRankStep ==
    ASSUME CsCost = 0, Proofs!Inv, Proofs!Inv', Proofs!FreeInv, PrioPInv, policy = "prio-p",
           UNCHANGED policy, PrioP!Next, Room, Proofs!Known, Proofs!Known', AgeInv, PrioRank
    PROVE  PrioRank'
<1>1. Proofs!Next /\ w' = w /\ stage' # "done"
  BY PrioPStep, ProofsAssumptions, Proofs!WorkloadKept DEF Proofs!Known
<1>2. now <= now' /\ now \in Nat /\ now' \in Nat
  BY <1>1, ProofsAssumptions, Proofs!NeverBack
<1>3. Ready = ready /\ Ready' = ready' /\ PreemptOnReady
  BY RedecidedAssumption DEF Ready
<1>4. \A p \in ready \cup Proofs!Picked : p \in Procs /\ Spent(p)' = Spent(p)
  BY <1>1, SpentStill
<1>5. ASSUME NEW i \in DOMAIN picks', NEW p \in Procs, NEW q \in ready', NEW s \in Nat, NEW t \in Nat,
             picks'[i].proc = p, now' = s, s <= t, t < picks'[i].deadline
      PROVE  AheadAt(p, s, q, t)'
  <2>1. /\ q \in ready /\ now' = now
        /\ \/ \E j \in DOMAIN picks : picks'[i] = picks[j]
           \/ \E x : Proofs!NextSlice(x) /\ picks'[i] = x
    BY <1>1, <1>3, ProofsAssumptions, Proofs!ChosenStep
  <2>2. CASE \E j \in DOMAIN picks : picks'[i] = picks[j]
    <3>1. p \in Proofs!Picked
      BY <1>5, <2>2 DEF Proofs!Picked
    <3>2. AheadAt(p, s, q, t)
      BY <1>5, <2>1, <2>2 DEF PrioRank
    <3> QED BY <1>1, <1>4, <2>1, <3>1, <3>2, AheadKept
  <2>3. CASE \E x : Proofs!NextSlice(x) /\ picks'[i] = x
    <3>1. PICK x : Proofs!NextSlice(x) /\ picks'[i] = x
      BY <2>3
    <3>2. PrioP!NextSlice /\ picks' = Append(picks, x)
      BY <3>1, PrioPPicks DEF Proofs!NextSlice, Proofs!Pick, Proofs!Inv, Proofs!TypeOK
    <3>3. PICK m : m = PrioP!Chosen
      OBVIOUS
    <3>4. PICK dl : dl = IF Aging > 0 /\ ready \ {m} # {} THEN PrioP!NextAging(ready \ {m})
                         ELSE PrioP!NoDeadline
      OBVIOUS
    <3>5. PICK y : y = Proofs!Slice(m, remaining[m], dl)
      OBVIOUS
    <3>6. ready # {} /\ ready' = ready \ {m} /\ picks' = Append(picks, y)
      BY <1>3, <3>2, <3>3, <3>4, <3>5, PrioPEngine DEF PrioP!NextSlice, Proofs!Pick
    <3>7. x = y
      BY <3>2, <3>6, SamePick DEF Proofs!Inv, Proofs!TypeOK
    <3>8. p = m /\ t < dl
      BY <1>5, <3>1, <3>5, <3>7 DEF Proofs!Slice
    <3>9. AheadAt(p, s, q, s) /\ q # p /\ p \in ready
      <4>1. ready \subseteq Procs /\ \A z \in ready : KeyOf(z)
        BY <1>4 DEF AgeInv
      <4>2. s = now /\ q \in ready \ {m}
        BY <1>5, <2>1, <3>6
      <4>3. m \in ready
        BY <3>3, <3>6, <4>1, ChosenType
      <4> QED BY <3>3, <3>6, <3>8, <4>1, <4>2, <4>3, ChosenAhead
    <3>10. LevelAt(q, t) = LevelAt(q, s)
      <4>1. KeyOf(q) /\ s = now /\ now <= t
        BY <1>5, <2>1 DEF AgeInv
      <4>2. CASE Aging > 0
        <5>1. PICK S \in SUBSET Procs : S = ready \ {m}
          BY <1>4
        <5>2. q \in S /\ dl = PrioP!NextAging(S)
          BY <2>1, <3>4, <3>8, <3>9, <4>2, <5>1
        <5> QED BY <3>8, <4>1, <4>2, <5>2, NoGain
      <4>3. CASE ~(Aging > 0)
        BY <4>3 DEF LevelAt, Levels
      <4> QED BY <4>2, <4>3
    <3>11. AheadAt(p, s, q, t)
      BY <3>9, <3>10 DEF AheadAt
    <3> QED BY <1>1, <1>4, <2>1, <3>9, <3>11, AheadKept
  <2> QED BY <2>1, <2>2, <2>3
<1>6. ASSUME NEW c \in Proofs!Cores, NEW p \in Procs, NEW q \in ready', NEW s \in Nat, NEW t \in Nat,
             <<c, q>> \in Proofs!Facing', core'[c].proc = p, core'[c].runStart = s,
             now' <= t, t < core'[c].deadline
      PROVE  AheadAt(p, s, q, t)'
  <2>1. /\ q \in ready
        /\ \/ <<c, q>> \in Proofs!Facing /\ core'[c] = core[c]
           \/ /\ stage = "place" /\ now' = now
              /\ \E i \in DOMAIN picks : core'[c].proc = picks[i].proc
                                         /\ core'[c].runStart = now
                                         /\ core'[c].deadline = picks[i].deadline
    BY <1>1, <1>3, <1>6, ProofsAssumptions, Proofs!FacingStep
  <2>2. Spent(p)' = Spent(p)
    <3>1. c \in Proofs!Busy'
      BY <1>6 DEF Proofs!Facing
    <3>2. remaining'[p] = remaining[p] /\ phase'[p] = phase[p] /\ wake'[p] = wake[p]
      BY <1>1, <1>6, <3>1, ProofsAssumptions, Proofs!StillBusy
    <3> QED BY <1>1, <3>2, SpentKept
  <2>3. AheadAt(p, s, q, t)
    <3>1. CASE <<c, q>> \in Proofs!Facing /\ core'[c] = core[c]
      <4>1. now <= t
        BY <1>2, <1>6
      <4> QED BY <1>6, <2>1, <3>1, <4>1 DEF PrioRank
    <3>2. CASE /\ stage = "place" /\ now' = now
               /\ \E i \in DOMAIN picks : core'[c].proc = picks[i].proc
                                          /\ core'[c].runStart = now
                                          /\ core'[c].deadline = picks[i].deadline
      <4>1. PICK i \in DOMAIN picks : picks[i].proc = p /\ now = s /\ s <= t /\ t < picks[i].deadline
        BY <1>6, <3>2
      <4> QED BY <2>1, <4>1 DEF PrioRank
    <3> QED BY <2>1, <3>1, <3>2
  <2> QED BY <1>1, <1>4, <2>1, <2>2, <2>3, AheadKept
<1> QED BY <1>5, <1>6 DEF PrioRank

Graded == policy = "prio-p" /\ CsCost = 0 /\ Room /\ Proofs!Known => AgeInv /\ PrioRank

LEMMA GradedNext ==
    ASSUME IInv, Proofs!Inv', Proofs!ServiceInv, Proofs!BurstKnown, Proofs!FailSeen,
           Proofs!FreeWaiting, Graded, [Next]_vars
    PROVE  Graded'
<1> SUFFICES ASSUME policy' = "prio-p", CsCost = 0, Room', Proofs!Known'
             PROVE  AgeInv' /\ PrioRank'
  BY DEF Graded
<1>1. CASE Next
  <2>1. policy = "prio-p" /\ UNCHANGED policy /\ PrioP!Next
    BY <1>1 DEF Next
  <2>2. Proofs!Inv /\ PrioPInv /\ Proofs!FreeInv
    BY DEF IInv, Proofs!FreeWaiting
  <2>3. Proofs!Next
    BY <2>1, <2>2, PrioPStep
  <2>4. Proofs!Known
    BY <2>2, <2>3, ProofsAssumptions, Proofs!KnownBefore
  <2>5. Room
    <3>1. w' = w /\ now <= now' /\ now \in Nat /\ now' \in Nat
      BY <2>2, <2>3, ProofsAssumptions, Proofs!WorkloadKept, Proofs!NeverBack
    <3>2. \A p \in Procs : w.priority[p] \in Int
      BY <2>1, <2>2 DEF PrioPInv
    <3>3. \A p \in Procs : -PriorityLimit <= w.priority[p] /\ w.priority[p] + now' <= PriorityLimit
      BY <3>1 DEF Room
    <3> QED BY <3>1, <3>2, <3>3, RedecidedAssumption DEF Room
  <2>6. AgeInv /\ PrioRank
    BY <2>1, <2>4, <2>5 DEF Graded
  <2> QED BY <2>1, <2>2, <2>4, <2>5, <2>6, AgeStep, PrioRankStep
<1>2. CASE UNCHANGED vars
  <2>1. /\ UNCHANGED <<policy, ready, waited, readySince, r, base>>
        /\ UNCHANGED <<w, now, stage, log, remaining, phase, wake, picks, core, cause>>
    BY <1>2 DEF vars, engineVars, procVars, resultVars, agingVars
  <2>2. AgeInv /\ PrioRank
    BY <2>1 DEF Graded, Room, Proofs!Known
  <2>3. \A p : Spent(p)' = Spent(p)
    BY <2>1, SpentKept
  <2>4. Proofs!Picked' = Proofs!Picked /\ Proofs!Busy' = Proofs!Busy /\ Proofs!Facing' = Proofs!Facing
    <3>1. Ready' = ready /\ Ready = ready
      BY <2>1 DEF Ready
    <3> QED BY <2>1, <3>1 DEF Proofs!Picked, Proofs!Facing, Proofs!Busy, Proofs!Free
  <2>5. AgeInv'
    <3>1. \A p \in ready' : KeyOf(p)'
      BY <2>1, <2>2, <2>3 DEF AgeInv, KeyOf, WaitsAt, Levels
    <3>2. \A p \in Proofs!Picked' : WaitsAt(p, now)'
      BY <2>1, <2>2, <2>3, <2>4 DEF AgeInv, WaitsAt
    <3>3. \A c \in Proofs!Busy' : WaitsAt(core[c].proc, core[c].runStart)'
      <4> SUFFICES ASSUME NEW c \in Proofs!Busy' PROVE WaitsAt(core[c].proc, core[c].runStart)'
        OBVIOUS
      <4>1. WaitsAt(core[c].proc, core[c].runStart)
        BY <2>2, <2>4 DEF AgeInv
      <4>2. Spent(core[c].proc)' = Spent(core[c].proc)
        BY <2>1 DEF Spent, Proofs!ReadyFrom, Proofs!BurstLen
      <4> QED BY <2>1, <4>1, <4>2 DEF WaitsAt
    <3> QED BY <3>1, <3>2, <3>3 DEF AgeInv
  <2>6. \A p, q, s, t : AheadAt(p, s, q, t) => AheadAt(p, s, q, t)'
    BY <2>1, <2>3, AheadKept
  <2>7. PrioRank'
    BY <2>1, <2>2, <2>4, <2>6 DEF PrioRank
  <2> QED BY <2>5, <2>7
<1> QED BY <1>1, <1>2

\* the levels are those of the definition, which reads the timelines
LEMMA TicksRead ==
    \A p : PrioP!ReadyTicks(p) =
             Proofs!Cardinality((Proofs!ReadyFrom(p) .. (now - 1))
                                \ (Proofs!RunTicks(p) \cup Proofs!TicksOf(p, "cs")))
<1>1. \A p : Proofs!RunTicks(p) = PrioP!RunTicks(p) /\ Proofs!TicksOf(p, "cs") = PrioP!TicksOf(p, "cs")
  BY DEF Proofs!RunTicks, Proofs!TicksOf, Proofs!SegmentsOf, Proofs!Cores, Proofs!ToSet,
     Proofs!UnloggedTicks, Proofs!Running, Proofs!Busy, Proofs!Free,
     PrioP!RunTicks, PrioP!TicksOf, PrioP!SegmentsOf, PrioP!Cores, PrioP!ToSet,
     PrioP!UnloggedTicks, PrioP!Running, PrioP!Busy, PrioP!Free
<1>2. \A S : Proofs!Cardinality(S) = PrioP!Cardinality(S)
  BY DEF Proofs!Cardinality, Proofs!IsFiniteSet, PrioP!Cardinality, PrioP!IsFiniteSet
<1>3. \A p : PrioP!BurstReady(p) = Proofs!ReadyFrom(p)
  BY DEF PrioP!BurstReady, Proofs!ReadyFrom
<1> QED BY <1>1, <1>2, <1>3 DEF PrioP!ReadyTicks

LEMMA EffectiveIs ==
    ASSUME Proofs!Inv, NEW p \in Procs, NEW t \in Nat, NEW n \in Nat,
           PrioP!ReadyTicks(p) = t - Proofs!ReadyFrom(p) - (Proofs!BurstLen(p) - remaining[p])
    PROVE  PrioP!Effective(p, n) = LevelAt(p, t + n)
<1>1. PrioP!ReadyTicks(p) + n = (t + n) - Spent(p)
  BY SpentType DEF Spent
<1> QED BY <1>1 DEF PrioP!Effective, LevelAt, Levels

(* With free switches srtf and prio-p run the best processes at all times, *)
(* on any number of cores: of prio-p, while no key saturates, none that    *)
(* waits has at any tick up to the next event a lower effective priority   *)
(* than one that runs, where the ready time is the one the timelines show. *)
(* The set is re-chosen at arrivals and completions and when the aging     *)
(* deadline of a slice falls due, which is never too late (docs/model.md,  *)
(* "Multiple cores"; prio_next_slice, priority.c:300-313).                 *)
THEOREM BestAreRunningHolds == Spec => []((policy = "prio-p" => Room) => BestAreRunning)
<1>1. Init => Proofs!Init /\ IInv
  BY RefinementInit
<1>2. IInv /\ [Next]_vars => [Proofs!Next]_(Proofs!vars) /\ IInv'
  BY RefinementStep
<1>3. Proofs!Spec =>
        [](Proofs!Inv /\ Proofs!ServiceInv /\ Proofs!BurstKnown /\ Proofs!FailSeen /\ Proofs!FreeWaiting)
  BY ProofsAssumptions, Proofs!FreeWaitingInvariant
<1>4. Init => Graded
  <2> SUFFICES ASSUME Init, policy = "prio-p" PROVE AgeInv /\ PrioRank
    BY DEF Graded
  <2>1. Proofs!Init /\ ready = {}
    BY RefinementInit DEF Init, PrioP!Init
  <2>2. picks = <<>> /\ Proofs!Busy = {}
    BY <2>1 DEF Proofs!Init, Proofs!EngineInit, Proofs!FreshCore, Proofs!Busy, Proofs!Free
  <2> QED BY <2>1, <2>2 DEF AgeInv, PrioRank, Proofs!Picked
<1>5. IInv /\ Proofs!Inv' /\ Proofs!ServiceInv /\ Proofs!BurstKnown /\ Proofs!FailSeen
        /\ Proofs!FreeWaiting /\ Graded /\ [Next]_vars => Graded'
  BY GradedNext
<1>6. IInv /\ Proofs!FreeWaiting /\ Graded /\ Room => (policy = "prio-p" => BestAreRunning)
  <2> SUFFICES ASSUME IInv, Proofs!FreeWaiting, Graded, Room, policy = "prio-p", CsCost = 0,
                      stage = "advance", NEW t \in now..MaxTime,
                      \A u \in PrioP!EventTimes : t < u,
                      NEW c \in PrioP!Running, NEW q \in ready
               PROVE  PrioP!EffectiveLess(core[c].proc, q, t - now)
    BY DEF BestAreRunning, PrioP!BestAreRunning
  <2>1. Ready = ready /\ Proofs!Inv
    BY DEF Ready, IInv
  <2>2. Proofs!Known /\ stage # "done" /\ stage \notin Proofs!Early
    BY DEF Proofs!Known, Proofs!Early
  <2>3. AgeInv /\ PrioRank /\ Proofs!FreeInv /\ Proofs!BurstsLogged
    BY <2>2 DEF Graded, Proofs!FreeWaiting
  <2>4. c \in Proofs!Running /\ c \in Proofs!Cores /\ c \in Proofs!Busy
    BY DEF PrioP!Running, PrioP!Busy, PrioP!Free, PrioP!Cores,
       Proofs!Running, Proofs!Busy, Proofs!Free, Proofs!Cores
  <2>5. PICK p : p = core[c].proc
    OBVIOUS
  <2>6. PICK s : s = core[c].runStart
    OBVIOUS
  <2>7. Proofs!BurstLogged(p, s)
    BY <2>3, <2>4, <2>5, <2>6 DEF Proofs!BurstsLogged
  <2>8. /\ p \in Procs /\ s \in Nat
        /\ PrioP!ReadyTicks(p) = s - Proofs!ReadyFrom(p) - (Proofs!BurstLen(p) - remaining[p])
    BY <2>1, <2>2, <2>4, <2>5, <2>6, <2>7, ProofsAssumptions, Proofs!RunningRead, TicksRead
  <2>9. q \in Procs /\ q \notin Proofs!OnCore /\ now \in Nat
    BY <2>1, EngineAssumption DEF Proofs!Inv, Proofs!TypeOK, Proofs!OnePlace, Proofs!Times
  <2>10. PrioP!ReadyTicks(q) = now - Proofs!ReadyFrom(q) - (Proofs!BurstLen(q) - remaining[q])
    BY <2>1, <2>3, <2>9, ProofsAssumptions, Proofs!WaitedRead, TicksRead DEF Proofs!BurstsLogged
  <2>11. t \in Nat /\ now <= t
    BY <2>9
  <2>12. PrioP!Effective(p, 0) = LevelAt(p, s) /\ PrioP!Effective(q, t - now) = LevelAt(q, t)
    <3>1. PrioP!Effective(p, 0) = LevelAt(p, s + 0)
      BY <2>1, <2>8, EffectiveIs
    <3>2. PICK n \in Nat : n = t - now /\ now + n = t
      BY <2>9, <2>11
    <3>3. PrioP!Effective(q, n) = LevelAt(q, now + n)
      BY <2>1, <2>9, <2>10, EffectiveIs
    <3> QED BY <2>8, <3>1, <3>2, <3>3
  <2>13. now < core[c].deadline /\ t < core[c].deadline
    <3>1. now < core[c].deadline
      BY <2>2, <2>3, <2>4, <2>9 DEF Proofs!FreeInv
    <3>2. core[c].deadline \in PrioP!EventTimes
      BY <3>1 DEF PrioP!EventTimes, PrioP!Running
    <3> QED BY <3>1, <3>2
  <2>14. AheadAt(p, s, q, t)
    <3>1. <<c, q>> \in Proofs!Facing
      BY <2>1, <2>2, <2>4 DEF Proofs!Facing
    <3> QED BY <2>3, <2>4, <2>5, <2>6, <2>8, <2>9, <2>11, <2>13, <3>1 DEF PrioRank
  <2> QED BY <2>5, <2>12, <2>14 DEF AheadAt, PrioP!EffectiveLess
<1> DEFINE Srtf == policy = "srtf" => BestAreRunning
           Best == (policy = "prio-p" => Room) => BestAreRunning
<1>7. IInv /\ Proofs!FreeWaiting /\ Graded /\ Srtf => Best
  <2>1. policy # "srtf" /\ policy # "prio-p" => BestAreRunning
    BY DEF BestAreRunning
  <2> QED BY <1>6, <2>1
<1>8. Spec => []Srtf
  BY SrtfBestAreRunning
<1> HIDE DEF Srtf, Best
<1>9. Spec => []IInv /\ Proofs!Spec
  BY <1>1, <1>2, PTL DEF Spec, Proofs!Spec
<1>10. Spec => []Graded
  BY <1>3, <1>4, <1>5, <1>9, PTL DEF Spec
<1>11. Spec => []Best
  BY <1>3, <1>7, <1>8, <1>9, <1>10, PTL
<1> QED BY <1>11 DEF Best
=============================================================================
