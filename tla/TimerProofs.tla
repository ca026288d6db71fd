------------------------------ MODULE TimerProofs ------------------------------
(***************************************************************************)
(* What the timers promise: those of EventLoop, for any number of timers   *)
(* and descriptors and any time a callback takes, and the one of a Cache,  *)
(* for any threads, values, pipe and times.                                *)
(***************************************************************************)
EXTENDS EventLoop, Cache, FiniteSetTheorems, WellFoundedInduction, TLAPS

(* EventLoop *)

\* The timers that expire before t, in the order in which run() takes them.
Before(t) == {u \in Timers : left[u] < left[t] \/ (left[u] = left[t] /\ u < t)}

\* What a timer may be late where the loop stands: nothing while select() waits, a
\* callback for each descriptor served since, and one for each timer that was before it.
Lateness(t) ==
  /\ pc = "select" => left[t] >= IF wait > 0 THEN wait ELSE - busy
  /\ pc = "dispatch" => left[t] >= - MaxBusy * (Cardinality(Fds) + 1 - Cardinality(rfds)) - busy
  /\ pc \in {"scan", "expire"} =>
       left[t] >= - MaxBusy * (Cardinality(Fds) + Cardinality(Timers) - Cardinality(Before(t))) - busy

\* The timer that was chosen is still the first, and a wakeup that was reported is there.
Chosen ==
  /\ pc \in {"select", "expire"} /\ chosen /= None => Before(chosen) = {}
  /\ pc = "expire" => chosen /= None
  /\ pc = "dispatch" /\ ReadPipe \in rfds => pipe > 0

SInv == TypeOK /\ Chosen /\ \A t \in Timers : Lateness(t)

-------------------------------------------------------------------------------

(* Least elements of sets of numbers *)

LEMMA Least ==
  ASSUME NEW S \in SUBSET Nat, S /= {}
  PROVE  \E x \in S : \A y \in S : x <= y
<1>1. \E x \in S : \A y \in S : ~ (<<y, x>> \in OpToRel(<, Nat))
  BY NatLessThanWellFounded, WFMin
<1>2. \A x, y \in Nat : <<y, x>> \in OpToRel(<, Nat) <=> y < x
  BY DEF OpToRel
<1>3. PICK x \in S : \A y \in S : ~ (<<y, x>> \in OpToRel(<, Nat))
  BY <1>1
<1>4. \A y \in S : x <= y
  <2> TAKE y \in S
  <2>1. ~ (y < x)
    BY <1>2, <1>3, S \subseteq Nat
  <2> QED BY <2>1, S \subseteq Nat
<1> QED BY <1>4

LEMMA LeastInt ==
  ASSUME NEW S \in SUBSET Int, S /= {}, NEW b \in Int, \A x \in S : x >= b
  PROVE  \E x \in S : \A y \in S : x <= y
<1> DEFINE N == {n \in Nat : n + b \in S}
<1>1. N /= {}
  <2>1. PICK x \in S : TRUE
    OBVIOUS
  <2>2. x - b \in N
    OBVIOUS
  <2> QED BY <2>2
<1>2. PICK n \in N : \A m \in N : n <= m
  BY <1>1, Least, N \in SUBSET Nat
<1>3. ASSUME NEW y \in S PROVE n + b <= y
  <2>1. y - b \in N
    OBVIOUS
  <2> QED BY <1>2, <2>1
<1>4. n + b \in S
  OBVIOUS
<1> QED BY <1>3, <1>4

-------------------------------------------------------------------------------
(* The bound on how late a timer is, and what is below it *)

Bound == MaxBusy * (Cardinality(Timers) + Cardinality(Fds) + 1)

USE TimerAssumption, FdAssumption, TimeAssumption, LoopBoundAssumption DEF None

LEMMA Sizes ==
  /\ Cardinality(Timers) \in Nat /\ Cardinality(Fds) \in Nat
  /\ \A S \in SUBSET Timers : IsFiniteSet(S) /\ Cardinality(S) \in 0 .. Cardinality(Timers)
  /\ \A S \in SUBSET (Fds \cup {ReadPipe}) : IsFiniteSet(S) /\ Cardinality(S) \in 0 .. Cardinality(Fds) + 1
<1>1. Cardinality(Timers) \in Nat /\ Cardinality(Fds) \in Nat
  BY FS_CardinalityType
<1>2. \A S \in SUBSET Timers : IsFiniteSet(S) /\ Cardinality(S) \in 0 .. Cardinality(Timers)
  <2> TAKE S \in SUBSET Timers
  <2>1. IsFiniteSet(S) /\ Cardinality(S) <= Cardinality(Timers)
    BY FS_Subset
  <2> QED BY <1>1, <2>1, FS_CardinalityType
<1>3. IsFiniteSet(Fds \cup {ReadPipe}) /\ Cardinality(Fds \cup {ReadPipe}) <= Cardinality(Fds) + 1
  <2>1. IsFiniteSet(Fds \cup {ReadPipe})
    BY FS_AddElement
  <2>2. \/ Cardinality(Fds \cup {ReadPipe}) = Cardinality(Fds)
        \/ Cardinality(Fds \cup {ReadPipe}) = Cardinality(Fds) + 1
    BY FS_AddElement
  <2> QED BY <1>1, <2>1, <2>2
<1>4. ASSUME NEW S \in SUBSET (Fds \cup {ReadPipe})
      PROVE  IsFiniteSet(S) /\ Cardinality(S) \in 0 .. Cardinality(Fds) + 1
  <2>1. IsFiniteSet(S) /\ Cardinality(S) <= Cardinality(Fds \cup {ReadPipe})
    BY <1>3, FS_Subset
  <2>2. Cardinality(S) \in Nat /\ Cardinality(Fds \cup {ReadPipe}) \in Nat
    BY <1>3, <2>1, FS_CardinalityType
  <2> QED BY <1>1, <1>3, <2>1, <2>2
<1> QED BY <1>1, <1>2, <1>4

LEMMA Products ==
  /\ \A n \in Nat : MaxBusy * n \in Nat /\ - MaxBusy * n = - (MaxBusy * n)
  /\ \A n \in Nat : MaxBusy * (n + 1) = MaxBusy * n + MaxBusy
  /\ \A n, m \in Nat : n <= m => MaxBusy * n <= MaxBusy * m
<1>1. \A n \in Nat : MaxBusy * n \in Nat /\ - MaxBusy * n = - (MaxBusy * n)
  OBVIOUS
<1>2. \A n \in Nat : MaxBusy * (n + 1) = MaxBusy * n + MaxBusy
  OBVIOUS
<1>3. ASSUME NEW n \in Nat, NEW m \in Nat, n <= m PROVE MaxBusy * n <= MaxBusy * m
  <2>1. m - n \in Nat
    BY <1>3
  <2>2. MaxBusy * (m - n) \in Nat
    BY <2>1
  <2> QED BY <2>2
<1> QED BY <1>1, <1>2, <1>3

\* A limit of n callbacks, and one more.
LEMMA OneMore ==
  ASSUME NEW n \in Nat, NEW m \in Nat, n < m, TypeOK, NEW x \in Int,
         x >= - MaxBusy * n - busy
  PROVE  x >= - MaxBusy * m
<1>1. n + 1 <= m
  OBVIOUS
<1>2. MaxBusy * (n + 1) <= MaxBusy * m /\ MaxBusy * (n + 1) = MaxBusy * n + MaxBusy
  BY <1>1, Products
<1>3. busy \in 0 .. MaxBusy
  BY DEF TypeOK
<1>4. MaxBusy * n \in Nat /\ MaxBusy * m \in Nat /\ - MaxBusy * n = - (MaxBusy * n) /\ - MaxBusy * m = - (MaxBusy * m)
  BY Products
<1> HIDE DEF TypeOK
<1> QED BY <1>2, <1>3, <1>4

LEMMA BeforeIsSmall ==
  ASSUME TypeOK, NEW t \in Timers
  PROVE  /\ Cardinality(Before(t)) \in Nat /\ IsFiniteSet(Before(t))
         /\ Cardinality(Before(t)) < Cardinality(Timers)
<1>1. Before(t) \subseteq Timers \ {t}
  BY DEF Before, TypeOK
<1>2. Cardinality(Timers \ {t}) = Cardinality(Timers) - 1
  BY FS_RemoveElement
<1>3. IsFiniteSet(Timers \ {t})
  BY FS_RemoveElement
<1>4. IsFiniteSet(Before(t)) /\ Cardinality(Before(t)) <= Cardinality(Timers \ {t})
  BY <1>1, <1>3, FS_Subset
<1> QED BY <1>2, <1>4, Sizes, FS_CardinalityType

LEMMA LateAtMost ==
  ASSUME TypeOK, NEW t \in Timers, Lateness(t)
  PROVE  left[t] >= - Bound
<1> DEFINE f == Cardinality(Fds)  n == Cardinality(Timers)  b == Cardinality(Before(t))  r == Cardinality(rfds)
<1>1. f \in Nat /\ n \in Nat /\ b \in Nat /\ b < n /\ r \in 0 .. f + 1
  BY Sizes, BeforeIsSmall DEF TypeOK
<1>2. left[t] \in Int /\ busy \in 0 .. MaxBusy /\ wait \in Nat
  BY DEF TypeOK
<1>3. - Bound = - MaxBusy * (n + f + 1)
  BY <1>1 DEF Bound
<1> HIDE DEF f, n, b, r
<1>4. CASE pc = "select"
  <2>1. left[t] >= - MaxBusy * 0 - busy
    BY <1>2, <1>4 DEF Lateness
  <2> QED BY <1>1, <1>2, <1>3, <2>1, OneMore
<1>5. CASE pc = "dispatch"
  <2>1. left[t] >= - MaxBusy * (f + 1 - r) - busy
    BY <1>5 DEF Lateness, f, r
  <2>2. f + 1 - r \in Nat /\ f + 1 - r < n + f + 1
    BY <1>1
  <2> QED BY <1>1, <1>2, <1>3, <2>1, <2>2, OneMore
<1>6. CASE pc \in {"scan", "expire"}
  <2>1. left[t] >= - MaxBusy * (f + n - b) - busy
    BY <1>6 DEF Lateness, f, n, b
  <2>2. f + n - b \in Nat /\ f + n - b < n + f + 1
    BY <1>1
  <2> QED BY <1>1, <1>2, <1>3, <2>1, <2>2, OneMore
<1> QED BY <1>4, <1>5, <1>6 DEF TypeOK

\* Scan finds the first of the timers there are within the horizon.
LEMMA EarliestIsFirst ==
  ASSUME SInv, Soon /= {}
  PROVE  /\ Earliest \in Timers /\ left[Earliest] < Horizon
         /\ Before(Earliest) = {}
         /\ \A t \in Timers : left[Earliest] <= left[t]
<1> DEFINE L == {left[t] : t \in Soon}
<1>1. left \in [Timers -> Int] /\ Soon \subseteq Timers
  BY DEF SInv, TypeOK, Soon
<1>2. Bound \in Int
  <2>1. Cardinality(Timers) + Cardinality(Fds) + 1 \in Nat
    BY Sizes
  <2> QED BY <2>1, Products DEF Bound
<1>3. L \in SUBSET Int /\ L /= {}
  <2>1. L /= {}
    OBVIOUS
  <2>2. L \subseteq Int
    BY <1>1
  <2> QED BY <2>1, <2>2
<1>4. \A x \in L : x >= - Bound
  BY LateAtMost, <1>1 DEF SInv
<1>5. PICK x \in L : \A y \in L : x <= y
  <2> HIDE DEF L
  <2> QED BY <1>2, <1>3, <1>4, LeastInt, - Bound \in Int
<1> DEFINE F == {t \in Soon : left[t] = x}
<1>6. F \in SUBSET Nat /\ F /= {}
  BY <1>1, <1>5
<1>7. PICK e \in F : \A t \in F : e <= t
  <2> HIDE DEF F
  <2> QED BY <1>6, Least
<1>8. ASSUME NEW t \in Soon PROVE left[e] < left[t] \/ (left[e] = left[t] /\ e <= t)
  <2>1. left[e] = x /\ x <= left[t] /\ x \in Int /\ left[t] \in Int
    BY <1>1, <1>5, <1>7
  <2>2. left[t] = x => e <= t
    BY <1>7
  <2> QED BY <2>1, <2>2
<1>9. /\ Earliest \in Soon
      /\ \A t \in Soon : left[Earliest] < left[t] \/ (left[Earliest] = left[t] /\ Earliest <= t)
  BY <1>7, <1>8 DEF Earliest
<1>10. Earliest \in Timers /\ left[Earliest] \in Int /\ left[Earliest] < Horizon
  BY <1>1, <1>9 DEF Soon
<1>11. ASSUME NEW t \in Timers PROVE left[Earliest] < left[t] \/ (left[Earliest] = left[t] /\ Earliest <= t)
  <2>1. CASE t \in Soon
    BY <2>1, <1>9
  <2>2. CASE t \notin Soon
    BY <2>2, <1>1, <1>10 DEF Soon
  <2> QED BY <2>1, <2>2
<1>12. ASSUME NEW u \in Before(Earliest) PROVE FALSE
  <2>1. u \in Timers /\ left[u] \in Int /\ u \in Nat /\ Earliest \in Nat
    BY <1>1, <1>10 DEF Before
  <2>2. left[u] < left[Earliest] \/ (left[u] = left[Earliest] /\ u < Earliest)
    BY DEF Before
  <2> QED BY <1>10, <1>11, <2>1, <2>2
<1>13. \A t \in Timers : left[Earliest] <= left[t]
  BY <1>1, <1>10, <1>11
<1> QED BY <1>10, <1>12, <1>13

-------------------------------------------------------------------------------
(* The actions *)

LEMMA InitEstablishes == Init => SInv
<1> SUFFICES ASSUME Init PROVE SInv
  OBVIOUS
<1>1. TypeOK
  BY DEF Init, TypeOK
<1>2. Chosen
  BY DEF Init, Chosen
<1>3. ASSUME NEW t \in Timers PROVE Lateness(t)
  <2> DEFINE n == Cardinality(Fds) + Cardinality(Timers) - Cardinality(Before(t))
  <2>1. n \in Nat
    BY <1>1, Sizes, BeforeIsSmall
  <2>2. MaxBusy * n \in Nat /\ - MaxBusy * n = - (MaxBusy * n)
    BY <2>1, Products
  <2>3. left[t] \in Nat /\ busy = 0 /\ pc = "scan"
    BY DEF Init
  <2>4. left[t] >= - MaxBusy * n - busy
    <3> HIDE DEF n
    <3> QED BY <2>2, <2>3
  <2> QED BY <2>3, <2>4 DEF Lateness
<1> QED BY <1>1, <1>2, <1>3 DEF SInv

\* Time moves all timers alike, and their order stays.
LEMMA OrderStays ==
  ASSUME SInv, NEW d \in Int, left' = [t \in Timers |-> left[t] + d]
  PROVE  \A t \in Timers : left[t] \in Int /\ left'[t] = left[t] + d /\ Before(t)' = Before(t)
<1> TAKE t \in Timers
<1>1. \A u \in Timers : left[u] \in Int /\ left'[u] = left[u] + d
  BY DEF SInv, TypeOK
<1>2. \A u \in Timers : (left'[u] < left'[t] <=> left[u] < left[t]) /\ (left'[u] = left'[t] <=> left[u] = left[t])
  BY <1>1
<1>3. Before(t)' = Before(t)
  BY <1>2 DEF Before
<1> QED BY <1>1, <1>3

LEMMA TickKeeps == SInv /\ Tick => SInv'
<1> SUFFICES ASSUME SInv, Tick PROVE SInv'
  OBVIOUS
<1>1. TypeOK'
  BY DEF SInv, TypeOK, Tick, Asleep
<1>2. \A t \in Timers : left[t] \in Int /\ left'[t] = left[t] - 1 /\ Before(t)' = Before(t)
  <2>1. left' = [t \in Timers |-> left[t] + (-1)]
    BY DEF Tick, SInv, TypeOK
  <2> QED BY <2>1, OrderStays
<1>3. pc' = pc /\ chosen' = chosen /\ rfds' = rfds /\ pipe' = pipe
  BY DEF Tick
<1>4. Chosen'
  BY <1>2, <1>3 DEF SInv, TypeOK, Chosen
<1>5. ASSUME NEW t \in Timers PROVE Lateness(t)'
  <2>1. CASE pc = "select"
    BY <1>2, <1>3, <2>1 DEF Tick, Asleep, SInv, TypeOK, Lateness
  <2>2. CASE pc /= "select"
    <3>1. busy' = busy + 1 /\ busy \in Nat
      BY <2>2 DEF Tick, Asleep, SInv, TypeOK
    <3>2. ASSUME NEW k \in Int, left[t] >= k - busy PROVE left'[t] >= k - busy'
      BY <1>2, <3>1, <3>2
    <3>3. - MaxBusy * (Cardinality(Fds) + 1 - Cardinality(rfds)) \in Int
          /\ - MaxBusy * (Cardinality(Fds) + Cardinality(Timers) - Cardinality(Before(t))) \in Int
      <4>1. Cardinality(Fds) + 1 - Cardinality(rfds) \in Nat
        BY Sizes DEF SInv, TypeOK
      <4>2. Cardinality(Fds) + Cardinality(Timers) - Cardinality(Before(t)) \in Nat
        BY Sizes, BeforeIsSmall DEF SInv
      <4> QED BY <4>1, <4>2, Products
    <3> QED BY <1>2, <1>3, <2>2, <3>2, <3>3 DEF SInv, Lateness
  <2> QED BY <2>1, <2>2
<1> QED BY <1>1, <1>4, <1>5 DEF SInv

LEMMA ClockKeeps == SInv /\ ClockSetBack => SInv'
<1> SUFFICES ASSUME SInv, ClockSetBack PROVE SInv'
  OBVIOUS
<1>1. TypeOK'
  BY DEF SInv, TypeOK, ClockSetBack
<1>2. \A t \in Timers : left[t] \in Int /\ left'[t] = left[t] + Step /\ Before(t)' = Before(t)
  BY OrderStays DEF ClockSetBack
<1>3. UNCHANGED <<pc, chosen, rfds, pipe, wait, busy>>
  BY DEF ClockSetBack
<1>4. Chosen'
  BY <1>2, <1>3 DEF SInv, TypeOK, Chosen
<1>5. ASSUME NEW t \in Timers PROVE Lateness(t)'
  <2>1. ASSUME NEW k \in Int, left[t] >= k PROVE left'[t] >= k
    BY <1>2, <2>1
  <2>2. busy \in Int /\ wait \in Int
    BY DEF SInv, TypeOK
  <2>3. - MaxBusy * (Cardinality(Fds) + 1 - Cardinality(rfds)) - busy \in Int
        /\ - MaxBusy * (Cardinality(Fds) + Cardinality(Timers) - Cardinality(Before(t))) - busy \in Int
    <3>1. Cardinality(Fds) + 1 - Cardinality(rfds) \in Nat
      BY Sizes DEF SInv, TypeOK
    <3>2. Cardinality(Fds) + Cardinality(Timers) - Cardinality(Before(t)) \in Nat
      BY Sizes, BeforeIsSmall DEF SInv
    <3> QED BY <2>2, <3>1, <3>2, Products
  <2> QED BY <1>2, <1>3, <2>1, <2>2, <2>3 DEF SInv, Lateness
<1> QED BY <1>1, <1>4, <1>5 DEF SInv

\* Where no timer is later than the callback under way, all bounds hold.
LEMMA NotLate ==
  ASSUME SInv, NEW t \in Timers, left[t] >= - busy
  PROVE  /\ left[t] >= - MaxBusy * (Cardinality(Fds) + Cardinality(Timers) - Cardinality(Before(t))) - busy
         /\ \A n \in 0 .. Cardinality(Fds) + 1 :
              left[t] >= - MaxBusy * (Cardinality(Fds) + 1 - n) - busy
<1>1. left[t] \in Int /\ busy \in Nat
  BY DEF SInv, TypeOK
<1>2. ASSUME NEW n \in Nat PROVE left[t] >= - MaxBusy * n - busy
  <2>1. MaxBusy * n \in Nat /\ - MaxBusy * n = - (MaxBusy * n)
    BY Products
  <2> QED BY <1>1, <2>1
<1>3. Cardinality(Fds) + Cardinality(Timers) - Cardinality(Before(t)) \in Nat
  BY Sizes, BeforeIsSmall DEF SInv
<1>4. \A n \in 0 .. Cardinality(Fds) + 1 : Cardinality(Fds) + 1 - n \in Nat
  BY Sizes
<1> QED BY <1>2, <1>3, <1>4

LEMMA ScanKeeps == SInv /\ Scan => SInv'
<1> SUFFICES ASSUME SInv, Scan PROVE SInv'
  OBVIOUS
<1>0. pc = "scan" /\ UNCHANGED <<left, ready, pipe, rfds, busy, steps>>
  BY DEF Scan
<1>1. CASE Soon = {}
  <2>1. chosen' = None /\ pc' = "select" /\ wait' = Horizon
    BY <1>1 DEF Scan
  <2>2. TypeOK'
    BY <1>0, <2>1 DEF SInv, TypeOK
  <2>3. Chosen'
    BY <1>0, <2>1 DEF Chosen
  <2>4. ASSUME NEW t \in Timers PROVE Lateness(t)'
    <3>1. left[t] \in Int /\ ~ (left[t] < Horizon)
      BY <1>1 DEF Soon, SInv, TypeOK
    <3> QED BY <1>0, <2>1, <3>1 DEF Lateness
  <2> QED BY <2>2, <2>3, <2>4 DEF SInv
<1>2. CASE Soon /= {}
  <2> DEFINE e == Earliest
  <2>1. /\ e \in Timers /\ left[e] < Horizon /\ Before(e) = {} /\ e /= None
        /\ \A t \in Timers : left[e] <= left[t]
    BY <1>2, EarliestIsFirst
  <2>2. chosen' = e
    BY <1>2 DEF Scan
  <2>3. left[e] \in Int
    BY <2>1 DEF SInv, TypeOK
  <2>4. \A t \in Timers : Before(t)' = Before(t)
    BY <1>0 DEF Before
  <2>5. \/ left[e] > 0 /\ pc' = "select" /\ wait' = left[e]
        \/ pc' = "expire" /\ wait' = 0
    BY <1>2 DEF Scan
  <2> HIDE DEF e
  <2>6. TypeOK'
    BY <1>0, <2>1, <2>2, <2>3, <2>5 DEF SInv, TypeOK
  <2>7. Chosen'
    BY <1>0, <2>1, <2>2, <2>4, <2>5 DEF Chosen
  <2>8. ASSUME NEW t \in Timers PROVE Lateness(t)'
    BY <1>0, <2>1, <2>3, <2>4, <2>5 DEF SInv, Lateness
  <2> QED BY <2>6, <2>7, <2>8 DEF SInv
<1> QED BY <1>1, <1>2

LEMMA SelectKeeps == SInv /\ (Select \/ SelectTimeout \/ NotExpired) => SInv'
<1> SUFFICES ASSUME SInv, Select \/ SelectTimeout \/ NotExpired PROVE SInv'
  OBVIOUS
<1>0. UNCHANGED <<left, ready, pipe, chosen, busy, steps>>
  BY DEF Select, SelectTimeout, NotExpired
<1>1. TypeOK'
  BY DEF SInv, TypeOK, Select, SelectTimeout, NotExpired, Readable
<1>2. \A t \in Timers : Before(t)' = Before(t) /\ left[t] \in Int
  BY <1>0 DEF Before, SInv, TypeOK
<1>3. Chosen'
  <2>1. CASE Select
    <3>1. pc' = "dispatch" /\ rfds' = Readable
      BY <2>1 DEF Select
    <3>2. ReadPipe \in Readable => pipe > 0
      BY DEF Readable, SInv, TypeOK
    <3> QED BY <1>0, <3>1, <3>2 DEF Chosen
  <2>2. CASE SelectTimeout
    BY <2>2, <1>0, <1>2 DEF SelectTimeout, Chosen, SInv, TypeOK
  <2>3. CASE NotExpired
    BY <2>3 DEF NotExpired, Chosen
  <2> QED BY <2>1, <2>2, <2>3
<1>4. ASSUME NEW t \in Timers PROVE Lateness(t)'
  <2>1. CASE NotExpired
    BY <2>1, <1>0, <1>2 DEF NotExpired, SInv, Lateness
  <2>2. CASE Select \/ SelectTimeout
    <3>1. pc = "select"
      BY <2>2 DEF Select, SelectTimeout
    <3>2. left[t] >= - busy
      BY <3>1, <1>2 DEF SInv, TypeOK, Lateness
    <3>3. Cardinality(rfds') \in 0 .. Cardinality(Fds) + 1
      BY <1>1, Sizes DEF TypeOK
    <3>4. pc' \in {"scan", "expire", "dispatch"}
      BY <2>2 DEF Select, SelectTimeout
    <3> QED BY <1>0, <1>2, <3>2, <3>3, <3>4, NotLate DEF Lateness
  <2> QED BY <2>1, <2>2
<1> QED BY <1>1, <1>3, <1>4 DEF SInv

\* What a callback leaves of the timers: nothing gets closer, what it resets is ahead.
LEMMA CallbackDelays ==
  ASSUME NEW l \in [Timers -> Int], NEW p, Callback(l, p)
  PROVE  /\ left' \in [Timers -> Int] /\ busy' = 0
         /\ \A t \in Timers : left'[t] = l[t] \/ left'[t] > 0
  BY DEF Callback

LEMMA ServeKeeps ==
  ASSUME SInv, ServePipe \/ \E f \in Fds : ServeFd(f)
  PROVE  SInv'
<1>1. PICK x \in rfds :
        /\ pc = "dispatch" /\ rfds' = rfds \ {x} /\ pc' = NextPc
        /\ ReadPipe \in rfds' => x /= ReadPipe
        /\ UNCHANGED <<chosen, wait, steps>> /\ ready' \subseteq ready
        /\ \/ x = ReadPipe /\ Callback(left, pipe - 1)
           \/ ReadPipe \notin rfds /\ Callback(left, pipe)
  BY DEF ServePipe, ServeFd
<1>2. /\ left' \in [Timers -> Int] /\ busy' = 0
      /\ \A t \in Timers : left'[t] = left[t] \/ left'[t] > 0
  BY <1>1, CallbackDelays DEF SInv, TypeOK
<1>3. pipe' \in 0 .. MaxPipe
  <2>1. CASE x = ReadPipe /\ Callback(left, pipe - 1)
    <3>1. pipe \in 1 .. MaxPipe
      BY <1>1, <2>1 DEF SInv, TypeOK, Chosen
    <3> QED BY <2>1, <3>1 DEF Callback
  <2>2. CASE Callback(left, pipe)
    BY <2>2 DEF Callback, SInv, TypeOK
  <2> QED BY <1>1, <2>1, <2>2
<1>4. TypeOK'
  <2>1. pc' \in {"scan", "dispatch"}
    BY <1>1 DEF NextPc
  <2> QED BY <1>1, <1>2, <1>3, <2>1 DEF SInv, TypeOK
<1>5. Chosen'
  BY <1>1 DEF NextPc, Chosen
<1> DEFINE f == Cardinality(Fds)  n == Cardinality(Timers)  r == Cardinality(rfds)  r1 == Cardinality(rfds')
<1>6. f \in Nat /\ n \in Nat /\ r \in 0 .. f + 1 /\ r1 = r - 1 /\ r1 \in Nat
  <2>1. f \in Nat /\ n \in Nat /\ r \in 0 .. f + 1 /\ IsFiniteSet(rfds)
    BY Sizes DEF SInv, TypeOK
  <2>2. r1 = r - 1 /\ IsFiniteSet(rfds')
    BY <1>1, <2>1, FS_RemoveElement
  <2> QED BY <2>1, <2>2, FS_CardinalityType
<1>7. ASSUME NEW t \in Timers PROVE Lateness(t)'
  <2> DEFINE b1 == Cardinality(Before(t)')
  <2>0. b1 \in Nat /\ b1 < n
    <3>1. Before(t)' \subseteq Timers \ {t}
      BY <1>2 DEF Before
    <3>2. Cardinality(Timers \ {t}) = n - 1 /\ IsFiniteSet(Timers \ {t})
      BY FS_RemoveElement
    <3>3. IsFiniteSet(Before(t)') /\ b1 <= Cardinality(Timers \ {t})
      BY <3>1, <3>2, FS_Subset
    <3> QED BY <1>6, <3>2, <3>3, FS_CardinalityType
  <2> HIDE DEF f, n, r, r1, b1
  <2>1. left[t] \in Int /\ left[t] >= - MaxBusy * (f + 1 - r) - busy
    BY <1>1 DEF SInv, TypeOK, Lateness, f, r
  <2>3. ASSUME NEW m \in Nat, f + 1 - r < m PROVE left'[t] >= - MaxBusy * m - busy'
    <3>1. left[t] >= - MaxBusy * m
      BY <1>6, <2>1, <2>3, OneMore, f + 1 - r \in Nat DEF SInv
    <3>2. MaxBusy * m \in Nat /\ - MaxBusy * m = - (MaxBusy * m)
      BY Products
    <3> QED BY <1>2, <2>1, <3>1, <3>2
  <2>4. f + 1 - r1 \in Nat /\ f + 1 - r < f + 1 - r1
    BY <1>6
  <2>5. left'[t] >= - MaxBusy * (f + 1 - r1) - busy'
    BY <2>3, <2>4
  <2>6. CASE pc' = "dispatch"
    BY <2>5, <2>6 DEF Lateness, f, r1
  <2>7. CASE pc' = "scan"
    <3>1. r = 1
      <4>1. rfds' = {}
        BY <1>1, <2>7 DEF NextPc
      <4> QED BY <1>6, <4>1, FS_EmptySet DEF r1
    <3>2. f + n - b1 \in Nat /\ f + 1 - r < f + n - b1
      BY <1>6, <2>0, <3>1
    <3>3. left'[t] >= - MaxBusy * (f + n - b1) - busy'
      BY <2>3, <3>2
    <3> QED BY <2>7, <3>3 DEF Lateness, f, n, b1
  <2> QED BY <1>1, <2>6, <2>7 DEF NextPc
<1> QED BY <1>4, <1>5, <1>7 DEF SInv

LEMMA ExpireKeeps ==
  ASSUME SInv, NEW e \in Timers, Expire(e)
  PROVE  SInv'
<1> DEFINE l == [left EXCEPT ![e] = NewExpireTime(e)]
<1>0. /\ pc = "expire" /\ chosen = e /\ pc' = "scan" /\ Callback(l, pipe)
      /\ UNCHANGED <<ready, chosen, wait, rfds, steps>>
  BY DEF Expire
<1>1. NewExpireTime(e) \in Nat
  BY DEF NewExpireTime, SInv, TypeOK
<1>2. l \in [Timers -> Int] /\ l[e] >= 0 /\ \A t \in Timers \ {e} : l[t] = left[t]
  BY <1>1 DEF SInv, TypeOK
<1>3. /\ left' \in [Timers -> Int] /\ busy' = 0
      /\ \A t \in Timers : left'[t] = l[t] \/ left'[t] > 0
  <2> HIDE DEF l
  <2> QED BY <1>0, <1>2, CallbackDelays
<1> HIDE DEF l
<1>4. \A t \in Timers : left'[t] \in Int /\ left[t] \in Int /\ (left'[t] >= 0 \/ (t /= e /\ left'[t] = left[t]))
  BY <1>2, <1>3 DEF SInv, TypeOK
<1>5. TypeOK'
  BY <1>0, <1>3 DEF SInv, TypeOK, Callback
<1>6. Chosen'
  BY <1>0 DEF Chosen
<1>7. ASSUME NEW t \in Timers PROVE Lateness(t)'
  <2> DEFINE f == Cardinality(Fds)  n == Cardinality(Timers)
             b == Cardinality(Before(t))  b1 == Cardinality(Before(t)')
  <2>1. f \in Nat /\ n \in Nat /\ b \in Nat /\ b < n /\ IsFiniteSet(Before(t))
    BY Sizes, BeforeIsSmall DEF SInv
  <2>2. b1 \in 0 .. n
    BY Sizes DEF Before
  <2>3. CASE left'[t] >= 0
    <3>1. f + n - b1 \in Nat
      BY <2>1, <2>2
    <3>2. MaxBusy * (f + n - b1) \in Nat /\ - MaxBusy * (f + n - b1) = - (MaxBusy * (f + n - b1))
      BY <3>1, Products
    <3> HIDE DEF f, n, b1
    <3>3. left'[t] >= - MaxBusy * (f + n - b1) - busy'
      BY <1>3, <1>4, <2>3, <3>2
    <3> QED BY <1>0, <3>3 DEF Lateness, f, n, b1
  <2>4. CASE left'[t] < 0
    <3>1. t /= e /\ left'[t] = left[t]
      BY <1>4, <2>4
    <3>2. e \in Before(t)
      <4>1. ~ (left[t] < left[e] \/ (left[t] = left[e] /\ t < e))
        BY <1>0 DEF SInv, Chosen, Before
      <4> QED BY <1>4, <3>1, <4>1 DEF Before
    <3>3. Before(t)' \subseteq Before(t) \ {e}
      <4> SUFFICES ASSUME NEW u \in Timers, left'[u] < left'[t] \/ (left'[u] = left'[t] /\ u < t)
                   PROVE  u \in Before(t) /\ u /= e
        BY DEF Before
      <4>1. left'[u] < 0
        BY <1>4, <2>4
      <4>2. u /= e /\ left'[u] = left[u]
        BY <1>4, <4>1
      <4> QED BY <3>1, <4>2 DEF Before
    <3>4. b1 <= b - 1
      <4>1. Cardinality(Before(t) \ {e}) = b - 1 /\ IsFiniteSet(Before(t) \ {e})
        BY <2>1, <3>2, FS_RemoveElement
      <4> QED BY <3>3, <4>1, FS_Subset
    <3>5. left[t] >= - MaxBusy * (f + n - b) - busy
      BY <1>0 DEF SInv, Lateness
    <3>6. f + n - b \in Nat /\ f + n - b1 \in Nat /\ f + n - b < f + n - b1
      BY <2>1, <2>2, <3>4
    <3> HIDE DEF f, n, b, b1
    <3>7. left[t] >= - MaxBusy * (f + n - b1)
      BY <1>4, <3>5, <3>6, OneMore DEF SInv
    <3>8. MaxBusy * (f + n - b1) \in Nat /\ - MaxBusy * (f + n - b1) = - (MaxBusy * (f + n - b1))
      BY <3>6, Products
    <3>9. left'[t] >= - MaxBusy * (f + n - b1) - busy'
      BY <1>3, <1>4, <3>1, <3>7, <3>8
    <3> QED BY <1>0, <3>9 DEF Lateness, f, n, b1
  <2> QED BY <1>4, <2>3, <2>4
<1> QED BY <1>5, <1>6, <1>7 DEF SInv

LEMMA ArrivalsKeep ==
  ASSUME SInv, Enqueue \/ \E f \in Fds : DataArrives(f)
  PROVE  SInv'
<1>1. UNCHANGED <<left, pc, chosen, wait, rfds, busy, steps>>
      /\ ready' \subseteq Fds /\ pipe' \in 0 .. MaxPipe /\ pipe' >= pipe
  BY DEF Enqueue, DataArrives, SInv, TypeOK
<1>2. \A t \in Timers : Before(t)' = Before(t)
  BY <1>1 DEF Before
<1>3. TypeOK'
  BY <1>1 DEF SInv, TypeOK
<1>4. Chosen'
  <2>1. pipe > 0 => pipe' > 0
    BY <1>1 DEF SInv, TypeOK
  <2>2. chosen' /= None => chosen \in Timers
    BY <1>1 DEF SInv, TypeOK
  <2> QED BY <1>1, <1>2, <2>1, <2>2 DEF SInv, Chosen
<1>5. \A t \in Timers : Lateness(t)'
  BY <1>1, <1>2 DEF SInv, Lateness
<1> QED BY <1>3, <1>4, <1>5 DEF SInv

LEMMA NextKeeps == SInv /\ [Next]_vars => SInv'
<1> SUFFICES ASSUME SInv, [Next]_vars PROVE SInv'
  OBVIOUS
<1>1. CASE Scan
  BY <1>1, ScanKeeps
<1>2. CASE Select \/ SelectTimeout \/ NotExpired
  BY <1>2, SelectKeeps
<1>3. CASE ServePipe \/ \E f \in Fds : ServeFd(f)
  BY <1>3, ServeKeeps
<1>4. CASE \E t \in Timers : Expire(t)
  BY <1>4, ExpireKeeps
<1>5. CASE Tick
  BY <1>5, TickKeeps
<1>6. CASE ClockSetBack
  BY <1>6, ClockKeeps
<1>7. CASE Enqueue \/ \E f \in Fds : DataArrives(f)
  BY <1>7, ArrivalsKeep
<1>8. CASE UNCHANGED vars
  BY <1>8 DEF vars, SInv, TypeOK, Chosen, Lateness, Before
<1> QED BY <1>1, <1>2, <1>3, <1>4, <1>5, <1>6, <1>7, <1>8 DEF Next, Run

\* Only the clock puts a timer off: request() and reset() leave it an interval at most.
LEMMA PutOffKeeps == TypeOK /\ PutOff /\ [Next]_vars => PutOff'
<1> SUFFICES ASSUME TypeOK, PutOff, [Next]_vars, NEW t \in Repeating
             PROVE  left'[t] <= Interval[t] + Step * steps'
  BY DEF PutOff
<1>1. /\ t \in Timers /\ left \in [Timers -> Int] /\ left[t] \in Int /\ Interval[t] \in Nat
      /\ steps \in Nat /\ left[t] <= Interval[t] + Step * steps
  BY DEF TypeOK, PutOff
<1>2. Step * steps \in Nat /\ Step * (steps + 1) = Step * steps + Step
  BY <1>1
<1>3. CASE Tick
  BY <1>1, <1>2, <1>3 DEF Tick
<1>4. CASE ClockSetBack
  BY <1>1, <1>2, <1>4 DEF ClockSetBack
<1>5. ASSUME NEW l \in [Timers -> Int], NEW p, Callback(l, p), steps' = steps,
             l[t] <= Interval[t] + Step * steps
      PROVE  left'[t] <= Interval[t] + Step * steps'
  <2>1. left' \in {l} \cup {[l EXCEPT ![u] = Interval[u]] : u \in Reset}
    BY <1>5 DEF Callback
  <2>2. left'[t] = l[t] \/ left'[t] = Interval[t]
    BY <1>1, <2>1
  <2> QED BY <1>1, <1>2, <1>5, <2>2
<1>6. CASE ServePipe \/ \E f \in Fds : ServeFd(f)
  BY <1>1, <1>5, <1>6 DEF ServePipe, ServeFd
<1>7. ASSUME NEW e \in Timers, Expire(e) PROVE left'[t] <= Interval[t] + Step * steps'
  <2> DEFINE l == [left EXCEPT ![e] = NewExpireTime(e)]
  <2>1. Callback(l, pipe) /\ steps' = steps /\ left[e] <= 0 /\ left[e] \in Int
    BY <1>1, <1>7 DEF Expire
  <2>2. NewExpireTime(e) \in Int /\ (e = t => NewExpireTime(e) <= Interval[e])
    BY <1>1, <2>1 DEF NewExpireTime
  <2>3. l \in [Timers -> Int] /\ l[t] <= Interval[t] + Step * steps
    BY <1>1, <1>2, <2>2
  <2> HIDE DEF l
  <2> QED BY <1>5, <2>1, <2>3
<1>8. Scan \/ Select \/ SelectTimeout \/ NotExpired \/ Enqueue \/ (\E f \in Fds : DataArrives(f))
        \/ UNCHANGED vars => UNCHANGED <<left, steps>>
  BY DEF Scan, Select, SelectTimeout, NotExpired, Enqueue, DataArrives, vars
<1>9. CASE UNCHANGED <<left, steps>>
  BY <1>1, <1>9
<1> QED BY <1>3, <1>4, <1>6, <1>7, <1>8, <1>9 DEF Next, Run

-------------------------------------------------------------------------------
(* The theorems *)

\* The inductive invariant: how late each timer is where the loop stands, which grows with
\* every callback served before it and with nothing else (limero.cpp:106-181).
THEOREM LoopInvariance == Spec => []SInv
  BY InitEstablishes, NextKeeps, PTL DEF Spec

\* A due timer is served within one round of callbacks by the clock, whatever the
\* descriptors, the pipe and the other timers do, and a clock that is set back puts a
\* repeating one off by as much as that and no more (limero.cpp:148-166, limero.h:476-482).
THEOREM TimersPunctual == Spec => []LInv
<1>1. Init => PutOff
  <2>1. Step * 0 = 0
    OBVIOUS
  <2> QED BY <2>1 DEF Init, PutOff
<1>2. SInv => TypeOK /\ Punctual
  BY LateAtMost DEF SInv, Punctual, Bound
<1>3. SInv /\ PutOff => LInv
  BY <1>2 DEF LInv
<1> QED BY <1>1, <1>2, <1>3, PutOffKeeps, LoopInvariance, PTL DEF Spec

-------------------------------------------------------------------------------
(* Cache *)

\* What a value waits, the silence and the time between two emissions, each with what is
\* left of the timer, are bounded; a ValueFlow whose value is not on its way knows why.
Timely ==
  /\ unsent => waiting + timer <= Minimum
  /\ sent /= NoValue => age + timer <= Maximum + Minimum /\ sinceSend = age
  /\ ~ unsent => sent = held
  /\ sinceSend \in {Future, age} \/ age = Late
  /\ gap >= Minimum \/ age + timer >= Minimum
  /\ value = held \/ wakeups > 0 \/ mustEnqueue /= {} \/ overflow

CInv == CacheTypeOK /\ Timely /\ Limited
USE CacheAssumption, PipeAssumption DEF Silence, Late, Future

LEMMA InitCache == CacheInit => CInv
<1> SUFFICES ASSUME CacheInit PROVE CInv
  OBVIOUS
<1>0. unsent \in BOOLEAN /\ overflow \in BOOLEAN
  BY DEF CacheInit
<1>1. CacheTypeOK
  BY <1>0 DEF CacheInit, CacheTypeOK
<1>2. Timely
  BY DEF CacheInit, Timely
<1>3. Limited
  BY DEF CacheInit, Limited
<1> QED BY <1>1, <1>2, <1>3 DEF CInv

-------------------------------------------------------------------------------
(* The actions *)

LEMMA SettersKeep ==
  ASSUME CInv, NEW s \in Setters,
         (\E v \in Values : Assign(s, v)) \/ EnqueueFlow(s) \/ EnqueueOverflow(s)
  PROVE  CInv'
<1>1. UNCHANGED <<clock, held, unsent, sent, gap, span>>
  BY DEF Assign, EnqueueFlow, EnqueueOverflow
<1>2. CacheTypeOK'
  <2>1. CASE \E v \in Values : Assign(s, v)
    BY <2>1 DEF CInv, CacheTypeOK, Assign, clock
  <2>2. CASE EnqueueFlow(s)
    BY <2>2 DEF CInv, CacheTypeOK, EnqueueFlow, clock
  <2>3. CASE EnqueueOverflow(s)
    BY <2>3 DEF CInv, CacheTypeOK, EnqueueOverflow, clock
  <2> QED BY <2>1, <2>2, <2>3
<1>3. (value = held \/ wakeups > 0 \/ mustEnqueue /= {} \/ overflow)'
  BY <1>1 DEF CInv, CacheTypeOK, Timely, Assign, EnqueueFlow, EnqueueOverflow
<1> QED BY <1>1, <1>2, <1>3 DEF CInv, Timely, Limited, clock

LEMMA EmitKeeps ==
  ASSUME CInv, NEW v \in Values \cup {NoValue}, Emit(v),
         held' = v, sinceSend' = 0,
         \/ sinceSend > Minimum /\ timer' = timer
         \/ timer <= 0 /\ timer' = Minimum
  PROVE  /\ unsent' = FALSE /\ sent' = v
         /\ waiting' = 0 /\ age' = 0 /\ gap' \in 0 .. Late /\ span' \in 0 .. 2 * Late
         /\ timer' \in - Slack .. Minimum
         /\ gap' >= Minimum \/ age' + timer' >= Minimum
         /\ Limited'
  BY DEF CInv, CacheTypeOK, Timely, Limited, Emit

LEMMA InvokeKeeps == CInv /\ Invoke => CInv'
<1> SUFFICES ASSUME CInv, Invoke PROVE CInv'
  OBVIOUS
<1>1. /\ value \in Values \cup {NoValue} /\ held' = value /\ value' = value /\ timer' = timer
      /\ (mustEnqueue \subseteq Setters)' /\ wakeups' \in 0 .. PipeCapacity
      /\ others' \in 0 .. PipeCapacity - wakeups' /\ overflow' \in BOOLEAN
  BY DEF CInv, CacheTypeOK, Invoke, OnValue
<1>2. CASE sinceSend > Minimum
  <2>1. Emit(value) /\ sinceSend' = 0
    BY <1>2 DEF Invoke, OnValue
  <2>2. /\ unsent' = FALSE /\ sent' = value
        /\ waiting' = 0 /\ age' = 0 /\ gap' \in 0 .. Late /\ span' \in 0 .. 2 * Late
        /\ timer' \in - Slack .. Minimum
        /\ gap' >= Minimum \/ age' + timer' >= Minimum
        /\ Limited'
    BY <1>1, <1>2, <2>1, EmitKeeps
  <2>3. CacheTypeOK'
    <3>1. unsent' \in BOOLEAN
      BY <2>2
    <3>2. sinceSend' \in {Future} \cup 0 .. Late /\ waiting' \in 0 .. Late /\ age' \in 0 .. Late
      BY <2>1, <2>2
    <3>3. value' \in Values \cup {NoValue} /\ held' \in Values \cup {NoValue}
          /\ sent' \in Values \cup {NoValue}
      BY <1>1, <2>2
    <3> QED BY <1>1, <2>2, <3>1, <3>2, <3>3 DEF CacheTypeOK
  <2>4. Timely'
    BY <1>1, <2>1, <2>2 DEF Timely
  <2> QED BY <2>2, <2>3, <2>4 DEF CInv
<1>3. CASE ~ (sinceSend > Minimum)
  <2>1. Keep
    BY <1>3 DEF Invoke, OnValue
  <2>2. CacheTypeOK'
    <3>1. unsent' \in BOOLEAN
      BY <2>1 DEF Keep
    <3>2. waiting' \in 0 .. Late
      BY <2>1 DEF Keep, CInv, CacheTypeOK
    <3> QED BY <1>1, <2>1, <3>1, <3>2 DEF Keep, CInv, CacheTypeOK
  <2>3. Timely'
    BY <1>1, <2>1 DEF Keep, CInv, CacheTypeOK, Timely
  <2> QED BY <2>1, <2>2, <2>3 DEF Keep, CInv, Limited
<1> QED BY <1>2, <1>3

LEMMA OnTimerKeeps == CInv /\ OnTimer => CInv'
<1> SUFFICES ASSUME CInv, OnTimer PROVE CInv'
  OBVIOUS
<1>1. held' = held /\ timer <= 0 /\ timer' = Minimum /\ UNCHANGED flow
  BY DEF OnTimer
<1>2. CASE Due
  <2>1. Emit(held) /\ sinceSend' = 0 /\ held \in Values \cup {NoValue}
    BY <1>2 DEF OnTimer, CInv, CacheTypeOK
  <2>2. /\ unsent' = FALSE /\ sent' = held
        /\ waiting' = 0 /\ age' = 0 /\ gap' \in 0 .. Late /\ span' \in 0 .. 2 * Late
        /\ timer' \in - Slack .. Minimum
        /\ gap' >= Minimum \/ age' + timer' >= Minimum
        /\ Limited'
    BY <1>1, <2>1, EmitKeeps
  <2>3. CacheTypeOK'
    <3>1. unsent' \in BOOLEAN
      BY <2>2
    <3> QED BY <1>1, <2>1, <2>2, <3>1 DEF flow, CInv, CacheTypeOK
  <2>4. Timely'
    BY <1>1, <2>1, <2>2 DEF flow, CInv, Timely
  <2> QED BY <2>2, <2>3, <2>4 DEF CInv
<1>3. CASE ~ Due
  <2>1. UNCHANGED <<unsent, sent, waiting, sinceSend, age, gap, span>>
    BY <1>3 DEF OnTimer
  <2> QED BY <1>1, <1>3, <2>1 DEF Due, flow, CInv, CacheTypeOK, Timely, Limited
<1> QED BY <1>2, <1>3

LEMMA CacheTickKeeps == CInv /\ CacheTick => CInv'
  BY DEF CacheTick, Later, flow, CInv, CacheTypeOK, Timely, Limited

LEMMA NextKeepsCache == CInv /\ [CacheNext]_cacheVars => CInv'
<1> SUFFICES ASSUME CInv, [CacheNext]_cacheVars PROVE CInv'
  OBVIOUS
<1>1. CASE \E s \in Setters : (\E v \in Values : Assign(s, v)) \/ EnqueueFlow(s) \/ EnqueueOverflow(s)
  BY <1>1, SettersKeep
<1>2. CASE OtherFlow
  BY <1>2 DEF OtherFlow, clock, CInv, CacheTypeOK, Timely, Limited
<1>3. CASE Invoke
  BY <1>3, InvokeKeeps
<1>4. CASE OnTimer
  BY <1>4, OnTimerKeeps
<1>5. CASE CacheTick
  BY <1>5, CacheTickKeeps
<1>6. CASE UNCHANGED cacheVars
  BY <1>6 DEF cacheVars, flow, clock, CInv, CacheTypeOK, Timely, Limited
<1> QED BY <1>1, <1>2, <1>3, <1>4, <1>5, <1>6 DEF CacheNext

-------------------------------------------------------------------------------
(* The theorems *)

\* The bounds of Timely hold in every behaviour (limero.h:611-660, 824-848).
THEOREM CacheInvariance == CacheSpec => []CInv
  BY InitCache, NextKeepsCache, PTL DEF CacheSpec

\* A value that was assigned is emitted or on its way, or a wakeup was refused and
\* counted (limero.h:631-642, 839-847).
THEOREM NothingForgotten == CacheSpec => []VInv
<1>1. CInv => VInv
  BY DEF CInv, CacheTypeOK, Timely, VInv, NewestOnItsWay
<1> QED BY <1>1, CacheInvariance, PTL

\* Three emissions take the minimum at least (limero.h:631-659).
THEOREM RateLimited == CacheSpec => []Limited
<1>1. CInv => Limited
  BY DEF CInv
<1> QED BY <1>1, CacheInvariance, PTL

\* Values wait the minimum at most, and the silence is bounded (limero.h:643-659).
THEOREM PromptAndAlive == CacheSpec => []Prompt
<1>1. CInv => Prompt
  BY DEF CInv, CacheTypeOK, Timely, Prompt
<1> QED BY <1>1, CacheInvariance, PTL
===============================================================================
