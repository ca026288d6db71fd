---------------------------- MODULE ClientProofs ----------------------------
(***************************************************************************)
(* Theorems about the microcontroller's flows and wakeups (Client), for    *)
(* any sizes of its queues and any intervals of its timers.                *)
(***************************************************************************)
EXTENDS Client, TLAPS

USE SizeAssumption, IntervalAssumption

\* The states a callback builds up are such as the invariant speaks of.
Fits(s) ==
  /\ s \in [elements : [Queues -> Nat], work : [Invokers -> Nat]]
  /\ s.elements["outgoing"] < OutgoingSize /\ s.elements["incoming"] < IncomingSize
  /\ Wakeups(s.work) < WorkSize
  /\ \A q \in Queues : s.work[q] <= s.elements[q]

Debt(s, q) == s.elements[q] - s.work[q]

\* From s to r a callback has stranded elements only when the work queue was full.
Strands(s, r) ==
  \A q \in Queues :
    \/ Debt(r, q) = Debt(s, q)
    \/ Debt(r, q) > Debt(s, q) /\ Wakeups(r.work) = WorkSize - 1

\* enqueue of the signal that connected was assigned, full work queue or not.
LEMMA SignalFits ==
  ASSUME NEW s, Fits(s), NEW r, r = Enqueue(s, "connected")
  PROVE  /\ Fits(r) /\ r.elements = s.elements
         /\ \A q \in Queues : r.work[q] = s.work[q]
         /\ r.work["connected"] = s.work["connected"] + (IF Room(s) THEN 1 ELSE 0)
         /\ Wakeups(s.work) <= Wakeups(r.work)
<1>1. CASE Room(s)
  <2>1. r = [elements |-> s.elements, work |-> [s.work EXCEPT !["connected"] = @ + 1]]
    BY <1>1 DEF Fits, Enqueue
  <2> QED BY <1>1, <2>1 DEF Fits, Room, Usable, Wakeups, Invokers, Queues
<1>2. CASE ~ Room(s)
  BY <1>2 DEF Fits, Enqueue, Room, Wakeups, Invokers, Queues
<1> QED BY <1>1, <1>2

\* on() pushes and enqueues: an element without wakeup only if the work queue is full.
LEMMA OnFits ==
  ASSUME NEW s, Fits(s), NEW q \in Queues, NEW r, r = On(s, q)
  PROVE  /\ Fits(r) /\ Strands(s, r)
         /\ r.work["connected"] = s.work["connected"]
         /\ Wakeups(s.work) <= Wakeups(r.work)
<1> DEFINE pushed == [s.elements EXCEPT ![q] = @ + 1]
<1>1. CASE s.elements[q] < Capacity(q) /\ Room(s)
  <2>1. r = [elements |-> pushed, work |-> [s.work EXCEPT ![q] = @ + 1]]
    BY <1>1 DEF On, Enqueue, Room, Fits
  <2> QED BY <1>1, <2>1 DEF Fits, Strands, Debt, Capacity, Room, Usable, Wakeups, Invokers, Queues
<1>2. CASE s.elements[q] < Capacity(q) /\ ~ Room(s)
  <2>1. r = [elements |-> pushed, work |-> s.work]
    BY <1>2 DEF On, Enqueue, Room, Fits
  <2> QED BY <1>2, <2>1 DEF Fits, Strands, Debt, Capacity, Room, Usable, Wakeups, Invokers, Queues
<1>3. CASE ~ (s.elements[q] < Capacity(q))
  BY <1>3 DEF Fits, Strands, Debt, On, Wakeups, Invokers, Queues
<1> QED BY <1>1, <1>2, <1>3

-------------------------------------------------------------------------------

\* What each step of the microcontroller does to its queues.
Settled ==
  /\ Strands(State, State')
  /\ LedAgrees => LedAgrees'

LEMMA StateFits == CInv => Fits(State)
  BY DEF CInv, TypeOK, WakeupsFindData, Fits, State

LEMMA FitsState ==
  ASSUME CInv, NEW r, Fits(r), Store(r)
  PROVE  /\ State' = r
         /\ elements' \in [Queues -> Nat] /\ work' \in [Invokers -> Nat]
         /\ elements'["outgoing"] < OutgoingSize /\ elements'["incoming"] < IncomingSize
         /\ Wakeups(work') < WorkSize /\ WakeupsFindData'
<1>1. r = [elements |-> r.elements, work |-> r.work]
  BY DEF Fits
<1> QED BY <1>1 DEF Fits, Store, State, WakeupsFindData

LEMMA LeftReloads ==
  ASSUME CInv, NEW t \in Timers, Reload(t)
  PROVE  left' \in [Timers -> Nat] /\ \A u \in Timers : left'[u] <= Interval[u]
  BY DEF CInv, TypeOK, Reload, Timers, Interval

\* Serving a wakeup: its invoker takes the element that came with it.
LEMMA PoppedFits ==
  ASSUME CInv, NEW i \in Invokers, work[i] > 0, NEW r,
         r = IF i \in Queues THEN Taken(i) ELSE Popped(i)
  PROVE  /\ Fits(r) /\ Strands(State, r) /\ Room(r)
         /\ i \in Queues => elements[i] > 0 /\ r.work["connected"] = work["connected"]
<1>1. CASE i \in Queues
  <2>1. /\ r = [elements |-> [elements EXCEPT ![i] = @ - 1], work |-> [work EXCEPT ![i] = @ - 1]]
        /\ elements[i] > 0
    <3>1. Popped(i) = [elements |-> elements, work |-> [work EXCEPT ![i] = @ - 1]]
      BY DEF Popped, State
    <3> QED BY <1>1, <3>1 DEF CInv, TypeOK, WakeupsFindData, Taken, Invokers
  <2> QED BY <1>1, <2>1 DEF CInv, TypeOK, WakeupsFindData, Fits, Strands, Debt, State, Room, Usable,
                            Wakeups, Invokers, Queues
<1>2. CASE i \notin Queues
  <2>1. r = [elements |-> elements, work |-> [work EXCEPT ![i] = @ - 1]]
    BY <1>2 DEF CInv, TypeOK, Popped, State
  <2>2. i = "connected"
    BY <1>2 DEF Invokers
  <2> QED BY <2>1, <2>2 DEF CInv, TypeOK, WakeupsFindData, Fits, Strands, Debt, State, Room, Usable,
                            Wakeups, Invokers, Queues
<1> QED BY <1>1, <1>2

LEMMA InitC == Init => CInv /\ LedAgrees
<1> SUFFICES ASSUME Init PROVE CInv /\ LedAgrees
  OBVIOUS
<1>1. left \in [Timers -> Nat] /\ \A t \in Timers : left[t] <= Interval[t]
  BY DEF Init, Timers, Interval
<1>2. /\ work \in [Invokers -> Nat] /\ work["outgoing"] = 0 /\ work["incoming"] = 0
      /\ work["connected"] = IF WorkSize > 1 THEN 1 ELSE 0
  BY DEF Init, Invokers, Queues
<1>3. {signalled, slow, connected, served} \subseteq BOOLEAN /\ slow = connected
  BY DEF Init
<1>4. elements \in [Queues -> Nat] /\ \A q \in Queues : elements[q] = 0
  BY DEF Init
<1>5. TypeOK
  BY <1>1, <1>2, <1>3, <1>4 DEF TypeOK, Wakeups, Queues
<1>6. WakeupsFindData
  BY <1>2, <1>4 DEF WakeupsFindData, Queues
<1> QED BY <1>3, <1>5, <1>6 DEF CInv, LedAgrees

\* Strands is transitive as long as the number of wakeups does not fall.
LEMMA StrandsOn ==
  ASSUME NEW r, NEW s, NEW u, Fits(r), Fits(s), Fits(u),
         Strands(r, s), Strands(s, u), Wakeups(s.work) <= Wakeups(u.work)
  PROVE  Strands(r, u)
  BY DEF Strands, Debt, Fits, Wakeups, Invokers, Queues

\* connected is assigned on top of what the callback has done: the LED has its signal or
\* the loss is noted.
LEMMA AssignFits ==
  ASSUME CInv, NEW s, Fits(s), NEW value \in BOOLEAN, Assign(s, value), slow' = slow
  PROVE  /\ Fits(State') /\ WakeupsFindData' /\ Strands(s, State')
         /\ connected' \in BOOLEAN /\ signalled' \in BOOLEAN /\ LedAgrees'
<1> DEFINE r == Enqueue(s, "connected")
<1>1. /\ Fits(r) /\ r.elements = s.elements
      /\ \A q \in Queues : r.work[q] = s.work[q]
      /\ r.work["connected"] = s.work["connected"] + (IF Room(s) THEN 1 ELSE 0)
  BY SignalFits
<1>2. State' = r /\ WakeupsFindData' /\ Store(r)
  BY <1>1, FitsState DEF Assign
<1>3. Strands(s, r)
  BY <1>1 DEF Strands, Debt, Fits, Invokers, Queues
<1>4. LedAgrees'
  BY <1>1, <1>2 DEF Assign, LedAgrees, Store, Fits, Invokers, Queues
<1> QED BY <1>1, <1>2, <1>3, <1>4 DEF Assign, Room

\* Every step keeps the invariant and the agreement of the LED, and strands elements only
\* when the work queue is full.
LEMMA NextC ==
  ASSUME CInv, [Next]_vars
  PROVE  CInv' /\ Settled
<1> USE DEF Settled
<1>0. Fits(State)
  BY StateFits
<1>1. CASE LoopbackTimer
  <2> DEFINE r == On(State, "outgoing")
  <2>1. Fits(r) /\ Strands(State, r) /\ r.work["connected"] = work["connected"]
    BY <1>0, OnFits DEF Queues, State
  <2>2. Store(r)
    BY <1>1 DEF LoopbackTimer
  <2>3. CInv'
    BY <1>1, <2>1, <2>2, FitsState, LeftReloads DEF LoopbackTimer, Reload, CInv, TypeOK, Timers
  <2> QED BY <1>1, <2>1, <2>2, <2>3, FitsState DEF LoopbackTimer, Reload, LedAgrees, Store
<1>2. CASE AliveTimer
  <2> DEFINE s == On(State, "outgoing")
             r == IF connected THEN On(s, "outgoing") ELSE State
  <2>1. /\ Fits(s) /\ Strands(State, s) /\ s.work["connected"] = work["connected"]
    BY <1>0, OnFits DEF Queues, State
  <2>2. CASE connected
    <3>1. /\ Fits(r) /\ Strands(s, r) /\ r.work["connected"] = work["connected"]
          /\ Wakeups(s.work) <= Wakeups(r.work)
      BY <2>1, <2>2, OnFits DEF Queues
    <3>2. Strands(State, r)
      BY <1>0, <2>1, <3>1, StrandsOn
    <3>3. Store(r)
      BY <1>2 DEF AliveTimer
    <3>4. CInv'
      BY <1>2, <3>1, <3>3, FitsState, LeftReloads DEF AliveTimer, Reload, CInv, TypeOK, Timers
    <3> QED BY <1>2, <3>1, <3>2, <3>3, <3>4, FitsState DEF AliveTimer, Reload, LedAgrees, Store
  <2>3. CASE ~ connected
    <3>1. Store(State)
      BY <1>2, <2>3 DEF AliveTimer
    <3>2. CInv'
      BY <1>0, <1>2, <3>1, FitsState, LeftReloads DEF AliveTimer, Reload, CInv, TypeOK, Timers
    <3>3. Strands(State, State)
      BY DEF Strands, Debt
    <3> QED BY <1>0, <1>2, <3>1, <3>2, <3>3, FitsState
            DEF AliveTimer, Reload, LedAgrees, Store, State
  <2> QED BY <2>2, <2>3
<1>3. CASE ConnectTimer
  <2>1. slow' = slow /\ Assign(State, FALSE) /\ served' = served
    BY <1>3 DEF ConnectTimer, Reload
  <2>2. /\ Fits(State') /\ WakeupsFindData' /\ Strands(State, State')
        /\ connected' \in BOOLEAN /\ signalled' \in BOOLEAN /\ LedAgrees'
    BY <1>0, <2>1, AssignFits
  <2>3. CInv'
    BY <1>3, <2>1, <2>2, LeftReloads DEF ConnectTimer, CInv, TypeOK, Timers, Fits, State
  <2> QED BY <2>2, <2>3
<1>4. CASE InvokeOutgoing
  <2>1. work["outgoing"] > 0
    BY <1>4 DEF InvokeOutgoing, Invoked
  <2>2. /\ Fits(Taken("outgoing")) /\ Strands(State, Taken("outgoing"))
        /\ elements["outgoing"] > 0 /\ Taken("outgoing").work["connected"] = work["connected"]
    BY <2>1, PoppedFits DEF Invokers, Queues
  <2>3. Store(Taken("outgoing"))
    BY <1>4, <2>2 DEF InvokeOutgoing
  <2>4. CInv'
    BY <1>4, <2>2, <2>3, FitsState DEF InvokeOutgoing, Invoked, CInv, TypeOK
  <2> QED BY <1>4, <2>2, <2>3, <2>4, FitsState DEF InvokeOutgoing, LedAgrees, Store
<1>5. CASE InvokeIncoming
  <2> DEFINE t == Taken("incoming")
  <2>1. work["incoming"] > 0
    BY <1>5 DEF InvokeIncoming, Invoked
  <2>2. /\ Fits(t) /\ Strands(State, t) /\ Room(t)
        /\ elements["incoming"] > 0 /\ t.work["connected"] = work["connected"]
    BY <2>1, PoppedFits DEF Invokers, Queues
  <2>3. CASE /\ Assign(On(t, "outgoing"), TRUE)
             /\ left' = [left EXCEPT !["connect"] = ConnectInterval]
    <3> DEFINE s == On(t, "outgoing")
    <3>1. Fits(s) /\ Strands(t, s) /\ Wakeups(t.work) <= Wakeups(s.work)
      BY <2>2, OnFits DEF Queues
    <3>2. Strands(State, s)
      BY <1>0, <2>2, <3>1, StrandsOn
    <3>3. /\ Fits(State') /\ WakeupsFindData' /\ Strands(s, State')
          /\ connected' \in BOOLEAN /\ signalled' \in BOOLEAN /\ LedAgrees'
      BY <1>5, <2>3, <3>1, AssignFits DEF InvokeIncoming
    <3>4. State' = Enqueue(s, "connected")
      BY <2>3, <3>1, SignalFits, FitsState DEF Assign
    <3>5. Strands(State, State')
      BY <1>0, <3>1, <3>2, <3>3, <3>4, SignalFits, StrandsOn
    <3>6. left' \in [Timers -> Nat] /\ \A u \in Timers : left'[u] <= Interval[u]
      BY <2>3 DEF CInv, TypeOK, Timers, Interval
    <3>7. CInv'
      BY <1>5, <3>3, <3>6 DEF InvokeIncoming, Invoked, CInv, TypeOK, Fits, State
    <3> QED BY <3>3, <3>5, <3>7
  <2>4. CASE Store(t) /\ UNCHANGED <<connected, left, signalled>>
    <3>1. CInv'
      BY <1>5, <2>2, <2>4, FitsState DEF InvokeIncoming, Invoked, CInv, TypeOK
    <3> QED BY <1>5, <2>2, <2>4, <3>1, FitsState DEF InvokeIncoming, LedAgrees, Store
  <2> QED BY <1>5, <2>2, <2>3, <2>4 DEF InvokeIncoming
<1>6. CASE InvokeConnected
  <2> DEFINE r == Popped("connected")
  <2>1. work["connected"] > 0
    BY <1>6 DEF InvokeConnected, Invoked
  <2>2. Fits(r) /\ Strands(State, r)
    BY <2>1, PoppedFits DEF Invokers, Queues
  <2>3. Store(r)
    BY <1>6 DEF InvokeConnected
  <2>4. CInv'
    BY <1>6, <2>2, <2>3, FitsState DEF InvokeConnected, Invoked, CInv, TypeOK
  <2> QED BY <1>6, <2>2, <2>3, <2>4, FitsState DEF InvokeConnected, LedAgrees
<1>7. CASE Receive
  <2> DEFINE r == On(State, "incoming")
  <2>1. Fits(r) /\ Strands(State, r) /\ r.work["connected"] = work["connected"]
    BY <1>0, OnFits DEF Queues, State
  <2>2. Store(r)
    BY <1>7 DEF Receive
  <2>3. CInv'
    BY <1>7, <2>1, <2>2, FitsState DEF Receive, CInv, TypeOK
  <2> QED BY <1>7, <2>1, <2>2, <2>3, FitsState DEF Receive, LedAgrees, Store
<1>8. CASE Tick
  <2>1. CInv'
    <3>1. left' \in [Timers -> Nat] /\ \A t \in Timers : left'[t] <= Interval[t]
      BY <1>8 DEF Tick, Due, CInv, TypeOK, Timers, Interval
    <3> QED BY <1>8, <3>1 DEF Tick, CInv, TypeOK, WakeupsFindData, Wakeups
  <2> QED BY <1>8, <2>1 DEF Tick, Strands, Debt, State, LedAgrees
<1>9. CASE UNCHANGED vars
  BY <1>9 DEF vars, CInv, TypeOK, WakeupsFindData, Strands, Debt, State, LedAgrees
<1> QED BY <1>1, <1>2, <1>3, <1>4, <1>5, <1>6, <1>7, <1>8, <1>9 DEF Next, Expire

-------------------------------------------------------------------------------

\* The rings are never overfilled and no wakeup of the microcontroller finds its queue
\* empty, whatever the sizes (limero.h:186-231, 679-705; arduino_client/src/limero.cpp:26-31).
THEOREM ClientInvariance == Spec => []CInv
<1>1. CInv /\ [Next]_vars => CInv'
  BY NextC
<1> QED BY InitC, <1>1, PTL DEF Spec

\* The LED shows the connection unless its signal is under way or was lost (main.cpp:56).
THEOREM LedKeepsUp == Spec => []LedAgrees
<1>1. CInv /\ LedAgrees /\ [Next]_vars => CInv' /\ LedAgrees'
  BY NextC DEF Settled
<1> QED BY InitC, <1>1, PTL DEF Spec

\* Elements are stranded only by a full work queue, and for good (limero.cpp:26-31).
THEOREM OnlyFullWorkStrands == Spec => StrandedForGood
<1>1. CInv /\ [Next]_vars =>
        [\A q \in Queues :
           \/ Stranded(q)' = Stranded(q)
           \/ Stranded(q)' > Stranded(q) /\ Wakeups(work') = Usable(WorkSize)]_vars
  <2> SUFFICES ASSUME CInv, [Next]_vars, NEW q \in Queues
               PROVE  \/ Stranded(q)' = Stranded(q)
                      \/ Stranded(q)' > Stranded(q) /\ Wakeups(work') = Usable(WorkSize)
    OBVIOUS
  <2>1. Strands(State, State')
    BY NextC DEF Settled
  <2> QED BY <2>1 DEF Strands, Debt, State, Stranded, Usable
<1> QED BY ClientInvariance, <1>1, PTL DEF Spec, StrandedForGood
===============================================================================
