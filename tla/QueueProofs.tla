------------------------------ MODULE QueueProofs ------------------------------
(***************************************************************************)
(* Proofs about ArrayQueue, and about the QueueFlow built on it, for any   *)
(* finite set of threads, any set of values, any capacity of two or more,  *)
(* any bound on the indices and any size of the pipe.                      *)
(***************************************************************************)
EXTENDS QueueFlow, SequenceTheorems, FiniteSetTheorems, TLAPS

USE CapacityAssumption, BoundAssumption, ValueAssumption

(* Indices and slots *)

\* Division with remainder by the capacity.
LEMMA SlotDivision ==
  ASSUME NEW i \in Nat
  PROVE  /\ i \div Capacity \in Nat
         /\ Slot(i) \in Slots
         /\ i = (Capacity * (i \div Capacity)) + Slot(i)
BY SMT DEF Slot, Slots

\* The first Capacity indices are their own slots.
LEMMA FirstSlots ==
  ASSUME NEW i \in Slots
  PROVE  Slot(i) = i
<1> DEFINE q == i \div Capacity
<1>0. i \in Nat /\ i < Capacity
  BY DEF Slots
<1>1. q \in Nat /\ Slot(i) \in Slots /\ i = (Capacity * q) + Slot(i)
  BY <1>0, SlotDivision
<1> HIDE DEF q
<1>2. q >= 1 => Capacity * q >= Capacity
  BY <1>1, SMT
<1>3. q = 0
  BY <1>0, <1>1, <1>2, SMT DEF Slots
<1> QED
  BY <1>0, <1>1, <1>3, SMT DEF Slots

\* Two different indices less than Capacity apart have different slots.
LEMMA SlotsDiffer ==
  ASSUME NEW i \in Nat, NEW j \in Nat, i < j, j < i + Capacity
  PROVE  Slot(i) /= Slot(j)
<1> SUFFICES ASSUME Slot(i) = Slot(j) PROVE FALSE
  OBVIOUS
<1> DEFINE p == i \div Capacity
           q == j \div Capacity
<1>1. p \in Nat /\ q \in Nat
  BY SlotDivision
<1>2. Capacity * (q - p) = j - i
  BY SlotDivision, SMT DEF Slots
<1> HIDE DEF p, q
<1>3. q - p >= 1 => Capacity * (q - p) >= Capacity
  BY <1>1, SMT
<1>4. q - p <= 0 => Capacity * (q - p) <= 0
  BY <1>1, SMT
<1> QED
  BY <1>1, <1>2, <1>3, <1>4, SMT

\* The version a pop leaves behind is the next index of the same slot.
LEMMA SlotFreed ==
  ASSUME NEW i \in Nat
  PROVE  Freed(i) \in Nat /\ Slot(Freed(i)) = Slot(i)
<1> DEFINE j == i + Capacity
           p == i \div Capacity
           q == j \div Capacity
<1>1. j \in Nat /\ p \in Nat /\ q \in Nat
  BY SlotDivision, SMT
<1>2. /\ i = (Capacity * p) + Slot(i) /\ Slot(i) \in Slots
      /\ j = (Capacity * q) + Slot(j) /\ Slot(j) \in Slots
  BY SlotDivision, SMT
<1>3. Capacity * (q - (p + 1)) = Slot(i) - Slot(j)
  BY <1>1, <1>2, SMT DEF Slots
<1>4. -Capacity < Slot(i) - Slot(j) /\ Slot(i) - Slot(j) < Capacity
  BY <1>2, SMT DEF Slots
<1> HIDE DEF j, p, q
<1>5. q - (p + 1) >= 1 => Capacity * (q - (p + 1)) >= Capacity
  BY <1>1, SMT
<1>6. q - (p + 1) <= -1 => Capacity * (q - (p + 1)) <= -Capacity
  BY <1>1, SMT
<1>7. q = p + 1
  BY <1>1, <1>2, <1>3, <1>4, <1>5, <1>6, SMT DEF Slots
<1> QED
  BY <1>1, <1>2, <1>3, <1>7, SMT DEF Slots, Freed, j

(* The inductive invariant *)

LEMMA InitIInv == Init => IInv
<1> SUFFICES ASSUME Init PROVE IInv
  OBVIOUS
<1>1. TypeOK
  BY SMT DEF Init, TypeOK, Slots, Pushing
<1>2. Occupancy /\ Ownership /\ Claims
  BY SMT DEF Init, Occupancy, Ownership, Claims, Filling, Draining
<1>3. \A i \in Slots : version[Slot(i)] = i
  BY FirstSlots DEF Init
<1>4. Turns
  <2>1. head .. tail - 1 = {} /\ tail .. head + Capacity - 1 = Slots
    BY SMT DEF Init, Slots
  <2> QED
    BY <1>3, <2>1 DEF Turns
<1> QED
  BY <1>1, <1>2, <1>4 DEF IInv

\* Starting an operation and testing a version move no index and no slot.
LEMMA BeginStep ==
  ASSUME IInv, NEW t \in Threads, Begin(t)
  PROVE  IInv'
<1> USE DEF Begin, PushBegin, PopBegin, Goto, IInv
<1>1. TypeOK'
  BY SMT DEF TypeOK, Pushing
<1>2. Occupancy'
  BY SMT DEF TypeOK, Occupancy
<1>3. Ownership'
  BY SMT DEF TypeOK, Ownership, Filling, Draining
<1>4. Turns'
  BY SMT DEF TypeOK, Turns, BeingFilled, BeingDrained, Filling, Draining
<1>5. Claims'
  BY SMT DEF TypeOK, Claims
<1> QED
  BY <1>1, <1>2, <1>3, <1>4, <1>5

LEMMA TestStep ==
  ASSUME IInv, NEW t \in Threads,
         \/ PushFull(t) \/ PushCheck(t) \/ PushContended(t)
         \/ PopEmpty(t) \/ PopCheck(t) \/ PopContended(t)
  PROVE  IInv'
<1> USE DEF PushFull, PushCheck, PushContended, PopEmpty, PopCheck, PopContended,
            Return, Goto, IInv
<1>1. TypeOK'
  BY SMT DEF TypeOK, Pushing
<1>2. Occupancy'
  BY SMT DEF TypeOK, Occupancy
<1>3. Ownership'
  BY SMT DEF TypeOK, Ownership, Filling, Draining
<1>4. Turns'
  BY SMT DEF TypeOK, Turns, BeingFilled, BeingDrained, Filling, Draining
<1>5. Claims'
  BY SMT DEF TypeOK, Claims, MayFill, MayDrain
<1> QED
  BY <1>1, <1>2, <1>3, <1>4, <1>5

LEMMA PushCasStep ==
  ASSUME IInv, NEW t \in Threads, PushCas(t)
  PROVE  IInv'
<1> USE DEF PushCas, Goto, IInv
<1>1. TypeOK'
  BY SMT DEF TypeOK, Pushing
<1>a. /\ head \in Nat /\ tail \in Nat /\ head <= tail /\ tail <= head + Capacity
      /\ version[Slot(tail)] = tail
  BY SMT DEF TypeOK, Occupancy, Claims
\* The head of a full queue has the slot of tail, and cannot have its version.
<1>b. tail /= head + Capacity
  <2> SUFFICES ASSUME tail = head + Capacity PROVE FALSE
    OBVIOUS
  <2>1. version[Slot(head)] = tail
    BY <1>a, SlotFreed DEF Freed
  <2>2. version[Slot(head)] = head + 1 \/ BeingFilled(head)
    BY <1>a, SMT DEF Turns, Written
  <2>3. BeingFilled(head) => version[Slot(head)] = head
    BY DEF BeingFilled, Ownership
  <2> QED
    BY <1>a, <2>1, <2>2, <2>3, SMT
<1>2. Occupancy'
  BY <1>a, <1>b, SMT DEF Occupancy
\* Nor can the slot of a pop that is still reading.
<1>c. \A u \in Threads : pc[u] \in Draining => tail < idx[u] + Capacity
  <2> SUFFICES ASSUME NEW u \in Threads, pc[u] \in Draining
               PROVE  tail < idx[u] + Capacity
    OBVIOUS
  <2>1. idx[u] \in Nat /\ tail <= idx[u] + Capacity /\ version[Slot(idx[u])] = idx[u] + 1
    BY DEF TypeOK, Ownership, Written
  <2>2. tail = idx[u] + Capacity => Slot(idx[u]) = Slot(tail)
    BY <2>1, SlotFreed DEF Freed
  <2> QED
    BY <1>a, <2>1, <2>2, SMT
<1>3. Ownership'
  BY <1>a, <1>b, <1>c, SMT DEF TypeOK, Ownership, Filling, Draining
<1>4. Turns'
  BY SMT DEF TypeOK, Turns, BeingFilled, BeingDrained, Filling, Draining
<1>5. Claims'
  BY SMT DEF TypeOK, Claims
<1> QED
  BY <1>1, <1>2, <1>3, <1>4, <1>5

LEMMA PopCasStep ==
  ASSUME IInv, NEW t \in Threads, PopCas(t)
  PROVE  IInv'
<1> USE DEF PopCas, Goto, IInv
<1>1. TypeOK'
  BY SMT DEF TypeOK, Pushing, Draining
<1>a. /\ head \in Nat /\ tail \in Nat /\ head <= tail /\ tail <= head + Capacity
      /\ version[Slot(head)] = head + 1
  BY SMT DEF TypeOK, Occupancy, Claims, Written
\* In an empty queue the slot of head is free or still being read.
<1>b. tail /= head
  <2> SUFFICES ASSUME tail = head PROVE FALSE
    OBVIOUS
  <2>1. version[Slot(tail)] = tail \/ BeingDrained(tail - Capacity)
    BY <1>a, SMT DEF Turns
  <2>2. ASSUME NEW u \in Threads, pc[u] \in Draining, idx[u] = tail - Capacity
        PROVE  version[Slot(tail)] = idx[u] + 1
    <3>1. idx[u] \in Nat /\ Freed(idx[u]) = tail /\ version[Slot(idx[u])] = idx[u] + 1
      BY <1>a, <2>2, SMT DEF TypeOK, Ownership, Written, Freed
    <3> QED
      BY <3>1, SlotFreed
  <2> QED
    BY <1>a, <2>1, <2>2, SMT DEF BeingDrained
<1>2. Occupancy'
  BY <1>a, <1>b, SMT DEF Occupancy
\* The element at head is not being written.
<1>c. \A u \in Threads : pc[u] \in Filling => head < idx[u]
  <2> SUFFICES ASSUME NEW u \in Threads, pc[u] \in Filling
               PROVE  head < idx[u]
    OBVIOUS
  <2>1. idx[u] \in Nat /\ head <= idx[u] /\ version[Slot(idx[u])] = idx[u]
    BY DEF TypeOK, Ownership
  <2> QED
    BY <1>a, <2>1, SMT
<1>3. Ownership'
  BY <1>a, <1>b, <1>c, SMT DEF TypeOK, Ownership, Filling, Draining, Written
<1>4. Turns'
  BY SMT DEF TypeOK, Turns, BeingFilled, BeingDrained, Filling, Draining
<1>5. Claims'
  BY SMT DEF TypeOK, Claims
<1> QED
  BY <1>1, <1>2, <1>3, <1>4, <1>5

\* Copying a value in or out changes no index and no version.
LEMMA CopyStep ==
  ASSUME IInv, NEW t \in Threads, PushWrite(t) \/ PopRead(t)
  PROVE  IInv'
<1> USE DEF PushWrite, PopRead, Goto, IInv
<1>1. TypeOK'
  <2>1. Slot(idx[t]) \in Slots /\ val[t] \in Values \cup {NoValue}
    BY SlotDivision DEF TypeOK
  <2>2. CASE PushWrite(t)
    BY <2>1, <2>2, SMT DEF TypeOK, Pushing
  <2>3. CASE PopRead(t)
    BY <2>1, <2>3, SMT DEF TypeOK, Pushing, Draining
  <2> QED
    BY <2>2, <2>3
<1>2. Occupancy'
  BY DEF Occupancy
<1>3. Ownership'
  BY SMT DEF TypeOK, Ownership, Filling, Draining
<1>4. Turns'
  BY SMT DEF TypeOK, Turns, BeingFilled, BeingDrained, Filling, Draining
<1>5. Claims'
  BY SMT DEF TypeOK, Claims
<1> QED
  BY <1>1, <1>2, <1>3, <1>4, <1>5

\* Two different indices of the same window of Capacity have different slots.
LEMMA WindowSlots ==
  ASSUME NEW i \in Nat, NEW j \in Nat, i /= j, i < j + Capacity, j < i + Capacity
  PROVE  Slot(i) /= Slot(j)
<1>1. CASE i < j
  BY <1>1, SlotsDiffer
<1>2. CASE j < i
  BY <1>2, SlotsDiffer
<1> QED
  BY <1>1, <1>2, SMT

LEMMA PushPublishStep ==
  ASSUME IInv, NEW t \in Threads, PushPublish(t)
  PROVE  IInv'
<1> USE DEF PushPublish, Return, Goto, IInv
<1> DEFINE i == idx[t]
<1>a. /\ i \in Nat /\ head \in Nat /\ tail \in Nat
      /\ head <= i /\ i < tail /\ tail <= head + Capacity
      /\ version[Slot(i)] = i /\ Slot(i) \in Slots
  BY SlotDivision, SMT DEF TypeOK, Occupancy, Ownership, Filling
<1>b. /\ version' = [version EXCEPT ![Slot(i)] = i + 1]
      /\ version \in [Slots -> Nat]
      /\ \A s \in Slots : s /= Slot(i) => version'[s] = version[s]
      /\ version'[Slot(i)] = i + 1
  BY <1>a, SMT DEF TypeOK, Written
<1>1. TypeOK'
  BY <1>a, <1>b, SMT DEF TypeOK, Pushing
<1>2. Occupancy'
  BY DEF Occupancy
<1>c. /\ \A j \in Nat : head <= j /\ j < head + Capacity /\ j /= i => Slot(j) /= Slot(i)
      /\ \A j \in Nat : j < head /\ tail <= j + Capacity => Slot(j) /= Slot(i)
  BY <1>a, WindowSlots, SMT
<1>d. \A j \in Nat : Slot(j) \in Slots
  BY SlotDivision
<1>3. Ownership'
  BY <1>a, <1>b, <1>c, <1>d, SMT DEF TypeOK, Ownership, Filling, Draining, Written
<1>e. /\ \A j \in Nat : j /= i /\ BeingFilled(j) => BeingFilled(j)'
      /\ \A j \in Int : BeingDrained(j) => BeingDrained(j)'
  BY <1>a DEF TypeOK, BeingFilled, BeingDrained, Filling, Draining
<1>4. Turns'
  <2>1. ASSUME NEW j \in Nat, head <= j, j < tail
        PROVE  version'[Slot(j)] = Written(j) \/ BeingFilled(j)'
    <3>1. CASE j = i
      BY <1>b, <3>1 DEF Written
    <3>2. CASE j /= i
      <4>1. Slot(j) /= Slot(i) /\ version'[Slot(j)] = version[Slot(j)]
        BY <1>a, <1>b, <1>c, <1>d, <2>1, <3>2, SMT
      <4>2. version[Slot(j)] = Written(j) \/ BeingFilled(j)
        BY <1>a, <2>1, SMT DEF Turns
      <4> QED
        BY <1>e, <3>2, <4>1, <4>2
    <3> QED
      BY <3>1, <3>2
  <2>2. ASSUME NEW j \in Nat, tail <= j, j < head + Capacity
        PROVE  version'[Slot(j)] = j \/ BeingDrained(j - Capacity)'
    <3>1. Slot(j) /= Slot(i) /\ version'[Slot(j)] = version[Slot(j)]
      BY <1>a, <1>b, <1>c, <1>d, <2>2, SMT
    <3>2. version[Slot(j)] = j \/ BeingDrained(j - Capacity)
      BY <1>a, <2>2, SMT DEF Turns
    <3> QED
      BY <1>e, <3>1, <3>2, SMT
  <2> QED
    BY <1>a, <2>1, <2>2, SMT DEF Turns
<1>5. Claims'
  BY <1>a, <1>b, <1>c, <1>d, SMT DEF TypeOK, Claims, Written
<1> QED
  BY <1>1, <1>2, <1>3, <1>4, <1>5

LEMMA PopReleaseStep ==
  ASSUME IInv, NEW t \in Threads, PopRelease(t)
  PROVE  IInv'
<1> USE DEF PopRelease, Return, Goto, IInv
<1> DEFINE i == idx[t]
<1>a. /\ i \in Nat /\ head \in Nat /\ tail \in Nat
      /\ i < head /\ head <= tail /\ tail <= i + Capacity
      /\ version[Slot(i)] = i + 1 /\ Slot(i) \in Slots
  BY SlotDivision, SMT DEF TypeOK, Occupancy, Ownership, Draining, Written
<1>b. /\ version' = [version EXCEPT ![Slot(i)] = i + Capacity]
      /\ version \in [Slots -> Nat]
      /\ \A s \in Slots : s /= Slot(i) => version'[s] = version[s]
      /\ version'[Slot(i)] = i + Capacity
      /\ Slot(i + Capacity) = Slot(i)
  BY <1>a, SlotFreed, SMT DEF TypeOK, Freed
<1>1. TypeOK'
  BY <1>a, <1>b, SMT DEF TypeOK, Pushing
<1>2. Occupancy'
  BY DEF Occupancy
<1>c. /\ \A j \in Nat : tail <= j + Capacity /\ j < i + Capacity /\ j /= i => Slot(j) /= Slot(i)
      /\ \A j \in Nat : tail <= j /\ j < head + Capacity /\ j /= i + Capacity
                         => Slot(j) /= Slot(i + Capacity)
  BY <1>a, WindowSlots, SMT
<1>d. \A j \in Nat : Slot(j) \in Slots
  BY SlotDivision
<1>3. Ownership'
  BY <1>a, <1>b, <1>c, <1>d, SMT DEF TypeOK, Ownership, Filling, Draining, Written
<1>e. /\ \A j \in Nat : BeingFilled(j) => BeingFilled(j)'
      /\ \A j \in Int : j /= i /\ BeingDrained(j) => BeingDrained(j)'
  BY <1>a DEF TypeOK, BeingFilled, BeingDrained, Filling, Draining
<1>4. Turns'
  <2>1. ASSUME NEW j \in Nat, head <= j, j < tail
        PROVE  version'[Slot(j)] = Written(j) \/ BeingFilled(j)'
    <3>1. Slot(j) /= Slot(i) /\ version'[Slot(j)] = version[Slot(j)]
      BY <1>a, <1>b, <1>c, <1>d, <2>1, SMT
    <3>2. version[Slot(j)] = Written(j) \/ BeingFilled(j)
      BY <1>a, <2>1, SMT DEF Turns
    <3> QED
      BY <1>e, <3>1, <3>2
  <2>2. ASSUME NEW j \in Nat, tail <= j, j < head + Capacity
        PROVE  version'[Slot(j)] = j \/ BeingDrained(j - Capacity)'
    <3>1. CASE j = i + Capacity
      BY <1>b, <3>1
    <3>2. CASE j /= i + Capacity
      <4>1. Slot(j) /= Slot(i) /\ version'[Slot(j)] = version[Slot(j)]
        BY <1>a, <1>b, <1>c, <1>d, <2>2, <3>2, SMT
      <4>2. version[Slot(j)] = j \/ BeingDrained(j - Capacity)
        BY <1>a, <2>2, SMT DEF Turns
      <4>3. j - Capacity \in Int /\ j - Capacity /= i
        BY <1>a, <3>2, SMT
      <4> QED
        BY <1>e, <4>1, <4>2, <4>3
    <3> QED
      BY <3>1, <3>2
  <2> QED
    BY <1>a, <2>1, <2>2, SMT DEF Turns
<1>5. Claims'
  BY <1>a, <1>b, <1>c, <1>d, SMT DEF TypeOK, Claims, Written
<1> QED
  BY <1>1, <1>2, <1>3, <1>4, <1>5

LEMMA NextIInv == IInv /\ [Next]_vars => IInv'
<1> SUFFICES ASSUME IInv, [Next]_vars PROVE IInv'
  OBVIOUS
<1>1. CASE UNCHANGED vars
  BY <1>1, SMT DEF vars, IInv, TypeOK, Occupancy, Ownership, Turns, Claims,
                   BeingFilled, BeingDrained
<1>2. ASSUME NEW t \in Threads, Begin(t) \/ PushStep(t) \/ PopStep(t)
      PROVE  IInv'
  BY <1>2, BeginStep, TestStep, PushCasStep, PopCasStep, CopyStep, PushPublishStep,
     PopReleaseStep DEF PushStep, PopStep
<1> QED
  BY <1>1, <1>2 DEF Next

\* ArrayQueue never leaves its inductive invariant (limero.h:307-354).
THEOREM Invariance == Spec => []IInv
<1> QED
  BY InitIInv, NextIInv, PTL DEF Spec

\* Every variable keeps its type, and a push holds the value it was given.
THEOREM TypeCorrect == Spec => []TypeOK
<1>1. IInv => TypeOK
  BY DEF IInv
<1> QED
  BY <1>1, Invariance, PTL

(* What the invariant implies *)

LEMMA OwnersApart == IInv => NoDataRace
<1> SUFFICES ASSUME IInv, NEW t \in Threads, NEW u \in Threads, t /= u,
                    pc[t] \in Filling \cup Draining, pc[u] \in Filling \cup Draining
             PROVE  Slot(idx[t]) /= Slot(idx[u])
  BY DEF NoDataRace
<1>1. /\ head \in Nat /\ tail \in Nat /\ head <= tail /\ tail <= head + Capacity
      /\ idx[t] \in Nat /\ idx[u] \in Nat
  BY DEF IInv, TypeOK, Occupancy
<1>2. /\ idx[t] /= idx[u]
      /\ idx[t] < idx[u] + Capacity
      /\ idx[u] < idx[t] + Capacity
  BY <1>1, SMT DEF IInv, Ownership
<1> QED
  BY <1>1, <1>2, WindowSlots

\* However many threads push and pop, the plain `value` of a slot is never
\* touched by two of them at once (limero.h:324, 348).
THEOREM RaceFree == Spec => []NoDataRace
<1> QED
  BY Invariance, OwnersApart, PTL

LEMMA FailuresJustified ==
  ASSUME IInv, NEW t \in Threads
  PROVE  Justified(t)
<1> USE DEF IInv, TypeOK, Occupancy, Claims, Turns, Return, Goto
<1>1. PushFull(t) =>
        idx[t] < tail \/ tail = head + Capacity \/ BeingDrained(tail - Capacity)
  BY SMT DEF PushFull, MayFill
<1>2. PushContended(t) => idx[t] < tail
  BY SMT DEF PushContended
<1>3. PopEmpty(t) => idx[t] < head \/ head = tail \/ BeingFilled(head)
  BY SMT DEF PopEmpty, MayDrain
<1>4. PopContended(t) => idx[t] < head
  BY SMT DEF PopContended
<1> QED
  BY <1>1, <1>2, <1>3, <1>4 DEF Justified

\* A push or a pop that answers false had a reason: a competitor, a full or an
\* empty queue, or a slot whose owner has not finished (limero.h:311-321, 339-347).
THEOREM NoUnexplainedFailure == Spec => JustifiedFailure
<1>1. IInv => \A t \in Threads : Justified(t)
  BY FailuresJustified
<1> QED
  BY <1>1, Invariance, PTL DEF JustifiedFailure

(* Sequences as functions *)

LEMMA AppendIs ==
  ASSUME NEW S, NEW n \in Nat, NEW s \in [1 .. n -> S], NEW v \in S,
         NEW r \in [1 .. n + 1 -> S], \A k \in 1 .. n : r[k] = s[k], r[n + 1] = v
  PROVE  Len(s) = n /\ r = Append(s, v)
<1>1. s \in Seq(S) /\ Len(s) = n
  BY SMT
<1>2. r \in Seq(S) /\ Len(r) = n + 1
  BY SMT
<1>3. /\ Append(s, v) \in Seq(S) /\ Len(Append(s, v)) = n + 1
      /\ \A k \in 1 .. n : Append(s, v)[k] = s[k]
      /\ Append(s, v)[n + 1] = v
  BY <1>1, AppendProperties
<1>4. \A k \in 1 .. n + 1 : Append(s, v)[k] = r[k]
  BY <1>3, SMT
<1> QED
  BY <1>1, <1>2, <1>3, <1>4, SeqEqual

LEMMA TailIs ==
  ASSUME NEW S, NEW n \in Nat, n >= 1, NEW s \in [1 .. n -> S],
         NEW r \in [1 .. n - 1 -> S], \A k \in 1 .. n - 1 : r[k] = s[k + 1]
  PROVE  s /= <<>> /\ Head(s) = s[1] /\ r = Tail(s)
<1>1. s \in Seq(S) /\ Len(s) = n /\ s /= <<>>
  BY SMT
<1>2. r \in Seq(S) /\ Len(r) = n - 1
  BY SMT
<1>3. /\ Tail(s) \in Seq(S) /\ Len(Tail(s)) = n - 1
      /\ \A k \in 1 .. n - 1 : Tail(s)[k] = s[k + 1]
  BY <1>1, HeadTailProperties
<1> QED
  BY <1>1, <1>2, <1>3, SeqEqual

(* The refinement of BoundedFifo *)

\* The value of an index is in its slot, or in the hands of the thread about to write it.
ValuesFound ==
  /\ \A t \in Threads : pc[t] = "pushWrite" => ValueAt(idx[t]) = val[t]
  /\ \A i \in Nat :
       (\A t \in Threads : ~ (pc[t] = "pushWrite" /\ idx[t] = i)) => ValueAt(i) = value[Slot(i)]
  /\ \A i \in Nat : ValueAt(i) \in Values \cup {NoValue}

LEMMA FindValues == IInv => ValuesFound
<1> SUFFICES ASSUME IInv PROVE ValuesFound
  OBVIOUS
<1>1. ASSUME NEW t \in Threads, pc[t] = "pushWrite"
      PROVE  ValueAt(idx[t]) = val[t]
  <2>1. {u \in Threads : pc[u] = "pushWrite" /\ idx[u] = idx[t]} = {t}
    BY <1>1 DEF IInv, Ownership, Filling
  <2> QED
    BY <2>1 DEF ValueAt
<1>2. ASSUME NEW i \in Nat, \A t \in Threads : ~ (pc[t] = "pushWrite" /\ idx[t] = i)
      PROVE  ValueAt(i) = value[Slot(i)]
  <2>1. {u \in Threads : pc[u] = "pushWrite" /\ idx[u] = i} = {}
    BY <1>2
  <2> QED
    BY <2>1 DEF ValueAt
<1>3. ASSUME NEW i \in Nat
      PROVE  ValueAt(i) \in Values \cup {NoValue}
  <2>1. CASE \E t \in Threads : pc[t] = "pushWrite" /\ idx[t] = i
    BY <1>1, <2>1 DEF IInv, TypeOK
  <2>2. CASE \A t \in Threads : ~ (pc[t] = "pushWrite" /\ idx[t] = i)
    BY <1>2, <2>2, SlotDivision DEF IInv, TypeOK
  <2> QED
    BY <2>1, <2>2
<1> QED
  BY <1>1, <1>2, <1>3 DEF ValuesFound

LEMMA FindValuesNext == IInv' => ValuesFound'
BY FindValues, PTL

LEMMA InitFifo == Init => Fifo!Init
<1> SUFFICES ASSUME Init PROVE Contents = <<>> /\ Taken = [t \in Threads |-> NoValue]
  BY DEF Fifo!Init
<1>1. Contents = <<>>
  BY SMT DEF Contents, Init
<1>2. Taken = [t \in Threads |-> NoValue]
  BY SMT DEF Taken, Init
<1> QED
  BY <1>1, <1>2

\* Steps that move no index and leave the value of every index in the queue alone.
LEMMA SameContents ==
  ASSUME UNCHANGED <<head, tail>>,
         \A i \in Nat : head <= i /\ i < tail => ValueAt(i)' = ValueAt(i),
         head \in Nat, tail \in Nat
  PROVE  Contents' = Contents
BY SMT DEF Contents

\* The steps that claim no index stutter: the queue looks the same before and after.
LEMMA StutterFifo ==
  ASSUME IInv, IInv', NEW t \in Threads,
         \/ Begin(t)
         \/ PushFull(t) \/ PushCheck(t) \/ PushContended(t) \/ PushWrite(t) \/ PushPublish(t)
         \/ PopEmpty(t) \/ PopCheck(t) \/ PopContended(t) \/ PopRead(t) \/ PopRelease(t)
  PROVE  UNCHANGED <<Contents, Taken>>
<1> USE DEF Begin, PushBegin, PushFull, PushCheck, PushContended, PushWrite, PushPublish,
            PopBegin, PopEmpty, PopCheck, PopContended, PopRead, PopRelease, Return, Goto
<1>a. ValuesFound /\ ValuesFound'
  BY FindValues, FindValuesNext
<1>b. UNCHANGED <<head, tail>> /\ head \in Nat /\ tail \in Nat
  BY DEF IInv, TypeOK
<1>c. \A i \in Nat : Slot(i) \in Slots
  BY SlotDivision
\* A copy changes the value of its own slot only.
<1>d. ASSUME PushWrite(t), NEW i \in Nat, i /= idx[t], head <= i, i < tail
      PROVE  value'[Slot(i)] = value[Slot(i)]
  <2>1. Slot(i) /= Slot(idx[t])
    BY <1>d, WindowSlots, SMT DEF IInv, TypeOK, Occupancy, Ownership, Filling
  <2> QED
    BY <1>c, <1>d, <2>1 DEF IInv, TypeOK
<1>1. ASSUME NEW i \in Nat, head <= i, i < tail
      PROVE  ValueAt(i)' = ValueAt(i)
  <2>1. CASE \E u \in Threads : pc[u] = "pushWrite" /\ idx[u] = i
    <3>1. PICK u \in Threads : pc[u] = "pushWrite" /\ idx[u] = i
      BY <2>1
    <3>2. ValueAt(i) = val[u]
      BY <1>a, <3>1 DEF ValuesFound
    <3>3. CASE u = t
      <4>1. PushWrite(t) /\ value'[Slot(i)] = val[t]
        BY <3>1, <3>3, <1>c DEF IInv, TypeOK
      <4>2. \A w \in Threads : ~ (pc'[w] = "pushWrite" /\ idx'[w] = i)
        BY <3>1, <3>3, SMT DEF IInv, TypeOK, Ownership, Filling
      <4>3. ValueAt(i)' = value'[Slot(i)]
        BY <1>a, <4>2 DEF ValuesFound
      <4> QED
        BY <3>2, <3>3, <4>1, <4>3
    <3>4. CASE u /= t
      <4>1. pc'[u] = "pushWrite" /\ idx'[u] = i /\ val'[u] = val[u]
        BY <3>1, <3>4 DEF IInv, TypeOK
      <4>2. ValueAt(i)' = val'[u]
        BY <1>a, <4>1 DEF ValuesFound
      <4> QED
        BY <3>2, <4>1, <4>2
    <3> QED
      BY <3>3, <3>4
  <2>2. CASE \A u \in Threads : ~ (pc[u] = "pushWrite" /\ idx[u] = i)
    <3>1. ValueAt(i) = value[Slot(i)]
      BY <1>a, <2>2 DEF ValuesFound
    <3>2. \A w \in Threads : ~ (pc'[w] = "pushWrite" /\ idx'[w] = i)
      BY <2>2, SMT DEF IInv, TypeOK
    <3>3. ValueAt(i)' = value'[Slot(i)]
      BY <1>a, <3>2 DEF ValuesFound
    <3>4. value'[Slot(i)] = value[Slot(i)]
      BY <1>1, <1>d, <2>2
    <3> QED
      BY <3>1, <3>3, <3>4
  <2> QED
    BY <2>1, <2>2
<1>2. Contents' = Contents
  BY <1>b, <1>1, SameContents
<1>3. ASSUME NEW u \in Threads
      PROVE  Taken'[u] = Taken[u]
  <2>1. CASE pc[u] = "popRead" /\ u /= t
    <3>1. PushWrite(t) => Slot(idx[u]) /= Slot(idx[t])
      BY <2>1, OwnersApart DEF NoDataRace, Filling, Draining
    <3>2. value'[Slot(idx[u])] = value[Slot(idx[u])]
      BY <1>c, <3>1 DEF IInv, TypeOK
    <3> QED
      BY <2>1, <3>2, SMT DEF Taken, IInv, TypeOK
  <2>2. CASE pc[u] /= "popRead" \/ u = t
    BY <2>2, SMT DEF Taken, IInv, TypeOK
  <2> QED
    BY <2>1, <2>2
<1>4. Taken' = Taken
  BY <1>3 DEF Taken
<1> QED
  BY <1>2, <1>4

\* A push that wins its compare-and-swap puts its value.
LEMMA PushFifo ==
  ASSUME IInv, IInv', NEW t \in Threads, PushCas(t)
  PROVE  Fifo!Put(t, val[t])
<1> USE DEF PushCas, Goto
<1> SUFFICES ASSUME NEW h \in Nat, NEW n \in Nat, head = h, tail = h + n
             PROVE  Fifo!Put(t, val[t])
  <2>1. head \in Nat /\ tail - head \in Nat /\ tail = head + (tail - head)
    BY SMT DEF IInv, TypeOK, Occupancy
  <2> QED
    BY <2>1
<1>a. ValuesFound /\ ValuesFound'
  BY FindValues, FindValuesNext
<1>b. /\ tail' = h + n + 1 /\ head' = h /\ n < Capacity
      /\ pc'[t] = "pushWrite" /\ idx'[t] = h + n /\ val'[t] = val[t]
  BY SMT DEF IInv, TypeOK, Occupancy
<1>1. ValueAt(h + n)' = val[t]
  BY <1>a, <1>b DEF ValuesFound
<1>2. ASSUME NEW i \in Nat, i < h + n
      PROVE  ValueAt(i)' = ValueAt(i)
  <2>1. CASE \E u \in Threads : pc[u] = "pushWrite" /\ idx[u] = i
    <3>1. PICK u \in Threads : pc[u] = "pushWrite" /\ idx[u] = i
      BY <2>1
    <3>2. pc'[u] = "pushWrite" /\ idx'[u] = i /\ val'[u] = val[u]
      BY <3>1 DEF IInv, TypeOK
    <3> QED
      BY <1>a, <3>1, <3>2 DEF ValuesFound
  <2>2. CASE \A u \in Threads : ~ (pc[u] = "pushWrite" /\ idx[u] = i)
    <3>1. \A w \in Threads : ~ (pc'[w] = "pushWrite" /\ idx'[w] = i)
      BY <1>2, <1>b, <2>2, SMT DEF IInv, TypeOK
    <3> QED
      BY <1>a, <2>2, <3>1 DEF ValuesFound
  <2> QED
    BY <2>1, <2>2
<1>3. /\ Contents = [k \in 1 .. n |-> ValueAt(h + k - 1)]
      /\ Contents' = [k \in 1 .. n + 1 |-> ValueAt(h + k - 1)']
  BY <1>b, SMT DEF Contents
<1>4. /\ Contents \in [1 .. n -> Values \cup {NoValue}]
      /\ Contents' \in [1 .. n + 1 -> Values \cup {NoValue}]
      /\ val[t] \in Values \cup {NoValue}
  <2>1. /\ \A k \in 1 .. n : ValueAt(h + k - 1) \in Values \cup {NoValue}
        /\ \A k \in 1 .. n + 1 : ValueAt(h + k - 1)' \in Values \cup {NoValue}
    BY <1>a, SMT DEF ValuesFound
  <2> QED
    BY <1>3, <2>1 DEF IInv, TypeOK
<1>5. \A k \in 1 .. n : Contents'[k] = Contents[k]
  BY <1>2, <1>3, SMT
<1>6. Contents'[n + 1] = val[t]
  BY <1>1, <1>3, SMT
<1>7. Len(Contents) = n /\ Contents' = Append(Contents, val[t])
  BY <1>4, <1>5, <1>6, AppendIs
<1>8. Taken' = Taken
  BY SMT DEF Taken, IInv, TypeOK
<1> QED
  BY <1>b, <1>7, <1>8, SMT DEF Fifo!Put

\* A pop that wins its compare-and-swap gets the value at the head.
LEMMA PopFifo ==
  ASSUME IInv, IInv', NEW t \in Threads, PopCas(t)
  PROVE  Fifo!Get(t)
<1> USE DEF PopCas, Goto
<1> SUFFICES ASSUME NEW h \in Nat, NEW n \in Nat, head = h, tail = h + n
             PROVE  Fifo!Get(t)
  <2>1. head \in Nat /\ tail - head \in Nat /\ tail = head + (tail - head)
    BY SMT DEF IInv, TypeOK, Occupancy
  <2> QED
    BY <2>1
<1>a. ValuesFound /\ ValuesFound'
  BY FindValues, FindValuesNext
<1>b. /\ head' = h + 1 /\ n >= 1 /\ tail' = h + n
      /\ pc' = [pc EXCEPT ![t] = "popRead"] /\ pc[t] = "popCas" /\ idx[t] = h
      /\ idx' = idx /\ value' = value /\ val' = val /\ out' = out
  BY SMT DEF IInv, TypeOK, Occupancy
<1>1. ASSUME NEW i \in Nat
      PROVE  ValueAt(i)' = ValueAt(i)
  <2>1. \A u \in Threads : pc'[u] = "pushWrite" <=> pc[u] = "pushWrite"
    BY <1>b DEF IInv, TypeOK
  <2>2. CASE \E u \in Threads : pc[u] = "pushWrite" /\ idx[u] = i
    BY <1>a, <1>b, <2>1, <2>2 DEF ValuesFound
  <2>3. CASE \A u \in Threads : ~ (pc[u] = "pushWrite" /\ idx[u] = i)
    BY <1>a, <1>b, <2>1, <2>3 DEF ValuesFound
  <2> QED
    BY <2>2, <2>3
<1>2. ValueAt(h) = value[Slot(h)]
  <2>1. \A u \in Threads : ~ (pc[u] = "pushWrite" /\ idx[u] = h)
    BY <1>b, SMT DEF IInv, TypeOK, Ownership, Filling
  <2> QED
    BY <1>a, <2>1 DEF ValuesFound
<1>3. /\ Contents = [k \in 1 .. n |-> ValueAt(h + k - 1)]
      /\ Contents' = [k \in 1 .. n - 1 |-> ValueAt(h + 1 + k - 1)']
  BY <1>b, SMT DEF Contents
<1>4. /\ Contents \in [1 .. n -> Values \cup {NoValue}]
      /\ Contents' \in [1 .. n - 1 -> Values \cup {NoValue}]
  <2>1. /\ \A k \in 1 .. n : ValueAt(h + k - 1) \in Values \cup {NoValue}
        /\ \A k \in 1 .. n - 1 : ValueAt(h + 1 + k - 1)' \in Values \cup {NoValue}
    BY <1>a, SMT DEF ValuesFound
  <2> QED
    BY <1>3, <2>1
<1>5. \A k \in 1 .. n - 1 : Contents'[k] = Contents[k + 1]
  BY <1>1, <1>3, SMT
<1>6. Contents /= <<>> /\ Head(Contents) = ValueAt(h) /\ Contents' = Tail(Contents)
  <2>1. Contents[1] = ValueAt(h)
    BY <1>b, <1>3, SMT
  <2> QED
    BY <1>b, <1>4, <1>5, <2>1, TailIs
<1>7. Taken' = [Taken EXCEPT ![t] = Head(Contents)]
  <2>1. \A u \in Threads : pc'[u] = IF u = t THEN "popRead" ELSE pc[u]
    BY <1>b DEF IInv, TypeOK
  <2>2. Taken' = [u \in Threads |-> IF u = t THEN value[Slot(h)] ELSE Taken[u]]
    BY <1>b, <2>1 DEF Taken
  <2> QED
    BY <1>2, <1>6, <2>2 DEF Taken
<1> QED
  BY <1>6, <1>7 DEF Fifo!Get

\* Whatever the number of threads, values come out whole, once, in the order in
\* which their pushes claimed an index (limero.h:307-354).
THEOREM Refinement == Spec => ImplementsFifo
<1>1. IInv /\ IInv' /\ [Next]_vars => [Fifo!Next]_(Fifo!vars)
  <2> SUFFICES ASSUME IInv, IInv', [Next]_vars PROVE [Fifo!Next]_(Fifo!vars)
    OBVIOUS
  <2>1. CASE UNCHANGED vars
    BY <2>1 DEF vars, Fifo!vars, Contents, Taken, ValueAt
  <2>2. ASSUME NEW t \in Threads, Begin(t) \/ PushStep(t) \/ PopStep(t)
        PROVE  [Fifo!Next]_(Fifo!vars)
    <3>1. CASE PushCas(t)
      <4>1. val[t] \in Values
        BY <3>1 DEF PushCas, Goto, IInv, TypeOK, Pushing
      <4> QED
        BY <3>1, <4>1, PushFifo DEF Fifo!Next
    <3>2. CASE PopCas(t)
      BY <3>2, PopFifo DEF Fifo!Next
    <3>3. CASE ~ PushCas(t) /\ ~ PopCas(t)
      BY <2>2, <3>3, StutterFifo DEF Fifo!vars, PushStep, PopStep
    <3> QED
      BY <3>1, <3>2, <3>3
  <2> QED
    BY <2>1, <2>2 DEF Next
<1> QED
  BY <1>1, InitFifo, Invariance, PTL DEF Spec, ImplementsFifo, Fifo!Spec

-------------------------------------------------------------------------------
(* QueueFlow *)

USE LoopAssumption, PipeAssumption

\* The flow's steps are steps of its queue, so the queue's invariant carries over.
LEMMA FlowIsQueue == FlowNext => [Next]_vars
BY SMT DEF FlowNext, Finish, Serve, On, Pushes, Pushed, Enqueue, EnqueueOverflow, Wake,
           Invoke, NoData, Next, Begin, PushStep, PopStep, Producers

(* Counting the producers that owe a wakeup *)

LEMMA OwingFinite ==
  ASSUME mustEnqueue \subseteq Producers
  PROVE  IsFiniteSet(Owing) /\ Cardinality(Owing) \in Nat
<1>1. Owing \in SUBSET Threads
  BY DEF Owing, Producers
<1> QED
  BY <1>1, FS_Subset, FS_CardinalityType

LEMMA OneMoreOwes ==
  ASSUME mustEnqueue \subseteq Producers, NEW p \in Producers, p \notin Owing,
         Owing' = Owing \cup {p}
  PROVE  Cardinality(Owing') = Cardinality(Owing) + 1
BY OwingFinite, FS_AddElement

LEMMA OneLessOwes ==
  ASSUME mustEnqueue \subseteq Producers, NEW p \in Owing, Owing' = Owing \ {p}
  PROVE  Cardinality(Owing') = Cardinality(Owing) - 1
BY OwingFinite, FS_RemoveElement

(* The inductive invariant *)

LEMMA InitFlow == FlowInit => FlowIInv
<1> SUFFICES ASSUME FlowInit PROVE FlowIInv
  OBVIOUS
<1>1. IInv
  BY InitIInv DEF FlowInit
<1>2. FlowTypeOK
  BY <1>1, SMT DEF FlowTypeOK, FlowInit, IInv
<1>3. Roles /\ Serving = 0
  BY SMT DEF Roles, Serving, FlowInit, Init, Producers
<1>4. Cardinality(Owing) = 0
  <2>1. Owing = {}
    BY SMT DEF Owing, FlowInit, Init, Filling, Producers
  <2> QED
    BY <2>1, FS_EmptySet
<1>5. WakeupAccounting
  BY <1>3, <1>4, SMT DEF WakeupAccounting, FlowInit, Init
<1> QED
  BY <1>1, <1>2, <1>3, <1>5 DEF FlowIInv

LEMMA NextFlowTypeOK ==
  ASSUME FlowIInv, IInv', FlowNext
  PROVE  FlowTypeOK'
<1> USE DEF FlowIInv, FlowTypeOK, IInv
<1>1. ASSUME NEW p \in Producers, Finish(p) \/ \E v \in Values : On(p, v)
      PROVE  FlowTypeOK'
  BY <1>1, SMT DEF Finish, On, Pushes, Pushed, Enqueue, EnqueueOverflow
<1>2. CASE Serve
  BY <1>2, SMT DEF Serve, Wake, Invoke, NoData
<1> QED
  BY <1>1, <1>2 DEF FlowNext

LEMMA NextRoles ==
  ASSUME FlowIInv, FlowNext
  PROVE  Roles'
<1> USE DEF FlowIInv, FlowTypeOK, TypeOK, Roles, Serving, Producers, Goto, Return
<1>1. ASSUME NEW p \in Producers, Finish(p) \/ \E v \in Values : On(p, v)
      PROVE  Roles'
  <2>1. CASE \E v \in Values : On(p, v)
    BY <2>1, SMT DEF On, PushBegin, Pushing
  <2>2. CASE Pushes(p)
    BY <2>2, SMT DEF Pushes, PushFull, PushCheck, PushContended, PushCas, PushWrite, Pushing
  <2>3. CASE Pushed(p)
    BY <2>3, SMT DEF Pushed, PushPublish
  <2>4. CASE Enqueue(p) \/ EnqueueOverflow(p)
    BY <2>4, SMT DEF Enqueue, EnqueueOverflow, vars
  <2> QED
    BY <1>1, <2>1, <2>2, <2>3, <2>4 DEF Finish
<1>2. CASE Serve
  <2>1. CASE Wake
    BY <2>1, SMT DEF Wake, PopBegin
  <2>2. CASE Invoke
    BY <2>2, SMT DEF Invoke, PopCheck, PopCas, PopRead, PopRelease, Draining
  <2>3. CASE NoData
    BY <2>3, SMT DEF NoData, PopEmpty
  <2> QED
    BY <1>2, <2>1, <2>2, <2>3 DEF Serve
<1> QED
  BY <1>1, <1>2 DEF FlowNext

\* One side of the account per step: what moves an element, a wakeup or a debt.
LEMMA NextAccounting ==
  ASSUME FlowIInv, FlowNext
  PROVE  WakeupAccounting'
<1> USE DEF FlowIInv, Goto, Return
<1>a. /\ head \in Nat /\ tail \in Nat /\ pipe \in Nat /\ overflow \in Nat /\ noData \in Nat
      /\ Cardinality(Owing) \in Nat /\ Serving \in {0, 1} /\ mustEnqueue \subseteq Producers
      /\ tail - head = pipe + Cardinality(Owing) + Serving + overflow + noData
  BY OwingFinite, SMT DEF FlowTypeOK, TypeOK, Serving, WakeupAccounting
<1>1. ASSUME NEW p \in Producers, Finish(p) \/ \E v \in Values : On(p, v)
      PROVE  WakeupAccounting'
  <2>a. p \in Threads /\ p /= Loop /\ TypeOK
    BY DEF Producers, FlowTypeOK
  <2>1. CASE \E v \in Values : On(p, v)
    <3>1. Owing' = Owing /\ Serving' = Serving
      BY <2>a, <2>1, SMT DEF On, PushBegin, Owing, Serving, Filling, TypeOK
    <3> QED
      BY <1>a, <2>1, <3>1, SMT DEF On, PushBegin, WakeupAccounting
  <2>2. CASE PushCas(p) /\ UNCHANGED <<pipe, mustEnqueue, overflow, noData>>
    <3>1. p \notin Owing
      BY <2>2, SMT DEF PushCas, Owing, Filling, Roles
    <3>2. Owing' = Owing \cup {p} /\ Serving' = Serving
      BY <2>a, <2>2, SMT DEF PushCas, Owing, Serving, Filling, TypeOK
    <3>3. Cardinality(Owing') = Cardinality(Owing) + 1
      BY <1>a, <3>1, <3>2, OneMoreOwes
    <3> QED
      BY <1>a, <2>2, <3>2, <3>3, SMT DEF PushCas, WakeupAccounting
  <2>3. CASE Pushes(p) /\ ~ PushCas(p)
    <3>1. /\ \A q \in Threads \ {p} : pc'[q] = pc[q]
          /\ pc'[p] \in Filling <=> pc[p] \in Filling
          /\ UNCHANGED <<head, tail, pipe, mustEnqueue, overflow, noData>>
      BY <2>a, <2>3, SMT DEF Pushes, PushFull, PushCheck, PushContended, PushWrite,
                             Filling, TypeOK
    <3>2. Owing' = Owing /\ Serving' = Serving
      BY <2>a, <3>1 DEF Owing, Serving, Producers
    <3> QED
      BY <1>a, <3>1, <3>2, SMT DEF WakeupAccounting
  <2>4. CASE Pushed(p)
    <3>1. /\ Owing' = Owing /\ Serving' = Serving
          /\ UNCHANGED <<head, tail, pipe, overflow, noData>>
      BY <2>a, <2>4, SMT DEF Pushed, PushPublish, Owing, Serving, Filling, TypeOK
    <3> QED
      BY <1>a, <3>1, SMT DEF WakeupAccounting
  <2>5. CASE Enqueue(p) \/ EnqueueOverflow(p)
    <3>1. p \in Owing /\ Owing' = Owing \ {p} /\ Serving' = Serving
      BY <2>5, SMT DEF Enqueue, EnqueueOverflow, vars, Owing, Serving, Filling, Roles
    <3>2. Cardinality(Owing') = Cardinality(Owing) - 1
      BY <1>a, <3>1, OneLessOwes
    <3> QED
      BY <1>a, <2>5, <3>1, <3>2, SMT DEF Enqueue, EnqueueOverflow, vars, WakeupAccounting
  <2> QED
    BY <1>1, <2>1, <2>2, <2>3, <2>4, <2>5 DEF Finish, Pushes
<1>2. CASE Serve
  <2>a. TypeOK
    BY DEF FlowTypeOK
  <2>b. ASSUME UNCHANGED mustEnqueue, \A p \in Producers : pc'[p] = pc[p]
        PROVE  Owing' = Owing
    BY <2>b DEF Owing
  <2>1. CASE Wake
    <3>1. Owing' = Owing /\ Serving = 0 /\ Serving' = 1
      BY <2>a, <2>b, <2>1, SMT DEF Wake, PopBegin, Serving, Producers, TypeOK
    <3> QED
      BY <1>a, <2>1, <3>1, SMT DEF Wake, PopBegin, WakeupAccounting
  <2>2. CASE Invoke
    <3>1. Owing' = Owing
      BY <2>a, <2>b, <2>2, SMT DEF Invoke, PopCheck, PopCas, PopRead, PopRelease, Producers, TypeOK
    <3>2. \/ head' = head /\ Serving' = Serving
          \/ head' = head + 1 /\ Serving = 1 /\ Serving' = 0
      BY <2>a, <2>2, SMT DEF Invoke, PopCheck, PopCas, PopRead, PopRelease, Serving, TypeOK
    <3>3. UNCHANGED <<tail, pipe, overflow, noData>>
      BY <2>2 DEF Invoke, PopCheck, PopCas, PopRead, PopRelease
    <3> QED
      BY <1>a, <3>1, <3>2, <3>3, SMT DEF WakeupAccounting
  <2>3. CASE NoData
    <3>1. Owing' = Owing /\ Serving = 1 /\ Serving' = 0
      BY <2>a, <2>b, <2>3, SMT DEF NoData, PopEmpty, Serving, Producers, TypeOK
    <3> QED
      BY <1>a, <2>3, <3>1, SMT DEF NoData, PopEmpty, WakeupAccounting
  <2> QED
    BY <1>2, <2>1, <2>2, <2>3 DEF Serve
<1> QED
  BY <1>1, <1>2 DEF FlowNext

LEMMA NextFlow == FlowIInv /\ [FlowNext]_flowVars => FlowIInv'
<1> SUFFICES ASSUME FlowIInv, [FlowNext]_flowVars PROVE FlowIInv'
  OBVIOUS
<1>1. CASE UNCHANGED flowVars
  <2>1. IInv'
    BY <1>1, NextIInv DEF FlowIInv, flowVars
  <2> QED
    BY <1>1, <2>1 DEF flowVars, vars, FlowIInv, FlowTypeOK, IInv, Roles, WakeupAccounting,
                      Owing, Serving
<1>2. CASE FlowNext
  <2>1. IInv'
    BY <1>2, FlowIsQueue, NextIInv DEF FlowIInv
  <2> QED
    BY <1>2, <2>1, NextFlowTypeOK, NextRoles, NextAccounting DEF FlowIInv
<1> QED
  BY <1>1, <1>2

\* The flow keeps its inductive invariant, the queue's among it
\* (limero.h:307-354, 679-700; linux/src/limero.cpp:60-101, 128-137).
THEOREM FlowInvariance == FlowSpec => []FlowIInv
<1> QED
  BY InitFlow, NextFlow, PTL DEF FlowSpec

\* Elements and wakeups balance, whatever is lost on the way.
THEOREM Accounted == FlowSpec => []WakeupAccounting
<1>1. FlowIInv => WakeupAccounting
  BY DEF FlowIInv
<1> QED
  BY <1>1, FlowInvariance, PTL

\* A write to the pipe fails only if the pipe is smaller than the queue
\* (linux/src/limero.cpp:130-134).
THEOREM PipeNeverOverflows == FlowSpec => []PipeSuffices
<1>1. FlowInit => PipeSuffices
  BY DEF FlowInit, PipeSuffices
<1>2. FlowIInv /\ PipeSuffices /\ [FlowNext]_flowVars => PipeSuffices'
  <2> SUFFICES ASSUME FlowIInv, PipeSuffices, [FlowNext]_flowVars, Capacity <= PipeCapacity
               PROVE  overflow' = 0
    BY DEF PipeSuffices
  <2>1. \A p \in Producers : ~ EnqueueOverflow(p)
    <3> SUFFICES ASSUME NEW p \in Producers, EnqueueOverflow(p)
                 PROVE  FALSE
      OBVIOUS
    <3>1. p \in Owing /\ mustEnqueue \subseteq Producers
      BY DEF EnqueueOverflow, Owing, FlowIInv, FlowTypeOK
    <3>2. Cardinality(Owing) \in Nat /\ Cardinality(Owing) /= 0
      BY <3>1, OwingFinite, FS_EmptySet
    <3>3. /\ tail - head >= PipeCapacity + 1
          /\ tail <= head + Capacity /\ head \in Nat /\ tail \in Nat
      BY <3>2, SMT DEF EnqueueOverflow, FlowIInv, WakeupAccounting, FlowTypeOK, Serving,
                       IInv, TypeOK, Occupancy
    <3> QED
      BY <3>3, SMT
  <2>2. UNCHANGED overflow
    BY <2>1, SMT DEF FlowNext, Finish, Serve, On, Pushes, Pushed, Enqueue, Wake, Invoke, NoData,
                     flowVars
  <2> QED
    BY <2>2 DEF PipeSuffices
<1> QED
  BY <1>1, <1>2, FlowInvariance, PTL DEF FlowSpec

(* One producer *)

\* A producer with no competitor fills the index just below m_tail.
Alone ==
  Cardinality(Producers) = 1 =>
    /\ noData = 0
    /\ \A p \in Producers : pc[p] \in Filling => idx[p] = tail - 1

LEMMA OnlyOne ==
  ASSUME Cardinality(Producers) = 1
  PROVE  \A p, q \in Producers : p = q
<1>1. IsFiniteSet(Producers)
  BY FS_Subset DEF Producers
<1>2. PICK x : Producers = {x}
  BY <1>1, FS_Singleton
<1> QED
  BY <1>2

LEMMA WakeupFindsData ==
  ASSUME FlowIInv, Alone, Cardinality(Producers) = 1
  PROVE  ~ PopEmpty(Loop)
<1> SUFFICES ASSUME PopEmpty(Loop) PROVE FALSE
  OBVIOUS
<1>1. Serving = 1 /\ idx[Loop] = head /\ ~ (version[Slot(head)] = Written(head))
  BY SMT DEF PopEmpty, Return, Goto, MayDrain, Serving, FlowIInv, Roles
<1>2. /\ head \in Nat /\ tail \in Nat /\ pipe \in Nat /\ overflow \in Nat /\ noData \in Nat
      /\ Cardinality(Owing) \in Nat
      /\ tail - head = pipe + Cardinality(Owing) + 1 + overflow + noData
  BY <1>1, OwingFinite, SMT DEF FlowIInv, FlowTypeOK, TypeOK, WakeupAccounting
<1>3. BeingFilled(head)
  BY <1>1, <1>2, SMT DEF FlowIInv, IInv, Turns
<1>4. PICK p \in Threads : pc[p] \in Filling /\ idx[p] = head
  BY <1>3 DEF BeingFilled
<1>5. p \in Producers /\ p \in Owing
  BY <1>4, SMT DEF Producers, Owing, FlowIInv, Roles, Filling, Draining
<1>6. head = tail - 1
  BY <1>4, <1>5 DEF Alone
<1>7. Cardinality(Owing) /= 0
  BY <1>5, OwingFinite, FS_EmptySet DEF FlowIInv, FlowTypeOK
<1> QED
  BY <1>2, <1>6, <1>7, SMT

LEMMA NextAlone == FlowIInv /\ Alone /\ [FlowNext]_flowVars => Alone'
<1> SUFFICES ASSUME FlowIInv, Alone, [FlowNext]_flowVars, Cardinality(Producers) = 1
             PROVE  Alone'
  BY DEF Alone, Producers
<1> USE DEF Goto, Return
<1>1. CASE UNCHANGED flowVars
  BY <1>1 DEF Alone, flowVars, vars, Producers
<1>2. ASSUME NEW p \in Producers, Finish(p) \/ \E v \in Values : On(p, v)
      PROVE  Alone'
  <2>a. /\ \A q \in Producers : q = p
        /\ p \in Threads /\ TypeOK /\ noData = 0
        /\ pc[p] \in Filling => idx[p] = tail - 1
    BY OnlyOne DEF Producers, Alone, FlowIInv, FlowTypeOK
  <2>1. noData' = noData
    BY <1>2 DEF Finish, On, Pushes, Pushed, Enqueue, EnqueueOverflow
  <2>2. pc'[p] \in Filling => idx'[p] = tail' - 1
    <3>1. CASE \E v \in Values : On(p, v)
      BY <2>a, <3>1, SMT DEF On, PushBegin, Filling, TypeOK
    <3>2. CASE Pushes(p)
      BY <2>a, <3>2, SMT DEF Pushes, PushFull, PushCheck, PushContended, PushCas, PushWrite,
                             Filling, TypeOK
    <3>3. CASE Pushed(p)
      BY <2>a, <3>3, SMT DEF Pushed, PushPublish, Filling, TypeOK
    <3>4. CASE Enqueue(p) \/ EnqueueOverflow(p)
      BY <2>a, <3>4, SMT DEF Enqueue, EnqueueOverflow, vars
    <3> QED
      BY <1>2, <3>1, <3>2, <3>3, <3>4 DEF Finish
  <2> QED
    BY <2>a, <2>1, <2>2 DEF Alone, Producers
<1>3. CASE Serve
  <2>1. ~ PopEmpty(Loop)
    BY WakeupFindsData
  <2>2. noData' = noData
    BY <1>3, <2>1 DEF Serve, Wake, Invoke, NoData
  <2>3. UNCHANGED tail /\ \A p \in Producers : pc'[p] = pc[p] /\ idx'[p] = idx[p]
    BY <1>3, SMT DEF Serve, Wake, Invoke, NoData, PopBegin, PopEmpty, PopCheck, PopCas, PopRead,
                     PopRelease, Producers, FlowIInv, FlowTypeOK, TypeOK
  <2> QED
    BY <2>2, <2>3 DEF Alone, Producers
<1> QED
  BY <1>1, <1>2, <1>3 DEF FlowNext

\* With one producer every wakeup pops an element, so none is ever stranded: then and
\* with a sufficient pipe the account reads
\* elements = wakeups (limero.h:695-701).
THEOREM NoWastedWakeup == FlowSpec => []WakeupsFindData
<1>1. FlowInit => Alone
  BY SMT DEF FlowInit, Init, Alone, Filling, Producers
<1>2. Alone => WakeupsFindData
  BY DEF Alone, WakeupsFindData
<1> QED
  BY <1>1, <1>2, NextAlone, FlowInvariance, PTL DEF FlowSpec
===============================================================================
