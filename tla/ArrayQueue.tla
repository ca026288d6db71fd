------------------------------ MODULE ArrayQueue ------------------------------
(***************************************************************************)
(* The lock-free queue every asynchronous flow of the program goes through *)
(* (common/src/limero.h, class ArrayQueue, the Linux and ESP32 variant).   *)
(*                                                                         *)
(* A value's index is the m_tail it was pushed at; it lives in slot        *)
(* index % m_capacity, and the slot's version says whose turn it is:       *)
(* version = i means index i may be written there, i + 1 that it may be    *)
(* read.  Every load, compare-and-swap and store of push and pop is a step *)
(* of its own, so any number of threads interleave between them; memory is *)
(* sequentially consistent.  push and pop never loop: each failed test     *)
(* returns false.                                                          *)
(***************************************************************************)
EXTENDS Integers, Sequences

CONSTANTS Threads,    \* callers of push and pop
          Values,     \* what they push
          Capacity,   \* m_capacity
          NoValue,    \* an unwritten slot, an out parameter never set
          IndexBound  \* no push starts once m_tail has reached it

\* With one slot, "written" (0 + 1) and "free for index 1" are the same version.
ASSUME CapacityAssumption == Capacity \in Nat /\ Capacity >= 2
ASSUME BoundAssumption == IndexBound \in Nat
ASSUME ValueAssumption == NoValue \notin Values

VARIABLES head,     \* m_head
          tail,     \* m_tail
          version,  \* m_items[s].version
          value,    \* m_items[s].value
          pc,       \* where each thread is in push or pop
          idx,      \* its local copy of m_tail or m_head
          val,      \* push's argument
          out       \* pop's out parameter

vars == <<head, tail, version, value, pc, idx, val, out>>

Slots == 0 .. Capacity - 1
Slot(i) == i % Capacity

Written(i) == i + 1        \* the version that publishes index i
\* Mutant of Freed: the slot is not handed on.
FreedInPlace(i) == i + 1

Freed(i) == i + Capacity   \* the version that hands the slot of i to its next index

Pushing  == {"pushCheck", "pushCas", "pushWrite", "pushPublish"}
Filling  == {"pushWrite", "pushPublish"}   \* past push's compare-and-swap
Draining == {"popRead", "popRelease"}      \* past pop's

TypeOK ==
  /\ head \in Nat /\ tail \in Nat
  /\ version \in [Slots -> Nat]
  /\ value \in [Slots -> Values \cup {NoValue}]
  /\ pc \in [Threads -> {"idle", "popCheck", "popCas"} \cup Pushing \cup Draining]
  /\ idx \in [Threads -> Nat]
  /\ val \in [Threads -> Values \cup {NoValue}]
  /\ \A t \in Threads : pc[t] \in Pushing => val[t] \in Values
  /\ out \in [Threads -> Values \cup {NoValue}]

\* Mutant of Init: the slots are not numbered.
InitUnversioned ==
  /\ head = 0 /\ tail = 0
  /\ version = [s \in Slots |-> 0]
  /\ value = [s \in Slots |-> NoValue]
  /\ pc = [t \in Threads |-> "idle"]
  /\ idx = [t \in Threads |-> 0]
  /\ val = [t \in Threads |-> NoValue]
  /\ out = [t \in Threads |-> NoValue]

Init ==
  /\ head = 0 /\ tail = 0
  /\ version = [s \in Slots |-> s]
  /\ value = [s \in Slots |-> NoValue]
  /\ pc = [t \in Threads |-> "idle"]
  /\ idx = [t \in Threads |-> 0]
  /\ val = [t \in Threads |-> NoValue]
  /\ out = [t \in Threads |-> NoValue]

Goto(t, from, to) == pc[t] = from /\ pc' = [pc EXCEPT ![t] = to]

\* The call's locals end with it.
Return(t, from) == /\ Goto(t, from, "idle")
                   /\ idx' = [idx EXCEPT ![t] = 0]
                   /\ val' = [val EXCEPT ![t] = NoValue]

-------------------------------------------------------------------------------
(* push *)

PushBegin(t, v) ==
  /\ tail < IndexBound
  /\ Goto(t, "idle", "pushCheck")
  /\ idx' = [idx EXCEPT ![t] = tail]
  /\ val' = [val EXCEPT ![t] = v]
  /\ UNCHANGED <<head, tail, version, value, out>>

\* Mutant of MayFill: no test for a full queue.
AlwaysMayFill(t) == TRUE

MayFill(t) == version[Slot(idx[t])] = idx[t]

PushFull(t) ==   \* return false
  /\ ~ MayFill(t)
  /\ Return(t, "pushCheck")
  /\ UNCHANGED <<head, tail, version, value, out>>

PushCheck(t) ==
  /\ MayFill(t)
  /\ Goto(t, "pushCheck", "pushCas")
  /\ UNCHANGED <<head, tail, version, value, idx, val, out>>

PushContended(t) ==   \* return false
  /\ tail /= idx[t]
  /\ Return(t, "pushCas")
  /\ UNCHANGED <<head, tail, version, value, out>>

\* Mutant of PushCas: the version is stored before the value.
PushCasPublishing(t) ==
  /\ tail = idx[t]
  /\ Goto(t, "pushCas", "pushWrite")
  /\ tail' = tail + 1
  /\ version' = [version EXCEPT ![Slot(idx[t])] = Written(idx[t])]
  /\ UNCHANGED <<head, value, idx, val, out>>

PushCas(t) ==
  /\ tail = idx[t]
  /\ Goto(t, "pushCas", "pushWrite")
  /\ tail' = tail + 1
  /\ UNCHANGED <<head, version, value, idx, val, out>>

PushWrite(t) ==
  /\ Goto(t, "pushWrite", "pushPublish")
  /\ value' = [value EXCEPT ![Slot(idx[t])] = val[t]]
  /\ UNCHANGED <<head, tail, version, idx, val, out>>

PushPublish(t) ==   \* return true
  /\ Return(t, "pushPublish")
  /\ version' = [version EXCEPT ![Slot(idx[t])] = Written(idx[t])]
  /\ UNCHANGED <<head, tail, value, out>>

-------------------------------------------------------------------------------
(* pop *)

PopBegin(t) ==
  /\ Goto(t, "idle", "popCheck")
  /\ idx' = [idx EXCEPT ![t] = head]
  /\ UNCHANGED <<head, tail, version, value, val, out>>

MayDrain(t) == version[Slot(idx[t])] = Written(idx[t])

PopEmpty(t) ==   \* return false
  /\ ~ MayDrain(t)
  /\ Return(t, "popCheck")
  /\ UNCHANGED <<head, tail, version, value, out>>

PopCheck(t) ==
  /\ MayDrain(t)
  /\ Goto(t, "popCheck", "popCas")
  /\ UNCHANGED <<head, tail, version, value, idx, val, out>>

PopContended(t) ==   \* return false
  /\ head /= idx[t]
  /\ Return(t, "popCas")
  /\ UNCHANGED <<head, tail, version, value, out>>

PopCas(t) ==
  /\ head = idx[t]
  /\ Goto(t, "popCas", "popRead")
  /\ head' = head + 1
  /\ UNCHANGED <<tail, version, value, idx, val, out>>

PopRead(t) ==
  /\ Goto(t, "popRead", "popRelease")
  /\ out' = [out EXCEPT ![t] = value[Slot(idx[t])]]
  /\ UNCHANGED <<head, tail, version, value, idx, val>>

PopRelease(t) ==   \* return true
  /\ Return(t, "popRelease")
  /\ version' = [version EXCEPT ![Slot(idx[t])] = Freed(idx[t])]
  /\ UNCHANGED <<head, tail, value, out>>

-------------------------------------------------------------------------------

PushStep(t) == PushFull(t) \/ PushCheck(t) \/ PushContended(t) \/ PushCas(t)
                 \/ PushWrite(t) \/ PushPublish(t)

PopStep(t) == PopEmpty(t) \/ PopCheck(t) \/ PopContended(t) \/ PopCas(t)
                \/ PopRead(t) \/ PopRelease(t)

Begin(t) == PopBegin(t) \/ \E v \in Values : PushBegin(t, v)

Next == \E t \in Threads : Begin(t) \/ PushStep(t) \/ PopStep(t)

Spec == Init /\ [][Next]_vars

-------------------------------------------------------------------------------
(* What keeps the slots apart. *)

BeingFilled(i)  == \E t \in Threads : pc[t] \in Filling /\ idx[t] = i
BeingDrained(i) == \E t \in Threads : pc[t] \in Draining /\ idx[t] = i

\* Never more elements than slots.
Occupancy == head <= tail /\ tail <= head + Capacity

\* A thread past its compare-and-swap owns an index of its own, and the slot of
\* that index still carries the version it found there.
Ownership ==
  \A t \in Threads :
    /\ pc[t] \in Filling =>
         /\ head <= idx[t] /\ idx[t] < tail
         /\ version[Slot(idx[t])] = idx[t]
         /\ \A u \in Threads \ {t} : pc[u] \in Filling => idx[u] /= idx[t]
    /\ pc[t] \in Draining =>
         /\ idx[t] < head /\ tail <= idx[t] + Capacity
         /\ version[Slot(idx[t])] = Written(idx[t])
         /\ \A u \in Threads \ {t} : pc[u] \in Draining => idx[u] /= idx[t]

\* An index inside the queue is readable unless its producer is still writing it,
\* and one outside is writable unless the consumer of its slot is still reading.
Turns ==
  /\ \A i \in head .. tail - 1 : version[Slot(i)] = Written(i) \/ BeingFilled(i)
  /\ \A i \in tail .. head + Capacity - 1 :
       version[Slot(i)] = i \/ BeingDrained(i - Capacity)

\* A test that succeeded still holds when the compare-and-swap succeeds.
Claims ==
  \A t \in Threads :
    /\ pc[t] \in {"pushCheck", "pushCas"} => idx[t] <= tail
    /\ pc[t] \in {"popCheck", "popCas"} => idx[t] <= head
    /\ pc[t] = "pushCas" /\ idx[t] = tail => version[Slot(tail)] = tail
    /\ pc[t] = "popCas" /\ idx[t] = head => version[Slot(head)] = Written(head)

\* The inductive invariant of push and pop (limero.h:307-354).
IInv == TypeOK /\ Occupancy /\ Ownership /\ Turns /\ Claims

\* No two threads are ever between claiming and giving back the same slot, so the
\* plain, non-atomic `value` is never written while another thread reads or
\* writes it (limero.h:324 against limero.h:348).
NoDataRace ==
  \A t, u \in Threads :
    /\ t /= u
    /\ pc[t] \in Filling \cup Draining
    /\ pc[u] \in Filling \cup Draining
    => Slot(idx[t]) /= Slot(idx[u])

Justified(t) ==
  /\ PushFull(t) \/ PushContended(t) =>
       idx[t] < tail \/ tail = head + Capacity \/ BeingDrained(tail - Capacity)
  /\ PopEmpty(t) \/ PopContended(t) =>
       idx[t] < head \/ head = tail \/ BeingFilled(head)

\* push answers false only because another push got in between, because the
\* queue is full, or because the pop that made room has not given its slot back;
\* pop only because another pop got in between, the queue is empty, or the push
\* at its head is not published (limero.h:311-321, 339-347).
JustifiedFailure == [][\A t \in Threads : Justified(t)]_vars

-------------------------------------------------------------------------------
(* The queue implements BoundedFifo: a push takes effect at its            *)
(* compare-and-swap, a pop at its own.                                     *)

ValueAt(i) ==
  LET writers == {t \in Threads : pc[t] = "pushWrite" /\ idx[t] = i}
  IN IF writers = {} THEN value[Slot(i)] ELSE val[CHOOSE t \in writers : TRUE]

Contents == [k \in 1 .. tail - head |-> ValueAt(head + k - 1)]

Taken == [t \in Threads |-> IF pc[t] = "popRead" THEN value[Slot(idx[t])] ELSE out[t]]

Fifo == INSTANCE BoundedFifo WITH q <- Contents, got <- Taken

\* Values come out once each, whole, in the order their pushes claimed an index.
ImplementsFifo == Fifo!Spec
===============================================================================
