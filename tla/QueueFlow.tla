------------------------------ MODULE QueueFlow ------------------------------
(***************************************************************************)
(* An asynchronous QueueFlow (common/src/limero.h) and the Linux Thread    *)
(* that serves it (linux/src/limero.cpp).  on() pushes the value on the    *)
(* flow's ArrayQueue and, only if that succeeded, writes the flow's        *)
(* address to the thread's pipe; the thread reads one address at a time    *)
(* and calls invoke(), which pops once and emits what it got.  Nothing     *)
(* else ever looks at the queue: an element is delivered only if a wakeup  *)
(* is left for it.                                                         *)
(*                                                                         *)
(* The thread's timers are left out: Loop reads the pipe whenever it can.  *)
(***************************************************************************)
EXTENDS ArrayQueue, FiniteSets

CONSTANTS Loop,          \* the Thread the flow is async() on
          PipeCapacity   \* wakeups the pipe holds before write() fails

ASSUME LoopAssumption == Loop \in Threads /\ IsFiniteSet(Threads)
ASSUME PipeAssumption == PipeCapacity \in Nat

Producers == Threads \ {Loop}

VARIABLES pipe,        \* wakeups written and not read
          mustEnqueue, \* producers between a successful push and their enqueue
          overflow,    \* stats.threadQueueOverflow
          noData       \* wakeups that found nothing to pop

flowVars == <<vars, pipe, mustEnqueue, overflow, noData>>

FlowTypeOK == /\ TypeOK
              /\ pipe \in 0 .. PipeCapacity
              /\ mustEnqueue \subseteq Producers
              /\ overflow \in Nat /\ noData \in Nat

FlowInit == /\ Init
            /\ pipe = 0 /\ mustEnqueue = {}
            /\ overflow = 0 /\ noData = 0

-------------------------------------------------------------------------------
(* QueueFlow::on, Thread::enqueue *)

On(p, v) == /\ p \notin mustEnqueue
            /\ PushBegin(p, v)
            /\ UNCHANGED <<pipe, mustEnqueue, overflow, noData>>

\* push is under way, or returns false: the value is dropped with a warning.
Pushes(p) == /\ PushFull(p) \/ PushCheck(p) \/ PushContended(p) \/ PushCas(p) \/ PushWrite(p)
             /\ UNCHANGED <<pipe, mustEnqueue, overflow, noData>>

\* Mutant of Pushed: no wakeup at all.
PushedSilently(p) == PushPublish(p) /\ UNCHANGED <<pipe, mustEnqueue, overflow, noData>>

Pushed(p) == /\ PushPublish(p)
             /\ mustEnqueue' = mustEnqueue \cup {p}
             /\ UNCHANGED <<pipe, overflow, noData>>

Enqueue(p) == /\ p \in mustEnqueue
              /\ pipe < PipeCapacity
              /\ pipe' = pipe + 1
              /\ mustEnqueue' = mustEnqueue \ {p}
              /\ UNCHANGED <<vars, overflow, noData>>

\* Mutant of EnqueueOverflow: the loss is not counted.
EnqueueSilently(p) == /\ p \in mustEnqueue
                      /\ pipe = PipeCapacity
                      /\ mustEnqueue' = mustEnqueue \ {p}
                      /\ UNCHANGED <<vars, pipe, overflow, noData>>

\* The element stays in the queue: on() ignores ENOBUFS.
EnqueueOverflow(p) == /\ p \in mustEnqueue
                      /\ pipe = PipeCapacity
                      /\ overflow' = overflow + 1
                      /\ mustEnqueue' = mustEnqueue \ {p}
                      /\ UNCHANGED <<vars, pipe, noData>>

-------------------------------------------------------------------------------
(* Thread::waitInvoker, QueueFlow::invoke *)

Wake == /\ pipe > 0
        /\ PopBegin(Loop)
        /\ pipe' = pipe - 1
        /\ UNCHANGED <<mustEnqueue, overflow, noData>>

\* The thread is alone in popping, so its compare-and-swap cannot fail.
Invoke == /\ PopCheck(Loop) \/ PopCas(Loop) \/ PopRead(Loop) \/ PopRelease(Loop)
          /\ UNCHANGED <<pipe, mustEnqueue, overflow, noData>>

NoData == /\ PopEmpty(Loop)
          /\ noData' = noData + 1
          /\ UNCHANGED <<pipe, mustEnqueue, overflow>>

-------------------------------------------------------------------------------

Finish(p) == Pushes(p) \/ Pushed(p) \/ Enqueue(p) \/ EnqueueOverflow(p)

Serve == Wake \/ Invoke \/ NoData

FlowNext == \/ \E p \in Producers : Finish(p) \/ \E v \in Values : On(p, v)
            \/ Serve

FlowSpec == FlowInit /\ [][FlowNext]_flowVars

\* Threads are scheduled; nobody has to call on().
FairFlow == FlowSpec /\ WF_flowVars(Serve) /\ \A p \in Producers : WF_flowVars(Finish(p))

-------------------------------------------------------------------------------

\* Producers that own an element for which no wakeup is in the pipe yet.
Owing == {p \in Producers : pc[p] \in Filling} \cup mustEnqueue

\* Wakeups read for which nothing has been popped yet.
Serving == IF pc[Loop] \in {"popCheck", "popCas"} THEN 1 ELSE 0

\* Only producers push, only the thread pops, and it never finds m_head moved.
Roles ==
  /\ \A p \in Producers : pc[p] \in {"idle"} \cup Pushing
  /\ \A p \in mustEnqueue : pc[p] = "idle"
  /\ pc[Loop] \in {"idle", "popCheck", "popCas"} \cup Draining
  /\ Serving = 1 => idx[Loop] = head

\* Every element in the queue has a wakeup in the pipe, about to be written or being
\* served, except those whose wakeup the pipe refused or a pop wasted: these are in
\* debt for ever (limero.h:683-684, 697-700; linux/src/limero.cpp:79-80, 131-134).
WakeupAccounting ==
  tail - head = pipe + Cardinality(Owing) + Serving + overflow + noData

\* The inductive invariant of the flow.
FlowIInv == FlowTypeOK /\ IInv /\ Roles /\ WakeupAccounting

\* A pipe at least as large as the queue never overflows, whatever is lost
\* elsewhere (linux/src/limero.cpp:130-134).
PipeSuffices == Capacity <= PipeCapacity => overflow = 0

\* A wakeup never finds the queue's head unpublished, if nobody else pushes while
\* an element's producer is between its compare-and-swap and its version
\* store (limero.h:697-700).
WakeupsFindData == Cardinality(Producers) = 1 => noData = 0

\* What on() accepted is emitted, even if nothing is ever pushed again, except as
\* many of the last elements as wakeups are lost: refused by the pipe, or spent while
\* the head was claimed and not yet published (limero.h:679-705, linux/src/
\* limero.cpp:79-80, 131-134).
Delivered ==
  \A i \in 0 .. IndexBound - 1, lost \in 0 .. Capacity :
    [](overflow + noData <= lost) => (tail > i + lost ~> head > i)
===============================================================================
