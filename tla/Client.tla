------------------------------- MODULE Client -------------------------------
(***************************************************************************)
(* The microcontroller: one loop that serves timers, then one wakeup of    *)
(* its work queue, then what the serial line has received                  *)
(* (arduino_client/src/main.cpp, limero.cpp, BrokerSerial.cpp), on the     *)
(* interrupt-safe ArrayQueue of common/src/limero.h.                       *)
(*                                                                         *)
(* The module is about wakeups.  Thread::enqueue ignores that its queue is *)
(* full, so an element can stay in _outgoing or _incoming without one.     *)
(* KeepAlive has the protocol with the proxy; EventLoop has the timers'    *)
(* order.  Queues are counted: which wakeup or message comes first does    *)
(* not matter here.                                                        *)
(***************************************************************************)
EXTENDS Naturals

CONSTANTS WorkSize, OutgoingSize, IncomingSize,   \* as given to the constructors
          LoopbackInterval, AliveInterval, ConnectInterval

ASSUME SizeAssumption ==
  WorkSize \in Nat \ {0} /\ OutgoingSize \in Nat \ {0} /\ IncomingSize \in Nat \ {0}
ASSUME IntervalAssumption ==
  {LoopbackInterval, AliveInterval, ConnectInterval} \subseteq Nat \ {0}

Queues   == {"outgoing", "incoming"}
Invokers == Queues \cup {"connected"}
Timers   == {"loopback", "alive", "connect"}

Interval == [loopback |-> LoopbackInterval, alive |-> AliveInterval, connect |-> ConnectInterval]

\* A ring of n slots holds n - 1 elements.
Usable(n) == n - 1

Capacity(q) == Usable(IF q = "outgoing" THEN OutgoingSize ELSE IncomingSize)

VARIABLES elements,     \* in each queue
          work,         \* in the work queue, for each invoker
          connected,    \* the value of the flow connected
          slow,         \* blinkSlow: what the LED shows
          left,         \* time until each timer is due
          served,       \* auxiliary: the loop has run since the last tick
          signalled     \* auxiliary: the last change of connected has got its wakeup

vars == <<elements, work, connected, slow, left, served, signalled>>

Wakeups(w) == w["outgoing"] + w["incoming"] + w["connected"]

TypeOK ==
  /\ elements \in [Queues -> Nat]
  /\ elements["outgoing"] < OutgoingSize /\ elements["incoming"] < IncomingSize
  /\ work \in [Invokers -> Nat] /\ Wakeups(work) < WorkSize
  /\ connected \in BOOLEAN /\ slow \in BOOLEAN
  /\ left \in [Timers -> Nat] /\ \A t \in Timers : left[t] <= Interval[t]
  /\ served \in BOOLEAN /\ signalled \in BOOLEAN

\* After setup(): node() has set connected to false.
Init ==
  /\ elements = [q \in Queues |-> 0]
  /\ work = [i \in Invokers |-> IF i = "connected" /\ WorkSize > 1 THEN 1 ELSE 0]
  /\ connected = FALSE /\ slow = FALSE
  /\ left = Interval
  /\ served = FALSE /\ signalled \in {b \in BOOLEAN : b <=> WorkSize > 1}

-------------------------------------------------------------------------------
(* Flows.  s is [elements, work] within a callback.                        *)

State == [elements |-> elements, work |-> work]
Store(s) == elements' = s.elements /\ work' = s.work

\* Thread::enqueue: the result of push is ignored.
Room(s) == Wakeups(s.work) < Usable(WorkSize)
Enqueue(s, i) == IF Room(s) THEN [s EXCEPT !.work[i] = @ + 1] ELSE s

\* Mutants: a wakeup even if push fails; none at all.
OnAnyway(s, q) ==
  IF s.elements[q] < Capacity(q) THEN Enqueue([s EXCEPT !.elements[q] = @ + 1], q)
                                 ELSE Enqueue(s, q)
OnSilently(s, q) ==
  IF s.elements[q] < Capacity(q) THEN [s EXCEPT !.elements[q] = @ + 1] ELSE s

\* QueueFlow::on.
On(s, q) ==
  IF s.elements[q] < Capacity(q) THEN Enqueue([s EXCEPT !.elements[q] = @ + 1], q) ELSE s

\* connected = value, a ValueFlow on the thread: the value at once, the listeners later.
\* Mutant: a value is signalled the first time only, not when it changes.
AssignOnce(s, value) ==
  /\ connected' = value
  /\ Store(IF value = connected THEN Enqueue(s, "connected") ELSE s)
  /\ signalled' = Room(s)
Assign(s, value) ==
  /\ connected' = value
  /\ Store(Enqueue(s, "connected"))
  /\ signalled' = Room(s)

-------------------------------------------------------------------------------
(* Thread::loop: a timer that is due *)

Due(t) == left[t] = 0

Reload(t) == left' = [left EXCEPT ![t] = Interval[t]] /\ UNCHANGED <<slow, served>>

\* Mutant: nothing is sent until the link is up.
LoopbackIfConnected ==
  /\ Due("loopback") /\ Reload("loopback")
  /\ Store(IF connected THEN On(State, "outgoing") ELSE State)
  /\ UNCHANGED <<connected, signalled>>

\* NODE is written at once if there is no connection; the loopback message is queued.
LoopbackTimer ==
  /\ Due("loopback") /\ Reload("loopback")
  /\ Store(On(State, "outgoing"))
  /\ UNCHANGED <<connected, signalled>>

\* Host name and heap; the build goes to a temporary copy of its flow and is never queued.
AliveTimer ==
  /\ Due("alive") /\ Reload("alive")
  /\ Store(IF connected THEN On(On(State, "outgoing"), "outgoing") ELSE State)
  /\ UNCHANGED <<connected, signalled>>

ConnectTimer ==
  /\ Due("connect") /\ Reload("connect")
  /\ Assign(State, FALSE)

-------------------------------------------------------------------------------
(* Thread::loop: no timer is due, the next wakeup is invoked *)

Popped(i) == [State EXCEPT !.work[i] = @ - 1]
Taken(q) == [Popped(q) EXCEPT !.elements[q] = @ - 1]

Invoked(i) ==
  /\ \A t \in Timers : ~ Due(t)
  /\ work[i] > 0
  /\ served' = TRUE

\* _outgoing: framed and written.
InvokeOutgoing ==
  /\ Invoked("outgoing")
  /\ Store(IF elements["outgoing"] > 0 THEN Taken("outgoing") ELSE Popped("outgoing"))
  /\ UNCHANGED <<connected, slow, left, signalled>>

\* _incoming: an answer to a loopback message publishes the latency, and is the sign of life.
InvokeIncoming ==
  /\ Invoked("incoming")
  /\ \/ /\ elements["incoming"] > 0
        /\ Assign(On(Taken("incoming"), "outgoing"), TRUE)
        /\ left' = [left EXCEPT !["connect"] = ConnectInterval]
     \/ /\ Store(IF elements["incoming"] > 0 THEN Taken("incoming") ELSE Popped("incoming"))
        /\ UNCHANGED <<connected, left, signalled>>
  /\ UNCHANGED slow

InvokeConnected ==
  /\ Invoked("connected")
  /\ Store(Popped("connected"))
  /\ slow' = connected
  /\ UNCHANGED <<connected, left, signalled>>

-------------------------------------------------------------------------------

\* onRxd: a frame with a PUBLISH was received.
Receive ==
  /\ Store(On(State, "incoming"))
  /\ UNCHANGED <<connected, slow, left, served, signalled>>

\* Between two ticks the loop serves the timers and at least one wakeup.
Tick ==
  /\ \A t \in Timers : ~ Due(t)
  /\ served \/ Wakeups(work) = 0
  /\ left' = [t \in Timers |-> left[t] - 1]
  /\ served' = FALSE
  /\ UNCHANGED <<elements, work, connected, slow, signalled>>

Expire == LoopbackTimer \/ AliveTimer \/ ConnectTimer

Next == Expire \/ InvokeOutgoing \/ InvokeIncoming \/ InvokeConnected \/ Receive \/ Tick

Spec == Init /\ [][Next]_vars

\* The loop runs and time passes; the work queue is first in, first out, so none of its
\* invokers waits for ever while others are invoked.
FairSpec ==
  /\ Spec
  /\ WF_vars(Expire) /\ WF_vars(Tick)
  /\ SF_vars(InvokeOutgoing) /\ SF_vars(InvokeIncoming) /\ SF_vars(InvokeConnected)

-------------------------------------------------------------------------------
(* Properties *)

\* No wakeup is without its element: invoke() never finds an empty queue.
WakeupsFindData == \A q \in Queues : work[q] <= elements[q]

\* The inductive invariant: neither ring nor the work queue is ever overfilled, and no
\* wakeup ever finds its queue empty (limero.h:186-231, 679-705; limero.cpp:26-31).
CInv == TypeOK /\ WakeupsFindData

Stranded(q) == elements[q] - work[q]

\* An element loses its wakeup only when the work queue is full, and a queue that has lost
\* one never gets it back (limero.cpp:26-31, limero.h:679-692).
StrandedForGood ==
  [][\A q \in Queues :
       \/ Stranded(q)' = Stranded(q)
       \/ Stranded(q)' > Stranded(q) /\ Wakeups(work') = Usable(WorkSize)]_vars

\* The LED shows the connection, unless a wakeup is under way or was lost
\* (main.cpp:56, limero.h:840-847).
LedAgrees == work["connected"] = 0 /\ signalled => slow = connected

\* As long as _outgoing has a slot that is not taken by a stranded element, the node keeps
\* writing messages, however much it receives (BrokerSerial.cpp:97-102).
KeepsSending ==
  <>[] (Stranded("outgoing") < Capacity("outgoing")) => []<> <<InvokeOutgoing>>_vars
=============================================================================
