------------------------------ MODULE EventLoop ------------------------------
(***************************************************************************)
(* Thread::run on Linux (linux/src/limero.cpp), the loop every callback of *)
(* the program runs on, and the TimerSources attached to it                *)
(* (common/src/limero.h).  Each round looks for the timer that expires     *)
(* first; if it has expired its request() is called, otherwise select()    *)
(* waits for it, for a wakeup in the pipe and for the read descriptors,    *)
(* and one wakeup and every descriptor it reported are served.             *)
(*                                                                         *)
(* Time is in ticks and relative to now.  A callback takes at most MaxBusy *)
(* ticks, with the work of the loop after it.  Callbacks may reset timers  *)
(* and enqueue to their own thread; they do not change the invokers.       *)
(***************************************************************************)
EXTENDS Integers, FiniteSets

CONSTANTS Timers,      \* _timers, numbered in the order of addTimer
          Repeating,   \* those with _repeat
          Reset,       \* those that callbacks reset()
          Interval,    \* _interval of each
          Fds,         \* descriptors with a read invoker
          Horizon,     \* the 5000 msec of run()
          Far,         \* UINT32_MAX msec
          MaxBusy,     \* longest callback
          MaxPipe,     \* bound on wakeups in the pipe
          MaxSteps,    \* bound on the times the clock is set back
          Step         \* by how much

None == 0            \* no timer
ReadPipe == "pipe"   \* _readPipe among the descriptors

ASSUME TimerAssumption ==
  /\ Timers \subseteq Nat \ {0} /\ IsFiniteSet(Timers)
  /\ Repeating \subseteq Timers /\ Reset \subseteq Timers
  /\ Interval \in [Timers -> Nat \ {0}]
ASSUME FdAssumption == IsFiniteSet(Fds) /\ ReadPipe \notin Fds
ASSUME TimeAssumption ==
  /\ Horizon \in Nat \ {0} /\ Far \in Nat /\ Far > Horizon
  /\ MaxBusy \in Nat /\ Step \in Nat
ASSUME LoopBoundAssumption == MaxPipe \in Nat /\ MaxSteps \in Nat

VARIABLES left,    \* _expireTime - Sys::millis() of each timer
          ready,   \* descriptors with something to read
          pipe,    \* wakeups in the pipe
          pc,      \* where run() is
          chosen,  \* expiredTimer
          wait,    \* what is left of select()'s timeout
          rfds,    \* what select() reported and is not served yet
          busy,    \* ticks since the last callback began
          steps    \* times the clock was set back

vars == <<left, ready, pipe, pc, chosen, wait, rfds, busy, steps>>

TypeOK ==
  /\ left \in [Timers -> Int]
  /\ ready \subseteq Fds
  /\ pipe \in 0 .. MaxPipe
  /\ pc \in {"scan", "select", "dispatch", "expire"}
  /\ chosen \in Timers \cup {None}
  /\ wait \in 0 .. Horizon
  /\ rfds \subseteq Fds \cup {ReadPipe}
  /\ busy \in 0 .. MaxBusy
  /\ steps \in 0 .. MaxSteps

\* The constructor starts a repeating timer, main() the others.
Init ==
  /\ left = Interval
  /\ ready = {} /\ pipe = 0
  /\ pc = "scan" /\ chosen = None /\ wait = 0 /\ rfds = {}
  /\ busy = 0 /\ steps = 0

-------------------------------------------------------------------------------
(* The rest of the world *)

Readable == ready \cup IF pipe > 0 THEN {ReadPipe} ELSE {}

Asleep == pc = "select" /\ wait > 0 /\ Readable = {}

Tick ==
  /\ Asleep \/ busy < MaxBusy
  /\ left' = [t \in Timers |-> left[t] - 1]
  /\ wait' = IF pc = "select" /\ wait > 0 THEN wait - 1 ELSE wait
  /\ busy' = IF Asleep THEN 0 ELSE busy + 1
  /\ UNCHANGED <<ready, pipe, pc, chosen, rfds, steps>>

\* Sys::millis() is CLOCK_REALTIME.
ClockSetBack ==
  /\ steps < MaxSteps
  /\ steps' = steps + 1
  /\ left' = [t \in Timers |-> left[t] + Step]
  /\ UNCHANGED <<ready, pipe, pc, chosen, wait, rfds, busy>>

DataArrives(f) == /\ ready' = ready \cup {f}
                  /\ UNCHANGED <<left, pipe, pc, chosen, wait, rfds, busy, steps>>

Enqueue == /\ pipe < MaxPipe
           /\ pipe' = pipe + 1
           /\ UNCHANGED <<left, ready, pc, chosen, wait, rfds, busy, steps>>

-------------------------------------------------------------------------------
(* Thread::run *)

Soon == {t \in Timers : left[t] < Horizon}

\* Mutant of Earliest: the first timer within the horizon, not the one that expires first.
FirstSoon == CHOOSE t \in Soon : \A u \in Soon : t <= u

\* The first in the list among those that expire first.
Earliest == CHOOSE t \in Soon : \A u \in Soon : left[t] < left[u] \/ (left[t] = left[u] /\ t <= u)

\* Mutant of Scan: run() has no branch for a timer that has already expired.
ScanAhead ==
  /\ pc = "scan"
  /\ chosen' = IF Soon = {} THEN None ELSE Earliest
  /\ wait' = IF Soon = {} THEN Horizon ELSE IF left[Earliest] > 0 THEN left[Earliest] ELSE 0
  /\ pc' = IF wait' > 0 THEN "select" ELSE "scan"
  /\ UNCHANGED <<left, ready, pipe, rfds, busy, steps>>

Scan ==
  /\ pc = "scan"
  /\ chosen' = IF Soon = {} THEN None ELSE Earliest
  /\ LET waitTime == IF Soon = {} THEN Horizon ELSE left[Earliest]
     IN IF waitTime > 0 THEN pc' = "select" /\ wait' = waitTime
        ELSE pc' = "expire" /\ wait' = 0
  /\ UNCHANGED <<left, ready, pipe, rfds, busy, steps>>

\* Mutant of Select: the descriptors are looked at only if nothing is in the pipe.
SelectPipeFirst ==
  /\ pc = "select" /\ Readable /= {}
  /\ pc' = "dispatch"
  /\ rfds' = IF pipe > 0 THEN {ReadPipe} ELSE Readable
  /\ wait' = 0
  /\ UNCHANGED <<left, ready, pipe, chosen, busy, steps>>

Select ==
  /\ pc = "select" /\ Readable /= {}
  /\ pc' = "dispatch"
  /\ rfds' = Readable
  /\ wait' = 0
  /\ UNCHANGED <<left, ready, pipe, chosen, busy, steps>>

SelectTimeout ==
  /\ pc = "select" /\ Readable = {} /\ wait = 0
  /\ pc' = IF chosen = None THEN "scan" ELSE "expire"
  /\ UNCHANGED <<left, ready, pipe, chosen, wait, rfds, busy, steps>>

\* What a callback may do besides taking time, when the timers are at l and the
\* pipe at p.
Callback(l, p) ==
  /\ busy' = 0
  /\ left' \in {l} \cup {[l EXCEPT ![t] = Interval[t]] : t \in Reset}
  /\ pipe' \in {p} \cup IF p < MaxPipe THEN {p + 1} ELSE {}

NextPc == IF rfds' = {} THEN "scan" ELSE "dispatch"

\* One wakeup, whatever the number in the pipe.
ServePipe ==
  /\ pc = "dispatch" /\ ReadPipe \in rfds
  /\ rfds' = rfds \ {ReadPipe}
  /\ pc' = NextPc
  /\ Callback(left, pipe - 1)
  /\ UNCHANGED <<ready, chosen, wait, steps>>

\* The invokers, in the order of the hash table.
ServeFd(f) ==
  /\ pc = "dispatch" /\ ReadPipe \notin rfds /\ f \in rfds
  /\ rfds' = rfds \ {f}
  /\ pc' = NextPc
  /\ ready' = ready \ {f}
  /\ Callback(left, pipe)
  /\ UNCHANGED <<chosen, wait, steps>>

\* TimerSource::request; a repeating timer that is more than an interval late
\* skips what it missed.
NewExpireTime(t) ==
  IF t \notin Repeating THEN Far
  ELSE IF left[t] + Interval[t] < 0 THEN Interval[t] ELSE left[t] + Interval[t]

Expire(t) ==
  /\ pc = "expire" /\ chosen = t /\ left[t] <= 0
  /\ pc' = "scan"
  /\ Callback([left EXCEPT ![t] = NewExpireTime(t)], pipe)
  /\ UNCHANGED <<ready, chosen, wait, rfds, steps>>

NotExpired == /\ pc = "expire" /\ left[chosen] > 0
              /\ pc' = "scan"
              /\ UNCHANGED <<left, ready, pipe, chosen, wait, rfds, busy, steps>>

-------------------------------------------------------------------------------

Run == \/ Scan \/ Select \/ SelectTimeout \/ ServePipe \/ NotExpired
       \/ \E f \in Fds : ServeFd(f)
       \/ \E t \in Timers : Expire(t)

Next == Run \/ Tick \/ ClockSetBack \/ Enqueue \/ \E f \in Fds : DataArrives(f)

Spec == Init /\ [][Next]_vars

\* The thread runs and time passes, even if the loop never sleeps.
FairSpec == Spec /\ WF_vars(Run) /\ SF_vars(Tick)

-------------------------------------------------------------------------------

\* A due timer is never later than one round of callbacks: those of the other timers,
\* one wakeup and every descriptor (limero.cpp:148-166).
Punctual ==
  \A t \in Timers : left[t] >= - MaxBusy * (Cardinality(Timers) + Cardinality(Fds) + 1)

\* By the clock that is.  When it is set back, a repeating timer is put off by as much and no
\* more: no loop, late timer or reset() adds to it (limero.h:476-482, Sys.cpp:41-47).
PutOff == \A t \in Repeating : left[t] <= Interval[t] + Step * steps

\* The type of the state, and no timer late or put off (limero.cpp:106-181).
LInv == TypeOK /\ Punctual /\ PutOff

\* However busy the descriptors, the pipe and the other timers are, a repeating timer that
\* nobody resets expires again and again (limero.cpp:148-166, limero.h:476-482).
TimersFire == \A t \in Repeating \ Reset : []<><<Expire(t)>>_vars

\* However busy the timers are, what a descriptor received is read, and a wakeup is
\* served (limero.cpp:70-85).
InputServed ==
  /\ \A f \in Fds : f \in ready ~> f \notin ready
  /\ <>[](pipe = 0) \/ []<><<ServePipe>>_vars
===============================================================================
