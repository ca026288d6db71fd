--------------------------------- MODULE Cache ---------------------------------
(***************************************************************************)
(* A ValueFlow that other threads assign to, async() on the thread of the  *)
(* loop, and the Cache it feeds (common/src/limero.h).  The ValueFlow      *)
(* keeps one value and puts itself in the thread's pipe, where the wakeups *)
(* of other flows are too; the Cache passes on what it gets, at once if it *)
(* was silent for its minimum and with its timer otherwise, and repeats    *)
(* itself when it was silent for its maximum.                              *)
(*                                                                         *)
(* Time is in ticks.  The loop may be late for the timer, by Slack at most *)
(* (EventLoop!Punctual).  Values are words: an assignment is one step.     *)
(***************************************************************************)
EXTENDS Integers, FiniteSets

CONSTANTS Setters,       \* the threads that assign to the flow
          Values,
          NoValue,       \* what _t is before the first value
          Minimum, Maximum, Slack,
          PipeCapacity   \* wakeups the pipe holds before write() fails

ASSUME ValuesAssumption == NoValue \notin Values
ASSUME CacheAssumption == Minimum \in Nat /\ Maximum \in Nat /\ Slack \in Nat
ASSUME PipeAssumption == PipeCapacity \in Nat

VARIABLES value,        \* ValueFlow::_t
          mustEnqueue,  \* setters between the assignment and enqueue()
          wakeups,      \* the flow's entries in the pipe
          others,       \* those of other flows
          overflow,     \* one was refused (stats.threadQueueOverflow)
          held,         \* Cache::_t
          unsent,       \* _unsendValue
          sinceSend,    \* now - _lastSend
          timer,        \* _timerSource._expireTime - now
          sent,         \* the last value emitted
          waiting,      \* ticks since a value first had to wait
          age,          \* ticks since the last emission
          gap,          \* ticks between that one and the one before
          span          \* ticks the last three emissions took

flow == <<value, mustEnqueue, wakeups, others, overflow>>
clock == <<sinceSend, timer, waiting, age>>
cacheVars == <<flow, clock, held, unsent, sent, gap, span>>

Silence == Maximum + Minimum + Slack
Late == Silence + 2   \* counters stop here
Future == -1          \* a _lastSend that is yet to come, and does not

CacheTypeOK ==
  /\ value \in Values \cup {NoValue}
  /\ mustEnqueue \subseteq Setters
  /\ wakeups \in 0 .. PipeCapacity /\ others \in 0 .. PipeCapacity - wakeups
  /\ overflow \in BOOLEAN
  /\ held \in Values \cup {NoValue} /\ sent \in Values \cup {NoValue}
  /\ unsent \in BOOLEAN
  /\ sinceSend \in {Future} \cup 0 .. Late
  /\ timer \in - Slack .. Minimum
  /\ waiting \in 0 .. Late /\ age \in 0 .. Late /\ gap \in 0 .. Late
  /\ span \in 0 .. 2 * Late

\* _lastSend is not initialised: it may be any time.
CacheInit ==
  /\ value = NoValue /\ held = NoValue /\ sent = NoValue
  /\ mustEnqueue = {} /\ wakeups = 0 /\ others = 0 /\ overflow = FALSE
  /\ unsent = FALSE /\ waiting = 0
  /\ sinceSend \in {Future} \cup 0 .. Late
  /\ timer = Minimum
  /\ age = Late /\ gap = Late /\ span = 2 * Late

-------------------------------------------------------------------------------
(* ValueFlow::on, on the setter's thread, and the pipe *)

Assign(s, v) == /\ s \notin mustEnqueue
                /\ value' = v
                /\ mustEnqueue' = mustEnqueue \cup {s}
                /\ UNCHANGED <<wakeups, others, overflow, held, unsent, sent, gap, span, clock>>

\* Mutant of EnqueueOverflow: the loss is not counted.
EnqueueSilently(s) == /\ s \in mustEnqueue /\ wakeups + others = PipeCapacity
                      /\ mustEnqueue' = mustEnqueue \ {s}
                      /\ UNCHANGED <<value, wakeups, others, overflow, held, unsent, sent, gap, span,
                                     clock>>

EnqueueOverflow(s) == /\ s \in mustEnqueue /\ wakeups + others = PipeCapacity
                      /\ mustEnqueue' = mustEnqueue \ {s}
                      /\ overflow' = TRUE
                      /\ UNCHANGED <<value, wakeups, others, held, unsent, sent, gap, span, clock>>

EnqueueFlow(s) == /\ s \in mustEnqueue /\ wakeups + others < PipeCapacity
                  /\ mustEnqueue' = mustEnqueue \ {s}
                  /\ wakeups' = wakeups + 1
                  /\ UNCHANGED <<value, others, overflow, held, unsent, sent, gap, span, clock>>

OtherFlow == /\ others' \in {others - 1, others + 1}
             /\ others' \in 0 .. PipeCapacity - wakeups
             /\ UNCHANGED <<value, mustEnqueue, wakeups, overflow, held, unsent, sent, gap, span, clock>>

-------------------------------------------------------------------------------
(* The thread of the loop *)

Emit(v) == /\ sent' = v /\ age' = 0 /\ gap' = age /\ span' = age + gap
           /\ unsent' = FALSE /\ waiting' = 0

Keep == /\ unsent' = TRUE
        /\ waiting' = IF unsent THEN waiting ELSE 0
        /\ UNCHANGED <<sent, sinceSend, age, gap, span>>

\* Mutant of OnValue: _lastSend is not set.
OnValueUntimed(v) ==
  /\ held' = v
  /\ IF sinceSend > Minimum THEN Emit(v) /\ UNCHANGED sinceSend ELSE Keep

\* Cache::on(const T &)
OnValue(v) ==
  /\ held' = v
  /\ IF sinceSend > Minimum THEN Emit(v) /\ sinceSend' = 0 ELSE Keep

\* ValueFlow::invoke emits what is there by now.
Invoke == /\ wakeups > 0
          /\ wakeups' = wakeups - 1
          /\ OnValue(value)
          /\ UNCHANGED <<value, mustEnqueue, others, overflow, timer>>

Due == unsent \/ sinceSend > Maximum

\* Mutant of OnTimer: the timer runs only as long as there is something to send.
OnTimerOnce ==
  /\ timer <= 0
  /\ timer' = IF Due THEN Minimum ELSE Minimum + Late
  /\ IF Due THEN Emit(held) /\ sinceSend' = 0
     ELSE UNCHANGED <<unsent, sent, waiting, sinceSend, age, gap, span>>
  /\ UNCHANGED <<flow, held>>

\* Cache::on(const TimerMsg &)
OnTimer ==
  /\ timer <= 0
  /\ timer' = Minimum
  /\ IF Due THEN Emit(held) /\ sinceSend' = 0
     ELSE UNCHANGED <<unsent, sent, waiting, sinceSend, age, gap, span>>
  /\ UNCHANGED <<flow, held>>

Later(n) == IF n < Late THEN n + 1 ELSE n

CacheTick == /\ timer > - Slack
             /\ timer' = timer - 1
             /\ sinceSend' = IF sinceSend = Future THEN Future ELSE Later(sinceSend)
             /\ waiting' = Later(waiting) /\ age' = Later(age)
             /\ UNCHANGED <<flow, held, unsent, sent, gap, span>>

-------------------------------------------------------------------------------

CacheNext == \/ \E s \in Setters : \/ \E v \in Values : Assign(s, v)
                                   \/ EnqueueFlow(s) \/ EnqueueOverflow(s)
             \/ OtherFlow \/ Invoke \/ OnTimer \/ CacheTick

CacheSpec == CacheInit /\ [][CacheNext]_cacheVars

-------------------------------------------------------------------------------

\* The newest value has been emitted, or waits for the timer, or for a wakeup that is in
\* the pipe or about to be; else a wakeup was refused and counted (limero.h:631-642,
\* 839-847).
NewestOnItsWay ==
  value = sent \/ unsent \/ wakeups > 0 \/ mustEnqueue /= {} \/ overflow

\* Not two, but any three emissions take the minimum at least, however fast values come:
\* the timer does not know when the last one was (limero.h:631-659).
Limited == span >= Minimum

\* No value waits longer than the minimum, and once one was emitted the silence is never
\* longer than the maximum and a turn of the timer, but for what the loop is late
\* (limero.h:643-659).
Prompt ==
  /\ unsent => waiting <= Minimum + Slack
  /\ sent /= NoValue => age <= Silence

\* The type of the state, and no value forgotten.
VInv == CacheTypeOK /\ NewestOnItsWay
===============================================================================
