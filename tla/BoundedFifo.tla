----------------------------- MODULE BoundedFifo -----------------------------
(***************************************************************************)
(* What ArrayQueue (common/src/limero.h) promises its callers: a queue of  *)
(* at most Capacity values, put and got atomically, in order.  got[t] is   *)
(* the value thread t took with its last successful pop.                   *)
(***************************************************************************)
EXTENDS Naturals, Sequences

CONSTANTS Threads, Values, Capacity, NoValue

VARIABLES q, got

vars == <<q, got>>

TypeOK == /\ q \in Seq(Values)
          /\ Len(q) <= Capacity
          /\ got \in [Threads -> Values \cup {NoValue}]

Init == q = <<>> /\ got = [t \in Threads |-> NoValue]

Put(t, v) == /\ Len(q) < Capacity
             /\ q' = Append(q, v)
             /\ UNCHANGED got

Get(t) == /\ q /= <<>>
          /\ got' = [got EXCEPT ![t] = Head(q)]
          /\ q' = Tail(q)

Next == \E t \in Threads : Get(t) \/ \E v \in Values : Put(t, v)

Spec == Init /\ [][Next]_vars
==============================================================================
