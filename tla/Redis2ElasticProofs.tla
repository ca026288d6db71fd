------------------------- MODULE Redis2ElasticProofs -------------------------
(***************************************************************************)
(* Theorems about the two programs that copy to Elasticsearch              *)
(* (Redis2Elastic), for any capacity of the queues and any number of       *)
(* records, values and faults.                                             *)
(***************************************************************************)
EXTENDS Redis2Elastic, SequenceTheorems, TLAPS

USE CapacityAssumption, BoundAssumption

Entries == [item : Items, ready : BOOLEAN]
Message == [n : Nat, payload : Payloads]

LEMMA AppendSeq ==
  ASSUME NEW S, NEW s \in Seq(S), NEW e \in S
  PROVE  /\ Append(s, e) \in Seq(S) /\ Len(Append(s, e)) = Len(s) + 1
         /\ Append(s, e)[Len(s) + 1] = e
         /\ \A i \in 1 .. Len(s) : Append(s, e)[i] = s[i]
  OBVIOUS

LEMMA FunctionIsSeq ==
  ASSUME NEW S, NEW n \in Nat, NEW f \in [1 .. n -> S]
  PROVE  f \in Seq(S) /\ Len(f) = n
  OBVIOUS

LEMMA EmptyOrNot ==
  ASSUME NEW S, NEW s \in Seq(S)
  PROVE  Len(s) \in Nat /\ (s = <<>> <=> Len(s) = 0)
  OBVIOUS

LEMMA EmptyIsSeq == ASSUME NEW S PROVE <<>> \in Seq(S) /\ Len(<<>>) = 0
  OBVIOUS

LEMMA ItemTypes == \A k \in Nat : Record(k) \in Items /\ Value(k) \in Items
  BY DEF Record, Value, Items

LEMMA RouteType == \A kind : Route(kind) \in Indexes
  BY DEF Route, Indexes

\* The parts of TypeOK that one group of steps can disturb.
ServerTypes == /\ program \in Programs
               /\ up \in BOOLEAN /\ faults \in 0 .. MaxFaults
               /\ records \in 0 .. MaxRecords /\ values \in 0 .. MaxValues
BrokerTypes ==
  /\ sub \in {"none", "open", "closed"} /\ subscribed \in BOOLEAN
  /\ inbox \in Seq(Message)
  /\ pub \in {"none", "open", "closed", "error", "freed"} /\ connected \in BOOLEAN
ThreadTypes ==
  /\ wpc \in {"start", "loop", "freed", "connect", "claimed"} /\ wvalue \in Nat
  /\ mpc \in {"start", "loop", "checked", "waiting", "push", "claimed", "stale", "dead"}
  /\ answer \in Seq(Nat) /\ reply \in Seq(Nat)
QueueTypes ==
  /\ queue \in [Indexes -> Seq(Entries)]
  /\ \A q \in Indexes : Len(queue[q]) <= Capacity
ElasticTypes == wakeups \in [Indexes -> Nat] /\ noData \in Nat /\ indexed \in Seq(Items)
HistoryTypes == /\ awaited \subseteq Nat /\ lost \subseteq Items
                /\ alone \in BOOLEAN /\ undefined \in BOOLEAN

LEMMA TypeParts ==
  TypeOK <=> /\ ServerTypes /\ BrokerTypes /\ ThreadTypes
             /\ QueueTypes /\ ElasticTypes /\ HistoryTypes
  BY DEF TypeOK, ServerTypes, BrokerTypes, ThreadTypes, QueueTypes, ElasticTypes, HistoryTypes,
         Entries, Message

\* What connect() leaves behind.
LEMMA ConnectedTypes ==
  ASSUME BrokerTypes, NEW patterns \in BOOLEAN, Connected(patterns)
  PROVE  BrokerTypes'
<1>1. inbox' \in Seq(Message)
  BY EmptyIsSeq DEF Connected
<1>2. CASE up
  BY <1>1, <1>2 DEF BrokerTypes, Connected
<1>3. CASE ~ up
  BY <1>1, <1>3 DEF BrokerTypes, Connected
<1> QED BY <1>2, <1>3

LEMMA ClaimTypes ==
  ASSUME QueueTypes, NEW item \in Items, Claim(item)
  PROVE  LET q == Route(item.kind) IN
         /\ queue' = [queue EXCEPT ![q] = Append(queue[q], [item |-> item, ready |-> FALSE])]
         /\ QueueTypes'
<1> DEFINE q == Route(item.kind)
           entry == [item |-> item, ready |-> FALSE]
<1>1. queue' = [queue EXCEPT ![q] = Append(queue[q], entry)] /\ Len(queue[q]) < Capacity
  BY DEF Claim
<1>2. entry \in Entries /\ q \in Indexes
  BY RouteType DEF Entries
<1> HIDE DEF q, entry
<1>3. Append(queue[q], entry) \in Seq(Entries) /\ Len(Append(queue[q], entry)) = Len(queue[q]) + 1
  BY <1>2, AppendSeq DEF QueueTypes
<1>4. Len(queue[q]) \in Nat
  BY <1>2 DEF QueueTypes
<1>5. QueueTypes'
  BY <1>1, <1>2, <1>3, <1>4 DEF QueueTypes
<1> QED BY <1>1, <1>5 DEF q, entry

LEMMA PublishTypes ==
  ASSUME QueueTypes, NEW item \in Items, Publish(item)
  PROVE  LET q == Route(item.kind) IN
         /\ QueueTypes'
         /\ \A u \in Indexes :
              /\ Len(queue'[u]) = Len(queue[u])
              /\ \A i \in 1 .. Len(queue[u]) :
                   /\ queue'[u][i].item = queue[u][i].item
                   /\ queue[u][i].ready => queue'[u][i].ready
                   /\ u = q /\ queue[u][i].item = item => queue'[u][i].ready
         /\ wakeups' = [wakeups EXCEPT ![q] = wakeups[q] + 1]
<1> DEFINE q == Route(item.kind)
           mark(e) == IF e.item = item THEN [e EXCEPT !.ready = TRUE] ELSE e
           marked == [i \in DOMAIN queue[q] |-> mark(queue[q][i])]
<1>1. q \in Indexes /\ queue' = [queue EXCEPT ![q] = marked]
  BY RouteType DEF Publish
<1>2. \A e \in Entries : /\ mark(e) \in Entries /\ mark(e).item = e.item
                         /\ e.ready => mark(e).ready
                         /\ e.item = item => mark(e).ready
  BY DEF Entries
<1>3. wakeups' = [wakeups EXCEPT ![q] = wakeups[q] + 1]
  BY DEF Publish
<1> HIDE DEF q, mark
<1>4. queue[q] \in Seq(Entries) /\ Len(queue[q]) \in Nat /\ DOMAIN queue[q] = 1 .. Len(queue[q])
  BY <1>1 DEF QueueTypes
<1>5. \A i \in 1 .. Len(queue[q]) : queue[q][i] \in Entries
  BY <1>4, ElementOfSeq
<1>6. \A i \in 1 .. Len(queue[q]) : marked[i] = mark(queue[q][i]) /\ marked[i] \in Entries
  BY <1>2, <1>4, <1>5
<1>7. marked \in Seq(Entries) /\ Len(marked) = Len(queue[q])
  <2>1. marked \in [1 .. Len(queue[q]) -> Entries]
    BY <1>4, <1>6
  <2> HIDE DEF marked
  <2> QED BY <1>4, <2>1, FunctionIsSeq
<1>8. \A i \in 1 .. Len(queue[q]) :
        /\ marked[i].item = queue[q][i].item
        /\ queue[q][i].ready => marked[i].ready
        /\ queue[q][i].item = item => marked[i].ready
  BY <1>2, <1>5, <1>6
<1> HIDE DEF marked
<1>9. QueueTypes'
  BY <1>1, <1>7 DEF QueueTypes
<1>10. \A u \in Indexes :
         /\ Len(queue'[u]) = Len(queue[u])
         /\ \A i \in 1 .. Len(queue[u]) :
              /\ queue'[u][i].item = queue[u][i].item
              /\ queue[u][i].ready => queue'[u][i].ready
              /\ u = q /\ queue[u][i].item = item => queue'[u][i].ready
  BY <1>1, <1>7, <1>8 DEF QueueTypes
<1> QED BY <1>3, <1>9, <1>10 DEF q

-------------------------------------------------------------------------------

\* What an XREAD had to read and loses is records.
LEMMA LostRecords ==
  ASSUME ThreadTypes
  PROVE  {Record(answer[i]) : i \in 1 .. Len(answer)} \subseteq Items
  BY ItemTypes, ElementOfSeq DEF ThreadTypes

LEMMA SeenTypes ==
  ASSUME ThreadTypes, ServerTypes, NEW n \in Nat
  PROVE  Seen(n) \in Seq(Nat) /\ (n > 0 => Seen(n) /= <<>>)
<1>1. CASE answer = <<>>
  <2>1. Seen(n) = [i \in 1 .. n |-> records + i]
    BY <1>1 DEF Seen
  <2>2. \A i \in 1 .. n : records + i \in Nat
    BY DEF ServerTypes
  <2>3. Seen(n) \in Seq(Nat) /\ Len(Seen(n)) = n
    BY <2>1, <2>2
  <2> QED BY <2>3
<1>2. CASE answer /= <<>>
  BY <1>2 DEF Seen, ThreadTypes
<1> QED BY <1>1, <1>2

\* What main takes from a reply is a record, and what it leaves are records.
LEMMA ReplyTypes ==
  ASSUME ThreadTypes, reply /= <<>>
  PROVE  /\ Head(reply) \in Nat /\ Tail(reply) \in Seq(Nat) /\ Record(Head(reply)) \in Items
         /\ Rest(reply) = IF Tail(reply) = <<>> THEN "loop" ELSE "push"
<1>1. /\ Head(reply) \in Nat /\ Tail(reply) \in Seq(Nat)
      /\ Len(Tail(reply)) = Len(reply) - 1 /\ Len(reply) \in Nat
  BY HeadTailProperties DEF ThreadTypes
<1>2. Tail(reply) = <<>> <=> Len(reply) = 1
  BY <1>1, EmptyOrNot
<1> QED BY <1>1, <1>2, ItemTypes DEF Rest

-------------------------------------------------------------------------------

LEMMA InitE == Init => EInv
<1> SUFFICES ASSUME Init PROVE EInv
  OBVIOUS
<1>1. BrokerTypes /\ ThreadTypes
  BY EmptyIsSeq DEF Init, BrokerTypes, ThreadTypes
<1>2. QueueTypes /\ indexed \in Seq(Items)
  BY EmptyIsSeq DEF Init, QueueTypes
<1>3. ServerTypes /\ ElasticTypes /\ HistoryTypes
  <2>1. ServerTypes
    BY DEF Init, ServerTypes
  <2>2. ElasticTypes
    BY <1>2 DEF Init, ElasticTypes
  <2>3. HistoryTypes
    BY DEF Init, HistoryTypes
  <2> QED BY <2>1, <2>2, <2>3
<1>4. Stages
  BY DEF Init, Stages
<1>5. OwnWakeups
  BY EmptyIsSeq DEF Init, OwnWakeups, Claimed, Indexes
<1> QED BY <1>1, <1>2, <1>3, <1>4, <1>5, TypeParts DEF EInv

\* Steps that neither push nor pop, nor leave or enter the middle of a push.
LEMMA KeepsOwnWakeups ==
  ASSUME OwnWakeups, UNCHANGED <<program, queue, wakeups, noData>>,
         mpc' = "claimed" <=> mpc = "claimed", wpc' = "claimed" <=> wpc = "claimed",
         mpc = "claimed" => UNCHANGED reply, wpc = "claimed" => UNCHANGED wvalue
  PROVE  OwnWakeups'
  BY DEF OwnWakeups, Claimed, ClaimedItem, Indexes

Parts == /\ ServerTypes /\ BrokerTypes /\ ThreadTypes
         /\ QueueTypes /\ ElasticTypes /\ HistoryTypes /\ Stages /\ OwnWakeups

LEMMA EParts == (EInv <=> Parts) /\ (EInv' <=> Parts')
  BY DEF EInv, Parts, TypeOK, ServerTypes, BrokerTypes, ThreadTypes, QueueTypes, ElasticTypes,
         HistoryTypes, Entries, Message

\* The environment and the worker's reconnections.
LEMMA EnvironmentKeeps ==
  ASSUME Parts,
         \/ ServerDown \/ ServerUp \/ ConnectionLost
         \/ \E payload \in Payloads : ServerPublishes(payload)
         \/ \E n \in 1 .. 2 : ServerAdds(n)
  PROVE  Parts'
<1> USE DEF Parts, vars, server, broker, worker, mainVars, elastic, history
<1>1. CASE ServerDown \/ ServerUp \/ ConnectionLost
  <2>1. ServerTypes' /\ BrokerTypes' /\ ThreadTypes' /\ HistoryTypes'
    <3>1. ServerTypes'
      <4>1. CASE ServerDown
        <5>1. up' \in BOOLEAN
          BY <4>1, Zenon DEF ServerDown
        <5>2. /\ faults' = faults + 1 /\ faults < MaxFaults
              /\ UNCHANGED <<program, records, values>>
          BY <4>1 DEF ServerDown
        <5> QED BY <5>1, <5>2 DEF ServerTypes
      <4>2. CASE ServerUp
        BY <4>2 DEF ServerUp, ServerTypes
      <4>3. CASE ConnectionLost
        BY <4>3 DEF ConnectionLost, ServerTypes
      <4> QED BY <1>1, <4>1, <4>2, <4>3
    <3>2. BrokerTypes'
      BY <1>1 DEF ServerDown, ServerUp, ConnectionLost, BrokerTypes
    <3>3. ThreadTypes' /\ HistoryTypes'
      BY <1>1 DEF ServerDown, ServerUp, ConnectionLost, ThreadTypes, HistoryTypes
    <3> QED BY <3>1, <3>2, <3>3
  <2>2. QueueTypes' /\ ElasticTypes' /\ Stages'
    BY <1>1 DEF ServerDown, ServerUp, ConnectionLost, QueueTypes, ElasticTypes, Stages
  <2>3. OwnWakeups'
    BY <1>1, KeepsOwnWakeups DEF ServerDown, ServerUp, ConnectionLost
  <2> QED BY <2>1, <2>2, <2>3
<1>2. ASSUME NEW payload \in Payloads, ServerPublishes(payload) PROVE Parts'
  <2>1. inbox' \in Seq(Message)
    <3>1. [n |-> values + 1, payload |-> payload] \in Message
      BY DEF Message, ServerTypes
    <3> QED BY <1>2, <3>1, AppendSeq DEF ServerPublishes, BrokerTypes
  <2>2. ServerTypes' /\ BrokerTypes' /\ ThreadTypes' /\ HistoryTypes'
    BY <1>2, <2>1 DEF ServerPublishes, ServerTypes, BrokerTypes, ThreadTypes, HistoryTypes
  <2>3. QueueTypes' /\ ElasticTypes' /\ Stages'
    BY <1>2 DEF ServerPublishes, QueueTypes, ElasticTypes, Stages
  <2>4. OwnWakeups'
    BY <1>2, KeepsOwnWakeups DEF ServerPublishes
  <2> QED BY <2>2, <2>3, <2>4
<1>3. ASSUME NEW n \in 1 .. 2, ServerAdds(n) PROVE Parts'
  <2>1. n \in Nat /\ Seen(n) \in Seq(Nat)
    BY SeenTypes
  <2>2. {Seen(n)[i] : i \in 1 .. Len(Seen(n))} \subseteq Nat
    BY <2>1, ElementOfSeq
  <2>3. ServerTypes' /\ BrokerTypes'
    BY <1>3 DEF ServerAdds, ServerTypes, BrokerTypes
  <2>4. ThreadTypes' /\ HistoryTypes'
    BY <1>3, <2>1, <2>2 DEF ServerAdds, ThreadTypes, HistoryTypes
  <2>5. QueueTypes' /\ ElasticTypes' /\ Stages'
    BY <1>3 DEF ServerAdds, QueueTypes, ElasticTypes, Stages, Waiting
  <2>6. OwnWakeups'
    BY <1>3, KeepsOwnWakeups DEF ServerAdds
  <2> QED BY <2>3, <2>4, <2>5, <2>6
<1> QED BY <1>1, <1>2, <1>3

LEMMA ConnectingKeeps ==
  ASSUME Parts, Start \/ ReconnectTimer \/ ReadFailure \/ DisconnectDone \/ Reconnect
  PROVE  Parts'
<1> USE DEF Parts, vars, server, broker, worker, mainVars, elastic, history
<1>1. CASE Start \/ ReconnectTimer \/ Reconnect
  <2>1. BrokerTypes'
    BY <1>1, ConnectedTypes DEF Start, ReconnectTimer, Reconnect
  <2>2. ServerTypes' /\ ThreadTypes' /\ HistoryTypes'
    BY <1>1 DEF Start, ReconnectTimer, Reconnect, ServerTypes, ThreadTypes, HistoryTypes
  <2>3. QueueTypes' /\ ElasticTypes' /\ Stages'
    BY <1>1 DEF Start, ReconnectTimer, Reconnect, QueueTypes, ElasticTypes, Stages
  <2>4. OwnWakeups'
    BY <1>1, KeepsOwnWakeups DEF Start, ReconnectTimer, Reconnect, Stages
  <2> QED BY <2>1, <2>2, <2>3, <2>4
<1>2. CASE ReadFailure
  <2>1. BrokerTypes' /\ ThreadTypes'
    BY <1>2, EmptyIsSeq DEF ReadFailure, BrokerTypes, ThreadTypes
  <2>2. ServerTypes' /\ HistoryTypes'
    BY <1>2, LostRecords DEF ReadFailure, ServerTypes, HistoryTypes
  <2>3. QueueTypes' /\ ElasticTypes' /\ Stages'
    BY <1>2 DEF ReadFailure, QueueTypes, ElasticTypes, Stages
  <2>4. OwnWakeups'
    BY <1>2, KeepsOwnWakeups DEF ReadFailure
  <2> QED BY <2>1, <2>2, <2>3, <2>4
<1>3. CASE DisconnectDone
  <2>1. ServerTypes' /\ BrokerTypes' /\ ThreadTypes' /\ HistoryTypes'
    BY <1>3 DEF DisconnectDone, ServerTypes, BrokerTypes, ThreadTypes, HistoryTypes
  <2>2. QueueTypes' /\ ElasticTypes' /\ Stages'
    BY <1>3 DEF DisconnectDone, QueueTypes, ElasticTypes, Stages
  <2>3. OwnWakeups'
    BY <1>3, KeepsOwnWakeups DEF DisconnectDone
  <2> QED BY <2>1, <2>2, <2>3
<1> QED BY <1>1, <1>2, <1>3

\* main, up to the records it has to push.
LEMMA ReadingKeeps ==
  ASSUME Parts, Xread \/ Command \/ UseAfterFree \/ XreadAnswered \/ XreadFails
  PROVE  Parts'
<1> USE DEF Parts, vars, server, broker, worker, mainVars, elastic, history
<1>1. CASE Xread \/ Command \/ UseAfterFree
  <2>1. ServerTypes' /\ BrokerTypes' /\ ThreadTypes' /\ HistoryTypes'
    <3>1. CASE Xread \/ Command
      <4>1. ServerTypes' /\ BrokerTypes' /\ HistoryTypes'
        BY <3>1 DEF Xread, Command, ServerTypes, BrokerTypes, HistoryTypes
      <4>2. ThreadTypes'
        BY <3>1 DEF Xread, Command, ThreadTypes
      <4> QED BY <4>1, <4>2
    <3>2. CASE UseAfterFree
      BY <3>2 DEF UseAfterFree, ServerTypes, BrokerTypes, ThreadTypes, HistoryTypes
    <3> QED BY <1>1, <3>1, <3>2
  <2>2. QueueTypes' /\ ElasticTypes' /\ Stages'
    BY <1>1 DEF Xread, Command, UseAfterFree, QueueTypes, ElasticTypes, Stages
  <2>3. OwnWakeups'
    BY <1>1, KeepsOwnWakeups DEF Xread, Command, UseAfterFree
  <2> QED BY <2>1, <2>2, <2>3
<1>2. CASE XreadAnswered
  <2>1. ServerTypes' /\ BrokerTypes' /\ ThreadTypes' /\ HistoryTypes'
    BY <1>2, EmptyIsSeq DEF XreadAnswered, ServerTypes, BrokerTypes, ThreadTypes, HistoryTypes
  <2>2. QueueTypes' /\ ElasticTypes' /\ Stages'
    BY <1>2 DEF XreadAnswered, QueueTypes, ElasticTypes, Stages
  <2>3. OwnWakeups'
    BY <1>2, KeepsOwnWakeups DEF XreadAnswered
  <2> QED BY <2>1, <2>2, <2>3
<1>3. CASE XreadFails
  <2>1. ServerTypes' /\ BrokerTypes' /\ ThreadTypes'
    BY <1>3, EmptyIsSeq DEF XreadFails, ServerTypes, BrokerTypes, ThreadTypes
  <2>2. HistoryTypes'
    BY <1>3, LostRecords DEF XreadFails, HistoryTypes
  <2>3. QueueTypes' /\ ElasticTypes' /\ Stages'
    BY <1>3 DEF XreadFails, QueueTypes, ElasticTypes, Stages
  <2>4. OwnWakeups'
    BY <1>3, KeepsOwnWakeups DEF XreadFails
  <2> QED BY <2>1, <2>2, <2>3, <2>4
<1> QED BY <1>1, <1>2, <1>3

-------------------------------------------------------------------------------
(* Pushing and popping *)

\* The worker claims a slot of "metrics", or main one of "logs": it is the only one.
LEMMA ClaimOwns ==
  ASSUME Parts, program = "redis-elastic", NEW item \in Items, Claim(item),
         NEW q \in Indexes, q = Route(item.kind), ~ Claimed(q)
  PROVE  \A u \in Indexes :
           /\ Len(queue'[u]) = wakeups[u] + (IF u = q \/ Claimed(u) THEN 1 ELSE 0)
           /\ \A i \in 1 .. wakeups[u] : queue'[u][i].ready
           /\ queue'[u][Len(queue'[u])].item =
                IF u = q THEN item ELSE queue[u][Len(queue[u])].item
<1> DEFINE entry == [item |-> item, ready |-> FALSE]
<1>1. QueueTypes /\ wakeups \in [Indexes -> Nat]
  BY DEF Parts, ElasticTypes
<1>2. queue' = [queue EXCEPT ![q] = Append(queue[q], entry)] /\ entry \in Entries
  BY <1>1, ClaimTypes DEF Entries
<1>3. entry.item = item
  OBVIOUS
<1> HIDE DEF entry
<1>4. /\ Len(Append(queue[q], entry)) = Len(queue[q]) + 1
      /\ Append(queue[q], entry)[Len(queue[q]) + 1] = entry
      /\ \A i \in 1 .. Len(queue[q]) : Append(queue[q], entry)[i] = queue[q][i]
  BY <1>1, <1>2, AppendSeq DEF QueueTypes
<1>5. Len(queue[q]) = wakeups[q] /\ \A i \in 1 .. wakeups[q] : queue[q][i].ready
  BY <1>1 DEF Parts, OwnWakeups
<1>6. \A u \in Indexes : u /= q => queue'[u] = queue[u]
  BY <1>1, <1>2 DEF QueueTypes
<1>7. queue'[q] = Append(queue[q], entry)
  BY <1>1, <1>2 DEF QueueTypes
<1> QED
  <2>1. ASSUME NEW u \in Indexes, u = q
        PROVE  /\ Len(queue'[u]) = wakeups[u] + 1
               /\ \A i \in 1 .. wakeups[u] : queue'[u][i].ready
               /\ queue'[u][Len(queue'[u])].item = item
    BY <2>1, <1>1, <1>3, <1>4, <1>5, <1>7
  <2>2. ASSUME NEW u \in Indexes, u /= q
        PROVE  /\ Len(queue'[u]) = wakeups[u] + (IF Claimed(u) THEN 1 ELSE 0)
               /\ \A i \in 1 .. wakeups[u] : queue'[u][i].ready
               /\ queue'[u][Len(queue'[u])].item = queue[u][Len(queue[u])].item
    BY <2>2, <1>6 DEF Parts, OwnWakeups
  <2> QED BY <2>1, <2>2

\* ... and publishes it.
LEMMA PublishOwns ==
  ASSUME Parts, program = "redis-elastic", NEW item \in Items, Publish(item),
         NEW q \in Indexes, q = Route(item.kind), Claimed(q), ClaimedItem(q) = item
  PROVE  /\ wakeups' \in [Indexes -> Nat]
         /\ \A u \in Indexes :
              /\ Len(queue'[u]) = wakeups'[u] + (IF u /= q /\ Claimed(u) THEN 1 ELSE 0)
              /\ \A i \in 1 .. wakeups'[u] : queue'[u][i].ready
              /\ Claimed(u) => queue'[u][Len(queue'[u])].item = ClaimedItem(u)
<1>1. QueueTypes /\ wakeups \in [Indexes -> Nat]
  BY DEF Parts, ElasticTypes
<1>2. /\ \A u \in Indexes :
           /\ Len(queue'[u]) = Len(queue[u])
           /\ \A i \in 1 .. Len(queue[u]) :
                /\ queue'[u][i].item = queue[u][i].item
                /\ queue[u][i].ready => queue'[u][i].ready
                /\ u = q /\ queue[u][i].item = item => queue'[u][i].ready
      /\ wakeups' = [wakeups EXCEPT ![q] = wakeups[q] + 1]
  BY <1>1, PublishTypes
<1>3. \A u \in Indexes :
        /\ Len(queue[u]) = wakeups[u] + (IF Claimed(u) THEN 1 ELSE 0)
        /\ \A i \in 1 .. wakeups[u] : queue[u][i].ready
        /\ Claimed(u) => queue[u][Len(queue[u])].item = ClaimedItem(u)
  BY DEF Parts, OwnWakeups
<1>4. ASSUME NEW u \in Indexes, Claimed(u)
      PROVE  queue'[u][Len(queue'[u])].item = ClaimedItem(u)
  <2>1. Len(queue[u]) \in 1 .. Len(queue[u])
    BY <1>1, <1>3, <1>4
  <2> QED BY <1>2, <1>3, <1>4, <2>1
<1>5. ASSUME NEW u \in Indexes, u /= q
      PROVE  /\ Len(queue'[u]) = wakeups'[u] + (IF Claimed(u) THEN 1 ELSE 0)
             /\ \A i \in 1 .. wakeups'[u] : queue'[u][i].ready
  BY <1>1, <1>2, <1>3, <1>5
<1>6. Len(queue'[q]) = wakeups'[q] /\ \A i \in 1 .. wakeups'[q] : queue'[q][i].ready
  <2>1. /\ wakeups'[q] = wakeups[q] + 1 /\ Len(queue[q]) = wakeups[q] + 1
        /\ Len(queue'[q]) = Len(queue[q])
    BY <1>1, <1>2, <1>3
  <2>2. \A i \in 1 .. wakeups[q] : queue'[q][i].ready
    BY <1>1, <1>2, <1>3, <2>1
  <2>3. queue'[q][wakeups[q] + 1].ready
    BY <1>1, <1>2, <1>3, <2>1
  <2> QED BY <1>1, <2>1, <2>2, <2>3
<1> QED BY <1>1, <1>2, <1>4, <1>5, <1>6

LEMMA OnMessageKeeps ==
  ASSUME Parts, OnMessage
  PROVE  Parts'
<1> DEFINE item == Value(Head(inbox).n)
<1>1. Head(inbox) \in Message /\ Tail(inbox) \in Seq(Message)
  BY HeadTailProperties DEF Parts, BrokerTypes, OnMessage
<1>2. item \in Items /\ item = [kind |-> "value", n |-> Head(inbox).n] /\ Head(inbox).n \in Nat
  BY <1>1, ItemTypes DEF Message, Value
<1>3. BrokerTypes' /\ ServerTypes' /\ ElasticTypes' /\ Stages'
  <2>1. BrokerTypes' /\ ServerTypes'
    BY <1>1 DEF OnMessage, Parts, BrokerTypes, ServerTypes, server
  <2> QED BY <2>1 DEF OnMessage, Parts, ElasticTypes, Stages, mainVars, worker
<1>4. CASE UNCHANGED <<worker, queue>>
  <2>1. lost' \subseteq Items
    BY <1>2, <1>4 DEF OnMessage, PushFails, Drop, Claim, Parts, HistoryTypes
  <2>2. ThreadTypes' /\ QueueTypes' /\ HistoryTypes'
    BY <1>4, <2>1 DEF OnMessage, Parts, ThreadTypes, QueueTypes, HistoryTypes, mainVars, worker
  <2>3. OwnWakeups'
    BY <1>4, KeepsOwnWakeups DEF OnMessage, Parts, mainVars, worker
  <2> QED BY <1>3, <2>2, <2>3 DEF Parts
<1>5. CASE Claim(item) /\ wpc' = "claimed" /\ wvalue' = item.n /\ UNCHANGED lost
  <2>1. QueueTypes'
    BY <1>2, <1>5, ClaimTypes DEF Parts
  <2>2. ThreadTypes' /\ HistoryTypes'
    BY <1>2, <1>5 DEF OnMessage, Parts, ThreadTypes, HistoryTypes, mainVars
  <2>3. CASE program = "redis-elastic"
    <3>1. Route(item.kind) = "metrics" /\ "metrics" \in Indexes /\ ~ Claimed("metrics")
      BY <1>2, <2>3 DEF Route, Indexes, Claimed, OnMessage
    <3>2. \A u \in Indexes :
            /\ Len(queue'[u]) = wakeups[u] + (IF u = "metrics" \/ Claimed(u) THEN 1 ELSE 0)
            /\ \A i \in 1 .. wakeups[u] : queue'[u][i].ready
            /\ queue'[u][Len(queue'[u])].item =
                 IF u = "metrics" THEN item ELSE queue[u][Len(queue[u])].item
      BY <1>2, <1>5, <2>3, <3>1, ClaimOwns
    <3>3. /\ Claimed("metrics")' /\ ClaimedItem("metrics")' = item
          /\ Claimed("logs")' <=> Claimed("logs")
          /\ ClaimedItem("logs")' = ClaimedItem("logs")
      BY <1>2, <1>5 DEF Claimed, ClaimedItem, OnMessage, mainVars, Value
    <3>4. Claimed("logs") => queue[("logs")][Len(queue["logs"])].item = ClaimedItem("logs")
      BY <2>3 DEF Parts, OwnWakeups, Indexes
    <3> HIDE DEF item
    <3>5. wakeups' = wakeups /\ noData' = noData /\ noData = 0
      BY <2>3 DEF OnMessage, Parts, OwnWakeups
    <3> QED BY <2>1, <2>2, <1>3, <3>2, <3>3, <3>4, <3>5 DEF Parts, OwnWakeups, Indexes
  <2>4. CASE program /= "redis-elastic"
    BY <1>3, <2>1, <2>2, <2>4 DEF Parts, OwnWakeups, OnMessage
  <2> QED BY <2>3, <2>4
<1> QED BY <1>4, <1>5 DEF OnMessage

LEMMA ValuePublishedKeeps ==
  ASSUME Parts, ValuePublished
  PROVE  Parts'
<1> DEFINE item == Value(wvalue)
<1>1. item \in Items /\ item = [kind |-> "value", n |-> wvalue]
  BY ItemTypes DEF Parts, ThreadTypes, Value
<1>2. QueueTypes'
  BY <1>1, PublishTypes DEF Parts, ValuePublished
<1>3. wakeups' \in [Indexes -> Nat]
  <2>1. wakeups' = [wakeups EXCEPT ![Route(item.kind)] = wakeups[Route(item.kind)] + 1]
    BY DEF ValuePublished, Publish
  <2> QED BY <2>1, RouteType DEF Parts, ElasticTypes
<1>4. ElasticTypes' /\ ThreadTypes' /\ HistoryTypes'
  BY <1>3 DEF ValuePublished, Parts, ElasticTypes, ThreadTypes, HistoryTypes, mainVars, history
<1>5. ServerTypes' /\ BrokerTypes' /\ Stages'
  BY DEF ValuePublished, Parts, ServerTypes, BrokerTypes, Stages, server, broker, mainVars
<1>6. CASE program = "redis-elastic"
  <2>1. /\ Route(item.kind) = "metrics" /\ "metrics" \in Indexes
        /\ Claimed("metrics") /\ ClaimedItem("metrics") = item
    BY <1>1, <1>6 DEF Route, Indexes, Claimed, ClaimedItem, ValuePublished
  <2>2. \A u \in Indexes :
          /\ Len(queue'[u]) = wakeups'[u] + (IF u /= "metrics" /\ Claimed(u) THEN 1 ELSE 0)
          /\ \A i \in 1 .. wakeups'[u] : queue'[u][i].ready
          /\ Claimed(u) => queue'[u][Len(queue'[u])].item = ClaimedItem(u)
    BY <1>1, <1>6, <2>1, PublishOwns DEF ValuePublished
  <2>3. /\ ~ Claimed("metrics")' /\ (Claimed("logs")' <=> Claimed("logs"))
        /\ ClaimedItem("logs")' = ClaimedItem("logs")
    BY DEF Claimed, ClaimedItem, ValuePublished, mainVars
  <2>4. noData' = 0
    BY <1>6 DEF ValuePublished, Parts, OwnWakeups
  <2> QED BY <1>2, <1>4, <1>5, <2>2, <2>3, <2>4 DEF Parts, OwnWakeups, Indexes
<1>7. CASE program /= "redis-elastic"
  BY <1>2, <1>4, <1>5, <1>7 DEF Parts, OwnWakeups, ValuePublished
<1> QED BY <1>6, <1>7

LEMMA PushRecordKeeps ==
  ASSUME Parts, PushRecord
  PROVE  Parts'
<1> DEFINE item == Record(Head(reply))
<1>1. reply /= <<>>
  BY DEF Parts, Stages, PushRecord
<1>2. /\ item \in Items /\ item = [kind |-> "record", n |-> Head(reply)]
      /\ Tail(reply) \in Seq(Nat) /\ Rest(reply) = IF Tail(reply) = <<>> THEN "loop" ELSE "push"
  BY <1>1, ReplyTypes DEF Parts, Record
<1>3. ServerTypes' /\ BrokerTypes' /\ ElasticTypes'
  BY DEF PushRecord, Parts, ServerTypes, BrokerTypes, ElasticTypes, server, broker
<1>4. CASE PushFails(item) /\ reply' = Tail(reply) /\ mpc' = Rest(reply) /\ UNCHANGED queue
  <2>1. ThreadTypes' /\ QueueTypes'
    BY <1>2, <1>4 DEF PushRecord, Parts, ThreadTypes, QueueTypes, worker
  <2>2. HistoryTypes'
    BY <1>2, <1>4 DEF PushRecord, PushFails, Drop, Parts, HistoryTypes
  <2>3. Stages'
    BY <1>2, <1>4 DEF PushRecord, Parts, Stages, worker
  <2>4. OwnWakeups'
    BY <1>2, <1>4, KeepsOwnWakeups DEF PushRecord, Parts, worker
  <2> QED BY <1>3, <2>1, <2>2, <2>3, <2>4 DEF Parts
<1>5. CASE Claim(item) /\ mpc' = "claimed" /\ UNCHANGED <<reply, lost>>
  <2>1. QueueTypes'
    BY <1>2, <1>5, ClaimTypes DEF Parts
  <2>2. ThreadTypes' /\ HistoryTypes' /\ Stages'
    BY <1>5 DEF PushRecord, Parts, ThreadTypes, HistoryTypes, Stages, worker
  <2>3. CASE program = "redis-elastic"
    <3>1. Route(item.kind) = "logs" /\ "logs" \in Indexes /\ ~ Claimed("logs")
      BY <1>2, <2>3 DEF Route, Indexes, Claimed, PushRecord
    <3>2. \A u \in Indexes :
            /\ Len(queue'[u]) = wakeups[u] + (IF u = "logs" \/ Claimed(u) THEN 1 ELSE 0)
            /\ \A i \in 1 .. wakeups[u] : queue'[u][i].ready
            /\ queue'[u][Len(queue'[u])].item =
                 IF u = "logs" THEN item ELSE queue[u][Len(queue[u])].item
      BY <1>2, <1>5, <2>3, <3>1, ClaimOwns
    <3>3. /\ Claimed("logs")' /\ ClaimedItem("logs")' = item
          /\ Claimed("metrics")' <=> Claimed("metrics")
          /\ ClaimedItem("metrics")' = ClaimedItem("metrics")
      BY <1>2, <1>5 DEF Claimed, ClaimedItem, PushRecord, worker
    <3>4. Claimed("metrics") => queue["metrics"][Len(queue["metrics"])].item = ClaimedItem("metrics")
      BY <2>3 DEF Parts, OwnWakeups, Indexes
    <3> HIDE DEF item
    <3>5. wakeups' = wakeups /\ noData' = noData /\ noData = 0
      BY <2>3 DEF PushRecord, Parts, OwnWakeups
    <3> QED BY <1>3, <2>1, <2>2, <3>2, <3>3, <3>4, <3>5 DEF Parts, OwnWakeups, Indexes
  <2>4. CASE program /= "redis-elastic"
    BY <1>3, <2>1, <2>2, <2>4 DEF Parts, OwnWakeups, PushRecord
  <2> QED BY <2>3, <2>4
<1> QED BY <1>4, <1>5 DEF PushRecord

LEMMA RecordPublishedKeeps ==
  ASSUME Parts, RecordPublished
  PROVE  Parts'
<1> DEFINE item == Record(Head(reply))
<1>1. reply /= <<>>
  BY DEF Parts, Stages, RecordPublished
<1>2. /\ item \in Items /\ item = [kind |-> "record", n |-> Head(reply)]
      /\ Tail(reply) \in Seq(Nat) /\ Rest(reply) = IF Tail(reply) = <<>> THEN "loop" ELSE "push"
  BY <1>1, ReplyTypes DEF Parts, Record
<1>3. QueueTypes'
  BY <1>2, PublishTypes DEF Parts, RecordPublished
<1>4. wakeups' \in [Indexes -> Nat]
  <2>1. wakeups' = [wakeups EXCEPT ![Route(item.kind)] = wakeups[Route(item.kind)] + 1]
    BY DEF RecordPublished, Publish
  <2> QED BY <2>1, RouteType DEF Parts, ElasticTypes
<1>5. ElasticTypes' /\ HistoryTypes' /\ ServerTypes' /\ BrokerTypes'
  BY <1>4 DEF RecordPublished, Parts, ElasticTypes, HistoryTypes, ServerTypes, BrokerTypes, server,
              broker, history
<1>6. ThreadTypes' /\ Stages'
  BY <1>2 DEF RecordPublished, Parts, ThreadTypes, Stages, worker
<1>7. CASE program = "redis-elastic"
  <2>1. /\ Route(item.kind) = "logs" /\ "logs" \in Indexes
        /\ Claimed("logs") /\ ClaimedItem("logs") = item
    BY <1>2, <1>7 DEF Route, Indexes, Claimed, ClaimedItem, RecordPublished
  <2>2. \A u \in Indexes :
          /\ Len(queue'[u]) = wakeups'[u] + (IF u /= "logs" /\ Claimed(u) THEN 1 ELSE 0)
          /\ \A i \in 1 .. wakeups'[u] : queue'[u][i].ready
          /\ Claimed(u) => queue'[u][Len(queue'[u])].item = ClaimedItem(u)
    BY <1>2, <1>7, <2>1, PublishOwns DEF RecordPublished
  <2>3. /\ ~ Claimed("logs")' /\ (Claimed("metrics")' <=> Claimed("metrics"))
        /\ ClaimedItem("metrics")' = ClaimedItem("metrics")
    BY <1>2 DEF Claimed, ClaimedItem, RecordPublished, worker
  <2>4. noData' = 0
    BY <1>7 DEF RecordPublished, Parts, OwnWakeups
  <2> QED BY <1>3, <1>5, <1>6, <2>2, <2>3, <2>4 DEF Parts, OwnWakeups, Indexes
<1>8. CASE program /= "redis-elastic"
  BY <1>3, <1>5, <1>6, <1>8 DEF Parts, OwnWakeups, RecordPublished
<1> QED BY <1>7, <1>8

\* The elastic thread takes the oldest element.
LEMMA PostKeeps ==
  ASSUME Parts, NEW q \in Indexes, Post(q)
  PROVE  Parts'
<1>1. /\ queue[q] \in Seq(Entries) /\ queue[q] /= <<>> /\ wakeups[q] > 0
      /\ queue' = [queue EXCEPT ![q] = Tail(queue[q])]
      /\ wakeups' = [wakeups EXCEPT ![q] = wakeups[q] - 1]
      /\ QueueTypes /\ wakeups \in [Indexes -> Nat]
  BY DEF Post, Parts, QueueTypes, ElasticTypes
<1>2. /\ Head(queue[q]) \in Entries /\ Tail(queue[q]) \in Seq(Entries)
      /\ Len(Tail(queue[q])) = Len(queue[q]) - 1 /\ Len(queue[q]) \in Nat
      /\ \A i \in 1 .. Len(Tail(queue[q])) : Tail(queue[q])[i] = queue[q][i + 1]
  BY <1>1, HeadTailProperties
<1>3. QueueTypes' /\ wakeups' \in [Indexes -> Nat]
  BY <1>1, <1>2 DEF QueueTypes
<1>4. Head(queue[q]).item \in Items
  BY <1>2 DEF Entries
<1>5. indexed' \in Seq(Items) /\ lost' \subseteq Items
  <2>1. CASE indexed' = Append(indexed, Head(queue[q]).item) /\ UNCHANGED lost
    BY <1>4, <2>1, AppendSeq DEF Parts, ElasticTypes, HistoryTypes
  <2>2. CASE Drop(Head(queue[q]).item) /\ UNCHANGED indexed
    BY <1>4, <2>2 DEF Drop, Parts, ElasticTypes, HistoryTypes
  <2> QED BY <2>1, <2>2 DEF Post
<1>6. ElasticTypes' /\ HistoryTypes' /\ ServerTypes' /\ BrokerTypes' /\ ThreadTypes' /\ Stages'
  <2>1. ElasticTypes' /\ HistoryTypes'
    BY <1>3, <1>5 DEF Post, Parts, ElasticTypes, HistoryTypes
  <2>2. ServerTypes' /\ BrokerTypes'
    BY DEF Post, Parts, ServerTypes, BrokerTypes, server, broker
  <2>3. ThreadTypes' /\ Stages'
    BY DEF Post, Parts, ThreadTypes, Stages, worker, mainVars
  <2> QED BY <2>1, <2>2, <2>3
<1>7. CASE program = "redis-elastic"
  <2>1. \A u \in Indexes : /\ Claimed(u)' <=> Claimed(u)
                           /\ ClaimedItem(u)' = ClaimedItem(u)
    BY DEF Post, Claimed, ClaimedItem, worker, mainVars
  <2>2. \A u \in Indexes :
          /\ Len(queue[u]) = wakeups[u] + (IF Claimed(u) THEN 1 ELSE 0)
          /\ \A i \in 1 .. wakeups[u] : queue[u][i].ready
          /\ Claimed(u) => queue[u][Len(queue[u])].item = ClaimedItem(u)
    BY <1>7 DEF Parts, OwnWakeups
  <2>3. \A u \in Indexes : u /= q => queue'[u] = queue[u] /\ wakeups'[u] = wakeups[u]
    BY <1>1 DEF QueueTypes
  <2>4. queue'[q] = Tail(queue[q]) /\ wakeups'[q] = wakeups[q] - 1 /\ wakeups[q] \in Nat
    BY <1>1 DEF QueueTypes
  <2>5. /\ Len(queue'[q]) = wakeups'[q] + (IF Claimed(q) THEN 1 ELSE 0)
        /\ \A i \in 1 .. wakeups'[q] : queue'[q][i].ready
        /\ Claimed(q) => queue'[q][Len(queue'[q])].item = ClaimedItem(q)
    <3>0. /\ wakeups[q] > 0 /\ wakeups[q] \in Nat /\ wakeups'[q] = wakeups[q] - 1
          /\ Len(queue[q]) = wakeups[q] + (IF Claimed(q) THEN 1 ELSE 0)
          /\ Len(queue'[q]) = Len(queue[q]) - 1
          /\ \A i \in 1 .. Len(queue[q]) - 1 : queue'[q][i] = queue[q][i + 1]
      <4>1. wakeups[q] > 0
        BY <1>1
      <4>2. Len(queue[q]) = wakeups[q] + (IF Claimed(q) THEN 1 ELSE 0)
        BY <2>2
      <4>3. /\ Len(queue'[q]) = Len(queue[q]) - 1
            /\ \A i \in 1 .. Len(queue[q]) - 1 : queue'[q][i] = queue[q][i + 1]
        BY <1>2, <2>4
      <4> QED BY <2>4, <4>1, <4>2, <4>3
    <3>1. Len(queue'[q]) = wakeups'[q] + (IF Claimed(q) THEN 1 ELSE 0)
      BY <3>0
    <3>2. ASSUME NEW i \in 1 .. wakeups'[q]
          PROVE  queue'[q][i].ready
      <4>1. i + 1 \in 1 .. wakeups[q] /\ i \in 1 .. Len(queue[q]) - 1
        BY <3>0
      <4> QED BY <2>2, <3>0, <4>1
    <3>3. ASSUME Claimed(q)
          PROVE  queue'[q][Len(queue'[q])].item = ClaimedItem(q)
      <4>1. /\ Len(queue[q]) = wakeups[q] + 1 /\ Len(queue'[q]) = wakeups[q]
            /\ wakeups[q] \in 1 .. Len(queue[q]) - 1
        BY <3>0, <3>3
      <4>2. queue'[q][wakeups[q]] = queue[q][wakeups[q] + 1]
        BY <3>0, <4>1
      <4> QED BY <2>2, <3>3, <4>1, <4>2
    <3> QED BY <3>1, <3>2, <3>3
  <2>6. \A u \in Indexes :
          /\ Len(queue'[u]) = wakeups'[u] + (IF Claimed(u)' THEN 1 ELSE 0)
          /\ \A i \in 1 .. wakeups'[u] : queue'[u][i].ready
          /\ Claimed(u)' => queue'[u][Len(queue'[u])].item = ClaimedItem(u)'
    BY <2>1, <2>2, <2>3, <2>5
  <2>7. noData' = 0
    BY <1>7 DEF Post, Parts, OwnWakeups
  <2> QED BY <1>3, <1>6, <2>6, <2>7 DEF Parts, OwnWakeups
<1>8. CASE program /= "redis-elastic"
  BY <1>3, <1>6, <1>8 DEF Post, Parts, OwnWakeups
<1> QED BY <1>7, <1>8

\* A wakeup without a published element: never in redis-elastic.
LEMMA NoDataKeeps ==
  ASSUME Parts, NEW q \in Indexes, NoData(q)
  PROVE  Parts'
<1>1. program /= "redis-elastic"
  <2> SUFFICES ASSUME program = "redis-elastic" PROVE FALSE
    OBVIOUS
  <2>1. /\ wakeups[q] \in Nat /\ wakeups[q] > 0
        /\ Len(queue[q]) = wakeups[q] + (IF Claimed(q) THEN 1 ELSE 0)
        /\ \A i \in 1 .. wakeups[q] : queue[q][i].ready
    BY DEF NoData, Parts, OwnWakeups, ElasticTypes
  <2>2. queue[q] \in Seq(Entries) /\ queue[q] /= <<>> /\ Head(queue[q]) = queue[q][1]
    BY <2>1, EmptyOrNot DEF Parts, QueueTypes
  <2>3. Head(queue[q]).ready
    BY <2>1, <2>2
  <2> QED BY <2>2, <2>3 DEF NoData
<1>2. ElasticTypes' /\ QueueTypes' /\ HistoryTypes'
  BY DEF NoData, Parts, ElasticTypes, QueueTypes, HistoryTypes, history
<1>3. ServerTypes' /\ BrokerTypes'
  BY DEF NoData, Parts, ServerTypes, BrokerTypes, server, broker
<1>4. ThreadTypes' /\ Stages'
  BY DEF NoData, Parts, ThreadTypes, Stages, worker, mainVars
<1> QED BY <1>1, <1>2, <1>3, <1>4 DEF NoData, Parts, OwnWakeups

-------------------------------------------------------------------------------

LEMMA NextE == EInv /\ [Next]_vars => EInv'
<1> SUFFICES ASSUME Parts, [Next]_vars PROVE Parts'
  BY EParts
<1>1. CASE Next
  BY <1>1, EnvironmentKeeps, ConnectingKeeps, ReadingKeeps, OnMessageKeeps, ValuePublishedKeeps,
     PushRecordKeeps, RecordPublishedKeeps, PostKeeps, NoDataKeeps
     DEF Next, Worker, Main, Elastic
<1>2. CASE UNCHANGED vars
  <2> USE <1>2 DEF vars, server, broker, worker, mainVars, elastic, history
  <2>1. ServerTypes' /\ BrokerTypes' /\ ThreadTypes'
    BY DEF Parts, ServerTypes, BrokerTypes, ThreadTypes
  <2>2. QueueTypes' /\ ElasticTypes' /\ HistoryTypes' /\ Stages'
    BY DEF Parts, QueueTypes, ElasticTypes, HistoryTypes, Stages
  <2>3. OwnWakeups'
    BY KeepsOwnWakeups DEF Parts
  <2> QED BY <2>1, <2>2, <2>3 DEF Parts
<1> QED BY <1>1, <1>2

\* Type correctness, and every wakeup of redis-elastic finds its element, whatever the
\* server does (redis-elastic.cpp:177, 207; limero.h:679-705).
THEOREM ElasticInvariance == Spec => []EInv
  BY InitE, NextE, PTL DEF Spec

-------------------------------------------------------------------------------
(* The order of what Elasticsearch gets *)

Ascends(s) == \A i, j \in 1 .. Len(s) : i < j => s[i] < s[j]

\* Records of the reply that are not in the queue yet.
Pending == IF mpc = "claimed" THEN Tail(reply) ELSE reply

\* Everything of a kind that was queued or indexed comes before x.
Below(kind, x) ==
  /\ \A i \in 1 .. Len(indexed) : indexed[i].kind = kind => indexed[i].n < x
  /\ \A q \in Indexes : \A i \in 1 .. Len(queue[q]) :
       queue[q][i].item.kind = kind => queue[q][i].item.n < x

\* What is indexed and queued is in order; each kind has its queue.
ItemsInOrder ==
  /\ InOrder
  /\ \A q \in Indexes : \A i \in 1 .. Len(queue[q]) :
       /\ q = Route(queue[q][i].item.kind)
       /\ \A j \in 1 .. Len(queue[q]) :
            i < j /\ queue[q][i].item.kind = queue[q][j].item.kind
              => queue[q][i].item.n < queue[q][j].item.n
       /\ \A j \in 1 .. Len(indexed) :
            indexed[j].kind = queue[q][i].item.kind => indexed[j].n < queue[q][i].item.n

\* What main and the worker are still to push comes after it, in order.
RecordsAfter(s) ==
  /\ Ascends(s)
  /\ \A i \in 1 .. Len(s) : Below("record", s[i]) /\ s[i] <= records

RecordsInOrder == RecordsAfter(Pending) /\ RecordsAfter(answer) /\ Below("record", records + 1)

ValuesInOrder ==
  /\ \A i, j \in 1 .. Len(inbox) : i < j => inbox[i].n < inbox[j].n
  /\ \A i \in 1 .. Len(inbox) : Below("value", inbox[i].n) /\ inbox[i].n <= values
  /\ Below("value", values + 1)

OInv == ItemsInOrder /\ RecordsInOrder /\ ValuesInOrder

LEMMA QueueElements ==
  ASSUME QueueTypes, NEW q \in Indexes
  PROVE  /\ Len(queue[q]) \in Nat
         /\ \A i \in 1 .. Len(queue[q]) : queue[q][i].item \in Items /\ queue[q][i].item.n \in Nat
<1>1. queue[q] \in Seq(Entries) /\ Len(queue[q]) \in Nat
  BY DEF QueueTypes
<1>2. \A i \in 1 .. Len(queue[q]) : queue[q][i] \in Entries
  BY <1>1, ElementOfSeq
<1> QED BY <1>1, <1>2 DEF Entries, Items

LEMMA IndexedElements ==
  ASSUME ElasticTypes
  PROVE  /\ Len(indexed) \in Nat
         /\ \A i \in 1 .. Len(indexed) : indexed[i] \in Items /\ indexed[i].n \in Nat
<1>1. \A i \in 1 .. Len(indexed) : indexed[i] \in Items
  BY ElementOfSeq DEF ElasticTypes
<1> QED BY <1>1 DEF ElasticTypes, Items

\* A later bound is a bound.
LEMMA BelowMore ==
  ASSUME QueueTypes, ElasticTypes, NEW kind, NEW x \in Nat, NEW y \in Nat, x <= y, Below(kind, x)
  PROVE  Below(kind, y)
  BY QueueElements, IndexedElements DEF Below

\* Steps that leave queues and index alone.
LEMMA BelowKeeps ==
  ASSUME UNCHANGED <<queue, indexed, program>>
  PROVE  /\ ItemsInOrder => ItemsInOrder'
         /\ \A kind, x : Below(kind, x) => Below(kind, x)'
  BY DEF ItemsInOrder, InOrder, Below, Route

\* An item that comes after all of its kind is claimed.
LEMMA ClaimOrders ==
  ASSUME QueueTypes, ElasticTypes, ItemsInOrder, NEW item \in Items, Claim(item),
         Below(item.kind, item.n), UNCHANGED <<indexed, program>>
  PROVE  /\ ItemsInOrder'
         /\ \A kind : \A x \in Nat :
              Below(kind, x) /\ (kind = item.kind => item.n < x) => Below(kind, x)'
<1> DEFINE q == Route(item.kind)
           entry == [item |-> item, ready |-> FALSE]
<1>1. /\ queue' = [queue EXCEPT ![q] = Append(queue[q], entry)]
      /\ entry \in Entries /\ entry.item = item /\ q \in Indexes
  BY ClaimTypes, RouteType DEF Entries
<1>2. q = Route(item.kind) /\ \A kind : Route(kind)' = Route(kind)
  BY DEF Route
<1> HIDE DEF q, entry
<1>3. /\ Len(Append(queue[q], entry)) = Len(queue[q]) + 1 /\ Len(queue[q]) \in Nat
      /\ Append(queue[q], entry)[Len(queue[q]) + 1] = entry
      /\ \A i \in 1 .. Len(queue[q]) : Append(queue[q], entry)[i] = queue[q][i]
  BY <1>1, AppendSeq DEF QueueTypes
<1>4. queue'[q] = Append(queue[q], entry) /\ \A u \in Indexes \ {q} : queue'[u] = queue[u]
  BY <1>1 DEF QueueTypes
<1>5. \A i \in 1 .. Len(queue'[q]) :
        \/ i \in 1 .. Len(queue[q]) /\ queue'[q][i] = queue[q][i]
        \/ i = Len(queue[q]) + 1 /\ queue'[q][i].item = item
  BY <1>1, <1>3, <1>4
<1>6. /\ \A i \in 1 .. Len(indexed) : indexed[i].kind = item.kind => indexed[i].n < item.n
      /\ \A i \in 1 .. Len(queue[q]) : queue[q][i].item.kind = item.kind => queue[q][i].item.n < item.n
  BY <1>1 DEF Below
<1>7. InOrder'
  BY DEF ItemsInOrder, InOrder
<1>8. ASSUME NEW u \in Indexes, NEW i \in 1 .. Len(queue'[u])
      PROVE  /\ u = Route(queue'[u][i].item.kind)
             /\ \A j \in 1 .. Len(queue'[u]) :
                  i < j /\ queue'[u][i].item.kind = queue'[u][j].item.kind
                    => queue'[u][i].item.n < queue'[u][j].item.n
             /\ \A j \in 1 .. Len(indexed) :
                  indexed[j].kind = queue'[u][i].item.kind => indexed[j].n < queue'[u][i].item.n
  <2>1. CASE u /= q
    BY <1>4, <1>8, <2>1 DEF ItemsInOrder
  <2>2. CASE u = q
    <3>1. u = Route(queue'[u][i].item.kind)
      BY <1>2, <1>5, <1>8, <2>2 DEF ItemsInOrder
    <3>2. ASSUME NEW j \in 1 .. Len(queue'[u]), i < j,
                 queue'[u][i].item.kind = queue'[u][j].item.kind
          PROVE  queue'[u][i].item.n < queue'[u][j].item.n
      <4>1. i \in 1 .. Len(queue[q]) /\ queue'[q][i] = queue[q][i]
        BY <1>3, <1>4, <1>5, <1>8, <2>2, <3>2
      <4> QED BY <1>5, <1>6, <2>2, <3>2, <4>1 DEF ItemsInOrder
    <3>3. \A j \in 1 .. Len(indexed) :
            indexed[j].kind = queue'[u][i].item.kind => indexed[j].n < queue'[u][i].item.n
      BY <1>5, <1>6, <1>8, <2>2 DEF ItemsInOrder
    <3> QED BY <3>1, <3>2, <3>3
  <2> QED BY <2>1, <2>2
<1>9. ItemsInOrder'
  BY <1>2, <1>7, <1>8 DEF ItemsInOrder
<1>10. ASSUME NEW kind, NEW x \in Nat, Below(kind, x), kind = item.kind => item.n < x
       PROVE  Below(kind, x)'
  BY <1>4, <1>5, <1>10 DEF Below
<1> QED BY <1>9, <1>10

\* Publishing changes no item.
LEMMA PublishOrders ==
  ASSUME QueueTypes, ItemsInOrder, NEW item \in Items, Publish(item), UNCHANGED <<indexed, program>>
  PROVE  ItemsInOrder' /\ \A kind, x : Below(kind, x) => Below(kind, x)'
<1>1. \A u \in Indexes : /\ Len(queue'[u]) = Len(queue[u])
                         /\ \A i \in 1 .. Len(queue[u]) : queue'[u][i].item = queue[u][i].item
  BY PublishTypes
<1>2. \A kind : Route(kind)' = Route(kind)
  BY DEF Route
<1> QED BY <1>1, <1>2 DEF ItemsInOrder, InOrder, Below

LEMMA PostOrders ==
  ASSUME QueueTypes, ElasticTypes, ItemsInOrder, NEW q \in Indexes, Post(q)
  PROVE  ItemsInOrder' /\ \A kind, x : Below(kind, x) => Below(kind, x)'
<1> DEFINE first == queue[q][1].item
<1>1. /\ queue[q] \in Seq(Entries) /\ queue[q] /= <<>>
      /\ queue' = [queue EXCEPT ![q] = Tail(queue[q])]
      /\ \/ indexed' = indexed
         \/ indexed' = Append(indexed, Head(queue[q]).item)
  BY DEF Post, QueueTypes
<1>2. /\ Len(Tail(queue[q])) = Len(queue[q]) - 1 /\ Len(queue[q]) \in Nat \ {0}
      /\ \A i \in 1 .. Len(queue[q]) - 1 : Tail(queue[q])[i] = queue[q][i + 1]
      /\ Head(queue[q]) = queue[q][1]
  BY <1>1, HeadTailProperties, EmptyOrNot
<1>3. /\ queue'[q] = Tail(queue[q]) /\ \A u \in Indexes \ {q} : queue'[u] = queue[u]
  BY <1>1 DEF QueueTypes
<1>4. first \in Items /\ 1 \in 1 .. Len(queue[q])
  BY <1>2, QueueElements
<1>5. \A kind : Route(kind)' = Route(kind)
  BY DEF Post, Route
<1>6. \A u \in Indexes : \A i \in 1 .. Len(queue'[u]) :
        \E k \in 1 .. Len(queue[u]) :
          queue'[u][i] = queue[u][k] /\ k = (IF u = q THEN i + 1 ELSE i)
  <2> SUFFICES ASSUME NEW u \in Indexes, NEW i \in 1 .. Len(queue'[u])
               PROVE  LET k == IF u = q THEN i + 1 ELSE i
                      IN  k \in 1 .. Len(queue[u]) /\ queue'[u][i] = queue[u][k]
    OBVIOUS
  <2>1. CASE u = q
    <3>1. queue'[u] = Tail(queue[q])
      BY <1>3, <2>1
    <3>2. i \in 1 .. Len(Tail(queue[q]))
      BY <3>1
    <3>3. i \in 1 .. Len(queue[q]) - 1 /\ i + 1 \in 1 .. Len(queue[q])
      BY <1>2, <3>2
    <3> QED BY <1>2, <2>1, <3>1, <3>3
  <2>2. CASE u /= q
    BY <1>3, <2>2
  <2> QED BY <2>1, <2>2
<1>7. \A i \in 1 .. Len(indexed') :
        \/ i \in 1 .. Len(indexed) /\ indexed'[i] = indexed[i]
        \/ i = Len(indexed) + 1 /\ indexed'[i] = first
  <2>1. CASE indexed' = indexed
    BY <2>1
  <2>2. CASE indexed' = Append(indexed, first)
    BY <1>4, <2>2, AppendSeq, IndexedElements DEF ElasticTypes
  <2> QED BY <1>1, <1>2, <2>1, <2>2
<1> HIDE DEF first
<1>8. /\ q = Route(first.kind)
      /\ \A j \in 1 .. Len(queue[q]) :
           1 < j /\ first.kind = queue[q][j].item.kind => first.n < queue[q][j].item.n
      /\ \A j \in 1 .. Len(indexed) : indexed[j].kind = first.kind => indexed[j].n < first.n
  BY <1>4 DEF ItemsInOrder, first
<1>9. InOrder'
  <2> SUFFICES ASSUME NEW i \in 1 .. Len(indexed'), NEW j \in 1 .. Len(indexed'), i < j,
                      indexed'[i].kind = indexed'[j].kind
               PROVE  indexed'[i].n < indexed'[j].n
    BY DEF InOrder
  <2>1. i \in 1 .. Len(indexed) /\ indexed'[i] = indexed[i]
    BY <1>7, IndexedElements
  <2> QED BY <1>7, <1>8, <2>1 DEF ItemsInOrder, InOrder
<1>10. ASSUME NEW u \in Indexes, NEW i \in 1 .. Len(queue'[u])
       PROVE  /\ u = Route(queue'[u][i].item.kind)
              /\ \A j \in 1 .. Len(queue'[u]) :
                   i < j /\ queue'[u][i].item.kind = queue'[u][j].item.kind
                     => queue'[u][i].item.n < queue'[u][j].item.n
              /\ \A j \in 1 .. Len(indexed') :
                   indexed'[j].kind = queue'[u][i].item.kind => indexed'[j].n < queue'[u][i].item.n
  <2>1. PICK k \in 1 .. Len(queue[u]) :
          queue'[u][i] = queue[u][k] /\ k = (IF u = q THEN i + 1 ELSE i)
    BY <1>6, <1>10
  <2>2. u = Route(queue'[u][i].item.kind)
    BY <2>1, <1>10 DEF ItemsInOrder
  <2>3. ASSUME NEW j \in 1 .. Len(queue'[u]), i < j,
               queue'[u][i].item.kind = queue'[u][j].item.kind
        PROVE  queue'[u][i].item.n < queue'[u][j].item.n
    <3>1. PICK l \in 1 .. Len(queue[u]) :
            queue'[u][j] = queue[u][l] /\ l = (IF u = q THEN j + 1 ELSE j)
      BY <1>6, <2>3
    <3>2. k < l
      BY <2>1, <2>3, <3>1
    <3> QED BY <2>1, <2>3, <3>1, <3>2 DEF ItemsInOrder
  <2>4. ASSUME NEW j \in 1 .. Len(indexed'), indexed'[j].kind = queue'[u][i].item.kind
        PROVE  indexed'[j].n < queue'[u][i].item.n
    <3>1. CASE j \in 1 .. Len(indexed) /\ indexed'[j] = indexed[j]
      BY <2>1, <2>4, <3>1 DEF ItemsInOrder
    <3>2. CASE indexed'[j] = first
      <4>1. u = q
        BY <1>8, <2>2, <2>4, <3>2
      <4>2. 1 < k
        BY <2>1, <4>1
      <4> QED BY <1>8, <2>1, <2>4, <3>2, <4>1, <4>2
    <3> QED BY <1>7, <2>4, <3>1, <3>2
  <2> QED BY <2>2, <2>3, <2>4
<1>11. ItemsInOrder'
  BY <1>5, <1>9, <1>10 DEF ItemsInOrder
<1>12. ASSUME NEW kind, NEW x, Below(kind, x)
       PROVE  Below(kind, x)'
  <2>1. ASSUME NEW i \in 1 .. Len(indexed'), indexed'[i].kind = kind
        PROVE  indexed'[i].n < x
    BY <1>4, <1>7, <1>12, <2>1 DEF Below, first
  <2>2. ASSUME NEW u \in Indexes, NEW i \in 1 .. Len(queue'[u]), queue'[u][i].item.kind = kind
        PROVE  queue'[u][i].item.n < x
    BY <1>6, <1>12, <2>2 DEF Below
  <2> QED BY <2>1, <2>2 DEF Below
<1> QED BY <1>11, <1>12

LEMMA InitO == Init => OInv
<1> SUFFICES ASSUME Init PROVE OInv
  OBVIOUS
<1>1. Len(indexed) = 0 /\ (\A q \in Indexes : Len(queue[q]) = 0) /\ Len(inbox) = 0
  BY EmptyIsSeq DEF Init
<1>2. Pending = <<>> /\ answer = <<>>
  BY DEF Init, Pending
<1>3. \A kind, x : Below(kind, x)
  BY <1>1 DEF Below
<1>4. ItemsInOrder
  BY <1>1 DEF ItemsInOrder, InOrder
<1>5. RecordsInOrder
  BY <1>2, <1>3, EmptyIsSeq DEF RecordsInOrder, RecordsAfter, Ascends
<1>6. ValuesInOrder
  BY <1>1, <1>3 DEF ValuesInOrder
<1> QED BY <1>4, <1>5, <1>6 DEF OInv

\* Steps that push nothing and add nothing.
LEMMA QuietOrders ==
  ASSUME OInv, UNCHANGED <<queue, indexed, program, records, values>>,
         UNCHANGED Pending \/ Pending' = answer \/ Pending' = <<>>,
         UNCHANGED answer \/ answer' = <<>>, UNCHANGED inbox \/ inbox' = <<>>
  PROVE  OInv'
<1>1. ItemsInOrder' /\ \A kind, x : Below(kind, x) => Below(kind, x)'
  BY BelowKeeps DEF OInv
<1>2. RecordsInOrder'
  <2>1. RecordsAfter(Pending)'
    BY <1>1, EmptyIsSeq DEF OInv, RecordsInOrder, RecordsAfter, Ascends, Below
  <2>2. RecordsAfter(answer)'
    BY <1>1, EmptyIsSeq DEF OInv, RecordsInOrder, RecordsAfter, Ascends, Below
  <2>3. Below("record", records + 1)'
    BY <1>1 DEF OInv, RecordsInOrder, Below
  <2> QED BY <2>1, <2>2, <2>3 DEF RecordsInOrder
<1>3. ValuesInOrder'
  BY <1>1, EmptyIsSeq DEF OInv, ValuesInOrder, Below
<1> QED BY <1>1, <1>2, <1>3 DEF OInv

LEMMA PendingTypes ==
  ASSUME ThreadTypes, Stages
  PROVE  Pending \in Seq(Nat) /\ answer \in Seq(Nat)
<1>1. mpc = "claimed" => Tail(reply) \in Seq(Nat)
  BY HeadTailProperties DEF ThreadTypes, Stages
<1> QED BY <1>1 DEF Pending, ThreadTypes

\* The order of the records survives a step that pushes none.
LEMMA RecordsStay ==
  ASSUME RecordsInOrder, ThreadTypes, Stages, ServerTypes, UNCHANGED <<Pending, answer, records>>,
         \A x \in Nat : Below("record", x) => Below("record", x)'
  PROVE  RecordsInOrder'
<1>1. /\ \A i \in 1 .. Len(Pending) : Pending[i] \in Nat
      /\ \A i \in 1 .. Len(answer) : answer[i] \in Nat
      /\ records + 1 \in Nat
  BY PendingTypes, ElementOfSeq DEF ServerTypes
<1>2. \A i \in 1 .. Len(Pending) : Below("record", Pending[i])'
  BY <1>1 DEF RecordsInOrder, RecordsAfter, Below
<1>3. \A i \in 1 .. Len(answer) : Below("record", answer[i])'
  BY <1>1 DEF RecordsInOrder, RecordsAfter, Below
<1>4. Below("record", records + 1)'
  BY <1>1 DEF RecordsInOrder, Below
<1> QED BY <1>2, <1>3, <1>4 DEF RecordsInOrder, RecordsAfter, Ascends

LEMMA InboxElements ==
  ASSUME BrokerTypes
  PROVE  Len(inbox) \in Nat /\ \A i \in 1 .. Len(inbox) : inbox[i].n \in Nat
<1>1. \A i \in 1 .. Len(inbox) : inbox[i] \in Message
  BY ElementOfSeq DEF BrokerTypes
<1> QED BY <1>1 DEF BrokerTypes, Message

LEMMA ValuesStay ==
  ASSUME ValuesInOrder, BrokerTypes, ServerTypes, UNCHANGED <<inbox, values>>,
         \A x \in Nat : Below("value", x) => Below("value", x)'
  PROVE  ValuesInOrder'
<1>1. values + 1 \in Nat
  BY DEF ServerTypes
<1> QED BY <1>1, InboxElements DEF ValuesInOrder, Below

LEMMA PublishesOrders ==
  ASSUME Parts, OInv, NEW payload \in Payloads, ServerPublishes(payload)
  PROVE  OInv'
<1>1. ItemsInOrder' /\ \A kind, x : Below(kind, x) => Below(kind, x)'
  BY BelowKeeps DEF OInv, ServerPublishes, elastic
<1>2. RecordsInOrder'
  BY <1>1, RecordsStay DEF Parts, OInv, ServerPublishes, mainVars, Pending
<1>3. values \in Nat /\ values' = values + 1
  BY DEF Parts, ServerTypes, ServerPublishes
<1>4. Below("value", values + 1) /\ Below("value", values' + 1)
  BY <1>3, BelowMore DEF Parts, OInv, ValuesInOrder
<1>5. \A i \in 1 .. Len(inbox') :
        \/ i \in 1 .. Len(inbox) /\ inbox'[i] = inbox[i]
        \/ i = Len(inbox) + 1 /\ inbox'[i].n = values + 1
  <2>1. [n |-> values + 1, payload |-> payload] \in Message
    BY <1>3 DEF Message
  <2>2. [n |-> values + 1, payload |-> payload].n = values + 1
    OBVIOUS
  <2>3. \/ inbox' = inbox
        \/ inbox' = Append(inbox, [n |-> values + 1, payload |-> payload])
    BY DEF ServerPublishes
  <2>4. CASE inbox' = inbox
    BY <2>4
  <2>5. CASE inbox' = Append(inbox, [n |-> values + 1, payload |-> payload])
    <3> DEFINE message == [n |-> values + 1, payload |-> payload]
    <3>1. inbox \in Seq(Message) /\ message \in Message /\ message.n = values + 1
      BY <2>1 DEF Parts, BrokerTypes
    <3> HIDE DEF message
    <3>2. /\ Len(Append(inbox, message)) = Len(inbox) + 1 /\ Len(inbox) \in Nat
          /\ Append(inbox, message)[Len(inbox) + 1] = message
          /\ \A i \in 1 .. Len(inbox) : Append(inbox, message)[i] = inbox[i]
      BY <3>1, AppendSeq
    <3> QED BY <2>5, <3>1, <3>2 DEF message
  <2> QED BY <2>3, <2>4, <2>5
<1>6. \A i \in 1 .. Len(inbox) : Below("value", inbox[i].n) /\ inbox[i].n <= values
  BY DEF OInv, ValuesInOrder
<1>7. ASSUME NEW i \in 1 .. Len(inbox')
      PROVE  /\ Below("value", inbox'[i].n)
             /\ inbox'[i].n <= values'
             /\ \A j \in 1 .. Len(inbox') : i < j => inbox'[i].n < inbox'[j].n
  <2>1. Below("value", inbox'[i].n) /\ inbox'[i].n <= values'
    BY <1>3, <1>5, <1>6, InboxElements, BelowMore DEF Parts, OInv, ValuesInOrder
  <2>2. ASSUME NEW j \in 1 .. Len(inbox'), i < j
        PROVE  inbox'[i].n < inbox'[j].n
    <3>1. i \in 1 .. Len(inbox) /\ inbox'[i] = inbox[i] /\ inbox[i].n \in Nat
      BY <1>5, <2>2, InboxElements DEF Parts
    <3> QED BY <1>3, <1>5, <1>6, <2>2, <3>1 DEF OInv, ValuesInOrder
  <2> QED BY <2>1, <2>2
<1>8. UNCHANGED <<queue, indexed>>
  BY DEF ServerPublishes, elastic
<1>9. ValuesInOrder'
  BY <1>4, <1>7, <1>8 DEF ValuesInOrder, Below
<1> QED BY <1>1, <1>2, <1>9 DEF OInv

LEMMA AddsOrders ==
  ASSUME Parts, OInv, NEW n \in 1 .. 2, ServerAdds(n)
  PROVE  OInv'
<1>1. ItemsInOrder' /\ \A kind, x : Below(kind, x) => Below(kind, x)'
  BY BelowKeeps DEF OInv, ServerAdds, elastic
<1>2. ValuesInOrder'
  BY <1>1, ValuesStay DEF Parts, OInv, ServerAdds, broker
<1>3. /\ records \in Nat /\ records' = records + n /\ n \in Nat /\ UNCHANGED Pending
      /\ UNCHANGED <<queue, indexed>>
  BY DEF Parts, ServerTypes, ServerAdds, Pending, elastic
<1>4. \A x \in Nat : x >= records + 1 => Below("record", x)
  BY <1>3, BelowMore DEF Parts, OInv, RecordsInOrder
<1>5. Below("record", records + 1)'
  BY <1>3, <1>4 DEF Below
<1>6. RecordsAfter(Pending)'
  <2>1. \A i \in 1 .. Len(Pending) : Pending[i] \in Nat
    BY PendingTypes, ElementOfSeq DEF Parts
  <2> QED BY <1>3, <2>1 DEF OInv, RecordsInOrder, RecordsAfter, Ascends, Below
<1>7. RecordsAfter(answer)'
  <2>1. \A i \in 1 .. Len(answer) : answer[i] \in Nat
    BY PendingTypes, ElementOfSeq DEF Parts
  <2>2. CASE answer' = answer
    BY <1>3, <2>1, <2>2 DEF OInv, RecordsInOrder, RecordsAfter, Ascends, Below
  <2>3. CASE answer = <<>> /\ answer' = [i \in 1 .. n |-> records + i]
    <3>1. Len(answer') = n /\ \A i \in 1 .. n : answer'[i] = records + i
      BY <1>3, <2>3
    <3>2. \A i \in 1 .. n : Below("record", records + i)
      BY <1>3, <1>4
    <3> QED BY <1>3, <3>1, <3>2 DEF RecordsAfter, Ascends, Below
  <2> QED BY <2>2, <2>3 DEF ServerAdds, Seen
<1> QED BY <1>1, <1>2, <1>5, <1>6, <1>7 DEF OInv, RecordsInOrder

LEMMA OnMessageOrders ==
  ASSUME Parts, OInv, OnMessage
  PROVE  OInv'
<1> DEFINE item == Value(Head(inbox).n)
<1>1. /\ inbox \in Seq(Message) /\ inbox /= <<>> /\ inbox' = Tail(inbox) /\ Head(inbox) = inbox[1]
      /\ Len(inbox) \in Nat \ {0} /\ Len(inbox') = Len(inbox) - 1
      /\ \A i \in 1 .. Len(inbox') : inbox'[i] = inbox[i + 1]
  BY HeadTailProperties, EmptyOrNot DEF Parts, BrokerTypes, OnMessage
<1>2. /\ Head(inbox).n \in Nat /\ item \in Items /\ item.kind = "value" /\ item.n = Head(inbox).n
      /\ \A i \in 1 .. Len(inbox) : inbox[i].n \in Nat
  BY <1>1, InboxElements, ItemTypes DEF Parts, Value
<1>3. UNCHANGED <<Pending, answer, records, values, indexed, program>> /\ values \in Nat
  BY DEF OnMessage, Pending, mainVars, server, Parts, ServerTypes
<1>4. \A i \in 1 .. Len(inbox) : Below("value", inbox[i].n) /\ inbox[i].n <= values
  BY DEF OInv, ValuesInOrder
<1>5. CASE UNCHANGED <<worker, queue>>
  <2>1. ItemsInOrder' /\ \A kind, x : Below(kind, x) => Below(kind, x)'
    BY <1>3, <1>5, BelowKeeps DEF OInv
  <2>2. RecordsInOrder'
    BY <1>3, <2>1, RecordsStay DEF Parts, OInv
  <2>3. ValuesInOrder'
    BY <1>1, <1>3, <1>5 DEF OInv, ValuesInOrder, Below
  <2> QED BY <2>1, <2>2, <2>3 DEF OInv
<1>6. CASE Claim(item)
  <2>1. Below(item.kind, item.n) /\ \A i \in 2 .. Len(inbox) : item.n < inbox[i].n
    BY <1>1, <1>2, <1>4 DEF OInv, ValuesInOrder
  <2>2. /\ ItemsInOrder'
        /\ \A kind : \A x \in Nat :
             Below(kind, x) /\ (kind = item.kind => item.n < x) => Below(kind, x)'
    BY <1>2, <1>3, <1>6, <2>1, ClaimOrders DEF Parts, OInv
  <2>3. RecordsInOrder'
    <3>1. \A x \in Nat : Below("record", x) => Below("record", x)'
      BY <1>2, <2>2
    <3> QED BY <1>3, <3>1, RecordsStay DEF Parts, OInv
  <2> HIDE DEF item
  <2>4. Below("value", values + 1)'
    <3>1. values + 1 \in Nat /\ item.n < values + 1 /\ Below("value", values + 1)
      BY <1>1, <1>2, <1>3, <1>4 DEF OInv, ValuesInOrder
    <3> QED BY <1>3, <2>2, <3>1 DEF Below
  <2>5. ASSUME NEW i \in 1 .. Len(inbox')
        PROVE  /\ i + 1 \in 2 .. Len(inbox) /\ inbox'[i] = inbox[i + 1]
               /\ \E x \in Nat : x = inbox'[i].n /\ Below("value", x)' /\ x <= values
    <3>1. i + 1 \in 2 .. Len(inbox) /\ i + 1 \in 1 .. Len(inbox) /\ inbox'[i] = inbox[i + 1]
      BY <1>1
    <3>2. /\ inbox[i + 1].n \in Nat /\ Below("value", inbox[i + 1].n) /\ item.n < inbox[i + 1].n
          /\ inbox[i + 1].n <= values
      BY <1>2, <1>4, <2>1, <3>1
    <3> QED BY <2>2, <3>1, <3>2
  <2>6. ValuesInOrder'
    <3>1. \A i, j \in 1 .. Len(inbox') : i < j => inbox'[i].n < inbox'[j].n
      BY <1>1, <2>5 DEF OInv, ValuesInOrder
    <3> QED BY <1>3, <2>4, <2>5, <3>1 DEF ValuesInOrder, Below
  <2> QED BY <2>2, <2>3, <2>6 DEF OInv
<1> QED BY <1>5, <1>6 DEF OnMessage

LEMMA PushRecordOrders ==
  ASSUME Parts, OInv, PushRecord
  PROVE  OInv'
<1> DEFINE item == Record(Head(reply))
<1>1. /\ reply \in Seq(Nat) /\ reply /= <<>> /\ Head(reply) = reply[1] /\ Head(reply) \in Nat
      /\ Tail(reply) \in Seq(Nat) /\ Len(reply) \in Nat \ {0} /\ Len(Tail(reply)) = Len(reply) - 1
      /\ \A i \in 1 .. Len(Tail(reply)) : Tail(reply)[i] = reply[i + 1]
  BY HeadTailProperties, EmptyOrNot DEF Parts, ThreadTypes, Stages, PushRecord
<1>2. item \in Items /\ item.kind = "record" /\ item.n = Head(reply)
  BY <1>1, ItemTypes DEF Record
<1>3. /\ Pending = reply /\ Pending' = Tail(reply)
      /\ UNCHANGED <<records, values, answer, inbox, indexed, program>> /\ answer = <<>>
  BY DEF Pending, PushRecord, Rest, Parts, Stages, server, broker
<1>4. /\ \A i \in 1 .. Len(reply) : reply[i] \in Nat /\ Below("record", reply[i]) /\ reply[i] <= records
      /\ \A i, j \in 1 .. Len(reply) : i < j => reply[i] < reply[j]
      /\ Below("record", records + 1) /\ records + 1 \in Nat /\ records \in Nat
  BY <1>1, <1>3, ElementOfSeq DEF OInv, RecordsInOrder, RecordsAfter, Ascends, Parts, ServerTypes
<1>5. \A i \in 1 .. Len(Tail(reply)) : i + 1 \in 2 .. Len(reply) /\ i + 1 \in 1 .. Len(reply)
  BY <1>1
<1>6. CASE UNCHANGED queue
  <2>1. ItemsInOrder' /\ \A kind, x : Below(kind, x) => Below(kind, x)'
    BY <1>3, <1>6, BelowKeeps DEF OInv
  <2>2. RecordsAfter(Pending)'
    BY <1>1, <1>3, <1>4, <1>5, <1>6 DEF RecordsAfter, Ascends, Below
  <2>3. RecordsInOrder'
    BY <1>3, <1>4, <1>6, <2>2, EmptyIsSeq DEF RecordsInOrder, RecordsAfter, Ascends, Below
  <2>4. ValuesInOrder'
    BY <1>3, <2>1, ValuesStay DEF Parts, OInv
  <2> QED BY <2>1, <2>3, <2>4 DEF OInv
<1>7. CASE Claim(item)
  <2>1. Below(item.kind, item.n) /\ \A i \in 2 .. Len(reply) : item.n < reply[i]
    BY <1>1, <1>2, <1>4
  <2>2. /\ ItemsInOrder'
        /\ \A kind : \A x \in Nat :
             Below(kind, x) /\ (kind = item.kind => item.n < x) => Below(kind, x)'
    BY <1>2, <1>3, <1>7, <2>1, ClaimOrders DEF Parts, OInv
  <2>3. ValuesInOrder'
    <3>1. \A x \in Nat : Below("value", x) => Below("value", x)'
      BY <1>2, <2>2
    <3> QED BY <1>3, <3>1, ValuesStay DEF Parts, OInv
  <2> HIDE DEF item
  <2>4. Below("record", records + 1)'
    <3>1. item.n < records + 1
      BY <1>1, <1>2, <1>4
    <3> QED BY <1>3, <1>4, <2>2, <3>1 DEF Below
  <2>5. ASSUME NEW i \in 1 .. Len(Tail(reply))
        PROVE  \E x \in Nat : x = Tail(reply)[i] /\ Below("record", x)' /\ x <= records
    BY <1>1, <1>2, <1>4, <1>5, <2>1, <2>2
  <2>6. \A i, j \in 1 .. Len(Tail(reply)) : i < j => Tail(reply)[i] < Tail(reply)[j]
    BY <1>1, <1>4, <1>5
  <2>7. RecordsAfter(Pending)'
    BY <1>3, <2>5, <2>6 DEF RecordsAfter, Ascends, Below
  <2>8. RecordsInOrder'
    BY <1>3, <2>4, <2>7, EmptyIsSeq DEF RecordsInOrder, RecordsAfter, Ascends, Below
  <2> QED BY <2>2, <2>3, <2>8 DEF OInv
<1> QED BY <1>6, <1>7 DEF PushRecord

\* Publishing and posting change no order.
LEMMA ServingOrders ==
  ASSUME Parts, OInv,
         ValuePublished \/ RecordPublished \/ \E q \in Indexes : Post(q) \/ NoData(q)
  PROVE  OInv'
<1>1. UNCHANGED <<inbox, records, values, answer, Pending>>
  BY DEF ValuePublished, RecordPublished, Post, NoData, Pending, Rest, broker, server, mainVars
<1>2. ItemsInOrder' /\ \A kind, x : Below(kind, x) => Below(kind, x)'
  <2>1. CASE ValuePublished
    <3>1. Value(wvalue) \in Items
      BY ItemTypes DEF Parts, ThreadTypes
    <3> QED BY <2>1, <3>1, PublishOrders DEF ValuePublished, Parts, OInv
  <2>2. CASE RecordPublished
    <3>1. Record(Head(reply)) \in Items
      BY <2>2, ReplyTypes DEF Parts, Stages, RecordPublished
    <3> QED BY <2>2, <3>1, PublishOrders DEF RecordPublished, Parts, OInv
  <2>3. ASSUME NEW q \in Indexes, Post(q)
        PROVE  ItemsInOrder' /\ \A kind, x : Below(kind, x) => Below(kind, x)'
    BY <2>3, PostOrders DEF Parts, OInv
  <2>4. ASSUME NEW q \in Indexes, NoData(q)
        PROVE  ItemsInOrder' /\ \A kind, x : Below(kind, x) => Below(kind, x)'
    BY <2>4, BelowKeeps DEF NoData, OInv
  <2> QED BY <2>1, <2>2, <2>3, <2>4
<1> QED BY <1>1, <1>2, RecordsStay, ValuesStay DEF Parts, OInv

LEMMA QuietStepsOrder ==
  ASSUME Parts, OInv,
         \/ ServerDown \/ ServerUp \/ ConnectionLost
         \/ Start \/ ReconnectTimer \/ ReadFailure \/ DisconnectDone \/ Reconnect
         \/ Xread \/ Command \/ UseAfterFree \/ XreadAnswered \/ XreadFails
         \/ UNCHANGED vars
  PROVE  OInv'
<1> USE DEF vars, server, broker, worker, mainVars, elastic, history, Pending
<1>1. UNCHANGED <<queue, indexed, program, records, values>>
  BY DEF ServerDown, ServerUp, ConnectionLost, Start, ReconnectTimer, ReadFailure, DisconnectDone,
         Reconnect, Xread, Command, UseAfterFree, XreadAnswered, XreadFails
<1>2. UNCHANGED inbox \/ inbox' = <<>>
  BY DEF ServerDown, ServerUp, ConnectionLost, Start, ReconnectTimer, ReadFailure, DisconnectDone,
         Reconnect, Xread, Command, UseAfterFree, XreadAnswered, XreadFails, Connected
<1>3. UNCHANGED answer \/ answer' = <<>>
  BY DEF ServerDown, ServerUp, ConnectionLost, Start, ReconnectTimer, ReadFailure, DisconnectDone,
         Reconnect, Xread, Command, UseAfterFree, XreadAnswered, XreadFails
<1>4. UNCHANGED Pending \/ Pending' = answer \/ Pending' = <<>>
  <2>1. CASE XreadAnswered
    BY <2>1 DEF XreadAnswered
  <2>2. CASE Start \/ ReadFailure \/ Xread \/ Command \/ UseAfterFree \/ XreadFails
    BY <2>2 DEF Start, ReadFailure, Xread, Command, UseAfterFree, XreadFails
  <2>3. CASE \/ ServerDown \/ ServerUp \/ ConnectionLost \/ ReconnectTimer \/ DisconnectDone
             \/ Reconnect \/ UNCHANGED vars
    BY <2>3 DEF ServerDown, ServerUp, ConnectionLost, ReconnectTimer, DisconnectDone, Reconnect
  <2> QED BY <2>1, <2>2, <2>3
<1> QED BY <1>1, <1>2, <1>3, <1>4, QuietOrders

\* Elasticsearch gets records and values in the order in which the server had them, none
\* twice, over reconnections, timeouts, full queues and failed posts
\* (redis2elastic.cpp:178-252, redis-elastic.cpp:153-213).
THEOREM IndexedInOrder == Spec => []InOrder
<1>1. EInv /\ OInv /\ [Next]_vars => OInv'
  <2> SUFFICES ASSUME Parts, OInv, [Next]_vars PROVE OInv'
    BY EParts
  <2> QED BY PublishesOrders, AddsOrders, OnMessageOrders, PushRecordOrders, ServingOrders,
             QuietStepsOrder DEF Next, Worker, Main, Elastic
<1>2. OInv => InOrder
  BY DEF OInv, ItemsInOrder
<1> QED BY InitO, <1>1, <1>2, ElasticInvariance, PTL DEF Spec
===============================================================================
