---------------------------- MODULE Redis2Elastic ----------------------------
(***************************************************************************)
(* The two programs that copy from Redis to Elasticsearch, with their      *)
(* three threads: main() reads the stream "logs" with XREAD, the worker    *)
(* thread receives published values and reconnects the broker, the elastic *)
(* thread posts what the other two have queued.  redis2elastic queues both *)
(* on the index "logs", redis-elastic (proxy/src/redis-elastic.cpp) queues *)
(* values on "metrics".                                                    *)
(*                                                                         *)
(* main() and the worker share the broker's publish context without a      *)
(* lock: the steps of disconnect() and of xread() are actions of their     *)
(* own.  Connecting is all or nothing here (BrokerRedis has the rest), and *)
(* push is the claim of a slot and its publication (ArrayQueue has the     *)
(* rest).                                                                  *)
(***************************************************************************)
EXTENDS Naturals, Sequences, FiniteSets

CONSTANTS Capacity,     \* of an index's queue
          MaxRecords,   \* bound on the records added to the stream
          MaxValues,    \* bound on the values published
          MaxFaults     \* bound on restarts of the server and lost connections

ASSUME CapacityAssumption == Capacity \in Nat \ {0}
ASSUME BoundAssumption == MaxRecords \in Nat /\ MaxValues \in Nat /\ MaxFaults \in Nat

Programs == {"redis2elastic", "redis-elastic"}
Indexes  == {"logs", "metrics"}
Payloads == {"number", "text", "other"}   \* how a payload's CBOR begins
Items    == [kind : {"record", "value"}, n : Nat]

Record(k) == [kind |-> "record", n |-> k]
Value(k)  == [kind |-> "value", n |-> k]

VARIABLES program,                   \* which of the two
          up, faults,                \* the server
          records, values,           \* how many records and values there were
          sub, subscribed, inbox,    \* subscribe context, its subscription, what it has to read
          pub, connected,            \* publish context, and the broker's flag
          wpc, wvalue,               \* the worker thread, and the value it pushes
          mpc, answer, reply,        \* main, what XREAD has to read, records left to push
          queue, wakeups, noData,    \* the elastic thread's flows and pipe
          indexed,                   \* what Elasticsearch has accepted
          awaited, lost,             \* auxiliary: records an XREAD waited for, items given up
          alone, undefined           \* auxiliary: pub failed by itself, pub used after redisFree

server  == <<up, faults, records, values>>
broker  == <<sub, subscribed, inbox, pub, connected>>
worker  == <<wpc, wvalue>>
mainVars == <<mpc, answer, reply>>
elastic == <<queue, wakeups, noData, indexed>>
history == <<awaited, lost, alone, undefined>>
vars    == <<program, server, broker, worker, mainVars, elastic, history>>

TypeOK ==
  /\ program \in Programs
  /\ up \in BOOLEAN /\ faults \in 0 .. MaxFaults
  /\ records \in 0 .. MaxRecords /\ values \in 0 .. MaxValues
  /\ sub \in {"none", "open", "closed"} /\ subscribed \in BOOLEAN
  /\ inbox \in Seq([n : Nat, payload : Payloads])
  /\ pub \in {"none", "open", "closed", "error", "freed"} /\ connected \in BOOLEAN
  /\ wpc \in {"start", "loop", "freed", "connect", "claimed"} /\ wvalue \in Nat
  /\ mpc \in {"start", "loop", "checked", "waiting", "push", "claimed", "stale", "dead"}
  /\ answer \in Seq(Nat) /\ reply \in Seq(Nat)
  /\ queue \in [Indexes -> Seq([item : Items, ready : BOOLEAN])]
  /\ \A q \in Indexes : Len(queue[q]) <= Capacity
  /\ wakeups \in [Indexes -> Nat] /\ noData \in Nat
  /\ indexed \in Seq(Items)
  /\ awaited \subseteq Nat /\ lost \subseteq Items
  /\ alone \in BOOLEAN /\ undefined \in BOOLEAN

Init ==
  /\ program \in Programs
  /\ up \in BOOLEAN /\ faults = 0 /\ records = 0 /\ values = 0
  /\ sub = "none" /\ subscribed = FALSE /\ inbox = <<>>
  /\ pub = "none" /\ connected = FALSE
  /\ wpc = "start" /\ wvalue = 0
  /\ mpc = "start" /\ answer = <<>> /\ reply = <<>>
  /\ queue = [q \in Indexes |-> <<>>] /\ wakeups = [q \in Indexes |-> 0] /\ noData = 0
  /\ indexed = <<>>
  /\ awaited = {} /\ lost = {} /\ alone = FALSE /\ undefined = FALSE

-------------------------------------------------------------------------------
(* The server and the network *)

ServerDown ==
  /\ up /\ faults < MaxFaults
  /\ up' = FALSE /\ faults' = faults + 1
  /\ sub' = IF sub = "open" THEN "closed" ELSE sub
  /\ pub' = IF pub = "open" THEN "closed" ELSE pub
  /\ UNCHANGED <<program, records, values, subscribed, inbox, connected, worker, mainVars,
                 elastic, history>>

ServerUp == /\ ~ up /\ up' = TRUE
            /\ UNCHANGED <<program, faults, records, values, broker, worker, mainVars, elastic,
                           history>>

\* One of the two connections breaks: a subscriber that is too slow, CLIENT KILL.
ConnectionLost ==
  /\ faults < MaxFaults /\ faults' = faults + 1
  /\ \/ sub = "open" /\ sub' = "closed" /\ UNCHANGED <<pub, alone>>
     \/ pub = "open" /\ pub' = "closed" /\ alone' = TRUE /\ UNCHANGED sub
  /\ UNCHANGED <<program, up, records, values, subscribed, inbox, connected, worker, mainVars,
                 elastic, awaited, lost, undefined>>

\* Somebody publishes a value.
ServerPublishes(payload) ==
  /\ up /\ values < MaxValues
  /\ values' = values + 1
  /\ inbox' = IF sub = "open" /\ subscribed
              THEN Append(inbox, [n |-> values + 1, payload |-> payload]) ELSE inbox
  /\ UNCHANGED <<program, up, faults, records, sub, subscribed, pub, connected, worker,
                 mainVars, elastic, history>>

Waiting == mpc = "waiting" /\ pub = "open"

\* XREAD ... $: a read sees what is added while it waits.
\* Mutant: XREAD ... 0, a read sees the stream from its beginning.
SeenFromStart(n) == [i \in 1 .. records + n |-> i]
Seen(n) == IF answer = <<>> THEN [i \in 1 .. n |-> records + i] ELSE answer

\* Somebody adds n records to the stream, in one transaction.
ServerAdds(n) ==
  /\ up /\ records + n <= MaxRecords
  /\ records' = records + n
  /\ IF Waiting
     THEN /\ answer' = Seen(n)
          /\ awaited' = awaited \cup {Seen(n)[i] : i \in 1 .. Len(Seen(n))}
     ELSE UNCHANGED <<answer, awaited>>
  /\ UNCHANGED <<program, up, faults, values, broker, worker, mpc, reply, elastic, lost, alone,
                 undefined>>

-------------------------------------------------------------------------------
(* The broker: connect() and disconnect(), for main and the worker *)

\* The end of connect(): both contexts, or neither.  A new context is subscribed to
\* nothing.
Connected(patterns) ==
  /\ inbox' = <<>>
  /\ IF up THEN sub' = "open" /\ pub' = "open" /\ connected' = TRUE /\ subscribed' = patterns
           ELSE sub' = "none" /\ connected' = FALSE /\ subscribed' = FALSE /\ UNCHANGED pub

\* main(): broker.connect("brain"), broker.subscribe("*"), then the threads start.
\* subscribe() sends its command on whatever context there is; nobody looks at the result.
Start ==
  /\ mpc = "start"
  /\ Connected(TRUE)
  /\ mpc' = "loop" /\ wpc' = "loop"
  /\ UNCHANGED <<program, server, wvalue, answer, reply, elastic, history>>

\* Mutant of ReconnectTimer: the test is inverted, and connect() returns at once.
ReconnectTimerInverted == wpc = "loop" /\ connected /\ UNCHANGED vars

ReconnectTimer ==
  /\ wpc = "loop" /\ ~ connected
  /\ Connected(FALSE)
  /\ UNCHANGED <<program, server, worker, mainVars, elastic, history>>

\* The read invoker finds the subscribe context broken: disconnect() frees both contexts,
\* whoever uses them.
ReadFailure ==
  /\ wpc = "loop" /\ connected /\ sub = "closed"
  /\ wpc' = "freed"
  /\ sub' = "none" /\ inbox' = <<>> /\ subscribed' = FALSE /\ pub' = "freed"
  /\ mpc' = IF mpc = "waiting" THEN "stale" ELSE mpc
  /\ answer' = <<>> /\ lost' = lost \cup {Record(answer[i]) : i \in 1 .. Len(answer)}
  /\ UNCHANGED <<program, server, connected, wvalue, reply, elastic, awaited, alone, undefined>>

\* ... clears the flag, a step later ...
DisconnectDone ==
  /\ wpc = "freed"
  /\ connected' = FALSE /\ wpc' = "connect"
  /\ UNCHANGED <<program, server, sub, subscribed, inbox, pub, wvalue, mainVars, elastic, history>>

\* ... and connects again.
Reconnect ==
  /\ wpc = "connect"
  /\ Connected(FALSE) /\ wpc' = "loop"
  /\ UNCHANGED <<program, server, wvalue, mainVars, elastic, history>>

-------------------------------------------------------------------------------
(* putIndex().on(): claim a slot, then publish it and write the wakeup     *)

\* Mutant: redis-elastic queues everything on one index.
RouteLogs(kind) == "logs"
Route(kind) == IF kind = "value" /\ program = "redis-elastic" THEN "metrics" ELSE "logs"

OneQueue == Route("record") = Route("value")

Drop(item) == lost' = lost \cup {item}

Claim(item) ==
  /\ Len(queue[Route(item.kind)]) < Capacity
  /\ queue' = [queue EXCEPT ![Route(item.kind)] = Append(@, [item |-> item, ready |-> FALSE])]

\* The queue is full, or another producer got in between.
PushFails(item) ==
  /\ OneQueue \/ Len(queue[Route(item.kind)]) = Capacity
  /\ Drop(item)

Publish(item) ==
  /\ queue' = [queue EXCEPT ![Route(item.kind)] =
                 [i \in DOMAIN @ |-> IF @[i].item = item THEN [@[i] EXCEPT !.ready = TRUE] ELSE @[i]]]
  /\ wakeups' = [wakeups EXCEPT ![Route(item.kind)] = @ + 1]

-------------------------------------------------------------------------------
(* The worker thread: broker.incoming() *)

\* A payload is tried as a double, as an integer and, by redis2elastic only, as a text.
Decodes(payload) == payload = "number" \/ (payload = "text" /\ program = "redis2elastic")

OnMessage ==
  /\ wpc = "loop" /\ inbox /= <<>>
  /\ inbox' = Tail(inbox)
  /\ LET item == Value(Head(inbox).n)
     IN \/ ~ Decodes(Head(inbox).payload) /\ UNCHANGED <<worker, queue, lost>>
        \/ Decodes(Head(inbox).payload) /\ PushFails(item) /\ UNCHANGED <<worker, queue>>
        \/ /\ Decodes(Head(inbox).payload) /\ Claim(item)
           /\ wpc' = "claimed" /\ wvalue' = item.n /\ UNCHANGED lost
  /\ UNCHANGED <<program, server, sub, subscribed, pub, connected, mainVars, wakeups, noData,
                 indexed, awaited, alone, undefined>>

ValuePublished ==
  /\ wpc = "claimed"
  /\ Publish(Value(wvalue)) /\ wpc' = "loop"
  /\ UNCHANGED <<program, server, broker, wvalue, mainVars, noData, indexed, history>>

-------------------------------------------------------------------------------
(* main(): while (true) { reply = broker.xread("logs"); push its records } *)

\* xread: if (!connected()) return 0, else _publishContext is read after the test.
Xread ==
  /\ mpc = "loop" /\ connected
  /\ mpc' = "checked"
  /\ UNCHANGED <<program, server, broker, worker, answer, reply, elastic, history>>

Command ==
  /\ mpc = "checked"
  /\ mpc' = IF pub = "freed" THEN "stale" ELSE IF pub = "error" THEN "loop" ELSE "waiting"
  /\ UNCHANGED <<program, server, broker, worker, answer, reply, elastic, history>>

\* The context was freed: redisCommand may return NULL, write its error into a context
\* allocated meanwhile, or bring the program down.
UseAfterFree ==
  /\ mpc = "stale"
  /\ undefined' = TRUE
  /\ \/ mpc' \in {"loop", "dead"} /\ UNCHANGED pub
     \/ pub = "open" /\ pub' = "error" /\ mpc' = "loop"
  /\ UNCHANGED <<program, server, sub, subscribed, inbox, connected, worker, answer, reply,
                 elastic, awaited, lost, alone>>

XreadAnswered ==
  /\ mpc = "waiting" /\ answer /= <<>>
  /\ reply' = answer /\ answer' = <<>> /\ mpc' = "push"
  /\ UNCHANGED <<program, server, broker, worker, elastic, history>>

\* NULL: after the command timeout of three seconds, or on a broken connection.  hiredis
\* refuses every later command on this context.
XreadFails ==
  /\ mpc = "waiting"
  /\ \/ pub = "open" /\ answer = <<>> /\ alone' = TRUE
     \/ pub = "closed" /\ UNCHANGED alone
  /\ pub' = "error" /\ mpc' = "loop"
  /\ answer' = <<>> /\ lost' = lost \cup {Record(answer[i]) : i \in 1 .. Len(answer)}
  /\ UNCHANGED <<program, server, sub, subscribed, inbox, connected, worker, reply, elastic,
                 awaited, undefined>>

Rest(rs) == IF Len(rs) = 1 THEN "loop" ELSE "push"

\* The loop over the records of the reply: on() for each.
PushRecord ==
  /\ mpc = "push"
  /\ LET item == Record(Head(reply))
     IN \/ Claim(item) /\ mpc' = "claimed" /\ UNCHANGED <<reply, lost>>
        \/ PushFails(item) /\ reply' = Tail(reply) /\ mpc' = Rest(reply) /\ UNCHANGED queue
  /\ UNCHANGED <<program, server, broker, worker, answer, wakeups, noData, indexed, awaited,
                 alone, undefined>>

\* Mutant: only the first record of a reply is pushed.
FirstRecordPublished ==
  /\ mpc = "claimed"
  /\ Publish(Record(Head(reply)))
  /\ reply' = <<>> /\ mpc' = "loop"
  /\ UNCHANGED <<program, server, broker, worker, answer, noData, indexed, history>>

RecordPublished ==
  /\ mpc = "claimed"
  /\ Publish(Record(Head(reply)))
  /\ reply' = Tail(reply) /\ mpc' = Rest(reply)
  /\ UNCHANGED <<program, server, broker, worker, answer, noData, indexed, history>>

-------------------------------------------------------------------------------
(* The elastic thread: a wakeup pops one string and posts it *)

Post(q) ==
  /\ wakeups[q] > 0
  /\ wakeups' = [wakeups EXCEPT ![q] = @ - 1]
  /\ queue[q] /= <<>> /\ Head(queue[q]).ready
  /\ queue' = [queue EXCEPT ![q] = Tail(@)]
  /\ \/ indexed' = Append(indexed, Head(queue[q]).item) /\ UNCHANGED lost
     \/ Drop(Head(queue[q]).item) /\ UNCHANGED indexed   \* curl call fails
  /\ UNCHANGED <<program, server, broker, worker, mainVars, noData, awaited, alone, undefined>>

\* The oldest element is not published yet.
NoData(q) ==
  /\ wakeups[q] > 0
  /\ wakeups' = [wakeups EXCEPT ![q] = @ - 1]
  /\ queue[q] = <<>> \/ ~ Head(queue[q]).ready
  /\ noData' = noData + 1
  /\ UNCHANGED <<program, server, broker, worker, mainVars, queue, indexed, history>>

-------------------------------------------------------------------------------

Worker == ReconnectTimer \/ ReadFailure \/ DisconnectDone \/ Reconnect \/ OnMessage \/ ValuePublished
Main == Xread \/ Command \/ UseAfterFree \/ XreadAnswered \/ PushRecord \/ RecordPublished
Elastic == \E q \in Indexes : Post(q) \/ NoData(q)
Alive == mpc /= "dead"   \* the threads are one process

Next ==
  \/ ServerDown \/ ServerUp \/ ConnectionLost
  \/ \E payload \in Payloads : ServerPublishes(payload)
  \/ \E n \in 1 .. 2 : ServerAdds(n)
  \/ Start
  \/ Alive /\ Worker
  \/ Main \/ XreadFails
  \/ Alive /\ Elastic

Spec == Init /\ [][Next]_vars

\* All three threads run.  That XREAD times out is not fair, but a broken connection is noticed.
FairSpec ==
  /\ Spec
  /\ WF_vars(Start)
  /\ WF_vars(Alive /\ (ReadFailure \/ DisconnectDone \/ Reconnect))
  /\ WF_vars(Alive /\ ReconnectTimer) /\ WF_vars(Alive /\ (OnMessage \/ ValuePublished))
  /\ WF_vars(Main) /\ WF_vars(pub = "closed" /\ XreadFails)
  /\ WF_vars(Alive /\ Elastic)

-------------------------------------------------------------------------------
(* Properties *)

\* Elasticsearch gets the records in the order of the stream and none twice, and so with
\* the values (`$` never goes back; a queue and a thread keep the order, whatever two
\* producers, timeouts and reconnects do; redis2elastic.cpp:216-246).
InOrder ==
  \A i, j \in 1 .. Len(indexed) :
    i < j /\ indexed[i].kind = indexed[j].kind => indexed[i].n < indexed[j].n

\* main, or the worker, is inside the push on its own index of redis-elastic.
Claimed(q) == IF q = "logs" THEN mpc = "claimed" ELSE wpc = "claimed"
ClaimedItem(q) == IF q = "logs" THEN Record(Head(reply)) ELSE Value(wvalue)

\* With an index for each producer every element but the one being pushed is published and
\* has its wakeup, and none is used up in vain (redis-elastic.cpp:177, 207).
OwnWakeups ==
  program = "redis-elastic" =>
    /\ noData = 0
    /\ \A q \in Indexes :
         /\ Len(queue[q]) = wakeups[q] + (IF Claimed(q) THEN 1 ELSE 0)
         /\ \A i \in 1 .. wakeups[q] : queue[q][i].ready
         /\ Claimed(q) => queue[q][Len(queue[q])].item = ClaimedItem(q)

\* main starts the worker; it has records to push while it pushes, and an answer only
\* while it waits for one.
Stages == /\ mpc = "start" <=> wpc = "start"
          /\ mpc \in {"push", "claimed"} <=> reply /= <<>>
          /\ answer /= <<>> => mpc = "waiting"

\* The inductive invariant.
EInv == TypeOK /\ Stages /\ OwnWakeups

\* After any restart main comes back to waiting for records, as long as the publish
\* context has not failed by itself and was not used after it was freed
\* (redis2elastic.cpp:226-228, BrokerRedis.cpp:68-70, 138-144).
LogsRecover ==
  ([] (~ alone /\ ~ undefined) /\ <>[] up) => []<> Waiting

\* What was added while an XREAD waited reaches Elasticsearch or was given up (full or
\* contended queue, failed post, broken connection), unless a wakeup was lost or the
\* program died.
AwaitedIsIndexed ==
  \A k \in 1 .. MaxRecords :
    (k \in awaited) ~> \/ \E i \in 1 .. Len(indexed) : indexed[i] = Record(k)
                       \/ Record(k) \in lost
                       \/ noData > 0 \/ ~ Alive

\* "send logs stream" (redis2elastic.cpp:223): with a server that stays up, and no fault,
\* main keeps waiting for records.  Violated: after three silent seconds the context is
\* in error and nothing replaces it.
LogsGoOn == ([] (faults = 0) /\ <>[] up) => []<> Waiting
=============================================================================
