-------------------------------- MODULE Proxy --------------------------------
(***************************************************************************)
(* The proxy program: one thread that serves a serial session, two Redis   *)
(* brokers and their timers (proxy/src/serialProxy.cpp, SessionSerial.cpp, *)
(* serial.cpp, linux/src/limero.cpp:24-101).                               *)
(*                                                                         *)
(* What it adds to the other modules is the descriptors: the kernel hands  *)
(* out the lowest free number, the read invokers are found by number, and  *)
(* what select() has reported stays as it was while a round's callbacks    *)
(* close, open and watch descriptors.  A round is Select, the pipe, then   *)
(* the read invokers in the order of a hash table.                         *)
(*                                                                         *)
(* A subscribe context is a record that the operators on it change: what   *)
(* there is to read for it, what hiredis has read and not returned, and    *)
(* how far each pattern has come.  Both connections of a broker are made   *)
(* and lost together (BrokerRedis has the connect that stops half way).    *)
(***************************************************************************)
EXTENDS Naturals, Sequences, FiniteSets

CONSTANTS QueueSize,      \* of each of the session's flows
          Others,         \* what the node subscribes to, besides the topics of its name
          MaxDowns,       \* bound on restarts of the server
          MaxArrivals,    \* bound on what the microcontroller sends
          MaxCommands,    \* bound on the messages for it
          MaxFlashes,     \* bound on the messages for the proxy
          MaxUnplugs      \* bound on how often the serial port goes away

ASSUME SizeAssumption == QueueSize \in Nat \ {0}
ASSUME BoundAssumption ==
  {MaxDowns, MaxArrivals, MaxCommands, MaxFlashes, MaxUnplugs} \subseteq Nat

Descriptors == 1 .. 5            \* as many as the three hold between them
NoFd    == 0                     \* -1 in the code
Keys    == Descriptors \cup {NoFd}
Brokers == {"broker", "brokerProxy"}
Nobody  == "nobody"
Arrivals == {"publish", "subscribe", "node", "text"}
Flows   == {"chunk", "message", "out"}   \* _incomingSerial, _incomingMessage, _outgoingMessage
Patterns == {"node"} \cup Others         \* dst/<node>/*, or dst/<node>-proxy/*, and the others
Answer  == 0                             \* to PSUBSCRIBE, among the numbered messages

VARIABLES up, downs, present, unplugs,       \* server, serial port
          tty, arrivals,                     \* what the port has to read
          commands, flashes,                 \* counters of what the server was given
          sfd, hung,                         \* the session's _fd, and whether its port is gone
          sub, pub, link, context,           \* per broker: descriptors, connection,
                                             \* _subscribeContext with _subscribers
          reads,                             \* _readInvokers: whose is each descriptor
          jobs,                              \* the thread's pipe with the queued elements
          pc, ready, todo, current,          \* the round: rfds, what is left of the loop
          wanted, pattern,                   \* who has still to subscribe(), and to what
          alive,
          changed,                           \* auxiliary: the table changed in this round
          dealt,                             \* auxiliary: commands written, or dropped
          swallowed                          \* auxiliary: commands subscribe() has freed

environment == <<up, downs, present, unplugs, tty, arrivals, commands, flashes>>
port    == <<sfd, hung>>
brokers == <<sub, pub, link, context>>
calls   == <<wanted, pattern>>
round   == <<pc, ready, todo, current, calls>>
fates   == <<dealt, swallowed>>
vars    == <<environment, port, brokers, reads, jobs, round, alive, changed, fates>>

Job == [flow : Flows, what : Arrivals \cup {"command"}, n : Nat]

\* A subscribe context: what the server has sent and was not returned, how much of it hiredis
\* has read from the socket, and for each pattern whether PSUBSCRIBE is in hiredis' buffer,
\* with the server, or answered.  What is not unknown is in _subscribers.
Context ==
  {c \in [replies : Seq(Nat), parsed : Nat,
          patterns : [Patterns -> {"unknown", "unwritten", "asked", "known"}]] :
     c.parsed <= Len(c.replies)}
Fresh == [replies |-> <<>>, parsed |-> 0, patterns |-> [p \in Patterns |-> "unknown"]]

Queued(queue, flow) == Cardinality({i \in 1 .. Len(queue) : queue[i].flow = flow})

TypeOK ==
  /\ up \in BOOLEAN /\ present \in BOOLEAN /\ alive \in BOOLEAN /\ changed \in BOOLEAN
  /\ {downs, unplugs, arrivals, commands, flashes} \subseteq Nat
  /\ tty \in Seq(Arrivals)
  /\ sfd \in Keys /\ hung \in BOOLEAN /\ sub \in [Brokers -> Keys] /\ pub \in [Brokers -> Keys]
  /\ link \in [Brokers -> {"none", "open", "closed"}]
  /\ context \in [Brokers -> Context]
  /\ reads \in [Keys -> Brokers \cup {"session", Nobody}]
  /\ jobs \in Seq(Job) /\ \A flow \in Flows : Queued(jobs, flow) <= QueueSize
  /\ pc \in {"select", "pipe", "subscribe", "answer", "reads", "blocked", "flash", "program",
             "reopen"}
  /\ wanted \subseteq Brokers /\ pattern \in Patterns
  /\ ready \subseteq Keys /\ todo \subseteq Keys /\ current \in Keys
  /\ dealt \subseteq Nat /\ swallowed \subseteq Nat

-------------------------------------------------------------------------------
(* Descriptors and the invoker table *)

Used == ({sfd} \cup {sub[b] : b \in Brokers} \cup {pub[b] : b \in Brokers}) \ {NoFd}

Lowest(used) == CHOOSE f \in Descriptors \ used : \A g \in Descriptors \ used : f <= g

Watched(table) == {k \in Keys : table[k] /= Nobody}
Erase(table, k) == [table EXCEPT ![k] = Nobody]
Emplace(table, k, owner) == IF table[k] = Nobody THEN [table EXCEPT ![k] = owner] ELSE table

\* Mutant of SessionConnect: nobody watches the new descriptor.
SessionUnwatched ==
  /\ sfd' = (IF present THEN Lowest(Used) ELSE NoFd) /\ hung' = FALSE
  /\ alive' = TRUE /\ UNCHANGED reads

\* Serial::connect and the two add*Invoker of SessionSerial::connect: without the port
\* descriptor -1 is watched, which FD_SET may or may not survive.  Error invokers are
\* added and deleted with the read invokers, and select() reports no error on a tty.
SessionConnect ==
  LET fd == IF present THEN Lowest(Used) ELSE NoFd
  IN /\ sfd' = fd /\ hung' = FALSE
     /\ reads' = Emplace(reads, fd, "session")
     /\ alive' \in {TRUE, present}

\* Serial::disconnect: closed, or at least forgotten.
PortClosed == sfd' = NoFd /\ hung' = FALSE

\* Mutant: the descriptor is closed, and -1, before its invoker is deleted.
SessionClosedFirst == PortClosed /\ reads' = Erase(reads, NoFd)
SessionDisconnect == PortClosed /\ reads' = Erase(reads, sfd)

\* BrokerRedis::disconnect, if connected, and connect.
Reconnect(b) ==
  LET held  == Used \ {sub[b], pub[b]}
      s     == Lowest(held)
      table == IF link[b] = "none" THEN reads ELSE Erase(reads, sub[b])
  IN /\ IF up
        THEN /\ sub' = [sub EXCEPT ![b] = s]
             /\ pub' = [pub EXCEPT ![b] = Lowest(held \cup {s})]
             /\ link' = [link EXCEPT ![b] = "open"]
             /\ reads' = Emplace(table, s, b)
        ELSE /\ sub' = [sub EXCEPT ![b] = NoFd] /\ pub' = [pub EXCEPT ![b] = NoFd]
             /\ link' = [link EXCEPT ![b] = "none"]
             /\ reads' = table
     /\ context' = [context EXCEPT ![b] = Fresh]

\* session->init(), session->connect(); the timers make the first connections as well:
\* broker.connect() in main() is the same connect().
Init ==
  /\ up = TRUE /\ present \in BOOLEAN
  /\ downs = 0 /\ unplugs = 0 /\ arrivals = 0 /\ commands = 0 /\ flashes = 0
  /\ tty = <<>>
  /\ sfd = (IF present THEN 1 ELSE NoFd) /\ hung = FALSE
  /\ sub = [b \in Brokers |-> NoFd] /\ pub = [b \in Brokers |-> NoFd]
  /\ link = [b \in Brokers |-> "none"]
  /\ context = [b \in Brokers |-> Fresh]
  /\ reads = [k \in Keys |-> IF k = sfd THEN "session" ELSE Nobody]
  /\ jobs = <<>>
  /\ pc = "select" /\ ready = {} /\ todo = {} /\ current = NoFd
  /\ wanted = {} /\ pattern = "node"
  /\ alive = TRUE /\ changed = FALSE /\ dealt = {} /\ swallowed = {}

-------------------------------------------------------------------------------
(* What a subscribe context goes through *)

In(c, state) == {p \in Patterns : c.patterns[p] = state}

\* A command is in hiredis' buffer; what is there goes out.
Asked(c, p) == [c EXCEPT !.patterns[p] = "unwritten"]
Written(c) ==
  [c EXCEPT !.patterns = [p \in Patterns |-> IF @[p] = "unwritten" THEN "asked" ELSE @[p]]]

\* The server sends a message, or has seen PSUBSCRIBE.
Sent(c, n) == [c EXCEPT !.replies = Append(@, n)]
Answered(c, p) == [Sent(c, Answer) EXCEPT !.patterns[p] = "known"]

\* redisGetReply returns the first reply, one that was read earlier before anything is
\* written; else what is in the buffer goes out, and a read takes part of what there is.
Returned(c, n) ==
  [reply |-> Head(c.replies), context |-> [c EXCEPT !.replies = Tail(@), !.parsed = n]]
Read(c) ==
  IF c.parsed > 0 THEN {Returned(c, c.parsed - 1)}
  ELSE {Returned(Written(c), n) : n \in 0 .. Len(c.replies) - 1}

-------------------------------------------------------------------------------
(* Server, port and microcontroller *)

ServerDown ==
  /\ up /\ downs < MaxDowns
  /\ up' = FALSE /\ downs' = downs + 1
  /\ link' = [b \in Brokers |-> IF link[b] = "open" THEN "closed" ELSE link[b]]
  /\ UNCHANGED <<present, unplugs, tty, arrivals, commands, flashes, port, sub, pub, context,
                 reads, jobs, round, alive, changed, fates>>

ServerUp ==
  /\ ~ up /\ up' = TRUE
  /\ UNCHANGED <<downs, present, unplugs, tty, arrivals, commands, flashes, port, brokers, reads,
                 jobs, round, alive, changed, fates>>

\* An open tty that is gone stays readable: read() returns 0, from then on and whatever is
\* plugged in later.  Only the flash handler opens the port again.
Unplug ==
  /\ present /\ unplugs < MaxUnplugs
  /\ present' = FALSE /\ unplugs' = unplugs + 1 /\ tty' = <<>> /\ hung' = (sfd /= NoFd)
  /\ UNCHANGED <<up, downs, arrivals, commands, flashes, sfd, brokers, reads, jobs, round, alive,
                 changed, fates>>

Plug ==
  /\ ~ present /\ present' = TRUE
  /\ UNCHANGED <<up, downs, unplugs, tty, arrivals, commands, flashes, port, brokers, reads, jobs,
                 round, alive, changed, fates>>

\* Heard by a descriptor that was opened since the port was last plugged in.
Arrive(what) ==
  /\ present /\ sfd /= NoFd /\ ~ hung /\ arrivals < MaxArrivals
  /\ tty' = Append(tty, what) /\ arrivals' = arrivals + 1
  /\ UNCHANGED <<up, downs, present, unplugs, commands, flashes, port, brokers, reads, jobs, round,
                 alive, changed, fates>>

\* The server has seen a PSUBSCRIBE and answers.
ServerAnswers(b, p) ==
  /\ link[b] = "open" /\ p \in In(context[b], "asked")
  /\ context' = [context EXCEPT ![b] = Answered(@, p)]
  /\ UNCHANGED <<environment, port, sub, pub, link, reads, jobs, round, alive, changed, fates>>

Subscribed(b) == link[b] = "open" /\ In(context[b], "known") /= {}

\* A message for the microcontroller, or a flash image for the proxy.
SendCommand ==
  /\ Subscribed("broker") /\ commands < MaxCommands
  /\ commands' = commands + 1
  /\ context' = [context EXCEPT !["broker"] = Sent(@, commands + 1)]
  /\ UNCHANGED <<up, downs, present, unplugs, tty, arrivals, flashes, port, sub, pub, link,
                 reads, jobs, round, alive, changed, fates>>

SendFlash ==
  /\ Subscribed("brokerProxy") /\ flashes < MaxFlashes
  /\ flashes' = flashes + 1
  /\ context' = [context EXCEPT !["brokerProxy"] = Sent(@, flashes + 1)]
  /\ UNCHANGED <<up, downs, present, unplugs, tty, arrivals, commands, port, sub, pub, link,
                 reads, jobs, round, alive, changed, fates>>

-------------------------------------------------------------------------------
(* Thread::run: timers between rounds, select, one element of the pipe *)

ReconnectTimer(b) ==
  /\ alive /\ pc = "select" /\ link[b] = "none"
  /\ Reconnect(b)
  /\ UNCHANGED <<environment, port, jobs, round, alive, changed, fates>>

\* In the socket: select() does not know of what hiredis has read already.
Waiting(c) == Len(c.replies) > c.parsed

Readable(k) ==
  \/ k = sfd /\ k /= NoFd /\ (tty /= <<>> \/ hung)
  \/ \E b \in Brokers : k = sub[b] /\ (Waiting(context[b]) \/ link[b] = "closed")

\* The bits of rfds, which select() has set, and nobody changes in the round.
\* Mutant: FD_ISSET looks at _rfds.
AllWatched == Keys
Reported == ready

Select ==
  /\ alive /\ pc = "select"
  /\ ready' = {k \in Watched(reads) : Readable(k)}
  /\ ready' /= {} \/ jobs /= <<>>
  /\ pc' = IF jobs = <<>> THEN "reads" ELSE "pipe"
  /\ todo' = IF jobs = <<>> THEN Watched(reads) \cap Reported' ELSE {}
  /\ UNCHANGED <<environment, port, brokers, reads, jobs, current, calls, alive, changed, fates>>

\* on(): push and enqueue, or the queue is full and the element is lost.
Enqueued(queue, flow, what, n) ==
  IF Queued(queue, flow) < QueueSize
  THEN Append(queue, [flow |-> flow, what |-> what, n |-> n]) ELSE queue

PipeJob(flow) ==
  /\ alive /\ pc = "pipe" /\ Head(jobs).flow = flow
  /\ UNCHANGED <<environment, port, ready, current, alive>>

\* After that element the loop over the read invokers begins.
LoopBegins == pc' = "reads" /\ todo' = Watched(reads') \cap Reported

\* A publish or XADD on a connection that is broken reconnects.
Transmit == IF link["broker"] = "closed" THEN Reconnect("broker") /\ changed' = TRUE
            ELSE UNCHANGED <<brokers, reads, changed>>

\* bytesToFrame: text goes to redisLogStream, frames to _incomingMessage.
ServeChunk ==
  /\ PipeJob("chunk")
  /\ IF Head(jobs).what = "text"
     THEN Transmit /\ jobs' = Tail(jobs)
     ELSE /\ jobs' = Enqueued(Tail(jobs), "message", Head(jobs).what, 0)
          /\ UNCHANGED <<brokers, reads, changed>>
  /\ LoopBegins /\ UNCHANGED <<calls, fates>>

\* SUBSCRIBE is for broker; NODE is for the node's topics on broker, then for those of its
\* proxy on brokerProxy.
ServeMessage ==
  /\ PipeJob("message")
  /\ jobs' = Tail(jobs)
  /\ CASE Head(jobs).what = "publish" -> Transmit /\ LoopBegins /\ UNCHANGED calls
       [] Head(jobs).what = "subscribe" ->
            /\ pc' = "subscribe" /\ wanted' = {"broker"} /\ pattern' \in Patterns
            /\ UNCHANGED <<brokers, reads, todo, changed>>
       [] OTHER ->
            /\ pc' = "subscribe" /\ wanted' = Brokers /\ pattern' = "node"
            /\ UNCHANGED <<brokers, reads, todo, changed>>
  /\ UNCHANGED fates

Caller == IF "broker" \in wanted THEN "broker" ELSE "brokerProxy"

\* subscribe() of the caller returns.
Return ==
  /\ wanted' = wanted \ {Caller}
  /\ IF wanted' = {} THEN LoopBegins /\ pattern' = "node"
     ELSE pc' = "subscribe" /\ UNCHANGED <<todo, pattern>>

\* Whatever reply comes first counts as the answer to PSUBSCRIBE, and is freed.
TakeFor(b, c) ==
  \E got \in Read(c) :
    /\ context' = [context EXCEPT ![b] = got.context]
    /\ swallowed' = swallowed \cup IF b = "broker" THEN {got.reply} \ {Answer} ELSE {}

\* subscribe(): redisCommand, unless the pattern is in _subscribers.  Without a reply it leaves
\* the failed context to the read invoker.
Subscribe ==
  /\ alive /\ pc = "subscribe"
  /\ UNCHANGED <<environment, port, sub, pub, link, reads, jobs, ready, current, alive, changed,
                 dealt>>
  /\ LET c == Asked(context[Caller], pattern)
         idle == link[Caller] = "none" \/ context[Caller].patterns[pattern] /= "unknown"
     IN \/ (idle \/ link[Caller] = "closed") /\ Return /\ UNCHANGED <<context, swallowed>>
        \/ ~ idle /\ TakeFor(Caller, c) /\ Return
        \/ /\ ~ idle /\ link[Caller] = "open" /\ c.replies = <<>>
           /\ context' = [context EXCEPT ![Caller] = Written(c)]
           /\ pc' = "answer" /\ UNCHANGED <<todo, calls, swallowed>>

\* redisCommand has waited for the answer.
SubscribeReturns ==
  /\ alive /\ pc = "answer"
  /\ UNCHANGED <<environment, port, sub, pub, link, reads, jobs, ready, current, alive, changed,
                 dealt>>
  /\ \/ TakeFor(Caller, context[Caller])
     \/ link[Caller] = "closed" /\ UNCHANGED <<context, swallowed>>
  /\ Return

\* frameToBytes, then txd(): written, or an error that nobody looks at.
ServeOut ==
  /\ PipeJob("out")
  /\ jobs' = Tail(jobs)
  /\ dealt' = dealt \cup {Head(jobs).n} /\ UNCHANGED swallowed
  /\ UNCHANGED <<brokers, reads, calls, changed>>
  /\ LoopBegins

-------------------------------------------------------------------------------
(* The loop over the read invokers *)

\* The descriptor of the callback that comes next.
Take(k, owner) ==
  /\ alive /\ pc = "reads"
  /\ k \in todo /\ reads[k] = owner
  /\ UNCHANGED <<ready, port, calls>>

\* Mutant of SessionInvoke: rxd() goes on when read() returns 0.
SessionInvokeRetries ==
  /\ \E k \in todo : Take(k, "session") /\ todo' = IF tty = <<>> THEN todo ELSE todo \ {k}
  /\ IF tty = <<>> THEN UNCHANGED <<tty, jobs>>
     ELSE tty' = Tail(tty) /\ jobs' = Enqueued(jobs, "chunk", Head(tty), 0)
  /\ UNCHANGED <<up, downs, present, unplugs, arrivals, commands, flashes, brokers, reads, pc,
                 current, alive, changed, fates>>

\* SessionSerial::invoke: rxd() reads the session's descriptor, whichever was reported.
SessionInvoke ==
  /\ \E k \in todo : Take(k, "session") /\ todo' = todo \ {k}
  /\ IF tty = <<>> THEN UNCHANGED <<tty, jobs>>
     ELSE tty' = Tail(tty) /\ jobs' = Enqueued(jobs, "chunk", Head(tty), 0)
  /\ UNCHANGED <<up, downs, present, unplugs, arrivals, commands, flashes, brokers, reads, pc,
                 current, alive, changed, fates>>

\* Mutant of Receive: a message that comes is not handed on.
ReceiveSilently(b) ==
  /\ \E got \in Read(context[b]) : context' = [context EXCEPT ![b] = got.context]
  /\ pc' = "reads"
  /\ UNCHANGED <<sub, pub, link, reads, jobs, alive, changed, fates>>

\* redisGetReply in the invoker of b has something to return: a command goes to the
\* session, a flash image starts the flash handler, and what is no message is not handled.
Receive(b) ==
  /\ \E got \in Read(context[b]) :
       LET n == got.reply
       IN /\ context' = [context EXCEPT ![b] = got.context]
          /\ jobs' = IF n /= Answer /\ b = "broker" THEN Enqueued(jobs, "out", "command", n)
                     ELSE jobs
          /\ dealt' = IF n /= Answer /\ b = "broker" /\ jobs' = jobs THEN dealt \cup {n} ELSE dealt
          /\ pc' = IF n /= Answer /\ b = "brokerProxy" THEN "flash" ELSE "reads"
  /\ UNCHANGED <<sub, pub, link, reads, alive, changed, swallowed>>

\* It returns an error: disconnect() erases the element the loop stands on, so that the
\* loop goes on with anything there is now, or crashes.
Fail(b) ==
  /\ Reconnect(b) /\ changed' = TRUE
  /\ pc' = "reads" /\ todo' \in SUBSET (Watched(reads') \cap Reported) /\ alive' \in BOOLEAN
  /\ UNCHANGED <<jobs, fates>>

\* If nothing is there the callback waits, for up to three seconds.
BrokerInvoke(b) ==
  /\ \E k \in todo :
       /\ Take(k, b)
       /\ \/ Receive(b) /\ todo' = todo \ {k} /\ UNCHANGED current
          \/ link[b] = "closed" /\ context[b].parsed = 0 /\ Fail(b) /\ UNCHANGED current
          \/ /\ link[b] = "open" /\ context[b].replies = <<>>
             /\ context' = [context EXCEPT ![b] = Written(@)]
             /\ pc' = "blocked" /\ todo' = todo \ {k} /\ current' = k
             /\ UNCHANGED <<sub, pub, link, reads, jobs, alive, changed, fates>>
  /\ UNCHANGED environment

\* A server that owes an answer sends it in that time, or goes down.
Unblock(b) ==
  /\ alive /\ pc = "blocked" /\ reads[current] = b
  /\ \/ Receive(b) /\ UNCHANGED todo
     \/ /\ context[b].replies = <<>>
        /\ link[b] = "closed" \/ In(context[b], "asked") = {}
        /\ Fail(b)
  /\ current' = NoFd
  /\ UNCHANGED <<environment, port, ready, calls>>

\* Nothing is left that was reported.
RoundOver ==
  /\ alive /\ pc = "reads" /\ todo = {}
  /\ pc' = "select" /\ ready' = {} /\ changed' = FALSE
  /\ UNCHANGED <<environment, port, brokers, reads, jobs, todo, current, calls, alive, fates>>

-------------------------------------------------------------------------------
(* The flash handler, inside the invoker of brokerProxy *)

FlashDisconnect ==
  /\ alive /\ pc = "flash"
  /\ SessionDisconnect
  /\ pc' = "program" /\ tty' = <<>> /\ todo' = todo \ {sfd}
  /\ UNCHANGED <<up, downs, present, unplugs, arrivals, commands, flashes, brokers, jobs, ready,
                 current, calls, alive, changed, fates>>

\* writeBytesToFile and flashFileToDevice: descriptors that are closed again, and text for
\* redisLogStream without the newline that would make it a command.
FlashProgram ==
  /\ alive /\ pc = "program"
  /\ pc' = "reopen"
  /\ UNCHANGED <<environment, port, brokers, reads, jobs, ready, todo, current, calls, alive,
                 changed, fates>>

\* Mutant of FlashReconnect: the session is left closed.
FlashForgotten ==
  /\ alive /\ pc = "reopen"
  /\ pc' = "reads"
  /\ UNCHANGED <<environment, port, brokers, reads, jobs, ready, todo, current, calls, alive,
                 changed, fates>>

\* The loop may or may not come to an element that was added meanwhile.
FlashReconnect ==
  /\ alive /\ pc = "reopen"
  /\ SessionConnect
  /\ pc' = "reads" /\ todo' \in {todo, todo \cup ({sfd'} \cap Reported)}
  /\ UNCHANGED <<environment, brokers, jobs, ready, current, calls, changed, fates>>

-------------------------------------------------------------------------------

Outside ==
  \/ ServerDown \/ ServerUp \/ Unplug \/ Plug
  \/ \E what \in Arrivals : Arrive(what)
  \/ SendCommand \/ SendFlash
  \/ \E b \in Brokers, p \in Patterns : ServerAnswers(b, p)

Step ==
  \/ Select \/ ServeChunk \/ ServeMessage \/ ServeOut \/ Subscribe \/ SubscribeReturns
  \/ SessionInvoke \/ RoundOver
  \/ \E b \in Brokers : BrokerInvoke(b) \/ Unblock(b)
  \/ FlashDisconnect \/ FlashProgram \/ FlashReconnect

Next == (alive /\ Outside) \/ Step \/ \E b \in Brokers : ReconnectTimer(b)

Spec == Init /\ [][Next]_vars

\* The thread runs, and the server answers.  Timers are not fair here: a busy loop may serve
\* descriptors for ever.
FairSpec == /\ Spec /\ WF_vars(Step)
            /\ \A b \in Brokers, p \in Patterns : WF_vars(ServerAnswers(b, p))

-------------------------------------------------------------------------------
(* Properties *)

\* Every descriptor that is open is watched for its owner, and no other is: select() never
\* gets a closed descriptor (EBADF, for ever), no callback is found under a number that
\* was handed to somebody else (SessionSerial.cpp:38-49, BrokerRedis.cpp:96-142).
Owned ==
  /\ \A k \in Descriptors : /\ reads[k] = "session" <=> k = sfd
                            /\ \A b \in Brokers : reads[k] = b <=> k = sub[b]
  /\ \A b \in Brokers : (sub[b] = NoFd) <=> (link[b] = "none")
  /\ \A b, c \in Brokers : pub[b] \notin {sfd, sub[c]} \/ pub[b] = NoFd
  /\ \A b, c \in Brokers : b /= c => pub[b] /= pub[c] \/ pub[b] = NoFd

\* Where the thread is: it serves an element that is there, the session is closed while the
\* device is flashed, and a callback that waits is not called again in the same round.
Placed ==
  /\ pc = "pipe" => jobs /= <<>>
  /\ wanted /= {} <=> pc \in {"subscribe", "answer"}
  /\ pc \in {"program", "reopen"} => sfd = NoFd
  /\ pc = "blocked" => current \notin todo

\* subscribe() of b is still to be called.
WillCall(b) == pc = "pipe" \/ (b \in wanted /\ ~ (pc = "answer" /\ Caller = b))

\* redisGetReply for b has something to return, or will have when the server answers.
Expects(c) == c.replies /= <<>> \/ In(c, "asked") /= {}

\* As long as the table is what it was when select() returned, the broker of a reported
\* descriptor has something to read.  subscribe() may take and free that, and then the answer
\* to its PSUBSCRIBE comes in its place (BrokerRedis.cpp:151).
Announced ==
  /\ reads[NoFd] \notin Brokers
  /\ ~ changed /\ pc /= "select" =>
       \A k \in IF pc \in {"pipe", "subscribe", "answer"} THEN ready ELSE todo :
         \A b \in Brokers : reads[k] = b /\ link[b] /= "closed" =>
           /\ WillCall(b) => Waiting(context[b])
           /\ pc = "answer" => Caller /= b
           /\ Expects(context[b])

\* The inductive invariant: the type of the state, the ownership of the descriptors, and
\* what the places in the round say of both (linux/src/limero.cpp:64-86).
PInv == TypeOK /\ Owned /\ Placed /\ Announced

\* A callback waits for a reply that will not come only in a round in which a broker has
\* reconnected: in any other it waits for the answer to a PSUBSCRIBE at most, because
\* subscribe() has freed the message that was reported; flashing never leads to it
\* (linux/src/limero.cpp:77-86, BrokerRedis.cpp:108, 151).
BlocksOnlyAfterChange ==
  pc = "blocked" /\ ~ changed =>
    \E b \in Brokers : reads[current] = b /\ (link[b] = "closed" \/ Expects(context[b]))

\* As long as the server does not go down every round comes to its end, flashing included.
RoundsEnd == [] (downs = 0) => []<> (pc = "select" \/ ~ alive)

\* If rounds end, what has come in through the open port is read, whatever flashing,
\* reconnects and stale reports the loop meets.  A port that was unplugged brings nothing
\* in until the flash handler opens it again, see Arrive (SessionSerial.cpp:34-56).
NodeHeard == []<> (pc = "select") => ((tty /= <<>>) ~> (tty = <<>> \/ ~ alive))

\* hiredis has read command n behind another reply, and select() waits for more.
Held(n) ==
  LET c == context["broker"]
  IN ~ Waiting(c) /\ \E i \in 1 .. c.parsed : c.replies[i] = n

\* A command that the server has sent is written or dropped at the port, freed by subscribe()
\* in the place of an answer, held by hiredis until there is more traffic, or lost with the
\* connection to a server that went down (BrokerRedis.cpp:106-123, 151).
CommandsDealt ==
  \A n \in 1 .. MaxCommands :
    (\E i \in 1 .. Len(context["broker"].replies) : context["broker"].replies[i] = n)
      ~> (n \in dealt \cup swallowed \/ Held(n) \/ downs > 0 \/ ~ alive)

\* With a port that stays, the flash handler leaves the session open (serialProxy.cpp:281-285).
SessionReopens == [] present => [] (pc = "program" => <> (sfd /= NoFd /\ reads[sfd] = "session"))
=============================================================================
