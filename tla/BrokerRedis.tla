------------------------------ MODULE BrokerRedis ------------------------------
(***************************************************************************)
(* The Redis side of the proxy (broker/src/BrokerRedis.cpp): two blocking  *)
(* hiredis contexts, one that subscribes and whose descriptor the Thread   *)
(* watches, one that publishes; a timer that reconnects.  Everything runs  *)
(* on the broker's thread, one callback at a time; the server and the      *)
(* network act between callbacks.                                          *)
(*                                                                         *)
(* A context is its descriptor.  What a descriptor is connected to, and    *)
(* what is buffered for it on either side, is hiredis and Redis: external. *)
(* The publish context never waits for anything, so only whether it works  *)
(* matters.                                                                *)
(***************************************************************************)
EXTENDS Naturals, Sequences, FiniteSets

CONSTANTS Fds,              \* descriptors for subscribe contexts
          None,             \* a context that failed to connect: no descriptor
          Patterns,         \* what the program subscribes to
          Node,             \* the name main() connects with
          MaxMessages,      \* bound on the messages the server sends
          MaxCrashes,       \* bound on the times the server goes down
          MaxPartials       \* bound on connects that get the first connection only

ASSUME BrokerAssumption ==
  None \notin Fds /\ IsFiniteSet(Fds) /\ IsFiniteSet(Patterns) /\ MaxMessages \in Nat

NoNode == "none"   \* connect("")

VARIABLES up, crashes, partials, sent,   \* the server and its bounds
          link, subs, sock,      \* per descriptor: connection, server side patterns, bytes to read
          reader, obuf,          \* hiredis: replies parsed and not returned, commands not written
          watched,               \* descriptors with a read invoker
          started, connected, node,
          subscribeContext, publishContext,
          subscribers,           \* _subscribers
          delivered              \* what _incoming was given

server  == <<up, crashes, partials, sent>>
context == <<link, subs, sock, reader, obuf>>
broker  == <<watched, started, connected, node, subscribeContext, publishContext,
             subscribers, delivered>>
vars    == <<server, context, broker>>

Done == MaxMessages + 1   \* the server's answer to PSUBSCRIBE, among the messages
Replies == 1 .. Done

TypeOK ==
  /\ up \in BOOLEAN /\ crashes \in Nat /\ partials \in Nat /\ sent \in 0 .. MaxMessages
  /\ link \in [Fds -> {"free", "open", "closed"}]
  /\ subs \in [Fds -> SUBSET Patterns]
  /\ sock \in [Fds -> Seq(Replies)] /\ reader \in [Fds -> Seq(Replies)]
  /\ obuf \in [Fds -> SUBSET Patterns]
  /\ watched \subseteq Fds
  /\ started \in BOOLEAN /\ connected \in BOOLEAN /\ node \in {NoNode, Node}
  /\ subscribeContext \in Fds \cup {None}
  /\ publishContext \in {"none", "open", "closed", "freed"}
  /\ subscribers \subseteq Patterns
  /\ delivered \in Seq(1 .. MaxMessages)

Init ==
  /\ up \in BOOLEAN /\ crashes = 0 /\ partials = 0 /\ sent = 0
  /\ link = [f \in Fds |-> "free"]
  /\ subs = [f \in Fds |-> {}] /\ obuf = [f \in Fds |-> {}]
  /\ sock = [f \in Fds |-> <<>>] /\ reader = [f \in Fds |-> <<>>]
  /\ watched = {}
  /\ started = FALSE /\ connected = FALSE /\ node = NoNode
  /\ subscribeContext = None /\ publishContext = "none"
  /\ subscribers = {}
  /\ delivered = <<>>

-------------------------------------------------------------------------------
(* The server *)

ServerDown ==
  /\ up /\ crashes < MaxCrashes
  /\ up' = FALSE /\ crashes' = crashes + 1
  /\ link' = [f \in Fds |-> IF link[f] = "open" THEN "closed" ELSE link[f]]
  /\ subs' = [f \in Fds |-> {}]
  /\ publishContext' = IF publishContext = "open" THEN "closed" ELSE publishContext
  /\ UNCHANGED <<partials, sent, sock, reader, obuf, watched, started, connected, node,
                 subscribeContext, subscribers, delivered>>

ServerUp == ~ up /\ up' = TRUE /\ UNCHANGED <<crashes, partials, sent, context, broker>>

\* Somebody publishes on a topic that matches p.
ServerSends(p) ==
  /\ up /\ sent < MaxMessages
  /\ sent' = sent + 1
  /\ sock' = [f \in Fds |-> IF p \in subs[f] THEN Append(sock[f], sent + 1) ELSE sock[f]]
  /\ UNCHANGED <<up, crashes, partials, link, subs, reader, obuf, broker>>

-------------------------------------------------------------------------------
(* connect and disconnect *)

\* The descriptors disconnect() closes and stops watching: it returns at once
\* when not connected.
Released == IF connected THEN {subscribeContext} ELSE {}

\* Mutants of the three below: redisFree, deleteInvoker and _subscribers.clear() left out.
NeverClosed(gone) == link
AlwaysWatched(gone) == watched
AlwaysRemembered(gone) == subscribers

Closed(gone) == [f \in Fds |-> IF f \in gone THEN "free" ELSE link[f]]
Unwatched(gone) == watched \ gone
Remembered(gone) == IF gone = {} THEN subscribers ELSE {}

\* connect(n) once the descriptors in gone are closed.  It is only ever called when
\* not connected, or after disconnect().
Connect(n, gone) ==
  LET closed == Closed(gone)
      still  == Unwatched(gone)
      Clear(buf, empty, f) == [g \in Fds |-> IF g \in gone \cup {f} THEN empty ELSE buf[g]]
      Buffers(f) == /\ subs' = Clear(subs, {}, f) /\ obuf' = Clear(obuf, {}, f)
                    /\ sock' = Clear(sock, <<>>, f) /\ reader' = Clear(reader, <<>>, f)
  IN /\ node' = n
     /\ subscribers' = Remembered(gone)
     /\ UNCHANGED <<up, crashes, sent, delivered>>
     /\ \/ \* the first connection fails
           /\ ~ up
           /\ link' = closed /\ Buffers(None)
           /\ watched' = still
           /\ subscribeContext' = None
           /\ publishContext' = IF gone = {} THEN publishContext ELSE "freed"
           /\ connected' = FALSE
           /\ UNCHANGED partials
        \/ \* the second one fails: the first is kept, and watched
           \E f \in Fds :
             /\ up /\ partials < MaxPartials /\ closed[f] = "free"
             /\ link' = [closed EXCEPT ![f] = "open"] /\ Buffers(f)
             /\ watched' = still \cup {f}
             /\ subscribeContext' = f
             /\ publishContext' = "none"
             /\ connected' = FALSE
             /\ partials' = partials + 1
        \/ \E f \in Fds :
             /\ up /\ closed[f] = "free"
             /\ link' = [closed EXCEPT ![f] = "open"] /\ Buffers(f)
             /\ watched' = still \cup {f}
             /\ subscribeContext' = f
             /\ publishContext' = "open"
             /\ connected' = TRUE
             /\ UNCHANGED partials

\* main(): the one connect with a name.
Start == ~ started /\ started' = TRUE /\ Connect(Node, {})

\* Mutant of ReconnectTimer: the test is inverted, and connect() returns at once.
ReconnectTimerInverted == started /\ connected /\ UNCHANGED vars

ReconnectTimer == /\ started /\ ~ connected
                  /\ Connect(NoNode, {})
                  /\ UNCHANGED started

\* disconnect(); connect(_node);
Reconnect == Connect(node, Released) /\ UNCHANGED started

-------------------------------------------------------------------------------
(* The read invoker: one redisGetReply on _subscribeContext, whatever      *)
(* descriptor was readable.                                                *)

Readable(f) == f \in watched /\ (sock[f] /= <<>> \/ link[f] = "closed")

\* redisGetReply with the patterns in commands appended and not yet written.  A reply
\* parsed earlier is returned before anything is written or read.  Otherwise the
\* commands are written, and a read takes some of what the server has sent or answers.
GetReply(c, commands, reply) ==
  \/ /\ reader[c] /= <<>>
     /\ reply = Head(reader[c])
     /\ reader' = [reader EXCEPT ![c] = Tail(@)]
     /\ obuf' = [obuf EXCEPT ![c] = commands]
     /\ UNCHANGED <<subs, sock>>
  \/ /\ reader[c] = <<>>
     /\ LET written == IF link[c] = "open" THEN commands ELSE {}
            input == sock[c] \o [k \in 1 .. Cardinality(written) |-> Done]
        IN \E n \in 1 .. Len(input) :
             /\ reply = input[1]
             /\ reader' = [reader EXCEPT ![c] = SubSeq(input, 2, n)]
             /\ sock' = [sock EXCEPT ![c] = SubSeq(input, n + 1, Len(input))]
             /\ subs' = [subs EXCEPT ![c] = @ \cup written]
             /\ obuf' = [obuf EXCEPT ![c] = commands \ written]

\* Nothing comes, or the connection was reset and what was not read is lost.
NoReply(c) ==
  c \in Fds => /\ reader[c] = <<>>
               /\ link[c] = "closed" \/ (sock[c] = <<>> /\ obuf[c] = {})

\* Mutant of OnMessage: the reply is read from the context of the readable descriptor.
OnMessageOf(f) ==
  /\ Readable(f)
  /\ \E reply \in Replies :
       /\ GetReply(f, obuf[f], reply)
       /\ delivered' = IF reply = Done THEN delivered ELSE Append(delivered, reply)
  /\ UNCHANGED <<server, link, watched, started, connected, node, subscribeContext,
                 publishContext, subscribers>>

OnMessage(f) ==
  /\ Readable(f) /\ subscribeContext \in Fds
  /\ \E reply \in Replies :
       /\ GetReply(subscribeContext, obuf[subscribeContext], reply)
       /\ delivered' = IF reply = Done THEN delivered ELSE Append(delivered, reply)
  /\ UNCHANGED <<server, link, watched, started, connected, node, subscribeContext,
                 publishContext, subscribers>>

\* Closed, or nothing came within the three seconds of command_timeout.
OnReadFailure(f) == Readable(f) /\ NoReply(subscribeContext) /\ Reconnect

-------------------------------------------------------------------------------
(* subscribe, publish *)

\* Whatever reply comes first counts as the answer to PSUBSCRIBE.  Without any reply
\* nothing is remembered, and the failed context is left to the read invoker.
Subscribe(p) ==
  /\ started /\ p \notin subscribers /\ subscribeContext \in Fds
  /\ \E reply \in Replies :
       GetReply(subscribeContext, obuf[subscribeContext] \cup {p}, reply)
  /\ subscribers' = subscribers \cup {p}
  /\ UNCHANGED <<server, link, watched, started, connected, node, subscribeContext,
                 publishContext, delivered>>

\* publish, command and request alike; when they succeed nothing changes here.
PublishFails == connected /\ publishContext = "closed" /\ Reconnect

-------------------------------------------------------------------------------

Thread == \/ ReconnectTimer \/ PublishFails
          \/ \E f \in Fds : OnMessage(f) \/ OnReadFailure(f)

Next == \/ Start \/ Thread \/ \E p \in Patterns : Subscribe(p)
        \/ ServerDown \/ ServerUp \/ \E p \in Patterns : ServerSends(p)

Spec == Init /\ [][Next]_vars

\* The thread's timer fires and its select() reports readable descriptors, one by one.
FairSpec == /\ Spec
            /\ WF_vars(ReconnectTimer)
            /\ \A f \in Fds : WF_vars(OnMessage(f)) /\ WF_vars(OnReadFailure(f))

-------------------------------------------------------------------------------

\* connected means that both contexts exist and that the one that subscribes is watched,
\* so that its failure will be noticed; the thread never selects on a descriptor
\* that was closed (BrokerRedis.cpp:106, 129, 138-142).
ContextsValid ==
  /\ connected => subscribeContext \in watched /\ publishContext \in {"open", "closed"}
  /\ \A f \in watched : link[f] /= "free"

\* A connection that the broker does not read any more, and does not close either, is one of
\* a connect that stopped half way, and each of those leaves one at the most, whatever
\* reconnections come before and after (BrokerRedis.cpp:101-133).
Held == {f \in Fds : link[f] /= "free"}
NoLeak == Cardinality(Held \ {subscribeContext}) <= partials

\* As long as no connect stops half way, a pattern the broker remembers is one the server
\* sends, or will be told of with the next command that is written: subscribe() never asks
\* twice (BrokerRedis.cpp:148).
SubscriptionsKnown ==
  partials = 0 /\ connected /\ link[subscribeContext] = "open" =>
    subscribers \subseteq subs[subscribeContext] \cup obuf[subscribeContext]

\* Messages reach _incoming in the order the server sent them, none of them twice,
\* across any number of reconnections (BrokerRedis.cpp:106-123).
InOrder == \A i, j \in DOMAIN delivered : i < j => delivered[i] < delivered[j]

\* A reconnection that succeeds at once keeps the node name (BrokerRedis.cpp:121, 186).
NodeKept == [][connected /\ connected' => node' = node]_vars

\* Once the server stays up, the broker is connected to it, and stays so, unless a connect
\* stopped half way (BrokerRedis.cpp:68-70, 118-122).
Recovers ==
  <>[](started /\ up /\ partials = 0) => <>[](connected /\ link[subscribeContext] = "open")
===============================================================================
