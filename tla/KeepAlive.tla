------------------------------- MODULE KeepAlive -------------------------------
(***************************************************************************)
(* How a microcontroller knows that it can be reached, and gets reachable  *)
(* again (arduino_client/src/BrokerSerial.cpp, proxy/src/serialProxy.cpp). *)
(* It publishes to a loopback topic of its own every second.  The answer   *)
(* makes it connected; without one for three seconds it is not, and then   *)
(* it sends its NODE name, on which the proxy's two brokers subscribe to   *)
(* the node's topics.                                                      *)
(*                                                                         *)
(* Any part may restart or lose its connection, and frames get lost.  Of   *)
(* a BrokerRedis only its connection and the node's pattern are kept; no   *)
(* connect stops half way (module BrokerRedis has that).  Time is in ticks *)
(* that are long compared with a callback; a due timer is served within    *)
(* its tick, and a frame within MaxTransit ticks.                          *)
(***************************************************************************)
EXTENDS Naturals, Sequences

CONSTANTS LoopbackInterval,  \* of _loopbackTimer, 1000 msec
          ConnectInterval,   \* of _connectTimer, 3000 msec
          MaxTransit,        \* longest way through the line, the queues and the server
          MaxFaults          \* bound on restarts and losses

ASSUME IntervalAssumption ==
  /\ LoopbackInterval \in Nat \ {0} /\ ConnectInterval \in Nat \ {0} /\ MaxTransit \in Nat

VARIABLES connected, loopbackLeft, connectLeft,    \* the microcontroller: connected, timers
          up, down,        \* frames to the proxy; ages of the loopback answers to the node
          running,         \* the proxy
          link,            \* connection of each broker: none, open, or closed by the server
          remembered,      \* _subscribers has the node's pattern
          subscribed,      \* the server has it
          server, faults,
          silent           \* ticks since the server last had the broker's subscription

node  == <<connected, loopbackLeft, connectLeft>>
proxy == <<running, link, remembered, subscribed>>
vars  == <<node, up, down, proxy, server, faults, silent>>

Brokers == {"broker", "brokerProxy"}
Frame(kind) == [kind |-> kind, age |-> 0]

\* The time within which the node notices.
Notice == MaxTransit + ConnectInterval

TypeOK ==
  /\ connected \in BOOLEAN
  /\ loopbackLeft \in 0 .. LoopbackInterval /\ connectLeft \in 0 .. ConnectInterval
  /\ up \in Seq([kind : {"NODE", "PUBLISH"}, age : 0 .. MaxTransit])
  /\ down \in Seq(0 .. MaxTransit)
  /\ running \in BOOLEAN
  /\ link \in [Brokers -> {"none", "open", "closed"}]
  /\ remembered \in [Brokers -> BOOLEAN] /\ subscribed \in [Brokers -> BOOLEAN]
  /\ server \in BOOLEAN /\ faults \in Nat
  /\ silent \in 0 .. Notice + 1

Init ==
  /\ connected = FALSE
  /\ loopbackLeft = LoopbackInterval /\ connectLeft = ConnectInterval
  /\ up = <<>> /\ down = <<>>
  /\ running = FALSE
  /\ link = [b \in Brokers |-> "none"]
  /\ remembered = [b \in Brokers |-> FALSE] /\ subscribed = [b \in Brokers |-> FALSE]
  /\ server \in BOOLEAN /\ faults = 0
  /\ silent = 0

-------------------------------------------------------------------------------
(* The microcontroller *)

\* Mutants of LoopbackTimer, ConnectTimer and OnLoopback: the connect timer is reset when
\* the question is sent; it is not a repeating one; the answer does not reset it.
LoopbackTimerResets ==
  /\ loopbackLeft = 0 /\ loopbackLeft' = LoopbackInterval
  /\ connectLeft' = ConnectInterval
  /\ up' = up \o (IF connected THEN <<>> ELSE <<Frame("NODE")>>) \o <<Frame("PUBLISH")>>
  /\ UNCHANGED <<connected, down, proxy, server, faults, silent>>
ConnectTimerOnce ==
  /\ connectLeft = 0 /\ connectLeft' = ConnectInterval + 1
  /\ connected' = FALSE
  /\ UNCHANGED <<loopbackLeft, up, down, proxy, server, faults, silent>>
OnLoopbackOnly ==
  /\ down /= <<>> /\ down' = Tail(down)
  /\ connected' = TRUE
  /\ UNCHANGED <<connectLeft, loopbackLeft, up, proxy, server, faults, silent>>

LoopbackTimer ==
  /\ loopbackLeft = 0 /\ loopbackLeft' = LoopbackInterval
  /\ up' = up \o (IF connected THEN <<>> ELSE <<Frame("NODE")>>) \o <<Frame("PUBLISH")>>
  /\ UNCHANGED <<connected, connectLeft, down, proxy, server, faults, silent>>

ConnectTimer ==
  /\ connectLeft = 0 /\ connectLeft' = ConnectInterval
  /\ connected' = FALSE
  /\ UNCHANGED <<loopbackLeft, up, down, proxy, server, faults, silent>>

OnLoopback ==
  /\ down /= <<>> /\ down' = Tail(down)
  /\ connected' = TRUE
  /\ connectLeft' = ConnectInterval
  /\ UNCHANGED <<loopbackLeft, up, proxy, server, faults, silent>>

-------------------------------------------------------------------------------
(* The proxy *)

Received(kind) == running /\ up /= <<>> /\ Head(up).kind = kind /\ up' = Tail(up)

\* Both brokers subscribe, unless they remember having done so.  It fails without a
\* connection, and is not tried again.
OnNode ==
  /\ Received("NODE")
  /\ LET done(b) == link[b] = "open" /\ ~ remembered[b]
     IN /\ remembered' = [b \in Brokers |-> remembered[b] \/ done(b)]
        /\ subscribed' = [b \in Brokers |-> subscribed[b] \/ done(b)]
  /\ silent' = IF subscribed'["broker"] THEN 0 ELSE silent
  /\ UNCHANGED <<node, down, running, link, server, faults>>

\* disconnect() and connect().
Reconnect(b) ==
  /\ link' = [link EXCEPT ![b] = IF server THEN "open" ELSE "none"]
  /\ remembered' = [remembered EXCEPT ![b] = FALSE]
  /\ subscribed' = [subscribed EXCEPT ![b] = FALSE]

\* The loopback topic matches the pattern.
OnPublish ==
  /\ Received("PUBLISH")
  /\ IF link["broker"] = "closed" THEN Reconnect("broker") /\ UNCHANGED down
     ELSE /\ down' = IF subscribed["broker"] THEN Append(down, 0) ELSE down
          /\ UNCHANGED <<link, remembered, subscribed>>
  /\ UNCHANGED <<node, running, server, faults, silent>>

ReadFailure(b) ==
  /\ running /\ link[b] = "closed"
  /\ Reconnect(b)
  /\ UNCHANGED <<node, up, down, running, server, faults, silent>>

ReconnectTimer(b) ==
  /\ running /\ link[b] = "none" /\ server
  /\ link' = [link EXCEPT ![b] = "open"]
  /\ UNCHANGED <<node, up, down, running, remembered, subscribed, server, faults, silent>>

\* main()
Start ==
  /\ ~ running /\ running' = TRUE
  /\ link' = [b \in Brokers |-> IF server THEN "open" ELSE "none"]
  /\ UNCHANGED <<node, up, down, remembered, subscribed, server, faults, silent>>

-------------------------------------------------------------------------------
(* Time and faults *)

Tick ==
  /\ loopbackLeft > 0 /\ connectLeft > 0
  /\ \A k \in DOMAIN up : up[k].age < MaxTransit
  /\ \A k \in DOMAIN down : down[k] < MaxTransit
  /\ loopbackLeft' = loopbackLeft - 1 /\ connectLeft' = connectLeft - 1
  /\ up' = [k \in DOMAIN up |-> [up[k] EXCEPT !.age = @ + 1]]
  /\ down' = [k \in DOMAIN down |-> down[k] + 1]
  /\ silent' = IF subscribed["broker"] THEN 0 ELSE IF silent > Notice THEN silent ELSE silent + 1
  /\ UNCHANGED <<connected, proxy, server, faults>>

Fault == faults < MaxFaults /\ faults' = faults + 1

\* The connections to the brokers in bs are closed by the other side.
Cut(bs) ==
  /\ link' = [b \in Brokers |-> IF b \in bs /\ link[b] = "open" THEN "closed" ELSE link[b]]
  /\ subscribed' = [b \in Brokers |-> subscribed[b] /\ b \notin bs]

ServerDown ==
  /\ Fault /\ server /\ server' = FALSE
  /\ Cut(Brokers)
  /\ UNCHANGED <<node, up, down, running, remembered, silent>>

ServerUp == ~ server /\ server' = TRUE /\ UNCHANGED <<node, up, down, proxy, faults, silent>>

ConnectionLost(b) ==
  /\ Fault /\ link[b] = "open"
  /\ Cut({b})
  /\ UNCHANGED <<node, up, down, running, remembered, server, silent>>

ProxyStops ==
  /\ Fault /\ running /\ running' = FALSE
  /\ link' = [b \in Brokers |-> "none"]
  /\ remembered' = [b \in Brokers |-> FALSE] /\ subscribed' = [b \in Brokers |-> FALSE]
  /\ UNCHANGED <<node, up, down, server, silent>>

NodeRestarts ==
  /\ Fault
  /\ connected' = FALSE
  /\ loopbackLeft' = LoopbackInterval /\ connectLeft' = ConnectInterval
  /\ UNCHANGED <<up, down, proxy, server, silent>>

\* A frame is lost on the line, or by a full queue.
UpLost == /\ Fault /\ up /= <<>> /\ up' = Tail(up)
          /\ UNCHANGED <<node, down, proxy, server, silent>>
DownLost == /\ Fault /\ down /= <<>> /\ down' = Tail(down)
            /\ UNCHANGED <<node, up, proxy, server, silent>>

\* Nobody reads the line.
Unread == /\ ~ running /\ up /= <<>> /\ up' = Tail(up)
          /\ UNCHANGED <<node, down, proxy, server, faults, silent>>

-------------------------------------------------------------------------------

Node == LoopbackTimer \/ ConnectTimer \/ OnLoopback
Proxy == OnNode \/ OnPublish \/ Start \/ \E b \in Brokers : ReadFailure(b) \/ ReconnectTimer(b)
Faulty == \/ ServerDown \/ ProxyStops \/ NodeRestarts \/ UpLost \/ DownLost
          \/ \E b \in Brokers : ConnectionLost(b)

Next == Node \/ Proxy \/ Tick \/ ServerUp \/ Unread \/ Faulty

Spec == Init /\ [][Next]_vars

\* Both event loops run and time passes; starting the proxy and the server is up to
\* their operator.
FairSpec ==
  /\ Spec
  /\ WF_vars(Node) /\ WF_vars(OnNode \/ OnPublish) /\ WF_vars(Unread)
  /\ \A b \in Brokers : WF_vars(ReadFailure(b)) /\ WF_vars(ReconnectTimer(b))
  /\ WF_vars(Tick)

-------------------------------------------------------------------------------

\* A node that takes itself for connected was so no longer ago than the connect timer
\* and one transit allow: a subscription the server forgot is noticed in time,
\* whatever answers are still under way (BrokerSerial.cpp:96-112).
Noticed == connected => silent <= Notice

\* The invariant that implies it: answers under way were sent while the broker
\* was subscribed.
KInv ==
  /\ TypeOK
  /\ subscribed["broker"] => silent = 0
  /\ \A k \in DOMAIN down : silent <= down[k]
  /\ connected => silent + connectLeft <= Notice

\* When the server and the proxy stay up the node gets reachable for good, whatever was
\* restarted or lost before, and knows it (BrokerSerial.cpp:96-112,
\* serialProxy.cpp:232-243).
Reachable == <>[](server /\ running) => <>[](connected /\ subscribed["broker"])
===============================================================================
