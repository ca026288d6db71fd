---------------------------- MODULE KeepAliveProofs ----------------------------
(***************************************************************************)
(* Proofs about KeepAlive: it is well typed, and a node notices in time    *)
(* that the server forgot it, for any intervals, delays and number of      *)
(* faults.                                                                 *)
(***************************************************************************)
EXTENDS KeepAlive, TLAPS

USE IntervalAssumption

Frames == [kind : {"NODE", "PUBLISH"}, age : 0 .. MaxTransit]

\* A frame is one that can be on the way.
LEMMA FrameType == \A kind \in {"NODE", "PUBLISH"} : Frame(kind) \in Frames
  BY DEF Frame, Frames

\* What LoopbackTimer puts on the line.
LEMMA SentType ==
  ASSUME TypeOK
  PROVE  up \o (IF connected THEN <<>> ELSE <<Frame("NODE")>>) \o <<Frame("PUBLISH")>> \in Seq(Frames)
<1>1. Frame("NODE") \in Frames /\ Frame("PUBLISH") \in Frames
  BY FrameType
<1>2. up \in Seq(Frames)
  BY DEF TypeOK, Frames
<1>3. (IF connected THEN <<>> ELSE <<Frame("NODE")>>) \in Seq(Frames)
  BY <1>1
<1>4. up \o (IF connected THEN <<>> ELSE <<Frame("NODE")>>) \in Seq(Frames)
  BY <1>2, <1>3
<1>. QED  BY <1>1, <1>4

\* Ageing keeps frames and answers typed as long as none is at its limit.
LEMMA Ageing ==
  ASSUME TypeOK, Tick
  PROVE  up' \in Seq(Frames) /\ down' \in Seq(0 .. MaxTransit)
<1>1. up \in Seq(Frames) /\ down \in Seq(0 .. MaxTransit)
  BY DEF TypeOK, Frames
<1>2. \A k \in DOMAIN up : [up[k] EXCEPT !.age = @ + 1] \in Frames
  <2> SUFFICES ASSUME NEW k \in DOMAIN up PROVE [up[k] EXCEPT !.age = @ + 1] \in Frames
    OBVIOUS
  <2>1. up[k] \in Frames
    BY <1>1
  <2>2. up[k].age \in 0 .. MaxTransit /\ up[k].age < MaxTransit
    BY <2>1 DEF Tick, Frames
  <2>3. up[k].age + 1 \in 0 .. MaxTransit
    BY <2>2
  <2>. QED  BY <2>1, <2>3 DEF Frames
<1>3. \A k \in DOMAIN down : down[k] + 1 \in 0 .. MaxTransit
  <2> SUFFICES ASSUME NEW k \in DOMAIN down PROVE down[k] + 1 \in 0 .. MaxTransit
    OBVIOUS
  <2>1. down[k] \in 0 .. MaxTransit /\ down[k] < MaxTransit
    BY <1>1 DEF Tick
  <2>. QED  BY <2>1
<1>4. DOMAIN up = 1 .. Len(up) /\ Len(up) \in Nat /\ DOMAIN down = 1 .. Len(down) /\ Len(down) \in Nat
  BY <1>1
<1>5. up' = [k \in 1 .. Len(up) |-> [up[k] EXCEPT !.age = @ + 1]]
  BY <1>4 DEF Tick
<1>6. down' = [k \in 1 .. Len(down) |-> down[k] + 1]
  BY <1>4 DEF Tick
<1>7. up' \in Seq(Frames)
  BY <1>2, <1>4, <1>5
<1>8. down' \in Seq(0 .. MaxTransit)
  BY <1>3, <1>4, <1>6
<1>. QED  BY <1>7, <1>8

\* Every step keeps the types.
LEMMA TypeStep == TypeOK /\ [Next]_vars => TypeOK'
<1> SUFFICES ASSUME TypeOK, [Next]_vars PROVE TypeOK'
  OBVIOUS
<1>0. up \in Seq(Frames) /\ Frames = [kind : {"NODE", "PUBLISH"}, age : 0 .. MaxTransit]
  BY DEF TypeOK, Frames
<1>n. Notice \in Nat
  BY DEF Notice
<1>1. CASE LoopbackTimer
  BY <1>0, <1>1, SentType DEF LoopbackTimer, TypeOK, proxy
<1>2. CASE ConnectTimer
  <2>1. connected' \in BOOLEAN
    BY <1>2 DEF ConnectTimer
  <2>2. connectLeft' \in 0 .. ConnectInterval
    BY <1>2 DEF ConnectTimer
  <2>. QED  BY <1>2, <2>1, <2>2, Zenon DEF ConnectTimer, TypeOK, proxy, Notice
<1>3. CASE OnLoopback
  BY <1>3 DEF OnLoopback, TypeOK, proxy
<1>4. CASE OnNode
  BY <1>4, <1>n DEF OnNode, Received, TypeOK, node
<1>5. CASE OnPublish
  <2>1. up' \in Seq(Frames)
    BY <1>0, <1>5 DEF OnPublish, Received
  <2>2. down' \in Seq(0 .. MaxTransit)
    <3>1. down' = down \/ down' = Append(down, 0)
      BY <1>5 DEF OnPublish
    <3>2. down \in Seq(0 .. MaxTransit) /\ 0 \in 0 .. MaxTransit
      BY DEF TypeOK
    <3>3. Append(down, 0) \in Seq(0 .. MaxTransit)
      BY <3>2
    <3>. QED  BY <3>1, <3>2, <3>3
  <2>3. /\ link' \in [Brokers -> {"none", "open", "closed"}]
        /\ remembered' \in [Brokers -> BOOLEAN] /\ subscribed' \in [Brokers -> BOOLEAN]
    BY <1>5 DEF OnPublish, Reconnect, TypeOK
  <2>. QED  BY <1>0, <1>5, <2>1, <2>2, <2>3 DEF OnPublish, TypeOK, node
<1>6. ASSUME NEW b \in Brokers, ReadFailure(b) PROVE TypeOK'
  BY <1>6 DEF ReadFailure, Reconnect, TypeOK, node
<1>7. ASSUME NEW b \in Brokers, ReconnectTimer(b) PROVE TypeOK'
  BY <1>7 DEF ReconnectTimer, TypeOK, node
<1>8. CASE Start
  BY <1>8 DEF Start, TypeOK, node
<1>9. CASE Tick
  <2>1. up' \in Seq(Frames) /\ down' \in Seq(0 .. MaxTransit)
    BY <1>9, Ageing
  <2>2. silent' \in 0 .. Notice + 1
    BY <1>9, <1>n DEF Tick, TypeOK
  <2>3. loopbackLeft' \in 0 .. LoopbackInterval /\ connectLeft' \in 0 .. ConnectInterval
    BY <1>9 DEF Tick, TypeOK
  <2>. QED  BY <1>0, <1>9, <2>1, <2>2, <2>3 DEF Tick, TypeOK, proxy
<1>10. CASE ServerUp
  BY <1>10 DEF ServerUp, TypeOK, node, proxy
<1>11. CASE Unread
  BY <1>11 DEF Unread, TypeOK, node, proxy
<1>12. CASE ServerDown
  <2>1. server' \in BOOLEAN
    BY <1>12 DEF ServerDown
  <2>2. faults' \in Nat
    BY <1>12 DEF ServerDown, Fault, TypeOK
  <2>3. /\ link' \in [Brokers -> {"none", "open", "closed"}]
        /\ subscribed' \in [Brokers -> BOOLEAN]
    BY <1>12 DEF ServerDown, Cut, TypeOK
  <2>. QED  BY <1>12, <2>1, <2>2, <2>3, Zenon DEF ServerDown, TypeOK, node, Notice
<1>13. CASE ProxyStops
  <2>1. running' \in BOOLEAN
    BY <1>13 DEF ProxyStops
  <2>2. faults' \in Nat
    BY <1>13 DEF ProxyStops, Fault, TypeOK
  <2>3. /\ link' \in [Brokers -> {"none", "open", "closed"}]
        /\ remembered' \in [Brokers -> BOOLEAN] /\ subscribed' \in [Brokers -> BOOLEAN]
    BY <1>13 DEF ProxyStops
  <2>. QED  BY <1>13, <2>1, <2>2, <2>3, Zenon DEF ProxyStops, TypeOK, node, Notice
<1>14. CASE NodeRestarts
  <2>1. connected' \in BOOLEAN
    BY <1>14 DEF NodeRestarts
  <2>2. faults' \in Nat
    BY <1>14 DEF NodeRestarts, Fault, TypeOK
  <2>3. loopbackLeft' \in 0 .. LoopbackInterval /\ connectLeft' \in 0 .. ConnectInterval
    BY <1>14 DEF NodeRestarts
  <2>. QED  BY <1>14, <2>1, <2>2, <2>3, Zenon DEF NodeRestarts, TypeOK, proxy, Notice
<1>15. CASE UpLost
  BY <1>15 DEF UpLost, Fault, TypeOK, node, proxy
<1>16. CASE DownLost
  BY <1>16 DEF DownLost, Fault, TypeOK, node, proxy
<1>17. ASSUME NEW b \in Brokers, ConnectionLost(b) PROVE TypeOK'
  BY <1>17 DEF ConnectionLost, Fault, Cut, TypeOK, node
<1>18. CASE UNCHANGED vars
  BY <1>18 DEF vars, node, proxy, TypeOK
<1>. QED
  BY <1>1, <1>2, <1>3, <1>4, <1>5, <1>6, <1>7, <1>8, <1>9, <1>10, <1>11, <1>12, <1>13,
     <1>14, <1>15, <1>16, <1>17, <1>18
  DEF Next, Node, Proxy, Faulty

\* The initial states satisfy the invariant.
LEMMA Initially == Init => KInv
<1> SUFFICES ASSUME Init PROVE KInv
  OBVIOUS
<1>1. TypeOK
  <2>1. connected \in BOOLEAN /\ running \in BOOLEAN
    BY DEF Init
  <2>2. loopbackLeft \in 0 .. LoopbackInterval /\ connectLeft \in 0 .. ConnectInterval
    BY DEF Init
  <2>3. up \in Seq([kind : {"NODE", "PUBLISH"}, age : 0 .. MaxTransit]) /\ down \in Seq(0 .. MaxTransit)
    BY DEF Init
  <2>4. /\ link \in [Brokers -> {"none", "open", "closed"}]
        /\ remembered \in [Brokers -> BOOLEAN] /\ subscribed \in [Brokers -> BOOLEAN]
    BY DEF Init
  <2>5. faults \in Nat /\ silent \in 0 .. Notice + 1
    BY DEF Init, Notice
  <2>. QED  BY <2>1, <2>2, <2>3, <2>4, <2>5, Zenon DEF Init, TypeOK
<1>. QED  BY <1>1 DEF Init, KInv

-------------------------------------------------------------------------------

Silence ==
  /\ subscribed["broker"] => silent = 0
  /\ \A k \in DOMAIN down : silent <= down[k]
  /\ connected => silent + connectLeft <= Notice

\* Steps that change neither the answers under way nor the node, and do not subscribe,
\* keep what the invariant says of silence.
LEMMA Undisturbed ==
  ASSUME Silence, UNCHANGED <<down, silent, connected, connectLeft>>,
         subscribed'["broker"] => subscribed["broker"]
  PROVE  Silence'
BY DEF Silence, Notice

\* Every step keeps the invariant.
LEMMA SilenceStep == KInv /\ [Next]_vars => Silence'
<1> SUFFICES ASSUME TypeOK, Silence, [Next]_vars PROVE Silence'
  BY DEF KInv, Silence
<1>0. down \in Seq(0 .. MaxTransit) /\ silent \in Nat /\ Notice = MaxTransit + ConnectInterval
  BY DEF TypeOK, Notice
<1>b. "broker" \in Brokers
  BY DEF Brokers
<1>1. CASE LoopbackTimer
  BY <1>1, Undisturbed DEF LoopbackTimer, proxy
<1>2. CASE ConnectTimer
  BY <1>2 DEF ConnectTimer, Silence, proxy, Notice
<1>3. CASE OnLoopback
  <2>1. Len(down) \in Nat \ {0} /\ DOMAIN down = 1 .. Len(down)
    BY <1>0, <1>3 DEF OnLoopback
  <2>2. silent <= down[1] /\ down[1] \in 0 .. MaxTransit
    BY <1>0, <2>1 DEF Silence
  <2>3. silent' + connectLeft' <= Notice'
    BY <1>0, <1>3, <2>2 DEF OnLoopback, Notice
  <2>4. \A k \in DOMAIN down' : silent' <= down'[k]
    <3>1. \A k \in DOMAIN Tail(down) : k + 1 \in DOMAIN down /\ Tail(down)[k] = down[k + 1]
      BY <1>0, <2>1
    <3>. QED  BY <1>3, <3>1 DEF OnLoopback, Silence
  <2>. QED  BY <1>3, <2>3, <2>4 DEF OnLoopback, Silence, proxy
<1>4. CASE OnNode
  <2>1. CASE subscribed'["broker"]
    <3>1. silent' = 0 /\ UNCHANGED <<down, connected, connectLeft>>
      BY <1>4, <2>1 DEF OnNode, node
    <3>2. \A k \in DOMAIN down : 0 <= down[k]
      BY <1>0
    <3>3. connectLeft <= Notice /\ connectLeft \in Nat
      BY <1>0 DEF TypeOK
    <3>. QED  BY <1>0, <3>1, <3>2, <3>3 DEF Silence, Notice
  <2>2. CASE ~ subscribed'["broker"]
    BY <1>4, <2>2, Undisturbed DEF OnNode, node
  <2>. QED  BY <2>1, <2>2
<1>5. CASE OnPublish
  <2>1. CASE link["broker"] = "closed"
    <3>1. ~ subscribed'["broker"]
      BY <1>5, <1>b, <2>1 DEF OnPublish, Reconnect, TypeOK
    <3>. QED  BY <1>5, <2>1, <3>1, Undisturbed DEF OnPublish, node
  <2>2. CASE link["broker"] /= "closed" /\ ~ subscribed["broker"]
    BY <1>5, <2>2, Undisturbed DEF OnPublish, node
  <2>3. CASE link["broker"] /= "closed" /\ subscribed["broker"]
    <3>1. down' = Append(down, 0) /\ silent' = 0 /\ silent = 0
      BY <1>5, <2>3 DEF OnPublish, Silence
    <3>2. \A k \in DOMAIN Append(down, 0) : 0 <= Append(down, 0)[k]
      BY <1>0
    <3>. QED  BY <1>5, <2>3, <3>1, <3>2 DEF OnPublish, Silence, node, Notice
  <2>. QED  BY <2>1, <2>2, <2>3
<1>6. ASSUME NEW b \in Brokers, ReadFailure(b) PROVE Silence'
  <2>1. subscribed'["broker"] => subscribed["broker"]
    BY <1>6, <1>b DEF ReadFailure, Reconnect, TypeOK
  <2>. QED  BY <1>6, <2>1, Undisturbed DEF ReadFailure, node
<1>7. ASSUME NEW b \in Brokers, ReconnectTimer(b) PROVE Silence'
  BY <1>7, Undisturbed DEF ReconnectTimer, node
<1>8. CASE Start
  BY <1>8, Undisturbed DEF Start, node
<1>9. CASE Tick
  <2>1. CASE subscribed["broker"]
    <3>1. silent' = 0 /\ silent = 0
      BY <1>9, <2>1 DEF Tick, Silence
    <3>2. \A k \in DOMAIN down' : down'[k] \in Nat
      BY <1>0, <1>9 DEF Tick
    <3>3. connected' => connectLeft' <= Notice
      BY <1>0, <1>9 DEF Tick, TypeOK
    <3>. QED  BY <1>9, <3>1, <3>2, <3>3, <1>0 DEF Silence, Notice, TypeOK, Tick
  <2>2. CASE ~ subscribed["broker"]
    <3>1. silent' <= silent + 1 /\ silent' \in Nat
      BY <1>0, <1>9, <2>2 DEF Tick
    <3>2. \A k \in DOMAIN down' : silent' <= down'[k]
      <4>1. \A k \in DOMAIN down : silent <= down[k] /\ down[k] \in Nat
        BY <1>0 DEF Silence
      <4>. QED  BY <1>0, <1>9, <3>1, <4>1 DEF Tick
    <3>3. connected' => silent' + connectLeft' <= Notice'
      BY <1>0, <1>9, <3>1 DEF Tick, Silence, TypeOK, Notice
    <3>4. ~ subscribed'["broker"]
      BY <1>9, <2>2 DEF Tick, proxy
    <3>. QED  BY <3>2, <3>3, <3>4 DEF Silence
  <2>. QED  BY <2>1, <2>2
<1>10. CASE ServerUp
  BY <1>10, Undisturbed DEF ServerUp, node, proxy
<1>11. CASE Unread
  BY <1>11, Undisturbed DEF Unread, node, proxy
<1>12. CASE ServerDown
  <2>1. subscribed'["broker"] => subscribed["broker"]
    BY <1>12, <1>b DEF ServerDown, Cut
  <2>. QED  BY <1>12, <2>1, Undisturbed DEF ServerDown, node
<1>13. CASE ProxyStops
  <2>1. ~ subscribed'["broker"]
    BY <1>13, <1>b DEF ProxyStops
  <2>. QED  BY <1>13, <2>1, Undisturbed DEF ProxyStops, node
<1>14. CASE NodeRestarts
  BY <1>14 DEF NodeRestarts, Silence, proxy
<1>15. CASE UpLost
  BY <1>15, Undisturbed DEF UpLost, node, proxy
<1>16. CASE DownLost
  <2>1. \A k \in DOMAIN Tail(down) : k + 1 \in DOMAIN down /\ Tail(down)[k] = down[k + 1]
    BY <1>0, <1>16 DEF DownLost
  <2>. QED  BY <1>16, <2>1 DEF DownLost, Silence, node, proxy, Notice
<1>17. ASSUME NEW b \in Brokers, ConnectionLost(b) PROVE Silence'
  <2>1. subscribed'["broker"] => subscribed["broker"]
    BY <1>17, <1>b DEF ConnectionLost, Cut
  <2>. QED  BY <1>17, <2>1, Undisturbed DEF ConnectionLost, node
<1>18. CASE UNCHANGED vars
  BY <1>18, Undisturbed DEF vars, node, proxy
<1>. QED
  BY <1>1, <1>2, <1>3, <1>4, <1>5, <1>6, <1>7, <1>8, <1>9, <1>10, <1>11, <1>12, <1>13,
     <1>14, <1>15, <1>16, <1>17, <1>18
  DEF Next, Node, Proxy, Faulty

-------------------------------------------------------------------------------

\* The state of node, line and proxy is well typed, and no answer under way is older than
\* the server's silence; whatever is lost or restarted (BrokerSerial.cpp:96-112).
THEOREM KeepAliveInvariance == Spec => []KInv
<1>1. Init => KInv
  BY Initially
<1>2. KInv /\ [Next]_vars => KInv'
  <2>1. KInv <=> TypeOK /\ Silence
    BY DEF KInv, Silence
  <2>2. KInv' <=> TypeOK' /\ Silence'
    BY DEF KInv, Silence
  <2>. QED  BY <2>1, <2>2, TypeStep, SilenceStep
<1>. QED  BY <1>1, <1>2, PTL DEF Spec

\* Type correctness.
THEOREM KeepAliveTypes == Spec => []TypeOK
<1>1. KInv => TypeOK
  BY DEF KInv
<1>. QED  BY <1>1, KeepAliveInvariance, PTL

\* A node that the server does not serve any more stops taking itself for connected
\* within ConnectInterval and one transit (BrokerSerial.cpp:96-112).
THEOREM NoticedInTime == Spec => []Noticed
<1>1. KInv => Noticed
  BY DEF KInv, Noticed, TypeOK, Notice
<1>. QED  BY <1>1, KeepAliveInvariance, PTL
===============================================================================
