--------------------------- MODULE BrokerRedisProofs ---------------------------
(***************************************************************************)
(* Proofs about BrokerRedis: the contexts it uses are valid and watched,   *)
(* each half-done connect leaks one at the most, what it remembers the     *)
(* server knows, and messages come out in the order they were sent, for    *)
(* any number of descriptors, patterns, messages, restarts and half-done   *)
(* connects.                                                               *)
(***************************************************************************)
EXTENDS BrokerRedis, FiniteSetTheorems, TLAPS

Links == {"free", "open", "closed"}

\* The types of what the contexts' invariant is about.
ContextTypes ==
  /\ partials \in Nat
  /\ link \in [Fds -> Links]
  /\ watched \subseteq Fds
  /\ subscribeContext \in Fds \cup {None}

\* A broker that is not connected holds what half-done connects have left, and no more, its
\* own context included; before main() connects it never was, and nothing is watched.
Idle ==
  /\ ~ started => ~ connected /\ watched = {}
  /\ ~ connected => Cardinality(Held) <= partials

\* The inductive invariant.
BInv == ContextTypes /\ Idle /\ ContextsValid /\ NoLeak

\* connect() keeps it when it is called as the code calls it: not connected, or right after
\* disconnect().
LEMMA ConnectKeeps ==
  ASSUME BInv, NEW n, NEW gone, gone = Released, Connect(n, gone), started'
  PROVE  BInv'
<1> USE BrokerAssumption
<1>0. /\ gone \subseteq Fds
      /\ connected => gone = {subscribeContext} /\ subscribeContext \in watched
      /\ ~ connected => gone = {}
  BY DEF Released, BInv, ContextTypes, ContextsValid
<1>1. /\ Closed(gone) \in [Fds -> Links]
      /\ \A f \in Fds : Closed(gone)[f] = IF f \in gone THEN "free" ELSE link[f]
      /\ Unwatched(gone) \subseteq Fds
      /\ \A f \in Unwatched(gone) : f \in Fds /\ Closed(gone)[f] /= "free"
  BY <1>0 DEF Closed, Unwatched, Links, BInv, ContextTypes, ContextsValid
<1> DEFINE kept == {f \in Fds : Closed(gone)[f] /= "free"}
<1>2. kept \subseteq Fds /\ Cardinality(kept) <= partials /\ partials \in Nat
  <2>1. CASE connected
    <3>1. kept = Held \ {subscribeContext}
      BY <1>0, <1>1, <2>1 DEF Held
    <3> QED
      BY <3>1 DEF BInv, NoLeak, ContextTypes
  <2>2. CASE ~ connected
    <3>1. kept = Held
      BY <1>0, <1>1, <2>2 DEF Held
    <3> QED
      BY <2>2, <3>1 DEF BInv, Idle, ContextTypes
  <2> QED
    BY <2>1, <2>2
<1>3. CASE /\ link' = Closed(gone) /\ watched' = Unwatched(gone)
           /\ subscribeContext' = None /\ connected' = FALSE /\ UNCHANGED partials
  <2>1. Held' = kept /\ Held' \ {subscribeContext'} = kept
    BY <1>3 DEF Held
  <2>. QED  BY <1>1, <1>2, <1>3, <2>1 DEF BInv, ContextTypes, Idle, ContextsValid, NoLeak
<1>4. ASSUME NEW f \in Fds, Closed(gone)[f] = "free",
             link' = [Closed(gone) EXCEPT ![f] = "open"], watched' = Unwatched(gone) \cup {f},
             subscribeContext' = f, connected' = FALSE, partials' = partials + 1
      PROVE  BInv'
  <2>1. ContextTypes'
    BY <1>1, <1>4 DEF BInv, ContextTypes, Links
  <2>2. \A g \in watched' : link'[g] /= "free"
    BY <1>1, <1>4
  <2>3. Cardinality(Held') <= partials'
    <3>1. Held' = kept \cup {f} /\ IsFiniteSet(kept)
      BY <1>1, <1>2, <1>4, FS_Subset DEF Held
    <3> HIDE DEF kept
    <3>2. Cardinality(kept \cup {f})
            = IF f \in kept THEN Cardinality(kept) ELSE Cardinality(kept) + 1
      BY <3>1, FS_AddElement
    <3>3. Cardinality(kept) \in Nat
      BY <3>1, FS_CardinalityType
    <3> QED
      BY <1>2, <1>4, <3>1, <3>2, <3>3
  <2>4. NoLeak'
    <3>1. Held' \ {f} = kept
      BY <1>1, <1>4 DEF Held
    <3>2. Cardinality(kept) <= partials + 1
      <4>1. Cardinality(kept) \in Nat
        BY <1>2, FS_Subset, FS_CardinalityType
      <4> HIDE DEF kept
      <4> QED
        BY <1>2, <4>1
    <3> QED
      BY <1>4, <3>1, <3>2 DEF NoLeak
  <2>. QED  BY <1>4, <2>1, <2>2, <2>3, <2>4 DEF BInv, Idle, ContextsValid
<1>5. ASSUME NEW f \in Fds, Closed(gone)[f] = "free",
             link' = [Closed(gone) EXCEPT ![f] = "open"], watched' = Unwatched(gone) \cup {f},
             subscribeContext' = f, publishContext' = "open", connected' = TRUE,
             UNCHANGED partials
      PROVE  BInv'
  <2>1. ContextTypes'
    BY <1>1, <1>5 DEF BInv, ContextTypes, Links
  <2>2. \A g \in watched' : link'[g] /= "free"
    BY <1>1, <1>5
  <2>3. NoLeak'
    <3>1. Held' \ {f} = kept
      BY <1>1, <1>5 DEF Held
    <3> QED
      BY <1>2, <1>5, <3>1 DEF NoLeak
  <2>. QED  BY <1>5, <2>1, <2>2, <2>3 DEF BInv, Idle, ContextsValid
<1>. QED  BY <1>3, <1>4, <1>5 DEF Connect

\* Steps that leave the contexts alone keep it.
LEMMA ContextsUnchanged ==
  ASSUME BInv, UNCHANGED <<partials, link, watched, subscribeContext, connected, started,
                           publishContext>>
  PROVE  BInv'
BY DEF BInv, ContextTypes, Idle, ContextsValid, NoLeak, Held

\* The initial states satisfy it.
LEMMA BrokerInitially == Init => BInv
<1> SUFFICES ASSUME Init PROVE BInv
  OBVIOUS
<1>1. Held = {} /\ Held \ {subscribeContext} = {} /\ Cardinality({}) = 0
  BY FS_EmptySet DEF Init, Held
<1>. QED  BY <1>1 DEF Init, BInv, ContextTypes, Idle, ContextsValid, NoLeak, Links

\* Every step keeps it.
LEMMA BrokerStep == BInv /\ [Next]_vars => BInv'
<1> SUFFICES ASSUME BInv, [Next]_vars PROVE BInv'
  OBVIOUS
<1>1. CASE Start
  <2>1. ~ connected /\ Released = {}
    BY <1>1 DEF Start, BInv, Idle, Released
  <2>. QED  BY <1>1, <2>1, ConnectKeeps DEF Start
<1>2. CASE ReconnectTimer
  <2>1. Released = {} /\ started'
    BY <1>2 DEF ReconnectTimer, Released
  <2>. QED  BY <1>2, <2>1, ConnectKeeps DEF ReconnectTimer
<1>3. ASSUME Reconnect, started PROVE BInv'
  BY <1>3, ConnectKeeps DEF Reconnect
<1>4. CASE PublishFails
  BY <1>3, <1>4 DEF PublishFails, BInv, Idle
<1>5. ASSUME NEW f \in Fds, OnMessage(f) PROVE BInv'
  BY <1>5, ContextsUnchanged DEF OnMessage, server
<1>6. ASSUME NEW f \in Fds, OnReadFailure(f) PROVE BInv'
  BY <1>3, <1>6 DEF OnReadFailure, Readable, BInv, Idle
<1>7. ASSUME NEW p \in Patterns, Subscribe(p) PROVE BInv'
  BY <1>7, ContextsUnchanged DEF Subscribe, server
<1>8. CASE ServerDown
  <2>1. \A f \in Fds : link'[f] = "free" <=> link[f] = "free"
    BY <1>8 DEF ServerDown, BInv, ContextTypes
  <2>2. ContextTypes'
    BY <1>8 DEF ServerDown, BInv, ContextTypes, Links
  <2>3. Held' = Held
    BY <2>1 DEF Held
  <2>. QED  BY <1>8, <2>1, <2>2, <2>3 DEF ServerDown, BInv, ContextTypes, Idle, ContextsValid, NoLeak
<1>9. CASE ServerUp
  BY <1>9, ContextsUnchanged DEF ServerUp, context, broker
<1>10. ASSUME NEW p \in Patterns, ServerSends(p) PROVE BInv'
  BY <1>10, ContextsUnchanged DEF ServerSends, broker
<1>11. CASE UNCHANGED vars
  BY <1>11, ContextsUnchanged DEF vars, server, context, broker
<1>. QED
  BY <1>1, <1>2, <1>4, <1>5, <1>6, <1>7, <1>8, <1>9, <1>10, <1>11 DEF Next, Thread

-------------------------------------------------------------------------------

\* The contexts' invariant holds in every state (BrokerRedis.cpp:83-144).
THEOREM BrokerInvariance == Spec => []BInv
<1>. QED  BY BrokerInitially, BrokerStep, PTL DEF Spec

\* A connected broker has two contexts, reads one of them, and never watches a descriptor
\* that was closed (BrokerRedis.cpp:106, 129, 138-142).
THEOREM ContextsAlwaysValid == Spec => []ContextsValid
<1>1. BInv => ContextsValid
  BY DEF BInv
<1>. QED  BY <1>1, BrokerInvariance, PTL

\* Each half-done connect leaks one connection at the most, and nothing else leaks any
\* (BrokerRedis.cpp:101-133).
THEOREM NothingLeaks == Spec => []NoLeak
<1>1. BInv => NoLeak
  BY DEF BInv
<1>. QED  BY <1>1, BrokerInvariance, PTL

\* A reconnection that succeeds at once keeps the node name (BrokerRedis.cpp:121, 186).
THEOREM NodeIsKept == Spec => NodeKept
<1>1. BInv /\ [Next]_vars => [connected /\ connected' => node' = node]_vars
  <2> SUFFICES ASSUME BInv, Next, connected, connected' PROVE node' = node
    BY DEF vars
  <2>1. CASE Start
    BY <2>1 DEF Start, BInv, Idle
  <2>2. CASE ReconnectTimer
    BY <2>2 DEF ReconnectTimer
  <2>3. ASSUME Reconnect PROVE node' = node
    BY <2>3 DEF Reconnect, Connect
  <2>4. CASE PublishFails
    BY <2>3, <2>4 DEF PublishFails
  <2>5. ASSUME NEW f \in Fds, OnMessage(f) \/ OnReadFailure(f) PROVE node' = node
    BY <2>3, <2>5 DEF OnMessage, OnReadFailure
  <2>6. ASSUME NEW p \in Patterns, Subscribe(p) \/ ServerSends(p) PROVE node' = node
    BY <2>6 DEF Subscribe, ServerSends, broker
  <2>7. CASE ServerDown \/ ServerUp
    BY <2>7 DEF ServerDown, ServerUp, broker
  <2>. QED  BY <2>1, <2>2, <2>4, <2>5, <2>6, <2>7 DEF Next, Thread
<1>. QED  BY <1>1, BrokerInvariance, PTL DEF Spec, NodeKept

-------------------------------------------------------------------------------
(* What is remembered and what the server knows *)

\* A broker that is not connected remembers nothing and has no context to subscribe on,
\* unless a connect stopped half way: connect() itself forgets nothing.
Forgotten ==
  /\ subs \in [Fds -> SUBSET Patterns] /\ obuf \in [Fds -> SUBSET Patterns]
  /\ subscribers \subseteq Patterns
  /\ ~ connected /\ partials = 0 => subscribers = {} /\ subscribeContext = None

SInv == BInv /\ Forgotten /\ SubscriptionsKnown

\* A new connection starts with nothing remembered.
LEMMA ConnectForgets ==
  ASSUME SInv, NEW n, NEW gone, gone = Released, Connect(n, gone)
  PROVE  Forgotten' /\ SubscriptionsKnown'
<1>1. /\ gone = {} => ~ connected
      /\ partials \in Nat
  BY DEF Released, SInv, BInv, ContextTypes
<1>2. /\ subscribers' \subseteq Patterns
      /\ partials = 0 => subscribers' = {}
  BY <1>1 DEF Connect, Remembered, SInv, Forgotten
<1>3. PICK f \in Fds \cup {None} :
        /\ subs' = [g \in Fds |-> IF g \in gone \cup {f} THEN {} ELSE subs[g]]
        /\ obuf' = [g \in Fds |-> IF g \in gone \cup {f} THEN {} ELSE obuf[g]]
  BY DEF Connect
<1>4. subs' \in [Fds -> SUBSET Patterns] /\ obuf' \in [Fds -> SUBSET Patterns]
  BY <1>3 DEF SInv, Forgotten
<1>5. /\ partials' = partials \/ partials' = partials + 1
      /\ partials' = partials => connected' \/ subscribeContext' = None
  BY <1>1 DEF Connect
<1>6. partials' = 0 => subscribers' = {} /\ (connected' \/ subscribeContext' = None)
  BY <1>1, <1>2, <1>5
<1> QED
  BY <1>2, <1>4, <1>6 DEF Forgotten, SubscriptionsKnown

\* A command that is appended is written or stays to be written.
LEMMA ReplyForgetsNothing ==
  ASSUME SInv, NEW c \in Fds, NEW commands \in SUBSET Patterns, obuf[c] \subseteq commands,
         NEW reply, GetReply(c, commands, reply)
  PROVE  /\ subs' \in [Fds -> SUBSET Patterns] /\ obuf' \in [Fds -> SUBSET Patterns]
         /\ subs[c] \cup commands \subseteq subs'[c] \cup obuf'[c]
<1>a. subs \in [Fds -> SUBSET Patterns] /\ obuf \in [Fds -> SUBSET Patterns]
  BY DEF SInv, Forgotten
<1>1. CASE obuf' = [obuf EXCEPT ![c] = commands] /\ UNCHANGED subs
  BY <1>a, <1>1
<1>2. ASSUME NEW written \in SUBSET commands, subs' = [subs EXCEPT ![c] = @ \cup written],
             obuf' = [obuf EXCEPT ![c] = commands \ written]
      PROVE  /\ subs' \in [Fds -> SUBSET Patterns] /\ obuf' \in [Fds -> SUBSET Patterns]
             /\ subs[c] \cup commands \subseteq subs'[c] \cup obuf'[c]
  <2>1. /\ subs' \in [Fds -> SUBSET Patterns] /\ obuf' \in [Fds -> SUBSET Patterns]
        /\ subs'[c] = subs[c] \cup written /\ obuf'[c] = commands \ written
    BY <1>a, <1>2
  <2> QED
    BY <2>1
<1>3. \/ obuf' = [obuf EXCEPT ![c] = commands] /\ UNCHANGED subs
      \/ \E written \in SUBSET commands : /\ subs' = [subs EXCEPT ![c] = @ \cup written]
                                          /\ obuf' = [obuf EXCEPT ![c] = commands \ written]
  <2>1. (IF link[c] = "open" THEN commands ELSE {}) \in SUBSET commands
    OBVIOUS
  <2> QED
    BY <2>1 DEF GetReply
<1> QED
  BY <1>1, <1>2, <1>3

LEMMA KnownInitially == Init => SInv
BY BrokerInitially DEF Init, SInv, Forgotten, SubscriptionsKnown

LEMMA KnownStep == SInv /\ [Next]_vars => SInv'
<1> SUFFICES ASSUME SInv, [Next]_vars PROVE Forgotten' /\ SubscriptionsKnown'
  BY BrokerStep DEF SInv
<1>a. /\ subs \in [Fds -> SUBSET Patterns] /\ obuf \in [Fds -> SUBSET Patterns]
      /\ subscribers \subseteq Patterns /\ (connected => subscribeContext \in Fds)
      /\ link \in [Fds -> Links]
  BY DEF SInv, BInv, Forgotten, ContextTypes, ContextsValid
<1>1. CASE Start \/ ReconnectTimer
  <2>1. ~ connected
    BY <1>1 DEF Start, ReconnectTimer, SInv, BInv, Idle
  <2>2. {} = Released
    BY <2>1 DEF Released
  <2> QED
    BY <1>1, <2>2, ConnectForgets DEF Start, ReconnectTimer
<1>2. CASE Reconnect
  BY <1>2, ConnectForgets DEF Reconnect
<1>3. ASSUME NEW f \in Fds, OnMessage(f) PROVE Forgotten' /\ SubscriptionsKnown'
  <2>1. /\ subscribeContext \in Fds
        /\ UNCHANGED <<partials, link, connected, subscribeContext, subscribers>>
    BY <1>3 DEF OnMessage, server
  <2>2. /\ subs' \in [Fds -> SUBSET Patterns] /\ obuf' \in [Fds -> SUBSET Patterns]
        /\ subs[subscribeContext] \cup obuf[subscribeContext]
             \subseteq subs'[subscribeContext] \cup obuf'[subscribeContext]
    <3>1. obuf[subscribeContext] \in SUBSET Patterns
      BY <1>a, <2>1
    <3> QED
      BY <1>3, <2>1, <3>1, ReplyForgetsNothing DEF OnMessage
  <2> QED
    BY <2>1, <2>2 DEF SInv, Forgotten, SubscriptionsKnown
<1>4. ASSUME NEW p \in Patterns, Subscribe(p) PROVE Forgotten' /\ SubscriptionsKnown'
  <2>1. /\ subscribeContext \in Fds /\ subscribers' = subscribers \cup {p}
        /\ UNCHANGED <<partials, link, connected, subscribeContext>>
    BY <1>4 DEF Subscribe, server
  <2>2. /\ subs' \in [Fds -> SUBSET Patterns] /\ obuf' \in [Fds -> SUBSET Patterns]
        /\ subs[subscribeContext] \cup (obuf[subscribeContext] \cup {p})
             \subseteq subs'[subscribeContext] \cup obuf'[subscribeContext]
    <3>1. obuf[subscribeContext] \cup {p} \in SUBSET Patterns
      BY <1>a, <2>1
    <3> QED
      BY <1>4, <2>1, <3>1, ReplyForgetsNothing DEF Subscribe
  <2>3. Forgotten'
    BY <1>a, <2>1, <2>2, BrokerAssumption DEF SInv, Forgotten
  <2>4. SubscriptionsKnown'
    BY <2>1, <2>2 DEF SInv, SubscriptionsKnown
  <2> QED
    BY <2>3, <2>4
<1>5. CASE ServerDown
  <2>1. /\ subs' = [f \in Fds |-> {}]
        /\ link' = [f \in Fds |-> IF link[f] = "open" THEN "closed" ELSE link[f]]
        /\ UNCHANGED <<partials, obuf, connected, subscribeContext, subscribers>>
    BY <1>5 DEF ServerDown
  <2>2. connected => link'[subscribeContext] /= "open"
    BY <1>a, <2>1
  <2> QED
    BY <1>a, <2>1, <2>2 DEF SInv, Forgotten, SubscriptionsKnown
<1>6. CASE UNCHANGED <<partials, subs, obuf, link, connected, subscribeContext, subscribers>>
  BY <1>6 DEF SInv, Forgotten, SubscriptionsKnown
<1>7. ServerUp \/ (\E p \in Patterns : ServerSends(p)) \/ UNCHANGED vars
        => UNCHANGED <<partials, subs, obuf, link, connected, subscribeContext, subscribers>>
  BY DEF ServerUp, ServerSends, vars, server, context, broker
<1> QED
  BY <1>1, <1>2, <1>3, <1>4, <1>5, <1>6, <1>7 DEF Next, Thread, OnReadFailure, PublishFails

\* What the broker takes for subscribed the server sends, or will be asked for with the
\* next command: an entry that outlived its connection would never be asked for again
\* (BrokerRedis.cpp:96-142, 146-156).
THEOREM SubscribersAreKnown == Spec => []SubscriptionsKnown
<1>1. SInv => SubscriptionsKnown
  BY DEF SInv
<1> QED
  BY <1>1, KnownInitially, KnownStep, PTL DEF Spec

-------------------------------------------------------------------------------
(* The order of messages *)

\* Answers to PSUBSCRIBE do not count.
Ascends(s) == \A i, j \in DOMAIN s : i < j /\ s[i] /= Done /\ s[j] /= Done => s[i] < s[j]
Before(s, t) == \A i \in DOMAIN s, j \in DOMAIN t : s[i] /= Done /\ t[j] /= Done => s[i] < t[j]
UpTo(s, n) == \A i \in DOMAIN s : s[i] /= Done => s[i] <= n

BufferTypes ==
  /\ sent \in 0 .. MaxMessages
  /\ sock \in [Fds -> Seq(Replies)] /\ reader \in [Fds -> Seq(Replies)]
  /\ obuf \in [Fds -> SUBSET Patterns]
  /\ delivered \in Seq(1 .. MaxMessages)
  /\ subscribeContext \in Fds \cup {None}

\* What is on its way to the invoker in context c comes after what it has emitted.
Queued(c) ==
  /\ Ascends(reader[c]) /\ Ascends(sock[c]) /\ Before(reader[c], sock[c])
  /\ UpTo(reader[c], sent) /\ UpTo(sock[c], sent)
  /\ Before(delivered, reader[c]) /\ Before(delivered, sock[c])

OInv ==
  /\ BufferTypes
  /\ Ascends(delivered) /\ UpTo(delivered, sent)
  /\ subscribeContext \in Fds => Queued(subscribeContext)

\* The elements of a sequence.
LEMMA SeqElements ==
  ASSUME NEW S, NEW s \in Seq(S)
  PROVE  Len(s) \in Nat /\ \A i \in DOMAIN s : i \in 1 .. Len(s) /\ s[i] \in S
OBVIOUS

\* Indexing of a part of a sequence.
LEMMA SubSeqIndex ==
  ASSUME NEW S, NEW s \in Seq(S), NEW m \in 1 .. Len(s) + 1, NEW n \in 0 .. Len(s), m <= n + 1
  PROVE  /\ SubSeq(s, m, n) \in Seq(S)
         /\ \A i \in DOMAIN SubSeq(s, m, n) : m + i - 1 \in DOMAIN s /\ SubSeq(s, m, n)[i] = s[m + i - 1]
OBVIOUS

\* A part of an ascending sequence ascends, and the parts keep their order.
LEMMA Parts ==
  ASSUME NEW s \in Seq(Replies), Ascends(s), NEW n \in 1 .. Len(s)
  PROVE  /\ SubSeq(s, 2, n) \in Seq(Replies) /\ SubSeq(s, n + 1, Len(s)) \in Seq(Replies)
         /\ Ascends(SubSeq(s, 2, n)) /\ Ascends(SubSeq(s, n + 1, Len(s)))
         /\ Before(SubSeq(s, 2, n), SubSeq(s, n + 1, Len(s)))
         /\ Before(<<s[1]>>, SubSeq(s, 2, n)) /\ Before(<<s[1]>>, SubSeq(s, n + 1, Len(s)))
         /\ \A r \in Seq(Replies) : Before(r, s) => /\ Before(r, SubSeq(s, 2, n))
                                                    /\ Before(r, SubSeq(s, n + 1, Len(s)))
         /\ \A m \in Nat : UpTo(s, m) => /\ UpTo(SubSeq(s, 2, n), m)
                                         /\ UpTo(SubSeq(s, n + 1, Len(s)), m)
<1> DEFINE a == SubSeq(s, 2, n)
           b == SubSeq(s, n + 1, Len(s))
<1>1. /\ a \in Seq(Replies)
      /\ \A i \in DOMAIN a : i + 1 \in DOMAIN s /\ a[i] = s[i + 1] /\ i \in 1 .. n - 1
  BY SubSeqIndex
<1>2. /\ b \in Seq(Replies)
      /\ \A i \in DOMAIN b : n + i \in DOMAIN s /\ b[i] = s[n + i] /\ i \in Nat \ {0}
  BY SubSeqIndex
<1>3. DOMAIN s \subseteq Nat /\ 1 \in DOMAIN s /\ s[1] = <<s[1]>>[1] /\ DOMAIN <<s[1]>> = {1}
  OBVIOUS
<1> HIDE DEF a, b
<1>4. Ascends(a) /\ Ascends(b) /\ Before(a, b)
  BY <1>1, <1>2, <1>3 DEF Ascends, Before
<1>5. Before(<<s[1]>>, a) /\ Before(<<s[1]>>, b)
  BY <1>1, <1>2, <1>3 DEF Ascends, Before
<1>6. \A r \in Seq(Replies) : Before(r, s) => Before(r, a) /\ Before(r, b)
  BY <1>1, <1>2 DEF Before
<1>7. \A m \in Nat : UpTo(s, m) => UpTo(a, m) /\ UpTo(b, m)
  BY <1>1, <1>2 DEF UpTo
<1>. QED  BY <1>1, <1>2, <1>4, <1>5, <1>6, <1>7 DEF a, b

\* The answers the server adds disturb nothing.
LEMMA Answered ==
  ASSUME NEW s \in Seq(Replies), NEW m \in Nat, Ascends(s)
  PROVE  LET input == s \o [k \in 1 .. m |-> Done]
         IN /\ input \in Seq(Replies) /\ Ascends(input)
            /\ \A r \in Seq(Replies) : Before(r, s) => Before(r, input)
            /\ \A n \in Nat : UpTo(s, n) => UpTo(input, n)
<1> DEFINE t == [k \in 1 .. m |-> Done]
           input == s \o t
<1>1. t \in Seq(Replies) /\ Len(t) = m /\ \A k \in DOMAIN t : t[k] = Done
  BY BrokerAssumption DEF Replies, Done
<1> HIDE DEF t
<1>2. input \in Seq(Replies) /\ \A k \in DOMAIN input : input[k] /= Done => k \in DOMAIN s /\ input[k] = s[k]
  BY <1>1
<1> HIDE DEF input
<1>3. Ascends(input)
  BY <1>2 DEF Ascends
<1>4. \A r \in Seq(Replies) : Before(r, s) => Before(r, input)
  BY <1>2 DEF Before
<1>5. \A n \in Nat : UpTo(s, n) => UpTo(input, n)
  BY <1>2 DEF UpTo
<1>. QED  BY <1>2, <1>3, <1>4, <1>5 DEF input, t

\* redisGetReply returns a reply that comes before what stays in the buffers and after what
\* was emitted.
LEMMA ReplyOrder ==
  ASSUME OInv, NEW c \in Fds, c = subscribeContext, NEW commands \in SUBSET Patterns,
         NEW reply \in Replies, GetReply(c, commands, reply)
  PROVE  /\ sock' \in [Fds -> Seq(Replies)] /\ reader' \in [Fds -> Seq(Replies)]
         /\ obuf' \in [Fds -> SUBSET Patterns]
         /\ Ascends(reader'[c]) /\ Ascends(sock'[c]) /\ Before(reader'[c], sock'[c])
         /\ UpTo(reader'[c], sent) /\ UpTo(sock'[c], sent) /\ UpTo(<<reply>>, sent)
         /\ Before(delivered, reader'[c]) /\ Before(delivered, sock'[c])
         /\ Before(<<reply>>, reader'[c]) /\ Before(<<reply>>, sock'[c])
         /\ Before(delivered, <<reply>>)
<1>1. /\ reader[c] \in Seq(Replies) /\ sock[c] \in Seq(Replies) /\ delivered \in Seq(Replies)
      /\ sent \in Nat /\ Queued(c)
  BY BrokerAssumption DEF OInv, BufferTypes, Replies, Done
<1>2. CASE /\ reader[c] /= <<>> /\ reply = Head(reader[c])
           /\ reader' = [reader EXCEPT ![c] = Tail(@)]
           /\ obuf' = [obuf EXCEPT ![c] = commands] /\ UNCHANGED <<subs, sock>>
  <2> DEFINE r == reader[c]
             n == Len(r)
  <2>1. n \in 1 .. Len(r) /\ n \in Nat /\ r[1] = reply /\ Tail(r) = SubSeq(r, 2, n) /\ r \in Seq(Replies)
        /\ reader'[c] = Tail(r) /\ sock' = sock
    BY <1>1, <1>2 DEF OInv, BufferTypes
  <2>2. /\ Tail(r) \in Seq(Replies) /\ Ascends(Tail(r)) /\ Before(<<reply>>, Tail(r))
        /\ Before(delivered, Tail(r)) /\ UpTo(Tail(r), sent)
    <3>1. Ascends(r) /\ Before(delivered, r) /\ UpTo(r, sent)
      BY <1>1 DEF Queued
    <3> HIDE DEF r, n
    <3>2. /\ SubSeq(r, 2, n) \in Seq(Replies) /\ Ascends(SubSeq(r, 2, n))
          /\ Before(<<r[1]>>, SubSeq(r, 2, n)) /\ Before(delivered, SubSeq(r, 2, n))
          /\ UpTo(SubSeq(r, 2, n), sent)
      BY <1>1, <2>1, <3>1, Parts
    <3>. QED  BY <2>1, <3>2
  <2>3. \A i \in DOMAIN Tail(r) : i + 1 \in DOMAIN r /\ Tail(r)[i] = r[i + 1]
    BY <2>1
  <2>4. Before(Tail(r), sock[c])
    BY <1>1, <2>3 DEF Queued, Before
  <2>5. 1 \in DOMAIN r /\ DOMAIN <<reply>> = {1} /\ <<reply>>[1] = r[1]
    BY <2>1
  <2>6. Before(<<reply>>, sock[c]) /\ Before(delivered, <<reply>>) /\ UpTo(<<reply>>, sent)
    BY <1>1, <2>5 DEF Queued, Before, UpTo
  <2>7. /\ sock' \in [Fds -> Seq(Replies)] /\ reader' \in [Fds -> Seq(Replies)]
        /\ obuf' \in [Fds -> SUBSET Patterns]
    BY <1>2, <2>2 DEF OInv, BufferTypes
  <2>8. /\ Ascends(reader'[c]) /\ Ascends(sock'[c]) /\ Before(reader'[c], sock'[c])
        /\ UpTo(reader'[c], sent) /\ UpTo(sock'[c], sent)
        /\ Before(delivered, reader'[c]) /\ Before(delivered, sock'[c])
        /\ Before(<<reply>>, reader'[c]) /\ Before(<<reply>>, sock'[c])
    BY <1>1, <2>1, <2>2, <2>4, <2>6, Zenon DEF Queued
  <2>. QED  BY <2>6, <2>7, <2>8
<1>3. ASSUME reader[c] = <<>>, NEW written \in SUBSET commands, NEW input, NEW n \in 1 .. Len(input),
             input = sock[c] \o [k \in 1 .. Cardinality(written) |-> Done],
             reply = input[1],
             reader' = [reader EXCEPT ![c] = SubSeq(input, 2, n)],
             sock' = [sock EXCEPT ![c] = SubSeq(input, n + 1, Len(input))],
             obuf' = [obuf EXCEPT ![c] = commands \ written]
      PROVE  /\ sock' \in [Fds -> Seq(Replies)] /\ reader' \in [Fds -> Seq(Replies)]
             /\ obuf' \in [Fds -> SUBSET Patterns]
             /\ Ascends(reader'[c]) /\ Ascends(sock'[c]) /\ Before(reader'[c], sock'[c])
             /\ UpTo(reader'[c], sent) /\ UpTo(sock'[c], sent) /\ UpTo(<<reply>>, sent)
             /\ Before(delivered, reader'[c]) /\ Before(delivered, sock'[c])
             /\ Before(<<reply>>, reader'[c]) /\ Before(<<reply>>, sock'[c])
             /\ Before(delivered, <<reply>>)
  <2>1. Cardinality(written) \in Nat
    BY <1>3, BrokerAssumption, FS_Subset, FS_CardinalityType
  <2>2. Ascends(sock[c]) /\ Before(delivered, sock[c]) /\ UpTo(sock[c], sent)
    BY <1>1 DEF Queued
  <2>3. /\ input \in Seq(Replies) /\ Ascends(input) /\ Before(delivered, input) /\ UpTo(input, sent)
    BY <1>1, <1>3, <2>1, <2>2, Answered
  <2> DEFINE a == SubSeq(input, 2, n)
             b == SubSeq(input, n + 1, Len(input))
  <2>4. /\ a \in Seq(Replies) /\ b \in Seq(Replies)
        /\ Ascends(a) /\ Ascends(b) /\ Before(a, b)
        /\ Before(<<reply>>, a) /\ Before(<<reply>>, b)
        /\ Before(delivered, a) /\ Before(delivered, b)
        /\ UpTo(a, sent) /\ UpTo(b, sent)
    BY <1>1, <1>3, <2>3, Parts
  <2>5. 1 \in DOMAIN input /\ DOMAIN <<reply>> = {1} /\ <<reply>>[1] = input[1]
    <3>1. 1 \in DOMAIN input
      BY <2>3
    <3>2. DOMAIN <<reply>> = {1} /\ <<reply>>[1] = reply
      OBVIOUS
    <3>. QED  BY <1>3, <3>1, <3>2
  <2>6. Before(delivered, <<reply>>) /\ UpTo(<<reply>>, sent)
    BY <2>3, <2>5 DEF Before, UpTo
  <2> HIDE DEF a, b
  <2>7. reader'[c] = a /\ sock'[c] = b
    BY <1>3 DEF OInv, BufferTypes, a, b
  <2>8. /\ sock' \in [Fds -> Seq(Replies)] /\ reader' \in [Fds -> Seq(Replies)]
        /\ obuf' \in [Fds -> SUBSET Patterns]
    BY <1>3, <2>4 DEF OInv, BufferTypes, a, b
  <2>. QED  BY <2>4, <2>6, <2>7, <2>8
<1>. QED  BY <1>2, <1>3 DEF GetReply

\* A context that was just opened has empty buffers, and nothing else changes in connect().
LEMMA ConnectOrdered ==
  ASSUME OInv, NEW n, NEW gone, Connect(n, gone)
  PROVE  OInv'
<1> USE BrokerAssumption
<1>0. PICK f : /\ f \in Fds \cup {None} /\ subscribeContext' = f
               /\ sock' = [g \in Fds |-> IF g \in gone \cup {f} THEN <<>> ELSE sock[g]]
               /\ reader' = [g \in Fds |-> IF g \in gone \cup {f} THEN <<>> ELSE reader[g]]
               /\ obuf' = [g \in Fds |-> IF g \in gone \cup {f} THEN {} ELSE obuf[g]]
  BY DEF Connect
<1>1. /\ UNCHANGED <<sent, delivered>>
      /\ sock' \in [Fds -> Seq(Replies)] /\ reader' \in [Fds -> Seq(Replies)]
      /\ obuf' \in [Fds -> SUBSET Patterns]
      /\ subscribeContext' \in Fds \cup {None}
  <2>1. UNCHANGED <<sent, delivered>>
    BY DEF Connect
  <2>2. <<>> \in Seq(Replies)
    OBVIOUS
  <2>. QED  BY <1>0, <2>1, <2>2 DEF OInv, BufferTypes
<1>2. subscribeContext' \in Fds =>
        sock'[subscribeContext'] = <<>> /\ reader'[subscribeContext'] = <<>>
  BY <1>0
<1>3. \A q : Ascends(<<>>) /\ UpTo(<<>>, q) /\ Before(q, <<>>)
  BY DEF Ascends, UpTo, Before
<1>. QED  BY <1>1, <1>2, <1>3 DEF OInv, BufferTypes, Queued, Ascends, UpTo, Before

\* Steps that leave the buffers alone keep the order.
LEMMA OrderUnchanged ==
  ASSUME OInv, UNCHANGED <<sent, sock, reader, obuf, delivered, subscribeContext>>
  PROVE  OInv'
BY DEF OInv, BufferTypes, Queued, Ascends, UpTo, Before

\* The initial states satisfy it.
LEMMA OrderInitially == Init => OInv
<1> USE BrokerAssumption
<1>1. Init => BufferTypes
  BY DEF Init, BufferTypes
<1>2. Init => delivered = <<>> /\ subscribeContext \notin Fds
  BY DEF Init
<1>. QED  BY <1>1, <1>2 DEF OInv, Ascends, UpTo

\* Emitting the reply keeps the order.
LEMMA EmitOrdered ==
  ASSUME OInv, NEW f \in Fds, OnMessage(f)
  PROVE  OInv'
<1> DEFINE c == subscribeContext
<1>0. c \in Fds /\ UNCHANGED <<sent, subscribeContext>>
  BY DEF OnMessage, server
<1>1. PICK reply \in Replies : /\ GetReply(c, obuf[c], reply)
                               /\ delivered' = IF reply = Done THEN delivered ELSE Append(delivered, reply)
  BY DEF OnMessage
<1>2. obuf[c] \in SUBSET Patterns
  BY <1>0 DEF OInv, BufferTypes
<1>3. /\ sock' \in [Fds -> Seq(Replies)] /\ reader' \in [Fds -> Seq(Replies)]
      /\ obuf' \in [Fds -> SUBSET Patterns]
      /\ Ascends(reader'[c]) /\ Ascends(sock'[c]) /\ Before(reader'[c], sock'[c])
      /\ UpTo(reader'[c], sent) /\ UpTo(sock'[c], sent) /\ UpTo(<<reply>>, sent)
      /\ Before(delivered, reader'[c]) /\ Before(delivered, sock'[c])
      /\ Before(<<reply>>, reader'[c]) /\ Before(<<reply>>, sock'[c])
      /\ Before(delivered, <<reply>>)
  BY <1>0, <1>1, <1>2, ReplyOrder
<1>4. CASE reply = Done
  BY <1>0, <1>1, <1>3, <1>4 DEF OInv, BufferTypes, Queued
<1>5. CASE reply /= Done
  <2>0. delivered \in Seq(1 .. MaxMessages) /\ reply \in 1 .. MaxMessages
    BY <1>5, BrokerAssumption DEF OInv, BufferTypes, Replies, Done
  <2> DEFINE d == Append(delivered, reply)
  <2>1. /\ d \in Seq(1 .. MaxMessages)
        /\ \A i \in DOMAIN d : \/ i \in DOMAIN delivered /\ d[i] = delivered[i]
                               \/ i = Len(delivered) + 1 /\ d[i] = reply
        /\ DOMAIN delivered = 1 .. Len(delivered) /\ Len(delivered) \in Nat
    BY <2>0
  <2>2. DOMAIN <<reply>> = {1} /\ <<reply>>[1] = reply
    OBVIOUS
  <2> HIDE DEF d
  <2>3. \A i \in DOMAIN delivered : delivered[i] /= Done => delivered[i] < reply
    BY <1>3, <1>5, <2>2 DEF Before
  <2>4. Ascends(d)
    BY <2>1, <2>3 DEF OInv, Ascends
  <2>5. UpTo(d, sent)
    BY <1>3, <2>1, <2>2 DEF OInv, UpTo
  <2>6. Before(d, reader'[c]) /\ Before(d, sock'[c])
    BY <1>3, <2>1, <2>2 DEF Before
  <2>7. delivered' = d
    BY <1>1, <1>5 DEF d
  <2>8. BufferTypes'
    BY <1>0, <1>3, <2>1, <2>7 DEF OInv, BufferTypes
  <2>. QED  BY <1>0, <1>3, <2>4, <2>5, <2>6, <2>7, <2>8 DEF OInv, Queued
<1>. QED  BY <1>4, <1>5

\* Taking a reply for the answer to PSUBSCRIBE keeps the order of the others.
LEMMA SubscribeOrdered ==
  ASSUME OInv, NEW p \in Patterns, Subscribe(p)
  PROVE  OInv'
<1> DEFINE c == subscribeContext
<1>0. c \in Fds /\ UNCHANGED <<sent, delivered, subscribeContext>>
  BY DEF Subscribe, server
<1>1. PICK reply \in Replies : GetReply(c, obuf[c] \cup {p}, reply)
  BY DEF Subscribe
<1>2. obuf[c] \cup {p} \in SUBSET Patterns
  BY <1>0 DEF OInv, BufferTypes
<1>3. /\ sock' \in [Fds -> Seq(Replies)] /\ reader' \in [Fds -> Seq(Replies)]
      /\ obuf' \in [Fds -> SUBSET Patterns]
      /\ Ascends(reader'[c]) /\ Ascends(sock'[c]) /\ Before(reader'[c], sock'[c])
      /\ UpTo(reader'[c], sent) /\ UpTo(sock'[c], sent)
      /\ Before(delivered, reader'[c]) /\ Before(delivered, sock'[c])
  BY <1>0, <1>1, <1>2, ReplyOrder
<1>. QED  BY <1>0, <1>3 DEF OInv, BufferTypes, Queued

\* A message the server sends is the newest.
LEMMA SendOrdered ==
  ASSUME OInv, NEW p \in Patterns, ServerSends(p)
  PROVE  OInv'
<1> USE BrokerAssumption
<1>1. /\ sent \in Nat /\ sent' = sent + 1 /\ sent' \in 0 .. MaxMessages /\ sent' \in Replies
      /\ UNCHANGED <<reader, obuf, delivered, subscribeContext>>
  BY DEF ServerSends, broker, OInv, BufferTypes, Replies, Done
<1>2. \A f \in Fds : sock'[f] = sock[f] \/ sock'[f] = Append(sock[f], sent + 1)
  BY DEF ServerSends, OInv, BufferTypes
<1>3. sock' \in [Fds -> Seq(Replies)]
  BY <1>1 DEF ServerSends, OInv, BufferTypes
<1>4. BufferTypes'
  BY <1>1, <1>3 DEF OInv, BufferTypes
<1>5. Ascends(delivered') /\ UpTo(delivered', sent')
  <2>1. \A i \in DOMAIN delivered : delivered[i] \in Nat
    BY SeqElements DEF OInv, BufferTypes
  <2>. QED  BY <1>1, <2>1 DEF OInv, UpTo
<1>6. ASSUME NEW c \in Fds, c = subscribeContext PROVE Queued(c)'
  <2>1. reader[c] \in Seq(Replies) /\ sock[c] \in Seq(Replies) /\ Queued(c)
    BY <1>6 DEF OInv, BufferTypes
  <2>2. \A i \in DOMAIN sock'[c] : \/ i \in DOMAIN sock[c] /\ sock'[c][i] = sock[c][i]
                                   \/ i = Len(sock[c]) + 1 /\ sock'[c][i] = sent + 1
    BY <1>2, <2>1
  <2>3. /\ \A i \in DOMAIN reader[c] : reader[c][i] \in Nat
        /\ \A i \in DOMAIN sock[c] : sock[c][i] \in Nat /\ i \in 1 .. Len(sock[c])
        /\ \A i \in DOMAIN delivered : delivered[i] \in Nat /\ (delivered[i] /= Done => delivered[i] <= sent)
        /\ Len(sock[c]) \in Nat
    <3>1. /\ \A i \in DOMAIN reader[c] : reader[c][i] \in Replies
          /\ \A i \in DOMAIN sock[c] : sock[c][i] \in Replies /\ i \in 1 .. Len(sock[c])
          /\ Len(sock[c]) \in Nat
      BY <2>1, SeqElements
    <3>2. \A i \in DOMAIN delivered : delivered[i] \in 1 .. MaxMessages
      BY SeqElements DEF OInv, BufferTypes
    <3>. QED  BY <3>1, <3>2 DEF OInv, Replies, UpTo
  <2>4. Ascends(sock'[c])
    BY <1>1, <2>1, <2>2, <2>3 DEF Queued, Ascends, UpTo
  <2>5. Before(reader[c], sock'[c])
    BY <1>1, <2>1, <2>2, <2>3 DEF Queued, Before, UpTo
  <2>6. Before(delivered, sock'[c])
    BY <1>1, <2>1, <2>2, <2>3 DEF Queued, Before
  <2>7. UpTo(reader[c], sent') /\ UpTo(sock'[c], sent')
    BY <1>1, <2>1, <2>2, <2>3 DEF Queued, UpTo
  <2>. QED  BY <1>1, <2>1, <2>4, <2>5, <2>6, <2>7 DEF Queued
<1>. QED  BY <1>1, <1>4, <1>5, <1>6 DEF OInv

\* Every step keeps the order.
LEMMA OrderStep == OInv /\ [Next]_vars => OInv'
<1> SUFFICES ASSUME OInv, [Next]_vars PROVE OInv'
  OBVIOUS
<1>1. CASE Start
  BY <1>1, ConnectOrdered DEF Start
<1>2. CASE ReconnectTimer
  BY <1>2, ConnectOrdered DEF ReconnectTimer
<1>3. ASSUME Reconnect PROVE OInv'
  BY <1>3, ConnectOrdered DEF Reconnect
<1>4. CASE PublishFails
  BY <1>3, <1>4 DEF PublishFails
<1>5. ASSUME NEW f \in Fds, OnMessage(f) \/ OnReadFailure(f) PROVE OInv'
  BY <1>3, <1>5, EmitOrdered DEF OnReadFailure
<1>6. ASSUME NEW p \in Patterns, Subscribe(p) \/ ServerSends(p) PROVE OInv'
  BY <1>6, SubscribeOrdered, SendOrdered
<1>7. CASE ServerDown
  BY <1>7, OrderUnchanged DEF ServerDown
<1>8. CASE ServerUp
  BY <1>8, OrderUnchanged DEF ServerUp, context, broker
<1>9. CASE UNCHANGED vars
  BY <1>9, OrderUnchanged DEF vars, server, context, broker
<1>. QED  BY <1>1, <1>2, <1>4, <1>5, <1>6, <1>7, <1>8, <1>9 DEF Next, Thread

\* Messages are emitted in the order the server sent them and none of them twice, whatever
\* subscribe() takes from the buffers and however often the broker reconnects
\* (BrokerRedis.cpp:106-123, 146-162).
THEOREM EmittedInOrder == Spec => []InOrder
<1>1. OInv => InOrder
  <2> SUFFICES ASSUME OInv PROVE InOrder
    OBVIOUS
  <2>1. \A i \in DOMAIN delivered : delivered[i] \in 1 .. MaxMessages
    BY SeqElements DEF OInv, BufferTypes
  <2>2. \A i \in DOMAIN delivered : delivered[i] /= Done
    BY <2>1, BrokerAssumption DEF Done
  <2>. QED  BY <2>2 DEF OInv, Ascends, InOrder
<1>. QED  BY <1>1, OrderInitially, OrderStep, PTL DEF Spec
===============================================================================
