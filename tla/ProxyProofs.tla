------------------------------ MODULE ProxyProofs ------------------------------
(***************************************************************************)
(* Proofs about Proxy: whose is every descriptor, and where the thread may *)
(* wait, for queues of any size and any number of restarts, arrivals,      *)
(* commands, flashes and unplugs.                                          *)
(***************************************************************************)
EXTENDS Proxy, FiniteSetTheorems, SequenceTheorems, TLAPS

USE SizeAssumption, BoundAssumption DEF Descriptors, NoFd, Keys, Brokers, Nobody

-------------------------------------------------------------------------------
(* The thread's pipe with the queued elements *)

Fits(queue) == queue \in Seq(Job) /\ \A flow \in Flows : Queued(queue, flow) <= QueueSize

Places(queue, flow) == {i \in 1 .. Len(queue) : queue[i].flow = flow}

LEMMA PlacesFinite ==
  ASSUME NEW queue \in Seq(Job), NEW flow
  PROVE  IsFiniteSet(Places(queue, flow)) /\ Queued(queue, flow) = Cardinality(Places(queue, flow))
         /\ Queued(queue, flow) \in Nat
<1>1. IsFiniteSet(1 .. Len(queue))
  BY FS_Interval
<1>2. Places(queue, flow) \in SUBSET (1 .. Len(queue))
  BY DEF Places
<1> QED
  BY <1>1, <1>2, FS_Subset, FS_CardinalityType DEF Places, Queued

LEMMA AtMostOneMore ==
  ASSUME NEW S, IsFiniteSet(S), NEW x
  PROVE  Cardinality(S \cup {x}) <= Cardinality(S) + 1
<1>1. Cardinality(S) \in Nat
  BY FS_CardinalityType
<1>2. Cardinality(S \cup {x}) = IF x \in S THEN Cardinality(S) ELSE Cardinality(S) + 1
  BY FS_AddElement
<1> QED
  BY <1>1, <1>2

\* Serving an element makes room, in its own flow or not at all.
LEMMA TailFits ==
  ASSUME NEW queue, Fits(queue), queue /= <<>>
  PROVE  Fits(Tail(queue))
<1>1. Tail(queue) \in Seq(Job) /\ Len(Tail(queue)) = Len(queue) - 1
      /\ \A i \in 1 .. Len(Tail(queue)) : Tail(queue)[i] = queue[i + 1]
  BY DEF Fits
<1>2. ASSUME NEW flow \in Flows PROVE Queued(Tail(queue), flow) <= QueueSize
  <2> DEFINE after == Places(Tail(queue), flow)
             before == Places(queue, flow)
             shift == [i \in after |-> i + 1]
  <2>1. \A i \in after : i \in Nat /\ i + 1 \in before
    BY <1>1 DEF Places, Fits
  <2>2. shift \in Injection(after, before)
    <3>1. shift \in [after -> before]
      BY <2>1
    <3>2. \A i, j \in after : shift[i] = shift[j] => i = j
      BY <2>1
    <3> QED
      BY <3>1, <3>2 DEF Injection, IsInjective
  <2>3. Cardinality(after) <= Cardinality(before)
    BY <2>2, FS_Injection, PlacesFinite DEF Fits
  <2>4. Queued(Tail(queue), flow) = Cardinality(after) /\ Cardinality(after) \in Nat
    BY <1>1, PlacesFinite
  <2>5. Queued(queue, flow) = Cardinality(before) /\ Cardinality(before) \in Nat
        /\ Queued(queue, flow) <= QueueSize
    BY PlacesFinite DEF Fits
  <2> HIDE DEF after, before
  <2> QED
    BY <2>3, <2>4, <2>5
<1> QED
  BY <1>1, <1>2 DEF Fits

LEMMA EnqueuedFits ==
  ASSUME NEW queue, Fits(queue), NEW flow \in Flows,
         NEW what \in Arrivals \cup {"command"}, NEW n \in Nat
  PROVE  Fits(Enqueued(queue, flow, what, n))
<1> DEFINE job == [flow |-> flow, what |-> what, n |-> n]
           longer == Append(queue, job)
<1>1. CASE ~ Queued(queue, flow) < QueueSize
  BY <1>1 DEF Enqueued
<1>2. CASE Queued(queue, flow) < QueueSize
  <2>1. job \in Job /\ queue \in Seq(Job)
    BY DEF Job, Fits
  <2>2. longer \in Seq(Job) /\ Len(longer) = Len(queue) + 1 /\ Len(queue) \in Nat
        /\ longer[Len(queue) + 1] = job /\ \A i \in 1 .. Len(queue) : longer[i] = queue[i]
    BY <2>1
  <2>3. ASSUME NEW f \in Flows PROVE Queued(longer, f) <= QueueSize
    <3>1. CASE f = flow
      <4>1. Places(longer, f) = Places(queue, f) \cup {Len(queue) + 1}
        BY <2>2, <3>1 DEF Places
      <4>2. IsFiniteSet(Places(queue, f)) /\ Queued(queue, f) = Cardinality(Places(queue, f))
            /\ Queued(queue, f) \in Nat
        BY <2>1, PlacesFinite
      <4>3. Queued(longer, f) = Cardinality(Places(longer, f))
        BY <2>2, PlacesFinite
      <4>4. Queued(longer, f) \in Nat
        BY <2>2, PlacesFinite
      <4>5. Cardinality(Places(queue, f) \cup {Len(queue) + 1}) <= Cardinality(Places(queue, f)) + 1
        BY <4>2, AtMostOneMore
      <4>6. Cardinality(Places(longer, f)) <= Cardinality(Places(queue, f)) + 1
        BY <4>1, <4>5
      <4> HIDE DEF longer
      <4> QED
        BY <1>2, <3>1, <4>2, <4>3, <4>6, <4>4
    <3>2. CASE f /= flow
      <4>1. Places(longer, f) = Places(queue, f)
        BY <2>2, <3>2 DEF Places
      <4> QED
        BY <2>1, <2>2, <4>1, PlacesFinite DEF Fits
    <3> QED
      BY <3>1, <3>2
  <2> QED
    BY <1>2, <2>2, <2>3 DEF Enqueued, Fits
<1> QED
  BY <1>1, <1>2

-------------------------------------------------------------------------------
(* Subscribe contexts *)

LEMMA FreshContext == Fresh \in Context
<1>1. <<>> \in Seq(Nat) /\ Len(<<>>) = 0
  OBVIOUS
<1> QED
  BY <1>1 DEF Fresh, Context

LEMMA ContextParts ==
  ASSUME NEW c \in Context
  PROVE  /\ c.replies \in Seq(Nat) /\ Len(c.replies) \in Nat
         /\ c.parsed \in Nat /\ c.parsed <= Len(c.replies)
         /\ c.patterns \in [Patterns -> {"unknown", "unwritten", "asked", "known"}]
<1>1. c.replies \in Seq(Nat) /\ c.parsed \in Nat /\ c.parsed <= Len(c.replies)
      /\ c.patterns \in [Patterns -> {"unknown", "unwritten", "asked", "known"}]
  BY DEF Context
<1> QED
  BY <1>1

LEMMA WaitingExpects == ASSUME NEW c \in Context, Waiting(c) PROVE Expects(c)
<1>1. c.replies \in Seq(Nat) /\ Len(c.replies) > 0
  BY ContextParts DEF Waiting
<1>2. c.replies /= <<>>
  BY <1>1
<1> QED
  BY <1>2 DEF Expects

\* More to read leaves a broker with something to read.
LEMMA SentKeeps ==
  ASSUME NEW c \in Context, NEW n \in Nat
  PROVE  Sent(c, n) \in Context /\ Waiting(Sent(c, n)) /\ Expects(Sent(c, n))
<1> DEFINE q == Append(c.replies, n)
<1>1. q \in Seq(Nat) /\ Len(q) = Len(c.replies) + 1 /\ q /= <<>>
  BY ContextParts, AppendProperties
<1>2. Sent(c, n) = [c EXCEPT !.replies = q]
  BY DEF Sent
<1> HIDE DEF q
<1>3. c \in [replies : Seq(Nat), parsed : Nat,
             patterns : [Patterns -> {"unknown", "unwritten", "asked", "known"}]]
  BY DEF Context
<1>4. Sent(c, n).replies = q /\ Sent(c, n).parsed = c.parsed
  BY <1>2, <1>3
<1>5. c.parsed <= Len(q) /\ Len(q) > c.parsed
  BY <1>1, ContextParts
<1> QED
  BY <1>1, <1>2, <1>3, <1>4, <1>5 DEF Context, Waiting, Expects

LEMMA AnsweredKeeps ==
  ASSUME NEW c \in Context, NEW p \in Patterns
  PROVE  /\ Answered(c, p) \in Context
         /\ Waiting(Answered(c, p)) /\ Expects(Answered(c, p))
<1> DEFINE d == Sent(c, Answer)
<1>1. d \in Context /\ Waiting(d) /\ Expects(d) /\ d.replies /= <<>>
  <2>1. Answer \in Nat
    BY DEF Answer
  <2>2. d \in Context /\ Waiting(d) /\ Expects(d)
    BY <2>1, SentKeeps
  <2>3. d.replies /= <<>>
    BY <2>2, ContextParts DEF Waiting
  <2> QED
    BY <2>2, <2>3
<1> DEFINE ps == [d.patterns EXCEPT ![p] = "known"]
<1>2. Answered(c, p) = [d EXCEPT !.patterns = ps]
  BY DEF Answered
<1> HIDE DEF d
<1>3. ps \in [Patterns -> {"unknown", "unwritten", "asked", "known"}]
  BY <1>1, ContextParts
<1> HIDE DEF ps
<1> QED
  BY <1>1, <1>2, <1>3 DEF Context, Waiting, Expects

LEMMA AskedKeeps ==
  ASSUME NEW c \in Context, NEW p \in Patterns
  PROVE  /\ Asked(c, p) \in Context /\ Asked(c, p).patterns[p] = "unwritten"
         /\ Asked(c, p).replies = c.replies /\ Asked(c, p).parsed = c.parsed
  BY DEF Asked, Context

\* What is written is owed an answer.
LEMMA WrittenKeeps ==
  ASSUME NEW c \in Context
  PROVE  /\ Written(c) \in Context
         /\ Written(c).replies = c.replies /\ Written(c).parsed = c.parsed
         /\ In(c, "asked") \subseteq In(Written(c), "asked")
         /\ In(c, "unwritten") \subseteq In(Written(c), "asked")
<1> DEFINE ps == [p \in Patterns |-> IF c.patterns[p] = "unwritten" THEN "asked" ELSE c.patterns[p]]
<1>1. Written(c) = [c EXCEPT !.patterns = ps]
  BY DEF Written
<1>2. ps \in [Patterns -> {"unknown", "unwritten", "asked", "known"}]
  BY ContextParts
<1>3. \A p \in Patterns : c.patterns[p] \in {"unwritten", "asked"} => ps[p] = "asked"
  OBVIOUS
<1> HIDE DEF ps
<1> QED
  BY <1>1, <1>2, <1>3 DEF Context, In

\* redisGetReply returns nothing but what was there.
LEMMA ReadReturns ==
  ASSUME NEW c \in Context, NEW got \in Read(c)
  PROVE  got.reply \in Nat /\ got.context \in Context /\ c.replies /= <<>>
<1>1. ASSUME NEW d \in Context, NEW n \in Nat, n <= Len(d.replies) - 1, got = Returned(d, n)
      PROVE  got.reply \in Nat /\ got.context \in Context /\ d.replies /= <<>>
  <2>1. d.replies \in Seq(Nat) /\ Len(d.replies) > 0
    BY <1>1, ContextParts
  <2>2. Head(d.replies) \in Nat /\ Tail(d.replies) \in Seq(Nat) /\ n <= Len(Tail(d.replies))
        /\ d.replies /= <<>>
    BY <1>1, <2>1
  <2>3. got.reply = Head(d.replies)
        /\ got.context = [d EXCEPT !.replies = Tail(d.replies), !.parsed = n]
    BY <1>1 DEF Returned
  <2> QED
    BY <2>2, <2>3 DEF Context
<1>2. CASE c.parsed > 0
  <2>1. got = Returned(c, c.parsed - 1) /\ c.parsed - 1 \in Nat
        /\ c.parsed - 1 <= Len(c.replies) - 1
    BY <1>2, ContextParts DEF Read
  <2> QED
    BY <1>1, <2>1
<1>3. CASE ~ c.parsed > 0
  <2>1. PICK n \in 0 .. Len(Written(c).replies) - 1 : got = Returned(Written(c), n)
    BY <1>3, WrittenKeeps DEF Read
  <2>2. n \in Nat /\ n <= Len(Written(c).replies) - 1
    BY <2>1, WrittenKeeps, ContextParts
  <2>3. got.reply \in Nat /\ got.context \in Context /\ Written(c).replies /= <<>>
    BY <1>1, <2>1, <2>2, WrittenKeeps
  <2> QED
    BY <2>3, WrittenKeeps
<1> QED
  BY <1>2, <1>3

LEMMA MoreThanOne == ASSUME NEW q \in Seq(Nat), Len(q) > 1 PROVE Tail(q) /= <<>>
<1> DEFINE n == Len(q)
           t == Tail(q)
           m == Len(t)
<1>1. q /= <<>>
  OBVIOUS
<1>2. t \in Seq(Nat) /\ m = n - 1 /\ n > 1 /\ n \in Nat
  BY <1>1, HeadTailProperties
<1> HIDE DEF n, m
<1>3. m > 0
  BY <1>2
<1> HIDE DEF t
<1>4. t /= <<>>
  BY <1>2, <1>3 DEF m
<1> QED
  BY <1>4 DEF t

\* subscribe() may take the message that was reported, and leaves either another one or an
\* answer that the server owes.
LEMMA TakenFromReported ==
  ASSUME NEW c \in Context, NEW p \in Patterns, Waiting(c), NEW got \in Read(Asked(c, p))
  PROVE  Expects(got.context)
<1> DEFINE d == Asked(c, p)
<1>1. d \in Context /\ d.replies = c.replies /\ d.parsed = c.parsed /\ p \in In(d, "unwritten")
  BY AskedKeeps DEF In
<1> HIDE DEF d
<1>2. CASE d.parsed > 0
  <2>1. got = Returned(d, d.parsed - 1)
    BY <1>2 DEF Read, d
  <2>2. d.replies \in Seq(Nat) /\ Len(d.replies) > 1
    BY <1>1, <1>2, ContextParts DEF Waiting
  <2>3. Tail(d.replies) /= <<>>
    BY <2>2, MoreThanOne
  <2>4. got.context.replies = Tail(d.replies)
    BY <1>1, <2>1 DEF Returned, Context
  <2> QED
    BY <2>3, <2>4 DEF Expects
<1>3. CASE ~ d.parsed > 0
  <2> DEFINE w == Written(d)
  <2>1. w \in Context /\ p \in In(w, "asked")
    BY <1>1, WrittenKeeps
  <2>2. PICK n \in 0 .. Len(d.replies) - 1 : got = Returned(w, n)
    BY <1>3 DEF Read, d
  <2> HIDE DEF w
  <2>3. got.context.patterns = w.patterns
    BY <2>1, <2>2 DEF Returned, Context
  <2> QED
    BY <2>1, <2>3 DEF Expects, In
<1> QED
  BY <1>2, <1>3

-------------------------------------------------------------------------------
(* Descriptors *)

\* With five numbers for at most four that are held one is free.
LEMMA LowestIsFree ==
  ASSUME NEW used, NEW a, NEW b, NEW c, NEW d, used \subseteq {a, b, c, d}
  PROVE  Lowest(used) \in Descriptors \ used
<1>1. \E f \in Descriptors \ used : \A g \in Descriptors \ used : f <= g
  <2>1. \E f \in Descriptors : f \notin used
    <3>1. 1 .. 5 = {1, 2, 3, 4, 5}
      OBVIOUS
    <3>2. SUFFICES ASSUME {1, 2, 3, 4, 5} \subseteq {a, b, c, d} PROVE FALSE
      BY <3>1
    <3> QED
      BY <3>2
  <2>2. \A f \in Descriptors : f \in {1, 2, 3, 4, 5}
    OBVIOUS
  <2> QED
    BY <2>1, <2>2
<1> QED
  BY <1>1 DEF Lowest

\* reads, sub and sfd after a broker has reconnected.
LEMMA ReconnectKeeps ==
  ASSUME PInv, NEW b \in Brokers, Reconnect(b), sfd' = sfd
  PROVE  /\ sub' \in [Brokers -> Keys] /\ pub' \in [Brokers -> Keys]
         /\ link' \in [Brokers -> {"none", "open", "closed"}]
         /\ context' \in [Brokers -> Context]
         /\ reads' \in [Keys -> Brokers \cup {"session", Nobody}]
         /\ Owned'
         /\ reads'[NoFd] \notin Brokers
<1> DEFINE held == Used \ {sub[b], pub[b]}
           s == Lowest(held)
           p == Lowest(held \cup {s})
           table == IF link[b] = "none" THEN reads ELSE Erase(reads, sub[b])
<1>a. TypeOK /\ Owned /\ reads[NoFd] \notin Brokers
  BY DEF PInv, Announced
<1>b. \A k \in Keys : table[k] = IF link[b] /= "none" /\ k = sub[b] THEN Nobody ELSE reads[k]
  BY <1>a DEF TypeOK, Erase
<1>c. table \in [Keys -> Brokers \cup {"session", Nobody}]
  BY <1>a DEF TypeOK, Erase
<1>d. PICK c \in Brokers : c /= b /\ Brokers = {b, c}
  OBVIOUS
<1>e. \A k \in Descriptors : /\ table[k] = "session" <=> k = sfd
                             /\ table[k] /= b
                             /\ table[k] = c <=> k = sub[c]
  <2> TAKE k \in Descriptors
  <2>1. /\ k \in Keys /\ k /= NoFd
        /\ reads[k] = "session" <=> k = sfd
        /\ reads[k] = b <=> k = sub[b]
        /\ reads[k] = c <=> k = sub[c]
        /\ sub[b] = NoFd <=> link[b] = "none"
    BY <1>a, <1>d DEF Owned
  <2>2. table[k] = IF link[b] /= "none" /\ k = sub[b] THEN Nobody ELSE reads[k]
    BY <1>b, <2>1
  <2>3. b /= Nobody /\ c /= Nobody /\ b /= "session" /\ c /= "session" /\ Nobody /= "session"
    OBVIOUS
  <2> HIDE DEF table
  <2>4. CASE k = sub[b]
    BY <1>d, <2>1, <2>2, <2>3, <2>4
  <2>5. CASE k /= sub[b]
    BY <2>1, <2>2, <2>5
  <2> QED
    BY <2>4, <2>5
<1>f. /\ sfd \in Keys /\ sub[c] \in Keys /\ pub[c] \in Keys
      /\ sfd /= NoFd => sfd \notin {sub[b], pub[b]}
      /\ sub[c] /= NoFd => sub[c] \notin {sub[b], pub[b]}
      /\ pub[c] /= NoFd => pub[c] \notin {sub[b], pub[b]}
  <2>1. \A k \in Descriptors : /\ ~ (k = sfd /\ k = sub[b])
                              /\ ~ (k = sub[c] /\ k = sub[b])
    BY <1>a, <1>d DEF Owned
  <2>2. sfd \in Keys /\ sub[c] \in Keys /\ pub[c] \in Keys
    BY <1>a DEF TypeOK
  <2> QED
    BY <1>a, <1>d, <2>1, <2>2 DEF Owned
<1>1. CASE up
  <2>1. held \subseteq {sfd, sub[c], pub[c], pub[c]}
    BY <1>d DEF Used
  <2>2. s \in Descriptors \ held
    BY <2>1, LowestIsFree
  <2>3. p \in Descriptors \ (held \cup {s})
    <3>1. held \cup {s} \subseteq {sfd, sub[c], pub[c], s}
      BY <2>1
    <3> QED
      BY <3>1, LowestIsFree
  <2>4. /\ sub' = [sub EXCEPT ![b] = s] /\ pub' = [pub EXCEPT ![b] = p]
        /\ link' = [link EXCEPT ![b] = "open"]
        /\ reads' = Emplace(table, s, b)
        /\ context' = [context EXCEPT ![b] = Fresh]
    BY <1>1 DEF Reconnect
  <2>5. s \notin {sfd, sub[c], pub[c]} /\ p \notin {s, sfd, sub[c], pub[c]}
    <3>1. /\ sfd \in held \cup {NoFd} /\ sub[c] \in held \cup {NoFd}
          /\ pub[c] \in held \cup {NoFd}
      BY <1>f DEF Used
    <3> QED
      BY <2>2, <2>3, <3>1
  <2> HIDE DEF held, s, p, table
  <2>6. \A k \in Keys : reads'[k] = IF k = s THEN b ELSE table[k]
    <3>1. table[s] = Nobody
      BY <1>c, <1>d, <1>e, <2>2, <2>5
    <3> QED
      BY <1>c, <2>2, <2>4, <3>1 DEF Emplace
  <2>7. /\ sub'[b] = s /\ sub'[c] = sub[c] /\ pub'[b] = p /\ pub'[c] = pub[c]
        /\ link'[b] = "open" /\ link'[c] = link[c]
    BY <1>a, <1>d, <2>4 DEF TypeOK
  <2>8. Owned'
    <3>1. ASSUME NEW k \in Descriptors
          PROVE  /\ reads'[k] = "session" <=> k = sfd
                 /\ \A o \in Brokers : reads'[k] = o <=> k = sub'[o]
      <4>1. reads'[k] = IF k = s THEN b ELSE table[k]
        BY <2>6
      <4>2. CASE k = s
        BY <1>d, <2>5, <2>7, <4>1, <4>2
      <4>3. CASE k /= s
        BY <1>d, <1>e, <2>7, <4>1, <4>3
      <4> QED
        BY <4>2, <4>3
    <3> QED
      BY <1>a, <1>d, <2>2, <2>3, <2>5, <2>7, <3>1 DEF Owned
  <2>9. reads' \in [Keys -> Brokers \cup {"session", Nobody}] /\ reads'[NoFd] \notin Brokers
    BY <1>a, <1>b, <1>c, <2>2, <2>4, <2>6 DEF Emplace
  <2>10. s \in Keys /\ p \in Keys /\ Fresh \in Context
    BY <2>2, <2>3, FreshContext
  <2> QED
    BY <1>a, <2>4, <2>8, <2>9, <2>10 DEF TypeOK
<1>2. CASE ~ up
  <2>1. /\ sub' = [sub EXCEPT ![b] = NoFd] /\ pub' = [pub EXCEPT ![b] = NoFd]
        /\ link' = [link EXCEPT ![b] = "none"]
        /\ reads' = table
        /\ context' = [context EXCEPT ![b] = Fresh]
    BY <1>2 DEF Reconnect
  <2>2. Owned'
    <3>1. /\ sub'[b] = NoFd /\ sub'[c] = sub[c] /\ pub'[b] = NoFd /\ pub'[c] = pub[c]
          /\ link'[b] = "none" /\ link'[c] = link[c]
      BY <1>a, <1>d, <2>1 DEF TypeOK
    <3> QED
      BY <1>a, <1>d, <1>e, <2>1, <3>1 DEF Owned
  <2>3. reads'[NoFd] \notin Brokers
    BY <1>a, <1>b, <2>1
  <2>4. Fresh \in Context
    BY FreshContext
  <2> QED
    BY <1>a, <1>c, <2>1, <2>2, <2>3, <2>4 DEF TypeOK
<1> QED
  BY <1>1, <1>2

\* The same, for a publish or XADD that may find its connection broken.
LEMMA TransmitKeeps ==
  ASSUME PInv, Transmit, sfd' = sfd
  PROVE  /\ sub' \in [Brokers -> Keys] /\ pub' \in [Brokers -> Keys]
         /\ link' \in [Brokers -> {"none", "open", "closed"}]
         /\ context' \in [Brokers -> Context]
         /\ reads' \in [Keys -> Brokers \cup {"session", Nobody}]
         /\ changed' \in BOOLEAN
         /\ Owned'
         /\ reads'[NoFd] \notin Brokers
         /\ changed' \/ UNCHANGED <<brokers, reads, changed>>
<1>1. CASE link["broker"] = "closed"
  <2>1. "broker" \in Brokers /\ Reconnect("broker") /\ changed' = TRUE
    BY <1>1 DEF Transmit
  <2> QED
    BY <2>1, ReconnectKeeps
<1>2. CASE link["broker"] /= "closed"
  <2>1. UNCHANGED <<brokers, reads, changed>>
    BY <1>2 DEF Transmit
  <2> QED
    BY <2>1 DEF PInv, TypeOK, Owned, Announced, brokers
<1> QED
  BY <1>1, <1>2

-------------------------------------------------------------------------------
(* The inductive invariant *)

LEMMA InitEstablishes == Init => PInv
<1> SUFFICES ASSUME Init PROVE PInv
  OBVIOUS
<1> USE DEF Init
<1>1. \A flow \in Flows : Queued(<<>>, flow) <= QueueSize
  <2> TAKE flow \in Flows
  <2>1. {i \in 1 .. Len(<<>>) : <<>>[i].flow = flow} = {}
    OBVIOUS
  <2> QED
    BY <2>1, FS_EmptySet DEF Queued
<1>2. sfd \in Keys /\ reads \in [Keys -> Brokers \cup {"session", Nobody}]
  OBVIOUS
<1>3. TypeOK
  <2>3. context \in [Brokers -> Context]
    BY FreshContext
  <2>4. hung \in BOOLEAN /\ wanted \subseteq Brokers /\ pattern \in Patterns
    BY DEF Patterns
  <2>1. {downs, unplugs, arrivals, commands, flashes} \subseteq Nat
    OBVIOUS
  <2>2. up \in BOOLEAN /\ present \in BOOLEAN /\ alive \in BOOLEAN /\ changed \in BOOLEAN
    BY Zenon
  <2> QED
    BY <1>1, <1>2, <2>1, <2>2, <2>3, <2>4 DEF TypeOK
<1>4. Owned
  BY DEF Owned
<1>5. Placed /\ Announced
  BY DEF Placed, Announced
<1> QED
  BY <1>3, <1>4, <1>5 DEF PInv

LEMMA OutsideLinks ==
  ASSUME PInv, Outside
  PROVE  /\ link' \in [Brokers -> {"none", "open", "closed"}]
         /\ \A b \in Brokers : (link'[b] = "none" <=> link[b] = "none")
                               /\ (link[b] = "closed" => link'[b] = "closed")
<1>1. link \in [Brokers -> {"none", "open", "closed"}]
  BY DEF PInv, TypeOK
<1>2. CASE ServerDown
  BY <1>1, <1>2 DEF ServerDown
<1>3. CASE link' = link
  BY <1>1, <1>3
<1>4. /\ ServerUp \/ Unplug \/ Plug \/ SendCommand \/ SendFlash => link' = link
      /\ \A what \in Arrivals : Arrive(what) => link' = link
      /\ \A b \in Brokers, p \in Patterns : ServerAnswers(b, p) => link' = link
  BY DEF ServerUp, Unplug, Plug, Arrive, SendCommand, SendFlash, ServerAnswers, brokers
<1> QED
  BY <1>2, <1>3, <1>4 DEF Outside

\* The server only adds to what there is to read, and what it owes it sends.
LEMMA OutsideContexts ==
  ASSUME PInv, Outside
  PROVE  /\ context' \in [Brokers -> Context]
         /\ \A b \in Brokers : /\ Waiting(context[b]) => Waiting(context'[b])
                               /\ Expects(context[b]) => Expects(context'[b])
<1>1. context \in [Brokers -> Context] /\ commands + 1 \in Nat /\ flashes + 1 \in Nat
  <2>1. context \in [Brokers -> Context] /\ {commands, flashes} \subseteq Nat
    BY DEF PInv, TypeOK
  <2> QED
    BY <2>1
<1>2. ASSUME NEW b \in Brokers, NEW d \in Context, Waiting(d), Expects(d),
             context' = [context EXCEPT ![b] = d]
      PROVE  /\ context' \in [Brokers -> Context]
             /\ \A c \in Brokers : /\ Waiting(context[c]) => Waiting(context'[c])
                                   /\ Expects(context[c]) => Expects(context'[c])
  <2>1. \A c \in Brokers : context'[c] = IF c = b THEN d ELSE context[c]
    BY <1>1, <1>2
  <2> QED
    BY <1>1, <1>2, <2>1
<1>3. CASE SendCommand
  <2> DEFINE d == Sent(context["broker"], commands + 1)
  <2>1. context' = [context EXCEPT !["broker"] = d] /\ "broker" \in Brokers
    BY <1>3 DEF SendCommand
  <2>2. d \in Context /\ Waiting(d) /\ Expects(d)
    BY <1>1, <2>1, SentKeeps
  <2> HIDE DEF d
  <2> QED
    BY <1>2, <2>1, <2>2
<1>4. CASE SendFlash
  <2> DEFINE d == Sent(context["brokerProxy"], flashes + 1)
  <2>1. context' = [context EXCEPT !["brokerProxy"] = d] /\ "brokerProxy" \in Brokers
    BY <1>4 DEF SendFlash
  <2>2. d \in Context /\ Waiting(d) /\ Expects(d)
    BY <1>1, <2>1, SentKeeps
  <2> HIDE DEF d
  <2> QED
    BY <1>2, <2>1, <2>2
<1>5. ASSUME NEW b \in Brokers, NEW p \in Patterns, ServerAnswers(b, p)
      PROVE  /\ context' \in [Brokers -> Context]
             /\ \A c \in Brokers : /\ Waiting(context[c]) => Waiting(context'[c])
                                   /\ Expects(context[c]) => Expects(context'[c])
  <2> DEFINE d == Answered(context[b], p)
  <2>1. context' = [context EXCEPT ![b] = d]
    BY <1>5 DEF ServerAnswers
  <2>2. d \in Context /\ Waiting(d) /\ Expects(d)
    BY <1>1, AnsweredKeeps
  <2> HIDE DEF d
  <2> QED
    BY <1>2, <2>1, <2>2
<1>6. CASE context' = context
  BY <1>1, <1>6
<1>7. ServerDown \/ ServerUp \/ Unplug \/ Plug \/ (\E what \in Arrivals : Arrive(what))
        => context' = context
  BY DEF ServerDown, ServerUp, Unplug, Plug, Arrive, brokers
<1> QED
  BY <1>3, <1>4, <1>5, <1>6, <1>7 DEF Outside

\* The rest of the world takes no descriptor away, and gives the brokers more to read.
LEMMA OutsideKeeps == PInv /\ Outside => PInv'
<1> SUFFICES ASSUME PInv, Outside PROVE PInv'
  OBVIOUS
<1>1. UNCHANGED <<sfd, sub, pub, reads, jobs, round, alive, changed, fates>>
  BY DEF Outside, ServerDown, ServerUp, Unplug, Plug, Arrive, SendCommand, SendFlash,
         ServerAnswers, brokers, port
<1>2. /\ link' \in [Brokers -> {"none", "open", "closed"}]
      /\ \A b \in Brokers : (link'[b] = "none" <=> link[b] = "none")
                            /\ (link[b] = "closed" => link'[b] = "closed")
  BY OutsideLinks
<1>3. /\ context' \in [Brokers -> Context]
      /\ \A b \in Brokers : /\ Waiting(context[b]) => Waiting(context'[b])
                            /\ Expects(context[b]) => Expects(context'[b])
  BY OutsideContexts
<1>4. /\ downs' \in Nat /\ unplugs' \in Nat /\ arrivals' \in Nat /\ commands' \in Nat
      /\ flashes' \in Nat
  <2>1. /\ downs \in Nat /\ unplugs \in Nat /\ arrivals \in Nat /\ commands \in Nat
        /\ flashes \in Nat
    BY DEF PInv, TypeOK
  <2>2. /\ downs' \in {downs, downs + 1} /\ unplugs' \in {unplugs, unplugs + 1}
        /\ arrivals' \in {arrivals, arrivals + 1} /\ commands' \in {commands, commands + 1}
        /\ flashes' \in {flashes, flashes + 1}
    BY Zenon DEF Outside, ServerDown, ServerUp, Unplug, Plug, Arrive, SendCommand, SendFlash,
                 ServerAnswers, environment
  <2> QED
    BY <2>1, <2>2
<1>5. tty' \in Seq(Arrivals)
  <2>1. tty \in Seq(Arrivals)
    BY DEF PInv, TypeOK
  <2>2. CASE \E what \in Arrivals : Arrive(what)
    BY <2>1, <2>2 DEF Arrive
  <2>3. CASE tty' = tty \/ tty' = <<>>
    BY <2>1, <2>3, EmptySeq
  <2>4. ServerDown \/ ServerUp \/ Unplug \/ Plug \/ SendCommand \/ SendFlash
          => tty' = tty \/ tty' = <<>>
    BY Zenon DEF ServerDown, ServerUp, Unplug, Plug, SendCommand, SendFlash
  <2>5. \A b \in Brokers, p \in Patterns : ServerAnswers(b, p) => tty' = tty
    BY DEF ServerAnswers, environment
  <2> QED
    BY <2>2, <2>3, <2>4, <2>5 DEF Outside
<1>6. up' \in BOOLEAN /\ present' \in BOOLEAN /\ hung' \in BOOLEAN
  <2>1. up \in BOOLEAN /\ present \in BOOLEAN /\ hung \in BOOLEAN
    BY DEF PInv, TypeOK
  <2>2. up' \in {TRUE, FALSE, up} /\ present' \in {TRUE, FALSE, present}
        /\ hung' \in {sfd /= NoFd, hung}
    BY DEF Outside, ServerDown, ServerUp, Unplug, Plug, Arrive, SendCommand, SendFlash,
           ServerAnswers, environment, port
  <2> QED
    BY <2>1, <2>2
<1>7. TypeOK'
  BY <1>1, <1>2, <1>3, <1>4, <1>5, <1>6 DEF PInv, TypeOK, round, calls, fates
<1>8. Owned' /\ Placed'
  BY <1>1, <1>2 DEF PInv, Owned, Placed, round, calls
<1>9. Announced'
  <2>1. UNCHANGED <<reads, pc, ready, todo, wanted, changed>>
    BY <1>1 DEF round, calls
  <2>2. ASSUME ~ changed, pc /= "select",
               NEW k \in IF pc \in {"pipe", "subscribe", "answer"} THEN ready ELSE todo,
               NEW b \in Brokers, reads[k] = b, link'[b] /= "closed"
        PROVE  /\ WillCall(b) => Waiting(context'[b])
               /\ pc = "answer" => Caller /= b
               /\ Expects(context'[b])
    <3>1. link[b] /= "closed"
      BY <1>2, <2>2
    <3>2. /\ WillCall(b) => Waiting(context[b])
          /\ pc = "answer" => Caller /= b
          /\ Expects(context[b])
      BY <2>2, <3>1 DEF PInv, Announced
    <3>3. /\ Waiting(context[b]) => Waiting(context'[b])
          /\ Expects(context[b]) => Expects(context'[b])
      BY <1>3, Zenon
    <3> QED
      BY <3>2, <3>3, Zenon
  <2>3. reads[NoFd] \notin Brokers
    BY DEF PInv, Announced
  <2> QED
    BY <2>1, <2>2, <2>3 DEF Announced, WillCall, Caller
<1> QED
  BY <1>7, <1>8, <1>9 DEF PInv

\* Between rounds the thread stands nowhere in the table.
LEMMA TimerKeeps == ASSUME PInv, NEW b \in Brokers, ReconnectTimer(b) PROVE PInv'
<1>1. /\ sfd' = sfd /\ Reconnect(b) /\ pc = "select"
      /\ UNCHANGED <<environment, port, jobs, round, alive, changed, fates>>
  BY DEF ReconnectTimer, port
<1>2. TypeOK'
  BY <1>1, ReconnectKeeps DEF PInv, TypeOK, environment, port, round, calls, fates
<1>3. Owned' /\ Placed' /\ Announced'
  BY <1>1, ReconnectKeeps DEF PInv, Placed, Announced, port, round, calls
<1> QED
  BY <1>2, <1>3 DEF PInv

LEMMA SelectKeeps == PInv /\ Select => PInv'
<1> SUFFICES ASSUME PInv, Select PROVE PInv'
  OBVIOUS
<1>1. UNCHANGED <<environment, port, brokers, reads, jobs, current, calls, alive, changed, fates>>
  BY DEF Select
<1>2. /\ ready' \subseteq Keys /\ todo' \subseteq ready' /\ pc = "select"
      /\ pc' \in {"pipe", "reads"} /\ (pc' = "pipe" => jobs /= <<>>)
      /\ \A k \in ready' : Readable(k)
  BY DEF Select, Watched, Reported
<1>3. TypeOK'
  BY <1>1, <1>2 DEF PInv, TypeOK, environment, port, brokers, calls, fates
<1>4. Owned' /\ Placed'
  BY <1>1, <1>2 DEF PInv, Owned, Placed, port, brokers, calls
<1>5. Announced'
  <2>1. ASSUME NEW k \in ready', NEW b \in Brokers, reads[k] = b, link[b] /= "closed"
        PROVE  Waiting(context[b]) /\ Expects(context[b])
    <3>1. k \in Descriptors
      BY <1>2, <2>1 DEF PInv, Announced
    <3>2. k = sub[b] /\ k /= sfd /\ \A c \in Brokers : k = sub[c] => c = b
      BY <2>1, <3>1 DEF PInv, Owned
    <3>3. Waiting(context[b])
      BY <1>2, <2>1, <3>2 DEF Readable
    <3>4. context[b] \in Context
      BY DEF PInv, TypeOK
    <3> QED
      BY <3>3, <3>4, WaitingExpects
  <2> QED
    BY <1>1, <1>2, <2>1 DEF PInv, Announced, brokers
<1> QED
  BY <1>3, <1>4, <1>5 DEF PInv

\* One element of the pipe: what a round still has to serve is what select() reported.
LEMMA PipeKeeps == PInv /\ (ServeChunk \/ ServeMessage \/ ServeOut) => PInv'
<1> SUFFICES ASSUME PInv, ServeChunk \/ ServeMessage \/ ServeOut PROVE PInv'
  OBVIOUS
<1>a. /\ pc = "pipe" /\ jobs /= <<>> /\ jobs \in Seq(Job) /\ Fits(jobs)
      /\ UNCHANGED <<environment, port, ready, current, alive>>
  BY DEF ServeChunk, ServeMessage, ServeOut, PipeJob, PInv, Placed, TypeOK, Fits
<1>c. wanted = {} /\ pattern \in Patterns
  BY <1>a DEF PInv, Placed, TypeOK
<1>d. \/ /\ pc' = "reads" /\ todo' = Watched(reads') \cap ready /\ UNCHANGED calls
      \/ /\ pc' = "subscribe" /\ todo' = todo /\ wanted' \in SUBSET Brokers /\ wanted' /= {}
         /\ pattern' \in Patterns /\ UNCHANGED <<brokers, reads, changed>>
  BY DEF ServeChunk, ServeMessage, ServeOut, LoopBegins, Reported, Patterns
<1>b. Head(jobs) \in Job
  BY <1>a
<1>e. sfd' = sfd
  BY <1>a DEF port
<1>1. /\ sub' \in [Brokers -> Keys] /\ pub' \in [Brokers -> Keys]
      /\ link' \in [Brokers -> {"none", "open", "closed"}]
      /\ context' \in [Brokers -> Context]
      /\ reads' \in [Keys -> Brokers \cup {"session", Nobody}]
      /\ changed' \in BOOLEAN
      /\ Owned' /\ reads'[NoFd] \notin Brokers
      /\ changed' \/ UNCHANGED <<context, link, reads, changed>>
  <2>1. CASE Transmit
    BY <1>e, <2>1, TransmitKeeps DEF brokers
  <2>2. CASE UNCHANGED <<brokers, reads, changed>>
    BY <1>e, <2>2 DEF PInv, TypeOK, Owned, Announced, brokers
  <2>3. ServeMessage => Transmit \/ UNCHANGED <<brokers, reads, changed>>
    BY DEF ServeMessage
  <2> QED
    BY <2>1, <2>2, <2>3 DEF ServeChunk, ServeOut
<1>2. Fits(jobs') /\ dealt' \subseteq Nat /\ swallowed' \subseteq Nat
  <2>1. Fits(Tail(jobs)) /\ dealt \subseteq Nat /\ swallowed \subseteq Nat
    BY <1>a, TailFits DEF PInv, TypeOK
  <2>2. CASE jobs' = Tail(jobs)
    BY <1>b, <2>1, <2>2 DEF ServeChunk, ServeMessage, ServeOut, Job, fates
  <2>3. CASE jobs' = Enqueued(Tail(jobs), "message", Head(jobs).what, 0) /\ UNCHANGED fates
    <3>1. "message" \in Flows /\ 0 \in Nat /\ Head(jobs).what \in Arrivals \cup {"command"}
      BY <1>b DEF Flows, Job
    <3> QED
      BY <2>1, <2>3, <3>1, EnqueuedFits DEF fates
  <2> QED
    BY <2>2, <2>3 DEF ServeChunk, ServeMessage, ServeOut
<1>3. TypeOK'
  <2>1. todo' \subseteq Keys
    BY <1>a, <1>d DEF PInv, TypeOK, Watched
  <2>2. wanted' \subseteq Brokers /\ pattern' \in Patterns
    BY <1>c, <1>d DEF calls
  <2> QED
    BY <1>a, <1>d, <1>1, <1>2, <2>1, <2>2 DEF PInv, TypeOK, environment, port, Fits
<1>4. Placed'
  BY <1>c, <1>d DEF Placed, calls
<1>5. Announced'
  <2>1. CASE changed'
    BY <1>1, <2>1 DEF Announced
  <2>2. CASE UNCHANGED <<context, link, reads, changed>>
    <3>1. ASSUME ~ changed, NEW k \in ready, NEW b \in Brokers, reads[k] = b, link[b] /= "closed"
          PROVE  Waiting(context[b]) /\ Expects(context[b])
      <4>1. Waiting(context[b])
        BY <1>a, <3>1 DEF PInv, Announced, WillCall
      <4> QED
        BY <4>1, WaitingExpects DEF PInv, TypeOK
    <3> QED
      BY <1>a, <1>d, <1>1, <2>2, <3>1 DEF Announced
  <2> QED
    BY <1>1, <2>1, <2>2
<1> QED
  BY <1>1, <1>3, <1>4, <1>5 DEF PInv

\* subscribe() touches nothing but the context of its broker.
LEMMA SubscribeTypes ==
  ASSUME PInv, Subscribe \/ SubscribeReturns
  PROVE  /\ UNCHANGED <<environment, port, sub, pub, link, reads, jobs, ready, current, alive,
                         changed, dealt>>
         /\ Caller \in wanted /\ pc \in {"subscribe", "answer"} /\ pattern \in Patterns
         /\ context' \in [Brokers -> Context]
         /\ \A b \in Brokers \ {Caller} : context'[b] = context[b]
         /\ swallowed' \subseteq Nat
<1>1. context \in [Brokers -> Context] /\ swallowed \subseteq Nat /\ pattern \in Patterns
      /\ wanted \subseteq Brokers
  BY DEF PInv, TypeOK
<1>2. pc \in {"subscribe", "answer"} /\ wanted /= {}
  BY DEF Subscribe, SubscribeReturns, PInv, Placed
<1>3. Caller \in wanted /\ Caller \in Brokers
  BY <1>1, <1>2 DEF Caller
<1>4. ASSUME NEW c \in Context, TakeFor(Caller, c)
      PROVE  /\ context' \in [Brokers -> Context]
             /\ \A b \in Brokers \ {Caller} : context'[b] = context[b]
             /\ swallowed' \subseteq Nat
  <2>1. PICK got \in Read(c) :
          /\ context' = [context EXCEPT ![Caller] = got.context]
          /\ swallowed' = swallowed \cup IF Caller = "broker" THEN {got.reply} \ {Answer} ELSE {}
    BY <1>4 DEF TakeFor
  <2>2. got.reply \in Nat /\ got.context \in Context
    BY ReadReturns
  <2> QED
    BY <1>1, <1>3, <2>1, <2>2
<1>5. Asked(context[Caller], pattern) \in Context /\ context[Caller] \in Context
  BY <1>1, <1>3, AskedKeeps
<1>6. /\ context' \in [Brokers -> Context]
      /\ \A b \in Brokers \ {Caller} : context'[b] = context[b]
      /\ swallowed' \subseteq Nat
  <2>1. CASE TakeFor(Caller, Asked(context[Caller], pattern)) \/ TakeFor(Caller, context[Caller])
    BY <1>4, <1>5, <2>1
  <2>2. CASE UNCHANGED <<context, swallowed>>
    BY <1>1, <2>2
  <2>3. CASE /\ context' = [context EXCEPT ![Caller] = Written(Asked(context[Caller], pattern))]
             /\ UNCHANGED swallowed
    BY <1>1, <1>3, <1>5, <2>3, WrittenKeeps
  <2> QED
    BY <2>1, <2>2, <2>3 DEF Subscribe, SubscribeReturns
<1>7. UNCHANGED <<environment, port, sub, pub, link, reads, jobs, ready, current, alive,
                  changed, dealt>>
  BY DEF Subscribe, SubscribeReturns
<1> QED
  BY <1>1, <1>2, <1>3, <1>6, <1>7

\* A broker whose descriptor was reported has its message taken, and is owed an answer then;
\* its redisCommand never has to wait.
LEMMA SubscribeKeeps == PInv /\ (Subscribe \/ SubscribeReturns) => PInv'
<1> SUFFICES ASSUME PInv, Subscribe \/ SubscribeReturns PROVE PInv'
  OBVIOUS
<1>1. /\ UNCHANGED <<environment, port, sub, pub, link, reads, jobs, ready, current, alive,
                      changed, dealt>>
      /\ Caller \in wanted /\ pc \in {"subscribe", "answer"} /\ pattern \in Patterns
      /\ context' \in [Brokers -> Context]
      /\ \A b \in Brokers \ {Caller} : context'[b] = context[b]
      /\ swallowed' \subseteq Nat
  BY SubscribeTypes
<1>2. wanted \subseteq Brokers /\ todo \subseteq Keys /\ ready \subseteq Keys
      /\ context \in [Brokers -> Context]
  BY DEF PInv, TypeOK
<1>3. \/ Return
      \/ /\ pc = "subscribe" /\ link[Caller] = "open" /\ context[Caller].replies = <<>>
         /\ pc' = "answer" /\ UNCHANGED <<todo, calls>>
  <2>1. Asked(context[Caller], pattern).replies = context[Caller].replies
    BY <1>1, <1>2, AskedKeeps
  <2> QED
    BY <2>1 DEF Subscribe, SubscribeReturns
<1>4. /\ wanted' \subseteq wanted /\ pattern' \in Patterns
      /\ \/ pc' = "reads" /\ todo' \subseteq ready /\ wanted' = {}
         \/ pc' = "subscribe" /\ todo' = todo /\ wanted' /= {} /\ Caller \notin wanted'
         \/ /\ pc = "subscribe" /\ link[Caller] = "open" /\ context[Caller].replies = <<>>
            /\ pc' = "answer" /\ todo' = todo /\ wanted' = wanted
  BY <1>1, <1>3 DEF Return, LoopBegins, Reported, calls, Patterns
<1>5. TypeOK'
  BY <1>1, <1>2, <1>4 DEF PInv, TypeOK, environment, port
<1>6. Owned' /\ Placed'
  BY <1>1, <1>4 DEF PInv, Owned, Placed, port
<1>7. Announced'
  <2>1. ASSUME ~ changed, NEW k \in ready, NEW b \in Brokers, reads[k] = b, link[b] /= "closed"
        PROVE  /\ b \in wanted' => b /= Caller /\ Waiting(context'[b])
               /\ pc' = "answer" => Caller' /= b
               /\ Expects(context'[b])
    <3>1. /\ b \in wanted /\ ~ (pc = "answer" /\ Caller = b) => Waiting(context[b])
          /\ pc = "answer" => Caller /= b
          /\ Expects(context[b])
      BY <1>1, <2>1 DEF PInv, Announced, WillCall
    <3>2. context[b] \in Context
      BY <1>2
    <3>3. CASE b /= Caller
      <4>1. pc' = "answer" => Caller' = Caller
        BY <1>4 DEF Caller
      <4> QED
        BY <1>1, <1>4, <3>1, <3>3, <4>1
    <3>4. CASE b = Caller
      <4>1. pc = "subscribe" /\ Waiting(context[b])
        BY <1>1, <3>1, <3>4
      <4>2. context[b].replies /= <<>>
        BY <3>2, <4>1, ContextParts DEF Waiting
      <4>3. pc' /= "answer" /\ b \notin wanted'
        BY <1>4, <3>4, <4>2
      <4>4. Subscribe
        BY <4>1 DEF SubscribeReturns
      <4>5. TakeFor(b, Asked(context[b], pattern)) \/ UNCHANGED context
        BY <3>4, <4>3, <4>4 DEF Subscribe
      <4>6. CASE TakeFor(b, Asked(context[b], pattern))
        <5>1. PICK got \in Read(Asked(context[b], pattern)) :
                context' = [context EXCEPT ![b] = got.context]
          BY <4>6 DEF TakeFor
        <5>2. Expects(got.context)
          BY <1>1, <3>2, <4>1, TakenFromReported
        <5> QED
          BY <1>2, <4>3, <5>1, <5>2
      <4>7. CASE UNCHANGED context
        BY <3>1, <4>3, <4>7
      <4> QED
        BY <4>5, <4>6, <4>7
    <3> QED
      BY <3>3, <3>4
  <2>2. reads'[NoFd] \notin Brokers
    BY <1>1 DEF PInv, Announced
  <2>3. pc' \in {"reads", "subscribe", "answer"} /\ (pc' = "reads" => todo' \subseteq ready)
    BY <1>4
  <2>4. \A b \in Brokers : WillCall(b)' => b \in wanted'
    BY <2>3 DEF WillCall
  <2> QED
    BY <1>1, <2>1, <2>2, <2>3, <2>4 DEF Announced
<1> QED
  BY <1>5, <1>6, <1>7 DEF PInv

\* What was reported for a broker is its subscriber's descriptor, and no other.
LEMMA BrokersDescriptor ==
  ASSUME PInv, NEW k \in Keys, NEW b \in Brokers, reads[k] = b
  PROVE  k \in Descriptors /\ k = sub[b] /\ k /= sfd
<1>1. k \in Descriptors
  BY DEF PInv, Announced
<1> QED
  BY <1>1 DEF PInv, Owned

\* A read invoker that reads: a chunk, a command or a flash image.
LEMMA SessionInvokeKeeps == PInv /\ SessionInvoke => PInv'
<1> SUFFICES ASSUME PInv, SessionInvoke PROVE PInv'
  OBVIOUS
<1>1. /\ pc = "reads" /\ todo' \subseteq todo
      /\ UNCHANGED <<up, downs, present, unplugs, arrivals, commands, flashes, port, brokers,
                     reads, pc, ready, current, calls, alive, changed, fates>>
  BY DEF SessionInvoke, Take
<1>2. tty' \in Seq(Arrivals) /\ Fits(jobs')
  <2>1. tty \in Seq(Arrivals) /\ Fits(jobs)
    BY DEF PInv, TypeOK, Fits
  <2>2. CASE tty = <<>>
    BY <2>1, <2>2 DEF SessionInvoke
  <2>3. CASE tty /= <<>>
    <3>1. tty' = Tail(tty) /\ jobs' = Enqueued(jobs, "chunk", Head(tty), 0)
      BY <2>3 DEF SessionInvoke
    <3>2. Head(tty) \in Arrivals /\ Tail(tty) \in Seq(Arrivals) /\ "chunk" \in Flows /\ 0 \in Nat
      BY <2>1, <2>3 DEF Flows
    <3> QED
      BY <2>1, <3>1, <3>2, EnqueuedFits
  <2> QED
    BY <2>2, <2>3
<1>3. TypeOK'
  BY <1>1, <1>2 DEF PInv, TypeOK, Fits, port, brokers, calls, fates
<1>4. Owned' /\ Placed'
  BY <1>1 DEF PInv, Owned, Placed, port, brokers, calls
<1>5. Announced'
  BY <1>1 DEF PInv, Placed, Announced, WillCall, brokers, calls
<1> QED
  BY <1>3, <1>4, <1>5 DEF PInv

LEMMA ReceiveTypes ==
  ASSUME PInv, NEW b \in Brokers, Receive(b)
  PROVE  /\ context' \in [Brokers -> Context]
         /\ \A c \in Brokers \ {b} : context'[c] = context[c]
         /\ Fits(jobs') /\ dealt' \subseteq Nat /\ pc' \in {"reads", "flash"}
         /\ UNCHANGED <<sub, pub, link, reads, alive, changed, swallowed>>
<1>1. context \in [Brokers -> Context] /\ Fits(jobs) /\ dealt \subseteq Nat
  BY DEF PInv, TypeOK, Fits
<1>2. PICK got \in Read(context[b]) :
        LET n == got.reply
        IN /\ context' = [context EXCEPT ![b] = got.context]
           /\ jobs' = IF n /= Answer /\ b = "broker" THEN Enqueued(jobs, "out", "command", n)
                      ELSE jobs
           /\ dealt' = IF n /= Answer /\ b = "broker" /\ jobs' = jobs THEN dealt \cup {n}
                       ELSE dealt
           /\ pc' = IF n /= Answer /\ b = "brokerProxy" THEN "flash" ELSE "reads"
  BY DEF Receive
<1>3. got.reply \in Nat /\ got.context \in Context
  BY <1>1, ReadReturns
<1>4. "out" \in Flows /\ "command" \in Arrivals \cup {"command"}
  BY DEF Flows
<1>5. Fits(jobs')
  BY <1>1, <1>2, <1>3, <1>4, EnqueuedFits
<1>6. context' \in [Brokers -> Context] /\ \A c \in Brokers \ {b} : context'[c] = context[c]
  BY <1>1, <1>2, <1>3
<1>7. dealt' \subseteq Nat /\ pc' \in {"reads", "flash"}
  BY <1>1, <1>2, <1>3
<1> QED
  BY <1>5, <1>6, <1>7 DEF Receive

\* Whatever has become of the loop after a broker has reconnected, the round has changed.
LEMMA FailKeeps ==
  ASSUME PInv, NEW b \in Brokers, Fail(b), current' \in Keys,
         pc \in {"reads", "blocked"}, UNCHANGED <<environment, port, ready, calls>>
  PROVE  PInv'
<1>1. Reconnect(b) /\ changed' = TRUE /\ pc' = "reads" /\ UNCHANGED <<jobs, fates>>
      /\ todo' \subseteq ready /\ alive' \in BOOLEAN /\ sfd' = sfd
  BY DEF Fail, Reported, port
<1>2. TypeOK'
  BY <1>1, ReconnectKeeps DEF PInv, TypeOK, environment, port, calls, fates
<1>3. Owned' /\ Placed' /\ Announced'
  BY <1>1, ReconnectKeeps DEF PInv, Placed, Announced, calls
<1> QED
  BY <1>2, <1>3 DEF PInv

LEMMA BrokerInvokeKeeps ==
  ASSUME PInv, NEW b \in Brokers, BrokerInvoke(b)
  PROVE  PInv' /\ BlocksOnlyAfterChange'
<1>1. PICK k \in todo :
        /\ Take(k, b)
        /\ \/ Receive(b) /\ todo' = todo \ {k} /\ UNCHANGED current
           \/ link[b] = "closed" /\ Fail(b) /\ UNCHANGED current
           \/ /\ link[b] = "open" /\ context[b].replies = <<>>
              /\ context' = [context EXCEPT ![b] = Written(context[b])]
              /\ pc' = "blocked" /\ todo' = todo \ {k} /\ current' = k
              /\ UNCHANGED <<sub, pub, link, reads, jobs, alive, changed, fates>>
  BY DEF BrokerInvoke
<1>2. /\ pc = "reads" /\ reads[k] = b /\ UNCHANGED <<environment, port, ready, calls>>
      /\ k \in Keys /\ current \in Keys /\ todo \subseteq Keys /\ wanted = {}
      /\ context \in [Brokers -> Context]
  BY <1>1 DEF Take, BrokerInvoke, PInv, Placed, TypeOK
<1>a. \A j \in todo \ {k} : reads[j] /= b
  BY <1>2, BrokersDescriptor
<1>3. CASE Receive(b) /\ todo' = todo \ {k} /\ UNCHANGED current
  <2>1. TypeOK'
    BY <1>2, <1>3, ReceiveTypes DEF PInv, TypeOK, Fits, environment, port, calls
  <2>a. UNCHANGED <<sfd, sub, pub, link, reads, changed>> /\ pc' \in {"reads", "flash"}
    BY <1>2, <1>3, ReceiveTypes DEF port
  <2>2. Owned' /\ Placed'
    BY <1>2, <2>a DEF PInv, Owned, Placed, calls
  <2>4. Announced'
    BY <1>2, <1>3, <1>a, ReceiveTypes DEF PInv, Announced, WillCall, calls
  <2>5. BlocksOnlyAfterChange'
    BY <1>3, ReceiveTypes DEF BlocksOnlyAfterChange
  <2> QED
    BY <2>1, <2>2, <2>4, <2>5 DEF PInv
<1>4. CASE Fail(b) /\ UNCHANGED current
  <2>1. PInv'
    BY <1>2, <1>4, FailKeeps
  <2> QED
    BY <1>4, <2>1 DEF Fail, BlocksOnlyAfterChange
<1>5. CASE /\ link[b] = "open" /\ context[b].replies = <<>>
           /\ context' = [context EXCEPT ![b] = Written(context[b])]
           /\ pc' = "blocked" /\ todo' = todo \ {k} /\ current' = k
           /\ UNCHANGED <<sub, pub, link, reads, jobs, alive, changed, fates>>
  <2>1. /\ context' \in [Brokers -> Context]
        /\ \A c \in Brokers \ {b} : context'[c] = context[c]
        /\ Expects(context[b]) => Expects(context'[b])
    <3>1. /\ Written(context[b]) \in Context
          /\ Expects(context[b]) => Expects(Written(context[b]))
      BY <1>2, WrittenKeeps DEF Expects
    <3> QED
      BY <1>2, <1>5, <3>1
  <2>2. TypeOK'
    BY <1>2, <1>5, <2>1 DEF PInv, TypeOK, environment, port, calls, fates
  <2>3. Owned' /\ Placed'
    BY <1>2, <1>5 DEF PInv, Owned, Placed, port, calls
  <2>4. Announced'
    BY <1>2, <1>5, <1>a, <2>1 DEF PInv, Announced, WillCall, calls
  <2>5. ~ changed => Expects(context[b])
    BY <1>2, <1>5 DEF PInv, Announced
  <2>6. BlocksOnlyAfterChange'
    BY <1>2, <1>5, <2>1, <2>5 DEF BlocksOnlyAfterChange
  <2> QED
    BY <2>2, <2>3, <2>4, <2>6 DEF PInv
<1> QED
  BY <1>1, <1>3, <1>4, <1>5

LEMMA UnblockKeeps ==
  ASSUME PInv, NEW b \in Brokers, Unblock(b)
  PROVE  PInv' /\ BlocksOnlyAfterChange'
<1>1. /\ pc = "blocked" /\ current' = NoFd /\ wanted = {} /\ reads[current] = b
      /\ current \in Keys /\ todo \subseteq Keys /\ current \notin todo
      /\ UNCHANGED <<environment, port, ready, calls>>
  BY DEF Unblock, PInv, Placed, TypeOK
<1>2. CASE Receive(b) /\ UNCHANGED todo
  <2>1. TypeOK'
    BY <1>1, <1>2, ReceiveTypes DEF PInv, TypeOK, Fits, environment, port, calls
  <2>2. UNCHANGED <<sfd, sub, pub, link, reads, changed>> /\ pc' \in {"reads", "flash"}
    BY <1>1, <1>2, ReceiveTypes DEF port
  <2>3. Owned' /\ Placed' /\ BlocksOnlyAfterChange'
    BY <1>1, <2>2 DEF PInv, Owned, Placed, BlocksOnlyAfterChange, calls
  <2>4. Announced'
    <3>1. \A j \in todo : reads[j] /= b
      BY <1>1, BrokersDescriptor
    <3> QED
      BY <1>1, <1>2, <3>1, ReceiveTypes DEF PInv, Announced, WillCall, calls
  <2> QED
    BY <2>1, <2>3, <2>4 DEF PInv
<1>3. CASE Fail(b)
  <2>1. current' \in Keys
    BY <1>1
  <2>2. PInv'
    BY <1>1, <1>3, <2>1, FailKeeps
  <2> QED
    BY <1>3, <2>2 DEF Fail, BlocksOnlyAfterChange
<1> QED
  BY <1>2, <1>3 DEF Unblock

-------------------------------------------------------------------------------
(* The flash handler *)

\* The session's descriptor leaves the table with its invoker.
LEMMA FlashDisconnectKeeps == PInv /\ FlashDisconnect => PInv'
<1> SUFFICES ASSUME PInv, FlashDisconnect PROVE PInv'
  OBVIOUS
<1>1. /\ sfd' = NoFd /\ hung' = FALSE /\ reads' = Erase(reads, sfd) /\ wanted = {}
      /\ pc' = "program" /\ tty' = <<>> /\ todo' \subseteq todo /\ pc = "flash"
      /\ UNCHANGED <<up, downs, present, unplugs, arrivals, commands, flashes, brokers, jobs,
                     ready, current, calls, alive, changed, fates>>
  BY DEF FlashDisconnect, SessionDisconnect, PortClosed, PInv, Placed
<1>2. /\ reads' \in [Keys -> Brokers \cup {"session", Nobody}]
      /\ \A k \in Keys : reads'[k] = IF k = sfd THEN Nobody ELSE reads[k]
  BY <1>1 DEF PInv, TypeOK, Erase
<1>3. TypeOK'
  BY <1>1, <1>2, EmptySeq DEF PInv, TypeOK, brokers, calls, fates
<1>4. Owned'
  <2>1. \A k \in Descriptors : /\ reads'[k] /= "session"
                              /\ \A b \in Brokers : reads'[k] = b <=> k = sub[b]
    BY <1>2 DEF PInv, Owned
  <2> QED
    BY <1>1, <2>1 DEF PInv, Owned, brokers
<1>5. Placed'
  BY <1>1 DEF Placed, calls
<1>6. Announced'
  <2>1. todo \subseteq Keys /\ \A k \in Keys, b \in Brokers : reads'[k] = b => reads[k] = b
    BY <1>2 DEF PInv, TypeOK
  <2> QED
    BY <1>1, <2>1 DEF PInv, Announced, WillCall, brokers, calls
<1> QED
  BY <1>3, <1>4, <1>5, <1>6 DEF PInv

\* The port is opened under a number nobody holds, so that its invoker finds a free place.
LEMMA FlashReconnectKeeps == PInv /\ FlashReconnect => PInv'
<1> SUFFICES ASSUME PInv, FlashReconnect PROVE PInv'
  OBVIOUS
<1>1. /\ sfd = NoFd /\ pc = "reopen" /\ pc' = "reads"
      /\ sfd' = (IF present THEN Lowest(Used) ELSE NoFd)
      /\ reads' = Emplace(reads, sfd', "session") /\ alive' \in {TRUE, present}
      /\ todo' \subseteq todo \cup {sfd'} /\ hung' = FALSE /\ wanted = {}
      /\ UNCHANGED <<environment, brokers, jobs, ready, current, calls, changed, fates>>
  BY DEF FlashReconnect, SessionConnect, PInv, Placed
<1>2. sfd' \in Keys /\ (sfd' /= NoFd => sfd' \in Descriptors \ Used)
  <2>1. Used \subseteq {sub["broker"], sub["brokerProxy"], pub["broker"], pub["brokerProxy"]}
    BY <1>1 DEF Used
  <2>2. Lowest(Used) \in Descriptors \ Used
    BY <2>1, LowestIsFree
  <2> QED
    BY <1>1, <2>2
<1>3. /\ reads' \in [Keys -> Brokers \cup {"session", Nobody}]
      /\ \A k \in Keys : k /= sfd' => reads'[k] = reads[k]
      /\ sfd' /= NoFd => reads'[sfd'] = "session"
      /\ reads'[NoFd] \notin Brokers
  <2>1. sfd' /= NoFd => reads[sfd'] = Nobody
    <3>1. SUFFICES ASSUME sfd' /= NoFd PROVE reads[sfd'] = Nobody
      OBVIOUS
    <3>2. \A b \in Brokers : sfd' /= sub[b]
      BY <1>2, <3>1 DEF Used
    <3>3. reads[sfd'] /= "session" /\ \A b \in Brokers : reads[sfd'] /= b
      BY <1>1, <1>2, <3>1, <3>2 DEF PInv, Owned
    <3> QED
      BY <1>2, <3>3 DEF PInv, TypeOK
  <2>2. reads \in [Keys -> Brokers \cup {"session", Nobody}] /\ reads[NoFd] \notin Brokers
    BY DEF PInv, TypeOK, Announced
  <2> QED
    BY <1>1, <1>2, <2>1, <2>2 DEF Emplace
<1>4. TypeOK'
  <2>1. alive' \in BOOLEAN
    BY <1>1 DEF PInv, TypeOK
  <2>2. todo' \subseteq Keys
    BY <1>1, <1>2 DEF PInv, TypeOK
  <2> QED
    BY <1>1, <1>2, <1>3, <2>1, <2>2 DEF PInv, TypeOK, environment, brokers, calls, fates
<1>5. Owned'
  <2>1. ASSUME NEW k \in Descriptors
        PROVE  /\ reads'[k] = "session" <=> k = sfd'
               /\ \A b \in Brokers : reads'[k] = b <=> k = sub[b]
    <3>1. CASE k = sfd'
      BY <1>2, <1>3, <3>1 DEF Used
    <3>2. CASE k /= sfd'
      BY <1>1, <1>3, <3>2 DEF PInv, Owned
    <3> QED
      BY <3>1, <3>2
  <2>2. \A b \in Brokers : pub[b] /= sfd' \/ pub[b] = NoFd
    BY <1>2 DEF Used
  <2> QED
    BY <1>1, <2>1, <2>2 DEF PInv, Owned, brokers
<1>6. Placed' /\ Announced'
  <2>1. \A k \in todo', b \in Brokers : reads'[k] = b => k \in todo /\ reads[k] = b
    BY <1>1, <1>2, <1>3 DEF PInv, TypeOK
  <2> QED
    BY <1>1, <1>3, <2>1 DEF PInv, Placed, Announced, WillCall, brokers, calls
<1> QED
  BY <1>4, <1>5, <1>6 DEF PInv

LEMMA ProgramAndRoundOverKeep == PInv /\ (FlashProgram \/ RoundOver) => PInv'
<1> SUFFICES ASSUME PInv, FlashProgram \/ RoundOver PROVE PInv'
  OBVIOUS
<1>1. /\ UNCHANGED <<environment, port, brokers, reads, jobs, todo, current, calls, alive, fates>>
      /\ wanted = {}
      /\ \/ pc = "program" /\ pc' = "reopen" /\ UNCHANGED <<ready, changed>>
         \/ pc' = "select" /\ ready' = {} /\ changed' = FALSE
  BY DEF FlashProgram, RoundOver, PInv, Placed
<1>2. TypeOK'
  BY <1>1 DEF PInv, TypeOK, environment, port, brokers, calls, fates
<1>3. Owned' /\ Placed'
  BY <1>1 DEF PInv, Owned, Placed, port, brokers, calls
<1>4. Announced'
  BY <1>1 DEF PInv, Announced, WillCall, brokers, calls
<1> QED
  BY <1>2, <1>3, <1>4 DEF PInv

-------------------------------------------------------------------------------
(* Every step *)

\* BlocksOnlyAfterChange is not inductive by itself: that the message was there, or an answer
\* is owed in its place, is what Announced says.
Safe == PInv /\ BlocksOnlyAfterChange

LEMMA StepKeeps == Safe /\ [Next]_vars => Safe'
<1> SUFFICES ASSUME Safe, [Next]_vars PROVE Safe'
  OBVIOUS
<1>a. PInv /\ BlocksOnlyAfterChange
  BY DEF Safe
<1>1. CASE UNCHANGED vars
  <2> USE <1>1 DEF vars, environment, port, brokers, calls, round, fates
  <2>1. TypeOK'
    BY <1>a DEF PInv, TypeOK
  <2>2. Owned' /\ Placed'
    BY <1>a DEF PInv, Owned, Placed
  <2>3. Announced' /\ BlocksOnlyAfterChange'
    BY <1>a DEF PInv, Announced, WillCall, Caller, BlocksOnlyAfterChange
  <2> QED
    BY <2>1, <2>2, <2>3 DEF Safe, PInv
<1>2. CASE Outside
  <2>1. UNCHANGED <<reads, pc, current, changed>>
    BY <1>2 DEF Outside, ServerDown, ServerUp, Unplug, Plug, Arrive, SendCommand, SendFlash,
                ServerAnswers, round
  <2>2. BlocksOnlyAfterChange'
    <3>1. SUFFICES ASSUME pc = "blocked", ~ changed
                   PROVE  \E b \in Brokers :
                            reads[current] = b /\ (link'[b] = "closed" \/ Expects(context'[b]))
      BY <2>1 DEF BlocksOnlyAfterChange
    <3>2. PICK b \in Brokers : reads[current] = b /\ (link[b] = "closed" \/ Expects(context[b]))
      BY <1>a, <3>1 DEF BlocksOnlyAfterChange
    <3>3. /\ link[b] = "closed" => link'[b] = "closed"
          /\ Expects(context[b]) => Expects(context'[b])
      BY <1>a, <1>2, OutsideLinks, OutsideContexts, Zenon
    <3> QED
      BY <3>2, <3>3, Zenon
  <2> QED
    BY <1>a, <1>2, <2>2, OutsideKeeps DEF Safe
<1>3. ASSUME NEW b \in Brokers, ReconnectTimer(b) PROVE Safe'
  <2>1. pc' = "select"
    BY <1>3 DEF ReconnectTimer, round
  <2> QED
    BY <1>a, <1>3, <2>1, TimerKeeps DEF Safe, BlocksOnlyAfterChange
<1>4. ASSUME NEW b \in Brokers, BrokerInvoke(b) \/ Unblock(b) PROVE Safe'
  BY <1>a, <1>4, BrokerInvokeKeeps, UnblockKeeps DEF Safe
<1>5. CASE \/ Select \/ ServeChunk \/ ServeMessage \/ ServeOut \/ SessionInvoke \/ RoundOver
           \/ Subscribe \/ SubscribeReturns \/ FlashDisconnect \/ FlashProgram \/ FlashReconnect
  <2>1. PInv'
    BY <1>a, <1>5, SelectKeeps, PipeKeeps, SubscribeKeeps, SessionInvokeKeeps, FlashDisconnectKeeps,
       FlashReconnectKeeps, ProgramAndRoundOverKeep
  <2>2. pc' /= "blocked"
    BY <1>5 DEF Select, ServeChunk, ServeMessage, ServeOut, LoopBegins, Subscribe, Return,
                SubscribeReturns, SessionInvoke, Take, RoundOver, FlashDisconnect, FlashProgram,
                FlashReconnect
  <2> QED
    BY <2>1, <2>2 DEF Safe, BlocksOnlyAfterChange
<1> QED
  BY <1>1, <1>2, <1>3, <1>4, <1>5 DEF Next, Step

LEMMA SafeAlways == Spec => []Safe
<1>1. Init => Safe
  BY InitEstablishes DEF Init, Safe, BlocksOnlyAfterChange
<1> QED
  BY <1>1, StepKeeps, PTL DEF Spec

\* Whatever closes, opens and watches descriptors, each is watched for its owner and no
\* other; and as long as nothing did so in a round, a broker that was reported has a reply
\* to come, if not the one that was reported (SessionSerial.cpp:38-49,
\* BrokerRedis.cpp:96-162, serialProxy.cpp:281-285).
THEOREM ProxyInvariance == Spec => []PInv
<1>1. Safe => PInv
  BY DEF Safe
<1> QED
  BY <1>1, SafeAlways, PTL

\* Only in a round in which a broker has reconnected may a callback wait for a reply that
\* will not come (linux/src/limero.cpp:77-86, BrokerRedis.cpp:106-123, 151).
THEOREM BlockingExcused == Spec => []BlocksOnlyAfterChange
<1>1. Safe => BlocksOnlyAfterChange
  BY DEF Safe
<1> QED
  BY <1>1, SafeAlways, PTL
================================================================================
