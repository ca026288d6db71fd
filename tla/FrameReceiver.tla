---------------------------- MODULE FrameReceiver ----------------------------
(***************************************************************************)
(* BytesToFrame (common/src/Frame.cpp), which finds the frames in what     *)
(* arrives on a serial line, and the line it listens to.  The device sends *)
(* its messages framed, and prints text on the same line in between; the   *)
(* line loses octets (the sender's tcflush, the receiver's full queue),    *)
(* damages them, and hands over what is there in chunks of any size, any   *)
(* time apart.                                                             *)
(***************************************************************************)
EXTENDS PppFrame, FiniteSets

CONSTANTS Messages,      \* the payloads sent, in this order, all different
          Texts,         \* what the device prints
          FrameTimeout,  \* _frameTimeout, in ticks
          MaxTexts,      \* bound on the texts printed
          MaxFaults      \* bound on octets damaged and runs of octets lost

ASSUME TimeoutAssumption == FrameTimeout \in Nat
ASSUME MessagesAssumption == Messages \in Seq(Seq(Octets) \ {<<>>})
ASSUME LineAssumption == /\ \A text \in Texts : text \in Seq(Octets)
                         /\ MaxTexts \in Nat /\ MaxFaults \in Nat

VARIABLES sent,        \* messages sent so far
          texts, faults,
          line,        \* what is on the line: octets, each with the message it belongs to
          last,        \* the message the last octet off the line belonged to
          spoiled,     \* messages that lost or changed an octet, or came too slowly
          inputFrame,  \* _inputFrame
          owners,      \* the messages its octets belong to
          age,         \* Sys::millis() - _lastFrameFlag, as far as it matters
          emitted      \* what was emitted, each with the messages its octets belonged to

vars == <<sent, texts, faults, line, last, spoiled, inputFrame, owners, age, emitted>>

Text == 0               \* the owner of octets that belong to no message
Late == FrameTimeout + 1
Owners == 0 .. Len(Messages)

TypeOK ==
  /\ sent \in Owners /\ last \in Owners
  /\ texts \in 0 .. MaxTexts /\ faults \in 0 .. MaxFaults
  /\ line \in Seq([octet : Octets, owner : Owners])
  /\ spoiled \subseteq 1 .. sent
  /\ inputFrame \in Seq(Octets \ {Flag}) /\ owners \subseteq Owners
  /\ age \in 0 .. Late
  /\ emitted \in Seq([payload : Seq(Octets), owners : SUBSET Owners])

\* _lastFrameFlag is not initialised: it may be any time ago.
Init ==
  /\ sent = 0 /\ texts = 0 /\ faults = 0
  /\ line = <<>> /\ last = Text /\ spoiled = {}
  /\ inputFrame = <<>> /\ owners = {}
  /\ age \in 0 .. Late
  /\ emitted = <<>>

Owned(octets, m) == [k \in DOMAIN octets |-> [octet |-> octets[k], owner |-> m]]
OwnersOf(s) == {s[k].owner : k \in DOMAIN s} \ {Text}

-------------------------------------------------------------------------------
(* The device and the line *)

SendFrame ==
  /\ sent < Len(Messages)
  /\ sent' = sent + 1
  /\ line' = line \o Owned(ppp_frame(Messages[sent + 1]), sent + 1)
  /\ UNCHANGED <<texts, faults, last, spoiled, inputFrame, owners, age, emitted>>

PrintText(text) ==
  /\ texts < MaxTexts
  /\ texts' = texts + 1
  /\ line' = line \o Owned(text, Text)
  /\ UNCHANGED <<sent, faults, last, spoiled, inputFrame, owners, age, emitted>>

\* tcflush throws away the end of what was written.
FlushOutput(n) ==
  /\ faults < MaxFaults /\ n <= Len(line)
  /\ faults' = faults + 1
  /\ spoiled' = spoiled \cup OwnersOf(SubSeq(line, n, Len(line)))
  /\ line' = SubSeq(line, 1, n - 1)
  /\ UNCHANGED <<sent, texts, last, inputFrame, owners, age, emitted>>

\* A chunk is dropped on its way to the receiver.
DropChunk(n) ==
  /\ faults < MaxFaults /\ n <= Len(line)
  /\ faults' = faults + 1
  /\ spoiled' = spoiled \cup OwnersOf(SubSeq(line, 1, n))
  /\ line' = SubSeq(line, n + 1, Len(line))
  /\ last' = line[n].owner
  /\ UNCHANGED <<sent, texts, inputFrame, owners, age, emitted>>

DamageOctet(n, octet) ==
  /\ faults < MaxFaults /\ n <= Len(line)
  /\ octet /= line[n].octet
  /\ faults' = faults + 1
  /\ spoiled' = spoiled \cup OwnersOf(SubSeq(line, n, n))
  /\ line' = [line EXCEPT ![n].octet = octet]
  /\ UNCHANGED <<sent, texts, last, inputFrame, owners, age, emitted>>

\* A message stalls when time runs out between its first octet and its last.
Tick ==
  /\ age < Late
  /\ age' = age + 1
  /\ spoiled' = spoiled \cup IF age' = Late /\ line /= <<>> /\ Head(line).owner = last
                             THEN {last} \ {Text} ELSE {}
  /\ UNCHANGED <<sent, texts, faults, line, last, inputFrame, owners, emitted>>

-------------------------------------------------------------------------------
(* BytesToFrame *)

\* Mutant of handleFrame: what ppp_deframe returns is not looked at.
handleAnyFrame(s) == Append(s.out, [payload |-> ppp_deframe(s.frame).payload, owners |-> s.owners])

handleFrame(s) ==
  LET deframed == ppp_deframe(s.frame)
  IN IF deframed.ok THEN Append(s.out, [payload |-> deframed.payload, owners |-> s.owners]) ELSE s.out

\* Mutant of RxdOctet: the time of the flag is not noted.
RxdOctetUntimed(s, b) ==
  IF b.octet = Flag THEN [frame |-> <<>>, owners |-> {}, age |-> s.age, out |-> handleFrame(s)]
  ELSE [s EXCEPT !.frame = Append(@, b.octet), !.owners = @ \cup {b.owner}]

\* What handleRxd does with one octet.
RxdOctet(s, b) ==
  IF b.octet = Flag THEN [frame |-> <<>>, owners |-> {}, age |-> 0, out |-> handleFrame(s)]
  ELSE [s EXCEPT !.frame = Append(@, b.octet), !.owners = @ \cup {b.owner}]

\* The state of handleRxd after each of the octets.
RxdOctets(s, octets) ==
  LET after[k \in 0 .. Len(octets)] == IF k = 0 THEN s ELSE RxdOctet(after[k - 1], octets[k])
  IN after

\* handleRxd: the timeout is looked at once, after the whole chunk.
HandleRxd(n) ==
  LET begun == [frame |-> inputFrame, owners |-> owners, age |-> age, out |-> emitted]
      s == RxdOctets(begun, SubSeq(line, 1, n))[n]
      late == s.age > FrameTimeout
  IN /\ n <= Len(line)
     /\ line' = SubSeq(line, n + 1, Len(line))
     /\ last' = line[n].owner
     /\ inputFrame' = IF late THEN <<>> ELSE s.frame
     /\ owners' = IF late THEN {} ELSE s.owners
     /\ age' = s.age
     /\ emitted' = s.out
     /\ UNCHANGED <<sent, texts, faults, spoiled>>

-------------------------------------------------------------------------------

Next ==
  \/ SendFrame \/ Tick
  \/ \E text \in Texts : PrintText(text)
  \/ \E n \in 1 .. Len(line) : FlushOutput(n) \/ DropChunk(n) \/ HandleRxd(n)
  \/ \E n \in 1 .. Len(line), octet \in {Flag, Esc} : DamageOctet(n, octet)

Spec == Init /\ [][Next]_vars

-------------------------------------------------------------------------------

\* The emitted was made of octets of unspoiled messages only.
Intact(e) == e.owners \cap (spoiled \cup {Text}) = {}

Genuine(m) == [payload |-> Messages[m], owners |-> {m}]

\* What is made of octets to which nothing happened is a message that was sent, whole, and
\* such messages come in the order of sending and each once, whatever text, loss or damage
\* lies between them and however the line was cut up (Frame.cpp:26-38, 40-64).
Faithful ==
  /\ \A i \in DOMAIN emitted :
       Intact(emitted[i]) => \E m \in 1 .. sent : emitted[i] = Genuine(m)
  /\ \A i, j \in DOMAIN emitted : i < j /\ Intact(emitted[i]) /\ Intact(emitted[j])
       => \A m \in emitted[i].owners, n \in emitted[j].owners : m < n

\* The type of the state, and that nothing is lost, made up, repeated or exchanged in what
\* comes out (Frame.cpp:9-69).
RInv == TypeOK /\ Faithful

\* A message whose octets all arrive, none too late, is emitted as soon as the last one is
\* there, whatever came before it and however the line cut it up (Frame.cpp:40-64).
Resynchronised ==
  \A m \in 1 .. sent \ spoiled :
    m \notin OwnersOf(line) => \E i \in DOMAIN emitted : emitted[i] = Genuine(m)
===============================================================================
