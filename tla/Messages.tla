------------------------------ MODULE Messages ------------------------------
(***************************************************************************)
(* What the messages between a microcontroller and its proxy are made of:  *)
(* CborSerializer and CborDeserializer (common/src), each with a buffer of *)
(* a fixed size and an error that calls pass on, and the callbacks of      *)
(* BrokerSerial and serialProxy that write and read with them.  Only the   *)
(* sizes of names and values matter: a message is cut, refused or carried  *)
(* because of them.  The frames and the line between the two are in        *)
(* PppFrame and FrameReceiver; here a frame arrives as it was sent.        *)
(***************************************************************************)
EXTENDS Naturals, Sequences

CONSTANTS NodeSize,     \* of the buffers of the microcontroller's BrokerSerial
          ProxySize,    \* of the buffers of the proxy
          NameSizes,    \* lengths of topics, patterns and node names
          ValueSizes,   \* lengths of a text that the node publishes
          DataSizes     \* lengths of a payload from Redis

ASSUME SizeAssumption == /\ NodeSize \in Nat \ {0} /\ ProxySize \in Nat \ {0}
                         /\ NameSizes \subseteq Nat /\ ValueSizes \subseteq Nat /\ DataSizes \subseteq Nat

\* MsgType
Kinds == {"PUBLISH", "SUBSCRIBE", "NODE"}

\* What TinyCBOR writes: the head holds the length of what follows.
KindItem(k) == [type |-> "int", kind |-> k, len |-> 0]
TextItem(n) == [type |-> "text", kind |-> "none", len |-> n]
ByteItem(n) == [type |-> "bytes", kind |-> "none", len |-> n]

HeadSize(item) == IF item.len < 24 THEN 1 ELSE IF item.len < 256 THEN 2 ELSE 3
ItemSize(item) == HeadSize(item) + item.len

\* Where item i of an array starts, after the octet that opens it.
Start(items, i) ==
  LET end[k \in 0 .. Len(items)] == IF k = 0 THEN 1 ELSE end[k - 1] + ItemSize(items[k])
  IN end[i - 1]
FullSize(items) == Start(items, Len(items) + 1) + 1

VARIABLES readErr,   \* the error a CborDeserializer is left with; begin() clears it, and
                     \* nothing else of it or of a CborSerializer is read again
          outgoing,  \* of the node: nothing, or the sizes of a topic and its payload
          latest     \* auxiliary: the last message, and what became of it

messageVars == <<readErr, outgoing, latest>>

Sides == {"node", "proxy"}
Capacity(side) == IF side = "node" THEN NodeSize ELSE ProxySize

NothingSent == [from |-> "none", items |-> <<>>, taken |-> {}, undefined |-> FALSE]

MessagesInit ==
  /\ readErr = [s \in Sides |-> FALSE]
  /\ outgoing = <<>> /\ latest = NothingSent

-------------------------------------------------------------------------------
(* CborSerializer.  The encoder refuses all that follows what did not fit. *)

BeginWrite == [items |-> <<>>, used |-> 1, err |-> FALSE, size |-> 0, defined |-> TRUE]

\* add() of an int or a text calls the encoder even after an error; the result is the same.
Add(w, cap, item) ==
  IF w.err \/ w.used + ItemSize(item) > cap THEN [w EXCEPT !.err = TRUE]
  ELSE [w EXCEPT !.items = Append(@, item), !.used = @ + ItemSize(item)]

\* After an error the array is not closed, and the root encoder stands where it began; if only
\* the octet that closes the array does not fit, the size is computed from no pointer.
EndWrite(w, cap) ==
  IF w.err THEN w
  ELSE IF w.used < cap THEN [w EXCEPT !.size = w.used + 1]
  ELSE [w EXCEPT !.err = TRUE, !.defined = FALSE]

Write(side, items) ==
  LET cap == Capacity(side)
      added[k \in 0 .. Len(items)] ==
        IF k = 0 THEN BeginWrite ELSE Add(added[k - 1], cap, items[k])
  IN EndWrite(added[Len(items)], cap)

-------------------------------------------------------------------------------
(* CborDeserializer *)

\* The iterator stands on item i: its head, or the octet that closes the array, is there.
Parsed(r, i) ==
  Start(r.items, i) + (IF i <= Len(r.items) THEN HeadSize(r.items[i]) ELSE 1) <= r.size

\* What does not fit is cut off.
FromBytes(err, cap, w) ==
  [items |-> w.items, size |-> IF w.size < cap THEN w.size ELSE cap, next |-> 1,
   err |-> err, defined |-> TRUE]

\* Mutant: the error of the last message stays.
BeginReadAgain(r) == [r EXCEPT !.err = @ \/ ~ Parsed(r, 1)]
BeginRead(r) == [r EXCEPT !.err = ~ Parsed(r, 1)]

Here(r, type) == ~ r.err /\ r.next <= Len(r.items) /\ r.items[r.next].type = type
Whole(r) == Start(r.items, r.next + 1) <= r.size
Advance(r) == [r EXCEPT !.next = @ + 1, !.err = ~ Parsed(r, r.next + 1)]

GetInt(r) == IF Here(r, "int") THEN Advance(r) ELSE [r EXCEPT !.err = TRUE]

\* A text that is cut is not copied, and the pointer to the copy is used all the same.
GetText(r) ==
  IF ~ Here(r, "text") THEN [r EXCEPT !.err = TRUE]
  ELSE IF Whole(r) THEN Advance(r)
  ELSE [r EXCEPT !.err = TRUE, !.defined = FALSE]

\* Bytes are measured first.  Mutant: they are not.
GetBytesUnmeasured(r) ==
  IF ~ Here(r, "bytes") THEN [r EXCEPT !.err = TRUE]
  ELSE IF Whole(r) THEN Advance(r)
  ELSE [r EXCEPT !.err = TRUE, !.defined = FALSE]
GetBytes(r) == IF Here(r, "bytes") /\ Whole(r) THEN Advance(r) ELSE [r EXCEPT !.err = TRUE]

-------------------------------------------------------------------------------
(* The callbacks: getPubMsg, getSubMsg and getNodeMsg of the proxy, the      *)
(* handler of _fromSerialFrame on the node                                   *)

Opened(side, w) == GetText(GetInt(BeginRead(FromBytes(readErr[side], Capacity(side), w))))

ReadAs(side, w, kind) == IF kind = "PUBLISH" THEN GetBytes(Opened(side, w)) ELSE Opened(side, w)

Accepts(r, kind) == ~ r.err /\ r.items[1].kind = kind

Known(to) == IF to = "node" THEN {"PUBLISH"} ELSE Kinds

\* The message was written to w; a frame is sent only if that succeeded.  The receiver
\* tries the kinds it knows, NODE last.
Send(from, to, items, w) ==
  LET r(k) == ReadAs(to, w, k)
  IN IF w.err
     THEN /\ latest' = [from |-> from, items |-> items, taken |-> {}, undefined |-> FALSE]
          /\ UNCHANGED readErr
     ELSE /\ latest' = [from |-> from, items |-> items,
                      taken |-> {k \in Known(to) : Accepts(r(k), k)},
                      undefined |-> \E k \in Known(to) : ~ r(k).defined]
          /\ readErr' = [readErr EXCEPT ![to] = r(IF to = "node" THEN "PUBLISH" ELSE "NODE").err]

SendFromNode(items) == Send("node", "proxy", items, Write("node", items))

\* sendNode, subscribe
SendNode(name) == SendFromNode(<<KindItem("NODE"), TextItem(name)>>) /\ UNCHANGED outgoing
Subscribe(pattern) == SendFromNode(<<KindItem("SUBSCRIBE"), TextItem(pattern)>>) /\ UNCHANGED outgoing

\* publisher(): the value is an array of its own, and is queued if it fits.
Publish(topic, value) ==
  /\ outgoing = <<>>
  /\ LET w == Write("node", <<TextItem(value)>>)
     IN outgoing' = IF w.err THEN <<>> ELSE <<topic, w.size>>
  /\ UNCHANGED <<readErr, latest>>

\* The handler of _outgoing.
SendQueued ==
  /\ outgoing /= <<>>
  /\ outgoing' = <<>>
  /\ SendFromNode(<<KindItem("PUBLISH"), TextItem(outgoing[1]), ByteItem(outgoing[2])>>)

\* broker.incoming() of the proxy: toBytes() is called before success().
Forward(topic, data) ==
  /\ LET items == <<KindItem("PUBLISH"), TextItem(topic), ByteItem(data)>>
         w == Write("proxy", items)
     IN IF w.defined THEN Send("proxy", "node", items, w)
        ELSE /\ latest' = [from |-> "proxy", items |-> items, taken |-> {}, undefined |-> TRUE]
             /\ UNCHANGED readErr
  /\ UNCHANGED outgoing

MessagesNext ==
  \/ \E n \in NameSizes : \/ SendNode(n) \/ Subscribe(n)
                          \/ \E v \in ValueSizes : Publish(n, v)
                          \/ \E d \in DataSizes : Forward(n, d)
  \/ SendQueued

MessagesSpec == MessagesInit /\ [][MessagesNext]_messageVars

-------------------------------------------------------------------------------
(* Properties *)

Receiver(from) == IF from = "node" THEN "proxy" ELSE "node"
Fits(items, from) == FullSize(items) <= Capacity(from) /\ FullSize(items) <= Capacity(Receiver(from))

\* A message that fits both sides' buffers is taken by exactly one handler, the one of its
\* kind, with all its parts, whatever was refused or cut before it; one that does not is
\* taken by none (CborDeserializer.cpp:14-52, serialProxy.cpp:189-223, BrokerSerial.cpp:74-94).
Carried ==
  latest /= NothingSent =>
    latest.taken = IF Fits(latest.items, latest.from) THEN {latest.items[1].kind} ELSE {}

\* A buffer that is too small is met by an error, but for two sizes: a message for the node
\* of which only the closing octet does not fit the proxy's buffer, and one that the
\* receiver's buffer cuts within its name (CborSerializer.cpp:99, CborDeserializer.cpp:58).
ErrorsDefined ==
  latest.undefined <=>
    LET full == FullSize(latest.items)
        cut  == Capacity(Receiver(latest.from))
        name == Start(latest.items, 2)
    IN /\ latest /= NothingSent
       /\ \/ latest.from = "proxy" /\ full = ProxySize + 1
          \/ /\ full <= Capacity(latest.from)
             /\ name + HeadSize(latest.items[2]) <= cut /\ name + ItemSize(latest.items[2]) > cut
=============================================================================
