-------------------------------- MODULE Framing --------------------------------
(***************************************************************************)
(* The framing alone: a payload is framed, its frame may be damaged, and   *)
(* the result deframed.  Nothing happens but the choice of the payload.    *)
(***************************************************************************)
EXTENDS PppFrame

CONSTANTS Alphabet,   \* octets of a payload
          Damage,     \* octets that an octet of a frame may be turned into
          MaxLen,     \* bound on the length of a payload
          None        \* no payload

ASSUME AlphabetAssumption == Alphabet \subseteq Octets /\ Damage \subseteq Octets

VARIABLE payload

Payloads == UNION {[1 .. n -> Alphabet] : n \in 0 .. MaxLen}

FramingInit == payload \in Payloads \cup {None}
FramingSpec == FramingInit /\ [][FALSE]_payload

\* A frame starts and ends with a flag and has none inside, and deframing what is between
\* them gives the payload back; only an empty one is refused, as too short
\* (ppp_frame.cpp:64-77, 89-127).
RoundTrip ==
  payload /= None =>
    LET frame == ppp_frame(payload)
    IN /\ {k \in DOMAIN frame : frame[k] = Flag} = {1, Len(frame)}
       /\ ppp_deframe(Interior(frame)) = [ok |-> payload /= <<>>, payload |-> payload]

\* A frame with one octet damaged is refused, wherever that is, unless the damage makes an
\* escape or unmakes one: the octets after it then move, and the checksum no longer tells
\* (ppp_frame.cpp:120-126).
DamageDetected ==
  payload /= None =>
    LET frame == Interior(ppp_frame(payload))
    IN \A k \in DOMAIN frame, b \in Damage :
         b /= frame[k] /\ Esc \notin {b, frame[k]} => ~ ppp_deframe([frame EXCEPT ![k] = b]).ok
===============================================================================
