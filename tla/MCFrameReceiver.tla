--------------------------- MODULE MCFrameReceiver ---------------------------
(* FrameReceiver with two messages, one of which needs escapes, and a text *)
(* with a flag in it; and, from the states in which a payload is given,    *)
(* the framing alone, for every payload of up to MaxLen octets.            *)
EXTENDS FrameReceiver, Framing, TLC

TwoMessages == << <<1>>, <<126, 2>> >>
TextWithFlag == { <<65, 126>> }

MCInit == Init /\ FramingInit
MCNext == payload = None /\ Next /\ UNCHANGED payload
MCSpec == MCInit /\ [][MCNext]_<<vars, payload>>
===============================================================================
