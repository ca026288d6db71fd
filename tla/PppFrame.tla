------------------------------- MODULE PppFrame -------------------------------
(***************************************************************************)
(* The framing of the serial line (common/src/ppp_frame.cpp): an octet     *)
(* string gets a 16-bit checksum, its flags and escapes are escaped, and a *)
(* flag is put at both ends.  ppp_deframe undoes it for the octets between *)
(* two flags.                                                              *)
(***************************************************************************)
EXTENDS Integers, Sequences

MaxOctet == 255
MaxWord  == 65535
Octets == 0 .. MaxOctet
Words  == 0 .. MaxWord   \* uint16_t

\* The operator ^ of C++ on 16 bits, bit by bit.
Bit(a, w) == (a \div w) % 2
a ^^ b ==
  LET d(w) == IF Bit(a, w) = Bit(b, w) THEN 0 ELSE w
  IN d(1) + d(2) + d(4) + d(8) + d(16) + d(32) + d(64) + d(128) + d(256) + d(512) + d(1024)
     + d(2048) + d(4096) + d(8192) + d(16384) + d(32768)

Flag == 126   \* PPP_FLAG_CHAR
Esc  == 125   \* PPP_ESC_CHAR
Mask == 32    \* PPP_MASK_CHAR

fcsTable == <<
  0, 4489, 8978, 12955, 17956, 22445, 25910, 29887, 35912, 40385, 44890, 48851, 51820,
  56293, 59774, 63735, 4225, 264, 13203, 8730, 22181, 18220, 30135, 25662, 40137, 36160,
  49115, 44626, 56045, 52068, 63999, 59510, 8450, 12427, 528, 5017, 26406, 30383, 17460,
  21949, 44362, 48323, 36440, 40913, 60270, 64231, 51324, 55797, 12675, 8202, 4753, 792,
  30631, 26158, 21685, 17724, 48587, 44098, 40665, 36688, 64495, 60006, 55549, 51572, 16900,
  21389, 24854, 28831, 1056, 5545, 10034, 14011, 52812, 57285, 60766, 64727, 34920, 39393,
  43898, 47859, 21125, 17164, 29079, 24606, 5281, 1320, 14259, 9786, 57037, 53060, 64991,
  60502, 39145, 35168, 48123, 43634, 25350, 29327, 16404, 20893, 9506, 13483, 1584, 6073,
  61262, 65223, 52316, 56789, 43370, 47331, 35448, 39921, 29575, 25102, 20629, 16668, 13731,
  9258, 5809, 1848, 65487, 60998, 56541, 52564, 47595, 43106, 39673, 35696, 33800, 38273,
  42778, 46739, 49708, 54181, 57662, 61623, 2112, 6601, 11090, 15067, 20068, 24557, 28022,
  31999, 38025, 34048, 47003, 42514, 53933, 49956, 61887, 57398, 6337, 2376, 15315, 10842,
  24293, 20332, 32247, 27774, 42250, 46211, 34328, 38801, 58158, 62119, 49212, 53685, 10562,
  14539, 2640, 7129, 28518, 32495, 19572, 24061, 46475, 41986, 38553, 34576, 62383, 57894,
  53437, 49460, 14787, 10314, 6865, 2904, 32743, 28270, 23797, 19836, 50700, 55173, 58654,
  62615, 32808, 37281, 41786, 45747, 19012, 23501, 26966, 30943, 3168, 7657, 12146, 16123,
  54925, 50948, 62879, 58390, 37033, 33056, 46011, 41522, 23237, 19276, 31191, 26718, 7393,
  3432, 16371, 11898, 59150, 63111, 50204, 54677, 41258, 45219, 33336, 37809, 27462, 31439,
  18516, 23005, 11618, 15595, 3696, 8185, 63375, 58886, 54429, 50452, 45483, 40994, 37561,
  33584, 31687, 27214, 22741, 18780, 15843, 11370, 7921, 3960 >>

-------------------------------------------------------------------------------
(* class Fcs *)

FcsInit == MaxWord

FcsWrite(fcs, b) == (fcs \div 256) ^^ fcsTable[((fcs % 256) ^^ b) + 1]

FcsResult(fcs) == MaxWord - fcs

\* fcs after each of the octets.
FcsWrites(octets) ==
  LET fcs[k \in 0 .. Len(octets)] == IF k = 0 THEN FcsInit ELSE FcsWrite(fcs[k - 1], octets[k])
  IN fcs

Fcs(octets) == FcsResult(FcsWrites(octets)[Len(octets)])

Good == 3911   \* 0x0F47, what octets followed by their own checksum add up to

\* Mutant of FcsCheck: none.
FcsUnchecked(octets) == TRUE

FcsCheck(octets) == Fcs(octets) = Good

-------------------------------------------------------------------------------

\* Mutant of Escaped: only flags are escaped.
FlagsEscaped(c) == IF c = Flag THEN <<Esc, c ^^ Mask>> ELSE <<c>>

Escaped(c) == IF c \in {Esc, Flag} THEN <<Esc, c ^^ Mask>> ELSE <<c>>

\* Least significant octet first.
Checked(in) == LET fcs == Fcs(in) IN in \o <<fcs % 256, fcs \div 256>>

\* What the loop of ppp_frame makes of one octet, and the output after each of them.
Escape(out, c) == out \o Escaped(c)
Escapes(in) ==
  LET out[k \in 0 .. Len(in)] == IF k = 0 THEN <<Flag>> ELSE Escape(out[k - 1], in[k])
  IN out

ppp_frame(in) == LET c == Checked(in) IN Append(Escapes(c)[Len(c)], Flag)

\* What the loop of ppp_deframe makes of one octet.
Unescape(s, c) ==
  IF c = Esc THEN [s EXCEPT !.escFlag = TRUE]
  ELSE [escFlag |-> FALSE, out |-> Append(s.out, IF s.escFlag THEN c ^^ Mask ELSE c)]

\* Where that loop stands after each octet.
Unescapes(in) ==
  LET s[k \in 0 .. Len(in)] == IF k = 0 THEN [escFlag |-> FALSE, out |-> <<>>]
                               ELSE Unescape(s[k - 1], in[k])
  IN s

\* The payload is meant only when ok: otherwise the caller does not look at it.
ppp_deframe(in) ==
  LET s  == Unescapes(in)[Len(in)]
      ok == /\ Len(in) >= 3
            /\ \A k \in DOMAIN in : in[k] /= Flag
            /\ FcsCheck(s.out)
            /\ ~ s.escFlag
  IN [ok |-> ok, payload |-> IF ok THEN SubSeq(s.out, 1, Len(s.out) - 2) ELSE <<>>]

\* What is between the flags of a frame.
Interior(frame) == SubSeq(frame, 2, Len(frame) - 1)
===============================================================================
