----------------------------- MODULE SerialProofs -----------------------------
(***************************************************************************)
(* Proofs about the framing and the receiver of frames.                    *)
(*                                                                         *)
(* The framing: the checksum's table and its exclusive ors are looked at   *)
(* bit by bit, for octets followed by their own checksum to add up to      *)
(* Good whatever they are; what a loop makes of a sequence is a recursive  *)
(* function, and its values are found by induction over the round; and     *)
(* what was escaped is unescaped octet by octet.                           *)
(*                                                                         *)
(* A damaged octet changes the checksum at that place, and what follows    *)
(* never makes it right again.                                             *)
(*                                                                         *)
(* The receiver: the frame of a message that nothing happened to is on the *)
(* line in one piece, or its first octets are what inputFrame holds and    *)
(* the others next on the line, or it was emitted.  A flag after octets    *)
(* to which nothing happened is therefore the end of their frame.  The     *)
(* chunks in which the line is read are gone through octet by octet.       *)
(***************************************************************************)
EXTENDS Framing, FrameReceiver, Messages, WellFoundedInduction, SequenceTheorems, TLAPS

-------------------------------------------------------------------------------
(* Induction, and loops as functions of the round *)

LEMMA Least ==
  ASSUME NEW S \in SUBSET Nat, S /= {}
  PROVE  \E x \in S : \A y \in S : x <= y
<1>1. \E x \in S : \A y \in S : ~ (<<y, x>> \in OpToRel(<, Nat))
  BY NatLessThanWellFounded, WFMin
<1>2. \A x, y \in Nat : <<y, x>> \in OpToRel(<, Nat) <=> y < x
  BY DEF OpToRel
<1>3. PICK x \in S : \A y \in S : ~ (<<y, x>> \in OpToRel(<, Nat))
  BY <1>1
<1>4. \A y \in S : x <= y
  <2> TAKE y \in S
  <2>1. ~ (y < x)
    BY <1>2, <1>3, S \subseteq Nat
  <2> QED BY <2>1, S \subseteq Nat
<1> QED BY <1>4

\* Induction, for the sets of numbers for which something holds.
LEMMA Induct ==
  ASSUME NEW n \in Nat, NEW S, 0 \in S, \A k \in 1 .. n : k - 1 \in S => k \in S
  PROVE  0 .. n \subseteq S
<1> DEFINE T == (0 .. n) \ S
<1>1. SUFFICES ASSUME T /= {} PROVE FALSE
  OBVIOUS
<1>2. PICK x \in T : \A y \in T : x <= y
  BY <1>1, Least, T \in SUBSET Nat
<1>3. x \in 1 .. n /\ x - 1 \in 0 .. n
  BY <1>2
<1>4. x - 1 \in S
  BY <1>2, <1>3
<1> QED
  BY <1>2, <1>3, <1>4

\* What a loop of n rounds goes through, from base on.
LoopOf(f, n, A, base, step) ==
  f \in [0 .. n -> A] /\ f[0] = base /\ \A k \in 1 .. n : f[k] = step[k][f[k - 1]]

LEMMA LoopExists ==
  ASSUME NEW n \in Nat, NEW A, NEW base \in A, NEW step \in [1 .. n -> [A -> A]]
  PROVE  \E f : LoopOf(f, n, A, base, step)
<1> DEFINE Up(f, m) == f \in [0 .. m -> A] /\ f[0] = base /\ \A k \in 1 .. m : f[k] = step[k][f[k - 1]]
           S == {m \in 0 .. n : \E f : Up(f, m)}
<1>1. 0 \in S
  <2> DEFINE f == [k \in 0 .. 0 |-> base]
  <2>1. Up(f, 0)
    OBVIOUS
  <2> HIDE DEF f, Up
  <2> QED BY <2>1
<1>2. ASSUME NEW m \in 1 .. n, m - 1 \in S PROVE m \in S
  <2>1. PICK f : Up(f, m - 1)
    BY <1>2
  <2> DEFINE x == step[m][f[m - 1]]
             g == [k \in 0 .. m |-> IF k = m THEN x ELSE f[k]]
  <2>2. f \in [0 .. m - 1 -> A] /\ m - 1 \in 0 .. m - 1 /\ m \in Nat /\ m > 0
    BY <2>1
  <2>3. x \in A
    BY <2>2
  <2> HIDE DEF x
  <2>4. g \in [0 .. m -> A] /\ g[m] = x /\ \A k \in 0 .. m - 1 : g[k] = f[k]
    BY <2>2, <2>3
  <2> HIDE DEF g
  <2>5. g[0] = base
    BY <2>1, <2>2, <2>4
  <2>6. ASSUME NEW k \in 1 .. m PROVE g[k] = step[k][g[k - 1]]
    <3>1. k - 1 \in 0 .. m - 1 /\ g[k - 1] = f[k - 1]
      BY <2>2, <2>4
    <3>2. CASE k = m
      BY <2>4, <3>1, <3>2 DEF x
    <3>3. CASE k \in 1 .. m - 1
      BY <2>1, <2>4, <3>1, <3>3
    <3> QED BY <2>2, <3>2, <3>3
  <2>7. Up(g, m)
    BY <2>4, <2>5, <2>6
  <2> HIDE DEF Up
  <2> QED BY <2>7
<1>3. n \in S
  <2> HIDE DEF S
  <2>1. 0 .. n \subseteq S
    BY <1>1, <1>2, Induct
  <2> QED BY <2>1
<1>4. PICK f : Up(f, n)
  BY <1>3
<1> QED BY <1>4 DEF LoopOf

-------------------------------------------------------------------------------
(* Octets, words and their bits *)

LEMMA OctetsAre == \A x : x \in Octets <=> x \in Int /\ 0 <= x /\ x <= 255
<1>1. MaxOctet \in Int /\ MaxOctet <= 255 /\ 255 <= MaxOctet
  BY DEF MaxOctet
<1> QED BY <1>1 DEF Octets

LEMMA WordsAre == \A x : x \in Words <=> x \in Int /\ 0 <= x /\ x <= 65535
<1>1. MaxWord \in Int /\ MaxWord <= 65535 /\ 65535 <= MaxWord
  BY DEF MaxWord
<1> QED BY <1>1 DEF Words

LEMMA Bits ==
  ASSUME NEW b0 \in {0, 1}, NEW b1 \in {0, 1}, NEW b2 \in {0, 1}, NEW b3 \in {0, 1},
         NEW b4 \in {0, 1}, NEW b5 \in {0, 1}, NEW b6 \in {0, 1}, NEW b7 \in {0, 1},
         NEW n \in Int, n = b0 + 2 * b1 + 4 * b2 + 8 * b3 + 16 * b4 + 32 * b5 + 64 * b6 + 128 * b7
  PROVE  /\ Bit(n, 1) = b0 /\ Bit(n, 2) = b1 /\ Bit(n, 4) = b2 /\ Bit(n, 8) = b3
         /\ Bit(n, 16) = b4 /\ Bit(n, 32) = b5 /\ Bit(n, 64) = b6 /\ Bit(n, 128) = b7
         /\ Bit(n, 256) = 0 /\ Bit(n, 512) = 0 /\ Bit(n, 1024) = 0 /\ Bit(n, 2048) = 0
         /\ Bit(n, 4096) = 0 /\ Bit(n, 8192) = 0 /\ Bit(n, 16384) = 0 /\ Bit(n, 32768) = 0
<1>1. Bit(n, 1) = b0 BY DEF Bit
<1>2. Bit(n, 2) = b1 BY DEF Bit
<1>3. Bit(n, 4) = b2 BY DEF Bit
<1>4. Bit(n, 8) = b3 BY DEF Bit
<1>5. Bit(n, 16) = b4 BY DEF Bit
<1>6. Bit(n, 32) = b5 BY DEF Bit
<1>7. Bit(n, 64) = b6 BY DEF Bit
<1>8. Bit(n, 128) = b7 BY DEF Bit
<1>9. /\ Bit(n, 256) = 0 /\ Bit(n, 512) = 0 /\ Bit(n, 1024) = 0 /\ Bit(n, 2048) = 0
      /\ Bit(n, 4096) = 0 /\ Bit(n, 8192) = 0 /\ Bit(n, 16384) = 0 /\ Bit(n, 32768) = 0
  BY DEF Bit
<1> QED BY <1>1, <1>2, <1>3, <1>4, <1>5, <1>6, <1>7, <1>8, <1>9

LEMMA Halving ==
  ASSUME NEW n \in Int
  PROVE  \E q \in Int, b \in {0, 1} : n = 2 * q + b
<1>1. n \div 2 \in Int /\ n % 2 \in Int
  OBVIOUS
<1>2. PICK q \in Int, b \in Int : q = n \div 2 /\ b = n % 2
  BY <1>1
<1>3. b \in {0, 1} /\ n = 2 * q + b
  BY <1>2
<1> QED BY <1>3

LEMMA Octet ==
  ASSUME NEW n \in Octets
  PROVE  \E b0, b1, b2, b3, b4, b5, b6, b7 \in {0, 1} :
           n = b0 + 2 * b1 + 4 * b2 + 8 * b3 + 16 * b4 + 32 * b5 + 64 * b6 + 128 * b7
<1>1. n \in Int /\ 0 <= n /\ n <= 255
  BY OctetsAre
<1>2. PICK q1 \in Int, b0 \in {0, 1} : n = 2 * q1 + b0
  BY <1>1, Halving
<1>3. PICK q2 \in Int, b1 \in {0, 1} : q1 = 2 * q2 + b1
  BY Halving
<1>4. PICK q3 \in Int, b2 \in {0, 1} : q2 = 2 * q3 + b2
  BY Halving
<1>5. PICK q4 \in Int, b3 \in {0, 1} : q3 = 2 * q4 + b3
  BY Halving
<1>6. PICK q5 \in Int, b4 \in {0, 1} : q4 = 2 * q5 + b4
  BY Halving
<1>7. PICK q6 \in Int, b5 \in {0, 1} : q5 = 2 * q6 + b5
  BY Halving
<1>8. PICK b7 \in Int, b6 \in {0, 1} : q6 = 2 * b7 + b6
  BY Halving
<1>9. n = b0 + 2 * b1 + 4 * b2 + 8 * b3 + 16 * b4 + 32 * b5 + 64 * b6 + 128 * b7
  BY <1>2, <1>3, <1>4, <1>5, <1>6, <1>7, <1>8
<1>10. b7 \in {0, 1}
  BY <1>1, <1>2, <1>3, <1>4, <1>5, <1>6, <1>7, <1>8
<1> QED BY <1>9, <1>10

LEMMA ComplementOfDamaged ==
  ASSUME NEW a \in Octets
  PROVE  ((a ^^ 120) ^^ (255 - a)) = 135
<1>1. PICK b0, b1, b2, b3, b4, b5, b6, b7 \in {0, 1} :
           a = b0 + 2 * b1 + 4 * b2 + 8 * b3 + 16 * b4 + 32 * b5 + 64 * b6 + 128 * b7
  BY Octet
<1>2. /\ Bit(120, 1) = 0 /\ Bit(120, 2) = 0 /\ Bit(120, 4) = 0 /\ Bit(120, 8) = 1
      /\ Bit(120, 16) = 1 /\ Bit(120, 32) = 1 /\ Bit(120, 64) = 1 /\ Bit(120, 128) = 0
      /\ Bit(120, 256) = 0 /\ Bit(120, 512) = 0 /\ Bit(120, 1024) = 0 /\ Bit(120, 2048) = 0
      /\ Bit(120, 4096) = 0 /\ Bit(120, 8192) = 0 /\ Bit(120, 16384) = 0 /\ Bit(120, 32768) = 0
  BY DEF Bit
<1>3. (a ^^ 120) = b0 + 2 * b1 + 4 * b2 + 8 * (1 - b3) + 16 * (1 - b4) + 32 * (1 - b5) + 64 * (1 - b6) + 128 * b7
  BY <1>1, <1>2, Bits DEF ^^
<1>4. 255 - a = (1 - b0) + 2 * (1 - b1) + 4 * (1 - b2) + 8 * (1 - b3) + 16 * (1 - b4) + 32 * (1 - b5) + 64 * (1 - b6) + 128 * (1 - b7)
  BY <1>1, OctetsAre
<1> DEFINE x == a ^^ 120  y == 255 - a
<1>5. \A n \in {0, 1} : 1 - n \in {0, 1}
  OBVIOUS
<1>6. /\ Bit(x, 1) = b0 /\ Bit(x, 2) = b1 /\ Bit(x, 4) = b2 /\ Bit(x, 8) = 1 - b3
         /\ Bit(x, 16) = 1 - b4 /\ Bit(x, 32) = 1 - b5 /\ Bit(x, 64) = 1 - b6 /\ Bit(x, 128) = b7
         /\ Bit(x, 256) = 0 /\ Bit(x, 512) = 0 /\ Bit(x, 1024) = 0 /\ Bit(x, 2048) = 0
         /\ Bit(x, 4096) = 0 /\ Bit(x, 8192) = 0 /\ Bit(x, 16384) = 0 /\ Bit(x, 32768) = 0
   BY <1>3, <1>5, Bits
<1>7. /\ Bit(y, 1) = 1 - b0 /\ Bit(y, 2) = 1 - b1 /\ Bit(y, 4) = 1 - b2 /\ Bit(y, 8) = 1 - b3
         /\ Bit(y, 16) = 1 - b4 /\ Bit(y, 32) = 1 - b5 /\ Bit(y, 64) = 1 - b6 /\ Bit(y, 128) = 1 - b7
         /\ Bit(y, 256) = 0 /\ Bit(y, 512) = 0 /\ Bit(y, 1024) = 0 /\ Bit(y, 2048) = 0
         /\ Bit(y, 4096) = 0 /\ Bit(y, 8192) = 0 /\ Bit(y, 16384) = 0 /\ Bit(y, 32768) = 0
   BY <1>4, <1>5, Bits
<1> HIDE DEF x, y
<1>8. (x ^^ y) = 135
   BY <1>6, <1>7 DEF ^^
<1> QED BY <1>8 DEF x, y

LEMMA SumOfFour ==
  ASSUME NEW a \in Int, NEW b \in Int, NEW c \in Int, NEW d \in Int,
         NEW p \in Int, NEW q \in Int, NEW r \in Int, NEW s \in Int,
         0 <= a, a <= p, 0 <= b, b <= q, 0 <= c, c <= r, 0 <= d, d <= s
  PROVE  a + b + c + d \in Int /\ 0 <= a + b + c + d /\ a + b + c + d <= p + q + r + s
  OBVIOUS

LEMMA XorIsWord ==
  ASSUME NEW a, NEW b
  PROVE  (a ^^ b) \in Words
<1> DEFINE d(w) == IF Bit(a, w) = Bit(b, w) THEN 0 ELSE w
           s0 == d(1) + d(2) + d(4) + d(8)
           s1 == d(16) + d(32) + d(64) + d(128)
           s2 == d(256) + d(512) + d(1024) + d(2048)
           s3 == d(4096) + d(8192) + d(16384) + d(32768)
<1>1. ASSUME NEW w \in Nat PROVE d(w) \in Int /\ 0 <= d(w) /\ d(w) <= w
  OBVIOUS
<1>2. (a ^^ b) = d(1) + d(2) + d(4) + d(8) + d(16) + d(32) + d(64) + d(128)
     + d(256) + d(512) + d(1024) + d(2048) + d(4096) + d(8192) + d(16384) + d(32768)
  BY DEF ^^
<1> HIDE DEF d
<1>3. s0 \in Int /\ 0 <= s0 /\ s0 <= 1 + 2 + 4 + 8
  BY <1>1, SumOfFour
<1>4. s1 \in Int /\ 0 <= s1 /\ s1 <= 16 + 32 + 64 + 128
  BY <1>1, SumOfFour
<1>5. s2 \in Int /\ 0 <= s2 /\ s2 <= 256 + 512 + 1024 + 2048
  BY <1>1, SumOfFour
<1>6. s3 \in Int /\ 0 <= s3 /\ s3 <= 4096 + 8192 + 16384 + 32768
  BY <1>1, SumOfFour
<1>7. (a ^^ b) = s0 + s1 + s2 + s3
  <2>1. \A w \in Nat : d(w) \in Int
    BY <1>1
  <2> QED BY <1>2, <2>1
<1> HIDE DEF s0, s1, s2, s3
<1>8. (a ^^ b) \in Int /\ 0 <= (a ^^ b) /\ (a ^^ b) <= 65535
  BY <1>3, <1>4, <1>5, <1>6, <1>7
<1> QED BY <1>8, WordsAre

LEMMA XorOfOctets ==
  ASSUME NEW a \in Octets, NEW b \in Octets
  PROVE  (a ^^ b) \in Octets
  BY OctetsAre DEF ^^, Bit

LEMMA Masked == (125 ^^ 32) = 93 /\ (126 ^^ 32) = 94 /\ (93 ^^ 32) = 125 /\ (94 ^^ 32) = 126
  BY DEF ^^, Bit

LEMMA Complement ==
  ASSUME NEW a \in Octets
  PROVE  (a ^^ (255 - a)) = 255
<1>1. PICK b0, b1, b2, b3, b4, b5, b6, b7 \in {0, 1} :
           a = b0 + 2 * b1 + 4 * b2 + 8 * b3 + 16 * b4 + 32 * b5 + 64 * b6 + 128 * b7
  BY Octet
<1> DEFINE y == 255 - a
<1>2. a \in Int /\ y \in Int
  BY OctetsAre
<1>3. y = (1 - b0) + 2 * (1 - b1) + 4 * (1 - b2) + 8 * (1 - b3) + 16 * (1 - b4) + 32 * (1 - b5) + 64 * (1 - b6) + 128 * (1 - b7)
  BY <1>1, <1>2
<1>4. \A n \in {0, 1} : 1 - n \in {0, 1} /\ n /= 1 - n
  OBVIOUS
<1> HIDE DEF y
<1>5. /\ Bit(y, 1) = 1 - b0 /\ Bit(y, 2) = 1 - b1 /\ Bit(y, 4) = 1 - b2 /\ Bit(y, 8) = 1 - b3
      /\ Bit(y, 16) = 1 - b4 /\ Bit(y, 32) = 1 - b5 /\ Bit(y, 64) = 1 - b6 /\ Bit(y, 128) = 1 - b7
      /\ Bit(y, 256) = 0 /\ Bit(y, 512) = 0 /\ Bit(y, 1024) = 0 /\ Bit(y, 2048) = 0
      /\ Bit(y, 4096) = 0 /\ Bit(y, 8192) = 0 /\ Bit(y, 16384) = 0 /\ Bit(y, 32768) = 0
  BY <1>2, <1>3, <1>4, Bits
<1>6. /\ Bit(a, 1) = b0 /\ Bit(a, 2) = b1 /\ Bit(a, 4) = b2 /\ Bit(a, 8) = b3
      /\ Bit(a, 16) = b4 /\ Bit(a, 32) = b5 /\ Bit(a, 64) = b6 /\ Bit(a, 128) = b7
      /\ Bit(a, 256) = 0 /\ Bit(a, 512) = 0 /\ Bit(a, 1024) = 0 /\ Bit(a, 2048) = 0
      /\ Bit(a, 4096) = 0 /\ Bit(a, 8192) = 0 /\ Bit(a, 16384) = 0 /\ Bit(a, 32768) = 0
  BY <1>1, <1>2, Bits
<1>7. (a ^^ y) = 255
  BY <1>4, <1>5, <1>6 DEF ^^
<1> QED BY <1>7 DEF y

LEMMA HighOfLastEntry ==
  ASSUME NEW a \in Octets
  PROVE  (a ^^ 3960) = (a ^^ 120) + 3840
<1>1. /\ Bit(3960, 1) = Bit(120, 1) /\ Bit(3960, 2) = Bit(120, 2) /\ Bit(3960, 4) = Bit(120, 4)
      /\ Bit(3960, 8) = Bit(120, 8) /\ Bit(3960, 16) = Bit(120, 16) /\ Bit(3960, 32) = Bit(120, 32)
      /\ Bit(3960, 64) = Bit(120, 64) /\ Bit(3960, 128) = Bit(120, 128)
      /\ Bit(3960, 256) = 1 /\ Bit(3960, 512) = 1 /\ Bit(3960, 1024) = 1 /\ Bit(3960, 2048) = 1
      /\ Bit(3960, 4096) = 0 /\ Bit(3960, 8192) = 0 /\ Bit(3960, 16384) = 0 /\ Bit(3960, 32768) = 0
      /\ Bit(120, 256) = 0 /\ Bit(120, 512) = 0 /\ Bit(120, 1024) = 0 /\ Bit(120, 2048) = 0
      /\ Bit(120, 4096) = 0 /\ Bit(120, 8192) = 0 /\ Bit(120, 16384) = 0 /\ Bit(120, 32768) = 0
  BY DEF Bit
<1>2. /\ Bit(a, 256) = 0 /\ Bit(a, 512) = 0 /\ Bit(a, 1024) = 0 /\ Bit(a, 2048) = 0
      /\ Bit(a, 4096) = 0 /\ Bit(a, 8192) = 0 /\ Bit(a, 16384) = 0 /\ Bit(a, 32768) = 0
  BY OctetsAre DEF Bit
<1> QED BY <1>1, <1>2 DEF ^^

-------------------------------------------------------------------------------
(* The checksum *)

LEMMA TableEntries == fcsTable[256] = 3960 /\ fcsTable[136] = 61623
  BY DEF fcsTable

LEMMA FcsWriteIsWord ==
  ASSUME NEW f, NEW b
  PROVE  FcsWrite(f, b) \in Words
  BY XorIsWord DEF FcsWrite

LEMMA Division ==
  ASSUME NEW f \in Int, NEW q \in Int, NEW r \in Int, q = f \div 256, r = f % 256
  PROVE  f = 256 * q + r /\ 0 <= r /\ r <= 255
  OBVIOUS

LEMMA Recombined ==
  ASSUME NEW q \in Int, NEW r \in Int, 0 <= r, r <= 255
  PROVE  (256 * q + r) % 256 = r /\ (256 * q + r) \div 256 = q
  OBVIOUS

LEMMA Halves ==
  ASSUME NEW f \in Words
  PROVE  \E hi, lo \in Octets :
           /\ hi = f \div 256 /\ lo = f % 256 /\ f = 256 * hi + lo
           /\ 255 - hi \in Octets /\ 255 - lo \in Octets
<1>1. f \in Int /\ 0 <= f /\ f <= 65535
  BY WordsAre
<1>2. f \div 256 \in Int /\ f % 256 \in Int
  BY <1>1
<1>3. PICK q \in Int, r \in Int : q = f \div 256 /\ r = f % 256
  BY <1>2
<1>4. f = 256 * q + r /\ 0 <= r /\ r <= 255
  BY <1>1, <1>3, Division
<1>5. 0 <= q /\ q <= 255
  BY <1>1, <1>4
<1>6. r \in Octets /\ q \in Octets /\ 255 - r \in Octets /\ 255 - q \in Octets
  BY <1>4, <1>5, OctetsAre
<1> QED BY <1>3, <1>4, <1>6

\* A checksum followed by its own two octets is always the same.
LEMMA Residue ==
  ASSUME NEW f \in Words
  PROVE  /\ FcsResult(f) % 256 \in Octets /\ FcsResult(f) \div 256 \in Octets
         /\ FcsResult(FcsWrite(FcsWrite(f, FcsResult(f) % 256), FcsResult(f) \div 256)) = Good
<1>0. PICK hi, lo \in Octets :
           /\ hi = f \div 256 /\ lo = f % 256 /\ f = 256 * hi + lo
           /\ 255 - hi \in Octets /\ 255 - lo \in Octets
  BY Halves
<1>1. FcsResult(f) % 256 = 255 - lo /\ FcsResult(f) \div 256 = 255 - hi
  <2>1. FcsResult(f) = 256 * (255 - hi) + (255 - lo)
    BY <1>0, OctetsAre DEF FcsResult, MaxWord
  <2>2. /\ 255 - lo \in Int /\ 0 <= 255 - lo /\ 255 - lo <= 255
        /\ 255 - hi \in Int
    BY OctetsAre
  <2> QED BY <2>1, <2>2, Recombined
<1>2. FcsWrite(f, 255 - lo) = (hi ^^ 120) + 3840
  BY <1>0, Complement, HighOfLastEntry, TableEntries, 255 + 1 = 256 DEF FcsWrite
<1> DEFINE g == (hi ^^ 120) + 3840
<1>3. (hi ^^ 120) \in Octets
  <2>1. 120 \in Octets
    BY OctetsAre
  <2> QED BY <1>0, <2>1, XorOfOctets
<1>4. g \div 256 = 15 /\ g % 256 = (hi ^^ 120)
  BY <1>3, OctetsAre
<1>5. FcsWrite(g, 255 - hi) = (15 ^^ 61623)
  BY <1>0, <1>4, ComplementOfDamaged, TableEntries, 135 + 1 = 136 DEF FcsWrite
<1>6. (15 ^^ 61623) = 61624
  BY DEF ^^, Bit
<1> QED BY <1>0, <1>1, <1>2, <1>5, <1>6 DEF FcsResult, MaxWord, Good

-------------------------------------------------------------------------------
(* The loops *)

\* Two loops that take the same steps from the same value agree.
InStep(f, g, n) == \A k \in 1 .. n : f[k - 1] = g[k - 1] => f[k] = g[k]

LEMMA LoopsAgree ==
  ASSUME NEW n \in Nat, NEW f, NEW g, f[0] = g[0], InStep(f, g, n)
  PROVE  \A k \in 0 .. n : f[k] = g[k]
<1> DEFINE S == {k \in 0 .. n : f[k] = g[k]}
<1>1. 0 \in S
  OBVIOUS
<1>2. \A k \in 1 .. n : k - 1 \in S => k \in S
  BY DEF InStep
<1> HIDE DEF S
<1>3. 0 .. n \subseteq S
  BY <1>1, <1>2, Induct
<1> QED BY <1>3 DEF S

LEMMA FcsWritesAre ==
  ASSUME NEW s \in Seq(Octets)
  PROVE  /\ FcsWrites(s) \in [0 .. Len(s) -> Words] /\ FcsWrites(s)[0] = FcsInit
         /\ \A k \in 1 .. Len(s) : FcsWrites(s)[k] = FcsWrite(FcsWrites(s)[k - 1], s[k])
<1> DEFINE n == Len(s)
           Values == Words
           step == [k \in 1 .. n |-> [x \in Values |-> FcsWrite(x, s[k])]]
<1>1. FcsInit \in Values /\ n \in Nat
  BY WordsAre DEF FcsInit, MaxWord
<1>2. \A k \in 1 .. n : \A x \in Values : FcsWrite(x, s[k]) \in Values
  BY FcsWriteIsWord
<1> HIDE DEF n, Values
<1>3. step \in [1 .. n -> [Values -> Values]] /\ \A k \in 1 .. n : \A x \in Values : step[k][x] = FcsWrite(x, s[k])
  BY <1>2
<1> HIDE DEF step
<1>4. PICK f : LoopOf(f, n, Values, FcsInit, step)
  BY <1>1, <1>3, LoopExists
<1>5. f \in [0 .. n -> Values] /\ f[0] = FcsInit /\ \A k \in 1 .. n : f[k] = FcsWrite(f[k - 1], s[k])
  <2>1. \A k \in 1 .. n : f[k - 1] \in Values
    BY <1>1, <1>4 DEF LoopOf
  <2> QED BY <1>1, <1>3, <1>4, <2>1 DEF LoopOf
<1>6. f = [k \in 0 .. n |-> IF k = 0 THEN FcsInit ELSE FcsWrite(f[k - 1], s[k])]
  BY <1>1, <1>5
<1>7. FcsWrites(s) = [k \in 0 .. n |-> IF k = 0 THEN FcsInit ELSE FcsWrite(FcsWrites(s)[k - 1], s[k])]
  BY <1>6 DEF FcsWrites, n
<1>8. FcsWrites(s)[0] = FcsInit /\ \A k \in 1 .. n : FcsWrites(s)[k] = FcsWrite(FcsWrites(s)[k - 1], s[k])
  BY <1>1, <1>7
<1>9. \A k \in 0 .. n : FcsWrites(s)[k] = f[k]
  <2>1. InStep(FcsWrites(s), f, n)
    BY <1>5, <1>8 DEF InStep
  <2>2. n \in Nat /\ FcsWrites(s)[0] = f[0]
    BY <1>1, <1>5, <1>8
  <2> QED BY <2>1, <2>2, LoopsAgree
<1>10. FcsWrites(s) \in [0 .. n -> Values]
  BY <1>5, <1>7, <1>9
<1> QED BY <1>8, <1>10 DEF n, Values

LEMMA MarkedOctets == 93 \in Octets /\ 94 \in Octets /\ 125 \in Octets
  BY OctetsAre

LEMMA EscapedIs ==
  ASSUME NEW c \in Octets
  PROVE  Escaped(c) \in Seq(Octets \ {Flag})
<1>1. 93 \in Octets /\ 94 \in Octets /\ 125 \in Octets
  BY MarkedOctets
<1>2. CASE c = Flag
  BY <1>1, <1>2, Masked DEF Escaped, Flag, Esc, Mask
<1>3. CASE c = Esc
  BY <1>1, <1>3, Masked DEF Escaped, Flag, Esc, Mask
<1>4. CASE c /= Flag /\ c /= Esc
  <2>1. Escaped(c) = <<c>>
    BY <1>4 DEF Escaped
  <2>2. c \in Octets \ {Flag}
    BY <1>4
  <2>3. <<c>> \in Seq(Octets \ {Flag})
    BY <2>2
  <2> QED BY <2>1, <2>3
<1> QED BY <1>2, <1>3, <1>4

LEMMA EscapeIs ==
  ASSUME NEW out \in Seq(Octets), NEW c \in Octets
  PROVE  Escape(out, c) \in Seq(Octets)
<1>1. Escaped(c) \in Seq(Octets)
  BY EscapedIs, SeqMonotonic, Octets \ {Flag} \subseteq Octets
<1> QED BY <1>1, ConcatProperties DEF Escape

LEMMA EscapesAre ==
  ASSUME NEW s \in Seq(Octets)
  PROVE  /\ Escapes(s) \in [0 .. Len(s) -> Seq(Octets)] /\ Escapes(s)[0] = <<Flag>>
         /\ \A k \in 1 .. Len(s) : Escapes(s)[k] = Escape(Escapes(s)[k - 1], s[k])
<1> DEFINE n == Len(s)
           Values == Seq(Octets)
           step == [k \in 1 .. n |-> [x \in Values |-> Escape(x, s[k])]]
<1>1. <<Flag>> \in Values /\ n \in Nat
  BY OctetsAre DEF Flag
<1>2. \A k \in 1 .. n : \A x \in Values : Escape(x, s[k]) \in Values
  BY EscapeIs
<1> HIDE DEF n, Values
<1>3. step \in [1 .. n -> [Values -> Values]] /\ \A k \in 1 .. n : \A x \in Values : step[k][x] = Escape(x, s[k])
  BY <1>2
<1> HIDE DEF step
<1>4. PICK f : LoopOf(f, n, Values, <<Flag>>, step)
  BY <1>1, <1>3, LoopExists
<1>5. f \in [0 .. n -> Values] /\ f[0] = <<Flag>> /\ \A k \in 1 .. n : f[k] = Escape(f[k - 1], s[k])
  <2>1. \A k \in 1 .. n : f[k - 1] \in Values
    BY <1>1, <1>4 DEF LoopOf
  <2> QED BY <1>1, <1>3, <1>4, <2>1 DEF LoopOf
<1>6. f = [k \in 0 .. n |-> IF k = 0 THEN <<Flag>> ELSE Escape(f[k - 1], s[k])]
  BY <1>1, <1>5
<1>7. Escapes(s) = [k \in 0 .. n |-> IF k = 0 THEN <<Flag>> ELSE Escape(Escapes(s)[k - 1], s[k])]
  BY <1>6 DEF Escapes, n
<1>8. Escapes(s)[0] = <<Flag>> /\ \A k \in 1 .. n : Escapes(s)[k] = Escape(Escapes(s)[k - 1], s[k])
  BY <1>1, <1>7
<1>9. \A k \in 0 .. n : Escapes(s)[k] = f[k]
  <2>1. InStep(Escapes(s), f, n)
    BY <1>5, <1>8 DEF InStep
  <2>2. n \in Nat /\ Escapes(s)[0] = f[0]
    BY <1>1, <1>5, <1>8
  <2> QED BY <2>1, <2>2, LoopsAgree
<1>10. Escapes(s) \in [0 .. n -> Values]
  BY <1>5, <1>7, <1>9
<1> QED BY <1>8, <1>10 DEF n, Values

Undone == [escFlag : BOOLEAN, out : Seq(Octets)]
Begun == [escFlag |-> FALSE, out |-> <<>>]

LEMMA UnescapeIs ==
  ASSUME NEW u \in Undone, NEW c \in Octets
  PROVE  Unescape(u, c) \in Undone
<1>1. (c ^^ Mask) \in Octets
  BY OctetsAre, XorOfOctets DEF Mask
<1>2. Append(u.out, c) \in Seq(Octets) /\ Append(u.out, c ^^ Mask) \in Seq(Octets)
  BY <1>1, AppendProperties DEF Undone
<1> QED BY <1>2 DEF Unescape, Undone

LEMMA UnescapesAre ==
  ASSUME NEW s \in Seq(Octets)
  PROVE  /\ Unescapes(s) \in [0 .. Len(s) -> Undone] /\ Unescapes(s)[0] = Begun
         /\ \A k \in 1 .. Len(s) : Unescapes(s)[k] = Unescape(Unescapes(s)[k - 1], s[k])
<1> DEFINE n == Len(s)
           Values == Undone
           step == [k \in 1 .. n |-> [x \in Values |-> Unescape(x, s[k])]]
<1>1. Begun \in Values /\ n \in Nat
  BY DEF Begun, Undone
<1>2. \A k \in 1 .. n : \A x \in Values : Unescape(x, s[k]) \in Values
  BY UnescapeIs
<1> HIDE DEF n, Values
<1>3. step \in [1 .. n -> [Values -> Values]] /\ \A k \in 1 .. n : \A x \in Values : step[k][x] = Unescape(x, s[k])
  BY <1>2
<1> HIDE DEF step
<1>4. PICK f : LoopOf(f, n, Values, Begun, step)
  BY <1>1, <1>3, LoopExists
<1>5. f \in [0 .. n -> Values] /\ f[0] = Begun /\ \A k \in 1 .. n : f[k] = Unescape(f[k - 1], s[k])
  <2>1. \A k \in 1 .. n : f[k - 1] \in Values
    BY <1>1, <1>4 DEF LoopOf
  <2> QED BY <1>1, <1>3, <1>4, <2>1 DEF LoopOf
<1>6. f = [k \in 0 .. n |-> IF k = 0 THEN Begun ELSE Unescape(f[k - 1], s[k])]
  BY <1>1, <1>5
<1>7. Unescapes(s) = [k \in 0 .. n |-> IF k = 0 THEN Begun ELSE Unescape(Unescapes(s)[k - 1], s[k])]
  BY <1>6 DEF Unescapes, Begun, n
<1>8. Unescapes(s)[0] = Begun /\ \A k \in 1 .. n : Unescapes(s)[k] = Unescape(Unescapes(s)[k - 1], s[k])
  BY <1>1, <1>7
<1>9. \A k \in 0 .. n : Unescapes(s)[k] = f[k]
  <2>1. InStep(Unescapes(s), f, n)
    BY <1>5, <1>8 DEF InStep
  <2>2. n \in Nat /\ Unescapes(s)[0] = f[0]
    BY <1>1, <1>5, <1>8
  <2> QED BY <2>1, <2>2, LoopsAgree
<1>10. Unescapes(s) \in [0 .. n -> Values]
  BY <1>5, <1>7, <1>9
<1> QED BY <1>8, <1>10 DEF n, Values

-------------------------------------------------------------------------------
(* Framing and deframing *)

LEMMA FcsOfPrefix ==
  ASSUME NEW s \in Seq(Octets), NEW t \in Seq(Octets), Len(s) <= Len(t),
         \A i \in 1 .. Len(s) : t[i] = s[i]
  PROVE  FcsWrites(t)[Len(s)] = FcsWrites(s)[Len(s)]
<1> DEFINE f == FcsWrites(t)
           g == FcsWrites(s)
           n == Len(s)
<1>1. n \in Nat /\ \A k \in 1 .. n : k \in 1 .. Len(t)
  OBVIOUS
<1>2. f[0] = g[0] /\ \A k \in 1 .. n : f[k] = FcsWrite(f[k - 1], t[k]) /\ g[k] = FcsWrite(g[k - 1], s[k])
  BY <1>1, FcsWritesAre
<1>3. \A k \in 1 .. n : t[k] = s[k]
  OBVIOUS
<1> HIDE DEF f, g, n
<1>4. InStep(f, g, n)
  BY <1>2, <1>3 DEF InStep
<1>5. \A k \in 0 .. n : f[k] = g[k]
  <2>1. n \in Nat /\ f[0] = g[0]
    BY <1>1, <1>2
  <2> QED BY <1>4, <2>1, LoopsAgree
<1>6. f[n] = g[n]
  BY <1>1, <1>5
<1> QED BY <1>6 DEF f, g, n

\* Octets with their checksum pass the check.
LEMMA CheckedIs ==
  ASSUME NEW in \in Seq(Octets)
  PROVE  /\ Checked(in) \in Seq(Octets) /\ Len(Checked(in)) = Len(in) + 2
         /\ \A i \in 1 .. Len(in) : Checked(in)[i] = in[i]
         /\ FcsCheck(Checked(in))
<1> DEFINE n == Len(in)
           c == Checked(in)
           f == FcsWrites(in)[n]
           lo == FcsResult(f) % 256
           hi == FcsResult(f) \div 256
<1>1. n \in Nat /\ f \in Words
  BY FcsWritesAre
<1>2. c = in \o <<lo, hi>>
  BY DEF Checked, Fcs
<1> HIDE DEF f
<1>3. lo \in Octets /\ hi \in Octets /\ FcsResult(FcsWrite(FcsWrite(f, lo), hi)) = Good
  BY <1>1, Residue
<1> HIDE DEF lo, hi, c
<1>4. /\ c \in Seq(Octets) /\ Len(c) = n + 2
      /\ \A i \in 1 .. n : c[i] = in[i]
      /\ c[n + 1] = lo /\ c[n + 2] = hi
  <2>1. <<lo, hi>> \in Seq(Octets) /\ Len(<<lo, hi>>) = 2 /\ <<lo, hi>>[1] = lo /\ <<lo, hi>>[2] = hi
    BY <1>3
  <2> QED BY <1>1, <1>2, <2>1, ConcatProperties
<1>5. FcsWrites(c)[n] = f
  BY <1>4, FcsOfPrefix DEF f
<1>6. FcsWrites(c)[n + 1] = FcsWrite(f, lo) /\ FcsWrites(c)[n + 2] = FcsWrite(FcsWrite(f, lo), hi)
  <2>1. /\ n + 1 \in 1 .. Len(c) /\ (n + 1) - 1 = n
        /\ n + 2 \in 1 .. Len(c) /\ (n + 2) - 1 = n + 1
    BY <1>1, <1>4
  <2>2. \A k \in 1 .. Len(c) : FcsWrites(c)[k] = FcsWrite(FcsWrites(c)[k - 1], c[k])
    BY <1>4, FcsWritesAre
  <2> QED BY <1>4, <1>5, <2>1, <2>2
<1>7. Fcs(c) = Good
  BY <1>3, <1>4, <1>6 DEF Fcs
<1> QED BY <1>4, <1>7 DEF FcsCheck, c

Unescaped(s) == Unescapes(s)[Len(s)]

LEMMA UnescapedIs ==
  /\ Unescaped(<<>>) = Begun
  /\ \A s \in Seq(Octets) : Unescaped(s) \in Undone
  /\ \A s \in Seq(Octets), x \in Octets : Unescaped(s \o <<x>>) = Unescape(Unescaped(s), x)
<1>1. Unescaped(<<>>) = Begun
  BY EmptySeq, UnescapesAre DEF Unescaped
<1>2. ASSUME NEW s \in Seq(Octets) PROVE Unescaped(s) \in Undone
  <2>1. Len(s) \in 0 .. Len(s)
    OBVIOUS
  <2> QED BY <2>1, UnescapesAre DEF Unescaped
<1>3. ASSUME NEW s \in Seq(Octets), NEW x \in Octets
      PROVE  Unescaped(s \o <<x>>) = Unescape(Unescaped(s), x)
  <2> DEFINE t == s \o <<x>>
             f == Unescapes(t)
             g == Unescapes(s)
             n == Len(s)
  <2>1. n \in Nat /\ t \in Seq(Octets) /\ Len(t) = n + 1 /\ t[n + 1] = x /\ \A k \in 1 .. n : t[k] = s[k]
    <3>1. <<x>> \in Seq(Octets) /\ Len(<<x>>) = 1 /\ <<x>>[1] = x
      OBVIOUS
    <3> QED BY <3>1, ConcatProperties
  <2> HIDE DEF t
  <2>2. \A k \in 1 .. n : k \in 1 .. Len(t)
    BY <2>1
  <2>3. f[0] = g[0] /\ \A k \in 1 .. n : f[k] = Unescape(f[k - 1], t[k]) /\ g[k] = Unescape(g[k - 1], s[k])
    BY <2>1, <2>2, UnescapesAre
  <2>4. f[n + 1] = Unescape(f[n], x)
    <3>1. n + 1 \in 1 .. Len(t) /\ (n + 1) - 1 = n
      BY <2>1
    <3>2. \A k \in 1 .. Len(t) : f[k] = Unescape(f[k - 1], t[k])
      BY <2>1, UnescapesAre
    <3> QED BY <2>1, <3>1, <3>2
  <2> HIDE DEF f, g
  <2>5. InStep(f, g, n)
    BY <2>1, <2>3 DEF InStep
  <2> HIDE DEF n
  <2>6. \A k \in 0 .. n : f[k] = g[k]
    <3>1. n \in Nat /\ f[0] = g[0]
      BY <2>1, <2>3
    <3> QED BY <2>5, <3>1, LoopsAgree
  <2>7. f[n] = g[n]
    BY <2>1, <2>6
  <2> QED BY <2>1, <2>4, <2>7 DEF Unescaped, t, f, g, n
<1> QED BY <1>1, <1>2, <1>3

Plain == Octets \ {Flag}

\* What an octet was escaped to is unescaped to that octet.
LEMMA EscapedAndBack ==
  ASSUME NEW q \in Seq(Octets), NEW c \in Octets, NEW out \in Seq(Octets),
         Unescaped(q) = [escFlag |-> FALSE, out |-> out]
  PROVE  /\ Escaped(c) \in Seq(Plain) /\ Len(Escaped(c)) >= 1
         /\ Unescaped(q \o Escaped(c)) = [escFlag |-> FALSE, out |-> Append(out, c)]
<1>1. Escaped(c) \in Seq(Plain)
  BY EscapedIs DEF Plain
<1>2. 93 \in Octets /\ 94 \in Octets /\ 125 \in Octets
  BY MarkedOctets
<1>3. ASSUME NEW m \in Octets, Escaped(c) = <<Esc, m>>, m /= Esc, (m ^^ Mask) = c
      PROVE  Unescaped(q \o Escaped(c)) = [escFlag |-> FALSE, out |-> Append(out, c)]
  <2> DEFINE r == q \o <<Esc>>
  <2>1. Esc \in Octets /\ <<Esc>> \in Seq(Octets) /\ <<m>> \in Seq(Octets)
    BY <1>2 DEF Esc
  <2>2. r \in Seq(Octets) /\ q \o Escaped(c) = r \o <<m>>
    <3>1. Escaped(c) = <<Esc>> \o <<m>>
      BY <1>3, <2>1
    <3>2. (q \o <<Esc>>) \o <<m>> = q \o (<<Esc>> \o <<m>>)
      BY <2>1, ConcatAssociative
    <3> QED BY <2>1, <3>1, <3>2, ConcatProperties
  <2>3. Unescaped(r) = [escFlag |-> TRUE, out |-> out]
    <3>1. Unescaped(r) = Unescape(Unescaped(q), Esc)
      BY <2>1, UnescapedIs
    <3>2. Unescape([escFlag |-> FALSE, out |-> out], Esc) = [escFlag |-> TRUE, out |-> out]
      BY DEF Unescape
    <3> QED BY <3>1, <3>2
  <2>4. Unescaped(r \o <<m>>) = Unescape(Unescaped(r), m)
    BY <2>2, UnescapedIs
  <2>5. Unescape([escFlag |-> TRUE, out |-> out], m) = [escFlag |-> FALSE, out |-> Append(out, c)]
    BY <1>3 DEF Unescape
  <2> HIDE DEF r
  <2> QED BY <2>2, <2>3, <2>4, <2>5
<1>4. CASE c = Flag
  <2>1. Escaped(c) = <<Esc, 94>>
    BY <1>4, Masked DEF Escaped, Flag, Esc, Mask
  <2>2. (94 ^^ Mask) = c /\ 94 /= Esc
    BY <1>4, Masked DEF Mask, Flag, Esc
  <2>3. Unescaped(q \o Escaped(c)) = [escFlag |-> FALSE, out |-> Append(out, c)]
    BY <1>2, <1>3, <2>1, <2>2
  <2>4. Len(Escaped(c)) >= 1
    BY <2>1
  <2> QED BY <1>1, <2>3, <2>4
<1>5. CASE c = Esc
  <2>1. Escaped(c) = <<Esc, 93>>
    BY <1>5, Masked DEF Escaped, Flag, Esc, Mask
  <2>2. (93 ^^ Mask) = c /\ 93 /= Esc
    BY <1>5, Masked DEF Mask, Flag, Esc
  <2>3. Unescaped(q \o Escaped(c)) = [escFlag |-> FALSE, out |-> Append(out, c)]
    BY <1>2, <1>3, <2>1, <2>2
  <2>4. Len(Escaped(c)) >= 1
    BY <2>1
  <2> QED BY <1>1, <2>3, <2>4
<1>6. CASE c /= Flag /\ c /= Esc
  <2>1. Escaped(c) = <<c>>
    BY <1>6 DEF Escaped
  <2>2. Unescaped(q \o <<c>>) = Unescape(Unescaped(q), c)
    BY UnescapedIs
  <2>3. Unescape(Unescaped(q), c) = [escFlag |-> FALSE, out |-> Append(out, c)]
    BY <1>6 DEF Unescape
  <2> QED BY <1>1, <2>1, <2>2, <2>3
<1> QED BY <1>4, <1>5, <1>6

\* After every octet, what was written after the flag holds no flag and unescapes to
\* what went in.
LEMMA EscapesUndone ==
  ASSUME NEW c \in Seq(Octets)
  PROVE  \E q \in Seq(Plain) :
           /\ Escapes(c)[Len(c)] = <<Flag>> \o q /\ Len(q) >= Len(c)
           /\ Unescaped(q) = [escFlag |-> FALSE, out |-> c]
<1> DEFINE n == Len(c)
           So(k, q) == /\ Escapes(c)[k] = <<Flag>> \o q /\ Len(q) >= k
                       /\ Unescaped(q) = [escFlag |-> FALSE, out |-> SubSeq(c, 1, k)]
           S == {k \in 0 .. n : \E q \in Seq(Plain) : So(k, q)}
<1>0. /\ n \in Nat /\ Plain \subseteq Octets
      /\ Flag \in Octets /\ <<Flag>> \in Seq(Octets)
  BY OctetsAre DEF Plain, Flag
<1>1. \E q \in Seq(Plain) : So(0, q)
  <2>1. <<>> \in Seq(Plain) /\ Len(<<>>) = 0 /\ Escapes(c)[0] = <<Flag>> \o <<>>
    BY <1>0, EscapesAre, ConcatEmptySeq, EmptySeq
  <2>2. SubSeq(c, 1, 0) = <<>>
    BY SubSeqEmpty
  <2>3. Unescaped(<<>>) = [escFlag |-> FALSE, out |-> SubSeq(c, 1, 0)]
    BY <2>2, UnescapedIs DEF Begun
  <2>4. So(0, <<>>)
    BY <2>1, <2>3
  <2> HIDE DEF So
  <2> QED BY <2>1, <2>4
<1>2. ASSUME NEW k \in 1 .. n, k - 1 \in S PROVE k \in S
  <2>1. PICK q \in Seq(Plain) : So(k - 1, q)
    BY <1>2
  <2> DEFINE e == Escaped(c[k])
             r == q \o e
             out == SubSeq(c, 1, k - 1)
  <2>2. c[k] \in Octets /\ q \in Seq(Octets) /\ out \in Seq(Octets)
    BY <1>0, SeqMonotonic
  <2>3. /\ e \in Seq(Plain) /\ Len(e) >= 1
        /\ Unescaped(r) = [escFlag |-> FALSE, out |-> Append(out, c[k])]
    BY <2>1, <2>2, EscapedAndBack
  <2>4. Append(out, c[k]) = SubSeq(c, 1, k)
    <3>1. k \in 1 .. Len(c) /\ 1 \in 1 .. Len(c) /\ k \in 1 .. Len(c)
      BY <1>0
    <3>2. SubSeq(c, 1, k) = SubSeq(c, 1, k - 1) \o <<c[k]>>
      BY <3>1, SubSeqRecursiveSecond
    <3> QED BY <2>2, <3>2, AppendIsConcat
  <2>5. Escapes(c)[k] = <<Flag>> \o r
    <3>1. Escapes(c)[k] = Escapes(c)[k - 1] \o e
      BY EscapesAre DEF Escape
    <3>2. e \in Seq(Octets)
      BY <1>0, <2>3, SeqMonotonic
    <3>3. (<<Flag>> \o q) \o e = <<Flag>> \o (q \o e)
      BY <1>0, <2>2, <3>2, ConcatAssociative
    <3> QED BY <2>1, <3>1, <3>3
  <2>6. r \in Seq(Plain) /\ Len(r) >= k
    <3>1. r \in Seq(Plain) /\ Len(r) = Len(q) + Len(e) /\ Len(q) \in Nat /\ Len(e) \in Nat
      BY <2>3, ConcatProperties
    <3> QED BY <2>1, <2>3, <3>1
  <2>7. So(k, r)
    BY <2>3, <2>4, <2>5, <2>6
  <2> HIDE DEF So, r
  <2> QED BY <2>6, <2>7
<1>3. n \in S
  <2>0. 0 \in S
    BY <1>0, <1>1
  <2> HIDE DEF S
  <2>1. 0 .. n \subseteq S
    BY <1>0, <1>2, <2>0, Induct
  <2> QED BY <1>0, <2>1
<1>4. PICK q \in Seq(Plain) : So(n, q)
  BY <1>3
<1>5. SubSeq(c, 1, n) = c
  BY SubSeqFull
<1> QED BY <1>4, <1>5

\* A frame is a flag, octets without a flag that deframe to what was framed, and a flag.
LEMMA FrameIs ==
  ASSUME NEW in \in Seq(Octets)
  PROVE  \E q \in Seq(Plain) :
           /\ ppp_frame(in) = Append(<<Flag>> \o q, Flag) /\ Len(q) >= Len(in) + 2
           /\ ppp_frame(in) \in Seq(Octets) /\ Len(ppp_frame(in)) = Len(q) + 2
           /\ ppp_frame(in)[1] = Flag /\ ppp_frame(in)[Len(q) + 2] = Flag
           /\ \A k \in 1 .. Len(q) : ppp_frame(in)[k + 1] = q[k]
           /\ Interior(ppp_frame(in)) = q
           /\ Unescaped(q) = [escFlag |-> FALSE, out |-> Checked(in)]
<1> DEFINE c == Checked(in)
           frame == ppp_frame(in)
<1>1. c \in Seq(Octets) /\ Len(c) = Len(in) + 2
  BY CheckedIs
<1>2. PICK q \in Seq(Plain) : /\ Escapes(c)[Len(c)] = <<Flag>> \o q /\ Len(q) >= Len(c)
                              /\ Unescaped(q) = [escFlag |-> FALSE, out |-> c]
  BY <1>1, EscapesUndone
<1>3. frame = Append(<<Flag>> \o q, Flag)
  BY <1>2 DEF ppp_frame
<1>4. /\ Flag \in Octets /\ <<Flag>> \in Seq(Octets) /\ Len(<<Flag>>) = 1 /\ <<Flag>>[1] = Flag
      /\ q \in Seq(Octets) /\ Len(q) \in Nat
  <2>1. Flag \in Octets
    BY OctetsAre DEF Flag
  <2>2. q \in Seq(Octets)
    BY <1>2, SeqMonotonic, Plain \subseteq Octets DEF Plain
  <2> QED BY <2>1, <2>2
<1> DEFINE r == <<Flag>> \o q
           n == Len(q)
<1>5. /\ r \in Seq(Octets) /\ Len(r) = n + 1 /\ r[1] = Flag
      /\ \A k \in 1 .. n : r[k + 1] = q[k]
  <2>1. /\ r \in Seq(Octets) /\ Len(r) = Len(<<Flag>>) + n
        /\ \A i \in 1 .. Len(<<Flag>>) + n : r[i] = IF i <= Len(<<Flag>>) THEN <<Flag>>[i] ELSE q[i - Len(<<Flag>>)]
    BY <1>4, ConcatProperties
  <2> HIDE DEF r
  <2> QED BY <1>4, <2>1
<1> HIDE DEF r, n
<1>6. /\ frame \in Seq(Octets) /\ Len(frame) = n + 2 /\ frame[1] = Flag /\ frame[n + 2] = Flag
      /\ \A k \in 1 .. n : frame[k + 1] = q[k]
  <2>1. /\ frame \in Seq(Octets) /\ Len(frame) = Len(r) + 1
        /\ \A i \in 1 .. Len(r) : frame[i] = r[i]
        /\ frame[Len(r) + 1] = Flag
    BY <1>3, <1>4, <1>5, AppendProperties DEF r
  <2>2. n \in Nat /\ \A k \in 1 .. n : k + 1 \in 1 .. n + 1
    BY <1>4 DEF n
  <2> HIDE DEF frame
  <2>3. 1 \in 1 .. Len(r) /\ Len(r) + 1 = n + 2
    BY <1>5, <2>2
  <2>4. \A k \in 1 .. n : frame[k + 1] = q[k]
    BY <1>5, <2>1, <2>2
  <2> QED BY <1>5, <2>1, <2>3, <2>4
<1>7. Interior(frame) = q
  <2> HIDE DEF frame
  <2> DEFINE s == SubSeq(frame, 2, n + 1)
  <2>0. n \in Nat
    BY <1>4 DEF n
  <2>1. \A i \in 2 .. n + 1 : frame[i] \in Octets
    BY <1>6, <2>0
  <2>2. /\ s \in Seq(Octets) /\ Len(s) = n
        /\ \A i \in 1 .. n : s[i] = frame[i + 1]
    <3>1. /\ s \in Seq(Octets) /\ Len(s) = IF 2 <= n + 1 THEN (n + 1) - 2 + 1 ELSE 0
          /\ \A i \in 1 .. (n + 1) - 2 + 1 : s[i] = frame[2 + i - 1]
      BY <2>0, <2>1, SubSeqProperties
    <3>2. (n + 1) - 2 + 1 = n /\ \A i \in 1 .. n : 2 + i - 1 = i + 1
      BY <2>0
    <3>3. Len(s) = n
      <4>1. (IF 2 <= n + 1 THEN (n + 1) - 2 + 1 ELSE 0) = n
        BY <2>0
      <4> HIDE DEF s
      <4> QED BY <3>1, <4>1
    <3> HIDE DEF s
    <3> QED BY <3>1, <3>2, <3>3
  <2> HIDE DEF s
  <2>3. s = q
    <3>1. Len(s) = Len(q) /\ \A i \in 1 .. Len(s) : s[i] = q[i]
      BY <1>6, <2>2 DEF n
    <3> QED BY <1>4, <2>2, <3>1, SeqEqual
  <2>4. Len(frame) - 1 = n + 1
    BY <1>6, <2>0
  <2> QED BY <2>3, <2>4 DEF Interior, s
<1> QED BY <1>1, <1>2, <1>3, <1>6, <1>7 DEF r, n

\* What is between the flags of a frame is taken for the payload that was sent.
LEMMA FramesComeBack ==
  ASSUME NEW in \in Seq(Octets)
  PROVE  /\ {k \in DOMAIN ppp_frame(in) : ppp_frame(in)[k] = Flag} = {1, Len(ppp_frame(in))}
         /\ in /= <<>> => ppp_deframe(Interior(ppp_frame(in))) = [ok |-> TRUE, payload |-> in]
<1> DEFINE frame == ppp_frame(in)
           c == Checked(in)
<1>1. PICK q \in Seq(Plain) :
           /\ Len(q) >= Len(in) + 2
           /\ frame \in Seq(Octets) /\ Len(frame) = Len(q) + 2
           /\ frame[1] = Flag /\ frame[Len(q) + 2] = Flag
           /\ \A k \in 1 .. Len(q) : frame[k + 1] = q[k]
           /\ Interior(frame) = q
           /\ Unescaped(q) = [escFlag |-> FALSE, out |-> c]
  BY FrameIs
<1>2. /\ c \in Seq(Octets) /\ Len(c) = Len(in) + 2 /\ FcsCheck(c)
      /\ \A i \in 1 .. Len(in) : c[i] = in[i]
  BY CheckedIs
<1> HIDE DEF frame, c
<1>3. \A k \in 1 .. Len(q) : q[k] /= Flag
  BY DEF Plain
<1>4. {k \in DOMAIN frame : frame[k] = Flag} = {1, Len(frame)}
  <2>1. DOMAIN frame = 1 .. Len(q) + 2 /\ Len(q) \in Nat
    BY <1>1
  <2>2. ASSUME NEW k \in 1 .. Len(q) + 2, frame[k] = Flag PROVE k = 1 \/ k = Len(q) + 2
    <3> SUFFICES ASSUME k /= 1, k /= Len(q) + 2 PROVE FALSE
      OBVIOUS
    <3>1. k - 1 \in 1 .. Len(q) /\ (k - 1) + 1 = k
      BY <2>1
    <3>2. frame[k] = q[k - 1]
      BY <1>1, <3>1
    <3> QED BY <1>3, <2>2, <3>1, <3>2
  <2> QED BY <1>1, <2>1, <2>2
<1>5. ASSUME in /= <<>> PROVE ppp_deframe(q) = [ok |-> TRUE, payload |-> in]
  <2>1. Len(in) \in Nat /\ Len(in) >= 1
    BY <1>5, EmptySeq
  <2>2. Len(q) >= 3 /\ \A k \in DOMAIN q : q[k] /= Flag
    BY <1>1, <1>3, <2>1
  <2>3. SubSeq(c, 1, Len(c) - 2) = in
    <3> DEFINE n == Len(in)
               s == SubSeq(c, 1, n)
    <3>1. Len(c) - 2 = n /\ n \in Nat /\ n >= 1
      BY <1>2, <2>1
    <3>2. \A i \in 1 .. n : c[i] \in Octets
      BY <1>2
    <3>3. s \in Seq(Octets) /\ Len(s) = n /\ \A i \in 1 .. n : s[i] = in[i]
      <4>1. /\ s \in Seq(Octets) /\ Len(s) = (IF 1 <= n THEN n - 1 + 1 ELSE 0)
            /\ \A i \in 1 .. n - 1 + 1 : s[i] = c[1 + i - 1]
        BY <3>1, <3>2, SubSeqProperties
      <4>2. n - 1 + 1 = n /\ \A i \in 1 .. n : 1 + i - 1 = i
        BY <3>1
      <4>3. Len(s) = n
        BY <3>1, <4>1
      <4> HIDE DEF s
      <4> QED BY <1>2, <4>1, <4>2, <4>3
    <3> HIDE DEF s
    <3>4. s = in
      BY <3>3, SeqEqual
    <3> QED BY <3>1, <3>4 DEF s
  <2> DEFINE u == Unescapes(q)[Len(q)]
  <2>4. u.out = c /\ u.escFlag = FALSE
    BY <1>1 DEF Unescaped
  <2> HIDE DEF u
  <2> QED BY <1>2, <2>2, <2>3, <2>4 DEF ppp_deframe, u
<1> QED BY <1>1, <1>4, <1>5 DEF frame

\* The checksum of nothing is 0: its frame holds two octets, which ppp_deframe refuses.
LEMMA NothingIsRefused ==
  ppp_deframe(Interior(ppp_frame(<<>>))) = [ok |-> FALSE, payload |-> <<>>]
<1>1. <<>> \in Seq(Octets) /\ Len(<<>>) = 0
  OBVIOUS
<1>2. Fcs(<<>>) = 0
  <2>1. FcsWrites(<<>>)[0] = FcsInit
    BY <1>1, FcsWritesAre
  <2> QED BY <1>1, <2>1 DEF Fcs, FcsResult, FcsInit, MaxWord
<1> DEFINE c == <<0, 0>>
<1>3. Checked(<<>>) = c
  <2>1. 0 % 256 = 0 /\ 0 \div 256 = 0
    OBVIOUS
  <2>2. Checked(<<>>) = <<>> \o <<0 % 256, 0 \div 256>>
    BY <1>2 DEF Checked
  <2> QED BY <2>1, <2>2
<1>4. 0 \in Octets /\ Flag \in Octets
  BY OctetsAre DEF Flag
<1>5. Escaped(0) = <<0>>
  BY DEF Escaped, Esc, Flag
<1>6. Escapes(c)[2] = (<<Flag>> \o <<0>>) \o <<0>>
  <2>1. c \in Seq(Octets) /\ Len(c) = 2 /\ c[1] = 0 /\ c[2] = 0
    BY <1>4
  <2> HIDE DEF c
  <2>2. 1 \in 1 .. Len(c) /\ 2 \in 1 .. Len(c) /\ 1 - 1 = 0 /\ 2 - 1 = 1
    BY <2>1
  <2>3. Escapes(c)[1] = <<Flag>> \o <<0>>
    BY <1>5, <2>1, <2>2, EscapesAre DEF Escape
  <2>4. Escapes(c)[2] = Escapes(c)[1] \o <<0>>
    BY <1>5, <2>1, <2>2, EscapesAre DEF Escape
  <2> QED BY <2>3, <2>4
<1>7. PICK q \in Seq(Plain) :
           /\ ppp_frame(<<>>) = Append(<<Flag>> \o q, Flag)
           /\ Len(ppp_frame(<<>>)) = Len(q) + 2
           /\ Interior(ppp_frame(<<>>)) = q
  BY <1>1, FrameIs
<1>8. ppp_frame(<<>>) = Append(Escapes(c)[2], Flag)
  <2>1. Len(c) = 2
    OBVIOUS
  <2> HIDE DEF c
  <2> QED BY <1>3, <2>1 DEF ppp_frame
<1>9. Len(ppp_frame(<<>>)) = 4
  <2> DEFINE a == <<Flag>>
             b == <<0>>
  <2>1. a \in Seq(Octets) /\ b \in Seq(Octets) /\ Len(a) = 1 /\ Len(b) = 1
    BY <1>4
  <2> HIDE DEF a, b
  <2> DEFINE r == a \o b
  <2>2. r \in Seq(Octets) /\ Len(r) = Len(a) + Len(b)
    BY <2>1, ConcatProperties
  <2> HIDE DEF r
  <2> DEFINE s == r \o b
  <2>3. s \in Seq(Octets) /\ Len(s) = Len(r) + Len(b)
    BY <2>1, <2>2, ConcatProperties
  <2>4. ppp_frame(<<>>) = Append(s, Flag)
    BY <1>6, <1>8 DEF a, b, r
  <2> HIDE DEF s
  <2>5. Len(Append(s, Flag)) = Len(s) + 1
    BY <1>4, <2>3, AppendProperties
  <2>6. Len(Append(s, Flag)) = 4
    BY <2>1, <2>2, <2>3, <2>5
  <2> QED BY <2>4, <2>6
<1>10. ~ (Len(q) >= 3)
  <2> DEFINE n == Len(q)
  <2>1. n \in Nat /\ n + 2 = 4
    BY <1>7, <1>9, LenProperties
  <2> HIDE DEF n
  <2>2. ~ (n >= 3)
    BY <2>1
  <2> QED BY <2>2 DEF n
<1> QED BY <1>7, <1>10 DEF ppp_deframe

Framed == payload \in Seq(Octets) \cup {None}

LEMMA Returned ==
  ASSUME NEW in \in Seq(Octets)
  PROVE  /\ {k \in DOMAIN ppp_frame(in) : ppp_frame(in)[k] = Flag} = {1, Len(ppp_frame(in))}
         /\ ppp_deframe(Interior(ppp_frame(in))) = [ok |-> in /= <<>>, payload |-> in]
<1>1. CASE in = <<>>
  BY <1>1, FramesComeBack, NothingIsRefused
<1>2. CASE in /= <<>>
  BY <1>2, FramesComeBack
<1> QED BY <1>1, <1>2

LEMMA PayloadsAreFramed == FramingInit => Framed
<1>1. ASSUME NEW p \in Payloads PROVE p \in Seq(Octets)
  <2>1. PICK n \in 0 .. MaxLen : p \in [1 .. n -> Alphabet]
    BY DEF Payloads
  <2>2. n \in Nat /\ p \in [1 .. n -> Octets]
    BY <2>1, AlphabetAssumption
  <2> QED BY <2>2, IsASeq
<1> QED BY <1>1 DEF FramingInit, Framed

\* Whatever payload is framed, of any length, the frame has its two flags and none between
\* them, and what is between them is taken for that payload and no other; only an empty one
\* is refused, as too short (ppp_frame.cpp:64-77, 89-127).
THEOREM PayloadsComeBack == FramingSpec => []RoundTrip
<1>1. FramingInit => Framed
  BY PayloadsAreFramed
<1>2. Framed /\ [FALSE]_payload => Framed'
  BY DEF Framed
<1>3. Framed => RoundTrip
  BY Returned DEF Framed, RoundTrip
<1> QED BY <1>1, <1>2, <1>3, PTL DEF FramingSpec
-------------------------------------------------------------------------------
(* Octets that were damaged *)

\* The high octet of an entry of the table, bit by bit.
LEMMA HighOfEntry ==
  ASSUME NEW b0 \in {0, 1}, NEW b1 \in {0, 1}, NEW b2 \in {0, 1}, NEW b3 \in {0, 1},
         NEW b4 \in {0, 1}, NEW b5 \in {0, 1}, NEW b6 \in {0, 1}, NEW b7 \in {0, 1}
  PROVE  fcsTable[1 + b0 + 2 * b1 + 4 * b2 + 8 * b3 + 16 * b4 + 32 * b5 + 64 * b6 + 128 * b7] \div 256 =
           (IF b0 = (IF b5 = b1 THEN 0 ELSE 1) THEN 0 ELSE 1)
           + 2 * (IF b1 = (IF b6 = b2 THEN 0 ELSE 1) THEN 0 ELSE 1)
           + 4 * (IF b2 = (IF b7 = b3 THEN 0 ELSE 1) THEN 0 ELSE 1)
           + 8 * b3
           + 16 * (IF b4 = b0 THEN 0 ELSE 1)
           + 32 * (IF b5 = b1 THEN 0 ELSE 1)
           + 64 * (IF b6 = b2 THEN 0 ELSE 1)
           + 128 * (IF b7 = b3 THEN 0 ELSE 1)
  BY SMTT(120) DEF fcsTable

LEMMA EntriesAreWords ==
  ASSUME NEW p \in Octets
  PROVE  fcsTable[p + 1] \in Words
<1>1. p + 1 \in 1 .. 256
  BY OctetsAre
<1>2. fcsTable \in [1 .. 256 -> Int] /\ \A i \in 1 .. 256 : 0 <= fcsTable[i] /\ fcsTable[i] <= 65535
  BY SMTT(120) DEF fcsTable
<1> QED BY <1>1, <1>2, WordsAre

\* Different entries differ in their high octets.
LEMMA EntriesDiffer ==
  ASSUME NEW p \in Octets, NEW q \in Octets,
         fcsTable[p + 1] \div 256 = fcsTable[q + 1] \div 256
  PROVE  p = q
<1>1. PICK b0, b1, b2, b3, b4, b5, b6, b7 \in {0, 1} :
           p = b0 + 2 * b1 + 4 * b2 + 8 * b3 + 16 * b4 + 32 * b5 + 64 * b6 + 128 * b7
  BY Octet
<1>2. PICK c0, c1, c2, c3, c4, c5, c6, c7 \in {0, 1} :
           q = c0 + 2 * c1 + 4 * c2 + 8 * c3 + 16 * c4 + 32 * c5 + 64 * c6 + 128 * c7
  BY Octet
<1> DEFINE X(x, y) == IF x = y THEN 0 ELSE 1
           m == fcsTable[p + 1] \div 256
           n == fcsTable[q + 1] \div 256
<1>3. \A x, y : X(x, y) \in {0, 1}
  OBVIOUS
<1>4. m = X(b0, X(b5, b1)) + 2 * X(b1, X(b6, b2)) + 4 * X(b2, X(b7, b3)) + 8 * b3
          + 16 * X(b4, b0) + 32 * X(b5, b1) + 64 * X(b6, b2) + 128 * X(b7, b3)
  <2>1. p + 1 = 1 + b0 + 2 * b1 + 4 * b2 + 8 * b3 + 16 * b4 + 32 * b5 + 64 * b6 + 128 * b7
    BY <1>1
  <2> QED BY <2>1, HighOfEntry
<1>5. n = X(c0, X(c5, c1)) + 2 * X(c1, X(c6, c2)) + 4 * X(c2, X(c7, c3)) + 8 * c3
          + 16 * X(c4, c0) + 32 * X(c5, c1) + 64 * X(c6, c2) + 128 * X(c7, c3)
  <2>1. q + 1 = 1 + c0 + 2 * c1 + 4 * c2 + 8 * c3 + 16 * c4 + 32 * c5 + 64 * c6 + 128 * c7
    BY <1>2
  <2> QED BY <2>1, HighOfEntry
<1>6. m = n
  OBVIOUS
<1> HIDE DEF X, m, n
<1>7. m \in Int /\ n \in Int
  <2>1. ASSUME NEW a0 \in {0, 1}, NEW a1 \in {0, 1}, NEW a2 \in {0, 1}, NEW a3 \in {0, 1},
               NEW a4 \in {0, 1}, NEW a5 \in {0, 1}, NEW a6 \in {0, 1}, NEW a7 \in {0, 1}
        PROVE  a0 + 2 * a1 + 4 * a2 + 8 * a3 + 16 * a4 + 32 * a5 + 64 * a6 + 128 * a7 \in Int
    OBVIOUS
  <2> QED BY <1>3, <1>4, <1>5, <2>1
<1>8. /\ Bit(m, 1) = X(b0, X(b5, b1)) /\ Bit(m, 2) = X(b1, X(b6, b2))
      /\ Bit(m, 4) = X(b2, X(b7, b3)) /\ Bit(m, 8) = b3
      /\ Bit(m, 16) = X(b4, b0) /\ Bit(m, 32) = X(b5, b1)
      /\ Bit(m, 64) = X(b6, b2) /\ Bit(m, 128) = X(b7, b3)
  BY <1>3, <1>4, <1>7, Bits
<1>9. /\ Bit(n, 1) = X(c0, X(c5, c1)) /\ Bit(n, 2) = X(c1, X(c6, c2))
      /\ Bit(n, 4) = X(c2, X(c7, c3)) /\ Bit(n, 8) = c3
      /\ Bit(n, 16) = X(c4, c0) /\ Bit(n, 32) = X(c5, c1)
      /\ Bit(n, 64) = X(c6, c2) /\ Bit(n, 128) = X(c7, c3)
  BY <1>3, <1>5, <1>7, Bits
<1>10. \A x, y, z \in {0, 1} : /\ X(x, z) = X(y, z) => x = y
                               /\ X(z, x) = X(z, y) => x = y
  BY DEF X
<1>11. b3 = c3 /\ X(b7, b3) = X(c7, c3) /\ X(b6, b2) = X(c6, c2) /\ X(b5, b1) = X(c5, c1) /\ X(b4, b0) = X(c4, c0)
  BY <1>6, <1>8, <1>9
<1>12. b7 = c7 /\ b2 = c2 /\ b1 = c1 /\ b0 = c0
  BY <1>3, <1>6, <1>8, <1>9, <1>10, <1>11
<1>13. b6 = c6 /\ b5 = c5 /\ b4 = c4
  BY <1>10, <1>11, <1>12
<1> QED BY <1>1, <1>2, <1>11, <1>12, <1>13

\* The low and the high octet of an exclusive or with an octet.
Low(x, t) ==
  LET e(w) == IF Bit(x, w) = Bit(t, w) THEN 0 ELSE 1
  IN e(1) + 2 * e(2) + 4 * e(4) + 8 * e(8) + 16 * e(16) + 32 * e(32) + 64 * e(64) + 128 * e(128)

LEMMA XorWithOctet ==
  ASSUME NEW x \in Octets, NEW t \in Words
  PROVE  (x ^^ t) = 256 * (t \div 256) + Low(x, t) /\ Low(x, t) \in Octets
<1>1. PICK hi, lo \in Octets : hi = t \div 256 /\ t = 256 * hi + lo
  BY Halves
<1>2. PICK c0, c1, c2, c3, c4, c5, c6, c7 \in {0, 1} :
           hi = c0 + 2 * c1 + 4 * c2 + 8 * c3 + 16 * c4 + 32 * c5 + 64 * c6 + 128 * c7
  BY Octet
<1>3. lo \in Int /\ 0 <= lo /\ lo <= 255 /\ t \in Int
  BY OctetsAre, WordsAre
<1>4. /\ Bit(t, 256) = c0 /\ Bit(t, 512) = c1 /\ Bit(t, 1024) = c2 /\ Bit(t, 2048) = c3
      /\ Bit(t, 4096) = c4 /\ Bit(t, 8192) = c5 /\ Bit(t, 16384) = c6 /\ Bit(t, 32768) = c7
  <2>0. t = 256 * hi + lo /\ hi \in Int
    BY <1>1, OctetsAre
  <2>1. Bit(t, 256) = c0 BY <1>2, <1>3, <2>0 DEF Bit
  <2>2. Bit(t, 512) = c1 BY <1>2, <1>3, <2>0 DEF Bit
  <2>3. Bit(t, 1024) = c2 BY <1>2, <1>3, <2>0 DEF Bit
  <2>4. Bit(t, 2048) = c3 BY <1>2, <1>3, <2>0 DEF Bit
  <2>5. Bit(t, 4096) = c4 BY <1>2, <1>3, <2>0 DEF Bit
  <2>6. Bit(t, 8192) = c5 BY <1>2, <1>3, <2>0 DEF Bit
  <2>7. Bit(t, 16384) = c6 BY <1>2, <1>3, <2>0 DEF Bit
  <2>8. Bit(t, 32768) = c7 BY <1>2, <1>3, <2>0 DEF Bit
  <2> QED BY <2>1, <2>2, <2>3, <2>4, <2>5, <2>6, <2>7, <2>8
<1>5. /\ Bit(x, 256) = 0 /\ Bit(x, 512) = 0 /\ Bit(x, 1024) = 0 /\ Bit(x, 2048) = 0
      /\ Bit(x, 4096) = 0 /\ Bit(x, 8192) = 0 /\ Bit(x, 16384) = 0 /\ Bit(x, 32768) = 0
  BY OctetsAre DEF Bit
<1> DEFINE d(w) == IF Bit(x, w) = Bit(t, w) THEN 0 ELSE w
           e(w) == IF Bit(x, w) = Bit(t, w) THEN 0 ELSE 1
<1>6. /\ d(256) = 256 * c0 /\ d(512) = 512 * c1 /\ d(1024) = 1024 * c2 /\ d(2048) = 2048 * c3
      /\ d(4096) = 4096 * c4 /\ d(8192) = 8192 * c5 /\ d(16384) = 16384 * c6 /\ d(32768) = 32768 * c7
  BY <1>4, <1>5
<1>7. \A w \in Nat : d(w) = w * e(w) /\ e(w) \in {0, 1}
  OBVIOUS
<1>8. (x ^^ t) = d(1) + d(2) + d(4) + d(8) + d(16) + d(32) + d(64) + d(128)
     + d(256) + d(512) + d(1024) + d(2048) + d(4096) + d(8192) + d(16384) + d(32768)
  BY DEF ^^
<1>9. Low(x, t) = e(1) + 2 * e(2) + 4 * e(4) + 8 * e(8) + 16 * e(16) + 32 * e(32) + 64 * e(64) + 128 * e(128)
  BY DEF Low
<1> HIDE DEF d, e
<1>10. PICK e0, e1, e2, e3, e4, e5, e6, e7 \in {0, 1} :
         /\ e(1) = e0 /\ e(2) = e1 /\ e(4) = e2 /\ e(8) = e3 /\ e(16) = e4 /\ e(32) = e5
         /\ e(64) = e6 /\ e(128) = e7
  BY <1>7
<1>11. /\ d(1) = e0 /\ d(2) = 2 * e1 /\ d(4) = 4 * e2 /\ d(8) = 8 * e3 /\ d(16) = 16 * e4
       /\ d(32) = 32 * e5 /\ d(64) = 64 * e6 /\ d(128) = 128 * e7
  BY <1>7, <1>10
<1> DEFINE low == e0 + 2 * e1 + 4 * e2 + 8 * e3 + 16 * e4 + 32 * e5 + 64 * e6 + 128 * e7
<1>12. (x ^^ t) = 256 * hi + low
  <2> DEFINE below == d(1) + d(2) + d(4) + d(8) + d(16) + d(32) + d(64) + d(128)
             above == d(256) + d(512) + d(1024) + d(2048) + d(4096) + d(8192) + d(16384) + d(32768)
  <2>1. (x ^^ t) = below + above
    <3>1. \A w \in Nat : d(w) \in Int
      BY <1>7
    <3> QED BY <1>8, <3>1
  <2>2. below = low
    BY <1>11
  <2>3. above = 256 * hi
    BY <1>2, <1>6
  <2>4. low \in Int /\ hi \in Int
    BY OctetsAre
  <2> HIDE DEF below, above, low
  <2> QED BY <2>1, <2>2, <2>3, <2>4
<1>13. Low(x, t) = low
  BY <1>9, <1>10
<1>14. low \in Octets
  BY OctetsAre
<1> QED BY <1>1, <1>12, <1>13, <1>14

LEMMA LowCommutes ==
  ASSUME NEW x, NEW y
  PROVE  Low(x, y) = Low(y, x)
<1> DEFINE e(w) == IF Bit(x, w) = Bit(y, w) THEN 0 ELSE 1
           f(w) == IF Bit(y, w) = Bit(x, w) THEN 0 ELSE 1
<1>1. e(1) = f(1) /\ e(2) = f(2) /\ e(4) = f(4) /\ e(8) = f(8)
      /\ e(16) = f(16) /\ e(32) = f(32) /\ e(64) = f(64) /\ e(128) = f(128)
  OBVIOUS
<1>2. Low(x, y) = e(1) + 2 * e(2) + 4 * e(4) + 8 * e(8) + 16 * e(16) + 32 * e(32) + 64 * e(64) + 128 * e(128)
  BY DEF Low
<1>3. Low(y, x) = f(1) + 2 * f(2) + 4 * f(4) + 8 * f(8) + 16 * f(16) + 32 * f(32) + 64 * f(64) + 128 * f(128)
  BY DEF Low
<1> HIDE DEF e, f
<1> QED BY <1>1, <1>2, <1>3

LEMMA LowCancels ==
  ASSUME NEW x \in Octets, NEW y \in Octets, NEW t, Low(x, t) = Low(y, t),
         \A w \in {1, 2, 4, 8, 16, 32, 64, 128} : Bit(t, w) \in {0, 1}
  PROVE  x = y
<1>1. PICK b0, b1, b2, b3, b4, b5, b6, b7 \in {0, 1} :
           x = b0 + 2 * b1 + 4 * b2 + 8 * b3 + 16 * b4 + 32 * b5 + 64 * b6 + 128 * b7
  BY Octet
<1>2. PICK c0, c1, c2, c3, c4, c5, c6, c7 \in {0, 1} :
           y = c0 + 2 * c1 + 4 * c2 + 8 * c3 + 16 * c4 + 32 * c5 + 64 * c6 + 128 * c7
  BY Octet
<1>3. /\ Bit(x, 1) = b0 /\ Bit(x, 2) = b1 /\ Bit(x, 4) = b2 /\ Bit(x, 8) = b3
      /\ Bit(x, 16) = b4 /\ Bit(x, 32) = b5 /\ Bit(x, 64) = b6 /\ Bit(x, 128) = b7
  BY <1>1, OctetsAre, Bits
<1>4. /\ Bit(y, 1) = c0 /\ Bit(y, 2) = c1 /\ Bit(y, 4) = c2 /\ Bit(y, 8) = c3
      /\ Bit(y, 16) = c4 /\ Bit(y, 32) = c5 /\ Bit(y, 64) = c6 /\ Bit(y, 128) = c7
  BY <1>2, OctetsAre, Bits
<1> DEFINE e(w) == IF Bit(x, w) = Bit(t, w) THEN 0 ELSE 1
           f(w) == IF Bit(y, w) = Bit(t, w) THEN 0 ELSE 1
           n == Low(x, t)
<1>5. n = e(1) + 2 * e(2) + 4 * e(4) + 8 * e(8) + 16 * e(16) + 32 * e(32) + 64 * e(64) + 128 * e(128)
  BY DEF Low
<1>6. n = f(1) + 2 * f(2) + 4 * f(4) + 8 * f(8) + 16 * f(16) + 32 * f(32) + 64 * f(64) + 128 * f(128)
  BY DEF Low
<1>7. \A w : e(w) \in {0, 1} /\ f(w) \in {0, 1}
  OBVIOUS
<1>8. \A w \in {1, 2, 4, 8, 16, 32, 64, 128} :
        Bit(x, w) \in {0, 1} /\ Bit(y, w) \in {0, 1} /\ e(w) = f(w) => Bit(x, w) = Bit(y, w)
  OBVIOUS
<1> HIDE DEF n, e, f
<1>9. n \in Int
  <2>1. PICK e0, e1, e2, e3, e4, e5, e6, e7 \in {0, 1} :
         /\ e(1) = e0 /\ e(2) = e1 /\ e(4) = e2 /\ e(8) = e3 /\ e(16) = e4 /\ e(32) = e5
         /\ e(64) = e6 /\ e(128) = e7
    BY <1>7
  <2> QED BY <1>5, <2>1
<1>10. /\ Bit(n, 1) = e(1) /\ Bit(n, 2) = e(2) /\ Bit(n, 4) = e(4) /\ Bit(n, 8) = e(8)
       /\ Bit(n, 16) = e(16) /\ Bit(n, 32) = e(32) /\ Bit(n, 64) = e(64) /\ Bit(n, 128) = e(128)
  BY <1>5, <1>7, <1>9, Bits
<1>11. /\ Bit(n, 1) = f(1) /\ Bit(n, 2) = f(2) /\ Bit(n, 4) = f(4) /\ Bit(n, 8) = f(8)
       /\ Bit(n, 16) = f(16) /\ Bit(n, 32) = f(32) /\ Bit(n, 64) = f(64) /\ Bit(n, 128) = f(128)
  BY <1>6, <1>7, <1>9, Bits
<1>12. b0 = c0 /\ b1 = c1 /\ b2 = c2 /\ b3 = c3 /\ b4 = c4 /\ b5 = c5 /\ b6 = c6 /\ b7 = c7
  BY <1>3, <1>4, <1>8, <1>10, <1>11
<1> QED BY <1>1, <1>2, <1>12

LEMMA BitsAre ==
  ASSUME NEW t \in Int, NEW w \in Nat \ {0}
  PROVE  Bit(t, w) \in {0, 1}
<1>1. t \div w \in Int
  OBVIOUS
<1> DEFINE q == t \div w
<1> HIDE DEF q
<1>2. q % 2 \in {0, 1}
  BY <1>1 DEF q
<1> QED BY <1>2 DEF Bit, q

\* Different octets, added to the same checksum, give different ones; so does an octet
\* added to different checksums.
LEMMA FcsWritesDiffer ==
  ASSUME NEW f \in Words, NEW g \in Words, NEW a \in Octets, NEW b \in Octets,
         FcsWrite(f, a) = FcsWrite(g, b), f = g \/ a = b
  PROVE  f = g /\ a = b
<1>1. PICK fh, fl \in Octets : fh = f \div 256 /\ fl = f % 256 /\ f = 256 * fh + fl
  BY Halves
<1>2. PICK gh, gl \in Octets : gh = g \div 256 /\ gl = g % 256 /\ g = 256 * gh + gl
  BY Halves
<1> DEFINE p == fl ^^ a
           q == gl ^^ b
           s == fcsTable[p + 1]
           t == fcsTable[q + 1]
<1>3. p \in Octets /\ q \in Octets
  BY XorOfOctets
<1>4. FcsWrite(f, a) = (fh ^^ s) /\ FcsWrite(g, b) = (gh ^^ t)
  BY <1>1, <1>2 DEF FcsWrite
<1> HIDE DEF p, q
<1>5. s \in Words /\ t \in Words
  BY <1>3, EntriesAreWords
<1> HIDE DEF s, t
<1>6. 256 * (s \div 256) + Low(fh, s) = 256 * (t \div 256) + Low(gh, t)
  <2>1. (fh ^^ s) = 256 * (s \div 256) + Low(fh, s)
    BY <1>5, XorWithOctet
  <2>2. (gh ^^ t) = 256 * (t \div 256) + Low(gh, t)
    BY <1>5, XorWithOctet
  <2>3. (fh ^^ s) = (gh ^^ t)
    BY <1>4
  <2> QED BY <2>1, <2>2, <2>3
<1>7. /\ s \div 256 \in Int /\ t \div 256 \in Int
      /\ Low(fh, s) \in Int /\ 0 <= Low(fh, s) /\ Low(fh, s) <= 255
      /\ Low(gh, t) \in Int /\ 0 <= Low(gh, t) /\ Low(gh, t) <= 255
  <2>1. Low(fh, s) \in Octets /\ Low(gh, t) \in Octets
    BY <1>5, XorWithOctet
  <2> QED BY <1>5, <2>1, OctetsAre, WordsAre
<1>8. s \div 256 = t \div 256 /\ Low(fh, s) = Low(gh, t)
  <2> DEFINE i == s \div 256  j == t \div 256  k == Low(fh, s)  l == Low(gh, t)
  <2>1. i \in Int /\ j \in Int /\ k \in Int /\ l \in Int /\ 0 <= k /\ k <= 255 /\ 0 <= l /\ l <= 255
        /\ 256 * i + k = 256 * j + l
    BY <1>6, <1>7
  <2> HIDE DEF i, j, k, l
  <2>2. i = j /\ k = l
    BY <2>1
  <2> QED BY <2>2 DEF i, j, k, l
<1>9. p = q
  BY <1>3, <1>8, EntriesDiffer DEF s, t
<1>10. s = t
  BY <1>9 DEF s, t
<1>11. fh = gh
  <2>1. \A w \in {1, 2, 4, 8, 16, 32, 64, 128} : Bit(s, w) \in {0, 1}
    BY <1>5, BitsAre, WordsAre
  <2>2. Low(fh, s) = Low(gh, s)
    BY <1>8, <1>10
  <2> QED BY <2>1, <2>2, LowCancels
<1>12. \A w \in {1, 2, 4, 8, 16, 32, 64, 128} : Bit(a, w) \in {0, 1} /\ Bit(fl, w) \in {0, 1}
  BY BitsAre, OctetsAre
<1>13. \A x \in Octets, y \in Octets : (x ^^ y) = Low(x, y)
  <2> TAKE x \in Octets, y \in Octets
  <2>1. y \in Words /\ y \div 256 = 0
    BY OctetsAre, WordsAre
  <2>2. (x ^^ y) = 256 * (y \div 256) + Low(x, y) /\ Low(x, y) \in Int
    BY <2>1, XorWithOctet, OctetsAre
  <2> QED BY <2>1, <2>2
<1>14. CASE a = b
  <2>1. Low(fl, a) = Low(gl, a)
    BY <1>9, <1>13, <1>14 DEF p, q
  <2>2. fl = gl
    BY <1>12, <2>1, LowCancels
  <2> QED BY <1>1, <1>2, <1>11, <1>14, <2>2
<1>15. CASE f = g
  <2>1. Low(a, fl) = Low(b, fl)
    <3>1. fl = gl /\ (fl ^^ a) = (gl ^^ b)
      BY <1>1, <1>2, <1>9, <1>15 DEF p, q
    <3>2. Low(fl, a) = Low(fl, b)
      BY <1>13, <3>1
    <3> QED BY <3>2, LowCommutes
  <2>2. a = b
    BY <1>12, <2>1, LowCancels
  <2> QED BY <1>15, <2>2
<1> QED BY <1>14, <1>15

\* The strings differ in one octet.
OneOff(s, t) ==
  /\ Len(s) = Len(t)
  /\ \E j \in 1 .. Len(s) : s[j] /= t[j] /\ \A i \in 1 .. Len(s) : i /= j => s[i] = t[i]

LEMMA OneOffAppended ==
  ASSUME NEW s \in Seq(Octets), NEW t \in Seq(Octets), NEW x \in Octets, NEW y \in Octets,
         (OneOff(s, t) /\ x = y) \/ (s = t /\ x /= y)
  PROVE  OneOff(Append(s, x), Append(t, y))
<1> DEFINE n == Len(s)
           a == Append(s, x)
           c == Append(t, y)
<1>1. n \in Nat /\ Len(t) = n
  BY DEF OneOff
<1>2. Len(a) = n + 1 /\ a[n + 1] = x /\ \A i \in 1 .. n : a[i] = s[i]
  BY AppendProperties
<1>3. Len(c) = n + 1 /\ c[n + 1] = y /\ \A i \in 1 .. n : c[i] = t[i]
  BY <1>1, AppendProperties
<1> HIDE DEF a, c, n
<1>4. \A i \in 1 .. n + 1 : i \in 1 .. n \/ i = n + 1
  BY <1>1
<1>5. \E j \in 1 .. n + 1 : a[j] /= c[j] /\ \A i \in 1 .. n + 1 : i /= j => a[i] = c[i]
  <2>1. CASE OneOff(s, t) /\ x = y
    <3>1. PICK j \in 1 .. n : s[j] /= t[j] /\ \A i \in 1 .. n : i /= j => s[i] = t[i]
      BY <2>1 DEF OneOff, n
    <3>2. j \in 1 .. n + 1 /\ a[j] /= c[j]
      BY <1>1, <1>2, <1>3, <3>1
    <3>3. \A i \in 1 .. n + 1 : i /= j => a[i] = c[i]
      BY <1>2, <1>3, <1>4, <2>1, <3>1
    <3> QED BY <3>2, <3>3
  <2>2. CASE s = t /\ x /= y
    <3>1. n + 1 \in 1 .. n + 1 /\ a[n + 1] /= c[n + 1]
      BY <1>1, <1>2, <1>3, <2>2
    <3>2. \A i \in 1 .. n + 1 : i /= n + 1 => a[i] = c[i]
      BY <1>2, <1>3, <1>4, <2>2
    <3> QED BY <3>1, <3>2
  <2> QED BY <2>1, <2>2
<1> QED BY <1>2, <1>3, <1>5 DEF OneOff, a, c

\* The checksum tells strings that differ in one octet.
LEMMA FcsDiffers ==
  ASSUME NEW s \in Seq(Octets), NEW t \in Seq(Octets), OneOff(s, t)
  PROVE  Fcs(s) /= Fcs(t)
<1> DEFINE n == Len(s)
           f == FcsWrites(s)
           g == FcsWrites(t)
<1>1. n \in Nat /\ Len(t) = n
  BY DEF OneOff
<1>2. PICK j \in 1 .. n : s[j] /= t[j] /\ \A i \in 1 .. n : i /= j => s[i] = t[i]
  BY DEF OneOff
<1>3. /\ f \in [0 .. n -> Words] /\ f[0] = FcsInit
      /\ \A k \in 1 .. n : f[k] = FcsWrite(f[k - 1], s[k])
  BY FcsWritesAre
<1>4. /\ g \in [0 .. n -> Words] /\ g[0] = FcsInit
      /\ \A k \in 1 .. n : g[k] = FcsWrite(g[k - 1], t[k])
  BY <1>1, FcsWritesAre
<1>5. \A k \in 1 .. n : s[k] \in Octets /\ t[k] \in Octets
  BY <1>1
<1> HIDE DEF n, f, g
<1> DEFINE S == {k \in 0 .. n : f[k] = g[k] <=> k < j}
<1>6. 0 \in S
  BY <1>1, <1>3, <1>4
<1>7. ASSUME NEW k \in 1 .. n, k - 1 \in S PROVE k \in S
  <2>1. /\ f[k - 1] \in Words /\ g[k - 1] \in Words
        /\ f[k] = FcsWrite(f[k - 1], s[k]) /\ g[k] = FcsWrite(g[k - 1], t[k])
        /\ k \in 0 .. n /\ k - 1 \in 0 .. n /\ k \in Int /\ j \in Int
    BY <1>1, <1>3, <1>4
  <2>2. CASE k < j
    <3>1. f[k - 1] = g[k - 1] /\ s[k] = t[k]
      BY <1>2, <1>7, <2>1, <2>2
    <3> QED BY <2>1, <2>2, <3>1
  <2>3. CASE k = j
    <3>1. f[k - 1] = g[k - 1] /\ s[k] /= t[k]
      BY <1>2, <1>7, <2>1, <2>3
    <3>2. f[k] /= g[k]
      BY <1>5, <2>1, <3>1, FcsWritesDiffer
    <3> QED BY <2>1, <2>3, <3>2
  <2>4. CASE k > j
    <3>1. f[k - 1] /= g[k - 1] /\ s[k] = t[k]
      BY <1>2, <1>7, <2>1, <2>4
    <3>2. f[k] /= g[k]
      BY <1>5, <2>1, <3>1, FcsWritesDiffer
    <3> QED BY <2>1, <2>4, <3>2
  <2> QED BY <2>1, <2>2, <2>3, <2>4
<1> HIDE DEF S
<1>8. n \in S
  <2>1. 0 .. n \subseteq S
    BY <1>1, <1>6, <1>7, Induct
  <2> QED BY <1>1, <2>1
<1>9. f[n] /= g[n] /\ f[n] \in Int /\ g[n] \in Int
  <2>1. n \in 0 .. n
    BY <1>1
  <2> QED BY <1>1, <1>3, <1>4, <1>8, <2>1, WordsAre DEF S
<1>10. Fcs(s) = MaxWord - f[n] /\ Fcs(t) = MaxWord - g[n]
  BY <1>1 DEF Fcs, FcsResult, n, f, g
<1> QED BY <1>9, <1>10 DEF MaxWord

LEMMA MaskedIs == \A x \in Octets : (x ^^ Mask) \in Octets
<1>1. Mask \in Octets
  BY OctetsAre DEF Mask
<1> QED BY <1>1, XorOfOctets

LEMMA MaskTells ==
  ASSUME NEW x \in Octets, NEW y \in Octets, (x ^^ Mask) = (y ^^ Mask)
  PROVE  x = y
<1>1. 32 \in Words /\ 32 \div 256 = 0
  BY WordsAre
<1>2. \A z \in Octets : (z ^^ 32) = Low(z, 32)
  <2> TAKE z \in Octets
  <2>1. (z ^^ 32) = 256 * (32 \div 256) + Low(z, 32) /\ Low(z, 32) \in Int
    BY <1>1, XorWithOctet, OctetsAre
  <2> QED BY <1>1, <2>1
<1>3. \A w \in {1, 2, 4, 8, 16, 32, 64, 128} : Bit(32, w) \in {0, 1}
  BY BitsAre
<1> QED BY <1>2, <1>3, LowCancels DEF Mask

\* What two strings that differ in one octet, neither time an escape, unescape to differs
\* in one octet.
LEMMA UnescapedDiffers ==
  ASSUME NEW q \in Seq(Octets), NEW r \in Seq(Octets), Len(q) = Len(r),
         NEW k \in 1 .. Len(q), q[k] /= r[k], q[k] /= Esc, r[k] /= Esc,
         \A i \in 1 .. Len(q) : i /= k => q[i] = r[i]
  PROVE  OneOff(Unescaped(q).out, Unescaped(r).out)
<1> DEFINE n == Len(q)
           u == Unescapes(q)
           v == Unescapes(r)
           Off(x, y) == x.escFlag = y.escFlag /\ OneOff(x.out, y.out)
           S == {i \in 0 .. n : IF i < k THEN u[i] = v[i] ELSE Off(u[i], v[i])}
<1>1. n \in Nat /\ k \in 1 .. n /\ \A i \in 1 .. n : i /= k => q[i] = r[i]
  OBVIOUS
<1>2. \A i \in 1 .. n : q[i] \in Octets /\ r[i] \in Octets
  OBVIOUS
<1>3. /\ u \in [0 .. n -> Undone] /\ u[0] = Begun
      /\ \A i \in 1 .. n : u[i] = Unescape(u[i - 1], q[i])
  BY UnescapesAre
<1>4. /\ v \in [0 .. n -> Undone] /\ v[0] = Begun
      /\ \A i \in 1 .. n : v[i] = Unescape(v[i - 1], r[i])
  BY UnescapesAre
<1>5. ASSUME NEW x \in Undone, NEW c \in Octets, NEW d \in Octets, c /= d, c /= Esc, d /= Esc
      PROVE  Off(Unescape(x, c), Unescape(x, d))
  <2>1. (c ^^ Mask) \in Octets /\ (d ^^ Mask) \in Octets /\ (c ^^ Mask) /= (d ^^ Mask)
    BY <1>5, MaskTells, MaskedIs
  <2>2. x.out \in Seq(Octets)
    BY DEF Undone
  <2>3. /\ OneOff(Append(x.out, c), Append(x.out, d))
        /\ OneOff(Append(x.out, c ^^ Mask), Append(x.out, d ^^ Mask))
    BY <1>5, <2>1, <2>2, OneOffAppended
  <2> QED BY <1>5, <2>3 DEF Unescape
<1>6. ASSUME NEW x \in Undone, NEW y \in Undone, NEW c \in Octets, Off(x, y)
      PROVE  Off(Unescape(x, c), Unescape(y, c))
  <2>1. (c ^^ Mask) \in Octets
    BY MaskedIs
  <2>2. x.out \in Seq(Octets) /\ y.out \in Seq(Octets) /\ OneOff(x.out, y.out)
    BY <1>6 DEF Undone
  <2>3. /\ OneOff(Append(x.out, c), Append(y.out, c))
        /\ OneOff(Append(x.out, c ^^ Mask), Append(y.out, c ^^ Mask))
    <3>1. OneOff(Append(x.out, c), Append(y.out, c))
      BY <2>2, OneOffAppended
    <3>2. OneOff(Append(x.out, c ^^ Mask), Append(y.out, c ^^ Mask))
      BY <2>1, <2>2, OneOffAppended
    <3> QED BY <3>1, <3>2
  <2>4. CASE c = Esc
    BY <1>6, <2>4 DEF Unescape, Undone
  <2>5. CASE c /= Esc
    BY <1>6, <2>3, <2>5 DEF Unescape
  <2> QED BY <2>4, <2>5
<1> HIDE DEF n, u, v, Off
<1>7. 0 \in S
  BY <1>1, <1>3, <1>4
<1>8. ASSUME NEW i \in 1 .. n, i - 1 \in S PROVE i \in S
  <2>1. /\ u[i - 1] \in Undone /\ v[i - 1] \in Undone
        /\ u[i] = Unescape(u[i - 1], q[i]) /\ v[i] = Unescape(v[i - 1], r[i])
        /\ i \in 0 .. n /\ i - 1 \in 0 .. n /\ i \in Int /\ k \in Int
    BY <1>1, <1>3, <1>4
  <2>2. CASE i < k
    <3>1. u[i - 1] = v[i - 1] /\ q[i] = r[i]
      BY <1>1, <1>8, <2>1, <2>2
    <3> QED BY <2>1, <2>2, <3>1
  <2>3. CASE i = k
    <3>1. u[i - 1] = v[i - 1]
      BY <1>8, <2>1, <2>3
    <3>2. Off(u[i], v[i])
      BY <1>2, <1>5, <2>1, <2>3, <3>1
    <3> QED BY <2>1, <2>3, <3>2
  <2>4. CASE i > k
    <3>1. Off(u[i - 1], v[i - 1]) /\ q[i] = r[i]
      BY <1>1, <1>8, <2>1, <2>4
    <3>2. Off(u[i], v[i])
      BY <1>2, <1>6, <2>1, <3>1
    <3> QED BY <2>1, <2>4, <3>2
  <2> QED BY <2>1, <2>2, <2>3, <2>4
<1> HIDE DEF S
<1>9. n \in S
  <2>1. 0 .. n \subseteq S
    BY <1>1, <1>7, <1>8, Induct
  <2> QED BY <1>1, <2>1
<1>10. Off(u[n], v[n])
  BY <1>1, <1>9 DEF S
<1>11. Unescaped(q) = u[n] /\ Unescaped(r) = v[n]
  BY DEF Unescaped, n, u, v
<1> QED BY <1>10, <1>11 DEF Off

LEMMA DamageIsRefused ==
  ASSUME NEW in \in Seq(Octets), NEW k \in DOMAIN Interior(ppp_frame(in)), NEW b \in Octets,
         b /= Interior(ppp_frame(in))[k], Esc \notin {b, Interior(ppp_frame(in))[k]}
  PROVE  ~ ppp_deframe([Interior(ppp_frame(in)) EXCEPT ![k] = b]).ok
<1>1. PICK q \in Seq(Plain) : /\ Interior(ppp_frame(in)) = q
                              /\ Unescaped(q) = [escFlag |-> FALSE, out |-> Checked(in)]
  BY FrameIs
<1> DEFINE r == [q EXCEPT ![k] = b]
<1>2. k \in 1 .. Len(q) /\ b /= q[k] /\ b /= Esc /\ q[k] /= Esc
  BY <1>1
<1>3. q \in Seq(Octets)
  BY SeqMonotonic, Plain \subseteq Octets DEF Plain
<1>4. /\ r \in Seq(Octets) /\ Len(r) = Len(q) /\ r[k] = b
      /\ \A i \in 1 .. Len(q) : i /= k => q[i] = r[i]
  BY <1>2, <1>3
<1> HIDE DEF r
<1>5. OneOff(Unescaped(q).out, Unescaped(r).out)
  BY <1>2, <1>3, <1>4, UnescapedDiffers
<1>6. Unescaped(q).out = Checked(in) /\ Checked(in) \in Seq(Octets) /\ Fcs(Checked(in)) = Good
  BY <1>1, CheckedIs DEF FcsCheck
<1>7. Unescaped(r).out \in Seq(Octets)
  BY <1>4, UnescapedIs DEF Undone
<1>8. Fcs(Unescaped(r).out) /= Good
  BY <1>5, <1>6, <1>7, FcsDiffers
<1>9. ~ ppp_deframe(r).ok
  BY <1>8 DEF ppp_deframe, FcsCheck, Unescaped
<1> QED BY <1>1, <1>9 DEF r

\* Damage to one octet of a frame never goes unnoticed, however long the frame and whatever
\* the octet was turned into, unless it makes or unmakes an escape (ppp_frame.cpp:120-126).
THEOREM DamageIsDetected == FramingSpec => []DamageDetected
<1>1. FramingInit => Framed
  BY PayloadsAreFramed
<1>2. Framed /\ [FALSE]_payload => Framed'
  BY DEF Framed
<1>3. Framed => DamageDetected
  BY AlphabetAssumption, DamageIsRefused DEF Framed, DamageDetected
<1> QED BY <1>1, <1>2, <1>3, PTL DEF FramingSpec

-------------------------------------------------------------------------------
(* The receiver: types *)

Emitted == [payload : Seq(Octets), owners : SUBSET Owners]
Rxd == [frame : Seq(Plain), owners : SUBSET Owners, age : 0 .. Late, out : Seq(Emitted)]
OnLine == [octet : Octets, owner : Owners]

LEMMA LateIs == Late \in Nat /\ Late = FrameTimeout + 1 /\ 0 \in 0 .. Late /\ FrameTimeout \in 0 .. Late
  BY TimeoutAssumption DEF Late

LEMMA PlainIs == Plain \subseteq Octets /\ Flag \in Octets /\ Esc \in Octets /\ ~ (Flag \in Plain)
  BY OctetsAre DEF Plain, Flag, Esc

LEMMA DeframedIs ==
  ASSUME NEW s \in Seq(Octets)
  PROVE  ppp_deframe(s).payload \in Seq(Octets)
<1> DEFINE out == Unescapes(s)[Len(s)].out
           n == Len(out) - 2
           t == SubSeq(out, 1, n)
<1>1. Unescapes(s)[Len(s)] \in Undone
  BY UnescapedIs DEF Unescaped
<1>2. out \in Seq(Octets)
  BY <1>1 DEF Undone
<1> HIDE DEF out
<1>3. n \in Int /\ \A i \in 1 .. n : out[i] \in Octets
  BY <1>2
<1> HIDE DEF n
<1>4. t \in Seq(Octets)
  BY <1>3, SubSeqProperties
<1> HIDE DEF t
<1>5. <<>> \in Seq(Octets)
  BY EmptySeq
<1>6. ppp_deframe(s).payload = t \/ ppp_deframe(s).payload = <<>>
  BY DEF ppp_deframe, t, n, out
<1> QED BY <1>4, <1>5, <1>6

Has(out, x) == \E i \in 1 .. Len(out) : out[i] = x

LEMMA RxdIs ==
  ASSUME NEW s \in Rxd
  PROVE  /\ s.frame \in Seq(Plain) /\ s.owners \in SUBSET Owners /\ s.age \in 0 .. Late
         /\ s.out \in Seq(Emitted)
  BY DEF Rxd

\* What was made of the frame, if it was taken for one.
Made(s) == [payload |-> ppp_deframe(s.frame).payload, owners |-> s.owners]

LEMMA handleFrameIs ==
  ASSUME NEW s \in Rxd
  PROVE  /\ handleFrame(s) \in Seq(Emitted) /\ Made(s) \in Emitted
         /\ handleFrame(s) = IF ppp_deframe(s.frame).ok THEN Append(s.out, Made(s)) ELSE s.out
         /\ \A x : Has(s.out, x) => Has(handleFrame(s), x)
<1> DEFINE x == Made(s)
           out == s.out
           t == Append(out, x)
<1>1. s.frame \in Seq(Octets) /\ s.owners \in SUBSET Owners /\ out \in Seq(Emitted)
  <2>1. s.frame \in Seq(Plain) /\ s.owners \in SUBSET Owners /\ out \in Seq(Emitted)
    BY RxdIs
  <2> QED BY <2>1, PlainIs, SeqMonotonic
<1>2. x \in Emitted
  <2>1. ppp_deframe(s.frame).payload \in Seq(Octets)
    BY <1>1, DeframedIs
  <2> QED BY <1>1, <2>1 DEF Emitted, Made
<1>3. handleFrame(s) = IF ppp_deframe(s.frame).ok THEN t ELSE out
  BY DEF handleFrame, Made
<1> HIDE DEF x, out
<1>4. /\ t \in Seq(Emitted) /\ Len(t) = Len(out) + 1 /\ \A i \in 1 .. Len(out) : t[i] = out[i]
  BY <1>1, <1>2, AppendProperties
<1>5. \A y : Has(out, y) => Has(t, y)
  <2> HIDE DEF t
  <2>1. Len(out) \in Nat /\ \A i \in 1 .. Len(out) : i \in 1 .. Len(t)
    BY <1>1, <1>4, LenProperties
  <2> QED BY <1>4, <2>1 DEF Has
<1>6. handleFrame(s) \in Seq(Emitted) /\ \A y : Has(out, y) => Has(handleFrame(s), y)
  <2> HIDE DEF t
  <2> QED BY <1>1, <1>3, <1>4, <1>5
<1> QED BY <1>2, <1>3, <1>6 DEF x, out

LEMMA RxdOctetIs ==
  ASSUME NEW s \in Rxd, NEW b \in OnLine
  PROVE  RxdOctet(s, b) \in Rxd /\ \A x : Has(s.out, x) => Has(RxdOctet(s, b).out, x)
<1>1. /\ s.frame \in Seq(Plain) /\ s.owners \in SUBSET Owners /\ s.age \in 0 .. Late
      /\ s.out \in Seq(Emitted) /\ b.octet \in Octets /\ b.owner \in Owners
  BY RxdIs DEF OnLine
<1>2. CASE b.octet = Flag
  <2> DEFINE o == handleFrame(s)
  <2>1. o \in Seq(Emitted) /\ \A x : Has(s.out, x) => Has(o, x)
    BY handleFrameIs
  <2> HIDE DEF o
  <2>2. RxdOctet(s, b) = [frame |-> <<>>, owners |-> {}, age |-> 0, out |-> o]
    BY <1>2 DEF RxdOctet, o
  <2>3. <<>> \in Seq(Plain) /\ 0 \in 0 .. Late
    BY EmptySeq, LateIs
  <2> QED BY <2>1, <2>2, <2>3 DEF Rxd
<1>3. CASE b.octet /= Flag
  <2> DEFINE f == Append(s.frame, b.octet)
             w == s.owners \cup {b.owner}
  <2>1. b.octet \in Plain
    BY <1>1, <1>3 DEF Plain
  <2>2. f \in Seq(Plain) /\ w \in SUBSET Owners
    BY <1>1, <2>1, AppendProperties
  <2>3. RxdOctet(s, b) = [s EXCEPT !.frame = f, !.owners = w]
    BY <1>3 DEF RxdOctet
  <2> HIDE DEF f, w
  <2>4. RxdOctet(s, b) \in Rxd
    BY <2>2, <2>3 DEF Rxd
  <2>5. RxdOctet(s, b).out = s.out
    BY <2>3 DEF Rxd
  <2> QED BY <2>4, <2>5
<1> QED BY <1>2, <1>3

LEMMA RxdOctetsAre ==
  ASSUME NEW s0 \in Rxd, NEW chunk \in Seq(OnLine)
  PROVE  /\ RxdOctets(s0, chunk) \in [0 .. Len(chunk) -> Rxd] /\ RxdOctets(s0, chunk)[0] = s0
         /\ \A k \in 1 .. Len(chunk) :
              RxdOctets(s0, chunk)[k] = RxdOctet(RxdOctets(s0, chunk)[k - 1], chunk[k])
<1> DEFINE n == Len(chunk)
           Values == Rxd
           step == [k \in 1 .. n |-> [x \in Values |-> RxdOctet(x, chunk[k])]]
           r == RxdOctets(s0, chunk)
<1>1. s0 \in Values /\ n \in Nat
  BY LenProperties
<1>2. \A k \in 1 .. n : \A x \in Values : RxdOctet(x, chunk[k]) \in Values
  BY RxdOctetIs
<1> HIDE DEF n, Values
<1>3. step \in [1 .. n -> [Values -> Values]] /\ \A k \in 1 .. n : \A x \in Values : step[k][x] = RxdOctet(x, chunk[k])
  BY <1>2
<1> HIDE DEF step
<1>4. PICK f : LoopOf(f, n, Values, s0, step)
  BY <1>1, <1>3, LoopExists
<1>5. f \in [0 .. n -> Values] /\ f[0] = s0 /\ \A k \in 1 .. n : f[k] = RxdOctet(f[k - 1], chunk[k])
  <2>1. \A k \in 1 .. n : f[k - 1] \in Values
    BY <1>1, <1>4 DEF LoopOf
  <2> QED BY <1>1, <1>3, <1>4, <2>1 DEF LoopOf
<1>6. f = [k \in 0 .. n |-> IF k = 0 THEN s0 ELSE RxdOctet(f[k - 1], chunk[k])]
  BY <1>1, <1>5
<1>7. r = [k \in 0 .. n |-> IF k = 0 THEN s0 ELSE RxdOctet(r[k - 1], chunk[k])]
  BY <1>6 DEF RxdOctets, n
<1> HIDE DEF r
<1>8. r[0] = s0 /\ \A k \in 1 .. n : r[k] = RxdOctet(r[k - 1], chunk[k])
  BY <1>1, <1>7
<1>9. \A k \in 0 .. n : r[k] = f[k]
  <2>1. InStep(r, f, n)
    BY <1>5, <1>8 DEF InStep
  <2>2. n \in Nat /\ r[0] = f[0]
    BY <1>1, <1>5, <1>8
  <2> QED BY <2>1, <2>2, LoopsAgree
<1>10. r \in [0 .. n -> Values]
  BY <1>5, <1>7, <1>9
<1> QED BY <1>8, <1>10 DEF n, Values, r

\* What was emitted stays emitted.
LEMMA OutGrows ==
  ASSUME NEW s0 \in Rxd, NEW chunk \in Seq(OnLine), NEW k \in 0 .. Len(chunk), NEW x,
         Has(RxdOctets(s0, chunk)[k].out, x)
  PROVE  Has(RxdOctets(s0, chunk)[Len(chunk)].out, x)
<1> DEFINE n == Len(chunk)
           r == RxdOctets(s0, chunk)
           S == {j \in 0 .. n : j >= k => Has(r[j].out, x)}
<1>1. n \in Nat /\ k \in 0 .. n /\ Has(r[k].out, x)
  BY LenProperties
<1>2. \A j \in 1 .. n : r[j - 1] \in Rxd /\ r[j] = RxdOctet(r[j - 1], chunk[j]) /\ chunk[j] \in OnLine
  <2>1. r \in [0 .. n -> Rxd] /\ \A j \in 1 .. n : r[j] = RxdOctet(r[j - 1], chunk[j])
    BY RxdOctetsAre
  <2>2. \A j \in 1 .. n : chunk[j] \in OnLine
    BY ElementOfSeq
  <2> HIDE DEF n, r
  <2>3. \A j \in 1 .. n : j - 1 \in 0 .. n
    BY <1>1
  <2> QED BY <2>1, <2>2, <2>3
<1> HIDE DEF n, r
<1>3. 0 \in S
  BY <1>1
<1>4. ASSUME NEW j \in 1 .. n, j - 1 \in S PROVE j \in S
  <2>1. CASE j = k
    BY <1>1, <2>1
  <2>2. CASE j < k
    BY <1>1, <2>2
  <2>3. CASE j - 1 >= k
    <3>1. Has(r[j - 1].out, x)
      BY <1>4, <2>3
    <3>2. Has(r[j].out, x)
      BY <1>2, <3>1, RxdOctetIs
    <3> QED BY <1>1, <3>2
  <2> QED BY <1>1, <2>1, <2>2, <2>3
<1>5. n \in S
  <2> HIDE DEF S
  <2>1. 0 .. n \subseteq S
    BY <1>1, <1>3, <1>4, Induct
  <2> QED BY <1>1, <2>1
<1> QED BY <1>1, <1>5 DEF n, r

-------------------------------------------------------------------------------
(* The line *)

LEMMA FirstOf ==
  ASSUME NEW S, NEW s \in Seq(S), NEW n \in 0 .. Len(s)
  PROVE  /\ SubSeq(s, 1, n) \in Seq(S) /\ Len(SubSeq(s, 1, n)) = n
         /\ \A j \in 1 .. n : SubSeq(s, 1, n)[j] = s[j]
<1> DEFINE t == SubSeq(s, 1, n)
<1>1. Len(s) \in Nat /\ n \in Nat /\ \A j \in 1 .. n : s[j] \in S
  BY LenProperties, ElementOfSeq
<1>2. /\ t \in Seq(S) /\ Len(t) = (IF 1 <= n THEN n - 1 + 1 ELSE 0)
      /\ \A j \in 1 .. n - 1 + 1 : t[j] = s[1 + j - 1]
  BY <1>1, SubSeqProperties
<1> HIDE DEF t
<1>3. Len(t) = n
  BY <1>1, <1>2
<1>4. n - 1 + 1 = n /\ \A j \in 1 .. n : 1 + j - 1 = j
  BY <1>1
<1> QED BY <1>2, <1>3, <1>4 DEF t

LEMMA RestOf ==
  ASSUME NEW S, NEW s \in Seq(S), NEW n \in 0 .. Len(s)
  PROVE  /\ SubSeq(s, n + 1, Len(s)) \in Seq(S) /\ Len(SubSeq(s, n + 1, Len(s))) = Len(s) - n
         /\ \A j \in 1 .. Len(s) - n : SubSeq(s, n + 1, Len(s))[j] = s[n + j]
<1> DEFINE l == Len(s)
           t == SubSeq(s, n + 1, l)
<1>1. l \in Nat /\ n \in 0 .. l /\ \A j \in n + 1 .. l : s[j] \in S
  BY LenProperties, ElementOfSeq
<1> HIDE DEF l
<1>2. /\ t \in Seq(S) /\ Len(t) = (IF n + 1 <= l THEN l - (n + 1) + 1 ELSE 0)
      /\ \A j \in 1 .. l - (n + 1) + 1 : t[j] = s[(n + 1) + j - 1]
  BY <1>1, SubSeqProperties
<1> HIDE DEF t
<1>3. Len(t) = l - n
  BY <1>1, <1>2
<1>4. l - (n + 1) + 1 = l - n /\ \A j \in 1 .. l - n : (n + 1) + j - 1 = n + j
  BY <1>1
<1>5. \A j \in 1 .. l - n : t[j] = s[n + j]
  BY <1>2, <1>4
<1> QED BY <1>2, <1>3, <1>5 DEF t, l

LEMMA WholeIs ==
  ASSUME NEW S, NEW s \in Seq(S)
  PROVE  SubSeq(s, 0 + 1, Len(s)) = s
<1> DEFINE t == SubSeq(s, 0 + 1, Len(s))
<1>1. Len(s) \in Nat /\ 0 \in 0 .. Len(s)
  BY LenProperties
<1>2. t \in Seq(S) /\ Len(t) = Len(s) - 0 /\ \A j \in 1 .. Len(s) - 0 : t[j] = s[0 + j]
  BY <1>1, RestOf
<1> HIDE DEF t
<1>3. Len(s) - 0 = Len(s) /\ \A j \in 1 .. Len(s) : 0 + j = j
  BY <1>1
<1>4. Len(t) = Len(s) /\ \A j \in 1 .. Len(t) : t[j] = s[j]
  BY <1>2, <1>3
<1>5. t = s
  BY <1>2, <1>4, SeqEqual
<1> QED BY <1>5 DEF t

LEMMA NextOfRest ==
  ASSUME NEW S, NEW s \in Seq(S), NEW k \in 1 .. Len(s)
  PROVE  LET t == SubSeq(s, k - 1 + 1, Len(s))
         IN t \in Seq(S) /\ Len(t) >= 1 /\ t[1] = s[k] /\ SubSeq(t, 2, Len(t)) = SubSeq(s, k + 1, Len(s))
<1> DEFINE i == Len(s)
           t == SubSeq(s, k - 1 + 1, i)
           u == SubSeq(t, 1 + 1, Len(t))
           v == SubSeq(s, k + 1, i)
<1>1. i \in Nat /\ k - 1 \in 0 .. i /\ k \in 0 .. i /\ k \in Nat
  BY LenProperties
<1>2. t \in Seq(S) /\ Len(t) = i - (k - 1) /\ \A j \in 1 .. i - (k - 1) : t[j] = s[k - 1 + j]
  BY <1>1, RestOf
<1>3. v \in Seq(S) /\ Len(v) = i - k /\ \A j \in 1 .. i - k : v[j] = s[k + j]
  BY <1>1, RestOf
<1> HIDE DEF t, v
<1>4. Len(t) >= 1 /\ 1 \in 0 .. Len(t) /\ 1 \in 1 .. i - (k - 1) /\ k - 1 + 1 = k
  BY <1>1, <1>2
<1>5. u \in Seq(S) /\ Len(u) = Len(t) - 1 /\ \A j \in 1 .. Len(t) - 1 : u[j] = t[1 + j]
  BY <1>2, <1>4, RestOf
<1> HIDE DEF u
<1>6. Len(t) - 1 = i - k
  BY <1>1, <1>2
<1>7. ASSUME NEW j \in 1 .. i - k PROVE u[j] = v[j]
  <2>1. 1 + j \in 1 .. i - (k - 1) /\ k - 1 + (1 + j) = k + j
    BY <1>1
  <2>2. t[1 + j] = s[k - 1 + (1 + j)]
    BY <1>2, <2>1
  <2> QED BY <1>3, <1>5, <1>6, <2>1, <2>2
<1>8. Len(u) = Len(v) /\ \A j \in 1 .. Len(u) : u[j] = v[j]
  BY <1>3, <1>5, <1>6, <1>7
<1>9. u = v
  BY <1>3, <1>5, <1>8, SeqEqual
<1>10. t[1] = s[k]
  BY <1>2, <1>4
<1>11. 1 + 1 = 2
  OBVIOUS
<1> QED BY <1>2, <1>4, <1>9, <1>10, <1>11 DEF t, u, v, i

LEMMA OwnedIs ==
  ASSUME NEW x \in Seq(Octets), NEW o \in Owners
  PROVE  /\ Owned(x, o) \in Seq(OnLine) /\ Len(Owned(x, o)) = Len(x)
         /\ \A k \in 1 .. Len(x) : Owned(x, o)[k].octet = x[k] /\ Owned(x, o)[k].owner = o
<1> DEFINE n == Len(x)
           t == Owned(x, o)
<1>1. n \in Nat /\ DOMAIN x = 1 .. n /\ \A k \in 1 .. n : x[k] \in Octets
  BY LenProperties, ElementOfSeq
<1> HIDE DEF n
<1>2. t = [k \in 1 .. n |-> [octet |-> x[k], owner |-> o]]
  BY <1>1 DEF Owned
<1> HIDE DEF t
<1>3. t \in [1 .. n -> OnLine]
  BY <1>1, <1>2 DEF OnLine
<1>4. t \in Seq(OnLine)
  BY <1>1, <1>3, SeqDef
<1>5. Len(t) = n
  <2>1. DOMAIN t = 1 .. n /\ DOMAIN t = 1 .. Len(t) /\ Len(t) \in Nat
    BY <1>2, <1>4, LenProperties
  <2> QED BY <1>1, <2>1
<1>6. ASSUME NEW k \in 1 .. n PROVE t[k].octet = x[k] /\ t[k].owner = o
  BY <1>2
<1> QED BY <1>4, <1>5, <1>6 DEF t, n

LEMMA OwnersAre ==
  ASSUME NEW s \in Seq(OnLine), NEW m
  PROVE  m \in OwnersOf(s) <=> m /= Text /\ \E j \in 1 .. Len(s) : s[j].owner = m
BY LenProperties DEF OwnersOf

\* Nothing of the message is on the line.
Absent(ln, m) == \A j \in 1 .. Len(ln) : ln[j].owner /= m

\* The frame F of the message is on the line, from position p + 1 on, and nothing else of
\* it; when p is negative its first -p octets have come.
Placed(ln, F, m, p) ==
  /\ Len(F) >= 1 /\ p + Len(F) >= 1 /\ p + Len(F) <= Len(ln)
  /\ \A k \in 1 .. Len(F) : p + k >= 1 => ln[p + k].octet = F[k] /\ ln[p + k].owner = m
  /\ \A j \in 1 .. Len(ln) : ln[j].owner = m => p < j /\ j <= p + Len(F)

\* What is put on the line behind it changes nothing.
LEMMA Behind ==
  ASSUME NEW ln \in Seq(OnLine), NEW t \in Seq(OnLine), NEW m, Absent(t, m)
  PROVE  /\ Absent(ln, m) => Absent(ln \o t, m)
         /\ \A F \in Seq(Octets), p \in Int : Placed(ln, F, m, p) => Placed(ln \o t, F, m, p)
<1> DEFINE n == Len(ln)
           i == Len(t)
           r == ln \o t
<1>1. /\ n \in Nat /\ i \in Nat /\ Len(r) = n + i
      /\ \A j \in 1 .. n : r[j] = ln[j]
      /\ \A j \in n + 1 .. n + i : r[j] = t[j - n]
  BY ConcatProperties, LenProperties
<1>2. \A j \in 1 .. i : t[j].owner /= m
  BY DEF Absent
<1> HIDE DEF r, i, n
<1>3. \A j \in 1 .. n + i : j \in 1 .. n \/ (j \in n + 1 .. n + i /\ j - n \in 1 .. i)
  BY <1>1
<1>4. \A j \in 1 .. Len(r) : r[j].owner = m => j \in 1 .. n /\ ln[j].owner = m
  BY <1>1, <1>2, <1>3
<1>5. Absent(ln, m) => Absent(r, m)
  BY <1>4 DEF Absent, n
<1>6. ASSUME NEW F \in Seq(Octets), NEW p \in Int, Placed(ln, F, m, p) PROVE Placed(r, F, m, p)
  <2> DEFINE l == Len(F)
  <2>1. l \in Nat
    BY LenProperties
  <2>2. /\ l >= 1 /\ p + l >= 1 /\ p + l <= n
        /\ \A k \in 1 .. l : p + k >= 1 => ln[p + k].octet = F[k] /\ ln[p + k].owner = m
        /\ \A j \in 1 .. n : ln[j].owner = m => p < j /\ j <= p + l
    BY <1>6 DEF Placed, n
  <2> HIDE DEF l
  <2>3. \A k \in 1 .. l : p + k >= 1 => p + k \in 1 .. n
    BY <1>1, <2>1, <2>2
  <2>4. \A k \in 1 .. l : p + k >= 1 => r[p + k].octet = F[k] /\ r[p + k].owner = m
    BY <1>1, <2>2, <2>3
  <2>5. p + l >= 1 /\ p + l <= Len(r)
    BY <1>1, <2>1, <2>2
  <2>6. \A j \in 1 .. Len(r) : r[j].owner = m => p < j /\ j <= p + l
    BY <1>4, <2>2
  <2> QED BY <2>2, <2>4, <2>5, <2>6 DEF Placed, l
<1> QED BY <1>5, <1>6 DEF r

\* Where a frame is that was just sent.
LEMMA JustSent ==
  ASSUME NEW ln \in Seq(OnLine), NEW F \in Seq(Octets), NEW m \in Owners, Len(F) >= 1, Absent(ln, m)
  PROVE  Placed(ln \o Owned(F, m), F, m, Len(ln))
<1> DEFINE n == Len(ln)
           l == Len(F)
           t == Owned(F, m)
           r == ln \o t
<1>1. n \in Nat /\ l \in Nat /\ l >= 1
  BY LenProperties
<1>2. t \in Seq(OnLine) /\ Len(t) = l /\ \A k \in 1 .. l : t[k].octet = F[k] /\ t[k].owner = m
  BY OwnedIs
<1> HIDE DEF t
<1>3. /\ Len(r) = n + l
      /\ \A j \in 1 .. n + l : r[j] = IF j <= n THEN ln[j] ELSE t[j - n]
  <2>1. /\ Len(r) = n + Len(t)
        /\ \A j \in 1 .. n + Len(t) : r[j] = IF j <= n THEN ln[j] ELSE t[j - n]
    BY <1>2, ConcatProperties
  <2> HIDE DEF r, n, l
  <2> QED BY <1>2, <2>1
<1>4. \A j \in 1 .. n : ln[j].owner /= m
  BY DEF Absent
<1> HIDE DEF r, n, l
<1>5. ASSUME NEW k \in 1 .. l PROVE r[n + k].octet = F[k] /\ r[n + k].owner = m
  <2>1. n + k \in 1 .. n + l /\ ~ (n + k <= n) /\ (n + k) - n = k
    BY <1>1
  <2>2. r[n + k] = t[k]
    BY <1>3, <2>1
  <2> QED BY <1>2, <2>2
<1>6. ASSUME NEW j \in 1 .. n + l, r[j].owner = m PROVE n < j /\ j <= n + l
  <2>1. ~ (j <= n)
    <3> SUFFICES ASSUME j <= n PROVE FALSE
      OBVIOUS
    <3>1. j \in 1 .. n /\ r[j] = ln[j]
      BY <1>1, <1>3
    <3> QED BY <1>4, <1>6, <3>1
  <2> QED BY <1>1, <2>1
<1>7. n + l >= 1 /\ n + l <= Len(r)
  BY <1>1, <1>3
<1>8. \A j \in 1 .. Len(r) : r[j].owner = m => n < j /\ j <= n + l
  BY <1>3, <1>6
<1> QED BY <1>1, <1>5, <1>7, <1>8 DEF Placed, r, n, l, t

\* What is thrown away at the end, where nothing of the message is, changes nothing.
LEMMA EndLost ==
  ASSUME NEW ln \in Seq(OnLine), NEW n \in 0 .. Len(ln), NEW m,
         \A j \in n + 1 .. Len(ln) : ln[j].owner /= m
  PROVE  /\ Absent(ln, m) => Absent(SubSeq(ln, 1, n), m)
         /\ \A F \in Seq(Octets), p \in Int : Placed(ln, F, m, p) => Placed(SubSeq(ln, 1, n), F, m, p)
<1> DEFINE t == SubSeq(ln, 1, n)
           i == Len(ln)
<1>1. i \in Nat /\ n \in 0 .. i /\ Len(t) = n /\ \A j \in 1 .. n : t[j] = ln[j]
  BY FirstOf, LenProperties
<1>2. \A j \in n + 1 .. i : ln[j].owner /= m
  OBVIOUS
<1> HIDE DEF t, i
<1>3. Absent(ln, m) => Absent(t, m)
  <2>1. \A j \in 1 .. n : j \in 1 .. i
    BY <1>1
  <2> QED BY <1>1, <2>1 DEF Absent, i
<1>4. ASSUME NEW F \in Seq(Octets), NEW p \in Int, Placed(ln, F, m, p) PROVE Placed(t, F, m, p)
  <2> DEFINE l == Len(F)
  <2>1. l \in Nat
    BY LenProperties
  <2>2. /\ l >= 1 /\ p + l >= 1 /\ p + l <= i
        /\ \A k \in 1 .. l : p + k >= 1 => ln[p + k].octet = F[k] /\ ln[p + k].owner = m
        /\ \A j \in 1 .. i : ln[j].owner = m => p < j /\ j <= p + l
    BY <1>4 DEF Placed, i
  <2>3. ln[p + l].owner = m
    <3>1. l \in 1 .. l
      BY <2>1, <2>2
    <3> QED BY <2>2, <3>1
  <2> HIDE DEF l
  <2>4. p + l <= n
    BY <1>1, <1>2, <2>1, <2>2, <2>3
  <2>5. \A k \in 1 .. l : p + k >= 1 => p + k \in 1 .. n
    BY <1>1, <2>1, <2>4
  <2>6. \A k \in 1 .. l : p + k >= 1 => t[p + k].octet = F[k] /\ t[p + k].owner = m
    BY <1>1, <2>2, <2>5
  <2>7. \A j \in 1 .. Len(t) : t[j].owner = m => p < j /\ j <= p + l
    <3>1. \A j \in 1 .. n : j \in 1 .. i
      BY <1>1
    <3> QED BY <1>1, <2>2, <3>1
  <2>8. p + l >= 1 /\ p + l <= Len(t)
    BY <1>1, <2>2, <2>4
  <2> QED BY <2>2, <2>6, <2>7, <2>8 DEF Placed, l
<1> QED BY <1>3, <1>4 DEF t

\* What leaves the line at its beginning moves the rest.
LEMMA BeginningGone ==
  ASSUME NEW ln \in Seq(OnLine), NEW n \in 0 .. Len(ln), NEW m
  PROVE  /\ Absent(ln, m) => Absent(SubSeq(ln, n + 1, Len(ln)), m)
         /\ \A F \in Seq(Octets), p \in Int : Placed(ln, F, m, p) =>
              IF p + Len(F) <= n THEN Absent(SubSeq(ln, n + 1, Len(ln)), m)
              ELSE Placed(SubSeq(ln, n + 1, Len(ln)), F, m, p - n)
<1> DEFINE i == Len(ln)
           t == SubSeq(ln, n + 1, i)
<1>1. i \in Nat /\ n \in 0 .. i /\ Len(t) = i - n /\ \A j \in 1 .. i - n : t[j] = ln[n + j]
  BY RestOf, LenProperties
<1> HIDE DEF t, i
<1>2. \A j \in 1 .. i - n : n + j \in 1 .. i
  BY <1>1
<1>3. Absent(ln, m) => Absent(t, m)
  BY <1>1, <1>2 DEF Absent, i
<1>4. ASSUME NEW F \in Seq(Octets), NEW p \in Int, Placed(ln, F, m, p)
      PROVE  IF p + Len(F) <= n THEN Absent(t, m) ELSE Placed(t, F, m, p - n)
  <2> DEFINE l == Len(F)
             p0 == p - n
  <2>1. l \in Nat /\ p0 \in Int
    BY <1>1, LenProperties
  <2>2. /\ l >= 1 /\ p + l >= 1 /\ p + l <= i
        /\ \A k \in 1 .. l : p + k >= 1 => ln[p + k].octet = F[k] /\ ln[p + k].owner = m
        /\ \A j \in 1 .. i : ln[j].owner = m => p < j /\ j <= p + l
    BY <1>4 DEF Placed, i
  <2> HIDE DEF l
  <2>3. CASE p + l <= n
    <3>1. ASSUME NEW j \in 1 .. i - n PROVE t[j].owner /= m
      <4>1. n + j \in 1 .. i /\ ~ (n + j <= p + l)
        BY <1>1, <2>1, <2>3
      <4>2. ln[n + j].owner /= m
        BY <2>2, <4>1
      <4> QED BY <1>1, <4>2
    <3>2. Absent(t, m)
      BY <1>1, <3>1 DEF Absent
    <3> QED BY <2>3, <3>2 DEF l
  <2>4. CASE ~ (p + l <= n)
    <3>1. p0 + l >= 1 /\ p0 + l <= Len(t)
      BY <1>1, <2>1, <2>2, <2>4
    <3>2. ASSUME NEW k \in 1 .. l, p0 + k >= 1
          PROVE  t[p0 + k].octet = F[k] /\ t[p0 + k].owner = m
      <4>1. p0 + k \in 1 .. i - n /\ n + (p0 + k) = p + k /\ p + k >= 1
        BY <1>1, <2>1, <2>2, <3>2
      <4>2. t[p0 + k] = ln[p + k]
        BY <1>1, <4>1
      <4> QED BY <2>2, <4>1, <4>2
    <3>3. ASSUME NEW j \in 1 .. i - n, t[j].owner = m PROVE p0 < j /\ j <= p0 + l
      <4>1. n + j \in 1 .. i /\ ln[n + j].owner = m
        BY <1>1, <1>2, <3>3
      <4>2. p < n + j /\ n + j <= p + l
        BY <2>2, <4>1
      <4> QED BY <1>1, <2>1, <4>2
    <3> HIDE DEF p0
    <3>4. \A j \in 1 .. Len(t) : t[j].owner = m => p0 < j /\ j <= p0 + l
      BY <1>1, <3>3
    <3>5. Placed(t, F, m, p0)
      BY <2>2, <3>1, <3>2, <3>4 DEF Placed, l
    <3> QED BY <2>4, <3>5 DEF p0, l
  <2> QED BY <2>3, <2>4
<1> QED BY <1>3, <1>4 DEF t, i

DamagedAt(ln, n, b) == [ln EXCEPT ![n].octet = b]

\* A damaged octet stays where it was and belongs to the same message.
LEMMA Damaged ==
  ASSUME NEW ln \in Seq(OnLine), NEW n \in 1 .. Len(ln), NEW b \in Octets, NEW t,
         t = DamagedAt(ln, n, b)
  PROVE  /\ t \in Seq(OnLine) /\ Len(t) = Len(ln)
         /\ \A j \in 1 .. Len(ln) : t[j].owner = ln[j].owner
         /\ \A j \in 1 .. Len(ln) : j /= n => t[j] = ln[j]
<1> DEFINE i == Len(ln)
           e == [ln[n] EXCEPT !.octet = b]
<1>1. i \in Nat /\ ln \in [1 .. i -> OnLine] /\ \A j \in 1 .. i : ln[j] \in OnLine
  BY LenProperties
<1>2. e \in OnLine /\ e.owner = ln[n].owner
  BY <1>1 DEF OnLine
<1>3. t = [ln EXCEPT ![n] = e]
  BY DEF DamagedAt
<1> HIDE DEF e
<1>4. /\ t \in Seq(OnLine) /\ Len(t) = i
      /\ \A j \in 1 .. i : t[j] = IF j = n THEN e ELSE ln[j]
  BY <1>2, <1>3, ExceptSeq
<1> HIDE DEF i
<1>5. \A j \in 1 .. i : t[j].owner = ln[j].owner
  BY <1>2, <1>4
<1> QED BY <1>4, <1>5 DEF i

\* Damage elsewhere changes nothing.
LEMMA DamageElsewhere ==
  ASSUME NEW ln \in Seq(OnLine), NEW n \in 1 .. Len(ln), NEW b \in Octets, NEW t,
         t = DamagedAt(ln, n, b), NEW m, ln[n].owner /= m
  PROVE  /\ Absent(ln, m) => Absent(t, m)
         /\ \A F \in Seq(Octets), p \in Int : Placed(ln, F, m, p) => Placed(t, F, m, p)
<1> DEFINE i == Len(ln)
<1>1. i \in Nat
  BY LenProperties
<1>4. Len(t) = i /\ \A j \in 1 .. i : j /= n => t[j] = ln[j]
  BY Damaged
<1>5. \A j \in 1 .. i : t[j].owner = ln[j].owner
  BY Damaged
<1> HIDE DEF i
<1>6. Absent(ln, m) => Absent(t, m)
  BY <1>4, <1>5 DEF Absent, i
<1>7. ASSUME NEW F \in Seq(Octets), NEW p \in Int, Placed(ln, F, m, p) PROVE Placed(t, F, m, p)
  <2> DEFINE l == Len(F)
  <2>1. l \in Nat
    BY LenProperties
  <2>2. /\ l >= 1 /\ p + l >= 1 /\ p + l <= i
        /\ \A k \in 1 .. l : p + k >= 1 => ln[p + k].octet = F[k] /\ ln[p + k].owner = m
        /\ \A j \in 1 .. i : ln[j].owner = m => p < j /\ j <= p + l
    BY <1>7 DEF Placed, i
  <2> HIDE DEF l
  <2>3. ASSUME NEW k \in 1 .. l, p + k >= 1 PROVE t[p + k].octet = F[k] /\ t[p + k].owner = m
    <3>1. p + k \in 1 .. i
      BY <1>1, <2>1, <2>2, <2>3
    <3>2. ln[p + k].octet = F[k] /\ ln[p + k].owner = m
      BY <2>2, <2>3
    <3>3. p + k /= n
      BY <3>2
    <3>4. t[p + k] = ln[p + k]
      BY <1>4, <3>1, <3>3
    <3> QED BY <3>2, <3>4
  <2>4. \A j \in 1 .. Len(t) : t[j].owner = m => p < j /\ j <= p + l
    BY <1>4, <1>5, <2>2
  <2>5. p + l <= Len(t)
    BY <1>4, <2>2
  <2> QED BY <2>2, <2>3, <2>4, <2>5 DEF Placed, l
<1> QED BY <1>6, <1>7

-------------------------------------------------------------------------------
(* A message on its way through the receiver *)

FrameOf(m) == ppp_frame(Messages[m])

LEMMA FrameOfIs ==
  ASSUME NEW m \in 1 .. Len(Messages)
  PROVE  /\ FrameOf(m) \in Seq(Octets) /\ Len(FrameOf(m)) >= 3
         /\ FrameOf(m)[1] = Flag /\ FrameOf(m)[Len(FrameOf(m))] = Flag
         /\ \A k \in 2 .. Len(FrameOf(m)) - 1 : FrameOf(m)[k] \in Plain
         /\ \A s \in Seq(Plain) :
              /\ Len(s) = Len(FrameOf(m)) - 2
              /\ \A k \in 1 .. Len(s) : s[k] = FrameOf(m)[k + 1]
              => ppp_deframe(s) = [ok |-> TRUE, payload |-> Messages[m]]
<1> DEFINE in == Messages[m]
           F == FrameOf(m)
<1>1. in \in Seq(Octets) /\ in /= <<>>
  BY MessagesAssumption, ElementOfSeq
<1> HIDE DEF in
<1>2. F = ppp_frame(in)
  BY DEF FrameOf, in
<1> HIDE DEF F
<1>3. PICK q \in Seq(Plain) :
           /\ F \in Seq(Octets) /\ Len(F) = Len(q) + 2 /\ Len(q) >= Len(in) + 2
           /\ F[1] = Flag /\ F[Len(q) + 2] = Flag
           /\ \A k \in 1 .. Len(q) : F[k + 1] = q[k]
           /\ Interior(F) = q
  BY <1>1, <1>2, FrameIs
<1> DEFINE n == Len(q)
<1>4. n \in Nat /\ \A k \in 1 .. n : q[k] \in Plain
  BY LenProperties, ElementOfSeq
<1>5. ppp_deframe(q) = [ok |-> TRUE, payload |-> in]
  BY <1>1, <1>2, <1>3, FramesComeBack
<1>6. Len(F) = n + 2 /\ \A k \in 1 .. n : F[k + 1] = q[k]
  BY <1>3
<1> HIDE DEF n
<1>7. ASSUME NEW k \in 2 .. Len(F) - 1 PROVE F[k] \in Plain
  <2>1. k - 1 \in 1 .. n /\ (k - 1) + 1 = k
    BY <1>4, <1>6
  <2>2. F[(k - 1) + 1] = q[k - 1]
    BY <1>6, <2>1
  <2> QED BY <1>4, <2>1, <2>2
<1>8. ASSUME NEW s \in Seq(Plain), Len(s) = Len(F) - 2, \A k \in 1 .. Len(s) : s[k] = F[k + 1]
      PROVE  ppp_deframe(s) = [ok |-> TRUE, payload |-> in]
  <2>1. Len(s) = n
    BY <1>4, <1>6, <1>8
  <2>2. s = q
    <3>1. Len(s) = Len(q) /\ \A k \in 1 .. Len(s) : s[k] = q[k]
      BY <1>6, <1>8, <2>1 DEF n
    <3> QED BY <3>1, SeqEqual
  <2> QED BY <1>5, <2>2
<1>9. Len(F) >= 3 /\ F[Len(F)] = Flag
  <2>1. n >= Len(in) + 2 /\ Len(in) \in Nat
    BY <1>1, <1>3, LenProperties DEF n
  <2>2. n >= 2
    BY <1>4, <2>1
  <2> QED BY <1>3, <1>4, <1>6, <2>2 DEF n
<1> QED BY <1>3, <1>7, <1>8, <1>9 DEF F, in

\* The receiver has taken c octets of the frame of the message, not all of them, and in time.
Taken(s, m, c) ==
  /\ s.age <= FrameTimeout
  /\ Len(s.frame) = c - 1
  /\ \A i \in 1 .. c - 1 : s.frame[i] = FrameOf(m)[i + 1]
  /\ s.owners = IF c = 1 THEN {} ELSE {m}

\* What handleRxd makes of the next octet of a frame.
LEMMA NextTaken ==
  ASSUME NEW m \in 1 .. Len(Messages), NEW s \in Rxd, NEW c \in 1 .. Len(FrameOf(m)),
         c > 1 => Taken(s, m, c - 1),
         NEW b \in OnLine, b.octet = FrameOf(m)[c] /\ b.owner = m
  PROVE  IF c < Len(FrameOf(m)) THEN Taken(RxdOctet(s, b), m, c)
         ELSE /\ RxdOctet(s, b).out = Append(s.out, Genuine(m))
              /\ Has(RxdOctet(s, b).out, Genuine(m))
<1> DEFINE F == FrameOf(m)
           l == Len(F)
           next == RxdOctet(s, b)
<1>1. /\ s.frame \in Seq(Plain) /\ s.owners \in SUBSET Owners /\ s.age \in 0 .. Late
      /\ s.out \in Seq(Emitted)
  BY RxdIs
<1>2. /\ F \in Seq(Octets) /\ l \in Nat /\ l >= 3 /\ F[1] = Flag /\ F[l] = Flag
      /\ \A k \in 2 .. l - 1 : F[k] \in Plain
  BY FrameOfIs, LenProperties
<1>3. \A frame \in Seq(Plain) :
        /\ Len(frame) = l - 2
        /\ \A k \in 1 .. Len(frame) : frame[k] = F[k + 1]
        => ppp_deframe(frame) = [ok |-> TRUE, payload |-> Messages[m]]
  BY FrameOfIs
<1>4. c \in 1 .. l /\ b.octet = F[c] /\ b.owner = m
  OBVIOUS
<1>4a. ASSUME c > 1
       PROVE  /\ s.age <= FrameTimeout /\ Len(s.frame) = c - 2
              /\ \A i \in 1 .. c - 2 : s.frame[i] = F[i + 1]
              /\ s.owners = IF c = 2 THEN {} ELSE {m}
  <2>1. (c - 1) - 1 = c - 2 /\ (c - 1 = 1 <=> c = 2)
    BY <1>2
  <2> QED BY <1>4a, <2>1 DEF Taken
<1> HIDE DEF F, l
<1>5. CASE c = 1
  <2> DEFINE o == handleFrame(s)
  <2>1. next = [frame |-> <<>>, owners |-> {}, age |-> 0, out |-> o]
    BY <1>2, <1>4, <1>5 DEF RxdOctet
  <2>2. next.frame = <<>> /\ next.age = 0 /\ next.owners = {}
    BY <2>1
  <2>3. Len(<<>>) = c - 1 /\ 0 <= FrameTimeout
    BY <1>5, TimeoutAssumption
  <2>4. \A i \in 1 .. c - 1 : FALSE
    BY <1>5
  <2> HIDE DEF next
  <2>5. Taken(next, m, c)
    BY <1>5, <2>2, <2>3, <2>4 DEF Taken
  <2> QED BY <1>2, <1>5, <2>5 DEF F, l, next
<1>6. CASE c > 1 /\ c < l
  <2> DEFINE f == Append(s.frame, F[c])
             w == s.owners \cup {m}
  <2>1. F[c] \in Plain
    BY <1>2, <1>4, <1>6
  <2>2. next = [s EXCEPT !.frame = f, !.owners = w]
    BY <1>4, <2>1, PlainIs DEF RxdOctet
  <2>3. s.age <= FrameTimeout /\ Len(s.frame) = c - 2 /\ \A i \in 1 .. c - 2 : s.frame[i] = F[i + 1]
    BY <1>4a, <1>6
  <2>4. /\ Len(f) = Len(s.frame) + 1 /\ f[Len(s.frame) + 1] = F[c]
        /\ \A i \in 1 .. Len(s.frame) : f[i] = s.frame[i]
    BY <1>1, <2>1, AppendProperties
  <2>5. w = {m}
    BY <1>4a, <1>6
  <2> HIDE DEF f, w
  <2>6. next.frame = f /\ next.age = s.age /\ next.owners = w
    BY <2>2 DEF Rxd
  <2> HIDE DEF next
  <2>7. (c - 2) + 1 = c - 1 /\ (c - 1) + 1 = c /\ c /= 1
    BY <1>4, <1>6
  <2>8. Len(f) = c - 1 /\ f[c - 1] = F[c]
    BY <2>3, <2>4, <2>7
  <2>9. ASSUME NEW i \in 1 .. c - 1 PROVE f[i] = F[i + 1]
    <3>1. CASE i = c - 1
      BY <2>7, <2>8, <3>1
    <3>2. CASE i \in 1 .. c - 2
      BY <2>3, <2>4, <3>2
    <3> QED BY <1>4, <3>1, <3>2
  <2>10. Taken(next, m, c)
    BY <2>3, <2>5, <2>6, <2>7, <2>8, <2>9 DEF Taken, F
  <2> QED BY <1>6, <2>10 DEF F, l, next
<1>7. CASE c > 1 /\ c = l
  <2> DEFINE o == handleFrame(s)
             t == Append(s.out, Genuine(m))
  <2>1. next = [frame |-> <<>>, owners |-> {}, age |-> 0, out |-> o]
    BY <1>2, <1>4, <1>7 DEF RxdOctet
  <2>2. Len(s.frame) = l - 2 /\ \A i \in 1 .. Len(s.frame) : s.frame[i] = F[i + 1]
    BY <1>4a, <1>7
  <2>3. s.owners = {m}
    BY <1>2, <1>4a, <1>7
  <2>4. ppp_deframe(s.frame) = [ok |-> TRUE, payload |-> Messages[m]]
    BY <1>1, <1>3, <2>2
  <2>5. o = t
    BY <2>3, <2>4 DEF handleFrame, Genuine
  <2>6. next.out = o
    BY <2>1
  <2> HIDE DEF o, next
  <2>7. Genuine(m) \in Emitted
    BY MessagesAssumption, ElementOfSeq DEF Emitted, Genuine, Owners
  <2>8. Len(t) = Len(s.out) + 1 /\ t[Len(s.out) + 1] = Genuine(m) /\ Len(s.out) \in Nat
    BY <1>1, <2>7, AppendProperties, LenProperties
  <2> HIDE DEF t
  <2>9. Len(s.out) + 1 \in 1 .. Len(t)
    BY <2>8
  <2>10. Has(t, Genuine(m))
    BY <2>8, <2>9 DEF Has
  <2> QED BY <1>7, <2>5, <2>6, <2>10 DEF F, l, next, t
<1>8. c = 1 \/ (c > 1 /\ c < l) \/ (c > 1 /\ c = l)
  BY <1>2, <1>4
<1> QED BY <1>5, <1>6, <1>7, <1>8

-------------------------------------------------------------------------------
(* Type correctness of the receiver *)

Bounded == last <= sent /\ \A j \in 1 .. Len(line) : line[j].owner <= sent

TInv == TypeOK /\ Bounded

LEMMA OwnersSent ==
  ASSUME NEW s \in Seq(OnLine), NEW n \in Nat, \A j \in 1 .. Len(s) : s[j].owner <= n
  PROVE  OwnersOf(s) \subseteq 1 .. n
<1> SUFFICES ASSUME NEW m \in OwnersOf(s) PROVE m \in 1 .. n
  OBVIOUS
<1>1. m /= Text /\ \E j \in 1 .. Len(s) : s[j].owner = m
  BY OwnersAre
<1>2. PICK j \in 1 .. Len(s) : s[j].owner = m
  BY <1>1
<1>3. s[j] \in OnLine
  BY ElementOfSeq
<1>4. m \in Nat /\ m /= 0
  BY <1>1, <1>2, <1>3 DEF OnLine, Owners, Text
<1> QED BY <1>2, <1>4

LEMMA TypesAre ==
  TypeOK <=>
    /\ sent \in Owners /\ last \in Owners
    /\ texts \in 0 .. MaxTexts /\ faults \in 0 .. MaxFaults
    /\ line \in Seq(OnLine)
    /\ spoiled \subseteq 1 .. sent
    /\ inputFrame \in Seq(Plain) /\ owners \in SUBSET Owners
    /\ age \in 0 .. Late
    /\ emitted \in Seq(Emitted)
BY DEF TypeOK, OnLine, Plain, Emitted

\* The state of the receiver, as handleRxd begins.
Now == [frame |-> inputFrame, owners |-> owners, age |-> age, out |-> emitted]

\* What goes on behind the line.
LEMMA LineGrows ==
  ASSUME NEW ln \in Seq(OnLine), NEW x \in Seq(Octets), NEW o \in Owners, NEW n \in Nat,
         o <= n, \A j \in 1 .. Len(ln) : ln[j].owner <= n
  PROVE  /\ ln \o Owned(x, o) \in Seq(OnLine)
         /\ \A j \in 1 .. Len(ln \o Owned(x, o)) : (ln \o Owned(x, o))[j].owner <= n
<1> DEFINE t == Owned(x, o)
           r == ln \o t
           a == Len(ln)
           b == Len(t)
<1>1. t \in Seq(OnLine) /\ b = Len(x) /\ \A j \in 1 .. b : t[j].owner = o
  BY OwnedIs
<1> HIDE DEF t
<1>2. /\ r \in Seq(OnLine) /\ Len(r) = a + b
      /\ \A j \in 1 .. a + b : r[j] = IF j <= a THEN ln[j] ELSE t[j - a]
  BY <1>1, ConcatProperties
<1>3. a \in Nat /\ b \in Nat /\ \A j \in 1 .. a : ln[j].owner <= n
  BY <1>1, LenProperties
<1> HIDE DEF a, b, r
<1>4. ASSUME NEW j \in 1 .. a + b PROVE r[j].owner <= n
  <2>1. CASE j <= a
    <3>1. j \in 1 .. a /\ r[j] = ln[j]
      BY <1>2, <1>3, <2>1
    <3> QED BY <1>3, <3>1
  <2>2. CASE ~ (j <= a)
    <3>1. j - a \in 1 .. b /\ r[j] = t[j - a]
      BY <1>2, <1>3, <2>2
    <3> QED BY <1>1, <3>1
  <2> QED BY <2>1, <2>2
<1> QED BY <1>2, <1>4 DEF r, t

LEMMA HandlesChunk ==
  ASSUME TypeOK, NEW n \in 1 .. Len(line)
  PROVE  LET chunk == SubSeq(line, 1, n)
         IN /\ chunk \in Seq(OnLine) /\ Len(chunk) = n /\ \A k \in 1 .. n : chunk[k] = line[k]
            /\ Now \in Rxd /\ RxdOctets(Now, chunk)[n] \in Rxd
<1> DEFINE chunk == SubSeq(line, 1, n)
<1>1. /\ line \in Seq(OnLine) /\ inputFrame \in Seq(Plain) /\ owners \in SUBSET Owners
      /\ age \in 0 .. Late /\ emitted \in Seq(Emitted)
  BY TypesAre
<1>2. n \in Nat /\ n \in 0 .. Len(line)
  BY <1>1, LenProperties
<1>3. chunk \in Seq(OnLine) /\ Len(chunk) = n /\ \A k \in 1 .. n : chunk[k] = line[k]
  BY <1>1, <1>2, FirstOf
<1> HIDE DEF chunk
<1>4. Now \in Rxd
  BY <1>1 DEF Rxd, Now
<1>5. RxdOctets(Now, chunk)[n] \in Rxd
  <2>1. RxdOctets(Now, chunk) \in [0 .. n -> Rxd] /\ n \in 0 .. n
    BY <1>2, <1>3, <1>4, RxdOctetsAre
  <2> QED BY <2>1
<1> QED BY <1>3, <1>4, <1>5 DEF chunk

LEMMA TInvInit == Init => TInv
<1> SUFFICES ASSUME Init PROVE TInv
  OBVIOUS
<1>1. Len(Messages) \in Nat
  BY MessagesAssumption, LenProperties
<1>2. 0 \in Owners /\ 0 \in 0 .. MaxTexts /\ 0 \in 0 .. MaxFaults /\ 0 <= 0
  BY <1>1, LineAssumption DEF Owners
<1>3. <<>> \in Seq(OnLine) /\ <<>> \in Seq(Plain) /\ <<>> \in Seq(Emitted) /\ Len(<<>>) = 0
  BY EmptySeq
<1>4. sent = 0 /\ last = 0 /\ line = <<>>
  BY DEF Init, Text
<1>5. TypeOK
  BY <1>2, <1>3, <1>4, TypesAre DEF Init
<1>6. \A j \in 1 .. Len(line) : FALSE
  BY <1>3, <1>4
<1> QED BY <1>2, <1>4, <1>5, <1>6 DEF TInv, Bounded

LEMMA TInvNext ==
  ASSUME TInv, [Next]_vars
  PROVE  TInv'
<1>1. /\ sent \in Owners /\ last \in Owners
      /\ texts \in 0 .. MaxTexts /\ faults \in 0 .. MaxFaults
      /\ line \in Seq(OnLine)
      /\ spoiled \subseteq 1 .. sent
      /\ inputFrame \in Seq(Plain) /\ owners \in SUBSET Owners
      /\ age \in 0 .. Late
      /\ emitted \in Seq(Emitted)
  BY TypesAre DEF TInv
<1>2. last <= sent /\ \A j \in 1 .. Len(line) : line[j].owner <= sent
  BY DEF TInv, Bounded
<1>3. /\ Len(Messages) \in Nat /\ sent \in 0 .. Len(Messages) /\ Len(line) \in Nat
      /\ Owners = 0 .. Len(Messages) /\ 0 \in Owners
  BY <1>1, MessagesAssumption, LenProperties DEF Owners
<1>4. MaxTexts \in Nat /\ MaxFaults \in Nat /\ \A text \in Texts : text \in Seq(Octets)
  BY LineAssumption
<1>5. Late \in Nat
  BY LateIs
<1>6. \A j \in 1 .. Len(line) : line[j] \in OnLine
  BY <1>1, ElementOfSeq
<1>t. SUFFICES /\ sent' \in Owners /\ last' \in Owners /\ texts' \in 0 .. MaxTexts /\ faults' \in 0 .. MaxFaults
               /\ line' \in Seq(OnLine) /\ spoiled' \subseteq 1 .. sent' /\ inputFrame' \in Seq(Plain)
               /\ owners' \in SUBSET Owners
               /\ age' \in 0 .. Late /\ emitted' \in Seq(Emitted)
               /\ last' <= sent' /\ \A j \in 1 .. Len(line') : line'[j].owner <= sent'
  BY DEF TInv, Bounded, TypeOK, OnLine, Plain, Emitted
<1>7. CASE SendFrame
  <2>1. sent + 1 \in 1 .. Len(Messages) /\ sent + 1 \in Owners /\ sent + 1 \in Nat
    BY <1>3, <1>7 DEF SendFrame
  <2> DEFINE x == FrameOf(sent + 1)
             o == sent + 1
  <2>2. sent' = o /\ line' = line \o Owned(x, o)
    BY <1>7 DEF SendFrame, FrameOf
  <2>3. x \in Seq(Octets)
    BY <2>1, FrameOfIs
  <2>4. \A j \in 1 .. Len(line) : line[j].owner <= o
    BY <1>2, <1>3, <1>6 DEF OnLine
  <2> HIDE DEF x
  <2>5. o <= o /\ o \in Nat /\ o \in Owners
    BY <2>1
  <2> HIDE DEF o
  <2>6. line' \in Seq(OnLine) /\ \A j \in 1 .. Len(line') : line'[j].owner <= sent'
    BY <1>1, <2>2, <2>3, <2>4, <2>5, LineGrows
  <2>7. last' <= sent' /\ spoiled' \subseteq 1 .. sent'
    BY <1>1, <1>2, <1>3, <1>7 DEF SendFrame
  <2> QED BY <1>1, <1>7, <2>2, <2>5, <2>6, <2>7 DEF SendFrame
<1>8. CASE \E text \in Texts : PrintText(text)
  <2>1. PICK text \in Texts : PrintText(text)
    BY <1>8
  <2>2. line' = line \o Owned(text, 0) /\ text \in Seq(Octets) /\ sent' = sent
    BY <1>4, <2>1 DEF PrintText, Text
  <2>3. 0 <= sent /\ sent \in Nat
    BY <1>3
  <2>4. line' \in Seq(OnLine) /\ \A j \in 1 .. Len(line') : line'[j].owner <= sent'
    BY <1>1, <1>2, <1>3, <2>2, <2>3, LineGrows
  <2>5. texts' \in 0 .. MaxTexts
    BY <1>1, <1>4, <2>1 DEF PrintText
  <2> QED BY <1>1, <1>2, <2>1, <2>4, <2>5 DEF PrintText
<1>9. CASE \E n \in 1 .. Len(line) : FlushOutput(n)
  <2>1. PICK n \in 1 .. Len(line) : FlushOutput(n)
    BY <1>9
  <2> DEFINE k == n - 1
             cut == SubSeq(line, k + 1, Len(line))
  <2>2. k \in 0 .. Len(line) /\ k + 1 = n
    BY <1>3
  <2>3. line' = SubSeq(line, 1, k) /\ spoiled' = spoiled \cup OwnersOf(cut)
    BY <2>1, <2>2 DEF FlushOutput
  <2> HIDE DEF k
  <2>4. line' \in Seq(OnLine) /\ Len(line') = k /\ \A j \in 1 .. k : line'[j] = line[j]
    BY <1>1, <2>2, <2>3, FirstOf
  <2>5. cut \in Seq(OnLine) /\ Len(cut) = Len(line) - k /\ \A j \in 1 .. Len(line) - k : cut[j] = line[k + j]
    BY <1>1, <2>2, RestOf
  <2> HIDE DEF cut
  <2>6. \A j \in 1 .. Len(cut) : cut[j].owner <= sent
    <3>1. \A j \in 1 .. Len(line) - k : k + j \in 1 .. Len(line)
      BY <1>3, <2>2
    <3> QED BY <1>2, <2>5, <3>1
  <2>7. OwnersOf(cut) \subseteq 1 .. sent
    BY <1>3, <2>5, <2>6, OwnersSent
  <2>8. \A j \in 1 .. Len(line') : line'[j].owner <= sent
    <3>1. \A j \in 1 .. k : j \in 1 .. Len(line)
      BY <1>3, <2>2
    <3> QED BY <1>2, <2>4, <3>1
  <2>9. faults' \in 0 .. MaxFaults
    BY <1>1, <1>4, <2>1 DEF FlushOutput
  <2>10. spoiled' \subseteq 1 .. sent
    BY <1>1, <2>3, <2>7
  <2> QED BY <1>1, <1>2, <2>1, <2>4, <2>8, <2>9, <2>10 DEF FlushOutput
<1>10. CASE \E n \in 1 .. Len(line) : DropChunk(n)
  <2>1. PICK n \in 1 .. Len(line) : DropChunk(n)
    BY <1>10
  <2> DEFINE cut == SubSeq(line, 1, n)
  <2>2. n \in 0 .. Len(line)
    BY <1>3
  <2>3. line' = SubSeq(line, n + 1, Len(line)) /\ spoiled' = spoiled \cup OwnersOf(cut)
    BY <2>1 DEF DropChunk
  <2>4. /\ line' \in Seq(OnLine) /\ Len(line') = Len(line) - n
        /\ \A j \in 1 .. Len(line) - n : line'[j] = line[n + j]
    BY <1>1, <2>2, <2>3, RestOf
  <2>5. cut \in Seq(OnLine) /\ Len(cut) = n /\ \A j \in 1 .. n : cut[j] = line[j]
    BY <1>1, <2>2, FirstOf
  <2> HIDE DEF cut
  <2>6. \A j \in 1 .. Len(cut) : cut[j].owner <= sent
    <3>1. \A j \in 1 .. n : j \in 1 .. Len(line)
      BY <1>3
    <3> QED BY <1>2, <2>5, <3>1
  <2>7. OwnersOf(cut) \subseteq 1 .. sent
    BY <1>3, <2>5, <2>6, OwnersSent
  <2>8. \A j \in 1 .. Len(line') : line'[j].owner <= sent
    <3>1. \A j \in 1 .. Len(line) - n : n + j \in 1 .. Len(line)
      BY <1>3
    <3> QED BY <1>2, <2>4, <3>1
  <2>9. faults' \in 0 .. MaxFaults
    BY <1>1, <1>4, <2>1 DEF DropChunk
  <2>10. spoiled' \subseteq 1 .. sent
    BY <1>1, <2>3, <2>7
  <2>11. last' \in Owners /\ last' <= sent
    BY <1>2, <1>6, <2>1 DEF DropChunk, OnLine
  <2> QED BY <1>1, <2>1, <2>4, <2>8, <2>9, <2>10, <2>11 DEF DropChunk
<1>11. CASE \E n \in 1 .. Len(line) : HandleRxd(n)
  <2>1. PICK n \in 1 .. Len(line) : HandleRxd(n)
    BY <1>11
  <2> DEFINE s == RxdOctets(Now, SubSeq(line, 1, n))[n]
  <2>2. s \in Rxd
    BY HandlesChunk DEF TInv
  <2>3. /\ line' = SubSeq(line, n + 1, Len(line)) /\ last' = line[n].owner
        /\ inputFrame' = (IF s.age > FrameTimeout THEN <<>> ELSE s.frame)
        /\ owners' = (IF s.age > FrameTimeout THEN {} ELSE s.owners)
        /\ age' = s.age /\ emitted' = s.out
        /\ sent' = sent /\ texts' = texts /\ faults' = faults /\ spoiled' = spoiled
    BY <2>1 DEF HandleRxd, Now
  <2> HIDE DEF s
  <2>4. <<>> \in Seq(Plain)
    BY EmptySeq
  <2>5. /\ inputFrame' \in Seq(Plain) /\ owners' \in SUBSET Owners /\ age' \in 0 .. Late
        /\ emitted' \in Seq(Emitted)
    BY <2>2, <2>3, <2>4, RxdIs
  <2>6. n \in 0 .. Len(line)
    BY <1>3
  <2>7. /\ line' \in Seq(OnLine) /\ Len(line') = Len(line) - n
        /\ \A j \in 1 .. Len(line) - n : line'[j] = line[n + j]
    BY <1>1, <2>3, <2>6, RestOf
  <2>8. \A j \in 1 .. Len(line') : line'[j].owner <= sent
    <3>1. \A j \in 1 .. Len(line) - n : n + j \in 1 .. Len(line)
      BY <1>3
    <3> QED BY <1>2, <2>7, <3>1
  <2>9. last' \in Owners /\ last' <= sent
    BY <1>2, <1>6, <2>3 DEF OnLine
  <2> QED BY <1>1, <2>3, <2>5, <2>7, <2>8, <2>9
<1>12. CASE \E n \in 1 .. Len(line), octet \in {Flag, Esc} : DamageOctet(n, octet)
  <2>1. PICK n \in 1 .. Len(line), octet \in {Flag, Esc} : DamageOctet(n, octet)
    BY <1>12
  <2> DEFINE cut == SubSeq(line, n, n)
  <2>2. octet \in Octets
    BY PlainIs
  <2>3. line' = DamagedAt(line, n, octet) /\ spoiled' = spoiled \cup OwnersOf(cut)
    BY <2>1 DEF DamageOctet, DamagedAt
  <2>4. /\ line' \in Seq(OnLine) /\ Len(line') = Len(line)
        /\ \A j \in 1 .. Len(line) : line'[j].owner = line[j].owner
    BY <1>1, <2>2, <2>3, Damaged
  <2>5. cut \in Seq(OnLine) /\ Len(cut) = 1 /\ cut[1] = line[n]
    <3>1. \A i \in n .. n : line[i] \in OnLine
      BY <1>6
    <3>2. /\ cut \in Seq(OnLine) /\ Len(cut) = (IF n <= n THEN n - n + 1 ELSE 0)
          /\ \A i \in 1 .. n - n + 1 : cut[i] = line[n + i - 1]
      BY <3>1, SubSeqProperties
    <3>3. n - n + 1 = 1 /\ n + 1 - 1 = n /\ n <= n
      OBVIOUS
    <3> HIDE DEF cut
    <3> QED BY <3>2, <3>3
  <2> HIDE DEF cut
  <2>6. \A j \in 1 .. Len(cut) : cut[j].owner <= sent
    BY <1>2, <2>5
  <2>7. OwnersOf(cut) \subseteq 1 .. sent
    BY <1>3, <2>5, <2>6, OwnersSent
  <2>8. \A j \in 1 .. Len(line') : line'[j].owner <= sent
    BY <1>2, <2>4
  <2>9. faults' \in 0 .. MaxFaults
    BY <1>1, <1>4, <2>1 DEF DamageOctet
  <2>10. spoiled' \subseteq 1 .. sent
    BY <1>1, <2>3, <2>7
  <2> QED BY <1>1, <1>2, <2>1, <2>4, <2>8, <2>9, <2>10 DEF DamageOctet
<1>13. CASE Tick
  <2>1. age' \in 0 .. Late
    BY <1>1, <1>5, <1>13 DEF Tick
  <2>2. spoiled' \subseteq 1 .. sent
    <3>1. last \in Nat /\ sent \in Nat /\ (last /= Text => last \in 1 .. sent)
      BY <1>1, <1>2, <1>3 DEF Text
    <3> QED BY <1>1, <1>13, <3>1 DEF Tick
  <2> QED BY <1>1, <1>2, <1>13, <2>1, <2>2 DEF Tick
<1>14. CASE UNCHANGED vars
  BY <1>1, <1>2, <1>14 DEF vars
<1> QED BY <1>7, <1>8, <1>9, <1>10, <1>11, <1>12, <1>13, <1>14 DEF Next

\* The receiver keeps to its types, whatever the line does (Frame.cpp:9-69).
THEOREM ReceiverTypes == Spec => []TypeOK
<1>1. TInv /\ [Next]_vars => TInv'
  BY TInvNext
<1>2. TInv => TypeOK
  BY DEF TInv
<1> QED BY <1>1, <1>2, TInvInit, PTL DEF Spec

-------------------------------------------------------------------------------
(* Resynchronisation *)

\* The message came whole and nothing is left of it.
Came(s, ln, m) == Absent(ln, m) /\ Has(s.out, Genuine(m)) /\ m \notin s.owners

\* Its frame is on the line in one piece; the first octets of it, if they are gone, are what
\* the receiver has, and otherwise it has none.
OnItsWay(s, ln, la, m) ==
  \E p \in Int : /\ Placed(ln, FrameOf(m), m, p)
                 /\ IF p < 0 THEN la = m /\ Taken(s, m, -p) ELSE m \notin s.owners

Along(s, ln, la, m) == Came(s, ln, m) \/ OnItsWay(s, ln, la, m)

\* The receiver holds octets of nothing but what was sent, and an unspoiled message has come
\* or is on its way.
Sees(s, ln, la) ==
  /\ s.owners \subseteq 0 .. sent /\ (s.owners = {} => s.frame = <<>>)
  /\ \A m \in 1 .. sent \ spoiled : Along(s, ln, la, m)

SyncInv == TInv /\ Sees(Now, line, last)

\* A message that nothing happened to but that the line grew or changed elsewhere.
LEMMA Undisturbed ==
  ASSUME NEW m, FrameOf(m) \in Seq(Octets), NEW s, NEW ln, NEW la, NEW t,
         Along(s, ln, la, m),
         Absent(ln, m) => Absent(t, m),
         \A F \in Seq(Octets), p \in Int : Placed(ln, F, m, p) => Placed(t, F, m, p)
  PROVE  Along(s, t, la, m)
<1>1. CASE Came(s, ln, m)
  BY <1>1 DEF Along, Came
<1>2. CASE OnItsWay(s, ln, la, m)
  <2>1. PICK p \in Int : /\ Placed(ln, FrameOf(m), m, p)
                         /\ IF p < 0 THEN la = m /\ Taken(s, m, -p) ELSE m \notin s.owners
    BY <1>2 DEF OnItsWay
  <2>2. Placed(t, FrameOf(m), m, p)
    BY <2>1
  <2> QED BY <2>1, <2>2 DEF Along, OnItsWay
<1> QED BY <1>1, <1>2 DEF Along

LEMMA NotAnOwner ==
  ASSUME NEW s \in Seq(OnLine), NEW m, m /= Text, m \notin OwnersOf(s)
  PROVE  \A j \in 1 .. Len(s) : s[j].owner /= m
BY OwnersAre

LEMMA OctetOwners ==
  ASSUME NEW s \in Rxd, NEW b \in OnLine
  PROVE  /\ b.octet = Flag => RxdOctet(s, b).owners = {} /\ RxdOctet(s, b).frame = <<>>
         /\ b.octet /= Flag => RxdOctet(s, b).owners = s.owners \cup {b.owner}
BY DEF RxdOctet, Rxd

\* The next octet: a message stays on its way, or comes.
LEMMA OctetAlong ==
  ASSUME NEW m \in 1 .. Len(Messages), NEW s \in Rxd, NEW ln \in Seq(OnLine), Len(ln) >= 1,
         NEW la, Along(s, ln, la, m)
  PROVE  Along(RxdOctet(s, ln[1]), SubSeq(ln, 2, Len(ln)), ln[1].owner, m)
<1> DEFINE F == FrameOf(m)
           l == Len(F)
           b == ln[1]
           t == SubSeq(ln, 2, Len(ln))
           next == RxdOctet(s, b)
<1>1. /\ F \in Seq(Octets) /\ l \in Nat /\ l >= 3 /\ F[1] = Flag /\ F[l] = Flag
      /\ \A k \in 2 .. l - 1 : F[k] \in Plain
  BY FrameOfIs, LenProperties
<1>2. Len(ln) \in Nat /\ b \in OnLine
  <2>1. Len(ln) \in Nat
    BY LenProperties
  <2> QED BY <2>1, ElementOfSeq
<1>3. /\ Absent(ln, m) => Absent(t, m)
      /\ \A p \in Int : Placed(ln, F, m, p) =>
           IF p + l <= 1 THEN Absent(t, m) ELSE Placed(t, F, m, p - 1)
  <2>1. 1 \in 0 .. Len(ln) /\ 1 + 1 = 2
    BY <1>2
  <2> QED BY <1>1, <2>1, BeginningGone
<1>4. next.owners = {} \/ next.owners = s.owners \cup {b.owner}
  BY <1>2, OctetOwners
<1>5. \A x : Has(s.out, x) => Has(next.out, x)
  BY <1>2, RxdOctetIs, Zenon
<1>6. CASE Came(s, ln, m)
  <2>1. 1 \in 1 .. Len(ln)
    BY <1>2
  <2>2. b.owner /= m
    BY <1>6, <2>1 DEF Came, Absent
  <2> HIDE DEF b, t, next, F
  <2> QED BY <1>3, <1>4, <1>5, <1>6, <2>2 DEF Along, Came, t, next, b
<1>7. CASE OnItsWay(s, ln, la, m)
  <2>1. PICK p \in Int : /\ Placed(ln, F, m, p)
                         /\ IF p < 0 THEN la = m /\ Taken(s, m, -p) ELSE m \notin s.owners
    BY <1>7 DEF OnItsWay
  <2>2. /\ p + l >= 1 /\ p + l <= Len(ln)
        /\ \A k \in 1 .. l : p + k >= 1 => ln[p + k].octet = F[k] /\ ln[p + k].owner = m
        /\ \A j \in 1 .. Len(ln) : ln[j].owner = m => p < j /\ j <= p + l
    BY <2>1 DEF Placed
  <2>3. CASE p >= 1
    <3>1. b.owner /= m
      <4>1. 1 \in 1 .. Len(ln) /\ ~ (p < 1)
        BY <1>2, <2>3
      <4> QED BY <2>2, <4>1
    <3>2. ~ (p + l <= 1) /\ p - 1 \in Int /\ ~ (p < 0) /\ ~ (p - 1 < 0)
      BY <1>1, <2>3
    <3> HIDE DEF b, t, next, F, l
    <3>3. m \notin next.owners /\ Placed(t, F, m, p - 1)
      BY <1>3, <1>4, <2>1, <3>1, <3>2
    <3> QED BY <3>2, <3>3 DEF Along, OnItsWay, F, t, next, b
  <2>4. CASE p <= 0
    <3> DEFINE c == 1 - p
    <3>1. c \in 1 .. l /\ p + c = 1 /\ c - 1 = -p /\ (c > 1 <=> p < 0) /\ (c < l <=> ~ (p + l <= 1))
          /\ -(p - 1) = c /\ p - 1 < 0 /\ p - 1 \in Int
      BY <1>1, <2>2, <2>4
    <3> HIDE DEF c
    <3>2. b.octet = F[c] /\ b.owner = m
      <4>1. ln[p + c].octet = F[c] /\ ln[p + c].owner = m
        BY <2>2, <3>1
      <4> QED BY <3>1, <4>1
    <3>3. c > 1 => Taken(s, m, c - 1)
      BY <2>1, <3>1
    <3> HIDE DEF b, next, t
    <3>4. IF c < l THEN Taken(next, m, c) ELSE Has(next.out, Genuine(m))
      BY <1>2, <3>1, <3>2, <3>3, NextTaken DEF next
    <3>5. CASE c < l
      <4>1. Placed(t, F, m, p - 1)
        BY <1>3, <2>1, <3>1, <3>5
      <4>2. b.owner = m /\ Taken(next, m, -(p - 1))
        BY <3>1, <3>2, <3>4, <3>5
      <4> HIDE DEF F
      <4> QED BY <3>1, <4>1, <4>2 DEF Along, OnItsWay, F, t, next, b
    <3>6. CASE ~ (c < l)
      <4>1. Absent(t, m)
        BY <1>3, <2>1, <3>1, <3>6
      <4>2. c = l
        BY <1>1, <3>1, <3>6
      <4>3. next.owners = {}
        BY <1>1, <1>2, <3>2, <4>2, OctetOwners DEF next
      <4> QED BY <3>4, <3>6, <4>1, <4>3 DEF Along, Came, t, next, b
    <3> QED BY <3>5, <3>6
  <2> QED BY <2>3, <2>4
<1> QED BY <1>6, <1>7 DEF Along

\* And so it is after every octet of a chunk.
LEMMA ChunkAlong ==
  ASSUME SyncInv, NEW n \in 1 .. Len(line)
  PROVE  \A k \in 0 .. n :
           Sees(RxdOctets(Now, SubSeq(line, 1, n))[k], SubSeq(line, k + 1, Len(line)),
                IF k = 0 THEN last ELSE line[k].owner)
<1> DEFINE chunk == SubSeq(line, 1, n)
           r == RxdOctets(Now, chunk)
           rest(k) == SubSeq(line, k + 1, Len(line))
           la(k) == IF k = 0 THEN last ELSE line[k].owner
           S == {k \in 0 .. n : Sees(r[k], rest(k), la(k))}
<1>1. /\ line \in Seq(OnLine) /\ Len(line) \in Nat /\ n \in Nat
      /\ \A k \in 1 .. Len(line) : line[k] \in OnLine /\ line[k].owner \in 0 .. sent
  <2>1. line \in Seq(OnLine) /\ \A k \in 1 .. Len(line) : line[k].owner <= sent
    BY TypesAre DEF SyncInv, TInv, Bounded
  <2>2. \A k \in 1 .. Len(line) : line[k] \in OnLine
    BY <2>1, ElementOfSeq
  <2>3. sent \in Nat /\ \A o \in Owners : o \in Nat
    BY DEF SyncInv, TInv, TypeOK, Owners
  <2> QED BY <2>1, <2>2, <2>3, LenProperties DEF OnLine
<1>2. /\ chunk \in Seq(OnLine) /\ Len(chunk) = n /\ \A k \in 1 .. n : chunk[k] = line[k]
      /\ Now \in Rxd
  BY HandlesChunk DEF SyncInv, TInv
<1>3. /\ r \in [0 .. n -> Rxd] /\ r[0] = Now
      /\ \A k \in 1 .. n : r[k] = RxdOctet(r[k - 1], line[k])
  <2>1. /\ r \in [0 .. n -> Rxd] /\ r[0] = Now
        /\ \A k \in 1 .. n : r[k] = RxdOctet(r[k - 1], chunk[k])
    BY <1>2, RxdOctetsAre
  <2> QED BY <1>2, <2>1
<1> HIDE DEF chunk, r
<1>4. 1 .. sent \subseteq 1 .. Len(Messages)
  BY MessagesAssumption, LenProperties DEF SyncInv, TInv, TypeOK, Owners
<1>5. 0 \in S
  <2>1. rest(0) = line
    BY <1>1, WholeIs
  <2> HIDE DEF rest
  <2> QED BY <1>1, <1>3, <2>1 DEF SyncInv
<1>6. ASSUME NEW k \in 1 .. n, k - 1 \in S PROVE k \in S
  <2> DEFINE s == r[k - 1]
             ln == rest(k - 1)
             b == line[k]
  <2>1. /\ k - 1 \in 0 .. Len(line) /\ (k - 1) + 1 = k /\ Len(line) - (k - 1) >= 1 /\ k \in 1 .. Len(line)
        /\ k - 1 \in 0 .. n /\ k \in 0 .. n /\ k /= 0 /\ k + 1 \in Nat
    BY <1>1
  <2>2. /\ ln \in Seq(OnLine) /\ Len(ln) >= 1 /\ ln[1] = b /\ SubSeq(ln, 2, Len(ln)) = rest(k)
    BY <1>1, <2>1, NextOfRest
  <2>3. s \in Rxd /\ r[k] = RxdOctet(s, b) /\ b \in OnLine /\ b.owner \in 0 .. sent
    BY <1>1, <1>3, <2>1
  <2>4. Sees(s, ln, la(k - 1))
    BY <1>6
  <2> HIDE DEF s, ln, rest, la
  <2>5. ASSUME NEW m \in 1 .. sent \ spoiled PROVE Along(r[k], rest(k), b.owner, m)
    <3>1. Along(s, ln, la(k - 1), m) /\ m \in 1 .. Len(Messages)
      BY <1>4, <2>4 DEF Sees
    <3> QED BY <2>2, <2>3, <3>1, OctetAlong
  <2>6. r[k].owners \subseteq 0 .. sent /\ (r[k].owners = {} => r[k].frame = <<>>)
    <3>1. s.owners \subseteq 0 .. sent
      BY <2>4 DEF Sees
    <3> HIDE DEF b, S
    <3>2. \/ r[k].owners = {} /\ r[k].frame = <<>>
          \/ r[k].owners = s.owners \cup {b.owner}
      BY <2>3, OctetOwners
    <3> QED BY <2>3, <3>1, <3>2
  <2>7. la(k) = b.owner
    BY <2>1 DEF la
  <2> QED BY <2>1, <2>5, <2>6, <2>7 DEF Sees
<1>7. \A k \in 0 .. n : k \in S
  <2> HIDE DEF S
  <2> QED BY <1>1, <1>5, <1>6, Induct
<1> QED BY <1>7 DEF chunk, r

LEMMA SyncInit == Init => SyncInv
<1> SUFFICES ASSUME Init PROVE SyncInv
  OBVIOUS
<1>1. sent = 0 /\ inputFrame = <<>> /\ owners = {}
  BY DEF Init
<1>2. Now.owners = {} /\ Now.frame = <<>>
  BY <1>1 DEF Now
<1>3. \A m \in 1 .. sent \ spoiled : FALSE
  BY <1>1
<1> QED BY <1>2, <1>3, TInvInit DEF SyncInv, Sees

LEMMA SyncNext ==
  ASSUME SyncInv, [Next]_vars
  PROVE  SyncInv'
<1>1. TInv /\ TInv'
  BY TInvNext DEF SyncInv
<1>2. /\ line \in Seq(OnLine) /\ Len(line) \in Nat /\ last \in Owners /\ sent \in Owners
      /\ age \in 0 .. Late
      /\ \A j \in 1 .. Len(line) : line[j] \in OnLine
  BY <1>1, TypesAre, LenProperties, ElementOfSeq DEF TInv
<1>3. \A j \in 1 .. Len(line) : line[j].owner <= sent
  BY <1>1 DEF TInv, Bounded
<1>4. Len(Messages) \in Nat /\ Owners = 0 .. Len(Messages) /\ sent' \in 0 .. Len(Messages)
  <2>1. Len(Messages) \in Nat /\ Owners = 0 .. Len(Messages)
    BY MessagesAssumption, LenProperties DEF Owners
  <2>2. sent' \in Owners
    BY <1>1 DEF TInv, TypeOK
  <2> QED BY <2>1, <2>2
<1>5. /\ Now.owners = owners /\ Now.frame = inputFrame
      /\ Now'.owners = owners' /\ Now'.frame = inputFrame'
  BY DEF Now
<1>6. /\ owners \subseteq 0 .. sent /\ (owners = {} => inputFrame = <<>>)
      /\ \A m \in 1 .. sent \ spoiled : Along(Now, line, last, m)
  BY <1>5 DEF SyncInv, Sees
<1>w. SUFFICES /\ owners' \subseteq 0 .. sent' /\ (owners' = {} => inputFrame' = <<>>)
               /\ \A m \in 1 .. sent' \ spoiled' : Along(Now', line', last', m)
  <2>1. ASSUME \A m \in 1 .. sent' \ spoiled' : Along(Now', line', last', m)
        PROVE  (\A m \in 1 .. sent \ spoiled : Along(Now, line, last, m))'
    BY <2>1 DEF Along, Came, OnItsWay, Taken, Absent, Placed, Has, Genuine, FrameOf
  <2> QED BY <1>1, <1>5, <2>1 DEF SyncInv, Sees
<1>7. CASE \E n \in 1 .. Len(line) : HandleRxd(n)
  <2>1. PICK n \in 1 .. Len(line) : HandleRxd(n)
    BY <1>7
  <2> DEFINE chunk == SubSeq(line, 1, n)
             s == RxdOctets(Now, chunk)[n]
             t == SubSeq(line, n + 1, Len(line))
             la == line[n].owner
  <2>2. s \in Rxd
    BY <1>1, HandlesChunk DEF TInv
  <2>3. /\ line' = t /\ last' = la
        /\ inputFrame' = (IF s.age > FrameTimeout THEN <<>> ELSE s.frame)
        /\ owners' = (IF s.age > FrameTimeout THEN {} ELSE s.owners)
        /\ age' = s.age /\ emitted' = s.out
        /\ sent' = sent /\ spoiled' = spoiled
    BY <2>1 DEF HandleRxd, Now
  <2>4. /\ s.owners \subseteq 0 .. sent /\ (s.owners = {} => s.frame = <<>>)
        /\ \A m \in 1 .. sent \ spoiled : Along(s, t, la, m)
    <3>1. n \in 0 .. n /\ n /= 0
      BY <1>2
    <3>2. Sees(s, t, la)
      BY <3>1, ChunkAlong
    <3> QED BY <3>2 DEF Sees
  <2> HIDE DEF s, t, la
  <2>5. owners' \subseteq 0 .. sent' /\ (owners' = {} => inputFrame' = <<>>)
    BY <2>3, <2>4
  <2>6. ASSUME NEW m \in 1 .. sent \ spoiled PROVE Along(Now', t, la, m)
    <3>1. Along(s, t, la, m)
      BY <2>4
    <3>2. Now'.out = s.out /\ Now'.age = s.age /\ (m \notin s.owners => m \notin Now'.owners)
      BY <2>3 DEF Now
    <3>3. CASE Came(s, t, m)
      BY <3>2, <3>3 DEF Along, Came
    <3>4. CASE OnItsWay(s, t, la, m)
      <4>1. PICK p \in Int : /\ Placed(t, FrameOf(m), m, p)
                             /\ IF p < 0 THEN la = m /\ Taken(s, m, -p) ELSE m \notin s.owners
        BY <3>4 DEF OnItsWay
      <4>2. ASSUME p < 0 PROVE Taken(Now', m, -p)
        <5>1. Taken(s, m, -p)
          BY <4>1, <4>2
        <5>2. s.age <= FrameTimeout /\ s.age \in 0 .. Late /\ FrameTimeout \in Nat
          BY <2>2, <5>1, TimeoutAssumption, RxdIs DEF Taken
        <5>3. ~ (s.age > FrameTimeout)
          BY <5>2, LateIs
        <5>4. inputFrame' = s.frame /\ owners' = s.owners
          BY <2>3, <5>3
        <5> QED BY <1>5, <3>2, <5>1, <5>4 DEF Taken
      <4> HIDE DEF Now
      <4> QED BY <3>2, <4>1, <4>2 DEF Along, OnItsWay
    <3> QED BY <3>1, <3>3, <3>4 DEF Along
  <2> QED BY <2>3, <2>5, <2>6
<1>8. ASSUME sent <= sent', UNCHANGED <<inputFrame, owners>>,
             \A m \in 1 .. sent' \ spoiled' : Along(Now', line', last', m)
      PROVE  /\ owners' \subseteq 0 .. sent' /\ (owners' = {} => inputFrame' = <<>>)
             /\ \A m \in 1 .. sent' \ spoiled' : Along(Now', line', last', m)
  <2>1. 0 .. sent \subseteq 0 .. sent'
    BY <1>2, <1>4, <1>8
  <2> QED BY <1>6, <1>8, <2>1
<1>9. ASSUME NEW m \in 1 .. sent' \ spoiled'
      PROVE  /\ m \in 1 .. Len(Messages) /\ m /= Text /\ m \in Owners
             /\ FrameOf(m) \in Seq(Octets) /\ Len(FrameOf(m)) \in Nat /\ Len(FrameOf(m)) >= 3
  <2>1. m \in 1 .. Len(Messages) /\ m /= Text /\ m \in Owners
    BY <1>4, <1>9 DEF Text
  <2> QED BY <2>1, FrameOfIs, LenProperties
<1>10. CASE SendFrame
  <2> DEFINE o == sent + 1
             F == FrameOf(o)
             t == Owned(F, o)
  <2>1. /\ sent' = o /\ spoiled' = spoiled /\ UNCHANGED <<last, inputFrame, owners, age, emitted>>
        /\ line' = line \o t
    BY <1>10 DEF SendFrame, FrameOf
  <2>2. o \in 1 .. Len(Messages) /\ o \in Owners /\ o \in Nat
    BY <1>2, <1>4, <2>1
  <2>3. F \in Seq(Octets) /\ Len(F) >= 1 /\ Len(F) \in Nat
    BY <2>2, FrameOfIs, LenProperties
  <2>4. t \in Seq(OnLine) /\ \A j \in 1 .. Len(t) : t[j].owner = o
    BY <2>2, <2>3, OwnedIs
  <2>5. Now' = Now
    BY <2>1 DEF Now
  <2>6. Along(Now, line \o t, last, o)
    <3>1. Absent(line, o)
      BY <1>2, <1>3, <1>4 DEF Absent, OnLine
    <3>2. Placed(line \o t, F, o, Len(line))
      BY <1>2, <2>2, <2>3, <3>1, JustSent
    <3>3. o \notin Now.owners
      <4>1. o \notin 0 .. sent
        BY <1>2, <1>4
      <4> QED BY <1>5, <1>6, <4>1
    <3>4. Len(line) \in Int /\ ~ (Len(line) < 0)
      BY <1>2
    <3> HIDE DEF t, F
    <3> QED BY <3>2, <3>3, <3>4 DEF Along, OnItsWay, F
  <2>7. ASSUME NEW m \in 1 .. sent' \ spoiled', m /= o PROVE Along(Now, line \o t, last, m)
    <3>1. m \in 1 .. sent \ spoiled
      BY <1>2, <1>4, <2>1, <2>7
    <3>2. Absent(t, m)
      BY <2>4, <2>7 DEF Absent
    <3>3. /\ Absent(line, m) => Absent(line \o t, m)
          /\ \A G \in Seq(Octets), p \in Int : Placed(line, G, m, p) => Placed(line \o t, G, m, p)
      BY <1>2, <2>4, <3>2, Behind
    <3> HIDE DEF t
    <3> QED BY <1>6, <1>9, <2>7, <3>1, <3>3, Undisturbed
  <2> HIDE DEF t
  <2>8. \A m \in 1 .. sent' \ spoiled' : Along(Now', line', last', m)
    BY <2>1, <2>5, <2>6, <2>7
  <2>9. sent <= sent'
    BY <1>2, <1>4, <2>1
  <2> QED BY <1>8, <2>1, <2>8, <2>9
<1>s. sent <= sent
  BY <1>2, <1>4
<1>11. CASE \E text \in Texts : PrintText(text)
  <2>1. PICK text \in Texts : PrintText(text)
    BY <1>11
  <2> DEFINE t == Owned(text, Text)
  <2>2. /\ sent' = sent /\ spoiled' = spoiled /\ line' = line \o t
        /\ UNCHANGED <<last, inputFrame, owners, age, emitted>>
    BY <2>1 DEF PrintText
  <2>3. t \in Seq(OnLine) /\ \A j \in 1 .. Len(t) : t[j].owner = Text
    <3>1. text \in Seq(Octets) /\ Text \in Owners
      BY <1>4, LineAssumption DEF Text
    <3> QED BY <3>1, OwnedIs
  <2>4. Now' = Now
    BY <2>2 DEF Now
  <2> HIDE DEF t
  <2>5. ASSUME NEW m \in 1 .. sent' \ spoiled' PROVE Along(Now', line', last', m)
    <3>1. Absent(t, m)
      BY <1>9, <2>3, <2>5 DEF Absent
    <3>2. /\ Absent(line, m) => Absent(line', m)
          /\ \A G \in Seq(Octets), p \in Int : Placed(line, G, m, p) => Placed(line', G, m, p)
      BY <1>2, <2>2, <2>3, <3>1, Behind
    <3>3. Along(Now, line, last, m)
      BY <1>6, <2>2, <2>5
    <3> QED BY <1>9, <2>2, <2>4, <2>5, <3>2, <3>3, Undisturbed
  <2> QED BY <1>8, <1>s, <2>2, <2>5
<1>12. CASE \E n \in 1 .. Len(line) : FlushOutput(n)
  <2>1. PICK n \in 1 .. Len(line) : FlushOutput(n)
    BY <1>12
  <2> DEFINE k == n - 1
             cut == SubSeq(line, k + 1, Len(line))
  <2>2. k \in 0 .. Len(line) /\ k + 1 = n
    BY <1>2
  <2>3. /\ sent' = sent /\ line' = SubSeq(line, 1, k) /\ spoiled' = spoiled \cup OwnersOf(cut)
        /\ UNCHANGED <<last, inputFrame, owners, age, emitted>>
    BY <2>1, <2>2 DEF FlushOutput
  <2> HIDE DEF k
  <2>4. /\ cut \in Seq(OnLine) /\ Len(cut) = Len(line) - k
        /\ \A j \in 1 .. Len(line) - k : cut[j] = line[k + j]
    BY <1>2, <2>2, RestOf
  <2> HIDE DEF cut
  <2>5. Now' = Now
    BY <2>3 DEF Now
  <2>6. ASSUME NEW m \in 1 .. sent' \ spoiled' PROVE Along(Now', line', last', m)
    <3>1. \A j \in 1 .. Len(cut) : cut[j].owner /= m
      BY <1>9, <2>3, <2>4, <2>6, NotAnOwner
    <3>2. ASSUME NEW j \in k + 1 .. Len(line) PROVE line[j].owner /= m
      <4>1. j - k \in 1 .. Len(line) - k /\ k + (j - k) = j
        BY <1>2, <2>2
      <4>2. cut[j - k] = line[k + (j - k)]
        BY <2>4, <4>1
      <4> QED BY <2>4, <3>1, <4>1, <4>2
    <3>3. /\ Absent(line, m) => Absent(line', m)
          /\ \A G \in Seq(Octets), p \in Int : Placed(line, G, m, p) => Placed(line', G, m, p)
      BY <1>2, <2>2, <2>3, <3>2, EndLost
    <3>4. Along(Now, line, last, m)
      BY <1>6, <2>3, <2>6
    <3> QED BY <1>9, <2>3, <2>5, <2>6, <3>3, <3>4, Undisturbed
  <2> QED BY <1>8, <1>s, <2>3, <2>6
<1>13. CASE \E n \in 1 .. Len(line) : DropChunk(n)
  <2>1. PICK n \in 1 .. Len(line) : DropChunk(n)
    BY <1>13
  <2> DEFINE cut == SubSeq(line, 1, n)
  <2>2. n \in 0 .. Len(line) /\ n \in Nat /\ n >= 1
    BY <1>2
  <2>3. /\ sent' = sent /\ line' = SubSeq(line, n + 1, Len(line)) /\ spoiled' = spoiled \cup OwnersOf(cut)
        /\ UNCHANGED <<inputFrame, owners, age, emitted>>
    BY <2>1 DEF DropChunk
  <2>4. cut \in Seq(OnLine) /\ Len(cut) = n /\ \A j \in 1 .. n : cut[j] = line[j]
    BY <1>2, <2>2, FirstOf
  <2> HIDE DEF cut
  <2>5. Now' = Now
    BY <2>3 DEF Now
  <2>6. ASSUME NEW m \in 1 .. sent' \ spoiled' PROVE Along(Now', line', last', m)
    <3> DEFINE F == FrameOf(m)
               l == Len(F)
    <3>1. m /= Text /\ F \in Seq(Octets) /\ l \in Nat /\ l >= 3
      BY <1>9, <2>6
    <3>2. \A j \in 1 .. n : line[j].owner /= m
      <4>1. \A j \in 1 .. Len(cut) : cut[j].owner /= m
        BY <2>3, <2>4, <2>6, <3>1, NotAnOwner
      <4> QED BY <2>4, <4>1
    <3>3. Along(Now, line, last, m)
      BY <1>6, <2>3, <2>6
    <3>4. CASE Came(Now, line, m)
      <4>1. Absent(line', m)
        BY <1>2, <2>2, <2>3, <3>4, BeginningGone DEF Came
      <4> QED BY <2>5, <3>4, <4>1 DEF Along, Came
    <3>5. CASE OnItsWay(Now, line, last, m)
      <4>1. PICK p \in Int : /\ Placed(line, F, m, p)
                             /\ IF p < 0 THEN last = m /\ Taken(Now, m, -p) ELSE m \notin Now.owners
        BY <3>5 DEF OnItsWay
      <4>2. p + l >= 1 /\ \A k \in 1 .. l : p + k >= 1 => line[p + k].owner = m
        BY <4>1 DEF Placed
      <4> HIDE DEF l
      <4>3. n <= p
        <5> SUFFICES ASSUME p < n PROVE FALSE
          BY <2>2
        <5>1. CASE p < 0
          <6>1. 1 - p \in 1 .. l /\ p + (1 - p) = 1 /\ 1 \in 1 .. n
            BY <2>2, <3>1, <4>2, <5>1
          <6>2. line[p + (1 - p)].owner = m
            BY <4>2, <6>1
          <6> QED BY <3>2, <6>1, <6>2
        <5>2. CASE p >= 0
          <6>1. 1 \in 1 .. l /\ p + 1 >= 1 /\ p + 1 \in 1 .. n
            BY <2>2, <3>1, <5>2
          <6> QED BY <3>2, <4>2, <6>1
        <5> QED BY <5>1, <5>2
      <4>4. ~ (p + l <= n) /\ p - n \in Int /\ ~ (p - n < 0) /\ ~ (p < 0)
        BY <2>2, <3>1, <4>3
      <4>5. Placed(line', F, m, p - n)
        BY <1>2, <2>2, <2>3, <3>1, <4>1, <4>4, BeginningGone DEF l
      <4> QED BY <2>5, <4>1, <4>4, <4>5 DEF Along, OnItsWay
    <3> QED BY <3>3, <3>4, <3>5 DEF Along
  <2> QED BY <1>8, <1>s, <2>3, <2>6
<1>14. CASE \E n \in 1 .. Len(line), octet \in {Flag, Esc} : DamageOctet(n, octet)
  <2>1. PICK n \in 1 .. Len(line), octet \in {Flag, Esc} : DamageOctet(n, octet)
    BY <1>14
  <2> DEFINE cut == SubSeq(line, n, n)
  <2>2. octet \in Octets
    BY PlainIs
  <2>3. /\ sent' = sent /\ line' = DamagedAt(line, n, octet) /\ spoiled' = spoiled \cup OwnersOf(cut)
        /\ UNCHANGED <<last, inputFrame, owners, age, emitted>>
    BY <2>1 DEF DamageOctet, DamagedAt
  <2>4. cut \in Seq(OnLine) /\ Len(cut) = 1 /\ cut[1] = line[n]
    <3>1. \A i \in n .. n : line[i] \in OnLine
      BY <1>2
    <3>2. /\ cut \in Seq(OnLine) /\ Len(cut) = (IF n <= n THEN n - n + 1 ELSE 0)
          /\ \A i \in 1 .. n - n + 1 : cut[i] = line[n + i - 1]
      BY <3>1, SubSeqProperties
    <3>3. n - n + 1 = 1 /\ n + 1 - 1 = n /\ n <= n
      OBVIOUS
    <3> HIDE DEF cut
    <3> QED BY <3>2, <3>3
  <2> HIDE DEF cut
  <2>5. Now' = Now
    BY <2>3 DEF Now
  <2>6. ASSUME NEW m \in 1 .. sent' \ spoiled' PROVE Along(Now', line', last', m)
    <3>1. line[n].owner /= m
      <4>1. \A j \in 1 .. Len(cut) : cut[j].owner /= m
        BY <1>9, <2>3, <2>4, <2>6, NotAnOwner
      <4> QED BY <2>4, <4>1
    <3>2. /\ Absent(line, m) => Absent(line', m)
          /\ \A G \in Seq(Octets), p \in Int : Placed(line, G, m, p) => Placed(line', G, m, p)
      BY <1>2, <2>2, <2>3, <3>1, DamageElsewhere
    <3>3. Along(Now, line, last, m)
      BY <1>6, <2>3, <2>6
    <3> QED BY <1>9, <2>3, <2>5, <2>6, <3>2, <3>3, Undisturbed
  <2> QED BY <1>8, <1>s, <2>3, <2>6
<1>15. CASE Tick
  <2>1. /\ age' = age + 1 /\ sent' = sent /\ age < Late
        /\ UNCHANGED <<line, last, inputFrame, owners, emitted>>
    BY <1>15 DEF Tick
  <2>2. /\ Now'.owners = Now.owners /\ Now'.out = Now.out /\ Now'.frame = Now.frame
        /\ Now'.age = age + 1 /\ Now.age = age
    BY <2>1 DEF Now
  <2>3. ASSUME NEW m \in 1 .. sent' \ spoiled' PROVE Along(Now', line, last, m)
    <3> DEFINE F == FrameOf(m)
               l == Len(F)
    <3>1. m /= Text /\ l \in Nat /\ l >= 3
      BY <1>9, <2>3
    <3>2. m \notin spoiled /\ (age' = Late /\ line /= <<>> /\ Head(line).owner = last => m /= last)
      BY <1>15, <2>3, <3>1 DEF Tick
    <3>3. Along(Now, line, last, m)
      BY <1>6, <2>1, <2>3, <3>2
    <3>4. CASE Came(Now, line, m)
      <4> HIDE DEF Now
      <4> QED BY <2>2, <3>4 DEF Along, Came
    <3>5. CASE OnItsWay(Now, line, last, m)
      <4>1. PICK p \in Int : /\ Placed(line, F, m, p)
                             /\ IF p < 0 THEN last = m /\ Taken(Now, m, -p) ELSE m \notin Now.owners
        BY <3>5 DEF OnItsWay
      <4>2. ASSUME p < 0 PROVE Taken(Now', m, -p)
        <5>1. last = m /\ age <= FrameTimeout /\ Taken(Now, m, -p)
          BY <2>2, <4>1, <4>2 DEF Taken
        <5>2. line /= <<>> /\ Head(line) = line[1] /\ line[1].owner = m
          <6>1. p + l >= 1 /\ p + l <= Len(line) /\ \A k \in 1 .. l : p + k >= 1 => line[p + k].owner = m
            BY <4>1 DEF Placed
          <6>2. 1 - p \in 1 .. l /\ p + (1 - p) = 1
            BY <3>1, <4>2, <6>1
          <6>3. line[p + (1 - p)].owner = m
            BY <6>1, <6>2
          <6>4. Len(line) >= 1
            BY <1>2, <3>1, <6>1
          <6>5. line /= <<>>
            BY <6>4, EmptySeq
          <6> QED BY <1>2, <6>2, <6>3, <6>5
        <5>3. age + 1 /= Late
          BY <2>1, <3>2, <5>1, <5>2
        <5>4. age + 1 <= FrameTimeout
          BY <1>2, <2>1, <5>1, <5>3, LateIs, TimeoutAssumption
        <5> HIDE DEF Now
        <5> QED BY <2>2, <5>1, <5>4 DEF Taken
      <4> HIDE DEF Now
      <4> QED BY <2>2, <4>1, <4>2 DEF Along, OnItsWay
    <3> QED BY <3>3, <3>4, <3>5 DEF Along
  <2> QED BY <1>8, <1>s, <2>1, <2>3
<1>16. CASE UNCHANGED vars
  <2>1. UNCHANGED <<sent, spoiled, line, last, inputFrame, owners, age, emitted>>
    BY <1>16 DEF vars
  <2>2. Now' = Now
    BY <2>1 DEF Now
  <2> QED BY <1>6, <2>1, <2>2
<1> QED BY <1>7, <1>10, <1>11, <1>12, <1>13, <1>14, <1>15, <1>16 DEF Next

\* A message whose octets all arrive, none too late, is emitted as soon as the last one is
\* there, whatever came before it and however the line cut it up (Frame.cpp:40-64).
THEOREM ReceiverResynchronises == Spec => []Resynchronised
<1>1. SyncInv => Resynchronised
  <2> SUFFICES ASSUME SyncInv, NEW m \in 1 .. sent \ spoiled, m \notin OwnersOf(line)
               PROVE  \E i \in DOMAIN emitted : emitted[i] = Genuine(m)
    BY DEF Resynchronised
  <2>1. line \in Seq(OnLine) /\ emitted \in Seq(Emitted) /\ m /= Text /\ Len(line) \in Nat
    <3>1. line \in Seq(OnLine) /\ emitted \in Seq(Emitted)
      BY TypesAre DEF SyncInv, TInv
    <3> QED BY <3>1, LenProperties DEF Text
  <2>2. \A j \in 1 .. Len(line) : line[j].owner /= m
    BY <2>1, NotAnOwner
  <2>3. ~ OnItsWay(Now, line, last, m)
    <3> SUFFICES ASSUME OnItsWay(Now, line, last, m) PROVE FALSE
      OBVIOUS
    <3>1. PICK p \in Int : Placed(line, FrameOf(m), m, p)
      BY DEF OnItsWay
    <3> DEFINE l == Len(FrameOf(m))
    <3>2. /\ l >= 1 /\ p + l >= 1 /\ p + l <= Len(line)
          /\ \A k \in 1 .. l : p + k >= 1 => line[p + k].owner = m
      BY <3>1 DEF Placed
    <3>3. l \in Nat
      <4>1. m \in 1 .. Len(Messages)
        <5>1. sent \in 0 .. Len(Messages) /\ Len(Messages) \in Nat
          BY MessagesAssumption, LenProperties DEF SyncInv, TInv, TypeOK, Owners
        <5> QED BY <5>1
      <4> QED BY <4>1, FrameOfIs, LenProperties
    <3> HIDE DEF l
    <3>4. l \in 1 .. l /\ p + l \in 1 .. Len(line)
      BY <2>1, <3>2, <3>3
    <3> QED BY <2>2, <3>2, <3>4
  <2>4. Has(emitted, Genuine(m))
    BY <2>3 DEF SyncInv, Sees, Along, Came, Now
  <2> QED BY <2>1, <2>4, LenProperties DEF Has
<1>2. SyncInv /\ [Next]_vars => SyncInv'
  BY SyncNext
<1> QED BY <1>1, <1>2, SyncInit, PTL DEF Spec

-------------------------------------------------------------------------------
(* Faithfulness *)

IntactIn(e, sp) == e.owners \cap (sp \cup {Text}) = {}

\* What belongs to messages is on the line in the order of sending.
Ordered(ln) ==
  \A j, k \in 1 .. Len(ln) :
    j <= k /\ ln[j].owner /= Text /\ ln[k].owner /= Text => ln[j].owner <= ln[k].owner

\* What came intact is one of the first n messages, all of the line is later, and they came
\* in order.
Done(out, ln, sp, n) ==
  /\ \A i \in 1 .. Len(out) : IntactIn(out[i], sp) =>
       \E m \in 1 .. n : /\ out[i] = Genuine(m)
                         /\ \A j \in 1 .. Len(ln) : ln[j].owner /= Text => m < ln[j].owner
  /\ \A i, j \in 1 .. Len(out) : i < j /\ IntactIn(out[i], sp) /\ IntactIn(out[j], sp)
       => \A a \in out[i].owners, b \in out[j].owners : a < b

FInv == SyncInv /\ Ordered(line) /\ Done(emitted, line, spoiled, sent)

\* More may be spoiled, and the line may change as long as what is new on it is new.
LEMMA StillDone ==
  ASSUME NEW out, NEW ln, NEW sp, NEW n \in Nat, Done(out, ln, sp, n),
         NEW t, NEW sp2, sp \subseteq sp2, NEW n2 \in Nat, n <= n2,
         \A j \in 1 .. Len(t) : \/ t[j].owner = Text
                                \/ t[j].owner \in Nat /\ t[j].owner > n
                                \/ \E i \in 1 .. Len(ln) : t[j].owner = ln[i].owner
  PROVE  Done(out, t, sp2, n2)
<1>1. \A e : IntactIn(e, sp2) => IntactIn(e, sp)
  BY DEF IntactIn
<1>2. ASSUME NEW i \in 1 .. Len(out), IntactIn(out[i], sp2)
      PROVE  \E m \in 1 .. n2 : /\ out[i] = Genuine(m)
                                /\ \A j \in 1 .. Len(t) : t[j].owner /= Text => m < t[j].owner
  <2>1. PICK m \in 1 .. n : /\ out[i] = Genuine(m)
                            /\ \A j \in 1 .. Len(ln) : ln[j].owner /= Text => m < ln[j].owner
    BY <1>1, <1>2 DEF Done
  <2>2. m \in 1 .. n2
    OBVIOUS
  <2>3. ASSUME NEW j \in 1 .. Len(t), t[j].owner /= Text PROVE m < t[j].owner
    <3>1. CASE t[j].owner \in Nat /\ t[j].owner > n
      BY <3>1
    <3>2. CASE \E k \in 1 .. Len(ln) : t[j].owner = ln[k].owner
      BY <2>1, <2>3, <3>2
    <3> QED BY <2>3, <3>1, <3>2
  <2> QED BY <2>1, <2>2, <2>3
<1>3. \A i, j \in 1 .. Len(out) : i < j /\ IntactIn(out[i], sp2) /\ IntactIn(out[j], sp2)
        => \A a \in out[i].owners, b \in out[j].owners : a < b
  BY <1>1 DEF Done
<1> QED BY <1>2, <1>3 DEF Done

LEMMA OrderedPart ==
  ASSUME NEW ln, Ordered(ln), NEW t, NEW d \in Int,
         \A j \in 1 .. Len(t) : d + j \in 1 .. Len(ln) /\ t[j].owner = ln[d + j].owner
  PROVE  Ordered(t)
<1> SUFFICES ASSUME NEW j \in 1 .. Len(t), NEW k \in 1 .. Len(t),
                    j <= k, t[j].owner /= Text, t[k].owner /= Text
             PROVE  t[j].owner <= t[k].owner
  BY DEF Ordered
<1>1. d + j <= d + k
  OBVIOUS
<1> QED BY <1>1 DEF Ordered

\* Behind the line there may come text, and what belongs to a later message.
LEMMA OrderedBehind ==
  ASSUME NEW ln \in Seq(OnLine), Ordered(ln), NEW t \in Seq(OnLine), NEW o \in Nat,
         \A j \in 1 .. Len(t) : t[j].owner = o,
         o = Text \/ \A j \in 1 .. Len(ln) : ln[j].owner <= o
  PROVE  /\ Ordered(ln \o t)
         /\ \A j \in 1 .. Len(ln \o t) : \/ (ln \o t)[j].owner = o
                                         \/ \E i \in 1 .. Len(ln) : (ln \o t)[j].owner = ln[i].owner
<1> DEFINE a == Len(ln)
           b == Len(t)
           r == ln \o t
<1>1. /\ a \in Nat /\ b \in Nat /\ Len(r) = a + b
      /\ \A j \in 1 .. a : r[j] = ln[j]
      /\ \A j \in a + 1 .. a + b : r[j] = t[j - a]
  BY ConcatProperties, LenProperties
<1>2. \A j \in 1 .. b : t[j].owner = o
  OBVIOUS
<1>3. o = Text \/ \A j \in 1 .. a : ln[j].owner <= o
  OBVIOUS
<1>4. \A j, k \in 1 .. a : j <= k /\ ln[j].owner /= Text /\ ln[k].owner /= Text => ln[j].owner <= ln[k].owner
  BY DEF Ordered
<1> HIDE DEF a, b, r
<1>5. ASSUME NEW j \in a + 1 .. a + b PROVE r[j].owner = o
  <2>1. j - a \in 1 .. b
    BY <1>1
  <2> QED BY <1>1, <1>2, <2>1
<1>6. \A j \in 1 .. Len(r) : j \in 1 .. a \/ j \in a + 1 .. a + b
  BY <1>1
<1>7. \A j \in 1 .. Len(r) : r[j].owner = o \/ \E i \in 1 .. a : r[j].owner = ln[i].owner
  BY <1>1, <1>5, <1>6
<1>8. ASSUME NEW j \in 1 .. Len(r), NEW k \in 1 .. Len(r),
             j <= k, r[j].owner /= Text, r[k].owner /= Text
      PROVE  r[j].owner <= r[k].owner
  <2>1. CASE j \in 1 .. a /\ k \in 1 .. a
    BY <1>1, <1>4, <1>8, <2>1
  <2>2. CASE j \in 1 .. a /\ k \in a + 1 .. a + b
    BY <1>1, <1>3, <1>5, <1>8, <2>2
  <2>3. CASE j \in a + 1 .. a + b /\ k \in a + 1 .. a + b
    BY <1>5, <2>3
  <2>4. ~ (j \in a + 1 .. a + b /\ k \in 1 .. a)
    BY <1>1, <1>8
  <2> QED BY <1>6, <2>1, <2>2, <2>3, <2>4
<1> QED BY <1>7, <1>8 DEF Ordered, a, r

\* Without octets there is no frame.
LEMMA NothingIsNoFrame == ~ ppp_deframe(<<>>).ok
<1>1. Len(<<>>) = 0
  BY EmptySeq
<1> QED BY <1>1 DEF ppp_deframe

\* What the next octet makes come is intact only when it is the next message.
LEMMA OctetDone ==
  ASSUME TInv, NEW s \in Rxd, NEW ln \in Seq(OnLine), Len(ln) >= 1, NEW la,
         Sees(s, ln, la), Ordered(ln), Done(s.out, ln, spoiled, sent)
  PROVE  Done(RxdOctet(s, ln[1]).out, SubSeq(ln, 2, Len(ln)), spoiled, sent)
<1> DEFINE b == ln[1]
           i == Len(ln)
           t == SubSeq(ln, 2, i)
           next == RxdOctet(s, b)
           out == s.out
           c == Len(out)
<1>1. sent \in Nat /\ sent <= sent /\ sent <= Len(Messages) /\ spoiled \subseteq spoiled /\ Len(Messages) \in Nat
  BY MessagesAssumption, LenProperties DEF TInv, TypeOK, Owners
<1>2. i \in Nat /\ i >= 1 /\ 1 \in 1 .. i /\ b \in OnLine
  <2>1. i \in Nat /\ 1 \in 1 .. i
    BY LenProperties
  <2> QED BY <2>1, ElementOfSeq
<1>3. /\ t \in Seq(OnLine) /\ Len(t) = i - 1
      /\ \A j \in 1 .. i - 1 : 1 + j \in 1 .. i /\ t[j] = ln[1 + j]
  <2>1. 1 \in 0 .. i /\ 1 + 1 = 2
    BY <1>2
  <2>2. t \in Seq(OnLine) /\ Len(t) = i - 1 /\ \A j \in 1 .. i - 1 : t[j] = ln[1 + j]
    BY <2>1, RestOf
  <2> HIDE DEF t, i
  <2> QED BY <1>2, <2>2
<1>4. out \in Seq(Emitted) /\ c \in Nat
  BY RxdIs, LenProperties
<1> HIDE DEF t, i
<1>5. Done(out, t, spoiled, sent)
  <2>1. \A j \in 1 .. Len(t) : \E k \in 1 .. Len(ln) : t[j].owner = ln[k].owner
    BY <1>3 DEF i
  <2> HIDE DEF out
  <2> QED BY <1>1, <2>1, StillDone DEF out
<1>6. CASE b.octet /= Flag \/ ~ ppp_deframe(s.frame).ok
  <2>1. next.out = out
    BY <1>6 DEF RxdOctet, handleFrame, Rxd
  <2> QED BY <1>5, <2>1 DEF t, i
<1>7. CASE b.octet = Flag /\ ppp_deframe(s.frame).ok
  <2> DEFINE x == Made(s)
  <2>1. next.out = Append(out, x)
    <3>1. next.out = handleFrame(s)
      BY <1>7 DEF RxdOctet
    <3> QED BY <1>7, <3>1, handleFrameIs
  <2>2. x \in Emitted /\ x.owners = s.owners
    <3>1. x.owners = s.owners
      BY DEF Made
    <3> QED BY <3>1, handleFrameIs
  <2> DEFINE u == next.out
  <2>3. /\ Len(u) = c + 1 /\ u[c + 1] = x /\ \A j \in 1 .. c : u[j] = out[j]
        /\ \A j \in 1 .. Len(u) : j \in 1 .. c \/ j = c + 1
    <3>1. Len(u) = c + 1 /\ u[c + 1] = x /\ \A j \in 1 .. c : u[j] = out[j]
      BY <1>4, <2>1, <2>2, AppendProperties
    <3> HIDE DEF c, u, x
    <3> QED BY <1>4, <3>1
  <2>4. ASSUME IntactIn(x, spoiled)
        PROVE  \E m \in 1 .. sent :
                 /\ x = Genuine(m) /\ x.owners = {m} /\ b.owner = m /\ m /= Text
                 /\ \A j \in 1 .. Len(t) : t[j].owner /= Text => m < t[j].owner
    <3>1. s.owners /= {}
      BY <1>7, NothingIsNoFrame DEF Sees
    <3>2. PICK m \in s.owners : m \in 1 .. sent \ spoiled
      <4>1. \A m \in s.owners : m \in 0 .. sent /\ m /= 0 /\ m \notin spoiled
        BY <2>2, <2>4 DEF Sees, IntactIn, Text
      <4> QED BY <1>1, <3>1, <4>1
    <3> DEFINE F == FrameOf(m)
               l == Len(F)
    <3>3. m \in 1 .. Len(Messages) /\ m \in Nat /\ m /= Text
      BY <1>1, <3>2 DEF Text
    <3>4. /\ F \in Seq(Octets) /\ l \in Nat /\ l >= 3
          /\ \A k \in 2 .. l - 1 : F[k] \in Plain
      BY <3>3, FrameOfIs, LenProperties
    <3>5. PICK p \in Int : p < 0 /\ Placed(ln, F, m, p) /\ Taken(s, m, -p)
      <4>1. OnItsWay(s, ln, la, m)
        BY <3>2 DEF Sees, Along, Came
      <4> QED BY <3>2, <4>1 DEF OnItsWay
    <3>6. /\ p + l >= 1
          /\ \A k \in 1 .. l : p + k >= 1 => ln[p + k].octet = F[k] /\ ln[p + k].owner = m
          /\ \A j \in 1 .. i : ln[j].owner = m => p < j /\ j <= p + l
      BY <3>5 DEF Placed, i
    <3> DEFINE d == 1 - p
    <3> HIDE DEF F, l
    <3>7. d \in 2 .. l /\ p + d = 1 /\ d - 1 = -p /\ d \in 1 .. l
      BY <3>4, <3>5, <3>6
    <3> HIDE DEF d
    <3>8. b.octet = F[d] /\ b.owner = m
      <4>1. ln[p + d].octet = F[d] /\ ln[p + d].owner = m
        BY <3>6, <3>7
      <4> QED BY <3>7, <4>1
    <3>9. d = l
      <4>1. ~ (d \in 2 .. l - 1)
        BY <1>7, <3>4, <3>8, PlainIs
      <4> QED BY <3>4, <3>7, <4>1
    <3>10. u = Append(out, Genuine(m))
      <4>1. d > 1 => Taken(s, m, d - 1)
        BY <3>5, <3>7
      <4> HIDE DEF b, u
      <4>2. RxdOctet(s, b).out = Append(s.out, Genuine(m))
        BY <1>2, <3>3, <3>4, <3>7, <3>8, <3>9, <4>1, NextTaken DEF F, l
      <4> QED BY <4>2 DEF u
    <3>11. x = Genuine(m)
      <4>1. Genuine(m) \in Emitted
        BY <3>3, MessagesAssumption, ElementOfSeq DEF Emitted, Genuine, Owners
      <4>2. u[c + 1] = Genuine(m)
        BY <1>4, <3>10, <4>1, AppendProperties
      <4> QED BY <2>3, <4>2
    <3>12. x.owners = {m}
      BY <3>11 DEF Genuine
    <3>13. ASSUME NEW j \in 1 .. Len(t), t[j].owner /= Text PROVE m < t[j].owner
      <4>1. 1 + j \in 1 .. i /\ t[j] = ln[1 + j] /\ 1 <= 1 + j /\ ~ (1 + j <= p + l)
        BY <1>3, <3>7, <3>9
      <4>2. ln[1].owner <= ln[1 + j].owner
        BY <1>2, <3>3, <3>8, <3>13, <4>1 DEF Ordered, i
      <4>3. ln[1 + j].owner /= m
        BY <3>6, <4>1
      <4>4. t[j].owner \in Nat
        <5>1. t[j] \in OnLine
          BY <1>3, ElementOfSeq
        <5>2. \A e \in OnLine : e.owner \in Nat
          BY <1>1 DEF OnLine, Owners
        <5> HIDE DEF b, next, out, c, x, u
        <5> QED BY <5>1, <5>2
      <4> QED BY <3>3, <3>8, <4>1, <4>2, <4>3, <4>4
    <3> HIDE DEF x, b
    <3> QED BY <3>2, <3>3, <3>8, <3>11, <3>12, <3>13
  <2> HIDE DEF x, u, c, b
  <2>5. ASSUME NEW j \in 1 .. Len(u), IntactIn(u[j], spoiled)
        PROVE  \E m \in 1 .. sent : /\ u[j] = Genuine(m)
                                    /\ \A k \in 1 .. Len(t) : t[k].owner /= Text => m < t[k].owner
    <3>1. CASE j \in 1 .. c
      BY <1>5, <2>3, <2>5, <3>1 DEF Done, c
    <3>2. CASE j = c + 1
      BY <2>3, <2>4, <2>5, <3>2
    <3> QED BY <2>3, <3>1, <3>2
  <2>6. ASSUME NEW j \in 1 .. Len(u), NEW k \in 1 .. Len(u), j < k,
               IntactIn(u[j], spoiled), IntactIn(u[k], spoiled)
        PROVE  \A y \in u[j].owners, z \in u[k].owners : y < z
    <3>1. CASE j \in 1 .. c /\ k \in 1 .. c
      BY <1>5, <2>3, <2>6, <3>1 DEF Done, c
    <3>2. CASE j \in 1 .. c /\ k = c + 1
      <4>1. PICK m \in 1 .. sent : x.owners = {m} /\ b.owner = m /\ m /= Text
        BY <2>3, <2>4, <2>6, <3>2
      <4>2. u[j] = out[j] /\ u[k] = x
        BY <2>3, <3>2
      <4>3. PICK q \in 1 .. sent : /\ out[j] = Genuine(q)
                                   /\ \A h \in 1 .. Len(ln) : ln[h].owner /= Text => q < ln[h].owner
        BY <2>6, <3>2, <4>2 DEF Done, c
      <4>4. q < m
        BY <1>2, <4>1, <4>3 DEF b, i
      <4>5. u[j].owners = {q} /\ u[k].owners = {m}
        BY <4>1, <4>2, <4>3 DEF Genuine
      <4> QED BY <4>4, <4>5
    <3>3. ~ (j = c + 1 /\ k \in 1 .. c) /\ ~ (j = c + 1 /\ k = c + 1)
      BY <1>4, <2>6
    <3> QED BY <2>3, <3>1, <3>2, <3>3
  <2>7. Done(u, t, spoiled, sent)
    BY <2>5, <2>6 DEF Done
  <2> QED BY <2>7 DEF u, t, i, b
<1> HIDE DEF b
<1> QED BY <1>6, <1>7

\* And so it is after every octet of a chunk.
LEMMA ChunkDone ==
  ASSUME FInv, NEW n \in 1 .. Len(line)
  PROVE  /\ Ordered(SubSeq(line, n + 1, Len(line)))
         /\ Done(RxdOctets(Now, SubSeq(line, 1, n))[n].out, SubSeq(line, n + 1, Len(line)), spoiled, sent)
<1> DEFINE chunk == SubSeq(line, 1, n)
           r == RxdOctets(Now, chunk)
           rest(k) == SubSeq(line, k + 1, Len(line))
           la(k) == IF k = 0 THEN last ELSE line[k].owner
           S == {k \in 0 .. n : Done(r[k].out, rest(k), spoiled, sent)}
<1>0. SyncInv /\ TInv
  BY DEF FInv, SyncInv
<1>1. line \in Seq(OnLine) /\ Len(line) \in Nat /\ n \in Nat
  <2>1. line \in Seq(OnLine)
    BY <1>0, TypesAre DEF TInv
  <2> QED BY <2>1, LenProperties
<1>2. /\ chunk \in Seq(OnLine) /\ Len(chunk) = n /\ \A k \in 1 .. n : chunk[k] = line[k]
      /\ Now \in Rxd
  BY <1>0, HandlesChunk DEF TInv
<1>3. /\ r \in [0 .. n -> Rxd] /\ r[0] = Now
      /\ \A k \in 1 .. n : r[k] = RxdOctet(r[k - 1], line[k])
  <2>1. /\ r \in [0 .. n -> Rxd] /\ r[0] = Now
        /\ \A k \in 1 .. n : r[k] = RxdOctet(r[k - 1], chunk[k])
    BY <1>2, RxdOctetsAre
  <2> QED BY <1>2, <2>1
<1>4. \A k \in 0 .. n : Sees(r[k], rest(k), la(k))
  BY <1>0, ChunkAlong
<1> HIDE DEF chunk, r
<1>5. ASSUME NEW k \in 0 .. n PROVE Ordered(rest(k))
  <2>1. k \in Int /\ k \in 0 .. Len(line)
    BY <1>1
  <2>2. Len(rest(k)) = Len(line) - k /\ \A j \in 1 .. Len(line) - k : rest(k)[j] = line[k + j]
    BY <1>1, <2>1, RestOf
  <2> HIDE DEF rest
  <2>3. \A j \in 1 .. Len(rest(k)) : k + j \in 1 .. Len(line) /\ rest(k)[j].owner = line[k + j].owner
    BY <1>1, <2>1, <2>2
  <2> QED BY <2>1, <2>3, OrderedPart DEF FInv
<1>6. 0 \in S
  <2>1. rest(0) = line
    BY <1>1, WholeIs
  <2>2. r[0].out = emitted
    BY <1>3 DEF Now
  <2> HIDE DEF rest
  <2> QED BY <1>1, <2>1, <2>2 DEF FInv
<1>7. ASSUME NEW k \in 1 .. n, k - 1 \in S PROVE k \in S
  <2> DEFINE s == r[k - 1]
             ln == rest(k - 1)
  <2>1. k - 1 \in 0 .. n /\ k \in 0 .. n /\ k \in 1 .. Len(line)
    BY <1>1
  <2>2. ln \in Seq(OnLine) /\ Len(ln) >= 1 /\ ln[1] = line[k] /\ SubSeq(ln, 2, Len(ln)) = rest(k)
    BY <1>1, <2>1, NextOfRest
  <2>3. s \in Rxd /\ r[k] = RxdOctet(s, line[k]) /\ Sees(s, ln, la(k - 1)) /\ Ordered(ln)
    BY <1>3, <1>4, <1>5, <2>1
  <2>4. Done(s.out, ln, spoiled, sent)
    BY <1>7
  <2> HIDE DEF s, ln, rest, la
  <2>5. Done(RxdOctet(s, ln[1]).out, SubSeq(ln, 2, Len(ln)), spoiled, sent)
    BY <1>0, <2>2, <2>3, <2>4, OctetDone
  <2> QED BY <2>1, <2>2, <2>3, <2>5
<1>8. n \in S /\ n \in 0 .. n
  <2>1. 0 .. n \subseteq S
    <3> HIDE DEF S
    <3> QED BY <1>1, <1>6, <1>7, Induct
  <2> HIDE DEF S
  <2> QED BY <1>1, <2>1
<1> QED BY <1>5, <1>8 DEF r, chunk

LEMMA FInit == Init => FInv
<1> SUFFICES ASSUME Init PROVE FInv
  OBVIOUS
<1>1. line = <<>> /\ emitted = <<>> /\ Len(<<>>) = 0
  BY EmptySeq DEF Init
<1>2. \A j \in 1 .. Len(line) : FALSE
  BY <1>1
<1>3. \A j \in 1 .. Len(emitted) : FALSE
  BY <1>1
<1> QED BY <1>2, <1>3, SyncInit DEF FInv, Ordered, Done

LEMMA FNext ==
  ASSUME FInv, [Next]_vars
  PROVE  FInv'
<1>1. SyncInv /\ SyncInv' /\ TInv /\ Ordered(line) /\ Done(emitted, line, spoiled, sent)
  BY SyncNext DEF FInv, SyncInv
<1>2. /\ line \in Seq(OnLine) /\ Len(line) \in Nat /\ sent \in Owners
      /\ \A j \in 1 .. Len(line) : line[j] \in OnLine
  BY <1>1, TypesAre, LenProperties, ElementOfSeq DEF TInv
<1>3. \A j \in 1 .. Len(line) : line[j].owner <= sent
  BY <1>1 DEF TInv, Bounded
<1>4. Len(Messages) \in Nat /\ Owners = 0 .. Len(Messages) /\ sent \in Nat /\ sent <= sent
  <2>1. Len(Messages) \in Nat /\ Owners = 0 .. Len(Messages)
    BY MessagesAssumption, LenProperties DEF Owners
  <2> QED BY <1>2, <2>1
<1>w. SUFFICES Ordered(line') /\ Done(emitted', line', spoiled', sent')
  <2>1. ASSUME Ordered(line') PROVE Ordered(line)'
    BY <2>1 DEF Ordered
  <2>2. ASSUME Done(emitted', line', spoiled', sent') PROVE Done(emitted, line, spoiled, sent)'
    BY <2>2 DEF Done, IntactIn, Genuine
  <2> QED BY <1>1, <2>1, <2>2 DEF FInv
<1>5. CASE SendFrame
  <2> DEFINE o == sent + 1
             F == FrameOf(o)
             t == Owned(F, o)
  <2>1. sent' = o /\ spoiled' = spoiled /\ emitted' = emitted /\ line' = line \o t /\ o \in 1 .. Len(Messages)
    BY <1>2, <1>4, <1>5 DEF SendFrame, FrameOf
  <2>2. o \in Owners /\ o \in Nat /\ o > sent /\ sent <= o /\ spoiled \subseteq spoiled
    BY <1>4, <2>1
  <2>3. t \in Seq(OnLine) /\ \A j \in 1 .. Len(t) : t[j].owner = o
    <3>1. F \in Seq(Octets)
      BY <2>1, FrameOfIs
    <3> QED BY <2>2, <3>1, OwnedIs
  <2>4. \A j \in 1 .. Len(line) : line[j].owner <= o
    BY <1>2, <1>3, <1>4, <2>2 DEF OnLine
  <2> HIDE DEF o, t
  <2>5. /\ Ordered(line')
        /\ \A j \in 1 .. Len(line') : \/ line'[j].owner = o
                                      \/ \E i \in 1 .. Len(line) : line'[j].owner = line[i].owner
    BY <1>1, <1>2, <2>1, <2>2, <2>3, <2>4, OrderedBehind
  <2>6. Done(emitted, line', spoiled, o)
    BY <1>1, <1>4, <2>2, <2>5, StillDone
  <2> QED BY <2>1, <2>5, <2>6
<1>6. CASE \E text \in Texts : PrintText(text)
  <2>1. PICK text \in Texts : PrintText(text)
    BY <1>6
  <2> DEFINE t == Owned(text, Text)
  <2>2. sent' = sent /\ spoiled' = spoiled /\ emitted' = emitted /\ line' = line \o t
    BY <2>1 DEF PrintText
  <2>3. Text \in Nat /\ spoiled \subseteq spoiled
    BY DEF Text
  <2>4. t \in Seq(OnLine) /\ \A j \in 1 .. Len(t) : t[j].owner = Text
    <3>1. text \in Seq(Octets) /\ Text \in Owners
      BY <1>4, LineAssumption DEF Text
    <3> QED BY <3>1, OwnedIs
  <2> HIDE DEF t
  <2>5. /\ Ordered(line')
        /\ \A j \in 1 .. Len(line') : \/ line'[j].owner = Text
                                      \/ \E i \in 1 .. Len(line) : line'[j].owner = line[i].owner
    BY <1>1, <1>2, <2>2, <2>3, <2>4, OrderedBehind
  <2>6. Done(emitted, line', spoiled, sent)
    BY <1>1, <1>4, <2>3, <2>5, StillDone
  <2> QED BY <2>2, <2>5, <2>6
<1>7. ASSUME NEW d \in Int, sent' = sent, emitted' = emitted, spoiled \subseteq spoiled',
             \A j \in 1 .. Len(line') : d + j \in 1 .. Len(line) /\ line'[j].owner = line[d + j].owner
      PROVE  Ordered(line') /\ Done(emitted', line', spoiled', sent')
  <2>1. Ordered(line')
    BY <1>1, <1>7, OrderedPart
  <2>2. \A j \in 1 .. Len(line') : \E i \in 1 .. Len(line) : line'[j].owner = line[i].owner
    BY <1>7
  <2>3. Done(emitted, line', spoiled', sent)
    BY <1>1, <1>4, <1>7, <2>2, StillDone
  <2> QED BY <1>7, <2>1, <2>3
<1>8. CASE \E n \in 1 .. Len(line) : FlushOutput(n)
  <2>1. PICK n \in 1 .. Len(line) : FlushOutput(n)
    BY <1>8
  <2>2. sent' = sent /\ emitted' = emitted /\ spoiled \subseteq spoiled' /\ line' = SubSeq(line, 1, n - 1)
    BY <2>1 DEF FlushOutput
  <2>3. n - 1 \in 0 .. Len(line)
    BY <1>2
  <2>4. Len(line') = n - 1 /\ \A j \in 1 .. n - 1 : line'[j] = line[j]
    BY <1>2, <2>2, <2>3, FirstOf
  <2>5. 0 \in Int /\ \A j \in 1 .. n - 1 : 0 + j = j /\ j \in 1 .. Len(line)
    BY <1>2, <2>3
  <2>6. \A j \in 1 .. Len(line') : 0 + j \in 1 .. Len(line) /\ line'[j].owner = line[0 + j].owner
    BY <2>4, <2>5
  <2> QED BY <1>7, <2>2, <2>5, <2>6
<1>9. CASE \E n \in 1 .. Len(line) : DropChunk(n)
  <2>1. PICK n \in 1 .. Len(line) : DropChunk(n)
    BY <1>9
  <2>2. sent' = sent /\ emitted' = emitted /\ spoiled \subseteq spoiled' /\ line' = SubSeq(line, n + 1, Len(line))
    BY <2>1 DEF DropChunk
  <2>3. n \in 0 .. Len(line) /\ n \in Int
    BY <1>2
  <2>4. Len(line') = Len(line) - n /\ \A j \in 1 .. Len(line) - n : line'[j] = line[n + j]
    BY <1>2, <2>2, <2>3, RestOf
  <2>5. \A j \in 1 .. Len(line') : n + j \in 1 .. Len(line) /\ line'[j].owner = line[n + j].owner
    BY <1>2, <2>3, <2>4
  <2> QED BY <1>7, <2>2, <2>3, <2>5
<1>10. CASE \E n \in 1 .. Len(line), octet \in {Flag, Esc} : DamageOctet(n, octet)
  <2>1. PICK n \in 1 .. Len(line), octet \in {Flag, Esc} : DamageOctet(n, octet)
    BY <1>10
  <2>2. sent' = sent /\ emitted' = emitted /\ spoiled \subseteq spoiled' /\ line' = DamagedAt(line, n, octet)
    BY <2>1 DEF DamageOctet, DamagedAt
  <2>3. Len(line') = Len(line) /\ \A j \in 1 .. Len(line) : line'[j].owner = line[j].owner
    <3>1. octet \in Octets
      BY PlainIs
    <3>2. line \in Seq(OnLine) /\ line' = DamagedAt(line, n, octet)
      BY <1>2, <2>2
    <3>3. line' \in Seq(OnLine) /\ Len(line') = Len(line) /\ \A j \in 1 .. Len(line) : line'[j].owner = line[j].owner
      BY <3>1, <3>2, Damaged
    <3> QED BY <3>3
  <2>4. 0 \in Int /\ \A j \in 1 .. Len(line) : 0 + j = j
    BY <1>2
  <2>5. \A j \in 1 .. Len(line') : 0 + j \in 1 .. Len(line) /\ line'[j].owner = line[0 + j].owner
    BY <2>3, <2>4
  <2> QED BY <1>7, <2>2, <2>4, <2>5
<1>11. CASE \E n \in 1 .. Len(line) : HandleRxd(n)
  <2>1. PICK n \in 1 .. Len(line) : HandleRxd(n)
    BY <1>11
  <2>2. /\ line' = SubSeq(line, n + 1, Len(line)) /\ sent' = sent /\ spoiled' = spoiled
        /\ emitted' = RxdOctets(Now, SubSeq(line, 1, n))[n].out
    BY <2>1 DEF HandleRxd, Now
  <2> QED BY <2>2, ChunkDone
<1>12. CASE Tick
  <2>1. sent' = sent /\ emitted' = emitted /\ spoiled \subseteq spoiled' /\ line' = line
    BY <1>12 DEF Tick
  <2>2. Done(emitted, line, spoiled', sent)
    BY <1>1, <1>4, <2>1, StillDone
  <2> QED BY <1>1, <2>1, <2>2
<1>13. CASE UNCHANGED vars
  BY <1>1, <1>13 DEF vars
<1> QED BY <1>5, <1>6, <1>8, <1>9, <1>10, <1>11, <1>12, <1>13 DEF Next

\* What is made of octets to which nothing happened is a message that was sent, whole, and
\* such messages come in the order of sending and each once, whatever text, loss or damage
\* lies between them and however the line was cut up (Frame.cpp:26-38, 40-64).
THEOREM ReceiverIsFaithful == Spec => []RInv
<1>1. FInv => RInv
  <2> SUFFICES ASSUME FInv PROVE RInv
    OBVIOUS
  <2>1. TypeOK /\ Done(emitted, line, spoiled, sent)
    BY DEF FInv, SyncInv, TInv
  <2>2. DOMAIN emitted = 1 .. Len(emitted)
    <3>1. emitted \in Seq(Emitted)
      BY <2>1, TypesAre
    <3> QED BY <3>1, LenProperties
  <2>3. \A e : Intact(e) <=> IntactIn(e, spoiled)
    BY DEF Intact, IntactIn
  <2>4. \A i \in DOMAIN emitted : Intact(emitted[i]) => \E m \in 1 .. sent : emitted[i] = Genuine(m)
    BY <2>1, <2>2, <2>3 DEF Done
  <2>5. \A i, j \in DOMAIN emitted : i < j /\ Intact(emitted[i]) /\ Intact(emitted[j])
          => \A m \in emitted[i].owners, n \in emitted[j].owners : m < n
    BY <2>1, <2>2, <2>3 DEF Done
  <2> QED BY <2>1, <2>4, <2>5 DEF RInv, Faithful
<1>2. FInv /\ [Next]_vars => FInv'
  BY FNext
<1> QED BY <1>1, <1>2, FInit, PTL DEF Spec

-------------------------------------------------------------------------------
(* CBOR messages *)

Items == [type : {"int", "text", "bytes"}, kind : Kinds \cup {"none"}, len : Nat]

LEMMA ItemSizeIs ==
  ASSUME NEW item \in Items
  PROVE  /\ HeadSize(item) \in Nat /\ HeadSize(item) >= 1
         /\ ItemSize(item) \in Nat /\ ItemSize(item) = HeadSize(item) + item.len
         /\ item.len \in Nat
BY DEF HeadSize, ItemSize, Items

LEMMA StartsAre ==
  ASSUME NEW items \in Seq(Items)
  PROVE  /\ Start(items, 1) = 1
         /\ \A i \in 1 .. Len(items) : /\ Start(items, i) \in Nat
                                       /\ Start(items, i + 1) = Start(items, i) + ItemSize(items[i])
<1> DEFINE n == Len(items)
           size == [k \in 1 .. n |-> ItemSize(items[k])]
           step == [k \in 1 .. n |-> [x \in Nat |-> x + size[k]]]
           end == CHOOSE e : e = [k \in 0 .. n |-> IF k = 0 THEN 1 ELSE e[k - 1] + ItemSize(items[k])]
<1>1. n \in Nat /\ \A k \in 1 .. n : items[k] \in Items
  BY LenProperties, ElementOfSeq
<1>2. size \in [1 .. n -> Nat] /\ \A k \in 1 .. n : size[k] = ItemSize(items[k])
  BY <1>1, ItemSizeIs
<1>3. \A i : Start(items, i) = end[i - 1]
  BY DEF Start
<1> HIDE DEF n, size
<1>4. step \in [1 .. n -> [Nat -> Nat]] /\ \A k \in 1 .. n : \A x \in Nat : step[k][x] = x + size[k]
  BY <1>2
<1> HIDE DEF step
<1>5. PICK f : LoopOf(f, n, Nat, 1, step)
  BY <1>1, <1>4, LoopExists
<1>6. f \in [0 .. n -> Nat] /\ f[0] = 1 /\ \A k \in 1 .. n : f[k] = f[k - 1] + size[k]
  <2>1. \A k \in 1 .. n : f[k - 1] \in Nat
    BY <1>1, <1>5 DEF LoopOf
  <2> QED BY <1>1, <1>4, <1>5, <2>1 DEF LoopOf
<1>7. f = [k \in 0 .. n |-> IF k = 0 THEN 1 ELSE f[k - 1] + ItemSize(items[k])]
  BY <1>1, <1>2, <1>6
<1>8. end = [k \in 0 .. n |-> IF k = 0 THEN 1 ELSE end[k - 1] + ItemSize(items[k])]
  BY <1>7
<1> HIDE DEF end
<1>9. end[0] = 1 /\ \A k \in 1 .. n : end[k] = end[k - 1] + size[k]
  BY <1>1, <1>2, <1>8
<1>10. \A k \in 0 .. n : end[k] = f[k]
  <2>1. InStep(end, f, n)
    BY <1>6, <1>9 DEF InStep
  <2>2. n \in Nat /\ end[0] = f[0]
    BY <1>1, <1>6, <1>9
  <2> QED BY <2>1, <2>2, LoopsAgree
<1>11. ASSUME NEW i \in 1 .. n
       PROVE  Start(items, i) \in Nat /\ Start(items, i + 1) = Start(items, i) + ItemSize(items[i])
  <2>1. i - 1 \in 0 .. n /\ (i + 1) - 1 = i
    BY <1>1
  <2>2. Start(items, i) = end[i - 1] /\ Start(items, i + 1) = end[i]
    BY <1>3, <2>1
  <2> QED BY <1>2, <1>6, <1>9, <1>10, <2>1, <2>2
<1>12. Start(items, 1) = 1
  <2>1. 1 - 1 = 0
    OBVIOUS
  <2> QED BY <1>3, <1>9, <2>1
<1> QED BY <1>11, <1>12 DEF n

Writing == [items : Seq(Items), used : Nat, err : BOOLEAN, size : Nat, defined : BOOLEAN]

\* What CborSerializer has written after each of the items.
Written(side, items) ==
  CHOOSE e : e = [k \in 0 .. Len(items) |-> IF k = 0 THEN BeginWrite
                                            ELSE Add(e[k - 1], Capacity(side), items[k])]

LEMMA CapacityIs == \A side : Capacity(side) \in Nat /\ Capacity(side) >= 1
  BY SizeAssumption DEF Capacity

LEMMA AddIs ==
  ASSUME NEW w \in Writing, NEW cap \in Nat, NEW item \in Items
  PROVE  /\ Add(w, cap, item) \in Writing
         /\ Add(w, cap, item).size = w.size /\ Add(w, cap, item).defined = w.defined
         /\ IF w.err \/ w.used + ItemSize(item) > cap
            THEN Add(w, cap, item).err
            ELSE /\ Add(w, cap, item).err = w.err
                 /\ Add(w, cap, item).items = Append(w.items, item)
                 /\ Add(w, cap, item).used = w.used + ItemSize(item)
<1> DEFINE s == ItemSize(item)
           t == Append(w.items, item)
<1>1. w.items \in Seq(Items) /\ w.used \in Nat /\ w.err \in BOOLEAN
  BY DEF Writing
<1>2. s \in Nat
  BY ItemSizeIs
<1>3. t \in Seq(Items)
  BY <1>1, AppendProperties
<1> HIDE DEF s, t
<1>4. CASE w.err \/ w.used + s > cap
  <2>1. Add(w, cap, item) = [w EXCEPT !.err = TRUE]
    BY <1>4 DEF Add, s
  <2> QED BY <1>4, <2>1 DEF Writing, s
<1>5. CASE ~ (w.err \/ w.used + s > cap)
  <2> DEFINE u == w.used + s
  <2>1. Add(w, cap, item) = [w EXCEPT !.items = t, !.used = u]
    BY <1>5 DEF Add, s, t
  <2>2. u \in Nat
    BY <1>1, <1>2
  <2> HIDE DEF u
  <2>3. Add(w, cap, item) \in Writing
    BY <1>3, <2>1, <2>2 DEF Writing
  <2>4. /\ Add(w, cap, item).size = w.size /\ Add(w, cap, item).defined = w.defined
        /\ Add(w, cap, item).err = w.err /\ Add(w, cap, item).items = t /\ Add(w, cap, item).used = u
    BY <2>1 DEF Writing
  <2> QED BY <1>5, <2>3, <2>4 DEF s, t, u
<1> QED BY <1>4, <1>5

LEMMA WrittenIs ==
  ASSUME NEW side, NEW items \in Seq(Items)
  PROVE  /\ Write(side, items) = EndWrite(Written(side, items)[Len(items)], Capacity(side))
         /\ Written(side, items) \in [0 .. Len(items) -> Writing]
         /\ Written(side, items)[0] = BeginWrite
         /\ \A k \in 1 .. Len(items) :
              Written(side, items)[k] = Add(Written(side, items)[k - 1], Capacity(side), items[k])
<1> DEFINE n == Len(items)
           cap == Capacity(side)
           e == Written(side, items)
           Values == Writing
           step == [k \in 1 .. n |-> [w \in Values |-> Add(w, cap, items[k])]]
<1>1. n \in Nat /\ cap \in Nat /\ \A k \in 1 .. n : items[k] \in Items
  BY LenProperties, ElementOfSeq, CapacityIs
<1>2. BeginWrite \in Values
  <2>1. <<>> \in Seq(Items)
    BY EmptySeq
  <2> QED BY <2>1 DEF BeginWrite, Writing
<1>3. \A k \in 1 .. n : \A w \in Values : Add(w, cap, items[k]) \in Values
  BY <1>1, AddIs
<1>4. Write(side, items) = EndWrite(e[n], cap)
  BY DEF Write, Written
<1> HIDE DEF n, cap, Values
<1>5. step \in [1 .. n -> [Values -> Values]] /\ \A k \in 1 .. n : \A w \in Values : step[k][w] = Add(w, cap, items[k])
  BY <1>3
<1> HIDE DEF step
<1>6. PICK f : LoopOf(f, n, Values, BeginWrite, step)
  BY <1>1, <1>2, <1>5, LoopExists
<1>7. f \in [0 .. n -> Values] /\ f[0] = BeginWrite /\ \A k \in 1 .. n : f[k] = Add(f[k - 1], cap, items[k])
  <2>1. \A k \in 1 .. n : f[k - 1] \in Values
    BY <1>1, <1>6 DEF LoopOf
  <2> QED BY <1>1, <1>5, <1>6, <2>1 DEF LoopOf
<1>8. f = [k \in 0 .. n |-> IF k = 0 THEN BeginWrite ELSE Add(f[k - 1], cap, items[k])]
  BY <1>1, <1>7
<1>9. e = [k \in 0 .. n |-> IF k = 0 THEN BeginWrite ELSE Add(e[k - 1], cap, items[k])]
  BY <1>8 DEF Written, n, cap
<1> HIDE DEF e
<1>10. e[0] = BeginWrite /\ \A k \in 1 .. n : e[k] = Add(e[k - 1], cap, items[k])
  BY <1>1, <1>9
<1>11. \A k \in 0 .. n : e[k] = f[k]
  <2>1. InStep(e, f, n)
    BY <1>7, <1>10 DEF InStep
  <2>2. n \in Nat /\ e[0] = f[0]
    BY <1>1, <1>7, <1>10
  <2> QED BY <2>1, <2>2, LoopsAgree
<1>12. e \in [0 .. n -> Values]
  BY <1>7, <1>9, <1>11
<1> QED BY <1>4, <1>10, <1>12 DEF n, cap, Values, e

\* A message is written if and only if it fits; only when the octet that closes it is the
\* one that does not is its size computed from no pointer.
LEMMA WriteIs ==
  ASSUME NEW side, NEW items \in Seq(Items)
  PROVE  LET w == Write(side, items)
         IN /\ w.err <=> FullSize(items) > Capacity(side)
            /\ w.defined <=> FullSize(items) /= Capacity(side) + 1
            /\ ~ w.err => w.size = FullSize(items) /\ w.items = items
            /\ w.size \in Nat /\ FullSize(items) \in Nat
<1> DEFINE n == Len(items)
           cap == Capacity(side)
           e == Written(side, items)
           at(k) == Start(items, k + 1)
           So(k) == /\ at(k) \in Nat
                    /\ e[k].size = 0 /\ e[k].defined
                    /\ IF at(k) > cap THEN e[k].err
                       ELSE ~ e[k].err /\ e[k].used = at(k) /\ e[k].items = SubSeq(items, 1, k)
           S == {k \in 0 .. n : So(k)}
<1>1. n \in Nat /\ cap \in Nat /\ cap >= 1 /\ \A k \in 1 .. n : items[k] \in Items
  BY LenProperties, ElementOfSeq, CapacityIs
<1>2. /\ Write(side, items) = EndWrite(e[n], cap) /\ e \in [0 .. n -> Writing] /\ e[0] = BeginWrite
      /\ \A k \in 1 .. n : e[k] = Add(e[k - 1], cap, items[k])
  BY WrittenIs
<1>3. So(0)
  <2>1. at(0) = 1
    <3>1. 0 + 1 = 1
      OBVIOUS
    <3> QED BY <3>1, StartsAre
  <2>2. SubSeq(items, 1, 0) = <<>>
    BY SubSeqEmpty
  <2>3. ~ (at(0) > cap)
    BY <1>1, <2>1
  <2>4. /\ e[0].size = 0 /\ e[0].defined /\ ~ e[0].err /\ e[0].used = 1 /\ e[0].items = <<>>
    BY <1>2 DEF BeginWrite
  <2> HIDE DEF e, at
  <2> QED BY <2>1, <2>2, <2>3, <2>4
<1>4. ASSUME NEW k \in 1 .. n, k - 1 \in S PROVE k \in S
  <2> DEFINE s == ItemSize(items[k])
             w == e[k - 1]
             a == at(k - 1)
             t == Append(SubSeq(items, 1, k - 1), items[k])
  <2>1. s \in Nat /\ items[k] \in Items
    BY <1>1, ItemSizeIs
  <2>2. at(k) = a + s /\ a \in Nat
    <3>1. Start(items, k) \in Nat /\ Start(items, k + 1) = Start(items, k) + s
      BY StartsAre
    <3>2. (k - 1) + 1 = k
      OBVIOUS
    <3> QED BY <3>1, <3>2
  <2>3. w \in Writing /\ e[k] = Add(w, cap, items[k])
    BY <1>1, <1>2
  <2>4. /\ w.size = 0 /\ w.defined
        /\ IF a > cap THEN w.err ELSE ~ w.err /\ w.used = a /\ w.items = SubSeq(items, 1, k - 1)
    <3>1. So(k - 1)
      <4> HIDE DEF So
      <4> QED BY <1>4
    <3> HIDE DEF at, e
    <3> QED BY <3>1
  <2>5. /\ e[k].size = w.size /\ e[k].defined = w.defined
        /\ IF w.err \/ w.used + s > cap THEN e[k].err
           ELSE e[k].err = w.err /\ e[k].items = Append(w.items, items[k]) /\ e[k].used = w.used + s
    <3> HIDE DEF w, cap, e, at, t
    <3>1. w \in Writing /\ cap \in Nat /\ items[k] \in Items
      BY <1>1, <2>1, <2>3
    <3> DEFINE c == Add(w, cap, items[k])
    <3>2. /\ c.size = w.size /\ c.defined = w.defined
          /\ IF w.err \/ w.used + s > cap THEN c.err
             ELSE c.err = w.err /\ c.items = Append(w.items, items[k]) /\ c.used = w.used + s
      BY <3>1, AddIs
    <3>3. e[k] = c
      BY <2>3
    <3> HIDE DEF c
    <3> QED BY <3>2, <3>3
  <2>6. t = SubSeq(items, 1, k)
    <3>1. k \in 1 .. Len(items) /\ 1 \in 1 .. Len(items) /\ SubSeq(items, 1, k - 1) \in Seq(Items)
      <4>1. k - 1 \in 0 .. Len(items)
        BY <1>1
      <4> QED BY <1>1, <4>1, FirstOf
    <3>2. SubSeq(items, 1, k) = SubSeq(items, 1, k - 1) \o <<items[k]>>
      BY <3>1, SubSeqRecursiveSecond
    <3> QED BY <2>1, <3>1, <3>2, AppendIsConcat
  <2> HIDE DEF e, at, s, w, a
  <2>7. CASE at(k) > cap
    <3>1. w.err \/ w.used + s > cap
      BY <1>1, <2>1, <2>2, <2>4, <2>7
    <3>2. at(k) \in Nat /\ e[k].size = 0 /\ e[k].defined /\ e[k].err
      BY <2>1, <2>2, <2>4, <2>5, <3>1
    <3>3. So(k)
      BY <2>7, <3>2
    <3>4. k \in 0 .. n
      BY <1>1
    <3> HIDE DEF So
    <3> QED BY <3>3, <3>4
  <2>8. CASE ~ (at(k) > cap)
    <3>1. ~ (a > cap)
      BY <1>1, <2>1, <2>2, <2>8
    <3>2. ~ w.err /\ w.used = a /\ w.items = SubSeq(items, 1, k - 1)
      BY <2>4, <3>1
    <3>3. ~ (w.err \/ w.used + s > cap)
      BY <2>2, <2>8, <3>2
    <3>4. ~ e[k].err /\ e[k].items = t /\ e[k].used = at(k)
      BY <2>2, <2>5, <3>2, <3>3
    <3> HIDE DEF t
    <3>5. at(k) \in Nat
      BY <2>1, <2>2
    <3>6. e[k].size = 0 /\ e[k].defined
      BY <2>4, <2>5
    <3>7. So(k)
      BY <2>6, <2>8, <3>4, <3>5, <3>6
    <3>8. k \in 0 .. n
      BY <1>1
    <3> HIDE DEF So
    <3> QED BY <3>7, <3>8
  <2> QED BY <2>7, <2>8
<1>5. So(n)
  <2> HIDE DEF So
  <2>1. 0 \in S
    BY <1>1, <1>3
  <2> HIDE DEF S, n
  <2>2. 0 .. n \subseteq S
    BY <1>1, <1>4, <2>1, Induct
  <2>3. n \in S
    BY <1>1, <2>2
  <2> QED BY <2>3 DEF S
<1>6. SubSeq(items, 1, n) = items
  BY SubSeqFull
<1>7. FullSize(items) = at(n) + 1
  BY DEF FullSize
<1> DEFINE w == e[n]
           v == EndWrite(w, cap)
<1>8. w \in Writing
  BY <1>1, <1>2
<1>9. /\ at(n) \in Nat /\ w.size = 0 /\ w.defined
      /\ IF at(n) > cap THEN w.err ELSE ~ w.err /\ w.used = at(n) /\ w.items = items
  BY <1>5, <1>6
<1> HIDE DEF e, at, n, cap, So, w
<1>10. CASE at(n) > cap
  <2>1. w.err
    BY <1>9, <1>10
  <2>2. v = w
    BY <2>1 DEF EndWrite
  <2>3. v.err /\ v.defined /\ v.size = 0
    BY <1>9, <2>1, <2>2
  <2>4. FullSize(items) > cap /\ FullSize(items) /= cap + 1 /\ FullSize(items) \in Nat
    BY <1>1, <1>7, <1>9, <1>10
  <2> HIDE DEF v
  <2> QED BY <1>2, <2>3, <2>4 DEF v, w, cap
<1>11. CASE at(n) < cap
  <2>1. ~ w.err /\ w.used = at(n) /\ w.items = items
    BY <1>1, <1>9, <1>11
  <2> DEFINE u == w.used + 1
  <2>2. v = [w EXCEPT !.size = u]
    BY <1>11, <2>1 DEF EndWrite
  <2>3. u = FullSize(items)
    BY <1>7, <2>1
  <2> HIDE DEF u
  <2>4. ~ v.err /\ v.defined /\ v.size = u /\ v.items = items
    BY <1>8, <1>9, <2>1, <2>2 DEF Writing
  <2>5. ~ (FullSize(items) > cap) /\ FullSize(items) /= cap + 1 /\ FullSize(items) \in Nat
    BY <1>1, <1>7, <1>9, <1>11
  <2> HIDE DEF v
  <2> QED BY <1>2, <2>3, <2>4, <2>5 DEF v, w, cap
<1>12. CASE at(n) = cap
  <2>1. ~ w.err /\ w.used = at(n)
    BY <1>1, <1>9, <1>12
  <2>2. v = [w EXCEPT !.err = TRUE, !.defined = FALSE]
    BY <1>1, <1>12, <2>1 DEF EndWrite
  <2>3. v.err /\ ~ v.defined /\ v.size = 0
    BY <1>8, <1>9, <2>2 DEF Writing
  <2>4. FullSize(items) > cap /\ FullSize(items) = cap + 1 /\ FullSize(items) \in Nat
    BY <1>1, <1>7, <1>9, <1>12
  <2> HIDE DEF v
  <2> QED BY <1>2, <2>3, <2>4 DEF v, w, cap
<1> QED BY <1>1, <1>9, <1>10, <1>11, <1>12

\* A message: its kind, a name, and with PUBLISH a value.
Shaped(items) ==
  /\ items \in Seq(Items)
  /\ items[1].type = "int" /\ items[1].len = 0 /\ items[1].kind \in Kinds
  /\ items[2].type = "text"
  /\ IF items[1].kind = "PUBLISH" THEN Len(items) = 3 /\ items[3].type = "bytes" ELSE Len(items) = 2

LEMMA PlacesAre ==
  ASSUME NEW items, Shaped(items)
  PROVE  /\ Start(items, 1) = 1 /\ Start(items, 2) = 2
         /\ Start(items, 3) = 2 + ItemSize(items[2])
         /\ Len(items) = 2 => FullSize(items) = 3 + ItemSize(items[2])
         /\ Len(items) = 3 => /\ Start(items, 4) = 2 + ItemSize(items[2]) + ItemSize(items[3])
                              /\ FullSize(items) = 3 + ItemSize(items[2]) + ItemSize(items[3])
                              /\ items[3] \in Items
         /\ HeadSize(items[1]) = 1 /\ items[2] \in Items
         /\ Len(items) \in {2, 3}
<1>1. items \in Seq(Items) /\ Len(items) \in {2, 3} /\ items[1].len = 0
  BY DEF Shaped
<1>2. 1 \in 1 .. Len(items) /\ 2 \in 1 .. Len(items) /\ 1 + 1 = 2 /\ 2 + 1 = 3 /\ 3 + 1 = 4
  <2> DEFINE n == Len(items)
  <2>1. n \in {2, 3}
    BY <1>1
  <2> HIDE DEF n
  <2>2. 1 \in 1 .. n /\ 2 \in 1 .. n
    BY <2>1
  <2> QED BY <2>2 DEF n
<1>3. items[1] \in Items /\ items[2] \in Items
  BY <1>1, <1>2, ElementOfSeq
<1>4. HeadSize(items[1]) = 1 /\ ItemSize(items[1]) = 1
  BY <1>1 DEF HeadSize, ItemSize
<1>5. ItemSize(items[2]) \in Nat
  BY <1>3, ItemSizeIs
<1>6. Start(items, 1) = 1 /\ Start(items, 2) = Start(items, 1) + ItemSize(items[1])
  BY <1>1, <1>2, StartsAre
<1>7. Start(items, 3) = Start(items, 2) + ItemSize(items[2])
  BY <1>1, <1>2, StartsAre
<1>8. Start(items, 2) = 2 /\ Start(items, 3) = 2 + ItemSize(items[2])
  BY <1>4, <1>5, <1>6, <1>7
<1>9. CASE Len(items) = 2
  <2>1. FullSize(items) = Start(items, 3) + 1
    BY <1>2, <1>9 DEF FullSize
  <2> QED BY <1>3, <1>4, <1>5, <1>6, <1>8, <1>9, <2>1
<1>10. CASE Len(items) = 3
  <2>1. 3 \in 1 .. Len(items)
    BY <1>10
  <2>2. items[3] \in Items
    BY <1>1, <2>1, ElementOfSeq
  <2>3. ItemSize(items[3]) \in Nat
    BY <2>2, ItemSizeIs
  <2>4. Start(items, 4) = Start(items, 3) + ItemSize(items[3])
    BY <1>1, <1>2, <2>1, StartsAre
  <2>5. FullSize(items) = Start(items, 4) + 1
    BY <1>2, <1>10 DEF FullSize
  <2> QED BY <1>3, <1>4, <1>5, <1>6, <1>8, <1>10, <2>2, <2>3, <2>4, <2>5
<1> QED BY <1>1, <1>9, <1>10

-------------------------------------------------------------------------------
(* What CborDeserializer reads *)

Reading == [items : Seq(Items), size : Nat, next : Nat, err : BOOLEAN, defined : BOOLEAN]

\* Two readers of the same octets.
SameData(r, s) == r \in Reading /\ s \in Reading /\ s.items = r.items /\ s.size = r.size

LEMMA RefusedIs ==
  ASSUME NEW r \in Reading
  PROVE  /\ SameData(r, [r EXCEPT !.err = TRUE])
         /\ [r EXCEPT !.err = TRUE].err
         /\ [r EXCEPT !.err = TRUE].defined = r.defined /\ [r EXCEPT !.err = TRUE].next = r.next
<1> DEFINE s == [r EXCEPT !.err = TRUE]
<1>1. s \in Reading
  BY DEF Reading
<1>2. s.items = r.items /\ s.size = r.size /\ s.defined = r.defined /\ s.next = r.next
  BY DEF Reading
<1>3. s.err
  BY DEF Reading
<1> HIDE DEF s
<1>4. SameData(r, s)
  BY <1>1, <1>2 DEF SameData
<1> QED BY <1>2, <1>3, <1>4 DEF s

LEMMA UndefinedIs ==
  ASSUME NEW r \in Reading
  PROVE  /\ SameData(r, [r EXCEPT !.err = TRUE, !.defined = FALSE])
         /\ [r EXCEPT !.err = TRUE, !.defined = FALSE].err
         /\ ~ [r EXCEPT !.err = TRUE, !.defined = FALSE].defined
<1> DEFINE s == [r EXCEPT !.err = TRUE, !.defined = FALSE]
<1>1. s \in Reading
  BY DEF Reading
<1>2. s.items = r.items /\ s.size = r.size
  BY DEF Reading
<1>3. s.err /\ ~ s.defined
  BY DEF Reading
<1> HIDE DEF s
<1>4. SameData(r, s)
  BY <1>1, <1>2 DEF SameData
<1> QED BY <1>3, <1>4 DEF s

LEMMA AdvanceIs ==
  ASSUME NEW r \in Reading
  PROVE  /\ SameData(r, Advance(r))
         /\ Advance(r).next = r.next + 1 /\ Advance(r).defined = r.defined
         /\ Advance(r).err <=> ~ Parsed(r, r.next + 1)
<1> DEFINE p == ~ Parsed(r, r.next + 1)
           n == r.next + 1
           s == [r EXCEPT !.next = n, !.err = p]
<1>1. p \in BOOLEAN
  BY DEF Parsed
<1>2. n \in Nat
  BY DEF Reading
<1>3. Advance(r) = s
  BY DEF Advance
<1> HIDE DEF p, n
<1>4. s \in Reading
  BY <1>1, <1>2 DEF Reading
<1>5. s.items = r.items /\ s.size = r.size /\ s.defined = r.defined /\ s.next = n
  BY DEF Reading
<1>6. s.err <=> p
  BY <1>1 DEF Reading
<1> HIDE DEF s
<1>7. SameData(r, s)
  BY <1>4, <1>5 DEF SameData
<1> QED BY <1>3, <1>5, <1>6, <1>7 DEF p, n

LEMMA BeginReadIs ==
  ASSUME NEW err \in BOOLEAN, NEW cap \in Nat, NEW w \in Writing
  PROVE  LET r == BeginRead(FromBytes(err, cap, w))
         IN /\ r \in Reading /\ r.items = w.items /\ r.next = 1 /\ r.defined
            /\ r.size = IF w.size < cap THEN w.size ELSE cap
            /\ r.err <=> ~ Parsed(r, 1)
<1> DEFINE size == IF w.size < cap THEN w.size ELSE cap
           items == w.items
           b == FromBytes(err, cap, w)
           p == ~ Parsed(b, 1)
           r == [b EXCEPT !.err = p]
<1>1. items \in Seq(Items) /\ size \in Nat
  BY DEF Writing
<1>2. b \in Reading
  BY <1>1 DEF FromBytes, Reading
<1>3. b.items = items /\ b.size = size /\ b.next = 1 /\ b.defined
  BY DEF FromBytes
<1>4. p \in BOOLEAN
  BY DEF Parsed
<1>5. BeginRead(b) = r
  BY DEF BeginRead
<1> HIDE DEF size, items, b, p
<1>6. r \in Reading
  BY <1>2, <1>4 DEF Reading
<1>7. r.items = b.items /\ r.size = b.size /\ r.next = b.next /\ r.defined = b.defined
  BY <1>2 DEF Reading
<1>8. r.err <=> p
  BY <1>2, <1>4 DEF Reading
<1> HIDE DEF r
<1>9. Parsed(r, 1) <=> Parsed(b, 1)
  BY <1>7 DEF Parsed
<1>10. /\ r \in Reading /\ r.items = items /\ r.next = 1 /\ r.defined /\ r.size = size
       /\ r.err <=> ~ Parsed(r, 1)
  BY <1>3, <1>6, <1>7, <1>8, <1>9 DEF p
<1> QED BY <1>5, <1>10 DEF items, size, b

LEMMA GetIntIs ==
  ASSUME NEW r \in Reading
  PROVE  /\ SameData(r, GetInt(r)) /\ GetInt(r).defined = r.defined
         /\ IF Here(r, "int")
            THEN GetInt(r).next = r.next + 1 /\ (GetInt(r).err <=> ~ Parsed(r, r.next + 1))
            ELSE GetInt(r).err
<1>1. CASE Here(r, "int")
  <2>1. GetInt(r) = Advance(r)
    BY <1>1 DEF GetInt
  <2> QED BY <1>1, <2>1, AdvanceIs
<1>2. CASE ~ Here(r, "int")
  <2>1. GetInt(r) = [r EXCEPT !.err = TRUE]
    BY <1>2 DEF GetInt
  <2> QED BY <1>2, <2>1, RefusedIs
<1> QED BY <1>1, <1>2

LEMMA GetTextIs ==
  ASSUME NEW r \in Reading
  PROVE  /\ SameData(r, GetText(r))
         /\ IF Here(r, "text") /\ ~ Whole(r) THEN ~ GetText(r).defined ELSE GetText(r).defined = r.defined
         /\ IF Here(r, "text") /\ Whole(r)
            THEN GetText(r).next = r.next + 1 /\ (GetText(r).err <=> ~ Parsed(r, r.next + 1))
            ELSE GetText(r).err
<1>1. CASE Here(r, "text") /\ Whole(r)
  <2>1. GetText(r) = Advance(r)
    BY <1>1 DEF GetText
  <2> QED BY <1>1, <2>1, AdvanceIs
<1>2. CASE ~ Here(r, "text")
  <2>1. GetText(r) = [r EXCEPT !.err = TRUE]
    BY <1>2 DEF GetText
  <2> QED BY <1>2, <2>1, RefusedIs
<1>3. CASE Here(r, "text") /\ ~ Whole(r)
  <2>1. GetText(r) = [r EXCEPT !.err = TRUE, !.defined = FALSE]
    BY <1>3 DEF GetText
  <2> QED BY <1>3, <2>1, UndefinedIs
<1> QED BY <1>1, <1>2, <1>3

LEMMA GetBytesIs ==
  ASSUME NEW r \in Reading
  PROVE  /\ SameData(r, GetBytes(r)) /\ GetBytes(r).defined = r.defined
         /\ IF Here(r, "bytes") /\ Whole(r)
            THEN GetBytes(r).err <=> ~ Parsed(r, r.next + 1)
            ELSE GetBytes(r).err
<1>1. CASE Here(r, "bytes") /\ Whole(r)
  <2>1. GetBytes(r) = Advance(r)
    BY <1>1 DEF GetBytes
  <2> QED BY <1>1, <2>1, AdvanceIs
<1>2. CASE ~ (Here(r, "bytes") /\ Whole(r))
  <2>1. GetBytes(r) = [r EXCEPT !.err = TRUE]
    BY <1>2 DEF GetBytes
  <2> QED BY <1>2, <2>1, RefusedIs
<1> QED BY <1>1, <1>2

\* The kind and the name are read if the buffer holds them and the head of what follows; the
\* value if it holds the whole message.
LEMMA OpenedIs ==
  ASSUME NEW side, NEW w \in Writing, readErr[side] \in BOOLEAN,
         Shaped(w.items), w.size = FullSize(w.items), FullSize(w.items) \in Nat
  PROVE  /\ Opened(side, w) \in Reading /\ GetBytes(Opened(side, w)) \in Reading
         /\ Opened(side, w).items = w.items
         /\ GetBytes(Opened(side, w)).items = w.items
         /\ Opened(side, w).defined <=>
              ~ (2 + HeadSize(w.items[2]) <= Capacity(side) /\ 2 + ItemSize(w.items[2]) > Capacity(side))
         /\ GetBytes(Opened(side, w)).defined = Opened(side, w).defined
         /\ w.items[1].kind /= "PUBLISH" =>
              (Opened(side, w).err <=> FullSize(w.items) > Capacity(side))
         /\ GetBytes(Opened(side, w)).err <=>
              w.items[1].kind /= "PUBLISH" \/ FullSize(w.items) > Capacity(side)
<1> DEFINE items == w.items
           cap == Capacity(side)
           full == FullSize(items)
           h == HeadSize(items[2])
           s == ItemSize(items[2])
           n == Len(items)
           a == BeginRead(FromBytes(readErr[side], cap, w))
           b == GetInt(a)
           c == GetText(b)
           d == GetBytes(c)
           z == IF full < cap THEN full ELSE cap
           tail == IF 3 <= n THEN HeadSize(items[3]) ELSE 1
<1>1. Opened(side, w) = c
  BY DEF Opened
<1>2. cap \in Nat /\ full \in Nat /\ items = w.items
  BY CapacityIs
<1>3. /\ Start(items, 1) = 1 /\ Start(items, 2) = 2 /\ Start(items, 3) = 2 + s
      /\ n = 2 => full = 3 + s
      /\ n = 3 => /\ Start(items, 4) = 2 + s + ItemSize(items[3])
                  /\ full = 3 + s + ItemSize(items[3])
                  /\ items[3] \in Items
      /\ HeadSize(items[1]) = 1 /\ items[2] \in Items
      /\ n \in {2, 3}
  BY PlacesAre
<1>4. h \in Nat /\ s \in Nat /\ h <= s /\ h >= 1
  BY <1>3, ItemSizeIs
<1>5. n = 3 => /\ HeadSize(items[3]) \in Nat /\ ItemSize(items[3]) \in Nat
               /\ HeadSize(items[3]) <= ItemSize(items[3]) /\ HeadSize(items[3]) >= 1
  BY <1>3, ItemSizeIs
<1>6. /\ items[1].type = "int" /\ items[2].type = "text"
      /\ (items[1].kind = "PUBLISH" <=> n = 3)
      /\ n = 3 => items[3].type = "bytes"
  <2> HIDE DEF n
  <2>1. /\ items[1].type = "int" /\ items[2].type = "text"
        /\ IF items[1].kind = "PUBLISH" THEN n = 3 /\ items[3].type = "bytes" ELSE n = 2
    BY DEF Shaped, n
  <2> QED BY <2>1
<1>0. Len(items) = n
  OBVIOUS
<1>7. /\ a \in Reading /\ a.items = items /\ a.next = 1 /\ a.defined /\ a.size = z
      /\ a.err <=> ~ Parsed(a, 1)
  BY <1>2, BeginReadIs
<1>8. SameData(a, b) /\ b.defined = a.defined
      /\ IF Here(a, "int") THEN b.next = a.next + 1 /\ (b.err <=> ~ Parsed(a, a.next + 1)) ELSE b.err
  BY <1>7, GetIntIs
<1>9. b \in Reading /\ b.items = items /\ b.size = z
  BY <1>7, <1>8 DEF SameData
<1>10. /\ SameData(b, c)
       /\ IF Here(b, "text") /\ ~ Whole(b) THEN ~ c.defined ELSE c.defined = b.defined
       /\ IF Here(b, "text") /\ Whole(b)
          THEN c.next = b.next + 1 /\ (c.err <=> ~ Parsed(b, b.next + 1))
          ELSE c.err
  BY <1>9, GetTextIs
<1>11. c \in Reading /\ c.items = items /\ c.size = z
  BY <1>9, <1>10 DEF SameData
<1>12. /\ SameData(c, d) /\ d.defined = c.defined
       /\ IF Here(c, "bytes") /\ Whole(c) THEN d.err <=> ~ Parsed(c, c.next + 1) ELSE d.err
  BY <1>11, GetBytesIs
<1>13. d.items = items /\ d \in Reading
  BY <1>11, <1>12 DEF SameData
<1> HIDE DEF items, cap, full, h, s, n, a, b, c, d
<1>14. z \in Nat /\ z <= full /\ z <= cap /\ (full <= z <=> full <= cap)
  BY <1>2
<1>15. 1 + 1 = 2 /\ 2 + 1 = 3 /\ 3 + 1 = 4
  OBVIOUS
<1> HIDE DEF z
<1>16. Here(a, "int") <=> 2 <= z
  <2>1. Parsed(a, 1) <=> 2 <= z
    BY <1>0, <1>3, <1>7, <1>15 DEF Parsed
  <2>2. 1 <= n
    BY <1>3
  <2> QED BY <1>0, <1>6, <1>7, <2>1, <2>2 DEF Here
<1>17. /\ b.err <=> ~ (2 + h <= z)
       /\ ~ b.err => b.next = 2
  <2>1. 2 <= n
    BY <1>3
  <2>2. Parsed(a, 2) <=> 2 + h <= z
    BY <1>0, <1>3, <1>7, <2>1 DEF Parsed, h
  <2>3. 2 + h <= z => 2 <= z
    BY <1>4, <1>14
  <2> QED BY <1>7, <1>8, <1>15, <1>16, <2>2, <2>3
<1>18. Here(b, "text") <=> 2 + h <= z
  <2>1. 2 <= n
    BY <1>3
  <2> QED BY <1>0, <1>6, <1>9, <1>17, <2>1 DEF Here
<1>19. ASSUME 2 + h <= z
       PROVE  (Whole(b) <=> 2 + s <= z) /\ (Parsed(b, 3) <=> 2 + s + tail <= z)
  <2>1. b.next = 2
    BY <1>17, <1>19
  <2>2. Whole(b) <=> 2 + s <= z
    BY <1>3, <1>9, <1>15, <2>1 DEF Whole
  <2>3. Parsed(b, 3) <=> 2 + s + tail <= z
    BY <1>0, <1>3, <1>9 DEF Parsed
  <2> QED BY <2>2, <2>3
<1>20. tail \in Nat /\ tail >= 1
  BY <1>3, <1>5
<1> HIDE DEF tail
<1>21. /\ c.err <=> ~ (2 + s + tail <= z)
       /\ ~ c.err => c.next = 3
  <2>1. 2 + s + tail <= z => 2 + h <= z /\ 2 + s <= z
    BY <1>4, <1>14, <1>20
  <2>2. CASE 2 + h <= z /\ 2 + s <= z
    <3>1. Here(b, "text") /\ Whole(b) /\ b.next = 2
      BY <1>17, <1>18, <1>19, <2>2
    <3> QED BY <1>10, <1>15, <1>19, <2>2, <3>1
  <2>3. CASE ~ (2 + h <= z /\ 2 + s <= z)
    <3>1. ~ (Here(b, "text") /\ Whole(b))
      BY <1>18, <1>19, <2>3
    <3> QED BY <1>10, <2>1, <2>3, <3>1
  <2> QED BY <2>2, <2>3
<1>22. c.defined <=> ~ (2 + h <= z /\ ~ (2 + s <= z))
  <2>1. b.defined
    BY <1>7, <1>8
  <2>2. Here(b, "text") /\ ~ Whole(b) <=> 2 + h <= z /\ ~ (2 + s <= z)
    BY <1>18, <1>19
  <2> QED BY <1>10, <2>1, <2>2
<1>23. full > 2 + s
  <2>1. CASE n = 2
    BY <1>3, <1>4, <2>1
  <2>2. CASE n = 3
    BY <1>3, <1>4, <1>5, <2>2
  <2> QED BY <1>3, <2>1, <2>2
<1>24. c.defined <=> ~ (2 + h <= cap /\ 2 + s > cap)
  BY <1>2, <1>4, <1>22, <1>23 DEF z
<1>25. n = 2 => (c.err <=> full > cap) /\ d.err
  <2>0. SUFFICES ASSUME n = 2 PROVE (c.err <=> full > cap) /\ d.err
    OBVIOUS
  <2>1. tail = 1 /\ full = 3 + s
    BY <1>3, <2>0 DEF tail
  <2>2. 2 + s + tail <= z <=> full <= z
    BY <1>4, <2>1
  <2>3. ~ Here(c, "bytes")
    <3>1. CASE c.err
      BY <3>1 DEF Here
    <3>2. CASE ~ c.err
      <4>1. c.next = 3 /\ c.items = items
        BY <1>11, <1>21, <3>2
      <4>2. Len(c.items) = 2
        BY <1>0, <2>0, <4>1
      <4>3. ~ (3 <= 2)
        OBVIOUS
      <4> QED BY <4>1, <4>2, <4>3 DEF Here
    <3> QED BY <3>1, <3>2
  <2> QED BY <1>2, <1>12, <1>14, <1>21, <2>2, <2>3
<1>26. n = 3 => (d.err <=> full > cap)
  <2>0. SUFFICES ASSUME n = 3 PROVE d.err <=> full > cap
    OBVIOUS
  <2> DEFINE h3 == HeadSize(items[3])
             s3 == ItemSize(items[3])
  <2>1. /\ tail = h3 /\ full = 3 + s + s3 /\ Start(items, 4) = 2 + s + s3
        /\ s3 \in Nat /\ h3 \in Nat /\ h3 <= s3
    BY <1>3, <1>5, <2>0 DEF tail
  <2>2. Here(c, "bytes") <=> 2 + s + tail <= z
    <3>1. CASE c.err
      BY <1>21, <3>1 DEF Here
    <3>2. CASE ~ c.err
      <4>1. c.next = 3 /\ c.items = items
        BY <1>11, <1>21, <3>2
      <4>2. Len(c.items) = 3 /\ 3 <= 3 /\ items[3].type = "bytes"
        BY <1>0, <1>6, <2>0, <4>1
      <4> QED BY <1>21, <3>2, <4>1, <4>2 DEF Here
    <3> QED BY <3>1, <3>2
  <2>3. 2 + s + tail <= z => (Whole(c) <=> 2 + s + s3 <= z)
    BY <1>11, <1>15, <1>21, <2>1 DEF Whole
  <2>4. Parsed(c, 4) <=> 2 + s + s3 + 1 <= z
    <3>1. Len(c.items) = 3 /\ ~ (4 <= 3)
      BY <1>0, <1>11, <2>0
    <3> QED BY <1>11, <2>1, <3>1 DEF Parsed
  <2> HIDE DEF h3, s3
  <2>5. full <= z => 2 + s + tail <= z /\ 2 + s + s3 <= z
    BY <1>4, <1>14, <2>1
  <2>6. 2 + s + s3 + 1 <= z <=> full <= z
    BY <1>4, <2>1
  <2>7. d.err <=> ~ (full <= z)
    <3>1. CASE Here(c, "bytes") /\ Whole(c)
      <4>1. c.next = 3
        BY <1>21, <2>2, <3>1
      <4> QED BY <1>12, <1>15, <2>4, <2>6, <3>1, <4>1
    <3>2. CASE ~ (Here(c, "bytes") /\ Whole(c))
      BY <1>12, <2>2, <2>3, <2>5, <3>2
    <3> QED BY <3>1, <3>2
  <2> QED BY <1>2, <1>14, <2>7
<1>27. d.err <=> items[1].kind /= "PUBLISH" \/ full > cap
  BY <1>3, <1>6, <1>25, <1>26
<1>28. items[1].kind /= "PUBLISH" => (c.err <=> full > cap)
  BY <1>3, <1>6, <1>25
<1>29. /\ c \in Reading /\ d \in Reading
       /\ c.items = items /\ d.items = items /\ d.defined = c.defined
  BY <1>11, <1>12, <1>13
<1>30. /\ Opened(side, w) = c /\ GetBytes(Opened(side, w)) = d
  BY <1>1 DEF d
<1> QED BY <1>24, <1>27, <1>28, <1>29, <1>30 DEF items, cap, full, h, s

-------------------------------------------------------------------------------
(* The messages *)

LEMMA EndWriteIs ==
  ASSUME NEW w \in Writing, NEW cap \in Nat
  PROVE  EndWrite(w, cap) \in Writing
<1>1. CASE w.err
  BY <1>1 DEF EndWrite, Writing
<1>2. CASE ~ w.err /\ w.used < cap
  <2> DEFINE u == w.used + 1
  <2>1. u \in Nat
    BY DEF Writing
  <2>2. EndWrite(w, cap) = [w EXCEPT !.size = u]
    BY <1>2 DEF EndWrite
  <2> HIDE DEF u
  <2> QED BY <2>1, <2>2 DEF Writing
<1>3. CASE ~ w.err /\ ~ (w.used < cap)
  BY <1>3 DEF EndWrite, Writing
<1> QED BY <1>1, <1>2, <1>3

LEMMA WriteIsWriting ==
  ASSUME NEW side, NEW items \in Seq(Items)
  PROVE  Write(side, items) \in Writing
<1> DEFINE n == Len(items)
           e == Written(side, items)
<1>1. n \in Nat /\ Capacity(side) \in Nat
  BY LenProperties, CapacityIs
<1>2. Write(side, items) = EndWrite(e[n], Capacity(side)) /\ e \in [0 .. n -> Writing]
  BY WrittenIs
<1> HIDE DEF n, e
<1>3. n \in 0 .. n
  BY <1>1
<1>4. e[n] \in Writing
  BY <1>2, <1>3
<1> QED BY <1>1, <1>2, <1>4, EndWriteIs

LEMMA ItemsAre ==
  /\ \A k \in Kinds : KindItem(k) \in Items
  /\ \A n \in Nat : TextItem(n) \in Items /\ ByteItem(n) \in Items
  BY DEF KindItem, TextItem, ByteItem, Items, Kinds

LEMMA PairIsShaped ==
  ASSUME NEW k \in {"NODE", "SUBSCRIBE"}, NEW n \in Nat
  PROVE  Shaped(<<KindItem(k), TextItem(n)>>) /\ <<KindItem(k), TextItem(n)>>[1].kind = k
<1> DEFINE a == KindItem(k)  b == TextItem(n)  items == <<a, b>>
<1>1. a \in Items /\ b \in Items
  BY ItemsAre DEF Kinds
<1>2. a.type = "int" /\ a.len = 0 /\ a.kind = k /\ b.type = "text" /\ k \in Kinds /\ k /= "PUBLISH"
  BY DEF KindItem, TextItem, Kinds
<1> HIDE DEF a, b
<1>3. items \in Seq(Items) /\ items[1] = a /\ items[2] = b /\ Len(items) = 2
  BY <1>1
<1> HIDE DEF items
<1>4. Shaped(items) /\ items[1].kind = k
  BY <1>2, <1>3 DEF Shaped
<1> QED BY <1>4 DEF items, a, b

LEMMA TripleIsShaped ==
  ASSUME NEW n \in Nat, NEW m \in Nat
  PROVE  /\ Shaped(<<KindItem("PUBLISH"), TextItem(n), ByteItem(m)>>)
         /\ <<KindItem("PUBLISH"), TextItem(n), ByteItem(m)>>[1].kind = "PUBLISH"
<1> DEFINE a == KindItem("PUBLISH")  b == TextItem(n)  c == ByteItem(m)  items == <<a, b, c>>
<1>1. a \in Items /\ b \in Items /\ c \in Items
  BY ItemsAre DEF Kinds
<1>2. /\ a.type = "int" /\ a.len = 0 /\ a.kind = "PUBLISH" /\ "PUBLISH" \in Kinds
      /\ b.type = "text" /\ c.type = "bytes"
  BY DEF KindItem, TextItem, ByteItem, Kinds
<1> HIDE DEF a, b, c
<1>3. items \in Seq(Items) /\ items[1] = a /\ items[2] = b /\ items[3] = c /\ Len(items) = 3
  BY <1>1
<1> HIDE DEF items
<1>4. Shaped(items) /\ items[1].kind = "PUBLISH"
  BY <1>2, <1>3 DEF Shaped
<1> QED BY <1>4 DEF items, a, b, c

MessagesTypes ==
  /\ readErr \in [Sides -> BOOLEAN]
  /\ outgoing = <<>> \/ \E t, v \in Nat : outgoing = <<t, v>>

\* What a message that was sent leaves behind.
LatestIs(from, items, taken, undefined) ==
  /\ latest.from = from /\ latest.items = items /\ latest.taken = taken
  /\ latest.undefined <=> undefined

\* Of what a receiver knows, it takes a whole message for what it is, and a message that
\* is cut for nothing.
LEMMA TakenIs ==
  ASSUME NEW to \in Sides, NEW w \in Writing, readErr[to] \in BOOLEAN,
         Shaped(w.items), w.size = FullSize(w.items), FullSize(w.items) \in Nat, NEW k \in Kinds
  PROVE  /\ Accepts(ReadAs(to, w, k), k) <=> k = w.items[1].kind /\ FullSize(w.items) <= Capacity(to)
         /\ ReadAs(to, w, k).defined <=>
              ~ (2 + HeadSize(w.items[2]) <= Capacity(to) /\ 2 + ItemSize(w.items[2]) > Capacity(to))
         /\ ReadAs(to, w, k).err \in BOOLEAN
<1> DEFINE r == Opened(to, w)
           full == FullSize(w.items)
           cap == Capacity(to)
           whole == full <= cap
<1>1. full \in Nat /\ cap \in Nat
  BY CapacityIs
<1>2. /\ r \in Reading /\ GetBytes(r) \in Reading
      /\ r.items = w.items /\ GetBytes(r).items = w.items
      /\ GetBytes(r).defined = r.defined
      /\ r.defined <=> ~ (2 + HeadSize(w.items[2]) <= cap /\ 2 + ItemSize(w.items[2]) > cap)
      /\ w.items[1].kind /= "PUBLISH" => (r.err <=> full > cap)
      /\ GetBytes(r).err <=> w.items[1].kind /= "PUBLISH" \/ full > cap
  BY OpenedIs
<1>3. r.err \in BOOLEAN /\ GetBytes(r).err \in BOOLEAN
  BY <1>2 DEF Reading
<1>4. full > cap <=> ~ whole
  BY <1>1
<1> HIDE DEF r, full, cap, whole
<1>5. CASE k = "PUBLISH"
  <2>1. ReadAs(to, w, k) = GetBytes(r)
    BY <1>5 DEF ReadAs, r
  <2>2. Accepts(GetBytes(r), k) <=> k = w.items[1].kind /\ whole
    BY <1>2, <1>4, <1>5 DEF Accepts
  <2> QED BY <1>2, <1>3, <2>1, <2>2 DEF whole, full, cap
<1>6. CASE k /= "PUBLISH"
  <2>1. ReadAs(to, w, k) = r
    BY <1>6 DEF ReadAs, r
  <2>2. Accepts(r, k) <=> k = w.items[1].kind /\ whole
    BY <1>2, <1>4, <1>6 DEF Accepts
  <2> QED BY <1>2, <1>3, <2>1, <2>2 DEF whole, full, cap
<1> QED BY <1>5, <1>6

LEMMA SendIs ==
  ASSUME NEW from \in Sides, NEW items, MessagesTypes, Shaped(items),
         items[1].kind \in Known(Receiver(from)),
         Send(from, Receiver(from), items, Write(from, items))
  PROVE  /\ readErr' \in [Sides -> BOOLEAN]
         /\ LatestIs(from, items, IF Fits(items, from) THEN {items[1].kind} ELSE {},
                     /\ FullSize(items) <= Capacity(from)
                     /\ 2 + HeadSize(items[2]) <= Capacity(Receiver(from))
                     /\ 2 + ItemSize(items[2]) > Capacity(Receiver(from)))'
<1> DEFINE to == Receiver(from)
           w == Write(from, items)
           full == FullSize(items)
           r(k) == ReadAs(to, w, k)
           cut == 2 + HeadSize(items[2]) <= Capacity(to) /\ 2 + ItemSize(items[2]) > Capacity(to)
           taken == {k \in Known(to) : Accepts(r(k), k)}
           undefined == \E k \in Known(to) : ~ r(k).defined
           final == IF to = "node" THEN "PUBLISH" ELSE "NODE"
           f == r(final).err
<1>1. to \in Sides /\ items \in Seq(Items)
  BY DEF Receiver, Sides, Shaped
<1>2. /\ Capacity(from) \in Nat /\ Capacity(to) \in Nat
      /\ Known(to) \subseteq Kinds /\ "PUBLISH" \in Known(to) /\ final \in Kinds
  BY CapacityIs DEF Known, Kinds
<1>3. /\ w.err <=> full > Capacity(from)
      /\ ~ w.err => w.size = full /\ w.items = items
      /\ full \in Nat /\ w \in Writing
  BY <1>1, WriteIs, WriteIsWriting
<1>4. Fits(items, from) <=> full <= Capacity(from) /\ full <= Capacity(to)
  BY DEF Fits
<1>5. Send(from, to, items, w)
  OBVIOUS
<1>6. readErr \in [Sides -> BOOLEAN] /\ readErr[to] \in BOOLEAN
  BY <1>1 DEF MessagesTypes
<1> HIDE DEF to, w, full, cut
<1>7. CASE w.err
  <2>1. ~ (full <= Capacity(from))
    BY <1>2, <1>3, <1>7
  <2>2. /\ latest' = [from |-> from, items |-> items, taken |-> {}, undefined |-> FALSE]
        /\ readErr' = readErr
    BY <1>5, <1>7 DEF Send
  <2>3. /\ latest'.from = from /\ latest'.items = items /\ latest'.taken = {}
        /\ ~ latest'.undefined
    BY <2>2
  <2> QED BY <1>4, <1>6, <2>1, <2>2, <2>3 DEF LatestIs, full, to
<1>8. CASE ~ w.err
  <2>1. full <= Capacity(from)
    BY <1>2, <1>3, <1>8
  <2>2. w.size = FullSize(w.items) /\ w.items = items /\ full = FullSize(w.items) /\ Shaped(w.items)
    BY <1>3, <1>8 DEF full
  <2>3. ASSUME NEW k \in Kinds
        PROVE  /\ Accepts(r(k), k) <=> k = items[1].kind /\ full <= Capacity(to)
               /\ r(k).defined <=> ~ cut
               /\ r(k).err \in BOOLEAN
    <3>1. FullSize(w.items) \in Nat
      BY <1>3, <2>2
    <3> QED BY <1>1, <1>3, <1>6, <2>2, <3>1, TakenIs DEF cut
  <2>4. /\ latest' = [from |-> from, items |-> items, taken |-> taken, undefined |-> undefined]
        /\ readErr' = [readErr EXCEPT ![to] = f]
    BY <1>5, <1>8 DEF Send
  <2>5. f \in BOOLEAN
    BY <1>2, <2>3
  <2>6. taken = IF Fits(items, from) THEN {items[1].kind} ELSE {}
    <3>1. items[1].kind \in Known(to)
      BY DEF to
    <3> HIDE DEF r
    <3> QED BY <1>2, <1>4, <2>1, <2>3, <3>1
  <2>7. undefined <=> cut
    <3> HIDE DEF r
    <3> QED BY <1>2, <2>3
  <2> HIDE DEF r, taken, undefined, f
  <2>8. /\ latest'.from = from /\ latest'.items = items /\ latest'.taken = taken
        /\ latest'.undefined = undefined
    BY <2>4
  <2>9. readErr' \in [Sides -> BOOLEAN]
    BY <1>6, <2>4, <2>5
  <2>10. latest'.undefined <=> full <= Capacity(from) /\ cut
    BY <2>1, <2>7, <2>8
  <2> QED BY <2>6, <2>8, <2>9, <2>10 DEF LatestIs, full, to, cut
<1> QED BY <1>7, <1>8

LEMMA LatestShows ==
  ASSUME NEW from \in Sides, NEW items, NEW taken, NEW undefined, Shaped(items),
         LatestIs(from, items, taken, undefined)',
         taken = IF Fits(items, from) THEN {items[1].kind} ELSE {},
         undefined <=> \/ from = "proxy" /\ FullSize(items) = ProxySize + 1
                       \/ /\ FullSize(items) <= Capacity(from)
                          /\ 2 + HeadSize(items[2]) <= Capacity(Receiver(from))
                          /\ 2 + ItemSize(items[2]) > Capacity(Receiver(from))
  PROVE  Carried' /\ ErrorsDefined'
<1>1. /\ latest'.from = from /\ latest'.items = items /\ latest'.taken = taken
      /\ latest'.undefined <=> undefined
  BY DEF LatestIs
<1>2. Start(items, 2) = 2
  BY PlacesAre
<1>3. latest' /= NothingSent
  <2>1. from /= "none"
    BY DEF Sides
  <2>2. NothingSent.from = "none"
    BY DEF NothingSent
  <2> QED BY <1>1, <2>1, <2>2
<1>4. Carried'
  BY <1>1 DEF Carried
<1>5. ErrorsDefined'
  BY <1>1, <1>2, <1>3 DEF ErrorsDefined
<1> QED BY <1>4, <1>5

MessagesInv == MessagesTypes /\ Carried /\ ErrorsDefined

LEMMA SendStep ==
  ASSUME NEW from \in Sides, NEW items, MessagesTypes, Shaped(items),
         items[1].kind \in Known(Receiver(from)),
         from = "proxy" => Write(from, items).defined,
         Send(from, Receiver(from), items, Write(from, items))
  PROVE  readErr' \in [Sides -> BOOLEAN] /\ Carried' /\ ErrorsDefined'
<1> DEFINE taken == IF Fits(items, from) THEN {items[1].kind} ELSE {}
           cut == /\ FullSize(items) <= Capacity(from)
                  /\ 2 + HeadSize(items[2]) <= Capacity(Receiver(from))
                  /\ 2 + ItemSize(items[2]) > Capacity(Receiver(from))
<1>1. readErr' \in [Sides -> BOOLEAN] /\ LatestIs(from, items, taken, cut)'
  BY SendIs
<1>2. ~ (from = "proxy" /\ FullSize(items) = ProxySize + 1)
  <2>1. items \in Seq(Items)
    BY DEF Shaped
  <2>2. Write(from, items).defined <=> FullSize(items) /= Capacity(from) + 1
    BY <2>1, WriteIs
  <2>3. from = "proxy" => Capacity(from) = ProxySize
    BY DEF Capacity
  <2> QED BY <2>2, <2>3
<1>3. cut <=> (from = "proxy" /\ FullSize(items) = ProxySize + 1) \/ cut
  BY <1>2
<1> HIDE DEF taken
<1>4. Carried' /\ ErrorsDefined'
  <2>1. taken = IF Fits(items, from) THEN {items[1].kind} ELSE {}
    BY DEF taken
  <2> QED BY <1>1, <1>3, <2>1, LatestShows
<1> QED BY <1>1, <1>4

LEMMA ReceiverIs == /\ Receiver("node") = "proxy" /\ Receiver("proxy") = "node"
                    /\ "node" \in Sides /\ "proxy" \in Sides
                    /\ Known("proxy") = Kinds /\ Known("node") = {"PUBLISH"}
  BY DEF Receiver, Sides, Known

LEMMA PairStep ==
  ASSUME MessagesTypes, NEW k \in {"NODE", "SUBSCRIBE"}, NEW n \in Nat,
         SendFromNode(<<KindItem(k), TextItem(n)>>), outgoing' = outgoing
  PROVE  MessagesInv'
<1> DEFINE items == <<KindItem(k), TextItem(n)>>
<1>1. Shaped(items) /\ items[1].kind = k
  BY PairIsShaped
<1>2. items[1].kind \in Known("proxy")
  BY <1>1, ReceiverIs DEF Kinds
<1>3. Send("node", "proxy", items, Write("node", items))
  BY DEF SendFromNode
<1> HIDE DEF items
<1>4. readErr' \in [Sides -> BOOLEAN] /\ Carried' /\ ErrorsDefined'
  BY <1>1, <1>2, <1>3, ReceiverIs, SendStep
<1> QED BY <1>4 DEF MessagesInv, MessagesTypes

LEMMA PublishStep ==
  ASSUME MessagesInv, NEW n \in Nat, NEW v \in Nat, Publish(n, v)
  PROVE  MessagesInv'
<1> DEFINE items == <<TextItem(v)>>
           w == Write("node", items)
           size == w.size
<1>1. items \in Seq(Items)
  BY ItemsAre
<1>2. size \in Nat
  BY <1>1, WriteIs
<1>3. /\ outgoing' = IF w.err THEN <<>> ELSE <<n, size>>
      /\ readErr' = readErr /\ latest' = latest
  BY DEF Publish
<1> HIDE DEF size, w
<1>4. outgoing' = <<>> \/ \E t, u \in Nat : outgoing' = <<t, u>>
  BY <1>2, <1>3
<1> QED BY <1>3, <1>4 DEF MessagesInv, MessagesTypes, Carried, ErrorsDefined

LEMMA SendQueuedStep ==
  ASSUME MessagesTypes, SendQueued
  PROVE  MessagesInv'
<1>1. outgoing /= <<>> /\ outgoing' = <<>>
  BY DEF SendQueued
<1>2. PICK n, m \in Nat : outgoing = <<n, m>>
  BY <1>1 DEF MessagesTypes
<1>3. outgoing[1] = n /\ outgoing[2] = m
  BY <1>2
<1> DEFINE items == <<KindItem("PUBLISH"), TextItem(n), ByteItem(m)>>
<1>4. Send("node", "proxy", items, Write("node", items))
  BY <1>3 DEF SendQueued, SendFromNode
<1>5. Shaped(items) /\ items[1].kind = "PUBLISH"
  BY TripleIsShaped
<1>6. items[1].kind \in Known("proxy")
  BY <1>5, ReceiverIs DEF Kinds
<1> HIDE DEF items
<1>7. readErr' \in [Sides -> BOOLEAN] /\ Carried' /\ ErrorsDefined'
  BY <1>4, <1>5, <1>6, ReceiverIs, SendStep
<1> QED BY <1>1, <1>7 DEF MessagesInv, MessagesTypes

LEMMA ForwardStep ==
  ASSUME MessagesTypes, NEW n \in Nat, NEW m \in Nat, Forward(n, m)
  PROVE  MessagesInv'
<1> DEFINE items == <<KindItem("PUBLISH"), TextItem(n), ByteItem(m)>>
           w == Write("proxy", items)
<1>1. outgoing' = outgoing
  BY DEF Forward
<1>2. Shaped(items) /\ items[1].kind = "PUBLISH"
  BY TripleIsShaped
<1>3. items[1].kind \in Known("node")
  BY <1>2, ReceiverIs
<1>4. IF w.defined THEN Send("proxy", "node", items, w)
      ELSE /\ latest' = [from |-> "proxy", items |-> items, taken |-> {}, undefined |-> TRUE]
           /\ readErr' = readErr
  BY DEF Forward
<1> HIDE DEF items
<1>5. CASE w.defined
  <2>1. readErr' \in [Sides -> BOOLEAN] /\ Carried' /\ ErrorsDefined'
    BY <1>2, <1>3, <1>4, <1>5, ReceiverIs, SendStep
  <2> QED BY <1>1, <2>1 DEF MessagesInv, MessagesTypes
<1>6. CASE ~ w.defined
  <2>1. items \in Seq(Items)
    BY <1>2 DEF Shaped
  <2>2. FullSize(items) = Capacity("proxy") + 1
    BY <1>6, <2>1, WriteIs
  <2>3. Capacity("proxy") = ProxySize /\ Capacity("proxy") \in Nat
    BY CapacityIs DEF Capacity
  <2>4. ~ Fits(items, "proxy")
    BY <2>2, <2>3 DEF Fits
  <2>5. /\ latest' = [from |-> "proxy", items |-> items, taken |-> {}, undefined |-> TRUE]
        /\ readErr' = readErr
    BY <1>4, <1>6
  <2> DEFINE taken == {}
             undefined == TRUE
  <2>6. LatestIs("proxy", items, taken, undefined)'
    BY <2>5 DEF LatestIs
  <2>7. Carried' /\ ErrorsDefined'
    BY <1>2, <2>2, <2>3, <2>4, <2>6, ReceiverIs, LatestShows
  <2> QED BY <1>1, <2>5, <2>7 DEF MessagesInv, MessagesTypes
<1> QED BY <1>5, <1>6

LEMMA MessagesInvInit == MessagesInit => MessagesInv
<1> SUFFICES ASSUME MessagesInit PROVE MessagesInv
  OBVIOUS
<1>1. MessagesTypes
  BY DEF MessagesInit, MessagesTypes
<1>2. latest = NothingSent
  BY DEF MessagesInit
<1>3. Carried
  BY <1>2 DEF Carried
<1>4. ErrorsDefined
  <2>1. ~ NothingSent.undefined
    BY DEF NothingSent
  <2> QED BY <1>2, <2>1 DEF ErrorsDefined
<1> QED BY <1>1, <1>3, <1>4 DEF MessagesInv

LEMMA MessagesInvStep == MessagesInv /\ [MessagesNext]_messageVars => MessagesInv'
<1> SUFFICES ASSUME MessagesInv, [MessagesNext]_messageVars PROVE MessagesInv'
  OBVIOUS
<1>1. MessagesTypes
  BY DEF MessagesInv
<1>2. NameSizes \subseteq Nat /\ ValueSizes \subseteq Nat /\ DataSizes \subseteq Nat
  BY SizeAssumption
<1>3. ASSUME NEW n \in NameSizes, SendNode(n) PROVE MessagesInv'
  <2>1. SendFromNode(<<KindItem("NODE"), TextItem(n)>>) /\ outgoing' = outgoing
    BY <1>3 DEF SendNode
  <2> QED BY <1>1, <1>2, <2>1, PairStep
<1>4. ASSUME NEW n \in NameSizes, Subscribe(n) PROVE MessagesInv'
  <2>1. SendFromNode(<<KindItem("SUBSCRIBE"), TextItem(n)>>) /\ outgoing' = outgoing
    BY <1>4 DEF Subscribe
  <2> QED BY <1>1, <1>2, <2>1, PairStep
<1>5. ASSUME NEW n \in NameSizes, NEW v \in ValueSizes, Publish(n, v) PROVE MessagesInv'
  BY <1>2, <1>5, PublishStep
<1>6. ASSUME NEW n \in NameSizes, NEW m \in DataSizes, Forward(n, m) PROVE MessagesInv'
  BY <1>1, <1>2, <1>6, ForwardStep
<1>7. CASE SendQueued
  BY <1>1, <1>7, SendQueuedStep
<1>8. CASE UNCHANGED messageVars
  BY <1>8 DEF MessagesInv, MessagesTypes, Carried, ErrorsDefined, messageVars
<1> QED BY <1>3, <1>4, <1>5, <1>6, <1>7, <1>8 DEF MessagesNext

LEMMA MessagesInvariance == MessagesSpec => []MessagesInv
<1> QED BY MessagesInvInit, MessagesInvStep, PTL DEF MessagesSpec

\* Whatever the sizes of the buffers, and of the names and values: a message is taken for
\* what it is exactly if both buffers hold it (CborSerializer.cpp:36-110,
\* CborDeserializer.cpp:14-110, serialProxy.cpp:189-223, BrokerSerial.cpp:74-94).
THEOREM MessagesCarried == MessagesSpec => []Carried
<1>1. MessagesInv => Carried
  BY DEF MessagesInv
<1> QED BY <1>1, MessagesInvariance, PTL

\* And the callbacks use a pointer to nothing for exactly two sizes of a message
\* (CborSerializer.cpp:99, CborDeserializer.cpp:58).
THEOREM ErrorsAreDefined == MessagesSpec => []ErrorsDefined
<1>1. MessagesInv => ErrorsDefined
  BY DEF MessagesInv
<1> QED BY <1>1, MessagesInvariance, PTL
=============================================================================
