------------------------------- MODULE SeqNum -------------------------------
(***************************************************************************)
(* Serial number arithmetic of lib/include/chiaki/seqnum.h (RFC 1982) for  *)
(* sequence numbers of any even width: NumberSpace is 2^bits.              *)
(* AddWraps says how seq_num_<bits>_add of lib/src/reorderqueue.c behaves: *)
(* two uint32_t are added modulo 2^32, but two uint16_t are promoted to    *)
(* int first, so their sum keeps the carry.                                *)
(***************************************************************************)
EXTENDS Integers, TLAPS

CONSTANTS NumberSpace, AddWraps

ASSUME NumberSpaceAssumption == NumberSpace \in Nat /\ NumberSpace > 1 /\ NumberSpace % 2 = 0
ASSUME AddWrapsAssumption == AddWraps \in BOOLEAN

SeqHalf == NumberSpace \div 2
SeqNums == 0 .. (NumberSpace - 1)

(* What a uint64_t holds after seq_num_add. *)
WideSeqNums == IF AddWraps THEN SeqNums ELSE 0 .. (2 * NumberSpace - 2)

(* The cast to ChiakiSeqNum<bits> every comparison starts with. *)
Cast(a) == a % NumberSpace

SeqLt(a, b) ==
  LET x == Cast(a)
      y == Cast(b)
  IN  \/ x < y /\ y - x < SeqHalf
      \/ x > y /\ x - y > SeqHalf

SeqGt(a, b) ==
  LET x == Cast(a)
      y == Cast(b)
  IN  \/ x < y /\ y - x > SeqHalf
      \/ x > y /\ x - y < SeqHalf

SeqAdd(a, b) ==
  LET sum == Cast(a) + Cast(b) IN IF AddWraps THEN Cast(sum) ELSE sum

-----------------------------------------------------------------------------
(* Remainders                                                                *)

LEMMA Division ==
  ASSUME NEW S \in Nat \ {0}, NEW x \in Int
  PROVE  /\ x \div S \in Int /\ x % S \in 0 .. (S - 1)
         /\ x = (x \div S) * S + (x % S)
BY SMT

(* Two positions less than S apart are in the same turn or in adjacent ones. *)
LEMMA Turns ==
  ASSUME NEW S \in Nat \ {0}, NEW q \in Int, NEW h \in Int,
         NEW l \in 0 .. (S - 1), NEW k \in 0 .. (S - 1),
         (q * S + l) - (h * S + k) \in (1 - S) .. (S - 1)
  PROVE  q \in {h - 1, h, h + 1}
<1>1. q * S \in Int /\ h * S \in Int
  OBVIOUS
<1>2. CASE q >= h + 2
  <2>1. (q - h - 2) * S >= 0
    BY <1>2
  <2>2. (q - h - 2) * S = q * S - h * S - 2 * S
    OBVIOUS
  <2> QED  BY <2>1, <2>2, <1>1
<1>3. CASE q <= h - 2
  <2>1. (h - q - 2) * S >= 0
    BY <1>3
  <2>2. (h - q - 2) * S = h * S - q * S - 2 * S
    OBVIOUS
  <2> QED  BY <2>1, <2>2, <1>1
<1> QED  BY <1>2, <1>3

(* The same as a statement about remainders.                                 *)
LEMMA Remainders ==
  ASSUME NEW S \in Nat \ {0}, NEW a \in Int, NEW b \in Int, a - b \in (1 - S) .. (S - 1)
  PROVE  (a % S) - (b % S) \in {a - b, a - b + S, a - b - S}
<1> DEFINE q == a \div S
           h == b \div S
           l == a % S
           k == b % S
<1>1. q \in Int /\ h \in Int /\ l \in 0 .. (S - 1) /\ k \in 0 .. (S - 1) /\ a = q * S + l /\ b = h * S + k
  BY Division
<1> HIDE DEF q, h, l, k
<1>2. q \in {h - 1, h, h + 1}
  BY <1>1, Turns
<1>3. q * S \in {h * S - S, h * S, h * S + S} /\ h * S \in Int
  <2>1. CASE q = h - 1
    BY <1>1, <2>1
  <2>2. CASE q = h
    BY <1>1, <2>2
  <2>3. CASE q = h + 1
    BY <1>1, <2>3
  <2> QED  BY <1>2, <2>1, <2>2, <2>3
<1>4. l - k \in {a - b, a - b + S, a - b - S}
  BY <1>1, <1>3
<1> QED  BY <1>4 DEF l, k

LEMMA RemainderOfSmall == ASSUME NEW S \in Nat \ {0}, NEW a \in 0 .. (S - 1) PROVE a % S = a
  BY Remainders, Division

(* A number is determined by its remainder within one turn.                  *)
LEMMA RemainderUnique ==
  ASSUME NEW S \in Nat \ {0}, NEW a \in Int, NEW q \in Int, NEW r \in 0 .. (S - 1), a = q * S + r
  PROVE  a % S = r
<1> DEFINE h == a \div S
           k == a % S
<1>1. h \in Int /\ k \in 0 .. (S - 1) /\ a = h * S + k
  BY Division
<1> HIDE DEF h, k
<1>2. q \in {h - 1, h, h + 1}
  BY <1>1, Turns
<1>3. q * S \in {h * S - S, h * S, h * S + S} /\ h * S \in Int
  <2>1. CASE q = h - 1
    BY <1>1, <2>1
  <2>2. CASE q = h
    BY <1>1, <2>2
  <2>3. CASE q = h + 1
    BY <1>1, <2>3
  <2> QED  BY <1>2, <2>1, <2>2, <2>3
<1>4. k = r
  BY <1>1, <1>3
<1> QED  BY <1>4 DEF k

LEMMA RemainderOfSum ==
  ASSUME NEW S \in Nat \ {0}, NEW a \in Int, NEW b \in Int
  PROVE  ((a % S) + b) % S = (a + b) % S
<1> DEFINE c == a + b
           l == a % S
           q == a \div S
           h == c \div S
           r == c % S
<1>1. c \in Int /\ c = a + b
  OBVIOUS
<1> HIDE DEF c
<1>2. q \in Int /\ l \in 0 .. (S - 1) /\ a = q * S + l
  BY Division
<1>3. h \in Int /\ r \in 0 .. (S - 1) /\ c = h * S + r
  BY <1>1, Division
<1> HIDE DEF l, q, h, r
<1>4. (h - q) * S = h * S - q * S /\ h * S \in Int /\ q * S \in Int /\ h - q \in Int
  BY <1>2, <1>3
<1>5. l + b = (h - q) * S + r /\ l + b \in Int
  BY <1>1, <1>2, <1>3, <1>4
<1>6. (l + b) % S = r
  BY <1>3, <1>4, <1>5, RemainderUnique
<1> QED  BY <1>6 DEF l, r, c

LEMMA RemainderOfDifference ==
  ASSUME NEW S \in Nat \ {0}, NEW a \in Int, NEW b \in Int
  PROVE  ((a % S) - (b % S)) % S = (a - b) % S
<1> DEFINE h == b \div S
           k == b % S
           c == -k
           d == -b
<1>1. h \in Int /\ k \in 0 .. (S - 1) /\ b = h * S + k
  BY Division
<1> HIDE DEF h, k
<1>2. c \in Int /\ a + c \in Int /\ (a % S) + c = (a % S) - k
  BY <1>1, Division
<1>3. ((a % S) + c) % S = (a + c) % S
  BY <1>2, RemainderOfSum
<1> DEFINE e == a - b
           g == e \div S
           r == e % S
<1>4. e \in Int /\ e = a - b
  OBVIOUS
<1> HIDE DEF e
<1>5. g \in Int /\ r \in 0 .. (S - 1) /\ e = g * S + r
  BY <1>4, Division
<1> HIDE DEF g, r
<1>6. (g + h) * S = g * S + h * S /\ g * S \in Int /\ h * S \in Int /\ g + h \in Int
  BY <1>1, <1>5
<1>7. a + c = (g + h) * S + r
  BY <1>1, <1>4, <1>5, <1>6
<1>8. (a + c) % S = r
  BY <1>2, <1>5, <1>6, <1>7, RemainderUnique
<1> QED  BY <1>2, <1>3, <1>8 DEF r, e, k

(* The ring's size divides the number space.                                 *)
LEMMA RemainderTwice ==
  ASSUME NEW S \in Nat \ {0}, NEW T \in Nat \ {0}, S % T = 0, NEW a \in Int
  PROVE  (a % S) % T = a % T
<1> DEFINE m == S \div T
           q == a \div S
           h == a \div T
           r == a % T
<1>1. m \in Int /\ S = m * T
  BY Division
<1>2. q \in Int /\ a % S \in 0 .. (S - 1) /\ a = q * S + (a % S)
  BY Division
<1>3. h \in Int /\ r \in 0 .. (T - 1) /\ a = h * T + r
  BY Division
<1> HIDE DEF m, q, h, r
<1>4. q * S = (q * m) * T /\ q * m \in Int
  BY <1>1, <1>2
<1>5. (h - q * m) * T = h * T - (q * m) * T /\ h * T \in Int /\ (q * m) * T \in Int /\ h - q * m \in Int
  BY <1>3, <1>4
<1>6. a % S = (h - q * m) * T + r
  BY <1>2, <1>3, <1>4, <1>5
<1>7. (a % S) % T = r
  BY <1>2, <1>3, <1>5, <1>6, RemainderUnique
<1> QED  BY <1>7 DEF r

-----------------------------------------------------------------------------
(* The numbers stand for positions less than half the space apart            *)

LEMMA EvenSpace == NumberSpace \in Nat \ {0} /\ SeqHalf \in Nat /\ 2 * SeqHalf = NumberSpace
BY NumberSpaceAssumption DEF SeqHalf

LEMMA CastIsNumber ==
  ASSUME NEW a \in Int
  PROVE  /\ Cast(a) \in 0 .. (NumberSpace - 1)
         /\ Cast(Cast(a)) = Cast(a)
BY EvenSpace, Division, RemainderOfSmall DEF Cast

LEMMA CastOfNumber ==
  ASSUME NEW a \in 0 .. (NumberSpace - 1) PROVE Cast(a) = a
BY EvenSpace, RemainderOfSmall DEF Cast

LEMMA CastOfDifference ==
  ASSUME NEW a \in Int, NEW b \in Int
  PROVE  Cast(Cast(a) - Cast(b)) = Cast(a - b)
BY EvenSpace, RemainderOfDifference DEF Cast

(* Comparisons are those of the positions, less than half the space apart.   *)
LEMMA CastOrder ==
  ASSUME NEW a \in Int, NEW b \in Int, a - b \in (1 - SeqHalf) .. (SeqHalf - 1)
  PROVE  /\ SeqLt(Cast(a), Cast(b)) <=> a < b
         /\ SeqGt(Cast(a), Cast(b)) <=> a > b
         /\ Cast(a) = Cast(b) <=> a = b
<1> DEFINE x == Cast(a)
           y == Cast(b)
<1>1. x - y \in {a - b, a - b + NumberSpace, a - b - NumberSpace}
  <2>1. a - b \in (1 - NumberSpace) .. (NumberSpace - 1)
    BY EvenSpace
  <2> QED  BY EvenSpace, <2>1, Remainders DEF Cast
<1>2. x \in 0 .. (NumberSpace - 1) /\ y \in 0 .. (NumberSpace - 1)
  BY CastIsNumber
<1>3. Cast(x) = x /\ Cast(y) = y
  BY CastIsNumber
<1>5. /\ SeqLt(x, y) <=> ((x < y /\ y - x < SeqHalf) \/ (x > y /\ x - y > SeqHalf))
      /\ SeqGt(x, y) <=> ((x < y /\ y - x > SeqHalf) \/ (x > y /\ x - y < SeqHalf))
  BY <1>3 DEF SeqLt, SeqGt
<1> HIDE DEF x, y
<1>6. (SeqLt(x, y) <=> a < b) /\ (SeqGt(x, y) <=> a > b) /\ (x = y <=> a = b)
  BY EvenSpace, <1>1, <1>2, <1>5
<1> QED  BY <1>6 DEF x, y
=============================================================================
