--------------------------- MODULE Takion_proofs ---------------------------
(***************************************************************************)
(* For every size of the queues and buffers, width of the numbers, number   *)
(* of threads and traffic below half the number space: the reorder queue    *)
(* does what PacketWindow promises, the takion thread misses no packet,     *)
(* hands audio and video on in order, and the buffer of sent packets loses  *)
(* none.                                                                   *)
(***************************************************************************)
EXTENDS MCTakion, FiniteSetTheorems, TLAPS

TakionVars == <<vars, queueVars, bufferVars, loopVars>>
R == Queue!RingSize

-----------------------------------------------------------------------------
(* Numbers of a limited width *)

LEMMA Space ==
  /\ NumberSpace \in Nat \ {0} /\ SeqHalf \in Nat /\ 2 * SeqHalf = NumberSpace
  /\ R \in Nat \ {0} /\ R < SeqHalf
  /\ AddWraps = TRUE
BY NumberSpaceAssumption, QueueAssumption DEF SeqHalf, R

-----------------------------------------------------------------------------
(* What the numbers and slots of the queue stand for *)

LEMMA CastType ==
  ASSUME NEW a \in Int
  PROVE  /\ Queue!Cast(a) \in 0 .. (NumberSpace - 1)
         /\ Queue!Cast(Queue!Cast(a)) = Queue!Cast(a)
BY Space, Division, RemainderOfSmall DEF Queue!Cast

LEMMA CastOfSmall ==
  ASSUME NEW a \in 0 .. (NumberSpace - 1) PROVE Queue!Cast(a) = a
BY Space, RemainderOfSmall DEF Queue!Cast

LEMMA AddIsCast ==
  ASSUME NEW a \in Int, NEW d \in Int
  PROVE  Queue!SeqAdd(Queue!Cast(a), d) = Queue!Cast(a + d)
<1> DEFINE x == a % NumberSpace
           y == d % NumberSpace
<1>1. x \in Int /\ y \in Int /\ a + d = d + a
  BY Space, Division
<1>2. Queue!SeqAdd(Queue!Cast(a), d) = (x + y) % NumberSpace
  BY Space, CastType DEF Queue!SeqAdd, Queue!Cast
<1>3. (x + y) % NumberSpace = (a + y) % NumberSpace
  BY Space, <1>1, RemainderOfSum
<1>4. (y + a) % NumberSpace = (d + a) % NumberSpace
  BY Space, <1>1, RemainderOfSum
<1>5. a + y = y + a
  BY <1>1
<1> QED  BY <1>1, <1>2, <1>3, <1>4, <1>5 DEF Queue!Cast

LEMMA DifferenceOfCasts ==
  ASSUME NEW a \in Int, NEW b \in Int
  PROVE  Queue!Cast(Queue!Cast(a) - Queue!Cast(b)) = Queue!Cast(a - b)
BY Space, RemainderOfDifference DEF Queue!Cast

(* Comparisons are those of the positions, less than half the space apart.   *)
LEMMA Order ==
  ASSUME NEW a \in Int, NEW b \in Int, a - b \in (1 - SeqHalf) .. (SeqHalf - 1)
  PROVE  /\ Queue!SeqLt(Queue!Cast(a), Queue!Cast(b)) <=> a < b
         /\ Queue!SeqGt(Queue!Cast(a), Queue!Cast(b)) <=> a > b
         /\ Queue!Cast(a) = Queue!Cast(b) <=> a = b
<1> DEFINE x == Queue!Cast(a)
           y == Queue!Cast(b)
<1>1. x - y \in {a - b, a - b + NumberSpace, a - b - NumberSpace}
  <2>1. a - b \in (1 - NumberSpace) .. (NumberSpace - 1)
    BY Space
  <2> QED  BY Space, <2>1, Remainders DEF Queue!Cast
<1>2. x \in 0 .. (NumberSpace - 1) /\ y \in 0 .. (NumberSpace - 1)
  BY CastType
<1>3. Queue!Cast(x) = x /\ Queue!Cast(y) = y
  BY CastType
<1>4. Queue!SeqHalf = SeqHalf
  BY DEF Queue!SeqHalf, SeqHalf
<1>5. /\ Queue!SeqLt(x, y) <=> ((x < y /\ y - x < SeqHalf) \/ (x > y /\ x - y > SeqHalf))
      /\ Queue!SeqGt(x, y) <=> ((x < y /\ y - x > SeqHalf) \/ (x > y /\ x - y < SeqHalf))
  BY <1>3, <1>4 DEF Queue!SeqLt, Queue!SeqGt
<1> HIDE DEF x, y
<1>6. (Queue!SeqLt(x, y) <=> a < b) /\ (Queue!SeqGt(x, y) <=> a > b) /\ (x = y <=> a = b)
  BY Space, <1>1, <1>2, <1>5
<1> QED  BY <1>6 DEF x, y

LEMMA SlotOfCast ==
  ASSUME NEW a \in Int PROVE Queue!Idx(Queue!Cast(a)) = a % R
BY Space, QueueAssumption, RemainderTwice DEF Queue!Idx, Queue!Cast, R

LEMMA SlotType == ASSUME NEW a \in Int PROVE a % R \in Queue!Indexes
BY Space, Division DEF Queue!Indexes, R

LEMMA SlotsDiffer ==
  ASSUME NEW a \in Int, NEW b \in Int, a - b \in (1 - R) .. (R - 1), a # b
  PROVE  a % R # b % R
<1>1. (a % R) - (b % R) \in {a - b, a - b + R, a - b - R}
  BY Space, Remainders
<1>2. a % R \in Int /\ b % R \in Int
  BY Space, Division
<1> QED  BY Space, <1>1, <1>2

-----------------------------------------------------------------------------
(* Between two calls: the window stands for base .. base + count - 1, every  *)
(* packet the queue owns is in the slot of its position, and every slot of   *)
(* the window that is set holds such a packet.                               *)
Slots == [Queue!Indexes -> [set : BOOLEAN, user : Packets \cup {NoPacket}]]

QTypes ==
  /\ base \in Nat /\ begin = Queue!Cast(base) /\ count \in 0 .. R
  /\ slots \in Slots
  /\ strategy \in {"BEGIN", "END"} /\ open \in BOOLEAN
  /\ held \subseteq Packets /\ pos \in [Packets -> 0 .. MaxPos]

InWindow(x) == base <= x /\ x < base + count

Owned(p) == InWindow(pos[p]) /\ slots[pos[p] % R] = Queue!Store(p)

Occupied(x) == LET slot == slots[x % R] IN slot.set => slot.user \in held /\ pos[slot.user] = x

QInv ==
  /\ QTypes
  /\ open => (\A p \in held : Owned(p)) /\ (\A x \in Int : InWindow(x) => Occupied(x))
  /\ strayed = {} /\ (~open => held = {})
  /\ pulled < base /\ pulled \in Int

-----------------------------------------------------------------------------
(* The window *)

LEMMA EndIsCast == ASSUME QTypes PROVE Queue!End = Queue!Cast(base + count)
BY Space, AddIsCast DEF Queue!End, QTypes

LEMMA Near ==
  ASSUME QTypes, NEW n \in Int, n - base \in (1 - SeqHalf) .. (SeqHalf - 1)
  PROVE  /\ Queue!InWindow(Queue!Cast(n)) <=> n \in base .. (base + count - 1)
         /\ Queue!TooOld(Queue!Cast(n)) <=> n < base
<1> DEFINE seq == Queue!Cast(n)
<1>1. base \in Int /\ count \in 0 .. R /\ base + count \in Int
  BY Space DEF QTypes
<1>2. /\ Queue!SeqLt(seq, begin) <=> n < base
      /\ Queue!SeqGt(seq, begin) <=> n > base
      /\ seq = begin <=> n = base
  BY <1>1, Order DEF QTypes
<1>3. Queue!SeqGe(seq, begin) <=> n >= base
  BY <1>1, <1>2 DEF Queue!SeqGe
<1>4. CASE n < base
  BY <1>1, <1>2, <1>3, <1>4 DEF Queue!InWindow, Queue!TooOld
<1>5. CASE n >= base
  <2>1. n - (base + count) \in (1 - SeqHalf) .. (SeqHalf - 1)
    BY <1>1, <1>5, Space
  <2>2. Queue!SeqLt(seq, Queue!End) <=> n < base + count
    BY <1>1, <2>1, Order, EndIsCast
  <2> QED  BY <1>1, <1>2, <1>3, <1>5, <2>2 DEF Queue!InWindow, Queue!TooOld
<1> QED  BY <1>1, <1>4, <1>5

LEMMA FitsByPosition ==
  ASSUME QTypes, NEW n \in Int, n - (base + count) >= 0, n - base < SeqHalf, NEW k \in 0 .. count
  PROVE  Queue!DoesNotFit(Queue!Cast(n), k) <=> base + R + k <= n
<1>1. base \in Int /\ count \in 0 .. R /\ base + count \in Int /\ k \in Int /\ R \in Int
  BY Space DEF QTypes
<1>2. Queue!SeqAdd(Queue!End, Queue!RingSize - (count - k)) = Queue!Cast(base + R + k)
  <2> DEFINE m == Queue!RingSize - (count - k)
             e == base + count
  <2>1. m \in Int /\ e \in Int /\ e + m = base + R + k
    BY <1>1, Space DEF R
  <2> HIDE DEF m, e
  <2>2. Queue!SeqAdd(Queue!Cast(e), m) = Queue!Cast(base + R + k)
    BY <2>1, AddIsCast
  <2> QED  BY <2>2, EndIsCast DEF m, e
<1>3. Queue!SeqAdd(Queue!Cast(n), 1) = Queue!Cast(n + 1)
  BY AddIsCast
<1>4. (base + R + k) - (n + 1) \in (1 - SeqHalf) .. (SeqHalf - 1) /\ base + R + k \in Int /\ n + 1 \in Int
  BY <1>1, Space
<1>5. Queue!SeqLt(Queue!Cast(base + R + k), Queue!Cast(n + 1)) <=> base + R + k < n + 1
  BY <1>4, Order
<1> QED  BY <1>1, <1>2, <1>3, <1>5 DEF Queue!DoesNotFit

LEMMA Front ==
  ASSUME QTypes, NEW n \in Int, n - (base + count) >= 0, n - base < SeqHalf, n >= base + R
  PROVE  LET k == Queue!FrontDrops(Queue!Cast(n))
         IN  k \in 0 .. count /\ (k # count => k = n + 1 - base - R)
<1>1. base \in Int /\ count \in 0 .. R /\ R \in Int
  BY Space DEF QTypes
<1> DEFINE d == n + 1 - base - R
           A == {k \in 0 .. count : k = count \/ ~Queue!DoesNotFit(Queue!Cast(n), k)}
<1>2. A = {k \in 0 .. count : k = count \/ k >= d}
  <2>1. \A k \in 0 .. count : ~Queue!DoesNotFit(Queue!Cast(n), k) <=> k >= d
    BY <1>1, FitsByPosition
  <2> QED  BY <2>1
<1>3. d \in Nat
  BY <1>1
<1> DEFINE m == IF d < count THEN d ELSE count
<1>4. m \in A /\ \A k \in A : m <= k
  BY <1>1, <1>2, <1>3
<1>5. Queue!FrontDrops(Queue!Cast(n)) = CHOOSE x \in A : \A y \in A : x <= y
  BY DEF Queue!FrontDrops, Queue!Min
<1>6. A \subseteq Int
  BY <1>1, <1>2
<1> HIDE DEF A
<1>7. PICK x \in A : x = Queue!FrontDrops(Queue!Cast(n)) /\ \A y \in A : x <= y
  BY <1>4, <1>5
<1>8. x = m
  BY <1>1, <1>3, <1>4, <1>6, <1>7
<1> QED  BY <1>1, <1>3, <1>7, <1>8

(* Extending the window that starts at position b with m entries up to n.    *)
LEMMA Extends ==
  ASSUME QTypes, NEW b \in Int, NEW m \in 0 .. R, NEW n \in Int, b + m <= n, n < b + R,
         NEW p \in Packets, Queue!Extend(Queue!Cast(b), m, Queue!Cast(n), p)
  PROVE  /\ begin' = Queue!Cast(b) /\ count' = n + 1 - b
         /\ slots' \in Slots /\ slots'[n % R] = Queue!Store(p)
         /\ \A x \in b .. (n - 1) : IF x < b + m THEN slots'[x % R] = slots[x % R]
                                                 ELSE ~slots'[x % R].set
<1> DEFINE c == b + m
           e == Queue!Cast(c)
           gained == Queue!Cast(Queue!SeqAdd(Queue!Cast(n), 1) - e)
           grows == Queue!SeqLt(e, Queue!SeqAdd(Queue!Cast(n), 1))
<1>0. c \in Int /\ n + 1 \in Int /\ R \in Nat \ {0} /\ m \in Int
  BY Space
<1>1. Queue!SeqAdd(Queue!Cast(b), m) = e
  BY <1>0, AddIsCast
<1>2. Queue!SeqAdd(Queue!Cast(n), 1) = Queue!Cast(n + 1)
  BY AddIsCast
<1>3. gained = n + 1 - c
  <2>1. gained = Queue!Cast(n + 1 - c)
    BY <1>0, <1>2, DifferenceOfCasts
  <2>2. n + 1 - c \in 0 .. (NumberSpace - 1)
    BY <1>0, Space
  <2> QED  BY <2>1, <2>2, CastOfSmall
<1>4. grows
  <2>1. c - (n + 1) \in (1 - SeqHalf) .. (SeqHalf - 1) /\ c < n + 1
    BY <1>0, Space
  <2> QED  BY <1>0, <1>2, <2>1, Order
<1> DEFINE cleared == {Queue!Idx(Queue!SeqAdd(e, j)) : j \in 0 .. (gained - 1)}
<1>5. cleared = {x % R : x \in c .. n}
  <2>1. \A j \in Int : Queue!Idx(Queue!SeqAdd(e, j)) = (c + j) % R
    <3> TAKE j \in Int
    <3> HIDE DEF c
    <3>1. Queue!SeqAdd(e, j) = Queue!Cast(c + j)
      BY <1>0, AddIsCast
    <3>2. c + j \in Int
      BY <1>0
    <3> QED  BY <3>1, <3>2, SlotOfCast
  <2>2. cleared = {(c + j) % R : j \in 0 .. (n - c)}
    <3>1. gained - 1 = n - c
      BY <1>0, <1>3
    <3>2. \A j \in 0 .. (gained - 1) : Queue!Idx(Queue!SeqAdd(e, j)) = (c + j) % R
      BY <2>1
    <3> QED  BY <3>1, <3>2
  <2>3. \A j \in 0 .. (n - c) : c + j \in c .. n
    BY <1>0
  <2>4. \A x \in c .. n : x - c \in 0 .. (n - c) /\ c + (x - c) = x
    BY <1>0
  <2> HIDE DEF cleared
  <2> QED  BY <2>2, <2>3, <2>4
<1> DEFINE wiped == [j \in Queue!Indexes |-> IF j \in cleared THEN [slots[j] EXCEPT !.set = FALSE] ELSE slots[j]]
<1>6. /\ begin' = Queue!Cast(b) /\ count' = m + gained
      /\ slots' = [wiped EXCEPT ![Queue!Idx(Queue!Cast(n))] = Queue!Store(p)]
  BY <1>1, <1>4 DEF Queue!Extend
<1>7. slots' = [wiped EXCEPT ![n % R] = Queue!Store(p)]
  BY <1>6, SlotOfCast
<1>8. count' = n + 1 - b
  BY <1>0, <1>3, <1>6
<1> HIDE DEF cleared, gained, grows
<1>9. wiped \in Slots
  BY DEF QTypes, Slots
<1>10. Queue!Store(p) \in [set : BOOLEAN, user : Packets \cup {NoPacket}]
  BY DEF Queue!Store
<1>11. n % R \in Queue!Indexes
  BY SlotType
<1>12. slots' \in Slots /\ slots'[n % R] = Queue!Store(p)
  BY <1>7, <1>9, <1>10, <1>11 DEF Slots
<1>13. ASSUME NEW x \in b .. (n - 1)
       PROVE  IF x < c THEN slots'[x % R] = slots[x % R] ELSE ~slots'[x % R].set
  <2>1. x % R \in Queue!Indexes
    BY SlotType
  <2>2. x % R # n % R
    <3>1. x - n \in (1 - R) .. (R - 1) /\ x # n
      BY <1>0
    <3> QED  BY <3>1, SlotsDiffer
  <2>3. slots'[x % R] = wiped[x % R]
    BY <1>7, <1>9, <2>1, <2>2 DEF Slots
  <2>4. CASE x < c
    <3>1. \A y \in c .. n : x % R # y % R
      <4> TAKE y \in c .. n
      <4>1. x - y \in (1 - R) .. (R - 1) /\ x # y
        BY <1>0, <2>4
      <4> QED  BY <4>1, SlotsDiffer
    <3>2. x % R \notin cleared
      BY <1>5, <3>1
    <3> QED  BY <2>1, <2>3, <2>4, <3>2
  <2>5. CASE ~(x < c)
    <3>1. x % R \in cleared
      BY <1>0, <1>5, <2>5
    <3>2. slots[x % R] \in [set : BOOLEAN, user : Packets \cup {NoPacket}]
      BY <2>1 DEF QTypes, Slots
    <3>3. wiped[x % R] = [slots[x % R] EXCEPT !.set = FALSE]
      BY <2>1, <3>1
    <3> QED  BY <2>3, <2>5, <3>2, <3>3
  <2> QED  BY <2>4, <2>5
<1> QED  BY <1>6, <1>8, <1>12, <1>13

-----------------------------------------------------------------------------
(* A push *)

(* The packet is dropped, and the queue is what it was.                      *)
Dropped(p, n) ==
  /\ UNCHANGED <<base, begin, count, slots, held, strayed>>
  /\ n < base \/ (\E q \in held : pos[q] = n) \/ n >= base + R

(* The packet is kept: the window may move forward to make room, and then    *)
(* hands back exactly the packets it leaves behind.                          *)
Kept(p, n) ==
  /\ base' \in base .. n /\ begin' = Queue!Cast(base')
  /\ count' \in 0 .. R /\ n < base' + count' /\ base + count <= base' + count'
  /\ slots' \in Slots /\ slots'[n % R] = Queue!Store(p)
  /\ \A x \in Int :
       x # n /\ InWindow(x)' => IF x < base + count THEN slots'[x % R] = slots[x % R] ELSE ~slots'[x % R].set
  /\ \A q \in held : pos[q] # n
  /\ held' = {q \in held : pos[q] >= base'} \cup {p}
  /\ strayed' = strayed

Remembered(p, n) == pos' = [q \in Packets |-> IF q \in held' THEN [pos EXCEPT ![p] = n][q] ELSE 0]

LEMMA OwnedAreBelowEnd ==
  ASSUME QInv, open, NEW q \in held
  PROVE  pos[q] \in Int /\ pos[q] \in base .. (base + count - 1) /\ slots[pos[q] % R] = Queue!Store(q)
BY Space DEF QInv, QTypes, Owned, InWindow

LEMMA DropNewDrops ==
  ASSUME QInv, NEW p \in Packets, p \notin held, NEW n \in Int, Queue!DropNew(p),
         n < base \/ (\E q \in held : pos[q] = n) \/ n >= base + R
  PROVE  Dropped(p, n)
BY DEF Queue!DropNew, Queue!HandBack, Dropped

LEMMA PushInsideCases ==
  ASSUME QInv, open, NEW p \in Packets, p \notin held, NEW n \in Nat,
         n - base \in (1 - SeqHalf) .. (SeqHalf - 1), Queue!PushInside(Queue!Cast(n), p)
  PROVE  Dropped(p, n) \/ Kept(p, n)
<1>1. QTypes /\ base \in Int /\ count \in 0 .. R /\ R \in Nat
  BY Space DEF QInv, QTypes
<1>2. n \in base .. (base + count - 1) /\ Queue!Idx(Queue!Cast(n)) = n % R /\ n % R \in Queue!Indexes
  BY <1>1, Near, SlotOfCast, SlotType DEF Queue!PushInside
<1>3. CASE slots[n % R].set
  <2>1. Queue!DropNew(p)
    BY <1>2, <1>3 DEF Queue!PushInside
  <2>2. slots[n % R].user \in held /\ pos[slots[n % R].user] = n
    <3>1. InWindow(n)
      BY <1>1, <1>2 DEF InWindow
    <3> QED  BY <1>3, <3>1 DEF QInv, Occupied
  <2> QED  BY <2>1, <2>2, DropNewDrops
<1>4. CASE ~slots[n % R].set
  <2>1. slots' = [slots EXCEPT ![n % R] = Queue!Store(p)] /\ UNCHANGED <<begin, count, base>> /\ Queue!HandBack({}, held \cup {p})
    BY <1>2, <1>4 DEF Queue!PushInside
  <2>2. Queue!Store(p) \in [set : BOOLEAN, user : Packets \cup {NoPacket}]
    BY DEF Queue!Store
  <2>3. slots' \in Slots /\ slots'[n % R] = Queue!Store(p)
    BY <1>1, <1>2, <2>1, <2>2 DEF QTypes, Slots
  <2>4. ASSUME NEW x \in base .. (base + count - 1), x # n PROVE slots'[x % R] = slots[x % R]
    <3>1. x - n \in (1 - R) .. (R - 1)
      BY <1>1, <1>2
    <3>2. x % R # n % R /\ x % R \in Queue!Indexes
      BY <3>1, <2>4, SlotsDiffer, SlotType
    <3> QED  BY <1>1, <2>1, <3>2 DEF QTypes, Slots
  <2>5. ASSUME NEW q \in held, pos[q] = n PROVE FALSE
    <3>1. slots[pos[q] % R] = [set |-> TRUE, user |-> q]
      BY OwnedAreBelowEnd DEF Queue!Store
    <3>2. slots[n % R].set
      BY <2>5, <3>1
    <3> QED  BY <1>4, <3>2
  <2>6. held' = {q \in held : pos[q] >= base'} \cup {p} /\ strayed' = strayed
    BY <1>1, <2>1, OwnedAreBelowEnd DEF Queue!HandBack
  <2>7. \A x \in Int :
           x # n /\ InWindow(x)' => IF x < base + count THEN slots'[x % R] = slots[x % R] ELSE ~slots'[x % R].set
    <3> SUFFICES ASSUME NEW x \in Int, x # n, InWindow(x)
                 PROVE  x < base + count /\ slots'[x % R] = slots[x % R]
      BY <2>1 DEF InWindow
    <3>1. x \in base .. (base + count - 1)
      BY <1>1 DEF InWindow
    <3> QED  BY <1>1, <2>4, <3>1
  <2>8. /\ base' \in base .. n /\ begin' = Queue!Cast(base')
        /\ count' \in 0 .. R /\ n < base' + count' /\ base + count <= base' + count'
    BY <1>1, <1>2, <2>1 DEF QTypes
  <2> QED  BY <2>3, <2>5, <2>6, <2>7, <2>8 DEF Kept
<1> QED  BY <1>3, <1>4

LEMMA PushTooOldCases ==
  ASSUME QInv, open, NEW p \in Packets, p \notin held, NEW n \in Nat,
         n - base \in (1 - SeqHalf) .. (SeqHalf - 1), Queue!PushTooOld(Queue!Cast(n), p)
  PROVE  Dropped(p, n)
BY Near, DropNewDrops DEF Queue!PushTooOld, QInv

(* The window keeps m entries from position b on and is extended up to n.    *)
LEMMA ExtendKeeps ==
  ASSUME QInv, open, NEW p \in Packets, NEW n \in Nat, n >= base + count,
         NEW b \in Nat, NEW m \in 0 .. R, base <= b, b <= n, n < b + R, base' = b,
         b + m = base + count \/ (m = 0 /\ b = n),
         Queue!Extend(Queue!Cast(b), m, Queue!Cast(n), p),
         held' = {q \in held : pos[q] >= b} \cup {p}, strayed' = strayed
  PROVE  Kept(p, n)
<1>1. QTypes /\ base \in Int /\ count \in 0 .. R /\ R \in Nat /\ m \in Int
  BY Space DEF QInv, QTypes
<1>2. b + m <= n
  BY <1>1
<1>3. /\ begin' = Queue!Cast(b) /\ count' = n + 1 - b
      /\ slots' \in Slots /\ slots'[n % R] = Queue!Store(p)
      /\ \A x \in b .. (n - 1) : IF x < b + m THEN slots'[x % R] = slots[x % R]
                                              ELSE ~slots'[x % R].set
  BY <1>1, <1>2, Extends
<1>4. \A x \in Int :
         x # n /\ InWindow(x)' => IF x < base + count THEN slots'[x % R] = slots[x % R] ELSE ~slots'[x % R].set
  <2> SUFFICES ASSUME NEW x \in b .. n, x # n
               PROVE  IF x < base + count THEN slots'[x % R] = slots[x % R] ELSE ~slots'[x % R].set
    <3> SUFFICES ASSUME NEW x \in Int, x # n, InWindow(x)'
                 PROVE  x \in b .. n
      OBVIOUS
    <3>1. b <= x /\ x < b + count'
      BY DEF InWindow
    <3> QED  BY <1>1, <1>3, <3>1
  <2>1. x \in b .. (n - 1)
    BY <1>1
  <2>2. b + m = base + count
    BY <1>1, <2>1
  <2> QED  BY <1>3, <2>1, <2>2
<1>5. \A q \in held : pos[q] # n
  BY <1>1, OwnedAreBelowEnd
<1>6. /\ base' \in base .. n /\ begin' = Queue!Cast(base')
      /\ count' \in 0 .. R /\ n < base' + count' /\ base + count <= base' + count'
  BY <1>1, <1>3
<1> QED  BY <1>3, <1>4, <1>5, <1>6 DEF Kept

(* The packets handed back when the first k entries leave.                   *)
LEMMA FrontUsers ==
  ASSUME QInv, open, NEW k \in 0 .. count
  PROVE  {Queue!Entry(j).user : j \in {l \in 0 .. (k - 1) : Queue!Entry(l).set}}
           = {q \in held : pos[q] < base + k}
<1>1. QTypes /\ base \in Int /\ count \in Int /\ k \in Int
  BY Space DEF QInv, QTypes
<1>2. \A j \in Int : Queue!Entry(j) = slots[(base + j) % R]
  <2> TAKE j \in Int
  <2>1. Queue!SeqAdd(begin, j) = Queue!Cast(base + j) /\ base + j \in Int
    BY <1>1, AddIsCast DEF QTypes
  <2> QED  BY <2>1, SlotOfCast DEF Queue!Entry
<1>3. ASSUME NEW j \in 0 .. (k - 1), Queue!Entry(j).set
      PROVE  Queue!Entry(j).user \in held /\ pos[Queue!Entry(j).user] < base + k
  <2>1. base + j \in base .. (base + count - 1) /\ base + j < base + k
    BY <1>1
  <2> QED  BY <1>1, <1>2, <1>3, <2>1 DEF QInv, Occupied, InWindow
<1>4. ASSUME NEW q \in held, pos[q] < base + k
      PROVE  /\ pos[q] - base \in 0 .. (k - 1)
             /\ Queue!Entry(pos[q] - base).set /\ Queue!Entry(pos[q] - base).user = q
  <2>1. pos[q] \in Int /\ pos[q] \in base .. (base + count - 1) /\ slots[pos[q] % R] = Queue!Store(q)
    BY OwnedAreBelowEnd
  <2>2. pos[q] - base \in 0 .. (k - 1) /\ base + (pos[q] - base) = pos[q]
    BY <1>1, <1>4, <2>1
  <2> QED  BY <1>1, <1>2, <2>1, <2>2 DEF Queue!Store
<1> QED  BY <1>3, <1>4

LEMMA PushBeyondCases ==
  ASSUME QInv, open, NEW p \in Packets, p \notin held, NEW n \in Nat,
         n - base \in (1 - SeqHalf) .. (SeqHalf - 1), Queue!PushBeyond(Queue!Cast(n), n, p)
  PROVE  Dropped(p, n) \/ Kept(p, n)
<1>1. QTypes /\ base \in Nat /\ count \in 0 .. R /\ R \in Nat /\ begin = Queue!Cast(base)
  BY Space DEF QInv, QTypes
<1>2. n >= base + count
  BY <1>1, Near DEF Queue!PushBeyond
<1>3. n - base < SeqHalf
  BY <1>1, Space
<1>4. Queue!DoesNotFit(Queue!Cast(n), 0) <=> base + R <= n
  BY <1>1, <1>2, <1>3, FitsByPosition
<1>5. CASE ~Queue!DoesNotFit(Queue!Cast(n), 0)
  <2>1. Queue!Extend(begin, count, Queue!Cast(n), p) /\ base' = base /\ Queue!HandBack({}, held \cup {p})
    BY <1>5 DEF Queue!PushBeyond
  <2>2. held' = {q \in held : pos[q] >= base} \cup {p} /\ strayed' = strayed
    BY <1>1, <2>1, OwnedAreBelowEnd DEF Queue!HandBack
  <2>3. n < base + R
    BY <1>1, <1>4, <1>5
  <2> QED  BY <1>1, <1>2, <2>1, <2>2, <2>3, ExtendKeeps
<1>6. CASE Queue!DoesNotFit(Queue!Cast(n), 0) /\ strategy = "END"
  BY <1>4, <1>6, DropNewDrops DEF Queue!PushBeyond
<1>7. CASE Queue!DoesNotFit(Queue!Cast(n), 0) /\ strategy = "BEGIN"
  <2> DEFINE k == Queue!FrontDrops(Queue!Cast(n))
             users == {Queue!Entry(j).user : j \in {l \in 0 .. (k - 1) : Queue!Entry(l).set}}
  <2>1. IF k = count
          THEN Queue!Extend(Queue!Cast(n), 0, Queue!Cast(n), p) /\ base' = n
          ELSE Queue!Extend(Queue!Advance(begin, k), count - k, Queue!Cast(n), p) /\ base' = base + k
    BY <1>7 DEF Queue!PushBeyond
  <2>2. Queue!HandBack(users, held \cup {p})
    BY <1>7 DEF Queue!PushBeyond
  <2>3. k \in 0 .. count /\ (k # count => k = n + 1 - base - R)
    BY <1>1, <1>2, <1>3, <1>4, <1>7, Front
  <2> HIDE DEF k
  <2>4. users = {q \in held : pos[q] < base + k}
    BY <2>3, FrontUsers
  <2> HIDE DEF users
  <2>5. held' = (held \cup {p}) \ users /\ strayed' = strayed \cup (users \ (held \cup {p}))
    BY <2>2 DEF Queue!HandBack
  <2>6. held' = {q \in held : pos[q] >= base + k} \cup {p} /\ strayed' = strayed
    BY <1>1, <2>3, <2>4, <2>5, OwnedAreBelowEnd
  <2>7. CASE k = count
    <3>1. {q \in held : pos[q] >= base + k} = {q \in held : pos[q] >= n}
      BY <1>1, <1>2, <2>7, OwnedAreBelowEnd
    <3> QED  BY <1>1, <1>2, <1>3, Space, <2>1, <2>6, <2>7, <3>1, ExtendKeeps
  <2>8. CASE k # count
    <3>1. k = n + 1 - base - R /\ k \in 1 .. count
      BY <1>1, <1>4, <1>7, <2>3, <2>8
    <3>2. Queue!Advance(begin, k) = Queue!Cast(base + k)
      <4>1. Queue!SeqAdd(begin + k - 1, 1) = Queue!Cast(base + k)
        <5> DEFINE c == begin + k - 1
        <5>1. begin \in Int /\ k - 1 \in Int /\ base \in Int /\ base + (k - 1) \in Int
          BY <1>1, <3>1, CastType
        <5>2. c \in Int /\ c = Queue!Cast(base) + (k - 1)
          BY <1>1, <5>1
        <5>3. Queue!Cast(Queue!Cast(base) + (k - 1)) = Queue!Cast(base + (k - 1))
          BY <5>1, Space, RemainderOfSum DEF Queue!Cast
        <5> HIDE DEF c
        <5>4. Queue!Cast(c) = Queue!Cast(base + (k - 1))
          BY <5>2, <5>3
        <5>5. Queue!Cast(Queue!Cast(c)) = Queue!Cast(c)
          BY <5>2, CastType
        <5>6. Queue!SeqAdd(c, 1) = Queue!SeqAdd(Queue!Cast(c), 1)
          BY <5>5 DEF Queue!SeqAdd
        <5>7. Queue!SeqAdd(Queue!Cast(base + (k - 1)), 1) = Queue!Cast(base + (k - 1) + 1)
          BY <5>1, AddIsCast
        <5>8. base + (k - 1) + 1 = base + k
          BY <5>1, <3>1
        <5> QED  BY <5>4, <5>6, <5>7, <5>8 DEF c
      <4> QED  BY <4>1, <3>1 DEF Queue!Advance
    <3>3. Queue!Extend(Queue!Cast(base + k), count - k, Queue!Cast(n), p) /\ base' = base + k
      BY <2>1, <2>8, <3>2
    <3>4. /\ base + k \in Nat /\ count - k \in 0 .. R /\ base <= base + k /\ base + k <= n
          /\ n < (base + k) + R /\ (base + k) + (count - k) = base + count
      BY <1>1, <1>2, <3>1
    <3> DEFINE b == base + k
               m == count - k
    <3> HIDE DEF b, m
    <3>5. /\ b \in Nat /\ m \in 0 .. R /\ base <= b /\ b <= n /\ n < b + R /\ b + m = base + count
          /\ base' = b /\ Queue!Extend(Queue!Cast(b), m, Queue!Cast(n), p)
          /\ held' = {q \in held : pos[q] >= b} \cup {p} /\ strayed' = strayed
      BY <2>6, <3>3, <3>4 DEF b, m
    <3> QED  BY <1>2, <3>5, ExtendKeeps
  <2> QED  BY <2>7, <2>8
<1> QED  BY <1>1, <1>5, <1>6, <1>7 DEF QTypes

-----------------------------------------------------------------------------
(* The steps of the queue *)

LEMMA PushCases ==
  ASSUME QInv, NEW p \in Packets, NEW n \in 0 .. MaxPos, Queue!Push(p, n)
  PROVE  /\ open /\ p \notin held /\ UNCHANGED <<strategy, open, pulled>>
         /\ n - base \in (1 - SeqHalf) .. (SeqHalf - 1)
         /\ Remembered(p, n)
         /\ Dropped(p, n) \/ Kept(p, n)
<1>1. open /\ p \notin held /\ UNCHANGED <<strategy, open, pulled>>
  BY DEF Queue!Push
<1>2. n - base \in (1 - SeqHalf) .. (SeqHalf - 1) /\ n \in Nat
  BY DEF Queue!Push, Queue!SeqHalf, SeqHalf
<1>3. Remembered(p, n)
  BY DEF Queue!Push, Queue!Remember, Remembered
<1>4. \/ Queue!PushInside(Queue!Cast(n), p) \/ Queue!PushTooOld(Queue!Cast(n), p)
      \/ Queue!PushBeyond(Queue!Cast(n), n, p)
  BY DEF Queue!Push
<1>5. Dropped(p, n) \/ Kept(p, n)
  BY <1>1, <1>2, <1>4, PushInsideCases, PushTooOldCases, PushBeyondCases
<1> QED  BY <1>1, <1>2, <1>3, <1>5

LEMMA KeptKeeps ==
  ASSUME QInv, NEW p \in Packets, NEW n \in 0 .. MaxPos, open, p \notin held,
         UNCHANGED <<strategy, open, pulled>>, Kept(p, n),
         Remembered(p, n)
  PROVE  QInv'
<1>1. QTypes /\ base \in Nat /\ count \in 0 .. R /\ R \in Nat /\ n \in Nat /\ base' \in Nat
      /\ count' \in Int /\ base' >= base /\ base' <= n
  BY Space DEF QInv, QTypes, Kept
<1>2. held' \subseteq Packets /\ p \in held' /\ pos' \in [Packets -> 0 .. MaxPos]
  <2>1. held' \subseteq Packets /\ p \in held'
    BY DEF Kept, QInv, QTypes
  <2>2. [pos EXCEPT ![p] = n] \in [Packets -> 0 .. MaxPos] /\ 0 \in 0 .. MaxPos
    BY QueueAssumption DEF QInv, QTypes
  <2> QED  BY <2>1, <2>2 DEF Remembered
<1>3. pos'[p] = n /\ \A q \in held' : q # p => q \in held /\ pos'[q] = pos[q] /\ pos[q] >= base'
  BY <1>1, <1>2 DEF Kept, QInv, QTypes, Remembered
<1>4. \A q \in held : q # p
  OBVIOUS
<1>5. QTypes'
  BY <1>1, <1>2 DEF Kept, QTypes, Slots
<1>6. ASSUME NEW q \in held' PROVE Owned(q)'
  <2>1. CASE q = p
    <3>0. n < base' + count'
      BY DEF Kept
    <3>1. InWindow(pos[p])'
      BY <1>1, <1>3, <3>0 DEF InWindow
    <3>2. slots'[pos'[p] % R] = Queue!Store(p)
      BY <1>3 DEF Kept
    <3> QED  BY <2>1, <3>1, <3>2 DEF Owned, Queue!Store
  <2>2. CASE q # p
    <3>1. q \in held /\ pos'[q] = pos[q] /\ pos[q] >= base'
      BY <1>3, <2>2
    <3>2. pos[q] \in Int /\ pos[q] < base + count /\ slots[pos[q] % R] = Queue!Store(q)
      BY <1>1, <3>1, OwnedAreBelowEnd
    <3>3. base + count <= base' + count' /\ pos[q] # n
      BY <3>1 DEF Kept
    <3>4. InWindow(pos[q])'
      BY <1>1, <3>1, <3>2, <3>3 DEF InWindow
    <3>5. base' <= pos[q] /\ pos[q] < base' + count'
      BY <3>1, <3>4 DEF InWindow
    <3>6. slots'[pos[q] % R] = slots[pos[q] % R]
      BY <3>2, <3>3, <3>5 DEF Kept, InWindow
    <3> QED  BY <1>1, <3>1, <3>2, <3>4, <3>6 DEF Owned, Queue!Store
  <2> QED  BY <2>1, <2>2
<1>7. ASSUME NEW x \in Int, InWindow(x)' PROVE Occupied(x)'
  <2>1. CASE x = n
    BY <1>2, <1>3, <2>1 DEF Kept, Occupied, Queue!Store
  <2>2. CASE x # n /\ x < base + count
    <3>1. slots'[x % R] = slots[x % R]
      BY <1>7, <2>2 DEF Kept
    <3>0. InWindow(x)
      BY <1>1, <1>7, <2>2 DEF InWindow
    <3>2. slots[x % R].set => slots[x % R].user \in held /\ pos[slots[x % R].user] = x
      BY <3>0 DEF QInv, Occupied
    <3>3. base' <= x
      BY <1>7 DEF InWindow
    <3>4. \A q \in held : pos[q] = x => q \in held' /\ pos'[q] = x
      BY <1>1, <1>3, <1>4, <3>3 DEF Kept
    <3>5. slots[x % R].set => slots[x % R].user \in held' /\ pos'[slots[x % R].user] = x
      BY <3>2, <3>4
    <3> QED  BY <3>1, <3>5 DEF Occupied
  <2>3. CASE x # n /\ ~(x < base + count)
    BY <1>7, <2>3 DEF Kept, Occupied
  <2> QED  BY <2>1, <2>2, <2>3
<1>8. strayed' = {} /\ (~open' => held' = {}) /\ pulled' < base' /\ pulled' \in Int
  BY <1>1 DEF QInv, Kept
<1> QED  BY <1>5, <1>6, <1>7, <1>8 DEF QInv

LEMMA DroppedKeeps ==
  ASSUME QInv, NEW p \in Packets, NEW n \in 0 .. MaxPos, open, p \notin held,
         UNCHANGED <<strategy, open, pulled>>, Dropped(p, n),
         Remembered(p, n)
  PROVE  QInv' /\ \A q \in held : pos'[q] = pos[q]
<1>1. QTypes /\ held' = held /\ UNCHANGED <<base, begin, count, slots, strayed>>
  BY DEF QInv, Dropped
<1>2. \A q \in held : pos'[q] = pos[q]
  BY <1>1 DEF QTypes, Remembered
<1>3. pos' \in [Packets -> 0 .. MaxPos]
  <2>1. [pos EXCEPT ![p] = n] \in [Packets -> 0 .. MaxPos] /\ 0 \in 0 .. MaxPos
    BY <1>1, QueueAssumption DEF QTypes
  <2> QED  BY <2>1 DEF Remembered
<1>4. QTypes'
  BY <1>1, <1>3 DEF QTypes, Slots
<1>5. \A q \in held' : Owned(q)'
  BY <1>1, <1>2 DEF QInv, Owned, InWindow, Queue!Store
<1>6. \A x \in Int : InWindow(x)' => Occupied(x)'
  BY <1>1, <1>2 DEF QInv, Occupied, InWindow
<1> QED  BY <1>1, <1>2, <1>4, <1>5, <1>6 DEF QInv

(* The slot at the front of an open queue that can be pulled.                *)
LEMMA FrontOfWindow ==
  ASSUME QInv, open, Queue!CanPull
  PROVE  /\ count > 0 /\ slots[Queue!Idx(begin)].user \in held
         /\ pos[slots[Queue!Idx(begin)].user] = base
<1>1. QTypes /\ base \in Int /\ count \in 0 .. R /\ R \in Nat /\ Queue!Idx(begin) = base % R
  BY Space, SlotOfCast DEF QInv, QTypes
<1>2. count > 0 /\ slots[base % R].set /\ base \in base .. (base + count - 1)
  BY <1>1 DEF Queue!CanPull
<1> QED  BY <1>1, <1>2 DEF QInv, Occupied, InWindow

LEMMA PullStep ==
  ASSUME QInv, Queue!Pull
  PROVE  \E e \in held : /\ pos[e] = base /\ held' = held \ {e} /\ base' = base + 1
                         /\ pulled' = base /\ \A q \in held' : pos'[q] = pos[q]
BY FrontOfWindow DEF Queue!Pull, Queue!HandBack, Queue!Remember, QInv, QTypes

LEMMA PullKeeps ==
  ASSUME QInv, Queue!Pull
  PROVE  QInv'
<1>1. QTypes /\ base \in Nat /\ count \in 0 .. R /\ R \in Nat /\ open /\ open' /\ count > 0
      /\ count' = count - 1 /\ UNCHANGED <<slots, strategy, open>>
  BY Space, FrontOfWindow DEF QInv, QTypes, Queue!Pull
<1>2. PICK e \in held : /\ pos[e] = base /\ held' = held \ {e} /\ base' = base + 1
                        /\ pulled' = base /\ \A q \in held' : pos'[q] = pos[q]
  BY PullStep
<1>3. begin' = Queue!Cast(base')
  BY <1>1, <1>2, AddIsCast DEF Queue!Pull, QTypes
<1>4. strayed' = {}
  BY <1>1, FrontOfWindow DEF QInv, Queue!Pull, Queue!HandBack
<1>5. pos' \in [Packets -> 0 .. MaxPos]
  <2>1. pos' = [q \in Packets |-> IF q \in held' THEN pos[q] ELSE 0]
    BY DEF Queue!Pull, Queue!Remember
  <2> QED  BY <1>1, <2>1, QueueAssumption DEF QTypes
<1>6. QTypes'
  BY <1>1, <1>2, <1>3, <1>5 DEF QTypes, Slots
<1>7. ASSUME NEW q \in held' PROVE Owned(q)' /\ pos[q] # base
  <2>1. q \in held /\ q # e /\ pos'[q] = pos[q]
    BY <1>2
  <2>2. /\ slots[pos[q] % R] = Queue!Store(q) /\ slots[pos[e] % R] = Queue!Store(e)
        /\ pos[q] \in base .. (base + count - 1)
    BY <1>1, <2>1, OwnedAreBelowEnd
  <2>3. pos[q] # base
    BY <1>2, <2>1, <2>2 DEF Queue!Store
  <2> QED  BY <1>1, <1>2, <2>1, <2>2, <2>3 DEF Owned, InWindow, Queue!Store
<1>8. ASSUME NEW x \in Int, InWindow(x)' PROVE Occupied(x)'
  <2>1. x \in base .. (base + count - 1) /\ x # base
    BY <1>1, <1>2, <1>8 DEF InWindow
  <2>2. slots[x % R].set => slots[x % R].user \in held /\ pos[slots[x % R].user] = x
    <3>1. InWindow(x)
      BY <1>1, <2>1 DEF InWindow
    <3>2. Occupied(x)
      BY <1>1, <3>1 DEF QInv
    <3> QED  BY <3>2 DEF Occupied
  <2>3. slots[x % R].set => slots[x % R].user \in held' /\ pos'[slots[x % R].user] = x
    BY <1>2, <2>1, <2>2
  <2> QED  BY <1>1, <2>3 DEF Occupied
<1> QED  BY <1>1, <1>2, <1>4, <1>6, <1>7, <1>8 DEF QInv

LEMMA FiniStep ==
  ASSUME QInv, Queue!Fini
  PROVE  QInv' /\ held' = {} /\ base' = base
<1>1. QTypes /\ open /\ open' = FALSE /\ UNCHANGED <<begin, count, slots, strategy, base, pulled>>
      /\ count \in 0 .. R /\ base \in Int /\ R \in Nat
  BY Space DEF QInv, QTypes, Queue!Fini
<1> DEFINE users == {Queue!Entry(j).user : j \in {l \in 0 .. (count - 1) : Queue!Entry(l).set}}
<1>2. Queue!HandBack(users, held)
  BY DEF Queue!Fini, Queue!Window
<1>3. users = {q \in held : pos[q] < base + count}
  <2>1. count \in 0 .. count
    BY <1>1
  <2> QED  BY <1>1, <2>1, FrontUsers
<1> HIDE DEF users
<1>4. users = held
  BY <1>1, <1>3, OwnedAreBelowEnd
<1>5. held' = {} /\ strayed' = {}
  BY <1>2, <1>4 DEF Queue!HandBack, QInv
<1>6. pos' \in [Packets -> 0 .. MaxPos]
  <2>1. pos' = [q \in Packets |-> IF q \in held' THEN pos[q] ELSE 0]
    BY DEF Queue!Fini, Queue!Remember
  <2> QED  BY <1>1, <2>1, QueueAssumption DEF QTypes
<1>7. QTypes'
  BY <1>1, <1>5, <1>6 DEF QTypes, Slots
<1> QED  BY <1>1, <1>5, <1>7 DEF QInv

LEMMA StrategyStep ==
  ASSUME QInv, NEW s \in Strategies, Queue!SetDropStrategy(s)
  PROVE  QInv' /\ UNCHANGED <<base, pos, held>>
<1>1. UNCHANGED <<begin, count, slots, open, base, pos, held, back, pulled, strayed>> /\ strategy' \in {"BEGIN", "END"}
  BY QueueAssumption DEF Queue!SetDropStrategy
<1>2. QTypes'
  BY <1>1 DEF QInv, QTypes, Slots
<1> QED  BY <1>1, <1>2 DEF QInv, Owned, Occupied, InWindow, Queue!Store

-----------------------------------------------------------------------------
(* The invariant *)

LEMMA QueueAtRest == ASSUME Queue!AtRest \/ Queue!Init PROVE QInv
<1>1. StartPos \in Nat /\ StartPos \in 0 .. MaxPos /\ 0 \in 0 .. MaxPos
  BY QueueAssumption
<1>2. slots \in Slots
  <2>1. Queue!EmptySlot \in [set : BOOLEAN, user : Packets \cup {NoPacket}]
    BY DEF Queue!EmptySlot
  <2>2. slots = [j \in Queue!Indexes |-> Queue!EmptySlot]
    BY DEF Queue!AtRest, Queue!Init
  <2> QED  BY <2>1, <2>2 DEF Slots
<1>3. QTypes
  <2>1. pos \in [Packets -> 0 .. MaxPos] /\ held = {} /\ strategy = "END" /\ open \in BOOLEAN
    BY <1>1 DEF Queue!AtRest, Queue!Init
  <2>2. base = StartPos /\ begin = Queue!Cast(base) /\ count = 0 /\ 0 \in 0 .. R
    BY <1>1, Space DEF Queue!AtRest, Queue!Init
  <2> QED  BY <1>1, <1>2, <2>1, <2>2 DEF QTypes
<1>4. /\ base \in Nat /\ count = 0 /\ held = {} /\ strayed = {} /\ pulled = -1
  BY <1>1 DEF Queue!AtRest, Queue!Init
<1>5. \A x \in Int : ~InWindow(x)
  BY <1>4 DEF InWindow
<1>6. pulled < base /\ pulled \in Int
  BY <1>4
<1> QED  BY <1>3, <1>4, <1>5, <1>6 DEF QInv

LEMMA QueueSteps ==
  ASSUME QInv, [MCNext]_<<vars, queueVars, bufferVars, loopVars>>
  PROVE  Queue!Next \/ UNCHANGED queueVars
BY DEF MCNext, vars, queueVars, bufferVars, loopVars

LEMMA QueueInvariantStep ==
  ASSUME QInv, [MCNext]_<<vars, queueVars, bufferVars, loopVars>>
  PROVE  QInv'
<1>1. CASE \E p \in Packets, n \in 0 .. MaxPos : Queue!Push(p, n)
  BY <1>1, PushCases, KeptKeeps, DroppedKeeps
<1>2. CASE Queue!Pull
  BY <1>2, PullKeeps
<1>3. CASE \E s \in Strategies : Queue!SetDropStrategy(s)
  BY <1>3, StrategyStep
<1>4. CASE Queue!Fini
  BY <1>4, FiniStep
<1>5. CASE UNCHANGED queueVars
  BY <1>5 DEF queueVars, QInv, QTypes, Slots, Owned, Occupied, InWindow, Queue!Store
<1> QED  BY <1>1, <1>2, <1>3, <1>4, <1>5, QueueSteps DEF Queue!Next

(* The window stands for consecutive positions and the ring holds exactly    *)
(* the packets the queue owns, each in the slot of its position.             *)
THEOREM QueueInvariant == MCSpec => []QInv
<1>1. MCInit => QInv
  BY QueueAtRest DEF MCInit
<1> QED  BY <1>1, QueueInvariantStep, PTL DEF MCSpec

LEMMA PushAsserts == ASSUME QInv PROVE Queue!PushAssertion
<1>1. QTypes /\ base \in Int /\ begin = Queue!Cast(base) /\ begin \in Int /\ base + count \in Int /\ count \in 0 .. R
  BY Space, CastType DEF QInv, QTypes
<1> SUFFICES ASSUME NEW seq \in 0 .. (NumberSpace - 1), ~Queue!InWindow(seq), ~Queue!TooOld(seq),
                    Queue!Cast(seq - begin) # SeqHalf
             PROVE  Queue!SeqGe(seq, Queue!End)
  BY DEF Queue!PushAssertion, Queue!SeqNums, Queue!SeqHalf, SeqHalf
<1> DEFINE d == Queue!Cast(seq - begin)
           n == IF d < SeqHalf THEN base + d ELSE base + d - NumberSpace
<1>2. d \in 0 .. (NumberSpace - 1) /\ d # SeqHalf
  BY <1>1, Space, CastType
<1>3. n \in Int /\ n - base \in (1 - SeqHalf) .. (SeqHalf - 1)
  BY <1>1, <1>2, Space
<1>4. Queue!Cast(n) = seq
  <2> DEFINE x == (seq - begin) \div NumberSpace
             y == base \div NumberSpace
  <2>1. x \in Int /\ seq - begin \in Int /\ seq - begin = x * NumberSpace + d
    BY <1>1, Space, Division DEF Queue!Cast
  <2>2. y \in Int /\ base = y * NumberSpace + begin
    BY <1>1, Space, Division DEF Queue!Cast
  <2> HIDE DEF d, x, y
  <2>3. NumberSpace \in Int /\ x * NumberSpace \in Int /\ y * NumberSpace \in Int
    BY <2>1, <2>2, Space
  <2>4. base + d = (y - x) * NumberSpace + seq
    <3>1. (y - x) * NumberSpace = y * NumberSpace - x * NumberSpace
      BY <2>1, <2>2, Space
    <3> QED  BY <1>1, <1>2, <2>1, <2>2, <2>3, <3>1
  <2>5. base + d - NumberSpace = (y - x - 1) * NumberSpace + seq
    <3>1. (y - x - 1) * NumberSpace = (y - x) * NumberSpace - NumberSpace /\ (y - x) * NumberSpace \in Int
      BY <2>1, <2>2, Space
    <3> QED  BY <1>1, <1>2, <2>3, <2>4, <3>1
  <2>6. base + d \in Int /\ base + d - NumberSpace \in Int /\ y - x \in Int /\ y - x - 1 \in Int
    BY <1>1, <1>2, <2>1, <2>2, Space
  <2>7. Queue!Cast(base + d) = seq
    <3> DEFINE c == base + d
               z == y - x
    <3>1. c \in Int /\ z \in Int /\ c = z * NumberSpace + seq
      BY <2>4, <2>6
    <3> HIDE DEF c, z
    <3>2. c % NumberSpace = seq
      BY <3>1, Space, RemainderUnique
    <3> QED  BY <3>2 DEF c, Queue!Cast
  <2>8. Queue!Cast(base + d - NumberSpace) = seq
    <3> DEFINE c == base + d - NumberSpace
               z == y - x - 1
    <3>1. c \in Int /\ z \in Int /\ c = z * NumberSpace + seq
      BY <2>5, <2>6
    <3> HIDE DEF c, z
    <3>2. c % NumberSpace = seq
      BY <3>1, Space, RemainderUnique
    <3> QED  BY <3>2 DEF c, Queue!Cast
  <2> QED  BY <2>7, <2>8
<1> HIDE DEF n
<1>5. n >= base + count
  <2>1. ~(n \in base .. (base + count - 1)) /\ ~(n < base)
    BY <1>1, <1>3, <1>4, Near
  <2> QED  BY <1>1, <1>3, <2>1
<1>6. n - (base + count) \in (1 - SeqHalf) .. (SeqHalf - 1)
  BY <1>1, <1>3, <1>5, Space
<1>7. /\ Queue!SeqGt(Queue!Cast(n), Queue!Cast(base + count)) <=> n > base + count
      /\ Queue!Cast(n) = Queue!Cast(base + count) <=> n = base + count
  BY <1>1, <1>3, <1>6, Order
<1> QED  BY <1>1, <1>3, <1>4, <1>5, <1>7, EndIsCast DEF Queue!SeqGe

LEMMA HeldAreInPlace == ASSUME QInv PROVE Queue!HeldAtItsPosition
<1> SUFFICES ASSUME open, NEW p \in held
             PROVE  pos[p] - base \in 0 .. (count - 1) /\ Queue!Entry(pos[p] - base) = Queue!Store(p)
  BY DEF Queue!HeldAtItsPosition, Queue!Window
<1>1. base \in Int /\ begin = Queue!Cast(base) /\ count \in Int
  BY Space DEF QInv, QTypes
<1>2. pos[p] \in Int /\ pos[p] \in base .. (base + count - 1) /\ slots[pos[p] % R] = Queue!Store(p)
  BY OwnedAreBelowEnd
<1> DEFINE d == pos[p] - base
<1>3. d \in Int /\ base + d = pos[p] /\ d \in 0 .. (count - 1)
  BY <1>1, <1>2
<1> HIDE DEF d
<1>4. Queue!SeqAdd(begin, d) = Queue!Cast(pos[p])
  BY <1>1, <1>3, AddIsCast
<1>5. Queue!Entry(d) = slots[pos[p] % R]
  BY <1>2, <1>4, SlotOfCast DEF Queue!Entry
<1> QED  BY <1>2, <1>3, <1>5 DEF d

(* takion's queue trusts its numbers: what is neither in the window nor old  *)
(* lies past its end, as chiaki_reorder_queue_push asserts; every packet it  *)
(* owns is in the slot of its position, is handed back once, and none is     *)
(* left behind by chiaki_reorder_queue_fini.                                 *)
THEOREM QueueSound == MCSpec => []QueueIsSound
<1>1. QInv => QueueIsSound
  <2> SUFFICES ASSUME QInv PROVE QueueIsSound
    OBVIOUS
  <2>1. Queue!HandedBackOnce
    BY DEF QInv, Queue!HandedBackOnce
  <2> QED  BY <2>1, PushAsserts, HeldAreInPlace DEF QueueIsSound
<1> QED  BY <1>1, QueueInvariant, PTL

-----------------------------------------------------------------------------
(* What the queue promises *)

Stash == {[pos |-> pos[p], packet |-> p] : p \in held}

LEMMA PushAccepts ==
  ASSUME QInv, NEW p \in Packets, NEW n \in 0 .. MaxPos, open, p \notin held, Kept(p, n),
         Remembered(p, n)
  PROVE  Queue!Abstract!Accept([pos |-> n, packet |-> p])
<1> DEFINE e == [pos |-> n, packet |-> p]
<1>1. QTypes /\ base \in Int /\ count \in 0 .. R /\ R \in Nat /\ n \in Int
  BY Space DEF QInv, QTypes
<1>2. base' \in base .. n /\ n < base' + R
  <2>1. base' \in base .. n /\ n < base' + count' /\ count' \in 0 .. R
    BY DEF Kept
  <2>2. base' \in Int /\ count' \in Int /\ count' <= R
    BY <1>1, <2>1
  <2> DEFINE b == base'
             c == count'
  <2>3. b \in Int /\ c \in Int /\ c <= R /\ n < b + c
    BY <2>1, <2>2
  <2> HIDE DEF b, c
  <2>4. n < b + R
    BY <1>1, <2>3
  <2> QED  BY <2>1, <2>4 DEF b
<1>3. held' = {q \in held : pos[q] >= base'} \cup {p} /\ \A q \in held : pos[q] # n /\ q # p
  BY DEF Kept
<1>4. \A q \in held' : pos'[q] = IF q = p THEN n ELSE pos[q]
  BY <1>1, <1>3 DEF QTypes, Remembered
<1>5. \A w \in Stash : w.pos # e.pos /\ w.packet # e.packet
  BY <1>3 DEF Stash
<1>6. Stash' = {w \in Stash : w.pos >= base'} \cup {e}
  <2>1. ASSUME NEW w \in Stash' PROVE w \in {v \in Stash : v.pos >= base'} \cup {e}
    <3>1. PICK q \in held' : w = [pos |-> pos'[q], packet |-> q]
      BY DEF Stash
    <3>2. CASE q = p
      BY <1>3, <1>4, <3>1, <3>2
    <3>3. CASE q # p
      <4>1. q \in held /\ pos[q] >= base' /\ w = [pos |-> pos[q], packet |-> q]
        BY <1>3, <1>4, <3>1, <3>3
      <4> QED  BY <4>1 DEF Stash
    <3> QED  BY <3>2, <3>3
  <2>2. ASSUME NEW w \in Stash, w.pos >= base' PROVE w \in Stash'
    <3>1. PICK q \in held : w = [pos |-> pos[q], packet |-> q]
      BY DEF Stash
    <3>2. q \in held' /\ pos'[q] = pos[q]
      BY <1>3, <1>4, <2>2, <3>1
    <3> QED  BY <3>1, <3>2 DEF Stash
  <2>3. e \in Stash'
    <3>1. p \in held' /\ pos'[p] = n
      BY <1>3, <1>4
    <3> QED  BY <3>1 DEF Stash
  <2> QED  BY <2>1, <2>2, <2>3
<1> QED  BY <1>1, <1>2, <1>5, <1>6 DEF Queue!Abstract!Accept, Stash, R

LEMMA SameStash ==
  ASSUME base' = base, held' = held, \A q \in held : pos'[q] = pos[q]
  PROVE  UNCHANGED Queue!Abstract!vars
BY DEF Queue!Abstract!vars

LEMMA AbstractStep ==
  ASSUME QInv, [MCNext]_<<vars, queueVars, bufferVars, loopVars>>
  PROVE  [Queue!Abstract!Next]_(Queue!Abstract!vars)
<1>1. ASSUME NEW p \in Packets, NEW n \in 0 .. MaxPos, Queue!Push(p, n)
      PROVE  [Queue!Abstract!Next]_(Queue!Abstract!vars)
  <2>1. /\ open /\ p \notin held /\ UNCHANGED <<strategy, open, pulled>>
        /\ Remembered(p, n)
        /\ Dropped(p, n) \/ Kept(p, n)
    BY <1>1, PushCases
  <2>2. CASE Dropped(p, n)
    <3>1. \A q \in held : pos'[q] = pos[q]
      BY <2>1, <2>2, DroppedKeeps
    <3> QED  BY <2>2, <3>1, SameStash DEF Dropped
  <2>3. CASE Kept(p, n)
    <3>1. Queue!Abstract!Accept([pos |-> n, packet |-> p])
      BY <2>1, <2>3, PushAccepts
    <3>2. [pos |-> n, packet |-> p] \in Queue!Abstract!Entries
      BY DEF Queue!Abstract!Entries
    <3> QED  BY <3>1, <3>2 DEF Queue!Abstract!Next
  <2> QED  BY <2>1, <2>2, <2>3
<1>2. CASE Queue!Pull
  <2>1. PICK e \in held : /\ pos[e] = base /\ held' = held \ {e} /\ base' = base + 1
                          /\ \A q \in held' : pos'[q] = pos[q]
    BY <1>2, PullStep
  <2> DEFINE w == [pos |-> pos[e], packet |-> e]
  <2>2. w \in Stash /\ w.pos = base
    BY <2>1 DEF Stash
  <2>3. Stash' = Stash \ {w}
    <3>1. Stash' = {[pos |-> pos[q], packet |-> q] : q \in held'}
      BY <2>1 DEF Stash
    <3> QED  BY <2>1, <3>1 DEF Stash
  <2>4. Queue!Abstract!Deliver
    BY <2>1, <2>2, <2>3 DEF Queue!Abstract!Deliver, Stash
  <2> QED  BY <2>4 DEF Queue!Abstract!Next
<1>3. CASE \E s \in Strategies : Queue!SetDropStrategy(s)
  BY <1>3, StrategyStep, SameStash
<1>4. CASE Queue!Fini
  <2>1. Queue!Abstract!Close
    BY <1>4, FiniStep DEF Queue!Abstract!Close
  <2> QED  BY <2>1 DEF Queue!Abstract!Next
<1>5. CASE UNCHANGED queueVars
  BY <1>5, SameStash DEF queueVars
<1> QED  BY <1>1, <1>2, <1>3, <1>4, <1>5, QueueSteps DEF Queue!Next

LEMMA PullsClimb ==
  ASSUME QInv, [MCNext]_<<vars, queueVars, bufferVars, loopVars>>
  PROVE  [Queue!Pull => pulled' > pulled]_Queue!vars
<1>1. CASE Queue!Pull
  <2>1. pulled' = base
    BY <1>1, PullStep
  <2> QED  BY <2>1, Space DEF QInv, QTypes
<1> QED  BY <1>1

LEMMA FittingIsKept ==
  ASSUME QInv, open, NEW p \in Packets \ held, NEW d \in Queue!Indexes, Queue!Push(p, base + d),
         \A q \in held : pos[q] # base + d
  PROVE  p \in held'
<1> DEFINE n == base + d
<1>1. QTypes /\ base \in Nat /\ d \in 0 .. (R - 1) /\ n \in Nat /\ n >= base /\ n < base + R /\ R \in Nat
  BY Space DEF QInv, QTypes, Queue!Indexes, R
<1>2. n - base \in (1 - SeqHalf) .. (SeqHalf - 1)
  BY DEF Queue!Push, Queue!SeqHalf, SeqHalf
<1>3. \/ Queue!PushInside(Queue!Cast(n), p) \/ Queue!PushTooOld(Queue!Cast(n), p)
      \/ Queue!PushBeyond(Queue!Cast(n), n, p)
  BY DEF Queue!Push
<1>4. Dropped(p, n) \/ Kept(p, n)
  <2> HIDE DEF n
  <2> QED  BY <1>1, <1>2, <1>3, PushInsideCases, PushTooOldCases, PushBeyondCases
<1>5. ~(n < base \/ (\E q \in held : pos[q] = n) \/ n >= base + R)
  BY <1>1
<1> QED  BY <1>4, <1>5 DEF Dropped, Kept

LEMMA WhatFitsIsKept ==
  ASSUME QInv
  PROVE  [Queue!KeepFitting]_Queue!vars
BY FittingIsKept DEF Queue!KeepFitting

(* For every size of the ring, start, traffic and drop strategy, takion's    *)
(* queue implements PacketWindow; it pulls in the order of sending across    *)
(* every wrap, and keeps whatever fits and is neither old nor a duplicate.   *)
THEOREM QueueImplementsWindow == MCSpec => ImplementsWindow
<1>1. MCInit => Queue!Abstract!Init
  <2>1. Queue!AtRest \/ Queue!Init => base \in 0 .. MaxPos /\ held = {}
    BY QueueAssumption DEF Queue!AtRest, Queue!Init
  <2> QED  BY <2>1 DEF MCInit, Queue!Abstract!Init
<1>2. MCSpec => []QInv
  BY QueueInvariant
<1>3. MCSpec => Queue!ImplementsWindow
  BY <1>1, <1>2, AbstractStep, PTL DEF MCSpec, Queue!ImplementsWindow, Queue!Abstract!Spec
<1>4. MCSpec => Queue!PulledInOrder
  BY <1>2, PullsClimb, PTL DEF MCSpec, Queue!PulledInOrder
<1>5. MCSpec => Queue!KeepsWhatFits
  BY <1>2, WhatFitsIsKept, PTL DEF Queue!KeepsWhatFits
<1> QED  BY <1>3, <1>4, <1>5 DEF ImplementsWindow

-----------------------------------------------------------------------------
(* The receiving half                                                        *)

(* What the threads know of each other: recv_thread exists only after the    *)
(* handshake, and announces the stop before it ends.                         *)
ThreadsAgree ==
  /\ receiver \in {"none", "recv", "reading", "pushed", "stopping", "ended"}
  /\ worker = "handshake" => receiver = "none"
  /\ receiver = "none" => recvQueue = <<>> /\ worker \in {"handshake", "ended"}
  /\ shouldStop => receiver \in {"stopping", "ended"}

ReceiveInv == ThreadsAgree /\ NoMissedWakeup /\ DrainedBeforeLeaving

(* The threads of takion agree from the start.                               *)
THEOREM InitInv == Init => ReceiveInv
  BY DEF Init, ReceiveInv, ThreadsAgree, NoMissedWakeup, DrainedBeforeLeaving

LEMMA ReceiverInv == ASSUME ReceiveInv, ReceiverStep PROVE ReceiveInv'
<1> USE DEF ReceiveInv, ThreadsAgree, NoMissedWakeup, DrainedBeforeLeaving
<1>1. CASE SelectSocket
  BY <1>1 DEF SelectSocket, recvVars
<1>2. CASE ReceiveSome
  BY <1>2 DEF ReceiveSome, ReceivePacket
<1>3. CASE SignalPush \/ SignalStop
  BY <1>3 DEF SignalPush, SignalStop, Woken, recvVars
<1>4. CASE ReceiveFails
  BY <1>4 DEF ReceiveFails
<1> QED  BY <1>1, <1>2, <1>3, <1>4 DEF ReceiverStep

LEMMA WorkerInv == ASSUME ReceiveInv, WorkerStep PROVE ReceiveInv'
<1> USE DEF ReceiveInv, ThreadsAgree, NoMissedWakeup, DrainedBeforeLeaving
<1>1. CASE HandshakeSucceeds \/ HandshakeFails \/ SetStarted
  BY <1>1 DEF HandshakeSucceeds, HandshakeFails, SetStarted, recvVars
<1>2. CASE RecheckMacs \/ FlushPostponed
  BY <1>2 DEF RecheckMacs, FlushPostponed, recvVars
<1>3. CASE WaitForPacket \/ Leave
  BY <1>3 DEF WaitForPacket, Leave, recvVars
<1>4. CASE HandlePacket
  BY <1>4 DEF HandlePacket
<1> QED  BY <1>1, <1>2, <1>3, <1>4 DEF WorkerStep

LEMMA CloserInv == ASSUME ReceiveInv, CloserStep PROVE ReceiveInv'
  BY DEF ReceiveInv, ThreadsAgree, NoMissedWakeup, DrainedBeforeLeaving, CloserStep, CloseStop,
         CloseCheckStarted, CloseJoinReceiver, CloseJoinWorker, recvVars

(* Every step of the receive thread, the takion thread and the close keeps it. *)
THEOREM NextInv == ReceiveInv /\ [Next]_vars => ReceiveInv'
<1> SUFFICES ASSUME ReceiveInv, [Next]_vars PROVE ReceiveInv'
  OBVIOUS
<1>1. CASE Next
  BY <1>1, ReceiverInv, WorkerInv, CloserInv DEF Next
<1>2. CASE UNCHANGED vars
  BY <1>2 DEF vars, ReceiveInv, ThreadsAgree, NoMissedWakeup, DrainedBeforeLeaving
<1> QED  BY <1>1, <1>2

(* So the threads agree at any time.                                         *)
THEOREM InvariantHolds == Spec => []ReceiveInv
  BY InitInv, NextInv, PTL DEF Spec

(* The takion thread does not sleep through a packet or the stop, although   *)
(* recv_thread signals after it released the mutex.                          *)
THEOREM WakeupsArrive == Spec => []NoMissedWakeup
<1>1. ReceiveInv => NoMissedWakeup
  BY DEF ReceiveInv
<1> QED  BY <1>1, InvariantHolds, PTL

(* The takion thread leaves its loop after the last packet was pushed, with  *)
(* none left in the recv queue.                                              *)
THEOREM QueueIsDrained == Spec => []DrainedBeforeLeaving
<1>1. ReceiveInv => DrainedBeforeLeaving
  BY DEF ReceiveInv
<1> QED  BY <1>1, InvariantHolds, PTL

-----------------------------------------------------------------------------
(* Audio and video in the order they arrive                                  *)

Datagram == [kind : {"data", "av"}, n : Int]
Received(q) == q \in Seq(Datagram)
Above(q, x) == \A j \in 1 .. Len(q) : q[j].kind = "av" => q[j].n > x
Climbing(q) == \A j, k \in 1 .. Len(q) : j < k /\ q[j].kind = "av" /\ q[k].kind = "av" => q[j].n < q[k].n

(* Whatever was handled or postponed came before what is still queued, and   *)
(* once the key is there nothing stays postponed while a packet is taken.    *)
AvInv ==
  /\ arrived \in Int /\ handled \in Int /\ handled <= arrived
  /\ Received(recvQueue) /\ Climbing(recvQueue) /\ Above(recvQueue, handled)
  /\ \A j \in 1 .. Len(recvQueue) : recvQueue[j].kind = "av" => recvQueue[j].n <= arrived
  /\ postponed \in Seq(Int)
  /\ \A m \in 1 .. Len(postponed) : handled < postponed[m] /\ postponed[m] <= arrived
                                      /\ Above(recvQueue, postponed[m])
  /\ remoteKey /\ worker \in {"pop", "waiting"} => postponed = <<>>

(* The queue without its first packet, or with one more.                     *)
LEMMA TailKeeps ==
  ASSUME NEW q, Received(q), Climbing(q), q # <<>>
  PROVE  /\ Received(Tail(q)) /\ Climbing(Tail(q)) /\ Head(q) \in Datagram
         /\ Head(q) = q[1] /\ 1 \in 1 .. Len(q)
         /\ \A j \in 1 .. Len(Tail(q)) : j + 1 \in 1 .. Len(q) /\ Tail(q)[j] = q[j + 1]
         /\ \A x : Above(q, x) => Above(Tail(q), x)
         /\ Head(q).kind = "av" => Above(Tail(q), Head(q).n)
<1>1. q \in Seq(Datagram) /\ Len(q) \in Nat /\ Len(q) >= 1
  BY DEF Received
<1>2. Tail(q) \in Seq(Datagram) /\ Len(Tail(q)) = Len(q) - 1 /\ Head(q) = q[1]
      /\ q[1] \in Datagram
  BY <1>1
<1>3. \A j \in 1 .. Len(Tail(q)) : j + 1 \in 1 .. Len(q) /\ Tail(q)[j] = q[j + 1] /\ 1 < j + 1
  BY <1>1, <1>2
<1>4. 1 \in 1 .. Len(q)
  BY <1>1
<1>5. Climbing(Tail(q))
  <2> SUFFICES ASSUME NEW j \in 1 .. Len(Tail(q)), NEW k \in 1 .. Len(Tail(q)), j < k,
                      Tail(q)[j].kind = "av", Tail(q)[k].kind = "av"
               PROVE  Tail(q)[j].n < Tail(q)[k].n
    BY DEF Climbing
  <2>1. j + 1 < k + 1 /\ j + 1 \in 1 .. Len(q) /\ k + 1 \in 1 .. Len(q) /\ Tail(q)[j] = q[j + 1] /\ Tail(q)[k] = q[k + 1]
    BY <1>3
  <2> QED  BY <2>1 DEF Climbing
<1>6. \A x : Above(q, x) => Above(Tail(q), x)
  BY <1>3 DEF Above
<1>7. Head(q).kind = "av" => Above(Tail(q), Head(q).n)
  <2> SUFFICES ASSUME Head(q).kind = "av", NEW j \in 1 .. Len(Tail(q)), Tail(q)[j].kind = "av" PROVE Tail(q)[j].n > Head(q).n
    BY DEF Above
  <2>1. q[1].kind = "av" /\ q[j + 1].kind = "av" /\ 1 < j + 1 /\ j + 1 \in 1 .. Len(q) /\ Tail(q)[j] = q[j + 1]
    BY <1>2, <1>3
  <2>2. q[1].n < q[j + 1].n
    BY <1>4, <2>1 DEF Climbing
  <2>3. q[1].n \in Int /\ q[j + 1].n \in Int
    <3>1. q[1] \in Datagram /\ q[j + 1] \in Datagram
      BY <1>1, <1>4, <2>1
    <3> QED  BY <3>1 DEF Datagram
  <2> QED  BY <1>2, <2>1, <2>2, <2>3
<1> QED  BY <1>2, <1>3, <1>4, <1>5, <1>6, <1>7 DEF Received

LEMMA AppendKeeps ==
  ASSUME NEW q, Received(q), Climbing(q), NEW top \in Int,
         \A j \in 1 .. Len(q) : q[j].kind = "av" => q[j].n <= top,
         NEW p \in Datagram, p.kind = "av" => p.n = top + 1,
         NEW last \in Int, last = IF p.kind = "av" THEN p.n ELSE top
  PROVE  /\ Received(Append(q, p)) /\ Climbing(Append(q, p)) /\ top <= last
         /\ \A j \in 1 .. Len(Append(q, p)) : Append(q, p)[j].kind = "av" => Append(q, p)[j].n <= last
         /\ \A x \in Int : Above(q, x) /\ x <= top => Above(Append(q, p), x)
<1> DEFINE a == Append(q, p)
           n == Len(q)
<1>1. q \in Seq(Datagram) /\ n \in Nat
  BY DEF Received
<1>2. a \in Seq(Datagram) /\ Len(a) = n + 1 /\ a[n + 1] = p
      /\ \A j \in 1 .. n : a[j] = q[j] /\ q[j].n \in Int
  <2>1. \A j \in 1 .. n : q[j] \in Datagram
    BY <1>1
  <2>2. \A j \in 1 .. n : q[j].n \in Int
    BY <2>1 DEF Datagram
  <2> QED  BY <1>1, <2>2
<1> HIDE DEF a
<1>3. \A j \in 1 .. (n + 1) : j = n + 1 \/ j \in 1 .. n
  BY <1>1
<1>4. p.kind = "av" => p.n = top + 1 /\ last = top + 1
  OBVIOUS
<1>5. top <= last
  BY <1>4
<1> HIDE DEF n
<1>6. Climbing(a)
  <2> SUFFICES ASSUME NEW j \in 1 .. (n + 1), NEW k \in 1 .. (n + 1), j < k, a[j].kind = "av", a[k].kind = "av"
               PROVE  a[j].n < a[k].n
    BY <1>2 DEF Climbing
  <2>1. j \in 1 .. n
    BY <1>1, <1>3 DEF n
  <2>2. CASE k \in 1 .. n
    BY <1>2, <2>1, <2>2 DEF Climbing, n
  <2>3. CASE k = n + 1
    <3>1. q[j].n <= top /\ q[j].n \in Int /\ a[j] = q[j] /\ p.n = top + 1 /\ a[k] = p
      BY <1>2, <1>4, <2>1, <2>3 DEF n
    <3> QED  BY <3>1
  <2> QED  BY <1>3, <2>2, <2>3
<1>7. \A j \in 1 .. (n + 1) : a[j].kind = "av" => a[j].n <= last
  <2> TAKE j \in 1 .. (n + 1)
  <2> HAVE a[j].kind = "av"
  <2>1. CASE j \in 1 .. n
    <3>1. q[j].n <= top /\ q[j].n \in Int /\ a[j] = q[j]
      BY <1>2, <2>1 DEF n
    <3> QED  BY <1>5, <3>1
  <2>2. CASE j = n + 1
    BY <1>2, <1>4, <2>2
  <2> QED  BY <1>3, <2>1, <2>2
<1>8. ASSUME NEW x \in Int, Above(q, x), x <= top PROVE Above(a, x)
  <2> SUFFICES ASSUME NEW j \in 1 .. (n + 1), a[j].kind = "av" PROVE a[j].n > x
    BY <1>2 DEF Above
  <2>1. CASE j \in 1 .. n
    BY <1>2, <1>8, <2>1 DEF Above, n
  <2>2. CASE j = n + 1
    BY <1>2, <1>4, <1>8, <2>2
  <2> QED  BY <1>3, <2>1, <2>2
<1> QED  BY <1>2, <1>5, <1>6, <1>7, <1>8 DEF a, Received

LEMMA AvStarts == ASSUME Init \/ AtRest PROVE AvInv
<1>1. recvQueue = <<>> /\ postponed = <<>> /\ arrived = 0 /\ handled = 0
  BY DEF Init, AtRest
<1> QED  BY <1>1 DEF AvInv, Received, Climbing, Above

LEMMA AvReceive == ASSUME AvInv, NEW p, ReceivePacket(p), p.kind = "av" => p.n = arrived + 1,
                          p \in Datagram
                   PROVE  AvInv'
<1> DEFINE a == Append(recvQueue, p)
           last == IF p.kind = "av" THEN p.n ELSE arrived
<1>1. /\ recvQueue' = a /\ arrived' = last
      /\ UNCHANGED <<worker, remoteKey, postponed, handled>>
  BY DEF ReceivePacket, packetVars
<1>2. arrived \in Int /\ last \in Int /\ handled \in Int /\ handled <= arrived /\ postponed \in Seq(Int)
  BY DEF AvInv
<1>3. /\ Received(a) /\ Climbing(a) /\ arrived <= last
      /\ \A j \in 1 .. Len(a) : a[j].kind = "av" => a[j].n <= last
      /\ \A x \in Int : Above(recvQueue, x) /\ x <= arrived => Above(a, x)
  BY <1>2, AppendKeeps DEF AvInv
<1> HIDE DEF a, last
<1>4. Above(a, handled)
  BY <1>2, <1>3 DEF AvInv
<1>5. ASSUME NEW m \in 1 .. Len(postponed)
      PROVE  handled < postponed[m] /\ postponed[m] <= last /\ Above(a, postponed[m])
  <2>1. postponed[m] \in Int /\ postponed[m] <= arrived /\ handled < postponed[m] /\ Above(recvQueue, postponed[m])
    BY <1>2 DEF AvInv
  <2> QED  BY <1>2, <1>3, <2>1
<1>6. handled <= last
  BY <1>2, <1>3
<1>7. remoteKey /\ worker \in {"pop", "waiting"} => postponed = <<>>
  BY DEF AvInv
<1> QED  BY <1>1, <1>2, <1>3, <1>4, <1>5, <1>6, <1>7 DEF AvInv

LEMMA AvHandle == ASSUME AvInv, HandlePacket PROVE AvInv' /\ (handled' # handled => handled' > handled)
<1> DEFINE q == recvQueue
           p == Head(q)
           r == Tail(q)
<1>1. q # <<>> /\ worker = "pop" /\ recvQueue' = r /\ worker' = "top" /\ arrived' = arrived
      /\ ((p.kind = "data" /\ HandleData(p.n)) \/ (p.kind = "av" /\ HandleAv(p.n)) \/ Discard)
  BY DEF HandlePacket
<1>2. /\ arrived \in Int /\ handled \in Int /\ handled <= arrived /\ postponed \in Seq(Int) /\ Received(q) /\ Climbing(q)
      /\ Above(q, handled) /\ \A j \in 1 .. Len(q) : q[j].kind = "av" => q[j].n <= arrived
      /\ \A m \in 1 .. Len(postponed) : handled < postponed[m] /\ postponed[m] <= arrived /\ Above(q, postponed[m])
      /\ (remoteKey => postponed = <<>>)
  BY <1>1 DEF AvInv
<1>3. /\ Received(r) /\ Climbing(r) /\ p \in Datagram
      /\ \A j \in 1 .. Len(r) : j + 1 \in 1 .. Len(q) /\ r[j] = q[j + 1]
      /\ \A x : Above(q, x) => Above(r, x)
      /\ p.kind = "av" => Above(r, p.n)
  BY <1>1, <1>2, TailKeeps
<1>4. p.kind = "av" => p.n \in Int /\ p.n <= arrived /\ p.n > handled
  <2>1. p = q[1] /\ 1 \in 1 .. Len(q)
    BY <1>1, <1>2, TailKeeps
  <2>2. p \in Datagram
    BY <1>3
  <2> QED  BY <1>2, <2>1, <2>2 DEF Above, Datagram
<1> HIDE DEF q, p, r
<1>5. \A j \in 1 .. Len(r) : r[j].kind = "av" => r[j].n <= arrived
  BY <1>2, <1>3
<1>6. CASE UNCHANGED <<postponed, handled>>
  BY <1>1, <1>2, <1>3, <1>5, <1>6 DEF AvInv
<1>7. CASE p.kind = "av" /\ HandleAv(p.n)
  <2>1. CASE remoteKey
    <3>1. handled' = p.n /\ postponed' = postponed /\ postponed = <<>>
      BY <1>2, <1>7, <2>1 DEF HandleAv
    <3> QED  BY <1>1, <1>2, <1>3, <1>4, <1>5, <1>7, <3>1 DEF AvInv
  <2>2. CASE ~remoteKey
    <3>1. handled' = handled
          /\ (postponed' = postponed \/ postponed' = Append(postponed, p.n))
      BY <1>7, <2>2 DEF HandleAv, Postpone
    <3>2. CASE postponed' = Append(postponed, p.n)
      <4>1. postponed' \in Seq(Int)
        BY <1>2, <1>4, <1>7, <3>2
      <4>2. ASSUME NEW m \in 1 .. Len(postponed')
            PROVE  handled < postponed'[m] /\ postponed'[m] <= arrived /\ Above(r, postponed'[m])
        <5>1. postponed'[m] = p.n \/ (m \in 1 .. Len(postponed) /\ postponed'[m] = postponed[m])
          BY <1>2, <1>4, <1>7, <3>2
        <5>2. CASE postponed'[m] = p.n
          BY <1>2, <1>3, <1>4, <1>7, <5>2
        <5>3. CASE m \in 1 .. Len(postponed) /\ postponed'[m] = postponed[m]
          BY <1>2, <1>3, <5>3
        <5> QED  BY <5>1, <5>2, <5>3
      <4> QED  BY <1>1, <1>2, <1>3, <1>5, <3>1, <4>1, <4>2 DEF AvInv
    <3> QED  BY <1>6, <3>1, <3>2
  <2> QED  BY <2>1, <2>2
<1> QED  BY <1>1, <1>6, <1>7 DEF HandleData, Discard

LEMMA AvFlush == ASSUME AvInv, FlushPostponed PROVE AvInv' /\ (handled' # handled => handled' > handled)
<1>1. UNCHANGED <<recvQueue, arrived, remoteKey>> /\ worker' = "pop"
  BY DEF FlushPostponed, recvVars
<1>2. CASE remoteKey /\ postponed # <<>>
  <2>1. postponed' = <<>> /\ (handled' = handled \/ \E m \in DOMAIN postponed : handled' = postponed[m])
    BY <1>2 DEF FlushPostponed
  <2>2. CASE handled' = handled
    BY <1>1, <2>1, <2>2 DEF AvInv
  <2>3. CASE \E m \in DOMAIN postponed : handled' = postponed[m]
    <3>1. PICK m \in DOMAIN postponed : handled' = postponed[m]
      BY <2>3
    <3>2. m \in 1 .. Len(postponed) /\ postponed[m] \in Int
      BY <3>1 DEF AvInv
    <3>3. handled < handled' /\ handled' <= arrived /\ Above(recvQueue, handled') /\ handled' \in Int
      BY <3>1, <3>2 DEF AvInv
    <3>4. handled' > handled
      BY <3>3 DEF AvInv
    <3> QED  BY <1>1, <2>1, <3>3, <3>4 DEF AvInv
  <2> QED  BY <2>1, <2>2, <2>3
<1>3. CASE ~(remoteKey /\ postponed # <<>>)
  <2>1. UNCHANGED <<postponed, handled>>
    BY <1>3 DEF FlushPostponed
  <2> QED  BY <1>1, <1>3, <2>1 DEF AvInv
<1> QED  BY <1>2, <1>3

LEMMA AvNext ==
  ASSUME AvInv, [MCNext]_TakionVars
  PROVE  AvInv' /\ [handled' # handled => handled' > handled]_vars
<1>0. ASSUME UNCHANGED <<recvQueue, arrived, postponed, handled, remoteKey>>,
             worker' \in {"pop", "waiting"} => worker \in {"pop", "waiting"}
      PROVE  AvInv' /\ handled' = handled
  BY <1>0 DEF AvInv
<1>1. CASE SelectSocket \/ SignalPush \/ ReceiveFails \/ SignalStop
  BY <1>0, <1>1 DEF SelectSocket, SignalPush, ReceiveFails, SignalStop, Woken, recvVars, packetVars
<1>2. CASE ReceiveSome
  <2>1. PICK p : ReceivePacket(p) /\ p \in Datagram /\ (p.kind = "av" => p.n = arrived + 1)
    <3>1. CASE \E n \in 0 .. LastData : ReceivePacket(Data(n))
      <4>1. PICK n \in 0 .. LastData : ReceivePacket(Data(n))
        BY <3>1
      <4>2. Data(n).kind = "data" /\ Data(n) \in Datagram
        BY DEF Data, Datagram
      <4> QED  BY <4>1, <4>2
    <3>2. CASE ReceivePacket(Av(arrived + 1))
      <4>1. Av(arrived + 1).n = arrived + 1 /\ Av(arrived + 1) \in Datagram
        BY DEF Av, AvInv, Datagram
      <4> QED  BY <3>2, <4>1
    <3> QED  BY <1>2, <3>1, <3>2 DEF ReceiveSome
  <2>2. handled' = handled
    BY <2>1 DEF ReceivePacket, packetVars
  <2> QED  BY <2>1, <2>2, AvReceive
<1>3. CASE HandshakeSucceeds \/ HandshakeFails \/ SetStarted \/ RecheckMacs \/ WaitForPacket \/ Leave
  BY <1>0, <1>3 DEF HandshakeSucceeds, HandshakeFails, SetStarted, RecheckMacs, WaitForPacket, Leave, recvVars, packetVars
<1>4. CASE CloserStep
  BY <1>0, <1>4 DEF CloserStep, CloseStop, CloseCheckStarted, CloseJoinReceiver, CloseJoinWorker, recvVars, packetVars
<1>5. CASE UNCHANGED vars
  BY <1>0, <1>5 DEF vars, recvVars, packetVars
<1>6. CASE Next
  BY <1>1, <1>2, <1>3, <1>4, <1>6, AvHandle, AvFlush DEF Next, ReceiverStep, WorkerStep
<1> QED  BY <1>5, <1>6 DEF MCNext, TakionVars

(* Audio and video packets are handled in the order they arrive in, the      *)
(* postponed ones before those behind them.                                  *)
THEOREM AvKeepsItsOrder == MCSpec => AvInArrivalOrder
<1>1. MCInit => AvInv
  BY AvStarts DEF MCInit
<1>2. AvInv /\ [MCNext]_TakionVars => AvInv' /\ [handled' # handled => handled' > handled]_vars
  BY AvNext
<1> QED  BY <1>1, <1>2, PTL DEF MCSpec, TakionVars, AvInArrivalOrder

-----------------------------------------------------------------------------
(* Sets of slots and the array                                               *)

UpTo(S, x) == Cardinality({k \in S : k <= x})

(* The members of a finite set of numbers are its first, second, ... member. *)
LEMMA UpToClimbs ==
  ASSUME NEW S \in SUBSET Int, IsFiniteSet(S)
  PROVE  /\ \A j \in S : UpTo(S, j) \in 1 .. Cardinality(S)
         /\ \A j, k \in S : j < k => UpTo(S, j) < UpTo(S, k)
<1>1. ASSUME NEW j \in S
      PROVE  UpTo(S, j) \in 1 .. Cardinality(S) /\ IsFiniteSet({k \in S : k <= j})
  <2> DEFINE T == {k \in S : k <= j}
  <2>1. T \in SUBSET S /\ j \in T
    OBVIOUS
  <2>2. IsFiniteSet(T) /\ Cardinality(T) <= Cardinality(S)
    BY <2>1, FS_Subset
  <2>3. Cardinality(T) \in Nat /\ Cardinality(S) \in Nat /\ Cardinality(T) # 0
    BY <2>1, <2>2, FS_CardinalityType, FS_EmptySet
  <2> QED  BY <2>2, <2>3 DEF UpTo
<1>2. ASSUME NEW j \in S, NEW k \in S, j < k PROVE UpTo(S, j) < UpTo(S, k)
  <2> DEFINE T == {l \in S : l <= j}
             U == {l \in S : l <= k}
  <2>0. \A l \in S : l \in Int
    OBVIOUS
  <2>1. T \in SUBSET U /\ k \in U /\ k \notin T
    <3>1. \A l \in S : l <= j => l <= k
      BY <1>2, <2>0
    <3>2. k <= k /\ ~(k <= j)
      BY <1>2, <2>0
    <3> QED  BY <3>1, <3>2
  <2>2. IsFiniteSet(U)
    BY <1>1
  <2>3. Cardinality(T) <= Cardinality(U) /\ Cardinality(U) # Cardinality(T)
    BY <2>1, <2>2, FS_Subset
  <2>4. Cardinality(T) \in Int /\ Cardinality(U) \in Int
    BY <1>1 DEF UpTo
  <2> QED  BY <2>3, <2>4 DEF UpTo
<1> QED  BY <1>1, <1>2

LEMMA UpToIsOnto ==
  ASSUME NEW S \in SUBSET Int, IsFiniteSet(S), NEW m \in 1 .. Cardinality(S)
  PROVE  \E j \in S : UpTo(S, j) = m /\ \A k \in S : UpTo(S, k) = m => k = j
<1> DEFINE n == Cardinality(S)
<1>1. n \in Nat
  BY FS_CardinalityType
<1>2. \A j, k \in S : UpTo(S, j) = UpTo(S, k) => j = k
  <2> SUFFICES ASSUME NEW j \in S, NEW k \in S, UpTo(S, j) = UpTo(S, k), j # k PROVE FALSE
    OBVIOUS
  <2>1. j < k \/ k < j
    OBVIOUS
  <2>2. UpTo(S, j) \in Int /\ UpTo(S, k) \in Int
    BY UpToClimbs
  <2> QED  BY <2>1, <2>2, UpToClimbs
<1>3. ASSUME \A j \in S : UpTo(S, j) # m PROVE FALSE
  <2> DEFINE T == (1 .. n) \ {m}
             f == [j \in S |-> UpTo(S, j)]
  <2>1. IsFiniteSet(1 .. n) /\ Cardinality(1 .. n) = n
    BY <1>1, FS_Interval
  <2>2. IsFiniteSet(T) /\ Cardinality(T) < n
    <3>1. IsFiniteSet(T) /\ Cardinality(T) = n - 1
      BY <2>1, FS_RemoveElement
    <3> QED  BY <1>1, <3>1
  <2>3. f \in [S -> T]
    BY <1>3, UpToClimbs
  <2> HIDE DEF T, f
  <2>4. \E x, y \in S : x # y /\ f[x] = f[y]
    BY <2>2, <2>3, FS_PigeonHole
  <2> QED  BY <1>2, <2>4 DEF f
<1> QED  BY <1>2, <1>3

LEMMA SameCardinality == ASSUME NEW S PROVE Buffer!Cardinality(S) = Cardinality(S) /\ Loop!Cardinality(S) = Cardinality(S)
<1>1. Buffer!Cardinality(S) = Cardinality(S)
  BY DEF Buffer!Cardinality, Cardinality
<1>2. Loop!Cardinality(S) = Cardinality(S)
  BY DEF Loop!Cardinality, Cardinality
<1> QED  BY <1>1, <1>2

(* Compact: the kept entries, each once, then the slots as they were.        *)
Compact(array_, kept) == Buffer!Compact(array_, kept)
LEMMA CompactKeeps ==
  ASSUME NEW array_, NEW kept \in SUBSET Int, IsFiniteSet(kept), NEW cap \in Nat,
         kept \subseteq 1 .. cap, DOMAIN array_ = 1 .. cap
  PROVE  LET n == Cardinality(kept)
             result == Compact(array_, kept)
         IN  /\ n \in 0 .. cap /\ DOMAIN result = 1 .. cap
             /\ \A s \in 1 .. n : \E j \in kept : UpTo(kept, j) = s /\ result[s] = array_[j]
             /\ \A j \in kept : UpTo(kept, j) \in 1 .. n /\ result[UpTo(kept, j)] = array_[j]
             /\ \A s \in (n + 1) .. cap : result[s] = array_[s]
<1> DEFINE n == Cardinality(kept)
           result == Compact(array_, kept)
<1>1. n \in 0 .. cap
  <2>1. IsFiniteSet(1 .. cap) /\ Cardinality(1 .. cap) = cap
    <3>1. cap \in Int /\ 1 \in Int
      OBVIOUS
    <3> QED  BY <3>1, FS_Interval
  <2>2. IsFiniteSet(kept) /\ n <= cap
    <3>1. kept \in SUBSET (1 .. cap)
      OBVIOUS
    <3> HIDE DEF n
    <3>2. Cardinality(kept) <= Cardinality(1 .. cap)
      BY <2>1, <3>1, FS_Subset
    <3> QED  BY <2>1, <3>2 DEF n
  <2> QED  BY <2>2, FS_CardinalityType
<1>2. result = [s \in 1 .. cap |-> IF s <= n THEN array_[CHOOSE j \in kept : UpTo(kept, j) = s] ELSE array_[s]]
  <2>1. Compact(array_, kept) =
          LET Rank(j) == Cardinality({k \in kept : k <= j})
          IN  [s \in DOMAIN array_ |-> IF s <= Cardinality(kept)
                                        THEN array_[CHOOSE j \in kept : Rank(j) = s]
                                        ELSE array_[s]]
    BY DEF Compact, Buffer!Compact, Buffer!Cardinality, Cardinality
  <2> QED  BY <2>1 DEF UpTo
<1> HIDE DEF result
<1>3. ASSUME NEW s \in 1 .. n, NEW j \in kept, UpTo(kept, j) = s PROVE result[s] = array_[j]
  <2>1. (CHOOSE k \in kept : UpTo(kept, k) = s) = j
    BY <1>3, UpToIsOnto
  <2>2. s \in 1 .. cap /\ s <= n
    BY <1>1
  <2> QED  BY <1>2, <2>1, <2>2
<1>4. \A s \in 1 .. n : \E j \in kept : UpTo(kept, j) = s /\ result[s] = array_[j]
  BY <1>3, UpToIsOnto
<1>5. \A j \in kept : UpTo(kept, j) \in 1 .. n /\ result[UpTo(kept, j)] = array_[j]
  BY <1>3, UpToClimbs
<1>6. \A s \in (n + 1) .. cap : result[s] = array_[s]
  BY <1>1, <1>2
<1> QED  BY <1>1, <1>2, <1>4, <1>5, <1>6 DEF result

-----------------------------------------------------------------------------
(* The loop that closes the gaps                                             *)

(* Slots as the array counts them, from 1: those that stay and those that    *)
(* are acknowledged.                                                         *)
Staying == {s + 1 : s \in (0 .. (oldCount - 1)) \ acked}
Leaving == {s + 1 : s \in acked}

(* The first x slots hold the first x packets that stay; from x on the slots *)
(* are as the caller left them.                                              *)
Compacted(arr, x) == \A s \in 0 .. (x - 1) : arr[s] + 1 \in Staying /\ UpTo(Staying, arr[s] + 1) = s + 1
Untouched(arr, x) == \A s \in 0 .. (Length - 1) : s >= x => arr[s] = s

(* Where the gap begins; before the first gap all is in its place.           *)
GapStart == IF shiftStart = Length THEN i ELSE shiftStart

LoopAtWork ==
  /\ newCount = oldCount /\ i \in 0 .. oldCount
  /\ shift \in Nat /\ shift = UpTo(Leaving, i) /\ (shiftStart = Length => shift = 0)
  /\ GapStart \in Nat /\ GapStart + shift <= i
  /\ Compacted(array, GapStart) /\ Untouched(array, GapStart)
  /\ \A s \in (GapStart + shift) .. (i - 1) : s \notin acked

LoopInv ==
  /\ oldCount \in 0 .. Length /\ acked \subseteq 0 .. (oldCount - 1)
  /\ array \in [0 .. (Length - 1) -> Int]
  /\ pc \in {"loop", "done"}
  /\ pc = "loop" => LoopAtWork
  /\ pc = "done" => newCount = Cardinality(Staying) /\ Compacted(array, newCount) /\ Untouched(array, newCount)

(* Of the first x slots, those that stay and those that leave.               *)
LEMMA SlotsAddUp ==
  ASSUME oldCount \in Nat, acked \subseteq 0 .. (oldCount - 1), NEW x \in 0 .. oldCount
  PROVE  /\ UpTo(Staying, x) + UpTo(Leaving, x) = x
         /\ UpTo(Staying, x) \in Nat /\ UpTo(Leaving, x) \in Nat
<1> DEFINE S == {k \in Staying : k <= x}
           L == {k \in Leaving : k <= x}
<1>1. S \cup L = 1 .. x /\ S \cap L = {}
  <2>1. ASSUME NEW k \in S \cup L PROVE k \in 1 .. x
    BY DEF Staying, Leaving
  <2>2. ASSUME NEW k \in 1 .. x PROVE k \in S \cup L
    <3>1. k - 1 \in 0 .. (oldCount - 1) /\ (k - 1) + 1 = k
      OBVIOUS
    <3>2. CASE k - 1 \in acked
      BY <3>1, <3>2 DEF Leaving
    <3>3. CASE k - 1 \notin acked
      BY <3>1, <3>3 DEF Staying
    <3> QED  BY <3>2, <3>3
  <2>3. ASSUME NEW k, k \in S, k \in L PROVE FALSE
    <3>1. PICK s \in (0 .. (oldCount - 1)) \ acked : k = s + 1
      BY <2>3 DEF Staying
    <3>2. PICK t \in acked : k = t + 1
      BY <2>3 DEF Leaving
    <3>3. s = t
      BY <3>1, <3>2
    <3> QED  BY <3>1, <3>2, <3>3
  <2> QED  BY <2>1, <2>2, <2>3
<1>2. IsFiniteSet(1 .. x) /\ Cardinality(1 .. x) = x
  <2>1. x \in Int /\ 1 \in Int
    OBVIOUS
  <2> QED  BY <2>1, FS_Interval
<1>3. IsFiniteSet(S) /\ IsFiniteSet(L)
  BY <1>1, <1>2, FS_Subset
<1>4. Cardinality(S \cup L) = Cardinality(S) + Cardinality(L) - Cardinality(S \cap L)
  BY <1>3, FS_Union
<1>5. Cardinality(S) \in Nat /\ Cardinality(L) \in Nat /\ Cardinality(S \cap L) = 0
  BY <1>1, <1>3, FS_CardinalityType, FS_EmptySet
<1> HIDE DEF S, L
<1>6. Cardinality(S) + Cardinality(L) = x
  <2>1. Cardinality(S \cup L) = x
    BY <1>1, <1>2
  <2>2. x = Cardinality(S) + Cardinality(L) - 0
    BY <1>4, <1>5, <2>1
  <2> QED  BY <1>5, <2>2
<1> QED  BY <1>5, <1>6 DEF UpTo, S, L

LEMMA LeavingNext ==
  ASSUME oldCount \in Nat, acked \subseteq 0 .. (oldCount - 1), NEW x \in 0 .. (oldCount - 1)
  PROVE  UpTo(Leaving, x + 1) = IF x \in acked THEN UpTo(Leaving, x) + 1 ELSE UpTo(Leaving, x)
<1> DEFINE L == {k \in Leaving : k <= x}
           M == {k \in Leaving : k <= x + 1}
<1>1. \A k \in Leaving : k \in Int /\ k - 1 \in acked
  BY DEF Leaving
<1>2. CASE x \in acked
  <2>1. M = L \cup {x + 1} /\ x + 1 \notin L
    <3>1. x + 1 \in Leaving
      BY <1>2 DEF Leaving
    <3> QED  BY <1>1, <3>1
  <2>2. IsFiniteSet(L)
    <3>1. L \subseteq 1 .. x
      BY <1>1
    <3>2. IsFiniteSet(1 .. x)
      BY FS_Interval
    <3> QED  BY <3>1, <3>2, FS_Subset
  <2> HIDE DEF L, M
  <2>3. Cardinality(M) = Cardinality(L) + 1
    BY <2>1, <2>2, FS_AddElement
  <2> QED  BY <1>2, <2>3 DEF UpTo, L, M
<1>3. CASE x \notin acked
  <2>1. M = L
    BY <1>1, <1>3
  <2> QED  BY <1>3, <2>1 DEF UpTo
<1> QED  BY <1>2, <1>3

(* Nothing leaves between two slots: as many have left by the one as by the  *)
(* other.                                                                    *)
LEMMA LeavingSame ==
  ASSUME oldCount \in Nat, acked \subseteq 0 .. (oldCount - 1),
         NEW x \in 0 .. oldCount, NEW y \in 0 .. oldCount, x <= y, \A s \in x .. (y - 1) : s \notin acked
  PROVE  UpTo(Leaving, x) = UpTo(Leaving, y)
<1>1. \A k \in Leaving : k \in Int /\ k - 1 \in acked /\ k - 1 \in Int
  BY DEF Leaving
<1>2. ASSUME NEW k \in Leaving PROVE k <= x <=> k <= y
  BY <1>1
<1>3. {k \in Leaving : k <= x} = {k \in Leaving : k <= y}
  BY <1>2
<1> QED  BY <1>3 DEF UpTo

LEMMA GapArithmetic ==
  ASSUME NEW len \in Nat, NEW oc \in 0 .. len, NEW at \in 0 .. oc, NEW g \in Nat, NEW d \in Nat, g + d <= at,
         NEW s \in g .. (at - d - 1)
  PROVE  /\ s \in 0 .. (len - 1) /\ s + d \in 0 .. (oc - 1) /\ s + d \in 0 .. (len - 1) /\ s + d >= g
         /\ s - g + (g + d) = s + d /\ s + d \in (g + d) .. (at - 1)
         /\ s + d + 1 \in 0 .. oc /\ s + d + 1 <= at /\ s + d \in Int
OBVIOUS

(* memmove closes the gap: the slots behind it, none of which leaves, move   *)
(* down by its length.                                                       *)
LEMMA MovedDown ==
  ASSUME LoopInv, LoopAtWork,
         array' = Loop!Moved(GapStart, GapStart + shift, i - (GapStart + shift)),
         UNCHANGED <<oldCount, acked>>
  PROVE  /\ array' \in [0 .. (Length - 1) -> Int]
         /\ Compacted(array', i - shift) /\ Untouched(array', i - shift)
<1> DEFINE g == GapStart
           d == shift
           n == i - (g + d)
<1>1. /\ oldCount \in Nat /\ oldCount \in 0 .. Length /\ acked \subseteq 0 .. (oldCount - 1) /\ Length \in Nat
      /\ array \in [0 .. (Length - 1) -> Int]
  BY LoopAssumption DEF LoopInv
<1>2. g \in Nat /\ d \in Nat /\ g + d <= i /\ i \in 0 .. oldCount /\ d = UpTo(Leaving, i)
      /\ Compacted(array, g) /\ Untouched(array, g) /\ \A s \in (g + d) .. (i - 1) : s \notin acked
  BY DEF LoopAtWork
<1>3. array' = [s \in 0 .. (Length - 1) |-> IF s \in g .. (g + n - 1) THEN array[s - g + (g + d)] ELSE array[s]]
  BY DEF Loop!Moved, Loop!Slots
<1> HIDE DEF g
<1>4. i - d \in Nat /\ i - d <= oldCount /\ g + n = i - d /\ g <= i - d /\ n \in Nat
  BY <1>1, <1>2
<1> HIDE DEF d, n
<1>5. ASSUME NEW s \in g .. (i - d - 1)
      PROVE  /\ array'[s] = s + d /\ s + d + 1 \in Staying /\ UpTo(Staying, s + d + 1) = s + 1
             /\ s + d \in 0 .. (Length - 1)
  <2>1. s \in 0 .. (Length - 1) /\ s + d \in 0 .. (oldCount - 1) /\ s + d \in 0 .. (Length - 1) /\ s + d >= g
        /\ s - g + (g + d) = s + d /\ s \in g .. (g + n - 1) /\ s + d \in (g + d) .. (i - 1)
    <3>1. s \in Int /\ g <= s /\ s <= i - d - 1
      BY <1>1, <1>2, <1>4
    <3>2. s \in g .. (g + n - 1)
      <4>1. i \in Nat /\ d \in Nat /\ g \in Nat /\ n \in Nat /\ g + n = i - d
        BY <1>1, <1>2, <1>4
      <4> DEFINE last == g + n - 1
      <4>2. last \in Int /\ s <= last
        BY <3>1, <4>1
      <4> HIDE DEF last
      <4>3. s \in g .. last
        BY <3>1, <4>1, <4>2
      <4> QED  BY <4>3 DEF last
    <3>3. /\ s \in 0 .. (Length - 1) /\ s + d \in 0 .. (oldCount - 1) /\ s + d \in 0 .. (Length - 1)
          /\ s + d >= g /\ s - g + (g + d) = s + d /\ s + d \in (g + d) .. (i - 1)
      <4>1. Length \in Nat /\ oldCount \in 0 .. Length /\ i \in 0 .. oldCount /\ g \in Nat /\ d \in Nat
            /\ g + d <= i /\ s \in Int /\ g <= s /\ s <= i - d - 1
        BY <1>1, <1>2, <3>1
      <4>2. s \in 0 .. (Length - 1) /\ s + d \in 0 .. (oldCount - 1) /\ s + d \in 0 .. (Length - 1)
        BY <4>1
      <4>3. s + d >= g /\ s - g + (g + d) = s + d /\ s + d \in (g + d) .. (i - 1)
        BY <4>1
      <4> QED  BY <4>2, <4>3
    <3> QED  BY <3>2, <3>3
  <2>2. array'[s] = array[s + d]
    BY <1>3, <2>1
  <2>3. array[s + d] = s + d
    BY <1>2, <2>1 DEF Untouched
  <2>4. s + d \notin acked
    BY <1>2, <2>1
  <2>5. s + d + 1 \in Staying
    BY <2>1, <2>4 DEF Staying
  <2>6. UpTo(Leaving, s + d + 1) = d
    <3>1. s + d + 1 \in 0 .. oldCount /\ s + d + 1 <= i /\ i \in 0 .. oldCount
      BY <1>1, <1>2, GapArithmetic
    <3>2. \A t \in (s + d + 1) .. (i - 1) : t \notin acked
      BY <1>2, <2>1
    <3> QED  BY <1>1, <1>2, <3>1, <3>2, LeavingSame
  <2>7. UpTo(Staying, s + d + 1) + d = s + d + 1 /\ UpTo(Staying, s + d + 1) \in Nat
    <3>1. s + d + 1 \in 0 .. oldCount
      BY <1>1, <2>1
    <3> QED  BY <1>1, <2>6, <3>1, SlotsAddUp
  <2>8. UpTo(Staying, s + d + 1) = s + 1
    BY <1>2, <2>7
  <2> QED  BY <2>1, <2>2, <2>3, <2>5, <2>8
<1>6. ASSUME NEW s \in 0 .. (Length - 1), ~(s \in g .. (i - d - 1)) PROVE array'[s] = array[s]
  <2>1. ~(s \in g .. (g + n - 1))
    BY <1>2, <1>4, <1>6
  <2> QED  BY <1>3, <2>1
<1>7. array' \in [0 .. (Length - 1) -> Int]
  <2>1. DOMAIN array' = 0 .. (Length - 1)
    BY <1>3
  <2>2. ASSUME NEW s \in 0 .. (Length - 1) PROVE array'[s] \in Int
    <3>1. CASE s \in g .. (i - d - 1)
      BY <1>2, <1>5, <3>1
    <3>2. CASE ~(s \in g .. (i - d - 1))
      BY <1>1, <1>6, <3>2
    <3> QED  BY <3>1, <3>2
  <2> QED  BY <1>3, <2>1, <2>2
<1>8. \A s \in 0 .. (Length - 1) : s >= i - d => array'[s] = s
  <2> TAKE s \in 0 .. (Length - 1)
  <2> HAVE s >= i - d
  <2>1. ~(s \in g .. (i - d - 1)) /\ s >= g
    BY <1>2, <1>4
  <2> QED  BY <1>2, <1>6, <2>1 DEF Untouched
<1>9. \A s \in 0 .. (i - d - 1) : array'[s] + 1 \in Staying /\ UpTo(Staying, array'[s] + 1) = s + 1
  <2> TAKE s \in 0 .. (i - d - 1)
  <2>1. CASE s \in g .. (i - d - 1)
    BY <1>5, <2>1
  <2>2. CASE ~(s \in g .. (i - d - 1))
    <3>1. s \in 0 .. (g - 1) /\ s \in 0 .. (Length - 1)
      BY <1>1, <1>2, <1>4, <2>2
    <3>2. array'[s] = array[s]
      BY <1>6, <2>2, <3>1
    <3> QED  BY <1>2, <3>1, <3>2 DEF Compacted
  <2> QED  BY <2>1, <2>2
<1>10. Compacted(array', i - d) /\ Untouched(array', i - d)
  BY <1>8, <1>9 DEF Compacted, Untouched
<1> QED  BY <1>7, <1>10 DEF d

LEMMA LoopStep ==
  ASSUME LoopInv, Loop!Loop
  PROVE  LoopInv'
<1>1. /\ oldCount \in Nat /\ oldCount \in 0 .. Length /\ acked \subseteq 0 .. (oldCount - 1) /\ Length \in Nat
      /\ array \in [0 .. (Length - 1) -> Int] /\ LoopAtWork /\ pc = "loop" /\ pc' = "loop"
      /\ i < oldCount /\ i' = i + 1 /\ UNCHANGED <<oldCount, acked, newCount>>
  BY LoopAssumption DEF LoopInv, Loop!Loop
<1>2. /\ newCount = oldCount /\ i \in 0 .. (oldCount - 1) /\ i + 1 \in 0 .. oldCount /\ i \in Nat
      /\ shift \in Nat /\ shift = UpTo(Leaving, i) /\ (shiftStart = Length => shift = 0)
      /\ GapStart \in Nat /\ GapStart + shift <= i /\ Compacted(array, GapStart) /\ Untouched(array, GapStart)
      /\ \A s \in (GapStart + shift) .. (i - 1) : s \notin acked
  BY <1>1 DEF LoopAtWork
<1>3. array[i] = i /\ i \in 0 .. (Length - 1) /\ i # Length
  BY <1>1, <1>2 DEF Untouched
<1>4. UpTo(Leaving, i + 1) = IF i \in acked THEN shift + 1 ELSE shift
  BY <1>1, <1>2, LeavingNext
<1> DEFINE After(g, d) ==
      /\ d \in Nat /\ g \in Nat /\ g + d <= i + 1 /\ d = UpTo(Leaving, i + 1)
      /\ \A s \in (g + d) .. i : s \notin acked
<1>5. ASSUME NEW g, NEW d, shift' = d, GapStart' = g, shiftStart' = Length => d = 0, After(g, d),
             Compacted(array', g), Untouched(array', g), array' \in [0 .. (Length - 1) -> Int]
      PROVE  LoopInv'
  <2>1. Leaving' = Leaving /\ Staying' = Staying
    BY <1>1 DEF Leaving, Staying
  <2>2. LoopAtWork'
    <3>1. (GapStart + shift)' = g + d /\ (i - 1)' = i
      BY <1>1, <1>2, <1>5
    <3>2. (\A s \in (GapStart + shift) .. (i - 1) : s \notin acked)'
      BY <1>1, <1>5, <3>1
    <3>3. (shift = UpTo(Leaving, i))'
      BY <1>1, <1>5, <2>1 DEF UpTo
    <3>4. (Compacted(array, GapStart) /\ Untouched(array, GapStart))'
      BY <1>5, <2>1 DEF Compacted, Untouched, UpTo
    <3>5. (newCount = oldCount /\ i \in 0 .. oldCount /\ shift \in Nat /\ (shiftStart = Length => shift = 0)
           /\ GapStart \in Nat /\ GapStart + shift <= i)'
      BY <1>1, <1>2, <1>5
    <3> QED  BY <3>2, <3>3, <3>4, <3>5 DEF LoopAtWork
  <2>3. (oldCount \in 0 .. Length /\ acked \subseteq 0 .. (oldCount - 1))'
    BY <1>1
  <2> QED  BY <1>1, <1>5, <2>2, <2>3 DEF LoopInv
<1> HIDE DEF After
<1>6. CASE Loop!Keep
  <2>1. i \notin acked /\ array' = array /\ shift' = shift /\ shiftStart' = shiftStart
    BY <1>3, <1>6 DEF Loop!Keep
  <2>2. CASE shiftStart = Length
    <3>1. GapStart = i /\ GapStart' = i + 1 /\ shift = 0
      BY <1>1, <1>2, <2>1, <2>2 DEF GapStart
    <3>2. Compacted(array, i) /\ Untouched(array, i)
      BY <1>2, <3>1
    <3>3. i + 1 \in Staying /\ UpTo(Staying, i + 1) = i + 1
      <4>1. UpTo(Staying, i + 1) + UpTo(Leaving, i + 1) = i + 1 /\ UpTo(Staying, i + 1) \in Nat
        BY <1>1, <1>2, SlotsAddUp
      <4>2. UpTo(Leaving, i + 1) = 0
        BY <1>4, <2>1, <3>1
      <4> QED  BY <1>2, <2>1, <4>1, <4>2 DEF Staying
    <3>4. Compacted(array, i + 1)
      <4> SUFFICES ASSUME NEW s \in 0 .. (i + 1 - 1)
                   PROVE  array[s] + 1 \in Staying /\ UpTo(Staying, array[s] + 1) = s + 1
        BY <1>2 DEF Compacted
      <4>1. CASE s = i
        BY <1>3, <3>3, <4>1
      <4>2. CASE s # i
        <5>1. s \in 0 .. (i - 1)
          BY <1>2, <4>2
        <5> QED  BY <3>2, <5>1 DEF Compacted
      <4> QED  BY <4>1, <4>2
    <3>5. Untouched(array, i + 1)
      BY <1>2, <3>2 DEF Untouched
    <3>6. After(i + 1, 0)
      BY <1>2, <1>4, <2>1, <3>1 DEF After
    <3> QED  BY <1>1, <1>5, <2>1, <3>1, <3>4, <3>5, <3>6
  <2>3. CASE shiftStart # Length
    <3>1. GapStart' = GapStart
      BY <2>1, <2>3 DEF GapStart
    <3>2. After(GapStart, shift)
      <4>1. \A s \in (GapStart + shift) .. i : s = i \/ s \in (GapStart + shift) .. (i - 1)
        BY <1>2
      <4> QED  BY <1>2, <1>4, <2>1, <4>1 DEF After
    <3> QED  BY <1>1, <1>2, <1>5, <2>1, <2>3, <3>1, <3>2
  <2> QED  BY <2>2, <2>3
<1>7. CASE Loop!FirstGap
  <2>1. i \in acked /\ array' = array /\ shift' = 1 /\ shiftStart' = i /\ shiftStart = Length
    BY <1>3, <1>7 DEF Loop!FirstGap, Loop!NoStart
  <2>2. GapStart = i /\ GapStart' = i /\ shift = 0
    BY <1>2, <1>3, <2>1 DEF GapStart
  <2>3. After(i, 1)
    BY <1>2, <1>4, <2>1, <2>2 DEF After
  <2> QED  BY <1>1, <1>2, <1>3, <1>5, <2>1, <2>2, <2>3
<1>8. CASE Loop!SameGap
  <2>1. i \in acked /\ array' = array /\ shift' = shift + 1 /\ shiftStart' = shiftStart
        /\ shiftStart # Length /\ shiftStart + shift = i
    BY <1>3, <1>8 DEF Loop!SameGap, Loop!NoStart
  <2>2. GapStart = shiftStart /\ GapStart' = shiftStart
    BY <2>1 DEF GapStart
  <2>3. After(GapStart, shift + 1)
    BY <1>2, <1>4, <2>1, <2>2 DEF After
  <2> QED  BY <1>1, <1>2, <1>5, <2>1, <2>2, <2>3
<1>9. CASE Loop!NewGap
  <2>1. i \in acked /\ shift' = shift + 1 /\ shiftStart' = i - shift /\ shiftStart # Length
        /\ array' = Loop!Moved(shiftStart, shiftStart + shift, i - (shiftStart + shift))
    BY <1>3, <1>9 DEF Loop!NewGap, Loop!NoStart
  <2>2. GapStart = shiftStart /\ shiftStart' # Length /\ GapStart' = i - shift
    <3>1. i - shift < Length
      BY <1>1, <1>2
    <3>2. i - shift # Length
      BY <1>1, <1>2, <3>1
    <3> QED  BY <2>1, <3>2 DEF GapStart
  <2>3. After(i - shift, shift + 1)
    BY <1>2, <1>4, <2>1 DEF After
  <2>4. /\ array' \in [0 .. (Length - 1) -> Int]
        /\ Compacted(array', i - shift) /\ Untouched(array', i - shift)
    BY <1>1, <2>1, <2>2, MovedDown
  <2> QED  BY <1>5, <2>1, <2>2, <2>3, <2>4
<1> QED  BY <1>6, <1>7, <1>8, <1>9 DEF Loop!Loop

LEMMA AllStaying ==
  ASSUME oldCount \in Nat, acked \subseteq 0 .. (oldCount - 1)
  PROVE  /\ IsFiniteSet(Staying) /\ Staying \subseteq 1 .. oldCount
         /\ UpTo(Staying, oldCount) = Cardinality(Staying)
<1>1. Staying \subseteq 1 .. oldCount
  BY DEF Staying
<1>2. IsFiniteSet(1 .. oldCount)
  BY FS_Interval
<1>3. {k \in Staying : k <= oldCount} = Staying
  <2>1. \A k \in Staying : k \in Int /\ k <= oldCount
    BY <1>1
  <2> QED  BY <2>1
<1> QED  BY <1>1, <1>2, <1>3, FS_Subset DEF UpTo

LEMMA FinalShiftStep ==
  ASSUME LoopInv, Loop!FinalShift
  PROVE  LoopInv'
<1>1. /\ oldCount \in Nat /\ oldCount \in 0 .. Length /\ acked \subseteq 0 .. (oldCount - 1) /\ Length \in Nat
      /\ array \in [0 .. (Length - 1) -> Int] /\ LoopAtWork /\ pc = "loop" /\ pc' = "done"
      /\ i = oldCount /\ UNCHANGED <<oldCount, acked>>
  BY LoopAssumption DEF LoopInv, Loop!FinalShift
<1>2. /\ newCount = oldCount /\ i \in Nat
      /\ shift \in Nat /\ shift = UpTo(Leaving, i) /\ (shiftStart = Length => shift = 0)
      /\ GapStart \in Nat /\ GapStart + shift <= i /\ Compacted(array, GapStart) /\ Untouched(array, GapStart)
  BY <1>1 DEF LoopAtWork
<1>3. Cardinality(Staying) = i - shift
  <2>1. i \in 0 .. oldCount
    BY <1>1
  <2>2. UpTo(Staying, i) + shift = i /\ UpTo(Staying, i) \in Nat
    BY <1>1, <1>2, <2>1, SlotsAddUp
  <2>3. UpTo(Staying, i) = i - shift
    BY <1>2, <2>2
  <2> QED  BY <1>1, <2>3, AllStaying
<1>4. newCount' = i - shift /\ Compacted(array', i - shift) /\ Untouched(array', i - shift)
      /\ array' \in [0 .. (Length - 1) -> Int]
  <2>1. CASE shiftStart = Length
    <3>1. GapStart = i /\ shift = 0 /\ i - shift = i
      BY <1>2, <2>1 DEF GapStart
    <3>2. array' = array /\ newCount' = newCount
      BY <2>1 DEF Loop!FinalShift, Loop!NoStart
    <3> QED  BY <1>1, <1>2, <3>1, <3>2
  <2>2. CASE shiftStart # Length
    <3>1. GapStart = shiftStart /\ newCount' = i - shift
          /\ array' = IF shiftStart + shift < i THEN Loop!Moved(shiftStart, shiftStart + shift, i - (shiftStart + shift)) ELSE array
      BY <1>1, <2>2 DEF Loop!FinalShift, Loop!NoStart, GapStart
    <3>2. CASE shiftStart + shift < i
      <4>1. array' = Loop!Moved(GapStart, GapStart + shift, i - (GapStart + shift))
        BY <3>1, <3>2
      <4> QED  BY <1>1, <3>1, <4>1, MovedDown
    <3>3. CASE ~(shiftStart + shift < i)
      <4>1. GapStart = i - shift
        BY <1>2, <3>1, <3>3
      <4> QED  BY <1>1, <1>2, <3>1, <3>3, <4>1
    <3> QED  BY <3>2, <3>3
  <2> QED  BY <2>1, <2>2
<1>5. Staying' = Staying
  BY <1>1 DEF Staying
<1>6. (newCount = Cardinality(Staying) /\ Compacted(array, newCount) /\ Untouched(array, newCount))'
  BY <1>3, <1>4, <1>5 DEF Compacted, Untouched, UpTo
<1>7. (oldCount \in 0 .. Length /\ acked \subseteq 0 .. (oldCount - 1))'
  BY <1>1
<1> QED  BY <1>1, <1>4, <1>6, <1>7 DEF LoopInv

LEMMA LoopStarts == ASSUME Loop!AtRest \/ Loop!Init PROVE LoopInv
<1>1. /\ oldCount \in 0 .. Length /\ acked \subseteq 0 .. (oldCount - 1) /\ newCount = oldCount /\ Length \in Nat
      /\ array = [s \in 0 .. (Length - 1) |-> s]
      /\ i = 0 /\ shift = 0 /\ shiftStart = Length
  BY LoopAssumption DEF Loop!AtRest, Loop!Init, Loop!NoStart, Loop!Slots
<1>2. array \in [0 .. (Length - 1) -> Int] /\ \A x : Untouched(array, x)
  BY <1>1 DEF Untouched
<1>3. GapStart = 0 /\ Compacted(array, 0)
  BY <1>1 DEF GapStart, Compacted
<1>4. UpTo(Leaving, 0) = 0
  <2>1. UpTo(Staying, 0) + UpTo(Leaving, 0) = 0 /\ UpTo(Staying, 0) \in Nat /\ UpTo(Leaving, 0) \in Nat
    BY <1>1, SlotsAddUp
  <2> QED  BY <2>1
<1>5. LoopAtWork
  BY <1>1, <1>2, <1>3, <1>4 DEF LoopAtWork
<1>6. CASE Loop!Init
  BY <1>1, <1>2, <1>5, <1>6 DEF LoopInv, Loop!Init
<1>7. CASE Loop!AtRest
  <2>1. oldCount = 0 /\ pc = "done" /\ newCount = 0
    BY <1>7 DEF Loop!AtRest
  <2>2. Staying = {}
    BY <2>1 DEF Staying
  <2> QED  BY <1>1, <1>2, <1>3, <2>1, <2>2, FS_EmptySet DEF LoopInv
<1> QED  BY <1>6, <1>7

LEMMA LoopNextKeeps == ASSUME LoopInv, [MCNext]_TakionVars PROVE LoopInv'
<1>1. CASE Loop!Next
  BY <1>1, LoopStep, FinalShiftStep DEF Loop!Next
<1>2. CASE UNCHANGED loopVars
  BY <1>2 DEF loopVars, LoopInv, LoopAtWork, GapStart, Compacted, Untouched, Staying, Leaving, UpTo
<1> QED  BY <1>1, <1>2 DEF MCNext, TakionVars

(* What is left when the loop is done is what Compact says.                  *)
LEMMA LoopCompacts == ASSUME LoopInv PROVE Loop!ClosesAllGaps(Buffer!Compact)
<1> DEFINE before == [s \in 1 .. Length |-> s - 1]
           result == Compact(before, Staying)
<1> SUFFICES ASSUME pc = "done"
             PROVE  /\ newCount = Cardinality(Staying)
                    /\ \A s \in 0 .. (Length - 1) : array[s] = result[s + 1]
  BY SameCardinality DEF Loop!ClosesAllGaps, Loop!Slots, Staying, Compact
<1>1. /\ oldCount \in Nat /\ oldCount <= Length /\ acked \subseteq 0 .. (oldCount - 1) /\ Length \in Nat
      /\ array \in [0 .. (Length - 1) -> Int]
      /\ newCount = Cardinality(Staying) /\ Compacted(array, newCount) /\ Untouched(array, newCount)
  BY LoopAssumption DEF LoopInv
<1>2. Staying \in SUBSET Int /\ IsFiniteSet(Staying) /\ Staying \subseteq 1 .. Length
  BY <1>1, AllStaying
<1>3. DOMAIN before = 1 .. Length
  OBVIOUS
<1> HIDE DEF before
<1>4. /\ newCount \in 0 .. Length
      /\ \A j \in Staying : UpTo(Staying, j) \in 1 .. newCount /\ result[UpTo(Staying, j)] = before[j]
      /\ \A s \in (newCount + 1) .. Length : result[s] = before[s]
  BY <1>1, <1>2, <1>3, CompactKeeps
<1> HIDE DEF result
<1>5. ASSUME NEW s \in 0 .. (Length - 1) PROVE array[s] = result[s + 1]
  <2>1. s + 1 \in 1 .. Length /\ before[s + 1] = s /\ array[s] \in Int
    BY <1>1 DEF before
  <2>2. CASE s < newCount
    <3>1. s \in 0 .. (newCount - 1)
      BY <1>4, <2>2
    <3>2. array[s] + 1 \in Staying /\ UpTo(Staying, array[s] + 1) = s + 1
      BY <1>1, <3>1 DEF Compacted
    <3>3. array[s] + 1 \in 1 .. Length
      BY <1>2, <3>2
    <3>4. before[array[s] + 1] = array[s]
      BY <2>1, <3>3 DEF before
    <3> QED  BY <1>4, <3>2, <3>4
  <2>3. CASE ~(s < newCount)
    <3>1. array[s] = s /\ s + 1 \in (newCount + 1) .. Length
      BY <1>1, <1>4, <2>3 DEF Untouched
    <3> QED  BY <1>4, <2>1, <3>1
  <2> QED  BY <2>2, <2>3
<1> QED  BY <1>1, <1>5

LEMMA LoopReads == ASSUME LoopInv PROVE Loop!ReadsEachPacketOnce
<1> SUFFICES ASSUME pc = "loop", NEW s \in i .. (oldCount - 1) PROVE array[s] = s
  BY DEF Loop!ReadsEachPacketOnce
<1>1. oldCount \in 0 .. Length /\ Length \in Nat /\ LoopAtWork
  BY LoopAssumption DEF LoopInv
<1>2. GapStart \in Nat /\ shift \in Nat /\ GapStart + shift <= i /\ i \in 0 .. oldCount /\ Untouched(array, GapStart)
  BY <1>1 DEF LoopAtWork
<1>3. s \in 0 .. (Length - 1) /\ s >= GapStart
  BY <1>1, <1>2
<1> QED  BY <1>2, <1>3 DEF Untouched

(* For every array and every acknowledgement, the loop of                    *)
(* chiaki_takion_send_buffer_ack leaves exactly the packets that were not    *)
(* acknowledged, in their order, and looks at each packet once.              *)
THEOREM GapsAreClosed == MCSpec => []ClosesAllGaps
<1>1. MCInit => LoopInv
  BY LoopStarts DEF MCInit
<1>2. LoopInv => ClosesAllGaps
  BY LoopCompacts, LoopReads DEF ClosesAllGaps
<1> QED  BY <1>1, <1>2, LoopNextKeeps, PTL DEF MCSpec, TakionVars

-----------------------------------------------------------------------------
(* The buffer of sent packets                                                *)

(* A number a sender works with is one of the positions that are sent.       *)
SendersInv ==
  /\ seqNumLocal \in Int /\ FirstPos <= seqNumLocal
  /\ sender \in [Senders -> [pc : {"idle", "numbered", "sent"}, pos : Int]]
  /\ \A th \in Senders : sender[th].pc # "idle" => sender[th].pos \in Buffer!Positions

PacketSlots(arr) == arr \in [1 .. Capacity -> [pos : Int, tries : Int, age : Int]]
PositionsIn(arr, n) == {arr[s].pos : s \in 1 .. n}
EachOnce(arr, n) == \A s, t \in 1 .. n : arr[s].pos = arr[t].pos => s = t

StoredInv ==
  /\ PacketSlots(packets) /\ packetsCount \in 0 .. Capacity
  /\ EachOnce(packets, packetsCount)
  /\ PositionsIn(packets, packetsCount) \subseteq tracked
  /\ PositionsIn(packets, packetsCount) \subseteq Buffer!Positions
  /\ fini # "done" => tracked \subseteq PositionsIn(packets, packetsCount) \cup received \cup gaveUp

ThreadFields(r) ==
  /\ r = [pc |-> r.pc, slot |-> r.slot, timed |-> r.timed]
  /\ r.timed \in BOOLEAN
SleepInv == ThreadFields(thread) /\ Buffer!NeverSleepsOnPackets

BufferInv == SendersInv /\ StoredInv /\ SleepInv

LEMMA BufferConstants ==
  /\ Capacity \in Nat /\ Capacity >= 1 /\ FirstPos \in Int /\ LastPos \in Int /\ LastPos - FirstPos < SeqHalf
  /\ SeqHalf \in Nat /\ Buffer!Slots = 1 .. Capacity /\ Buffer!Positions = FirstPos .. LastPos
BY Space, BufferAssumption DEF Buffer!Slots, Buffer!Positions

LEMMA BufferStarts == ASSUME Buffer!AtRest \/ Buffer!Init PROVE BufferInv
<1>1. /\ seqNumLocal = FirstPos /\ sender = [th \in Senders |-> [pc |-> "idle", pos |-> FirstPos]]
      /\ packets = [s \in 1 .. Capacity |-> [pos |-> FirstPos, tries |-> 0, age |-> 0]] /\ packetsCount = 0
      /\ tracked = {}
  BY DEF Buffer!AtRest, Buffer!Init, Buffer!Idle, Buffer!Packet, Buffer!Slots
<1>2. SendersInv
  BY <1>1, BufferConstants DEF SendersInv
<1>3. StoredInv
  BY <1>1, BufferConstants DEF StoredInv, PacketSlots, PositionsIn, EachOnce
<1>4. SleepInv
  <2>1. \/ thread = [pc |-> "start", slot |-> 1, timed |-> FALSE]
        \/ thread = [pc |-> "exited", slot |-> 1, timed |-> FALSE]
    BY DEF Buffer!AtRest, Buffer!Init
  <2>2. ThreadFields(thread)
    <3>1. ASSUME NEW p, thread = [pc |-> p, slot |-> 1, timed |-> FALSE] PROVE ThreadFields(thread)
      <4>1. thread.pc = p /\ thread.slot = 1 /\ thread.timed = FALSE
        BY <3>1
      <4> QED  BY <3>1, <4>1 DEF ThreadFields
    <3> QED  BY <2>1, <3>1
  <2>3. Buffer!NeverSleepsOnPackets
    BY <1>1 DEF Buffer!NeverSleepsOnPackets
  <2> QED  BY <2>2, <2>3 DEF SleepInv
<1> QED  BY <1>2, <1>3, <1>4 DEF BufferInv

LEMMA SendersKeep == ASSUME SendersInv, [Buffer!Next]_bufferVars PROVE SendersInv'
<1> USE BufferConstants
<1>1. ASSUME NEW th \in Senders, Buffer!TakeSeqNum(th) PROVE SendersInv'
  <2>1. seqNumLocal \in Buffer!Positions /\ seqNumLocal' = seqNumLocal + 1
        /\ sender' = [sender EXCEPT ![th] = [pc |-> "numbered", pos |-> seqNumLocal]]
    BY <1>1 DEF Buffer!TakeSeqNum, SendersInv
  <2> QED  BY <2>1 DEF SendersInv
<1>2. ASSUME NEW th \in Senders, Buffer!Transmit(th) PROVE SendersInv'
  BY <1>2 DEF Buffer!Transmit, SendersInv
<1>3. ASSUME NEW th \in Senders, Buffer!TransmitFails(th) \/ Buffer!Push(th) PROVE SendersInv'
  BY <1>3 DEF Buffer!TransmitFails, Buffer!Push, SendersInv, Buffer!Idle
<1>4. CASE UNCHANGED <<seqNumLocal, sender>>
  BY <1>4 DEF SendersInv
<1>5. CASE Buffer!SenderStep
  BY <1>1, <1>2, <1>3, <1>5 DEF Buffer!SenderStep
<1>6. CASE Buffer!ThreadStep
  BY <1>4, <1>6 DEF Buffer!ThreadStep, Buffer!Start, Buffer!CheckPredicate, Buffer!Park, Buffer!WakeupTimeout,
     Buffer!WokenByTimeout, Buffer!WokenBySignal, Buffer!GiveUp, Buffer!ResumeResend
<1>7. CASE Buffer!FiniStep \/ Buffer!PeerStep \/ Buffer!Tick
  BY <1>4, <1>7 DEF Buffer!FiniStep, Buffer!PeerStep, Buffer!Tick, Buffer!FiniStop, Buffer!FiniSignal,
     Buffer!FiniJoin, Buffer!Receive, Buffer!Ack
<1>8. CASE UNCHANGED bufferVars
  BY <1>4, <1>8 DEF bufferVars
<1> QED  BY <1>5, <1>6, <1>7, <1>8 DEF Buffer!Next

(* Steps that leave every packet where it is.                                *)
SamePositions ==
  /\ PacketSlots(packets') /\ \A s \in 1 .. Capacity : packets'[s].pos = packets[s].pos
  /\ UNCHANGED <<packetsCount, tracked, gaveUp>> /\ received \subseteq received'
  /\ fini' # "done" => fini # "done"

LEMMA SamePositionsKeep == ASSUME StoredInv, SamePositions PROVE StoredInv'
<1>1. packetsCount \in 0 .. Capacity /\ packetsCount' = packetsCount /\ Capacity \in Nat
  BY BufferConstants DEF StoredInv, SamePositions
<1>2. \A s \in 1 .. packetsCount : packets'[s].pos = packets[s].pos
  BY <1>1 DEF SamePositions
<1>3. PositionsIn(packets, packetsCount)' = PositionsIn(packets, packetsCount)
  BY <1>1, <1>2 DEF PositionsIn
<1>4. EachOnce(packets, packetsCount)'
  BY <1>1, <1>2 DEF EachOnce, StoredInv
<1>5. (fini # "done" => tracked \subseteq PositionsIn(packets, packetsCount) \cup received \cup gaveUp)'
  BY <1>3 DEF StoredInv, SamePositions
<1> QED  BY <1>1, <1>3, <1>4, <1>5 DEF StoredInv, SamePositions

LEMMA ResendKeepsPositions ==
  ASSUME StoredInv, NEW k, Buffer!ResendFrom(k)
  PROVE  PacketSlots(packets') /\ \A s \in 1 .. Capacity : packets'[s].pos = packets[s].pos
<1>1. PacketSlots(packets) /\ Buffer!Slots = 1 .. Capacity
  BY BufferConstants DEF StoredInv
<1>2. PICK passed : packets' = [s \in 1 .. Capacity |-> IF s \in passed
                                                         THEN [packets[s] EXCEPT !.age = 0, !.tries = @ + 1]
                                                         ELSE packets[s]]
  <2> DEFINE ahead == {s \in Buffer!UsedSlots : s >= k}
             spent == {s \in ahead : Buffer!Exhausted(s)}
             passed == {s \in ahead : Buffer!Due(s) /\ \A t \in spent : s < t}
  <2>1. packets' = [s \in 1 .. Capacity |-> IF s \in passed THEN [packets[s] EXCEPT !.age = 0, !.tries = @ + 1]
                                                            ELSE packets[s]]
    BY <1>1, Zenon DEF Buffer!ResendFrom
  <2> QED  BY <2>1
<1>3. ASSUME NEW s \in 1 .. Capacity
      PROVE  packets'[s] \in [pos : Int, tries : Int, age : Int] /\ packets'[s].pos = packets[s].pos
  <2>1. packets[s] \in [pos : Int, tries : Int, age : Int]
    BY <1>1 DEF PacketSlots
  <2>2. packets'[s] = packets[s] \/ packets'[s] = [packets[s] EXCEPT !.age = 0, !.tries = @ + 1]
    BY <1>2
  <2>3. CASE packets'[s] = packets[s]
    BY <2>1, <2>3
  <2>4. CASE packets'[s] = [packets[s] EXCEPT !.age = 0, !.tries = @ + 1]
    <3>1. packets[s].tries + 1 \in Int
      BY <2>1
    <3>2. packets'[s] = [pos |-> packets[s].pos, tries |-> packets[s].tries + 1, age |-> 0]
      BY <2>1, <2>4, Zenon
    <3> QED  BY <2>1, <3>1, <3>2
  <2> QED  BY <2>2, <2>3, <2>4
<1> QED  BY <1>2, <1>3 DEF PacketSlots

LEMMA TickKeepsPositions ==
  ASSUME StoredInv, Buffer!Tick
  PROVE  PacketSlots(packets') /\ \A s \in 1 .. Capacity : packets'[s].pos = packets[s].pos
<1>1. PacketSlots(packets) /\ Buffer!Slots = 1 .. Capacity
  BY BufferConstants DEF StoredInv
<1>2. PICK older : packets' = [s \in 1 .. Capacity |-> IF s \in older THEN [packets[s] EXCEPT !.age = @ + 1]
                                                                       ELSE packets[s]]
  <2> DEFINE older == {s \in 1 .. Capacity : s \in Buffer!UsedSlots /\ packets[s].age < DueAge}
  <2>1. packets' = [s \in 1 .. Capacity |-> IF s \in older THEN [packets[s] EXCEPT !.age = @ + 1] ELSE packets[s]]
    BY <1>1 DEF Buffer!Tick
  <2> QED  BY <2>1
<1> QED  BY <1>1, <1>2 DEF PacketSlots

LEMMA PushStores ==
  ASSUME StoredInv, SendersInv, NEW th \in Senders, Buffer!Push(th)
  PROVE  StoredInv'
<1> DEFINE p == sender[th].pos
           n == packetsCount
<1>0. /\ p \in Buffer!Positions /\ p \in Int
      /\ n \in 0 .. Capacity /\ Capacity \in Nat /\ PacketSlots(packets)
      /\ UNCHANGED <<fini, received, gaveUp>>
  BY BufferConstants DEF StoredInv, SendersInv, Buffer!Push, Buffer!peerVars
<1>1. CASE UNCHANGED <<packets, packetsCount, tracked>>
  BY <1>0, <1>1 DEF StoredInv, PositionsIn, EachOnce
<1>2. CASE ~UNCHANGED <<packets, packetsCount, tracked>>
  <2>1. /\ n < Capacity /\ \A s \in 1 .. n : Buffer!Cast(packets[s].pos) # Buffer!Cast(p)
        /\ packetsCount' = n + 1 /\ tracked' = tracked \cup {p}
        /\ packets' = [packets EXCEPT ![n + 1] = [pos |-> p, tries |-> 0, age |-> 0]]
    BY <1>0, <1>2 DEF Buffer!Push, Buffer!UsedSlots, Buffer!Packet, Buffer!bufferVars
  <2> HIDE DEF p
  <2>2. PacketSlots(packets') /\ n + 1 \in 1 .. Capacity
    BY <1>0, <2>1 DEF PacketSlots
  <2>3. packets'[n + 1].pos = p /\ \A s \in 1 .. n : packets'[s].pos = packets[s].pos /\ packets[s].pos # p
    BY <1>0, <2>1, <2>2 DEF PacketSlots
  <2>4. \A s \in 1 .. (n + 1) : s = n + 1 \/ s \in 1 .. n
    BY <1>0
  <2>5. PositionsIn(packets, packetsCount)' = PositionsIn(packets, packetsCount) \cup {p}
    <3>1. n + 1 \in 1 .. (n + 1) /\ \A s \in 1 .. n : s \in 1 .. (n + 1)
      BY <1>0
    <3> QED  BY <2>1, <2>3, <2>4, <3>1 DEF PositionsIn
  <2>6. EachOnce(packets, packetsCount)'
    BY <2>1, <2>3, <2>4 DEF EachOnce, StoredInv
  <2>7. packetsCount' \in 0 .. Capacity
    BY <1>0, <2>1
  <2> QED  BY <1>0, <2>1, <2>2, <2>5, <2>6, <2>7 DEF StoredInv
<1> QED  BY <1>1, <1>2

(* An acknowledgement of p covers only positions up to p.                    *)
LEMMA AckCovers ==
  ASSUME StoredInv, NEW p \in Buffer!Positions, NEW s \in Buffer!AckedSlots(Buffer!Cast(p))
  PROVE  packets[s].pos <= p
<1> DEFINE a == packets[s].pos
<1>1. a \in FirstPos .. LastPos /\ p \in FirstPos .. LastPos
  BY BufferConstants DEF StoredInv, PositionsIn, Buffer!AckedSlots, Buffer!UsedSlots
<1>2. a \in Int /\ p \in Int /\ a - p \in (1 - SeqHalf) .. (SeqHalf - 1)
  BY <1>1, BufferConstants
<1>3. Buffer!Cast(a) = Buffer!Cast(p) \/ Buffer!SeqLt(a, Buffer!Cast(p))
  BY DEF Buffer!AckedSlots
<1> HIDE DEF a
<1>4. Buffer!Cast(a) = Queue!Cast(a) /\ Buffer!Cast(p) = Queue!Cast(p)
  BY DEF Buffer!Cast, Queue!Cast
<1>5. Buffer!SeqLt(a, Buffer!Cast(p)) <=> Queue!SeqLt(Queue!Cast(a), Queue!Cast(p))
  BY <1>2, CastType DEF Buffer!Cast, Queue!Cast, Buffer!SeqLt, Queue!SeqLt, Buffer!SeqHalf, Queue!SeqHalf
<1>6. a = p \/ a < p
  BY <1>2, <1>3, <1>4, <1>5, Order
<1>7. a <= p
  BY <1>2, <1>6
<1> QED  BY <1>7 DEF a

(* What removing packets leaves.                                             *)
LEMMA RemoveKeeps ==
  ASSUME StoredInv, NEW seq, Buffer!RemoveUpTo(seq)
  PROVE  /\ PacketSlots(packets') /\ packetsCount' \in 0 .. Capacity /\ packetsCount' <= packetsCount
         /\ EachOnce(packets', packetsCount')
         /\ PositionsIn(packets', packetsCount') =
              {packets[s].pos : s \in Buffer!UsedSlots \ Buffer!AckedSlots(seq)}
<1> DEFINE kept == Buffer!UsedSlots \ Buffer!AckedSlots(seq)
<1>1. /\ packetsCount \in 0 .. Capacity /\ Capacity \in Nat /\ PacketSlots(packets)
      /\ EachOnce(packets, packetsCount) /\ kept \subseteq 1 .. packetsCount
  BY BufferConstants DEF StoredInv, Buffer!UsedSlots
<1>2. packets' = Compact(packets, kept) /\ packetsCount' = Cardinality(kept)
  BY SameCardinality DEF Buffer!RemoveUpTo, Compact
<1> HIDE DEF kept
<1>3. packetsCount \in Nat /\ kept \in SUBSET (1 .. packetsCount) /\ kept \in SUBSET Int /\ kept \subseteq 1 .. Capacity
  BY <1>1
<1>4. IsFiniteSet(kept) /\ Cardinality(kept) \in Nat /\ Cardinality(kept) <= packetsCount
  <2>1. IsFiniteSet(1 .. packetsCount) /\ Cardinality(1 .. packetsCount) = packetsCount
    <3>1. packetsCount \in Int /\ 1 \in Int /\ (IF 1 > packetsCount THEN 0 ELSE packetsCount - 1 + 1) = packetsCount
      BY <1>3
    <3> QED  BY <3>1, FS_Interval
  <2> QED  BY <1>3, <2>1, FS_Subset, FS_CardinalityType
<1> DEFINE n == Cardinality(kept)
<1>5. DOMAIN packets = 1 .. Capacity
  BY <1>1 DEF PacketSlots
<1>6. /\ DOMAIN packets' = 1 .. Capacity
      /\ \A s \in 1 .. n : \E j \in kept : UpTo(kept, j) = s /\ packets'[s] = packets[j]
      /\ \A j \in kept : UpTo(kept, j) \in 1 .. n /\ packets'[UpTo(kept, j)] = packets[j]
      /\ \A s \in (n + 1) .. Capacity : packets'[s] = packets[s]
  BY <1>1, <1>2, <1>3, <1>4, <1>5, CompactKeeps
<1>7. n \in Nat /\ n <= packetsCount /\ packetsCount' = n
  BY <1>2, <1>4
<1> HIDE DEF n
<1>8. PacketSlots(packets')
  <2>1. packets' = [s \in 1 .. Capacity |-> packets'[s]]
    BY <1>2, <1>5 DEF Compact, Buffer!Compact
  <2>2. ASSUME NEW s \in 1 .. Capacity PROVE \E j \in 1 .. Capacity : packets'[s] = packets[j]
    <3>1. s \in 1 .. n \/ s \in (n + 1) .. Capacity
      BY <1>1, <1>7
    <3> QED  BY <1>3, <1>6, <3>1
  <2> QED  BY <1>1, <2>1, <2>2 DEF PacketSlots
<1>9. EachOnce(packets', n)
  <2> SUFFICES ASSUME NEW s \in 1 .. n, NEW t \in 1 .. n, packets'[s].pos = packets'[t].pos PROVE s = t
    BY DEF EachOnce
  <2>1. PICK j \in kept : UpTo(kept, j) = s /\ packets'[s] = packets[j]
    BY <1>6
  <2>2. PICK k \in kept : UpTo(kept, k) = t /\ packets'[t] = packets[k]
    BY <1>6
  <2>3. j \in 1 .. packetsCount /\ k \in 1 .. packetsCount
    BY <1>3
  <2>4. j = k
    BY <1>1, <2>1, <2>2, <2>3 DEF EachOnce
  <2> QED  BY <2>1, <2>2, <2>4
<1>10. PositionsIn(packets', n) = {packets[s].pos : s \in kept}
  BY <1>6 DEF PositionsIn
<1>11. n \in 0 .. Capacity
  BY <1>1, <1>7
<1> QED  BY <1>7, <1>8, <1>9, <1>10, <1>11 DEF kept

(* The packets that leave are among those given away.                        *)
LEMMA RemovedKeep ==
  ASSUME StoredInv, NEW seq, Buffer!RemoveUpTo(seq), UNCHANGED <<tracked, fini, received>>, gaveUp \subseteq gaveUp',
         \A s \in Buffer!AckedSlots(seq) : packets[s].pos \in received \cup gaveUp'
  PROVE  StoredInv'
<1> DEFINE kept == Buffer!UsedSlots \ Buffer!AckedSlots(seq)
<1>1. /\ PacketSlots(packets') /\ packetsCount' \in 0 .. Capacity /\ EachOnce(packets', packetsCount')
      /\ PositionsIn(packets', packetsCount') = {packets[s].pos : s \in kept}
  BY RemoveKeeps
<1>2. PositionsIn(packets', packetsCount') \subseteq PositionsIn(packets, packetsCount)
  BY <1>1 DEF PositionsIn, Buffer!UsedSlots
<1>3. PositionsIn(packets, packetsCount) \subseteq PositionsIn(packets', packetsCount') \cup received \cup gaveUp'
  BY <1>1 DEF PositionsIn, Buffer!UsedSlots
<1>4. Buffer!Positions' = Buffer!Positions
  BY DEF Buffer!Positions
<1> QED  BY <1>1, <1>2, <1>3, <1>4 DEF StoredInv

LEMMA StoredKeep == ASSUME StoredInv, SendersInv, [Buffer!Next]_bufferVars PROVE StoredInv'
<1>1. ASSUME NEW p \in Buffer!Positions, Buffer!Ack(p) PROVE StoredInv'
  <2>1. /\ Buffer!RemoveUpTo(Buffer!Cast(p)) /\ FirstPos .. p \subseteq received
        /\ UNCHANGED <<tracked, fini, received, gaveUp>>
    BY <1>1 DEF Buffer!Ack, Buffer!peerVars
  <2>2. ASSUME NEW s \in Buffer!AckedSlots(Buffer!Cast(p)) PROVE packets[s].pos \in received
    <3>1. packets[s].pos <= p
      BY AckCovers
    <3>2. packets[s].pos \in FirstPos .. LastPos
      BY BufferConstants DEF StoredInv, PositionsIn, Buffer!AckedSlots, Buffer!UsedSlots
    <3>3. packets[s].pos \in FirstPos .. p
      BY <3>1, <3>2, BufferConstants
    <3> QED  BY <2>1, <3>3
  <2> QED  BY <2>1, <2>2, RemovedKeep
<1>2. CASE Buffer!GiveUp
  <2> DEFINE seq == Buffer!Cast(packets[thread.slot].pos)
  <2>1. /\ Buffer!RemoveUpTo(seq) /\ gaveUp' = gaveUp \cup {packets[s].pos : s \in Buffer!AckedSlots(seq)}
        /\ UNCHANGED <<tracked, fini, received>>
    BY <1>2 DEF Buffer!GiveUp, Buffer!peerVars
  <2> HIDE DEF seq
  <2> QED  BY <2>1, RemovedKeep
<1>3. CASE Buffer!FiniJoin
  <2>1. packetsCount' = 0 /\ fini' = "done" /\ UNCHANGED packets
    BY <1>3 DEF Buffer!FiniJoin
  <2>2. PositionsIn(packets', 0) = {} /\ EachOnce(packets', 0)
    BY DEF PositionsIn, EachOnce
  <2>3. 0 \in 0 .. Capacity
    BY BufferConstants
  <2> QED  BY <2>1, <2>2, <2>3 DEF StoredInv
<1>4. ASSUME SamePositions PROVE StoredInv'
  BY <1>4, SamePositionsKeep
<1>5. ASSUME UNCHANGED <<packets, packetsCount, tracked, gaveUp>>, received \subseteq received', fini' # "done" => fini # "done"
      PROVE  StoredInv'
  BY <1>4, <1>5 DEF SamePositions, StoredInv
<1>6. ASSUME NEW k, Buffer!ResendFrom(k), UNCHANGED <<packetsCount, tracked, gaveUp, received, fini>> PROVE StoredInv'
  BY <1>4, <1>6, ResendKeepsPositions DEF SamePositions
<1>7. ASSUME NEW th \in Senders, Buffer!TakeSeqNum(th) \/ Buffer!Transmit(th) \/ Buffer!TransmitFails(th) PROVE StoredInv'
  BY <1>5, <1>7 DEF Buffer!TakeSeqNum, Buffer!Transmit, Buffer!TransmitFails, Buffer!bufferVars, Buffer!peerVars
<1>8. CASE Buffer!Start \/ Buffer!CheckPredicate \/ Buffer!Park \/ Buffer!WakeupTimeout \/ Buffer!FiniStop \/ Buffer!FiniSignal
  BY <1>5, <1>8 DEF Buffer!Start, Buffer!CheckPredicate, Buffer!Park, Buffer!WakeupTimeout, Buffer!FiniStop,
     Buffer!FiniSignal, Buffer!bufferVars, Buffer!peerVars
<1>9. CASE Buffer!WokenByTimeout
  BY <1>5, <1>6, <1>9 DEF Buffer!WokenByTimeout
<1>10. CASE Buffer!WokenBySignal
  BY <1>5, <1>6, <1>10 DEF Buffer!WokenBySignal
<1>11. CASE Buffer!ResumeResend
  BY <1>6, <1>11 DEF Buffer!ResumeResend
<1>12. CASE Buffer!Tick
  BY <1>4, <1>12, TickKeepsPositions DEF SamePositions, Buffer!Tick, Buffer!peerVars
<1>13. ASSUME NEW p \in Buffer!Positions, Buffer!Receive(p) PROVE StoredInv'
  BY <1>5, <1>13 DEF Buffer!Receive, Buffer!bufferVars
<1>14. CASE UNCHANGED bufferVars
  BY <1>5, <1>14 DEF bufferVars
<1>15. CASE Buffer!SenderStep
  BY <1>7, <1>15, PushStores DEF Buffer!SenderStep
<1>16. CASE Buffer!ThreadStep
  BY <1>2, <1>8, <1>9, <1>10, <1>11, <1>16 DEF Buffer!ThreadStep
<1>17. CASE Buffer!FiniStep \/ Buffer!PeerStep
  BY <1>1, <1>3, <1>8, <1>13, <1>17 DEF Buffer!FiniStep, Buffer!PeerStep
<1> QED  BY <1>12, <1>14, <1>15, <1>16, <1>17 DEF Buffer!Next

LEMMA SleepKeeps == ASSUME StoredInv, SleepInv, [Buffer!Next]_bufferVars PROVE SleepInv'
<1>0. ThreadFields(thread) /\ (packetsCount > 0 => ~(thread.pc \in {"parking", "parked"} /\ ~thread.timed))
      /\ packetsCount \in Nat
  BY BufferConstants DEF SleepInv, Buffer!NeverSleepsOnPackets, StoredInv
<1>1. ASSUME UNCHANGED thread, packetsCount' \in Nat, packetsCount' <= packetsCount PROVE SleepInv'
  <2>1. packetsCount' > 0 => packetsCount > 0
    BY <1>0, <1>1
  <2> QED  BY <1>0, <1>1, <2>1 DEF SleepInv, Buffer!NeverSleepsOnPackets
<1>2. ASSUME NEW p, p \notin {"parking", "parked"}, NEW t \in BOOLEAN, NEW s,
             thread' = [pc |-> p, slot |-> s, timed |-> t]
      PROVE  SleepInv'
  BY <1>2 DEF SleepInv, Buffer!NeverSleepsOnPackets, ThreadFields
<1>3. ASSUME NEW p, p \notin {"parking", "parked"}, thread' = [thread EXCEPT !.pc = p] PROVE SleepInv'
  <2>1. thread' = [pc |-> p, slot |-> thread.slot, timed |-> thread.timed]
    BY <1>0, <1>3 DEF ThreadFields
  <2> QED  BY <1>0, <1>2, <1>3, <2>1 DEF ThreadFields
<1>4. ASSUME NEW k, Buffer!ResendFrom(k) PROVE SleepInv'
  <2>1. CASE thread' = [thread EXCEPT !.pc = "top"]
    BY <1>3, <2>1
  <2>2. CASE ~(thread' = [thread EXCEPT !.pc = "top"])
    <3>1. PICK s : thread' = [thread EXCEPT !.pc = "givingUp", !.slot = s]
      BY <1>4, <2>2 DEF Buffer!ResendFrom
    <3>2. thread' = [pc |-> "givingUp", slot |-> s, timed |-> thread.timed]
      BY <1>0, <3>1 DEF ThreadFields
    <3> QED  BY <1>0, <1>2, <3>2 DEF ThreadFields
  <2> QED  BY <2>1, <2>2
<1>5. ASSUME thread' = Buffer!Signalled(thread), 
             packetsCount' = packetsCount \/ thread.pc # "parking"
      PROVE  SleepInv'
  <2>1. CASE thread.pc = "parked"
    BY <1>3, <1>5, <2>1 DEF Buffer!Signalled
  <2>2. CASE thread.pc # "parked"
    <3>1. thread' = thread
      BY <1>5, <2>2 DEF Buffer!Signalled
    <3>2. CASE packetsCount' = packetsCount
      BY <1>0, <3>1, <3>2 DEF SleepInv, Buffer!NeverSleepsOnPackets
    <3>3. CASE thread.pc # "parking"
      BY <1>0, <2>2, <3>1, <3>3 DEF SleepInv, Buffer!NeverSleepsOnPackets
    <3> QED  BY <1>5, <3>2, <3>3
  <2> QED  BY <2>1, <2>2
<1>6. ASSUME thread' = [thread EXCEPT !.pc = "parked"] \/ thread' = [thread EXCEPT !.pc = "parking"],
             packetsCount' = packetsCount, packetsCount > 0 => thread.timed
      PROVE  SleepInv'
  <2>1. thread' = [pc |-> thread'.pc, slot |-> thread.slot, timed |-> thread.timed]
    BY <1>0, <1>6 DEF ThreadFields
  <2> QED  BY <1>0, <1>6, <2>1 DEF SleepInv, Buffer!NeverSleepsOnPackets, ThreadFields
<1>7. ASSUME NEW th \in Senders, Buffer!Push(th) PROVE SleepInv'
  <2>0. thread.pc \notin {"top", "parking"}
    BY <1>7 DEF Buffer!Push, Buffer!MutexFree
  <2>1. CASE UNCHANGED <<packets, packetsCount, thread>>
    BY <1>0, <1>1, <2>1
  <2>2. CASE packetsCount' = packetsCount + 1 /\ thread' = IF packetsCount = 0 THEN Buffer!Signalled(thread) ELSE thread
    <3>1. CASE packetsCount = 0
      BY <1>5, <2>0, <2>2, <3>1
    <3>2. CASE packetsCount # 0
      <4>1. packetsCount > 0 /\ thread' = thread
        BY <1>0, <2>2, <3>2
      <4> QED  BY <1>0, <4>1 DEF SleepInv, Buffer!NeverSleepsOnPackets
    <3> QED  BY <3>1, <3>2
  <2> QED  BY <1>7, <2>1, <2>2 DEF Buffer!Push, Buffer!bufferVars
<1>8. ASSUME NEW th \in Senders, Buffer!TakeSeqNum(th) \/ Buffer!Transmit(th) \/ Buffer!TransmitFails(th) PROVE SleepInv'
  BY <1>0, <1>1, <1>8 DEF Buffer!TakeSeqNum, Buffer!Transmit, Buffer!TransmitFails, Buffer!bufferVars
<1>9. CASE Buffer!Start
  BY <1>3, <1>9 DEF Buffer!Start
<1>10. CASE Buffer!CheckPredicate
  <2>1. thread' = [pc |-> IF bufferStop THEN "exited" ELSE "parking", slot |-> thread.slot, timed |-> packetsCount > 0]
        /\ packetsCount' = packetsCount
    <3>1. thread = [pc |-> thread.pc, slot |-> thread.slot, timed |-> thread.timed]
      BY <1>0 DEF ThreadFields
    <3>2. thread' = [thread EXCEPT !.pc = IF bufferStop THEN "exited" ELSE "parking", !.timed = packetsCount > 0]
      BY <1>10 DEF Buffer!CheckPredicate
    <3>3. packetsCount' = packetsCount
      BY <1>10 DEF Buffer!CheckPredicate, Buffer!bufferVars
    <3> DEFINE p == IF bufferStop THEN "exited" ELSE "parking"
               t == packetsCount > 0
    <3>4. thread' = [thread EXCEPT !.pc = p, !.timed = t]
      BY <3>2
    <3> HIDE DEF p, t
    <3>5. thread' = [pc |-> p, slot |-> thread.slot, timed |-> t]
      BY <3>1, <3>4
    <3> QED  BY <3>3, <3>5 DEF p, t
  <2>2. thread'.timed = (packetsCount > 0) /\ ThreadFields(thread')
    BY <2>1 DEF ThreadFields
  <2> QED  BY <2>1, <2>2 DEF SleepInv, Buffer!NeverSleepsOnPackets
<1>11. CASE Buffer!Park
  BY <1>0, <1>6, <1>11 DEF Buffer!Park, Buffer!bufferVars, ThreadFields
<1>12. CASE Buffer!WakeupTimeout
  BY <1>3, <1>12 DEF Buffer!WakeupTimeout
<1>13. CASE Buffer!WokenByTimeout
  BY <1>3, <1>4, <1>13 DEF Buffer!WokenByTimeout, Buffer!StopThread
<1>14. CASE Buffer!WokenBySignal
  <2>1. CASE bufferStop /\ Buffer!StopThread
    BY <1>3, <2>1 DEF Buffer!StopThread
  <2>2. CASE Buffer!ResendFrom(1)
    BY <1>4, <2>2
  <2>3. CASE (thread.timed \/ packetsCount = 0) /\ thread' = [thread EXCEPT !.pc = "parking"]
    <3>1. packetsCount' = packetsCount /\ (packetsCount > 0 => thread.timed)
      BY <1>0, <1>14, <2>3 DEF Buffer!WokenBySignal
    <3> QED  BY <1>6, <2>3, <3>1
  <2> QED  BY <1>14, <2>1, <2>2, <2>3 DEF Buffer!WokenBySignal
<1>15. CASE Buffer!GiveUp
  BY <1>3, <1>15 DEF Buffer!GiveUp
<1>16. CASE Buffer!ResumeResend
  BY <1>4, <1>16 DEF Buffer!ResumeResend
<1>17. CASE Buffer!FiniSignal
  BY <1>5, <1>17 DEF Buffer!FiniSignal, Buffer!bufferVars
<1>18. CASE Buffer!FiniStop \/ Buffer!FiniJoin \/ Buffer!Tick
  BY <1>0, <1>1, <1>18 DEF Buffer!FiniStop, Buffer!FiniJoin, Buffer!Tick, Buffer!bufferVars
<1>19. ASSUME NEW p, Buffer!Receive(p) PROVE SleepInv'
  BY <1>0, <1>1, <1>19 DEF Buffer!Receive, Buffer!bufferVars
<1>20. ASSUME NEW p, Buffer!Ack(p) PROVE SleepInv'
  <2>1. packetsCount' \in 0 .. Capacity /\ packetsCount' <= packetsCount /\ thread' = thread
    BY <1>20, RemoveKeeps DEF Buffer!Ack
  <2> QED  BY <1>1, <2>1, BufferConstants
<1>21. CASE UNCHANGED bufferVars
  BY <1>0, <1>1, <1>21 DEF bufferVars
<1>22. CASE Buffer!SenderStep
  BY <1>7, <1>8, <1>22 DEF Buffer!SenderStep
<1>23. CASE Buffer!ThreadStep
  BY <1>9, <1>10, <1>11, <1>12, <1>13, <1>14, <1>15, <1>16, <1>23 DEF Buffer!ThreadStep
<1>24. CASE Buffer!FiniStep \/ Buffer!PeerStep \/ Buffer!Tick
  BY <1>17, <1>18, <1>19, <1>20, <1>24 DEF Buffer!FiniStep, Buffer!PeerStep
<1> QED  BY <1>21, <1>22, <1>23, <1>24 DEF Buffer!Next

LEMMA BufferNextKeeps == ASSUME BufferInv, [MCNext]_TakionVars PROVE BufferInv'
<1>1. [Buffer!Next]_bufferVars
  BY DEF MCNext, TakionVars
<1> QED  BY <1>1, SendersKeep, StoredKeep, SleepKeeps DEF BufferInv

(* A packet the buffer took over stays in it, once, until the console has it *)
(* or it was given up, and the resend thread never waits without a timeout   *)
(* while the buffer holds packets; and the loop of an acknowledgement does    *)
(* what the buffer takes for one step.                                      *)
THEOREM PacketsStay == MCSpec => []NothingVanishes
<1>1. MCInit => BufferInv
  BY BufferStarts DEF MCInit
<1>2. BufferInv => Buffer!NothingVanishes /\ Buffer!NeverSleepsOnPackets
  <2>1. Buffer!Buffered = PositionsIn(packets, packetsCount)
    BY DEF Buffer!Buffered, Buffer!UsedSlots, PositionsIn
  <2> QED  BY <2>1 DEF BufferInv, StoredInv, SleepInv, EachOnce, Buffer!NothingVanishes, Buffer!UsedSlots
<1>3. Buffer!NothingVanishes /\ Buffer!NeverSleepsOnPackets /\ ClosesAllGaps => NothingVanishes
  BY DEF NothingVanishes
<1> QED  BY <1>1, <1>2, <1>3, GapsAreClosed, BufferNextKeeps, PTL DEF MCSpec, TakionVars
=============================================================================
