------------------------ MODULE GKCryptKeyBuf_proofs ------------------------
(***************************************************************************)
(* For every ring geometry, every number of readers and every request:     *)
(* readers get the key stream they asked for, the generator does not       *)
(* overwrite what they read, and no wakeup of the generator is missed.     *)
(***************************************************************************)
EXTENDS MCGKCryptKeyBuf, TLAPS

-----------------------------------------------------------------------------
(* Arithmetic of the ring: an offset below twice the size wraps at most once *)
LEMMA ModLow ==
  ASSUME NEW S \in Nat \ {0}, NEW x \in 0 .. (S - 1)
  PROVE  x % S = x
  BY SMT

LEMMA ModHigh ==
  ASSUME NEW S \in Nat \ {0}, NEW x \in S .. (2 * S - 1)
  PROVE  x % S = x - S
  BY SMT

LEMMA SizeType == Size \in Nat /\ Size > 0 /\ ChunkSize <= Size
<1>1. Chunks >= 1 /\ ChunkSize >= 1
  BY ChunkAssumption
<1>2. Chunks * ChunkSize >= 1 * ChunkSize
  BY <1>1, ChunkAssumption
<1> QED  BY <1>1, <1>2, ChunkAssumption DEF Size

LEMMA ModTwice ==
  \A v \in 0 .. (2 * Size - 1) : v % Size = IF v < Size THEN v ELSE v - Size
  BY SizeType, ModLow, ModHigh

(* Two slots of the window never share an offset. *)
LEMMA RingInjective ==
  ASSUME NEW a \in 0 .. (Size - 1), NEW j \in 0 .. (Size - 1), NEW k \in 0 .. (Size - 1),
         j # k
  PROVE  (a + j) % Size # (a + k) % Size
  BY ModTwice, SizeType

(* Moving the start of the window by d moves every offset with it. *)
LEMMA RingShift ==
  ASSUME NEW a \in 0 .. (Size - 1), NEW d \in 0 .. Size, NEW j \in 0 .. (Size - 1),
         d + j < Size
  PROVE  (((a + d) % Size) + j) % Size = (a + (d + j)) % Size
<1>1. CASE a + d < Size
  BY <1>1, ModTwice, SizeType
<1>2. CASE a + d >= Size
  BY <1>2, ModTwice, SizeType
<1> QED  BY <1>1, <1>2, SizeType

(* Multiples of the chunk size *)
LEMMA AlignedType == Aligned \subseteq 0 .. Size
<1> SUFFICES ASSUME NEW k \in 0 .. Chunks PROVE k * ChunkSize \in 0 .. (Chunks * ChunkSize)
  BY DEF Aligned, Size
<1>1. k * ChunkSize >= 0
  BY ChunkAssumption
<1>2. (Chunks - k) * ChunkSize >= 0
  BY ChunkAssumption
<1>3. (Chunks - k) * ChunkSize = Chunks * ChunkSize - k * ChunkSize
  BY ChunkAssumption
<1>4. k * ChunkSize \in Int /\ Chunks * ChunkSize \in Int
  BY ChunkAssumption
<1> QED  BY <1>1, <1>2, <1>3, <1>4

LEMMA AlignedGap ==
  ASSUME NEW x \in Aligned, NEW y \in Aligned, x < y
  PROVE  x + ChunkSize \in Aligned /\ x + ChunkSize <= y
<1>1. PICK k \in 0 .. Chunks : x = k * ChunkSize
  BY DEF Aligned
<1>2. PICK m \in 0 .. Chunks : y = m * ChunkSize
  BY DEF Aligned
<1>3. k < m
  <2> SUFFICES ASSUME m <= k PROVE FALSE
    BY <1>1, <1>2
  <2>1. (k - m) * ChunkSize >= 0
    BY ChunkAssumption
  <2>2. (k - m) * ChunkSize = k * ChunkSize - m * ChunkSize
    BY ChunkAssumption
  <2> QED  BY <2>1, <2>2, <1>1, <1>2, ChunkAssumption
<1>4. x + ChunkSize = (k + 1) * ChunkSize
  BY <1>1, ChunkAssumption
<1>5. (m - (k + 1)) * ChunkSize >= 0
  BY <1>3, ChunkAssumption
<1>6. (m - (k + 1)) * ChunkSize = m * ChunkSize - (k + 1) * ChunkSize
  BY ChunkAssumption
<1>7. k + 1 \in 0 .. Chunks
  BY <1>3, ChunkAssumption
<1>8. m * ChunkSize \in Int /\ (k + 1) * ChunkSize \in Int
  BY ChunkAssumption
<1> QED  BY <1>2, <1>4, <1>5, <1>6, <1>7, <1>8 DEF Aligned

LEMMA AlignedSub ==
  ASSUME NEW x \in Aligned, x >= ChunkSize
  PROVE  x - ChunkSize \in Aligned
<1>1. PICK k \in 0 .. Chunks : x = k * ChunkSize
  BY DEF Aligned
<1>2. k # 0
  BY <1>1, ChunkAssumption
<1>3. x - ChunkSize = (k - 1) * ChunkSize
  BY <1>1, ChunkAssumption
<1>4. k - 1 \in 0 .. Chunks
  BY <1>2, ChunkAssumption
<1> QED  BY <1>3, <1>4 DEF Aligned

(* The sum of two multiples, reduced into the ring, is one again. *)
LEMMA AlignedSum ==
  ASSUME NEW x \in Aligned, NEW y \in Aligned, x < Size, y <= Size
  PROVE  (x + y) % Size \in Aligned
<1>1. PICK k \in 0 .. Chunks : x = k * ChunkSize
  BY DEF Aligned
<1>2. PICK m \in 0 .. Chunks : y = m * ChunkSize
  BY DEF Aligned
<1>3. x \in 0 .. Size /\ y \in 0 .. Size
  BY AlignedType
<1>4. x + y = (k + m) * ChunkSize
  BY <1>1, <1>2, ChunkAssumption
<1>5. CASE x + y < Size
  <2>1. (x + y) % Size = x + y
    BY <1>3, <1>5, ModTwice, SizeType
  <2>2. k + m <= Chunks
    <3> SUFFICES ASSUME k + m > Chunks PROVE FALSE
      BY ChunkAssumption
    <3>1. (k + m - Chunks) * ChunkSize >= 0
      BY ChunkAssumption
    <3>2. (k + m - Chunks) * ChunkSize = (k + m) * ChunkSize - Chunks * ChunkSize
      BY ChunkAssumption
    <3>3. (k + m) * ChunkSize \in Int /\ Chunks * ChunkSize \in Int
      BY ChunkAssumption
    <3> QED  BY <3>1, <3>2, <3>3, <1>4, <1>5 DEF Size
  <2>3. k + m \in 0 .. Chunks
    BY <2>2, ChunkAssumption
  <2> QED  BY <2>1, <2>3, <1>4 DEF Aligned
<1>6. CASE x + y >= Size
  <2>1. (x + y) % Size = x + y - Size
    BY <1>3, <1>6, ModTwice, SizeType
  <2>2. x + y - Size = (k + m - Chunks) * ChunkSize
    <3>1. (k + m - Chunks) * ChunkSize = (k + m) * ChunkSize - Chunks * ChunkSize
      BY ChunkAssumption
    <3>2. Size = Chunks * ChunkSize
      BY DEF Size
    <3>3. (k + m) * ChunkSize \in Int /\ Chunks * ChunkSize \in Int
      BY ChunkAssumption
    <3> QED  BY <3>1, <3>2, <3>3, <1>3, <1>4
  <2>3. k + m >= Chunks
    <3> SUFFICES ASSUME k + m < Chunks PROVE FALSE
      BY ChunkAssumption
    <3>1. (Chunks - (k + m)) * ChunkSize >= ChunkSize
      <4>1. Chunks - (k + m) >= 1
        BY ChunkAssumption
      <4> QED  BY <4>1, ChunkAssumption
    <3>2. (Chunks - (k + m)) * ChunkSize = Chunks * ChunkSize - (k + m) * ChunkSize
      BY ChunkAssumption
    <3>3. (k + m) * ChunkSize \in Int /\ Chunks * ChunkSize \in Int
      BY ChunkAssumption
    <3> QED  BY <3>1, <3>2, <3>3, <1>4, <1>6, ChunkAssumption DEF Size
  <2>4. k + m - Chunks \in 0 .. Chunks
    BY <2>3, ChunkAssumption
  <2> QED  BY <2>1, <2>2, <2>4 DEF Aligned
<1> QED  BY <1>3, <1>5, <1>6, SizeType

(* The slots of the chunk that starts m slots behind a: none of them is one  *)
(* of the m slots, and they come in order.                                   *)
LEMMA ChunkApart ==
  ASSUME NEW a \in 0 .. (Size - 1), NEW m \in 0 .. Size, m + ChunkSize <= Size,
         ((a + m) % Size) + ChunkSize <= Size, NEW j \in 0 .. (m - 1)
  PROVE  (a + j) % Size \notin ((a + m) % Size) .. (((a + m) % Size) + ChunkSize - 1)
  BY ModTwice, SizeType, ChunkAssumption

LEMMA ChunkSlot ==
  ASSUME NEW a \in 0 .. (Size - 1), NEW m \in 0 .. Size, m + ChunkSize <= Size,
         ((a + m) % Size) + ChunkSize <= Size, NEW j \in m .. (m + ChunkSize - 1)
  PROVE  (a + j) % Size = ((a + m) % Size) + (j - m)
  BY ModTwice, SizeType, ChunkAssumption

LEMMA OffsetOfSlot ==
  ASSUME NEW a \in 0 .. (Size - 1), NEW j \in 0 .. Size
  PROVE  (a + j) % Size \in Offsets
  BY ModTwice, SizeType DEF Offsets

LEMMA StateFacts ==
  ASSUME TypeOK
  PROVE  /\ populated \in 0 .. Size /\ startOffset \in 0 .. (Size - 1)
         /\ 0 \in Aligned /\ ChunkSize \in Aligned /\ Size \in Aligned
<1>1. 0 = 0 * ChunkSize /\ ChunkSize = 1 * ChunkSize /\ Size = Chunks * ChunkSize
  BY ChunkAssumption DEF Size
<1>2. 0 \in 0 .. Chunks /\ 1 \in 0 .. Chunks /\ Chunks \in 0 .. Chunks
  BY ChunkAssumption
<1>3. 0 \in Aligned /\ ChunkSize \in Aligned /\ Size \in Aligned
  BY <1>1, <1>2 DEF Aligned
<1>4. populated \in 0 .. Size /\ startOffset \in 0 .. Size /\ startOffset < Size
  BY AlignedType DEF TypeOK
<1> QED  BY <1>3, <1>4, SizeType

-----------------------------------------------------------------------------
(* Copying a request out of the populated part, over the end of the ring or  *)
(* not, gives the key stream of the requested position.                      *)
LEMMA CopyIsKeyStream ==
  ASSUME TypeOK, RingHoldsKeyStream,
         NEW p \in Nat, NEW n \in Nat \ {0}, InBuffer(p, n),
         NEW i \in 0 .. (n - 1)
  PROVE  /\ DOMAIN CopyFromRing(p, n) = 0 .. (n - 1)
         /\ CopyFromRing(p, n)[i] = p + i
<1> DEFINE d == p - keyPosMin
           off == (d + startOffset) % Size
<1>1. keyPosMin \in Nat /\ populated \in 0 .. Size /\ startOffset \in 0 .. (Size - 1)
  BY StateFacts DEF TypeOK
<1>2. d \in 0 .. (populated - 1) /\ d + i \in 0 .. (populated - 1) /\ d + n < populated
  BY <1>1 DEF InBuffer
<1>3. keyBuf[(startOffset + (d + i)) % Size] = keyPosMin + (d + i)
  BY <1>2 DEF RingHoldsKeyStream
<1>4. keyPosMin + (d + i) = p + i
  BY <1>1
<1>5. (startOffset + (d + i)) % Size = IF off + i < Size THEN off + i ELSE off + i - Size
  BY <1>1, <1>2, ModTwice, SizeType
<1>6. off \in 0 .. (Size - 1)
  BY <1>1, <1>2, ModTwice, SizeType
<1> HIDE DEF d, off
<1>7. CASE off + n > Size
  <2>1. CopyFromRing(p, n) =
          [x \in 0 .. (n - 1) |-> IF x < n - (off + n - Size) THEN keyBuf[off + x]
                                    ELSE keyBuf[x - (n - (off + n - Size))]]
    BY <1>7 DEF CopyFromRing, d, off
  <2>2. CASE off + i < Size
    <3>1. i < n - (off + n - Size)
      BY <2>2, <1>6, SizeType
    <3> QED  BY <2>1, <2>2, <3>1, <1>3, <1>4, <1>5
  <2>3. CASE ~(off + i < Size)
    <3>1. ~(i < n - (off + n - Size)) /\ i - (n - (off + n - Size)) = off + i - Size
      BY <2>3, <1>6, SizeType
    <3> QED  BY <2>1, <2>3, <3>1, <1>3, <1>4, <1>5
  <2> QED  BY <2>2, <2>3
<1>8. CASE ~(off + n > Size)
  <2>1. CopyFromRing(p, n) = [x \in 0 .. (n - 1) |-> keyBuf[off + x]]
    BY <1>8 DEF CopyFromRing, d, off
  <2>2. off + i < Size
    BY <1>8, <1>6, SizeType
  <2> QED  BY <2>1, <2>2, <1>3, <1>4, <1>5
<1> QED  BY <1>7, <1>8

-----------------------------------------------------------------------------
(* The inductive invariant.  The ring's content needs the chunk under way to *)
(* stay clear of the populated part, and that needs the alignment TypeOK     *)
(* states; the readers' results need both.                                   *)
DataIsFunction == data = [r \in Readers |-> data[r]]

IInv ==
  /\ TypeOK
  /\ DataIsFunction
  /\ RingHoldsKeyStream
  /\ ChunkFollowsWindow
  /\ ReadsAreKeyStream
  /\ NoMissedWakeup

(* The buffer is empty and consistent at first.                              *)
THEOREM InitInv == Init => IInv
<1> SUFFICES ASSUME Init PROVE IInv
  OBVIOUS
<1>1. 0 \in Aligned /\ 0 < Size
  <2>1. 0 = 0 * ChunkSize /\ 0 \in 0 .. Chunks
    BY ChunkAssumption
  <2> QED  BY <2>1, SizeType DEF Aligned
<1>2. TypeOK
  BY <1>1 DEF Init, TypeOK
<1>3. DataIsFunction /\ ReadsAreKeyStream
  BY DEF Init, DataIsFunction, ReadsAreKeyStream
<1>4. RingHoldsKeyStream /\ ChunkFollowsWindow /\ NoMissedWakeup
  BY DEF Init, RingHoldsKeyStream, ChunkFollowsWindow, NoMissedWakeup
<1> QED  BY <1>2, <1>3, <1>4 DEF IInv

(* A reader's request. *)
LEMMA GetKeyStreamInv ==
  ASSUME IInv, NEW r \in Readers, NEW p \in Nat, NEW n \in Nat \ {0}, GetKeyStream(r, p, n)
  PROVE  IInv'
<1> USE DEF IInv
<1>1. TypeOK'
  BY DEF TypeOK, GetKeyStream, window
<1>2. RingHoldsKeyStream' /\ ChunkFollowsWindow'
  BY DEF GetKeyStream, window, RingHoldsKeyStream, ChunkFollowsWindow
<1>3. DataIsFunction'
  BY DEF GetKeyStream, DataIsFunction
<1>4. ReadsAreKeyStream'
  <2> SUFFICES ASSUME NEW q \in Readers, NEW i \in DOMAIN data'[q]
               PROVE  data'[q][i] = asked'[q] + i
    BY DEF ReadsAreKeyStream
  <2>1. asked' = [asked EXCEPT ![r] = p] /\ asked \in [Readers -> Nat]
    BY DEF GetKeyStream, TypeOK
  <2>2. CASE q # r
    <3>1. data'[q] = data[q]
      BY <2>2 DEF GetKeyStream, DataIsFunction
    <3> QED  BY <3>1, <2>1, <2>2 DEF ReadsAreKeyStream
  <2>3. CASE q = r /\ InBuffer(p, n)
    <3>1. data'[q] = CopyFromRing(p, n)
      BY <2>3 DEF GetKeyStream, DataIsFunction
    <3>2. 0 \in 0 .. (n - 1)
      OBVIOUS
    <3>3. DOMAIN CopyFromRing(p, n) = 0 .. (n - 1)
      BY <2>3, <3>2, CopyIsKeyStream
    <3>4. CopyFromRing(p, n)[i] = p + i
      BY <2>3, <3>1, <3>3, CopyIsKeyStream
    <3> QED  BY <3>1, <3>4, <2>1, <2>3
  <2>4. CASE q = r /\ ~InBuffer(p, n)
    <3>1. data'[q] = KeyStream(p, n)
      BY <2>4 DEF GetKeyStream, DataIsFunction
    <3> QED  BY <3>1, <2>1, <2>4 DEF KeyStream
  <2> QED  BY <2>2, <2>3, <2>4
<1>5. NoMissedWakeup'
  <2> SUFFICES ASSUME gen'.pc = "waiting", WaitPredicate', signalling' = {}
               PROVE  FALSE
    BY DEF NoMissedWakeup, GetKeyStream
  <2>1. ~ShouldGenerate(lastKeyPos') /\ signalling = {}
    BY DEF GetKeyStream
  <2>2. WaitPredicate
    BY <2>1 DEF WaitPredicate, GetKeyStream, window, ShouldGenerate
  <2> QED  BY <2>1, <2>2 DEF NoMissedWakeup, GetKeyStream
<1> QED  BY <1>1, <1>2, <1>3, <1>4, <1>5

(* The three ways the window is set up for the next chunk keep it aligned,   *)
(* backed by the ring, and with room for a chunk that does not wrap.         *)
LEMMA WindowReady ==
  ASSUME IInv, BeginChunk
  PROVE  /\ populated' \in Aligned /\ populated' + ChunkSize <= Size
         /\ startOffset' \in Aligned /\ startOffset' < Size
         /\ keyPosMin' \in Nat
         /\ \A j \in 0 .. (populated' - 1) :
              keyBuf[(startOffset' + j) % Size] = keyPosMin' + j
<1> USE DEF IInv
<1>1. /\ populated \in 0 .. Size /\ startOffset \in 0 .. (Size - 1)
      /\ 0 \in Aligned /\ ChunkSize \in Aligned /\ Size \in Aligned
      /\ populated \in Aligned /\ startOffset \in Aligned
      /\ keyPosMin \in Nat /\ lastKeyPos \in Nat
  BY StateFacts DEF TypeOK
<1>2. CASE SkipAhead
  <2>1. (lastKeyPos \div ChunkSize) * ChunkSize \in Nat
    <3>1. lastKeyPos \div ChunkSize \in Nat
      BY <1>1, ChunkAssumption
    <3> QED  BY <3>1, ChunkAssumption
  <2> QED  BY <1>1, <1>2, <2>1, SizeType, ChunkAssumption DEF SkipAhead
<1>3. CASE DropFirstChunk
  <2>1. populated' = Size - ChunkSize /\ populated' \in Aligned
    BY <1>1, <1>3, AlignedSub, SizeType DEF DropFirstChunk
  <2>2. startOffset' \in Aligned
    BY <1>1, <1>3, AlignedSum, SizeType DEF DropFirstChunk
  <2>3. startOffset' < Size
    BY <1>1, <1>3, ModTwice, SizeType, ChunkAssumption DEF DropFirstChunk
  <2>4. keyPosMin' = keyPosMin + ChunkSize
    BY <1>3 DEF DropFirstChunk
  <2>5. ASSUME NEW j \in 0 .. (populated' - 1)
        PROVE  keyBuf[(startOffset' + j) % Size] = keyPosMin' + j
    <3>1. ChunkSize + j \in 0 .. (populated - 1) /\ ChunkSize + j < Size
      BY <1>1, <1>3, <2>1, SizeType, ChunkAssumption DEF DropFirstChunk
    <3>2. (startOffset' + j) % Size = (startOffset + (ChunkSize + j)) % Size
      BY <1>1, <1>3, <2>1, <3>1, RingShift, SizeType, ChunkAssumption DEF DropFirstChunk
    <3>3. keyBuf[(startOffset + (ChunkSize + j)) % Size] = keyPosMin + (ChunkSize + j)
      BY <3>1 DEF RingHoldsKeyStream
    <3> QED  BY <3>2, <3>3, <2>4, <1>1, ChunkAssumption
  <2> QED  BY <2>1, <2>2, <2>3, <2>4, <2>5, <1>1, SizeType, ChunkAssumption
<1>4. CASE FillUp
  <2>1. populated' = populated /\ startOffset' = startOffset /\ keyPosMin' = keyPosMin
    BY <1>4 DEF FillUp, window
  <2>2. populated < Size
    BY <1>1, <1>4, SizeType DEF FillUp
  <2>3. populated + ChunkSize <= Size
    BY <1>1, <2>2, AlignedGap
  <2> QED  BY <1>1, <2>1, <2>3, SizeType DEF RingHoldsKeyStream
<1> QED  BY <1>2, <1>3, <1>4 DEF BeginChunk

LEMMA BeginChunkInv ==
  ASSUME IInv, BeginChunk
  PROVE  IInv'
<1> USE DEF IInv
<1>1. PICK pop \in Aligned, start \in Aligned, min \in Nat :
        /\ populated' = pop /\ startOffset' = start /\ keyPosMin' = min
        /\ pop + ChunkSize <= Size /\ start < Size
        /\ \A j \in 0 .. (pop - 1) : keyBuf[(start + j) % Size] = min + j
  BY WindowReady
<1> DEFINE off == (start + pop) % Size
<1>2. pop \in 0 .. Size /\ start \in 0 .. (Size - 1)
  BY <1>1, AlignedType, SizeType
<1>3. gen' = [pc |-> "generating", off |-> off, pos |-> min + pop]
  BY <1>1 DEF BeginChunk
<1>4. off \in Aligned /\ off \in 0 .. (Size - 1)
  <2>1. off \in Aligned
    BY <1>1, <1>2, AlignedSum, SizeType
  <2>2. off \in 0 .. (Size - 1)
    BY <1>2, ModTwice, SizeType
  <2> QED  BY <2>1, <2>2
<1>5. off + ChunkSize <= Size
  BY <1>4, StateFacts, AlignedGap, SizeType
<1>6. keyBuf' = [o \in Offsets |-> IF o \in off .. (off + ChunkSize - 1) THEN Junk ELSE keyBuf[o]]
  BY <1>3 DEF BeginChunk
<1>7. TypeOK'
  <2>1. keyBuf' \in [Offsets -> Int \cup {Junk}]
    BY <1>6 DEF TypeOK
  <2>2. gen' \in [pc : {"start", "top", "waiting", "woken", "generating", "stopped"},
                  off : Nat, pos : Nat]
    <3>1. off \in Nat /\ min + pop \in Nat
      BY <1>1, <1>2, <1>4, SizeType
    <3> QED  BY <1>3, <3>1
  <2> QED  BY <1>1, <2>1, <2>2 DEF TypeOK, BeginChunk, readers
<1>8. RingHoldsKeyStream'
  <2>1. ASSUME NEW j \in 0 .. (pop - 1)
        PROVE  keyBuf'[(start + j) % Size] = min + j
    <3>1. (start + j) % Size \notin off .. (off + ChunkSize - 1)
      BY <1>1, <1>2, <1>5, ChunkApart
    <3>2. (start + j) % Size \in Offsets
      BY <1>2, OffsetOfSlot, SizeType
    <3> QED  BY <1>1, <1>6, <3>1, <3>2
  <2> QED  BY <1>1, <2>1 DEF RingHoldsKeyStream
<1>9. ChunkFollowsWindow'
  BY <1>1, <1>3, <1>5 DEF ChunkFollowsWindow
<1>10. DataIsFunction' /\ ReadsAreKeyStream'
  BY DEF BeginChunk, readers, DataIsFunction, ReadsAreKeyStream
<1>11. NoMissedWakeup'
  BY <1>3 DEF NoMissedWakeup
<1> QED  BY <1>7, <1>8, <1>9, <1>10, <1>11

LEMMA FinishChunkInv ==
  ASSUME IInv, FinishChunk
  PROVE  IInv'
<1> USE DEF IInv
<1>1. /\ populated \in 0 .. Size /\ startOffset \in 0 .. (Size - 1)
      /\ keyPosMin \in Nat /\ gen.off \in Nat /\ gen.pos \in Nat
  BY StateFacts DEF TypeOK
<1>2. /\ gen.off + ChunkSize <= Size /\ populated + ChunkSize <= Size
      /\ gen.off = (startOffset + populated) % Size /\ gen.pos = keyPosMin + populated
  BY DEF FinishChunk, ChunkFollowsWindow
<1>3. PICK pop \in Nat :
        /\ pop = populated + ChunkSize /\ populated' = pop
        /\ startOffset' = startOffset /\ keyPosMin' = keyPosMin
  BY <1>1, ChunkAssumption DEF FinishChunk
<1>4. keyBuf' = [o \in Offsets |-> IF o \in gen.off .. (gen.off + ChunkSize - 1)
                                     THEN gen.pos + (o - gen.off) ELSE keyBuf[o]]
  BY DEF FinishChunk
<1>5. TypeOK'
  <2>1. keyBuf' \in [Offsets -> Int \cup {Junk}]
    BY <1>1, <1>4, SizeType DEF TypeOK, Offsets
  <2>2. populated' \in Aligned
    <3>1. populated < Size
      BY <1>1, <1>2, ChunkAssumption, SizeType
    <3>2. populated \in Aligned /\ Size \in Aligned
      BY StateFacts DEF TypeOK
    <3> QED  BY <1>3, <3>1, <3>2, AlignedGap
  <2> QED  BY <2>1, <2>2 DEF TypeOK, FinishChunk, readers
<1>6. ASSUME NEW j \in 0 .. (pop - 1)
      PROVE  keyBuf'[(startOffset + j) % Size] = keyPosMin + j
  <2>1. (startOffset + j) % Size \in Offsets
    BY <1>1, <1>2, <1>3, OffsetOfSlot, SizeType, ChunkAssumption
  <2>2. CASE j < populated
    <3>1. j \in 0 .. (populated - 1)
      BY <1>1, <2>2
    <3>2. (startOffset + j) % Size \notin gen.off .. (gen.off + ChunkSize - 1)
      BY <1>1, <1>2, <3>1, ChunkApart
    <3> QED  BY <1>4, <2>1, <3>1, <3>2 DEF RingHoldsKeyStream
  <2>3. CASE j >= populated
    <3>1. j \in populated .. (populated + ChunkSize - 1)
      BY <1>1, <1>3, <2>3, ChunkAssumption
    <3>2. (startOffset + j) % Size = gen.off + (j - populated)
      BY <1>1, <1>2, <3>1, ChunkSlot
    <3>3. keyBuf'[(startOffset + j) % Size] = gen.pos + (((startOffset + j) % Size) - gen.off)
      BY <1>1, <1>4, <2>1, <3>1, <3>2, ChunkAssumption
    <3> QED  BY <1>1, <1>2, <3>1, <3>2, <3>3
  <2> QED  BY <2>2, <2>3, <1>1
<1>7. RingHoldsKeyStream'
  BY <1>3, <1>6 DEF RingHoldsKeyStream
<1>8. ChunkFollowsWindow' /\ NoMissedWakeup'
  BY DEF FinishChunk, TypeOK, ChunkFollowsWindow, NoMissedWakeup
<1>9. DataIsFunction' /\ ReadsAreKeyStream'
  BY DEF FinishChunk, readers, DataIsFunction, ReadsAreKeyStream
<1> QED  BY <1>5, <1>7, <1>8, <1>9

(* The steps that only move the generator's control, a signal or fini.      *)
Control ==
  Signal \/ Wait \/ Stop \/ ChunkFails \/ FiniStop \/ FiniSignal \/ FiniJoin

LEMMA ControlInv ==
  ASSUME IInv, Control
  PROVE  IInv'
<1> USE DEF IInv
<1>1. /\ UNCHANGED <<keyBuf, window, lastKeyPos, asked, data>>
      /\ gen'.pc = "generating" => gen' = gen
  BY DEF Control, Signal, SignalGenerator, Wait, Stop, ChunkFails, FiniStop, FiniSignal,
         FiniJoin, Signalled, readers, TypeOK
<1>2. gen' \in [pc : {"start", "top", "waiting", "woken", "generating", "stopped"},
                off : Nat, pos : Nat]
  BY DEF Control, Signal, SignalGenerator, Wait, Stop, ChunkFails, FiniStop, FiniSignal,
         FiniJoin, Signalled, TypeOK
<1>3. signalling' \subseteq Readers /\ threadStop' \in BOOLEAN
      /\ fini' \in {"no", "signalling", "joining", "done"}
  BY DEF Control, Signal, SignalGenerator, Wait, Stop, ChunkFails, FiniStop, FiniSignal,
         FiniJoin, readers, TypeOK
<1>4. TypeOK'
  BY <1>1, <1>2, <1>3 DEF TypeOK, window
<1>5. DataIsFunction' /\ RingHoldsKeyStream' /\ ChunkFollowsWindow' /\ ReadsAreKeyStream'
  BY <1>1 DEF window, DataIsFunction, RingHoldsKeyStream, ChunkFollowsWindow, ReadsAreKeyStream
<1>6. NoMissedWakeup'
  <2>1. CASE Signal \/ FiniSignal
    BY <2>1 DEF Signal, SignalGenerator, FiniSignal, Signalled, NoMissedWakeup, TypeOK
  <2>2. CASE Wait
    BY <2>2 DEF Wait, WaitPredicate, ShouldGenerate, window, NoMissedWakeup
  <2>3. CASE Stop \/ ChunkFails
    BY <2>3 DEF Stop, ChunkFails, NoMissedWakeup, TypeOK
  <2>4. CASE FiniStop \/ FiniJoin
    BY <2>4 DEF FiniStop, FiniJoin, NoMissedWakeup
  <2> QED  BY <2>1, <2>2, <2>3, <2>4 DEF Control
<1> QED  BY <1>4, <1>5, <1>6

(* Every step of the generator, the readers and fini keeps it.                *)
THEOREM NextInv == IInv /\ [Next]_vars => IInv'
<1> SUFFICES ASSUME IInv, [Next]_vars PROVE IInv'
  OBVIOUS
<1>1. CASE Request
  <2>1. PICK r \in Readers, p \in 0 .. MaxPos, n \in 1 .. MaxRead : GetKeyStream(r, p, n)
    BY <1>1 DEF Request
  <2> QED  BY <2>1, BoundAssumption, GetKeyStreamInv
<1>2. CASE BeginChunk
  BY <1>2, BeginChunkInv
<1>3. CASE FinishChunk
  BY <1>3, FinishChunkInv
<1>4. CASE Control
  BY <1>4, ControlInv
<1>5. CASE UNCHANGED vars
  BY <1>5 DEF vars, IInv, TypeOK, DataIsFunction, RingHoldsKeyStream, ChunkFollowsWindow,
              ReadsAreKeyStream, NoMissedWakeup, WaitPredicate, ShouldGenerate
<1> QED  BY <1>1, <1>2, <1>3, <1>4, <1>5 DEF Next, Control

(* The invariant of ring, window, generator and readers holds at any time.      *)
THEOREM InvariantHolds == Spec => []IInv
  BY InitInv, NextInv, PTL DEF Spec

(* The state stays within its types: the populated part and its start are    *)
(* whole chunks of the ring, whatever is skipped, dropped or filled.         *)
THEOREM TypeCorrect == Spec => []TypeOK
<1>1. IInv => TypeOK
  BY DEF IInv
<1> QED  BY <1>1, InvariantHolds, PTL

(* Every reader gets the key stream of the position it asked for.            *)
THEOREM ReadsCorrect == Spec => []ReadsAreKeyStream
<1>1. IInv => ReadsAreKeyStream
  BY DEF IInv
<1> QED  BY <1>1, InvariantHolds, PTL

(* The generator fills the ring with the right key stream and stays clear of *)
(* the part readers copy from.                                               *)
THEOREM RingCorrect == Spec => [](RingHoldsKeyStream /\ ChunkFollowsWindow)
<1>1. IInv => RingHoldsKeyStream /\ ChunkFollowsWindow
  BY DEF IInv
<1> QED  BY <1>1, InvariantHolds, PTL

(* The generator does not sleep through a request or the stop.               *)
THEOREM WakeupsArrive == Spec => []NoMissedWakeup
<1>1. IInv => NoMissedWakeup
  BY DEF IInv
<1> QED  BY <1>1, InvariantHolds, PTL

-----------------------------------------------------------------------------
LEMMA RoundDown ==
  ASSUME NEW S \in Nat \ {0}, NEW x \in Nat
  PROVE  x \div S \in Nat /\ (x \div S) * S <= x
  BY SMT

LEMMA HalfOfTwoChunks ==
  ASSUME Chunks > 1
  PROVE  Size \div 2 >= ChunkSize
<1>1. Chunks * ChunkSize >= 2 * ChunkSize
  BY ChunkAssumption
<1> QED  BY <1>1, ChunkAssumption, SizeType DEF Size

(* With two chunks or more the window does not start behind the position     *)
(* requested last: a chunk is dropped only once half the window is used up.  *)
THEOREM WindowNotAheadHolds == Spec => []WindowNotAhead
<1>1. Init => WindowNotAhead
  BY DEF Init, WindowNotAhead
<1>2. ASSUME IInv, WindowNotAhead, [Next]_vars PROVE WindowNotAhead'
  <2>1. keyPosMin \in Nat /\ lastKeyPos \in Nat
    BY <1>2 DEF IInv, TypeOK
  <2> SUFFICES ASSUME Chunks > 1 PROVE keyPosMin' <= lastKeyPos'
    BY DEF WindowNotAhead
  <2>2. keyPosMin <= lastKeyPos
    BY <1>2 DEF WindowNotAhead
  <2>3. CASE Request
    <3>1. PICK r \in Readers, p \in 0 .. MaxPos, n \in 1 .. MaxRead : GetKeyStream(r, p, n)
      BY <2>3 DEF Request
    <3>2. lastKeyPos' >= lastKeyPos /\ keyPosMin' = keyPosMin
      BY <3>1, <2>1, BoundAssumption DEF GetKeyStream, window
    <3> QED  BY <2>1, <2>2, <3>1, <3>2, BoundAssumption DEF GetKeyStream
  <2>4. CASE BeginChunk /\ SkipAhead
    <3>1. (lastKeyPos \div ChunkSize) * ChunkSize <= lastKeyPos
      BY <2>1, RoundDown, ChunkAssumption
    <3> QED  BY <2>4, <3>1 DEF BeginChunk, SkipAhead
  <2>5. CASE BeginChunk /\ DropFirstChunk
    <3>1. lastKeyPos > keyPosMin + Size \div 2
      BY <2>5, SizeType DEF BeginChunk, DropFirstChunk, WaitPredicate, ShouldGenerate
    <3>2. Size \div 2 \in Nat
      BY SizeType
    <3>3. keyPosMin + ChunkSize <= lastKeyPos
      BY <2>1, <3>1, <3>2, HalfOfTwoChunks, ChunkAssumption
    <3> QED  BY <2>5, <3>3 DEF BeginChunk, DropFirstChunk
  <2>6. CASE BeginChunk /\ FillUp
    BY <2>2, <2>6 DEF BeginChunk, FillUp, window
  <2>7. CASE FinishChunk \/ Control \/ UNCHANGED vars
    BY <2>2, <2>7 DEF FinishChunk, Control, Signal, SignalGenerator, Wait, Stop, ChunkFails,
                     FiniStop, FiniSignal, FiniJoin, window, vars
  <2> QED  BY <1>2, <2>3, <2>4, <2>5, <2>6, <2>7 DEF Next, Control, BeginChunk
<1> QED  BY <1>1, <1>2, InvariantHolds, PTL DEF Spec
-----------------------------------------------------------------------------
(* The positions of packets (KeyState): a position less than half the low     *)
(* range away from the one committed last is recovered from its low half.     *)
LEMMA SpaceType == NumberSpace \in Nat \ {0} /\ SeqHalf \in Nat /\ 2 * SeqHalf = NumberSpace
  BY NumberSpaceAssumption DEF SeqHalf

LEMMA Quotient == ASSUME NEW S \in Nat \ {0}, NEW x \in Nat PROVE x \div S \in Nat
  BY SMT

(* What the low halves say about the turn. *)
LEMMA LowHalves ==
  ASSUME NEW q \in Nat, NEW h \in Nat,
         NEW l \in SeqNums, NEW k \in SeqNums,
         (q * NumberSpace + l) - (h * NumberSpace + k) \in (1 - SeqHalf) .. (SeqHalf - 1)
  PROVE  q = IF SeqGt(l, k) /\ l < k THEN h + 1
             ELSE IF SeqLt(l, k) /\ l > k /\ h > 0 THEN h - 1
             ELSE h
<1> DEFINE S == NumberSpace
<1>1. S \in Nat \ {0} /\ SeqHalf \in Nat /\ 2 * SeqHalf = S /\ l \in 0 .. (S - 1) /\ k \in 0 .. (S - 1)
  BY SpaceType DEF SeqNums
<1>2. Cast(l) = l /\ Cast(k) = k
  BY <1>1 DEF Cast
<1>3. q \in {h - 1, h, h + 1}
  <2>1. (q * S + l) - (h * S + k) \in (1 - S) .. (S - 1)
    <3>1. q * S \in Int /\ h * S \in Int
      BY <1>1
    <3> QED  BY <1>1, <3>1
  <2> QED  BY <1>1, <2>1, Turns
<1>4. CASE q = h
  <2>1. l - k \in (1 - SeqHalf) .. (SeqHalf - 1)
    <3>1. q * S = h * S /\ h * S \in Int
      BY <1>1, <1>4
    <3> QED  BY <1>1, <3>1
  <2>2. ~(SeqGt(l, k) /\ l < k) /\ ~(SeqLt(l, k) /\ l > k)
    BY <1>1, <1>2, <2>1 DEF SeqGt, SeqLt
  <2> QED  BY <1>4, <2>2
<1>5. CASE q = h + 1
  <2>1. S + l - k \in (1 - SeqHalf) .. (SeqHalf - 1)
    <3>1. q * S = h * S + S /\ h * S \in Int
      BY <1>1, <1>5
    <3> QED  BY <1>1, <3>1
  <2>2. SeqGt(l, k) /\ l < k
    BY <1>1, <1>2, <2>1 DEF SeqGt
  <2> QED  BY <1>5, <2>2
<1>6. CASE q = h - 1
  <2>1. l - k - S \in (1 - SeqHalf) .. (SeqHalf - 1)
    <3>1. q * S = h * S - S /\ h * S \in Int
      BY <1>1, <1>6
    <3> QED  BY <1>1, <3>1
  <2>2. SeqLt(l, k) /\ l > k /\ ~(l < k)
    BY <1>1, <1>2, <2>1 DEF SeqLt
  <2> QED  BY <1>6, <2>2
<1> QED  BY <1>3, <1>4, <1>5, <1>6

(* The recovered position is the true one. *)
LEMMA NearIsAccepted ==
  ASSUME prev \in Nat, NEW at \in Nat, Keys!Near(at)
  PROVE  Keys!Accepted(at)
<1> USE DEF Keys!Cast, Keys!SeqHalf, Keys!SeqGt, Keys!SeqLt
<1> DEFINE q == at \div NumberSpace
           l == Cast(at)
           h == prev \div NumberSpace
           k == Cast(prev)
<1>1. q \in Nat /\ l \in SeqNums /\ at = q * NumberSpace + l
  <2>1. at \div NumberSpace \in Nat
    BY SpaceType, Quotient
  <2>2. at % NumberSpace \in 0 .. (NumberSpace - 1) /\ at = (at \div NumberSpace) * NumberSpace + (at % NumberSpace)
    <3>1. at \in Int
      OBVIOUS
    <3> QED BY <3>1, SpaceType, Division
  <2> QED BY <2>1, <2>2 DEF Cast, SeqNums
<1>2. h \in Nat /\ k \in SeqNums /\ prev = h * NumberSpace + k
  <2>1. prev \div NumberSpace \in Nat
    BY SpaceType, Quotient
  <2>2. prev % NumberSpace \in 0 .. (NumberSpace - 1) /\ prev = (prev \div NumberSpace) * NumberSpace + (prev % NumberSpace)
    <3>1. prev \in Int
      OBVIOUS
    <3> QED BY <3>1, SpaceType, Division
  <2> QED BY <2>1, <2>2 DEF Cast, SeqNums
<1>3. (q * NumberSpace + l) - (h * NumberSpace + k) \in (1 - SeqHalf) .. (SeqHalf - 1)
  BY <1>1, <1>2 DEF Keys!Near, SeqHalf
<1> HIDE DEF q, l, h, k
<1>4. q = IF SeqGt(l, k) /\ l < k THEN h + 1
          ELSE IF SeqLt(l, k) /\ l > k /\ h > 0 THEN h - 1
          ELSE h
  BY <1>1, <1>2, <1>3, LowHalves
<1>5. Keys!RequestPos(l) = q * NumberSpace + l
  BY <1>4 DEF Keys!RequestPos, h, k, Cast, SeqGt, SeqLt, SeqHalf
<1> QED  BY <1>1, <1>5 DEF Keys!Accepted, l, Cast

(* Both positions are positions of the key stream, and the console is ahead. *)
LEMMA KeysTypeOK ==
  ASSUME LastPos \in Nat
  PROVE  MCSpec => []Keys!TypeOK
<1>1. MCInit => Keys!TypeOK
  BY LastPos \in Nat DEF MCInit, Keys!Init, Keys!TypeOK
<1>2. Keys!TypeOK /\ [MCNext]_<<vars, keyVars>> => Keys!TypeOK'
  <2> SUFFICES ASSUME Keys!TypeOK, [MCNext]_<<vars, keyVars>> PROVE Keys!TypeOK'
    OBVIOUS
  <2>1. CASE Keys!Next
    <3>1. PICK at \in 0 .. LastPos : Keys!Seal(at) \/ Keys!Handle(at)
      BY <2>1 DEF Keys!Next
    <3>2. CASE Keys!Seal(at)
      BY <3>2, LastPos \in Nat DEF Keys!Seal, Keys!TypeOK
    <3>3. CASE Keys!Handle(at)
      BY <3>3, LastPos \in Nat DEF Keys!Handle, Keys!TypeOK
    <3> QED  BY <3>1, <3>2, <3>3
  <2>2. CASE UNCHANGED keyVars
    BY <2>2 DEF keyVars, Keys!TypeOK
  <2> QED  BY <2>1, <2>2 DEF MCNext
<1> QED  BY <1>1, <1>2, PTL DEF MCSpec

(* No packet near the last committed position is dropped for its MAC,         *)
(* for every width of the low half (chiaki_key_state_request_pos).            *)
THEOREM NearPacketsAccepted ==
  ASSUME LastPos \in Nat
  PROVE  MCSpec => []AcceptsNearPackets
<1>1. Keys!TypeOK => AcceptsNearPackets
  BY NearIsAccepted, LastPos \in Nat DEF Keys!TypeOK, AcceptsNearPackets, Keys!AcceptsNearPackets
<1> QED  BY <1>1, KeysTypeOK, PTL
=============================================================================
