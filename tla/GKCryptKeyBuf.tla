---------------------------- MODULE GKCryptKeyBuf ----------------------------
(***************************************************************************)
(* The key stream prefetch of ChiakiGKCrypt (lib/src/gkcrypt.c): a thread  *)
(* generates chunks of the CTR mode key stream ahead of the positions      *)
(* requested last, into a ring that chiaki_gkcrypt_get_key_stream copies   *)
(* from; positions outside the ring are generated on the spot.             *)
(*                                                                         *)
(* Positions and sizes count AES blocks.  The block of key stream at       *)
(* position p is written p, a block being overwritten is Junk.  A critical *)
(* section of key_buf_mutex is one action; the generator keeps the mutex   *)
(* from the end of a chunk to its next wait or chunk (gen.pc = "top"), and *)
(* writes its chunk without it.                                            *)
(***************************************************************************)
EXTENDS Integers

CONSTANTS
  ChunkSize,    \* KEY_BUF_CHUNK_SIZE
  Chunks,       \* key_buf_chunks
  Readers,      \* threads that encrypt or decrypt
  MaxPos,       \* bound: no position beyond it is requested
  MaxRead,      \* bound: the longest request
  Junk

Size == Chunks * ChunkSize      \* key_buf_size
Offsets == 0 .. (Size - 1)

ASSUME ChunkAssumption == ChunkSize \in Nat \ {0} /\ Chunks \in Nat \ {0}
ASSUME BoundAssumption == MaxPos \in Nat /\ MaxRead \in Nat \ {0}
ASSUME JunkAssumption == Junk \notin Int

VARIABLES
  keyBuf, populated, keyPosMin, startOffset, lastKeyPos, threadStop,
  gen,          \* the generator thread: pc, and the chunk it is writing
  asked,        \* position of each reader's last request
  data,         \* key stream each reader got for it
  signalling,   \* readers between their unlock and chiaki_cond_signal
  fini          \* progress of chiaki_gkcrypt_fini

window == <<populated, keyPosMin, startOffset>>
readers == <<asked, data, signalling>>
vars == <<keyBuf, populated, keyPosMin, startOffset, lastKeyPos, threadStop,
          gen, asked, data, signalling, fini>>

Init ==
  /\ keyBuf = [o \in Offsets |-> Junk]
  /\ populated = 0
  /\ keyPosMin = 0
  /\ startOffset = 0
  /\ lastKeyPos = 0
  /\ threadStop = FALSE
  /\ gen = [pc |-> "start", off |-> 0, pos |-> 0]
  /\ asked = [r \in Readers |-> 0]
  /\ data = [r \in Readers |-> [i \in {} |-> 0]]
  /\ signalling = {}
  /\ fini = "no"

MutexFree == gen.pc # "top"

(* gkcrypt_key_buf_should_generate and key_buf_mutex_pred                   *)
ShouldGenerate(last) == last > keyPosMin + populated \div 2

WaitPredicate == threadStop \/ populated < Size \/ ShouldGenerate(lastKeyPos)

Signalled(g) == IF g.pc = "waiting" THEN [g EXCEPT !.pc = "woken"] ELSE g

-----------------------------------------------------------------------------
(* chiaki_gkcrypt_get_key_stream                                             *)
KeyStream(pos, n) == [i \in 0 .. (n - 1) |-> pos + i]

InBuffer(pos, n) == pos >= keyPosMin /\ pos + n < keyPosMin + populated

(* Mutant: the ring is read as if it always started at offset 0.             *)
CopyFromRing_NoOffset(pos, n) ==
  [i \in 0 .. (n - 1) |-> keyBuf[(pos - keyPosMin + i) % Size]]

(* One memcpy, or two when the request runs over the end of the ring.        *)
CopyFromRing(pos, n) ==
  LET off == (pos - keyPosMin + startOffset) % Size
      excess == off + n - Size
  IN  IF off + n > Size
        THEN [i \in 0 .. (n - 1) |-> IF i < n - excess THEN keyBuf[off + i]
                                                       ELSE keyBuf[i - (n - excess)]]
        ELSE [i \in 0 .. (n - 1) |-> keyBuf[off + i]]

(* Mutant: whether to wake the generator is decided with the old position.   *)
GetKeyStream_StaleCheck(r, pos, n) ==
  /\ fini = "no"
  /\ MutexFree
  /\ r \notin signalling
  /\ lastKeyPos' = IF pos + n > lastKeyPos THEN pos + n ELSE lastKeyPos
  /\ signalling' = IF ShouldGenerate(lastKeyPos) THEN signalling \cup {r} ELSE signalling
  /\ asked' = [asked EXCEPT ![r] = pos]
  /\ data' = [data EXCEPT ![r] = KeyStream(pos, n)]
  /\ UNCHANGED <<keyBuf, window, threadStop, gen, fini>>

GetKeyStream(r, pos, n) ==
  /\ fini = "no"
  /\ MutexFree
  /\ r \notin signalling
  /\ lastKeyPos' = IF pos + n > lastKeyPos THEN pos + n ELSE lastKeyPos
  /\ signalling' = IF ShouldGenerate(lastKeyPos') THEN signalling \cup {r} ELSE signalling
  /\ asked' = [asked EXCEPT ![r] = pos]
  /\ data' = [data EXCEPT ![r] = IF InBuffer(pos, n) THEN CopyFromRing(pos, n)
                                                     ELSE KeyStream(pos, n)]
  /\ UNCHANGED <<keyBuf, window, threadStop, gen, fini>>

SignalGenerator(r) ==
  /\ r \in signalling
  /\ signalling' = signalling \ {r}
  /\ gen' = Signalled(gen)
  /\ UNCHANGED <<keyBuf, window, lastKeyPos, threadStop, asked, data, fini>>

-----------------------------------------------------------------------------
(* gkcrypt_thread_func.  Locked: the generator has the mutex and is about to *)
(* evaluate the predicate of its wait.                                       *)
Locked == gen.pc \in {"start", "woken", "top"}

Wait ==
  /\ Locked
  /\ ~WaitPredicate
  /\ gen' = [gen EXCEPT !.pc = "waiting"]
  /\ UNCHANGED <<keyBuf, window, lastKeyPos, threadStop, readers, fini>>

Stop ==
  /\ Locked
  /\ threadStop
  /\ gen' = [gen EXCEPT !.pc = "stopped"]
  /\ UNCHANGED <<keyBuf, window, lastKeyPos, threadStop, readers, fini>>

(* The window to extend: skip ahead of it, drop its first chunk, or as it is *)
SkipAhead ==
  /\ lastKeyPos > keyPosMin + populated
  /\ keyPosMin' = (lastKeyPos \div ChunkSize) * ChunkSize
  /\ startOffset' = 0
  /\ populated' = 0

DropFirstChunk ==
  /\ lastKeyPos <= keyPosMin + populated
  /\ populated = Size
  /\ startOffset' = (startOffset + ChunkSize) % Size
  /\ keyPosMin' = keyPosMin + ChunkSize
  /\ populated' = populated - ChunkSize

FillUp ==
  /\ lastKeyPos <= keyPosMin + populated
  /\ populated # Size
  /\ UNCHANGED window

(* gkcrypt_generate_next_chunk, up to its unlock; the slots of the chunk are *)
(* being written from then on.                                               *)
BeginChunk ==
  /\ Locked
  /\ ~threadStop
  /\ WaitPredicate
  /\ SkipAhead \/ DropFirstChunk \/ FillUp
  /\ gen' = [pc |-> "generating", off |-> (startOffset' + populated') % Size,
             pos |-> keyPosMin' + populated']
  /\ keyBuf' = [o \in Offsets |->
                  IF o \in gen'.off .. (gen'.off + ChunkSize - 1) THEN Junk ELSE keyBuf[o]]
  /\ UNCHANGED <<lastKeyPos, threadStop, readers, fini>>

FinishChunk ==
  /\ gen.pc = "generating"
  /\ keyBuf' = [o \in Offsets |->
                  IF o \in gen.off .. (gen.off + ChunkSize - 1)
                    THEN gen.pos + (o - gen.off) ELSE keyBuf[o]]
  /\ populated' = populated + ChunkSize
  /\ gen' = [gen EXCEPT !.pc = "top"]
  /\ UNCHANGED <<keyPosMin, startOffset, lastKeyPos, threadStop, readers, fini>>

(* chiaki_gkcrypt_gen_key_stream failed: the thread ends.                    *)
ChunkFails ==
  /\ gen.pc = "generating"
  /\ gen' = [gen EXCEPT !.pc = "stopped"]
  /\ UNCHANGED <<keyBuf, window, lastKeyPos, threadStop, readers, fini>>

-----------------------------------------------------------------------------
(* chiaki_gkcrypt_fini, once no reader is left.                              *)
FiniStop ==
  /\ fini = "no"
  /\ MutexFree
  /\ signalling = {}
  /\ threadStop' = TRUE
  /\ fini' = "signalling"
  /\ UNCHANGED <<keyBuf, window, lastKeyPos, gen, readers>>

(* Mutant: the generator is not signalled.                                   *)
FiniSignal_Silent ==
  /\ fini = "signalling"
  /\ fini' = "joining"
  /\ UNCHANGED <<keyBuf, window, lastKeyPos, threadStop, gen, readers>>

FiniSignal ==
  /\ fini = "signalling"
  /\ fini' = "joining"
  /\ gen' = Signalled(gen)
  /\ UNCHANGED <<keyBuf, window, lastKeyPos, threadStop, readers>>

FiniJoin ==
  /\ fini = "joining"
  /\ gen.pc = "stopped"
  /\ fini' = "done"
  /\ UNCHANGED <<keyBuf, window, lastKeyPos, threadStop, gen, readers>>

Request == \E r \in Readers, pos \in 0 .. MaxPos, n \in 1 .. MaxRead : GetKeyStream(r, pos, n)
Signal == \E r \in Readers : SignalGenerator(r)

Next ==
  \/ Request \/ Signal
  \/ Wait \/ Stop \/ BeginChunk \/ FinishChunk \/ ChunkFails
  \/ FiniStop \/ FiniSignal \/ FiniJoin

Spec == Init /\ [][Next]_vars

(* Both threads are scheduled and the mutex is handed over; requests and     *)
(* failures may come or not.                                                 *)
Fairness ==
  /\ WF_vars(Signal)
  /\ WF_vars(Wait) /\ WF_vars(Stop) /\ WF_vars(BeginChunk) /\ WF_vars(FinishChunk)
  /\ WF_vars(FiniSignal) /\ WF_vars(FiniJoin)
FairSpec == Spec /\ Fairness

-----------------------------------------------------------------------------
Aligned == {k * ChunkSize : k \in 0 .. Chunks}

TypeOK ==
  /\ keyBuf \in [Offsets -> Int \cup {Junk}]
  /\ populated \in Aligned
  /\ keyPosMin \in Nat
  /\ startOffset \in Aligned /\ startOffset < Size
  /\ lastKeyPos \in Nat
  /\ threadStop \in BOOLEAN
  /\ gen \in [pc : {"start", "top", "waiting", "woken", "generating", "stopped"},
              off : Nat, pos : Nat]
  /\ asked \in [Readers -> Nat]
  /\ signalling \subseteq Readers
  /\ fini \in {"no", "signalling", "joining", "done"}

(* Whatever a reader got, from the ring in one piece, in two pieces, or      *)
(* generated on the spot, is the key stream of the position it asked for,    *)
(* although the generator writes into the same ring without the mutex.       *)
ReadsAreKeyStream ==
  \A r \in Readers : \A i \in DOMAIN data[r] : data[r][i] = asked[r] + i

(* The populated part of the ring holds the key stream from keyPosMin on.    *)
RingHoldsKeyStream ==
  \A j \in 0 .. (populated - 1) : keyBuf[(startOffset + j) % Size] = keyPosMin + j

(* The chunk being written follows the populated part, does not run over the *)
(* end of the ring and leaves the populated part alone.                      *)
ChunkFollowsWindow ==
  gen.pc = "generating" =>
    /\ gen.off + ChunkSize <= Size
    /\ populated + ChunkSize <= Size
    /\ gen.off = (startOffset + populated) % Size
    /\ gen.pos = keyPosMin + populated

(* The generator never sleeps while it has work, unless a wakeup is on its   *)
(* way: no request and no stop is missed.                                    *)
NoMissedWakeup ==
  gen.pc = "waiting" /\ WaitPredicate => signalling # {} \/ fini = "signalling"

(* The ring never runs ahead of the requests: with two chunks or more, the   *)
(* position requested last is not before the window.                         *)
WindowNotAhead == Chunks > 1 => keyPosMin <= lastKeyPos

(* The generator answers: a request beyond the window is eventually caught up *)
(* with, however readers and fini come in between, and fini's join returns.  *)
Lagging == lastKeyPos > keyPosMin + populated
CatchesUp == Lagging ~> ~Lagging \/ gen.pc = "stopped"
FiniReturns == fini = "signalling" ~> fini = "done"
GeneratorAnswers == CatchesUp /\ FiniReturns
=============================================================================
