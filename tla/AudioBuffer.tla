----------------------------- MODULE AudioBuffer -----------------------------
(* What is between the thread that decodes audio and the callback of the audio      *)
(* device (app/src/main/cpp/circular-buf.hpp, circular-fifo.hpp, audio-output.cpp):   *)
(* chunks of memory that go round through two queues without locks, each with one    *)
(* writer and one reader. Every access to memory of the other side is a step.       *)
EXTENDS Naturals, Sequences

CONSTANTS
  ChunksCount,  \* BUFFER_CHUNKS_COUNT
  ChunkSize,    \* BUFFER_CHUNK_SIZE
  BytesMax      \* bound: bytes pushed

VARIABLES
  memory,    \* what is in each place of each chunk, by its number in the stream
  array, tail, head,  \* of full_queue and free_queue
  producer,  \* Push: where it is, push_chunk and push_chunk_size
  consumer,  \* Pop: where it is, pop_chunk and what is left of it
  pushed,    \* history: how many bytes have been pushed
  popped,    \* history: how many have been popped
  torn       \* history: a byte popped was not the next of the stream

audioBufferVars == <<memory, array, tail, head, producer, consumer, pushed, popped, torn>>

Chunks == 0 .. (ChunksCount - 1)
NoChunk == ChunksCount
Queues == {"full", "free"}
Slots == 0 .. ChunksCount
(* Mutant: as many slots as chunks, so that full looks like empty.                 *)
Increment_Short(idx) == (idx + 1) % ChunksCount
Increment(idx) == (idx + 1) % (ChunksCount + 1)

(* FlushChunks: the producer has the first chunk, the others are free.             *)
FreeAtFirst == Chunks \ {0}

Empty(bytes) ==
  /\ memory = [c \in Chunks |-> [b \in 1 .. ChunkSize |-> 0]]
  /\ \E first \in {FreeAtFirst} :
       /\ array = [q \in Queues |-> [s \in Slots |-> IF q = "full" THEN NoChunk
                                                     ELSE IF 0 \in first THEN (IF s \in first THEN s ELSE NoChunk)
                                                     ELSE IF s + 1 \in first THEN s + 1 ELSE NoChunk]]
       /\ tail = [q \in Queues |-> IF q = "full" THEN 0 ELSE IF 0 \in first THEN ChunksCount ELSE ChunksCount - 1]
  /\ head = [q \in Queues |-> 0]
  /\ producer = [at |-> "idle", chunk |-> 0, size |-> 0]
  /\ consumer = [at |-> "idle", chunk |-> NoChunk, left |-> 0]
  /\ pushed = bytes /\ popped = 0 /\ torn = FALSE
Init == Empty(0)
AtRest == Empty(BytesMax)

------------------------------------------------------------------------------
(* Push: without a chunk it takes a free one, and gives up when there is none; it     *)
(* reads the slot and only then moves the head.                                 *)
PushTakes ==
  /\ producer.at = "idle" /\ pushed < BytesMax /\ producer.chunk = NoChunk /\ head["free"] # tail["free"]
  /\ producer' = [at |-> "take", chunk |-> array["free"][head["free"]], size |-> 0]
  /\ UNCHANGED <<memory, array, tail, head, consumer, pushed, popped, torn>>
PushTaken ==
  /\ producer.at = "take" /\ producer' = [producer EXCEPT !.at = "idle"]
  /\ head' = [head EXCEPT !["free"] = Increment(@)]
  /\ UNCHANGED <<memory, array, tail, consumer, pushed, popped, torn>>

(* A byte is copied; a chunk that is full is put into the queue, for which there is    *)
(* always room: the slot is written and only then the tail moved.                *)
PushCopies ==
  /\ producer.at = "idle" /\ pushed < BytesMax /\ producer.chunk # NoChunk
  /\ memory' = [memory EXCEPT ![producer.chunk][producer.size + 1] = pushed + 1] /\ pushed' = pushed + 1
  /\ producer' = [producer EXCEPT !.size = @ + 1, !.at = IF producer.size + 1 = ChunkSize THEN "give" ELSE "idle"]
  /\ UNCHANGED <<array, tail, head, consumer, popped, torn>>
PushGives ==
  /\ producer.at = "give" /\ Increment(tail["full"]) # head["full"]
  /\ array' = [array EXCEPT !["full"][tail["full"]] = producer.chunk]
  /\ producer' = [producer EXCEPT !.at = "given"]
  /\ UNCHANGED <<memory, tail, head, consumer, pushed, popped, torn>>
PushGiven ==
  /\ producer.at = "given" /\ tail' = [tail EXCEPT !["full"] = Increment(@)]
  /\ producer' = [at |-> "idle", chunk |-> NoChunk, size |-> 0]
  /\ UNCHANGED <<memory, array, head, consumer, pushed, popped, torn>>

------------------------------------------------------------------------------
(* Pop, the same the other way round; the device plays silence when it gets less.   *)
PopTakes ==
  /\ consumer.at = "idle" /\ consumer.chunk = NoChunk /\ head["full"] # tail["full"]
  /\ consumer' = [at |-> "take", chunk |-> array["full"][head["full"]], left |-> ChunkSize]
  /\ UNCHANGED <<memory, array, tail, head, producer, pushed, popped, torn>>
PopTaken ==
  /\ consumer.at = "take" /\ consumer' = [consumer EXCEPT !.at = "idle"]
  /\ head' = [head EXCEPT !["full"] = Increment(@)]
  /\ UNCHANGED <<memory, array, tail, producer, pushed, popped, torn>>
PopCopies ==
  /\ consumer.at = "idle" /\ consumer.chunk # NoChunk
  /\ popped' = popped + 1
  /\ torn' = (torn \/ memory[consumer.chunk][ChunkSize - consumer.left + 1] # popped + 1)
  /\ consumer' = [consumer EXCEPT !.left = @ - 1, !.at = IF consumer.left = 1 THEN "give" ELSE "idle"]
  /\ UNCHANGED <<memory, array, tail, head, producer, pushed>>
PopGives ==
  /\ consumer.at = "give" /\ Increment(tail["free"]) # head["free"]
  /\ array' = [array EXCEPT !["free"][tail["free"]] = consumer.chunk]
  /\ consumer' = [consumer EXCEPT !.at = "given"]
  /\ UNCHANGED <<memory, tail, head, producer, pushed, popped, torn>>
PopGiven ==
  /\ consumer.at = "given" /\ tail' = [tail EXCEPT !["free"] = Increment(@)]
  /\ consumer' = [at |-> "idle", chunk |-> NoChunk, left |-> 0]
  /\ UNCHANGED <<memory, array, head, producer, pushed, popped, torn>>

PushMoves == PushTakes \/ PushTaken \/ PushCopies \/ PushGives \/ PushGiven
PopMoves == PopTakes \/ PopTaken \/ PopCopies \/ PopGives \/ PopGiven
Next == PushMoves \/ PopMoves
Spec == Init /\ [][Next]_audioBufferVars

------------------------------------------------------------------------------
(* The device gets the bytes that were pushed, each once, in their order and whole,   *)
(* whatever the two sides do to the chunks meanwhile; and the queues are big enough    *)
(* ("assert(success)"): a chunk is never put into a full one.                     *)
BytesInOrder ==
  /\ ~torn
  /\ producer.at = "give" => Increment(tail["full"]) # head["full"]
  /\ consumer.at = "give" => Increment(tail["free"]) # head["free"]
=============================================================================
