---------------------------- MODULE ReorderQueue ----------------------------
(***************************************************************************)
(* ChiakiReorderQueue (lib/src/reorderqueue.c): a ring of RingSize slots   *)
(* indexed by sequence number, holding the packets received out of order   *)
(* until they can be pulled in order.                                      *)
(*                                                                         *)
(* The sender numbers its packets 0, 1, 2, ... (their position); the queue *)
(* only ever sees position % NumberSpace.  base and pos are not in the code:    *)
(* they remember the positions, so that the properties can say what the    *)
(* wrapped numbers stand for.  held is the set of packets the queue owns:  *)
(* a packet enters it when pushed and leaves it when handed back, either   *)
(* pulled or given to drop_cb, which frees it (its address may be reused). *)
(* chiaki_reorder_queue_drop is left out: it hands an entry to drop_cb and *)
(* changes nothing in the queue.                                           *)
(***************************************************************************)
EXTENDS SeqNum, FiniteSets, FiniteSetsExt

CONSTANTS
  SizeExp,      \* size_exp
  Packets,      \* addresses of packets (the "user" pointers)
  NoPacket,     \* NULL
  MaxPos,       \* bound: the sender stops at this position
  StartPos,     \* position of seq_num_start
  Strategies    \* the drop strategies set during a run

RingSize == 2 ^ SizeExp
Indexes == 0 .. (RingSize - 1)

VARIABLES
  begin,        \* queue->begin
  count,        \* queue->count
  slots,        \* queue->queue
  strategy,     \* queue->drop_strategy
  open,         \* FALSE once chiaki_reorder_queue_fini freed the ring
  base,         \* position of begin
  pos,          \* position each held packet was pushed with
  held,         \* packets owned by the queue
  back,         \* packets handed back by the last push, pull or fini
  pulled,       \* position of the last pulled packet, -1 before the first
  strayed       \* packets handed back although the queue did not own them

queue == <<begin, count, slots, strategy>>
vars == <<begin, count, slots, strategy, open, base, pos, held, back, pulled, strayed>>

EmptySlot == [set |-> FALSE, user |-> NoPacket]
Idx(seq) == seq % RingSize
End == SeqAdd(begin, count)
Entry(i) == slots[Idx(SeqAdd(begin, i))]
Window == 0 .. (count - 1)

Init ==
  /\ begin = Cast(StartPos)
  /\ count = 0
  /\ slots = [i \in Indexes |-> EmptySlot]
  /\ strategy = "END"
  /\ open = TRUE
  /\ base = StartPos
  /\ pos = [p \in Packets |-> 0]
  /\ held = {}
  /\ back = {}
  /\ pulled = -1
  /\ strayed = {}

-----------------------------------------------------------------------------
SeqGe(a, b) == a = b \/ SeqGt(a, b)

InWindow(seq) == SeqGe(seq, begin) /\ SeqLt(seq, End)
TooOld(seq) == ~InWindow(seq) /\ SeqLt(seq, begin)

(* Whether seq still does not fit once k packets were dropped from the      *)
(* front: lt(total_end, new_end).                                           *)
DoesNotFit(seq, k) == SeqLt(SeqAdd(End, RingSize - (count - k)), SeqAdd(seq, 1))

(* How many the BEGIN strategy drops from the front. *)
FrontDrops(seq) ==
  Min({k \in 0 .. count : k = count \/ ~DoesNotFit(seq, k)})

Store(p) == [set |-> TRUE, user |-> p]

HandBack(users, owned) ==
  /\ held' = owned \ users
  /\ back' = users
  /\ strayed' = strayed \cup (users \ owned)

(* Only packets the queue owns have a position worth remembering.            *)
Remember(at) == pos' = [p \in Packets |-> IF p \in held' THEN at[p] ELSE 0]

(* drop_it: the new packet goes to drop_cb, the queue keeps its state. *)
DropNew(p) ==
  /\ UNCHANGED <<begin, count, slots, base>>
  /\ HandBack({p}, held \cup {p})

(* The seq_num of a gap in the window that now arrives, or a duplicate. *)
PushInside(seq, p) ==
  /\ InWindow(seq)
  /\ IF slots[Idx(seq)].set
       THEN DropNew(p)
       ELSE /\ slots' = [slots EXCEPT ![Idx(seq)] = Store(p)]
            /\ UNCHANGED <<begin, count, base>>
            /\ HandBack({}, held \cup {p})

PushTooOld(seq, p) == TooOld(seq) /\ DropNew(p)

(* Mutant: the gained slots keep what they held.                             *)
Extend_KeepsStale(b, n, seq, p) ==
  LET gained == Cast(SeqAdd(seq, 1) - SeqAdd(b, n))
  IN  /\ begin' = b
      /\ count' = n + gained
      /\ slots' = [slots EXCEPT ![Idx(seq)] = Store(p)]

(* Extends the window that starts at b with n entries up to seq: the slots   *)
(* it gains are cleared, then the packet is stored in the last one.          *)
Extend(b, n, seq, p) ==
  LET e == SeqAdd(b, n)
      gained == Cast(SeqAdd(seq, 1) - e)
      grows == SeqLt(e, SeqAdd(seq, 1))
      cleared == IF grows
                   THEN {Idx(SeqAdd(e, i)) : i \in 0 .. (gained - 1)}
                   ELSE {}
  IN  /\ begin' = b
      /\ count' = IF grows THEN n + gained ELSE n
      /\ slots' = [[i \in Indexes |-> IF i \in cleared
                                        THEN [slots[i] EXCEPT !.set = FALSE]
                                        ELSE slots[i]]
                     EXCEPT ![Idx(seq)] = Store(p)]

(* begin is advanced one by one. *)
Advance(b, k) == IF k = 0 THEN b ELSE SeqAdd(b + k - 1, 1)

PushBeyond(seq, n, p) ==
  /\ ~InWindow(seq)
  /\ ~TooOld(seq)
  /\ \/ /\ ~DoesNotFit(seq, 0)
        /\ Extend(begin, count, seq, p)
        /\ base' = base
        /\ HandBack({}, held \cup {p})
     \/ /\ DoesNotFit(seq, 0)
        /\ strategy = "END"
        /\ DropNew(p)
     \/ /\ DoesNotFit(seq, 0)
        /\ strategy = "BEGIN"
        /\ LET k == FrontDrops(seq)
           IN  /\ IF k = count
                    THEN Extend(seq, 0, seq, p) /\ base' = n
                    ELSE Extend(Advance(begin, k), count - k, seq, p) /\ base' = base + k
               /\ HandBack({Entry(i).user : i \in {j \in 0 .. (k - 1) : Entry(j).set}},
                           held \cup {p})

(* chiaki_reorder_queue_push of packet p, n-th of its sender.  The sender is *)
(* less than half the number space ahead or behind, as RFC 1982 asks.        *)
Push(p, n) ==
  /\ open
  /\ p \notin held
  /\ n - base \in (1 - SeqHalf) .. (SeqHalf - 1)
  /\ LET seq == Cast(n) IN PushInside(seq, p) \/ PushTooOld(seq, p) \/ PushBeyond(seq, n, p)
  /\ Remember([pos EXCEPT ![p] = n])
  /\ UNCHANGED <<strategy, open, pulled>>

CanPull == count > 0 /\ slots[Idx(begin)].set

(* chiaki_reorder_queue_pull; the entry's set flag stays as it is. *)
Pull ==
  /\ open
  /\ CanPull
  /\ begin' = SeqAdd(begin, 1)
  /\ count' = count - 1
  /\ base' = base + 1
  /\ pulled' = pos[slots[Idx(begin)].user]
  /\ HandBack({slots[Idx(begin)].user}, held)
  /\ Remember(pos)
  /\ UNCHANGED <<slots, strategy, open>>

(* chiaki_reorder_queue_set_drop_strategy *)
SetDropStrategy(s) ==
  /\ open
  /\ strategy' = s
  /\ UNCHANGED <<begin, count, slots, open, base, pos, held, back, pulled, strayed>>

(* Mutant: every slot of the ring is freed, not only the window.             *)
Fini_WholeRing ==
  /\ open
  /\ open' = FALSE
  /\ HandBack({slots[i].user : i \in {j \in Indexes : slots[j].set}}, held)
  /\ Remember(pos)
  /\ UNCHANGED <<begin, count, slots, strategy, base, pulled>>

Fini ==
  /\ open
  /\ open' = FALSE
  /\ HandBack({Entry(i).user : i \in {j \in Window : Entry(j).set}}, held)
  /\ Remember(pos)
  /\ UNCHANGED <<begin, count, slots, strategy, base, pulled>>

Next ==
  \/ \E p \in Packets, n \in 0 .. MaxPos : Push(p, n)
  \/ Pull
  \/ \E s \in Strategies : SetDropStrategy(s)
  \/ Fini

Spec == Init /\ [][Next]_vars

-----------------------------------------------------------------------------
TypeOK ==
  /\ begin \in WideSeqNums
  /\ count \in 0 .. RingSize
  /\ slots \in [Indexes -> [set : BOOLEAN, user : Packets \cup {NoPacket}]]
  /\ strategy \in {"BEGIN", "END"}
  /\ open \in BOOLEAN
  /\ base \in 0 .. (MaxPos + 1)
  /\ pos \in [Packets -> 0 .. MaxPos]
  /\ held \subseteq Packets
  /\ back \subseteq Packets
  /\ pulled \in -1 .. MaxPos
  /\ strayed \subseteq Packets

(* No packet the queue owns gets lost in the ring: it sits in the window, in *)
(* the slot of its own position, whatever wrapped, moved or was cleared.     *)
HeldAtItsPosition ==
  open => \A p \in held : /\ pos[p] - base \in Window
                          /\ Entry(pos[p] - base) = Store(p)

(* The queue is freed: where several components share a run.                 *)
AtRest ==
  /\ begin = Cast(StartPos) /\ count = 0 /\ slots = [i \in Indexes |-> EmptySlot]
  /\ strategy = "END" /\ open = FALSE /\ base = StartPos
  /\ pos = [p \in Packets |-> 0] /\ held = {} /\ back = {} /\ pulled = -1 /\ strayed = {}

(* A packet is handed back (pulled, or passed to drop_cb, which frees it) at *)
(* most once, and fini leaves none behind.                                   *)
HandedBackOnce == strayed = {} /\ (~open => held = {})

(* Pulls come in the order of sending, across every wrap of the numbers.     *)
PulledInOrder == [][Pull => pulled' > pulled]_vars

(* A packet that is neither a duplicate nor old and lies less than RingSize      *)
(* ahead of begin is kept, under either strategy.                            *)
KeepFitting ==
  open => \A p \in Packets \ held, i \in Indexes :
            Push(p, base + i) /\ (\A q \in held : pos[q] # base + i) => p \in held'
KeepsWhatFits == [][KeepFitting]_vars

(* reorderqueue.c asserts, of any number that is neither in the window nor   *)
(* too old, that it is at or past the end.  The one number exactly half the  *)
(* space away from begin compares neither way and is left out.               *)
PushAssertion ==
  \A seq \in SeqNums :
    ~InWindow(seq) /\ ~TooOld(seq) /\ Cast(seq - begin) # SeqHalf => SeqGe(seq, End)

(* What the queue promises, without ring or wrapped numbers.                 *)
Abstract == INSTANCE PacketWindow
  WITH next <- base, stash <- {[pos |-> pos[p], packet |-> p] : p \in held},
       Size <- RingSize
ImplementsWindow == Abstract!Spec
=============================================================================
