---------------------------- MODULE PacketWindow ----------------------------
(***************************************************************************)
(* What a reorder queue promises to its user (lib/include/chiaki/          *)
(* reorderqueue.h): packets that arrive in any order, more than once or    *)
(* not at all are handed out in the order of their positions, each         *)
(* position at most once, and never one below next.  There is no ring and  *)
(* no wrapped number here, only a set of packets waiting for their turn.   *)
(***************************************************************************)
EXTENDS Integers

CONSTANTS Packets, MaxPos, Size

VARIABLES
  next,         \* position of the next packet to hand out
  stash         \* packets waiting, each with its position

vars == <<next, stash>>

Entries == [pos : 0 .. MaxPos, packet : Packets]

Init == next \in 0 .. MaxPos /\ stash = {}

(* A new packet is kept; to make room the window may move forward, which    *)
(* gives up every packet it leaves behind.                                  *)
Accept(e) ==
  /\ \A w \in stash : w.pos # e.pos /\ w.packet # e.packet
  /\ next' \in next .. e.pos
  /\ stash' = {w \in stash : w.pos >= next'} \cup {e}
  /\ e.pos < next' + Size

(* The packet whose turn it is leaves.                                      *)
Deliver ==
  \E e \in stash : /\ e.pos = next
                   /\ next' = next + 1
                   /\ stash' = stash \ {e}

Close == stash' = {} /\ UNCHANGED next

Next == (\E e \in Entries : Accept(e)) \/ Deliver \/ Close

Spec == Init /\ [][Next]_vars
=============================================================================
