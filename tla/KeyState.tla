------------------------------- MODULE KeyState -------------------------------
(***************************************************************************)
(* ChiakiKeyState (lib/src/gkcrypt.c): packets carry the low half of the   *)
(* key stream position they were encrypted at; the receiver recovers the   *)
(* whole position from the last one it committed.  NumberSpace is 2^32 in  *)
(* the code.                                                               *)
(*                                                                         *)
(* takion checks a packet's MAC at the recovered position                  *)
(* (takion_handle_packet_mac, lib/src/takion.c), so the MAC of a packet of *)
(* the console matches exactly if that is the position it was sealed at.   *)
(***************************************************************************)
EXTENDS SeqNum

CONSTANT MaxPos         \* bound: the console's key stream ends here

VARIABLES
  prev,         \* state->prev
  sent          \* the highest position the console has sealed a packet at

vars == <<prev, sent>>

(* chiaki_key_state_init                                                     *)
Init == prev = 0 /\ sent = 0

(* Mutant: a packet from before the wrap is taken for one after it.          *)
RequestPos_ForwardOnly(low) ==
  LET prevLow == Cast(prev)
      high == prev \div NumberSpace
  IN  (IF SeqGt(low, prevLow) /\ low < prevLow THEN high + 1 ELSE high) * NumberSpace + low

(* chiaki_key_state_request_pos                                              *)
RequestPos(low) ==
  LET prevLow == Cast(prev)
      high == prev \div NumberSpace
      wrapped == IF SeqGt(low, prevLow) /\ low < prevLow THEN high + 1
                 ELSE IF SeqLt(low, prevLow) /\ low > prevLow /\ high > 0 THEN high - 1
                 ELSE high
  IN  wrapped * NumberSpace + low

(* The console seals a packet, external.                                     *)
Seal(pos) ==
  /\ sent <= pos
  /\ sent' = pos
  /\ UNCHANGED prev

(* A packet of the console arrives, in any order and any number of times:    *)
(* request the position, check the MAC there, commit.  The parser requests   *)
(* and commits it once more.                                                 *)
Accepted(pos) == RequestPos(Cast(pos)) = pos

Handle(pos) ==
  /\ pos <= sent
  /\ prev' = IF Accepted(pos) THEN pos ELSE prev
  /\ UNCHANGED sent

Next == \E pos \in 0 .. MaxPos : Seal(pos) \/ Handle(pos)
Spec == Init /\ [][Next]_vars

-----------------------------------------------------------------------------
TypeOK == prev \in 0 .. sent /\ sent \in 0 .. MaxPos

(* No packet of the console is dropped for its MAC if it is less than half   *)
(* the low range away from the one committed last, whichever of the two is   *)
(* earlier and however often the low half wrapped between or before them.    *)
Near(pos) == pos - prev \in (1 - SeqHalf) .. (SeqHalf - 1)

AcceptsNearPackets == \A pos \in 0 .. sent : Near(pos) => Accepted(pos)
=============================================================================
