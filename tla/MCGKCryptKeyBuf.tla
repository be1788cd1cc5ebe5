-------------------------- MODULE MCGKCryptKeyBuf --------------------------
(* The two halves of gkcrypt.c share no state: either the key stream buffer  *)
(* works, or keys are at work and the buffer is closed.                      *)
EXTENDS GKCryptKeyBuf, SeqNum
CONSTANT LastPos
VARIABLES prev, sent

Keys == INSTANCE KeyState WITH MaxPos <- LastPos
keyVars == <<prev, sent>>

Closed ==
  /\ keyBuf = [o \in Offsets |-> Junk]
  /\ populated = 0 /\ keyPosMin = 0 /\ startOffset = 0 /\ lastKeyPos = 0
  /\ threadStop = TRUE /\ gen = [pc |-> "stopped", off |-> 0, pos |-> 0]
  /\ asked = [r \in Readers |-> 0] /\ data = [r \in Readers |-> [i \in {} |-> 0]]
  /\ signalling = {} /\ fini = "done"

MCInit == (Init \/ Closed) /\ Keys!Init
MCNext ==
  \/ Next /\ UNCHANGED keyVars
  \/ Closed /\ Keys!Next /\ UNCHANGED vars
MCSpec == MCInit /\ [][MCNext]_<<vars, keyVars>> /\ Fairness

(* What KeyState says of a packet's position (KeyState.tla).                 *)
AcceptsNearPackets == Keys!AcceptsNearPackets
=============================================================================
