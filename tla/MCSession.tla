----------------------------- MODULE MCSession -----------------------------
(* A session and its link test.  chiaki_senkusha_run is one step of Session:  *)
(* the session thread does nothing else meanwhile.  So one of the two runs    *)
(* and the other is at rest.                                                  *)
EXTENDS Session
CONSTANTS MtuMin, MtuMax, PathMtus, Retries, Pings, PsnWrapper
(* 576 and 1454 in senkusha.c; a path has some MTU. *)
ASSUME MtuAssumption == MtuMin \in Nat /\ MtuMax \in Nat /\ MtuMin < MtuMax /\ PathMtus \subseteq Nat /\ PsnWrapper \in Nat
VARIABLES service, path, lossy, pc, state, finished, id, answers, search, pongs, result

Test == INSTANCE Senkusha
testVars == <<service, path, lossy, pc, state, finished, id, answers, search, pongs, result>>

MCInit == (Init /\ Test!AtRest) \/ (AtRest /\ Test!Init)
MCNext == (Next /\ UNCHANGED testVars) \/ (Test!Next /\ UNCHANGED vars)
MCSpec == MCInit /\ [][MCNext]_<<vars, testVars>> /\ Fairness

(* The result of the link test (senkusha.c:491-760): where nothing is lost, the largest    *)
(* sizes that arrive, but for the largest of all outwards, which is not tried if the search   *)
(* begins below it; and a size that arrives at any rate, whatever was lost or came late.      *)
MtuIsExact == Test!MtuIsExact /\ Test!MtuFits
=============================================================================
