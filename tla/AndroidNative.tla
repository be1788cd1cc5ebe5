----------------------------- MODULE AndroidNative ----------------------------
(* The native interface of the Android application                              *)
(* (android/app/src/main/cpp/chiaki-jni.c): what each call of Kotlin that creates  *)
(* something acquires on its way, gives back when it fails half way, and frees in  *)
(* the end, while the threads it started call back into Kotlin with these parts.  *)
EXTENDS Naturals, FiniteSets, Sequences, SequencesExt

CONSTANTS
  Calls,    \* of "session", "cloud" (a session in the cloud), "service", "regist" and "ping"
  CallsMax  \* bound: creations

VARIABLES
  calls,
  at,      \* what a call is at
  held,    \* the parts it holds
  undoing, \* the parts it has yet to give back, in order
  failed   \* history: the part that could not be had, "none" if all could

nativeVars == <<calls, at, held, undoing, failed>>

Start == held = [c \in Calls |-> {}] /\ undoing = [c \in Calls |-> <<>>] /\ failed = [c \in Calls |-> "none"]
         /\ at = [c \in Calls |-> "idle"]
Init == Start /\ calls = 0
AtRest == Start /\ calls = CallsMax

------------------------------------------------------------------------------
(* sessionCreate: the log, the copy of the host's name, the object, its decoders, the     *)
(* sound output, the session of the library, the references to classes and objects. For a   *)
(* session in the cloud also copies of three strings of the allocation, without a check.    *)
SessionParts == <<"log", "host", "object", "decoder", "audio", "output", "core", "refs">>
CloudParts == <<"log", "host", "copies", "object", "decoder", "audio", "output", "core", "refs">>
(* discoveryServiceCreate, registStart, performPing.                                *)
ServiceParts == <<"object", "address", "refs", "core">>
RegistParts == <<"object", "refs", "strings", "core">>
PingParts == <<"strings", "address", "object", "core", "spec">>
PartsOf(c) == CASE c = "session" -> SessionParts [] c = "cloud" -> CloudParts
                [] c = "service" -> ServiceParts [] c = "regist" -> RegistParts [] c = "ping" -> PingParts

MayFail(c) == ToSet(PartsOf(c)) \ (IF c = "ping" THEN {} ELSE {"log", "copies", "output", "refs"}
                                     \cup (IF c = "regist" THEN {"strings"} ELSE {}))

(* What the error path of each gives back, in its order; a part that was not had is skipped.   *)
(* The copies of a session in the cloud are not among them, nor are they when it is freed.    *)
SessionUndone == <<"decoder", "audio", "output", "object", "log", "host">>
(* An invalid address leaves the object behind, and its pointer goes to Kotlin with the error. *)
ServiceUndone(has) == IF "refs" \in has THEN <<"refs", "object", "address">> ELSE <<>>
RegistUndone == <<"strings", "refs", "object">>
PingUndone == <<"core", "address", "object", "strings">>
Undone(c, has) == CASE c \in {"session", "cloud"} -> SessionUndone [] c = "service" -> ServiceUndone(has)
                    [] c = "regist" -> RegistUndone [] c = "ping" -> PingUndone

(* What a call that succeeded gives back before it returns.                              *)
Returned(c) == CASE c \in {"session", "cloud"} -> <<"host">> [] c = "service" -> <<"address">> [] c = "regist" -> <<"strings">>
                 [] c = "ping" -> <<"spec", "core", "address", "object", "strings">>

(* sessionFree, discoveryServiceFree, registFree. "core" joins the threads of the library.  *)
(* Mutant: the decoders go before the threads of the library are joined.                     *)
SessionFreed_CoreLater == <<"decoder", "audio", "core", "output", "refs", "log", "object">>
SessionFreed == <<"core", "decoder", "audio", "output", "refs", "log", "object">>
ServiceFreed == <<"core", "refs", "object">>
RegistFreed == <<"core", "refs", "object">>
Freed(c) == CASE c \in {"session", "cloud"} -> SessionFreed [] c = "service" -> ServiceFreed [] c = "regist" -> RegistFreed

------------------------------------------------------------------------------
(* What an earlier call left behind is out of reach.                                    *)
Creates(c) == at[c] = "idle" /\ calls < CallsMax /\ calls' = calls + 1 /\ held' = [held EXCEPT ![c] = {}]
              /\ at' = [at EXCEPT ![c] = "taking"] /\ failed' = [failed EXCEPT ![c] = "none"] /\ UNCHANGED undoing

NextPart(c) == PartsOf(c)[Cardinality(held[c]) + 1]
Takes(c) ==
  /\ at[c] = "taking" /\ Cardinality(held[c]) < Len(PartsOf(c)) /\ held' = [held EXCEPT ![c] = @ \cup {NextPart(c)}]
  /\ UNCHANGED <<calls, at, undoing, failed>>
Fails(c) ==
  /\ at[c] = "taking" /\ Cardinality(held[c]) < Len(PartsOf(c)) /\ NextPart(c) \in MayFail(c)
  /\ failed' = [failed EXCEPT ![c] = NextPart(c)] /\ undoing' = [undoing EXCEPT ![c] = Undone(c, held[c])]
  /\ at' = [at EXCEPT ![c] = "undoing"] /\ UNCHANGED <<calls, held>>
Completes(c) ==
  /\ at[c] = "taking" /\ Cardinality(held[c]) = Len(PartsOf(c)) /\ undoing' = [undoing EXCEPT ![c] = Returned(c)]
  /\ at' = [at EXCEPT ![c] = IF c = "ping" THEN "undoing" ELSE "returning"] /\ UNCHANGED <<calls, held, failed>>
GivesBack(c) ==
  /\ undoing[c] # <<>> /\ held' = [held EXCEPT ![c] = @ \ {Head(undoing[c])}]
  /\ undoing' = [undoing EXCEPT ![c] = Tail(@)] /\ UNCHANGED <<calls, at, failed>>
Ends(c) ==
  /\ undoing[c] = <<>> /\ at[c] \in {"undoing", "returning"}
  /\ at' = [at EXCEPT ![c] = IF at[c] = "undoing" THEN "idle" ELSE "ready"] /\ UNCHANGED <<calls, held, undoing, failed>>

(* sessionStart and sessionJoin; a discovery service and a registration run from the start.  *)
SessionStart(c) == c \in {"session", "cloud"} /\ at[c] = "ready" /\ at' = [at EXCEPT ![c] = "running"] /\ UNCHANGED <<calls, held, undoing, failed>>
SessionJoin(c) == at[c] = "running" /\ at' = [at EXCEPT ![c] = "ready"] /\ UNCHANGED <<calls, held, undoing, failed>>
Frees(c) ==
  /\ at[c] = "ready" /\ undoing' = [undoing EXCEPT ![c] = Freed(c)] /\ at' = [at EXCEPT ![c] = "undoing"]
  /\ UNCHANGED <<calls, held, failed>>

NativeNext == \E c \in Calls : Creates(c) \/ Takes(c) \/ Fails(c) \/ Completes(c) \/ GivesBack(c) \/ Ends(c)
                              \/ SessionStart(c) \/ SessionJoin(c) \/ Frees(c)
Spec == Init /\ [][NativeNext]_nativeVars

------------------------------------------------------------------------------
(* The parts a thread of the library uses when it calls back: an event of a session, a sample *)
(* of video, the hosts a discovery service found, the result of a registration.              *)
EventUses == {"object", "refs", "log"}
SampleUses == {"object", "decoder", "audio", "output"}
HostsUse == {"object", "refs"}
ResultUses == {"object", "refs"}
Used(c) == CASE c \in {"session", "cloud"} -> EventUses \cup SampleUses [] c = "service" -> HostsUse
             [] c = "regist" -> ResultUses [] c = "ping" -> {"object", "address"}
Running(c) == CASE c \in {"session", "cloud"} -> at[c] = "running"
                [] c = "ping" -> at[c] = "taking" /\ "core" \in held[c]
                [] OTHER -> "core" \in held[c]

TypeOK == \A c \in Calls : held[c] \subseteq ToSet(PartsOf(c)) /\ ToSet(undoing[c]) \subseteq ToSet(PartsOf(c))

(* What a call leaves behind for good: a discovery service with an invalid address its      *)
(* object (chiaki-jni.c:1239-1243), a session in the cloud the copies of its strings, which  *)
(* are not in its error path, sessionFree or chiaki_session_fini (chiaki-jni.c:602-636,       *)
(* 813-847, session.c:432-451).                                                   *)
LeftBehind(c) == CASE c = "service" /\ failed[c] = "address" -> {"object"}
                   [] c = "cloud" -> {"copies"} [] OTHER -> {}

(* No thread of the library outlives a part it calls back with, the rest of a session        *)
(* outlives its core, and a call that failed at any step, or a free, leaves nothing behind;   *)
(* the two exceptions are named above.                                              *)
NativeIsSound ==
  \A c \in Calls :
    /\ Running(c) => Used(c) \subseteq held[c]
    /\ at[c] = "undoing" /\ failed[c] = "none" /\ c # "ping" /\ "core" \in held[c] => Used(c) \subseteq held[c]
    /\ at[c] = "idle" => held[c] \subseteq LeftBehind(c)
=============================================================================
