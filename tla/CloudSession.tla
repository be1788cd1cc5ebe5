---------------------------- MODULE CloudSession ----------------------------
(* Starting a cloud session on the desktop client: the check of the login and   *)
(* the start of the stream (gui/src/cloudstreamingbackend.cpp), the store       *)
(* session (cloudstreaming/pskamajisession.cpp), the allocation of a slot       *)
(* (psgaikaistreaming.cpp) and the pings of the datacenters                     *)
(* (datacenterping.cpp). Every request is answered on the event loop; the       *)
(* pings run on threads of their own. Times are multiples of a poll.           *)
EXTENDS Integers, FiniteSets

CONSTANTS
  Centers,     \* datacenters
  Rtts,        \* their round trip times, in milliseconds
  RttMax,      \* above it an automatic choice is refused: 80
  LockTries,   \* MAX_LOCK_SESSION_RETRIES: 12
  WaitDefault, \* DEFAULT_ALLOCATION_WAIT_SECONDS
  WaitMax,     \* MAX_ALLOCATION_WAIT_SECONDS
  Estimates    \* waitTimeEstimate of the server; 0: none

VARIABLES
  service,     \* serviceType
  setting,     \* the datacenter of the settings, or "Auto"
  request,     \* the request under way
  key,         \* configKey: the request whose answer brought it
  lockKey,     \* lockSessionKey
  lockTries,   \* lockSessionRetryCount
  offered,     \* the datacenters of the answer
  answers,     \* state->results: the round trip times that came in
  pinging,     \* pings whose result is not delivered yet
  called,      \* how often the callback of the pings was called
  center,      \* selectedDatacenterPingResult
  elapsed,     \* allocationWaitTimer, or -1 before it is started
  waitLimit,   \* allocationMaxWaitSeconds
  stored,      \* CloudDatacentersJson: what is known of the datacenters
  dialogs,     \* the dialogs shown
  outcomes     \* history: what the callback was called with, how often

vars == <<service, setting, request, key, lockKey, lockTries, offered, answers, pinging, called, center,
          elapsed, waitLimit, stored, dialogs, outcomes>>

NoRtt == 999
Nothing == [name |-> "none", rtt |-> 0]
Unpinged == -1

(* CloudStreamingBackend::startCompleteCloudSession, the flow of a game that     *)
(* is clicked on.                                                            *)
Init ==
  /\ service \in {"psnow", "pscloud"} /\ setting \in Centers \cup {"Auto"}
  /\ stored \in {<<>>, [c \in Centers |-> 50]}
  /\ request = "authorizeCheck" /\ key = "none" /\ lockKey = "none" /\ lockTries = 0
  /\ offered = {} /\ answers = <<>> /\ pinging = {} /\ called = 0 /\ center = Nothing
  /\ elapsed = -1 /\ waitLimit = WaitDefault /\ dialogs = {} /\ outcomes = [ok |-> 0, failed |-> 0]

(* Another part of the system moves.                                         *)
AtRest ==
  /\ service = "psnow" /\ setting = "Auto"
  /\ stored = <<>>
  /\ request = "over" /\ key = "none" /\ lockKey = "none" /\ lockTries = 0
  /\ offered = {} /\ answers = <<>> /\ pinging = {} /\ called = 0 /\ center = Nothing
  /\ elapsed = -1 /\ waitLimit = WaitDefault /\ dialogs = {} /\ outcomes = [ok |-> 1, failed |-> 0]

flow == <<key, lockKey, lockTries>>
pings == <<offered, answers, pinging, called>>
wait == <<elapsed, waitLimit>>
fixed == <<service, setting>>

(* The handlers of AllocationError, of sessionComplete and of the check of the   *)
(* login: a message to the user, the callback, and the objects are deleted.   *)
Fail(shown) ==
  /\ request' = "over" /\ dialogs' = dialogs \cup {"sessionError"} \cup shown
  /\ outcomes' = [outcomes EXCEPT !.failed = @ + 1]
Ask(next) == request' = next /\ UNCHANGED <<dialogs, outcomes>>
Silent == UNCHANGED <<dialogs, outcomes>>

------------------------------------------------------------------------------
(* updateSessionKey: the answers that bring a new key.                        *)
Rekeys == {"config", "start", "authorize", "lock", "datacenters", "select", "allocate"}
Key == key' = IF request \in Rekeys THEN request ELSE key

(* The answer to one request lets one of next follow, or is an error that also   *)
(* opens one of the dialogs.                                                  *)
Answers(asked, next, shown) ==
  /\ request = asked
  /\ \/ (\E r \in next : Ask(r)) /\ Key
     \/ (\E d \in shown : Fail(d)) /\ UNCHANGED key
  /\ UNCHANGED <<fixed, lockKey, lockTries, pings, center, wait, stored>>

(* The check of the login comes first: the store session is only for PS Now.    *)
Authorized == Answers("authorizeCheck", IF service = "psnow" THEN {"anonCode"} ELSE {"clientIds"},
                      {{"authorizationFailed"}})

(* PSKamajiSession: an anonymous session looks the product up, ...             *)
AnonCode == Answers("anonCode", {"anonSession"}, {{}})
AnonSession == Answers("anonSession", {"product"}, {{}})
Product == Answers("product", {"commerceToken"}, {{}})
(* ... the account is checked, once for all sessions, ...                      *)
CommerceToken == Answers("commerceToken", {"attributes", "entitlement"}, {{}})
Attributes == Answers("attributes", {"entitlement"}, {{"privacySettings"}})
(* ... and what it does not own is bought when it is free.                    *)
Entitlement == Answers("entitlement", {"authCode", "preview"}, {{}})
Preview == Answers("preview", {"buynow"}, {{"psPlus"}, {}})
BuyNow == Answers("buynow", {"authCode"}, {{}})
AuthCode == Answers("authCode", {"authSession"}, {{}})
AuthSession == Answers("authSession", {"clientIds"}, {{}})

(* PSGaikaiStreaming up to the lock.                                         *)
ClientIds == Answers("clientIds", {"config"}, {{}})
Config == Answers("config", {"start"}, {{}})
Started == Answers("start", {"gkCode"}, {{}})
GkCode == Answers("gkCode", {"serverCode"}, {{}})
ServerCode == Answers("serverCode", {"authorize"}, {{}})
Authorize == Answers("authorize", {"lock"}, {{"psPlus"}, {}})

(* A request of PSGaikaiStreaming fails.                                      *)
AllocationFails ==
  /\ request \in {"lock", "datacenters", "select", "allocate"}
  /\ Fail({})
  /\ UNCHANGED <<fixed, flow, pings, center, wait, stored>>

(* step10_LockSession: until the old session is closed.                       *)
Lock ==
  /\ request = "lock" /\ Key
  /\ \/ Ask("datacenters") /\ lockTries' = 0 /\ lockKey' = "lock"
     \/ /\ lockTries' = lockTries + 1 /\ UNCHANGED lockKey
        /\ IF lockTries < LockTries THEN Ask("lock") ELSE Fail({})
  /\ UNCHANGED <<fixed, pings, center, wait, stored>>

(* step11_GetDatacenters: the answer is stored. With a fixed datacenter none is  *)
(* pinged and its time is made up; else all are, with the key of the lock.     *)
Datacenters ==
  /\ request = "datacenters" /\ Key
  /\ \E some \in SUBSET Centers :
       /\ offered' = some
       /\ stored' = IF some = {} THEN stored ELSE [c \in some |-> Unpinged]
       /\ CASE some = {} \/ setting \notin some \cup {"Auto"} -> Fail({}) /\ UNCHANGED <<pinging, center>>
            [] some # {} /\ setting \in some ->
                 Ask("select") /\ center' = [name |-> setting, rtt |-> 20] /\ UNCHANGED pinging
            [] some # {} /\ setting = "Auto" ->
                 Ask("pings") /\ pinging' = some /\ UNCHANGED center
  /\ UNCHANGED <<fixed, lockKey, lockTries, answers, called, wait>>

------------------------------------------------------------------------------
(* DatacenterPing: the fastest of those that answered; who did not counts as 999. *)
Time(results, c) == IF c \in DOMAIN results THEN results[c] ELSE NoRtt
Fastest(results) == CHOOSE c \in offered : \A d \in offered : Time(results, c) <= Time(results, d)

(* mergeDatacentersWithExisting, over the list stored by the step before.     *)
Merged(results) == [c \in offered \cup DOMAIN stored |-> IF c \in offered THEN Time(results, c) ELSE stored[c]]

(* Mutant: the first of the list is taken, whatever its time.                *)
Best_First(results) == CHOOSE c \in offered : TRUE

Best(results) == Fastest(results)

(* step12_SelectDatacenter.                                                  *)
PingsAreOver(results) ==
  /\ called' = called + 1
  /\ stored' = Merged(results)
  /\ center' = [name |-> Best(results), rtt |-> Time(results, Best(results))]
  /\ IF center'.rtt > RttMax THEN Fail({"pingTimeout"}) ELSE Ask("select")

(* Mutant: the results that come after the timeout count as well.               *)
Late_Never == FALSE

(* The timeout was first, or all results have come.                           *)
Late == called > 0

(* A session of its own with the datacenter, as for the test of the link.       *)
Handshake == Rtts \cup {NoRtt}

(* A result is delivered to the event loop; the last one ends the timer.       *)
Ping(c) ==
  /\ c \in pinging /\ pinging' = pinging \ {c}
  /\ \E time \in Handshake :
       IF Late THEN UNCHANGED <<answers, called, stored, center, request>> /\ Silent
       ELSE /\ answers' = [d \in DOMAIN answers \cup {c} |-> IF d = c THEN time ELSE answers[d]]
            /\ IF Cardinality(DOMAIN answers') = Cardinality(offered) THEN PingsAreOver(answers')
               ELSE UNCHANGED <<called, stored, center, request>> /\ Silent
  /\ UNCHANGED <<fixed, flow, offered, wait>>

(* 15 seconds: with the results that are there, without the failed ones.       *)
PingTimeout ==
  /\ request = "pings" /\ called = 0
  /\ PingsAreOver([c \in {d \in DOMAIN answers : answers[d] \in 1..(NoRtt - 1)} |-> answers[c]])
  /\ UNCHANGED <<fixed, flow, offered, answers, pinging, wait>>

------------------------------------------------------------------------------
Select ==
  /\ request = "select" /\ Key /\ Ask("allocate")
  /\ UNCHANGED <<fixed, lockKey, lockTries, pings, center, wait, stored>>

(* How long the slot is waited for.                                          *)
Since == IF elapsed = -1 THEN 0 ELSE elapsed

(* Twice the estimate of the server.                                         *)
Limit(estimate) == IF estimate = 0 THEN WaitDefault ELSE IF 2 * estimate > WaitMax THEN WaitMax ELSE 2 * estimate

(* The timer is not yet valid: the first answer that says to wait.             *)
FirstWait == elapsed = -1

(* step13_AllocateSlot: queued, or the data of the game are moved. The first     *)
(* such answer starts the timer and its estimate sets the limit; the later      *)
(* ones are held against both.                                                *)
Queued ==
  /\ request = "allocate" /\ Key
  /\ \E estimate \in Estimates :
       /\ waitLimit' = IF FirstWait THEN Limit(estimate) ELSE waitLimit
       /\ IF Since >= waitLimit' THEN Fail({}) /\ elapsed' = Since
          ELSE Ask("allocate") /\ elapsed' = Since + 1
  /\ UNCHANGED <<fixed, lockKey, lockTries, pings, center, stored>>

(* AllocationComplete: the stream session is made and started; the constructor  *)
(* may throw, which only the callback is told.                                *)
Allocated ==
  /\ request = "allocate" /\ Key
  /\ request' = "over"
  /\ \E how \in {"ok", "failed"} : outcomes' = [outcomes EXCEPT ![how] = @ + 1]
  /\ UNCHANGED <<fixed, lockKey, lockTries, pings, center, wait, stored, dialogs>>

Next == \/ Authorized \/ AnonCode \/ AnonSession \/ Product \/ CommerceToken \/ Attributes \/ Entitlement
        \/ Preview \/ BuyNow \/ AuthCode \/ AuthSession \/ ClientIds \/ Config \/ Started \/ GkCode
        \/ ServerCode \/ Authorize \/ AllocationFails \/ Lock \/ Datacenters \/ (\E c \in Centers : Ping(c)) \/ PingTimeout
        \/ Select \/ Queued \/ Allocated
Spec == Init /\ [][Next]_vars /\ WF_vars(Next)

------------------------------------------------------------------------------
(* Every start ends, and its callback is called exactly once: the lock is tried  *)
(* a bounded number of times, and a slot is waited for only as long as the     *)
(* first estimate of the server allows.                                        *)
StartEnds == <>[](request = "over" /\ outcomes.ok + outcomes.failed = 1)

(* The timer and the threads of the pings race: what is chosen is, of the        *)
(* datacenters that were offered, the fastest that had answered when the        *)
(* callback was called, once; a slot is only asked for with the keys of this    *)
(* session and, chosen automatically, below the limit.                         *)
FastestIsChosen ==
  /\ called <= 1
  /\ request \in {"select", "allocate"} =>
       /\ lockKey = "lock" /\ center.name \in offered
       /\ setting = "Auto" => /\ center.rtt <= RttMax
                              /\ \A d \in DOMAIN answers : center.rtt <= answers[d]
                              /\ center.name \in DOMAIN answers
       /\ setting # "Auto" => center.name = setting
=============================================================================
