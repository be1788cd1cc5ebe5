------------------------------ MODULE HostList ------------------------------
(* The consoles the desktop client lists (gui/src/qmlbackend.cpp,                  *)
(* gui/src/discoverymanager.cpp, gui/src/settings.cpp): those the discovery          *)
(* services answer for, those the user entered, and those of the account. The         *)
(* window shows what hosts() returns and names an entry by its place;                *)
(* displayServerAt looks that place up again.                                  *)
EXTENDS Integers, Sequences, FiniteSets, SequencesExt, FiniteSetsExt

CONSTANTS
  Consoles, Ps4s,  \* the PlayStation 4 among them
  Addresses, At,   \* the console at each address
  Reports,         \* what a broadcast service may report: sequences of addresses
  Entered,         \* addresses a user enters
  Devices,         \* the consoles of the PSN account, in the order they are listed
  IdsMax,          \* bound: manual hosts made
  QueueMax,        \* bound: reports not handled yet
  ActsMax,         \* bound: what the user does
  Switches         \* the profiles the user goes through, as they are on disk

VARIABLES
  active,     \* service_active, service_active_ipv6
  queue,      \* reports posted to the window's thread
  hosts,      \* DiscoveryManager::hosts
  services,   \* manual_services: what each found
  settings,
  profile,    \* bound: profiles switched to
  dialog,     \* regist_dialog_server
  due,        \* the manual host a registration has yet to save
  psn,        \* psn_hosts and psn_nickname_hosts, by name
  worker,     \* updatePsnHostsThread and its watcher
  waking,     \* waking_sleeping_nicknames
  acts,       \* bound: what the user did
  shown,      \* the list in the window, each entry as its kind and its key
  stale,      \* hostsChanged was emitted, hosts() comes next
  leftOut,    \* history: hosts() left out an entry that has a place
  moved,      \* history: another thread has written to the list since
  astray      \* history: what was found at the place of another entry

settingsVars == <<settings, profile, dialog, due>>
listVars == <<active, queue, hosts, services>>
psnVars == <<psn, worker>>
windowVars == <<shown, leftOut>>
hostListVars == <<listVars, settingsVars, psnVars, waking, acts, windowVars, stale, moved, astray>>

Nowhere == "none"
Main == "Main PS4 Console"
MacOf(a) == IF a = Nowhere THEN Nowhere ELSE At[a]
NoHost == [id |-> -1, addr |-> Nowhere, registered |-> FALSE, mac |-> Nowhere]
NoServer == [discovered |-> FALSE, mac |-> Nowhere, manual |-> NoHost]

(* What LoadRegisteredHosts, LoadHiddenHosts and LoadManualHosts make of the file. The      *)
(* count of PlayStation 4 and the map of nicknames are made here only.             *)
Load(disk) ==
  [registered |-> disk.registered, nicknamed |-> disk.registered, ps4s |-> Cardinality(disk.registered \cap Ps4s),
   lastIp |-> [c \in Consoles |-> Nowhere], hidden |-> disk.hidden, manual |-> disk.manual, next |-> Len(disk.manual)]
(* A set of numbers, each once, the smallest first.                                  *)
Ordered(set) ==
  LET Places == 1 .. Cardinality(set)
  IN  CHOOSE seq \in [Places -> set] : \A i, j \in Places : i < j => seq[i] < seq[j]
Ids == Ordered(DOMAIN settings.manual)
IsFree == ~stale /\ due = NoHost

-----------------------------------------------------------------------------
(* GetHosts: what the broadcast services reported last, then what a service for one       *)
(* address found at another.                                                  *)
Found(svcs) == {a \in DOMAIN svcs : svcs[a].found}
Discovered ==
  LET extra == {a \in Found(services) : services[a].host \notin ToSet(hosts)}
      order == SetToSeq(extra)
  IN  hosts \o [i \in DOMAIN order |-> services[order[i]].host]

(* UpdateManualServices: a service for each registered manual host, and no other. One that    *)
(* cannot be started is missing until the next time.                             *)
Wanted(set) == {set.manual[id].addr : id \in {i \in DOMAIN set.manual : set.manual[i].mac \in set.registered}}
(* Mutant: the services that are no longer wanted are not stopped.                    *)
Updated_Keeps(set, svcs) ==
  {[a \in DOMAIN svcs \cup made |-> IF a \in DOMAIN svcs THEN svcs[a] ELSE [found |-> FALSE, host |-> Nowhere]] :
     made \in SUBSET (Wanted(set) \ DOMAIN svcs)}
Updated(set, svcs) ==
  LET kept == DOMAIN svcs \cap Wanted(set)
  IN  {[a \in kept \cup made |-> IF a \in kept THEN svcs[a] ELSE [found |-> FALSE, host |-> Nowhere]] :
         made \in SUBSET (Wanted(set) \ kept)}
UpdateManualServices(set, act) ==
  IF act.v4 \/ act.v6 THEN services' \in Updated(set, services) ELSE services' = services

StartsV6 == {[v4 |-> TRUE, v6 |-> v6] : v6 \in {TRUE, active.v6}}
(* SetActive(TRUE) starts what is not running. When the interfaces cannot be listed or the    *)
(* first service fails it goes no further.                                        *)
Activate ==
  /\ IsFree /\ active # [v4 |-> TRUE, v6 |-> TRUE]
  /\ \/ UNCHANGED <<active, services>>
     \/ ~active.v4 /\ active' = active /\ UNCHANGED services
     \/ active' \in StartsV6 /\ UpdateManualServices(settings, active')
  /\ UNCHANGED <<queue, hosts, settingsVars, psnVars, waking, windowVars, stale, moved, astray>>

(* SetActive(FALSE) joins every thread; what they posted is still to come.                *)
Deactivate ==
  /\ IsFree /\ (active.v4 \/ active.v6) /\ active' = [v4 |-> FALSE, v6 |-> FALSE]
  /\ services' = <<>> /\ hosts' = <<>> /\ stale' = TRUE
  /\ UNCHANGED <<queue, settingsVars, psnVars, waking, windowVars, moved, astray>>

(* DiscoveryServiceHostsCallback of either service, on its thread.                     *)
ServiceReports(list) ==
  /\ active.v4 \/ active.v6
  /\ Len(queue) < QueueMax /\ queue' = Append(queue, list)
  /\ UNCHANGED <<active, hosts, services, settingsVars, psnVars, waking, windowVars, stale, moved, astray>>

(* DiscoveryServiceHosts: the list of the one takes the place of that of the other.         *)
Told == <<Nowhere>>  \* HostsUpdated or hostsChanged, emitted on another thread
HandleHosts ==
  /\ IsFree /\ queue # <<>> /\ queue' = Tail(queue) /\ stale' = TRUE
  /\ hosts' = IF Head(queue) = Told THEN hosts ELSE Head(queue)
  /\ UNCHANGED <<active, services, settingsVars, psnVars, waking, windowVars, moved, astray>>

(* DiscoveryServiceHostsManualCallback writes on the service's thread what the window's       *)
(* thread reads: first that there is a host, then which.                            *)
ManualFound(a) ==
  /\ ~services[a].found /\ services' = [services EXCEPT ![a].found = TRUE]
  /\ moved' = TRUE /\ UNCHANGED <<active, queue, hosts, settingsVars, psnVars, waking, windowVars, stale, astray>>
ManualTells(a, host) ==
  /\ services[a].found /\ services[a].host # host /\ Len(queue) < QueueMax /\ queue' = Append(queue, Told)
  /\ services' = [services EXCEPT ![a] = [found |-> host # Nowhere, host |-> IF host = Nowhere THEN @.host ELSE host]]
  /\ moved' = TRUE /\ UNCHANGED <<active, hosts, settingsVars, psnVars, waking, windowVars, stale, astray>>

-----------------------------------------------------------------------------
(* hosts(): a hidden console is left out; one registered since is no longer hidden, but          *)
(* still left out this once. Its address is saved as its last.                      *)
Key(kind, key) == <<kind, key>>
Macs == {MacOf(a) : a \in ToSet(Discovered)}
IsHidden(i) ==
  LET mac == MacOf(Discovered[i])
  IN  mac \in settings.hidden /\ (mac \in settings.registered => \A j \in 1..(i - 1) : MacOf(Discovered[j]) # mac)
ManualOf(a) ==
  {id \in DOMAIN settings.manual : settings.manual[id] = [addr |-> a, registered |-> TRUE, mac |-> MacOf(a)]}
LastIps ==
  [c \in Consoles |->
     LET known == {i \in DOMAIN Discovered : MacOf(Discovered[i]) = c}
     IN  IF c \in settings.registered /\ known # {} THEN Discovered[Max(known)] ELSE settings.lastIp[c]]
NamedHere ==
  Macs \cup waking
    \cup (IF Cardinality({i \in DOMAIN Discovered : MacOf(Discovered[i]) \in Ps4s \cap settings.registered}) >= settings.ps4s
          THEN {Main} ELSE {})
PsnNames ==
  LET all == Append(Devices, Main)
      known == Ordered({i \in DOMAIN all : all[i] \in psn.hosts})
  IN  [i \in DOMAIN known |-> all[known[i]]]
(* What there is an entry for of the consoles found, entered and of the account.           *)
Seen == {i \in DOMAIN Discovered : ~IsHidden(i)}
Missed == {id \in DOMAIN settings.manual : \A a \in ToSet(Discovered) : id \notin ManualOf(a)}
Away(here) == {i \in DOMAIN PsnNames : PsnNames[i] \notin here}
Entries(kind, host, places) == LET order == Ordered(places) IN [i \in DOMAIN order |-> Key(kind, host[order[i]])]
Listed ==
  Entries("discovered", Discovered, Seen)
    \o Entries("manual", [id \in Missed |-> id], Missed)
    \o Entries("psn", PsnNames, Away(NamedHere))
LeavesOut == Seen # DOMAIN Discovered \/ Missed # DOMAIN settings.manual \/ Away(NamedHere) # Away(Macs)

(* displayServerAt counts what hosts() left out, and knows of other reasons to leave out.        *)
(* Mutant: the manual hosts are not counted off before those of the account.             *)
RemoteAt(i) ==
  LET remote == Entries("psn", PsnNames, Away(Macs))
  IN  IF i \in DOMAIN remote THEN remote[i] ELSE Key("none", Nowhere)
ServerAt_CountsOnce(i) ==
  LET m == i - Len(Discovered)
  IN  CASE m <= 0 -> Key("discovered", Discovered[i])
        [] m > 0 /\ m <= Len(Ids) -> Key("manual", Ids[m])
        [] OTHER -> RemoteAt(m)
ServerAt(i) ==
  LET m == i - Len(Discovered)
  IN  CASE m <= 0 -> Key("discovered", Discovered[i])
        [] m > 0 /\ m <= Len(Ids) -> Key("manual", Ids[m])
        [] OTHER -> RemoteAt(m - Len(Ids))

Refresh ==
  /\ stale /\ stale' = FALSE /\ shown' = Listed /\ leftOut' = LeavesOut /\ moved' = FALSE
  /\ settings' = [settings EXCEPT !.hidden = @ \ (Macs \cap settings.registered), !.lastIp = LastIps]
  /\ IF LastIps = settings.lastIp THEN services' = services ELSE UpdateManualServices(settings, active)
  /\ UNCHANGED <<active, queue, hosts, profile, dialog, due, psnVars, waking, astray>>

(* The user picks an entry; what is done is done to what is found at its place.           *)
Pick(i) ==
  /\ IsFree
  /\ astray' = IF ServerAt(i) = shown[i] \/ astray = "plainly" THEN astray
               ELSE IF leftOut \/ moved THEN "behind another" ELSE "plainly"

ManualAt(server) ==
  CASE server[1] = "manual" -> {server[2]}
    [] server[1] = "discovered" -> {id \in ManualOf(server[2]) : \A other \in ManualOf(server[2]) : id <= other}
    [] OTHER -> {}
MacAt(server) ==
  CASE server[1] = "manual" /\ settings.manual[server[2]].registered -> settings.manual[server[2]].mac
    [] server[1] = "discovered" -> MacOf(server[2])
    [] server[1] = "psn" /\ server[2] \in settings.nicknamed -> server[2]
    [] OTHER -> Nowhere
IsRegistered(server) == server[1] = "psn" \/ MacAt(server) \in settings.registered

Woken(entry) == IF entry[1] = "discovered" THEN {waking \cup {MacOf(entry[2])}} ELSE {}
(* connectToHost: an unknown console is to be registered first; one in standby is woken, and     *)
(* not listed by its nickname for a while.                                    *)
Connect(i) ==
  /\ Pick(i)
  /\ LET server == ServerAt(i) IN
       IF server[1] # "none" /\ ~IsRegistered(server)
       THEN /\ dialog' = [discovered |-> server[1] = "discovered", mac |-> MacAt(server),
                          manual |-> IF ManualAt(server) = {} THEN NoHost
                                     ELSE LET id == CHOOSE n \in ManualAt(server) : TRUE
                                              host == settings.manual[id]
                                          IN [id |-> id, addr |-> host.addr, registered |-> host.registered, mac |-> host.mac]]
            /\ waking' = waking
       ELSE /\ dialog' = dialog
            /\ waking' \in {waking} \cup (IF server[1] = "discovered" THEN Woken(shown[i]) ELSE {})
  /\ UNCHANGED <<listVars, settings, profile, due, psnVars, windowVars, stale, moved>>
WakingEnds(name) ==
  /\ IsFree /\ waking' = waking \ {name} /\ stale' = TRUE
  /\ UNCHANGED <<listVars, settingsVars, psnVars, windowVars, moved, astray>>

(* psn_auto_connect_timer: the place is that among all consoles of the account.             *)
AutoConnectPsn(i) ==
  /\ IsFree /\ worker.at = "idle"
  /\ astray' = IF RemoteAt(i) = Key("psn", PsnNames[i]) \/ astray = "plainly" THEN astray
               ELSE IF Macs \cap psn.hosts # {} THEN "behind another" ELSE "plainly"
  /\ UNCHANGED <<listVars, settingsVars, psnVars, waking, windowVars, stale, moved>>

-----------------------------------------------------------------------------
(* A change of settings is saved and told: to DiscoveryManager, and to the window.           *)
Change(set) ==
  /\ settings' = set /\ stale' = TRUE /\ UpdateManualServices(set, active)
  /\ UNCHANGED <<active, queue, hosts, profile, waking, windowVars, moved>>

SaveManual(set, host) ==
  LET id == IF host.id < 0 THEN set.next + 1 ELSE host.id
      saved == [addr |-> host.addr, registered |-> host.registered, mac |-> host.mac]
  IN  [set EXCEPT !.manual = [i \in DOMAIN @ \cup {id} |-> IF i = id THEN saved ELSE @[i]],
                  !.next = IF host.id < 0 THEN @ + 1 ELSE @]
AddRegistered(set, mac) == [set EXCEPT !.registered = @ \cup {mac}, !.nicknamed = @ \cup {mac}]

AddManualHost(a, mac) ==
  /\ IsFree /\ settings.next < IdsMax
  /\ Change(SaveManual(settings, [NoHost EXCEPT !.addr = a, !.registered = mac # Nowhere, !.mac = mac]))
  /\ UNCHANGED <<dialog, due, psnVars, astray>>
DeleteHost(i) ==
  /\ Pick(i) /\ shown[i][1] # "psn"
  /\ shown[i][1] = "discovered" => ManualOf(shown[i][2]) # {}
  /\ LET ids == ManualAt(ServerAt(i)) IN
       IF ids = {} THEN UNCHANGED <<listVars, settings, profile, waking, windowVars, stale, moved>>
       ELSE Change([settings EXCEPT !.manual = [id \in DOMAIN @ \ ids |-> @[id]]])
  /\ UNCHANGED <<dialog, due, psnVars>>
(* setConsolePin saves the registered console again, an empty one where none is found.      *)
SetConsolePin(i) ==
  /\ Pick(i) /\ IsRegistered(shown[i]) /\ UNCHANGED <<dialog, due, psnVars>>
  /\ IF ServerAt(i)[1] = "none" THEN UNCHANGED <<listVars, settings, profile, waking, windowVars, stale, moved>>
     ELSE LET mac == IF IsRegistered(ServerAt(i)) THEN MacAt(ServerAt(i)) ELSE Nowhere
          IN  Change(AddRegistered(settings, mac))
Unregister(mac) ==
  /\ IsFree /\ Change([settings EXCEPT !.registered = @ \ {mac}]) /\ UNCHANGED <<dialog, due, psnVars, astray>>
HiddenAs(set) == [settings EXCEPT !.hidden = set]
(* hideHost, unhideHost: only the window is told.                                  *)
Hide(set) ==
  /\ IsFree /\ settings' = HiddenAs(set) /\ stale' = TRUE
  /\ UNCHANGED <<listVars, profile, dialog, due, psnVars, waking, windowVars, moved, astray>>

(* The console answered the registration that registerHost began: it is saved, and then the      *)
(* manual host of the dialog opened last, unless that was of a console discovered.        *)
Registered(mac, typed) ==
  /\ IsFree /\ Change(AddRegistered(settings, mac)) /\ UNCHANGED <<dialog, psnVars, astray>>
  /\ due' = IF dialog.discovered \/ (dialog.manual.id < 0 /\ settings.next >= IdsMax) THEN NoHost
            ELSE [dialog.manual EXCEPT !.addr = IF @ = Nowhere THEN typed ELSE @, !.registered = TRUE, !.mac = mac]
SaveDue ==
  /\ ~stale /\ due # NoHost /\ due' = NoHost /\ Change(SaveManual(settings, due)) /\ UNCHANGED <<dialog, psnVars, astray>>
(* finishAutoRegister, after a registration through PSN; a PlayStation 4 must be the main one.   *)
AutoRegistered ==
  /\ IsFree /\ dialog.discovered /\ dialog.mac \in Consoles
  /\ Change(AddRegistered(settings, dialog.mac)) /\ UNCHANGED <<dialog, due, psn, astray>>
  /\ worker' = IF worker.at = "idle" THEN [worker EXCEPT !.at = "asks", !.failed = FALSE] ELSE worker
RegisterFails == IsFree /\ dialog' = NoServer /\ UNCHANGED <<listVars, settings, profile, due, psnVars, waking, windowVars, stale, moved, astray>>

(* profileChanged: settings of another file, the services follow, the consoles of the account    *)
(* stay.                                                                 *)
ProfileChanged ==
  /\ IsFree /\ profile < Len(Switches) /\ profile' = profile + 1
  /\ settings' = Load(Switches[profile + 1]) /\ stale' = TRUE /\ UpdateManualServices(settings', active)
  /\ UNCHANGED <<active, queue, hosts, dialog, due, psnVars, waking, windowVars, moved, astray>>

-----------------------------------------------------------------------------
(* updatePsnHosts: one worker at a time asks for the consoles of the account and adds those it     *)
(* does not know, one after the other, to the maps the window reads.                  *)
UpdatePsnHosts ==
  /\ IsFree /\ worker.at = "idle" /\ worker' = [worker EXCEPT !.at = "asks", !.failed = FALSE]
  /\ UNCHANGED <<listVars, settingsVars, psn, waking, windowVars, stale, moved, astray>>
WorkerListed ==
  /\ worker.at = "asks"
  /\ worker' \in {[worker EXCEPT !.at = "adds"], [worker EXCEPT !.at = "adds main", !.failed = TRUE],
                  [worker EXCEPT !.at = "ends"]}
  /\ UNCHANGED <<listVars, settingsVars, psn, waking, windowVars, stale, moved, astray>>
Adds(name, known) ==
  /\ psn' = [names |-> psn.names \cup {name}, hosts |-> IF known THEN psn.hosts \cup {name} ELSE psn.hosts]
  /\ moved' = (moved \/ psn'.hosts # psn.hosts)
  /\ UNCHANGED <<active, hosts, services, settingsVars, waking, windowVars, stale, astray>>
WorkerAdds ==
  /\ UNCHANGED queue
  /\ \/ /\ worker.at = "adds"
        /\ LET left == SelectSeq(Devices, LAMBDA n : n \notin psn.names) IN
             IF left # <<>> THEN worker' = worker /\ Adds(Head(left), Head(left) \in settings.nicknamed)
             ELSE worker' = [worker EXCEPT !.at = "adds main"] /\ Adds(Main, FALSE)
     \/ worker.at = "adds main" /\ worker' = [worker EXCEPT !.at = "tells"] /\ Adds(Main, settings.ps4s > 0)
WorkerTells ==
  /\ worker.at = "tells" /\ worker' = [worker EXCEPT !.at = "ends"]
  /\ Len(queue) < QueueMax /\ queue' = Append(queue, Told)
  /\ UNCHANGED <<active, hosts, services, settingsVars, psn, waking, windowVars, stale, moved, astray>>
(* psn_hosts_watcher: after a failure the token is refreshed and the consoles asked for again.      *)
WorkerEnded ==
  /\ IsFree /\ worker.at = "ends"
  /\ worker' \in IF worker.failed /\ ~worker.retry
                 THEN {[at |-> a, failed |-> FALSE, retry |-> a = "asks"] : a \in {"idle", "asks"}}
                 ELSE {[at |-> "idle", failed |-> FALSE, retry |-> FALSE]}
  /\ UNCHANGED <<listVars, settingsVars, psn, waking, windowVars, stale, moved, astray>>

-----------------------------------------------------------------------------
(* The constructor loads the settings and tries to switch discovery on.                    *)
Init ==
  /\ settings = Load(Switches[1]) /\ profile = 1 /\ due = NoHost
  /\ active \in [v4 : BOOLEAN, v6 : BOOLEAN] /\ (active.v6 => active.v4) /\ queue = <<>> /\ hosts = <<>>
  /\ services \in IF active.v4 THEN Updated(settings, <<>>) ELSE {<<>>}
  /\ dialog \in {NoServer, [NoServer EXCEPT !.discovered = TRUE]}   \* not initialised
  /\ psn = [hosts |-> {}, names |-> {}] /\ worker = [at |-> "idle", failed |-> FALSE, retry |-> FALSE]
  /\ waking = {} /\ acts = 0 /\ shown = <<>> /\ stale = TRUE /\ leftOut = FALSE /\ moved = FALSE /\ astray = "no"

(* Another part of the system moves.                                            *)
AtRest ==
  /\ settings = Load(Switches[1]) /\ profile = 1 /\ due = NoHost /\ dialog = NoServer
  /\ active = [v4 |-> FALSE, v6 |-> FALSE] /\ queue = <<>> /\ hosts = <<>> /\ services = <<>>
  /\ psn = [hosts |-> {}, names |-> {}] /\ worker = [at |-> "idle", failed |-> FALSE, retry |-> FALSE]
  /\ waking = {} /\ acts = ActsMax /\ shown = <<>> /\ stale = FALSE /\ leftOut = FALSE /\ moved = FALSE /\ astray = "no"

User ==
  \/ \E i \in DOMAIN shown : Connect(i) \/ DeleteHost(i) \/ SetConsolePin(i)
  \/ \E a \in Entered, mac \in settings.registered \cup {Nowhere} : AddManualHost(a, mac)
  \/ \E mac \in settings.registered : Unregister(mac)
  \/ \E mac \in Macs \ settings.registered : Hide(settings.hidden \cup {mac})
  \/ \E mac \in settings.hidden : Hide(settings.hidden \ {mac})
  \/ \E c \in Consoles, a \in Entered : Registered(c, a)
  \/ AutoRegistered \/ RegisterFails \/ Activate \/ Deactivate \/ ProfileChanged \/ UpdatePsnHosts
Others ==
  \/ \E list \in Reports : ServiceReports(list)
  \/ \E a \in DOMAIN services : ManualFound(a) \/ \E host \in {a, Nowhere} : ManualTells(a, host)
  \/ \E i \in DOMAIN PsnNames : AutoConnectPsn(i)
  \/ \E name \in waking : WakingEnds(name)
  \/ WorkerListed \/ WorkerAdds \/ WorkerTells \/ HandleHosts \/ Refresh \/ SaveDue \/ WorkerEnded
HostListNext ==
  \/ acts < ActsMax /\ acts' = acts + 1 /\ User
  \/ acts' = acts /\ Others

(* The specification.                                                         *)
Spec == Init /\ [][HostListNext]_hostListVars

-----------------------------------------------------------------------------
TypeOK ==
  /\ settings.registered \subseteq Consoles \cup {Nowhere} /\ settings.hidden \subseteq Consoles \cup {Nowhere}
  /\ DOMAIN services \subseteq Addresses /\ Len(queue) <= QueueMax /\ psn.hosts \subseteq psn.names
  /\ astray \in {"no", "behind another", "plainly"}

(* What the user does to an entry is done to that console, as long as hosts() left nothing  *)
(* out and no other thread has written since (qmlbackend.cpp:822, :1790).               *)
ActsOnWhatIsShown == astray # "plainly"
(* Only a manual host that is registered has a service, and none while discovery is off    *)
(* (discoverymanager.cpp:244-257, :322-377): its thread would go on asking for a console    *)
(* the user removed.                                                          *)
ServicesFollowSettings ==
  DOMAIN services \subseteq IF active.v4 \/ active.v6 THEN Wanted(settings) ELSE {}
(* "Are you sure you want to delete this console?" (MainView.qml:1208): no other goes, even        *)
(* where the list has just been read.                                         *)
ThisConsoleOnly == [][astray' # astray /\ settings'.manual # settings.manual => moved]_hostListVars
=============================================================================
