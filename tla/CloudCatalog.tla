----------------------------- MODULE CloudCatalog -----------------------------
(* The catalogues of the cloud services on the desktop client                   *)
(* (gui/src/cloudcatalogbackend.cpp): the PS Now catalogue behind a login of    *)
(* four requests and fetched one category after the other, the PS5 catalogue,    *)
(* the library of owned games fetched page by page, the list that joins the      *)
(* last two, and the details of one game. The pages of the interface call it    *)
(* again before an earlier call is answered. Everything runs on the event       *)
(* loop; a handler is one step. What the callers of a kind share is a variable  *)
(* here, as it is a member there.                                             *)
EXTENDS Integers, FiniteSets

CONSTANTS
  Calls,        \* the calls of the pages, numbered from 1
  CallsFor,     \* per kind: the calls that may be of it (a bound)
  Categories,   \* how many categories the root container lists
  Pages,        \* how many pages of PAGE_SIZE entitlements the user owns
  Products,     \* games whose details are asked for
  Locales       \* languages the login may answer

VARIABLES
  kind,         \* what a call asks for, "none" before it is made
  step,         \* how far the requests of a call are
  at,           \* the category, page or product the call's request is for
  listing,      \* the locale of the call's request for the PS5 catalogue (0: none)
  caller,       \* per kind: the callback that is stored (0: none)
  auth,         \* psnowState.authInProgress
  categories,   \* psnowState.categories.size()
  index,        \* psnowState.currentCategoryIndex
  games,        \* psnowState.allGames: the categories it holds
  start,        \* ownedGamesState.currentStart, in pages
  owned,        \* ownedGamesState.accumulatedEntitlements: the pages it holds
  wanted,       \* gameDetailsState.productId
  cross,        \* crossReferenceState: the catalogue and the library it holds
  locale,       \* CloudLanguagePSCloud
  cache,        \* the files of the cache, by key
  answers,      \* history: what each callback was called with, how often
  absent,       \* history: the categories of this catalogue that failed or listed no games
  cut,          \* history: the page the last answer for this library was short at (Pages: none)
  overlapped    \* history: kinds of which two calls were under way at once

catalogVars == <<kind, step, at, listing, caller, auth, categories, index, games, start, owned, wanted, cross,
                 locale, cache, answers, absent, cut, overlapped>>

psnowVars == <<auth, categories, index, games, absent>>
libraryVars == <<start, owned, cross, cut>>

Login == {"oauth", "session", "stores", "root"}
Missing == {-1}          \* no file, nothing fetched
All(n) == 0 .. n - 1
Current == -1            \* the timer asks for the category that is current then

Init ==
  /\ kind = [c \in Calls |-> "none"] /\ step = [c \in Calls |-> "none"] /\ at = [c \in Calls |-> 0]
  /\ listing = [c \in Calls |-> 0]
  /\ caller = [k \in {"psnow", "ps5", "cross", "details"} |-> 0]
  /\ auth = FALSE /\ categories = 0 /\ index = 0 /\ games = {} /\ start = 0 /\ owned = {}
  /\ wanted = 0 /\ cross = [catalog |-> Missing, owned |-> Missing]
  /\ locale \in Locales
  /\ cache \in [psnow : {Missing}, ps5 : {Missing}, library : {Missing, All(Pages)}, details : {{}}]
  /\ answers = [c \in Calls |-> [ok |-> 0, failed |-> 0]] /\ absent = {} /\ cut = Pages
  /\ overlapped = {}

Answer(c, how) == answers' = IF c = 0 THEN answers ELSE [answers EXCEPT ![c][how] = @ + 1]
Goes(c, s, a) == step' = [step EXCEPT ![c] = s] /\ at' = [at EXCEPT ![c] = a]
Busy(k) == \E c \in Calls : kind[c] = k /\ (step[c] # "none" \/ listing[c] # 0)

(* The pages call in the order of their numbers.                              *)
Calling(c, k) ==
  /\ kind[c] = "none" /\ c \in CallsFor[k] /\ \A d \in Calls : d < c => kind[d] # "none"
  /\ kind' = [kind EXCEPT ![c] = k]
  /\ overlapped' = IF Busy(k) THEN overlapped \cup {k} ELSE overlapped

-----------------------------------------------------------------------------
(* fetchPsnowCatalog: from the cache, or refused while a login is under way, or  *)
(* a new login that forgets what was fetched so far.                          *)
FetchPsnow(c) ==
  /\ Calling(c, "psnow")
  /\ \/ /\ cache.psnow # Missing /\ Answer(c, "ok") /\ UNCHANGED <<step, at, caller, psnowVars>>
     \/ /\ cache.psnow = Missing /\ auth /\ Answer(c, "failed") /\ UNCHANGED <<step, at, caller, psnowVars>>
     \/ /\ cache.psnow = Missing /\ ~auth
        /\ Goes(c, "oauth", 0) /\ caller' = [caller EXCEPT !.psnow = c]
        /\ auth' = TRUE /\ categories' = 0 /\ index' = 0 /\ games' = {} /\ absent' = {} /\ UNCHANGED answers
  /\ UNCHANGED <<listing, libraryVars, wanted, locale, cache>>

Invalidated == [cache EXCEPT !.psnow = Missing, !.ps5 = Missing, !.library = Missing]

(* Every handler of the login: an answer it can use leads to the next request,    *)
(* any other ends the login.                                                 *)
HandleOAuth(c) == step[c] = "oauth" /\ Goes(c, "session", 0) /\ UNCHANGED <<locale, cache, psnowVars>>

(* handlePsnowSessionResponse: a new language makes the catalogues stale.      *)
HandleSession(c) ==
  /\ step[c] = "session" /\ Goes(c, "stores", 0)
  /\ \E l \in Locales : locale' = l /\ cache' = IF l # locale THEN Invalidated ELSE cache
  /\ UNCHANGED psnowVars

HandleStores(c) == step[c] = "stores" /\ Goes(c, "root", 0) /\ UNCHANGED <<locale, cache, psnowVars>>

HandleRoot(c) ==
  /\ step[c] = "root" /\ Goes(c, "category", 0)
  /\ auth' = FALSE /\ categories' = Categories /\ index' = 0 /\ games' = {} /\ absent' = {}
  /\ UNCHANGED <<locale, cache>>

HandleLogin(c) ==
  /\ HandleOAuth(c) \/ HandleSession(c) \/ HandleStores(c) \/ HandleRoot(c)
  /\ UNCHANGED <<kind, listing, caller, libraryVars, wanted, answers, overlapped>>

(* Mutant: the mark stays.                                                   *)
LoginFails_Marked(c) ==
  /\ step[c] \in Login /\ Goes(c, "none", 0)
  /\ UNCHANGED auth /\ Answer(caller.psnow, "failed")
  /\ UNCHANGED <<kind, listing, caller, categories, index, games, absent, libraryVars, wanted, locale, cache, overlapped>>

LoginFails(c) ==
  /\ step[c] \in Login /\ Goes(c, "none", 0)
  /\ auth' = FALSE /\ Answer(caller.psnow, "failed")
  /\ UNCHANGED <<kind, listing, caller, categories, index, games, absent, libraryVars, wanted, locale, cache, overlapped>>

(* processPsnowCatalogComplete.                                               *)
Complete(all) == cache' = [cache EXCEPT !.psnow = all] /\ Answer(caller.psnow, "ok")

(* The end of handlePsnowCategoryResponse: a timer asks for the next category,   *)
(* after a failure for the one after it, otherwise for the current one.        *)
NextCategory(c, all, asksFor) ==
  IF at[c] + 1 < categories
  THEN Goes(c, "timer", asksFor) /\ UNCHANGED <<cache, answers>>
  ELSE Goes(c, "none", 0) /\ Complete(all)

(* handlePsnowCategoryResponse: the games of its links, or nothing from an answer  *)
(* that is no object or has no links, which is no failure either.              *)
HandleCategory(c) ==
  /\ step[c] = "category"
  /\ \/ games' = games \cup {at[c]} /\ UNCHANGED absent
     \/ absent' = absent \cup {at[c]} /\ UNCHANGED games
  /\ index' = at[c] + 1
  /\ NextCategory(c, games', Current)
  /\ UNCHANGED <<kind, listing, caller, auth, categories, libraryVars, wanted, locale, overlapped>>

CategoryFails(c) ==
  /\ step[c] = "category" /\ absent' = absent \cup {at[c]}
  /\ IF games = {} /\ index >= categories - 1
     THEN Goes(c, "none", 0) /\ Answer(caller.psnow, "failed") /\ UNCHANGED <<index, cache>>
     ELSE index' = at[c] + 1 /\ NextCategory(c, games, at[c] + 1)
  /\ UNCHANGED <<kind, listing, caller, auth, categories, games, libraryVars, wanted, locale, overlapped>>

(* The rate limit timer goes off: whatever was connected to it asks for its      *)
(* category (fetchPsnowCategory), or finds that there are no more.             *)
Fired == {c \in Calls : step[c] = "timer"}
Asks(c) == IF at[c] = Current THEN index ELSE at[c]
TimerFires ==
  /\ Fired # {}
  /\ step' = [c \in Calls |-> IF c \notin Fired THEN step[c] ELSE IF Asks(c) < categories THEN "category" ELSE "none"]
  /\ at' = [c \in Calls |-> IF c \notin Fired THEN at[c] ELSE Asks(c)]
  /\ IF \E c \in Fired : Asks(c) >= categories THEN Complete(games) ELSE UNCHANGED <<cache, answers>>
  /\ UNCHANGED <<kind, listing, caller, psnowVars, libraryVars, wanted, locale, overlapped>>

-----------------------------------------------------------------------------
(* processCrossReferenceComplete, once both lists are there: the callback is      *)
(* called with the join and everything is forgotten.                          *)
Joined(x) ==
  IF x.catalog # Missing /\ x.owned # Missing
  THEN /\ cross' = [catalog |-> Missing, owned |-> Missing]
       /\ caller' = [caller EXCEPT !.cross = 0] /\ Answer(caller.cross, "ok")
  ELSE cross' = x /\ UNCHANGED <<caller, answers>>

(* fetchPs5CloudCatalog, called by a page.                                    *)
FetchPs5(c) ==
  /\ Calling(c, "ps5")
  /\ IF cache.ps5 # Missing
     THEN Answer(c, "ok") /\ UNCHANGED <<listing, caller>>
     ELSE listing' = [listing EXCEPT ![c] = locale] /\ caller' = [caller EXCEPT !.ps5 = c] /\ UNCHANGED answers
  /\ UNCHANGED <<step, at, psnowVars, libraryVars, wanted, locale, cache>>

(* getOwnedPs5CloudGames: what the cache has is taken at once, the rest is         *)
(* requested; both requests are under way at the same time when both are missing. *)
GetOwned(c) ==
  /\ Calling(c, "cross")
  /\ LET x == [catalog |-> cache.ps5, owned |-> cache.library] IN
     IF x.catalog # Missing /\ x.owned # Missing
     THEN /\ Answer(c, "ok") /\ caller' = [caller EXCEPT !.cross = 0]
          /\ cross' = [catalog |-> Missing, owned |-> Missing] /\ UNCHANGED <<step, at, listing>>
     ELSE /\ caller' = [caller EXCEPT !.cross = c, !.ps5 = IF x.catalog = Missing THEN 0 ELSE @]
          /\ cross' = x /\ UNCHANGED answers
          /\ listing' = [listing EXCEPT ![c] = IF x.catalog = Missing THEN locale ELSE 0]
          /\ Goes(c, IF x.owned = Missing THEN "library" ELSE "none", 0)
  /\ UNCHANGED <<psnowVars, start, owned, cut, wanted, locale, cache>>

Listed(c) == listing[c] # 0 /\ listing' = [listing EXCEPT ![c] = 0] /\ UNCHANGED <<step, at>>

(* handlePs5CatalogResponse: a join that waits for a catalogue takes this one, and  *)
(* the callback of the last direct call is called as well.                    *)
HandlePs5(c) ==
  /\ Listed(c)
  /\ cache' = [cache EXCEPT !.ps5 = {listing[c]}]
  /\ LET x == [cross EXCEPT !.catalog = {listing[c]}]
         joins == caller.cross # 0 /\ cross.catalog = Missing
     IN IF joins /\ x.owned # Missing
        THEN /\ cross' = [catalog |-> Missing, owned |-> Missing] /\ caller' = [caller EXCEPT !.cross = 0]
             /\ answers' = [d \in Calls |-> [answers[d] EXCEPT !.ok =
                              @ + (IF d = caller.cross THEN 1 ELSE 0) + (IF d = caller.ps5 THEN 1 ELSE 0)]]
        ELSE cross' = (IF joins THEN x ELSE cross) /\ Answer(caller.ps5, "ok") /\ UNCHANGED caller
  /\ UNCHANGED <<kind, psnowVars, start, owned, cut, wanted, locale, overlapped>>

(* ... which tells nobody else when it fails: the join is never answered.        *)
Ps5Fails(c) ==
  /\ Listed(c) /\ Answer(caller.ps5, "failed")
  /\ UNCHANGED <<kind, caller, psnowVars, libraryVars, wanted, locale, cache, overlapped>>

(* handleOwnedGamesOAuthResponse: a moment after it has the token the pages are   *)
(* asked for from the first.                                                 *)
HandleToken(c) ==
  /\ step[c] = "library" /\ Goes(c, "page", 0)
  /\ owned' = {} /\ start' = 0 /\ cut' = Pages
  /\ UNCHANGED <<kind, listing, caller, psnowVars, cross, wanted, locale, cache, answers, overlapped>>

(* The library is stored, and handed to a join that waits for it.                *)
Stored(c) ==
  /\ Goes(c, "none", 0) /\ UNCHANGED start
  /\ cache' = [cache EXCEPT !.library = owned']
  /\ IF caller.cross # 0 /\ cross.owned = Missing
     THEN Joined([cross EXCEPT !.owned = owned']) ELSE UNCHANGED <<cross, caller, answers>>

(* Mutant: a page that is one short of full ends the library as well.             *)
IsFull_Short(page) == page < Pages - 2

(* handleOwnedGamesResponse: a full page is followed by another a moment later,    *)
(* from wherever currentStart is then (fetchOwnedGamesPage). An object without     *)
(* entitlements counts as a page without any and is the last one.              *)
IsFull(page) == page < Pages - 1
HandlePage(c) ==
  /\ step[c] = "page"
  /\ \/ /\ owned' = owned \cup ({at[c]} \cap All(Pages)) /\ UNCHANGED cut
        /\ IF IsFull(at[c])
           THEN Goes(c, "pause", 0) /\ start' = start + 1 /\ UNCHANGED <<cross, caller, cache, answers>>
           ELSE Stored(c)
     \/ /\ cut' = at[c] /\ UNCHANGED owned
        /\ Stored(c)
  /\ UNCHANGED <<kind, listing, psnowVars, wanted, locale, overlapped>>

FetchOwnedGamesPage(c) ==
  /\ step[c] = "pause" /\ Goes(c, "page", start)
  /\ UNCHANGED <<kind, listing, caller, psnowVars, libraryVars, wanted, locale, cache, answers, overlapped>>

(* Any failure on that way goes to the join, whose callback stays stored.       *)
LibraryFails(c) ==
  /\ step[c] \in {"library", "page"} /\ Goes(c, "none", 0)
  /\ Answer(caller.cross, "failed")
  /\ UNCHANGED <<kind, listing, caller, psnowVars, libraryVars, wanted, locale, cache, overlapped>>

-----------------------------------------------------------------------------
(* fetchGameDetails and executeGameDetailsFetch: one slot for the product that    *)
(* is wanted, taken by the last call.                                         *)
FetchDetails(c) ==
  /\ Calling(c, "details")
  /\ \E p \in Products :
       IF \E d \in cache.details : d[1] = p
       THEN Answer(c, "ok") /\ UNCHANGED <<step, at, caller, wanted>>
       ELSE Goes(c, "details", p) /\ caller' = [caller EXCEPT !.details = c] /\ wanted' = p /\ UNCHANGED answers
  /\ UNCHANGED <<listing, psnowVars, libraryVars, locale, cache>>

(* handleGameDetailsResponse: the answer is stored under the product wanted now.  *)
HandleDetails(c) ==
  /\ step[c] = "details" /\ Goes(c, "none", 0)
  /\ \/ /\ cache' = [cache EXCEPT !.details = {d \in @ : d[1] # wanted} \cup {<<wanted, at[c]>>}]
        /\ Answer(caller.details, "ok")
     \/ UNCHANGED cache /\ Answer(caller.details, "failed")
  /\ UNCHANGED <<kind, listing, caller, psnowVars, libraryVars, wanted, locale, overlapped>>

(* invalidateCache, from the page's button; the page then loads again.          *)
InvalidateCache ==
  /\ cache # Invalidated /\ cache' = Invalidated
  /\ UNCHANGED <<kind, step, at, listing, caller, psnowVars, libraryVars, wanted, locale, answers, overlapped>>

CatalogNext ==
  \/ TimerFires \/ InvalidateCache
  \/ \E c \in Calls :
       \/ FetchPsnow(c) \/ FetchPs5(c) \/ GetOwned(c) \/ FetchDetails(c)
       \/ HandleLogin(c) \/ LoginFails(c) \/ HandleCategory(c) \/ CategoryFails(c)
       \/ HandlePs5(c) \/ Ps5Fails(c) \/ HandleToken(c) \/ HandlePage(c) \/ FetchOwnedGamesPage(c) \/ LibraryFails(c)
       \/ HandleDetails(c)

Spec == Init /\ [][CatalogNext]_catalogVars

-----------------------------------------------------------------------------
TypeOK ==
  /\ at \in [Calls -> Int] /\ listing \in [Calls -> Locales \cup {0}] /\ caller \in [{"psnow", "ps5", "cross", "details"} -> {0} \cup Calls]
  /\ auth \in BOOLEAN /\ categories \in {0, Categories} /\ games \subseteq All(Categories)
  /\ owned \subseteq All(Pages) /\ index \in 0 .. Categories /\ locale \in Locales

(* The login is marked as under way exactly while one of its requests is: no     *)
(* failure leaves the mark, which would refuse the catalogue until the program    *)
(* is restarted, and no two logins share the state.                            *)
LoginIsMarked == Cardinality({c \in Calls : step[c] \in Login}) = IF auth THEN 1 ELSE 0

(* Each list of owned games is delivered at most once, however the catalogue,      *)
(* the library and later calls for them cross (processCrossReferenceComplete).  *)
JoinedOnce == \A c \in Calls : kind[c] = "cross" => answers[c].ok <= 1

(* Unless two calls of the kind overlapped, what is stored for a day is what was    *)
(* there: every category but those that failed or whose answer listed no games,  *)
(* and every page up to the first answer without entitlements, if there was one. *)
StoredIsWhole ==
  /\ cache.psnow # Missing /\ ~Busy("psnow") /\ "psnow" \notin overlapped
       => cache.psnow = All(Categories) \ absent
  /\ "cross" \notin overlapped => cache.library \in {Missing, All(cut)}

(* What a page of the interface may rely on when its calls overlap with others.  *)
CatalogIsSound == LoginIsMarked /\ JoinedOnce /\ StoredIsWhole
=============================================================================
