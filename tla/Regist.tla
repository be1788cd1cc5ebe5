------------------------------- MODULE Regist -------------------------------
(* The registration with a console (lib/src/regist.c): a thread that finds     *)
(* the console on the network, or speaks to it over the punched socket, sends   *)
(* one request and reads the answer, while the application may stop it. The    *)
(* messages over the socket are those of rudp.c (chiaki_rudp_send_recv).      *)
EXTENDS Naturals, FiniteSets

CONSTANTS
  RegistTries,  \* attempts of an exchange over rudp: 3
  AddressesMax, \* bound: addresses the name of the host stands for
  ReadsMax      \* bound: packets of others in the time of the search, pieces of an answer

VARIABLES
  step,    \* where regist_thread_func is
  overPsn, \* holepunch_info is there
  stop,    \* stop_pipe: "no", or (history) where the thread was when it was stopped
  try,     \* attempts of the exchange, or pieces read, so far
  untried, \* addresses regist_search_connect has not tried
  sock,    \* the socket the thread knows is open
  left,    \* history: open sockets it has lost sight of
  found,   \* what the answer has brought
  event    \* the event sent, or "none"

vars == <<step, overPsn, stop, try, untried, sock, left, found, event>>

Fields == {"RegistKey", "Key", "Mac"}

(* chiaki_regist_start.                                                      *)
Init ==
  /\ overPsn \in BOOLEAN /\ step = "start" /\ stop = "no"
  /\ try = 0 /\ untried = 0 /\ sock = FALSE /\ left = 0 /\ found = {} /\ event = "none"

(* Another part of the system moves.                                         *)
AtRest ==
  /\ overPsn = FALSE /\ step = "joined" /\ stop = "start"
  /\ try = 0 /\ untried = 0 /\ sock = FALSE /\ left = 0 /\ found = {} /\ event = "none"

Go(to) == step' = to /\ try' = 0
Report(what) == Go("report") /\ event' = what
Closed == sock' = FALSE
unread == <<overPsn, stop, untried, left, found>>

(* chiaki_regist_stop.                                                       *)
Stop == stop = "no" /\ stop' = step /\ UNCHANGED <<step, overPsn, try, untried, sock, left, found, event>>

(* The request is formatted.                                                 *)
Begin ==
  /\ step = "start"
  /\ \/ Go(IF overPsn THEN "init" ELSE "resolve") /\ UNCHANGED event
     \/ Report("failed")
  /\ UNCHANGED <<unread, sock>>

(* An attempt is used up.                                                    *)
Attempt == try < RegistTries /\ try' = try + 1 /\ UNCHANGED <<step, event>>

(* chiaki_rudp_send_recv: what is received is searched, with the messages it   *)
(* contains, for the kind that is waited for; a timeout, a message without it  *)
(* or one too small use up an attempt, after which the request is sent again.  *)
(* The stop pipe of the registration is not looked at.                        *)
After == [init |-> "cookie", cookie |-> "request", request |-> "finish", finish |-> "parse"]
Exchange ==
  /\ step \in DOMAIN After
  /\ \/ Go(After[step]) /\ UNCHANGED event
     \/ Attempt
     \/ step # "finish" /\ Report("failed")
     \/ step = "finish" /\ Go("parse") /\ UNCHANGED event \* only logged
  /\ UNCHANGED <<unread, sock>>

(* getaddrinfo.                                                              *)
Resolve ==
  /\ step = "resolve"
  /\ \/ \E n \in 1 .. AddressesMax : Go("open") /\ untried' = n /\ UNCHANGED event
     \/ Report("failed") /\ UNCHANGED untried
  /\ UNCHANGED <<overPsn, stop, sock, left, found>>

(* regist_search_connect, an address: no socket, or one without broadcast, which   *)
(* is closed; one that cannot be bound or connected, which stays open and is       *)
(* forgotten when the next is tried; or one that will do.                       *)
TryAddress ==
  /\ step = "open" /\ untried > 0 /\ untried' = untried - 1
  /\ left' = left + (IF sock THEN 1 ELSE 0)
  /\ \/ sock' \in BOOLEAN /\ UNCHANGED <<step, try>>
     \/ sock' = TRUE /\ Go("ask")
  /\ UNCHANGED <<overPsn, stop, found, event>>
TriedAll == step = "open" /\ untried = 0 /\ Closed /\ Report("failed") /\ UNCHANGED unread

(* regist_search: the question is sent, ...                                    *)
Ask ==
  /\ step = "ask"
  /\ \/ Go("search") /\ UNCHANGED <<event, sock>>
     \/ Closed /\ Report("failed")
  /\ UNCHANGED unread

(* ... and packets are waited for, for three seconds in all. If they have gone by with     *)
(* the packets of others, the stop is not looked at any more.                        *)
Search ==
  /\ step \in {"search", "again"}
  /\ \/ stop # "no" /\ Closed /\ Report("canceled")
     \/ stop = "no" /\ try < ReadsMax /\ step' = "read" /\ UNCHANGED <<try, event, sock>>
     \/ (stop = "no" \/ step = "again") /\ Closed /\ Report("failed")
  /\ UNCHANGED unread

(* What comes from others is passed over.                                       *)
Read ==
  /\ step = "read"
  /\ \/ Go("pause") /\ Closed /\ UNCHANGED event
     \/ step' = "again" /\ try' = try + 1 /\ UNCHANGED <<event, sock>>
     \/ Closed /\ Report("failed")
  /\ UNCHANGED unread

(* chiaki_stop_pipe_sleep; regist_request_connect blocks.                     *)
Pause ==
  /\ step = "pause"
  /\ \/ stop # "no" /\ Report("canceled")
     \/ stop = "no" /\ Go("connect") /\ UNCHANGED event
  /\ UNCHANGED <<unread, sock>>

Connect ==
  /\ step = "connect"
  /\ \/ Go("send") /\ sock' = TRUE /\ UNCHANGED event
     \/ Report("failed") /\ UNCHANGED sock
  /\ UNCHANGED unread

Send ==
  /\ step = "send"
  /\ \/ Go("header") /\ UNCHANGED <<event, sock>>
     \/ Report("failed") /\ Closed
  /\ UNCHANGED unread

(* chiaki_recv_http_header, then the rest of the content: the wait, ...            *)
AwaitAnswer ==
  /\ step \in {"header", "content"}
  /\ \/ stop = "no" /\ UNCHANGED <<try, event, sock>>
        /\ step' = (IF step = "header" THEN "headerRead" ELSE "contentRead")
     \/ stop # "no" /\ Report("canceled") /\ Closed
     \/ stop = "no" /\ Report("failed") /\ Closed
  /\ UNCHANGED unread

(* ... and the next piece. The header may come with all of the content.             *)
ReceivePiece ==
  /\ step \in {"headerRead", "contentRead"}
  /\ \/ /\ try < ReadsMax /\ try' = try + 1 /\ step' = (IF step = "headerRead" THEN "header" ELSE "content")
        /\ UNCHANGED <<event, sock>>
     \/ Go("parse") /\ UNCHANGED <<event, sock>>
     \/ step = "headerRead" /\ Go("content") /\ UNCHANGED <<event, sock>>
     \/ Report("failed") /\ Closed
  /\ UNCHANGED unread

(* Mutant: an answer without the MAC of the host will do.                      *)
Complete_NoMac(fields) == (Fields \ {"Mac"}) \subseteq fields

(* regist_parse_response_payload.                                            *)
Complete(fields) == Fields \subseteq fields

Parse ==
  /\ step = "parse"
  /\ \E fields \in SUBSET Fields :
       /\ found' = fields
       /\ Report(IF Complete(fields) THEN "success" ELSE "failed")
  /\ Closed
  /\ UNCHANGED <<overPsn, stop, untried, left>>

(* The callback is called and the thread ends; chiaki_regist_fini joins it.    *)
Ends == step = "report" /\ step' = "ended" /\ UNCHANGED <<overPsn, stop, try, untried, sock, left, found, event>>
Join == step = "ended" /\ step' = "joined" /\ UNCHANGED <<overPsn, stop, try, untried, sock, left, found, event>>

Thread == \/ Begin \/ Exchange \/ Resolve \/ TryAddress \/ TriedAll \/ Ask \/ Search \/ Read \/ Pause
          \/ Connect \/ Send \/ AwaitAnswer \/ ReceivePiece \/ Parse \/ Ends
Next == Stop \/ Thread \/ Join
Spec == Init /\ [][Next]_vars /\ WF_vars(Thread \/ Join)

------------------------------------------------------------------------------
(* A registration over the punched socket cannot be stopped, and ends all the  *)
(* same: every thread is joined, with its event sent once. Over the network a stop    *)
(* that meets a wait is reported as canceled, and one that comes before the answer     *)
(* never ends in a success (regist.c:462, 327, 735), but a send, a connection or a      *)
(* piece that fails meanwhile, and a search whose time is over, report a failure. A    *)
(* success brings all that is needed to connect. No socket the thread knows of stays    *)
(* open: only those of addresses it gave up for another one do (regist.c:571-585).      *)
RegistEnds ==
  /\ <>(step = "joined")
  /\ [][step # "report" /\ step' = "report" =>
          /\ stop \in {"search", "pause", "header", "content"} => event' = "canceled"
          /\ event' = "canceled" => stop # "no"
          /\ event' = "success" => /\ Fields \subseteq found'
                                   /\ overPsn \/ stop \in {"no", "headerRead", "contentRead", "parse"}
          /\ ~sock' /\ left' < AddressesMax /\ event = "none" /\ event' # "none"]_vars
=============================================================================
