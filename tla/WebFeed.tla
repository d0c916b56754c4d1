------------------------------ MODULE WebFeed -------------------------------
(***************************************************************************)
(* How a value reported by a device reaches a web page: main/zbm_web_server*)
(* and the REST handlers on the host, zbm_webui_dir/src on the page.       *)
(*                                                                         *)
(* esp_zb_task puts updates of attributes and events that a device has    *)
(* changed into two queues.  ws_update_task takes them by turns, prints    *)
(* them into a buffer it shares with the HTTP server's task, and gives     *)
(* them to that task, which sends them to every page with a WebSocket.  A  *)
(* page that has its WebSocket loads the devices once and applies updates  *)
(* from then on; for a notice it asks for the device again.  Every 10 s it *)
(* compares the host's session token with one that all pages of a browser  *)
(* share, and reloads itself when they differ.                             *)
(*                                                                         *)
(* One attribute of one device is followed.  Its values are numbered from  *)
(* 2, in the order the host had them; a page is up to date when it shows   *)
(* the last one, whole: of a value of more than 8 bytes ws_update_task     *)
(* sends the first 8.                                                      *)
(***************************************************************************)
EXTENDS Naturals, Sequences, SequencesExt

CONSTANTS
  Page,        \* pages open in one browser
  AttrLen,     \* ZBM_WS_UPDATE_QUEUE_SIZE
  SysLen,      \* ZBM_WS_SYS_NOTIFY_QUEUE_SIZE
  WorkLen,     \* messages the HTTP server's control socket holds
  MaxEvents    \* bound: reports, notices, restarts, failures, presses of the button

ASSUME Sizes ==
  /\ {AttrLen, SysLen, WorkLen} \subseteq Nat \ {0}
  /\ MaxEvents \in Nat

Notice == 0  \* a frame that is no update: "device_updated"
Blank  == 0  \* the page has no value: the device is not among its devices
Cut    == 1  \* what is left of a value that has been cut

VARIABLES
  stored,   \* number of the value in the device base
  post,     \* the value esp_zb_task has stored and not yet queued: <<>> or one
  server,   \* start_webserver: "none", "made" (queues and task), "up", "failed"
  attrQ,    \* ws_update_queue
  sysQ,     \* messages in ws_sys_notify_queue
  turn,     \* the queue ws_update_task looks at
  held,     \* the message it has taken, not yet given to the server
  work,     \* frames queued by httpd_queue_work
  httpd,    \* the server's task: "idle", "cmd" (asks the NCP), "sending" (under json_buffer_mutex)
  clients,  \* pages the server has a WebSocket of
  wifi,     \* "joining", "joined", "lost", or "ap": the host makes a network of its own
  token,    \* g_session_token: number of the address it was made for; 0: empty
  tokens,   \* tokens made so far
  starts,   \* starts of the host so far
  events,   \* what has happened so far, see Happens
  saved,    \* localStorage server_session_token; 0: none or empty
  page      \* the pages, see Fresh

feedVars == <<post, attrQ, sysQ, turn, held>>
wifiVars == <<wifi, token, tokens>>
bootVars == <<server, wifiVars, starts>>
vars == <<stored, feedVars, work, httpd, clients, bootVars, events, saved, page>>

(* A page that has just been loaded.  sock: the WebSocket's state; retry:  *)
(* isReconnecting; load: progress of loadDevices; copy: what it has        *)
(* fetched and not shown yet; shown: the value on the page;                *)
(* asked, answers: refreshes asked for and answered; down: frames on their *)
(* way; seen: the start the host was in at the first check (0: none yet);  *)
(* lost: ghost, the last value that was lost to the page.                  *)
Fresh ==
  [sock |-> "connecting", retry |-> FALSE, load |-> "none",
   copy |-> Blank, shown |-> Blank, asked |-> 0, answers |-> <<>>, down |-> <<>>,
   seen |-> 0, lost |-> 0]

Reloaded(r) == [Fresh EXCEPT !.lost = r.lost]

Losing(r, v) == IF v > r.lost THEN [r EXCEPT !.lost = v] ELSE r
LostToAll(v) == page' = [p \in Page |-> Losing(page[p], v)]

(* The frames on their way to the pages, and to page p, oldest first.      *)
OnTheWay  == work \o held \o attrQ \o post
Coming(p) == page[p].down \o OnTheWay

NoUpdate(s) == \A n \in DOMAIN s : s[n] = Notice
(* The last update in s, if there is one, is of value v.                   *)
EndsIn(s, v) ==
  \A n \in DOMAIN s : s[n] # Notice /\ (\A k \in n + 1 .. Len(s) : s[k] = Notice) => s[n] = v

(* What nothing here decides.                                              *)
Happens == events < MaxEvents /\ events' = events + 1

Serving   == server \in {"made", "up"}
Reachable == server = "up" /\ httpd = "idle" /\ wifi = "joined" /\ token # 0
-----------------------------------------------------------------------------
(* esp_zb_task.  Before the queues exist, and after they have been deleted, *)
(* a send fails its configASSERT and the host restarts (Restart).          *)

(* A report is stored, then the rules run, then it is queued; a queue that *)
(* stays full for 10 ms drops it, and a value of no bytes, or of more than *)
(* 256, is refused.                                                        *)
Report ==
  /\ Happens /\ Serving /\ post = <<>>
  /\ stored' = stored + 1 /\ post' = <<stored'>>
  /\ UNCHANGED <<attrQ, sysQ, turn, held, work, httpd, clients, bootVars, saved, page>>

FullTooLate == Len(attrQ) > AttrLen    \* mutant of Full: off by one
Full        == Len(attrQ) >= AttrLen

Queues ==
  /\ Serving /\ post # <<>>
  /\ post' = <<>>
  /\ \/ ~Full /\ attrQ' = attrQ \o post /\ UNCHANGED page
     \/ LostToAll(Head(post)) /\ UNCHANGED attrQ       \* full or refused
  /\ UNCHANGED <<stored, sysQ, turn, held, work, httpd, clients, bootVars, events, saved>>

Notify ==
  /\ Happens /\ Serving
  /\ sysQ' = IF sysQ < SysLen THEN sysQ + 1 ELSE sysQ
  /\ UNCHANGED <<stored, post, attrQ, turn, held, work, httpd, clients, bootVars, saved, page>>
-----------------------------------------------------------------------------
(* ws_update_task.                                                         *)

StaysWithSys(t) == "sys"    \* mutant of Other: waits for the second queue for ever
Other(t) == IF t = "attr" THEN "sys" ELSE "attr"

(* An update of at most 8 bytes is sent whole.                             *)
PumpTakes ==
  /\ Serving /\ held = <<>>
  /\ \/ /\ turn = "attr" /\ attrQ # <<>>
        /\ \/ held' = <<Head(attrQ)>> /\ UNCHANGED page
           \/ held' = <<Cut>> /\ LostToAll(Head(attrQ))
        /\ attrQ' = Tail(attrQ) /\ UNCHANGED sysQ
     \/ /\ turn = "sys" /\ sysQ > 0
        /\ held' = <<Notice>> /\ sysQ' = sysQ - 1 /\ UNCHANGED <<attrQ, page>>
  /\ UNCHANGED <<stored, post, turn, work, httpd, clients, bootVars, events, saved>>

(* xQueueReceive of an empty queue gives up after 10 ms.                   *)
PumpWaits ==
  /\ Serving /\ held = <<>>
  /\ IF turn = "attr" THEN attrQ = <<>> ELSE sysQ = 0
  /\ turn' = Other(turn)
  /\ UNCHANGED <<stored, post, attrQ, sysQ, held, work, httpd, clients, bootVars, events, saved, page>>

(* send_json_event_to_ws_safe.  The frame is given up when the buffer is   *)
(* not free within 100 ms, or the server does not take it.                 *)
PumpSends ==
  /\ Serving /\ held # <<>>
  /\ \/ /\ httpd # "sending" /\ server = "up" /\ Len(work) < WorkLen
        /\ work' = work \o held /\ UNCHANGED page
     \/ /\ httpd = "sending" \/ server = "made" \/ Len(work) = WorkLen
        /\ LostToAll(Head(held)) /\ UNCHANGED work
  /\ held' = <<>> /\ turn' = Other(turn)
  /\ UNCHANGED <<stored, post, attrQ, sysQ, httpd, clients, bootVars, events, saved>>
-----------------------------------------------------------------------------
(* The task of the HTTP server.                                            *)

(* ws_send_async_task: to every page with a WebSocket.  Without the list   *)
(* of them it is sent to none, and a send that fails is not noticed: the   *)
(* page stays connected and has missed the frame.                          *)
HttpdWorks ==
  /\ server = "up" /\ httpd = "idle" /\ work # <<>>
  /\ work' = Tail(work)
  /\ \E missed \in SUBSET clients :
       page' = [p \in Page |->
                  IF p \in missed THEN Losing(page[p], Head(work))
                  ELSE IF p \in clients THEN [page[p] EXCEPT !.down = Append(@, Head(work))]
                  ELSE page[p]]
  /\ UNCHANGED <<stored, feedVars, httpd, clients, bootVars, events, saved>>

(* get_from_ws_handler: a command asks the NCP, then its answer is printed *)
(* and sent under the mutex of the buffer.                                 *)
CmdBegins ==
  /\ server = "up" /\ httpd = "idle" /\ clients # {}
  /\ httpd' = "cmd"
  /\ UNCHANGED <<stored, feedVars, work, clients, bootVars, events, saved, page>>

CmdGoesOn ==
  /\ httpd # "idle"
  /\ httpd' = IF httpd = "cmd" THEN "sending" ELSE "idle"
  /\ UNCHANGED <<stored, feedVars, work, clients, bootVars, events, saved, page>>
-----------------------------------------------------------------------------
(* Start of the host: app_main, start_webserver and the Wi-Fi manager.     *)

MakeFeed ==
  /\ server = "none" /\ server' = "made"
  /\ UNCHANGED <<stored, feedVars, work, httpd, clients, wifiVars, starts, events, saved, page>>

StartHttpd ==
  /\ server = "made" /\ server' = "up"
  /\ UNCHANGED <<stored, feedVars, work, httpd, clients, wifiVars, starts, events, saved, page>>

(* httpd_start fails: queues and mutex are deleted, ws_update_task runs on. *)
HttpdFails ==
  /\ server = "made" /\ Happens
  /\ server' = "failed"
  /\ attrQ' = <<>> /\ sysQ' = 0 /\ held' = <<>>
  /\ UNCHANGED <<stored, post, turn, work, httpd, clients, wifiVars, starts, saved, page>>

(* The value read back from flash may be another than the one a page shows: *)
(* it counts as new.                                                       *)
Restart ==
  /\ Happens
  /\ starts' = starts + 1 /\ stored' = stored + 1
  /\ wifi' = "joining" /\ token' = 0
  /\ server' = "none" /\ post' = <<>>
  /\ attrQ' = <<>> /\ sysQ' = 0 /\ turn' = "attr" /\ held' = <<>>
  /\ work' = <<>> /\ httpd' = "idle" /\ clients' = {}
  /\ UNCHANGED <<tokens, saved, page>>
-----------------------------------------------------------------------------
(* The Wi-Fi manager of a host that knows a network, which is the one the  *)
(* pages are in.                                                           *)

Rest    == <<stored, feedVars, work, httpd, clients, server, starts, saved, page>>
NotWifi == <<events, Rest>>

SameToken == 1             \* mutant of NewToken: not new at every start
NewToken  == tokens + 1

GotIp ==
  /\ wifi = "joining" /\ wifi' = "joined"
  /\ token' = NewToken /\ tokens' = NewToken
  /\ UNCHANGED NotWifi

(* After 15 s the host makes a network of its own.  An address that comes  *)
(* when the timer is over still makes a token, but is given up.            *)
GivesUp ==
  /\ wifi = "joining" /\ wifi' = "ap"
  /\ \/ UNCHANGED <<token, tokens>>
     \/ token' = NewToken /\ tokens' = NewToken
  /\ UNCHANGED NotWifi

(* Nothing joins again a network that has gone.                            *)
Drops ==
  /\ Happens
  /\ wifi = "joined" /\ wifi' = "lost"
  /\ UNCHANGED <<token, tokens, Rest>>

Button ==
  /\ Happens
  /\ wifi' = IF wifi = "ap" THEN "joining" ELSE "ap"
  /\ UNCHANGED <<token, tokens, Rest>>
-----------------------------------------------------------------------------
(* The page: WebSocket (api/websocket.js).                                 *)

(* A page loads its devices only once its WebSocket is open.               *)
Opens(p) ==
  /\ page[p].sock = "connecting" /\ Reachable
  /\ clients' = clients \cup {p}
  /\ page' = [page EXCEPT ![p].sock = "open", ![p].retry = FALSE,
                          ![p].load = IF @ = "none" THEN "list" ELSE @]
  /\ UNCHANGED <<stored, feedVars, work, httpd, bootVars, events, saved>>

(* onclose.  In the mutant the page connects again, as its messages say;   *)
(* but it loads its devices once, and what it missed stays missing.        *)
ClosedForAWhile(r) == [r EXCEPT !.sock = "closed", !.retry = FALSE, !.down = <<>>]
Closed(r) == [r EXCEPT !.sock = "closed", !.retry = TRUE, !.down = <<>>]

(* The connection is refused, or found broken.                             *)
Closes(p) ==
  /\ page[p].sock = "connecting" \/ (page[p].sock = "open" /\ p \notin clients)
  /\ page' = [page EXCEPT ![p] = Closed(@)]
  /\ UNCHANGED <<stored, feedVars, work, httpd, clients, bootVars, events, saved>>

(* The timer onclose sets: initWebSocket does nothing while isReconnecting, *)
(* which onclose has set too.                                              *)
TimerFires(p) ==
  /\ page[p].sock = "closed"
  /\ page' = [page EXCEPT ![p].sock = IF page[p].retry THEN @ ELSE "connecting"]
  /\ UNCHANGED <<stored, feedVars, work, httpd, clients, bootVars, events, saved>>

(* The network breaks the connection, or the server closes the least used  *)
(* of its eight sockets for a new one (lru_purge_enable).                  *)
Detach(p) ==
  /\ p \in clients
  /\ clients' = clients \ {p}
  /\ UNCHANGED <<stored, feedVars, work, httpd, bootVars, events, saved, page>>
-----------------------------------------------------------------------------
(* The page: devices (hooks/useDevices.js).                                *)

Has(r) == r.load = "ready" /\ r.shown # Blank

(* updateDeviceAttribute: an attribute the page does not have is ignored.  *)
(* It is lost if what is being loaded is older.                            *)
Updated(r, v) ==
  IF Has(r) THEN [r EXCEPT !.shown = v]
  ELSE IF r.load = "hold" /\ v > r.copy THEN Losing(r, v)
  ELSE r

Delivers(p) ==
  /\ page[p].sock = "open" /\ page[p].down # <<>>
  /\ LET r == [page[p] EXCEPT !.down = Tail(@)]
         f == Head(page[p].down)
     IN  page' = [page EXCEPT ![p] = IF f = Notice THEN [r EXCEPT !.asked = @ + 1]
                                                   ELSE Updated(r, f)]
  /\ UNCHANGED <<stored, feedVars, work, httpd, clients, bootVars, events, saved>>

(* loadDevices: the list, then the device, then 300 ms for every device    *)
(* before all are shown.                                                   *)
Lists(p) ==
  /\ page[p].load = "list" /\ Reachable
  /\ page' = [page EXCEPT ![p].load = "fetch"]
  /\ UNCHANGED <<stored, feedVars, work, httpd, clients, bootVars, events, saved>>

Fetches(p) ==
  /\ page[p].load = "fetch" /\ Reachable
  /\ page' = [page EXCEPT ![p].load = "hold", ![p].copy = stored,
                          ![p].lost = IF NoUpdate(Coming(p)) THEN 0 ELSE @]
  /\ UNCHANGED <<stored, feedVars, work, httpd, clients, bootVars, events, saved>>

(* Without a list nothing is loaded, now or later; a device that is not    *)
(* answered after three attempts is left out.                              *)
LoadFails(p) ==
  /\ page[p].load \in {"list", "fetch"}
  /\ page' = [page EXCEPT ![p].load = IF @ = "list" THEN "failed" ELSE "ready"]
  /\ UNCHANGED <<stored, feedVars, work, httpd, clients, bootVars, events, saved>>

Stores(p) ==
  /\ page[p].load = "hold"
  /\ page' = [page EXCEPT ![p].load = "ready", ![p].shown = page[p].copy, ![p].copy = Blank]
  /\ UNCHANGED <<stored, feedVars, work, httpd, clients, bootVars, events, saved>>

(* refreshDeviceByShort: requests use connections of their own, so answers *)
(* come in any order among themselves and with the frames.                 *)
Refreshes(p) ==
  /\ page[p].asked > 0 /\ Reachable
  /\ page' = [page EXCEPT ![p].asked = @ - 1, ![p].answers = Append(@, stored)]
  /\ UNCHANGED <<stored, feedVars, work, httpd, clients, bootVars, events, saved>>

RefreshFails(p) ==
  /\ page[p].asked > 0
  /\ page' = [page EXCEPT ![p].asked = @ - 1]
  /\ UNCHANGED <<stored, feedVars, work, httpd, clients, bootVars, events, saved>>

(* The answer replaces the device, also when a newer update came first.    *)
Replaced(r, v) ==
  IF ~Has(r) THEN r
  ELSE IF v < r.shown THEN [Losing(r, r.shown) EXCEPT !.shown = v]
  ELSE [r EXCEPT !.shown = v]

Replaces(p) ==
  \E i \in DOMAIN page[p].answers :
    /\ page' = [page EXCEPT ![p] = Replaced([page[p] EXCEPT !.answers = RemoveAt(@, i)],
                                            page[p].answers[i])]
    /\ UNCHANGED <<stored, feedVars, work, httpd, clients, bootVars, events, saved>>
-----------------------------------------------------------------------------
(* The page: session token (App.js, hooks/useServerStatus.js).  Until the  *)
(* WebSocket has been open once the token is only saved if there is none.  *)
Seen(p) == IF page[p].seen = 0 THEN starts ELSE page[p].seen

Checks(p) ==
  /\ Reachable
  /\ IF saved # 0 /\ saved # token /\ page[p].load # "none"
       THEN /\ saved' = token
            /\ page' = [page EXCEPT ![p] = Reloaded(@)] /\ clients' = clients \ {p}
       ELSE /\ saved' = IF saved = 0 THEN token ELSE saved
            /\ page' = [page EXCEPT ![p].seen = Seen(p)] /\ UNCHANGED clients
  /\ UNCHANGED <<stored, feedVars, work, httpd, bootVars, events>>
-----------------------------------------------------------------------------
Init ==
  /\ stored = 2 /\ post = <<>> /\ server = "none"
  /\ attrQ = <<>> /\ sysQ = 0 /\ turn = "attr" /\ held = <<>>
  /\ work = <<>> /\ httpd = "idle" /\ clients = {}
  /\ wifi = "joining"
  /\ token = 0 /\ tokens = 0 /\ starts = 1 /\ events = 0 /\ saved = 0
  /\ page = [p \in Page |-> Fresh]

Feed == Report \/ Queues \/ Notify \/ PumpTakes \/ PumpWaits \/ PumpSends \/ HttpdWorks \/ CmdBegins \/ CmdGoesOn
Boot == MakeFeed \/ StartHttpd \/ HttpdFails \/ Restart
Wifi == GotIp \/ GivesUp \/ Drops \/ Button
Socket(p)  == Opens(p) \/ Closes(p) \/ TimerFires(p) \/ Detach(p)
Devices(p) ==
  \/ Delivers(p) \/ Lists(p) \/ Fetches(p) \/ LoadFails(p) \/ Stores(p)
  \/ Refreshes(p) \/ RefreshFails(p) \/ Replaces(p)

Next == Feed \/ Boot \/ Wifi \/ \E p \in Page : Socket(p) \/ Devices(p) \/ Checks(p)

Spec == Init /\ [][Next]_vars

(* The tasks run, a start goes on, the host gets its address; a page       *)
(* handles what it has received and checks the token.  The server's loop   *)
(* looks at its control socket and at every session each time round, so a  *)
(* frame or a request is served although commands keep coming: strong      *)
(* fairness.                                                               *)
Fairness ==
  /\ WF_vars(Queues) /\ WF_vars(PumpTakes) /\ WF_vars(PumpWaits) /\ WF_vars(PumpSends)
  /\ SF_vars(HttpdWorks) /\ WF_vars(CmdGoesOn)
  /\ WF_vars(MakeFeed) /\ WF_vars(StartHttpd) /\ WF_vars(GivesUp)
  /\ \A p \in Page : WF_vars(Delivers(p)) /\ SF_vars(Checks(p))

FairSpec == Spec /\ Fairness
-----------------------------------------------------------------------------
(* Properties.                                                             *)

Loading == {"none", "list", "fetch", "hold", "ready", "failed"}

TypeOK ==
  /\ stored \in Nat \ {0, 1} /\ server \in {"none", "made", "up", "failed"}
  /\ post \in Seq(Nat \ {0}) /\ Len(post) <= 1
  /\ attrQ \in Seq(Nat \ {0}) /\ Len(attrQ) <= AttrLen
  /\ sysQ \in 0 .. SysLen /\ turn \in {"attr", "sys"}
  /\ held \in Seq(Nat) /\ Len(held) <= 1
  /\ work \in Seq(Nat) /\ Len(work) <= WorkLen
  /\ httpd \in {"idle", "cmd", "sending"} /\ clients \subseteq Page
  /\ tokens \in Nat /\ token \in 0 .. tokens /\ starts \in 1 .. MaxEvents + 1 /\ events \in 0 .. MaxEvents
  /\ saved \in 0 .. tokens
  /\ wifi \in {"joining", "joined", "lost", "ap"}
  /\ page \in [Page -> [sock : {"connecting", "open", "closed"}, retry : BOOLEAN,
                        load : Loading, copy : Nat, shown : Nat,
                        asked : Nat, answers : Seq(Nat \ {0}), down : Seq(Nat),
                        seen : Nat, lost : Nat]]

Attached(p) == page[p].sock = "open" /\ p \in clients

(* Safety.  A page that has loaded and has its WebSocket shows the value   *)
(* of the device base or will after the updates on their way, unless that  *)
(* value's update was refused for its length, cut to 8 bytes, dropped by a *)
(* full queue or a timeout, missed by a failed send, or passed over by the *)
(* page itself while it was loading or refreshing.                         *)
UpToDate ==
  \A p \in Page : Attached(p) /\ Has(page[p]) =>
    \/ stored <= page[p].lost
    \/ EndsIn(Coming(p), stored) /\ (NoUpdate(Coming(p)) => page[p].shown = stored)

(* Liveness.  Such a page comes to show the value of the device base, or   *)
(* has lost it in one of these ways, although ws_update_task waits for two *)
(* queues by turns and for a buffer the HTTP server's task holds while it  *)
(* sends: no update stays on its way for ever.                             *)
CatchesUp ==
  \A p \in Page : (Attached(p) /\ Has(page[p])) ~>
    (~Attached(p) \/ page[p].shown = stored \/ stored <= page[p].lost)

(* Liveness.  A page that is alone in its browser notices that the host    *)
(* has restarted since the page was loaded, and reloads itself, unless the *)
(* host comes up without its server or gives up the network of the page.   *)
RestartNoticed ==
  \A p \in Page : Page = {p} =>
    (page[p].load # "none" /\ page[p].seen \in 1 .. starts - 1) ~>
      (page[p].seen = 0 \/ server = "failed" \/ wifi \in {"lost", "ap"})
=============================================================================
