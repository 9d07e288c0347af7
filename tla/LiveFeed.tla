------------------------------ MODULE LiveFeed ------------------------------
(***************************************************************************)
(* The client of Dhan's live market feed: packages/dhan/src/live-feed.ts   *)
(* and the worker's periodic resync of it.  One client object holds at     *)
(* most one current socket, feedWs, but every socket it ever opened keeps  *)
(* its handlers, and a handler of an old socket acts on the client as      *)
(* readily as one of the current socket.  Whether a close event follows an *)
(* error, whether a socket falls silent without any event, and when a late *)
(* close arrives are the environment's choices.                            *)
(***************************************************************************)
EXTENDS Naturals, FiniteSets

CONSTANTS
  Instruments,   \* what the worker may want to follow
  MaxSockets,    \* bound: sockets with something left to happen
  MaxFaults      \* bound: faults of the network

ASSUME FeedBounds == MaxSockets \in Nat /\ MaxFaults \in Nat

VARIABLES
  feedWs,     \* this.ws: the current socket, 0 when undefined
  sockets,    \* every socket: readyState, silent, events to come, subscriptions
  desired,    \* this.desired
  timer,      \* this.pendingReconnect is set
  watchdog,   \* the watchdog interval runs
  heard,      \* lastMessageAt is recent
  stopped,    \* this.closedByCaller
  connected,  \* connect() was called
  faults      \* faults so far

feedVars == <<feedWs, sockets, desired, timer, watchdog, heard, stopped, connected, faults>>
Sockets == 1..MaxSockets

Gone == [ready |-> "closed", silent |-> FALSE, events |-> {}, subs |-> {}]
ConnectingSockets(all) == {s \in Sockets : all[s].ready = "connecting"}
IsOpen(s) == s # 0 /\ sockets[s].ready = "open"

(* The server sends what a socket subscribed to, and pings no handler.     *)
Delivers(s) == IsOpen(s) /\ ~sockets[s].silent /\ sockets[s].subs # {}
EventsDue == \E s \in Sockets : sockets[s].events # {}

(* openSocket: a new socket takes the place of whatever feedWs was.        *)
OpenSocket ==
  \E s \in Sockets :
    /\ sockets[s] = Gone /\ \A t \in Sockets : sockets[t] = Gone => s <= t
    /\ sockets' = [sockets EXCEPT ![s].ready = "connecting"]
    /\ feedWs' = s

(* scheduleReconnect: not after close(), and not while one is pending.     *)
ScheduleReconnectAlways == timer' = TRUE
ScheduleReconnect == timer' = (timer \/ ~stopped)

(* subscribeAll and subscribe send on the current socket, if it is open.   *)
SendSubscribe(all, s) ==
  IF feedWs # 0 /\ (feedWs = s \/ IsOpen(feedWs))
  THEN [all EXCEPT ![feedWs].subs = @ \cup desired'] ELSE all

Connect ==
  /\ ~connected /\ ~stopped /\ connected' = TRUE
  /\ OpenSocket
  /\ UNCHANGED <<desired, timer, watchdog, heard, stopped, faults>>

OnOpenBare(s) ==
  /\ sockets[s].ready = "connecting"
  /\ sockets' = [sockets EXCEPT ![s].ready = "open"]
  /\ heard' = TRUE /\ watchdog' = TRUE
  /\ UNCHANGED <<feedWs, desired, timer, stopped, connected, faults>>

(* onopen: of the current socket or of one replaced meanwhile.             *)
OnOpen(s) ==
  /\ sockets[s].ready = "connecting"
  /\ desired' = desired
  /\ sockets' = SendSubscribe([sockets EXCEPT ![s].ready = "open"], s)
  /\ heard' = TRUE /\ watchdog' = TRUE
  /\ UNCHANGED <<feedWs, timer, stopped, connected, faults>>

(* A packet arrives: lastMessageAt is the client's, not the socket's.      *)
OnMessage(s) ==
  /\ Delivers(s) /\ ~heard
  /\ heard' = TRUE
  /\ UNCHANGED <<feedWs, sockets, desired, timer, watchdog, stopped, connected, faults>>

OnError(s) ==
  /\ "error" \in sockets[s].events
  /\ sockets' = [sockets EXCEPT ![s].events = @ \ {"error"}]
  /\ ScheduleReconnect
  /\ UNCHANGED <<feedWs, desired, watchdog, heard, stopped, connected, faults>>

OnClose(s) ==
  /\ "close" \in sockets[s].events /\ "error" \notin sockets[s].events
  /\ sockets' = [sockets EXCEPT ![s].events = @ \ {"close"}]
  /\ watchdog' = FALSE /\ feedWs' = 0
  /\ ScheduleReconnect
  /\ UNCHANGED <<desired, heard, stopped, connected, faults>>

(* The reconnect timer fires: two seconds or more after it was set, long   *)
(* after the events then due.                                              *)
Reconnect ==
  /\ timer /\ ~EventsDue /\ timer' = FALSE
  /\ OpenSocket
  /\ UNCHANGED <<desired, watchdog, heard, stopped, connected, faults>>

(* ws.close(), on a socket in any state: a handshake cut short errs, and   *)
(* the close event comes when the closing handshake ends, or never.        *)
Closing(s) ==
  IF sockets[s].ready \in {"connecting", "open"}
  THEN [sockets EXCEPT ![s] = [Gone EXCEPT !.ready = "closing",
          !.events = IF sockets[s].ready = "open" THEN {} ELSE {"error"}]]
  ELSE sockets

(* The watchdog closes whatever socket is current.  One left running by a  *)
(* socket that was replaced without a close event cuts the replacement's   *)
(* handshake as readily as a silent connection.                            *)
WatchdogFires ==
  /\ watchdog /\ ~heard /\ feedWs # 0
  /\ sockets' = Closing(feedWs)
  /\ UNCHANGED <<feedWs, desired, timer, watchdog, heard, stopped, connected, faults>>

(* The worker's resync: subscribe to more, then ensureConnected.  One may  *)
(* still be under way when the worker closes the client.                   *)
ReconnectIfDownNever == UNCHANGED timer
ReconnectIfDown ==
  IF timer \/ (feedWs # 0 /\ sockets[feedWs].ready \in {"connecting", "open"})
  THEN UNCHANGED timer ELSE ScheduleReconnect

Resync(more) ==
  /\ connected /\ ~EventsDue
  /\ desired' = desired \cup more
  /\ sockets' = IF more \subseteq desired THEN sockets ELSE SendSubscribe(sockets, 0)
  /\ ReconnectIfDown
  /\ UNCHANGED <<feedWs, watchdog, heard, stopped, connected, faults>>

(* close(), when the worker shuts down.                                    *)
ClientClose ==
  /\ ~stopped /\ connected
  /\ stopped' = TRUE /\ timer' = FALSE /\ watchdog' = FALSE
  /\ sockets' = IF feedWs = 0 THEN sockets ELSE Closing(feedWs)
  /\ feedWs' = 0
  /\ UNCHANGED <<desired, heard, connected, faults>>

(* The network.  A closing socket ends with or without a close event, at   *)
(* once or much later; a handshake or a connection fails with a close, with *)
(* an error that its close may be slow to follow, or with no event at all; *)
(* a connection goes silent; time passes with nothing received.  (With      *)
(* nothing subscribed the watchdog cuts a healthy connection now and then; *)
(* the worker subscribes as soon as it has connected.)                     *)
SocketEnds(s) ==
  /\ sockets[s].ready = "closing"
  /\ \E ev \in SUBSET {"close"} :
       sockets' = [sockets EXCEPT ![s] = [Gone EXCEPT !.events = ev]]
  /\ UNCHANGED <<feedWs, desired, timer, watchdog, heard, stopped, connected, faults>>

SocketFails(s) ==
  /\ faults < MaxFaults /\ sockets[s].ready \in {"connecting", "open"}
  /\ \E ev \in SUBSET {"error", "close"} : \E end \in {"closing", "closed"} :
       /\ end = "closing" => ev = {"error"}
       /\ sockets' = [sockets EXCEPT ![s] = [Gone EXCEPT !.ready = end, !.events = ev]]
  /\ faults' = faults + 1
  /\ UNCHANGED <<feedWs, desired, timer, watchdog, heard, stopped, connected>>

SocketSilent(s) ==
  /\ faults < MaxFaults /\ IsOpen(s) /\ ~sockets[s].silent
  /\ sockets' = [sockets EXCEPT ![s].silent = TRUE]
  /\ faults' = faults + 1
  /\ UNCHANGED <<feedWs, desired, timer, watchdog, heard, stopped, connected>>

TimePasses ==
  /\ heard /\ desired # {} /\ \A s \in Sockets : ~Delivers(s)
  /\ heard' = FALSE
  /\ UNCHANGED <<feedWs, sockets, desired, timer, watchdog, stopped, connected, faults>>

FeedInit ==
  /\ feedWs = 0 /\ sockets = [s \in Sockets |-> Gone] /\ desired = {}
  /\ timer = FALSE /\ watchdog = FALSE /\ heard = FALSE /\ stopped = FALSE
  /\ connected = FALSE /\ faults = 0

(* What the event loop owes: events fire, timers fire, handshakes end.     *)
FeedOwes ==
  \/ Connect \/ Reconnect \/ WatchdogFires \/ TimePasses
  \/ \E s \in Sockets : OnOpen(s) \/ OnMessage(s) \/ OnError(s) \/ OnClose(s) \/ SocketEnds(s)

FeedNext ==
  \/ FeedOwes \/ ClientClose
  \/ \E more \in SUBSET Instruments : Resync(more)
  \/ \E s \in Sockets : SocketFails(s) \/ SocketSilent(s)

FeedSpec == FeedInit /\ [][FeedNext]_feedVars

(* The event loop does what it owes, the resync interval keeps firing, and *)
(* the watchdog's tick, every WATCHDOG_INTERVAL_MS, does not fall into     *)
(* every handshake there ever is.                                          *)
FeedFair ==
  /\ WF_feedVars(FeedOwes) /\ WF_feedVars(Resync({}))
  /\ SF_feedVars(\E s \in Sockets : OnOpen(s))

-----------------------------------------------------------------------------
(* Whatever the worker asked to follow is subscribed on the current socket *)
(* while that is open: instruments asked for while it was down included.   *)
SubscribedWhenOpen == IsOpen(feedWs) => desired \subseteq sockets[feedWs].subs

(* "closedByCaller": after close() no late event of any socket and no      *)
(* timer opens another connection.                                         *)
StaysClosed ==
  [][stopped => ConnectingSockets(sockets') \subseteq ConnectingSockets(sockets)]_feedVars

(* A feed that died comes back, whichever events of its sockets were lost: *)
(* unless the worker closes it, some socket delivers again.  (It need not  *)
(* be the current one: the late close of an old socket makes the client    *)
(* forget a healthy one, which stays open beside its replacement.)         *)
FeedAlive ==
  IF desired = {} THEN IsOpen(feedWs) ELSE \E s \in Sockets : Delivers(s)
FeedRecovers == []<>(FeedAlive \/ stopped)
=============================================================================
