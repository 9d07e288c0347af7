---------------------------- MODULE PushAlerts ----------------------------
(***************************************************************************)
(* Browser pushes: sendCriticalPushAlerts of apps/worker/src/worker.ts,    *)
(* called after every stored snapshot, with push-repository.ts and the     *)
(* subscription routes of server.ts.  The devices of one user share one    *)
(* cooldown key in Redis; one alert is followed.                           *)
(***************************************************************************)
EXTENDS Naturals

CONSTANTS
  Devices,    \* push endpoints
  Owner,      \* the user of each device
  Cooldown,   \* PUSH_ALERT_COOLDOWN_MS, in ticks
  SendTime,   \* the longest a send takes, in ticks
  MaxMishaps  \* bound: failed sends, lost devices and restarts

ASSUME PushBounds == Cooldown \in Nat \ {0} /\ SendTime \in Nat /\ SendTime < Cooldown

VARIABLES
  enabled,    \* devices whose row is not disabled
  gone,       \* devices the push service answers 404 or 410 for
  critical,   \* users whose thresholds make the alert critical now
  key,        \* ticks left on each user's cooldown key, 0 when it is free
  listed,     \* the rows this pass read
  sending,    \* the age of each send under way, or Unsent
  since,      \* ticks since the user last got the alert, Cooldown and more alike
  mishaps

pushVars == <<enabled, gone, critical, key, listed, sending, since, mishaps>>

Users == {Owner[d] : d \in Devices}
Unsent == SendTime + 1
Quiet == [d \in Devices |-> Unsent]
Listing == listed # {}
Reachable(u) == \E d \in enabled \ gone : Owner[d] = u

PushInit ==
  /\ enabled = Devices /\ gone = {} /\ critical = {} /\ listed = {}
  /\ key = [u \in Users |-> 0] /\ since = [u \in Users |-> Cooldown]
  /\ sending = Quiet /\ mishaps = 0

(* A pass begins when the one before it has settled: its capture awaits it. *)
ListSubscriptions ==
  /\ ~Listing /\ sending = Quiet /\ enabled # {}
  /\ listed' = enabled
  /\ UNCHANGED <<enabled, gone, critical, key, sending, since, mishaps>>

(* Every listed device of an alerted user asks for the user's key at once, *)
(* and the first to be served sends; the others return without a word.     *)
WinnersKeyless(u) == {IF u \in critical THEN {d \in listed : Owner[d] = u} ELSE {}}
Winners(u) ==
  LET mine == {d \in listed : Owner[d] = u}
  IN IF mine = {} \/ u \notin critical \/ key[u] > 0 THEN {{}} ELSE {{d} : d \in mine}

Burst ==
  /\ Listing /\ listed' = {}
  /\ \E w \in [Users -> SUBSET listed] :
       /\ \A u \in Users : w[u] \in Winners(u)
       /\ sending' = [d \in Devices |-> IF d \in w[Owner[d]] THEN 0 ELSE Unsent]
       /\ key' = [u \in Users |-> IF w[u] = {} THEN key[u] ELSE Cooldown]
  /\ UNCHANGED <<enabled, gone, critical, since, mishaps>>

Delivered(d) ==
  /\ sending[d] # Unsent /\ d \notin gone
  /\ sending' = [sending EXCEPT ![d] = Unsent]
  /\ since' = [since EXCEPT ![Owner[d]] = 0]
  /\ UNCHANGED <<enabled, gone, critical, key, listed, mishaps>>

(* A send that fails frees the key; an endpoint the service no longer      *)
(* knows is disabled, whoever's row it is.                                 *)
AfterFailureKept(d) == enabled
AfterFailure(d) == IF d \in gone THEN enabled \ {d} ELSE enabled

SendFails(d) ==
  /\ sending[d] # Unsent
  /\ d \in gone \/ mishaps < MaxMishaps
  /\ mishaps' = IF d \in gone THEN mishaps ELSE mishaps + 1
  /\ sending' = [sending EXCEPT ![d] = Unsent]
  /\ key' = [key EXCEPT ![Owner[d]] = 0]
  /\ enabled' = AfterFailure(d)
  /\ UNCHANGED <<gone, critical, listed, since>>

(* The routes: a browser subscribes again; one turns its pushes off, and   *)
(* all of its user's when it no longer knows its own endpoint.             *)
Subscribe(d) ==
  /\ d \notin enabled \cup gone /\ enabled' = enabled \cup {d}
  /\ UNCHANGED <<gone, critical, key, listed, sending, since, mishaps>>

Unsubscribe(d) ==
  /\ d \in enabled
  /\ \E off \in {{d}, {e \in Devices : Owner[e] = Owner[d]}} : enabled' = enabled \ off
  /\ UNCHANGED <<gone, critical, key, listed, sending, since, mishaps>>

(* The market, the thresholds, the browsers, the clock and the process.    *)
AlertChanges ==
  /\ \E u \in Users : critical' = IF u \in critical THEN critical \ {u} ELSE critical \cup {u}
  /\ UNCHANGED <<enabled, gone, key, listed, sending, since, mishaps>>

DeviceGone(d) ==
  /\ d \notin gone /\ mishaps < MaxMishaps /\ mishaps' = mishaps + 1
  /\ gone' = gone \cup {d}
  /\ UNCHANGED <<enabled, critical, key, listed, sending, since>>

PushRestart ==
  /\ mishaps < MaxMishaps /\ mishaps' = mishaps + 1
  /\ sending' = Quiet /\ listed' = {}
  /\ UNCHANGED <<enabled, gone, critical, key, since>>

PushTick ==
  /\ SendTime \notin {sending[d] : d \in Devices}
  /\ key' = [u \in Users |-> IF key[u] = 0 THEN 0 ELSE key[u] - 1]
  /\ since' = [u \in Users |-> IF since[u] = Cooldown THEN Cooldown ELSE since[u] + 1]
  /\ sending' = [d \in Devices |-> IF sending[d] = Unsent THEN Unsent ELSE sending[d] + 1]
  /\ UNCHANGED <<enabled, gone, critical, listed, mishaps>>

Settles(d) == Delivered(d) \/ SendFails(d)

PushNext ==
  \/ ListSubscriptions \/ Burst \/ AlertChanges \/ PushRestart \/ PushTick
  \/ \E d \in Devices : Settles(d) \/ Subscribe(d) \/ Unsubscribe(d) \/ DeviceGone(d)

PushSpec == PushInit /\ [][PushNext]_pushVars

(* A snapshot is stored every interval and every send settles.             *)
PushFair ==
  /\ WF_pushVars(ListSubscriptions) /\ WF_pushVars(Burst) /\ WF_pushVars(PushTick)
  /\ \A d \in Devices : WF_pushVars(Settles(d))

-----------------------------------------------------------------------------
(* A user with several browsers gets an alert once per cooldown, less the  *)
(* time a send may take, whatever restarts, failures and re-subscriptions  *)
(* happen in between.                                                      *)
OncePerCooldown ==
  [][\A d \in Devices : Delivered(d) => since[Owner[d]] >= Cooldown - SendTime]_pushVars

(* An alert that stays critical reaches a user who has a working browser,  *)
(* though other browsers of theirs are gone and the worker restarts while  *)
(* it holds the key: releasing it, or letting it expire, brings a retry.   *)
AlertReachesUser ==
  \A u \in Users : u \in critical /\ Reachable(u)
    ~> since[u] < Cooldown \/ u \notin critical \/ ~Reachable(u)
=============================================================================
