------------------------------ MODULE MCWorker ------------------------------
(* The worker's independent parts in one run: a behaviour picks a scene    *)
(* and only that part moves, so the state space is the sum of theirs.      *)
EXTENDS LiveFeed, CaptureJobs, PushAlerts, MarketStore, WaveScan

VARIABLE scene

OneFeed == <<"nifty">>
FlatStart == <<[price |-> 10, day |-> 1, vol |-> NoVolume]>>
Own == [d1 |-> "ann", d2 |-> "ann"]
Scanned == <<"CRUDE", "INFY">>
workerVars == <<scene, feedVars, captureVars, pushVars, storeVars, scanVars, points>>

WorkerInit ==
  /\ scene \in {"feed", "capture", "push", "store", "scan", "waves"}
  /\ FeedInit /\ CaptureInit /\ PushInit /\ StoreInit /\ ScanInit
  /\ WaveInit /\ (scene # "waves" => points = FlatStart)

WorkerNext ==
  /\ UNCHANGED scene
  /\ \/ /\ scene = "feed" /\ FeedNext
        /\ UNCHANGED <<captureVars, pushVars, storeVars, scanVars, points>>
     \/ /\ scene = "capture" /\ CaptureNext
        /\ UNCHANGED <<feedVars, pushVars, storeVars, scanVars, points>>
     \/ /\ scene = "push" /\ PushNext
        /\ UNCHANGED <<feedVars, captureVars, storeVars, scanVars, points>>
     \/ /\ scene = "store" /\ StoreNext
        /\ UNCHANGED <<feedVars, captureVars, pushVars, scanVars, points>>
     \/ /\ scene = "scan" /\ ScanNext
        /\ UNCHANGED <<feedVars, captureVars, pushVars, storeVars, points>>
     \/ /\ scene = "waves" /\ WaveNext
        /\ UNCHANGED <<feedVars, captureVars, pushVars, storeVars, scanVars>>

WorkerSpec == WorkerInit /\ [][WorkerNext]_workerVars

-----------------------------------------------------------------------------
(* Each liveness property under its own module's fairness, in its scene.   *)
(* The Dhan feed comes back after any loss of its sockets' events.         *)
FeedComesBack == scene = "feed" /\ FeedFair => FeedRecovers

(* Every job that waits for the heavy-job gate runs.                       *)
GateServesAll == scene = "capture" /\ CaptureFair => EveryJobRuns

(* A standing critical alert reaches a user who has a working browser.     *)
AlertGetsThrough == scene = "push" /\ PushFair => AlertReachesUser

(* Retention catches up with every expired row, while no empty chain's is. *)
RetentionCatchesUp == scene = "store" /\ StoreFair => OldRowsGo

(* A signal that stands is alerted of again and again.                     *)
SignalsGetThrough == scene = "scan" /\ ScanFair => StandingSignalAlerts

-----------------------------------------------------------------------------
(* What several parts of the worker promise together, one property each.   *)
(* What is captured is fresh and complete, and stays so: the current       *)
(* socket carries all that was asked for, no cycle is older than its       *)
(* interval, retention is not refused by a row that still has details      *)
(* (unless by an empty chain's score), and a day inside the detail period  *)
(* keeps what was stored of it for the replay.                             *)
CaptureIsSound == SubscribedWhenOpen /\ NoStaleCycle /\ NeverRejected /\ KeptDaysReplay

(* The feed keeps its word: it comes back after any loss, and never after  *)
(* close().                                                                *)
FeedKeepsItsWord == FeedComesBack /\ StaysClosed

(* The store keeps its word: expired rows go in the end, until the row of  *)
(* an empty chain holds them up, and the day's anchor only moves to a save *)
(* that was under way when it was written.                                 *)
StoreKeepsItsWord == RetentionCatchesUp /\ AnchorHolds

(* What the wave screener says: the zigzag's pivots are the extremes they  *)
(* are said to be, signals only come of intact counts, and nothing is      *)
(* scanned while the switch is off.                                        *)
WavesAreSound == ZigZagTrue /\ SignalsAreSound /\ SwitchHolds

(* An alert, of the market or of a wave, is not repeated within its        *)
(* cooldown, whatever is retried, restarted or handed out twice.           *)
OncePerCooldownOfEach == OncePerCooldown /\ OneAlertPerCooldown

(* An alert that stands gets through in the end, of the market and of a    *)
(* wave.                                                                   *)
AlertsGetThrough == AlertGetsThrough /\ SignalsGetThrough
=============================================================================
