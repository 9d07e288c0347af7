---------------------------- MODULE CaptureJobs ----------------------------
(***************************************************************************)
(* The worker's capture pipeline: apps/worker/src/worker.ts with the two   *)
(* heavy jobs of wave-screener.ts, over the gate of heavy-job-lock.ts.  A       *)
(* dispatcher job fans out one job per underlying into a Redis queue that  *)
(* outlives the process; each BullMQ worker runs one job at a time, and    *)
(* each job of the three workers takes the process-wide gate.              *)
(***************************************************************************)
EXTENDS Naturals, Sequences, FiniteSets

CONSTANT MaxCalls   \* bound: calls followed

ASSUME CallBound == MaxCalls \in Nat

VARIABLES calls, tail, pred, phase

lockVars == <<calls, tail, pred, phase>>
Calls == 1..MaxCalls
Promises == 0..MaxCalls

(* A promise that settled, either way: .then(start, start).                *)
SettledFulfilled(n) == phase[n] = "fulfilled"
Settled(n) == phase[n] \in {"fulfilled", "rejected"}

LockInit ==
  /\ calls = 0 /\ tail = 0
  /\ pred = [n \in Calls |-> 0] /\ phase = [n \in Promises |-> IF n = 0 THEN "fulfilled" ELSE "none"]

RunExclusiveUnchained ==
  /\ calls < MaxCalls /\ calls' = calls + 1
  /\ pred' = [pred EXCEPT ![calls'] = tail] /\ UNCHANGED tail
  /\ phase' = [phase EXCEPT ![calls'] = "waiting"]
RunExclusive ==
  /\ calls < MaxCalls /\ calls' = calls + 1
  /\ pred' = [pred EXCEPT ![calls'] = tail] /\ tail' = calls'
  /\ phase' = [phase EXCEPT ![calls'] = "waiting"]

(* start(): the chained callback runs.                                     *)
Start(n) ==
  /\ phase[n] = "waiting" /\ Settled(pred[n])
  /\ phase' = [phase EXCEPT ![n] = "running"]
  /\ UNCHANGED <<calls, tail, pred>>

Settle(n, how) ==
  /\ phase[n] = "running" /\ how \in {"fulfilled", "rejected"}
  /\ phase' = [phase EXCEPT ![n] = how]
  /\ UNCHANGED <<calls, tail, pred>>

(* The worker restarts: its promises are gone, a new chain begins.         *)
ProcessEnds ==
  /\ tail' = 0
  /\ phase' = [n \in Promises |-> IF phase[n] \in {"waiting", "running"} THEN "lost" ELSE phase[n]]
  /\ UNCHANGED <<calls, pred>>

LockNext ==
  \/ RunExclusive \/ ProcessEnds
  \/ \E n \in Calls : Start(n) \/ \E how \in {"fulfilled", "rejected"} : Settle(n, how)

LockSpec == LockInit /\ [][LockNext]_lockVars

-----------------------------------------------------------------------------
LockType ==
  /\ calls \in 0..MaxCalls /\ tail \in 0..MaxCalls
  /\ pred \in [Calls -> 0..MaxCalls]
  /\ phase \in [Promises -> {"none", "waiting", "running", "fulfilled", "rejected", "lost"}]

Ended(n) == phase[n] \in {"fulfilled", "rejected", "lost"}

(* Why the chain is a queue: a call is chained on an earlier one, and every *)
(* call between the two has ended (a restart cut the chain there); so has  *)
(* every call between the tail and the newest; and a call no longer waits  *)
(* only when all before it have ended.                                     *)
ChainOrder ==
  /\ tail <= calls
  /\ phase[0] = "fulfilled"
  /\ \A n \in Calls : phase[n] = "none" <=> n > calls
  /\ \A n \in Calls : n <= calls =>
       /\ pred[n] < n
       /\ \A m \in Calls : pred[n] < m /\ m < n => Ended(m)
       /\ phase[n] \notin {"none", "waiting"} => \A m \in Calls : m < n => Ended(m)
  /\ \A m \in Calls : tail < m /\ m <= calls => Ended(m)

(* The chain of promises is a first-come first-served gate: two large      *)
(* allocations are never live at once, and a frequent job cannot starve a  *)
(* rarer one.                                                              *)
Gate == INSTANCE FifoGate WITH
  arrived <- calls,
  waiting <- {n \in Calls : phase[n] = "waiting"},
  inside <- {n \in Calls : phase[n] = "running"}
IsGate == Gate!GateSpec

-----------------------------------------------------------------------------
(* The jobs.                                                               *)
CONSTANTS
  Feed,       \* config.feedUnderlyings, a sequence
  WaveWorkers,\* the BullMQ workers of wave-screener.ts that take the gate
  Interval,   \* SNAPSHOT_INTERVAL_MS, in ticks of the clock
  MaxTime,    \* bound: the clock
  MaxRestarts \* bound: restarts of the worker

ASSUME CaptureBounds ==
  /\ Interval \in Nat /\ MaxTime \in Nat /\ MaxRestarts \in Nat
  /\ Feed \in Seq({Feed[i] : i \in DOMAIN Feed})

VARIABLES
  clock,      \* the wall clock
  session,    \* underlyings whose segment is in its storage window
  queue,      \* the market-snapshot queue in Redis
  act,        \* what each BullMQ worker is doing
  restarts

captureVars == <<calls, tail, pred, phase, clock, session, queue, act, restarts>>

Underlyings == {Feed[i] : i \in DOMAIN Feed}
Workers == {"snapshot"} \cup WaveWorkers
Job(kind, u) == [kind |-> kind, u |-> u, born |-> clock, tries |-> 0]
NoJob == [kind |-> "none", u |-> Feed[1], born |-> 0, tries |-> 0]
Idle == [job |-> NoJob, call |-> 0, pc |-> "idle", began |-> 0]
Doing(w, kind, pc) == act[w].job.kind = kind /\ act[w].pc = pc
Goto(w, pc) == act' = [act EXCEPT ![w].pc = pc]

(* A worker takes its next job and asks for the gate.                      *)
Take(w, job) ==
  /\ act[w].pc = "idle" /\ RunExclusive
  /\ act' = [act EXCEPT ![w] = [job |-> job, call |-> calls', pc |-> "waiting", began |-> 0]]
  /\ UNCHANGED <<clock, session, restarts>>

TakeSnapshot == queue # <<>> /\ Take("snapshot", Head(queue)) /\ queue' = Tail(queue)
TakeWave(w) == Take(w, Job("wave", Feed[1])) /\ UNCHANGED queue

(* The gate opens.  A capture job of a previous cycle is dropped here, the *)
(* wait for the gate included in its age.                                  *)
TooOld(job, now) == now - job.born > Interval
OpeningEager(w) ==
  IF act[w].job.kind = "capture" /\ TooOld(act[w].job, act[w].job.born) THEN "done" ELSE "run"
Opening(w) ==
  IF act[w].job.kind = "capture" /\ TooOld(act[w].job, clock) THEN "done" ELSE "run"

Begin(w) ==
  /\ act[w].pc = "waiting" /\ Start(act[w].call)
  /\ act' = [act EXCEPT ![w].pc = Opening(w), ![w].began = clock]
  /\ UNCHANGED <<clock, session, queue, restarts>>

(* captureOnce: the spot prices are fetched once, then every underlying in *)
(* session gets a job that carries its own; an enqueue may throw part way. *)
FetchSpots ==
  /\ Doing("snapshot", "dispatch", "run")
  /\ Goto("snapshot", "fanout")
  /\ UNCHANGED <<lockVars, clock, session, queue, restarts>>

InTurn ==
  LET open == {i \in DOMAIN Feed : Feed[i] \in session}
  IN {turn \in [1..Cardinality(open) -> open] : \A i, j \in DOMAIN turn : i < j => turn[i] < turn[j]}
FanOutJobs(turn) == [i \in DOMAIN turn |-> Job("capture", Feed[turn[i]])] \o <<Job("stocks", Feed[1])>>

FanOut ==
  /\ Doing("snapshot", "dispatch", "fanout")
  /\ \E turn \in InTurn : \E k \in 0..Len(FanOutJobs(turn)) :
       /\ queue' = queue \o SubSeq(FanOutJobs(turn), 1, k)
       /\ Goto("snapshot", IF k = Len(FanOutJobs(turn)) THEN "done" ELSE "failed")
  /\ UNCHANGED <<lockVars, clock, session, restarts>>

(* captureUnderlyingOnce: a pause, then the session again; an expiry list  *)
(* or a chain that cannot be fetched skips this underlying for this cycle. *)
Pace ==
  /\ Doing("snapshot", "capture", "run")
  /\ Goto("snapshot", IF act["snapshot"].job.u \in session THEN "fetch" ELSE "done")
  /\ UNCHANGED <<lockVars, clock, session, queue, restarts>>

CaptureChain ==
  /\ Doing("snapshot", "capture", "fetch")
  /\ Goto("snapshot", "done")
  /\ UNCHANGED <<lockVars, clock, session, queue, restarts>>

(* captureStockOptionChains and the two wave jobs: work that may throw.    *)
OtherWork(w) ==
  /\ act[w].pc = "run" /\ act[w].job.kind \in {"stocks", "wave"}
  /\ \E pc \in {"done", "failed"} : Goto(w, pc)
  /\ UNCHANGED <<lockVars, clock, session, queue, restarts>>

(* The job settles, and the gate with it.  BullMQ tries a failed dispatch  *)
(* again, three times in all; a failed fan-out job is not tried again.     *)
Retried(job) ==
  IF job.kind = "dispatch" /\ job.tries < 2 THEN <<[job EXCEPT !.tries = @ + 1]>> ELSE <<>>

Finish(w) ==
  /\ act[w].pc \in {"done", "failed"}
  /\ Settle(act[w].call, IF act[w].pc = "done" THEN "fulfilled" ELSE "rejected")
  /\ queue' = IF act[w].pc = "failed" THEN queue \o Retried(act[w].job) ELSE queue
  /\ act' = [act EXCEPT ![w] = Idle]
  /\ UNCHANGED <<clock, session, restarts>>

(* The scheduler adds the next cycle's dispatcher.                         *)
Schedule ==
  /\ \A i \in DOMAIN queue : queue[i].kind # "dispatch"
  /\ act["snapshot"].job.kind # "dispatch" /\ calls < MaxCalls
  /\ queue' = Append(queue, Job("dispatch", Feed[1]))
  /\ UNCHANGED <<lockVars, clock, session, act, restarts>>

(* The worker restarts: the queue and its delayed jobs stay in Redis, the  *)
(* job that was running is handed out again or given up, and the startup   *)
(* dispatcher is added.                                                    *)
WorkerRestart ==
  /\ restarts < MaxRestarts /\ restarts' = restarts + 1
  /\ ProcessEnds
  /\ \E again \in BOOLEAN :
       LET stalled == IF again /\ act["snapshot"].pc # "idle"
                      THEN <<act["snapshot"].job>> ELSE <<>>
       IN queue' = stalled \o queue \o <<Job("dispatch", Feed[1])>>
  /\ act' = [w \in Workers |-> Idle]
  /\ UNCHANGED <<clock, session>>

World ==
  /\ \/ clock < MaxTime /\ clock' = clock + 1 /\ UNCHANGED session
     \/ \E u \in Underlyings : session' = session \ {u} /\ session # session' /\ UNCHANGED clock
  /\ UNCHANGED <<lockVars, queue, act, restarts>>

CaptureInit ==
  /\ LockInit /\ clock = 0 /\ session = Underlyings
  /\ queue = <<Job("dispatch", Feed[1])>> /\ act = [w \in Workers |-> Idle]
  /\ restarts = 0

Step(w) == Begin(w) \/ OtherWork(w) \/ Finish(w)
Body == FetchSpots \/ FanOut \/ Pace \/ CaptureChain

CaptureNext ==
  \/ TakeSnapshot \/ Body \/ Schedule \/ WorkerRestart \/ World
  \/ \E w \in WaveWorkers : TakeWave(w)
  \/ \E w \in Workers : Step(w)

CaptureSpec == CaptureInit /\ [][CaptureNext]_captureVars

(* Every step of a job comes to its end: the calls it makes have timeouts. *)
CaptureFair ==
  /\ WF_captureVars(Body)
  /\ \A w \in Workers : WF_captureVars(Step(w))

-----------------------------------------------------------------------------
(* The job body keeps the gate: composed with the workers, their restarts  *)
(* and their failures, it is still the first-come first-served gate.       *)
OneHeavyJob == IsGate

(* "A capture more than one interval old is worthless": however long the   *)
(* gate or a restart held its job, a chain is fetched with a spot price    *)
(* that was at most an interval old when the work on it began; the backlog *)
(* of an earlier cycle is not replayed.                                    *)
NoStaleCycle ==
  Doing("snapshot", "capture", "fetch") =>
    act["snapshot"].began - act["snapshot"].job.born <= Interval

(* Every heavy job that asked for the gate comes to run, or its process    *)
(* ends: neither a job that throws nor a frequent one blocks the others.   *)
EveryJobRuns == \A n \in Calls : phase[n] = "waiting" ~> phase[n] # "waiting"
=============================================================================
