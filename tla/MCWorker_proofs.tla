-------------------------- MODULE MCWorker_proofs --------------------------
(***************************************************************************)
(* The worker, for any number of heavy calls, sockets, underlyings, users, *)
(* browsers, rows, symbols and price series: the gate of heavy-job-lock.ts *)
(* and the capture jobs that take it, the market feed, pushes, the store   *)
(* with its retention, the wave scan and the wave count it reads.  Each    *)
(* part has an inductive invariant of its own; every step of MCWorker is a *)
(* step of one of them.                                                    *)
(***************************************************************************)
EXTENDS MCWorker, Sums

-----------------------------------------------------------------------------
(* The gate of heavy-job-lock.ts: the chain order is inductive, and with it*)
(* the chain of promises implements FifoGate.                              *)
LockInv == LockType /\ ChainOrder

LEMMA LockInitInv == LockInit => LockInv
<1> SUFFICES ASSUME LockInit PROVE LockInv
  OBVIOUS
<1> USE CallBound DEF Calls, Promises
<1>1. LockType
  BY DEF LockInit, LockType
<1>2. \A n \in Promises : phase[n] = IF n = 0 THEN "fulfilled" ELSE "none"
  BY DEF LockInit
<1>3. phase[0] = "fulfilled" /\ \A n \in Calls : phase[n] = "none" /\ n > calls
  <2>1. 0 \in Promises
    OBVIOUS
  <2>2. phase[0] = "fulfilled"
    BY <1>2, <2>1, Zenon
  <2>3. \A n \in Calls : phase[n] = "none"
    BY <1>2
  <2>4. \A n \in Calls : n > calls
    BY DEF LockInit
  <2> QED BY <2>2, <2>3, <2>4
<1>4. tail <= calls /\ calls = 0
  BY DEF LockInit
<1>5. ChainOrder
  BY <1>3, <1>4 DEF ChainOrder
<1> QED BY <1>1, <1>5 DEF LockInv

(* When a call may start, every call before it has ended and no other runs. *)
LEMMA StartAlone ==
  ASSUME LockInv, NEW n \in Calls, phase[n] = "waiting", Settled(pred[n])
  PROVE  /\ \A m \in Calls : m < n => Ended(m)
         /\ \A m \in Calls : phase[m] # "running"
<1>1. n <= calls /\ pred[n] \in 0..MaxCalls /\ pred[n] < n
  BY DEF LockInv, LockType, ChainOrder, Calls
<1>2. \A m \in Calls : m < n => Ended(m)
  <2> TAKE m \in Calls
  <2> HAVE m < n
  <2>1. CASE pred[n] < m
    BY <1>1, <2>1 DEF LockInv, ChainOrder
  <2>2. CASE m = pred[n]
    BY <2>2 DEF Settled, Ended
  <2>3. CASE m < pred[n]
    <3>1. pred[n] \in Calls
      BY <1>1, <2>3 DEF Calls
    <3>2. pred[n] <= calls
      BY <1>1, <3>1 DEF LockInv, LockType, Calls
    <3>3. phase[pred[n]] \notin {"none", "waiting"}
      BY DEF Settled
    <3> QED BY <2>3, <3>1, <3>2, <3>3 DEF LockInv, ChainOrder
  <2> QED BY <1>1, <2>1, <2>2, <2>3 DEF Calls
<1>3. \A m \in Calls : phase[m] # "running"
  <2> SUFFICES ASSUME NEW m \in Calls, phase[m] = "running" PROVE FALSE
    OBVIOUS
  <2>1. m <= calls
    BY DEF LockInv, ChainOrder, LockType, Calls
  <2>2. CASE n < m
    BY <2>1, <2>2 DEF LockInv, ChainOrder, Ended
  <2>3. CASE m < n
    BY <1>2, <2>3 DEF Ended
  <2> QED BY <2>2, <2>3 DEF Calls
<1> QED BY <1>2, <1>3

LEMMA LockStepInv == LockInv /\ [LockNext]_lockVars => LockInv'
<1> SUFFICES ASSUME LockInv, [LockNext]_lockVars PROVE LockInv'
  OBVIOUS
<1> USE CallBound DEF Calls, Promises
<1>1. CASE RunExclusive
  <2>1. LockType'
    BY <1>1 DEF RunExclusive, LockInv, LockType
  <2>2. ChainOrder'
    BY <1>1 DEF RunExclusive, LockInv, LockType, ChainOrder, Ended
  <2> QED BY <2>1, <2>2 DEF LockInv
<1>2. CASE ProcessEnds
  <2>1. LockType'
    BY <1>2 DEF ProcessEnds, LockInv, LockType
  <2>2. \A m \in Calls : m <= calls => Ended(m)'
    BY <1>2 DEF ProcessEnds, LockInv, LockType, ChainOrder, Ended
  <2>3. \A m \in Calls : (phase[m] = "none") <=> (phase'[m] = "none")
    BY <1>2 DEF ProcessEnds, LockInv, LockType
  <2>4. phase'[0] = "fulfilled" /\ tail' <= calls' /\ calls' = calls /\ pred' = pred
    BY <1>2 DEF ProcessEnds, LockInv, LockType, ChainOrder
  <2>5. ChainOrder'
    BY <2>1, <2>2, <2>3, <2>4 DEF LockInv, LockType, ChainOrder
  <2> QED BY <2>1, <2>5 DEF LockInv
<1>3. ASSUME NEW n \in Calls, Start(n) PROVE LockInv'
  <2>1. LockType'
    BY <1>3 DEF Start, LockInv, LockType
  <2>2. \A m \in Calls : m < n => Ended(m)
    BY <1>3, StartAlone DEF Start
  <2>3. ChainOrder'
    BY <1>3, <2>2 DEF Start, LockInv, LockType, ChainOrder, Ended
  <2> QED BY <2>1, <2>3 DEF LockInv
<1>4. ASSUME NEW n \in Calls, NEW how \in {"fulfilled", "rejected"}, Settle(n, how)
      PROVE LockInv'
  <2>1. LockType'
    BY <1>4 DEF Settle, LockInv, LockType
  <2>2. ChainOrder'
    BY <1>4 DEF Settle, LockInv, LockType, ChainOrder, Ended
  <2> QED BY <2>1, <2>2 DEF LockInv
<1>5. CASE UNCHANGED lockVars
  BY <1>5 DEF lockVars, LockInv, LockType, ChainOrder, Ended
<1> QED BY <1>1, <1>2, <1>3, <1>4, <1>5 DEF LockNext

(* For any number of calls the calls form a queue in the order they were   *)
(* made, restarts included.                                                *)
THEOREM LockIsOrdered == LockSpec => []ChainOrder
<1>1. LockInv => ChainOrder
  BY DEF LockInv
<1> QED BY <1>1, LockInitInv, LockStepInv, PTL DEF LockSpec

LEMMA LockStepGate ==
  LockInv /\ [LockNext]_lockVars => [Gate!GateNext]_(Gate!gateVars)
<1> SUFFICES ASSUME LockInv, [LockNext]_lockVars
             PROVE [Gate!GateNext]_(Gate!gateVars)
  OBVIOUS
<1> USE DEF Calls, Promises
<1>1. CASE RunExclusive
  <2>1. calls' = calls + 1 /\ calls' \in Calls /\ phase[calls'] = "none"
    BY <1>1, CallBound DEF RunExclusive, LockInv, LockType, ChainOrder
  <2>2. \A n \in Calls : phase'[n] = IF n = calls' THEN "waiting" ELSE phase[n]
    BY <1>1, <2>1 DEF RunExclusive, LockInv, LockType
  <2>3. {n \in Calls : phase'[n] = "waiting"} = {n \in Calls : phase[n] = "waiting"} \cup {calls'}
    BY <2>1, <2>2
  <2>4. {n \in Calls : phase'[n] = "running"} = {n \in Calls : phase[n] = "running"}
    BY <2>1, <2>2
  <2>5. Gate!Arrive
    BY <2>1, <2>3, <2>4 DEF Gate!Arrive
  <2> QED BY <2>5 DEF Gate!GateNext
<1>2. CASE ProcessEnds
  <2>1. Gate!Vanish
    BY <1>2 DEF ProcessEnds, Gate!Vanish, LockInv, LockType
  <2> QED BY <2>1 DEF Gate!GateNext
<1>3. ASSUME NEW n \in Calls, Start(n) PROVE Gate!GateNext
  <2>1. /\ \A m \in Calls : m < n => Ended(m)
        /\ \A m \in Calls : phase[m] # "running"
    BY <1>3, StartAlone DEF Start
  <2>2. Gate!Enter(n)
    BY <1>3, <2>1 DEF Start, Gate!Enter, LockInv, LockType, Ended
  <2> QED BY <1>3, <2>2 DEF Gate!GateNext, Start
<1>4. ASSUME NEW n \in Calls, NEW how \in {"fulfilled", "rejected"}, Settle(n, how)
      PROVE Gate!GateNext
  <2>1. Gate!Leave(n)
    BY <1>4 DEF Settle, Gate!Leave, LockInv, LockType
  <2> QED BY <1>4, <2>1 DEF Gate!GateNext, Settle
<1>5. CASE UNCHANGED lockVars
  BY <1>5 DEF lockVars, Gate!gateVars
<1> QED BY <1>1, <1>2, <1>3, <1>4, <1>5 DEF LockNext

LEMMA LockInitGate == LockInit => Gate!GateInit
<1> SUFFICES ASSUME LockInit PROVE Gate!GateInit
  OBVIOUS
<1>1. \A n \in Calls : n \in Promises /\ n # 0
  BY CallBound DEF Calls, Promises
<1>2. \A n \in Calls : phase[n] = "none"
  BY <1>1 DEF LockInit
<1> QED
  BY <1>2 DEF LockInit, Gate!GateInit

(* The chain of promises implements the first-come first-served gate: one  *)
(* heavy job at a time, the one that has waited longest first, for any     *)
(* number of calls, jobs that throw and restarts.                          *)
THEOREM LockImplementsGate == LockSpec => IsGate
BY LockInitGate, LockInitInv, LockStepInv, LockStepGate, PTL DEF LockSpec, IsGate, Gate!GateSpec

-----------------------------------------------------------------------------
(* The capture pipeline.  Jobs carry the time they were made at; a worker  *)
(* holds a call of the gate; what is worked on was fresh when its work     *)
(* began.                                                                  *)
Kinds == {"none", "dispatch", "capture", "stocks", "wave"}
Stages == {"idle", "waiting", "run", "fanout", "fetch", "done", "failed"}
JobNames == Underlyings \cup {Feed[1]}
Jobs == [kind : Kinds, u : JobNames, born : Nat, tries : Nat]
Acts == [job : Jobs, call : Promises, pc : Stages, began : Nat]
CaptureTyped == clock \in Nat /\ queue \in Seq(Jobs) /\ act \in [Workers -> Acts]
FreshWork ==
  \A w \in Workers : act[w].pc \in {"run", "fetch"} /\ act[w].job.kind = "capture" =>
    act[w].began - act[w].job.born <= Interval
CaptureInv == LockInv /\ CaptureTyped /\ FreshWork

LEMMA CaptureWords ==
  /\ Kinds = {"none", "dispatch", "capture", "stocks", "wave"}
  /\ Stages = {"idle", "waiting", "run", "fanout", "fetch", "done", "failed"}
  /\ 0 \in Promises /\ "snapshot" \in Workers /\ WaveWorkers \subseteq Workers
  /\ Underlyings \subseteq JobNames /\ Feed[1] \in JobNames
BY CallBound DEF Kinds, Stages, Promises, Workers, JobNames

LEMMA JobTyped ==
  ASSUME clock \in Nat, NEW kind \in Kinds, NEW u \in JobNames
  PROVE  Job(kind, u) \in Jobs /\ Job(kind, u).kind = kind
BY DEF Job, Jobs

LEMMA IdleTyped == NoJob \in Jobs /\ Idle \in Acts /\ Idle.pc = "idle"
<1>1. NoJob \in Jobs
  BY CaptureWords DEF NoJob, Jobs
<1> QED
  BY <1>1, CaptureWords DEF Idle, Acts

LEMMA CaptureInitInv == CaptureInit => CaptureInv
<1> SUFFICES ASSUME CaptureInit PROVE CaptureInv
  OBVIOUS
<1>1. clock = 0 /\ act = [w \in Workers |-> Idle] /\ queue = <<Job("dispatch", Feed[1])>> /\ LockInit
  BY DEF CaptureInit
<1>2. Job("dispatch", Feed[1]) \in Jobs
  BY <1>1, JobTyped, CaptureWords
<1>3. queue \in Seq(Jobs)
  BY <1>1, <1>2
<1>4. act \in [Workers -> Acts] /\ \A w \in Workers : act[w].pc = "idle"
  BY <1>1, IdleTyped
<1> QED
  BY <1>1, <1>3, <1>4, LockInitInv DEF CaptureInv, CaptureTyped, FreshWork

(* One worker's record changes, and what it works on is fresh.             *)
LEMMA OneWorker ==
  ASSUME CaptureInv, LockInv', clock' \in Nat, queue' \in Seq(Jobs), NEW w \in Workers, NEW row \in Acts,
         act' = [act EXCEPT ![w] = row],
         row.pc \in {"run", "fetch"} /\ row.job.kind = "capture" => row.began - row.job.born <= Interval
  PROVE  CaptureInv'
<1>1. act \in [Workers -> Acts]
  BY DEF CaptureInv, CaptureTyped
<1>2. act' \in [Workers -> Acts] /\ \A v \in Workers : act'[v] = IF v = w THEN row ELSE act[v]
  BY <1>1
<1>3. FreshWork'
  BY <1>2 DEF CaptureInv, FreshWork
<1> QED
  BY <1>2, <1>3 DEF CaptureInv, CaptureTyped

(* A worker goes on to a step that is not of a capture, or to the fetch of *)
(* one that it was running.                                                *)
LEMMA GotoKeeps ==
  ASSUME CaptureInv, LockInv', clock' \in Nat, queue' \in Seq(Jobs), NEW w \in Workers, NEW pc \in Stages,
         Goto(w, pc), pc \in {"run", "fetch"} => act[w].pc \in {"run", "fetch"}
  PROVE  CaptureInv'
<1> DEFINE row == [act[w] EXCEPT !.pc = pc]
<1>1. act[w] \in Acts
  BY DEF CaptureInv, CaptureTyped
<1>2. row \in Acts /\ row.pc = pc /\ row.job = act[w].job /\ row.began = act[w].began
  BY <1>1 DEF Acts
<1>3. act' = [act EXCEPT ![w] = row]
  BY DEF Goto
<1> HIDE DEF row
<1> QED
  BY <1>2, <1>3, OneWorker DEF CaptureInv, FreshWork

(* What a job does to the gate.                                            *)
LEMMA CallOfWorker ==
  ASSUME CaptureInv, NEW w \in Workers, phase[act[w].call] \in {"waiting", "running"} PROVE act[w].call \in Calls
<1>1. act[w].call \in Promises
  BY DEF CaptureInv, CaptureTyped, Acts
<1>2. act[w].call # 0
  BY DEF CaptureInv, LockInv, ChainOrder
<1> QED
  BY <1>1, <1>2 DEF Promises, Calls

LEMMA CaptureIsLock == CaptureInv /\ [CaptureNext]_captureVars => [LockNext]_lockVars
<1> SUFFICES ASSUME CaptureInv, [CaptureNext]_captureVars PROVE [LockNext]_lockVars
  OBVIOUS
<1>1. CASE TakeSnapshot \/ \E w \in WaveWorkers : TakeWave(w)
  BY <1>1 DEF TakeSnapshot, TakeWave, Take, LockNext
<1>2. CASE Body \/ Schedule \/ World
  BY <1>2 DEF Body, FetchSpots, FanOut, Pace, CaptureChain, Schedule, World
<1>3. CASE WorkerRestart
  BY <1>3 DEF WorkerRestart, LockNext
<1>4. ASSUME NEW w \in Workers, Step(w) PROVE [LockNext]_lockVars
  <2>1. CASE Begin(w)
    <3>1. Start(act[w].call) /\ phase[act[w].call] = "waiting"
      BY <2>1 DEF Begin, Start
    <3> QED
      BY <3>1, CallOfWorker DEF LockNext
  <2>2. CASE OtherWork(w)
    BY <2>2 DEF OtherWork
  <2>3. CASE Finish(w)
    <3>1. PICK how : Settle(act[w].call, how)
      BY <2>3 DEF Finish
    <3>2. phase[act[w].call] = "running" /\ how \in {"fulfilled", "rejected"}
      BY <3>1 DEF Settle
    <3> QED
      BY <3>1, <3>2, CallOfWorker DEF LockNext
  <2> QED
    BY <1>4, <2>1, <2>2, <2>3 DEF Step
<1>5. CASE UNCHANGED captureVars
  BY <1>5 DEF captureVars, lockVars
<1> QED
  BY <1>1, <1>2, <1>3, <1>4, <1>5 DEF CaptureNext

LEMMA FanOutTyped == ASSUME clock \in Nat, NEW turn \in InTurn PROVE FanOutJobs(turn) \in Seq(Jobs)
<1> DEFINE open == {i \in DOMAIN Feed : Feed[i] \in session}
           jobs == [i \in DOMAIN turn |-> Job("capture", Feed[turn[i]])]
           n == Cardinality(open)
<1>1. turn \in [1..n -> open]
  BY DEF InTurn
<1>2. n \in Nat
  <2>1. DOMAIN Feed = 1..Len(Feed) /\ Len(Feed) \in Nat
    BY CaptureBounds
  <2>2. IsFiniteSet(DOMAIN Feed)
    BY <2>1, FS_Interval
  <2> QED
    BY <2>2, FS_Subset, FS_CardinalityType
<1>3. \A i \in DOMAIN turn : Job("capture", Feed[turn[i]]) \in Jobs
  <2> TAKE i \in DOMAIN turn
  <2>1. Feed[turn[i]] \in Underlyings
    BY <1>1 DEF Underlyings
  <2> QED
    BY <2>1, JobTyped, CaptureWords
<1> HIDE DEF n
<1>4. jobs \in Seq(Jobs)
  BY <1>1, <1>2, <1>3
<1>5. Job("stocks", Feed[1]) \in Jobs
  BY JobTyped, CaptureWords
<1>6. FanOutJobs(turn) = jobs \o <<Job("stocks", Feed[1])>>
  BY DEF FanOutJobs
<1> HIDE DEF jobs
<1> QED
  BY <1>4, <1>5, <1>6

LEMMA TakeKeeps ==
  ASSUME CaptureInv, LockInv', NEW w \in Workers, NEW job \in Jobs, Take(w, job), queue' \in Seq(Jobs)
  PROVE  CaptureInv'
<1> DEFINE row == [job |-> job, call |-> calls', pc |-> "waiting", began |-> 0]
<1>1. calls' \in Promises
  BY DEF LockInv, LockType, Promises
<1>2. row \in Acts /\ row.pc = "waiting"
  BY <1>1, CaptureWords DEF Acts
<1>3. act' = [act EXCEPT ![w] = row] /\ clock' = clock
  BY DEF Take
<1> HIDE DEF row
<1> QED
  BY <1>2, <1>3, OneWorker DEF CaptureInv, CaptureTyped

LEMMA CaptureStepInv == CaptureInv /\ [CaptureNext]_captureVars => CaptureInv'
<1> SUFFICES ASSUME CaptureInv, [CaptureNext]_captureVars PROVE CaptureInv'
  OBVIOUS
<1>0. LockInv'
  BY CaptureIsLock, LockStepInv DEF CaptureInv
<1>t. clock \in Nat /\ queue \in Seq(Jobs) /\ act \in [Workers -> Acts] /\ \A w \in Workers : act[w] \in Acts
  BY DEF CaptureInv, CaptureTyped
<1>1. CASE TakeSnapshot
  <2>1. queue # <<>> /\ Take("snapshot", Head(queue)) /\ queue' = Tail(queue)
    BY <1>1 DEF TakeSnapshot
  <2>2. Head(queue) \in Jobs /\ queue' \in Seq(Jobs)
    BY <1>t, <2>1
  <2> QED
    BY <1>0, <2>1, <2>2, TakeKeeps, CaptureWords
<1>2. ASSUME NEW w \in WaveWorkers, TakeWave(w) PROVE CaptureInv'
  BY <1>0, <1>t, <1>2, TakeKeeps, JobTyped, CaptureWords DEF TakeWave
<1>3. CASE Body
  <2>1. CASE FetchSpots
    BY <1>0, <1>t, <2>1, GotoKeeps, CaptureWords DEF FetchSpots
  <2>2. CASE FanOut
    <3>1. PICK turn \in InTurn : \E k \in 0..Len(FanOutJobs(turn)) :
            /\ queue' = queue \o SubSeq(FanOutJobs(turn), 1, k)
            /\ Goto("snapshot", IF k = Len(FanOutJobs(turn)) THEN "done" ELSE "failed")
      BY <2>2 DEF FanOut
    <3>k. PICK k \in 0..Len(FanOutJobs(turn)) :
            /\ queue' = queue \o SubSeq(FanOutJobs(turn), 1, k)
            /\ Goto("snapshot", IF k = Len(FanOutJobs(turn)) THEN "done" ELSE "failed")
      BY <3>1
    <3>2. queue' \in Seq(Jobs)
      <4>1. SubSeq(FanOutJobs(turn), 1, k) \in Seq(Jobs)
        BY <1>t, FanOutTyped
      <4> QED
        BY <1>t, <3>k, <4>1
    <3>3. clock' = clock
      BY <2>2 DEF FanOut
    <3> QED
      BY <1>0, <1>t, <3>k, <3>2, <3>3, GotoKeeps, CaptureWords
  <2>3. CASE Pace
    <3>1. act["snapshot"].pc = "run" /\ UNCHANGED <<clock, queue>>
      BY <2>3 DEF Pace, Doing
    <3> QED
      BY <1>0, <1>t, <2>3, <3>1, GotoKeeps, CaptureWords DEF Pace
  <2>4. CASE CaptureChain
    BY <1>0, <1>t, <2>4, GotoKeeps, CaptureWords DEF CaptureChain
  <2> QED
    BY <1>3, <2>1, <2>2, <2>3, <2>4 DEF Body
<1>4. CASE Schedule
  <2>1. Job("dispatch", Feed[1]) \in Jobs
    BY <1>t, JobTyped, CaptureWords
  <2>2. queue' \in Seq(Jobs) /\ UNCHANGED <<clock, act>>
    BY <1>4, <1>t, <2>1 DEF Schedule
  <2> QED
    BY <1>0, <2>2 DEF CaptureInv, CaptureTyped, FreshWork
<1>5. CASE WorkerRestart
  <2>1. Job("dispatch", Feed[1]) \in Jobs /\ act["snapshot"].job \in Jobs
    BY <1>t, JobTyped, CaptureWords DEF Acts
  <2>2. PICK stalled \in {<<act["snapshot"].job>>, <<>>} : queue' = stalled \o queue \o <<Job("dispatch", Feed[1])>>
    BY <1>5 DEF WorkerRestart
  <2>3. stalled \in Seq(Jobs)
    <3>1. <<act["snapshot"].job>> \in Seq(Jobs) /\ <<>> \in Seq(Jobs)
      BY <2>1
    <3> QED
      BY <2>2, <3>1
  <2>4. queue' \in Seq(Jobs)
    <3>1. stalled \o queue \in Seq(Jobs)
      BY <1>t, <2>3
    <3> QED
      BY <2>1, <2>2, <3>1
  <2>5. act' = [w \in Workers |-> Idle] /\ clock' = clock
    BY <1>5 DEF WorkerRestart
  <2>6. act' \in [Workers -> Acts] /\ \A w \in Workers : act'[w].pc = "idle"
    BY <2>5, IdleTyped
  <2> QED
    BY <1>0, <1>t, <2>4, <2>5, <2>6 DEF CaptureInv, CaptureTyped, FreshWork
<1>6. CASE World
  <2>1. clock' \in Nat /\ UNCHANGED <<queue, act>>
    BY <1>6, <1>t DEF World
  <2> QED
    BY <1>0, <2>1 DEF CaptureInv, CaptureTyped, FreshWork
<1>7. ASSUME NEW w \in Workers, Step(w) PROVE CaptureInv'
  <2>1. CASE Begin(w)
    <3> DEFINE row == [act[w] EXCEPT !.pc = Opening(w), !.began = clock]
    <3>1. act' = [act EXCEPT ![w] = row] /\ UNCHANGED <<clock, queue>>
      BY <2>1 DEF Begin
    <3>2. Opening(w) \in Stages
      BY CaptureWords DEF Opening
    <3>3. row \in Acts /\ row.pc = Opening(w) /\ row.job = act[w].job /\ row.began = clock
      BY <1>t, <3>2 DEF Acts
    <3>4. row.pc \in {"run", "fetch"} /\ row.job.kind = "capture" => row.began - row.job.born <= Interval
      <4>1. act[w].job \in Jobs /\ act[w].job.born \in Nat
        BY <1>t DEF Acts, Jobs
      <4> QED
        BY <1>t, <3>3, <4>1, CaptureBounds DEF Opening, TooOld
    <3> HIDE DEF row
    <3> QED
      BY <1>0, <1>t, <3>1, <3>3, <3>4, OneWorker
  <2>2. CASE OtherWork(w)
    BY <1>0, <1>t, <2>2, GotoKeeps, CaptureWords DEF OtherWork
  <2>3. CASE Finish(w)
    <3>1. /\ queue' = IF act[w].pc = "failed" THEN queue \o Retried(act[w].job) ELSE queue
          /\ act' = [act EXCEPT ![w] = Idle] /\ clock' = clock
      BY <2>3 DEF Finish
    <3>2. act[w].job \in Jobs
      BY <1>t DEF Acts
    <3>3. [act[w].job EXCEPT !.tries = @ + 1] \in Jobs
      BY <3>2 DEF Jobs
    <3>4. Retried(act[w].job) \in Seq(Jobs)
      BY <3>3 DEF Retried
    <3>5. queue' \in Seq(Jobs)
      BY <1>t, <3>1, <3>4
    <3> QED
      BY <1>0, <1>t, <3>1, <3>5, OneWorker, IdleTyped
  <2> QED
    BY <1>7, <2>1, <2>2, <2>3 DEF Step
<1>8. CASE UNCHANGED captureVars
  BY <1>0, <1>8 DEF captureVars, CaptureInv, CaptureTyped, FreshWork
<1> QED
  BY <1>1, <1>2, <1>3, <1>4, <1>5, <1>6, <1>7, <1>8 DEF CaptureNext

LEMMA FreshIsFresh == CaptureInv => NoStaleCycle
BY CaptureWords DEF CaptureInv, FreshWork, NoStaleCycle, Doing

-----------------------------------------------------------------------------
(* The feed: the current socket is subscribed to what is desired, and no   *)
(* timer is left once the client is closed.                                *)
Readies == {"connecting", "open", "closing", "closed"}
EventSets == SUBSET {"error", "close"}
Followed == SUBSET Instruments
SocketRows == [ready : Readies, silent : BOOLEAN, events : EventSets, subs : Followed]
FeedTyped ==
  /\ sockets \in [Sockets -> SocketRows] /\ feedWs \in Sockets \cup {0} /\ desired \in Followed

FeedInv == FeedTyped /\ SubscribedWhenOpen /\ (stopped => timer = FALSE)

LEMMA NoSocket == 0 \notin Sockets
BY FeedBounds DEF Sockets

LEMMA FeedWords ==
  /\ Readies = {"connecting", "open", "closing", "closed"}
  /\ {} \in EventSets /\ {"error"} \in EventSets /\ {} \in Followed /\ EventSets = SUBSET {"error", "close"}
  /\ \A e \in EventSets : \A x : e \ {x} \in EventSets
  /\ \A f, g \in Followed : f \cup g \in Followed
BY DEF Readies, EventSets, Followed

LEMMA GoneTyped == Gone \in SocketRows /\ Gone.ready = "closed" /\ Gone.subs = {}
BY FeedWords DEF Gone, SocketRows

LEMMA FeedInitInv == FeedInit => FeedInv
<1> SUFFICES ASSUME FeedInit PROVE FeedInv
  OBVIOUS
<1>1. FeedTyped
  BY GoneTyped, FeedWords DEF FeedInit, FeedTyped
<1> QED
  BY <1>1 DEF FeedInit, FeedInv, SubscribedWhenOpen, IsOpen

(* One socket changes, and not into an open one with less than it had.     *)
LEMMA OneSocket ==
  ASSUME FeedInv, NEW s \in Sockets, NEW row \in SocketRows, sockets' = [sockets EXCEPT ![s] = row],
         desired' = desired, feedWs' \in {0, feedWs} \/ feedWs' = s,
         row.ready = "open" => IsOpen(s) /\ row.subs = sockets[s].subs /\ feedWs' \in {0, feedWs}
  PROVE  FeedTyped' /\ SubscribedWhenOpen'
<1>1. sockets \in [Sockets -> SocketRows] /\ desired \in Followed
  BY DEF FeedInv, FeedTyped
<1>2. sockets' \in [Sockets -> SocketRows]
  BY <1>1
<1>3. FeedTyped'
  BY <1>2 DEF FeedInv, FeedTyped
<1>4. SUFFICES ASSUME IsOpen(feedWs)' PROVE desired \subseteq sockets'[feedWs'].subs
  BY <1>3 DEF SubscribedWhenOpen
<1>5. feedWs' \in Sockets /\ sockets'[feedWs'].ready = "open"
  BY <1>3, <1>4, NoSocket DEF IsOpen, FeedTyped
<1>6. feedWs' = feedWs /\ feedWs \in Sockets
  BY <1>1, <1>5, NoSocket
<1>7. CASE feedWs = s
  BY <1>1, <1>5, <1>6, <1>7 DEF FeedInv, SubscribedWhenOpen
<1>8. CASE feedWs # s
  <2>1. sockets'[feedWs] = sockets[feedWs]
    BY <1>1, <1>6, <1>8
  <2> QED
    BY <1>5, <1>6, <2>1, NoSocket DEF FeedInv, SubscribedWhenOpen, IsOpen
<1> QED
  BY <1>7, <1>8

(* What openSocket takes is a socket that is over.                         *)
LEMMA OpenKeeps ==
  ASSUME FeedInv, OpenSocket, desired' = desired PROVE FeedTyped' /\ SubscribedWhenOpen'
<1>1. PICK s \in Sockets : sockets' = [sockets EXCEPT ![s].ready = "connecting"] /\ feedWs' = s
  BY DEF OpenSocket
<1> DEFINE row == [sockets[s] EXCEPT !.ready = "connecting"]
<1>2. sockets \in [Sockets -> SocketRows] /\ sockets[s] \in SocketRows
  BY DEF FeedInv, FeedTyped
<1>3. row \in SocketRows /\ row.ready = "connecting"
  BY <1>2, FeedWords DEF SocketRows
<1>4. sockets' = [sockets EXCEPT ![s] = row]
  BY <1>1
<1> HIDE DEF row
<1> QED
  BY <1>1, <1>3, <1>4, OneSocket

(* A socket stays, or becomes one that is no longer open.                  *)
LEMMA CloseKeeps ==
  ASSUME FeedInv, NEW s \in Sockets, NEW row \in SocketRows, row.ready # "open",
         sockets' = sockets \/ sockets' = [sockets EXCEPT ![s] = row],
         desired' = desired, feedWs' \in {0, feedWs}
  PROVE  FeedTyped' /\ SubscribedWhenOpen'
<1>1. CASE sockets' = sockets
  BY <1>1, NoSocket DEF FeedInv, FeedTyped, SubscribedWhenOpen, IsOpen
<1>2. CASE sockets' = [sockets EXCEPT ![s] = row]
  BY <1>2, OneSocket
<1> QED
  BY <1>1, <1>2

LEMMA StillKeeps ==
  ASSUME FeedInv, UNCHANGED <<sockets, desired>>, feedWs' \in {0, feedWs}
  PROVE  FeedTyped' /\ SubscribedWhenOpen'
BY NoSocket DEF FeedInv, FeedTyped, SubscribedWhenOpen, IsOpen

(* A socket opens: the current one is sent all that is desired.            *)
LEMMA SendKeeps ==
  ASSUME FeedInv, NEW all \in [Sockets -> SocketRows], NEW s \in Sockets \cup {0},
         \A t \in Sockets : all[t].ready = "open" =>
           t = s \/ (sockets[t].ready = "open" /\ all[t].subs = sockets[t].subs),
         feedWs' = feedWs, desired' \in Followed, desired \subseteq desired', sockets' = SendSubscribe(all, s)
  PROVE  FeedTyped' /\ SubscribedWhenOpen'
<1>1. sockets \in [Sockets -> SocketRows] /\ desired \in Followed /\ feedWs \in Sockets \cup {0}
  BY DEF FeedInv, FeedTyped
<1>2. CASE feedWs # 0 /\ (feedWs = s \/ IsOpen(feedWs))
  <2> DEFINE row == [all[feedWs] EXCEPT !.subs = @ \cup desired']
  <2>1. feedWs \in Sockets /\ all[feedWs] \in SocketRows
    BY <1>1, <1>2
  <2>2. all[feedWs].subs \cup desired' \in Followed
    BY <2>1, FeedWords DEF SocketRows
  <2>3. row \in SocketRows /\ row.subs = all[feedWs].subs \cup desired'
    BY <2>1, <2>2 DEF SocketRows
  <2>4. sockets' = [all EXCEPT ![feedWs] = row]
    BY <1>2 DEF SendSubscribe
  <2> HIDE DEF row
  <2>5. sockets' \in [Sockets -> SocketRows] /\ sockets'[feedWs] = row
    BY <2>1, <2>3, <2>4
  <2> QED
    BY <1>1, <2>3, <2>5 DEF FeedTyped, SubscribedWhenOpen
<1>3. CASE ~(feedWs # 0 /\ (feedWs = s \/ IsOpen(feedWs)))
  <2>1. sockets' = all
    BY <1>3 DEF SendSubscribe
  <2>2. ~IsOpen(feedWs)'
    BY <1>1, <1>3, <2>1, NoSocket DEF IsOpen
  <2> QED
    BY <1>1, <2>1, <2>2 DEF FeedTyped, SubscribedWhenOpen
<1> QED
  BY <1>2, <1>3

LEMMA ClosingIs ==
  ASSUME FeedInv, NEW s \in Sockets
  PROVE  \E row \in SocketRows : row.ready = "closing"
           /\ (Closing(s) = sockets \/ Closing(s) = [sockets EXCEPT ![s] = row])
<1> DEFINE ev == IF sockets[s].ready = "open" THEN {} ELSE {"error"}
           row == [Gone EXCEPT !.ready = "closing", !.events = ev]
<1>1. Closing(s) = sockets \/ Closing(s) = [sockets EXCEPT ![s] = row]
  BY DEF Closing
<1>2. ev \in EventSets
  BY FeedWords
<1> HIDE DEF ev
<1>3. row \in SocketRows /\ row.ready = "closing"
  BY <1>2, GoneTyped, FeedWords DEF SocketRows
<1> HIDE DEF row
<1> QED
  BY <1>1, <1>3

LEMMA FeedSocketKeeps ==
  ASSUME FeedInv, NEW s \in Sockets,
         OnOpen(s) \/ OnMessage(s) \/ OnError(s) \/ OnClose(s) \/ SocketEnds(s) \/ SocketFails(s) \/ SocketSilent(s)
  PROVE  FeedTyped' /\ SubscribedWhenOpen'
<1>1. sockets \in [Sockets -> SocketRows] /\ desired \in Followed /\ sockets[s] \in SocketRows
  BY DEF FeedInv, FeedTyped
<1>2. CASE OnOpen(s)
  <2> DEFINE row == [sockets[s] EXCEPT !.ready = "open"]
             all == [sockets EXCEPT ![s] = row]
  <2>1. row \in SocketRows
    BY <1>1, FeedWords DEF SocketRows
  <2>2. sockets' = SendSubscribe(all, s) /\ desired' = desired /\ feedWs' = feedWs
    BY <1>2 DEF OnOpen
  <2> HIDE DEF row
  <2>3. all \in [Sockets -> SocketRows] /\ \A t \in Sockets : t # s => all[t] = sockets[t]
    BY <1>1, <2>1
  <2> HIDE DEF all
  <2> QED
    BY <1>1, <2>2, <2>3, SendKeeps
<1>3. CASE OnMessage(s)
  BY <1>3, StillKeeps DEF OnMessage
<1>4. CASE OnError(s) \/ OnClose(s)
  <2>1. PICK x : /\ sockets' = [sockets EXCEPT ![s].events = @ \ {x}]
                 /\ desired' = desired /\ feedWs' \in {0, feedWs}
    BY <1>4 DEF OnError, OnClose
  <2> DEFINE row == [sockets[s] EXCEPT !.events = @ \ {x}]
  <2>2. sockets[s].events \ {x} \in EventSets
    BY <1>1, FeedWords DEF SocketRows
  <2>3. row \in SocketRows /\ row.ready = sockets[s].ready /\ row.subs = sockets[s].subs
    BY <1>1, <2>2 DEF SocketRows
  <2>4. sockets' = [sockets EXCEPT ![s] = row]
    BY <2>1
  <2> HIDE DEF row
  <2> QED
    BY <2>1, <2>3, <2>4, OneSocket, NoSocket DEF IsOpen
<1>5. CASE SocketEnds(s)
  <2>1. PICK ev \in SUBSET {"close"} :
          sockets' = [sockets EXCEPT ![s] = [Gone EXCEPT !.events = ev]] /\ UNCHANGED <<feedWs, desired>>
    BY <1>5 DEF SocketEnds
  <2> DEFINE row == [Gone EXCEPT !.events = ev]
  <2>2. row \in SocketRows /\ row.ready = "closed"
    BY GoneTyped, FeedWords DEF SocketRows
  <2> HIDE DEF row
  <2>3. sockets' = [sockets EXCEPT ![s] = row]
    BY <2>1 DEF row
  <2> QED
    BY <2>1, <2>2, <2>3, OneSocket
<1>6. CASE SocketFails(s)
  <2>1. PICK ev \in SUBSET {"error", "close"}, end \in {"closing", "closed"} :
          sockets' = [sockets EXCEPT ![s] = [Gone EXCEPT !.ready = end, !.events = ev]] /\ UNCHANGED <<feedWs, desired>>
    BY <1>6 DEF SocketFails
  <2> DEFINE row == [Gone EXCEPT !.ready = end, !.events = ev]
  <2>2. row \in SocketRows /\ row.ready = end
    BY GoneTyped, FeedWords DEF SocketRows
  <2> HIDE DEF row
  <2>3. sockets' = [sockets EXCEPT ![s] = row]
    BY <2>1 DEF row
  <2> QED
    BY <2>1, <2>2, <2>3, OneSocket
<1>7. CASE SocketSilent(s)
  <2> DEFINE row == [sockets[s] EXCEPT !.silent = TRUE]
  <2>1. sockets' = [sockets EXCEPT ![s] = row] /\ UNCHANGED <<feedWs, desired>> /\ IsOpen(s)
    BY <1>7 DEF SocketSilent
  <2>2. row \in SocketRows /\ row.ready = sockets[s].ready /\ row.subs = sockets[s].subs
    BY <1>1 DEF SocketRows
  <2> HIDE DEF row
  <2> QED
    BY <2>1, <2>2, OneSocket
<1> QED
  BY <1>2, <1>3, <1>4, <1>5, <1>6, <1>7

LEMMA FeedStepInv == FeedInv /\ [FeedNext]_feedVars => FeedInv'
<1> SUFFICES ASSUME FeedInv, [FeedNext]_feedVars PROVE FeedInv'
  OBVIOUS
<1>1. stopped' => timer' = FALSE
  <2>1. CASE stopped /\ timer = FALSE
    BY <2>1 DEF FeedInv, FeedNext, FeedOwes, feedVars, Connect, Reconnect, WatchdogFires, TimePasses, OnOpen,
       OnMessage, OnError, OnClose, SocketEnds, ClientClose, Resync, SocketFails, SocketSilent,
       ScheduleReconnect, ReconnectIfDown
  <2>2. CASE ~stopped
    BY <2>2 DEF FeedInv, FeedNext, FeedOwes, feedVars, Connect, Reconnect, WatchdogFires, TimePasses, OnOpen,
       OnMessage, OnError, OnClose, SocketEnds, ClientClose, Resync, SocketFails, SocketSilent
  <2> QED
    BY <2>1, <2>2 DEF FeedInv
<1> SUFFICES FeedTyped' /\ SubscribedWhenOpen'
  BY <1>1 DEF FeedInv
<1>2. ASSUME NEW s \in Sockets, OnOpen(s) \/ OnMessage(s) \/ OnError(s) \/ OnClose(s) \/ SocketEnds(s)
                                \/ SocketFails(s) \/ SocketSilent(s)
      PROVE FeedTyped' /\ SubscribedWhenOpen'
  BY <1>2, FeedSocketKeeps
<1>3. CASE Connect \/ Reconnect
  BY <1>3, OpenKeeps DEF Connect, Reconnect
<1>4. CASE WatchdogFires
  <2>1. feedWs \in Sockets /\ sockets' = Closing(feedWs) /\ UNCHANGED <<feedWs, desired>>
    BY <1>4 DEF WatchdogFires, IsOpen, FeedInv, FeedTyped
  <2>2. PICK row \in SocketRows : row.ready = "closing"
           /\ (Closing(feedWs) = sockets \/ Closing(feedWs) = [sockets EXCEPT ![feedWs] = row])
    BY <2>1, ClosingIs
  <2> QED
    BY <2>1, <2>2, CloseKeeps
<1>5. CASE ClientClose
  <2>1. desired' = desired /\ feedWs' = 0 /\ sockets' = IF feedWs = 0 THEN sockets ELSE Closing(feedWs)
    BY <1>5 DEF ClientClose
  <2>2. CASE feedWs = 0
    BY <2>1, <2>2, StillKeeps
  <2>3. CASE feedWs # 0
    <3>1. feedWs \in Sockets
      BY <2>3 DEF FeedInv, FeedTyped
    <3>2. PICK row \in SocketRows : row.ready = "closing"
             /\ (Closing(feedWs) = sockets \/ Closing(feedWs) = [sockets EXCEPT ![feedWs] = row])
      BY <3>1, ClosingIs
    <3> QED
      BY <2>1, <2>3, <3>1, <3>2, CloseKeeps
  <2> QED
    BY <2>2, <2>3
<1>6. ASSUME NEW more \in SUBSET Instruments, Resync(more) PROVE FeedTyped' /\ SubscribedWhenOpen'
  <2>1. /\ desired' = desired \cup more /\ feedWs' = feedWs
        /\ sockets' = IF more \subseteq desired THEN sockets ELSE SendSubscribe(sockets, 0)
    BY <1>6 DEF Resync
  <2>2. desired' \in Followed /\ sockets \in [Sockets -> SocketRows]
    BY <2>1 DEF FeedInv, FeedTyped, Followed
  <2>3. CASE more \subseteq desired
    BY <2>1, <2>3, StillKeeps
  <2>4. CASE ~(more \subseteq desired)
    BY <2>1, <2>2, <2>4, SendKeeps
  <2> QED
    BY <2>3, <2>4
<1>7. CASE TimePasses
  BY <1>7, StillKeeps DEF TimePasses
<1>8. CASE UNCHANGED feedVars
  BY <1>8, StillKeeps DEF feedVars
<1> QED
  BY <1>2, <1>3, <1>4, <1>5, <1>6, <1>7, <1>8 DEF FeedNext, FeedOwes

(* Only a connection or the timer opens a socket, and a closed client has  *)
(* neither.                                                                *)
LEMMA FeedStaysClosed ==
  ASSUME FeedInv, [FeedNext]_feedVars, stopped
  PROVE  ConnectingSockets(sockets') \subseteq ConnectingSockets(sockets)
<1>1. sockets \in [Sockets -> SocketRows]
  BY DEF FeedInv, FeedTyped
<1>2. ~Connect /\ ~Reconnect
  BY DEF FeedInv, Connect, Reconnect
<1>3. ASSUME NEW s \in Sockets, NEW row, row.ready # "connecting" \/ sockets[s].ready = "connecting",
             sockets' = sockets \/ sockets' = [sockets EXCEPT ![s] = row]
      PROVE  ConnectingSockets(sockets') \subseteq ConnectingSockets(sockets)
  BY <1>1, <1>3 DEF ConnectingSockets
<1>4. ASSUME NEW all \in [Sockets -> SocketRows], NEW s,
             sockets' = SendSubscribe(all, s), ConnectingSockets(all) \subseteq ConnectingSockets(sockets)
      PROVE  ConnectingSockets(sockets') \subseteq ConnectingSockets(sockets)
  BY <1>4 DEF ConnectingSockets, SendSubscribe, SocketRows
<1>5. ASSUME NEW s \in Sockets, OnOpen(s)
      PROVE  ConnectingSockets(sockets') \subseteq ConnectingSockets(sockets)
  <2> DEFINE all == [sockets EXCEPT ![s].ready = "open"]
  <2>1. sockets' = SendSubscribe(all, s)
    BY <1>5 DEF OnOpen
  <2>2. all \in [Sockets -> SocketRows]
    BY <1>1, FeedWords DEF SocketRows
  <2>3. ConnectingSockets(all) \subseteq ConnectingSockets(sockets)
    BY <1>1 DEF ConnectingSockets, SocketRows
  <2> HIDE DEF all
  <2> QED
    BY <1>4, <2>1, <2>2, <2>3
<1>6. ASSUME NEW s \in Sockets, OnError(s) \/ OnClose(s) \/ SocketEnds(s) \/ SocketFails(s) \/ SocketSilent(s)
      PROVE  ConnectingSockets(sockets') \subseteq ConnectingSockets(sockets)
  <2>1. sockets[s] \in SocketRows
    BY <1>1
  <2>2. CASE OnError(s) \/ OnClose(s)
    <3>1. PICK x : sockets' = [sockets EXCEPT ![s].events = @ \ {x}]
      BY <2>2 DEF OnError, OnClose
    <3> DEFINE row == [sockets[s] EXCEPT !.events = @ \ {x}]
    <3>2. row.ready = sockets[s].ready /\ sockets' = [sockets EXCEPT ![s] = row]
      BY <2>1, <3>1 DEF SocketRows
    <3> HIDE DEF row
    <3> QED
      BY <1>1, <3>2 DEF ConnectingSockets
  <2>3. CASE SocketEnds(s)
    <3>1. PICK ev : sockets' = [sockets EXCEPT ![s] = [Gone EXCEPT !.events = ev]]
      BY <2>3 DEF SocketEnds
    <3> DEFINE row == [Gone EXCEPT !.events = ev]
    <3>2. row.ready # "connecting" /\ sockets' = [sockets EXCEPT ![s] = row]
      BY <3>1 DEF Gone
    <3> HIDE DEF row
    <3> QED
      BY <1>3, <3>2
  <2>4. CASE SocketFails(s)
    <3>1. PICK ev \in SUBSET {"error", "close"}, end \in {"closing", "closed"} :
            sockets' = [sockets EXCEPT ![s] = [Gone EXCEPT !.ready = end, !.events = ev]]
      BY <2>4 DEF SocketFails
    <3> DEFINE row == [Gone EXCEPT !.ready = end, !.events = ev]
    <3>2. row.ready # "connecting" /\ sockets' = [sockets EXCEPT ![s] = row]
      BY <3>1 DEF Gone
    <3> HIDE DEF row
    <3> QED
      BY <1>3, <3>2
  <2>5. CASE SocketSilent(s)
    <3> DEFINE row == [sockets[s] EXCEPT !.silent = TRUE]
    <3>1. sockets' = [sockets EXCEPT ![s] = row] /\ row.ready = sockets[s].ready
      BY <2>1, <2>5 DEF SocketSilent, SocketRows
    <3> HIDE DEF row
    <3> QED
      BY <1>1, <3>1 DEF ConnectingSockets
  <2> QED
    BY <1>6, <2>2, <2>3, <2>4, <2>5
<1>7. CASE UNCHANGED sockets
  BY <1>7
<1>8. CASE WatchdogFires \/ ClientClose
  BY <1>1, <1>8, NoSocket DEF WatchdogFires, ClientClose, Closing, ConnectingSockets, Gone, SocketRows, FeedInv, FeedTyped
<1>9. ASSUME NEW more \in SUBSET Instruments, Resync(more)
      PROVE  ConnectingSockets(sockets') \subseteq ConnectingSockets(sockets)
  BY <1>1, <1>4, <1>7, <1>9 DEF Resync
<1> QED
  BY <1>2, <1>5, <1>6, <1>7, <1>8, <1>9 DEF FeedNext, FeedOwes, OnMessage, TimePasses, feedVars

(* The client of the market feed, for any instruments, sockets and faults: *)
(* its current socket has been sent all that was asked for, and once       *)
(* closed it opens no other.                                               *)
THEOREM FeedIsSound == FeedSpec => []SubscribedWhenOpen /\ StaysClosed
<1>1. FeedSpec => []FeedInv
  BY FeedInitInv, FeedStepInv, PTL DEF FeedSpec
<1>2. FeedInv => SubscribedWhenOpen
  BY DEF FeedInv
<1>3. FeedInv /\ [FeedNext]_feedVars =>
        [stopped => ConnectingSockets(sockets') \subseteq ConnectingSockets(sockets)]_feedVars
  BY FeedStaysClosed
<1> QED
  BY <1>1, <1>2, <1>3, PTL DEF FeedSpec, StaysClosed

-----------------------------------------------------------------------------
(* Pushes: while one is on its way it is its user's only one, the key was  *)
(* set when it left, and the last alert is a cooldown ago; the time since  *)
(* the last alert and the time left on the key make up the cooldown but    *)
(* for a send.                                                             *)
Ages == 0..Unsent
Waits == 0..Cooldown
PushTyped ==
  /\ key \in [Users -> Waits] /\ since \in [Users -> Waits] /\ sending \in [Devices -> Ages]
  /\ enabled \subseteq Devices /\ listed \subseteq Devices
KeysHold ==
  /\ listed # {} => \A d \in Devices : sending[d] = Unsent
  /\ \A d, e \in Devices : Owner[d] = Owner[e] /\ sending[d] # Unsent /\ sending[e] # Unsent => d = e
  /\ \A d \in Devices : sending[d] # Unsent =>
       /\ key[Owner[d]] >= Cooldown - sending[d] /\ since[Owner[d]] >= Cooldown - SendTime
  /\ \A u \in Users : since[u] + key[u] >= Cooldown - SendTime
PushInv == PushTyped /\ KeysHold

LEMMA PushNumbers ==
  /\ Cooldown \in Nat /\ Cooldown > 0 /\ SendTime \in Nat /\ SendTime < Cooldown
  /\ Unsent = SendTime + 1 /\ Ages = 0..(SendTime + 1) /\ Waits = 0..Cooldown
  /\ \A d \in Devices : Owner[d] \in Users
BY PushBounds DEF Unsent, Ages, Waits, Users

LEMMA PushInitInv == PushInit => PushInv
<1> SUFFICES ASSUME PushInit PROVE PushInv
  OBVIOUS
<1>1. /\ key = [u \in Users |-> 0] /\ since = [u \in Users |-> Cooldown]
      /\ sending = [d \in Devices |-> Unsent] /\ listed = {} /\ enabled = Devices
  BY DEF PushInit, Quiet
<1>2. PushTyped
  BY <1>1, PushNumbers DEF PushTyped
<1>3. KeysHold
  BY <1>1, PushNumbers DEF KeysHold
<1> QED
  BY <1>2, <1>3 DEF PushInv

(* What leaves the keys, the clocks and the sends alone.                   *)
LEMMA PushStill ==
  ASSUME PushInv, UNCHANGED <<key, since>>, listed' \subseteq Devices, enabled' \subseteq Devices,
         \/ UNCHANGED sending /\ (listed' # {} => listed # {})
         \/ sending' = Quiet
         \/ UNCHANGED sending /\ sending = Quiet
  PROVE  PushInv'
<1>1. CASE UNCHANGED sending /\ (listed' # {} => listed # {})
  BY <1>1 DEF PushInv, PushTyped, KeysHold
<1>2. CASE sending' = Quiet
  <2>1. sending' \in [Devices -> Ages] /\ \A d \in Devices : sending'[d] = Unsent
    BY <1>2, PushNumbers DEF Quiet
  <2> QED
    BY <2>1 DEF PushInv, PushTyped, KeysHold
<1>3. CASE UNCHANGED sending /\ sending = Quiet
  <2>1. \A d \in Devices : sending[d] = Unsent
    BY <1>3 DEF Quiet
  <2> QED
    BY <1>3, <2>1 DEF PushInv, PushTyped, KeysHold
<1> QED
  BY <1>1, <1>2, <1>3

LEMMA BurstKeeps == ASSUME PushInv, Burst PROVE PushInv'
<1>1. PICK w \in [Users -> SUBSET listed] :
        /\ \A u \in Users : w[u] \in Winners(u)
        /\ sending' = [d \in Devices |-> IF d \in w[Owner[d]] THEN 0 ELSE Unsent]
        /\ key' = [u \in Users |-> IF w[u] = {} THEN key[u] ELSE Cooldown]
  BY DEF Burst
<1>2. listed' = {} /\ since' = since /\ enabled' = enabled
  BY DEF Burst
<1>3. \A u \in Users : \A d, e \in w[u] : d = e /\ key[u] = 0
  <2> SUFFICES ASSUME NEW u \in Users, w[u] # {}
               PROVE  key[u] = 0 /\ \A d, e \in w[u] : d = e
    OBVIOUS
  <2>1. w[u] \in Winners(u) /\ w[u] \notin {{}}
    BY <1>1
  <2>2. ~(key[u] > 0) /\ \E d : w[u] = {d}
    BY <2>1 DEF Winners
  <2> QED
    BY <2>2, PushNumbers DEF PushInv, PushTyped
<1>4. PushTyped'
  BY <1>1, <1>2, PushNumbers DEF PushInv, PushTyped
<1>5. \A d \in Devices : sending'[d] # Unsent => d \in w[Owner[d]] /\ sending'[d] = 0
  BY <1>1
<1>6. \A d \in Devices : sending'[d] # Unsent =>
        key'[Owner[d]] = Cooldown /\ since[Owner[d]] >= Cooldown - SendTime
  <2> SUFFICES ASSUME NEW d \in Devices, sending'[d] # Unsent
               PROVE  key'[Owner[d]] = Cooldown /\ since[Owner[d]] >= Cooldown - SendTime
    OBVIOUS
  <2>1. Owner[d] \in Users /\ d \in w[Owner[d]]
    BY <1>5, PushNumbers
  <2>2. key[Owner[d]] = 0 /\ key'[Owner[d]] = Cooldown
    BY <1>1, <1>3, <2>1
  <2> QED
    BY <2>1, <2>2, PushNumbers DEF PushInv, PushTyped, KeysHold
<1>7. \A u \in Users : key'[u] = key[u] \/ key'[u] = Cooldown
  BY <1>1
<1>8. \A u \in Users : since'[u] + key'[u] >= Cooldown - SendTime
  <2> SUFFICES ASSUME NEW u \in Users PROVE since[u] + key'[u] >= Cooldown - SendTime
    BY <1>2
  <2>1. since[u] \in Waits /\ since[u] + key[u] >= Cooldown - SendTime
    BY DEF PushInv, PushTyped, KeysHold
  <2> QED
    BY <1>7, <2>1, PushNumbers
<1>9. \A d, e \in Devices : Owner[d] = Owner[e] /\ sending'[d] # Unsent /\ sending'[e] # Unsent => d = e
  BY <1>3, <1>5, PushNumbers
<1>10. KeysHold'
  <2>1. \A d \in Devices : sending'[d] # Unsent => key'[Owner[d]] >= Cooldown - sending'[d]
    BY <1>5, <1>6, PushNumbers
  <2> QED
    BY <1>2, <1>6, <1>8, <1>9, <2>1, PushNumbers DEF KeysHold
<1> QED
  BY <1>4, <1>10 DEF PushInv

LEMMA SettleKeeps ==
  ASSUME PushInv, NEW d \in Devices, sending[d] # Unsent, sending' = [sending EXCEPT ![d] = Unsent],
         \/ since' = [since EXCEPT ![Owner[d]] = 0] /\ key' = key
         \/ key' = [key EXCEPT ![Owner[d]] = 0] /\ since' = since,
         listed' = listed, enabled' \subseteq Devices
  PROVE  PushInv'
<1> USE PushNumbers
<1>1. /\ key \in [Users -> Waits] /\ since \in [Users -> Waits] /\ sending \in [Devices -> Ages]
      /\ Owner[d] \in Users
  BY DEF PushInv, PushTyped
<1>2. PushTyped'
  BY <1>1, SMTT(30) DEF PushInv, PushTyped
<1>3. \A e \in Devices : sending'[e] # Unsent =>
        sending'[e] = sending[e] /\ sending[e] # Unsent /\ Owner[e] # Owner[d]
  BY <1>1 DEF PushInv, KeysHold
<1>4. \A u \in Users : u # Owner[d] => since'[u] = since[u] /\ key'[u] = key[u]
  BY <1>1
<1>5. key[Owner[d]] >= Cooldown - SendTime /\ since[Owner[d]] >= Cooldown - SendTime
  BY <1>1 DEF PushInv, KeysHold
<1>6. since'[Owner[d]] + key'[Owner[d]] >= Cooldown - SendTime
  <2>1. CASE since' = [since EXCEPT ![Owner[d]] = 0] /\ key' = key
    BY <1>1, <1>5, <2>1
  <2>2. CASE key' = [key EXCEPT ![Owner[d]] = 0] /\ since' = since
    BY <1>1, <1>5, <2>2
  <2> QED
    BY <2>1, <2>2
<1>7. \A u \in Users : since'[u] + key'[u] >= Cooldown - SendTime
  BY <1>4, <1>6 DEF PushInv, KeysHold
<1>8. listed' = {}
  BY DEF PushInv, KeysHold
<1>9. KeysHold'
  BY <1>3, <1>4, <1>7, <1>8 DEF PushInv, KeysHold
<1> QED
  BY <1>2, <1>9 DEF PushInv

LEMMA TickKeeps == ASSUME PushInv, PushTick PROVE PushInv'
<1> USE PushNumbers
<1>1. key \in [Users -> Waits] /\ since \in [Users -> Waits] /\ sending \in [Devices -> Ages]
  BY DEF PushInv, PushTyped
<1>2. /\ \A d \in Devices : sending[d] # SendTime
      /\ key' = [u \in Users |-> IF key[u] = 0 THEN 0 ELSE key[u] - 1]
      /\ since' = [u \in Users |-> IF since[u] = Cooldown THEN Cooldown ELSE since[u] + 1]
      /\ sending' = [d \in Devices |-> IF sending[d] = Unsent THEN Unsent ELSE sending[d] + 1]
      /\ listed' = listed /\ enabled' = enabled
  BY DEF PushTick
<1>3. \A u \in Users : /\ key[u] \in Waits /\ since[u] \in Waits
                       /\ key'[u] = (IF key[u] = 0 THEN 0 ELSE key[u] - 1)
                       /\ since'[u] = IF since[u] = Cooldown THEN Cooldown ELSE since[u] + 1
  BY <1>1, <1>2
<1>4. \A d \in Devices : /\ sending[d] \in Ages /\ sending[d] # SendTime
                         /\ sending'[d] = IF sending[d] = Unsent THEN Unsent ELSE sending[d] + 1
  BY <1>1, <1>2
<1>5. PushTyped'
  <2>1. \A u \in Users : key'[u] \in Waits /\ since'[u] \in Waits
    BY <1>3
  <2>2. \A d \in Devices : sending'[d] \in Ages
    BY <1>4
  <2> QED
    BY <1>2, <2>1, <2>2 DEF PushInv, PushTyped
<1>6. \A u \in Users : since'[u] + key'[u] >= Cooldown - SendTime
  BY <1>3 DEF PushInv, KeysHold
<1>7. \A d \in Devices : sending'[d] # Unsent =>
        sending[d] # Unsent /\ sending'[d] = sending[d] + 1 /\ sending[d] < SendTime
  BY <1>4
<1>8. \A d \in Devices : sending'[d] # Unsent =>
        key'[Owner[d]] >= Cooldown - sending'[d] /\ since'[Owner[d]] >= Cooldown - SendTime
  <2> SUFFICES ASSUME NEW d \in Devices, sending'[d] # Unsent
               PROVE  key'[Owner[d]] >= Cooldown - sending'[d] /\ since'[Owner[d]] >= Cooldown - SendTime
    OBVIOUS
  <2>1. key[Owner[d]] >= Cooldown - sending[d] /\ since[Owner[d]] >= Cooldown - SendTime /\ Owner[d] \in Users
    BY <1>7 DEF PushInv, KeysHold
  <2>2. sending[d] \in Ages /\ sending'[d] = sending[d] + 1 /\ sending[d] < SendTime
    BY <1>4, <1>7
  <2> QED
    BY <1>3, <2>1, <2>2
<1>9. \A d \in Devices : sending[d] = Unsent => sending'[d] = Unsent
  BY <1>4
<1>10. KeysHold'
  BY <1>2, <1>6, <1>7, <1>8, <1>9 DEF PushInv, KeysHold
<1> QED
  BY <1>5, <1>10 DEF PushInv

LEMMA PushStepInv == PushInv /\ [PushNext]_pushVars => PushInv'
<1> SUFFICES ASSUME PushInv, [PushNext]_pushVars PROVE PushInv'
  OBVIOUS
<1>0. enabled \subseteq Devices /\ listed \subseteq Devices
  BY DEF PushInv, PushTyped
<1>1. CASE ListSubscriptions
  BY <1>0, <1>1, PushStill DEF ListSubscriptions
<1>2. CASE AlertChanges
  BY <1>0, <1>2, PushStill DEF AlertChanges
<1>3. CASE PushRestart
  BY <1>0, <1>3, PushStill DEF PushRestart
<1>4. ASSUME NEW d \in Devices, Settles(d) PROVE PushInv'
  <2>1. CASE Delivered(d)
    BY <1>0, <2>1, SettleKeeps DEF Delivered
  <2>2. CASE SendFails(d)
    BY <1>0, <2>2, SettleKeeps DEF SendFails, AfterFailure
  <2> QED
    BY <1>4, <2>1, <2>2 DEF Settles
<1>5. ASSUME NEW d \in Devices, Subscribe(d) \/ Unsubscribe(d) \/ DeviceGone(d) PROVE PushInv'
  BY <1>0, <1>5, PushStill DEF Subscribe, Unsubscribe, DeviceGone
<1>6. CASE UNCHANGED pushVars
  BY <1>0, <1>6, PushStill DEF pushVars
<1> QED
  BY <1>1, <1>2, <1>3, <1>4, <1>5, <1>6, BurstKeeps, TickKeeps DEF PushNext

LEMMA PushOnce ==
  PushInv /\ [PushNext]_pushVars =>
    [\A d \in Devices : Delivered(d) => since[Owner[d]] >= Cooldown - SendTime]_pushVars
BY DEF PushInv, KeysHold, Delivered

-----------------------------------------------------------------------------
(* The store: what retention may still delete, and what it has.            *)
SnapRows == [id : Nat, expiry : Nat, time : Nat]
SavePhases == {"idle", "fetched", "upserted"}
PrunePhases == {"idle", "list", "detail 1", "detail 2", "list rows", "rejected"}
IdSets == SUBSET Nat
SavingRows == [pc : SavePhases, snap : SnapRows]
PruneRows == [pc : PrunePhases, ids : IdSets, batches : Nat, capped : BOOLEAN, detail : Nat, spot : Nat]
StoreTyped ==
  /\ now \in Nat /\ saves \in Nat /\ snaps \in SUBSET SnapRows /\ IsFiniteSet(snaps)
  /\ ticked \in IdSets /\ scored \in IdSets
  /\ saving \in [Writers -> SavingRows] /\ prune \in PruneRows

(* A row has an identity of its own, and what is being saved is recent.    *)
Distinct(S) == \A s, t \in S : s.id = t.id => s = t
RowsDistinct ==
  /\ Distinct(snaps) /\ \A s \in snaps : s.id <= saves
  /\ \A w \in Writers : saving[w].pc # "idle" =>
       /\ saving[w].snap.id <= saves /\ \A s \in snaps : s.id # saving[w].snap.id
       /\ \A v \in Writers : saving[v].pc # "idle" /\ saving[v].snap.id = saving[w].snap.id => v = w
SavesRecent == \A w \in Writers : saving[w].pc # "idle" => now <= saving[w].snap.time + SaveTime

(* Details go together, scores first, and only of old rows; only an empty  *)
(* chain's row has a score and no ticks.                                   *)
DetailsKept ==
  /\ scored \subseteq ticked \cup empty
  /\ \A s \in snaps : s.id \notin (ticked \cup empty) \cap scored => s.time < Cutoff(DetailDays)

(* A run of the job: what it is about to strip is old; a batch that is not *)
(* full is all there is; the rows loop begins with nothing left to strip.  *)
InBatch == prune.pc \in {"detail 1", "detail 2"}
RunSound ==
  /\ prune.detail <= Cutoff(DetailDays) /\ prune.spot <= prune.detail
  /\ ~InBatch => prune.ids = {}
  /\ \A i \in prune.ids : \E s \in snaps : s.id = i /\ s.time < prune.detail
  /\ InBatch /\ Cardinality(prune.ids) < BatchSize => \A s \in Stale : s.id \in prune.ids
  /\ prune.pc = "detail 2" => prune.ids \cap scored = {}
  /\ prune.pc = "list rows" /\ ~prune.capped => Stale = {}
StoreInv == StoreTyped /\ RowsDistinct /\ SavesRecent /\ DetailsKept /\ RunSound /\ NeverRejected

LEMMA StoreWords ==
  /\ SavePhases = {"idle", "fetched", "upserted"}
  /\ PrunePhases = {"idle", "list", "detail 1", "detail 2", "list rows", "rejected"}
  /\ {} \in IdSets /\ IdSets = SUBSET Nat
  /\ ExpiryDays \subseteq Nat /\ DetailDays \in Nat /\ SpotDays \in Nat /\ SaveTime \in Nat
  /\ SaveTime <= DetailDays /\ BatchSize \in Nat /\ BatchSize > 0 /\ "worker" \in Writers
BY StoreConstants DEF SavePhases, PrunePhases, IdSets

LEMMA StoreNumbers ==
  /\ DetailDays \in Nat /\ SpotDays \in Nat /\ SaveTime \in Nat /\ SaveTime <= DetailDays
  /\ BatchSize \in Nat /\ BatchSize > 0
BY StoreWords

LEMMA CutoffTyped ==
  ASSUME now \in Nat, NEW days \in Nat
  PROVE  Cutoff(days) \in Nat /\ Cutoff(days) <= now /\ \A more \in Nat : more >= days => Cutoff(more) <= Cutoff(days)
BY DEF Cutoff

LEMMA SpotIsLonger == SpotRetention \in Nat /\ SpotRetention >= DetailDays
<1>0. SpotDays \in Nat /\ DetailDays \in Nat
  BY StoreWords
<1>1. \E x \in {SpotDays, DetailDays} : \A y \in {SpotDays, DetailDays} : x >= y
  <2>1. CASE SpotDays >= DetailDays
    BY <1>0, <2>1
  <2>2. CASE DetailDays >= SpotDays
    BY <1>0, <2>2
  <2> QED
    BY <1>0, <2>1, <2>2
<1>2. SpotRetention \in {SpotDays, DetailDays} /\ \A y \in {SpotDays, DetailDays} : SpotRetention >= y
  BY <1>1 DEF SpotRetention, Max
<1> QED
  BY <1>2, StoreWords

LEMMA NoneTyped == NoSave \in SavingRows /\ NoSave.pc = "idle" /\ NoPrune \in PruneRows
<1>1. NoSave.snap \in SnapRows
  BY DEF NoSave, SnapRows
<1> HIDE DEF SnapRows
<1>2. NoSave \in SavingRows
  BY <1>1, StoreWords DEF NoSave, SavingRows
<1> QED
  BY <1>2, StoreWords DEF NoSave, NoPrune, PruneRows

-----------------------------------------------------------------------------
(* A batch that is not full leaves none out.                               *)
Below(S, s) == {t \in S : t.time < s.time \/ (t.time = s.time /\ t.id < s.id)}

LEMMA FirstAreAll ==
  ASSUME NEW S \in SUBSET SnapRows, IsFiniteSet(S), NEW n \in Nat, Cardinality(FirstOf(S, n)) < n
  PROVE  FirstOf(S, n) = S
<1> DEFINE F == FirstOf(S, n)
           T == {Cardinality(Below(S, s)) : s \in S \ F}
<1>1. F = {s \in S : Cardinality(Below(S, s)) < n}
  BY DEF FirstOf, Below
<1>2. \A s \in S : Below(S, s) \in SUBSET S /\ IsFiniteSet(Below(S, s)) /\ Cardinality(Below(S, s)) \in Nat
  BY FS_Subset, FS_CardinalityType DEF Below
<1> SUFFICES ASSUME F # S PROVE FALSE
  OBVIOUS
<1>3. T \in SUBSET Nat /\ T # {}
  BY <1>1, <1>2
<1>4. PICK c \in T : \A m \in T : c <= m
  <2> HIDE DEF T
  <2> QED
    BY <1>3, Least
<1>5. PICK s \in S \ F : c = Cardinality(Below(S, s))
  OBVIOUS
<1>6. ASSUME NEW t \in Below(S, s) PROVE t \in F
  <2>1. t \in S /\ s \in S /\ t.id \in Nat /\ t.time \in Nat /\ s.id \in Nat /\ s.time \in Nat
    BY <1>6 DEF Below, SnapRows
  <2>2. Below(S, t) \subseteq Below(S, s) \ {t}
    <3> SUFFICES ASSUME NEW u \in Below(S, t) PROVE u \in Below(S, s) /\ u # t
      OBVIOUS
    <3>1. u \in S /\ u.id \in Nat /\ u.time \in Nat /\ (u.time < t.time \/ (u.time = t.time /\ u.id < t.id))
      BY DEF Below, SnapRows
    <3>2. t.time < s.time \/ (t.time = s.time /\ t.id < s.id)
      BY <1>6 DEF Below
    <3>3. u.time < s.time \/ (u.time = s.time /\ u.id < s.id)
      BY <2>1, <3>1, <3>2
    <3>4. u # t
      BY <2>1, <3>1
    <3> QED
      BY <3>1, <3>3, <3>4 DEF Below
  <2>3. Cardinality(Below(S, s) \ {t}) = Cardinality(Below(S, s)) - 1 /\ IsFiniteSet(Below(S, s) \ {t})
    BY <1>2, <1>6, FS_RemoveElement
  <2>4. Cardinality(Below(S, t)) <= Cardinality(Below(S, s) \ {t})
    BY <2>2, <2>3, FS_Subset
  <2>5. Cardinality(Below(S, t)) < c
    BY <1>2, <1>5, <2>1, <2>3, <2>4
  <2>6. t \notin S \ F
    <3> SUFFICES ASSUME t \in S \ F PROVE FALSE
      OBVIOUS
    <3>1. Cardinality(Below(S, t)) \in T
      OBVIOUS
    <3>2. c <= Cardinality(Below(S, t))
      BY <1>4, <3>1
    <3> HIDE DEF T, F
    <3> QED
      BY <1>2, <1>5, <2>1, <2>5, <3>2
  <2> QED
    BY <2>1, <2>6
<1>7. Cardinality(Below(S, s)) <= Cardinality(F)
  <2>1. F \in SUBSET S
    BY <1>1
  <2>2. IsFiniteSet(F) /\ Below(S, s) \in SUBSET F
    BY <1>6, <2>1, FS_Subset
  <2> HIDE DEF F
  <2> QED
    BY <2>2, FS_Subset
<1>8. Cardinality(F) \in Nat
  BY <1>1, FS_Subset, FS_CardinalityType
<1>9. ~(Cardinality(Below(S, s)) < n)
  BY <1>1
<1> QED
  BY <1>2, <1>7, <1>8, <1>9

LEMMA IdsCount ==
  ASSUME NEW S, IsFiniteSet(S), Distinct(S)
  PROVE  Cardinality(Ids(S)) = Cardinality(S)
<1> DEFINE f == [s \in S |-> s.id]
<1>1. f \in Surjection(S, Ids(S))
  BY DEF Surjection, Ids
<1>2. f \in Injection(S, Ids(S))
  BY DEF Injection, IsInjective, Distinct, Ids
<1> HIDE DEF f
<1> QED
  BY <1>1, <1>2, FS_Surjection

LEMMA StoreInitInv == StoreInit => StoreInv
<1> SUFFICES ASSUME StoreInit PROVE StoreInv
  OBVIOUS
<1>1. /\ now = 0 /\ saves = 0 /\ snaps = {} /\ ticked = {} /\ scored = {}
      /\ saving = [w \in Writers |-> NoSave] /\ prune = NoPrune
  BY DEF StoreInit
<1>2. StoreTyped
  BY <1>1, NoneTyped, FS_EmptySet, StoreWords DEF StoreTyped
<1>3. \A w \in Writers : saving[w].pc = "idle"
  BY <1>1, NoneTyped
<1>4. RowsDistinct /\ SavesRecent /\ DetailsKept
  BY <1>1, <1>3 DEF RowsDistinct, Distinct, SavesRecent, DetailsKept
<1>5. Cutoff(DetailDays) = 0
  <2>1. DetailDays \in Nat /\ now = 0
    BY <1>1, StoreWords
  <2> QED
    BY <2>1 DEF Cutoff
<1>6. RunSound /\ NeverRejected
  BY <1>1, <1>5 DEF RunSound, NoPrune, InBatch, NeverRejected
<1> QED
  BY <1>2, <1>4, <1>6 DEF StoreInv

-----------------------------------------------------------------------------
(* The job stands still, or is gone.                                       *)
LEMMA RunStays ==
  ASSUME StoreInv, UNCHANGED <<snaps, ticked, scored>>, empty \subseteq empty', prune' = prune \/ prune' = NoPrune,
         Cutoff(DetailDays)' \in Nat, Cutoff(DetailDays)' >= Cutoff(DetailDays)
  PROVE  RunSound' /\ NeverRejected' /\ prune' \in PruneRows
<1>0. prune \in PruneRows /\ prune.detail \in Nat /\ Cutoff(DetailDays) \in Nat
  BY CutoffTyped, StoreWords DEF StoreInv, StoreTyped, PruneRows
<1>1. CASE prune' = prune
  <2>1. Stale' = Stale /\ InBatch' = InBatch
    BY <1>1 DEF Stale, InBatch
  <2>a. prune.detail <= Cutoff(DetailDays) /\ prune'.detail = prune.detail
    BY <1>1 DEF StoreInv, RunSound
  <2>2. prune'.detail <= Cutoff(DetailDays)'
    BY <1>0, <2>a
  <2>3. RunSound'
    BY <1>1, <2>1, <2>2 DEF StoreInv, RunSound
  <2>4. Held(Expired) \subseteq Held(Expired)'
    BY <1>1 DEF Held, Expired
  <2> QED
    BY <1>0, <1>1, <2>3, <2>4 DEF StoreInv, NeverRejected
<1>2. CASE prune' = NoPrune
  <2>1. prune'.pc = "idle" /\ prune'.ids = {} /\ prune'.detail = 0 /\ prune'.spot = 0 /\ prune' \in PruneRows
    BY <1>2, NoneTyped DEF NoPrune
  <2> QED
    BY <2>1 DEF RunSound, InBatch, NeverRejected
<1> QED
  BY <1>1, <1>2

LEMMA OneSave ==
  ASSUME StoreInv, UNCHANGED <<now, snaps, ticked, scored>>, empty \subseteq empty', prune' = prune \/ prune' = NoPrune,
         saves' \in Nat, saves' >= saves,
         NEW w \in Writers, NEW row \in SavingRows, saving' = [saving EXCEPT ![w] = row],
         row.pc # "idle" =>
           \/ row.snap = saving[w].snap /\ saving[w].pc # "idle"
           \/ row.snap.id = saves + 1 /\ saves' = saves + 1 /\ row.snap.time = now
  PROVE  StoreInv'
<1>1. /\ now \in Nat /\ saves \in Nat /\ snaps \in SUBSET SnapRows /\ IsFiniteSet(snaps)
      /\ ticked \in IdSets /\ scored \in IdSets /\ saving \in [Writers -> SavingRows]
  BY DEF StoreInv, StoreTyped
<1>2. Cutoff(DetailDays) \in Nat /\ Cutoff(DetailDays)' = Cutoff(DetailDays)
  BY <1>1, CutoffTyped, StoreWords DEF Cutoff
<1>3. RunSound' /\ NeverRejected' /\ prune' \in PruneRows
  BY <1>2, RunStays
<1>4. saving' \in [Writers -> SavingRows] /\ \A v \in Writers : saving'[v] = IF v = w THEN row ELSE saving[v]
  BY <1>1
<1>5. StoreTyped'
  BY <1>1, <1>3, <1>4 DEF StoreTyped
<1>6. DetailsKept'
  BY <1>2 DEF StoreInv, DetailsKept
<1>7. \A v \in Writers : saving[v].snap \in SnapRows /\ saving[v].snap.id \in Nat /\ saving[v].snap.time \in Nat
  BY <1>1 DEF SavingRows, SnapRows
<1>8. SavesRecent'
  <2>1. SaveTime \in Nat
    BY StoreNumbers
  <2> SUFFICES ASSUME NEW v \in Writers, saving'[v].pc # "idle" PROVE now <= saving'[v].snap.time + SaveTime
    BY DEF SavesRecent
  <2>2. CASE saving'[v].snap = saving[v].snap /\ saving[v].pc # "idle"
    BY <2>2 DEF StoreInv, SavesRecent
  <2>3. CASE saving'[v].snap.time = now
    BY <1>1, <2>1, <2>3
  <2> QED
    BY <1>4, <2>2, <2>3
<1>9. \A s \in snaps : s.id \in Nat
  BY <1>1 DEF SnapRows
<1>10. RowsDistinct'
  <2>1. Distinct(snaps)' /\ \A s \in snaps' : s.id <= saves'
    BY <1>1, <1>9 DEF StoreInv, RowsDistinct, Distinct
  <2>2. CASE row.pc # "idle" => row.snap = saving[w].snap /\ saving[w].pc # "idle"
    BY <1>1, <1>4, <1>7, <1>9, <2>1, <2>2 DEF StoreInv, RowsDistinct
  <2>3. CASE row.snap.id = saves + 1 /\ saves' = saves + 1
    BY <1>1, <1>4, <1>7, <1>9, <2>1, <2>3 DEF StoreInv, RowsDistinct
  <2> QED
    BY <2>2, <2>3
<1> QED
  BY <1>3, <1>5, <1>6, <1>8, <1>10 DEF StoreInv

LEMMA SaveKeeps ==
  ASSUME StoreInv, NEW w \in Writers, UpsertMetadata(w) \/ SaveFails(w) \/ \E e \in ExpiryDays : Fetch(w, e)
  PROVE  StoreInv'
<1>1. /\ now \in Nat /\ saves \in Nat /\ saving[w] \in SavingRows
  BY DEF StoreInv, StoreTyped
<1>2. CASE UpsertMetadata(w)
  <2> DEFINE row == [saving[w] EXCEPT !.pc = "upserted"]
  <2>1. row \in SavingRows /\ row.snap = saving[w].snap
    BY <1>1, StoreWords DEF SavingRows
  <2>2. /\ saving' = [saving EXCEPT ![w] = row] /\ saving[w].pc # "idle"
        /\ UNCHANGED <<now, saves, empty, snaps, ticked, scored, prune>>
    BY <1>2 DEF UpsertMetadata
  <2> HIDE DEF row
  <2>3. saves' \in Nat /\ saves' >= saves
    BY <1>1, <2>2
  <2> QED
    BY <2>1, <2>2, <2>3, OneSave
<1>3. CASE SaveFails(w)
  <2>1. saving' = [saving EXCEPT ![w] = NoSave] /\ UNCHANGED <<now, saves, empty, snaps, ticked, scored, prune>>
    BY <1>3 DEF SaveFails, rows
  <2>2. saves' \in Nat /\ saves' >= saves
    BY <1>1, <2>1
  <2> QED
    BY <2>1, <2>2, OneSave, NoneTyped
<1>4. ASSUME NEW e \in ExpiryDays, Fetch(w, e) PROVE StoreInv'
  <2> DEFINE new == [id |-> saves + 1, expiry |-> e, time |-> now]
             row == [pc |-> "fetched", snap |-> new]
  <2>0. e \in Nat
    BY StoreWords
  <2>1. new \in SnapRows /\ new.id = saves + 1 /\ new.time = now
    BY <1>1, <2>0 DEF SnapRows
  <2>2. saving' = [saving EXCEPT ![w] = row] /\ saves' = saves + 1
    BY <1>4 DEF Fetch
  <2>3. UNCHANGED <<now, snaps, ticked, scored, prune>> /\ empty \subseteq empty'
    BY <1>4 DEF Fetch
  <2> HIDE DEF new
  <2>4. row \in SavingRows /\ row.snap = new
    BY <2>1, StoreWords DEF SavingRows
  <2> HIDE DEF row
  <2>5. saves' \in Nat /\ saves' >= saves
    BY <1>1, <2>2
  <2> QED
    BY <2>1, <2>2, <2>3, <2>4, <2>5, OneSave
<1> QED
  BY <1>2, <1>3, <1>4

(* A row that is put in is recent, has its details and its own identity.   *)
LEMMA InsertKeeps == ASSUME StoreInv, NEW w \in Writers, InsertSnapshot(w) PROVE StoreInv'
<1> DEFINE s == saving[w].snap
<1>1. /\ now \in Nat /\ saves \in Nat /\ snaps \in SUBSET SnapRows /\ IsFiniteSet(snaps)
      /\ ticked \in IdSets /\ scored \in IdSets /\ saving \in [Writers -> SavingRows] /\ prune \in PruneRows
  BY DEF StoreInv, StoreTyped
<1>2. /\ snaps' = snaps \cup {s} /\ ticked' = ticked \cup ({s.id} \ empty) /\ scored' = scored \cup {s.id}
      /\ saving' = [saving EXCEPT ![w] = NoSave] /\ UNCHANGED <<now, saves, empty, prune>> /\ saving[w].pc # "idle"
  BY DEF InsertSnapshot
<1>3. s \in SnapRows /\ s.id \in Nat /\ s.time \in Nat
  BY <1>1 DEF SavingRows, SnapRows
<1>4. /\ s.id <= saves /\ \A t \in snaps : t.id # s.id
      /\ \A v \in Writers : saving[v].pc # "idle" /\ saving[v].snap.id = s.id => v = w
      /\ now <= s.time + SaveTime
  BY <1>2 DEF StoreInv, RowsDistinct, SavesRecent
<1>5. \A v \in Writers : saving'[v] = IF v = w THEN NoSave ELSE saving[v]
  BY <1>1, <1>2
<1> HIDE DEF s
<1>6. StoreTyped'
  <2>1. saving' \in [Writers -> SavingRows]
    BY <1>1, <1>2, NoneTyped
  <2>2. ticked' \in IdSets /\ scored' \in IdSets /\ snaps' \in SUBSET SnapRows /\ IsFiniteSet(snaps')
    BY <1>1, <1>2, <1>3, FS_AddElement, StoreWords
  <2> QED
    BY <1>1, <1>2, <2>1, <2>2 DEF StoreTyped
<1>7. RowsDistinct'
  BY <1>2, <1>4, <1>5, NoneTyped DEF StoreInv, RowsDistinct, Distinct
<1>8. SavesRecent'
  BY <1>2, <1>5, NoneTyped DEF StoreInv, SavesRecent
<1>9. Cutoff(DetailDays) \in Nat /\ Cutoff(DetailDays)' = Cutoff(DetailDays) /\ s.time >= Cutoff(DetailDays)
  BY <1>1, <1>2, <1>3, <1>4, StoreNumbers DEF Cutoff
<1>10. DetailsKept'
  BY <1>2, <1>4, <1>9 DEF StoreInv, DetailsKept
<1>11. prune.detail \in Nat /\ ~(s.time < prune.detail)
  <2>1. prune.detail \in Nat
    BY <1>1 DEF PruneRows
  <2>2. prune.detail <= Cutoff(DetailDays)
    BY DEF StoreInv, RunSound
  <2> QED
    BY <1>3, <1>9, <2>1, <2>2
<1>12. Stale' = Stale
  BY <1>2, <1>4, <1>11 DEF Stale
<1>13. s.id \notin prune.ids
  BY <1>4 DEF StoreInv, RunSound
<1>14. RunSound'
  BY <1>2, <1>9, <1>12, <1>13 DEF StoreInv, RunSound, InBatch
<1>15. NeverRejected'
  <2>1. Held(Expired) \subseteq Held(Expired)'
    BY <1>2 DEF Held, Expired
  <2> QED
    BY <1>2, <2>1 DEF StoreInv, NeverRejected
<1> QED
  BY <1>6, <1>7, <1>8, <1>10, <1>14, <1>15 DEF StoreInv

LEMMA ClockKeeps == ASSUME StoreInv, Tick PROVE StoreInv'
<1>1. /\ now \in Nat /\ saves \in Nat /\ snaps \in SUBSET SnapRows /\ saving \in [Writers -> SavingRows]
  BY DEF StoreInv, StoreTyped
<1>2. /\ now' = now + 1 /\ UNCHANGED <<saves, empty, snaps, ticked, scored, saving, prune>>
      /\ \A w \in Writers : saving[w].pc # "idle" => now < saving[w].snap.time + SaveTime
  BY DEF Tick, rows
<1>3. Cutoff(DetailDays) \in Nat /\ Cutoff(DetailDays)' \in Nat /\ Cutoff(DetailDays)' >= Cutoff(DetailDays)
  BY <1>1, <1>2, StoreNumbers DEF Cutoff
<1>4. RunSound' /\ NeverRejected'
  BY <1>2, <1>3, RunStays
<1>5. StoreTyped' /\ RowsDistinct'
  BY <1>1, <1>2 DEF StoreInv, StoreTyped, RowsDistinct, Distinct
<1>6. SavesRecent'
  <2>1. \A w \in Writers : saving[w].snap.time \in Nat
    BY <1>1 DEF SavingRows, SnapRows
  <2> QED
    BY <1>1, <1>2, <2>1, StoreNumbers DEF SavesRecent
<1>7. DetailsKept'
  <2>1. \A s \in snaps : s.time \in Nat
    BY <1>1 DEF SnapRows
  <2> QED
    BY <1>2, <1>3, <2>1 DEF StoreInv, DetailsKept
<1> QED
  BY <1>4, <1>5, <1>6, <1>7 DEF StoreInv

LEMMA CrashKeeps == ASSUME StoreInv, StoreCrash PROVE StoreInv'
<1>1. /\ prune' = NoPrune /\ saving' = [saving EXCEPT !["worker"] = NoSave]
      /\ UNCHANGED <<now, saves, empty, snaps, ticked, scored>>
  BY DEF StoreCrash, rows
<1>2. saves \in Nat
  BY DEF StoreInv, StoreTyped
<1>3. saves' \in Nat /\ saves' >= saves
  BY <1>1, <1>2
<1>4. "worker" \in Writers
  BY StoreWords
<1> QED
  BY <1>1, <1>3, <1>4, OneSave, NoneTyped

-----------------------------------------------------------------------------
(* The job moves on: what it is about is said by its new record alone.     *)
LEMMA JobMoves ==
  ASSUME StoreInv, UNCHANGED <<now, saves, saving>>, prune' \in PruneRows, snaps' \subseteq snaps,
         ticked' \subseteq ticked, scored' \subseteq scored, RunSound', NeverRejected', DetailsKept'
  PROVE  StoreInv'
<1>1. StoreTyped'
  <2>1. IsFiniteSet(snaps')
    BY FS_Subset DEF StoreInv, StoreTyped
  <2> QED
    BY <2>1, StoreWords DEF StoreInv, StoreTyped
<1>2. RowsDistinct'
  BY DEF StoreInv, RowsDistinct, Distinct
<1>3. SavesRecent'
  BY DEF StoreInv, SavesRecent
<1> QED
  BY <1>1, <1>2, <1>3 DEF StoreInv

LEMMA SameDetails ==
  ASSUME StoreInv, UNCHANGED <<now, empty, ticked, scored>>, snaps' \subseteq snaps PROVE DetailsKept'
BY DEF StoreInv, DetailsKept, Cutoff

LEMMA StartKeeps == ASSUME StoreInv, PruneStart PROVE StoreInv'
<1> DEFINE a == Cutoff(DetailDays)
           b == Cutoff(SpotRetention)
<1>1. UNCHANGED <<now, saves, empty, snaps, ticked, scored, saving>>
  BY DEF PruneStart, rows
<1>2. now \in Nat
  BY DEF StoreInv, StoreTyped
<1>3. a \in Nat /\ b \in Nat /\ b <= a
  BY <1>2, CutoffTyped, SpotIsLonger, StoreNumbers
<1>4. Cutoff(DetailDays)' = a
  BY <1>1 DEF Cutoff
<1>5. prune' = [pc |-> "list", ids |-> {}, batches |-> 0, capped |-> FALSE, detail |-> a, spot |-> b]
  BY DEF PruneStart, NoPrune
<1> HIDE DEF a, b
<1>6. prune' \in PruneRows
  BY <1>3, <1>5, StoreWords DEF PruneRows
<1>7. RunSound' /\ NeverRejected'
  BY <1>3, <1>4, <1>5 DEF RunSound, InBatch, NeverRejected
<1>8. DetailsKept'
  BY <1>1, SameDetails
<1> QED
  BY <1>1, <1>6, <1>7, <1>8, JobMoves

LEMMA ListKeeps == ASSUME StoreInv, ListStale PROVE StoreInv'
<1>1. /\ prune.pc = "list" /\ UNCHANGED <<now, saves, empty, snaps, ticked, scored, saving>>
      /\ prune' = IF Stale = {} \/ prune.batches = MaxBatches
                  THEN [prune EXCEPT !.pc = "list rows", !.batches = 0, !.capped = Stale # {}]
                  ELSE [prune EXCEPT !.pc = "detail 1", !.ids = Ids(FirstOf(Stale, BatchSize))]
  BY DEF ListStale, rows
<1>2. prune \in PruneRows /\ snaps \in SUBSET SnapRows /\ IsFiniteSet(snaps)
  BY DEF StoreInv, StoreTyped
<1>3. prune.ids = {} /\ prune.detail <= Cutoff(DetailDays) /\ prune.spot <= prune.detail
  BY <1>1 DEF StoreInv, RunSound, InBatch
<1>4. Cutoff(DetailDays)' = Cutoff(DetailDays)
  BY <1>1 DEF Cutoff
<1>5. CASE Stale = {} \/ prune.batches = MaxBatches
  <2>1. prune' = [prune EXCEPT !.pc = "list rows", !.batches = 0, !.capped = Stale # {}]
    BY <1>1, <1>5
  <2>2. prune' \in PruneRows
    BY <1>2, <2>1, StoreWords DEF PruneRows
  <2>3. /\ prune'.pc = "list rows" /\ prune'.ids = {} /\ prune'.detail = prune.detail
        /\ prune'.spot = prune.spot /\ prune'.capped = (Stale # {})
    BY <1>2, <1>3, <2>1 DEF PruneRows
  <2>4. Stale' = Stale
    BY <1>1, <2>3 DEF Stale
  <2>5. RunSound' /\ NeverRejected'
    BY <1>3, <1>4, <2>3, <2>4 DEF RunSound, InBatch, NeverRejected
  <2> QED
    BY <1>1, <2>2, <2>5, SameDetails, JobMoves
<1>6. CASE ~(Stale = {} \/ prune.batches = MaxBatches)
  <2> DEFINE first == FirstOf(Stale, BatchSize)
  <2>1. prune' = [prune EXCEPT !.pc = "detail 1", !.ids = Ids(first)]
    BY <1>1, <1>6
  <2>2. Stale \in SUBSET snaps /\ IsFiniteSet(Stale) /\ first \in SUBSET Stale
    BY <1>2, FS_Subset DEF Stale, FirstOf
  <2>3. Ids(first) \in IdSets
    BY <1>2, <2>2, StoreWords DEF Ids, SnapRows
  <2>4. prune' \in PruneRows
    BY <1>2, <2>1, <2>3, StoreWords DEF PruneRows
  <2>5. /\ prune'.pc = "detail 1" /\ prune'.ids = Ids(first) /\ prune'.detail = prune.detail
        /\ prune'.spot = prune.spot
    BY <1>2, <2>1 DEF PruneRows
  <2>6. \A i \in Ids(first) : \E s \in snaps : s.id = i /\ s.time < prune.detail
    BY <2>2 DEF Ids, Stale
  <2>7. Cardinality(Ids(first)) = Cardinality(first)
    <3>1. IsFiniteSet(first) /\ Distinct(first)
      BY <2>2, FS_Subset DEF StoreInv, RowsDistinct, Distinct
    <3> HIDE DEF first
    <3> QED
      BY <3>1, IdsCount
  <2>8. Cardinality(Ids(first)) < BatchSize => first = Stale
    BY <1>2, <2>2, <2>7, FirstAreAll, StoreNumbers
  <2>9. Cardinality(Ids(first)) < BatchSize => \A s \in Stale : s.id \in Ids(first)
    BY <2>8 DEF Ids
  <2>10. Stale' = Stale
    BY <1>1, <2>5 DEF Stale
  <2> HIDE DEF first
  <2>11. RunSound' /\ NeverRejected'
    BY <1>1, <1>3, <1>4, <2>5, <2>6, <2>9, <2>10 DEF RunSound, InBatch, NeverRejected
  <2> QED
    BY <1>1, <2>4, <2>11, SameDetails, JobMoves
<1> QED
  BY <1>5, <1>6

LEMMA ScoresKeep == ASSUME StoreInv, PruneScores PROVE StoreInv'
<1>1. /\ prune.pc = "detail 1" /\ prune' = [prune EXCEPT !.pc = "detail 2"]
      /\ scored' = scored \ prune.ids /\ UNCHANGED <<now, saves, empty, snaps, ticked, saving>>
  BY DEF PruneScores, DeleteDetail, DeleteScores
<1>2. prune \in PruneRows /\ snaps \in SUBSET SnapRows /\ now \in Nat
  BY DEF StoreInv, StoreTyped
<1>3. prune' \in PruneRows
  BY <1>1, <1>2, StoreWords DEF PruneRows
<1>4. prune'.pc = "detail 2" /\ prune'.ids = prune.ids /\ prune'.detail = prune.detail /\ prune'.spot = prune.spot
  BY <1>1, <1>2 DEF PruneRows
<1>5. Stale' = Stale /\ Cutoff(DetailDays)' = Cutoff(DetailDays)
  BY <1>1, <1>4 DEF Stale, Cutoff
<1>6. RunSound' /\ NeverRejected'
  BY <1>1, <1>4, <1>5 DEF StoreInv, RunSound, InBatch, NeverRejected
<1>7. DetailsKept'
  <2>1. \A s \in snaps : s.id \in prune.ids => s.time < Cutoff(DetailDays)
    <3> SUFFICES ASSUME NEW s \in snaps, s.id \in prune.ids PROVE s.time < Cutoff(DetailDays)
      OBVIOUS
    <3>1. s.time < prune.detail /\ prune.detail <= Cutoff(DetailDays)
      BY DEF StoreInv, RunSound, RowsDistinct, Distinct
    <3>2. s.time \in Nat /\ prune.detail \in Nat /\ Cutoff(DetailDays) \in Nat
      BY <1>2, CutoffTyped, StoreNumbers DEF SnapRows, PruneRows
    <3> QED
      BY <3>1, <3>2
  <2> QED
    BY <1>1, <1>5, <2>1 DEF StoreInv, DetailsKept
<1> QED
  BY <1>1, <1>3, <1>6, <1>7, JobMoves

LEMMA TicksKeep == ASSUME StoreInv, PruneTicks PROVE StoreInv'
<1>1. /\ prune.pc = "detail 2"
      /\ prune' = IF Cardinality(prune.ids) < BatchSize
                  THEN [prune EXCEPT !.pc = "list rows", !.batches = 0, !.ids = {}]
                  ELSE [prune EXCEPT !.pc = "list", !.batches = @ + 1, !.ids = {}]
      /\ DeleteDetail(2) /\ UNCHANGED <<now, saves, empty, snaps, saving>>
  BY DEF PruneTicks
<1>d. ticked' = ticked \ prune.ids /\ UNCHANGED scored
  <2>1. DeleteDetail(2)
    BY <1>1
  <2>2. DeleteTicks
    BY <2>1 DEF DeleteDetail
  <2> QED
    BY <2>2 DEF DeleteTicks
<1>2. prune \in PruneRows /\ snaps \in SUBSET SnapRows /\ now \in Nat
  BY DEF StoreInv, StoreTyped
<1>3. /\ prune' \in PruneRows /\ prune'.ids = {} /\ prune'.detail = prune.detail /\ prune'.spot = prune.spot
      /\ prune'.pc \in {"list", "list rows"}
      /\ prune'.pc = "list rows" => Cardinality(prune.ids) < BatchSize
  <2>1. CASE Cardinality(prune.ids) < BatchSize
    <3>1. prune' = [prune EXCEPT !.pc = "list rows", !.batches = 0, !.ids = {}]
      BY <1>1, <2>1
    <3> QED
      BY <1>2, <2>1, <3>1, StoreWords DEF PruneRows
  <2>2. CASE ~(Cardinality(prune.ids) < BatchSize)
    <3>1. prune' = [prune EXCEPT !.pc = "list", !.batches = @ + 1, !.ids = {}]
      BY <1>1, <2>2
    <3>2. prune.batches + 1 \in Nat
      BY <1>2 DEF PruneRows
    <3> QED
      BY <1>2, <3>1, <3>2, StoreWords DEF PruneRows
  <2> QED
    BY <2>1, <2>2
<1>4. Cutoff(DetailDays)' = Cutoff(DetailDays)
  BY <1>1 DEF Cutoff
<1>5. prune'.pc = "list rows" => Stale' = {}
  <2> SUFFICES ASSUME Cardinality(prune.ids) < BatchSize PROVE Stale' = {}
    BY <1>3
  <2>1. \A s \in Stale : s.id \in prune.ids
    BY <1>1 DEF StoreInv, RunSound, InBatch
  <2> QED
    BY <1>1, <1>3, <1>d, <2>1 DEF Stale
<1>6. RunSound' /\ NeverRejected'
  BY <1>3, <1>4, <1>5, <1>d DEF StoreInv, RunSound, InBatch, NeverRejected
<1>7. DetailsKept'
  <2>1. prune.ids \cap scored = {}
    BY <1>1 DEF StoreInv, RunSound
  <2> QED
    BY <1>1, <1>4, <1>d, <2>1 DEF StoreInv, DetailsKept
<1> QED
  BY <1>1, <1>3, <1>6, <1>7, <1>d, JobMoves

(* No row that is old enough to go has details left, unless the first loop *)
(* was cut short or the row is an empty chain's.                           *)
LEMMA RowsKeep == ASSUME StoreInv, DeleteRows PROVE StoreInv'
<1> DEFINE old == FirstOf(Expired, BatchSize)
           held == Ids(old) \cap (ticked \cup scored) # {}
<1>1. prune.pc = "list rows" /\ UNCHANGED <<now, saves, empty, ticked, scored, saving>>
  BY DEF DeleteRows
<1>2. prune \in PruneRows /\ snaps \in SUBSET SnapRows
  BY DEF StoreInv, StoreTyped
<1>3. /\ prune.ids = {} /\ prune.detail <= Cutoff(DetailDays) /\ prune.spot <= prune.detail
      /\ ~prune.capped => Stale = {}
  BY <1>1 DEF StoreInv, RunSound, InBatch
<1>4. held => prune.capped \/ Held(Expired) # {}
  <2> SUFFICES ASSUME NEW s \in snaps, s.time < prune.spot, s.id \in ticked \cup scored
               PROVE  prune.capped \/ Held(Expired) # {}
    BY DEF Ids, FirstOf, Expired
  <2>1. CASE s.id \in ticked
    <3>1. s.time < prune.detail
      BY <1>2, <1>3 DEF SnapRows, PruneRows
    <3> QED
      BY <1>3, <2>1, <3>1 DEF Stale
  <2>2. CASE s.id \notin ticked
    BY <2>2 DEF StoreInv, DetailsKept, Held, Expired
  <2> QED
    BY <2>1, <2>2
<1>5. \/ prune' = [prune EXCEPT !.pc = "rejected"] /\ snaps' = snaps /\ held
      \/ (prune' = NoPrune \/ prune' = [prune EXCEPT !.batches = @ + 1]) /\ snaps' \subseteq snaps
  BY DEF DeleteRows
<1>6. Cutoff(DetailDays)' = Cutoff(DetailDays) /\ Cutoff(DetailDays) \in Nat
  BY <1>1, CutoffTyped, StoreNumbers DEF Cutoff, StoreInv, StoreTyped
<1>7. DetailsKept' /\ snaps' \subseteq snaps
  BY <1>1, <1>5, SameDetails
<1> HIDE DEF held
<1>8. CASE prune' = [prune EXCEPT !.pc = "rejected"] /\ snaps' = snaps /\ held
  <2>1. /\ prune' \in PruneRows /\ prune'.ids = {} /\ prune'.pc = "rejected" /\ prune'.capped = prune.capped
        /\ prune'.detail = prune.detail /\ prune'.spot = prune.spot
    BY <1>2, <1>3, <1>8, StoreWords DEF PruneRows
  <2>2. Held(Expired)' = Held(Expired)
    BY <1>1, <1>8, <2>1 DEF Held, Expired
  <2>3. RunSound' /\ NeverRejected'
    BY <1>3, <1>4, <1>6, <1>8, <2>1, <2>2 DEF RunSound, InBatch, NeverRejected
  <2> QED
    BY <1>1, <1>7, <2>1, <2>3, JobMoves
<1>9. CASE prune' = NoPrune
  <2>1. RunSound' /\ NeverRejected'
    BY <1>6, <1>9 DEF RunSound, InBatch, NeverRejected, NoPrune
  <2> QED
    BY <1>1, <1>7, <1>9, <2>1, JobMoves, NoneTyped
<1>10. CASE prune' = [prune EXCEPT !.batches = @ + 1]
  <2>0. prune.batches + 1 \in Nat
    BY <1>2 DEF PruneRows
  <2>1. /\ prune' \in PruneRows /\ prune'.ids = {} /\ prune'.pc = "list rows" /\ prune'.capped = prune.capped
        /\ prune'.detail = prune.detail /\ prune'.spot = prune.spot
    BY <1>1, <1>2, <1>3, <1>10, <2>0 DEF PruneRows
  <2>2. Stale' \subseteq Stale
    BY <1>1, <1>7, <2>1 DEF Stale
  <2>3. RunSound' /\ NeverRejected'
    BY <1>3, <1>6, <2>1, <2>2 DEF RunSound, InBatch, NeverRejected
  <2> QED
    BY <1>1, <1>7, <2>1, <2>3, JobMoves
<1> QED
  BY <1>5, <1>8, <1>9, <1>10

LEMMA StoreStepInv == StoreInv /\ [StoreNext]_storeVars => StoreInv'
<1> SUFFICES ASSUME StoreInv, [StoreNext]_storeVars PROVE StoreInv'
  OBVIOUS
<1>0. Cutoff(DetailDays) \in Nat
  BY CutoffTyped, StoreNumbers DEF StoreInv, StoreTyped
<1>1. CASE PruneFailed
  <2>1. prune' = NoPrune /\ UNCHANGED <<now, saves, empty, snaps, ticked, scored, saving>>
    BY <1>1 DEF PruneFailed, rows
  <2>2. Cutoff(DetailDays)' = Cutoff(DetailDays)
    BY <2>1 DEF Cutoff
  <2>3. RunSound' /\ NeverRejected' /\ prune' \in PruneRows
    BY <1>0, <2>1, <2>2, RunStays
  <2> QED
    BY <2>1, <2>3, SameDetails, JobMoves
<1>2. CASE UNCHANGED storeVars
  <2>1. UNCHANGED <<now, saves, empty, snaps, ticked, scored, saving, prune>>
    BY <1>2 DEF storeVars
  <2>2. Cutoff(DetailDays)' = Cutoff(DetailDays)
    BY <2>1 DEF Cutoff
  <2>3. RunSound' /\ NeverRejected' /\ prune' \in PruneRows
    BY <1>0, <2>1, <2>2, RunStays
  <2> QED
    BY <2>1, <2>3, SameDetails, JobMoves
<1>3. CASE PruneStep
  BY <1>1, <1>3, StartKeeps, ListKeeps, ScoresKeep, TicksKeep, RowsKeep DEF PruneStep
<1>4. ASSUME NEW w \in Writers, Save(w) \/ \E e \in ExpiryDays : Fetch(w, e) PROVE StoreInv'
  BY <1>4, SaveKeeps, InsertKeeps DEF Save
<1> QED
  BY <1>2, <1>3, <1>4, ClockKeeps, CrashKeeps DEF StoreNext

LEMMA StoreHolds == StoreInv => NeverRejected /\ KeptDaysReplay
<1> SUFFICES ASSUME StoreInv PROVE KeptDaysReplay
  BY DEF StoreInv
<1> SUFFICES ASSUME NEW s \in snaps, s.time >= Cutoff(DetailDays) PROVE s.id \in (ticked \cup empty) \cap scored
  BY DEF KeptDaysReplay, ReplaySnapshots
<1>1. s.time \in Nat /\ Cutoff(DetailDays) \in Nat
  BY CutoffTyped, StoreNumbers DEF StoreInv, StoreTyped, SnapRows
<1> QED
  BY <1>1 DEF StoreInv, DetailsKept

-----------------------------------------------------------------------------
(* The day's oldest row, and the one that a late save may put before it.   *)
NotAfter(s, t) == s.time < t.time \/ (s.time = t.time /\ s.id <= t.id)

LEMMA OldestIs ==
  ASSUME NEW S \in SUBSET SnapRows, S # {} PROVE Oldest(S) \in S /\ \A t \in S : NotAfter(Oldest(S), t)
<1>0. \A s \in S : s.time \in Nat /\ s.id \in Nat
  BY DEF SnapRows
<1> DEFINE T == {s.time : s \in S}
<1>1. T \in SUBSET Nat /\ T # {}
  BY <1>0
<1>2. PICK m \in T : \A k \in T : m <= k
  <2> HIDE DEF T
  <2> QED
    BY <1>1, Least
<1> DEFINE U == {s.id : s \in {t \in S : t.time = m}}
<1>3. U \in SUBSET Nat /\ U # {}
  BY <1>0, <1>2
<1>4. PICK i \in U : \A k \in U : i <= k
  <2> HIDE DEF U
  <2> QED
    BY <1>3, Least
<1>5. PICK o \in S : o.time = m /\ o.id = i
  BY <1>4
<1>6. ASSUME NEW t \in S PROVE NotAfter(o, t)
  <2>1. m <= t.time /\ (t.time = m => i <= t.id)
    BY <1>2, <1>4
  <2> QED
    BY <1>0, <1>5, <2>1 DEF NotAfter
<1> HIDE DEF T, U
<1>7. \A s, t \in S : NotAfter(s, t) <=> \/ <<s.time, s.id>> = <<t.time, t.id>> \/ s.time < t.time
                                         \/ (s.time = t.time /\ s.id < t.id)
  BY <1>0 DEF NotAfter
<1>8. \E s \in S : \A t \in S : \/ <<s.time, s.id>> = <<t.time, t.id>> \/ s.time < t.time
                                \/ (s.time = t.time /\ s.id < t.id)
  BY <1>6, <1>7
<1>9. Oldest(S) \in S /\ \A t \in S : \/ <<Oldest(S).time, Oldest(S).id>> = <<t.time, t.id>>
                                      \/ Oldest(S).time < t.time \/ (Oldest(S).time = t.time /\ Oldest(S).id < t.id)
  BY <1>8, Zenon DEF Oldest
<1> QED
  BY <1>7, <1>9

LEMMA OldestOne ==
  ASSUME NEW S \in SUBSET SnapRows, Distinct(S), NEW o \in S, \A t \in S : NotAfter(o, t)
  PROVE  Oldest(S) = o
<1>1. Oldest(S) \in S /\ NotAfter(Oldest(S), o) /\ NotAfter(o, Oldest(S))
  BY OldestIs
<1>2. PICK p \in S : p = Oldest(S)
  BY <1>1
<1>3. p.id \in Nat /\ p.time \in Nat /\ o.id \in Nat /\ o.time \in Nat
  BY DEF SnapRows
<1>4. p.id = o.id
  BY <1>1, <1>2, <1>3 DEF NotAfter
<1> QED
  BY <1>2, <1>4 DEF Distinct

(* Two moments a day apart are not on one day.                             *)
LEMMA OtherDay ==
  ASSUME NEW t \in Nat, NEW u \in Nat, t + DayLen <= u PROVE DayOf(t) # DayOf(u)
<1>1. DayLen \in Nat /\ DayLen > 0
  BY StoreConstants
<1> SUFFICES ASSUME DayOf(t) = DayOf(u) PROVE FALSE
  OBVIOUS
<1>2. PICK q \in Int : q = t \div DayLen /\ q = u \div DayLen
  BY <1>1 DEF DayOf
<1>3. PICK p \in Int : p = DayLen * q
  BY <1>1
<1>4. t = p + (t % DayLen) /\ u = p + (u % DayLen)
  BY <1>1, <1>2, <1>3
<1>5. t % DayLen \in 0..(DayLen - 1) /\ u % DayLen \in 0..(DayLen - 1)
  BY <1>1
<1> QED
  BY <1>1, <1>4, <1>5

(* What is put in is newer, or was under way when the day's oldest row was *)
(* written; and what goes is of an earlier day.                            *)
LEMMA AnchorStays ==
  ASSUME DayLen <= DetailDays, StoreInv, [StoreNext]_storeVars, RowsDistinct',
         NEW e \in ExpiryDays, NEW day \in 0..StoreMaxTime, day = DayOf(now), NEW a \in SessionOpen(e, day)
  PROVE  \/ SessionOpen(e, day)' = {a}
         \/ /\ now <= a.time + SaveTime
            /\ \E w \in Writers : SessionOpen(e, day)' = {saving[w].snap} /\ saving[w].snap.time <= a.time
<1> DEFINE Rows(S) == {s \in S : s.expiry = e /\ DayOf(s.time) = day}
           S0 == Rows(snaps)
           S1 == Rows(snaps')
<1>1. /\ now \in Nat /\ snaps \in SUBSET SnapRows /\ saving \in [Writers -> SavingRows] /\ prune \in PruneRows
      /\ Distinct(snaps) /\ Distinct(snaps')
  BY DEF StoreInv, StoreTyped, RowsDistinct
<1>2. /\ SessionOpen(e, day) = {s \in S0 : s = Oldest(S0)}
      /\ SessionOpen(e, day)' = {s \in S1 : s = Oldest(S1)}
  BY DEF SessionOpen, DayOf
<1>3. a \in S0 /\ a = Oldest(S0) /\ S0 \in SUBSET SnapRows /\ S0 # {}
  BY <1>1, <1>2
<1>4. \A t \in S0 : NotAfter(a, t)
  <2> HIDE DEF S0
  <2> QED
    BY <1>3, OldestIs
<1>5. a \in SnapRows /\ a.id \in Nat /\ a.time \in Nat /\ DayOf(a.time) = day
  BY <1>3 DEF SnapRows
<1>6. ASSUME NEW o \in S1, S1 \in SUBSET SnapRows, \A t \in S1 : NotAfter(o, t)
      PROVE  SessionOpen(e, day)' = {o}
  <2>1. Distinct(S1)
    BY <1>1 DEF Distinct
  <2> HIDE DEF S1
  <2>2. Oldest(S1) = o
    BY <1>6, <2>1, OldestOne
  <2> QED
    BY <1>2, <1>6, <2>2
<1>7. CASE snaps' = snaps
  <2>1. S1 = S0
    BY <1>7
  <2> QED
    BY <1>3, <1>4, <1>6, <2>1
<1>8. ASSUME NEW w \in Writers, InsertSnapshot(w)
      PROVE  \/ SessionOpen(e, day)' = {a}
             \/ now <= a.time + SaveTime /\ SessionOpen(e, day)' = {saving[w].snap} /\ saving[w].snap.time <= a.time
  <2> DEFINE x == saving[w].snap
  <2>1. snaps' = snaps \cup {x} /\ saving[w].pc # "idle"
    BY <1>8 DEF InsertSnapshot
  <2>2. x \in SnapRows /\ x.id \in Nat /\ x.time \in Nat
    BY <1>1 DEF SavingRows, SnapRows
  <2>3. now <= x.time + SaveTime /\ SaveTime \in Nat
    BY <2>1, StoreNumbers DEF StoreInv, SavesRecent
  <2> HIDE DEF x
  <2>4. S1 \in SUBSET SnapRows /\ a \in S1 /\ \A t \in S1 : t \in S0 \/ t = x
    BY <1>1, <1>3, <2>1, <2>2
  <2>5. CASE x \notin S1 \/ NotAfter(a, x)
    <3>1. \A t \in S1 : NotAfter(a, t)
      BY <1>4, <2>4, <2>5
    <3> QED
      BY <1>6, <2>4, <3>1
  <2>6. CASE x \in S1 /\ ~NotAfter(a, x)
    <3>1. NotAfter(x, a) /\ x.time <= a.time
      BY <1>5, <2>2, <2>6 DEF NotAfter
    <3>2. \A t \in S0 : t.id \in Nat /\ t.time \in Nat
      BY <1>3 DEF SnapRows
    <3>3. \A t \in S0 : NotAfter(x, t)
      BY <1>4, <1>5, <2>2, <3>1, <3>2 DEF NotAfter
    <3>4. NotAfter(x, x)
      BY <2>2 DEF NotAfter
    <3>5. \A t \in S1 : NotAfter(x, t)
      BY <2>4, <3>3, <3>4
    <3>6. SessionOpen(e, day)' = {x}
      BY <1>6, <2>4, <2>6, <3>5
    <3>7. now <= a.time + SaveTime
      BY <1>1, <1>5, <2>2, <2>3, <3>1
    <3> QED
      BY <3>1, <3>6, <3>7 DEF x
  <2> QED
    BY <2>5, <2>6
<1>9. CASE DeleteRows
  <2>1. snaps' \subseteq snaps /\ \A s \in snaps \ snaps' : s.time < prune.spot
    BY <1>9 DEF DeleteRows, FirstOf, Expired
  <2>2. a \in snaps'
    <3> SUFFICES ASSUME a \notin snaps' PROVE FALSE
      OBVIOUS
    <3>1. a.time < prune.spot /\ prune.spot <= prune.detail /\ prune.detail <= Cutoff(DetailDays)
      BY <1>3, <2>1 DEF StoreInv, RunSound
    <3>2. a.time \in Nat /\ prune.spot \in Nat /\ prune.detail \in Nat /\ DetailDays \in Nat /\ DayLen \in Nat
      BY <1>1, <1>5, StoreConstants DEF PruneRows
    <3>3. Cutoff(DetailDays) \in Nat
      BY <1>1, <3>2, CutoffTyped
    <3>4. a.time < Cutoff(DetailDays)
      BY <3>1, <3>2, <3>3
    <3>5. a.time + DayLen <= now
      BY <1>1, <3>2, <3>4 DEF Cutoff
    <3>6. DayOf(a.time) # DayOf(now)
      BY <1>1, <3>2, <3>5, OtherDay
    <3> QED
      BY <1>5, <3>6
  <2>3. a \in S1 /\ S1 \subseteq S0
    BY <1>3, <2>1, <2>2
  <2> QED
    BY <1>3, <1>4, <1>6, <2>3
<1>10. snaps' = snaps \/ (\E w \in Writers : InsertSnapshot(w)) \/ DeleteRows
  BY DEF StoreNext, Save, Fetch, UpsertMetadata, SaveFails, PruneStep, PruneStart, ListStale, PruneScores,
     PruneTicks, PruneFailed, StoreCrash, Tick, rows, storeVars
<1> QED
  BY <1>7, <1>8, <1>9, <1>10

(* The row a day's moves are measured from, with details kept for a day or *)
(* more, for any writers, rows, batches, restarts and slow saves: it stays *)
(* once a save's time has passed, and until then gives way only to a save  *)
(* that was under way.                                                     *)
THEOREM AnchorsHold ==
  ASSUME DayLen <= DetailDays PROVE StoreSpec => AnchorHolds
<1>1. StoreSpec => []StoreInv
  BY StoreInitInv, StoreStepInv, PTL DEF StoreSpec
<1>2. StoreInv /\ [StoreNext]_storeVars =>
        [\A e \in ExpiryDays, day \in 0..StoreMaxTime : \A a \in SessionOpen(e, day) :
           day = DayOf(now) =>
             \/ SessionOpen(e, day)' = {a}
             \/ /\ now <= a.time + SaveTime
                /\ \E w \in Writers : SessionOpen(e, day)' = {saving[w].snap}
                                       /\ saving[w].snap.time <= a.time]_storeVars
  BY StoreStepInv, AnchorStays DEF StoreInv
<1> QED
  BY <1>1, <1>2, PTL DEF StoreSpec, AnchorHolds

-----------------------------------------------------------------------------
(* A scan that is to insert an alert has found no recent one, and there is *)
(* no other scan; none is under way while the switch is off.               *)
ScanRow(row) == row = [at |-> row.at, left |-> row.left, met |-> row.met]
ScanInv ==
  /\ ScanRow(scan)
  /\ age \in [Symbols3 -> 0..Old]
  /\ scan.at = "insert" =>
       \A s \in Symbols3 : s = Head(scan.left) => age[s] > AlertCooldown
  /\ SwitchHolds

LEMMA LookTyped ==
  ASSUME NEW row, ScanRow(row), NEW left
  PROVE  LET look == [row EXCEPT !.at = "look", !.left = left] IN ScanRow(look) /\ look.at = "look"
<1> DEFINE mid == [row EXCEPT !.at = "look"]
           look == [mid EXCEPT !.left = left]
<1>1. mid = [at |-> "look", left |-> row.left, met |-> row.met]
  BY DEF ScanRow
<1>2. look = [at |-> "look", left |-> left, met |-> row.met]
  <2> HIDE DEF mid
  <2> QED
    BY <1>1
<1>3. [row EXCEPT !.at = "look", !.left = left] = look
  OBVIOUS
<1> HIDE DEF look
<1> QED
  BY <1>2, <1>3 DEF ScanRow

LEMMA ScanInitInv == ScanInit => ScanInv
BY ScanAssumption DEF ScanInit, ScanInv, ScanRow, Old, SwitchHolds, NoScan

LEMMA ScanStepInv == ScanInv /\ [ScanNext]_scanVars => ScanInv'
<1> SUFFICES ASSUME ScanInv, [ScanNext]_scanVars PROVE ScanInv'
  OBVIOUS
<1>0. age \in [Symbols3 -> 0..Old] /\ Old = AlertCooldown + 1 /\ AlertCooldown \in Nat
  BY ScanAssumption DEF ScanInv, Old
<1>r. ScanRow(scan)
  BY DEF ScanInv
<1>n. ScanRow(NoScan) /\ NoScan.at = "idle"
  BY DEF ScanRow, NoScan
<1>1. CASE UNCHANGED <<age, scan, scanOn>>
  BY <1>1 DEF ScanInv, SwitchHolds
<1>2. CASE ScanTime
  <2>1. \A s \in Symbols3 : age'[s] \in 0..Old /\ (age[s] > AlertCooldown => age'[s] > AlertCooldown)
    BY <1>0, <1>2 DEF ScanTime
  <2>2. age' \in [Symbols3 -> 0..Old]
    BY <1>2, <2>1 DEF ScanTime
  <2> QED
    BY <1>2, <2>1, <2>2 DEF ScanTime, ScanInv, SwitchHolds
<1>3. ASSUME age' \in [Symbols3 -> 0..Old], ScanRow(scan'), scan'.at # "insert", ~scanOn' => scan'.at = "idle"
      PROVE  ScanInv'
  BY <1>3 DEF ScanInv, SwitchHolds
<1>4. CASE ScanTake
  <2> DEFINE look == [NoScan EXCEPT !.at = "look", !.left = ToScan]
  <2>1. ScanRow(look) /\ look.at = "look"
    BY <1>n, LookTyped
  <2>2. UNCHANGED <<age, scanOn>> /\ scan' = IF MayScan /\ ToScan # <<>> THEN look ELSE NoScan
    BY <1>4 DEF ScanTake
  <2> HIDE DEF look
  <2> QED
    BY <1>0, <1>3, <1>n, <2>1, <2>2 DEF MayScan
<1>5. ASSUME NEW left PROVE ScanRow(ScanOn(left)) /\ ScanOn(left).at \in {"idle", "look"}
  <2> DEFINE look == [scan EXCEPT !.at = "look", !.left = left]
  <2>1. ScanRow(look) /\ look.at = "look"
    BY <1>r, LookTyped
  <2>2. ScanOn(left) = IF left = <<>> THEN NoScan ELSE look
    BY DEF ScanOn
  <2> HIDE DEF look
  <2> QED
    BY <1>n, <2>1, <2>2
<1>6. CASE ScanLook
  <2>1. UNCHANGED <<age, scanOn>> /\ scanOn
    BY <1>6 DEF ScanLook, ScanInv, SwitchHolds
  <2>2. \/ scan' = ScanOn(Tail(scan.left))
        \/ scan' = [scan EXCEPT !.at = "insert"] /\ ~Recent(Head(scan.left))
    BY <1>6, Zenon DEF ScanLook, AfterError
  <2>3. CASE scan' = ScanOn(Tail(scan.left))
    BY <1>0, <1>3, <1>5, <2>1, <2>3
  <2>4. CASE scan' = [scan EXCEPT !.at = "insert"] /\ ~Recent(Head(scan.left))
    <3>1. ScanRow(scan') /\ scan'.left = scan.left
      BY <1>r, <2>4 DEF ScanRow
    <3>2. \A s \in Symbols3 : s = Head(scan.left) => age[s] > AlertCooldown
      BY <1>0, <2>4 DEF Recent
    <3> QED
      BY <1>0, <2>1, <3>1, <3>2 DEF ScanInv, SwitchHolds
  <2> QED
    BY <2>2, <2>3, <2>4
<1>7. CASE ScanInsert
  <2> DEFINE next == ScanOn(Tail(scan.left))
             met == [next EXCEPT !.met = @ \cup {Head(scan.left)}]
  <2>a. age' = [age EXCEPT ![Head(scan.left)] = 0]
    BY <1>7 DEF ScanInsert
  <2>1. age' \in [Symbols3 -> 0..Old]
    <3>1. 0 \in 0..Old
      BY <1>0
    <3> QED
      BY <1>0, <2>a, <3>1, Zenon
  <2>b. scanOn' = scanOn /\ scan' = IF next = NoScan THEN NoScan ELSE met
    BY <1>7 DEF ScanInsert
  <2>2. scanOn
    BY <1>7 DEF ScanInsert, ScanInv, SwitchHolds
  <2>3. ScanRow(next) /\ next.at \in {"idle", "look"}
    BY <1>5
  <2> HIDE DEF next
  <2>4. ScanRow(met) /\ met.at \in {"idle", "look"}
    BY <2>3 DEF ScanRow
  <2> HIDE DEF met
  <2> QED
    BY <1>3, <1>n, <2>1, <2>2, <2>4, <2>b
<1>8. ASSUME NEW on, NEW removed, ScanRestart(on, removed) PROVE ScanInv'
  BY <1>0, <1>3, <1>8, <1>n DEF ScanRestart
<1> QED
  BY <1>1, <1>2, <1>4, <1>6, <1>7, <1>8
     DEF ScanNext, ScanStep, scanVars, Weather, SyncLots, SyncStocks, ScanDue, QuoteCaptured

LEMMA ScanOnce ==
  ScanInv /\ [ScanNext]_scanVars =>
    [\A s \in Symbols3 : age'[s] = 0 /\ age[s] # 0 => age[s] > AlertCooldown]_scanVars
<1> SUFFICES ASSUME ScanInv, [ScanNext]_scanVars, NEW s \in Symbols3, age'[s] = 0, age[s] # 0
             PROVE  age[s] > AlertCooldown
  OBVIOUS
<1>0. age \in [Symbols3 -> 0..Old] /\ Old = AlertCooldown + 1 /\ AlertCooldown \in Nat
  BY ScanAssumption DEF ScanInv, Old
<1>1. ~ScanTime
  BY <1>0 DEF ScanTime
<1>2. CASE ScanInsert
  <2>1. s = Head(scan.left)
    BY <1>0, <1>2 DEF ScanInsert
  <2> QED
    BY <1>2, <2>1 DEF ScanInsert, ScanInv
<1> QED
  BY <1>1, <1>2 DEF ScanNext, ScanStep, scanVars, Weather, SyncLots, SyncStocks, ScanDue, QuoteCaptured,
     ScanTake, ScanLook, ScanRestart

-----------------------------------------------------------------------------
(* The wave count.  The fold of ZigZag has, at every sample, the states of *)
(* one pass over the series; each keeps the pivots that are settled, the   *)
(* running extreme of the leg that is forming, and before the first leg    *)
(* that nothing has moved by the threshold yet.                            *)
Samples == [price : Nat \ {0}, day : Nat, vol : Int]
Series == {s \in Seq(Samples) : Len(s) >= 1}

LEMMA MaxIn ==
  ASSUME NEW n \in Nat, NEW s \in SUBSET (1..n), s # {}
  PROVE  Max(s) \in s /\ \A y \in s : y <= Max(s)
<1> DEFINE T == {m \in Nat : \A y \in s : y <= m}
<1>1. T \in SUBSET Nat /\ n \in T
  OBVIOUS
<1>w. PICK w \in s : w \in Nat
  <2>1. PICK w : w \in s
    OBVIOUS
  <2> QED
    BY <2>1
<1>2. PICK m \in T : \A k \in T : m <= k
  <2> HIDE DEF T
  <2> QED
    BY <1>1, Least
<1>3. m \in s
  <2> SUFFICES ASSUME m \notin s PROVE FALSE
    OBVIOUS
  <2>1. \A y \in s : y < m /\ y >= 1
    OBVIOUS
  <2>2. m - 1 \in Nat /\ \A y \in s : y <= m - 1
    BY <1>w, <2>1
  <2>3. m - 1 \in T
    BY <2>2
  <2>4. m <= m - 1
    BY <1>2, <2>3
  <2> QED
    BY <2>4
<1>4. \E x \in s : \A y \in s : x >= y
  BY <1>3
<1>5. Max(s) \in s /\ \A y \in s : Max(s) >= y
  BY <1>4 DEF Max
<1> QED
  BY <1>5

(* The fold of ZigZag, as FoldLeft defines it: over the positions from the *)
(* largest down.                                                           *)
Later(series) == [k \in 1..(Len(series) - 1) |-> k + 1]
ZigAt(series, it, s) ==
  IF s = {} THEN ZigStart ELSE ZigStep(series, it[s \ {Max(s)}], Later(series)[Max(s)])
Zigs(it, series) == it = [s \in SUBSET DOMAIN Later(series) |-> ZigAt(series, it, s)]
ZigsUpto(it, series, n) == it = [s \in Upto(DOMAIN Later(series), n) |-> ZigAt(series, it, s)]

LEMMA ZigFold ==
  ASSUME NEW series, ~(Len(series) < 2)
  PROVE  ZigZag(series) =
           LET z == (CHOOSE it : Zigs(it, series))[DOMAIN Later(series)]
           IN IF z.trend = "none" THEN <<>>
              ELSE Append(z.pivots, Pivot(series, z.anchor, IF z.trend = "up" THEN "high" ELSE "low"))
BY DEF ZigZag, FoldLeft, MapThenFoldSet, Zigs, ZigAt, Later

LEMMA OneZigMore ==
  ASSUME NEW series \in Series, NEW n \in Nat, NEW it, ZigsUpto(it, series, n)
  PROVE  \E more : ZigsUpto(more, series, n + 1)
<1> DEFINE S == DOMAIN Later(series)
           more == [s \in Upto(S, n + 1) |-> ZigAt(series, it, s)]
<1>0. Len(series) - 1 \in Nat /\ S = 1..(Len(series) - 1) /\ IsFiniteSet(S)
  <2> DEFINE m == Len(series) - 1
  <2>1. m \in Nat /\ S = 1..m
    BY DEF Series, Later
  <2> HIDE DEF m, S
  <2>2. IsFiniteSet(S)
    BY <2>1, FS_Interval
  <2> QED
    BY <2>1, <2>2 DEF m
<1>1. ASSUME NEW s \in Upto(S, n + 1), s # {} PROVE it[s \ {Max(s)}] = more[s \ {Max(s)}]
  <2>1. s \in SUBSET S /\ Max(s) \in s /\ Cardinality(s) <= n + 1
    BY <1>0, <1>1, MaxIn DEF Upto
  <2> DEFINE r == s \ {Max(s)}
  <2> HIDE DEF S
  <2>2. r \in Upto(S, n) /\ r \in Upto(S, n + 1)
    <3>1. PICK x \in s : x = Max(s)
      BY <2>1
    <3>2. /\ s \ {x} \in SUBSET S /\ Cardinality(s) \in Nat /\ Cardinality(s \ {x}) \in Nat
          /\ Cardinality(s \ {x}) = Cardinality(s) - 1
      <4>1. IsFiniteSet(S) /\ s \in SUBSET S
        BY <1>0, <2>1
      <4> HIDE DEF more, r
      <4> QED
        BY <4>1, OneFewer
    <3> QED
      BY <2>1, <3>1, <3>2 DEF Upto
  <2>3. it[r] = ZigAt(series, it, r)
    BY <2>2 DEF ZigsUpto, S
  <2> QED
    BY <2>2, <2>3
<1>2. \A s \in Upto(S, n + 1) : more[s] = ZigAt(series, more, s)
  <2> SUFFICES ASSUME NEW s \in Upto(S, n + 1) PROVE ZigAt(series, it, s) = ZigAt(series, more, s)
    OBVIOUS
  <2> HIDE DEF more
  <2> QED
    BY <1>1 DEF ZigAt
<1>3. more = [s \in Upto(S, n + 1) |-> more[s]]
  OBVIOUS
<1> HIDE DEF more
<1>4. ZigsUpto(more, series, n + 1)
  BY <1>2, <1>3 DEF ZigsUpto
<1> QED
  BY <1>4

LEMMA ZigsExist == ASSUME NEW series \in Series PROVE Zigs(CHOOSE it : Zigs(it, series), series)
<1> DEFINE S == DOMAIN Later(series)
           T == {n \in Nat : ~\E it : ZigsUpto(it, series, n)}
<1>0. Len(series) - 1 \in Nat /\ S = 1..(Len(series) - 1) /\ IsFiniteSet(S)
  <2> DEFINE m == Len(series) - 1
  <2>1. m \in Nat /\ S = 1..m
    BY DEF Series, Later
  <2> HIDE DEF m, S
  <2>2. IsFiniteSet(S)
    BY <2>1, FS_Interval
  <2> QED
    BY <2>1, <2>2 DEF m
<1>1. T = {}
  <2> SUFFICES ASSUME T # {} PROVE FALSE
    OBVIOUS
  <2>1. PICK n \in T : \A m \in T : n <= m
    <3> HIDE DEF T
    <3>1. T \in SUBSET Nat
      BY DEF T
    <3> QED
      BY <3>1, Least
  <2>2. CASE n = 0
    <3> DEFINE none == [s \in Upto(S, 0) |-> ZigStart]
    <3>1. ASSUME NEW s \in Upto(S, 0) PROVE s = {}
      BY <1>0, FS_Subset, FS_CardinalityType, FS_EmptySet DEF Upto
    <3>2. ZigsUpto(none, series, 0)
      BY <3>1 DEF ZigsUpto, ZigAt
    <3> QED
      BY <2>1, <2>2, <3>2
  <2>3. CASE n # 0
    <3>1. n - 1 \in Nat /\ n - 1 \notin T /\ (n - 1) + 1 = n
      BY <2>1, <2>3
    <3>2. PICK it : ZigsUpto(it, series, n - 1)
      BY <3>1
    <3> QED
      BY <2>1, <3>1, <3>2, OneZigMore
  <2> QED
    BY <2>2, <2>3
<1>2. Cardinality(S) \in Nat
  BY <1>0, FS_CardinalityType
<1>3. PICK it : ZigsUpto(it, series, Cardinality(S))
  BY <1>1, <1>2
<1>4. Upto(S, Cardinality(S)) = SUBSET S
  BY <1>0, FS_Subset DEF Upto
<1>5. Zigs(it, series)
  BY <1>3, <1>4 DEF ZigsUpto, Zigs
<1> QED
  BY <1>5

(* The states of the zigzag, one sample after the other.                   *)
LEMMA ZigStates ==
  ASSUME NEW series \in Series
  PROVE  \E state :
           /\ state[1] = ZigStart
           /\ \A t \in 2..Len(series) : state[t] = ZigStep(series, state[t - 1], t)
           /\ ZigZag(series) =
                IF Len(series) < 2 THEN <<>>
                ELSE LET z == state[Len(series)]
                     IN IF z.trend = "none" THEN <<>>
                        ELSE Append(z.pivots, Pivot(series, z.anchor, IF z.trend = "up" THEN "high" ELSE "low"))
<1> DEFINE it == CHOOSE f : Zigs(f, series)
           N == Len(series)
           state == [t \in 1..N |-> it[1..(t - 1)]]
<1>0. N \in Nat /\ N >= 1 /\ DOMAIN Later(series) = 1..(N - 1)
  BY DEF Series, Later
<1>1. Zigs(it, series)
  BY ZigsExist
<1>2. ZigZag(series) =
        IF N < 2 THEN <<>>
        ELSE LET z == it[1..(N - 1)]
             IN IF z.trend = "none" THEN <<>>
                ELSE Append(z.pivots, Pivot(series, z.anchor, IF z.trend = "up" THEN "high" ELSE "low"))
  <2>1. CASE N < 2
    BY <2>1 DEF ZigZag
  <2>2. CASE ~(N < 2)
    BY <1>0, <2>2, ZigFold
  <2> QED
    BY <2>1, <2>2
<1> HIDE DEF it
<1>3. \A s \in SUBSET (1..(N - 1)) : it[s] = ZigAt(series, it, s)
  BY <1>0, <1>1 DEF Zigs
<1>4. state[1] = ZigStart
  <2>1. 1..(1 - 1) = {}
    OBVIOUS
  <2>2. it[{}] = ZigStart
    BY <1>3 DEF ZigAt
  <2> QED
    BY <1>0, <2>1, <2>2
<1>5. ASSUME NEW t \in 2..N PROVE state[t] = ZigStep(series, state[t - 1], t)
  <2> DEFINE s == 1..(t - 1)
  <2>1. s \in SUBSET (1..(N - 1)) /\ t - 1 \in s /\ s # {} /\ N - 1 \in Nat /\ t \in 1..N /\ t - 1 \in 1..N
    BY <1>0
  <2>2. Max(s) \in s /\ \A y \in s : y <= Max(s)
    <3> HIDE DEF s
    <3> QED
      BY <2>1, MaxIn
  <2>3. Max(s) = t - 1
    BY <2>1, <2>2
  <2>4. s \ {t - 1} = 1..((t - 1) - 1)
    BY <2>1
  <2>5. Later(series)[t - 1] = t
    BY <1>0, <2>1 DEF Later
  <2>6. it[s] = ZigStep(series, it[s \ {Max(s)}], Later(series)[Max(s)])
    <3> HIDE DEF s
    <3> QED
      BY <1>3, <2>1 DEF ZigAt
  <2>7. state[t] = it[s] /\ state[t - 1] = it[1..((t - 1) - 1)]
    BY <2>1
  <2> HIDE DEF s, state
  <2> QED
    BY <2>3, <2>4, <2>5, <2>6, <2>7
<1>6. N >= 2 => state[N] = it[1..(N - 1)]
  BY <1>0
<1> HIDE DEF state
<1>7. \A t \in 2..N : state[t] = ZigStep(series, state[t - 1], t)
  BY <1>5
<1>8. \/ N < 2 /\ ZigZag(series) = <<>>
      \/ N >= 2 /\ ZigZag(series) = LET z == state[N]
                                   IN IF z.trend = "none" THEN <<>>
                                      ELSE Append(z.pivots, Pivot(series, z.anchor, IF z.trend = "up" THEN "high" ELSE "low"))
  BY <1>0, <1>2, <1>6
<1> QED
  BY <1>4, <1>7, <1>8

KindSet == {"high", "low"}
Pivots == [price : Nat \ {0}, at : Nat, kind : KindSet]
PivotSeqs == Seq(Pivots)

(* Percentages of a price.                                                 *)
LEMMA MovedFacts ==
  ASSUME NEW from \in Nat \ {0}, NEW by \in Int, NEW more \in Int
  PROVE  /\ ~Moved(from, 0) /\ (Moved(from, by) => by > 0)
         /\ Moved(from, by) /\ more >= by => Moved(from, more)
         /\ Moved(from, by) /\ ~Moved(from, more) => more < by
<1>1. Reversal \in Int /\ Reversal >= 1
  BY WaveAssumption
<1>2. PICK r \in Int : r = Reversal * from /\ r >= 1
  <2>1. Reversal * from >= 1
    BY <1>1
  <2> QED
    BY <1>1, <2>1
<1> QED
  BY <1>2 DEF Moved

SettledOk(series, ps, t) ==
  \A i \in 1..Len(ps) :
    /\ ps[i].at \in 1..t /\ ps[i].price = series[ps[i].at].price
    /\ i > 1 => /\ ps[i].kind # ps[i - 1].kind /\ ps[i - 1].at < ps[i].at
                /\ Moved(ps[i - 1].price, AbsGap(ps[i].price, ps[i - 1].price))
                /\ \A k \in ps[i - 1].at..t : Beyond(series, ps[i], k) => Reversed(series, ps[i], k)
                /\ Reversed(series, ps[i], t)
TipOk(series, q, p, t) ==
  /\ p.kind # q.kind /\ q.at < p.at /\ p.at \in 1..t /\ p.price = series[p.at].price
  /\ Moved(q.price, AbsGap(p.price, q.price))
  /\ \A k \in q.at..t : ~Beyond(series, p, k)
  /\ \A k \in p.at..t : ~Moved(p.price, AbsGap(series[k].price, p.price))

LEMMA PriceTyped ==
  ASSUME NEW series \in Series, NEW k \in 1..Len(series) PROVE series[k].price \in Nat \ {0}
<1>1. series \in Seq(Samples)
  BY DEF Series
<1>2. series[k] \in Samples
  BY <1>1
<1> QED
  BY <1>2 DEF Samples

LEMMA PivotTyped ==
  ASSUME NEW series \in Series, NEW k \in 1..Len(series), NEW kind \in KindSet
  PROVE  /\ Pivot(series, k, kind) \in Pivots /\ Pivot(series, k, kind).at = k
         /\ Pivot(series, k, kind).kind = kind /\ Pivot(series, k, kind).price = series[k].price
BY PriceTyped DEF Pivot, Pivots

LEMMA SettledLater ==
  ASSUME NEW series \in Series, NEW ps \in PivotSeqs, NEW t \in Nat, SettledOk(series, ps, t)
  PROVE  SettledOk(series, ps, t + 1)
<1> SUFFICES ASSUME NEW i \in 1..Len(ps)
             PROVE  /\ ps[i].at \in 1..(t + 1) /\ ps[i].price = series[ps[i].at].price
                    /\ i > 1 => /\ ps[i].kind # ps[i - 1].kind /\ ps[i - 1].at < ps[i].at
                                /\ Moved(ps[i - 1].price, AbsGap(ps[i].price, ps[i - 1].price))
                                /\ \A k \in ps[i - 1].at..(t + 1) :
                                     Beyond(series, ps[i], k) => Reversed(series, ps[i], k)
                                /\ Reversed(series, ps[i], t + 1)
  BY DEF SettledOk
<1>1. ps[i].at \in 1..t /\ ps[i].price = series[ps[i].at].price
  BY DEF SettledOk
<1>2. ASSUME i > 1
      PROVE  /\ ps[i].kind # ps[i - 1].kind /\ ps[i - 1].at < ps[i].at
             /\ Moved(ps[i - 1].price, AbsGap(ps[i].price, ps[i - 1].price))
             /\ \A k \in ps[i - 1].at..(t + 1) :
                  Beyond(series, ps[i], k) => Reversed(series, ps[i], k)
             /\ Reversed(series, ps[i], t + 1)
  <2>1. Reversed(series, ps[i], t)
    BY <1>2 DEF SettledOk
  <2>2. Reversed(series, ps[i], t + 1)
    BY <1>1, <2>1 DEF Reversed
  <2>3. ps[i - 1].at \in 1..t
    BY <1>2 DEF SettledOk
  <2>4. \A k \in ps[i - 1].at..(t + 1) : k \in ps[i - 1].at..t \/ k = t + 1
    BY <2>3
  <2> QED
    BY <1>2, <2>2, <2>4 DEF SettledOk
<1> QED
  BY <1>1, <1>2

LEMMA TipStays ==
  ASSUME NEW series \in Series, NEW t \in Nat, NEW q \in Pivots, NEW p \in Pivots, TipOk(series, q, p, t),
         ~Beyond(series, p, t + 1), ~Moved(p.price, AbsGap(series[t + 1].price, p.price))
  PROVE  TipOk(series, q, p, t + 1)
<1>1. p.at \in 1..t /\ q.at \in Nat
  BY DEF TipOk, Pivots
<1>2. /\ \A k \in q.at..(t + 1) : k \in q.at..t \/ k = t + 1
      /\ \A k \in p.at..(t + 1) : k \in p.at..t \/ k = t + 1
  BY <1>1
<1> QED
  BY <1>1, <1>2 DEF TipOk

LEMMA TipMoves ==
  ASSUME NEW series \in Series, NEW t \in 1..Len(series), t + 1 <= Len(series), NEW q \in Pivots, NEW p \in Pivots,
         TipOk(series, q, p, t), q.price = series[q.at].price, q.at \in 1..t,
         IF p.kind = "high" THEN series[t + 1].price >= p.price ELSE series[t + 1].price <= p.price,
         NEW r \in Pivots, r = Pivot(series, t + 1, p.kind)
  PROVE  TipOk(series, q, r, t + 1)
<1>1. /\ r.at = t + 1 /\ r.kind = p.kind /\ r.price = series[t + 1].price
      /\ q.price \in Nat \ {0} /\ p.price \in Nat \ {0} /\ r.price \in Nat \ {0} /\ p.kind \in KindSet
  BY DEF Pivot, Pivots
<1>2. \A k \in 1..Len(series) : series[k].price \in Nat \ {0}
  BY PriceTyped
<1>3. \A k \in q.at..(t + 1) : k \in 1..Len(series) /\ (k \in q.at..t \/ k = t + 1)
  BY <1>1
<1>4. \A k \in q.at..t : ~Beyond(series, p, k)
  BY DEF TipOk
<1>5. \A k \in q.at..(t + 1) : ~Beyond(series, r, k)
  BY <1>1, <1>2, <1>3, <1>4 DEF Beyond
<1>6. q.at \in q.at..t
  OBVIOUS
<1>7. IF p.kind = "high" THEN q.price <= p.price /\ p.price <= r.price ELSE q.price >= p.price /\ p.price >= r.price
  BY <1>1, <1>4, <1>6 DEF Beyond
<1>8. AbsGap(p.price, q.price) \in Int /\ AbsGap(r.price, q.price) \in Int /\ AbsGap(r.price, q.price) >= AbsGap(p.price, q.price)
  BY <1>1, <1>7 DEF AbsGap
<1>9. Moved(q.price, AbsGap(r.price, q.price))
  BY <1>1, <1>8, MovedFacts DEF TipOk
<1>10. \A k \in (t + 1)..(t + 1) : ~Moved(r.price, AbsGap(series[k].price, r.price))
  <2>1. AbsGap(r.price, r.price) = 0
    BY <1>1 DEF AbsGap
  <2>2. ~Moved(r.price, 0)
    BY <1>1, MovedFacts
  <2> QED
    BY <1>1, <2>1, <2>2
<1>11. p.kind # q.kind /\ q.at < t + 1 /\ t + 1 \in 1..(t + 1)
  BY DEF TipOk
<1> QED
  BY <1>1, <1>5, <1>9, <1>10, <1>11 DEF TipOk

LEMMA TipTurns ==
  ASSUME NEW series \in Series, NEW t \in 1..Len(series), t + 1 <= Len(series), NEW q \in Pivots, NEW p \in Pivots,
         TipOk(series, q, p, t), ~Beyond(series, p, t + 1), Moved(p.price, AbsGap(series[t + 1].price, p.price)),
         NEW kind \in KindSet, kind # p.kind, NEW r \in Pivots, r = Pivot(series, t + 1, kind)
  PROVE  TipOk(series, p, r, t + 1)
<1>1. /\ r.at = t + 1 /\ r.kind = kind /\ r.price = series[t + 1].price
      /\ p.price \in Nat \ {0} /\ r.price \in Nat \ {0} /\ p.kind \in KindSet
  BY DEF Pivot, Pivots
<1>2. \A k \in 1..Len(series) : series[k].price \in Nat \ {0}
  BY PriceTyped
<1>3. p.at \in 1..t /\ q.at < p.at /\ q.at \in Nat
  BY DEF TipOk, Pivots
<1>4. \A k \in p.at..(t + 1) : k \in 1..Len(series) /\ (k \in p.at..t \/ k = t + 1) /\ (k # t + 1 => k \in q.at..t)
  BY <1>3
<1>5. ASSUME NEW k \in p.at..(t + 1) PROVE ~Beyond(series, r, k)
  <2>1. CASE k = t + 1
    BY <1>1, <2>1 DEF Beyond
  <2>2. CASE k # t + 1
    <3>1. ~Beyond(series, p, k) /\ ~Moved(p.price, AbsGap(series[k].price, p.price)) /\ k \in 1..Len(series)
      BY <1>4, <2>2 DEF TipOk
    <3>2. AbsGap(series[k].price, p.price) \in Int /\ AbsGap(series[t + 1].price, p.price) \in Int
      BY <1>1, <1>2, <3>1 DEF AbsGap
    <3>3. AbsGap(series[k].price, p.price) < AbsGap(series[t + 1].price, p.price)
      BY <1>1, <3>1, <3>2, MovedFacts
    <3>4. series[k].price \in Nat /\ series[t + 1].price \in Nat
      BY <1>1, <1>2, <3>1
    <3>5. CASE p.kind = "high"
      BY <1>1, <3>1, <3>3, <3>4, <3>5 DEF Beyond, AbsGap, KindSet
    <3>6. CASE p.kind = "low"
      BY <1>1, <3>1, <3>3, <3>4, <3>6 DEF Beyond, AbsGap, KindSet
    <3> QED
      BY <1>1, <3>5, <3>6 DEF KindSet
  <2> QED
    BY <2>1, <2>2
<1>6. \A k \in (t + 1)..(t + 1) : ~Moved(r.price, AbsGap(series[k].price, r.price))
  <2>1. AbsGap(r.price, r.price) = 0
    BY <1>1 DEF AbsGap
  <2>2. ~Moved(r.price, 0)
    BY <1>1, MovedFacts
  <2> QED
    BY <1>1, <2>1, <2>2
<1>7. t + 1 \in 1..(t + 1) /\ p.at < t + 1
  BY <1>3
<1> QED
  BY <1>1, <1>5, <1>6, <1>7 DEF TipOk

LEMMA TipSettles ==
  ASSUME NEW series \in Series, NEW ps \in PivotSeqs, NEW t \in Nat, NEW p \in Pivots, Len(ps) >= 1,
         SettledOk(series, ps, t + 1), TipOk(series, ps[Len(ps)], p, t), ~Beyond(series, p, t + 1),
         Moved(p.price, AbsGap(series[t + 1].price, p.price))
  PROVE  SettledOk(series, Append(ps, p), t + 1)
<1> DEFINE n == Len(ps)
           more == Append(ps, p)
<1>1. /\ n \in Nat /\ n >= 1 /\ Len(more) = n + 1 /\ more[n + 1] = p /\ \A i \in 1..n : more[i] = ps[i]
      /\ ps[n] \in Pivots
  BY DEF PivotSeqs
<1>2. p.at \in 1..t /\ ps[n].at \in Nat /\ \A k \in ps[n].at..(t + 1) : k \in ps[n].at..t \/ k = t + 1
  BY <1>1 DEF TipOk, Pivots
<1> HIDE DEF more, n
<1>3. Reversed(series, p, t + 1)
  BY <1>2 DEF Reversed
<1>4. \A k \in ps[n].at..(t + 1) : ~Beyond(series, p, k)
  BY <1>2 DEF TipOk, n
<1>5. \A i \in 1..Len(more) : i \in 1..n \/ i = n + 1
  BY <1>1
<1>6. ASSUME NEW i \in 1..n
      PROVE  /\ more[i].at \in 1..(t + 1) /\ more[i].price = series[more[i].at].price
             /\ i > 1 => /\ more[i].kind # more[i - 1].kind /\ more[i - 1].at < more[i].at
                         /\ Moved(more[i - 1].price, AbsGap(more[i].price, more[i - 1].price))
                         /\ \A k \in more[i - 1].at..(t + 1) :
                              Beyond(series, more[i], k) => Reversed(series, more[i], k)
                         /\ Reversed(series, more[i], t + 1)
  <2>1. more[i] = ps[i] /\ (i > 1 => more[i - 1] = ps[i - 1])
    BY <1>1
  <2> QED
    BY <2>1 DEF SettledOk, n
<1>7. /\ more[n + 1].at \in 1..(t + 1) /\ more[n + 1].price = series[more[n + 1].at].price
      /\ more[n + 1].kind # more[n].kind /\ more[n].at < more[n + 1].at
      /\ Moved(more[n].price, AbsGap(more[n + 1].price, more[n].price))
  BY <1>1, <1>2 DEF TipOk, n
<1>8. (n + 1) - 1 = n /\ more[n] = ps[n]
  BY <1>1
<1>9. SettledOk(series, more, t + 1)
  BY <1>1, <1>3, <1>4, <1>5, <1>6, <1>7, <1>8 DEF SettledOk
<1> QED
  BY <1>9 DEF more

Trends == {"none", "up", "down"}
ZigRows == [pivots : PivotSeqs, trend : Trends, anchor : Nat, hi : Nat, lo : Nat]
LegKind(trend) == IF trend = "up" THEN "high" ELSE "low"
HighLow(series, z, t) ==
  /\ z.hi \in 1..t /\ z.lo \in 1..t
  /\ \A k \in 1..t : series[k].price <= series[z.hi].price /\ series[k].price >= series[z.lo].price
ZigOk(series, z, t) ==
  /\ z \in ZigRows /\ HighLow(series, z, t)
  /\ z.trend = "none" =>
       /\ z.pivots = <<>> /\ ~Moved(series[1].price, series[z.hi].price - series[1].price)
       /\ ~Moved(series[1].price, series[1].price - series[z.lo].price)
  /\ z.trend # "none" =>
       /\ z.anchor \in 1..t /\ Len(z.pivots) >= 1 /\ SettledOk(series, z.pivots, t)
       /\ TipOk(series, z.pivots[Len(z.pivots)], Pivot(series, z.anchor, LegKind(z.trend)), t)

Extremes(series, z, i) ==
  [z EXCEPT !.hi = IF series[i].price > series[@].price THEN i ELSE @,
            !.lo = IF series[i].price < series[@].price THEN i ELSE @]

LEMMA ExtremesTrue ==
  ASSUME NEW series \in Series, NEW t \in 1..Len(series), t + 1 <= Len(series), NEW z \in ZigRows,
         HighLow(series, z, t), NEW y, y = Extremes(series, z, t + 1)
  PROVE  /\ y \in ZigRows /\ y.pivots = z.pivots /\ y.trend = z.trend /\ y.anchor = z.anchor
         /\ HighLow(series, y, t + 1) /\ y.hi \in {z.hi, t + 1} /\ y.lo \in {z.lo, t + 1}
<1>1. \A k \in 1..Len(series) : series[k].price \in Nat \ {0}
  BY PriceTyped
<1>2. /\ y.pivots = z.pivots /\ y.trend = z.trend /\ y.anchor = z.anchor
      /\ y.hi = (IF series[t + 1].price > series[z.hi].price THEN t + 1 ELSE z.hi)
      /\ y.lo = (IF series[t + 1].price < series[z.lo].price THEN t + 1 ELSE z.lo)
  <2> HIDE DEF PivotSeqs, Trends
  <2> QED
    BY DEF Extremes, ZigRows
<1>3. y \in ZigRows
  <2> DEFINE h == IF series[t + 1].price > series[z.hi].price THEN t + 1 ELSE z.hi
             l == IF series[t + 1].price < series[z.lo].price THEN t + 1 ELSE z.lo
             x == [z EXCEPT !.hi = h]
  <2>1. h \in Nat /\ l \in Nat
    BY DEF HighLow
  <2>2. y = [x EXCEPT !.lo = l]
    BY DEF Extremes, ZigRows
  <2> HIDE DEF h, l
  <2>3. x \in ZigRows
    BY <2>1 DEF ZigRows
  <2> HIDE DEF x
  <2> QED
    BY <2>1, <2>2, <2>3 DEF ZigRows
<1>4. \A k \in 1..(t + 1) : k \in 1..t \/ k = t + 1
  OBVIOUS
<1>5. z.hi \in 1..t /\ z.lo \in 1..t /\ \A k \in 1..t : series[k].price <= series[z.hi].price /\ series[k].price >= series[z.lo].price
  BY DEF HighLow
<1>6. y.hi \in 1..(t + 1) /\ y.lo \in 1..(t + 1) /\ y.hi \in {z.hi, t + 1} /\ y.lo \in {z.lo, t + 1}
  BY <1>2, <1>5
<1>7. ASSUME NEW k \in 1..(t + 1) PROVE series[k].price <= series[y.hi].price /\ series[k].price >= series[y.lo].price
  <2>1. /\ series[k].price \in Nat /\ series[t + 1].price \in Nat
        /\ series[z.hi].price \in Nat /\ series[z.lo].price \in Nat
    BY <1>1, <1>5
  <2>2. CASE k = t + 1
    BY <1>2, <2>1, <2>2
  <2>3. CASE k \in 1..t
    <3>1. series[k].price <= series[z.hi].price /\ series[k].price >= series[z.lo].price
      BY <1>5, <2>3
    <3> QED
      BY <1>2, <2>1, <3>1
  <2> QED
    BY <1>4, <2>2, <2>3
<1> QED
  BY <1>2, <1>3, <1>6, <1>7 DEF HighLow

(* The first leg starts where the running extreme is the last sample.      *)
LEMMA LegStarts ==
  ASSUME NEW series \in Series, NEW t \in 1..Len(series), t + 1 <= Len(series),
         NEW kind \in KindSet, NEW other \in KindSet, kind # other,
         Moved(series[1].price, AbsGap(series[t + 1].price, series[1].price)),
         \A k \in 1..(t + 1) : ~Beyond(series, Pivot(series, t + 1, other), k)
  PROVE  /\ SettledOk(series, <<Pivot(series, 1, kind)>>, t + 1)
         /\ TipOk(series, Pivot(series, 1, kind), Pivot(series, t + 1, other), t + 1)
<1>1. PICK q \in Pivots : q = Pivot(series, 1, kind) /\ q.at = 1 /\ q.kind = kind /\ q.price = series[1].price
  BY PivotTyped
<1>2. PICK p \in Pivots : p = Pivot(series, t + 1, other) /\ p.at = t + 1 /\ p.kind = other /\ p.price = series[t + 1].price
  BY PivotTyped
<1>3. p.price \in Nat \ {0}
  BY DEF Pivots
<1>4. \A k \in (t + 1)..(t + 1) : ~Moved(p.price, AbsGap(series[k].price, p.price))
  <2>1. AbsGap(p.price, p.price) = 0
    BY <1>3 DEF AbsGap
  <2>2. ~Moved(p.price, 0)
    BY <1>3, MovedFacts
  <2> QED
    BY <1>2, <2>1, <2>2
<1>5. TipOk(series, q, p, t + 1)
  BY <1>1, <1>2, <1>4 DEF TipOk
<1>6. Len(<<q>>) = 1 /\ <<q>>[1] = q /\ 1 \in 1..(t + 1)
  OBVIOUS
<1>7. SettledOk(series, <<q>>, t + 1)
  BY <1>1, <1>6 DEF SettledOk
<1> QED
  BY <1>1, <1>2, <1>5, <1>7

(* A leg of a new kind, or with a new extreme, in the record.              *)
LEMMA LegRow ==
  ASSUME NEW series \in Series, NEW t \in Nat, NEW y \in ZigRows, HighLow(series, y, t),
         NEW ps \in PivotSeqs, Len(ps) >= 1, SettledOk(series, ps, t),
         NEW trend \in {"up", "down"}, NEW a \in 1..t,
         TipOk(series, ps[Len(ps)], Pivot(series, a, LegKind(trend)), t),
         NEW new, new = [y EXCEPT !.pivots = ps, !.trend = trend, !.anchor = a]
  PROVE  ZigOk(series, new, t)
<1>1. /\ new.pivots = ps /\ new.trend = trend /\ new.anchor = a /\ new.hi = y.hi /\ new.lo = y.lo
  <2> HIDE DEF PivotSeqs, Trends
  <2> QED
    BY DEF ZigRows
<1>2. trend \in Trends /\ a \in Nat
  BY DEF Trends
<1>3. new \in ZigRows
  <2> DEFINE b == [y EXCEPT !.pivots = ps]
             c == [b EXCEPT !.trend = trend]
  <2>1. b \in ZigRows
    BY DEF ZigRows
  <2>2. new = [c EXCEPT !.anchor = a]
    BY DEF ZigRows
  <2> HIDE DEF b
  <2>3. c \in ZigRows
    BY <1>2, <2>1 DEF ZigRows
  <2> HIDE DEF c
  <2> QED
    BY <1>2, <2>2, <2>3 DEF ZigRows
<1>4. HighLow(series, new, t)
  BY <1>1 DEF HighLow
<1> QED
  BY <1>1, <1>3, <1>4 DEF ZigOk

LEMMA FirstLegTrue ==
  ASSUME NEW series \in Series, NEW t \in 1..Len(series), t + 1 <= Len(series), NEW z, ZigOk(series, z, t),
         z.trend = "none", NEW y, y = Extremes(series, z, t + 1)
  PROVE  ZigOk(series, FirstLeg(series, y), t + 1)
<1> DEFINE p0 == series[1].price
           up == series[y.hi].price - p0
           down == p0 - series[y.lo].price
<1>1. /\ y \in ZigRows /\ y.pivots = <<>> /\ y.trend = "none" /\ HighLow(series, y, t + 1)
      /\ y.hi \in {z.hi, t + 1} /\ y.lo \in {z.lo, t + 1}
      /\ ~Moved(p0, series[z.hi].price - p0) /\ ~Moved(p0, p0 - series[z.lo].price)
  BY ExtremesTrue DEF ZigOk
<1>2. \A k \in 1..Len(series) : series[k].price \in Nat \ {0}
  BY PriceTyped
<1>3. \A k \in 1..(t + 1) : k \in 1..Len(series)
  OBVIOUS
<1>4. y.hi \in 1..(t + 1) /\ y.lo \in 1..(t + 1) /\ 1 \in 1..(t + 1)
  BY <1>1 DEF HighLow
<1>5. p0 \in Nat \ {0} /\ up \in Int /\ down \in Int
  BY <1>2, <1>3, <1>4
<1>6. CASE Moved(p0, up) /\ up >= down
  <2> DEFINE new == [y EXCEPT !.pivots = <<Pivot(series, 1, "low")>>, !.trend = "up", !.anchor = y.hi]
  <2>1. FirstLeg(series, y) = new
    BY <1>6 DEF FirstLeg
  <2>2. y.hi = t + 1
    BY <1>1, <1>6
  <2>3. up > 0 /\ AbsGap(series[t + 1].price, p0) = up
    <3>1. up > 0
      BY <1>5, <1>6, MovedFacts
    <3>2. series[t + 1].price \in Nat
      BY <1>2
    <3> QED
      BY <1>5, <2>2, <3>1, <3>2 DEF AbsGap
  <2>4. \A k \in 1..(t + 1) : ~Beyond(series, Pivot(series, t + 1, "high"), k)
    <3>1. \A k \in 1..(t + 1) : series[k].price <= series[t + 1].price
      BY <1>1, <2>2 DEF HighLow
    <3> QED
      BY <1>2, <1>3, <3>1 DEF Beyond, Pivot
  <2>5. /\ SettledOk(series, <<Pivot(series, 1, "low")>>, t + 1)
        /\ TipOk(series, Pivot(series, 1, "low"), Pivot(series, t + 1, "high"), t + 1)
    <3> HIDE DEF up
    <3> QED
      BY <1>6, <2>3, <2>4, LegStarts DEF KindSet
  <2>6. PICK ps \in PivotSeqs : ps = <<Pivot(series, 1, "low")>>
    <3>1. PICK p \in Pivots : p = Pivot(series, 1, "low")
      BY <1>3, <1>4, PivotTyped DEF KindSet
    <3>2. <<p>> \in PivotSeqs
      BY DEF PivotSeqs
    <3> QED
      BY <3>1, <3>2
  <2>7. Len(ps) = 1 /\ ps[1] = Pivot(series, 1, "low")
    BY <2>6
  <2>8. "up" \in {"up", "down"} /\ LegKind("up") = "high" /\ t + 1 \in Nat /\ t + 1 \in 1..(t + 1)
    BY DEF LegKind
  <2>9. new = [y EXCEPT !.pivots = ps, !.trend = "up", !.anchor = t + 1]
    BY <2>2, <2>6
  <2> HIDE DEF new
  <2>10. SettledOk(series, ps, t + 1) /\ TipOk(series, ps[Len(ps)], Pivot(series, t + 1, LegKind("up")), t + 1)
    BY <2>5, <2>6, <2>7, <2>8
  <2>11. ZigOk(series, new, t + 1)
    <3> DEFINE n == t + 1
    <3>1. n \in Nat /\ n \in 1..n /\ Len(ps) >= 1 /\ HighLow(series, y, n)
      BY <1>1, <2>7
    <3> HIDE DEF n, p0, up, down
    <3>2. ZigOk(series, new, n)
      BY <1>1, <2>8, <2>9, <2>10, <3>1, LegRow DEF n
    <3> QED
      BY <3>2 DEF n
  <2> QED
    BY <2>1, <2>11
<1>7. CASE ~(Moved(p0, up) /\ up >= down) /\ Moved(p0, down)
  <2> DEFINE new == [y EXCEPT !.pivots = <<Pivot(series, 1, "high")>>, !.trend = "down", !.anchor = y.lo]
  <2>1. FirstLeg(series, y) = new
    BY <1>7 DEF FirstLeg
  <2>2. y.lo = t + 1
    BY <1>1, <1>7
  <2>3. down > 0 /\ AbsGap(series[t + 1].price, p0) = down
    <3>1. down > 0
      BY <1>5, <1>7, MovedFacts
    <3>2. series[t + 1].price \in Nat
      BY <1>2
    <3> QED
      BY <1>5, <2>2, <3>1, <3>2 DEF AbsGap
  <2>4. \A k \in 1..(t + 1) : ~Beyond(series, Pivot(series, t + 1, "low"), k)
    <3>1. \A k \in 1..(t + 1) : series[k].price >= series[t + 1].price
      BY <1>1, <2>2 DEF HighLow
    <3> QED
      BY <1>2, <1>3, <3>1 DEF Beyond, Pivot
  <2>5. /\ SettledOk(series, <<Pivot(series, 1, "high")>>, t + 1)
        /\ TipOk(series, Pivot(series, 1, "high"), Pivot(series, t + 1, "low"), t + 1)
    <3> HIDE DEF down
    <3> QED
      BY <1>7, <2>3, <2>4, LegStarts DEF KindSet
  <2>6. PICK ps \in PivotSeqs : ps = <<Pivot(series, 1, "high")>>
    <3>1. PICK p \in Pivots : p = Pivot(series, 1, "high")
      BY <1>3, <1>4, PivotTyped DEF KindSet
    <3>2. <<p>> \in PivotSeqs
      BY DEF PivotSeqs
    <3> QED
      BY <3>1, <3>2
  <2>7. Len(ps) = 1 /\ ps[1] = Pivot(series, 1, "high")
    BY <2>6
  <2>8. "down" \in {"up", "down"} /\ LegKind("down") = "low" /\ t + 1 \in Nat /\ t + 1 \in 1..(t + 1)
    BY DEF LegKind
  <2>9. new = [y EXCEPT !.pivots = ps, !.trend = "down", !.anchor = t + 1]
    BY <2>2, <2>6
  <2> HIDE DEF new
  <2>10. SettledOk(series, ps, t + 1) /\ TipOk(series, ps[Len(ps)], Pivot(series, t + 1, LegKind("down")), t + 1)
    BY <2>5, <2>6, <2>7, <2>8
  <2>11. ZigOk(series, new, t + 1)
    <3> DEFINE n == t + 1
    <3>1. n \in Nat /\ n \in 1..n /\ Len(ps) >= 1 /\ HighLow(series, y, n)
      BY <1>1, <2>7
    <3> HIDE DEF n, p0, up, down
    <3>2. ZigOk(series, new, n)
      BY <1>1, <2>8, <2>9, <2>10, <3>1, LegRow DEF n
    <3> QED
      BY <3>2 DEF n
  <2> QED
    BY <2>1, <2>11
<1>8. CASE ~(Moved(p0, up) /\ up >= down) /\ ~Moved(p0, down)
  <2>1. FirstLeg(series, y) = y
    BY <1>8 DEF FirstLeg
  <2>2. ~Moved(p0, up)
    <3>1. Moved(p0, up) /\ down >= up => Moved(p0, down)
      <4> HIDE DEF up, down, p0
      <4> QED
        BY <1>5, MovedFacts
    <3> QED
      BY <1>5, <1>8, <3>1
  <2>3. ZigOk(series, y, t + 1)
    BY <1>1, <1>8, <2>2 DEF ZigOk
  <2> QED
    BY <2>1, <2>3
<1> QED
  BY <1>6, <1>7, <1>8

Flip(trend) == IF trend = "up" THEN "down" ELSE "up"
Goes(kind, a, b) == IF kind = "high" THEN b >= a ELSE b <= a

LEMMA NextLegIs ==
  ASSUME NEW series \in Series, NEW i \in 1..Len(series), NEW y \in ZigRows, y.trend # "none",
         y.anchor \in 1..Len(series)
  PROVE  LET a == series[y.anchor].price
             b == series[i].price
             p == Pivot(series, y.anchor, LegKind(y.trend))
         IN NextLeg(series, y, i) =
              IF Goes(LegKind(y.trend), a, b) THEN [y EXCEPT !.anchor = i]
              ELSE IF Moved(a, AbsGap(b, a))
                   THEN [y EXCEPT !.pivots = Append(y.pivots, p), !.trend = Flip(y.trend), !.anchor = i]
                   ELSE y
<1> DEFINE a == series[y.anchor].price
           b == series[i].price
<1>1. a \in Nat /\ b \in Nat
  BY PriceTyped
<1>2. y.trend \in {"up", "down"}
  BY DEF ZigRows, Trends
<1>3. CASE y.trend = "up"
  <2>1. ~(b >= a) => b < a /\ AbsGap(b, a) = a - b
    BY <1>1 DEF AbsGap
  <2>2. [y EXCEPT !.pivots = Append(@, Pivot(series, y.anchor, "high")), !.trend = "down", !.anchor = i] =
        [y EXCEPT !.pivots = Append(y.pivots, Pivot(series, y.anchor, "high")), !.trend = "down", !.anchor = i]
    BY DEF ZigRows
  <2>3. (b >= a \/ b < a) /\ ~(b >= a /\ b < a)
    BY <1>1
  <2> QED
    BY <1>3, <2>1, <2>2, <2>3 DEF NextLeg, Turn, Goes, LegKind, Flip
<1>4. CASE y.trend = "down"
  <2>1. ~(b <= a) => b > a /\ AbsGap(b, a) = b - a
    BY <1>1 DEF AbsGap
  <2>2. [y EXCEPT !.pivots = Append(@, Pivot(series, y.anchor, "low")), !.trend = "up", !.anchor = i] =
        [y EXCEPT !.pivots = Append(y.pivots, Pivot(series, y.anchor, "low")), !.trend = "up", !.anchor = i]
    BY DEF ZigRows
  <2>3. (b <= a \/ b > a) /\ ~(b <= a /\ b > a)
    BY <1>1
  <2> QED
    BY <1>4, <2>1, <2>2, <2>3 DEF NextLeg, Turn, Goes, LegKind, Flip
<1> QED
  BY <1>2, <1>3, <1>4

LEMMA NextLegTrue ==
  ASSUME NEW series \in Series, NEW t \in 1..Len(series), t + 1 <= Len(series), NEW z, ZigOk(series, z, t),
         z.trend # "none", NEW y, y = Extremes(series, z, t + 1)
  PROVE  ZigOk(series, NextLeg(series, y, t + 1), t + 1)
<1> DEFINE n == t + 1
           ps == y.pivots
           a == series[y.anchor].price
           b == series[n].price
<1>1. /\ y \in ZigRows /\ ps = z.pivots /\ y.trend = z.trend /\ y.anchor = z.anchor /\ HighLow(series, y, n)
  BY ExtremesTrue DEF ZigOk
<1>2. /\ y.trend # "none" /\ y.anchor \in 1..t /\ Len(ps) >= 1 /\ SettledOk(series, ps, t)
      /\ TipOk(series, ps[Len(ps)], Pivot(series, y.anchor, LegKind(y.trend)), t)
  BY <1>1 DEF ZigOk
<1>3. /\ ps \in PivotSeqs /\ y.trend \in {"up", "down"} /\ n \in Nat /\ n \in 1..n /\ n \in 1..Len(series)
      /\ y.anchor \in 1..Len(series) /\ y.anchor \in 1..n
  BY <1>1, <1>2 DEF ZigRows, Trends
<1>4. PICK q \in Pivots : q = ps[Len(ps)]
  BY <1>2, <1>3 DEF PivotSeqs
<1>5. /\ q.at \in 1..t /\ q.price = series[q.at].price
  <2>1. Len(ps) \in 1..Len(ps)
    BY <1>2, <1>3 DEF PivotSeqs
  <2> QED
    BY <1>2, <1>4, <2>1 DEF SettledOk
<1>6. LegKind(y.trend) \in KindSet /\ LegKind(Flip(y.trend)) \in KindSet /\ Flip(y.trend) \in {"up", "down"}
      /\ LegKind(Flip(y.trend)) # LegKind(y.trend)
  BY <1>3 DEF LegKind, Flip, KindSet
<1>7. PICK p \in Pivots : /\ p = Pivot(series, y.anchor, LegKind(y.trend)) /\ p.at = y.anchor
                          /\ p.kind = LegKind(y.trend) /\ p.price = a
  BY <1>3, <1>6, PivotTyped
<1>8. TipOk(series, q, p, t) /\ SettledOk(series, ps, n)
  BY <1>2, <1>3, <1>4, <1>7, SettledLater
<1>9. NextLeg(series, y, n) =
        IF Goes(p.kind, a, b) THEN [y EXCEPT !.anchor = n]
        ELSE IF Moved(a, AbsGap(b, a))
             THEN [y EXCEPT !.pivots = Append(ps, p), !.trend = Flip(y.trend), !.anchor = n]
             ELSE y
  <2> HIDE DEF n
  <2> QED
    BY <1>1, <1>2, <1>3, <1>7, NextLegIs
<1>10. CASE Goes(p.kind, a, b)
  <2>1. PICK r \in Pivots : r = Pivot(series, n, p.kind)
    BY <1>3, <1>6, <1>7, PivotTyped
  <2>2. IF p.kind = "high" THEN b >= p.price ELSE b <= p.price
    BY <1>7, <1>10 DEF Goes
  <2>3. TipOk(series, q, r, n)
    BY <1>5, <1>8, <2>1, <2>2, TipMoves
  <2>4. PICK new : new = [y EXCEPT !.anchor = n]
    OBVIOUS
  <2>5. new = [y EXCEPT !.pivots = ps, !.trend = y.trend, !.anchor = n]
    BY <1>1, <2>4 DEF ZigRows
  <2>6. PICK trend \in {"up", "down"} : trend = y.trend
    BY <1>3
  <2>7. ZigOk(series, new, n)
    <3>1. TipOk(series, ps[Len(ps)], Pivot(series, n, LegKind(trend)), n)
      BY <1>4, <1>7, <2>1, <2>3, <2>6
    <3> HIDE DEF n, ps
    <3> QED
      BY <1>1, <1>2, <1>3, <1>8, <2>5, <2>6, <3>1, LegRow
  <2> QED
    BY <1>9, <1>10, <2>4, <2>7
<1>11. CASE ~Goes(p.kind, a, b) /\ Moved(a, AbsGap(b, a))
  <2>1. ~Beyond(series, p, n)
    <3>1. a \in Nat /\ b \in Nat
      BY <1>3, PriceTyped
    <3> QED
      BY <1>7, <1>11, <3>1 DEF Goes, Beyond
  <2>2. PICK more \in PivotSeqs : more = Append(ps, p) /\ Len(more) >= 1 /\ more[Len(more)] = p
    <3> HIDE DEF ps
    <3>1. ps \in Seq(Pivots)
      BY <1>3 DEF PivotSeqs
    <3>2. Append(ps, p) \in Seq(Pivots) /\ Len(Append(ps, p)) = Len(ps) + 1 /\ Append(ps, p)[Len(ps) + 1] = p
      BY <3>1
    <3>3. Len(ps) \in Nat
      BY <3>1
    <3>4. Len(Append(ps, p)) >= 1 /\ Append(ps, p)[Len(Append(ps, p))] = p
      BY <3>2, <3>3
    <3>5. Append(ps, p) \in PivotSeqs
      BY <3>2 DEF PivotSeqs
    <3> QED
      BY <3>4, <3>5
  <2>3. SettledOk(series, more, n)
    <3>1. SettledOk(series, Append(ps, p), t + 1)
      BY <1>2, <1>3, <1>4, <1>7, <1>8, <1>11, <2>1, TipSettles
    <3> QED
      BY <2>2, <3>1
  <2>4. PICK r \in Pivots : r = Pivot(series, n, LegKind(Flip(y.trend)))
    BY <1>3, <1>6, PivotTyped
  <2>5. TipOk(series, p, r, n)
    <3>1. PICK kind \in KindSet : kind = LegKind(Flip(y.trend)) /\ kind # p.kind
      BY <1>6, <1>7
    <3> QED
      BY <1>7, <1>8, <1>11, <2>1, <2>4, <3>1, TipTurns
  <2>6. PICK trend \in {"up", "down"} : trend = Flip(y.trend)
    BY <1>6
  <2>7. PICK new : new = [y EXCEPT !.pivots = more, !.trend = trend, !.anchor = n]
    OBVIOUS
  <2>8. ZigOk(series, new, n)
    <3>1. TipOk(series, more[Len(more)], Pivot(series, n, LegKind(trend)), n)
      BY <2>2, <2>4, <2>5, <2>6
    <3> HIDE DEF n, ps
    <3> QED
      BY <1>1, <1>3, <2>2, <2>3, <2>7, <3>1, LegRow
  <2> QED
    BY <1>9, <1>11, <2>2, <2>6, <2>7, <2>8
<1>12. CASE ~Goes(p.kind, a, b) /\ ~Moved(a, AbsGap(b, a))
  <2>1. ~Beyond(series, p, n)
    <3>1. a \in Nat /\ b \in Nat
      BY <1>3, PriceTyped
    <3> QED
      BY <1>7, <1>12, <3>1 DEF Goes, Beyond
  <2>2. TipOk(series, q, p, n)
    BY <1>7, <1>8, <1>12, <2>1, TipStays
  <2>3. ZigOk(series, y, n)
    BY <1>1, <1>2, <1>3, <1>4, <1>7, <1>8, <2>2 DEF ZigOk
  <2> QED
    BY <1>9, <1>12, <2>3
<1> QED
  BY <1>10, <1>11, <1>12

LEMMA ZigStepTrue ==
  ASSUME NEW series \in Series, NEW t \in 1..Len(series), t + 1 <= Len(series), NEW z, ZigOk(series, z, t)
  PROVE  ZigOk(series, ZigStep(series, z, t + 1), t + 1)
<1>1. ZigStep(series, z, t + 1) =
        IF z.trend = "none" THEN FirstLeg(series, Extremes(series, z, t + 1))
        ELSE NextLeg(series, Extremes(series, z, t + 1), t + 1)
  BY DEF ZigStep, Extremes
<1> QED
  BY <1>1, FirstLegTrue, NextLegTrue

LEMMA ZigStartTrue == ASSUME NEW series \in Series PROVE ZigOk(series, ZigStart, 1)
<1>1. <<>> \in PivotSeqs /\ "none" \in Trends /\ 1 \in Nat
  BY DEF PivotSeqs, Trends
<1>2. /\ ZigStart.pivots = <<>> /\ ZigStart.trend = "none" /\ ZigStart.hi = 1 /\ ZigStart.lo = 1
  BY DEF ZigStart
<1>3. ZigStart \in ZigRows
  <2> HIDE DEF PivotSeqs, Trends
  <2> QED
    BY <1>1 DEF ZigStart, ZigRows
<1>4. 1 \in 1..Len(series)
  BY DEF Series
<1>5. series[1].price \in Nat \ {0}
  BY <1>4, PriceTyped
<1>6. HighLow(series, ZigStart, 1)
  <2>1. \A k \in 1..1 : k = 1
    OBVIOUS
  <2> QED
    BY <1>2, <1>5, <2>1 DEF HighLow
<1>7. ~Moved(series[1].price, series[1].price - series[1].price)
  BY <1>5, MovedFacts
<1> QED
  BY <1>2, <1>3, <1>6, <1>7 DEF ZigOk

(* Every pivot is settled, or the tip of the leg that is forming.          *)
ZigSound(series, ps) ==
  ps = <<>> \/
       \E settled \in PivotSeqs, tip \in Pivots :
         /\ ps = Append(settled, tip) /\ Len(settled) >= 1
         /\ SettledOk(series, settled, Len(series))
         /\ TipOk(series, settled[Len(settled)], tip, Len(series))

LEMMA ZigZagSound == ASSUME NEW series \in Series PROVE ZigSound(series, ZigZag(series))
<1> DEFINE N == Len(series)
<1>0. N \in Nat /\ N >= 1
  BY DEF Series
<1>1. PICK state :
        /\ state[1] = ZigStart
        /\ \A t \in 2..N : state[t] = ZigStep(series, state[t - 1], t)
        /\ ZigZag(series) =
             IF N < 2 THEN <<>>
             ELSE LET z == state[N]
                  IN IF z.trend = "none" THEN <<>>
                     ELSE Append(z.pivots, Pivot(series, z.anchor, IF z.trend = "up" THEN "high" ELSE "low"))
  BY ZigStates
<1> DEFINE T == {t \in Nat : t \in 1..N /\ ~ZigOk(series, state[t], t)}
<1>2. T = {}
  <2> SUFFICES ASSUME T # {} PROVE FALSE
    OBVIOUS
  <2>1. PICK t \in T : \A m \in T : t <= m
    <3> HIDE DEF T
    <3>1. T \in SUBSET Nat
      BY DEF T
    <3> QED
      BY <3>1, Least
  <2>2. CASE t = 1
    BY <1>1, <2>1, <2>2, ZigStartTrue
  <2>3. CASE t # 1
    <3>1. t \in 2..N /\ t - 1 \in 1..N /\ (t - 1) + 1 = t /\ t - 1 \notin T /\ t - 1 \in Nat
      BY <1>0, <2>1, <2>3
    <3>2. ZigOk(series, state[t - 1], t - 1)
      BY <3>1
    <3>3. PICK s \in 1..N : s = t - 1 /\ s + 1 = t /\ s + 1 <= N
      BY <3>1
    <3>4. ZigOk(series, ZigStep(series, state[s], s + 1), s + 1)
      BY <3>2, <3>3, ZigStepTrue
    <3> QED
      BY <1>1, <2>1, <3>1, <3>3, <3>4
  <2> QED
    BY <2>2, <2>3
<1>3. ZigOk(series, state[N], N)
  BY <1>0, <1>2
<1>4. CASE N < 2 \/ state[N].trend = "none"
  BY <1>1, <1>4 DEF ZigSound
<1>5. CASE ~(N < 2) /\ state[N].trend # "none"
  <2> DEFINE z == state[N]
  <2>1. /\ z \in ZigRows /\ z.anchor \in 1..N /\ Len(z.pivots) >= 1 /\ SettledOk(series, z.pivots, N)
        /\ TipOk(series, z.pivots[Len(z.pivots)], Pivot(series, z.anchor, LegKind(z.trend)), N)
    BY <1>3, <1>5 DEF ZigOk
  <2>2. ZigZag(series) = Append(z.pivots, Pivot(series, z.anchor, LegKind(z.trend)))
    BY <1>1, <1>5 DEF LegKind
  <2>3. PICK tip \in Pivots : tip = Pivot(series, z.anchor, LegKind(z.trend))
    <3>1. LegKind(z.trend) \in KindSet
      BY DEF LegKind, KindSet
    <3> QED
      BY <2>1, <3>1, PivotTyped
  <2>4. z.pivots \in PivotSeqs
    BY <2>1 DEF ZigRows
  <2> QED
    BY <2>1, <2>2, <2>3, <2>4 DEF ZigSound
<1> QED
  BY <1>4, <1>5

LEMMA PivotPlaces ==
  ASSUME NEW series \in Series, NEW z, z = ZigZag(series)
  PROVE  /\ z \in PivotSeqs
         /\ \A i \in 2..Len(z) :
              /\ z[i].kind # z[i - 1].kind /\ z[i - 1].at < z[i].at
              /\ Moved(z[i - 1].price, AbsGap(z[i].price, z[i - 1].price))
              /\ \A k \in z[i - 1].at..Len(series) :
                   Beyond(series, z[i], k) => i < Len(z) /\ Reversed(series, z[i], k)
              /\ z[i - 1].at \in 1..Len(series) /\ z[i - 1].price = series[z[i - 1].at].price
<1>1. CASE z = <<>>
  BY <1>1 DEF PivotSeqs
<1>2. CASE z # <<>>
  <2>1. PICK settled \in PivotSeqs, tip \in Pivots :
          /\ z = Append(settled, tip) /\ Len(settled) >= 1
          /\ SettledOk(series, settled, Len(series))
          /\ TipOk(series, settled[Len(settled)], tip, Len(series))
    BY <1>2, ZigZagSound DEF ZigSound
  <2> DEFINE m == Len(settled)
  <2>2. settled \in Seq(Pivots)
    BY DEF PivotSeqs
  <2>3. /\ m \in Nat /\ m >= 1 /\ z \in Seq(Pivots) /\ Len(z) = m + 1 /\ z[m + 1] = tip
        /\ \A i \in 1..m : z[i] = settled[i]
    BY <2>1, <2>2
  <2> HIDE DEF m
  <2>4. ASSUME NEW i \in 2..Len(z), i <= m
        PROVE  /\ z[i].kind # z[i - 1].kind /\ z[i - 1].at < z[i].at
               /\ Moved(z[i - 1].price, AbsGap(z[i].price, z[i - 1].price))
               /\ \A k \in z[i - 1].at..Len(series) :
                    Beyond(series, z[i], k) => i < Len(z) /\ Reversed(series, z[i], k)
               /\ z[i - 1].at \in 1..Len(series) /\ z[i - 1].price = series[z[i - 1].at].price
    <3>1. i \in 1..m /\ i - 1 \in 1..m /\ i > 1 /\ i < Len(z)
      BY <2>3, <2>4
    <3>2. z[i] = settled[i] /\ z[i - 1] = settled[i - 1]
      BY <2>3, <3>1
    <3> QED
      BY <2>1, <3>1, <3>2 DEF SettledOk, m
  <2>5. ASSUME NEW i \in 2..Len(z), i = m + 1
        PROVE  /\ z[i].kind # z[i - 1].kind /\ z[i - 1].at < z[i].at
               /\ Moved(z[i - 1].price, AbsGap(z[i].price, z[i - 1].price))
               /\ \A k \in z[i - 1].at..Len(series) :
                    Beyond(series, z[i], k) => i < Len(z) /\ Reversed(series, z[i], k)
               /\ z[i - 1].at \in 1..Len(series) /\ z[i - 1].price = series[z[i - 1].at].price
    <3>1. i - 1 = m /\ m \in 1..m /\ z[i] = tip /\ z[i - 1] = settled[m]
      BY <2>3, <2>5
    <3> QED
      BY <2>1, <3>1 DEF SettledOk, TipOk, m
  <2>6. \A i \in 2..Len(z) : i <= m \/ i = m + 1
    BY <2>3
  <2>7. z \in PivotSeqs
    BY <2>3 DEF PivotSeqs
  <2> QED
    BY <2>4, <2>5, <2>6, <2>7
<1> QED
  BY <1>1, <1>2

LEMMA ZigZagIsTrue == points \in Series => ZigZagTrue
BY PivotPlaces DEF ZigZagTrue

(* A high is above the low before it, and the other way round.             *)
LEMMA PivotsTurn ==
  ASSUME NEW series \in Series, NEW z, z = ZigZag(series), NEW i \in 2..Len(z)
  PROVE  IF z[i - 1].kind = "low" THEN z[i].kind = "high" /\ z[i].price > z[i - 1].price
                                  ELSE z[i].kind = "low" /\ z[i].price < z[i - 1].price
<1>1. z \in Seq(Pivots)
  BY PivotPlaces DEF PivotSeqs
<1>2. i \in 1..Len(z) /\ i - 1 \in 1..Len(z)
  BY <1>1
<1>3. PICK p \in Pivots : p = z[i]
  BY <1>1, <1>2
<1>4. PICK q \in Pivots : q = z[i - 1]
  BY <1>1, <1>2
<1>5. /\ p.kind # q.kind /\ q.at < p.at /\ Moved(q.price, AbsGap(p.price, q.price))
      /\ \A k \in q.at..Len(series) : Beyond(series, p, k) => Reversed(series, p, k)
      /\ q.at \in 1..Len(series) /\ q.price = series[q.at].price
  BY <1>3, <1>4, PivotPlaces
<1>6. p.at \in Nat /\ p.price \in Nat \ {0} /\ q.price \in Nat \ {0} /\ p.kind \in KindSet /\ q.kind \in KindSet
  BY DEF Pivots
<1>7. ~Reversed(series, p, q.at)
  BY <1>5, <1>6 DEF Reversed
<1>8. ~Beyond(series, p, q.at)
  BY <1>5, <1>7
<1>9. AbsGap(p.price, q.price) \in Int /\ AbsGap(p.price, q.price) > 0
  <2>1. AbsGap(p.price, q.price) \in Int
    BY <1>6 DEF AbsGap
  <2> QED
    BY <1>5, <1>6, <2>1, MovedFacts
<1>10. p.price # q.price
  BY <1>6, <1>9 DEF AbsGap
<1> QED
  BY <1>3, <1>4, <1>5, <1>6, <1>8, <1>10 DEF Beyond, KindSet

LEMMA WindowIs ==
  ASSUME NEW z \in PivotSeqs, NEW w, w = Window(z), Len(w) \in {3, 4}
  PROVE  Len(z) = Len(w) /\ \A i \in 1..Len(w) : w[i] = z[i]
<1>1. z \in Seq(Pivots) /\ Len(z) \in Nat
  BY DEF PivotSeqs
<1>2. CASE Len(z) > 9
  <2> DEFINE f == Len(z) - 9 + 1
  <2>1. w = SubSeq(z, f, Len(z)) /\ f \in 1..Len(z)
    BY <1>1, <1>2 DEF Window, MaxWindow
  <2>2. Len(w) = 9
    BY <1>1, <2>1
  <2> QED
    BY <2>2
<1>3. CASE ~(Len(z) > 9)
  <2>1. w = SubSeq(z, 1, Len(z))
    BY <1>3 DEF Window, MaxWindow
  <2>2. Len(w) = Len(z) /\ \A i \in 1..Len(z) : w[i] = z[i]
    BY <1>1, <2>1
  <2> QED
    BY <2>2
<1> QED
  BY <1>2, <1>3

LEMMA SignalSays ==
  ASSUME NEW series, NEW w, w = Window(ZigZag(series)), Signal(series) # "none", Len(w) \in Nat
  PROVE  /\ ~Invalidated(w)
         /\ \/ Len(w) = 3 /\ InZone(w) /\ Signal(series) = "WAVE2_REVERSAL"
            \/ Len(w) = 4 /\ Signal(series) = "WAVE3_IMPULSE"
<1>1. \/ Signal(series) = "WAVE2_REVERSAL" /\ Screenable(w) /\ Stage(w) = "Wave 2 Turning" /\ InZone(w)
      \/ Signal(series) = "WAVE3_IMPULSE" /\ Screenable(w) /\ Stage(w) = "Wave 3 Initiation"
  BY DEF Signal
<1>2. Stage(w) = "Wave 2 Turning" => Len(w) = 3
  BY DEF Stage
<1>3. Stage(w) = "Wave 3 Initiation" => Len(w) = 4
  BY DEF Stage
<1> QED
  BY <1>1, <1>2, <1>3 DEF Screenable

LEMMA SignalsSound == points \in Series => SignalsAreSound
<1> SUFFICES ASSUME points \in Series, Signal(points) # "none"
             PROVE  LET w == Window(ZigZag(points))
                    IN /\ Above(w, 3, 1) /\ Above(w, 2, 1)
                       /\ Signal(points) = "WAVE3_IMPULSE" => Above(w, 4, 3)
                       /\ Recommendation(w) # "none"
                       /\ Signal(points) = "WAVE2_REVERSAL" => \A f \in FibLevels(w) : WithinTarget(f)
  BY DEF SignalsAreSound
<1> DEFINE z == ZigZag(points)
           w == Window(z)
<1>1. z \in PivotSeqs
  BY PivotPlaces
<1> HIDE DEF z
<1>2. Len(w) \in Nat
  <2>1. z \in Seq(Pivots) /\ Len(z) \in Nat
    BY <1>1 DEF PivotSeqs
  <2>2. w \in Seq(Pivots)
    BY <2>1 DEF Window, MaxWindow
  <2> QED
    BY <2>2
<1> HIDE DEF w
<1>3. /\ ~Invalidated(w)
      /\ \/ Len(w) = 3 /\ InZone(w) /\ Signal(points) = "WAVE2_REVERSAL"
         \/ Len(w) = 4 /\ Signal(points) = "WAVE3_IMPULSE"
  BY <1>2, SignalSays DEF z, w
<1>4. Len(z) = Len(w) /\ \A i \in 1..Len(w) : w[i] = z[i]
  BY <1>1, <1>3, WindowIs DEF w
<1>5. \A i \in 1..Len(w) : w[i] \in Pivots
  BY <1>1, <1>4 DEF PivotSeqs
<1>6. \A i \in 2..Len(w) :
        IF w[i - 1].kind = "low" THEN w[i].kind = "high" /\ w[i].price > w[i - 1].price
                                 ELSE w[i].kind = "low" /\ w[i].price < w[i - 1].price
  <2> SUFFICES ASSUME NEW i \in 2..Len(w)
               PROVE  IF w[i - 1].kind = "low" THEN w[i].kind = "high" /\ w[i].price > w[i - 1].price
                                               ELSE w[i].kind = "low" /\ w[i].price < w[i - 1].price
    OBVIOUS
  <2>1. i \in 1..Len(w) /\ i - 1 \in 1..Len(w) /\ i \in 2..Len(z)
    BY <1>2, <1>4
  <2>2. w[i] = z[i] /\ w[i - 1] = z[i - 1]
    BY <1>4, <2>1
  <2> QED
    BY <2>1, <2>2, PivotsTurn DEF z
<1>7. /\ 1 \in 1..Len(w) /\ 2 \in 1..Len(w) /\ 3 \in 1..Len(w)
      /\ 2 \in 2..Len(w) /\ 3 \in 2..Len(w) /\ (Len(w) = 4 => 4 \in 2..Len(w) /\ 4 \in 1..Len(w))
      /\ 2 - 1 = 1 /\ 3 - 1 = 2 /\ 4 - 1 = 3
  <2>1. CASE Len(w) = 3
    BY <2>1
  <2>2. CASE Len(w) = 4
    BY <2>2
  <2> QED
    BY <1>3, <2>1, <2>2
<1>8. w[1].price \in Nat /\ w[2].price \in Nat /\ w[3].price \in Nat
  BY <1>5, <1>7 DEF Pivots
<1>9. IF w[1].kind = "low" THEN w[2].kind = "high" /\ w[2].price > w[1].price
                           ELSE w[2].kind = "low" /\ w[2].price < w[1].price
  BY <1>6, <1>7
<1>10. IF w[2].kind = "low" THEN w[3].kind = "high" /\ w[3].price > w[2].price
                            ELSE w[3].kind = "low" /\ w[3].price < w[2].price
  BY <1>6, <1>7
<1>11. Above(w, 2, 1)
  BY <1>9 DEF Above, Bullish
<1>12. Len(w) = 4 => Above(w, 4, 3)
  <2>1. Len(w) = 4 => IF w[3].kind = "low" THEN w[4].kind = "high" /\ w[4].price > w[3].price
                                           ELSE w[4].kind = "low" /\ w[4].price < w[3].price
    BY <1>6, <1>7
  <2> QED
    BY <1>9, <1>10, <2>1 DEF Above, Bullish
<1>13. InZone(w) => /\ Leg(w, 1) \in Int /\ Leg(w, 2) \in Int /\ Leg(w, 1) > 0
                    /\ 1000 * Leg(w, 2) <= 618 * Leg(w, 1) /\ Leg(w, 2) >= 0
  <2>1. /\ AbsGap(w[1 + 1].price, w[1].price) \in Int
        /\ AbsGap(w[2 + 1].price, w[2].price) \in Int /\ AbsGap(w[2 + 1].price, w[2].price) >= 0
    BY <1>8 DEF AbsGap
  <2> QED
    BY <2>1 DEF InZone, AtMost, Leg
<1>14. Above(w, 3, 1)
  <2>1. CASE Len(w) = 4
    BY <1>3, <2>1 DEF Invalidated, Wave2Floor, Confirmed
  <2>2. CASE Len(w) = 3
    <3>1. Leg(w, 2) < Leg(w, 1)
      BY <1>3, <1>13, <2>2
    <3>2. AbsGap(w[3].price, w[2].price) < AbsGap(w[2].price, w[1].price)
      BY <3>1 DEF Leg
    <3> QED
      BY <1>8, <1>9, <1>10, <3>2 DEF Above, Bullish, AbsGap
  <2> QED
    BY <1>3, <2>1, <2>2
<1>15. Recommendation(w) # "none"
  <2>1. Stage(w) \in {"Wave 2 Turning", "Wave 3 Initiation"}
    BY <1>3 DEF Stage
  <2> QED
    BY <1>3, <2>1 DEF Recommendation
<1>16. ASSUME Signal(points) = "WAVE2_REVERSAL", NEW f \in FibLevels(w) PROVE WithinTarget(f)
  <2>1. Len(w) = 3 /\ InZone(w)
    BY <1>3, <1>16
  <2>2. ~Confirmed(w, 3) /\ ~Confirmed(w, 4) /\ ~Confirmed(w, 8)
    BY <2>1 DEF Confirmed
  <2>3. f = [label |-> "Wave 2 Retracement", a |-> Leg(w, 2), b |-> Leg(w, 1), cap |-> 812]
    <3> DEFINE x == [label |-> "Wave 2 Retracement", a |-> Leg(w, 2), b |-> Leg(w, 1), cap |-> 812]
               x3 == [label |-> "Wave 3 Projection", a |-> Leg(w, 3), b |-> Leg(w, 1), cap |-> 2618]
               x4 == [label |-> "Wave 4 Retracement", a |-> Leg(w, 4), b |-> Leg(w, 3), cap |-> 500]
               xc == [label |-> "Wave C Extension", a |-> Leg(w, 8), b |-> Leg(w, 6), cap |-> 1618]
    <3>1. FibLevels(w) = UNION {IF Len(w) >= 3 THEN {x} ELSE {}, IF Confirmed(w, 3) THEN {x3} ELSE {},
                                IF Confirmed(w, 4) THEN {x4} ELSE {}, IF Confirmed(w, 8) THEN {xc} ELSE {}}
      BY DEF FibLevels
    <3> HIDE DEF x3, x4, xc
    <3> HIDE DEF x
    <3>2. f = x
      BY <2>2, <3>1
    <3> QED
      BY <3>2 DEF x
  <2>4. f.a = Leg(w, 2) /\ f.b = Leg(w, 1) /\ f.cap = 812
    BY <2>3
  <2>5. 1000 * Leg(w, 2) <= 812 * Leg(w, 1)
    BY <1>13, <2>1
  <2> QED
    BY <1>13, <2>1, <2>4, <2>5 DEF WithinTarget, AtMost
<1>17. Signal(points) = "WAVE3_IMPULSE" => Len(w) = 4
  BY <1>3
<1> QED
  BY <1>11, <1>12, <1>14, <1>15, <1>16, <1>17 DEF w, z

LEMMA WaveInitInv == WaveInit => points \in Series
<1> SUFFICES ASSUME NEW p \in WavePrices, NEW v \in {NoVolume} \cup Traded,
                    points = <<[price |-> p, day |-> 1, vol |-> v]>>
             PROVE  points \in Series
  BY DEF WaveInit
<1>1. p \in Nat \ {0} /\ v \in Int /\ 1 \in Nat
  BY WaveAssumption DEF NoVolume
<1>2. PICK s \in Samples : s = [price |-> p, day |-> 1, vol |-> v]
  BY <1>1 DEF Samples
<1>3. <<s>> \in Seq(Samples) /\ Len(<<s>>) = 1
  OBVIOUS
<1> QED
  BY <1>2, <1>3 DEF Series

LEMMA WaveStepInv == points \in Series /\ [WaveNext]_points => (points \in Series)'
<1> SUFFICES ASSUME points \in Series, WaveNext \/ points' = points PROVE points' \in Series
  OBVIOUS
<1>1. ASSUME NEW s \in Samples, points' = Append(points, s) PROVE points' \in Series
  <2>1. points \in Seq(Samples) /\ Len(points) >= 1
    BY DEF Series
  <2>2. Append(points, s) \in Seq(Samples) /\ Len(Append(points, s)) = Len(points) + 1 /\ Len(points) \in Nat
    BY <2>1
  <2> QED
    BY <1>1, <2>1, <2>2 DEF Series
<1>2. ASSUME NEW p \in WavePrices, IndexSample(p) PROVE points' \in Series
  <2>1. [price |-> p, day |-> 1, vol |-> NoVolume] \in Samples
    BY WaveAssumption DEF Samples, NoVolume
  <2> QED
    BY <1>1, <1>2, <2>1 DEF IndexSample
<1>3. ASSUME NEW p \in WavePrices, NEW traded \in Traded, NEW newDay \in BOOLEAN, StockSample(p, traded, newDay)
      PROVE  points' \in Series
  <2> DEFINE prev == Last(points)
             s == [price |-> p, day |-> IF newDay THEN prev.day + 1 ELSE prev.day,
                   vol |-> IF newDay THEN traded ELSE prev.vol + traded]
  <2>1. points \in Seq(Samples) /\ Len(points) \in Nat /\ Len(points) >= 1
    BY DEF Series
  <2>2. prev \in Samples
    BY <2>1 DEF Last
  <2>3. points' = Append(points, s)
    BY <1>3 DEF StockSample
  <2> HIDE DEF prev
  <2>4. s \in Samples
    <3>1. prev.day \in Nat /\ prev.vol \in Int /\ p \in Nat \ {0} /\ traded \in Nat
      BY <2>2, WaveAssumption DEF Samples
    <3> QED
      BY <3>1 DEF Samples
  <2> HIDE DEF s
  <2> QED
    BY <1>1, <2>3, <2>4
<1> QED
  BY <1>2, <1>3 DEF WaveNext

-----------------------------------------------------------------------------
(* The worker: a step of the whole is a step of one part.                  *)
MCWorkerInv ==
  FeedInv /\ CaptureInv /\ PushInv /\ StoreInv /\ ScanInv /\ points \in Series

LEMMA OnePartMoves ==
  ASSUME [WorkerNext]_workerVars
  PROVE  /\ [FeedNext]_feedVars /\ [CaptureNext]_captureVars /\ [PushNext]_pushVars
         /\ [StoreNext]_storeVars /\ [ScanNext]_scanVars /\ [WaveNext]_points
BY DEF WorkerNext, workerVars

LEMMA WorkerInitInv == WorkerInit => MCWorkerInv
BY FeedInitInv, CaptureInitInv, PushInitInv, StoreInitInv, ScanInitInv, WaveInitInv
   DEF WorkerInit, MCWorkerInv

LEMMA WorkerStepInv == MCWorkerInv /\ [WorkerNext]_workerVars => MCWorkerInv'
BY OnePartMoves, FeedStepInv, CaptureStepInv, PushStepInv, StoreStepInv, ScanStepInv, WaveStepInv
   DEF MCWorkerInv

LEMMA WorkerHolds == WorkerSpec => []MCWorkerInv
BY WorkerInitInv, WorkerStepInv, PTL DEF WorkerSpec

(* What is captured is fresh and complete: the socket in use carries all   *)
(* that was asked for, no capture works on an older cycle, retention is    *)
(* refused only after it met its cap or an empty chain's row, and a day    *)
(* inside the detail period can be replayed.                               *)
THEOREM WorkerCapturesSoundly == WorkerSpec => []CaptureIsSound
<1>1. MCWorkerInv => CaptureIsSound
  BY FreshIsFresh, StoreHolds DEF MCWorkerInv, CaptureIsSound, FeedInv
<1> QED
  BY <1>1, WorkerHolds, PTL

(* The zigzag's pivots are the extremes they are said to be, a signal only *)
(* comes of an intact count that runs its way and has its trade, whatever  *)
(* the prices, and nothing is scanned while the switch is off.             *)
THEOREM WorkerWavesAreSound == WorkerSpec => []WavesAreSound
<1>1. MCWorkerInv => WavesAreSound
  BY ZigZagIsTrue, SignalsSound DEF MCWorkerInv, WavesAreSound, ScanInv
<1> QED
  BY <1>1, WorkerHolds, PTL

(* The worker's jobs, their restarts and failures keep the gate: composed  *)
(* with them it is still the first-come first-served gate.                 *)
THEOREM WorkerKeepsGate == WorkerSpec => OneHeavyJob
<1>1. WorkerInit => LockInit
  BY DEF WorkerInit, CaptureInit
<1>2. MCWorkerInv /\ [WorkerNext]_workerVars => [Gate!GateNext]_(Gate!gateVars)
  BY OnePartMoves, CaptureIsLock, LockStepGate DEF MCWorkerInv, CaptureInv
<1> QED
  BY <1>1, <1>2, LockInitGate, WorkerHolds, PTL DEF WorkerSpec, OneHeavyJob, IsGate, Gate!GateSpec

(* No alert, of the market or of a wave, is repeated within its cooldown,  *)
(* whatever is retried, restarted or handed out twice.                     *)
THEOREM WorkerAlertsOnce == WorkerSpec => OncePerCooldownOfEach
<1>1. MCWorkerInv /\ [WorkerNext]_workerVars =>
        [\A d \in Devices : Delivered(d) => since[Owner[d]] >= Cooldown - SendTime]_pushVars
  BY OnePartMoves, PushOnce DEF MCWorkerInv
<1>2. MCWorkerInv /\ [WorkerNext]_workerVars =>
        [\A s \in Symbols3 : age'[s] = 0 /\ age[s] # 0 => age[s] > AlertCooldown]_scanVars
  BY OnePartMoves, ScanOnce DEF MCWorkerInv
<1> QED
  BY <1>1, <1>2, WorkerHolds, PTL
     DEF WorkerSpec, OncePerCooldownOfEach, OncePerCooldown, OneAlertPerCooldown

(* Once close() was called the feed opens no other socket.                 *)
THEOREM WorkerFeedStaysClosed == WorkerSpec => StaysClosed
<1>1. MCWorkerInv /\ [WorkerNext]_workerVars =>
        [stopped => ConnectingSockets(sockets') \subseteq ConnectingSockets(sockets)]_feedVars
  BY OnePartMoves, FeedStaysClosed DEF MCWorkerInv
<1> QED
  BY <1>1, WorkerHolds, PTL DEF WorkerSpec, StaysClosed
=============================================================================
