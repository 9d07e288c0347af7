---------------------------- MODULE MarketStore ----------------------------
(***************************************************************************)
(* The option-chain store of one underlying: packages/db/src/market-       *)
(* repository.ts, written by the worker's captures and by the API's        *)
(* write-through (persistLiveSnapshotInBackground in apps/api/src/         *)
(* server.ts), pruned by the worker's retention job.  A snapshot row       *)
(* carries two kinds of detail rows, its ticks and its pressure score,     *)
(* each with a foreign key that forbids deleting the row under it.  A      *)
(* chain of strikes without a single leg is stored too: a score, no tick.  *)
(***************************************************************************)
EXTENDS Naturals, FiniteSets, FiniteSetsExt

CONSTANTS
  ExpiryDays,    \* the days on which a contract of the underlying expires
  Writers,       \* tasks that save snapshots, "worker" among them
  DayLen,        \* ticks of the clock in a trading day
  DetailDays,    \* SNAPSHOT_RETENTION_DAYS, in ticks
  SpotDays,      \* SPOT_PRICE_RETENTION_DAYS, in ticks
  BatchSize,     \* SNAPSHOT_RETENTION_BATCH_SIZE
  MaxBatches,    \* the cap of each pruning loop (200 in the code)
  SaveTime,      \* how long a save may take, in ticks, before it times out
  StoreMaxTime,  \* bound: the clock
  MaxSaves,      \* bound: snapshots fetched
  MaxEmpty,      \* bound: chains that come without a leg
  MaxStoreCrashes \* bound: restarts of the worker

ASSUME StoreConstants ==
  /\ ExpiryDays \subseteq Nat /\ DayLen \in Nat \ {0}
  /\ {DetailDays, SpotDays, SaveTime, StoreMaxTime, MaxSaves, MaxEmpty, MaxStoreCrashes} \subseteq Nat
  /\ {BatchSize, MaxBatches} \subseteq Nat \ {0} /\ "worker" \in Writers
  /\ SaveTime <= DetailDays

VARIABLES
  now,         \* the wall clock
  saves,       \* snapshots fetched so far: their identities
  empty,       \* those of them whose chain has no leg
  expiryRows,  \* Expiry rows
  snaps,       \* OptionChainSnapshot rows
  ticked,      \* identities that have OptionContractTick rows
  scored,      \* identities that have a PressureScore row
  saving,      \* what each writer is saving, and how far it is
  prune,       \* the retention job
  storeCrashes

storeVars == <<now, saves, empty, expiryRows, snaps, ticked, scored, saving, prune, storeCrashes>>
rows == <<empty, expiryRows, snaps, ticked, scored>>

DayOf(t) == t \div DayLen
NoSave == [pc |-> "idle", snap |-> [id |-> 0, expiry |-> 0, time |-> 0]]
NoPrune == [pc |-> "idle", ids |-> {}, batches |-> 0, capped |-> FALSE,
            detail |-> 0, spot |-> 0]
Ids(S) == {s.id : s \in S}
Oldest(S) == CHOOSE s \in S : \A t \in S : <<s.time, s.id>> = <<t.time, t.id>> \/ s.time < t.time
                                            \/ (s.time = t.time /\ s.id < t.id)
Newest(S) == CHOOSE s \in S : \A t \in S : s.time > t.time \/ (s.time = t.time /\ s.id >= t.id)
FirstOf(S, n) == {s \in S : Cardinality({t \in S : t.time < s.time \/ (t.time = s.time /\ t.id < s.id)}) < n}

-----------------------------------------------------------------------------
(* Reading.                                                                *)

(* resolveNearestExpiryId: the soonest stored contract that can still be   *)
(* traded; none when every stored one is past.                             *)
NearestExpiry == LET live == {e \in expiryRows : e >= DayOf(now)}
                 IN IF live = {} THEN {} ELSE {Min(live)}

(* getLatestOptionChainSnapshot: the rows an overview may come from, for a *)
(* requested expiry ({} when the client names none).                       *)
Candidates(requested) ==
  LET expiry == IF requested # {} THEN requested \cap expiryRows ELSE NearestExpiry
  IN IF requested # {} /\ expiry = {} THEN {}
     ELSE {s \in snaps : expiry = {} \/ s.expiry \in expiry}
Latest(requested) == {s \in Candidates(requested) : s = Newest(Candidates(requested))}

(* getSessionOpenReferenceMap: the day's first row, today's anchor.        *)
SessionOpen(e, day) ==
  LET S == {s \in snaps : s.expiry = e /\ DayOf(s.time) = day}
  IN {s \in S : s = Oldest(S)}

(* listReplayTradingDates and listReplaySnapshots.                         *)
ReplayDates(e) == {DayOf(s.time) : s \in {t \in snaps : t.expiry = e}}
ReplaySnapshots(e, day) == {s \in snaps : s.expiry = e /\ DayOf(s.time) = day}

-----------------------------------------------------------------------------
(* Saving: the chain is fetched and stamped, its metadata is upserted      *)
(* outside any transaction, then the row and its details are inserted in   *)
(* one.  Writers do not wait for each other.                               *)
Fetch(w, e) ==
  /\ saving[w].pc = "idle" /\ saves < MaxSaves /\ e >= DayOf(now)
  /\ saves' = saves + 1
  /\ \/ empty' = empty
     \/ empty' = empty \cup {saves'} /\ Cardinality(empty) < MaxEmpty
  /\ saving' = [saving EXCEPT ![w] =
       [pc |-> "fetched", snap |-> [id |-> saves', expiry |-> e, time |-> now]]]
  /\ UNCHANGED <<now, expiryRows, snaps, ticked, scored, prune, storeCrashes>>

UpsertMetadata(w) ==
  /\ saving[w].pc = "fetched"
  /\ expiryRows' = expiryRows \cup {saving[w].snap.expiry}
  /\ saving' = [saving EXCEPT ![w].pc = "upserted"]
  /\ UNCHANGED <<now, saves, empty, snaps, ticked, scored, prune, storeCrashes>>

InsertSnapshot(w) ==
  /\ saving[w].pc = "upserted"
  /\ LET s == saving[w].snap
     IN /\ snaps' = snaps \cup {s}
        /\ ticked' = ticked \cup ({s.id} \ empty)
        /\ scored' = scored \cup {s.id}
  /\ saving' = [saving EXCEPT ![w] = NoSave]
  /\ UNCHANGED <<now, saves, empty, expiryRows, prune, storeCrashes>>

SaveFails(w) ==
  /\ saving[w].pc \in {"fetched", "upserted"}
  /\ saving' = [saving EXCEPT ![w] = NoSave]
  /\ UNCHANGED <<now, saves, rows, prune, storeCrashes>>

-----------------------------------------------------------------------------
(* Retention.  runRetentionOnce never lets the rows go before their        *)
(* details, whatever the configuration says.                               *)
SpotRetentionAsConfigured == SpotDays
SpotRetention == Max({SpotDays, DetailDays})
Cutoff(days) == IF now > days THEN now - days ELSE 0

PruneStart ==
  /\ prune.pc = "idle"
  /\ \E s \in snaps : s.time < Cutoff(DetailDays)
  /\ prune' = [NoPrune EXCEPT !.pc = "list", !.detail = Cutoff(DetailDays),
                              !.spot = Cutoff(SpotRetention)]
  /\ UNCHANGED <<now, saves, rows, saving, storeCrashes>>

Stale == {s \in snaps : s.time < prune.detail /\ s.id \in ticked}
Expired == {s \in snaps : s.time < prune.spot}

(* First loop: the oldest rows that still have ticks, a batch at a time.   *)
ListStale ==
  /\ prune.pc = "list"
  /\ prune' = IF Stale = {} \/ prune.batches = MaxBatches
              THEN [prune EXCEPT !.pc = "list rows", !.batches = 0, !.capped = Stale # {}]
              ELSE [prune EXCEPT !.pc = "detail 1", !.ids = Ids(FirstOf(Stale, BatchSize))]
  /\ UNCHANGED <<now, saves, rows, saving, storeCrashes>>

DeleteScores == scored' = scored \ prune.ids /\ UNCHANGED ticked
DeleteTicks == ticked' = ticked \ prune.ids /\ UNCHANGED scored
DeleteDetailSwapped(n) == IF n = 1 THEN DeleteTicks ELSE DeleteScores
DeleteDetail(n) == IF n = 1 THEN DeleteScores ELSE DeleteTicks

PruneScores ==
  /\ prune.pc = "detail 1" /\ DeleteDetail(1)
  /\ prune' = [prune EXCEPT !.pc = "detail 2"]
  /\ UNCHANGED <<now, saves, empty, expiryRows, snaps, saving, storeCrashes>>

PruneTicks ==
  /\ prune.pc = "detail 2" /\ DeleteDetail(2)
  /\ prune' = IF Cardinality(prune.ids) < BatchSize
              THEN [prune EXCEPT !.pc = "list rows", !.batches = 0, !.ids = {}]
              ELSE [prune EXCEPT !.pc = "list", !.batches = @ + 1, !.ids = {}]
  /\ UNCHANGED <<now, saves, empty, expiryRows, snaps, saving, storeCrashes>>

(* Second loop: the bare rows; the foreign keys reject a row with details. *)
DeleteRows ==
  /\ prune.pc = "list rows"
  /\ LET old == FirstOf(Expired, BatchSize)
         held == Ids(old) \cap (ticked \cup scored) # {}
         last == old = {} \/ prune.batches = MaxBatches
     IN IF held /\ ~last
        THEN prune' = [prune EXCEPT !.pc = "rejected"] /\ UNCHANGED snaps
        ELSE /\ snaps' = IF last THEN snaps ELSE snaps \ old
             /\ prune' = IF last \/ Cardinality(old) < BatchSize THEN NoPrune
                         ELSE [prune EXCEPT !.batches = @ + 1]
  /\ UNCHANGED <<now, saves, empty, expiryRows, ticked, scored, saving, storeCrashes>>

(* The job failed; the next run starts from the beginning.                 *)
PruneFailed ==
  /\ prune.pc = "rejected" /\ prune' = NoPrune
  /\ UNCHANGED <<now, saves, rows, saving, storeCrashes>>

PruneStep == PruneStart \/ ListStale \/ PruneScores \/ PruneTicks \/ DeleteRows \/ PruneFailed

(* The worker restarts between any two statements.                         *)
StoreCrash ==
  /\ storeCrashes < MaxStoreCrashes /\ storeCrashes' = storeCrashes + 1
  /\ prune' = NoPrune /\ saving' = [saving EXCEPT !["worker"] = NoSave]
  /\ UNCHANGED <<now, saves, rows>>

(* A save ends, or times out, long before its row would be pruned.         *)
Tick ==
  /\ now < StoreMaxTime /\ now' = now + 1
  /\ \A w \in Writers : saving[w].pc # "idle" => now < saving[w].snap.time + SaveTime
  /\ UNCHANGED <<saves, rows, saving, prune, storeCrashes>>

StoreInit ==
  /\ now = 0 /\ saves = 0 /\ empty = {} /\ expiryRows = {} /\ snaps = {} /\ ticked = {} /\ scored = {}
  /\ saving = [w \in Writers |-> NoSave] /\ prune = NoPrune /\ storeCrashes = 0

Save(w) == UpsertMetadata(w) \/ InsertSnapshot(w) \/ SaveFails(w)

StoreNext ==
  \/ \E w \in Writers : Save(w) \/ \E e \in ExpiryDays : Fetch(w, e)
  \/ PruneStep \/ StoreCrash \/ Tick

StoreSpec == StoreInit /\ [][StoreNext]_storeVars

(* The retention job is scheduled again and again, and its statements end. *)
StoreFair == WF_storeVars(PruneStep)

-----------------------------------------------------------------------------
(* Rows that stand in the way of retention: past the longer period, scored *)
(* and never ticked, so that the first loop does not list them.            *)
Held(S) == {s \in S : s.id \in empty \cap scored}

(* The foreign keys never fail a run of retention, whatever the two        *)
(* retention periods are set to: a rejection would lose the whole night's  *)
(* second phase.  (A run that hit the cap of its first loop is excused,    *)
(* and so is one that met an empty chain's row.)                           *)
NeverRejected == prune.pc = "rejected" => prune.capped \/ Held(Expired) # {}

(* Every row older than the longer retention period goes in the end, with  *)
(* all its details, wherever a restart cut an earlier run short, until the *)
(* row of an empty chain is as old.                                        *)
ExpiredNow == {s \in snaps : s.time < Cutoff(SpotRetention)}
Pruned(i) == i \notin Ids(snaps) \cup ticked \cup scored
OldRowsGo ==
  \A i \in 1..MaxSaves : (i \in Ids(ExpiredNow)) ~> (Pruned(i) \/ Held(ExpiredNow) # {})

(* "Only days with real data are selectable" (market-repository.ts:658):   *)
(* the snapshots of a day the replay calendar offers keep what was stored  *)
(* with them for the whole detail period, whatever a slow save or a        *)
(* cut-off run of the retention leaves behind.  (Beyond it the calendar    *)
(* goes on offering days whose ticks are gone, as long as the bare rows    *)
(* stand, and it offers the day of an empty chain.)                        *)
KeptDaysReplay ==
  \A e \in ExpiryDays : \A day \in ReplayDates(e) : \A s \in ReplaySnapshots(e, day) :
    s.time >= Cutoff(DetailDays) => s.id \in scored /\ (s.id \in ticked \/ s.id \in empty)

(* The row a day's moves are measured from: once a save's time has passed  *)
(* since the day's first row it stays the same row all day, whoever saves  *)
(* and whatever retention does; before that only a save that was under way *)
(* when it was written, of an earlier or the same moment, may replace it.  *)
AnchorHolds ==
  [][\A e \in ExpiryDays, day \in 0..StoreMaxTime : \A a \in SessionOpen(e, day) :
       day = DayOf(now) =>
         \/ SessionOpen(e, day)' = {a}
         \/ /\ now <= a.time + SaveTime
            /\ \E w \in Writers : SessionOpen(e, day)' = {saving[w].snap}
                                   /\ saving[w].snap.time <= a.time]_storeVars

=============================================================================
