----------------------------- MODULE LiveScreen -----------------------------
(***************************************************************************)
(* What the live panel shows of one contract and of the account's funds    *)
(* (getLiveSummary in packages/db/src/live-repository.ts), polled once a   *)
(* second: the row the reconcile job keeps, the tick cache the feed writes *)
(* through Redis (apps/worker/src/live-tick-cache.ts) and two caches of    *)
(* the API process.  Prices, funds and deltas are numbers that move.       *)
(***************************************************************************)
EXTENDS Integers, Sequences

CONSTANTS
  Panels,      \* browser tabs polling the summary
  Marks,       \* prices of the contract
  Cost,        \* what it was opened at
  FundsTtl, DeltaTtl,   \* FUNDS_CACHE_MS, DELTA_CACHE_MS
  TickStale, TickTtl,   \* LIVE_TICK_STALENESS_MS, LIVE_TICK_CACHE_TTL_SEC
  ReplyTime,   \* the longest Dhan may take to answer before the call is given up
  MaxScreenTime, MaxTrades, MaxPolls \* bounds: the clock, what the market does, summaries

ASSUME ScreenAssumption ==
  /\ {FundsTtl, DeltaTtl, TickStale, TickTtl} \subseteq Nat \ {0}
  /\ ReplyTime \in Nat /\ Cost \in Nat /\ Marks \subseteq Nat \ {0}

VARIABLES
  dhan,     \* at Dhan: the price it values at, the quantity held
  packets,  \* feed packets between their GET and their SET, in order
  tickKey,  \* the Redis key of the contract's merged tick
  posRow,   \* the contract's OPEN LivePosition row, or that there is none
  markJob,  \* the reconcile job, after its sweep: the mark it read
  chain,    \* the delta of the newest captured chain row
  fundsHeld, deltaHeld, \* fundsCache and deltaCache
  panel,    \* each tab's summary
  screenTime, traded, polls

screenVars == <<dhan, packets, tickKey, posRow, markJob, chain, fundsHeld, deltaHeld,
                panel, screenTime, traded, polls>>
feedSide == <<dhan, packets, tickKey, chain, traded>>
jobSide == <<posRow, markJob>>
pageSide == <<fundsHeld, deltaHeld, panel, polls>>

Nothing == 0
NoTick == [ltp |-> Nothing, received |-> 0, till |-> 0]
NoRow == [open |-> FALSE, qty |-> 0, pnl |-> 0, last |-> Nothing, valued |-> Nothing]
NoFunds == [asOf |-> 0, at |-> 0, kept |-> FALSE]
NoDelta == [delta |-> Nothing, at |-> 0, kept |-> FALSE]
NoPanel == [pc |-> "idle", began |-> 0, asOf |-> 0, funds |-> FALSE, row |-> NoRow,
            delta |-> Nothing, deltaAt |-> 0]

ScreenInit ==
  /\ dhan = [mark |-> Cost, qty |-> -1] /\ packets = <<>> /\ tickKey = NoTick
  /\ posRow = NoRow /\ markJob = Nothing /\ chain = Nothing
  /\ fundsHeld = NoFunds /\ deltaHeld = NoDelta
  /\ panel = [b \in Panels |-> NoPanel] /\ screenTime = 0 /\ traded = 0 /\ polls = 0

(* A call to Dhan is answered or given up in its time.                     *)
ScreenTick ==
  /\ screenTime < MaxScreenTime
  /\ \A b \in Panels : panel[b].pc \in {"asked", "answered"} => screenTime < panel[b].began + ReplyTime
  /\ screenTime' = screenTime + 1
  /\ UNCHANGED <<feedSide, jobSide, pageSide>>

-----------------------------------------------------------------------------
(* The key as a reader finds it, if it has not expired.                    *)
MergedTick == IF screenTime < tickKey.till THEN tickKey ELSE NoTick

(* getLiveTick: fresh by when any packet last came, not by its price.      *)
FreshMark ==
  IF MergedTick.ltp # Nothing /\ screenTime - MergedTick.received <= TickStale THEN MergedTick.ltp ELSE Nothing

(* cacheLiveTick, first half: a Quote or Ticker packet carries a price, a  *)
(* PrevClose none; the cached tick it will be merged into is read now.     *)
Packet(price) ==
  /\ Len(packets) < 2
  /\ packets' = Append(packets, [ltp |-> price, base |-> MergedTick, received |-> screenTime])

(* A trade moves what Dhan values at; its packet may not come.             *)
TradeAt(m) ==
  /\ traded < MaxTrades /\ traded' = traded + 1
  /\ dhan' = [dhan EXCEPT !.mark = m]
  /\ Packet(m) \/ UNCHANGED packets
  /\ UNCHANGED <<tickKey, chain, jobSide, pageSide, screenTime>>

PrevClose ==
  /\ traded < MaxTrades /\ traded' = traded + 1 /\ Packet(Nothing)
  /\ UNCHANGED <<dhan, tickKey, chain, jobSide, pageSide, screenTime>>

(* Its second half: the fields the packet lacks are those read before.     *)
CacheTick ==
  /\ packets # <<>>
  /\ LET p == Head(packets)
     IN tickKey' = [ltp |-> IF p.ltp = Nothing THEN p.base.ltp ELSE p.ltp,
                    received |-> p.received, till |-> screenTime + TickTtl]
  /\ packets' = Tail(packets)
  /\ UNCHANGED <<dhan, chain, traded, jobSide, pageSide, screenTime>>

(* The account trades in or out of the contract; the chain is captured,    *)
(* most often with no delta.                                               *)
DhanFills ==
  /\ traded < MaxTrades /\ traded' = traded + 1
  /\ dhan' = [dhan EXCEPT !.qty = -1 - @]
  /\ UNCHANGED <<packets, tickKey, chain, jobSide, pageSide, screenTime>>

ChainCaptured(delta) ==
  /\ traded < MaxTrades /\ traded' = traded + 1 /\ chain' = delta
  /\ UNCHANGED <<dhan, packets, tickKey, jobSide, pageSide, screenTime>>

-----------------------------------------------------------------------------
(* reconcileLiveAccount keeps the row's last price when it refreshes the   *)
(* rest of it with what Dhan says, and closes it when Dhan is flat.        *)
SweepPosition ==
  /\ markJob = Nothing
  /\ posRow' = IF dhan.qty = 0 THEN NoRow
               ELSE [open |-> TRUE, qty |-> dhan.qty, pnl |-> dhan.qty * (dhan.mark - Cost),
                     last |-> posRow.last, valued |-> dhan.mark]
  /\ markJob' = IF posRow'.open THEN FreshMark ELSE Nothing
  /\ UNCHANGED <<feedSide, pageSide, screenTime>>

(* persistLastPrice, of a fresh mark, on whatever is open by then.         *)
PersistLastPrice ==
  /\ markJob # Nothing
  /\ posRow' = IF posRow.open THEN [posRow EXCEPT !.last = markJob] ELSE posRow
  /\ markJob' = Nothing
  /\ UNCHANGED <<feedSide, pageSide, screenTime>>

-----------------------------------------------------------------------------
(* getLiveSummary, part by part.                                           *)
Showing(b, s) == panel' = [panel EXCEPT ![b] = s]

FundsHitForever == fundsHeld.kept   \* mutant: funds are cached for good
FundsHit == fundsHeld.kept /\ screenTime - fundsHeld.at < FundsTtl

(* The funds are those kept, or Dhan is asked.                             *)
AskSummary(b) ==
  /\ panel[b].pc \in {"idle", "shown"} /\ polls < MaxPolls /\ polls' = polls + 1
  /\ Showing(b, [NoPanel EXCEPT !.pc = IF FundsHit THEN "rows" ELSE "asked", !.began = screenTime,
                                !.funds = FundsHit, !.asOf = IF FundsHit THEN fundsHeld.asOf ELSE 0])
  /\ UNCHANGED <<feedSide, jobSide, fundsHeld, deltaHeld, screenTime>>

FundsAnswered(b) ==
  /\ panel[b].pc = "asked"
  /\ Showing(b, [panel[b] EXCEPT !.pc = "answered", !.asOf = screenTime])
  /\ UNCHANGED <<feedSide, jobSide, fundsHeld, deltaHeld, polls, screenTime>>

(* A failed read shows no funds, and the rest all the same.                *)
FundsFail(b) ==
  /\ panel[b].pc \in {"asked", "answered"}
  /\ Showing(b, [panel[b] EXCEPT !.pc = "rows", !.asOf = 0])
  /\ UNCHANGED <<feedSide, jobSide, fundsHeld, deltaHeld, polls, screenTime>>

(* The cache is stamped with when the answer came, the last to come wins.  *)
FundsArrive(b) ==
  /\ panel[b].pc = "answered"
  /\ Showing(b, [panel[b] EXCEPT !.pc = "rows", !.funds = TRUE])
  /\ fundsHeld' = [asOf |-> panel[b].asOf, at |-> screenTime, kept |-> TRUE]
  /\ UNCHANGED <<feedSide, jobSide, deltaHeld, polls, screenTime>>

ReadRows(b) ==
  /\ panel[b].pc = "rows"
  /\ Showing(b, [panel[b] EXCEPT !.pc = "greeks", !.row = posRow])
  /\ UNCHANGED <<feedSide, jobSide, fundsHeld, deltaHeld, polls, screenTime>>

(* A zero is a miss, and a miss is kept as long as a delta.                *)
DeltaHit == deltaHeld.kept /\ screenTime - deltaHeld.at < DeltaTtl

ReadDelta(b) ==
  /\ panel[b].pc = "greeks"
  /\ LET held == IF DeltaHit THEN deltaHeld ELSE [delta |-> chain, at |-> screenTime, kept |-> TRUE]
     IN IF panel[b].row.open
        THEN /\ deltaHeld' = held
             /\ Showing(b, [panel[b] EXCEPT !.pc = "marks", !.delta = held.delta, !.deltaAt = held.at])
        ELSE UNCHANGED deltaHeld /\ Showing(b, [panel[b] EXCEPT !.pc = "marks"])
  /\ UNCHANGED <<feedSide, jobSide, fundsHeld, polls, screenTime>>

(* Mutant of Marked: the P&L is worked out again from the feed's price.    *)
MarkedAnew(row, price) ==
  IF row.open /\ price # Nothing
  THEN [row EXCEPT !.last = price, !.pnl = row.qty * (price - Cost)] ELSE row

(* applyLiveMark: a fresh price replaces the row's, and nothing else.      *)
Marked(row, price) == IF row.open /\ price # Nothing THEN [row EXCEPT !.last = price] ELSE row

ShowSummary(b) ==
  /\ panel[b].pc = "marks"
  /\ Showing(b, [panel[b] EXCEPT !.pc = "shown", !.row = Marked(panel[b].row, FreshMark)])
  /\ UNCHANGED <<feedSide, jobSide, fundsHeld, deltaHeld, polls, screenTime>>

Summarise(b) ==
  \/ AskSummary(b) \/ FundsAnswered(b) \/ FundsFail(b) \/ FundsArrive(b)
  \/ ReadRows(b) \/ ReadDelta(b) \/ ShowSummary(b)

ScreenNext ==
  \/ ScreenTick \/ PrevClose \/ CacheTick \/ DhanFills \/ SweepPosition \/ PersistLastPrice
  \/ \E m \in Marks : TradeAt(m)
  \/ \E d \in {Nothing, 1} : ChainCaptured(d)
  \/ \E b \in Panels : Summarise(b)

ScreenSpec == ScreenInit /\ [][ScreenNext]_screenVars

-----------------------------------------------------------------------------
(* The P&L a panel shows is the one Dhan reported in the sweep that wrote  *)
(* the row, whatever the feed says (live-repository.ts:2818-2833).         *)
PnlIsBrokers ==
  \A b \in Panels : panel[b].pc = "shown" /\ panel[b].row.open
    => panel[b].row.pnl = panel[b].row.qty * (panel[b].row.valued - Cost)

(* Funds shown are no older than the cache may keep them and a call may    *)
(* take; a delta no older than its cache (live-repository.ts:2534-2544).   *)
ScreenIsRecent ==
  \A b \in Panels : panel[b].pc = "shown" =>
    /\ panel[b].funds => panel[b].asOf + FundsTtl + ReplyTime > panel[b].began
    /\ panel[b].delta # Nothing => panel[b].deltaAt + DeltaTtl > panel[b].began
=============================================================================
