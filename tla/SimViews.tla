------------------------------ MODULE SimViews ------------------------------
(***************************************************************************)
(* What the simulator shows of an account and what its jobs write about    *)
(* open trades (packages/db/src/sim-repository.ts): the summary and the    *)
(* admin's list, put together from reads made one after the other; the     *)
(* stress grid; mark-to-market rows and exit flags.  SimBook has the       *)
(* trades' life; here a trade is opened and ended by whoever may.          *)
(* Margins are in fifths of a point: a stock's base is a fifth of the spot.*)
(***************************************************************************)
EXTENDS Integers, SequencesExt, FiniteSets, FiniteSetsExt

CONSTANTS
  Structures,   \* each trade's legs: [side, type, strike]
  Defined,      \* the trades whose loss their wings cap
  Quotes,       \* snapshots: a spot and the price of each leg they have
  Shifts,       \* STRESS_SPOT_SHIFTS, in points
  Opening,      \* the account's capital
  DayUnits, SampleEvery,       \* the clock's units in a day, INTRADAY_MTM_SAMPLE_MS
  RampDay,      \* the day DTE_GAMMA_THRESHOLD_DAYS before expiry
  ShownClosed,  \* closed trades a summary reads: 50
  MaxViewTime, MaxQuotes, MaxRuns \* bounds: the clock, quotes, reads and runs

Shown == DOMAIN Structures
Legs == UNION {{<<t, l>> : l \in Structures[t]} : t \in Shown}

ASSUME ViewAssumption ==
  /\ \A q \in Quotes : q.spot \in Nat \ {0} /\ \A l \in DOMAIN q.price : q.price[l] \in Nat \ {0}
  /\ Shifts \subseteq Int /\ Opening \in Nat
  /\ DayUnits \in Nat \ {0} /\ SampleEvery \in Nat \ {0} /\ ShownClosed \in Nat
  /\ Defined \subseteq DOMAIN Structures /\ \A t \in DOMAIN Structures : IsFiniteSet(Structures[t])

VARIABLES
  held,     \* SimTrade: st, credit, bpe, pnl
  ended,    \* the ended trades, oldest first
  vcash,    \* SimAccount.cash
  spot, tick,   \* the latest snapshot's spot, each leg's latest tick
  marked,    \* SimMtmSnapshot: [t, ts, source]
  flags,    \* SimExitEvent: how often each rule was flagged
  runs,     \* the end-of-day job and the intraday engine
  view,     \* the summary or the admin's list being read
  grid,     \* the stress grid shown last
  vclock, quotes

viewVars == <<held, ended, vcash, spot, tick, marked, flags, runs, view, grid, vclock, quotes>>
viewRows == <<held, ended, vcash>>
viewMarket == <<spot, tick, quotes>>

Unknown == 0
FlagRules == {"PROFIT_TARGET", "HARD_STOP_3X", "DTE_GAMMA", "DELIVERY_RISK"}
NotHeld == [st |-> "NONE", credit |-> 0, bpe |-> 0, pnl |-> 0]
NoRun == [left |-> {}, at |-> 0]
NoGrid == [spot |-> Unknown, ramp |-> 1, of |-> {}, margin |-> [d \in Shifts |-> 0]]
NoView == [at |-> "off", kind |-> "none", cash |-> 0, open |-> {}, closed |-> <<>>,
           todo |-> {}, unreal |-> 0, clean |-> TRUE]

ViewInit ==
  /\ held = [t \in Shown |-> NotHeld] /\ ended = <<>> /\ vcash = Opening
  /\ spot = Unknown /\ tick = [l \in Legs |-> Unknown]
  /\ marked = {} /\ flags = [t \in Shown |-> [r \in FlagRules |-> 0]]
  /\ runs = [eod |-> NoRun, engine |-> NoRun, made |-> 0]
  /\ view = NoView /\ grid = NoGrid /\ vclock = 0 /\ quotes = 0

VDay == vclock \div DayUnits
HeldNow == {t \in Shown : held[t].st = "OPEN"}

ViewTime ==
  /\ vclock < MaxViewTime /\ vclock' = vclock + 1
  /\ UNCHANGED <<viewRows, viewMarket, marked, flags, runs, view, grid>>

(* A captured snapshot: a spot and the ticks of the legs it has.           *)
Captured(q) ==
  /\ quotes < MaxQuotes /\ quotes' = quotes + 1
  /\ spot' = q.spot
  /\ tick' = [l \in Legs |-> IF l \in DOMAIN q.price THEN q.price[l] ELSE tick[l]]
  /\ UNCHANGED <<viewRows, marked, flags, runs, view, grid, vclock>>

-----------------------------------------------------------------------------
(* computeTradeCloseCost: a trade with a leg without a tick has no price.  *)
LegsOf(t) == {l \in Legs : l[1] = t}
Priced(t) == \A l \in LegsOf(t) : tick[l] # Unknown
CloseCost(t) == MapThenSumSet(LAMBDA l : IF l[2].side = "SELL" THEN tick[l] ELSE -tick[l], LegsOf(t))

(* shortLegMarginPerUnit: the base, and what the leg is in the money.      *)
PastStrike(l, s) == IF l[2].type = "CE" THEN s - l[2].strike ELSE l[2].strike - s
LegMargin(l, s) == s + 5 * Max({0, PastStrike(l, s)})
ShortLegs(t) == {l \in LegsOf(t) : l[2].side = "SELL"}

(* The delivery week doubles a stock's margin.                             *)
Ramp == IF VDay >= RampDay THEN 2 ELSE 1

(* computeDynamicMarginForTrade: what the account blocks for a trade.      *)
LiveMargin(t) ==
  IF t \in Defined \/ spot = Unknown THEN held[t].bpe
  ELSE Ramp * MapThenSumSet(LAMBDA l : LegMargin(l, spot), ShortLegs(t))

(* What a ticket is stored with: the wider wing less the credit, or the    *)
(* margin of the short legs, which is nothing if no spot is known.         *)
Width(t) ==
  LET wings == {p \in ShortLegs(t) \X (LegsOf(t) \ ShortLegs(t)) : p[1][2].type = p[2][2].type}
  IN  Max({0} \cup UNION {{p[1][2].strike - p[2][2].strike, p[2][2].strike - p[1][2].strike} : p \in wings})
EntryMargin(t, credit) ==
  IF t \in Defined THEN 5 * (Width(t) - credit)
  ELSE IF spot = Unknown THEN 0 ELSE MapThenSumSet(LAMBDA l : LegMargin(l, spot), ShortLegs(t))

(* A trade is opened or ended by a person, a rule or the sweep; of one     *)
(* settled at expiry only the price would differ.                          *)
Outdated(v) == IF v.at = "off" THEN v ELSE [v EXCEPT !.clean = FALSE]

OpenHeld(t) ==
  /\ held[t].st = "NONE" /\ Priced(t) /\ CloseCost(t) > 0
  /\ held' = [held EXCEPT ![t] = [st |-> "OPEN", credit |-> CloseCost(t), pnl |-> 0,
                                  bpe |-> EntryMargin(t, CloseCost(t))]]
  /\ view' = Outdated(view)
  /\ UNCHANGED <<ended, vcash, viewMarket, marked, flags, runs, vclock, grid>>

EndHeld(t, status) ==
  /\ held[t].st = "OPEN" /\ Priced(t)
  /\ LET pnl == held[t].credit - CloseCost(t)
     IN /\ held' = [held EXCEPT ![t].st = status, ![t].pnl = pnl]
        /\ vcash' = vcash + pnl
  /\ ended' = Append(ended, t) /\ view' = Outdated(view)
  /\ UNCHANGED <<viewMarket, marked, flags, runs, vclock, grid>>

-----------------------------------------------------------------------------
(* buildSimSummary reads the account, then the open and the closed trades  *)
(* at once, then each open trade's market; listSimAccountsForAdmin the     *)
(* account and its sums.                                                   *)
ViewStart(kind) ==
  /\ view.at \in {"off", "told"} /\ runs.made < MaxRuns
  /\ view' = [NoView EXCEPT !.at = "lists", !.kind = kind, !.cash = vcash]
  /\ runs' = [runs EXCEPT !.made = @ + 1]
  /\ UNCHANGED <<viewRows, viewMarket, marked, flags, vclock, grid>>

ReadOpen ==
  /\ view.at \in {"lists", "closed"}
  /\ view' = [view EXCEPT !.open = HeldNow, !.todo = HeldNow,
                          !.at = IF @ = "closed" THEN "marks" ELSE "open"]
  /\ UNCHANGED <<viewRows, viewMarket, marked, flags, runs, vclock, grid>>

(* Mutant of EndedOf: a liquidated trade is not among the closed ones.     *)
EndedOfTraders(kind) == SelectSeq(ended, LAMBDA t : held[t].st # "LIQUIDATED")

(* The closed trades read: the newest of them, or the sum of them all.     *)
EndedOf(kind) ==
  IF kind = "admin" THEN ended
  ELSE SubSeq(ended, IF Len(ended) > ShownClosed THEN Len(ended) - ShownClosed + 1 ELSE 1, Len(ended))

ReadClosed ==
  /\ view.at \in {"lists", "open"}
  /\ view' = [view EXCEPT !.closed = EndedOf(view.kind),
                          !.at = IF @ = "open" THEN "marks" ELSE "closed"]
  /\ UNCHANGED <<viewRows, viewMarket, marked, flags, runs, vclock, grid>>

ReadMark(t) ==
  /\ view.at = "marks" /\ t \in view.todo
  /\ view' = [view EXCEPT !.todo = @ \ {t},
                          !.unreal = IF Priced(t) THEN @ + held[t].credit - CloseCost(t) ELSE @]
  /\ UNCHANGED <<viewRows, viewMarket, marked, flags, runs, vclock, grid>>

Told ==
  /\ view.at = "marks" /\ (view.kind = "admin" \/ view.todo = {})
  /\ view' = [view EXCEPT !.at = "told"]
  /\ UNCHANGED <<viewRows, viewMarket, marked, flags, runs, vclock, grid>>

-----------------------------------------------------------------------------
(* computeSimStress: each cell's margin at the shifted spot, of the legs   *)
(* that have a tick; a trade without a spot is left out.  Its reads are one*)
(* step.                                                                   *)
CellMarginUnramped(t, shift) ==   \* mutant: the delivery week is forgotten
  IF t \in Defined THEN held[t].bpe
  ELSE MapThenSumSet(LAMBDA l : LegMargin(l, spot + shift), {l \in ShortLegs(t) : tick[l] # Unknown})

CellMargin(t, shift) ==
  IF t \in Defined THEN held[t].bpe
  ELSE Ramp * MapThenSumSet(LAMBDA l : LegMargin(l, spot + shift),
                            {l \in ShortLegs(t) : tick[l] # Unknown})

StressGrid ==
  /\ runs.made < MaxRuns /\ spot # Unknown
  /\ grid' = [spot |-> spot, ramp |-> Ramp, of |-> HeldNow,
              margin |-> [d \in Shifts |-> MapThenSumSet(LAMBDA t : CellMargin(t, d), HeldNow)]]
  /\ runs' = [runs EXCEPT !.made = @ + 1]
  /\ UNCHANGED <<viewRows, viewMarket, marked, flags, view, vclock>>

-----------------------------------------------------------------------------
(* runSimEodMarkToMarket and runSimIntradayEngine, run by queues of their  *)
(* own; a run that is cut short starts again from the open trades.         *)
JobStarts(job) ==
  /\ runs.made < MaxRuns /\ HeldNow # {}
  /\ runs' = [runs EXCEPT ![job] = [left |-> HeldNow, at |-> vclock], !.made = @ + 1]
  /\ UNCHANGED <<viewRows, viewMarket, marked, flags, view, vclock, grid>>

(* Mutant of EodStamp: a row is stamped with the time of the run.          *)
EodStampAsRun == runs.eod.at
(* The run's date at midnight, so that a second run of a day updates.      *)
EodStamp == (runs.eod.at \div DayUnits) * DayUnits

(* flagExitRuleOnce: a rule is flagged of a trade once in its life.        *)
FlagOnce(t, rules) ==
  flags' = [flags EXCEPT ![t] = [r \in FlagRules |->
              IF r \in rules /\ flags[t][r] = 0 THEN 1 ELSE flags[t][r]]]

EodRules(t) ==
  LET cost == CloseCost(t)
      credit == held[t].credit
  IN {r \in FlagRules : \/ r = "PROFIT_TARGET" /\ 2 * (credit - cost) >= credit
                        \/ r = "HARD_STOP_3X" /\ cost >= 3 * credit
                        \/ r = "DTE_GAMMA" /\ runs.eod.at \div DayUnits >= RampDay}

EodMark(t) ==
  /\ t \in runs.eod.left
  /\ runs' = [runs EXCEPT !.eod.left = @ \ {t}]
  /\ IF Priced(t)
     THEN /\ marked' = marked \cup {[t |-> t, ts |-> EodStamp, source |-> "EOD"]}
          /\ FlagOnce(t, EodRules(t))
     ELSE UNCHANGED <<marked, flags>>
  /\ UNCHANGED <<viewRows, viewMarket, view, vclock, grid>>

(* A priced trade no rule closes is flagged for delivery, and sampled if   *)
(* its latest row, of either source, is old enough.                        *)
SampleDue(t) ==
  \A s \in marked : s.t = t => runs.engine.at - s.ts >= SampleEvery
InTheMoney(t) == \E l \in ShortLegs(t) : spot # Unknown /\ PastStrike(l, spot) > 0

EngineSample(t) ==
  /\ t \in runs.engine.left
  /\ runs' = [runs EXCEPT !.engine.left = @ \ {t}]
  /\ IF Priced(t)
     THEN /\ FlagOnce(t, IF Ramp > 1 /\ InTheMoney(t) THEN {"DELIVERY_RISK"} ELSE {})
          /\ marked' = IF SampleDue(t)
                      THEN marked \cup {[t |-> t, ts |-> runs.engine.at, source |-> "INTRADAY"]}
                      ELSE marked
     ELSE UNCHANGED <<marked, flags>>
  /\ UNCHANGED <<viewRows, viewMarket, view, vclock, grid>>

TradeNext ==
  \/ ViewTime \/ \E q \in Quotes : Captured(q)
  \/ \E t \in Shown : OpenHeld(t)
  \/ \E t \in Shown, status \in {"CLOSED", "LIQUIDATED"} : EndHeld(t, status)

ShowNext ==
  \/ ReadOpen \/ ReadClosed \/ Told \/ StressGrid
  \/ \E t \in Shown : ReadMark(t)
  \/ \E kind \in {"page", "admin"} : ViewStart(kind)

MarkNext ==
  \/ \E job \in {"eod", "engine"} : JobStarts(job)
  \/ \E t \in Shown : EodMark(t) \/ EngineSample(t)

ViewNext == TradeNext \/ ShowNext \/ MarkNext
ViewSpec == ViewInit /\ [][ViewNext]_viewVars

-----------------------------------------------------------------------------
(* What a page or the admin's row shows adds up, if no trade was opened or *)
(* ended while it was read and all closed trades were: the cash is the     *)
(* capital and what was realised, and every trade there is is in one list  *)
(* (sim-repository.ts:1094-1146).                                          *)
SummaryBalances ==
  LET realised == MapThenSumSet(LAMBDA i : held[view.closed[i]].pnl, DOMAIN view.closed)
  IN view.at = "told" /\ view.clean /\ (view.kind = "admin" \/ Len(ended) <= ShownClosed)
     => /\ view.cash = Opening + realised
        /\ {t \in Shown : held[t].st # "NONE"} = view.open \cup ToSet(view.closed)

(* The grid foretells: when the spot has moved by one of its shifts, with  *)
(* the same trades and no delivery week begun, the account blocks what the *)
(* cell said (sim-repository.ts:1451-1454: another formula "reports a      *)
(* margin call that cannot happen, or misses one that can").               *)
StressForetells ==
  grid.spot # Unknown /\ grid.of = HeldNow /\ grid.ramp = Ramp
    => \A d \in Shifts :
         spot = grid.spot + d => grid.margin[d] = MapThenSumSet(LiveMargin, HeldNow)

(* A trade's theta is counted once a day: it has one end-of-day row for a  *)
(* date, however often the job runs, and its samples keep their distance.  *)
RowsKeepApart ==
  \A r, s \in marked :
    r.t = s.t /\ r.source = s.source /\ r.ts < s.ts
      => IF r.source = "EOD" THEN r.ts \div DayUnits < s.ts \div DayUnits
         ELSE s.ts - r.ts >= SampleEvery
=============================================================================
