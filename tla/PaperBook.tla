----------------------------- MODULE PaperBook -----------------------------
(***************************************************************************)
(* The Dashboard's paper trading: PaperOrder, PaperPosition and PaperTrade *)
(* rows under the worker's monitor pass, the API's requests (each of which *)
(* ends in the same refresh) and the end-of-day settlement, none of them   *)
(* holding a lock.  Premiums are levels in the direction of the position:  *)
(* for a SELL they are negated, so that higher is better for both sides.   *)
(***************************************************************************)
EXTENDS Integers

CONSTANTS
  Orders,
  Top,            \* premiums run from 1 to Top; every target is Top
  Requests,       \* the prices and stops that are asked for
  Signals,        \* what the score may say of the position
  Trail,          \* trailDistance
  Slip,           \* PAPER_FILL_SLIPPAGE_PERCENT, as an amount
  StreakRequired, \* DANGER_STREAK_REQUIRED
  MaxEdits,       \* bound: edits of a pending order and of a position's risk
  MaxCrashes      \* bound: restarts of the worker

ASSUME PaperAssumption ==
  /\ Top \in Nat /\ Trail \in Nat /\ Slip \in Nat /\ StreakRequired \in Nat \ {0}
  /\ Requests \subseteq 1..Top /\ Signals \subseteq {"none", "danger", "favor"}
  /\ MaxEdits \in Nat /\ MaxCrashes \in Nat

VARIABLES
  ord,     \* PaperOrder: status and requestedPrice
  pos,     \* PaperPosition: status, levels, dangerSignalStreak
  trade,   \* PaperTrade: the rows of each position
  tick,    \* the newest OptionContractTick, the score signal beside it and,
           \* for the properties only, how many captures in a row said danger
  expiry,  \* whether the contracts have finished trading, and whether a spot
           \* was captured before they did
  ref,     \* refresher -> where its pass is
  br,      \* refresher -> order -> one branch of its Promise.all
  api,     \* the request the API is serving, beside its refresh
  eod,     \* settleExpiredPaperPositions
  edits, crashes

rowsP == <<ord, pos, trade>>
world == <<tick, expiry>>
bounds == <<edits, crashes>>
vars  == <<rowsP, world, ref, br, api, eod, bounds>>

Levels     == (1 - Trail)..(Top + Slip)
Prices     == 1..Top
Refreshers == {"worker", "api"}

Intrinsic  == 0       \* what a dead contract is worth at that spot
NoPosition == [st |-> "NONE", entry |-> 0, cur |-> 0, stop |-> 0, best |-> 0, streak |-> 0]
NoTick     == [price |-> 0, signal |-> "none", held |-> 0]
NoBranch   == [at |-> "off", price |-> 0, row |-> NoPosition, tick |-> NoTick,
               reason |-> "none"]
NoRequest  == [op |-> "none", at |-> "off", o |-> {}, level |-> 0, best |-> 0]
NoPass     == [at |-> "off", asOf |-> FALSE, list |-> {}]

Lesser(a, b)  == IF a <= b THEN a ELSE b
Greater(a, b) == IF a >= b THEN a ELSE b
OpenRows     == {o \in Orders : pos[o].st = "OPEN"}
PendingRows  == {o \in Orders : ord[o].st = "PENDING"}

-----------------------------------------------------------------------------
(* The market: a capture stores a tick, and the worker's monitor pass over *)
(* it follows in the same job.  A dead contract is not captured any more.  *)
Capture ==
  /\ ref["worker"] = "idle" /\ ~expiry.dead
  /\ \E p \in Prices, s \in Signals :
       tick' = [price |-> p, signal |-> s,
                held |-> IF s # "danger" THEN 0
                         ELSE Lesser(tick.held + 1, StreakRequired)]
  /\ ref' = [ref EXCEPT !["worker"] = "orders"]
  /\ UNCHANGED <<rowsP, expiry, br, api, eod, bounds>>

(* The session closes on expiry day; a spot was captured before, or not.   *)
Expire ==
  /\ ~expiry.dead
  /\ \E seen \in BOOLEAN : expiry' = [dead |-> TRUE, spot |-> seen]
  /\ UNCHANGED <<rowsP, tick, ref, br, api, eod, bounds>>

-----------------------------------------------------------------------------
(* refreshPendingPaperOrders: the pending rows are read, then each order   *)
(* is looked at and filled on its own.                                     *)
ListOrders(p) ==
  /\ ref[p] = "orders"
  /\ ref' = [ref EXCEPT ![p] = "filling"]
  /\ br' = [br EXCEPT ![p] = [o \in Orders |->
       IF o \in PendingRows THEN [NoBranch EXCEPT !.at = "price", !.price = ord[o].req]
       ELSE NoBranch]]
  /\ UNCHANGED <<rowsP, world, api, eod, bounds>>

(* shouldFillPaperOrder over the row as it was listed: the market has come *)
(* to the requested price, or is worse for the buyer or seller.            *)
Crosses(req) == tick.price # 0 /\ tick.price <= req

FillPrice(p, o) ==
  /\ br[p][o].at = "price"
  /\ br' = [br EXCEPT ![p][o] =
       IF ~expiry.dead /\ Crosses(@.price) THEN [@ EXCEPT !.at = "fill"] ELSE NoBranch]
  /\ UNCHANGED <<rowsP, world, ref, api, eod, bounds>>

(* The position a fill opens: slipped against the trader, the stop trailing *)
(* from there.                                                             *)
Opened(req) ==
  LET entry == req + Slip
  IN [st |-> "OPEN", entry |-> entry, cur |-> entry, stop |-> entry - Trail,
      best |-> entry, streak |-> 0]

(* Mutant of FillOrder: the order is filled as it was listed.              *)
FillUnconditional(p, o) ==
  /\ br[p][o].at = "fill"
  /\ IF pos[o].st = "NONE"
     THEN /\ ord' = [ord EXCEPT ![o].st = "FILLED"]
          /\ pos' = [pos EXCEPT ![o] = Opened(br[p][o].price)]
     ELSE UNCHANGED <<ord, pos>>
  /\ br' = [br EXCEPT ![p][o] = NoBranch]
  /\ UNCHANGED <<trade, world, ref, api, eod, bounds>>

(* One transaction: the order, if it is PENDING still, becomes FILLED and  *)
(* a position is opened at the price that was listed.                      *)
FillOrder(p, o) ==
  /\ br[p][o].at = "fill"
  /\ IF ord[o].st = "PENDING"
     THEN /\ ord' = [ord EXCEPT ![o].st = "FILLED"]
          /\ pos' = [pos EXCEPT ![o] = Opened(br[p][o].price)]
     ELSE UNCHANGED <<ord, pos>>
  /\ br' = [br EXCEPT ![p][o] = NoBranch]
  /\ UNCHANGED <<trade, world, ref, api, eod, bounds>>

-----------------------------------------------------------------------------
(* refreshOpenPositionPrices.                                              *)
ListPositions(p) ==
  /\ \/ ref[p] = "filling" /\ \A o \in Orders : br[p][o].at = "off"
     \/ ref[p] = "positions"
  /\ ref' = [ref EXCEPT ![p] = "marking"]
  /\ br' = [br EXCEPT ![p] = [o \in Orders |->
       IF o \in OpenRows THEN [NoBranch EXCEPT !.at = "tick", !.row = [pos[o] EXCEPT !.cur = 0]]
       ELSE NoBranch]]
  /\ UNCHANGED <<rowsP, world, api, eod, bounds>>

(* A dead contract is left to the settlement; one without a tick is left.  *)
ReadTick(p, o) ==
  /\ br[p][o].at = "tick"
  /\ br' = [br EXCEPT ![p][o] =
       IF expiry.dead \/ tick.price = 0 THEN NoBranch
       ELSE [@ EXCEPT !.at = "streak", !.tick = tick]]
  /\ UNCHANGED <<rowsP, world, ref, api, eod, bounds>>

(* The streak is incremented in the database, whatever the row's state is  *)
(* by now.  (It is counted up to StreakRequired: beyond, all is the same.) *)
BumpStreak(p, o) ==
  /\ br[p][o].at = "streak"
  /\ LET n == IF br[p][o].tick.signal # "danger" THEN 0
              ELSE Lesser(pos[o].streak + 1, StreakRequired)
     IN /\ pos' = [pos EXCEPT ![o].streak = n]
        /\ br' = [br EXCEPT ![p][o] = [@ EXCEPT !.at = "write", !.row.streak = n]]
  /\ UNCHANGED <<ord, trade, world, ref, api, eod, bounds>>

(* getDynamicTrailingStopLoss.  A danger reading that is not confirmed yet *)
(* counts as none.                                                         *)
Locked(entry, quarters) == entry + (quarters * (Top - entry)) \div 4

NextStop(row, price, best, signal) ==
  LET move == Top - row.entry
      made == price - row.entry
  IN IF signal = "danger" /\ row.streak >= StreakRequired /\ made > 0 THEN row.entry
     ELSE IF signal = "favor" /\ move > 0 /\ 100 * made >= 85 * move THEN Locked(row.entry, 3)
     ELSE IF signal = "favor" /\ move > 0 /\ 100 * made >= 75 * move THEN Locked(row.entry, 2)
     ELSE IF signal = "favor" /\ move > 0 /\ 100 * made >= 50 * move THEN Locked(row.entry, 1)
     ELSE best - Trail

(* Mutant of Hit: only a target ends a position.                           *)
HitTargetOnly(price, stop) == IF price >= Top THEN "TARGET" ELSE "none"

(* What a mark at this price ends a position for, if anything.             *)
Hit(price, stop) ==
  IF price >= Top THEN "TARGET" ELSE IF price <= stop THEN "STOP_LOSS" ELSE "none"

(* The levels are computed from the row as it was listed and written over  *)
(* whatever the row holds by now.                                          *)
WriteMark(p, o) ==
  /\ br[p][o].at = "write"
  /\ LET b    == br[p][o]
         best == Greater(b.row.best, b.tick.price)
         stop == Greater(b.row.stop, NextStop(b.row, b.tick.price, best, b.tick.signal))
         why  == Hit(b.tick.price, stop)
     IN /\ pos' = [pos EXCEPT ![o].cur = b.tick.price, ![o].stop = stop, ![o].best = best]
        /\ br' = [br EXCEPT ![p][o] =
             IF why = "none" THEN NoBranch
             ELSE [NoBranch EXCEPT !.at = "recheck", !.reason = why]]
  /\ UNCHANGED <<ord, trade, world, ref, api, eod, bounds>>

(* The row is read again, and the exit priced from what it says then.      *)
Recheck(p, o) ==
  /\ br[p][o].at = "recheck"
  /\ br' = [br EXCEPT ![p][o] =
       IF pos[o].st = "OPEN" THEN [@ EXCEPT !.at = "close", !.price = pos[o].cur] ELSE NoBranch]
  /\ UNCHANGED <<rowsP, world, ref, api, eod, bounds>>

(* closePositionRecord: one transaction, if the position is OPEN still.    *)
Close(o, exit, reason) ==
  IF pos[o].st = "OPEN"
  THEN /\ pos' = [pos EXCEPT ![o].st = "CLOSED", ![o].cur = exit]
       /\ trade' = [trade EXCEPT ![o] = @ \cup {<<exit, reason>>}]
  ELSE UNCHANGED <<pos, trade>>

CloseHit(p, o) ==
  /\ br[p][o].at = "close"
  /\ Close(o, br[p][o].price, br[p][o].reason)
  /\ br' = [br EXCEPT ![p][o] = NoBranch]
  /\ UNCHANGED <<ord, world, ref, api, eod, bounds>>

(* The pass ends; an exit request that waited for it goes on.              *)
EndPass(p) ==
  /\ ref[p] = "marking" /\ \A o \in Orders : br[p][o].at = "off"
  /\ ref' = [ref EXCEPT ![p] = "idle"]
  /\ UNCHANGED <<rowsP, world, br, api, eod, bounds>>

(* The worker restarts, every fifteen minutes or at any time.              *)
WorkerRestart ==
  /\ ref["worker"] # "idle" \/ eod.at # "off"
  /\ crashes < MaxCrashes /\ crashes' = crashes + 1
  /\ ref' = [ref EXCEPT !["worker"] = "idle"]
  /\ br' = [br EXCEPT !["worker"] = [o \in Orders |-> NoBranch]]
  /\ eod' = NoPass
  /\ UNCHANGED <<rowsP, world, api, edits>>

-----------------------------------------------------------------------------
(* The API's requests, one at a time here; each ends in getPaperSummary,   *)
(* which runs the same refresh the worker runs.                            *)
Free == api = NoRequest /\ ref["api"] = "idle"

Summarise ==
  /\ api' = NoRequest
  /\ ref' = [ref EXCEPT !["api"] = "orders"]

Fail == api' = NoRequest /\ UNCHANGED ref

Poll ==
  /\ Free /\ Summarise
  /\ UNCHANGED <<rowsP, world, br, eod, bounds>>

(* placePaperOrder, placeMultiLegPaperOrder: the legs in one transaction.  *)
Place(legs) ==
  /\ Free
  /\ legs # {} /\ \A o \in legs : ord[o].st = "NONE"
  /\ \E q \in Requests :
       ord' = [o \in Orders |-> IF o \in legs THEN [st |-> "PENDING", req |-> q] ELSE ord[o]]
  /\ Summarise
  /\ UNCHANGED <<pos, trade, world, br, eod, bounds>>

(* updatePendingPaperOrder and cancelPendingPaperOrder: the row is read    *)
(* PENDING, the lot size looked up, and the row written by its id alone.   *)
ReadOrder(op, o) ==
  /\ Free /\ ord[o].st = "PENDING" /\ edits < MaxEdits
  /\ \E q \in Requests :
       api' = [NoRequest EXCEPT !.op = op, !.at = "write", !.o = {o}, !.level = q]
  /\ edits' = edits + 1
  /\ UNCHANGED <<rowsP, world, ref, br, eod, crashes>>

WriteOrder(o) ==
  /\ api.at = "write" /\ api.o = {o}
  /\ \/ api.op = "edit" /\ ord' = [ord EXCEPT ![o].req = api.level]
     \/ api.op = "cancel" /\ ord' = [ord EXCEPT ![o].st = "CANCELLED"]
  /\ Summarise
  /\ UNCHANGED <<pos, trade, world, br, eod, bounds>>

(* updatePaperPositionRisk.                                                *)
ReadRisk(o) ==
  /\ Free /\ pos[o].st = "OPEN" /\ edits < MaxEdits
  /\ \E q \in Requests :
       api' = [op |-> "risk", at |-> "write", o |-> {o}, level |-> q,
               best |-> Greater(pos[o].best, Greater(pos[o].cur, pos[o].entry))]
  /\ edits' = edits + 1
  /\ UNCHANGED <<rowsP, world, ref, br, eod, crashes>>

WriteRisk(o) ==
  /\ api.op = "risk" /\ api.o = {o}
  /\ pos' = [pos EXCEPT ![o].stop = api.level, ![o].best = api.best]
  /\ Summarise
  /\ UNCHANGED <<ord, trade, world, br, eod, bounds>>

(* closePaperPosition: prices are refreshed first, then the row is read.   *)
AskExit(o) ==
  /\ Free /\ pos[o].st = "OPEN"
  /\ api' = [NoRequest EXCEPT !.op = "close", !.at = "refresh", !.o = {o}]
  /\ ref' = [ref EXCEPT !["api"] = "positions"]
  /\ UNCHANGED <<rowsP, world, br, eod, bounds>>

ReadExit(o) ==
  /\ api.at = "refresh" /\ api.o = {o} /\ ref["api"] = "idle"
  /\ IF pos[o].st = "OPEN"
     THEN api' = [api EXCEPT !.at = "close", !.level = pos[o].cur] /\ UNCHANGED ref
     ELSE Fail
  /\ UNCHANGED <<rowsP, world, br, eod, bounds>>

CloseExit(o) ==
  /\ api.at = "close" /\ api.o = {o}
  /\ Close(o, api.level, "MANUAL")
  /\ IF pos[o].st = "OPEN" THEN Summarise ELSE Fail
  /\ UNCHANGED <<ord, world, br, eod, bounds>>

-----------------------------------------------------------------------------
(* settleExpiredPaperPositions, once a day after the session; asOf is the  *)
(* moment the job began.                                                   *)
EodStart ==
  /\ eod.at = "off"
  /\ eod' = [at |-> "settle", asOf |-> expiry.dead, list |-> OpenRows]
  /\ UNCHANGED <<rowsP, world, ref, br, api, bounds>>

(* Mutant of EodSettle: the comparison with asOf is turned around.         *)
EodSettleEarly(o) ==
  /\ eod.at = "settle" /\ o \in eod.list
  /\ eod' = [eod EXCEPT !.list = @ \ {o}]
  /\ IF ~eod.asOf /\ expiry.spot THEN Close(o, Intrinsic, "EXPIRED")
     ELSE UNCHANGED <<pos, trade>>
  /\ UNCHANGED <<ord, world, ref, br, api, bounds>>

(* One listed position: at the intrinsic value of the spot captured before *)
(* the contract died, or not at all.                                       *)
EodSettle(o) ==
  /\ eod.at = "settle" /\ o \in eod.list
  /\ eod' = [eod EXCEPT !.list = @ \ {o}]
  /\ IF eod.asOf /\ expiry.spot THEN Close(o, Intrinsic, "EXPIRED")
     ELSE UNCHANGED <<pos, trade>>
  /\ UNCHANGED <<ord, world, ref, br, api, bounds>>

(* The pending orders of dead contracts are listed, and those that are     *)
(* PENDING still are cancelled together.                                   *)
EodList ==
  /\ eod.at = "settle" /\ eod.list = {}
  /\ eod' = [eod EXCEPT !.at = "cancel", !.list = IF eod.asOf THEN PendingRows ELSE {}]
  /\ UNCHANGED <<rowsP, world, ref, br, api, bounds>>

EodCancel ==
  /\ eod.at = "cancel"
  /\ ord' = [o \in Orders |->
       IF o \in eod.list \cap PendingRows THEN [ord[o] EXCEPT !.st = "CANCELLED"] ELSE ord[o]]
  /\ eod' = NoPass
  /\ UNCHANGED <<pos, trade, world, ref, br, api, bounds>>

-----------------------------------------------------------------------------
Init ==
  /\ ord = [o \in Orders |-> [st |-> "NONE", req |-> 0]]
  /\ pos = [o \in Orders |-> NoPosition]
  /\ trade = [o \in Orders |-> {}]
  /\ tick = NoTick
  /\ expiry = [dead |-> FALSE, spot |-> FALSE]
  /\ ref = [p \in Refreshers |-> "idle"]
  /\ br = [p \in Refreshers |-> [o \in Orders |-> NoBranch]]
  /\ api = NoRequest /\ eod = NoPass
  /\ edits = 0 /\ crashes = 0

RefreshStep(p) ==
  \/ ListOrders(p) \/ ListPositions(p) \/ EndPass(p)
  \/ \E o \in Orders :
       \/ FillPrice(p, o) \/ FillOrder(p, o) \/ ReadTick(p, o) \/ BumpStreak(p, o)
       \/ WriteMark(p, o) \/ Recheck(p, o) \/ CloseHit(p, o)

AskStep ==
  \/ Poll
  \/ \E legs \in SUBSET Orders : Place(legs)
  \/ \E o \in Orders :
       \/ \E op \in {"edit", "cancel"} : ReadOrder(op, o)
       \/ ReadRisk(o) \/ AskExit(o)

AnswerStep ==
  \E o \in Orders : WriteOrder(o) \/ WriteRisk(o) \/ ReadExit(o) \/ CloseExit(o)

EodStep ==
  \/ EodStart \/ EodList \/ EodCancel
  \/ \E o \in Orders : EodSettle(o)

Next ==
  \/ Capture \/ Expire \/ WorkerRestart
  \/ \E p \in Refreshers : RefreshStep(p)
  \/ AskStep \/ AnswerStep \/ EodStep

Spec == Init /\ [][Next]_vars

(* A capture is due every thirty seconds while the contract lives, the     *)
(* settlement every weekday, and a request that was accepted is served;    *)
(* nobody has to ask for anything.                                         *)
FairSpec ==
  /\ Spec
  /\ WF_vars(Capture) /\ WF_vars(EodStep) /\ WF_vars(AnswerStep)
  /\ \A p \in Refreshers : WF_vars(RefreshStep(p))

-----------------------------------------------------------------------------
(* What became of an order, for the abstract ledger.                       *)
Life(o) ==
  IF pos[o].st = "CLOSED" THEN "closed"
  ELSE IF pos[o].st = "OPEN" THEN "open"
  ELSE CASE ord[o].st = "NONE" -> "none"
         [] ord[o].st = "PENDING" -> "pending"
         [] OTHER -> "cancelled"

Ledger == INSTANCE PaperLedger WITH
  life <- [o \in Orders |-> Life(o)],
  booked <- trade,
  Bookings <- (0..(Top + Slip)) \X {"TARGET", "STOP_LOSS", "MANUAL", "EXPIRED"}

(* The paper book keeps the ledger's promises: one fill per order, none    *)
(* after a cancellation, one trade per position, whoever of the worker,    *)
(* the browser's polls, a person and the settlement come at once.          *)
KeepsLedger == Ledger!LedgerSpec

(* While the contract trades, a price at or below the stop ends the        *)
(* position, unless the price or the stop moves away first.                *)
StopActs ==
  \A o \in Orders :
    (pos[o].st = "OPEN" /\ tick.price # 0 /\ tick.price <= pos[o].stop)
      ~> (pos[o].st = "CLOSED" \/ tick.price > pos[o].stop \/ expiry.dead)

(* A position on a contract that has died is settled by some end-of-day    *)
(* pass, if a spot was captured before it died; also one that was opened   *)
(* by a fill that was under way.                                           *)
SettledEventually ==
  \A o \in Orders : (pos[o].st = "OPEN" /\ expiry.dead /\ expiry.spot) ~> (pos[o].st = "CLOSED")
=============================================================================
