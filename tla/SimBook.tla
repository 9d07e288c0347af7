------------------------------ MODULE SimBook ------------------------------
(***************************************************************************)
(* The simulator for option sellers: SimAccount and SimTrade rows under    *)
(* the API's requests, the end-of-day job and the intraday engine with its *)
(* margin-call sweep, which run on queues of their own.  A trade's market  *)
(* is a mark: what closing it costs and what margin it blocks.             *)
(* MTM snapshots and the events that only flag a trade are left out: no    *)
(* decision but their own throttling reads them.                           *)
(***************************************************************************)
EXTENDS Integers, FiniteSets, FiniteSetsExt

CONSTANTS
  Accounts,    \* the rows a user's resets may create: a1, a2, ...
  Trades,
  Marks,       \* [cost, margin]: what a trade's market may be
  SettleCosts, \* what a trade may settle at: 0 too when no spot is known
  Capital, Credit,
  MaxMoves,    \* bound: moves of the market
  MaxSimCrashes   \* bound: restarts of the worker

NoCost == -1   \* a leg has no tick: the trade cannot be priced, its margin can

ASSUME SimAssumption ==
  /\ \A m \in Marks : m.cost \in Nat \cup {NoCost} /\ m.margin \in Nat
  /\ Accounts \subseteq Nat \ {0} /\ Trades \subseteq Nat \ {0}
  /\ SettleCosts \subseteq Nat /\ Capital \in Nat /\ Credit \in Nat \ {0}
  /\ MaxMoves \in Nat /\ MaxSimCrashes \in Nat

VARIABLES
  account,  \* SimAccount: st (NONE, ACTIVE, INACTIVE) and cash
  simTrade, \* SimTrade: st, account, exitReason
  events,   \* SimExitEvent: the <<rule, action>> rows of each trade that
            \* say it was ended
  mark,     \* the market of each trade
  expired,  \* the trades whose contracts have expired
  req,      \* the request the API is serving
  simEod,   \* runSimEodMarkToMarket
  engine,   \* runSimIntradayEngine and its sweep
  moves, simCrashes

simRows  == <<account, simTrade, events>>
simWorld == <<mark, expired>>
simBounds == <<moves, simCrashes>>
simVars  == <<simRows, simWorld, req, simEod, engine, simBounds>>

NoAccount == 0
NoReq    == [at |-> "off", t |-> 0, a |-> NoAccount, cash |-> 0, cost |-> 0]
NoEod    == [at |-> "off", list |-> {}]
NoFigures == [cost |-> NoCost, margin |-> 0]
NoEngine == [at |-> "off", list |-> {}, t |-> 0, rule |-> "none", cost |-> 0,
             cash |-> [a \in Accounts |-> 0], seen |-> [t \in Trades |-> NoFigures],
             a |-> NoAccount, left |-> 0]

Active     == {a \in Accounts : account[a].st = "ACTIVE"}
OpenTrades == {t \in Trades : simTrade[t].st = "OPEN"}
Unused     == {a \in Accounts : account[a].st = "NONE"}

-----------------------------------------------------------------------------
(* The market moves, ticks go missing, contracts expire.                   *)
MarketMove(t) ==
  /\ simTrade[t].st \in {"NONE", "OPEN"} /\ t \notin expired
  /\ moves < MaxMoves /\ moves' = moves + 1
  /\ \E m \in Marks \ {mark[t]} : mark' = [mark EXCEPT ![t] = m]
  /\ UNCHANGED <<simRows, expired, req, simEod, engine, simCrashes>>

SimExpire(t) ==
  /\ t \notin expired /\ expired' = expired \cup {t}
  /\ UNCHANGED <<simRows, mark, req, simEod, engine, simBounds>>

-----------------------------------------------------------------------------
(* Mutant of End: the trade is ended by its id.                            *)
EndById(t, status, reason, cost) ==
  IF simTrade[t].st # "NONE"
  THEN /\ simTrade' = [simTrade EXCEPT ![t].st = status, ![t].reason = reason]
       /\ account' = [account EXCEPT ![simTrade[t].a].cash = @ + Credit - cost]
  ELSE UNCHANGED <<simTrade, account>>

(* The one statement that ends a trade: if it is OPEN still, it and its    *)
(* account's cash change together.                                         *)
End(t, status, reason, cost) ==
  IF simTrade[t].st = "OPEN"
  THEN /\ simTrade' = [simTrade EXCEPT ![t].st = status, ![t].reason = reason]
       /\ account' = [account EXCEPT ![simTrade[t].a].cash = @ + Credit - cost]
  ELSE UNCHANGED <<simTrade, account>>

Record(t, rule, action) == events' = [events EXCEPT ![t] = @ \cup {<<rule, action>>}]

-----------------------------------------------------------------------------
(* getOrCreateSimAccount is a find and, failing that, a create;            *)
(* resetSimAccount an update of what is active and a create.               *)
Create(a) == account' = [account EXCEPT ![a] = [st |-> "ACTIVE", cash |-> Capital]]

ResetDeactivate ==
  /\ req = NoReq /\ Unused # {}
  /\ account' = [a \in Accounts |->
       IF a \in Active THEN [account[a] EXCEPT !.st = "INACTIVE"] ELSE account[a]]
  /\ req' = [NoReq EXCEPT !.at = "create"]
  /\ UNCHANGED <<simTrade, events, simWorld, simEod, engine, simBounds>>

CreateAccount(a) ==
  /\ req.at = "create" /\ a \in Unused /\ \A b \in Unused : a <= b
  /\ Create(a)
  /\ req' = IF req.t = 0 THEN NoReq
            ELSE [req EXCEPT !.at = "check", !.a = a, !.cash = Capital]
  /\ UNCHANGED <<simTrade, events, simWorld, simEod, engine, simBounds>>

(* placeSimTrade: the quote needs a market, and its buying power effect is *)
(* the margin of the moment.                                               *)
PlaceQuote(t) ==
  /\ req = NoReq /\ simTrade[t].st = "NONE" /\ mark[t].cost # NoCost /\ t \notin expired
  /\ req' = [NoReq EXCEPT !.at = "account", !.t = t, !.cost = mark[t].margin]
  /\ UNCHANGED <<simRows, simWorld, simEod, engine, simBounds>>

PlaceAccount ==
  /\ req.at = "account"
  /\ \/ \E a \in Active :
          req' = [req EXCEPT !.at = "check", !.a = a, !.cash = account[a].cash]
     \/ Active = {} /\ Unused # {} /\ req' = [req EXCEPT !.at = "create"]
     \/ Active = {} /\ Unused = {} /\ req' = NoReq
  /\ UNCHANGED <<simRows, simWorld, simEod, engine, simBounds>>

(* sumOpenMaintenanceMargin, from the trades' markets as they are now; the *)
(* guardrail on one trade's share of the account is another such refusal.  *)
Total(f, ts) == MapThenSumSet(LAMBDA t : f[t], ts)

PlaceCheck ==
  /\ req.at = "check"
  /\ LET held == {t \in OpenTrades : simTrade[t].a = req.a}
         used == Total([t \in Trades |-> mark[t].margin], held)
     IN req' = IF req.cost > req.cash - used THEN NoReq ELSE [req EXCEPT !.at = "insert"]
  /\ UNCHANGED <<simRows, simWorld, simEod, engine, simBounds>>

PlaceInsert ==
  /\ req.at = "insert"
  /\ simTrade' = [simTrade EXCEPT ![req.t] = [st |-> "OPEN", a |-> req.a, reason |-> "none"]]
  /\ req' = NoReq
  /\ UNCHANGED <<account, events, simWorld, simEod, engine, simBounds>>

(* closeSimTrade: an open trade of the active account, at its market.      *)
CloseRead(t) ==
  /\ req = NoReq /\ simTrade[t].st = "OPEN" /\ simTrade[t].a \in Active /\ mark[t].cost # NoCost
  /\ req' = [NoReq EXCEPT !.at = "close", !.t = t, !.cost = mark[t].cost]
  /\ UNCHANGED <<simRows, simWorld, simEod, engine, simBounds>>

CloseEnd ==
  /\ req.at = "close"
  /\ End(req.t, "CLOSED", "MANUAL", req.cost)
  /\ req' = NoReq
  /\ UNCHANGED <<events, simWorld, simEod, engine, simBounds>>

-----------------------------------------------------------------------------
(* Mutant of SimEodStart: only active accounts' trades are settled.           *)
SimEodStartActive ==
  /\ simEod.at = "off" /\ \E t \in OpenTrades : simTrade[t].a \in Active
  /\ simEod' = [at |-> "trades", list |-> {t \in OpenTrades : simTrade[t].a \in Active}]
  /\ UNCHANGED <<simRows, simWorld, req, engine, simBounds>>

(* runSimEodMarkToMarket, twice a day: the open trades are listed, of      *)
(* inactive accounts too, and looked at one after the other.  (A run that  *)
(* finds none does nothing.)                                               *)
SimEodStart ==
  /\ simEod.at = "off" /\ OpenTrades # {}
  /\ simEod' = [at |-> "trades", list |-> OpenTrades]
  /\ UNCHANGED <<simRows, simWorld, req, engine, simBounds>>

EodAfter(t) == IF simEod.list = {t} THEN NoEod ELSE [simEod EXCEPT !.list = @ \ {t}]

(* settleExpiredSimTrade: at intrinsic value against the latest spot.      *)
SimEodSettle(t) ==
  /\ simEod.at = "trades" /\ t \in simEod.list /\ t \in expired
  /\ \E cost \in SettleCosts :
       End(t, "EXPIRED", "EXPIRED", cost)
  /\ simEod' = EodAfter(t)
  /\ UNCHANGED <<events, simWorld, req, engine, simBounds>>

(* A live trade is marked and flagged, and left as it is.                  *)
EodPass(t) ==
  /\ simEod.at = "trades" /\ t \in simEod.list /\ t \notin expired
  /\ simEod' = EodAfter(t)
  /\ UNCHANGED <<simRows, simWorld, req, engine, simBounds>>

-----------------------------------------------------------------------------
(* runSimIntradayEngine, every minute of the session.                      *)
EngineStart ==
  /\ engine.at = "off" /\ OpenTrades # {}
  /\ engine' = [NoEngine EXCEPT !.at = "trades", !.list = OpenTrades]
  /\ UNCHANGED <<simRows, simWorld, req, simEod, simBounds>>

(* The first rule that matches; by date or by delta, for the horizons that *)
(* have those rules, any priced trade may come due.                        *)
Target(cost) == 2 * (Credit - cost) >= Credit
Stop(cost)   == cost >= 3 * Credit

RulesDue(cost) ==
  IF cost = NoCost THEN {"none"}
  ELSE IF Target(cost) THEN {"PROFIT_TARGET"}
  ELSE IF Stop(cost) THEN {"HARD_STOP_3X"}
  ELSE {"none", "DTE_GAMMA"}

EngineLook(t) ==
  /\ engine.at = "trades" /\ t \in engine.list
  /\ LET rest == [engine EXCEPT !.list = @ \ {t}]
     IN \E rule \in IF t \in expired THEN {"none"} ELSE RulesDue(mark[t].cost) :
          engine' = IF rule = "none" THEN rest
                    ELSE [rest EXCEPT !.at = "close", !.t = t, !.rule = rule,
                                      !.cost = mark[t].cost]
  /\ UNCHANGED <<simRows, simWorld, req, simEod, simBounds>>

(* Mutant of EngineClose: the event is written whoever ended the trade.    *)
EngineCloseAnyway ==
  /\ engine.at = "close"
  /\ End(engine.t, "CLOSED", engine.rule, engine.cost)
  /\ engine' = [engine EXCEPT !.at = "record"]
  /\ UNCHANGED <<events, simWorld, req, simEod, simBounds>>

(* autoCloseSimTrade: the end, and its event in a write of its own if this *)
(* was the call that ended the trade.                                      *)
EngineClose ==
  /\ engine.at = "close"
  /\ End(engine.t, "CLOSED", engine.rule, engine.cost)
  /\ engine' = [engine EXCEPT !.at = IF simTrade[engine.t].st = "OPEN" THEN "record" ELSE "trades"]
  /\ UNCHANGED <<events, simWorld, req, simEod, simBounds>>

EngineRecord ==
  /\ engine.at = "record"
  /\ Record(engine.t, engine.rule, "AUTO_CLOSED")
  /\ engine' = [engine EXCEPT !.at = "trades"]
  /\ UNCHANGED <<account, simTrade, simWorld, req, simEod, simBounds>>

(* runSimMarginCallSweep: open trades and their accounts' cash are read    *)
(* together, each trade's margin and price after that.                     *)
SweepStart ==
  /\ engine.at = "trades" /\ engine.list = {}
  /\ engine' = IF OpenTrades = {} THEN NoEngine
               ELSE [NoEngine EXCEPT !.at = "figures", !.list = OpenTrades,
                       !.cash = [a \in Accounts |-> account[a].cash]]
  /\ UNCHANGED <<simRows, simWorld, req, simEod, simBounds>>

SweepFigures(t) ==
  /\ engine.at = "figures" /\ t \in engine.list
  /\ engine' = [engine EXCEPT !.list = @ \ {t}, !.seen[t] = mark[t]]
  /\ UNCHANGED <<simRows, simWorld, req, simEod, simBounds>>

(* The sweep's own figures of an account: what its trades block, and what  *)
(* the account is worth.                                                   *)
Seen(a)      == {t \in Trades : engine.seen[t] # NoFigures /\ simTrade[t].a = a}
SeenMargin   == [t \in Trades |-> engine.seen[t].margin]
Unrealised   == [t \in Trades |->
                   IF engine.seen[t].cost = NoCost THEN 0 ELSE Credit - engine.seen[t].cost]
Worth(a)     == engine.cash[a] + Total(Unrealised, Seen(a))

(* The next account is taken up; left is what its trades still block.      *)
SweepAccount(a) ==
  /\ engine.at = "figures" /\ engine.list = {} /\ engine.a < a
  /\ \A b \in Accounts : b < a => b <= engine.a
  /\ LET over == Total(SeenMargin, Seen(a)) > Worth(a)
     IN engine' = [engine EXCEPT !.a = a, !.left = Total(SeenMargin, Seen(a)),
                                 !.list = IF over THEN Seen(a) ELSE {},
                                 !.at = IF over THEN "sweep" ELSE "figures"]
  /\ UNCHANGED <<simRows, simWorld, req, simEod, simBounds>>

Largest(t) == \A u \in engine.list : engine.seen[u].margin <= engine.seen[t].margin

(* Mutant of SweepDue: nothing that was liquidated is taken off.           *)
SweepDueAll(t) == engine.seen[t].cost # NoCost

SweepDue(t) == engine.left > Worth(engine.a) /\ engine.seen[t].cost # NoCost

(* Largest first, while the account does not fit; one that somebody else   *)
(* has ended meanwhile changes nothing.                                    *)
SweepLiquidate(t) ==
  /\ engine.at = "sweep" /\ t \in engine.list /\ Largest(t)
  /\ LET rest == [engine EXCEPT !.list = @ \ {t}]
     IN IF ~SweepDue(t) THEN engine' = rest /\ UNCHANGED <<account, simTrade>>
        ELSE /\ End(t, "LIQUIDATED", "MARGIN_CALL", engine.seen[t].cost)
             /\ engine' = IF simTrade[t].st = "OPEN"
                          THEN [rest EXCEPT !.at = "sweepRecord", !.t = t] ELSE rest
  /\ UNCHANGED <<events, simWorld, req, simEod, simBounds>>

SweepRecord ==
  /\ engine.at = "sweepRecord"
  /\ Record(engine.t, "MARGIN_CALL", "LIQUIDATED")
  /\ engine' = [engine EXCEPT !.at = "sweep", !.t = 0,
                              !.left = @ - engine.seen[engine.t].margin]
  /\ UNCHANGED <<account, simTrade, simWorld, req, simEod, simBounds>>

SweepAccountEnd ==
  /\ engine.at = "sweep" /\ engine.list = {}
  /\ engine' = [engine EXCEPT !.at = "figures"]
  /\ UNCHANGED <<simRows, simWorld, req, simEod, simBounds>>

SweepEnd ==
  /\ engine.at = "figures" /\ engine.list = {} /\ \A a \in Accounts : a <= engine.a
  /\ engine' = NoEngine
  /\ UNCHANGED <<simRows, simWorld, req, simEod, simBounds>>

-----------------------------------------------------------------------------
SimRestart ==
  /\ simCrashes < MaxSimCrashes /\ simCrashes' = simCrashes + 1
  /\ simEod.at # "off" \/ engine.at # "off"
  /\ simEod' = NoEod /\ engine' = NoEngine
  /\ UNCHANGED <<simRows, simWorld, req, moves>>

SimInit ==
  /\ account = [a \in Accounts |-> [st |-> "NONE", cash |-> Capital]]
  /\ simTrade = [t \in Trades |-> [st |-> "NONE", a |-> NoAccount, reason |-> "none"]]
  /\ events = [t \in Trades |-> {}]
  /\ \E m \in Marks : mark = [t \in Trades |-> m]
  /\ expired = {}
  /\ req = NoReq /\ simEod = NoEod /\ engine = NoEngine
  /\ moves = 0 /\ simCrashes = 0

ApiStep ==
  \/ ResetDeactivate \/ PlaceAccount \/ PlaceCheck \/ PlaceInsert \/ CloseEnd
  \/ \E a \in Accounts : CreateAccount(a)
  \/ \E t \in Trades : PlaceQuote(t) \/ CloseRead(t)

SimEodStep == SimEodStart \/ \E t \in Trades : SimEodSettle(t) \/ EodPass(t)

EngineStep ==
  \/ EngineStart \/ EngineClose \/ EngineRecord
  \/ SweepStart \/ SweepRecord \/ SweepAccountEnd \/ SweepEnd
  \/ \E t \in Trades : EngineLook(t) \/ SweepFigures(t) \/ SweepLiquidate(t)
  \/ \E a \in Accounts : SweepAccount(a)

SimNext ==
  \/ \E t \in Trades : MarketMove(t) \/ SimExpire(t)
  \/ ApiStep \/ SimEodStep \/ EngineStep \/ SimRestart

SimSpec == SimInit /\ [][SimNext]_simVars

(* Both jobs come round by cron and run to their end.                      *)
SimFairSpec == SimSpec /\ WF_simVars(SimEodStep) /\ WF_simVars(EngineStep)

-----------------------------------------------------------------------------
Balances == INSTANCE SimAccounts WITH
  opened <- {a \in Accounts : account[a].st # "NONE"},
  cash <- [a \in Accounts |-> account[a].cash],
  held <- [t \in Trades |-> CASE simTrade[t].st = "NONE" -> 0
                              [] simTrade[t].st = "OPEN" -> simTrade[t].a
                              [] OTHER -> -1],
  Results <- {Credit - c : c \in SettleCosts \cup {m.cost : m \in Marks}}

(* An account's cash changes only with the one end of one of its trades,   *)
(* whoever of a person, the engine, the sweep and the settlement comes     *)
(* first (sim-repository.ts:860-884).                                      *)
KeepsAccounts == Balances!AccountsSpec

(* An exit event says what happened: the trade was ended by that rule.     *)
EventsAreTrue ==
  \A t \in Trades, r \in {"PROFIT_TARGET", "HARD_STOP_3X", "DTE_GAMMA"} :
    /\ <<r, "AUTO_CLOSED">> \in events[t] => simTrade[t].st = "CLOSED" /\ simTrade[t].reason = r
    /\ <<"MARGIN_CALL", "LIQUIDATED">> \in events[t] => simTrade[t].st = "LIQUIDATED"

(* A trade whose contract has expired ends, also one of an account that    *)
(* has been reset or that was inserted by a ticket that was under way.     *)
ExpiredEnds == \A t \in Trades : (simTrade[t].st = "OPEN" /\ t \in expired) ~> simTrade[t].st # "OPEN"

(* The trades of the sweep's list that are open still.                     *)
StillSeen(a) == {t \in Seen(a) : simTrade[t].st = "OPEN"}

(* When the sweep takes a trade, the account does not fit without it, by   *)
(* the sweep's own figures of the trades still open (sim-repository.ts:    *)
(* 1606-1608), unless somebody else has ended one since it was listed: the *)
(* code keeps counting such a trade's margin.                              *)
LiquidatesInNeed ==
  [][\A t \in Trades :
       (/\ simTrade[t].st = "OPEN" /\ simTrade'[t].st = "LIQUIDATED"
        /\ \A u \in Seen(engine.a) : simTrade[u].st \in {"OPEN", "LIQUIDATED"})
         => Total(SeenMargin, StillSeen(engine.a)) > Worth(engine.a)]_simVars
=============================================================================
