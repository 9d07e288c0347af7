--------------------------- MODULE SimBook_proofs ---------------------------
(***************************************************************************)
(* The simulator implements the accounts it promises, and its exit events  *)
(* are true, for any accounts, trades, markets and restarts.  What carries *)
(* the proof: a trade that was entered belongs to an account that exists,  *)
(* a ticket under way holds a trade nobody else enters, and an event still *)
(* to be written is about a trade that has ended for good.                 *)
(***************************************************************************)
EXTENDS SimBook, Sums

Costs == SettleCosts \cup {m.cost : m \in Marks}
Rules == {"PROFIT_TARGET", "HARD_STOP_3X", "DTE_GAMMA"}
Ends  == {"CLOSED", "EXPIRED", "LIQUIDATED"}

SimAccountRows == [st : {"NONE", "ACTIVE", "INACTIVE"}, cash : Int]
TradeRows == [st : {"NONE", "OPEN"} \cup Ends, a : Accounts \cup {NoAccount},
              reason : Rules \cup {"none", "MANUAL", "EXPIRED", "MARGIN_CALL"}]

RowsTyped ==
  /\ account \in [Accounts -> SimAccountRows]
  /\ simTrade \in [Trades -> TradeRows]
  /\ DOMAIN events = Trades
  /\ mark \in [Trades -> Marks]

(* Nobody has used an account that was not opened, and no trade is held by *)
(* one.                                                                    *)
RowsCoherent ==
  /\ \A a \in Accounts : account[a].st = "NONE" => account[a].cash = Capital
  /\ \A t \in Trades : simTrade[t].st # "NONE" =>
       simTrade[t].a \in Accounts /\ account[simTrade[t].a].st # "NONE"

Asked == [at : {"off", "create", "account", "check", "insert", "close"}, t : Trades \cup {0},
          a : Accounts \cup {NoAccount}, cash : Int, cost : Int]

RequestSound ==
  /\ req \in Asked
  /\ req.at \in {"account", "check", "insert"} => req.t \in Trades
  /\ req.at \in {"create", "account", "check", "insert"} /\ req.t \in Trades =>
       simTrade[req.t].st = "NONE"
  /\ req.at \in {"check", "insert"} => req.a \in Accounts /\ account[req.a].st # "NONE"
  /\ req.at = "close" => req.t \in Trades /\ req.cost \in Costs

Engines(left) ==
  [at : {"off", "trades", "close", "record", "figures", "sweep", "sweepRecord"},
   list : SUBSET Trades, t : Trades \cup {0}, rule : Rules \cup {"none"}, cost : Int,
   cash : [Accounts -> Int], seen : [Trades -> Marks \cup {NoFigures}],
   a : Accounts \cup {NoAccount}, left : {left}]

EngineSound ==
  /\ engine \in Engines(engine.left)
  /\ engine.at \in {"close", "record", "sweepRecord"} => engine.t \in Trades
  /\ engine.at \in {"close", "record"} => engine.rule \in Rules
  /\ engine.at = "close" => engine.cost \in Costs
  /\ engine.at = "record" =>
       simTrade[engine.t].st = "CLOSED" /\ simTrade[engine.t].reason = engine.rule
  /\ engine.at = "sweepRecord" => simTrade[engine.t].st = "LIQUIDATED"

SimInv == RowsTyped /\ RowsCoherent /\ RequestSound /\ EngineSound /\ EventsAreTrue

LEMMA SimConstants ==
  /\ 0 \notin Trades /\ NoAccount \notin Accounts /\ -1 \notin Accounts
  /\ Accounts \subseteq Int /\ Trades \subseteq Int
  /\ Costs \subseteq Int /\ Capital \in Int /\ Credit \in Int
  /\ \A m \in Marks : m.cost \in Costs /\ m.margin \in Int
  /\ NoReq \in Asked /\ NoReq.at = "off" /\ NoReq.t = 0
  /\ NoEngine \in Engines(0) /\ NoEngine.at = "off" /\ NoEngine.left = 0
<1>1. /\ 0 \notin Trades /\ NoAccount \notin Accounts /\ -1 \notin Accounts
      /\ Accounts \subseteq Int /\ Trades \subseteq Int
      /\ Costs \subseteq Int /\ Capital \in Int /\ Credit \in Int
      /\ \A m \in Marks : m.cost \in Costs /\ m.margin \in Int
  <2>1. /\ 0 \notin Trades /\ NoAccount \notin Accounts /\ -1 \notin Accounts
        /\ Accounts \subseteq Int /\ Trades \subseteq Int /\ Capital \in Int /\ Credit \in Int
    BY SimAssumption DEF NoAccount
  <2>2. \A m \in Marks : m.cost \in Int /\ m.margin \in Int
    BY SimAssumption DEF NoCost
  <2>3. SettleCosts \subseteq Int
    BY SimAssumption
  <2>4. \A m \in Marks : m.cost \in Costs
    BY DEF Costs
  <2>5. Costs \subseteq Int
    BY <2>2, <2>3 DEF Costs
  <2> QED BY <2>1, <2>2, <2>4, <2>5
<1>2. NoReq \in Asked /\ NoReq.at = "off" /\ NoReq.t = 0
  BY DEF NoReq, Asked
<1>3. /\ [a \in Accounts |-> 0] \in [Accounts -> Int]
      /\ [t \in Trades |-> NoFigures] \in [Trades -> Marks \cup {NoFigures}]
  OBVIOUS
<1>4. NoEngine \in Engines(0) /\ NoEngine.at = "off" /\ NoEngine.left = 0
  BY <1>3 DEF NoEngine, Engines
<1> QED BY <1>1, <1>2, <1>4

LEMMA SimInitInv == SimInit => SimInv
<1> SUFFICES ASSUME SimInit PROVE SimInv
  OBVIOUS
<1> USE SimConstants
<1>1. RowsTyped
  BY DEF SimInit, RowsTyped, SimAccountRows, TradeRows
<1>2. RowsCoherent
  BY DEF SimInit, RowsCoherent
<1>3. RequestSound
  BY DEF SimInit, RequestSound
<1>4. EngineSound
  BY DEF SimInit, EngineSound
<1>5. EventsAreTrue
  BY DEF SimInit, EventsAreTrue
<1> QED BY <1>1, <1>2, <1>3, <1>4, <1>5 DEF SimInv

-----------------------------------------------------------------------------
(* Ending a trade keeps the rows, and whatever was known of a trade that   *)
(* had ended or had not been entered.                                      *)
LEMMA EndKeeps ==
  ASSUME RowsTyped, RowsCoherent, NEW t \in Trades, NEW status \in Ends,
         NEW reason \in Rules \cup {"MANUAL", "EXPIRED", "MARGIN_CALL"}, NEW cost \in Costs,
         End(t, status, reason, cost), UNCHANGED <<events, mark>>
  PROVE  /\ RowsTyped' /\ RowsCoherent'
         /\ \A u \in Trades : simTrade[u].st # "OPEN" => simTrade'[u] = simTrade[u]
         /\ \A a \in Accounts : account'[a].st = account[a].st
         /\ simTrade[t].st = "OPEN" => simTrade'[t].st = status /\ simTrade'[t].reason = reason
<1> USE SimConstants
<1>1. CASE simTrade[t].st = "OPEN"
  <2> DEFINE a == simTrade[t].a
  <2>1. a \in Accounts /\ account[a].st # "NONE"
    BY <1>1 DEF RowsCoherent
  <2>2. /\ simTrade' = [simTrade EXCEPT ![t].st = status, ![t].reason = reason]
        /\ account' = [account EXCEPT ![a].cash = @ + Credit - cost]
    BY <1>1 DEF End
  <2>3. simTrade' \in [Trades -> TradeRows]
    BY <2>2, ZenonT(60) DEF RowsTyped, TradeRows
  <2>4. account' \in [Accounts -> SimAccountRows]
    BY <2>1, <2>2 DEF RowsTyped, SimAccountRows
  <2>5. /\ simTrade'[t].st = status /\ simTrade'[t].reason = reason /\ simTrade'[t].a = a
        /\ \A u \in Trades \ {t} : simTrade'[u] = simTrade[u]
    BY <2>2 DEF RowsTyped, TradeRows
  <2>6. /\ \A b \in Accounts : account'[b].st = account[b].st
        /\ \A b \in Accounts \ {a} : account'[b] = account[b]
    BY <2>2 DEF RowsTyped, SimAccountRows
  <2> HIDE DEF a
  <2>7. \A b \in Accounts : account'[b].st = "NONE" => account'[b].cash = Capital
    BY <2>1, <2>6 DEF RowsCoherent
  <2>8. \A u \in Trades : simTrade'[u].st # "NONE" =>
          simTrade'[u].a \in Accounts /\ account'[simTrade'[u].a].st # "NONE"
    <3> TAKE u \in Trades
    <3>1. CASE u = t
      BY <2>1, <2>5, <2>6, <3>1
    <3>2. CASE u # t
      BY <2>5, <2>6, <3>2 DEF RowsCoherent
    <3> QED BY <3>1, <3>2
  <2>9. RowsCoherent'
    BY <2>7, <2>8 DEF RowsCoherent
  <2> QED BY <1>1, <2>3, <2>4, <2>5, <2>6, <2>9 DEF RowsTyped
<1>2. CASE simTrade[t].st # "OPEN"
  BY <1>2 DEF End, RowsTyped, RowsCoherent
<1> QED BY <1>1, <1>2

LEMMA SettledStaysTrue ==
  ASSUME EventsAreTrue, DOMAIN events = Trades, UNCHANGED events,
         \A u \in Trades : simTrade[u].st # "OPEN" => simTrade'[u] = simTrade[u]
  PROVE  EventsAreTrue'
BY DEF EventsAreTrue

LEMMA AccountsStay ==
  ASSUME RowsCoherent, UNCHANGED simTrade, NEW a \in Accounts,
         \A b \in Accounts \ {a} : account'[b].cash = account[b].cash
                                  /\ (account'[b].st = "NONE" <=> account[b].st = "NONE"),
         account'[a].st # "NONE"
  PROVE  RowsCoherent'
BY DEF RowsCoherent

LEMMA ApiKeeps ==
  ASSUME SimInv, ApiStep PROVE SimInv'
<1> USE SimConstants DEF SimInv, simRows, simWorld
<1>1. CASE ResetDeactivate
  <2>1. account' = [a \in Accounts |->
          IF a \in Active THEN [account[a] EXCEPT !.st = "INACTIVE"] ELSE account[a]]
    BY <1>1 DEF ResetDeactivate
  <2>2. account' \in [Accounts -> SimAccountRows]
    BY <2>1 DEF RowsTyped, SimAccountRows
  <2>3. \A a \in Accounts : /\ account'[a].cash = account[a].cash
                            /\ account'[a].st = "NONE" <=> account[a].st = "NONE"
    BY <2>1 DEF RowsTyped, SimAccountRows, Active
  <2>4. RowsCoherent'
    BY <1>1, <2>3 DEF ResetDeactivate, RowsCoherent
  <2>5. req' \in Asked /\ req'.at = "create" /\ req'.t = 0
    BY <1>1 DEF ResetDeactivate, Asked, NoReq
  <2>6. RequestSound'
    BY <2>5 DEF RequestSound
  <2> QED BY <1>1, <2>2, <2>4, <2>6 DEF ResetDeactivate, RowsTyped, EngineSound, EventsAreTrue
<1>2. ASSUME NEW a \in Accounts, CreateAccount(a) PROVE SimInv'
  <2>1. account' = [account EXCEPT ![a] = [st |-> "ACTIVE", cash |-> Capital]]
    BY <1>2 DEF CreateAccount, Create
  <2>2. account' \in [Accounts -> SimAccountRows]
    BY <2>1 DEF RowsTyped, SimAccountRows
  <2>3. account'[a].st = "ACTIVE" /\ \A b \in Accounts \ {a} : account'[b] = account[b]
    BY <2>1 DEF RowsTyped
  <2>4. UNCHANGED <<simTrade, events, mark, engine>>
    BY <1>2 DEF CreateAccount
  <2>5. RowsCoherent'
    BY <2>3, <2>4, AccountsStay
  <2>6. req' = IF req.t = 0 THEN NoReq ELSE [req EXCEPT !.at = "check", !.a = a, !.cash = Capital]
    BY <1>2 DEF CreateAccount
  <2>7. req.at = "create"
    BY <1>2 DEF CreateAccount
  <2>8. RequestSound'
    BY <2>3, <2>4, <2>6, <2>7 DEF RequestSound, Asked
  <2> QED BY <2>2, <2>4, <2>5, <2>8 DEF RowsTyped, EngineSound, EventsAreTrue
<1>3. ASSUME NEW t \in Trades, PlaceQuote(t) PROVE SimInv'
  <2>1. mark[t].margin \in Int
    BY DEF RowsTyped
  <2>2. req' \in Asked /\ req'.at = "account" /\ req'.t = t
    BY <1>3, <2>1 DEF PlaceQuote, Asked, NoReq
  <2>3. RequestSound'
    BY <1>3, <2>2 DEF PlaceQuote, RequestSound
  <2> QED BY <1>3, <2>3 DEF PlaceQuote, RowsTyped, RowsCoherent, EngineSound, EventsAreTrue
<1>4. CASE PlaceAccount
  <2>1. UNCHANGED <<account, simTrade, events, mark, engine>>
    BY <1>4 DEF PlaceAccount
  <2>2. req.at = "account"
    BY <1>4 DEF PlaceAccount
  <2>3. CASE \E a \in Active : req' = [req EXCEPT !.at = "check", !.a = a, !.cash = account[a].cash]
    <3>1. PICK a \in Active : req' = [req EXCEPT !.at = "check", !.a = a, !.cash = account[a].cash]
      BY <2>3
    <3>2. a \in Accounts /\ account[a].st # "NONE" /\ account[a].cash \in Int
      BY DEF Active, RowsTyped, SimAccountRows
    <3>3. RequestSound'
      BY <2>1, <2>2, <3>1, <3>2 DEF RequestSound, Asked
    <3> QED BY <2>1, <3>3 DEF RowsTyped, RowsCoherent, EngineSound, EventsAreTrue
  <2>4. CASE req' = [req EXCEPT !.at = "create"]
    <3>1. RequestSound'
      BY <2>1, <2>2, <2>4 DEF RequestSound, Asked
    <3> QED BY <2>1, <3>1 DEF RowsTyped, RowsCoherent, EngineSound, EventsAreTrue
  <2>5. CASE req' = NoReq
    BY <2>1, <2>5 DEF RequestSound, RowsTyped, RowsCoherent, EngineSound, EventsAreTrue
  <2> QED BY <1>4, <2>3, <2>4, <2>5 DEF PlaceAccount
<1>5. CASE PlaceCheck
  <2>1. /\ UNCHANGED <<account, simTrade, events, mark, engine>>
        /\ req.at = "check"
        /\ req' = NoReq \/ req' = [req EXCEPT !.at = "insert"]
    BY <1>5 DEF PlaceCheck
  <2>2. RequestSound'
    BY <2>1 DEF RequestSound, Asked
  <2> QED BY <2>1, <2>2 DEF RowsTyped, RowsCoherent, EngineSound, EventsAreTrue
<1>6. CASE PlaceInsert
  <2> DEFINE t == req.t
             new == [st |-> "OPEN", a |-> req.a, reason |-> "none"]
  <2>1. t \in Trades /\ simTrade[t].st = "NONE" /\ req.a \in Accounts /\ account[req.a].st # "NONE"
    BY <1>6 DEF PlaceInsert, RequestSound
  <2>2. /\ UNCHANGED <<account, events, mark, engine>>
        /\ simTrade' = [simTrade EXCEPT ![t] = new]
        /\ req' = NoReq
    BY <1>6 DEF PlaceInsert
  <2>3. new \in TradeRows /\ new.st = "OPEN" /\ new.a = req.a
    BY <2>1 DEF TradeRows
  <2> HIDE DEF t, new
  <2>4. simTrade'[t] = new /\ \A u \in Trades \ {t} : simTrade'[u] = simTrade[u]
    BY <2>1, <2>2 DEF RowsTyped
  <2>5. RowsTyped'
    BY <2>2, <2>3 DEF RowsTyped
  <2>6. RowsCoherent'
    BY <2>1, <2>2, <2>3, <2>4 DEF RowsCoherent
  <2>7. EngineSound'
    BY <2>1, <2>2, <2>4 DEF EngineSound
  <2>8. EventsAreTrue'
    BY <2>1, <2>2, <2>4 DEF EventsAreTrue
  <2> QED BY <2>2, <2>5, <2>6, <2>7, <2>8 DEF RequestSound
<1>7. ASSUME NEW t \in Trades, CloseRead(t) PROVE SimInv'
  <2>1. mark[t].cost \in Costs
    BY DEF RowsTyped
  <2>2. req' \in Asked /\ req'.at = "close" /\ req'.t = t /\ req'.cost = mark[t].cost
    BY <1>7, <2>1 DEF CloseRead, Asked, NoReq
  <2>3. RequestSound'
    BY <1>7, <2>1, <2>2 DEF CloseRead, RequestSound
  <2> QED BY <1>7, <2>3 DEF CloseRead, RowsTyped, RowsCoherent, EngineSound, EventsAreTrue
<1>8. CASE CloseEnd
  <2>1. req.t \in Trades /\ req.cost \in Costs
    BY <1>8 DEF CloseEnd, RequestSound
  <2>2. /\ End(req.t, "CLOSED", "MANUAL", req.cost) /\ req' = NoReq
        /\ UNCHANGED <<events, mark, engine>>
    BY <1>8 DEF CloseEnd
  <2>3. /\ RowsTyped' /\ RowsCoherent'
        /\ \A u \in Trades : simTrade[u].st # "OPEN" => simTrade'[u] = simTrade[u]
    BY <2>1, <2>2, EndKeeps DEF Ends
  <2>4. EventsAreTrue'
    BY <2>2, <2>3, SettledStaysTrue DEF RowsTyped
  <2>5. EngineSound'
    BY <2>2, <2>3 DEF EngineSound
  <2> QED BY <2>2, <2>3, <2>4, <2>5 DEF RequestSound
<1> QED BY <1>1, <1>2, <1>3, <1>4, <1>5, <1>6, <1>7, <1>8 DEF ApiStep

LEMMA EodKeeps ==
  ASSUME SimInv, SimEodStep PROVE SimInv'
<1> USE SimConstants DEF SimInv, simRows, simWorld
<1>1. ASSUME NEW t \in Trades, SimEodSettle(t) PROVE SimInv'
  <2>1. PICK cost \in SettleCosts : End(t, "EXPIRED", "EXPIRED", cost)
    BY <1>1 DEF SimEodSettle
  <2>2. cost \in Costs
    BY DEF Costs
  <2>3. UNCHANGED <<events, mark, req, engine>>
    BY <1>1 DEF SimEodSettle
  <2>4. /\ RowsTyped' /\ RowsCoherent'
        /\ \A u \in Trades : simTrade[u].st # "OPEN" => simTrade'[u] = simTrade[u]
        /\ \A a \in Accounts : account'[a].st = account[a].st
    BY <2>1, <2>2, <2>3, EndKeeps DEF Ends
  <2>5. EventsAreTrue'
    BY <2>3, <2>4, SettledStaysTrue DEF RowsTyped
  <2>6. RequestSound'
    BY <2>3, <2>4 DEF RequestSound
  <2>7. EngineSound'
    BY <2>3, <2>4 DEF EngineSound
  <2> QED BY <2>4, <2>5, <2>6, <2>7
<1>2. ASSUME SimEodStart \/ \E t \in Trades : EodPass(t) PROVE SimInv'
  BY <1>2 DEF SimEodStart, EodPass, RowsTyped, RowsCoherent, RequestSound, EngineSound, EventsAreTrue
<1> QED BY <1>1, <1>2 DEF SimEodStep

(* A step of the engine that ends no trade and leaves the rows alone.      *)
LEMMA EngineOnly ==
  ASSUME SimInv, EngineSound', UNCHANGED <<account, simTrade, events, mark, req>>
  PROVE  SimInv'
BY DEF SimInv, RowsTyped, RowsCoherent, RequestSound, EventsAreTrue

LEMMA EngineKeeps ==
  ASSUME SimInv, EngineStep PROVE SimInv'
<1> USE SimConstants DEF SimInv, simRows, simWorld
<1>1. CASE EngineStart
  <2>1. OpenTrades \in SUBSET Trades
    BY DEF OpenTrades
  <2>2. engine' = [NoEngine EXCEPT !.at = "trades", !.list = OpenTrades]
    BY <1>1 DEF EngineStart
  <2>3. EngineSound'
    BY <2>1, <2>2, ZenonT(60) DEF EngineSound, Engines, NoEngine
  <2> QED BY <1>1, <2>3, EngineOnly DEF EngineStart
<1>2. ASSUME NEW t \in Trades, EngineLook(t) PROVE SimInv'
  <2>1. mark[t] \in Marks
    BY DEF RowsTyped
  <2>2. PICK rule \in IF t \in expired THEN {"none"} ELSE RulesDue(mark[t].cost) :
          engine' = IF rule = "none" THEN [engine EXCEPT !.list = @ \ {t}]
                    ELSE [engine EXCEPT !.list = @ \ {t}, !.at = "close", !.t = t,
                                        !.rule = rule, !.cost = mark[t].cost]
    BY <1>2 DEF EngineLook, EngineSound, Engines
  <2>3. rule \in Rules \cup {"none"}
    BY DEF RulesDue, Rules
  <2>4. engine.at = "trades"
    BY <1>2 DEF EngineLook
  <2>5. EngineSound'
    BY <2>1, <2>2, <2>3, <2>4 DEF EngineSound, Engines
  <2> QED BY <1>2, <2>5, EngineOnly DEF EngineLook
<1>3. CASE EngineClose
  <2>1. engine.t \in Trades /\ engine.rule \in Rules /\ engine.cost \in Costs
    BY <1>3 DEF EngineClose, EngineSound
  <2>2. /\ End(engine.t, "CLOSED", engine.rule, engine.cost)
        /\ engine' = [engine EXCEPT !.at =
                        IF simTrade[engine.t].st = "OPEN" THEN "record" ELSE "trades"]
        /\ UNCHANGED <<events, mark, req>>
    BY <1>3 DEF EngineClose
  <2>3. /\ RowsTyped' /\ RowsCoherent'
        /\ \A u \in Trades : simTrade[u].st # "OPEN" => simTrade'[u] = simTrade[u]
        /\ \A a \in Accounts : account'[a].st = account[a].st
        /\ simTrade[engine.t].st = "OPEN" =>
             simTrade'[engine.t].st = "CLOSED" /\ simTrade'[engine.t].reason = engine.rule
    BY <2>1, <2>2, EndKeeps DEF Ends
  <2>4. EventsAreTrue'
    BY <2>2, <2>3, SettledStaysTrue DEF RowsTyped
  <2>5. RequestSound'
    BY <2>2, <2>3 DEF RequestSound
  <2>6. EngineSound'
    BY <2>1, <2>2, <2>3 DEF EngineSound, Engines
  <2> QED BY <2>3, <2>4, <2>5, <2>6
<1>4. CASE EngineRecord
  <2>1. /\ engine.t \in Trades /\ engine.rule \in Rules
        /\ simTrade[engine.t].st = "CLOSED" /\ simTrade[engine.t].reason = engine.rule
    BY <1>4 DEF EngineRecord, EngineSound
  <2>2. /\ events' = [events EXCEPT ![engine.t] = @ \cup {<<engine.rule, "AUTO_CLOSED">>}]
        /\ engine' = [engine EXCEPT !.at = "trades"]
        /\ UNCHANGED <<account, simTrade, mark, req>>
    BY <1>4 DEF EngineRecord, Record
  <2>3. EngineSound'
    BY <2>2 DEF EngineSound, Engines
  <2>4. EventsAreTrue'
    <3> SUFFICES ASSUME NEW t \in Trades, NEW r \in Rules
                 PROVE  /\ <<r, "AUTO_CLOSED">> \in events'[t] =>
                             simTrade[t].st = "CLOSED" /\ simTrade[t].reason = r
                        /\ <<"MARGIN_CALL", "LIQUIDATED">> \in events'[t] =>
                             simTrade[t].st = "LIQUIDATED"
      BY <2>2 DEF EventsAreTrue, Rules
    <3>1. CASE t # engine.t
      BY <2>2, <3>1 DEF EventsAreTrue, Rules, RowsTyped
    <3>2. CASE t = engine.t
      <4>1. events'[t] = events[t] \cup {<<engine.rule, "AUTO_CLOSED">>}
        BY <2>2, <3>2 DEF RowsTyped
      <4> QED BY <2>1, <3>2, <4>1 DEF EventsAreTrue, Rules
    <3> QED BY <3>1, <3>2
  <2> QED BY <2>2, <2>3, <2>4 DEF RowsTyped, RowsCoherent, RequestSound
<1>5. CASE SweepStart
  <2>1. OpenTrades \in SUBSET Trades
    BY DEF OpenTrades
  <2>2. [a \in Accounts |-> account[a].cash] \in [Accounts -> Int]
    BY DEF RowsTyped, SimAccountRows
  <2>3. engine' = NoEngine \/
        engine' = [NoEngine EXCEPT !.at = "figures", !.list = OpenTrades,
                     !.cash = [a \in Accounts |-> account[a].cash]]
    BY <1>5 DEF SweepStart
  <2>4. EngineSound'
    BY <2>1, <2>2, <2>3, ZenonT(60) DEF EngineSound, Engines
  <2> QED BY <1>5, <2>4, EngineOnly DEF SweepStart
<1>6. ASSUME NEW t \in Trades, SweepFigures(t) PROVE SimInv'
  <2>1. mark[t] \in Marks
    BY DEF RowsTyped
  <2>2. engine' = [engine EXCEPT !.list = @ \ {t}, !.seen = [engine.seen EXCEPT ![t] = mark[t]]]
        /\ engine.at = "figures"
    BY <1>6 DEF SweepFigures, EngineSound, Engines
  <2>3. [engine.seen EXCEPT ![t] = mark[t]] \in [Trades -> Marks \cup {NoFigures}]
    BY <2>1 DEF EngineSound, Engines
  <2>4. EngineSound'
    BY <2>2, <2>3 DEF EngineSound, Engines
  <2> QED BY <1>6, <2>4, EngineOnly DEF SweepFigures
<1>7. ASSUME NEW a \in Accounts, SweepAccount(a) PROVE SimInv'
  <2>1. Seen(a) \in SUBSET Trades
    BY DEF Seen
  <2> DEFINE margin == Total(SeenMargin, Seen(a))
             over == margin > Worth(a)
  <2>2. engine' = [engine EXCEPT !.a = a, !.left = margin,
                                 !.list = IF over THEN Seen(a) ELSE {},
                                 !.at = IF over THEN "sweep" ELSE "figures"]
    BY <1>7 DEF SweepAccount
  <2> HIDE DEF margin, over
  <2>3. EngineSound'
    BY <2>1, <2>2 DEF EngineSound, Engines
  <2> QED BY <1>7, <2>3, EngineOnly DEF SweepAccount
<1>8. ASSUME NEW t \in Trades, SweepLiquidate(t) PROVE SimInv'
  <2> DEFINE rest == [engine EXCEPT !.list = @ \ {t}]
  <2>1. rest \in Engines(engine.left) /\ rest.at = "sweep" /\ rest.left = engine.left
    BY <1>8 DEF SweepLiquidate, EngineSound, Engines
  <2>2. CASE ~SweepDue(t)
    <3>1. engine' = rest /\ UNCHANGED <<account, simTrade, events, mark, req>>
      BY <1>8, <2>2 DEF SweepLiquidate
    <3>2. EngineSound'
      BY <2>1, <3>1 DEF EngineSound
    <3> QED BY <3>1, <3>2, EngineOnly
  <2>3. CASE SweepDue(t)
    <3>1. /\ End(t, "LIQUIDATED", "MARGIN_CALL", engine.seen[t].cost)
          /\ engine' = IF simTrade[t].st = "OPEN"
                       THEN [rest EXCEPT !.at = "sweepRecord", !.t = t] ELSE rest
          /\ UNCHANGED <<events, mark, req>>
      BY <1>8, <2>3 DEF SweepLiquidate
    <3>2. engine.seen[t].cost \in Costs
      <4>1. engine.seen[t] \in Marks \cup {NoFigures} /\ engine.seen[t].cost # NoCost
        BY <2>3 DEF EngineSound, Engines, SweepDue
      <4>2. engine.seen[t] # NoFigures
        BY <4>1 DEF NoFigures
      <4> QED BY <4>1, <4>2
    <3>3. /\ RowsTyped' /\ RowsCoherent'
          /\ \A u \in Trades : simTrade[u].st # "OPEN" => simTrade'[u] = simTrade[u]
          /\ \A a \in Accounts : account'[a].st = account[a].st
          /\ simTrade[t].st = "OPEN" => simTrade'[t].st = "LIQUIDATED"
      BY <3>1, <3>2, EndKeeps DEF Ends
    <3>4. EventsAreTrue'
      BY <3>1, <3>3, SettledStaysTrue DEF RowsTyped
    <3>5. RequestSound'
      BY <3>1, <3>3 DEF RequestSound
    <3> HIDE DEF rest
    <3>6. EngineSound'
      BY <2>1, <3>1, <3>3 DEF EngineSound, Engines
    <3> QED BY <3>3, <3>4, <3>5, <3>6
  <2> QED BY <2>2, <2>3
<1>9. CASE SweepRecord
  <2>1. engine.t \in Trades /\ simTrade[engine.t].st = "LIQUIDATED"
    BY <1>9 DEF SweepRecord, EngineSound
  <2>2. PICK left :
          engine' = [engine EXCEPT !.at = "sweep", !.t = 0, !.left = left]
    BY <1>9 DEF SweepRecord
  <2>3. /\ events' = [events EXCEPT ![engine.t] = @ \cup {<<"MARGIN_CALL", "LIQUIDATED">>}]
        /\ UNCHANGED <<account, simTrade, mark, req>>
    BY <1>9 DEF SweepRecord, Record
  <2>4. EngineSound'
    BY <2>2 DEF EngineSound, Engines
  <2>5. EventsAreTrue'
    <3> SUFFICES ASSUME NEW t \in Trades, NEW r \in Rules
                 PROVE  /\ <<r, "AUTO_CLOSED">> \in events'[t] =>
                             simTrade[t].st = "CLOSED" /\ simTrade[t].reason = r
                        /\ <<"MARGIN_CALL", "LIQUIDATED">> \in events'[t] =>
                             simTrade[t].st = "LIQUIDATED"
      BY <2>3 DEF EventsAreTrue, Rules
    <3>1. CASE t # engine.t
      BY <2>3, <3>1 DEF EventsAreTrue, Rules, RowsTyped
    <3>2. CASE t = engine.t
      <4>1. events'[t] = events[t] \cup {<<"MARGIN_CALL", "LIQUIDATED">>}
        BY <2>3, <3>2 DEF RowsTyped
      <4> QED BY <2>1, <3>2, <4>1 DEF EventsAreTrue, Rules
    <3> QED BY <3>1, <3>2
  <2> QED BY <2>3, <2>4, <2>5 DEF RowsTyped, RowsCoherent, RequestSound
<1>10. CASE SweepAccountEnd
  <2>1. EngineSound'
    BY <1>10 DEF SweepAccountEnd, EngineSound, Engines
  <2> QED BY <1>10, <2>1, EngineOnly DEF SweepAccountEnd
<1>11. CASE SweepEnd
  <2>1. EngineSound'
    BY <1>11 DEF SweepEnd, EngineSound
  <2> QED BY <1>11, <2>1, EngineOnly DEF SweepEnd
<1> QED BY <1>1, <1>2, <1>3, <1>4, <1>5, <1>6, <1>7, <1>8, <1>9, <1>10, <1>11 DEF EngineStep

LEMMA SimStepInv == SimInv /\ [SimNext]_simVars => SimInv'
<1> SUFFICES ASSUME SimInv, [SimNext]_simVars PROVE SimInv'
  OBVIOUS
<1> USE SimConstants DEF simRows, simWorld
<1>1. ASSUME NEW t \in Trades, MarketMove(t) PROVE SimInv'
  <2>1. mark' \in [Trades -> Marks]
    BY <1>1 DEF MarketMove, SimInv, RowsTyped
  <2> QED BY <1>1, <2>1
          DEF MarketMove, SimInv, RowsTyped, RowsCoherent, RequestSound, EngineSound, EventsAreTrue
<1>2. ASSUME NEW t \in Trades, SimExpire(t) PROVE SimInv'
  BY <1>2 DEF SimExpire, SimInv, RowsTyped, RowsCoherent, RequestSound, EngineSound, EventsAreTrue
<1>3. CASE SimRestart
  <2>1. EngineSound'
    BY <1>3 DEF SimRestart, EngineSound
  <2> QED BY <1>3, <2>1, EngineOnly DEF SimRestart
<1>4. CASE UNCHANGED simVars
  BY <1>4 DEF simVars, SimInv, RowsTyped, RowsCoherent, RequestSound, EngineSound, EventsAreTrue
<1> QED BY <1>1, <1>2, <1>3, <1>4, ApiKeeps, EodKeeps, EngineKeeps DEF SimNext

(* An exit event says what happened, for any accounts and trades, however  *)
(* the engine, the sweep, the settlement, a person and restarts interleave.*)
THEOREM EventsTrue == SimSpec => []EventsAreTrue
<1>1. SimInv => EventsAreTrue
  BY DEF SimInv
<1> QED BY <1>1, SimInitInv, SimStepInv, PTL DEF SimSpec

-----------------------------------------------------------------------------
(* What a step does to the accounts, their cash and who holds a trade.     *)
Opened == {a \in Accounts : account[a].st # "NONE"}
Cash   == [a \in Accounts |-> account[a].cash]
Holder(t) == CASE simTrade[t].st = "NONE" -> 0
               [] simTrade[t].st = "OPEN" -> simTrade[t].a
               [] OTHER -> -1
Held   == [t \in Trades |-> Holder(t)]
AccountVars == <<Opened, Cash, Held>>
Promised == Balances!AccountsNext \/ UNCHANGED AccountVars

LEMMA RowsSame ==
  ASSUME UNCHANGED simTrade,
         \A a \in Accounts : account'[a].cash = account[a].cash
                             /\ (account'[a].st = "NONE" <=> account[a].st = "NONE")
  PROVE  UNCHANGED AccountVars
BY DEF AccountVars, Opened, Cash, Held, Holder

LEMMA EndFinishes ==
  ASSUME SimInv, NEW t \in Trades, NEW status \in Ends, NEW reason, NEW cost \in Costs,
         End(t, status, reason, cost)
  PROVE  Promised
<1> USE SimConstants DEF SimInv
<1>1. CASE simTrade[t].st = "OPEN"
  <2> DEFINE r == Credit - cost
  <2>1. PICK a \in Accounts : simTrade[t].a = a
    BY <1>1 DEF RowsCoherent
  <2>2. /\ simTrade' = [simTrade EXCEPT ![t].st = status, ![t].reason = reason]
        /\ account' = [account EXCEPT ![a].cash = @ + Credit - cost]
    BY <1>1, <2>1 DEF End
  <2>3. /\ simTrade'[t].st = status
        /\ \A u \in Trades \ {t} : simTrade'[u] = simTrade[u]
    BY <2>2 DEF RowsTyped, TradeRows
  <2>4. /\ account[a].cash \in Int
        /\ account'[a].cash = account[a].cash + r
        /\ \A b \in Accounts : account'[b].st = account[b].st
        /\ \A b \in Accounts \ {a} : account'[b] = account[b]
    BY <2>1, <2>2 DEF RowsTyped, SimAccountRows
  <2>5. Holder(t) = a
    BY <1>1, <2>1 DEF Holder
  <2>6. Holder(t)' = -1 /\ \A u \in Trades \ {t} : Holder(u)' = Holder(u)
    BY <2>3 DEF Holder, Ends
  <2>7. r \in {Credit - c : c \in SettleCosts \cup {m.cost : m \in Marks}}
    BY DEF Costs
  <2> HIDE DEF r
  <2>8. Held' = [Held EXCEPT ![t] = -1]
    BY <2>6 DEF Held
  <2>9. Cash' = [Cash EXCEPT ![a] = @ + r]
    BY <2>1, <2>4 DEF Cash
  <2>10. UNCHANGED Opened
    BY <2>4 DEF Opened
  <2>11. Balances!Finish(t, a)
    BY <2>5, <2>7, <2>8, <2>9, <2>10
       DEF Balances!Finish, Balances!Ended, Held, Holder, Cash, Opened
  <2> QED BY <2>1, <2>11 DEF Promised, Balances!AccountsNext
<1>2. CASE simTrade[t].st # "OPEN"
  BY <1>2, RowsSame DEF End, Promised
<1> QED BY <1>1, <1>2

LEMMA ApiMaps == ASSUME SimInv, ApiStep PROVE Promised
<1> USE SimConstants DEF SimInv, simRows
<1>1. CASE ResetDeactivate
  <2>1. \A a \in Accounts : /\ account'[a].cash = account[a].cash
                            /\ account'[a].st = "NONE" <=> account[a].st = "NONE"
    BY <1>1 DEF ResetDeactivate, RowsTyped, SimAccountRows, Active
  <2> QED BY <1>1, <2>1, RowsSame DEF ResetDeactivate, Promised
<1>2. ASSUME NEW a \in Accounts, CreateAccount(a) PROVE Promised
  <2>1. account' = [account EXCEPT ![a] = [st |-> "ACTIVE", cash |-> Capital]]
        /\ account[a].st = "NONE" /\ UNCHANGED simTrade
    BY <1>2 DEF CreateAccount, Create, Unused
  <2>2. account[a].cash = Capital
    BY <2>1 DEF RowsCoherent
  <2>3. account'[a] = [st |-> "ACTIVE", cash |-> Capital]
        /\ \A b \in Accounts \ {a} : account'[b] = account[b]
    BY <2>1 DEF RowsTyped
  <2>4. UNCHANGED Cash
    BY <2>2, <2>3 DEF Cash
  <2>5. Opened' = Opened \cup {a} /\ a \notin Opened
    BY <2>1, <2>3 DEF Opened
  <2>6. UNCHANGED Held
    BY <2>1 DEF Held, Holder
  <2>7. Balances!OpenAccount(a)
    BY <2>4, <2>5, <2>6 DEF Balances!OpenAccount, Opened, Cash, Held, Holder
  <2> QED BY <2>7 DEF Promised, Balances!AccountsNext
<1>3. CASE PlaceInsert
  <2>1. PICK t \in Trades, a \in Accounts :
          req.t = t /\ req.a = a /\ simTrade[t].st = "NONE" /\ account[a].st # "NONE"
    BY <1>3 DEF PlaceInsert, RequestSound
  <2>2. UNCHANGED account
        /\ simTrade' = [simTrade EXCEPT ![t] = [st |-> "OPEN", a |-> a, reason |-> "none"]]
    BY <1>3, <2>1 DEF PlaceInsert
  <2>3. simTrade'[t] = [st |-> "OPEN", a |-> a, reason |-> "none"]
        /\ \A u \in Trades \ {t} : simTrade'[u] = simTrade[u]
    BY <2>1, <2>2 DEF RowsTyped
  <2>4. Holder(t) = 0 /\ Holder(t)' = a /\ \A u \in Trades \ {t} : Holder(u)' = Holder(u)
    BY <2>1, <2>3 DEF Holder
  <2>5. Held' = [Held EXCEPT ![t] = a] /\ Held[t] = 0
    BY <2>1, <2>4 DEF Held
  <2>6. a \in Opened /\ UNCHANGED <<Opened, Cash>>
    BY <2>1, <2>2 DEF Opened, Cash
  <2>7. Balances!Enter(t, a)
    BY <2>5, <2>6 DEF Balances!Enter, Balances!NotYet, Opened, Cash, Held, Holder
  <2> QED BY <2>1, <2>7 DEF Promised, Balances!AccountsNext
<1>4. CASE CloseEnd
  <2>1. req.t \in Trades /\ req.cost \in Costs
    BY <1>4 DEF CloseEnd, RequestSound
  <2> QED BY <1>4, <2>1, EndFinishes DEF CloseEnd, Ends
<1>5. ASSUME PlaceAccount \/ PlaceCheck \/ \E t \in Trades : PlaceQuote(t) \/ CloseRead(t)
      PROVE  Promised
  BY <1>5, RowsSame DEF PlaceAccount, PlaceCheck, PlaceQuote, CloseRead, Promised
<1> QED BY <1>1, <1>2, <1>3, <1>4, <1>5 DEF ApiStep

LEMMA JobsMap == ASSUME SimInv, SimEodStep \/ EngineStep PROVE Promised
<1> USE SimConstants DEF SimInv, simRows
<1>1. ASSUME NEW t \in Trades, SimEodSettle(t) PROVE Promised
  <2>1. PICK cost \in SettleCosts : End(t, "EXPIRED", "EXPIRED", cost)
    BY <1>1 DEF SimEodSettle
  <2>2. cost \in Costs
    BY DEF Costs
  <2> QED BY <2>1, <2>2, EndFinishes DEF Ends
<1>2. CASE EngineClose
  <2>1. engine.t \in Trades /\ engine.cost \in Costs
    BY <1>2 DEF EngineClose, EngineSound
  <2> QED BY <1>2, <2>1, EndFinishes DEF EngineClose, Ends
<1>3. ASSUME NEW t \in Trades, SweepLiquidate(t) PROVE Promised
  <2>1. CASE ~SweepDue(t)
    BY <1>3, <2>1, RowsSame DEF SweepLiquidate, Promised
  <2>2. CASE SweepDue(t)
    <3>1. engine.seen[t] \in Marks \cup {NoFigures} /\ engine.seen[t].cost # NoCost
      BY <2>2 DEF EngineSound, Engines, SweepDue
    <3>2. engine.seen[t].cost \in Costs
      BY <3>1 DEF NoFigures
    <3>3. End(t, "LIQUIDATED", "MARGIN_CALL", engine.seen[t].cost)
      BY <1>3, <2>2 DEF SweepLiquidate
    <3> QED BY <3>2, <3>3, EndFinishes DEF Ends
  <2> QED BY <2>1, <2>2
<1>4. ASSUME SimEodStart \/ EngineStart \/ EngineRecord \/ SweepStart \/ SweepRecord
             \/ SweepAccountEnd \/ SweepEnd \/ (\E a \in Accounts : SweepAccount(a))
             \/ (\E t \in Trades : EodPass(t) \/ EngineLook(t) \/ SweepFigures(t))
      PROVE  Promised
  BY <1>4, RowsSame DEF SimEodStart, EngineStart, EngineRecord, SweepStart, SweepRecord,
     SweepAccountEnd, SweepEnd, SweepAccount, EodPass, EngineLook, SweepFigures, Promised
<1> QED BY <1>1, <1>2, <1>3, <1>4 DEF SimEodStep, EngineStep

LEMMA SimStepAccounts == SimInv /\ [SimNext]_simVars => [Balances!AccountsNext]_AccountVars
<1> SUFFICES ASSUME SimInv, [SimNext]_simVars PROVE Promised
  BY DEF Promised
<1>1. ASSUME SimRestart \/ UNCHANGED simVars \/ \E t \in Trades : MarketMove(t) \/ SimExpire(t)
      PROVE  Promised
  BY <1>1, RowsSame DEF SimRestart, simVars, simRows, MarketMove, SimExpire, Promised
<1> QED BY <1>1, ApiMaps, JobsMap DEF SimNext

(* The simulator implements its accounts: cash changes only when a trade   *)
(* ends, by that trade's result, and a trade ends once, whoever comes      *)
(* first, for any accounts and trades.                                     *)
THEOREM SimKeepsAccounts == SimSpec => KeepsAccounts
<1>1. SimInit => Balances!AccountsInit
  BY DEF SimInit, Balances!AccountsInit, Balances!NotYet
<1> QED BY <1>1, SimInitInv, SimStepInv, SimStepAccounts, PTL
        DEF SimSpec, KeepsAccounts, Balances!AccountsSpec, AccountVars, Opened, Cash, Held, Holder
-----------------------------------------------------------------------------
(* The sweep liquidates in need.  What it has listed was entered, and none *)
(* of it was liquidated before its account's turn; in an account's turn    *)
(* what is left is the margin of its trades that are open still, unless    *)
(* somebody else has ended one.                                            *)
Entered    == {t \in Trades : simTrade[t].st # "NONE"}
Sweeping   == engine.at \in {"figures", "sweep", "sweepRecord"}
AllOurs(a) == \A u \in Seen(a) : simTrade[u].st \in {"OPEN", "LIQUIDATED"}
Pending    == IF engine.at = "sweepRecord" THEN engine.seen[engine.t].margin ELSE 0

ListedTrue ==
  Sweeping => \A t \in Trades : t \in engine.list \/ engine.seen[t] # NoFigures =>
    /\ simTrade[t].st # "NONE"
    /\ simTrade[t].a > engine.a => simTrade[t].st # "LIQUIDATED"

LeftOf(a) ==
  /\ a \in Accounts /\ engine.list \subseteq Seen(a)
  /\ AllOurs(a) => engine.left = Total(SeenMargin, StillSeen(a)) + Pending
LeftTrue == engine.at \in {"sweep", "sweepRecord"} => LeftOf(engine.a)

NeedInv == IsFiniteSet(Entered) /\ ListedTrue /\ LeftTrue

(* A total over trades, as the sums know it.                               *)
LEMMA TotalIs == ASSUME NEW f, NEW ts PROVE Total(f, ts) = SumOf([t \in ts |-> f[t]], ts)
BY DEF Total, MapThenSumSet, MapThenFoldSet, SumOf, Adds, Pick

LEMMA TotalTyped ==
  ASSUME NEW f, NEW ts, IsFiniteSet(ts), \A t \in ts : f[t] \in Int
  PROVE  Total(f, ts) \in Int
<1> DEFINE g == [t \in ts |-> f[t]]
<1>1. Summable(g, ts)
  BY DEF Summable
<1> HIDE DEF g
<1> QED BY <1>1, TotalIs, SumTyped DEF g

LEMMA TotalOneLess ==
  ASSUME NEW f, NEW ts, IsFiniteSet(ts), \A t \in ts : f[t] \in Int, NEW u \in ts
  PROVE  Total(f, ts) = f[u] + Total(f, ts \ {u})
<1> DEFINE rest == ts \ {u}
           all == [t \in ts |-> f[t]]
           less == [t \in rest |-> f[t]]
<1>1. IsFiniteSet(rest) /\ rest \cup {u} = ts /\ u \notin rest /\ rest \subseteq ts
  BY FS_Subset
<1>2. \A t \in rest : all[t] = less[t]
  BY <1>1
<1>3. all[u] = f[u] /\ f[u] \in Int /\ \A t \in rest : all[t] \in Int
  BY <1>1
<1>4. Total(f, ts) = SumOf(all, ts) /\ Total(f, rest) = SumOf(less, rest)
  BY TotalIs
<1> HIDE DEF rest, all, less
<1>5. SumOf(all, rest \cup {u}) = all[u] + SumOf(all, rest)
  BY <1>1, <1>3, SumOfOneMore DEF Summable
<1>6. SumOf(all, rest) = SumOf(less, rest)
  BY <1>1, <1>2, SumSame
<1> QED BY <1>1, <1>3, <1>4, <1>5, <1>6 DEF rest

(* The sweep's figures are numbers, of finitely many trades.               *)
LEMMA SeenTyped ==
  ASSUME SimInv, NeedInv, Sweeping, NEW a
  PROVE  /\ Seen(a) \subseteq Entered /\ IsFiniteSet(StillSeen(a))
         /\ \A t \in Trades : SeenMargin[t] \in Int /\ SeenMargin[t] = engine.seen[t].margin
<1>1. Seen(a) \subseteq Entered
  BY DEF Seen, Entered, NeedInv, ListedTrue
<1>2. IsFiniteSet(StillSeen(a))
  <2>1. StillSeen(a) \subseteq Entered
    BY <1>1 DEF StillSeen
  <2> QED BY <2>1, FS_Subset DEF NeedInv
<1>3. ASSUME NEW t \in Trades PROVE engine.seen[t].margin \in Int
  <2>1. engine.seen[t] \in Marks \cup {NoFigures}
    BY DEF SimInv, EngineSound, Engines
  <2> QED BY <2>1, SimConstants DEF NoFigures
<1> QED BY <1>1, <1>2, <1>3 DEF SeenMargin

(* The statement that ends a trade touches no other.                       *)
LEMMA EndsOne ==
  ASSUME RowsTyped, NEW t \in Trades, NEW status, NEW reason, NEW cost,
         End(t, status, reason, cost), NEW u \in Trades
  PROVE  \/ simTrade'[u] = simTrade[u]
         \/ /\ u = t /\ simTrade[u].st = "OPEN" /\ simTrade'[u].st = status
            /\ simTrade'[u].a = simTrade[u].a
<1>1. CASE simTrade[t].st = "OPEN"
  <2>1. simTrade' = [simTrade EXCEPT ![t].st = status, ![t].reason = reason]
    BY <1>1 DEF End
  <2>2. simTrade'[t].st = status /\ simTrade'[t].a = simTrade[t].a
    BY <2>1 DEF RowsTyped, TradeRows
  <2>3. u # t => simTrade'[u] = simTrade[u]
    BY <2>1 DEF RowsTyped
  <2> QED BY <1>1, <2>2, <2>3
<1>2. CASE simTrade[t].st # "OPEN"
  BY <1>2 DEF End
<1> QED BY <1>1, <1>2

(* Who else ends trades does not liquidate them.                           *)
EndedElsewhere(u) ==
  /\ simTrade[u].st = "OPEN" /\ simTrade'[u].st \in {"CLOSED", "EXPIRED"}
  /\ simTrade'[u].a = simTrade[u].a
Elsewhere == \A u \in Trades : simTrade'[u] = simTrade[u] \/ EndedElsewhere(u)

LEMMA ElsewhereEnters == ASSUME NeedInv, Elsewhere PROVE IsFiniteSet(Entered')
<1>1. Entered' = Entered
  BY DEF Entered, Elsewhere, EndedElsewhere
<1> QED BY <1>1 DEF NeedInv

LEMMA ElsewhereKeeps == ASSUME SimInv, NeedInv, Elsewhere, UNCHANGED engine PROVE NeedInv'
<1>1. IsFiniteSet(Entered')
  BY ElsewhereEnters
<1>2. ListedTrue'
  BY DEF NeedInv, ListedTrue, Sweeping, Elsewhere, EndedElsewhere
<1>3. LeftTrue'
  <2> SUFFICES ASSUME engine.at \in {"sweep", "sweepRecord"} PROVE LeftTrue'
    BY DEF LeftTrue
  <2> DEFINE a == engine.a
  <2>1. Seen(a)' = Seen(a)
    BY DEF Seen, Elsewhere, EndedElsewhere
  <2>2. ASSUME AllOurs(a)' PROVE AllOurs(a) /\ StillSeen(a)' = StillSeen(a)
    <3>1. \A u \in Seen(a) : simTrade'[u] = simTrade[u]
      BY <2>1, <2>2 DEF AllOurs, Seen, Elsewhere, EndedElsewhere
    <3> QED BY <2>1, <2>2, <3>1 DEF AllOurs, StillSeen
  <2>3. SeenMargin' = SeenMargin /\ Pending' = Pending
    BY DEF SeenMargin, Pending
  <2>4. AllOurs(a)' => Total(SeenMargin, StillSeen(a))' = Total(SeenMargin, StillSeen(a))
    BY <2>2, <2>3
  <2>5. LeftOf(a)
    BY DEF NeedInv, LeftTrue
  <2>6. LeftOf(a)'
    BY <2>1, <2>2, <2>3, <2>4, <2>5 DEF LeftOf
  <2> QED BY <2>6 DEF LeftTrue
<1> QED BY <1>1, <1>2, <1>3 DEF NeedInv

LEMMA SameRowsElsewhere == ASSUME UNCHANGED simTrade PROVE Elsewhere
BY DEF Elsewhere

-----------------------------------------------------------------------------
LEMMA InsertKeepsNeed == ASSUME SimInv, NeedInv, PlaceInsert PROVE NeedInv'
<1> DEFINE t == req.t
           new == [st |-> "OPEN", a |-> req.a, reason |-> "none"]
<1>1. t \in Trades /\ simTrade[t].st = "NONE"
  BY DEF PlaceInsert, SimInv, RequestSound
<1>2. simTrade' = [simTrade EXCEPT ![t] = new] /\ UNCHANGED engine
  BY DEF PlaceInsert
<1>3. new.st = "OPEN"
  OBVIOUS
<1> HIDE DEF t, new
<1>4. simTrade'[t] = new /\ \A u \in Trades \ {t} : simTrade'[u] = simTrade[u]
  BY <1>1, <1>2 DEF SimInv, RowsTyped
<1>5. Entered' = Entered \cup {t}
  BY <1>1, <1>3, <1>4 DEF Entered
<1>6. IsFiniteSet(Entered')
  BY <1>5, FS_AddElement DEF NeedInv
<1>7. ASSUME Sweeping PROVE t \notin engine.list /\ engine.seen[t] = NoFigures
  BY <1>1, <1>7 DEF NeedInv, ListedTrue
<1>8. ListedTrue'
  BY <1>2, <1>4, <1>7 DEF NeedInv, ListedTrue, Sweeping
<1>9. LeftTrue'
  <2> SUFFICES ASSUME engine.at \in {"sweep", "sweepRecord"} PROVE LeftTrue'
    BY <1>2 DEF LeftTrue
  <2> DEFINE a == engine.a
  <2>1. t \notin Seen(a) /\ Sweeping
    BY <1>7 DEF Seen, Sweeping
  <2>2. Seen(a)' = Seen(a)
    BY <1>2, <1>4, <1>7, <2>1 DEF Seen
  <2>3. AllOurs(a)' = AllOurs(a) /\ StillSeen(a)' = StillSeen(a)
    <3>1. \A u \in Seen(a) : simTrade'[u] = simTrade[u]
      BY <1>4, <2>1 DEF Seen
    <3> QED BY <2>2, <3>1 DEF AllOurs, StillSeen
  <2>4. SeenMargin' = SeenMargin /\ Pending' = Pending
    BY <1>2 DEF SeenMargin, Pending
  <2>5. Total(SeenMargin, StillSeen(a))' = Total(SeenMargin, StillSeen(a))
    BY <2>3, <2>4
  <2>6. LeftOf(a)
    BY DEF NeedInv, LeftTrue
  <2>7. LeftOf(a)'
    BY <1>2, <2>2, <2>3, <2>4, <2>5, <2>6 DEF LeftOf
  <2> QED BY <1>2, <2>7 DEF LeftTrue
<1> QED BY <1>6, <1>8, <1>9 DEF NeedInv

(* No step but the sweep's own liquidates a trade.                         *)
LEMMA ApiElsewhere == ASSUME SimInv, ApiStep, ~PlaceInsert PROVE Elsewhere
<1>1. CASE CloseEnd
  <2>1. req.t \in Trades /\ End(req.t, "CLOSED", "MANUAL", req.cost)
    BY <1>1 DEF CloseEnd, SimInv, RequestSound
  <2> QED BY <2>1, EndsOne DEF Elsewhere, EndedElsewhere, SimInv
<1>2. CASE UNCHANGED simTrade
  BY <1>2 DEF Elsewhere
<1> QED BY <1>1, <1>2 DEF ApiStep, ResetDeactivate, PlaceAccount, PlaceCheck, CreateAccount,
  PlaceQuote, CloseRead, simRows

LEMMA EodElsewhere == ASSUME SimInv, SimEodStep PROVE Elsewhere
<1>1. ASSUME NEW t \in Trades, SimEodSettle(t) PROVE Elsewhere
  <2>1. PICK cost \in SettleCosts : End(t, "EXPIRED", "EXPIRED", cost)
    BY <1>1 DEF SimEodSettle
  <2> QED BY <2>1, EndsOne DEF Elsewhere, EndedElsewhere, SimInv
<1>2. ASSUME SimEodStart \/ \E t \in Trades : EodPass(t) PROVE Elsewhere
  BY <1>2 DEF SimEodStart, EodPass, simRows, Elsewhere
<1> QED BY <1>1, <1>2 DEF SimEodStep

Pass == EngineStart \/ EngineClose \/ EngineRecord \/ \E t \in Trades : EngineLook(t)

LEMMA PassElsewhere == ASSUME SimInv, Pass PROVE Elsewhere /\ ~Sweeping'
<1>1. CASE EngineClose
  <2>1. engine.t \in Trades /\ End(engine.t, "CLOSED", engine.rule, engine.cost)
    BY <1>1 DEF EngineClose, SimInv, EngineSound
  <2>2. Elsewhere
    BY <2>1, EndsOne DEF Elsewhere, EndedElsewhere, SimInv
  <2>3. engine'.at \in {"record", "trades"}
    BY <1>1 DEF EngineClose, SimInv, EngineSound, Engines
  <2> QED BY <2>2, <2>3 DEF Sweeping
<1>2. CASE EngineStart
  BY <1>2 DEF EngineStart, NoEngine, simRows, Elsewhere, Sweeping
<1>3. CASE EngineRecord
  BY <1>3 DEF EngineRecord, SimInv, EngineSound, Engines, Elsewhere, Sweeping
<1>4. ASSUME NEW t \in Trades, EngineLook(t) PROVE Elsewhere /\ ~Sweeping'
  <2>1. UNCHANGED simTrade
    BY <1>4 DEF EngineLook, simRows
  <2>2. engine'.at \in {"trades", "close"}
    BY <1>4 DEF EngineLook, SimInv, EngineSound, Engines
  <2> QED BY <2>1, <2>2 DEF Elsewhere, Sweeping
<1> QED BY <1>1, <1>2, <1>3, <1>4 DEF Pass

LEMMA AtRest == ASSUME NeedInv, Elsewhere, ~Sweeping' PROVE NeedInv'
<1>1. ListedTrue' /\ LeftTrue'
  BY DEF ListedTrue, LeftTrue, Sweeping
<1> QED BY <1>1, ElsewhereEnters DEF NeedInv

-----------------------------------------------------------------------------
(* The sweep's own steps.                                                  *)
LEMMA SweepStartKeeps == ASSUME SimInv, NeedInv, SweepStart PROVE NeedInv'
<1>1. UNCHANGED simTrade
  BY DEF SweepStart, simRows
<1>2. CASE engine' = NoEngine
  BY <1>1, <1>2, AtRest, SameRowsElsewhere DEF Sweeping, NoEngine
<1>3. CASE engine' # NoEngine
  <2>1. engine' = [NoEngine EXCEPT !.at = "figures", !.list = OpenTrades,
                     !.cash = [a \in Accounts |-> account[a].cash]]
    BY <1>3 DEF SweepStart
  <2>2. engine'.at = "figures" /\ engine'.list = OpenTrades
        /\ \A t \in Trades : engine'.seen[t] = NoFigures
    BY <2>1 DEF NoEngine
  <2>3. ListedTrue'
    BY <1>1, <2>2 DEF ListedTrue, OpenTrades
  <2>4. LeftTrue'
    BY <2>2 DEF LeftTrue
  <2> QED BY <1>1, <2>3, <2>4, ElsewhereEnters, SameRowsElsewhere DEF NeedInv
<1> QED BY <1>2, <1>3

LEMMA SweepFiguresKeep == ASSUME SimInv, NeedInv, NEW t \in Trades, SweepFigures(t) PROVE NeedInv'
<1>1. UNCHANGED simTrade /\ engine.at = "figures" /\ t \in engine.list
  BY DEF SweepFigures, simRows
<1>2. /\ engine'.at = "figures" /\ engine'.list = engine.list \ {t} /\ engine'.a = engine.a
      /\ \A u \in Trades \ {t} : engine'.seen[u] = engine.seen[u]
  BY <1>1 DEF SweepFigures, SimInv, EngineSound, Engines
<1>3. ListedTrue'
  BY <1>1, <1>2 DEF NeedInv, ListedTrue, Sweeping
<1>4. LeftTrue'
  BY <1>2 DEF LeftTrue
<1> QED BY <1>1, <1>3, <1>4, ElsewhereEnters, SameRowsElsewhere DEF NeedInv

LEMMA SweepAccountKeeps == ASSUME SimInv, NeedInv, NEW a \in Accounts, SweepAccount(a) PROVE NeedInv'
<1>1. UNCHANGED simTrade /\ engine.at = "figures" /\ engine.list = {} /\ engine.a < a
  BY DEF SweepAccount, simRows
<1> DEFINE margin == Total(SeenMargin, Seen(a))
           over == margin > Worth(a)
<1>2. engine' = [engine EXCEPT !.a = a, !.left = margin,
                               !.list = IF over THEN Seen(a) ELSE {},
                               !.at = IF over THEN "sweep" ELSE "figures"]
  BY DEF SweepAccount
<1> HIDE DEF margin, over
<1>3. /\ engine'.a = a /\ engine'.seen = engine.seen /\ engine'.left = margin
      /\ over => engine'.at = "sweep" /\ engine'.list = Seen(a)
      /\ ~over => engine'.at = "figures" /\ engine'.list = {}
  BY <1>2 DEF SimInv, EngineSound, Engines
<1>4. \A t \in Seen(a) : t \in Trades /\ engine.seen[t] # NoFigures /\ simTrade[t].a = a
  BY DEF Seen
<1>5. ASSUME NEW t \in Trades, simTrade[t].st # "NONE", simTrade[t].a > a PROVE simTrade[t].a > engine.a
  <2>1. simTrade[t].a \in Int /\ a \in Int /\ engine.a \in Int
    BY <1>5, SimConstants DEF SimInv, RowsCoherent, EngineSound, Engines, NoAccount
  <2> QED BY <1>1, <1>5, <2>1
<1>6. ListedTrue'
  BY <1>1, <1>3, <1>4, <1>5 DEF NeedInv, ListedTrue, Sweeping
<1>7. ASSUME over PROVE LeftTrue'
  <2>1. Seen(a)' = Seen(a) /\ SeenMargin' = SeenMargin
    BY <1>1, <1>3 DEF Seen, SeenMargin
  <2>2. \A t \in Seen(a) : simTrade[t].st # "LIQUIDATED"
    BY <1>1, <1>4 DEF NeedInv, ListedTrue, Sweeping
  <2>3. AllOurs(a)' => StillSeen(a)' = Seen(a)
    BY <1>1, <2>1, <2>2 DEF AllOurs, StillSeen
  <2>4. margin \in Int
    <3>1. IsFiniteSet(Seen(a)) /\ \A t \in Seen(a) : SeenMargin[t] \in Int
      BY <1>1, SeenTyped, FS_Subset DEF Sweeping, Seen, NeedInv
    <3> QED BY <3>1, TotalTyped DEF margin
  <2>5. Pending' = 0 /\ engine'.at = "sweep"
    BY <1>3, <1>7 DEF Pending
  <2>6. ASSUME AllOurs(a)' PROVE Total(SeenMargin, StillSeen(a))' = margin
    BY <2>1, <2>3, <2>6 DEF margin
  <2>7. LeftOf(a)'
    BY <1>3, <1>7, <2>1, <2>4, <2>5, <2>6 DEF LeftOf
  <2> QED BY <1>3, <2>7 DEF LeftTrue
<1>8. ASSUME ~over PROVE LeftTrue'
  BY <1>3, <1>8 DEF LeftTrue
<1> QED BY <1>1, <1>6, <1>7, <1>8, ElsewhereEnters, SameRowsElsewhere DEF NeedInv
(* Taking one trade takes its margin off what the account still blocks.    *)
LEMMA SweepLiquidateKeeps == ASSUME SimInv, NeedInv, NEW t \in Trades, SweepLiquidate(t) PROVE NeedInv'
<1> DEFINE rest == [engine EXCEPT !.list = @ \ {t}]
           a == engine.a
<1>1. engine.at = "sweep" /\ t \in engine.list /\ Sweeping /\ t \in Seen(a) /\ LeftOf(a)
  BY DEF SweepLiquidate, Sweeping, NeedInv, LeftTrue, LeftOf
<1>2. /\ rest.at = "sweep" /\ rest.list = engine.list \ {t} /\ rest.seen = engine.seen
      /\ rest.a = a /\ rest.left = engine.left /\ rest \in Engines(engine.left)
  BY <1>1 DEF SimInv, EngineSound, Engines
<1>3. a \in Accounts /\ engine.list \subseteq Seen(a) /\ simTrade[t].a = a /\ engine.seen[t] # NoFigures
  BY <1>1 DEF LeftOf, Seen
<1> HIDE DEF rest
<1>4. CASE UNCHANGED simTrade /\ engine' = rest
  <2>1. ListedTrue'
    BY <1>1, <1>2, <1>4 DEF NeedInv, ListedTrue, Sweeping
  <2>2. Seen(a)' = Seen(a) /\ StillSeen(a)' = StillSeen(a) /\ AllOurs(a)' = AllOurs(a)
    BY <1>2, <1>4 DEF Seen, StillSeen, AllOurs
  <2>3. SeenMargin' = SeenMargin /\ Pending' = Pending
    BY <1>1, <1>2, <1>4 DEF SeenMargin, Pending
  <2>4. Total(SeenMargin, StillSeen(a))' = Total(SeenMargin, StillSeen(a))
    BY <2>2, <2>3
  <2>5. LeftOf(a)'
    BY <1>1, <1>2, <1>4, <2>2, <2>3, <2>4 DEF LeftOf
  <2>6. LeftTrue'
    BY <1>2, <1>4, <2>5 DEF LeftTrue
  <2> QED BY <1>4, <2>1, <2>6, ElsewhereEnters, SameRowsElsewhere DEF NeedInv
<1>5. CASE SweepDue(t) /\ simTrade[t].st = "OPEN"
  <2>1. /\ End(t, "LIQUIDATED", "MARGIN_CALL", engine.seen[t].cost)
        /\ engine' = [rest EXCEPT !.at = "sweepRecord", !.t = t]
    BY <1>5 DEF SweepLiquidate, rest
  <2>2. /\ engine'.at = "sweepRecord" /\ engine'.t = t /\ engine'.list = engine.list \ {t}
        /\ engine'.seen = engine.seen /\ engine'.a = a /\ engine'.left = engine.left
    BY <1>2, <2>1 DEF Engines
  <2>3. /\ simTrade'[t].st = "LIQUIDATED" /\ simTrade'[t].a = a
        /\ \A u \in Trades \ {t} : simTrade'[u] = simTrade[u]
    <3>1. simTrade' = [simTrade EXCEPT ![t].st = "LIQUIDATED", ![t].reason = "MARGIN_CALL"]
      BY <1>5, <2>1 DEF End
    <3> QED BY <1>3, <3>1 DEF SimInv, RowsTyped, TradeRows
  <2>4. Entered' = Entered
    BY <1>5, <2>3 DEF Entered
  <2>5. ListedTrue'
    <3>1. ~(a > a)
      <4>1. a \in Int
        BY <1>3, SimConstants, Zenon
      <4> HIDE DEF a
      <4> QED BY <4>1
    <3> SUFFICES ASSUME NEW u \in Trades, u \in engine'.list \/ engine'.seen[u] # NoFigures
        PROVE  /\ simTrade'[u].st # "NONE"
               /\ simTrade'[u].a > engine'.a => simTrade'[u].st # "LIQUIDATED"
      BY DEF ListedTrue
    <3>2. CASE u = t
      BY <2>2, <2>3, <3>1, <3>2
    <3>3. CASE u # t
      BY <1>1, <2>2, <2>3, <3>3 DEF NeedInv, ListedTrue
    <3> QED BY <3>2, <3>3
  <2>6. Seen(a)' = Seen(a)
    BY <1>3, <2>2, <2>3 DEF Seen
  <2>7. t \in StillSeen(a) /\ StillSeen(a)' = StillSeen(a) \ {t}
    BY <1>1, <1>5, <2>3, <2>6 DEF StillSeen, Seen
  <2>8. ASSUME AllOurs(a)' PROVE AllOurs(a)
    BY <1>5, <2>3, <2>6, <2>8 DEF AllOurs, Seen
  <2>9. SeenMargin' = SeenMargin /\ Pending = 0 /\ Pending' = engine.seen[t].margin
    BY <1>1, <2>2 DEF SeenMargin, Pending
  <2>10. /\ IsFiniteSet(StillSeen(a)) /\ \A u \in StillSeen(a) : SeenMargin[u] \in Int
         /\ SeenMargin[t] = engine.seen[t].margin
    BY <1>1, SeenTyped DEF StillSeen, Seen
  <2>11. Total(SeenMargin, StillSeen(a)) = SeenMargin[t] + Total(SeenMargin, StillSeen(a) \ {t})
    BY <2>7, <2>10, TotalOneLess
  <2>12. Total(SeenMargin, StillSeen(a) \ {t}) \in Int /\ SeenMargin[t] \in Int
    <3>1. IsFiniteSet(StillSeen(a) \ {t}) /\ \A u \in StillSeen(a) \ {t} : SeenMargin[u] \in Int
      BY <2>10, FS_Subset
    <3> QED BY <2>7, <2>10, <3>1, TotalTyped
  <2>13. Total(SeenMargin, StillSeen(a))' = Total(SeenMargin, StillSeen(a) \ {t})
    BY <2>7, <2>9
  <2>14. AllOurs(a)' => engine'.left = Total(SeenMargin, StillSeen(a))' + Pending'
    BY <1>1, <2>2, <2>8, <2>9, <2>10, <2>11, <2>12, <2>13 DEF LeftOf
  <2>15. LeftOf(a)'
    BY <1>3, <2>2, <2>6, <2>14 DEF LeftOf
  <2>16. LeftTrue'
    BY <2>2, <2>15 DEF LeftTrue
  <2> QED BY <2>4, <2>5, <2>16 DEF NeedInv
<1>6. \/ UNCHANGED simTrade /\ engine' = rest
      \/ SweepDue(t) /\ simTrade[t].st = "OPEN"
  BY DEF SweepLiquidate, End, rest
<1> QED BY <1>4, <1>5, <1>6

LEMMA SweepRecordKeeps == ASSUME SimInv, NeedInv, SweepRecord PROVE NeedInv'
<1> DEFINE a == engine.a
<1>1. /\ UNCHANGED simTrade /\ engine.at = "sweepRecord" /\ Sweeping /\ engine.t \in Trades
      /\ LeftOf(a)
  BY DEF SweepRecord, Sweeping, SimInv, EngineSound, NeedInv, LeftTrue
<1> DEFINE left == engine.left - engine.seen[engine.t].margin
<1>2. engine' = [engine EXCEPT !.at = "sweep", !.t = 0, !.left = left]
  BY DEF SweepRecord
<1> HIDE DEF left
<1>3. /\ engine'.at = "sweep" /\ engine'.left = left /\ engine'.list = engine.list
      /\ engine'.seen = engine.seen /\ engine'.a = a
  BY <1>2 DEF SimInv, EngineSound, Engines
<1>4. ListedTrue'
  BY <1>1, <1>3 DEF NeedInv, ListedTrue, Sweeping
<1>5. Seen(a)' = Seen(a) /\ StillSeen(a)' = StillSeen(a) /\ AllOurs(a)' = AllOurs(a)
  BY <1>1, <1>3 DEF Seen, StillSeen, AllOurs
<1>6. SeenMargin' = SeenMargin /\ Pending' = 0 /\ Pending = engine.seen[engine.t].margin
  BY <1>1, <1>3 DEF SeenMargin, Pending
<1>7. Total(SeenMargin, StillSeen(a))' = Total(SeenMargin, StillSeen(a))
  BY <1>5, <1>6
<1>8. Total(SeenMargin, StillSeen(a)) \in Int /\ engine.seen[engine.t].margin \in Int
  <2>1. IsFiniteSet(StillSeen(a)) /\ \A u \in StillSeen(a) : SeenMargin[u] \in Int
    BY <1>1, SeenTyped DEF StillSeen, Seen
  <2>2. engine.seen[engine.t].margin \in Int
    BY <1>1, SeenTyped
  <2> QED BY <2>1, <2>2, TotalTyped
<1>9. AllOurs(a) => left = Total(SeenMargin, StillSeen(a))
  BY <1>1, <1>6, <1>8 DEF LeftOf, left
<1>10. AllOurs(a)' => engine'.left = Total(SeenMargin, StillSeen(a))' + Pending'
  BY <1>3, <1>5, <1>6, <1>7, <1>8, <1>9
<1>11. LeftOf(a)'
  BY <1>1, <1>3, <1>5, <1>10 DEF LeftOf
<1>12. LeftTrue'
  BY <1>3, <1>11 DEF LeftTrue
<1> QED BY <1>1, <1>4, <1>12, ElsewhereEnters, SameRowsElsewhere DEF NeedInv

LEMMA AccountEndKeeps == ASSUME SimInv, NeedInv, SweepAccountEnd PROVE NeedInv'
<1>1. UNCHANGED simTrade /\ engine.at = "sweep" /\ engine' = [engine EXCEPT !.at = "figures"]
  BY DEF SweepAccountEnd, simRows
<1>2. engine'.at = "figures" /\ engine'.list = engine.list /\ engine'.seen = engine.seen
      /\ engine'.a = engine.a
  BY <1>1 DEF SimInv, EngineSound, Engines
<1>3. ListedTrue'
  BY <1>1, <1>2 DEF NeedInv, ListedTrue, Sweeping
<1>4. LeftTrue'
  BY <1>2 DEF LeftTrue
<1> QED BY <1>1, <1>3, <1>4, ElsewhereEnters, SameRowsElsewhere DEF NeedInv

LEMMA NeedInitInv == SimInit => NeedInv
<1> SUFFICES ASSUME SimInit PROVE NeedInv
  OBVIOUS
<1>1. Entered = {}
  BY DEF SimInit, Entered
<1>2. engine.at = "off"
  BY DEF SimInit, NoEngine
<1> QED BY <1>1, <1>2, FS_EmptySet DEF NeedInv, ListedTrue, LeftTrue, Sweeping

LEMMA NeedStepInv == SimInv /\ NeedInv /\ [SimNext]_simVars => NeedInv'
<1> SUFFICES ASSUME SimInv, NeedInv, [SimNext]_simVars PROVE NeedInv'
  OBVIOUS
<1>1. CASE ApiStep
  <2>1. UNCHANGED engine
    BY <1>1 DEF ApiStep, ResetDeactivate, PlaceAccount, PlaceCheck, PlaceInsert, CloseEnd,
       CreateAccount, PlaceQuote, CloseRead
  <2> QED BY <1>1, <2>1, InsertKeepsNeed, ApiElsewhere, ElsewhereKeeps
<1>2. CASE SimEodStep
  <2>1. UNCHANGED engine
    BY <1>2 DEF SimEodStep, SimEodStart, SimEodSettle, EodPass
  <2> QED BY <1>2, <2>1, EodElsewhere, ElsewhereKeeps
<1>3. CASE Pass
  BY <1>3, PassElsewhere, AtRest
<1>4. CASE SweepEnd \/ SimRestart
  <2>1. UNCHANGED simTrade /\ engine' = NoEngine
    BY <1>4 DEF SweepEnd, SimRestart, simRows
  <2> QED BY <2>1, AtRest, SameRowsElsewhere DEF Sweeping, NoEngine
<1>5. CASE UNCHANGED simVars \/ \E t \in Trades : MarketMove(t) \/ SimExpire(t)
  <2>1. UNCHANGED <<simTrade, engine>>
    BY <1>5 DEF simVars, simRows, MarketMove, SimExpire
  <2> QED BY <2>1, SameRowsElsewhere, ElsewhereKeeps
<1> QED BY <1>1, <1>2, <1>3, <1>4, <1>5, SweepStartKeeps, SweepFiguresKeep, SweepAccountKeeps,
  SweepLiquidateKeeps, SweepRecordKeeps, AccountEndKeeps DEF SimNext, EngineStep, Pass

(* A trade goes only in the sweep, while what is left does not fit.        *)
InNeed(t) ==
  (/\ simTrade[t].st = "OPEN" /\ simTrade'[t].st = "LIQUIDATED"
   /\ \A u \in Seen(engine.a) : simTrade[u].st \in {"OPEN", "LIQUIDATED"})
     => Total(SeenMargin, StillSeen(engine.a)) > Worth(engine.a)

LEMMA TakenInNeed ==
  ASSUME SimInv, NeedInv, [SimNext]_simVars, NEW t \in Trades PROVE InNeed(t)
<1>1. ASSUME Elsewhere PROVE InNeed(t)
  BY <1>1 DEF Elsewhere, EndedElsewhere, InNeed
<1>2. ASSUME NEW u \in Trades, SweepLiquidate(u) PROVE InNeed(t)
  <2>1. LeftOf(engine.a) /\ engine.at = "sweep"
    BY <1>2 DEF SweepLiquidate, NeedInv, LeftTrue
  <2>2. CASE SweepDue(u)
    <3>1. engine.left > Worth(engine.a) /\ Pending = 0
      BY <2>1, <2>2 DEF SweepDue, Pending
    <3>2. Total(SeenMargin, StillSeen(engine.a)) \in Int
      <4>1. /\ IsFiniteSet(StillSeen(engine.a))
            /\ \A w \in StillSeen(engine.a) : SeenMargin[w] \in Int
        BY <2>1, SeenTyped DEF StillSeen, Seen, Sweeping
      <4> QED BY <4>1, TotalTyped
    <3>3. AllOurs(engine.a) => engine.left = Total(SeenMargin, StillSeen(engine.a))
      BY <2>1, <3>1, <3>2 DEF LeftOf
    <3> QED BY <3>1, <3>3 DEF InNeed, AllOurs
  <2>3. CASE ~SweepDue(u)
    <3>1. UNCHANGED simTrade
      BY <1>2, <2>3 DEF SweepLiquidate
    <3> QED BY <1>1, <3>1, SameRowsElsewhere
  <2> QED BY <2>2, <2>3
<1>3. CASE PlaceInsert
  <2>1. /\ simTrade' = [simTrade EXCEPT ![req.t] = [st |-> "OPEN", a |-> req.a, reason |-> "none"]]
    BY <1>3 DEF PlaceInsert
  <2>2. simTrade'[t] = simTrade[t] \/ simTrade'[t].st = "OPEN"
    BY <2>1 DEF SimInv, RowsTyped
  <2> QED BY <2>2 DEF InNeed
<1>4. CASE ApiStep
  BY <1>1, <1>3, <1>4, ApiElsewhere
<1>5. CASE SimEodStep
  BY <1>1, <1>5, EodElsewhere
<1>6. CASE Pass
  BY <1>1, <1>6, PassElsewhere
<1>7. ASSUME \/ SweepStart \/ SweepRecord \/ SweepAccountEnd \/ SweepEnd \/ SimRestart
             \/ UNCHANGED simVars
             \/ \E u \in Trades : SweepFigures(u) \/ MarketMove(u) \/ SimExpire(u)
             \/ \E a \in Accounts : SweepAccount(a)
      PROVE  InNeed(t)
  <2>1. UNCHANGED simTrade
    BY <1>7 DEF SweepStart, SweepRecord, SweepAccountEnd, SweepEnd, SimRestart, simVars, simRows,
       SweepFigures, MarketMove, SimExpire, SweepAccount
  <2> QED BY <1>1, <2>1, SameRowsElsewhere
<1> QED BY <1>2, <1>4, <1>5, <1>6, <1>7 DEF SimNext, EngineStep, Pass

(* However accounts and trades are many, and whoever else acts meanwhile:  *)
(* the sweep takes a trade only while the account does not fit without it, *)
(* unless somebody else ended one of those listed.                         *)
THEOREM SweepTakesInNeed == SimSpec => LiquidatesInNeed
<1> DEFINE Need == \A t \in Trades : InNeed(t)
<1>1. SimInv /\ NeedInv /\ [SimNext]_simVars => [Need]_simVars
  BY TakenInNeed
<1>2. LiquidatesInNeed <=> [][Need]_simVars
  BY DEF LiquidatesInNeed, InNeed
<1> HIDE DEF Need
<1> QED BY <1>1, <1>2, SimInitInv, SimStepInv, NeedInitInv, NeedStepInv, PTL DEF SimSpec
=============================================================================
