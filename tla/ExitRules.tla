----------------------------- MODULE ExitRules -----------------------------
(***************************************************************************)
(* The seller's exit rules (packages/trading/src/exit-rules.ts) over the   *)
(* life of one structure, as the live engine calls them (runLiveExitEngine *)
(* in packages/db/src/live-repository.ts): the first rule that holds is    *)
(* recorded once for the group, and with auto-exit on it closes the legs.  *)
(* Prices are per unit: every leg has the same quantity, which cancels.    *)
(* The engine hands the rules no deltas, so DELTA_2X never applies here,   *)
(* and names every structure "LIVE", whose profit target is half.          *)
(***************************************************************************)
EXTENDS Integers, FiniteSetsExt, SequencesExt

CONSTANTS
  Deals,      \* structures: sets of legs [side, entry]
  LegMarks,   \* prices a leg may have later
  Horizon     \* days to expiry when the story begins

ASSUME RuleConstants ==
  /\ \A legs \in Deals : IsFiniteSet(legs) /\ \A l \in legs : l.entry \in Nat
  /\ LegMarks \subseteq Nat /\ Horizon \in Nat

VARIABLES
  daysLeft,   \* days to expiry
  deal,       \* its legs, and days to expiry when the first was placed
  legMark,    \* each leg's mark; none while the feed has nothing fresh
  heldLegs,   \* legs with an OPEN position
  resting,    \* legs with a closing LIMIT order at the broker
  ruleEvent,  \* LiveExitEvent: the action recorded for each rule
  autoExit    \* the account's autoExitEnabled

ruleVars == <<daysLeft, deal, legMark, heldLegs, resting, ruleEvent, autoExit>>

NoMark == 0
NoDeal == [legs |-> {}, entered |-> 0]
(* Mutant of Policy: the days are looked at before the loss.               *)
PolicyDaysFirst == <<"PROFIT_TARGET", "DTE_GAMMA", "HARD_STOP_3X", "EXPIRY_TODAY", "PREMIUM_2X">>
Policy == <<"PROFIT_TARGET", "HARD_STOP_3X", "EXPIRY_TODAY", "DTE_GAMMA", "PREMIUM_2X">>
ExitRuleNames == {Policy[i] : i \in DOMAIN Policy}

RulesInit ==
  /\ daysLeft = Horizon /\ deal = NoDeal /\ legMark = << >> /\ heldLegs = {} /\ resting = {}
  /\ ruleEvent = [r \in ExitRuleNames |-> "none"] /\ autoExit \in BOOLEAN

-----------------------------------------------------------------------------
(* What is judged is the legs still held: the engine asks for the orders   *)
(* of OPEN positions only, so a group whose other legs are closed looks    *)
(* complete, and its credit is the credit of what is left.                 *)
Sold(legs) == {l \in legs : l.side = "SELL"}
Signed(l, price) == IF l.side = "SELL" THEN price ELSE -price
NetCredit == MapThenSumSet(LAMBDA l : Signed(l, l.entry), heldLegs)
CostToClose == MapThenSumSet(LAMBDA l : Signed(l, legMark[l]), heldLegs)

AtTarget == NetCredit > 0 /\ 2 * (NetCredit - CostToClose) >= NetCredit
AtHardStop == NetCredit > 0 /\ CostToClose >= 3 * NetCredit
DriftedIn == daysLeft <= 1 /\ deal.entered > 1
BlownOut == \E l \in Sold(heldLegs) : l.entry > 0 /\ legMark[l] >= 2 * l.entry

Applies(r) ==
  \/ r = "PROFIT_TARGET" /\ AtTarget
  \/ r = "HARD_STOP_3X" /\ AtHardStop
  \/ r = "EXPIRY_TODAY" /\ daysLeft <= 0
  \/ r = "DTE_GAMMA" /\ DriftedIn
  \/ r = "PREMIUM_2X" /\ BlownOut

(* evaluateExit: the first of the policy that applies, if any.             *)
Decision ==
  LET hits == {i \in DOMAIN Policy : Applies(Policy[i])}
  IN IF hits = {} THEN "none" ELSE Policy[Min(hits)]

(* closeOrderTypeFor                                                       *)
AtMarket(r) == r \in {"HARD_STOP_3X", "PREMIUM_2X", "EXPIRY_TODAY"}

(* What the closing orders of a sweep come to, shorts first.  A leg whose  *)
(* close already rests is left alone; a wing waits for the shorts closed   *)
(* in this sweep to fill, and for no others.                               *)
CloseOutcomes(r) ==
  LET todo == heldLegs \ resting
      shorts == Sold(todo)
      wings == todo \ shorts
      Left(legs, kept, act) == [held |-> legs, resting |-> kept, action |-> act]
      clear == IF resting = {} THEN "AUTO_CLOSED" ELSE "FAILED"
  IN {Left(heldLegs, resting, "FAILED"),                           \* refused
      Left(heldLegs \ todo, resting, IF todo = {} THEN "FAILED" ELSE clear)}
     \cup (IF shorts # {} /\ wings # {}                            \* the wing is refused
           THEN {Left(heldLegs \ shorts, resting, "FAILED")} ELSE {})
     \cup (IF AtMarket(r) \/ todo = {} THEN {}                     \* a limit does not fill
           ELSE IF shorts # {} /\ wings # {}
                THEN {Left(heldLegs, resting \cup shorts, "FAILED"),
                      Left(heldLegs \ shorts, resting \cup wings, clear)}
                ELSE {Left(heldLegs, resting \cup todo, clear)})

-----------------------------------------------------------------------------
(* A structure fills at its entry prices.                                  *)
Enter(legs) ==
  /\ deal = NoDeal
  /\ deal' = [legs |-> legs, entered |-> daysLeft]
  /\ heldLegs' = legs /\ legMark' = [l \in legs |-> l.entry]
  /\ UNCHANGED <<daysLeft, resting, ruleEvent, autoExit>>

MarkMoves(l, price) ==
  /\ legMark' = [legMark EXCEPT ![l] = price]
  /\ UNCHANGED <<daysLeft, deal, heldLegs, resting, ruleEvent, autoExit>>

(* A day's orders lapse at its end.                                        *)
NextDay ==
  /\ daysLeft > 0 /\ daysLeft' = daysLeft - 1 /\ resting' = {}
  /\ UNCHANGED <<deal, legMark, heldLegs, ruleEvent, autoExit>>

RestingFills(l) ==
  /\ resting' = resting \ {l} /\ heldLegs' = heldLegs \ {l}
  /\ UNCHANGED <<daysLeft, deal, legMark, ruleEvent, autoExit>>

(* A person closes one leg and leaves the others.                          *)
LegClosedByHand(l) ==
  /\ heldLegs' = heldLegs \ {l}
  /\ UNCHANGED <<daysLeft, deal, legMark, resting, ruleEvent, autoExit>>

SwitchAuto ==
  /\ autoExit' = ~autoExit
  /\ UNCHANGED <<daysLeft, deal, legMark, heldLegs, resting, ruleEvent>>

Priced == \A l \in heldLegs : legMark[l] # NoMark

(* One pass of the engine over the group: a rule already recorded for it   *)
(* ends the pass, whatever came of it then.                                *)
Sweep ==
  /\ heldLegs # {} /\ Priced /\ Decision # "none"
  /\ LET r == Decision IN
     IF ruleEvent[r] # "none" THEN UNCHANGED <<heldLegs, resting, ruleEvent>>
     ELSE IF ~autoExit
     THEN ruleEvent' = [ruleEvent EXCEPT ![r] = "FLAGGED"] /\ UNCHANGED <<heldLegs, resting>>
     ELSE \E o \in CloseOutcomes(r) :
            /\ heldLegs' = o.held /\ resting' = o.resting
            /\ ruleEvent' = [ruleEvent EXCEPT ![r] = o.action]
  /\ UNCHANGED <<daysLeft, deal, legMark, autoExit>>

RulesNext ==
  \/ NextDay \/ SwitchAuto \/ Sweep
  \/ \E legs \in Deals : Enter(legs)
  \/ \E l \in deal.legs, price \in LegMarks \cup {NoMark} : MarkMoves(l, price)
  \/ \E l \in resting : RestingFills(l)
  \/ \E l \in heldLegs \ resting : LegClosedByHand(l)

RulesSpec == RulesInit /\ [][RulesNext]_ruleVars

-----------------------------------------------------------------------------
(* "A hard stop that rests as an unfilled limit is not a stop"             *)
(* (exit-rules.ts:76-103,191-280, live-repository.ts:2326-2440): whatever  *)
(* day it is and whichever legs are left, a pass that acts on a structure  *)
(* which costs three times its credit adds no limit to what rests at the   *)
(* broker already, and says AUTO_CLOSED only if nothing is left - so never *)
(* while the limit of an earlier profit target still works a leg.          *)
StopGoesAtMarket ==
  [][AtHardStop /\ ruleEvent' # ruleEvent =>
       /\ resting' \subseteq resting
       /\ \A r \in ExitRuleNames :
            ruleEvent'[r] = "AUTO_CLOSED" => ruleEvent[r] = "AUTO_CLOSED" \/ heldLegs' = {}]_ruleVars

(* "EXPIRY_TODAY above still catches the genuinely dangerous day           *)
(* regardless of what we know about entry" (exit-rules.ts:244-246): on its *)
(* expiry day a structure has had that rule, or a pass will still act on   *)
(* it, or a close of it is at the broker.                                  *)
ExpiryDayIsCaught ==
  heldLegs # {} /\ heldLegs = deal.legs /\ Priced /\ daysLeft <= 0 /\ autoExit /\ resting = {} =>
    ruleEvent[Decision] = "none" \/ ruleEvent["EXPIRY_TODAY"] # "none"

-----------------------------------------------------------------------------
(* Which structures the exit engine judges (runLiveExitEngine and          *)
(* newestOpeningGroupBySecurityId of packages/db/src/live-repository.ts).  *)
(* Groups are told apart only by the groupId of their TRADED orders, and a *)
(* contract may be closed and traded again under another group.            *)
CONSTANTS Baskets, MaxBaskets

VARIABLES
  trades, \* TRADED opening orders, newest first: [group, contract]
  open    \* contracts with an OPEN position

groupVars == <<trades, open>>
Opened == ToSet(trades)
GroupsOf(orders) == {o.group : o \in orders}
LegsIn(orders, g) == {o.contract : o \in {q \in orders : q.group = g}}

GroupsInit == trades = <<>> /\ open = {}

(* A basket fills, and joins whatever is open already.                     *)
OpenBasket(legs) ==
  LET g == Cardinality(GroupsOf(Opened)) + 1 IN
  /\ g <= MaxBaskets
  /\ trades' = SetToSeq({[group |-> g, contract |-> c] : c \in legs}) \o trades
  /\ open' = open \cup legs

(* A person closes one contract of it.                                     *)
CloseContract(c) == c \in open /\ open' = open \ {c} /\ UNCHANGED trades

GroupsNext == (\E legs \in Baskets : OpenBasket(legs)) \/ (\E c \in open : CloseContract(c))
GroupsSpec == GroupsInit /\ [][GroupsNext]_groupVars

-----------------------------------------------------------------------------
(* newestOpeningGroupBySecurityId over orders that are newest first.       *)
NewestOpening(orders, c) ==
  orders[CHOOSE i \in DOMAIN orders :
           orders[i].contract = c /\ \A j \in 1..(i - 1) : orders[j].contract # c].group

(* The engine asks only for the TRADED orders of open contracts.           *)
Filled == SelectSeq(trades, LAMBDA o : o.contract \in open)

(* The legs of a group it counts as still open, and the groups it judges.  *)
StillOpenAny(g) == LegsIn(ToSet(Filled), g) \cap open
StillOpen(g) == {c \in LegsIn(ToSet(Filled), g) : c \in open /\ NewestOpening(Filled, c) = g}
Evaluated == {g \in GroupsOf(ToSet(Filled)) : StillOpen(g) = LegsIn(ToSet(Filled), g)}

-----------------------------------------------------------------------------
(* "Both groups then looked live on the same open position": no open       *)
(* contract is judged under two groups, however often it was traded again. *)
OneGroupPerContract ==
  \A g, h \in Evaluated : g # h => StillOpen(g) \cap StillOpen(h) = {}
=============================================================================
