------------------------------- MODULE MCDesk -------------------------------
(* The live order desk's parts in one run: a behaviour picks a scene and   *)
(* only that part moves, so the state space is the sum of theirs.          *)
EXTENDS BrokerLink, LiveDesk, LiveControls, LiveScreen, ExitRules

VARIABLE scene

Liquid == [named |-> TRUE, last |-> 10, oi |-> 500, volume |-> None, spread |-> 15]
Spread == [adds |-> 2, margins |-> <<2, 1>>, lots |-> 1, naked |-> FALSE, row |-> Liquid, limit |-> 50]
FarLimit == [Spread EXCEPT !.limit = 51]
Margins == [funds |-> 4, orderCap |-> 3, maxUtil |-> 100, ceiling |-> 2, naked |-> FALSE, perMinute |-> 3]
TicketsAsked == {Spread, [Spread EXCEPT !.naked = TRUE], FarLimit}
TradedBaskets == {{"A"}, {"B"}, {"A", "B"}, {"A", "B", "C"}}
Crude == {[id |-> "jan", last |-> 0], [id |-> "feb", last |-> 1], [id |-> "mar", last |-> 3]}
SoldCall == [side |-> "SELL", entry |-> 4]
LongCall == [side |-> "BUY", entry |-> 2]
Built == {{SoldCall, LongCall}, {SoldCall}, {LongCall}}
deskVarsAll == <<scene, linkVars, deskVars, ctrlVars, groupVars, dhanVars, screenVars, ruleVars>>

MCDeskInit ==
  /\ scene \in {"link", "ticket", "controls", "groups", "dhan", "screen", "rules"}
  /\ LinkInit /\ GroupsInit /\ DhanInit /\ ScreenInit
  /\ RulesInit /\ (scene # "rules" => autoExit)
  /\ DeskInit /\ (scene # "ticket" => book = 0)
  /\ ControlInit /\ (scene # "controls" => holds = Contracts)

MCDeskNext ==
  /\ UNCHANGED scene
  /\ \/ scene = "link" /\ LinkNext /\ UNCHANGED <<deskVars, ctrlVars, groupVars, dhanVars, screenVars, ruleVars>>
     \/ scene = "ticket" /\ DeskNext /\ UNCHANGED <<linkVars, ctrlVars, groupVars, dhanVars, screenVars, ruleVars>>
     \/ scene = "controls" /\ ControlNext /\ UNCHANGED <<linkVars, deskVars, groupVars, dhanVars, screenVars, ruleVars>>
     \/ scene = "groups" /\ GroupsNext /\ UNCHANGED <<linkVars, deskVars, ctrlVars, dhanVars, screenVars, ruleVars>>
     \/ scene = "dhan" /\ DhanNext /\ UNCHANGED <<linkVars, deskVars, ctrlVars, groupVars, screenVars, ruleVars>>
     \/ scene = "screen" /\ ScreenNext /\ UNCHANGED <<linkVars, deskVars, ctrlVars, groupVars, dhanVars, ruleVars>>
     \/ scene = "rules" /\ RulesNext /\ UNCHANGED <<linkVars, deskVars, ctrlVars, groupVars, dhanVars, screenVars>>

MCDeskSpec == MCDeskInit /\ [][MCDeskNext]_deskVarsAll

-----------------------------------------------------------------------------
(* What several parts of the desk promise together, one property each.     *)
(* No call goes out with a token older than the one saved before it was    *)
(* asked for, and a consent is exchanged for a token at most once.         *)
LinkIsSound == ClientIsCurrent /\ ConsentSpentOnce

(* What the trader is told is so: panic's report leaves nothing alive      *)
(* unmentioned, "refused" means refused at the broker, the audit log ends  *)
(* with what the caller was told, and an order's row has its true size.    *)
RepliesAreTrue == PanicOwnsUp /\ RefusalIsTrue /\ AuditMatches /\ ResizeAgrees

(* Figures served from caches - the margin of a settled book, the          *)
(* commodity's contract, the screen's funds and deltas - are of the recent *)
(* past they are promised to be of.                                        *)
CachesAreRecent == SettledBookPricedTrue /\ FrontMonthIsRecent /\ ScreenIsRecent
=============================================================================
