---------------------------- MODULE PaperTickets ----------------------------
(***************************************************************************)
(* The tickets of paper trading: the capacity check of apps/api/src/       *)
(* server.ts and paper-repository.ts before a ticket's orders are created, *)
(* the margin the API estimates for the orders it just created, and the    *)
(* margin the worker records for the legs its own pass filled.  (What the  *)
(* rows themselves do is PaperBook's; here a fill, a cancellation and a    *)
(* close are single steps.)                                                *)
(***************************************************************************)
EXTENDS Integers, FiniteSets, FiniteSetsExt

CONSTANTS
  PaperAsks,     \* the tickets asked for: disjoint sets of legs
  ListedLegs,    \* the legs whose contract carries a Dhan security id
  PaperCap,      \* MAX_OPEN_POSITIONS
  NotionalCap,   \* MAX_NOTIONAL_EXPOSURE, in units of the smallest leg
  LegSizes,      \* what a leg may be worth, in those units
  MaxResizes     \* bound: edits of pending orders

ASSUME TicketConstants ==
  /\ IsFiniteSet(UNION PaperAsks) /\ \A t, u \in PaperAsks : t # u => t \cap u = {}
  /\ PaperCap \in Nat /\ NotionalCap \in Nat /\ LegSizes \subseteq Nat /\ MaxResizes \in Nat

VARIABLES
  leg,      \* the order and position of a leg, its worth, and their margin figures
  wanted,    \* the requests
  pass,     \* recordMarginForFilledLegs of the worker's pass
  resizes

ticketRows == <<leg, resizes>>
paperTicketVars == <<leg, wanted, pass, resizes>>

PaperLegs == UNION PaperAsks
NoLeg     == [st |-> "none", size |-> 0, estimate |-> {}, margin |-> {}]
NotAsked  == [pc |-> "idle", size |-> 0, queries |-> {}, rows |-> 0, worth |-> 0, of |-> {}, missed |-> {}]
NoMonitor == [pc |-> "idle", filled |-> {}, of |-> {}]

LegsIn(st)   == {l \in PaperLegs : leg[l].st = st}
AliveLegs    == LegsIn("pending") \cup LegsIn("open")
Worth(legs)  == FoldSet(LAMBDA l, sum : sum + leg[l].size, 0, legs)

(* Only legs whose security id is known can be sent to the broker's        *)
(* calculator, which prices them as one basket: a figure is known by the   *)
(* legs it is of.                                                          *)
Priceable(legs) == legs \cap ListedLegs
BasketMargin(legs) == Priceable(legs)

-----------------------------------------------------------------------------
(* For the properties only: a check that has begun to read does not see    *)
(* what is inserted or filled from then on.                                *)
MidCheck(t) == wanted[t].pc = "placing" \/ (wanted[t].pc = "checking" /\ wanted[t].queries # {"open", "pending"})
Missed(legs) == [t \in PaperAsks |-> IF MidCheck(t) THEN [wanted[t] EXCEPT !.missed = @ \cup legs] ELSE wanted[t]]

AskTicket(t, size) ==
  /\ wanted[t].pc = "idle" /\ t \cap AliveLegs = {}
  /\ wanted' = [wanted EXCEPT ![t] = [NotAsked EXCEPT !.pc = "checking", !.size = size,
                                                    !.queries = {"open", "pending"}]]
  /\ UNCHANGED <<ticketRows, pass>>

(* validatePaperOrderCapacity sends its two queries at once, and they are  *)
(* answered in either order.                                               *)
CountableOpenOnly(query) == IF query = "open" THEN LegsIn(query) ELSE {}
Countable(query) == LegsIn(query)

CountRows(t, query) ==
  /\ wanted[t].pc = "checking" /\ query \in wanted[t].queries
  /\ wanted' = [wanted EXCEPT ![t].queries = @ \ {query},
                            ![t].rows = @ + Cardinality(Countable(query)),
                            ![t].worth = @ + Worth(Countable(query))]
  /\ UNCHANGED <<ticketRows, pass>>

FitsCaps(t) ==
  /\ wanted[t].rows + Cardinality(t) <= PaperCap
  /\ wanted[t].worth + Cardinality(t) * wanted[t].size <= NotionalCap

JudgeCapacity(t) ==
  /\ wanted[t].pc = "checking" /\ wanted[t].queries = {}
  /\ wanted' = [wanted EXCEPT ![t] = IF FitsCaps(t) THEN [@ EXCEPT !.pc = "placing"] ELSE NotAsked]
  /\ UNCHANGED <<ticketRows, pass>>

(* The orders of a ticket, in one transaction.                             *)
CreateOrders(t) ==
  /\ wanted[t].pc = "placing"
  /\ leg' = [l \in PaperLegs |-> IF l \in t THEN [NoLeg EXCEPT !.st = "pending", !.size = wanted[t].size] ELSE leg[l]]
  /\ wanted' = [Missed(t) EXCEPT ![t] = [wanted[t] EXCEPT !.pc = "estimating"]]
  /\ UNCHANGED <<pass, resizes>>

(* tryEstimateOrderMargin: the legs that are pending still are priced      *)
(* together, unless none has a security id or the broker does not answer.  *)
EstimateOrders(t) ==
  /\ wanted[t].pc = "estimating"
  /\ LET waiting == t \cap LegsIn("pending")
     IN wanted' = [wanted EXCEPT ![t] = IF Priceable(waiting) = {} THEN [@ EXCEPT !.pc = "done"]
                                      ELSE [@ EXCEPT !.pc = "estimated", !.of = waiting]]
  /\ UNCHANGED <<ticketRows, pass>>

RecordEstimate(t) ==
  /\ wanted[t].pc = "estimated"
  /\ \/ UNCHANGED leg
     \/ leg' = [l \in PaperLegs |-> IF l \in wanted[t].of
                  THEN [leg[l] EXCEPT !.estimate = BasketMargin(wanted[t].of)] ELSE leg[l]]
  /\ wanted' = [wanted EXCEPT ![t] = [@ EXCEPT !.pc = "done", !.of = {}]]
  /\ UNCHANGED <<pass, resizes>>

-----------------------------------------------------------------------------
(* updatePendingPaperOrder looks at the risk of the new levels only: what  *)
(* an order is worth may grow past every cap.                              *)
Resize(l) ==
  /\ leg[l].st = "pending" /\ resizes < MaxResizes /\ resizes' = resizes + 1
  /\ leg' = [leg EXCEPT ![l].size = @ + 1]
  /\ UNCHANGED <<wanted, pass>>

CancelOrder(l) ==
  /\ leg[l].st = "pending" /\ leg' = [leg EXCEPT ![l].st = "cancelled"]
  /\ UNCHANGED <<wanted, pass, resizes>>

CloseRow(l) ==
  /\ leg[l].st = "open" /\ leg' = [leg EXCEPT ![l].st = "closed"]
  /\ UNCHANGED <<wanted, pass, resizes>>

(* refreshPendingPaperOrders, run by the worker after a capture and by     *)
(* every summary the API builds; only the worker keeps what it filled.     *)
Filled(l) ==
  /\ leg[l].st = "pending"
  /\ leg' = [leg EXCEPT ![l].st = "open"] /\ wanted' = Missed({l})
  /\ UNCHANGED resizes

FilledByApi(l) == Filled(l) /\ UNCHANGED pass

FilledByWorker(l) ==
  /\ pass.pc \in {"idle", "filling"} /\ Filled(l)
  /\ pass' = [pass EXCEPT !.pc = "filling", !.filled = @ \cup {l}]

FillsDone ==
  /\ pass.pc = "filling" /\ pass' = [pass EXCEPT !.pc = "pricing"]
  /\ UNCHANGED <<ticketRows, wanted>>

-----------------------------------------------------------------------------
(* recordMarginForFilledLegs: once per ticket, the legs that are open now  *)
(* are priced together and the figure written on all of them, whatever     *)
(* became of them while the broker answered.                               *)
PricedAlone(l)    == {l}
PricedTogether(l) == UNION {t \in PaperAsks : l \in t}

Remaining(filled) == [pc |-> IF filled = {} THEN "idle" ELSE "pricing", filled |-> filled, of |-> {}]

PriceGroup(l) ==
  /\ pass.pc = "pricing" /\ l \in pass.filled
  /\ LET open == PricedTogether(l) \cap LegsIn("open")
         left == pass.filled \ PricedTogether(l)
     IN pass' = IF Priceable(open) = {} THEN Remaining(left)
                ELSE [pc |-> "priced", filled |-> left, of |-> open]
  /\ UNCHANGED <<ticketRows, wanted>>

RecordMargin ==
  /\ pass.pc = "priced" /\ pass' = Remaining(pass.filled)
  /\ \/ UNCHANGED leg
     \/ leg' = [l \in PaperLegs |-> IF l \in pass.of
                  THEN [leg[l] EXCEPT !.margin = BasketMargin(pass.of)] ELSE leg[l]]
  /\ UNCHANGED <<wanted, resizes>>

(* A restart of the worker: what it filled is filled, and not priced.      *)
MonitorLost ==
  /\ pass.pc # "idle" /\ pass' = NoMonitor
  /\ UNCHANGED <<ticketRows, wanted>>

-----------------------------------------------------------------------------
PaperTicketInit ==
  /\ leg = [l \in PaperLegs |-> NoLeg] /\ wanted = [t \in PaperAsks |-> NotAsked]
  /\ pass = NoMonitor /\ resizes = 0

AskSteps(t) ==
  \/ \E size \in LegSizes : AskTicket(t, size)
  \/ \E query \in {"open", "pending"} : CountRows(t, query)
  \/ JudgeCapacity(t) \/ CreateOrders(t) \/ EstimateOrders(t) \/ RecordEstimate(t)

LegSteps(l) ==
  \/ Resize(l) \/ CancelOrder(l) \/ CloseRow(l)
  \/ FilledByApi(l) \/ FilledByWorker(l) \/ PriceGroup(l)

PaperTicketNext ==
  \/ \E t \in PaperAsks : AskSteps(t)
  \/ \E l \in PaperLegs : LegSteps(l)
  \/ FillsDone \/ RecordMargin \/ MonitorLost

PaperTicketSpec == PaperTicketInit /\ [][PaperTicketNext]_paperTicketVars

-----------------------------------------------------------------------------
(* The book goes past the cap on its size only by legs that an admitted    *)
(* ticket could not see: inserted, or moved from the pending orders to the *)
(* open positions, between its first query and its own insert.             *)
CapYieldsToRacesOnly ==
  Cardinality(AliveLegs \ UNION {wanted[t].missed : t \in PaperAsks}) <= PaperCap

(* Whoever filled the legs of a ticket and in whatever order they opened   *)
(* and closed, the open ones that show a margin show the same one: that of *)
(* the ticket priced as one basket.                                        *)
OneMarginPerTicket ==
  \A t \in PaperAsks : \A a, b \in t \cap LegsIn("open") :
    leg[a].margin # {} /\ leg[b].margin # {} => leg[a].margin = leg[b].margin
=============================================================================
