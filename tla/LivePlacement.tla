--------------------------- MODULE LivePlacement ---------------------------
(***************************************************************************)
(* One confirmed ticket on its way to the broker: placeLiveOrder, the      *)
(* probes of resolveUnknownOrder, waitForOrderFills, a trader's            *)
(* cancelLiveOrder and the order half of reconcileLiveAccount, all of them *)
(* writing the same LiveOrder rows while the broker fills, rejects,        *)
(* cancels or expires the orders behind them.  A leg of the ticket is the  *)
(* order placed for it.                                                    *)
(***************************************************************************)
EXTENDS LiveOrders, FiniteSets

CONSTANTS
  Hedges,        \* the BUY legs of the ticket; the other legs are SELLs
  NoLeg,         \* no leg: a handler that holds none
  MaxCancels,    \* bound: cancel requests the trader issues
  MaxCrashes     \* bound: restarts of the API process

ASSUME HedgesAssumption == Hedges \subseteq Orders
ASSUME NoLegAssumption == NoLeg \notin Orders
ASSUME BoundsAssumption == MaxCancels \in Nat /\ MaxCrashes \in Nat

Shorts == Orders \ Hedges

VARIABLES
  \* the placeLiveOrder handler
  pc,
  cur,         \* the leg being placed
  todo,        \* the legs not attempted yet
  hedgeIds,    \* hedges the broker accepted with an id
  pending,     \* hedges waitForOrderFills has not seen TRADED
  confirmed,   \* hedgesConfirmed
  crashes,
  \* the reconcile sweep: its place, its copy of the book, the rows it has
  \* listed and what they said then
  rpc, rbook, rlist, rseen,
  \* a cancelLiveOrder request: its place, its order, the status it read
  cpc, cleg, cstatus, cancels

place  == <<pc, cur, todo, hedgeIds, pending, confirmed, crashes>>
sweep  == <<rpc, rbook, rlist, rseen>>
cancel == <<cpc, cleg, cstatus, cancels>>
vars   == <<rows, broker, place, sweep, cancel>>

PlacePC == {"next", "created", "calling", "probe1", "probe2", "waiting",
            "done", "crashed"}

-----------------------------------------------------------------------------
BrokerStep ==
  /\ \E l \in Orders :
       \/ \E s \in Acks : BookAccept(l, s, Qty)
       \/ \E s \in {"REJECTED", "CANCELLED", "OTHER"} : BookEnd(l, s)
       \/ BookRefuse(l) \/ BookOpen(l) \/ BookFill(l, Qty)
  /\ UNCHANGED <<rows, place, sweep, cancel>>

-----------------------------------------------------------------------------
(* placeLiveOrder.                                                         *)

(* Mutant of IsNext: the legs in ticket order.                             *)
IsNextUnsorted(l) == l \in todo

(* orderOpenSequence: every BUY leg comes before every SELL leg.           *)
IsNext(l) == l \in todo /\ (l \in Shorts => todo \cap Hedges = {})

(* The gate in front of the first SELL.  It looks only at hedges that came *)
(* back with a broker id.                                                  *)
MustWait(l) == l \in Shorts /\ hedgeIds # {} /\ ~confirmed

StartWait ==
  /\ pc = "next"
  /\ \E l \in Orders : IsNext(l) /\ MustWait(l)
  /\ pc' = "waiting"
  /\ pending' = hedgeIds
  /\ UNCHANGED <<cur, todo, hedgeIds, confirmed, crashes, rows, broker, sweep, cancel>>

(* One getOrderById of the poll loop.  A leg still working, or a probe     *)
(* that failed, is polled again.                                           *)
Poll(l) ==
  /\ pc = "waiting" /\ l \in pending
  /\ LET seen == MapBrokerStatus(book[l])
     IN \/ /\ seen = "TRADED"
           /\ pending' = pending \ {l}
           /\ UNCHANGED pc
        \/ /\ seen \in {"REJECTED", "CANCELLED"}
           /\ pc' = "done"
           /\ UNCHANGED pending
  /\ UNCHANGED <<cur, todo, hedgeIds, confirmed, crashes, rows, broker, sweep, cancel>>

(* Fifteen seconds without every hedge filled: the shorts are not sent and *)
(* the resting hedge is left alone.                                        *)
WaitTimeout ==
  /\ pc = "waiting" /\ pending # {}
  /\ pc' = "done"
  /\ UNCHANGED <<cur, todo, hedgeIds, pending, confirmed, crashes, rows, broker, sweep, cancel>>

HedgesConfirmed ==
  /\ pc = "waiting" /\ pending = {}
  /\ confirmed' = TRUE
  /\ pc' = "next"
  /\ UNCHANGED <<cur, todo, hedgeIds, pending, crashes, rows, broker, sweep, cancel>>

PersistLeg(l) ==
  /\ pc = "next" /\ IsNext(l) /\ ~MustWait(l)
  /\ RowCreate(l)
  /\ cur' = l
  /\ todo' = todo \ {l}
  /\ pc' = "created"
  /\ UNCHANGED <<hedgeIds, pending, confirmed, crashes, broker, sweep, cancel>>

SendLeg ==
  /\ pc = "created"
  /\ RowSend(cur)
  /\ pc' = "calling"
  /\ UNCHANGED <<cur, todo, hedgeIds, pending, confirmed, crashes, sweep, cancel>>

ReplyOk ==
  /\ pc = "calling"
  /\ \E hasId \in BOOLEAN :
       /\ RowReply(cur, hasId)
       /\ hedgeIds' = IF cur \in Hedges /\ hasId THEN hedgeIds \cup {cur} ELSE hedgeIds
  /\ pc' = "next"
  /\ UNCHANGED <<cur, todo, pending, confirmed, crashes, broker, sweep, cancel>>

(* Mutant of Reply4xx: the basket goes on past a refused leg.              *)
Reply4xxGoesOn ==
  /\ pc = "calling"
  /\ RowRefused(cur)
  /\ pc' = "next"
  /\ UNCHANGED <<cur, todo, hedgeIds, pending, confirmed, crashes, broker, sweep, cancel>>

(* The basket stops at the first leg that did not go through.              *)
Reply4xx ==
  /\ pc = "calling"
  /\ RowRefused(cur)
  /\ pc' = "done"
  /\ UNCHANGED <<cur, todo, hedgeIds, pending, confirmed, crashes, broker, sweep, cancel>>

ReplyLost ==
  /\ pc = "calling"
  /\ RowUnknown(cur)
  /\ pc' = "probe1"
  /\ UNCHANGED <<cur, todo, hedgeIds, pending, confirmed, crashes, broker, sweep, cancel>>

(* resolveUnknownOrder: up to two looks at the order book.  Whatever they  *)
(* find, the handler sends nothing more.                                   *)
Probe ==
  /\ pc \in {"probe1", "probe2"}
  /\ \/ /\ book[cur] # "ABSENT"
        /\ RowAdopt(cur, book[cur], bookFilled[cur])
        /\ pc' = "done"
     \/ \* absent from the book, or the probe itself failed
        /\ pc' = IF pc = "probe1" THEN "probe2" ELSE "done"
        /\ UNCHANGED rows
  /\ UNCHANGED <<cur, todo, hedgeIds, pending, confirmed, crashes, broker, sweep, cancel>>

Finish ==
  /\ pc = "next" /\ todo = {}
  /\ pc' = "done"
  /\ UNCHANGED <<cur, todo, hedgeIds, pending, confirmed, crashes, rows, broker, sweep, cancel>>

(* The API process restarts: the handler is gone, its rows stay.           *)
Crash ==
  /\ pc \notin {"done", "crashed"}
  /\ crashes < MaxCrashes
  /\ crashes' = crashes + 1
  /\ pc' = "crashed"
  /\ UNCHANGED <<cur, todo, hedgeIds, pending, confirmed, rows, broker, sweep, cancel>>

(* The steps the handler takes by itself, once the network has answered.   *)
HandlerStep ==
  \/ StartWait \/ HedgesConfirmed
  \/ \E l \in Orders : Poll(l) \/ PersistLeg(l)
  \/ SendLeg \/ ReplyOk \/ Reply4xx \/ Probe \/ Finish

-----------------------------------------------------------------------------
(* reconcileLiveAccount, the order half.                                   *)

(* The local variables of a sweep between two sweeps.                      *)
NoBook == [l \in Orders |-> [st |-> "ABSENT", filled |-> 0]]
NoRows == [l \in Orders |-> [st |-> "NONE", filled |-> 0]]

(* The sweep skips an account with nothing working.                        *)
SweepReadBook ==
  /\ rpc = "idle"
  /\ \E l \in Orders : status[l] \in NonTerminal
  /\ rbook' = [l \in Orders |-> [st |-> book[l], filled |-> bookFilled[l]]]
  /\ rpc' = "list"
  /\ UNCHANGED <<rlist, rseen, rows, broker, place, cancel>>

(* findMany of the rows still worth looking at.                            *)
SweepList ==
  /\ rpc = "list"
  /\ rlist' = {l \in Orders : status[l] \in NonTerminal}
  /\ rseen' = [l \in Orders |-> [st |-> status[l], filled |-> filledQty[l]]]
  /\ rpc' = "apply"
  /\ UNCHANGED <<rbook, rows, broker, place, cancel>>

(* The book knows the order and the row, as it was listed, disagrees.      *)
Differs(l) ==
  /\ rbook[l].st # "ABSENT"
  /\ \/ MapBrokerStatus(rbook[l].st) # rseen[l].st
     \/ rbook[l].filled # rseen[l].filled

(* One row of the loop.  A row the book does not know, or agrees with, is  *)
(* left as it is; any other is overwritten, whatever it says by now.  The  *)
(* sweep's copies of the row are not used again.                           *)
SweepApply(l) ==
  /\ rpc = "apply" /\ l \in rlist
  /\ IF Differs(l) THEN RowAdopt(l, rbook[l].st, rbook[l].filled) ELSE UNCHANGED rows
  /\ rlist' = rlist \ {l}
  /\ rbook' = [rbook EXCEPT ![l] = NoBook[l]]
  /\ rseen' = [rseen EXCEPT ![l] = NoRows[l]]
  /\ UNCHANGED <<rpc, broker, place, cancel>>

SweepEnd ==
  /\ rpc = "apply" /\ rlist = {}
  /\ rpc' = "idle"
  /\ rbook' = NoBook
  /\ rseen' = NoRows
  /\ UNCHANGED <<rlist, rows, broker, place, cancel>>

SweepStep == SweepReadBook \/ SweepList \/ SweepEnd \/ \E l \in Orders : SweepApply(l)

-----------------------------------------------------------------------------
(* cancelLiveOrder: no guard on the row's status beyond a broker id.       *)
CancelStart(l) ==
  /\ cpc = "idle" /\ cancels < MaxCancels
  /\ brokerId[l]
  /\ cpc' = "calling"
  /\ cleg' = l
  /\ cstatus' = status[l]
  /\ cancels' = cancels + 1
  /\ UNCHANGED <<rows, broker, place, sweep>>

(* The reply says CANCELLED, or something else (the cancel was only        *)
(* queued), in which case the status read at the start is written back.    *)
CancelReply ==
  /\ cpc = "calling"
  /\ \/ /\ book[cleg] = "CANCELLED"
        /\ status' = [status EXCEPT ![cleg] = "CANCELLED"]
     \/ status' = [status EXCEPT ![cleg] = cstatus]
  /\ cpc' = "idle"
  /\ UNCHANGED <<brokerId, filledQty, cleg, cstatus, cancels, broker, place, sweep>>

(* The broker refuses (nothing left to cancel) or the call fails.          *)
CancelFail ==
  /\ cpc = "calling"
  /\ cpc' = "idle"
  /\ UNCHANGED <<cleg, cstatus, cancels, rows, broker, place, sweep>>

CancelEnd == CancelReply \/ CancelFail

-----------------------------------------------------------------------------
Init ==
  /\ OrdersInit
  /\ pc = "next" /\ cur = NoLeg /\ todo = Orders /\ hedgeIds = {} /\ pending = {}
  /\ confirmed = FALSE /\ crashes = 0
  /\ rpc = "idle" /\ rlist = {} /\ rbook = NoBook /\ rseen = NoRows
  /\ cpc = "idle" /\ cleg = NoLeg /\ cstatus = "NONE" /\ cancels = 0

Next ==
  \/ HandlerStep \/ WaitTimeout \/ ReplyLost \/ Crash
  \/ BrokerStep
  \/ SweepStep
  \/ CancelEnd \/ \E l \in Orders : CancelStart(l)

Spec == Init /\ [][Next]_vars

(***************************************************************************)
(* Fairness.  A handler that is running goes on running and the worker's   *)
(* scheduler keeps starting sweeps.  Nothing is assumed of the broker, of  *)
(* the trader or of the network.                                           *)
(***************************************************************************)
FairSpec == Spec /\ WF_vars(HandlerStep) /\ WF_vars(SweepStep) /\ WF_vars(CancelEnd)

-----------------------------------------------------------------------------
(* Every variable holds a value of its kind.                               *)
TypeOK ==
  /\ OrdersType
  /\ pc \in PlacePC /\ cur \in Orders \cup {NoLeg} /\ todo \subseteq Orders
  /\ hedgeIds \subseteq Hedges /\ pending \subseteq Hedges
  /\ confirmed \in BOOLEAN /\ crashes \in 0..MaxCrashes
  /\ rpc \in {"idle", "list", "apply"} /\ rlist \subseteq Orders
  /\ rbook \in [Orders -> [st : BrokerStatus \cup {"ABSENT"}, filled : 0..Qty]]
  /\ rseen \in [Orders -> [st : LocalStatus \cup {"NONE"}, filled : 0..Qty]]
  /\ cpc \in {"idle", "calling"} /\ cleg \in Orders \cup {NoLeg}
  /\ cstatus \in LocalStatus \cup {"NONE"} /\ cancels \in 0..MaxCancels

(* HEDGE FIRST.  Once the request for a SELL leg has left, every BUY leg   *)
(* has been accepted by the broker, and every BUY leg the broker gave an   *)
(* id for has TRADED.                                                      *)
HedgeBeforeShort ==
  \A s \in Shorts : wire[s] # "none" =>
    \A h \in Hedges : wire[h] = "landed" /\ (h \in hedgeIds => book[h] = "TRADED")

(* A row that no later sweep will revisit tells the truth about its order: *)
(* the request is not still on its way, and if it landed the order ended   *)
(* the way the row says.  No live order is ever written off locally.       *)
NoOrphanOrder ==
  \A l \in Orders : status[l] \in Terminal =>
    /\ wire[l] # "out"
    /\ wire[l] = "landed" => MapBrokerStatus(book[l]) = status[l]

(* Whatever fails, at most one leg of the basket is in doubt: every other  *)
(* request that ever left was accepted by the broker.                      *)
OneLegInDoubt ==
  Cardinality({l \in Orders : wire[l] \in {"out", "refused", "dropped"}}) <= 1

(* The rows are a cache of the broker: once an order has ended there, its  *)
(* row comes to say so, crashes, lost replies and stale writes             *)
(* notwithstanding.                                                        *)
RowFollowsBroker ==
  \A l \in Orders :
    book[l] \in BrokerFinal ~> status[l] = MapBrokerStatus(book[l])

=============================================================================
