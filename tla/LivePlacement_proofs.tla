------------------------ MODULE LivePlacement_proofs ------------------------
(***************************************************************************)
(* Proofs about LivePlacement, for every ticket, quantity and bound.       *)
(*                                                                         *)
(* The invariant joins four facts that no property states: the book and    *)
(* the wire agree about what has landed (NetworkOK), the handler's todo    *)
(* list says which requests have left (BasketOK), a SELL leaves todo only  *)
(* when the hedges are settled (HedgeOK), and the copies the sweep and the *)
(* cancel hold are old truths, never lies (CopiesOK).                      *)
(***************************************************************************)
EXTENDS LivePlacement, FiniteSetTheorems, TLAPS

NetworkOK ==
  \A l \in Orders :
    /\ wire[l] = "landed" <=> book[l] # "ABSENT"
    /\ brokerId[l] => wire[l] = "landed"
    /\ wire[l] = "landed" /\ ack[l] \in Terminal => book[l] = ack[l]

InHand == {"created", "calling", "probe1", "probe2"}

BasketOK ==
  /\ \A l \in todo : wire[l] = "none"
  /\ \A l \in Orders \ todo : l # cur => wire[l] = "landed"
  /\ pc \in {"next", "waiting"} => \A l \in Orders \ todo : wire[l] = "landed"
  /\ pc \in InHand => cur \in Orders \ todo
  /\ pc = "created" => wire[cur] = "none"

HedgesSettled ==
  \A h \in Hedges : wire[h] = "landed" /\ (h \in hedgeIds => book[h] = "TRADED")

HedgeOK ==
  /\ \A s \in Shorts : s \notin todo => HedgesSettled
  /\ pc \in InHand /\ cur \in Hedges => Shorts \subseteq todo /\ ~confirmed
  /\ confirmed \/ pc = "waiting" => todo \cap Hedges = {}
  /\ confirmed => \A h \in hedgeIds : book[h] = "TRADED"
  /\ pc = "waiting" => \A h \in hedgeIds \ pending : book[h] = "TRADED"

CopiesOK ==
  /\ \A l \in Orders :
       /\ rbook[l].st # "ABSENT" => wire[l] = "landed"
       /\ rbook[l].st \in Terminal => book[l] = rbook[l].st
  /\ cpc = "calling" =>
       /\ cleg \in Orders /\ wire[cleg] = "landed"
       /\ cstatus \in Terminal => book[cleg] = cstatus

IInv == TypeOK /\ NetworkOK /\ BasketOK /\ HedgeOK /\ NoOrphanOrder /\ CopiesOK

-----------------------------------------------------------------------------
(* What the reconciliation of status strings does: it is total, and a      *)
(* terminal row status only ever comes from the same broker status.        *)
LEMMA MapStatus ==
  \A b \in BrokerStatus :
    /\ MapBrokerStatus(b) \in LocalStatus
    /\ MapBrokerStatus(b) \in Terminal => MapBrokerStatus(b) = b
    /\ b \in Terminal => MapBrokerStatus(b) = b
  BY DEF MapBrokerStatus, BrokerStatus, BrokerWorking, BrokerFinal, LocalStatus,
         NonTerminal, Terminal

(* Every reachable state is well typed.                                    *)
LEMMA TypeInit == Init => TypeOK
<1> SUFFICES ASSUME Init PROVE TypeOK
  OBVIOUS
<1> USE QtyAssumption, BoundsAssumption DEF Init
<1>1. OrdersType
  BY DEF OrdersInit, OrdersType, OrdersTyped, Wire, AckStatus
<1>2. rbook \in [Orders -> [st : BrokerStatus \cup {"ABSENT"}, filled : 0..Qty]]
  BY DEF NoBook
<1>3. rseen \in [Orders -> [st : LocalStatus \cup {"NONE"}, filled : 0..Qty]]
  BY DEF NoRows
<1>4. pc \in PlacePC /\ cur \in Orders \cup {NoLeg} /\ todo \subseteq Orders
  BY DEF PlacePC
<1>5. crashes \in 0..MaxCrashes /\ cancels \in 0..MaxCancels
  OBVIOUS
<1> QED
  BY <1>1, <1>2, <1>3, <1>4, <1>5 DEF TypeOK

LEMMA TypeStep == TypeOK /\ [Next]_vars => TypeOK'
<1> SUFFICES ASSUME TypeOK, [Next]_vars PROVE TypeOK'
  OBVIOUS
<1> USE QtyAssumption, AcksAssumption, HedgesAssumption, BoundsAssumption, NoLegAssumption
    DEF TypeOK, OrdersType, OrdersTyped, place, sweep, cancel, rows, broker
<1>1. CASE StartWait
  BY <1>1 DEF StartWait, PlacePC
<1>2. ASSUME NEW l \in Orders, Poll(l) PROVE TypeOK'
  BY <1>2 DEF Poll, PlacePC
<1>3. CASE WaitTimeout
  BY <1>3 DEF WaitTimeout, PlacePC
<1>4. CASE HedgesConfirmed
  BY <1>4 DEF HedgesConfirmed, PlacePC
<1>5. ASSUME NEW l \in Orders, PersistLeg(l) PROVE TypeOK'
  BY <1>5 DEF PersistLeg, RowCreate, PlacePC, LocalStatus, NonTerminal
<1>6. CASE SendLeg
  BY <1>6 DEF SendLeg, RowSend, PlacePC, LocalStatus, NonTerminal, Wire
<1>7. CASE ReplyOk
  <2>1. PICK hasId \in BOOLEAN :
          /\ RowReply(cur, hasId)
          /\ hedgeIds' = IF cur \in Hedges /\ hasId THEN hedgeIds \cup {cur} ELSE hedgeIds
    BY <1>7 DEF ReplyOk
  <2>2. \A l \in Orders : MapBrokerStatus(ack[l]) \in LocalStatus
    BY MapStatus DEF AckStatus, BrokerStatus, BrokerWorking, BrokerFinal
  <2> QED
    BY <1>7, <2>1, <2>2 DEF ReplyOk, RowReply, PlacePC
<1>8. CASE Reply4xx
  BY <1>8 DEF Reply4xx, RowRefused, PlacePC, LocalStatus, Terminal
<1>9. CASE ReplyLost
  BY <1>9 DEF ReplyLost, RowUnknown, PlacePC, LocalStatus, NonTerminal
<1>10. CASE Probe
  <2>1. CASE UNCHANGED rows
    BY <1>10, <2>1 DEF Probe, PlacePC
  <2>2. CASE book[cur] # "ABSENT" /\ RowAdopt(cur, book[cur], bookFilled[cur])
    <3>1. cur \in Orders => MapBrokerStatus(book[cur]) \in LocalStatus
      BY <2>2, MapStatus
    <3>2. pc' \in PlacePC
      BY <1>10 DEF Probe, PlacePC
    <3>3. OrdersType'
      BY <1>10, <2>2, <3>1 DEF Probe, RowAdopt
    <3> QED
      BY <1>10, <3>2, <3>3 DEF Probe
  <2> QED
    BY <1>10, <2>1, <2>2 DEF Probe
<1>11. CASE Finish
  BY <1>11 DEF Finish, PlacePC
<1>12. CASE Crash
  BY <1>12 DEF Crash, PlacePC
<1>13. CASE BrokerStep
  <2> DEFINE BrokerType == /\ wire \in [Orders -> Wire]
                           /\ book \in [Orders -> BrokerStatus \cup {"ABSENT"}]
                           /\ bookFilled \in [Orders -> 0..Qty]
                           /\ ack \in [Orders -> AckStatus]
  <2>1. ASSUME NEW l \in Orders, NEW s \in Acks, BookAccept(l, s, Qty) PROVE BrokerType'
    BY <2>1 DEF BookAccept, Wire, AckStatus, BrokerStatus, BrokerWorking, BrokerFinal
  <2>2. ASSUME NEW l \in Orders, NEW s \in {"REJECTED", "CANCELLED", "OTHER"}, BookEnd(l, s)
        PROVE  BrokerType'
    BY <2>2 DEF BookEnd, BrokerStatus, BrokerFinal
  <2>3. ASSUME NEW l \in Orders, BookRefuse(l) PROVE BrokerType'
    BY <2>3 DEF BookRefuse, Wire
  <2>4. ASSUME NEW l \in Orders, BookOpen(l) PROVE BrokerType'
    BY <2>4 DEF BookOpen, BrokerStatus, BrokerWorking
  <2>5. ASSUME NEW l \in Orders, BookFill(l, Qty) PROVE BrokerType'
    BY <2>5 DEF BookFill, BrokerStatus, BrokerWorking, BrokerFinal
  <2>6. BrokerType'
    BY <1>13, <2>1, <2>2, <2>3, <2>4, <2>5 DEF BrokerStep
  <2> QED
    BY <1>13, <2>6 DEF BrokerStep
<1>14. CASE SweepReadBook
  BY <1>14 DEF SweepReadBook
<1>15. CASE SweepList
  BY <1>15 DEF SweepList
<1>16. ASSUME NEW l \in Orders, SweepApply(l) PROVE TypeOK'
  <2>1. rbook[l].st # "ABSENT" => MapBrokerStatus(rbook[l].st) \in LocalStatus
    BY MapStatus
  <2>2. rbook' \in [Orders -> [st : BrokerStatus \cup {"ABSENT"}, filled : 0..Qty]]
    BY <1>16 DEF SweepApply, NoBook
  <2>3. rseen' \in [Orders -> [st : LocalStatus \cup {"NONE"}, filled : 0..Qty]]
    BY <1>16 DEF SweepApply, NoRows
  <2>4. OrdersType'
    <3>1. CASE Differs(l)
      <4>1. /\ MapBrokerStatus(rbook[l].st) \in LocalStatus
            /\ rbook[l].filled \in 0..Qty
        BY <2>1, <3>1 DEF Differs
      <4>2. RowAdopt(l, rbook[l].st, rbook[l].filled) /\ UNCHANGED broker
        BY <1>16, <3>1 DEF SweepApply
      <4> QED
        BY <4>1, <4>2 DEF RowAdopt
    <3>2. CASE ~Differs(l)
      BY <1>16, <3>2 DEF SweepApply
    <3> QED
      BY <3>1, <3>2
  <2> QED
    BY <1>16, <2>2, <2>3, <2>4 DEF SweepApply
<1>17. CASE SweepEnd
  BY <1>17 DEF SweepEnd, NoBook, NoRows
<1>18. ASSUME NEW l \in Orders, CancelStart(l) PROVE TypeOK'
  BY <1>18 DEF CancelStart
<1>19. CASE CancelEnd
  BY <1>19 DEF CancelEnd, CancelReply, CancelFail, LocalStatus, Terminal
<1>20. CASE UNCHANGED vars
  BY <1>20 DEF vars
<1> QED
  BY <1>1, <1>2, <1>3, <1>4, <1>5, <1>6, <1>7, <1>8, <1>9, <1>10, <1>11, <1>12,
     <1>13, <1>14, <1>15, <1>16, <1>17, <1>18, <1>19, <1>20
  DEF Next, HandlerStep, SweepStep

(* Every variable holds a value of its kind, whatever the broker, the      *)
(* network, the trader and restarts do.                                    *)
THEOREM TypeCorrect == Spec => []TypeOK
  BY TypeInit, TypeStep, PTL DEF Spec

-----------------------------------------------------------------------------
(* What the broker may do to an order: answer a request that is out, move  *)
(* a working order, and nothing else.                                      *)
LEMMA BrokerMoves ==
  ASSUME TypeOK, NetworkOK, BrokerStep, NEW l \in Orders
  PROVE  /\ wire[l] # "out" => wire'[l] = wire[l]
         /\ wire[l] = "out" => wire'[l] \in {"out", "landed", "refused", "dropped"}
         /\ book[l] \in Terminal => book'[l] = book[l]
         /\ wire'[l] = "landed" <=> book'[l] # "ABSENT"
         /\ wire'[l] = "landed" /\ ack'[l] \in Terminal => book'[l] = ack'[l]
<1> USE DEF TypeOK, OrdersType, OrdersTyped, NetworkOK
<1>1. PICK m \in Orders :
         \/ \E s \in Acks : BookAccept(m, s, Qty)
         \/ \E s \in {"REJECTED", "CANCELLED", "OTHER"} : BookEnd(m, s)
         \/ BookRefuse(m) \/ BookOpen(m) \/ BookFill(m, Qty)
  BY DEF BrokerStep
<1>2. CASE \E s \in Acks : BookAccept(m, s, Qty)
  BY <1>2, AcksAssumption DEF BookAccept, AckStatus, Terminal
<1>3. CASE \E s \in {"REJECTED", "CANCELLED", "OTHER"} : BookEnd(m, s)
  BY <1>3 DEF BookEnd, Terminal, BrokerWorking
<1>4. CASE BookRefuse(m)
  BY <1>4 DEF BookRefuse
<1>5. CASE BookOpen(m)
  BY <1>5 DEF BookOpen, Terminal
<1>6. CASE BookFill(m, Qty)
  BY <1>6 DEF BookFill, Terminal
<1> QED
  BY <1>1, <1>2, <1>3, <1>4, <1>5, <1>6

LEMMA NetworkStep == IInv /\ [Next]_vars => NetworkOK'
<1> SUFFICES ASSUME IInv, [Next]_vars PROVE NetworkOK'
  OBVIOUS
<1> USE DEF IInv, TypeOK, OrdersType, OrdersTyped, NetworkOK, rows, broker, place, sweep, cancel
<1>1. CASE SendLeg
  BY <1>1 DEF SendLeg, RowSend, BasketOK, InHand
<1>2. CASE ReplyOk
  BY <1>2 DEF ReplyOk, RowReply, BasketOK, InHand
<1>3. CASE Probe
  BY <1>3 DEF Probe, RowAdopt
<1>4. CASE BrokerStep
  <2> SUFFICES ASSUME NEW l \in Orders
               PROVE  /\ wire'[l] = "landed" <=> book'[l] # "ABSENT"
                      /\ brokerId'[l] => wire'[l] = "landed"
                      /\ wire'[l] = "landed" /\ ack'[l] \in Terminal => book'[l] = ack'[l]
    OBVIOUS
  <2>1. UNCHANGED brokerId
    BY <1>4 DEF BrokerStep
  <2> QED
    BY <1>4, <2>1, BrokerMoves
<1>5. ASSUME NEW l \in Orders, SweepApply(l) PROVE NetworkOK'
  BY <1>5 DEF SweepApply, Differs, RowAdopt, CopiesOK
<1>6. CASE UNCHANGED <<brokerId, broker>>
  BY <1>6
<1>7. \/ SendLeg \/ ReplyOk \/ Probe \/ BrokerStep
      \/ (\E l \in Orders : SweepApply(l)) \/ UNCHANGED <<brokerId, broker>>
  BY DEF Next, vars, HandlerStep, SweepStep, StartWait, Poll, WaitTimeout, HedgesConfirmed,
         PersistLeg, RowCreate, Reply4xx, RowRefused, ReplyLost, RowUnknown, Finish, Crash,
         SweepReadBook, SweepList, SweepEnd, CancelStart, CancelEnd, CancelReply, CancelFail
<1> QED
  BY <1>1, <1>2, <1>3, <1>4, <1>5, <1>6, <1>7

LEMMA BasketStep == IInv /\ [Next]_vars => BasketOK'
<1> SUFFICES ASSUME IInv, [Next]_vars PROVE BasketOK'
  OBVIOUS
<1> USE DEF IInv, TypeOK, OrdersType, OrdersTyped, BasketOK, InHand, rows, broker, place, sweep,
           cancel
<1>1. CASE StartWait
  BY <1>1 DEF StartWait
<1>2. ASSUME NEW l \in Orders, Poll(l) PROVE BasketOK'
  BY <1>2 DEF Poll
<1>3. CASE WaitTimeout \/ Finish \/ Crash
  BY <1>3 DEF WaitTimeout, Finish, Crash
<1>4. CASE HedgesConfirmed
  BY <1>4 DEF HedgesConfirmed
<1>5. ASSUME NEW l \in Orders, PersistLeg(l) PROVE BasketOK'
  BY <1>5 DEF PersistLeg, IsNext
<1>6. CASE SendLeg
  BY <1>6 DEF SendLeg, RowSend
<1>7. CASE ReplyOk
  BY <1>7 DEF ReplyOk, RowReply
<1>8. CASE Reply4xx \/ ReplyLost \/ Probe
  BY <1>8 DEF Reply4xx, ReplyLost, Probe
<1>9. CASE BrokerStep
  <2>1. UNCHANGED place
    BY <1>9 DEF BrokerStep
  <2>2. \A l \in Orders : /\ wire[l] # "out" => wire'[l] = wire[l]
    BY <1>9, BrokerMoves
  <2> QED
    BY <2>1, <2>2
<1>10. CASE UNCHANGED <<broker, place>>
  BY <1>10
<1>11. \/ StartWait \/ (\E l \in Orders : Poll(l)) \/ WaitTimeout \/ Finish \/ Crash
       \/ HedgesConfirmed \/ (\E l \in Orders : PersistLeg(l)) \/ SendLeg \/ ReplyOk
       \/ Reply4xx \/ ReplyLost \/ Probe \/ BrokerStep \/ UNCHANGED <<broker, place>>
  BY DEF Next, vars, HandlerStep, SweepStep, SweepReadBook, SweepList, SweepApply, SweepEnd,
         CancelStart, CancelEnd, CancelReply, CancelFail
<1> QED
  BY <1>1, <1>2, <1>3, <1>4, <1>5, <1>6, <1>7, <1>8, <1>9, <1>10, <1>11

(* A hedge the handler counts on stays TRADED, and a SELL leaves todo only *)
(* past the gate.                                                          *)
LEMMA HedgeStep == IInv /\ [Next]_vars => HedgeOK'
<1> SUFFICES ASSUME IInv, [Next]_vars PROVE HedgeOK'
  OBVIOUS
<1> USE HedgesAssumption DEF IInv, TypeOK, OrdersType, OrdersTyped, HedgeOK, HedgesSettled, Shorts,
           InHand,
        rows, broker, place, sweep, cancel
<1>1. CASE StartWait
  BY <1>1 DEF StartWait, IsNext, MustWait
<1>2. ASSUME NEW l \in Orders, Poll(l) PROVE HedgeOK'
  <2>1. MapBrokerStatus(book[l]) = "TRADED" => book[l] = "TRADED"
    BY <1>2, MapStatus DEF Poll, MapBrokerStatus, Terminal
  <2> QED
    BY <1>2, <2>1 DEF Poll
<1>3. CASE WaitTimeout \/ Finish \/ Crash
  BY <1>3 DEF WaitTimeout, Finish, Crash
<1>4. CASE HedgesConfirmed
  BY <1>4 DEF HedgesConfirmed
<1>5. ASSUME NEW l \in Orders, PersistLeg(l) PROVE HedgeOK'
  BY <1>5 DEF PersistLeg, IsNext, MustWait, BasketOK
<1>6. CASE SendLeg
  BY <1>6 DEF SendLeg, RowSend, BasketOK
<1>7. CASE ReplyOk
  <2>1. UNCHANGED <<broker, cur, todo, confirmed, pending>> /\ pc = "calling" /\ pc' = "next"
    BY <1>7 DEF ReplyOk
  <2>2. CASE hedgeIds' = hedgeIds
    BY <2>1, <2>2
  <2>3. CASE cur \in Hedges
    BY <1>7, <2>1, <2>3 DEF ReplyOk
  <2> QED
    BY <1>7, <2>2, <2>3 DEF ReplyOk
<1>8. CASE Reply4xx \/ ReplyLost \/ Probe
  BY <1>8 DEF Reply4xx, ReplyLost, Probe
<1>9. CASE BrokerStep
  <2>1. UNCHANGED place
    BY <1>9 DEF BrokerStep
  <2>2. \A l \in Orders : /\ wire[l] # "out" => wire'[l] = wire[l]
                          /\ book[l] = "TRADED" => book'[l] = book[l]
    BY <1>9, BrokerMoves DEF Terminal
  <2> QED
    BY <2>1, <2>2
<1>10. CASE UNCHANGED <<broker, place>>
  BY <1>10
<1>11. \/ StartWait \/ (\E l \in Orders : Poll(l)) \/ WaitTimeout \/ Finish \/ Crash
       \/ HedgesConfirmed \/ (\E l \in Orders : PersistLeg(l)) \/ SendLeg \/ ReplyOk
       \/ Reply4xx \/ ReplyLost \/ Probe \/ BrokerStep \/ UNCHANGED <<broker, place>>
  BY DEF Next, vars, HandlerStep, SweepStep, SweepReadBook, SweepList, SweepApply, SweepEnd,
         CancelStart, CancelEnd, CancelReply, CancelFail
<1> QED
  BY <1>1, <1>2, <1>3, <1>4, <1>5, <1>6, <1>7, <1>8, <1>9, <1>10, <1>11

LEMMA OrphanStep == IInv /\ [Next]_vars => NoOrphanOrder'
<1> SUFFICES ASSUME IInv, [Next]_vars PROVE NoOrphanOrder'
  OBVIOUS
<1> USE DEF IInv, TypeOK, OrdersType, OrdersTyped, NoOrphanOrder, NetworkOK, BasketOK, InHand,
        rows, broker, place, sweep, cancel
<1>1. ASSUME NEW l \in Orders, PersistLeg(l) PROVE NoOrphanOrder'
  BY <1>1 DEF PersistLeg, RowCreate, Terminal
<1>2. CASE SendLeg
  BY <1>2 DEF SendLeg, RowSend, Terminal
<1>3. CASE ReplyOk
  <2>1. MapBrokerStatus(ack[cur]) \in Terminal =>
          ack[cur] \in Terminal /\ MapBrokerStatus(ack[cur]) = ack[cur]
    BY <1>3, MapStatus DEF ReplyOk, AckStatus, BrokerStatus, BrokerWorking, BrokerFinal
  <2>2. ack[cur] \in Terminal => MapBrokerStatus(ack[cur]) = MapBrokerStatus(book[cur])
    BY <1>3 DEF ReplyOk, RowReply
  <2> QED
    BY <1>3, <2>1, <2>2 DEF ReplyOk, RowReply
<1>4. CASE Reply4xx \/ ReplyLost
  BY <1>4 DEF Reply4xx, RowRefused, ReplyLost, RowUnknown, Terminal
<1>5. CASE Probe
  BY <1>5 DEF Probe, RowAdopt
<1>6. CASE BrokerStep
  <2> SUFFICES ASSUME NEW l \in Orders, status'[l] \in Terminal
               PROVE  /\ wire'[l] # "out"
                      /\ wire'[l] = "landed" => MapBrokerStatus(book'[l]) = status'[l]
    OBVIOUS
  <2>1. UNCHANGED status
    BY <1>6 DEF BrokerStep
  <2>2. wire[l] # "out" /\ wire'[l] = wire[l]
    BY <1>6, <2>1, BrokerMoves
  <2>3. wire[l] = "landed" => book'[l] = book[l]
    BY <1>6, <2>1, BrokerMoves, MapStatus
  <2> QED
    BY <2>1, <2>2, <2>3
<1>7. ASSUME NEW l \in Orders, SweepApply(l) PROVE NoOrphanOrder'
  <2>1. CASE UNCHANGED rows
    BY <1>7, <2>1 DEF SweepApply
  <2>2. CASE Differs(l) /\ RowAdopt(l, rbook[l].st, rbook[l].filled)
    <3>1. rbook[l].st \in BrokerStatus /\ wire[l] = "landed"
      BY <2>2 DEF Differs, CopiesOK
    <3>2. MapBrokerStatus(rbook[l].st) \in Terminal => rbook[l].st = book[l]
      BY <3>1, MapStatus DEF CopiesOK
    <3> QED
      BY <1>7, <2>2, <3>1, <3>2 DEF SweepApply, RowAdopt
  <2> QED
    BY <1>7, <2>1, <2>2 DEF SweepApply
<1>8. CASE CancelEnd
  <2>1. CASE CancelFail
    BY <2>1 DEF CancelFail
  <2>2. CASE CancelReply
    <3>1. cleg \in Orders /\ wire[cleg] = "landed" /\ UNCHANGED broker
      BY <2>2 DEF CancelReply, CopiesOK
    <3>2. status'[cleg] \in Terminal => MapBrokerStatus(book[cleg]) = status'[cleg]
      BY <2>2, <3>1, MapStatus DEF CancelReply, CopiesOK, BrokerStatus, BrokerFinal, Terminal
    <3> QED
      BY <2>2, <3>1, <3>2 DEF CancelReply
  <2> QED
    BY <1>8, <2>1, <2>2 DEF CancelEnd
<1>9. CASE UNCHANGED <<status, broker>>
  BY <1>9
<1>10. \/ (\E l \in Orders : PersistLeg(l)) \/ SendLeg \/ ReplyOk \/ Reply4xx \/ ReplyLost
       \/ Probe \/ BrokerStep \/ (\E l \in Orders : SweepApply(l)) \/ CancelEnd
       \/ UNCHANGED <<status, broker>>
  BY DEF Next, vars, HandlerStep, SweepStep, StartWait, Poll, WaitTimeout, HedgesConfirmed,
         Finish, Crash, SweepReadBook, SweepList, SweepEnd, CancelStart
<1> QED
  BY <1>1, <1>2, <1>3, <1>4, <1>5, <1>6, <1>7, <1>8, <1>9, <1>10

LEMMA CopiesStep == IInv /\ [Next]_vars => CopiesOK'
<1> SUFFICES ASSUME IInv, [Next]_vars PROVE CopiesOK'
  OBVIOUS
<1> USE DEF IInv, TypeOK, OrdersType, OrdersTyped, CopiesOK, NetworkOK, rows, broker, place, sweep,
           cancel
<1>1. CASE SendLeg
  <2>1. \A l \in Orders : wire[l] = "landed" => wire'[l] = "landed"
    BY <1>1 DEF SendLeg, RowSend, BasketOK, InHand
  <2> QED
    BY <1>1, <2>1 DEF SendLeg, RowSend
<1>2. CASE BrokerStep
  <2>1. \A l \in Orders : /\ wire[l] = "landed" => wire'[l] = "landed"
                          /\ book[l] \in Terminal => book'[l] = book[l]
    BY <1>2, BrokerMoves
  <2>2. UNCHANGED <<sweep, cancel>>
    BY <1>2 DEF BrokerStep
  <2> QED
    BY <2>1, <2>2
<1>3. CASE SweepReadBook
  BY <1>3 DEF SweepReadBook
<1>4. ASSUME NEW l \in Orders, SweepApply(l) PROVE CopiesOK'
  BY <1>4 DEF SweepApply, NoBook, Terminal
<1>5. CASE SweepEnd
  BY <1>5 DEF SweepEnd, NoBook, Terminal
<1>6. ASSUME NEW l \in Orders, CancelStart(l) PROVE CopiesOK'
  BY <1>6, MapStatus DEF CancelStart, NoOrphanOrder
<1>7. CASE CancelEnd
  BY <1>7 DEF CancelEnd, CancelReply, CancelFail
<1>8. CASE UNCHANGED <<broker, rbook, cpc, cleg, cstatus>>
  BY <1>8
<1>9. \/ SendLeg \/ BrokerStep \/ SweepReadBook \/ (\E l \in Orders : SweepApply(l))
      \/ SweepEnd \/ (\E l \in Orders : CancelStart(l)) \/ CancelEnd
      \/ UNCHANGED <<broker, rbook, cpc, cleg, cstatus>>
  BY DEF Next, vars, HandlerStep, SweepStep, StartWait, Poll, WaitTimeout, HedgesConfirmed,
         PersistLeg, ReplyOk, Reply4xx, ReplyLost, Probe, Finish, Crash, SweepList
<1> QED
  BY <1>1, <1>2, <1>3, <1>4, <1>5, <1>6, <1>7, <1>8, <1>9

-----------------------------------------------------------------------------
LEMMA InvInit == Init => IInv
<1> SUFFICES ASSUME Init PROVE IInv
  OBVIOUS
<1> USE HedgesAssumption DEF Init, OrdersInit
<1>1. TypeOK
  BY TypeInit
<1>2. NetworkOK /\ BasketOK /\ NoOrphanOrder
  BY DEF NetworkOK, BasketOK, InHand, NoOrphanOrder, Terminal
<1>3. HedgeOK
  BY DEF HedgeOK, HedgesSettled, InHand, Shorts
<1>4. CopiesOK
  BY DEF CopiesOK, NoBook, Terminal
<1> QED
  BY <1>1, <1>2, <1>3, <1>4 DEF IInv

(* The invariant the four theorems below rest on.                          *)
THEOREM Inductive == Spec => []IInv
<1>1. IInv /\ [Next]_vars => IInv'
  BY TypeStep, NetworkStep, BasketStep, HedgeStep, OrphanStep, CopiesStep DEF IInv
<1> QED
  BY InvInit, <1>1, PTL DEF Spec

(* No SELL leg leaves before the hedges are settled, for any ticket.       *)
THEOREM HedgeFirst == Spec => []HedgeBeforeShort
<1>1. IInv => HedgeBeforeShort
  BY HedgesAssumption DEF IInv, BasketOK, HedgeOK, HedgesSettled, HedgeBeforeShort, Shorts
<1> QED
  BY Inductive, <1>1, PTL

(* No row is ever closed over an order that is still alive at the broker   *)
(* or that ended there differently.                                        *)
THEOREM NoOrphans == Spec => []NoOrphanOrder
<1>1. IInv => NoOrphanOrder
  BY DEF IInv
<1> QED
  BY Inductive, <1>1, PTL

(* At most one leg of a basket is ever in doubt.                           *)
THEOREM AtMostOneInDoubt == Spec => []OneLegInDoubt
<1>1. ASSUME IInv PROVE OneLegInDoubt
  <2> DEFINE Doubt == {l \in Orders : wire[l] \in {"out", "refused", "dropped"}}
  <2>1. Doubt \subseteq {cur}
    BY <1>1 DEF IInv, BasketOK
  <2>2. IsFiniteSet({cur}) /\ Cardinality({cur}) = 1
    BY FS_Singleton
  <2>3. Cardinality(Doubt) <= Cardinality({cur})
    BY <2>1, <2>2, FS_Subset
  <2> QED
    BY <2>2, <2>3 DEF OneLegInDoubt
<1> QED
  BY Inductive, <1>1, PTL
=============================================================================
