--------------------------- MODULE LiveExit_proofs ---------------------------
(***************************************************************************)
(* Proofs about LiveExit, for every structure, rule set, pool of orders    *)
(* and bound, in two layers.  Whatever happens, the values keep their      *)
(* kinds, a wing goes after the shorts (BaseInv), and a row is closed      *)
(* without a reason only by a sweep that was cut off (Reasoned).  Without  *)
(* a person's Exit, a live close is known to the table (OneCloseInv), so   *)
(* there is one of a contract.                                             *)
(***************************************************************************)
EXTENDS LiveExit, TLAPS

(* How the wire and the book go together.                                  *)
NetworkOK ==
  \A o \in Orders :
    /\ wire[o] = "landed" <=> book[o] # "ABSENT"
    /\ status[o] = "NONE" => wire[o] = "none"

(* A call in progress has a contract and a reason, and an order that is    *)
(* its own and unsent until it sends it.                                   *)
CallsOK ==
  /\ \A p \in Procs :
       /\ sq[p].pc # "off" => sq[p].sec \in Secs /\ sq[p].reason # "none"
       /\ sq[p].pc = "off" => sq[p].sec = None
       /\ sq[p].pc \in {"created", "calling", "ok", "okNoId"} =>
            sq[p].order \in Orders /\ status[sq[p].order] # "NONE"
       /\ sq[p].pc = "created" => wire[sq[p].order] = "none"
       /\ sq[p].pc \in {"ok", "okNoId"} => wire[sq[p].order] = "landed"
  /\ sq["worker"].pc = "created" /\ sq["api"].pc = "created" =>
       sq["worker"].order # sq["api"].order

(* The worker's place and what it is working through.                      *)
JobOK ==
  /\ wpc = "legs" => rule \in Rules
  /\ wpc # "legs" => shortIds = {} /\ ~shortsFlat /\ closed = 0 /\ ~failed
  /\ sq["worker"].pc # "off" =>
       \/ wpc = "stops" /\ sq["worker"].sec \in stopTodo
       \/ wpc = "legs" /\ sq["worker"].sec \in legTodo
  /\ rec["worker"].pc # "off" => wpc = "reconcile"

(* A wing's turn comes when no short is left to send, and shortsFlat is    *)
(* only raised over closes that have traded, which no step takes back.     *)
WingsLast ==
  wpc = "legs" =>
    /\ shortsFlat => /\ legTodo \cap Shorts = {}
                     /\ \A o \in shortIds : book[o] = "TRADED"
    /\ sq["worker"].sec \in Wings =>
         legTodo \cap Shorts = {} /\ (shortIds = {} \/ shortsFlat)

BaseInv == TypeOK /\ NetworkOK /\ CallsOK /\ JobOK /\ WingsLast

-----------------------------------------------------------------------------
(* The copies a sweep holds are old truths.                                *)
CopiesOK ==
  \A p \in Procs : \A o \in Orders :
    /\ rec[p].book[o].st # "ABSENT" => wire[o] = "landed"
    /\ rec[p].book[o].st \in Terminal => book[o] = rec[p].book[o].st

(* A live order has a row the duplicate guard sees; a final reply is true. *)
RowsOK ==
  \A o \in Orders :
    /\ Alive(o) => status[o] \in NonTerminal
    /\ wire[o] = "landed" /\ ack[o] \in Terminal => book[o] = ack[o]
    /\ oSec[o] = None <=> status[o] = "NONE"

(* The order the worker is placing is the contract's only open row.        *)
Alone ==
  /\ sq["api"].pc = "off"
  /\ sq["worker"].pc \in {"read", "stamp", "create"} =>
       ~InFlight(sq["worker"].sec)
  /\ sq["worker"].pc \in {"created", "calling", "ok", "okNoId"} =>
       oSec[sq["worker"].order] = sq["worker"].sec
  /\ sq["worker"].pc \in {"created", "calling"} =>
       \A m \in Orders \ {sq["worker"].order} :
         oSec[m] = sq["worker"].sec => status[m] \notin NonTerminal

OneRow ==
  \A o, m \in Orders :
    /\ status[o] \in NonTerminal /\ status[m] \in NonTerminal
    /\ oSec[o] = oSec[m]
    => o = m

OneCloseInv == BaseInv /\ CopiesOK /\ RowsOK /\ Alone /\ OneRow

-----------------------------------------------------------------------------
(* What the translation of status strings does: it is total, and a         *)
(* terminal row status only ever comes from the same broker status.        *)
LEMMA MapStatus ==
  \A b \in BrokerStatus :
    /\ MapBrokerStatus(b) \in LocalStatus
    /\ MapBrokerStatus(b) \in Terminal => MapBrokerStatus(b) = b
    /\ b \in Terminal => MapBrokerStatus(b) = b
  BY DEF MapBrokerStatus, BrokerStatus, BrokerWorking, BrokerFinal, LocalStatus,
         NonTerminal, Terminal

LEMMA AckIsStatus == AckStatus \subseteq BrokerStatus
  BY DEF AckStatus, BrokerStatus, BrokerWorking, BrokerFinal

(* The orders a new row may take, and the one it takes.                    *)
LEMMA FreshOrder == Room => Fresh \in Orders /\ status[Fresh] = "NONE"
  BY DEF Room, Fresh

(* One entry of a table of numbers moves; the name of no entry moves none. *)
LEMMA Moved ==
  ASSUME NEW f \in [Secs -> Int], NEW c, NEW x \in Int
  PROVE  [f EXCEPT ![c] = @ + x] \in [Secs -> Int]
<1>1. CASE c \in Secs
  BY <1>1
<1>2. CASE c \notin Secs
  BY <1>2
<1> QED
  BY <1>1, <1>2

LEMMA NoSweepTyped == NoSweep \in SweepState
  BY DEF NoSweep, SweepState

LEMMA CallsTyped ==
  NoCall \in CallState /\ \A c \in Secs, why \in Reasons : Call(c, why) \in CallState
<1>1. NoCall \in CallState
  BY DEF NoCall, CallState, Reasons
<1>2. ASSUME NEW c \in Secs, NEW why \in Reasons
      PROVE  [NoCall EXCEPT !.pc = "read", !.sec = c, !.reason = why] \in CallState
  BY <1>1 DEF CallState
<1> QED
  BY <1>1, <1>2 DEF Call

LEMMA BaseInit == Init => BaseInv
<1> SUFFICES ASSUME Init PROVE BaseInv
  OBVIOUS
<1> USE QtyAssumption, StructureAssumption, KindsAssumption DEF Init
<1>1. OrdersTyped(Nat)
  BY DEF OrdersInit, OrdersTyped, Wire, AckStatus
<1>2. rec \in [Procs -> SweepState]
  BY NoSweepTyped
<1>3. sq \in [Procs -> CallState]
  BY DEF NoCall, CallState, Reasons
<1>4. net \in [Secs -> Int]
  OBVIOUS
<1>5. pos \in [Secs -> PosRow]
  BY <1>4 DEF PosRow, Reasons
<1>6. TypeOK
  <2>1. event \in [Rules -> {"none", "FLAGGED", "AUTO_CLOSED", "FAILED"}]
    OBVIOUS
  <2>2. oSec \in [Orders -> Secs \cup {None}] /\ oQty \in [Orders -> Int]
    OBVIOUS
  <2>3. /\ holds = {} /\ wpc = "idle" /\ stopTodo = {} /\ legTodo = {} /\ group = {}
        /\ rule = None /\ shortIds = {} /\ shortsFlat = FALSE /\ closed = 0 /\ failed = FALSE
        /\ kinds = 0 /\ torn = {} /\ abandoned = {}
    OBVIOUS
  <2> HIDE QtyAssumption, StructureAssumption DEF Init
  <2>4. kinds \in 0..MaxKinds /\ closed \in Nat
    BY <2>3
  <2> QED
    BY <1>1, <1>2, <1>3, <1>4, <1>5, <2>1, <2>2, <2>3, <2>4 DEF TypeOK
<1>7. NetworkOK
  BY DEF NetworkOK, OrdersInit
<1>8. CallsOK
  BY DEF CallsOK, NoCall, Procs
<1>9. JobOK /\ WingsLast
  BY DEF JobOK, WingsLast, NoCall, NoSweep, Procs
<1> QED
  BY <1>6, <1>7, <1>8, <1>9 DEF BaseInv

-----------------------------------------------------------------------------
(* What the broker may do: answer a request that is out, move a working    *)
(* order, and nothing else.                                                *)
LEMMA BrokerMoves ==
  ASSUME TypeOK, NetworkOK, BrokerStep, NEW o \in Orders
  PROVE  /\ wire[o] # "out" => wire'[o] = wire[o] /\ ack'[o] = ack[o]
         /\ book[o] \in BrokerFinal => book'[o] = book[o]
         /\ wire'[o] = "landed" <=> book'[o] # "ABSENT"
         /\ wire[o] = "none" => book'[o] = book[o] /\ bookFilled'[o] = bookFilled[o]
         /\ Alive(o)' => Alive(o)
         /\ wire[o] = "out" /\ wire'[o] = "landed" => book'[o] = ack'[o]
<1> USE DEF TypeOK, OrdersTyped, NetworkOK, Alive, BrokerWorking
<1>1. PICK m \in Orders :
         \/ \E s \in Acks : BookAccept(m, s, Size(oQty[m]))
         \/ BookFill(m, Size(oQty[m]))
         \/ BookRefuse(m) \/ BookOpen(m)
         \/ \E s \in {"CANCELLED", "OTHER"} : BookEnd(m, s)
  BY DEF BrokerStep
<1>2. CASE \E s \in Acks : BookAccept(m, s, Size(oQty[m]))
  BY <1>2, AcksAssumption DEF BookAccept, AckStatus, BrokerFinal
<1>3. CASE BookFill(m, Size(oQty[m]))
  BY <1>3 DEF BookFill, BrokerFinal
<1>4. CASE BookRefuse(m)
  BY <1>4 DEF BookRefuse
<1>5. CASE BookOpen(m)
  BY <1>5 DEF BookOpen, BrokerFinal
<1>6. CASE \E s \in {"CANCELLED", "OTHER"} : BookEnd(m, s)
  BY <1>6 DEF BookEnd, BrokerFinal, BrokerWorking
<1> QED
  BY <1>1, <1>2, <1>3, <1>4, <1>5, <1>6

LEMMA BrokerTyped == BaseInv /\ BrokerStep => TypeOK'
<1> SUFFICES ASSUME BaseInv, BrokerStep PROVE TypeOK'
  OBVIOUS
<1> USE DEF BaseInv, TypeOK, OrdersTyped
<1>1. UNCHANGED <<rows, tables, holds, sq, rec, job, toll>>
  BY DEF BrokerStep
<1> DEFINE BrokerType == /\ wire \in [Orders -> Wire]
                         /\ book \in [Orders -> BrokerStatus \cup {"ABSENT"}]
                         /\ bookFilled \in [Orders -> Nat]
                         /\ ack \in [Orders -> AckStatus]
                         /\ net \in [Secs -> Int]
<1>2. \A x \in Int : Size(x) \in Nat /\ Sign(x) \in Int
  BY DEF Size, Sign
<1>3. PICK o \in Orders :
       \/ /\ \E s \in Acks :
               /\ BookAccept(o, s, Size(oQty[o]))
               /\ net' = IF s = "TRADED" THEN [net EXCEPT ![oSec[o]] = @ + oQty[o]] ELSE net
       \/ /\ BookFill(o, Size(oQty[o]))
          /\ net' = [net EXCEPT ![oSec[o]] = @ + Sign(oQty[o])]
       \/ /\ \/ BookRefuse(o) \/ BookOpen(o)
             \/ \E s \in {"CANCELLED", "OTHER"} : BookEnd(o, s)
          /\ UNCHANGED net
  BY DEF BrokerStep
<1>4. ASSUME NEW s \in Acks, BookAccept(o, s, Size(oQty[o])),
             net' = IF s = "TRADED" THEN [net EXCEPT ![oSec[o]] = @ + oQty[o]] ELSE net
      PROVE  BrokerType'
  <2>1. s \in AckStatus /\ s \in BrokerStatus
    BY AcksAssumption, AckIsStatus
  <2>2. net' \in [Secs -> Int]
    BY <1>4, Moved
  <2>3. Size(oQty[o]) \in Nat
    BY <1>2
  <2> QED
    BY <1>4, <2>1, <2>2, <2>3 DEF BookAccept, Wire
<1>5. ASSUME BookFill(o, Size(oQty[o])), net' = [net EXCEPT ![oSec[o]] = @ + Sign(oQty[o])]
      PROVE  BrokerType'
  <2>1. net' \in [Secs -> Int]
    BY <1>2, <1>5, Moved
  <2> QED
    BY <1>5, <2>1 DEF BookFill, BrokerStatus, BrokerWorking, BrokerFinal
<1>6. ASSUME \/ BookRefuse(o) \/ BookOpen(o)
             \/ \E s \in {"CANCELLED", "OTHER"} : BookEnd(o, s),
             UNCHANGED net
      PROVE  BrokerType'
  BY <1>6 DEF BookRefuse, BookOpen, BookEnd, Wire, BrokerStatus, BrokerWorking, BrokerFinal
<1>7. BrokerType'
  BY <1>3, <1>4, <1>5, <1>6
<1> QED
  BY <1>1, <1>7 DEF rows, tables, job, toll

(* The moves of a call and of a sweep keep their kinds.                    *)
CallPC == {"off", "read", "stamp", "create", "created", "calling", "ok", "okNoId", "fail"}

LEMMA CallMoves ==
  ASSUME NEW f \in [Procs -> CallState], NEW p \in Procs, NEW x \in CallPC
  PROVE  /\ [f EXCEPT ![p].pc = x] \in [Procs -> CallState]
         /\ \A q \in Int : [f EXCEPT ![p].pc = x, ![p].qty = q] \in [Procs -> CallState]
         /\ \A o \in Orders : [f EXCEPT ![p].pc = x, ![p].order = o] \in [Procs -> CallState]
  BY ZenonT(60) DEF CallState, CallPC

SweepPC == {"off", "book", "net", "orders", "positions", "stamp"}

LEMMA SweepMoves ==
  ASSUME NEW f \in [Procs -> SweepState], NEW p \in Procs, NEW x \in SweepPC
  PROVE  /\ [f EXCEPT ![p].pc = x] \in [Procs -> SweepState]
         /\ [f EXCEPT ![p] = NoSweep] \in [Procs -> SweepState]
         /\ \A b \in [Orders -> [st : BrokerStatus \cup {"ABSENT"}, filled : Nat]] :
              [f EXCEPT ![p].pc = x, ![p].book = b] \in [Procs -> SweepState]
         /\ \A n \in [Secs -> Int] : [f EXCEPT ![p].pc = x, ![p].net = n] \in [Procs -> SweepState]
<1>1. /\ [f EXCEPT ![p].pc = x] \in [Procs -> SweepState]
      /\ [f EXCEPT ![p] = NoSweep] \in [Procs -> SweepState]
  BY NoSweepTyped DEF SweepState, SweepPC
<1>2. \A b \in [Orders -> [st : BrokerStatus \cup {"ABSENT"}, filled : Nat]] :
        [f EXCEPT ![p].pc = x, ![p].book = b] \in [Procs -> SweepState]
  BY ZenonT(60) DEF SweepState, SweepPC
<1>3. \A n \in [Secs -> Int] : [f EXCEPT ![p].pc = x, ![p].net = n] \in [Procs -> SweepState]
  BY ZenonT(60) DEF SweepState, SweepPC
<1> QED
  BY <1>1, <1>2, <1>3

LEMMA SweepWrites ==
  ASSUME NEW f \in [Procs -> SweepState], NEW p \in Procs, NEW x \in SweepPC,
         NEW t \in SUBSET Secs, NEW s \in SUBSET Secs,
         NEW b \in [Orders -> [st : BrokerStatus \cup {"ABSENT"}, filled : Nat]]
  PROVE  /\ [f EXCEPT ![p].pc = x, ![p].todo = t, ![p].book = b] \in [Procs -> SweepState]
         /\ [f EXCEPT ![p].todo = t] \in [Procs -> SweepState]
         /\ [f EXCEPT ![p].pc = x, ![p].todo = t, ![p].closing = s] \in [Procs -> SweepState]
         /\ [f EXCEPT ![p].pc = x, ![p].closing = s] \in [Procs -> SweepState]
<1>1. /\ [f[p] EXCEPT !.pc = x, !.todo = t, !.book = b] \in SweepState
      /\ [f[p] EXCEPT !.todo = t] \in SweepState
      /\ [f[p] EXCEPT !.pc = x, !.todo = t, !.closing = s] \in SweepState
      /\ [f[p] EXCEPT !.pc = x, !.closing = s] \in SweepState
  BY DEF SweepState, SweepPC
<1>2. /\ [f EXCEPT ![p].pc = x, ![p].todo = t, ![p].book = b]
           = [f EXCEPT ![p] = [f[p] EXCEPT !.pc = x, !.todo = t, !.book = b]]
      /\ [f EXCEPT ![p].todo = t] = [f EXCEPT ![p] = [f[p] EXCEPT !.todo = t]]
      /\ [f EXCEPT ![p].pc = x, ![p].todo = t, ![p].closing = s]
           = [f EXCEPT ![p] = [f[p] EXCEPT !.pc = x, !.todo = t, !.closing = s]]
      /\ [f EXCEPT ![p].pc = x, ![p].closing = s]
           = [f EXCEPT ![p] = [f[p] EXCEPT !.pc = x, !.closing = s]]
  OBVIOUS
<1> QED
  BY <1>1, <1>2

LEMMA CallTyped ==
  ASSUME BaseInv, NEW p \in Procs, SqStep(p) \/ SqNoClient(p)
  PROVE  TypeOK'
<1> DEFINE Framed == UNCHANGED <<event, net, holds, rec, job, torn, abandoned>>
<1>1. /\ sq \in [Procs -> CallState] /\ sq[p] \in CallState
      /\ pos \in [Secs -> PosRow] /\ OrdersTyped(Nat)
      /\ oSec \in [Orders -> Secs \cup {None}] /\ oQty \in [Orders -> Int]
      /\ kinds \in 0..MaxKinds
  BY DEF BaseInv, TypeOK
<1>2. /\ sq[p].pc # "off" => sq[p].sec \in Secs
      /\ sq[p].qty \in Int /\ sq[p].reason \in Reasons
  BY <1>1 DEF BaseInv, CallsOK, CallState
<1>3. SUFFICES /\ Framed
               /\ sq' \in [Procs -> CallState]
               /\ pos' \in [Secs -> PosRow] /\ OrdersTyped(Nat)'
               /\ oSec' \in [Orders -> Secs \cup {None}] /\ oQty' \in [Orders -> Int]
               /\ kinds' \in 0..MaxKinds
  BY DEF BaseInv, TypeOK, job
<1>4. CASE SqRead(p)
  <2>1. pos[sq[p].sec].qty \in Int
    BY <1>1, <1>2, <1>4 DEF SqRead, PosRow
  <2>2. \/ sq' = [sq EXCEPT ![p].pc = "stamp", ![p].qty = pos[sq[p].sec].qty]
        \/ sq' = [sq EXCEPT ![p].pc = "fail"]
    BY <1>4 DEF SqRead
  <2>3. sq' \in [Procs -> CallState]
    <3>1. "stamp" \in CallPC /\ "fail" \in CallPC
      BY DEF CallPC
    <3>2. [sq EXCEPT ![p].pc = "stamp", ![p].qty = pos[sq[p].sec].qty] \in [Procs -> CallState]
      BY <1>1, <2>1, <3>1, CallMoves
    <3>3. [sq EXCEPT ![p].pc = "fail"] \in [Procs -> CallState]
      BY <1>1, <3>1, CallMoves
    <3> QED
      BY <2>2, <3>2, <3>3
  <2> QED
    BY <1>1, <1>4, <2>3 DEF SqRead, rows, broker, tables, toll, OrdersTyped
<1>5. CASE SqStamp(p)
  <2>1. pos' \in [Secs -> PosRow]
    BY <1>1, <1>2, <1>5 DEF SqStamp, PosRow
  <2>2. sq' \in [Procs -> CallState]
    BY <1>1, <1>5, CallMoves DEF SqStamp, CallPC
  <2> QED
    BY <1>1, <1>5, <2>1, <2>2 DEF SqStamp, rows, broker, toll, OrdersTyped
<1>6. CASE SqCreate(p)
  <2>1. Fresh \in Orders
    BY <1>6, FreshOrder DEF SqCreate
  <2>2. sq' \in [Procs -> CallState]
    BY <1>1, <1>6, <2>1, CallMoves DEF SqCreate, CallPC
  <2>3. oSec' \in [Orders -> Secs \cup {None}] /\ oQty' \in [Orders -> Int]
    BY <1>1, <1>2, <1>6, <2>1 DEF SqCreate
  <2>4. OrdersTyped(Nat)'
    BY <1>1, <1>6 DEF SqCreate, RowCreate, OrdersTyped, LocalStatus, NonTerminal, broker
  <2> QED
    BY <1>1, <1>6, <2>2, <2>3, <2>4 DEF SqCreate, toll
<1>7. CASE SqNoRoom(p) \/ SqNoClient(p)
  <2>1. sq' \in [Procs -> CallState]
    <3>1. sq' = [sq EXCEPT ![p].pc = "fail"]
      BY <1>7 DEF SqNoRoom, SqNoClient
    <3> QED
      BY <1>1, <3>1, CallMoves DEF CallPC
  <2>2. kinds' \in 0..MaxKinds
    BY <1>1, <1>7, KindsAssumption DEF SqNoRoom, SqNoClient, Disturb, Count, toll
  <2> QED
    BY <1>1, <1>7, <2>1, <2>2 
    DEF SqNoRoom, SqNoClient, Disturb, Count, toll, rows, broker, tables, OrdersTyped
<1>8. CASE SqSend(p)
  <2>1. sq' \in [Procs -> CallState]
    BY <1>1, <1>8, CallMoves DEF SqSend, CallPC
  <2>2. OrdersTyped(Nat)'
    BY <1>1, <1>8 DEF SqSend, RowSend, OrdersTyped, LocalStatus, NonTerminal, Wire
  <2> QED
    BY <1>1, <1>8, <2>1, <2>2 DEF SqSend, tables, toll
<1>9. CASE SqReply(p)
  <2>1. sq' \in [Procs -> CallState]
    <3>1. PICK x \in CallPC : sq' = [sq EXCEPT ![p].pc = x]
      BY <1>9 DEF SqReply, CallPC
    <3> QED
      BY <1>1, <3>1, CallMoves
  <2>2. \A o \in Orders : MapBrokerStatus(ack[o]) \in LocalStatus
    BY <1>1, MapStatus, AckIsStatus DEF OrdersTyped
  <2>3. OrdersTyped(Nat)'
    <3>1. ASSUME NEW hasId \in BOOLEAN, RowReply(sq[p].order, hasId) PROVE OrdersTyped(Nat)'
      <4>1. sq[p].order \in Orders /\ UNCHANGED broker
        BY <1>9 DEF SqReply, BaseInv, CallsOK
      <4> QED
        BY <1>1, <2>2, <3>1, <4>1 DEF RowReply, OrdersTyped, broker
    <3>2. CASE RowRefused(sq[p].order) \/ RowUnknown(sq[p].order)
      BY <1>1, <1>9, <3>2
      DEF SqReply, RowRefused, RowUnknown, OrdersTyped, LocalStatus, NonTerminal, Terminal, broker
    <3> QED
      BY <1>9, <3>1, <3>2 DEF SqReply
  <2> QED
    BY <1>1, <1>9, <2>1, <2>3 DEF SqReply, tables, toll
<1> QED
  BY <1>4, <1>5, <1>6, <1>7, <1>8, <1>9 DEF SqStep

LEMMA SweepTyped ==
  ASSUME BaseInv, NEW p \in Procs, RecStep(p) \/ RecUnreachable(p) \/ RecAbort(p)
  PROVE  TypeOK'
<1> DEFINE Framed == UNCHANGED <<broker, event, oSec, oQty, net, holds, sq, job, abandoned>>
<1>1. /\ rec \in [Procs -> SweepState] /\ rec[p] \in SweepState
      /\ pos \in [Secs -> PosRow] /\ OrdersTyped(Nat)
      /\ net \in [Secs -> Int] /\ kinds \in 0..MaxKinds /\ torn \subseteq Secs
  BY DEF BaseInv, TypeOK
<1>2. /\ \A o \in Orders : /\ rec[p].book[o].st \in BrokerStatus \cup {"ABSENT"}
                           /\ rec[p].book[o].filled \in Nat
      /\ \A c \in Secs : rec[p].net[c] \in Int
      /\ NoSweep.book \in [Orders -> [st : BrokerStatus \cup {"ABSENT"}, filled : Nat]]
      /\ rec[p].todo \subseteq Secs /\ rec[p].closing \subseteq Secs
  BY <1>1, NoSweepTyped DEF SweepState
<1>3. SUFFICES /\ Framed
               /\ rec' \in [Procs -> SweepState]
               /\ pos' \in [Secs -> PosRow] /\ OrdersTyped(Nat)'
               /\ kinds' \in 0..MaxKinds /\ torn' \subseteq Secs
  BY DEF BaseInv, TypeOK, job
<1>4. CASE RecBook(p)
  <2>1. [o \in Orders |-> [st |-> book[o], filled |-> bookFilled[o]]]
          \in [Orders -> [st : BrokerStatus \cup {"ABSENT"}, filled : Nat]]
    BY <1>1 DEF OrdersTyped
  <2>2. rec' \in [Procs -> SweepState]
    BY <1>1, <1>4, <2>1, SweepMoves DEF RecBook, SweepPC
  <2> QED
    BY <1>1, <1>4, <2>2 DEF RecBook, rows, broker, tables, toll, OrdersTyped
<1>5. CASE RecNet(p)
  <2>1. rec' \in [Procs -> SweepState]
    BY <1>1, <1>5, SweepMoves DEF RecNet, SweepPC
  <2> QED
    BY <1>1, <1>5, <2>1 DEF RecNet, rows, broker, tables, toll, OrdersTyped
<1>6. CASE RecOrders(p)
  <2>1. rec' \in [Procs -> SweepState]
    <3>1. Secs \in SUBSET Secs /\ "positions" \in SweepPC
      BY DEF SweepPC
    <3>2. rec' = [rec EXCEPT ![p].pc = "positions", ![p].todo = Secs, ![p].book = NoSweep.book]
      BY <1>6 DEF RecOrders
    <3> QED
      BY <1>1, <1>2, <3>1, <3>2, SweepWrites
  <2>2. \A o \in Orders : rec[p].book[o].st # "ABSENT" =>
                            MapBrokerStatus(rec[p].book[o].st) \in LocalStatus
    BY <1>2, MapStatus
  <2>3. OrdersTyped(Nat)'
    BY <1>1, <1>2, <1>6, <2>2 DEF RecOrders, OrdersTyped, broker
  <2> QED
    BY <1>1, <1>6, <2>1, <2>3 DEF RecOrders, tables, toll
<1>7. ASSUME NEW c \in Secs, RecRow(p, c)
      PROVE  /\ Framed /\ UNCHANGED <<rows, kinds>>
             /\ rec' \in [Procs -> SweepState] /\ pos' \in [Secs -> PosRow]
             /\ torn' \subseteq Secs
  <2>1. Framed /\ UNCHANGED <<rows, kinds>>
    BY <1>7 DEF RecRow, RecSeen, RecFlat, RecUnlisted, RecClosed, RecWrites
  <2>2. torn' \subseteq Secs
    BY <1>1, <1>7 DEF RecRow, RecSeen, RecFlat, RecUnlisted, RecClosed
  <2>3. /\ rec[p].todo \ {c} \in SUBSET Secs /\ {c} \in SUBSET Secs /\ "stamp" \in SweepPC
        /\ rec[p].net[c] \in Int
    BY <1>2 DEF SweepPC
  <2>4. rec' \in [Procs -> SweepState]
    <3>1. CASE RecFlat(p, c)
      BY <1>1, <1>2, <2>3, <3>1, SweepWrites DEF RecFlat
    <3>2. CASE RowDone(p, c)
      BY <1>1, <1>2, <2>3, <3>2, SweepWrites DEF RowDone
    <3> QED
      BY <1>7, <3>1, <3>2 DEF RecRow, RecSeen, RecUnlisted, RecClosed
  <2>5. pos' \in [Secs -> PosRow]
    <3>1. pos[c] \in PosRow
      BY <1>1
    <3>2. CASE RecSeen(p, c)
      BY <1>1, <2>3, <3>1, <3>2 DEF RecSeen, PosRow, Reasons
    <3>3. CASE RecFlat(p, c)
      <4> DEFINE shut == FALSE
      <4> DEFINE flat == 0
      <4>2. shut \in BOOLEAN /\ flat \in Int
        OBVIOUS
      <4> HIDE DEF shut, flat
      <4>3. [pos[c] EXCEPT !.open = shut, !.qty = flat] \in PosRow
        BY <3>1, <4>2 DEF PosRow
      <4>1. [pos[c] EXCEPT !.open = FALSE, !.qty = 0] \in PosRow
        BY <4>3 DEF shut, flat
      <4> QED
        BY <1>1, <3>3, <4>1 DEF RecFlat
    <3>4. CASE RecUnlisted(p, c)
      BY <1>1, <3>1, <3>4 DEF RecUnlisted, PosRow, Reasons
    <3>5. CASE RecClosed(p, c)
      BY <1>1, <3>5 DEF RecClosed
    <3> QED
      BY <1>7, <3>2, <3>3, <3>4, <3>5 DEF RecRow
  <2> QED
    BY <2>1, <2>2, <2>4, <2>5
<1>8. CASE RecStamp(p)
  <2>1. pos' \in [Secs -> PosRow]
    BY <1>1, <1>8 DEF RecStamp, PosRow, Reasons
  <2>2. rec' \in [Procs -> SweepState]
    <3> DEFINE nothing == {}
    <3>1. nothing \in SUBSET Secs /\ "positions" \in SweepPC
      BY DEF SweepPC
    <3>2. rec' = [rec EXCEPT ![p].pc = "positions", ![p].closing = nothing]
      BY <1>8 DEF RecStamp
    <3> HIDE DEF nothing
    <3>3. [rec EXCEPT ![p].pc = "positions", ![p].closing = nothing] \in [Procs -> SweepState]
      BY <1>1, <1>2, <3>1, SweepWrites
    <3> QED
      BY <3>2, <3>3
  <2> QED
    BY <1>1, <1>8, <2>1, <2>2 DEF RecStamp, rows, broker, toll, OrdersTyped
<1>9. CASE RecUnreachable(p) \/ RecAbort(p) \/ RecDone(p)
  <2>1. rec' \in [Procs -> SweepState]
    BY <1>1, <1>9, NoSweepTyped DEF RecUnreachable, RecAbort, RecDone
  <2>2. kinds' \in 0..MaxKinds /\ torn' \subseteq Secs /\ UNCHANGED abandoned
    BY <1>1, <1>2, <1>9, KindsAssumption
    DEF RecUnreachable, RecAbort, RecDone, Disturb, Count, toll
  <2> QED
    BY <1>1, <1>9, <2>1, <2>2
    DEF RecUnreachable, RecAbort, RecDone, rows, broker, tables, OrdersTyped
<1>10. CASE \E c \in Secs : RecRow(p, c)
  BY <1>1, <1>7, <1>10 DEF rows, broker, OrdersTyped
<1> QED
  BY <1>4, <1>5, <1>6, <1>8, <1>9, <1>10 DEF RecStep

(* The rest of Next: what the job decides between its calls and sweeps,    *)
(* and what reaches the rows from outside it.                              *)
JobStep ==
  \/ JobStart \/ StopsStart \/ StopDone \/ StopsEnd
  \/ \E c \in Secs : StopSkip(c) \/ StopFire(c)
  \/ EnginePass \/ \E r \in Rules : EngineFlag(r) \/ EngineFire(r)
  \/ EngineNoClient
  \/ \E c \in Secs : WaitFilled(c) \/ WaitGivesUp(c) \/ LegSkip(c) \/ LegClose(c)
  \/ LegDone \/ EngineEnd \/ WorkerCrash

OutsideStep ==
  \/ ManualDone \/ ManualReconcile
  \/ \E c \in Secs : External(c) \/ ManualExit(c) \/ SetStop(c)
  \/ \E x \in Secs \cup Rules : MarkMoves(x)

LEMMA Steps ==
  ASSUME [Next]_vars
  PROVE  \/ \E p \in Procs : SqStep(p) \/ SqNoClient(p)
         \/ \E p \in Procs : RecStep(p) \/ RecUnreachable(p) \/ RecAbort(p)
         \/ BrokerStep \/ JobStep \/ OutsideStep \/ UNCHANGED vars
  BY DEF Next, WorkerStep, ApiStep, Disturbance, JobStep, OutsideStep, Procs

LEMMA JobTyped == BaseInv /\ JobStep => TypeOK'
<1> SUFFICES ASSUME BaseInv, JobStep PROVE TypeOK'
  OBVIOUS
<1>1. /\ sq \in [Procs -> CallState] /\ rec \in [Procs -> SweepState]
      /\ pos \in [Secs -> PosRow]
      /\ event \in [Rules -> {"none", "FLAGGED", "AUTO_CLOSED", "FAILED"}]
      /\ OrdersTyped(Nat)
  BY DEF BaseInv, TypeOK
<1>2. /\ stopTodo \subseteq Secs /\ legTodo \subseteq Secs /\ group \subseteq Secs
      /\ rule \in Rules \cup {None} /\ shortIds \subseteq Orders
      /\ shortsFlat \in BOOLEAN /\ closed \in Nat /\ failed \in BOOLEAN
      /\ wpc \in {"idle", "reconcile", "stops", "engine", "legs"} /\ kinds \in 0..MaxKinds
      /\ torn \subseteq Secs /\ abandoned \subseteq Rules
  BY DEF BaseInv, TypeOK
<1> DEFINE Placed == /\ wpc \in {"idle", "reconcile", "stops", "engine", "legs"}
                     /\ stopTodo \subseteq Secs /\ legTodo \subseteq Secs /\ group \subseteq Secs
                     /\ rule \in Rules \cup {None} /\ shortIds \subseteq Orders
                     /\ shortsFlat \in BOOLEAN /\ closed \in Nat /\ failed \in BOOLEAN
                     /\ kinds \in 0..MaxKinds /\ torn \subseteq Secs /\ abandoned \subseteq Rules
<1> DEFINE Kept == /\ UNCHANGED <<rows, broker, oSec, oQty, net, holds>>
                   /\ sq' \in [Procs -> CallState] /\ rec' \in [Procs -> SweepState]
                   /\ pos' \in [Secs -> PosRow]
                   /\ event' \in [Rules -> {"none", "FLAGGED", "AUTO_CLOSED", "FAILED"}]
                   /\ Placed'
<1>3. SUFFICES Kept
  BY DEF BaseInv, TypeOK, OrdersTyped, rows, broker
<1>4. NoCall \in CallState /\ \A c \in Secs, why \in Reasons : Call(c, why) \in CallState
  BY CallsTyped
<1>5. Count("noClient") \/ Count("crash") => kinds' \in 0..MaxKinds
  BY <1>2, KindsAssumption DEF Count
<1>6. CASE JobStart
  <2>1. "book" \in SweepPC /\ "worker" \in Procs
    BY DEF SweepPC, Procs
  <2>2. rec' \in [Procs -> SweepState]
    BY <1>1, <1>6, <2>1, SweepMoves DEF JobStart
  <2> QED
    BY <1>1, <1>2, <1>6, <2>2 DEF JobStart, tables, toll
<1>7. CASE \/ StopsStart \/ StopsEnd \/ EnginePass \/ \E c \in Secs : StopSkip(c)
           \/ \E c \in Secs : WaitFilled(c) \/ WaitGivesUp(c) \/ LegSkip(c)
  BY <1>1, <1>2, <1>7
  DEF StopsStart, StopsEnd, EnginePass, StopSkip, WaitFilled, WaitGivesUp, LegSkip, tables,
      toll
<1>8. ASSUME NEW c \in Secs, StopFire(c) \/ LegClose(c) PROVE Kept
  <2>1. PICK why \in Reasons : sq' = [sq EXCEPT !["worker"] = Call(c, why)]
    BY <1>8, <1>2 DEF StopFire, LegClose, AtLeg, Reasons, BaseInv, JobOK
  <2>2. Call(c, why) \in CallState
    BY <1>4
  <2>3. sq' \in [Procs -> CallState]
    BY <1>1, <2>1, <2>2
  <2>4. UNCHANGED <<job, rows, broker, tables, net, holds, rec, toll>>
    BY <1>8 DEF StopFire, LegClose
  <2> QED
    BY <1>1, <1>2, <2>3, <2>4 DEF job, tables, toll
<1>9. CASE StopDone
  <2>1. sq' \in [Procs -> CallState]
    BY <1>1, <1>4, <1>9 DEF StopDone
  <2>2. pos' \in [Secs -> PosRow]
    BY <1>1, <1>9, ZenonT(60) DEF StopDone, PosRow
  <2>3. Placed'
    BY <1>2, <1>9 DEF StopDone, toll
  <2> QED
    BY <1>1, <1>9, <2>1, <2>2, <2>3 DEF StopDone
<1>10. ASSUME NEW r \in Rules, EngineFlag(r) \/ EngineFire(r) PROVE Kept
  <2>1. OpenLegs \subseteq Secs
    BY DEF OpenLegs
  <2>2. event' \in [Rules -> {"none", "FLAGGED", "AUTO_CLOSED", "FAILED"}]
    BY <1>1, <1>10 DEF EngineFlag, EngineFire
  <2>3. Placed'
    BY <1>2, <1>10, <2>1 DEF EngineFlag, EngineFire, toll
  <2> QED
    BY <1>1, <1>10, <2>2, <2>3 DEF EngineFlag, EngineFire
<1>11. CASE LegDone
  <2>1. sq' \in [Procs -> CallState]
    BY <1>1, <1>4, <1>11 DEF LegDone
  <2>2. sq["worker"].pc \in {"ok", "okNoId"} => sq["worker"].order \in Orders
    BY DEF BaseInv, CallsOK, Procs
  <2>3. shortIds' \subseteq Orders
    BY <1>2, <1>11, <2>2 DEF LegDone
  <2>4. closed' \in Nat /\ failed' \in BOOLEAN
    BY <1>2, <1>11 DEF LegDone
  <2>5. Placed'
    BY <1>2, <1>11, <2>3, <2>4 DEF LegDone, toll
  <2> QED
    BY <1>1, <1>11, <2>1, <2>5 DEF LegDone, tables
<1>12. CASE EngineEnd
  BY <1>1, <1>2, <1>12 DEF EngineEnd, RuleOver, toll
<1>13. CASE EngineNoClient
  <2>1. Placed'
    <3>1. rule \in Rules
      BY <1>13 DEF EngineNoClient, BaseInv, JobOK
    <3> QED
      BY <1>2, <1>5, <1>13, <3>1 DEF EngineNoClient, RuleOver
  <2> QED
    BY <1>1, <1>13, <2>1 DEF EngineNoClient, tables
<1>14. CASE WorkerCrash
  <2>1. sq' \in [Procs -> CallState] /\ rec' \in [Procs -> SweepState]
    BY <1>1, <1>4, <1>14, NoSweepTyped DEF WorkerCrash
  <2>2. Placed'
    <3>1. /\ wpc = "legs" => rule \in Rules
          /\ rec["worker"].closing \subseteq Secs
      BY <1>1 DEF BaseInv, JobOK, SweepState, Procs
    <3> QED
      BY <1>2, <1>5, <1>14, <3>1 DEF WorkerCrash, RuleOver
  <2> QED
    BY <1>1, <1>14, <2>1, <2>2 DEF WorkerCrash, tables
<1> HIDE DEF Kept
<1> QED
  BY <1>6, <1>7, <1>8, <1>9, <1>10, <1>11, <1>12, <1>13, <1>14 DEF JobStep

LEMMA OutsideTyped == BaseInv /\ OutsideStep => TypeOK'
<1> SUFFICES ASSUME BaseInv, OutsideStep PROVE TypeOK'
  OBVIOUS
<1>1. /\ sq \in [Procs -> CallState] /\ rec \in [Procs -> SweepState]
      /\ pos \in [Secs -> PosRow] /\ net \in [Secs -> Int]
      /\ holds \subseteq Secs \cup Rules /\ kinds \in 0..MaxKinds
  BY DEF BaseInv, TypeOK
<1>2. SUFFICES /\ UNCHANGED <<rows, broker, event, oSec, oQty, job, torn, abandoned>>
               /\ sq' \in [Procs -> CallState] /\ rec' \in [Procs -> SweepState]
               /\ pos' \in [Secs -> PosRow] /\ net' \in [Secs -> Int]
               /\ holds' \subseteq Secs \cup Rules /\ kinds' \in 0..MaxKinds
  BY DEF BaseInv, TypeOK, OrdersTyped, rows, broker, job
<1> USE KindsAssumption DEF Disturb, Count, toll
<1>3. CASE ManualDone \/ \E c \in Secs : ManualExit(c)
  <2>1. NoCall \in CallState /\ \A c \in Secs : Call(c, "MANUAL") \in CallState
    BY CallsTyped DEF Reasons
  <2>2. sq' \in [Procs -> CallState]
    BY <1>1, <1>3, <2>1 DEF ManualDone, ManualExit
  <2>3. kinds' \in 0..MaxKinds
    BY <1>1, <1>3 DEF ManualDone, ManualExit
  <2> QED
    BY <1>1, <1>3, <2>2, <2>3 DEF ManualDone, ManualExit, tables
<1>4. CASE ManualReconcile
  <2>1. "book" \in SweepPC /\ "api" \in Procs
    BY DEF SweepPC, Procs
  <2>2. rec' \in [Procs -> SweepState]
    BY <1>1, <1>4, <2>1, SweepMoves DEF ManualReconcile
  <2> QED
    BY <1>1, <1>4, <2>2 DEF ManualReconcile, tables
<1>5. ASSUME NEW c \in Secs, External(c)
      PROVE  /\ UNCHANGED <<rows, broker, tables, holds, sq, rec, job, torn, abandoned>>
             /\ net' \in [Secs -> Int] /\ kinds' \in 0..MaxKinds
  BY <1>1, <1>5 DEF External
<1>6. ASSUME NEW c \in Secs, SetStop(c)
      PROVE  /\ UNCHANGED <<event, oSec, oQty, rows, broker, net, sq, rec, job, torn, abandoned>>
             /\ pos' \in [Secs -> PosRow] /\ holds' \subseteq Secs \cup Rules
             /\ kinds' \in 0..MaxKinds
  BY <1>1, <1>6 DEF SetStop, PosRow
<1>7. CASE \E x \in Secs \cup Rules : MarkMoves(x)
  BY <1>1, <1>7 DEF MarkMoves, tables
<1>8. CASE \E c \in Secs : External(c) \/ SetStop(c)
  BY <1>1, <1>5, <1>6, <1>8 DEF tables
<1> QED
  BY <1>3, <1>4, <1>7, <1>8 DEF OutsideStep

LEMMA TypeStep == BaseInv /\ [Next]_vars => TypeOK'
<1>1. BaseInv /\ UNCHANGED vars => TypeOK'
  BY DEF BaseInv, TypeOK, OrdersTyped, vars, rows, broker, tables, job, toll
<1> QED
  BY <1>1, Steps, CallTyped, SweepTyped, BrokerTyped, JobTyped, OutsideTyped

-----------------------------------------------------------------------------
(* A reply or a sweep writes a status over a row, never out of existence.  *)
LEMMA RowsStay ==
  ASSUME BaseInv, NEW p \in Procs, SqReply(p) \/ RecOrders(p), NEW o \in Orders
  PROVE  /\ status'[o] = "NONE" => status[o] = "NONE"
         /\ status[o] = "NONE" => status'[o] = "NONE"
<1>1. OrdersTyped(Nat) /\ CallsOK /\ rec \in [Procs -> SweepState]
  BY DEF BaseInv, TypeOK
<1>2. MapBrokerStatus(ack[o]) # "NONE"
  BY <1>1, MapStatus, AckIsStatus DEF OrdersTyped, LocalStatus, NonTerminal, Terminal
<1>3. CASE SqReply(p)
  <2>1. sq[p].order \in Orders /\ status[sq[p].order] # "NONE"
    BY <1>1, <1>3 DEF SqReply, CallsOK
  <2>2. PICK s : status' = [status EXCEPT ![sq[p].order] = s] /\ (sq[p].order = o => s # "NONE")
    BY <1>2, <1>3 DEF SqReply, RowReply, RowRefused, RowUnknown
  <2> QED
    BY <1>1, <2>1, <2>2 DEF OrdersTyped
<1>4. CASE RecOrders(p)
  <2>1. rec[p].book[o].st \in BrokerStatus \cup {"ABSENT"}
    BY <1>1 DEF SweepState
  <2>2. rec[p].book[o].st # "ABSENT" => MapBrokerStatus(rec[p].book[o].st) # "NONE"
    BY <2>1, MapStatus DEF LocalStatus, NonTerminal, Terminal
  <2> QED
    BY <1>4, <2>2 DEF RecOrders, NonTerminal
<1> QED
  BY <1>3, <1>4

(* A request leaves only from its own unsent order, so what has landed has *)
(* a book entry and what has none has not.                                 *)
LEMMA NetworkStep == BaseInv /\ [Next]_vars => NetworkOK'
<1> SUFFICES ASSUME BaseInv, [Next]_vars PROVE NetworkOK'
  OBVIOUS
<1>1. OrdersTyped(Nat) /\ NetworkOK /\ CallsOK
  BY DEF BaseInv, TypeOK
<1>2. CASE \E p \in Procs : SqCreate(p)
  BY <1>1, <1>2, FreshOrder DEF SqCreate, RowCreate, NetworkOK, OrdersTyped, broker
<1>3. CASE \E p \in Procs : SqSend(p)
  BY <1>1, <1>3 DEF SqSend, RowSend, NetworkOK, CallsOK, OrdersTyped
<1>4. CASE \E p \in Procs : SqReply(p) \/ RecOrders(p)
  <2>1. UNCHANGED broker /\ \A o \in Orders : status'[o] = "NONE" => status[o] = "NONE"
    BY <1>4, RowsStay DEF SqReply, RecOrders
  <2> QED
    BY <1>1, <2>1 DEF NetworkOK, broker
<1>6. CASE BrokerStep
  <2>1. UNCHANGED status
    BY <1>6 DEF BrokerStep, rows
  <2>2. \A o \in Orders : /\ wire[o] # "out" => wire'[o] = wire[o]
                          /\ wire'[o] = "landed" <=> book'[o] # "ABSENT"
    BY <1>6, BrokerMoves DEF BaseInv
  <2> QED
    BY <1>1, <2>1, <2>2 DEF NetworkOK
<1>7. CASE UNCHANGED <<status, broker>>
  BY <1>1, <1>7 DEF NetworkOK, broker
<1>5. ASSUME NEW p \in Procs, NEW c \in Secs, RecRow(p, c) PROVE UNCHANGED <<status, broker>>
  BY <1>5 DEF RecRow, RecSeen, RecFlat, RecUnlisted, RecClosed, RecWrites, rows
<1>8. ASSUME NEW p \in Procs,
             \/ SqRead(p) \/ SqStamp(p) \/ SqNoRoom(p) \/ SqNoClient(p) \/ RecBook(p)
             \/ RecNet(p) \/ RecStamp(p) \/ RecDone(p) \/ RecUnreachable(p) \/ RecAbort(p)
      PROVE  UNCHANGED <<status, broker>>
  BY <1>8 DEF SqRead, SqStamp, SqNoRoom, SqNoClient, RecBook, RecNet, RecStamp, RecDone,
              RecUnreachable, RecAbort, rows
<1>9. JobStep \/ OutsideStep \/ UNCHANGED vars => UNCHANGED <<status, broker>>
  BY DEF JobStep, OutsideStep, vars, JobStart, StopsStart, StopDone, StopsEnd, StopSkip, StopFire,
         EnginePass, EngineFlag, EngineFire, EngineNoClient, WaitFilled, WaitGivesUp, LegSkip,
         LegClose, LegDone, EngineEnd, WorkerCrash, ManualDone, ManualReconcile, External,
         ManualExit, SetStop, MarkMoves, rows, broker
<1> QED
  BY Steps, <1>2, <1>3, <1>4, <1>5, <1>6, <1>7, <1>8, <1>9 DEF SqStep, RecStep

(* What a step of one call does to the calls: its own moves, the other's   *)
(* order stays as it was.                                                  *)
LEMMA CallStep ==
  ASSUME BaseInv, NEW p \in Procs, SqStep(p) \/ SqNoClient(p)
  PROVE  CallsOK'
<1>1. /\ sq \in [Procs -> CallState] /\ OrdersTyped(Nat) /\ NetworkOK /\ CallsOK
  BY DEF BaseInv, TypeOK
<1>2. CASE SqRead(p)
  <2>1. /\ \A q \in Procs \ {p} : sq'[q] = sq[q]
        /\ sq'[p].pc \in {"stamp", "fail"}
        /\ sq'[p].sec = sq[p].sec /\ sq'[p].reason = sq[p].reason
    BY <1>1, <1>2 DEF SqRead, CallState
  <2>2. sq[p].pc = "read" /\ UNCHANGED <<status, wire>>
    BY <1>2 DEF SqRead, rows, broker
  <2> QED
    BY <1>1, <2>1, <2>2 DEF CallsOK, Procs
<1>3. CASE SqStamp(p) \/ SqNoRoom(p) \/ SqNoClient(p)
  <2>1. /\ \A q \in Procs \ {p} : sq'[q] = sq[q]
        /\ sq'[p].pc \in {"create", "fail"}
        /\ sq'[p].sec = sq[p].sec /\ sq'[p].reason = sq[p].reason
    BY <1>1, <1>3 DEF SqStamp, SqNoRoom, SqNoClient, CallState
  <2>2. sq[p].pc # "off" /\ UNCHANGED <<status, wire>>
    BY <1>3 DEF SqStamp, SqNoRoom, SqNoClient, rows, broker
  <2> QED
    BY <1>1, <2>1, <2>2 DEF CallsOK, Procs
<1>4. CASE SqCreate(p)
  <2>1. /\ \A q \in Procs \ {p} : sq'[q] = sq[q]
        /\ sq'[p].pc = "created" /\ sq'[p].sec = sq[p].sec /\ sq'[p].reason = sq[p].reason
        /\ sq'[p].order = Fresh
    BY <1>1, <1>4 DEF SqCreate, CallState
  <2>2. /\ sq[p].pc # "off" /\ UNCHANGED wire
        /\ status' = [status EXCEPT ![Fresh] = "LOCAL_PENDING"]
        /\ Fresh \in Orders /\ status[Fresh] = "NONE" /\ wire[Fresh] = "none"
    BY <1>1, <1>4, FreshOrder DEF SqCreate, RowCreate, broker, NetworkOK
  <2>3. \A o \in Orders : (o = Fresh \/ status[o] # "NONE") => status'[o] # "NONE"
    BY <1>1, <2>2 DEF OrdersTyped
  <2> QED
    BY <1>1, <2>1, <2>2, <2>3 DEF CallsOK, Procs
<1>5. CASE SqSend(p)
  <2>1. /\ \A q \in Procs \ {p} : sq'[q] = sq[q]
        /\ sq'[p].pc = "calling" /\ sq'[p].sec = sq[p].sec /\ sq'[p].reason = sq[p].reason
        /\ sq'[p].order = sq[p].order
    BY <1>1, <1>5 DEF SqSend, CallState
  <2>2. /\ sq[p].pc = "created" /\ sq[p].order \in Orders /\ wire[sq[p].order] = "none"
    BY <1>1, <1>5 DEF SqSend, CallsOK
  <2>3. /\ \A o \in Orders : status[o] # "NONE" => status'[o] # "NONE"
        /\ \A o \in Orders : o # sq[p].order => wire'[o] = wire[o]
    BY <1>1, <1>5, <2>2 DEF SqSend, RowSend, OrdersTyped
  <2> QED
    BY <1>1, <2>1, <2>2, <2>3 DEF CallsOK, Procs
<1>6. CASE SqReply(p)
  <2>1. /\ \A q \in Procs \ {p} : sq'[q] = sq[q]
        /\ sq'[p].pc \in {"ok", "okNoId", "fail"}
        /\ sq'[p].sec = sq[p].sec /\ sq'[p].reason = sq[p].reason /\ sq'[p].order = sq[p].order
        /\ sq'[p].pc \in {"ok", "okNoId"} => wire[sq[p].order] = "landed"
    BY <1>1, <1>6 DEF SqReply, RowReply, CallState
  <2>2. /\ sq[p].pc = "calling" /\ UNCHANGED wire
        /\ \A o \in Orders : status[o] # "NONE" => status'[o] # "NONE"
    BY <1>6, RowsStay DEF SqReply, broker
  <2> QED
    BY <1>1, <2>1, <2>2 DEF CallsOK, Procs
<1> QED
  BY <1>2, <1>3, <1>4, <1>5, <1>6 DEF SqStep

(* A call's step touches nothing of the job, nor whom the call is about.   *)
LEMMA CallFrame ==
  ASSUME sq \in [Procs -> CallState], NEW p \in Procs, SqStep(p) \/ SqNoClient(p)
  PROVE  /\ UNCHANGED <<event, net, holds, rec, job, book, bookFilled, ack>>
         /\ \A q \in Procs \ {p} : sq'[q] = sq[q]
         /\ sq[p].pc # "off" /\ sq'[p].pc # "off"
         /\ sq'[p].sec = sq[p].sec /\ sq'[p].reason = sq[p].reason
<1>1. CASE SqRead(p)
  <2>1. \/ sq' = [sq EXCEPT ![p].pc = "stamp", ![p].qty = pos[sq[p].sec].qty]
        \/ sq' = [sq EXCEPT ![p].pc = "fail"]
    BY <1>1 DEF SqRead
  <2>2. UNCHANGED <<tables, net, holds, rec, job, broker>> /\ sq[p].pc = "read"
    BY <1>1 DEF SqRead
  <2> QED
    BY <2>1, <2>2 DEF CallState, tables, broker
<1>2. CASE SqStamp(p) \/ SqCreate(p) \/ SqNoRoom(p) \/ SqNoClient(p) \/ SqSend(p)
  BY <1>2 DEF SqStamp, SqCreate, SqNoRoom, SqNoClient, SqSend, RowSend, CallState, tables, broker
<1>3. CASE SqReply(p)
  <2>1. PICK x \in {"ok", "okNoId", "fail"} : sq' = [sq EXCEPT ![p].pc = x]
    BY <1>3 DEF SqReply
  <2>2. UNCHANGED <<tables, net, holds, rec, job, broker>> /\ sq[p].pc = "calling"
    BY <1>3 DEF SqReply
  <2> QED
    BY <2>1, <2>2 DEF CallState, tables, broker
<1> QED
  BY <1>1, <1>2, <1>3 DEF SqStep

LEMMA CallsKept ==
  ASSUME CallsOK, UNCHANGED sq,
         \A o \in Orders : /\ status[o] # "NONE" => status'[o] # "NONE"
                           /\ wire[o] \in {"none", "landed"} => wire'[o] = wire[o]
  PROVE  CallsOK'
<1>1. ASSUME NEW p \in Procs
      PROVE  /\ sq[p].pc \in {"created", "calling", "ok", "okNoId"} =>
                  sq[p].order \in Orders /\ status'[sq[p].order] # "NONE"
             /\ sq[p].pc = "created" => wire'[sq[p].order] = "none"
             /\ sq[p].pc \in {"ok", "okNoId"} => wire'[sq[p].order] = "landed"
  <2>1. CASE sq[p].pc \in {"created", "calling", "ok", "okNoId"}
    <3>1. /\ sq[p].order \in Orders /\ status[sq[p].order] # "NONE"
          /\ sq[p].pc = "created" => wire[sq[p].order] = "none"
          /\ sq[p].pc \in {"ok", "okNoId"} => wire[sq[p].order] = "landed"
      BY <2>1 DEF CallsOK
    <3> QED
      BY <2>1, <3>1
  <2> QED
    BY <2>1
<1> QED
  BY <1>1 DEF CallsOK

LEMMA CallsStep == BaseInv /\ [Next]_vars => CallsOK'
<1> SUFFICES ASSUME BaseInv, [Next]_vars PROVE CallsOK'
  OBVIOUS
<1>1. sq \in [Procs -> CallState] /\ CallsOK /\ JobOK /\ None \notin Secs
  BY StructureAssumption DEF BaseInv, TypeOK
<1>2. ASSUME NEW p \in Procs, RecStep(p) \/ RecUnreachable(p) \/ RecAbort(p) PROVE CallsOK'
  <2>1. UNCHANGED <<sq, wire>>
    BY <1>2 DEF RecStep, RecUnreachable, RecAbort, RecBook, RecNet, RecOrders, RecRow, RecSeen,
                RecFlat, RecUnlisted, RecClosed, RecWrites, RecStamp, RecDone, broker
  <2>2. \A o \in Orders : status[o] # "NONE" => status'[o] # "NONE"
    BY <1>2, RowsStay
    DEF RecStep, RecUnreachable, RecAbort, RecBook, RecNet, RecRow, RecSeen, RecFlat,
        RecUnlisted, RecClosed, RecWrites, RecStamp, RecDone, rows
  <2> QED
    BY <1>1, <2>1, <2>2, CallsKept
<1>3. CASE BrokerStep
  <2>1. UNCHANGED <<sq, status>>
    BY <1>3 DEF BrokerStep, rows
  <2>2. \A o \in Orders : wire[o] \in {"none", "landed"} => wire'[o] = wire[o]
    BY <1>3, BrokerMoves DEF BaseInv
  <2> QED
    BY <1>1, <2>1, <2>2, CallsKept
<1>4. CASE JobStep \/ OutsideStep \/ UNCHANGED vars
  <2>1. UNCHANGED <<status, wire>>
    BY <1>4 DEF JobStep, OutsideStep, vars, JobStart, StopsStart, StopDone, StopsEnd, StopSkip,
         StopFire, EnginePass, EngineFlag, EngineFire, EngineNoClient, WaitFilled, WaitGivesUp,
         LegSkip, LegClose, LegDone, EngineEnd, WorkerCrash, ManualDone, ManualReconcile,
         External, ManualExit, SetStop, MarkMoves, rows, broker
  <2>2. CASE UNCHANGED sq
    BY <1>1, <2>1, <2>2, CallsKept
  <2>3. CASE \E p \in Procs : sq' = [sq EXCEPT ![p] = NoCall]
    BY <1>1, <2>1, <2>3 DEF CallsOK, Procs, NoCall
  <2>4. CASE \E p \in Procs, c \in Secs, why \in Reasons \ {"none"} :
               sq' = [sq EXCEPT ![p] = Call(c, why)]
    <3>1. PICK p \in Procs, c \in Secs, why \in Reasons \ {"none"} :
            sq' = [sq EXCEPT ![p] = Call(c, why)]
      BY <2>4
    <3>2. /\ Call(c, why).pc = "read" /\ Call(c, why).sec = c /\ Call(c, why).reason = why
      BY DEF Call, NoCall
    <3>3. sq'[p] = Call(c, why) /\ \A q \in Procs \ {p} : sq'[q] = sq[q]
      BY <1>1, <3>1
    <3> QED
      BY <1>1, <2>1, <3>2, <3>3 DEF CallsOK, Procs
  <2>5. rule \in Rules => rule \in Reasons \ {"none"}
    BY StructureAssumption DEF Reasons
  <2>6. "worker" \in Procs /\ "api" \in Procs /\ {"STOP", "MANUAL"} \subseteq Reasons \ {"none"}
    BY DEF Procs, Reasons
  <2>7. JobStep =>
         \/ UNCHANGED sq \/ sq' = [sq EXCEPT !["worker"] = NoCall]
         \/ \E c \in Secs : \/ sq' = [sq EXCEPT !["worker"] = Call(c, "STOP")]
                            \/ wpc = "legs" /\ sq' = [sq EXCEPT !["worker"] = Call(c, rule)]
    BY DEF JobStep, JobStart, StopsStart, StopDone, StopsEnd, StopSkip, AtLeg,
         StopFire, EnginePass, EngineFlag, EngineFire, EngineNoClient, WaitFilled, WaitGivesUp,
         LegSkip, LegClose, LegDone, EngineEnd, WorkerCrash
  <2>8. OutsideStep =>
         \/ UNCHANGED sq \/ sq' = [sq EXCEPT !["api"] = NoCall]
         \/ \E c \in Secs : sq' = [sq EXCEPT !["api"] = Call(c, "MANUAL")]
    BY DEF OutsideStep, ManualDone, ManualReconcile, External, ManualExit, SetStop, MarkMoves
  <2>9. UNCHANGED vars => UNCHANGED sq
    BY DEF vars
  <2> QED
    BY <1>1, <1>4, <2>2, <2>3, <2>4, <2>5, <2>6, <2>7, <2>8, <2>9 DEF JobOK
<1> QED
  BY Steps, CallStep, <1>2, <1>3, <1>4

(* The worker's calls and sweeps happen where the job has a place for them.*)
LEMMA JobStays == BaseInv /\ [Next]_vars => JobOK'
<1> SUFFICES ASSUME BaseInv, [Next]_vars PROVE JobOK'
  OBVIOUS
<1>1. /\ sq \in [Procs -> CallState] /\ rec \in [Procs -> SweepState] /\ JobOK /\ CallsOK
      /\ "worker" \in Procs
  BY DEF BaseInv, TypeOK, Procs
<1>2. ASSUME NEW p \in Procs, SqStep(p) \/ SqNoClient(p) PROVE JobOK'
  <2>1. /\ UNCHANGED <<rec, job>> /\ sq[p].pc # "off"
        /\ \A q \in Procs \ {p} : sq'[q] = sq[q]
        /\ sq'[p].sec = sq[p].sec
    BY <1>1, <1>2, CallFrame
  <2> QED
    BY <1>1, <2>1 DEF JobOK, job
<1>3. ASSUME NEW p \in Procs, RecStep(p) \/ RecUnreachable(p) \/ RecAbort(p) PROVE JobOK'
  <2>1. /\ UNCHANGED <<sq, job>> /\ rec[p].pc # "off"
        /\ \A q \in Procs \ {p} : rec'[q] = rec[q]
    BY <1>1, <1>3 DEF RecStep, RecUnreachable, RecAbort, RecBook, RecNet, RecOrders, RecRow,
                      Row, RowDone, RecSeen, RecFlat, RecUnlisted, RecClosed, RecWrites, RecStamp,
                      RecDone
  <2> QED
    BY <1>1, <2>1 DEF JobOK, job
<1>4. CASE BrokerStep \/ UNCHANGED vars
  BY <1>1, <1>4 DEF BrokerStep, vars, JobOK, job
<1>5. CASE OutsideStep
  <2>1. /\ UNCHANGED job /\ sq'["worker"] = sq["worker"] /\ rec'["worker"] = rec["worker"]
    BY <1>1, <1>5 DEF OutsideStep, ManualDone, ManualReconcile, External, ManualExit, SetStop,
                      MarkMoves
  <2> QED
    BY <1>1, <2>1 DEF JobOK, job
<1>6. CASE JobStep
  <2>1. CASE JobStart
    BY <1>1, <2>1 DEF JobStart, JobOK
  <2>2. CASE StopsStart \/ EnginePass \/ StopsEnd
    BY <1>1, <2>2 DEF StopsStart, EnginePass, StopsEnd, JobOK
  <2>3. ASSUME NEW c \in Secs, StopSkip(c) \/ WaitFilled(c) \/ WaitGivesUp(c) \/ LegSkip(c)
        PROVE  JobOK'
    BY <1>1, <2>3 DEF StopSkip, WaitFilled, WaitGivesUp, LegSkip, AtLeg, JobOK
  <2>4. ASSUME NEW c \in Secs, StopFire(c) \/ LegClose(c) PROVE JobOK'
    <3>1. /\ UNCHANGED <<job, rec>> /\ sq'["worker"].sec = c
      BY <1>1, <2>4 DEF StopFire, LegClose, Call, NoCall
    <3>2. \/ wpc = "stops" /\ c \in stopTodo
          \/ wpc = "legs" /\ c \in legTodo
      BY <2>4 DEF StopFire, LegClose, AtLeg
    <3> QED
      BY <1>1, <3>1, <3>2 DEF JobOK, job
  <2>5. CASE StopDone \/ LegDone \/ WorkerCrash
    <3>1. sq'["worker"].pc = "off"
      BY <1>1, <2>5 DEF StopDone, LegDone, WorkerCrash, NoCall
    <3>2. CASE StopDone \/ LegDone
      BY <1>1, <2>5, <3>1, <3>2 DEF StopDone, LegDone, JobOK
    <3>3. CASE WorkerCrash
      BY <1>1, <3>1, <3>3 DEF WorkerCrash, RuleOver, NoSweep, JobOK
    <3> QED
      BY <2>5, <3>2, <3>3
  <2>6. ASSUME NEW r \in Rules, EngineFlag(r) \/ EngineFire(r) PROVE JobOK'
    BY <1>1, <2>6 DEF EngineFlag, EngineFire, JobOK
  <2>7. CASE EngineNoClient \/ EngineEnd
    BY <1>1, <2>7 DEF EngineNoClient, EngineEnd, RuleOver, JobOK
  <2> QED
    BY <1>6, <2>1, <2>2, <2>3, <2>4, <2>5, <2>6, <2>7 DEF JobStep
<1> QED
  BY Steps, <1>2, <1>3, <1>4, <1>5, <1>6

(* No step takes a fill back, so shortsFlat stays true of what it was      *)
(* raised over.                                                            *)
LEMMA WingsStep == BaseInv /\ [Next]_vars => WingsLast'
<1> SUFFICES ASSUME BaseInv, [Next]_vars PROVE WingsLast'
  OBVIOUS
<1>1. /\ sq \in [Procs -> CallState] /\ JobOK /\ CallsOK /\ WingsLast /\ "worker" \in Procs
      /\ shortIds \subseteq Orders /\ Shorts \cap Wings = {} /\ Secs = Shorts \cup Wings
      /\ None \notin Secs /\ legTodo \subseteq Secs
  BY StructureAssumption DEF BaseInv, TypeOK, Procs, Secs
<1>2. ASSUME UNCHANGED job, sq'["worker"].sec = sq["worker"].sec,
             \A o \in Orders : book[o] = "TRADED" => book'[o] = "TRADED"
      PROVE  WingsLast'
  BY <1>1, <1>2 DEF WingsLast, job
<1>3. ASSUME NEW p \in Procs, SqStep(p) \/ SqNoClient(p) PROVE WingsLast'
  <2>1. UNCHANGED <<job, book>> /\ sq'["worker"].sec = sq["worker"].sec
    BY <1>1, <1>3, CallFrame
  <2> QED
    BY <1>2, <2>1
<1>4. ASSUME NEW p \in Procs, RecStep(p) \/ RecUnreachable(p) \/ RecAbort(p) PROVE WingsLast'
  <2>1. UNCHANGED <<job, book, sq>>
    BY <1>4 DEF RecStep, RecUnreachable, RecAbort, RecBook, RecNet, RecOrders, RecRow, RecSeen,
                RecFlat, RecUnlisted, RecClosed, RecWrites, RecStamp, RecDone, broker
  <2> QED
    BY <1>2, <2>1
<1>5. CASE BrokerStep
  <2>1. UNCHANGED <<job, sq>>
    BY <1>5 DEF BrokerStep
  <2> QED
    BY <1>2, <1>5, <2>1, BrokerMoves DEF BaseInv, BrokerFinal
<1>6. CASE OutsideStep \/ UNCHANGED vars
  <2>1. UNCHANGED <<job, book>> /\ sq'["worker"].sec = sq["worker"].sec
    BY <1>1, <1>6 DEF OutsideStep, ManualDone, ManualReconcile, External, ManualExit, SetStop,
                      MarkMoves, vars, broker
  <2> QED
    BY <1>2, <2>1
<1>7. CASE JobStep
  <2>1. wpc = "legs" \/ wpc' # "legs" \/ \E r \in Rules : EngineFire(r)
    BY <1>7 DEF JobStep, JobStart, StopsStart, StopDone, StopsEnd, StopSkip, StopFire, EnginePass,
                EngineFlag, EngineNoClient, RuleOver, WaitFilled, WaitGivesUp, LegSkip, LegClose,
                LegDone, EngineEnd, WorkerCrash, job
  <2>2. CASE wpc' # "legs"
    BY <2>2 DEF WingsLast
  <2>3. ASSUME NEW r \in Rules, EngineFire(r) PROVE WingsLast'
    <3>1. sq["worker"].sec = None /\ ~shortsFlat
      BY <1>1, <2>3 DEF EngineFire, JobOK, CallsOK
    <3> QED
      BY <1>1, <2>3, <3>1 DEF EngineFire, WingsLast
  <2>4. CASE wpc = "legs" /\ wpc' = "legs"
    <3>1. ASSUME NEW c \in Secs, WaitFilled(c) PROVE WingsLast'
      BY <1>1, <2>4, <3>1 DEF WaitFilled, AtLeg, MustWait, WingsLast, CallsOK, broker
    <3>2. ASSUME NEW c \in Secs, WaitGivesUp(c) \/ LegSkip(c) PROVE WingsLast'
      BY <1>1, <2>4, <3>2 DEF WaitGivesUp, LegSkip, WingsLast, broker
    <3>3. ASSUME NEW c \in Secs, LegClose(c) PROVE WingsLast'
      <4>1. sq'["worker"].sec = c /\ UNCHANGED <<job, book>>
        BY <1>1, <3>3 DEF LegClose, Call, NoCall, broker
      <4>2. c \in Wings => legTodo \cap Shorts = {} /\ (shortIds = {} \/ shortsFlat)
        BY <3>3 DEF LegClose, AtLeg, MustWait
      <4> QED
        BY <1>1, <2>4, <4>1, <4>2 DEF WingsLast, job
    <3>4. CASE LegDone
      <4>1. sq'["worker"].sec = None /\ UNCHANGED <<wpc, shortsFlat, book>>
        BY <1>1, <3>4 DEF LegDone, NoCall, broker
      <4>2. sq["worker"].sec \in legTodo /\ legTodo' \subseteq legTodo
        BY <1>1, <2>4, <3>4 DEF LegDone, Returned, JobOK
      <4>3. sq["worker"].sec \notin Shorts => shortIds' = shortIds
        BY <3>4 DEF LegDone
      <4> QED
        BY <1>1, <2>4, <4>1, <4>2, <4>3 DEF WingsLast
    <3>5. CASE StopDone \/ \E c \in Secs : StopFire(c) \/ StopSkip(c)
      BY <2>4, <3>5 DEF StopDone, StopFire, StopSkip
    <3> QED
      BY <1>7, <2>4, <3>1, <3>2, <3>3, <3>4, <3>5
      DEF JobStep, JobStart, StopsStart, StopsEnd, EnginePass, EngineFlag, EngineFire,
          EngineNoClient, RuleOver, EngineEnd, WorkerCrash
  <2> QED
    BY <2>1, <2>2, <2>3, <2>4
<1> QED
  BY Steps, <1>3, <1>4, <1>5, <1>6, <1>7

(* The first layer, under any disturbance.                                 *)
LEMMA BaseStep == BaseInv /\ [Next]_vars => BaseInv'
  BY TypeStep, NetworkStep, CallsStep, JobStays, WingsStep DEF BaseInv

LEMMA Base == Spec => []BaseInv
  BY BaseInit, BaseStep, PTL DEF Spec

(* Every variable holds a value of its kind, and no wing is being closed   *)
(* over a short close that has not traded, whatever the broker, the        *)
(* trader and restarts do.                                                 *)
THEOREM ExitTyped == Spec => []TypeOK
  BY Base, PTL DEF BaseInv

THEOREM ShortsFirst == Spec => []WingAfterShort
<1>1. BaseInv => WingAfterShort
  BY DEF BaseInv, WingsLast, WingAfterShort
<1> QED
  BY Base, <1>1, PTL

(* What a sweep's writes do to the copies it holds.                        *)
LEMMA RowFrame ==
  ASSUME BaseInv, NEW p \in Procs, NEW c \in Secs, RecRow(p, c)
  PROVE  /\ \A q \in Procs : rec'[q].book = rec[q].book
         /\ \A q \in Procs \ {p} : rec'[q] = rec[q]
         /\ RecFlat(p, c) => rec'[p].pc = "stamp" /\ rec'[p].closing = {c}
         /\ ~RecFlat(p, c) => rec'[p].pc = rec[p].pc /\ rec'[p].closing = rec[p].closing
<1>1. rec \in [Procs -> SweepState]
  BY DEF BaseInv, TypeOK
<1> DEFINE t == rec[p].todo \ {c}
<1> DEFINE s == {c}
<1>2. CASE RecFlat(p, c)
  <2>1. rec' = [rec EXCEPT ![p].pc = "stamp", ![p].todo = t, ![p].closing = s]
    BY <1>2 DEF RecFlat
  <2> HIDE DEF t, s
  <2>2. rec' = [rec EXCEPT ![p] = [rec[p] EXCEPT !.pc = "stamp", !.todo = t, !.closing = s]]
    BY <1>1, <2>1
  <2>3. /\ [rec[p] EXCEPT !.pc = "stamp", !.todo = t, !.closing = s].pc = "stamp"
        /\ [rec[p] EXCEPT !.pc = "stamp", !.todo = t, !.closing = s].closing = s
        /\ [rec[p] EXCEPT !.pc = "stamp", !.todo = t, !.closing = s].book = rec[p].book
    BY <1>1 DEF SweepState
  <2>4. /\ rec'[p] = [rec[p] EXCEPT !.pc = "stamp", !.todo = t, !.closing = s]
        /\ \A q \in Procs \ {p} : rec'[q] = rec[q]
    BY <1>1, <2>2
  <2> QED
    BY <1>2, <2>3, <2>4 DEF s
<1>3. CASE ~RecFlat(p, c)
  <2>1. rec' = [rec EXCEPT ![p].todo = t]
    BY <1>3 DEF RecRow, RecSeen, RecUnlisted, RecClosed, RowDone
  <2> HIDE DEF t
  <2>2. rec' = [rec EXCEPT ![p] = [rec[p] EXCEPT !.todo = t]]
    BY <1>1, <2>1
  <2>3. /\ [rec[p] EXCEPT !.todo = t].pc = rec[p].pc
        /\ [rec[p] EXCEPT !.todo = t].closing = rec[p].closing
        /\ [rec[p] EXCEPT !.todo = t].book = rec[p].book
    BY <1>1 DEF SweepState
  <2>4. /\ rec'[p] = [rec[p] EXCEPT !.todo = t]
        /\ \A q \in Procs \ {p} : rec'[q] = rec[q]
    BY <1>1, <2>2
  <2> QED
    BY <1>3, <2>3, <2>4
<1> QED
  BY <1>2, <1>3

LEMMA SweepFrame ==
  ASSUME BaseInv, NEW p \in Procs
  PROVE  /\ RecOrders(p) =>
              /\ \A q \in Procs \ {p} : rec'[q] = rec[q]
              /\ rec'[p].book = NoSweep.book /\ rec'[p].closing = rec[p].closing
         /\ RecStamp(p) =>
              /\ \A q \in Procs \ {p} : rec'[q] = rec[q]
              /\ rec'[p].book = rec[p].book /\ rec'[p].closing = {}
<1>1. rec \in [Procs -> SweepState]
  BY DEF BaseInv, TypeOK
<1> DEFINE b == NoSweep.book
<1> DEFINE none == {}
<1>2. RecOrders(p) => rec' = [rec EXCEPT ![p].pc = "positions", ![p].todo = Secs, ![p].book = b]
  BY DEF RecOrders
<1>3. RecStamp(p) => rec' = [rec EXCEPT ![p].pc = "positions", ![p].closing = none]
  BY DEF RecStamp
<1> HIDE DEF b, none
<1>4. /\ [rec[p] EXCEPT !.pc = "positions", !.todo = Secs, !.book = b].book = b
      /\ [rec[p] EXCEPT !.pc = "positions", !.todo = Secs, !.book = b].closing = rec[p].closing
      /\ [rec[p] EXCEPT !.pc = "positions", !.closing = none].book = rec[p].book
      /\ [rec[p] EXCEPT !.pc = "positions", !.closing = none].closing = none
  BY <1>1 DEF SweepState
<1>5. /\ RecOrders(p) =>
           rec' = [rec EXCEPT ![p] = [rec[p] EXCEPT !.pc = "positions", !.todo = Secs, !.book = b]]
      /\ RecStamp(p) =>
           rec' = [rec EXCEPT ![p] = [rec[p] EXCEPT !.pc = "positions", !.closing = none]]
  BY <1>1, <1>2, <1>3
<1>6. CASE RecOrders(p)
  <2>1. /\ rec'[p] = [rec[p] EXCEPT !.pc = "positions", !.todo = Secs, !.book = b]
        /\ \A q \in Procs \ {p} : rec'[q] = rec[q]
    BY <1>1, <1>5, <1>6
  <2>2. ~RecStamp(p)
    BY <1>6 DEF RecOrders, RecStamp
  <2> QED
    BY <1>4, <2>1, <2>2 DEF b
<1>7. CASE RecStamp(p)
  <2>1. /\ rec'[p] = [rec[p] EXCEPT !.pc = "positions", !.closing = none]
        /\ \A q \in Procs \ {p} : rec'[q] = rec[q]
    BY <1>1, <1>5, <1>7
  <2>2. ~RecOrders(p)
    BY <1>7 DEF RecOrders, RecStamp
  <2> QED
    BY <1>4, <2>1, <2>2 DEF none
<1> QED
  BY <1>6, <1>7

(* A row is closed and stamped by two statements of a sweep, and what cuts *)
(* it off between the two is written down in torn; nothing else closes one.*)
Reasoned == /\ ReasonRecorded
            /\ \A p \in Procs : rec[p].closing # {} => rec[p].pc = "stamp"

LEMMA ReasonStep ==
  ASSUME BaseInv, Reasoned, [Next]_vars
  PROVE  Reasoned'
<1>1. /\ sq \in [Procs -> CallState] /\ rec \in [Procs -> SweepState] /\ pos \in [Secs -> PosRow]
      /\ JobOK /\ CallsOK
  BY DEF BaseInv, TypeOK
<1>2. ASSUME UNCHANGED <<rec, torn>>,
             \A c \in Secs : pos'[c].open = pos[c].open /\ pos'[c].reason = pos[c].reason
      PROVE  Reasoned'
  BY <1>2 DEF Reasoned, ReasonRecorded
<1>3. ASSUME UNCHANGED <<pos, torn>>, NEW p \in Procs, \A q \in Procs \ {p} : rec'[q] = rec[q],
             rec'[p].closing = {}, rec[p].closing = {}
      PROVE  Reasoned'
  BY <1>3 DEF Reasoned, ReasonRecorded
<1>4. ASSUME NEW p \in Procs, SqStep(p) \/ SqNoClient(p) PROVE Reasoned'
  <2>1. UNCHANGED <<rec, torn>>
    <3>1. UNCHANGED rec
      BY <1>1, <1>4, CallFrame
    <3> QED
      BY <1>4, <3>1 DEF SqStep, SqNoClient, SqRead, SqStamp, SqCreate, SqNoRoom, SqSend, SqReply,
                        Disturb, toll
  <2>2. CASE SqStamp(p)
    <3>1. sq[p].sec \in Secs /\ sq[p].reason # "none"
      BY <1>1, <2>2 DEF SqStamp, CallsOK
    <3>2. \A c \in Secs : /\ pos'[c].open = pos[c].open
                          /\ pos'[c].reason = IF c = sq[p].sec THEN sq[p].reason ELSE pos[c].reason
      BY <1>1, <2>2, <3>1 DEF SqStamp, PosRow
    <3> QED
      BY <2>1, <3>1, <3>2 DEF Reasoned, ReasonRecorded
  <2>3. CASE UNCHANGED pos
    BY <1>2, <2>1, <2>3
  <2> QED
    BY <1>4, <2>2, <2>3
    DEF SqStep, SqNoClient, SqRead, SqCreate, SqNoRoom, SqSend, SqReply, tables
<1>5. ASSUME NEW p \in Procs, RecStep(p) \/ RecUnreachable(p) \/ RecAbort(p) PROVE Reasoned'
  <2>1. CASE RecBook(p) \/ RecNet(p) \/ RecOrders(p) \/ RecUnreachable(p) \/ RecDone(p)
    <3>1. /\ UNCHANGED <<pos, torn>> /\ rec[p].pc # "stamp"
          /\ \A q \in Procs \ {p} : rec'[q] = rec[q]
      BY <1>1, <2>1 DEF RecBook, RecNet, RecOrders, RecUnreachable, RecDone, Disturb, tables, toll
    <3>2. rec'[p].closing = rec[p].closing \/ rec'[p].closing = {}
      <4>1. CASE RecBook(p) \/ RecNet(p) \/ RecUnreachable(p) \/ RecDone(p)
        BY <1>1, <4>1 DEF RecBook, RecNet, RecUnreachable, RecDone, NoSweep, SweepState
      <4>2. CASE RecOrders(p)
        BY <4>2, SweepFrame
      <4> QED
        BY <2>1, <4>1, <4>2
    <3> QED
      BY <1>3, <3>1, <3>2 DEF Reasoned
  <2>2. CASE RecAbort(p)
    <3>1. /\ UNCHANGED pos /\ torn' = torn \cup rec[p].closing /\ rec'[p].closing = {}
          /\ \A q \in Procs \ {p} : rec'[q] = rec[q]
      BY <1>1, <2>2 DEF RecAbort, NoSweep, tables
    <3> QED
      BY <3>1 DEF Reasoned, ReasonRecorded
  <2>3. ASSUME NEW c \in Secs, RecRow(p, c) PROVE Reasoned'
    <3>1. /\ pos[c] \in PosRow /\ pos' \in [Secs -> PosRow]
          /\ \A d \in Secs \ {c} : pos'[d] = pos[d]
      <4>1. \A d \in Secs \ {c} : pos'[d] = pos[d]
        BY <1>1, <2>3 DEF RecRow, RecSeen, RecFlat, RecUnlisted, RecClosed
      <4> QED
        BY <1>1, <1>5, <4>1, SweepTyped DEF TypeOK
    <3>2. /\ \A q \in Procs \ {p} : rec'[q] = rec[q]
          /\ rec[p].closing = {} /\ (\A d \in Secs \ {c} : d \in torn <=> d \in torn')
      BY <2>3, RowFrame
      DEF RecRow, RecSeen, RecFlat, RecUnlisted, RecClosed, Row, Reasoned
    <3>3. CASE RecSeen(p, c)
      <4>1. pos'[c].open /\ rec'[p].closing = {}
        <5>1. ~RecFlat(p, c)
          BY <3>3 DEF RecSeen, RecFlat
        <5> QED
          BY <1>1, <2>3, <3>1, <3>2, <3>3, <5>1, RowFrame DEF RecSeen, PosRow
      <4> QED
        BY <3>1, <3>2, <4>1 DEF Reasoned, ReasonRecorded
    <3>4. CASE RecFlat(p, c)
      <4>1. rec'[p].pc = "stamp" /\ rec'[p].closing = {c}
        BY <2>3, <3>4, RowFrame
      <4> QED
        BY <3>1, <3>2, <4>1 DEF Reasoned, ReasonRecorded
    <3>5. CASE RecUnlisted(p, c) /\ ~RecFlat(p, c)
      <4>1. pos'[c].reason # "none" /\ rec'[p].closing = {}
        BY <1>1, <2>3, <3>1, <3>2, <3>5, RowFrame DEF RecUnlisted, PosRow
      <4> QED
        BY <3>1, <3>2, <4>1 DEF Reasoned, ReasonRecorded
    <3>6. CASE RecClosed(p, c)
      <4>1. UNCHANGED <<pos, torn>> /\ rec'[p].closing = {}
        <5>1. ~RecFlat(p, c)
          BY <3>6 DEF RecClosed, RecFlat
        <5> QED
          BY <2>3, <3>2, <3>6, <5>1, RowFrame DEF RecClosed
      <4> QED
        BY <3>2, <4>1 DEF Reasoned, ReasonRecorded
    <3> QED
      BY <2>3, <3>3, <3>4, <3>5, <3>6 DEF RecRow
  <2>4. CASE RecStamp(p)
    <3>1. rec'[p].closing = {} /\ \A q \in Procs \ {p} : rec'[q] = rec[q]
      BY <2>4, SweepFrame
    <3>2. \A c \in Secs :
            /\ pos'[c].open = pos[c].open
            /\ pos'[c].reason = IF c \in rec[p].closing /\ ~pos[c].open /\ pos[c].reason = "none"
                                THEN "EXTERNAL" ELSE pos[c].reason
      BY <1>1, <2>4 DEF RecStamp, PosRow
    <3>3. UNCHANGED torn
      BY <2>4 DEF RecStamp, toll
    <3> QED
      BY <3>1, <3>2, <3>3 DEF Reasoned, ReasonRecorded
  <2> QED
    BY <1>5, <2>1, <2>2, <2>3, <2>4 DEF RecStep
<1>6. CASE BrokerStep \/ UNCHANGED vars
  BY <1>2, <1>6 DEF BrokerStep, vars, tables, toll
<1>7. CASE JobStep
  <2>1. CASE JobStart
    <3>1. UNCHANGED <<pos, torn>> /\ rec["worker"].pc = "off" /\ "worker" \in Procs
      BY <1>1, <2>1 DEF JobStart, JobOK, tables, toll, Procs
    <3>2. /\ rec'["worker"].closing = rec["worker"].closing
          /\ \A q \in Procs \ {"worker"} : rec'[q] = rec[q]
      BY <1>1, <2>1, <3>1 DEF JobStart, SweepState
    <3> QED
      BY <1>3, <3>1, <3>2 DEF Reasoned
  <2>2. CASE StopDone
    BY <1>1, <1>2, <2>2 DEF StopDone, PosRow, toll
  <2>3. CASE UNCHANGED <<pos, rec, torn>>
    BY <1>2, <2>3
  <2>4. CASE WorkerCrash
    <3>1. /\ UNCHANGED pos /\ torn' = torn \cup rec["worker"].closing
          /\ rec'["worker"].closing = {} /\ \A q \in Procs \ {"worker"} : rec'[q] = rec[q]
      BY <1>1, <2>4 DEF WorkerCrash, NoSweep, tables, Procs
    <3> QED
      BY <3>1 DEF Reasoned, ReasonRecorded, Procs
  <2> QED
    BY <1>7, <2>1, <2>2, <2>3, <2>4
    DEF JobStep, StopsStart, StopsEnd, StopSkip, StopFire, EnginePass, EngineFlag, EngineFire,
        EngineNoClient, RuleOver, WaitFilled, WaitGivesUp, LegSkip, LegClose, LegDone, EngineEnd,
        tables, toll
<1>8. CASE OutsideStep
  <2>1. CASE ManualReconcile
    <3>1. UNCHANGED <<pos, torn>> /\ rec["api"].pc = "off" /\ "api" \in Procs
      BY <2>1 DEF ManualReconcile, Disturb, tables, Procs
    <3>2. /\ rec'["api"].closing = rec["api"].closing
          /\ \A q \in Procs \ {"api"} : rec'[q] = rec[q]
      BY <1>1, <2>1, <3>1 DEF ManualReconcile, SweepState
    <3> QED
      BY <1>3, <3>1, <3>2 DEF Reasoned
  <2>2. ASSUME NEW c \in Secs, SetStop(c) PROVE Reasoned'
    BY <1>1, <1>2, <2>2 DEF SetStop, Disturb, PosRow
  <2>3. CASE UNCHANGED <<pos, rec, torn>>
    BY <1>2, <2>3
  <2> QED
    BY <1>8, <2>1, <2>2, <2>3 
    DEF OutsideStep, ManualDone, External, ManualExit, MarkMoves, Disturb, tables, toll
<1> QED
  BY Steps, <1>4, <1>5, <1>6, <1>7, <1>8

(* The engine's record and order of closes, under every disturbance: no    *)
(* wing is sold before its short, and no position is closed without a      *)
(* reason but the one a sweep was cut off from stamping.                   *)
THEOREM ExitSound == Spec => []ExitIsSound
<1>1. Init => Reasoned
  BY DEF Init, Reasoned, ReasonRecorded, NoSweep
<1>2. BaseInv /\ Reasoned /\ [Next]_vars => Reasoned'
  BY ReasonStep
<1>3. BaseInv /\ Reasoned => ExitIsSound
  BY DEF BaseInv, WingsLast, WingAfterShort, Reasoned, ExitIsSound
<1> QED
  BY Base, <1>1, <1>2, <1>3, PTL DEF Spec
-----------------------------------------------------------------------------
(* The second layer.  What the steps of each kind do to the rows.          *)
LEMMA OthersRows ==
  ASSUME JobStep \/ OutsideStep \/ UNCHANGED vars
  PROVE  UNCHANGED <<status, brokerId, filledQty, wire, book, bookFilled, ack, oSec, oQty>>
  BY DEF JobStep, OutsideStep, vars, JobStart, StopsStart, StopDone, StopsEnd, StopSkip,
     StopFire, EnginePass, EngineFlag, EngineFire, EngineNoClient, WaitFilled, WaitGivesUp,
     LegSkip, LegClose, LegDone, EngineEnd, WorkerCrash, ManualDone, ManualReconcile,
     External, ManualExit, SetStop, MarkMoves, rows, broker, tables

(* A sweep writes open rows alone, each with what its copy of the book     *)
(* says.                                                                   *)
LEMMA SweepRows ==
  ASSUME BaseInv, NEW p \in Procs, RecStep(p) \/ RecUnreachable(p) \/ RecAbort(p)
  PROVE  /\ UNCHANGED <<wire, book, bookFilled, ack, oSec, oQty, sq, net, job, event>>
         /\ \A o \in Orders :
              \/ status'[o] = status[o] /\ filledQty'[o] = filledQty[o]
              \/ /\ status[o] \in NonTerminal /\ rec[p].book[o].st # "ABSENT"
                 /\ status'[o] = MapBrokerStatus(rec[p].book[o].st)
<1>1. CASE RecOrders(p)
  BY <1>1 DEF RecOrders, broker, tables
<1>2. CASE \/ RecBook(p) \/ RecNet(p) \/ RecStamp(p) \/ RecDone(p)
           \/ RecUnreachable(p) \/ RecAbort(p) \/ \E c \in Secs : RecRow(p, c)
  BY <1>2 DEF RecBook, RecNet, RecRow, RecSeen, RecFlat, RecUnlisted, RecClosed, RecWrites,
              RecStamp, RecDone, RecUnreachable, RecAbort, broker, tables, rows
<1> QED
  BY <1>1, <1>2 DEF RecStep

(* A call creates its row, marks it sent, or writes its outcome over it,   *)
(* and touches no other.                                                   *)
LEMMA CallRows ==
  ASSUME BaseInv, NEW p \in Procs, SqStep(p) \/ SqNoClient(p)
  PROVE  \/ UNCHANGED <<status, wire, oSec, oQty>> /\ ~SqCreate(p) /\ ~SqSend(p) /\ ~SqReply(p)
         \/ /\ SqCreate(p) /\ Fresh \in Orders /\ status[Fresh] = "NONE" /\ UNCHANGED wire
            /\ status' = [status EXCEPT ![Fresh] = "LOCAL_PENDING"]
            /\ oSec' = [oSec EXCEPT ![Fresh] = sq[p].sec]
            /\ oQty' = [oQty EXCEPT ![Fresh] = -sq[p].qty]
            /\ sq' = [sq EXCEPT ![p].pc = "created", ![p].order = Fresh]
         \/ /\ SqSend(p) /\ wire[sq[p].order] = "none" /\ UNCHANGED <<oSec, oQty>>
            /\ status' = [status EXCEPT ![sq[p].order] = "SENT"]
            /\ wire' = [wire EXCEPT ![sq[p].order] = "out"]
         \/ /\ SqReply(p) /\ UNCHANGED <<wire, oSec, oQty>>
            /\ \/ /\ wire[sq[p].order] = "landed"
                  /\ status' = [status EXCEPT ![sq[p].order] = MapBrokerStatus(ack[sq[p].order])]
               \/ /\ wire[sq[p].order] = "refused"
                  /\ status' = [status EXCEPT ![sq[p].order] = "REJECTED"]
               \/ status' = [status EXCEPT ![sq[p].order] = "UNKNOWN"]
<1>1. CASE SqRead(p) \/ SqStamp(p) \/ SqNoRoom(p) \/ SqNoClient(p)
  <2>1. ~SqCreate(p) /\ ~SqSend(p) /\ ~SqReply(p)
    <3>1. sq[p] \in CallState /\ (SqNoClient(p) => sq'[p].pc = "fail")
      BY DEF BaseInv, TypeOK, SqNoClient, CallState
    <3>2. SqSend(p) => sq'[p].pc = "calling"
      BY <3>1 DEF SqSend, BaseInv, TypeOK, CallState
    <3> QED
      BY <1>1, <3>1, <3>2
      DEF SqRead, SqStamp, SqNoRoom, SqNoClient, SqCreate, SqSend, SqReply
  <2> QED
    BY <1>1, <2>1 DEF SqRead, SqStamp, SqNoRoom, SqNoClient, rows, broker, tables
<1>2. CASE SqCreate(p)
  BY <1>2, FreshOrder DEF SqCreate, RowCreate, broker
<1>3. CASE SqSend(p)
  BY <1>3 DEF SqSend, RowSend, tables, BaseInv, CallsOK
<1>4. CASE SqReply(p)
  BY <1>4 DEF SqReply, RowReply, RowRefused, RowUnknown, tables, broker
<1> QED
  BY <1>1, <1>2, <1>3, <1>4 DEF SqStep

(* What a sweep has read of the book stays true: the book never takes back *)
(* an entry, nor the end of one.                                           *)
LEMMA CopiesStep == BaseInv /\ CopiesOK /\ [Next]_vars => CopiesOK'
<1> SUFFICES ASSUME BaseInv, CopiesOK, [Next]_vars PROVE CopiesOK'
  OBVIOUS
<1>1. /\ rec \in [Procs -> SweepState] /\ OrdersTyped(Nat) /\ NetworkOK
      /\ sq \in [Procs -> CallState] /\ CallsOK
  BY DEF BaseInv, TypeOK
<1>2. ASSUME \A p \in Procs : rec'[p].book = rec[p].book \/ rec'[p].book = NoSweep.book,
             \A o \in Orders : /\ wire[o] = "landed" => wire'[o] = "landed"
                               /\ book[o] \in BrokerFinal => book'[o] = book[o]
      PROVE  CopiesOK'
  <2> SUFFICES ASSUME NEW p \in Procs, NEW o \in Orders
               PROVE  /\ rec'[p].book[o].st # "ABSENT" => wire'[o] = "landed"
                      /\ rec'[p].book[o].st \in Terminal => book'[o] = rec'[p].book[o].st
    BY DEF CopiesOK
  <2>1. NoSweep.book[o].st = "ABSENT"
    BY DEF NoSweep
  <2>2. rec[p].book[o].st \in Terminal => rec[p].book[o].st \in BrokerFinal
    BY DEF Terminal, BrokerFinal
  <2> QED
    BY <1>2, <2>1, <2>2 DEF CopiesOK, Terminal
<1>3. ASSUME NEW p \in Procs, SqStep(p) \/ SqNoClient(p) PROVE CopiesOK'
  <2>1. UNCHANGED <<rec, book>>
    BY <1>1, <1>3, CallFrame
  <2>2. \A o \in Orders : wire[o] = "landed" => wire'[o] = "landed"
    BY <1>1, <1>3, CallRows DEF OrdersTyped
  <2> QED
    BY <1>2, <2>1, <2>2
<1>4. ASSUME NEW p \in Procs, RecStep(p) \/ RecUnreachable(p) \/ RecAbort(p) PROVE CopiesOK'
  <2>1. UNCHANGED <<wire, book>>
    BY <1>4, SweepRows
  <2>2. CASE RecBook(p)
    <3>1. /\ \A q \in Procs \ {p} : rec'[q] = rec[q]
          /\ rec'[p].book = [o \in Orders |-> [st |-> book[o], filled |-> bookFilled[o]]]
      BY <1>1, <2>2 DEF RecBook, SweepState
    <3> QED
      BY <1>1, <2>1, <3>1 DEF CopiesOK, NetworkOK
  <2>3. ASSUME NEW c \in Secs, RecRow(p, c) PROVE CopiesOK'
    <3>1. \A q \in Procs : rec'[q].book = rec[q].book
      BY <1>1, <2>3, RowFrame
    <3> QED
      BY <1>2, <2>1, <3>1
  <2>4. CASE \/ RecNet(p) \/ RecOrders(p) \/ RecStamp(p) \/ RecDone(p)
             \/ RecUnreachable(p) \/ RecAbort(p)
    <3>1. \A q \in Procs : rec'[q].book = rec[q].book \/ rec'[q].book = NoSweep.book
      <4>1. CASE RecNet(p)
        BY <1>1, <4>1 DEF RecNet, SweepState
      <4>2. CASE RecOrders(p) \/ RecStamp(p)
        BY <1>1, <4>2, SweepFrame
      <4>3. CASE RecDone(p) \/ RecUnreachable(p) \/ RecAbort(p)
        BY <1>1, <4>3 DEF RecDone, RecUnreachable, RecAbort
      <4> QED
        BY <2>4, <4>1, <4>2, <4>3
    <3> QED
      BY <1>2, <2>1, <3>1
  <2> QED
    BY <1>4, <2>2, <2>3, <2>4 DEF RecStep
<1>5. CASE BrokerStep
  <2>1. UNCHANGED rec
    BY <1>5 DEF BrokerStep
  <2> QED
    BY <1>1, <1>2, <1>5, <2>1, BrokerMoves DEF BaseInv
<1>6. CASE JobStep \/ OutsideStep \/ UNCHANGED vars
  <2>1. UNCHANGED <<wire, book>>
    BY <1>6, OthersRows
  <2>2. \A p \in Procs : rec'[p].book = rec[p].book \/ rec'[p].book = NoSweep.book
    BY <1>1, <1>6
    DEF JobStep, OutsideStep, vars, JobStart, StopsStart, StopDone, StopsEnd, StopSkip,
        StopFire, EnginePass, EngineFlag, EngineFire, EngineNoClient, WaitFilled, WaitGivesUp,
        LegSkip, LegClose, LegDone, EngineEnd, WorkerCrash, ManualDone, ManualReconcile,
        External, ManualExit, SetStop, MarkMoves, SweepState, Procs
  <2> QED
    BY <1>2, <2>1, <2>2
<1> QED
  BY Steps, <1>3, <1>4, <1>5, <1>6
(* A live order keeps a row the guard sees: a row is given a final status  *)
(* only by a copy or a reply that says the order has ended.                *)
LEMMA RowsStep == BaseInv /\ CopiesOK /\ RowsOK /\ [Next]_vars => RowsOK'
<1> SUFFICES ASSUME BaseInv, CopiesOK, RowsOK, [Next]_vars PROVE RowsOK'
  OBVIOUS
<1>1. /\ OrdersTyped(Nat) /\ NetworkOK /\ CallsOK /\ None \notin Secs
      /\ sq \in [Procs -> CallState] /\ oSec \in [Orders -> Secs \cup {None}]
      /\ "NONE" \notin NonTerminal
  BY StructureAssumption DEF BaseInv, TypeOK, NonTerminal
<1>2. ASSUME NEW p \in Procs, SqStep(p) \/ SqNoClient(p) PROVE RowsOK'
  <2>1. UNCHANGED <<book, ack>>
    BY <1>1, <1>2, CallFrame
  <2>2. CASE UNCHANGED <<status, wire, oSec, oQty>>
    BY <2>1, <2>2 DEF RowsOK, Alive
  <2>3. CASE /\ SqCreate(p) /\ Fresh \in Orders /\ status[Fresh] = "NONE" /\ UNCHANGED wire
             /\ status' = [status EXCEPT ![Fresh] = "LOCAL_PENDING"]
             /\ oSec' = [oSec EXCEPT ![Fresh] = sq[p].sec]
    <3>1. sq[p].sec \in Secs
      BY <1>1, <2>3 DEF SqCreate, CallsOK
    <3> QED
      BY <1>1, <2>1, <2>3, <3>1 DEF RowsOK, Alive, NonTerminal, OrdersTyped
  <2>4. CASE /\ SqSend(p) /\ wire[sq[p].order] = "none" /\ UNCHANGED <<oSec, oQty>>
             /\ status' = [status EXCEPT ![sq[p].order] = "SENT"]
             /\ wire' = [wire EXCEPT ![sq[p].order] = "out"]
    <3>1. sq[p].order \in Orders /\ status[sq[p].order] # "NONE"
      BY <1>1, <2>4 DEF SqSend, CallsOK
    <3> QED
      BY <1>1, <2>1, <2>4, <3>1 DEF RowsOK, Alive, NonTerminal, OrdersTyped
  <2>5. CASE /\ SqReply(p) /\ UNCHANGED <<wire, oSec, oQty>>
             /\ \/ /\ wire[sq[p].order] = "landed"
                   /\ status' = [status EXCEPT ![sq[p].order] = MapBrokerStatus(ack[sq[p].order])]
                \/ /\ wire[sq[p].order] = "refused"
                   /\ status' = [status EXCEPT ![sq[p].order] = "REJECTED"]
                \/ status' = [status EXCEPT ![sq[p].order] = "UNKNOWN"]
    <3>1. sq[p].order \in Orders /\ status[sq[p].order] # "NONE"
      BY <1>1, <2>5 DEF SqReply, CallsOK
    <3>2. PICK x : status' = [status EXCEPT ![sq[p].order] = x]
                   /\ (x = "UNKNOWN" \/ (x = "REJECTED" /\ wire[sq[p].order] = "refused")
                       \/ (x = MapBrokerStatus(ack[sq[p].order]) /\ wire[sq[p].order] = "landed"))
      BY <2>5
    <3>3. x # "NONE" /\ (Alive(sq[p].order) => x \in NonTerminal)
      <4>1. CASE x = "UNKNOWN"
        BY <4>1 DEF NonTerminal
      <4>2. CASE x = "REJECTED" /\ wire[sq[p].order] = "refused"
        BY <1>1, <3>1, <4>2 DEF Alive, NetworkOK, BrokerWorking
      <4>3. CASE x = MapBrokerStatus(ack[sq[p].order]) /\ wire[sq[p].order] = "landed"
        <5>1. ack[sq[p].order] \in BrokerStatus
          BY <1>1, <3>1, AckIsStatus DEF OrdersTyped
        <5>2. x \in LocalStatus /\ (x \in Terminal => ack[sq[p].order] = x)
          BY <4>3, <5>1, MapStatus
        <5>3. x \in Terminal => book[sq[p].order] = x
          BY <3>1, <4>3, <5>2 DEF RowsOK
        <5> QED
          BY <4>3, <5>2, <5>3 DEF LocalStatus, Alive, BrokerWorking, Terminal, NonTerminal
      <4> QED
        BY <3>2, <4>1, <4>2, <4>3
    <3> QED
      BY <1>1, <2>1, <2>5, <3>1, <3>2, <3>3 DEF RowsOK, Alive, OrdersTyped
  <2> QED
    BY <1>2, <2>2, <2>3, <2>4, <2>5, CallRows
<1>3. ASSUME NEW p \in Procs, RecStep(p) \/ RecUnreachable(p) \/ RecAbort(p) PROVE RowsOK'
  <2>1. UNCHANGED <<wire, book, ack, oSec>>
    BY <1>3, SweepRows
  <2>2. ASSUME NEW o \in Orders
        PROVE  /\ Alive(o) => status'[o] \in NonTerminal
               /\ status'[o] = "NONE" <=> status[o] = "NONE"
    <3>1. CASE status'[o] = status[o]
      BY <3>1 DEF RowsOK
    <3>2. CASE /\ status[o] \in NonTerminal /\ rec[p].book[o].st # "ABSENT"
               /\ status'[o] = MapBrokerStatus(rec[p].book[o].st)
      <4>1. rec[p].book[o].st \in BrokerStatus
        BY <3>2 DEF BaseInv, TypeOK, SweepState
      <4>2. status'[o] \in LocalStatus
            /\ (status'[o] \in Terminal => status'[o] = rec[p].book[o].st)
        BY <3>2, <4>1, MapStatus
      <4>3. status'[o] \in Terminal => wire[o] = "landed" /\ book[o] \in Terminal
        BY <3>2, <4>2 DEF CopiesOK
      <4> QED
        BY <3>2, <4>2, <4>3 DEF LocalStatus, Alive, BrokerWorking, Terminal, NonTerminal
    <3> QED
      BY <1>3, <3>1, <3>2, SweepRows
  <2> QED
    BY <2>1, <2>2 DEF RowsOK, Alive
<1>4. CASE BrokerStep
  <2>1. UNCHANGED <<status, oSec>>
    BY <1>4 DEF BrokerStep, rows, tables
  <2>2. ASSUME NEW o \in Orders
        PROVE  /\ Alive(o)' => Alive(o)
               /\ wire'[o] = "landed" /\ ack'[o] \in Terminal => book'[o] = ack'[o]
    <3>1. wire[o] # "out" => wire'[o] = wire[o] /\ ack'[o] = ack[o]
      BY <1>4, BrokerMoves DEF BaseInv
    <3>2. /\ book[o] \in BrokerFinal => book'[o] = book[o]
          /\ Alive(o)' => Alive(o)
          /\ wire[o] = "out" /\ wire'[o] = "landed" => book'[o] = ack'[o]
      BY <1>4, BrokerMoves DEF BaseInv
    <3> QED
      BY <3>1, <3>2 DEF RowsOK, Terminal, BrokerFinal
  <2> QED
    BY <2>1, <2>2 DEF RowsOK
<1>5. CASE JobStep \/ OutsideStep \/ UNCHANGED vars
  BY <1>5, OthersRows DEF RowsOK, Alive
<1> QED
  BY Steps, <1>2, <1>3, <1>4, <1>5

(* Nobody but the worker places closes.                                    *)
LEMMA OnlyWorker ==
  ASSUME BaseInv, Alone, NEW p \in Procs, SqStep(p) \/ SqNoClient(p)
  PROVE  p = "worker"
<1>1. sq[p].pc # "off"
  BY CallFrame DEF BaseInv, TypeOK
<1> QED
  BY <1>1 DEF Alone, Procs

LEMMA AloneStep ==
  ASSUME "apiExit" \notin Kinds, BaseInv, Alone, [Next]_vars
  PROVE  Alone'
<1>1. /\ OrdersTyped(Nat) /\ CallsOK /\ None \notin Secs
      /\ sq \in [Procs -> CallState] /\ oSec \in [Orders -> Secs \cup {None}]
      /\ "worker" \in Procs /\ "api" \in Procs
  BY StructureAssumption DEF BaseInv, TypeOK, Procs
<1> DEFINE w == sq["worker"]
<1>2. ASSUME UNCHANGED <<sq, oSec>>,
             \A o \in Orders : status'[o] \in NonTerminal => status[o] \in NonTerminal
      PROVE  Alone'
  BY <1>2 DEF Alone, InFlight
<1>3. ASSUME NEW p \in Procs, SqStep(p) \/ SqNoClient(p) PROVE Alone'
  <2>1. p = "worker"
    BY <1>3, OnlyWorker
  <2>2. /\ \A q \in Procs \ {"worker"} : sq'[q] = sq[q]
        /\ w.sec = w'.sec
    BY <1>1, <1>3, <2>1, CallFrame
  <2>3. sq'["api"].pc = "off"
    BY <1>1, <2>2 DEF Alone
  <2>4. CASE UNCHANGED <<status, wire, oSec, oQty>> /\ ~SqCreate(p) /\ ~SqSend(p) /\ ~SqReply(p)
    <3>1. w'.pc = "fail" \/ (w.pc \in {"read", "stamp", "create"}
                             /\ w'.pc \in {"read", "stamp", "create"})
      <4>1. CASE SqRead(p)
        <5>1. \/ sq' = [sq EXCEPT ![p].pc = "stamp", ![p].qty = pos[sq[p].sec].qty]
              \/ sq' = [sq EXCEPT ![p].pc = "fail"]
          BY <4>1 DEF SqRead
        <5> QED
          BY <1>1, <2>1, <4>1, <5>1 DEF SqRead, CallState
      <4>2. CASE SqStamp(p) \/ SqNoRoom(p) \/ SqNoClient(p)
        BY <1>1, <2>1, <4>2 DEF SqStamp, SqNoRoom, SqNoClient, CallState
      <4> QED
        BY <1>3, <2>4, <4>1, <4>2 DEF SqStep
    <3> QED
      BY <2>2, <2>3, <2>4, <3>1 DEF Alone, InFlight
  <2>5. CASE /\ SqCreate(p) /\ Fresh \in Orders /\ status[Fresh] = "NONE" /\ UNCHANGED wire
             /\ status' = [status EXCEPT ![Fresh] = "LOCAL_PENDING"]
             /\ oSec' = [oSec EXCEPT ![Fresh] = sq[p].sec]
             /\ sq' = [sq EXCEPT ![p].pc = "created", ![p].order = Fresh]
    <3>1. w'.pc = "created" /\ w'.order = Fresh /\ oSec'[Fresh] = w.sec
      BY <1>1, <2>1, <2>5 DEF CallState
    <3>2. \A m \in Orders \ {Fresh} : status'[m] = status[m] /\ oSec'[m] = oSec[m]
      BY <1>1, <2>5 DEF OrdersTyped
    <3>3. ~InFlight(w.sec)
      BY <2>1, <2>5 DEF SqCreate, Alone
    <3> QED
      BY <2>2, <2>3, <3>1, <3>2, <3>3 DEF Alone, InFlight
  <2>6. ASSUME SqSend(p) \/ SqReply(p), UNCHANGED oSec,
               NEW x, status' = [status EXCEPT ![sq[p].order] = x]
        PROVE  Alone'
    <3>1. /\ w.pc \in {"created", "calling"} /\ w'.order = w.order
          /\ w'.pc \in {"calling", "ok", "okNoId", "fail"}
      BY <1>1, <2>1, <2>6 DEF SqSend, SqReply, CallState
    <3>2. \A m \in Orders \ {w.order} : status'[m] = status[m]
      BY <1>1, <2>1, <2>6 DEF OrdersTyped
    <3> QED
      BY <2>2, <2>3, <2>6, <3>1, <3>2 DEF Alone
  <2> QED
    BY <1>3, <2>4, <2>5, <2>6, CallRows
<1>4. ASSUME NEW p \in Procs, RecStep(p) \/ RecUnreachable(p) \/ RecAbort(p) PROVE Alone'
  <2>1. \A o \in Orders : status'[o] \in NonTerminal => status[o] \in NonTerminal
    BY <1>4, SweepRows
  <2> QED
    BY <1>2, <1>4, <2>1, SweepRows
<1>5. CASE BrokerStep \/ UNCHANGED vars
  BY <1>2, <1>5 DEF BrokerStep, vars, rows, tables
<1>6. CASE JobStep \/ OutsideStep
  <2>1. UNCHANGED <<status, oSec>>
    BY <1>6, OthersRows
  <2>2. CASE UNCHANGED sq
    BY <1>2, <2>1, <2>2
  <2>3. CASE \E p \in Procs : sq' = [sq EXCEPT ![p] = NoCall]
    <3>1. sq'["worker"] = NoCall \/ sq'["worker"] = sq["worker"]
      BY <1>1, <2>3
    <3>2. sq'["api"].pc = "off"
      BY <1>1, <2>3 DEF Alone, NoCall
    <3>3. NoCall.pc = "off"
      BY DEF NoCall
    <3> QED
      BY <2>1, <3>1, <3>2, <3>3 DEF Alone, InFlight
  <2>4. ASSUME NEW c \in Secs, StopFire(c) \/ LegClose(c) PROVE Alone'
    <3>1. w'.pc = "read" /\ w'.sec = c /\ sq'["api"] = sq["api"]
      <4>1. PICK why : sq' = [sq EXCEPT !["worker"] = Call(c, why)]
        BY <2>4 DEF StopFire, LegClose
      <4>2. Call(c, why).pc = "read" /\ Call(c, why).sec = c
        BY DEF Call, NoCall
      <4>3. sq'["worker"] = Call(c, why) /\ sq'["api"] = sq["api"]
        BY <1>1, <4>1
      <4> QED
        BY <4>2, <4>3
    <3>2. ~InFlight(c)
      BY <2>4 DEF StopFire, LegClose
    <3> QED
      BY <1>1, <2>1, <3>1, <3>2 DEF Alone, InFlight
  <2>5. \A c \in Secs : ~ManualExit(c)
    BY DEF ManualExit, Disturb, Count
  <2>6. "worker" \in Procs /\ "api" \in Procs
    BY DEF Procs
  <2> QED
    BY <1>6, <2>2, <2>3, <2>4, <2>5, <2>6
    DEF JobStep, OutsideStep, JobStart, StopsStart, StopDone, StopsEnd, StopSkip,
        EnginePass, EngineFlag, EngineFire, EngineNoClient, WaitFilled, WaitGivesUp,
        LegSkip, LegDone, EngineEnd, WorkerCrash, ManualDone, ManualReconcile,
        External, SetStop, MarkMoves
<1> QED
  BY Steps, <1>3, <1>4, <1>5, <1>6

(* A contract has one open row: the guard sees it until it has ended, and  *)
(* only the order being placed is ever reopened by a late reply.           *)
LEMMA OneRowStep == BaseInv /\ Alone /\ OneRow /\ [Next]_vars => OneRow'
<1> SUFFICES ASSUME BaseInv, Alone, OneRow, [Next]_vars PROVE OneRow'
  OBVIOUS
<1>1. /\ OrdersTyped(Nat) /\ CallsOK /\ oSec \in [Orders -> Secs \cup {None}]
  BY DEF BaseInv, TypeOK
<1>2. ASSUME UNCHANGED oSec,
             \A o \in Orders : status'[o] \in NonTerminal => status[o] \in NonTerminal
      PROVE  OneRow'
  BY <1>2 DEF OneRow
<1>3. ASSUME NEW p \in Procs, SqStep(p) \/ SqNoClient(p) PROVE OneRow'
  <2>1. p = "worker"
    BY <1>3, OnlyWorker
  <2>2. CASE UNCHANGED <<status, wire, oSec, oQty>>
    BY <1>2, <2>2
  <2>3. CASE /\ SqCreate(p) /\ Fresh \in Orders /\ status[Fresh] = "NONE" /\ UNCHANGED wire
             /\ status' = [status EXCEPT ![Fresh] = "LOCAL_PENDING"]
             /\ oSec' = [oSec EXCEPT ![Fresh] = sq[p].sec]
    <3>1. ~InFlight(sq[p].sec)
      BY <2>1, <2>3 DEF SqCreate, Alone
    <3>2. \A m \in Orders \ {Fresh} : status'[m] = status[m] /\ oSec'[m] = oSec[m]
      BY <1>1, <2>3 DEF OrdersTyped
    <3>3. oSec'[Fresh] = sq[p].sec
      BY <1>1, <2>3
    <3> QED
      BY <3>1, <3>2, <3>3 DEF OneRow, InFlight
  <2>4. ASSUME SqSend(p) \/ SqReply(p), UNCHANGED oSec,
               NEW x, status' = [status EXCEPT ![sq[p].order] = x]
        PROVE  OneRow'
    <3>1. \A m \in Orders \ {sq[p].order} :
            /\ status'[m] = status[m]
            /\ oSec[m] = oSec[sq[p].order] => status[m] \notin NonTerminal
      BY <1>1, <2>1, <2>4 DEF OrdersTyped, SqSend, SqReply, Alone
    <3> QED
      BY <2>4, <3>1 DEF OneRow
  <2> QED
    BY <1>3, <2>2, <2>3, <2>4, CallRows
<1>4. ASSUME NEW p \in Procs, RecStep(p) \/ RecUnreachable(p) \/ RecAbort(p) PROVE OneRow'
  BY <1>2, <1>4, SweepRows
<1>5. CASE BrokerStep \/ JobStep \/ OutsideStep \/ UNCHANGED vars
  BY <1>2, <1>5, OthersRows DEF BrokerStep, rows, tables
<1> QED
  BY Steps, <1>3, <1>4, <1>5

LEMMA OneCloseInit == Init => OneCloseInv
<1> SUFFICES ASSUME Init PROVE OneCloseInv
  OBVIOUS
<1>1. BaseInv
  BY BaseInit
<1>2. CopiesOK
  BY DEF Init, CopiesOK, NoSweep, Terminal
<1>3. RowsOK /\ OneRow
  BY DEF Init, OrdersInit, RowsOK, OneRow, Alive, BrokerWorking, Terminal, NonTerminal
<1>4. Alone
  BY DEF Init, Alone, NoCall, Procs
<1> QED
  BY <1>1, <1>2, <1>3, <1>4 DEF OneCloseInv

LEMMA OneClose == ASSUME "apiExit" \notin Kinds PROVE Spec => []OneCloseInv
<1>1. OneCloseInv /\ [Next]_vars => OneCloseInv'
  BY BaseStep, CopiesStep, RowsStep, AloneStep, OneRowStep DEF OneCloseInv
<1> QED
  BY OneCloseInit, <1>1, PTL DEF Spec

(* Unless a person clicks Exit, the broker never holds two live closes of  *)
(* one contract, across stops, engine legs, failed sweeps, lost replies    *)
(* and restarts, however many orders there are.                            *)
THEOREM ClosesOnce == ASSUME "apiExit" \notin Kinds PROVE Spec => []NoDoubleClose
<1>1. OneCloseInv => NoDoubleClose
  BY DEF OneCloseInv, RowsOK, OneRow, NoDoubleClose
<1> QED
  BY OneClose, <1>1, PTL
=============================================================================
