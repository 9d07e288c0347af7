----------------------------- MODULE LiveOrders -----------------------------
(***************************************************************************)
(* What every live-order path shares: the LiveOrder table, the broker's    *)
(* order book behind it, and the few ways the one is written from the      *)
(* other.  The actions here are fragments: they say what happens to one    *)
(* order, and the modules that EXTEND this one say who takes them and what *)
(* else changes.                                                           *)
(*                                                                         *)
(* An order stands for its row, its correlationId and, once the placement  *)
(* request has landed, its entry in the order book.  The three are in      *)
(* bijection because each row is created with a fresh unique correlationId *)
(* and placeOrder is called once for it.                                   *)
(***************************************************************************)
EXTENDS Naturals

CONSTANTS
  Orders,   \* the orders a behaviour may create
  Qty,      \* the largest broker quantity of an order, in fillable units
  Acks      \* external: the statuses a placement reply may carry

ASSUME QtyAssumption == Qty \in Nat \ {0}

VARIABLES
  \* the LiveOrder table
  status,      \* order -> row status, NONE before the row is created
  brokerId,    \* order -> whether the row carries a brokerOrderId
  filledQty,   \* order -> the row's filledQty
  \* the network and the broker
  wire,        \* order -> where its placement request is
  book,        \* order -> order-book status, ABSENT until the request lands
  bookFilled,  \* order -> quantity the broker has filled
  ack          \* order -> the status the placement reply carries

rows   == <<status, brokerId, filledQty>>
broker == <<wire, book, bookFilled, ack>>

-----------------------------------------------------------------------------
(* Mutant of NonTerminal: a list that forgets UNKNOWN.                     *)
NonTerminalForgetsUnknown == {"LOCAL_PENDING", "SENT", "OPEN", "PARTIAL"}

(* The row statuses a later sweep still looks at.  The same list is what   *)
(* the exit paths call "a closing order already working".                  *)
NonTerminal == {"LOCAL_PENDING", "SENT", "OPEN", "PARTIAL", "UNKNOWN"}

(* The row statuses no sweep revisits.                                     *)
Terminal == {"TRADED", "CANCELLED", "REJECTED"}

LocalStatus == NonTerminal \cup Terminal

(* The broker's side.  OTHER is any string outside the known vocabulary, a *)
(* day order the exchange expired for instance.                            *)
BrokerWorking == {"TRANSIT", "OPEN", "PART_TRADED"}
BrokerFinal   == {"TRADED", "CANCELLED", "REJECTED", "OTHER"}
BrokerStatus  == BrokerWorking \cup BrokerFinal

(* Mutant of MapBrokerStatus: a string outside the vocabulary is stored as *)
(* it came.                                                                *)
MapBrokerStatusRaw(s) ==
  CASE s = "TRANSIT"     -> "SENT"
    [] s = "PART_TRADED" -> "PARTIAL"
    [] OTHER             -> s

(* Unknown strings stay UNKNOWN, which is a non-terminal row status.       *)
MapBrokerStatus(s) ==
  CASE s = "TRANSIT"     -> "SENT"
    [] s = "OPEN"        -> "OPEN"
    [] s = "PART_TRADED" -> "PARTIAL"
    [] s \in Terminal    -> s
    [] OTHER             -> "UNKNOWN"

Wire == {"none", "out", "landed", "refused", "dropped"}
AckStatus == {"TRANSIT", "TRADED", "REJECTED"}

ASSUME AcksAssumption == Acks \subseteq AckStatus

-----------------------------------------------------------------------------
(* The broker and the network, as the code in src/ meets them.             *)

(* The request reaches the broker, which opens an order of quantity q for  *)
(* it, fills it on the spot, or rejects it on arrival.  A request whose    *)
(* caller has already timed out may still land.                            *)
BookAccept(o, s, q) ==
  /\ wire[o] = "out"
  /\ wire' = [wire EXCEPT ![o] = "landed"]
  /\ book' = [book EXCEPT ![o] = s]
  /\ bookFilled' = [bookFilled EXCEPT ![o] = IF s = "TRADED" THEN q ELSE 0]
  /\ ack' = [ack EXCEPT ![o] = s]

(* A 4xx, or a request that never arrives: no order is created.            *)
BookRefuse(o) ==
  /\ wire[o] = "out"
  /\ \E w \in {"refused", "dropped"} : wire' = [wire EXCEPT ![o] = w]
  /\ UNCHANGED <<book, bookFilled, ack>>

BookOpen(o) ==
  /\ book[o] = "TRANSIT"
  /\ book' = [book EXCEPT ![o] = "OPEN"]
  /\ UNCHANGED <<wire, bookFilled, ack>>

(* One more unit of an order of quantity q trades.                         *)
BookFill(o, q) ==
  /\ book[o] \in {"OPEN", "PART_TRADED"} /\ bookFilled[o] < q
  /\ bookFilled' = [bookFilled EXCEPT ![o] = @ + 1]
  /\ book' = [book EXCEPT ![o] = IF bookFilled[o] + 1 = q THEN "TRADED" ELSE "PART_TRADED"]
  /\ UNCHANGED <<wire, ack>>

(* The exchange rejects late, a cancel takes effect, or the day ends under *)
(* a working order.                                                        *)
BookEnd(o, s) ==
  /\ book[o] \in BrokerWorking
  /\ book' = [book EXCEPT ![o] = s]
  /\ UNCHANGED <<wire, bookFilled, ack>>

-----------------------------------------------------------------------------
(* The writes to one row.                                                  *)

(* liveOrder.create, before anything is sent.                              *)
RowCreate(o) ==
  /\ status' = [status EXCEPT ![o] = "LOCAL_PENDING"]
  /\ UNCHANGED <<brokerId, filledQty>>

(* The row is marked SENT and the placement request leaves.                *)
RowSend(o) ==
  /\ status' = [status EXCEPT ![o] = "SENT"]
  /\ wire' = [wire EXCEPT ![o] = "out"]
  /\ UNCHANGED <<brokerId, filledQty, book, bookFilled, ack>>

(* The placement reply: an id, possibly empty, and the status as it was    *)
(* when the broker answered, written over whatever the row says by now.    *)
RowReply(o, hasId) ==
  /\ wire[o] = "landed"
  /\ brokerId' = [brokerId EXCEPT ![o] = hasId]
  /\ status' = [status EXCEPT ![o] = MapBrokerStatus(ack[o])]
  /\ UNCHANGED filledQty

(* A 4xx is news: the broker refused and no order exists.                  *)
RowRefused(o) ==
  /\ wire[o] = "refused"
  /\ status' = [status EXCEPT ![o] = "REJECTED"]
  /\ UNCHANGED <<brokerId, filledQty>>

(* Mutant of RowUnknown: the two failure branches collapsed into one.      *)
RowUnknownAsRefused(o) ==
  /\ wire[o] \in {"out", "landed", "dropped"}
  /\ status' = [status EXCEPT ![o] = "REJECTED"]
  /\ UNCHANGED <<brokerId, filledQty>>

(* A timeout, a 5xx or a transport error is ambiguity: the request may     *)
(* have been processed, may still be on its way, or may be gone.           *)
RowUnknown(o) ==
  /\ wire[o] \in {"out", "landed", "dropped"}
  /\ status' = [status EXCEPT ![o] = "UNKNOWN"]
  /\ UNCHANGED <<brokerId, filledQty>>

(* A book entry, found by correlationId, is written into its row.          *)
RowAdopt(o, s, f) ==
  /\ status' = [status EXCEPT ![o] = MapBrokerStatus(s)]
  /\ brokerId' = [brokerId EXCEPT ![o] = TRUE]
  /\ filledQty' = [filledQty EXCEPT ![o] = f]

-----------------------------------------------------------------------------
OrdersInit ==
  /\ status = [o \in Orders |-> "NONE"]
  /\ brokerId = [o \in Orders |-> FALSE]
  /\ filledQty = [o \in Orders |-> 0]
  /\ wire = [o \in Orders |-> "none"]
  /\ book = [o \in Orders |-> "ABSENT"]
  /\ bookFilled = [o \in Orders |-> 0]
  /\ ack = [o \in Orders |-> "TRANSIT"]

(* The kinds of the values, fills being numbers in Fills.                   *)
OrdersTyped(Fills) ==
  /\ status \in [Orders -> LocalStatus \cup {"NONE"}]
  /\ brokerId \in [Orders -> BOOLEAN]
  /\ filledQty \in [Orders -> Fills]
  /\ wire \in [Orders -> Wire]
  /\ book \in [Orders -> BrokerStatus \cup {"ABSENT"}]
  /\ bookFilled \in [Orders -> Fills]
  /\ ack \in [Orders -> AckStatus]

OrdersType == OrdersTyped(0..Qty)
=============================================================================
