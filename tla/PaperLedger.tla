---------------------------- MODULE PaperLedger ----------------------------
(***************************************************************************)
(* What the paper module promises of an order, whoever acts on it: it is   *)
(* filled at most once, it is never filled once it has been cancelled, and *)
(* what it opened is booked exactly once, in one trade that stays as it    *)
(* was written.                                                            *)
(***************************************************************************)
CONSTANTS
  Orders,     \* the orders ever placed
  Bookings    \* what a trade may say: an exit level and a reason

VARIABLES
  life,       \* order -> how far it has come
  booked      \* order -> the trades written for it

LedgerInit ==
  /\ life = [o \in Orders |-> "none"]
  /\ booked = [o \in Orders |-> {}]

(* The legs of a ticket, or the dead orders of a settlement pass, move     *)
(* together.                                                               *)
Move(legs, from, to) ==
  /\ \A o \in legs : life[o] = from
  /\ life' = [o \in Orders |-> IF o \in legs THEN to ELSE life[o]]

PlaceOrders(legs)  == Move(legs, "none", "pending") /\ UNCHANGED booked
CancelOrders(legs) == Move(legs, "pending", "cancelled") /\ UNCHANGED booked
FillOrder(o)       == Move({o}, "pending", "open") /\ UNCHANGED booked

BookTrade(o) ==
  /\ Move({o}, "open", "closed")
  /\ \E b \in Bookings : booked' = [booked EXCEPT ![o] = {b}]

LedgerNext ==
  \/ \E legs \in SUBSET Orders : PlaceOrders(legs) \/ CancelOrders(legs)
  \/ \E o \in Orders : FillOrder(o) \/ BookTrade(o)

LedgerSpec == LedgerInit /\ [][LedgerNext]_<<life, booked>>
=============================================================================
