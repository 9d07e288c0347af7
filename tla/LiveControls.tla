---------------------------- MODULE LiveControls ----------------------------
(***************************************************************************)
(* What a person does to live orders after placing them,                   *)
(* packages/db/src/live-repository.ts: modifyLiveOrder on a resting order  *)
(* and panicCloseLiveAccount over everything, beside fills at the exchange *)
(* and the sweep that copies the broker into the rows.  Each contract has  *)
(* one opening order and at most one position.                             *)
(***************************************************************************)
EXTENDS Naturals, FiniteSets

CONSTANTS Contracts, Sizes, Modifiers, MaxSweeps, MaxControlCrashes

ASSUME ControlBounds ==
  /\ MaxSweeps \in Nat /\ MaxControlCrashes \in Nat /\ Sizes \subseteq Nat /\ Sizes # {}

VARIABLES
  atBroker,   \* the order of a contract at Dhan: none, open, filled or cancelled
  brokerSize, \* its quantity there
  holds,      \* contracts with a position at the broker
  orderRow,   \* status of its LiveOrder
  rowSize,    \* lots and quantity of the row
  positionRow,\* status of its LivePosition
  modifier,   \* modify requests: pc, contract and size asked for
  inTheDark,  \* contracts whose last modify reply was lost
  crossed,    \* contracts whose last resize was asked with an earlier one in flight
  panic,      \* the panic request
  takenBack,  \* contracts whose cancel the broker accepted
  closeSent,  \* contracts whose close the broker accepted
  sweepsLeft, controlCrashes \* bounds

ctrlVars == <<atBroker, brokerSize, holds, orderRow, rowSize, positionRow, modifier, inTheDark, crossed,
              panic, takenBack, closeSent, sweepsLeft, controlCrashes>>
market == <<atBroker, brokerSize, holds>>
books == <<orderRow, rowSize, positionRow>>
hands == <<modifier, inTheDark, crossed, panic, takenBack, closeSent>>
limits == <<sweepsLeft, controlCrashes>>

First == CHOOSE n \in Sizes : \A m \in Sizes : n <= m
IdleModifier == [pc |-> "idle", contract |-> "none", size |-> First]
IdlePanic == [pc |-> "idle", todo |-> {}, sight |-> {}, failures |-> {}]
Working(c) == orderRow[c] = "SENT"

ControlInit ==
  /\ atBroker \in [Contracts -> {"none", "open"}]
  /\ brokerSize = [c \in Contracts |-> First] /\ rowSize = brokerSize
  /\ holds \in SUBSET {c \in Contracts : atBroker[c] = "none"}
  /\ orderRow = [c \in Contracts |-> IF atBroker[c] = "open" THEN "SENT" ELSE "none"]
  /\ positionRow = [c \in Contracts |-> IF c \in holds THEN "OPEN" ELSE "none"]
  /\ modifier = [m \in Modifiers |-> IdleModifier] /\ inTheDark = {} /\ crossed = {}
  /\ panic = IdlePanic /\ takenBack = {} /\ closeSent = {}
  /\ sweepsLeft = MaxSweeps /\ controlCrashes = 0

-----------------------------------------------------------------------------
(* The exchange.                                                           *)
Fill(c) ==
  /\ atBroker[c] = "open"
  /\ atBroker' = [atBroker EXCEPT ![c] = "filled"] /\ holds' = holds \cup {c}
  /\ UNCHANGED <<brokerSize, books, hands, limits>>

LateCancel(c) ==
  /\ atBroker[c] = "open" /\ c \in takenBack
  /\ atBroker' = [atBroker EXCEPT ![c] = "cancelled"]
  /\ UNCHANGED <<brokerSize, holds, books, hands, limits>>

CloseFills(c) ==
  /\ c \in closeSent \cap holds /\ holds' = holds \ {c}
  /\ UNCHANGED <<atBroker, brokerSize, books, hands, limits>>

(* One order and one position at a time, as the sweep upserts them.        *)
SweepRow(c) ==
  /\ sweepsLeft > 0 /\ sweepsLeft' = sweepsLeft - 1
  /\ orderRow' = [orderRow EXCEPT ![c] =
       CASE @ = "none" -> "none"
         [] atBroker[c] = "filled" -> "TRADED"
         [] atBroker[c] = "cancelled" -> "CANCELLED"
         [] OTHER -> "SENT"]
  /\ positionRow' = [positionRow EXCEPT ![c] =
       IF c \in holds THEN "OPEN" ELSE IF @ = "OPEN" THEN "CLOSED" ELSE @]
  /\ UNCHANGED <<market, rowSize, hands, controlCrashes>>

-----------------------------------------------------------------------------
(* modifyLiveOrder: the row is read, the broker asked, and the row takes   *)
(* the size only when the broker has replied.                              *)
ModifyStart(m, c, n) ==
  /\ modifier[m].pc = "idle" /\ Working(c) /\ n # rowSize[c]
  /\ modifier' = [modifier EXCEPT ![m] = [pc |-> "ask", contract |-> c, size |-> n]]
  /\ UNCHANGED <<market, books, inTheDark, crossed, panic, takenBack, closeSent, limits>>

BeforeAsking(m) == [rowSize EXCEPT ![modifier[m].contract] = modifier[m].size]
WhenAsked(m) == rowSize

InFlightFor(c) == {m \in Modifiers : modifier[m].pc = "reply" /\ modifier[m].contract = c}

(* An order that is not open any more is refused, and so may any be.       *)
ModifyAsk(m) ==
  LET c == modifier[m].contract IN
  /\ modifier[m].pc = "ask" /\ rowSize' = WhenAsked(m)
  /\ \/ /\ atBroker[c] = "open" /\ brokerSize' = [brokerSize EXCEPT ![c] = modifier[m].size]
        /\ modifier' = [modifier EXCEPT ![m].pc = "reply"]
        /\ crossed' = IF InFlightFor(c) = {} THEN crossed \ {c} ELSE crossed \cup {c}
     \/ /\ modifier' = [modifier EXCEPT ![m] = IdleModifier] /\ UNCHANGED <<brokerSize, crossed>>
  /\ UNCHANGED <<atBroker, holds, orderRow, positionRow, inTheDark, panic, takenBack, closeSent, limits>>

ModifyReply(m) ==
  LET c == modifier[m].contract IN
  /\ modifier[m].pc = "reply" /\ modifier' = [modifier EXCEPT ![m] = IdleModifier]
  /\ \/ /\ rowSize' = [rowSize EXCEPT ![c] = modifier[m].size] /\ inTheDark' = inTheDark \ {c}
     \/ /\ inTheDark' = inTheDark \cup {c} /\ UNCHANGED rowSize
  /\ UNCHANGED <<market, orderRow, positionRow, crossed, panic, takenBack, closeSent, limits>>

-----------------------------------------------------------------------------
(* panicCloseLiveAccount: the working orders with a broker id.             *)
PanicStart ==
  /\ panic.pc = "idle"
  /\ LET working == {c \in Contracts : Working(c)} IN
       panic' = [pc |-> "cancel", todo |-> working, failures |-> {},
                 sight |-> working \cup {c \in Contracts : positionRow[c] = "OPEN"}]
  /\ UNCHANGED <<market, books, modifier, inTheDark, crossed, takenBack, closeSent, limits>>

Done(c) == [panic EXCEPT !.todo = @ \ {c}]
Failed(c) == [panic EXCEPT !.todo = @ \ {c}, !.failures = @ \cup {c}]

(* cancelLiveOrder: the row becomes CANCELLED only when the reply says so. *)
PanicCancel(c) ==
  /\ panic.pc = "cancel" /\ c \in panic.todo
  /\ \/ /\ atBroker[c] = "open" /\ takenBack' = takenBack \cup {c} /\ panic' = Done(c)
        /\ \/ /\ atBroker' = [atBroker EXCEPT ![c] = "cancelled"]
              /\ orderRow' = [orderRow EXCEPT ![c] = "CANCELLED"]
           \/ UNCHANGED <<atBroker, orderRow>>
     \/ panic' = Failed(c) /\ UNCHANGED <<takenBack, atBroker, orderRow>>
  /\ UNCHANGED <<brokerSize, holds, rowSize, positionRow, modifier, inTheDark, crossed, closeSent, limits>>

PanicList ==
  /\ panic.pc = "cancel" /\ panic.todo = {}
  /\ panic' = [panic EXCEPT !.pc = "close", !.todo = {c \in Contracts : positionRow[c] = "OPEN"}]
  /\ UNCHANGED <<market, books, modifier, inTheDark, crossed, takenBack, closeSent, limits>>

(* squareOffLivePosition: a row no longer open throws, a lost or refused   *)
(* call throws, and a broker may refuse in the reply of a call it took.    *)
RefusedIsDone(c) == Done(c)
RefusedInReply(c) == Failed(c)

PanicClose(c) ==
  /\ panic.pc = "close" /\ c \in panic.todo
  /\ \/ positionRow[c] = "OPEN" /\ closeSent' = closeSent \cup {c} /\ panic' = Done(c)
     \/ positionRow[c] = "OPEN" /\ panic' = RefusedInReply(c) /\ UNCHANGED closeSent
     \/ panic' = Failed(c) /\ UNCHANGED closeSent
  /\ UNCHANGED <<market, books, modifier, inTheDark, crossed, takenBack, limits>>

PanicReport ==
  /\ panic.pc = "close" /\ panic.todo = {} /\ panic' = [panic EXCEPT !.pc = "done"]
  /\ UNCHANGED <<market, books, modifier, inTheDark, crossed, takenBack, closeSent, limits>>

ControlRestart ==
  /\ controlCrashes < MaxControlCrashes /\ controlCrashes' = controlCrashes + 1
  /\ panic' = IdlePanic
  /\ modifier' = [m \in Modifiers |-> IdleModifier]
  /\ inTheDark' = inTheDark \cup {modifier[m].contract : m \in {k \in Modifiers : modifier[k].pc = "reply"}}
  /\ UNCHANGED <<market, books, crossed, takenBack, closeSent, sweepsLeft>>

ControlNext ==
  \/ \E c \in Contracts : Fill(c) \/ LateCancel(c) \/ CloseFills(c) \/ SweepRow(c)
  \/ \E m \in Modifiers :
       ModifyAsk(m) \/ ModifyReply(m) \/ \E c \in Contracts, n \in Sizes : ModifyStart(m, c, n)
  \/ PanicStart \/ PanicList \/ PanicReport \/ ControlRestart
  \/ \E c \in Contracts : PanicCancel(c) \/ PanicClose(c)

ControlSpec == ControlInit /\ [][ControlNext]_ctrlVars

-----------------------------------------------------------------------------
(* "A panic that reports a position squared off when it is still open is   *)
(* the worst possible place": when it reports no failure, everything the   *)
(* rows showed when it began is flat, taken back, or has a close at the    *)
(* broker, whatever filled and was swept in between.                       *)
PanicOwnsUp ==
  panic.pc = "done" /\ panic.failures = {} =>
    \A c \in panic.sight : c \notin holds \/ c \in takenBack \cup closeSent

(* Once no resize of it is in flight, the row of a resting order carries   *)
(* the size the broker works, unless the reply that would have said so was *)
(* lost or the last resize overlapped another.  (Of two whose replies      *)
(* cross, the row keeps the one that was heard of last.)                   *)
ResizeAgrees ==
  \A c \in Contracts :
    atBroker[c] = "open" /\ InFlightFor(c) = {} /\ c \notin inTheDark \cup crossed =>
      rowSize[c] = brokerSize[c]
=============================================================================
