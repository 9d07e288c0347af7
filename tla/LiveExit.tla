------------------------------ MODULE LiveExit ------------------------------
(***************************************************************************)
(* Getting out: one open structure (its short and long contracts, opened   *)
(* by one TRADED group), the worker job that reconciles it with the broker *)
(* and then runs runPositionStops and runLiveExitEngine over it, and the   *)
(* API requests that act on the same rows meanwhile: a manual square-off,  *)
(* an on-demand reconcile, a stop set by the trader.                       *)
(*                                                                         *)
(* The order half of the reconciliation is one step here; LivePlacement    *)
(* takes it apart.                                                         *)
(***************************************************************************)
EXTENDS LiveOrders, Integers, FiniteSets

CONSTANTS
  Shorts, Wings,  \* the contracts of the structure, sold and bought
  Rules,          \* the exit rules that may fire
  None,           \* no contract, no order
  Kinds,          \* the disturbances a behaviour may meet
  MaxKinds        \* bound: how many of them it meets

Secs  == Shorts \cup Wings
Procs == {"worker", "api"}

AllKinds == {"crash", "noClient", "unreachable", "abort", "external",
             "apiExit", "apiReconcile", "setStop"}

ASSUME StructureAssumption ==
  /\ Shorts \cap Wings = {} /\ None \notin Secs \cup Orders
  /\ Rules \cap (Secs \cup {None, "none", "STOP", "MANUAL", "EXTERNAL"}) = {}
ASSUME KindsAssumption == Kinds \subseteq AllKinds /\ MaxKinds \in Nat

VARIABLES
  \* the LivePosition rows, the newest of each contract, and LiveExitEvent
  pos,        \* contract -> [open, qty, reason, stop]
  event,      \* rule -> the action recorded for the group, none at first
  \* columns of the CLOSE orders
  oSec,       \* order -> contract
  oQty,       \* order -> signed quantity, BUY positive
  \* the broker's position list, and the feed
  net,        \* contract -> net quantity
  holds,      \* the stops and rules whose condition the marks meet
  \* squareOffForAccount and reconcileLiveAccount, as each process runs them
  sq, rec,
  \* the worker job: its place, the stops and legs still to visit, the rule
  \* that fired and what its legs came to
  wpc, stopTodo, legTodo, rule, group, shortIds, shortsFlat, closed, failed,
  kinds,      \* disturbances so far
  torn,       \* contracts whose row a sweep closed, and was cut off from stamping
  abandoned   \* rules recorded whose legs the engine was cut off from

tables  == <<pos, event, oSec, oQty>>
job     == <<wpc, stopTodo, legTodo, rule, group, shortIds, shortsFlat, closed, failed>>
toll    == <<kinds, torn, abandoned>>
vars    == <<rows, broker, tables, net, holds, sq, rec, job, toll>>

-----------------------------------------------------------------------------
Sign(x) == IF x > 0 THEN 1 ELSE IF x < 0 THEN -1 ELSE 0
Size(x) == IF x < 0 THEN -x ELSE x

(* A disturbance of kind k, counted against the bound.                     *)
Count(k) == k \in Kinds /\ kinds < MaxKinds /\ kinds' = kinds + 1
Disturb(k) == Count(k) /\ UNCHANGED <<torn, abandoned>>

(* Mutant of InFlight: the shorter list the panic button uses.             *)
InFlightSent(c) ==
  \E o \in Orders : oSec[o] = c /\ status[o] \in {"SENT", "OPEN", "PARTIAL"}

(* The duplicate guard of both exit paths: a CLOSE row of the contract     *)
(* that is not known to have ended.                                        *)
InFlight(c) == \E o \in Orders : oSec[o] = c /\ status[o] \in NonTerminal

(* Bound: with the pool of orders used up, an exit path passes a contract  *)
(* it would have closed.                                                   *)
Room == \E o \in Orders : status[o] = "NONE"
Fresh == CHOOSE o \in Orders : status[o] = "NONE"

-----------------------------------------------------------------------------
(* The broker fills closing orders and moves its net positions with them.  *)
(* (Nothing here tells a late rejection from a cancel.)                    *)
BrokerStep ==
  /\ \E o \in Orders :
       \/ /\ \E s \in Acks :
               /\ BookAccept(o, s, Size(oQty[o]))
               /\ net' = IF s = "TRADED" THEN [net EXCEPT ![oSec[o]] = @ + oQty[o]] ELSE net
       \/ /\ BookFill(o, Size(oQty[o]))
          /\ net' = [net EXCEPT ![oSec[o]] = @ + Sign(oQty[o])]
       \/ /\ \/ BookRefuse(o) \/ BookOpen(o)
             \/ \E s \in {"CANCELLED", "OTHER"} : BookEnd(o, s)
          /\ UNCHANGED net
  /\ UNCHANGED <<rows, tables, holds, sq, rec, job, toll>>

(* The trader flattens a contract in the broker's own app.                 *)
External(c) ==
  /\ net[c] # 0 /\ Disturb("external")
  /\ net' = [net EXCEPT ![c] = 0]
  /\ UNCHANGED <<rows, broker, tables, holds, sq, rec, job>>

(* The premium runs past a stop that is set, or was when the job listed    *)
(* it, or meets a rule, and stays there.                                   *)
MarkMoves(x) ==
  /\ x \notin holds
  /\ x \in Secs => pos[x].stop \/ x \in stopTodo
  /\ holds' = holds \cup {x}
  /\ UNCHANGED <<rows, broker, tables, net, sq, rec, job, toll>>

-----------------------------------------------------------------------------
(* squareOffForAccount(p), a subroutine: "read" when it is called, "ok",   *)
(* "okNoId" or "fail" when it has returned.                                *)
NoCall == [pc |-> "off", sec |-> None, qty |-> 0, order |-> None, reason |-> "none"]
Call(c, why) == [NoCall EXCEPT !.pc = "read", !.sec = c, !.reason = why]
Returned(p) == sq[p].pc \in {"ok", "okNoId", "fail"}

SqRead(p) ==
  /\ sq[p].pc = "read"
  /\ LET row == pos[sq[p].sec]
     IN sq' = [sq EXCEPT ![p] =
                 IF row.open /\ row.qty # 0
                 THEN [@ EXCEPT !.pc = "stamp", !.qty = row.qty]
                 ELSE [@ EXCEPT !.pc = "fail"]]
  /\ UNCHANGED <<rows, broker, tables, net, holds, rec, job, toll>>

(* The reason is stamped on the position before anything is sent, whatever *)
(* the row says by now.                                                    *)
SqStamp(p) ==
  /\ sq[p].pc = "stamp"
  /\ pos' = [pos EXCEPT ![sq[p].sec].reason = sq[p].reason]
  /\ sq' = [sq EXCEPT ![p].pc = "create"]
  /\ UNCHANGED <<event, oSec, oQty, rows, broker, net, holds, rec, job, toll>>

(* The CLOSE row is persisted: opposite side, the quantity as it was read. *)
SqCreate(p) ==
  /\ sq[p].pc = "create" /\ Room
  /\ LET o == Fresh
     IN /\ RowCreate(o)
        /\ oSec' = [oSec EXCEPT ![o] = sq[p].sec]
        /\ oQty' = [oQty EXCEPT ![o] = -sq[p].qty]
        /\ sq' = [sq EXCEPT ![p].pc = "created", ![p].order = o]
  /\ UNCHANGED <<pos, event, broker, net, holds, rec, job, toll>>

(* The insert throws: here, when the pool of orders is used up (a bound).  *)
SqNoRoom(p) ==
  /\ sq[p].pc = "create" /\ ~Room
  /\ sq' = [sq EXCEPT ![p].pc = "fail"]
  /\ UNCHANGED <<tables, rows, broker, net, holds, rec, job, toll>>

(* getUserDhanClient throws, after the row exists and outside the try.     *)
SqNoClient(p) ==
  /\ sq[p].pc = "created" /\ Disturb("noClient")
  /\ sq' = [sq EXCEPT ![p].pc = "fail"]
  /\ UNCHANGED <<rows, broker, tables, net, holds, rec, job>>

SqSend(p) ==
  /\ sq[p].pc = "created"
  /\ RowSend(sq[p].order)
  /\ sq' = [sq EXCEPT ![p].pc = "calling"]
  /\ UNCHANGED <<tables, net, holds, rec, job, toll>>

(* A reply of any status is a normal return; a 4xx and a lost reply throw, *)
(* and here nothing probes the order book for a lost one.                  *)
SqReply(p) ==
  /\ sq[p].pc = "calling"
  /\ \/ \E hasId \in BOOLEAN :
          /\ RowReply(sq[p].order, hasId)
          /\ sq' = [sq EXCEPT ![p].pc = IF hasId THEN "ok" ELSE "okNoId"]
     \/ /\ RowRefused(sq[p].order) \/ RowUnknown(sq[p].order)
        /\ sq' = [sq EXCEPT ![p].pc = "fail"]
  /\ UNCHANGED <<broker, tables, net, holds, rec, job, toll>>

-----------------------------------------------------------------------------
(* reconcileLiveAccount(p): the order book is read, then the positions,    *)
(* then the order rows are written, then the position rows.                *)
NoSweep == [pc |-> "off",
            book |-> [o \in Orders |-> [st |-> "ABSENT", filled |-> 0]],
            net |-> [c \in Secs |-> 0], todo |-> {}, closing |-> {}]

RecBook(p) ==
  /\ rec[p].pc = "book"
  /\ rec' = [rec EXCEPT
       ![p].pc = "net",
       ![p].book = [o \in Orders |-> [st |-> book[o], filled |-> bookFilled[o]]]]
  /\ UNCHANGED <<rows, broker, tables, net, holds, sq, job, toll>>

RecNet(p) ==
  /\ rec[p].pc = "net"
  /\ rec' = [rec EXCEPT ![p].pc = "orders", ![p].net = net]
  /\ UNCHANGED <<rows, broker, tables, net, holds, sq, job, toll>>

(* The broker cannot be read, or the token has expired: nothing is written.*)
RecUnreachable(p) ==
  /\ rec[p].pc \in {"book", "net"} /\ Disturb("unreachable")
  /\ rec' = [rec EXCEPT ![p] = NoSweep]
  /\ UNCHANGED <<rows, broker, tables, net, holds, sq, job>>

(* Mutant of RecOrders: an order book read after the positions.            *)
RecOrdersLateBook(p) ==
  /\ rec[p].pc = "orders"
  /\ LET hit == {o \in Orders : status[o] \in NonTerminal /\ book[o] # "ABSENT"}
     IN /\ status' = [o \in Orders |->
             IF o \in hit THEN MapBrokerStatus(book[o]) ELSE status[o]]
        /\ brokerId' = [o \in Orders |-> o \in hit \/ brokerId[o]]
        /\ filledQty' = [o \in Orders |-> IF o \in hit THEN bookFilled[o] ELSE filledQty[o]]
  /\ rec' = [rec EXCEPT ![p].pc = "positions", ![p].todo = Secs, ![p].book = NoSweep.book]
  /\ UNCHANGED <<broker, tables, net, holds, sq, job, toll>>

RecOrders(p) ==
  /\ rec[p].pc = "orders"
  /\ LET seen == rec[p].book
         hit == {o \in Orders :
                   /\ status[o] \in NonTerminal /\ seen[o].st # "ABSENT"
                   /\ \/ MapBrokerStatus(seen[o].st) # status[o]
                      \/ seen[o].filled # filledQty[o]}
     IN /\ status' = [o \in Orders |->
             IF o \in hit THEN MapBrokerStatus(seen[o].st) ELSE status[o]]
        /\ brokerId' = [o \in Orders |-> o \in hit \/ brokerId[o]]
        /\ filledQty' = [o \in Orders |-> IF o \in hit THEN seen[o].filled ELSE filledQty[o]]
  /\ rec' = [rec EXCEPT ![p].pc = "positions", ![p].todo = Secs, ![p].book = NoSweep.book]
  /\ UNCHANGED <<broker, tables, net, holds, sq, job, toll>>

(* Any statement may throw, and the rest of the sweep is left undone.      *)
RecAbort(p) ==
  /\ rec[p].pc \in {"orders", "positions", "stamp"} /\ Count("abort")
  /\ rec' = [rec EXCEPT ![p] = NoSweep]
  /\ torn' = torn \cup rec[p].closing
  /\ UNCHANGED <<abandoned, rows, broker, tables, net, holds, sq, job>>

(* The position rows, one after the other and here in any order: a         *)
(* contract the broker lists with quantity is updated, or gets a new row;  *)
(* one it lists flat is closed, and stamped by a statement of its own; one *)
(* it no longer lists is closed and stamped at once.                       *)
Row(p, c) == rec[p].pc = "positions" /\ c \in rec[p].todo
RowDone(p, c) == rec' = [rec EXCEPT ![p].todo = rec[p].todo \ {c}]
RecWrites == UNCHANGED <<event, oSec, oQty, rows, broker, net, holds, sq, job, kinds, abandoned>>

RecSeen(p, c) ==
  /\ Row(p, c) /\ rec[p].net[c] # 0
  /\ pos' = [pos EXCEPT ![c] =
       IF pos[c].open THEN [pos[c] EXCEPT !.qty = rec[p].net[c]]
       ELSE [open |-> TRUE, qty |-> rec[p].net[c], reason |-> "none", stop |-> FALSE]]
  /\ torn' = IF pos[c].open THEN torn ELSE torn \ {c}
  /\ RowDone(p, c) /\ RecWrites

RecFlat(p, c) ==
  /\ Row(p, c) /\ rec[p].net[c] = 0 /\ pos[c].open
  /\ pos' = [pos EXCEPT ![c] = [pos[c] EXCEPT !.open = FALSE, !.qty = 0]]
  /\ rec' = [rec EXCEPT ![p].pc = "stamp", ![p].todo = rec[p].todo \ {c},
                        ![p].closing = {c}]
  /\ UNCHANGED torn /\ RecWrites

RecUnlisted(p, c) ==
  /\ Row(p, c) /\ rec[p].net[c] = 0 /\ pos[c].open
  /\ pos' = [pos EXCEPT ![c] = [pos[c] EXCEPT !.open = FALSE,
                 !.reason = IF pos[c].reason = "none" THEN "EXTERNAL" ELSE pos[c].reason]]
  /\ UNCHANGED torn /\ RowDone(p, c) /\ RecWrites

RecClosed(p, c) ==
  /\ Row(p, c) /\ rec[p].net[c] = 0 /\ ~pos[c].open
  /\ UNCHANGED <<pos, torn>> /\ RowDone(p, c) /\ RecWrites

(* Mutant of RecStamp: the second statement is missing.                    *)
RecStampMissing(p) ==
  /\ rec[p].pc = "stamp"
  /\ rec' = [rec EXCEPT ![p].pc = "positions", ![p].closing = {}]
  /\ UNCHANGED <<tables, rows, broker, net, holds, sq, job, toll>>

(* Nothing here asked for this close.                                      *)
RecStamp(p) ==
  /\ rec[p].pc = "stamp"
  /\ pos' = [c \in Secs |->
       IF c \in rec[p].closing /\ ~pos[c].open /\ pos[c].reason = "none"
       THEN [pos[c] EXCEPT !.reason = "EXTERNAL"] ELSE pos[c]]
  /\ rec' = [rec EXCEPT ![p].pc = "positions", ![p].closing = {}]
  /\ UNCHANGED <<event, oSec, oQty, rows, broker, net, holds, sq, job, toll>>

RecDone(p) ==
  /\ rec[p].pc = "positions" /\ rec[p].todo = {}
  /\ rec' = [rec EXCEPT ![p] = NoSweep]
  /\ UNCHANGED <<tables, rows, broker, net, holds, sq, job, toll>>

-----------------------------------------------------------------------------
(* The worker job.                                                         *)

(* Mutant of JobStart: only a working order makes an account worth a look. *)
JobStartOrdersOnly ==
  /\ wpc = "idle"
  /\ \E o \in Orders : status[o] \in NonTerminal
  /\ wpc' = "reconcile"
  /\ rec' = [rec EXCEPT !["worker"].pc = "book"]
  /\ UNCHANGED <<stopTodo, legTodo, rule, group, shortIds, shortsFlat, closed, failed,
                 rows, broker, tables, net, holds, sq, toll>>

(* reconcileAllLiveAccounts skips an account with nothing outstanding.     *)
JobStart ==
  /\ wpc = "idle"
  /\ \/ \E o \in Orders : status[o] \in NonTerminal
     \/ \E c \in Secs : pos[c].open
  /\ wpc' = "reconcile"
  /\ rec' = [rec EXCEPT !["worker"].pc = "book"]
  /\ UNCHANGED <<stopTodo, legTodo, rule, group, shortIds, shortsFlat, closed, failed,
                 rows, broker, tables, net, holds, sq, toll>>

(* Mutant of StopsStart: the reconciliation is started and not awaited.    *)
StopsStartEarly ==
  /\ wpc = "reconcile"
  /\ stopTodo' = {c \in Secs : pos[c].open /\ pos[c].stop}
  /\ wpc' = "stops"
  /\ UNCHANGED <<legTodo, rule, group, shortIds, shortsFlat, closed, failed,
                 rows, broker, tables, net, holds, sq, rec, toll>>

(* The exits run on the same tick, however the reconciliation ended.       *)
StopsStart ==
  /\ wpc = "reconcile" /\ rec["worker"].pc = "off"
  /\ stopTodo' = {c \in Secs : pos[c].open /\ pos[c].stop}
  /\ wpc' = "stops"
  /\ UNCHANGED <<legTodo, rule, group, shortIds, shortsFlat, closed, failed,
                 rows, broker, tables, net, holds, sq, rec, toll>>

(* Not breached, or a close is in flight.                                  *)
StopSkip(c) ==
  /\ wpc = "stops" /\ c \in stopTodo /\ sq["worker"].pc = "off"
  /\ c \notin holds \/ InFlight(c) \/ ~Room
  /\ stopTodo' = stopTodo \ {c}
  /\ UNCHANGED <<wpc, legTodo, rule, group, shortIds, shortsFlat, closed, failed,
                 rows, broker, tables, net, holds, sq, rec, toll>>

StopFire(c) ==
  /\ wpc = "stops" /\ c \in stopTodo /\ sq["worker"].pc = "off"
  /\ c \in holds /\ ~InFlight(c) /\ Room
  /\ sq' = [sq EXCEPT !["worker"] = Call(c, "STOP")]
  /\ UNCHANGED <<job, rows, broker, tables, net, holds, rec, toll>>

(* The stop is cleared on a normal return and left set on a throw.         *)
StopDone ==
  /\ wpc = "stops" /\ Returned("worker")
  /\ LET c == sq["worker"].sec
     IN /\ pos' = [pos EXCEPT ![c].stop = @ /\ sq["worker"].pc = "fail"]
        /\ stopTodo' = stopTodo \ {c}
  /\ sq' = [sq EXCEPT !["worker"] = NoCall]
  /\ UNCHANGED <<wpc, legTodo, rule, group, shortIds, shortsFlat, closed, failed,
                 event, oSec, oQty, rows, broker, net, holds, rec, toll>>

StopsEnd ==
  /\ wpc = "stops" /\ stopTodo = {}
  /\ wpc' = "engine"
  /\ UNCHANGED <<stopTodo, legTodo, rule, group, shortIds, shortsFlat, closed, failed,
                 rows, broker, tables, net, holds, sq, rec, toll>>

(* runLiveExitEngine.  The legs of the group are the filled orders whose   *)
(* contract has an open position.                                          *)
OpenLegs == {c \in Secs : pos[c].open}

(* No structure, no rule that holds, or one that has fired before.         *)
EnginePass ==
  /\ wpc = "engine"
  /\ OpenLegs = {} \/ holds \cap Rules = {} \/ \E r \in holds \cap Rules : event[r] # "none"
  /\ wpc' = "idle"
  /\ UNCHANGED <<stopTodo, legTodo, rule, group, shortIds, shortsFlat, closed, failed,
                 rows, broker, tables, net, holds, sq, rec, toll>>

(* The event is created first; the account's autoExitEnabled decides       *)
(* whether anything follows it.                                            *)
EngineFlag(r) ==
  /\ wpc = "engine" /\ OpenLegs # {} /\ r \in holds \cap Rules /\ event[r] = "none"
  /\ event' = [event EXCEPT ![r] = "FLAGGED"]
  /\ wpc' = "idle"
  /\ UNCHANGED <<stopTodo, legTodo, rule, group, shortIds, shortsFlat, closed, failed,
                 pos, oSec, oQty, rows, broker, net, holds, sq, rec, toll>>

EngineFire(r) ==
  /\ wpc = "engine" /\ OpenLegs # {} /\ r \in holds \cap Rules /\ event[r] = "none"
  /\ event' = [event EXCEPT ![r] = "AUTO_CLOSED"]
  /\ rule' = r /\ group' = OpenLegs /\ legTodo' = OpenLegs
  /\ wpc' = "legs"
  /\ UNCHANGED <<stopTodo, shortIds, shortsFlat, closed, failed,
                 pos, oSec, oQty, rows, broker, net, holds, sq, rec, toll>>

(* The variables of one fired rule, when there is none.                    *)
RuleOver ==
  /\ wpc' = "idle" /\ rule' = None /\ group' = {} /\ legTodo' = {}
  /\ shortIds' = {} /\ shortsFlat' = FALSE /\ closed' = 0 /\ failed' = FALSE

(* getUserDhanClient throws out of the engine, past the event.             *)
EngineNoClient ==
  /\ wpc = "legs" /\ legTodo = group /\ closed = 0 /\ ~failed /\ sq["worker"].pc = "off"
  /\ Count("noClient") /\ abandoned' = abandoned \cup {rule}
  /\ RuleOver
  /\ UNCHANGED <<torn, stopTodo, rows, broker, tables, net, holds, sq, rec>>

(* orderCloseSequence: every short leg comes before every wing.  A wing    *)
(* waits for the short closes that came back with a broker id.             *)
AtLeg(c) ==
  /\ wpc = "legs" /\ sq["worker"].pc = "off"
  /\ c \in legTodo /\ (c \in Wings => legTodo \cap Shorts = {})
MustWait(c) == c \in Wings /\ shortIds # {} /\ ~shortsFlat

(* waitForOrderFills, of which LivePlacement has the polls.                *)
WaitFilled(c) ==
  /\ AtLeg(c) /\ MustWait(c)
  /\ \A o \in shortIds : book[o] = "TRADED"
  /\ shortsFlat' = TRUE
  /\ UNCHANGED <<wpc, stopTodo, legTodo, rule, group, shortIds, closed, failed,
                 rows, broker, tables, net, holds, sq, rec, toll>>

(* Mutant of WaitGivesUp: the timeout is taken for a fill.                 *)
WaitGoesOn(c) ==
  /\ AtLeg(c) /\ MustWait(c)
  /\ shortsFlat' = TRUE
  /\ UNCHANGED <<wpc, stopTodo, legTodo, rule, group, shortIds, closed, failed,
                 rows, broker, tables, net, holds, sq, rec, toll>>

(* Rejected, cancelled or fifteen seconds gone: the wings are left alone.  *)
WaitGivesUp(c) ==
  /\ AtLeg(c) /\ MustWait(c)
  /\ failed' = TRUE
  /\ legTodo' = {}
  /\ UNCHANGED <<wpc, stopTodo, rule, group, shortIds, shortsFlat, closed,
                 rows, broker, tables, net, holds, sq, rec, toll>>

(* The row is gone, which is no failure, or a close is in flight, which is.*)
LegSkip(c) ==
  /\ AtLeg(c) /\ ~MustWait(c)
  /\ \/ /\ ~pos[c].open \/ pos[c].qty = 0
        /\ UNCHANGED failed
     \/ /\ pos[c].open /\ pos[c].qty # 0 /\ (InFlight(c) \/ ~Room)
        /\ failed' = TRUE
  /\ legTodo' = legTodo \ {c}
  /\ UNCHANGED <<wpc, stopTodo, rule, group, shortIds, shortsFlat, closed,
                 rows, broker, tables, net, holds, sq, rec, toll>>

LegClose(c) ==
  /\ AtLeg(c) /\ ~MustWait(c)
  /\ pos[c].open /\ pos[c].qty # 0 /\ ~InFlight(c) /\ Room
  /\ sq' = [sq EXCEPT !["worker"] = Call(c, rule)]
  /\ UNCHANGED <<job, rows, broker, tables, net, holds, rec, toll>>

(* Mutant of LegDone: any normal return counts as a close.                 *)
LegDoneTrusting ==
  /\ wpc = "legs" /\ Returned("worker")
  /\ LET s == sq["worker"]
     IN /\ closed' = closed + (IF s.pc = "fail" THEN 0 ELSE 1)
        /\ failed' = (failed \/ s.pc = "fail")
        /\ shortIds' = IF s.sec \in Shorts /\ s.pc = "ok" THEN shortIds \cup {s.order} ELSE shortIds
        /\ legTodo' = legTodo \ {s.sec}
  /\ sq' = [sq EXCEPT !["worker"] = NoCall]
  /\ UNCHANGED <<wpc, stopTodo, rule, group, shortsFlat, rows, broker, tables, net, holds,
                 rec, toll>>

(* A reply that says REJECTED is a failure of the leg, like a throw.       *)
LegDone ==
  /\ wpc = "legs" /\ Returned("worker")
  /\ LET s == sq["worker"]
         sent == s.pc # "fail" /\ MapBrokerStatus(ack[s.order]) \notin {"REJECTED", "CANCELLED"}
     IN /\ closed' = closed + (IF sent THEN 1 ELSE 0)
        /\ failed' = (failed \/ ~sent)
        /\ shortIds' = IF sent /\ s.sec \in Shorts /\ s.pc = "ok"
                       THEN shortIds \cup {s.order} ELSE shortIds
        /\ legTodo' = legTodo \ {s.sec}
  /\ sq' = [sq EXCEPT !["worker"] = NoCall]
  /\ UNCHANGED <<wpc, stopTodo, rule, group, shortsFlat, rows, broker, tables, net, holds,
                 rec, toll>>

(* The event is rewritten with what happened.                              *)
EngineEnd ==
  /\ wpc = "legs" /\ legTodo = {} /\ sq["worker"].pc = "off"
  /\ event' = [event EXCEPT ![rule] =
       IF closed > 0 /\ ~failed THEN "AUTO_CLOSED" ELSE "FAILED"]
  /\ RuleOver
  /\ UNCHANGED <<stopTodo, pos, oSec, oQty, rows, broker, net, holds, sq, rec, toll>>

(* The worker process restarts.                                            *)
WorkerCrash ==
  /\ wpc # "idle" /\ Count("crash")
  /\ torn' = torn \cup rec["worker"].closing
  /\ abandoned' = IF wpc = "legs" THEN abandoned \cup {rule} ELSE abandoned
  /\ RuleOver /\ stopTodo' = {}
  /\ sq' = [sq EXCEPT !["worker"] = NoCall]
  /\ rec' = [rec EXCEPT !["worker"] = NoSweep]
  /\ UNCHANGED <<rows, broker, tables, net, holds>>

-----------------------------------------------------------------------------
(* The API requests.                                                       *)

(* squareOffLivePosition, a person clicking Exit: no duplicate guard.      *)
ManualExit(c) ==
  /\ sq["api"].pc = "off" /\ Room /\ Disturb("apiExit")
  /\ sq' = [sq EXCEPT !["api"] = Call(c, "MANUAL")]
  /\ UNCHANGED <<rows, broker, tables, net, holds, rec, job>>

ManualDone ==
  /\ Returned("api")
  /\ sq' = [sq EXCEPT !["api"] = NoCall]
  /\ UNCHANGED <<rows, broker, tables, net, holds, rec, job, toll>>

ManualReconcile ==
  /\ rec["api"].pc = "off" /\ Disturb("apiReconcile")
  /\ rec' = [rec EXCEPT !["api"].pc = "book"]
  /\ UNCHANGED <<rows, broker, tables, net, holds, sq, job>>

(* setPositionStop: a level the premium has not reached, or none.          *)
SetStop(c) ==
  /\ pos[c].open /\ Disturb("setStop")
  /\ \E armed \in BOOLEAN : pos' = [pos EXCEPT ![c].stop = armed]
  /\ holds' = holds \ {c}
  /\ UNCHANGED <<event, oSec, oQty, rows, broker, net, sq, rec, job>>

-----------------------------------------------------------------------------
Init ==
  /\ OrdersInit
  /\ net = [c \in Secs |-> IF c \in Shorts THEN -Qty ELSE Qty]
  /\ \E armed \in [Secs -> BOOLEAN] :
       pos = [c \in Secs |->
                [open |-> TRUE, qty |-> net[c], reason |-> "none", stop |-> armed[c]]]
  /\ event = [r \in Rules |-> "none"]
  /\ oSec = [o \in Orders |-> None] /\ oQty = [o \in Orders |-> 0]
  /\ holds = {}
  /\ sq = [p \in Procs |-> NoCall] /\ rec = [p \in Procs |-> NoSweep]
  /\ wpc = "idle" /\ stopTodo = {} /\ legTodo = {} /\ rule = None /\ group = {}
  /\ shortIds = {} /\ shortsFlat = FALSE /\ closed = 0 /\ failed = FALSE
  /\ kinds = 0 /\ torn = {} /\ abandoned = {}

SqStep(p) == SqRead(p) \/ SqStamp(p) \/ SqCreate(p) \/ SqNoRoom(p) \/ SqSend(p) \/ SqReply(p)
RecRow(p, c) == RecSeen(p, c) \/ RecFlat(p, c) \/ RecUnlisted(p, c) \/ RecClosed(p, c)
RecStep(p) ==
  \/ RecBook(p) \/ RecNet(p) \/ RecOrders(p) \/ RecStamp(p) \/ RecDone(p)
  \/ \E c \in Secs : RecRow(p, c)

WorkerStep ==
  \/ JobStart \/ RecStep("worker") \/ SqStep("worker")
  \/ StopsStart \/ StopDone \/ StopsEnd
  \/ \E c \in Secs : StopSkip(c) \/ StopFire(c)
  \/ EnginePass \/ \E r \in Rules : EngineFlag(r) \/ EngineFire(r)
  \/ \E c \in Secs : WaitFilled(c) \/ WaitGivesUp(c) \/ LegSkip(c) \/ LegClose(c)
  \/ LegDone \/ EngineEnd

ApiStep == SqStep("api") \/ RecStep("api") \/ ManualDone

Disturbance ==
  \/ WorkerCrash \/ EngineNoClient \/ ManualReconcile
  \/ \E p \in Procs : SqNoClient(p) \/ RecUnreachable(p) \/ RecAbort(p)
  \/ \E c \in Secs : External(c) \/ ManualExit(c) \/ SetStop(c)

Next ==
  \/ WorkerStep \/ ApiStep \/ BrokerStep \/ Disturbance
  \/ \E x \in Secs \cup Rules : MarkMoves(x)

Spec == Init /\ [][Next]_vars

(* The scheduler keeps the job running; a running request goes on.         *)
FairSpec == Spec /\ WF_vars(WorkerStep) /\ WF_vars(ApiStep)

-----------------------------------------------------------------------------
Reasons == Rules \cup {"none", "STOP", "MANUAL", "EXTERNAL"}

PosRow == [open : BOOLEAN, qty : Int, reason : Reasons, stop : BOOLEAN]
CallState == [pc : {"off", "read", "stamp", "create", "created", "calling",
                    "ok", "okNoId", "fail"},
              sec : Secs \cup {None}, qty : Int,
              order : Orders \cup {None}, reason : Reasons]
SweepState == [pc : {"off", "book", "net", "orders", "positions", "stamp"},
               book : [Orders -> [st : BrokerStatus \cup {"ABSENT"}, filled : Nat]],
               net : [Secs -> Int], todo : SUBSET Secs, closing : SUBSET Secs]

(* Every variable holds a value of its kind.                               *)
TypeOK ==
  /\ OrdersTyped(Nat)
  /\ pos \in [Secs -> PosRow]
  /\ event \in [Rules -> {"none", "FLAGGED", "AUTO_CLOSED", "FAILED"}]
  /\ oSec \in [Orders -> Secs \cup {None}] /\ oQty \in [Orders -> Int]
  /\ net \in [Secs -> Int] /\ holds \subseteq Secs \cup Rules
  /\ sq \in [Procs -> CallState] /\ rec \in [Procs -> SweepState]
  /\ wpc \in {"idle", "reconcile", "stops", "engine", "legs"}
  /\ stopTodo \subseteq Secs /\ legTodo \subseteq Secs /\ group \subseteq Secs
  /\ rule \in Rules \cup {None} /\ shortIds \subseteq Orders
  /\ shortsFlat \in BOOLEAN /\ closed \in Nat /\ failed \in BOOLEAN
  /\ kinds \in 0..MaxKinds /\ torn \subseteq Secs /\ abandoned \subseteq Rules

(* The order is at the broker, or on its way there.                        *)
Alive(o) == wire[o] = "out" \/ book[o] \in BrokerWorking

(* "Never place a second closing order for a contract that already has one *)
(* working": across stops, engine legs, failed sweeps and restarts, the    *)
(* broker holds at most one live close of a contract.  (A person clicking  *)
(* Exit twice is not held back, and is left out of the runs.)              *)
NoDoubleClose ==
  \A c \in Secs : \A o, m \in Orders :
    oSec[o] = c /\ oSec[m] = c /\ Alive(o) /\ Alive(m) => o = m

(* The same guard's purpose, "without any chance of doubling the position  *)
(* the other way": a short never turns long, a wing never turns short.     *)
NoFlip ==
  /\ \A c \in Shorts : net[c] <= 0
  /\ \A c \in Wings : net[c] >= 0

(* The job runs the exits after the reconciliation "so they are never      *)
(* evaluated against a position the broker has already closed": no stop    *)
(* fires on a flat contract, even after a sweep that could not read the    *)
(* broker.  (A sweep that fails between its two halves, RecAbort, breaks   *)
(* it, and is left out of this run.)                                       *)
StopsSeeBroker == [][\A c \in Secs : StopFire(c) => net[c] # 0]_vars

(* The engine releases a wing only once every short close that it placed   *)
(* and that has a broker id is filled.                                     *)
WingAfterShort ==
  wpc = "legs" /\ sq["worker"].sec \in Wings =>
    \A o \in shortIds : book[o] = "TRADED"

(* "While the short is still live the wing is doing its job, and selling   *)
(* it is the one thing that must not happen here."  The code does not keep *)
(* this when the short's close was rejected, lost, or already in flight.   *)
WingGuarded ==
  wpc = "legs" /\ sq["worker"].sec \in Wings /\ sq["worker"].pc = "calling" =>
    \A c \in group \cap Shorts : net[c] = 0

Closing(c) ==
  \/ ~pos[c].open
  \/ \E o \in Orders : oSec[o] = c /\ wire[o] = "landed" /\ ack[o] # "REJECTED"

(* A structure recorded as AUTO_CLOSED, with the engine done with it and   *)
(* not cut off, has every leg closed or a close of it accepted by the      *)
(* broker.                                                                 *)
AutoClosedMeansSent ==
  \A r \in Rules : event[r] = "AUTO_CLOSED" /\ rule # r /\ r \notin abandoned =>
    \A c \in Secs : Closing(c)

(* A closed position says why, once the sweep that closed it has moved on, *)
(* unless that sweep was cut off before it stamped the row.                *)
ReasonRecorded ==
  \A c \in Secs :
    ~pos[c].open /\ c \notin torn /\ (\A p \in Procs : c \notin rec[p].closing)
      => pos[c].reason # "none"

(* A position the broker shows flat comes to be closed here, and to say    *)
(* why unless a sweep was cut off from stamping it, whatever reads and     *)
(* writes fail on the way.                                                 *)
FlatIsSeen ==
  \A c \in Secs :
    net[c] = 0 ~> \/ ~pos[c].open /\ (pos[c].reason # "none" \/ c \in torn)
                 \/ net[c] # 0

(* The engine's record and its order of closes, with the kinds of all      *)
(* variables: no wing before its short, no closed position without a       *)
(* reason.                                                                 *)
ExitIsSound == TypeOK /\ WingAfterShort /\ ReasonRecorded
=============================================================================
