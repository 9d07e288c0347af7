-------------------------- MODULE PaperBook_proofs --------------------------
(***************************************************************************)
(* The paper book implements the ledger, for any orders, prices, edits and *)
(* restarts.  What carries the proof: a position exists only where the     *)
(* order was filled, a trade only where the position is closed, and every  *)
(* pass holds a level and a reason a trade may be written with.            *)
(***************************************************************************)
EXTENDS PaperBook, TLAPS

Amounts == 0..(Top + Slip)
Rows == [st : {"NONE", "OPEN", "CLOSED"}, entry : Int, cur : Amounts, stop : Int,
         best : Int, streak : Int]
Ticks == [price : 0..Top, signal : Signals \cup {"none"}, held : Int]
Branches ==
  [at : {"off", "price", "fill", "tick", "streak", "write", "recheck", "close"},
   price : Amounts, row : Rows, tick : Ticks, reason : {"none", "TARGET", "STOP_LOSS"}]
Reasons == {"TARGET", "STOP_LOSS", "MANUAL", "EXPIRED"}

RowsTyped ==
  /\ ord \in [Orders -> [st : {"NONE", "PENDING", "FILLED", "CANCELLED"}, req : 0..Top]]
  /\ pos \in [Orders -> Rows]
  /\ trade \in [Orders -> SUBSET (Amounts \X Reasons)]
  /\ tick \in Ticks

(* A branch that is about to close a position knows why.                   *)
BranchesTyped ==
  /\ br \in [Refreshers -> [Orders -> Branches]]
  /\ \A p \in Refreshers, o \in Orders :
       br[p][o].at \in {"recheck", "close"} => br[p][o].reason # "none"
  /\ \A p \in Refreshers, o \in Orders :
       br[p][o].at \in {"price", "fill"} => br[p][o].price \in 0..Top

Asked == [op : {"none", "edit", "cancel", "risk", "close"},
          at : {"off", "write", "refresh", "close"},
          o : SUBSET Orders, level : Amounts, best : Int]
RequestTyped == api \in Asked

(* An order that is edited or cancelled was placed, a position's order is  *)
(* no longer pending, and only a closed position has a trade.              *)
Coherent ==
  /\ api.op \in {"edit", "cancel"} =>
       api.at = "write" /\ api.level \in 0..Top /\ \A o \in api.o : ord[o].st # "NONE"
  /\ \A o \in Orders : pos[o].st # "NONE" => ord[o].st \in {"FILLED", "CANCELLED"}
  /\ \A o \in Orders : pos[o].st # "CLOSED" => trade[o] = {}

BookInv == RowsTyped /\ BranchesTyped /\ RequestTyped /\ Coherent

LEMMA Constants ==
  /\ Top \in Nat /\ Slip \in Nat /\ Trail \in Nat /\ StreakRequired \in Nat
  /\ Requests \subseteq 0..Top /\ Prices \subseteq 0..Top /\ 0..Top \subseteq Amounts
  /\ NoPosition \in Rows /\ NoTick \in Ticks /\ NoBranch \in Branches
  /\ NoBranch.at = "off" /\ Intrinsic \in Amounts
  /\ NoRequest \in Asked /\ NoRequest.op = "none"
<1>1. /\ Top \in Nat /\ Slip \in Nat /\ Trail \in Nat /\ StreakRequired \in Nat
      /\ Requests \subseteq 0..Top /\ Prices \subseteq 0..Top /\ 0..Top \subseteq Amounts
  BY PaperAssumption DEF Prices, Amounts
<1>2. 0 \in Amounts /\ 0 \in 0..Top
  BY <1>1 DEF Amounts
<1>3. NoPosition \in Rows /\ NoTick \in Ticks
  BY <1>2 DEF NoPosition, Rows, NoTick, Ticks
<1>4. NoBranch \in Branches /\ NoBranch.at = "off"
  BY <1>2, <1>3 DEF NoBranch, Branches
<1>5. NoRequest \in Asked /\ NoRequest.op = "none"
  BY <1>2 DEF NoRequest, Asked
<1> QED BY <1>1, <1>2, <1>3, <1>4, <1>5 DEF Intrinsic

LEMMA BookInit == Init => BookInv
<1> SUFFICES ASSUME Init PROVE BookInv
  OBVIOUS
<1> USE Constants
<1>1. RowsTyped
  BY DEF Init, RowsTyped
<1>2. BranchesTyped
  BY DEF Init, BranchesTyped, NoBranch
<1>3. RequestTyped
  BY DEF Init, RequestTyped, NoRequest, NoPass
<1>4. Coherent
  BY DEF Init, Coherent, NoRequest, NoPosition
<1> QED BY <1>1, <1>2, <1>3, <1>4 DEF BookInv

-----------------------------------------------------------------------------
(* Opening a position, marking it and closing it keep the rows typed.      *)
LEMMA OpenedIsRow ==
  ASSUME NEW req \in 0..Top PROVE Opened(req) \in Rows /\ Opened(req).st = "OPEN"
BY Constants DEF Opened, Rows, Amounts

LEMMA MarkIsTyped ==
  ASSUME NEW row \in Rows, NEW price \in 0..Top, NEW best \in Int, NEW signal
  PROVE  NextStop(row, price, best, signal) \in Int
BY Constants DEF NextStop, Locked, Rows

LEMMA CloseKeeps ==
  ASSUME RowsTyped, Coherent, NEW o \in Orders, NEW exit \in Amounts, NEW why \in Reasons,
         Close(o, exit, why)
  PROVE  /\ pos' \in [Orders -> Rows]
         /\ trade' \in [Orders -> SUBSET (Amounts \X Reasons)]
         /\ \A q \in Orders : pos'[q].st # "NONE" <=> pos[q].st # "NONE"
         /\ \A q \in Orders : pos'[q].st # "CLOSED" => trade'[q] = {}
<1>1. CASE pos[o].st = "OPEN"
  <2>1. pos' = [pos EXCEPT ![o].st = "CLOSED", ![o].cur = exit]
        /\ trade' = [trade EXCEPT ![o] = @ \cup {<<exit, why>>}]
    BY <1>1 DEF Close
  <2>2. pos' \in [Orders -> Rows]
    BY <2>1 DEF RowsTyped, Rows
  <2>3. <<exit, why>> \in Amounts \X Reasons
    OBVIOUS
  <2>4. trade' \in [Orders -> SUBSET (Amounts \X Reasons)]
    BY <2>1, <2>3 DEF RowsTyped
  <2>5. pos'[o].st = "CLOSED" /\ \A q \in Orders \ {o} : pos'[q] = pos[q] /\ trade'[q] = trade[q]
    BY <2>1 DEF RowsTyped, Rows
  <2> QED BY <1>1, <2>2, <2>4, <2>5 DEF Coherent
<1>2. CASE pos[o].st # "OPEN"
  BY <1>2 DEF Close, RowsTyped, Coherent
<1> QED BY <1>1, <1>2

(* One branch moves on to a well-formed branch.                            *)
Sound(b) ==
  /\ b \in Branches
  /\ b.at \in {"recheck", "close"} => b.reason # "none"
  /\ b.at \in {"price", "fill"} => b.price \in 0..Top

LEMMA BranchMoves ==
  ASSUME BranchesTyped, NEW p \in Refreshers, NEW o \in Orders, NEW b, Sound(b),
         br' = [br EXCEPT ![p][o] = b]
  PROVE  BranchesTyped'
<1>1. br[p] \in [Orders -> Branches]
  BY DEF BranchesTyped
<1>2. br' = [br EXCEPT ![p] = [br[p] EXCEPT ![o] = b]]
  OBVIOUS
<1>3. [br[p] EXCEPT ![o] = b] \in [Orders -> Branches]
  BY <1>1 DEF Sound
<1>4. br' \in [Refreshers -> [Orders -> Branches]]
  BY <1>2, <1>3 DEF BranchesTyped
<1>5. \A q \in Refreshers, u \in Orders : br'[q][u] = b \/ br'[q][u] = br[q][u]
  BY <1>1, <1>2 DEF BranchesTyped
<1> QED BY <1>4, <1>5 DEF BranchesTyped, Sound

LEMMA NoBranchSound == Sound(NoBranch)
BY Constants DEF Sound, NoBranch

LEMMA BranchSound ==
  ASSUME BranchesTyped, NEW p \in Refreshers, NEW o \in Orders PROVE Sound(br[p][o])
BY DEF BranchesTyped, Sound

(* The steps of a refresh keep the invariant.                              *)
LEMMA RefreshKeeps ==
  ASSUME BookInv, NEW p \in Refreshers, RefreshStep(p) PROVE BookInv'
<1> USE Constants DEF BookInv
<1>1. CASE ListOrders(p)
  <2> DEFINE list == [o \in Orders |->
        IF o \in PendingRows THEN [NoBranch EXCEPT !.at = "price", !.price = ord[o].req]
        ELSE NoBranch]
  <2>1. \A o \in Orders : Sound(list[o])
    <3> TAKE o \in Orders
    <3>1. ord[o].req \in 0..Top
      BY DEF RowsTyped
    <3>2. Sound([NoBranch EXCEPT !.at = "price", !.price = ord[o].req])
      BY <3>1 DEF Sound, Branches, NoBranch, Amounts
    <3> QED BY <3>2, NoBranchSound
  <2>2. list \in [Orders -> Branches]
    BY <2>1 DEF Sound
  <2>3. br' = [br EXCEPT ![p] = list]
    BY <1>1 DEF ListOrders
  <2>4. BranchesTyped'
    <3> HIDE DEF list
    <3>1. br' \in [Refreshers -> [Orders -> Branches]]
      BY <2>2, <2>3 DEF BranchesTyped
    <3>2. br'[p] = list /\ \A q \in Refreshers \ {p} : br'[q] = br[q]
      BY <2>3 DEF BranchesTyped
    <3> QED BY <3>1, <3>2, <2>1 DEF BranchesTyped, Sound
  <2> QED BY <1>1, <2>4 DEF ListOrders, rowsP, world, RowsTyped, RequestTyped, Coherent
<1>2. CASE ListPositions(p)
  <2> DEFINE list == [o \in Orders |->
        IF o \in OpenRows THEN [NoBranch EXCEPT !.at = "tick", !.row = [pos[o] EXCEPT !.cur = 0]]
        ELSE NoBranch]
  <2>1. \A o \in Orders : Sound(list[o])
    <3> TAKE o \in Orders
    <3>1. [pos[o] EXCEPT !.cur = 0] \in Rows
      BY DEF RowsTyped, Rows, Amounts
    <3>2. Sound([NoBranch EXCEPT !.at = "tick", !.row = [pos[o] EXCEPT !.cur = 0]])
      BY <3>1 DEF Sound, Branches, NoBranch
    <3> QED BY <3>2, NoBranchSound
  <2>2. list \in [Orders -> Branches]
    BY <2>1 DEF Sound
  <2>3. br' = [br EXCEPT ![p] = list]
    BY <1>2 DEF ListPositions
  <2>4. BranchesTyped'
    <3> HIDE DEF list
    <3>1. br' \in [Refreshers -> [Orders -> Branches]]
      BY <2>2, <2>3 DEF BranchesTyped
    <3>2. br'[p] = list /\ \A q \in Refreshers \ {p} : br'[q] = br[q]
      BY <2>3 DEF BranchesTyped
    <3> QED BY <3>1, <3>2, <2>1 DEF BranchesTyped, Sound
  <2> QED BY <1>2, <2>4 DEF ListPositions, rowsP, world, RowsTyped, RequestTyped, Coherent
<1>3. CASE EndPass(p)
  BY <1>3 DEF EndPass, rowsP, world, RowsTyped, BranchesTyped, RequestTyped, Coherent
<1>4. ASSUME NEW o \in Orders,
             FillPrice(p, o) \/ ReadTick(p, o) \/ Recheck(p, o)
      PROVE  BookInv'
  <2> DEFINE b == br[p][o]
  <2>1. Sound(b)
    BY BranchSound
  <2>2. Sound([b EXCEPT !.at = "fill"]) \/ ~FillPrice(p, o)
    BY <2>1 DEF Sound, Branches, FillPrice
  <2>3. Sound([b EXCEPT !.at = "streak", !.tick = tick]) \/ ~ReadTick(p, o)
    BY <2>1 DEF Sound, Branches, ReadTick, RowsTyped
  <2>4. Sound([b EXCEPT !.at = "close", !.price = pos[o].cur]) \/ ~Recheck(p, o)
    BY <2>1 DEF Sound, Branches, Recheck, RowsTyped, Rows
  <2>5. PICK c : Sound(c) /\ br' = [br EXCEPT ![p][o] = c]
    <3>1. CASE FillPrice(p, o)
      BY <2>2, <3>1, NoBranchSound DEF FillPrice
    <3>2. CASE ReadTick(p, o)
      BY <2>3, <3>2, NoBranchSound DEF ReadTick
    <3>3. CASE Recheck(p, o)
      BY <2>4, <3>3, NoBranchSound DEF Recheck
    <3> QED BY <1>4, <3>1, <3>2, <3>3
  <2>6. BranchesTyped'
    BY <2>5, BranchMoves
  <2> QED BY <1>4, <2>6 DEF FillPrice, ReadTick, Recheck, rowsP, world, RowsTyped, RequestTyped, Coherent
<1>5. ASSUME NEW o \in Orders, FillOrder(p, o) PROVE BookInv'
  <2>1. BranchesTyped'
    BY <1>5, BranchMoves, NoBranchSound DEF FillOrder
  <2>2. CASE ord[o].st = "PENDING"
    <3>1. br[p][o].price \in 0..Top
      BY <1>5 DEF FillOrder, BranchesTyped
    <3>2. Opened(br[p][o].price) \in Rows
      BY <3>1, OpenedIsRow
    <3>3. pos' = [pos EXCEPT ![o] = Opened(br[p][o].price)]
          /\ ord' = [ord EXCEPT ![o].st = "FILLED"]
      BY <1>5, <2>2 DEF FillOrder
    <3>4. RowsTyped'
      BY <1>5, <3>2, <3>3 DEF FillOrder, RowsTyped, world
    <3>5. /\ \A q \in Orders : ord'[q].st \in {"FILLED", ord[q].st}
          /\ \A q \in Orders : pos'[q].st # pos[q].st => q = o /\ ord'[q].st = "FILLED"
      BY <3>3 DEF RowsTyped
    <3>6. pos[o].st = "NONE" /\ trade[o] = {}
      BY <2>2 DEF Coherent
    <3>7. Coherent'
      BY <1>5, <3>3, <3>4, <3>5, <3>6 DEF FillOrder, Coherent, RowsTyped, Rows
    <3> QED BY <1>5, <2>1, <3>4, <3>7 DEF FillOrder, RequestTyped
  <2>3. CASE ord[o].st # "PENDING"
    BY <1>5, <2>1, <2>3 DEF FillOrder, world, RowsTyped, RequestTyped, Coherent
  <2> QED BY <2>2, <2>3
<1>6. ASSUME NEW o \in Orders, BumpStreak(p, o) PROVE BookInv'
  <2> DEFINE n == IF br[p][o].tick.signal # "danger" THEN 0
                  ELSE Lesser(pos[o].streak + 1, StreakRequired)
  <2>0. n \in Int
    BY DEF RowsTyped, Rows, Lesser
  <2>1. /\ pos' = [pos EXCEPT ![o].streak = n]
        /\ br' = [br EXCEPT ![p][o] = [br[p][o] EXCEPT !.at = "write", !.row.streak = n]]
        /\ UNCHANGED <<ord, trade, world, ref, api, eod, bounds>>
    BY <1>6 DEF BumpStreak
  <2> HIDE DEF n
  <2>2. RowsTyped'
    BY <2>0, <2>1 DEF RowsTyped, Rows, world
  <2>3. Sound([br[p][o] EXCEPT !.at = "write", !.row.streak = n])
    BY <2>0, BranchSound, ZenonT(60) DEF Sound, Branches, Rows
  <2>4. BranchesTyped'
    BY <2>1, <2>3, BranchMoves
  <2>5. \A q \in Orders : pos'[q].st = pos[q].st
    BY <2>1 DEF RowsTyped, Rows
  <2> QED BY <2>1, <2>2, <2>4, <2>5 DEF RequestTyped, Coherent
<1>7. ASSUME NEW o \in Orders, WriteMark(p, o) PROVE BookInv'
  <2> DEFINE b == br[p][o]
             best == Greater(b.row.best, b.tick.price)
             stop == Greater(b.row.stop, NextStop(b.row, b.tick.price, best, b.tick.signal))
             why == Hit(b.tick.price, stop)
  <2>1. b.row \in Rows /\ b.tick.price \in 0..Top
    BY BranchSound DEF Sound, Branches, Ticks
  <2>2. best \in Int
    BY <2>1 DEF Greater, Rows
  <2>3. NextStop(b.row, b.tick.price, best, b.tick.signal) \in Int
    BY <2>1, <2>2, MarkIsTyped
  <2>4. stop \in Int
    BY <2>1, <2>3 DEF Greater, Rows
  <2>5. pos' = [pos EXCEPT ![o].cur = b.tick.price, ![o].stop = stop, ![o].best = best]
        /\ br' = [br EXCEPT ![p][o] =
             IF why = "none" THEN NoBranch
             ELSE [NoBranch EXCEPT !.at = "recheck", !.reason = why]]
        /\ UNCHANGED <<ord, trade, world, ref, api, eod, bounds>>
    BY <1>7 DEF WriteMark
  <2>6. why \in {"none", "TARGET", "STOP_LOSS"}
    BY DEF Hit
  <2>7. why # "none" => Sound([NoBranch EXCEPT !.at = "recheck", !.reason = why])
    BY <2>6 DEF Sound, Branches, NoBranch
  <2> HIDE DEF b, best, stop, why
  <2>8. BranchesTyped'
    BY <2>5, <2>7, BranchMoves, NoBranchSound
  <2>9. b.tick.price \in Amounts
    BY <2>1
  <2>10. pos' \in [Orders -> Rows] /\ \A q \in Orders : pos'[q].st = pos[q].st
    BY <2>2, <2>4, <2>5, <2>9 DEF RowsTyped, Rows
  <2> QED BY <2>5, <2>8, <2>10 DEF world, RowsTyped, RequestTyped, Coherent
<1>8. ASSUME NEW o \in Orders, CloseHit(p, o) PROVE BookInv'
  <2>1. br[p][o].price \in Amounts /\ br[p][o].reason \in Reasons
    BY <1>8 DEF CloseHit, BranchesTyped, Branches, Reasons
  <2>2. Close(o, br[p][o].price, br[p][o].reason)
    BY <1>8 DEF CloseHit
  <2>3. /\ pos' \in [Orders -> Rows]
        /\ trade' \in [Orders -> SUBSET (Amounts \X Reasons)]
        /\ \A q \in Orders : pos'[q].st # "NONE" <=> pos[q].st # "NONE"
        /\ \A q \in Orders : pos'[q].st # "CLOSED" => trade'[q] = {}
    BY <2>1, <2>2, CloseKeeps
  <2>4. BranchesTyped'
    BY <1>8, BranchMoves, NoBranchSound DEF CloseHit
  <2> QED BY <1>8, <2>3, <2>4 DEF CloseHit, world, RowsTyped, RequestTyped, Coherent
<1> QED BY <1>1, <1>2, <1>3, <1>4, <1>5, <1>6, <1>7, <1>8 DEF RefreshStep

-----------------------------------------------------------------------------
LEMMA AskKeeps ==
  ASSUME BookInv, AskStep PROVE BookInv'
<1> USE Constants DEF BookInv, Free, Summarise
<1>1. CASE Poll
  BY <1>1 DEF Poll, rowsP, world, RowsTyped, BranchesTyped, RequestTyped, Coherent, NoRequest
<1>2. ASSUME NEW legs \in SUBSET Orders, Place(legs) PROVE BookInv'
  <2>1. PICK q \in Requests :
          ord' = [o \in Orders |-> IF o \in legs THEN [st |-> "PENDING", req |-> q] ELSE ord[o]]
    BY <1>2 DEF Place
  <2>2. RowsTyped'
    BY <1>2, <2>1 DEF Place, RowsTyped, world
  <2>3. \A o \in legs : pos[o].st = "NONE"
    BY <1>2 DEF Place, Coherent
  <2>4. Coherent'
    BY <1>2, <2>1, <2>3 DEF Place, Coherent, NoRequest
  <2> QED BY <1>2, <2>2, <2>4 DEF Place, world, BranchesTyped, RequestTyped, NoRequest
<1>3. ASSUME NEW o \in Orders, NEW op \in {"edit", "cancel"}, ReadOrder(op, o) PROVE BookInv'
  <2>1. PICK q \in Requests :
          api' = [NoRequest EXCEPT !.op = op, !.at = "write", !.o = {o}, !.level = q]
    BY <1>3 DEF ReadOrder
  <2>2. RequestTyped'
    BY <1>3, <2>1 DEF ReadOrder, RequestTyped, Asked, NoRequest
  <2>3. api'.o = {o} /\ ord[o].st = "PENDING"
    BY <1>3, <2>1 DEF ReadOrder, NoRequest
  <2> QED BY <1>3, <2>2, <2>3 DEF ReadOrder, rowsP, world, RowsTyped, BranchesTyped, Coherent
<1>4. ASSUME NEW o \in Orders, ReadRisk(o) PROVE BookInv'
  <2>1. PICK q \in Requests :
          api' = [op |-> "risk", at |-> "write", o |-> {o}, level |-> q,
                  best |-> Greater(pos[o].best, Greater(pos[o].cur, pos[o].entry))]
    BY <1>4 DEF ReadRisk
  <2>2. Greater(pos[o].best, Greater(pos[o].cur, pos[o].entry)) \in Int
    BY DEF RowsTyped, Rows, Amounts, Greater
  <2>3. RequestTyped'
    BY <1>4, <2>1, <2>2 DEF ReadRisk, RequestTyped, Asked
  <2> QED BY <1>4, <2>1, <2>3 DEF ReadRisk, rowsP, world, RowsTyped, BranchesTyped, Coherent
<1>5. ASSUME NEW o \in Orders, AskExit(o) PROVE BookInv'
  <2>1. api' \in Asked /\ api'.op = "close"
    BY <1>5 DEF AskExit, NoRequest, Asked
  <2> QED BY <1>5, <2>1 DEF AskExit, rowsP, world, RowsTyped, BranchesTyped, RequestTyped, Coherent
<1> QED BY <1>1, <1>2, <1>3, <1>4, <1>5 DEF AskStep

LEMMA AnswerKeeps ==
  ASSUME BookInv, AnswerStep PROVE BookInv'
<1> USE Constants DEF BookInv, Summarise, Fail
<1>0. PICK o \in Orders : WriteOrder(o) \/ WriteRisk(o) \/ ReadExit(o) \/ CloseExit(o)
  BY DEF AnswerStep
<1>1. CASE WriteOrder(o)
  <2>1. api.level \in Amounts /\ ord[o].st # "NONE"
    BY <1>1 DEF WriteOrder, RequestTyped, Asked, Coherent
  <2>2. \/ ord' = [ord EXCEPT ![o].req = api.level]
        \/ ord' = [ord EXCEPT ![o].st = "CANCELLED"]
    BY <1>1 DEF WriteOrder
  <2>3. api.level \in 0..Top
    BY <1>1 DEF WriteOrder, Coherent
  <2>4. api' = NoRequest /\ UNCHANGED <<pos, trade, tick, br>>
    BY <1>1 DEF WriteOrder, world
  <2>5. RowsTyped' /\ \A q \in Orders : ord'[q].st \in {ord[q].st, "CANCELLED"}
    BY <2>2, <2>3, <2>4 DEF RowsTyped
  <2>6. Coherent'
    BY <2>4, <2>5 DEF Coherent, NoRequest
  <2> QED BY <2>4, <2>5, <2>6 DEF BranchesTyped, RequestTyped
<1>2. CASE WriteRisk(o)
  <2>1. api.level \in Int /\ api.best \in Int
    BY DEF RequestTyped, Asked, Amounts
  <2>2. RowsTyped' /\ \A q \in Orders : pos'[q].st = pos[q].st
    BY <1>2, <2>1 DEF WriteRisk, RowsTyped, Rows, world
  <2>3. api' = NoRequest /\ UNCHANGED <<ord, trade, tick, br>>
    BY <1>2 DEF WriteRisk, world
  <2>4. Coherent'
    BY <2>2, <2>3 DEF Coherent
  <2> QED BY <2>2, <2>3, <2>4 DEF BranchesTyped, RequestTyped
<1>3. CASE ReadExit(o)
  <2>1. pos[o].cur \in Amounts
    BY DEF RowsTyped, Rows
  <2>2. api.op \notin {"edit", "cancel"}
    BY <1>3 DEF ReadExit, Coherent
  <2>3. api' = [api EXCEPT !.at = "close", !.level = pos[o].cur] \/ api' = NoRequest
    BY <1>3 DEF ReadExit
  <2>4. RequestTyped' /\ api'.op \notin {"edit", "cancel"}
    <3>1. CASE api' = [api EXCEPT !.at = "close", !.level = pos[o].cur]
      BY <2>1, <2>2, <3>1 DEF RequestTyped, Asked
    <3>2. CASE api' = NoRequest
      BY <3>2 DEF RequestTyped
    <3> QED BY <2>3, <3>1, <3>2
  <2> QED BY <1>3, <2>4 DEF ReadExit, rowsP, world, RowsTyped, BranchesTyped, Coherent
<1>4. CASE CloseExit(o)
  <2>1. api.level \in Amounts /\ "MANUAL" \in Reasons
    BY DEF RequestTyped, Asked, Reasons
  <2>2. Close(o, api.level, "MANUAL")
    BY <1>4 DEF CloseExit
  <2>3. /\ pos' \in [Orders -> Rows]
        /\ trade' \in [Orders -> SUBSET (Amounts \X Reasons)]
        /\ \A q \in Orders : pos'[q].st # "NONE" <=> pos[q].st # "NONE"
        /\ \A q \in Orders : pos'[q].st # "CLOSED" => trade'[q] = {}
    BY <2>1, <2>2, CloseKeeps
  <2>4. api' = NoRequest /\ UNCHANGED <<ord, world, br, eod, bounds>>
    BY <1>4 DEF CloseExit
  <2> QED BY <2>3, <2>4 DEF world, RowsTyped, BranchesTyped, RequestTyped, Coherent, NoRequest
<1> QED BY <1>0, <1>1, <1>2, <1>3, <1>4

LEMMA EodKeeps ==
  ASSUME BookInv, EodStep PROVE BookInv'
<1> USE Constants DEF BookInv
<1>1. CASE EodStart
  BY <1>1 DEF EodStart, OpenRows, rowsP, world, RowsTyped, BranchesTyped, RequestTyped, Coherent
<1>2. CASE EodList
  BY <1>2 DEF EodList, PendingRows, rowsP, world, RowsTyped, BranchesTyped, RequestTyped, Coherent
<1>3. CASE EodCancel
  <2>1. ord' = [o \in Orders |->
          IF o \in eod.list \cap PendingRows THEN [ord[o] EXCEPT !.st = "CANCELLED"] ELSE ord[o]]
    BY <1>3 DEF EodCancel
  <2>2. RowsTyped'
    BY <1>3, <2>1 DEF EodCancel, RowsTyped, world
  <2>3. \A q \in Orders : ord'[q].st \in {ord[q].st, "CANCELLED"}
    BY <2>1 DEF RowsTyped
  <2>4. Coherent'
    BY <1>3, <2>3 DEF EodCancel, Coherent, RequestTyped, Asked
  <2> QED BY <1>3, <2>2, <2>4 DEF EodCancel, world, BranchesTyped, RequestTyped, NoPass
<1>4. ASSUME NEW o \in Orders, EodSettle(o) PROVE BookInv'
  <2>1. RequestTyped' /\ UNCHANGED <<ord, world, br, api>>
    BY <1>4 DEF EodSettle, RequestTyped
  <2>2. CASE Close(o, Intrinsic, "EXPIRED")
    <3>1. /\ pos' \in [Orders -> Rows]
          /\ trade' \in [Orders -> SUBSET (Amounts \X Reasons)]
          /\ \A q \in Orders : pos'[q].st # "NONE" <=> pos[q].st # "NONE"
          /\ \A q \in Orders : pos'[q].st # "CLOSED" => trade'[q] = {}
      <4>1. "EXPIRED" \in Reasons
        BY DEF Reasons
      <4> QED BY <2>2, <4>1, CloseKeeps
    <3> QED BY <2>1, <3>1 DEF world, RowsTyped, BranchesTyped, Coherent
  <2>3. CASE UNCHANGED <<pos, trade>>
    BY <2>1, <2>3 DEF world, RowsTyped, BranchesTyped, Coherent
  <2> QED BY <1>4, <2>2, <2>3 DEF EodSettle
<1> QED BY <1>1, <1>2, <1>3, <1>4 DEF EodStep

LEMMA BookStepInv == BookInv /\ [Next]_vars => BookInv'
<1> SUFFICES ASSUME BookInv, [Next]_vars PROVE BookInv'
  OBVIOUS
<1> USE Constants
<1>1. CASE Capture
  <2>1. PICK q \in Prices, g \in Signals :
          tick' = [price |-> q, signal |-> g,
                   held |-> IF g # "danger" THEN 0 ELSE Lesser(tick.held + 1, StreakRequired)]
    BY <1>1 DEF Capture
  <2>2. tick' \in Ticks
    BY <2>1 DEF BookInv, RowsTyped, Ticks, Lesser
  <2> QED BY <1>1, <2>2 DEF Capture, rowsP, BookInv, RowsTyped, BranchesTyped, RequestTyped, Coherent
<1>2. CASE Expire
  BY <1>2 DEF Expire, rowsP, BookInv, RowsTyped, BranchesTyped, RequestTyped, Coherent
<1>3. CASE WorkerRestart
  <2>1. [o \in Orders |-> NoBranch] \in [Orders -> Branches]
    OBVIOUS
  <2>2. br' = [br EXCEPT !["worker"] = [o \in Orders |-> NoBranch]]
    BY <1>3 DEF WorkerRestart
  <2>3. br' \in [Refreshers -> [Orders -> Branches]]
    BY <2>1, <2>2 DEF BookInv, BranchesTyped
  <2>4. \A p \in Refreshers, o \in Orders : br'[p][o] = NoBranch \/ br'[p][o] = br[p][o]
    BY <2>2 DEF BookInv, BranchesTyped
  <2>5. BranchesTyped'
    BY <2>3, <2>4 DEF BookInv, BranchesTyped
  <2> QED BY <1>3, <2>5
          DEF WorkerRestart, rowsP, world, BookInv, RowsTyped, RequestTyped, Coherent, NoPass
<1>4. CASE UNCHANGED vars
  BY <1>4 DEF vars, rowsP, world, BookInv, RowsTyped, BranchesTyped, RequestTyped, Coherent
<1> QED BY <1>1, <1>2, <1>3, <1>4, RefreshKeeps, AskKeeps, AnswerKeeps, EodKeeps DEF Next

-----------------------------------------------------------------------------
(* What a step does to the life of an order.                               *)
LedgerVars == <<[o \in Orders |-> Life(o)], trade>>

LEMMA SameStates ==
  ASSUME BookInv, \A o \in Orders : ord'[o].st = ord[o].st /\ pos'[o].st = pos[o].st,
         UNCHANGED trade
  PROVE  UNCHANGED LedgerVars
<1>1. \A o \in Orders : Life(o)' = Life(o)
  BY DEF Life
<1> QED BY <1>1 DEF LedgerVars

LEMMA CloseBooks ==
  ASSUME BookInv, NEW o \in Orders, NEW exit \in Amounts, NEW why \in Reasons,
         Close(o, exit, why), UNCHANGED ord
  PROVE  Ledger!BookTrade(o) \/ UNCHANGED LedgerVars
<1>1. CASE pos[o].st = "OPEN"
  <2>1. pos' = [pos EXCEPT ![o].st = "CLOSED", ![o].cur = exit]
        /\ trade' = [trade EXCEPT ![o] = @ \cup {<<exit, why>>}]
    BY <1>1 DEF Close
  <2>2. trade[o] = {}
    BY <1>1 DEF BookInv, Coherent
  <2>3. <<exit, why>> \in (0..(Top + Slip)) \X {"TARGET", "STOP_LOSS", "MANUAL", "EXPIRED"}
    BY DEF Amounts, Reasons
  <2>4. trade' = [trade EXCEPT ![o] = {<<exit, why>>}]
    BY <2>1, <2>2 DEF BookInv, RowsTyped
  <2>5. pos'[o].st = "CLOSED" /\ \A q \in Orders \ {o} : pos'[q] = pos[q]
    BY <2>1 DEF BookInv, RowsTyped, Rows
  <2>6. Life(o) = "open" /\ Life(o)' = "closed" /\ \A q \in Orders \ {o} : Life(q)' = Life(q)
    BY <1>1, <2>5 DEF Life
  <2>7. [q \in Orders |-> Life(q)'] =
          [q \in Orders |-> IF q \in {o} THEN "closed" ELSE [u \in Orders |-> Life(u)][q]]
    BY <2>6
  <2>8. Ledger!Move({o}, "open", "closed")
    BY <2>6, <2>7 DEF Ledger!Move
  <2> QED BY <2>3, <2>4, <2>8 DEF Ledger!BookTrade
<1>2. CASE pos[o].st # "OPEN"
  <2>1. UNCHANGED <<pos, trade>>
    BY <1>2 DEF Close
  <2> QED BY <2>1, SameStates
<1> QED BY <1>1, <1>2

LEMMA RefreshMaps ==
  ASSUME BookInv, NEW p \in Refreshers, RefreshStep(p)
  PROVE  Ledger!LedgerNext \/ UNCHANGED LedgerVars
<1> USE DEF BookInv
<1>1. ASSUME NEW o \in Orders, FillOrder(p, o)
      PROVE  Ledger!FillOrder(o) \/ UNCHANGED LedgerVars
  <2>1. CASE ord[o].st = "PENDING"
    <3>1. pos' = [pos EXCEPT ![o] = Opened(br[p][o].price)]
          /\ ord' = [ord EXCEPT ![o].st = "FILLED"] /\ UNCHANGED trade
      BY <1>1, <2>1 DEF FillOrder
    <3>2. pos[o].st = "NONE"
      BY <2>1 DEF Coherent
    <3>3. pos'[o].st = "OPEN" /\ \A q \in Orders \ {o} : pos'[q] = pos[q] /\ ord'[q] = ord[q]
      BY <3>1 DEF RowsTyped, Opened
    <3>4. Life(o) = "pending" /\ Life(o)' = "open" /\ \A q \in Orders \ {o} : Life(q)' = Life(q)
      BY <2>1, <3>2, <3>3 DEF Life
    <3>5. [q \in Orders |-> Life(q)'] =
            [q \in Orders |-> IF q \in {o} THEN "open" ELSE [u \in Orders |-> Life(u)][q]]
      BY <3>4
    <3>6. Ledger!Move({o}, "pending", "open")
      BY <3>4, <3>5 DEF Ledger!Move
    <3> QED BY <3>1, <3>6 DEF Ledger!FillOrder
  <2>2. CASE ord[o].st # "PENDING"
    BY <1>1, <2>2, SameStates DEF FillOrder
  <2> QED BY <2>1, <2>2
<1>2. ASSUME NEW o \in Orders, CloseHit(p, o)
      PROVE  Ledger!BookTrade(o) \/ UNCHANGED LedgerVars
  <2>1. br[p][o].price \in Amounts /\ br[p][o].reason \in Reasons
    BY <1>2 DEF CloseHit, BranchesTyped, Branches, Reasons
  <2> QED BY <1>2, <2>1, CloseBooks DEF CloseHit
<1>3. ASSUME NEW o \in Orders, BumpStreak(p, o) \/ WriteMark(p, o)
      PROVE  UNCHANGED LedgerVars
  <2>1. \A q \in Orders : pos'[q].st = pos[q].st
    BY <1>3 DEF BumpStreak, WriteMark, RowsTyped, Rows
  <2>2. UNCHANGED <<ord, trade>>
    BY <1>3 DEF BumpStreak, WriteMark
  <2> QED BY <2>1, <2>2, SameStates
<1>4. ASSUME NEW o \in Orders, FillPrice(p, o) \/ ReadTick(p, o) \/ Recheck(p, o)
      PROVE  UNCHANGED LedgerVars
  BY <1>4, SameStates DEF FillPrice, ReadTick, Recheck, rowsP
<1>5. ASSUME ListOrders(p) \/ ListPositions(p) \/ EndPass(p) PROVE UNCHANGED LedgerVars
  BY <1>5, SameStates DEF ListOrders, ListPositions, EndPass, rowsP
<1> QED BY <1>1, <1>2, <1>3, <1>4, <1>5 DEF RefreshStep, Ledger!LedgerNext

LEMMA RequestMaps ==
  ASSUME BookInv, AskStep \/ AnswerStep
  PROVE  Ledger!LedgerNext \/ UNCHANGED LedgerVars
<1> USE DEF BookInv
<1>1. ASSUME NEW legs \in SUBSET Orders, Place(legs) PROVE Ledger!PlaceOrders(legs)
  <2>1. PICK q \in Requests :
          ord' = [o \in Orders |-> IF o \in legs THEN [st |-> "PENDING", req |-> q] ELSE ord[o]]
    BY <1>1 DEF Place
  <2>2. UNCHANGED <<pos, trade>> /\ \A o \in legs : ord[o].st = "NONE" /\ pos[o].st = "NONE"
    BY <1>1 DEF Place, Coherent
  <2>3. \A o \in legs : Life(o) = "none" /\ Life(o)' = "pending"
    BY <2>1, <2>2 DEF Life
  <2>4. \A o \in Orders \ legs : Life(o)' = Life(o)
    BY <2>1, <2>2 DEF Life
  <2>5. Ledger!Move(legs, "none", "pending")
    BY <2>3, <2>4 DEF Ledger!Move
  <2> QED BY <2>2, <2>5 DEF Ledger!PlaceOrders
<1>2. ASSUME NEW o \in Orders, WriteOrder(o)
      PROVE  Ledger!CancelOrders({o}) \/ UNCHANGED LedgerVars
  <2>1. UNCHANGED <<pos, trade>> /\ ord[o].st # "NONE"
    BY <1>2 DEF WriteOrder, Coherent
  <2>2. CASE ord' = [ord EXCEPT ![o].req = api.level]
    <3>1. \A q \in Orders : ord'[q].st = ord[q].st
      BY <2>2 DEF RowsTyped
    <3> QED BY <2>1, <3>1, SameStates
  <2>3. CASE ord' = [ord EXCEPT ![o].st = "CANCELLED"]
    <3>1. ord'[o].st = "CANCELLED" /\ \A q \in Orders \ {o} : ord'[q] = ord[q]
      BY <2>3 DEF RowsTyped
    <3>2. \A q \in Orders \ {o} : Life(q)' = Life(q)
      BY <2>1, <3>1 DEF Life
    <3>3. CASE Life(o) = "pending"
      <4>1. Life(o)' = "cancelled"
        BY <2>1, <3>1, <3>3 DEF Life, RowsTyped, Rows
      <4>2. Ledger!Move({o}, "pending", "cancelled")
        BY <3>2, <3>3, <4>1 DEF Ledger!Move
      <4> QED BY <2>1, <4>2 DEF Ledger!CancelOrders
    <3>4. CASE Life(o) # "pending"
      <4>1. Life(o)' = Life(o)
        BY <2>1, <3>1, <3>4 DEF Life, RowsTyped, Rows
      <4> QED BY <2>1, <3>2, <4>1 DEF LedgerVars
    <3> QED BY <3>3, <3>4
  <2> QED BY <1>2, <2>2, <2>3 DEF WriteOrder
<1>3. ASSUME NEW o \in Orders, CloseExit(o)
      PROVE  Ledger!BookTrade(o) \/ UNCHANGED LedgerVars
  <2>1. api.level \in Amounts /\ "MANUAL" \in Reasons
    BY DEF RequestTyped, Asked, Reasons
  <2> QED BY <1>3, <2>1, CloseBooks DEF CloseExit
<1>4. ASSUME NEW o \in Orders, WriteRisk(o) PROVE UNCHANGED LedgerVars
  <2>1. \A q \in Orders : pos'[q].st = pos[q].st
    BY <1>4 DEF WriteRisk, RowsTyped, Rows
  <2> QED BY <1>4, <2>1, SameStates DEF WriteRisk
<1>5. ASSUME NEW o \in Orders,
             ReadRisk(o) \/ AskExit(o) \/ ReadExit(o) \/ \E op \in {"edit", "cancel"} : ReadOrder(op, o)
      PROVE  UNCHANGED LedgerVars
  BY <1>5, SameStates DEF ReadRisk, AskExit, ReadExit, ReadOrder, rowsP
<1>6. ASSUME Poll PROVE UNCHANGED LedgerVars
  BY <1>6, SameStates DEF Poll, rowsP
<1>7. CASE AskStep
  BY <1>1, <1>5, <1>6, <1>7 DEF AskStep, Ledger!LedgerNext
<1>8. CASE AnswerStep
  BY <1>2, <1>3, <1>4, <1>5, <1>8 DEF AnswerStep, Ledger!LedgerNext
<1> QED BY <1>7, <1>8

LEMMA EodMaps ==
  ASSUME BookInv, EodStep
  PROVE  Ledger!LedgerNext \/ UNCHANGED LedgerVars
<1> USE DEF BookInv
<1>1. CASE EodCancel
  <2> DEFINE dead == (eod.list \cap PendingRows) \cap Orders
  <2>1. /\ UNCHANGED <<pos, trade>>
        /\ ord' = [o \in Orders |-> IF o \in dead THEN [ord[o] EXCEPT !.st = "CANCELLED"] ELSE ord[o]]
    BY <1>1 DEF EodCancel
  <2>2. \A o \in dead : ord[o].st = "PENDING" /\ pos[o].st = "NONE" /\ ord'[o].st = "CANCELLED"
    BY <2>1 DEF PendingRows, Coherent, RowsTyped
  <2>3. \A o \in Orders \ dead : ord'[o] = ord[o]
    BY <2>1
  <2> HIDE DEF dead
  <2>4. \A o \in dead : Life(o) = "pending" /\ Life(o)' = "cancelled"
    BY <2>1, <2>2 DEF Life
  <2>5. \A o \in Orders \ dead : Life(o)' = Life(o)
    BY <2>1, <2>3 DEF Life
  <2>6. dead \in SUBSET Orders
    BY DEF dead
  <2>7. Ledger!Move(dead, "pending", "cancelled")
    BY <2>4, <2>5, <2>6 DEF Ledger!Move
  <2> QED BY <2>1, <2>6, <2>7 DEF Ledger!CancelOrders, Ledger!LedgerNext
<1>2. ASSUME NEW o \in Orders, EodSettle(o)
      PROVE  Ledger!BookTrade(o) \/ UNCHANGED LedgerVars
  <2>1. Close(o, Intrinsic, "EXPIRED") \/ UNCHANGED <<pos, trade>>
    BY <1>2 DEF EodSettle
  <2>2. UNCHANGED ord
    BY <1>2 DEF EodSettle
  <2>3. Intrinsic \in Amounts /\ "EXPIRED" \in Reasons
    BY Constants DEF Reasons
  <2> QED BY <2>1, <2>2, <2>3, CloseBooks, SameStates
<1>3. ASSUME EodStart \/ EodList PROVE UNCHANGED LedgerVars
  BY <1>3, SameStates DEF EodStart, EodList, rowsP
<1> QED BY <1>1, <1>2, <1>3 DEF EodStep, Ledger!LedgerNext

LEMMA BookStepLedger == BookInv /\ [Next]_vars => [Ledger!LedgerNext]_LedgerVars
<1> SUFFICES ASSUME BookInv, [Next]_vars PROVE Ledger!LedgerNext \/ UNCHANGED LedgerVars
  OBVIOUS
<1>1. ASSUME Capture \/ Expire \/ WorkerRestart \/ UNCHANGED vars PROVE UNCHANGED LedgerVars
  BY <1>1, SameStates DEF Capture, Expire, WorkerRestart, vars, rowsP
<1> QED BY <1>1, RefreshMaps, RequestMaps, EodMaps DEF Next

(* The paper book implements the ledger, whatever the worker, the API's    *)
(* requests and the settlement do at once: an order is filled once, never  *)
(* after it was cancelled, and a position ends in exactly one trade.       *)
THEOREM BookKeepsLedger == Spec => KeepsLedger
<1>1. Init => Ledger!LedgerInit
  <2> SUFFICES ASSUME Init PROVE Ledger!LedgerInit
    OBVIOUS
  <2>1. \A o \in Orders : Life(o) = "none"
    BY DEF Init, Life, NoPosition
  <2> QED BY <2>1 DEF Init, Ledger!LedgerInit
<1> QED BY <1>1, BookInit, BookStepInv, BookStepLedger, PTL
        DEF Spec, KeepsLedger, Ledger!LedgerSpec, LedgerVars
=============================================================================
