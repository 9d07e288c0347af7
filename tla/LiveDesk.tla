------------------------------ MODULE LiveDesk ------------------------------
(***************************************************************************)
(* The two-phase order ticket, packages/db/src/live-repository.ts: a       *)
(* preview resolves the legs against the captured chain, prices them       *)
(* against the funds and the book the broker reports, passes the account's *)
(* caps and mints a token; a confirm spends the token and places.  The     *)
(* requests of one user's tabs interleave at every await.  LivePlacement   *)
(* takes over where the legs are sent.  Margin is counted in lots of the   *)
(* one structure, time in units of the ten seconds a token and a cached    *)
(* book margin live.                                                       *)
(***************************************************************************)
EXTENDS Integers, Sequences, FiniteSets, FiniteSetsExt

CONSTANTS
  Requests,      \* API requests in flight at once
  Tickets,       \* [adds, margins, lots, naked, row, limit] of the tickets
  Account,       \* [funds, orderCap, maxUtil, ceiling, naked, perMinute]
  TokenTtl,      \* CONFIRM_TOKEN_TTL_MS
  BaselineTtl,   \* MARGIN_BASELINE_CACHE_MS
  RateWindow,    \* the minute of enforceOrderRate
  Tokens,        \* bound: previews minted
  DeskMaxTime,   \* bound: time
  MaxBook        \* bound: size of the book

ASSUME DeskTimes ==
  TokenTtl \in Nat /\ BaselineTtl \in Nat /\ RateWindow \in Nat /\ DeskMaxTime \in Nat /\ MaxBook \in Nat

(* Legs margined on their own require at least what they add as one        *)
(* structure; what the calculator REPLIES is another matter (ReadLeg).     *)
Standalone(t) == MapThenSumSet(LAMBDA i : t.margins[i], DOMAIN t.margins)

ASSUME TicketMargins ==
  \A t \in Tickets :
    t.adds \in Int /\ t.margins \in Seq(Nat) /\ t.margins # << >> /\ Standalone(t) >= t.adds

VARIABLES
  deskTime,   \* time
  book,       \* margin the open positions require at the broker
  lastMove,   \* when the book last moved
  baseline,   \* marginBaselineCache: amount and fetchedAt
  previews,   \* previews: the tokens minted and not spent
  desk,       \* the requests
  orderTimes, \* placedAt of the rows inserted: how many per time
  spent       \* how often each token has led to an order

deskVars == <<deskTime, book, lastMove, baseline, previews, desk, orderTimes, spent>>

None == -1
NotCached == [amount |-> None, at |-> None]
NoTicket == [adds |-> 0]
NoToken == [at |-> None, net |-> 0, ticket |-> NoTicket, still |-> TRUE, short |-> FALSE]
IdleRequest == [pc |-> "idle", ticket |-> NoTicket, token |-> None, left |-> 0, start |-> None,
                avail |-> 0, priced |-> 0, gross |-> 0, zeroed |-> FALSE, basket |-> 0, amount |-> None]
Minted(tok) == previews[tok].at # None
RequestAt(r, pc) == desk[r].pc = pc
Reject(r) == desk' = [desk EXCEPT ![r] = IdleRequest]
Positive(n) == IF n > 0 THEN n ELSE 0

DeskInit ==
  /\ deskTime = 0 /\ book \in 0..MaxBook /\ lastMove = -(BaselineTtl + 2)
  /\ baseline = NotCached
  /\ previews = [t \in Tokens |-> NoToken] /\ spent = [t \in Tokens |-> 0]
  /\ desk = [r \in Requests |-> IdleRequest]
  /\ orderTimes = [t \in 0..DeskMaxTime |-> 0]

-----------------------------------------------------------------------------
(* listLiveChainStrikes: what is not quoted (None) is not held against a   *)
(* strike.                                                                 *)
Tradeable(row) ==
  /\ row.named /\ row.last > 0
  /\ row.oi # None => row.oi >= 500
  /\ row.volume # None => row.volume > 0
  /\ row.spread # None => row.spread <= 15

(* resolveTicketLegs: the leg's strike is tradeable, and its limit, when   *)
(* it has one, within five times the last print either way.                *)
Resolves(t) ==
  /\ Tradeable(t.row)
  /\ t.limit # None => t.limit > 0 /\ t.limit <= 5 * t.row.last /\ 5 * t.limit >= t.row.last

Pruned == [tok \in Tokens |->
             IF Minted(tok) /\ deskTime - previews[tok].at > 3 * TokenTtl THEN NoToken ELSE previews[tok]]

(* previewLiveOrder up to its first broker call.                           *)
Fresh(t) == [IdleRequest EXCEPT !.ticket = t, !.start = deskTime]

PreviewStart(r, t) ==
  /\ RequestAt(r, "idle")
  /\ \E tok \in Tokens : ~Minted(tok) /\ spent[tok] = 0
  /\ previews' = Pruned
  /\ IF Resolves(t) /\ (t.naked => Account.naked)
     THEN desk' = [desk EXCEPT ![r] = [Fresh(t) EXCEPT !.pc = "funds"]]
     ELSE Reject(r)
  /\ UNCHANGED <<deskTime, book, lastMove, baseline, orderTimes, spent>>

(* computeLiveMarginView, one broker call at a time.                       *)
ReadFunds(r) ==
  /\ RequestAt(r, "funds")
  /\ desk' = [desk EXCEPT ![r].pc = "legs", ![r].avail = Positive(Account.funds - book)]
  /\ UNCHANGED <<deskTime, book, lastMove, baseline, previews, orderTimes, spent>>

(* Each leg on its own, one call after the other.  The calculator may say  *)
(* zero (its measured failure, and what a missing field is read as), and   *)
(* unlike the basket's and the book's a leg's zero is added as it is.      *)
ReadLeg(r) ==
  LET i == desk[r].priced + 1
      margin == desk[r].ticket.margins[i]
  IN /\ RequestAt(r, "legs")
     /\ \E reply \in {margin, 0} :
          desk' = [desk EXCEPT ![r] = [desk[r] EXCEPT
                     !.pc = IF i = Len(desk[r].ticket.margins) THEN "basket" ELSE "legs", !.priced = i,
                     !.gross = desk[r].gross + reply, !.zeroed = desk[r].zeroed \/ reply # margin]]
     /\ UNCHANGED <<deskTime, book, lastMove, baseline, previews, orderTimes, spent>>

(* The basket on top of the book; zero is the call's measured failure.     *)
ReadBasket(r) ==
  /\ RequestAt(r, "basket")
  /\ \E total \in {Positive(book + desk[r].ticket.adds), 0} :
       desk' = [desk EXCEPT ![r] = [@ EXCEPT !.pc = "book", !.basket = total]]
  /\ UNCHANGED <<deskTime, book, lastMove, baseline, previews, orderTimes, spent>>

(* existingBookMargin without its cache: the positions, then their quote.  *)
(* A holding no calculator takes leaves the book unpriced.                 *)
KeptBaseline == baseline.at # None
FreshBaseline == baseline.at # None /\ deskTime - baseline.at < BaselineTtl
ReadPositions(r) ==
  /\ RequestAt(r, "book") /\ ~FreshBaseline
  /\ \E amount \in {book, None} :
       desk' = [desk EXCEPT ![r] = [@ EXCEPT !.pc = "quote", !.amount = amount]]
  /\ UNCHANGED <<deskTime, book, lastMove, baseline, previews, orderTimes, spent>>

(* What the ticket costs on top of the book, or the standalone sum.        *)
Usable(basket, amount) == basket > 0 /\ amount # None
Net(r, amount) ==
  IF Usable(desk[r].basket, amount) THEN Positive(desk[r].basket - amount) ELSE desk[r].gross

(* The gates of previewLiveOrder: a cap of zero and a ceiling of 100 are   *)
(* no limits.                                                              *)
Fundable(r, net) ==
  /\ net <= desk[r].avail
  /\ Account.orderCap > 0 => net <= Account.orderCap
  /\ Account.maxUtil < 100 => desk[r].avail > 0 /\ 100 * net <= Account.maxUtil * desk[r].avail
  /\ desk[r].ticket.lots <= Account.ceiling

(* The token, when the ticket passes.                                      *)
Judge(r, amount) ==
  LET net == Net(r, amount)
      free == {tok \in Tokens : ~Minted(tok) /\ spent[tok] = 0 /\ \A q \in Requests : desk[q].token # tok}
  IN /\ Fundable(r, net) => free # {}
     /\ IF Fundable(r, net)
        THEN LET tok == CHOOSE tok \in free : TRUE
             IN previews' = [previews EXCEPT ![tok] =
                  [at |-> deskTime, net |-> net, ticket |-> desk[r].ticket,
                   still |-> lastMove < desk[r].start - BaselineTtl,
                   short |-> desk[r].zeroed /\ ~Usable(desk[r].basket, amount)]]
        ELSE UNCHANGED previews
     /\ Reject(r)

QuoteBook(r) ==
  /\ RequestAt(r, "quote")
  /\ \E amount \in {desk[r].amount} \cup (IF desk[r].amount > 0 THEN {None} ELSE {}) :
       /\ baseline' = IF amount = None THEN baseline ELSE [amount |-> amount, at |-> deskTime]
       /\ Judge(r, amount)
  /\ UNCHANGED <<deskTime, book, lastMove, orderTimes, spent>>

CachedBook(r) ==
  /\ RequestAt(r, "book") /\ FreshBaseline /\ Judge(r, baseline.amount)
  /\ UNCHANGED <<deskTime, book, lastMove, baseline, orderTimes, spent>>

BrokerFails(r) ==
  /\ desk[r].pc \in {"funds", "legs", "basket", "book", "quote"} /\ Reject(r)
  /\ UNCHANGED <<deskTime, book, lastMove, baseline, previews, orderTimes, spent>>

-----------------------------------------------------------------------------
(* placeLiveOrder: the gates are awaited, then the token is judged and     *)
(* spent in one go, then the rows of the last minute are counted.          *)
ConfirmStart(r, tok) ==
  /\ RequestAt(r, "idle") /\ Minted(tok)
  /\ desk' = [desk EXCEPT ![r] = [IdleRequest EXCEPT !.pc = "spend", !.token = tok]]
  /\ UNCHANGED <<deskTime, book, lastMove, baseline, previews, orderTimes, spent>>

SpentNever(tok) == previews
Spent(tok) == [previews EXCEPT ![tok] = NoToken]

SpendToken(r) ==
  LET tok == desk[r].token IN
  /\ RequestAt(r, "spend")
  /\ IF Minted(tok) /\ deskTime - previews[tok].at <= TokenTtl
     THEN /\ previews' = Spent(tok)
          /\ desk' = [desk EXCEPT ![r].pc = "rate", ![r].left = Len(previews[tok].ticket.margins)]
     ELSE /\ previews' = [previews EXCEPT ![tok] = NoToken] /\ Reject(r)
  /\ UNCHANGED <<deskTime, book, lastMove, baseline, orderTimes, spent>>

RecentOrders ==
  LET f[t \in -1..DeskMaxTime] == IF t = -1 THEN 0
        ELSE f[t - 1] + (IF t >= deskTime - RateWindow /\ t <= deskTime THEN orderTimes[t] ELSE 0)
  IN f[DeskMaxTime]

(* enforceOrderRate.                                                       *)
EnforceRate(r) ==
  LET tok == desk[r].token IN
  /\ RequestAt(r, "rate")
  /\ IF RecentOrders < Account.perMinute
     THEN desk' = [desk EXCEPT ![r].pc = "insert"] /\ spent' = [spent EXCEPT ![tok] = @ + 1]
     ELSE Reject(r) /\ UNCHANGED spent
  /\ UNCHANGED <<deskTime, book, lastMove, baseline, previews, orderTimes>>

InsertRow(r) ==
  /\ RequestAt(r, "insert")
  /\ orderTimes' = [orderTimes EXCEPT ![deskTime] = @ + 1]
  /\ IF desk[r].left = 1 THEN Reject(r) ELSE desk' = [desk EXCEPT ![r].left = @ - 1]
  /\ UNCHANGED <<deskTime, book, lastMove, baseline, previews, spent>>

-----------------------------------------------------------------------------
(* Fills, exits and square-offs move the book; no one is told.             *)
BookMoves(n) ==
  /\ n \in {book - 1, book + 1} \cap 0..MaxBook
  /\ book' = n /\ lastMove' = deskTime
  /\ UNCHANGED <<deskTime, baseline, previews, desk, orderTimes, spent>>

(* A preview's calls take less than one unit of time together.             *)
DeskTick ==
  /\ deskTime < DeskMaxTime
  /\ \A r \in Requests : desk[r].start # None => deskTime = desk[r].start
  /\ deskTime' = deskTime + 1
  /\ UNCHANGED <<book, lastMove, baseline, previews, desk, orderTimes, spent>>

(* The API restarts: its maps are gone, the rows stay.                     *)
DeskRestart ==
  /\ baseline' = NotCached /\ desk' = [r \in Requests |-> IdleRequest]
  /\ previews' = [tok \in Tokens |-> NoToken]
  /\ UNCHANGED <<deskTime, book, lastMove, orderTimes, spent>>

DeskNext ==
  \/ \E r \in Requests :
       \/ \E t \in Tickets : PreviewStart(r, t)
       \/ ReadFunds(r) \/ ReadLeg(r) \/ ReadBasket(r) \/ ReadPositions(r) \/ QuoteBook(r) \/ CachedBook(r)
       \/ BrokerFails(r)
       \/ \E tok \in Tokens : ConfirmStart(r, tok)
       \/ SpendToken(r) \/ EnforceRate(r) \/ InsertRow(r)
  \/ \E n \in 0..MaxBook : BookMoves(n)
  \/ DeskTick \/ DeskRestart

DeskSpec == DeskInit /\ [][DeskNext]_deskVars

-----------------------------------------------------------------------------
(* However many tabs press Confirm on it, a token leads to one order.      *)
OncePerToken == \A tok \in Tokens : spent[tok] <= 1

(* A ticket is never shown as cheaper than it is once the book has been    *)
(* still for as long as a cached book margin lives (live-repository.ts:    *)
(* 735-796,848-904) - unless neither basket nor book could be priced and   *)
(* the sum of the legs it then shows contains a leg that came back zero.   *)
SettledBookPricedTrue == \A tok \in Tokens :
  Minted(tok) /\ previews[tok].still /\ ~previews[tok].short =>
    previews[tok].net >= previews[tok].ticket.adds

=============================================================================
