----------------------------- MODULE LivePanel -----------------------------
(***************************************************************************)
(* The live panel's summary (web/src/components/live-order-panel.tsx):     *)
(* polled once a second while the tab is visible, without waiting for the  *)
(* reply before, from getLiveSummary, which reads the open rows and then   *)
(* those closed today; and the day's P&L it adds up from them.  Dhan       *)
(* counts a contract's realised P&L up over its day, and each close keeps  *)
(* the count so far; a close here adds one.  What is unrealised goes into  *)
(* the sum as it stands, and is left out.                                  *)
(***************************************************************************)
EXTENDS Naturals, SequencesExt, FiniteSetsExt

CONSTANTS
  PanelContracts, \* contracts
  Slots,         \* summaries that may be on their way at once
  MaxDeals,      \* bound: times a contract is opened or closed
  MaxPanelFaults \* bound: failed requests, and times the tab is hidden

VARIABLES
  openRows,   \* contracts with an OPEN LivePosition
  realised,   \* Dhan's count of each contract's day
  closedRows, \* CLOSED rows of today: [contract, pnl], in order of closedAt
  deals,
  visible,    \* document.visibilityState
  interval,   \* the poll's interval is running
  timerSet,   \* the variable that holds it is not undefined
  asking,     \* summaries asked for, each with what its handler has read
  sum,        \* the summary on the screen
  link,       \* what of a Dhan login the address bar carries
  panelFaults

panelVars == <<openRows, realised, closedRows, deals, visible, interval, timerSet, asking, sum,
               link, panelFaults>>
rowVars == <<openRows, realised, closedRows, deals>>
tabVars == <<visible, interval, timerSet>>

NoRead == [pc |-> "idle", open |-> {}, was |-> << >>, closed |-> <<>>, now |-> << >>]

PanelInit ==
  /\ openRows = {} /\ realised = [c \in PanelContracts |-> 0] /\ closedRows = <<>> /\ deals = 0
  /\ visible = TRUE /\ interval = TRUE /\ timerSet = TRUE
  /\ asking = [s \in Slots |-> NoRead] /\ sum = NoRead
  /\ link \in {"none", "code"} /\ panelFaults = 0

Oops == panelFaults < MaxPanelFaults /\ panelFaults' = panelFaults + 1
Free == {s \in Slots : asking[s].pc = "idle"}

-----------------------------------------------------------------------------
OpenDeal(c) ==
  /\ deals < MaxDeals /\ deals' = deals + 1
  /\ c \notin openRows /\ openRows' = openRows \cup {c}
  /\ UNCHANGED <<realised, closedRows, tabVars, asking, sum, link, panelFaults>>

CloseDeal(c) ==
  /\ deals < MaxDeals /\ deals' = deals + 1
  /\ c \in openRows /\ openRows' = openRows \ {c}
  /\ realised' = [realised EXCEPT ![c] = @ + 1]
  /\ closedRows' = Append(closedRows, [contract |-> c, pnl |-> realised'[c]])
  /\ UNCHANGED <<tabVars, asking, sum, link, panelFaults>>

-----------------------------------------------------------------------------
(* refresh: asks, whatever is still on its way.                            *)
Ask == \E s \in Free : asking' = [asking EXCEPT ![s] = [NoRead EXCEPT !.pc = "sent"]]

PollSummary == interval /\ Ask /\ UNCHANGED <<rowVars, tabVars, sum, link, panelFaults>>

(* onVisibility: hiding the tab stops the interval, showing it again asks  *)
(* at once and starts another unless one is held.                          *)
ForgetNot == timerSet   \* mutant of Forget: the stopped interval stays held
Forget == FALSE

HideTab ==
  /\ Oops /\ visible /\ visible' = FALSE
  /\ interval' = FALSE /\ timerSet' = Forget
  /\ UNCHANGED <<rowVars, asking, sum, link>>

ShowTab ==
  /\ ~visible /\ visible' = TRUE
  /\ IF timerSet THEN UNCHANGED <<interval, timerSet, asking>>
     ELSE interval' = TRUE /\ timerSet' = TRUE /\ (Ask \/ (Free = {} /\ UNCHANGED asking))
  /\ UNCHANGED <<rowVars, sum, link, panelFaults>>

(* getLiveSummary's two reads.                                             *)
ReadOpenRows(s) ==
  /\ asking[s].pc = "sent"
  /\ asking' = [asking EXCEPT ![s] =
       [@ EXCEPT !.pc = "half", !.open = openRows, !.was = realised]]
  /\ UNCHANGED <<rowVars, tabVars, sum, link, panelFaults>>

ReadClosedRows(s) ==
  /\ asking[s].pc = "half"
  /\ asking' = [asking EXCEPT ![s] =
       [@ EXCEPT !.pc = "reply", !.closed = closedRows, !.now = realised]]
  /\ UNCHANGED <<rowVars, tabVars, sum, link, panelFaults>>

(* A reply is shown whenever it comes; a failure leaves what was shown.    *)
ShowReply(s) ==
  /\ asking[s].pc = "reply"
  /\ sum' = asking[s] /\ asking' = [asking EXCEPT ![s] = NoRead]
  /\ UNCHANGED <<rowVars, tabVars, link, panelFaults>>

AskFails(s) ==
  /\ Oops /\ asking[s].pc # "idle"
  /\ asking' = [asking EXCEPT ![s] = NoRead]
  /\ UNCHANGED <<rowVars, tabVars, sum, link>>

(* A page loaded with tokenId and state posts them, then asks for the      *)
(* summary if that went well, and takes them out of the address bar        *)
(* either way.                                                             *)
PostConsume == link = "code" /\ link' = "posted" /\ UNCHANGED <<rowVars, tabVars, asking, sum, panelFaults>>

ConsumeDone ==
  /\ link = "posted" /\ link' = "none"
  /\ Ask \/ UNCHANGED asking
  /\ UNCHANGED <<rowVars, tabVars, sum, panelFaults>>

ServerSteps(s) == ReadOpenRows(s) \/ ReadClosedRows(s)
PanelNext ==
  \/ PollSummary \/ HideTab \/ ShowTab \/ PostConsume \/ ConsumeDone
  \/ \E c \in PanelContracts : OpenDeal(c) \/ CloseDeal(c)
  \/ \E s \in Slots : ServerSteps(s) \/ ShowReply(s) \/ AskFails(s)

PanelSpec == PanelInit /\ [][PanelNext]_panelVars

(* The browser fires its interval and brings replies, the API answers.     *)
PanelFair ==
  /\ WF_panelVars(PollSummary)
  /\ \A s \in Slots : WF_panelVars(ServerSteps(s)) /\ WF_panelVars(ShowReply(s))

-----------------------------------------------------------------------------
(* What the panel adds up: an open row carries its contract's day, a       *)
(* contract that is flat has its last close, and the earlier ones are in   *)
(* it (latestClosePerContract).                                            *)
EveryClose(rows) == ToSet(rows)
LatestClose(rows) ==
  {rows[i] : i \in {j \in DOMAIN rows : \A k \in (j + 1)..Len(rows) : rows[k].contract # rows[j].contract}}

Flat(s) == {r \in LatestClose(s.closed) : r.contract \notin s.open}
Counted(s, c) ==
  (IF c \in s.open THEN s.was[c] ELSE 0)
    + MapThenSumSet(LAMBDA r : r.pnl, {r \in Flat(s) : r.contract = c})

(* "Summing them double-counts" (live-order-panel.tsx:146-167,1270-1279):  *)
(* what the panel counts for a contract is what Dhan counted for it when   *)
(* the summary was read, however often it was closed and opened that day   *)
(* and whichever rows changed between the two reads.                       *)
DayCountsOnce ==
  \A c \in PanelContracts : sum.pc = "reply" =>
    Counted(sum, c) \in sum.was[c]..sum.now[c]

(* A tab that stays visible comes to show the account as it is: an old     *)
(* reply that overtakes a newer one is put right by the next polls.        *)
PanelCatchesUp ==
  <>[]visible => <>[](sum.open = openRows /\ sum.closed = closedRows)

-----------------------------------------------------------------------------
(* What a trader does on the live panel (live-order-panel.tsx): builds a   *)
(* ticket from a chain, has it priced, confirms it within its countdown,   *)
(* or presses panic; and closes, stops or reprices the rows of a table.    *)
(* One flag covers preview, confirm and panic; a table has one busyId.     *)
(* The handlers behind the requests are one step each here: LiveDesk and   *)
(* LiveControls model them.                                                *)
CONSTANTS
  Chains,     \* markets the dashboard may have chosen: underlying and expiry
  TicketStrikes,
  Rows,       \* rows of a table
  MaxPreviews, MaxRowActs \* bounds: previews asked for, actions on rows

VARIABLES
  chosenChain, \* the market the dashboard hands to the ticket
  chainHeld,   \* the market whose strikes the ticket lists
  chainLoad,   \* the load not cancelled by a newer one, if any
  form,        \* order type, the leg's strike and whose price its limit is
  preview,     \* the preview shown, and the ticket it prices
  busy,
  wire,        \* requests on their way, and whether their handler has run
  asked,       \* previews asked for
  tokens,      \* confirm tokens the API would still take
  busyId,      \* the row whose buttons are disabled
  rowWire,     \* requests on their way for each row
  rowActs

orderVars == <<chosenChain, chainHeld, chainLoad, form, preview, busy, wire, asked, tokens,
                busyId, rowWire, rowActs>>
chainVars == <<chosenChain, chainHeld, chainLoad>>
sendVars == <<preview, busy, wire, asked, tokens>>
tableVars == <<busyId, rowWire, rowActs>>

Empty == "empty"
NoPrice == <<Empty, Empty>>
Typed == <<"typed", Empty>>
NoStrike == [strike |-> Empty, price |-> NoPrice]
NoPreview == [n |-> 0]

TicketInit ==
  /\ chosenChain \in Chains /\ chainHeld = Empty /\ chainLoad = chosenChain
  /\ form = [type |-> "LIMIT", leg |-> NoStrike]
  /\ preview = NoPreview /\ busy = FALSE /\ wire = {} /\ asked = 0 /\ tokens = {}
  /\ busyId = Empty /\ rowWire = [r \in Rows |-> 0] /\ rowActs = 0

-----------------------------------------------------------------------------
(* The dashboard's market changes: the chain is fetched for it, and what   *)
(* is on the form stays, strikes and prices too.                           *)
ChangeMarket(m) ==
  /\ m # chosenChain /\ chosenChain' = m /\ chainLoad' = m
  /\ UNCHANGED <<chainHeld, form, sendVars, tableVars>>

ChainCame ==
  /\ chainLoad # Empty /\ chainLoad' = Empty
  /\ chainHeld' = chainLoad \/ UNCHANGED chainHeld   \* or it could not be had
  /\ UNCHANGED <<chosenChain, form, sendVars, tableVars>>

(* A strike brings its last price along; a structure starts afresh.        *)
PickStrike(k) ==
  /\ chainHeld # Empty
  /\ form' = [form EXCEPT !.leg = [strike |-> k, price |-> <<chainHeld, k>>]]
  /\ UNCHANGED <<chainVars, sendVars, tableVars>>

TypePrice ==
  /\ form.leg.strike # Empty /\ form.type = "LIMIT"
  /\ form' = [form EXCEPT !.leg.price = Typed]
  /\ UNCHANGED <<chainVars, sendVars, tableVars>>

PickStructure == form' = [form EXCEPT !.leg = NoStrike] /\ UNCHANGED <<chainVars, sendVars, tableVars>>

PickType(t) ==
  /\ form' = [form EXCEPT !.type = t] /\ UNCHANGED <<chainVars, sendVars, tableVars>>

Complete == form.leg.strike # Empty /\ (form.type = "MARKET" \/ form.leg.price # NoPrice)

-----------------------------------------------------------------------------
(* A request leaves under the flag its button is disabled by.              *)
MayAskAnyTime == TRUE   \* mutant of MayAsk: the button does not wait for the flag
MayAsk == ~busy

Sends(r) == busy' = TRUE /\ wire' = wire \cup {r}
Ticket == [market |-> chosenChain, strike |-> form.leg.strike,
           price |-> IF form.type = "LIMIT" THEN form.leg.price ELSE NoPrice]

AskPreview ==
  /\ MayAsk /\ Complete /\ asked < MaxPreviews /\ asked' = asked + 1
  /\ Sends([kind |-> "preview", n |-> asked + 1, ticket |-> Ticket, at |-> "sent"])
  /\ UNCHANGED <<chainVars, form, preview, tokens, tableVars>>

Confirm ==
  /\ MayAsk /\ preview # NoPreview
  /\ Sends([kind |-> "confirm", n |-> preview.n, ticket |-> preview.ticket, at |-> "sent"])
  /\ UNCHANGED <<chainVars, form, preview, asked, tokens, tableVars>>

Panic ==
  /\ MayAsk /\ Sends([kind |-> "panic", n |-> 0, ticket |-> Empty, at |-> "sent"])
  /\ UNCHANGED <<chainVars, form, preview, asked, tokens, tableVars>>

(* The API prices and hands out a token, spends one, or refuses.           *)
Handled(r, outcome) == wire' = (wire \ {r}) \cup {[r EXCEPT !.at = outcome]}

ApiHandles(r) ==
  /\ r \in wire /\ r.at = "sent"
  /\ \/ r.kind = "preview" /\ Handled(r, "done") /\ tokens' = tokens \cup {r.n}
     \/ r.kind = "preview" /\ Handled(r, "refused") /\ UNCHANGED tokens
     \/ r.kind = "confirm" /\ Handled(r, IF r.n \in tokens THEN "done" ELSE "refused")
        /\ tokens' = tokens \ {r.n}
     \/ r.kind = "panic" /\ Handled(r, "done") /\ UNCHANGED tokens
  /\ UNCHANGED <<chainVars, form, preview, busy, asked, tableVars>>

(* A token's ten seconds pass at the API, the countdown on the page.       *)
TokenExpires(n) ==
  /\ tokens' = tokens \ {n}
  /\ UNCHANGED <<chainVars, form, preview, busy, wire, asked, tableVars>>

CountedDown ==
  /\ preview # NoPreview /\ preview' = NoPreview
  /\ UNCHANGED <<chainVars, form, busy, wire, asked, tokens, tableVars>>

(* The reply comes, or is lost with whatever the handler did.  A preview   *)
(* that fails takes the one shown away; a confirm that fails leaves it.    *)
ReplyComes(r, lost) ==
  /\ r \in wire /\ (lost \/ r.at # "sent")
  /\ wire' = wire \ {r} /\ busy' = FALSE
  /\ LET done == ~lost /\ r.at = "done" IN
     preview' = CASE r.kind = "preview" -> IF done THEN [n |-> r.n, ticket |-> r.ticket] ELSE NoPreview
                  [] r.kind = "confirm" -> IF done THEN NoPreview ELSE preview
                  [] r.kind = "panic" -> preview
  /\ UNCHANGED <<chainVars, form, asked, tokens, tableVars>>

-----------------------------------------------------------------------------
(* A row's button is disabled while busyId is its own: the newest action   *)
(* takes busyId, and whichever ends first clears it.                       *)
ActOnRow(r) ==
  /\ busyId # r /\ rowActs < MaxRowActs /\ rowActs' = rowActs + 1
  /\ busyId' = r /\ rowWire' = [rowWire EXCEPT ![r] = @ + 1]
  /\ UNCHANGED <<chainVars, form, sendVars>>

RowAnswered(r) ==
  /\ rowWire[r] > 0 /\ rowWire' = [rowWire EXCEPT ![r] = @ - 1]
  /\ busyId' = Empty
  /\ UNCHANGED <<rowActs, chainVars, form, sendVars>>

TicketNext ==
  \/ \E m \in Chains : ChangeMarket(m)
  \/ ChainCame \/ PickStructure \/ TypePrice \/ AskPreview \/ Confirm \/ Panic \/ CountedDown
  \/ \E k \in TicketStrikes : PickStrike(k)
  \/ \E t \in {"LIMIT", "MARKET"} : PickType(t)
  \/ \E r \in wire : ApiHandles(r) \/ ReplyComes(r, TRUE) \/ ReplyComes(r, FALSE)
  \/ \E n \in tokens : TokenExpires(n)

RowNext == \E r \in Rows : ActOnRow(r) \/ RowAnswered(r)

TicketSpec == TicketInit /\ [][TicketNext \/ RowNext]_orderVars

-----------------------------------------------------------------------------
(* What may be confirmed is the answer to the last preview asked for: no   *)
(* slow reply to an earlier ticket is on the screen with its token         *)
(* (live-order-panel.tsx:424-444,477-504).                                 *)
NewestIsConfirmed == preview # NoPreview /\ ~busy => preview.n = asked

(* No button stays disabled with nothing under way, in whatever order the  *)
(* replies come and whichever of them are lost (live-order-panel.tsx: the  *)
(* finally blocks of 424-504, 1160-1235 and 1540-1585).                    *)
ButtonsComeBack ==
  /\ busy => wire # {}
  /\ busyId # Empty => rowWire[busyId] > 0
=============================================================================
