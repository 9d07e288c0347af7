----------------------------- MODULE Dashboard -----------------------------
(***************************************************************************)
(* The live page, web/src/components/live-dashboard.tsx: the queue of      *)
(* overview loads, the event stream with its watchdog and the polling that *)
(* stands in for it, and the order ticket that may follow an expiry of its *)
(* own.  Each response is a step; React's effects run with the commit that *)
(* causes them.  A market is an underlying and an expiry.                  *)
(***************************************************************************)
EXTENDS Naturals

CONSTANTS
  Symbols, Expiries,
  StreamStaleAfter, \* STALE_AFTER_MS, in ticks
  Heartbeat,     \* the longest a healthy stream is silent, in ticks
  MaxPageFaults  \* bound: requests failed or answered with another expiry,
                 \* stream errors and stalls

ASSUME MarketsAreNamed == {"none", "reload"} \cap Symbols = {}
ASSUME WatchdogIsPatient == Heartbeat \in Nat /\ StreamStaleAfter \in Nat /\ Heartbeat <= StreamStaleAfter

VARIABLES
  shown,       \* the market of overview; selectionRef holds the same
  pending,     \* pendingLoadRef: a market, Reload or None
  load,        \* the market being fetched
  chosen,      \* the market asked for last: what came for it, or what is shown
               \* once its request failed or a reload took its place
  orderExpiry, \* the ticket's expiry
  ticket,      \* orderExpiryOverview: the market asked for and the one it is of
  ticketLoads, \* fetches for the ticket not cancelled by a newer effect
  ticketError,
  stream,      \* the EventSource
  connected,   \* isMarketStreamConnectedRef
  quiet,       \* ticks since lastStreamEventAtRef
  pageFaults

pageVars == <<shown, pending, load, chosen, orderExpiry, ticket, ticketLoads, ticketError,
              stream, connected, quiet, pageFaults>>
loadVars == <<shown, pending, load, chosen>>
ticketVars == <<orderExpiry, ticket, ticketLoads, ticketError>>
streamVars == <<stream, connected, quiet>>

Markets == Symbols \X Expiries
None == <<"none", 0>>
Reload == <<"reload", 0>>
NoTicket == [asked |-> None, chain |-> None]
Default(s) == <<s, CHOOSE e \in Expiries : \A f \in Expiries : e <= f>>
NoLoad == [market |-> Default(CHOOSE s \in Symbols : TRUE), busy |-> FALSE]

PageInit ==
  /\ shown \in {Default(s) : s \in Symbols} /\ chosen = shown
  /\ pending = None /\ load = NoLoad
  /\ orderExpiry = shown[2] /\ ticket = NoTicket /\ ticketLoads = {} /\ ticketError = FALSE
  /\ stream = "connecting" /\ connected = FALSE /\ quiet = 0 /\ pageFaults = 0

Fault == pageFaults < MaxPageFaults /\ pageFaults' = pageFaults + 1
Fine == UNCHANGED pageFaults

(* What the API answers: a past expiry is read as none given, and NIFTY's  *)
(* demo chain stands in for a call to Dhan that failed, with no error.     *)
Answers(asked, came) ==
  \/ came = asked /\ Fine
  \/ came # asked /\ came[1] = asked[1] /\ Fault

(* enqueueOverviewLoad: one load at a time, and only the newest request    *)
(* waits; a reload fetches what is selected when it is taken up.           *)
Fetching(target, now) ==
  [market |-> IF target = Reload THEN now ELSE target, busy |-> TRUE]

Enqueue(target) ==
  IF load.busy THEN pending' = target /\ UNCHANGED load
  ELSE load' = Fetching(target, shown) /\ UNCHANGED pending

(* A reload takes the place of a selection that waits or is being fetched. *)
EnqueueReload == Enqueue(Reload) /\ chosen' = shown

(* The user picks a market: another expiry, or another underlying at its   *)
(* default expiry.                                                         *)
Select(market) ==
  /\ market # shown
  /\ market[1] = shown[1] \/ market = Default(market[1])
  /\ Enqueue(market) /\ chosen' = market
  /\ Fine /\ UNCHANGED <<shown, ticketVars, streamVars>>

(* The ticket's effect: with an expiry of its own it fetches that chain,   *)
(* and what an earlier effect asked for is ignored when it comes.          *)
UncancelledNone == ticketLoads
Uncancelled == {}

TicketEffect(oe, market) ==
  /\ orderExpiry' = oe /\ ticketError' = FALSE
  /\ IF oe = market[2] THEN ticket' = NoTicket /\ ticketLoads' = Uncancelled
     ELSE ticketLoads' = Uncancelled \cup {<<market[1], oe>>} /\ UNCHANGED ticket

TicketFollows(market) ==
  IF market = shown THEN UNCHANGED ticketVars
  ELSE IF market[1] # shown[1] THEN
    /\ orderExpiry' = market[2] /\ ticket' = NoTicket
    /\ ticketLoads' = Uncancelled /\ ticketError' = FALSE
  ELSE TicketEffect(orderExpiry, market)

(* A new market, or the watchdog, tears the stream down and opens another. *)
Recreate == stream' = "connecting" /\ connected' = FALSE /\ quiet' = 0
StreamFollows(market) == IF market = shown THEN UNCHANGED streamVars ELSE Recreate

(* A response: committed as the market it says it is of, unless a newer    *)
(* request is waiting; selectionRef follows overview.                      *)
LoadSkipped ==
  /\ load.busy /\ pending # None
  /\ load' = Fetching(pending, shown) /\ pending' = None
  /\ UNCHANGED <<shown, chosen, ticketVars, streamVars>>
  /\ Fine \/ Fault

LoadCommitted(m) ==
  /\ load.busy /\ pending = None /\ Answers(load.market, m)
  /\ shown' = m /\ load' = NoLoad
  /\ chosen' = IF chosen = load.market THEN m ELSE chosen
  /\ TicketFollows(m) /\ StreamFollows(m)
  /\ UNCHANGED pending

LoadFailed ==
  /\ load.busy /\ pending = None /\ load' = NoLoad
  /\ chosen' = shown /\ Fault /\ UNCHANGED <<shown, pending, ticketVars, streamVars>>

PickOrderExpiry(e) ==
  /\ e # orderExpiry /\ TicketEffect(e, shown)
  /\ Fine /\ UNCHANGED <<loadVars, streamVars>>

TicketLoaded(m, came) ==
  /\ m \in ticketLoads /\ Answers(m, came)
  /\ ticket' = [asked |-> m, chain |-> came] /\ ticketLoads' = ticketLoads \ {m}
  /\ UNCHANGED <<loadVars, streamVars, orderExpiry, ticketError>>

TicketFailed(m) ==
  /\ m \in ticketLoads /\ ticket' = NoTicket /\ ticketError' = TRUE
  /\ ticketLoads' = ticketLoads \ {m}
  /\ Fault /\ UNCHANGED <<loadVars, streamVars, orderExpiry>>

StreamOpens ==
  /\ stream = "connecting" /\ stream' = "open" /\ connected' = TRUE /\ quiet' = 0
  /\ Fine /\ UNCHANGED <<loadVars, ticketVars>>

(* A ticker or heartbeat event only says that the stream is alive; a       *)
(* snapshot-ready, sent when the worker has published a capture, reloads.  *)
StreamTicker ==
  /\ stream = "open" /\ quiet' = 0
  /\ Fine /\ UNCHANGED <<loadVars, ticketVars, stream, connected>>

SnapshotReady ==
  /\ stream = "open" /\ quiet' = 0 /\ EnqueueReload
  /\ Fine /\ UNCHANGED <<shown, ticketVars, stream, connected>>

(* The browser reopens a stream that errs, or gives it up for good; one    *)
(* that stalls, or whose opening hangs, tells nobody.                      *)
StreamErrors ==
  /\ stream \in {"connecting", "open"} /\ Fault
  /\ stream' \in {"connecting", "closed"} /\ connected' = FALSE
  /\ UNCHANGED <<loadVars, ticketVars, quiet>>

StreamStalls ==
  /\ stream \in {"connecting", "open"} /\ stream' = "stalled" /\ Fault
  /\ UNCHANGED <<loadVars, ticketVars, connected, quiet>>

PageTick ==
  /\ quiet <= StreamStaleAfter /\ (stream = "open" => quiet < Heartbeat)
  /\ quiet' = quiet + 1
  /\ Fine /\ UNCHANGED <<loadVars, ticketVars, stream, connected>>

SilentIfConnecting == quiet > StreamStaleAfter /\ ~connected
Silent == quiet > StreamStaleAfter
Watchdog ==
  /\ Silent /\ Recreate
  /\ Fine /\ UNCHANGED <<loadVars, ticketVars>>

Poll ==
  /\ ~connected /\ EnqueueReload
  /\ Fine /\ UNCHANGED <<shown, ticketVars, streamVars>>

Response == LoadSkipped \/ LoadFailed \/ \E m \in Markets : LoadCommitted(m)
TicketResponse == \E m \in Markets : TicketFailed(m) \/ \E came \in Markets : TicketLoaded(m, came)
Stream == StreamOpens \/ StreamTicker \/ SnapshotReady \/ StreamErrors \/ StreamStalls

PageNext ==
  \/ \E m \in Markets : Select(m)
  \/ \E e \in Expiries : PickOrderExpiry(e)
  \/ Response \/ TicketResponse \/ Stream \/ PageTick \/ Watchdog \/ Poll

PageSpec == PageInit /\ [][PageNext]_pageVars

(* Requests end, timers fire, a stream that is asked for opens.            *)
PageFair ==
  /\ WF_pageVars(Response) /\ WF_pageVars(Poll) /\ WF_pageVars(Watchdog)
  /\ WF_pageVars(PageTick) /\ WF_pageVars(StreamOpens)

CapturesKeepComing == WF_pageVars(SnapshotReady)

-----------------------------------------------------------------------------
(* Once its fetches have ended, the ticket shows what came for the expiry  *)
(* it will be placed in, whatever order the responses came in.             *)
TicketSettles ==
  ticketLoads = {} /\ ~ticketError /\ orderExpiry # shown[2]
    => ticket.asked = <<shown[1], orderExpiry>>

(* "A dropped selection left the user looking at the previous symbol's     *)
(* data with the new one selected and no error" (live-dashboard.tsx:593),  *)
(* which the queue is there to end: once nothing is loading or waiting,    *)
(* what was selected last is shown, in whatever order selections, reloads, *)
(* failures and responses came - unless a reload came while that selection *)
(* waited or was fetched, which the queue lets take its place.             *)
SelectionArrives == ~load.busy /\ pending = None => shown = chosen

(* A stream that stalls in silence, or never opens, does not block its own *)
(* fallback: the page loads, or the stream opens again.  While the worker  *)
(* publishes captures the page goes on loading.                            *)
PageKeepsLoading ==
  /\ stream # "open" ~> (load.busy \/ stream = "open")
  /\ CapturesKeepComing => []<>load.busy

=============================================================================
