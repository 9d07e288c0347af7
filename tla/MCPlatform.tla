----------------------------- MODULE MCPlatform -----------------------------
(* The API's market cache, the accounts, the live page and its order       *)
(* panel, what the simulator shows, the paper tickets, the ticker and the  *)
(* Replay Lab, in one run: a behaviour picks a scene and only that part    *)
(* moves.                                                                  *)
EXTENDS MarketCache, Accounts, Dashboard, SimViews, LivePanel, PaperTickets, ReplayLab

VARIABLE scene

Lim == [email |-> 2, ip |-> 3]
Strangle == {[side |-> "SELL", type |-> "CE", strike |-> 11],
             [side |-> "SELL", type |-> "PE", strike |-> 9]}
Spread == {[side |-> "SELL", type |-> "PE", strike |-> 10],
           [side |-> "BUY", type |-> "PE", strike |-> 6]}
(* The premiums of the strangle's call and put, the spread's put and wing. *)
Snap(s, call, put, short, wing) ==
  LET all == [l \in Legs |-> IF l[1] = "spread" THEN (IF l[2].side = "SELL" THEN short ELSE wing)
                             ELSE IF l[2].type = "CE" THEN call ELSE put]
  IN  [spot |-> s, price |-> [l \in {x \in Legs : all[x] # Unknown} |-> all[l]]]
Snaps == {Snap(10, 2, 1, 3, 1), Snap(12, 5, 0, 2, 1)}
Moves == {-2, 0, 2}
Asks == {{"a", "b"}, {"c"}}
Days == [m \in {<<"A", 1>>, <<"A", 2>>, <<"B", 3>>} |-> IF m[2] = 1 THEN {1, 2} ELSE {m[2] - 1}]
Str == [strangle |-> Strangle, spread |-> Spread]
mostVars == <<cacheVars, acctVars, pageVars, viewVars, panelVars, orderVars>>
extraVars == <<paperTicketVars, tickerVars, replayVars>>
platformVars == <<scene, mostVars, extraVars>>

PlatformInit ==
  /\ scene \in {"market", "accounts", "page", "views", "marks", "panel", "ticket", "rows", "tickets", "ticker", "replay"}
  /\ CacheInit /\ AccountInit
  /\ ViewInit /\ PageInit /\ (scene # "page" => shown = Default("A"))
  /\ PanelInit /\ (scene # "panel" => link = "none")
  /\ TicketInit /\ (scene # "ticket" => chosenChain = "near")
  /\ PaperTicketInit /\ TickerInit
  /\ ReplayInit /\ (scene # "replay" => replay.e = 1)

PlatformNext ==
  /\ UNCHANGED scene
  /\ \/ scene = "market" /\ CacheNext /\ UNCHANGED <<acctVars, pageVars, viewVars, panelVars, orderVars, extraVars>>
     \/ scene = "accounts" /\ AccountNext /\ UNCHANGED <<cacheVars, pageVars, viewVars, panelVars, orderVars, extraVars>>
     \/ scene = "page" /\ PageNext /\ UNCHANGED <<cacheVars, acctVars, viewVars, panelVars, orderVars, extraVars>>
     \/ scene = "views" /\ (TradeNext \/ ShowNext) /\ UNCHANGED <<cacheVars, acctVars, pageVars, panelVars, orderVars, extraVars>>
     \/ scene = "marks" /\ (TradeNext \/ MarkNext) /\ UNCHANGED <<cacheVars, acctVars, pageVars, panelVars, orderVars, extraVars>>
     \/ scene = "panel" /\ PanelNext /\ UNCHANGED <<cacheVars, acctVars, pageVars, viewVars, orderVars, extraVars>>
     \/ scene = "ticket" /\ TicketNext /\ UNCHANGED <<cacheVars, acctVars, pageVars, viewVars, panelVars, extraVars>>
     \/ scene = "rows" /\ RowNext /\ UNCHANGED <<cacheVars, acctVars, pageVars, viewVars, panelVars, extraVars>>
     \/ scene = "tickets" /\ PaperTicketNext /\ UNCHANGED <<mostVars, tickerVars, replayVars>>
     \/ scene = "ticker" /\ TickerNext /\ UNCHANGED <<mostVars, paperTicketVars, replayVars>>
     \/ scene = "replay" /\ ReplayNext /\ UNCHANGED <<mostVars, paperTicketVars, tickerVars>>

PlatformSpec == PlatformInit /\ [][PlatformNext]_platformVars

-----------------------------------------------------------------------------
(* The owner of a registered address always gets it verified in the end.   *)
AddressGetsProven == scene = "accounts" /\ AccountFair => OwnerGetsIn

(* The page always comes back to loading, whatever its stream does.        *)
PageStaysLive == scene = "page" /\ PageFair => PageKeepsLoading

(* A tab left visible comes to show the live account as it is.             *)
PanelStaysTrue == scene = "panel" /\ PanelFair => PanelCatchesUp

(* A playback left to itself comes to its end.                             *)
PlaybackStops == scene = "replay" /\ ReplayFair => PlaybackEnds

-----------------------------------------------------------------------------
(* What several parts promise together, one property each.  A market       *)
(* response pairs its ticks with their own pressure, and is behind the     *)
(* store by no more than one load and one cache lifetime.                  *)
ResponseIsSound == PairedPressure /\ BoundedStaleness

(* What the simulator shows adds up: the summary balances with the trades, *)
(* the stress grid foretells the margin, and the day's rows keep the days  *)
(* apart.                                                                  *)
ViewsAreTrue == SummaryBalances /\ StressForetells /\ RowsKeepApart

(* The paper book's cap yields to races only, and a ticket shows one       *)
(* margin.                                                                 *)
TicketsAreSound == CapYieldsToRacesOnly /\ OneMarginPerTicket

(* What the page settles on is what was asked last: the market chosen, the *)
(* ticket's chain, the day's profit counted once, the newest preview       *)
(* confirmed; and what it disabled meanwhile it enables again; the Replay  *)
(* Lab shows what is selected in it.                                       *)
PageIsHonest ==
  /\ TicketSettles /\ SelectionArrives
  /\ DayCountsOnce /\ NewestIsConfirmed /\ ButtonsComeBack /\ ReplayAgrees

(* Nobody is left behind: an address gets proven, the page loads again, an *)
(* open tab comes to show the account, a playback ends.                    *)
NobodyIsLeft == AddressGetsProven /\ PageStaysLive /\ PanelStaysTrue /\ PlaybackStops
=============================================================================
