----------------------------- MODULE BrokerLink -----------------------------
(***************************************************************************)
(* One user's link to the broker, packages/db/src/live-repository.ts: a    *)
(* credential is pasted or fetched through a partner consent, proven,      *)
(* stored, revoked and cached as a client by each process, while orders    *)
(* pass the gates of an account and look the client up.  A person may      *)
(* change the Dhan client id of the credential; each id gets an account of *)
(* its own, with its own switch.                                           *)
(***************************************************************************)
EXTENDS Integers, SequencesExt, FiniteSets, FiniteSetsExt

CONSTANTS
  Clients,     \* Dhan client ids
  Savers,      \* saving requests in flight at once
  Callers,     \* calls that need a client, by the process they run in
  Consents,    \* states of partner consents
  MaxStamp     \* bound: writes of the credential row

ASSUME LinkBounds == MaxStamp \in Nat /\ Callers \subseteq {"api", "api2", "worker"}

VARIABLES
  credential,  \* UserBrokerCredential: st, client id, updatedAt and life left
  liveAccounts,\* client ids with a LiveAccount
  enabled,     \* those of them with tradingEnabled
  clientCache, \* clientCache of each process
  consent,     \* pendingConsents: each state unused, pending or gone
  exchanged,   \* how often each state's code was exchanged
  saver,       \* the saving requests
  caller       \* the calls

linkVars == <<credential, liveAccounts, enabled, clientCache, consent, exchanged, saver, caller>>

Process == [c \in Callers |-> IF c = "worker" THEN "worker" ELSE "api"]
NoClient == [client |-> "none", stamp |-> 0]
IdleSaver == [pc |-> "idle", client |-> "none", state |-> "none"]
IdleCaller == [pc |-> "idle", opens |-> FALSE, account |-> "none", from |-> 0, row |-> NoClient]
SaverAt(s, pc) == saver[s].pc = pc
CallerAt(c, pc) == caller[c].pc = pc
SaverGoes(s, pc) == saver' = [saver EXCEPT ![s].pc = pc]
CallerGoes(c, pc) == caller' = [caller EXCEPT ![c].pc = pc]
CallerEnds(c) == caller' = [caller EXCEPT ![c] = IdleCaller]

LinkInit ==
  /\ credential = [st |-> "none", client |-> "none", stamp |-> 0, life |-> "long"]
  /\ liveAccounts = {} /\ enabled = {}
  /\ clientCache = [p \in {"api", "worker"} |-> NoClient]
  /\ consent = [s \in Consents |-> "unused"] /\ exchanged = [s \in Consents |-> 0]
  /\ saver = [s \in Savers |-> IdleSaver] /\ caller = [c \in Callers |-> IdleCaller]

-----------------------------------------------------------------------------
(* beginBrokerConsent: Dhan mints a consent, the process remembers it.     *)
BeginConsent(state) ==
  /\ consent[state] = "unused" /\ consent' = [consent EXCEPT ![state] = "pending"]
  /\ UNCHANGED <<credential, liveAccounts, enabled, clientCache, exchanged, saver, caller>>

(* completeBrokerConsent: the state is spent before the exchange begins.   *)
SpendStateLate(state) == UNCHANGED consent
SpendState(state) == consent' = [consent EXCEPT ![state] = "gone"]

CompleteConsent(s, state) ==
  /\ SaverAt(s, "idle") /\ consent[state] = "pending"
  /\ SpendState(state)
  /\ saver' = [saver EXCEPT ![s] = [pc |-> "exchange", client |-> "none", state |-> state]]
  /\ UNCHANGED <<credential, liveAccounts, enabled, clientCache, exchanged, caller>>

(* Another user's session brings the state, or ten minutes pass, or the    *)
(* API restarts: the attempt is gone.                                      *)
ConsentLost(state) ==
  /\ consent[state] = "pending" /\ consent' = [consent EXCEPT ![state] = "gone"]
  /\ UNCHANGED <<credential, liveAccounts, enabled, clientCache, exchanged, saver, caller>>

(* consumeConsent: Dhan names the client the person logged in as.          *)
Exchange(s) ==
  /\ SaverAt(s, "exchange")
  /\ exchanged' = [exchanged EXCEPT ![saver[s].state] = @ + 1]
  /\ consent' = [consent EXCEPT ![saver[s].state] = "gone"]
  /\ \/ \E id \in Clients : saver' = [saver EXCEPT ![s] = [IdleSaver EXCEPT !.pc = "probe", !.client = id]]
     \/ saver' = [saver EXCEPT ![s] = IdleSaver]
  /\ UNCHANGED <<credential, liveAccounts, enabled, clientCache, caller>>

(* saveBrokerCredential with a pasted token that names its client and has  *)
(* not expired.                                                            *)
Paste(s, id) ==
  /\ SaverAt(s, "idle")
  /\ saver' = [saver EXCEPT ![s] = [IdleSaver EXCEPT !.pc = "probe", !.client = id]]
  /\ UNCHANGED <<credential, liveAccounts, enabled, clientCache, consent, exchanged, caller>>

(* The proof that the token is alive comes before the row is written.      *)
ProbeFails(s) ==
  /\ SaverAt(s, "probe") /\ saver' = [saver EXCEPT ![s] = IdleSaver]
  /\ UNCHANGED <<credential, liveAccounts, enabled, clientCache, consent, exchanged, caller>>

UpsertCredential(s) ==
  /\ SaverAt(s, "probe") /\ credential.stamp < MaxStamp
  /\ credential' = [st |-> "stored", client |-> saver[s].client, stamp |-> credential.stamp + 1, life |-> "long"]
  /\ SaverGoes(s, "invalidate")
  /\ UNCHANGED <<liveAccounts, enabled, clientCache, consent, exchanged, caller>>

(* Only the API's cache is told; the account follows.                      *)
Invalidate(s) ==
  /\ SaverAt(s, "invalidate") /\ SaverGoes(s, "account")
  /\ clientCache' = [clientCache EXCEPT !["api"] = NoClient]
  /\ UNCHANGED <<credential, liveAccounts, enabled, consent, exchanged, caller>>

UpsertAccount(s) ==
  /\ SaverAt(s, "account") /\ saver' = [saver EXCEPT ![s] = IdleSaver]
  /\ liveAccounts' = liveAccounts \cup {saver[s].client}
  /\ UNCHANGED <<credential, enabled, clientCache, consent, exchanged, caller>>

(* revokeBrokerCredential writes the row too.                              *)
Revoke ==
  /\ credential.st = "stored" /\ credential.stamp < MaxStamp
  /\ credential' = [credential EXCEPT !.st = "revoked", !.stamp = @ + 1]
  /\ clientCache' = [clientCache EXCEPT !["api"] = NoClient]
  /\ UNCHANGED <<liveAccounts, enabled, consent, exchanged, saver, caller>>

(* Time, and whoever sets an account's switch in the database.             *)
TokenAges ==
  /\ credential.st = "stored"
  /\ credential' = [credential EXCEPT !.life = IF @ = "long" THEN "short" ELSE "expired"]
  /\ UNCHANGED <<liveAccounts, enabled, clientCache, consent, exchanged, saver, caller>>

SetTradingEnabled ==
  /\ \E id \in liveAccounts : enabled' = IF id \in enabled THEN enabled \ {id} ELSE enabled \cup {id}
  /\ UNCHANGED <<credential, liveAccounts, clientCache, consent, exchanged, saver, caller>>

LinkRestart(p) ==
  /\ clientCache' = [clientCache EXCEPT ![p] = NoClient]
  /\ caller' = [c \in Callers |-> IF Process[c] = p THEN IdleCaller ELSE caller[c]]
  /\ saver' = IF p = "api" THEN [s \in Savers |-> IdleSaver] ELSE saver
  /\ consent' = IF p = "api" THEN [s \in Consents |-> IF consent[s] = "pending" THEN "gone" ELSE consent[s]]
                ELSE consent
  /\ UNCHANGED <<credential, liveAccounts, enabled, exchanged>>

-----------------------------------------------------------------------------
(* requireTradableAccount: some active account of the user's, its switch,  *)
(* then the credential.  An exit needs the switch too, and no life left.   *)
GateAccount(c, id, opens) ==
  /\ CallerAt(c, "idle") /\ Process[c] = "api" /\ id \in liveAccounts /\ id \in enabled
  /\ caller' = [caller EXCEPT ![c] = [IdleCaller EXCEPT !.pc = "gate", !.opens = opens, !.account = id]]
  /\ UNCHANGED <<credential, liveAccounts, enabled, clientCache, consent, exchanged, saver>>

CanOpen == credential.life = "long"
GateCredential(c) ==
  /\ CallerAt(c, "gate")
  /\ IF credential.st = "stored" /\ (caller[c].opens => CanOpen)
     THEN caller' = [caller EXCEPT ![c].pc = "lookup", ![c].from = credential.stamp]
     ELSE CallerEnds(c)
  /\ UNCHANGED <<credential, liveAccounts, enabled, clientCache, consent, exchanged, saver>>

(* reconcileAllLiveAccounts takes each active account in turn.             *)
SweepAccount(c, id) ==
  /\ CallerAt(c, "idle") /\ Process[c] = "worker" /\ id \in liveAccounts
  /\ caller' = [caller EXCEPT ![c] =
       [IdleCaller EXCEPT !.pc = "lookup", !.account = id, !.from = credential.stamp]]
  /\ UNCHANGED <<credential, liveAccounts, enabled, clientCache, consent, exchanged, saver>>

(* getUserDhanClient: the row, then, when the read returns, the cache.     *)
ReadCredential(c) ==
  /\ CallerAt(c, "lookup")
  /\ IF credential.st = "stored"
     THEN caller' = [caller EXCEPT ![c].pc = "resolve",
                       ![c].row = [client |-> credential.client, stamp |-> credential.stamp]]
     ELSE CallerEnds(c)
  /\ UNCHANGED <<credential, liveAccounts, enabled, clientCache, consent, exchanged, saver>>

HitAny(p, row) == clientCache[p] # NoClient
HitStamped(p, row) == clientCache[p].stamp = row.stamp

ResolveClient(c) ==
  /\ CallerAt(c, "resolve")
  /\ LET p == Process[c]
         client == IF HitStamped(p, caller[c].row) THEN clientCache[p] ELSE caller[c].row
     IN /\ clientCache' = [clientCache EXCEPT ![p] = client]
        /\ caller' = [caller EXCEPT ![c].pc = "use", ![c].row = client]
  /\ UNCHANGED <<credential, liveAccounts, enabled, consent, exchanged, saver>>

(* The client is used: an order, an exit, or the account's reconciliation. *)
UseClient(c) ==
  /\ CallerAt(c, "use") /\ CallerEnds(c)
  /\ UNCHANGED <<credential, liveAccounts, enabled, clientCache, consent, exchanged, saver>>

SaverStep(s) ==
  \/ Exchange(s) \/ ProbeFails(s) \/ UpsertCredential(s) \/ Invalidate(s) \/ UpsertAccount(s)
  \/ \E id \in Clients : Paste(s, id)
  \/ \E state \in Consents : CompleteConsent(s, state)

CallerStep(c) ==
  \/ GateCredential(c) \/ ReadCredential(c) \/ ResolveClient(c) \/ UseClient(c)
  \/ \E id \in Clients, opens \in BOOLEAN : GateAccount(c, id, opens)
  \/ \E id \in Clients : SweepAccount(c, id)

LinkNext ==
  \/ \E state \in Consents : BeginConsent(state) \/ ConsentLost(state)
  \/ \E s \in Savers : SaverStep(s)
  \/ \E c \in Callers : CallerStep(c)
  \/ Revoke \/ TokenAges \/ SetTradingEnabled
  \/ \E p \in {"api", "worker"} : LinkRestart(p)

LinkSpec == LinkInit /\ [][LinkNext]_linkVars

-----------------------------------------------------------------------------
(* A call never uses a client of a credential that had been replaced or    *)
(* revoked before the call began, although the worker's cache is told of   *)
(* neither and a slow lookup may put an old client back into the API's.    *)
ClientIsCurrent == \A c \in Callers : CallerAt(c, "use") => caller[c].row.stamp >= caller[c].from

(* "Single use, whatever happens next": however many sessions bring the    *)
(* state of a consent, its code is exchanged at most once.                 *)
ConsentSpentOnce == \A s \in Consents : exchanged[s] <= 1

-----------------------------------------------------------------------------
(* One request through DhanClient (packages/dhan/src/index.ts): the        *)
(* credential guard, the wire, what may come back, what the caller is told *)
(* and what the audit log is told; the chain and the quotes a good answer  *)
(* is decoded into; and the two caches that stand between a commodity and  *)
(* the id of its front-month future.  The clock counts parts of a day.     *)
CONSTANTS
  Futures,      \* [id, last]: a contract and the last day it trades
  Prices,       \* spots and strikes
  PartsOfDay,   \* the clock's units in a day
  QuoteCache, CsvCache,   \* COMMODITY_QUOTE_CACHE_MS, SCRIP_MASTER_CSV_CACHE_MS
  TokenLife, TokenMaxTime \* bounds: the token's expiry, the clock

ASSUME DhanAssumption ==
  /\ \A f \in Futures : f.last \in Nat
  /\ Prices \subseteq Nat \ {0} /\ PartsOfDay \in Nat \ {0}
  /\ QuoteCache \in Nat /\ CsvCache \in Nat /\ TokenLife \in Nat /\ TokenMaxTime \in Nat

VARIABLES
  call,     \* the request under way and its outcome
  atDhan,   \* what became of it there: "none", "done", "refused"
  dhanLog,  \* the outcomes the audit callback was given for it
  master,   \* scripMasterCsvCache
  fronts,   \* commodityFutureQuoteCache
  hour      \* the clock

dhanVars == <<call, atDhan, dhanLog, master, fronts, hour>>
Absent == 0
NoFuture == [id |-> "spot", last |-> -1]
NoCall == [at |-> "idle", kind |-> "none", status |-> 0, body |-> "none", told |-> "none",
           spot |-> Absent, atm |-> Absent, strikes |-> {}, quote |-> NoFuture, hour |-> 0]
Empty == [until |-> 0, listed |-> {}]
Day(h) == h \div PartsOfDay

DhanInit ==
  /\ call = NoCall /\ atDhan = "none" /\ dhanLog = <<>>
  /\ master = Empty /\ fronts = [until |-> 0, quote |-> NoFuture] /\ hour = 0

DhanTick ==
  /\ hour < TokenMaxTime /\ hour' = hour + 1
  /\ UNCHANGED <<call, atDhan, dhanLog, master, fronts>>

-----------------------------------------------------------------------------
(* Helpers of the decoding.                                                *)
(* The reduce keeps the first of the nearest, and strikes are sorted.      *)
Gap(a, b) == IF a < b THEN b - a ELSE a - b
AtmStrike(strikes, spot) ==
  LET near == {s \in strikes : \A t \in strikes : Gap(s, spot) <= Gap(t, spot)}
  IN Min(near)

(* selectQuotePayload: the primary if it has a price.                      *)
SelectQuote(primary, fallback) == IF primary # Absent THEN primary ELSE fallback

NotOver(f) == f.last >= Day(hour)

(* parseCommodityFutureQuotes: the nearest contract that is not over.      *)
FrontMonth(listed) ==
  LET live == {f \in listed : NotOver(f)}
  IN IF live = {} THEN NoFuture ELSE CHOOSE f \in live : \A g \in live : f.last <= g.last

(* What the exchange's file lists on a day.                                *)
ListedNow == {f \in Futures : f.last >= Day(hour) /\ f.last <= Day(hour) + 2}

-----------------------------------------------------------------------------
(* requestDhan's guard comes before anything is sent or audited: a token   *)
(* whose expiry has passed never leaves.                                   *)
TokenUsable == hour < TokenLife

Refuse(kind) ==
  /\ call = NoCall /\ ~TokenUsable
  /\ call' = [NoCall EXCEPT !.at = "done", !.kind = kind, !.told = "guard"]
  /\ UNCHANGED <<atDhan, dhanLog, master, fronts, hour>>

(* An order, a portfolio read, or an option chain, with or without the     *)
(* spot the caller has already.                                            *)
Send(kind) ==
  /\ call = NoCall /\ TokenUsable /\ kind \in {"order", "read"}
  /\ call' = [NoCall EXCEPT !.at = "sent", !.kind = kind]
  /\ UNCHANGED <<atDhan, dhanLog, master, fronts, hour>>

SendChain(override) ==
  /\ call = NoCall /\ TokenUsable
  /\ call' = [NoCall EXCEPT !.at = "sent", !.kind = "chain", !.spot = override]
  /\ UNCHANGED <<atDhan, dhanLog, master, fronts, hour>>

(* resolveQuoteUnderlyings: the cached front month, a parse of the cached  *)
(* file, or a download, which carries no timeout and no audit.             *)
CachedForever(cache) == cache.until > 0   \* mutant: never downloaded again
Cached(cache) == cache.until > hour

SendQuote ==
  /\ call = NoCall /\ TokenUsable
  /\ LET csv   == IF Cached(master) THEN master ELSE [until |-> hour + CsvCache, listed |-> ListedNow]
         front == IF Cached(fronts) THEN fronts
                  ELSE [until |-> hour + QuoteCache, quote |-> FrontMonth(csv.listed)]
     IN /\ master' = IF Cached(fronts) THEN master ELSE csv
        /\ fronts' = front
        /\ call' = [NoCall EXCEPT !.at = "sent", !.kind = "quote",
                                    !.quote = front.quote, !.hour = hour]
  /\ UNCHANGED <<atDhan, dhanLog, hour>>

-----------------------------------------------------------------------------
(* What Dhan, or something on the way, answers: status and kind of body.   *)
(* Only an answer in Dhan's own JSON with a 4xx says it was refused.       *)
Answer(status, body, done) ==
  /\ call.at = "sent"
  /\ body = "failed" => status = 200
  /\ status = 400 /\ body = "json" => ~done
  /\ status = 200 /\ body = "json" => done
  /\ atDhan' = IF done THEN "done" ELSE "refused"
  /\ call' = [call EXCEPT !.at = "answered", !.status = status, !.body = body]
  /\ UNCHANGED <<dhanLog, master, fronts, hour>>

Audit(ok) == dhanLog' = Append(dhanLog, ok)

(* Mutant of Withheld: the status is passed on whatever the body was.      *)
WithheldNever(status, body) == status
(* The caller is given the status of an error only if its body was read.   *)
Withheld(status, body) == IF body = "json" /\ status # 200 THEN status ELSE 0

(* No answer in time, or a connection that broke: it may have arrived.     *)
NoAnswer ==
  /\ call.at = "sent"
  /\ atDhan' \in {"done", "refused"}
  /\ call' = [call EXCEPT !.at = "done", !.told = "threw"]
  /\ Audit(FALSE)
  /\ UNCHANGED <<master, fronts, hour>>

(* A body that is no JSON, or an HTTP error: thrown and audited once.      *)
BadAnswer ==
  /\ call.at = "answered" /\ (call.body = "text" \/ call.status # 200)
  /\ call' = [call EXCEPT !.at = "done", !.told = "threw",
                          !.status = Withheld(call.status, call.body)]
  /\ Audit(FALSE)
  /\ UNCHANGED <<atDhan, master, fronts, hour>>

(* Otherwise it is audited as a success before it is unwrapped, and a      *)
(* payload that says it failed, or has nothing in it, throws after that.   *)
GoodAnswer ==
  /\ call.at = "answered" /\ call.status = 200 /\ call.body # "text"
  /\ Audit(TRUE)
  /\ call' = [call EXCEPT !.at = "unwrap"]
  /\ UNCHANGED <<atDhan, master, fronts, hour>>

SaysFailed ==
  /\ call.at = "unwrap" /\ call.body = "failed"
  /\ call' = [call EXCEPT !.at = "done", !.told = "threw", !.status = 0]
  /\ Audit(FALSE)
  /\ UNCHANGED <<atDhan, master, fronts, hour>>

(* An order's reply may lack the id; a book or the positions that come as  *)
(* anything but a list, an empty body included, are read as none at all.   *)
Unwrapped ==
  /\ call.at = "unwrap" /\ call.body = "json" /\ call.kind \in {"order", "read"}
  /\ call' = [call EXCEPT !.at = "done", !.told = "result"]
  /\ UNCHANGED <<atDhan, dhanLog, master, fronts, hour>>

(* normalizeOptionChain: a chain without strikes throws, unaudited; the    *)
(* caller's spot, if any, replaces the chain's and moves the ATM strike    *)
(* among the strikes that have a leg.                                      *)
ChainDecoded(spot, strikes, traded) ==
  /\ call.at = "unwrap" /\ call.body = "json" /\ call.kind = "chain"
  /\ traded \subseteq strikes
  /\ call' = IF strikes = {} THEN [call EXCEPT !.at = "done", !.told = "threw", !.status = 0]
             ELSE [call EXCEPT !.at = "done", !.told = "result", !.strikes = traded,
                     !.spot = IF call.spot = Absent THEN spot ELSE @,
                     !.atm  = IF call.spot = Absent \/ traded = {} THEN AtmStrike(strikes, spot)
                              ELSE AtmStrike(traded, call.spot)]
  /\ UNCHANGED <<atDhan, dhanLog, master, fronts, hour>>

(* The front month's price, or the spot's where it has none.               *)
QuoteDecoded(primary, fallback) ==
  /\ call.at = "unwrap" /\ call.body = "json" /\ call.kind = "quote"
  /\ call.quote = NoFuture => primary = fallback
  /\ call' = [call EXCEPT !.at = "done", !.told = "result", !.spot = SelectQuote(primary, fallback)]
  /\ UNCHANGED <<atDhan, dhanLog, master, fronts, hour>>

(* The caller goes on.                                                     *)
NextCall ==
  /\ call.at = "done"
  /\ call' = NoCall /\ atDhan' = "none" /\ dhanLog' = <<>>
  /\ UNCHANGED <<master, fronts, hour>>

Decode ==
  \/ \E spot \in Prices \cup {Absent}, strikes, traded \in SUBSET Prices :
       ChainDecoded(spot, strikes, traded)
  \/ \E primary, fallback \in {Absent, Min(Prices)} : QuoteDecoded(primary, fallback)

DhanNext ==
  \/ DhanTick \/ SendQuote \/ NoAnswer \/ BadAnswer \/ GoodAnswer \/ SaysFailed \/ Unwrapped
  \/ NextCall \/ Decode
  \/ \E kind \in {"order", "read"} : Refuse(kind) \/ Send(kind)
  \/ \E override \in Prices \cup {Absent} : SendChain(override)
  \/ \E status \in {200, 400, 500}, body \in {"json", "text", "failed"}, done \in BOOLEAN :
       Answer(status, body, done)

DhanSpec == DhanInit /\ [][DhanNext]_dhanVars

-----------------------------------------------------------------------------
(* The money rests on it (live-repository.ts:1285): an error that carries  *)
(* a 4xx status is only raised for a request Dhan did not carry out, so an *)
(* order whose fate is not known is never taken for a refused one.         *)
RefusalIsTrue == call.told = "threw" /\ call.status = 400 => atDhan = "refused"

(* The front month asked for still traded one life of the quote cache ago, *)
(* however old the file behind it is: never last month's contract for long *)
(* (index.ts:941-956).                                                     *)
FrontMonthIsRecent ==
  call.kind = "quote" /\ call.quote # NoFuture
    => call.quote.last >= Day(Max({call.hour - QuoteCache, 0}))

(* What the audit log says last of a request that was sent is what its     *)
(* caller was told of the wire; the decoding of a good answer is not its   *)
(* business (index.ts:880-900).                                            *)
AuditMatches ==
  call.at = "done" =>
    CASE call.told = "guard"  -> dhanLog = <<>>
      [] call.told = "result" -> dhanLog = <<TRUE>>
      [] call.told = "threw"  -> dhanLog # <<>> /\ (Last(dhanLog) => call.kind = "chain")
=============================================================================
