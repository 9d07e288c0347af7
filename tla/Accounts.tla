----------------------------- MODULE Accounts -----------------------------
(***************************************************************************)
(* Sign-up, login, email verification and password reset: the /api/auth    *)
(* routes of apps/api/src/server.ts over db/src/auth-repository.ts, the    *)
(* session cookie of auth.ts, the Redis rate limit and the admin's switch. *)
(* One account and its owner's mailbox are followed; the owner has several *)
(* requests in flight, and every await of a handler is a step boundary.    *)
(***************************************************************************)
EXTENDS Naturals, FiniteSets

CONSTANTS
  Tabs,       \* requests the owner may have in flight at once
  Limit,      \* requests a bucket allows in its window: email and ip
  MaxLinks,   \* bound: unused one-time tokens of each kind
  MaxAccountMishaps \* bound: lost mails, failures, restarts, expiries, strangers

ASSUME LimitIsPositive == Limit.email \in Nat \ {0} /\ Limit.ip \in Nat \ {0}

VARIABLES
  acct,       \* the user row: exists, verified, disabled
  live,       \* one-time tokens not used and not expired
  inbox,      \* those of them the mailbox holds
  cookie,     \* the owner's browser holds an unexpired session cookie
  req,        \* each request: where its handler is, and the token it holds
  hits,       \* the Redis counters
  expiring,   \* counters with a time to live
  accountMishaps

acctVars == <<acct, live, inbox, cookie, req, hits, expiring, accountMishaps>>

Links == {"verify", "reset"} \X (1..MaxLinks)
NoLink == <<"none", 0>>
Ready == [pc |-> "idle", link |-> NoLink]
Buckets == {"email", "ip"}

AccountInit ==
  /\ acct = [exists |-> FALSE, verified |-> FALSE, disabled |-> FALSE]
  /\ live = {} /\ inbox = {} /\ cookie = FALSE
  /\ req = [r \in Tabs |-> Ready]
  /\ hits = [b \in Buckets |-> 0] /\ expiring = {} /\ accountMishaps = 0

At(r, pc) == req[r].pc = pc
To(r, pc) == req' = [req EXCEPT ![r] = [pc |-> pc, link |-> NoLink]]
Holding(r, pc, t) == req' = [req EXCEPT ![r] = [pc |-> pc, link |-> t]]
Mishap == accountMishaps < MaxAccountMishaps /\ accountMishaps' = accountMishaps + 1
Calm == UNCHANGED accountMishaps

(* Bound: a request that may lead to a new link leaves room for it.        *)
Leads == [verify |-> {"plan", "mint_verify", "reset"},
          reset |-> {"incr_email", "expire_email", "incr_ip", "expire_ip", "lookup"}]
RoomFor(kind) ==
  LET leading == {r \in Tabs : req[r].pc \in Leads[kind]}
      taken == {n \in 1..MaxLinks : <<kind, n>> \in live \cup {req[r].link : r \in Tabs}}
  IN Cardinality(leading) + Cardinality(taken) < MaxLinks

(* createUser: the row, then the trial plan.  A failure of either is       *)
(* answered as "already exists", and sends no mail.                        *)
Register(r) ==
  /\ At(r, "idle") /\ ~acct.exists /\ RoomFor("verify")
  /\ acct' = [acct EXCEPT !.exists = TRUE] /\ To(r, "plan")
  /\ Calm /\ UNCHANGED <<live, inbox, cookie, hits, expiring>>

TrialPlan(r) ==
  /\ At(r, "plan")
  /\ \/ To(r, "mint_verify") /\ Calm
     \/ To(r, "idle") /\ Mishap
  /\ UNCHANGED <<acct, live, inbox, cookie, hits, expiring>>

(* createOneTimeToken, then the mail.  A send may deliver and still be     *)
(* taken for failed, or never come back: no route acts on the difference.  *)
Mint(r, kind) ==
  /\ \E n \in 1..MaxLinks :
       /\ <<kind, n>> \notin live \cup {req[s].link : s \in Tabs}
       /\ live' = live \cup {<<kind, n>>} /\ Holding(r, "send", <<kind, n>>)
  /\ Calm /\ UNCHANGED <<acct, inbox, cookie, hits, expiring>>

MintVerify(r) == At(r, "mint_verify") /\ Mint(r, "verify")
MintReset(r) == At(r, "lookup") /\ acct.exists /\ ~acct.disabled /\ Mint(r, "reset")
NoAccount(r) ==
  /\ At(r, "lookup") /\ ~(acct.exists /\ ~acct.disabled) /\ To(r, "idle")
  /\ Calm /\ UNCHANGED <<acct, live, inbox, cookie, hits, expiring>>

SendMail(r) ==
  /\ At(r, "send") /\ To(r, "idle")
  /\ \/ inbox' = inbox \cup ({req[r].link} \cap live) /\ Calm
     \/ Mishap /\ UNCHANGED inbox
  /\ UNCHANGED <<acct, live, cookie, hits, expiring>>

(* Login reads the row twice, the second time for the session.             *)
Login(r) ==
  /\ At(r, "idle") /\ acct.exists /\ ~acct.disabled /\ acct.verified
  /\ To(r, "sign_in")
  /\ Calm /\ UNCHANGED <<acct, live, inbox, cookie, hits, expiring>>

SignIn(r) ==
  /\ At(r, "sign_in") /\ To(r, "idle") /\ cookie' = (cookie \/ ~acct.disabled)
  /\ Calm /\ UNCHANGED <<acct, live, inbox, hits, expiring>>

LogoutOrExpiry ==
  /\ cookie /\ cookie' = FALSE
  /\ Calm /\ UNCHANGED <<acct, live, inbox, req, hits, expiring>>

Resend(r) ==
  /\ At(r, "idle") /\ cookie /\ ~acct.disabled /\ RoomFor("verify")
  /\ To(r, IF acct.verified THEN "idle" ELSE "mint_verify")
  /\ Calm /\ UNCHANGED <<acct, live, inbox, cookie, hits, expiring>>

(* A link is followed: the token is looked up, then used by its id, so two *)
(* requests with one link may both find it unused.                         *)
Follow(r, t) ==
  /\ At(r, "idle") /\ t \in inbox /\ t \in live
  /\ t[1] = "reset" => RoomFor("verify")
  /\ Holding(r, t[1], t)
  /\ Calm /\ UNCHANGED <<acct, live, inbox, cookie, hits, expiring>>

Spend(t) == live' = live \ {t} /\ inbox' = inbox \ {t}

VerifyEmail(r) ==
  /\ At(r, "verify") /\ Spend(req[r].link)
  /\ acct' = [acct EXCEPT !.verified = TRUE]
  /\ cookie' = TRUE /\ To(r, "idle")
  /\ Calm /\ UNCHANGED <<hits, expiring>>

(* The password changes; only a verified address gets a session, another   *)
(* gets a new verification link.                                           *)
AfterResetSignedIn == [pc |-> "idle", cookie |-> TRUE]
AfterResetSilent ==
  IF acct.verified THEN [pc |-> "idle", cookie |-> TRUE] ELSE [pc |-> "idle", cookie |-> cookie]
AfterReset ==
  IF acct.verified THEN [pc |-> "idle", cookie |-> TRUE]
  ELSE [pc |-> "mint_verify", cookie |-> cookie]

ResetPassword(r) ==
  /\ At(r, "reset") /\ Spend(req[r].link)
  /\ cookie' = AfterReset.cookie /\ To(r, AfterReset.pc)
  /\ Calm /\ UNCHANGED <<acct, hits, expiring>>

(* forgot-password counts the address, then the caller's IP.  INCR and     *)
(* EXPIRE are two calls; if Redis fails at either, the request goes on.    *)
After(b) == IF b = "email" THEN "incr_ip" ELSE "lookup"
Incr == [email |-> "incr_email", ip |-> "incr_ip"]
Exp == [email |-> "expire_email", ip |-> "expire_ip"]

Forgot(r) ==
  /\ At(r, "idle") /\ RoomFor("reset") /\ To(r, "incr_email")
  /\ Calm /\ UNCHANGED <<acct, live, inbox, cookie, hits, expiring>>

CountHit(r, b) ==
  /\ At(r, Incr[b])
  /\ hits' = [hits EXCEPT ![b] = IF @ > Limit[b] THEN @ ELSE @ + 1]
  /\ To(r, IF hits'[b] = 1 THEN Exp[b]
           ELSE IF hits'[b] > Limit[b] THEN "idle" ELSE After(b))
  /\ Calm /\ UNCHANGED <<acct, live, inbox, cookie, expiring>>

StartWindow(r, b) ==
  /\ At(r, Exp[b]) /\ expiring' = expiring \cup {b} /\ To(r, After(b))
  /\ Calm /\ UNCHANGED <<acct, live, inbox, cookie, hits>>

RedisFails(r, b) ==
  /\ At(r, Incr[b]) \/ At(r, Exp[b])
  /\ To(r, After(b)) /\ Mishap
  /\ UNCHANGED <<acct, live, inbox, cookie, hits, expiring>>

WindowEnds(b) ==
  /\ b \in expiring /\ expiring' = expiring \ {b}
  /\ hits' = [hits EXCEPT ![b] = 0]
  /\ Calm /\ UNCHANGED <<acct, live, inbox, cookie, req>>

(* Others behind the owner's IP use its bucket up.                         *)
Strangers ==
  /\ hits["ip"] <= Limit.ip /\ Mishap
  /\ hits' = [hits EXCEPT !["ip"] = Limit.ip + 1]
  /\ expiring' = IF hits["ip"] = 0 THEN expiring \cup {"ip"} ELSE expiring
  /\ UNCHANGED <<acct, live, inbox, cookie, req>>

(* A token runs out: one the owner could still use, only as a mishap.      *)
Lost(t) == t \in live /\ t \notin inbox \cup {req[r].link : r \in Tabs}
Expire(t) == Spend(t) /\ UNCHANGED <<acct, cookie, req, hits, expiring>>
LostExpires(t) == Lost(t) /\ Expire(t) /\ Calm
ExpiresEarly(t) == t \in live /\ ~Lost(t) /\ Expire(t) /\ Mishap

AdminSetsDisabled ==
  /\ acct.exists /\ \E d \in BOOLEAN : acct' = [acct EXCEPT !.disabled = d]
  /\ Calm /\ UNCHANGED <<live, inbox, cookie, req, hits, expiring>>

ApiRestart ==
  /\ Mishap /\ req' = [r \in Tabs |-> Ready]
  /\ UNCHANGED <<acct, live, inbox, cookie, hits, expiring>>

Handle(r) ==
  \/ TrialPlan(r) \/ MintVerify(r) \/ MintReset(r) \/ NoAccount(r) \/ SendMail(r) \/ SignIn(r)
  \/ VerifyEmail(r) \/ ResetPassword(r)
  \/ \E b \in Buckets : CountHit(r, b) \/ StartWindow(r, b) \/ RedisFails(r, b)

AccountNext ==
  \/ \E r \in Tabs : Handle(r) \/ Register(r) \/ Login(r) \/ Resend(r) \/ Forgot(r)
  \/ \E r \in Tabs, t \in Links : Follow(r, t)
  \/ \E t \in Links : LostExpires(t) \/ ExpiresEarly(t)
  \/ \E b \in Buckets : WindowEnds(b)
  \/ LogoutOrExpiry \/ AdminSetsDisabled \/ Strangers \/ ApiRestart

AccountSpec == AccountInit /\ [][AccountNext]_acctVars

(* Handlers run, windows and tokens that nobody can use run out, and an    *)
(* owner who cannot get in keeps asking for a link and following it.       *)
AccountFair ==
  /\ \A r \in Tabs : WF_acctVars(Handle(r)) /\ SF_acctVars(Forgot(r))
  /\ \A t \in Links : WF_acctVars(LostExpires(t)) /\ SF_acctVars(\E r \in Tabs : Follow(r, t))
  /\ \A b \in Buckets : WF_acctVars(WindowEnds(b))

-----------------------------------------------------------------------------
(* "An account is now inert until the address behind it is proven": no     *)
(* route, the password reset included, hands a session to an account whose *)
(* address was not verified.                                               *)
SessionProven == cookie => acct.verified

(* "Without this they would have no way back in at all": whatever was lost *)
(* of the first mail, an owner who keeps asking gets the address verified, *)
(* unless a counter that lost its expiry shuts the owner out: a failure    *)
(* between its increment and its expiry leaves it standing for ever.       *)
ShutOut == \E b \in Buckets : hits[b] > Limit[b] /\ b \notin expiring
OwnerGetsIn ==
  acct.exists /\ ~acct.disabled ~> acct.verified \/ acct.disabled \/ ShutOut

=============================================================================
