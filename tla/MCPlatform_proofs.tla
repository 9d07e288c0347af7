-------------------------- MODULE MCPlatform_proofs -------------------------
(***************************************************************************)
(* Proofs about the parts of MCPlatform, for any constants, and of the     *)
(* whole: sessions, the market cache's responses, the ticker's quotes, the *)
(* paper tickets, what the simulator shows, the page with its ticket and   *)
(* its order panel, the live panel's summary and the Replay Lab, each      *)
(* under its own invariant, and together under their conjunction.          *)
(***************************************************************************)
EXTENDS MCPlatform, Sums

(* What of a request matters here: that a login past its first read of the *)
(* row has seen a verified address, which nothing takes back.              *)
Pcs == {"idle", "plan", "mint_verify", "send", "sign_in", "verify", "reset",
        "incr_email", "expire_email", "incr_ip", "expire_ip", "lookup"}

AccountTypes ==
  /\ acct \in [exists : BOOLEAN, verified : BOOLEAN, disabled : BOOLEAN]
  /\ cookie \in BOOLEAN
  /\ req \in [Tabs -> [pc : Pcs, link : Links \cup {NoLink}]]

LoginSawProof == \A r \in Tabs : At(r, "sign_in") => acct.verified

SessionInv == AccountTypes /\ SessionProven /\ LoginSawProof

-----------------------------------------------------------------------------
(* A step that moves one request to a state other than sign_in, or leaves  *)
(* the requests alone, and takes neither the proof away nor a session out  *)
(* of nothing, keeps the invariant.                                        *)
LEMMA QuietStep ==
  ASSUME SessionInv,
         acct' \in [exists : BOOLEAN, verified : BOOLEAN, disabled : BOOLEAN],
         acct.verified => acct'.verified,
         cookie' \in BOOLEAN,
         cookie' => cookie \/ acct'.verified,
         NEW r \in Tabs, NEW pc \in Pcs, NEW t \in Links \cup {NoLink},
         pc = "sign_in" => acct.verified,
         req' = [req EXCEPT ![r] = [pc |-> pc, link |-> t]] \/ req' = req
  PROVE  SessionInv'
BY DEF SessionInv, AccountTypes, SessionProven, LoginSawProof, At

LEMMA SessionInit == AccountInit => SessionInv
<1> SUFFICES ASSUME AccountInit PROVE SessionInv
  OBVIOUS
<1>1. Ready \in [pc : Pcs, link : Links \cup {NoLink}] /\ Ready.pc # "sign_in"
  BY DEF Ready, Pcs
<1>2. AccountTypes
  BY <1>1 DEF AccountInit, AccountTypes
<1>3. LoginSawProof
  BY <1>1 DEF AccountInit, LoginSawProof, At
<1>. QED BY <1>2, <1>3 DEF SessionInv, SessionProven, AccountInit

LEMMA SessionStep == SessionInv /\ [AccountNext]_acctVars => SessionInv'
<1> SUFFICES ASSUME SessionInv, [AccountNext]_acctVars PROVE SessionInv'
  OBVIOUS
<1> USE DEF SessionInv
<1>t. AccountTypes
  OBVIOUS
<1>l. NoLink \in Links \cup {NoLink} /\ "idle" \in Pcs /\ "idle" # "sign_in"
  BY DEF Pcs
<1>1. ASSUME NEW r \in Tabs, Handle(r) PROVE SessionInv'
  <2>1. CASE TrialPlan(r)
    <3>1. \/ req' = [req EXCEPT ![r] = [pc |-> "mint_verify", link |-> NoLink]]
          \/ req' = [req EXCEPT ![r] = [pc |-> "idle", link |-> NoLink]]
      BY <2>1 DEF TrialPlan, To
    <3>2. "mint_verify" \in Pcs /\ "mint_verify" # "sign_in"
      BY DEF Pcs
    <3>. QED BY <1>t, <1>l, <2>1, <3>1, <3>2, QuietStep DEF TrialPlan, AccountTypes
  <2>2. CASE MintVerify(r) \/ MintReset(r)
    <3>1. PICK t \in Links : req' = [req EXCEPT ![r] = [pc |-> "send", link |-> t]]
      BY <2>2 DEF MintVerify, MintReset, Mint, Holding, Links
    <3>2. "send" \in Pcs /\ "send" # "sign_in"
      BY DEF Pcs
    <3>3. acct' = acct /\ cookie' = cookie
      BY <2>2 DEF MintVerify, MintReset, Mint
    <3>. QED BY <1>t, <3>1, <3>2, <3>3, QuietStep DEF AccountTypes
  <2>3. CASE NoAccount(r) \/ SendMail(r)
    BY <1>t, <1>l, <2>3, QuietStep, SMTT(30) DEF NoAccount, SendMail, To, AccountTypes
  <2>4. CASE SignIn(r)
    <3>1. acct.verified
      BY <2>4 DEF SignIn, LoginSawProof
    <3>2. cookie' \in BOOLEAN
      BY <1>t, <2>4 DEF SignIn, AccountTypes
    <3>. QED BY <1>t, <1>l, <2>4, <3>1, <3>2, QuietStep DEF SignIn, To, AccountTypes
  <2>5. CASE VerifyEmail(r)
    <3>1. acct' \in [exists : BOOLEAN, verified : BOOLEAN, disabled : BOOLEAN] /\ acct'.verified
      BY <1>t, <2>5 DEF VerifyEmail, AccountTypes
    <3>. QED BY <1>l, <2>5, <3>1, QuietStep DEF VerifyEmail, To
  <2>6. CASE ResetPassword(r)
    <3>1. AfterReset.pc \in Pcs /\ AfterReset.pc # "sign_in"
      BY DEF AfterReset, Pcs
    <3>2. cookie' \in BOOLEAN /\ (cookie' => cookie \/ acct.verified)
      BY <1>t, <2>6 DEF ResetPassword, AfterReset, AccountTypes
    <3>3. req' = [req EXCEPT ![r] = [pc |-> AfterReset.pc, link |-> NoLink]] /\ acct' = acct
      BY <2>6 DEF ResetPassword, To
    <3>. QED BY <1>t, <1>l, <3>1, <3>2, <3>3, QuietStep DEF AccountTypes
  <2>7. ASSUME NEW b \in Buckets, CountHit(r, b) \/ StartWindow(r, b) \/ RedisFails(r, b)
        PROVE  SessionInv'
    <3>1. PICK pc \in {"idle", "expire_email", "expire_ip", "incr_ip", "lookup"} :
            req' = [req EXCEPT ![r] = [pc |-> pc, link |-> NoLink]]
      BY <2>7 DEF CountHit, StartWindow, RedisFails, To, After, Exp, Buckets
    <3>2. pc \in Pcs /\ pc # "sign_in"
      BY DEF Pcs
    <3>3. UNCHANGED <<acct, cookie>>
      BY <2>7 DEF CountHit, StartWindow, RedisFails
    <3>. QED BY <1>t, <1>l, <3>1, <3>2, <3>3, QuietStep DEF AccountTypes
  <2>. QED BY <1>1, <2>1, <2>2, <2>3, <2>4, <2>5, <2>6, <2>7 DEF Handle
<1>2. ASSUME NEW r \in Tabs, Register(r) \/ Login(r) \/ Resend(r) \/ Forgot(r) PROVE SessionInv'
  <2>1. PICK pc \in {"plan", "sign_in", "idle", "mint_verify", "incr_email"} :
          /\ req' = [req EXCEPT ![r] = [pc |-> pc, link |-> NoLink]]
          /\ pc = "sign_in" => acct.verified
    BY <1>2 DEF Register, Login, Resend, Forgot, To
  <2>2. pc \in Pcs
    BY DEF Pcs
  <2>3. /\ acct' \in [exists : BOOLEAN, verified : BOOLEAN, disabled : BOOLEAN]
        /\ acct'.verified = acct.verified /\ cookie' = cookie
    BY <1>2, <1>t DEF Register, Login, Resend, Forgot, AccountTypes
  <2>. QED BY <1>t, <1>l, <2>1, <2>2, <2>3, QuietStep DEF AccountTypes
<1>3. ASSUME NEW r \in Tabs, NEW t \in Links, Follow(r, t) PROVE SessionInv'
  <2>1. t[1] \in Pcs /\ t[1] # "sign_in"
    BY DEF Links, Pcs
  <2>. QED BY <1>t, <1>3, <2>1, QuietStep DEF Follow, Holding, AccountTypes
<1>4. ASSUME NEW t \in Links, LostExpires(t) \/ ExpiresEarly(t) PROVE SessionInv'
  BY <1>4 DEF LostExpires, ExpiresEarly, Expire, AccountTypes, SessionProven, LoginSawProof, At
<1>5. ASSUME NEW b \in Buckets, WindowEnds(b) PROVE SessionInv'
  BY <1>5 DEF WindowEnds, AccountTypes, SessionProven, LoginSawProof, At
<1>6. CASE LogoutOrExpiry
  BY <1>6 DEF LogoutOrExpiry, AccountTypes, SessionProven, LoginSawProof, At
<1>7. CASE AdminSetsDisabled
  <2>1. /\ acct' \in [exists : BOOLEAN, verified : BOOLEAN, disabled : BOOLEAN]
        /\ acct'.verified = acct.verified
    BY <1>7, <1>t DEF AdminSetsDisabled, AccountTypes
  <2>. QED BY <1>7, <2>1 DEF AdminSetsDisabled, AccountTypes, SessionProven, LoginSawProof, At
<1>8. CASE Strangers
  BY <1>8 DEF Strangers, AccountTypes, SessionProven, LoginSawProof, At
<1>9. CASE ApiRestart
  BY <1>9, <1>l DEF ApiRestart, Ready, AccountTypes, SessionProven, LoginSawProof, At
<1>10. CASE UNCHANGED acctVars
  BY <1>10 DEF acctVars, AccountTypes, SessionProven, LoginSawProof, At
<1>. QED BY <1>1, <1>2, <1>3, <1>4, <1>5, <1>6, <1>7, <1>8, <1>9, <1>10 DEF AccountNext

-----------------------------------------------------------------------------
(* "An account is now inert until the address behind it is proven": in     *)
(* every behaviour of the account routes a session means a verified        *)
(* address, however many requests, links, lost mails and restarts.         *)
THEOREM SessionsAreProven == AccountSpec => []SessionProven
<1>1. SessionInv => SessionProven
  BY DEF SessionInv
<1>. QED BY <1>1, SessionInit, SessionStep, PTL DEF AccountSpec

-----------------------------------------------------------------------------
SnapRows == [id : Nat, expiry : Nat, time : Nat]
SaveRows == [pc : {"idle", "fetched", "upserted"}, snap : SnapRows]
LoadRows == [id : Nat \ {0}, wants : Requests, pc : {"read", "live", "done"}, snap : SnapRows, since : Nat]
Entries == [snap : SnapRows, until : Nat, load : Nat]
ReaderPC == {"idle", "waiting", "zones", "served"}
ReaderRows == [pc : ReaderPC, wants : Requests, load : Nat,
               snap : SnapRows, zones : Nat, at : Nat]
ZoneRows == [key : Nat \X Nat, of : Nat, until : Nat]

StoreTyped ==
  /\ now \in Nat /\ saves \in Nat /\ expiryRows \in SUBSET Nat
  /\ snaps \in SUBSET SnapRows /\ saving \in [Writers -> SaveRows]

MarketTyped ==
  /\ StoreTyped /\ started \in Nat
  /\ cache \in [Requests -> Entries] /\ loads \in SUBSET LoadRows
  /\ reader \in [Readers -> ReaderRows] /\ zones \in SUBSET ZoneRows

(* A row carries the time its chain was fetched, and was inserted no later *)
(* than a save may take.                                                   *)
StoreSound ==
  /\ \A s \in snaps : s.time <= now /\ s.id <= saves /\ s.expiry \in expiryRows
  /\ \A w \in Writers : saving[w].pc # "idle" =>
       /\ saving[w].snap.time <= now /\ now <= saving[w].snap.time + SaveTime
       /\ saving[w].snap.id <= saves
       /\ saving[w].pc = "upserted" => saving[w].snap.expiry \in expiryRows

(* snap is as new as every row that was there lag before t.                *)
Lags(wants, snap, lag, t) ==
  wants # {} \/ snap # NoSnap =>
    \A s \in RowsBehind(wants, snap) : s.time + SaveTime + lag < t => snap.time >= s.time

LoadsSound ==
  \A l \in loads :
    /\ l.id <= started /\ l.since <= now /\ now <= l.since + LoadTime
    /\ l.pc # "read" => Lags(l.wants, l.snap, 0, l.since)
    /\ \A r \in Readers : reader[r].load = l.id => reader[r].wants = l.wants
    /\ \A q \in Requests : cache[q].load = l.id => q = l.wants

EntriesSound ==
  \A q \in Requests :
    /\ cache[q].load <= started /\ cache[q].until <= now + CacheTtl
    /\ cache[q].load = 0 => Lags(q, cache[q].snap, LoadTime + CacheTtl, cache[q].until)

ReadersSound ==
  \A r \in Readers :
    /\ reader[r].load <= started /\ reader[r].at <= now
    /\ reader[r].pc \in {"zones", "served"} =>
         Lags(reader[r].wants, reader[r].snap, LoadTime + CacheTtl, reader[r].at)

ZonesTrue == PairedPressure /\ \A z \in zones : z.key[2] = z.of

MarketInv == MarketTyped /\ StoreSound /\ LoadsSound /\ EntriesSound /\ ReadersSound /\ ZonesTrue

-----------------------------------------------------------------------------
(* There is a newest row, and it is the one Newest chooses.                *)
LEMMA NewestIs ==
  ASSUME NEW S \in SUBSET SnapRows, S # {}, NEW t \in Nat, NEW n \in Nat,
         \A s \in S : s.time <= t /\ s.id <= n
  PROVE  Newest(S) \in S /\ \A s \in S : Newest(S).time >= s.time
<1> DEFINE ages == {t - s.time : s \in S}
<1>1. \A s \in S : s.time \in Nat /\ s.id \in Nat
  BY DEF SnapRows
<1>2. ages \subseteq Nat /\ ages # {}
  <2>1. \A s \in S : t - s.time \in Nat
    BY <1>1
  <2> QED
    BY <2>1
<1>3. PICK a \in ages : \A b \in ages : a <= b
  BY <1>2, Least
<1>4. PICK x \in S : a = t - x.time
  OBVIOUS
<1>5. \A s \in S : x.time >= s.time
  <2> SUFFICES ASSUME NEW s \in S PROVE x.time >= s.time
    OBVIOUS
  <2>1. t - x.time <= t - s.time
    BY <1>3, <1>4
  <2> QED
    BY <1>1, <2>1
<1> DEFINE young == {s \in S : s.time = x.time}
           gaps == {n - s.id : s \in young}
<1>6. gaps \subseteq Nat /\ gaps # {}
  <2>1. \A s \in S : n - s.id \in Nat
    BY <1>1
  <2> QED
    BY <2>1
<1>7. PICK g \in gaps : \A h \in gaps : g <= h
  BY <1>6, Least
<1>8. PICK y \in young : g = n - y.id
  OBVIOUS
<1>9. \A s \in young : y.id >= s.id
  BY <1>1, <1>7, <1>8
<1>10. y \in S /\ \A s \in S : y.time > s.time \/ (y.time = s.time /\ y.id >= s.id)
  <2> SUFFICES ASSUME NEW s \in S
               PROVE  y.time > s.time \/ (y.time = s.time /\ y.id >= s.id)
    BY <1>8
  <2>1. y.time = x.time /\ x.time >= s.time /\ y.time \in Nat /\ s.time \in Nat
    BY <1>1, <1>4, <1>5
  <2>2. s.time = x.time => y.id >= s.id
    BY <1>9
  <2> QED
    BY <2>1, <2>2
<1> HIDE DEF ages, young, gaps
<1>11. Newest(S) \in S /\ \A s \in S : \/ Newest(S).time > s.time
                                       \/ Newest(S).time = s.time /\ Newest(S).id >= s.id
  BY <1>10 DEF Newest
<1> QED
  BY <1>1, <1>11

(* A lag is kept by a row that comes late enough, and by an earlier t.     *)
LEMMA LagsKept ==
  ASSUME MarketTyped, NEW wants \in Requests, NEW snap \in SnapRows, NEW lag \in Nat, NEW t \in Nat,
         Lags(wants, snap, lag, t), NEW x \in SnapRows, snaps' \subseteq snaps \cup {x},
         x.time + SaveTime + lag >= t
  PROVE  Lags(wants, snap, lag, t)'
<1> SUFFICES ASSUME wants # {} \/ snap # NoSnap, NEW s \in snaps',
                    s.expiry \in IF wants # {} THEN wants ELSE {snap.expiry},
                    s.time + SaveTime + lag < t
             PROVE  snap.time >= s.time
  BY DEF Lags, RowsBehind
<1>1. s \in snaps
  BY StoreConstants DEF SnapRows, MarketTyped
<1> QED
  BY <1>1 DEF Lags, RowsBehind

LEMMA LagsSooner ==
  ASSUME MarketTyped, NEW wants \in Requests, NEW snap \in SnapRows, NEW lag \in Nat, NEW t \in Nat,
         NEW more \in Nat, NEW u \in Nat, Lags(wants, snap, lag, t), u <= t + more
  PROVE  Lags(wants, snap, lag + more, u)
<1> SUFFICES ASSUME wants # {} \/ snap # NoSnap, NEW s \in RowsBehind(wants, snap),
                    s.time + SaveTime + (lag + more) < u
             PROVE  snap.time >= s.time
  BY DEF Lags
<1>1. s.time + SaveTime + lag < t
  BY StoreConstants DEF RowsBehind, MarketTyped, StoreTyped, SnapRows
<1> QED
  BY <1>1 DEF Lags

(* What a read of the store finds is as new as the store is.               *)
LEMMA ReadIsNewest ==
  ASSUME MarketTyped, StoreSound, NEW wants \in Requests, NEW snap \in SnapRows,
         snap = IF Latest(wants) # {} THEN Newest(Latest(wants)) ELSE NoSnap
  PROVE  Lags(wants, snap, 0, now)
<1> DEFINE C == Candidates(wants)
<1>1. C \subseteq snaps
  BY DEF Candidates
<1>2. C = {} => Latest(wants) = {}
  BY DEF Latest
<1>3. CASE C = {}
  <2>1. snap = NoSnap
    BY <1>2, <1>3
  <2>2. wants # {} => RowsBehind(wants, snap) = {}
    BY <1>3 DEF Candidates, RowsBehind, StoreSound, Requests
  <2> QED
    BY <2>1, <2>2 DEF Lags
<1>4. CASE C # {}
  <2>1. Newest(C) \in C /\ \A s \in C : Newest(C).time >= s.time
    <3> HIDE DEF C
    <3> QED
      BY <1>1, <1>4, NewestIs DEF MarketTyped, StoreTyped, StoreSound
  <2>2. Latest(wants) = {Newest(C)}
    BY <2>1 DEF Latest
  <2>3. Newest(Latest(wants)) = Newest(C)
    <3> HIDE DEF C
    <3>1. Newest({Newest(C)}) \in {Newest(C)}
      BY <1>1, <2>1, NewestIs DEF MarketTyped, StoreTyped, StoreSound
    <3> QED
      BY <2>2, <3>1
  <2>4. snap = Newest(C)
    BY <2>2, <2>3
  <2>5. RowsBehind(wants, snap) \subseteq C
    BY <1>1, <2>1, <2>4 DEF Candidates, RowsBehind, StoreSound, Requests
  <2> QED
    BY <2>1, <2>4, <2>5 DEF Lags
<1> QED
  BY <1>3, <1>4

-----------------------------------------------------------------------------
(* What a save does to the store: at most one row is added, and its chain  *)
(* was fetched no longer ago than a save may take.                         *)
LEMMA StoreMoves ==
  ASSUME MarketInv, NEW w \in Writers, Save(w) \/ \E e \in ExpiryDays : Fetch(w, e)
  PROVE  /\ StoreTyped' /\ StoreSound' /\ now' = now
         /\ \E x \in SnapRows : snaps' \subseteq snaps \cup {x} /\ x.time + SaveTime >= now
<1>1. StoreTyped /\ StoreSound /\ SaveTime \in Nat /\ ExpiryDays \subseteq Nat
  BY StoreConstants DEF MarketInv, MarketTyped
<1>2. /\ NoSave \in SaveRows /\ NoSave.pc = "idle"
      /\ saving[w] \in SaveRows /\ saving[w].snap \in SnapRows
      /\ \A x \in SnapRows : x.id \in Nat /\ x.expiry \in Nat /\ x.time \in Nat
  BY <1>1 DEF StoreTyped, NoSave, SaveRows, SnapRows
<1> DEFINE now0 == [id |-> 0, expiry |-> 0, time |-> now]
<1>3. now0 \in SnapRows /\ now0.time + SaveTime >= now
  BY <1>1 DEF StoreTyped, SnapRows
<1> HIDE DEF now0
<1>4. ASSUME NEW e \in ExpiryDays, Fetch(w, e) PROVE StoreTyped' /\ StoreSound' /\ now' = now /\ snaps' = snaps
  <2> DEFINE row == [id |-> saves', expiry |-> e, time |-> now]
             new == [pc |-> "fetched", snap |-> row]
  <2>1. /\ saves' = saves + 1 /\ saving' = [saving EXCEPT ![w] = new]
        /\ UNCHANGED <<now, expiryRows, snaps>>
    BY <1>4 DEF Fetch, rows
  <2>2. new \in SaveRows /\ new.pc = "fetched" /\ new.snap.time = now /\ new.snap.id = saves + 1
    BY <1>1, <2>1 DEF StoreTyped, SaveRows, SnapRows
  <2> HIDE DEF row, new
  <2>3. StoreTyped'
    BY <1>1, <2>1, <2>2 DEF StoreTyped
  <2>4. \A s \in snaps : s.id \in Nat
    BY <1>1 DEF StoreTyped, SnapRows
  <2>5. \A v \in Writers : saving[v].snap.id \in Nat
    BY <1>1 DEF StoreTyped, SaveRows, SnapRows
  <2>6. StoreSound'
    BY <1>1, <2>1, <2>2, <2>4, <2>5 DEF StoreTyped, StoreSound
  <2> QED
    BY <2>1, <2>3, <2>6
<1>5. CASE UpsertMetadata(w)
  <2>1. /\ saving[w].pc = "fetched" /\ saving' = [saving EXCEPT ![w].pc = "upserted"]
        /\ expiryRows' = expiryRows \cup {saving[w].snap.expiry} /\ UNCHANGED <<now, saves, snaps>>
    BY <1>5 DEF UpsertMetadata
  <2>2. StoreTyped'
    BY <1>1, <1>2, <2>1 DEF StoreTyped, SaveRows
  <2>3. /\ \A v \in Writers : saving'[v].snap = saving[v].snap
        /\ \A v \in Writers : v # w => saving'[v] = saving[v]
    BY <1>1, <2>1 DEF StoreTyped, SaveRows
  <2>4. StoreSound'
    BY <1>1, <2>1, <2>3 DEF StoreSound
  <2> QED
    BY <1>3, <2>1, <2>2, <2>4
<1>6. CASE InsertSnapshot(w)
  <2> DEFINE row == saving[w].snap
  <2>1. /\ saving[w].pc = "upserted" /\ saving' = [saving EXCEPT ![w] = NoSave]
        /\ snaps' = snaps \cup {row} /\ UNCHANGED <<now, saves, expiryRows>>
    BY <1>6 DEF InsertSnapshot
  <2>2. StoreTyped'
    BY <1>1, <1>2, <2>1 DEF StoreTyped
  <2>3. row.time <= now /\ now <= row.time + SaveTime /\ row.id <= saves /\ row.expiry \in expiryRows
    BY <1>1, <2>1 DEF StoreSound
  <2>4. StoreSound'
    BY <1>1, <1>2, <2>1, <2>3 DEF StoreSound, StoreTyped
  <2>5. row.time + SaveTime >= now
    BY <1>1, <1>2, <2>3 DEF StoreTyped
  <2> QED
    BY <1>2, <2>1, <2>2, <2>4, <2>5
<1>7. CASE SaveFails(w)
  <2>1. saving' = [saving EXCEPT ![w] = NoSave] /\ UNCHANGED <<now, saves, expiryRows, snaps>>
    BY <1>7 DEF SaveFails, rows
  <2>2. StoreTyped'
    BY <1>1, <1>2, <2>1 DEF StoreTyped
  <2>3. StoreSound'
    BY <1>1, <1>2, <2>1 DEF StoreSound, StoreTyped
  <2> QED
    BY <1>3, <2>1, <2>2, <2>3
<1> QED
  BY <1>3, <1>4, <1>5, <1>6, <1>7 DEF Save

(* Under it the caches and what was read from them keep their lags.        *)
LEMMA CachesKept ==
  ASSUME MarketInv, now' = now, UNCHANGED <<cache, loads, started, zones, reader>>,
         NEW x \in SnapRows, snaps' \subseteq snaps \cup {x}, x.time + SaveTime >= now
  PROVE  LoadsSound' /\ EntriesSound' /\ ReadersSound' /\ ZonesTrue'
<1>1. /\ MarketTyped /\ now \in Nat /\ {SaveTime, LoadTime, CacheTtl} \subseteq Nat /\ x.time \in Nat
      /\ LoadTime + CacheTtl \in Nat
  BY CacheConstants, StoreConstants DEF MarketInv, MarketTyped, StoreTyped, SnapRows
<1>2. LoadsSound'
  <2> SUFFICES ASSUME NEW l \in loads, l.pc # "read" PROVE Lags(l.wants, l.snap, 0, l.since)'
    BY DEF MarketInv, LoadsSound
  <2>1. /\ l.wants \in Requests /\ l.snap \in SnapRows /\ l.since \in Nat /\ l.since <= now
        /\ Lags(l.wants, l.snap, 0, l.since)
    BY <1>1 DEF MarketInv, MarketTyped, LoadRows, LoadsSound
  <2>2. x.time + SaveTime + 0 >= l.since
    BY <1>1, <2>1
  <2> QED
    BY <1>1, <2>1, <2>2, LagsKept
<1>3. EntriesSound'
  <2> SUFFICES ASSUME NEW q \in Requests, cache[q].load = 0
               PROVE  Lags(q, cache[q].snap, LoadTime + CacheTtl, cache[q].until)'
    BY DEF MarketInv, EntriesSound
  <2> DEFINE u == cache[q].until
  <2>1. /\ cache[q].snap \in SnapRows /\ u \in Nat /\ u <= now + CacheTtl
        /\ Lags(q, cache[q].snap, LoadTime + CacheTtl, u)
    BY <1>1 DEF MarketInv, MarketTyped, Entries, EntriesSound
  <2>2. x.time + SaveTime + (LoadTime + CacheTtl) >= u
    <3> HIDE DEF u
    <3> QED
      BY <1>1, <2>1
  <2>3. Lags(q, cache[q].snap, LoadTime + CacheTtl, u)'
    BY <1>1, <2>1, <2>2, LagsKept
  <2> QED
    BY <2>3
<1>4. ReadersSound'
  <2> SUFFICES ASSUME NEW r \in Readers, reader[r].pc \in {"zones", "served"}
               PROVE  Lags(reader[r].wants, reader[r].snap, LoadTime + CacheTtl, reader[r].at)'
    BY DEF MarketInv, ReadersSound
  <2> DEFINE t == reader[r].at
  <2>1. /\ reader[r].wants \in Requests /\ reader[r].snap \in SnapRows /\ t \in Nat /\ t <= now
        /\ Lags(reader[r].wants, reader[r].snap, LoadTime + CacheTtl, t)
    BY <1>1 DEF MarketInv, MarketTyped, ReaderRows, ReadersSound
  <2>2. x.time + SaveTime + (LoadTime + CacheTtl) >= t
    <3> HIDE DEF t
    <3> QED
      BY <1>1, <2>1
  <2>3. Lags(reader[r].wants, reader[r].snap, LoadTime + CacheTtl, t)'
    BY <1>1, <2>1, <2>2, LagsKept
  <2> QED
    BY <2>3
<1> QED
  BY <1>2, <1>3, <1>4 DEF MarketInv, ZonesTrue, PairedPressure

(* Under any other step the store stays, and so does a lag.                *)
LEMMA LagsStay ==
  ASSUME UNCHANGED snaps, NEW wants, NEW snap, NEW lag, NEW t
  PROVE  Lags(wants, snap, lag, t)' = Lags(wants, snap, lag, t)
BY DEF Lags, RowsBehind

LEMMA EmptyEntry ==
  /\ NoEntry \in Entries /\ NoSnap \in SnapRows /\ NoReader \in ReaderRows
  /\ NoEntry.load = 0 /\ NoEntry.until = 0 /\ NoReader.load = 0 /\ NoReader.at = 0
  /\ NoReader.pc = "idle"
  /\ \A q \in Requests, lag \in Nat : MarketTyped => Lags(q, NoEntry.snap, lag, 0)
<1>1. /\ NoEntry \in Entries /\ NoSnap \in SnapRows /\ NoReader \in ReaderRows
      /\ NoEntry.load = 0 /\ NoEntry.until = 0 /\ NoReader.load = 0 /\ NoReader.at = 0
      /\ NoReader.pc = "idle"
  BY DEF NoEntry, NoSnap, NoReader, Entries, SnapRows, ReaderRows, ReaderPC, Requests
<1>2. ASSUME NEW q \in Requests, NEW lag \in Nat, MarketTyped PROVE Lags(q, NoEntry.snap, lag, 0)
  BY <1>2, StoreConstants DEF Lags, RowsBehind, MarketTyped, StoreTyped, SnapRows
<1> QED
  BY <1>1, <1>2

LEMMA TickKeeps == MarketInv /\ CacheTick => MarketInv'
<1> SUFFICES ASSUME MarketInv, CacheTick PROVE MarketInv'
  OBVIOUS
<1>1. /\ now' = now + 1 /\ UNCHANGED <<saves, rows, saving>> /\ UNCHANGED cacheOnly
      /\ \A w \in Writers : saving[w].pc # "idle" => now < saving[w].snap.time + SaveTime
      /\ \A l \in loads : now < l.since + LoadTime
  BY DEF CacheTick, Tick
<1>2. UNCHANGED <<saves, snaps, expiryRows, saving, cache, loads, started, zones, reader>>
  BY <1>1 DEF rows, cacheOnly
<1>3. /\ MarketTyped /\ StoreTyped /\ now \in Nat
      /\ {SaveTime, LoadTime, CacheTtl} \subseteq Nat
      /\ \A s \in snaps : s.time \in Nat
      /\ \A w \in Writers : saving[w].snap.time \in Nat
      /\ \A l \in loads : l.since \in Nat
      /\ \A q \in Requests : cache[q].until \in Nat
      /\ \A r \in Readers : reader[r].at \in Nat
  BY CacheConstants, StoreConstants
     DEF MarketInv, MarketTyped, StoreTyped, SnapRows, SaveRows, LoadRows, Entries, ReaderRows
<1>4. MarketTyped'
  BY <1>1, <1>2, <1>3 DEF MarketTyped, StoreTyped
<1>5. StoreSound'
  BY <1>1, <1>2, <1>3 DEF MarketInv, StoreSound
<1>6. LoadsSound'
  BY <1>1, <1>2, <1>3, LagsStay DEF MarketInv, LoadsSound
<1>7. EntriesSound'
  <2> SUFFICES ASSUME NEW q \in Requests
               PROVE  /\ cache[q].load <= started /\ cache[q].until <= now + 1 + CacheTtl
                      /\ cache[q].load = 0 => Lags(q, cache[q].snap, LoadTime + CacheTtl, cache[q].until)
    BY <1>1, <1>2, LagsStay DEF EntriesSound
  <2>1. /\ cache[q].load <= started /\ cache[q].until <= now + CacheTtl
        /\ cache[q].load = 0 => Lags(q, cache[q].snap, LoadTime + CacheTtl, cache[q].until)
    BY DEF MarketInv, EntriesSound
  <2>2. cache[q].until <= now + 1 + CacheTtl
    BY <1>3, <2>1
  <2> QED
    BY <2>1, <2>2
<1>8. ReadersSound'
  BY <1>1, <1>2, <1>3, LagsStay DEF MarketInv, ReadersSound
<1>9. ZonesTrue'
  BY <1>2 DEF MarketInv, ZonesTrue, PairedPressure
<1> QED
  BY <1>4, <1>5, <1>6, <1>7, <1>8, <1>9 DEF MarketInv

(* The store is left alone: what remains to be shown of the others.        *)
LEMMA OnlyCaches ==
  ASSUME MarketInv, UNCHANGED storeVars
  PROVE  StoreTyped' /\ StoreSound' /\ now' = now /\ snaps' = snaps
BY DEF MarketInv, MarketTyped, storeVars, rows, StoreTyped, StoreSound

LEMMA MessageKeeps == ASSUME MarketInv, NEW e \in bus, SnapshotSaved(e) \/ MessageLost(e) PROVE MarketInv'
<1>1. /\ UNCHANGED <<storeVars, loads, started, zones, reader>>
      /\ \A q \in Requests : cache'[q] = cache[q] \/ cache'[q] = NoEntry
      /\ cache' \in [Requests -> Entries]
  BY EmptyEntry DEF SnapshotSaved, MessageLost, MarketInv, MarketTyped
<1>2. StoreTyped' /\ StoreSound' /\ now' = now /\ snaps' = snaps /\ MarketTyped
  BY <1>1, OnlyCaches DEF MarketInv
<1>3. MarketTyped'
  BY <1>1, <1>2 DEF MarketTyped
<1>4. LoadsSound'
  <2> SUFFICES ASSUME NEW l \in loads
               PROVE  /\ l.id <= started /\ l.since <= now /\ now <= l.since + LoadTime
                      /\ l.pc # "read" => Lags(l.wants, l.snap, 0, l.since)
                      /\ \A r \in Readers : reader[r].load = l.id => reader[r].wants = l.wants
                      /\ \A q \in Requests : cache'[q].load = l.id => q = l.wants
    BY <1>1, <1>2, LagsStay DEF LoadsSound
  <2>1. l.id # 0
    BY DEF MarketInv, MarketTyped, LoadRows
  <2> QED
    BY <1>1, <2>1, EmptyEntry DEF MarketInv, LoadsSound
<1>5. EntriesSound'
  <2> SUFFICES ASSUME NEW q \in Requests
               PROVE  /\ cache'[q].load <= started /\ cache'[q].until <= now + CacheTtl
                      /\ cache'[q].load = 0 => Lags(q, cache'[q].snap, LoadTime + CacheTtl, cache'[q].until)
    BY <1>1, <1>2, LagsStay DEF EntriesSound
  <2>1. started \in Nat /\ now + CacheTtl \in Nat /\ LoadTime + CacheTtl \in Nat
    BY <1>2, CacheConstants DEF MarketTyped, StoreTyped
  <2> QED
    BY <1>1, <1>2, <2>1, EmptyEntry DEF MarketInv, EntriesSound
<1>6. ReadersSound'
  BY <1>1, <1>2, LagsStay DEF MarketInv, ReadersSound
<1>7. ZonesTrue'
  BY <1>1 DEF MarketInv, ZonesTrue, PairedPressure
<1> QED
  BY <1>2, <1>3, <1>4, <1>5, <1>6, <1>7 DEF MarketInv

(* A load goes on with what it found.                                      *)
LEMMA AdvanceKeeps ==
  ASSUME MarketInv, NEW l \in loads, NEW pc \in {"live", "done"}, NEW snap \in SnapRows,
         Advance(l, pc, snap), UNCHANGED <<cache, started, zones, reader>>,
         StoreTyped', StoreSound', now' = now, snaps' = snaps, Lags(l.wants, snap, 0, l.since)
  PROVE  MarketInv'
<1> DEFINE m == [l EXCEPT !.pc = pc, !.snap = snap]
<1>1. loads' = (loads \ {l}) \cup {m}
  BY DEF Advance
<1>2. l \in LoadRows /\ MarketTyped
  BY DEF MarketInv, MarketTyped
<1>3. /\ m \in LoadRows /\ m.id = l.id /\ m.wants = l.wants /\ m.since = l.since
      /\ m.snap = snap
  BY <1>2 DEF LoadRows
<1> HIDE DEF m
<1>4. MarketTyped'
  BY <1>1, <1>2, <1>3 DEF MarketTyped
<1>5. LoadsSound'
  <2> SUFFICES ASSUME NEW k \in loads'
               PROVE  /\ k.id <= started /\ k.since <= now /\ now <= k.since + LoadTime
                      /\ k.pc # "read" => Lags(k.wants, k.snap, 0, k.since)
                      /\ \A r \in Readers : reader[r].load = k.id => reader[r].wants = k.wants
                      /\ \A q \in Requests : cache[q].load = k.id => q = k.wants
    BY LagsStay DEF LoadsSound
  <2>1. CASE k \in loads
    BY <2>1 DEF MarketInv, LoadsSound
  <2>2. CASE k = m
    BY <1>3, <2>2 DEF MarketInv, LoadsSound
  <2> QED
    BY <1>1, <2>1, <2>2
<1>6. EntriesSound' /\ ReadersSound' /\ ZonesTrue'
  BY LagsStay DEF MarketInv, EntriesSound, ReadersSound, ZonesTrue, PairedPressure
<1> QED
  BY <1>4, <1>5, <1>6 DEF MarketInv

LEMMA LoadReadKeeps == ASSUME MarketInv, NEW l \in loads, LoadRead(l) PROVE MarketInv'
<1> DEFINE snap == IF Stored(l) # {} THEN Newest(Stored(l)) ELSE NoSnap
<1>1. l \in LoadRows /\ l.wants \in Requests /\ l.since \in Nat /\ l.since <= now /\ MarketTyped
      /\ StoreSound /\ now \in Nat
  BY DEF MarketInv, MarketTyped, StoreTyped, LoadRows, LoadsSound
<1>2. PICK pc \in {"live", "done"} : Advance(l, pc, snap)
  BY DEF LoadRead
<1>3. UNCHANGED <<storeVars, cache, started, zones, reader>>
  BY DEF LoadRead
<1>4. snap \in SnapRows
  <2>1. CASE Stored(l) = {}
    BY <2>1, EmptyEntry
  <2>2. CASE Stored(l) # {}
    <3>1. Stored(l) \subseteq snaps
      BY DEF Stored, Latest, Candidates
    <3>2. Newest(Stored(l)) \in Stored(l)
      BY <1>1, <2>2, <3>1, NewestIs DEF MarketTyped, StoreTyped, StoreSound
    <3> QED
      BY <1>1, <2>2, <3>1, <3>2 DEF MarketTyped, StoreTyped
  <2> QED
    BY <2>1, <2>2
<1>5. Lags(l.wants, snap, 0, now)
  BY <1>1, <1>4, ReadIsNewest DEF Stored
<1> HIDE DEF snap
<1>6. 0 \in Nat /\ l.since <= now + 0
  BY <1>1
<1>7. Lags(l.wants, snap, 0, l.since)
  <2>1. Lags(l.wants, snap, 0 + 0, l.since)
    BY <1>1, <1>4, <1>5, <1>6, LagsSooner
  <2> QED
    BY <2>1
<1>8. StoreTyped' /\ StoreSound' /\ now' = now /\ snaps' = snaps
  BY <1>3, OnlyCaches
<1> QED
  BY <1>2, <1>3, <1>4, <1>7, <1>8, AdvanceKeeps

LEMMA LoadFailsKeeps == ASSUME MarketInv, NEW l \in loads, LoadLiveFails(l) PROVE MarketInv'
<1>1. l.snap \in SnapRows /\ l.pc = "live"
  BY DEF MarketInv, MarketTyped, LoadRows, LoadLiveFails
<1>2. /\ Advance(l, "done", l.snap) /\ UNCHANGED <<storeVars, cache, started, zones, reader>>
      /\ Lags(l.wants, l.snap, 0, l.since)
  BY <1>1 DEF LoadLiveFails, MarketInv, LoadsSound
<1>3. StoreTyped' /\ StoreSound' /\ now' = now /\ snaps' = snaps
  BY <1>2, OnlyCaches
<1> QED
  BY <1>1, <1>2, <1>3, AdvanceKeeps

(* What Dhan is asked for now is as new as anything stored.                *)
LEMMA LoadLiveKeeps ==
  ASSUME MarketInv, NEW l \in loads, NEW e \in ExpiryDays, LoadLive(l, e) PROVE MarketInv'
<1> DEFINE row == [id |-> saves', expiry |-> e, time |-> now]
<1>1. "api" \in Writers /\ Fetch("api", e)
  BY CacheConstants DEF LoadLive
<1>2. StoreTyped' /\ StoreSound' /\ now' = now
  BY <1>1, StoreMoves
<1>3. snaps' = snaps /\ saves' = saves + 1
      /\ saving' = [saving EXCEPT !["api"] = [pc |-> "fetched", snap |-> row]]
  BY <1>1 DEF Fetch, rows
<1>4. saving'["api"].snap = row
  BY <1>1, <1>3 DEF MarketInv, MarketTyped, StoreTyped
<1>5. row \in SnapRows /\ row.time = now
  BY <1>3, StoreConstants DEF SnapRows, MarketInv, MarketTyped, StoreTyped
<1>6. Advance(l, "done", row) /\ UNCHANGED <<cache, started, zones, reader>>
  BY <1>4 DEF LoadLive
<1> HIDE DEF row
<1>7. Lags(l.wants, row, 0, l.since)
  BY <1>5 DEF Lags, RowsBehind, MarketInv, StoreSound
<1> QED
  BY <1>2, <1>3, <1>5, <1>6, <1>7, AdvanceKeeps

(* A request that is served keeps its kind.                                *)
LEMMA ServeTyped ==
  ASSUME NEW f \in ReaderRows, NEW snap \in SnapRows, NEW t \in Nat
  PROVE  [f EXCEPT !.pc = "zones", !.snap = snap, !.load = 0, !.at = t] \in ReaderRows
<1>1. \A pc \in ReaderPC, id \in Nat :
        [f EXCEPT !.pc = pc, !.snap = snap, !.load = id, !.at = t] \in ReaderRows
  BY DEF ReaderRows
<1>2. "zones" \in ReaderPC /\ 0 \in Nat
  BY DEF ReaderPC
<1> QED
  BY <1>1, <1>2

LEMMA LoadDoneKeeps == ASSUME MarketInv, NEW l \in loads, LoadDone(l) PROVE MarketInv'
<1> DEFINE entry == [snap |-> l.snap, until |-> now + CacheTtl, load |-> 0]
<1>1. /\ l.pc = "done" /\ loads' = loads \ {l} /\ cache' = [cache EXCEPT ![l.wants] = entry]
      /\ reader' = [r \in Readers |-> IF reader[r].load = l.id THEN Serve(r, l.snap) ELSE reader[r]]
      /\ UNCHANGED <<storeVars, started, zones, bus>>
  BY DEF LoadDone
<1>2. /\ MarketTyped /\ now \in Nat /\ started \in Nat /\ {LoadTime, CacheTtl} \subseteq Nat
      /\ l \in LoadRows /\ l.wants \in Requests /\ l.snap \in SnapRows /\ l.since \in Nat
      /\ l.since <= now /\ now <= l.since + LoadTime /\ l.id # 0
      /\ Lags(l.wants, l.snap, 0, l.since)
  BY <1>1, CacheConstants DEF MarketInv, MarketTyped, StoreTyped, LoadRows, LoadsSound
<1>3. StoreTyped' /\ StoreSound' /\ now' = now /\ snaps' = snaps
  BY <1>1, OnlyCaches
<1>4. /\ entry \in Entries /\ entry.load = 0 /\ entry.until = now + CacheTtl /\ entry.snap = l.snap
  BY <1>2 DEF Entries
<1> HIDE DEF entry
<1>5. /\ Lags(l.wants, l.snap, 0 + (LoadTime + CacheTtl), now + CacheTtl)
      /\ Lags(l.wants, l.snap, 0 + (LoadTime + CacheTtl), now)
  <2>1. /\ now + CacheTtl <= l.since + (LoadTime + CacheTtl) /\ now <= l.since + (LoadTime + CacheTtl)
        /\ now + CacheTtl \in Nat /\ LoadTime + CacheTtl \in Nat
    BY <1>2
  <2> QED
    BY <1>2, <2>1, LagsSooner
<1>6. /\ Lags(l.wants, l.snap, LoadTime + CacheTtl, now + CacheTtl)
      /\ Lags(l.wants, l.snap, LoadTime + CacheTtl, now)
  BY <1>2, <1>5
<1>7. ASSUME NEW r \in Readers
      PROVE  \/ reader'[r] = reader[r]
             \/ /\ reader[r].load = l.id /\ reader'[r] \in ReaderRows /\ reader'[r].pc = "zones"
                /\ reader'[r].wants = l.wants /\ reader'[r].load = 0 /\ reader'[r].snap = l.snap
                /\ reader'[r].at = now
  <2>1. reader[r] \in ReaderRows
    BY <1>2 DEF MarketTyped
  <2>2. CASE reader[r].load = l.id
    <3>1. reader'[r] = [reader[r] EXCEPT !.pc = "zones", !.snap = l.snap, !.load = 0, !.at = now]
      BY <1>1, <2>2 DEF Serve
    <3>2. reader[r].wants = l.wants
      BY <2>2 DEF MarketInv, LoadsSound
    <3>3. "zones" \in ReaderPC /\ 0 \in Nat
      BY DEF ReaderPC
    <3>4. l.snap \in SnapRows /\ now \in Nat
      BY <1>2
    <3>5. reader'[r] \in ReaderRows
      <4> DEFINE f == reader[r]
                 snap == l.snap
      <4>1. f \in ReaderRows /\ snap \in SnapRows /\ now \in Nat
        BY <2>1, <3>4
      <4> HIDE DEF f, snap
      <4>2. [f EXCEPT !.pc = "zones", !.snap = snap, !.load = 0, !.at = now] \in ReaderRows
        BY <4>1, ServeTyped
      <4> QED
        BY <3>1, <4>2 DEF f, snap
    <3>6. /\ reader'[r].pc = "zones" /\ reader'[r].load = 0
          /\ reader'[r].snap = l.snap /\ reader'[r].at = now /\ reader'[r].wants = reader[r].wants
      BY <2>1, <3>1 DEF ReaderRows
    <3> QED
      BY <2>2, <3>2, <3>5, <3>6
  <2> QED
    BY <1>1, <2>2
<1>8. MarketTyped'
  <2>1. reader' \in [Readers -> ReaderRows]
    BY <1>1, <1>2, <1>7 DEF MarketTyped
  <2>2. cache' \in [Requests -> Entries]
    BY <1>1, <1>2, <1>4 DEF MarketTyped
  <2> QED
    BY <1>1, <1>2, <1>3, <2>1, <2>2 DEF MarketTyped
<1>9. \A q \in Requests : cache'[q] = IF q = l.wants THEN entry ELSE cache[q]
  BY <1>1, <1>2 DEF MarketTyped
<1>10. LoadsSound'
  <2> SUFFICES ASSUME NEW k \in loads, k # l
               PROVE  /\ k.id <= started /\ k.since <= now /\ now <= k.since + LoadTime
                      /\ k.pc # "read" => Lags(k.wants, k.snap, 0, k.since)
                      /\ \A r \in Readers : reader'[r].load = k.id => reader'[r].wants = k.wants
                      /\ \A q \in Requests : cache'[q].load = k.id => q = k.wants
    BY <1>1, <1>3, LagsStay DEF LoadsSound
  <2>1. k.id # 0
    BY <1>2 DEF MarketTyped, LoadRows
  <2>2. \A r \in Readers : reader'[r].load = k.id => reader'[r].wants = k.wants
    BY <1>7, <2>1 DEF MarketInv, LoadsSound
  <2>3. \A q \in Requests : cache'[q].load = k.id => q = k.wants
    BY <1>4, <1>9, <2>1 DEF MarketInv, LoadsSound
  <2> QED
    BY <2>2, <2>3 DEF MarketInv, LoadsSound
<1>11. EntriesSound'
  <2> SUFFICES ASSUME NEW q \in Requests
               PROVE  /\ cache'[q].load <= started /\ cache'[q].until <= now + CacheTtl
                      /\ cache'[q].load = 0 => Lags(q, cache'[q].snap, LoadTime + CacheTtl, cache'[q].until)
    BY <1>1, <1>3, LagsStay DEF EntriesSound
  <2>1. CASE q = l.wants
    BY <1>2, <1>4, <1>6, <1>9, <2>1
  <2>2. CASE q # l.wants
    BY <1>9, <2>2 DEF MarketInv, EntriesSound
  <2> QED
    BY <2>1, <2>2
<1>12. ReadersSound'
  <2> SUFFICES ASSUME NEW r \in Readers
               PROVE  /\ reader'[r].load <= started /\ reader'[r].at <= now
                      /\ reader'[r].pc \in {"zones", "served"} =>
                           Lags(reader'[r].wants, reader'[r].snap, LoadTime + CacheTtl, reader'[r].at)
    BY <1>1, <1>3, LagsStay DEF ReadersSound
  <2> QED
    BY <1>2, <1>6, <1>7 DEF MarketInv, ReadersSound
<1>13. ZonesTrue'
  BY <1>1, <1>7 DEF MarketInv, ZonesTrue, PairedPressure
<1> QED
  BY <1>3, <1>8, <1>10, <1>11, <1>12, <1>13 DEF MarketInv

LEMMA RespondKeeps == ASSUME MarketInv, NEW r \in Readers, Respond(r) PROVE MarketInv'
<1> DEFINE key == ZoneKey(reader[r].snap)
           hit == {z \in zones : z.key = key /\ z.until > now}
           entry == [key |-> key, of |-> reader[r].snap.id, until |-> now + CacheTtl]
           found == IF hit # {} THEN (CHOOSE z \in hit : TRUE).of ELSE entry.of
<1>1. /\ reader[r].pc = "zones"
      /\ zones' = IF hit # {} THEN zones ELSE {z \in zones : z.until > now} \cup {entry}
      /\ reader' = [reader EXCEPT ![r].pc = "served", ![r].zones = found]
      /\ UNCHANGED <<storeVars, cache, loads, started, bus>>
  BY DEF Respond
<1>2. /\ MarketTyped /\ reader[r] \in ReaderRows /\ reader[r].snap \in SnapRows /\ now + CacheTtl \in Nat
      /\ reader[r].snap.id \in Nat /\ reader[r].snap.expiry \in Nat
  BY CacheConstants DEF MarketInv, MarketTyped, StoreTyped, ReaderRows, SnapRows
<1>3. key \in Nat \X Nat /\ key[2] = reader[r].snap.id
  BY <1>2 DEF ZoneKey
<1>4. found = reader[r].snap.id
  <2>1. ASSUME hit # {} PROVE (CHOOSE z \in hit : TRUE).of = reader[r].snap.id
    <3>1. (CHOOSE z \in hit : TRUE) \in hit
      BY <2>1
    <3> QED
      BY <1>3, <3>1 DEF MarketInv, ZonesTrue
  <2> QED
    BY <2>1
<1>5. entry \in ZoneRows /\ entry.key[2] = entry.of
  BY <1>2, <1>3 DEF ZoneRows
<1> HIDE DEF key, entry, found
<1>6. zones' \in SUBSET ZoneRows /\ \A z \in zones' : z.key[2] = z.of
  BY <1>1, <1>2, <1>5 DEF MarketTyped, MarketInv, ZonesTrue
<1>7. /\ reader' \in [Readers -> ReaderRows]
      /\ reader'[r].pc = "served" /\ reader'[r].zones = found /\ reader'[r].snap = reader[r].snap
      /\ reader'[r].wants = reader[r].wants /\ reader'[r].load = reader[r].load
      /\ reader'[r].at = reader[r].at
      /\ \A q \in Readers : q # r => reader'[q] = reader[q]
  <2>1. "served" \in ReaderPC /\ found \in Nat
    BY <1>2, <1>4 DEF ReaderPC
  <2> QED
    BY <1>1, <1>2, <2>1 DEF MarketTyped, ReaderRows
<1>8. \A q \in Readers : /\ reader'[q].wants = reader[q].wants /\ reader'[q].load = reader[q].load
                         /\ reader'[q].snap = reader[q].snap /\ reader'[q].at = reader[q].at
                         /\ reader'[q].pc \in {"zones", "served"} => reader[q].pc \in {"zones", "served"}
                         /\ reader'[q].pc = "served" => reader'[q].zones = reader'[q].snap.id
  BY <1>1, <1>4, <1>7 DEF MarketInv, ZonesTrue, PairedPressure
<1>9. StoreTyped' /\ StoreSound' /\ now' = now /\ snaps' = snaps
  BY <1>1, OnlyCaches
<1>10. MarketTyped'
  BY <1>1, <1>2, <1>6, <1>7, <1>9 DEF MarketTyped
<1>15. UNCHANGED <<cache, loads, started>>
  BY <1>1
<1>11. LoadsSound'
  <2> SUFFICES ASSUME NEW l \in loads
               PROVE  /\ l.id <= started /\ l.since <= now /\ now <= l.since + LoadTime
                      /\ l.pc # "read" => Lags(l.wants, l.snap, 0, l.since)
                      /\ \A p \in Readers : reader'[p].load = l.id => reader'[p].wants = l.wants
                      /\ \A q \in Requests : cache[q].load = l.id => q = l.wants
    BY <1>15, <1>9, LagsStay DEF LoadsSound
  <2> QED
    BY <1>8 DEF MarketInv, LoadsSound
<1>12. EntriesSound'
  BY <1>1, <1>9, LagsStay DEF MarketInv, EntriesSound
<1>14. ReadersSound'
  <2> SUFFICES ASSUME NEW p \in Readers
               PROVE  /\ reader'[p].load <= started /\ reader'[p].at <= now
                      /\ reader'[p].pc \in {"zones", "served"} =>
                           Lags(reader'[p].wants, reader'[p].snap, LoadTime + CacheTtl, reader'[p].at)
    BY <1>15, <1>9, LagsStay DEF ReadersSound
  <2>1. /\ reader[p].load <= started /\ reader[p].at <= now
        /\ reader[p].pc \in {"zones", "served"} =>
             Lags(reader[p].wants, reader[p].snap, LoadTime + CacheTtl, reader[p].at)
    BY DEF MarketInv, ReadersSound
  <2> QED
    BY <1>8, <2>1
<1>13. ZonesTrue'
  BY <1>6, <1>8 DEF ZonesTrue, PairedPressure
<1> QED
  BY <1>9, <1>10, <1>11, <1>12, <1>13, <1>14 DEF MarketInv

(* A request leaves the cache as it is, or starts a load for an entry that *)
(* is neither live nor being loaded.                                       *)
LEMMA RequestKeeps ==
  ASSUME MarketInv, NEW r \in Readers, NEW q \in Requests, Request(r, q) PROVE MarketInv'
<1>1. UNCHANGED <<storeVars, zones, bus>> /\ MarketTyped
  BY DEF Request, MarketInv
<1>2. StoreTyped' /\ StoreSound' /\ now' = now /\ snaps' = snaps
  BY <1>1, OnlyCaches
<1>3. /\ now \in Nat /\ started \in Nat /\ {LoadTime, CacheTtl} \subseteq Nat
      /\ cache[q] \in Entries /\ cache[q].snap \in SnapRows /\ cache[q].load \in Nat
      /\ cache[q].until \in Nat /\ now + CacheTtl \in Nat
  BY <1>1, CacheConstants DEF MarketTyped, StoreTyped, Entries
<1>4. CASE Hit(q) /\ UNCHANGED <<cache, loads, started>>
                  /\ reader' = [reader EXCEPT ![r] = [NoReader EXCEPT !.pc = "zones", !.wants = q,
                                                        !.snap = cache[q].snap, !.at = now]]
  <2> DEFINE new == [NoReader EXCEPT !.pc = "zones", !.wants = q, !.snap = cache[q].snap, !.at = now]
  <2>1. /\ new \in ReaderRows /\ new.pc = "zones" /\ new.wants = q /\ new.snap = cache[q].snap
        /\ new.at = now /\ new.load = 0
    BY <1>3 DEF NoReader, ReaderRows, ReaderPC
  <2>2. reader' = [reader EXCEPT ![r] = new]
    BY <1>4
  <2> HIDE DEF new
  <2>3. /\ reader' \in [Readers -> ReaderRows] /\ reader'[r] = new
        /\ \A p \in Readers : p # r => reader'[p] = reader[p]
    BY <1>1, <2>1, <2>2 DEF MarketTyped
  <2>4. Lags(q, cache[q].snap, LoadTime + CacheTtl, now)
    <3>1. cache[q].load = 0 /\ cache[q].until > now
      BY <1>4 DEF Hit
    <3>2. Lags(q, cache[q].snap, LoadTime + CacheTtl, cache[q].until)
      BY <3>1 DEF MarketInv, EntriesSound
    <3>3. \A s \in snaps : s.time \in Nat
      BY <1>1 DEF MarketTyped, StoreTyped, SnapRows
    <3> QED
      BY <1>3, <3>1, <3>2, <3>3, StoreConstants DEF Lags, RowsBehind
  <2>5. MarketTyped'
    BY <1>1, <1>2, <1>4, <2>3 DEF MarketTyped
  <2>6. LoadsSound'
    <3>1. \A l \in loads : l.id # 0
      BY <1>1 DEF MarketTyped, LoadRows
    <3> SUFFICES ASSUME NEW l \in loads
                 PROVE  /\ l.id <= started /\ l.since <= now /\ now <= l.since + LoadTime
                        /\ l.pc # "read" => Lags(l.wants, l.snap, 0, l.since)
                        /\ \A p \in Readers : reader'[p].load = l.id => reader'[p].wants = l.wants
                        /\ \A p \in Requests : cache[p].load = l.id => p = l.wants
      BY <1>2, <1>4, LagsStay DEF LoadsSound
    <3>2. \A p \in Readers : reader'[p].load = l.id => reader'[p].wants = l.wants
      BY <2>1, <2>3, <3>1 DEF MarketInv, LoadsSound
    <3> QED
      BY <3>2 DEF MarketInv, LoadsSound
  <2>7. EntriesSound'
    BY <1>2, <1>4, LagsStay DEF MarketInv, EntriesSound
  <2>8. ReadersSound'
    <3> SUFFICES ASSUME NEW p \in Readers
                 PROVE  /\ reader'[p].load <= started /\ reader'[p].at <= now
                        /\ reader'[p].pc \in {"zones", "served"} =>
                             Lags(reader'[p].wants, reader'[p].snap, LoadTime + CacheTtl, reader'[p].at)
      BY <1>2, <1>4, LagsStay DEF ReadersSound
    <3>1. CASE p = r
      BY <1>3, <2>1, <2>3, <2>4, <3>1
    <3>2. CASE p # r
      BY <2>3, <3>2 DEF MarketInv, ReadersSound
    <3> QED
      BY <3>1, <3>2
  <2>9. ZonesTrue'
    BY <1>1, <2>1, <2>3 DEF MarketInv, ZonesTrue, PairedPressure
  <2> QED
    BY <1>2, <2>5, <2>6, <2>7, <2>8, <2>9 DEF MarketInv
<1>5. CASE Pending(q) /\ UNCHANGED <<cache, loads, started>>
                      /\ reader' = [reader EXCEPT ![r] = [NoReader EXCEPT !.pc = "waiting", !.wants = q,
                                                            !.load = cache[q].load]]
  <2> DEFINE new == [NoReader EXCEPT !.pc = "waiting", !.wants = q, !.load = cache[q].load]
  <2>1. new \in ReaderRows /\ new.pc = "waiting" /\ new.wants = q /\ new.load = cache[q].load /\ new.at = 0
    BY <1>3 DEF NoReader, ReaderRows, ReaderPC, NoSnap, SnapRows
  <2>2. reader' = [reader EXCEPT ![r] = new]
    BY <1>5
  <2> HIDE DEF new
  <2>3. /\ reader' \in [Readers -> ReaderRows] /\ reader'[r] = new
        /\ \A p \in Readers : p # r => reader'[p] = reader[p]
    BY <1>1, <2>1, <2>2 DEF MarketTyped
  <2>4. MarketTyped'
    BY <1>1, <1>2, <1>5, <2>3 DEF MarketTyped
  <2>5. LoadsSound'
    BY <1>2, <1>5, <2>1, <2>3, LagsStay DEF MarketInv, LoadsSound
  <2>6. EntriesSound'
    BY <1>2, <1>5, LagsStay DEF MarketInv, EntriesSound
  <2>7. ReadersSound'
    <3> SUFFICES ASSUME NEW p \in Readers
                 PROVE  /\ reader'[p].load <= started /\ reader'[p].at <= now
                        /\ reader'[p].pc \in {"zones", "served"} =>
                             Lags(reader'[p].wants, reader'[p].snap, LoadTime + CacheTtl, reader'[p].at)
      BY <1>2, <1>5, LagsStay DEF ReadersSound
    <3>1. CASE p = r
      <4>1. cache[q].load <= started
        BY DEF MarketInv, EntriesSound
      <4> QED
        BY <1>3, <2>1, <2>3, <3>1, <4>1
    <3>2. CASE p # r
      BY <2>3, <3>2 DEF MarketInv, ReadersSound
    <3> QED
      BY <3>1, <3>2
  <2>8. ZonesTrue'
    BY <1>1, <2>1, <2>3 DEF MarketInv, ZonesTrue, PairedPressure
  <2> QED
    BY <1>2, <2>4, <2>5, <2>6, <2>7, <2>8 DEF MarketInv
<1>6. CASE /\ started' = started + 1
           /\ loads' = loads \cup {[id |-> started', wants |-> q, pc |-> "read", snap |-> NoSnap, since |-> now]}
           /\ cache' = [Swept EXCEPT ![q] = [snap |-> NoSnap, until |-> now + CacheTtl, load |-> started']]
           /\ reader' = [reader EXCEPT ![r] = [NoReader EXCEPT !.pc = "waiting", !.wants = q, !.load = started']]
  <2> DEFINE n == started + 1
             fresh == [id |-> n, wants |-> q, pc |-> "read", snap |-> NoSnap, since |-> now]
             entry == [snap |-> NoSnap, until |-> now + CacheTtl, load |-> n]
             new == [NoReader EXCEPT !.pc = "waiting", !.wants = q, !.load = n]
  <2>12. n \in Nat
    BY <1>3
  <2>1. /\ new \in ReaderRows /\ new.pc = "waiting" /\ new.wants = q /\ new.load = n /\ new.at = 0
    <3> HIDE DEF n
    <3> QED
      BY <2>12 DEF NoReader, ReaderRows, ReaderPC, NoSnap, SnapRows
  <2>2. /\ fresh \in LoadRows /\ fresh.id = n /\ fresh.wants = q /\ fresh.pc = "read" /\ fresh.since = now
        /\ entry \in Entries /\ entry.load = n /\ entry.until = now + CacheTtl /\ n \in Nat \ {0}
    BY <1>3, EmptyEntry DEF LoadRows, Entries
  <2>3. /\ started' = n /\ loads' = loads \cup {fresh} /\ cache' = [Swept EXCEPT ![q] = entry]
        /\ reader' = [reader EXCEPT ![r] = new]
    BY <1>6
  <2> HIDE DEF fresh, entry, new
  <2>4. /\ reader' \in [Readers -> ReaderRows] /\ reader'[r] = new
        /\ \A p \in Readers : p # r => reader'[p] = reader[p]
    BY <1>1, <2>1, <2>3 DEF MarketTyped
  <2>5. /\ cache' \in [Requests -> Entries] /\ cache'[q] = entry
        /\ \A p \in Requests : p # q => cache'[p] \in {cache[p], NoEntry}
    BY <1>1, <2>2, <2>3, EmptyEntry DEF MarketTyped, Swept
  <2>6. MarketTyped'
    BY <1>1, <1>2, <2>2, <2>3, <2>4, <2>5 DEF MarketTyped
  <2>7. /\ \A l \in loads : l.id # n /\ l.id # 0 /\ l.id <= n
        /\ \A p \in Readers : reader[p].load <= n /\ reader[p].load # n
        /\ \A p \in Requests : cache[p].load <= n /\ cache[p].load # n
    <3>1. /\ \A l \in loads : l.id \in Nat \ {0} /\ l.id <= started
          /\ \A p \in Readers : reader[p].load \in Nat /\ reader[p].load <= started
          /\ \A p \in Requests : cache[p].load \in Nat /\ cache[p].load <= started
      BY <1>1 DEF MarketTyped, LoadRows, ReaderRows, Entries, MarketInv, LoadsSound, ReadersSound, EntriesSound
    <3> QED
      BY <1>3, <3>1
  <2>8. LoadsSound'
    <3> SUFFICES ASSUME NEW k \in loads'
                 PROVE  /\ k.id <= n /\ k.since <= now /\ now <= k.since + LoadTime
                        /\ k.pc # "read" => Lags(k.wants, k.snap, 0, k.since)
                        /\ \A p \in Readers : reader'[p].load = k.id => reader'[p].wants = k.wants
                        /\ \A p \in Requests : cache'[p].load = k.id => p = k.wants
      BY <1>2, <2>3, LagsStay DEF LoadsSound
    <3>1. CASE k \in loads
      BY <2>1, <2>2, <2>4, <2>5, <2>7, <3>1, EmptyEntry DEF MarketInv, LoadsSound
    <3>2. CASE k = fresh
      <4>1. k.id <= n /\ k.since <= now /\ now <= k.since + LoadTime /\ k.pc = "read"
        BY <1>3, <2>2, <3>2
      <4> QED
        BY <2>1, <2>2, <2>4, <2>5, <2>7, <3>2, <4>1, EmptyEntry
    <3> QED
      BY <2>3, <3>1, <3>2
  <2>9. EntriesSound'
    <3> SUFFICES ASSUME NEW p \in Requests
                 PROVE  /\ cache'[p].load <= n /\ cache'[p].until <= now + CacheTtl
                        /\ cache'[p].load = 0 =>
                             Lags(p, cache'[p].snap, LoadTime + CacheTtl, cache'[p].until)
      BY <1>2, <2>3, LagsStay DEF EntriesSound
    <3>1. CASE p = q
      BY <1>3, <2>2, <2>5, <3>1
    <3>2. CASE p # q /\ cache'[p] = cache[p]
      BY <2>7, <3>2 DEF MarketInv, EntriesSound
    <3>3. CASE p # q /\ cache'[p] = NoEntry
      <4>1. LoadTime + CacheTtl \in Nat /\ 0 <= now + CacheTtl /\ 0 <= n
        BY <1>3, <2>2
      <4> QED
        BY <1>1, <3>3, <4>1, EmptyEntry
    <3> QED
      BY <2>5, <3>1, <3>2, <3>3
  <2>10. ReadersSound'
    <3> SUFFICES ASSUME NEW p \in Readers
                 PROVE  /\ reader'[p].load <= n /\ reader'[p].at <= now
                        /\ reader'[p].pc \in {"zones", "served"} =>
                             Lags(reader'[p].wants, reader'[p].snap, LoadTime + CacheTtl, reader'[p].at)
      BY <1>2, <2>3, LagsStay DEF ReadersSound
    <3>1. CASE p = r
      BY <1>3, <2>1, <2>2, <2>4, <3>1
    <3>2. CASE p # r
      BY <2>4, <2>7, <3>2 DEF MarketInv, ReadersSound
    <3> QED
      BY <3>1, <3>2
  <2>11. ZonesTrue'
    BY <1>1, <2>1, <2>4 DEF MarketInv, ZonesTrue, PairedPressure
  <2> QED
    BY <1>2, <2>6, <2>8, <2>9, <2>10, <2>11 DEF MarketInv
<1> QED
  BY <1>4, <1>5, <1>6 DEF Request

-----------------------------------------------------------------------------
LEMMA MarketInitInv == CacheInit => MarketInv
<1> SUFFICES ASSUME CacheInit PROVE MarketInv
  OBVIOUS
<1>1. /\ NoSave \in SaveRows /\ NoSave.pc = "idle"
  BY DEF NoSave, SaveRows, SnapRows
<1>2. StoreTyped /\ StoreSound
  BY <1>1 DEF CacheInit, StoreInit, StoreTyped, StoreSound
<1>3. MarketTyped
  BY <1>2, EmptyEntry DEF CacheInit, MarketTyped
<1>4. LoadsSound /\ ZonesTrue
  BY EmptyEntry DEF CacheInit, LoadsSound, ZonesTrue, PairedPressure
<1>5. EntriesSound
  <2>1. 0 <= 0 + CacheTtl /\ LoadTime + CacheTtl \in Nat
    BY CacheConstants
  <2> QED
    BY <1>3, <2>1, EmptyEntry DEF CacheInit, StoreInit, EntriesSound
<1>6. ReadersSound
  BY EmptyEntry DEF CacheInit, StoreInit, ReadersSound
<1> QED
  BY <1>2, <1>3, <1>4, <1>5, <1>6 DEF MarketInv

LEMMA MarketStepInv == MarketInv /\ [CacheNext]_cacheVars => MarketInv'
<1> SUFFICES ASSUME MarketInv, [CacheNext]_cacheVars PROVE MarketInv'
  OBVIOUS
<1>1. CASE StoreSide \/ WorkerSaves
  <2>1. UNCHANGED <<cache, loads, started, zones, reader>>
    BY <1>1 DEF StoreSide, WorkerSaves, cacheOnly
  <2>2. \E w \in Writers : Save(w) \/ \E e \in ExpiryDays : Fetch(w, e)
    BY <1>1, StoreConstants, CacheConstants DEF StoreSide, WorkerSaves, Save
  <2>3. PICK x \in SnapRows : /\ StoreTyped' /\ StoreSound' /\ now' = now
                              /\ snaps' \subseteq snaps \cup {x} /\ x.time + SaveTime >= now
    BY <2>2, StoreMoves
  <2>4. MarketTyped'
    BY <2>1, <2>3 DEF MarketInv, MarketTyped
  <2>5. LoadsSound' /\ EntriesSound' /\ ReadersSound' /\ ZonesTrue'
    BY <2>1, <2>3, CachesKept
  <2> QED
    BY <2>3, <2>4, <2>5 DEF MarketInv
<1>2. CASE CacheTick
  BY <1>2, TickKeeps
<1>3. CASE \E e \in bus : SnapshotSaved(e) \/ MessageLost(e)
  BY <1>3, MessageKeeps
<1>4. CASE \E l \in loads : LoadStep(l)
  BY <1>4, LoadReadKeeps, LoadFailsKeeps, LoadDoneKeeps, LoadLiveKeeps DEF LoadStep
<1>5. CASE \E r \in Readers : Respond(r) \/ \E q \in Requests : Request(r, q)
  BY <1>5, RespondKeeps, RequestKeeps
<1>6. CASE UNCHANGED cacheVars
  <2>1. UNCHANGED <<storeVars, cache, loads, started, zones, reader>>
    BY <1>6 DEF cacheVars, cacheOnly
  <2>2. StoreTyped' /\ StoreSound' /\ now' = now /\ snaps' = snaps
    BY <2>1, OnlyCaches
  <2> QED
    BY <2>1, <2>2, LagsStay
       DEF MarketInv, MarketTyped, LoadsSound, EntriesSound, ReadersSound, ZonesTrue, PairedPressure
<1> QED
  BY <1>1, <1>2, <1>3, <1>4, <1>5, <1>6 DEF CacheNext

LEMMA MarketInvSound == MarketInv => ResponseIsSound
<1> SUFFICES ASSUME MarketInv PROVE BoundedStaleness
  BY DEF MarketInv, ZonesTrue, ResponseIsSound
<1> SUFFICES ASSUME NEW r \in Readers, reader[r].pc = "served",
                    reader[r].wants # {} \/ reader[r].snap # NoSnap,
                    NEW s \in RowsBehind(reader[r].wants, reader[r].snap),
                    s.time + SaveTime + LoadTime + CacheTtl < reader[r].at
             PROVE  reader[r].snap.time >= s.time
  BY DEF BoundedStaleness
<1>1. Lags(reader[r].wants, reader[r].snap, LoadTime + CacheTtl, reader[r].at)
  BY DEF MarketInv, ReadersSound
<1>2. s.time \in Nat /\ reader[r].at \in Nat
  BY DEF MarketInv, MarketTyped, StoreTyped, SnapRows, ReaderRows, RowsBehind
<1>3. s.time + SaveTime + (LoadTime + CacheTtl) < reader[r].at
  BY <1>2, CacheConstants, StoreConstants
<1> QED
  BY <1>1, <1>3 DEF Lags

-----------------------------------------------------------------------------
(* "A response pairs its ticks with their own pressure, and is behind the  *)
(* store by no more than one load and one cache lifetime": in every        *)
(* behaviour of the cache, whatever its lifetimes, writers and readers.    *)
THEOREM ResponsesAreSound == CacheSpec => []ResponseIsSound
<1>. QED BY MarketInitInv, MarketStepInv, MarketInvSound, PTL DEF CacheSpec

-----------------------------------------------------------------------------
(* A quote has at most one price and one close; a fetch that counts as     *)
(* settled while the session runs began in it, with a capture of it        *)
(* stored, and what it read since is of the day and of the day before.     *)
FetchPC == {"feed", "ltp", "ohlc", "build"}
FetchRows == [id : Nat, pc : FetchPC, cold : BOOLEAN,
              spot : SUBSET Int, prev : SUBSET Int, settled : BOOLEAN]

BourseRows == [day : Nat, open : BOOLEAN, kept : SUBSET Nat]
TickerQuotes == [spot : SUBSET Int, prev : SUBSET Int]
AuxRows == [there : BOOLEAN, fresh : BOOLEAN, refreshing : BOOLEAN, item : TickerQuotes, settled : BOOLEAN]

BourseSound ==
  /\ bourse \in BourseRows
  /\ {1, 2} \subseteq bourse.kept /\ \A d \in bourse.kept : d <= bourse.day

FetchesSound ==
  /\ fetches \in SUBSET FetchRows
  /\ \A f \in fetches : bourse.open /\ f.settled =>
       /\ bourse.day \in bourse.kept
       /\ f.spot \subseteq {bourse.day} /\ f.prev \subseteq {bourse.day - 1}

QuoteSound ==
  /\ aux \in AuxRows
  /\ aux.there /\ aux.settled =>
    /\ \A s \in aux.item.spot : s <= bourse.day
    /\ \A s \in aux.item.spot, p \in aux.item.prev :
         p < s /\ \A d \in bourse.kept : d < s => d <= p

TickerInv == begun \in Nat /\ BourseSound /\ FetchesSound /\ QuoteSound

(* There is a newest day in any set of days up to one.                     *)
LEMMA LastDay ==
  ASSUME NEW n \in Nat, NEW S \in SUBSET Nat, S # {}, \A d \in S : d <= n
  PROVE  Max(S) \in S /\ \A d \in S : d <= Max(S)
<1> DEFINE back == {n - d : d \in S}
<1>1. back \in SUBSET Nat /\ back # {}
  <2>1. \A d \in S : d \in Nat /\ n - d \in Nat
    OBVIOUS
  <2>2. PICK d \in S : TRUE
    OBVIOUS
  <2>3. n - d \in back
    BY <2>2
  <2> QED
    BY <2>1, <2>3
<1>2. PICK b \in back : \A c \in back : b <= c
  BY <1>1, Least
<1>3. PICK m \in S : b = n - m
  BY <1>2
<1>4. \A d \in S : m >= d
  BY <1>2, <1>3
<1> QED
  BY <1>4 DEF Max

(* The stored price is of the newest capture, the stored close of the      *)
(* newest one of a day before it.                                          *)
LEMMA StoredQuote ==
  ASSUME BourseSound
  PROVE  /\ StoredSpot \in bourse.kept /\ \A d \in bourse.kept : d <= StoredSpot
         /\ StoredClose \in bourse.kept /\ StoredClose < StoredSpot
         /\ \A d \in bourse.kept : d < StoredSpot => d <= StoredClose
<1>1. bourse.kept \in SUBSET Nat /\ bourse.day \in Nat /\ bourse.kept # {}
  BY DEF BourseSound, BourseRows
<1>2. StoredSpot \in bourse.kept /\ \A d \in bourse.kept : d <= StoredSpot
  BY <1>1, LastDay DEF BourseSound, StoredSpot
<1> DEFINE before == bourse.kept \ {StoredSpot}
<1>3. before \in SUBSET Nat /\ before # {} /\ \A d \in before : d <= bourse.day
  BY <1>1 DEF BourseSound
<1>4. Max(before) \in before /\ \A d \in before : d <= Max(before)
  BY <1>1, <1>3, LastDay
<1>5. StoredClose = Max(before)
  BY DEF StoredClose
<1> HIDE DEF before
<1>6. StoredClose \in before /\ \A d \in before : d <= StoredClose
  BY <1>4, <1>5
<1> USE DEF before
<1>7. StoredClose \in bourse.kept /\ StoredClose # StoredSpot
  BY <1>6
<1> QED
  BY <1>1, <1>2, <1>6, <1>7

LEMMA TickerInitInv == TickerInit => TickerInv
BY DEF BourseRows, TickerQuotes, AuxRows, NoQuote,  TickerInit, TickerInv, BourseSound, FetchesSound, QuoteSound, NoAux

(* A fetch that goes on with what it read.                                 *)
LEMMA FetchGoesOn ==
  ASSUME TickerInv, NEW f \in fetches, NEW g \in FetchRows,
         Becomes(f, g), UNCHANGED <<bourse, aux, begun>>,
         bourse.open /\ g.settled =>
           /\ bourse.day \in bourse.kept
           /\ g.spot \subseteq {bourse.day} /\ g.prev \subseteq {bourse.day - 1}
  PROVE  TickerInv'
<1>1. fetches' = (fetches \ {f}) \cup {g} /\ bourse' = bourse /\ aux' = aux /\ begun' = begun
  BY DEF Becomes
<1>2. FetchesSound'
  BY <1>1 DEF TickerInv, FetchesSound
<1> QED
  BY <1>1, <1>2 DEF TickerInv, BourseSound, QuoteSound

LEMMA ReadKeeps ==
  ASSUME TickerInv, NEW f \in fetches, FromFeed(f) \/ FromLtp(f) \/ FromOhlc(f)
  PROVE  TickerInv'
<1>1. /\ f \in FetchRows /\ bourse.day \in Int /\ ClosesQuoted \subseteq Int
      /\ bourse.open /\ f.settled =>
           /\ bourse.day \in bourse.kept
           /\ f.spot \subseteq {bourse.day} /\ f.prev \subseteq {bourse.day - 1}
  BY DEF TickerInv, FetchesSound, BourseSound, BourseRows, ClosesQuoted
<1> DEFINE Next(g) ==
             /\ g \in FetchRows /\ g.settled = f.settled /\ Becomes(f, g)
             /\ g.spot \in {f.spot, {bourse.day}}
             /\ g.prev = f.prev \/ \E d \in ClosesQuoted : g.prev = {d}
<1>2. \E g : Next(g)
  <2>1. {"ltp", "ohlc", "build"} \subseteq FetchPC
    BY DEF FetchPC
  <2>2. CASE FromFeed(f)
    <3>1. ASSUME Becomes(f, [f EXCEPT !.pc = "ltp"]) PROVE Next([f EXCEPT !.pc = "ltp"])
      BY <2>1, <3>1, <1>1 DEF FetchRows
    <3>2. ASSUME Becomes(f, [f EXCEPT !.pc = "build", !.spot = {bourse.day}])
          PROVE  Next([f EXCEPT !.pc = "build", !.spot = {bourse.day}])
      BY <2>1, <3>2, <1>1 DEF FetchRows
    <3>3. ASSUME NEW d \in ClosesQuoted,
                 Becomes(f, [f EXCEPT !.pc = "build", !.spot = {bourse.day}, !.prev = {d}])
          PROVE  Next([f EXCEPT !.pc = "build", !.spot = {bourse.day}, !.prev = {d}])
      BY <2>1, <3>3, <1>1 DEF FetchRows
    <3> HIDE DEF Next
    <3> QED
      BY <2>2, <3>1, <3>2, <3>3 DEF FromFeed
  <2>3. CASE FromLtp(f)
    <3>1. ASSUME Becomes(f, [f EXCEPT !.pc = "ohlc"]) PROVE Next([f EXCEPT !.pc = "ohlc"])
      BY <2>1, <3>1, <1>1 DEF FetchRows
    <3>2. ASSUME Becomes(f, [f EXCEPT !.pc = "ohlc", !.spot = {bourse.day}])
          PROVE  Next([f EXCEPT !.pc = "ohlc", !.spot = {bourse.day}])
      BY <2>1, <3>2, <1>1 DEF FetchRows
    <3> HIDE DEF Next
    <3> QED
      BY <2>3, <3>1, <3>2 DEF FromLtp
  <2>4. CASE FromOhlc(f)
    <3>1. ASSUME Becomes(f, [f EXCEPT !.pc = "build"]) PROVE Next([f EXCEPT !.pc = "build"])
      BY <2>1, <3>1, <1>1 DEF FetchRows
    <3>2. ASSUME NEW d \in ClosesQuoted,
                 Becomes(f, [f EXCEPT !.pc = "build",
                               !.spot = IF f.spot = {} THEN {bourse.day} ELSE @, !.prev = {d}])
          PROVE  Next([f EXCEPT !.pc = "build",
                         !.spot = IF f.spot = {} THEN {bourse.day} ELSE @, !.prev = {d}])
      BY <2>1, <3>2, <1>1 DEF FetchRows
    <3> HIDE DEF Next
    <3> QED
      BY <2>4, <3>1, <3>2 DEF FromOhlc
  <2> QED
    BY <2>2, <2>3, <2>4
<1>3. PICK g : Next(g)
  BY <1>2
<1>4. bourse.open => g.prev \in {f.prev, {bourse.day - 1}}
  BY <1>3 DEF ClosesQuoted
<1>5. UNCHANGED <<bourse, aux, begun>>
  BY DEF FromFeed, FromLtp, FromOhlc
<1> QED
  BY <1>1, <1>3, <1>4, <1>5, FetchGoesOn

LEMMA BuildKeeps == ASSUME TickerInv, NEW f \in fetches, BuildQuote(f) PROVE TickerInv'
<1>1. /\ f \in FetchRows /\ bourse.day \in Nat
      /\ bourse.open /\ f.settled =>
           /\ bourse.day \in bourse.kept
           /\ f.spot \subseteq {bourse.day} /\ f.prev \subseteq {bourse.day - 1}
  BY DEF TickerInv, FetchesSound, BourseSound, BourseRows
<1>2. /\ fetches' = fetches \ {f} /\ bourse' = bourse /\ begun' = begun
      /\ aux'.item = QuoteOf(f) /\ aux'.settled = f.settled
  BY DEF BuildQuote
<1>3. bourse.kept \in SUBSET Nat /\ \A d \in bourse.kept : d <= bourse.day
  BY DEF TickerInv, BourseSound, BourseRows
<1>4. /\ StoredSpot \in bourse.kept /\ \A d \in bourse.kept : d <= StoredSpot
      /\ StoredClose \in bourse.kept /\ StoredClose < StoredSpot
      /\ \A d \in bourse.kept : d < StoredSpot => d <= StoredClose
  BY StoredQuote DEF TickerInv
<1>5. ASSUME f.settled
      PROVE  \E s, p \in Int : /\ QuoteOf(f) = [spot |-> {s}, prev |-> {p}]
                               /\ s <= bourse.day /\ p < s /\ \A d \in bourse.kept : d < s => d <= p
  <2>1. CASE ~bourse.open
    <3>1. QuoteOf(f) = [spot |-> {StoredSpot}, prev |-> {StoredClose}]
      BY <2>1 DEF QuoteOf
    <3>2. StoredSpot \in Int /\ StoredClose \in Int /\ StoredSpot <= bourse.day
      BY <1>3, <1>4
    <3> QED
      BY <3>1, <3>2, <1>4
  <2>2. CASE bourse.open
    <3>1. StoredSpot = bourse.day
      BY <2>2, <1>1, <1>3, <1>4, <1>5
    <3>2. Prefer(f.spot, {StoredSpot}) = {bourse.day}
      BY <2>2, <1>1, <1>5, <3>1 DEF Prefer
    <3>3. PICK p \in {StoredClose, bourse.day - 1} : Prefer(f.prev, {StoredClose}) = {p}
      BY <2>2, <1>1, <1>5 DEF Prefer
    <3>4. p \in Int /\ p < bourse.day /\ \A d \in bourse.kept : d < bourse.day => d <= p
      BY <1>1, <1>3, <1>4, <3>1, <3>3
    <3>5. QuoteOf(f) = [spot |-> {bourse.day}, prev |-> {p}]
      BY <2>2, <3>2, <3>3 DEF QuoteOf
    <3>6. bourse.day \in Int /\ bourse.day <= bourse.day
      BY <1>1
    <3> QED
      BY <3>4, <3>5, <3>6
  <2> QED
    BY <2>1, <2>2
<1>7. aux' \in AuxRows
  <2>1. StoredSpot \in Int /\ StoredClose \in Int
    BY <1>3, <1>4
  <2>2. QuoteOf(f) \in TickerQuotes /\ f.settled \in BOOLEAN
    BY <1>1, <2>1 DEF QuoteOf, Prefer, TickerQuotes, FetchRows
  <2>3. PICK fresh \in BOOLEAN :
          aux' = [there |-> TRUE, fresh |-> fresh, refreshing |-> FALSE, item |-> QuoteOf(f), settled |-> f.settled]
    BY DEF BuildQuote
  <2> QED
    BY <2>2, <2>3 DEF AuxRows
<1>6. QuoteSound'
  <2>1. SUFFICES ASSUME f.settled
                 PROVE  /\ \A s \in aux'.item.spot : s <= bourse.day
                        /\ \A s \in aux'.item.spot, p \in aux'.item.prev :
                             p < s /\ \A d \in bourse.kept : d < s => d <= p
    BY <1>2, <1>7 DEF QuoteSound
  <2> QED
    BY <1>2, <1>5, <2>1
<1> QED
  BY <1>2, <1>6 DEF TickerInv, BourseSound, FetchesSound

LEMMA TickerStepInv == TickerInv /\ [TickerNext]_tickerVars => TickerInv'
<1> SUFFICES ASSUME TickerInv, [TickerNext]_tickerVars PROVE TickerInv'
  OBVIOUS
<1>1. CASE SessionOpens
  <2>1. /\ bourse'.day = bourse.day + 1 /\ bourse'.kept = bourse.kept
        /\ bourse' \in BourseRows
        /\ aux' = aux /\ begun' = begun
    <3>1. bourse' = [bourse EXCEPT !.open = TRUE, !.day = @ + 1] /\ bourse \in BourseRows
      BY <1>1 DEF SessionOpens, TickerInv, BourseSound
    <3>2. bourse.day + 1 \in Nat
      BY <3>1 DEF BourseRows
    <3> QED
      BY <1>1, <3>1, <3>2 DEF SessionOpens, BourseRows
  <2>2. fetches' \in SUBSET FetchRows /\ \A f \in fetches' : ~f.settled
    BY <1>1 DEF SessionOpens, TickerInv, FetchesSound, FetchRows
  <2>3. bourse.day \in Nat /\ bourse.kept \in SUBSET Nat
    BY DEF TickerInv, BourseSound, BourseRows
  <2>4. BourseSound'
    BY <2>1, <2>3 DEF TickerInv, BourseSound, BourseRows
  <2>5. QuoteSound'
    BY <2>1, <2>3 DEF TickerInv, QuoteSound, AuxRows, TickerQuotes
  <2> QED
    BY <2>1, <2>2, <2>4, <2>5 DEF TickerInv, FetchesSound
<1>2. CASE SessionCloses
  <2>1. /\ bourse'.day = bourse.day /\ bourse'.kept = bourse.kept /\ ~bourse'.open
        /\ bourse' \in BourseRows
        /\ aux' = aux /\ begun' = begun /\ fetches' = fetches
    BY <1>2 DEF SessionCloses, TickerInv, BourseSound, BourseRows
  <2> QED
    BY <2>1 DEF TickerInv, BourseSound, FetchesSound, QuoteSound
<1>3. CASE CaptureStored
  <2>1. /\ bourse'.day = bourse.day /\ bourse'.kept = bourse.kept \cup {bourse.day}
        /\ bourse'.open = bourse.open
        /\ bourse' \in BourseRows
        /\ aux' = aux /\ begun' = begun /\ fetches' = fetches /\ bourse.day \in Nat
    BY <1>3 DEF CaptureStored, TickerInv, BourseSound, BourseRows
  <2>4. bourse.kept \in SUBSET Nat
    BY DEF TickerInv, BourseSound, BourseRows
  <2>2. BourseSound' /\ FetchesSound'
    BY <2>1 DEF TickerInv, BourseSound, FetchesSound
  <2>3. QuoteSound'
    BY <2>1, <2>4 DEF TickerInv, QuoteSound, AuxRows, TickerQuotes
  <2> QED
    BY <2>1, <2>2, <2>3 DEF TickerInv
<1>4. CASE AskTicker
  <2>1. PICK cold \in BOOLEAN : Begin(cold)
    BY <1>4 DEF AskTicker
  <2> DEFINE f == [id |-> begun + 1, pc |-> "feed", cold |-> cold, spot |-> {}, prev |-> {},
                   settled |-> ~bourse.open \/ bourse.day \in bourse.kept]
  <2>2. /\ begun' = begun + 1 /\ begun' \in Nat /\ fetches' = fetches \cup {f} /\ bourse' = bourse
    BY <1>4, <2>1 DEF AskTicker, Begin, TickerInv
  <2>5. /\ aux' \in AuxRows
        /\ aux'.there = aux.there /\ aux'.settled = aux.settled /\ aux'.item = aux.item
    BY <1>4 DEF AskTicker, TickerInv, QuoteSound, AuxRows
  <2>3. /\ f \in FetchRows /\ f.spot = {} /\ f.prev = {}
        /\ bourse.open /\ f.settled => bourse.day \in bourse.kept
    <3>1. (~bourse.open \/ bourse.day \in bourse.kept) \in BOOLEAN /\ begun + 1 \in Nat
      BY DEF TickerInv
    <3> QED
      BY <3>1 DEF FetchRows, FetchPC
  <2> HIDE DEF f
  <2>4. FetchesSound'
    BY <2>2, <2>3 DEF TickerInv, FetchesSound
  <2> QED
    BY <2>2, <2>4, <2>5 DEF TickerInv, BourseSound, QuoteSound
<1>5. CASE AuxAges \/ WatchlistSaved
  <2>1. UNCHANGED <<bourse, fetches, begun>>
    BY <1>5 DEF AuxAges, WatchlistSaved
  <2>2. QuoteSound'
    <3>1. CASE AuxAges
      <4>1. aux' \in AuxRows /\ aux'.settled = aux.settled /\ aux'.item = aux.item /\ aux'.there = aux.there
        BY <3>1 DEF AuxAges, TickerInv, QuoteSound, AuxRows
      <4> QED
        BY <2>1, <4>1 DEF TickerInv, QuoteSound
    <3>2. CASE WatchlistSaved
      <4>1. NoAux \in AuxRows /\ ~NoAux.there
        BY DEF NoAux, NoQuote, AuxRows, TickerQuotes
      <4> QED
        BY <3>2, <4>1 DEF WatchlistSaved, QuoteSound
    <3> QED
      BY <1>5, <3>1, <3>2
  <2> QED
    BY <2>1, <2>2 DEF TickerInv, BourseSound, FetchesSound
<1>6. CASE \E f \in fetches : FromFeed(f) \/ FromLtp(f) \/ FromOhlc(f) \/ BuildQuote(f)
  BY <1>6, ReadKeeps, BuildKeeps
<1>7. CASE UNCHANGED tickerVars
  BY <1>7 DEF tickerVars, TickerInv, BourseSound, FetchesSound, QuoteSound
<1> QED
  BY <1>1, <1>2, <1>3, <1>4, <1>5, <1>6, <1>7 DEF TickerNext

LEMMA TickerInvSound == TickerInv => ChangeIsOfOneDay
BY DEF TickerInv, QuoteSound, ChangeIsOfOneDay

(* A quote's change is of one day, for any calendar of captures and any    *)
(* order of ticks, calls, failures, refreshes and watchlists.              *)
THEOREM ChangesAreOfOneDay == TickerSpec => []ChangeIsOfOneDay
<1>. QED BY TickerInitInv, TickerStepInv, TickerInvSound, PTL DEF TickerSpec

-----------------------------------------------------------------------------
(* The tickets of paper trading.                                           *)
Queries == {"open", "pending"}
LegStates == {"none", "pending", "open", "closed", "cancelled"}
LegRows == [st : LegStates, size : Nat, estimate : SUBSET PaperLegs, margin : SUBSET PaperLegs]
AskPC == {"idle", "checking", "placing", "estimating", "estimated", "done"}
AskRows(W) == [pc : AskPC, size : Nat, queries : SUBSET Queries, rows : Nat, worth : W,
               of : SUBSET PaperLegs, missed : SUBSET PaperLegs]
PassPC == {"idle", "filling", "pricing", "priced"}
PassRows == [pc : PassPC, filled : SUBSET PaperLegs, of : SUBSET PaperLegs]

(* What a ticket's worth adds up to is a fold, and no theorem is about it: *)
(* it is in some set W.                                                    *)
TicketsTyped ==
  /\ leg \in [PaperLegs -> LegRows] /\ pass \in PassRows
  /\ \E W : wanted \in [PaperAsks -> AskRows(W)]

Judging(t) == wanted[t].pc \in {"checking", "placing"}
Placed == {t \in PaperAsks : wanted[t].pc \in {"estimating", "estimated", "done"}}
CountedLegs(t) == {l \in AliveLegs \ wanted[t].missed : leg[l].st \notin wanted[t].queries}

(* A ticket being judged has counted what is alive of the kinds answered,  *)
(* but for what it could not see; what the tickets placed could all see is *)
(* within the cap.                                                         *)
CountsTrue ==
  \A t \in PaperAsks : Judging(t) =>
    /\ Cardinality(CountedLegs(t)) <= wanted[t].rows
    /\ wanted[t].pc = "placing" =>
         wanted[t].queries = {} /\ wanted[t].rows + Cardinality(t) <= PaperCap

CapHeld == Cardinality(AliveLegs \ UNION {wanted[t].missed : t \in Placed}) <= PaperCap

(* The legs of a ticket not placed yet are nowhere; one that is not open   *)
(* yet shows no margin; what the worker has priced are all legs of one     *)
(* ticket that show one.                                                   *)
Unplaced == \A t \in PaperAsks \ Placed : \A l \in t : leg[l].st = "none"
Bare == \A l \in PaperLegs : leg[l].st \in {"none", "pending"} => leg[l].margin = {}
PricedTrue ==
  /\ \A l \in pass.of : leg[l].st \in {"open", "closed"}
  /\ pass.pc = "priced" => \E t \in PaperAsks :
       /\ pass.of \subseteq t
       /\ \A l \in t : leg[l].st = "open" /\ leg[l].margin # {} => l \in pass.of

MarginsTrue == Unplaced /\ Bare /\ PricedTrue /\ OneMarginPerTicket
TicketsInv == TicketsTyped /\ CountsTrue /\ CapHeld /\ MarginsTrue

-----------------------------------------------------------------------------
LEMMA Sizes ==
  ASSUME NEW S \in SUBSET PaperLegs
  PROVE  /\ IsFiniteSet(S) /\ Cardinality(S) \in Nat
         /\ \A T \in SUBSET S : Cardinality(T) <= Cardinality(S)
         /\ \A T \in SUBSET PaperLegs : Cardinality(S \cup T) <= Cardinality(S) + Cardinality(T)
<1>1. \A T \in SUBSET PaperLegs : IsFiniteSet(T) /\ Cardinality(T) \in Nat
  BY FS_Subset, FS_CardinalityType, TicketConstants DEF PaperLegs
<1>2. \A T \in SUBSET S : Cardinality(T) <= Cardinality(S)
  BY <1>1, FS_Subset
<1>3. ASSUME NEW T \in SUBSET PaperLegs
      PROVE  Cardinality(S \cup T) <= Cardinality(S) + Cardinality(T)
  <2>1. Cardinality(S \cup T) = Cardinality(S) + Cardinality(T) - Cardinality(S \cap T)
    BY <1>1, FS_Union
  <2>2. Cardinality(S) \in Nat /\ Cardinality(T) \in Nat /\ Cardinality(S \cap T) \in Nat
    BY <1>1
  <2> QED
    BY <2>1, <2>2
<1> QED
  BY <1>1, <1>2, <1>3

LEMMA Alive ==
  /\ AliveLegs \in SUBSET PaperLegs /\ \A t : CountedLegs(t) \in SUBSET AliveLegs
  /\ \A l \in PaperLegs : l \in AliveLegs <=> leg[l].st \in {"pending", "open"}
BY DEF AliveLegs, LegsIn, CountedLegs

LEMMA TicketsInit == PaperTicketInit => TicketsInv
<1> SUFFICES ASSUME PaperTicketInit PROVE TicketsInv
  OBVIOUS
<1>1. NoLeg \in LegRows /\ NoLeg.st = "none" /\ NoLeg.margin = {}
  BY DEF NoLeg, LegRows, LegStates
<1>2. NotAsked \in AskRows({0}) /\ NotAsked.pc = "idle" /\ NoMonitor \in PassRows /\ NoMonitor.of = {}
      /\ NoMonitor.pc = "idle"
  BY DEF NotAsked, NoMonitor, AskRows, AskPC, PassRows, PassPC
<1>3. TicketsTyped
  BY <1>1, <1>2 DEF PaperTicketInit, TicketsTyped
<1>4. CountsTrue
  BY <1>2 DEF PaperTicketInit, CountsTrue, Judging
<1>5. AliveLegs = {}
  BY <1>1 DEF PaperTicketInit, AliveLegs, LegsIn
<1>6. CapHeld
  BY <1>5, FS_EmptySet, TicketConstants DEF CapHeld
<1>7. MarginsTrue
  BY <1>1, <1>2
     DEF PaperTicketInit, MarginsTrue, Unplaced, Bare, PricedTrue, OneMarginPerTicket, LegsIn, PaperLegs
<1> QED
  BY <1>3, <1>4, <1>6, <1>7 DEF TicketsInv

-----------------------------------------------------------------------------
(* A leg that leaves, or moves where the checks under way cannot see it,   *)
(* takes nothing from what they counted.                                   *)
LEMMA CountsKept ==
  ASSUME TicketsInv, NEW t \in PaperAsks, Judging(t)',
         wanted'[t].pc = wanted[t].pc, wanted'[t].rows = wanted[t].rows,
         wanted'[t].queries = wanted[t].queries, wanted[t].missed \subseteq wanted'[t].missed,
         wanted'[t].queries # Queries \/ wanted'[t].pc = "placing" =>
           \A l \in PaperLegs : leg'[l].st \in {"pending", "open"} =>
             leg'[l].st = leg[l].st \/ l \in wanted'[t].missed
  PROVE  /\ Cardinality(CountedLegs(t)') <= wanted'[t].rows
         /\ wanted'[t].pc = "placing" =>
              wanted'[t].queries = {} /\ wanted'[t].rows + Cardinality(t) <= PaperCap
<1>1. /\ Judging(t) /\ Cardinality(CountedLegs(t)) <= wanted[t].rows /\ wanted[t].rows \in Nat
      /\ wanted[t].queries \in SUBSET Queries
      /\ wanted[t].pc = "placing" =>
           wanted[t].queries = {} /\ wanted[t].rows + Cardinality(t) <= PaperCap
  BY DEF TicketsInv, CountsTrue, TicketsTyped, Judging, AskRows
<1>2. /\ CountedLegs(t)' \in SUBSET PaperLegs
      /\ \A l \in CountedLegs(t)' : leg'[l].st \in {"pending", "open"} /\ l \notin wanted'[t].missed
                                /\ leg'[l].st \notin wanted'[t].queries
  BY DEF AliveLegs, LegsIn, CountedLegs
<1>3. CASE wanted'[t].queries = Queries /\ wanted'[t].pc # "placing"
  <2>1. CountedLegs(t)' = {}
    BY <1>2, <1>3 DEF Queries
  <2> QED
    BY <1>1, <1>3, <2>1, FS_EmptySet
<1>4. CASE wanted'[t].queries # Queries \/ wanted'[t].pc = "placing"
  <2>1. CountedLegs(t)' \subseteq CountedLegs(t)
    BY <1>2, <1>4 DEF AliveLegs, LegsIn, CountedLegs
  <2>2. CountedLegs(t) \in SUBSET PaperLegs
    BY Alive
  <2>3. /\ Cardinality(CountedLegs(t)') <= Cardinality(CountedLegs(t))
        /\ Cardinality(CountedLegs(t)') \in Nat /\ Cardinality(CountedLegs(t)) \in Nat
    BY <1>2, <2>1, <2>2, Sizes
  <2> QED
    BY <1>1, <2>3
<1> QED
  BY <1>3, <1>4

(* Nothing new is alive, and what the placed tickets missed they missed.   *)
LEMMA CapKept ==
  ASSUME TicketsInv, AliveLegs' \subseteq AliveLegs,
         \A t \in Placed : t \in Placed' /\ wanted'[t].missed = wanted[t].missed
  PROVE  CapHeld'
<1> DEFINE old == AliveLegs \ UNION {wanted[t].missed : t \in Placed}
           new == AliveLegs' \ UNION {wanted'[t].missed : t \in Placed'}
<1>1. new \subseteq old /\ old \in SUBSET PaperLegs
  BY Alive
<1>2. Cardinality(new) <= Cardinality(old) /\ Cardinality(new) \in Nat /\ Cardinality(old) \in Nat
  BY <1>1, Sizes
<1>3. Cardinality(old) <= PaperCap
  BY DEF TicketsInv, CapHeld
<1>4. Cardinality(new) <= PaperCap
  BY <1>2, <1>3, TicketConstants
<1> QED
  BY <1>4 DEF CapHeld

-----------------------------------------------------------------------------
(* The rows of the requests after one changed, or after some missed legs.  *)
LEMMA OneAskMoves ==
  ASSUME TicketsTyped, NEW t \in PaperAsks, NEW W, NEW row \in AskRows(W),
         wanted' = [wanted EXCEPT ![t] = row]
  PROVE  /\ \E V : wanted' \in [PaperAsks -> AskRows(V)]
         /\ wanted'[t] = row /\ \A u \in PaperAsks : u # t => wanted'[u] = wanted[u]
<1>1. PICK X : wanted \in [PaperAsks -> AskRows(X)]
  BY DEF TicketsTyped
<1>2. \A u \in PaperAsks : wanted[u] \in AskRows(X)
  BY <1>1
<1>3. AskRows(X) \subseteq AskRows(X \cup W) /\ row \in AskRows(X \cup W)
  BY DEF AskRows
<1>4. wanted' \in [PaperAsks -> AskRows(X \cup W)]
  BY <1>1, <1>2, <1>3
<1> QED
  BY <1>1, <1>4

LEMMA AskGoesOn ==
  ASSUME TicketsInv, NEW t \in PaperAsks, NEW W, NEW row \in AskRows(W),
         wanted' = [wanted EXCEPT ![t] = row], UNCHANGED <<leg, pass, resizes>>,
         row.pc \in {"checking", "placing"} =>
           /\ Cardinality({l \in AliveLegs \ row.missed : leg[l].st \notin row.queries}) <= row.rows
           /\ row.pc = "placing" => row.queries = {} /\ row.rows + Cardinality(t) <= PaperCap,
         t \in Placed <=> row.pc \in {"estimating", "estimated", "done"},
         t \in Placed => row.missed = wanted[t].missed
  PROVE  TicketsInv'
<1>1. /\ \E V : wanted' \in [PaperAsks -> AskRows(V)]
      /\ wanted'[t] = row /\ \A u \in PaperAsks : u # t => wanted'[u] = wanted[u]
  BY OneAskMoves DEF TicketsInv
<1>2. leg' = leg /\ pass' = pass /\ AliveLegs' = AliveLegs
  BY DEF AliveLegs, LegsIn
<1>3. TicketsTyped'
  BY <1>1, <1>2 DEF TicketsInv, TicketsTyped
<1>4. CountsTrue'
  <2> SUFFICES ASSUME NEW u \in PaperAsks, Judging(u)'
               PROVE  /\ Cardinality(CountedLegs(u)') <= wanted'[u].rows
                      /\ wanted'[u].pc = "placing" =>
                           wanted'[u].queries = {} /\ wanted'[u].rows + Cardinality(u) <= PaperCap
    BY DEF CountsTrue
  <2>1. CASE u = t
    <3>1. CountedLegs(t)' = {l \in AliveLegs \ row.missed : leg[l].st \notin row.queries}
      BY <1>1, <1>2 DEF CountedLegs
    <3> QED
      BY <2>1, <3>1, <1>1 DEF Judging
  <2>2. CASE u # t
    BY <2>2, <1>1, <1>2, CountsKept
  <2> QED
    BY <2>1, <2>2
<1>5. Placed' = Placed
  BY <1>1 DEF Placed
<1>6. CapHeld'
  BY <1>1, <1>2, <1>5, CapKept
<1>7. MarginsTrue'
  BY <1>2, <1>5 DEF TicketsInv, MarginsTrue, Unplaced, Bare, PricedTrue, OneMarginPerTicket, LegsIn
<1> QED
  BY <1>3, <1>4, <1>6, <1>7 DEF TicketsInv

LEMMA AskKeeps ==
  ASSUME TicketsInv, NEW t \in PaperAsks,
         \/ \E size \in LegSizes : AskTicket(t, size)
         \/ \E query \in Queries : CountRows(t, query)
         \/ JudgeCapacity(t) \/ EstimateOrders(t)
  PROVE  TicketsInv'
<1>1. PICK W : wanted \in [PaperAsks -> AskRows(W)]
  BY DEF TicketsInv, TicketsTyped
<1>2. wanted[t] \in AskRows(W)
  BY <1>1
<1>3. NotAsked \in AskRows({0}) /\ NotAsked.pc = "idle" /\ NotAsked.missed = {}
  BY DEF NotAsked, AskRows, AskPC
<1>4. ASSUME NEW size \in LegSizes, AskTicket(t, size) PROVE TicketsInv'
  <2> DEFINE row == [NotAsked EXCEPT !.pc = "checking", !.size = size, !.queries = {"open", "pending"}]
  <2>1. row \in AskRows({0}) /\ row.pc = "checking" /\ row.queries = Queries /\ row.rows = 0
    BY TicketConstants DEF NotAsked, AskRows, AskPC, Queries
  <2>2. wanted' = [wanted EXCEPT ![t] = row] /\ UNCHANGED <<leg, pass, resizes>> /\ t \notin Placed
    BY <1>4 DEF AskTicket, ticketRows, Placed
  <2> HIDE DEF row
  <2>3. {l \in AliveLegs \ row.missed : leg[l].st \notin row.queries} = {}
    BY <2>1, Alive DEF Queries
  <2>4. Cardinality({l \in AliveLegs \ row.missed : leg[l].st \notin row.queries}) <= row.rows
    <3> DEFINE seen == {l \in AliveLegs \ row.missed : leg[l].st \notin row.queries}
    <3>1. seen = {}
      BY <2>3
    <3> HIDE DEF seen
    <3>2. Cardinality(seen) <= row.rows
      BY <2>1, <3>1, FS_EmptySet
    <3> QED
      BY <3>2 DEF seen
  <2> QED
    BY <2>1, <2>2, <2>4, AskGoesOn
<1>5. ASSUME NEW q \in Queries, CountRows(t, q) PROVE TicketsInv'
  <2> DEFINE n == wanted[t].rows + Cardinality(Countable(q))
             w == wanted[t].worth + Worth(Countable(q))
             left == wanted[t].queries \ {q}
             row == [wanted[t] EXCEPT !.queries = left, !.rows = n, !.worth = w]
  <2>1. /\ wanted[t].pc = "checking" /\ q \in wanted[t].queries
        /\ wanted' = [wanted EXCEPT ![t] = row] /\ UNCHANGED <<leg, pass, resizes>>
    BY <1>1, <1>2, <1>5 DEF CountRows, ticketRows, AskRows
  <2>2. n \in Nat /\ left \in SUBSET Queries /\ n = wanted[t].rows + Cardinality(LegsIn(q))
    <3>1. LegsIn(q) \in SUBSET PaperLegs /\ Countable(q) = LegsIn(q) /\ wanted[t].rows \in Nat
          /\ wanted[t].queries \in SUBSET Queries
      BY <1>2 DEF LegsIn, Countable, AskRows
    <3> QED
      BY <3>1, Sizes
  <2> HIDE DEF n, w, left
  <2>3. row \in AskRows(W \cup {w}) /\ row.queries = left /\ row.rows = n
        /\ row.pc = wanted[t].pc /\ row.missed = wanted[t].missed
    BY <1>2, <2>2 DEF AskRows
  <2> HIDE DEF row
  <2>4. Cardinality({l \in AliveLegs \ row.missed : leg[l].st \notin row.queries}) <= row.rows
    <3> DEFINE new == {l \in AliveLegs \ row.missed : leg[l].st \notin row.queries}
    <3>1. /\ Cardinality(CountedLegs(t)) <= wanted[t].rows /\ CountedLegs(t) \in SUBSET PaperLegs
          /\ LegsIn(q) \in SUBSET PaperLegs /\ wanted[t].rows \in Nat
      BY <1>2, <2>1, Alive DEF TicketsInv, CountsTrue, Judging, LegsIn, AskRows
    <3>2. new \subseteq CountedLegs(t) \cup LegsIn(q)
      BY <2>3, Alive DEF CountedLegs, LegsIn, left
    <3>3. Cardinality(CountedLegs(t) \cup LegsIn(q)) <= Cardinality(CountedLegs(t)) + Cardinality(LegsIn(q))
      BY <3>1, Sizes
    <3>4. Cardinality(new) <= Cardinality(CountedLegs(t) \cup LegsIn(q))
      <4>1. CountedLegs(t) \cup LegsIn(q) \in SUBSET PaperLegs
        BY <3>1
      <4> QED
        BY <4>1, <3>2, Sizes
    <3>5. {Cardinality(new), Cardinality(CountedLegs(t)), Cardinality(LegsIn(q)),
           Cardinality(CountedLegs(t) \cup LegsIn(q))} \subseteq Nat
      BY <3>1, <3>2, Sizes
    <3> HIDE DEF new
    <3>6. Cardinality(new) <= n
      BY <2>2, <3>1, <3>3, <3>4, <3>5
    <3> QED
      BY <2>3, <3>6 DEF new
  <2>5. t \notin Placed /\ row.pc = "checking"
    BY <2>1, <2>3 DEF Placed
  <2> QED
    BY <2>1, <2>3, <2>4, <2>5, AskGoesOn
<1>6. CASE JudgeCapacity(t)
  <2>1. /\ wanted[t].pc = "checking" /\ wanted[t].queries = {} /\ t \notin Placed
        /\ UNCHANGED <<leg, pass, resizes>>
    BY <1>6 DEF JudgeCapacity, ticketRows, Placed
  <2>2. CASE FitsCaps(t)
    <3> DEFINE row == [wanted[t] EXCEPT !.pc = "placing"]
    <3>1. wanted' = [wanted EXCEPT ![t] = row]
      BY <1>1, <1>6, <2>2 DEF JudgeCapacity
    <3>2. row \in AskRows(W) /\ row.pc = "placing" /\ row.queries = {} /\ row.rows = wanted[t].rows
          /\ row.missed = wanted[t].missed
      BY <1>2, <2>1 DEF AskRows, AskPC
    <3> HIDE DEF row
    <3>3. {l \in AliveLegs \ row.missed : leg[l].st \notin row.queries} = CountedLegs(t)
      BY <2>1, <3>2 DEF CountedLegs
    <3>4. Cardinality(CountedLegs(t)) <= wanted[t].rows
      BY <2>1 DEF TicketsInv, CountsTrue, Judging
    <3>5. row.rows + Cardinality(t) <= PaperCap
      BY <2>2, <3>2 DEF FitsCaps
    <3> QED
      BY <2>1, <3>1, <3>2, <3>3, <3>4, <3>5, AskGoesOn
  <2>3. CASE ~FitsCaps(t)
    <3>1. wanted' = [wanted EXCEPT ![t] = NotAsked]
      BY <1>1, <1>6, <2>3 DEF JudgeCapacity
    <3> QED
      BY <1>3, <2>1, <3>1, AskGoesOn
  <2> QED
    BY <2>2, <2>3
<1>7. CASE EstimateOrders(t)
  <2> DEFINE waiting == t \cap LegsIn("pending")
             quit == [wanted[t] EXCEPT !.pc = "done"]
             priced == [wanted[t] EXCEPT !.pc = "estimated", !.of = waiting]
  <2>1. /\ wanted[t].pc = "estimating" /\ t \in Placed /\ UNCHANGED <<leg, pass, resizes>>
    BY <1>7 DEF EstimateOrders, ticketRows, Placed
  <2>2. /\ quit \in AskRows(W) /\ quit.pc = "done" /\ quit.missed = wanted[t].missed
        /\ priced \in AskRows(W) /\ priced.pc = "estimated" /\ priced.missed = wanted[t].missed
    <3>1. waiting \in SUBSET PaperLegs
      BY DEF LegsIn
    <3> HIDE DEF waiting
    <3>2. {"done", "estimated"} \subseteq AskPC
      BY DEF AskPC
    <3> QED
      BY <1>2, <3>1, <3>2 DEF AskRows
  <2>3. PICK row \in {quit, priced} : wanted' = [wanted EXCEPT ![t] = row]
    BY <1>1, <1>7 DEF EstimateOrders
  <2> HIDE DEF quit, priced
  <2> QED
    BY <2>1, <2>2, <2>3, AskGoesOn
<1> QED
  BY <1>4, <1>5, <1>6, <1>7

-----------------------------------------------------------------------------
(* A leg fills, is cancelled or closes, or its figures change.             *)
AskStays(t) ==
  /\ wanted'[t].pc = wanted[t].pc \/ (t \in Placed /\ t \in Placed')
  /\ wanted'[t].rows = wanted[t].rows /\ wanted'[t].queries = wanted[t].queries
  /\ wanted[t].missed \subseteq wanted'[t].missed
  /\ t \in Placed => wanted'[t].missed = wanted[t].missed

LegGoesOn(l) ==
  /\ leg'[l].margin = leg[l].margin
  /\ \/ leg'[l].st = leg[l].st
     \/ leg[l].st = "pending" /\ leg'[l].st = "cancelled"
     \/ leg[l].st = "open" /\ leg'[l].st = "closed"
     \/ /\ leg[l].st = "pending" /\ leg'[l].st = "open"
        /\ \A t \in PaperAsks : MidCheck(t) => l \in wanted'[t].missed

LEMMA LegsMove ==
  ASSUME TicketsInv, TicketsTyped', pass'.of = pass.of, pass'.pc = "priced" => pass.pc = "priced",
         \A t \in PaperAsks : AskStays(t), \A l \in PaperLegs : LegGoesOn(l)
  PROVE  TicketsInv'
<1> USE DEF AskStays, LegGoesOn
<1>1. Placed' = Placed
  BY DEF Placed
<1>2. CountsTrue'
  <2> SUFFICES ASSUME NEW t \in PaperAsks, Judging(t)'
               PROVE  /\ Cardinality(CountedLegs(t)') <= wanted'[t].rows
                      /\ wanted'[t].pc = "placing" =>
                           wanted'[t].queries = {} /\ wanted'[t].rows + Cardinality(t) <= PaperCap
    BY DEF CountsTrue
  <2>1. wanted'[t].pc = wanted[t].pc
    BY DEF Judging, Placed
  <2>2. wanted'[t].queries # Queries \/ wanted'[t].pc = "placing" => MidCheck(t)
    BY <2>1 DEF MidCheck, Judging, Queries
  <2>3. wanted'[t].queries # Queries \/ wanted'[t].pc = "placing" =>
          \A l \in PaperLegs : leg'[l].st \in {"pending", "open"} =>
            leg'[l].st = leg[l].st \/ l \in wanted'[t].missed
    BY <2>2
  <2> QED
    BY <2>1, <2>3, CountsKept
<1>3. AliveLegs' \subseteq AliveLegs
  BY DEF AliveLegs, LegsIn
<1>6. \A t \in Placed : t \in Placed' /\ wanted'[t].missed = wanted[t].missed
  BY <1>1 DEF Placed
<1>4. CapHeld'
  BY <1>3, <1>6, CapKept
<1>5. MarginsTrue'
  <2>1. \A t \in PaperAsks : t \subseteq PaperLegs
    BY DEF PaperLegs
  <2>2. Unplaced /\ Bare /\ PricedTrue /\ OneMarginPerTicket /\ pass.of \subseteq PaperLegs
    BY DEF TicketsInv, MarginsTrue, TicketsTyped, PassRows
  <2>3. Unplaced'
    BY <1>1, <2>1, <2>2 DEF Unplaced
  <2>4. Bare'
    BY <2>2 DEF Bare
  <2>5. PricedTrue'
    <3>1. \A l \in pass.of : leg'[l].st \in {"open", "closed"}
      BY <2>2 DEF PricedTrue
    <3>2. ASSUME pass'.pc = "priced"
          PROVE  \E t \in PaperAsks :
                   /\ pass.of \subseteq t
                   /\ \A l \in t : leg'[l].st = "open" /\ leg'[l].margin # {} => l \in pass.of
      <4>1. PICK t \in PaperAsks :
              /\ pass.of \subseteq t
              /\ \A l \in t : leg[l].st = "open" /\ leg[l].margin # {} => l \in pass.of
        BY <2>2, <3>2 DEF PricedTrue
      <4>2. \A l \in t : leg'[l].st = "open" /\ leg'[l].margin # {} => leg[l].st = "open" /\ leg[l].margin # {}
        BY <2>1, <2>2 DEF Bare
      <4> QED
        BY <4>1, <4>2
    <3> QED
      BY <3>1, <3>2 DEF PricedTrue
  <2>6. OneMarginPerTicket'
    <3>1. \A t \in PaperAsks : \A a \in t \cap LegsIn("open")' : leg'[a].margin # {} => a \in LegsIn("open")
      BY <2>2 DEF Bare, LegsIn
    <3>2. \A t \in PaperAsks : \A a \in t \cap LegsIn("open")' : leg'[a].margin = leg[a].margin
      BY DEF LegsIn
    <3> QED
      BY <2>2, <3>1, <3>2 DEF OneMarginPerTicket
  <2> QED
    BY <2>3, <2>4, <2>5, <2>6 DEF MarginsTrue
<1> QED
  BY <1>2, <1>4, <1>5 DEF TicketsInv

LEMMA MissedRows ==
  ASSUME TicketsInv, NEW legs \in SUBSET PaperLegs
  PROVE  /\ \E V : Missed(legs) \in [PaperAsks -> AskRows(V)]
         /\ \A t \in PaperAsks :
              /\ Missed(legs)[t].pc = wanted[t].pc /\ Missed(legs)[t].rows = wanted[t].rows
              /\ Missed(legs)[t].queries = wanted[t].queries
              /\ wanted[t].missed \subseteq Missed(legs)[t].missed
              /\ MidCheck(t) => legs \subseteq Missed(legs)[t].missed
              /\ t \in Placed => Missed(legs)[t].missed = wanted[t].missed
<1>1. PICK W : wanted \in [PaperAsks -> AskRows(W)]
  BY DEF TicketsInv, TicketsTyped
<1>2. ASSUME NEW t \in PaperAsks
      PROVE  /\ Missed(legs)[t] \in AskRows(W)
             /\ Missed(legs)[t].pc = wanted[t].pc /\ Missed(legs)[t].rows = wanted[t].rows
             /\ Missed(legs)[t].queries = wanted[t].queries
             /\ wanted[t].missed \subseteq Missed(legs)[t].missed
             /\ MidCheck(t) => legs \subseteq Missed(legs)[t].missed
             /\ t \in Placed => Missed(legs)[t].missed = wanted[t].missed
  <2>1. wanted[t] \in AskRows(W)
    BY <1>1
  <2>2. CASE MidCheck(t)
    <3> DEFINE m == wanted[t].missed \cup legs
               row == [wanted[t] EXCEPT !.missed = m]
    <3>1. Missed(legs)[t] = row /\ t \notin Placed
      BY <2>2 DEF Missed, MidCheck, Placed
    <3>2. m \in SUBSET PaperLegs
      BY <2>1 DEF AskRows
    <3> HIDE DEF m
    <3>3. /\ row \in AskRows(W) /\ row.pc = wanted[t].pc /\ row.rows = wanted[t].rows
          /\ row.queries = wanted[t].queries /\ row.missed = m
      BY <2>1, <3>2 DEF AskRows
    <3> HIDE DEF row
    <3> QED
      BY <3>1, <3>3 DEF m
  <2>3. CASE ~MidCheck(t)
    <3>1. Missed(legs)[t] = wanted[t]
      BY <2>3 DEF Missed
    <3> QED
      BY <2>1, <2>3, <3>1
  <2> QED
    BY <2>2, <2>3
<1>3. Missed(legs) \in [PaperAsks -> AskRows(W)]
  BY <1>2 DEF Missed
<1> QED
  BY <1>2, <1>3

LEMMA RecordKeeps == ASSUME TicketsInv, NEW t \in PaperAsks, RecordEstimate(t) PROVE TicketsInv'
<1>1. PICK W : wanted \in [PaperAsks -> AskRows(W)]
  BY DEF TicketsInv, TicketsTyped
<1> DEFINE row == [wanted[t] EXCEPT !.pc = "done", !.of = {}]
<1>2. wanted[t] \in AskRows(W) /\ wanted[t].pc = "estimated" /\ wanted' = [wanted EXCEPT ![t] = row]
      /\ pass' = pass
  BY <1>1 DEF RecordEstimate
<1>3. /\ row \in AskRows(W) /\ row.pc = "done" /\ row.rows = wanted[t].rows
      /\ row.queries = wanted[t].queries /\ row.missed = wanted[t].missed
  BY <1>2 DEF AskRows, AskPC
<1> HIDE DEF row
<1>4. /\ \E V : wanted' \in [PaperAsks -> AskRows(V)]
      /\ wanted'[t] = row /\ \A u \in PaperAsks : u # t => wanted'[u] = wanted[u]
  BY <1>2, <1>3, OneAskMoves DEF TicketsInv
<1>5. /\ leg' \in [PaperLegs -> LegRows]
      /\ \A l \in PaperLegs : leg'[l].margin = leg[l].margin /\ leg'[l].st = leg[l].st
  <2>1. leg \in [PaperLegs -> LegRows] /\ BasketMargin(wanted[t].of) \in SUBSET PaperLegs
    BY <1>2 DEF TicketsInv, TicketsTyped, BasketMargin, Priceable, AskRows
  <2> DEFINE b == BasketMargin(wanted[t].of)
             legs == wanted[t].of
  <2>2. CASE leg' = [l \in PaperLegs |-> IF l \in legs THEN [leg[l] EXCEPT !.estimate = b] ELSE leg[l]]
    <3> HIDE DEF b, legs
    <3>1. b \in SUBSET PaperLegs
      BY <2>1 DEF b
    <3>2. \A l \in PaperLegs : leg'[l] = leg[l] \/ leg'[l] = [leg[l] EXCEPT !.estimate = b]
      BY <2>2
    <3>3. \A l \in PaperLegs : leg'[l] \in LegRows /\ leg'[l].margin = leg[l].margin /\ leg'[l].st = leg[l].st
      BY <2>1, <3>1, <3>2 DEF LegRows
    <3> QED
      BY <2>2, <3>3
  <2> QED
    BY <2>1, <2>2 DEF RecordEstimate
<1>6. TicketsTyped'
  BY <1>2, <1>4, <1>5 DEF TicketsTyped, TicketsInv
<1>7. ASSUME NEW u \in PaperAsks PROVE AskStays(u)
  <2>1. CASE u = t
    <3>1. t \in Placed /\ t \in Placed'
      BY <1>2, <1>3, <1>4 DEF Placed
    <3> QED
      BY <2>1, <3>1, <1>3, <1>4 DEF AskStays
  <2>2. CASE u # t
    <3>1. wanted'[u] = wanted[u]
      BY <2>2, <1>4
    <3> QED
      BY <3>1 DEF AskStays, Placed
  <2> QED
    BY <2>1, <2>2
<1>8. \A l \in PaperLegs : LegGoesOn(l)
  BY <1>5 DEF LegGoesOn
<1> QED
  BY <1>2, <1>6, <1>7, <1>8, LegsMove

LEMMA LegKeeps ==
  ASSUME TicketsInv, NEW l \in PaperLegs,
         Resize(l) \/ CancelOrder(l) \/ CloseRow(l) \/ FilledByApi(l) \/ FilledByWorker(l)
  PROVE  TicketsInv'
<1>1. leg \in [PaperLegs -> LegRows] /\ pass \in PassRows /\ leg[l] \in LegRows
  BY DEF TicketsInv, TicketsTyped
<1>2. CASE Resize(l) \/ CancelOrder(l) \/ CloseRow(l)
  <2>1. wanted' = wanted /\ pass' = pass
    BY <1>2 DEF Resize, CancelOrder, CloseRow
  <2>2. PICK row \in LegRows :
          /\ leg' = [leg EXCEPT ![l] = row] /\ row.margin = leg[l].margin
          /\ \/ row.st = leg[l].st
             \/ leg[l].st = "pending" /\ row.st = "cancelled"
             \/ leg[l].st = "open" /\ row.st = "closed"
    <3>1. CASE Resize(l)
      <4> DEFINE row == [leg[l] EXCEPT !.size = @ + 1]
      <4>1. row \in LegRows /\ row.margin = leg[l].margin /\ row.st = leg[l].st
        BY <1>1 DEF LegRows
      <4> QED
        BY <1>1, <3>1, <4>1 DEF Resize
    <3>2. CASE CancelOrder(l)
      <4> DEFINE row == [leg[l] EXCEPT !.st = "cancelled"]
      <4>1. row \in LegRows /\ row.margin = leg[l].margin /\ row.st = "cancelled"
        BY <1>1 DEF LegRows, LegStates
      <4> QED
        BY <1>1, <3>2, <4>1 DEF CancelOrder
    <3>3. CASE CloseRow(l)
      <4> DEFINE row == [leg[l] EXCEPT !.st = "closed"]
      <4>1. row \in LegRows /\ row.margin = leg[l].margin /\ row.st = "closed"
        BY <1>1 DEF LegRows, LegStates
      <4> QED
        BY <1>1, <3>3, <4>1 DEF CloseRow
    <3> QED
      BY <1>2, <3>1, <3>2, <3>3
  <2>3. leg' \in [PaperLegs -> LegRows] /\ leg'[l] = row /\ \A k \in PaperLegs : k # l => leg'[k] = leg[k]
    BY <1>1, <2>2
  <2>4. TicketsTyped'
    BY <2>1, <2>3 DEF TicketsInv, TicketsTyped
  <2>6. \A k \in PaperLegs : LegGoesOn(k)
    BY <2>2, <2>3 DEF LegGoesOn
  <2>7. \A t \in PaperAsks : AskStays(t)
    BY <2>1 DEF AskStays
  <2> QED
    BY <2>1, <2>4, <2>6, <2>7, LegsMove
<1>3. CASE FilledByApi(l) \/ FilledByWorker(l)
  <2> DEFINE row == [leg[l] EXCEPT !.st = "open"]
  <2>1. leg[l].st = "pending" /\ leg' = [leg EXCEPT ![l] = row] /\ wanted' = Missed({l})
    BY <1>1, <1>3 DEF FilledByApi, FilledByWorker, Filled
  <2>2. row \in LegRows /\ row.margin = leg[l].margin /\ row.st = "open"
    BY <1>1 DEF LegRows, LegStates
  <2> HIDE DEF row
  <2>3. leg' \in [PaperLegs -> LegRows] /\ leg'[l] = row /\ \A k \in PaperLegs : k # l => leg'[k] = leg[k]
    BY <1>1, <2>1, <2>2
  <2>4. pass' \in PassRows /\ pass'.of = pass.of /\ (pass'.pc = "priced" => pass.pc = "priced")
    <3>1. CASE pass' = pass
      BY <1>1, <3>1
    <3>2. CASE pass' = [pass EXCEPT !.pc = "filling", !.filled = @ \cup {l}]
      <4>1. pass.filled \cup {l} \in SUBSET PaperLegs /\ "filling" \in PassPC
        BY <1>1 DEF PassRows, PassPC
      <4> QED
        BY <1>1, <3>2, <4>1 DEF PassRows
    <3> QED
      BY <1>3, <3>1, <3>2 DEF FilledByApi, FilledByWorker
  <2>5. /\ \E V : wanted' \in [PaperAsks -> AskRows(V)]
        /\ \A t \in PaperAsks :
              /\ wanted'[t].pc = wanted[t].pc /\ wanted'[t].rows = wanted[t].rows
              /\ wanted'[t].queries = wanted[t].queries
              /\ wanted[t].missed \subseteq wanted'[t].missed
              /\ MidCheck(t) => l \in wanted'[t].missed
              /\ t \in Placed => wanted'[t].missed = wanted[t].missed
    BY <2>1, MissedRows
  <2>6. TicketsTyped'
    BY <2>3, <2>4, <2>5 DEF TicketsTyped
  <2>7. \A k \in PaperLegs : LegGoesOn(k)
    BY <2>1, <2>2, <2>3, <2>5 DEF LegGoesOn
  <2>8. \A t \in PaperAsks : AskStays(t)
    BY <2>5 DEF AskStays
  <2> QED
    BY <2>4, <2>6, <2>7, <2>8, LegsMove
<1> QED
  BY <1>2, <1>3

(* A ticket is placed: what it counted and its own legs fit under the cap. *)
LEMMA CreateKeeps == ASSUME TicketsInv, NEW t \in PaperAsks, CreateOrders(t) PROVE TicketsInv'
<1>1. PICK W : wanted \in [PaperAsks -> AskRows(W)]
  BY DEF TicketsInv, TicketsTyped
<1> DEFINE row == [wanted[t] EXCEPT !.pc = "estimating"]
           born == [NoLeg EXCEPT !.st = "pending", !.size = wanted[t].size]
<1>2. /\ wanted[t] \in AskRows(W) /\ wanted[t].pc = "placing" /\ pass' = pass
      /\ wanted' = [Missed(t) EXCEPT ![t] = row]
      /\ leg' = [l \in PaperLegs |-> IF l \in t THEN born ELSE leg[l]]
  BY <1>1 DEF CreateOrders
<1>3. row \in AskRows(W) /\ row.pc = "estimating" /\ row.missed = wanted[t].missed
  BY <1>2 DEF AskRows, AskPC
<1>4. born \in LegRows /\ born.st = "pending" /\ born.margin = {}
  BY <1>2 DEF NoLeg, LegRows, LegStates, AskRows
<1> HIDE DEF row, born
<1>5. t \in SUBSET PaperLegs /\ t \notin Placed /\ Judging(t)
  BY <1>2 DEF PaperLegs, Placed, Judging
<1>6. PICK V : Missed(t) \in [PaperAsks -> AskRows(V)]
  BY <1>5, MissedRows
<1>7. wanted' \in [PaperAsks -> AskRows(V \cup W)]
  <2>1. AskRows(V) \subseteq AskRows(V \cup W) /\ row \in AskRows(V \cup W)
    BY <1>3 DEF AskRows
  <2> QED
    BY <1>2, <1>6, <2>1
<1>8. wanted'[t] = row /\ \A u \in PaperAsks : u # t => wanted'[u] = Missed(t)[u]
  BY <1>2, <1>6
<1>9. ASSUME NEW u \in PaperAsks, u # t
      PROVE  /\ wanted'[u].pc = wanted[u].pc /\ wanted'[u].rows = wanted[u].rows
             /\ wanted'[u].queries = wanted[u].queries
             /\ wanted[u].missed \subseteq wanted'[u].missed
             /\ MidCheck(u) => t \subseteq wanted'[u].missed
             /\ u \in Placed => wanted'[u].missed = wanted[u].missed
  <2>1. wanted'[u] = Missed(t)[u]
    BY <1>8, <1>9
  <2> QED
    BY <1>5, <2>1, MissedRows
<1>10. /\ leg' \in [PaperLegs -> LegRows] /\ \A l \in t : leg'[l] = born
       /\ \A l \in PaperLegs : l \notin t => leg'[l] = leg[l]
  BY <1>2, <1>4, <1>5 DEF TicketsInv, TicketsTyped
<1>11. TicketsTyped'
  BY <1>2, <1>7, <1>10 DEF TicketsInv, TicketsTyped
<1>12. Placed' = Placed \cup {t}
  BY <1>3, <1>8, <1>9 DEF Placed
<1>13. CountsTrue'
  <2> SUFFICES ASSUME NEW u \in PaperAsks, Judging(u)'
               PROVE  /\ Cardinality(CountedLegs(u)') <= wanted'[u].rows
                      /\ wanted'[u].pc = "placing" =>
                           wanted'[u].queries = {} /\ wanted'[u].rows + Cardinality(u) <= PaperCap
    BY DEF CountsTrue
  <2>1. u # t
    BY <1>3, <1>8 DEF Judging
  <2>2. wanted'[u].queries # Queries \/ wanted'[u].pc = "placing" => MidCheck(u)
    BY <1>9, <2>1 DEF MidCheck, Judging, Queries
  <2>3. wanted'[u].queries # Queries \/ wanted'[u].pc = "placing" =>
          \A l \in PaperLegs : leg'[l].st \in {"pending", "open"} =>
            leg'[l].st = leg[l].st \/ l \in wanted'[u].missed
    BY <1>9, <1>10, <2>1, <2>2
  <2> QED
    BY <1>9, <2>1, <2>3, CountsKept
<1>14. CapHeld'
  <2> DEFINE new == AliveLegs' \ UNION {wanted'[u].missed : u \in Placed'}
  <2>1. /\ Cardinality(CountedLegs(t)) <= wanted[t].rows /\ wanted[t].rows + Cardinality(t) <= PaperCap
        /\ wanted[t].queries = {} /\ wanted[t].rows \in Nat
    BY <1>2, <1>5 DEF TicketsInv, CountsTrue, AskRows
  <2>2. CountedLegs(t) = AliveLegs \ wanted[t].missed /\ CountedLegs(t) \in SUBSET PaperLegs
    BY <2>1, Alive DEF CountedLegs
  <2>3. AliveLegs' \subseteq AliveLegs \cup t
    BY <1>10 DEF AliveLegs, LegsIn
  <2>4. new \subseteq CountedLegs(t) \cup t
    BY <1>3, <1>8, <1>12, <2>2, <2>3
  <2> HIDE DEF new
  <2>5. Cardinality(CountedLegs(t) \cup t) <= Cardinality(CountedLegs(t)) + Cardinality(t)
    BY <1>5, <2>2, Sizes
  <2>6. CountedLegs(t) \cup t \in SUBSET PaperLegs
    BY <1>5, <2>2
  <2>7. Cardinality(new) <= Cardinality(CountedLegs(t) \cup t)
    BY <2>4, <2>6, Sizes
  <2>8. {Cardinality(new), Cardinality(CountedLegs(t)), Cardinality(t), Cardinality(CountedLegs(t) \cup t)} \subseteq Nat
    BY <1>5, <2>2, <2>4, <2>6, Sizes
  <2>9. Cardinality(new) <= PaperCap
    BY <2>1, <2>5, <2>7, <2>8, TicketConstants
  <2> QED
    BY <2>9 DEF CapHeld, new
<1>15. MarginsTrue'
  <2>1. /\ Unplaced /\ Bare /\ PricedTrue /\ OneMarginPerTicket /\ pass.of \subseteq PaperLegs
        /\ \A u \in PaperAsks : u \subseteq PaperLegs
    BY DEF TicketsInv, MarginsTrue, TicketsTyped, PassRows, PaperLegs
  <2>2. \A l \in t : leg[l].st = "none" /\ l \notin pass.of
    BY <1>5, <2>1 DEF Unplaced, PricedTrue
  <2>3. Unplaced'
    <3>1. \A u \in PaperAsks : u # t => t \cap u = {}
      BY TicketConstants
    <3> QED
      BY <1>10, <1>12, <2>1, <3>1 DEF Unplaced
  <2>4. Bare'
    BY <1>4, <1>10, <2>1 DEF Bare
  <2>5. \A l \in PaperLegs : leg'[l].st = "open" => l \notin t /\ leg'[l] = leg[l]
    BY <1>4, <1>10
  <2>6. PricedTrue'
    BY <1>2, <1>10, <2>1, <2>2, <2>5 DEF PricedTrue
  <2>7. OneMarginPerTicket'
    BY <2>1, <2>5 DEF OneMarginPerTicket, LegsIn
  <2> QED
    BY <2>3, <2>4, <2>6, <2>7 DEF MarginsTrue
<1> QED
  BY <1>11, <1>13, <1>14, <1>15 DEF TicketsInv

-----------------------------------------------------------------------------
(* The worker goes on with its pass, and what it priced is all that shows  *)
(* a margin of that ticket.                                                *)
LEMMA PassMoves ==
  ASSUME TicketsInv, UNCHANGED <<leg, wanted>>, pass' \in PassRows, PricedTrue' PROVE TicketsInv'
<1>1. UNCHANGED <<leg, wanted>>
  OBVIOUS
<1>2. AliveLegs' = AliveLegs /\ Placed' = Placed /\ LegsIn("open")' = LegsIn("open")
  BY <1>1 DEF AliveLegs, LegsIn, Placed
<1>3. \A t : CountedLegs(t)' = CountedLegs(t)
  BY <1>1, <1>2 DEF CountedLegs
<1>4. TicketsTyped'
  BY <1>1 DEF TicketsInv, TicketsTyped
<1>5. CountsTrue' /\ CapHeld'
  BY <1>1, <1>2, <1>3 DEF TicketsInv, CountsTrue, CapHeld, Judging
<1>6. Unplaced' /\ Bare' /\ OneMarginPerTicket'
  BY <1>1, <1>2 DEF TicketsInv, MarginsTrue, Unplaced, Bare, OneMarginPerTicket
<1> QED
  BY <1>4, <1>5, <1>6 DEF TicketsInv, MarginsTrue

LEMMA PassKeeps ==
  ASSUME TicketsInv, FillsDone \/ MonitorLost \/ \E l \in PaperLegs : PriceGroup(l) PROVE TicketsInv'
<1>1. pass \in PassRows /\ PricedTrue
  BY DEF TicketsInv, TicketsTyped, MarginsTrue
<1>2. CASE FillsDone
  <2>1. pass' \in PassRows /\ pass'.of = pass.of /\ pass'.pc = "pricing"
    BY <1>1, <1>2 DEF FillsDone, PassRows, PassPC
  <2>2. UNCHANGED <<leg, wanted>>
    BY <1>2 DEF FillsDone, ticketRows
  <2>3. PricedTrue'
    BY <1>1, <2>1, <2>2 DEF PricedTrue
  <2> QED
    BY <2>1, <2>2, <2>3, PassMoves
<1>3. CASE MonitorLost
  <2>1. pass' \in PassRows /\ pass'.of = {} /\ pass'.pc = "idle"
    BY <1>3 DEF MonitorLost, NoMonitor, PassRows, PassPC
  <2>2. UNCHANGED <<leg, wanted>>
    BY <1>3 DEF MonitorLost, ticketRows
  <2>3. PricedTrue'
    BY <2>1 DEF PricedTrue
  <2> QED
    BY <2>1, <2>2, <2>3, PassMoves
<1>4. ASSUME NEW l \in PaperLegs, PriceGroup(l) PROVE TicketsInv'
  <2> DEFINE open == PricedTogether(l) \cap LegsIn("open")
             left == pass.filled \ PricedTogether(l)
  <2>1. UNCHANGED <<leg, wanted>>
    BY <1>4 DEF PriceGroup, ticketRows
  <2>2. PICK t \in PaperAsks : PricedTogether(l) = t
    <3>1. PICK t \in PaperAsks : l \in t
      BY DEF PaperLegs
    <3>2. \A u \in PaperAsks : l \in u => u = t
      BY <3>1, TicketConstants
    <3> QED
      BY <3>1, <3>2 DEF PricedTogether
  <2>3. /\ open \in SUBSET PaperLegs /\ left \in SUBSET PaperLegs
        /\ open \subseteq t /\ \A k \in t : leg[k].st = "open" => k \in open
        /\ \A k \in open : leg[k].st = "open"
    BY <1>1, <2>2 DEF LegsIn, PassRows, PaperLegs
  <2>4. pass' = Remaining(left) \/ pass' = [pc |-> "priced", filled |-> left, of |-> open]
    BY <1>4 DEF PriceGroup
  <2> HIDE DEF open, left
  <2>5. CASE pass' = Remaining(left)
    <3>1. pass' \in PassRows /\ pass'.of = {} /\ pass'.pc # "priced"
      BY <2>3, <2>5 DEF Remaining, PassRows, PassPC
    <3>2. PricedTrue'
      BY <3>1 DEF PricedTrue
    <3> QED
      BY <2>1, <3>1, <3>2, PassMoves
  <2>6. CASE pass' = [pc |-> "priced", filled |-> left, of |-> open]
    <3>1. pass' \in PassRows /\ pass'.of = open
      BY <2>3, <2>6 DEF PassRows, PassPC
    <3>2. PricedTrue'
      BY <2>1, <2>3, <3>1 DEF PricedTrue
    <3> QED
      BY <2>1, <3>1, <3>2, PassMoves
  <2> QED
    BY <2>4, <2>5, <2>6
<1> QED
  BY <1>2, <1>3, <1>4

LEMMA MarginKeeps == ASSUME TicketsInv, RecordMargin PROVE TicketsInv'
<1>1. /\ pass \in PassRows /\ leg \in [PaperLegs -> LegRows] /\ Unplaced /\ Bare /\ PricedTrue
      /\ OneMarginPerTicket /\ pass.of \subseteq PaperLegs
      /\ pass.pc = "priced" /\ pass' = Remaining(pass.filled) /\ wanted' = wanted
  BY DEF TicketsInv, TicketsTyped, MarginsTrue, PassRows, RecordMargin
<1>2. pass' \in PassRows /\ pass'.of = {} /\ pass'.pc # "priced"
  BY <1>1 DEF Remaining, PassRows, PassPC
<1>3. PricedTrue'
  BY <1>2 DEF PricedTrue
<1>4. CASE UNCHANGED leg
  BY <1>1, <1>2, <1>3, <1>4, PassMoves
<1> DEFINE b == BasketMargin(pass.of)
<1>5. CASE leg' = [l \in PaperLegs |-> IF l \in pass.of THEN [leg[l] EXCEPT !.margin = b] ELSE leg[l]]
  <2>1. b \in SUBSET PaperLegs
    BY <1>1 DEF BasketMargin, Priceable
  <2> HIDE DEF b
  <2>2. ASSUME NEW l \in PaperLegs
        PROVE  /\ leg'[l] \in LegRows /\ leg'[l].st = leg[l].st
               /\ leg'[l].margin = IF l \in pass.of THEN b ELSE leg[l].margin
    <3>1. leg[l] \in LegRows
      BY <1>1
    <3>2. CASE l \in pass.of
      <4>1. leg'[l] = [leg[l] EXCEPT !.margin = b]
        BY <1>5, <3>2
      <4> QED
        BY <2>1, <3>1, <3>2, <4>1 DEF LegRows
    <3>3. CASE l \notin pass.of
      BY <1>5, <3>1, <3>3
    <3> QED
      BY <3>2, <3>3
  <2>3. leg' \in [PaperLegs -> LegRows]
    BY <1>5, <2>2
  <2>4. TicketsTyped'
    BY <1>1, <1>2, <2>3 DEF TicketsInv, TicketsTyped
  <2>5. AliveLegs' = AliveLegs /\ Placed' = Placed /\ LegsIn("open")' = LegsIn("open")
    BY <1>1, <2>2 DEF AliveLegs, LegsIn, Placed
  <2>6. CountsTrue' /\ CapHeld'
    <3>1. \A t : CountedLegs(t)' = CountedLegs(t)
      BY <1>1, <2>2, <2>5, Alive DEF CountedLegs
    <3> QED
      BY <1>1, <2>5, <3>1 DEF TicketsInv, CountsTrue, CapHeld, Judging
  <2>7. Unplaced'
    <3>1. \A t \in PaperAsks : t \subseteq PaperLegs
      BY DEF PaperLegs
    <3> QED
      BY <1>1, <2>2, <2>5, <3>1 DEF Unplaced
  <2>8. Bare'
    BY <1>1, <2>2 DEF Bare, PricedTrue
  <2>9. OneMarginPerTicket'
    <3> SUFFICES ASSUME NEW t \in PaperAsks, NEW a \in t \cap LegsIn("open"), NEW c \in t \cap LegsIn("open"),
                        leg'[a].margin # {}, leg'[c].margin # {}
                 PROVE  leg'[a].margin = leg'[c].margin
      BY <2>5 DEF OneMarginPerTicket
    <3>1. PICK u \in PaperAsks :
            /\ pass.of \subseteq u
            /\ \A l \in u : leg[l].st = "open" /\ leg[l].margin # {} => l \in pass.of
      BY <1>1 DEF PricedTrue
    <3>2. a \in PaperLegs /\ c \in PaperLegs /\ leg[a].st = "open" /\ leg[c].st = "open"
      BY DEF LegsIn
    <3>3. CASE t = u
      BY <2>2, <3>1, <3>2, <3>3
    <3>4. CASE t # u
      <4>1. a \notin pass.of /\ c \notin pass.of
        BY <3>1, <3>4, TicketConstants
      <4> QED
        BY <1>1, <2>2, <3>2, <4>1 DEF OneMarginPerTicket
    <3> QED
      BY <3>3, <3>4
  <2> QED
    BY <1>3, <2>4, <2>6, <2>7, <2>8, <2>9 DEF TicketsInv, MarginsTrue
<1> QED
  BY <1>4, <1>5 DEF RecordMargin

LEMMA TicketsStep == TicketsInv /\ [PaperTicketNext]_paperTicketVars => TicketsInv'
<1> SUFFICES ASSUME TicketsInv, [PaperTicketNext]_paperTicketVars PROVE TicketsInv'
  OBVIOUS
<1>1. ASSUME NEW t \in PaperAsks, AskSteps(t) PROVE TicketsInv'
  BY <1>1, AskKeeps, CreateKeeps, RecordKeeps DEF AskSteps, Queries
<1>2. ASSUME NEW l \in PaperLegs, LegSteps(l) PROVE TicketsInv'
  BY <1>2, LegKeeps, PassKeeps DEF LegSteps
<1>3. CASE FillsDone \/ MonitorLost
  BY <1>3, PassKeeps
<1>4. CASE RecordMargin
  BY <1>4, MarginKeeps
<1>5. CASE UNCHANGED paperTicketVars
  <2>1. pass' = pass /\ pass \in PassRows /\ UNCHANGED <<leg, wanted>> /\ PricedTrue
    BY <1>5 DEF paperTicketVars, TicketsInv, TicketsTyped, MarginsTrue
  <2>2. PricedTrue'
    BY <2>1 DEF PricedTrue
  <2> QED
    BY <2>1, <2>2, PassMoves
<1> QED
  BY <1>1, <1>2, <1>3, <1>4, <1>5 DEF PaperTicketNext

LEMMA TicketsInvSound == TicketsInv => CapYieldsToRacesOnly /\ OneMarginPerTicket
<1> SUFFICES ASSUME TicketsInv PROVE CapYieldsToRacesOnly
  BY DEF TicketsInv, MarginsTrue
<1> DEFINE seen == AliveLegs \ UNION {wanted[t].missed : t \in PaperAsks}
           placed == AliveLegs \ UNION {wanted[t].missed : t \in Placed}
<1>1. seen \subseteq placed /\ placed \in SUBSET PaperLegs
  BY Alive DEF Placed
<1>2. Cardinality(seen) <= Cardinality(placed) /\ Cardinality(seen) \in Nat /\ Cardinality(placed) \in Nat
  BY <1>1, Sizes
<1>3. Cardinality(placed) <= PaperCap
  BY DEF TicketsInv, CapHeld
<1> HIDE DEF placed
<1>4. Cardinality(seen) <= PaperCap
  BY <1>2, <1>3, TicketConstants
<1> QED
  BY <1>4 DEF CapYieldsToRacesOnly

(* The cap on the paper book yields to races only and a ticket shows one   *)
(* margin, for any tickets, caps and order of checks, fills and passes.    *)
THEOREM TicketsSound == PaperTicketSpec => []TicketsAreSound
<1>1. TicketsInv => TicketsAreSound
  BY TicketsInvSound DEF TicketsAreSound
<1>. QED BY <1>1, TicketsInit, TicketsStep, PTL DEF PaperTicketSpec

-----------------------------------------------------------------------------
(* The page: only the ticket's newest fetch is listened to, and it was     *)
(* asked for the expiry the ticket has in the market shown.                *)
TicketFetchTrue ==
  /\ ticketLoads \subseteq {<<shown[1], orderExpiry>>}
  /\ TicketSettles

LEMMA PageInitTrue == PageInit => TicketFetchTrue
BY DEF PageInit, TicketFetchTrue, TicketSettles

LEMMA PageStepTrue == TicketFetchTrue /\ [PageNext]_pageVars => TicketFetchTrue'
<1> SUFFICES ASSUME TicketFetchTrue, [PageNext]_pageVars PROVE TicketFetchTrue'
  OBVIOUS
<1>1. CASE UNCHANGED <<shown, ticketVars>>
  BY <1>1 DEF ticketVars, TicketFetchTrue, TicketSettles
<1>2. ASSUME NEW e, TicketEffect(e, shown), UNCHANGED shown PROVE TicketFetchTrue'
  BY <1>2 DEF TicketEffect, Uncancelled, TicketFetchTrue, TicketSettles
<1>3. ASSUME NEW m, LoadCommitted(m) PROVE TicketFetchTrue'
  <2>1. shown' = m /\ TicketFollows(m)
    BY <1>3 DEF LoadCommitted
  <2>2. CASE m = shown
    <3>1. UNCHANGED <<shown, ticketVars>>
      BY <2>1, <2>2 DEF TicketFollows
    <3> QED
      BY <1>1, <3>1
  <2>3. CASE m # shown /\ m[1] # shown[1]
    BY <2>1, <2>3 DEF TicketFollows, Uncancelled, TicketFetchTrue, TicketSettles
  <2>4. CASE m # shown /\ m[1] = shown[1]
    BY <2>1, <2>4 DEF TicketFollows, TicketEffect, Uncancelled, TicketFetchTrue, TicketSettles
  <2> QED
    BY <2>2, <2>3, <2>4
<1>4. ASSUME NEW m, NEW came, TicketLoaded(m, came) \/ TicketFailed(m) PROVE TicketFetchTrue'
  BY <1>4 DEF TicketLoaded, TicketFailed, loadVars, TicketFetchTrue, TicketSettles
<1>5. CASE Response
  BY <1>1, <1>3, <1>5 DEF Response, LoadSkipped, LoadFailed
<1>6. CASE Stream \/ PageTick \/ Watchdog \/ Poll
  BY <1>1, <1>6 DEF Stream, StreamOpens, StreamTicker, SnapshotReady, StreamErrors, StreamStalls,
                    PageTick, Watchdog, Poll, loadVars
<1>7. ASSUME NEW m, Select(m) PROVE TicketFetchTrue'
  BY <1>1, <1>7 DEF Select
<1>8. ASSUME NEW e, PickOrderExpiry(e) PROVE TicketFetchTrue'
  BY <1>2, <1>8 DEF PickOrderExpiry, loadVars
<1>9. CASE UNCHANGED pageVars
  BY <1>1, <1>9 DEF pageVars, ticketVars
<1> QED
  BY <1>4, <1>5, <1>6, <1>7, <1>8, <1>9 DEF PageNext, TicketResponse

(* And of its market: what waits, or is fetched with nothing waiting, is   *)
(* the market asked for last; a reload that waits took its place.          *)
SelectionTrue ==
  /\ ~load.busy => pending = None
  /\ pending = None => chosen = IF load.busy THEN load.market ELSE shown
  /\ pending = Reload => chosen = shown
  /\ pending \notin {None, Reload} => chosen = pending

LEMMA SelectionInit == PageInit => SelectionTrue
BY DEF PageInit, NoLoad, None, Reload, SelectionTrue

LEMMA SelectionStep == SelectionTrue /\ [PageNext]_pageVars => SelectionTrue'
<1> SUFFICES ASSUME SelectionTrue, [PageNext]_pageVars PROVE SelectionTrue'
  OBVIOUS
<1>1. CASE UNCHANGED loadVars
  BY <1>1 DEF loadVars, SelectionTrue, None, Reload
<1>2. None # Reload
  BY DEF None, Reload
<1>3. \A m \in Markets : m \notin {None, Reload}
  BY MarketsAreNamed DEF Markets, None, Reload
<1>4. \A m, at : Fetching(m, at).busy /\ Fetching(m, at).market = IF m = Reload THEN at ELSE m
  BY DEF Fetching
<1>5. ASSUME NEW m \in Markets, Select(m) PROVE SelectionTrue'
  <2>1. Enqueue(m) /\ chosen' = m /\ UNCHANGED shown /\ m \notin {None, Reload}
    BY <1>3, <1>5 DEF Select
  <2>2. CASE load.busy
    BY <2>1, <2>2 DEF Enqueue, SelectionTrue
  <2>3. CASE ~load.busy
    BY <1>2, <1>4, <2>1, <2>3 DEF Enqueue, SelectionTrue
  <2> QED
    BY <2>2, <2>3
<1>6. ASSUME EnqueueReload, UNCHANGED shown PROVE SelectionTrue'
  <2>1. CASE load.busy
    BY <1>2, <1>6, <2>1 DEF EnqueueReload, Enqueue, SelectionTrue
  <2>2. CASE ~load.busy
    BY <1>2, <1>4, <1>6, <2>2 DEF EnqueueReload, Enqueue, SelectionTrue
  <2> QED
    BY <2>1, <2>2
<1>7. CASE LoadSkipped
  BY <1>2, <1>4, <1>7 DEF LoadSkipped, SelectionTrue
<1>8. ~NoLoad.busy
  BY DEF NoLoad
<1>9. ASSUME NEW m, LoadCommitted(m) PROVE SelectionTrue'
  BY <1>2, <1>8, <1>9 DEF LoadCommitted, SelectionTrue
<1>10. CASE LoadFailed
  BY <1>2, <1>8, <1>10 DEF LoadFailed, SelectionTrue
<1>11. CASE Response
  BY <1>7, <1>9, <1>10, <1>11 DEF Response
<1>12. CASE Stream \/ PageTick \/ Watchdog \/ Poll
  BY <1>1, <1>6, <1>12 DEF Stream, StreamOpens, StreamTicker, SnapshotReady, StreamErrors, StreamStalls,
                           PageTick, Watchdog, Poll
<1>13. CASE TicketResponse \/ \E e \in Expiries : PickOrderExpiry(e)
  BY <1>1, <1>13 DEF TicketResponse, TicketLoaded, TicketFailed, PickOrderExpiry
<1>14. CASE UNCHANGED pageVars
  BY <1>1, <1>14 DEF pageVars, loadVars
<1> QED
  BY <1>5, <1>11, <1>12, <1>13, <1>14 DEF PageNext

-----------------------------------------------------------------------------
(* The order panel: one request is on its way while busy and none          *)
(* otherwise; a preview on its way is the last one asked for, and no other *)
(* request leaves before its reply.  The row that is busy has a request.   *)
WireTrue ==
  /\ asked \in Nat /\ busy \in BOOLEAN
  /\ IF busy THEN \E r : wire = {r} ELSE wire = {}
  /\ \A r \in wire : r.kind \in {"preview", "confirm", "panic"}
  /\ \A r \in wire : IF r.kind = "preview" THEN r.n = asked ELSE preview # NoPreview => preview.n = asked
  /\ ~busy /\ preview # NoPreview => preview.n = asked

RowsTrue ==
  /\ rowWire \in [Rows -> Nat] /\ busyId \in Rows \cup {Empty}
  /\ busyId # Empty => rowWire[busyId] > 0

LEMMA OrderInitTrue == TicketInit => WireTrue /\ RowsTrue
<1> SUFFICES ASSUME TicketInit PROVE WireTrue /\ RowsTrue
  OBVIOUS
<1>1. preview = NoPreview /\ busy = FALSE /\ wire = {} /\ asked = 0
  BY DEF TicketInit
<1>2. busyId = Empty /\ rowWire = [r \in Rows |-> 0]
  BY DEF TicketInit
<1>3. WireTrue
  BY <1>1 DEF WireTrue
<1>4. RowsTrue
  BY <1>2 DEF RowsTrue
<1> QED
  BY <1>3, <1>4

LEMMA WireKept ==
  ASSUME WireTrue, UNCHANGED <<asked, busy, wire>>, preview' = preview \/ preview' = NoPreview
  PROVE  WireTrue'
BY DEF WireTrue

LEMMA WireStep == WireTrue /\ [TicketNext \/ RowNext]_orderVars => WireTrue'
<1> SUFFICES ASSUME WireTrue, [TicketNext \/ RowNext]_orderVars PROVE WireTrue'
  OBVIOUS
<1>1. CASE UNCHANGED <<asked, busy, wire, preview>>
  BY <1>1, WireKept
<1>2. CASE AskPreview
  <2>1. ~busy /\ wire = {} /\ asked \in Nat
    BY <1>2 DEF AskPreview, MayAsk, WireTrue
  <2> DEFINE r == [kind |-> "preview", n |-> asked + 1, ticket |-> Ticket, at |-> "sent"]
  <2>2. asked' = asked + 1 /\ busy' = TRUE /\ wire' = {r} /\ preview' = preview
    BY <1>2, <2>1 DEF AskPreview, Sends
  <2>3. r.kind = "preview" /\ r.n = asked'
    BY <2>2
  <2> HIDE DEF r
  <2> QED
    BY <2>1, <2>2, <2>3 DEF WireTrue
<1>3. ASSUME NEW r, r.kind \in {"confirm", "panic"}, MayAsk, Sends(r), UNCHANGED <<asked, preview>> PROVE WireTrue'
  BY <1>3 DEF MayAsk, Sends, WireTrue
<1>4. CASE Confirm \/ Panic
  <2>1. CASE Confirm
    BY <1>3, <2>1 DEF Confirm
  <2>2. CASE Panic
    BY <1>3, <2>2 DEF Panic
  <2> QED
    BY <1>4, <2>1, <2>2
<1>5. ASSUME NEW r \in wire, ApiHandles(r) PROVE WireTrue'
  <2>1. PICK outcome : Handled(r, outcome)
    BY <1>5 DEF ApiHandles
  <2>2. wire' = {[r EXCEPT !.at = outcome]} /\ busy /\ UNCHANGED <<asked, busy, preview>>
    BY <1>5, <2>1 DEF ApiHandles, Handled, WireTrue
  <2>3. [r EXCEPT !.at = outcome].kind = r.kind /\ [r EXCEPT !.at = outcome].n = r.n
    OBVIOUS
  <2> QED
    BY <2>2, <2>3 DEF WireTrue
<1>6. ASSUME NEW r \in wire, ReplyComes(r, TRUE) \/ ReplyComes(r, FALSE) PROVE WireTrue'
  <2>1. /\ wire' = {} /\ busy' = FALSE /\ asked' = asked
        /\ \/ preview' = NoPreview
           \/ r.kind = "preview" /\ preview' = [n |-> r.n, ticket |-> r.ticket]
           \/ r.kind # "preview" /\ preview' = preview
    <3>1. wire' = wire \ {r} /\ busy' = FALSE /\ asked' = asked
      BY <1>6 DEF ReplyComes
    <3>2. wire = {r}
      BY DEF WireTrue
    <3>3. \/ preview' = NoPreview
          \/ r.kind = "preview" /\ preview' = [n |-> r.n, ticket |-> r.ticket]
          \/ r.kind # "preview" /\ preview' = preview
      <4>1. r.kind \in {"preview", "confirm", "panic"}
        BY DEF WireTrue
      <4>2. ASSUME NEW lost \in BOOLEAN, ReplyComes(r, lost)
            PROVE  \/ preview' = NoPreview
                   \/ r.kind = "preview" /\ preview' = [n |-> r.n, ticket |-> r.ticket]
                   \/ r.kind # "preview" /\ preview' = preview
        <5>1. CASE r.kind = "preview"
          BY <4>2, <5>1 DEF ReplyComes
        <5>2. CASE r.kind = "confirm"
          BY <4>2, <5>2 DEF ReplyComes
        <5>3. CASE r.kind = "panic"
          BY <4>2, <5>3 DEF ReplyComes
        <5> QED
          BY <4>1, <5>1, <5>2, <5>3
      <4> QED
        BY <1>6, <4>2
    <3> QED
      BY <3>1, <3>2, <3>3
  <2>2. IF r.kind = "preview" THEN r.n = asked ELSE preview # NoPreview => preview.n = asked
    BY DEF WireTrue
  <2>3. preview' # NoPreview => preview'.n = asked'
    <3>1. CASE r.kind = "preview" /\ preview' = [n |-> r.n, ticket |-> r.ticket]
      BY <2>1, <2>2, <3>1
    <3>2. CASE r.kind # "preview" /\ preview' = preview
      BY <2>1, <2>2, <3>2
    <3>3. CASE preview' = NoPreview
      BY <3>3
    <3> QED
      BY <2>1, <3>1, <3>2, <3>3
  <2> QED
    BY <2>1, <2>3 DEF WireTrue
<1>7. CASE CountedDown
  BY <1>7, WireKept DEF CountedDown
<1>8. CASE TicketNext
  BY <1>1, <1>2, <1>4, <1>5, <1>6, <1>7, <1>8
     DEF TicketNext, ChangeMarket, ChainCame, PickStructure, TypePrice, PickStrike, PickType, TokenExpires,
         sendVars
<1>9. CASE RowNext
  BY <1>1, <1>9 DEF RowNext, ActOnRow, RowAnswered, sendVars
<1>10. CASE UNCHANGED orderVars
  BY <1>1, <1>10 DEF orderVars
<1> QED
  BY <1>8, <1>9, <1>10

LEMMA RowsStep == RowsTrue /\ [TicketNext \/ RowNext]_orderVars => RowsTrue'
<1> SUFFICES ASSUME RowsTrue, [TicketNext \/ RowNext]_orderVars PROVE RowsTrue'
  OBVIOUS
<1>1. CASE UNCHANGED tableVars
  BY <1>1 DEF tableVars, RowsTrue
<1>2. CASE TicketNext
  BY <1>1, <1>2
     DEF TicketNext, ChangeMarket, ChainCame, PickStructure, TypePrice, AskPreview, Confirm, Panic, CountedDown,
         PickStrike, PickType, ApiHandles, ReplyComes, TokenExpires
<1>3. ASSUME NEW r \in Rows, ActOnRow(r) \/ RowAnswered(r) PROVE RowsTrue'
  BY <1>3 DEF ActOnRow, RowAnswered, RowsTrue
<1>4. CASE UNCHANGED orderVars
  BY <1>1, <1>4 DEF orderVars, tableVars
<1> QED
  BY <1>2, <1>3, <1>4 DEF RowNext

LEMMA OrderSound == WireTrue /\ RowsTrue => NewestIsConfirmed /\ ButtonsComeBack
BY DEF WireTrue, RowsTrue, NewestIsConfirmed, ButtonsComeBack

-----------------------------------------------------------------------------
(* The simulator's rows: an end-of-day row is stamped with a midnight, and *)
(* a sample is made only when it is due.                                   *)
JobRun == [left : SUBSET Shown, at : Nat]
RunsTyped == runs \in [eod : JobRun, engine : JobRun, made : Nat] /\ vclock \in Nat

RowOk(s) == s.source \in {"EOD", "INTRADAY"} /\ s.ts \in Nat
Midnight(x) == \E d \in Nat : x = d * DayUnits

MarkedTrue ==
  /\ \A s \in marked : RowOk(s) /\ (s.source = "EOD" => Midnight(s.ts))
  /\ RowsKeepApart

RowsInv == RunsTyped /\ MarkedTrue

LEMMA Midnights ==
  ASSUME NEW x \in Nat, NEW y \in Nat, Midnight(x), Midnight(y), x < y
  PROVE  x \div DayUnits < y \div DayUnits
<1>1. DayUnits \in Nat \ {0}
  BY ViewAssumption
<1>2. ASSUME NEW d \in Nat PROVE (d * DayUnits) \div DayUnits = d
  <2> DEFINE q == (d * DayUnits) \div DayUnits
  <2>1. q \in Int /\ q * DayUnits <= d * DayUnits /\ d * DayUnits < (q + 1) * DayUnits
    BY <1>1
  <2>2. ~(q + 1 <= d)
    BY <1>1, <2>1
  <2>3. ~(d + 1 <= q)
    BY <1>1, <2>1
  <2> QED
    BY <2>1, <2>2, <2>3
<1>3. PICK d \in Nat : x = d * DayUnits
  BY DEF Midnight
<1>4. PICK e \in Nat : y = e * DayUnits
  BY DEF Midnight
<1>5. d < e
  BY <1>1, <1>3, <1>4
<1> QED
  BY <1>2, <1>3, <1>4, <1>5

LEMMA OneMoreRow ==
  ASSUME MarkedTrue, NEW n, RowOk(n), n.source = "EOD" => Midnight(n.ts),
         n.source = "INTRADAY" => \A s \in marked : s.t = n.t => n.ts - s.ts >= SampleEvery,
         marked' = marked \cup {n}
  PROVE  MarkedTrue'
<1>1. \A s \in marked' : RowOk(s) /\ (s.source = "EOD" => Midnight(s.ts))
  BY DEF MarkedTrue
<1>2. ASSUME NEW r \in marked', NEW s \in marked', r.t = s.t, r.source = s.source, r.ts < s.ts
      PROVE  IF r.source = "EOD" THEN r.ts \div DayUnits < s.ts \div DayUnits
             ELSE s.ts - r.ts >= SampleEvery
  <2>1. CASE r.source = "EOD"
    BY <1>1, <1>2, <2>1, Midnights DEF RowOk
  <2>2. CASE r.source # "EOD"
    <3>1. r.source = "INTRADAY" /\ r.ts \in Nat /\ s.ts \in Nat
      BY <1>1, <2>2 DEF RowOk
    <3>2. CASE r \in marked /\ s \in marked
      BY <1>2, <2>2, <3>2 DEF MarkedTrue, RowsKeepApart
    <3>3. CASE r \in marked /\ s = n
      BY <1>2, <2>2, <3>1, <3>3
    <3>4. CASE r = n /\ s \in marked
      <4>1. n.ts - s.ts >= SampleEvery /\ SampleEvery \in Nat \ {0}
        BY <1>2, <3>1, <3>4, ViewAssumption
      <4> QED
        BY <1>2, <3>1, <3>4, <4>1
    <3>5. CASE r = n /\ s = n
      BY <1>2, <3>1, <3>5
    <3> QED
      BY <3>2, <3>3, <3>4, <3>5
  <2> QED
    BY <2>1, <2>2
<1>3. RowsKeepApart'
  BY <1>2 DEF RowsKeepApart
<1> QED
  BY <1>1, <1>3 DEF MarkedTrue

LEMMA RowsInit == ViewInit => RowsInv
BY DEF ViewInit, RowsInv, RunsTyped, JobRun, NoRun, MarkedTrue, RowsKeepApart

LEMMA RowsViewStep == RowsInv /\ [ViewNext]_viewVars => RowsInv'
<1> SUFFICES ASSUME RowsInv, [ViewNext]_viewVars PROVE RowsInv'
  OBVIOUS
<1> USE DEF RowsInv
<1>1. UNCHANGED marked => MarkedTrue'
  BY DEF MarkedTrue, RowsKeepApart
<1>2. CASE UNCHANGED <<marked, runs, vclock>>
  BY <1>1, <1>2 DEF RunsTyped
<1>3. CASE ViewTime
  BY <1>1, <1>3 DEF ViewTime, RunsTyped
<1>4. ASSUME NEW kind, ViewStart(kind) PROVE RowsInv'
  <2>1. runs' = [runs EXCEPT !.made = @ + 1] /\ UNCHANGED <<marked, vclock>>
    BY <1>4 DEF ViewStart
  <2> QED
    BY <1>1, <2>1 DEF RunsTyped
<1>5. ASSUME NEW job \in {"eod", "engine"}, JobStarts(job) PROVE RowsInv'
  <2> DEFINE new == [left |-> HeldNow, at |-> vclock]
  <2>1. runs' = [runs EXCEPT ![job] = new, !.made = @ + 1] /\ UNCHANGED <<marked, vclock>>
    BY <1>5 DEF JobStarts
  <2>2. new \in JobRun
    BY DEF RunsTyped, JobRun, HeldNow
  <2> HIDE DEF new
  <2>3. RunsTyped'
    <3>1. CASE job = "eod"
      <4>1. runs' = [runs EXCEPT !.eod = new, !.made = @ + 1]
        BY <2>1, <3>1
      <4>2. runs' = [eod |-> new, engine |-> runs.engine, made |-> runs.made + 1]
        BY <4>1 DEF RunsTyped
      <4>3. runs.engine \in JobRun /\ runs.made + 1 \in Nat /\ vclock' \in Nat
        <5>1. runs \in [eod : JobRun, engine : JobRun, made : Nat] /\ vclock \in Nat
          BY DEF RunsTyped
        <5>2. runs.engine \in JobRun /\ runs.made \in Nat
          BY <5>1
        <5>3. vclock' = vclock
          BY <2>1
        <5> QED
          BY <5>1, <5>2, <5>3
      <4>4. [eod |-> new, engine |-> runs.engine, made |-> runs.made + 1]
            \in [eod : JobRun, engine : JobRun, made : Nat]
        BY <2>2, <4>3
      <4> QED
        BY <4>2, <4>3, <4>4 DEF RunsTyped
    <3>2. CASE job = "engine"
      <4>1. runs' = [runs EXCEPT !.engine = new, !.made = @ + 1]
        BY <2>1, <3>2
      <4>2. runs' = [eod |-> runs.eod, engine |-> new, made |-> runs.made + 1]
        BY <4>1 DEF RunsTyped
      <4>3. runs.eod \in JobRun /\ runs.made + 1 \in Nat /\ vclock' \in Nat
        <5>1. runs \in [eod : JobRun, engine : JobRun, made : Nat] /\ vclock \in Nat
          BY DEF RunsTyped
        <5>2. runs.eod \in JobRun /\ runs.made \in Nat
          BY <5>1
        <5>3. vclock' = vclock
          BY <2>1
        <5> QED
          BY <5>1, <5>2, <5>3
      <4>4. [eod |-> runs.eod, engine |-> new, made |-> runs.made + 1]
            \in [eod : JobRun, engine : JobRun, made : Nat]
        BY <2>2, <4>3
      <4> QED
        BY <4>2, <4>3, <4>4 DEF RunsTyped
    <3> QED
      BY <3>1, <3>2
  <2> QED
    BY <1>1, <2>1, <2>3
<1>6. ASSUME NEW t \in Shown, EodMark(t) PROVE RowsInv'
  <2>1. runs' = [runs EXCEPT !.eod.left = @ \ {t}] /\ UNCHANGED vclock
    BY <1>6 DEF EodMark
  <2>2. RunsTyped'
    BY <2>1 DEF RunsTyped, JobRun
  <2> DEFINE n == [t |-> t, ts |-> EodStamp, source |-> "EOD"]
  <2>3. marked' = marked \cup {n} \/ UNCHANGED marked
    BY <1>6 DEF EodMark
  <2>4. runs.eod.at \div DayUnits \in Nat /\ DayUnits \in Nat
    <3>1. runs.eod.at \in Nat /\ DayUnits \in Nat \ {0}
      BY ViewAssumption DEF RunsTyped, JobRun
    <3> QED
      BY <3>1
  <2>5. n.ts \in Nat /\ Midnight(n.ts) /\ n.source = "EOD"
    BY <2>4 DEF EodStamp, Midnight
  <2> HIDE DEF n
  <2>6. MarkedTrue'
    BY <1>1, <2>3, <2>5, OneMoreRow DEF RowOk
  <2> QED
    BY <2>2, <2>6
<1>7. ASSUME NEW t \in Shown, EngineSample(t) PROVE RowsInv'
  <2>1. runs' = [runs EXCEPT !.engine.left = @ \ {t}] /\ UNCHANGED vclock
    BY <1>7 DEF EngineSample
  <2>2. RunsTyped'
    BY <2>1 DEF RunsTyped, JobRun
  <2> DEFINE n == [t |-> t, ts |-> runs.engine.at, source |-> "INTRADAY"]
  <2>3. (marked' = marked \cup {n} /\ SampleDue(t)) \/ UNCHANGED marked
    BY <1>7 DEF EngineSample
  <2>4. n.ts \in Nat /\ n.source = "INTRADAY" /\ n.t = t /\ n.ts = runs.engine.at
    BY DEF RunsTyped, JobRun
  <2> HIDE DEF n
  <2>5. CASE marked' = marked \cup {n} /\ SampleDue(t)
    <3>1. \A s \in marked : s.t = n.t => n.ts - s.ts >= SampleEvery
      BY <2>4, <2>5 DEF SampleDue
    <3>2. RowOk(n) /\ n.source # "EOD"
      BY <2>4 DEF RowOk
    <3>3. MarkedTrue'
      BY <2>5, <3>1, <3>2, OneMoreRow
    <3> QED
      BY <2>2, <3>3
  <2> QED
    BY <1>1, <2>2, <2>3, <2>5
<1>8. ASSUME NEW q, Captured(q) PROVE RowsInv'
  BY <1>2, <1>8 DEF Captured
<1>9. ASSUME NEW t, OpenHeld(t) \/ ReadMark(t) \/ (\E status : EndHeld(t, status)) PROVE RowsInv'
  BY <1>2, <1>9 DEF OpenHeld, ReadMark, EndHeld
<1>10. CASE ReadOpen \/ ReadClosed \/ Told
  BY <1>2, <1>10 DEF ReadOpen, ReadClosed, Told
<1>11. CASE UNCHANGED viewVars
  BY <1>2, <1>11 DEF viewVars
<1>12. CASE StressGrid
  <2>1. runs' = [runs EXCEPT !.made = @ + 1] /\ UNCHANGED <<marked, vclock>>
    BY <1>12 DEF StressGrid
  <2> QED
    BY <1>1, <2>1 DEF RunsTyped
<1> QED
  BY <1>3, <1>4, <1>5, <1>6, <1>7, <1>8, <1>9, <1>10, <1>11, <1>12 DEF ViewNext, TradeNext, ShowNext, MarkNext

-----------------------------------------------------------------------------
(* What an account holds: what a trade blocks does not matter here.        *)
Stages == {"NONE", "OPEN", "CLOSED", "LIQUIDATED"}
HeldRows(W) == [st : Stages, credit : Int, bpe : W, pnl : Int]
Pnls(h, e) == [i \in DOMAIN e |-> h[e[i]].pnl]
EndedTrades == {t \in Shown : held[t].st \in {"CLOSED", "LIQUIDATED"}}

MoneyTyped ==
  /\ \E W : held \in [Shown -> HeldRows(W)]
  /\ spot \in Nat /\ tick \in [Legs -> Nat]

(* The ended trades, each once, and the cash they left.                    *)
EndedTrue ==
  /\ ended \in Seq(Shown)
  /\ \A i, j \in DOMAIN ended : ended[i] = ended[j] => i = j
  /\ ToSet(ended) = EndedTrades
  /\ vcash = Opening + SumOf(Pnls(held, ended), DOMAIN ended)

(* A view begun since the last trade was opened or ended shows what is.    *)
ViewTrue ==
  view.at # "off" /\ view.clean =>
    /\ view.cash = vcash
    /\ view.at \in {"open", "marks", "told"} => view.open = HeldNow
    /\ view.at \in {"closed", "marks", "told"} => view.closed = EndedOf(view.kind)

ViewStages == {"off", "lists", "open", "closed", "marks", "told"}
ViewTyped ==
  /\ DOMAIN view = DOMAIN NoView /\ view.at \in ViewStages

MoneyInv == MoneyTyped /\ EndedTrue /\ ViewTyped /\ ViewTrue

-----------------------------------------------------------------------------
LEMMA CostTyped == ASSUME MoneyTyped, NEW t \in Shown PROVE CloseCost(t) \in Int
<1> DEFINE cost == [l \in LegsOf(t) |-> IF l[2].side = "SELL" THEN tick[l] ELSE -tick[l]]
<1>1. CloseCost(t) = SumOf(cost, LegsOf(t))
  BY DEF CloseCost, MapThenSumSet, MapThenFoldSet, SumOf, Adds, Pick
<1>2. IsFiniteSet(LegsOf(t))
  <2>1. IsFiniteSet(Structures[t])
    BY ViewAssumption DEF Shown
  <2>2. LegsOf(t) = {<<t, l>> : l \in Structures[t]}
    BY DEF LegsOf, Legs
  <2>3. IsFiniteSet({<<t, l>> : l \in Structures[t]})
    <3> DEFINE with == [l \in Structures[t] |-> <<t, l>>]
    <3>1. with = [l \in Structures[t] |-> with[l]] /\ \A l \in Structures[t] : with[l] = <<t, l>>
      OBVIOUS
    <3> HIDE DEF with
    <3>2. IsFiniteSet({with[l] : l \in Structures[t]})
      BY <2>1, <3>1, FiniteImage
    <3>3. {with[l] : l \in Structures[t]} = {<<t, l>> : l \in Structures[t]}
      BY <3>1
    <3> QED
      BY <3>2, <3>3
  <2> QED
    BY <2>2, <2>3
<1>3. \A l \in LegsOf(t) : cost[l] \in Int
  BY DEF MoneyTyped, LegsOf
<1> HIDE DEF cost
<1> QED
  BY <1>1, <1>2, <1>3, SumTyped DEF Summable

LEMMA MoneyInitInv == ViewInit => MoneyInv
<1> SUFFICES ASSUME ViewInit PROVE MoneyInv
  OBVIOUS
<1>1. held = [t \in Shown |-> NotHeld] /\ ended = <<>> /\ vcash = Opening /\ view = NoView
  BY DEF ViewInit
<1>2. NotHeld \in HeldRows({0})
  BY DEF NotHeld, HeldRows, Stages
<1>3. MoneyTyped
  <2>1. held \in [Shown -> HeldRows({0})]
    BY <1>1, <1>2
  <2>2. spot \in Nat /\ tick \in [Legs -> Nat]
    BY DEF ViewInit, Unknown
  <2> QED
    BY <2>1, <2>2 DEF MoneyTyped
<1>4. EndedTrades = {} /\ ToSet(ended) = {} /\ DOMAIN ended = {}
  BY <1>1 DEF EndedTrades, NotHeld, ToSet
<1>5. EndedTrue
  <2>1. Opening \in Nat
    BY ViewAssumption
  <2>2. SumOf(Pnls(held, ended), DOMAIN ended) = 0
    BY <1>4, SumOfNone
  <2> QED
    BY <1>1, <1>4, <2>1, <2>2 DEF EndedTrue
<1>6. view.at = "off"
  BY <1>1 DEF NoView
<1> QED
  BY <1>1, <1>3, <1>5, <1>6 DEF MoneyInv, ViewTyped, ViewTrue, ViewStages

(* A step that leaves the money alone.                                     *)
LEMMA MoneyStays ==
  ASSUME MoneyInv, UNCHANGED viewRows, spot' \in Nat, tick' \in [Legs -> Nat], ViewTyped', ViewTrue'
  PROVE  MoneyInv'
BY DEF MoneyInv, MoneyTyped, EndedTrue, EndedTrades, viewRows

LEMMA ViewStays ==
  ASSUME MoneyInv, UNCHANGED viewRows, UNCHANGED view
  PROVE  ViewTyped' /\ ViewTrue'
BY DEF MoneyInv, ViewTyped, ViewTrue, viewRows, HeldNow, EndedOf

LEMMA OutdatedIs ==
  ASSUME ViewTyped, view' = Outdated(view) PROVE ViewTyped' /\ ViewTrue'
<1>1. CASE view.at = "off"
  BY <1>1 DEF Outdated, ViewTyped, ViewTrue
<1>2. CASE view.at # "off"
  <2>1. view' = [view EXCEPT !.clean = FALSE]
    BY <1>2 DEF Outdated
  <2>2. view'.at = view.at /\ view'.clean = FALSE /\ DOMAIN view' = DOMAIN view
    BY <2>1 DEF ViewTyped, NoView
  <2> QED
    BY <2>2 DEF ViewTyped, ViewTrue
<1> QED
  BY <1>1, <1>2

LEMMA OpenKeeps == ASSUME MoneyInv, NEW t \in Shown, OpenHeld(t) PROVE MoneyInv'
<1> USE DEF MoneyInv
<1> DEFINE row == [st |-> "OPEN", credit |-> CloseCost(t), pnl |-> 0, bpe |-> EntryMargin(t, CloseCost(t))]
<1>1. /\ held[t].st = "NONE" /\ held' = [held EXCEPT ![t] = row]
      /\ view' = Outdated(view) /\ UNCHANGED <<ended, vcash, spot, tick>>
  BY DEF OpenHeld, viewMarket
<1>2. PICK W : held \in [Shown -> HeldRows(W)]
  BY DEF MoneyTyped
<1> DEFINE V == W \cup {EntryMargin(t, CloseCost(t))}
<1>3. row \in HeldRows(V) /\ row.st = "OPEN"
  BY CostTyped DEF HeldRows, Stages
<1>4. HeldRows(W) \subseteq HeldRows(V)
  BY DEF HeldRows
<1> HIDE DEF row, V
<1>5. held' \in [Shown -> HeldRows(V)]
  BY <1>1, <1>2, <1>3, <1>4
<1>6. MoneyTyped'
  BY <1>1, <1>5 DEF MoneyTyped
<1>7. \A s \in Shown : s # t => held'[s] = held[s]
  BY <1>1, <1>2
<1>8. EndedTrades' = EndedTrades /\ t \notin ToSet(ended)
  BY <1>1, <1>2, <1>3, <1>7 DEF EndedTrades, EndedTrue
<1>9. \A i \in DOMAIN ended : ended[i] \in Shown /\ ended[i] # t
  BY <1>8 DEF EndedTrue, ToSet
<1>10. Pnls(held', ended) = Pnls(held, ended)
  BY <1>7, <1>9 DEF Pnls
<1>11. EndedTrue'
  BY <1>1, <1>8, <1>10 DEF EndedTrue
<1> QED
  BY <1>1, <1>6, <1>11, OutdatedIs

LEMMA EndKeeps ==
  ASSUME MoneyInv, NEW t \in Shown, NEW status \in {"CLOSED", "LIQUIDATED"}, EndHeld(t, status) PROVE MoneyInv'
<1> USE DEF MoneyInv
<1> DEFINE pnl == held[t].credit - CloseCost(t)
           row == [held[t] EXCEPT !.st = status, !.pnl = pnl]
<1>1. /\ held[t].st = "OPEN" /\ held' = [held EXCEPT ![t].st = status, ![t].pnl = pnl]
      /\ vcash' = vcash + pnl /\ ended' = Append(ended, t)
      /\ view' = Outdated(view) /\ UNCHANGED <<spot, tick>>
  BY DEF EndHeld, viewMarket
<1>2. PICK W : held \in [Shown -> HeldRows(W)]
  BY DEF MoneyTyped
<1>3. pnl \in Int
  BY <1>2, CostTyped DEF HeldRows
<1> HIDE DEF pnl
<1>4. row \in HeldRows(W) /\ row.st = status /\ row.pnl = pnl
  BY <1>2, <1>3 DEF HeldRows, Stages
<1>5. held' = [held EXCEPT ![t] = row]
  BY <1>1, <1>2 DEF HeldRows
<1> HIDE DEF row
<1>6. held' \in [Shown -> HeldRows(W)] /\ held'[t] = row
  BY <1>2, <1>4, <1>5
<1>7. \A s \in Shown : s # t => held'[s] = held[s]
  BY <1>2, <1>5
<1>8. MoneyTyped'
  BY <1>1, <1>6 DEF MoneyTyped
<1>9. ended \in Seq(Shown) /\ t \notin ToSet(ended)
  BY <1>1 DEF EndedTrue, EndedTrades
<1> DEFINE n == Len(ended)
<1>10. /\ n \in Nat /\ DOMAIN ended = 1..n /\ DOMAIN ended' = 1..(n + 1) /\ ended' \in Seq(Shown)
       /\ ended'[n + 1] = t /\ \A i \in 1..n : ended'[i] = ended[i] /\ ended[i] \in Shown /\ ended[i] # t
  <2>1. \A i \in 1..n : ended[i] \in Shown /\ ended[i] # t
    BY <1>9 DEF ToSet
  <2> QED
    BY <1>1, <1>9, <2>1
<1>11. ToSet(ended') = ToSet(ended) \cup {t}
  BY <1>10 DEF ToSet
<1>12. EndedTrades' = EndedTrades \cup {t}
  BY <1>4, <1>6, <1>7 DEF EndedTrades
<1>13. \A i, j \in DOMAIN ended' : ended'[i] = ended'[j] => i = j
  <2>1. \A i, j \in 1..n : ended[i] = ended[j] => i = j
    BY <1>10 DEF EndedTrue
  <2> QED
    BY <1>10, <2>1
<1>14. SumOf(Pnls(held', ended'), 1..(n + 1)) = pnl + SumOf(Pnls(held, ended), 1..n)
  <2> DEFINE new == Pnls(held', ended')
             old == Pnls(held, ended)
  <2>1. \A i \in 1..n : new[i] = old[i] /\ old[i] \in Int
    <3> TAKE i \in 1..n
    <3>1. new[i] = held'[ended'[i]].pnl /\ old[i] = held[ended[i]].pnl
      BY <1>10 DEF Pnls
    <3>2. held'[ended[i]] = held[ended[i]] /\ held[ended[i]] \in HeldRows(W)
      BY <1>2, <1>7, <1>10
    <3> QED
      BY <1>10, <3>1, <3>2 DEF HeldRows
  <2>2. new[n + 1] = pnl
    BY <1>4, <1>6, <1>10 DEF Pnls
  <2>3. IsFiniteSet(1..n) /\ (n + 1) \notin 1..n /\ 1..(n + 1) = 1..n \cup {n + 1}
    <3>1. n \in Nat
      BY <1>10
    <3> HIDE DEF n
    <3>2. IsFiniteSet(1..n)
      BY <3>1, FS_Interval
    <3> QED
      BY <3>1, <3>2
  <2> HIDE DEF new, old
  <2>4. Summable(new, 1..n)
    BY <2>1, <2>3 DEF Summable
  <2>5. SumOf(new, 1..n \cup {n + 1}) = pnl + SumOf(new, 1..n)
    BY <1>3, <2>2, <2>3, <2>4, SumOfOneMore
  <2>6. SumOf(new, 1..n) = SumOf(old, 1..n)
    BY <2>1, <2>3, SumSame
  <2> QED
    BY <2>3, <2>5, <2>6 DEF new, old
<1>15. SumOf(Pnls(held, ended), 1..n) \in Int
  <2> DEFINE old == Pnls(held, ended)
  <2>1. \A i \in 1..n : old[i] \in Int
    BY <1>2, <1>10 DEF Pnls, HeldRows
  <2>2. IsFiniteSet(1..n)
    BY <1>10, FS_Interval
  <2> HIDE DEF old
  <2>3. SumOf(old, 1..n) \in Int
    BY <2>1, <2>2, SumTyped DEF Summable
  <2> QED
    BY <2>3 DEF old
<1>16. vcash' = Opening + SumOf(Pnls(held', ended'), DOMAIN ended')
  <2>1. vcash = Opening + SumOf(Pnls(held, ended), 1..n) /\ Opening \in Int
    BY <1>10, ViewAssumption DEF EndedTrue
  <2> QED
    BY <1>1, <1>3, <1>10, <1>14, <1>15, <2>1
<1>17. EndedTrue'
  BY <1>10, <1>11, <1>12, <1>13, <1>16 DEF EndedTrue
<1> QED
  BY <1>1, <1>8, <1>17, OutdatedIs

(* The view's own steps: reading an account in which nothing happens.      *)
LEMMA ViewKeeps ==
  ASSUME MoneyInv, UNCHANGED <<viewRows, spot, tick>>, ViewTyped', ViewTrue' PROVE MoneyInv'
BY MoneyStays DEF MoneyInv, MoneyTyped

LEMMA ReadingKeeps ==
  ASSUME MoneyInv,
         ReadOpen \/ ReadClosed \/ Told \/ (\E t \in Shown : ReadMark(t))
         \/ (\E kind \in {"page", "admin"} : ViewStart(kind))
  PROVE  MoneyInv'
<1> USE DEF MoneyInv
<1>1. DOMAIN view = {"at", "kind", "cash", "open", "closed", "todo", "unreal", "clean"}
  BY DEF ViewTyped, NoView
<1>2. CASE ReadOpen
  <2>1. /\ view.at \in {"lists", "closed"}
        /\ view' = [view EXCEPT !.open = HeldNow, !.todo = HeldNow,
                                !.at = IF @ = "closed" THEN "marks" ELSE "open"]
        /\ UNCHANGED <<viewRows, spot, tick>>
    BY <1>2 DEF ReadOpen, viewMarket
  <2>2. /\ DOMAIN view' = DOMAIN view /\ view'.open = HeldNow /\ view'.cash = view.cash
        /\ view'.closed = view.closed /\ view'.clean = view.clean /\ view'.kind = view.kind
        /\ view'.at = IF view.at = "closed" THEN "marks" ELSE "open"
    BY <1>1, <2>1
  <2>3. HeldNow' = HeldNow /\ EndedOf(view.kind)' = EndedOf(view.kind) /\ vcash' = vcash
    BY <2>1, <2>2 DEF HeldNow, EndedOf, viewRows
  <2>4. ViewTyped'
    BY <2>1, <2>2 DEF ViewTyped, ViewStages
  <2>5. ViewTrue'
    BY <2>1, <2>2, <2>3 DEF ViewTrue
  <2> QED
    BY <2>1, <2>4, <2>5, ViewKeeps
<1>3. CASE ReadClosed
  <2>1. /\ view.at \in {"lists", "open"}
        /\ view' = [view EXCEPT !.closed = EndedOf(view.kind),
                                !.at = IF @ = "open" THEN "marks" ELSE "closed"]
        /\ UNCHANGED <<viewRows, spot, tick>>
    BY <1>3 DEF ReadClosed, viewMarket
  <2>2. /\ DOMAIN view' = DOMAIN view /\ view'.open = view.open /\ view'.cash = view.cash
        /\ view'.closed = EndedOf(view.kind) /\ view'.clean = view.clean /\ view'.kind = view.kind
        /\ view'.at = IF view.at = "open" THEN "marks" ELSE "closed"
    BY <1>1, <2>1
  <2>3. HeldNow' = HeldNow /\ EndedOf(view.kind)' = EndedOf(view.kind) /\ vcash' = vcash
    BY <2>1, <2>2 DEF HeldNow, EndedOf, viewRows
  <2>4. ViewTyped'
    BY <2>1, <2>2 DEF ViewTyped, ViewStages
  <2>5. ViewTrue'
    BY <2>1, <2>2, <2>3 DEF ViewTrue
  <2> QED
    BY <2>1, <2>4, <2>5, ViewKeeps
<1>4. CASE Told \/ \E t \in Shown : ReadMark(t)
  <2>1. /\ view.at = "marks" /\ UNCHANGED <<viewRows, spot, tick>>
        /\ \/ view' = [view EXCEPT !.at = "told"]
           \/ \E t \in Shown : view' = [view EXCEPT !.todo = @ \ {t},
                 !.unreal = IF Priced(t) THEN @ + held[t].credit - CloseCost(t) ELSE @]
    BY <1>4 DEF Told, ReadMark, viewMarket
  <2>2. /\ DOMAIN view' = DOMAIN view /\ view'.open = view.open /\ view'.cash = view.cash
        /\ view'.closed = view.closed /\ view'.clean = view.clean /\ view'.kind = view.kind
        /\ view'.at \in {"marks", "told"}
    BY <1>1, <2>1
  <2>3. HeldNow' = HeldNow /\ EndedOf(view.kind)' = EndedOf(view.kind) /\ vcash' = vcash
    BY <2>1, <2>2 DEF HeldNow, EndedOf, viewRows
  <2>4. ViewTyped'
    BY <2>1, <2>2 DEF ViewTyped, ViewStages
  <2>5. ViewTrue'
    BY <2>1, <2>2, <2>3 DEF ViewTrue
  <2> QED
    BY <2>1, <2>4, <2>5, ViewKeeps
<1>5. ASSUME NEW kind \in {"page", "admin"}, ViewStart(kind) PROVE MoneyInv'
  <2>1. view' = [NoView EXCEPT !.at = "lists", !.kind = kind, !.cash = vcash] /\ UNCHANGED <<viewRows, spot, tick>>
    BY <1>5 DEF ViewStart, viewMarket
  <2>2. DOMAIN view' = DOMAIN NoView /\ view'.at = "lists" /\ view'.cash = vcash
    BY <2>1 DEF NoView
  <2>3. ViewTyped' /\ ViewTrue'
    BY <2>1, <2>2 DEF ViewTyped, ViewStages, ViewTrue, viewRows
  <2> QED
    BY <2>1, <2>3, ViewKeeps
<1> QED
  BY <1>2, <1>3, <1>4, <1>5

LEMMA MoneyStepInv == MoneyInv /\ [ViewNext]_viewVars => MoneyInv'
<1> SUFFICES ASSUME MoneyInv, [ViewNext]_viewVars PROVE MoneyInv'
  OBVIOUS
<1>1. CASE UNCHANGED <<viewRows, spot, tick, view>>
  BY <1>1, ViewStays, ViewKeeps
<1>2. ASSUME NEW q \in Quotes, Captured(q) PROVE MoneyInv'
  <2>1. /\ spot' = q.spot /\ UNCHANGED <<viewRows, view>>
        /\ tick' = [l \in Legs |-> IF l \in DOMAIN q.price THEN q.price[l] ELSE tick[l]]
    BY <1>2 DEF Captured
  <2>2. q.spot \in Nat /\ \A l \in DOMAIN q.price : q.price[l] \in Nat
    BY ViewAssumption
  <2>3. tick' \in [Legs -> Nat]
    BY <2>1, <2>2 DEF MoneyInv, MoneyTyped
  <2> QED
    BY <2>1, <2>2, <2>3, ViewStays, MoneyStays
<1>3. CASE ViewTime \/ (\E t \in Shown : EodMark(t) \/ EngineSample(t)) \/ (\E job \in {"eod", "engine"} : JobStarts(job))
  BY <1>1, <1>3 DEF ViewTime, EodMark, EngineSample, JobStarts, viewMarket
<1>4. CASE UNCHANGED viewVars
  BY <1>1, <1>4 DEF viewVars, viewRows
<1>5. CASE StressGrid
  BY <1>1, <1>5 DEF StressGrid, viewMarket
<1> QED
  BY <1>2, <1>3, <1>4, <1>5, OpenKeeps, EndKeeps, ReadingKeeps DEF ViewNext, TradeNext, ShowNext, MarkNext

LEMMA MoneyBalances == MoneyInv => SummaryBalances
<1> SUFFICES ASSUME MoneyInv, view.at = "told", view.clean, view.kind = "admin" \/ Len(ended) <= ShownClosed
    PROVE  /\ view.cash = Opening + MapThenSumSet(LAMBDA i : held[view.closed[i]].pnl, DOMAIN view.closed)
           /\ {t \in Shown : held[t].st # "NONE"} = view.open \cup ToSet(view.closed)
  BY DEF SummaryBalances
<1>1. view.cash = vcash /\ view.open = HeldNow /\ view.closed = EndedOf(view.kind)
  BY DEF MoneyInv, ViewTrue
<1>2. EndedOf(view.kind) = ended
  <2>1. ended \in Seq(Shown) /\ Len(ended) \in Nat /\ ShownClosed \in Nat
    BY ViewAssumption DEF MoneyInv, EndedTrue
  <2>2. SubSeq(ended, 1, Len(ended)) = ended
    BY <2>1
  <2>3. CASE view.kind = "admin"
    BY <2>3 DEF EndedOf
  <2>4. CASE Len(ended) <= ShownClosed
    <3>1. ~(Len(ended) > ShownClosed)
      BY <2>1, <2>4
    <3> QED
      BY <2>2, <3>1 DEF EndedOf
  <2> QED
    BY <2>3, <2>4
<1>3. MapThenSumSet(LAMBDA i : held[ended[i]].pnl, DOMAIN ended) = SumOf(Pnls(held, ended), DOMAIN ended)
  <2> DEFINE Pnl(i) == held[ended[i]].pnl
             places == DOMAIN ended
  <2> HIDE DEF Pnl, places
  <2>1. MapThenSumSet(LAMBDA i : Pnl(i), places) = SumOf([i \in places |-> Pnl(i)], places)
    BY DEF MapThenSumSet, MapThenFoldSet, SumOf, Adds, Pick
  <2> QED
    BY <2>1 DEF Pnl, places, Pnls
<1>4. view.cash = Opening + MapThenSumSet(LAMBDA i : held[view.closed[i]].pnl, DOMAIN view.closed)
  BY <1>1, <1>2, <1>3 DEF MoneyInv, EndedTrue
<1>5. \A t \in Shown : held[t].st \in Stages
  BY DEF MoneyInv, MoneyTyped, HeldRows
<1>6. {t \in Shown : held[t].st # "NONE"} = HeldNow \cup ToSet(ended)
  BY <1>5 DEF MoneyInv, EndedTrue, EndedTrades, HeldNow, Stages
<1> QED
  BY <1>1, <1>2, <1>4, <1>6

(* The stress grid.  A trade that was ever open has a tick for each leg,   *)
(* and what it was stored with stays; the grid shown last is of such       *)
(* trades, at the spot and in the week it was put together in.             *)
Asked(t, x) == MapThenSumSet(LAMBDA l : LegMargin(l, x), ShortLegs(t))
Cells(T, r, x) == [t \in T |-> IF t \in Defined THEN held[t].bpe ELSE r * Asked(t, x)]

EverHeld(t) == held[t].st # "NONE"
TicksTrue == \A t \in Shown : EverHeld(t) => Priced(t)

GridTrue ==
  grid.spot # Unknown =>
    /\ spot # Unknown /\ grid.of \subseteq Shown /\ \A t \in grid.of : EverHeld(t)
    /\ \A d \in Shifts : grid.margin[d] = SumOf(Cells(grid.of, grid.ramp, grid.spot + d), grid.of)

GridInv == TicksTrue /\ GridTrue

LEMMA GridInitInv == ViewInit => GridInv
BY DEF ViewInit, GridInv, TicksTrue, EverHeld, GridTrue, NotHeld, NoGrid

(* Steps that leave the grid, and what its trades were stored with, alone. *)
LEMMA GridStays ==
  ASSUME GridInv, UNCHANGED grid, spot # Unknown => spot' # Unknown,
         \A t \in Shown : EverHeld(t) => EverHeld(t)' /\ held'[t].bpe = held[t].bpe
  PROVE  GridTrue'
<1> USE DEF GridInv
<1> SUFFICES ASSUME grid.spot # Unknown PROVE GridTrue'
  BY DEF GridTrue
<1> DEFINE T == grid.of
           r == grid.ramp
           atNow(d) == Cells(T, r, grid.spot + d)
<1>1. T \subseteq Shown /\ \A t \in T : EverHeld(t)
  BY DEF GridTrue
<1>2. ASSUME NEW d \in Shifts PROVE atNow(d)' = atNow(d)
  <2>1. \A t \in T : held'[t].bpe = held[t].bpe
    BY <1>1
  <2>2. atNow(d)' = [t \in T |-> IF t \in Defined THEN held'[t].bpe ELSE r * Asked(t, grid.spot + d)]
    BY DEF Cells
  <2>3. atNow(d) = [t \in T |-> IF t \in Defined THEN held[t].bpe ELSE r * Asked(t, grid.spot + d)]
    BY DEF Cells
  <2> QED
    BY <2>1, <2>2, <2>3
<1>3. \A d \in Shifts : grid.margin[d] = SumOf(atNow(d), T)
  BY DEF GridTrue
<1>4. \A d \in Shifts : grid'.margin[d] = SumOf(atNow(d)', T)
  BY <1>2, <1>3
<1> QED
  BY <1>1, <1>4 DEF GridTrue

LEMMA GridOpened == ASSUME MoneyInv, GridInv, NEW t \in Shown, OpenHeld(t) PROVE GridInv'
<1> DEFINE row == [st |-> "OPEN", credit |-> CloseCost(t), pnl |-> 0, bpe |-> EntryMargin(t, CloseCost(t))]
<1>1. held[t].st = "NONE" /\ Priced(t) /\ UNCHANGED <<tick, spot, grid>>
  BY DEF OpenHeld, viewMarket
<1>2. held' = [held EXCEPT ![t] = row] /\ DOMAIN held = Shown
  BY DEF OpenHeld, MoneyInv, MoneyTyped
<1>3. row.st = "OPEN"
  OBVIOUS
<1> HIDE DEF row
<1>4. held'[t] = row /\ \A u \in Shown \ {t} : held'[u] = held[u]
  BY <1>2
<1>5. \A u \in Shown : EverHeld(u) => EverHeld(u)' /\ held'[u].bpe = held[u].bpe
  BY <1>1, <1>3, <1>4 DEF EverHeld
<1>6. \A u \in Shown : Priced(u)' = Priced(u)
  BY <1>1 DEF Priced, LegsOf
<1>7. TicksTrue'
  BY <1>1, <1>4, <1>6 DEF GridInv, TicksTrue, EverHeld
<1> QED
  BY <1>1, <1>5, <1>7, GridStays DEF GridInv

LEMMA GridEnded ==
  ASSUME MoneyInv, GridInv, NEW t \in Shown, NEW status \in {"CLOSED", "LIQUIDATED"}, EndHeld(t, status)
  PROVE  GridInv'
<1> DEFINE pnl == held[t].credit - CloseCost(t)
<1>1. held[t].st = "OPEN" /\ Priced(t) /\ UNCHANGED <<tick, spot, grid>>
  BY DEF EndHeld, viewMarket
<1>2. held' = [held EXCEPT ![t].st = status, ![t].pnl = pnl]
  BY DEF EndHeld
<1> HIDE DEF pnl
<1>3. PICK W : held \in [Shown -> HeldRows(W)]
  BY DEF MoneyInv, MoneyTyped
<1> DEFINE row == [held[t] EXCEPT !.st = status, !.pnl = pnl]
<1>4. row.st = status /\ row.bpe = held[t].bpe /\ held' = [held EXCEPT ![t] = row]
  BY <1>2, <1>3 DEF HeldRows
<1> HIDE DEF row
<1>5. held'[t].bpe = held[t].bpe /\ held'[t].st = status /\ \A u \in Shown \ {t} : held'[u] = held[u]
  BY <1>3, <1>4
<1>6. \A u \in Shown : EverHeld(u) => EverHeld(u)' /\ held'[u].bpe = held[u].bpe
  BY <1>5 DEF EverHeld
<1>7. \A u \in Shown : Priced(u)' = Priced(u)
  BY <1>1 DEF Priced, LegsOf
<1>8. TicksTrue'
  BY <1>1, <1>5, <1>7 DEF GridInv, TicksTrue, EverHeld
<1> QED
  BY <1>1, <1>6, <1>8, GridStays DEF GridInv

(* What one cell is put together from, when every leg has its tick.        *)
LEMMA CellIs ==
  ASSUME NEW t \in Shown, Priced(t), NEW d \in Shifts
  PROVE  CellMargin(t, d) = IF t \in Defined THEN held[t].bpe ELSE Ramp * Asked(t, spot + d)
<1>1. {l \in ShortLegs(t) : tick[l] # Unknown} = ShortLegs(t)
  BY DEF Priced, ShortLegs
<1> QED
  BY <1>1 DEF CellMargin, Asked

LEMMA GridTaken == ASSUME MoneyInv, GridInv, StressGrid PROVE GridInv'
<1>1. spot # Unknown /\ UNCHANGED <<held, spot, tick>>
  BY DEF StressGrid, viewRows, viewMarket
<1>2. /\ grid'.spot = spot /\ grid'.ramp = Ramp /\ grid'.of = HeldNow
      /\ \A d \in Shifts : grid'.margin[d] = MapThenSumSet(LAMBDA t : CellMargin(t, d), HeldNow)
  BY DEF StressGrid
<1>3. HeldNow \subseteq Shown /\ \A t \in HeldNow : EverHeld(t) /\ Priced(t)
  BY DEF GridInv, TicksTrue, HeldNow, EverHeld
<1>4. ASSUME NEW d \in Shifts PROVE grid'.margin[d] = SumOf(Cells(HeldNow, Ramp, spot + d), HeldNow)
  <2>1. [t \in HeldNow |-> CellMargin(t, d)] = Cells(HeldNow, Ramp, spot + d)
    BY <1>3, CellIs DEF Cells
  <2> DEFINE Cell(t) == CellMargin(t, d)
             open == HeldNow
  <2>2. grid'.margin[d] = MapThenSumSet(LAMBDA t : Cell(t), open)
    BY <1>2
  <2> HIDE DEF Cell, open
  <2>3. MapThenSumSet(LAMBDA t : Cell(t), open) = SumOf([t \in open |-> Cell(t)], open)
    BY ZenonT(60) DEF MapThenSumSet, MapThenFoldSet, SumOf, Adds, Pick
  <2> QED
    BY <2>1, <2>2, <2>3 DEF Cell, open
<1>5. ASSUME NEW d \in Shifts
      PROVE  Cells(grid.of, grid.ramp, grid.spot + d)' = Cells(HeldNow, Ramp, spot + d)
  BY <1>1, <1>2 DEF Cells
<1>6. GridTrue'
  BY <1>1, <1>2, <1>3, <1>4, <1>5 DEF GridTrue, EverHeld
<1>7. TicksTrue'
  BY <1>1 DEF GridInv, TicksTrue, EverHeld, Priced, LegsOf
<1> QED
  BY <1>6, <1>7 DEF GridInv

LEMMA GridStepInv == MoneyInv /\ GridInv /\ [ViewNext]_viewVars => GridInv'
<1> SUFFICES ASSUME MoneyInv, GridInv, [ViewNext]_viewVars PROVE GridInv'
  OBVIOUS
<1>1. CASE UNCHANGED <<held, spot, tick, grid>>
  <2>1. TicksTrue'
    BY <1>1 DEF GridInv, TicksTrue, EverHeld, Priced, LegsOf
  <2> QED
    BY <1>1, <2>1, GridStays DEF GridInv, EverHeld
<1>2. ASSUME NEW q \in Quotes, Captured(q) PROVE GridInv'
  <2>1. /\ spot' = q.spot /\ UNCHANGED <<held, grid>>
        /\ tick' = [l \in Legs |-> IF l \in DOMAIN q.price THEN q.price[l] ELSE tick[l]]
    BY <1>2 DEF Captured, viewRows
  <2>2. q.spot # Unknown /\ \A l \in DOMAIN q.price : q.price[l] # Unknown
    BY ViewAssumption DEF Unknown
  <2>3. \A l \in Legs : tick[l] # Unknown => tick'[l] # Unknown
    BY <2>1, <2>2
  <2>4. TicksTrue'
    BY <2>1, <2>3 DEF GridInv, TicksTrue, EverHeld, Priced, LegsOf
  <2> QED
    BY <2>1, <2>2, <2>4, GridStays DEF GridInv, EverHeld
<1>3. CASE ViewTime \/ MarkNext \/ UNCHANGED viewVars
  BY <1>1, <1>3 DEF ViewTime, MarkNext, EodMark, EngineSample, JobStarts, viewMarket, viewRows, viewVars
<1>4. CASE ReadOpen \/ ReadClosed \/ Told \/ (\E t \in Shown : ReadMark(t))
           \/ (\E kind \in {"page", "admin"} : ViewStart(kind))
  BY <1>1, <1>4 DEF ReadOpen, ReadClosed, Told, ReadMark, ViewStart, viewMarket, viewRows
<1> QED
  BY <1>2, <1>3, <1>4, GridOpened, GridEnded, GridTaken DEF ViewNext, TradeNext, ShowNext

LEMMA GridForetells == MoneyInv /\ GridInv => StressForetells
<1> SUFFICES ASSUME MoneyInv, GridInv, grid.spot # Unknown, grid.of = HeldNow, grid.ramp = Ramp,
                    NEW d \in Shifts, spot = grid.spot + d
    PROVE  grid.margin[d] = MapThenSumSet(LiveMargin, HeldNow)
  BY DEF StressForetells
<1>1. spot # Unknown /\ grid.margin[d] = SumOf(Cells(HeldNow, Ramp, spot), HeldNow)
  BY DEF GridInv, GridTrue
<1>2. ASSUME NEW t \in HeldNow PROVE LiveMargin(t) = IF t \in Defined THEN held[t].bpe ELSE Ramp * Asked(t, spot)
  BY <1>1 DEF LiveMargin, Asked
<1>3. [t \in HeldNow |-> LiveMargin(t)] = Cells(HeldNow, Ramp, spot)
  BY <1>2 DEF Cells
<1>4. MapThenSumSet(LiveMargin, HeldNow) = SumOf([t \in HeldNow |-> LiveMargin(t)], HeldNow)
  BY ZenonT(60) DEF MapThenSumSet, MapThenFoldSet, SumOf, Adds, Pick
<1> QED
  BY <1>1, <1>3, <1>4

-----------------------------------------------------------------------------
(* The live panel's summary.  Of each contract the last close has the      *)
(* count so far, and there is none while the count is at nothing.          *)
CloseRows == [contract : PanelContracts, pnl : Nat]
LastCloseIs(closes, c, n) ==
  \/ n = 0 /\ \A k \in DOMAIN closes : closes[k].contract # c
  \/ \E j \in DOMAIN closes :
       closes[j].contract = c /\ closes[j].pnl = n /\ \A k \in (j + 1)..Len(closes) : closes[k].contract # c

DealsTrue ==
  /\ realised \in [PanelContracts -> Nat] /\ closedRows \in Seq(CloseRows)
  /\ \A c \in PanelContracts : LastCloseIs(closedRows, c, realised[c])

(* A summary's first read is behind its second, and the second whole.      *)
ReadSound(s, sofar) ==
  /\ DOMAIN s = {"pc", "open", "was", "closed", "now"}
  /\ s.pc \in {"idle", "sent", "half", "reply"}
  /\ s.pc = "half" => s.was \in [PanelContracts -> Nat] /\ \A c \in PanelContracts : s.was[c] <= sofar[c]
  /\ s.pc = "reply" =>
       /\ s.was \in [PanelContracts -> Nat] /\ s.now \in [PanelContracts -> Nat] /\ s.closed \in Seq(CloseRows)
       /\ \A c \in PanelContracts : s.was[c] <= s.now[c] /\ LastCloseIs(s.closed, c, s.now[c])

ReadsTrue ==
  /\ DOMAIN asking = Slots /\ asking = [s \in Slots |-> asking[s]]
  /\ \A s \in Slots : ReadSound(asking[s], realised)
  /\ ReadSound(sum, realised) /\ sum.pc \in {"idle", "reply"}

PanelInv == DealsTrue /\ ReadsTrue

-----------------------------------------------------------------------------
LEMMA NoReadSound == ASSUME NEW n PROVE ReadSound(NoRead, n) /\ NoRead.pc = "idle"
BY DEF NoRead, ReadSound

LEMMA SentSound == ASSUME NEW n PROVE ReadSound([NoRead EXCEPT !.pc = "sent"], n)
BY DEF NoRead, ReadSound

LEMMA PanelInitInv == PanelInit => PanelInv
<1> SUFFICES ASSUME PanelInit PROVE PanelInv
  OBVIOUS
<1>1. /\ realised = [c \in PanelContracts |-> 0] /\ closedRows = <<>>
      /\ asking = [s \in Slots |-> NoRead] /\ sum = NoRead
  BY DEF PanelInit
<1>2. DealsTrue
  BY <1>1 DEF DealsTrue, LastCloseIs
<1>3. ReadsTrue
  BY <1>1, NoReadSound DEF ReadsTrue
<1> QED
  BY <1>2, <1>3 DEF PanelInv

(* The count only grows.                                                   *)
LEMMA CountGrows ==
  ASSUME NEW s, NEW n \in [PanelContracts -> Nat], NEW m \in [PanelContracts -> Nat],
         ReadSound(s, n), \A c \in PanelContracts : n[c] <= m[c]
  PROVE  ReadSound(s, m)
<1>1. ASSUME s.pc = "half", NEW c \in PanelContracts PROVE s.was[c] <= m[c]
  <2>1. s.was[c] \in Nat /\ s.was[c] <= n[c] /\ n[c] <= m[c] /\ n[c] \in Nat /\ m[c] \in Nat
    BY <1>1 DEF ReadSound
  <2> QED
    BY <2>1
<1> QED
  BY <1>1 DEF ReadSound

LEMMA DealKeeps ==
  ASSUME PanelInv, NEW c \in PanelContracts, OpenDeal(c) \/ CloseDeal(c) PROVE PanelInv'
<1> USE DEF PanelInv
<1>1. CASE OpenDeal(c)
  BY <1>1 DEF OpenDeal, DealsTrue, ReadsTrue
<1>2. CASE CloseDeal(c)
  <2> DEFINE row == [contract |-> c, pnl |-> realised[c] + 1]
  <2>1. realised' = [realised EXCEPT ![c] = @ + 1] /\ UNCHANGED <<asking, sum>>
    BY <1>2 DEF CloseDeal
  <2>2. realised' \in [PanelContracts -> Nat] /\ realised'[c] = realised[c] + 1
        /\ \A d \in PanelContracts : realised[d] <= realised'[d] /\ (d # c => realised'[d] = realised[d])
    BY <2>1 DEF DealsTrue
  <2>3. closedRows' = Append(closedRows, row)
    BY <1>2, <2>2 DEF CloseDeal
  <2>4. row \in CloseRows /\ row.contract = c /\ row.pnl = realised'[c]
    BY <2>2 DEF CloseRows, DealsTrue
  <2> HIDE DEF row
  <2> DEFINE n == Len(closedRows)
  <2>5. /\ n \in Nat /\ DOMAIN closedRows = 1..n /\ closedRows' \in Seq(CloseRows) /\ Len(closedRows') = n + 1
        /\ DOMAIN closedRows' = 1..(n + 1) /\ closedRows'[n + 1] = row
        /\ \A i \in 1..n : closedRows'[i] = closedRows[i]
    BY <2>3, <2>4 DEF DealsTrue
  <2> HIDE DEF n
  <2>6. ASSUME NEW d \in PanelContracts PROVE LastCloseIs(closedRows', d, realised'[d])
    <3>1. CASE d = c
      <4>1. \A k \in ((n + 1) + 1)..(n + 1) : FALSE
        BY <2>5
      <4> QED
        BY <2>4, <2>5, <3>1, <4>1 DEF LastCloseIs
    <3>2. CASE d # c
      <4>1. LastCloseIs(closedRows, d, realised[d]) /\ realised'[d] = realised[d]
        BY <2>2, <3>2 DEF DealsTrue
      <4>2. CASE realised[d] = 0 /\ \A k \in DOMAIN closedRows : closedRows[k].contract # d
        <5>1. \A k \in 1..(n + 1) : closedRows'[k].contract # d
          BY <2>4, <2>5, <3>2, <4>2
        <5> QED
          BY <2>5, <4>1, <4>2, <5>1 DEF LastCloseIs
      <4>3. ASSUME NEW j \in 1..n, closedRows[j].contract = d, closedRows[j].pnl = realised[d],
                   \A k \in (j + 1)..n : closedRows[k].contract # d
            PROVE  LastCloseIs(closedRows', d, realised'[d])
        <5>1. \A k \in (j + 1)..(n + 1) : closedRows'[k].contract # d
          BY <2>4, <2>5, <3>2, <4>3
        <5>2. j \in DOMAIN closedRows' /\ closedRows'[j] = closedRows[j]
          BY <2>5
        <5> QED
          BY <2>5, <4>1, <4>3, <5>1, <5>2 DEF LastCloseIs
      <4> QED
        BY <2>5, <4>1, <4>2, <4>3 DEF LastCloseIs, n
    <3> QED
      BY <3>1, <3>2
  <2>7. DealsTrue'
    BY <2>2, <2>5, <2>6 DEF DealsTrue
  <2>8. \A s : ReadSound(s, realised) => ReadSound(s, realised')
    <3>1. PICK m : m = realised'
      OBVIOUS
    <3> QED
      BY <2>2, <3>1, CountGrows DEF DealsTrue
  <2> QED
    BY <2>1, <2>7, <2>8 DEF ReadsTrue
<1> QED
  BY <1>1, <1>2

(* One summary goes on.                                                    *)
LEMMA ReadMoves ==
  ASSUME PanelInv, UNCHANGED <<realised, closedRows>>, NEW s \in Slots, NEW r, ReadSound(r, realised),
         asking' = [asking EXCEPT ![s] = r],
         sum' = sum \/ (ReadSound(sum', realised) /\ sum'.pc = "reply")
  PROVE  PanelInv'
BY DEF PanelInv, DealsTrue, ReadsTrue

LEMMA NoReadMoves ==
  ASSUME PanelInv, UNCHANGED <<realised, closedRows, asking, sum>> PROVE PanelInv'
BY DEF PanelInv, DealsTrue, ReadsTrue

LEMMA SumAskKeeps ==
  ASSUME PanelInv, UNCHANGED <<realised, closedRows, sum>>, Ask \/ UNCHANGED asking PROVE PanelInv'
BY SentSound, ReadMoves, NoReadMoves DEF Ask, Free

LEMMA SumReadKeeps ==
  ASSUME PanelInv, NEW s \in Slots, ServerSteps(s) \/ ShowReply(s) \/ AskFails(s) PROVE PanelInv'
<1>1. ReadSound(asking[s], realised)
  BY DEF PanelInv, ReadsTrue
<1>2. CASE ReadOpenRows(s)
  <2> DEFINE r == [asking[s] EXCEPT !.pc = "half", !.open = openRows, !.was = realised]
  <2>1. asking' = [asking EXCEPT ![s] = r] /\ UNCHANGED <<realised, closedRows, sum>>
    BY <1>2 DEF ReadOpenRows, rowVars
  <2>2. DOMAIN r = {"pc", "open", "was", "closed", "now"} /\ r.pc = "half" /\ r.was = realised
    BY <1>1 DEF ReadSound
  <2> HIDE DEF r
  <2>3. ReadSound(r, realised)
    BY <2>2 DEF ReadSound, PanelInv, DealsTrue
  <2> QED
    BY <2>1, <2>3, ReadMoves
<1>3. CASE ReadClosedRows(s)
  <2> DEFINE r == [asking[s] EXCEPT !.pc = "reply", !.closed = closedRows, !.now = realised]
  <2>1. /\ asking[s].pc = "half" /\ asking' = [asking EXCEPT ![s] = r]
        /\ UNCHANGED <<realised, closedRows, sum>>
    BY <1>3 DEF ReadClosedRows, rowVars
  <2>2. /\ DOMAIN r = {"pc", "open", "was", "closed", "now"} /\ r.pc = "reply"
        /\ r.was = asking[s].was /\ r.closed = closedRows /\ r.now = realised
    BY <1>1 DEF ReadSound
  <2> HIDE DEF r
  <2>3. ReadSound(r, realised)
    BY <1>1, <2>1, <2>2 DEF ReadSound, PanelInv, DealsTrue
  <2> QED
    BY <2>1, <2>3, ReadMoves
<1>4. CASE ShowReply(s)
  BY <1>1, <1>4, NoReadSound, ReadMoves DEF ShowReply, rowVars
<1>5. CASE AskFails(s)
  BY <1>5, NoReadSound, ReadMoves DEF AskFails, rowVars
<1> QED
  BY <1>2, <1>3, <1>4, <1>5 DEF ServerSteps

LEMMA PanelStepInv == PanelInv /\ [PanelNext]_panelVars => PanelInv'
<1> SUFFICES ASSUME PanelInv, [PanelNext]_panelVars PROVE PanelInv'
  OBVIOUS
<1>1. CASE PollSummary \/ ConsumeDone
  BY <1>1, SumAskKeeps DEF PollSummary, ConsumeDone, rowVars
<1>2. CASE HideTab \/ PostConsume
  BY <1>2, NoReadMoves DEF HideTab, PostConsume, rowVars
<1>3. CASE ShowTab
  BY <1>3, SumAskKeeps DEF ShowTab, rowVars
<1>4. CASE UNCHANGED panelVars
  BY <1>4, NoReadMoves DEF panelVars
<1> QED
  BY <1>1, <1>2, <1>3, <1>4, DealKeeps, SumReadKeeps DEF PanelNext

-----------------------------------------------------------------------------
(* The sum of what a set of at most one row has.                           *)
LEMMA SumOfOne ==
  ASSUME NEW r, r.pnl \in Nat PROVE MapThenSumSet(LAMBDA q : q.pnl, {r}) = r.pnl
<1> DEFINE pnl(q) == q.pnl
           S == {r}
           f == [q \in S |-> pnl(q)]
<1>1. MapThenSumSet(LAMBDA q : pnl(q), S) = SumOf(f, S)
  <2> HIDE DEF pnl, S
  <2> QED
    BY DEF MapThenSumSet, MapThenFoldSet, SumOf, Adds, Pick
<1>2. SumOf(f, {} \cup {r}) = f[r] + SumOf(f, {})
  <2>1. Summable(f, {}) /\ f[r] = r.pnl /\ f[r] \in Int
    BY FS_EmptySet DEF Summable
  <2> HIDE DEF f
  <2> QED
    BY <2>1, SumOfOneMore
<1>3. SumOf(f, {}) = 0
  BY SumOfNone
<1> QED
  BY <1>1, <1>2, <1>3

LEMMA SumOfNothing == MapThenSumSet(LAMBDA q : q.pnl, {}) = 0
<1> DEFINE pnl(q) == q.pnl
<1>1. ASSUME NEW S PROVE MapThenSumSet(LAMBDA q : pnl(q), S) = SumOf([q \in S |-> pnl(q)], S)
  <2> HIDE DEF pnl
  <2> QED
    BY DEF MapThenSumSet, MapThenFoldSet, SumOf, Adds, Pick
<1> QED
  BY <1>1, SumOfNone

LEMMA LatestIs ==
  ASSUME NEW closes \in Seq(CloseRows), NEW c, NEW n, LastCloseIs(closes, c, n)
  PROVE  \/ n = 0 /\ {r \in LatestClose(closes) : r.contract = c} = {}
         \/ \E r : r.pnl = n /\ {q \in LatestClose(closes) : q.contract = c} = {r}
<1>1. Len(closes) \in Nat /\ DOMAIN closes = 1..Len(closes)
  OBVIOUS
<1>2. CASE n = 0 /\ \A k \in DOMAIN closes : closes[k].contract # c
  BY <1>2 DEF LatestClose
<1>3. ASSUME NEW j \in DOMAIN closes, closes[j].contract = c, closes[j].pnl = n,
             \A k \in (j + 1)..Len(closes) : closes[k].contract # c
      PROVE  {q \in LatestClose(closes) : q.contract = c} = {closes[j]}
  <2>1. closes[j] \in LatestClose(closes)
    BY <1>3 DEF LatestClose
  <2>2. ASSUME NEW i \in DOMAIN closes, \A k \in (i + 1)..Len(closes) : closes[k].contract # closes[i].contract,
               closes[i].contract = c
        PROVE  i = j
    <3>1. ~(i < j)
      BY <1>1, <1>3, <2>2
    <3>2. ~(j < i)
      BY <1>1, <1>3, <2>2
    <3> QED
      BY <1>1, <3>1, <3>2
  <2> QED
    BY <1>3, <2>1, <2>2 DEF LatestClose
<1> QED
  BY <1>2, <1>3 DEF LastCloseIs

LEMMA PanelInvSound == PanelInv => DayCountsOnce
<1> SUFFICES ASSUME PanelInv, NEW c \in PanelContracts, sum.pc = "reply"
    PROVE  Counted(sum, c) \in sum.was[c]..sum.now[c]
  BY DEF DayCountsOnce
<1>1. /\ sum.was[c] \in Nat /\ sum.now[c] \in Nat /\ sum.was[c] <= sum.now[c] /\ sum.closed \in Seq(CloseRows)
      /\ LastCloseIs(sum.closed, c, sum.now[c])
  BY DEF PanelInv, ReadsTrue, ReadSound
<1> DEFINE closes == {r \in Flat(sum) : r.contract = c}
<1>2. CASE c \in sum.open
  <2>1. closes = {}
    BY <1>2 DEF Flat
  <2>2. MapThenSumSet(LAMBDA q : q.pnl, closes) = 0
    BY <2>1, SumOfNothing
  <2> QED
    BY <1>1, <1>2, <2>2 DEF Counted
<1>3. CASE c \notin sum.open
  <2>1. closes = {r \in LatestClose(sum.closed) : r.contract = c}
    BY <1>3 DEF Flat
  <2>2. \/ sum.now[c] = 0 /\ closes = {}
        \/ \E r : r.pnl = sum.now[c] /\ closes = {r}
    BY <1>1, <2>1, LatestIs
  <2>3. MapThenSumSet(LAMBDA q : q.pnl, closes) = sum.now[c]
    BY <1>1, <2>2, SumOfNothing, SumOfOne
  <2> QED
    BY <1>1, <1>3, <2>3 DEF Counted
<1> QED
  BY <1>2, <1>3

-----------------------------------------------------------------------------
(* The Replay Lab.  A request that is alone is the only one in flight and  *)
(* was sent for what is selected; while calm every request is.             *)
AskSelected(a) ==
  a.kind = "timeline" => a.u = replay.u /\ a.e = replay.e /\ a.d = replay.day
AskKinds == {"dates", "timeline", "cursor", "load"}

AskTyped(a) ==
  /\ DOMAIN a = {"nth", "kind", "u", "e", "d", "what", "alone"}
  /\ a.kind \in AskKinds /\ a.alone \in BOOLEAN

AsksTrue ==
  /\ \A a \in asks : AskTyped(a)
  /\ \A a \in asks : a.alone = TRUE => asks = {a} /\ AskSelected(a)
  /\ calm => \A a \in asks : a.alone = TRUE

ReplayTyped ==
  /\ DOMAIN replay = {"u", "e", "day", "days"} /\ DOMAIN reel = DOMAIN EmptyReel
  /\ reel.at \in Nat /\ calm \in BOOLEAN

(* The timeline shown is the selected one, unless a request under way will *)
(* put it right; a fetch under way is of the cursor's capture.             *)
ReelTrue ==
  calm =>
    /\ reel.list = <<>> => reel.picture = NoCapture
    /\ reel.list # <<>> =>
         \/ reel.list = ReplayTimeline(replay.u, replay.e, replay.day)
         \/ \E a \in asks : a.kind = "timeline" \/ (a.kind = "dates" /\ a.what = "init")
    /\ \A a \in asks :
         /\ a.kind = "dates" /\ a.what # "init" => reel.list = <<>>
         /\ a.kind \in {"cursor", "load"} =>
              reel.list # <<>> /\ reel.list = ReplayTimeline(replay.u, replay.e, replay.day)
              /\ a.what = reel.list[reel.at + 1]
    /\ asks = {} /\ ~replayError /\ reel.list # <<>> => reel.picture = reel.list[reel.at + 1]

ReplayInv == ReplayTyped /\ AsksTrue /\ ReelTrue

-----------------------------------------------------------------------------
(* What SendAsk sends differs from what it is given in its number only.    *)
SentAs(b, kind, u, e, d, what, alone) ==
  /\ AskTyped(b)
  /\ b.kind = kind /\ b.u = u /\ b.e = e /\ b.d = d /\ b.what = what /\ b.alone = alone

LEMMA LabSent ==
  ASSUME NEW others, NEW kind \in AskKinds, NEW u, NEW e, NEW d, NEW what, NEW alone \in BOOLEAN
  PROVE  \E b : SendAsk(others, LabRequest(kind, u, e, d, what, alone)) = others \cup {b}
                /\ SentAs(b, kind, u, e, d, what, alone)
<1> DEFINE a == LabRequest(kind, u, e, d, what, alone)
<1>1. SentAs(a, kind, u, e, d, what, alone)
  BY DEF LabRequest, SentAs, AskTyped
<1> HIDE DEF a
<1>2. \E n : SendAsk(others, a) = others \cup {[a EXCEPT !.nth = n]}
  BY DEF SendAsk
<1>3. \A n : SentAs([a EXCEPT !.nth = n], kind, u, e, d, what, alone)
  BY <1>1 DEF SentAs, AskTyped
<1> QED
  BY <1>2, <1>3 DEF a

LEMMA LabOverlap ==
  ASSUME AsksTrue
  PROVE  /\ \A b \in Overlapped : AskTyped(b) /\ b.alone = FALSE
         /\ Overlapped = {} <=> asks = {}
<1>1. ASSUME NEW a \in asks PROVE AskTyped([a EXCEPT !.alone = FALSE]) /\ [a EXCEPT !.alone = FALSE].alone = FALSE
  BY DEF AsksTrue, AskTyped
<1> QED
  BY <1>1 DEF Overlapped

(* An act that sends a request, or none, with those in flight overlapped.  *)
LEMMA ActAsks ==
  ASSUME AsksTrue, calm' => asks = {},
         \/ asks' = Overlapped
         \/ \E b : asks' = Overlapped \cup {b} /\ AskTyped(b) /\ b.alone = (asks = {}) /\ AskSelected(b)'
  PROVE  AsksTrue'
<1>1. CASE asks' = Overlapped
  BY <1>1, LabOverlap DEF AsksTrue
<1>2. ASSUME NEW b, asks' = Overlapped \cup {b}, AskTyped(b), b.alone = (asks = {}), AskSelected(b)'
      PROVE  AsksTrue'
  <2>1. CASE asks = {}
    BY <1>2, <2>1, LabOverlap DEF AsksTrue
  <2>2. CASE asks # {}
    BY <1>2, <2>2, LabOverlap DEF AsksTrue
  <2> QED
    BY <2>1, <2>2
<1> QED
  BY <1>1, <1>2

(* A reply taken, and perhaps a request sent on with its rank.             *)
LEMMA ReplyAsks ==
  ASSUME AsksTrue, NEW a \in asks, calm' => a.alone = TRUE,
         \/ asks' = asks \ {a}
         \/ \E b : asks' = (asks \ {a}) \cup {b} /\ AskTyped(b) /\ b.alone = a.alone /\ AskSelected(b)'
  PROVE  AsksTrue'
<1>1. a.alone = TRUE => asks = {a}
  BY DEF AsksTrue
<1>2. a.alone # TRUE => \A c \in asks : c.alone # TRUE
  BY DEF AsksTrue
<1>3. CASE asks' = asks \ {a}
  BY <1>1, <1>2, <1>3 DEF AsksTrue
<1>4. ASSUME NEW b, asks' = (asks \ {a}) \cup {b}, AskTyped(b), b.alone = a.alone, AskSelected(b)'
      PROVE  AsksTrue'
  <2>1. CASE a.alone = TRUE
    BY <1>1, <1>4, <2>1 DEF AsksTrue
  <2>2. CASE a.alone # TRUE
    BY <1>2, <1>4, <2>2 DEF AsksTrue
  <2> QED
    BY <2>1, <2>2
<1> QED
  BY <1>3, <1>4

(* With nothing in flight a timeline shown is the one selected.            *)
LEMMA AtRest ==
  ASSUME ReelTrue, calm, asks = {}, reel.list # <<>>
  PROVE  reel.list = ReplayTimeline(replay.u, replay.e, replay.day)
BY DEF ReelTrue

LEMMA CalmIsAlone == ASSUME AsksTrue, calm, NEW a \in asks PROVE a.alone = TRUE /\ asks = {a} /\ AskSelected(a)
BY DEF AsksTrue

-----------------------------------------------------------------------------
LEMMA ReplayInitInv == ReplayInit => ReplayInv
BY DEF ReplayInit, ReplayInv, ReplayTyped, AsksTrue, ReelTrue, EmptyReel, NoCapture

LEMMA NothingAsked ==
  ASSUME ReplayInv, UNCHANGED <<replay, reel, replayError, asks, calm>> PROVE ReplayInv'
BY DEF ReplayInv, ReplayTyped, AsksTrue, ReelTrue, AskSelected

LEMMA InitKeeps == ASSUME ReplayInv, OpenLab \/ AuthUserKnown PROVE ReplayInv'
<1> USE DEF ReplayInv
<1>1. /\ asks' = SendAsk(Overlapped, LabRequest("dates", replay.u, replay.e, AnyDay, "init", asks = {}))
      /\ calm' = (calm /\ asks = {}) /\ UNCHANGED <<replay, reel, replayError>>
  BY DEF OpenLab, AuthUserKnown, InitializeReplay, DatesAsk
<1>2. PICK b : asks' = Overlapped \cup {b} /\ SentAs(b, "dates", replay.u, replay.e, AnyDay, "init", asks = {})
  BY <1>1, LabSent DEF AskKinds
<1>3. AsksTrue'
  BY <1>1, <1>2, ActAsks DEF SentAs, AskSelected
<1>4. ReelTrue'
  <2> SUFFICES ASSUME calm' PROVE ReelTrue'
    BY DEF ReelTrue
  <2>1. calm /\ asks' = {b}
    BY <1>1, <1>2, LabOverlap
  <2> QED
    BY <1>1, <1>2, <2>1 DEF ReelTrue, SentAs
<1> QED
  BY <1>1, <1>3, <1>4 DEF ReplayTyped

LEMMA ClearKeeps ==
  ASSUME ReplayInv,
         (\E u, e : UnderlyingShown(u, e)) \/ (\E e : PickExpiry(e)) \/ (\E d : PickDay(d))
  PROVE  ReplayInv'
<1> USE DEF ReplayInv
<1>1. /\ reel' = EmptyReel /\ calm' = (asks = {}) /\ DOMAIN replay' = {"u", "e", "day", "days"}
      /\ \/ asks' = Overlapped
         \/ \E u, e, what : asks' = SendAsk(Overlapped, LabRequest("dates", u, e, AnyDay, what, asks = {}))
  <2>1. CASE \E u, e : UnderlyingShown(u, e)
    BY <2>1 DEF UnderlyingShown, DatesAsk, ClearedReel
  <2>2. CASE \E e : PickExpiry(e)
    BY <2>2 DEF PickExpiry, DatesAsk, ReplayTyped
  <2>3. CASE \E d : PickDay(d)
    BY <2>3 DEF PickDay, ReplayTyped
  <2> QED
    BY <2>1, <2>2, <2>3
<1>2. \/ asks' = Overlapped
      \/ \E b : asks' = Overlapped \cup {b} /\ AskTyped(b) /\ b.kind = "dates" /\ b.alone = (asks = {})
  <2>1. ASSUME NEW u, NEW e, NEW what, asks' = SendAsk(Overlapped, LabRequest("dates", u, e, AnyDay, what, asks = {}))
        PROVE  \E b : asks' = Overlapped \cup {b} /\ AskTyped(b) /\ b.kind = "dates" /\ b.alone = (asks = {})
    <3>1. PICK b : asks' = Overlapped \cup {b} /\ SentAs(b, "dates", u, e, AnyDay, what, asks = {})
      BY <2>1, LabSent DEF AskKinds
    <3> QED
      BY <3>1 DEF SentAs
  <2> QED
    BY <1>1, <2>1
<1>3. AsksTrue'
  BY <1>1, <1>2, ActAsks DEF AskSelected
<1>4. reel'.list = <<>> /\ reel'.picture = NoCapture /\ reel'.at = 0 /\ DOMAIN reel' = DOMAIN EmptyReel
  BY <1>1 DEF EmptyReel
<1>5. ReelTrue'
  <2> SUFFICES ASSUME calm' PROVE ReelTrue'
    BY DEF ReelTrue
  <2>1. \A b \in asks' : b.kind = "dates"
    BY <1>1, <1>2, LabOverlap
  <2> QED
    BY <1>4, <2>1 DEF ReelTrue
<1> QED
  BY <1>1, <1>3, <1>4, <1>5 DEF ReplayTyped

LEMMA ReplayLoadKeeps == ASSUME ReplayInv, LoadReplay PROVE ReplayInv'
<1> USE DEF ReplayInv
<1>1. /\ asks' = SendAsk(Overlapped, LabRequest("timeline", replay.u, replay.e, replay.day, "all", asks = {}))
      /\ calm' = (calm /\ asks = {}) /\ UNCHANGED <<replay, reel>>
  BY DEF LoadReplay, TimelineAsk
<1>2. PICK b : asks' = Overlapped \cup {b}
               /\ SentAs(b, "timeline", replay.u, replay.e, replay.day, "all", asks = {})
  BY <1>1, LabSent DEF AskKinds
<1>3. AsksTrue'
  BY <1>1, <1>2, ActAsks DEF SentAs, AskSelected
<1>4. ReelTrue'
  <2> SUFFICES ASSUME calm' PROVE ReelTrue'
    BY DEF ReelTrue
  <2>1. calm /\ asks' = {b}
    BY <1>1, <1>2, LabOverlap
  <2> QED
    BY <1>1, <1>2, <2>1 DEF ReelTrue, SentAs
<1> QED
  BY <1>1, <1>3, <1>4 DEF ReplayTyped

LEMMA LoadAtKeeps ==
  ASSUME ReplayInv, NEW i \in Nat, LoadAt(i), UNCHANGED replay
  PROVE  ReplayInv'
<1> USE DEF ReplayInv
<1>1. CASE ~(i < Len(reel.list))
  BY <1>1, NothingAsked DEF LoadAt
<1>2. CASE i < Len(reel.list)
  <2> DEFINE c == reel.list[i + 1]
  <2>1. /\ reel' = [reel EXCEPT !.at = i, !.start = c]
        /\ asks' = SendAsk(Overlapped, LabRequest("cursor", c[1], c[2], c[3], c, asks = {}))
        /\ calm' = (calm /\ asks = {})
    BY <1>2 DEF LoadAt, CaptureAsk
  <2>2. /\ reel'.list = reel.list /\ reel'.at = i /\ reel'.picture = reel.picture
        /\ DOMAIN reel' = DOMAIN EmptyReel
    BY <2>1 DEF ReplayTyped, EmptyReel
  <2>3. PICK b : asks' = Overlapped \cup {b} /\ SentAs(b, "cursor", c[1], c[2], c[3], c, asks = {})
    BY <2>1, LabSent DEF AskKinds
  <2>4. AsksTrue'
    BY <2>1, <2>3, ActAsks DEF SentAs, AskSelected
  <2>5. reel.list # <<>>
    BY <1>2
  <2>6. ReelTrue'
    <3> SUFFICES ASSUME calm' PROVE ReelTrue'
      BY DEF ReelTrue
    <3>1. calm /\ asks = {} /\ asks' = {b}
      BY <2>1, <2>3, LabOverlap
    <3>2. reel'.list = ReplayTimeline(replay.u, replay.e, replay.day)'
      BY <2>2, <2>5, <3>1, AtRest
    <3>3. b.kind = "cursor" /\ b.what = reel'.list[reel'.at + 1]
      BY <2>2, <2>3 DEF SentAs
    <3> QED
      BY <2>2, <2>5, <3>1, <3>2, <3>3 DEF ReelTrue
  <2> QED
    BY <2>1, <2>2, <2>4, <2>6 DEF ReplayTyped
<1> QED
  BY <1>1, <1>2

-----------------------------------------------------------------------------
LEMMA DatesKeep == ASSUME ReplayInv, NEW a \in asks, DatesCome(a) \/ DatesFail(a) PROVE ReplayInv'
<1> USE DEF ReplayInv
<1>1. /\ a.kind = "dates" /\ UNCHANGED <<reel, calm>> /\ DOMAIN replay' = DOMAIN replay
      /\ replay'.u = replay.u /\ replay'.e = replay.e
      /\ \/ a.what = "init" /\ asks' = SendAsk(asks \ {a}, LabRequest("timeline", replay.u, replay.e, replay'.day, "all", a.alone))
         \/ a.what # "init" /\ asks' = asks \ {a}
  <2>1. CASE DatesCome(a)
    BY <2>1 DEF DatesCome, ContinueInit, TimelineAsk, ReplayTyped
  <2>2. CASE DatesFail(a)
    BY <2>2 DEF DatesFail, ContinueInit, TimelineAsk
  <2> QED
    BY <2>1, <2>2
<1>2. a.alone \in BOOLEAN
  BY DEF AsksTrue, AskTyped
<1>3. calm => a.alone = TRUE /\ asks = {a}
  BY CalmIsAlone
<1>4. CASE a.what = "init"
  <2>1. PICK b : asks' = (asks \ {a}) \cup {b}
                 /\ SentAs(b, "timeline", replay.u, replay.e, replay'.day, "all", a.alone)
    <3>1. PICK day : day = replay'.day
      OBVIOUS
    <3>2. asks' = SendAsk(asks \ {a}, LabRequest("timeline", replay.u, replay.e, day, "all", a.alone))
      BY <1>1, <1>4, <3>1
    <3>3. "timeline" \in AskKinds
      BY DEF AskKinds
    <3>4. PICK b : SendAsk(asks \ {a}, LabRequest("timeline", replay.u, replay.e, day, "all", a.alone))
                     = (asks \ {a}) \cup {b}
                   /\ SentAs(b, "timeline", replay.u, replay.e, day, "all", a.alone)
      BY <1>2, <3>3, LabSent
    <3> QED
      BY <3>1, <3>2, <3>4
  <2>2. AsksTrue'
    BY <1>1, <1>3, <2>1, ReplyAsks DEF SentAs, AskSelected
  <2>3. calm => asks' = {b} /\ b.kind = "timeline"
    BY <1>3, <2>1 DEF SentAs
  <2>4. ReelTrue'
    BY <1>1, <2>3 DEF ReelTrue
  <2> QED
    BY <1>1, <2>2, <2>4 DEF ReplayTyped
<1>5. CASE a.what # "init"
  <2>1. AsksTrue'
    BY <1>1, <1>3, <1>5, ReplyAsks
  <2>2. calm => asks' = {} /\ reel.list = <<>>
    BY <1>1, <1>3, <1>5 DEF ReelTrue
  <2>3. ReelTrue'
    BY <1>1, <2>2 DEF ReelTrue
  <2> QED
    BY <1>1, <2>1, <2>3 DEF ReplayTyped
<1> QED
  BY <1>4, <1>5

LEMMA CursorIsIn ==
  ASSUME NEW u, NEW e, NEW d, NEW c PROVE CursorIn(c, ReplayTimeline(u, e, d)) - 1 \in Nat
<1> DEFINE list == ReplayTimeline(u, e, d)
<1>1. \A i \in DOMAIN list : i \in Int /\ 1 <= i
  BY DEF ReplayTimeline, Reverse
<1> HIDE DEF list
<1> QED
  BY <1>1 DEF CursorIn, list

LEMMA TimelineKeeps == ASSUME ReplayInv, NEW a \in asks, TimelineComes(a) \/ TimelineFails(a) PROVE ReplayInv'
<1> USE DEF ReplayInv
<1>1. a.alone \in BOOLEAN /\ (a.alone = TRUE => asks = {a} /\ AskSelected(a))
  BY DEF AsksTrue, AskTyped
<1>2. CASE TimelineFails(a)
  <2>1. asks' = asks \ {a} /\ calm' = (calm /\ reel.list = <<>>) /\ UNCHANGED <<replay, reel>>
    BY <1>2 DEF TimelineFails
  <2>2. calm => a.alone = TRUE /\ asks = {a}
    BY CalmIsAlone
  <2>3. AsksTrue'
    BY <2>1, <2>2, ReplyAsks
  <2>4. ReelTrue'
    BY <2>1, <2>2 DEF ReelTrue
  <2> QED
    BY <2>1, <2>3, <2>4 DEF ReplayTyped
<1>3. CASE TimelineComes(a)
  <2> DEFINE list == ReplayTimeline(a.u, a.e, a.d)
             i == CursorIn(reel.start, list)
  <2>1. a.kind = "timeline" /\ calm' = a.alone /\ UNCHANGED replay
    BY <1>3 DEF TimelineComes
  <2>2. calm' => list = ReplayTimeline(replay.u, replay.e, replay.day)' /\ asks = {a} /\ a.alone = TRUE
    BY <1>1, <2>1 DEF AskSelected
  <2>3. i - 1 \in Nat
    BY CursorIsIn
  <2>4. CASE list = <<>>
    <3>1. reel' = [reel EXCEPT !.list = list, !.at = 0, !.picture = NoCapture] /\ asks' = asks \ {a}
      BY <1>3, <2>4 DEF TimelineComes
    <3>2. reel'.list = <<>> /\ reel'.at = 0 /\ reel'.picture = NoCapture /\ DOMAIN reel' = DOMAIN EmptyReel
      BY <2>4, <3>1 DEF ReplayTyped, EmptyReel
    <3>3. AsksTrue'
      BY <2>2, <3>1, ReplyAsks
    <3>4. calm' => asks' = {}
      BY <2>2, <3>1
    <3>5. ReelTrue'
      BY <3>2, <3>4 DEF ReelTrue
    <3> QED
      BY <1>1, <2>1, <3>2, <3>3, <3>5 DEF ReplayTyped
  <2>5. CASE list # <<>>
    <3> DEFINE c == list[i]
    <3>1. /\ reel' = [reel EXCEPT !.list = list, !.at = i - 1, !.start = c]
          /\ asks' = SendAsk(asks \ {a}, LabRequest("load", c[1], c[2], c[3], c, a.alone))
      BY <1>3, <2>5 DEF TimelineComes, CaptureAsk
    <3> HIDE DEF list, i
    <3>2. reel'.list = list /\ reel'.at = i - 1 /\ DOMAIN reel' = DOMAIN EmptyReel
      BY <3>1 DEF ReplayTyped, EmptyReel
    <3>3. PICK b : asks' = (asks \ {a}) \cup {b} /\ SentAs(b, "load", c[1], c[2], c[3], c, a.alone)
      BY <1>1, <3>1, LabSent DEF AskKinds
    <3>4. AsksTrue'
      BY <2>2, <3>3, ReplyAsks DEF SentAs, AskSelected
    <3>5. (i - 1) + 1 = i
      <4>1. CursorIn(reel.start, list) \in Int
        <5>1. \A j \in DOMAIN list : j \in Int
          BY DEF list, ReplayTimeline, Reverse
        <5> QED
          BY <5>1 DEF CursorIn
      <4> QED
        BY <4>1 DEF i
    <3>6. ReelTrue'
      <4> SUFFICES ASSUME calm' PROVE ReelTrue'
        BY DEF ReelTrue
      <4>1. asks' = {b} /\ b.kind = "load" /\ b.what = list[i]
        BY <2>2, <3>3 DEF SentAs
      <4>2. b.what = reel'.list[reel'.at + 1]
        BY <3>2, <3>5, <4>1
      <4> QED
        BY <2>2, <2>5, <3>2, <4>1, <4>2 DEF ReelTrue
    <3> QED
      BY <1>1, <2>1, <2>3, <3>2, <3>4, <3>6 DEF ReplayTyped
  <2> QED
    BY <2>4, <2>5
<1> QED
  BY <1>2, <1>3

LEMMA CaptureKeeps == ASSUME ReplayInv, NEW a \in asks, CaptureComes(a) \/ CaptureFails(a) PROVE ReplayInv'
<1> USE DEF ReplayInv
<1>1. /\ a.kind \in {"cursor", "load"} /\ asks' = asks \ {a} /\ UNCHANGED <<replay, calm>>
      /\ reel'.list = reel.list /\ reel'.at = reel.at /\ DOMAIN reel' = DOMAIN EmptyReel
      /\ (replayError' = TRUE \/ reel'.picture = a.what)
  BY DEF CaptureComes, CaptureFails, ReplayTyped, EmptyReel
<1>2. calm => a.alone = TRUE /\ asks = {a}
  BY CalmIsAlone
<1>3. AsksTrue'
  BY <1>1, <1>2, ReplyAsks
<1>4. ReelTrue'
  BY <1>1, <1>2 DEF ReelTrue
<1> QED
  BY <1>1, <1>3, <1>4 DEF ReplayTyped

LEMMA ReplayStepInv == ReplayInv /\ [ReplayNext]_replayVars => ReplayInv'
<1> SUFFICES ASSUME ReplayInv, [ReplayNext]_replayVars PROVE ReplayInv'
  OBVIOUS
<1>1. CASE LeaveLab \/ TogglePlay \/ UNCHANGED replayVars
  BY <1>1, NothingAsked DEF LeaveLab, TogglePlay, replayVars
<1>2. ASSUME NEW i \in 0..Len(reel.list), Scrub(i) PROVE ReplayInv'
  <2>1. i \in Nat /\ LoadAt(i) /\ UNCHANGED replay
    BY <1>2 DEF Scrub
  <2> QED
    BY <2>1, LoadAtKeeps
<1>3. CASE PlayTick
  <2>1. reel.at + 1 \in Nat
    BY DEF ReplayInv, ReplayTyped
  <2>2. CASE AtEnd(reel.at + 1)
    BY <1>3, <2>2, NothingAsked DEF PlayTick
  <2>3. CASE ~AtEnd(reel.at + 1)
    BY <1>3, <2>1, <2>3, LoadAtKeeps DEF PlayTick
  <2> QED
    BY <2>2, <2>3
<1>4. CASE ReplayUser
  BY <1>1, <1>2, <1>4, InitKeeps, ClearKeeps, ReplayLoadKeeps DEF ReplayUser
<1>5. CASE ReplayReply
  BY <1>5, DatesKeep, TimelineKeeps, CaptureKeeps DEF ReplayReply
<1> QED
  BY <1>1, <1>3, <1>4, <1>5 DEF ReplayNext

LEMMA ReplayInvSound == ReplayInv => ReplayAgrees
BY AtRest DEF ReplayInv, ReelTrue, ReplayAgrees

-----------------------------------------------------------------------------
(* What the simulator shows adds up, for any trades, prices, readings and  *)
(* order of jobs: the summary balances, the stress grid foretells the      *)
(* margin at a shifted spot and the marked rows keep the days apart.       *)
THEOREM ViewsAddUp == ViewSpec => []ViewsAreTrue
<1>1. MoneyInv /\ GridInv /\ RowsInv => ViewsAreTrue
  BY MoneyBalances, GridForetells DEF RowsInv, MarkedTrue, ViewsAreTrue
<1>2. ViewSpec => [](MoneyInv /\ GridInv)
  <2>1. ViewInit => MoneyInv /\ GridInv
    BY MoneyInitInv, GridInitInv
  <2>2. (MoneyInv /\ GridInv) /\ [ViewNext]_viewVars => (MoneyInv /\ GridInv)'
    BY MoneyStepInv, GridStepInv
  <2>. QED BY <2>1, <2>2, PTL DEF ViewSpec
<1>3. ViewSpec => []RowsInv
  BY RowsInit, RowsViewStep, PTL DEF ViewSpec
<1>. QED BY <1>1, <1>2, <1>3, PTL

-----------------------------------------------------------------------------
(* One part of the platform moves at a time, the others stutter.           *)
LEMMA OnePartMoves ==
  ASSUME [PlatformNext]_platformVars
  PROVE  /\ [CacheNext]_cacheVars /\ [AccountNext]_acctVars
         /\ [PageNext]_pageVars /\ [ViewNext]_viewVars /\ [PanelNext]_panelVars
         /\ [TicketNext \/ RowNext]_orderVars
         /\ [PaperTicketNext]_paperTicketVars /\ [TickerNext]_tickerVars /\ [ReplayNext]_replayVars
<1>1. CASE UNCHANGED platformVars
  BY <1>1 DEF platformVars, mostVars, extraVars
<1>2. CASE PlatformNext
  BY <1>2 DEF PlatformNext, ViewNext, mostVars, extraVars
<1>. QED BY <1>1, <1>2

(* What every part keeps, and what follows for whoever uses the platform.  *)
PageInv == TicketFetchTrue /\ SelectionTrue /\ WireTrue /\ RowsTrue /\ PanelInv /\ ReplayInv
PlatformInv ==
  MarketInv /\ SessionInv /\ TicketsInv /\ TickerInv /\ MoneyInv /\ GridInv /\ RowsInv /\ PageInv
PlatformSound ==
  /\ ResponseIsSound /\ SessionProven /\ TicketsAreSound /\ ChangeIsOfOneDay
  /\ ViewsAreTrue /\ PageIsHonest

LEMMA PageInvInit == PlatformInit => PageInv
BY PageInitTrue, SelectionInit, OrderInitTrue, PanelInitInv, ReplayInitInv DEF PlatformInit, PageInv

LEMMA PageInvStep == PageInv /\ [PlatformNext]_platformVars => PageInv'
BY OnePartMoves, PageStepTrue, SelectionStep, WireStep, RowsStep, PanelStepInv, ReplayStepInv DEF PageInv

LEMMA PageInvSound == PageInv => PageIsHonest
BY OrderSound, PanelInvSound, ReplayInvSound
   DEF PageInv, PageIsHonest, TicketFetchTrue, SelectionTrue, SelectionArrives

(* What the page settles on is what was asked last, and it enables again   *)
(* what it disabled, for any selections, replies and order of arrival.     *)
THEOREM PageIsAsAsked == PlatformSpec => []PageIsHonest
<1>. QED BY PageInvInit, PageInvStep, PageInvSound, PTL DEF PlatformSpec

(* And so in the composition: what the API answers is sound, no session is *)
(* of an address never verified, the paper tickets keep to their cap and   *)
(* show one margin, the ticker compares a price with the day before, what  *)
(* the simulator shows adds up and what the page settles on was asked last.*)
THEOREM PlatformIsSound == PlatformSpec => []PlatformSound
<1>1. PlatformInit => PlatformInv
  <2>1. PlatformInit => MarketInv /\ SessionInv /\ TicketsInv /\ TickerInv
    BY MarketInitInv, SessionInit, TicketsInit, TickerInitInv DEF PlatformInit
  <2>2. PlatformInit => MoneyInv /\ GridInv /\ RowsInv
    BY MoneyInitInv, GridInitInv, RowsInit DEF PlatformInit
  <2> QED
    BY <2>1, <2>2, PageInvInit DEF PlatformInv
<1>2. PlatformInv /\ [PlatformNext]_platformVars => PlatformInv'
  <2> SUFFICES ASSUME PlatformInv, [PlatformNext]_platformVars PROVE PlatformInv'
    OBVIOUS
  <2>1. MarketInv' /\ SessionInv' /\ TicketsInv' /\ TickerInv'
    BY OnePartMoves, MarketStepInv, SessionStep, TicketsStep, TickerStepInv DEF PlatformInv
  <2>2. MoneyInv' /\ GridInv' /\ RowsInv' /\ PageInv'
    BY OnePartMoves, MoneyStepInv, GridStepInv, RowsViewStep, PageInvStep DEF PlatformInv
  <2> QED
    BY <2>1, <2>2 DEF PlatformInv
<1>3. PlatformInv => PlatformSound
  <2> SUFFICES ASSUME PlatformInv PROVE PlatformSound
    OBVIOUS
  <2>1. ResponseIsSound /\ SessionProven /\ TicketsAreSound /\ ChangeIsOfOneDay
    BY MarketInvSound, TicketsInvSound, TickerInvSound DEF PlatformInv, SessionInv, TicketsAreSound
  <2>2. ViewsAreTrue
    BY MoneyBalances, GridForetells DEF PlatformInv, RowsInv, MarkedTrue, ViewsAreTrue
  <2> QED
    BY <2>1, <2>2, PageInvSound DEF PlatformInv, PlatformSound
<1>. QED BY <1>1, <1>2, <1>3, PTL DEF PlatformSpec

=============================================================================
