--------------------------- MODULE MCDesk_proofs ---------------------------
(***************************************************************************)
(* The live order desk, for any number of tabs, tickets, tokens, calls,    *)
(* contracts, panels and any times to live: the two-phase ticket, the link *)
(* to the broker, resize and panic, one call to Dhan, the live screen and  *)
(* the exit rules.  Each part has an inductive invariant of its own; what  *)
(* the desk promises as a whole follows part by part, since every step of  *)
(* MCDesk is a step of one of them.                                        *)
(***************************************************************************)
EXTENDS MCDesk, Sums

-----------------------------------------------------------------------------
(* The two-phase ticket: a token leads to one order, and a ticket shown    *)
(* over a settled book is not shown cheaper than it is.  The first rests   *)
(* on a token being held by one confirm at a time once it is spent, the    *)
(* second on a cached book margin being that of the book whenever the book *)
(* has not moved since.                                                    *)
Pricing == {"funds", "legs", "basket", "book", "quote"}
Confirming == {"spend", "rate", "insert"}

(* left and avail are not constrained.                                     *)
IsRequest(d) ==
  /\ d \in [pc : {"idle"} \cup Pricing \cup Confirming, ticket : Tickets \cup {NoTicket},
            token : Tokens \cup {None}, left : {d.left}, start : Int, avail : {d.avail},
            priced : Int, gross : Int, zeroed : BOOLEAN, basket : Int, amount : Int]
  /\ d.pc \in Pricing => d.ticket \in Tickets /\ d.start \in Nat
  /\ d.pc \in Confirming => d.token \in Tokens

DeskTyped ==
  /\ deskTime \in Nat /\ book \in Nat /\ lastMove \in Int
  /\ DOMAIN desk = Requests /\ desk = [r \in Requests |-> desk[r]]
  /\ \A r \in Requests : IsRequest(desk[r])
  /\ previews \in [Tokens -> [at : Int, net : Int, ticket : Tickets \cup {NoTicket}, still : BOOLEAN, short : BOOLEAN]]
  /\ spent \in [Tokens -> Nat]

(* A minted token has led to nothing and is not being placed; one that is  *)
(* being placed has led to nothing yet, and only one request places it.    *)
Places(r, tok) == desk[r].pc = "rate" /\ desk[r].token = tok

TokensHeld ==
  /\ \A tok \in Tokens : spent[tok] <= 1
  /\ \A tok \in Tokens : Minted(tok) => spent[tok] = 0 /\ \A r \in Requests : ~Places(r, tok)
  /\ \A r \in Requests, tok \in Tokens : Places(r, tok) => spent[tok] = 0
  /\ \A r, q \in Requests, tok \in Tokens : Places(r, tok) /\ Places(q, tok) => r = q

(* As long as no leg came back zero, the sum is that of the legs asked for,*)
(* and all of them have been asked for before the basket is.               *)
LegsTold(d) ==
  /\ d.pc \in {"funds", "legs"} => d.priced \in 0..(Len(d.ticket.margins) - 1)
  /\ d.pc = "funds" => d.priced = 0 /\ d.gross = 0
  /\ d.pc \in {"basket", "book", "quote"} => d.priced = Len(d.ticket.margins)
  /\ d.pc \in Pricing /\ ~d.zeroed => d.gross = SumOf(d.ticket.margins, 1..d.priced)

(* A preview's figures are those of the book, if it did not move since the *)
(* preview began; so is the cached margin, if it did not move since shortly*)
(* before it was kept.                                                     *)
Figures(d) ==
  /\ LegsTold(d)
  /\ d.pc \in Pricing => d.start <= deskTime /\ deskTime <= d.start + 1
  /\ d.pc \in {"book", "quote"} /\ lastMove < d.start =>
       d.basket \in {Positive(book + d.ticket.adds), 0}
  /\ d.pc = "quote" /\ lastMove < d.start => d.amount \in {book, None}

BaselineTrue ==
  /\ baseline \in [amount : Int, at : Int]
  /\ KeptBaseline => baseline.at <= deskTime
  /\ KeptBaseline /\ lastMove < baseline.at - 1 => baseline.amount = book

FiguresTrue ==
  /\ lastMove <= deskTime
  /\ \A r \in Requests : Figures(desk[r])
  /\ BaselineTrue
  /\ SettledBookPricedTrue

DeskInv == DeskTyped /\ TokensHeld /\ FiguresTrue

LEMMA DeskConstants ==
  /\ BaselineTtl \in Nat
  /\ \A t \in Tickets : t.adds \in Int
  /\ None = -1 /\ IsRequest(IdleRequest) /\ IdleRequest.pc = "idle"
  /\ NoToken \in [at : Int, net : Int, ticket : Tickets \cup {NoTicket}, still : BOOLEAN, short : BOOLEAN]
  /\ NoToken.at = None
BY DeskTimes, TicketMargins DEF None, IsRequest, IdleRequest, NoToken, Pricing, Confirming

LEMMA IdleTold == ASSUME NEW d, d.pc \notin Pricing PROVE LegsTold(d)
BY DEF LegsTold, Pricing

(* The legs one by one, none of them, and all of them.                     *)
LEMMA LegSums ==
  ASSUME NEW t \in Tickets
  PROVE  /\ Len(t.margins) \in Nat /\ Len(t.margins) >= 1
         /\ SumOf(t.margins, 1..0) = 0
         /\ \A i \in 0..(Len(t.margins) - 1) :
              /\ t.margins[i + 1] \in Nat
              /\ SumOf(t.margins, 1..(i + 1)) = SumOf(t.margins, 1..i) + t.margins[i + 1]
         /\ SumOf(t.margins, 1..Len(t.margins)) >= t.adds
<1> DEFINE m == t.margins
<1>1. m \in Seq(Nat) /\ m # << >> /\ Standalone(t) >= t.adds
  BY TicketMargins
<1>2. Len(m) \in Nat /\ DOMAIN m = 1..Len(m) /\ Len(m) >= 1 /\ m \in [1..Len(m) -> Nat]
  BY <1>1
<1>3. SumOf(m, 1..0) = 0
  <2>1. 1..0 = {}
    OBVIOUS
  <2> QED
    BY <2>1, SumOfNone
<1>4. ASSUME NEW i \in 0..(Len(m) - 1)
      PROVE  m[i + 1] \in Nat /\ SumOf(m, 1..(i + 1)) = SumOf(m, 1..i) + m[i + 1]
  <2>1. i \in Nat /\ i + 1 \in 1..Len(m)
    BY <1>2
  <2>2. m[i + 1] \in Nat
    BY <1>2, <2>1
  <2>3. IsFiniteSet(1..i)
    BY <2>1, FS_Interval
  <2>4. \A x \in 1..i : m[x] \in Int
    BY <1>2, <2>1
  <2>5. Summable(m, 1..i)
    BY <2>3, <2>4 DEF Summable
  <2>6. i + 1 \notin 1..i /\ (1..i) \cup {i + 1} = 1..(i + 1)
    BY <2>1
  <2> DEFINE S == 1..i
             j == i + 1
  <2>7. Summable(m, S) /\ j \notin S /\ m[j] \in Int
    BY <2>2, <2>5, <2>6
  <2> HIDE DEF m, S, j
  <2>8. SumOf(m, S \cup {j}) = m[j] + SumOf(m, S)
    BY <2>7, SumOfOneMore, Zenon
  <2>9. SumOf(m, S) \in Int
    BY <2>7, SumTyped
  <2>10. SumOf(m, S \cup {j}) = SumOf(m, S) + m[j]
    BY <2>7, <2>8, <2>9
  <2>11. S \cup {j} = 1..(i + 1)
    BY <2>6 DEF S, j
  <2>12. SumOf(m, 1..(i + 1)) = SumOf(m, 1..i) + m[i + 1]
    BY <2>10, <2>11 DEF S, j
  <2> QED
    BY <2>2, <2>12
<1>5. Standalone(t) = SumOf(m, 1..Len(m))
  <2> DEFINE g == [i \in DOMAIN m |-> m[i]]
  <2>1. Standalone(t) = SumOf(g, DOMAIN m)
    BY ZenonT(60) DEF Standalone, MapThenSumSet, MapThenFoldSet, SumOf, Adds, Pick
  <2>2. \A i \in DOMAIN m : g[i] = m[i]
    OBVIOUS
  <2>3. IsFiniteSet(DOMAIN m)
    BY <1>2, FS_Interval
  <2> HIDE DEF m, g
  <2>4. SumOf(g, DOMAIN m) = SumOf(m, DOMAIN m)
    BY <2>2, <2>3, SumSame
  <2> QED
    BY <1>2, <2>1, <2>4
<1> QED
  BY <1>1, <1>2, <1>3, <1>4, <1>5

LEMMA DeskInitInv == DeskInit => DeskInv
<1> SUFFICES ASSUME DeskInit PROVE DeskInv
  OBVIOUS
<1> USE DeskConstants
<1>1. DeskTyped
  BY DEF DeskInit, DeskTyped
<1>2. TokensHeld
  BY DEF DeskInit, TokensHeld, Places, Minted
<1>3. FiguresTrue
  BY IdleTold DEF DeskInit, FiguresTrue, Figures, NotCached, BaselineTrue, KeptBaseline, SettledBookPricedTrue, Minted,
     Pricing
<1> QED BY <1>1, <1>2, <1>3 DEF DeskInv

-----------------------------------------------------------------------------
(* What the ticket costs is never less than what it adds.                  *)
LEMMA NetCovers ==
  ASSUME NEW adds \in Int, NEW gross \in Int, book \in Nat,
         NEW basket \in {Positive(book + adds), 0}, NEW amount \in {book, None},
         Usable(basket, amount) \/ gross >= adds
  PROVE  (IF Usable(basket, amount) THEN Positive(basket - amount) ELSE gross) >= adds
BY DeskConstants DEF Usable, Positive

(* One request moves on; nobody is placed by it, no token is minted.       *)
LEMMA RequestMoves ==
  ASSUME DeskInv, NEW r \in Requests, NEW d, IsRequest(d), Figures(d), d.pc # "rate",
         desk' = [desk EXCEPT ![r] = d],
         UNCHANGED <<deskTime, book, lastMove, spent>>, BaselineTrue',
         previews' \in [Tokens -> [at : Int, net : Int, ticket : Tickets \cup {NoTicket}, still : BOOLEAN, short : BOOLEAN]],
         \A tok \in Tokens : previews'[tok] = previews[tok] \/ previews'[tok] = NoToken
  PROVE  DeskInv'
<1> USE DeskConstants
<1>1. desk'[r] = d /\ \A q \in Requests \ {r} : desk'[q] = desk[q]
  BY DEF DeskInv, DeskTyped
<1>2. DeskTyped'
  BY <1>1 DEF DeskInv, DeskTyped
<1>3. TokensHeld'
  BY <1>1 DEF DeskInv, TokensHeld, Places, Minted
<1>4. FiguresTrue'
  <2>1. \A q \in Requests : Figures(desk[q])'
    BY <1>1 DEF DeskInv, FiguresTrue, Figures
  <2>2. SettledBookPricedTrue'
    BY DEF DeskInv, FiguresTrue, SettledBookPricedTrue, Minted
  <2> QED BY <2>1, <2>2 DEF DeskInv, FiguresTrue
<1> QED BY <1>2, <1>3, <1>4 DEF DeskInv

(* A preview ends: refused, or with a token that nobody holds.             *)
LEMMA JudgeKeeps ==
  ASSUME DeskInv, NEW r \in Requests, desk[r].pc \in {"book", "quote"}, NEW amount \in Int,
         lastMove < desk[r].start - BaselineTtl => amount \in {book, None},
         Judge(r, amount), UNCHANGED <<deskTime, book, lastMove, spent>>, BaselineTrue'
  PROVE  DeskInv'
<1> USE DeskConstants
<1> DEFINE net == Net(r, amount)
           free == {tok \in Tokens : ~Minted(tok) /\ spent[tok] = 0
                                     /\ \A q \in Requests : desk[q].token # tok}
<1>1. desk' = [desk EXCEPT ![r] = IdleRequest]
  BY DEF Judge, Reject
<1>2. Figures(IdleRequest)
  BY IdleTold DEF Figures, Pricing
<1>3. CASE UNCHANGED previews
  BY <1>1, <1>2, <1>3, RequestMoves DEF DeskInv, DeskTyped
<1>4. CASE Fundable(r, net)
  <2>1. PICK tok \in free : previews' = [previews EXCEPT ![tok] =
               [at |-> deskTime, net |-> net, ticket |-> desk[r].ticket,
                still |-> lastMove < desk[r].start - BaselineTtl,
                short |-> desk[r].zeroed /\ ~Usable(desk[r].basket, amount)]]
    <3>1. free # {}
      BY <1>4 DEF Judge
    <3>2. (CHOOSE tok \in free : TRUE) \in free
      BY <3>1
    <3> QED BY <1>4, <3>2 DEF Judge
  <2>2. desk[r].ticket \in Tickets /\ desk[r].basket \in Int /\ desk[r].start \in Nat
        /\ desk[r].start <= deskTime
    BY DEF DeskInv, DeskTyped, IsRequest, Pricing, FiguresTrue, Figures
  <2>3. net \in Int /\ desk[r].gross \in Int /\ desk[r].zeroed \in BOOLEAN
    <3>1. desk[r].gross \in Int /\ desk[r].zeroed \in BOOLEAN
      BY DEF DeskInv, DeskTyped, IsRequest
    <3> QED BY <2>2, <3>1 DEF Net, Positive
  <2>4. /\ lastMove < desk[r].start - BaselineTtl
        /\ ~(desk[r].zeroed /\ ~Usable(desk[r].basket, amount))
        => net >= desk[r].ticket.adds
    <3> SUFFICES ASSUME lastMove < desk[r].start - BaselineTtl,
                        Usable(desk[r].basket, amount) \/ ~desk[r].zeroed
                 PROVE  net >= desk[r].ticket.adds
      BY <2>3
    <3>0. Usable(desk[r].basket, amount) \/ desk[r].gross >= desk[r].ticket.adds
      <4>1. ASSUME ~desk[r].zeroed PROVE desk[r].gross = SumOf(desk[r].ticket.margins, 1..Len(desk[r].ticket.margins))
        <5>1. LegsTold(desk[r])
          BY DEF DeskInv, FiguresTrue, Figures
        <5> QED BY <4>1, <5>1 DEF LegsTold, Pricing
      <4> QED BY <2>2, <4>1, LegSums
    <3>1. lastMove < desk[r].start
      BY <2>2 DEF DeskInv, DeskTyped
    <3>2. desk[r].basket \in {Positive(book + desk[r].ticket.adds), 0} /\ amount \in {book, None}
      BY <3>1 DEF DeskInv, FiguresTrue, Figures
    <3>3. desk[r].ticket.adds \in Int /\ book \in Nat
      BY <2>2 DEF DeskInv, DeskTyped
    <3> QED BY <2>2, <2>3, <3>0, <3>2, <3>3, NetCovers DEF Net
  <2>5. /\ tok \in Tokens /\ spent[tok] = 0 /\ \A q \in Requests : desk[q].token # tok
    OBVIOUS
  <2> HIDE DEF net, free
  <2>6. previews'[tok].net = net /\ previews'[tok].ticket = desk[r].ticket
        /\ (previews'[tok].still /\ ~previews'[tok].short => net >= desk[r].ticket.adds)
        /\ \A t \in Tokens \ {tok} : previews'[t] = previews[t]
    BY <2>1, <2>4, <2>5 DEF DeskInv, DeskTyped
  <2>7. previews' \in [Tokens -> [at : Int, net : Int, ticket : Tickets \cup {NoTicket}, still : BOOLEAN, short : BOOLEAN]]
    <3> DEFINE low == lastMove < desk[r].start - BaselineTtl
               cut == desk[r].zeroed /\ ~Usable(desk[r].basket, amount)
    <3>1. low \in BOOLEAN /\ cut \in BOOLEAN
      OBVIOUS
    <3>2. previews' = [previews EXCEPT ![tok] =
            [at |-> deskTime, net |-> net, ticket |-> desk[r].ticket, still |-> low, short |-> cut]]
      BY <2>1
    <3> HIDE DEF low, cut
    <3>3. deskTime \in Int /\ desk[r].ticket \in Tickets \cup {NoTicket}
      BY <2>2 DEF DeskInv, DeskTyped
    <3>4. [at |-> deskTime, net |-> net, ticket |-> desk[r].ticket, still |-> low, short |-> cut]
            \in [at : Int, net : Int, ticket : Tickets \cup {NoTicket}, still : BOOLEAN, short : BOOLEAN]
      BY <2>3, <3>1, <3>3, Zenon
    <3> QED BY <3>2, <3>4 DEF DeskInv, DeskTyped
  <2>8. desk'[r] = IdleRequest /\ \A q \in Requests \ {r} : desk'[q] = desk[q]
    BY <1>1 DEF DeskInv, DeskTyped
  <2>9. DeskTyped'
    BY <1>1, <2>7, <2>8 DEF DeskInv, DeskTyped
  <2>10. TokensHeld'
    BY <2>5, <2>6, <2>8 DEF DeskInv, TokensHeld, Places, Minted
  <2>11. \A q \in Requests : Figures(desk[q])'
    BY <1>2, <2>8 DEF DeskInv, FiguresTrue, Figures
  <2>12. SettledBookPricedTrue'
    BY <2>6 DEF DeskInv, FiguresTrue, SettledBookPricedTrue, Minted
  <2> QED BY <2>9, <2>10, <2>11, <2>12 DEF DeskInv, FiguresTrue
<1> QED BY <1>3, <1>4 DEF Judge

LEMMA FreshRequest ==
  ASSUME DeskInv, NEW t \in Tickets
  PROVE  LET d == [Fresh(t) EXCEPT !.pc = "funds"]
         IN  IsRequest(d) /\ Figures(d) /\ d.pc = "funds"
<1> DEFINE f == Fresh(t)
           d == [f EXCEPT !.pc = "funds"]
<1>1. deskTime \in Nat
  BY DEF DeskInv, DeskTyped
<1>2. IsRequest(f) /\ f.ticket = t /\ f.start = deskTime /\ f.priced = 0 /\ f.gross = 0
  <2>1. PICK e : e = IdleRequest /\ IsRequest(e) /\ e.pc = "idle" /\ e.priced = 0 /\ e.gross = 0
    BY DeskConstants DEF IdleRequest
  <2>2. PICK n \in Int : n = deskTime
    BY <1>1
  <2>3. PICK g : g = [e EXCEPT !.ticket = t, !.start = n] /\ f = g
    BY <2>1, <2>2 DEF Fresh
  <2>4. IsRequest(g) /\ g.ticket = t /\ g.start = n /\ g.priced = 0 /\ g.gross = 0
    BY <2>1, <2>3 DEF IsRequest, Pricing, Confirming
  <2> HIDE DEF f
  <2> QED BY <2>2, <2>3, <2>4
<1> HIDE DEF f
<1>3. IsRequest(d) /\ d.pc = "funds" /\ d.ticket = t /\ d.priced = 0 /\ d.gross = 0 /\ d.start = deskTime
  BY <1>1, <1>2 DEF IsRequest, Pricing, Confirming
<1>4. LegsTold(d)
  BY <1>3, LegSums DEF LegsTold, Pricing
<1>5. Figures(d)
  BY <1>1, <1>3, <1>4 DEF Figures, Pricing
<1> QED BY <1>3, <1>5 DEF f

LEMMA PreviewKeeps ==
  ASSUME DeskInv, NEW r \in Requests,
         \/ \E t \in Tickets : PreviewStart(r, t)
         \/ ReadFunds(r) \/ ReadLeg(r) \/ ReadBasket(r) \/ ReadPositions(r)
         \/ QuoteBook(r) \/ CachedBook(r) \/ BrokerFails(r)
  PROVE  DeskInv'
<1> USE DeskConstants
<1>0. Figures(IdleRequest) /\ IsRequest(desk[r]) /\ Figures(desk[r])
      /\ (UNCHANGED <<baseline, deskTime, book, lastMove>> => BaselineTrue')
      /\ previews \in [Tokens -> [at : Int, net : Int, ticket : Tickets \cup {NoTicket}, still : BOOLEAN, short : BOOLEAN]]
  BY IdleTold DEF DeskInv, DeskTyped, FiguresTrue, BaselineTrue, KeptBaseline, Figures, Pricing
<1>1. ASSUME NEW t \in Tickets, PreviewStart(r, t) PROVE DeskInv'
  <2> DEFINE d == [Fresh(t) EXCEPT !.pc = "funds"]
  <2>1. IsRequest(d) /\ Figures(d) /\ d.pc # "rate"
    BY FreshRequest
  <2>3. /\ desk' = [desk EXCEPT ![r] = d] \/ desk' = [desk EXCEPT ![r] = IdleRequest]
        /\ UNCHANGED <<deskTime, book, lastMove, spent, baseline>>
        /\ previews' = Pruned
    BY <1>1 DEF PreviewStart, Reject
  <2>4. previews' \in [Tokens -> [at : Int, net : Int, ticket : Tickets \cup {NoTicket}, still : BOOLEAN, short : BOOLEAN]]
        /\ \A tok \in Tokens : previews'[tok] = previews[tok] \/ previews'[tok] = NoToken
    BY <1>0, <2>3 DEF Pruned
  <2> HIDE DEF d
  <2> QED BY <1>0, <2>1, <2>3, <2>4, RequestMoves
<1>2. CASE ReadFunds(r)
  <2> DEFINE d == [desk[r] EXCEPT !.pc = "legs", !.avail = Positive(Account.funds - book)]
  <2>0. LegsTold(desk[r]) /\ desk[r].pc = "funds"
    BY <1>0, <1>2 DEF Figures, ReadFunds, RequestAt
  <2>4. IsRequest(d) /\ d.pc = "legs" /\ d.ticket = desk[r].ticket /\ d.priced = desk[r].priced
        /\ d.gross = desk[r].gross /\ d.zeroed = desk[r].zeroed /\ d.start = desk[r].start
    BY <1>0, <2>0 DEF IsRequest, Pricing, Confirming
  <2>5. LegsTold(d)
    BY <2>0, <2>4 DEF LegsTold, Pricing
  <2>1. IsRequest(d) /\ Figures(d) /\ d.pc # "rate"
    BY <1>0, <2>0, <2>4, <2>5 DEF Pricing, Figures
  <2>2. desk' = [desk EXCEPT ![r] = d]
        /\ UNCHANGED <<deskTime, book, lastMove, spent, baseline, previews>>
    BY <1>2 DEF ReadFunds, DeskInv, DeskTyped
  <2> HIDE DEF d
  <2> QED BY <1>0, <2>1, <2>2, RequestMoves
<1>8. CASE ReadLeg(r)
  <2> DEFINE i == desk[r].priced + 1
             margin == desk[r].ticket.margins[i]
             next == IF i = Len(desk[r].ticket.margins) THEN "basket" ELSE "legs"
  <2>1. PICK reply \in {margin, 0} : desk' = [desk EXCEPT ![r] = [desk[r] EXCEPT !.pc = next, !.priced = i,
            !.gross = desk[r].gross + reply, !.zeroed = desk[r].zeroed \/ reply # margin]]
    BY <1>8 DEF ReadLeg
  <2>2. desk[r].pc = "legs" /\ desk[r].ticket \in Tickets /\ LegsTold(desk[r])
        /\ desk[r].gross \in Int /\ desk[r].zeroed \in BOOLEAN
    BY <1>0, <1>8 DEF ReadLeg, RequestAt, IsRequest, Pricing, Figures
  <2>3. desk[r].priced \in 0..(Len(desk[r].ticket.margins) - 1)
        /\ (~desk[r].zeroed => desk[r].gross = SumOf(desk[r].ticket.margins, 1..desk[r].priced))
    BY <2>2 DEF LegsTold, Pricing
  <2>4. margin \in Nat /\ Len(desk[r].ticket.margins) \in Nat
        /\ SumOf(desk[r].ticket.margins, 1..i) = SumOf(desk[r].ticket.margins, 1..desk[r].priced) + margin
    BY <2>2, <2>3, LegSums
  <2>5. reply \in Int /\ i \in Int /\ next \in {"legs", "basket"}
        /\ i \in 0..Len(desk[r].ticket.margins)
        /\ (next = "legs" => i \in 0..(Len(desk[r].ticket.margins) - 1))
        /\ (next = "basket" => i = Len(desk[r].ticket.margins))
    BY <2>3, <2>4
  <2>6. PICK e : e = desk[r]
    OBVIOUS
  <2>7. PICK sum \in Int, cut \in BOOLEAN : sum = e.gross + reply /\ cut = (e.zeroed \/ reply # margin)
    <3>1. e.gross + reply \in Int
      BY <2>2, <2>5, <2>6
    <3>2. (e.zeroed \/ reply # margin) \in BOOLEAN
      OBVIOUS
    <3> QED
      BY <3>1, <3>2, Zenon
  <2>8. PICK d : d = [e EXCEPT !.pc = next, !.priced = i, !.gross = sum, !.zeroed = cut]
    OBVIOUS
  <2>9. desk' = [desk EXCEPT ![r] = d]
    BY <2>1, <2>6, <2>7, <2>8
  <2> HIDE DEF i, margin, next
  <2>10. IsRequest(d) /\ d.pc = next /\ d.ticket = e.ticket /\ d.priced = i /\ d.gross = sum /\ d.zeroed = cut
         /\ d.start = e.start
    <3> DEFINE A == {"idle"} \cup Pricing \cup Confirming
               B == Tickets \cup {NoTicket}
               C == Tokens \cup {None}
               L == {e.left}
               V == {e.avail}
    <3>1. /\ IsRequest(e) /\ i \in Int /\ next \in Pricing /\ next \in A /\ next \notin Confirming
          /\ e.ticket \in Tickets /\ e.start \in Nat
      BY <1>0, <2>2, <2>5, <2>6 DEF IsRequest, Pricing, Confirming
    <3>2. e \in [pc : A, ticket : B, token : C, left : L, start : Int, avail : V,
                 priced : Int, gross : Int, zeroed : BOOLEAN, basket : Int, amount : Int]
      BY <3>1 DEF IsRequest
    <3> HIDE DEF A, B, C, L, V
    <3>3. d \in [pc : A, ticket : B, token : C, left : L, start : Int, avail : V,
                 priced : Int, gross : Int, zeroed : BOOLEAN, basket : Int, amount : Int]
      BY <2>7, <2>8, <3>1, <3>2
    <3>4. d.pc = next /\ d.ticket = e.ticket /\ d.priced = i /\ d.gross = sum /\ d.zeroed = cut
          /\ d.start = e.start /\ d.left = e.left /\ d.avail = e.avail
      BY <2>8, <3>2
    <3> QED
      BY <3>1, <3>3, <3>4 DEF IsRequest, A, B, C, L, V
  <2>11. ~cut => sum = SumOf(d.ticket.margins, 1..i)
    BY <2>2, <2>3, <2>4, <2>6, <2>7, <2>10
  <2>12. LegsTold(d)
    BY <2>5, <2>6, <2>10, <2>11 DEF LegsTold, Pricing
  <2>13. Figures(d) /\ d.pc # "rate"
    BY <1>0, <2>2, <2>5, <2>6, <2>10, <2>12 DEF Figures, Pricing
  <2>14. UNCHANGED <<deskTime, book, lastMove, spent, baseline, previews>>
    BY <1>8 DEF ReadLeg
  <2> QED BY <1>0, <2>9, <2>10, <2>13, <2>14, RequestMoves
<1>3. CASE ReadBasket(r)
  <2>1. PICK total \in {Positive(book + desk[r].ticket.adds), 0} :
          desk' = [desk EXCEPT ![r] = [desk[r] EXCEPT !.pc = "book", !.basket = total]]
    BY <1>3 DEF ReadBasket
  <2> DEFINE d == [desk[r] EXCEPT !.pc = "book", !.basket = total]
  <2>2. desk[r].ticket \in Tickets /\ book \in Nat
    BY <1>0, <1>3 DEF ReadBasket, RequestAt, IsRequest, Pricing, DeskInv, DeskTyped
  <2>3. total \in Int
    BY <2>2 DEF Positive
  <2>6. LegsTold(desk[r]) /\ desk[r].pc = "basket"
    BY <1>0, <1>3 DEF Figures, ReadBasket, RequestAt
  <2>7. IsRequest(d) /\ d.pc = "book" /\ d.ticket = desk[r].ticket /\ d.priced = desk[r].priced
        /\ d.gross = desk[r].gross /\ d.zeroed = desk[r].zeroed /\ d.start = desk[r].start /\ d.basket = total
    BY <1>0, <2>3, <2>6 DEF IsRequest, Pricing, Confirming
  <2>8. LegsTold(d)
    BY <2>6, <2>7 DEF LegsTold, Pricing
  <2>4. IsRequest(d) /\ Figures(d) /\ d.pc # "rate"
    BY <1>0, <2>1, <2>6, <2>7, <2>8 DEF Pricing, Figures
  <2>5. desk' = [desk EXCEPT ![r] = d]
        /\ UNCHANGED <<deskTime, book, lastMove, spent, baseline, previews>>
    BY <1>3, <2>1 DEF ReadBasket
  <2> HIDE DEF d
  <2> QED BY <1>0, <2>4, <2>5, RequestMoves
<1>4. CASE ReadPositions(r)
  <2>1. PICK amount \in {book, None} :
          desk' = [desk EXCEPT ![r] = [desk[r] EXCEPT !.pc = "quote", !.amount = amount]]
    BY <1>4 DEF ReadPositions
  <2> DEFINE d == [desk[r] EXCEPT !.pc = "quote", !.amount = amount]
  <2>2. amount \in Int
    BY DEF DeskInv, DeskTyped
  <2>5. LegsTold(desk[r]) /\ desk[r].pc = "book"
    BY <1>0, <1>4 DEF Figures, ReadPositions, RequestAt
  <2>6. IsRequest(d) /\ d.pc = "quote" /\ d.ticket = desk[r].ticket /\ d.priced = desk[r].priced
        /\ d.gross = desk[r].gross /\ d.zeroed = desk[r].zeroed /\ d.start = desk[r].start
        /\ d.basket = desk[r].basket /\ d.amount = amount
    BY <1>0, <2>2, <2>5 DEF IsRequest, Pricing, Confirming
  <2>7. LegsTold(d)
    BY <2>5, <2>6 DEF LegsTold, Pricing
  <2>3. IsRequest(d) /\ Figures(d) /\ d.pc # "rate"
    BY <1>0, <2>1, <2>5, <2>6, <2>7 DEF Pricing, Figures
  <2>4. desk' = [desk EXCEPT ![r] = d]
        /\ UNCHANGED <<deskTime, book, lastMove, spent, baseline, previews>>
    BY <1>4, <2>1 DEF ReadPositions
  <2> HIDE DEF d
  <2> QED BY <1>0, <2>3, <2>4, RequestMoves
<1>5. CASE QuoteBook(r)
  <2>1. PICK amount \in {desk[r].amount} \cup (IF desk[r].amount > 0 THEN {None} ELSE {}) :
          /\ baseline' = IF amount = None THEN baseline ELSE [amount |-> amount, at |-> deskTime]
          /\ Judge(r, amount)
    BY <1>5 DEF QuoteBook
  <2>2. desk[r].pc = "quote" /\ desk[r].start \in Nat /\ UNCHANGED <<deskTime, book, lastMove, spent>>
    BY <1>0, <1>5 DEF QuoteBook, RequestAt, IsRequest, Pricing
  <2>3. amount \in Int
    BY <1>0 DEF IsRequest
  <2>4. amount \in {desk[r].amount, None}
    OBVIOUS
  <2>5. desk[r].start <= deskTime /\ deskTime <= desk[r].start + 1
        /\ (lastMove < desk[r].start => amount \in {book, None})
    BY <1>0, <2>2, <2>4 DEF Figures, Pricing
  <2>6. lastMove \in Int /\ deskTime \in Nat /\ book \in Nat
    BY DEF DeskInv, DeskTyped
  <2>7. BaselineTrue'
    BY <1>0, <2>1, <2>2, <2>3, <2>5, <2>6 DEF BaselineTrue, KeptBaseline, DeskInv, FiguresTrue
  <2>8. lastMove < desk[r].start - BaselineTtl => amount \in {book, None}
    BY <2>2, <2>5, <2>6
  <2> QED BY <2>1, <2>2, <2>3, <2>7, <2>8, JudgeKeeps
<1>6. CASE CachedBook(r)
  <2>1. /\ desk[r].pc = "book" /\ FreshBaseline /\ Judge(r, baseline.amount)
        /\ UNCHANGED <<deskTime, book, lastMove, baseline, spent>>
    BY <1>6 DEF CachedBook, RequestAt
  <2>2. desk[r].start \in Nat /\ desk[r].start <= deskTime /\ baseline.amount \in Int
        /\ baseline.at \in Int /\ lastMove \in Int /\ deskTime \in Nat
    BY <1>0, <2>1 DEF IsRequest, Pricing, Figures, DeskInv, DeskTyped, FiguresTrue, BaselineTrue
  <2>3. lastMove < desk[r].start - BaselineTtl => baseline.amount \in {book, None}
    BY <2>1, <2>2 DEF FreshBaseline, KeptBaseline, BaselineTrue, DeskInv, FiguresTrue
  <2> QED BY <1>0, <2>1, <2>2, <2>3, JudgeKeeps
<1>7. CASE BrokerFails(r)
  BY <1>0, <1>7, RequestMoves DEF BrokerFails, Reject
<1> QED BY <1>1, <1>2, <1>3, <1>4, <1>5, <1>6, <1>7, <1>8

LEMMA ConfirmKeeps ==
  ASSUME DeskInv, NEW r \in Requests,
         \/ \E tok \in Tokens : ConfirmStart(r, tok)
         \/ SpendToken(r) \/ EnforceRate(r) \/ InsertRow(r)
  PROVE  DeskInv'
<1> USE DeskConstants
<1>0. Figures(IdleRequest) /\ IsRequest(desk[r]) /\ Figures(desk[r])
      /\ (UNCHANGED <<baseline, deskTime, book, lastMove>> => BaselineTrue')
      /\ previews \in [Tokens -> [at : Int, net : Int, ticket : Tickets \cup {NoTicket}, still : BOOLEAN, short : BOOLEAN]]
  BY IdleTold DEF DeskInv, DeskTyped, FiguresTrue, BaselineTrue, KeptBaseline, Figures, Pricing
<1>1. ASSUME NEW tok \in Tokens, ConfirmStart(r, tok) PROVE DeskInv'
  <2>1. PICK e : e = IdleRequest /\ IsRequest(e) /\ e.pc = "idle"
    OBVIOUS
  <2>2. PICK d : d = [e EXCEPT !.pc = "spend", !.token = tok]
    OBVIOUS
  <2>3. IsRequest(d) /\ d.pc = "spend"
    BY <2>1, <2>2 DEF IsRequest, Pricing, Confirming
  <2>4. Figures(d)
    BY <2>3, IdleTold DEF Figures, Pricing
  <2>5. desk' = [desk EXCEPT ![r] = d]
        /\ UNCHANGED <<deskTime, book, lastMove, spent, baseline, previews>>
    BY <1>1, <2>1, <2>2 DEF ConfirmStart
  <2> QED BY <1>0, <2>3, <2>4, <2>5, RequestMoves
<1>2. CASE SpendToken(r)
  <2>1. PICK tok \in Tokens : desk[r].token = tok
    BY <1>0, <1>2 DEF SpendToken, RequestAt, IsRequest, Confirming
  <2>2. /\ desk[r].pc = "spend"
        /\ previews' = [previews EXCEPT ![tok] = NoToken]
        /\ UNCHANGED <<deskTime, book, lastMove, spent, baseline>>
    BY <1>2, <2>1 DEF SpendToken, RequestAt, Spent
  <2>3. previews' \in [Tokens -> [at : Int, net : Int, ticket : Tickets \cup {NoTicket}, still : BOOLEAN, short : BOOLEAN]]
        /\ previews'[tok] = NoToken
        /\ \A t \in Tokens \ {tok} : previews'[t] = previews[t]
    BY <1>0, <2>2
  <2>4. CASE Minted(tok)
    <3>1. spent[tok] = 0 /\ \A q \in Requests : ~Places(q, tok)
      BY <2>4 DEF DeskInv, TokensHeld
    <3>2. CASE desk' = [desk EXCEPT ![r].pc = "rate", ![r].left = Len(previews[tok].ticket.margins)]
      <4>1. PICK e : e = desk[r]
        OBVIOUS
      <4>2. PICK d : d = [e EXCEPT !.pc = "rate", !.left = Len(previews[tok].ticket.margins)]
                     /\ desk' = [desk EXCEPT ![r] = d]
        BY <3>2, <4>1
      <4>3. IsRequest(d) /\ d.pc = "rate" /\ d.token = tok
        BY <1>0, <2>1, <4>1, <4>2 DEF IsRequest, Pricing, Confirming
      <4>4. desk'[r] = d /\ \A q \in Requests \ {r} : desk'[q] = desk[q]
        BY <4>2 DEF DeskInv, DeskTyped
      <4>5. Figures(d)
        BY <4>3, IdleTold DEF Figures, Pricing
      <4>6. DeskTyped'
        BY <2>2, <2>3, <4>2, <4>3, <4>4 DEF DeskInv, DeskTyped
      <4>7. TokensHeld'
        BY <2>2, <2>3, <3>1, <4>3, <4>4 DEF DeskInv, TokensHeld, Places, Minted
      <4>8. \A q \in Requests : Figures(desk[q])'
        BY <2>2, <4>4, <4>5 DEF DeskInv, FiguresTrue, Figures
      <4>9. SettledBookPricedTrue'
        BY <2>3 DEF DeskInv, FiguresTrue, SettledBookPricedTrue, Minted
      <4> QED BY <1>0, <2>2, <4>6, <4>7, <4>8, <4>9 DEF DeskInv, FiguresTrue
    <3>3. CASE desk' = [desk EXCEPT ![r] = IdleRequest]
      BY <1>0, <2>2, <2>3, <3>3, RequestMoves
    <3> QED BY <1>2, <2>1, <3>2, <3>3 DEF SpendToken, Reject
  <2>5. CASE ~Minted(tok)
    <3>1. desk' = [desk EXCEPT ![r] = IdleRequest]
      BY <1>2, <2>1, <2>5 DEF SpendToken, Reject
    <3> QED BY <1>0, <2>2, <2>3, <3>1, RequestMoves
  <2> QED BY <2>4, <2>5
<1>3. CASE EnforceRate(r)
  <2>1. PICK tok \in Tokens : desk[r].token = tok
    BY <1>0, <1>3 DEF EnforceRate, RequestAt, IsRequest, Confirming
  <2>2. desk[r].pc = "rate" /\ UNCHANGED <<deskTime, book, lastMove, baseline, previews>>
    BY <1>3 DEF EnforceRate, RequestAt
  <2>3. CASE UNCHANGED spent /\ desk' = [desk EXCEPT ![r] = IdleRequest]
    BY <1>0, <2>2, <2>3, RequestMoves
  <2>4. CASE desk' = [desk EXCEPT ![r].pc = "insert"] /\ spent' = [spent EXCEPT ![tok] = @ + 1]
    <3>1. PICK d : d = [desk[r] EXCEPT !.pc = "insert"] /\ desk' = [desk EXCEPT ![r] = d]
      BY <2>4
    <3>2. IsRequest(d) /\ d.pc = "insert"
      BY <1>0, <2>1, <3>1 DEF IsRequest, Pricing, Confirming
    <3>3. desk'[r] = d /\ \A q \in Requests \ {r} : desk'[q] = desk[q]
      BY <3>1 DEF DeskInv, DeskTyped
    <3>4. Places(r, tok) /\ spent[tok] = 0
      BY <2>1, <2>2 DEF DeskInv, TokensHeld, Places
    <3>5. spent'[tok] = 1 /\ spent' \in [Tokens -> Nat]
          /\ \A t \in Tokens \ {tok} : spent'[t] = spent[t]
      BY <2>4, <3>4 DEF DeskInv, DeskTyped
    <3>6. DeskTyped'
      BY <2>2, <3>1, <3>2, <3>3, <3>5 DEF DeskInv, DeskTyped
    <3>7. ~Minted(tok)
      BY <3>4 DEF DeskInv, TokensHeld
    <3>8. TokensHeld'
      BY <2>2, <3>2, <3>3, <3>4, <3>5, <3>7 DEF DeskInv, TokensHeld, Places, Minted
    <3>9. \A q \in Requests : Figures(desk[q])'
      BY <2>2, <3>2, <3>3, IdleTold DEF DeskInv, FiguresTrue, Figures, Pricing
    <3>10. SettledBookPricedTrue'
      BY <2>2 DEF DeskInv, FiguresTrue, SettledBookPricedTrue, Minted
    <3> QED BY <1>0, <2>2, <3>6, <3>8, <3>9, <3>10 DEF DeskInv, FiguresTrue
  <2> QED BY <1>3, <2>1, <2>3, <2>4 DEF EnforceRate, Reject
<1>4. CASE InsertRow(r)
  <2>1. /\ desk[r].pc = "insert"
        /\ UNCHANGED <<deskTime, book, lastMove, spent, baseline, previews>>
        /\ \/ desk' = [desk EXCEPT ![r] = IdleRequest]
           \/ desk' = [desk EXCEPT ![r].left = @ - 1]
    BY <1>4 DEF InsertRow, RequestAt, Reject
  <2>2. CASE desk' = [desk EXCEPT ![r] = IdleRequest]
    BY <1>0, <2>1, <2>2, RequestMoves
  <2>3. CASE desk' = [desk EXCEPT ![r].left = @ - 1]
    <3>1. PICK e : e = desk[r]
      OBVIOUS
    <3>2. PICK d : d = [e EXCEPT !.left = @ - 1] /\ desk' = [desk EXCEPT ![r] = d]
      BY <2>3, <3>1
    <3>3. IsRequest(d) /\ d.pc = "insert"
      BY <1>0, <2>1, <3>1, <3>2 DEF IsRequest, Pricing, Confirming
    <3>4. Figures(d)
      BY <3>3, IdleTold DEF Figures, Pricing
    <3> QED BY <1>0, <2>1, <3>2, <3>3, <3>4, RequestMoves
  <2> QED BY <2>1, <2>2, <2>3
<1> QED BY <1>1, <1>2, <1>3, <1>4

LEMMA DeskStepInv == DeskInv /\ [DeskNext]_deskVars => DeskInv'
<1> SUFFICES ASSUME DeskInv, [DeskNext]_deskVars PROVE DeskInv'
  OBVIOUS
<1> USE DeskConstants
<1>1. ASSUME NEW n \in 0..MaxBook, BookMoves(n) PROVE DeskInv'
  <2>1. n \in Nat /\ book' = n /\ lastMove' = deskTime
        /\ UNCHANGED <<deskTime, baseline, previews, desk, spent>>
    BY <1>1 DEF BookMoves
  <2>2. DeskTyped'
    BY <2>1 DEF DeskInv, DeskTyped
  <2>3. TokensHeld'
    BY <2>1 DEF DeskInv, TokensHeld, Places, Minted
  <2>4. \A r \in Requests : Figures(desk[r])'
    BY <2>1 DEF DeskInv, DeskTyped, IsRequest, FiguresTrue, Figures, Pricing
  <2>5. BaselineTrue'
    BY <2>1 DEF DeskInv, DeskTyped, FiguresTrue, BaselineTrue, KeptBaseline
  <2>6. SettledBookPricedTrue'
    BY <2>1 DEF DeskInv, FiguresTrue, SettledBookPricedTrue, Minted
  <2> QED BY <2>1, <2>2, <2>3, <2>4, <2>5, <2>6 DEF DeskInv, FiguresTrue, DeskTyped
<1>2. CASE DeskTick
  <2>1. deskTime' = deskTime + 1 /\ deskTime \in Nat
        /\ UNCHANGED <<book, lastMove, baseline, previews, desk, spent>>
        /\ \A r \in Requests : desk[r].start # None => deskTime = desk[r].start
    BY <1>2 DEF DeskTick, DeskInv, DeskTyped
  <2>2. DeskTyped'
    BY <2>1 DEF DeskInv, DeskTyped
  <2>3. TokensHeld'
    BY <2>1 DEF DeskInv, TokensHeld, Places, Minted
  <2>4. \A r \in Requests : Figures(desk[r])'
    BY <2>1 DEF DeskInv, DeskTyped, IsRequest, FiguresTrue, Figures, Pricing
  <2>5. BaselineTrue'
    BY <2>1 DEF DeskInv, DeskTyped, FiguresTrue, BaselineTrue, KeptBaseline
  <2>6. SettledBookPricedTrue'
    BY <2>1 DEF DeskInv, FiguresTrue, SettledBookPricedTrue, Minted
  <2>7. lastMove' <= deskTime'
    BY <2>1 DEF DeskInv, DeskTyped, FiguresTrue
  <2> QED BY <2>2, <2>3, <2>4, <2>5, <2>6, <2>7 DEF DeskInv, FiguresTrue
<1>3. CASE DeskRestart
  <2>1. baseline' = NotCached /\ desk' = [r \in Requests |-> IdleRequest]
        /\ previews' = [tok \in Tokens |-> NoToken]
        /\ UNCHANGED <<deskTime, book, lastMove, spent>>
    BY <1>3 DEF DeskRestart
  <2>2. DeskTyped'
    BY <2>1 DEF DeskInv, DeskTyped
  <2>3. TokensHeld'
    BY <2>1 DEF DeskInv, TokensHeld, Places, Minted
  <2>4. FiguresTrue'
    BY <2>1, IdleTold DEF DeskInv, FiguresTrue, Figures, NotCached, BaselineTrue, KeptBaseline,
       SettledBookPricedTrue, Minted, Pricing
  <2> QED BY <2>2, <2>3, <2>4 DEF DeskInv
<1>4. CASE UNCHANGED deskVars
  BY <1>4 DEF deskVars, DeskInv, DeskTyped, TokensHeld, Places, Minted, FiguresTrue, Figures,
     BaselineTrue, KeptBaseline, SettledBookPricedTrue
<1> QED BY <1>1, <1>2, <1>3, <1>4, PreviewKeeps, ConfirmKeeps DEF DeskNext

(* However many tabs press Confirm on it, a token leads to one order: for  *)
(* any tabs, tokens and tickets, whatever the book and the clock do.       *)
THEOREM TokenSpentOnce == DeskSpec => []OncePerToken
<1>1. DeskInv => OncePerToken
  BY DEF DeskInv, TokensHeld, OncePerToken
<1> QED BY <1>1, DeskInitInv, DeskStepInv, PTL DEF DeskSpec

(* A ticket priced over a book that has been still for the life of a       *)
(* cached margin is not shown as cheaper than it is, unless it was priced  *)
(* by its legs alone and one of them came back as zero: for any cache      *)
(* lifetime, any tabs and any interleaving of their broker calls.          *)
THEOREM SettledBookIsPricedTrue == DeskSpec => []SettledBookPricedTrue
<1>1. DeskInv => SettledBookPricedTrue
  BY DEF DeskInv, FiguresTrue
<1> QED BY <1>1, DeskInitInv, DeskStepInv, PTL DEF DeskSpec

-----------------------------------------------------------------------------
(* The link.                                                               *)
ClientRow == [client : Clients \cup {"none"}, stamp : Nat]

SaverState == [pc : {"idle", "exchange", "probe", "invalidate", "account"},
               client : Clients \cup {"none"}, state : Consents \cup {"none"}]
CallerState == [pc : {"idle", "gate", "lookup", "resolve", "use"}, opens : BOOLEAN,
                account : Clients \cup {"none"}, from : Nat, row : ClientRow]
Credentials == [st : {"none", "stored", "revoked"}, client : Clients \cup {"none"},
                stamp : Nat, life : {"long", "short", "expired"}]

LinkTyped ==
  /\ credential \in Credentials
  /\ clientCache \in [{"api", "worker"} -> ClientRow]
  /\ consent \in [Consents -> {"unused", "pending", "gone"}]
  /\ exchanged \in [Consents -> Nat]
  /\ saver \in [Savers -> SaverState]
  /\ caller \in [Callers -> CallerState]
  /\ liveAccounts \subseteq Clients \cup {"none"}

(* A row once read is no older than the call; a stamp only grows.          *)
RowsRecent ==
  \A c \in Callers :
    /\ caller[c].from <= credential.stamp
    /\ caller[c].pc \in {"resolve", "use"} => caller[c].row.stamp >= caller[c].from

(* A consent that somebody holds is spent, held once and not exchanged.    *)
Holds(s, state) == saver[s].pc = "exchange" /\ saver[s].state = state

ConsentsHeld ==
  /\ \A s \in Savers : saver[s].pc = "exchange" => saver[s].state \in Consents
  /\ \A state \in Consents :
       /\ consent[state] # "gone" => exchanged[state] = 0 /\ \A s \in Savers : ~Holds(s, state)
       /\ \A s \in Savers : Holds(s, state) => exchanged[state] = 0
       /\ \A s, q \in Savers : Holds(s, state) /\ Holds(q, state) => s = q
       /\ exchanged[state] <= 1

LinkInv == LinkTyped /\ RowsRecent /\ ConsentsHeld

LEMMA LinkInitInv == LinkInit => LinkInv
<1> SUFFICES ASSUME LinkInit PROVE LinkInv
  OBVIOUS
<1> USE DEF LinkInit, IdleSaver, IdleCaller, NoClient
<1>1. LinkTyped
  BY DEF LinkTyped, ClientRow, SaverState, CallerState, Credentials
<1>2. RowsRecent
  BY DEF RowsRecent
<1>3. ConsentsHeld
  BY DEF ConsentsHeld, Holds
<1> QED
  BY <1>1, <1>2, <1>3 DEF LinkInv

(* The row is written, revoked or ages: its stamp never falls.             *)
LEMMA CredentialKeeps ==
  ASSUME LinkInv, credential' \in Credentials, credential'.stamp >= credential.stamp,
         clientCache' \in [{"api", "worker"} -> ClientRow], caller' = caller
  PROVE  /\ RowsRecent'
         /\ consent' = consent /\ exchanged' = exchanged /\ saver' = saver
            /\ liveAccounts' = liveAccounts => LinkInv'
<1>1. RowsRecent'
  BY DEF LinkInv, RowsRecent, LinkTyped, CallerState, ClientRow, Credentials
<1> QED
  BY <1>1 DEF LinkInv, LinkTyped, ConsentsHeld, Holds

LEMMA RevokeKeeps == ASSUME LinkInv, Revoke \/ TokenAges \/ SetTradingEnabled PROVE LinkInv'
<1>1. /\ credential \in Credentials /\ clientCache \in [{"api", "worker"} -> ClientRow]
      /\ credential.stamp \in Nat /\ NoClient \in ClientRow
  BY DEF LinkInv, LinkTyped, Credentials, NoClient, ClientRow
<1>2. CASE Revoke
  <2>1. credential' = [st |-> "revoked", client |-> credential.client,
                       stamp |-> credential.stamp + 1, life |-> credential.life]
    BY <1>1, <1>2 DEF Revoke, Credentials
  <2>2. credential' \in Credentials /\ credential'.stamp >= credential.stamp
    BY <1>1, <2>1 DEF Credentials
  <2>3. clientCache' \in [{"api", "worker"} -> ClientRow]
    BY <1>1, <1>2 DEF Revoke
  <2> QED
    BY <1>2, <2>2, <2>3, CredentialKeeps DEF Revoke
<1>3. CASE TokenAges
  <2>1. credential' \in Credentials /\ credential'.stamp = credential.stamp
    BY <1>1, <1>3 DEF TokenAges, Credentials
  <2> QED
    BY <1>1, <1>3, <2>1, CredentialKeeps DEF TokenAges
<1>4. CASE SetTradingEnabled
  BY <1>1, <1>4, CredentialKeeps DEF SetTradingEnabled
<1> QED
  BY <1>2, <1>3, <1>4

(* A saver that neither takes up a consent nor touches one.                *)
LEMMA SaverMoves ==
  ASSUME LinkInv, NEW s \in Savers, saver' \in [Savers -> SaverState],
         \A q \in Savers : q # s => saver'[q] = saver[q],
         saver'[s].pc # "exchange", consent' = consent, exchanged' = exchanged
  PROVE  ConsentsHeld'
BY DEF LinkInv, ConsentsHeld, Holds

LEMMA SaverKeeps == ASSUME LinkInv, NEW s \in Savers, SaverStep(s) PROVE LinkInv'
<1>1. /\ saver \in [Savers -> SaverState] /\ saver[s] \in SaverState /\ IdleSaver \in SaverState
      /\ NoClient \in ClientRow /\ credential \in Credentials
      /\ clientCache \in [{"api", "worker"} -> ClientRow] /\ credential.stamp \in Nat
  BY DEF LinkInv, LinkTyped, SaverState, IdleSaver, ClientRow, NoClient, Credentials
<1>2. CASE Exchange(s)
  <2> DEFINE state == saver[s].state
  <2>1. /\ saver[s].pc = "exchange" /\ state \in Consents /\ exchanged \in [Consents -> Nat]
        /\ consent \in [Consents -> {"unused", "pending", "gone"}]
        /\ exchanged[state] = 0 /\ \A q \in Savers : Holds(q, state) => q = s
    BY <1>2 DEF Exchange, SaverAt, LinkInv, LinkTyped, ConsentsHeld, Holds
  <2>2. \/ saver' = [saver EXCEPT ![s] = IdleSaver]
        \/ \E id \in Clients : saver' = [saver EXCEPT ![s] = [IdleSaver EXCEPT !.pc = "probe", !.client = id]]
    BY <1>2 DEF Exchange
  <2>3. /\ saver' \in [Savers -> SaverState] /\ saver'[s].pc # "exchange"
        /\ \A q \in Savers : q # s => saver'[q] = saver[q]
    <3>1. CASE saver' = [saver EXCEPT ![s] = IdleSaver]
      BY <1>1, <3>1 DEF SaverState, IdleSaver
    <3>2. ASSUME NEW id \in Clients,
                 saver' = [saver EXCEPT ![s] = [IdleSaver EXCEPT !.pc = "probe", !.client = id]]
          PROVE  /\ saver' \in [Savers -> SaverState] /\ saver'[s].pc # "exchange"
                 /\ \A q \in Savers : q # s => saver'[q] = saver[q]
      BY <1>1, <3>2 DEF SaverState, IdleSaver
    <3> QED
      BY <2>2, <3>1, <3>2
  <2>4. /\ exchanged' = [exchanged EXCEPT ![state] = 1] /\ consent' = [consent EXCEPT ![state] = "gone"]
    <3>1. /\ exchanged' = [exchanged EXCEPT ![state] = exchanged[state] + 1]
          /\ consent' = [consent EXCEPT ![state] = "gone"]
      BY <1>2 DEF Exchange
    <3>2. exchanged[state] + 1 = 1
      BY <2>1
    <3> QED
      BY <3>1, <3>2
  <2>5. ConsentsHeld'
    <3>1. ConsentsHeld
      BY DEF LinkInv
    <3>2. \A q \in Savers : saver'[q].pc = "exchange" => q # s /\ saver'[q] = saver[q]
      BY <2>3
    <3>3. \A q \in Savers : ~(saver'[q].pc = "exchange" /\ saver'[q].state = state)
      BY <2>1, <3>2 DEF Holds
    <3>4. /\ exchanged'[state] = 1 /\ consent'[state] = "gone"
          /\ \A k \in Consents : k # state => exchanged'[k] = exchanged[k] /\ consent'[k] = consent[k]
      BY <2>1, <2>4
    <3> HIDE DEF state
    <3> QED
      BY <3>1, <3>2, <3>3, <3>4 DEF ConsentsHeld, Holds
  <2> QED
    <3>1. /\ exchanged' \in [Consents -> Nat] /\ consent' \in [Consents -> {"unused", "pending", "gone"}]
      BY <2>1, <2>4
    <3>2. UNCHANGED <<credential, liveAccounts, clientCache, caller>>
      BY <1>2 DEF Exchange
    <3> QED
      BY <2>3, <2>5, <3>1, <3>2 DEF LinkInv, LinkTyped, RowsRecent
<1>3. CASE ProbeFails(s) \/ UpsertAccount(s)
  <2>1. saver' \in [Savers -> SaverState] /\ ConsentsHeld'
    <3>1. /\ saver' \in [Savers -> SaverState] /\ saver'[s].pc # "exchange"
          /\ \A q \in Savers : q # s => saver'[q] = saver[q]
      BY <1>1, <1>3 DEF ProbeFails, UpsertAccount, IdleSaver, SaverState
    <3> QED
      BY <1>3, <3>1, SaverMoves DEF ProbeFails, UpsertAccount
  <2>2. liveAccounts' \subseteq Clients \cup {"none"}
    BY <1>1, <1>3 DEF ProbeFails, UpsertAccount, LinkInv, LinkTyped, SaverState
  <2> QED
    BY <1>3, <2>1, <2>2 DEF ProbeFails, UpsertAccount, LinkInv, LinkTyped, RowsRecent
<1>4. CASE Invalidate(s) \/ UpsertCredential(s)
  <2>1. /\ saver' \in [Savers -> SaverState] /\ saver'[s].pc # "exchange"
        /\ \A q \in Savers : q # s => saver'[q] = saver[q]
    BY <1>1, <1>4 DEF Invalidate, UpsertCredential, SaverGoes, SaverState
  <2>2. ConsentsHeld'
    BY <1>4, <2>1, SaverMoves DEF Invalidate, UpsertCredential
  <2>3. credential' \in Credentials /\ credential'.stamp >= credential.stamp
    BY <1>1, <1>4 DEF Invalidate, UpsertCredential, Credentials, SaverState
  <2>4. clientCache' \in [{"api", "worker"} -> ClientRow]
    BY <1>1, <1>4 DEF Invalidate, UpsertCredential
  <2>5. RowsRecent'
    BY <1>4, <2>3, <2>4, CredentialKeeps DEF Invalidate, UpsertCredential
  <2> QED
    BY <1>4, <2>1, <2>2, <2>3, <2>4, <2>5 DEF Invalidate, UpsertCredential, LinkInv, LinkTyped
<1>5. ASSUME NEW id \in Clients, Paste(s, id) PROVE LinkInv'
  <2>1. /\ saver' \in [Savers -> SaverState] /\ saver'[s].pc # "exchange"
        /\ \A q \in Savers : q # s => saver'[q] = saver[q]
    BY <1>1, <1>5 DEF Paste, SaverState, IdleSaver
  <2>2. ConsentsHeld'
    BY <1>5, <2>1, SaverMoves DEF Paste
  <2> QED
    BY <1>5, <2>1, <2>2 DEF Paste, LinkInv, LinkTyped, RowsRecent
<1>6. ASSUME NEW state \in Consents, CompleteConsent(s, state) PROVE LinkInv'
  <2>1. /\ saver[s].pc = "idle" /\ consent[state] = "pending"
        /\ consent' = [consent EXCEPT ![state] = "gone"]
        /\ saver' = [saver EXCEPT ![s] = [pc |-> "exchange", client |-> "none", state |-> state]]
        /\ consent \in [Consents -> {"unused", "pending", "gone"}]
    BY <1>6 DEF CompleteConsent, SaverAt, SpendState, LinkInv, LinkTyped
  <2>2. saver' \in [Savers -> SaverState] /\ consent' \in [Consents -> {"unused", "pending", "gone"}]
    BY <1>1, <2>1 DEF SaverState
  <2>3. /\ \A q \in Savers : q # s => saver'[q] = saver[q]
        /\ saver'[s].pc = "exchange" /\ saver'[s].state = state
        /\ consent'[state] = "gone" /\ \A k \in Consents : k # state => consent'[k] = consent[k]
    BY <1>1, <2>1
  <2>4. ConsentsHeld'
    BY <1>6, <2>1, <2>3 DEF CompleteConsent, LinkInv, ConsentsHeld, Holds
  <2> QED
    BY <1>6, <2>2, <2>4 DEF CompleteConsent, LinkInv, LinkTyped, RowsRecent
<1> QED
  BY <1>2, <1>3, <1>4, <1>5, <1>6 DEF SaverStep

(* A caller whose row, if it has one, is no older than its call.           *)
LEMMA CallerMoves ==
  ASSUME LinkInv, NEW c \in Callers, caller' \in [Callers -> CallerState],
         \A d \in Callers : d # c => caller'[d] = caller[d],
         caller'[c].from <= credential.stamp,
         caller'[c].pc \in {"resolve", "use"} => caller'[c].row.stamp >= caller'[c].from,
         clientCache' \in [{"api", "worker"} -> ClientRow],
         UNCHANGED <<credential, liveAccounts, consent, exchanged, saver>>
  PROVE  LinkInv'
BY DEF LinkInv, LinkTyped, RowsRecent, ConsentsHeld, Holds

LEMMA CallerKeeps == ASSUME LinkInv, NEW c \in Callers, CallerStep(c) PROVE LinkInv'
<1>1. /\ caller[c] \in CallerState /\ credential \in Credentials /\ credential.stamp \in Nat
      /\ caller \in [Callers -> CallerState] /\ caller[c].from \in Nat
      /\ clientCache \in [{"api", "worker"} -> ClientRow] /\ NoClient \in ClientRow
      /\ caller[c].from <= credential.stamp /\ Process[c] \in {"api", "worker"}
  BY DEF LinkInv, LinkTyped, RowsRecent, CallerState, Credentials, NoClient, ClientRow, Process
<1>2. ASSUME caller' = [caller EXCEPT ![c] = IdleCaller],
             UNCHANGED <<credential, liveAccounts, clientCache, consent, exchanged, saver>>
      PROVE  LinkInv'
  <2>1. /\ caller' \in [Callers -> CallerState] /\ caller'[c].from = 0 /\ caller'[c].pc = "idle"
        /\ \A d \in Callers : d # c => caller'[d] = caller[d]
    BY <1>1, <1>2 DEF IdleCaller, CallerState
  <2> QED
    BY <1>1, <1>2, <2>1, CallerMoves
<1>3. CASE GateCredential(c)
  <2>1. CASE caller' = [caller EXCEPT ![c].pc = "lookup", ![c].from = credential.stamp]
    <3>1. /\ caller' \in [Callers -> CallerState] /\ caller'[c].pc = "lookup"
          /\ caller'[c].from = credential.stamp /\ \A d \in Callers : d # c => caller'[d] = caller[d]
      BY <1>1, <2>1 DEF CallerState
    <3> QED
      BY <1>1, <1>3, <3>1, CallerMoves DEF GateCredential
  <2> QED
    BY <1>2, <1>3, <2>1 DEF GateCredential, CallerEnds
<1>4. CASE ReadCredential(c)
  <2> DEFINE read == [client |-> credential.client, stamp |-> credential.stamp]
  <2>1. read \in ClientRow /\ read.stamp = credential.stamp
    BY <1>1 DEF Credentials, ClientRow
  <2> HIDE DEF read
  <2>2. CASE caller' = [caller EXCEPT ![c].pc = "resolve", ![c].row = read]
    <3>1. /\ caller' \in [Callers -> CallerState] /\ caller'[c].row = read
          /\ caller'[c].from = caller[c].from /\ \A d \in Callers : d # c => caller'[d] = caller[d]
      BY <1>1, <2>1, <2>2 DEF CallerState
    <3> QED
      BY <1>1, <1>4, <2>1, <3>1, CallerMoves DEF ReadCredential
  <2> QED
    BY <1>2, <1>4, <2>2 DEF ReadCredential, CallerEnds, read
<1>5. CASE ResolveClient(c)
  <2> DEFINE client == IF HitStamped(Process[c], caller[c].row)
                       THEN clientCache[Process[c]] ELSE caller[c].row
  <2>1. client \in ClientRow /\ client.stamp = caller[c].row.stamp
    BY <1>1 DEF HitStamped, CallerState
  <2>2. /\ clientCache' = [clientCache EXCEPT ![Process[c]] = client]
        /\ caller' = [caller EXCEPT ![c].pc = "use", ![c].row = client]
        /\ caller[c].row.stamp >= caller[c].from
    BY <1>5 DEF ResolveClient, CallerAt, LinkInv, RowsRecent
  <2> HIDE DEF client
  <2>3. /\ caller' \in [Callers -> CallerState] /\ caller'[c].row = client
        /\ caller'[c].from = caller[c].from /\ \A d \in Callers : d # c => caller'[d] = caller[d]
        /\ clientCache' \in [{"api", "worker"} -> ClientRow]
    BY <1>1, <2>1, <2>2 DEF CallerState
  <2> QED
    BY <1>1, <1>5, <2>1, <2>2, <2>3, CallerMoves DEF ResolveClient
<1>6. CASE UseClient(c)
  BY <1>2, <1>6 DEF UseClient, CallerEnds
<1>7. ASSUME NEW id \in Clients, NEW opens \in BOOLEAN, GateAccount(c, id, opens) PROVE LinkInv'
  <2>1. /\ caller' \in [Callers -> CallerState] /\ caller'[c].from = 0 /\ caller'[c].pc = "gate"
        /\ \A d \in Callers : d # c => caller'[d] = caller[d]
    BY <1>1, <1>7 DEF GateAccount, IdleCaller, CallerState
  <2> QED
    BY <1>1, <1>7, <2>1, CallerMoves DEF GateAccount
<1>8. ASSUME NEW id \in Clients, SweepAccount(c, id) PROVE LinkInv'
  <2>1. /\ caller' \in [Callers -> CallerState] /\ caller'[c].from = credential.stamp
        /\ caller'[c].pc = "lookup" /\ \A d \in Callers : d # c => caller'[d] = caller[d]
    BY <1>1, <1>8 DEF SweepAccount, IdleCaller, CallerState
  <2> QED
    BY <1>1, <1>8, <2>1, CallerMoves DEF SweepAccount
<1> QED
  BY <1>3, <1>4, <1>5, <1>6, <1>7, <1>8 DEF CallerStep

LEMMA LinkStepInv == LinkInv /\ [LinkNext]_linkVars => LinkInv'
<1> SUFFICES ASSUME LinkInv, [LinkNext]_linkVars PROVE LinkInv'
  OBVIOUS
<1>1. CASE \E state \in Consents : BeginConsent(state) \/ ConsentLost(state)
  BY <1>1 DEF LinkInv, LinkTyped, RowsRecent, ConsentsHeld, Holds, BeginConsent, ConsentLost
<1>2. CASE \E s \in Savers : SaverStep(s)
  BY <1>2, SaverKeeps
<1>3. CASE \E c \in Callers : CallerStep(c)
  BY <1>3, CallerKeeps
<1>4. CASE Revoke \/ TokenAges \/ SetTradingEnabled
  BY <1>4, RevokeKeeps
<1>5. ASSUME NEW p \in {"api", "worker"}, LinkRestart(p) PROVE LinkInv'
  <2>1. /\ saver' = saver \/ saver' = [s \in Savers |-> IdleSaver]
        /\ caller' = [c \in Callers |-> IF Process[c] = p THEN IdleCaller ELSE caller[c]]
        /\ clientCache' = [clientCache EXCEPT ![p] = NoClient]
        /\ UNCHANGED <<credential, liveAccounts, exchanged>>
    BY <1>5 DEF LinkRestart
  <2>2. /\ consent' \in [Consents -> {"unused", "pending", "gone"}]
        /\ \A k \in Consents : consent'[k] # "gone" => consent[k] # "gone"
    BY <1>5 DEF LinkRestart, LinkInv, LinkTyped
  <2>3. /\ IdleSaver \in SaverState /\ IdleSaver.pc = "idle" /\ IdleCaller \in CallerState
        /\ IdleCaller.pc = "idle" /\ IdleCaller.from = 0 /\ NoClient \in ClientRow
    BY DEF IdleSaver, IdleCaller, NoClient, SaverState, CallerState, ClientRow
  <2>4. LinkTyped'
    BY <2>1, <2>2, <2>3 DEF LinkInv, LinkTyped
  <2>5. RowsRecent'
    BY <2>1, <2>3 DEF LinkInv, LinkTyped, RowsRecent, Credentials
  <2>6. ConsentsHeld'
    <3>1. \A s \in Savers : saver'[s] = saver[s] \/ saver'[s].pc = "idle"
      BY <2>1, <2>3
    <3> QED
      BY <2>1, <2>2, <3>1 DEF LinkInv, ConsentsHeld, Holds
  <2> QED
    BY <2>4, <2>5, <2>6 DEF LinkInv
<1>6. CASE UNCHANGED linkVars
  BY <1>6 DEF LinkInv, LinkTyped, RowsRecent, ConsentsHeld, Holds, linkVars
<1> QED
  BY <1>1, <1>2, <1>3, <1>4, <1>5, <1>6 DEF LinkNext

LEMMA LinkInvSound == LinkInv => LinkIsSound
<1> SUFFICES ASSUME LinkInv PROVE LinkIsSound
  OBVIOUS
<1> QED
  BY DEF LinkInv, RowsRecent, ConsentsHeld, LinkIsSound, ClientIsCurrent, ConsentSpentOnce, CallerAt

(* No call uses a client of a credential replaced or revoked before the    *)
(* call began, and a consent's code is exchanged at most once, for any     *)
(* number of clients, savers, calls, consents and restarts.                *)
THEOREM LinkSound == LinkSpec => []LinkIsSound
<1>1. LinkSpec => []LinkInv
  BY LinkInitInv, LinkStepInv, PTL DEF LinkSpec
<1> QED
  BY <1>1, LinkInvSound, PTL

-----------------------------------------------------------------------------
(* Resize and panic.                                                       *)
Quantities == Sizes \cup {First}
ModifierState == [pc : {"idle", "ask", "reply"}, contract : Contracts \cup {"none"}, size : Quantities]
PanicState == [pc : {"idle", "cancel", "close", "done"}, todo : SUBSET Contracts,
               sight : SUBSET Contracts, failures : SUBSET Contracts]

ControlTyped ==
  /\ atBroker \in [Contracts -> {"none", "open", "filled", "cancelled"}]
  /\ brokerSize \in [Contracts -> Quantities] /\ rowSize \in [Contracts -> Quantities]
  /\ positionRow \in [Contracts -> {"none", "OPEN", "CLOSED"}]
  /\ modifier \in [Modifiers -> ModifierState]
  /\ panic \in PanicState
  /\ \A m \in Modifiers : modifier[m].pc # "idle" => modifier[m].contract \in Contracts

(* A contract whose opening order is still open has not been held yet, so  *)
(* one that is flat and has no such order stays flat.                      *)
NotHeldYet == \A c \in Contracts : atBroker[c] = "open" => c \notin holds /\ positionRow[c] = "none"
Dealt(c) == c \in takenBack \cup closeSent \/ (c \notin holds /\ atBroker[c] # "open")

PanicSees ==
  panic.pc # "idle" /\ panic.failures = {} =>
    \A c \in panic.sight :
      \/ Dealt(c)
      \/ panic.pc = "cancel" /\ (c \in panic.todo \/ positionRow[c] = "OPEN")
      \/ panic.pc = "close" /\ c \in panic.todo

(* The broker works the size asked for last.  Unless requests overlapped,  *)
(* a reply in flight is the only one, and says that size.                  *)
SizesAgree ==
  \A c \in Contracts : c \notin crossed /\ atBroker[c] = "open" =>
    /\ \A m \in InFlightFor(c) : modifier[m].size = brokerSize[c] /\ InFlightFor(c) = {m}
    /\ InFlightFor(c) = {} /\ c \notin inTheDark => rowSize[c] = brokerSize[c]

ControlInv == ControlTyped /\ NotHeldYet /\ PanicSees /\ SizesAgree

LEMMA ControlInitInv == ControlInit => ControlInv
<1> SUFFICES ASSUME ControlInit PROVE ControlInv
  OBVIOUS
<1> HIDE DEF First
<1>1. ControlTyped
  BY DEF ControlInit, ControlTyped, Quantities, ModifierState, PanicState, IdleModifier, IdlePanic
<1>2. NotHeldYet /\ PanicSees
  BY DEF ControlInit, NotHeldYet, PanicSees, IdlePanic
<1>3. SizesAgree
  BY DEF ControlInit, SizesAgree, InFlightFor, IdleModifier
<1> QED
  BY <1>1, <1>2, <1>3 DEF ControlInv

(* The exchange and the sweep move one contract and no handler.            *)
LEMMA MarketKeeps ==
  ASSUME ControlInv, NEW c \in Contracts, Fill(c) \/ LateCancel(c) \/ CloseFills(c) \/ SweepRow(c)
  PROVE  ControlInv'
<1> USE DEF Fill, LateCancel, CloseFills, SweepRow, market, books, hands, limits
<1>1. ControlTyped'
  BY DEF ControlInv, ControlTyped
<1>2. /\ atBroker \in [Contracts -> {"none", "open", "filled", "cancelled"}]
      /\ positionRow \in [Contracts -> {"none", "OPEN", "CLOSED"}]
      /\ UNCHANGED <<modifier, inTheDark, crossed, panic, takenBack, closeSent, brokerSize, rowSize>>
  BY DEF ControlInv, ControlTyped
<1>3. NotHeldYet'
  BY <1>2 DEF ControlInv, NotHeldYet
<1>4. PanicSees'
  <2>1. \A k \in Contracts : Dealt(k) => Dealt(k)'
    BY <1>2 DEF Dealt
  <2>2. \A k \in Contracts : positionRow[k] = "OPEN" => positionRow'[k] = "OPEN" \/ Dealt(k)'
    BY <1>2 DEF ControlInv, NotHeldYet, Dealt
  <2> QED
    BY <1>2, <2>1, <2>2 DEF ControlInv, ControlTyped, PanicState, PanicSees
<1>5. SizesAgree'
  <2>1. \A k \in Contracts : atBroker'[k] = "open" => atBroker[k] = "open"
    BY <1>2
  <2> QED
    BY <1>2, <2>1 DEF ControlInv, SizesAgree, InFlightFor
<1> QED
  BY <1>1, <1>3, <1>4, <1>5 DEF ControlInv

(* A resize touches neither the market nor panic.                          *)
LEMMA ResizeFrame ==
  ASSUME ControlInv, ControlTyped', SizesAgree',
         UNCHANGED <<atBroker, holds, positionRow, panic, takenBack, closeSent>>
  PROVE  ControlInv'
BY DEF ControlInv, NotHeldYet, PanicSees, Dealt

LEMMA ResizeKeeps ==
  ASSUME ControlInv, NEW m \in Modifiers,
         ModifyAsk(m) \/ ModifyReply(m) \/ \E c \in Contracts, n \in Sizes : ModifyStart(m, c, n)
  PROVE  ControlInv'
<1>1. /\ modifier \in [Modifiers -> ModifierState] /\ brokerSize \in [Contracts -> Quantities]
      /\ rowSize \in [Contracts -> Quantities] /\ IdleModifier \in ModifierState
      /\ modifier[m] \in ModifierState /\ modifier[m].size \in Quantities
  BY DEF ControlInv, ControlTyped, ModifierState, IdleModifier, Quantities
<1> DEFINE c == modifier[m].contract
<1>2. CASE ModifyAsk(m)
  <2>1. /\ modifier[m].pc = "ask" /\ c \in Contracts /\ rowSize' = rowSize
        /\ UNCHANGED <<atBroker, holds, orderRow, positionRow, inTheDark, panic, takenBack, closeSent>>
    BY <1>2 DEF ModifyAsk, WhenAsked, ControlInv, ControlTyped
  <2>2. CASE /\ atBroker[c] = "open" /\ brokerSize' = [brokerSize EXCEPT ![c] = modifier[m].size]
             /\ modifier' = [modifier EXCEPT ![m].pc = "reply"]
             /\ crossed' = IF InFlightFor(c) = {} THEN crossed \ {c} ELSE crossed \cup {c}
    <3>1. /\ modifier' \in [Modifiers -> ModifierState]
          /\ modifier'[m].pc = "reply" /\ modifier'[m].contract = c /\ modifier'[m].size = modifier[m].size
          /\ \A k \in Modifiers : k # m => modifier'[k] = modifier[k]
      BY <1>1, <2>2 DEF ModifierState
    <3>2. /\ brokerSize' \in [Contracts -> Quantities] /\ brokerSize'[c] = modifier[m].size
          /\ \A k \in Contracts : k # c => brokerSize'[k] = brokerSize[k]
      BY <1>1, <2>1, <2>2
    <3>3. /\ InFlightFor(c)' = InFlightFor(c) \cup {m}
          /\ \A k \in Contracts : k # c => InFlightFor(k)' = InFlightFor(k)
      BY <2>1, <3>1 DEF InFlightFor
    <3>4. ControlTyped'
      BY <2>1, <3>1, <3>2 DEF ControlInv, ControlTyped
    <3>5. \A k \in Contracts, q \in Modifiers : k # c /\ q \in InFlightFor(k) => modifier'[q] = modifier[q]
      BY <2>1, <3>1 DEF InFlightFor
    <3>6. SizesAgree'
      BY <2>1, <2>2, <3>1, <3>2, <3>3, <3>5 DEF ControlInv, SizesAgree, InFlightFor
    <3> QED
      BY <2>1, <3>4, <3>6, ResizeFrame
  <2>3. CASE modifier' = [modifier EXCEPT ![m] = IdleModifier] /\ UNCHANGED <<brokerSize, crossed>>
    <3>1. /\ modifier' \in [Modifiers -> ModifierState] /\ modifier'[m].pc = "idle"
          /\ \A k \in Modifiers : k # m => modifier'[k] = modifier[k]
      BY <1>1, <2>3 DEF IdleModifier
    <3>2. \A k \in Contracts : InFlightFor(k)' = InFlightFor(k) /\ m \notin InFlightFor(k)
      BY <2>1, <3>1 DEF InFlightFor
    <3> QED
      BY <2>1, <2>3, <3>1, <3>2, ResizeFrame DEF ControlInv, ControlTyped, SizesAgree
  <2> QED
    BY <1>2, <2>2, <2>3 DEF ModifyAsk
<1>3. CASE ModifyReply(m)
  <2> PICK d \in Contracts : d = c
    BY <1>3 DEF ModifyReply, ControlInv, ControlTyped
  <2>1. /\ modifier[m].pc = "reply" /\ modifier[m].contract = d
        /\ modifier' = [modifier EXCEPT ![m] = IdleModifier]
        /\ UNCHANGED <<atBroker, holds, brokerSize, positionRow, crossed, panic, takenBack, closeSent>>
        /\ \/ rowSize' = [rowSize EXCEPT ![d] = modifier[m].size] /\ inTheDark' = inTheDark \ {d}
           \/ inTheDark' = inTheDark \cup {d} /\ rowSize' = rowSize
    BY <1>3 DEF ModifyReply, market, ControlInv, ControlTyped
  <2>2. /\ modifier' \in [Modifiers -> ModifierState] /\ modifier'[m].pc = "idle"
        /\ \A k \in Modifiers : k # m => modifier'[k] = modifier[k]
    BY <1>1, <2>1 DEF IdleModifier
  <2>3. /\ InFlightFor(d)' = InFlightFor(d) \ {m} /\ m \in InFlightFor(d)
        /\ \A k \in Contracts : k # d => InFlightFor(k)' = InFlightFor(k)
        /\ \A k \in Contracts : m \notin InFlightFor(k)'
    BY <2>1, <2>2 DEF InFlightFor
  <2>4. /\ rowSize' \in [Contracts -> Quantities]
        /\ rowSize'[d] = modifier[m].size \/ d \in inTheDark'
        /\ \A k \in Contracts : k # d => rowSize'[k] = rowSize[k] /\ (k \in inTheDark' <=> k \in inTheDark)
    BY <1>1, <2>1
  <2>5. ControlTyped'
    BY <2>1, <2>2, <2>4 DEF ControlInv, ControlTyped
  <2>6. \A k \in Contracts, q \in Modifiers : q \in InFlightFor(k)' => q # m /\ modifier'[q] = modifier[q]
    BY <2>2, <2>3
  <2>7. SizesAgree'
    <3>1. ASSUME NEW k \in Contracts, k \notin crossed, atBroker[k] = "open"
          PROVE  /\ \A q \in InFlightFor(k)' : modifier'[q].size = brokerSize[k] /\ InFlightFor(k)' = {q}
                 /\ InFlightFor(k)' = {} /\ k \notin inTheDark' => rowSize'[k] = brokerSize[k]
      <4>1. /\ \A q \in InFlightFor(k) : modifier[q].size = brokerSize[k] /\ InFlightFor(k) = {q}
            /\ InFlightFor(k) = {} /\ k \notin inTheDark => rowSize[k] = brokerSize[k]
        BY <3>1 DEF ControlInv, SizesAgree
      <4>2. CASE k = d
        <5>1. modifier[m].size = brokerSize[k] /\ InFlightFor(k)' = {}
          BY <2>3, <4>1, <4>2
        <5> QED
          BY <2>4, <4>2, <5>1
      <4>3. CASE k # d
        <5>1. InFlightFor(k)' = InFlightFor(k) /\ \A q \in InFlightFor(k) : modifier'[q] = modifier[q]
          BY <2>3, <2>6, <4>3 DEF InFlightFor
        <5> QED
          BY <2>4, <4>1, <4>3, <5>1
      <4> QED
        BY <4>2, <4>3
    <3> QED
      BY <2>1, <3>1 DEF SizesAgree
  <2> QED
    BY <2>1, <2>5, <2>7, ResizeFrame
<1>4. ASSUME NEW k \in Contracts, NEW n \in Sizes, ModifyStart(m, k, n) PROVE ControlInv'
  <2>1. /\ modifier[m].pc = "idle"
        /\ modifier' = [modifier EXCEPT ![m] = [pc |-> "ask", contract |-> k, size |-> n]]
        /\ UNCHANGED <<atBroker, holds, brokerSize, rowSize, positionRow, inTheDark, crossed, panic,
                       takenBack, closeSent>>
    BY <1>4 DEF ModifyStart, market, books
  <2>2. /\ modifier' \in [Modifiers -> ModifierState] /\ modifier'[m].pc = "ask" /\ modifier'[m].contract = k
        /\ \A q \in Modifiers : q # m => modifier'[q] = modifier[q]
    BY <1>1, <2>1 DEF ModifierState, Quantities
  <2>3. \A q \in Contracts : InFlightFor(q)' = InFlightFor(q) /\ m \notin InFlightFor(q)
    BY <2>1, <2>2 DEF InFlightFor
  <2> QED
    BY <2>1, <2>2, <2>3, ResizeFrame DEF ControlInv, ControlTyped, SizesAgree
<1> QED
  BY <1>2, <1>3, <1>4

(* Panic touches neither a size nor a resize.                              *)
LEMMA PanicKeeps ==
  ASSUME ControlInv,
         PanicStart \/ PanicList \/ PanicReport \/ \E c \in Contracts : PanicCancel(c) \/ PanicClose(c)
  PROVE  ControlInv'
<1>1. /\ atBroker \in [Contracts -> {"none", "open", "filled", "cancelled"}]
      /\ positionRow \in [Contracts -> {"none", "OPEN", "CLOSED"}] /\ panic \in PanicState
  BY DEF ControlInv, ControlTyped
<1>2. /\ UNCHANGED <<brokerSize, rowSize, holds, positionRow, modifier, inTheDark, crossed>>
      /\ \A k \in Contracts : atBroker'[k] = "open" => atBroker[k] = "open"
      /\ atBroker' \in [Contracts -> {"none", "open", "filled", "cancelled"}]
      /\ takenBack \subseteq takenBack' /\ closeSent \subseteq closeSent'
  BY <1>1 DEF PanicStart, PanicList, PanicReport, PanicCancel, PanicClose, market, books, limits
<1>3. NotHeldYet' /\ SizesAgree'
  BY <1>2 DEF ControlInv, NotHeldYet, SizesAgree, InFlightFor
<1>4. \A k \in Contracts : Dealt(k) => Dealt(k)'
  BY <1>2 DEF Dealt
<1>5. panic' \in PanicState /\ PanicSees'
  <2>1. CASE PanicStart
    BY <1>1, <2>1 DEF PanicStart, PanicSees, PanicState, Working, market, books
  <2>2. CASE PanicList
    <3>1. /\ panic.pc = "cancel" /\ panic.todo = {}
          /\ panic' = [panic EXCEPT !.pc = "close", !.todo = {c \in Contracts : positionRow[c] = "OPEN"}]
      BY <2>2 DEF PanicList
    <3> DEFINE list == {c \in Contracts : positionRow[c] = "OPEN"}
    <3>2. list \in SUBSET Contracts
      OBVIOUS
    <3>3. panic' = [panic EXCEPT !.pc = "close", !.todo = list]
      BY <3>1
    <3>4. \A c \in Contracts : positionRow[c] = "OPEN" => c \in list
      OBVIOUS
    <3> HIDE DEF list
    <3>5. /\ panic' \in PanicState /\ panic'.pc = "close" /\ panic'.todo = list
          /\ panic'.sight = panic.sight /\ panic'.failures = panic.failures
      BY <1>1, <3>2, <3>3 DEF PanicState
    <3> QED
      BY <1>1, <1>4, <3>1, <3>4, <3>5 DEF ControlInv, PanicSees, PanicState
  <2>3. CASE PanicReport
    BY <1>1, <1>4, <2>3 DEF PanicReport, ControlInv, PanicSees, PanicState
  <2>4. ASSUME NEW c \in Contracts, PanicCancel(c) \/ PanicClose(c) PROVE panic' \in PanicState /\ PanicSees'
    <3>1. /\ panic' \in PanicState /\ panic'.pc = panic.pc /\ panic.pc \in {"cancel", "close"}
          /\ panic'.sight = panic.sight /\ panic'.todo = panic.todo \ {c}
          /\ panic'.failures = {} => panic.failures = {} /\ c \in takenBack' \cup closeSent'
      <4>1. /\ Done(c) \in PanicState /\ Done(c).pc = panic.pc /\ Done(c).sight = panic.sight
            /\ Done(c).todo = panic.todo \ {c} /\ Done(c).failures = panic.failures
        BY <1>1 DEF Done, PanicState
      <4>2. /\ Failed(c) \in PanicState /\ Failed(c).pc = panic.pc /\ Failed(c).sight = panic.sight
            /\ Failed(c).todo = panic.todo \ {c} /\ Failed(c).failures # {}
        BY <1>1 DEF Failed, PanicState
      <4>3. /\ panic.pc \in {"cancel", "close"}
            /\ panic' = Failed(c) \/ (panic' = Done(c) /\ c \in takenBack' \cup closeSent')
        BY <2>4 DEF PanicCancel, PanicClose, RefusedInReply
      <4> QED
        BY <4>1, <4>2, <4>3
    <3> QED
      BY <1>1, <1>2, <1>4, <3>1 DEF ControlInv, PanicSees, PanicState, Dealt
  <2> QED
    BY <2>1, <2>2, <2>3, <2>4
<1>6. ControlTyped'
  BY <1>2, <1>5 DEF ControlInv, ControlTyped
<1> QED
  BY <1>3, <1>5, <1>6 DEF ControlInv

LEMMA ControlStepInv == ControlInv /\ [ControlNext]_ctrlVars => ControlInv'
<1> SUFFICES ASSUME ControlInv, [ControlNext]_ctrlVars PROVE ControlInv'
  OBVIOUS
<1>1. CASE ControlRestart
  <2>1. /\ panic' = IdlePanic /\ modifier' = [m \in Modifiers |-> IdleModifier]
        /\ UNCHANGED <<atBroker, brokerSize, holds, rowSize, positionRow, crossed, takenBack, closeSent>>
        /\ inTheDark' = inTheDark \cup {modifier[m].contract : m \in {k \in Modifiers : modifier[k].pc = "reply"}}
    BY <1>1 DEF ControlRestart, market, books
  <2>2. ControlTyped'
    BY <2>1 DEF ControlInv, ControlTyped, ModifierState, PanicState, IdleModifier, IdlePanic, Quantities
  <2>3. NotHeldYet' /\ PanicSees'
    BY <2>1 DEF ControlInv, NotHeldYet, PanicSees, IdlePanic
  <2>4. \A c \in Contracts : InFlightFor(c)' = {} /\ (InFlightFor(c) # {} => c \in inTheDark')
    BY <2>1 DEF InFlightFor, IdleModifier
  <2>5. SizesAgree'
    BY <2>1, <2>4 DEF ControlInv, SizesAgree
  <2> QED
    BY <2>2, <2>3, <2>5 DEF ControlInv
<1>2. CASE UNCHANGED ctrlVars
  BY <1>2 DEF ControlInv, ControlTyped, NotHeldYet, PanicSees, Dealt, SizesAgree, InFlightFor, ctrlVars
<1> QED
  BY <1>1, <1>2, MarketKeeps, ResizeKeeps, PanicKeeps DEF ControlNext

LEMMA ControlInvSound == ControlInv => PanicOwnsUp /\ ResizeAgrees
BY DEF ControlInv, ControlTyped, PanicState, PanicSees, Dealt, SizesAgree, PanicOwnsUp, ResizeAgrees

(* However many tabs resize one order and whatever fills meanwhile, a row  *)
(* has the size the broker works once no resize of it is in flight (unless *)
(* a reply was lost or two overlapped); and a panic that reports no        *)
(* failure leaves nothing it saw alive and untouched.                      *)
THEOREM ControlsOwnUp == ControlSpec => [](PanicOwnsUp /\ ResizeAgrees)
<1>1. ControlSpec => []ControlInv
  BY ControlInitInv, ControlStepInv, PTL DEF ControlSpec
<1> QED
  BY <1>1, ControlInvSound, PTL

-----------------------------------------------------------------------------
(* One call to Dhan.                                                       *)
Quoted == Futures \cup {NoFuture}
CallAt == {"idle", "sent", "answered", "unwrap", "done"}
CallKind == {"none", "order", "read", "chain", "quote"}
CallStatus == {0, 200, 400, 500}
CallBody == {"none", "json", "text", "failed"}
CallTold == {"none", "guard", "threw", "result"}
Spots == Prices \cup {Absent, Min(Prices)}
CallState ==
  [at : CallAt, kind : CallKind, status : CallStatus, body : CallBody, told : CallTold, spot : Spots,
   atm : Prices \cup {Absent}, strikes : SUBSET Prices, quote : Quoted, hour : Nat]

(* What the steps make of a call is a call.                                *)
LEMMA CallMoves ==
  ASSUME NEW c \in CallState, NEW a \in CallAt
  PROVE  /\ [c EXCEPT !.at = a] \in CallState
         /\ \A k \in CallKind : [c EXCEPT !.at = a, !.kind = k] \in CallState
         /\ \A t \in CallTold : [c EXCEPT !.at = a, !.told = t] \in CallState
         /\ \A k \in CallKind, t \in CallTold : [c EXCEPT !.at = a, !.kind = k, !.told = t] \in CallState
         /\ \A k \in CallKind, x \in Spots : [c EXCEPT !.at = a, !.kind = k, !.spot = x] \in CallState
         /\ \A n \in CallStatus, b \in CallBody : [c EXCEPT !.at = a, !.status = n, !.body = b] \in CallState
         /\ \A t \in CallTold, n \in CallStatus : [c EXCEPT !.at = a, !.told = t, !.status = n] \in CallState
         /\ \A t \in CallTold, x \in Spots : [c EXCEPT !.at = a, !.told = t, !.spot = x] \in CallState
BY DEF CallState

LEMMA QuoteMoves ==
  ASSUME NEW c \in CallState, NEW a \in CallAt, NEW k \in CallKind, NEW q \in Quoted, NEW h \in Nat
  PROVE  [c EXCEPT !.at = a, !.kind = k, !.quote = q, !.hour = h] \in CallState
BY DEF CallState

LEMMA ChainMoves ==
  ASSUME NEW c \in CallState, NEW a \in CallAt, NEW t \in CallTold, NEW x \in Spots,
         NEW m \in Prices \cup {Absent}, NEW T \in SUBSET Prices
  PROVE  [c EXCEPT !.at = a, !.told = t, !.strikes = T, !.spot = x, !.atm = m] \in CallState
BY DEF CallState

LEMMA CallWords ==
  /\ "sent" \in CallAt /\ "answered" \in CallAt /\ "unwrap" \in CallAt /\ "done" \in CallAt
  /\ "chain" \in CallKind /\ "quote" \in CallKind /\ "order" \in CallKind /\ "read" \in CallKind
  /\ 0 \in CallStatus /\ "guard" \in CallTold /\ "threw" \in CallTold /\ "result" \in CallTold
BY DEF CallAt, CallKind, CallStatus, CallTold

LEMMA IdleTyped == NoCall \in CallState
BY DEF NoCall, CallState, CallAt, CallKind, CallStatus, CallBody, CallTold, Spots, Quoted, Absent

(* How far the call is says what Dhan did, and what was logged and told.   *)
CallFollows ==
  /\ call.at \in {"idle", "sent"} => call.told = "none" /\ call.status = 0 /\ dhanLog = <<>>
  /\ call.at = "answered" => /\ call.told = "none" /\ dhanLog = <<>>
                             /\ call.status = 400 /\ call.body = "json" => atDhan = "refused"
  /\ call.at = "unwrap" => call.told = "none" /\ call.status = 200 /\ dhanLog = <<TRUE>>
  /\ call.at = "done" =>
       \/ call.told = "guard" /\ dhanLog = <<>>
       \/ call.told = "result" /\ dhanLog = <<TRUE>>
       \/ /\ call.told = "threw" /\ (call.status = 400 => atDhan = "refused")
          /\ dhanLog # <<>> /\ (Last(dhanLog) => call.kind = "chain")

(* A future kept was traded on the day it was fetched.                     *)
FrontsTrue ==
  /\ hour \in Nat /\ fronts \in [until : Int, quote : Quoted]
  /\ master.listed \subseteq Futures
  /\ fronts.quote # NoFuture =>
       /\ fronts.until >= QuoteCache
       /\ fronts.quote.last >= Day(fronts.until - QuoteCache)

DhanInv == call \in CallState /\ CallFollows /\ FrontsTrue /\ FrontMonthIsRecent

LEMMA DayGrows ==
  ASSUME NEW a \in Int, NEW b \in Int, a <= b PROVE Day(a) \in Int /\ Day(a) <= Day(b)
BY DhanAssumption, SMTT(30) DEF Day

(* The front month chosen has not traded for the last time.                *)
LEMMA FrontIsLive ==
  ASSUME NEW L \in SUBSET Futures, hour \in Nat, FrontMonth(L) # NoFuture
  PROVE  FrontMonth(L) \in Futures /\ FrontMonth(L).last >= Day(hour)
<1> DEFINE live == {f \in L : NotOver(f)}
           days == {f.last : f \in live}
<1>1. live # {} /\ FrontMonth(L) = CHOOSE f \in live : \A g \in live : f.last <= g.last
  BY DEF FrontMonth
<1>2. PICK d \in days : \A e \in days : d <= e
  BY <1>1, Least, DhanAssumption
<1>3. \E f \in live : \A g \in live : f.last <= g.last
  BY <1>2
<1>4. FrontMonth(L) \in live
  BY <1>1, <1>3
<1> QED
  BY <1>4 DEF NotOver

LEMMA FrontTyped == ASSUME NEW L \in SUBSET Futures, hour \in Nat PROVE FrontMonth(L) \in Quoted
BY FrontIsLive DEF Quoted

(* The ATM strike is one of those there are.                               *)
LEMMA AtmListed ==
  ASSUME NEW T \in SUBSET Prices, T # {}, NEW spot \in Nat PROVE AtmStrike(T, spot) \in Prices
<1> DEFINE gaps == {Gap(s, spot) : s \in T}
           near == {s \in T : \A t \in T : Gap(s, spot) <= Gap(t, spot)}
<1>1. T \subseteq Nat
  BY DhanAssumption
<1>2. gaps \subseteq Nat /\ gaps # {}
  <2>1. \A s \in T : Gap(s, spot) \in Nat
    BY <1>1 DEF Gap
  <2> QED
    BY <2>1
<1>3. PICK g \in gaps : \A h \in gaps : g <= h
  BY <1>2, Least
<1>4. near # {} /\ near \subseteq Nat
  <2>1. PICK s \in T : g = Gap(s, spot)
    BY DEF gaps
  <2>2. \A t \in T : Gap(s, spot) <= Gap(t, spot)
    BY <1>3, <2>1
  <2> QED
    BY <1>1, <2>2
<1>5. PICK x \in near : \A y \in near : x <= y
  BY <1>4, Least
<1>6. AtmStrike(T, spot) = Min(near)
  BY DEF AtmStrike
<1>7. Min(near) \in near
  <2> HIDE DEF near
  <2> QED
    BY <1>5 DEF Min
<1> QED
  BY <1>6, <1>7

LEMMA DhanInitInv == DhanInit => DhanInv
BY IdleTyped DEF DhanInit, DhanInv, CallFollows, FrontsTrue, FrontMonthIsRecent, NoCall, Empty, Quoted

(* What the audit callback is given ends the log.                          *)
LEMMA LogGrows ==
  /\ Append(<<>>, FALSE) = <<FALSE>> /\ Append(<<>>, TRUE) = <<TRUE>>
  /\ <<FALSE>> # <<>> /\ ~Last(<<FALSE>>)
  /\ Append(<<TRUE>>, FALSE) # <<>> /\ ~Last(Append(<<TRUE>>, FALSE))
  /\ <<TRUE>> # <<>>
<1>1. /\ Append(<<>>, FALSE) = <<FALSE>> /\ Append(<<>>, TRUE) = <<TRUE>>
      /\ <<FALSE>> # <<>> /\ <<TRUE>> # <<>>
  OBVIOUS
<1>2. ASSUME NEW a, NEW b
      PROVE  Last(<<a>>) = a /\ Append(<<a>>, b) # <<>> /\ Last(Append(<<a>>, b)) = b
  <2>1. <<a>> \in Seq({a, b}) /\ Len(<<a>>) = 1 /\ Append(<<a>>, b) \in Seq({a, b})
        /\ Len(Append(<<a>>, b)) = 2 /\ Append(<<a>>, b)[2] = b
    OBVIOUS
  <2> QED
    BY <2>1 DEF Last
<1> QED
  BY <1>1, <1>2

(* The call moves and nothing else the caches rest on does.                *)
LEMMA CallFrame ==
  ASSUME DhanInv, call' \in CallState, call'.kind = call.kind, call'.quote = call.quote,
         call'.hour = call.hour, UNCHANGED <<master, fronts, hour>>, CallFollows'
  PROVE  DhanInv'
BY DEF DhanInv, FrontsTrue, FrontMonthIsRecent

(* A call stops at the guard or is sent.                                   *)
LEMMA CallBegins ==
  ASSUME DhanInv, (\E kind \in {"order", "read"} : Refuse(kind) \/ Send(kind))
                  \/ \E override \in Prices \cup {Absent} : SendChain(override)
  PROVE  DhanInv'
<1>1. call = NoCall /\ UNCHANGED <<atDhan, dhanLog, master, fronts, hour>> /\ NoCall \in CallState
  BY IdleTyped DEF Refuse, Send, SendChain
<1>2. dhanLog = <<>> /\ NoCall.told = "none" /\ NoCall.status = 0 /\ NoCall.quote = NoFuture
  BY <1>1 DEF DhanInv, CallFollows, NoCall
<1>3. /\ call' \in CallState /\ call'.quote = NoFuture
      /\ \/ call'.at = "sent" /\ call'.told = "none" /\ call'.status = 0
         \/ call'.at = "done" /\ call'.told = "guard"
  <2>1. ASSUME NEW kind \in {"order", "read"}, Refuse(kind)
        PROVE  /\ call' \in CallState /\ call'.quote = NoFuture
               /\ call'.at = "done" /\ call'.told = "guard"
    <3>1. call' = [NoCall EXCEPT !.at = "done", !.kind = kind, !.told = "guard"]
      BY <2>1 DEF Refuse
    <3>2. call' \in CallState
      BY <1>1, <3>1, CallMoves, CallWords DEF Spots
    <3> QED
      BY <1>1, <1>2, <3>1, <3>2 DEF CallState
  <2>2. ASSUME NEW kind \in {"order", "read"}, Send(kind)
        PROVE  /\ call' \in CallState /\ call'.quote = NoFuture
               /\ call'.at = "sent" /\ call'.told = "none" /\ call'.status = 0
    <3>1. call' = [NoCall EXCEPT !.at = "sent", !.kind = kind]
      BY <2>2 DEF Send
    <3>2. call' \in CallState
      BY <1>1, <3>1, CallMoves, CallWords DEF Spots
    <3> QED
      BY <1>1, <1>2, <3>1, <3>2 DEF CallState
  <2>3. ASSUME NEW override \in Prices \cup {Absent}, SendChain(override)
        PROVE  /\ call' \in CallState /\ call'.quote = NoFuture
               /\ call'.at = "sent" /\ call'.told = "none" /\ call'.status = 0
    <3>1. call' = [NoCall EXCEPT !.at = "sent", !.kind = "chain", !.spot = override]
      BY <2>3 DEF SendChain
    <3>2. call' \in CallState
      BY <1>1, <3>1, CallMoves, CallWords DEF Spots
    <3> QED
      BY <1>1, <1>2, <3>1, <3>2 DEF CallState
  <2>4. ASSUME NEW kind \in {"order", "read"}, Refuse(kind) \/ Send(kind)
        PROVE  /\ call' \in CallState /\ call'.quote = NoFuture
               /\ \/ call'.at = "sent" /\ call'.told = "none" /\ call'.status = 0
                  \/ call'.at = "done" /\ call'.told = "guard"
    BY <2>1, <2>2, <2>4
  <2> QED
    BY <2>3, <2>4
<1>4. CallFollows'
  BY <1>1, <1>2, <1>3 DEF CallFollows
<1> QED
  BY <1>1, <1>3, <1>4 DEF DhanInv, FrontsTrue, FrontMonthIsRecent

LEMMA QuoteBegins == ASSUME DhanInv, SendQuote PROVE DhanInv'
<1> DEFINE csv   == IF Cached(master) THEN master ELSE [until |-> hour + CsvCache, listed |-> ListedNow]
           front == IF Cached(fronts) THEN fronts
                    ELSE [until |-> hour + QuoteCache, quote |-> FrontMonth(csv.listed)]
           begun == Max({hour - QuoteCache, 0})
<1>1. /\ call = NoCall /\ master' \in {master, csv} /\ fronts' = front
      /\ call' = [NoCall EXCEPT !.at = "sent", !.kind = "quote", !.quote = front.quote, !.hour = hour]
      /\ UNCHANGED <<atDhan, dhanLog, hour>>
  BY DEF SendQuote
<1>2. /\ hour \in Nat /\ fronts \in [until : Int, quote : Quoted] /\ dhanLog = <<>>
      /\ QuoteCache \in Nat
  BY <1>1, DhanAssumption DEF DhanInv, FrontsTrue, CallFollows, NoCall
<1>3. csv.listed \subseteq Futures
  BY DEF DhanInv, FrontsTrue, ListedNow
<1>4. front \in [until : Int, quote : Quoted]
  BY <1>2, <1>3, FrontTyped
<1>5. front.quote # NoFuture => /\ front.until >= QuoteCache
                                /\ front.quote.last >= Day(front.until - QuoteCache)
  <2>1. CASE Cached(fronts)
    BY <1>2, <2>1 DEF DhanInv, FrontsTrue, Cached
  <2>2. CASE ~Cached(fronts)
    <3>1. front.until = hour + QuoteCache /\ front.quote = FrontMonth(csv.listed)
      BY <2>2
    <3>2. front.until - QuoteCache = hour
      BY <1>2, <3>1
    <3> QED
      BY <1>2, <1>3, <3>1, <3>2, FrontIsLive
  <2> QED
    BY <2>1, <2>2
<1>6. begun \in Int /\ begun = IF hour - QuoteCache > 0 THEN hour - QuoteCache ELSE 0
  <2>1. hour - QuoteCache \in Int
    BY <1>2
  <2> DEFINE most == IF hour - QuoteCache > 0 THEN hour - QuoteCache ELSE 0
  <2>2. most \in {hour - QuoteCache, 0} /\ \A y \in {hour - QuoteCache, 0} : most >= y
    BY <2>1
  <2>3. \A x \in {hour - QuoteCache, 0} : (\A y \in {hour - QuoteCache, 0} : x >= y) => x = most
    BY <2>1
  <2> QED
    BY <2>1, <2>2, <2>3 DEF Max
<1>7. front.quote # NoFuture => front.quote.last >= Day(begun)
  <2> SUFFICES ASSUME front.quote # NoFuture PROVE front.quote.last >= Day(begun)
    OBVIOUS
  <2>1. front.quote.last \in Int
    BY <1>4, DhanAssumption DEF Quoted
  <2>2. front.until - QuoteCache \in Int /\ begun <= front.until - QuoteCache
    BY <1>2, <1>4, <1>5, <1>6 DEF Cached
  <2>3. Day(begun) \in Int /\ Day(front.until - QuoteCache) \in Int
        /\ Day(begun) <= Day(front.until - QuoteCache)
    BY <1>6, <2>2, DayGrows
  <2> QED
    BY <1>5, <2>1, <2>3
<1> HIDE DEF csv, front
<1>8. /\ call' \in CallState /\ call'.at = "sent" /\ call'.told = "none" /\ call'.status = 0
      /\ call'.quote = front.quote /\ call'.hour = hour
  <2> DEFINE quote == front.quote
  <2>1. /\ NoCall \in CallState /\ NoCall.told = "none" /\ NoCall.status = 0 /\ quote \in Quoted
    BY <1>1, <1>4 DEF DhanInv, NoCall
  <2>2. call' = [NoCall EXCEPT !.at = "sent", !.kind = "quote", !.quote = quote, !.hour = hour]
    BY <1>1
  <2> HIDE DEF quote
  <2>3. /\ call' \in CallState /\ call'.at = "sent" /\ call'.told = "none" /\ call'.status = 0
        /\ call'.quote = quote /\ call'.hour = hour
    <3>1. call' \in CallState
      BY <1>2, <2>1, <2>2, QuoteMoves, CallWords
    <3> QED
      BY <2>1, <2>2, <3>1 DEF CallState
  <2> QED
    BY <2>3 DEF quote
<1>9. CallFollows'
  BY <1>1, <1>2, <1>8 DEF CallFollows
<1>10. FrontsTrue'
  <2>1. master'.listed \subseteq Futures
    BY <1>1, <1>3 DEF DhanInv, FrontsTrue
  <2> QED
    BY <1>1, <1>2, <1>4, <1>5, <2>1 DEF FrontsTrue
<1>11. FrontMonthIsRecent'
  <2>1. Max({call'.hour - QuoteCache, 0}) = begun
    BY <1>8
  <2> QED
    BY <1>1, <1>7, <1>8, <2>1 DEF FrontMonthIsRecent
<1> QED
  BY <1>8, <1>9, <1>10, <1>11 DEF DhanInv

LEMMA CallAnswered ==
  ASSUME DhanInv, NoAnswer \/ BadAnswer \/ GoodAnswer \/ SaysFailed \/ Unwrapped
                  \/ \E status \in {200, 400, 500}, body \in {"json", "text", "failed"}, done \in BOOLEAN :
                       Answer(status, body, done)
  PROVE  DhanInv'
<1> DEFINE Same == /\ call' \in CallState /\ call'.kind = call.kind /\ call'.quote = call.quote
                   /\ call'.hour = call.hour
<1>0. CallFollows
  BY DEF DhanInv
<1>1. call \in CallState
  BY DEF DhanInv
<1>2. ASSUME NEW status \in {200, 400, 500}, NEW body \in {"json", "text", "failed"}, NEW done \in BOOLEAN,
             Answer(status, body, done)
      PROVE  DhanInv'
  <2>1. /\ call.at = "sent" /\ call' = [call EXCEPT !.at = "answered", !.status = status, !.body = body]
        /\ UNCHANGED <<dhanLog, master, fronts, hour>>
        /\ status = 400 /\ body = "json" => atDhan' = "refused"
    BY <1>2 DEF Answer
  <2>2. Same /\ call'.at = "answered" /\ call'.told = call.told /\ call'.status = status /\ call'.body = body
    <3>1. call' = [call EXCEPT !.at = "answered", !.status = status, !.body = body]
      BY <2>1
    <3>2. status \in CallStatus /\ body \in CallBody
      BY DEF CallStatus, CallBody
    <3>3. \A n \in CallStatus, b \in CallBody :
            [call EXCEPT !.at = "answered", !.status = n, !.body = b] \in CallState
      BY <1>1, CallMoves, CallWords
    <3>4. call' \in CallState
      BY <3>1, <3>2, <3>3
    <3> QED
      BY <1>1, <2>1, <3>1, <3>4 DEF CallState
  <2>3. CallFollows'
    BY <1>0, <1>1, <2>1, <2>2 DEF CallFollows
  <2> QED
    BY <2>1, <2>2, <2>3, CallFrame
<1>3. CASE NoAnswer
  <2>1. /\ call.at = "sent" /\ call' = [call EXCEPT !.at = "done", !.told = "threw"]
        /\ dhanLog' = Append(dhanLog, FALSE) /\ UNCHANGED <<master, fronts, hour>>
    BY <1>3 DEF NoAnswer, Audit
  <2>2. Same /\ call'.at = "done" /\ call'.told = "threw" /\ call'.status = call.status
    <3>1. call' = [call EXCEPT !.at = "done", !.told = "threw"]
      BY <2>1
    <3>2. call' \in CallState
      BY <1>1, <3>1, CallMoves, CallWords
    <3> QED
      BY <1>1, <2>1, <3>1, <3>2 DEF CallState
  <2>3. dhanLog' = <<FALSE>> /\ call'.status = 0
    BY <1>0, <1>1, <2>1, <2>2, LogGrows, ZenonT(60) DEF CallFollows
  <2>4. CallFollows'
    BY <2>2, <2>3, LogGrows DEF CallFollows
  <2> QED
    BY <2>1, <2>2, <2>4, CallFrame
<1>4. CASE BadAnswer
  <2> DEFINE status == Withheld(call.status, call.body)
  <2>1. /\ call.at = "answered" /\ call' = [call EXCEPT !.at = "done", !.told = "threw", !.status = status]
        /\ dhanLog' = Append(dhanLog, FALSE) /\ UNCHANGED <<atDhan, master, fronts, hour>>
    BY <1>4 DEF BadAnswer, Audit
  <2>2. /\ status \in CallStatus
        /\ status = 400 => atDhan = "refused"
    BY <1>0, <1>1, <2>1 DEF Withheld, CallState, CallStatus, CallFollows
  <2> HIDE DEF status
  <2>3. Same /\ call'.at = "done" /\ call'.told = "threw" /\ call'.status = status
    <3>1. call' = [call EXCEPT !.at = "done", !.told = "threw", !.status = status]
      BY <2>1
    <3>2. call' \in CallState
      BY <1>1, <2>2, <3>1, CallMoves, CallWords
    <3> QED
      BY <1>1, <2>1, <3>1, <3>2 DEF CallState
  <2>4. dhanLog' = <<FALSE>>
    BY <1>0, <1>1, <2>1, LogGrows DEF CallFollows
  <2>5. CallFollows'
    BY <2>1, <2>2, <2>3, <2>4, LogGrows DEF CallFollows
  <2> QED
    BY <2>1, <2>3, <2>5, CallFrame
<1>5. CASE GoodAnswer
  <2>1. /\ call.at = "answered" /\ call.status = 200 /\ call' = [call EXCEPT !.at = "unwrap"]
        /\ dhanLog' = Append(dhanLog, TRUE) /\ UNCHANGED <<atDhan, master, fronts, hour>>
    BY <1>5 DEF GoodAnswer, Audit
  <2>2. Same /\ call'.at = "unwrap" /\ call'.told = call.told /\ call'.status = call.status
    <3>1. call' = [call EXCEPT !.at = "unwrap"]
      BY <2>1
    <3>2. call' \in CallState
      BY <1>1, <3>1, CallMoves, CallWords
    <3> QED
      BY <1>1, <2>1, <3>1, <3>2 DEF CallState
  <2>3. dhanLog' = <<TRUE>>
    BY <1>0, <1>1, <2>1, LogGrows DEF CallFollows
  <2>4. CallFollows'
    BY <1>0, <1>1, <2>1, <2>2, <2>3, ZenonT(60) DEF CallFollows
  <2> QED
    BY <2>1, <2>2, <2>4, CallFrame
<1>6. CASE SaysFailed
  <2>1. /\ call.at = "unwrap" /\ call' = [call EXCEPT !.at = "done", !.told = "threw", !.status = 0]
        /\ dhanLog' = Append(dhanLog, FALSE) /\ UNCHANGED <<atDhan, master, fronts, hour>>
    BY <1>6 DEF SaysFailed, Audit
  <2>2. Same /\ call'.at = "done" /\ call'.told = "threw" /\ call'.status = 0
    <3>1. call' = [call EXCEPT !.at = "done", !.told = "threw", !.status = 0]
      BY <2>1
    <3>2. call' \in CallState
      BY <1>1, <3>1, CallMoves, CallWords
    <3> QED
      BY <1>1, <2>1, <3>1, <3>2 DEF CallState
  <2>3. dhanLog' # <<>> /\ ~Last(dhanLog')
    BY <1>0, <1>1, <2>1, LogGrows, ZenonT(60) DEF CallFollows
  <2>4. CallFollows'
    BY <2>2, <2>3, LogGrows DEF CallFollows
  <2> QED
    BY <2>1, <2>2, <2>4, CallFrame
<1>7. CASE Unwrapped
  <2>1. /\ call.at = "unwrap" /\ call' = [call EXCEPT !.at = "done", !.told = "result"]
        /\ UNCHANGED <<atDhan, dhanLog, master, fronts, hour>>
    BY <1>7 DEF Unwrapped
  <2>2. Same /\ call'.at = "done" /\ call'.told = "result"
    <3>1. call' = [call EXCEPT !.at = "done", !.told = "result"]
      BY <2>1
    <3>2. call' \in CallState
      BY <1>1, <3>1, CallMoves, CallWords
    <3> QED
      BY <1>1, <2>1, <3>1, <3>2 DEF CallState
  <2>3. CallFollows'
    BY <1>0, <1>1, <2>1, <2>2 DEF CallFollows
  <2> QED
    BY <2>1, <2>2, <2>3, CallFrame
<1> QED
  BY <1>2, <1>3, <1>4, <1>5, <1>6, <1>7

LEMMA CallDecoded == ASSUME DhanInv, Decode PROVE DhanInv'
<1> DEFINE Same == /\ call' \in CallState /\ call'.kind = call.kind /\ call'.quote = call.quote
                   /\ call'.hour = call.hour
<1>1. /\ call \in CallState /\ (call.at = "unwrap" => dhanLog = <<TRUE>>)
      /\ {0, 200} \subseteq {0, 200, 400, 500} /\ Absent \in Nat /\ Prices \subseteq Nat
  BY DhanAssumption DEF DhanInv, CallFollows, Absent
<1>2. ASSUME NEW spot \in Prices \cup {Absent}, NEW strikes \in SUBSET Prices, NEW quoted \in SUBSET Prices,
             ChainDecoded(spot, strikes, quoted)
      PROVE  /\ Same /\ call'.at = "done" /\ call.kind = "chain"
             /\ \/ call'.told = "threw" /\ call'.status = 0
                \/ call'.told = "result"
  <2>1. CASE strikes = {}
    <3>1. call' = [call EXCEPT !.at = "done", !.told = "threw", !.status = 0] /\ call.kind = "chain"
      BY <1>2, <2>1 DEF ChainDecoded
    <3>2. call' \in CallState
      BY <1>1, <3>1, CallMoves, CallWords
    <3> QED
      BY <1>1, <3>1, <3>2 DEF CallState
  <2>2. CASE strikes # {}
    <3> DEFINE sp == IF call.spot = Absent THEN spot ELSE call.spot
               at == IF call.spot = Absent \/ quoted = {} THEN AtmStrike(strikes, spot)
                     ELSE AtmStrike(quoted, call.spot)
    <3>1. /\ call' = [call EXCEPT !.at = "done", !.told = "result", !.strikes = quoted, !.spot = sp, !.atm = at]
          /\ call.kind = "chain"
      BY <1>2, <2>2 DEF ChainDecoded
    <3>2. sp \in Spots
      BY <1>1 DEF CallState, Spots
    <3>3. at \in Prices \cup {Absent}
      <4>1. CASE call.spot = Absent \/ quoted = {}
        BY <1>1, <2>2, <4>1, AtmListed
      <4>2. CASE ~(call.spot = Absent \/ quoted = {})
        <5>1. call.spot \in Nat
          <6>1. CASE Prices = {}
            BY <4>2, <6>1
          <6>2. CASE Prices # {}
            <7>1. PICK x \in Prices : \A y \in Prices : x <= y
              BY <1>1, <6>2, Least
            <7>2. Min(Prices) \in Prices
              BY <7>1 DEF Min
            <7> QED
              BY <1>1, <7>2, ZenonT(60) DEF CallState, Spots
          <6> QED
            BY <6>1, <6>2
        <5> QED
          BY <4>2, <5>1, AtmListed
      <4> QED
        BY <4>1, <4>2
    <3> HIDE DEF sp, at
    <3>4. call' \in CallState
      BY <1>1, <3>1, <3>2, <3>3, ChainMoves, CallWords
    <3> QED
      BY <1>1, <3>1, <3>4 DEF CallState
  <2> QED
    BY <2>1, <2>2
<1>3. ASSUME NEW primary \in {Absent, Min(Prices)}, NEW fallback \in {Absent, Min(Prices)},
             QuoteDecoded(primary, fallback)
      PROVE  Same /\ call'.at = "done" /\ call'.told = "result"
  <2> DEFINE sp == SelectQuote(primary, fallback)
  <2>1. call' = [call EXCEPT !.at = "done", !.told = "result", !.spot = sp]
    BY <1>3 DEF QuoteDecoded
  <2>2. sp \in Spots
    BY DEF SelectQuote, Spots
  <2> HIDE DEF sp
  <2> QED
    <3>1. call' \in CallState
      BY <1>1, <2>1, <2>2, CallMoves, CallWords
    <3> QED
      BY <1>1, <2>1, <2>2, <3>1 DEF CallState
<1>4. dhanLog' = <<TRUE>> /\ UNCHANGED <<master, fronts, hour>>
  BY <1>1 DEF Decode, ChainDecoded, QuoteDecoded
<1>5. /\ Same /\ call'.at = "done"
      /\ \/ call'.told = "threw" /\ call'.status = 0 /\ call'.kind = "chain"
         \/ call'.told = "result"
  <2>1. CASE \E spot \in Prices \cup {Absent}, strikes, quoted \in SUBSET Prices :
               ChainDecoded(spot, strikes, quoted)
    BY <1>2, <2>1
  <2>2. CASE \E primary, fallback \in {Absent, Min(Prices)} : QuoteDecoded(primary, fallback)
    BY <1>3, <2>2
  <2> QED
    BY <2>1, <2>2 DEF Decode
<1>6. CallFollows'
  BY <1>4, <1>5, LogGrows DEF CallFollows
<1> QED
  BY <1>4, <1>5, <1>6, CallFrame

LEMMA DhanStepInv == DhanInv /\ [DhanNext]_dhanVars => DhanInv'
<1> SUFFICES ASSUME DhanInv, [DhanNext]_dhanVars PROVE DhanInv'
  OBVIOUS
<1>1. CASE DhanTick
  <2>1. hour' \in Nat /\ UNCHANGED <<call, atDhan, dhanLog, master, fronts>>
    BY <1>1 DEF DhanTick, DhanInv, FrontsTrue
  <2> QED
    BY <2>1 DEF DhanInv, CallFollows, FrontsTrue, FrontMonthIsRecent
<1>2. CASE NextCall
  <2>2. /\ call' = NoCall /\ dhanLog' = <<>> /\ UNCHANGED <<master, fronts, hour>>
        /\ NoCall.at = "idle" /\ NoCall.told = "none" /\ NoCall.status = 0 /\ NoCall.quote = NoFuture
    BY <1>2 DEF NextCall, NoCall
  <2> QED
    BY IdleTyped, <2>2 DEF DhanInv, CallFollows, FrontsTrue, FrontMonthIsRecent
<1>3. CASE UNCHANGED dhanVars
  BY <1>3 DEF dhanVars, DhanInv, CallFollows, FrontsTrue, FrontMonthIsRecent
<1> QED
  BY <1>1, <1>2, <1>3, CallBegins, QuoteBegins, CallAnswered, CallDecoded DEF DhanNext

LEMMA DhanInvSound == DhanInv => RefusalIsTrue /\ AuditMatches /\ FrontMonthIsRecent
<1> SUFFICES ASSUME DhanInv PROVE RefusalIsTrue /\ AuditMatches
  BY DEF DhanInv
<1>1. call.told = "threw" => call.at = "done"
  BY DEF DhanInv, CallFollows, CallState, CallAt
<1>2. RefusalIsTrue
  BY <1>1 DEF DhanInv, CallFollows, RefusalIsTrue
<1>3. AuditMatches
  <2> SUFFICES ASSUME call.at = "done"
               PROVE  CASE call.told = "guard"  -> dhanLog = <<>>
                        [] call.told = "result" -> dhanLog = <<TRUE>>
                        [] call.told = "threw"  -> dhanLog # <<>> /\ (Last(dhanLog) => call.kind = "chain")
    BY DEF AuditMatches
  <2> QED
    BY DEF DhanInv, CallFollows
<1> QED
  BY <1>2, <1>3

(* An error with a 4xx status is only raised for a request that Dhan did   *)
(* not carry out, the audit log ends with what the caller was told, and a  *)
(* commodity's contract still traded one life of the cache ago: for any    *)
(* contracts, times to live, prices and answers.                           *)
THEOREM CallIsTold == DhanSpec => [](RefusalIsTrue /\ AuditMatches /\ FrontMonthIsRecent)
<1>1. DhanSpec => []DhanInv
  BY DhanInitInv, DhanStepInv, PTL DEF DhanSpec
<1> QED
  BY <1>1, DhanInvSound, PTL
-----------------------------------------------------------------------------
(* The live screen.                                                        *)
TickState == [ltp : Nat, received : Nat, till : Nat]
PacketState == [ltp : Nat, base : TickState, received : Nat]
RowState == [open : BOOLEAN, qty : Int, pnl : Int, last : Nat, valued : Int]
PanelPC == {"idle", "asked", "answered", "rows", "greeks", "marks", "shown"}
PanelState == [pc : PanelPC, began : Nat, asOf : Nat, funds : BOOLEAN, row : RowState,
               delta : Nat, deltaAt : Nat]

ScreenTyped ==
  /\ dhan \in [mark : Int, qty : Int] /\ packets \in Seq(PacketState) /\ tickKey \in TickState
  /\ posRow \in RowState /\ markJob \in Nat /\ chain \in Nat
  /\ fundsHeld \in [asOf : Nat, at : Nat, kept : BOOLEAN]
  /\ deltaHeld \in [delta : Nat, at : Nat, kept : BOOLEAN]
  /\ panel \in [Panels -> PanelState] /\ screenTime \in Nat

(* A row open carries the P&L of the quantity and value it was written     *)
(* with.                                                                   *)
Valued(row) == row.open => row.pnl = row.qty * (row.valued - Cost)

(* Funds kept are stamped when they came, at most a call after they were   *)
(* so; and no stamp is ahead of the clock.                                 *)
HeldSound ==
  /\ fundsHeld.kept => fundsHeld.at <= fundsHeld.asOf + ReplyTime /\ fundsHeld.at <= screenTime
  /\ deltaHeld.kept => deltaHeld.at <= screenTime

(* A summary under way: a call lasts no longer than it may, and what it    *)
(* has by now was recent when it began.                                    *)
PanelSound(p, now) ==
  /\ p.began <= now
  /\ p.pc \in {"asked", "answered"} => ~p.funds /\ now <= p.began + ReplyTime
  /\ p.pc = "answered" => p.began <= p.asOf
  /\ p.funds => p.asOf + FundsTtl + ReplyTime > p.began
  /\ p.delta # Nothing => p.deltaAt + DeltaTtl > p.began
  /\ Valued(p.row)

ScreenInv ==
  ScreenTyped /\ Valued(posRow) /\ HeldSound /\ \A b \in Panels : PanelSound(panel[b], screenTime)

LEMMA TimesToLive ==
  /\ FundsTtl \in Nat /\ FundsTtl > 0 /\ DeltaTtl \in Nat /\ DeltaTtl > 0
  /\ TickTtl \in Nat /\ ReplyTime \in Nat /\ Cost \in Nat /\ Marks \subseteq Nat
BY ScreenAssumption

LEMMA NoRowSound == NoRow \in RowState /\ Valued(NoRow)
BY DEF NoRow, RowState, Valued, Nothing

LEMMA NoPanelSound == ASSUME NEW now \in Nat PROVE NoPanel \in PanelState /\ PanelSound(NoPanel, now)
<1>1. NoPanel \in PanelState
  BY NoRowSound DEF NoPanel, PanelState, PanelPC, Nothing
<1> QED
  BY <1>1, NoRowSound DEF PanelSound, NoPanel, Nothing

LEMMA ScreenInitInv == ScreenInit => ScreenInv
<1> SUFFICES ASSUME ScreenInit PROVE ScreenInv
  OBVIOUS
<1>1. packets \in Seq(PacketState) /\ 0 \in Nat /\ -1 \in Int /\ Cost \in Int
  BY TimesToLive DEF ScreenInit
<1>2. ScreenTyped
  BY <1>1, NoRowSound, NoPanelSound
     DEF ScreenInit, ScreenTyped, TickState, NoTick, Nothing, NoFunds, NoDelta
<1>3. HeldSound
  BY DEF ScreenInit, HeldSound, NoFunds, NoDelta
<1>4. \A b \in Panels : PanelSound(panel[b], screenTime)
  BY <1>1, NoPanelSound DEF ScreenInit
<1> QED
  BY <1>2, <1>3, <1>4, NoRowSound DEF ScreenInit, ScreenInv

LEMMA FreshTyped == ScreenTyped => MergedTick \in TickState /\ FreshMark \in Nat
<1> SUFFICES ASSUME ScreenTyped PROVE MergedTick \in TickState /\ FreshMark \in Nat
  OBVIOUS
<1>1. MergedTick \in TickState
  BY DEF MergedTick, ScreenTyped, TickState, NoTick, Nothing
<1> QED
  BY <1>1 DEF FreshMark, TickState, Nothing

(* The feed and Dhan move nothing that a panel or a row has.               *)
LEMMA FeedKeeps ==
  ASSUME ScreenInv, PrevClose \/ CacheTick \/ DhanFills \/ (\E m \in Marks : TradeAt(m))
                    \/ \E d \in {Nothing, 1} : ChainCaptured(d)
  PROVE  ScreenInv'
<1>1. UNCHANGED <<posRow, markJob, fundsHeld, deltaHeld, panel, screenTime>>
  BY DEF PrevClose, CacheTick, DhanFills, TradeAt, ChainCaptured, jobSide, pageSide
<1>2. ScreenTyped
  BY DEF ScreenInv
<1>3. ASSUME NEW price \in Nat, Packet(price) PROVE packets' \in Seq(PacketState)
  <2> DEFINE packet == [ltp |-> price, base |-> MergedTick, received |-> screenTime]
  <2>1. packet \in PacketState
    BY <1>2, FreshTyped DEF PacketState, ScreenTyped
  <2>2. packets' = Append(packets, packet) /\ packets \in Seq(PacketState)
    BY <1>2, <1>3 DEF Packet, ScreenTyped
  <2> HIDE DEF packet
  <2> QED
    BY <2>1, <2>2
<1>4. dhan' \in [mark : Int, qty : Int] /\ chain' \in Nat /\ packets' \in Seq(PacketState) /\ tickKey' \in TickState
  <2>1. CASE PrevClose
    BY <1>2, <1>3, <2>1 DEF PrevClose, ScreenTyped, Nothing
  <2>2. CASE CacheTick
    <3>1. /\ packets \in Seq(PacketState) /\ packets # <<>> /\ packets' = Tail(packets)
          /\ UNCHANGED <<dhan, chain>>
      BY <1>2, <2>2 DEF CacheTick, ScreenTyped
    <3>2. Head(packets) \in PacketState /\ packets' \in Seq(PacketState)
      BY <3>1
    <3>3. tickKey' = [ltp |-> IF Head(packets).ltp = Nothing THEN Head(packets).base.ltp ELSE Head(packets).ltp,
                      received |-> Head(packets).received, till |-> screenTime + TickTtl]
      BY <2>2 DEF CacheTick
    <3>4. screenTime + TickTtl \in Nat
      BY <1>2, TimesToLive DEF ScreenTyped
    <3>5. tickKey' \in TickState
      BY <3>2, <3>3, <3>4 DEF PacketState, TickState
    <3> QED
      BY <1>2, <3>1, <3>2, <3>5 DEF ScreenTyped
  <2>3. CASE DhanFills
    <3>1. dhan \in [mark : Int, qty : Int] /\ dhan' = [dhan EXCEPT !.qty = -1 - dhan.qty]
          /\ UNCHANGED <<packets, tickKey, chain>>
      BY <1>2, <2>3 DEF DhanFills, ScreenTyped
    <3>2. -1 - dhan.qty \in Int
      BY <3>1
    <3> QED
      BY <1>2, <3>1, <3>2 DEF ScreenTyped
  <2>4. ASSUME NEW m \in Marks, TradeAt(m)
        PROVE  dhan' \in [mark : Int, qty : Int] /\ chain' \in Nat /\ packets' \in Seq(PacketState)
               /\ tickKey' \in TickState
    <3>1. m \in Nat /\ m \in Int
      BY TimesToLive
    <3>2. packets' \in Seq(PacketState)
      BY <1>2, <1>3, <2>4, <3>1 DEF TradeAt, ScreenTyped
    <3> QED
      BY <1>2, <2>4, <3>1, <3>2 DEF TradeAt, ScreenTyped
  <2>5. ASSUME NEW d \in {Nothing, 1}, ChainCaptured(d)
        PROVE  dhan' \in [mark : Int, qty : Int] /\ chain' \in Nat /\ packets' \in Seq(PacketState)
               /\ tickKey' \in TickState
    BY <1>2, <2>5 DEF ChainCaptured, ScreenTyped, Nothing
  <2> QED
    BY <2>1, <2>2, <2>3, <2>4, <2>5
<1>5. ScreenTyped'
  BY <1>1, <1>2, <1>4 DEF ScreenTyped
<1> QED
  BY <1>1, <1>5 DEF ScreenInv, HeldSound

(* The reconcile job writes a row with its value, or only its last price.  *)
LEMMA JobKeeps == ASSUME ScreenInv, SweepPosition \/ PersistLastPrice PROVE ScreenInv'
<1>1. ScreenTyped /\ Valued(posRow) /\ FreshMark \in Nat
  BY FreshTyped DEF ScreenInv
<1>2. posRow' \in RowState /\ Valued(posRow') /\ markJob' \in Nat
  <2>1. CASE SweepPosition
    <3> DEFINE pnl == dhan.qty * (dhan.mark - Cost)
               row == [open |-> TRUE, qty |-> dhan.qty, pnl |-> pnl, last |-> posRow.last, valued |-> dhan.mark]
    <3>1. pnl \in Int /\ dhan.qty \in Int /\ dhan.mark \in Int /\ posRow.last \in Nat
      BY <1>1, TimesToLive DEF ScreenTyped, RowState
    <3>2. row.pnl = row.qty * (row.valued - Cost)
      OBVIOUS
    <3>3. row \in RowState
      <4> HIDE DEF pnl
      <4> QED
        BY <3>1 DEF RowState
    <3>4. posRow' \in {NoRow, row} /\ markJob' \in {FreshMark, Nothing}
      BY <2>1 DEF SweepPosition
    <3> HIDE DEF row
    <3> QED
      BY <1>1, <3>2, <3>3, <3>4, NoRowSound DEF Valued, Nothing
  <2>2. CASE PersistLastPrice
    <3>1. /\ posRow' = IF posRow.open THEN [posRow EXCEPT !.last = markJob] ELSE posRow
          /\ markJob' = Nothing /\ markJob \in Nat /\ posRow \in RowState
      BY <1>1, <2>2 DEF PersistLastPrice, ScreenTyped
    <3> QED
      BY <1>1, <3>1 DEF RowState, Valued, Nothing
  <2> QED
    BY <2>1, <2>2
<1>3. UNCHANGED <<dhan, packets, tickKey, chain, fundsHeld, deltaHeld, panel, screenTime>>
  BY DEF SweepPosition, PersistLastPrice, feedSide, pageSide
<1> QED
  BY <1>1, <1>2, <1>3 DEF ScreenInv, ScreenTyped, HeldSound

(* A summary moves on, and maybe a cache with it.                          *)
LEMMA PanelKeeps ==
  ASSUME ScreenInv, NEW b \in Panels, NEW p \in PanelState, PanelSound(p, screenTime),
         panel' = [panel EXCEPT ![b] = p],
         fundsHeld' \in [asOf : Nat, at : Nat, kept : BOOLEAN],
         deltaHeld' \in [delta : Nat, at : Nat, kept : BOOLEAN], HeldSound',
         UNCHANGED <<dhan, packets, tickKey, chain, posRow, markJob, screenTime>>
  PROVE  ScreenInv'
<1>1. panel' \in [Panels -> PanelState] /\ \A q \in Panels : panel'[q] = IF q = b THEN p ELSE panel[q]
  BY DEF ScreenInv, ScreenTyped
<1>2. ScreenTyped'
  BY <1>1 DEF ScreenInv, ScreenTyped
<1>3. \A q \in Panels : PanelSound(panel'[q], screenTime)
  BY <1>1 DEF ScreenInv
<1> QED
  BY <1>2, <1>3 DEF ScreenInv

LEMMA PanelMoves ==
  ASSUME NEW p \in PanelState, NEW pc \in PanelPC
  PROVE  /\ [p EXCEPT !.pc = pc] \in PanelState
         /\ \A f \in BOOLEAN : [p EXCEPT !.pc = pc, !.funds = f] \in PanelState
         /\ \A r \in RowState : [p EXCEPT !.pc = pc, !.row = r] \in PanelState
         /\ \A t \in Nat : [p EXCEPT !.pc = pc, !.asOf = t] \in PanelState
         /\ \A d, t \in Nat : [p EXCEPT !.pc = pc, !.delta = d, !.deltaAt = t] \in PanelState
BY DEF PanelState

LEMMA AskMoves ==
  ASSUME NEW p \in PanelState, NEW pc \in PanelPC, NEW began \in Nat, NEW funds \in BOOLEAN, NEW asOf \in Nat
  PROVE  [p EXCEPT !.pc = pc, !.began = began, !.funds = funds, !.asOf = asOf] \in PanelState
BY DEF PanelState

LEMMA PanelWords ==
  /\ "asked" \in PanelPC /\ "answered" \in PanelPC /\ "rows" \in PanelPC /\ "greeks" \in PanelPC
  /\ "marks" \in PanelPC /\ "shown" \in PanelPC
BY DEF PanelPC

LEMMA AskKeeps == ASSUME ScreenInv, NEW b \in Panels, AskSummary(b) PROVE ScreenInv'
<1> DEFINE asOf == IF FundsHit THEN fundsHeld.asOf ELSE 0
           pc == IF FundsHit THEN "rows" ELSE "asked"
           hit == FundsHit
           p == [NoPanel EXCEPT !.pc = pc, !.began = screenTime, !.funds = hit, !.asOf = asOf]
<1>1. /\ screenTime \in Nat /\ asOf \in Nat /\ pc \in PanelPC /\ hit \in BOOLEAN
      /\ fundsHeld \in [asOf : Nat, at : Nat, kept : BOOLEAN] /\ fundsHeld.asOf \in Nat /\ fundsHeld.at \in Nat
  BY PanelWords DEF ScreenInv, ScreenTyped, FundsHit
<1>2. hit => asOf + FundsTtl + ReplyTime > screenTime
  BY <1>1, TimesToLive DEF ScreenInv, HeldSound, FundsHit
<1>3. pc \in {"asked", "answered"} => ~hit
  OBVIOUS
<1>4. pc # "answered" /\ NoPanel.delta = Nothing /\ Valued(NoPanel.row)
  BY NoRowSound DEF NoPanel
<1>5. panel' = [panel EXCEPT ![b] = p] /\ UNCHANGED <<feedSide, jobSide, fundsHeld, deltaHeld, screenTime>>
  BY DEF AskSummary, Showing
<1> HIDE DEF asOf, pc, hit
<1>6. NoPanel \in PanelState
  BY <1>1, NoPanelSound
<1>7. p \in PanelState
  BY <1>1, <1>6, AskMoves
<1>8. /\ p.pc = pc /\ p.began = screenTime /\ p.funds = hit /\ p.asOf = asOf
      /\ p.delta = Nothing /\ Valued(p.row)
  BY <1>4, <1>6 DEF PanelState
<1> HIDE DEF p
<1>9. PanelSound(p, screenTime)
  BY <1>1, <1>2, <1>3, <1>4, <1>8, TimesToLive DEF PanelSound
<1>10. HeldSound'
  BY <1>5 DEF ScreenInv, HeldSound
<1> QED
  BY <1>5, <1>7, <1>9, <1>10, PanelKeeps DEF ScreenInv, ScreenTyped, feedSide, jobSide

LEMMA FundsKeep ==
  ASSUME ScreenInv, NEW b \in Panels, FundsAnswered(b) \/ FundsFail(b) \/ FundsArrive(b) PROVE ScreenInv'
<1>1. /\ panel[b] \in PanelState /\ PanelSound(panel[b], screenTime) /\ screenTime \in Nat /\ 0 \in Nat
      /\ fundsHeld \in [asOf : Nat, at : Nat, kept : BOOLEAN]
      /\ deltaHeld \in [delta : Nat, at : Nat, kept : BOOLEAN]
  BY DEF ScreenInv, ScreenTyped
<1>2. panel[b].began \in Nat /\ panel[b].asOf \in Nat /\ panel[b].funds \in BOOLEAN
  BY <1>1 DEF PanelState
<1>3. CASE FundsAnswered(b) \/ FundsFail(b)
  <2>1. PICK pc \in {"answered", "rows"}, t \in {screenTime, 0} :
          /\ pc = "answered" => t = screenTime /\ panel[b].pc = "asked"
          /\ pc = "rows" => panel[b].pc \in {"asked", "answered"}
          /\ panel' = [panel EXCEPT ![b] = [panel[b] EXCEPT !.pc = pc, !.asOf = t]]
    BY <1>3 DEF FundsAnswered, FundsFail, Showing
  <2> DEFINE p == [panel[b] EXCEPT !.pc = pc, !.asOf = t]
  <2>2. p \in PanelState
    BY <1>1, PanelMoves, PanelWords, ZenonT(60)
  <2>3. /\ p.pc = pc /\ p.asOf = t /\ p.began = panel[b].began /\ p.funds = panel[b].funds
        /\ p.row = panel[b].row /\ p.delta = panel[b].delta /\ p.deltaAt = panel[b].deltaAt
    BY <1>1 DEF PanelState
  <2> HIDE DEF p
  <2>4. PanelSound(p, screenTime)
    BY <1>1, <1>2, <2>1, <2>3, TimesToLive DEF PanelSound
  <2>5. UNCHANGED <<feedSide, jobSide, fundsHeld, deltaHeld, screenTime>>
    BY <1>3 DEF FundsAnswered, FundsFail
  <2>6. panel' = [panel EXCEPT ![b] = p]
    BY <2>1 DEF p
  <2> QED
    BY <1>1, <2>2, <2>4, <2>5, <2>6, PanelKeeps DEF ScreenInv, HeldSound, feedSide, jobSide
<1>4. CASE FundsArrive(b)
  <2> DEFINE p == [panel[b] EXCEPT !.pc = "rows", !.funds = TRUE]
  <2>1. /\ panel[b].pc = "answered" /\ panel' = [panel EXCEPT ![b] = p]
        /\ fundsHeld' = [asOf |-> panel[b].asOf, at |-> screenTime, kept |-> TRUE]
        /\ UNCHANGED <<feedSide, jobSide, deltaHeld, screenTime>>
    BY <1>4 DEF FundsArrive, Showing
  <2>2. p \in PanelState
    BY <1>1, PanelMoves, PanelWords
  <2>3. /\ p.pc = "rows" /\ p.funds = TRUE /\ p.asOf = panel[b].asOf /\ p.began = panel[b].began
        /\ p.row = panel[b].row /\ p.delta = panel[b].delta /\ p.deltaAt = panel[b].deltaAt
    BY <1>1 DEF PanelState
  <2> HIDE DEF p
  <2>4. PanelSound(p, screenTime)
    BY <1>1, <1>2, <2>1, <2>3, TimesToLive DEF PanelSound
  <2>5. fundsHeld' \in [asOf : Nat, at : Nat, kept : BOOLEAN]
    BY <1>1, <1>2, <2>1
  <2>6. HeldSound'
    BY <1>1, <1>2, <2>1, TimesToLive DEF PanelSound, ScreenInv, HeldSound
  <2> QED
    BY <1>1, <2>1, <2>2, <2>4, <2>5, <2>6, PanelKeeps DEF feedSide, jobSide
<1> QED
  BY <1>3, <1>4

LEMMA RowsKeep ==
  ASSUME ScreenInv, NEW b \in Panels, ReadRows(b) \/ ReadDelta(b) \/ ShowSummary(b) PROVE ScreenInv'
<1>1. /\ panel[b] \in PanelState /\ PanelSound(panel[b], screenTime) /\ screenTime \in Nat
      /\ fundsHeld \in [asOf : Nat, at : Nat, kept : BOOLEAN] /\ chain \in Nat
      /\ deltaHeld \in [delta : Nat, at : Nat, kept : BOOLEAN]
      /\ posRow \in RowState /\ Valued(posRow) /\ FreshMark \in Nat /\ HeldSound
  BY FreshTyped DEF ScreenInv, ScreenTyped
<1>2. /\ panel[b].began \in Nat /\ panel[b].asOf \in Nat /\ panel[b].row \in RowState /\ Valued(panel[b].row)
      /\ panel[b].began <= screenTime
  BY <1>1 DEF PanelState, PanelSound
<1>3. ASSUME NEW row \in RowState, Valued(row), NEW pc \in {"greeks", "shown"},
             panel' = [panel EXCEPT ![b] = [panel[b] EXCEPT !.pc = pc, !.row = row]],
             UNCHANGED <<feedSide, jobSide, fundsHeld, deltaHeld, screenTime>>
      PROVE  ScreenInv'
  <2> DEFINE p == [panel[b] EXCEPT !.pc = pc, !.row = row]
  <2>1. p \in PanelState
    BY <1>1, PanelMoves, PanelWords
  <2>2. /\ p.pc = pc /\ p.row = row /\ p.began = panel[b].began /\ p.funds = panel[b].funds
        /\ p.asOf = panel[b].asOf /\ p.delta = panel[b].delta /\ p.deltaAt = panel[b].deltaAt
    BY <1>1 DEF PanelState
  <2>3. panel' = [panel EXCEPT ![b] = p]
    BY <1>3
  <2> HIDE DEF p
  <2>4. PanelSound(p, screenTime)
    BY <1>1, <1>3, <2>2 DEF PanelSound
  <2> QED
    BY <1>1, <1>3, <2>1, <2>3, <2>4, PanelKeeps DEF HeldSound, feedSide, jobSide
<1>4. CASE ReadRows(b)
  BY <1>1, <1>3, <1>4 DEF ReadRows, Showing
<1>5. CASE ShowSummary(b)
  <2> DEFINE row == Marked(panel[b].row, FreshMark)
  <2>1. row \in RowState /\ Valued(row)
    <3>1. row = panel[b].row \/ row = [panel[b].row EXCEPT !.last = FreshMark]
      BY DEF Marked
    <3> HIDE DEF row
    <3> QED
      BY <1>1, <1>2, <3>1 DEF RowState, Valued
  <2>2. /\ panel' = [panel EXCEPT ![b] = [panel[b] EXCEPT !.pc = "shown", !.row = row]]
        /\ UNCHANGED <<feedSide, jobSide, fundsHeld, deltaHeld, screenTime>>
    BY <1>5 DEF ShowSummary, Showing
  <2> HIDE DEF row
  <2> QED
    BY <1>3, <2>1, <2>2
<1>6. CASE ReadDelta(b)
  <2> DEFINE held == IF DeltaHit THEN deltaHeld ELSE [delta |-> chain, at |-> screenTime, kept |-> TRUE]
             d == held.delta
             t == held.at
  <2>1. /\ held \in [delta : Nat, at : Nat, kept : BOOLEAN] /\ d \in Nat /\ t \in Nat
        /\ t + DeltaTtl > screenTime /\ t <= screenTime
    <3>1. CASE DeltaHit
      BY <1>1, <3>1, TimesToLive DEF DeltaHit, HeldSound
    <3>2. CASE ~DeltaHit
      BY <1>1, <3>2, TimesToLive
    <3> QED
      BY <3>1, <3>2
  <2>2. \/ /\ deltaHeld' = held
           /\ panel' = [panel EXCEPT ![b] = [panel[b] EXCEPT !.pc = "marks", !.delta = d, !.deltaAt = t]]
        \/ deltaHeld' = deltaHeld /\ panel' = [panel EXCEPT ![b] = [panel[b] EXCEPT !.pc = "marks"]]
    BY <1>6 DEF ReadDelta, Showing
  <2>3. UNCHANGED <<feedSide, jobSide, fundsHeld, screenTime>>
    BY <1>6 DEF ReadDelta
  <2> HIDE DEF held, d, t
  <2>4. deltaHeld' \in [delta : Nat, at : Nat, kept : BOOLEAN] /\ HeldSound'
    BY <1>1, <2>1, <2>2, <2>3 DEF HeldSound, t
  <2>5. CASE panel' = [panel EXCEPT ![b] = [panel[b] EXCEPT !.pc = "marks", !.delta = d, !.deltaAt = t]]
    <3> DEFINE p == [panel[b] EXCEPT !.pc = "marks", !.delta = d, !.deltaAt = t]
    <3>1. p \in PanelState
      BY <1>1, <2>1, PanelMoves, PanelWords
    <3>2. /\ p.pc = "marks" /\ p.row = panel[b].row /\ p.began = panel[b].began /\ p.funds = panel[b].funds
          /\ p.asOf = panel[b].asOf /\ p.deltaAt = t
      BY <1>1 DEF PanelState
    <3>3. panel' = [panel EXCEPT ![b] = p]
      BY <2>5
    <3> HIDE DEF p
    <3>4. PanelSound(p, screenTime)
      BY <1>1, <1>2, <2>1, <3>2, TimesToLive DEF PanelSound
    <3> QED
      BY <1>1, <2>3, <2>4, <3>1, <3>3, <3>4, PanelKeeps DEF feedSide, jobSide
  <2>6. CASE panel' = [panel EXCEPT ![b] = [panel[b] EXCEPT !.pc = "marks"]]
    <3> DEFINE p == [panel[b] EXCEPT !.pc = "marks"]
    <3>1. p \in PanelState
      BY <1>1, PanelMoves, PanelWords
    <3>2. /\ p.pc = "marks" /\ p.row = panel[b].row /\ p.began = panel[b].began /\ p.funds = panel[b].funds
          /\ p.asOf = panel[b].asOf /\ p.delta = panel[b].delta /\ p.deltaAt = panel[b].deltaAt
      BY <1>1 DEF PanelState
    <3>3. panel' = [panel EXCEPT ![b] = p]
      BY <2>6
    <3> HIDE DEF p
    <3>4. PanelSound(p, screenTime)
      BY <1>1, <3>2 DEF PanelSound
    <3> QED
      BY <1>1, <2>3, <2>4, <3>1, <3>3, <3>4, PanelKeeps DEF feedSide, jobSide
  <2> QED
    BY <2>2, <2>5, <2>6
<1> QED
  BY <1>4, <1>5, <1>6

LEMMA ScreenStepInv == ScreenInv /\ [ScreenNext]_screenVars => ScreenInv'
<1> SUFFICES ASSUME ScreenInv, [ScreenNext]_screenVars PROVE ScreenInv'
  OBVIOUS
<1>1. CASE ScreenTick
  <2>1. /\ screenTime \in Nat /\ screenTime' = screenTime + 1 /\ panel \in [Panels -> PanelState]
        /\ \A b \in Panels : panel[b].pc \in {"asked", "answered"} => screenTime < panel[b].began + ReplyTime
        /\ UNCHANGED <<dhan, packets, tickKey, chain, posRow, markJob, fundsHeld, deltaHeld, panel>>
    BY <1>1 DEF ScreenTick, feedSide, jobSide, pageSide, ScreenInv, ScreenTyped
  <2>2. \A b \in Panels : PanelSound(panel[b], screenTime + 1)
    <3> SUFFICES ASSUME NEW b \in Panels PROVE PanelSound(panel[b], screenTime + 1)
      OBVIOUS
    <3>1. PanelSound(panel[b], screenTime) /\ panel[b].began \in Nat
      BY <2>1 DEF ScreenInv, PanelState
    <3> QED
      BY <2>1, <3>1, TimesToLive DEF PanelSound
  <2>3. HeldSound'
    BY <2>1 DEF ScreenInv, ScreenTyped, HeldSound
  <2> QED
    BY <2>1, <2>2, <2>3 DEF ScreenInv, ScreenTyped
<1>2. CASE UNCHANGED screenVars
  BY <1>2 DEF screenVars, ScreenInv, ScreenTyped, HeldSound
<1>3. ASSUME NEW b \in Panels, Summarise(b) PROVE ScreenInv'
  BY <1>3, AskKeeps, FundsKeep, RowsKeep DEF Summarise
<1> QED
  BY <1>1, <1>2, <1>3, FeedKeeps, JobKeeps DEF ScreenNext

LEMMA ScreenInvSound == ScreenInv => PnlIsBrokers /\ ScreenIsRecent
BY DEF ScreenInv, PanelSound, Valued, PnlIsBrokers, ScreenIsRecent

(* Whatever the feed and the market do between the reads of a summary, its *)
(* P&L is the one that Dhan's quantity and value of one sweep gave; and    *)
(* its funds and delta are no older than their caches and a call allow.    *)
THEOREM ScreenIsTrue == ScreenSpec => [](PnlIsBrokers /\ ScreenIsRecent)
<1>1. ScreenSpec => []ScreenInv
  BY ScreenInitInv, ScreenStepInv, PTL DEF ScreenSpec
<1> QED
  BY <1>1, ScreenInvSound, PTL

-----------------------------------------------------------------------------
(* The exit rules.  A structure entered is one of Deals, every leg of it   *)
(* has a mark, and what is held is some of its legs; credit and cost are   *)
(* then sums over a finite set.                                            *)
RulesTyped ==
  /\ deal = NoDeal \/ deal.legs \in Deals
  /\ legMark \in [deal.legs -> Nat]
  /\ heldLegs \subseteq deal.legs

LEMMA RulesInitTyped == RulesInit => RulesTyped
BY DEF RulesInit, RulesTyped, NoDeal

(* A closing order takes legs away, whatever comes of it.                  *)
LEMMA CloseTakesLegs == ASSUME NEW r, NEW o \in CloseOutcomes(r) PROVE o.held \subseteq heldLegs
<1> DEFINE todo == heldLegs \ resting
<1>1. \/ o.held = heldLegs \/ o.held = heldLegs \ todo \/ o.held = heldLegs \ Sold(todo)
  BY DEF CloseOutcomes
<1> QED
  BY <1>1

LEMMA RulesStepTyped == RulesTyped /\ [RulesNext]_ruleVars => RulesTyped'
<1> SUFFICES ASSUME RulesTyped, [RulesNext]_ruleVars PROVE RulesTyped'
  OBVIOUS
<1>1. ASSUME UNCHANGED <<deal, legMark>>, heldLegs' \subseteq heldLegs PROVE RulesTyped'
  BY <1>1 DEF RulesTyped
<1>2. ASSUME NEW legs \in Deals, Enter(legs) PROVE RulesTyped'
  <2>1. deal'.legs = legs /\ heldLegs' = legs
    BY <1>2 DEF Enter
  <2>2. legMark' = [l \in legs |-> l.entry]
    BY <1>2 DEF Enter
  <2>3. \A l \in legs : l.entry \in Nat
    BY RuleConstants
  <2> QED
    BY <2>1, <2>2, <2>3 DEF RulesTyped
<1>3. ASSUME NEW l \in deal.legs, NEW price \in LegMarks \cup {NoMark}, MarkMoves(l, price) PROVE RulesTyped'
  <2>1. price \in Nat
    <3>1. LegMarks \subseteq Nat /\ NoMark \in Nat
      BY RuleConstants DEF NoMark
    <3> QED
      BY <3>1
  <2>2. deal' = deal /\ legMark' = [legMark EXCEPT ![l] = price] /\ heldLegs' = heldLegs
    BY <1>3 DEF MarkMoves
  <2> QED
    BY <2>1, <2>2 DEF RulesTyped
<1>4. CASE NextDay \/ SwitchAuto
  BY <1>1, <1>4 DEF NextDay, SwitchAuto
<1>5. CASE Sweep
  <2>1. UNCHANGED <<deal, legMark>>
    BY <1>5 DEF Sweep
  <2>2. heldLegs' \subseteq heldLegs
    <3>1. heldLegs' = heldLegs \/ \E o \in CloseOutcomes(Decision) : heldLegs' = o.held
      BY <1>5 DEF Sweep
    <3> QED
      BY <3>1, CloseTakesLegs
  <2> QED
    BY <1>1, <2>1, <2>2
<1>6. ASSUME NEW l, RestingFills(l) \/ LegClosedByHand(l) PROVE RulesTyped'
  BY <1>1, <1>6 DEF RestingFills, LegClosedByHand
<1>7. CASE UNCHANGED ruleVars
  BY <1>1, <1>7 DEF ruleVars
<1> QED
  BY <1>2, <1>3, <1>4, <1>5, <1>6, <1>7 DEF RulesNext

LEMMA CreditAndCost == RulesTyped => NetCredit \in Int /\ CostToClose \in Int
<1> SUFFICES ASSUME RulesTyped PROVE NetCredit \in Int /\ CostToClose \in Int
  OBVIOUS
<1> DEFINE sold == [l \in heldLegs |-> Signed(l, l.entry)]
           cost == [l \in heldLegs |-> Signed(l, legMark[l])]
<1>1. NetCredit = SumOf(sold, heldLegs)
  BY ZenonT(60) DEF NetCredit, MapThenSumSet, MapThenFoldSet, SumOf, Adds, Pick
<1>2. CostToClose = SumOf(cost, heldLegs)
  BY ZenonT(60) DEF CostToClose, MapThenSumSet, MapThenFoldSet, SumOf, Adds, Pick
<1>3. IsFiniteSet(deal.legs) /\ \A l \in deal.legs : l.entry \in Nat
  <2>1. CASE deal = NoDeal
    <3>1. deal.legs = {}
      BY <2>1 DEF NoDeal
    <3> QED
      BY <3>1, FS_EmptySet
  <2> QED
    BY <2>1, RuleConstants DEF RulesTyped
<1>4. heldLegs \subseteq deal.legs /\ legMark \in [deal.legs -> Nat]
  BY DEF RulesTyped
<1>5. IsFiniteSet(heldLegs)
  BY <1>3, <1>4, FS_Subset
<1>6. \A l \in heldLegs : sold[l] \in Int /\ cost[l] \in Int
  BY <1>3, <1>4 DEF Signed
<1> HIDE DEF sold, cost
<1>7. Summable(sold, heldLegs) /\ Summable(cost, heldLegs)
  BY <1>5, <1>6 DEF Summable
<1> QED
  BY <1>1, <1>2, <1>7, SumTyped

(* What costs three times its credit is not at its target, so the first    *)
(* rule of the policy that applies is the stop.                            *)
LEMMA StopComesFirst == RulesTyped /\ AtHardStop => Decision = "HARD_STOP_3X"
<1> SUFFICES ASSUME RulesTyped, AtHardStop PROVE Decision = "HARD_STOP_3X"
  OBVIOUS
<1>1. NetCredit \in Int /\ CostToClose \in Int
  BY CreditAndCost
<1>2. ~AtTarget
  BY <1>1 DEF AtHardStop, AtTarget
<1> DEFINE hits == {i \in DOMAIN Policy : Applies(Policy[i])}
<1>3. DOMAIN Policy = 1..5 /\ Policy[1] = "PROFIT_TARGET" /\ Policy[2] = "HARD_STOP_3X"
  BY DEF Policy
<1>4. 1 \notin hits
  BY <1>2, <1>3 DEF Applies
<1>5. 2 \in hits
  BY <1>3 DEF Applies
<1>6. \A i \in hits : i \in Int /\ 2 <= i
  BY <1>3, <1>4
<1> HIDE DEF hits
<1>7. Min(hits) = 2
  BY <1>5, <1>6 DEF Min
<1> QED
  BY <1>3, <1>5, <1>7 DEF Decision, hits

(* A close at market adds nothing to what rests, and all of it went well   *)
(* only if nothing rested and nothing is left.                             *)
LEMMA MarketCloses ==
  ASSUME NEW r, AtMarket(r), NEW o \in CloseOutcomes(r)
  PROVE  /\ o.resting = resting
         /\ o.action = "AUTO_CLOSED" => o.held = {}
<1> DEFINE todo == heldLegs \ resting
           clear == IF resting = {} THEN "AUTO_CLOSED" ELSE "FAILED"
<1>1. \/ o.resting = resting /\ o.action = "FAILED"
      \/ /\ o.resting = resting /\ o.held = heldLegs \ todo
         /\ o.action = (IF todo = {} THEN "FAILED" ELSE clear)
  BY DEF CloseOutcomes
<1> QED
  BY <1>1

(* Only a pass records a rule, and at the stop it is the stop.             *)
LEMMA StopStep == RulesTyped /\ [RulesNext]_ruleVars =>
  (AtHardStop /\ ruleEvent' # ruleEvent =>
     /\ resting' \subseteq resting
     /\ \A r \in ExitRuleNames :
          ruleEvent'[r] = "AUTO_CLOSED" => ruleEvent[r] = "AUTO_CLOSED" \/ heldLegs' = {})
<1> SUFFICES ASSUME RulesTyped, [RulesNext]_ruleVars, AtHardStop, ruleEvent' # ruleEvent
             PROVE  /\ resting' \subseteq resting
                    /\ \A r \in ExitRuleNames :
                         ruleEvent'[r] = "AUTO_CLOSED" => ruleEvent[r] = "AUTO_CLOSED" \/ heldLegs' = {}
  OBVIOUS
<1>1. Sweep
  BY DEF RulesNext, ruleVars, NextDay, SwitchAuto, Enter, MarkMoves, RestingFills, LegClosedByHand
<1>2. Decision = "HARD_STOP_3X"
  BY StopComesFirst
<1> DEFINE hit == "HARD_STOP_3X"
<1>3. CASE ruleEvent' = [ruleEvent EXCEPT ![hit] = "FLAGGED"] /\ UNCHANGED <<heldLegs, resting>>
  BY <1>3
<1>4. CASE \E o \in CloseOutcomes(hit) :
             /\ heldLegs' = o.held /\ resting' = o.resting
             /\ ruleEvent' = [ruleEvent EXCEPT ![hit] = o.action]
  <2>1. PICK o \in CloseOutcomes(hit) :
             /\ heldLegs' = o.held /\ resting' = o.resting
             /\ ruleEvent' = [ruleEvent EXCEPT ![hit] = o.action]
    BY <1>4
  <2>2. AtMarket(hit)
    BY DEF AtMarket
  <2>3. o.resting = resting /\ (o.action = "AUTO_CLOSED" => o.held = {})
    BY <2>1, <2>2, MarketCloses
  <2> QED
    BY <2>1, <2>3
<1> QED
  BY <1>1, <1>2, <1>3, <1>4 DEF Sweep

(* A pass that acts on a structure at its stop closes it at market, for    *)
(* any structures, marks and horizon, whatever was recorded before and     *)
(* whichever legs are left.                                                *)
THEOREM StopsGoAtMarket == RulesSpec => StopGoesAtMarket
<1>1. RulesSpec => []RulesTyped
  BY RulesInitTyped, RulesStepTyped, PTL DEF RulesSpec
<1> QED
  BY <1>1, StopStep, PTL DEF RulesSpec, StopGoesAtMarket

-----------------------------------------------------------------------------
(* The desk: a step of the whole is a step of one part.                    *)
MCDeskInv == LinkInv /\ DeskInv /\ ControlInv /\ DhanInv /\ ScreenInv /\ RulesTyped

LEMMA OnePartMoves ==
  ASSUME [MCDeskNext]_deskVarsAll
  PROVE  /\ [LinkNext]_linkVars /\ [DeskNext]_deskVars /\ [ControlNext]_ctrlVars
         /\ [DhanNext]_dhanVars /\ [ScreenNext]_screenVars /\ [RulesNext]_ruleVars
BY DEF MCDeskNext, deskVarsAll

LEMMA MCDeskInitInv == MCDeskInit => MCDeskInv
BY LinkInitInv, DeskInitInv, ControlInitInv, DhanInitInv, ScreenInitInv, RulesInitTyped DEF MCDeskInit, MCDeskInv

LEMMA MCDeskStepInv == MCDeskInv /\ [MCDeskNext]_deskVarsAll => MCDeskInv'
BY OnePartMoves, LinkStepInv, DeskStepInv, ControlStepInv, DhanStepInv, ScreenStepInv, RulesStepTyped DEF MCDeskInv

LEMMA MCDeskHolds == MCDeskSpec => []MCDeskInv
BY MCDeskInitInv, MCDeskStepInv, PTL DEF MCDeskSpec

(* A contract's newest opening group is one, and that group counts it.     *)
LEMMA NewestIsOne == OneGroupPerContract
BY DEF OneGroupPerContract, StillOpen

(* What a trader is told at the desk is so: a panic's report, a refusal,   *)
(* the audit log, and the size of a resting order.                         *)
THEOREM DeskRepliesAreTrue == MCDeskSpec => []RepliesAreTrue
<1>1. MCDeskInv => RepliesAreTrue
  BY DhanInvSound, ControlInvSound DEF MCDeskInv, RepliesAreTrue
<1> QED
  BY <1>1, MCDeskHolds, PTL

(* What the desk serves from caches is as recent as they promise.          *)
THEOREM DeskCachesAreRecent == MCDeskSpec => []CachesAreRecent
<1>1. MCDeskInv => CachesAreRecent
  BY DhanInvSound, ScreenInvSound DEF MCDeskInv, CachesAreRecent, DeskInv, FiguresTrue
<1> QED
  BY <1>1, MCDeskHolds, PTL

(* All of it together: current credentials, one order a token, true        *)
(* replies, one group to a contract, recent caches, the broker's own P&L   *)
(* and stops that go at market.                                            *)
THEOREM DeskIsSound ==
  MCDeskSpec => /\ [](/\ LinkIsSound /\ OncePerToken /\ RepliesAreTrue /\ OneGroupPerContract
                      /\ CachesAreRecent /\ PnlIsBrokers)
                /\ StopGoesAtMarket
<1>1. MCDeskInv => LinkIsSound /\ OncePerToken
  BY LinkInvSound DEF MCDeskInv, DeskInv, TokensHeld, OncePerToken
<1>2. MCDeskInv => PnlIsBrokers
  BY ScreenInvSound DEF MCDeskInv
<1>3. MCDeskInv /\ [MCDeskNext]_deskVarsAll => RulesTyped /\ [RulesNext]_ruleVars
  BY OnePartMoves DEF MCDeskInv
<1>4. MCDeskSpec => StopGoesAtMarket
  BY <1>3, MCDeskHolds, StopStep, PTL DEF MCDeskSpec, StopGoesAtMarket
<1> QED
  BY <1>1, <1>2, <1>4, NewestIsOne, MCDeskHolds, DeskRepliesAreTrue, DeskCachesAreRecent, PTL
=============================================================================
