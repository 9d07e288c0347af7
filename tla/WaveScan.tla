------------------------------ MODULE WaveScan ------------------------------
(***************************************************************************)
(* The wave screener's jobs in the worker: the daily sync of the F&O stock *)
(* universe, the quote capture every minute and the scan every ten, whose  *)
(* schedulers live in Redis and outlive the process that registered them   *)
(* (apps/worker/src/wave-screener.ts).  What a scan finds in a series is   *)
(* the second half's; here a symbol's series signals or does not.          *)
(***************************************************************************)
EXTENDS Integers, FiniteSets, SequencesExt

CONSTANTS
  Universe,       \* every symbol, in the order of a scan
  Stocks, Commodities,   \* those captured by quote; those of the MCX
  AlertCooldown,  \* ALERT_COOLDOWN_MS
  MaxSwitches,    \* bound: restarts of the worker
  MaxWeather      \* bound: changes of sessions, signals, lists and failures

ASSUME ScanAssumption ==
  /\ Stocks \subseteq ToSet(Universe) /\ Commodities \subseteq ToSet(Universe) \ Stocks
  /\ AlertCooldown \in Nat /\ MaxSwitches \in Nat /\ MaxWeather \in Nat

VARIABLES
  lots,      \* symbols with FnoLotSize rows
  fnoStocks, \* active FnoStock rows
  history,   \* symbols with points enough in the lookback
  age,       \* of each symbol's latest alert
  redis,     \* the scan's scheduler and its queued job
  scan,      \* the scan under way
  scanOn,    \* WAVE_SCREENER_SCAN_ENABLED of this process
  weather,   \* sessions open, symbols that signal, that fail, listed by Dhan
  switches, gusts

scanVars == <<lots, fnoStocks, history, age, redis, scan, scanOn, weather, switches, gusts>>
Symbols3 == ToSet(Universe)
Old == AlertCooldown + 1
NoScan == [at |-> "idle", left |-> <<>>, met |-> {}]
Exchange(s) == IF s \in Commodities THEN "MCX" ELSE "NSE"

ScanInit ==
  /\ lots = Stocks /\ fnoStocks = Stocks
  /\ history = Symbols3 \ Stocks
  /\ age = [s \in Symbols3 |-> Old]
  /\ redis = [sched |-> TRUE, job |-> FALSE] /\ scan = NoScan /\ scanOn = TRUE
  /\ weather = [open |-> {"NSE", "MCX"}, signals |-> {}, fails |-> {}, listed |-> Stocks]
  /\ switches = 0 /\ gusts = 0

-----------------------------------------------------------------------------
(* Sessions open and close, a series starts or stops to signal, the reads  *)
(* of a symbol start or stop to fail, Dhan lists or drops a stock.         *)
Weather ==
  /\ gusts < MaxWeather /\ gusts' = gusts + 1
  /\ \/ \E o \in SUBSET {"NSE", "MCX"} : weather' = [weather EXCEPT !.open = o]
     \/ \E s \in Symbols3 : weather' = [weather EXCEPT !.signals =
                              IF s \in @ THEN @ \ {s} ELSE @ \cup {s}]
     \/ \E s \in Symbols3 : weather' = [weather EXCEPT !.fails =
                              IF s \in @ THEN @ \ {s} ELSE @ \cup {s}]
     \/ \E s \in Stocks : weather' = [weather EXCEPT !.listed =
                              IF s \in @ THEN @ \ {s} ELSE @ \cup {s}]
  /\ UNCHANGED <<lots, fnoStocks, history, age, redis, scan, scanOn, switches>>

ScanTime ==
  /\ \E s \in Symbols3 : age[s] < Old
  /\ age' = [s \in Symbols3 |-> IF age[s] < Old THEN age[s] + 1 ELSE Old]
  /\ UNCHANGED <<lots, fnoStocks, history, redis, scan, scanOn, weather, switches, gusts>>

(* syncFnoStockUniverse: Dhan's list is added to the lot sizes, whose rows *)
(* nothing deletes, and a stock is active if it is among those; the        *)
(* process may end between the two.                                        *)
SyncLots ==
  /\ lots' = lots \cup weather.listed
  /\ UNCHANGED <<fnoStocks, history, age, redis, scan, scanOn, weather, switches, gusts>>

SyncStocks ==
  /\ fnoStocks' = lots
  /\ UNCHANGED <<lots, history, age, redis, scan, scanOn, weather, switches, gusts>>

(* recordWavePricePoints: duplicates are skipped, in a batch or one by one. *)
Recorded(got) == history \cup got

(* The quote capture: a point for every active stock, from the live feed   *)
(* or by request, but for those neither has one of.                        *)
QuoteCaptured(got) ==
  /\ "NSE" \in weather.open /\ got \subseteq fnoStocks \ weather.fails
  /\ history' = Recorded(got)
  /\ UNCHANGED <<lots, fnoStocks, age, redis, scan, scanOn, weather, switches, gusts>>

-----------------------------------------------------------------------------
ScanDue ==
  /\ redis.sched /\ ~redis.job
  /\ redis' = [redis EXCEPT !.job = TRUE]
  /\ UNCHANGED <<lots, fnoStocks, history, age, scan, scanOn, weather, switches, gusts>>

(* Mutant of MayScan: the switch is looked at on registration only.        *)
MayScanRegistered == TRUE
MayScan == scanOn

(* Every symbol on its own exchange's session, not on the job's.           *)
ToScan == SelectSeq(Universe, LAMBDA s :
            (s \in Stocks => s \in fnoStocks) /\ Exchange(s) \in weather.open)

ScanTake ==
  /\ redis.job /\ scan.at = "idle"
  /\ redis' = [redis EXCEPT !.job = FALSE]
  /\ scan' = IF MayScan /\ ToScan # <<>> THEN [NoScan EXCEPT !.at = "look", !.left = ToScan]
             ELSE NoScan
  /\ UNCHANGED <<lots, fnoStocks, history, age, scanOn, weather, switches, gusts>>

ScanOn(next) == IF next = <<>> THEN NoScan ELSE [scan EXCEPT !.at = "look", !.left = next]

(* Mutant of AfterError: the error ends the scan.                          *)
AfterErrorStops == NoScan
(* An error of one symbol is caught, and the next one looked at.           *)
AfterError == ScanOn(Tail(scan.left))

(* Mutant of Recent: only this scan's own alerts are remembered.           *)
RecentHere(s) == s \in scan.met
(* recordWaveAlertIfNew: an alert within the cooldown suppresses this one. *)
Recent(s) == age[s] <= AlertCooldown

ScanLook ==
  /\ scan.at = "look"
  /\ LET s == Head(scan.left)
     IN scan' = CASE s \in weather.fails -> AfterError
                  [] /\ s \notin weather.fails /\ s \in history /\ s \in weather.signals
                     /\ ~Recent(s) -> [scan EXCEPT !.at = "insert"]
                  [] OTHER -> ScanOn(Tail(scan.left))
  /\ UNCHANGED <<lots, fnoStocks, history, age, redis, scanOn, weather, switches, gusts>>

ScanInsert ==
  /\ scan.at = "insert"
  /\ age' = [age EXCEPT ![Head(scan.left)] = 0]
  /\ scan' = LET next == ScanOn(Tail(scan.left))
             IN IF next = NoScan THEN NoScan ELSE [next EXCEPT !.met = @ \cup {Head(scan.left)}]
  /\ UNCHANGED <<lots, fnoStocks, history, redis, scanOn, weather, switches, gusts>>

(* The worker starts again, with the switch as its environment has it: the *)
(* scheduler is put back or removed, which may fail; a scan that was under *)
(* way is handed out once more as a stalled job, or given up.              *)
ScanRestart(on, removed) ==
  /\ switches < MaxSwitches /\ switches' = switches + 1
  /\ scanOn' = on
  /\ \E again \in {redis.job, redis.job \/ scan # NoScan} :
       redis' = [sched |-> IF on THEN TRUE ELSE redis.sched /\ ~removed, job |-> again]
  /\ scan' = NoScan
  /\ UNCHANGED <<lots, fnoStocks, history, age, weather, gusts>>

ScanStep == ScanDue \/ ScanTake \/ ScanLook \/ ScanInsert

ScanNext ==
  \/ Weather \/ ScanTime \/ SyncLots \/ SyncStocks \/ ScanStep
  \/ \E got \in SUBSET Stocks : QuoteCaptured(got)
  \/ \E on, removed \in BOOLEAN : ScanRestart(on, removed)

ScanSpec == ScanInit /\ [][ScanNext]_scanVars

(* The scheduler and the worker go on; time passes.                        *)
ScanFair == WF_scanVars(ScanStep) /\ WF_scanVars(ScanTime)

-----------------------------------------------------------------------------
(* A symbol whose signal stands alerts once per cooldown, across scans,    *)
(* restarts and jobs that are handed out twice (wave-alert-repository.ts:  *)
(* 61-68).                                                                 *)
OneAlertPerCooldown ==
  [][\A s \in Symbols3 : age'[s] = 0 /\ age[s] # 0 => age[s] > AlertCooldown]_scanVars

(* While the switch is off nothing is scanned, though jobs of an earlier   *)
(* process are still handed out (wave-screener.ts:260-264).                *)
SwitchHolds == ~scanOn => scan.at = "idle"

(* A symbol that keeps signalling on an open exchange alerts again and     *)
(* again, whatever the symbols before it do to the scan.                   *)
Standing(s) ==
  /\ scanOn /\ redis.sched /\ s \in weather.signals \ weather.fails
  /\ s \in history /\ Exchange(s) \in weather.open /\ (s \in Stocks => s \in fnoStocks)
StandingSignalAlerts == \A s \in Symbols3 : <>[]Standing(s) => []<>(age[s] <= AlertCooldown)

-----------------------------------------------------------------------------
(* The wave count of a price series and the two screener conditions on it  *)
(* (packages/analytics/src/elliott-wave.ts and wave-screener.ts).  Prices  *)
(* and volumes are small integers, and a ratio a/b >= p% is                *)
(* 100 * a >= p * b; percentages with a decimal are in thousandths.        *)
CONSTANTS
  WavePrices,     \* the prices of a series
  Traded,         \* what may be traded between two samples of a stock
  Reversal,       \* WAVE_ZIGZAG_PRESETS, in percent
  RsiPeriod, Baseline,        \* RSI_PERIOD, baselineWindow
  IndexPoints, StockPoints    \* bounds: samples of an index, of a stock

ASSUME WaveAssumption ==
  /\ WavePrices \subseteq Nat \ {0} /\ Traded \subseteq Nat /\ Reversal \in 1..100
  /\ RsiPeriod \in Nat \ {0} /\ Baseline \in Nat \ {0}
  /\ IndexPoints \in Nat /\ StockPoints \in Nat

VARIABLE points   \* SpotPricePoint: price, day, and the day's volume so far

NoVolume == -1
AbsGap(a, b) == IF a < b THEN b - a ELSE a - b

(* A ratio a / b in thousandths compared with bounds, b > 0.               *)
AtLeast(a, b, k) == 1000 * a >= k * b
AtMost(a, b, k)  == 1000 * a <= k * b

-----------------------------------------------------------------------------
(* detectZigZagPivots: the running extreme of the leg is its anchor, and   *)
(* a reversal of the threshold confirms it as a pivot.                     *)
Moved(from, by) == 100 * by >= Reversal * from
Pivot(series, i, kind) == [price |-> series[i].price, at |-> i, kind |-> kind]

ZigStart == [pivots |-> <<>>, trend |-> "none", anchor |-> 1, hi |-> 1, lo |-> 1]

FirstLeg(series, z) ==
  LET p0 == series[1].price
      up == series[z.hi].price - p0
      down == p0 - series[z.lo].price
  IN CASE Moved(p0, up) /\ up >= down ->
            [z EXCEPT !.pivots = <<Pivot(series, 1, "low")>>, !.trend = "up", !.anchor = z.hi]
       [] ~(Moved(p0, up) /\ up >= down) /\ Moved(p0, down) ->
            [z EXCEPT !.pivots = <<Pivot(series, 1, "high")>>, !.trend = "down", !.anchor = z.lo]
       [] OTHER -> z

(* Mutant of Turn: the new leg starts from the old anchor.                 *)
TurnKeepsAnchor(series, z, i, kind, trend) ==
  [z EXCEPT !.pivots = Append(@, Pivot(series, z.anchor, kind)), !.trend = trend]

Turn(series, z, i, kind, trend) ==
  [z EXCEPT !.pivots = Append(@, Pivot(series, z.anchor, kind)), !.trend = trend, !.anchor = i]

NextLeg(series, z, i) ==
  LET p == series[i].price
      a == series[z.anchor].price
  IN IF z.trend = "up"
     THEN CASE p >= a -> [z EXCEPT !.anchor = i]
            [] p < a /\ Moved(a, a - p) -> Turn(series, z, i, "high", "down")
            [] OTHER -> z
     ELSE CASE p <= a -> [z EXCEPT !.anchor = i]
            [] p > a /\ Moved(a, p - a) -> Turn(series, z, i, "low", "up")
            [] OTHER -> z

ZigStep(series, z, i) ==
  LET y == [z EXCEPT !.hi = IF series[i].price > series[@].price THEN i ELSE @,
                     !.lo = IF series[i].price < series[@].price THEN i ELSE @]
  IN IF z.trend = "none" THEN FirstLeg(series, y) ELSE NextLeg(series, y, i)

(* The last pivot is provisional: the leg that has not reversed yet.       *)
ZigZag(series) ==
  IF Len(series) < 2 THEN <<>>
  ELSE LET z == FoldLeft(LAMBDA acc, i : ZigStep(series, acc, i), ZigStart,
                         [k \in 1..(Len(series) - 1) |-> k + 1])
       IN IF z.trend = "none" THEN <<>>
          ELSE Append(z.pivots, Pivot(series, z.anchor, IF z.trend = "up" THEN "high" ELSE "low"))

-----------------------------------------------------------------------------
(* calculateElliottWave: the last nine pivots, the first of them the start *)
(* and the others labelled 1 2 3 4 5 A B C; the last is the forming leg.   *)
MaxWindow == 9
Window(pivots) == SubSeq(pivots, IF Len(pivots) > MaxWindow THEN Len(pivots) - MaxWindow + 1 ELSE 1,
                         Len(pivots))

Stage(w) == CASE Len(w) < 3 -> "Undetermined" [] Len(w) = 3 -> "Wave 2 Turning"
              [] Len(w) = 4 -> "Wave 3 Initiation" [] Len(w) = 5 -> "Wave 4 Range"
              [] Len(w) = 6 -> "Wave 5 Exhaustion" [] OTHER -> "Corrective Phase"
Bullish(w) == w[1].kind = "low"
Leg(w, i) == AbsGap(w[i + 1].price, w[i].price)   \* the i-th wave
Confirmed(w, i) == i + 1 < Len(w)
Above(w, i, j) == IF Bullish(w) THEN w[i].price > w[j].price ELSE w[i].price < w[j].price

(* The three rules, each judged of confirmed waves only.                   *)
Wave2Floor(w)     == Confirmed(w, 2) => Above(w, 3, 1)
Wave3Length(w)    == Confirmed(w, 5) => Leg(w, 3) >= Leg(w, 1) \/ Leg(w, 3) >= Leg(w, 5)
Wave4Territory(w) == Confirmed(w, 4) => Above(w, 5, 2)
Invalidated(w) == Len(w) >= 3 /\ ~(Wave2Floor(w) /\ Wave3Length(w) /\ Wave4Territory(w))

(* fibonacciLevels: label, actual (a over b), and the cap of withinTarget. *)
(* The retracement of wave 2 is there while wave 2 is forming already.     *)
FibLevels(w) ==
  LET level(label, i, j, cap) == [label |-> label, a |-> Leg(w, i), b |-> Leg(w, j), cap |-> cap]
  IN UNION {
       IF Len(w) >= 3 THEN {level("Wave 2 Retracement", 2, 1, 812)} ELSE {},
       IF Confirmed(w, 3) THEN {level("Wave 3 Projection", 3, 1, 2618)} ELSE {},
       IF Confirmed(w, 4) THEN {level("Wave 4 Retracement", 4, 3, 500)} ELSE {},
       IF Confirmed(w, 8) THEN {level("Wave C Extension", 8, 6, 1618)} ELSE {}}
WithinTarget(f) == f.b > 0 /\ AtMost(f.a, f.b, f.cap)

(* recommendationForStage: what to trade, and which way.                   *)
Recommendation(w) ==
  LET way(up, down) == IF Bullish(w) THEN up ELSE down
  IN IF Invalidated(w) THEN "none"
     ELSE CASE Stage(w) = "Wave 2 Turning" -> way("Bull Put Spread", "Bear Call Spread")
            [] Stage(w) = "Wave 3 Initiation" -> way("Call Debit Spread", "Put Debit Spread")
            [] Stage(w) = "Wave 4 Range" -> "Iron Condor"
            [] Stage(w) = "Wave 5 Exhaustion" -> "Ratio Spreads"
            [] OTHER -> "none"

-----------------------------------------------------------------------------
(* calculateRsi, Wilder's smoothing: gains and losses over a common        *)
(* denominator, which their ratio does not need.                           *)
Changes(series) == [i \in 1..(Len(series) - 1) |-> series[i + 1].price - series[i].price]
Gain(c) == IF c > 0 THEN c ELSE 0
Loss(c) == IF c < 0 THEN -c ELSE 0
SumSeq(s) == FoldLeft(LAMBDA a, b : a + b, 0, s)

Rsi(series) ==   \* [known, g, l]: RSI is 100 g / (g + l), 50 where both are 0
  LET cs == Changes(series)
      first == SubSeq(cs, 1, RsiPeriod)
      smooth(acc, c) == [g |-> acc.g * (RsiPeriod - 1) + Gain(c) * acc.d,
                         l |-> acc.l * (RsiPeriod - 1) + Loss(c) * acc.d,
                         d |-> acc.d * RsiPeriod]
      init == [g |-> SumSeq([i \in DOMAIN first |-> Gain(first[i])]),
               l |-> SumSeq([i \in DOMAIN first |-> Loss(first[i])]), d |-> RsiPeriod]
      r == FoldLeft(smooth, init, SubSeq(cs, RsiPeriod + 1, Len(cs)))
  IN IF Len(series) < RsiPeriod + 1 THEN [known |-> FALSE, g |-> 0, l |-> 0]
     ELSE [known |-> TRUE, g |-> r.g, l |-> r.l]
RsiAbove(r, k) == r.known /\ (IF r.g + r.l = 0 THEN 50 > k ELSE 100 * r.g > k * (r.g + r.l))
RsiBelow(r, k) == r.known /\ (IF r.g + r.l = 0 THEN 50 < k ELSE 100 * r.g < k * (r.g + r.l))

(* calculateRvol: the last delta of the cumulative volume over the average *)
(* of those before it; pairs across a day's end, and resets, are left out. *)
Deltas(series) ==
  LET v == SelectSeq(series, LAMBDA p : p.vol # NoVolume)
      pairs == {i \in 1..(Len(v) - 1) : v[i].day = v[i + 1].day /\ v[i + 1].vol >= v[i].vol}
  IN IF Len(v) < 3 THEN <<>>
     ELSE LET at == SetToSortSeq(pairs, LAMBDA i, j : i < j)
          IN [k \in DOMAIN at |-> v[at[k] + 1].vol - v[at[k]].vol]

Rvol(series) ==   \* [known, a, b]: a over b
  LET ds == Deltas(series)
      n == Len(ds)
      base == SubSeq(ds, IF n - 1 > Baseline THEN n - Baseline ELSE 1, n - 1)
  IN IF n < 2 \/ SumSeq(base) = 0 THEN [known |-> FALSE, a |-> 0, b |-> 1]
     ELSE [known |-> TRUE, a |-> ds[n] * Len(base), b |-> SumSeq(base)]

-----------------------------------------------------------------------------
(* Mutant of Screenable: an invalidated count is screened too.             *)
ScreenableAny(w) == Len(w) >= 3
Screenable(w) == Len(w) >= 3 /\ ~Invalidated(w)

InZone(w) == Leg(w, 1) > 0 /\ AtLeast(Leg(w, 2), Leg(w, 1), 500) /\ AtMost(Leg(w, 2), Leg(w, 1), 618)

(* evaluateWaveScreener; a missing RVOL never blocks.                      *)
Signal(series) ==
  LET w == Window(ZigZag(series))
      r == Rsi(series)
      v == Rvol(series)
  IN CASE /\ Screenable(w) /\ Stage(w) = "Wave 2 Turning" /\ InZone(w)
          /\ v.known => v.a < v.b -> "WAVE2_REVERSAL"
       [] /\ Screenable(w) /\ Stage(w) = "Wave 3 Initiation"
          /\ v.known => v.a > 2 * v.b
          /\ IF Bullish(w) THEN RsiAbove(r, 60) ELSE RsiBelow(r, 40) -> "WAVE3_IMPULSE"
       [] OTHER -> "none"

-----------------------------------------------------------------------------
(* A series grows: an index without volume, a stock with its day's volume. *)
WaveInit ==
  \E p \in WavePrices, v \in {NoVolume} \cup Traded : points = <<[price |-> p, day |-> 1, vol |-> v]>>

IsStock == points[1].vol # NoVolume

IndexSample(p) ==
  /\ ~IsStock /\ Len(points) < IndexPoints
  /\ points' = Append(points, [price |-> p, day |-> 1, vol |-> NoVolume])

StockSample(p, traded, newDay) ==
  /\ IsStock /\ Len(points) < StockPoints
  /\ LET prev == Last(points)
     IN points' = Append(points, [price |-> p, day |-> IF newDay THEN prev.day + 1 ELSE prev.day,
                                  vol |-> IF newDay THEN traded ELSE prev.vol + traded])

WaveNext ==
  \E p \in WavePrices :
    IndexSample(p) \/ \E traded \in Traded, newDay \in BOOLEAN : StockSample(p, traded, newDay)

WaveSpec == WaveInit /\ [][WaveNext]_points

-----------------------------------------------------------------------------
(* What the zigzag means: pivots alternate, two that follow one another    *)
(* are a threshold apart, and every one is the extreme of all that was     *)
(* seen since the pivot before it, until a reversal from it by the         *)
(* threshold confirmed it; the last has seen none.  (What comes between    *)
(* that reversal and the next pivot may go a little beyond it again.)      *)
Beyond(series, p, k) == IF p.kind = "high" THEN series[k].price > p.price ELSE series[k].price < p.price
Reversed(series, p, k) ==
  \E c \in p.at..k : ~Beyond(series, p, c) /\ Moved(p.price, AbsGap(series[c].price, p.price))
ZigZagTrue ==
  LET z == ZigZag(points)
  IN \A i \in 2..Len(z) :
       /\ z[i].kind # z[i - 1].kind /\ z[i - 1].at < z[i].at
       /\ Moved(z[i - 1].price, AbsGap(z[i].price, z[i - 1].price))
       /\ \A k \in z[i - 1].at..Len(points) :
            Beyond(points, z[i], k) => i < Len(z) /\ Reversed(points, z[i], k)

(* A signal is only raised of a count that is intact: wave 2, forming or   *)
(* confirmed, has not given back all of wave 1, the leg that is forming    *)
(* runs the way the alert says, and the page shows, of the same series, a  *)
(* trade for it and a reversal's retracement within its target.            *)
SignalsAreSound ==
  LET w == Window(ZigZag(points))
  IN Signal(points) # "none" =>
       /\ Above(w, 3, 1) /\ Above(w, 2, 1)
       /\ Signal(points) = "WAVE3_IMPULSE" => Above(w, 4, 3)
       /\ Recommendation(w) # "none"
       /\ Signal(points) = "WAVE2_REVERSAL" => \A f \in FibLevels(w) : WithinTarget(f)
=============================================================================
