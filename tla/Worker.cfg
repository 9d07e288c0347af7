SPECIFICATION WorkerSpec
CONSTANTS
  Instruments = {1, 2}
  MaxSockets = 3
  MaxFaults = 3
  MaxCalls = 3
  Feed <- OneFeed
  Interval = 1
  MaxTime = 2
  WaveWorkers = {"scan"}
  MaxRestarts = 1
  Devices = {"d1", "d2"}
  Owner <- Own
  Cooldown = 2
  SendTime = 1
  MaxMishaps = 3
  ExpiryDays = {9}
  Writers = {"worker", "api"}
  DayLen = 3
  DetailDays = 3
  SpotDays = 1
  BatchSize = 1
  MaxBatches = 2
  SaveTime = 1
  StoreMaxTime = 5
  MaxSaves = 3
  MaxEmpty = 1
  MaxStoreCrashes = 1
  Universe <- Scanned
  Stocks = {"INFY"}
  Commodities = {"CRUDE"}
  AlertCooldown = 1
  MaxSwitches = 2
  MaxWeather = 4
  WavePrices = {10, 15, 20}
  Traded = {1, 3}
  Reversal = 25
  RsiPeriod = 2
  Baseline = 2
  IndexPoints = 10
  StockPoints = 5
INVARIANTS CaptureIsSound WavesAreSound
PROPERTIES OneHeavyJob OncePerCooldownOfEach FeedKeepsItsWord GateServesAll
           AlertsGetThrough StoreKeepsItsWord
CHECK_DEADLOCK FALSE
