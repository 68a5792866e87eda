SPECIFICATION FairSpec
CONSTANTS
  r1 = r1  r2 = r2
  Null = Null
  Replicas = {r1, r2}
  Handlers <- OneHandler
  WithMetrics = {r1}
  Latest = 3
INVARIANTS TypeOK StartsDontCollide StartsWhole StopsWhole MetricsWhileDraining SettledBeforeClose
PROPERTY Stops
