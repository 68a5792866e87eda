SPECIFICATION BacklogSpec
CONSTANTS
  r1 = r1  r2 = r2  r3 = r3  r4 = r4
  g1 = g1  g2 = g2
  b1 = b1  b2 = b2
  m1 = m1
  p1 = p1
  Null = Null
  Requests = {r1, r2, r3, r4}
  Replicas = {g1, g2}
  Buckets = {b1, b2}
  Models = {m1}
  Prices = {}
  ModelOf <- MCModelOf
  InputRate <- MCInputRate
  OutputRate <- MCOutputRate
  Usages = {}
  Million = 2
  MaxFigure = 3
  BatchSize = 2
  MaxFailures = 1
PROPERTY EveryRowPurged
