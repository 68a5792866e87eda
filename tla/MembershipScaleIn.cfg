SPECIFICATION Spec
CONSTANTS
  r1 = r1  r2 = r2
  None = None
  Urls <- TwoUrls
  Origins <- TwoOrigins
  OriginOf <- MCOriginOf
  Spelling <- MCSpelling
  Requests = {r1, r2}
  MaxCopies = 3
PROPERTY DrainedStaysDrained
