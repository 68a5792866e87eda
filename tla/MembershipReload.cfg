SPECIFICATION FairSpec
CONSTANTS
  r1 = r1  r2 = r2
  None = None
  Urls <- PlainUrls
  Origins <- MCOrigins
  OriginOf <- MCOriginOf
  Spelling <- MCSpelling
  Requests = {}
  MaxCopies = 2
INVARIANTS TypeOK MapIsRouting HealthShown
PROPERTIES MembersKept RegistryApplied HealthFollows
