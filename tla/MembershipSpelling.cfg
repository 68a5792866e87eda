SPECIFICATION Spec
CONSTANTS
  r1 = r1  r2 = r2
  None = None
  Urls <- SpelledUrls
  Origins <- MCOrigins
  OriginOf <- MCOriginOf
  Spelling <- MCSpelling
  Requests = {}
  MaxCopies = 2
PROPERTY MembersKept
