SPECIFICATION FairSpec
CONSTANTS
  c1 = c1  c2 = c2
  e1 = e1
  t1 = t1
  Null = Null
  Calls = {c1, c2}
  Emails = {e1}
  Visitors = {e1}
  Tokens = {t1}
  Limit = 2
  Window = 1
  MaxKeys = 2
INVARIANTS TypeOK GuessingLimited RegisteredWhole ServedWasAuthorised AnswersHold
PROPERTIES LockoutEnds RevokedStaysOut RevocationTakesEffect
