SPECIFICATION FairSpec
CONSTANTS
  Run = {r1, r2}
  Template <- Onboarding
  MaxFaults = 2
CHECK_DEADLOCK FALSE
INVARIANTS TypeOK CompensationUnwinds AnswerIsTrue Traceable
PROPERTIES EventuallyEnds ImplementsSaga
