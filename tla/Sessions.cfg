SPECIFICATION Spec
CONSTANTS
  Tabs = {t1, t2}
  Limit = 2
  MaxTokens = 4
  MaxFaults = 1
INVARIANTS OneStrandPerSession LogoutEndsSession StaysSignedIn
PROPERTY NoNewSessionsOnceInactive
CHECK_DEADLOCK FALSE
