CONSTANTS
  Tabs = {t1, t2}
  Requests = {r1, r2}
  MaxSessions = 3
  Views <- MCViews
  Roles <- MCRoles
  Children <- MCChildren
  MaxCalls = 2
  MaxRev = 2
SPECIFICATION BrowserSpec
INVARIANTS KeepsSession ChangeEndsSessions PageHasToken TypeOK ShownIsCurrent ChainFits
PROPERTY RequestsReturn
CHECK_DEADLOCK FALSE
