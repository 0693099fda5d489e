CONSTANTS
  Views <- MCViews
  Roles <- MCRoles
  Children <- MCChildren
  MaxCalls = 2
  MaxRev = 2
SPECIFICATION Spec
INVARIANTS SectionLoads
CHECK_DEADLOCK FALSE
