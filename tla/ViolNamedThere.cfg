CONSTANTS
  Imports = {1, 2}
  Forms = {}
  Subjects = {"maths"}
  SubjectOf <- MCSubjectOf2
  BookOf <- MCBookOf2
  Script <- MCPercent
  Like <- MCWildcard
  Seeded = {}
  FormNames = {"union", "list"}
  MaxFailures = 0
SPECIFICATION Spec
INVARIANT NamedThere
CHECK_DEADLOCK FALSE
