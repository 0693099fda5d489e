CONSTANTS
  Imports <- MCImports
  Forms = {}
  Subjects = {"maths"}
  SubjectOf <- MCSubjectOf
  BookOf <- MCBookOf
  Script <- MCScript
  Like <- MCLike
  Seeded <- MCSeeded
  FormNames = {"union", "list"}
  MaxFailures = 0
SPECIFICATION Spec
INVARIANT NameOnce
CHECK_DEADLOCK FALSE
