CONSTANTS
  Books = {b1}
  Workers = {w1, w2}
  MaxAttempts = 3
  MaxUploads = 2
  MaxErrors = 3
  MaxLosses = 1
  Imports <- MCImports
  Forms <- MCForms
  Subjects = {"maths"}
  SubjectOf <- MCSubjectOf
  BookOf <- MCBookOf
  Script <- MCScript
  Like <- MCLike
  Seeded <- MCSeeded
  FormNames = {"union", "list"}
  MaxFailures = 1
SPECIFICATION BooksSpec
INVARIANTS JobsTypeOK RunByOne CompletedIsDocumented CurrentFileAnalysed
INVARIANTS TypeOK SiblingsDiffer ReimportAddsNothing ImportedIsThere
PROPERTY JobsEnd
CHECK_DEADLOCK FALSE
