SPECIFICATION Spec
CONSTANTS
  Ids = {"a"}
  Own = {"new"}
  Texts = {"", "x", "outside"}
  Words = {"", "p", "q"}
  Kinds = {"select"}
  Required = {"v"}
  MaxInputs = 4
INVARIANT LanguagesKept
CHECK_DEADLOCK FALSE
