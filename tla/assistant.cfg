SPECIFICATION Spec
CONSTANTS
  MaxTyped = 2
  MaxSubmits = 3
  MaxLoads = 1
  MaxForgets = 1
  MaxKept = 2
INVARIANTS
  TypeOK
  OneAnswerEach
  ConversationsKeepApart
PROPERTIES
  RetryKeepsTheAnswered
  EveryQuestionSettles
CHECK_DEADLOCK FALSE
