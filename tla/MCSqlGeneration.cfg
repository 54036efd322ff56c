SPECIFICATION FairSpec
CONSTANTS
  Tables = 3
  MaxTools = 2
  GroupLimit = 2
INVARIANTS TypeOK ConsolidationKept WholeIfListed
PROPERTIES StepsRunOut QuestionSettles
CHECK_DEADLOCK FALSE
