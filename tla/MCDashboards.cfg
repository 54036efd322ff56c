CONSTANTS
  Table = {t1, t2}
  System = System
  Metric = {m1}
  Column = Column
  MaxQuestions = 2
  MaxFeedback = 1
  MaxDefinitions = 2
SPECIFICATION FairSpec
INVARIANTS TypeOK ViewsCanRun
PROPERTIES PlainEditsStay FirstMetricStays RoundsRunOut RequestEnds
