CONSTANTS
  Table = {t1, t2}
  System = System
  Metric = {m1, m2}
  Column = Column
  MaxQuestions = 1
  MaxFeedback = 0
  MaxDefinitions = 2
SPECIFICATION Spec
PROPERTIES EditsStay
