SPECIFICATION Spec
CONSTANTS
  t1 = t1
  t2 = t2
  t3 = t3
  t4 = t4
  Outside = Outside
  Tasks = {t1, t2, t3, t4}
  Capacity = 2
  Submitter <- OneNests
INVARIANTS TypeOK Accounted WaitMeansDrained
PROPERTIES ImplementsPool RunReturns
