CONSTANTS
  Requests <- OneFrame
  ClkCnt = 1
  Stretches = {FALSE}
  Faults = TRUE
SPECIFICATION Spec
INVARIANT ReturnsOnlyAnswers
