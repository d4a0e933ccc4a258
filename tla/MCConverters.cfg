SPECIFICATION Spec
CONSTANTS
  a1 = a1
  a2 = a2
  b1 = b1
  Slaves <- MCSlaves
  Boards <- MCBoards
  Script <- MCScript
  Width = 3
  Divisor = 4
  N_ADC = 2
  N_CHAN = 2
  ConvTime = 2
  ConvSleep = 2
  GainTime = 3
  GainSleep = 3
  OffsTime = 2
  OffsSleep = 2
INVARIANTS NoOverrun TableIsOfThisPass ErrorsOfThisResult CalibrationHolds
PROPERTIES ImplementsTransaction CommandsReturn
