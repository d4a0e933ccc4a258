CONSTANT Period = 12
SPECIFICATION FairSpec
INVARIANTS TypeOK NoLostWakeup FullPeriod ArmFromRest
PROPERTIES ImplementsPassClock PassesForever
