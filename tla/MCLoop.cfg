SPECIFICATION LoopSpec
CONSTANTS
  IdleLimit = 3
  TimerEvery = 4
  MaxMsgs = 3
  MaxSilence = 4
CHECK_DEADLOCK FALSE
INVARIANT IntactUnlessCut
PROPERTY ArrivedIsFed
