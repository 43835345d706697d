CONSTANTS
  t1 = t1
  t2 = t2
  t3 = t3
  t4 = t4
  t5 = t5
  Timers <- FourTimers
  Nil = Nil
  Delay = 2
  AddDelays <- AnyDelay
  MaxTime = 3
SPECIFICATION Spec
SYMMETRY Symmetry
INVARIANTS
  EveryTimerOnce
PROPERTY ImplementsService
