SPECIFICATION MCSpec
CONSTANTS
  Threads = {t1, t2, t3}
  NoThread = NoThread
  Waits = 4
PROPERTIES ImplementsBarrier AllPass
