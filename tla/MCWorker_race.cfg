SPECIFICATION FairSpec
CONSTANTS
  w1 = w1 w2 = w2 a1 = a1 a2 = a2 a3 = a3 s1 = s1 s2 = s2
  NoWorker = NoWorker NoAttempt = NoAttempt
  Worker <- TwoWorkers
  Attempt <- OneAttempt
  Shot <- OneShot
  ShotOf <- OneRun
  Unmanaged <- None
  MaxPosts = 2
  MaxFaults = 3
  MaxAttemptsPerShot = 3
  Stalls = FALSE
  MayVanish = TRUE
INVARIANTS AtMostOnePost OneWorkerPerAttempt
PROPERTIES KeepsContract EveryAttemptSettles
