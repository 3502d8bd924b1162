SPECIFICATION Spec
CONSTANTS
  w1 = w1 w2 = w2 a1 = a1 a2 = a2 a3 = a3 s1 = s1 s2 = s2
  NoWorker = NoWorker NoAttempt = NoAttempt
  Worker <- OneWorker
  Attempt <- ThreeAttempts
  Shot <- TwoShots
  ShotOf <- SameShot
  Unmanaged <- ThirdUnmanaged
  MaxPosts = 1
  MaxFaults = 1
  MaxAttemptsPerShot = 2
  Stalls = FALSE
  MayVanish = FALSE
INVARIANTS ShotFollowsAttempt GeneratingHasWork
