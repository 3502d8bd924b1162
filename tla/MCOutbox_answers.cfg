SPECIFICATION FairSpec
CONSTANTS
  w1 = w1 w2 = w2 e1 = e1 e2 = e2 e3 = e3
  NoMessage = NoMessage
  Worker <- TwoWorkers
  Trigger <- ThreeTriggers
  Notifiable <- TheTold
  Unresolved <- Lost
  MaxFaults = 3
INVARIANTS AtMostOnePaidCall ToldAtMostOnce LostFindingIsVisible
PROPERTY EveryTriggerIsAnswered
