SPECIFICATION FairSpec
CONSTANTS
  h1 = h1 h2 = h2 h3 = h3 k1 = k1
  create = create window = window session = session
  Handler <- ThreeHandlers
  Key <- OneKey
  Short <- OneMutation
  Long <- TwoDigests
  Open <- WithoutEnd
  MaxRequests = 3
  MaxTime = 1
  MaxFaults = 2
CHECK_DEADLOCK FALSE
INVARIANTS AppliedOnce ReplayIsFaithful
PROPERTIES NoCallAfterAnswer EveryReservationEnds
