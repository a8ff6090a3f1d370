CONSTANTS
  ada = ada
  bob = bob
  cem = cem
  talk = talk
  lunch = lunch
  s1 = s1
  s2 = s2
  NoSession = NoSession
  People = {ada, bob, cem}
  Sessions = {s1, s2}
  Options = {talk, lunch}
  Capacity <- OneLunch
  Answers <- TwoOrders
  Quota = 2
  MaxSaves = 1
  MaxDeletes = 1
SPECIFICATION Spec
INVARIANTS QuotaKept OverbookedOnlyByChange DeadlocksExplained
SYMMETRY Symmetric
