SPECIFICATION FairSpec
CONSTANTS
  Senders = {s1, s2}
  Receivers = {r1, r2}
  Values = {v1, v2, v3}
  Capacity = 2
  NoValue = NoValue
INVARIANTS FifoOrder NoLostWakeup
PROPERTIES NoValueAbandoned DeliversEventually CallsReturn
