SPECIFICATION Spec
CONSTANTS
  m1 = m1
  m2 = m2
  u1 = u1
  l1 = l1
  l2 = l2
  Tail = Tail
  Contact <- OneMessage
  Own <- OneOwn
  Live <- TwoLive
  MaxRuns = 3
  MirrorsOwn = TRUE
  HandlersDie = TRUE
  StartsWhole = TRUE
INVARIANTS TypeOK DeliveredIsMapped AbandonedIsInReach SettledEchoIsRecognised
PROPERTIES ReleasedWasNeverSent
