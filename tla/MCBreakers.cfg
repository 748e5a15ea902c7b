SPECIFICATION Spec
CONSTANTS
  Wirings <- MCWirings
  Suspending <- MCSuspending
  Equities <- MCEquities
  Percent = 5
  Window <- MCWindow
  Limit <- MCLimit
  Cooldown = 1
  Silence = 1
  Watched <- MCWatched
  MaxTime = 3
  MaxErrors = 3
  MaxAcks = 1
INVARIANTS
  TypeOK
  NoDrawdownMissed
  LatchedByDrawdown
  NoOrderInCooldown
  TripsNeedNewErrors
  NoOrderAmidErrors
