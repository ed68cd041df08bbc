SPECIFICATION FairSpec
CONSTANTS
  Players = {p1, p2}
  MissionIds = {m1, m2}
  Calls = {c1, c2}
  NoMission = NoMission
  NoPlayer = NoPlayer
  NoCall = NoCall
  Overlapping = FALSE
  Outsiders = TRUE
  Faults = TRUE
  MaxNonce = 3
INVARIANTS TypeOK RewardOnce NoNonceRace
PROPERTY CompletedIsPaid
