SPECIFICATION Spec
CONSTANTS
  Players = {p1}
  MissionIds = {m1}
  Calls = {c1, c2}
  NoMission = NoMission
  NoPlayer = NoPlayer
  NoCall = NoCall
  Overlapping = TRUE
  Outsiders = FALSE
  Faults = FALSE
  MaxNonce = 3
SYMMETRY Symmetry
INVARIANT RewardOnce
