\* Two refusals by a NAT, one peer that may miss the pairing, one reset.
SPECIFICATION Spec
CONSTANTS
  MaxRefusals = 2
  MayStray <- FirstPeer
  MayReset = TRUE
INVARIANTS
  TypeOK
  SameConnection
PROPERTY BothReturnTheSum
