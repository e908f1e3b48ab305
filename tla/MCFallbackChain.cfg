SPECIFICATION Spec
CONSTANTS
  Caller = {c1, c2}
  Link = {"cloud", "spare", "local"}
  Chain <- MCChain
  Edits <- MCEdits
  Threshold = 2
  MaxEdits = 1
INVARIANTS
  OffPrimaryIsExplained
PROPERTIES
  PrimaryComesBack
  EveryCallEnds
