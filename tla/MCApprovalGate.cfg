SPECIFICATION GateSpec
CONSTANTS
  Session = {"main"}
  Worker = {"worker"}
  Levels = {1, 4}
  Call <- MCCall
  Req <- MCReq
PROPERTIES
  NoStands
  RefusalHasANo
