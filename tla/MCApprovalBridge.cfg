SPECIFICATION Spec
CONSTANTS
  Session = {"main"}
  Worker = {}
  Tele = {"main"}
  Levels = {1}
  Call <- MCCall
  Req <- MCReq
INVARIANTS
  ChatTellsTheDecision
PROPERTIES
  PromptIsDecided
