CONSTANTS
  N = 2
  MaxIndex = 2
  CloseCap = 3
  Active = {"recv"}
  AcceptMayStall = FALSE
  CloseQueueRoom = TRUE
SPECIFICATION PromptSpec
INVARIANTS
  SessionsConserved
  StopNoticesFit
