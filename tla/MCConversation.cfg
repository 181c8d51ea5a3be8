SPECIFICATION Spec
CONSTANTS
  Bindings <- MCBindings
  Clients = {"messages", "chat", "responses", "gemini"}
  Models <- MCModels
  UsualModel <- MCUsual
  Costs <- MCCosts
  MaxTurns = 2
CHECK_DEADLOCK FALSE
INVARIANTS
  UpstreamReadsTheRequest
  ToldIsTheAnswer
  TurnsContinue
