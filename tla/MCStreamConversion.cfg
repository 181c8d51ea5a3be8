SPECIFICATION Spec
CONSTANTS
  Sources = {"messages", "chat", "gemini", "responses"}
  MaxItems = 2
  MaxPieces = 2
INVARIANTS
  ClientsAreServed
PROPERTIES
  TellsTheAnswer
CHECK_DEADLOCK FALSE
