SPECIFICATION Spec
CONSTANTS
  Chats = {c1}
  Personal = personal
  Agents = {a1}
  Results <- MCResults
  Manual = manual
  MaxAttempts = 2
  MaxFaults = 1
  Null = Null
CHECK_DEADLOCK FALSE
INVARIANTS
  AnswerIsRecorded
  SavesPerAnswer
  
PROPERTIES
  RepliesAreFinal
