SPECIFICATION Spec
CONSTANTS
  Chats = {c1}
  Personal = personal
  Agents = {a1}
  Results <- MCFewer
  Manual = manual
  MaxAttempts = 2
  MaxFaults = 1
  Null = Null
CHECK_DEADLOCK FALSE
PROPERTIES
  RemovesOnlyExpired
