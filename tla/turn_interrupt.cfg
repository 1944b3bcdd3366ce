SPECIFICATION FairSpec
CONSTANTS
  Turns = {t1}
  Requests = {r1}
  NoTurn = NoTurn
  NoRequest = NoRequest
  Conversations = {c1}
  ConversationOf <- MCConversationOf
  Readers = {rd}
  MaxQueue = 1
  AnswerRoom = 0
  Gate = "open"
CHECK_DEADLOCK FALSE
PROPERTIES
  InterruptedTurnEnds
