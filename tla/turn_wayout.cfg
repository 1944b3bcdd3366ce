SPECIFICATION AnsweringSpec
CONSTANTS
  Turns = {t1}
  Requests = {r1}
  NoTurn = NoTurn
  NoRequest = NoRequest
  Conversations = {c1}
  ConversationOf <- MCConversationOf
  Readers = {}
  MaxQueue = 1
  AnswerRoom = 1
  Gate = "view"
CHECK_DEADLOCK FALSE
PROPERTY
  LoopReturns
