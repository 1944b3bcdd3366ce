SPECIFICATION Spec
CONSTANTS
  Turns = {t1, t2}
  Requests = {r1}
  NoTurn = NoTurn
  NoRequest = NoRequest
  Conversations = {c1}
  ConversationOf <- MCConversationOf
  Readers = {rd}
  MaxQueue = 1
  AnswerRoom = 0
  Gate = "quiet"
CHECK_DEADLOCK FALSE
INVARIANT
  RunningTurnIsActive
