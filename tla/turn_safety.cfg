SPECIFICATION Spec
CONSTANTS
  Turns = {t1, t2}
  Requests = {r1}
  NoTurn = NoTurn
  NoRequest = NoRequest
  Conversations = {c1}
  ConversationOf <- MCConversationOf
  Readers = {}
  MaxQueue = 1
  AnswerRoom = 0
  Gate = "open"
SYMMETRY MCSymmetry
CHECK_DEADLOCK FALSE
INVARIANTS
  TypeOK
  OneTaskPerConversation
  NoHiddenPrompt
  NoStalePrompt
PROPERTY
  KeepsContract
