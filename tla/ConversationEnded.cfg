SPECIFICATION PushSpec
CONSTANT MaxPush = 1
CHECK_DEADLOCK FALSE
INVARIANT ConversationEnded
