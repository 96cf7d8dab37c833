SPECIFICATION Spec
CONSTANTS
  Handlers = {h1, h2, h3, h4}
  Ses = {se1, se2}
  MaxStart = 3
SYMMETRY HandlerSymmetry
CHECK_DEADLOCK FALSE
INVARIANTS TypeOK ScriptInConversation OpenOnlyIfAbandoned
PROPERTY HoldsConversations
