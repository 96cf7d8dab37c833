SPECIFICATION PushSpec
CONSTANT MaxPush = 3
CHECK_DEADLOCK FALSE
INVARIANTS ScriptOncePerPush ScriptsArePaidFor NeverStuck
PROPERTY PushGoesThrough
