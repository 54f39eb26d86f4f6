SPECIFICATION ImportSpec
CONSTANTS
    Runner = {r1, r2}
    Chat = {h1, h2}
    Messages <- MessagesOfChat
    CopyLimit = 2
    Conversation = {v1}
    WaitLimit = 1
    MaxBreaks = 1
PROPERTY DeviceImportsEnd
CHECK_DEADLOCK FALSE
