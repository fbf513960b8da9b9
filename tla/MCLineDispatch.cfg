\* Three lines, of which a chunk may hold two.
SPECIFICATION Spec
CONSTANTS
    Conversations <- MCConversations
    maxReceivedMsgs = 2
    TWITCH_USER_NAME_LENGTH = 2
    TWITCH_USER_NAME_BUFFER = 3
    TWITCH_CMD_BUFFER = 3
    TWITCH_MESSAGE_BUFFER = 2
INVARIANTS
    CommandsAreAuthored
    PingsAreAnswered
PROPERTIES
    WholeLinesArrive
CHECK_DEADLOCK FALSE
