\* Five conversations, two ticks to a spacing; the link may be lost once. MaxTime and
\* MaxSends are never reached.
SPECIFICATION BotSpec
CONSTANTS
    SpacingMs = 1
    TicksPerMs = 2
    MaxTime = 40
    MaxSends = 8
    Budget = 4
    Users <- MCUsers
    userId <- MCuserId
    displayName <- MCdisplayName
    Names <- MCNames
    NoName = noname
    NameMatches <- MCNameMatches
    Texts <- MCTexts
    NoText = notext
    Mentions <- MCMentions
    TeamWords <- MCTeamWords
    NumTeams = 2
    Prize = 3
    ojMaxQueueLength = 2
    ojMaxRegisteredTeamMembers = 2
    DEBUG = FALSE
    NoUser = NoUser
    Talks <- MCTalks
    MaxLag = 1
    MaxLosses = 1
    u1 = u1
    u2 = u2
    bob = bob
    amy = amy
    noname = noname
    notext = notext
INVARIANTS
    BotTypeOK
    HalfTheRateHolds
    AnswersInOrder
    PaidAsTold
PROPERTIES
    BackAtRecv
    PingsGetThrough
\* The conversation ends.
CHECK_DEADLOCK FALSE
