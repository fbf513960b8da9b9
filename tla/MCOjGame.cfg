\* Four viewers compete for three places in the queue and two in the teams.
SPECIFICATION Spec
CONSTANTS
    Users <- MCUsers
    userId <- MCuserId
    displayName <- MCdisplayName
    Names <- MCNames
    NoName <- Nothing
    NameMatches <- MCNameMatches
    Texts <- MCTexts
    NoText <- Nothing
    Mentions <- MCMentions
    TeamWords <- MCTeamWords
    NumTeams = 2
    Prize = 3
    ojMaxQueueLength = 3
    ojMaxRegisteredTeamMembers = 2
    DEBUG = FALSE
    NoUser = NoUser
    u1 = u1
    u2 = u2
    u3 = u3
    u4 = u4
INVARIANTS
    TypeOK
    OneSlotPerUser
    ToldPosition
    ToldTeam
    UpNextIsHead
    PayoutsWithinPrize
PROPERTIES
    ImplementsPlayQueue
    NoOvertaking
    MembersStayUntilPayout
    NoLeaderRolls
    NobodyVanishes
