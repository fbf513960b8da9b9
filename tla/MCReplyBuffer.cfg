\* The constants of the code.
SPECIFICATION Spec
CONSTANTS
    BufferSize = 512
    MessageMax = 500
    EntrySlack = 32
    ChannelLength = 9
    NameLengths <- MCNameLengths
    LeaderLengths <- MCLeaderLengths
    TextLengths <- MCTextLengths
    ojMaxQueueLength = 64
INVARIANTS
    TypeOK
    ListingFits
    ShortRepliesAreWhole
