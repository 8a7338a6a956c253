\* Two servers, replies read in up to three pieces, three commands and two
\* closes in any order, one error at any callback or call of libuv.
SPECIFICATION FairSpec
CONSTANTS
    NumConns = 2
    PacketLength = 3
    MaxCommands = 3
    MaxCloses = 2
    MaxFaults = 2
INVARIANT TypeOK
INVARIANT OwnReply
INVARIANT IdleIsQuiet
PROPERTY BrokenBlocksAll
PROPERTY CommandsEnd
PROPERTY ImplementsExchange
\* After MaxCommands commands nothing is left to do.
CHECK_DEADLOCK FALSE
