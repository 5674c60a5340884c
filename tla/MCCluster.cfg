CONSTANTS
    s1 = s1
    s2 = s2
    s3 = s3
    Servers = {s1, s2, s3}
    Readers <- OneReader
    Writers <- OneWriter
    CommandLine <- NoServers
    MaxTurns <- TurnsOf
    HWM = 4
    SameAddressTwice = TRUE
    Controller = "controller"
    Commands <- MCCommands
    MaxCommands = 3
    Live = {s1, s2, s3}
SPECIFICATION LiveSpec
CHECK_DEADLOCK FALSE
INVARIANT TypeOK
INVARIANT HasArguments
INVARIANT OneHandlerWaits
INVARIANT QuorumsMeet
 
PROPERTY CommandsAreTaken
ACTION_CONSTRAINT OldFirst
