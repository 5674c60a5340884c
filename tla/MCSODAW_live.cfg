CONSTANTS
    Names   <- MCNames
    Client0 = "client_0"
    StrCmp  <- ByteDifference
    s1 = s1
    s2 = s2
    Servers = {s1, s2}
    Clients <- WriterAndReader
    Mortal  <- OnlyTheWriter
    Script  <- LiveScript
SPECIFICATION LiveSpec
CHECK_DEADLOCK FALSE
PROPERTY EveryCallReturns
