CONSTANTS
    Names   <- MCNames
    Client0 = "client_0"
    StrCmp  <- ByteDifference
    s1 = s1
    s2 = s2
    Servers = {s1, s2}
    Clients <- WriterAndReader
    Mortal  = {}
    Script  <- DaemonScript
SPECIFICATION Spec
CHECK_DEADLOCK FALSE
SYMMETRY Symmetry
INVARIANT TypeOK
INVARIANT Tables
INVARIANT Served
INVARIANT Messages
INVARIANT Freshness
INVARIANT Tagged
INVARIANT ForgottenIsServed
INVARIANT Decodable
INVARIANT NotOlderThanAsked
INVARIANT TablesEmptied
