SPECIFICATION FairSpec
CONSTANTS
    Users = {u1, u2}
    Fds = {4, 5, 6}
    ThreadNum = 2
    NoFd = noFd
    LoginsPerConn = 1
INVARIANTS OneSessionPerUser OnlineIsJustified RoutesToSession SessionIsRouted
PROPERTIES IsPresence DisconnectHeals
