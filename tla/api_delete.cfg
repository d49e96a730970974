SPECIFICATION ApiSpec
CONSTANTS
    Users = {u1, u2}
    Sockets = {k1}
    MaxSessions = 2
    MaxRestarts = 0
INVARIANT DeletedIsGone
CHECK_DEADLOCK FALSE
