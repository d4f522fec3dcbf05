CONSTANTS
    WhatsApp = {w1}
    Telegram = {t1}
    Threads = {a}
    Inbound = {m1, m2}
    Sockets = {s1, s2}
    UserStatuses = {"connected"}
    Nil = Nil
    Patient = TRUE
    MaxUndone = 1
SPECIFICATION ChannelSpec
SYMMETRY MCSymmetry
INVARIANTS
    ChannelTypeOK
    ThreadsKeepTheirChat
    SessionsFollowSockets
    ConnectedHasASession
CHECK_DEADLOCK FALSE
