SPECIFICATION Spec
CONSTANTS
    Users = {u1, u2}
    NoUser = NoUser
    Departed = Departed
    Lobbies = {l1, l2}
    NoLobby = NoLobby
    MailboxSize = 1
    InputsPerDatagram = 2
PROPERTIES
    MutexReleased
    OrphansStop
CHECK_DEADLOCK FALSE
