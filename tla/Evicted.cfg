SPECIFICATION Spec
CONSTANTS
    Users = {u1, u2}
    NoUser = NoUser
    Departed = Departed
    Lobbies = {l1, l2}
    NoLobby = NoLobby
    MailboxSize = 2
    InputsPerDatagram = 2
INVARIANTS
    EvictedIsTold
CHECK_DEADLOCK FALSE
