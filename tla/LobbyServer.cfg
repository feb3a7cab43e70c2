SPECIFICATION Spec
CONSTANTS
    Users = {u1, u2, u3}
    NoUser = NoUser
    Departed = Departed
    Lobbies = {l1, l2}
    NoLobby = NoLobby
    MailboxSize = 2
    InputsPerDatagram = 1
INVARIANTS
    TypeOK
    TablesAgree
    NeverPanics
    AnswerOnItsWay
PROPERTIES
    NewcomerStartsFresh
    ImplementsMatchmaking
SYMMETRY Symmetry
CHECK_DEADLOCK FALSE
