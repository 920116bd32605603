CONSTANTS
    World = World
    Self = Self
    NullComm = NullComm
    NullWin = NullWin
    GWorld = GWorld
    GSelf = GSelf
    c1 = c1
    c2 = c2
    g1 = g1
    w1 = w1
    w2 = w2
    UserComms <- MCUserComms
    UserGroups <- MCUserGroups
    Wins <- MCWins
    MaxComms <- MCMaxComms
    MaxWins <- MCMaxWins
    MaxId <- MCMaxId
SYMMETRY MCSymmetry
SPECIFICATION Spec
INVARIANTS
    GroupClaimed
