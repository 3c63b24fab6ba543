CONSTANTS
    k1 = k1
    k2 = k2
    k3 = k3
    k4 = k4
    Members <- MCMembers3
    NumSlots = 2
    Hash <- MCHash
    TieHash <- MCTieHash
    Seeds = {0}
    Nil = Nil
    BallotChoices <- MCBallots3
    CalculateResult <- MCCalculateResult
    FirstEpoch = 1
    FirstResult <- MCFirstResult3
    MaxEpoch = 2
    MaxRebroadcast <- MCNoRebroadcast
    FirstIdx <- MCAllOver
    TimerNodes = {}
    MaxLoss = 0
SPECIFICATION Spec
INVARIANT AllBallotsTabulated
