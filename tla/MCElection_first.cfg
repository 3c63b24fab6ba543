CONSTANTS
    k1 = k1
    k2 = k2
    k3 = k3
    k4 = k4
    Members <- MCMembers
    NumSlots = 3
    Hash <- MCHash
    TieHash <- MCTieHash
    Seeds = {0}
    Nil = Nil
    BallotChoices <- MCBallots
    CalculateResult <- MCCalculateResult
    FirstEpoch = 0
    FirstResult <- MCFirstResult
    MaxEpoch = 1
    MaxRebroadcast <- MCNoRebroadcast
    FirstIdx <- MCAllOver
    TimerNodes = {}
    MaxLoss = 0
SPECIFICATION Spec
INVARIANT NoUnanimousResultInEpochZero
