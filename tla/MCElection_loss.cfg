CONSTANTS
    k1 = k1
    k2 = k2
    k3 = k3
    k4 = k4
    Members <- MCMembers
    NumSlots = 1
    Hash <- MCHash
    TieHash <- MCTieHash
    Seeds = {0}
    Nil = Nil
    BallotChoices <- MCBallots
    CalculateResult <- MCCalculateResult
    FirstEpoch = 1
    FirstResult <- MCFirstResult
    MaxEpoch = 2
    MaxRebroadcast <- MCNoRebroadcast
    FirstIdx <- MCOneBehind
    TimerNodes = {}
    MaxLoss = 1
SPECIFICATION MCSpecLoss
INVARIANT ElectionNeverStalls
