CONSTANTS
    m1 = m1
    m2 = m2
    m3 = m3
    Members <- MCMembers
    Me = m1
    NumSlots = 2
    Hash <- MCHash
    Seeds = {0}
    Nil = Nil
    MaxBlocks = 5
    MaxEpoch = 1
    ElectionResults <- MCResults
    ValidChoices = {TRUE, FALSE}
    FutureChoices = {FALSE}
    InitBlocks <- MCLagBlocks
    InitHead = 1
    InitUpdates <- MCLagUpdates
    InitPeerHead <- MCLagPeerHead
    MaxBootMsgs = 2
    PeerData <- MCPeerData
SPECIFICATION FairSpec

PROPERTY WaitingForBootstrapEnds
