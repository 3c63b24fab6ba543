CONSTANTS
    m1 = m1
    m2 = m2
    m3 = m3
    Members <- MCMembers
    Me = m1
    NumSlots = 2
    Hash <- MCHash
    Seeds = {0}
    Nil = Nil
    MaxBlocks = 4
    MaxEpoch = 1
    ElectionResults <- MCResults
    ValidChoices = {TRUE, FALSE}
    FutureChoices = {FALSE}
    InitBlocks <- MCGenesisBlocks
    InitHead = 0
    InitUpdates <- MCNoUpdates
    InitPeerHead <- MCGenesisPeerHead
    MaxBootMsgs = 0
    PeerData <- MCPeerData
SPECIFICATION FairSpec
INVARIANT CountersMatchRequests
INVARIANT AtMostOneWait
INVARIANT CommitteeIsPermutation
PROPERTY ImplementsHostChain
PROPERTY WaitingEnds
