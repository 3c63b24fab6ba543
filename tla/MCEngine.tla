----------------------------- MODULE MCEngine -----------------------------
(* One engine m1 among three members with two witness slots, against the *)
(* host validator and the peers m2 and m3.                                 *)
EXTENDS Engine

CONSTANTS m1, m2, m3

MCMembers == {m1, m2, m3}
KeyNum == [k \in MCMembers |-> CASE k = m1 -> 1 [] k = m2 -> 2 [] k = m3 -> 3]

\* A stand-in for sha256, injective in the key for a fixed seed and index;
\* the seed is the pre-committed block id.
MCHash(w, seed, idx) == (KeyNum[w] * 7 + seed * 3 + idx * 5) % 11

\* Election results: m1 a witness first or last.
MCResults == {<<m1, m2, m3>>, <<m2, m3, m1>>}
\* No election result reaches the stranded engine below.
MCNoResults == {}

\* The genesis block: block 0 with GENESIS_BLOCK_ID as its previous id.
MCGenesis == [num |-> 0, prev |-> Nil, signer |-> Nil, valid |-> TRUE, future |-> FALSE,
              data |-> [epoch |-> 0, idx |-> 0, cands |-> <<>>]]

\* A fresh network: every host holds the genesis block only.
MCGenesisBlocks == (0 :> MCGenesis)
MCGenesisPeerHead == [p \in {m2, m3} |-> 0]
MCNoUpdates == <<>>

\* The chain 0 <- 1 <- 2 <- 3, built in epoch 1 on the list <<m2, m3, m1>>
\* (witnesses m2, m3); m2 and m3 are at block 3.
MCEpochOne(i) == [epoch |-> 1, idx |-> i, cands |-> <<m2, m3, m1>>]
MCLagBlocks ==
    (0 :> MCGenesis) @@
    (1 :> [num |-> 1, prev |-> 0, signer |-> m2, valid |-> TRUE, future |-> FALSE,
           data |-> MCEpochOne(0)]) @@
    (2 :> [num |-> 2, prev |-> 1, signer |-> m3, valid |-> TRUE, future |-> FALSE,
           data |-> MCEpochOne(1)]) @@
    (3 :> [num |-> 3, prev |-> 2, signer |-> m2, valid |-> TRUE, future |-> FALSE,
           data |-> MCEpochOne(2)])
MCLagPeerHead == [p \in {m2, m3} |-> 3]

\* A restarted engine: its host's chain head is block 1, and blocks 2 and
\* 3 reach the host after startup.
MCLagUpdates == <<[type |-> "NEW", id |-> 2], [type |-> "NEW", id |-> 3]>>

\* A stranded engine: started with the network on the genesis block, it
\* never learnt the result of the first election (finding 1) and is still
\* in epoch 0 while its host receives blocks 1 to 3 of the others.  With
\* no witnesses it expects no signer, so the second block is beyond the
\* next number and it broadcasts a BOOTSTRAP_REQUEST.
MCStrandedUpdates == <<[type |-> "NEW", id |-> 1], [type |-> "NEW", id |-> 2],
                       [type |-> "NEW", id |-> 3]>>

\* The ConsensusData of a peer's block: epoch 1 on <<m2, m3, m1>>, with
\* the slot cursor of the block's number.
MCPeerData(s, num) == MCEpochOne(num - 1)
=============================================================================
