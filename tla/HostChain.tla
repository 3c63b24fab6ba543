----------------------------- MODULE HostChain -----------------------------
(***************************************************************************)
(* The host validator's chain as the consensus engine promises to drive    *)
(* it: blocks are published and never change afterwards, and the chain    *)
(* head only moves to a block that the host found valid and whose parent   *)
(* is the head.  The engine asks the host to commit a block only after a   *)
(* BLOCK_VALID for it, and only one that extends the pre-committed block   *)
(* (spec 4.5, VALID block); Engine is checked to implement this module.    *)
(***************************************************************************)
CONSTANT Nil

VARIABLES
    blocks,     \* id -> [num, prev, signer, valid, future, data]
    head        \* the id of the host's chain head

chainVars == <<blocks, head>>

Init == head \in DOMAIN blocks

\* A block is published: the set of blocks grows, and no known block
\* changes.
Publish ==
    /\ DOMAIN blocks \subseteq DOMAIN blocks'
    /\ \A b \in DOMAIN blocks : blocks'[b] = blocks[b]
    /\ UNCHANGED head

\* The head advances to a valid child of the head.
Commit ==
    \E b \in DOMAIN blocks :
        /\ blocks[b].prev = head
        /\ blocks[b].valid
        /\ head' = b
        /\ UNCHANGED blocks

Next == Publish \/ Commit

Spec == Init /\ [][Next]_chainVars
=============================================================================
