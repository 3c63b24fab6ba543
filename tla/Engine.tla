------------------------------ MODULE Engine ------------------------------
(***************************************************************************)
(* The block pipeline of one DDPoA engine (DDPoAEngine in                  *)
(* src/consensus/pkg/engine/ddpoa_engine.py): slot timing, own block       *)
(* production, empty and missed slots, and the handlers of the host        *)
(* validator's notifications (new, valid, invalid and committed blocks),   *)
(* with the waiting_for_* counters that gate production, and catch-up:    *)
(* waiting for bootstrap, the bootstrap tally, fastforward with the        *)
(* BlockCache traversals and fork resolution.                              *)
(*                                                                         *)
(* The local engine Me runs against an environment:                        *)
(*  - the host validator (the Sawtooth ZmqService): it builds the block    *)
(*    begun by initialize_block, answers every check_blocks request with  *)
(*    one BLOCK_VALID or BLOCK_INVALID, every commit_block with one        *)
(*    BLOCK_COMMIT, and announces every block with BLOCK_NEW, all through *)
(*    the engine's single updates queue;                                   *)
(*  - the peers: they publish blocks (at most one per signer and height,  *)
(*    as correct signers do), send EMPTY_SLOT, answer BOOTSTRAP_REQUEST    *)
(*    with their chain head, and finish elections.                         *)
(* Peer messages other than EMPTY_SLOT and the vote results are the        *)
(* Election module's.  Time is the slot age: FRESH, DUE once               *)
(* time_for_next_block holds, LATE once BLOCK_INTERVAL + SLOT_TIMEOUT has  *)
(* passed.  Peer scores (penalize, reward) only weigh ballots and are left *)
(* out.                                                                    *)
(***************************************************************************)
EXTENDS Epoch, BagsExt, Functions, TLC

LOCAL V == INSTANCE Voting WITH TieHash <- LAMBDA k, seed : 0

CONSTANTS
    Me,             \* the local member key (local_id)
    MaxBlocks,      \* bound on the number of blocks, genesis included
    MaxEpoch,       \* no election beyond this epoch
    ElectionResults,\* the candidate lists an election may produce
    ValidChoices,   \* the verdicts the host may give a new block
    FutureChoices,  \* whether a peer block may carry a future timestamp
    InitBlocks,     \* the blocks the host holds at startup
    InitHead,       \* startup_state.chain_head
    InitUpdates,    \* notifications queued to the engine at startup
    InitPeerHead,   \* the chain head of each peer at startup
    MaxBootMsgs,    \* bound on bootstrap_messages_received
    PeerData(_, _)  \* the ConsensusData a peer signer puts in its block of a number

\* The recipients of a broadcast: every connected peer, the member itself
\* excluded.
Peers == Members \ {Me}

\* DDPoANode.State.  ELECTION behaves as PRODUCTION in every engine guard
\* (both produce and detect missed slots); voting is the Election module's.
IDLE == "IDLE"
PRODUCTION == "PRODUCTION"
WAITING_FOR_BOOTSTRAP == "WAITING_FOR_BOOTSTRAP"
CATCHING_UP == "CATCHING_UP"

\* The slot age: time.time() - _slot_started_at.
FRESH == "FRESH"
DUE == "DUE"
LATE == "LATE"
SlotAges == {FRESH, DUE, LATE}

\* Every member is connected: online_peers counts them all, self included.
Online == Cardinality(Members)

VARIABLES
    nstate,      \* DDPoANode.state
    ep,          \* the node's Epoch
    elected,     \* the candidate list of the next epoch once ready_result
                 \* holds it (handle_vote_result), or Nil
    pre,         \* pre_committed_block (its id; the number is blocks[pre].num)
    waitOwn,     \* _waiting_for_own_block
    waitVal,     \* _waiting_for_validation
    waitCommit,  \* _waiting_for_commit
    slotAge,     \* time since _slot_started_at
    cache,       \* the ids held by BlockCache
    blocks,      \* host: block id -> [num, prev, signer, valid, future]
    head,        \* host: the committed chain head
    building,    \* host: parent of the block begun by initialize_block, or Nil
    updates,     \* host: the engine's updates queue of notifications
    checking,    \* host: bag of check_blocks requests not answered yet
    committing,  \* host: bag of commit_block requests not done yet
    bootCache,   \* the ids held by _bootstrap_cache
    bootMsgs,    \* bootstrap_messages_received: [head, num, pre] records
    hasRequested,\* _has_requested_bootstrap
    ffTarget,    \* fastforward_target_id (its number is fastforward_target)
    asked,       \* peers that owe a BOOTSTRAP reply
    peerHead     \* the chain head of each peer's host

engineVars == <<nstate, ep, elected, pre, waitOwn, waitVal, waitCommit, slotAge, cache,
                bootCache, bootMsgs, hasRequested, ffTarget>>
hostVars == <<blocks, head, building, updates, checking, committing, asked, peerHead>>
catchVars == <<bootCache, bootMsgs, hasRequested, ffTarget, asked, peerHead>>
vars == <<engineVars, hostVars>>

Notification(t, b) == [type |-> t, id |-> b]

\* The ConsensusData payload _finalize_block puts in a block.
ConsensusData(e) == [epoch |-> e.number, idx |-> e.idx, cands |-> FullCandidateList(e)]

\* start(): the startup chain head is cached and pre-committed; a head
\* other than the genesis block (whose previous id is GENESIS_BLOCK_ID)
\* makes the engine wait for bootstrap.
Init ==
    /\ nstate = IF InitBlocks[InitHead].prev = Nil THEN IDLE ELSE WAITING_FOR_BOOTSTRAP
    /\ ep = NewEpoch(0, NumSlots)
    /\ elected = Nil
    /\ pre = InitHead
    /\ waitOwn = FALSE
    /\ waitVal = 0
    /\ waitCommit = 0
    /\ slotAge = FRESH
    /\ cache = {InitHead}
    /\ blocks = InitBlocks
    /\ head = InitHead
    /\ building = Nil
    /\ updates = InitUpdates
    /\ checking = EmptyBag
    /\ committing = EmptyBag
    /\ bootCache = {}
    /\ bootMsgs = <<>>
    /\ hasRequested = FALSE
    /\ ffTarget = Nil
    /\ asked = {}
    /\ peerHead = InitPeerHead

\* Seeded fault: waiting() forgetting the own-block flag.
WaitingNoOwn == waitVal > 0 \/ waitCommit > 0

\* waiting(): an own block, a validation or a commit is outstanding.
Waiting == waitOwn \/ waitVal > 0 \/ waitCommit > 0

ExpectedSigner == CurrentWitness(ep)

\* BlockCache.block_by_num_and_signer: the cached blocks with that number
\* and signer (the code returns the first in insertion order).
BlockByNumAndSigner(num, signer) ==
    {b \in cache : blocks[b].num = num /\ blocks[b].signer = signer}

\* BlockCache.traversable over the cached ids c: follow previous ids
\* through the cache from the block `from`; reaching `to` while in the
\* cache, or as the first id not cached, succeeds.
RECURSIVE Traversable(_, _, _)
Traversable(c, from, to) ==
    IF from \in c
    THEN from = to \/ Traversable(c, blocks[from].prev, to)
    ELSE from = to

\* BlockCache.block_path: the ids after `to` up to `from`, oldest first.
RECURSIVE BlockPath(_, _)
BlockPath(from, to) ==
    IF blocks[from].prev = to THEN <<from>>
    ELSE Append(BlockPath(blocks[from].prev, to), from)

\* BlockCache.longest_chain: `from` and its cached ancestors, oldest first.
RECURSIVE LongestChain(_)
LongestChain(from) ==
    IF blocks[from].prev \in cache
    THEN Append(LongestChain(blocks[from].prev), from)
    ELSE <<from>>

\* common_and_forked_block: walk back from the host's chain head, at most
\* ten steps, to the first block whose parent is on `chain`.  The result
\* is <<common, forked>>, <<>> after ten steps, or "ERROR" when the walk
\* passes the genesis block: get_blocks raises on GENESIS_BLOCK_ID.
RECURSIVE ForkWalk(_, _, _)
ForkWalk(cur, k, chain) ==
    LET p == blocks[cur].prev
    IN  CASE k = 0 -> <<>>
          [] p \in Range(chain) -> <<p, cur>>
          [] p = Nil -> "ERROR"
          [] OTHER -> ForkWalk(p, k - 1, chain)
CommonAndForkedBlock(chain) == ForkWalk(head, 10, chain)

\* _next_slot(ts) from node state s0 and epoch e0, with the
\* pre-committed block seed: DDPoANode.next_slot (increment_witness, which
\* on an empty witness list fails after advancing the cursor; at the end
\* of the epoch finalize_epoch and, with a ready result,
\* initialize_epoch), then _slot_started_at = ts, _try_cancel and, for the
\* new current witness, initialize_block on the chain head.  ages: the
\* slot ages ts can give.
NextSlot(s0, e0, seed, ages) ==
    LET e1 == CapIdx(IncrementWitness(e0, seed))
        over == ~IncrementFails(e0) /\ IsOver(e1)
        e2 == IF over /\ elected # Nil
              THEN SetCandidatesAndWitnesses(NewEpoch(e1.number + 1, NumSlots), elected)
              ELSE e1
    IN  /\ ep' = e2
        /\ nstate' = CASE s0 = CATCHING_UP -> s0
                       [] over /\ elected # Nil -> PRODUCTION
                       [] over -> IDLE
                       [] OTHER -> s0
        /\ elected' = IF over /\ elected # Nil THEN Nil ELSE elected
        /\ slotAge' \in ages
        /\ building' = IF CurrentWitness(e2) = Me THEN head ELSE Nil

\* The driver loop produces or checks a slot: not catching up, not IDLE,
\* no validation outstanding, and time_for_next_block.
MayHandleSlot ==
    /\ nstate \notin {WAITING_FOR_BOOTSTRAP, CATCHING_UP, IDLE}
    /\ waitVal = 0
    /\ slotAge # FRESH

\* The local engine is the current witness: summarize_block returns a
\* block (one is being built) and finalize_block seals it with the
\* epoch's ConsensusData.  The host announces it with BLOCK_NEW.
FinalizeBlock ==
    /\ MayHandleSlot
    /\ ExpectedSigner = Me /\ ~Waiting
    /\ building # Nil
    /\ Cardinality(DOMAIN blocks) < MaxBlocks
    /\ \E v \in ValidChoices :
         LET b == Cardinality(DOMAIN blocks)
         IN  /\ blocks' = blocks @@ (b :> [num |-> blocks[building].num + 1,
                                           prev |-> building, signer |-> Me,
                                           valid |-> v, future |-> FALSE,
                                           data |-> ConsensusData(ep)])
             /\ updates' = Append(updates, Notification("NEW", b))
    /\ waitOwn' = TRUE
    /\ building' = Nil
    /\ UNCHANGED <<nstate, ep, elected, pre, waitVal, waitCommit, slotAge, cache,
                   head, checking, committing, catchVars>>

\* The current witness has nothing to seal (summarize_block raises
\* BlockNotReady, or InvalidState with no block begun): it broadcasts
\* EMPTY_SLOT and moves to the next slot now.
EmptySlot ==
    /\ MayHandleSlot
    /\ ExpectedSigner = Me /\ ~Waiting
    /\ NextSlot(nstate, ep, pre, {FRESH})
    /\ UNCHANGED <<pre, waitOwn, waitVal, waitCommit, cache,
                   blocks, head, updates, checking, committing, catchVars>>

\* slot_is_missed and handle_missed_slot: the slot timed out with nothing
\* outstanding (for the local witness, a begun block failed to finalize),
\* so the expected signer is downgraded and the slot advanced now.
\* downgrade_witness blocks on an empty candidate queue (DowngradeBlocks).
HandleMissedSlot ==
    /\ MayHandleSlot
    /\ slotAge = LATE /\ ~Waiting /\ IsInitialized(ep)
    /\ nstate = PRODUCTION
    /\ ExpectedSigner # Me \/ building # Nil
    /\ ~DowngradeBlocks(ep, ExpectedSigner)
    /\ NextSlot(nstate, DowngradeWitness(ep, ExpectedSigner), pre, {FRESH})
    /\ UNCHANGED <<pre, waitOwn, waitVal, waitCommit, cache,
                   blocks, head, updates, checking, committing, catchVars>>

\* Time passes within the slot.
Tick ==
    /\ slotAge # LATE
    /\ slotAge' = IF slotAge = FRESH THEN DUE ELSE LATE
    /\ UNCHANGED <<nstate, ep, elected, pre, waitOwn, waitVal, waitCommit, cache,
                   bootCache, bootMsgs, hasRequested, ffTarget, hostVars>>

\* No action sends a BOOTSTRAP_REQUEST while WAITING_FOR_BOOTSTRAP: the
\* driver loop's request every five seconds walks _node.peers, which holds
\* the member itself, and _handle_peer_connected sends before it calls
\* peer_connected; both reach Communicator.send, which indexes _peers, and
\* _peers is filled only by that peer_connected call.  The KeyError is
\* caught by the driver loop and changes nothing, so the model has no
\* step for it.  Requests go out only by broadcast (HandleNewBlock).

\* The head of the updates queue, of the given notification type.
Update(t) == updates # <<>> /\ Head(updates).type = t
UpdateBlock == Head(updates).id

\* Seeded fault: only the number and the signer are checked, not that the
\* block's parent is the pre-committed block.
ExtendsPreNoParent(b) ==
    /\ blocks[b].num = blocks[pre].num + 1
    /\ blocks[b].signer = ExpectedSigner

\* A block that extends the pre-committed block and is signed by the
\* expected signer (the checks of _handle_new_block and _handle_valid_block).
ExtendsPre(b) ==
    /\ blocks[b].prev = pre
    /\ blocks[b].num = blocks[pre].num + 1
    /\ blocks[b].signer = ExpectedSigner

\* Seeded fault: the own block's announcement does not clear
\* _waiting_for_own_block.
WaitingForOwnAfterKeep(b) == waitOwn

\* _waiting_for_own_block once block b is sent for validation: cleared
\* when it is the local engine's own block.
WaitingForOwnAfter(b) == IF waitOwn THEN blocks[b].signer # Me ELSE waitOwn

\* Whether a BOOTSTRAP_REQUEST may go out now: always before the first one,
\* after it once six seconds have passed.  A request is answered in
\* milliseconds, so it never goes out while a reply is owed unless no
\* request was recorded (one to a peer that still owes a reply is merged
\* with that reply).
RequestChoices ==
    IF ~hasRequested THEN {TRUE}
    ELSE IF asked = {} THEN {TRUE, FALSE} ELSE {FALSE}

\* _handle_new_block: a block with a future timestamp is failed.
\* Otherwise it is cached and, when it extends the pre-committed block
\* from the expected signer, sent for validation.  Then, waiting for
\* bootstrap, it is kept in the bootstrap cache; catching up, it is sent
\* for validation (again) when the cache leads from it to the fastforward
\* target; otherwise a block beyond the next number, with nothing
\* outstanding, makes the engine broadcast a BOOTSTRAP_REQUEST.
HandleNewBlock ==
    /\ Update("NEW")
    /\ LET b == UpdateBlock
           c == cache \cup {b}
           chk == ExtendsPre(b)
           wfb == nstate = WAITING_FOR_BOOTSTRAP
           cu == nstate = CATCHING_UP /\ Traversable(c, b, ffTarget)
           ahead == ~wfb /\ ~cu /\ blocks[b].num > blocks[pre].num + 1 /\ ~Waiting
       IN  IF blocks[b].future
           THEN UNCHANGED <<cache, waitOwn, waitVal, checking, bootCache,
                            hasRequested, asked>>
           ELSE /\ cache' = c
                /\ waitOwn' = IF chk THEN WaitingForOwnAfter(b) ELSE waitOwn
                /\ waitVal' = waitVal + (IF chk THEN 1 ELSE 0) + (IF cu THEN 1 ELSE 0)
                /\ checking' = LET c1 == IF chk THEN BagAdd(checking, b) ELSE checking
                               IN  IF cu THEN BagAdd(c1, b) ELSE c1
                /\ bootCache' = IF wfb THEN bootCache \cup {b} ELSE bootCache
                /\ \E send \in RequestChoices :
                     IF ahead /\ send
                     THEN /\ hasRequested' = TRUE
                          /\ asked' = Peers
                     ELSE UNCHANGED <<hasRequested, asked>>
    /\ updates' = Tail(updates)
    /\ UNCHANGED <<nstate, ep, elected, pre, waitCommit, slotAge, bootMsgs, ffTarget,
                   blocks, head, building, committing, peerHead>>

\* _handle_valid_block: one validation fewer.  Catching up, a block on the
\* pre-committed block is committed at once (without counting the
\* commit).  Otherwise the block is committed when it still extends the
\* pre-committed block from the expected signer, and failed if not.
HandleValidBlock ==
    /\ Update("VALID")
    /\ LET b == UpdateBlock
       IN  /\ waitVal' = waitVal - 1
           /\ CASE nstate = CATCHING_UP /\ blocks[b].prev = pre ->
                     /\ committing' = BagAdd(committing, b)
                     /\ UNCHANGED waitCommit
                [] ExtendsPre(b) ->
                     /\ waitCommit' = waitCommit + 1
                     /\ committing' = BagAdd(committing, b)
                [] OTHER -> UNCHANGED <<waitCommit, committing>>
    /\ updates' = Tail(updates)
    /\ UNCHANGED <<nstate, ep, elected, pre, waitOwn, slotAge, cache,
                   blocks, head, building, checking, catchVars>>

\* Seeded fault: an invalid block does not decrement
\* _waiting_for_validation.
HandleInvalidBlockKeepCount ==
    /\ Update("INVALID")
    /\ LET s == blocks[UpdateBlock].signer
       IN  /\ ~DowngradeBlocks(ep, s)
           /\ NextSlot(nstate, DowngradeWitness(ep, s), pre, SlotAges)
    /\ waitVal' = waitVal
    /\ updates' = Tail(updates)
    /\ UNCHANGED <<pre, waitOwn, waitCommit, cache,
                   blocks, head, checking, committing, catchVars>>

\* _handle_invalid_block: the signer is penalized and downgraded, the slot
\* advanced with the block's timestamp as its start, and one validation
\* fewer is outstanding.
HandleInvalidBlock ==
    /\ Update("INVALID")
    /\ LET s == blocks[UpdateBlock].signer
       IN  /\ ~DowngradeBlocks(ep, s)
           /\ NextSlot(nstate, DowngradeWitness(ep, s), pre, SlotAges)
    /\ waitVal' = waitVal - 1
    /\ updates' = Tail(updates)
    /\ UNCHANGED <<pre, waitOwn, waitCommit, cache,
                   blocks, head, checking, committing, catchVars>>

\* Seeded fault: bootstrap starts the epoch after the one in the block.
BootstrapNextEpoch(d) ==
    [SetCandidatesAndWitnesses(NewEpoch(d.epoch + 1, NumSlots), d.cands) EXCEPT !.idx = d.idx]

\* DDPoANode.bootstrap from a block's ConsensusData.
Bootstrap(d) ==
    [SetCandidatesAndWitnesses(NewEpoch(d.epoch, NumSlots), d.cands) EXCEPT !.idx = d.idx]

\* _handle_committed_block: the block becomes the pre-committed block and
\* one commit fewer is outstanding.  Catching up, a block with the number
\* of the fastforward target bootstraps the node from its ConsensusData
\* (back to PRODUCTION) and clears the bootstrap state.  Then the slot
\* advances (seeded with the new pre-committed id, started at the block's
\* timestamp), and a cached block of the next number from the new
\* expected signer is sent for validation.
HandleCommittedBlock ==
    /\ Update("COMMIT")
    /\ LET b == UpdateBlock
           boot == nstate = CATCHING_UP /\ blocks[b].num = blocks[ffTarget].num
       IN  /\ pre' = b
           /\ IF boot
              THEN NextSlot(PRODUCTION, Bootstrap(blocks[b].data), b, SlotAges)
              ELSE NextSlot(nstate, ep, b, SlotAges)
           /\ bootMsgs' = IF boot THEN <<>> ELSE bootMsgs
           /\ hasRequested' = IF boot THEN FALSE ELSE hasRequested
           /\ LET next == BlockByNumAndSigner(blocks[b].num + 1, CurrentWitness(ep'))
              IN  IF next = {}
                  THEN UNCHANGED <<waitVal, checking>>
                  ELSE \E n \in next :
                         /\ waitVal' = waitVal + 1
                         /\ checking' = BagAdd(checking, n)
    /\ waitCommit' = waitCommit - 1
    /\ updates' = Tail(updates)
    /\ UNCHANGED <<waitOwn, cache, blocks, head, committing,
                   bootCache, ffTarget, asked, peerHead>>

-----------------------------------------------------------------------------
(* Catch-up: the BOOTSTRAP tally and fastforward. *)

\* The tally's entries in insertion order: each message contributes its
\* chain head (with its number) and the head's predecessor (number - 1).
TallyEntries(msgs) ==
    [i \in 1..2 * Len(msgs) |->
        LET m == msgs[(i + 1) \div 2]
        IN  IF i % 2 = 1 THEN [id |-> m.head, num |-> m.num]
            ELSE [id |-> m.pre, num |-> m.num - 1]]

\* The tally of the BOOTSTRAP handler: per id, the count of entries, the
\* number of its first entry, and its position in dict order.
TallyIds(msgs) == {TallyEntries(msgs)[i].id : i \in 1..2 * Len(msgs)}
TallyCount(msgs, x) ==
    Cardinality({i \in 1..2 * Len(msgs) : TallyEntries(msgs)[i].id = x})
TallyFirst(msgs, x) == SelectInSeq(TallyEntries(msgs), LAMBDA en : en.id = x)
TallyNum(msgs, x) == TallyEntries(msgs)[TallyFirst(msgs, x)].num

\* blocks.sort(key=(count, num), reverse=True)[0]: the stable sort keeps
\* dict order among equal keys.
ConsensusHead(msgs) ==
    CHOOSE x \in TallyIds(msgs) :
        \A y \in TallyIds(msgs) \ {x} :
            \/ TallyCount(msgs, x) > TallyCount(msgs, y)
            \/ /\ TallyCount(msgs, x) = TallyCount(msgs, y)
               /\ \/ TallyNum(msgs, x) > TallyNum(msgs, y)
                  \/ TallyNum(msgs, x) = TallyNum(msgs, y)
                     /\ TallyFirst(msgs, x) < TallyFirst(msgs, y)

\* The blocks fastforward asks the host to validate for target t (t in
\* the cache): the cached path from the pre-committed block when there is
\* one; otherwise the fork found by common_and_forked_block: the longest
\* cached chain to t from the common block on, without the pre-committed
\* and the common block (try_remove).  The bootstrap-cache branch compares
\* an id with the cached Block objects and is never taken.
FastforwardChecks(t) ==
    IF t \notin cache THEN <<>>
    ELSE IF Traversable(cache, t, pre) THEN BlockPath(t, pre)
    ELSE LET chain == LongestChain(t)
             cf == CommonAndForkedBlock(chain)
         IN  IF cf = <<>> THEN <<>>
             ELSE LET common == cf[1]
                      fork == SubSeq(chain, SelectInSeq(chain, LAMBDA x : x = common), Len(chain))
                  IN  RemoveFirst(RemoveFirst(fork, pre), common)

\* fastforward raises out of common_and_forked_block.
FastforwardFails(t) ==
    /\ t \in cache /\ ~Traversable(cache, t, pre)
    /\ CommonAndForkedBlock(LongestChain(t)) = "ERROR"

\* Seeded fault: fastforward counts one validation per check_blocks call
\* instead of one per block it sends.
HandleBootstrapCountOne ==
    /\ Len(bootMsgs) < MaxBootMsgs
    /\ \E p \in asked :
         LET h == peerHead[p]
             msgs == Append(bootMsgs, [head |-> h, num |-> blocks[h].num,
                                       pre |-> blocks[h].prev])
             x == ConsensusHead(msgs)
             fire == TallyCount(msgs, x) >= V!ConsensusAmount(NumSlots, Online) - 1
             toPre == fire /\ x = pre
             starts == fire /\ ~toPre /\ nstate # CATCHING_UP
             err == starts /\ FastforwardFails(x)
             todo == IF starts /\ ~err THEN FastforwardChecks(x) ELSE <<>>
             kept == IF toPre THEN <<>> ELSE msgs
             clear == ~err /\ Len(kept) = Online - 1
         IN  /\ asked' = asked \ {p}
             /\ nstate' = IF starts THEN CATCHING_UP ELSE nstate
             /\ ffTarget' = IF starts THEN x ELSE ffTarget
             /\ waitVal' = waitVal + (IF todo = <<>> THEN 0 ELSE 1)
             /\ checking' = checking (+) SetToBag(Range(todo))
             /\ bootMsgs' = IF clear THEN <<>> ELSE kept
             /\ hasRequested' = IF toPre \/ clear THEN FALSE ELSE hasRequested
    /\ UNCHANGED <<ep, elected, pre, waitOwn, waitCommit, slotAge, cache, bootCache,
                   blocks, head, building, updates, committing, peerHead>>

\* A peer answers a BOOTSTRAP_REQUEST with its host's chain head, and the
\* engine's BOOTSTRAP handler appends it to bootstrap_messages_received,
\* tallies, and fastforwards when the top count reaches
\* consensus_amount(online_peers) - 1.  fastforward to the pre-committed
\* block clears the bootstrap state; otherwise, unless already catching
\* up, the engine enters CATCHING_UP toward the target and sends the
\* blocks of FastforwardChecks for validation.  The buffer is cleared when
\* it holds exactly online_peers - 1 messages (skipped when fastforward
\* raised).
HandleBootstrap ==
    /\ Len(bootMsgs) < MaxBootMsgs
    /\ \E p \in asked :
         LET h == peerHead[p]
             msgs == Append(bootMsgs, [head |-> h, num |-> blocks[h].num,
                                       pre |-> blocks[h].prev])
             x == ConsensusHead(msgs)
             fire == TallyCount(msgs, x) >= V!ConsensusAmount(NumSlots, Online) - 1
             toPre == fire /\ x = pre
             starts == fire /\ ~toPre /\ nstate # CATCHING_UP
             err == starts /\ FastforwardFails(x)
             todo == IF starts /\ ~err THEN FastforwardChecks(x) ELSE <<>>
             kept == IF toPre THEN <<>> ELSE msgs
             clear == ~err /\ Len(kept) = Online - 1
         IN  /\ asked' = asked \ {p}
             /\ nstate' = IF starts THEN CATCHING_UP ELSE nstate
             /\ ffTarget' = IF starts THEN x ELSE ffTarget
             /\ waitVal' = waitVal + Len(todo)
             /\ checking' = checking (+) SetToBag(Range(todo))
             /\ bootMsgs' = IF clear THEN <<>> ELSE kept
             /\ hasRequested' = IF toPre \/ clear THEN FALSE ELSE hasRequested
    /\ UNCHANGED <<ep, elected, pre, waitOwn, waitCommit, slotAge, cache, bootCache,
                   blocks, head, building, updates, committing, peerHead>>

-----------------------------------------------------------------------------
(* The environment: host validator and peers. *)

\* The host answers a check_blocks request with the block's verdict,
\* validating a block only after its predecessor.
HostValidate ==
    \E b \in BagToSet(checking) :
        /\ blocks[b].prev \notin BagToSet(checking)
        /\ checking' = BagRemove(checking, b)
        /\ updates' = Append(updates,
                        Notification(IF blocks[b].valid THEN "VALID" ELSE "INVALID", b))
        /\ UNCHANGED <<engineVars, blocks, head, building, committing, asked, peerHead>>

\* The host commits a requested block: it becomes the chain head.
HostCommit ==
    \E b \in BagToSet(committing) :
        /\ committing' = BagRemove(committing, b)
        /\ head' = b
        /\ updates' = Append(updates, Notification("COMMIT", b))
        /\ UNCHANGED <<engineVars, blocks, building, checking, asked, peerHead>>

\* A peer publishes a block on a block it knows, carrying its own
\* ConsensusData (PeerData); a correct signer signs at most one block per
\* number, and a valid block becomes its host's chain head.
PeerBlock ==
    /\ Cardinality(DOMAIN blocks) < MaxBlocks
    /\ \E s \in Peers, p \in DOMAIN blocks, v \in ValidChoices, f \in FutureChoices :
         LET b == Cardinality(DOMAIN blocks)
             num == blocks[p].num + 1
         IN  /\ ~\E x \in DOMAIN blocks : blocks[x].signer = s /\ blocks[x].num = num
             /\ blocks' = blocks @@ (b :> [num |-> num, prev |-> p, signer |-> s,
                                           valid |-> v, future |-> f,
                                           data |-> PeerData(s, num)])
             /\ updates' = Append(updates, Notification("NEW", b))
             /\ peerHead' = IF v THEN [peerHead EXCEPT ![s] = b] ELSE peerHead
    /\ UNCHANGED <<engineVars, head, building, checking, committing, asked>>

\* _handle_peer_msgs, EMPTY_SLOT: from the expected signer the slot
\* advances, started at the sender's timestamp.  A correct peer sends it
\* as a witness of an epoch that is not over, for a slot in which it
\* published no block on the pre-committed one.
PeerEmptySlot ==
    /\ ~IsOver(ep)
    /\ ExpectedSigner \in Peers
    /\ ~\E x \in DOMAIN blocks : blocks[x].signer = ExpectedSigner /\ blocks[x].prev = pre
    /\ NextSlot(nstate, ep, pre, {FRESH})
    /\ UNCHANGED <<pre, waitOwn, waitVal, waitCommit, cache, blocks, head,
                   updates, checking, committing, catchVars>>

\* _handle_peer_msgs, VOTE_RESULT triggering the next epoch
\* (handle_vote_result): the result is ready; if the current epoch is over
\* the next one is initialized at once and the slot starts now.  An engine
\* still in epoch 0 while waiting for bootstrap or catching up gets no
\* result for epoch 1: the network it joins is past that election.
ElectionDecided ==
    /\ elected = Nil
    /\ ep.number < MaxEpoch
    /\ ep.number = 0 => nstate \notin {WAITING_FOR_BOOTSTRAP, CATCHING_UP}
    /\ \E r \in ElectionResults :
         IF IsOver(ep)
         THEN /\ ep' = SetCandidatesAndWitnesses(NewEpoch(ep.number + 1, NumSlots), r)
              /\ nstate' = IF nstate = CATCHING_UP THEN nstate ELSE PRODUCTION
              /\ slotAge' = FRESH
              /\ UNCHANGED elected
         ELSE /\ elected' = r
              /\ UNCHANGED <<ep, nstate, slotAge>>
    /\ UNCHANGED <<pre, waitOwn, waitVal, waitCommit, cache, hostVars,
                   bootCache, bootMsgs, hasRequested, ffTarget>>

\* A bound is reached and the host has nothing left to answer: the last
\* epoch is over (the real engine waits for the next election), or the
\* engine is catching up, waiting for bootstrap or without witnesses (in
\* epoch 0, producing nothing) and no further block can arrive to move it.
Terminated ==
    /\ \/ ep.number = MaxEpoch /\ IsOver(ep)
       \/ /\ nstate \in {CATCHING_UP, WAITING_FOR_BOOTSTRAP} \/ ep.witnesses = <<>>
          /\ Cardinality(DOMAIN blocks) = MaxBlocks
    /\ updates = <<>> /\ checking = EmptyBag /\ committing = EmptyBag
    /\ UNCHANGED vars

Next ==
    \/ Terminated
    \/ FinalizeBlock
    \/ EmptySlot
    \/ HandleMissedSlot
    \/ Tick
    \/ HandleNewBlock
    \/ HandleValidBlock
    \/ HandleInvalidBlock
    \/ HandleCommittedBlock
    \/ HandleBootstrap
    \/ HostValidate
    \/ HostCommit
    \/ PeerBlock
    \/ PeerEmptySlot
    \/ ElectionDecided

Spec == Init /\ [][Next]_vars

\* The driver loop polls the updates queue every iteration (80 ms timeout)
\* and dispatches each notification to its handler, the host validator
\* answers every check_blocks and commit_block request it was given, the
\* and the peers answer every BOOTSTRAP_REQUEST they receive.
Fairness ==
    /\ WF_vars(HandleBootstrap)
    /\ WF_vars(HandleNewBlock)
    /\ WF_vars(HandleValidBlock)
    /\ WF_vars(HandleInvalidBlock)
    /\ WF_vars(HandleCommittedBlock)
    /\ WF_vars(HostValidate)
    /\ WF_vars(HostCommit)

FairSpec == Spec /\ Fairness

-----------------------------------------------------------------------------
Blocks == 0..MaxBlocks - 1

\* Type invariant.
TypeOK ==
    /\ nstate \in {IDLE, PRODUCTION, WAITING_FOR_BOOTSTRAP, CATCHING_UP}
    /\ ep.number \in 0..MaxEpoch /\ ep.idx \in 0..EpochLen
    /\ elected \in ElectionResults \cup {Nil}
    /\ pre \in DOMAIN blocks /\ head \in DOMAIN blocks
    /\ waitOwn \in BOOLEAN /\ waitVal \in Int /\ waitCommit \in Int
    /\ slotAge \in SlotAges
    /\ cache \subseteq DOMAIN blocks
    /\ DOMAIN blocks \subseteq Blocks
    /\ building \in DOMAIN blocks \cup {Nil}
    /\ IsABag(checking) /\ BagToSet(checking) \subseteq DOMAIN blocks
    /\ IsABag(committing) /\ BagToSet(committing) \subseteq DOMAIN blocks
    /\ bootCache \subseteq DOMAIN blocks
    /\ Len(bootMsgs) <= MaxBootMsgs /\ hasRequested \in BOOLEAN
    /\ ffTarget \in DOMAIN blocks \cup {Nil}
    /\ asked \subseteq Peers /\ peerHead \in [Peers -> DOMAIN blocks]

\* The number of notifications of type t queued to the engine.
Queued(t) == Len(SelectSeq(updates, LAMBDA u : u.type = t))

\* _waiting_for_validation counts what is really outstanding: every
\* check_blocks request the engine made and has not handled the answer of
\* (fastforward adds the length of the path it sends).  A handler that
\* misses an increment or decrement lets the driver loop produce or
\* detect a missed slot while the host still validates, or stops it for
\* good.
ValidationsCounted ==
    waitVal = BagCardinality(checking) + Queued("VALID") + Queued("INVALID")

\* Spec 3 (counters: all zero outside an outstanding operation):
\* both waiting counters count what is really outstanding, validations as
\* above and every commit_block request in _waiting_for_commit.
CountersMatchRequests ==
    /\ ValidationsCounted
    /\ waitCommit = BagCardinality(committing) + Queued("COMMIT")

\* Spec 8.8: at most one of _waiting_for_own_block,
\* _waiting_for_validation > 0 and _waiting_for_commit > 0 holds: an own
\* block passes from the first to the second when it is announced, and
\* from the second to the third when it is found valid.
AtMostOneWait ==
    LET w == {i \in 1..3 : CASE i = 1 -> waitOwn
                             [] i = 2 -> waitVal > 0
                             [] i = 3 -> waitCommit > 0}
    IN  Cardinality(w) <= 1

\* waiting() always ends: once an own block, a validation or a commit is
\* outstanding, the handlers of the host's answers eventually clear every
\* flag, so that production and missed-slot detection resume.  A flag that
\* stays set freezes the engine in its slot for good.
WaitingEnds == Waiting ~> ~Waiting

\* Catch-up ends: once CATCHING_UP, the engine eventually commits the
\* fastforward target's number, bootstraps from its ConsensusData and
\* returns to PRODUCTION.  Nothing else leaves CATCHING_UP, and a further
\* BOOTSTRAP tally does not restart a fastforward that is under way.
CatchUpEnds == nstate = CATCHING_UP ~> nstate # CATCHING_UP

\* The wait for bootstrap ends: a member started on a non-genesis head
\* asks its peers for their chain heads until the tally moves it to
\* CATCHING_UP.  The startup comment (ddpoa_engine.py:103) and spec 4.4
\* expect it to catch up from the peers' replies; the blocks it is told
\* of meanwhile only go to the bootstrap cache.
WaitingForBootstrapEnds ==
    nstate = WAITING_FOR_BOOTSTRAP ~> nstate # WAITING_FOR_BOOTSTRAP

\* Spec 4.5: catch-up ends by the BLOCK_COMMIT of the fastforward target,
\* whose ConsensusData the node adopts.  A step that leaves CATCHING_UP
\* pre-commits the target itself.
BootstrapsFromTarget ==
    [][nstate = CATCHING_UP /\ nstate' # CATCHING_UP => pre' = ffTarget]_vars

\* Spec 8.1 and 3, for the engine's epoch: once filled, by an election
\* result (initialize_epoch) or a block's ConsensusData (bootstrap), the
\* witness list holds min(num_slots, |members|) keys and witnesses followed
\* by the candidate queue orders all members, whatever reshuffles
\* (increment_witness) and downgrades (an invalid block, a missed slot, a
\* block from the wrong signer) happened since.  With fewer slots than
\* members the queue is then never empty when downgrade_witness takes from
\* it, so Queue.get() never blocks the driver loop.
CommitteeIsPermutation ==
    ep.witnesses # <<>> =>
        /\ Len(ep.witnesses) = IF NumSlots < Cardinality(Members)
                               THEN NumSlots ELSE Cardinality(Members)
        /\ FullCandidateList(ep) \in SetToSeqs(Members)

\* The host chain as seen from the engine: HostChain with the same blocks
\* and head.
Chain == INSTANCE HostChain

\* The engine implements the host-chain promise: every step, whether the
\* engine handles a notification or a peer publishes, either only adds
\* blocks or moves the head to a valid child of the head.  The engine asks
\* to commit only a validated block that extends the pre-committed block
\* (handle_valid_block), and asks no second commit before the host has
\* answered the first (BLOCK_COMMIT resets pre).
ImplementsHostChain == Chain!Spec

=============================================================================
