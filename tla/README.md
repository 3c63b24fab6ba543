# TLA+ models of the DDPoA consensus engine

These modules model the Python consensus engine under `src/consensus/pkg/engine/`.
They are checked with TLC. Every definition is translated from the source.
`PROJECT.json` maps each definition to the lines it models, lists the runs and
their seeded faults, and records the findings and the hazards of the code.

## The system

Each member runs one engine process:

- **Epoch** (`epoch.py`) holds the witness list, the FIFO candidate queue and
  the slot cursor `current_witness_idx`.
  - An epoch lasts three rounds of the witness list.
  - The list is reshuffled with a hash of the pre-committed block id at every
    round boundary.
  - A misbehaving witness is swapped with the front candidate.
- **VotingSystem** (`voting_system.py`) stores ballots and peer results per
  epoch.
  - It tabulates ballots (an external STV library, then `break_ties` and
    `get_slot_winner`).
  - It counts equal results against `consensus_amount = max(num_slots, 1 + 2*online/3)`.
- **DDPoANode** (`ddpoa_node.py`) is the election protocol.
  - Near the end of an epoch a member votes: it broadcasts a ballot and
    rebroadcasts it while in ELECTION.
  - On receiving ballots it broadcasts its result at once when it has every
    ballot, or arms a 15-second `threading.Timer` when it has enough.
  - On receiving results it marks the next epoch ready when one result reaches
    `consensus_amount`, or before epoch 1 when it reaches `online_peers`.
  - `next_slot` ends the epoch (`finalize_epoch`) and starts the next one
    (`initialize_epoch`) if its result is ready; `handle_vote_result` starts it
    itself when the current epoch is already over.
- **Communicator** (`consensus_messaging.py`) puts every incoming gRPC message
  on one queue. The driver loop (`DDPoAEngine.start` in `ddpoa_engine.py`)
  takes one message per iteration, and then votes, rebroadcasts or advances the
  slot.
- **DDPoAEngine** (`ddpoa_engine.py`) also runs the block pipeline against
  the host validator.
  - The current witness finalizes a block, or broadcasts EMPTY_SLOT.
  - The host announces a block with BLOCK_NEW. A block that extends the
    pre-committed block from the expected signer is sent for validation
    (`check_blocks`).
  - A VALID block is committed (`commit_block`), and an INVALID one
    downgrades its signer.
  - BLOCK_COMMIT makes the block the pre-committed one and advances the slot.
  - Three counters (`_waiting_for_own_block`, `_waiting_for_validation`,
    `_waiting_for_commit`) stop production and missed-slot detection while
    the host owes an answer.
- **Catch-up** (`ddpoa_engine.py`). An engine started on a chain head other
  than the genesis block waits for bootstrap.
  - It asks its peers for their chain heads and tallies the BOOTSTRAP
    replies.
  - Once one head reaches `consensus_amount - 1` entries, `fastforward`
    enters CATCHING_UP. It sends the cached path to that target (or the
    fork found by `common_and_forked_block`) for validation.
  - The commit of a block with the target's number bootstraps the node from
    the block's ConsensusData.
  - **BlockCache** holds the recent blocks for these walks.

## Modules

| Module | Models | State and actions |
|---|---|---|
| `Epoch` | `epoch.py`, `config.py` constants | Operators only: an epoch is a record `[number, idx, witnesses, candidates, num_slots]`, and every method is an operator on it. |
| `Voting` | pure parts of `voting_system.py` | Operators: `ConsensusAmount`, `HasEnoughBallots`, `HasAllBallots`, `ConsensusResults`/`ConsensusCount` (`get_consensus_result`), `Scores`, `DrawLoop` (RECURSIVE), `BreakTies`, `GetSlotWinner`, `CalculateResult`. |
| `Election` | election and epoch transition of `ddpoa_node.py` over all members | Per-member `ep`, `nstate`, `ballots`, `results`, `cands`, `ready` (`ready_result`), `timer` (`broadcast_timer`), `inbox` (`Communicator.queue`), `rebroadcasts`. Actions: `Vote`, `RebroadcastBallot`, `ReceiveVote` (`handle_vote`), `TimerFires`, `ReceiveResult` (`handle_vote_result`), `NextSlot` (`next_slot` with `finalize_epoch`/`initialize_epoch`), `Terminated`. Fault model `NextLossy`: `Next` or `LoseResult` (a `Peer.send` of a VOTE_RESULT that fails; at most `MaxLoss`), with the counter `lost`. |
| `Engine` | one engine of `ddpoa_engine.py` with its node's epoch, against the host validator and the peers | Engine state: `nstate`, `ep` (Epoch record), `elected` (`ready_result` and the candidate list of the next epoch), `pre` (`pre_committed_block`), `waitOwn`, `waitVal`, `waitCommit`, `slotAge` (time since `_slot_started_at`: FRESH, DUE past `BLOCK_INTERVAL`, LATE past the slot timeout), `cache` (BlockCache), `bootCache`, `bootMsgs`, `hasRequested`, `ffTarget`. Environment: `blocks` (every block with its number, parent, signer, validity and ConsensusData), `head` (the host's chain head), `building`, `updates` (the host notification queue), `checking` and `committing` (bags of outstanding host requests), `asked` (peers owing a BOOTSTRAP reply), `peerHead`. Actions: `FinalizeBlock`, `EmptySlot`, `HandleMissedSlot`, `Tick`, `HandleNewBlock`, `HandleValidBlock`, `HandleInvalidBlock`, `HandleCommittedBlock`, `HandleBootstrap`, `PeerEmptySlot`, `ElectionDecided`. Environment actions: `HostValidate`, `HostCommit`, `PeerBlock`. BlockCache walks and `common_and_forked_block` are RECURSIVE operators. |
| `EpochAgreement` | what the election promises the members (spec 4.2, 4.3) | `chosen` (the list of each epoch, or none yet) and `current` (each member's epoch with its committee: witness set and candidate queue). `Choose` fixes an epoch's list; `Enter` moves a member to its next epoch with that list's committee, fixing the list if nobody has. `Election` implements it: `ImplementsEpochAgreement` maps `chosen[e]` to the `candidates[e]` some member stored and `current[n]` to the number, witnesses and queue of `ep[n]`. |
| `HostChain` | what the engine promises the host chain (spec 4.5) | `blocks`, `head`. `Publish` (blocks are added, none changes), `Commit` (the head moves to a valid child of the head). `Engine` implements it: `ImplementsHostChain == Chain!Spec` with `Chain == INSTANCE HostChain`; the variables have the same names, so the refinement mapping is the identity on them and hides the engine's own state. |
| `MCElection`, `MCEngine` | instantiations for TLC | Members as model values. `concat_and_hash` is replaced by small injective arithmetic functions. Ballot profiles and initial cursors are definitions. `MCElection` also holds the reference ranking of spec 4.2 (RECURSIVE halving weights; each cast ballot's points are computed once per state and summed over a ballot set, `RefPoints`, `RefSum`), and start states in which some members have already voted (`MCInitVotedBy`). |

Correspondence points:

- Each action is the whole handler.
  - `ReceiveVote` includes the epoch and duplicate filters, `add_ballot`, the
    timer cancel and either the immediate `broadcast_result` (with
    `calculate_result` storing the own result) or the timer re-arm.
  - `ReceiveResult` includes `set_peer_result`, the trigger, `set_candidates`
    and, for an over epoch, `initialize_epoch`.
- A broadcast is one step that appends the message to every other member's
  queue. `Communicator.broadcast` joins its send threads before returning,
  which keeps per-sender order. The code does not order the calls of
  different senders, so two receivers can see two broadcasts in opposite
  orders; the model does not produce that. One channel per sender and
  receiver (any merge of the senders' sequences) was tried, and it made the
  election state spaces about nine times larger, beyond what the runs can
  afford.
- Engine actions are whole handlers too.
  - `HandleCommittedBlock` includes the bootstrap, `_next_slot` (with
    `next_slot`, `finalize_epoch` and `initialize_epoch`, `initialize_block`
    for the new witness) and the next-block check.
  - `HandleBootstrap` includes the tally, `fastforward` (every case, and the
    raise out of `common_and_forked_block`) and the buffer clear.
  - The host answers one request per step (`HostValidate`, `HostCommit`).
    It validates a block only after its parent and commits every block it
    is asked to, which makes it the chain head.
- Peers publish blocks on any block they know (forks included). A correct
  peer signs at most one block per number, and its host's head follows its
  valid blocks. Peer blocks carry the ConsensusData of epoch 1.
- Floats: the `break_ties` weights 1/2, 1/4, ... are scaled by 2^n to the
  integers 2^(n-1), ..., 1. The sums and comparisons are exact in both.
- `get_consensus_result` takes Python's `max` over dict order. The model lets
  the caller pick any most frequent result. A tie can only matter when the
  count triggers, which needs at least 3 of 4 equal results, so the choice
  never splits a trigger.
- The STV count (library `stvpoll`, not in this repository) is taken to elect
  nobody, so the whole result comes from `break_ties` with the epoch as seed.
  What the models need holds for the library too: the result is a function of
  the stored ballots, and different ballot subsets can give different results.

## Runs

| Run | Checks | Shows |
|---|---|---|
| `election_timer` | `TypeOK`, `ResultsMatchReference`, `ImplementsEpochAgreement` | From k2 and k3 having voted, k1's timer may fire before all ballots arrive, under a ballot profile with equal scores (`MCBallotsTie`). Every member's own result is the spec 4.2 order (descending weighted score, then seeded hash; `RefSum`, `RefOrdered` in `MCElection`) of the ballots of at least `consensus_amount` members. With this one early timer the election implements `EpochAgreement`: every member stores one list per epoch and enters the epoch with its committee (41,358 states). |
| `election_behind` | `AllBallotsTabulated`, `ElectionNeverStalls` | From k2 and k3 having voted, k1 is one slot behind, so its result is ready before its epoch ends and `next_slot` starts the epoch, and one ballot is rebroadcast and may arrive late. No member holds a complete ballot set without a result or a pending timer (a rebroadcast ballot is dropped before it can cancel a timer), the election never stalls, and nobody deadlocks (170,441 states). |
| `first_epoch` (violation) | `NoUnanimousResultInEpochZero` | Spec S1 (4 members, 3 slots, genesis): a member that votes last holds four equal results and never starts epoch 1. |
| `three_members` (violation) | `AllBallotsTabulated` | With 3 members, the member voting last never computes a result, and the election stalls. |
| `agreement_split` (violation) | `CandidateAgreement` | From every member having voted (k4 last), with three early timers, a member's later full-set result overwrites its timer result at the receivers, and two members start epoch 2 with different lists. |
| `result_loss` (violation) | `ElectionNeverStalls` | k2, k3, k4 have voted in epoch 1 and k1 is one slot behind. One lost VOTE_RESULT leaves k1 IDLE in epoch 1 for ever, while the others reach epoch 2. Without the loss the election never stalls: `election_behind` checks `ElectionNeverStalls` over states that include this start. |
| `engine_pipeline` | `CountersMatchRequests`, `AtMostOneWait`, `CommitteeIsPermutation`, `ImplementsHostChain`, `WaitingEnds` | From genesis: own and peer blocks (valid or invalid), forks, empty and missed slots, and the election of epoch 1. Both counters equal the host requests outstanding, and at most one wait flag is set (spec 8.8). Through downgrades and reshuffles, witnesses plus queue stay an ordering of all members with a full committee. The engine implements `HostChain`, and `waiting()` always ends. |
| `engine_catchup` | `TypeOK`, `ValidationsCounted` | m1 is stranded in epoch 0 on the genesis block (it never learnt the first election's result, finding 1) while its host receives blocks 1 to 3 of m2 and m3, who keep publishing, also invalid blocks and forks. With no witnesses it expects no signer, so the second block is beyond the next number and `_handle_new_block` broadcasts a BOOTSTRAP_REQUEST (lines 384-399). Every bootstrap, fastforward and catch-up path keeps `_waiting_for_validation` equal to the validations outstanding. |
| `catchup_counters` (violation) | `CountersMatchRequests` | The CATCHING_UP commit is not counted, and `_waiting_for_commit` reaches -1 (8 states). |
| `catchup_stall` (violation) | `CatchUpEnds` | The target's VALID is handled before its parent's COMMIT and failed, and the engine stays in CATCHING_UP. |
| `catchup_target` (violation) | `BootstrapsFromTarget` | A fork sibling with the target's number is committed and the node bootstraps from it. |
| `network_restart` (violation) | `WaitingForBootstrapEnds` | m1 restarts on block 1 while m2 and m3 are at block 3, and blocks 2 and 3 reach its host. No request can leave WAITING_FOR_BOOTSTRAP (see finding 7), new blocks only fill the bootstrap cache, and m1 waits for ever. |

Each property of a passing run has a seeded fault in `PROJECT.json` ("mutants"),
and TLC finds the property violated under it:

- `__init__` ignoring its slots argument;
- `downgrade_witness` peeking at the queue instead of taking from it (a
  member is then both witness and candidate);
- `get_slot_winner` taking the minimal hash, and `has_enough_ballots` one
  ballot short (both against the reference ranking);
- the timer cancelled before the duplicate-ballot filter;
- `next_slot` ending the epoch without looking at `ready_result` (the
  election stalls);
- `handle_vote_result` storing the list of the message that completed the
  count instead of the most frequent one (breaks the `EpochAgreement`
  refinement);
- `_handle_invalid_block` not decrementing `_waiting_for_validation`;
- `waiting()` forgetting `_waiting_for_own_block`;
- the commit check dropping the previous-id comparison (breaks the
  `HostChain` refinement);
- the own block's announcement not clearing `_waiting_for_own_block`;
- `bootstrap` starting the following epoch;
- `fastforward` counting one validation per `check_blocks` call instead of
  one per block.

Deadlock is checked in every run. The election model stops only in
`Terminated`: every member is in `MaxEpoch`, with an empty queue and no timer.
The engine model stops there too, with the host owing nothing, either in an
over `MaxEpoch`, or, once the block bound stops the peers, in CATCHING_UP,
in WAITING_FOR_BOOTSTRAP, or without witnesses in epoch 0 (a stranded
member whose tally did not fire waits for the next block).

### Findings

1. **Own result never checked** (`voting_system.py:104`, `ddpoa_node.py:224`).
   - Trace: the member receives the three peer ballots before voting, which
     arms its timer. `vote()` then adds its own ballot without a check. The
     three peer results arrive (count 3 of 4).
   - The timer's `calculate_result` stores the own result (count 4) via
     `set_peer_result`, and no consensus check runs.
   - The member stays in epoch 0 although every peer reaches epoch 1.
2. **Vote-last with three members** (`ddpoa_node.py:45`). `consensus_amount(3)
   = 3`. A member that receives both peer ballots first arms no timer (2 < 3).
   Its own ballot completes the set inside `vote()`, which checks nothing, so
   no member ever gets three results. In the four-member runs the same path is
   saved by the timer armed at three ballots.

3. **Timer result overwritten** (`ddpoa_node.py:204`). A member whose timer
   already broadcast the result of three ballots broadcasts a second result
   when the fourth ballot arrives, and `set_peer_result` overwrites the first
   at every receiver. With three early timers, k1 counts one list to
   `consensus_amount` and another member a different one, so the members
   start epoch 2 with different committees.
4. **Uncounted catch-up commit** (`ddpoa_engine.py:407`, `:458`). The
   CATCHING_UP branch of `_handle_valid_block` calls `commit_block` without
   incrementing `_waiting_for_commit`, and `_handle_committed_block`
   decrements it. The counter goes to -1, so `waiting()` is false while a
   later commit is outstanding.
5. **Catch-up stall** (`ddpoa_engine.py:407`). `fastforward` sends the whole
   path at once.
   - The target's VALID is handled before its parent's COMMIT, so its
     previous id is not the pre-committed block. The normal checks fail it
     (epoch 0 has no expected signer).
   - After the parent commits, the next-block check finds nothing, and a
     BOOTSTRAP tally does nothing while CATCHING_UP.
   - The engine never leaves CATCHING_UP, contrary to spec 4.7.
6. **Target by number** (`ddpoa_engine.py:461`). The bootstrap fires for any
   committed block with `block_num == fastforward_target`.
   - Trace: a commit of a fork sibling is in flight when the tally starts
     the fastforward.
   - Its COMMIT bootstraps the node from the sibling's ConsensusData, not
     the target's.
7. **A restarted member never asks for bootstrap** (`ddpoa_engine.py:552`,
   `consensus_messaging.py:61`). A member started on a non-genesis head
   waits for bootstrap, and only a BOOTSTRAP tally moves it on.
   - `_handle_peer_connected` calls `send_bootstrap_request` before
     `peer_connected` registers the peer, and `Communicator.send` indexes
     `_peers[to]`, so the send raises KeyError.
   - The loop's request every five seconds (lines 197-203) walks
     `_node.peers`, which holds the member itself, and raises on it.
   - `_handle_new_block` broadcasts a request only outside
     WAITING_FOR_BOOTSTRAP. So the member waits for ever, even with peers
     ahead. The startup comment (line 103) says it catches up.
8. **One lost result stalls a member** (`ddpoa_node.py:117`,
   `voting_system.py:104`). A VOTE_RESULT is sent once, and `Peer.send`
   swallows a failure (`consensus_messaging.py:110`). Trace: k1 receives the
   three peer ballots before voting and arms its timer; it gets two peer
   results; its timer stores its own as the third, with no check (finding 1);
   k4's result to k1 is lost. k1 holds three equal results, the threshold,
   but no handler ever counts them, so it stays IDLE in epoch 1 while the
   others start epoch 2. Spec 7 says the engine tolerates transient errors
   and converges.

## Bounds, reductions and why they are enough

- **Members and slots.**
  - Four members with one witness slot: `consensus_amount = 3`, so a
    quorum is a strict subset and early timers matter.
  - Three members show the no-slack threshold.
  - `MaxEpoch = FirstEpoch + 1`: one election. Later elections repeat the same
    code with fresh per-epoch maps.
- **Ballot profile** (`MCBallots`). Each member has one ballot. The ballots of
  {k1, k2, k3} tabulate to `<<k1,k2,k3,k4>>`, while every other three-set and
  the full set give `<<k1,k3,k2,k4>>`. Results therefore really diverge when a
  timer fires early. No set of three or four of these ballots has equal
  scores, so the timer run uses `MCBallotsTie` instead. For the seed 2, five
  of its eleven sets of three or more ballots end in a draw settled by the
  hash. Every three-set containing k1 tabulates to a list other than the
  full set's, and six two-sets give lists no three ballots give, so a result
  from too few ballots is told apart.
- **`TimerNodes`.** Timers run for 15 s, while messages arrive in milliseconds.
  The timer of a member outside `TimerNodes` fires only once every ballot has
  reached it. The timer run lets k1 fire early, and the agreement-split run
  lets k1, k2 and k3 fire early.
- **Finished members.** A member in `MaxEpoch` drops every later message
  (nothing is for its next epoch), so messages are not queued to it and its
  queue is emptied when it gets there (`Live`).
- **Initial states.** Members start at the end of epoch 1 with the list
  `FirstResult`, or at epoch 0 for the genesis run. A member whose epoch is
  over starts IDLE, as `finalize_epoch` leaves it. The four-member runs
  start later, in a state reached from there by `Vote` steps alone
  (`MCInitVotedBy`): some members have voted for epoch 2, in a given order,
  and their ballots are queued at the others. The timer and behind runs
  start after k2 and k3 have voted, the loss run after k2, k3 and k4, and
  the split run after all four. Every interleaving of the remaining votes,
  deliveries, timers and slot steps is explored.
- **VIEW `ElectionView`.** In an over epoch, a member that has voted and may
  not rebroadcast behaves the same in ELECTION and IDLE. Its only enabled slot
  step sets IDLE, so the view identifies the two. The properties read only
  what the view keeps: `CanStep` leaves out that settled slot step (`Settled`
  in `Election`), which makes no progress, and the refinement mapping does
  not read `nstate`. A view can hide a deadlock of a merged state, so
  `election_behind` was also run once without the view from `Init`:
  5,876,693 states, no deadlock and no violation (13 minutes, too slow for
  the regular runs).
- **Message loss.** `LoseResult` drops a VOTE_RESULT from a queue, at most
  `MaxLoss` times. It is a step of `NextLossy`, not of `Next`: the passing
  runs check the election over reliable delivery, and `result_loss` checks
  `NextLossy`. One loss in a passing run from the end of epoch 1 took 8
  minutes (1.3M states), so the passing runs deliver every message. Ballots are not dropped: a member rebroadcasts its ballot
  while in ELECTION, so a lost ballot is a delayed one, which the rebroadcast
  runs already cover. The loss run starts from a state after three members
  have voted (`MCInitVotedBy`), with one loss; a loss in the runs from the
  end of epoch 1 exceeds the time budget.
- **HostChain refinement.** The abstract spec allows any number of blocks,
  so the bound on blocks only limits the engine side.
- **Engine instances** (`MCEngine`).
  - One engine m1 among three members, with two witness slots.
    `consensus_amount(3) = 3`, so the tally fires at two entries. The
    candidate queue is never empty, so a downgrade never blocks.
  - Epochs 0 and 1 (`MaxEpoch = 1`), with two election results: m1 a
    witness or not.
  - The pipeline run allows 4 blocks. Three blocks after genesis cover an
    own block, a peer block and a fork sibling. BOOTSTRAP replies are lost
    there (`MaxBootMsgs = 0`), as a fresh network never catches up.
  - The catch-up runs start m1 on the genesis block in epoch 0, with no
    election result (`MCNoResults`), while blocks 1 to 3 of the chain
    0-1-2-3 reach its host (`MCStrandedUpdates`). This is the member that
    finding 1 strands; it reaches catch-up through the broadcast of
    `_handle_new_block`. `engine_catchup` allows 6
    blocks (two new ones: a successor and a sibling) and 3 BOOTSTRAP
    replies (a first round from both peers and one repeat).
  - The two violation runs `catchup_counters` and `catchup_stall` use 5
    blocks and a host that finds every block valid, so the faults need no
    invalid block.
  - Time is three slot ages: FRESH, DUE (past `BLOCK_INTERVAL`) and LATE
    (past the slot timeout). A handler that restarts the slot sets any of
    them, as the block or message timestamp it uses can lie anywhere in the
    past.
- **Slot cursor.** It is capped at `EpochLen` once the epoch is over (`CapIdx`).
  No predicate of the code tells larger values apart.

## Liveness and fairness

The driver loop polls its queue every iteration, and a timer thread always runs
out. Weak fairness of the delivery and timer steps is therefore justified.

- **Election.** Within the bounds every behaviour is finite apart from the
  `Terminated` stutter. Under that fairness, "every member eventually reaches
  `MaxEpoch`" is the same as "no reachable state with a member short of
  `MaxEpoch` has every member without a step". `ElectionNeverStalls` states
  this with an explicit `CanStep` (a non-empty queue, a due vote, a timer
  that may fire, a slot step left other than the settled one that only sets
  IDLE). `election_behind` checks it over reliable delivery, and
  `result_loss` shows it fails after one lost result. `CanStep` lists the guards of the
  actions, so it is checked as an invariant. TLC's `ENABLED` through the
  recursive tabulation, and a `<>` property with 20 fairness conditions,
  were too slow at these sizes.
- **Engine.** `FairSpec` puts weak fairness on the host-update handlers,
  the host's answers (the host answers every request) and the peers'
  replies to a BOOTSTRAP_REQUEST. The five-second request of the loop gets
  none: in WAITING_FOR_BOOTSTRAP it always raises (finding 7), so it is no
  step at all. Block production, slot
  ticks and peers are not assumed to act.
  `WaitingEnds` (pipeline) and `WaitingForBootstrapEnds` (restart) are `~>`
  properties under it.

## Not modelled

- **Peer liveness and scores** (`consensus_node.py`, `penalize`, `reward`,
  `seen`). They only weight `fill_ballot`, which the models replace by a
  set of possible ballots per member, so every ballot the scores could
  produce is already among the choices.
- **Loss of ballots and of engine messages, disconnection, and varying
  `online_peers`.** A lost ballot is a delayed one, because it is
  rebroadcast. Varying connectivity needs a model of `Peer.connect`, ping
  and gRPC failures, and each member's `online_peers` then changes the
  thresholds it uses; with the election state spaces at the limit of the
  runs, that is out of reach.
- **Cross-sender reordering of messages.** See the correspondence points.
  Per-sender channels grow the state space about ninefold.
- **PEER_CONNECTED and PEER_DISCONNECTED** beyond their bootstrap request.
  They register or drop a peer connection, which changes only
  `online_peers`; the request they send while WAITING_FOR_BOOTSTRAP raises
  (finding 7), and outside that state it is never sent.
- **BlockCache eviction.** At most six blocks exist, below its ten entries.
- **`fail_block` of a forked committed block at the host.** The host model
  has no failed-block state.
- **An engine ahead of the peers that answer its bootstrap request**
  (`ddpoa_engine.py:299`). It needs an `MCEngine` instance in which the
  peers' heads lie behind the host's chain. The hazard is listed in
  `PROJECT.json`, unchecked.
- **`remove_old_epoch_data`.** It acts once results are held for ten epochs,
  far beyond the one election of the bounds.
- **The engine in a network of engines** (composing `Engine` with
  `Election`). The two models share the epoch transition but each is at the
  time limit alone. Their interface is the candidate list of the next epoch,
  which `Engine` takes from `ElectionDecided` and which `EpochAgreement`
  describes.
